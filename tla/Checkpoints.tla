---------------------------- MODULE Checkpoints ----------------------------
(***************************************************************************)
(* The registry's transparency service: the signing key that processes     *)
(* sharing a volume create once (lib.rs registry_signing_key), the root of *)
(* the Merkle tree over registry_events, and the signed checkpoints the    *)
(* handlers serve (postgres_api.rs).  Module MerkleProofs has the proofs   *)
(* they serve.                                                             *)
(*                                                                         *)
(* Hashes do not collide: a hash is the term it was computed from, and the *)
(* domain separation bytes are the tags "leaf" and "node".                 *)
(***************************************************************************)
EXTENDS Naturals, Sequences

CONSTANTS Servers,       \* registry processes that start on one data directory
          EventHashes,   \* event_hash values
          MaxLog,        \* bound on the number of events
          NoKey

ASSUME CheckpointAssumption == NoKey \notin Servers /\ MaxLog \in Nat

VARIABLES keyFile,       \* registry-signing.key
          server,        \* [Servers -> [pc, key]]
          log,           \* event_hash ORDER BY sequence
          seen           \* the checkpoint a witness remembers

cpVars == <<keyFile, server, log, seen>>

(***************************************************************************)
(* Merkle tree                                                             *)
(***************************************************************************)
HashLeaf(l) == <<"leaf", l>>

\* Faulty: the hashes of the two children are combined in either order.
HashChildrenUnordered(l, r) == <<"node", {l, r}>>
HashChildren(l, r) == <<"node", l, r>>

EmptyRoot == <<"empty">>

\* The largest power of two at most n.
PowerBelow[n \in Nat] == IF n < 2 THEN 1 ELSE 2 * PowerBelow[n \div 2]

\* split_point: the largest power of two below the length.
SplitPoint(length) == PowerBelow[length - 1]

SubtreeRoot[s \in Seq(EventHashes)] ==
  IF s = <<>> THEN EmptyRoot
  ELSE IF Len(s) = 1 THEN HashLeaf(s[1])
  ELSE LET k == SplitPoint(Len(s))
       IN HashChildren(SubtreeRoot[SubSeq(s, 1, k)], SubtreeRoot[SubSeq(s, k + 1, Len(s))])

(***************************************************************************)
(* The processes                                                           *)
(***************************************************************************)
CheckpointTypeOK ==
  /\ keyFile \in Servers \cup {NoKey}
  /\ \A p \in Servers : /\ server[p].pc \in {"start", "link", "serve"}
                        /\ server[p].key \in Servers \cup {NoKey}
  /\ log \in Seq(EventHashes) /\ Len(log) <= MaxLog

CheckpointInit ==
  /\ keyFile = NoKey /\ log = <<>> /\ seen = [size |-> 0, root |-> EmptyRoot, key |-> NoKey]
  /\ server = [p \in Servers |-> [pc |-> "start", key |-> NoKey]]

\* registry_signing_key: read the file, or write a new key to a temporary file.
FindKey(p) ==
  /\ server[p].pc = "start"
  /\ server' = [server EXCEPT ![p] =
        IF keyFile = NoKey THEN [pc |-> "link", key |-> p]
        ELSE [pc |-> "serve", key |-> keyFile]]
  /\ UNCHANGED <<keyFile, log, seen>>

\* Faulty: the temporary file is renamed over the key.
LinkKeyOver(p) ==
  /\ server[p].pc = "link"
  /\ keyFile' = p /\ server' = [server EXCEPT ![p] = [pc |-> "serve", key |-> p]]
  /\ UNCHANGED <<log, seen>>

\* hard_link does not replace: the loser reads the key that is there.
LinkKey(p) ==
  /\ server[p].pc = "link"
  /\ keyFile' = IF keyFile = NoKey THEN p ELSE keyFile
  /\ server' = [server EXCEPT ![p] = [pc |-> "serve", key |-> keyFile']]
  /\ UNCHANGED <<log, seen>>

\* append_event, serialized by its advisory lock (module AuditLog).
AppendHash(p, e) ==
  /\ server[p].pc = "serve" /\ Len(log) < MaxLog
  /\ log' = Append(log, e) /\ UNCHANGED <<keyFile, server, seen>>

\* GET checkpoint, and the checkpoint inside a verdict bundle: one SELECT.
Checkpoint(p) == [size |-> Len(log), root |-> SubtreeRoot[log], key |-> server[p].key]

WitnessCheckpoint(p) ==
  /\ server[p].pc = "serve" /\ seen' = Checkpoint(p)
  /\ UNCHANGED <<keyFile, server, log>>

CheckpointNext ==
  \E p \in Servers :
    \/ FindKey(p) \/ LinkKey(p) \/ WitnessCheckpoint(p)
    \/ \E e \in EventHashes : AppendHash(p, e)

CheckpointSpec == CheckpointInit /\ [][CheckpointNext]_cpVars

-----------------------------------------------------------------------------
\* Processes that create the signing key at the same moment end with the key
\* that is in the file, so every checkpoint verifies under one public key.
OneSigningKey ==
  /\ \A p \in Servers : server[p].pc = "serve" => server[p].key = keyFile
  /\ seen.key \in {NoKey, keyFile}
=============================================================================

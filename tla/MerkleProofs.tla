---------------------------- MODULE MerkleProofs ----------------------------
(***************************************************************************)
(* The inclusion and consistency proofs of the registry's transparency     *)
(* service and their verification (lib.rs), over the log and the           *)
(* checkpoints of module Checkpoints.                                      *)
(***************************************************************************)
EXTENDS Checkpoints

\* What a verification that gives up returns, where it would return a hash.
NoHash == <<>>

(***************************************************************************)
(* Inclusion                                                               *)
(***************************************************************************)
\* inclusion_path for every zero-based index: siblings from the leaf up.
InclusionPath[s \in Seq(EventHashes)] ==
  [index \in 0..Len(s) - 1 |->
    IF Len(s) <= 1 THEN <<>>
    ELSE LET k == SplitPoint(Len(s))
             left == SubSeq(s, 1, k)
             right == SubSeq(s, k + 1, Len(s))
         IN IF index < k THEN Append(InclusionPath[left][index], SubtreeRoot[right])
            ELSE Append(InclusionPath[right][index - k], SubtreeRoot[left])]

\* verify_merkle_inclusion's reconstruct, for every tree of at most size leaves
\* and every index in it: the hash and how much of the path it has used.
Reconstruct(leaf, size, path) ==
  LET tree[n \in 1..size] ==
        [index \in 0..n - 1 |->
          IF n = 1 THEN [hash |-> HashLeaf(leaf), cursor |-> 0]
          ELSE LET k == SplitPoint(n)
                   child == IF index < k THEN tree[k][index] ELSE tree[n - k][index - k]
               IN IF child.hash = NoHash \/ child.cursor >= Len(path)
                  THEN [hash |-> NoHash, cursor |-> child.cursor]
                  ELSE LET sibling == path[child.cursor + 1]
                       IN [hash |-> IF index < k THEN HashChildren(child.hash, sibling)
                                    ELSE HashChildren(sibling, child.hash),
                           cursor |-> child.cursor + 1]]
  IN  tree

\* verify_merkle_inclusion: the path must be used up.
VerifiesInclusion(leaf, index, size, path, root) ==
  /\ index < size
  /\ Reconstruct(leaf, size, path)[size][index] = [hash |-> root, cursor |-> Len(path)]

(***************************************************************************)
(* Consistency                                                             *)
(***************************************************************************)
IsPower(n) == n > 0 /\ PowerBelow[n] = n

\* The power of two a cursor is aligned to: its trailing zeros.
Alignment(n) ==
  LET aligned == {p \in 1..n : IsPower(p) /\ n % p = 0}
  IN  CHOOSE p \in aligned : \A q \in aligned : q <= p

\* compact_range's block at cursor: aligned, and no longer than what is left.
BlockSize(cursor, end) ==
  LET fits == PowerBelow[end - cursor]
  IN IF cursor = 0 THEN fits
     ELSE IF Alignment(cursor) < fits THEN Alignment(cursor) ELSE fits

Block(s, cursor, size) ==
  [start |-> cursor, size |-> size,
   hash |-> SubtreeRoot[SubSeq(s, cursor + 1, cursor + size)]]

\* compact_range: the blocks of the last n leaves before end, from the first on.
CompactRange(s, start, end) ==
  LET nodes[n \in 0..end - start] ==
        IF n = 0 THEN <<>>
        ELSE LET size == BlockSize(end - n, end)
             IN <<Block(s, end - n, size)>> \o nodes[n - size]
  IN  nodes[end - start]

\* merkle_consistency_proof
ConsistencyProof(s, from) ==
  [from_size |-> from, to_size |-> Len(s),
   prefix |-> CompactRange(s, 0, from), suffix |-> CompactRange(s, from, Len(s))]

\* root_from_frontier's inner loop, once: the two blocks on top of the stack are
\* merged if they are the halves of an aligned block ...
MergeTop(stack) ==
  LET l == stack[Len(stack) - 1]
      r == stack[Len(stack)]
  IN IF \/ Len(stack) < 2
        \/ l.size # r.size \/ l.start + l.size # r.start \/ l.start % (l.size * 2) # 0
     THEN stack
     ELSE Append(SubSeq(stack, 1, Len(stack) - 2),
                 [start |-> l.start, size |-> l.size * 2,
                  hash |-> HashChildren(l.hash, r.hash)])

\* ... as often as there is something to merge.
Merged(stack) ==
  LET merged[n \in 0..Len(stack)] == IF n = 0 THEN stack ELSE MergeTop(merged[n - 1])
  IN  merged[Len(stack)]

\* The outer loop pushes node after node.
Stacked(nodes) ==
  LET stack[n \in 0..Len(nodes)] ==
        IF n = 0 THEN <<>> ELSE Merged(Append(stack[n - 1], nodes[n]))
  IN  stack[Len(nodes)]

\* What remains is folded from the right.
Folded(stack) ==
  LET root[n \in 1..Len(stack)] ==
        IF n = 1 THEN stack[Len(stack)].hash
        ELSE HashChildren(stack[Len(stack) - n + 1].hash, root[n - 1])
  IN  root[Len(stack)]

\* root_from_frontier: the nodes must follow each other from 0 up to the size.
RootFromFrontier(nodes, expected) ==
  LET ends == [i \in 0..Len(nodes) |->
                 IF i = 0 THEN 0 ELSE nodes[i].start + nodes[i].size]
  IN IF \/ \E i \in 1..Len(nodes) : nodes[i].start # ends[i - 1] \/ ~IsPower(nodes[i].size)
        \/ ends[Len(nodes)] # expected
     THEN NoHash
     ELSE IF nodes = <<>> THEN EmptyRoot ELSE Folded(Stacked(nodes))

\* verify_merkle_consistency
VerifiesConsistency(proof, from_root, to_root) ==
  /\ proof.from_size <= proof.to_size
  /\ RootFromFrontier(proof.prefix, proof.from_size) = from_root
  /\ RootFromFrontier(proof.prefix \o proof.suffix, proof.to_size) = to_root

-----------------------------------------------------------------------------
\* consistency_proof: the log as it grows is always provably an extension of
\* any checkpoint served before, whatever its size.
CheckpointsExtend ==
  /\ VerifiesConsistency(ConsistencyProof(log, seen.size), seen.root, SubtreeRoot[log])
  /\ \A from \in 0..Len(log) :
       VerifiesConsistency(ConsistencyProof(log, from), SubtreeRoot[SubSeq(log, 1, from)],
                           SubtreeRoot[log])

\* ... and never of a checkpoint of another history: the proof a log gives for
\* a size refutes the root of every other log of that size, one that only
\* orders the same events differently included.
ForksRefuted ==
  \A from \in 1..Len(log) : \A other \in [1..from -> EventHashes] :
    other # SubSeq(log, 1, from)
      => ~VerifiesConsistency(ConsistencyProof(log, from), SubtreeRoot[other],
                              SubtreeRoot[log])

\* inclusion_proof: every event's path reconstructs the root, and no other event
\* passes with it.
InclusionExact ==
  \A i \in 1..Len(log), e \in EventHashes :
    VerifiesInclusion(e, i - 1, Len(log), InclusionPath[log][i - 1], SubtreeRoot[log])
      <=> (e = log[i])

\* The proofs the registry serves are accepted for its own history at every
\* pair of sizes, and for no other history.
ProofsExact ==
  CheckpointsExtend /\ ForksRefuted /\ InclusionExact
=============================================================================

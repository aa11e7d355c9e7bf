-------------------------- MODULE TransparencyLog --------------------------
(***************************************************************************)
(* ~/.oath/transparency.log (oath-transparency): every install appends one *)
(* JSON line that names the hash of the entry before it.  The file is read *)
(* and then appended to without a lock, and writeln! hands the text and    *)
(* the newline to the kernel in two writes.                                *)
(*                                                                         *)
(* Hashes do not collide, so an entry is its own hash.  The file is a      *)
(* sequence of lines, the last one not yet ended; a line is the sequence   *)
(* of the entries whose text landed on it.                                 *)
(***************************************************************************)
EXTENDS Naturals, Sequences

CONSTANTS Installs,      \* commands that log an install
          LogCrashes,    \* bound: how many of them may be killed
          Genesis

ASSUME LogAssumption == LogCrashes \in Nat /\ Genesis \notin Installs

VARIABLES lines,         \* the file
          logAt,         \* what each command does next
          previous,      \* the hash each command read
          finished,      \* history: commands whose log() returned, in order
          logOverlap,    \* history: two log() calls were under way at once
          logKilled

logVars == <<lines, logAt, previous, finished, logOverlap, logKilled>>

LogTypeOK ==
  /\ lines \in Seq(Seq(Installs)) /\ lines # <<>>
  /\ logAt \in [Installs -> {"idle", "write", "newline", "done", "killed"}]
  /\ previous \in [Installs -> Installs \cup {Genesis}]
  /\ finished \in Seq(Installs)
  /\ logOverlap \in BOOLEAN /\ logKilled \in 0..LogCrashes

LogInit ==
  /\ lines = << <<>> >>
  /\ logAt = [i \in Installs |-> "idle"]
  /\ previous = [i \in Installs |-> Genesis]
  /\ finished = <<>> /\ logOverlap = FALSE /\ logKilled = 0

\* read_all: empty lines are skipped, lines that do not parse are dropped.
Parses(k) == Len(lines[k]) = 1

\* The last entry above line n is v, or there is none and v is GENESIS.
EntryAbove(n, v) ==
  \/ v = Genesis /\ \A k \in 1..n-1 : ~Parses(k)
  \/ \E k \in 1..n-1 : lines[k] = <<v>> /\ \A j \in k+1..n-1 : ~Parses(j)

\* verify_chain: every entry names the one before it.
ChainVerifies ==
  \A k \in 1..Len(lines) : Parses(k) => EntryAbove(k, previous[lines[k][1]])

\* Faulty: the predecessor is the first entry of the file, not the last.
ReadPreviousFirst(i) ==
  /\ logAt[i] = "idle" /\ logAt' = [logAt EXCEPT ![i] = "write"]
  /\ \/ /\ \A k \in 1..Len(lines) : ~Parses(k)
        /\ previous' = [previous EXCEPT ![i] = Genesis]
     \/ \E k \in 1..Len(lines) :
          /\ Parses(k) /\ \A j \in 1..k-1 : ~Parses(j)
          /\ previous' = [previous EXCEPT ![i] = lines[k][1]]
  /\ logOverlap' = (logOverlap \/ \E j \in Installs : logAt[j] \in {"write", "newline"})
  /\ UNCHANGED <<lines, finished, logKilled>>

\* log: the hash of the last entry that parses, or GENESIS.
ReadPrevious(i) ==
  /\ logAt[i] = "idle" /\ logAt' = [logAt EXCEPT ![i] = "write"]
  /\ \E v \in Installs \cup {Genesis} :
       EntryAbove(Len(lines) + 1, v) /\ previous' = [previous EXCEPT ![i] = v]
  /\ logOverlap' = (logOverlap \/ \E j \in Installs : logAt[j] \in {"write", "newline"})
  /\ UNCHANGED <<lines, finished, logKilled>>

\* The text goes to the end of the file, onto whatever line is open there.
WriteEntry(i) ==
  /\ logAt[i] = "write" /\ logAt' = [logAt EXCEPT ![i] = "newline"]
  /\ lines' = [lines EXCEPT ![Len(lines)] = Append(@, i)]
  /\ UNCHANGED <<previous, finished, logOverlap, logKilled>>

EndLine(i) ==
  /\ logAt[i] = "newline" /\ logAt' = [logAt EXCEPT ![i] = "done"]
  /\ lines' = Append(lines, <<>>)
  /\ finished' = Append(finished, i)
  /\ UNCHANGED <<previous, logOverlap, logKilled>>

KillInstall(i) ==
  /\ logAt[i] \in {"write", "newline"} /\ logKilled < LogCrashes
  /\ logAt' = [logAt EXCEPT ![i] = "killed"] /\ logKilled' = logKilled + 1
  /\ UNCHANGED <<lines, previous, finished, logOverlap>>

LogNext ==
  \E i \in Installs : ReadPrevious(i) \/ WriteEntry(i) \/ EndLine(i) \/ KillInstall(i)

LogSpec == LogInit /\ [][LogNext]_logVars

----------------------------------------------------------------------------
(* As long as no two log() calls overlap, verify_chain accepts the log,     *)
(* also after commands were killed between the text and the newline and     *)
(* later entries ran into the line they left open.                          *)
SerialChainVerifies == ~logOverlap => ChainVerifies

(* With no overlap and nobody killed, the log holds exactly the installs    *)
(* that were logged, in their order, and at most the one being logged now.  *)
LoggedKept == ~logOverlap /\ logKilled = 0 =>
  /\ Len(lines) = Len(finished) + 1 /\ Len(lines[Len(lines)]) <= 1
  /\ \A k \in 1..Len(finished) : lines[k] = <<finished[k]>>

(* Calls of log() that do not overlap leave a log that verifies and, when   *)
(* none was killed, is complete and in order.                               *)
SerialLogSound ==
  SerialChainVerifies /\ LoggedKept
=============================================================================

---------------------------- MODULE ClientProofs ----------------------------
(***************************************************************************)
(* Proofs about what oath commands of one user share on disk: the content  *)
(* store, the packument cache, the transparency log, and the tarballs that *)
(* fill the store; about the graph the resolver hands them; and about the  *)
(* tree of links made from it.  Each part's proof stands by itself.        *)
(***************************************************************************)
EXTENDS ContentStore, TransparencyLog, PackumentCache, Tarball, Resolver,
        LinkPlan, SequenceTheorems, FiniteSetTheorems, TLAPS

-----------------------------------------------------------------------------
(***************************************************************************)
(* Induction, stated about sets of natural numbers.                        *)
(***************************************************************************)
LEMMA LeastNumber ==
  ASSUME NEW T \in SUBSET Nat, T # {}
  PROVE  \E n \in T : \A m \in T : n <= m
  <1>1. IsWellFoundedOn(OpToRel(<, Nat), Nat)
    BY NatLessThanWellFounded
  <1>2. PICK n \in T : \A m \in T : ~ (<<m, n>> \in OpToRel(<, Nat))
    BY <1>1, WFMin, Zenon
  <1>3. \A m \in T : ~ (m < n)
    BY <1>2 DEF OpToRel
  <1> QED
    BY <1>3

LEMMA Induction ==
  ASSUME NEW T \in SUBSET Nat, 0 \in T, \A n \in T : n + 1 \in T
  PROVE  T = Nat
  <1> SUFFICES ASSUME Nat \ T # {} PROVE FALSE
    OBVIOUS
  <1>1. PICK n \in Nat \ T : \A m \in Nat \ T : n <= m
    BY LeastNumber
  <1>2. n # 0 /\ n - 1 \in Nat
    BY <1>1
  <1>3. n - 1 \in T
    BY <1>1, <1>2
  <1> QED
    BY <1>1, <1>2, <1>3

-----------------------------------------------------------------------------
(***************************************************************************)
(* The content store, for any number of commands, entries and crashes.     *)
(***************************************************************************)
\* A command about to link found its entry verified, or a repair deleted it since.
LinkingVerified ==
  \A c \in Clients : at[c] = "link" => dir[wants[c]] = "good" \/ wants[c] \in deletedGood

StoreInv == StoreTypeOK /\ LinkingVerified /\ LinkedVerified

\* A verified directory is only lost to a repair, which is recorded.
LEMMA GoodKept ==
  ASSUME StoreTypeOK, NEW c \in Clients, ClientStep(c), NEW e \in Entries,
         dir[e] = "good"
  PROVE  (dir'[e] = "good" \/ e \in deletedGood') /\ deletedGood \subseteq deletedGood'
  <1> USE DEF StoreTypeOK
  <1>1. CASE BeginRemove(c)
    BY <1>1 DEF BeginRemove
  <1>2. CASE Removing(c)
    BY <1>2 DEF Removing
  <1>3. CASE CommitEntry(c)
    BY <1>3 DEF CommitEntry
  <1>4. CASE ~ (BeginRemove(c) \/ Removing(c) \/ CommitEntry(c))
    BY <1>4 DEF ClientStep, CheckEntry, Download, DownloadGit, BeginGitWrite, FinishGitWrite,
                CopyGit, Extract, VerifyEntry, Stage, AcceptWinner, LinkEntry
  <1> QED
    BY <1>1, <1>2, <1>3, <1>4

\* Every step keeps the shapes of the files and of the commands.
LEMMA StoreTypes ==
  ASSUME StoreTypeOK, NEW c \in Clients, ClientStep(c)
  PROVE  StoreTypeOK' /\ wants' = wants
  <1> USE DEF StoreTypeOK, Points, Stops, DirStates, Move
  <1>1. CASE CheckEntry(c) \/ Download(c) \/ DownloadGit(c) \/ CopyGit(c) \/ Extract(c) \/ Stage(c)
             \/ AcceptWinner(c)
    BY <1>1 DEF CheckEntry, Download, DownloadGit, CopyGit, Extract, Stage, AcceptWinner
  <1>2. CASE BeginGitWrite(c) \/ FinishGitWrite(c)
    BY <1>2 DEF BeginGitWrite, FinishGitWrite
  <1>3. CASE VerifyEntry(c)
    BY <1>3 DEF VerifyEntry, Verification
  <1>4. CASE BeginRemove(c)
    BY <1>4 DEF BeginRemove
  <1>5. CASE Removing(c)
    BY <1>5 DEF Removing
  <1>6. CASE CommitEntry(c) \/ LinkEntry(c)
    BY <1>6 DEF CommitEntry, LinkEntry
  <1> QED
    BY <1>1, <1>2, <1>3, <1>4, <1>5, <1>6 DEF ClientStep

\* A command reaches the linker only from a check that its entry verifies, or
\* from putting it there.
LEMMA LinkReached ==
  ASSUME StoreTypeOK, NEW c \in Clients, ClientStep(c), NEW d \in Clients,
         at'[d] = "link", at[d] # "link"
  PROVE  d = c /\ dir'[wants[d]] = "good"
  <1> USE DEF StoreTypeOK, Move
  <1>1. CASE CheckEntry(c) \/ VerifyEntry(c) \/ AcceptWinner(c)
    BY <1>1 DEF CheckEntry, VerifyEntry, AcceptWinner, Verification
  <1>2. CASE CommitEntry(c)
    BY <1>2 DEF CommitEntry
  <1>3. CASE Download(c) \/ DownloadGit(c) \/ BeginGitWrite(c) \/ FinishGitWrite(c) \/ CopyGit(c)
             \/ Extract(c)
    BY <1>3 DEF Download, DownloadGit, BeginGitWrite, FinishGitWrite, CopyGit, Extract
  <1>4. CASE BeginRemove(c) \/ Removing(c) \/ Stage(c) \/ LinkEntry(c)
    BY <1>4 DEF BeginRemove, Removing, Stage, LinkEntry
  <1> QED
    BY <1>1, <1>2, <1>3, <1>4 DEF ClientStep

\* A command links what its entry's directory holds.
LEMMA LinkedFrom ==
  ASSUME StoreTypeOK, NEW c \in Clients, ClientStep(c), NEW d \in Clients,
         linked'[d] # linked[d]
  PROVE  at[d] = "link" /\ linked'[d] = dir[wants[d]] /\ deletedGood' = deletedGood
  <1> USE DEF StoreTypeOK
  <1>1. CASE LinkEntry(c)
    BY <1>1 DEF LinkEntry, Move
  <1>2. CASE ~ LinkEntry(c)
    BY <1>2 DEF ClientStep, CheckEntry, Download, DownloadGit, BeginGitWrite, FinishGitWrite,
                CopyGit, Extract, VerifyEntry, BeginRemove, Removing, Stage, CommitEntry,
                AcceptWinner
  <1> QED
    BY <1>1, <1>2

\* The store's invariant holds in every reachable state.
LEMMA StoreInvariant == StoreSpec => []StoreInv
  <1>1. StoreInit => StoreInv
    BY StoreAssumption
    DEF StoreInit, StoreInv, StoreTypeOK, LinkingVerified, LinkedVerified, DirStates, Points, Stops
  <1>2. StoreInv /\ [StoreNext]_storeVars => StoreInv'
    <2> SUFFICES ASSUME StoreInv, [StoreNext]_storeVars PROVE StoreInv'
      OBVIOUS
    <2> USE DEF StoreInv
    <2>1. ASSUME NEW c \in Clients, ClientStep(c) PROVE StoreInv'
      <3>1. StoreTypeOK' /\ wants' = wants
        BY <2>1, StoreTypes
      <3>2. ASSUME NEW d \in Clients
            PROVE  /\ wants[d] \in Entries
                   /\ dir[wants[d]] = "good" => dir'[wants[d]] = "good" \/ wants[d] \in deletedGood'
                   /\ wants[d] \in deletedGood => wants[d] \in deletedGood'
        <4>1. wants[d] \in Entries
          BY DEF StoreTypeOK
        <4>2. deletedGood \subseteq deletedGood'
          BY <2>1 DEF ClientStep, CheckEntry, Download, DownloadGit, BeginGitWrite, FinishGitWrite,
                      CopyGit, Extract, VerifyEntry, BeginRemove, Removing, Stage, CommitEntry,
                      AcceptWinner, LinkEntry
        <4> QED
          BY <2>1, <4>1, <4>2, GoodKept
      <3>3. LinkingVerified'
        BY <2>1, <3>1, <3>2, LinkReached DEF LinkingVerified
      <3>4. LinkedVerified'
        BY <2>1, <3>1, <3>2, LinkedFrom DEF LinkedVerified, LinkingVerified
      <3> QED
        BY <3>1, <3>3, <3>4
    <2>2. ASSUME NEW c \in Clients, CrashClient(c) \/ Rerun(c) PROVE StoreInv'
      BY <2>2, StoreAssumption
      DEF CrashClient, Rerun, StoreTypeOK, LinkingVerified, LinkedVerified, Points, Stops
    <2>3. CASE UNCHANGED storeVars
      BY <2>3 DEF storeVars, StoreTypeOK, LinkingVerified, LinkedVerified
    <2> QED
      BY <2>1, <2>2, <2>3 DEF StoreNext
  <1> QED
    BY <1>1, <1>2, PTL DEF StoreSpec

\* Files and commands stay what store_package_at and the pipeline make of them.
THEOREM StoreTypeCorrect == StoreSpec => []StoreTypeOK
  <1>1. StoreInv => StoreTypeOK
    BY DEF StoreInv
  <1> QED
    BY <1>1, StoreInvariant, PTL

\* store_package_at's verification, rename race and repair let a command link
\* unverified bytes in one case only: a repair deleted a verified directory.
THEOREM LinkedVerifiedAlways == StoreSpec => []LinkedVerified
  <1>1. StoreInv => LinkedVerified
    BY DEF StoreInv
  <1> QED
    BY <1>1, StoreInvariant, PTL

-----------------------------------------------------------------------------
(***************************************************************************)
(* The transparency log, for any number of commands and of crashes.        *)
(***************************************************************************)
\* The calls of log() that are under way.
Logging(i) == logAt[i] \in {"write", "newline"}

\* An entry is in the file only once its command has written it.
EntriesWritten ==
  \A k \in 1..Len(lines), i \in Installs :
    lines[k] = <<i>> => logAt[i] \in {"newline", "done", "killed"}

\* Calls that never overlapped are made one at a time, and what the call under
\* way has read is still the last entry of the file.
OneLogs ==
  ~logOverlap =>
    /\ \A i, j \in Installs : Logging(i) /\ Logging(j) => i = j
    /\ \A i \in Installs : logAt[i] = "write" => EntryAbove(Len(lines) + 1, previous[i])

\* With nobody killed the open line holds the entry being logged and no other.
OpenLine ==
  ~logOverlap /\ logKilled = 0 =>
    /\ \A i \in Installs : logAt[i] = "newline" => lines[Len(lines)] = <<i>>
    /\ (\A i \in Installs : logAt[i] # "newline") => lines[Len(lines)] = <<>>
    /\ Len(lines) = Len(finished) + 1
    /\ \A k \in 1..Len(finished) : lines[k] = <<finished[k]>>

LogInv == LogTypeOK /\ EntriesWritten /\ OneLogs /\ SerialChainVerifies /\ OpenLine

LEMMA SingleLine ==
  ASSUME NEW S, NEW s \in Seq(S), Len(s) = 1
  PROVE  s[1] \in S /\ s = <<s[1]>>
  <1>1. s[1] \in S
    OBVIOUS
  <1>2. <<s[1]>> \in Seq(S) /\ Len(<<s[1]>>) = 1
    BY <1>1
  <1> QED
    BY <1>1, <1>2, SeqEqual

LEMMA LogStarts == LogInit => LogInv
  <1> SUFFICES ASSUME LogInit PROVE LogInv
    OBVIOUS
  <1> USE DEF LogInit
  <1>1. Len(lines) = 1 /\ lines[1] = <<>> /\ lines \in Seq(Seq(Installs))
    <2>1. <<>> \in Seq(Installs)
      OBVIOUS
    <2> QED
      BY <2>1
  <1>2. LogTypeOK
    <2>1. lines # <<>>
      BY <1>1
    <2>2. finished \in Seq(Installs) /\ logKilled \in 0..LogCrashes
      BY LogAssumption
    <2> QED
      BY <1>1, <2>1, <2>2 DEF LogTypeOK
  <1>3. EntriesWritten /\ OneLogs
    <2>1. \A i \in Installs : lines[1] # <<i>>
      BY <1>1
    <2>2. EntriesWritten
      BY <1>1, <2>1 DEF EntriesWritten
    <2> QED
      BY <2>2 DEF OneLogs, Logging
  <1>4. SerialChainVerifies
    BY <1>1 DEF SerialChainVerifies, ChainVerifies, Parses
  <1>5. OpenLine
    BY <1>1 DEF OpenLine
  <1> QED
    BY <1>2, <1>3, <1>4, <1>5 DEF LogInv

\* The last line above n depends on the lines above n alone.
LEMMA AboveKept ==
  ASSUME NEW n \in Nat, NEW v, \A k \in 1..n-1 : lines'[k] = lines[k], EntryAbove(n, v)
  PROVE  EntryAbove(n, v)'
  BY DEF EntryAbove, Parses

LEMMA ReadKeeps ==
  ASSUME LogInv, NEW i \in Installs, ReadPrevious(i)
  PROVE  LogInv'
  <1> USE DEF LogInv
  <1>1. /\ logAt[i] = "idle" /\ logAt' = [logAt EXCEPT ![i] = "write"]
        /\ logOverlap' = (logOverlap \/ \E j \in Installs : Logging(j))
        /\ lines' = lines /\ finished' = finished /\ logKilled' = logKilled
    BY DEF ReadPrevious, Logging
  <1>2. PICK v \in Installs \cup {Genesis} :
          EntryAbove(Len(lines) + 1, v) /\ previous' = [previous EXCEPT ![i] = v]
    BY DEF ReadPrevious
  <1>3. LogTypeOK'
    BY <1>1, <1>2 DEF LogTypeOK
  <1>4. EntriesWritten'
    BY <1>1 DEF EntriesWritten, LogTypeOK
  <1>5. OneLogs'
    <2> SUFFICES ASSUME ~logOverlap' PROVE OneLogs'
      BY DEF OneLogs
    <2>1. \A j \in Installs : ~ Logging(j)
      BY <1>1
    <2>2. \A j \in Installs : Logging(j)' => j = i
      BY <1>1, <2>1 DEF Logging, LogTypeOK
    <2>3. EntryAbove(Len(lines) + 1, v)'
      BY <1>1, <1>2 DEF EntryAbove, Parses
    <2>4. previous'[i] = v /\ \A j \in Installs : logAt'[j] = "write" => j = i
      BY <1>1, <1>2, <2>2 DEF Logging, LogTypeOK
    <2> QED
      BY <1>1, <2>2, <2>3, <2>4 DEF OneLogs
  <1>6. SerialChainVerifies'
    <2> SUFFICES ASSUME ~logOverlap', NEW k \in 1..Len(lines), Parses(k)
                 PROVE  EntryAbove(k, previous[lines[k][1]])'
      BY <1>1 DEF SerialChainVerifies, ChainVerifies, Parses
    <2>1. PICK j \in Installs : lines[k] = <<j>> /\ j = lines[k][1]
      <3>1. lines[k] \in Seq(Installs) /\ Len(lines[k]) = 1
        BY DEF Parses, LogTypeOK
      <3> QED
        BY <3>1, SingleLine
    <2>2. PICK u : u = previous[j]
      OBVIOUS
    <2>3. EntryAbove(k, u)
      BY <1>1, <2>1, <2>2 DEF SerialChainVerifies, ChainVerifies
    <2>4. previous'[lines'[k][1]] = u
      BY <1>1, <1>2, <2>1, <2>2 DEF EntriesWritten, LogTypeOK
    <2>5. EntryAbove(k, u)'
      <3>1. k \in Nat /\ \A m \in 1..k-1 : lines'[m] = lines[m]
        BY <1>1 DEF LogTypeOK
      <3> QED
        BY <2>3, <3>1, AboveKept
    <2> QED
      BY <2>4, <2>5
  <1>7. OpenLine'
    BY <1>1 DEF OpenLine, LogTypeOK
  <1> QED
    BY <1>3, <1>4, <1>5, <1>6, <1>7

\* The text of an entry lands on the open line: alone there it follows the
\* entry its command read, behind another entry neither of them parses.
LEMMA WriteKeeps ==
  ASSUME LogInv, NEW i \in Installs, WriteEntry(i)
  PROVE  LogInv'
  <1> USE DEF LogInv
  <1> DEFINE n == Len(lines)
             last == lines[n]
  <1>1. /\ logAt[i] = "write" /\ logAt' = [logAt EXCEPT ![i] = "newline"]
        /\ lines' = [lines EXCEPT ![n] = Append(last, i)]
        /\ previous' = previous /\ finished' = finished
        /\ logOverlap' = logOverlap /\ logKilled' = logKilled
    BY DEF WriteEntry
  <1>2. n \in Nat \ {0} /\ n \in 1..n /\ last \in Seq(Installs)
    BY DEF LogTypeOK
  <1>3. /\ Append(last, i) \in Seq(Installs)
        /\ Len(Append(last, i)) = Len(last) + 1
        /\ last = <<>> => Append(last, i) = <<i>>
        /\ \A j \in Installs : Append(last, i) = <<j>> => last = <<>> /\ j = i
    <2>1. \A j \in Installs : <<j>> \in Seq(Installs) /\ Len(<<j>>) = 1 /\ <<j>>[1] = j
      OBVIOUS
    <2>2. /\ Append(last, i) \in Seq(Installs) /\ Len(Append(last, i)) = Len(last) + 1
          /\ Append(last, i)[Len(last) + 1] = i
      BY <1>2, AppendProperties
    <2>3. Len(last) \in Nat /\ (Len(last) = 0 <=> last = <<>>)
      BY <1>2
    <2>4. last = <<>> => Append(last, i) = <<i>>
      BY <2>1, <2>2, <2>3, SeqEqual
    <2>5. ASSUME NEW j \in Installs, Append(last, i) = <<j>> PROVE last = <<>> /\ j = i
      BY <2>1, <2>2, <2>3, <2>5
    <2> QED
      BY <2>2, <2>4, <2>5
  <1>4. /\ lines' \in Seq(Seq(Installs)) /\ Len(lines') = n /\ lines'[n] = Append(last, i)
        /\ \A k \in 1..n : k # n => lines'[k] = lines[k]
    BY <1>1, <1>2, <1>3 DEF LogTypeOK
  <1> HIDE DEF n, last
  <1>5. LogTypeOK'
    BY <1>1, <1>2, <1>4 DEF LogTypeOK
  <1>6. EntriesWritten'
    <2> SUFFICES ASSUME NEW k \in 1..n, NEW j \in Installs, lines'[k] = <<j>>
                 PROVE  logAt'[j] \in {"newline", "done", "killed"}
      BY <1>4 DEF EntriesWritten
    <2>1. CASE k = n
      BY <2>1, <1>1, <1>3, <1>4 DEF LogTypeOK
    <2>2. CASE k # n
      BY <2>2, <1>1, <1>4 DEF EntriesWritten, LogTypeOK, n
    <2> QED
      BY <2>1, <2>2
  <1>7. OneLogs'
    <2> SUFFICES ASSUME ~logOverlap
                 PROVE  /\ \A a, b \in Installs : Logging(a)' /\ Logging(b)' => a = b
                        /\ \A a \in Installs : logAt'[a] # "write"
      BY <1>1 DEF OneLogs
    <2>1. \A a \in Installs : a # i => ~ Logging(a)
      BY <1>1 DEF OneLogs, Logging
    <2> QED
      BY <2>1, <1>1 DEF Logging, LogTypeOK
  <1>8. SerialChainVerifies'
    <2> SUFFICES ASSUME ~logOverlap, NEW k \in 1..n, Parses(k)'
                 PROVE  EntryAbove(k, previous[lines[k][1]])'
      BY <1>1, <1>4 DEF SerialChainVerifies, ChainVerifies
    <2>1. k \in Nat /\ \A m \in 1..k-1 : lines'[m] = lines[m]
      BY <1>2, <1>4
    <2>2. PICK u : u = previous'[lines'[k][1]]
      OBVIOUS
    <2>3. CASE k = n
      <3>1. Len(last) = 0
        BY <2>3, <1>2, <1>3, <1>4 DEF Parses
      <3>2. u = previous[i]
        BY <2>2, <2>3, <1>1, <1>2, <1>3, <1>4, <3>1
      <3>3. EntryAbove(n + 1, u)
        BY <3>2, <1>1 DEF OneLogs, n
      <3>4. ~ Parses(n) /\ \A w : lines[n] # <<w>>
        BY <3>1 DEF Parses, last
      <3>5. EntryAbove(n, u)
        BY <3>3, <3>4, <1>2 DEF EntryAbove
      <3> QED
        BY <2>1, <2>2, <2>3, <3>5, AboveKept
    <2>4. CASE k # n
      <3>1. Parses(k) /\ u = previous[lines[k][1]]
        BY <2>2, <2>4, <1>1, <1>4 DEF Parses
      <3>2. EntryAbove(k, u)
        BY <3>1 DEF SerialChainVerifies, ChainVerifies, n
      <3> QED
        BY <2>1, <2>2, <3>2, AboveKept
    <2> QED
      BY <2>3, <2>4
  <1>9. OpenLine'
    <2> SUFFICES ASSUME ~logOverlap, logKilled = 0 PROVE OpenLine'
      BY <1>1 DEF OpenLine
    <2>1. \A a \in Installs : a # i => ~ Logging(a)
      BY <1>1 DEF OneLogs, Logging
    <2>2. \A a \in Installs : logAt'[a] = "newline" <=> a = i
      BY <2>1, <1>1 DEF Logging, LogTypeOK
    <2>3. last = <<>> /\ n = Len(finished) + 1
          /\ \A k \in 1..Len(finished) : lines[k] = <<finished[k]>>
      BY <2>1, <1>1 DEF OpenLine, Logging, last, n
    <2>4. lines'[n] = <<i>>
      BY <2>3, <1>3, <1>4
    <2>5. Len(finished) \in Nat
      BY DEF LogTypeOK
    <2>6. \A k \in 1..Len(finished) : k \in 1..n /\ k # n
      BY <2>3, <2>5, <1>2
    <2> QED
      BY <2>2, <2>3, <2>4, <2>6, <1>1, <1>4 DEF OpenLine
  <1> QED
    BY <1>5, <1>6, <1>7, <1>8, <1>9

LEMMA EndKeeps ==
  ASSUME LogInv, NEW i \in Installs, EndLine(i)
  PROVE  LogInv'
  <1> USE DEF LogInv
  <1> DEFINE n == Len(lines)
  <1>1. /\ logAt[i] = "newline" /\ logAt' = [logAt EXCEPT ![i] = "done"]
        /\ lines' = Append(lines, <<>>) /\ finished' = Append(finished, i)
        /\ previous' = previous /\ logOverlap' = logOverlap /\ logKilled' = logKilled
    BY DEF EndLine
  <1>2. n \in Nat \ {0} /\ <<>> \in Seq(Installs)
    BY DEF LogTypeOK
  <1>3. /\ lines' \in Seq(Seq(Installs)) /\ lines' # <<>> /\ Len(lines') = n + 1
        /\ lines'[n + 1] = <<>> /\ \A k \in 1..n : lines'[k] = lines[k]
    <2>1. PICK e \in Seq(Installs) : e = <<>>
      BY <1>2
    <2>2. lines' = Append(lines, e) /\ lines \in Seq(Seq(Installs))
      BY <1>1, <2>1 DEF LogTypeOK
    <2> QED
      BY <2>1, <2>2, AppendProperties
  <1>4. /\ finished' \in Seq(Installs) /\ Len(finished') = Len(finished) + 1
        /\ finished'[Len(finished) + 1] = i
        /\ \A k \in 1..Len(finished) : finished'[k] = finished[k]
    BY <1>1, AppendProperties DEF LogTypeOK
  <1>5. Len(lines'[n + 1]) = 0 /\ \A j : lines'[n + 1] # <<j>>
    BY <1>3
  <1> HIDE DEF n
  <1>6. LogTypeOK'
    BY <1>1, <1>3, <1>4 DEF LogTypeOK
  <1>7. EntriesWritten'
    <2> SUFFICES ASSUME NEW k \in 1..n+1, NEW j \in Installs, lines'[k] = <<j>>
                 PROVE  logAt'[j] \in {"newline", "done", "killed"}
      BY <1>3 DEF EntriesWritten
    <2>1. k # n + 1
      BY <1>5
    <2>2. k \in 1..n /\ lines[k] = <<j>>
      BY <2>1, <1>2, <1>3
    <2> QED
      BY <2>2, <1>1 DEF EntriesWritten, LogTypeOK, n
  <1>8. OneLogs'
    <2> SUFFICES ASSUME ~logOverlap PROVE \A a \in Installs : ~ Logging(a)'
      BY <1>1 DEF OneLogs, Logging
    <2>1. \A a \in Installs : a # i => ~ Logging(a)
      BY <1>1 DEF OneLogs, Logging
    <2> QED
      BY <2>1, <1>1 DEF Logging, LogTypeOK
  <1>9. SerialChainVerifies'
    <2> SUFFICES ASSUME ~logOverlap, NEW k \in 1..n+1, Parses(k)'
                 PROVE  EntryAbove(k, previous[lines[k][1]])'
      BY <1>1, <1>3 DEF SerialChainVerifies, ChainVerifies
    <2>1. k \in 1..n /\ k \in Nat /\ \A m \in 1..k-1 : lines'[m] = lines[m]
      <3>1. k # n + 1
        BY <1>5 DEF Parses
      <3> QED
        BY <3>1, <1>2, <1>3
    <2>2. PICK u : u = previous[lines[k][1]]
      OBVIOUS
    <2>3. Parses(k) /\ previous'[lines'[k][1]] = u
      BY <2>1, <2>2, <1>1, <1>3 DEF Parses
    <2>4. EntryAbove(k, u)
      BY <2>1, <2>2, <2>3 DEF SerialChainVerifies, ChainVerifies, n
    <2> QED
      BY <2>1, <2>3, <2>4, AboveKept
  <1>10. OpenLine'
    <2> SUFFICES ASSUME ~logOverlap, logKilled = 0 PROVE OpenLine'
      BY <1>1 DEF OpenLine
    <2>1. \A a \in Installs : logAt'[a] # "newline"
      BY <1>1 DEF OneLogs, Logging, LogTypeOK
    <2>2. lines[n] = <<i>> /\ n = Len(finished) + 1
          /\ \A k \in 1..Len(finished) : lines[k] = <<finished[k]>>
      BY <1>1 DEF OpenLine, n
    <2>3. Len(finished) \in Nat
      BY DEF LogTypeOK
    <2>4. \A k \in 1..Len(finished') : lines'[k] = <<finished'[k]>>
      <3> SUFFICES ASSUME NEW k \in 1..Len(finished) + 1
                   PROVE  lines'[k] = <<finished'[k]>>
        BY <1>4
      <3>1. CASE k = n
        <4>1. finished'[k] = i
          BY <3>1, <2>2, <1>4
        <4>2. n \in 1..n
          BY <1>2
        <4> QED
          BY <3>1, <4>1, <4>2, <2>2, <1>3
      <3>2. CASE k # n
        <4>1. k \in 1..Len(finished) /\ k \in 1..n
          BY <3>2, <2>2, <2>3
        <4> QED
          BY <4>1, <2>2, <1>3, <1>4
      <3> QED
        BY <3>1, <3>2
    <2> QED
      BY <2>1, <2>2, <2>4, <1>3, <1>4 DEF OpenLine
  <1> QED
    BY <1>6, <1>7, <1>8, <1>9, <1>10

LEMMA KillKeeps ==
  ASSUME LogInv, NEW i \in Installs, KillInstall(i)
  PROVE  LogInv'
  <1> USE DEF LogInv
  <1>1. /\ Logging(i) /\ logAt' = [logAt EXCEPT ![i] = "killed"]
        /\ logKilled < LogCrashes /\ logKilled' = logKilled + 1
        /\ lines' = lines /\ previous' = previous /\ finished' = finished
        /\ logOverlap' = logOverlap
    BY DEF KillInstall, Logging
  <1>2. LogTypeOK' /\ logKilled' # 0
    BY <1>1, LogAssumption DEF LogTypeOK
  <1>3. EntriesWritten' /\ OpenLine'
    BY <1>1, <1>2 DEF EntriesWritten, OpenLine, LogTypeOK
  <1>4. OneLogs'
    <2> SUFFICES ASSUME ~logOverlap PROVE \A a \in Installs : ~ Logging(a)'
      BY <1>1 DEF OneLogs, Logging
    <2>1. \A a \in Installs : a # i => ~ Logging(a)
      BY <1>1 DEF OneLogs
    <2> QED
      BY <2>1, <1>1 DEF Logging, LogTypeOK
  <1>5. SerialChainVerifies'
    BY <1>1 DEF SerialChainVerifies, ChainVerifies, EntryAbove, Parses
  <1> QED
    BY <1>2, <1>3, <1>4, <1>5

LEMMA LogInvAlways == LogSpec => []LogInv
  <1>1. LogInv /\ [LogNext]_logVars => LogInv'
    <2> SUFFICES ASSUME LogInv, [LogNext]_logVars PROVE LogInv'
      OBVIOUS
    <2>1. CASE LogNext
      BY <2>1, ReadKeeps, WriteKeeps, EndKeeps, KillKeeps DEF LogNext
    <2>2. CASE UNCHANGED logVars
      <3> USE <2>2 DEF logVars
      <3>1. LogTypeOK' /\ EntriesWritten' /\ OpenLine'
        BY DEF LogInv, LogTypeOK, EntriesWritten, OpenLine
      <3>2. OneLogs' /\ SerialChainVerifies'
        BY DEF LogInv, OneLogs, Logging, SerialChainVerifies, ChainVerifies, EntryAbove, Parses
      <3> QED
        BY <3>1, <3>2 DEF LogInv
    <2> QED
      BY <2>1, <2>2
  <1> QED
    BY <1>1, LogStarts, PTL DEF LogSpec

\* The file is a sequence of lines of entries, and every command is at a point
\* of log().
THEOREM LogTypeCorrect == LogSpec => []LogTypeOK
  <1>1. LogInv => LogTypeOK
    BY DEF LogInv
  <1> QED
    BY <1>1, LogInvAlways, PTL

\* Calls of log() that do not overlap leave a log that verify_chain accepts,
\* also after commands were killed between an entry's text and its newline; and
\* when nobody was killed the log is complete and in order.
THEOREM SerialLogSoundAlways == LogSpec => []SerialLogSound
  <1>1. LogInv => SerialLogSound
    <2> SUFFICES ASSUME LogInv, ~logOverlap, logKilled = 0
                 PROVE  /\ Len(lines) = Len(finished) + 1 /\ Len(lines[Len(lines)]) <= 1
                        /\ \A k \in 1..Len(finished) : lines[k] = <<finished[k]>>
      BY DEF LogInv, SerialLogSound, LoggedKept
    <2>1. CASE \E i \in Installs : logAt[i] = "newline"
      <3>1. PICK i \in Installs : lines[Len(lines)] = <<i>>
        BY <2>1 DEF LogInv, OpenLine
      <3>2. Len(<<i>>) = 1
        OBVIOUS
      <3> QED
        BY <3>1, <3>2 DEF LogInv, OpenLine
    <2>2. CASE \A i \in Installs : logAt[i] # "newline"
      BY <2>2 DEF LogInv, OpenLine
    <2> QED
      BY <2>1, <2>2
  <1> QED
    BY <1>1, LogInvAlways, PTL

-----------------------------------------------------------------------------
(***************************************************************************)
(* The packument cache, for any number of commands, revisions and retries. *)
(***************************************************************************)
\* The attempt a request is at is one of those it has.
AttemptsLeft == \A f \in Fetchers : fetchAt[f] = "send" => attempt[f] < Attempts

\* What nobody promises anything without: one registry, one command asking at a
\* time, and no fault.
Quiet == OneRegistry /\ ~fetchOverlap /\ fetchFaults = 0

\* q is a packument no older than p, if p is one.
AtLeast(q, p) == p \in Packuments => q \in Packuments /\ p.revision <= q.revision

\* No packument or etag is newer than what the registry serves.
ServedReaches(p) == p \in Packuments => \A f \in Fetchers : p.revision <= current[registryFor[f]]
NothingNewer ==
  /\ ServedReaches(cacheFile) /\ ServedReaches(etagFile)
  /\ \A f \in Fetchers : ServedReaches(memoryEtag[f]) /\ asOf[f] <= current[registryFor[f]]

OneAsks == \A f, g \in Fetchers : fetchAt[f] \in Asking /\ fetchAt[g] \in Asking => f = g

\* Between two writes of the cache its body is no older than any etag.
Settled ==
  (\A f \in Fetchers : fetchAt[f] \notin {"open", "write"}) =>
    AtLeast(cacheFile, etagFile) /\ \A g \in Fetchers : AtLeast(cacheFile, memoryEtag[g])

\* What a command does with a new packument: it is the newest one there is.
Storing(f) ==
  /\ result[f] \in Packuments /\ result[f].revision >= asOf[f]
  /\ ServedReaches(result[f])
  /\ AtLeast(result[f], cacheFile) /\ AtLeast(result[f], etagFile)
  /\ \A g \in Fetchers : AtLeast(result[f], memoryEtag[g])

FetchersInStep ==
  \A f \in Fetchers :
    /\ fetchAt[f] \in {"etag", "open", "write"} => Storing(f)
    /\ fetchAt[f] \in {"send", "load"} => AtLeast(cacheFile, askedWith[f])
    /\ fetchAt[f] = "load" => askedWith[f] \in Packuments /\ askedWith[f].revision >= asOf[f]
    /\ fetchAt[f] = "done" => result[f] \in Packuments /\ result[f].revision >= asOf[f]

FetchInv ==
  /\ FetchTypeOK /\ AttemptsLeft
  /\ Quiet => NothingNewer /\ OneAsks /\ Settled /\ FetchersInStep

LEMMA Revisions ==
  /\ \A p \in Packuments : p.revision \in 1..MaxRevision
  /\ MaxRevision \in Nat /\ NoPackument \notin Packuments /\ TornPackument \notin Packuments
  BY FetchAssumption DEF Packuments

LEMMA ServedIs ==
  ASSUME FetchTypeOK, NEW f \in Fetchers
  PROVE  /\ Served(f) \in Packuments /\ Served(f).revision = current[registryFor[f]]
         /\ registryFor[f] \in Registries /\ current[registryFor[f]] \in 1..MaxRevision
  BY DEF FetchTypeOK, Served, Packuments

\* Every step keeps the shapes of the files, and asks within its attempts.
LEMMA FetchTypes ==
  ASSUME FetchTypeOK, AttemptsLeft, FetchNext
  PROVE  FetchTypeOK' /\ AttemptsLeft' /\ registryFor' = registryFor
  <1> USE DEF At, cacheFiles, Asking
  <1>1. ASSUME NEW f \in Fetchers, FetchStep(f) PROVE FetchTypeOK' /\ AttemptsLeft' /\ registryFor' = registryFor
    <2>1. CASE UseCache(f) \/ LoadCached(f)
      BY <2>1 DEF UseCache, LoadCached, FetchTypeOK, AttemptsLeft
    <2>2. CASE Ask(f)
      <3>1. current[registryFor[f]] \in 0..MaxRevision /\ 0 \in 0..Attempts /\ 0 < Attempts
        BY FetchAssumption, ServedIs
      <3>2. (IF memoryEtag[f] # NoPackument THEN memoryEtag[f] ELSE etagFile)
              \in {NoPackument} \cup Packuments
        BY DEF FetchTypeOK
      <3> QED
        BY <2>2, <3>1, <3>2 DEF Ask, FetchTypeOK, AttemptsLeft
    <2>3. CASE Transient(f)
      <3>1. attempt[f] + 1 \in 0..Attempts
        BY <2>3, FetchAssumption DEF Transient, AttemptsLeft, FetchTypeOK
      <3> QED
        BY <2>3, <3>1 DEF Transient, FetchTypeOK, AttemptsLeft
    <2>4. CASE Refused(f)
      BY <2>4 DEF Refused, FetchTypeOK, AttemptsLeft
    <2>5. CASE Answered(f)
      <3>1. PICK p \in Packuments : p = Served(f)
        BY ServedIs
      <3>2. result' = result \/ result' = [result EXCEPT ![f] = p]
        BY <2>5, <3>1 DEF Answered
      <3>3. result' \in [Fetchers -> {NoPackument} \cup Packuments]
        BY <3>2 DEF FetchTypeOK
      <3>4. fetchAt' = [fetchAt EXCEPT ![f] = "load"] \/ fetchAt' = [fetchAt EXCEPT ![f] = "etag"]
        BY <2>5 DEF Answered
      <3> QED
        BY <2>5, <3>3, <3>4 DEF Answered, FetchTypeOK, AttemptsLeft
    <2>6. CASE StoreEtag(f)
      BY <2>6 DEF StoreEtag, FetchTypeOK, AttemptsLeft
    <2>7. CASE OpenCache(f)
      BY <2>7 DEF OpenCache, FetchTypeOK, AttemptsLeft
    <2>8. CASE WriteCache(f)
      BY <2>8 DEF WriteCache, FetchTypeOK, AttemptsLeft
    <2> QED
      BY <1>1, <2>1, <2>2, <2>3, <2>4, <2>5, <2>6, <2>7, <2>8 DEF FetchStep
  <1>2. ASSUME NEW f \in Fetchers,
               EtagWriteFails(f) \/ CacheWriteFails(f) \/ KillFetcher(f)
        PROVE  FetchTypeOK' /\ AttemptsLeft' /\ registryFor' = registryFor
    <2>1. fetchFaults' \in 0..FetchFaults
      BY <1>2, FetchAssumption DEF EtagWriteFails, CacheWriteFails, KillFetcher, FetchTypeOK
    <2> QED
      BY <1>2, <2>1 DEF EtagWriteFails, CacheWriteFails, KillFetcher, FetchTypeOK, AttemptsLeft
  <1>3. ASSUME NEW f \in Fetchers, FetchAgain(f)
        PROVE  FetchTypeOK' /\ AttemptsLeft' /\ registryFor' = registryFor
    BY <1>3, FetchAssumption DEF FetchAgain, FetchTypeOK, AttemptsLeft
  <1>4. ASSUME NEW g \in Registries, PublishRevision(g)
        PROVE  FetchTypeOK' /\ AttemptsLeft' /\ registryFor' = registryFor
    BY <1>4, FetchAssumption DEF PublishRevision, FetchTypeOK, AttemptsLeft
  <1>5. CASE Expire
    BY <1>5 DEF Expire, FetchTypeOK, AttemptsLeft
  <1> QED
    BY <1>1, <1>2, <1>3, <1>4, <1>5 DEF FetchNext

\* What a quiet step leaves to a fetcher that does not take it.
LEMMA QuietBefore ==
  ASSUME FetchTypeOK, FetchNext, Quiet'
  PROVE  Quiet
  <1>1. ASSUME NEW f \in Fetchers,
               FetchStep(f) \/ FetchAgain(f) \/ KillFetcher(f) \/ EtagWriteFails(f) \/ CacheWriteFails(f)
        PROVE  Quiet
    BY <1>1, FetchAssumption DEF Quiet, OneRegistry, FetchTypeOK, FetchStep, UseCache, Ask, Transient, Refused, Answered,
       LoadCached, StoreEtag, OpenCache, WriteCache, FetchAgain, KillFetcher, EtagWriteFails, CacheWriteFails
  <1>2. CASE (\E g \in Registries : PublishRevision(g)) \/ Expire
    BY <1>2 DEF PublishRevision, Expire, Quiet, OneRegistry
  <1> QED
    BY <1>1, <1>2 DEF FetchNext

\* A step that touches no file, no etag and no request: the cached answer, a
\* retry, a refusal, the next fetch, a new revision and the cache's expiry.
LEMMA IdleStepKeeps ==
  ASSUME FetchInv, FetchTypeOK', Quiet, registryFor' = registryFor,
         cacheFile' = cacheFile, etagFile' = etagFile,
         \A g \in Registries : current[g] <= current'[g],
         \A g \in Fetchers : \/ memoryEtag'[g] = memoryEtag[g]
                             \/ memoryEtag'[g] = NoPackument,
         \A g \in Fetchers :
           \/ /\ fetchAt'[g] = fetchAt[g] /\ askedWith'[g] = askedWith[g]
              /\ result'[g] = result[g] /\ asOf'[g] = asOf[g]
           \/ /\ fetchAt[g] \notin {"open", "write"}
              /\ fetchAt'[g] \in {"idle", "cached", "failed"} /\ asOf'[g] \in {0, asOf[g]}
  PROVE  NothingNewer' /\ OneAsks' /\ Settled' /\ FetchersInStep'
  <1> USE DEF FetchInv
  <1>1. NothingNewer'
    <2>1. \A g \in Fetchers : current[registryFor[g]] <= current'[registryFor'[g]]
      BY DEF FetchTypeOK
    <2>2. \A g \in Fetchers : current[registryFor[g]] \in Nat /\ current'[registryFor'[g]] \in Nat
                              /\ asOf[g] \in Nat /\ asOf'[g] \in {0, asOf[g]}
      BY Revisions DEF FetchTypeOK
    <2>3. ServedReaches(cacheFile)' /\ ServedReaches(etagFile)'
      BY <2>1, <2>2, Revisions DEF NothingNewer, ServedReaches
    <2>4. ASSUME NEW g \in Fetchers PROVE ServedReaches(memoryEtag[g])'
      BY <2>1, <2>2, Revisions DEF NothingNewer, ServedReaches
    <2>5. \A g \in Fetchers : asOf'[g] <= current'[registryFor'[g]]
      BY <2>1, <2>2 DEF NothingNewer
    <2> QED
      BY <2>3, <2>4, <2>5 DEF NothingNewer
  <1>2. OneAsks'
    BY DEF OneAsks, Asking
  <1>3. Settled'
    <2>1. \A g \in Fetchers : fetchAt'[g] \notin {"open", "write"} => fetchAt[g] \notin {"open", "write"}
      OBVIOUS
    <2> QED
      BY <2>1, Revisions DEF Settled, AtLeast
  <1>4. FetchersInStep'
    <2> SUFFICES ASSUME NEW g \in Fetchers, fetchAt'[g] = fetchAt[g], askedWith'[g] = askedWith[g],
                        result'[g] = result[g], asOf'[g] = asOf[g],
                        fetchAt[g] \in {"etag", "open", "write"}
                 PROVE  Storing(g)'
      BY DEF FetchersInStep, AtLeast
    <2>1. Storing(g)
      BY DEF FetchersInStep
    <2>2. \A h \in Fetchers : current[registryFor[h]] <= current'[registryFor'[h]]
      BY DEF FetchTypeOK
    <2>3. \A h \in Fetchers : current[registryFor[h]] \in Nat /\ current'[registryFor'[h]] \in Nat
      BY Revisions DEF FetchTypeOK
    <2>4. ServedReaches(result[g])'
      BY <2>1, <2>2, <2>3, Revisions DEF Storing, ServedReaches
    <2> QED
      BY <2>1, <2>4, Revisions DEF Storing, AtLeast
  <1> QED
    BY <1>1, <1>2, <1>3, <1>4

\* The steps that move a request on: what each needs to have been kept so far.
LEMMA RequestKeeps ==
  ASSUME FetchInv, FetchTypeOK', Quiet, Quiet', registryFor' = registryFor,
         NEW f \in Fetchers, Ask(f) \/ Answered(f) \/ LoadCached(f)
  PROVE  NothingNewer' /\ OneAsks' /\ Settled' /\ FetchersInStep'
  <1> USE DEF FetchInv
  <1>1. /\ cacheFile' = cacheFile /\ etagFile' = etagFile /\ memoryEtag' = memoryEtag
        /\ current' = current /\ \A g \in Fetchers : g # f =>
             /\ fetchAt'[g] = fetchAt[g] /\ askedWith'[g] = askedWith[g]
             /\ result'[g] = result[g] /\ asOf'[g] = asOf[g]
    BY DEF Ask, Answered, LoadCached, At, cacheFiles, FetchTypeOK
  <1>2. /\ fetchAt[f] \notin {"open", "write"} /\ fetchAt'[f] \notin {"open", "write"}
        /\ asOf'[f] \in {asOf[f], current[registryFor[f]]}
    BY DEF Ask, Answered, LoadCached, At, FetchTypeOK
  <1>3. NothingNewer'
    <2>1. \A g \in Fetchers : current[registryFor[g]] \in Nat /\ asOf[g] \in Nat
      BY Revisions DEF FetchTypeOK
    <2>2. ServedReaches(cacheFile)' /\ ServedReaches(etagFile)'
      BY <1>1 DEF NothingNewer, ServedReaches
    <2>3. ASSUME NEW g \in Fetchers PROVE ServedReaches(memoryEtag[g])'
      BY <1>1 DEF NothingNewer, ServedReaches
    <2>4. \A g \in Fetchers : asOf'[g] <= current'[registryFor'[g]]
      BY <1>1, <1>2, <2>1 DEF NothingNewer
    <2> QED
      BY <2>2, <2>3, <2>4 DEF NothingNewer
  <1>4. OneAsks'
    <2>1. CASE Ask(f)
      <3>1. \A g \in Fetchers : fetchAt[g] \notin Asking
        BY <2>1 DEF Ask, Quiet
      <3> QED
        BY <3>1, <1>1 DEF OneAsks
    <2>2. CASE Answered(f) \/ LoadCached(f)
      <3>1. fetchAt[f] \in Asking
        BY <2>2 DEF Answered, LoadCached, At, Asking
      <3> QED
        BY <3>1, <1>1 DEF OneAsks
    <2> QED
      BY <2>1, <2>2
  <1>5. Settled'
    BY <1>1, <1>2 DEF Settled, AtLeast
  <1>6. FetchersInStep'
    <2>1. \A g \in Fetchers : g # f =>
            /\ fetchAt'[g] \in {"etag", "open", "write"} => Storing(g)'
            /\ fetchAt'[g] \in {"send", "load"} => AtLeast(cacheFile, askedWith[g])'
            /\ fetchAt'[g] = "load" => askedWith'[g] \in Packuments /\ askedWith'[g].revision >= asOf'[g]
            /\ fetchAt'[g] = "done" => result'[g] \in Packuments /\ result'[g].revision >= asOf'[g]
      BY <1>1 DEF FetchersInStep, Storing, AtLeast, ServedReaches
    <2>2. CASE Ask(f)
      <3>1. fetchAt'[f] = "send" /\ askedWith'[f] \in {memoryEtag[f], etagFile}
        BY <2>2 DEF Ask, At, FetchTypeOK
      <3>2. \A g \in Fetchers : fetchAt[g] \notin {"open", "write"}
        BY <2>2 DEF Ask, Quiet, Asking
      <3>3. AtLeast(cacheFile, askedWith[f])'
        BY <3>1, <3>2, <1>1 DEF Settled, AtLeast
      <3> QED
        BY <2>1, <3>1, <3>3 DEF FetchersInStep
    <2>3. CASE Answered(f)
      <3>1. PICK p \in Packuments : p = Served(f) /\ p.revision = current[registryFor[f]]
        BY ServedIs
      <3>2. asOf'[f] = asOf[f] /\ askedWith' = askedWith /\ fetchAt[f] = "send" /\ asOf[f] <= p.revision
        BY <2>3, <3>1 DEF Answered, At, NothingNewer
      <3>3. /\ asOf[f] \in Nat /\ p.revision \in Nat
            /\ \A g \in Fetchers : current[registryFor[g]] = p.revision
        BY <3>1, Revisions DEF FetchTypeOK, Quiet, OneRegistry
      <3>4. CASE askedWith[f] = p
        <4>1. fetchAt'[f] = "load"
          BY <2>3, <3>1, <3>4 DEF Answered, At, FetchTypeOK
        <4>2. AtLeast(cacheFile, askedWith[f])'
          BY <3>2, <1>1 DEF FetchersInStep, AtLeast
        <4> QED
          BY <2>1, <3>2, <3>3, <3>4, <4>1, <4>2 DEF FetchersInStep
      <3>5. CASE askedWith[f] # p
        <4>1. fetchAt'[f] = "etag" /\ result'[f] = p
          BY <2>3, <3>1, <3>5 DEF Answered, At, FetchTypeOK
        <4>2. AtLeast(p, cacheFile) /\ AtLeast(p, etagFile) /\ \A g \in Fetchers : AtLeast(p, memoryEtag[g])
          BY <3>3 DEF NothingNewer, ServedReaches, AtLeast
        <4>3. Storing(f)'
          BY <1>1, <3>2, <3>3, <4>1, <4>2 DEF Storing, AtLeast, ServedReaches
        <4> QED
          BY <2>1, <4>1, <4>3 DEF FetchersInStep
      <3> QED
        BY <3>4, <3>5
    <2>4. CASE LoadCached(f)
      <3>1. fetchAt[f] = "load" /\ asOf'[f] = asOf[f]
        BY <2>4 DEF LoadCached, At
      <3>2. cacheFile \in Packuments /\ asOf[f] <= cacheFile.revision
        <4>1. askedWith[f] \in Packuments /\ askedWith[f].revision >= asOf[f]
          BY <3>1 DEF FetchersInStep
        <4>2. cacheFile \in Packuments /\ askedWith[f].revision <= cacheFile.revision
          BY <3>1, <4>1 DEF FetchersInStep, AtLeast
        <4>3. asOf[f] \in Nat /\ askedWith[f].revision \in Nat /\ cacheFile.revision \in Nat
          BY <4>1, <4>2, Revisions DEF FetchTypeOK
        <4> QED
          BY <4>1, <4>2, <4>3
      <3>3. fetchAt'[f] = "done" /\ result'[f] = cacheFile
        BY <2>4, <3>2, Revisions DEF LoadCached, At, FetchTypeOK
      <3> QED
        BY <2>1, <3>1, <3>2, <3>3 DEF FetchersInStep
    <2> QED
      BY <2>2, <2>3, <2>4
  <1> QED
    BY <1>3, <1>4, <1>5, <1>6

\* The steps that write the cache: the etag in memory and on disk, then the body.
LEMMA CacheWriteKeeps ==
  ASSUME FetchInv, FetchTypeOK', Quiet, Quiet', registryFor' = registryFor,
         NEW f \in Fetchers, StoreEtag(f) \/ OpenCache(f) \/ WriteCache(f)
  PROVE  NothingNewer' /\ OneAsks' /\ Settled' /\ FetchersInStep'
  <1> USE DEF FetchInv
  <1>1. /\ current' = current /\ askedWith' = askedWith /\ result' = result /\ asOf' = asOf
        /\ \A g \in Fetchers : g # f => fetchAt'[g] = fetchAt[g]
        /\ fetchAt[f] \in {"etag", "open", "write"} /\ fetchAt'[f] \in {"open", "write", "done"}
    BY DEF StoreEtag, OpenCache, WriteCache, At, FetchTypeOK
  <1>2. PICK r \in Packuments : r = result[f] /\ Storing(f)
    BY <1>1 DEF FetchersInStep, Storing
  <1>3. /\ cacheFile' \in {cacheFile, TornPackument, r} /\ etagFile' \in {etagFile, r}
        /\ \A g \in Fetchers : memoryEtag'[g] \in {memoryEtag[g], r}
    BY <1>2 DEF StoreEtag, OpenCache, WriteCache, At, FetchTypeOK
  <1>4. ServedReaches(r) /\ AtLeast(r, cacheFile) /\ AtLeast(r, etagFile)
        /\ \A g \in Fetchers : AtLeast(r, memoryEtag[g])
    BY <1>2 DEF Storing
  <1>5. /\ AtLeast(r, cacheFile') /\ AtLeast(r, etagFile')
        /\ \A g \in Fetchers : AtLeast(r, memoryEtag'[g])
    BY <1>3, <1>4, Revisions DEF AtLeast
  <1>6. NothingNewer'
    <2>1. ServedReaches(r)'
      BY <1>1, <1>4 DEF ServedReaches
    <2>2. ServedReaches(cacheFile)' /\ ServedReaches(etagFile)'
      BY <1>1, <1>3, <2>1, Revisions DEF NothingNewer, ServedReaches
    <2>3. ASSUME NEW g \in Fetchers PROVE ServedReaches(memoryEtag[g])'
      BY <1>1, <1>3, <2>1 DEF NothingNewer, ServedReaches
    <2> QED
      BY <2>2, <2>3, <1>1 DEF NothingNewer
  <1>7. \A g \in Fetchers : g # f => fetchAt[g] \notin Asking /\ fetchAt'[g] \notin Asking
    BY <1>1 DEF OneAsks, Asking
  <1>8. OneAsks'
    BY <1>7 DEF OneAsks
  <1>9. Settled'
    <2>1. CASE fetchAt'[f] = "done"
      <3>1. cacheFile' = r
        BY <1>2, <2>1 DEF StoreEtag, OpenCache, WriteCache, At, FetchTypeOK
      <3> QED
        BY <3>1, <1>5 DEF Settled, AtLeast
    <2>2. CASE fetchAt'[f] # "done"
      BY <2>2, <1>1 DEF Settled
    <2> QED
      BY <2>1, <2>2
  <1>10. FetchersInStep'
    <2>1. Storing(f)'
      <3>1. ServedReaches(result[f])'
        BY <1>1, <1>2, <1>4 DEF ServedReaches
      <3>2. result'[f] = r /\ result'[f].revision >= asOf'[f]
        BY <1>1, <1>2 DEF Storing
      <3> QED
        BY <3>1, <3>2, <1>5 DEF Storing, AtLeast
    <2>2. result'[f] \in Packuments /\ result'[f].revision >= asOf'[f]
      BY <2>1 DEF Storing
    <2>3. \A g \in Fetchers : g # f => fetchAt'[g] \notin {"send", "load", "etag", "open", "write"}
      BY <1>7 DEF Asking
    <2> QED
      BY <2>1, <2>2, <2>3, <1>1 DEF FetchersInStep
  <1> QED
    BY <1>6, <1>8, <1>9, <1>10

LEMMA FetchStarts == FetchInit => FetchInv
  <1> SUFFICES ASSUME FetchInit PROVE FetchInv
    OBVIOUS
  <1>1. FetchTypeOK
    <2>1. 1 \in 1..MaxRevision /\ 0 \in 0..MaxRevision /\ 0 \in 0..Attempts /\ 0 \in 0..FetchFaults
      BY FetchAssumption
    <2>2. /\ current \in [Registries -> 1..MaxRevision] /\ registryFor \in [Fetchers -> Registries]
          /\ cacheFile = NoPackument /\ etagFile = NoPackument /\ cacheFresh \in BOOLEAN
      BY <2>1 DEF FetchInit
    <2>3. /\ memoryEtag \in [Fetchers -> {NoPackument} \cup Packuments]
          /\ askedWith \in [Fetchers -> {NoPackument} \cup Packuments]
          /\ result \in [Fetchers -> {NoPackument} \cup Packuments]
      BY DEF FetchInit
    <2>4. /\ attempt \in [Fetchers -> 0..Attempts] /\ asOf \in [Fetchers -> 0..MaxRevision]
          /\ fetchAt \in [Fetchers -> Asking \cup {"idle", "done", "cached", "failed", "killed"}]
          /\ fetchOverlap \in BOOLEAN /\ fetchFaults \in 0..FetchFaults
      BY <2>1 DEF FetchInit
    <2> QED
      BY <2>2, <2>3, <2>4 DEF FetchTypeOK
  <1>2. AttemptsLeft /\ OneAsks /\ FetchersInStep
    BY DEF FetchInit, AttemptsLeft, OneAsks, FetchersInStep, Asking
  <1>3. NothingNewer /\ Settled
    BY <1>1, Revisions DEF FetchInit, FetchTypeOK, NothingNewer, ServedReaches, Settled, AtLeast
  <1> QED
    BY <1>1, <1>2, <1>3 DEF FetchInv

LEMMA FetchStepKeeps ==
  ASSUME FetchInv, FetchNext
  PROVE  FetchInv'
  <1>1. FetchTypeOK' /\ AttemptsLeft' /\ registryFor' = registryFor
    BY FetchTypes DEF FetchInv
  <1> SUFFICES ASSUME Quiet' PROVE NothingNewer' /\ OneAsks' /\ Settled' /\ FetchersInStep'
    BY <1>1 DEF FetchInv
  <1>2. Quiet
    BY QuietBefore DEF FetchInv
  <1>3. ASSUME NEW f \in Fetchers, UseCache(f) \/ Transient(f) \/ Refused(f) \/ FetchAgain(f)
        PROVE  NothingNewer' /\ OneAsks' /\ Settled' /\ FetchersInStep'
    <2>1. /\ current' = current /\ cacheFile' = cacheFile /\ etagFile' = etagFile
          /\ \A g \in Fetchers : memoryEtag'[g] = memoryEtag[g] \/ memoryEtag'[g] = NoPackument
      BY <1>3 DEF UseCache, Transient, Refused, FetchAgain, cacheFiles, FetchInv, FetchTypeOK
    <2>2. \A g \in Fetchers :
            \/ /\ fetchAt'[g] = fetchAt[g] /\ askedWith'[g] = askedWith[g]
               /\ result'[g] = result[g] /\ asOf'[g] = asOf[g]
            \/ /\ fetchAt[g] \notin {"open", "write"}
               /\ fetchAt'[g] \in {"idle", "cached", "failed"} /\ asOf'[g] \in {0, asOf[g]}
      BY <1>3 DEF UseCache, Transient, Refused, FetchAgain, At, FetchInv, FetchTypeOK
    <2>3. \A g \in Registries : current[g] <= current'[g]
      BY <2>1 DEF FetchInv, FetchTypeOK
    <2> QED
      BY <1>1, <1>2, <2>1, <2>2, <2>3, IdleStepKeeps
  <1>4. CASE (\E g \in Registries : PublishRevision(g)) \/ Expire
    <2>1. /\ cacheFile' = cacheFile /\ etagFile' = etagFile /\ memoryEtag' = memoryEtag
          /\ fetchAt' = fetchAt /\ askedWith' = askedWith /\ result' = result /\ asOf' = asOf
      BY <1>4 DEF PublishRevision, Expire, cacheFiles
    <2>2. \A g \in Registries : current[g] <= current'[g]
      BY <1>4 DEF PublishRevision, Expire, FetchInv, FetchTypeOK
    <2> QED
      BY <1>1, <1>2, <2>1, <2>2, IdleStepKeeps
  <1>5. ASSUME NEW f \in Fetchers, EtagWriteFails(f) \/ CacheWriteFails(f) \/ KillFetcher(f)
        PROVE  FALSE
    BY <1>2, <1>5 DEF EtagWriteFails, CacheWriteFails, KillFetcher, Quiet
  <1> QED
    BY <1>1, <1>2, <1>3, <1>4, <1>5, RequestKeeps, CacheWriteKeeps DEF FetchNext, FetchStep

LEMMA FetchInvAlways == FetchSpec => []FetchInv
  <1>1. FetchInv /\ UNCHANGED fetchVars => FetchInv'
    <2> SUFFICES ASSUME FetchInv, UNCHANGED fetchVars PROVE FetchInv'
      OBVIOUS
    <2> USE DEF fetchVars, cacheFiles
    <2>1. FetchTypeOK' /\ AttemptsLeft'
      BY DEF FetchInv, FetchTypeOK, AttemptsLeft
    <2>2. Quiet' => Quiet
      BY DEF Quiet, OneRegistry
    <2>3. (OneAsks => OneAsks') /\ (Settled => Settled') /\ (NothingNewer => NothingNewer')
      BY DEF OneAsks, Settled, AtLeast, NothingNewer, ServedReaches
    <2>4. FetchersInStep => FetchersInStep'
      BY DEF FetchersInStep, Storing, AtLeast, ServedReaches
    <2> QED
      BY <2>1, <2>2, <2>3, <2>4 DEF FetchInv
  <1> QED
    BY <1>1, FetchStarts, FetchStepKeeps, PTL DEF FetchSpec

\* The cache files hold packuments, torn ones or none, and a request stays
\* within REQUEST_ATTEMPTS.
THEOREM FetchTypeCorrect == FetchSpec => []FetchTypeOK
  <1>1. FetchInv => FetchTypeOK
    BY DEF FetchInv
  <1> QED
    BY <1>1, FetchInvAlways, PTL

\* Commands that use one registry and ask one after the other, with no fault,
\* never go on with a packument older than the registry's when they asked:
\* fetch_packument keeps its etags no newer than the body on disk.
THEOREM NeverStaleAlways == FetchSpec => []NeverStale
  <1>1. FetchInv => NeverStale
    BY DEF FetchInv, Quiet, FetchersInStep, NeverStale
  <1> QED
    BY <1>1, FetchInvAlways, PTL

-----------------------------------------------------------------------------
(***************************************************************************)
(* The tarball's download, for any bodies, limits and number of attempts.  *)
(***************************************************************************)
\* The file holds the first n chunks of the response being read.
Holds(n) == dest = [k \in 1..n |-> <<body.content, k>>] /\ n <= body.chunks /\ n <= MaxArchive

TarballInv ==
  /\ body.chunks \in Nat
  /\ tarAt = "stream" => \E n \in Nat : Holds(n)
  /\ StoredIntact

LEMMA Chunks ==
  ASSUME NEW m \in Nat, NEW c, NEW d, d = [k \in 1..m |-> <<c, k>>]
  PROVE  d \in Seq({c} \X Nat) /\ Len(d) = m /\ \A k \in 1..m : d[k] = <<c, k>>
  <1>1. d \in [1..m -> {c} \X Nat] /\ DOMAIN d = 1..m /\ \A k \in 1..m : d[k] = <<c, k>>
    OBVIOUS
  <1>2. d \in Seq({c} \X Nat)
    BY <1>1, SeqDef
  <1> QED
    BY <1>1, <1>2

LEMMA HeldLength ==
  ASSUME NEW n \in Nat, Holds(n)
  PROVE  /\ Len(dest) = n /\ Received = n
         /\ Append(dest, <<body.content, n + 1>>) = [k \in 1..n+1 |-> <<body.content, k>>]
  <1> DEFINE S == {body.content} \X Nat
  <1>1. dest \in Seq(S) /\ Len(dest) = n /\ \A k \in 1..n : dest[k] = <<body.content, k>>
    BY Chunks DEF Holds
  <1>2. {k \in 1..Len(dest) : dest[k][1] = body.content} = 1..n
    BY <1>1
  <1>3. Cardinality(1..n) = n
    BY FS_Interval
  <1>4. Append(dest, <<body.content, n + 1>>) = [k \in 1..n+1 |-> <<body.content, k>>]
    <2>1. PICK m \in Nat : m = n + 1
      OBVIOUS
    <2>2. PICK e \in S : e = <<body.content, m>>
      OBVIOUS
    <2>3. PICK w : w = [k \in 1..m |-> <<body.content, k>>]
      OBVIOUS
    <2>4. w \in Seq(S) /\ Len(w) = m /\ \A k \in 1..m : w[k] = <<body.content, k>>
      BY <2>3, Chunks
    <2>5. /\ Append(dest, e) \in Seq(S) /\ Len(Append(dest, e)) = m
          /\ Append(dest, e)[m] = e /\ \A k \in 1..n : Append(dest, e)[k] = dest[k]
      BY <1>1, <2>1, AppendProperties
    <2>6. ASSUME NEW k \in 1..m PROVE Append(dest, e)[k] = w[k]
      <3>1. k \in 1..n \/ k = m
        BY <2>1
      <3> QED
        BY <2>2, <2>4, <2>5, <3>1, <1>1
    <2>7. Append(dest, e) = w
      BY <2>4, <2>5, <2>6, SeqEqual
    <2> QED
      BY <2>1, <2>2, <2>3, <2>7
  <1> QED
    BY <1>1, <1>2, <1>3, <1>4 DEF Received

\* IntegrityVerifier: a digest counts only if no stronger algorithm is listed.
LEMMA StrongestCounts ==
  ASSUME NEW tokens, NEW content, Verifies(tokens, content)
  PROVE  \E t \in tokens :
           /\ t.of = content
           /\ \A u \in tokens : u.algo = "sha512" => t.algo = "sha512"
           /\ \A u \in tokens : u.algo = "sha256" => t.algo \in {"sha512", "sha256"}
  <1> DEFINE present == {k \in 1..Len(Algorithms) : \E t \in tokens : t.algo = Algorithms[k]}
             first == CHOOSE k \in present : \A j \in present : k <= j
  <1>1. PICK t \in Strongest(tokens) : t.of = content
    BY DEF Verifies
  <1>2. present # {} /\ t \in tokens /\ t.algo = Algorithms[first]
    BY <1>1 DEF Strongest
  <1>3. /\ Len(Algorithms) = 3 /\ Algorithms[1] = "sha512" /\ Algorithms[2] = "sha256"
        /\ Algorithms[3] = "sha1"
    BY DEF Algorithms
  <1>4. present \subseteq 1..3
    BY <1>3
  <1>5. \E k \in present : \A j \in present : k <= j
    BY <1>2, <1>4
  <1>6. first \in present /\ \A j \in present : first <= j
    BY <1>5
  <1>7. ASSUME NEW u \in tokens, u.algo = "sha512" PROVE 1 \in present
    BY <1>3, <1>7
  <1>8. ASSUME NEW u \in tokens, u.algo = "sha256" PROVE 2 \in present
    BY <1>3, <1>8
  <1> HIDE DEF present, first
  <1> QED
    BY <1>1, <1>2, <1>3, <1>4, <1>6, <1>7, <1>8

LEMMA DownloadKeeps ==
  ASSUME TarballInv, TarballNext
  PROVE  TarballInv'
  <1> USE DEF TarballInv, extractVars, downloadVars
  <1>1. CASE RequestTransient \/ RequestFails \/ StreamBreaks
    BY <1>1 DEF RequestTransient, RequestFails, StreamBreaks, RetryOrFail, StoredIntact,
                StoredWhole, StoredVerified
  <1>2. CASE RequestAnswered
    <2>1. body'.chunks \in Nat /\ tarAt' = "stream" /\ dest' = <<>>
      BY <1>2, TarballAssumption DEF RequestAnswered, Bodies
    <2>2. Holds(0)'
      BY <2>1, TarballAssumption DEF Holds
    <2> QED
      BY <2>1, <2>2 DEF StoredIntact, StoredWhole, StoredVerified
  <1>3. CASE StreamChunk
    <2>1. tarAt = "stream" /\ body' = body
      BY <1>3 DEF StreamChunk
    <2>2. PICK n \in Nat : Holds(n)
      BY <2>1
    <2>3. Received = n /\ n < body.chunks
      BY <1>3, <2>2, HeldLength DEF StreamChunk
    <2>4. CASE n + 1 > MaxArchive
      BY <1>3, <2>1, <2>3, <2>4 DEF StreamChunk, StoredIntact, StoredWhole, StoredVerified
    <2>5. CASE ~ (n + 1 > MaxArchive)
      <3>1. tarAt' = "stream" /\ dest' = [k \in 1..n+1 |-> <<body.content, k>>]
        BY <1>3, <2>1, <2>2, <2>3, <2>5, HeldLength DEF StreamChunk
      <3>2. Holds(n + 1)'
        BY <2>1, <2>3, <2>5, <3>1, TarballAssumption DEF Holds
      <3> QED
        BY <2>1, <3>1, <3>2 DEF StoredIntact, StoredWhole, StoredVerified
    <2> QED
      BY <2>4, <2>5
  <1>4. CASE StreamEnds
    <2>1. tarAt = "stream" /\ body' = body /\ integrity' = integrity /\ Received = body.chunks
      BY <1>4 DEF StreamEnds
    <2>2. PICK n \in Nat : Holds(n)
      BY <2>1
    <2>3. n = body.chunks /\ Len(dest) = n
      BY <2>1, <2>2, HeldLength
    <2>4. CASE integrity = {} \/ Verifies(integrity, body.content)
      <3>1. tarAt' = "stored" /\ dest' = dest
        BY <1>4, <2>4 DEF StreamEnds
      <3>2. StoredWhole'
        BY <3>1, <2>1, <2>2, <2>3 DEF StoredWhole, Holds
      <3>3. StoredVerified'
        BY <2>1, <2>4, StrongestCounts DEF StoredVerified
      <3> QED
        BY <2>1, <3>1, <3>2, <3>3 DEF StoredIntact
    <2>5. CASE ~ (integrity = {} \/ Verifies(integrity, body.content))
      BY <1>4, <2>1, <2>5 DEF StreamEnds, StoredIntact, StoredWhole, StoredVerified
    <2> QED
      BY <2>4, <2>5
  <1>5. CASE OpenArchive \/ ExtractEntry \/ EndArchive
    <2>1. body' = body /\ tarAt' \in {"entries", "failed", "extracted"}
      BY <1>5 DEF OpenArchive, ExtractEntry, EndArchive
    <2> QED
      BY <2>1 DEF StoredIntact, StoredWhole, StoredVerified
  <1> QED
    BY <1>1, <1>2, <1>3, <1>4, <1>5 DEF TarballNext

LEMMA TarballInvAlways == TarballSpec => []TarballInv
  <1>1. TarballInit => TarballInv
    BY DEF TarballInit, TarballInv, StoredIntact, StoredWhole, StoredVerified
  <1>2. TarballInv /\ UNCHANGED tarVars => TarballInv'
    BY DEF tarVars, downloadVars, TarballInv, Holds, StoredIntact, StoredWhole, StoredVerified
  <1> QED
    BY <1>1, <1>2, DownloadKeeps, PTL DEF TarballSpec

\* What fetch_tarball_to_file hands on is one whole response within the size
\* limit, whatever the attempts before it left in the file, and it matches a
\* digest of the strongest algorithm that is listed.
THEOREM StoredIntactAlways == TarballSpec => []StoredIntact
  <1>1. TarballInv => StoredIntact
    BY DEF TarballInv
  <1> QED
    BY <1>1, TarballInvAlways, PTL

-----------------------------------------------------------------------------
(***************************************************************************)
(* The extraction, for any archives and limits.                            *)
(***************************************************************************)
\* The recursive functions Parts and Walk are what their equations say.
LEMMA PartsAre ==
  ASSUME NEW path \in Seq(STRING)
  PROVE  Parts(path) = [k \in 0..Len(path) |->
           IF k = 0 THEN <<>>
           ELSE IF path[k] = "." THEN Parts(path)[k - 1]
                ELSE Append(Parts(path)[k - 1], path[k])]
  <1> DEFINE Step(x, k) == IF path[k] = "." THEN x ELSE Append(x, path[k])
             Is(g, n) == g = [k \in 0..n |-> IF k = 0 THEN <<>> ELSE Step(g[k - 1], k)]
             T == {n \in Nat : \E g : Is(g, n)}
  <1> HIDE DEF Step
  <1>1. 0 \in T
    <2>1. Is([k \in 0..0 |-> <<>>], 0)
      OBVIOUS
    <2> QED
      BY <2>1
  <1>2. ASSUME NEW n \in T PROVE n + 1 \in T
    <2>1. PICK g : Is(g, n)
      OBVIOUS
    <2>2. PICK h : h = [k \in 0..n+1 |-> IF k = n + 1 THEN Step(g[n], n + 1) ELSE g[k]]
      OBVIOUS
    <2>3. Is(h, n + 1) /\ n + 1 \in Nat
      BY <2>1, <2>2
    <2> QED
      BY <2>3
  <1>3. T = Nat
    <2>1. T \in SUBSET Nat
      OBVIOUS
    <2> QED
      BY <1>1, <1>2, <2>1, Induction
  <1>4. \E g : Is(g, Len(path))
    <2>1. Len(path) \in T
      BY <1>3
    <2> QED
      BY <2>1
  <1> QED
    BY <1>4, Zenon DEF Parts, Step

LEMMA WalkIs ==
  ASSUME NEW path \in Seq(STRING)
  PROVE  Walk(path) = [k \in 0..Len(path) |->
           IF k = 0 THEN Root
           ELSE IF path[k] # ".." THEN Append(Walk(path)[k - 1], path[k])
           ELSE IF Walk(path)[k - 1] = <<>> THEN <<>> ELSE Front(Walk(path)[k - 1])]
  <1> DEFINE Step(x, k) == IF path[k] # ".." THEN Append(x, path[k])
                           ELSE IF x = <<>> THEN <<>> ELSE Front(x)
             Is(g, n) == g = [k \in 0..n |-> IF k = 0 THEN Root ELSE Step(g[k - 1], k)]
             T == {n \in Nat : \E g : Is(g, n)}
  <1> HIDE DEF Step
  <1>1. 0 \in T
    <2>1. Is([k \in 0..0 |-> Root], 0)
      OBVIOUS
    <2> QED
      BY <2>1
  <1>2. ASSUME NEW n \in T PROVE n + 1 \in T
    <2>1. PICK g : Is(g, n)
      OBVIOUS
    <2>2. PICK h : h = [k \in 0..n+1 |-> IF k = n + 1 THEN Step(g[n], n + 1) ELSE g[k]]
      OBVIOUS
    <2>3. Is(h, n + 1) /\ n + 1 \in Nat
      BY <2>1, <2>2
    <2> QED
      BY <2>3
  <1>3. T = Nat
    <2>1. T \in SUBSET Nat
      OBVIOUS
    <2> QED
      BY <1>1, <1>2, <2>1, Induction
  <1>4. \E g : Is(g, Len(path))
    <2>1. Len(path) \in T
      BY <1>3
    <2> QED
      BY <2>1
  <1> QED
    BY <1>4, Zenon DEF Walk, Step

\* sanitize_tar_path keeps components of the path, and no others.
LEMMA PartsFrom ==
  ASSUME NEW path \in Seq(STRING), NEW S, S = {path[k] : k \in 1..Len(path)}
  PROVE  Parts(path)[Len(path)] \in Seq(S)
  <1> DEFINE T == {n \in Nat : n <= Len(path) => Parts(path)[n] \in Seq(S)}
  <1>0. Len(path) \in Nat
    OBVIOUS
  <1>1. 0 \in T
    <2>1. Parts(path)[0] = <<>>
      BY <1>0, PartsAre
    <2>2. Parts(path)[0] \in Seq(S)
      BY <2>1, EmptySeq
    <2> QED
      BY <2>2
  <1>2. ASSUME NEW n \in T PROVE n + 1 \in T
    <2> SUFFICES ASSUME n + 1 <= Len(path) PROVE Parts(path)[n + 1] \in Seq(S)
      OBVIOUS
    <2>1. Parts(path)[n] \in Seq(S) /\ path[n + 1] \in S
      BY <1>0
    <2>2. Parts(path)[n + 1] = IF path[n + 1] = "." THEN Parts(path)[n]
                               ELSE Append(Parts(path)[n], path[n + 1])
      <3>1. n + 1 \in 0..Len(path) /\ n + 1 # 0 /\ (n + 1) - 1 = n
        BY <1>0
      <3>2. Parts(path)[n + 1] =
              IF n + 1 = 0 THEN <<>>
              ELSE IF path[n + 1] = "." THEN Parts(path)[(n + 1) - 1]
                   ELSE Append(Parts(path)[(n + 1) - 1], path[n + 1])
        BY <3>1, PartsAre
      <3> QED
        BY <3>1, <3>2
    <2> QED
      BY <2>1, <2>2
  <1>3. T = Nat
    <2>1. T \in SUBSET Nat
      OBVIOUS
    <2> HIDE DEF T
    <2> QED
      BY <1>1, <1>2, <2>1, Induction
  <1> QED
    BY <1>0, <1>3

\* Components: the path's and those of the directory.
Components == STRING \cup {"tmp", "pkg"}

LEMMA PairSeq ==
  ASSUME NEW S, NEW a \in S, NEW b \in S
  PROVE  <<a, b>> \in Seq(S) /\ Len(<<a, b>>) = 2 /\ <<a, b>>[1] = a /\ <<a, b>>[2] = b
  OBVIOUS

LEMMA RootIs ==
  Root \in Seq(Components) /\ Len(Root) = 2 /\ Root[1] = "tmp" /\ Root[2] = "pkg"
  <1>1. PICK a \in Components, b \in Components : a = "tmp" /\ b = "pkg"
    BY DEF Components
  <1> QED
    BY <1>1, PairSeq, Zenon DEF Root

\* A path without parent components leads below the directory.
LEMMA WalksDown ==
  ASSUME NEW path \in Seq(STRING), \A k \in 1..Len(path) : path[k] # ".."
  PROVE  /\ Location(path) \in Seq(Components) /\ Len(Location(path)) = Len(path) + 2
         /\ Location(path)[1] = "tmp" /\ Location(path)[2] = "pkg"
  <1> DEFINE Below(n) == LET x == Walk(path)[n] IN
                           /\ x \in Seq(Components) /\ Len(x) = n + 2
                           /\ x[1] = "tmp" /\ x[2] = "pkg"
             T == {n \in Nat : n <= Len(path) => Below(n)}
  <1>0. Len(path) \in Nat
    OBVIOUS
  <1>1. 0 \in T
    <2>1. Walk(path)[0] = Root
      BY <1>0, WalkIs
    <2> QED
      BY <2>1, RootIs
  <1>2. ASSUME NEW n \in T PROVE n + 1 \in T
    <2> SUFFICES ASSUME n + 1 <= Len(path) PROVE Below(n + 1)
      OBVIOUS
    <2>1. Below(n)
      BY <1>0
    <2>2. Walk(path)[n + 1] = Append(Walk(path)[n], path[n + 1])
      <3>1. n + 1 \in 0..Len(path) /\ n + 1 # 0 /\ (n + 1) - 1 = n /\ path[n + 1] # ".."
        BY <1>0
      <3>2. Walk(path)[n + 1] =
              IF n + 1 = 0 THEN Root
              ELSE IF path[n + 1] # ".." THEN Append(Walk(path)[(n + 1) - 1], path[n + 1])
              ELSE IF Walk(path)[(n + 1) - 1] = <<>> THEN <<>>
                   ELSE Front(Walk(path)[(n + 1) - 1])
        BY <3>1, WalkIs
      <3> QED
        BY <3>1, <3>2
    <2>3. path[n + 1] \in Components
      BY <1>0 DEF Components
    <2> QED
      BY <2>1, <2>2, <2>3
  <1>3. T = Nat
    <2>1. T \in SUBSET Nat
      OBVIOUS
    <2> HIDE DEF T
    <2> QED
      BY <1>1, <1>2, <2>1, Induction
  <1>4. Below(Len(path))
    BY <1>0, <1>3
  <1> QED
    BY <1>4 DEF Location

\* What is left of a path that was found safe leads inside the directory.
LEMMA SafeInside ==
  ASSUME NEW path \in Seq(STRING), Sanitize(path) # "unsafe", Relative(path) # <<>>
  PROVE  IsPrefix(Root, Location(Relative(path))) /\ Location(Relative(path)) # Root
  <1> DEFINE S == {path[k] : k \in 1..Len(path)}
             all == Parts(path)[Len(path)]
             rel == Relative(path)
  <1>1. S \subseteq STRING /\ ".." \notin S
    BY DEF Sanitize
  <1>2. all \in Seq(S)
    BY PartsFrom
  <1>3. all # <<>> /\ rel = Tail(all)
    BY DEF Relative
  <1> HIDE DEF S, all
  <1>4. rel \in Seq(S)
    BY <1>2, <1>3
  <1> HIDE DEF rel
  <1>5. rel \in Seq(STRING) /\ \A k \in 1..Len(rel) : rel[k] # ".."
    <2>1. rel \in Seq(STRING)
      BY <1>1, <1>4, SeqMonotonic
    <2> QED
      BY <1>1, <1>4, <2>1, ElementOfSeq
  <1>6. Len(rel) \in Nat \ {0}
    BY <1>4, EmptySeq DEF rel
  <1>7. PICK x \in Seq(Components) : /\ x = Location(rel) /\ Len(x) = Len(rel) + 2
                                     /\ x[1] = "tmp" /\ x[2] = "pkg"
    BY <1>5, WalksDown
  <1>8. SubSeq(Root, 1, 2) = SubSeq(x, 1, 2)
    BY <1>6, <1>7, RootIs
  <1>9. Len(x) # Len(Root)
    BY <1>6, <1>7, RootIs
  <1>10. SubSeq(Root, 1, Len(Root)) = SubSeq(x, 1, Len(Root))
    BY <1>8, RootIs, Zenon
  <1>11. IsPrefix(Root, x) /\ x # Root
    <2>1. Len(Root) <= Len(x)
      BY <1>6, <1>7, RootIs
    <2> QED
      BY <1>9, <1>10, <2>1, Zenon DEF IsPrefix
  <1> QED
    BY <1>7, <1>11 DEF rel

\* The bytes on disk were all accounted for, and the loop goes on only within
\* its limits.
ExtractInv ==
  /\ archive \in Seq([path : Seq(STRING), kind : STRING, size : Nat])
  /\ seen \in Nat /\ seen <= MaxEntries + 1 /\ (tarAt # "failed" => seen <= MaxEntries)
  /\ unpacked \in Nat /\ unpacked <= MaxUnpacked
  /\ IsFiniteSet(DiskBytes) /\ Cardinality(DiskBytes) <= unpacked
  /\ WrittenInside

\* A file adds at most its size to the bytes on disk.
LEMMA FileAdds ==
  ASSUME IsFiniteSet(DiskBytes), NEW w, w.size \in Nat, written' = written \cup {w}
  PROVE  /\ IsFiniteSet(DiskBytes')
         /\ Cardinality(DiskBytes') <= Cardinality(DiskBytes) + w.size
  <1> DEFINE new == {w} \X (1..w.size)
             f == [k \in 1..w.size |-> <<w, k>>]
  <1>1. DiskBytes' = DiskBytes \cup new
    BY DEF DiskBytes
  <1>2. IsFiniteSet(1..w.size) /\ Cardinality(1..w.size) = w.size
    <2>1. PICK n \in Nat : n = w.size
      OBVIOUS
    <2>2. IsFiniteSet(1..n) /\ Cardinality(1..n) = n
      BY FS_Interval
    <2> QED
      BY <2>1, <2>2, Zenon
  <1>3. f \in Surjection(1..w.size, new)
    BY DEF Surjection
  <1>4. IsFiniteSet(new) /\ Cardinality(new) <= w.size
    BY <1>2, <1>3, FS_Surjection
  <1> HIDE DEF new
  <1>5. /\ IsFiniteSet(DiskBytes \cup new)
        /\ Cardinality(DiskBytes \cup new) =
             Cardinality(DiskBytes) + Cardinality(new) - Cardinality(DiskBytes \cap new)
    BY <1>4, FS_Union
  <1>6. Cardinality(DiskBytes \cap new) \in Nat /\ Cardinality(DiskBytes) \in Nat
        /\ Cardinality(new) \in Nat
    BY <1>4, FS_Intersection, FS_CardinalityType
  <1> QED
    BY <1>1, <1>4, <1>5, <1>6

LEMMA ExtractKeeps ==
  ASSUME ExtractInv, [TarballNext]_tarVars
  PROVE  ExtractInv'
  <1> DEFINE ArchiveEntries == [path : Seq(STRING), kind : STRING, size : Nat]
  <1>0. MaxEntries \in Nat /\ MaxUnpacked \in Nat /\ Archives \subseteq Seq(ArchiveEntries)
    BY TarballAssumption
  <1>1. CASE UNCHANGED extractVars /\ (tarAt' = "failed" \/ tarAt # "failed")
    BY <1>1 DEF extractVars, ExtractInv, DiskBytes, WrittenInside
  <1>2. CASE OpenArchive
    <2>1. archive' \in Seq(ArchiveEntries)
      BY <1>0, <1>2 DEF OpenArchive
    <2> QED
      BY <1>2, <2>1 DEF OpenArchive, ExtractInv, DiskBytes, WrittenInside
  <1>3. CASE ExtractEntry
    <2>0. archive \in Seq(ArchiveEntries) /\ archive # <<>> /\ archive' = Tail(archive)
      BY <1>3, Zenon DEF ExtractEntry, ExtractInv
    <2>1. PICK e \in ArchiveEntries : e = Head(archive)
      <3> HIDE DEF ArchiveEntries
      <3> QED BY <2>0
    <2>2. archive' \in Seq(ArchiveEntries)
      <3> HIDE DEF ArchiveEntries
      <3> QED BY <2>0
    <2>3. tarAt = "entries" /\ seen' = seen + 1
      BY <1>3 DEF ExtractEntry
    <2>4. seen' \in Nat /\ seen' <= MaxEntries + 1
      BY <1>0, <2>3 DEF ExtractInv
    <2>5. CASE UNCHANGED <<unpacked, written>> /\ (tarAt' = "failed" \/ ~(seen' > MaxEntries))
      BY <1>0, <2>2, <2>4, <2>5 DEF ExtractInv, DiskBytes, WrittenInside
    <2>6. CASE ~ (UNCHANGED <<unpacked, written>> /\ (tarAt' = "failed" \/ ~(seen' > MaxEntries)))
      <3> DEFINE w == [at |-> Location(Relative(e.path)), size |-> e.size]
      <3>1. /\ ~(seen' > MaxEntries) /\ Sanitize(e.path) # "unsafe"
            /\ Relative(e.path) # <<>> /\ ~(unpacked + e.size > MaxUnpacked)
            /\ unpacked' = unpacked + e.size /\ written' = written \cup {w}
        BY <1>3, <2>1, <2>6, Zenon DEF ExtractEntry
      <3>2. e.path \in Seq(STRING) /\ e.size \in Nat /\ w.size = e.size
            /\ w.at = Location(Relative(e.path))
        BY <2>1
      <3> HIDE DEF w
      <3>3. WrittenInside'
        BY <3>1, <3>2, SafeInside DEF ExtractInv, WrittenInside
      <3>4. IsFiniteSet(DiskBytes') /\ Cardinality(DiskBytes') <= Cardinality(DiskBytes) + e.size
        BY <3>1, <3>2, FileAdds DEF ExtractInv
      <3>5. Cardinality(DiskBytes') \in Nat /\ Cardinality(DiskBytes) \in Nat
        BY <3>4, FS_CardinalityType DEF ExtractInv
      <3>6. unpacked' \in Nat /\ unpacked' <= MaxUnpacked /\ Cardinality(DiskBytes') <= unpacked'
        BY <1>0, <3>1, <3>2, <3>4, <3>5 DEF ExtractInv
      <3> QED
        BY <1>0, <2>2, <2>4, <3>1, <3>3, <3>4, <3>6 DEF ExtractInv
    <2> QED
      BY <2>5, <2>6
  <1> QED
    BY <1>1, <1>2, <1>3 DEF TarballNext, RequestTransient, RequestFails, RequestAnswered,
       StreamChunk, StreamBreaks, StreamEnds, EndArchive, tarVars, extractVars

LEMMA ExtractAlways == TarballSpec => []ExtractInv
  <1>1. TarballInit => ExtractInv
    <2> SUFFICES ASSUME TarballInit PROVE ExtractInv
      OBVIOUS
    <2>1. written = {} /\ seen = 0 /\ unpacked = 0 /\ archive = <<>>
      BY DEF TarballInit
    <2>2. DiskBytes = {}
      BY <2>1 DEF DiskBytes
    <2>3. archive \in Seq([path : Seq(STRING), kind : STRING, size : Nat])
      BY <2>1, EmptySeq
    <2> QED
      BY <2>1, <2>2, <2>3, FS_EmptySet, TarballAssumption DEF ExtractInv, WrittenInside
  <1> QED
    BY <1>1, ExtractKeeps, PTL DEF TarballSpec

\* extract_archive writes below its directory only and never has more than
\* max_unpacked_bytes on disk, whatever entries and paths an archive has.
THEOREM ExtractionBoundedAlways == TarballSpec => []ExtractionBounded
  <1>1. ExtractInv => ExtractionBounded
    <2> SUFFICES ASSUME ExtractInv PROVE ExtractionBounded
      OBVIOUS
    <2>1. Cardinality(DiskBytes) \in Nat
      BY FS_CardinalityType DEF ExtractInv
    <2> QED
      BY <2>1, TarballAssumption DEF ExtractInv, ExtractionBounded, DiskBounded
  <1> QED
    BY <1>1, ExtractAlways, PTL

\* Attempts left, and what the file holds, whichever response it came from.
DownloadTyped ==
  /\ tarAt \in {"request", "stream", "stored", "entries", "extracted", "failed"}
  /\ integrity \in Integrities
  /\ tries \in Nat /\ tries <= MaxAttempts /\ (tarAt \in {"request", "stream"} => tries < MaxAttempts)
  /\ body \in Bodies
  /\ \A k \in 1..Len(dest) : dest[k] \in Contents \X (1..MaxBodyChunks)

LEMMA DownloadTypedKeeps ==
  ASSUME TarballInv, DownloadTyped, TarballNext
  PROVE  DownloadTyped'
  <1>0. MaxAttempts \in Nat /\ MaxBodyChunks \in Nat
    BY TarballAssumption
  <1>1. /\ (tries \in Nat)' /\ (tries <= MaxAttempts)'
        /\ (tarAt \in {"request", "stream"} => tries < MaxAttempts)'
        /\ (tarAt \in {"request", "stream", "stored", "entries", "extracted", "failed"})'
        /\ (integrity \in Integrities)'
    BY <1>0 DEF DownloadTyped, TarballNext, RequestTransient, RequestFails, RequestAnswered, StreamChunk,
       StreamBreaks, StreamEnds, OpenArchive, ExtractEntry, EndArchive, RetryOrFail, downloadVars
  <1>2. (body \in Bodies)'
    BY DEF DownloadTyped, TarballNext, RequestTransient, RequestFails, RequestAnswered, StreamChunk,
       StreamBreaks, StreamEnds, OpenArchive, ExtractEntry, EndArchive, downloadVars, Bodies
  <1>3. (\A k \in 1..Len(dest) : dest[k] \in Contents \X (1..MaxBodyChunks))'
    <2>1. CASE dest' = dest
      BY <2>1 DEF DownloadTyped
    <2>2. CASE dest' = <<>>
      BY <2>2
    <2>3. CASE StreamChunk /\ dest' # dest
      <3>1. PICK n \in Nat : Holds(n)
        BY <2>3 DEF TarballInv, StreamChunk
      <3>2. Received = n /\ n < body.chunks /\ dest' = Append(dest, <<body.content, n + 1>>)
        BY <2>3, <3>1, HeldLength DEF StreamChunk
      <3>3. dest' = [k \in 1..n+1 |-> <<body.content, k>>]
        BY <3>1, <3>2, HeldLength
      <3>4. PICK m \in Nat : m = n + 1
        OBVIOUS
      <3>5. Len(dest') = m /\ \A k \in 1..m : dest'[k] = <<body.content, k>>
        BY <3>3, <3>4, Chunks
      <3>6. body.content \in Contents /\ body.chunks \in 0..MaxBodyChunks
        BY DEF DownloadTyped, Bodies
      <3>7. \A k \in 1..m : k \in 1..MaxBodyChunks
        BY <1>0, <3>2, <3>4, <3>6
      <3>8. \A k \in 1..m : <<body.content, k>> \in Contents \X (1..MaxBodyChunks)
        BY <3>6, <3>7
      <3>9. \A k \in 1..Len(dest') : dest'[k] \in Contents \X (1..MaxBodyChunks)
        BY <3>5, <3>8, Zenon
      <3> QED
        BY <3>9
    <2> QED
      BY <2>1, <2>2, <2>3 DEF TarballNext, RequestTransient, RequestFails, RequestAnswered,
         StreamChunk, StreamBreaks, StreamEnds, OpenArchive, ExtractEntry, EndArchive, downloadVars
  <1> QED
    BY <1>1, <1>2, <1>3, Zenon DEF DownloadTyped

\* The attempts of fetch_tarball_to_file stay within REQUEST_ATTEMPTS, its file
\* holds chunks some server sent, and the counters of extract_archive stay within
\* one of their limits.
THEOREM TarballTypeCorrect == TarballSpec => []TarballTypeOK
  <1>1. TarballInit => DownloadTyped
    <2> SUFFICES ASSUME TarballInit PROVE DownloadTyped
      OBVIOUS
    <2>1. (CHOOSE c \in Contents : TRUE) \in Contents
      BY TarballAssumption
    <2>2. body \in Bodies
      BY <2>1, TarballAssumption DEF TarballInit, Bodies
    <2> QED
      BY <2>2, TarballAssumption DEF TarballInit, DownloadTyped
  <1>2. TarballInv /\ DownloadTyped /\ [TarballNext]_tarVars => DownloadTyped'
    <2>1. DownloadTyped /\ UNCHANGED tarVars => DownloadTyped'
      BY DEF DownloadTyped, tarVars, downloadVars, Bodies
    <2> QED
      BY <2>1, DownloadTypedKeeps
  <1>3. DownloadTyped /\ ExtractInv => TarballTypeOK
    BY TarballAssumption DEF DownloadTyped, ExtractInv, TarballTypeOK
  <1> QED
    BY <1>1, <1>2, <1>3, ExtractAlways, TarballInvAlways, PTL DEF TarballSpec

-----------------------------------------------------------------------------
(***************************************************************************)
(* The resolver, for any project, any depth limit and any order in which   *)
(* its maps are walked.  First what the operators it is built from return. *)
(***************************************************************************)
LEMMA GreatestNumber ==
  ASSUME NEW S \in SUBSET Nat, IsFiniteSet(S), S # {}
  PROVE  \E m \in S : \A n \in S : n <= m
  <1> DEFINE c == Cardinality(S)
  <1>1. c \in Nat /\ ExistsBijection(1..c, S)
    BY FS_CardinalityType
  <1>2. PICK f \in Bijection(1..c, S) : TRUE
    BY <1>1 DEF ExistsBijection
  <1>3. f \in [1..c -> S] /\ \A s \in S : \E k \in 1..c : f[k] = s
    BY <1>2 DEF Bijection, Surjection
  <1> HIDE DEF c
  <1> DEFINE T == {n \in Nat : \E b \in Nat : \A k \in 1..c : k <= n => f[k] <= b}
  <1>4. 0 \in T
    BY <1>1
  <1>5. ASSUME NEW n \in T PROVE n + 1 \in T
    <2>1. n \in Nat /\ n + 1 \in Nat
      OBVIOUS
    <2>2. PICK b \in Nat : \A k \in 1..c : k <= n => f[k] <= b
      BY DEF T
    <2>3. CASE n + 1 \in 1..c
      <3>1. f[n + 1] \in Nat
        BY <1>3, <2>3
      <3>2. PICK e \in Nat : b <= e /\ f[n + 1] <= e
        BY <3>1
      <3>3. ASSUME NEW k \in 1..c, k <= n + 1 PROVE f[k] <= e
        <4>1. f[k] \in Nat
          BY <1>3
        <4>2. CASE k = n + 1
          BY <4>2, <3>2
        <4>3. CASE k # n + 1
          <5>1. k <= n
            BY <4>3, <3>3, <2>1, <1>1
          <5> QED
            BY <5>1, <4>1, <2>2, <3>2
        <4> QED
          BY <4>2, <4>3
      <3> QED
        BY <3>3, <2>1
    <2>4. CASE n + 1 \notin 1..c
      <3>1. \A k \in 1..c : k <= n + 1 => k <= n
        BY <2>4, <2>1, <1>1
      <3> QED
        BY <3>1, <2>2, <2>1
    <2> QED
      BY <2>3, <2>4
  <1> HIDE DEF T
  <1>6. T \in SUBSET Nat
    BY DEF T
  <1>7. T = Nat
    BY <1>4, <1>5, <1>6, Induction
  <1>8. PICK b \in Nat : \A k \in 1..c : k <= c => f[k] <= b
    BY <1>7, <1>1 DEF T
  <1>9. \A s \in S : s <= b
    BY <1>8, <1>3, <1>1
  <1> DEFINE U == {n \in Nat : \A s \in S : s <= n}
  <1>10. U \in SUBSET Nat /\ U # {}
    BY <1>9
  <1>11. PICK m \in U : \A n \in U : m <= n
    <2> HIDE DEF U
    <2> QED
      BY <1>10, LeastNumber
  <1>12. m \in S
    <2> SUFFICES ASSUME m \notin S PROVE FALSE
      OBVIOUS
    <2>1. PICK s \in S : TRUE
      OBVIOUS
    <2>2. \A n \in S : n <= m /\ n # m /\ n \in Nat
      OBVIOUS
    <2>3. m \in Nat /\ m # 0
      BY <2>1, <2>2
    <2>4. m - 1 \in Nat /\ \A n \in S : n <= m - 1
      BY <2>2, <2>3
    <2>5. m - 1 \in U
      BY <2>4
    <2> QED
      BY <2>5, <1>11, <2>3
  <1> QED
    BY <1>12

AllPending(deps, depth, dev) == {Pending(d, depth, dev) : d \in deps}

\* Every order a map of dependencies may be walked in visits all of them.
LEMMA OrdersVisit ==
  ASSUME NEW deps, IsFiniteSet(deps), NEW depth, NEW dev, NEW s \in Orders(deps, depth, dev)
  PROVE  s \in Seq(AllPending(deps, depth, dev)) /\ ToSet(s) = AllPending(deps, depth, dev)
  <1> DEFINE D == 1..Cardinality(deps)
             S == {Pending(d, depth, dev) : d \in deps}
  <1>1. PICK t \in SetToSeqs(deps) : s = [k \in DOMAIN t |-> Pending(t[k], depth, dev)]
    BY DEF Orders
  <1>2. t \in [D -> deps] /\ \A i, j \in D : i # j => t[i] # t[j]
    BY <1>1 DEF SetToSeqs
  <1>3. Cardinality(deps) \in Nat
    BY FS_CardinalityType
  <1>4. IsFiniteSet(D) /\ Cardinality(D) = Cardinality(deps)
    BY <1>3, FS_Interval
  <1>5. t \in Injection(D, deps)
    BY <1>2 DEF Injection, IsInjective
  <1>6. t \in Surjection(D, deps)
    BY <1>4, <1>5, FS_Injection
  <1>7. \A d \in deps : \E k \in D : t[k] = d
    BY <1>6 DEF Surjection
  <1>8. DOMAIN s = D /\ \A k \in D : s[k] = Pending(t[k], depth, dev)
    BY <1>1, <1>2
  <1>9. ToSet(s) = S
    BY <1>7, <1>8, <1>2 DEF ToSet
  <1>10. s \in [D -> S]
    BY <1>1, <1>2
  <1>11. s \in Seq(S)
    <2> HIDE DEF S
    <2> QED
      BY <1>10, <1>3
  <1> QED
    BY <1>9, <1>11 DEF AllPending

LEMMA SeqParts ==
  ASSUME NEW S, NEW s \in Seq(S), s # <<>>
  PROVE  /\ Head(s) \in S /\ Head(s) \in ToSet(s) /\ Tail(s) \in Seq(S)
         /\ ToSet(s) = {Head(s)} \cup ToSet(Tail(s))
  <1>1. /\ Head(s) \in S /\ Tail(s) \in Seq(S) /\ Len(Tail(s)) = Len(s) - 1
        /\ \A k \in 1..Len(Tail(s)) : Tail(s)[k] = s[k + 1]
    BY HeadTailProperties
  <1>2. Len(s) \in Nat \ {0} /\ DOMAIN s = 1..Len(s) /\ DOMAIN Tail(s) = 1..Len(s) - 1 /\ Head(s) = s[1]
    BY <1>1, EmptySeq, LenProperties
  <1>3. Head(s) \in ToSet(s)
    BY <1>2 DEF ToSet
  <1>4. ASSUME NEW x \in ToSet(s) PROVE x \in {Head(s)} \cup ToSet(Tail(s))
    <2>1. PICK k \in 1..Len(s) : x = s[k]
      BY <1>2 DEF ToSet
    <2>2. CASE k = 1
      BY <2>1, <2>2, <1>2
    <2>3. CASE k # 1
      <3>1. PICK j \in 1..Len(s) - 1 : j + 1 = k
        <4>1. k - 1 \in 1..Len(s) - 1 /\ (k - 1) + 1 = k
          BY <2>3, <1>2
        <4> QED
          BY <4>1
      <3>2. x = Tail(s)[j]
        BY <3>1, <2>1, <1>1, <1>2
      <3> QED
        BY <3>1, <3>2, <1>2 DEF ToSet
    <2> QED
      BY <2>2, <2>3
  <1>5. ASSUME NEW x \in ToSet(Tail(s)) PROVE x \in ToSet(s)
    <2>1. PICK j \in 1..Len(s) - 1 : x = Tail(s)[j]
      BY <1>2 DEF ToSet
    <2>2. j + 1 \in 1..Len(s) /\ x = s[j + 1]
      BY <2>1, <1>1, <1>2
    <2> QED
      BY <2>2, <1>2 DEF ToSet
  <1> QED
    BY <1>1, <1>3, <1>4, <1>5

LEMMA SeqJoined ==
  ASSUME NEW S, NEW s \in Seq(S), NEW t \in Seq(S)
  PROVE  s \o t \in Seq(S) /\ ToSet(s \o t) = ToSet(s) \cup ToSet(t)
  <1>1. /\ s \o t \in Seq(S) /\ Len(s \o t) = Len(s) + Len(t)
        /\ \A i \in 1..Len(s) + Len(t) : (s \o t)[i] = IF i <= Len(s) THEN s[i] ELSE t[i - Len(s)]
    BY ConcatProperties
  <1>2. /\ Len(s) \in Nat /\ Len(t) \in Nat /\ DOMAIN s = 1..Len(s) /\ DOMAIN t = 1..Len(t)
        /\ DOMAIN (s \o t) = 1..Len(s) + Len(t)
    BY <1>1, LenProperties
  <1>3. ASSUME NEW x \in ToSet(s \o t) PROVE x \in ToSet(s) \cup ToSet(t)
    <2>1. PICK i \in 1..Len(s) + Len(t) : x = (s \o t)[i]
      BY <1>2 DEF ToSet
    <2>2. CASE i <= Len(s)
      BY <2>1, <2>2, <1>1, <1>2 DEF ToSet
    <2>3. CASE ~(i <= Len(s))
      <3>1. i - Len(s) \in 1..Len(t) /\ x = t[i - Len(s)]
        BY <2>1, <2>3, <1>1, <1>2
      <3> QED
        BY <3>1, <1>2 DEF ToSet
    <2> QED
      BY <2>2, <2>3
  <1>4. ASSUME NEW x \in ToSet(s) PROVE x \in ToSet(s \o t)
    <2>1. PICK i \in 1..Len(s) : x = s[i]
      BY <1>2 DEF ToSet
    <2>2. i \in 1..Len(s) + Len(t) /\ (s \o t)[i] = x
      BY <2>1, <1>1, <1>2
    <2> QED
      BY <2>2, <1>2 DEF ToSet
  <1>5. ASSUME NEW x \in ToSet(t) PROVE x \in ToSet(s \o t)
    <2>1. PICK i \in 1..Len(t) : x = t[i]
      BY <1>2 DEF ToSet
    <2>2. PICK j \in 1..Len(s) + Len(t) : j = i + Len(s)
      BY <1>2
    <2>3. ~(j <= Len(s)) /\ j - Len(s) = i
      BY <2>2, <1>2
    <2>4. (s \o t)[j] = x
      BY <2>1, <2>3, <1>1
    <2> QED
      BY <2>4, <1>2 DEF ToSet
  <1> QED
    BY <1>1, <1>3, <1>4, <1>5

-----------------------------------------------------------------------------
\* What may stand in a level: a dependency somebody declares.
AllDeps ==
  project.deps \cup project.dev
    \cup (UNION {project.info[v].deps : v \in DOMAIN project.info})
    \cup (UNION {project.repos[g].info.deps : g \in DOMAIN project.repos})

Waiting == {Pending(d, k, b) : d \in AllDeps, k \in 0..MaxDepth + 1, b \in BOOLEAN}

Asks(p, d) == p.as = d.as /\ p.name = d.name /\ p.spec = d.spec /\ p.opt = d.opt

Admits(d, key) == d.spec.kind = "range" => key[2] \in d.spec.in

\* A dependency that is neither waiting nor reported has been given a key.
Met(d) ==
  \/ d.opt \/ d.name \in warned
  \/ \E p \in ToSet(level) \cup ToSet(nextLevel) : Asks(p, d)
  \/ \E key \in KeysFor(d) \cap resolved : Admits(d, key)

DeclaredMet == \A key \in DOMAIN nodes : \A d \in nodes[key].declared : Met(d)

DirectMet ==
  \A d \in project.deps \cup project.dev :
    \/ \E p \in ToSet(level) : p.depth = 0 /\ Asks(p, d)
    \/ \E r \in roots : r[1] = d.as /\ Admits(d, r)

\* While the direct dependencies are worked off, nothing but a root is resolved.
FirstLevelFirst ==
  /\ \A p \in ToSet(nextLevel) : p.depth >= 1
  /\ \/ \A p \in ToSet(level) : p.depth >= 1
     \/ (\A p \in ToSet(level) : p.depth = 0) /\ resolved \subseteq roots

IsNode(n) ==
  /\ n = [as |-> n.as, name |-> n.name, version |-> n.version, dev |-> n.dev, opt |-> n.opt,
          declared |-> n.declared, edges |-> n.edges, wants |-> n.wants]
  /\ n.version \in Nat
  /\ \A d, e \in n.declared : d.as = e.as => d = e

NodesSound ==
  /\ IsFiniteSet(DOMAIN nodes)
  /\ \A key \in DOMAIN nodes : IsNode(nodes[key]) /\ key[2] = nodes[key].version

AllWorked == resAt \in {"fixup", "peers", "done"} => level = <<>> /\ nextLevel = <<>>

\* The fixup pass has given every node its edges.
EdgesMade ==
  resAt \in {"peers", "done"} => \A key \in DOMAIN nodes : \A d \in nodes[key].declared :
    /\ d.opt \/ d.name \in warned \/ d.as \in DOMAIN nodes[key].edges \/ Shadowed(d)
    /\ d.as \in DOMAIN nodes[key].edges =>
         nodes[key].edges[d.as] \in DOMAIN nodes /\ Admits(d, nodes[key].edges[d.as])

ResolveInv ==
  /\ project \in Projects
  /\ level \in Seq(Waiting) /\ nextLevel \in Seq(Waiting)
  /\ ResolverTypeOK /\ NodesSound /\ AllWorked /\ FirstLevelFirst
  /\ DirectMet /\ DeclaredMet /\ EdgesMade /\ PeersHonest

-----------------------------------------------------------------------------
\* resolve_version returns a published version, in the range if it is given one.
LEMMA VersionIs ==
  ASSUME project \in Projects, NEW name, NEW spec, ResolveVersion(name, spec) # NoVersion
  PROVE  /\ <<name, ResolveVersion(name, spec)>> \in DOMAIN project.info
         /\ spec.kind = "range" => ResolveVersion(name, spec) \in spec.in
  <1> DEFINE all == {v[2] : v \in Versions(name)}
             fits == {v \in all : spec.kind = "range" /\ v \in spec.in}
             w == ResolveVersion(name, spec)
  <1>1. /\ IsFiniteSet(DOMAIN project.info)
        /\ \A v \in DOMAIN project.info : v = <<v[1], v[2]>> /\ v[2] \in Nat
    BY ResolverAssumption
  <1>2. \A v \in all : <<name, v>> \in DOMAIN project.info /\ v \in Nat
    BY <1>1 DEF Versions
  <1>3. IsFiniteSet(Versions(name))
    BY <1>1, FS_Subset DEF Versions
  <1>4. IsFiniteSet(all)
    <2> DEFINE f == [v \in Versions(name) |-> v[2]]
    <2>1. f \in Surjection(Versions(name), all)
      BY DEF Surjection
    <2> QED
      BY <2>1, <1>3, FS_Surjection
  <1>5. fits \in SUBSET Nat /\ fits \in SUBSET all
    BY <1>2
  <1>6. IsFiniteSet(fits)
    <2> HIDE DEF all, fits
    <2> QED
      BY <1>4, <1>5, FS_Subset
  <1>7. w = IF spec.kind = "tag" /\ project.latest[name] \in all THEN project.latest[name]
            ELSE IF fits = {} THEN NoVersion ELSE Max(fits)
    BY DEF ResolveVersion
  <1>8. CASE spec.kind = "tag" /\ project.latest[name] \in all
    BY <1>7, <1>8, <1>2
  <1>9. CASE ~(spec.kind = "tag" /\ project.latest[name] \in all)
    <2>1. fits # {} /\ w = Max(fits)
      <3> HIDE DEF all, fits, w
      <3>1. w # NoVersion
        BY DEF w
      <3> QED
        BY <3>1, <1>7, <1>9
    <2>2. Max(fits) \in fits
      <3> HIDE DEF fits
      <3>1. PICK m \in fits : \A n \in fits : n <= m
        BY <1>5, <1>6, <2>1, GreatestNumber
      <3>2. \A n \in fits : m >= n
        BY <3>1, <1>5
      <3> QED
        BY <3>2 DEF Max
    <2> QED
      BY <2>1, <2>2, <1>2
  <1> QED
    BY <1>8, <1>9

\* What a pending dependency resolves to, when it does.
LEMMA TargetIs ==
  ASSUME project \in Projects, NEW p, ~Failed(p)
  PROVE  /\ Target(p).version \in Nat
         /\ IsManifest(Target(p).info.deps) /\ Target(p).info.deps \subseteq AllDeps
         /\ Key(p) = <<p.as, Target(p).version>>
         /\ \A d : Asks(p, d) => Key(p) \in KeysFor(d) /\ Admits(d, Key(p))
  <1>1. CASE p.spec.kind = "git"
    <2>1. p.name \in DOMAIN project.repos /\ Target(p) = project.repos[p.name]
      BY <1>1 DEF Failed, Target
    <2>2. Target(p).version \in Nat /\ IsManifest(Target(p).info.deps)
      BY <2>1, ResolverAssumption
    <2>3. Target(p).info.deps \subseteq AllDeps
      BY <2>1 DEF AllDeps
    <2>4. ASSUME NEW d, Asks(p, d) PROVE Key(p) \in KeysFor(d) /\ Admits(d, Key(p))
      <3>1. d.spec.kind = "git" /\ d.as = p.as /\ d.name = p.name
        BY <2>4, <1>1 DEF Asks
      <3>2. Key(p) = <<d.as, project.repos[d.name].version>>
        BY <3>1, <2>1 DEF Key
      <3> QED
        BY <3>1, <3>2 DEF KeysFor, Admits
    <2> QED
      BY <2>2, <2>3, <2>4 DEF Key
  <1>2. CASE p.spec.kind # "git"
    <2> DEFINE v == ResolveVersion(p.name, p.spec)
    <2>1. v # NoVersion
      BY <1>2 DEF Failed
    <2>2. <<p.name, v>> \in DOMAIN project.info /\ (p.spec.kind = "range" => v \in p.spec.in)
      BY <2>1, VersionIs
    <2> HIDE DEF v
    <2>3. Target(p) = [name |-> p.name, version |-> v, info |-> project.info[<<p.name, v>>]]
      BY <1>2 DEF Target, Info, v
    <2>4. Target(p).version = v /\ Target(p).info = project.info[<<p.name, v>>]
      BY <2>3
    <2>5. v \in Nat /\ IsManifest(Target(p).info.deps)
      <3>1. <<p.name, v>>[2] = v
        OBVIOUS
      <3>2. \A x \in DOMAIN project.info : x[2] \in Nat /\ IsManifest(project.info[x].deps)
        BY ResolverAssumption
      <3> QED
        BY <2>2, <2>4, <3>1, <3>2
    <2>6. Target(p).info.deps \subseteq AllDeps
      BY <2>2, <2>4 DEF AllDeps
    <2>7. ASSUME NEW d, Asks(p, d) PROVE Key(p) \in KeysFor(d) /\ Admits(d, Key(p))
      <3>1. d.spec = p.spec /\ d.as = p.as /\ d.name = p.name
        BY <2>7 DEF Asks
      <3>2. Key(p) = <<d.as, v>> /\ Key(p)[2] = v
        BY <3>1, <2>4 DEF Key
      <3>3. <<p.name, v>> \in Versions(d.name) /\ <<p.name, v>>[2] = v
        BY <3>1, <2>2 DEF Versions
      <3>4. Key(p) \in {<<d.as, x[2]>> : x \in Versions(d.name)}
        BY <3>2, <3>3
      <3> QED
        BY <3>1, <3>2, <3>4, <2>2, <1>2 DEF KeysFor, Admits
    <2> QED
      BY <2>4, <2>5, <2>6, <2>7 DEF Key
  <1> QED
    BY <1>1, <1>2

LEMMA WaitingKept ==
  ASSUME project' = project
  PROVE  Waiting' = Waiting /\ \A d : KeysFor(d)' = KeysFor(d)
  BY DEF Waiting, AllDeps, KeysFor, Versions

LEMMA WaitingHas ==
  ASSUME NEW d \in AllDeps, NEW k \in 0..MaxDepth + 1, NEW b, b \in BOOLEAN
  PROVE  Pending(d, k, b) \in Waiting
  BY DEF Waiting

LEMMA WaitingIs ==
  ASSUME NEW p \in Waiting
  PROVE  p.depth \in Nat /\ p.depth \in 0..MaxDepth + 1 /\ p.dev \in BOOLEAN
  BY ResolverAssumption DEF Waiting, Pending

LEMMA PendingAsks ==
  ASSUME NEW d, NEW k, NEW b
  PROVE  Asks(Pending(d, k, b), d) /\ Pending(d, k, b).depth = k
  BY DEF Asks, Pending

LEMMA NothingIn == ToSet(<<>>) = {}
  BY DEF ToSet

LEMMA DepthsBounded ==
  ASSUME level \in Seq(Waiting)
  PROVE  \A k \in 1..Len(level) : level[k].depth \in 0..MaxDepth + 1
  <1> SUFFICES ASSUME NEW k \in 1..Len(level) PROVE level[k].depth \in 0..MaxDepth + 1
    OBVIOUS
  <1>1. level[k] \in Waiting
    BY ElementOfSeq
  <1> QED
    BY <1>1, WaitingIs

LEMMA ResolverStarts == ResolverInit => ResolveInv
  <1> SUFFICES ASSUME ResolverInit PROVE ResolveInv
    OBVIOUS
  <1>1. /\ project \in Projects /\ resAt = "fetch" /\ nextLevel = <<>> /\ resolved = {} /\ warned = {}
        /\ nodes = NoEdges /\ roots = {} /\ peers = NoEdges
    BY DEF ResolverInit, ResolverStart
  <1>b. PICK no, yes : no = FALSE /\ yes = TRUE
    OBVIOUS
  <1>2. PICK prod \in Orders(project.deps, 0, no), dev \in Orders(project.dev, 0, yes) :
          level = prod \o dev
    BY <1>b DEF ResolverInit, ResolverStart
  <1> DEFINE P == AllPending(project.deps, 0, no)
             D == AllPending(project.dev, 0, yes)
  <1>3. IsFiniteSet(project.deps) /\ IsFiniteSet(project.dev) /\ MaxDepth \in Nat
    BY <1>1, ResolverAssumption DEF IsManifest
  <1>4. prod \in Seq(P) /\ ToSet(prod) = P /\ dev \in Seq(D) /\ ToSet(dev) = D
    <2>1. prod \in Seq(P) /\ ToSet(prod) = P
      BY <1>2, <1>3, OrdersVisit, Zenon
    <2>2. dev \in Seq(D) /\ ToSet(dev) = D
      BY <1>2, <1>3, OrdersVisit, Zenon
    <2> QED
      BY <2>1, <2>2
  <1>5. P \subseteq Waiting /\ D \subseteq Waiting
    <2>1. 0 \in 0..MaxDepth + 1
      BY <1>3
    <2>2. project.deps \subseteq AllDeps /\ project.dev \subseteq AllDeps
      BY DEF AllDeps
    <2>3. no \in BOOLEAN /\ yes \in BOOLEAN
      BY <1>b
    <2>4. P \subseteq Waiting
      BY <2>1, <2>2, <2>3, WaitingHas DEF AllPending
    <2>5. D \subseteq Waiting
      BY <2>1, <2>2, <2>3, WaitingHas DEF AllPending
    <2> QED
      BY <2>4, <2>5
  <1>6. \A p \in P \cup D : p.depth = 0
    BY PendingAsks DEF AllPending
  <1>7. /\ \A d \in project.deps : \E p \in P : Asks(p, d)
        /\ \A d \in project.dev : \E p \in D : Asks(p, d)
    <2>1. ASSUME NEW d \in project.deps PROVE \E p \in P : Asks(p, d)
      <3>1. Pending(d, 0, no) \in P /\ Asks(Pending(d, 0, no), d)
        BY PendingAsks DEF AllPending
      <3> QED
        BY <3>1
    <2>2. ASSUME NEW d \in project.dev PROVE \E p \in D : Asks(p, d)
      <3>1. Pending(d, 0, yes) \in D /\ Asks(Pending(d, 0, yes), d)
        BY PendingAsks DEF AllPending
      <3> QED
        BY <3>1
    <2> QED
      BY <2>1, <2>2
  <1> HIDE DEF P, D
  <1>8. prod \in Seq(Waiting) /\ dev \in Seq(Waiting)
    BY <1>4, <1>5, SeqMonotonic
  <1>9. level \in Seq(Waiting) /\ ToSet(level) = P \cup D
    BY <1>2, <1>4, <1>8, SeqJoined
  <1>10. nextLevel \in Seq(Waiting) /\ ToSet(nextLevel) = {}
    BY <1>1, EmptySeq, NothingIn
  <1>11. DOMAIN nodes = {} /\ IsFiniteSet(DOMAIN nodes)
    BY <1>1, FS_EmptySet DEF NoEdges
  <1>12. ResolverTypeOK
    BY <1>1, <1>9, <1>11, DepthsBounded DEF ResolverTypeOK
  <1>13. NodesSound /\ DeclaredMet
    BY <1>11 DEF NodesSound, DeclaredMet
  <1>14. AllWorked /\ EdgesMade /\ PeersHonest
    BY <1>1 DEF AllWorked, EdgesMade, PeersHonest
  <1>15. FirstLevelFirst
    BY <1>1, <1>6, <1>9, <1>10 DEF FirstLevelFirst
  <1>16. DirectMet
    BY <1>6, <1>7, <1>9 DEF DirectMet
  <1> QED
    BY <1>1, <1>9, <1>10, <1>12, <1>13, <1>14, <1>15, <1>16 DEF ResolveInv

\* The nodes and what hangs on them are as before.
LEMMA GraphKept ==
  ASSUME ResolveInv, UNCHANGED <<project, resolved, nodes, roots>>, resAt' # "peers", resAt' # "done",
         level' \in Seq(Waiting), nextLevel' \in Seq(Waiting),
         resAt' \in {"fetch", "resolve", "fixup", "failed"},
         resAt' = "fixup" => level' = <<>> /\ nextLevel' = <<>>,
         FirstLevelFirst', DirectMet', DeclaredMet'
  PROVE  ResolveInv'
  <1>1. Waiting' = Waiting
    BY WaitingKept
  <1>2. (level \in Seq(Waiting))' /\ (nextLevel \in Seq(Waiting))'
    BY <1>1
  <1>3. \A k \in 1..Len(level') : level'[k].depth \in 0..MaxDepth + 1
    <2> SUFFICES ASSUME NEW k \in 1..Len(level') PROVE level'[k].depth \in 0..MaxDepth + 1
      OBVIOUS
    <2>1. level'[k] \in Waiting
      BY ElementOfSeq
    <2> QED
      BY <2>1, WaitingIs
  <1>4. ResolverTypeOK'
    BY <1>3 DEF ResolveInv, ResolverTypeOK
  <1>5. NodesSound'
    BY DEF ResolveInv, NodesSound
  <1>6. AllWorked' /\ EdgesMade' /\ PeersHonest'
    BY DEF AllWorked, EdgesMade, PeersHonest
  <1> QED
    BY <1>2, <1>4, <1>5, <1>6 DEF ResolveInv

LEMMA FetchLevelKeeps == ResolveInv /\ FetchLevel => ResolveInv'
  <1> SUFFICES ASSUME ResolveInv, FetchLevel PROVE ResolveInv'
    OBVIOUS
  <1>1. /\ UNCHANGED <<project, level, nextLevel, resolved, warned, nodes, roots>>
        /\ resAt' = "resolve"
    BY DEF FetchLevel
  <1>2. \A d : KeysFor(d)' = KeysFor(d)
    BY <1>1, WaitingKept
  <1>3. FirstLevelFirst' /\ DirectMet'
    BY <1>1 DEF ResolveInv, FirstLevelFirst, DirectMet
  <1>4. DeclaredMet'
    BY <1>1, <1>2 DEF ResolveInv, DeclaredMet, Met
  <1>5. level' \in Seq(Waiting) /\ nextLevel' \in Seq(Waiting)
    BY <1>1 DEF ResolveInv
  <1> QED
    BY <1>1, <1>3, <1>4, <1>5, GraphKept

LEMMA AbortKeeps == ResolveInv /\ Abort => ResolveInv'
  <1> SUFFICES ASSUME ResolveInv, Abort PROVE ResolveInv'
    OBVIOUS
  <1>1. /\ UNCHANGED <<project, level, nextLevel, resolved, warned, nodes, roots>>
        /\ resAt' = "failed"
    BY DEF Abort
  <1>2. \A d : KeysFor(d)' = KeysFor(d)
    BY <1>1, WaitingKept
  <1>3. FirstLevelFirst' /\ DirectMet'
    BY <1>1 DEF ResolveInv, FirstLevelFirst, DirectMet
  <1>4. DeclaredMet'
    BY <1>1, <1>2 DEF ResolveInv, DeclaredMet, Met
  <1>5. level' \in Seq(Waiting) /\ nextLevel' \in Seq(Waiting)
    BY <1>1 DEF ResolveInv
  <1> QED
    BY <1>1, <1>3, <1>4, <1>5, GraphKept

LEMMA LevelDoneKeeps == ResolveInv /\ LevelDone => ResolveInv'
  <1> SUFFICES ASSUME ResolveInv, LevelDone PROVE ResolveInv'
    OBVIOUS
  <1>1. /\ UNCHANGED <<project, resolved, warned, nodes, roots>> /\ level = <<>>
        /\ level' = nextLevel /\ nextLevel' = <<>>
        /\ resAt' = IF nextLevel = <<>> THEN "fixup" ELSE "fetch"
    BY DEF LevelDone
  <1>2. \A d : KeysFor(d)' = KeysFor(d)
    BY <1>1, WaitingKept
  <1>3. ToSet(level) = {} /\ ToSet(level') = ToSet(nextLevel) /\ ToSet(nextLevel') = {}
    BY <1>1, NothingIn
  <1>4. FirstLevelFirst'
    BY <1>1, <1>3 DEF ResolveInv, FirstLevelFirst
  <1>5. DirectMet'
    BY <1>1, <1>3 DEF ResolveInv, DirectMet
  <1>6. DeclaredMet'
    BY <1>1, <1>2, <1>3 DEF ResolveInv, DeclaredMet, Met
  <1>7. level' \in Seq(Waiting) /\ nextLevel' \in Seq(Waiting)
    BY <1>1, EmptySeq DEF ResolveInv
  <1> QED
    BY <1>1, <1>4, <1>5, <1>6, <1>7, GraphKept

LEMMA SkipKeeps == ResolveInv /\ Skip => ResolveInv'
  <1> SUFFICES ASSUME ResolveInv, Skip PROVE ResolveInv'
    OBVIOUS
  <1>1. /\ UNCHANGED <<project, resAt, nextLevel, resolved, nodes, roots>> /\ level # <<>>
        /\ level' = Tail(level) /\ resAt = "resolve"
        /\ TooDeep(First) \/ First.opt
        /\ warned' = IF TooDeep(First) THEN warned \cup {First.name} ELSE warned
    BY DEF Skip
  <1>2. \A d : KeysFor(d)' = KeysFor(d)
    BY <1>1, WaitingKept
  <1>3. /\ First \in Waiting /\ First \in ToSet(level) /\ Tail(level) \in Seq(Waiting)
        /\ ToSet(level) = {First} \cup ToSet(level')
    BY <1>1, SeqParts DEF ResolveInv, First
  <1>4. ToSet(nextLevel') = ToSet(nextLevel) /\ warned \subseteq warned'
    BY <1>1
  <1>5. FirstLevelFirst'
    BY <1>1, <1>3 DEF ResolveInv, FirstLevelFirst
  <1>6. DirectMet'
    <2> SUFFICES ASSUME NEW d \in project.deps \cup project.dev
                 PROVE  \/ \E p \in ToSet(level') : p.depth = 0 /\ Asks(p, d)
                        \/ \E r \in roots : r[1] = d.as /\ Admits(d, r)
      BY <1>1 DEF DirectMet
    <2>1. ~d.opt
      BY ResolverAssumption DEF ResolveInv
    <2>2. ~(First.depth = 0 /\ Asks(First, d))
      <3> SUFFICES ASSUME First.depth = 0, Asks(First, d) PROVE FALSE
        OBVIOUS
      <3>1. ~TooDeep(First)
        BY ResolverAssumption DEF TooDeep
      <3> QED
        BY <3>1, <2>1, <1>1 DEF Asks
    <2> QED
      BY <2>2, <1>3 DEF ResolveInv, DirectMet
  <1>7. DeclaredMet'
    <2> SUFFICES ASSUME NEW key \in DOMAIN nodes, NEW d \in nodes[key].declared PROVE Met(d)'
      BY <1>1 DEF DeclaredMet
    <2>1. Met(d)
      BY DEF ResolveInv, DeclaredMet
    <2>2. CASE d.opt \/ d.name \in warned \/ \E k \in KeysFor(d) \cap resolved : Admits(d, k)
      BY <2>2, <1>1, <1>2, <1>4 DEF Met
    <2>3. CASE Asks(First, d)
      <3>1. d.opt \/ d.name \in warned'
        BY <2>3, <1>1 DEF Asks
      <3> QED
        BY <3>1 DEF Met
    <2>4. CASE \E p \in ToSet(level') \cup ToSet(nextLevel) : Asks(p, d)
      BY <2>4, <1>4 DEF Met
    <2> QED
      BY <2>1, <2>2, <2>3, <2>4, <1>3 DEF Met
  <1>8. level' \in Seq(Waiting) /\ nextLevel' \in Seq(Waiting)
    BY <1>1, <1>3 DEF ResolveInv
  <1> QED
    BY <1>1, <1>5, <1>6, <1>7, <1>8, GraphKept

\* A package met for the first time joins the graph, and its dependencies the next level.
LEMMA NodeAdded ==
  ASSUME ResolveInv, NEW p \in Waiting, ~TooDeep(p), ~Failed(p), Key(p) \notin resolved,
         project' = project,
         nodes' = [k \in DOMAIN nodes \cup {Key(p)} |-> IF k = Key(p) THEN Node(p) ELSE nodes[k]],
         NEW hard \in Orders({d \in Target(p).info.deps : ~d.opt}, p.depth + 1, p.dev),
         NEW soft \in Orders(Target(p).info.deps \ {d \in Target(p).info.deps : ~d.opt},
                             p.depth + 1, p.dev),
         nextLevel' = nextLevel \o hard \o soft
  PROVE  /\ nextLevel' \in Seq(Waiting) /\ ToSet(nextLevel) \subseteq ToSet(nextLevel')
         /\ \A q \in ToSet(nextLevel') : q.depth >= 1
         /\ NodesSound'
         /\ \A k \in DOMAIN nodes : nodes'[k] = nodes[k]
         /\ DOMAIN nodes' = DOMAIN nodes \cup {Key(p)}
         /\ \A d \in nodes'[Key(p)].declared : \E q \in ToSet(nextLevel') : Asks(q, d)
  <1> DEFINE deps == Target(p).info.deps
             required == {d \in deps : ~d.opt}
             depth == p.depth + 1
             H == AllPending(required, depth, p.dev)
             O == AllPending(deps \ required, depth, p.dev)
  <1>1. /\ Target(p).version \in Nat /\ IsManifest(deps) /\ deps \subseteq AllDeps
        /\ Key(p) = <<p.as, Target(p).version>>
    BY TargetIs DEF ResolveInv
  <1>2. p.depth \in Nat /\ depth \in 0..MaxDepth + 1 /\ depth >= 1 /\ p.dev \in BOOLEAN
    <2>1. p.depth \in Nat /\ p.dev \in BOOLEAN /\ MaxDepth \in Nat
      BY WaitingIs, ResolverAssumption
    <2>2. p.depth <= MaxDepth
      BY <2>1 DEF TooDeep
    <2> QED
      BY <2>1, <2>2
  <1>3. IsFiniteSet(required) /\ IsFiniteSet(deps \ required)
    <2>1. IsFiniteSet(deps) /\ required \in SUBSET deps /\ deps \ required \in SUBSET deps
      BY <1>1 DEF IsManifest
    <2> HIDE DEF deps, required
    <2> QED
      BY <2>1, FS_Subset
  <1>4. hard \in Seq(H) /\ ToSet(hard) = H /\ soft \in Seq(O) /\ ToSet(soft) = O
    <2>1. hard \in Orders(required, depth, p.dev) /\ soft \in Orders(deps \ required, depth, p.dev)
      OBVIOUS
    <2> HIDE DEF deps, required, depth
    <2> QED
      BY <2>1, <1>3, OrdersVisit, Zenon
  <1>5. \A d \in AllDeps : Pending(d, depth, p.dev) \in Waiting
    <2> HIDE DEF depth
    <2> QED
      BY <1>2, WaitingHas
  <1>6. H \subseteq Waiting /\ O \subseteq Waiting
    BY <1>1, <1>5 DEF AllPending
  <1>7. \A q \in H \cup O : q.depth >= 1
    <2>1. \A d : Pending(d, depth, p.dev).depth = depth
      BY PendingAsks
    <2> QED
      BY <2>1, <1>2 DEF AllPending
  <1>8. \A d \in deps : \E q \in H \cup O : Asks(q, d)
    <2> SUFFICES ASSUME NEW d \in deps PROVE \E q \in H \cup O : Asks(q, d)
      OBVIOUS
    <2>1. Pending(d, depth, p.dev) \in H \cup O
      BY DEF AllPending
    <2> QED
      BY <2>1, PendingAsks
  <1> HIDE DEF H, O
  <1>9. hard \in Seq(Waiting) /\ soft \in Seq(Waiting) /\ nextLevel \in Seq(Waiting)
    BY <1>4, <1>6, SeqMonotonic DEF ResolveInv
  <1>10. nextLevel \o hard \in Seq(Waiting) /\ ToSet(nextLevel \o hard) = ToSet(nextLevel) \cup H
    BY <1>4, <1>9, SeqJoined
  <1>11. nextLevel' \in Seq(Waiting) /\ ToSet(nextLevel') = ToSet(nextLevel) \cup H \cup O
    <2>1. PICK s \in Seq(Waiting) : s = nextLevel \o hard
      BY <1>10
    <2>2. s \o soft \in Seq(Waiting) /\ ToSet(s \o soft) = ToSet(s) \cup ToSet(soft)
      BY <1>9, SeqJoined
    <2>3. nextLevel' = s \o soft
      BY <2>1
    <2> QED
      BY <2>1, <2>2, <2>3, <1>4, <1>10
  <1>12. \A q \in ToSet(nextLevel') : q.depth >= 1
    BY <1>7, <1>11 DEF ResolveInv, FirstLevelFirst
  <1>13. DOMAIN nodes' = DOMAIN nodes \cup {Key(p)} /\ nodes'[Key(p)] = Node(p)
    OBVIOUS
  <1>14. \A k \in DOMAIN nodes : nodes'[k] = nodes[k]
    <2>1. Key(p) \notin DOMAIN nodes
      BY DEF ResolveInv, ResolverTypeOK
    <2> QED
      BY <2>1
  <1>15. Node(p).declared \subseteq deps
    BY DEF Node, NodeDeps
  <1>16. IsNode(Node(p)) /\ Key(p)[2] = Node(p).version
    <2>1. Node(p).declared = NodeDeps(deps) /\ Node(p).version = Target(p).version
      BY DEF Node
    <2>2. \A d, e \in NodeDeps(deps) : d.as = e.as => d = e
      <3> SUFFICES ASSUME NEW d \in NodeDeps(deps), NEW e \in NodeDeps(deps), d.as = e.as PROVE d = e
        OBVIOUS
      <3>1. d \in deps /\ e \in deps /\ d.opt \in BOOLEAN /\ e.opt \in BOOLEAN
        BY <1>1 DEF NodeDeps, IsManifest
      <3>2. d.opt = e.opt
        BY <3>1 DEF NodeDeps
      <3> QED
        BY <3>1, <3>2, <1>1 DEF IsManifest
    <2>3. Node(p) = [as |-> Node(p).as, name |-> Node(p).name, version |-> Node(p).version,
                     dev |-> Node(p).dev, opt |-> Node(p).opt, declared |-> Node(p).declared,
                     edges |-> Node(p).edges, wants |-> Node(p).wants]
      BY DEF Node
    <2> QED
      BY <2>1, <2>2, <2>3, <1>1 DEF IsNode
  <1>17. IsFiniteSet(DOMAIN nodes')
    BY <1>13, FS_AddElement DEF ResolveInv, NodesSound
  <1>18. NodesSound'
    <2>1. \A k \in DOMAIN nodes' : IsNode(nodes'[k]) /\ k[2] = nodes'[k].version
      BY <1>13, <1>14, <1>16 DEF ResolveInv, NodesSound
    <2> QED
      BY <2>1, <1>17 DEF NodesSound, IsNode
  <1> QED
    BY <1>8, <1>11, <1>12, <1>13, <1>14, <1>15, <1>18

LEMMA ResolveFirstKeeps == ResolveInv /\ ResolveFirst => ResolveInv'
  <1> SUFFICES ASSUME ResolveInv, ResolveFirst PROVE ResolveInv'
    OBVIOUS
  <1> DEFINE p == First
  <1>1. /\ UNCHANGED <<project, resAt, warned, peers>> /\ resAt = "resolve"
        /\ level # <<>> /\ level' = Tail(level) /\ ~TooDeep(p) /\ ~Failed(p)
    BY DEF ResolveFirst
  <1>2. /\ First \in Waiting /\ First \in ToSet(level) /\ Tail(level) \in Seq(Waiting)
        /\ ToSet(level) = {First} \cup ToSet(level')
    BY <1>1, SeqParts DEF ResolveInv, First
  <1>3. Waiting' = Waiting /\ \A d : KeysFor(d)' = KeysFor(d)
    BY <1>1, WaitingKept
  <1>4. /\ Key(p)[1] = p.as
        /\ \A d : Asks(p, d) => Key(p) \in KeysFor(d) /\ Admits(d, Key(p))
    BY <1>1, TargetIs DEF ResolveInv
  <1>5. /\ resolved' = resolved \cup {Key(p)}
        /\ roots' = (IF Key(p) \notin resolved /\ IsRoot(p) THEN roots \cup {Key(p)} ELSE roots)
    BY DEF ResolveFirst, AlreadyResolved
  <1>6. /\ nextLevel' \in Seq(Waiting) /\ ToSet(nextLevel) \subseteq ToSet(nextLevel')
        /\ \A q \in ToSet(nextLevel') : q.depth >= 1
        /\ NodesSound' /\ DOMAIN nodes \subseteq DOMAIN nodes'
        /\ \A k \in DOMAIN nodes : nodes'[k] = nodes[k]
        /\ \A k \in DOMAIN nodes' \ DOMAIN nodes :
             k = Key(p) /\ \A d \in nodes'[k].declared : \E q \in ToSet(nextLevel') : Asks(q, d)
    <2>1. CASE UNCHANGED <<nextLevel, nodes>>
      BY <2>1 DEF ResolveInv, NodesSound, FirstLevelFirst
    <2>2. CASE ~UNCHANGED <<nextLevel, nodes>>
      <3>1. Key(p) \notin resolved
        BY <2>2 DEF ResolveFirst, AlreadyResolved
      <3>2. nodes' = [k \in DOMAIN nodes \cup {Key(p)} |-> IF k = Key(p) THEN Node(p) ELSE nodes[k]]
        BY <2>2, <3>1 DEF ResolveFirst, AlreadyResolved
      <3>3. PICK hard \in Orders({d \in Target(p).info.deps : ~d.opt}, p.depth + 1, p.dev),
                 soft \in Orders(Target(p).info.deps \ {d \in Target(p).info.deps : ~d.opt},
                                 p.depth + 1, p.dev) :
              nextLevel' = nextLevel \o hard \o soft
        BY <2>2, <3>1 DEF ResolveFirst, AlreadyResolved
      <3> HIDE DEF p
      <3>4. p \in Waiting
        BY <1>2 DEF p
      <3> QED
        BY <3>1, <3>2, <3>3, <3>4, <1>1, NodeAdded
    <2> QED
      BY <2>1, <2>2
  <1> HIDE DEF p
  <1>7. p = First /\ (p.depth = 0 \/ p.depth >= 1) /\ (IsRoot(p) <=> p.depth = 0) /\ p.depth \in Nat
    BY <1>2, WaitingIs DEF p, IsRoot
  <1>8. p.depth = 0 => resolved \subseteq roots
    BY <1>2, <1>7 DEF ResolveInv, FirstLevelFirst
  <1>9. p.depth = 0 => Key(p) \in roots' /\ resolved' \subseteq roots'
    BY <1>5, <1>7, <1>8
  <1>10. FirstLevelFirst'
    <2>1. \/ \A q \in ToSet(level) : q.depth >= 1
          \/ (\A q \in ToSet(level) : q.depth = 0) /\ resolved \subseteq roots
      BY DEF ResolveInv, FirstLevelFirst
    <2>2. CASE \A q \in ToSet(level) : q.depth >= 1
      BY <2>2, <1>2, <1>6 DEF FirstLevelFirst
    <2>3. CASE (\A q \in ToSet(level) : q.depth = 0) /\ resolved \subseteq roots
      <3>1. p.depth = 0
        BY <2>3, <1>2, <1>7
      <3> QED
        BY <3>1, <2>3, <1>2, <1>6, <1>9 DEF FirstLevelFirst
    <2> QED
      BY <2>1, <2>2, <2>3
  <1>11. DirectMet'
    <2> SUFFICES ASSUME NEW d \in project.deps \cup project.dev
                 PROVE  \/ \E q \in ToSet(level') : q.depth = 0 /\ Asks(q, d)
                        \/ \E r \in roots' : r[1] = d.as /\ Admits(d, r)
      BY <1>1 DEF DirectMet
    <2>1. CASE p.depth = 0 /\ Asks(p, d)
      <3>1. Key(p) \in roots' /\ Key(p)[1] = d.as /\ Admits(d, Key(p))
        BY <2>1, <1>4, <1>9 DEF Asks
      <3> QED
        BY <3>1
    <2>2. CASE ~(p.depth = 0 /\ Asks(p, d))
      <3>1. roots \subseteq roots'
        BY <1>5
      <3> QED
        BY <2>2, <3>1, <1>2, <1>7 DEF ResolveInv, DirectMet
    <2> QED
      BY <2>1, <2>2
  <1>12. DeclaredMet'
    <2> SUFFICES ASSUME NEW key \in DOMAIN nodes', NEW d \in nodes'[key].declared PROVE Met(d)'
      BY DEF DeclaredMet
    <2>1. CASE key \notin DOMAIN nodes
      BY <2>1, <1>6 DEF Met
    <2>2. CASE key \in DOMAIN nodes
      <3>1. Met(d)
        BY <2>2, <1>6 DEF ResolveInv, DeclaredMet
      <3>2. CASE d.opt \/ d.name \in warned \/ \E k \in KeysFor(d) \cap resolved : Admits(d, k)
        BY <3>2, <1>1, <1>3, <1>5 DEF Met
      <3>3. CASE Asks(p, d)
        <4>1. Key(p) \in KeysFor(d)' \cap resolved' /\ Admits(d, Key(p))
          BY <3>3, <1>3, <1>4, <1>5
        <4> QED
          BY <4>1 DEF Met
      <3>4. CASE \E q \in ToSet(level') \cup ToSet(nextLevel) : Asks(q, d)
        BY <3>4, <1>6 DEF Met
      <3> QED
        BY <3>1, <3>2, <3>3, <3>4, <1>2, <1>7 DEF Met
    <2> QED
      BY <2>1, <2>2
  <1>13. (level \in Seq(Waiting))' /\ (nextLevel \in Seq(Waiting))' /\ level' \in Seq(Waiting)
    BY <1>1, <1>2, <1>3, <1>6
  <1>14. ResolverTypeOK'
    <2>1. \A k \in 1..Len(level') : level'[k].depth \in 0..MaxDepth + 1
      <3> SUFFICES ASSUME NEW k \in 1..Len(level') PROVE level'[k].depth \in 0..MaxDepth + 1
        OBVIOUS
      <3>1. level'[k] \in Waiting
        BY <1>13, ElementOfSeq
      <3> QED
        BY <3>1, WaitingIs
    <2>2. DOMAIN nodes' \subseteq resolved' /\ roots' \subseteq resolved'
      BY <1>5, <1>6 DEF ResolveInv, ResolverTypeOK
    <2> QED
      BY <1>1, <1>6, <2>1, <2>2 DEF ResolverTypeOK, NodesSound
  <1>15. AllWorked' /\ EdgesMade' /\ PeersHonest'
    BY <1>1 DEF AllWorked, EdgesMade, PeersHonest
  <1>16. (project \in Projects)'
    BY <1>1 DEF ResolveInv
  <1> QED
    BY <1>6, <1>10, <1>11, <1>12, <1>13, <1>14, <1>15, <1>16 DEF ResolveInv

-----------------------------------------------------------------------------
\* find_matching_key returns a node of that name whose version the range admits,
\* and returns one whenever there is one.
LEMMA MatchingFound ==
  ASSUME NodesSound, NEW dep, NEW key \in DOMAIN nodes, Satisfies(key, dep)
  PROVE  Matching(dep) # {}
  <1> DEFINE fits == {k \in DOMAIN nodes : Satisfies(k, dep)}
             W == {nodes[k].version : k \in fits}
             f == [k \in fits |-> nodes[k].version]
  <1>1. fits \in SUBSET DOMAIN nodes /\ IsFiniteSet(DOMAIN nodes)
    BY DEF NodesSound
  <1>2. IsFiniteSet(fits)
    <2> HIDE DEF fits
    <2> QED
      BY <1>1, FS_Subset
  <1>3. \A k \in fits : nodes[k].version \in Nat
    BY DEF NodesSound, IsNode
  <1>4. key \in fits
    OBVIOUS
  <1>5. Matching(dep) = {k \in fits : \A other \in fits : nodes[other].version <= nodes[k].version}
    BY DEF Matching
  <1> HIDE DEF fits
  <1>6. f \in Surjection(fits, W)
    BY DEF Surjection
  <1>7. IsFiniteSet(W)
    BY <1>2, <1>6, FS_Surjection
  <1>8. W \in SUBSET Nat /\ W # {}
    BY <1>3, <1>4
  <1>9. PICK m \in W : \A n \in W : n <= m
    <2> HIDE DEF W
    <2> QED
      BY <1>7, <1>8, GreatestNumber
  <1>10. PICK k \in fits : nodes[k].version = m
    BY <1>9
  <1>11. \A other \in fits : nodes[other].version <= nodes[k].version
    BY <1>9, <1>10
  <1> QED
    BY <1>5, <1>10, <1>11

LEMMA EdgesAre ==
  ASSUME NEW node, \A d, e \in node.declared : d.as = e.as => d = e, NEW d \in node.declared
  PROVE  /\ d.as \in DOMAIN Edges(node) <=> Matching(d) # {}
         /\ d.as \in DOMAIN Edges(node) =>
              Edges(node)[d.as] \in DOMAIN nodes /\ Satisfies(Edges(node)[d.as], d)
  <1> DEFINE E == {x.as : x \in {e \in node.declared : Matching(e) # {}}}
  <1>1. DOMAIN Edges(node) = E
    BY DEF Edges
  <1>2. d.as \in E <=> Matching(d) # {}
    OBVIOUS
  <1>3. (CHOOSE x \in node.declared : x.as = d.as) = d
    OBVIOUS
  <1>4. ASSUME d.as \in E PROVE Edges(node)[d.as] = CHOOSE key \in Matching(d) : TRUE
    BY <1>3, <1>4 DEF Edges
  <1>5. ASSUME d.as \in E PROVE Edges(node)[d.as] \in Matching(d)
    BY <1>2, <1>4, <1>5
  <1>6. \A k \in Matching(d) : k \in DOMAIN nodes /\ Satisfies(k, d)
    BY DEF Matching
  <1> QED
    BY <1>1, <1>2, <1>5, <1>6

LEMMA FixupKeeps == ResolveInv /\ Fixup => ResolveInv'
  <1> SUFFICES ASSUME ResolveInv, Fixup PROVE ResolveInv'
    OBVIOUS
  <1>1. /\ UNCHANGED <<project, level, nextLevel, resolved, warned, roots>>
        /\ resAt = "fixup" /\ resAt' = "peers"
        /\ nodes' = [key \in DOMAIN nodes |-> [nodes[key] EXCEPT !.edges = Edges(nodes[key])]]
    BY DEF Fixup
  <1>2. level = <<>> /\ nextLevel = <<>> /\ ToSet(level) = {} /\ ToSet(nextLevel) = {}
    BY <1>1, NothingIn DEF ResolveInv, AllWorked
  <1>3. Waiting' = Waiting /\ \A d : KeysFor(d)' = KeysFor(d)
    BY <1>1, WaitingKept
  <1>4. DOMAIN nodes' = DOMAIN nodes
    BY <1>1
  <1>5. ASSUME NEW key \in DOMAIN nodes
        PROVE  /\ nodes'[key].as = nodes[key].as /\ nodes'[key].name = nodes[key].name
               /\ nodes'[key].version = nodes[key].version /\ nodes'[key].declared = nodes[key].declared
               /\ nodes'[key].edges = Edges(nodes[key])
               /\ IsNode(nodes[key]) /\ IsNode(nodes'[key]) /\ key[2] = nodes[key].version
    <2>1. IsNode(nodes[key]) /\ key[2] = nodes[key].version
      BY DEF ResolveInv, NodesSound
    <2> DEFINE n == nodes[key]
    <2>2. nodes'[key] = [n EXCEPT !.edges = Edges(n)]
      BY <1>1
    <2> HIDE DEF n
    <2>3. n = [as |-> n.as, name |-> n.name, version |-> n.version, dev |-> n.dev, opt |-> n.opt,
               declared |-> n.declared, edges |-> n.edges, wants |-> n.wants]
      BY <2>1 DEF IsNode, n
    <2>4. nodes'[key] = [as |-> n.as, name |-> n.name, version |-> n.version, dev |-> n.dev,
                         opt |-> n.opt, declared |-> n.declared, edges |-> Edges(n), wants |-> n.wants]
      BY <2>2, <2>3
    <2>5. IsNode(nodes'[key])
      BY <2>1, <2>4 DEF IsNode, n
    <2> QED
      BY <2>1, <2>4, <2>5 DEF n
  <1>6. NodesSound'
    BY <1>4, <1>5 DEF ResolveInv, NodesSound, IsNode
  <1>7. ResolverTypeOK'
    BY <1>1, <1>4, <1>5 DEF ResolveInv, ResolverTypeOK
  <1>8. FirstLevelFirst' /\ DirectMet' /\ AllWorked' /\ PeersHonest'
    BY <1>1, <1>2 DEF ResolveInv, FirstLevelFirst, DirectMet, AllWorked, PeersHonest
  <1>9. DeclaredMet'
    <2> SUFFICES ASSUME NEW key \in DOMAIN nodes, NEW d \in nodes[key].declared PROVE Met(d)'
      BY <1>4, <1>5 DEF DeclaredMet
    <2>1. Met(d)
      BY DEF ResolveInv, DeclaredMet
    <2> QED
      BY <2>1, <1>1, <1>2, <1>3 DEF Met
  <1>10. EdgesMade'
    <2> SUFFICES ASSUME NEW key \in DOMAIN nodes, NEW d \in nodes[key].declared
                 PROVE  /\ \/ d.opt \/ d.name \in warned' \/ d.as \in DOMAIN nodes'[key].edges
                           \/ Shadowed(d)'
                        /\ d.as \in DOMAIN nodes'[key].edges =>
                             /\ nodes'[key].edges[d.as] \in DOMAIN nodes'
                             /\ Admits(d, nodes'[key].edges[d.as])
      BY <1>4, <1>5 DEF EdgesMade
    <2>1. /\ d.as \in DOMAIN nodes'[key].edges <=> Matching(d) # {}
          /\ d.as \in DOMAIN nodes'[key].edges =>
               nodes'[key].edges[d.as] \in DOMAIN nodes /\ Satisfies(nodes'[key].edges[d.as], d)
      <3>1. \A x, y \in nodes[key].declared : x.as = y.as => x = y
        BY <1>5 DEF IsNode
      <3>2. /\ d.as \in DOMAIN Edges(nodes[key]) <=> Matching(d) # {}
            /\ d.as \in DOMAIN Edges(nodes[key]) =>
                 Edges(nodes[key])[d.as] \in DOMAIN nodes /\ Satisfies(Edges(nodes[key])[d.as], d)
        BY <3>1, EdgesAre
      <3> QED
        BY <3>2, <1>5
    <2>2. ASSUME d.as \in DOMAIN nodes'[key].edges
          PROVE  /\ nodes'[key].edges[d.as] \in DOMAIN nodes'
                 /\ Admits(d, nodes'[key].edges[d.as])
      <3>1. PICK k \in DOMAIN nodes : k = nodes'[key].edges[d.as] /\ Satisfies(k, d)
        BY <2>1, <2>2
      <3>2. Admits(d, k)
        BY <3>1, <1>5 DEF Satisfies, Admits
      <3> QED
        BY <3>1, <3>2, <1>4
    <2>3. ASSUME ~d.opt, d.name \notin warned, ~Shadowed(d)' PROVE Matching(d) # {}
      <3>1. PICK k \in KeysFor(d) \cap resolved : Admits(d, k)
        BY <2>3, <1>2 DEF ResolveInv, DeclaredMet, Met
      <3>2. k \in DOMAIN nodes /\ d.as \in {nodes[k].as, nodes[k].name}
        <4>1. k \in KeysFor(d)' \cap resolved'
          BY <3>1, <1>1, <1>3
        <4>2. k \in DOMAIN nodes' /\ d.as \in {nodes'[k].as, nodes'[k].name}
          BY <4>1, <2>3 DEF Shadowed
        <4> QED
          BY <4>2, <1>4, <1>5
      <3>3. Satisfies(k, d)
        BY <3>1, <3>2, <1>5 DEF Satisfies, Admits
      <3> QED
        BY <3>2, <3>3, MatchingFound DEF ResolveInv
    <2> QED
      BY <2>1, <2>2, <2>3, <1>1
  <1>11. (project \in Projects)' /\ (level \in Seq(Waiting))' /\ (nextLevel \in Seq(Waiting))'
    BY <1>1, <1>3 DEF ResolveInv
  <1> QED
    BY <1>6, <1>7, <1>8, <1>9, <1>10, <1>11 DEF ResolveInv

-----------------------------------------------------------------------------
\* The recursive functions of the peer search are what their equations say.
LEMMA TiersAre ==
  ASSUME NEW key, Cardinality(DOMAIN nodes) \in Nat
  PROVE  Tiers(key) = [k \in 1..2 * Cardinality(DOMAIN nodes) + 2 |->
           IF k = 1 THEN Parents({key}) ELSE IF k = 2 THEN roots ELSE Parents(Tiers(key)[k - 2])]
  <1> DEFINE Step(g, k) == IF k = 1 THEN Parents({key}) ELSE IF k = 2 THEN roots ELSE Parents(g[k - 2])
             Is(g, n) == g = [k \in 1..n |-> Step(g, k)]
             T == {n \in Nat : \E g : Is(g, n)}
             m == 2 * Cardinality(DOMAIN nodes) + 2
  <1>1. 0 \in T
    <2>1. Is([k \in 1..0 |-> {}], 0)
      OBVIOUS
    <2> QED
      BY <2>1
  <1>2. ASSUME NEW n \in T PROVE n + 1 \in T
    <2>1. PICK g : Is(g, n)
      OBVIOUS
    <2>2. PICK h : h = [k \in 1..n+1 |-> IF k = n + 1 THEN Step(g, n + 1) ELSE g[k]]
      OBVIOUS
    <2>3. \A k \in 1..n+1 : h[k] = Step(h, k)
      <3> SUFFICES ASSUME NEW k \in 1..n+1 PROVE h[k] = Step(h, k)
        OBVIOUS
      <3>1. h[k] = Step(g, k)
        <4> HIDE DEF Step
        <4>1. CASE k = n + 1
          BY <4>1, <2>2
        <4>2. CASE k # n + 1
          <5>1. k \in 1..n
            BY <4>2
          <5> QED
            BY <4>2, <5>1, <2>1, <2>2
        <4> QED
          BY <4>1, <4>2
      <3>2. CASE k = 1 \/ k = 2
        BY <3>1, <3>2
      <3>3. CASE ~(k = 1 \/ k = 2)
        <4>1. k - 2 \in 1..n+1 /\ k - 2 # n + 1
          BY <3>3
        <4>2. h[k - 2] = g[k - 2]
          BY <4>1, <2>2
        <4> QED
          BY <3>1, <3>3, <4>2
      <3> QED
        BY <3>2, <3>3
    <2>4. Is(h, n + 1)
      <3> HIDE DEF Step
      <3> QED
        BY <2>2, <2>3
    <2>5. n + 1 \in Nat
      OBVIOUS
    <2> HIDE DEF Is
    <2> QED
      BY <2>4, <2>5
  <1>3. T = Nat
    <2>1. T \in SUBSET Nat
      OBVIOUS
    <2> HIDE DEF T
    <2> QED
      BY <1>1, <1>2, <2>1, Induction
  <1>4. \E g : Is(g, m)
    <2>1. m \in T
      <3>1. m \in Nat
        OBVIOUS
      <3> HIDE DEF T, m
      <3> QED
        BY <1>3, <3>1
    <2> HIDE DEF m
    <2> QED
      BY <2>1
  <1> QED
    BY <1>4, Zenon DEF Tiers

LEMMA UpToIs ==
  ASSUME NEW key, Cardinality(DOMAIN nodes) \in Nat
  PROVE  UpTo(key) = [n \in 0..Cardinality(DOMAIN nodes) |->
           IF n = 0 THEN {key} ELSE UpTo(key)[n - 1] \cup Parents(UpTo(key)[n - 1])]
  <1> DEFINE Step(g, k) == IF k = 0 THEN {key} ELSE g[k - 1] \cup Parents(g[k - 1])
             Is(g, n) == g = [k \in 0..n |-> Step(g, k)]
             T == {n \in Nat : \E g : Is(g, n)}
             m == Cardinality(DOMAIN nodes)
  <1>1. 0 \in T
    <2>1. Is([k \in 0..0 |-> {key}], 0)
      OBVIOUS
    <2> QED
      BY <2>1
  <1>2. ASSUME NEW n \in T PROVE n + 1 \in T
    <2>1. PICK g : Is(g, n)
      OBVIOUS
    <2>2. PICK h : h = [k \in 0..n+1 |-> IF k = n + 1 THEN Step(g, n + 1) ELSE g[k]]
      OBVIOUS
    <2>3. \A k \in 0..n+1 : h[k] = Step(h, k)
      <3> SUFFICES ASSUME NEW k \in 0..n+1 PROVE h[k] = Step(h, k)
        OBVIOUS
      <3>1. h[k] = Step(g, k)
        <4> HIDE DEF Step
        <4>1. CASE k = n + 1
          BY <4>1, <2>2
        <4>2. CASE k # n + 1
          <5>1. k \in 0..n
            BY <4>2
          <5> QED
            BY <4>2, <5>1, <2>1, <2>2
        <4> QED
          BY <4>1, <4>2
      <3>2. CASE k = 0
        BY <3>1, <3>2
      <3>3. CASE k # 0
        <4>1. k - 1 \in 0..n+1 /\ k - 1 # n + 1
          BY <3>3
        <4>2. h[k - 1] = g[k - 1]
          BY <4>1, <2>2
        <4> QED
          BY <3>1, <3>3, <4>2
      <3> QED
        BY <3>2, <3>3
    <2>4. Is(h, n + 1)
      <3> HIDE DEF Step
      <3> QED
        BY <2>2, <2>3
    <2>5. n + 1 \in Nat
      OBVIOUS
    <2> HIDE DEF Is
    <2> QED
      BY <2>4, <2>5
  <1>3. T = Nat
    <2>1. T \in SUBSET Nat
      OBVIOUS
    <2> HIDE DEF T
    <2> QED
      BY <1>1, <1>2, <2>1, Induction
  <1>4. \E g : Is(g, m)
    <2>1. m \in T
      <3> HIDE DEF T, m
      <3> QED
        BY <1>3 DEF m
    <2> HIDE DEF m
    <2> QED
      BY <2>1
  <1> QED
    BY <1>4, Zenon DEF UpTo

\* Every package above one is in a tier of the search.
LEMMA TiersCover ==
  ASSUME NodesSound, NEW key, NEW a \in Above(key), a # key
  PROVE  \E k \in DOMAIN Tiers(key) : a \in Tiers(key)[k]
  <1> DEFINE c == Cardinality(DOMAIN nodes)
             t == Tiers(key)
             up == UpTo(key)
  <1>1. c \in Nat
    BY FS_CardinalityType DEF NodesSound
  <1>2. t = [k \in 1..2 * c + 2 |->
              IF k = 1 THEN Parents({key}) ELSE IF k = 2 THEN roots ELSE Parents(t[k - 2])]
    BY <1>1, TiersAre
  <1>3. up = [n \in 0..c |-> IF n = 0 THEN {key} ELSE up[n - 1] \cup Parents(up[n - 1])]
    BY <1>1, UpToIs
  <1>4. a \in up[c] \cup roots
    BY DEF Above
  <1> HIDE DEF t, up, c
  <1>5. DOMAIN t = 1..2 * c + 2
    BY <1>2
  <1>6. t[1] = Parents({key}) /\ t[2] = roots
    <2>1. 1 \in 1..2 * c + 2 /\ 2 \in 1..2 * c + 2
      BY <1>1
    <2> QED
      BY <2>1, <1>2
  <1>7. ASSUME NEW k \in 1..2 * c + 2, k # 1, k # 2 PROVE t[k] = Parents(t[k - 2])
    BY <1>2, <1>7
  <1> DEFINE T == {n \in Nat : n <= c => \A x \in up[n] : x = key \/ \E j \in 1..n : x \in t[2 * j - 1]}
  <1>8. 0 \in T
    <2>1. 0 \in 0..c
      BY <1>1
    <2>2. up[0] = {key}
      BY <2>1, <1>3
    <2> QED
      BY <2>2
  <1>9. ASSUME NEW n \in T PROVE n + 1 \in T
    <2>1. n \in Nat /\ n + 1 \in Nat
      OBVIOUS
    <2> SUFFICES ASSUME n + 1 <= c, NEW x \in up[n + 1]
                 PROVE  x = key \/ \E j \in 1..n + 1 : x \in t[2 * j - 1]
      BY <2>1
    <2>2. \A y \in up[n] : y = key \/ \E j \in 1..n : y \in t[2 * j - 1]
      BY <2>1, <1>1
    <2>3. up[n + 1] = up[n] \cup Parents(up[n])
      <3>1. n + 1 \in 0..c /\ n + 1 # 0 /\ (n + 1) - 1 = n
        BY <2>1, <1>1
      <3> QED
        BY <3>1, <1>3
    <2>4. CASE x \in up[n]
      BY <2>1, <2>2, <2>4
    <2>5. CASE x \in Parents(up[n])
      <3>1. PICK y \in up[n], e \in DOMAIN nodes[x].edges : x \in DOMAIN nodes /\ nodes[x].edges[e] = y
        BY <2>5 DEF Parents
      <3>2. \A ks : y \in ks => x \in Parents(ks)
        BY <3>1 DEF Parents
      <3>3. CASE y = key
        <4>1. x \in t[1]
          BY <3>2, <3>3, <1>6
        <4>2. 1 \in 1..n + 1 /\ 2 * 1 - 1 = 1
          BY <2>1
        <4> QED
          BY <4>1, <4>2
      <3>4. ASSUME NEW j \in 1..n, y \in t[2 * j - 1] PROVE \E i \in 1..n + 1 : x \in t[2 * i - 1]
        <4>1. PICK k \in 1..2 * c + 2 : k = 2 * (j + 1) - 1
          BY <2>1, <1>1
        <4>2. k # 1 /\ k # 2 /\ k - 2 = 2 * j - 1 /\ j + 1 \in 1..n + 1
          BY <4>1, <2>1
        <4>3. t[k] = Parents(t[k - 2])
          BY <4>2, <1>7
        <4>4. x \in t[k]
          BY <4>2, <4>3, <3>2, <3>4
        <4> QED
          BY <4>1, <4>2, <4>4
      <3> QED
        BY <2>2, <3>3, <3>4
    <2> QED
      BY <2>3, <2>4, <2>5
  <1>10. T = Nat
    <2>1. T \in SUBSET Nat
      OBVIOUS
    <2> HIDE DEF T
    <2> QED
      BY <1>8, <1>9, <2>1, Induction
  <1>11. c \in T
    BY <1>1, <1>10
  <1>12. CASE a \in up[c]
    <2>1. PICK j \in 1..c : a \in t[2 * j - 1]
      BY <1>11, <1>12, <1>1
    <2>2. 2 * j - 1 \in 1..2 * c + 2
      BY <1>1
    <2> QED
      BY <2>1, <2>2, <1>5 DEF t
  <1>13. CASE a \in roots
    <2>1. 2 \in 1..2 * c + 2
      BY <1>1
    <2> QED
      BY <2>1, <1>5, <1>6, <1>13 DEF t
  <1> QED
    BY <1>4, <1>12, <1>13

\* A search that finds nothing has looked at every package above the one that asks.
LEMMA NothingFound ==
  ASSUME NodesSound, NEW key, NEW peer, Providers(key, peer) = {},
         NEW a \in (Above(key) \ {key}) \cap DOMAIN nodes
  PROVE  peer.name \notin DOMAIN nodes[a].edges
  <1> DEFINE provide(t) == {nodes[x].edges[peer.name] :
                              x \in {b \in t \cap DOMAIN nodes : peer.name \in DOMAIN nodes[b].edges}}
             tiers == Tiers(key)
             found == {k \in DOMAIN tiers : provide(tiers[k]) # {}}
             rest == {r \in roots \cap DOMAIN nodes : peer.name \in {nodes[r].as, nodes[r].name}}
  <1>1. Providers(key, peer) = IF found # {} THEN provide(tiers[Min(found)]) ELSE rest
    BY DEF Providers
  <1>2. Cardinality(DOMAIN nodes) \in Nat
    BY FS_CardinalityType DEF NodesSound
  <1>3. DOMAIN tiers = 1..2 * Cardinality(DOMAIN nodes) + 2
    BY <1>2, TiersAre
  <1>4. found \in SUBSET Nat
    BY <1>2, <1>3
  <1>5. found = {}
    <2> SUFFICES ASSUME found # {} PROVE FALSE
      OBVIOUS
    <2>1. Min(found) \in found
      <3> HIDE DEF found
      <3>1. PICK n \in found : \A m \in found : n <= m
        BY <1>4, LeastNumber
      <3> QED
        BY <3>1 DEF Min
    <2>2. provide(tiers[Min(found)]) # {}
      BY <2>1
    <2> HIDE DEF found, provide, tiers, rest
    <2> QED
      BY <1>1, <2>2
  <1>6. PICK k \in DOMAIN tiers : a \in tiers[k]
    BY TiersCover
  <1>7. provide(tiers[k]) = {}
    BY <1>5
  <1> QED
    BY <1>6, <1>7

LEMMA ResolvePeersKeeps == ResolveInv /\ ResolvePeers => ResolveInv'
  <1> SUFFICES ASSUME ResolveInv, ResolvePeers PROVE ResolveInv'
    OBVIOUS
  <1> DEFINE work == UNION {{key} \X nodes[key].wants : key \in DOMAIN nodes}
  <1>1. /\ UNCHANGED <<project, level, nextLevel, resolved, warned, nodes, roots>>
        /\ resAt = "peers" /\ resAt' = "done"
    BY DEF ResolvePeers
  <1>2. DOMAIN peers' = work /\ \A w \in work : peers'[w] \in PeerAnswers(w[1], w[2])
    BY DEF ResolvePeers
  <1>3. Waiting' = Waiting /\ \A d : KeysFor(d)' = KeysFor(d)
    BY <1>1, WaitingKept
  <1>4. PeersHonest'
    <2> SUFFICES ASSUME NEW w \in DOMAIN peers', peers'[w].is \in {"missing", "optional-missing"},
                        NEW a \in ((Above(w[1]) \ {w[1]}) \cap DOMAIN nodes)'
                 PROVE  w[2].name \notin DOMAIN nodes'[a].edges
      BY DEF PeersHonest
    <2>1. Providers(w[1], w[2]) = {}
      <3> SUFFICES ASSUME Providers(w[1], w[2]) # {} PROVE FALSE
        OBVIOUS
      <3>1. peers'[w] \in {[is |-> IF k[2] \in w[2].in THEN "satisfied" ELSE "conflict", key |-> k] :
                              k \in Providers(w[1], w[2])}
        BY <1>2 DEF PeerAnswers
      <3>2. peers'[w].is \in {"satisfied", "conflict"}
        BY <3>1
      <3> QED
        BY <3>2
    <2>2. a \in (Above(w[1]) \ {w[1]}) \cap DOMAIN nodes
      BY <1>1 DEF Above, UpTo, Parents
    <2> QED
      BY <1>1, <2>1, <2>2, NothingFound DEF ResolveInv
  <1>5. NodesSound' /\ ResolverTypeOK' /\ FirstLevelFirst' /\ DirectMet' /\ AllWorked'
    BY <1>1 DEF ResolveInv, NodesSound, ResolverTypeOK, FirstLevelFirst, DirectMet, AllWorked
  <1>6. DeclaredMet'
    BY <1>1, <1>3 DEF ResolveInv, DeclaredMet, Met
  <1>7. EdgesMade'
    BY <1>1, <1>3 DEF ResolveInv, EdgesMade, Shadowed
  <1>8. (project \in Projects)' /\ (level \in Seq(Waiting))' /\ (nextLevel \in Seq(Waiting))'
    BY <1>1, <1>3 DEF ResolveInv
  <1> QED
    BY <1>4, <1>5, <1>6, <1>7, <1>8 DEF ResolveInv

LEMMA ResolveInvAlways == ResolverSpec => []ResolveInv
  <1>1. ResolveInv /\ UNCHANGED resVars => ResolveInv'
    <2> SUFFICES ASSUME ResolveInv, UNCHANGED resVars PROVE ResolveInv'
      OBVIOUS
    <2>1. UNCHANGED <<project, resAt, level, nextLevel, resolved, warned, nodes, roots, peers>>
      BY DEF resVars
    <2>2. Waiting' = Waiting /\ \A d : KeysFor(d)' = KeysFor(d)
      BY <2>1, WaitingKept
    <2>3. NodesSound' /\ ResolverTypeOK' /\ FirstLevelFirst' /\ DirectMet' /\ AllWorked'
      BY <2>1 DEF ResolveInv, NodesSound, ResolverTypeOK, FirstLevelFirst, DirectMet, AllWorked
    <2>4. DeclaredMet'
      BY <2>1, <2>2 DEF ResolveInv, DeclaredMet, Met
    <2>5. EdgesMade'
      BY <2>1, <2>2 DEF ResolveInv, EdgesMade, Shadowed
    <2>6. PeersHonest'
      <3>1. \A key : Above(key)' = Above(key)
        BY <2>1 DEF Above, UpTo, Parents
      <3> QED
        BY <2>1, <3>1 DEF ResolveInv, PeersHonest
    <2>7. (project \in Projects)' /\ (level \in Seq(Waiting))' /\ (nextLevel \in Seq(Waiting))'
      BY <2>1, <2>2 DEF ResolveInv
    <2> QED
      BY <2>3, <2>4, <2>5, <2>6, <2>7 DEF ResolveInv
  <1>2. ResolveInv /\ [ResolverNext]_resVars => ResolveInv'
    BY <1>1, FetchLevelKeeps, LevelDoneKeeps, SkipKeeps, AbortKeeps, ResolveFirstKeeps, FixupKeeps,
       ResolvePeersKeeps DEF ResolverNext
  <1> QED
    BY <1>2, ResolverStarts, PTL DEF ResolverSpec

(* The resolver's variables keep their types, for any project and depth     *)
(* limit (DepResolver::resolve).                                            *)
THEOREM ResolverTypeCorrect == ResolverSpec => []ResolverTypeOK
  <1>1. ResolveInv => ResolverTypeOK
    BY DEF ResolveInv
  <1> QED
    BY <1>1, ResolveInvAlways, PTL

(* The graph resolve returns is the project's, whatever packages exist and  *)
(* in whatever order levels are fetched and maps are walked: every direct   *)
(* dependency is a root; every required dependency of a node has its edge   *)
(* or a reason the resolver has for leaving it out; an edge leads to a      *)
(* version its range admits; and a peer is called missing only if nothing   *)
(* above the package that wants it provides it.                             *)
THEOREM GraphFaithfulAlways == ResolverSpec => []GraphFaithful
  <1>1. ResolveInv => GraphFaithful
    <2> SUFFICES ASSUME ResolveInv PROVE GraphFaithful
      OBVIOUS
    <2>1. RequiredLinked
      BY DEF ResolveInv, EdgesMade, RequiredLinked
    <2>2. EdgesSatisfied
      BY DEF ResolveInv, EdgesMade, EdgesSatisfied, Admits
    <2>3. RootsComplete
      <3>1. resAt = "done" => ToSet(level) = {}
        BY NothingIn DEF ResolveInv, AllWorked
      <3> QED
        BY <3>1 DEF ResolveInv, DirectMet, RootsComplete, Admits
    <2> QED
      BY <2>1, <2>2, <2>3 DEF ResolveInv, GraphFaithful
  <1> QED
    BY <1>1, ResolveInvAlways, PTL

-----------------------------------------------------------------------------
(***************************************************************************)
(* The layout, for any graph of named packages.  First the paths: what     *)
(* following a relative path does, and which paths can be equal.           *)
(***************************************************************************)
Component == STRING \cup {".oath", "node_modules", ".bin", ".."}

Paths == Seq(Component)

LEMMA StepsAre ==
  ASSUME NEW from \in Paths, NEW rel \in Paths
  PROVE  Steps(from, rel) = [k \in 0..Len(rel) |->
           IF k = 0 THEN from
           ELSE IF rel[k] = ".." THEN Parent(Steps(from, rel)[k - 1])
                ELSE Append(Steps(from, rel)[k - 1], rel[k])]
  <1> DEFINE Step(x, k) == IF rel[k] = ".." THEN Parent(x) ELSE Append(x, rel[k])
             Is(g, n) == g = [k \in 0..n |-> IF k = 0 THEN from ELSE Step(g[k - 1], k)]
             T == {n \in Nat : \E g : Is(g, n)}
  <1> HIDE DEF Step
  <1>1. 0 \in T
    <2>1. Is([k \in 0..0 |-> from], 0)
      OBVIOUS
    <2> QED
      BY <2>1
  <1>2. ASSUME NEW n \in T PROVE n + 1 \in T
    <2>1. PICK g : Is(g, n)
      OBVIOUS
    <2>2. PICK h : h = [k \in 0..n+1 |-> IF k = n + 1 THEN Step(g[n], n + 1) ELSE g[k]]
      OBVIOUS
    <2>3. Is(h, n + 1) /\ n + 1 \in Nat
      BY <2>1, <2>2
    <2> QED
      BY <2>3
  <1>3. T = Nat
    <2>1. T \in SUBSET Nat
      OBVIOUS
    <2> QED
      BY <1>1, <1>2, <2>1, Induction
  <1>4. \E g : Is(g, Len(rel))
    <2>1. Len(rel) \in T
      BY <1>3 DEF Paths
    <2> QED
      BY <2>1
  <1> QED
    BY <1>4, Zenon DEF Steps, Step

LEMMA PlainIs ==
  ASSUME NEW path \in Paths
  PROVE  Plain(path) = [k \in 0..Len(path) |->
           IF k = 0 THEN <<>>
           ELSE IF path[k] = "." THEN Plain(path)[k - 1]
                ELSE Append(Plain(path)[k - 1], path[k])]
  <1> DEFINE Step(x, k) == IF path[k] = "." THEN x ELSE Append(x, path[k])
             Is(g, n) == g = [k \in 0..n |-> IF k = 0 THEN <<>> ELSE Step(g[k - 1], k)]
             T == {n \in Nat : \E g : Is(g, n)}
  <1> HIDE DEF Step
  <1>1. 0 \in T
    <2>1. Is([k \in 0..0 |-> <<>>], 0)
      OBVIOUS
    <2> QED
      BY <2>1
  <1>2. ASSUME NEW n \in T PROVE n + 1 \in T
    <2>1. PICK g : Is(g, n)
      OBVIOUS
    <2>2. PICK h : h = [k \in 0..n+1 |-> IF k = n + 1 THEN Step(g[n], n + 1) ELSE g[k]]
      OBVIOUS
    <2>3. Is(h, n + 1) /\ n + 1 \in Nat
      BY <2>1, <2>2
    <2> QED
      BY <2>3
  <1>3. T = Nat
    <2>1. T \in SUBSET Nat
      OBVIOUS
    <2> QED
      BY <1>1, <1>2, <2>1, Induction
  <1>4. \E g : Is(g, Len(path))
    <2>1. Len(path) \in T
      BY <1>3 DEF Paths
    <2> QED
      BY <2>1
  <1> QED
    BY <1>4, Zenon DEF Plain, Step

LEMMA AppendJoined ==
  \A S : \A b, s \in Seq(S) : \A e \in S : Append(b \o s, e) = b \o Append(s, e)
  <1> SUFFICES ASSUME NEW S, NEW b \in Seq(S), NEW s \in Seq(S), NEW e \in S
               PROVE  Append(b \o s, e) = b \o Append(s, e)
    OBVIOUS
  <1>1. <<e>> \in Seq(S) /\ b \o s \in Seq(S)
    BY ConcatProperties
  <1>2. Append(b \o s, e) = (b \o s) \o <<e>> /\ Append(s, e) = s \o <<e>>
    BY <1>1, AppendIsConcat
  <1>3. (b \o s) \o <<e>> = b \o (s \o <<e>>)
    BY <1>1, ConcatAssociative
  <1> QED
    BY <1>2, <1>3

LEMMA DownOne ==
  ASSUME NEW S, NEW base \in Seq(S), NEW down \in Seq(S), NEW n \in Nat, n + 1 <= Len(down)
  PROVE  Append(base \o SubSeq(down, 1, n), down[n + 1]) = base \o SubSeq(down, 1, n + 1)
  <1>0. SubSeq(down, 1, n) \in Seq(S) /\ down[n + 1] \in S
    OBVIOUS
  <1>1. PICK s \in Seq(S), e \in S : s = SubSeq(down, 1, n) /\ e = down[n + 1]
    BY <1>0
  <1>2. SubSeq(down, 1, n + 1) = Append(s, e)
    BY <1>1
  <1>3. Append(base \o s, e) = base \o Append(s, e)
    BY AppendJoined, SMTT(60)
  <1> QED
    BY <1>1, <1>2, <1>3

\* Going up and then down a path without ".." leads where it says.
LEMMA FollowIs ==
  ASSUME NEW from \in Paths, NEW u \in 0..Len(from), NEW down \in Paths,
         \A k \in 1..Len(down) : down[k] # "..", NEW rel \in Paths,
         Len(rel) = u + Len(down),
         \A k \in 1..u : rel[k] = "..",
         \A k \in 1..Len(down) : rel[u + k] = down[k]
  PROVE  Follow(from, rel) = SubSeq(from, 1, Len(from) - u) \o down
  <1> DEFINE reach == Steps(from, rel)
  <1>1. Len(from) \in Nat /\ Len(down) \in Nat /\ u \in Nat /\ Len(rel) \in Nat
    BY DEF Paths
  <1>2. reach = [k \in 0..Len(rel) |->
               IF k = 0 THEN from ELSE IF rel[k] = ".." THEN Parent(reach[k - 1])
               ELSE Append(reach[k - 1], rel[k])]
    BY StepsAre
  <1>3. Follow(from, rel) = reach[Len(rel)]
    BY DEF Follow
  <1> HIDE DEF reach
  <1>4. reach[0] = from
    <2>1. 0 \in 0..Len(rel)
      BY <1>1
    <2> QED
      BY <1>2, <2>1
  <1>5. ASSUME NEW k \in 1..Len(rel)
        PROVE  reach[k] = IF rel[k] = ".." THEN Parent(reach[k - 1]) ELSE Append(reach[k - 1], rel[k])
    <2>1. k \in 0..Len(rel) /\ k # 0
      BY <1>1
    <2> QED
      BY <1>2, <2>1
  <1> DEFINE T == {n \in Nat : n <= u => reach[n] = SubSeq(from, 1, Len(from) - n)}
  <1>6. 0 \in T
    <2>1. SubSeq(from, 1, Len(from)) = from
      BY SubSeqFull DEF Paths
    <2> QED
      BY <2>1, <1>1, <1>4
  <1>7. ASSUME NEW n \in T PROVE n + 1 \in T
    <2>1. n \in Nat /\ n + 1 \in Nat
      OBVIOUS
    <2> SUFFICES ASSUME n + 1 <= u PROVE reach[n + 1] = SubSeq(from, 1, Len(from) - (n + 1))
      BY <2>1
    <2>2. reach[n] = SubSeq(from, 1, Len(from) - n)
      BY <2>1, <1>1
    <2>3. n + 1 \in 1..u /\ n + 1 \in 1..Len(rel) /\ (n + 1) - 1 = n
      BY <2>1, <1>1
    <2>4. reach[n + 1] = Parent(reach[n])
      BY <2>3, <1>5
    <2> DEFINE m == Len(from) - n
    <2>5. m \in 1..Len(from) /\ m - 1 = Len(from) - (n + 1)
      BY <2>1, <1>1
    <2>6. Parent(SubSeq(from, 1, m)) = SubSeq(from, 1, m - 1)
      <3> HIDE DEF m
      <3>1. from \in Seq(Component) /\ \A i \in 1..m : from[i] \in Component
        BY <2>5 DEF Paths
      <3>2. /\ SubSeq(from, 1, m) \in Seq(Component) /\ Len(SubSeq(from, 1, m)) = m
            /\ \A i \in 1..m : SubSeq(from, 1, m)[i] = from[i]
        BY <2>5, <3>1
      <3>3. PICK s \in Seq(Component) : s = SubSeq(from, 1, m)
        BY <3>2
      <3>4. /\ SubSeq(s, 1, m - 1) \in Seq(Component) /\ Len(SubSeq(s, 1, m - 1)) = m - 1
            /\ \A i \in 1..m - 1 : SubSeq(s, 1, m - 1)[i] = s[i]
        BY <2>5, <3>2, <3>3
      <3>5. /\ SubSeq(from, 1, m - 1) \in Seq(Component) /\ Len(SubSeq(from, 1, m - 1)) = m - 1
            /\ \A i \in 1..m - 1 : SubSeq(from, 1, m - 1)[i] = from[i]
        BY <2>5, <3>1
      <3>6. \A i \in 1..m - 1 : SubSeq(s, 1, m - 1)[i] = SubSeq(from, 1, m - 1)[i]
        BY <3>2, <3>3, <3>4, <3>5, <2>5
      <3>7. SubSeq(s, 1, m - 1) = SubSeq(from, 1, m - 1)
        BY <3>4, <3>5, <3>6, SeqEqual
      <3> QED
        BY <3>2, <3>3, <3>7 DEF Parent
    <2> QED
      BY <2>2, <2>4, <2>5, <2>6
  <1>8. T = Nat
    <2>1. T \in SUBSET Nat
      OBVIOUS
    <2> HIDE DEF T
    <2> QED
      BY <1>6, <1>7, <2>1, Induction
  <1>9. PICK base \in Paths : base = SubSeq(from, 1, Len(from) - u)
    <2> DEFINE m == Len(from) - u
    <2>1. m \in 0..Len(from)
      BY <1>1
    <2> HIDE DEF m
    <2>2. \A i \in 1..m : from[i] \in Component
      BY <1>1, <2>1 DEF Paths
    <2>3. SubSeq(from, 1, m) \in Seq(Component)
      BY <1>1, <2>1, <2>2, SubSeqProperties
    <2> QED
      BY <2>3 DEF Paths, m
  <1>10. reach[u] = base
    BY <1>8, <1>9, <1>1
  <1> DEFINE R == {n \in Nat : n <= Len(down) => reach[u + n] = base \o SubSeq(down, 1, n)}
  <1>11. 0 \in R
    <2>1. SubSeq(down, 1, 0) = <<>> /\ base \o <<>> = base
      BY ConcatEmptySeq, SubSeqEmpty DEF Paths
    <2>2. u + 0 = u
      BY <1>1
    <2> QED
      BY <2>1, <2>2, <1>10
  <1>12. ASSUME NEW n \in R PROVE n + 1 \in R
    <2>1. n \in Nat /\ n + 1 \in Nat
      OBVIOUS
    <2> SUFFICES ASSUME n + 1 <= Len(down) PROVE reach[u + (n + 1)] = base \o SubSeq(down, 1, n + 1)
      BY <2>1
    <2>2. reach[u + n] = base \o SubSeq(down, 1, n)
      BY <2>1, <1>1
    <2>3. PICK k \in 1..Len(rel) : k = u + (n + 1) /\ k - 1 = u + n
      BY <2>1, <1>1
    <2>4. n + 1 \in 1..Len(down)
      BY <2>1, <1>1
    <2>5. rel[k] = down[n + 1] /\ down[n + 1] # ".."
      BY <2>3, <2>4
    <2>6. reach[k] = Append(base \o SubSeq(down, 1, n), down[n + 1])
      BY <2>2, <2>3, <2>5, <1>5
    <2>7. base \in Seq(Component) /\ down \in Seq(Component)
      BY DEF Paths
    <2>8. Append(base \o SubSeq(down, 1, n), down[n + 1]) = base \o SubSeq(down, 1, n + 1)
      <3> HIDE DEF R
      <3> QED
        BY <2>1, <2>7, DownOne, Zenon
    <2> QED
      BY <2>3, <2>6, <2>8
  <1>13. R = Nat
    <2>1. R \in SUBSET Nat
      OBVIOUS
    <2> HIDE DEF R
    <2> QED
      BY <1>11, <1>12, <2>1, Induction
  <1>14. reach[u + Len(down)] = base \o SubSeq(down, 1, Len(down))
    <2>1. PICK n \in R : n = Len(down)
      BY <1>13, <1>1
    <2>2. n <= Len(down)
      BY <2>1, <1>1
    <2>3. reach[u + n] = base \o SubSeq(down, 1, n)
      BY <2>2
    <2> QED
      BY <2>1, <2>3
  <1>15. SubSeq(down, 1, Len(down)) = down
    BY SubSeqFull DEF Paths
  <1> QED
    BY <1>3, <1>9, <1>14, <1>15

\* pathdiff_relative: from where the link stands, the path leads to its target.
LEMMA DiffLands ==
  ASSUME NEW from \in Paths, NEW to \in Paths, \A k \in 1..Len(to) : to[k] # ".."
  PROVE  Follow(Parent(from), PathDiff(from, to)) = to
  <1> DEFINE d == Parent(from)
             C == {k \in 0..Len(to) : IsPrefix(SubSeq(to, 1, k), d)}
             c == Max(C)
             u == Len(d) - c
             up == [k \in 1..u |-> ".."]
             down == SubSeq(to, c + 1, Len(to))
  <1>1. Len(to) \in Nat /\ Len(from) \in Nat /\ to \in Seq(Component) /\ from \in Seq(Component)
    BY DEF Paths
  <1>2. d \in Seq(Component) /\ Len(d) \in Nat
    <2>1. \A i \in 1..Len(from) - 1 : from[i] \in Component
      BY <1>1
    <2>2. SubSeq(from, 1, Len(from) - 1) \in Seq(Component)
      BY <1>1, <2>1, SubSeqProperties
    <2> QED
      BY <2>2 DEF Parent
  <1> HIDE DEF d
  <1>3. 0 \in C
    <2>1. SubSeq(to, 1, 0) = <<>> /\ SubSeq(d, 1, 0) = <<>> /\ SubSeq(<<>>, 1, 0) = <<>>
      BY SubSeqEmpty
    <2>2. Len(<<>>) = 0
      OBVIOUS
    <2>3. IsPrefix(<<>>, d)
      BY <1>2, <2>1, <2>2 DEF IsPrefix
    <2>4. 0 \in 0..Len(to)
      BY <1>1
    <2>5. IsPrefix(SubSeq(to, 1, 0), d)
      BY <2>1, <2>3, Zenon
    <2> QED
      BY <2>4, <2>5, Zenon
  <1>4. C \in SUBSET Nat /\ IsFiniteSet(C)
    <2>1. C \in SUBSET (0..Len(to)) /\ IsFiniteSet(0..Len(to))
      BY <1>1, FS_Interval
    <2>2. C \in SUBSET Nat
      BY <1>1
    <2> HIDE DEF C
    <2> QED
      BY <2>1, <2>2, FS_Subset
  <1>5. c \in C
    <2> HIDE DEF C
    <2>1. PICK m \in C : \A n \in C : n <= m
      BY <1>3, <1>4, GreatestNumber
    <2>2. \A n \in C : m >= n
      BY <2>1, <1>4
    <2> QED
      BY <2>2 DEF Max
  <1>6. c \in 0..Len(to) /\ IsPrefix(SubSeq(to, 1, c), d)
    <2> HIDE DEF c
    <2> QED
      BY <1>5
  <1> HIDE DEF c, C
  <1>7. /\ SubSeq(to, 1, c) \in Seq(Component) /\ Len(SubSeq(to, 1, c)) = c
        /\ SubSeq(to, c + 1, Len(to)) \in Seq(Component)
        /\ Len(SubSeq(to, c + 1, Len(to))) = Len(to) - c
        /\ \A k \in 1..Len(to) - c : SubSeq(to, c + 1, Len(to))[k] = to[c + k]
    <2>1. c \in Int /\ c + 1 \in Int /\ Len(to) \in Int
      BY <1>1, <1>6
    <2>2. \A i \in 1..c : to[i] \in Component
      BY <1>1, <1>6
    <2>3. \A i \in c + 1..Len(to) : to[i] \in Component
      BY <1>1, <1>6
    <2>4. /\ SubSeq(to, 1, c) \in Seq(Component)
          /\ Len(SubSeq(to, 1, c)) = IF 1 <= c THEN c - 1 + 1 ELSE 0
      BY <2>1, <2>2, SubSeqProperties
    <2>5. /\ SubSeq(to, c + 1, Len(to)) \in Seq(Component)
          /\ Len(SubSeq(to, c + 1, Len(to))) = IF c + 1 <= Len(to) THEN Len(to) - (c + 1) + 1 ELSE 0
          /\ \A k \in 1..Len(to) - (c + 1) + 1 : SubSeq(to, c + 1, Len(to))[k] = to[(c + 1) + k - 1]
      BY <2>1, <2>3, SubSeqProperties
    <2>6. Len(SubSeq(to, 1, c)) = c /\ Len(SubSeq(to, c + 1, Len(to))) = Len(to) - c
      BY <2>4, <2>5, <1>1, <1>6
    <2>7. ASSUME NEW k \in 1..Len(to) - c PROVE SubSeq(to, c + 1, Len(to))[k] = to[c + k]
      <3>1. k \in 1..Len(to) - (c + 1) + 1 /\ (c + 1) + k - 1 = c + k
        BY <1>1, <1>6
      <3> QED
        BY <2>5, <3>1
    <2> QED
      BY <2>4, <2>5, <2>6, <2>7
  <1>8. c <= Len(d) /\ SubSeq(d, 1, c) = SubSeq(to, 1, c)
    <2>1. SubSeq(SubSeq(to, 1, c), 1, c) = SubSeq(to, 1, c)
      <3>1. PICK s \in Seq(Component) : s = SubSeq(to, 1, c) /\ Len(s) = c
        BY <1>7
      <3>2. SubSeq(s, 1, Len(s)) = s
        BY SubSeqFull
      <3> QED
        BY <3>1, <3>2
    <2> QED
      BY <2>1, <1>6, <1>7 DEF IsPrefix
  <1>9. u \in 0..Len(d) /\ Len(d) - u = c
    BY <1>2, <1>6, <1>8
  <1> DEFINE rel == up \o down
  <1>10. /\ up \in Seq(Component) /\ Len(up) = u /\ \A k \in 1..u : up[k] = ".."
    <2> HIDE DEF u
    <2>1. ".." \in Component
      BY DEF Component
    <2>2. up \in [1..u -> Component] /\ u \in Nat
      BY <1>2, <1>9, <2>1
    <2> QED
      BY <2>2
  <1>11. PathDiff(from, to) = rel
    BY DEF PathDiff, d, c, C
  <1> HIDE DEF u, up
  <1>12. /\ down \in Seq(Component) /\ Len(down) = Len(to) - c
         /\ \A k \in 1..Len(down) : down[k] = to[c + k]
    BY <1>7
  <1> HIDE DEF down
  <1>13. /\ rel \in Seq(Component) /\ Len(rel) = u + Len(down)
         /\ \A i \in 1..Len(up) + Len(down) : rel[i] = IF i <= Len(up) THEN up[i] ELSE down[i - Len(up)]
    BY <1>10, <1>12, ConcatProperties
  <1> HIDE DEF rel
  <1>14. ASSUME NEW k \in 1..u PROVE rel[k] = ".."
    <2>1. PICK i \in 1..Len(up) + Len(down) : i = k /\ i <= Len(up)
      BY <1>9, <1>10, <1>12, <1>1, <1>6, <1>2
    <2> QED
      BY <2>1, <1>10, <1>13
  <1>15. ASSUME NEW k \in 1..Len(down) PROVE rel[u + k] = down[k]
    <2>1. PICK i \in 1..Len(up) + Len(down) : i = u + k
      BY <1>9, <1>10, <1>12, <1>1, <1>6, <1>2
    <2>2. ~(i <= Len(up)) /\ i - Len(up) = k
      BY <2>1, <1>9, <1>10, <1>2
    <2> QED
      BY <2>1, <2>2, <1>13
  <1>16. \A k \in 1..Len(down) : down[k] # ".."
    <2> SUFFICES ASSUME NEW k \in 1..Len(down) PROVE down[k] # ".."
      OBVIOUS
    <2>1. c + k \in 1..Len(to)
      BY <1>1, <1>6, <1>12
    <2> QED
      BY <2>1, <1>12
  <1>17. Follow(d, rel) = SubSeq(d, 1, Len(d) - u) \o down
    <2>1. d \in Paths /\ rel \in Paths /\ down \in Paths
      BY <1>2, <1>12, <1>13 DEF Paths
    <2> QED
      BY <2>1, <1>9, <1>13, <1>14, <1>15, <1>16, FollowIs
  <1>18. SubSeq(to, 1, c) \o down = to
    <2>1. 1 \in 1..Len(to) + 1 /\ c \in 1 - 1..Len(to) /\ Len(to) \in c..Len(to)
      BY <1>1, <1>6
    <2>2. SubSeq(to, 1, c) \o SubSeq(to, c + 1, Len(to)) = SubSeq(to, 1, Len(to))
      BY <1>1, <2>1, ConcatAdjacentSubSeq
    <2>3. SubSeq(to, 1, Len(to)) = to
      BY <1>1, SubSeqFull
    <2> QED
      BY <2>2, <2>3 DEF down
  <1> QED
    BY <1>8, <1>9, <1>11, <1>17, <1>18 DEF d

\* sanitize_package_relative_path keeps plain components, and at least one.
LEMMA PlainSafe ==
  ASSUME NEW path \in Paths, SafePath(path)
  PROVE  /\ Plain(path)[Len(path)] \in Paths /\ Plain(path)[Len(path)] # <<>>
         /\ \A k \in 1..Len(Plain(path)[Len(path)]) : Plain(path)[Len(path)][k] # ".."
  <1> DEFINE f == Plain(path)
             P == Component \ {".."}
  <1>1. /\ Len(path) \in Nat /\ path \in Seq(Component)
        /\ \A k \in 1..Len(path) : path[k] \in P
        /\ \E k \in 1..Len(path) : path[k] # "."
    BY DEF Paths, SafePath
  <1>2. f = [k \in 0..Len(path) |->
              IF k = 0 THEN <<>> ELSE IF path[k] = "." THEN f[k - 1] ELSE Append(f[k - 1], path[k])]
    BY PlainIs
  <1> HIDE DEF f, P
  <1> DEFINE T == {n \in Nat : n <= Len(path) =>
                     f[n] \in Seq(P) /\ ((\E k \in 1..n : path[k] # ".") => f[n] # <<>>)}
  <1>3. 0 \in T
    <2>1. 0 \in 0..Len(path)
      BY <1>1
    <2>2. f[0] = <<>> /\ <<>> \in Seq(P)
      BY <1>2, <2>1
    <2>3. ~ \E k \in 1..0 : path[k] # "."
      OBVIOUS
    <2>4. f[0] \in Seq(P) /\ ((\E k \in 1..0 : path[k] # ".") => f[0] # <<>>)
      BY <2>2, <2>3, Zenon
    <2> QED
      BY <2>4
  <1>4. ASSUME NEW n \in T PROVE n + 1 \in T
    <2>1. n \in Nat /\ n + 1 \in Nat
      OBVIOUS
    <2> SUFFICES ASSUME n + 1 <= Len(path)
                 PROVE  f[n + 1] \in Seq(P) /\ ((\E k \in 1..n + 1 : path[k] # ".") => f[n + 1] # <<>>)
      BY <2>1
    <2>2. f[n] \in Seq(P) /\ ((\E k \in 1..n : path[k] # ".") => f[n] # <<>>)
      BY <2>1, <1>1
    <2> HIDE DEF T
    <2>3. PICK j \in 0..Len(path) : j = n + 1 /\ j # 0 /\ j - 1 = n /\ j \in 1..Len(path)
      BY <2>1, <1>1
    <2>4. f[j] = IF path[j] = "." THEN f[n] ELSE Append(f[n], path[j])
      BY <2>3, <1>2
    <2>5. CASE path[j] = "."
      <3>1. \A k \in 1..n + 1 : path[k] # "." => k \in 1..n
        BY <2>1, <2>3, <2>5
      <3> QED
        BY <2>2, <2>3, <2>4, <2>5, <3>1
    <2>6. CASE path[j] # "."
      <3>1. Append(f[n], path[j]) \in Seq(P) /\ Append(f[n], path[j]) # <<>>
        BY <2>2, <2>3, <1>1, AppendProperties
      <3> QED
        BY <2>3, <2>4, <2>6, <3>1
    <2> QED
      BY <2>5, <2>6
  <1>5. T = Nat
    <2>1. T \in SUBSET Nat
      OBVIOUS
    <2> HIDE DEF T
    <2> QED
      BY <1>3, <1>4, <2>1, Induction
  <1>6. PICK n \in T : n = Len(path)
    BY <1>1, <1>5
  <1>7. f[n] \in Seq(P) /\ f[n] # <<>>
    BY <1>1, <1>6
  <1>8. PICK s \in Seq(P) : s = f[n]
    BY <1>7
  <1>9. P \subseteq Component
    BY DEF P
  <1>10. s \in Seq(Component)
    BY <1>9, SeqMonotonic
  <1>11. \A k \in 1..Len(s) : s[k] # ".."
    <2> SUFFICES ASSUME NEW k \in 1..Len(s) PROVE s[k] # ".."
      OBVIOUS
    <2>1. s[k] \in P
      BY ElementOfSeq
    <2> QED
      BY <2>1 DEF P
  <1> QED
    BY <1>6, <1>7, <1>8, <1>10, <1>11 DEF Paths, f


\* The paths of the tree, told apart by how long they are.
LEMMA NameIs ==
  ASSUME NEW n, IsName(n)
  PROVE  /\ n \in Paths /\ n \in Seq(Component) /\ Len(n) \in Nat /\ (Len(n) = 1 \/ Len(n) = 2)
         /\ \A i \in 1..Len(n) : n[i] \in Component /\ n[i] # ".."
         /\ Len(n) = 2 => n[1] # ".bin"
  <1>1. n \in Seq(STRING) /\ STRING \subseteq Component
    BY DEF IsName, Component
  <1>2. n \in Seq(Component)
    BY <1>1, SeqMonotonic
  <1>3. Len(n) \in Nat /\ (Len(n) = 1 \/ Len(n) = 2)
    BY <1>1 DEF IsName
  <1>4. \A i \in 1..Len(n) : n[i] \in Component
    BY <1>2
  <1> QED
    BY <1>2, <1>3, <1>4 DEF IsName, Paths

LEMMA DirIs ==
  ASSUME NEW key \in STRING, NEW n, IsName(n)
  PROVE  /\ PackageDir(key, n) \in Paths /\ Len(PackageDir(key, n)) = 3 + Len(n)
         /\ PackageDir(key, n)[1] = ".oath" /\ PackageDir(key, n)[2] = key
         /\ PackageDir(key, n)[3] = "node_modules"
         /\ \A i \in 1..Len(n) : PackageDir(key, n)[3 + i] = n[i]
         /\ key # ".." => \A i \in 1..3 + Len(n) : PackageDir(key, n)[i] # ".."
  <1> DEFINE h == <<".oath", key, "node_modules">>
  <1>1. n \in Seq(Component) /\ (Len(n) = 1 \/ Len(n) = 2) /\ \A i \in 1..Len(n) : n[i] # ".."
    BY NameIs, Zenon
  <1>2. h \in Seq(Component)
    BY DEF Component
  <1>3. Len(h) = 3 /\ h[1] = ".oath" /\ h[2] = key /\ h[3] = "node_modules"
    OBVIOUS
  <1>4. PackageDir(key, n) = h \o n
    BY DEF PackageDir
  <1> HIDE DEF h
  <1>5. PICK p : p = h \o n
    OBVIOUS
  <1>6. /\ p \in Seq(Component) /\ Len(p) = 3 + Len(n)
        /\ \A i \in 1..3 + Len(n) : p[i] = IF i <= 3 THEN h[i] ELSE n[i - 3]
    <2>1. /\ p \in Seq(Component) /\ Len(p) = Len(h) + Len(n)
          /\ \A i \in 1..Len(h) + Len(n) : p[i] = IF i <= Len(h) THEN h[i] ELSE n[i - Len(h)]
      BY <1>1, <1>2, <1>5, ConcatProperties, Zenon
    <2> QED
      BY <2>1, <1>3
  <1>7. ASSUME NEW i \in 1..Len(n) PROVE p[3 + i] = n[i]
    <2>1. PICK j \in 1..3 + Len(n) : j = 3 + i /\ ~(j <= 3) /\ j - 3 = i
      BY <1>1
    <2> QED
      BY <2>1, <1>6
  <1>8. p[1] = ".oath" /\ p[2] = key /\ p[3] = "node_modules"
    <2>1. 1 \in 1..3 + Len(n) /\ 2 \in 1..3 + Len(n) /\ 3 \in 1..3 + Len(n)
      BY <1>1
    <2> QED
      BY <2>1, <1>3, <1>6
  <1>9. ASSUME key # "..", NEW i \in 1..3 + Len(n) PROVE p[i] # ".."
    <2>1. CASE i \in 1..3
      <3>1. i = 1 \/ i = 2 \/ i = 3
        BY <2>1
      <3> QED
        BY <3>1, <1>8, <1>9
    <2>2. CASE i \notin 1..3
      <3>1. PICK j \in 1..Len(n) : i = 3 + j
        BY <2>2, <1>1
      <3> QED
        BY <3>1, <1>7, <1>1
    <2> QED
      BY <2>1, <2>2
  <1> QED
    BY <1>4, <1>5, <1>6, <1>7, <1>8, <1>9 DEF Paths

LEMMA DirsDiffer ==
  ASSUME NEW key \in STRING, NEW n, IsName(n), NEW other \in STRING, NEW m, IsName(m),
         PackageDir(key, n) = PackageDir(other, m)
  PROVE  key = other /\ n = m
  <1>1. PICK p : p = PackageDir(key, n) /\ p = PackageDir(other, m)
    OBVIOUS
  <1>2. p[2] = key /\ Len(p) = 3 + Len(n) /\ \A i \in 1..Len(n) : p[3 + i] = n[i]
    BY <1>1, DirIs
  <1>3. p[2] = other /\ Len(p) = 3 + Len(m) /\ \A i \in 1..Len(m) : p[3 + i] = m[i]
    BY <1>1, DirIs
  <1>4. /\ n \in Seq(Component) /\ Len(n) \in Nat
        /\ m \in Seq(Component) /\ Len(m) \in Nat
    BY NameIs, Zenon
  <1>5. Len(n) = Len(m)
    BY <1>2, <1>3, <1>4
  <1>6. \A i \in 1..Len(n) : n[i] = m[i]
    BY <1>2, <1>3, <1>5
  <1>7. n = m
    BY <1>4, <1>5, <1>6, SeqEqual
  <1> QED
    BY <1>2, <1>3, <1>7

Inner(key, n, m) == PackageDir(key, n) \o <<"node_modules">> \o m

LEMMA InnerIs ==
  ASSUME NEW key \in STRING, NEW n, IsName(n), NEW m, IsName(m)
  PROVE  /\ Inner(key, n, m) \in Paths /\ Len(Inner(key, n, m)) = 4 + Len(n) + Len(m)
         /\ Inner(key, n, m)[2] = key
  <1>1. PICK d \in Seq(Component) : d = PackageDir(key, n) /\ Len(d) = 3 + Len(n) /\ d[2] = key
    BY DirIs DEF Paths
  <1>2. /\ n \in Seq(Component) /\ Len(n) \in Nat
        /\ m \in Seq(Component) /\ Len(m) \in Nat
    BY NameIs, Zenon
  <1>3. <<"node_modules">> \in Seq(Component) /\ Len(<<"node_modules">>) = 1
    BY DEF Component
  <1>4. PICK e \in Seq(Component) : e = d \o <<"node_modules">> /\ Len(e) = 4 + Len(n) /\ e[2] = key
    <2>1. PICK o \in Seq(Component) : o = <<"node_modules">> /\ Len(o) = 1
      BY <1>3
    <2>2. PICK e : e = d \o o
      OBVIOUS
    <2>3. /\ e \in Seq(Component) /\ Len(e) = Len(d) + Len(o)
          /\ \A i \in 1..Len(d) + Len(o) : e[i] = IF i <= Len(d) THEN d[i] ELSE o[i - Len(d)]
      BY <2>2, ConcatProperties
    <2>4. 2 \in 1..Len(d) + Len(o) /\ 2 <= Len(d)
      BY <1>1, <1>2, <2>1
    <2>5. e[2] = d[2]
      BY <2>3, <2>4
    <2>6. Len(e) = 4 + Len(n)
      BY <2>1, <2>3, <1>1, <1>2
    <2>7. e = d \o <<"node_modules">> /\ e[2] = key
      BY <2>1, <2>2, <2>5, <1>1, Zenon
    <2> QED
      BY <2>3, <2>6, <2>7, Zenon
  <1>5. PICK p : p = e \o m /\ p = Inner(key, n, m)
    BY <1>1, <1>4, Zenon DEF Inner
  <1>6. /\ p \in Seq(Component) /\ Len(p) = Len(e) + Len(m)
        /\ \A i \in 1..Len(e) + Len(m) : p[i] = IF i <= Len(e) THEN e[i] ELSE m[i - Len(e)]
    BY <1>5, <1>2, ConcatProperties
  <1>7. p[2] = key
    <2>1. 2 \in 1..Len(e) + Len(m) /\ 2 <= Len(e)
      BY <1>2, <1>4
    <2> QED
      BY <2>1, <1>4, <1>6
  <1> QED
    BY <1>5, <1>4, <1>6, <1>7 DEF Paths

LEMMA InnersDiffer ==
  ASSUME NEW key \in STRING, NEW n, IsName(n), NEW m, IsName(m), NEW o, IsName(o),
         Inner(key, n, m) = Inner(key, n, o)
  PROVE  m = o
  <1>1. PICK e \in Seq(Component) : e = PackageDir(key, n) \o <<"node_modules">>
    <2>1. PICK d \in Seq(Component) : d = PackageDir(key, n)
      BY DirIs DEF Paths
    <2>2. <<"node_modules">> \in Seq(Component)
      BY DEF Component
    <2>3. d \o <<"node_modules">> \in Seq(Component)
      BY <2>2, ConcatProperties, Zenon
    <2> QED
      BY <2>1, <2>2, <2>3, Zenon
  <1>2. e \o m = e \o o
    BY <1>1, Zenon DEF Inner
  <1>3. m \in Seq(Component) /\ o \in Seq(Component)
    BY NameIs, Zenon
  <1> QED
    BY <1>2, <1>3, ConcatSimplifications, Zenon

LEMMA GraphIs ==
  ASSUME graph \in Graphs
  PROVE  /\ IsFiniteSet(Keys)
         /\ \A k \in Keys :
              /\ k \in STRING /\ k # ".." /\ IsName(As(k)) /\ IsFiniteSet(DOMAIN graph.nodes[k].edges)
              /\ \A n \in DOMAIN graph.nodes[k].edges : graph.nodes[k].edges[n] \in Keys
              /\ Dependencies(k) \subseteq Keys /\ PeersOf(k) \subseteq Keys
              /\ graph.nodes[k].bin \in Seq(STRING)
  BY LinkPlanAssumption DEF Keys, As, Dependencies, PeersOf

LEMMA EdgesFinite ==
  ASSUME graph \in Graphs
  PROVE  IsFiniteSet(GraphEdges)
  <1> DEFINE from(k) == {k} \X DOMAIN graph.nodes[k].edges
             f == [k \in Keys |-> from(k)]
             S == {from(k) : k \in Keys}
  <1>1. IsFiniteSet(Keys) /\ \A k \in Keys : IsFiniteSet(DOMAIN graph.nodes[k].edges)
    BY GraphIs
  <1>2. ASSUME NEW k \in Keys PROVE IsFiniteSet(from(k))
    <2>1. IsFiniteSet({k})
      BY FS_Singleton
    <2> QED
      BY <1>1, <2>1, FS_Product
  <1>3. UNION S = GraphEdges
    BY DEF GraphEdges
  <1> HIDE DEF from
  <1>4. f \in Surjection(Keys, S)
    BY DEF Surjection
  <1>5. IsFiniteSet(S)
    <2> HIDE DEF f, S
    <2> QED
      BY <1>1, <1>4, FS_Surjection
  <1>6. \A s \in S : IsFiniteSet(s)
    BY <1>2
  <1>7. IsFiniteSet(UNION S)
    <2> HIDE DEF S
    <2> QED
      BY <1>5, <1>6, FS_UNION
  <1> QED
    BY <1>3, <1>7, Zenon

LEMMA ReferencesCount ==
  ASSUME graph \in Graphs, NEW key
  PROVE  References(key) \in Nat
  <1> DEFINE E == {e \in GraphEdges : EdgeTo(e) = key}
  <1>1. E \subseteq GraphEdges
    OBVIOUS
  <1>2. References(key) = Cardinality(E) + (IF key \in graph.roots THEN 1 ELSE 0)
    BY DEF References
  <1> HIDE DEF E
  <1>3. IsFiniteSet(E)
    BY <1>1, EdgesFinite, FS_Subset
  <1>4. Cardinality(E) \in Nat
    BY <1>3, FS_CardinalityType
  <1> QED
    BY <1>2, <1>4

\* build_plan hoists, for every install name, a package that goes by it.
LEMMA HoistedIs ==
  ASSUME graph \in Graphs, NEW key \in Keys
  PROVE  Hoisted(As(key)) \in Keys /\ As(Hoisted(As(key))) = As(key)
  <1> DEFINE same == {k \in Keys : As(k) = As(key)}
             most == {k \in same : \A o \in same : References(o) <= References(k)}
             counts == {References(k) : k \in same}
             f == [k \in same |-> References(k)]
  <1>1. Hoisted(As(key)) = CHOOSE k \in most : TRUE
    BY DEF Hoisted
  <1>2. key \in same /\ same \subseteq Keys
    OBVIOUS
  <1> HIDE DEF same
  <1>3. IsFiniteSet(same)
    BY <1>2, GraphIs, FS_Subset
  <1>4. counts \in SUBSET Nat /\ References(key) \in counts
    BY <1>2, ReferencesCount
  <1>5. f \in Surjection(same, counts)
    BY DEF Surjection
  <1>6. IsFiniteSet(counts)
    <2> HIDE DEF f, counts
    <2> QED
      BY <1>3, <1>5, FS_Surjection
  <1>7. PICK m \in counts : \A n \in counts : n <= m
    <2> HIDE DEF counts
    <2> QED
      BY <1>4, <1>6, GreatestNumber
  <1>8. PICK k \in same : m = References(k)
    OBVIOUS
  <1>9. k \in most
    BY <1>7, <1>8
  <1>10. Hoisted(As(key)) \in most
    <2> HIDE DEF most
    <2> QED
      BY <1>1, <1>9
  <1>11. Hoisted(As(key)) \in same
    BY <1>10
  <1> QED
    BY <1>11 DEF same

LEMMA NestedIs ==
  ASSUME graph \in Graphs
  PROVE  /\ \A pair \in Nested : /\ pair[1] \in Keys /\ pair[2] \in Keys
                                 /\ pair[2] \in Dependencies(pair[1]) /\ ~IsHoisted(pair[2])
         /\ \A k \in Keys : \A d \in Dependencies(k) : ~IsHoisted(d) => <<k, d>> \in Nested
  <1>1. \A e \in GraphEdges : e[1] \in Keys /\ e[2] \in DOMAIN graph.nodes[e[1]].edges
    BY DEF GraphEdges
  <1>2. \A e \in GraphEdges : EdgeTo(e) \in Dependencies(e[1])
    BY <1>1 DEF Dependencies, EdgeTo
  <1>3. \A k \in Keys : Dependencies(k) \subseteq Keys
    BY GraphIs
  <1>4. ASSUME NEW pair \in Nested
        PROVE  /\ pair[1] \in Keys /\ pair[2] \in Keys
               /\ pair[2] \in Dependencies(pair[1]) /\ ~IsHoisted(pair[2])
    <2>1. PICK e \in GraphEdges : ~IsHoisted(EdgeTo(e)) /\ pair = <<e[1], EdgeTo(e)>>
      BY DEF Nested
    <2>2. pair[1] = e[1] /\ pair[2] = EdgeTo(e)
      BY <2>1
    <2> QED
      BY <1>1, <1>2, <1>3, <2>1, <2>2
  <1>5. ASSUME NEW k \in Keys, NEW d \in Dependencies(k), ~IsHoisted(d) PROVE <<k, d>> \in Nested
    <2>1. PICK n \in DOMAIN graph.nodes[k].edges : d = graph.nodes[k].edges[n]
      BY DEF Dependencies
    <2>2. PICK e : e = <<k, n>>
      OBVIOUS
    <2>3. e[1] = k /\ e[2] = n
      BY <2>2
    <2>4. e \in GraphEdges
      BY <2>1, <2>2 DEF GraphEdges
    <2>5. EdgeTo(e) = d
      BY <2>1, <2>3 DEF EdgeTo
    <2> QED
      BY <2>3, <2>4, <2>5, <1>5 DEF Nested
  <1> QED
    BY <1>4, <1>5

\* What a graph that stays as it is keeps.
LEMMA PlanFixed ==
  ASSUME graph' = graph
  PROVE  /\ Keys' = Keys /\ Nested' = Nested
         /\ \A k : As(k)' = As(k) /\ Dependencies(k)' = Dependencies(k) /\ PeersOf(k)' = PeersOf(k)
         /\ \A n : Hoisted(n)' = Hoisted(n) /\ TopTarget(n)' = TopTarget(n) /\ BinTarget(n)' = BinTarget(n)
         /\ \A pair : NestedAt(pair)' = NestedAt(pair)
  <1>1. Keys' = Keys
    BY DEF Keys
  <1>2. \A k : As(k)' = As(k) /\ Dependencies(k)' = Dependencies(k) /\ PeersOf(k)' = PeersOf(k)
    BY DEF As, Dependencies, PeersOf
  <1>3. GraphEdges' = GraphEdges
    BY <1>1 DEF GraphEdges
  <1>4. \A e : EdgeTo(e)' = EdgeTo(e)
    BY DEF EdgeTo
  <1>5. \A k : References(k)' = References(k)
    BY <1>3, <1>4 DEF References
  <1>6. \A n : Hoisted(n)' = Hoisted(n)
    BY <1>1, <1>2, <1>5 DEF Hoisted
  <1>7. \A k : IsHoisted(k)' <=> IsHoisted(k)
    BY <1>2, <1>6 DEF IsHoisted
  <1>8. Nested' = Nested
    BY <1>3, <1>4, <1>7 DEF Nested
  <1>9. \A pair : NestedAt(pair)' = NestedAt(pair)
    BY <1>2 DEF NestedAt
  <1>10. \A n : TopTarget(n)' = TopTarget(n)
    BY <1>6 DEF TopTarget
  <1>11. \A n : BinTarget(n)' = BinTarget(n)
    BY <1>6 DEF BinTarget
  <1> QED
    BY <1>1, <1>2, <1>6, <1>8, <1>9, <1>10, <1>11

\* A link that is there stays as it is.
LEMMA WithIs ==
  ASSUME NEW more
  PROVE  /\ DOMAIN With(more) = DOMAIN links \cup DOMAIN more
         /\ \A p \in DOMAIN links : With(more)[p] = links[p]
         /\ \A p \in DOMAIN more : p \notin DOMAIN links => With(more)[p] = more[p]
  BY DEF With

BesideAt(key, o, others, target) ==
  \E q \in others \cap inStore :
    As(q) = As(o) /\ target = PathDiff(PackageDir(key, As(o)), PackageDir(q, As(q)))

LEMMA BesideIs ==
  ASSUME graph \in Graphs, inStore \subseteq Keys, NEW key \in Keys, NEW others \in SUBSET Keys
  PROVE  /\ \A p \in DOMAIN Beside(key, others) :
              ~Exists(p) /\ \E o \in others \cap inStore : p = PackageDir(key, As(o))
         /\ \A o \in others \cap inStore : ~Exists(PackageDir(key, As(o))) =>
              /\ PackageDir(key, As(o)) \in DOMAIN Beside(key, others)
              /\ BesideAt(key, o, others, Beside(key, others)[PackageDir(key, As(o))])
  <1> DEFINE D == {PackageDir(key, As(o)) : o \in {k \in others : k \in inStore /\ Free(PackageDir(key, As(k)))}}
             of(p) == CHOOSE k \in others \cap inStore : PackageDir(key, As(k)) = p
  <1>1. Beside(key, others) = [p \in D |-> PathDiff(p, PackageDir(of(p), As(of(p))))]
    BY DEF Beside
  <1>2. \A p \in D : ~Exists(p) /\ \E o \in others \cap inStore : p = PackageDir(key, As(o))
    BY DEF Free
  <1>3. \A o \in others \cap inStore : ~Exists(PackageDir(key, As(o))) => PackageDir(key, As(o)) \in D
    BY DEF Free
  <1> HIDE DEF D
  <1>4. ASSUME NEW o \in others \cap inStore, ~Exists(PackageDir(key, As(o)))
        PROVE  BesideAt(key, o, others, Beside(key, others)[PackageDir(key, As(o))])
    <2> DEFINE p == PackageDir(key, As(o))
    <2>1. of(p) \in others \cap inStore /\ PackageDir(key, As(of(p))) = p
      OBVIOUS
    <2>2. Beside(key, others)[p] = PathDiff(p, PackageDir(of(p), As(of(p))))
      BY <1>1, <1>3, <1>4
    <2>3. PICK q \in others \cap inStore : q = of(p) /\ PackageDir(key, As(q)) = p
      BY <2>1
    <2>4. key \in STRING /\ IsName(As(q)) /\ IsName(As(o))
      BY GraphIs
    <2>5. As(q) = As(o)
      BY <2>3, <2>4, DirsDiffer
    <2> QED
      BY <2>2, <2>3, <2>5 DEF BesideAt
  <1> QED
    BY <1>1, <1>2, <1>3, <1>4

LEMMA AllBesideIs ==
  ASSUME graph \in Graphs, inStore \subseteq Keys, NEW others \in [Keys -> SUBSET Keys]
  PROVE  /\ \A p \in DOMAIN AllBeside(others) :
              ~Exists(p) /\ \E k \in Keys : \E o \in others[k] \cap inStore : p = PackageDir(k, As(o))
         /\ \A k \in Keys : \A o \in others[k] \cap inStore : ~Exists(PackageDir(k, As(o))) =>
              /\ PackageDir(k, As(o)) \in DOMAIN AllBeside(others)
              /\ BesideAt(k, o, others[k], AllBeside(others)[PackageDir(k, As(o))])
  <1> DEFINE parts == {Beside(k, others[k]) : k \in Keys}
             D == UNION {DOMAIN f : f \in parts}
             of(p) == CHOOSE g \in parts : p \in DOMAIN g
  <1>1. AllBeside(others) = [p \in D |-> of(p)[p]]
    BY DEF AllBeside
  <1>2. \A k \in Keys : Beside(k, others[k]) \in parts
    OBVIOUS
  <1>3. \A g \in parts : \E k \in Keys : g = Beside(k, others[k])
    OBVIOUS
  <1> HIDE DEF parts
  <1>4. \A k \in Keys : others[k] \in SUBSET Keys
    OBVIOUS
  <1>5. \A k \in Keys : \A p \in DOMAIN Beside(k, others[k]) : p \in D
    BY <1>2
  <1>6. \A p \in D : \E k \in Keys : p \in DOMAIN Beside(k, others[k])
    BY <1>3
  <1>7. \A p \in D : of(p) \in parts /\ p \in DOMAIN of(p)
    OBVIOUS
  <1> HIDE DEF D
  <1>8. \A p \in D : ~Exists(p) /\ \E k \in Keys : \E o \in others[k] \cap inStore : p = PackageDir(k, As(o))
    BY <1>4, <1>6, BesideIs
  <1>9. ASSUME NEW k \in Keys, NEW o \in others[k] \cap inStore, ~Exists(PackageDir(k, As(o)))
        PROVE  /\ PackageDir(k, As(o)) \in DOMAIN AllBeside(others)
               /\ BesideAt(k, o, others[k], AllBeside(others)[PackageDir(k, As(o))])
    <2> DEFINE p == PackageDir(k, As(o))
    <2>1. p \in DOMAIN Beside(k, others[k]) /\ BesideAt(k, o, others[k], Beside(k, others[k])[p])
      BY <1>4, <1>9, BesideIs
    <2>2. p \in D
      BY <2>1, <1>5
    <2>3. PICK j \in Keys : of(p) = Beside(j, others[j]) /\ p \in DOMAIN Beside(j, others[j])
      BY <2>2, <1>3, <1>7
    <2>4. PICK m \in others[j] \cap inStore : p = PackageDir(j, As(m))
      BY <2>3, <1>4, BesideIs
    <2>5. j \in STRING /\ k \in STRING /\ IsName(As(m)) /\ IsName(As(o))
      BY <1>4, GraphIs
    <2>6. j = k
      BY <2>4, <2>5, DirsDiffer
    <2>7. AllBeside(others)[p] = Beside(k, others[k])[p] /\ p \in DOMAIN AllBeside(others)
      <3> HIDE DEF of, p
      <3> QED
        BY <1>1, <2>2, <2>3, <2>6
    <2> QED
      BY <2>1, <2>7
  <1> QED
    BY <1>1, <1>8, <1>9

\* What the phases of link_all leave behind, and what each has not yet touched.
BinPath(p) == Len(p) = 2 /\ p[1] = ".bin"

TopMade == \A k \in Keys : As(k) \in DOMAIN links /\ links[As(k)] = TopTarget(As(k))

NestedMade ==
  \A pair \in Nested : pair[1] \in inStore /\ pair[2] \in inStore =>
    /\ NestedAt(pair) \in DOMAIN links
    /\ \E q \in Nested : NestedAt(q) = NestedAt(pair)
                         /\ links[NestedAt(pair)] = PathDiff(NestedAt(pair), PackageDir(q[2], As(q[2])))

SiblingsMade ==
  \A k \in Keys : \A o \in Dependencies(k) \cap inStore : As(o) # As(k) =>
    /\ PackageDir(k, As(o)) \in DOMAIN links
    /\ BesideAt(k, o, Dependencies(k), links[PackageDir(k, As(o))])

PeersMade ==
  \A k \in Keys : \A o \in PeersOf(k) \cap inStore : (\A d \in Dependencies(k) \cup {k} : As(d) # As(o)) =>
    /\ PackageDir(k, As(o)) \in DOMAIN links
    /\ BesideAt(k, o, PeersOf(k), links[PackageDir(k, As(o))])

BinsMade ==
  \A p \in DOMAIN links : BinPath(p) =>
    \E k \in Keys : LET best == Hoisted(As(k))
                    IN  best \in inStore /\ SafePath(graph.nodes[best].bin) /\ links[p] = BinTarget(As(k))

LongLinks == \A p \in DOMAIN links : Len(p) > 5 => \E pair \in Nested : p = NestedAt(pair)

SiblingLinks ==
  \A p \in DOMAIN links : Len(p) \in 4..5 => \E k \in Keys : \E o \in Dependencies(k) : p = PackageDir(k, As(o))

PlanInv ==
  /\ graph \in Graphs /\ LinkPlanTypeOK /\ LongLinks
  /\ lpAt \in {"packages", "top", "nested", "siblings", "peers", "bins", "linked"}
  /\ lpAt \in {"packages", "top"} => DOMAIN links = {}
  /\ lpAt = "nested" => \A p \in DOMAIN links : Len(p) \in 1..2
  /\ lpAt = "siblings" => \A p \in DOMAIN links : Len(p) \notin 4..5
  /\ lpAt = "peers" => SiblingLinks
  /\ lpAt # "linked" => \A p \in DOMAIN links : ~BinPath(p)
  /\ lpAt \in {"nested", "siblings", "peers", "bins", "linked"} => TopMade
  /\ lpAt \in {"siblings", "peers", "bins", "linked"} => NestedMade
  /\ lpAt \in {"peers", "bins", "linked"} => SiblingsMade
  /\ lpAt \in {"bins", "linked"} => PeersMade
  /\ lpAt = "linked" => BinsMade

LEMMA DirLength ==
  ASSUME NEW key \in STRING, NEW n, IsName(n)
  PROVE  Len(PackageDir(key, n)) \in 4..5 /\ Len(PackageDir(key, n)) # 2
  <1>1. Len(n) \in 1..2
    BY NameIs
  <1>2. PICK p : p = PackageDir(key, n)
    OBVIOUS
  <1>3. Len(p) = 3 + Len(n)
    BY <1>2, DirIs
  <1>4. Len(p) \in 4..5 /\ Len(p) # 2
    <2>1. PICK a \in 1..2 : a = Len(n)
      BY <1>1
    <2>2. 3 + a \in 4..5 /\ 3 + a # 2
      OBVIOUS
    <2> QED
      BY <1>3, <2>1, <2>2, Zenon
  <1> QED
    BY <1>2, <1>4

LEMMA InnerLength ==
  ASSUME NEW key \in STRING, NEW n, IsName(n), NEW m, IsName(m)
  PROVE  Len(Inner(key, n, m)) > 5 /\ Len(Inner(key, n, m)) \in Nat
  <1>1. Len(n) \in 1..2 /\ Len(m) \in 1..2
    BY NameIs
  <1>2. PICK p : p = Inner(key, n, m)
    OBVIOUS
  <1>3. Len(p) = 4 + Len(n) + Len(m)
    BY <1>2, InnerIs
  <1>4. Len(p) > 5 /\ Len(p) \in Nat
    BY <1>1, <1>3
  <1> QED
    BY <1>2, <1>4

\* Paths of the plan by their length.
LEMMA PathLengths ==
  ASSUME graph \in Graphs
  PROVE  /\ \A k \in Keys : Len(As(k)) \in 1..2 /\ ~BinPath(As(k))
         /\ \A k, o \in Keys : Len(PackageDir(k, As(o))) \in 4..5 /\ ~BinPath(PackageDir(k, As(o)))
         /\ \A pair \in Nested : Len(NestedAt(pair)) > 5 /\ Len(NestedAt(pair)) \in Nat /\ ~BinPath(NestedAt(pair))
  <1>1. \A k \in Keys : k \in STRING /\ IsName(As(k))
    BY GraphIs
  <1>2. ASSUME NEW k \in Keys PROVE Len(As(k)) \in 1..2 /\ ~BinPath(As(k))
    <2>1. (Len(As(k)) = 1 \/ Len(As(k)) = 2) /\ (Len(As(k)) = 2 => As(k)[1] # ".bin")
      BY <1>1, NameIs, Zenon
    <2> QED
      BY <2>1 DEF BinPath
  <1>3. ASSUME NEW k \in Keys, NEW o \in Keys
        PROVE  Len(PackageDir(k, As(o))) \in 4..5 /\ ~BinPath(PackageDir(k, As(o)))
    <2>1. k \in STRING /\ IsName(As(o))
      BY <1>1
    <2>2. Len(PackageDir(k, As(o))) \in 4..5 /\ Len(PackageDir(k, As(o))) # 2
      BY <2>1, DirLength, Zenon
    <2> QED
      BY <2>2, Zenon DEF BinPath
  <1>4. ASSUME NEW pair \in Nested
        PROVE  Len(NestedAt(pair)) > 5 /\ Len(NestedAt(pair)) \in Nat /\ ~BinPath(NestedAt(pair))
    <2>1. pair[1] \in Keys /\ pair[2] \in Keys
      BY NestedIs
    <2>2. NestedAt(pair) = Inner(pair[1], As(pair[1]), As(pair[2]))
      BY DEF NestedAt, Inner
    <2>3. pair[1] \in STRING /\ IsName(As(pair[1])) /\ IsName(As(pair[2]))
      BY <1>1, <2>1
    <2>4. Len(NestedAt(pair)) > 5 /\ Len(NestedAt(pair)) \in Nat
      BY <2>2, <2>3, InnerLength, Zenon
    <2>5. Len(NestedAt(pair)) # 2
      <3>1. \A n \in Nat : n > 5 => n # 2
        OBVIOUS
      <3> QED
        BY <2>4, <3>1, Zenon
    <2> QED
      BY <2>4, <2>5, Zenon DEF BinPath
  <1> QED
    BY <1>2, <1>3, <1>4

LEMMA NestedDiffer ==
  ASSUME graph \in Graphs, NEW pair \in Nested, NEW key \in Keys, NEW d \in Keys,
         NestedAt(pair) = Inner(key, As(key), As(d))
  PROVE  pair[1] = key /\ As(pair[2]) = As(d)
  <1>1. pair[1] \in Keys /\ pair[2] \in Keys
    BY NestedIs
  <1>2. \A k \in Keys : k \in STRING /\ IsName(As(k))
    BY GraphIs
  <1>3. Inner(pair[1], As(pair[1]), As(pair[2])) = Inner(key, As(key), As(d))
    BY DEF NestedAt, Inner
  <1>4. /\ Inner(pair[1], As(pair[1]), As(pair[2]))[2] = pair[1]
        /\ Inner(key, As(key), As(d))[2] = key
    BY <1>1, <1>2, InnerIs
  <1>5. pair[1] = key
    BY <1>3, <1>4
  <1>6. As(pair[2]) = As(d)
    BY <1>1, <1>2, <1>3, <1>5, InnersDiffer
  <1> QED
    BY <1>5, <1>6

\* Later phases leave what earlier ones made.
LEMMA MadeKept ==
  ASSUME graph' = graph, inStore' = inStore,
         \A p \in DOMAIN links : p \in DOMAIN links' /\ links'[p] = links[p]
  PROVE  /\ TopMade => TopMade'
         /\ NestedMade => NestedMade'
         /\ SiblingsMade => SiblingsMade'
         /\ PeersMade => PeersMade'
  <1>1. /\ Keys' = Keys /\ Nested' = Nested
        /\ \A k : As(k)' = As(k) /\ Dependencies(k)' = Dependencies(k) /\ PeersOf(k)' = PeersOf(k)
        /\ \A n : TopTarget(n)' = TopTarget(n)
        /\ \A pair : NestedAt(pair)' = NestedAt(pair)
    BY PlanFixed
  <1>2. TopMade => TopMade'
    BY <1>1 DEF TopMade
  <1>3. NestedMade => NestedMade'
    BY <1>1 DEF NestedMade
  <1>4. SiblingsMade => SiblingsMade'
    BY <1>1 DEF SiblingsMade, BesideAt
  <1>5. PeersMade => PeersMade'
    BY <1>1 DEF PeersMade, BesideAt
  <1> QED
    BY <1>2, <1>3, <1>4, <1>5

LEMMA Sizes ==
  /\ \A n \in 1..2 : n \in Nat /\ ~(n > 5) /\ n \notin 4..5
  /\ \A n \in 4..5 : n \in Nat /\ ~(n > 5) /\ n \notin 1..2
  /\ \A n \in Nat : n > 5 => n \notin 4..5 /\ n \notin 1..2
  OBVIOUS

\* A phase that adds links outside the package directories.
LEMMA PhaseAdds ==
  ASSUME PlanInv, UNCHANGED <<graph, inStore, dirs>>, NEW more, links' = With(more),
         \A p \in DOMAIN more : p \notin DOMAIN dirs
  PROVE  /\ graph' \in Graphs /\ LinkPlanTypeOK'
         /\ DOMAIN links' = DOMAIN links \cup DOMAIN more
         /\ \A p \in DOMAIN links : links'[p] = links[p]
         /\ \A p \in DOMAIN more : p \notin DOMAIN links => links'[p] = more[p]
         /\ TopMade => TopMade'
         /\ NestedMade => NestedMade'
         /\ SiblingsMade => SiblingsMade'
         /\ PeersMade => PeersMade'
  <1>1. /\ DOMAIN links' = DOMAIN links \cup DOMAIN more
        /\ \A p \in DOMAIN links : links'[p] = links[p]
        /\ \A p \in DOMAIN more : p \notin DOMAIN links => links'[p] = more[p]
    BY WithIs
  <1>2. Keys' = Keys /\ \A k : As(k)' = As(k)
    BY PlanFixed
  <1>3. LinkPlanTypeOK'
    BY <1>1, <1>2 DEF PlanInv, LinkPlanTypeOK
  <1>4. /\ TopMade => TopMade'
        /\ NestedMade => NestedMade'
        /\ SiblingsMade => SiblingsMade'
        /\ PeersMade => PeersMade'
    BY <1>1, MadeKept
  <1> QED
    BY <1>1, <1>3, <1>4 DEF PlanInv

LEMMA DirLengths ==
  ASSUME PlanInv
  PROVE  \A p \in DOMAIN dirs : Len(p) \in 4..5
  <1>1. graph \in Graphs /\ \A p \in DOMAIN dirs : dirs[p] \in Keys /\ p = PackageDir(dirs[p], As(dirs[p]))
    BY DEF PlanInv, LinkPlanTypeOK
  <1> QED
    BY <1>1, PathLengths

LEMMA PlanStarts ==
  ASSUME LinkPlanInit
  PROVE  PlanInv
  BY DEF LinkPlanInit, LinkPlanStart, PlanInv, LinkPlanTypeOK, LongLinks

LEMMA PackagesStep ==
  ASSUME PlanInv, LinkPackages
  PROVE  PlanInv'
  <1>1. graph' = graph /\ inStore' = inStore /\ links' = links /\ lpAt = "packages" /\ lpAt' = "top"
    BY DEF LinkPackages
  <1>2. Keys' = Keys /\ \A k : As(k)' = As(k)
    BY <1>1, PlanFixed
  <1>3. DOMAIN links = {}
    BY <1>1 DEF PlanInv
  <1>4. \A p \in DOMAIN dirs' : dirs'[p] \in inStore /\ p = PackageDir(dirs'[p], As(dirs'[p]))
    BY DEF LinkPackages
  <1>5. LinkPlanTypeOK'
    BY <1>1, <1>2, <1>3, <1>4 DEF PlanInv, LinkPlanTypeOK
  <1> QED
    BY <1>1, <1>3, <1>5 DEF PlanInv, LongLinks

LEMMA TopStep ==
  ASSUME PlanInv, LinkTop
  PROVE  PlanInv'
  <1> DEFINE more == [p \in {As(k) : k \in Keys} |-> TopTarget(p)]
  <1>1. /\ UNCHANGED <<graph, inStore, dirs>> /\ links' = With(more)
        /\ lpAt = "top" /\ lpAt' = "nested"
    BY DEF LinkTop
  <1>2. DOMAIN links = {} /\ graph \in Graphs
    BY <1>1 DEF PlanInv
  <1>3. DOMAIN more = {As(k) : k \in Keys} /\ \A k \in Keys : more[As(k)] = TopTarget(As(k))
    OBVIOUS
  <1> HIDE DEF more
  <1>4. \A p \in DOMAIN more : Len(p) \in 1..2 /\ ~BinPath(p)
    BY <1>2, <1>3, PathLengths
  <1>5. \A p \in DOMAIN more : p \notin DOMAIN dirs
    BY <1>4, DirLengths
  <1>6. /\ graph' \in Graphs /\ LinkPlanTypeOK' /\ DOMAIN links' = DOMAIN more
        /\ \A p \in DOMAIN more : links'[p] = more[p]
    BY <1>1, <1>2, <1>5, PhaseAdds
  <1>7. Keys' = Keys /\ \A k : As(k)' = As(k) /\ TopTarget(k)' = TopTarget(k)
    BY <1>1, PlanFixed
  <1>8. TopMade'
    BY <1>3, <1>6, <1>7 DEF TopMade
  <1>9. \A p \in DOMAIN links' : Len(p) \in 1..2 /\ ~BinPath(p) /\ ~(Len(p) > 5)
    BY <1>4, <1>6, Sizes, Zenon
  <1>10. LongLinks'
    BY <1>9 DEF LongLinks
  <1> QED
    BY <1>1, <1>6, <1>8, <1>9, <1>10 DEF PlanInv

LEMMA NestedStep ==
  ASSUME PlanInv, LinkNested
  PROVE  PlanInv'
  <1> DEFINE todo == {pair \in Nested : pair[1] \in inStore /\ pair[2] \in inStore}
             of(p) == CHOOSE q \in todo : NestedAt(q) = p
             more == [p \in {NestedAt(pair) : pair \in todo} |-> PathDiff(p, PackageDir(of(p)[2], As(of(p)[2])))]
  <1>1. /\ UNCHANGED <<graph, inStore, dirs>> /\ links' = With(more)
        /\ lpAt = "nested" /\ lpAt' = "siblings"
    BY DEF LinkNested
  <1>2. /\ graph \in Graphs /\ TopMade
        /\ \A p \in DOMAIN links : Len(p) \in 1..2 /\ ~BinPath(p)
    BY <1>1 DEF PlanInv
  <1>3. DOMAIN more = {NestedAt(pair) : pair \in todo}
    OBVIOUS
  <1>4. ASSUME NEW pair \in todo
        PROVE  \E q \in todo : NestedAt(q) = NestedAt(pair)
                 /\ more[NestedAt(pair)] = PathDiff(NestedAt(pair), PackageDir(q[2], As(q[2])))
    <2>1. PICK p : p = NestedAt(pair) /\ p \in DOMAIN more
      OBVIOUS
    <2>2. of(p) \in todo /\ NestedAt(of(p)) = p
      BY <2>1
    <2>3. more[p] = PathDiff(p, PackageDir(of(p)[2], As(of(p)[2])))
      BY <2>1
    <2> HIDE DEF of, todo, more
    <2> QED
      BY <2>1, <2>2, <2>3
  <1>5. \A pair \in todo : pair \in Nested /\ pair[1] \in inStore /\ pair[2] \in inStore
    OBVIOUS
  <1>6. \A pair \in Nested : pair[1] \in inStore /\ pair[2] \in inStore => pair \in todo
    OBVIOUS
  <1> HIDE DEF more, todo, of
  <1>7. \A p \in DOMAIN more : Len(p) > 5 /\ Len(p) \in Nat /\ ~BinPath(p) /\ \E pair \in Nested : p = NestedAt(pair)
    BY <1>2, <1>3, <1>5, PathLengths
  <1>8. \A p \in DOMAIN more : p \notin DOMAIN dirs
    BY <1>7, DirLengths, Sizes, Zenon
  <1>9. \A p \in DOMAIN more : p \notin DOMAIN links
    BY <1>7, <1>2, Sizes, Zenon
  <1>10. /\ graph' \in Graphs /\ LinkPlanTypeOK' /\ DOMAIN links' = DOMAIN links \cup DOMAIN more
         /\ \A p \in DOMAIN more : links'[p] = more[p]
         /\ TopMade'
    BY <1>1, <1>2, <1>8, <1>9, PhaseAdds
  <1>11. /\ Keys' = Keys /\ Nested' = Nested /\ \A k : As(k)' = As(k)
         /\ \A pair : NestedAt(pair)' = NestedAt(pair)
    BY <1>1, PlanFixed
  <1>12. NestedMade'
    <2> SUFFICES ASSUME NEW pair \in Nested, pair[1] \in inStore, pair[2] \in inStore
                 PROVE  /\ NestedAt(pair) \in DOMAIN links'
                        /\ \E q \in Nested : NestedAt(q) = NestedAt(pair)
                             /\ links'[NestedAt(pair)] = PathDiff(NestedAt(pair), PackageDir(q[2], As(q[2])))
      BY <1>1, <1>11 DEF NestedMade
    <2>1. pair \in todo /\ NestedAt(pair) \in DOMAIN more
      BY <1>3, <1>6
    <2> QED
      BY <2>1, <1>4, <1>5, <1>10
  <1>13. LongLinks'
    <2>1. \A p \in DOMAIN links : ~(Len(p) > 5)
      BY <1>2, Sizes, Zenon
    <2> QED
      BY <2>1, <1>7, <1>10, <1>11 DEF LongLinks
  <1>14. \A p \in DOMAIN links' : Len(p) \notin 4..5 /\ ~BinPath(p)
    BY <1>2, <1>7, <1>10, Sizes, Zenon
  <1> QED
    BY <1>1, <1>10, <1>12, <1>13, <1>14 DEF PlanInv

LEMMA SiblingsStep ==
  ASSUME PlanInv, LinkSiblings
  PROVE  PlanInv'
  <1> DEFINE others == [k \in Keys |-> Dependencies(k)]
             more == AllBeside(others)
  <1>1. /\ UNCHANGED <<graph, inStore, dirs>> /\ links' = With(more)
        /\ lpAt = "siblings" /\ lpAt' = "peers"
    BY DEF LinkSiblings
  <1>2. /\ graph \in Graphs /\ inStore \subseteq Keys /\ TopMade /\ NestedMade /\ LongLinks
        /\ \A p \in DOMAIN dirs : dirs[p] \in Keys /\ p = PackageDir(dirs[p], As(dirs[p]))
        /\ \A p \in DOMAIN links : Len(p) \notin 4..5 /\ ~BinPath(p)
    BY <1>1 DEF PlanInv, LinkPlanTypeOK
  <1>3. \A k \in Keys : k \in STRING /\ IsName(As(k)) /\ Dependencies(k) \subseteq Keys
    BY <1>2, GraphIs
  <1>4. others \in [Keys -> SUBSET Keys] /\ \A k \in Keys : others[k] = Dependencies(k)
    BY <1>3
  <1> HIDE DEF others
  <1>5. /\ \A p \in DOMAIN more :
             ~Exists(p) /\ \E k \in Keys : \E o \in Dependencies(k) \cap inStore : p = PackageDir(k, As(o))
        /\ \A k \in Keys : \A o \in Dependencies(k) \cap inStore : ~Exists(PackageDir(k, As(o))) =>
             /\ PackageDir(k, As(o)) \in DOMAIN more
             /\ BesideAt(k, o, Dependencies(k), more[PackageDir(k, As(o))])
    BY <1>2, <1>4, AllBesideIs
  <1> HIDE DEF more
  <1>6. \A p \in DOMAIN more : p \notin DOMAIN dirs /\ p \notin DOMAIN links
    BY <1>5 DEF Exists
  <1>7. \A p \in DOMAIN more : Len(p) \in 4..5 /\ ~BinPath(p)
    BY <1>2, <1>3, <1>5, PathLengths
  <1>8. /\ graph' \in Graphs /\ LinkPlanTypeOK' /\ DOMAIN links' = DOMAIN links \cup DOMAIN more
        /\ \A p \in DOMAIN more : links'[p] = more[p]
        /\ TopMade' /\ NestedMade'
    BY <1>1, <1>2, <1>6, PhaseAdds
  <1>9. /\ Keys' = Keys /\ Nested' = Nested
        /\ \A k : As(k)' = As(k) /\ Dependencies(k)' = Dependencies(k)
        /\ \A pair : NestedAt(pair)' = NestedAt(pair)
    BY <1>1, PlanFixed
  <1>10. SiblingsMade'
    <2> SUFFICES ASSUME NEW k \in Keys, NEW o \in Dependencies(k) \cap inStore, As(o) # As(k)
                 PROVE  /\ PackageDir(k, As(o)) \in DOMAIN links'
                        /\ BesideAt(k, o, Dependencies(k), links'[PackageDir(k, As(o))])
      BY <1>1, <1>9 DEF SiblingsMade, BesideAt
    <2> DEFINE p == PackageDir(k, As(o))
    <2>1. Len(p) \in 4..5 /\ o \in Keys
      BY <1>2, <1>3, PathLengths
    <2>2. p \notin DOMAIN dirs
      <3> SUFFICES ASSUME p \in DOMAIN dirs PROVE FALSE
        OBVIOUS
      <3>1. PICK j \in Keys : p = PackageDir(j, As(j))
        BY <1>2
      <3>2. j \in STRING /\ k \in STRING /\ IsName(As(j)) /\ IsName(As(o))
        BY <1>3, <2>1
      <3>3. j = k /\ As(j) = As(o)
        BY <3>1, <3>2, DirsDiffer
      <3> QED
        BY <3>3
    <2>3. ~Exists(p)
      BY <2>1, <2>2, <1>2 DEF Exists
    <2> QED
      BY <2>3, <1>5, <1>8
  <1>11. LongLinks'
    <2>1. \A p \in DOMAIN more : ~(Len(p) > 5)
      BY <1>7, Sizes, Zenon
    <2> QED
      BY <2>1, <1>2, <1>8, <1>9 DEF LongLinks
  <1>12. SiblingLinks'
    BY <1>2, <1>5, <1>8, <1>9 DEF SiblingLinks
  <1>13. \A p \in DOMAIN links' : ~BinPath(p)
    BY <1>2, <1>7, <1>8
  <1> QED
    BY <1>1, <1>8, <1>10, <1>11, <1>12, <1>13 DEF PlanInv

LEMMA PeersStep ==
  ASSUME PlanInv, LinkPeers
  PROVE  PlanInv'
  <1> DEFINE others == [k \in Keys |-> PeersOf(k)]
             more == AllBeside(others)
  <1>1. /\ UNCHANGED <<graph, inStore, dirs>> /\ links' = With(more)
        /\ lpAt = "peers" /\ lpAt' = "bins"
    BY DEF LinkPeers
  <1>2. /\ graph \in Graphs /\ inStore \subseteq Keys /\ TopMade /\ NestedMade /\ SiblingsMade /\ LongLinks
        /\ \A p \in DOMAIN dirs : dirs[p] \in Keys /\ p = PackageDir(dirs[p], As(dirs[p]))
        /\ SiblingLinks /\ \A p \in DOMAIN links : ~BinPath(p)
    BY <1>1 DEF PlanInv, LinkPlanTypeOK
  <1>3. \A k \in Keys : k \in STRING /\ IsName(As(k)) /\ PeersOf(k) \subseteq Keys /\ Dependencies(k) \subseteq Keys
    BY <1>2, GraphIs
  <1>4. others \in [Keys -> SUBSET Keys] /\ \A k \in Keys : others[k] = PeersOf(k)
    BY <1>3
  <1> HIDE DEF others
  <1>5. /\ \A p \in DOMAIN more :
             ~Exists(p) /\ \E k \in Keys : \E o \in PeersOf(k) \cap inStore : p = PackageDir(k, As(o))
        /\ \A k \in Keys : \A o \in PeersOf(k) \cap inStore : ~Exists(PackageDir(k, As(o))) =>
             /\ PackageDir(k, As(o)) \in DOMAIN more
             /\ BesideAt(k, o, PeersOf(k), more[PackageDir(k, As(o))])
    BY <1>2, <1>4, AllBesideIs
  <1> HIDE DEF more
  <1>6. \A p \in DOMAIN more : p \notin DOMAIN dirs /\ p \notin DOMAIN links
    BY <1>5 DEF Exists
  <1>7. \A p \in DOMAIN more : Len(p) \in 4..5 /\ ~BinPath(p)
    BY <1>2, <1>3, <1>5, PathLengths
  <1>8. /\ graph' \in Graphs /\ LinkPlanTypeOK' /\ DOMAIN links' = DOMAIN links \cup DOMAIN more
        /\ \A p \in DOMAIN more : links'[p] = more[p]
        /\ TopMade' /\ NestedMade' /\ SiblingsMade'
    BY <1>1, <1>2, <1>6, PhaseAdds
  <1>9. /\ Keys' = Keys /\ Nested' = Nested
        /\ \A k : As(k)' = As(k) /\ Dependencies(k)' = Dependencies(k) /\ PeersOf(k)' = PeersOf(k)
        /\ \A pair : NestedAt(pair)' = NestedAt(pair)
    BY <1>1, PlanFixed
  <1>10. PeersMade'
    <2> SUFFICES ASSUME NEW k \in Keys, NEW o \in PeersOf(k) \cap inStore,
                        \A d \in Dependencies(k) \cup {k} : As(d) # As(o)
                 PROVE  /\ PackageDir(k, As(o)) \in DOMAIN links'
                        /\ BesideAt(k, o, PeersOf(k), links'[PackageDir(k, As(o))])
      BY <1>1, <1>9 DEF PeersMade, BesideAt
    <2> DEFINE p == PackageDir(k, As(o))
    <2>1. Len(p) \in 4..5 /\ o \in Keys
      BY <1>2, <1>3, PathLengths
    <2>2. p \notin DOMAIN dirs
      <3> SUFFICES ASSUME p \in DOMAIN dirs PROVE FALSE
        OBVIOUS
      <3>1. PICK j \in Keys : p = PackageDir(j, As(j))
        BY <1>2
      <3>2. j \in STRING /\ k \in STRING /\ IsName(As(j)) /\ IsName(As(o))
        BY <1>3, <2>1
      <3>3. j = k /\ As(j) = As(o)
        BY <3>1, <3>2, DirsDiffer
      <3> QED
        BY <3>3
    <2>3. p \notin DOMAIN links
      <3> SUFFICES ASSUME p \in DOMAIN links PROVE FALSE
        OBVIOUS
      <3>1. PICK j \in Keys : \E d \in Dependencies(j) : p = PackageDir(j, As(d))
        BY <1>2, <2>1 DEF SiblingLinks
      <3>2. PICK d \in Dependencies(j) : p = PackageDir(j, As(d))
        BY <3>1
      <3>3. j \in STRING /\ k \in STRING /\ IsName(As(d)) /\ IsName(As(o))
        BY <1>3, <2>1
      <3>4. j = k /\ As(d) = As(o)
        BY <3>2, <3>3, DirsDiffer
      <3> QED
        BY <3>4
    <2>4. ~Exists(p)
      BY <2>2, <2>3 DEF Exists
    <2> QED
      BY <2>4, <1>5, <1>8
  <1>11. LongLinks'
    <2>1. \A p \in DOMAIN more : ~(Len(p) > 5)
      BY <1>7, Sizes, Zenon
    <2> QED
      BY <2>1, <1>2, <1>8, <1>9 DEF LongLinks
  <1>12. \A p \in DOMAIN links' : ~BinPath(p)
    BY <1>2, <1>7, <1>8
  <1> QED
    BY <1>1, <1>8, <1>10, <1>11, <1>12 DEF PlanInv

LEMMA BinsStep ==
  ASSUME PlanInv, LinkBins
  PROVE  PlanInv'
  <1> DEFINE names == {As(k) : k \in Keys}
             safe == {n \in names : Hoisted(n) \in inStore /\ SafePath(graph.nodes[Hoisted(n)].bin)}
             of(p) == CHOOSE n \in safe : BinAt(n) = p
             more == [p \in {BinAt(n) : n \in safe} |-> BinTarget(of(p))]
  <1>1. /\ UNCHANGED <<graph, inStore, dirs>> /\ links' = With(more)
        /\ lpAt = "bins" /\ lpAt' = "linked"
    BY DEF LinkBins
  <1>2. /\ graph \in Graphs /\ TopMade /\ NestedMade /\ SiblingsMade /\ PeersMade /\ LongLinks
        /\ \A p \in DOMAIN links : ~BinPath(p)
    BY <1>1 DEF PlanInv
  <1>3. \A n \in safe : \E k \in Keys : n = As(k) /\ Hoisted(As(k)) \in inStore
                                        /\ SafePath(graph.nodes[Hoisted(As(k))].bin)
    OBVIOUS
  <1>4. DOMAIN more = {BinAt(n) : n \in safe}
    OBVIOUS
  <1> HIDE DEF safe
  <1>5. \A p \in DOMAIN more : \E n \in safe : more[p] = BinTarget(n)
    OBVIOUS
  <1> HIDE DEF more, of
  <1>6. \A n : Len(BinAt(n)) = 2
    BY DEF BinAt
  <1>7. \A p \in DOMAIN more : Len(p) \in 1..2
    BY <1>4, <1>6
  <1>8. \A p \in DOMAIN more : p \notin DOMAIN dirs
    BY <1>7, DirLengths, Sizes, Zenon
  <1>9. /\ graph' \in Graphs /\ LinkPlanTypeOK' /\ DOMAIN links' = DOMAIN links \cup DOMAIN more
        /\ \A p \in DOMAIN more : p \notin DOMAIN links => links'[p] = more[p]
        /\ TopMade' /\ NestedMade' /\ SiblingsMade' /\ PeersMade'
    BY <1>1, <1>2, <1>8, PhaseAdds
  <1>10. /\ Keys' = Keys /\ Nested' = Nested /\ \A k : As(k)' = As(k)
         /\ \A n : Hoisted(n)' = Hoisted(n) /\ BinTarget(n)' = BinTarget(n)
         /\ \A pair : NestedAt(pair)' = NestedAt(pair)
    BY <1>1, PlanFixed
  <1>11. BinsMade'
    <2> SUFFICES ASSUME NEW p \in DOMAIN links', BinPath(p)
                 PROVE  \E k \in Keys : Hoisted(As(k)) \in inStore /\ SafePath(graph.nodes[Hoisted(As(k))].bin)
                                        /\ links'[p] = BinTarget(As(k))
      BY <1>1, <1>10 DEF BinsMade
    <2>1. p \in DOMAIN more /\ links'[p] = more[p]
      BY <1>2, <1>9
    <2> QED
      BY <2>1, <1>3, <1>5
  <1>12. LongLinks'
    <2>1. \A p \in DOMAIN more : ~(Len(p) > 5)
      BY <1>7, Sizes, Zenon
    <2> QED
      BY <2>1, <1>2, <1>9, <1>10 DEF LongLinks
  <1> QED
    BY <1>1, <1>9, <1>11, <1>12 DEF PlanInv

LEMMA NoneUp ==
  ASSUME NEW from \in Paths, Len(from) = 0, NEW down \in Paths, \A k \in 1..Len(down) : down[k] # ".."
  PROVE  Follow(from, <<>> \o down) = down
  <1>1. down \in Seq(Component) /\ from \in Seq(Component) /\ Len(down) \in Nat
    BY DEF Paths
  <1>2. <<>> \o down = down
    BY <1>1, ConcatEmptySeq
  <1>3. 0 \in 0..Len(from) /\ Len(down) = 0 + Len(down)
    BY <1>1
  <1>4. \A k \in 1..0 : down[k] = ".."
    OBVIOUS
  <1>5. \A k \in 1..Len(down) : down[0 + k] = down[k]
    <2> SUFFICES ASSUME NEW k \in 1..Len(down) PROVE down[0 + k] = down[k]
      OBVIOUS
    <2>1. 0 + k = k
      BY <1>1
    <2> QED
      BY <2>1
  <1>6. Follow(from, down) = SubSeq(from, 1, Len(from) - 0) \o down
    BY <1>3, <1>4, <1>5, FollowIs
  <1>7. SubSeq(from, 1, Len(from) - 0) = <<>>
    <2>1. Len(from) - 0 = 0
      OBVIOUS
    <2>2. SubSeq(from, 1, 0) = <<>>
      BY <1>1, SubSeqEmpty
    <2> QED
      BY <2>1, <2>2, Zenon
  <1> QED
    BY <1>2, <1>6, <1>7, Zenon

LEMMA OneUp ==
  ASSUME NEW from \in Paths, Len(from) = 1, NEW down \in Paths, \A k \in 1..Len(down) : down[k] # ".."
  PROVE  Follow(from, <<"..">> \o down) = down
  <1>1. down \in Seq(Component) /\ from \in Seq(Component) /\ Len(down) \in Nat
    BY DEF Paths
  <1>2. PICK up \in Seq(Component) : up = <<"..">> /\ Len(up) = 1 /\ up[1] = ".."
    <2>1. <<"..">> \in Seq(Component) /\ Len(<<"..">>) = 1 /\ <<"..">>[1] = ".."
      BY DEF Component
    <2> QED
      BY <2>1
  <1>3. PICK rel : rel = up \o down
    OBVIOUS
  <1>4. /\ rel \in Seq(Component) /\ Len(rel) = Len(up) + Len(down)
        /\ \A i \in 1..Len(up) + Len(down) : rel[i] = IF i <= Len(up) THEN up[i] ELSE down[i - Len(up)]
    BY <1>1, <1>3, ConcatProperties, Zenon
  <1>5. 1 \in 0..Len(from) /\ Len(rel) = 1 + Len(down)
    BY <1>1, <1>2, <1>4
  <1>6. ASSUME NEW k \in 1..1 PROVE rel[k] = ".."
    <2>1. k = 1 /\ 1 \in 1..Len(up) + Len(down) /\ 1 <= Len(up)
      BY <1>1, <1>2
    <2> QED
      BY <2>1, <1>2, <1>4
  <1>7. ASSUME NEW k \in 1..Len(down) PROVE rel[1 + k] = down[k]
    <2>1. PICK i \in 1..Len(up) + Len(down) : i = 1 + k /\ ~(i <= Len(up)) /\ i - Len(up) = k
      BY <1>1, <1>2
    <2> QED
      BY <2>1, <1>4
  <1>8. Follow(from, rel) = SubSeq(from, 1, Len(from) - 1) \o down
    <2>1. rel \in Paths
      BY <1>4 DEF Paths
    <2> QED
      BY <2>1, <1>5, <1>6, <1>7, FollowIs
  <1>9. SubSeq(from, 1, Len(from) - 1) = <<>>
    <2>1. Len(from) - 1 = 0
      OBVIOUS
    <2>2. SubSeq(from, 1, 0) = <<>>
      BY <1>1, SubSeqEmpty
    <2> QED
      BY <2>1, <2>2, Zenon
  <1>10. <<>> \o down = down
    BY <1>1, ConcatEmptySeq
  <1> QED
    BY <1>2, <1>3, <1>8, <1>9, <1>10, Zenon

\* Phase 2: from the top level, scoped or not, down to the package directory.
LEMMA TopFollows ==
  ASSUME NEW key \in STRING, key # "..", NEW n, IsName(n), Hoisted(n) = key
  PROVE  Follow(Parent(n), TopTarget(n)) = PackageDir(key, n)
  <1>1. PICK d \in Paths : d = PackageDir(key, n) /\ \A i \in 1..Len(d) : d[i] # ".."
    BY DirIs
  <1>2. n \in Seq(Component) /\ (Len(n) = 1 \/ Len(n) = 2)
    BY NameIs, Zenon
  <1>3. TopTarget(n) = (IF Len(n) = 2 THEN <<"..">> ELSE <<>>) \o d
    BY <1>1 DEF TopTarget
  <1>4. CASE Len(n) = 1
    <2>1. TopTarget(n) = <<>> \o d
      BY <1>3, <1>4
    <2>2. Parent(n) \in Paths /\ Len(Parent(n)) = 0
      <3>1. Len(n) - 1 = 0
        BY <1>4
      <3>2. SubSeq(n, 1, 0) = <<>> /\ <<>> \in Seq(Component) /\ Len(<<>>) = 0
        BY <1>2, SubSeqEmpty
      <3> QED
        BY <3>1, <3>2, Zenon DEF Parent, Paths
    <2> QED
      BY <1>1, <2>1, <2>2, NoneUp, Zenon
  <1>5. CASE Len(n) = 2
    <2>1. TopTarget(n) = <<"..">> \o d
      BY <1>3, <1>5
    <2>2. Parent(n) \in Paths /\ Len(Parent(n)) = 1
      <3>1. Len(n) - 1 = 1
        BY <1>5
      <3>2. SubSeq(n, 1, 1) \in Seq(Component) /\ Len(SubSeq(n, 1, 1)) = 1
        BY <1>2, <1>5
      <3> QED
        BY <3>1, <3>2, Zenon DEF Parent, Paths
    <2> QED
      BY <1>1, <2>1, <2>2, OneUp, Zenon
  <1> QED
    BY <1>2, <1>4, <1>5

\* Phase 5: a .bin link leads below the package's own top-level link.
LEMMA BinFollows ==
  ASSUME NEW n, IsName(n), graph.nodes[Hoisted(n)].bin \in Seq(STRING),
         SafePath(graph.nodes[Hoisted(n)].bin)
  PROVE  IsStrictPrefix(n, Follow(<<".bin">>, BinTarget(n)))
  <1>1. PICK path \in Paths : path = graph.nodes[Hoisted(n)].bin
    <2>1. STRING \subseteq Component
      BY DEF Component
    <2> QED
      BY <2>1, SeqMonotonic DEF Paths
  <1>2. PICK s \in Seq(Component) :
          /\ s = Plain(path)[Len(path)] /\ s # <<>> /\ \A k \in 1..Len(s) : s[k] # ".."
    BY <1>1, PlainSafe DEF Paths
  <1>3. n \in Seq(Component) /\ Len(n) \in Nat /\ \A k \in 1..Len(n) : n[k] # ".."
    BY NameIs, Zenon
  <1>4. BinTarget(n) = <<"..">> \o (n \o s)
    BY <1>1, <1>2 DEF BinTarget
  <1>5. PICK d : d = n \o s
    OBVIOUS
  <1>6. /\ d \in Seq(Component) /\ Len(d) = Len(n) + Len(s)
        /\ \A i \in 1..Len(n) + Len(s) : d[i] = IF i <= Len(n) THEN n[i] ELSE s[i - Len(n)]
    BY <1>3, <1>5, ConcatProperties, Zenon
  <1>7. ASSUME NEW k \in 1..Len(d) PROVE d[k] # ".."
    <2>1. Len(s) \in Nat /\ k \in 1..Len(n) + Len(s)
      BY <1>6
    <2>2. CASE k <= Len(n)
      <3>1. k \in 1..Len(n) /\ d[k] = n[k]
        BY <2>1, <2>2, <1>3, <1>6
      <3> QED
        BY <3>1, <1>3
    <2>3. CASE ~(k <= Len(n))
      <3>1. PICK j \in 1..Len(s) : j = k - Len(n)
        <4>1. PICK a \in Nat, b \in Nat : a = Len(n) /\ b = Len(s) /\ k \in 1..a + b /\ ~(k <= a)
          BY <2>1, <2>3, <1>3
        <4>2. k - a \in 1..b
          BY <4>1
        <4> QED
          BY <4>1, <4>2
      <3>2. d[k] = s[j]
        BY <3>1, <2>1, <2>3, <1>6
      <3> QED
        BY <3>2, <1>2
    <2> QED
      BY <2>2, <2>3
  <1>8. Follow(<<".bin">>, <<"..">> \o d) = d
    <2>1. PICK from \in Paths : from = <<".bin">> /\ Len(from) = 1
      <3>1. <<".bin">> \in Seq(Component) /\ Len(<<".bin">>) = 1
        BY DEF Component
      <3> QED
        BY <3>1 DEF Paths
    <2>2. d \in Paths
      BY <1>6 DEF Paths
    <2>3. Follow(from, <<"..">> \o d) = d
      BY <2>1, <2>2, <1>7, OneUp
    <2> QED
      BY <2>1, <2>3, Zenon
  <1>9. Len(s) \in Nat /\ Len(s) # 0
    BY <1>2
  <1>10. Len(n) <= Len(d) /\ n # d
    BY <1>3, <1>6, <1>9
  <1>11. SubSeq(n, 1, Len(n)) = SubSeq(d, 1, Len(n))
    <2>1. SubSeq(n, 1, Len(n)) = n
      BY <1>3, SubSeqFull
    <2>2. /\ SubSeq(d, 1, Len(n)) \in Seq(Component) /\ Len(SubSeq(d, 1, Len(n))) = Len(n)
          /\ \A i \in 1..Len(n) : SubSeq(d, 1, Len(n))[i] = d[i]
      BY <1>3, <1>6, <1>10
    <2>3. \A i \in 1..Len(n) : d[i] = n[i]
      BY <1>3, <1>6, <1>9
    <2>4. SubSeq(d, 1, Len(n)) = n
      BY <1>3, <2>2, <2>3, SeqEqual
    <2> QED
      BY <2>1, <2>4
  <1> QED
    BY <1>4, <1>5, <1>8, <1>10, <1>11, Zenon DEF IsStrictPrefix, IsPrefix

\* Node's lookup takes the first place there is something.
LEMMA LookupFirst ==
  ASSUME NEW key, NEW name, NEW p, p = Inner(key, As(key), name),
         p \in DOMAIN links, p \notin DOMAIN dirs
  PROVE  Lookup(key, name) = Follow(Parent(p), links[p])
  <1> DEFINE places == <<p, <<".oath", key, "node_modules">> \o name, name>>
             hits == {k \in 1..3 : Exists(places[k])}
  <1>1. 1 \in hits
    BY DEF Exists
  <1>2. \A k \in hits : 1 <= k /\ (k <= 1 => k = 1) /\ k \in 1..3
    OBVIOUS
  <1>3. places[1] = p
    OBVIOUS
  <1>4. Lookup(key, name) = IF hits = {} THEN <<>>
          ELSE IF places[Min(hits)] \in DOMAIN dirs THEN places[Min(hits)]
               ELSE Follow(Parent(places[Min(hits)]), links[places[Min(hits)]])
    BY DEF Lookup, Inner
  <1> HIDE DEF hits, places
  <1>5. Min(hits) = 1
    BY <1>1, <1>2 DEF Min
  <1> QED
    BY <1>1, <1>3, <1>4, <1>5, Zenon

LEMMA LookupSecond ==
  ASSUME NEW key, NEW name, NEW p, p = PackageDir(key, name),
         p \in DOMAIN links, p \notin DOMAIN dirs, ~Exists(Inner(key, As(key), name))
  PROVE  Lookup(key, name) = Follow(Parent(p), links[p])
  <1> DEFINE places == <<Inner(key, As(key), name), p, name>>
             hits == {k \in 1..3 : Exists(places[k])}
  <1>1. 2 \in hits /\ 1 \notin hits
    BY DEF Exists
  <1>2. \A k \in hits : 2 <= k /\ (k <= 2 => k = 2) /\ k \in 1..3
    <2> SUFFICES ASSUME NEW k \in hits PROVE 2 <= k /\ (k <= 2 => k = 2) /\ k \in 1..3
      OBVIOUS
    <2>1. k \in 1..3 /\ k # 1
      BY <1>1
    <2> QED
      BY <2>1
  <1>3. places[2] = p
    OBVIOUS
  <1>4. Lookup(key, name) = IF hits = {} THEN <<>>
          ELSE IF places[Min(hits)] \in DOMAIN dirs THEN places[Min(hits)]
               ELSE Follow(Parent(places[Min(hits)]), links[places[Min(hits)]])
    BY DEF Lookup, Inner, PackageDir
  <1> HIDE DEF hits, places
  <1>5. Min(hits) = 2
    BY <1>1, <1>2 DEF Min
  <1> QED
    BY <1>1, <1>3, <1>4, <1>5, Zenon

LEMMA DiffFollows ==
  ASSUME graph \in Graphs, NEW p \in Paths, NEW key \in Keys
  PROVE  Follow(Parent(p), PathDiff(p, PackageDir(key, As(key)))) = PackageDir(key, As(key))
  <1>1. key \in STRING /\ key # ".." /\ IsName(As(key))
    BY GraphIs
  <1>2. PICK n : n = As(key)
    OBVIOUS
  <1>3. PICK d \in Paths : d = PackageDir(key, n) /\ \A i \in 1..Len(d) : d[i] # ".."
    BY <1>1, <1>2, DirIs
  <1>4. Follow(Parent(p), PathDiff(p, d)) = d
    BY <1>3, DiffLands
  <1> QED
    BY <1>2, <1>3, <1>4, Zenon

\* Nothing nested goes by a name that no dependency of the package claims.
LEMMA NoneNested ==
  ASSUME PlanInv, NEW key \in Keys, NEW d \in Keys,
         \A o \in Dependencies(key) : As(o) = As(d) => IsHoisted(o)
  PROVE  ~Exists(Inner(key, As(key), As(d)))
  <1> DEFINE p == Inner(key, As(key), As(d))
  <1>1. graph \in Graphs /\ LongLinks
    BY DEF PlanInv
  <1>2. key \in STRING /\ IsName(As(key)) /\ IsName(As(d))
    BY <1>1, GraphIs
  <1>3. Len(p) > 5 /\ Len(p) \in Nat
    BY <1>2, InnerLength, Zenon
  <1>4. p \notin DOMAIN dirs
    BY <1>3, DirLengths, Sizes, Zenon
  <1>5. p \notin DOMAIN links
    <2> SUFFICES ASSUME p \in DOMAIN links PROVE FALSE
      OBVIOUS
    <2>1. PICK pair \in Nested : p = NestedAt(pair)
      BY <1>1, <1>3 DEF LongLinks
    <2>2. pair[1] = key /\ As(pair[2]) = As(d)
      BY <1>1, <2>1, NestedDiffer, Zenon
    <2>3. pair[2] \in Dependencies(key) /\ ~IsHoisted(pair[2])
      BY <1>1, <2>2, NestedIs
    <2> QED
      BY <2>2, <2>3
  <1> QED
    BY <1>4, <1>5 DEF Exists

\* A package beside key, when it is the only one of its name, is found from key.
LEMMA BesideFound ==
  ASSUME PlanInv, NEW key \in Keys, NEW o \in Keys, NEW others \in SUBSET Keys,
         Sole(o, others), As(o) # As(key),
         PackageDir(key, As(o)) \in DOMAIN links,
         BesideAt(key, o, others, links[PackageDir(key, As(o))]),
         ~Exists(Inner(key, As(key), As(o)))
  PROVE  Lookup(key, As(o)) = PackageDir(o, As(o))
  <1>1. graph \in Graphs /\ DOMAIN dirs \cap DOMAIN links = {}
    BY DEF PlanInv, LinkPlanTypeOK
  <1>2. key \in STRING /\ IsName(As(o))
    BY <1>1, GraphIs
  <1>3. PICK p \in Paths : p = PackageDir(key, As(o))
    BY <1>2, DirIs
  <1>4. links[p] = PathDiff(p, PackageDir(o, As(o)))
    BY <1>3 DEF BesideAt, Sole
  <1>5. Lookup(key, As(o)) = Follow(Parent(p), links[p])
    BY <1>1, <1>3, LookupSecond
  <1>6. Follow(Parent(p), PathDiff(p, PackageDir(o, As(o)))) = PackageDir(o, As(o))
    BY <1>1, DiffFollows
  <1> QED
    BY <1>4, <1>5, <1>6

LEMMA EdgesFound ==
  ASSUME PlanInv
  PROVE  EdgesResolve
  <1> SUFFICES ASSUME lpAt = "linked", NEW key \in inStore, NEW d \in Dependencies(key) \cap inStore,
                      Sole(d, Dependencies(key)), ~(As(d) = As(key) /\ IsHoisted(d))
               PROVE  Lookup(key, As(d)) = PackageDir(d, As(d))
    BY DEF EdgesResolve
  <1>1. /\ graph \in Graphs /\ inStore \subseteq Keys /\ NestedMade /\ SiblingsMade
        /\ DOMAIN dirs \cap DOMAIN links = {}
    BY DEF PlanInv, LinkPlanTypeOK
  <1>2. key \in Keys /\ d \in Keys /\ Dependencies(key) \in SUBSET Keys
    BY <1>1, GraphIs
  <1>3. CASE ~IsHoisted(d)
    <2>1. PICK pair \in Nested : pair = <<key, d>> /\ pair[1] = key /\ pair[2] = d
      BY <1>1, <1>2, <1>3, NestedIs
    <2>2. PICK p : p = NestedAt(pair) /\ p = Inner(key, As(key), As(d))
      BY <2>1 DEF NestedAt, Inner
    <2>3. p \in DOMAIN links /\ \E q \in Nested : NestedAt(q) = p /\ links[p] = PathDiff(p, PackageDir(q[2], As(q[2])))
      BY <1>1, <2>1, <2>2 DEF NestedMade
    <2>4. PICK q \in Nested : NestedAt(q) = p /\ links[p] = PathDiff(p, PackageDir(q[2], As(q[2])))
      BY <2>3
    <2>5. q[1] = key /\ As(q[2]) = As(d)
      BY <1>1, <1>2, <2>2, <2>4, NestedDiffer, Zenon
    <2>6. q[2] = d
      BY <1>1, <2>5, NestedIs DEF Sole
    <2>7. key \in STRING /\ IsName(As(key)) /\ IsName(As(d))
      BY <1>1, <1>2, GraphIs
    <2>8. p \in Paths
      BY <2>2, <2>7, InnerIs
    <2>9. Lookup(key, As(d)) = Follow(Parent(p), links[p])
      BY <1>1, <2>2, <2>3, LookupFirst
    <2>10. Follow(Parent(p), PathDiff(p, PackageDir(d, As(d)))) = PackageDir(d, As(d))
      BY <1>1, <1>2, <2>8, DiffFollows
    <2> QED
      BY <2>4, <2>6, <2>9, <2>10
  <1>4. CASE IsHoisted(d)
    <2>1. As(d) # As(key)
      BY <1>4
    <2>2. /\ PackageDir(key, As(d)) \in DOMAIN links
          /\ BesideAt(key, d, Dependencies(key), links[PackageDir(key, As(d))])
      BY <1>1, <1>2, <2>1 DEF SiblingsMade
    <2>3. \A o \in Dependencies(key) : As(o) = As(d) => IsHoisted(o)
      BY <1>4 DEF Sole
    <2>4. ~Exists(Inner(key, As(key), As(d)))
      BY <1>2, <2>3, NoneNested
    <2> QED
      BY <1>2, <2>1, <2>2, <2>4, BesideFound
  <1> QED
    BY <1>3, <1>4

LEMMA PeersFound ==
  ASSUME PlanInv
  PROVE  PeersResolve
  <1> SUFFICES ASSUME lpAt = "linked", NEW key \in inStore, NEW o \in PeersOf(key) \cap inStore,
                      Sole(o, PeersOf(key)), \A d \in Dependencies(key) \cup {key} : As(d) # As(o)
               PROVE  Lookup(key, As(o)) = PackageDir(o, As(o))
    BY DEF PeersResolve
  <1>1. graph \in Graphs /\ inStore \subseteq Keys /\ PeersMade
    BY DEF PlanInv, LinkPlanTypeOK
  <1>2. key \in Keys /\ o \in Keys /\ PeersOf(key) \in SUBSET Keys
    BY <1>1, GraphIs
  <1>3. /\ PackageDir(key, As(o)) \in DOMAIN links
        /\ BesideAt(key, o, PeersOf(key), links[PackageDir(key, As(o))])
    BY <1>1, <1>2 DEF PeersMade
  <1>4. ~Exists(Inner(key, As(key), As(o)))
    BY <1>2, NoneNested
  <1> QED
    BY <1>2, <1>3, <1>4, BesideFound

LEMMA TopFound ==
  ASSUME PlanInv
  PROVE  TopLinksLand
  <1> SUFFICES ASSUME lpAt = "linked" PROVE TopLinksLand
    BY DEF TopLinksLand
  <1>1. graph \in Graphs /\ inStore \subseteq Keys /\ TopMade /\ BinsMade
    BY DEF PlanInv, LinkPlanTypeOK
  <1>2. ASSUME NEW key \in inStore, IsHoisted(key)
        PROVE  Follow(Parent(As(key)), links[As(key)]) = PackageDir(key, As(key))
    <2>1. key \in STRING /\ key # ".." /\ IsName(As(key)) /\ links[As(key)] = TopTarget(As(key))
      BY <1>1, GraphIs DEF TopMade
    <2>2. Hoisted(As(key)) = key
      BY <1>2 DEF IsHoisted
    <2> QED
      BY <2>1, <2>2, TopFollows
  <1>3. ASSUME NEW p \in DOMAIN links, Len(p) = 2, p[1] = ".bin"
        PROVE  \E key \in inStore : IsStrictPrefix(As(key), Follow(<<".bin">>, links[p]))
    <2>1. BinPath(p)
      BY <1>3 DEF BinPath
    <2>2. PICK k \in Keys : /\ Hoisted(As(k)) \in inStore /\ SafePath(graph.nodes[Hoisted(As(k))].bin)
                            /\ links[p] = BinTarget(As(k))
      BY <1>1, <2>1 DEF BinsMade
    <2>3. PICK best \in inStore : best = Hoisted(As(k)) /\ As(best) = As(k) /\ best \in Keys
      BY <1>1, <2>2, HoistedIs
    <2>4. PICK n : n = As(k) /\ IsName(n) /\ graph.nodes[Hoisted(n)].bin \in Seq(STRING)
      BY <1>1, <2>3, GraphIs
    <2>5. IsStrictPrefix(n, Follow(<<".bin">>, BinTarget(n)))
      BY <2>2, <2>4, BinFollows
    <2> QED
      BY <2>2, <2>3, <2>4, <2>5
  <1> QED
    BY <1>2, <1>3 DEF TopLinksLand

LEMMA PlanKept ==
  LinkPlanSpec => []PlanInv
  <1>1. LinkPlanInit => PlanInv
    BY PlanStarts
  <1>2. PlanInv /\ [LinkPlanNext]_lpVars => PlanInv'
    <2> SUFFICES ASSUME PlanInv, [LinkPlanNext]_lpVars PROVE PlanInv'
      OBVIOUS
    <2>1. CASE LinkPackages
      BY <2>1, PackagesStep
    <2>2. CASE LinkTop
      BY <2>2, TopStep
    <2>3. CASE LinkNested
      BY <2>3, NestedStep
    <2>4. CASE LinkSiblings
      BY <2>4, SiblingsStep
    <2>5. CASE LinkPeers
      BY <2>5, PeersStep
    <2>6. CASE LinkBins
      BY <2>6, BinsStep
    <2>7. CASE UNCHANGED lpVars
      <3>1. graph' = graph /\ inStore' = inStore /\ lpAt' = lpAt /\ dirs' = dirs /\ links' = links
        BY <2>7 DEF lpVars
      <3>2. /\ Keys' = Keys /\ Nested' = Nested
            /\ \A k : As(k)' = As(k) /\ Dependencies(k)' = Dependencies(k)
            /\ \A n : Hoisted(n)' = Hoisted(n) /\ BinTarget(n)' = BinTarget(n)
            /\ \A pair : NestedAt(pair)' = NestedAt(pair)
        BY <3>1, PlanFixed
      <3>3. /\ TopMade => TopMade'
            /\ NestedMade => NestedMade'
            /\ SiblingsMade => SiblingsMade'
            /\ PeersMade => PeersMade'
        BY <3>1, MadeKept
      <3>4. /\ LinkPlanTypeOK => LinkPlanTypeOK'
            /\ LongLinks => LongLinks'
            /\ SiblingLinks => SiblingLinks'
            /\ BinsMade => BinsMade'
        BY <3>1, <3>2 DEF LinkPlanTypeOK, LongLinks, SiblingLinks, BinsMade
      <3> QED
        BY <3>1, <3>3, <3>4 DEF PlanInv
    <2> QED
      BY <2>1, <2>2, <2>3, <2>4, <2>5, <2>6, <2>7 DEF LinkPlanNext
  <1> QED
    BY <1>1, <1>2, PTL DEF LinkPlanSpec

(* link_all writes every path once: a package directory and a symbolic link *)
(* never claim the same place, and a directory holds the package it is      *)
(* named after, whatever the graph and whichever packages the store lacks.  *)
THEOREM LinkPlanTypeCorrect == LinkPlanSpec => []LinkPlanTypeOK
  <1>1. PlanInv => LinkPlanTypeOK
    BY DEF PlanInv
  <1> QED
    BY <1>1, PlanKept, PTL

(* For every resolved graph and every set of packages in the store, the     *)
(* tree link_all builds resolves each dependency and each peer in the store *)
(* to the version the graph gives it, a top-level link leads to the hoisted *)
(* version, and a .bin link stays below a package of the tree.  Excepted,   *)
(* as in EdgesResolve and PeersResolve: a dependency on the hoisted version *)
(* of the package's own install name, two dependencies or peers with one    *)
(* install name, and a peer hidden by a dependency or by the package.       *)
THEOREM TreeResolvesAlways == LinkPlanSpec => []TreeResolves
  <1>1. PlanInv => TreeResolves
    BY EdgesFound, PeersFound, TopFound DEF TreeResolves
  <1> QED
    BY <1>1, PlanKept, PTL
=============================================================================

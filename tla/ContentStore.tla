---------------------------- MODULE ContentStore ----------------------------
(***************************************************************************)
(* The content-addressable store under ~/.oath/store (oath-store/cas.rs)   *)
(* and the pipeline that fills it for an installation (download_missing_   *)
(* nodes, download_tarball_to_temp in oath-cli/main.rs): check, download,  *)
(* extract, store, link.  Several oath commands share the store; nothing   *)
(* locks it.                                                               *)
(*                                                                         *)
(* An entry is one resolved package (name, version, URL, integrity), which *)
(* owns one directory.  A directory is abstracted to what verification     *)
(* tells apart: "good" verifies, "bad" does not, "partial" and "empty" are *)
(* what a recursive removal leaves behind on its way to "absent".          *)
(***************************************************************************)
EXTENDS Naturals, FiniteSets

CONSTANTS Clients,      \* oath commands that install into the store
          Entries,      \* resolved packages
          GitEntries,   \* those whose tarball comes through the git cache
          MaxCrashes    \* bound: how many commands may be killed

ASSUME StoreAssumption == GitEntries \subseteq Entries /\ MaxCrashes \in Nat

VARIABLES dir,          \* the directory of every entry
          gitCache,     \* ~/.oath/git-cache: "none", "torn" or "full"
          at,           \* what each command does next
          wants,        \* the entry each command installs
          linked,       \* what each command linked into its project
          deletedGood,  \* history: entries whose verified directory a repair deleted
          crashes       \* history: commands killed so far

storeVars == <<dir, gitCache, at, wants, linked, deletedGood, crashes>>

DirStates == {"absent", "good", "bad", "partial", "empty"}
Stops     == {"idle", "done", "failed", "dead"}
Points    == Stops \cup {"download", "gitFetch", "gitWrite", "gitCopy", "extract", "extractTorn", "verify",
                         "remove", "removing", "stage", "rename", "accept", "link"}

StoreTypeOK ==
  /\ dir \in [Entries -> DirStates]
  /\ gitCache \in [Entries -> {"none", "torn", "full"}]
  /\ at \in [Clients -> Points]
  /\ wants \in [Clients -> Entries]
  /\ linked \in [Clients -> DirStates \cup {"nothing"}]
  /\ deletedGood \in SUBSET Entries
  /\ crashes \in 0..MaxCrashes

\* A store some earlier command may have left damaged.
StoreInit ==
  /\ dir \in [Entries -> {"absent", "good", "bad"}]
  /\ gitCache = [e \in Entries |-> "none"]
  /\ at = [c \in Clients |-> "idle"]
  /\ wants \in [Clients -> Entries]
  /\ linked = [c \in Clients |-> "nothing"]
  /\ deletedGood = {}
  /\ crashes = 0

----------------------------------------------------------------------------
(* verify_package_at and validate_manifest: the manifest must exist, parse, *)
(* name this package and source, and match the tree rebuilt from the files. *)
Verification(e) ==
  CASE dir[e] = "absent" -> "Missing"
    [] dir[e] = "good"   -> "Verified"
    [] OTHER             -> "Corrupt"

Move(c, from, to) == at[c] = from /\ at' = [at EXCEPT ![c] = to]

\* Faulty: a directory that exists is taken for a cached package.
CheckEntryExists(c) ==
  /\ Move(c, "idle", IF Verification(wants[c]) # "Missing" THEN "link" ELSE "download")
  /\ UNCHANGED <<dir, gitCache, wants, linked, deletedGood, crashes>>

\* missing_store_nodes: a verified entry is cached, any other is downloaded.
CheckEntry(c) ==
  /\ Move(c, "idle", IF Verification(wants[c]) = "Verified" THEN "link" ELSE "download")
  /\ UNCHANGED <<dir, gitCache, wants, linked, deletedGood, crashes>>

\* download_tarball_to_temp for a registry or file dependency: a checked
\* download into a private temporary file, or an error that ends the command.
Download(c) ==
  /\ wants[c] \notin GitEntries
  /\ \E result \in {"extract", "failed"} : Move(c, "download", result)
  /\ UNCHANGED <<dir, gitCache, wants, linked, deletedGood, crashes>>

\* The git branch: a cache file that exists is copied whatever it holds; one
\* that does not is fetched and written in place, there from the first byte.
DownloadGit(c) ==
  /\ wants[c] \in GitEntries
  /\ \/ gitCache[wants[c]] = "none" /\ Move(c, "download", "gitFetch")
     \/ gitCache[wants[c]] # "none" /\ Move(c, "download", "gitCopy")
  /\ UNCHANGED <<dir, gitCache, wants, linked, deletedGood, crashes>>

BeginGitWrite(c) ==
  /\ \/ Move(c, "gitFetch", "gitWrite") /\ gitCache' = [gitCache EXCEPT ![wants[c]] = "torn"]
     \/ Move(c, "gitFetch", "failed") /\ UNCHANGED gitCache
  /\ UNCHANGED <<dir, wants, linked, deletedGood, crashes>>

\* Two writers of one file write the same bytes: it is whole after the last.
FinishGitWrite(c) ==
  /\ Move(c, "gitWrite", "gitCopy")
  /\ gitCache' = IF \E d \in Clients \ {c} : at[d] = "gitWrite" /\ wants[d] = wants[c]
                 THEN gitCache
                 ELSE [gitCache EXCEPT ![wants[c]] = "full"]
  /\ UNCHANGED <<dir, wants, linked, deletedGood, crashes>>

CopyGit(c) ==
  /\ Move(c, "gitCopy", IF gitCache[wants[c]] = "full" THEN "extract" ELSE "extractTorn")
  /\ UNCHANGED <<dir, gitCache, wants, linked, deletedGood, crashes>>

\* extract_tarball_file_limited: a truncated gzip stream is an error, a whole
\* one may still break a limit.
Extract(c) ==
  /\ \/ Move(c, "extract", "verify")
     \/ Move(c, "extract", "failed")
     \/ Move(c, "extractTorn", "failed")
  /\ UNCHANGED <<dir, gitCache, wants, linked, deletedGood, crashes>>

\* The match at the head of store_package_at.
VerifyEntry(c) ==
  /\ Move(c, "verify", CASE Verification(wants[c]) = "Verified" -> "link"
                         [] Verification(wants[c]) = "Missing"  -> "stage"
                         [] Verification(wants[c]) = "Corrupt"  -> "remove")
  /\ UNCHANGED <<dir, gitCache, wants, linked, deletedGood, crashes>>

\* The repair of a corrupt entry removes whatever directory is there by now;
\* the verification it acts on is not repeated.
BeginRemove(c) ==
  LET e == wants[c] IN
  /\ IF dir[e] = "absent"
     THEN /\ Move(c, "remove", "stage")
          /\ UNCHANGED <<dir, deletedGood>>
     ELSE /\ Move(c, "remove", "removing")
          /\ dir' = [dir EXCEPT ![e] = IF @ = "empty" THEN "empty" ELSE "partial"]
          /\ deletedGood' = IF dir[e] = "good" THEN deletedGood \cup {e} ELSE deletedGood
  /\ UNCHANGED <<gitCache, wants, linked, crashes>>

\* remove_dir_all unlinks the files, then the directory.  Another command may
\* have finished the removal, or renamed a new directory over an empty one.
Removing(c) ==
  LET e == wants[c] IN
  /\ \/ /\ dir[e] = "partial" /\ at[c] = "removing"
        /\ dir' = [dir EXCEPT ![e] = "empty"] /\ UNCHANGED at
     \/ /\ dir[e] = "empty" /\ Move(c, "removing", "stage")
        /\ dir' = [dir EXCEPT ![e] = "absent"]
     \/ /\ dir[e] = "absent" /\ UNCHANGED dir
        /\ (Move(c, "removing", "stage") \/ Move(c, "removing", "failed"))
     \/ /\ dir[e] \in {"good", "bad"} /\ Move(c, "removing", "failed")
        /\ UNCHANGED dir
  /\ UNCHANGED <<gitCache, wants, linked, deletedGood, crashes>>

\* copy_dir_recursive, build_manifest and validate_manifest in a private
\* temporary directory: special files and a package.json of another name or
\* version are refused.
Stage(c) ==
  /\ \E result \in {"rename", "failed"} : Move(c, "stage", result)
  /\ UNCHANGED <<dir, gitCache, wants, linked, deletedGood, crashes>>

\* The rename of the temporary directory: it fails on a non-empty directory.
CommitEntry(c) ==
  /\ IF dir[wants[c]] \in {"absent", "empty"}
     THEN Move(c, "rename", "link") /\ dir' = [dir EXCEPT ![wants[c]] = "good"]
     ELSE Move(c, "rename", "accept") /\ UNCHANGED dir
  /\ UNCHANGED <<gitCache, wants, linked, deletedGood, crashes>>

\* The loser of the race accepts only a verified winner.
AcceptWinner(c) ==
  /\ Move(c, "accept", IF Verification(wants[c]) = "Verified" THEN "link" ELSE "failed")
  /\ UNCHANGED <<dir, gitCache, wants, linked, deletedGood, crashes>>

\* The linker copies from the directory after asking only that it exists.
LinkEntry(c) ==
  LET e == wants[c] IN
  /\ IF dir[e] = "absent"
     THEN Move(c, "link", "failed") /\ UNCHANGED linked
     ELSE Move(c, "link", "done") /\ linked' = [linked EXCEPT ![c] = dir[e]]
  /\ UNCHANGED <<dir, gitCache, wants, deletedGood, crashes>>

\* A command is killed between two steps; the files stay as they are.
CrashClient(c) ==
  /\ at[c] \notin Stops /\ crashes < MaxCrashes
  /\ at' = [at EXCEPT ![c] = "dead"] /\ crashes' = crashes + 1
  /\ UNCHANGED <<dir, gitCache, wants, linked, deletedGood>>

\* The user runs the command again.
Rerun(c) ==
  /\ at[c] = "dead" /\ at' = [at EXCEPT ![c] = "idle"]
  /\ UNCHANGED <<dir, gitCache, wants, linked, deletedGood, crashes>>

ClientStep(c) ==
  \/ CheckEntry(c) \/ Download(c) \/ DownloadGit(c) \/ BeginGitWrite(c)
  \/ FinishGitWrite(c) \/ CopyGit(c) \/ Extract(c)
  \/ VerifyEntry(c) \/ BeginRemove(c) \/ Removing(c) \/ Stage(c) \/ CommitEntry(c)
  \/ AcceptWinner(c) \/ LinkEntry(c)

StoreNext == \E c \in Clients : ClientStep(c) \/ CrashClient(c) \/ Rerun(c)

StoreSpec == StoreInit /\ [][StoreNext]_storeVars

----------------------------------------------------------------------------
(* A command links unverified bytes only when a repair that acted on a      *)
(* stale verification deleted a directory which verified (the window        *)
(* between verify_package_at and remove_dir_all in store_package_at);       *)
(* losing the rename race, a killed repair or a torn git cache never lead   *)
(* there.                                                                   *)
LinkedVerified ==
  \A c \in Clients : linked[c] \in {"nothing", "good"} \/ wants[c] \in deletedGood

=============================================================================

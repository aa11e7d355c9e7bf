------------------------------ MODULE Tarball ------------------------------
(***************************************************************************)
(* A package tarball on its way into the store: fetch_tarball_to_file      *)
(* (oath-fetch/client.rs) streams it to a private file with retries, size  *)
(* limit and integrity check; extract_archive (oath-fetch/tarball.rs)      *)
(* unpacks it into a private directory.                                    *)
(*                                                                         *)
(* A body is a content and a number of chunks; a digest of it is its       *)
(* content, under some algorithm.  An archive is a sequence of entries,    *)
(* whose paths are sequences of components.                                *)
(***************************************************************************)
EXTENDS Naturals, Sequences, FiniteSets, SequencesExt

CONSTANTS Contents,        \* what a server may send
          Integrities,     \* sets of [algo, of] tokens that may be expected; {} is None
          MaxAttempts,     \* REQUEST_ATTEMPTS
          MaxBodyChunks,   \* bound: the longest body a server sends
          MaxArchive,      \* limits.max_archive_bytes, in chunks
          Archives,        \* archives that may have been downloaded
          MaxUnpacked,     \* limits.max_unpacked_bytes
          MaxEntries       \* limits.max_entries

ASSUME TarballAssumption ==
  /\ MaxAttempts \in Nat \ {0} /\ Contents # {}
  /\ {MaxBodyChunks, MaxArchive, MaxUnpacked, MaxEntries} \subseteq Nat
  /\ Archives \subseteq Seq([path : Seq(STRING), kind : STRING, size : Nat])

VARIABLES tarAt,           \* what the download, then the extraction, does next
          integrity,       \* the expected integrity
          tries,           \* attempts used up
          body,            \* [content, chunks] of the response being read
          dest,            \* chunks in the destination file
          archive,         \* entries still to be extracted
          seen,            \* entry_count
          unpacked,        \* unpacked_bytes
          written          \* locations files were written to

downloadVars == <<integrity, tries, body, dest>>
extractVars  == <<archive, seen, unpacked, written>>
tarVars == <<tarAt, downloadVars, extractVars>>

Bodies == [content : Contents, chunks : 0..MaxBodyChunks]

TarballTypeOK ==
  /\ tarAt \in {"request", "stream", "stored", "entries", "extracted", "failed"}
  /\ integrity \in Integrities
  /\ tries \in 0..MaxAttempts
  /\ body \in Bodies
  /\ \A k \in 1..Len(dest) : dest[k] \in Contents \X (1..MaxBodyChunks)
  /\ seen \in 0..MaxEntries + 1 /\ unpacked \in Nat

TarballInit ==
  /\ tarAt = "request" /\ integrity \in Integrities /\ tries = 0
  /\ body = [content |-> CHOOSE c \in Contents : TRUE, chunks |-> 0]
  /\ dest = <<>>
  /\ archive = <<>> /\ seen = 0 /\ unpacked = 0 /\ written = {}

----------------------------------------------------------------------------
(* IntegrityVerifier: only tokens of the strongest algorithm present count; *)
(* algorithms it does not know are ignored.                                 *)
Algorithms == <<"sha512", "sha256", "sha1">>
Strongest(tokens) ==
  LET present == {k \in 1..Len(Algorithms) : \E t \in tokens : t.algo = Algorithms[k]}
      first   == CHOOSE k \in present : \A j \in present : k <= j
  IN IF present = {} THEN {} ELSE {t \in tokens : t.algo = Algorithms[first]}

Verifies(tokens, content) == \E t \in Strongest(tokens) : t.of = content

RetryOrFail ==
  /\ tarAt' = IF tries + 1 < MaxAttempts THEN "request" ELSE "failed"
  /\ tries' = tries + 1

\* A transient status or error is retried while attempts are left.
RequestTransient ==
  /\ tarAt = "request" /\ RetryOrFail
  /\ UNCHANGED <<integrity, body, dest, extractVars>>

\* Any other failure, integrity metadata without a digest that is supported,
\* or an announced length over the limit ends the download.
RequestFails ==
  /\ tarAt = "request" /\ tarAt' = "failed"
  /\ UNCHANGED <<downloadVars, extractVars>>

\* Faulty: the file is opened without truncating it.
RequestAnsweredAppending ==
  /\ tarAt = "request" /\ tarAt' = "stream"
  /\ integrity # {} => Strongest(integrity) # {}
  /\ \E b \in Bodies : body' = b
  /\ UNCHANGED <<integrity, tries, dest, extractVars>>

RequestAnswered ==
  /\ tarAt = "request" /\ tarAt' = "stream"
  /\ integrity # {} => Strongest(integrity) # {}
  /\ \E b \in Bodies : body' = b
  /\ dest' = <<>>
  /\ UNCHANGED <<integrity, tries, extractVars>>

Received == Cardinality({k \in 1..Len(dest) : dest[k][1] = body.content})

\* A chunk: the limit is checked before the bytes are written.
StreamChunk ==
  /\ tarAt = "stream" /\ Received < body.chunks
  /\ IF Received + 1 > MaxArchive
     THEN tarAt' = "failed" /\ UNCHANGED dest
     ELSE tarAt' = tarAt /\ dest' = Append(dest, <<body.content, Received + 1>>)
  /\ UNCHANGED <<integrity, tries, body, extractVars>>

\* The connection breaks: the file is removed, if that works, and the
\* download starts over.
StreamBreaks ==
  /\ tarAt = "stream" /\ RetryOrFail
  /\ dest' \in {<<>>, dest}
  /\ UNCHANGED <<integrity, body, extractVars>>

\* The end of the body: the digest decides.
StreamEnds ==
  /\ tarAt = "stream" /\ Received = body.chunks
  /\ IF integrity = {} \/ Verifies(integrity, body.content)
     THEN tarAt' = "stored" /\ UNCHANGED dest
     ELSE tarAt' = "failed" /\ dest' \in {<<>>, dest}
  /\ UNCHANGED <<integrity, tries, body, extractVars>>

----------------------------------------------------------------------------
(* Extraction.  The directory it fills is Root.                             *)
Root == <<"tmp", "pkg">>

\* The archive is whatever the server packed.
OpenArchive ==
  /\ tarAt = "stored" /\ tarAt' = "entries"
  /\ archive' \in Archives
  /\ UNCHANGED <<downloadVars, seen, unpacked, written>>

\* sanitize_tar_path refuses absolute paths and parent components ...
Sanitize(path) ==
  IF \E k \in 1..Len(path) : path[k] \in {"..", "/"} THEN "unsafe" ELSE "safe"

\* ... collects the components but "." one after the other ...
Parts(path) ==
  LET parts[k \in 0..Len(path)] ==
        IF k = 0 THEN <<>>
        ELSE IF path[k] = "." THEN parts[k - 1] ELSE Append(parts[k - 1], path[k])
  IN  parts

\* ... and strips the first.
Relative(path) ==
  LET all == Parts(path)[Len(path)] IN IF all = <<>> THEN <<>> ELSE Tail(all)

\* Where a relative path leads, component by component (the file system).
Walk(path) ==
  LET at[k \in 0..Len(path)] ==
        IF k = 0 THEN Root
        ELSE IF path[k] # ".." THEN Append(at[k - 1], path[k])
        ELSE IF at[k - 1] = <<>> THEN <<>> ELSE Front(at[k - 1])
  IN  at

Location(path) == Walk(path)[Len(path)]

\* Faulty: the size is accounted for after the file was written.
ExtractEntryLate ==
  /\ tarAt = "entries" /\ archive # <<>>
  /\ LET e == Head(archive) IN
     /\ seen' = seen + 1
     /\ IF seen' > MaxEntries \/ Sanitize(e.path) = "unsafe"
        THEN tarAt' = "failed" /\ UNCHANGED <<unpacked, written>>
        ELSE IF Relative(e.path) = <<>> \/ e.kind = "dir"
        THEN tarAt' = tarAt /\ UNCHANGED <<unpacked, written>>
        ELSE /\ e.kind = "file"
             /\ tarAt' = IF unpacked > MaxUnpacked THEN "failed" ELSE tarAt
             /\ unpacked' = unpacked + e.size
             /\ written' = written \cup {[at |-> Location(Relative(e.path)), size |-> e.size]}
  /\ archive' = Tail(archive)
  /\ UNCHANGED downloadVars

\* One turn of the loop in extract_archive: the entry is counted, its path
\* sanitized; directories and what is left of the top one are skipped, files
\* accounted for and written, anything else refused.
ExtractEntry ==
  /\ tarAt = "entries" /\ archive # <<>>
  /\ LET e == Head(archive) IN
     /\ seen' = seen + 1
     /\ IF seen' > MaxEntries \/ Sanitize(e.path) = "unsafe"
        THEN tarAt' = "failed" /\ UNCHANGED <<unpacked, written>>
        ELSE IF Relative(e.path) = <<>> \/ e.kind = "dir"
        THEN tarAt' = tarAt /\ UNCHANGED <<unpacked, written>>
        ELSE IF e.kind # "file" \/ unpacked + e.size > MaxUnpacked
        THEN tarAt' = "failed" /\ UNCHANGED <<unpacked, written>>
        ELSE /\ tarAt' = tarAt
             /\ unpacked' = unpacked + e.size
             /\ written' = written \cup {[at |-> Location(Relative(e.path)), size |-> e.size]}
  /\ archive' = Tail(archive)
  /\ UNCHANGED downloadVars

EndArchive ==
  /\ tarAt = "entries" /\ archive = <<>> /\ tarAt' = "extracted"
  /\ UNCHANGED <<downloadVars, extractVars>>

TarballNext ==
  \/ RequestTransient \/ RequestFails \/ RequestAnswered \/ StreamChunk \/ StreamBreaks
  \/ StreamEnds \/ OpenArchive \/ ExtractEntry \/ EndArchive

TarballSpec == TarballInit /\ [][TarballNext]_tarVars

----------------------------------------------------------------------------
(* A tarball that is handed on is exactly one response, from its first      *)
(* chunk to its last, within the size limit, however many attempts were cut *)
(* short before it and whatever they left in the file.                      *)
StoredWhole ==
  tarAt = "stored" =>
    /\ dest = [k \in 1..body.chunks |-> <<body.content, k>>]
    /\ Len(dest) <= MaxArchive

(* Where integrity is expected, the bytes handed on match a digest of the   *)
(* strongest algorithm it lists; a weaker one never vouches for them.       *)
StoredVerified ==
  tarAt = "stored" /\ integrity # {} =>
    \E t \in integrity :
      /\ t.of = body.content
      /\ \A u \in integrity : u.algo = "sha512" => t.algo = "sha512"
      /\ \A u \in integrity : u.algo = "sha256" => t.algo \in {"sha512", "sha256"}

(* Extraction writes nothing outside its directory, whatever paths the      *)
(* archive names.                                                           *)
WrittenInside == \A w \in written : IsPrefix(Root, w.at) /\ w.at # Root

(* At no moment do the files on disk exceed the unpacked limit, also when   *)
(* the extraction ends in an error.  A byte is a file and an offset in it.  *)
DiskBytes == UNION {{w} \X (1..w.size) : w \in written}

DiskBounded ==
  Cardinality(DiskBytes) <= MaxUnpacked /\ seen <= MaxEntries + 1

(* What a download hands on is one whole response that verifies, after      *)
(* whatever attempts failed before (download_tarball_to_file).              *)
StoredIntact ==
  StoredWhole /\ StoredVerified

(* Extraction stays within its directory and within its limits at every     *)
(* moment (extract_tarball).                                                *)
ExtractionBounded ==
  WrittenInside /\ DiskBounded
=============================================================================

--------------------------- MODULE PackumentCache ---------------------------
(***************************************************************************)
(* RegistryClient::fetch_packument (oath-fetch/client.rs): the packument   *)
(* of one package through the disk cache, its lifetime, the conditional    *)
(* request with a stored etag, and the retries.  Commands of one user      *)
(* share the two cache files, which are named after the package alone.     *)
(*                                                                         *)
(* A packument is the registry it came from and its revision there; its    *)
(* etag says just that.                                                    *)
(***************************************************************************)
EXTENDS Naturals

CONSTANTS Fetchers,          \* oath commands that fetch the package
          Registries,        \* registries some project's .npmrc routes it to
          Attempts,          \* REQUEST_ATTEMPTS
          MaxRevision,       \* bound: revisions a registry publishes
          FetchFaults,       \* bound: commands killed and writes that fail
          NoPackument,       \* no file, no etag, no result
          TornPackument      \* a cache file cut short

Packuments == [from : Registries, revision : 1..MaxRevision]

ASSUME FetchAssumption ==
  /\ Attempts \in Nat \ {0} /\ MaxRevision \in Nat \ {0} /\ FetchFaults \in Nat
  /\ NoPackument # TornPackument /\ {NoPackument, TornPackument} \cap Packuments = {}

VARIABLES current,           \* the revision every registry serves
          cacheFile,         \* <name>.json
          cacheFresh,        \* it is younger than CACHE_TTL_SECS
          etagFile,          \* <name>.etag
          fetchAt,           \* what each command does next
          registryFor,       \* the registry its configuration picks
          memoryEtag,        \* its in-memory etag cache
          askedWith,         \* the etag its request carries
          attempt,           \* the number of attempts it has used up
          result,            \* the packument it goes on with
          asOf,              \* history: the revision served when it asked
          fetchOverlap,      \* history: two commands asked at the same time
          fetchFaults

cacheFiles == <<cacheFile, cacheFresh, etagFile>>
fetchVars == <<current, cacheFiles, fetchAt, registryFor, memoryEtag, askedWith, attempt,
               result, asOf, fetchOverlap, fetchFaults>>

Asking == {"send", "load", "etag", "open", "write"}

FetchTypeOK ==
  /\ current \in [Registries -> 1..MaxRevision]
  /\ cacheFile \in {NoPackument, TornPackument} \cup Packuments
  /\ cacheFresh \in BOOLEAN
  /\ etagFile \in {NoPackument} \cup Packuments
  /\ fetchAt \in [Fetchers -> Asking \cup {"idle", "done", "cached", "failed", "killed"}]
  /\ registryFor \in [Fetchers -> Registries]
  /\ memoryEtag \in [Fetchers -> {NoPackument} \cup Packuments]
  /\ askedWith \in [Fetchers -> {NoPackument} \cup Packuments]
  /\ attempt \in [Fetchers -> 0..Attempts]
  /\ result \in [Fetchers -> {NoPackument} \cup Packuments]
  /\ asOf \in [Fetchers -> 0..MaxRevision]
  /\ fetchOverlap \in BOOLEAN /\ fetchFaults \in 0..FetchFaults

FetchInit ==
  /\ current = [g \in Registries |-> 1]
  /\ cacheFile = NoPackument /\ cacheFresh = FALSE /\ etagFile = NoPackument
  /\ fetchAt = [f \in Fetchers |-> "idle"]
  /\ registryFor \in [Fetchers -> Registries]
  /\ memoryEtag = [f \in Fetchers |-> NoPackument]
  /\ askedWith = [f \in Fetchers |-> NoPackument]
  /\ attempt = [f \in Fetchers |-> 0]
  /\ result = [f \in Fetchers |-> NoPackument]
  /\ asOf = [f \in Fetchers |-> 0]
  /\ fetchOverlap = FALSE /\ fetchFaults = 0

At(f, from, to) == fetchAt[f] = from /\ fetchAt' = [fetchAt EXCEPT ![f] = to]
Served(f) == [from |-> registryFor[f], revision |-> current[registryFor[f]]]

\* The fast path: a fresh cache file that parses is the answer.
UseCache(f) ==
  /\ cacheFresh /\ cacheFile \notin {NoPackument, TornPackument}
  /\ At(f, "idle", "cached") /\ result' = [result EXCEPT ![f] = cacheFile]
  /\ UNCHANGED <<current, cacheFiles, registryFor, memoryEtag, askedWith, attempt, asOf,
                 fetchOverlap, fetchFaults>>

\* Otherwise the request carries the etag in memory, or else the one on disk.
Ask(f) ==
  /\ ~cacheFresh \/ cacheFile \in {NoPackument, TornPackument}
  /\ At(f, "idle", "send")
  /\ askedWith' = [askedWith EXCEPT ![f] =
                     IF memoryEtag[f] # NoPackument THEN memoryEtag[f] ELSE etagFile]
  /\ attempt' = [attempt EXCEPT ![f] = 0]
  /\ asOf' = [asOf EXCEPT ![f] = current[registryFor[f]]]
  /\ fetchOverlap' = (fetchOverlap \/ \E g \in Fetchers : fetchAt[g] \in Asking)
  /\ UNCHANGED <<current, cacheFiles, registryFor, memoryEtag, result, fetchFaults>>

\* A retryable status or error: another attempt while one is left.
Transient(f) ==
  /\ At(f, "send", IF attempt[f] + 1 < Attempts THEN "send" ELSE "failed")
  /\ attempt' = [attempt EXCEPT ![f] = @ + 1]
  /\ UNCHANGED <<current, cacheFiles, registryFor, memoryEtag, askedWith, result, asOf,
                 fetchOverlap, fetchFaults>>

\* 404, another status or an error that is not retried.
Refused(f) ==
  /\ At(f, "send", "failed")
  /\ UNCHANGED <<current, cacheFiles, registryFor, memoryEtag, askedWith, attempt, result,
                 asOf, fetchOverlap, fetchFaults>>

\* The registry compares the etag: 304 sends the client to its cache file.
Answered(f) ==
  /\ IF askedWith[f] = Served(f)
     THEN At(f, "send", "load") /\ UNCHANGED result
     ELSE At(f, "send", "etag") /\ result' = [result EXCEPT ![f] = Served(f)]
  /\ UNCHANGED <<current, cacheFiles, registryFor, memoryEtag, askedWith, attempt, asOf,
                 fetchOverlap, fetchFaults>>

\* Faulty: what the file holds is used without parsing it.
LoadCachedUnparsed(f) ==
  /\ At(f, "load", "done") /\ result' = [result EXCEPT ![f] = cacheFile]
  /\ UNCHANGED <<current, cacheFiles, registryFor, memoryEtag, askedWith, attempt, asOf,
                 fetchOverlap, fetchFaults>>

\* load_cached_packument: no file, or one that does not parse, is an error.
LoadCached(f) ==
  /\ IF cacheFile \in {NoPackument, TornPackument}
     THEN At(f, "load", "failed") /\ UNCHANGED result
     ELSE At(f, "load", "done") /\ result' = [result EXCEPT ![f] = cacheFile]
  /\ UNCHANGED <<current, cacheFiles, registryFor, memoryEtag, askedWith, attempt, asOf,
                 fetchOverlap, fetchFaults>>

\* The etag is kept in memory and on disk before the body it describes.
StoreEtag(f) ==
  /\ At(f, "etag", "open")
  /\ memoryEtag' = [memoryEtag EXCEPT ![f] = result[f]]
  /\ etagFile' = result[f]
  /\ UNCHANGED <<current, cacheFile, cacheFresh, registryFor, askedWith, attempt, result,
                 asOf, fetchOverlap, fetchFaults>>

\* Neither write reports an error (.ok()).
EtagWriteFails(f) ==
  /\ fetchFaults < FetchFaults /\ fetchFaults' = fetchFaults + 1
  /\ At(f, "etag", "open")
  /\ memoryEtag' = [memoryEtag EXCEPT ![f] = result[f]]
  /\ UNCHANGED <<current, cacheFiles, registryFor, askedWith, attempt, result, asOf,
                 fetchOverlap>>

CacheWriteFails(f) ==
  /\ fetchFaults < FetchFaults /\ fetchFaults' = fetchFaults + 1
  /\ At(f, "open", "done")
  /\ UNCHANGED <<current, cacheFiles, registryFor, memoryEtag, askedWith, attempt, result,
                 asOf, fetchOverlap>>

\* write_cache writes the file in place.
OpenCache(f) ==
  /\ At(f, "open", "write")
  /\ cacheFile' = TornPackument /\ cacheFresh' = TRUE
  /\ UNCHANGED <<current, etagFile, registryFor, memoryEtag, askedWith, attempt, result,
                 asOf, fetchOverlap, fetchFaults>>

\* Faulty: the cache file is written only when it is not there yet.
WriteCacheOnce(f) ==
  /\ At(f, "write", "done")
  /\ cacheFile' = IF askedWith[f] = NoPackument THEN result[f] ELSE askedWith[f]
  /\ cacheFresh' = TRUE
  /\ UNCHANGED <<current, etagFile, registryFor, memoryEtag, askedWith, attempt, result,
                 asOf, fetchOverlap, fetchFaults>>

WriteCache(f) ==
  /\ At(f, "write", "done")
  /\ cacheFile' = result[f] /\ cacheFresh' = TRUE
  /\ UNCHANGED <<current, etagFile, registryFor, memoryEtag, askedWith, attempt, result,
                 asOf, fetchOverlap, fetchFaults>>

\* The same command asks again, or the user runs another one.
FetchAgain(f) ==
  /\ fetchAt[f] \in {"done", "cached", "failed", "killed"}
  /\ fetchAt' = [fetchAt EXCEPT ![f] = "idle"]
  /\ memoryEtag' \in {memoryEtag, [memoryEtag EXCEPT ![f] = NoPackument]}
  /\ fetchAt[f] = "killed" => memoryEtag'[f] = NoPackument
  /\ askedWith' = [askedWith EXCEPT ![f] = NoPackument]
  /\ attempt' = [attempt EXCEPT ![f] = 0] /\ asOf' = [asOf EXCEPT ![f] = 0]
  /\ result' = [result EXCEPT ![f] = NoPackument]
  /\ UNCHANGED <<current, cacheFiles, registryFor, fetchOverlap, fetchFaults>>

KillFetcher(f) ==
  /\ fetchAt[f] \in Asking /\ fetchFaults < FetchFaults
  /\ fetchAt' = [fetchAt EXCEPT ![f] = "killed"] /\ fetchFaults' = fetchFaults + 1
  /\ UNCHANGED <<current, cacheFiles, registryFor, memoryEtag, askedWith, attempt, result,
                 asOf, fetchOverlap>>

\* The registry publishes; the cache file grows older than its lifetime.
PublishRevision(g) ==
  /\ current[g] < MaxRevision /\ current' = [current EXCEPT ![g] = @ + 1]
  /\ UNCHANGED <<cacheFiles, fetchAt, registryFor, memoryEtag, askedWith, attempt, result,
                 asOf, fetchOverlap, fetchFaults>>

Expire ==
  /\ cacheFresh /\ cacheFresh' = FALSE
  /\ UNCHANGED <<current, cacheFile, etagFile, fetchAt, registryFor, memoryEtag, askedWith,
                 attempt, result, asOf, fetchOverlap, fetchFaults>>

FetchStep(f) ==
  \/ UseCache(f) \/ Ask(f) \/ Transient(f) \/ Refused(f) \/ Answered(f) \/ LoadCached(f)
  \/ StoreEtag(f) \/ OpenCache(f) \/ WriteCache(f)

FetchNext ==
  \/ \E f \in Fetchers : FetchStep(f) \/ FetchAgain(f) \/ KillFetcher(f)
                        \/ EtagWriteFails(f) \/ CacheWriteFails(f)
  \/ \E g \in Registries : PublishRevision(g)
  \/ Expire

FetchSpec == FetchInit /\ [][FetchNext]_fetchVars

----------------------------------------------------------------------------
OneRegistry == \A f, g \in Fetchers : registryFor[f] = registryFor[g]

(* "Uses etag caching -- returns cached version if unchanged."  Commands    *)
(* that use one registry and ask one after the other, with no fault, get a  *)
(* packument no older than the registry's when they asked: the etag and the *)
(* body on disk never come apart.                                           *)
NeverStale ==
  \A f \in Fetchers :
    fetchAt[f] = "done" /\ OneRegistry /\ ~fetchOverlap /\ fetchFaults = 0 =>
      result[f].revision >= asOf[f]

(* "The registry a package should be fetched from: a `@scope:registry`      *)
(* override if one matches, otherwise the default registry."                *)
RightRegistry ==
  \A f \in Fetchers : fetchAt[f] \in {"done", "cached"} => result[f].from = registryFor[f]
=============================================================================

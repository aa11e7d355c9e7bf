--------------------------- MODULE RegistryReads ---------------------------
(***************************************************************************)
(* The read side of the registry's HTTP API over module Registry's tables: *)
(* package metadata, verdict bundles and the OSV feed.                     *)
(* Each SELECT is its own statement, so writers commit between two of      *)
(* them; a reader keeps its answer until it is sent.                       *)
(***************************************************************************)
EXTENDS Registry

CONSTANTS Readers           \* GET requests

VARIABLES reader            \* what each GET request has read so far

readVars == <<vars, reader>>

NotReading == [pc |-> "idle"]
Absent(n) == {v \in Versions : versions[<<n, v>>] = None}
OutOfService(n) == {v \in Versions : versions[<<n, v>>] # None} \ ActiveVersions(n)

\* package_versions: status = 'active'.
PackageVersions(n) == ActiveVersions(n)

\* version_bundle: one LEFT JOIN of versions and tombstones.
Bundle(k) == [status |-> versions[k].status, tombstone |-> tombstones[k]]

\* public_quarantines, the rows of the OSV feed.
PublicQuarantines ==
    {k \in Keys : /\ tombstones[k] # None /\ tombstones[k].status = "quarantined"
                  /\ packages[k[1]] # None /\ ~packages[k[1]].private}

\* package_metadata finds the package and authorizes the reader of a private one.
BeginMetadata(rd, p, n) ==
    /\ reader[rd] = NotReading /\ packages[n] # None
    /\ packages[n].private => Authorized(p, n, FALSE)
    /\ reader' = [reader EXCEPT ![rd] =
           [pc |-> "first", name |-> n, gone |-> OutOfService(n), listed |-> {},
            unborn |-> {}, tagged |-> {}]]

WithVersions(q) == [q EXCEPT !.listed = PackageVersions(q.name), !.unborn = Absent(q.name)]
WithTags(q) == [q EXCEPT !.tagged = {dist_tags[q.name][t] : t \in Tags} \ {None}]

\* Faulty: the tags are read before the versions.
StatementSwapped(i, q) == IF i = 1 THEN WithTags(q) ELSE WithVersions(q)

\* The two SELECTs of package_metadata: the versions, then the dist-tags.
Statement(i, q) == IF i = 1 THEN WithVersions(q) ELSE WithTags(q)

ReadMetadataFirst(rd) ==
    /\ reader[rd].pc = "first"
    /\ reader' = [reader EXCEPT ![rd] = [Statement(1, @) EXCEPT !.pc = "second"]]

\* Without a published version the answer is 404.
ReadMetadataSecond(rd) ==
    LET q == Statement(2, reader[rd]) IN
    /\ reader[rd].pc = "second"
    /\ reader' = [reader EXCEPT ![rd] =
           IF q.listed = {} THEN NotReading ELSE [q EXCEPT !.pc = "metadata"]]

\* verdict_bundle of one version; a private one only for an authorized reader.
ReadBundle(rd, p, k) ==
    /\ reader[rd] = NotReading /\ versions[k] # None
    /\ versions[k].private => Authorized(p, k[1], FALSE)
    /\ reader' = [reader EXCEPT ![rd] = [pc |-> "bundle", key |-> k, row |-> Bundle(k)]]

\* osv_feed, for anybody.
ReadOsvFeed(rd) ==
    /\ reader[rd] = NotReading /\ PublicQuarantines # {}
    /\ reader' = [reader EXCEPT ![rd] = [pc |-> "osv", feed |-> PublicQuarantines]]

SendAnswer(rd) ==
    /\ reader[rd].pc \in {"metadata", "bundle", "osv"}
    /\ reader' = [reader EXCEPT ![rd] = NotReading]

ReadStep(rd) ==
    \/ \E p \in Principals, n \in Names : BeginMetadata(rd, p, n)
    \/ ReadMetadataFirst(rd) \/ ReadMetadataSecond(rd)
    \/ \E p \in Principals, k \in Keys : ReadBundle(rd, p, k)
    \/ ReadOsvFeed(rd) \/ SendAnswer(rd)

ReadsInit == Init /\ reader = [rd \in Readers |-> NotReading]

ReadsNext ==
    \/ Next /\ UNCHANGED reader
    \/ \E rd \in Readers : ReadStep(rd) /\ UNCHANGED vars

ReadsSpec == ReadsInit /\ [][ReadsNext]_readVars

-----------------------------------------------------------------------------
\* Metadata never offers a version that was out of service when the request
\* arrived, although revocations commit between its statements.
MetadataFresh ==
    \A rd \in Readers : reader[rd].pc \in {"second", "metadata"} =>
        reader[rd].listed \cap reader[rd].gone = {}

\* A tag in a metadata answer names a version the answer lists, or one that was
\* first published between the two SELECTs: the halves of an answer may differ by
\* a publication, but no tag leads to a version that was revoked in between.
TagsResolve ==
    \A rd \in Readers : reader[rd].pc = "metadata" =>
        reader[rd].tagged \subseteq reader[rd].listed \cup reader[rd].unborn

\* A verdict bundle carries a tombstone exactly when its status says the
\* version is out of service, with the same status, at whatever moment it is read.
BundleAgrees ==
    \A rd \in Readers : reader[rd].pc = "bundle" =>
        LET row == reader[rd].row IN
        IF row.status = "active" THEN row.tombstone = None
        ELSE row.tombstone # None /\ row.tombstone.status = row.status

\* The public feed names no private package, whichever visibility wins the race
\* to claim the name.
FeedPublic ==
    \A rd \in Readers : reader[rd].pc = "osv" =>
        \A k \in reader[rd].feed : versions[k] # None /\ ~versions[k].private

\* Nothing the read side answers was already withdrawn when the request arrived,
\* nor names anything withdrawn or private, although writers commit between the
\* SELECTs it is put together from.  The halves of a packument need not be of one
\* moment: a version published between them may be tagged and not listed.
AnswersCurrent ==
    MetadataFresh /\ TagsResolve /\ BundleAgrees /\ FeedPublic
=============================================================================

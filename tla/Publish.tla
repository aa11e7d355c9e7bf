------------------------------ MODULE Publish ------------------------------
(***************************************************************************)
(* `oath publish`, `oath publish --stage` and `oath transfer create` in    *)
(* one package directory: npm's packlist, the signed assessment, the       *)
(* evidence persisted under ~/.oath/publish-assessments, the upload, and   *)
(* the transfer capsule with its verification (crates/oath-cli/src:        *)
(* main.rs, publish_assessment.rs, package_transfer.rs).                   *)
(*                                                                         *)
(* Commands run at once, the directory is edited while they run, and a     *)
(* command may be killed between any two steps.  A file's bytes are a      *)
(* number; the bytes of package.json are the release it declares.  Digests *)
(* are the values they digest, and a signature is the pair of what it      *)
(* covers and the key that made it.                                        *)
(***************************************************************************)
EXTENDS Naturals, FiniteSetsExt, Functions

CONSTANTS
    Commands,       \* the commands that run, each once
    Kinds,          \* which commands: "publish", "stage", "transfer", "dry"
    Files,          \* paths of the package
    Manifest,       \* the path of package.json
    Bytes,          \* contents a file may have
    Secrets,        \* contents that hold a secret marker
    Links,          \* contents that stand for a symbolic link
    Scripted,       \* releases whose package.json has scripts npm runs to pack
    Directories,    \* what the package directory may hold at first
    MaxMishaps,     \* edits of the directory and killed commands together
    MaxDamage,      \* damage to the capsule on its way
    NoPublishKey

ASSUME PublishAssumption ==
    /\ Kinds \subseteq {"publish", "stage", "transfer", "dry"}
    /\ Bytes \subseteq Nat
    /\ \A d \in Directories :
         /\ Manifest \in DOMAIN d /\ DOMAIN d \subseteq Files
         /\ d \in [DOMAIN d -> Nat]
    /\ Manifest \in Files
    /\ NoPublishKey \notin Commands

VARIABLES
    root,           \* the package directory: path -> bytes
    pubKey,         \* ~/.oath/publish-signing.key
    temps,          \* <<directory, file>> -> the document in the .tmp file
    evidence,       \* <<directory, file>> -> the document
    capsule,        \* the transfer output: part -> value, a partial function
    published,      \* the registry: release -> files of its tarball
    sent,           \* history: what left the machine
    cmd,            \* the commands
    faults          \* [edits, kills, damage] spent

pubVars == <<root, pubKey, temps, evidence, capsule, published, sent, cmd, faults>>

\* The documents persist_signed writes, in its order: "derived" stands for the
\* SBOM and the provenance statement, both made from the assessment.
Documents == {"assessment", "derived", "signature"}
FirstDocument == "assessment"
NextDocument == [assessment |-> "derived", derived |-> "signature", signature |-> "none"]

\* The order in which create_capsule copies them.
NextCopied == [assessment |-> "signature", signature |-> "derived", derived |-> "none"]

NoFiles == <<>>
NoAssessment == [by |-> NoPublishKey, version |-> 0, files |-> NoFiles, previous |-> 0]

\* A function with one value more, or changed.
With(f, x, value) == [y \in DOMAIN f \cup {x} |-> IF y = x THEN value ELSE f[y]]

Become(p, c) == cmd' = [cmd EXCEPT ![p] = c]
Move(p, at) == Become(p, [cmd[p] EXCEPT !.at = at])

Idle == [at |-> "idle", kind |-> "none", version |-> 0, list |-> {}, key |-> NoPublishKey,
         read |-> NoFiles, assessment |-> NoAssessment, document |-> FirstDocument,
         packed |-> NoFiles, copied |-> NoFiles, edited |-> FALSE, shared |-> FALSE]

\* The process ends: what it held in memory is gone, its outcome is left.
End(p, at) == Become(p, [Idle EXCEPT !.at = at, !.shared = cmd[p].shared])
Fail(p) == End(p, "failed")
-----------------------------------------------------------------------------
PublishInit ==
    /\ root \in Directories
    /\ pubKey = NoPublishKey
    /\ temps = NoFiles /\ evidence = NoFiles /\ capsule = NoFiles
    /\ published = NoFiles /\ sent = {}
    /\ cmd = [p \in Commands |-> Idle]
    /\ faults = [edits |-> 0, kills |-> 0, damage |-> 0]

(* read_package_json fixes the name and the release before any file is     *)
(* listed or read.                                                         *)
BeginPublish(p, kind) ==
    /\ cmd[p].at = "idle"
    /\ Become(p, [cmd[p] EXCEPT !.at = "list", !.kind = kind, !.version = root[Manifest]])
    /\ UNCHANGED <<root, pubKey, temps, evidence, capsule, published, sent, faults>>

(* collect_publish_files refuses a package with a symbolic link; its list  *)
(* is otherwise only compared with npm's, which is the one used.  npm      *)
(* leaves links out.                                                       *)
Refused(p) == cmd[p].kind # "transfer" /\ \E f \in DOMAIN root : root[f] \in Links
Packlist == {f \in DOMAIN root : root[f] \notin Links}

List(p) ==
    /\ cmd[p].at = "list"
    /\ IF Refused(p) THEN Fail(p)
       ELSE Become(p, [cmd[p] EXCEPT !.at = "key", !.list = Packlist])
    /\ UNCHANGED <<root, pubKey, temps, evidence, capsule, published, sent, faults>>
-----------------------------------------------------------------------------
(* load_or_create_signing_key: an existing key is read; otherwise a fresh  *)
(* one is written under a name of its own and hard-linked into place, and  *)
(* the loser of that race reads the winner's.                              *)
LoadPublishKey(p) ==
    /\ cmd[p].at = "key"
    /\ IF pubKey = NoPublishKey THEN Move(p, "link")
       ELSE Become(p, [cmd[p] EXCEPT !.at = "read", !.key = pubKey])
    /\ UNCHANGED <<root, pubKey, temps, evidence, capsule, published, sent, faults>>

\* Faulty: the temporary key is renamed over one that appeared meanwhile.
LinkPublishKeyOver(p) ==
    /\ cmd[p].at = "link"
    /\ pubKey' = p
    /\ Become(p, [cmd[p] EXCEPT !.at = "read", !.key = p])
    /\ UNCHANGED <<root, temps, evidence, capsule, published, sent, faults>>

LinkPublishKey(p) ==
    /\ cmd[p].at = "link"
    /\ pubKey' = IF pubKey = NoPublishKey THEN p ELSE pubKey
    /\ Become(p, [cmd[p] EXCEPT !.at = "read", !.key = pubKey'])
    /\ UNCHANGED <<root, temps, evidence, capsule, published, sent, faults>>
-----------------------------------------------------------------------------
(* assess reads the files one after the other; one that is gone ends the   *)
(* command.                                                                *)
ReadFile(p) ==
    /\ cmd[p].at = "read"
    /\ \E f \in cmd[p].list \ DOMAIN cmd[p].read :
         IF f \in DOMAIN root
         THEN Become(p, [cmd[p] EXCEPT !.read = With(@, f, root[f])])
         ELSE Fail(p)
    /\ UNCHANGED <<root, pubKey, temps, evidence, capsule, published, sent, faults>>

\* secret_findings is not empty: the decision is Deny.
Blocked(files) == \E f \in DOMAIN files : files[f] \in Secrets

(* attach_previous_release: the highest lower release among the persisted  *)
(* assessments of this package, 0 for none.                                *)
Persisted == {evidence[e].of.version : e \in {d \in DOMAIN evidence : d[2] = "assessment"}}

Previous(version) == Max({0} \cup {v \in Persisted : v < version})

Directory(a) == <<a.version, a.files>>

\* From the first persisted document to its end a command uses the evidence
\* directory and the output; two that do so at once are marked.
Busy == {"persist", "rename", "stage", "output", "pack", "check", "put",
         "compare", "tarball", "copy", "manifest", "seal"}
Active(p) == cmd[p].at \in Busy

\* A command that has not begun, or has ended.
Over == {"idle", "done", "failed", "denied", "created"}

Assess(p) ==
    /\ cmd[p].at = "read"
    /\ cmd[p].list = DOMAIN cmd[p].read
    /\ LET a == [by |-> p, version |-> cmd[p].version, files |-> cmd[p].read,
                 previous |-> Previous(cmd[p].version)]
           others == {q \in Commands \ {p} : Active(q)}
       IN IF Blocked(cmd[p].read) THEN End(p, "denied")
          ELSE IF cmd[p].kind = "dry" THEN End(p, "done")
          ELSE cmd' = [q \in Commands |->
                 IF q = p
                 THEN [cmd[p] EXCEPT !.at = "persist", !.assessment = a,
                                     !.shared = others # {}]
                 ELSE [cmd[q] EXCEPT !.shared = @ \/ q \in others]]
    /\ UNCHANGED <<root, pubKey, temps, evidence, capsule, published, sent, faults>>
-----------------------------------------------------------------------------
(* persist_signed writes each document with atomic_json: a .tmp file whose *)
(* name commands share, then a rename.  The signature covers the           *)
(* assessment and is made with the key read again from its file.           *)
Document(p) ==
    [of |-> cmd[p].assessment,
     key |-> IF cmd[p].document = "signature" THEN pubKey ELSE NoPublishKey]

Place(p) == <<Directory(cmd[p].assessment), cmd[p].document>>

WriteTemp(p) ==
    /\ cmd[p].at = "persist"
    /\ temps' = With(temps, Place(p), Document(p))
    /\ Become(p, [cmd[p] EXCEPT !.at = "rename",
                                !.key = IF cmd[p].document = "signature" THEN pubKey ELSE @])
    /\ UNCHANGED <<root, pubKey, evidence, capsule, published, sent, faults>>

\* A transfer, when it is neither of the other two.
AfterPersist(p) ==
    CASE cmd[p].kind = "publish" -> "pack"
      [] cmd[p].kind = "stage"   -> "stage"
      [] OTHER                   -> "output"

RenameTemp(p) ==
    /\ cmd[p].at = "rename"
    /\ IF Place(p) \in DOMAIN temps
       THEN /\ evidence' = With(evidence, Place(p), temps[Place(p)])
            /\ temps' = Restrict(temps, DOMAIN temps \ {Place(p)})
            /\ LET next == NextDocument[cmd[p].document] IN
               IF next = "none" THEN Move(p, AfterPersist(p))
               ELSE Become(p, [cmd[p] EXCEPT !.at = "persist", !.document = next])
       ELSE Fail(p) /\ UNCHANGED <<evidence, temps>>
    /\ UNCHANGED <<root, pubKey, capsule, published, sent, faults>>
-----------------------------------------------------------------------------
(* A file is written or removed, while some commands run.                  *)
DirectoryChanges ==
    /\ \E f \in Files, b \in Bytes :
         /\ root' \in {With(root, f, b)}
                      \cup (IF f = Manifest THEN {} ELSE {Restrict(root, DOMAIN root \ {f})})
         /\ root' # root
         /\ f = Manifest => b \notin Links \cup Secrets
    /\ cmd' = [p \in Commands |->
                 [cmd[p] EXCEPT !.edited = @ \/ cmd[p].at \notin Over]]

Upload(p, how, files) == [by |-> p, how |-> how, files |-> files,
                          assessed |-> cmd[p].assessment.files, edited |-> cmd[p].edited]

(* `npm stage publish` is run without --ignore-scripts, unlike the calls   *)
(* that list or pack for an assessment: first the package's own            *)
(* prepublishOnly, prepack and prepare run, which may change any file ...  *)
RunPackScript(p) ==
    /\ cmd[p].at = "stage"
    /\ root[Manifest] \in Scripted
    /\ DirectoryChanges
    /\ UNCHANGED <<pubKey, temps, evidence, capsule, published, sent, faults>>

(* ... then it packs the directory again, as it is now.                    *)
StagePublish(p) ==
    /\ cmd[p].at = "stage"
    /\ \/ /\ sent' = sent \cup {Upload(p, "npm", Restrict(root, Packlist))}
          /\ End(p, "done")
       \/ Fail(p) /\ UNCHANGED sent
    /\ UNCHANGED <<root, pubKey, temps, evidence, capsule, published, faults>>

(* Both the direct upload and stage_assessed_files read every assessed     *)
(* file a second time; a transfer first refuses an output that exists.     *)
CheckOutput(p) ==
    /\ cmd[p].at = "output"
    /\ IF capsule = NoFiles THEN Move(p, "pack") ELSE Fail(p)
    /\ UNCHANGED <<root, pubKey, temps, evidence, capsule, published, sent, faults>>

PackFile(p) ==
    /\ cmd[p].at = "pack"
    /\ \E f \in cmd[p].list \ DOMAIN cmd[p].packed :
         IF f \in DOMAIN root
         THEN Become(p, [cmd[p] EXCEPT !.packed = With(@, f, root[f])])
         ELSE Fail(p)
    /\ UNCHANGED <<root, pubKey, temps, evidence, capsule, published, sent, faults>>

\* The tarball is complete; npm pack, which makes a transfer's, may leave a
\* staged file out.
Packed(p) ==
    /\ cmd[p].at = "pack"
    /\ DOMAIN cmd[p].packed = cmd[p].list
    /\ \/ cmd[p].kind = "publish" /\ Move(p, "check")
       \/ /\ cmd[p].kind = "transfer"
          /\ \E taken \in SUBSET cmd[p].list :
               Become(p, [cmd[p] EXCEPT !.at = "compare", !.packed = Restrict(@, taken)])
    /\ UNCHANGED <<root, pubKey, temps, evidence, capsule, published, sent, faults>>

(* The registry is asked for the release; no answer is as good as no       *)
(* release.  Without a token the command ends.                             *)
CheckPublished(p) ==
    /\ cmd[p].at = "check"
    /\ \/ cmd[p].version \in DOMAIN published /\ Fail(p)
       \/ Move(p, "put")
    /\ UNCHANGED <<root, pubKey, temps, evidence, capsule, published, sent, faults>>

(* The PUT; the registry keeps the first tarball of a release.  Its answer *)
(* may be lost.                                                            *)
Put(p) ==
    /\ cmd[p].at = "put"
    /\ sent' = sent \cup {Upload(p, "put", cmd[p].packed)}
    /\ published' = IF cmd[p].version \in DOMAIN published THEN published
                    ELSE With(published, cmd[p].version, cmd[p].packed)
    /\ \/ cmd[p].version \notin DOMAIN published /\ End(p, "done")
       \/ Fail(p)
    /\ UNCHANGED <<root, pubKey, temps, evidence, capsule, faults>>
-----------------------------------------------------------------------------
(* verify_tarball_matches_assessment: every entry assessed, with these     *)
(* bytes, and no assessed file missing.                                    *)
MatchesAssessment(tar, a) == tar = a.files

VerifyPacked(p) ==
    /\ cmd[p].at = "compare"
    /\ IF MatchesAssessment(cmd[p].packed, cmd[p].assessment)
       THEN Move(p, "tarball") ELSE Fail(p)
    /\ UNCHANGED <<root, pubKey, temps, evidence, capsule, published, sent, faults>>

PutPart(part, value) == capsule' = With(capsule, part, value)

CopyTarball(p) ==
    /\ cmd[p].at = "tarball"
    /\ PutPart("tar", cmd[p].packed)
    /\ Become(p, [cmd[p] EXCEPT !.at = "copy", !.document = FirstDocument])
    /\ UNCHANGED <<root, pubKey, temps, evidence, published, sent, faults>>

(* copy_asset takes a document from the evidence directory, whoever wrote  *)
(* it last, and records its digest for the manifest.                       *)
CopyDocument(p) ==
    /\ cmd[p].at = "copy"
    /\ LET value == evidence[Place(p)]
           next == NextCopied[cmd[p].document]
       IN /\ PutPart(cmd[p].document, value)
          /\ Become(p, [cmd[p] EXCEPT !.copied = With(@, cmd[p].document, value),
                                      !.document = IF next = "none" THEN @ ELSE next,
                                      !.at = IF next = "none" THEN "manifest" ELSE "copy"])
    /\ UNCHANGED <<root, pubKey, temps, evidence, published, sent, faults>>

(* The manifest names the tarball found in the output; it is signed with   *)
(* the key file's key, and names the one persist_signed used.              *)
WriteManifest(p) ==
    /\ cmd[p].at = "manifest"
    /\ PutPart("manifest",
               [version |-> cmd[p].assessment.version, digest |-> cmd[p].assessment.files,
                key |-> cmd[p].key, tar |-> capsule["tar"], evidence |-> cmd[p].copied])
    /\ Become(p, [cmd[p] EXCEPT !.at = "seal", !.copied = NoFiles])
    /\ UNCHANGED <<root, pubKey, temps, evidence, published, sent, faults>>

\* The signature was made over the command's own manifest.
SealCapsule(p) ==
    /\ cmd[p].at = "seal"
    /\ PutPart("seal", [by |-> p, key |-> pubKey])
    /\ End(p, "created")
    /\ UNCHANGED <<root, pubKey, temps, evidence, published, sent, faults>>
-----------------------------------------------------------------------------
(* verify_capsule, with --trusted-public-key.                              *)
Parts == Documents \cup {"tar", "manifest", "seal"}

VerifiesCapsule ==
    /\ Parts \subseteq DOMAIN capsule
    /\ LET m == capsule["manifest"]
           a == capsule["assessment"].of
           s == capsule["signature"]
       IN /\ capsule["seal"].key = m.key
          /\ capsule["tar"] = m.tar
          /\ \A d \in Documents : d \in DOMAIN m.evidence /\ capsule[d] = m.evidence[d]
          /\ MatchesAssessment(capsule["tar"], a)
          /\ s.of = a
          /\ s.key = m.key
          /\ a.version = m.version /\ a.files = m.digest
          /\ m.key = pubKey
-----------------------------------------------------------------------------
(* The user's editor, a killed command, and a capsule damaged on its way.  *)
Edit ==
    /\ faults.edits + faults.kills < MaxMishaps
    /\ faults' = [faults EXCEPT !.edits = @ + 1]
    /\ DirectoryChanges
    /\ UNCHANGED <<pubKey, temps, evidence, capsule, published, sent>>

Kill(p) ==
    /\ faults.edits + faults.kills < MaxMishaps
    /\ cmd[p].at \notin Over
    /\ faults' = [faults EXCEPT !.kills = @ + 1]
    /\ Fail(p)
    /\ UNCHANGED <<root, pubKey, temps, evidence, capsule, published, sent>>

DamageCapsule ==
    /\ faults.damage < MaxDamage
    /\ faults' = [faults EXCEPT !.damage = @ + 1]
    /\ {"tar", "seal"} \subseteq DOMAIN capsule
    /\ \E f \in DOMAIN capsule["tar"], b \in Bytes :
         PutPart("tar", [capsule["tar"] EXCEPT ![f] = b])
    /\ UNCHANGED <<root, pubKey, temps, evidence, published, sent, cmd>>

PublishStep(p) ==
    \/ \E kind \in Kinds : BeginPublish(p, kind)
    \/ List(p) \/ LoadPublishKey(p) \/ LinkPublishKey(p)
    \/ ReadFile(p) \/ Assess(p) \/ WriteTemp(p) \/ RenameTemp(p)
    \/ RunPackScript(p) \/ StagePublish(p) \/ CheckOutput(p) \/ PackFile(p) \/ Packed(p)
    \/ CheckPublished(p) \/ Put(p)
    \/ VerifyPacked(p) \/ CopyTarball(p) \/ CopyDocument(p)
    \/ WriteManifest(p) \/ SealCapsule(p) \/ Kill(p)

PublishNext == Edit \/ DamageCapsule \/ \E p \in Commands : PublishStep(p)

PublishSpec == PublishInit /\ [][PublishNext]_pubVars
-----------------------------------------------------------------------------
(* The type invariant: among it, that a previous release named in an       *)
(* assessment is lower than the assessed one.                              *)
PublishTypeOK ==
    /\ Manifest \in DOMAIN root
    /\ pubKey \in Commands \cup {NoPublishKey}
    /\ DOMAIN capsule \subseteq Parts
    /\ \A p \in Commands :
         /\ cmd[p].at \in Busy \cup Over \cup {"list", "key", "link", "read"}
         /\ cmd[p].list \subseteq Files
         /\ cmd[p].assessment.previous \in 0..(cmd[p].assessment.version)
         /\ cmd[p].assessment.previous = cmd[p].assessment.version => cmd[p].assessment.version = 0

(* A capsule that verification accepts holds no secret, whatever was       *)
(* edited, killed or damaged while or after it was made: verification      *)
(* itself never looks for one.                                             *)
AcceptedClean ==
    VerifiesCapsule => ~Blocked(capsule["tar"])

(* A transfer that reports success, and that no other command overlapped,  *)
(* made a capsule that verifies: its documents, its manifest and its keys  *)
(* belong together.                                                        *)
CreatedVerifies ==
    \A p \in Commands :
        (cmd[p].at = "created" /\ ~cmd[p].shared /\ faults.damage = 0) => VerifiesCapsule

(* What is uploaded is what was assessed and holds no secret, when neither *)
(* the user nor a script of the package changed the directory while the    *)
(* command ran: no upload path compares what it packs with the assessment. *)
(* Even then a direct upload sends the assessed paths, and no other file.  *)
SentAsAssessed ==
    \A u \in sent :
        /\ ~u.edited => /\ u.files = u.assessed
                        /\ \A f \in DOMAIN u.files : u.files[f] \notin Secrets
        /\ u.how = "put" => DOMAIN u.files = DOMAIN u.assessed

(* What leaves the machine, by upload or in a capsule, is what was          *)
(* assessed and carries evidence that belongs to it.                        *)
OutboundSound ==
    AcceptedClean /\ CreatedVerifies /\ SentAsAssessed
=============================================================================

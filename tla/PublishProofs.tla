--------------------------- MODULE PublishProofs ---------------------------
(***************************************************************************)
(* Proofs about Publish: the type invariant and OutboundSound, for all     *)
(* commands, files, contents, edits, kills and damage.  What is said of    *)
(* uploads follows one command and the directory it reads; what is said of *)
(* capsules follows one command that is alone with the evidence directory  *)
(* and the output.                                                         *)
(***************************************************************************)
EXTENDS Publish, WellFoundedInduction, TLAPS

Keys == Commands \cup {NoPublishKey}

\* What a directory, a tarball or an assessment may list.
Listings == UNION {[S -> Nat] : S \in SUBSET Files}

Assessments == [by : Keys, version : Nat, files : Listings, previous : Nat]
Signed == [of : Assessments, key : Keys]
Copies == UNION {[S -> Signed] : S \in SUBSET Documents}

Places == Busy \cup Over \cup {"list", "key", "link", "read"}

Cmds == [at : Places, kind : {"none", "publish", "stage", "transfer", "dry"},
         version : Nat, list : SUBSET Files, key : Keys, read : Listings,
         assessment : Assessments, document : Documents, packed : Listings,
         copied : Copies, edited : BOOLEAN, shared : BOOLEAN]

PublishTyped ==
    /\ root \in Listings /\ Manifest \in DOMAIN root
    /\ pubKey \in Keys
    /\ cmd \in [Commands -> Cmds]
    /\ \A e \in DOMAIN temps : temps[e] \in Signed
    /\ \A e \in DOMAIN evidence : evidence[e] \in Signed
    /\ DOMAIN capsule \subseteq Parts
    /\ "tar" \in DOMAIN capsule => capsule["tar"] \in Listings
    /\ faults \in [edits : Nat, kills : Nat, damage : Nat]

\* A release is compared with a lower one.
Ordered(a) == a.previous <= a.version /\ (a.previous = a.version => a.version = 0)
PreviousLower == \A p \in Commands : Ordered(cmd[p].assessment)

\* The key file is there before anything is read, and stays.
KeyThere ==
    \A p \in Commands :
        cmd[p].at \in Busy \cup {"read", "created"} => pubKey # NoPublishKey

-----------------------------------------------------------------------------
(* No secret is ever in an assessment that leaves a command's memory.      *)
CleanMade ==
    /\ \A p \in Commands : ~Blocked(cmd[p].assessment.files)
    /\ \A e \in DOMAIN temps : ~Blocked(temps[e].of.files)
    /\ \A e \in DOMAIN evidence : ~Blocked(evidence[e].of.files)
    /\ "assessment" \in DOMAIN capsule => ~Blocked(capsule["assessment"].of.files)

-----------------------------------------------------------------------------
(* As long as the directory is not edited, what a command listed, read,    *)
(* assessed and packed is what the directory holds.                        *)
Matches(files) == \A f \in DOMAIN files : f \in DOMAIN root /\ files[f] = root[f]

FollowsDirectory(p) ==
    /\ cmd[p].at \in {"idle", "list"} => DOMAIN cmd[p].read = {} /\ DOMAIN cmd[p].packed = {}
    /\ cmd[p].at \in {"check", "put"} => DOMAIN cmd[p].packed = cmd[p].list
    /\ cmd[p].at \in Busy => DOMAIN cmd[p].assessment.files = cmd[p].list
    /\ cmd[p].at \notin Over \cup {"list"} /\ ~cmd[p].edited =>
         /\ cmd[p].list = Packlist
         /\ DOMAIN cmd[p].read \subseteq cmd[p].list /\ Matches(cmd[p].read)
         /\ DOMAIN cmd[p].packed \subseteq cmd[p].list /\ Matches(cmd[p].packed)
         /\ cmd[p].at \in Busy =>
              Matches(cmd[p].assessment.files)

-----------------------------------------------------------------------------
(* Two commands at the evidence and the output at once are both marked; a  *)
(* command that is not marked finds there what it wrote itself.            *)
Apart ==
    \A p, q \in Commands :
        p # q /\ Active(p) /\ Active(q) => cmd[p].shared /\ cmd[q].shared

Own(p, d) == [of |-> cmd[p].assessment,
              key |-> IF d = "signature" THEN pubKey ELSE NoPublishKey]

At(p, d) == <<Directory(cmd[p].assessment), d>>

Stored(p, d) == At(p, d) \in DOMAIN evidence /\ evidence[At(p, d)] = Own(p, d)

\* The documents persist_signed has renamed into place.
Renamed(p) ==
    IF cmd[p].at \in {"persist", "rename"}
    THEN {d \in Documents : \/ d = "assessment" /\ cmd[p].document # "assessment"
                            \/ d = "derived" /\ cmd[p].document = "signature"}
    ELSE Documents

\* The documents create_capsule has copied.
Taken(p) ==
    IF cmd[p].at = "copy"
    THEN {d \in Documents : \/ d = "assessment" /\ cmd[p].document # "assessment"
                            \/ d = "signature" /\ cmd[p].document = "derived"}
    ELSE IF cmd[p].at \in {"manifest", "seal"} THEN Documents ELSE {}

Persisting(p) ==
    /\ \A d \in Renamed(p) : Stored(p, d)
    /\ cmd[p].at = "rename" =>
         /\ Place(p) \in DOMAIN temps /\ temps[Place(p)] = Own(p, cmd[p].document)
         /\ cmd[p].document = "signature" => cmd[p].key = pubKey
    /\ cmd[p].at \notin {"persist", "rename"} => cmd[p].key = pubKey

\* What was renamed into place is never taken away, marked or not.
Evidenced(p) == Active(p) => \A d \in Renamed(p) : At(p, d) \in DOMAIN evidence

\* Whose output it is to write.
Writing(p) ==
    \/ cmd[p].at \in {"compare", "tarball", "copy", "manifest", "seal"}
    \/ cmd[p].at = "pack" /\ cmd[p].kind = "transfer"

Filling(p) ==
    /\ Writing(p) /\ cmd[p].at \in {"pack", "compare", "tarball"} => capsule = NoFiles
    /\ cmd[p].at = "tarball" => cmd[p].packed = cmd[p].assessment.files
    /\ cmd[p].at \in {"copy", "manifest", "seal"} =>
         /\ "seal" \notin DOMAIN capsule
         /\ "tar" \in DOMAIN capsule /\ capsule["tar"] = cmd[p].assessment.files
         /\ \A d \in Taken(p) : d \in DOMAIN capsule /\ capsule[d] = Own(p, d)
    /\ cmd[p].at \in {"copy", "manifest"} =>
         \A d \in Taken(p) : d \in DOMAIN cmd[p].copied /\ cmd[p].copied[d] = Own(p, d)
    /\ cmd[p].at = "seal" =>
         /\ "manifest" \in DOMAIN capsule
         /\ LET m == capsule["manifest"] IN
            /\ m.version = cmd[p].assessment.version /\ m.digest = cmd[p].assessment.files
            /\ m.key = pubKey /\ m.tar = cmd[p].assessment.files
            /\ \A d \in Documents : d \in DOMAIN m.evidence /\ m.evidence[d] = Own(p, d)

Unmarked(p) == Active(p) /\ ~cmd[p].shared => Persisting(p) /\ Filling(p)

\* A command begins with the first document.
Unwritten(p) == cmd[p].at \in {"idle", "list", "key", "link", "read"} =>
                  cmd[p].document = FirstDocument

\* The capsule of an unmarked command stays as it made it.
Finished(p) ==
    cmd[p].at = "created" /\ ~cmd[p].shared =>
        /\ Parts \subseteq DOMAIN capsule
        /\ \A q \in Commands : ~Writing(q)
        /\ faults.damage = 0 => VerifiesCapsule

PublishInv ==
    /\ PublishTyped /\ PreviousLower /\ KeyThere /\ CleanMade
    /\ \A p \in Commands : FollowsDirectory(p)
    /\ SentAsAssessed
    /\ Apart
    /\ \A p \in Commands : Evidenced(p) /\ Unwritten(p) /\ Unmarked(p) /\ Finished(p)

-----------------------------------------------------------------------------
(* Listings, and the records built from them.                              *)
LEMMA ListingMade ==
    ASSUME NEW S \in SUBSET Files, NEW x \in [S -> Nat]
    PROVE  x \in Listings /\ DOMAIN x = S
  BY DEF Listings

LEMMA ListingIs ==
    ASSUME NEW x \in Listings
    PROVE  DOMAIN x \in SUBSET Files /\ x \in [DOMAIN x -> Nat]
  <1>1. PICK S \in SUBSET Files : x \in [S -> Nat]
    BY DEF Listings
  <1> QED
    BY <1>1

LEMMA WithListing ==
    ASSUME NEW x \in Listings, NEW f \in Files, NEW n \in Nat
    PROVE  /\ With(x, f, n) \in Listings /\ DOMAIN With(x, f, n) = DOMAIN x \cup {f}
           /\ With(x, f, n)[f] = n
           /\ \A g \in DOMAIN x \ {f} : With(x, f, n)[g] = x[g]
  <1>1. DOMAIN x \in SUBSET Files /\ x \in [DOMAIN x -> Nat]
    BY ListingIs
  <1>2. PICK S \in SUBSET Files : S = DOMAIN x \cup {f}
    BY <1>1
  <1>3. With(x, f, n) \in [S -> Nat]
    BY <1>1, <1>2 DEF With
  <1>4. With(x, f, n) \in Listings /\ DOMAIN With(x, f, n) = S
    BY <1>3, ListingMade
  <1>5. With(x, f, n)[f] = n /\ \A g \in DOMAIN x \ {f} : With(x, f, n)[g] = x[g]
    BY DEF With
  <1> QED
    BY <1>2, <1>4, <1>5

LEMMA RestrictListing ==
    ASSUME NEW x \in Listings, NEW S \in SUBSET DOMAIN x
    PROVE  /\ Restrict(x, S) \in Listings /\ DOMAIN Restrict(x, S) = S
           /\ \A g \in S : Restrict(x, S)[g] = x[g]
  <1>1. DOMAIN x \in SUBSET Files /\ x \in [DOMAIN x -> Nat]
    BY ListingIs
  <1>2. S \in SUBSET Files /\ Restrict(x, S) \in [S -> Nat]
    BY <1>1 DEF Restrict
  <1>3. \A g \in S : Restrict(x, S)[g] = x[g]
    BY DEF Restrict
  <1> QED
    BY <1>2, <1>3, ListingMade

LEMMA SameListing ==
    ASSUME NEW x \in Listings, NEW y \in Listings, DOMAIN x = DOMAIN y,
           \A f \in DOMAIN x : x[f] = y[f]
    PROVE  x = y
  <1>1. x \in [DOMAIN x -> Nat] /\ y \in [DOMAIN x -> Nat]
    BY ListingIs
  <1> QED
    BY <1>1

LEMMA NothingListed ==
    /\ NoFiles \in Listings /\ NoFiles \in Copies /\ DOMAIN NoFiles = {}
  <1>1. DOMAIN <<>> = {}
    OBVIOUS
  <1>2. <<>> \in [{} -> Nat] /\ <<>> \in [{} -> Signed]
    OBVIOUS
  <1> QED
    BY <1>1, <1>2 DEF NoFiles, Listings, Copies

LEMMA WithCopy ==
    ASSUME NEW x \in Copies, NEW d \in Documents, NEW v \in Signed
    PROVE  /\ With(x, d, v) \in Copies /\ With(x, d, v)[d] = v
           /\ DOMAIN With(x, d, v) = DOMAIN x \cup {d}
           /\ \A e \in DOMAIN x \ {d} : With(x, d, v)[e] = x[e]
  <1>1. PICK S \in SUBSET Documents : x \in [S -> Signed]
    BY DEF Copies
  <1>2. S \cup {d} \in SUBSET Documents /\ With(x, d, v) \in [S \cup {d} -> Signed]
    BY <1>1 DEF With
  <1>3. With(x, d, v) \in Copies
    BY <1>2 DEF Copies
  <1> QED
    BY <1>3 DEF With

LEMMA IdleTyped ==
    /\ Idle \in Cmds /\ Ordered(NoAssessment) /\ ~Blocked(NoAssessment.files)
    /\ Idle.assessment = NoAssessment
  <1>1. NoAssessment \in Assessments /\ NoAssessment.files = NoFiles
        /\ NoAssessment.previous = 0 /\ NoAssessment.version = 0
    BY NothingListed DEF NoAssessment, Assessments, Keys
  <1>2. Idle \in Cmds
    <2>1. FirstDocument \in Documents /\ "idle" \in Places /\ NoPublishKey \in Keys
      BY DEF FirstDocument, Documents, Places, Over, Keys
    <2> QED
      BY <1>1, <2>1, NothingListed DEF Idle, Cmds
  <1>3. Idle.assessment = NoAssessment
    BY DEF Idle
  <1>4. Ordered(NoAssessment)
    BY <1>1 DEF Ordered
  <1>5. ~Blocked(NoAssessment.files)
    BY <1>1, NothingListed DEF Blocked
  <1> QED
    BY <1>2, <1>3, <1>4, <1>5

-----------------------------------------------------------------------------
(* A step of one command.  Whatever it does to the files that commands     *)
(* share it does as an active one, so no other command is both active and  *)
(* unmarked; and it touches the output only while that is its own.         *)
SharesKept(p) ==
    \/ UNCHANGED <<temps, evidence, capsule>>
    \/ /\ Active(p)
       /\ \A e \in DOMAIN temps' : temps'[e] \in Signed /\ ~Blocked(temps'[e].of.files)
       /\ \A e \in DOMAIN evidence' : evidence'[e] \in Signed /\ ~Blocked(evidence'[e].of.files)
       /\ DOMAIN evidence \subseteq DOMAIN evidence'
       /\ \/ capsule' = capsule
          \/ /\ Writing(p) /\ DOMAIN capsule' \subseteq Parts
             /\ "tar" \in DOMAIN capsule' => capsule'["tar"] \in Listings
             /\ "assessment" \in DOMAIN capsule' => ~Blocked(capsule'["assessment"].of.files)

\* What a command that did nothing still has.
LEMMA BystanderKeeps ==
    ASSUME PublishInv, NEW p \in Commands, NEW q \in Commands, q # p, cmd'[q] = cmd[q],
           root' = root, faults'.damage = faults.damage, SharesKept(p),
           pubKey' = pubKey \/ pubKey = NoPublishKey
    PROVE  /\ FollowsDirectory(q)' /\ Evidenced(q)' /\ Unwritten(q)' /\ Unmarked(q)'
           /\ cmd[q].at = "created" /\ ~cmd[q].shared =>
                /\ Parts \subseteq DOMAIN capsule'
                /\ faults'.damage = 0 => VerifiesCapsule'
  <1> USE DEF PublishInv
  <1>1. FollowsDirectory(q)'
    BY DEF FollowsDirectory, Matches, Packlist
  <1>2. Unwritten(q)'
    BY DEF Unwritten
  <1>3. Evidenced(q)'
    <2>1. DOMAIN evidence \subseteq DOMAIN evidence'
      BY DEF SharesKept
    <2>2. (Active(q)' <=> Active(q)) /\ Renamed(q)' = Renamed(q)
      BY DEF Active, Renamed
    <2>3. \A d : At(q, d)' = At(q, d)
      BY DEF At
    <2> QED
      BY <2>1, <2>2, <2>3 DEF Evidenced
  <1>4. Unmarked(q)'
    <2>1. SUFFICES ASSUME Active(q), ~cmd[q].shared PROVE Persisting(q)' /\ Filling(q)'
      BY DEF Unmarked, Active
    <2>2. ~Active(p)
      BY <2>1 DEF Apart
    <2>3. UNCHANGED <<temps, evidence, capsule>>
      BY <2>2 DEF SharesKept
    <2>4. pubKey' = pubKey
      BY <2>1 DEF KeyThere, Active
    <2>5. Persisting(q) /\ Filling(q)
      BY <2>1 DEF Unmarked
    <2>6. Renamed(q)' = Renamed(q) /\ Taken(q)' = Taken(q) /\ (Writing(q)' <=> Writing(q))
          /\ Place(q)' = Place(q)
      BY DEF Renamed, Taken, Writing, Place
    <2>7. \A d : Own(q, d)' = Own(q, d) /\ (Stored(q, d)' <=> Stored(q, d))
      BY <2>3, <2>4 DEF Own, Stored, At
    <2>8. Own(q, cmd[q].document)' = Own(q, cmd[q].document)
      BY <2>4 DEF Own
    <2>9. Persisting(q)'
      BY <2>3, <2>4, <2>5, <2>6, <2>7, <2>8 DEF Persisting
    <2>10. Filling(q)'
      BY <2>3, <2>4, <2>5, <2>6, <2>7 DEF Filling
    <2> QED
      BY <2>9, <2>10
  <1>5. ASSUME cmd[q].at = "created", ~cmd[q].shared
        PROVE  /\ Parts \subseteq DOMAIN capsule'
               /\ faults'.damage = 0 => VerifiesCapsule'
    <2>1. ~Writing(p) /\ Parts \subseteq DOMAIN capsule
          /\ (faults.damage = 0 => VerifiesCapsule)
      BY <1>5 DEF Finished
    <2>2. capsule' = capsule
      BY <2>1 DEF SharesKept
    <2>3. pubKey' = pubKey
      BY <1>5 DEF KeyThere
    <2>4. VerifiesCapsule => VerifiesCapsule'
      BY <2>2, <2>3 DEF VerifiesCapsule
    <2> QED
      BY <2>1, <2>2, <2>4
  <1> QED
    BY <1>1, <1>2, <1>3, <1>4, <1>5

\* What a step has to show of the command that takes it.
LEMMA StepKeeps ==
    ASSUME PublishInv, NEW p \in Commands, NEW c \in Cmds, Become(p, c),
           root' = root, SharesKept(p), SentAsAssessed',
           faults' \in [edits : Nat, kills : Nat, damage : Nat],
           faults'.damage = faults.damage,
           pubKey' \in Keys, pubKey' = pubKey \/ pubKey = NoPublishKey,
           c.at \in Busy \cup {"read", "created"} => pubKey' # NoPublishKey,
           Ordered(c.assessment), ~Blocked(c.assessment.files),
           c.at \in Busy => Active(p) /\ c.shared = cmd[p].shared,
           Writing(p)' => Writing(p) \/ capsule = NoFiles,
           FollowsDirectory(p)', Evidenced(p)', Unwritten(p)', Unmarked(p)', Finished(p)'
    PROVE  PublishInv'
  <1> USE DEF PublishInv
  <1>1. /\ cmd' \in [Commands -> Cmds] /\ cmd'[p] = c
        /\ \A q \in Commands \ {p} : cmd'[q] = cmd[q]
    BY DEF Become, PublishTyped
  <1>2. PublishTyped'
    BY <1>1 DEF PublishTyped, SharesKept
  <1>3. PreviousLower'
    BY <1>1 DEF PreviousLower
  <1>4. KeyThere'
    BY <1>1 DEF KeyThere
  <1>5. CleanMade'
    <2>1. \A q \in Commands : ~Blocked(cmd'[q].assessment.files)
      BY <1>1 DEF CleanMade
    <2>2. \A e \in DOMAIN temps' : ~Blocked(temps'[e].of.files)
      BY DEF CleanMade, SharesKept
    <2>3. \A e \in DOMAIN evidence' : ~Blocked(evidence'[e].of.files)
      BY DEF CleanMade, SharesKept
    <2>4. "assessment" \in DOMAIN capsule' => ~Blocked(capsule'["assessment"].of.files)
      BY DEF CleanMade, SharesKept
    <2> QED
      BY <2>1, <2>2, <2>3, <2>4 DEF CleanMade, Blocked
  <1>6. Apart'
    <2>1. SUFFICES ASSUME NEW x \in Commands, NEW y \in Commands, x # y,
                          cmd'[x].at \in Busy, cmd'[y].at \in Busy
                   PROVE  cmd'[x].shared /\ cmd'[y].shared
      BY DEF Apart, Active
    <2>2. \A z \in {x, y} : Active(z) /\ cmd'[z].shared = cmd[z].shared
      BY <1>1, <2>1 DEF Active
    <2> QED
      BY <2>1, <2>2 DEF Apart
  <1>7. ASSUME NEW q \in Commands
        PROVE  FollowsDirectory(q)' /\ Evidenced(q)' /\ Unwritten(q)' /\ Unmarked(q)'
    BY <1>1, <1>7, BystanderKeeps
  <1>8. ASSUME NEW q \in Commands PROVE Finished(q)'
    <2>1. CASE q = p
      BY <2>1
    <2>2. CASE q # p
      <3>1. SUFFICES ASSUME cmd[q].at = "created", ~cmd[q].shared
                     PROVE  /\ Parts \subseteq DOMAIN capsule'
                            /\ \A r \in Commands : ~Writing(r)'
                            /\ faults'.damage = 0 => VerifiesCapsule'
        BY <1>1, <2>2 DEF Finished
      <3>2. /\ Parts \subseteq DOMAIN capsule'
            /\ faults'.damage = 0 => VerifiesCapsule'
        BY <1>1, <2>2, <3>1, BystanderKeeps
      <3>3. (\A r \in Commands : ~Writing(r)) /\ capsule # NoFiles
        <4>1. Parts \subseteq DOMAIN capsule /\ "tar" \in Parts
          BY <3>1 DEF Finished, Parts
        <4>2. capsule # NoFiles
          BY <4>1, NothingListed
        <4> QED
          BY <3>1, <4>2 DEF Finished
      <3>4. ASSUME NEW r \in Commands PROVE ~Writing(r)'
        <4>1. CASE r = p
          BY <3>3, <4>1
        <4>2. CASE r # p
          BY <1>1, <3>3, <4>2 DEF Writing
        <4> QED
          BY <4>1, <4>2
      <3> QED
        BY <3>2, <3>4
    <2> QED
      BY <2>1, <2>2
  <1> QED
    BY <1>2, <1>3, <1>4, <1>5, <1>6, <1>7, <1>8

\* A command that ends leaves nothing to show but what it sent.
LEMMA EndKeeps ==
    ASSUME PublishInv, NEW p \in Commands, NEW at \in {"done", "failed", "denied"}, End(p, at),
           UNCHANGED <<root, pubKey, temps, evidence, capsule>>, SentAsAssessed',
           faults' \in [edits : Nat, kills : Nat, damage : Nat],
           faults'.damage = faults.damage
    PROVE  PublishInv'
  <1>1. PICK c \in Cmds :
          /\ Become(p, c) /\ c.at = at /\ c.assessment = NoAssessment
          /\ c.document = FirstDocument
    <2>1. cmd[p] \in Cmds
      BY DEF PublishInv, PublishTyped
    <2>2. PICK s \in BOOLEAN : s = cmd[p].shared
      BY <2>1 DEF Cmds
    <2>3. at \in Places /\ PublishInv
      BY DEF Places, Over
    <2>4. PICK c : c = [Idle EXCEPT !.at = at, !.shared = s]
      OBVIOUS
    <2>5. c \in Cmds /\ c.at = at
      BY <2>3, <2>4, IdleTyped DEF Cmds
    <2>6. c.assessment = Idle.assessment /\ c.document = Idle.document
      BY <2>4, IdleTyped DEF Cmds
    <2>7. Become(p, c)
      BY <2>2, <2>4 DEF End
    <2> QED
      BY <2>5, <2>6, <2>7, IdleTyped DEF Idle
  <1>2. cmd'[p] = c
    BY <1>1 DEF Become, PublishInv, PublishTyped
  <1>3. c.at \notin Busy \cup {"read", "created", "idle", "list", "key", "link", "check", "put"} /\ c.at \in Over
    BY <1>1 DEF Busy, Over
  <1>4. SharesKept(p)
    BY DEF SharesKept
  <1>5. ~Writing(p)'
    BY <1>2, <1>3 DEF Writing, Busy
  <1>6. FollowsDirectory(p)' /\ Unwritten(p)' /\ Finished(p)'
    BY <1>2, <1>3 DEF FollowsDirectory, Unwritten, Finished
  <1>7. Evidenced(p)' /\ Unmarked(p)'
    BY <1>2, <1>3 DEF Evidenced, Unmarked, Active
  <1>8. pubKey' \in Keys
    BY DEF PublishInv, PublishTyped
  <1> QED
    BY <1>1, <1>3, <1>4, <1>5, <1>6, <1>7, <1>8, IdleTyped, StepKeeps

-----------------------------------------------------------------------------
(* Before the evidence is written a command changes nothing but itself and *)
(* the key file.                                                           *)
LEMMA CmdIs ==
    ASSUME PublishInv, NEW p \in Commands
    PROVE  /\ cmd[p] \in Cmds
           /\ cmd[p].list \in SUBSET Files /\ cmd[p].read \in Listings /\ cmd[p].packed \in Listings
           /\ cmd[p].assessment \in Assessments /\ cmd[p].assessment.files \in Listings
           /\ cmd[p].document \in Documents /\ cmd[p].copied \in Copies
           /\ cmd[p].edited \in BOOLEAN /\ cmd[p].shared \in BOOLEAN /\ cmd[p].key \in Keys
           /\ \A c : Become(p, c) => cmd'[p] = c
  <1>1. cmd[p] \in Cmds /\ \A c : Become(p, c) => cmd'[p] = c
    BY DEF PublishInv, PublishTyped, Become
  <1>2. cmd[p].assessment \in Assessments
    BY <1>1 DEF Cmds
  <1>3. cmd[p].assessment.files \in Listings
    BY <1>2 DEF Assessments
  <1> QED
    BY <1>1, <1>2, <1>3 DEF Cmds

LEMMA RootIs ==
    ASSUME PublishInv
    PROVE  /\ root \in Listings /\ Packlist \in SUBSET Files /\ Packlist \in SUBSET DOMAIN root
           /\ Manifest \in DOMAIN root /\ \A f \in DOMAIN root : f \in Files /\ root[f] \in Nat
  <1>1. root \in Listings /\ Manifest \in DOMAIN root
    BY DEF PublishInv, PublishTyped
  <1>2. DOMAIN root \in SUBSET Files /\ root \in [DOMAIN root -> Nat]
    BY <1>1, ListingIs
  <1> QED
    BY <1>1, <1>2 DEF Packlist

LEMMA EarlyKeeps ==
    ASSUME PublishInv, NEW p \in Commands, NEW c \in Cmds, Become(p, c),
           UNCHANGED <<root, temps, evidence, capsule, sent, faults>>,
           cmd[p].at \in {"idle", "list", "key", "link", "read"},
           c.at \in {"list", "key", "link", "read"},
           pubKey' \in Keys, pubKey' = pubKey \/ pubKey = NoPublishKey,
           c.at = "read" => pubKey' # NoPublishKey,
           c.assessment = cmd[p].assessment, c.document = cmd[p].document,
           FollowsDirectory(p)'
    PROVE  PublishInv'
  <1>1. cmd'[p] = c
    BY CmdIs
  <1>2. c.at \notin Busy
    BY DEF Busy
  <1>3. SharesKept(p) /\ SentAsAssessed'
    BY DEF SharesKept, PublishInv, SentAsAssessed
  <1>4. Ordered(c.assessment) /\ ~Blocked(c.assessment.files)
    BY DEF PublishInv, PreviousLower, CleanMade
  <1>5. ~Writing(p)'
    BY <1>1 DEF Writing
  <1>6. Unwritten(p)'
    BY <1>1 DEF Unwritten, PublishInv
  <1>7. Evidenced(p)' /\ Unmarked(p)' /\ Finished(p)'
    BY <1>1, <1>2 DEF Evidenced, Unmarked, Finished, Active
  <1>8. /\ faults' \in [edits : Nat, kills : Nat, damage : Nat]
        /\ faults'.damage = faults.damage
    BY DEF PublishInv, PublishTyped
  <1>9. c.at \in Busy \cup {"read", "created"} => pubKey' # NoPublishKey
    BY <1>2
  <1> QED
    BY <1>2, <1>3, <1>4, <1>5, <1>6, <1>7, <1>8, <1>9, StepKeeps

\* A command that fails and changes nothing else.
LEMMA FailKeeps ==
    ASSUME PublishInv, NEW p \in Commands, NEW at \in {"done", "failed", "denied"}, End(p, at),
           UNCHANGED <<root, pubKey, temps, evidence, capsule, sent, faults>>
    PROVE  PublishInv'
  <1>1. SentAsAssessed'
    BY DEF PublishInv, SentAsAssessed
  <1>2. /\ faults' \in [edits : Nat, kills : Nat, damage : Nat]
        /\ faults'.damage = faults.damage
    BY DEF PublishInv, PublishTyped
  <1> QED
    BY <1>1, <1>2, EndKeeps

LEMMA BeginKeeps ==
    ASSUME PublishInv, NEW p \in Commands, NEW kind \in Kinds, BeginPublish(p, kind)
    PROVE  PublishInv'
  <1>1. PICK d \in Cmds : d = cmd[p]
    BY CmdIs
  <1>2. PICK n \in Nat : n = root[Manifest]
    BY RootIs
  <1>3. PICK c : c = [d EXCEPT !.at = "list", !.kind = kind, !.version = n]
    OBVIOUS
  <1>4. /\ c \in Cmds /\ c.at = "list" /\ c.assessment = d.assessment
        /\ c.document = d.document /\ c.read = d.read /\ c.packed = d.packed
    BY <1>3, PublishAssumption DEF Cmds, Places
  <1>5. Become(p, c) /\ d.at = "idle" /\ cmd'[p] = c
    BY <1>1, <1>2, <1>3, CmdIs DEF BeginPublish
  <1>6. FollowsDirectory(p)'
    <2>1. FollowsDirectory(p)
      BY DEF PublishInv
    <2>2. c.at \notin Busy
      BY <1>4 DEF Busy
    <2> QED
      BY <1>1, <1>4, <1>5, <2>1, <2>2 DEF FollowsDirectory
  <1>7. pubKey' \in Keys
    BY DEF BeginPublish, PublishInv, PublishTyped
  <1> QED
    BY <1>1, <1>4, <1>5, <1>6, <1>7, EarlyKeeps DEF BeginPublish

LEMMA ListKeeps ==
    ASSUME PublishInv, NEW p \in Commands, List(p)
    PROVE  PublishInv'
  <1>1. CASE Fail(p)
    BY <1>1, FailKeeps DEF List, Fail
  <1>2. CASE Become(p, [cmd[p] EXCEPT !.at = "key", !.list = Packlist])
    <2>1. PICK d \in Cmds : d = cmd[p]
      BY CmdIs
    <2>2. PICK l \in SUBSET Files : l = Packlist
      BY RootIs
    <2>3. PICK c : c = [d EXCEPT !.at = "key", !.list = l]
      OBVIOUS
    <2>4. /\ c \in Cmds /\ c.at = "key" /\ c.assessment = d.assessment /\ c.list = l
          /\ c.document = d.document /\ c.read = d.read /\ c.packed = d.packed
      BY <2>3 DEF Cmds, Places
    <2>5. Become(p, c) /\ d.at = "list" /\ cmd'[p] = c /\ root' = root
      BY <1>2, <2>1, <2>2, <2>3, CmdIs DEF List
    <2>6. FollowsDirectory(p)'
      <3>1. DOMAIN d.read = {} /\ DOMAIN d.packed = {}
        BY <2>1, <2>5 DEF PublishInv, FollowsDirectory
      <3>2. l = Packlist'
        BY <2>2, <2>5 DEF Packlist
      <3>3. Matches(c.read)' /\ Matches(c.packed)'
        BY <2>4, <3>1 DEF Matches
      <3>4. c.at \notin Busy
        BY <2>4 DEF Busy
      <3> QED
        BY <2>4, <2>5, <3>1, <3>2, <3>3, <3>4 DEF FollowsDirectory
    <2>7. pubKey' \in Keys
      BY DEF List, PublishInv, PublishTyped
    <2> QED
      BY <2>1, <2>4, <2>5, <2>6, <2>7, EarlyKeeps DEF List
  <1> QED
    BY <1>1, <1>2 DEF List

\* What follows the directory still does after a step that leaves it alone.
LEMMA StillFollows ==
    ASSUME PublishInv, NEW p \in Commands, NEW c, cmd'[p] = c, root' = root,
           cmd[p].at \notin Over \cup {"list"},
           c.at \notin {"idle", "list"},
           c.at \in {"check", "put"} => DOMAIN c.packed = c.list,
           c.edited = cmd[p].edited, c.list = cmd[p].list,
           c.at \in Busy => DOMAIN c.assessment.files = c.list,
           ~c.edited => /\ DOMAIN c.read \subseteq c.list /\ Matches(c.read)
                        /\ DOMAIN c.packed \subseteq c.list /\ Matches(c.packed)
                        /\ c.at \in Busy => Matches(c.assessment.files)
    PROVE  FollowsDirectory(p)'
  <1>1. cmd[p].edited \/ cmd[p].list = Packlist
    BY DEF PublishInv, FollowsDirectory
  <1> QED
    BY <1>1 DEF FollowsDirectory, Matches, Packlist

LEMMA KeyKeeps ==
    ASSUME PublishInv, NEW p \in Commands, LoadPublishKey(p) \/ LinkPublishKey(p)
    PROVE  PublishInv'
  <1>1. PICK d \in Cmds : d = cmd[p]
    BY CmdIs
  <1>2. d.at \in {"key", "link"} /\ UNCHANGED <<root, temps, evidence, capsule, sent, faults>>
    BY <1>1 DEF LoadPublishKey, LinkPublishKey
  <1>3. PICK k \in Keys, at \in {"link", "read"}, key \in Keys :
          /\ pubKey' = k /\ (k = pubKey \/ pubKey = NoPublishKey) /\ (at = "read" => k # NoPublishKey)
          /\ Become(p, [d EXCEPT !.at = at, !.key = key]) 
    <2>1. pubKey \in Keys /\ d.key \in Keys
      BY DEF PublishInv, PublishTyped, Cmds
    <2>2. CASE LoadPublishKey(p) /\ pubKey = NoPublishKey
      <3>1. [d EXCEPT !.at = "link"] = [d EXCEPT !.at = "link", !.key = d.key]
        BY DEF Cmds
      <3> QED
        BY <1>1, <2>1, <2>2, <3>1 DEF LoadPublishKey, Move
    <2>3. CASE LoadPublishKey(p) /\ pubKey # NoPublishKey
      BY <1>1, <2>1, <2>3 DEF LoadPublishKey
    <2>4. CASE LinkPublishKey(p)
      <3>1. PICK k \in Keys : k = IF pubKey = NoPublishKey THEN p ELSE pubKey
        BY <2>1 DEF Keys
      <3>2. k # NoPublishKey /\ pubKey' = k /\ (k = pubKey \/ pubKey = NoPublishKey)
        BY <2>4, <3>1, PublishAssumption DEF LinkPublishKey
      <3>3. Become(p, [d EXCEPT !.at = "read", !.key = k])
        BY <1>1, <2>4, <3>2 DEF LinkPublishKey
      <3> QED
        BY <3>2, <3>3
    <2> QED
      BY <2>2, <2>3, <2>4
  <1>4. PICK c : c = [d EXCEPT !.at = at, !.key = key]
    OBVIOUS
  <1>5. /\ c \in Cmds /\ c.at = at /\ c.assessment = d.assessment /\ c.list = d.list
        /\ c.document = d.document /\ c.read = d.read /\ c.packed = d.packed /\ c.edited = d.edited
    BY <1>4 DEF Cmds, Places
  <1>6. Become(p, c) /\ cmd'[p] = c
    BY <1>3, <1>4, CmdIs
  <1>7. FollowsDirectory(p)'
    <2>1. ~d.edited => /\ DOMAIN d.read \subseteq d.list /\ Matches(d.read)
                       /\ DOMAIN d.packed \subseteq d.list /\ Matches(d.packed)
      BY <1>1, <1>2 DEF PublishInv, FollowsDirectory, Over
    <2>2. d.at \notin Over \cup {"list"} /\ c.at \notin Busy \cup {"idle", "list", "check", "put"}
      BY <1>2, <1>5 DEF Over, Busy
    <2> QED
      BY <1>1, <1>2, <1>5, <1>6, <2>1, <2>2, StillFollows
  <1> QED
    BY <1>1, <1>2, <1>3, <1>5, <1>6, <1>7, EarlyKeeps

\* One more file of an unedited directory.
LEMMA OneMore ==
    ASSUME PublishInv, NEW x \in Listings, NEW f \in DOMAIN root
    PROVE  /\ With(x, f, root[f]) \in Listings
           /\ DOMAIN With(x, f, root[f]) = DOMAIN x \cup {f}
           /\ Matches(x) => Matches(With(x, f, root[f]))
  <1>1. f \in Files /\ root[f] \in Nat
    BY RootIs
  <1>2. PICK n \in Nat : n = root[f]
    BY <1>1
  <1>3. PICK y : y = With(x, f, n)
    OBVIOUS
  <1>4. y \in Listings /\ DOMAIN y = DOMAIN x \cup {f} /\ y[f] = n /\ \A g \in DOMAIN x \ {f} : y[g] = x[g]
    BY <1>1, <1>3, WithListing
  <1>5. Matches(x) => Matches(y)
    BY <1>2, <1>4 DEF Matches
  <1> QED
    BY <1>2, <1>3, <1>4, <1>5

LEMMA ReadKeeps ==
    ASSUME PublishInv, NEW p \in Commands, ReadFile(p)
    PROVE  PublishInv'
  <1>1. CASE Fail(p)
    BY <1>1, FailKeeps DEF ReadFile, Fail
  <1>2. ASSUME NEW f \in cmd[p].list \ DOMAIN cmd[p].read, f \in DOMAIN root,
               Become(p, [cmd[p] EXCEPT !.read = With(@, f, root[f])])
        PROVE  PublishInv'
    <2>1. PICK d \in Cmds : d = cmd[p]
      BY CmdIs
    <2>2. PICK y \in Listings : /\ y = With(d.read, f, root[f]) /\ DOMAIN y = DOMAIN d.read \cup {f}
                                /\ Matches(d.read) => Matches(y)
      BY <1>2, <2>1, CmdIs, OneMore
    <2>3. PICK c : c = [d EXCEPT !.read = y]
      OBVIOUS
    <2>4. /\ c \in Cmds /\ c.at = d.at /\ c.assessment = d.assessment /\ c.list = d.list
          /\ c.document = d.document /\ c.read = y /\ c.packed = d.packed /\ c.edited = d.edited
      BY <2>3 DEF Cmds
    <2>5. Become(p, c) /\ d.at = "read" /\ cmd'[p] = c
          /\ UNCHANGED <<root, temps, evidence, capsule, sent, faults, pubKey>>
      BY <1>2, <2>1, <2>2, <2>3, CmdIs DEF ReadFile
    <2>6. FollowsDirectory(p)'
      <3>1. ~d.edited => /\ DOMAIN d.read \subseteq d.list /\ Matches(d.read)
                         /\ DOMAIN d.packed \subseteq d.list /\ Matches(d.packed)
        BY <2>1, <2>5 DEF PublishInv, FollowsDirectory, Over
      <3>2. d.at \notin Over \cup {"list"} /\ c.at \notin Busy \cup {"idle", "list", "check", "put"}
        BY <2>4, <2>5 DEF Over, Busy
      <3>3. f \in d.list
        BY <1>2, <2>1
      <3> QED
        BY <2>1, <2>2, <2>4, <2>5, <3>1, <3>2, <3>3, StillFollows
    <2>7. pubKey' \in Keys /\ pubKey' # NoPublishKey
      BY <2>1, <2>5 DEF PublishInv, PublishTyped, KeyThere
    <2> QED
      BY <2>1, <2>4, <2>5, <2>6, <2>7, EarlyKeeps
  <1> QED
    BY <1>1, <1>2 DEF ReadFile

-----------------------------------------------------------------------------
(* The assessment.                                                         *)
LEMMA GreatestIs ==
    ASSUME NEW n \in Nat, NEW I \in SUBSET (0..n), I # {}
    PROVE  Max(I) \in I
  <1> DEFINE T == {n - i : i \in I}
             R == OpToRel(<, Nat)
  <1>1. T \subseteq Nat /\ T # {}
    OBVIOUS
  <1>2. PICK x \in T : \A y \in T : ~ (<<y, x>> \in R)
    <2>1. IsWellFoundedOn(R, Nat)
      BY NatLessThanWellFounded
    <2> HIDE DEF T, R
    <2> QED
      BY <1>1, <2>1, WFMin
  <1>3. PICK k \in I : x = n - k
    OBVIOUS
  <1>4. ASSUME NEW j \in I PROVE k >= j
    <2>1. n - j \in T /\ n - j \in Nat /\ x \in Nat
      BY <1>1, <1>2
    <2>2. ~ (n - j < x)
      BY <1>2, <2>1 DEF OpToRel
    <2> QED
      BY <1>3, <2>2
  <1>5. \E g \in I : \A j \in I : g >= j
    BY <1>4
  <1> QED
    BY <1>5 DEF Max

LEMMA PreviousIs ==
    ASSUME PublishInv, NEW version \in Nat
    PROVE  /\ Previous(version) \in Nat /\ Previous(version) <= version
           /\ Previous(version) = version => version = 0
  <1>1. PICK I : I = {0} \cup {v \in Persisted : v < version}
    OBVIOUS
  <1>2. \A v \in Persisted : v \in Nat
    <2>1. \A e \in DOMAIN evidence : evidence[e].of.version \in Nat
      BY DEF PublishInv, PublishTyped, Signed, Assessments
    <2> QED
      BY <2>1 DEF Persisted
  <1>3. I \in SUBSET (0..version) /\ I # {}
    BY <1>1, <1>2
  <1>4. Max(I) \in I
    BY <1>3, GreatestIs
  <1>5. Previous(version) = Max(I)
    BY <1>1 DEF Previous
  <1>6. \A i \in I : i \in Nat /\ i <= version /\ (i = version => version = 0)
    BY <1>1, <1>2
  <1> QED
    BY <1>4, <1>5, <1>6

\* The first document is next to be written, and whoever is at the evidence
\* or the output already is marked, the newcomer with it.
LEMMA PersistKeeps ==
    ASSUME PublishInv, NEW p \in Commands, Assess(p), ~Blocked(cmd[p].read),
           cmd[p].kind # "dry"
    PROVE  PublishInv'
  <1>1. PICK d \in Cmds : d = cmd[p]
    BY CmdIs
  <1>2. /\ UNCHANGED <<root, pubKey, temps, evidence, capsule, published, sent, faults>>
        /\ d.at = "read" /\ d.list = DOMAIN d.read /\ ~Blocked(d.read)
    BY <1>1 DEF Assess
  <1>3. PICK n \in Nat : n = Previous(d.version) /\ n <= d.version /\ (n = d.version => d.version = 0)
    BY PreviousIs DEF Cmds
  <1>4. PICK a : a = [by |-> p, version |-> d.version, files |-> d.read, previous |-> n]
    OBVIOUS
  <1>5. a \in Assessments /\ Ordered(a) /\ a.files = d.read
    <2>1. p \in Keys /\ d.version \in Nat /\ d.read \in Listings
      BY DEF Keys, Cmds
    <2> QED
      BY <1>3, <1>4, <2>1 DEF Assessments, Ordered
  <1>6. PICK others : others = {q \in Commands \ {p} : Active(q)}
    OBVIOUS
  <1>7. PICK s \in BOOLEAN : s = (others # {})
    OBVIOUS
  <1>8. PICK c : c = [d EXCEPT !.at = "persist", !.assessment = a, !.shared = s]
    OBVIOUS
  <1>9. cmd' = [q \in Commands |-> IF q = p THEN c ELSE [cmd[q] EXCEPT !.shared = @ \/ q \in others]]
    BY <1>1, <1>3, <1>4, <1>6, <1>7, <1>8 DEF Assess
  <1>10. /\ c \in Cmds /\ c.at = "persist" /\ c.assessment = a /\ c.shared = s /\ c.list = d.list
         /\ c.document = d.document /\ c.read = d.read /\ c.packed = d.packed /\ c.edited = d.edited
    BY <1>5, <1>8 DEF Cmds, Places, Busy
  <1>11. cmd'[p] = c
    BY <1>9
  <1>12. ASSUME NEW q \in Commands, q # p
         PROVE  /\ cmd'[q] \in Cmds /\ cmd'[q].shared = (cmd[q].shared \/ Active(q))
                /\ cmd'[q].at = cmd[q].at /\ cmd'[q].kind = cmd[q].kind
                /\ cmd'[q].list = cmd[q].list /\ cmd'[q].key = cmd[q].key
                /\ cmd'[q].read = cmd[q].read /\ cmd'[q].assessment = cmd[q].assessment
                /\ cmd'[q].document = cmd[q].document /\ cmd'[q].packed = cmd[q].packed
                /\ cmd'[q].edited = cmd[q].edited
    <2>1. PICK e \in Cmds : e = cmd[q]
      BY CmdIs
    <2>2. PICK t \in BOOLEAN : t = (e.shared \/ q \in others)
      OBVIOUS
    <2>3. PICK g : g = [e EXCEPT !.shared = t]
      OBVIOUS
    <2>4. cmd'[q] = g
      BY <1>9, <1>12, <2>1, <2>2, <2>3
    <2>5. t = (cmd[q].shared \/ Active(q))
      BY <1>6, <1>12, <2>1, <2>2
    <2>6. /\ g \in Cmds /\ g.shared = t
          /\ g.at = e.at /\ g.kind = e.kind /\ g.list = e.list /\ g.key = e.key
          /\ g.read = e.read /\ g.assessment = e.assessment
          /\ g.document = e.document /\ g.packed = e.packed /\ g.edited = e.edited
      BY <2>3 DEF Cmds
    <2> QED
      BY <2>1, <2>4, <2>5, <2>6
  <1>13. PublishTyped'
    <2>1. cmd' \in [Commands -> Cmds]
      BY <1>9, <1>10, <1>11, <1>12
    <2> QED
      BY <1>2, <2>1 DEF PublishInv, PublishTyped
  <1>14. PreviousLower' /\ CleanMade' /\ SentAsAssessed'
    <2>1. PreviousLower'
      BY <1>5, <1>10, <1>11, <1>12 DEF PublishInv, PreviousLower
    <2>2. CleanMade'
      BY <1>2, <1>5, <1>10, <1>11, <1>12 DEF PublishInv, CleanMade
    <2> QED
      BY <1>2, <2>1, <2>2 DEF PublishInv, SentAsAssessed
  <1>15. KeyThere'
    <2>1. pubKey # NoPublishKey
      BY <1>1, <1>2 DEF PublishInv, KeyThere
    <2> QED
      BY <1>2, <2>1 DEF KeyThere
  <1>16. Apart'
    <2>1. ASSUME NEW q \in Commands, q # p, Active(q)' PROVE cmd'[q].shared /\ cmd'[p].shared
      <3>1. Active(q)
        BY <1>12, <2>1 DEF Active
      <3> QED
        BY <1>6, <1>7, <1>10, <1>11, <1>12, <2>1, <3>1
    <2> QED
      BY <2>1 DEF Apart
  <1>17. \A q \in Commands : FollowsDirectory(q)'
    <2>1. FollowsDirectory(p)'
      <3>1. ~d.edited => /\ DOMAIN d.read \subseteq d.list /\ Matches(d.read)
                         /\ DOMAIN d.packed \subseteq d.list /\ Matches(d.packed)
        BY <1>1, <1>2 DEF PublishInv, FollowsDirectory, Over
      <3>2. d.at \notin Over \cup {"list"} /\ c.at \notin {"idle", "list", "check", "put"}
        BY <1>2, <1>10 DEF Over
      <3>3. /\ c.edited = cmd[p].edited /\ c.list = cmd[p].list
            /\ ~c.edited => /\ DOMAIN c.read \subseteq c.list /\ Matches(c.read)
                            /\ DOMAIN c.packed \subseteq c.list /\ Matches(c.packed)
                            /\ c.at \in Busy => Matches(c.assessment.files)
            /\ DOMAIN c.assessment.files = c.list
        BY <1>1, <1>2, <1>5, <1>10, <3>1
      <3>4. root' = root /\ cmd[p].at \notin Over \cup {"list"} /\ c.at \notin {"idle", "list"}
            /\ (c.at \in {"check", "put"} => DOMAIN c.packed = c.list)
        BY <1>1, <1>2, <3>2
      <3> QED
        BY <1>11, <3>3, <3>4, StillFollows
    <2>2. ASSUME NEW q \in Commands, q # p PROVE FollowsDirectory(q)'
      BY <1>2, <1>12, <2>2 DEF PublishInv, FollowsDirectory, Matches, Packlist
    <2> QED
      BY <2>1, <2>2
  <1>18. \A q \in Commands : Evidenced(q)' /\ Unwritten(q)' /\ Unmarked(q)' 
    <2>1. Evidenced(p)' /\ Unwritten(p)' /\ Unmarked(p)'
      <3>1. c.document = "assessment"
        BY <1>1, <1>2, <1>10 DEF PublishInv, Unwritten, FirstDocument
      <3>2. Renamed(p)' = {}
        BY <1>10, <1>11, <3>1 DEF Renamed
      <3>3. Persisting(p)' /\ Filling(p)'
        BY <1>10, <1>11, <3>2 DEF Persisting, Filling, Writing
      <3> QED
        BY <1>10, <1>11, <3>2, <3>3 DEF Evidenced, Unwritten, Unmarked
    <2>2. ASSUME NEW q \in Commands, q # p PROVE Evidenced(q)' /\ Unwritten(q)' /\ Unmarked(q)'
      <3>1. (Active(q)' <=> Active(q)) /\ Renamed(q)' = Renamed(q)
        BY <1>12, <2>2 DEF Active, Renamed
      <3>2. \A x : At(q, x)' = At(q, x)
        BY <1>12, <2>2 DEF At
      <3>3. Evidenced(q)'
        BY <1>2, <3>1, <3>2 DEF PublishInv, Evidenced
      <3>4. Unwritten(q)'
        BY <1>12, <2>2 DEF PublishInv, Unwritten
      <3>5. Unmarked(q)'
        BY <1>12, <2>2, <3>1 DEF Unmarked
      <3> QED
        BY <3>3, <3>4, <3>5
    <2> QED
      BY <2>1, <2>2
  <1>19. \A q \in Commands : Finished(q)'
    <2>1. ASSUME NEW q \in Commands, cmd'[q].at = "created", ~cmd'[q].shared
          PROVE  /\ Parts \subseteq DOMAIN capsule'
                 /\ \A r \in Commands : ~Writing(r)'
                 /\ faults'.damage = 0 => VerifiesCapsule'
      <3>1. q # p
        BY <1>10, <1>11, <2>1
      <3>2. cmd[q].at = "created" /\ ~cmd[q].shared
        BY <1>12, <2>1, <3>1
      <3>3. /\ Parts \subseteq DOMAIN capsule
            /\ \A r \in Commands : ~Writing(r)
            /\ faults.damage = 0 => VerifiesCapsule
        BY <3>2 DEF PublishInv, Finished
      <3>4. \A r \in Commands : ~Writing(r)'
        BY <1>10, <1>11, <1>12, <3>3 DEF Writing
      <3>5. VerifiesCapsule => VerifiesCapsule'
        BY <1>2 DEF VerifiesCapsule
      <3> QED
        BY <1>2, <3>3, <3>4, <3>5
    <2> QED
      BY <2>1 DEF Finished
  <1> QED
    BY <1>13, <1>14, <1>15, <1>16, <1>17, <1>18, <1>19 DEF PublishInv

LEMMA AssessKeeps ==
    ASSUME PublishInv, NEW p \in Commands, Assess(p)
    PROVE  PublishInv'
  <1>1. CASE Blocked(cmd[p].read)
    BY <1>1, FailKeeps DEF Assess
  <1>2. CASE ~Blocked(cmd[p].read) /\ cmd[p].kind = "dry"
    BY <1>2, FailKeeps DEF Assess
  <1> QED
    BY <1>1, <1>2, PersistKeeps

-----------------------------------------------------------------------------
(* From the persisted evidence to the upload or the capsule.               *)
LEMMA QuietKeeps ==
    ASSUME PublishInv, NEW p \in Commands, NEW c \in Cmds, Become(p, c),
           UNCHANGED <<root, pubKey, temps, evidence, capsule, sent, faults>>,
           cmd[p].at \in {"output", "pack", "check", "compare"},
           c.at \in {"pack", "check", "put", "compare", "tarball"},
           c.assessment = cmd[p].assessment, c.key = cmd[p].key, c.edited = cmd[p].edited,
           c.shared = cmd[p].shared, c.list = cmd[p].list, c.read = cmd[p].read,
           ~c.edited => DOMAIN c.packed \subseteq c.list /\ Matches(c.packed),
           c.at \in {"check", "put"} => DOMAIN c.packed = c.list,
           c.at = "tarball" => c.packed = c.assessment.files,
           Writing(p)' => Writing(p) \/ capsule = NoFiles
    PROVE  PublishInv'
  <1>1. cmd'[p] = c
    BY CmdIs
  <1>2. Active(p) /\ c.at \in Busy
    BY DEF Active, Busy
  <1>3. SharesKept(p) /\ SentAsAssessed'
    BY DEF SharesKept, PublishInv, SentAsAssessed
  <1>4. Ordered(c.assessment) /\ ~Blocked(c.assessment.files)
    BY DEF PublishInv, PreviousLower, CleanMade
  <1>5. pubKey' \in Keys /\ pubKey' # NoPublishKey
    BY <1>2 DEF PublishInv, PublishTyped, KeyThere, Active
  <1>6. Renamed(p) = Documents /\ Renamed(p)' = Documents
    BY <1>1 DEF Renamed
  <1>7. \A x : At(p, x)' = At(p, x) /\ Own(p, x)' = Own(p, x) /\ (Stored(p, x)' <=> Stored(p, x))
    BY <1>1 DEF At, Own, Stored
  <1>8. Evidenced(p)'
    <2>1. Evidenced(p)
      BY DEF PublishInv
    <2> QED
      BY <1>2, <1>6, <1>7, <2>1 DEF Evidenced
  <1>9. Unmarked(p)'
    <2>1. SUFFICES ASSUME ~cmd[p].shared PROVE Persisting(p)' /\ Filling(p)'
      BY <1>1 DEF Unmarked
    <2>2. Persisting(p) /\ Filling(p)
      BY <1>2, <2>1 DEF PublishInv, Unmarked
    <2>3. Persisting(p)'
      BY <1>1, <1>6, <1>7, <2>2 DEF Persisting
    <2>4. Writing(p)' => capsule = NoFiles
      BY <2>2 DEF Filling, Writing
    <2>5. Filling(p)'
      BY <1>1, <2>4 DEF Filling
    <2> QED
      BY <2>3, <2>5
  <1>10. Unwritten(p)' /\ Finished(p)'
    BY <1>1 DEF Unwritten, Finished
  <1>11. FollowsDirectory(p)'
    <2>1. cmd[p].at \notin Over \cup {"list"} /\ c.at \notin {"idle", "list"}
      BY DEF Over
    <2>2. ~c.edited => /\ DOMAIN c.read \subseteq c.list /\ Matches(c.read)
                       /\ DOMAIN c.packed \subseteq c.list /\ Matches(c.packed)
                       /\ c.at \in Busy => Matches(c.assessment.files)
      BY <1>2, <2>1 DEF PublishInv, FollowsDirectory, Active
    <2>3. DOMAIN c.assessment.files = c.list
      BY <1>2 DEF PublishInv, FollowsDirectory, Active
    <2> QED
      BY <1>1, <2>1, <2>2, <2>3, StillFollows
  <1>12. /\ faults' \in [edits : Nat, kills : Nat, damage : Nat]
         /\ faults'.damage = faults.damage
    BY DEF PublishInv, PublishTyped
  <1> QED
    BY <1>1, <1>2, <1>3, <1>4, <1>5, <1>8, <1>9, <1>10, <1>11, <1>12, StepKeeps

\* What an active command has listed and packed.
LEMMA BusyFollows ==
    ASSUME PublishInv, NEW p \in Commands, Active(p), ~cmd[p].edited
    PROVE  /\ cmd[p].list = Packlist
           /\ DOMAIN cmd[p].packed \subseteq cmd[p].list /\ Matches(cmd[p].packed)
           /\ DOMAIN cmd[p].read \subseteq cmd[p].list /\ Matches(cmd[p].read)
           /\ DOMAIN cmd[p].assessment.files = cmd[p].list /\ Matches(cmd[p].assessment.files)
  <1>1. cmd[p].at \in Busy /\ cmd[p].at \notin Over \cup {"list"}
    BY DEF Active, Busy, Over
  <1> QED
    BY <1>1 DEF PublishInv, FollowsDirectory

LEMMA OutputKeeps ==
    ASSUME PublishInv, NEW p \in Commands, CheckOutput(p)
    PROVE  PublishInv'
  <1>1. CASE Fail(p)
    BY <1>1, FailKeeps DEF CheckOutput, Fail
  <1>2. CASE capsule = NoFiles /\ Move(p, "pack")
    <2>1. PICK d \in Cmds : d = cmd[p]
      BY CmdIs
    <2>2. PICK c : c = [d EXCEPT !.at = "pack"]
      OBVIOUS
    <2>3. /\ c \in Cmds /\ c.at = "pack" /\ c.assessment = d.assessment /\ c.list = d.list
          /\ c.key = d.key /\ c.read = d.read /\ c.packed = d.packed /\ c.edited = d.edited
          /\ c.shared = d.shared
      BY <2>2 DEF Cmds, Places, Busy
    <2>4. Become(p, c) /\ d.at = "output"
          /\ UNCHANGED <<root, pubKey, temps, evidence, capsule, sent, faults>>
      BY <1>2, <2>1, <2>2 DEF CheckOutput, Move
    <2>5. ~c.edited => DOMAIN c.packed \subseteq c.list /\ Matches(c.packed)
      BY <2>1, <2>3, <2>4, BusyFollows DEF Active, Busy
    <2> QED
      BY <1>2, <2>1, <2>3, <2>4, <2>5, QuietKeeps
  <1> QED
    BY <1>1, <1>2 DEF CheckOutput

LEMMA PackKeeps ==
    ASSUME PublishInv, NEW p \in Commands, PackFile(p)
    PROVE  PublishInv'
  <1>1. CASE Fail(p)
    BY <1>1, FailKeeps DEF PackFile, Fail
  <1>2. ASSUME NEW f \in cmd[p].list \ DOMAIN cmd[p].packed, f \in DOMAIN root,
               Become(p, [cmd[p] EXCEPT !.packed = With(@, f, root[f])])
        PROVE  PublishInv'
    <2>1. PICK d \in Cmds : d = cmd[p]
      BY CmdIs
    <2>2. PICK y \in Listings : /\ y = With(d.packed, f, root[f]) /\ DOMAIN y = DOMAIN d.packed \cup {f}
                                /\ Matches(d.packed) => Matches(y)
      BY <1>2, <2>1, CmdIs, OneMore
    <2>3. PICK c : c = [d EXCEPT !.packed = y]
      OBVIOUS
    <2>4. /\ c \in Cmds /\ c.at = d.at /\ c.assessment = d.assessment /\ c.list = d.list
          /\ c.key = d.key /\ c.read = d.read /\ c.packed = y /\ c.edited = d.edited
          /\ c.shared = d.shared /\ c.kind = d.kind
      BY <2>3 DEF Cmds
    <2>5. Become(p, c) /\ d.at = "pack" /\ cmd'[p] = c
          /\ UNCHANGED <<root, pubKey, temps, evidence, capsule, sent, faults>>
      BY <1>2, <2>1, <2>2, <2>3, CmdIs DEF PackFile
    <2>6. ~c.edited => DOMAIN c.packed \subseteq c.list /\ Matches(c.packed)
      <3>1. ~d.edited => DOMAIN d.packed \subseteq d.list /\ Matches(d.packed)
        BY <2>1, <2>5, BusyFollows DEF Active, Busy
      <3>2. f \in d.list
        BY <1>2, <2>1
      <3> QED
        BY <2>2, <2>4, <3>1, <3>2
    <2>7. Writing(p)' => Writing(p)
      BY <2>1, <2>4, <2>5 DEF Writing
    <2> QED
      BY <2>1, <2>4, <2>5, <2>6, <2>7, QuietKeeps
  <1> QED
    BY <1>1, <1>2 DEF PackFile

LEMMA PackedKeeps ==
    ASSUME PublishInv, NEW p \in Commands, Packed(p)
    PROVE  PublishInv'
  <1>1. PICK d \in Cmds : d = cmd[p]
    BY CmdIs
  <1>2. /\ d.at = "pack" /\ DOMAIN d.packed = d.list
        /\ UNCHANGED <<root, pubKey, temps, evidence, capsule, sent, faults>>
    BY <1>1 DEF Packed
  <1>3. ~d.edited => DOMAIN d.packed \subseteq d.list /\ Matches(d.packed)
    BY <1>1, <1>2, BusyFollows DEF Active, Busy
  <1>4. CASE Move(p, "check")
    <2>1. PICK c : c = [d EXCEPT !.at = "check"]
      OBVIOUS
    <2>2. /\ c \in Cmds /\ c.at = "check" /\ c.assessment = d.assessment /\ c.list = d.list
          /\ c.key = d.key /\ c.read = d.read /\ c.packed = d.packed /\ c.edited = d.edited
          /\ c.shared = d.shared
      BY <2>1 DEF Cmds, Places, Busy
    <2>3. Become(p, c) /\ cmd'[p] = c
      BY <1>1, <1>4, <2>1, CmdIs DEF Move
    <2>4. ~Writing(p)'
      BY <2>2, <2>3 DEF Writing
    <2> QED
      BY <1>1, <1>2, <1>3, <2>2, <2>3, <2>4, QuietKeeps
  <1>5. ASSUME cmd[p].kind = "transfer", NEW taken \in SUBSET cmd[p].list,
               Become(p, [cmd[p] EXCEPT !.at = "compare", !.packed = Restrict(@, taken)])
        PROVE  PublishInv'
    <2>1. d.packed \in Listings /\ taken \in SUBSET DOMAIN d.packed
      BY <1>1, <1>2, <1>5 DEF Cmds
    <2>2. PICK y \in Listings : /\ y = Restrict(d.packed, taken) /\ DOMAIN y = taken
                                /\ \A g \in taken : y[g] = d.packed[g]
      BY <2>1, RestrictListing
    <2>3. PICK c : c = [d EXCEPT !.at = "compare", !.packed = y]
      OBVIOUS
    <2>4. /\ c \in Cmds /\ c.at = "compare" /\ c.assessment = d.assessment /\ c.list = d.list
          /\ c.key = d.key /\ c.read = d.read /\ c.packed = y /\ c.edited = d.edited
          /\ c.shared = d.shared
      BY <2>3 DEF Cmds, Places, Busy
    <2>5. Become(p, c)
      BY <1>1, <1>5, <2>2, <2>3
    <2>6. ~c.edited => DOMAIN c.packed \subseteq c.list /\ Matches(c.packed)
      BY <1>2, <1>3, <2>1, <2>2, <2>4 DEF Matches
    <2>7. Writing(p)
      BY <1>1, <1>2, <1>5 DEF Writing
    <2> QED
      BY <1>1, <1>2, <2>4, <2>5, <2>6, <2>7, QuietKeeps
  <1> QED
    BY <1>4, <1>5 DEF Packed

LEMMA PublishedKeeps ==
    ASSUME PublishInv, NEW p \in Commands, CheckPublished(p)
    PROVE  PublishInv'
  <1>1. CASE Fail(p)
    BY <1>1, FailKeeps DEF CheckPublished, Fail
  <1>2. CASE Move(p, "put")
    <2>1. PICK d \in Cmds : d = cmd[p]
      BY CmdIs
    <2>2. PICK c : c = [d EXCEPT !.at = "put"]
      OBVIOUS
    <2>3. /\ c \in Cmds /\ c.at = "put" /\ c.assessment = d.assessment /\ c.list = d.list
          /\ c.key = d.key /\ c.read = d.read /\ c.packed = d.packed /\ c.edited = d.edited
          /\ c.shared = d.shared
      BY <2>2 DEF Cmds, Places, Busy
    <2>4. Become(p, c) /\ d.at = "check" /\ cmd'[p] = c
          /\ UNCHANGED <<root, pubKey, temps, evidence, capsule, sent, faults>>
      BY <1>2, <2>1, <2>2, CmdIs DEF CheckPublished, Move
    <2>5. ~c.edited => DOMAIN c.packed \subseteq c.list /\ Matches(c.packed)
      BY <2>1, <2>3, <2>4, BusyFollows DEF Active, Busy
    <2>6. DOMAIN c.packed = c.list
      BY <2>1, <2>3, <2>4 DEF PublishInv, FollowsDirectory
    <2>7. ~Writing(p)'
      BY <2>3, <2>4 DEF Writing
    <2> QED
      BY <2>1, <2>3, <2>4, <2>5, <2>6, <2>7, QuietKeeps
  <1> QED
    BY <1>1, <1>2 DEF CheckPublished

LEMMA VerifyKeeps ==
    ASSUME PublishInv, NEW p \in Commands, VerifyPacked(p)
    PROVE  PublishInv'
  <1>1. CASE Fail(p)
    BY <1>1, FailKeeps DEF VerifyPacked, Fail
  <1>2. CASE MatchesAssessment(cmd[p].packed, cmd[p].assessment) /\ Move(p, "tarball")
    <2>1. PICK d \in Cmds : d = cmd[p]
      BY CmdIs
    <2>2. PICK c : c = [d EXCEPT !.at = "tarball"]
      OBVIOUS
    <2>3. /\ c \in Cmds /\ c.at = "tarball" /\ c.assessment = d.assessment /\ c.list = d.list
          /\ c.key = d.key /\ c.read = d.read /\ c.packed = d.packed /\ c.edited = d.edited
          /\ c.shared = d.shared
      BY <2>2 DEF Cmds, Places, Busy
    <2>4. Become(p, c) /\ d.at = "compare" /\ cmd'[p] = c
          /\ UNCHANGED <<root, pubKey, temps, evidence, capsule, sent, faults>>
      BY <1>2, <2>1, <2>2, CmdIs DEF VerifyPacked, Move
    <2>5. ~c.edited => DOMAIN c.packed \subseteq c.list /\ Matches(c.packed)
      BY <2>1, <2>3, <2>4, BusyFollows DEF Active, Busy
    <2>6. c.packed = c.assessment.files
      BY <1>2, <2>1, <2>3 DEF MatchesAssessment
    <2>7. Writing(p)
      BY <2>1, <2>4 DEF Writing
    <2> QED
      BY <2>1, <2>3, <2>4, <2>5, <2>6, <2>7, QuietKeeps
  <1> QED
    BY <1>1, <1>2 DEF VerifyPacked

-----------------------------------------------------------------------------
(* A step of an active command that stays active.                          *)
LEMMA ActiveKeeps ==
    ASSUME PublishInv, NEW p \in Commands, NEW c \in Cmds, Become(p, c),
           UNCHANGED <<root, pubKey, sent, faults>>, SharesKept(p),
           Active(p), c.at \in Busy \ {"check", "put"},
           c.assessment = cmd[p].assessment, c.edited = cmd[p].edited,
           c.shared = cmd[p].shared, c.list = cmd[p].list, c.read = cmd[p].read,
           c.packed = cmd[p].packed,
           Writing(p)' => Writing(p),
           Evidenced(p)', ~cmd[p].shared => Persisting(p)' /\ Filling(p)'
    PROVE  PublishInv'
  <1>1. cmd'[p] = c
    BY CmdIs
  <1>2. SentAsAssessed'
    BY DEF PublishInv, SentAsAssessed
  <1>3. Ordered(c.assessment) /\ ~Blocked(c.assessment.files)
    BY DEF PublishInv, PreviousLower, CleanMade
  <1>4. pubKey' \in Keys /\ pubKey' # NoPublishKey
    BY DEF PublishInv, PublishTyped, KeyThere, Active
  <1>5. c.at \notin {"idle", "list", "key", "link", "read", "created"}
    BY DEF Busy
  <1>6. Unmarked(p)' /\ Unwritten(p)' /\ Finished(p)'
    BY <1>1, <1>5 DEF Unmarked, Unwritten, Finished
  <1>7. FollowsDirectory(p)'
    <2>1. cmd[p].at \notin Over \cup {"list"} /\ c.at \notin {"idle", "list"}
      BY <1>5 DEF Over, Active, Busy
    <2>2. ~c.edited => /\ DOMAIN c.read \subseteq c.list /\ Matches(c.read)
                       /\ DOMAIN c.packed \subseteq c.list /\ Matches(c.packed)
                       /\ c.at \in Busy => Matches(c.assessment.files)
      BY BusyFollows
    <2>3. c.at \in {"check", "put"} => DOMAIN c.packed = c.list
      OBVIOUS
    <2>4. DOMAIN c.assessment.files = c.list
      BY DEF PublishInv, FollowsDirectory, Active
    <2> QED
      BY <1>1, <2>1, <2>2, <2>3, <2>4, StillFollows
  <1>8. /\ faults' \in [edits : Nat, kills : Nat, damage : Nat]
        /\ faults'.damage = faults.damage
    BY DEF PublishInv, PublishTyped
  <1> QED
    BY <1>2, <1>3, <1>4, <1>6, <1>7, <1>8, StepKeeps

\* The documents are kept apart, each under its own name.
LEMMA PlacesDiffer ==
    ASSUME NEW p \in Commands, NEW x \in Documents
    PROVE  (At(p, x) = Place(p)) <=> (x = cmd[p].document)
  BY DEF At, Place

LEMMA TempKeeps ==
    ASSUME PublishInv, NEW p \in Commands, WriteTemp(p)
    PROVE  PublishInv'
  <1>1. PICK d \in Cmds : d = cmd[p]
    BY CmdIs
  <1>2. PICK k \in Keys : k = IF d.document = "signature" THEN pubKey ELSE d.key
    BY DEF Cmds, PublishInv, PublishTyped
  <1>3. PICK v : v = Document(p)
    OBVIOUS
  <1>4. v \in Signed /\ ~Blocked(v.of.files) /\ v = Own(p, d.document)
    <2>1. PICK j \in Keys : j = IF d.document = "signature" THEN pubKey ELSE NoPublishKey
      BY DEF PublishInv, PublishTyped, Keys
    <2>2. PICK a \in Assessments : a = cmd[p].assessment
      BY CmdIs
    <2>3. ~Blocked(a.files)
      BY <2>2 DEF PublishInv, CleanMade
    <2>4. v = [of |-> a, key |-> j] /\ v = Own(p, d.document)
      BY <1>1, <1>3, <2>1, <2>2 DEF Document, Own
    <2> QED
      BY <2>3, <2>4 DEF Signed
  <1>5. PICK c : c = [d EXCEPT !.at = "rename", !.key = k]
    OBVIOUS
  <1>6. /\ c \in Cmds /\ c.at = "rename" /\ c.assessment = d.assessment /\ c.list = d.list
        /\ c.key = k /\ c.read = d.read /\ c.packed = d.packed /\ c.edited = d.edited
        /\ c.shared = d.shared /\ c.document = d.document
    BY <1>5 DEF Cmds, Places, Busy
  <1>7. Become(p, c) /\ d.at = "persist" /\ cmd'[p] = c
        /\ UNCHANGED <<root, pubKey, evidence, capsule, sent, faults>>
    BY <1>1, <1>2, <1>5, CmdIs DEF WriteTemp
  <1>8. temps' = With(temps, Place(p), v)
    BY <1>3 DEF WriteTemp
  <1>9. Active(p) /\ c.at \in Busy \ {"check", "put"}
    BY <1>1, <1>6, <1>7 DEF Active, Busy
  <1>10. SharesKept(p)
    <2>1. \A e \in DOMAIN temps' : temps'[e] \in Signed /\ ~Blocked(temps'[e].of.files)
      <3>1. \A e \in DOMAIN temps : temps[e] \in Signed /\ ~Blocked(temps[e].of.files)
        BY DEF PublishInv, PublishTyped, CleanMade
      <3> QED
        BY <1>4, <1>8, <3>1 DEF With
    <2>2. \A e \in DOMAIN evidence' : evidence'[e] \in Signed /\ ~Blocked(evidence'[e].of.files)
      BY <1>7 DEF PublishInv, PublishTyped, CleanMade
    <2> QED
      BY <1>7, <1>9, <2>1, <2>2 DEF SharesKept
  <1>11. Renamed(p)' = Renamed(p) /\ Place(p)' = Place(p)
         /\ \A x : At(p, x)' = At(p, x) /\ Own(p, x)' = Own(p, x) /\ (Stored(p, x)' <=> Stored(p, x))
    <2>1. Renamed(p)' = Renamed(p)
      BY <1>1, <1>6, <1>7 DEF Renamed
    <2>2. Place(p)' = Place(p)
      BY <1>1, <1>6, <1>7 DEF Place
    <2>3. ASSUME NEW x PROVE At(p, x)' = At(p, x) /\ Own(p, x)' = Own(p, x) /\ (Stored(p, x)' <=> Stored(p, x))
      BY <1>1, <1>6, <1>7 DEF At, Own, Stored
    <2> QED
      BY <2>1, <2>2, <2>3
  <1>12. Evidenced(p)'
    BY <1>7, <1>9, <1>11 DEF PublishInv, Evidenced
  <1>13. ASSUME ~cmd[p].shared PROVE Persisting(p)' /\ Filling(p)'
    <2>1. Persisting(p)
      BY <1>9, <1>13 DEF PublishInv, Unmarked
    <2>2. Place(p)' \in DOMAIN temps' /\ temps'[Place(p)'] = v
      BY <1>8, <1>11 DEF With
    <2>3. v = Own(p, cmd[p].document)'
      BY <1>1, <1>4, <1>6, <1>7 DEF Own
    <2>4. Persisting(p)'
      <3>1. \A x \in Renamed(p)' : Stored(p, x)'
        BY <1>11, <2>1 DEF Persisting
      <3>2. cmd'[p].document = "signature" => cmd'[p].key = pubKey'
        BY <1>2, <1>6, <1>7
      <3> QED
        BY <1>6, <1>7, <2>2, <2>3, <3>1, <3>2 DEF Persisting
    <2>5. Filling(p)'
      BY <1>6, <1>7 DEF Filling, Writing
    <2> QED
      BY <2>4, <2>5
  <1>14. ~Writing(p)'
    BY <1>6, <1>7 DEF Writing
  <1> QED
    BY <1>1, <1>6, <1>7, <1>9, <1>10, <1>12, <1>13, <1>14, ActiveKeeps

LEMMA RenameKeeps ==
    ASSUME PublishInv, NEW p \in Commands, RenameTemp(p)
    PROVE  PublishInv'
  <1>1. PICK d \in Cmds : d = cmd[p]
    BY CmdIs
  <1>2. d.at = "rename" /\ UNCHANGED <<root, pubKey, capsule, sent, faults>>
    BY <1>1 DEF RenameTemp
  <1>3. CASE Place(p) \notin DOMAIN temps
    BY <1>3, FailKeeps DEF RenameTemp, Fail
  <1>4. CASE Place(p) \in DOMAIN temps
    <2>1. PICK v : v = temps[Place(p)]
      OBVIOUS
    <2>2. v \in Signed /\ ~Blocked(v.of.files)
      BY <1>4, <2>1 DEF PublishInv, PublishTyped, CleanMade
    <2>3. evidence' = With(evidence, Place(p), v)
          /\ temps' = Restrict(temps, DOMAIN temps \ {Place(p)})
      BY <1>4, <2>1 DEF RenameTemp
    <2>4. PICK at \in {"persist", "pack", "stage", "output"}, next \in Documents :
            /\ Become(p, [d EXCEPT !.at = at, !.document = next])
            /\ at = "persist" => \/ d.document = "assessment" /\ next = "derived"
                                 \/ d.document = "derived" /\ next = "signature"
            /\ at # "persist" => d.document = "signature"
            /\ at = "pack" => d.kind = "publish"
      <3>1. d.document \in Documents
        BY DEF Cmds
      <3>2. CASE d.document = "signature"
        <4>1. Move(p, AfterPersist(p))
          BY <1>1, <1>4, <3>2 DEF RenameTemp, NextDocument
        <4>2. PICK at : at = AfterPersist(p)
          OBVIOUS
        <4>3. at \in {"pack", "stage", "output"} /\ (at = "pack" => d.kind = "publish")
          BY <1>1, <4>2 DEF AfterPersist
        <4>4. [d EXCEPT !.at = at] = [d EXCEPT !.at = at, !.document = d.document]
          BY DEF Cmds
        <4>5. Become(p, [d EXCEPT !.at = at, !.document = d.document])
          BY <1>1, <4>1, <4>2, <4>4 DEF Move
        <4> QED
          BY <3>1, <3>2, <4>3, <4>5
      <3>3. CASE d.document = "assessment"
        <4>1. Become(p, [d EXCEPT !.at = "persist", !.document = "derived"])
          BY <1>1, <1>4, <3>3 DEF RenameTemp, NextDocument
        <4> QED
          BY <3>3, <4>1 DEF Documents
      <3>4. CASE d.document = "derived"
        <4>1. Become(p, [d EXCEPT !.at = "persist", !.document = "signature"])
          BY <1>1, <1>4, <3>4 DEF RenameTemp, NextDocument
        <4> QED
          BY <3>4, <4>1 DEF Documents
      <3> QED
        BY <3>1, <3>2, <3>3, <3>4 DEF Documents
    <2>5. PICK c : c = [d EXCEPT !.at = at, !.document = next]
      OBVIOUS
    <2>6. /\ c \in Cmds /\ c.at = at /\ c.assessment = d.assessment /\ c.list = d.list
          /\ c.key = d.key /\ c.read = d.read /\ c.packed = d.packed /\ c.edited = d.edited
          /\ c.shared = d.shared /\ c.document = next /\ c.kind = d.kind
      BY <2>5 DEF Cmds, Places, Busy
    <2>7. Become(p, c) /\ cmd'[p] = c
      BY <2>4, <2>5, CmdIs
    <2>8. Active(p) /\ c.at \in Busy \ {"check", "put"}
      BY <1>1, <1>2, <2>6 DEF Active, Busy
    <2>9. SharesKept(p)
      <3>1. \A e \in DOMAIN temps' : temps'[e] \in Signed /\ ~Blocked(temps'[e].of.files)
        BY <2>3 DEF PublishInv, PublishTyped, CleanMade, Restrict
      <3>2. \A e \in DOMAIN evidence' : evidence'[e] \in Signed /\ ~Blocked(evidence'[e].of.files)
        <4>1. \A e \in DOMAIN evidence : evidence[e] \in Signed /\ ~Blocked(evidence[e].of.files)
          BY DEF PublishInv, PublishTyped, CleanMade
        <4> QED
          BY <2>2, <2>3, <4>1 DEF With
      <3>3. DOMAIN evidence \subseteq DOMAIN evidence'
        BY <2>3 DEF With
      <3> QED
        BY <1>2, <2>8, <3>1, <3>2, <3>3 DEF SharesKept
    <2>10. \A x \in Renamed(p)' : x \in Renamed(p) \/ x = d.document
      BY <1>1, <1>2, <2>4, <2>6, <2>7 DEF Renamed, Documents
    <2>11. ASSUME NEW x PROVE At(p, x)' = At(p, x) /\ Own(p, x)' = Own(p, x)
      BY <1>1, <1>2, <2>6, <2>7 DEF At, Own
    <2>12. Place(p) = At(p, d.document)
      BY <1>1 DEF At, Place
    <2>13. Evidenced(p)'
      <3>1. \A x \in Renamed(p) : At(p, x) \in DOMAIN evidence
        BY <2>8 DEF PublishInv, Evidenced
      <3>2. \A x \in Renamed(p)' : At(p, x)' \in DOMAIN evidence'
        BY <2>3, <2>10, <2>11, <2>12, <3>1 DEF With
      <3> QED
        BY <3>2 DEF Evidenced
    <2>14. ASSUME ~cmd[p].shared PROVE Persisting(p)' /\ Filling(p)'
      <3>1. Persisting(p)
        BY <2>8, <2>14 DEF PublishInv, Unmarked
      <3>2. v = Own(p, d.document) /\ (d.document = "signature" => d.key = pubKey)
        BY <1>1, <1>2, <2>1, <3>1 DEF Persisting
      <3>3. ASSUME NEW x \in Renamed(p)' PROVE Stored(p, x)'
        <4>1. CASE x = d.document
          <5>1. At(p, x)' = Place(p) /\ Own(p, x)' = v
            BY <2>11, <2>12, <3>2, <4>1
          <5> QED
            BY <2>3, <5>1 DEF Stored, With
        <4>2. CASE x # d.document
          <5>1. Stored(p, x) /\ x \in Documents
            BY <2>10, <3>1, <3>3, <4>2 DEF Persisting, Renamed
          <5>2. At(p, x) # Place(p)
            BY <1>1, <4>2, <5>1, PlacesDiffer
          <5>3. At(p, x)' = At(p, x) /\ Own(p, x)' = Own(p, x)
            BY <2>11
          <5> QED
            BY <2>3, <5>1, <5>2, <5>3 DEF Stored, With
        <4> QED
          BY <4>1, <4>2
      <3>4. c.at # "persist" => c.key = pubKey'
        BY <1>2, <2>4, <2>6, <3>2
      <3>5. c.at # "rename"
        BY <2>6
      <3>6. Persisting(p)'
        BY <2>7, <3>3, <3>4, <3>5 DEF Persisting
      <3>7. Filling(p)'
        BY <2>4, <2>6, <2>7 DEF Filling, Writing
      <3> QED
        BY <3>6, <3>7
    <2>15. ~Writing(p)'
      BY <2>4, <2>6, <2>7 DEF Writing
    <2> QED
      BY <1>1, <1>2, <2>6, <2>7, <2>8, <2>9, <2>13, <2>14, <2>15, ActiveKeeps
  <1> QED
    BY <1>3, <1>4

-----------------------------------------------------------------------------
(* The capsule.  A command that writes a part of it leaves the evidence    *)
(* alone, and a part that is a document holds no secret.                   *)
LEMMA PartKept ==
    ASSUME PublishInv, NEW p \in Commands, Writing(p), NEW part \in Parts, NEW v,
           capsule' = With(capsule, part, v), UNCHANGED <<temps, evidence>>,
           part = "tar" => v \in Listings,
           part = "assessment" => ~Blocked(v.of.files)
    PROVE  Active(p) /\ SharesKept(p)
  <1>1. Active(p)
    BY DEF Active, Writing, Busy
  <1>2. \A e \in DOMAIN temps' : temps'[e] \in Signed /\ ~Blocked(temps'[e].of.files)
    BY DEF PublishInv, PublishTyped, CleanMade
  <1>3. \A e \in DOMAIN evidence' : evidence'[e] \in Signed /\ ~Blocked(evidence'[e].of.files)
    BY DEF PublishInv, PublishTyped, CleanMade
  <1>4. DOMAIN capsule' \subseteq Parts
    BY DEF PublishInv, PublishTyped, With
  <1>5. "tar" \in DOMAIN capsule' => capsule'["tar"] \in Listings
    BY DEF PublishInv, PublishTyped, With
  <1>6. "assessment" \in DOMAIN capsule' => ~Blocked(capsule'["assessment"].of.files)
    BY DEF PublishInv, CleanMade, With
  <1> QED
    BY <1>1, <1>2, <1>3, <1>4, <1>5, <1>6 DEF SharesKept

\* What such a command persisted is as it was.
LEMMA EvidenceKept ==
    ASSUME PublishInv, NEW p \in Commands, Writing(p), Writing(p)', UNCHANGED <<temps, evidence, pubKey>>,
           cmd'[p].assessment = cmd[p].assessment, cmd'[p].key = cmd[p].key
    PROVE  /\ Evidenced(p)'
           /\ ~cmd[p].shared => Persisting(p) /\ Filling(p) /\ Persisting(p)' /\ cmd[p].key = pubKey
           /\ \A x : Own(p, x)' = Own(p, x)
           /\ \A x \in Documents : At(p, x) \in DOMAIN evidence
  <1>1. Renamed(p) = Documents /\ Renamed(p)' = Documents /\ Active(p)
        /\ cmd[p].at \notin {"persist", "rename"} /\ cmd'[p].at \notin {"persist", "rename"}
    BY DEF Renamed, Writing, Active, Busy
  <1>2. ASSUME NEW x PROVE At(p, x)' = At(p, x) /\ Own(p, x)' = Own(p, x) /\ (Stored(p, x)' <=> Stored(p, x))
    BY DEF At, Own, Stored
  <1>3. \A x \in Documents : At(p, x) \in DOMAIN evidence
    BY <1>1 DEF PublishInv, Evidenced
  <1>4. Evidenced(p)'
    BY <1>1, <1>2, <1>3 DEF Evidenced
  <1>5. ASSUME ~cmd[p].shared
        PROVE  Persisting(p) /\ Filling(p) /\ Persisting(p)' /\ cmd[p].key = pubKey
    <2>1. Persisting(p) /\ Filling(p)
      BY <1>1, <1>5 DEF PublishInv, Unmarked
    <2>2. cmd[p].key = pubKey
      BY <1>1, <2>1 DEF Persisting
    <2>3. Persisting(p)'
      BY <1>1, <1>2, <2>1, <2>2 DEF Persisting
    <2> QED
      BY <2>1, <2>2, <2>3
  <1> QED
    BY <1>2, <1>3, <1>4, <1>5

LEMMA TarballKeeps ==
    ASSUME PublishInv, NEW p \in Commands, CopyTarball(p)
    PROVE  PublishInv'
  <1>1. PICK d \in Cmds : d = cmd[p]
    BY CmdIs
  <1>2. PICK c : c = [d EXCEPT !.at = "copy", !.document = FirstDocument]
    OBVIOUS
  <1>3. /\ c \in Cmds /\ c.at = "copy" /\ c.assessment = d.assessment /\ c.list = d.list
        /\ c.key = d.key /\ c.read = d.read /\ c.packed = d.packed /\ c.edited = d.edited
        /\ c.shared = d.shared /\ c.document = "assessment"
    BY <1>2 DEF Cmds, Places, Busy, FirstDocument, Documents
  <1>4. Become(p, c) /\ d.at = "tarball" /\ cmd'[p] = c
        /\ UNCHANGED <<root, pubKey, temps, evidence, sent, faults>>
    BY <1>1, <1>2, CmdIs DEF CopyTarball
  <1>5. capsule' = With(capsule, "tar", d.packed)
    BY <1>1 DEF CopyTarball, PutPart
  <1>6. Writing(p) /\ Writing(p)' /\ c.at \in Busy \ {"check", "put"} /\ d.packed \in Listings
        /\ "tar" \in Parts
    BY <1>1, <1>3, <1>4 DEF Writing, Busy, Cmds, Parts
  <1>7. Active(p) /\ SharesKept(p)
    BY <1>4, <1>5, <1>6, PartKept
  <1>8. /\ Evidenced(p)'
        /\ ~cmd[p].shared => Filling(p) /\ Persisting(p)'
    BY <1>1, <1>3, <1>4, <1>6, EvidenceKept
  <1>9. ASSUME ~cmd[p].shared PROVE Filling(p)'
    <2>1. capsule = NoFiles /\ d.packed = d.assessment.files
      BY <1>1, <1>4, <1>6, <1>8, <1>9 DEF Filling
    <2>2. DOMAIN capsule' = {"tar"} /\ capsule'["tar"] = d.assessment.files
      BY <1>5, <2>1, NothingListed DEF With
    <2>3. Taken(p)' = {}
      BY <1>3, <1>4 DEF Taken
    <2> QED
      BY <1>3, <1>4, <2>2, <2>3 DEF Filling
  <1> QED
    BY <1>1, <1>3, <1>4, <1>6, <1>7, <1>8, <1>9, ActiveKeeps

LEMMA DocumentKeeps ==
    ASSUME PublishInv, NEW p \in Commands, CopyDocument(p)
    PROVE  PublishInv'
  <1>1. PICK d \in Cmds : d = cmd[p]
    BY CmdIs
  <1>2. PICK v : v = evidence[Place(p)]
    OBVIOUS
  <1>3. PICK w : w = With(d.copied, d.document, v)
    OBVIOUS
  <1>4. PICK at \in {"copy", "manifest"}, next \in Documents :
          /\ Become(p, [d EXCEPT !.copied = w, !.document = next, !.at = at])
          /\ \/ d.document = "assessment" /\ next = "signature" /\ at = "copy"
             \/ d.document = "signature" /\ next = "derived" /\ at = "copy"
             \/ d.document = "derived" /\ next = "derived" /\ at = "manifest"
    <2>1. Become(p, [d EXCEPT !.copied = w,
                       !.document = IF NextCopied[d.document] = "none" THEN d.document
                                    ELSE NextCopied[d.document],
                       !.at = IF NextCopied[d.document] = "none" THEN "manifest" ELSE "copy"])
      BY <1>1, <1>2, <1>3 DEF CopyDocument
    <2>2. d.document \in Documents
      BY DEF Cmds
    <2>3. CASE d.document = "assessment"
      <3>1. Become(p, [d EXCEPT !.copied = w, !.document = "signature", !.at = "copy"])
        BY <2>1, <2>3 DEF NextCopied
      <3> QED
        BY <2>3, <3>1 DEF Documents
    <2>4. CASE d.document = "signature"
      <3>1. Become(p, [d EXCEPT !.copied = w, !.document = "derived", !.at = "copy"])
        BY <2>1, <2>4 DEF NextCopied
      <3> QED
        BY <2>4, <3>1 DEF Documents
    <2>5. CASE d.document = "derived"
      <3>1. Become(p, [d EXCEPT !.copied = w, !.document = "derived", !.at = "manifest"])
        BY <2>1, <2>5 DEF NextCopied
      <3> QED
        BY <2>5, <3>1 DEF Documents
    <2> QED
      BY <2>2, <2>3, <2>4, <2>5 DEF Documents
  <1>5. PICK c : c = [d EXCEPT !.copied = w, !.document = next, !.at = at]
    OBVIOUS
  <1>6. Become(p, c) /\ d.at = "copy" /\ cmd'[p] = c
        /\ UNCHANGED <<root, pubKey, temps, evidence, sent, faults>>
        /\ capsule' = With(capsule, d.document, v)
    BY <1>1, <1>2, <1>4, <1>5, CmdIs DEF CopyDocument, PutPart
  <1>7. Place(p) = At(p, d.document) /\ d.document \in Documents /\ Writing(p) /\ d.copied \in Copies
    BY <1>1, <1>6 DEF At, Place, Writing, Cmds
  <1>8. v \in Signed /\ ~Blocked(v.of.files)
    <2>1. \A x \in Documents : At(p, x) \in DOMAIN evidence
      <3>1. Renamed(p) = Documents /\ Active(p)
        BY <1>1, <1>6 DEF Renamed, Active, Busy
      <3> QED
        BY <3>1 DEF PublishInv, Evidenced
    <2>2. Place(p) \in DOMAIN evidence
      BY <1>7, <2>1
    <2> QED
      BY <1>2, <2>2 DEF PublishInv, PublishTyped, CleanMade
  <1>9. w \in Copies /\ w[d.document] = v /\ DOMAIN w = DOMAIN d.copied \cup {d.document}
        /\ \A x \in DOMAIN d.copied \ {d.document} : w[x] = d.copied[x]
    <2>1. PICK x \in Copies, e \in Documents, s \in Signed : x = d.copied /\ e = d.document /\ s = v
      BY <1>7, <1>8
    <2>2. w = With(x, e, s)
      BY <1>3, <2>1
    <2>3. /\ With(x, e, s) \in Copies /\ With(x, e, s)[e] = s
          /\ DOMAIN With(x, e, s) = DOMAIN x \cup {e}
          /\ \A y \in DOMAIN x \ {e} : With(x, e, s)[y] = x[y]
      BY WithCopy, Zenon
    <2> QED
      BY <2>1, <2>2, <2>3
  <1>10. /\ c \in Cmds /\ c.at = at /\ c.assessment = d.assessment /\ c.list = d.list
         /\ c.key = d.key /\ c.read = d.read /\ c.packed = d.packed /\ c.edited = d.edited
         /\ c.shared = d.shared /\ c.document = next /\ c.copied = w
    BY <1>5, <1>9 DEF Cmds, Places, Busy
  <1>11. Writing(p)' /\ c.at \in Busy \ {"check", "put"} /\ d.document \in Parts /\ d.document # "tar"
         /\ d.document # "seal"
    BY <1>6, <1>7, <1>10 DEF Writing, Busy, Parts, Documents
  <1>12. Active(p) /\ SharesKept(p)
    BY <1>6, <1>7, <1>8, <1>11, PartKept
  <1>13. /\ Evidenced(p)'
         /\ ~cmd[p].shared => Persisting(p) /\ Filling(p) /\ Persisting(p)'
         /\ \A x : Own(p, x)' = Own(p, x)
    BY <1>1, <1>6, <1>7, <1>10, <1>11, EvidenceKept
  <1>14. ASSUME ~cmd[p].shared PROVE Filling(p)'
    <2>1. Persisting(p) /\ Filling(p)
      BY <1>13, <1>14
    <2>2. v = Own(p, d.document)
      <3>1. Renamed(p) = Documents
        BY <1>1, <1>6 DEF Renamed
      <3>2. Stored(p, d.document)
        BY <1>7, <2>1, <3>1 DEF Persisting
      <3> QED
        BY <1>2, <1>7, <3>2 DEF Stored
    <2>3. /\ "seal" \notin DOMAIN capsule
          /\ "tar" \in DOMAIN capsule /\ capsule["tar"] = d.assessment.files
          /\ \A x \in Taken(p) : x \in DOMAIN capsule /\ capsule[x] = Own(p, x)
          /\ \A x \in Taken(p) : x \in DOMAIN d.copied /\ d.copied[x] = Own(p, x)
      BY <1>1, <1>6, <2>1 DEF Filling
    <2>4. \A x \in Taken(p)' : x \in Taken(p) \/ x = d.document
      BY <1>1, <1>4, <1>6, <1>10 DEF Taken, Documents
    <2>5. /\ "seal" \notin DOMAIN capsule'
          /\ "tar" \in DOMAIN capsule' /\ capsule'["tar"] = d.assessment.files
      BY <1>6, <1>11, <2>3 DEF With
    <2>6. ASSUME NEW x \in Taken(p)'
          PROVE  /\ x \in DOMAIN capsule' /\ capsule'[x] = Own(p, x)'
                 /\ x \in DOMAIN w /\ w[x] = Own(p, x)'
      <3>1. Own(p, x)' = Own(p, x)
        BY <1>13
      <3>2. CASE x = d.document
        BY <1>6, <1>9, <2>2, <3>1, <3>2 DEF With
      <3>3. CASE x # d.document
        BY <1>6, <1>9, <2>3, <2>4, <2>6, <3>1, <3>3 DEF With
      <3> QED
        BY <3>2, <3>3
    <2>7. c.at \notin {"pack", "compare", "tarball", "seal"}
      BY <1>10
    <2> QED
      BY <1>6, <1>10, <2>5, <2>6, <2>7 DEF Filling
  <1> QED
    BY <1>1, <1>6, <1>7, <1>10, <1>11, <1>12, <1>13, <1>14, ActiveKeeps

LEMMA ManifestKeeps ==
    ASSUME PublishInv, NEW p \in Commands, WriteManifest(p)
    PROVE  PublishInv'
  <1>1. PICK d \in Cmds : d = cmd[p]
    BY CmdIs
  <1>2. PICK c : c = [d EXCEPT !.at = "seal", !.copied = NoFiles]
    OBVIOUS
  <1>3. /\ c \in Cmds /\ c.at = "seal" /\ c.assessment = d.assessment /\ c.list = d.list
        /\ c.key = d.key /\ c.read = d.read /\ c.packed = d.packed /\ c.edited = d.edited
        /\ c.shared = d.shared
    BY <1>2, NothingListed DEF Cmds, Places, Busy
  <1>4. Become(p, c) /\ d.at = "manifest" /\ cmd'[p] = c
        /\ UNCHANGED <<root, pubKey, temps, evidence, sent, faults>>
    BY <1>1, <1>2, CmdIs DEF WriteManifest
  <1>5. PICK m : m = [version |-> d.assessment.version, digest |-> d.assessment.files,
                      key |-> d.key, tar |-> capsule["tar"], evidence |-> d.copied]
    OBVIOUS
  <1>6. capsule' = With(capsule, "manifest", m)
    BY <1>1, <1>5 DEF WriteManifest, PutPart
  <1>7. Writing(p) /\ Writing(p)' /\ c.at \in Busy \ {"check", "put"} /\ "manifest" \in Parts
    BY <1>1, <1>3, <1>4 DEF Writing, Busy, Parts
  <1>8. Active(p) /\ SharesKept(p)
    BY <1>4, <1>6, <1>7, PartKept
  <1>9. /\ Evidenced(p)'
        /\ ~cmd[p].shared => Filling(p) /\ Persisting(p)' /\ cmd[p].key = pubKey
        /\ \A x : Own(p, x)' = Own(p, x)
    BY <1>1, <1>3, <1>4, <1>7, EvidenceKept
  <1>10. ASSUME ~cmd[p].shared PROVE Filling(p)'
    <2>1. Filling(p) /\ d.key = pubKey
      BY <1>1, <1>9, <1>10
    <2>2. Taken(p) = Documents /\ Taken(p)' = Documents
      BY <1>1, <1>3, <1>4 DEF Taken
    <2>3. /\ "seal" \notin DOMAIN capsule
          /\ "tar" \in DOMAIN capsule /\ capsule["tar"] = d.assessment.files
          /\ \A x \in Documents : x \in DOMAIN capsule /\ capsule[x] = Own(p, x)
          /\ \A x \in Documents : x \in DOMAIN d.copied /\ d.copied[x] = Own(p, x)
      BY <1>1, <1>4, <2>1, <2>2 DEF Filling
    <2>4. /\ "seal" \notin DOMAIN capsule'
          /\ "tar" \in DOMAIN capsule' /\ capsule'["tar"] = d.assessment.files
          /\ "manifest" \in DOMAIN capsule' /\ capsule'["manifest"] = m
      BY <1>6, <2>3 DEF With
    <2>5. ASSUME NEW x \in Documents PROVE x \in DOMAIN capsule' /\ capsule'[x] = Own(p, x)'
      <3>1. x # "manifest"
        BY DEF Documents
      <3> QED
        BY <1>6, <1>9, <2>3, <3>1 DEF With
    <2>6. /\ m.version = d.assessment.version /\ m.digest = d.assessment.files
          /\ m.key = pubKey' /\ m.tar = d.assessment.files
          /\ \A x \in Documents : x \in DOMAIN m.evidence /\ m.evidence[x] = Own(p, x)'
      <3>1. m.version = d.assessment.version /\ m.digest = d.assessment.files
            /\ m.key = d.key /\ m.tar = capsule["tar"] /\ m.evidence = d.copied
        BY <1>5
      <3> QED
        BY <1>4, <1>9, <2>1, <2>3, <3>1
    <2> QED
      BY <1>3, <1>4, <2>2, <2>4, <2>5, <2>6 DEF Filling
  <1> QED
    BY <1>1, <1>3, <1>4, <1>7, <1>8, <1>9, <1>10, ActiveKeeps

LEMMA SealKeeps ==
    ASSUME PublishInv, NEW p \in Commands, SealCapsule(p)
    PROVE  PublishInv'
  <1>1. PICK d \in Cmds : d = cmd[p]
    BY CmdIs
  <1>2. PICK s \in BOOLEAN : s = d.shared
    BY DEF Cmds
  <1>3. PICK c : c = [Idle EXCEPT !.at = "created", !.shared = s]
    OBVIOUS
  <1>4. c \in Cmds /\ c.at = "created" /\ c.assessment = NoAssessment /\ c.shared = d.shared
    BY <1>2, <1>3, IdleTyped DEF Cmds, Places, Over
  <1>5. Become(p, c) /\ d.at = "seal" /\ cmd'[p] = c
        /\ UNCHANGED <<root, pubKey, temps, evidence, sent, faults>>
    BY <1>1, <1>2, <1>3, CmdIs DEF SealCapsule, End
  <1>6. PICK v : v = [by |-> p, key |-> pubKey]
    OBVIOUS
  <1>7. capsule' = With(capsule, "seal", v)
    BY <1>6 DEF SealCapsule, PutPart
  <1>8. Writing(p) /\ "seal" \in Parts
    BY <1>1, <1>5 DEF Writing, Parts
  <1>9. Active(p) /\ SharesKept(p)
    BY <1>5, <1>7, <1>8, PartKept
  <1>10. SentAsAssessed'
    BY <1>5 DEF PublishInv, SentAsAssessed
  <1>11. pubKey' \in Keys /\ pubKey' = pubKey /\ pubKey' # NoPublishKey
    BY <1>5, <1>9 DEF PublishInv, PublishTyped, KeyThere, Active
  <1>12. c.at \notin Busy
    BY <1>4 DEF Busy
  <1>13. ~Writing(p)'
    BY <1>4, <1>5 DEF Writing
  <1>14. Evidenced(p)' /\ Unmarked(p)' /\ Unwritten(p)'
    BY <1>4, <1>5, <1>12 DEF Evidenced, Unmarked, Unwritten, Active
  <1>15. FollowsDirectory(p)'
    BY <1>4, <1>5, <1>12 DEF FollowsDirectory, Over
  <1>16. Finished(p)'
    <2>1. SUFFICES ASSUME ~d.shared
                   PROVE  /\ Parts \subseteq DOMAIN capsule'
                          /\ \A q \in Commands : ~Writing(q)'
                          /\ VerifiesCapsule'
      BY <1>4, <1>5 DEF Finished
    <2>2. Persisting(p) /\ Filling(p)
      BY <1>1, <1>9, <2>1 DEF PublishInv, Unmarked
    <2>3. Taken(p) = Documents
      BY <1>1, <1>5 DEF Taken
    <2>4. PICK m : m = capsule["manifest"]
      OBVIOUS
    <2>5. /\ "tar" \in DOMAIN capsule /\ capsule["tar"] = d.assessment.files
          /\ \A x \in Documents : x \in DOMAIN capsule /\ capsule[x] = Own(p, x)
          /\ "manifest" \in DOMAIN capsule
          /\ m.version = d.assessment.version /\ m.digest = d.assessment.files
          /\ m.key = pubKey /\ m.tar = d.assessment.files
          /\ \A x \in Documents : x \in DOMAIN m.evidence /\ m.evidence[x] = Own(p, x)
      BY <1>1, <1>5, <2>2, <2>3, <2>4 DEF Filling
    <2>6. DOMAIN capsule' = DOMAIN capsule \cup {"seal"} /\ capsule'["seal"] = v
          /\ \A x \in DOMAIN capsule : x # "seal" => capsule'[x] = capsule[x]
      BY <1>7 DEF With
    <2>7. Parts \subseteq DOMAIN capsule'
      BY <2>5, <2>6 DEF Parts
    <2>8. ASSUME NEW q \in Commands PROVE ~Writing(q)'
      <3>1. CASE q = p
        BY <1>13, <3>1
      <3>2. CASE q # p
        <4>1. ~Active(q) /\ cmd'[q] = cmd[q]
          BY <1>1, <1>5, <1>9, <2>1, <3>2 DEF PublishInv, Apart, Become, PublishTyped
        <4> QED
          BY <4>1 DEF Active, Writing, Busy
      <3> QED
        BY <3>1, <3>2
    <2>9. /\ capsule'["manifest"] = m /\ capsule'["tar"] = d.assessment.files
          /\ \A x \in Documents : capsule'[x] = Own(p, x)
      <3>1. \A x \in Documents : x # "seal"
        BY DEF Documents
      <3> QED
        BY <2>4, <2>5, <2>6, <3>1
    <2>10. "assessment" \in Documents /\ "signature" \in Documents
      BY DEF Documents
    <2>11. /\ Own(p, "assessment").of = d.assessment /\ Own(p, "signature").of = d.assessment
           /\ Own(p, "signature").key = pubKey /\ v.key = pubKey
      BY <1>1, <1>6 DEF Own
    <2>12. /\ capsule'["assessment"].of = d.assessment /\ capsule'["signature"].of = d.assessment
           /\ capsule'["signature"].key = pubKey /\ capsule'["seal"].key = pubKey
      BY <2>6, <2>9, <2>10, <2>11
    <2>13. VerifiesCapsule'
      BY <1>11, <2>5, <2>7, <2>9, <2>12 DEF VerifiesCapsule, MatchesAssessment
    <2> QED
      BY <2>7, <2>8, <2>13
  <1>17. /\ faults' \in [edits : Nat, kills : Nat, damage : Nat]
         /\ faults'.damage = faults.damage
    BY <1>5 DEF PublishInv, PublishTyped
  <1>18. Ordered(c.assessment) /\ ~Blocked(c.assessment.files)
    BY <1>4, IdleTyped
  <1> QED
    BY <1>4, <1>5, <1>9, <1>10, <1>11, <1>12, <1>13, <1>14, <1>15, <1>16, <1>17, <1>18, StepKeeps

-----------------------------------------------------------------------------
(* The uploads: what is packed a second time is what was read.             *)
LEMMA UploadSound ==
    ASSUME PublishInv, NEW p \in Commands, Active(p), NEW files \in Listings, NEW how,
           ~cmd[p].edited => DOMAIN files = cmd[p].list /\ Matches(files),
           how = "put" => DOMAIN files = cmd[p].list,
           sent' = sent \cup {Upload(p, how, files)}
    PROVE  SentAsAssessed'
  <1>1. PICK u : u = Upload(p, how, files)
    OBVIOUS
  <1>2. /\ u.files = files /\ u.assessed = cmd[p].assessment.files /\ u.edited = cmd[p].edited
        /\ u.how = how
    BY <1>1 DEF Upload
  <1>3. ASSUME ~u.edited PROVE u.files = u.assessed /\ \A f \in DOMAIN u.files : u.files[f] \notin Secrets
    <2>1. PICK x \in Listings : x = cmd[p].assessment.files
      BY CmdIs
    <2>2. /\ DOMAIN files = cmd[p].list /\ Matches(files)
          /\ DOMAIN x = cmd[p].list /\ Matches(x)
      BY <1>2, <1>3, <2>1, BusyFollows
    <2>3. files = x
      BY <2>2, SameListing DEF Matches
    <2>4. ~Blocked(x)
      BY <2>1 DEF PublishInv, CleanMade
    <2> QED
      BY <1>2, <2>1, <2>3, <2>4 DEF Blocked
  <1>4. u.how = "put" => DOMAIN u.files = DOMAIN u.assessed
    BY <1>2 DEF PublishInv, FollowsDirectory, Active
  <1> QED
    BY <1>1, <1>3, <1>4 DEF PublishInv, SentAsAssessed

LEMMA StageKeeps ==
    ASSUME PublishInv, NEW p \in Commands, StagePublish(p)
    PROVE  PublishInv'
  <1>1. UNCHANGED <<root, pubKey, temps, evidence, capsule, faults>> /\ Active(p)
    BY DEF StagePublish, Active, Busy
  <1>2. CASE Fail(p) /\ UNCHANGED sent
    BY <1>1, <1>2, FailKeeps DEF Fail
  <1>3. CASE sent' = sent \cup {Upload(p, "npm", Restrict(root, Packlist))} /\ End(p, "done")
    <2>1. root \in Listings /\ Packlist \in SUBSET DOMAIN root
      BY RootIs
    <2>2. PICK files \in Listings : /\ files = Restrict(root, Packlist) /\ DOMAIN files = Packlist
                                    /\ \A g \in Packlist : files[g] = root[g]
      BY <2>1, RestrictListing
    <2>3. Matches(files)
      BY <2>1, <2>2 DEF Matches
    <2>4. ~cmd[p].edited => DOMAIN files = cmd[p].list
      BY <1>1, <2>2, BusyFollows
    <2>5. SentAsAssessed'
      BY <1>1, <1>3, <2>2, <2>3, <2>4, UploadSound
    <2>6. /\ faults' \in [edits : Nat, kills : Nat, damage : Nat]
          /\ faults'.damage = faults.damage
      BY <1>1 DEF PublishInv, PublishTyped
    <2> QED
      BY <1>1, <1>3, <2>5, <2>6, EndKeeps
  <1> QED
    BY <1>2, <1>3 DEF StagePublish

LEMMA PutKeeps ==
    ASSUME PublishInv, NEW p \in Commands, Put(p)
    PROVE  PublishInv'
  <1>1. UNCHANGED <<root, pubKey, temps, evidence, capsule, faults>> /\ Active(p)
    BY DEF Put, Active, Busy
  <1>2. PICK files \in Listings : files = cmd[p].packed
    BY CmdIs
  <1>3. /\ DOMAIN files = cmd[p].list
        /\ ~cmd[p].edited => DOMAIN files = cmd[p].list /\ Matches(files)
    <2>1. DOMAIN files = cmd[p].list
      BY <1>2 DEF Put, PublishInv, FollowsDirectory
    <2> QED
      BY <1>1, <1>2, <2>1, BusyFollows
  <1>4. SentAsAssessed'
    BY <1>1, <1>2, <1>3, UploadSound DEF Put
  <1>5. /\ faults' \in [edits : Nat, kills : Nat, damage : Nat]
        /\ faults'.damage = faults.damage
    BY <1>1 DEF PublishInv, PublishTyped
  <1>6. End(p, "done") \/ End(p, "failed")
    BY DEF Put, Fail
  <1> QED
    BY <1>1, <1>4, <1>5, <1>6, EndKeeps

LEMMA KillKeeps ==
    ASSUME PublishInv, NEW p \in Commands, Kill(p)
    PROVE  PublishInv'
  <1>1. /\ faults' \in [edits : Nat, kills : Nat, damage : Nat]
        /\ faults'.damage = faults.damage
    BY DEF Kill, PublishInv, PublishTyped
  <1>2. SentAsAssessed'
    BY DEF Kill, PublishInv, SentAsAssessed
  <1> QED
    BY <1>1, <1>2, EndKeeps DEF Kill, Fail

-----------------------------------------------------------------------------
(* A change of the directory marks every command that is under way.        *)
LEMMA EditedRoot ==
    ASSUME PublishInv, DirectoryChanges
    PROVE  root' \in Listings /\ Manifest \in DOMAIN root'
  <1>1. PICK f \in Files, b \in Bytes :
          root' \in {With(root, f, b)}
                    \cup (IF f = Manifest THEN {} ELSE {Restrict(root, DOMAIN root \ {f})})
    BY DEF DirectoryChanges
  <1>2. root \in Listings /\ Manifest \in DOMAIN root /\ b \in Nat
    BY RootIs, PublishAssumption
  <1>3. CASE root' = With(root, f, b)
    <2>1. With(root, f, b) \in Listings /\ DOMAIN With(root, f, b) = DOMAIN root \cup {f}
      BY <1>2, WithListing
    <2> QED
      BY <1>2, <1>3, <2>1
  <1>4. CASE f # Manifest /\ root' = Restrict(root, DOMAIN root \ {f})
    <2>1. PICK S \in SUBSET DOMAIN root : S = DOMAIN root \ {f}
      OBVIOUS
    <2>2. root' = Restrict(root, S) /\ Manifest \in S
      BY <1>2, <1>4, <2>1
    <2> QED
      BY <1>2, <2>2, RestrictListing
  <1> QED
    BY <1>1, <1>3, <1>4

LEMMA ChangeKeeps ==
    ASSUME PublishInv, DirectoryChanges,
           UNCHANGED <<pubKey, temps, evidence, capsule, sent>>,
           faults' \in [edits : Nat, kills : Nat, damage : Nat], faults'.damage = faults.damage
    PROVE  PublishInv'
  <1>1. UNCHANGED <<pubKey, temps, evidence, capsule, sent>>
    OBVIOUS
  <1>2. faults' \in [edits : Nat, kills : Nat, damage : Nat] /\ faults'.damage = faults.damage
    OBVIOUS
  <1>3. ASSUME NEW q \in Commands
        PROVE  /\ cmd'[q] \in Cmds /\ cmd'[q].edited = (cmd[q].edited \/ cmd[q].at \notin Over)
               /\ cmd'[q].at = cmd[q].at /\ cmd'[q].kind = cmd[q].kind
               /\ cmd'[q].list = cmd[q].list /\ cmd'[q].key = cmd[q].key
               /\ cmd'[q].read = cmd[q].read /\ cmd'[q].assessment = cmd[q].assessment
               /\ cmd'[q].document = cmd[q].document /\ cmd'[q].packed = cmd[q].packed
               /\ cmd'[q].copied = cmd[q].copied /\ cmd'[q].shared = cmd[q].shared
    <2>1. PICK e \in Cmds : e = cmd[q]
      BY CmdIs
    <2>2. PICK t \in BOOLEAN : t = (e.edited \/ e.at \notin Over)
      OBVIOUS
    <2>3. PICK g : g = [e EXCEPT !.edited = t]
      OBVIOUS
    <2>4. cmd'[q] = g
      BY <2>1, <2>2, <2>3 DEF DirectoryChanges
    <2>5. /\ g \in Cmds /\ g.edited = t /\ g.copied = e.copied
          /\ g.at = e.at /\ g.kind = e.kind /\ g.list = e.list /\ g.key = e.key
          /\ g.read = e.read /\ g.assessment = e.assessment
          /\ g.document = e.document /\ g.packed = e.packed /\ g.shared = e.shared
      BY <2>3 DEF Cmds
    <2> QED
      BY <2>1, <2>2, <2>4, <2>5
  <1>4. PublishTyped'
    <2>1. cmd' \in [Commands -> Cmds]
      BY <1>3 DEF DirectoryChanges
    <2> QED
      BY <1>1, <1>2, <2>1, EditedRoot DEF PublishInv, PublishTyped
  <1>5. PreviousLower'
    BY <1>3 DEF PublishInv, PreviousLower
  <1>6. CleanMade'
    BY <1>1, <1>3 DEF PublishInv, CleanMade
  <1>7. KeyThere'
    BY <1>1, <1>3 DEF PublishInv, KeyThere
  <1>8. SentAsAssessed'
    BY <1>1 DEF PublishInv, SentAsAssessed
  <1>9. ASSUME NEW q \in Commands
        PROVE  /\ Active(q)' <=> Active(q)
               /\ Writing(q)' <=> Writing(q)
               /\ Renamed(q)' = Renamed(q) /\ Taken(q)' = Taken(q) /\ Place(q)' = Place(q)
    <2>1. (Active(q)' <=> Active(q)) /\ (Writing(q)' <=> Writing(q))
      BY <1>3 DEF Active, Writing
    <2>2. Renamed(q)' = Renamed(q) /\ Taken(q)' = Taken(q) /\ Place(q)' = Place(q)
      BY <1>3 DEF Renamed, Taken, Place
    <2> QED
      BY <2>1, <2>2
  <1>10. Apart'
    BY <1>3, <1>9 DEF PublishInv, Apart
  <1>11. ASSUME NEW q \in Commands, NEW x
         PROVE At(q, x)' = At(q, x) /\ Own(q, x)' = Own(q, x) /\ (Stored(q, x)' <=> Stored(q, x))
    BY <1>1, <1>3 DEF At, Own, Stored
  <1>12. ASSUME NEW q \in Commands PROVE FollowsDirectory(q)'
    <2>1. cmd'[q].at \notin Over \cup {"list"} => cmd'[q].edited
      BY <1>3
    <2>2. FollowsDirectory(q)
      BY DEF PublishInv
    <2> QED
      BY <1>3, <2>1, <2>2 DEF FollowsDirectory
  <1>13. ASSUME NEW q \in Commands PROVE Evidenced(q)' /\ Unwritten(q)' /\ Unmarked(q)'
    <2>1. Evidenced(q)'
      BY <1>1, <1>9, <1>11 DEF PublishInv, Evidenced
    <2>2. Unwritten(q)'
      BY <1>3 DEF PublishInv, Unwritten
    <2>3. ASSUME Active(q), ~cmd[q].shared PROVE Persisting(q)' /\ Filling(q)'
      <3>1. Persisting(q) /\ Filling(q)
        BY <2>3 DEF PublishInv, Unmarked
      <3>2. Own(q, cmd[q].document)' = Own(q, cmd[q].document)
        BY <1>1, <1>3 DEF Own
      <3>3. Persisting(q)'
        BY <1>1, <1>3, <1>9, <1>11, <3>1, <3>2 DEF Persisting
      <3>4. Filling(q)'
        BY <1>1, <1>3, <1>9, <1>11, <3>1 DEF Filling
      <3> QED
        BY <3>3, <3>4
    <2>4. Unmarked(q)'
      BY <1>3, <1>9, <2>3 DEF Unmarked
    <2> QED
      BY <2>1, <2>2, <2>4
  <1>14. ASSUME NEW q \in Commands PROVE Finished(q)'
    <2>1. VerifiesCapsule => VerifiesCapsule'
      BY <1>1 DEF VerifiesCapsule
    <2> QED
      BY <1>1, <1>2, <1>3, <1>9, <2>1 DEF PublishInv, Finished
  <1> QED
    BY <1>4, <1>5, <1>6, <1>7, <1>8, <1>10, <1>12, <1>13, <1>14 DEF PublishInv

LEMMA EditKeeps ==
    ASSUME PublishInv, Edit
    PROVE  PublishInv'
  <1>1. faults' \in [edits : Nat, kills : Nat, damage : Nat] /\ faults'.damage = faults.damage
    BY DEF Edit, PublishInv, PublishTyped
  <1> QED
    BY <1>1, ChangeKeeps DEF Edit

LEMMA ScriptKeeps ==
    ASSUME PublishInv, NEW p \in Commands, RunPackScript(p)
    PROVE  PublishInv'
  <1>1. faults' \in [edits : Nat, kills : Nat, damage : Nat] /\ faults'.damage = faults.damage
    BY DEF RunPackScript, PublishInv, PublishTyped
  <1> QED
    BY <1>1, ChangeKeeps DEF RunPackScript

\* A sealed capsule is nobody's any more.
LEMMA DamageKeeps ==
    ASSUME PublishInv, DamageCapsule
    PROVE  PublishInv'
  <1>1. UNCHANGED <<root, pubKey, temps, evidence, published, sent, cmd>>
        /\ "seal" \in DOMAIN capsule /\ "tar" \in DOMAIN capsule
    BY DEF DamageCapsule
  <1>2. faults' \in [edits : Nat, kills : Nat, damage : Nat] /\ faults'.damage # 0
    BY DEF DamageCapsule, PublishInv, PublishTyped
  <1>3. PICK f \in DOMAIN capsule["tar"], b \in Bytes :
          capsule' = With(capsule, "tar", [capsule["tar"] EXCEPT ![f] = b])
    BY DEF DamageCapsule, PutPart
  <1>4. PICK y \in Listings : capsule' = With(capsule, "tar", y)
    <2>1. PICK t \in Listings : t = capsule["tar"]
      BY <1>1 DEF PublishInv, PublishTyped
    <2>2. PICK S \in SUBSET Files : t \in [S -> Nat]
      BY DEF Listings
    <2>3. b \in Nat
      BY PublishAssumption
    <2>4. [t EXCEPT ![f] = b] \in [S -> Nat]
      BY <2>1, <2>2, <2>3
    <2>5. [t EXCEPT ![f] = b] \in Listings
      BY <2>4 DEF Listings
    <2> QED
      BY <1>3, <2>1, <2>5
  <1>5. DOMAIN capsule' = DOMAIN capsule /\ capsule'["tar"] = y
        /\ \A x \in DOMAIN capsule : x # "tar" => capsule'[x] = capsule[x]
    BY <1>1, <1>4 DEF With
  <1>6. PublishTyped'
    BY <1>1, <1>2, <1>5 DEF PublishInv, PublishTyped
  <1>7. PreviousLower' /\ KeyThere' /\ CleanMade' /\ SentAsAssessed' /\ Apart'
    <2>1. PreviousLower' /\ KeyThere'
      BY <1>1 DEF PublishInv, PreviousLower, KeyThere
    <2>2. CleanMade'
      BY <1>1, <1>5 DEF PublishInv, CleanMade
    <2>3. SentAsAssessed' /\ Apart'
      BY <1>1 DEF PublishInv, SentAsAssessed, Apart, Active
    <2> QED
      BY <2>1, <2>2, <2>3
  <1>8. ASSUME NEW q \in Commands
        PROVE  FollowsDirectory(q)' /\ Evidenced(q)' /\ Unwritten(q)'
    <2>1. FollowsDirectory(q)' /\ Unwritten(q)'
      BY <1>1 DEF PublishInv, FollowsDirectory, Unwritten, Matches, Packlist
    <2>2. Evidenced(q)'
      BY <1>1 DEF PublishInv, Evidenced, Active, Renamed, At
    <2> QED
      BY <2>1, <2>2
  <1>9. ASSUME NEW q \in Commands PROVE Unmarked(q)'
    <2>1. SUFFICES ASSUME Active(q), ~cmd[q].shared PROVE Persisting(q)' /\ Filling(q)'
      BY <1>1 DEF Unmarked, Active
    <2>2. Persisting(q) /\ Filling(q)
      BY <2>1 DEF PublishInv, Unmarked
    <2>3. Persisting(q)'
      BY <1>1, <2>2 DEF Persisting, Renamed, Stored, At, Own, Place
    <2>4. ~Writing(q)
      <3>1. capsule # NoFiles
        BY <1>1, NothingListed
      <3> QED
        BY <1>1, <2>2, <3>1 DEF Writing, Filling
    <2>5. Filling(q)'
      BY <1>1, <2>4 DEF Filling, Writing
    <2> QED
      BY <2>3, <2>5
  <1>10. ASSUME NEW q \in Commands PROVE Finished(q)'
    BY <1>1, <1>2, <1>5 DEF PublishInv, Finished, Writing
  <1> QED
    BY <1>6, <1>7, <1>8, <1>9, <1>10 DEF PublishInv

-----------------------------------------------------------------------------
(* The whole specification.                                                *)
LEMMA PublishStarts ==
    PublishInit => PublishInv
  <1> SUFFICES ASSUME PublishInit PROVE PublishInv
    OBVIOUS
  <1>1. /\ DOMAIN temps = {} /\ DOMAIN evidence = {} /\ DOMAIN capsule = {} /\ sent = {}
        /\ capsule = NoFiles /\ pubKey = NoPublishKey
    BY NothingListed DEF PublishInit
  <1>2. ASSUME NEW p \in Commands
        PROVE  /\ cmd[p] = Idle /\ cmd[p].at = "idle" /\ cmd[p].document = FirstDocument
               /\ cmd[p].read = NoFiles /\ cmd[p].packed = NoFiles /\ ~cmd[p].shared
               /\ cmd[p].assessment = NoAssessment
    BY DEF PublishInit, Idle
  <1>3. PublishTyped
    <2>1. root \in Listings /\ Manifest \in DOMAIN root
      BY PublishAssumption DEF PublishInit, Listings
    <2>2. cmd \in [Commands -> Cmds]
      BY IdleTyped DEF PublishInit
    <2>3. faults \in [edits : Nat, kills : Nat, damage : Nat]
      BY DEF PublishInit
    <2> QED
      BY <1>1, <2>1, <2>2, <2>3 DEF PublishTyped, Keys
  <1>4. PreviousLower /\ CleanMade
    BY <1>1, <1>2, IdleTyped DEF PreviousLower, CleanMade
  <1>5. KeyThere /\ Apart /\ SentAsAssessed
    BY <1>1, <1>2 DEF KeyThere, Apart, SentAsAssessed, Active, Busy
  <1>6. ASSUME NEW p \in Commands
        PROVE  FollowsDirectory(p) /\ Evidenced(p) /\ Unwritten(p) /\ Unmarked(p) /\ Finished(p)
    <2>1. FollowsDirectory(p)
      BY <1>2, NothingListed DEF FollowsDirectory, Over, Busy
    <2>2. Evidenced(p) /\ Unwritten(p) /\ Unmarked(p) /\ Finished(p)
      BY <1>2 DEF Evidenced, Unwritten, Unmarked, Finished, Active, Busy
    <2> QED
      BY <2>1, <2>2
  <1> QED
    BY <1>3, <1>4, <1>5, <1>6 DEF PublishInv

LEMMA PublishNextKeeps ==
    PublishInv /\ [PublishNext]_pubVars => PublishInv'
  <1> SUFFICES ASSUME PublishInv, [PublishNext]_pubVars PROVE PublishInv'
    OBVIOUS
  <1>1. CASE Edit
    BY <1>1, EditKeeps
  <1>2. CASE DamageCapsule
    BY <1>2, DamageKeeps
  <1>3. ASSUME NEW p \in Commands, PublishStep(p) PROVE PublishInv'
    <2>1. CASE \E kind \in Kinds : BeginPublish(p, kind)
      BY <2>1, BeginKeeps
    <2>2. CASE List(p) \/ LoadPublishKey(p) \/ LinkPublishKey(p)
      BY <2>2, ListKeeps, KeyKeeps
    <2>3. CASE ReadFile(p) \/ Assess(p)
      BY <2>3, ReadKeeps, AssessKeeps
    <2>4. CASE WriteTemp(p) \/ RenameTemp(p)
      BY <2>4, TempKeeps, RenameKeeps
    <2>5. CASE RunPackScript(p) \/ StagePublish(p) \/ Put(p) \/ Kill(p)
      BY <2>5, ScriptKeeps, StageKeeps, PutKeeps, KillKeeps
    <2>6. CASE CheckOutput(p) \/ PackFile(p) \/ Packed(p)
      BY <2>6, OutputKeeps, PackKeeps, PackedKeeps
    <2>7. CASE CheckPublished(p) \/ VerifyPacked(p)
      BY <2>7, PublishedKeeps, VerifyKeeps
    <2>8. CASE CopyTarball(p) \/ CopyDocument(p)
      BY <2>8, TarballKeeps, DocumentKeeps
    <2>9. CASE WriteManifest(p) \/ SealCapsule(p)
      BY <2>9, ManifestKeeps, SealKeeps
    <2> QED
      BY <1>3, <2>1, <2>2, <2>3, <2>4, <2>5, <2>6, <2>7, <2>8, <2>9 DEF PublishStep
  <1>4. CASE UNCHANGED pubVars
    <2>1. UNCHANGED <<root, pubKey, temps, evidence, capsule, sent, cmd, faults>>
      BY <1>4 DEF pubVars
    <2>2. PublishTyped' /\ PreviousLower' /\ KeyThere' /\ CleanMade'
      BY <2>1 DEF PublishInv, PublishTyped, PreviousLower, KeyThere, CleanMade
    <2>3. SentAsAssessed' /\ Apart'
      BY <2>1 DEF PublishInv, SentAsAssessed, Apart, Active
    <2>4. ASSUME NEW p \in Commands PROVE FollowsDirectory(p)' /\ Evidenced(p)' /\ Unwritten(p)'
      BY <2>1 DEF PublishInv, FollowsDirectory, Matches, Packlist, Evidenced, Active, Renamed, At, Unwritten
    <2>5. ASSUME NEW p \in Commands PROVE Unmarked(p)'
      BY <2>1 DEF PublishInv, Unmarked, Active, Persisting, Filling, Renamed, Stored, At, Own, Place,
                  Taken, Writing
    <2>6. ASSUME NEW p \in Commands PROVE Finished(p)'
      BY <2>1 DEF PublishInv, Finished, Writing, VerifiesCapsule
    <2> QED
      BY <2>2, <2>3, <2>4, <2>5, <2>6 DEF PublishInv
  <1> QED
    BY <1>1, <1>2, <1>3, <1>4 DEF PublishNext

LEMMA PublishInvAlways ==
    PublishSpec => []PublishInv
  BY PublishStarts, PublishNextKeeps, PTL DEF PublishSpec

(* In every reachable state the types of Publish hold: among them, that    *)
(* attach_previous_release names a lower release than the assessed one.    *)
THEOREM PublishTypeCorrect ==
    PublishSpec => []PublishTypeOK
  <1>1. PublishInv => PublishTypeOK
    <2> SUFFICES ASSUME PublishInv PROVE PublishTypeOK
      OBVIOUS
    <2>1. ASSUME NEW p \in Commands
          PROVE  /\ cmd[p].at \in Places /\ cmd[p].list \subseteq Files
                 /\ cmd[p].assessment.previous \in 0..(cmd[p].assessment.version)
                 /\ cmd[p].assessment.previous = cmd[p].assessment.version => cmd[p].assessment.version = 0
      <3>1. PICK a \in Assessments : a = cmd[p].assessment
        BY CmdIs
      <3>2. Ordered(a) /\ a.previous \in Nat /\ a.version \in Nat
        BY <3>1 DEF PublishInv, PreviousLower, Assessments
      <3>3. cmd[p].at \in Places /\ cmd[p].list \subseteq Files
        BY DEF PublishInv, PublishTyped, Cmds
      <3> QED
        BY <3>1, <3>2, <3>3 DEF Ordered
    <2>2. /\ Manifest \in DOMAIN root /\ pubKey \in Commands \cup {NoPublishKey}
          /\ DOMAIN capsule \subseteq Parts
      BY DEF PublishInv, PublishTyped, Keys
    <2> QED
      BY <2>1, <2>2 DEF PublishTypeOK, Places
  <1> QED
    BY <1>1, PublishInvAlways, PTL

(* What leaves the machine was assessed, holds no secret and carries its   *)
(* own evidence: an accepted capsule is clean whatever was edited, killed, *)
(* overlapped or damaged; a transfer that ran alone made one that          *)
(* verifies; an upload from an unedited directory is the assessed files.   *)
THEOREM OutboundSoundAlways ==
    PublishSpec => []OutboundSound
  <1>1. PublishInv => OutboundSound
    <2> SUFFICES ASSUME PublishInv PROVE OutboundSound
      OBVIOUS
    <2>1. AcceptedClean
      <3>1. SUFFICES ASSUME VerifiesCapsule PROVE ~Blocked(capsule["tar"])
        BY DEF AcceptedClean
      <3>2. "assessment" \in DOMAIN capsule /\ capsule["tar"] = capsule["assessment"].of.files
        BY <3>1 DEF VerifiesCapsule, Parts, Documents, MatchesAssessment
      <3> QED
        BY <3>2 DEF PublishInv, CleanMade
    <2>2. CreatedVerifies
      BY DEF PublishInv, Finished, CreatedVerifies
    <2> QED
      BY <2>1, <2>2 DEF PublishInv, OutboundSound
  <1> QED
    BY <1>1, PublishInvAlways, PTL
=============================================================================

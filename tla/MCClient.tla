------------------------------ MODULE MCClient ------------------------------
(***************************************************************************)
(* The parts of the command line a user's installs and runs go through, in *)
(* one run.  They share no variable, so a behaviour is one part's, chosen  *)
(* in the initial state; the variables of the others keep one value.       *)
(***************************************************************************)
EXTENDS MCExec, ContentStore, TransparencyLog, PackumentCache, Tarball,
        Sandbox, Resolver, LinkPlan

VARIABLE part

ClientParts == {"store", "exec", "log", "fetch", "tarball", "sandbox", "resolver", "links"}

----------------------------------------------------------------------------
(* Tarball: expected digests of three algorithms, and archives with paths   *)
(* of every kind sanitize_tar_path tells apart.                             *)
ExpectedDigests ==
  SUBSET {[algo |-> "sha512", of |-> "a"], [algo |-> "sha1", of |-> "b"],
          [algo |-> "md5", of |-> "b"]}
FileEntry(path, size) == [kind |-> "file", path |-> path, size |-> size]
SampleEntries ==
  {FileEntry(<<"package", "f">>, 1), FileEntry(<<"package", "d", "g">>, 2),
   FileEntry(<<"package", "..", "..", "h">>, 1), FileEntry(<<"/", "package", "f">>, 1),
   FileEntry(<<".", "package", "k">>, 3), FileEntry(<<"package">>, 1),
   [kind |-> "dir", path |-> <<"package", "d">>, size |-> 0],
   [kind |-> "link", path |-> <<"package", "l">>, size |-> 0]}
SampleArchives == UNION {[1..n -> SampleEntries] : n \in 0..3}

----------------------------------------------------------------------------
(* Sandbox: a work directory inside a project, next to a key.               *)
HostPaths == {<<>>, <<"usr">>, <<"usr", "open">>, <<"home">>, <<"home", "work">>,
              <<"home", "work", "out">>, <<"home", "work", "lib">>, <<"home", "key">>,
              <<"dev">>, <<"dev", "null">>, <<"etc">>, <<"etc", "ssl">>, <<"box">>, <<"box", "temp">>}
HostSystem == {<<"usr">>}
HostTools == {<<"usr", "open">>}
HostMac == {<<"dev">>}
HostDevices == {<<"dev", "null">>}
HostNetwork == {<<"etc", "ssl">>}
HostBox == <<"box">>
HostWorkdir == <<"home", "work", "out">>
AskedPaths == {{}, {<<"home", "work">>}, {<<"home", "work", "lib">>}, {<<"home">>}, {<<"usr">>},
               {<<"home", "work", "lib">>, <<"home", "key">>}}
AskedPolicies ==
  [network : BOOLEAN, unrestricted : {FALSE}, read : AskedPaths, write : AskedPaths]

----------------------------------------------------------------------------
(* Resolver: packages a, b (two versions) and c with aliases, optional,     *)
(* foreign, tagged, git and peer dependencies.                              *)
InRange(versions) == [kind |-> "range", in |-> versions]
Latest == [kind |-> "tag"]
FromGit == [kind |-> "git"]
Declare(as, name, spec, opt) == [as |-> as, name |-> name, spec |-> spec, opt |-> opt]
Need(name, versions) == Declare(name, name, InRange(versions), FALSE)
May(name, versions) == Declare(name, name, InRange(versions), TRUE)
Release(deps, needed, compatible) == [deps |-> deps, peers |-> needed, compatible |-> compatible]
NeedPeer(name, versions, opt) == [name |-> name, in |-> versions, opt |-> opt]
DepsOfA == {{Need("b", {1})}, {Need("b", {1, 2}), Need("c", {1})}, {Need("b", {3})},
            {Declare("x", "b", InRange({1, 2}), FALSE), May("c", {1})},
            {Declare("g", "g", FromGit, FALSE), May("b", {1, 2})},
            {Need("b", {1}), May("b", {2})}}
DepsOfB == {{}, {Need("c", {1})}, {May("c", {1}), May("z", {1})},
            {Declare("b", "b", Latest, FALSE)}}
EmptyProject == [deps |-> {}, dev |-> {}, latest |-> <<>>, repos |-> <<>>, info |-> <<>>]
SampleProjects ==
  {EmptyProject} \cup
  {[deps |-> prod, dev |-> dev, latest |-> [n \in {"a", "b", "c", "z"} |-> 1],
    repos |-> [g \in {"g"} |->
                 [name |-> "h", version |-> 1, info |-> Release({Need("c", {1})}, {}, FALSE)]],
    info |-> (<<"a", 1>> :> Release(a, {}, TRUE)) @@ (<<"b", 1>> :> Release(b1, {}, TRUE))
               @@ (<<"b", 2>> :> Release(b2, p, TRUE)) @@ (<<"c", 1>> :> Release({}, p, c))] :
     prod \in {{Need("a", {1})}, {Need("a", {1}), Declare("c", "c", Latest, FALSE)}},
     dev \in {{}, {Need("b", {2})}, {Need("b", {1, 2})}},
     a \in DepsOfA, b1 \in DepsOfB, b2 \in {{}, {Need("b", {1})}, {Need("c", {1})}},
     p \in {{}, {NeedPeer("b", {1}, FALSE)}, {NeedPeer("a", {1}, TRUE)}}, c \in BOOLEAN}

----------------------------------------------------------------------------
(* LinkPlan: two versions of a scoped package between two plain ones.       *)
NodeOf(as, edges, needed, bin) ==
  [as |-> as, edges |-> [n \in {e[1] : e \in edges} |-> (CHOOSE e \in edges : e[1] = n)[2]],
   peers |-> needed, bin |-> bin]
EmptyGraph == [nodes |-> <<>>, roots |-> {}]
SampleGraphs ==
  {EmptyGraph} \cup
  {[nodes |-> ("a1" :> NodeOf(<<"a">>, ea, {}, ba))
              @@ ("b1" :> NodeOf(<<"@s", "b">>, eb, pb, <<"x">>))
              @@ ("b2" :> NodeOf(<<"@s", "b">>, fb, {}, <<"..", "x">>))
              @@ ("c1" :> NodeOf(<<"c">>, ec, pc, <<".", "y">>)),
    roots |-> r] :
     r \in {{"a1"}, {"a1", "b1"}},
     ea \in {{<<"b", "b1">>}, {<<"b", "b2">>, <<"c", "c1">>}, {<<"b", "b1">>, <<"z", "b2">>}, {}},
     ba \in {<<"bin", "a">>, <<"..", "..", "z">>, <<>>},
     eb \in {{}, {<<"b", "b2">>}, {<<"c", "c1">>}}, fb \in {{}, {<<"b", "b1">>}},
     ec \in {{}, {<<"b", "b1">>}, {<<"b", "b2">>}}, pb \in {{}, {"a1"}},
     pc \in {{}, {"b1"}, {"b2", "a1"}}}

----------------------------------------------------------------------------
ClientInit ==
  /\ part \in ClientParts
  /\ IF part = "store" THEN TRUE
     ELSE /\ dir = [e \in Entries |-> "absent"]
          /\ wants = [c \in Clients |-> CHOOSE e \in Entries : TRUE]
  /\ StoreInit
  /\ IF part = "exec" THEN req \in Scenarios ELSE req = Pair(Signs, Signs)
  /\ ExecStart
  /\ LogInit /\ FetchInit
  /\ IF part = "tarball" THEN TRUE ELSE integrity = {}
  /\ TarballInit
  /\ IF part = "sandbox" THEN TRUE ELSE platform = "linux"
  /\ SandboxInit
  /\ IF part = "resolver" THEN project \in Projects ELSE project = EmptyProject
  /\ ResolverStart
  /\ IF part = "links" THEN graph \in Graphs ELSE graph = EmptyGraph
  /\ LinkPlanStart

ClientNext ==
  /\ UNCHANGED part
  /\ IF part = "store" THEN StoreNext ELSE UNCHANGED storeVars
  /\ IF part = "exec" THEN ExecNext ELSE UNCHANGED execVars
  /\ IF part = "log" THEN LogNext ELSE UNCHANGED logVars
  /\ IF part = "fetch" THEN FetchNext ELSE UNCHANGED fetchVars
  /\ IF part = "tarball" THEN TarballNext ELSE UNCHANGED tarVars
  /\ IF part = "sandbox" THEN SandboxNext ELSE UNCHANGED sbVars
  /\ IF part = "resolver" THEN ResolverNext ELSE UNCHANGED resVars
  /\ IF part = "links" THEN LinkPlanNext ELSE UNCHANGED lpVars

clientVars == <<part, storeVars, execVars, logVars, fetchVars, tarVars, sbVars, resVars, lpVars>>

ClientSpec == ClientInit /\ [][ClientNext]_clientVars

(* The type invariants of the parts: every command stays at a point of its  *)
(* code, and every file holds what some command wrote.                      *)
ClientTypeOK ==
  /\ StoreTypeOK /\ ExecTypeOK /\ LogTypeOK /\ FetchTypeOK /\ TarballTypeOK
  /\ SandboxTypeOK /\ ResolverTypeOK /\ LinkPlanTypeOK

=============================================================================

----------------------------- MODULE Resolver ------------------------------
(***************************************************************************)
(* The dependency resolver: Resolver::resolve (oath-resolve/resolver.rs)   *)
(* walks the dependencies level by level, fetching the packuments of one   *)
(* level in parallel, then turns declared specs into edges and resolves    *)
(* peers; resolve_version (oath-fetch/resolve.rs) picks a version.         *)
(*                                                                         *)
(* A version is a number.  A declared dependency is [as, name, spec, opt]: *)
(* `as` is the name it is installed under, `name` the package (they differ *)
(* for an "npm:" alias).  A spec is [kind |-> "range", in |-> versions],   *)
(* [kind |-> "tag"] ("latest") or [kind |-> "git"] (the repository of that *)
(* name).  A HashMap is iterated in any order.                             *)
(***************************************************************************)
EXTENDS Naturals, Sequences, FiniteSets, SequencesExt, FiniteSetsExt

CONSTANTS Projects,        \* [deps, dev, info, latest, repos] to resolve
          MaxDepth         \* options.max_depth

\* A manifest's dependencies are a map from names; those of the project are not
\* optional.
IsManifest(deps) ==
  /\ IsFiniteSet(deps)
  /\ \A d, e \in deps : d.as = e.as /\ d.opt = e.opt => d = e
  /\ \A d \in deps : d.opt \in BOOLEAN

ASSUME ResolverAssumption ==
  /\ MaxDepth \in Nat
  /\ \A p \in Projects :
       /\ \A deps \in {p.deps, p.dev} : IsManifest(deps) /\ \A d \in deps : ~d.opt
       /\ IsFiniteSet(DOMAIN p.info)
       /\ \A v \in DOMAIN p.info : v = <<v[1], v[2]>> /\ v[2] \in Nat /\ IsManifest(p.info[v].deps)
       /\ \A g \in DOMAIN p.repos : p.repos[g].version \in Nat /\ IsManifest(p.repos[g].info.deps)

VARIABLES project,
          resAt,           \* "fetch", "resolve", "fixup", "peers", "done", "failed"
          fetched,         \* names in the packument cache
          level, nextLevel,\* sequences of pending dependencies
          resolved,        \* keys already resolved
          warned,          \* names reported as too deep
          nodes,           \* graph.nodes: key -> node
          roots,           \* graph.roots
          peers            \* the peer report: <<key, peer name>> -> answer

resVars == <<project, resAt, fetched, level, nextLevel, resolved, warned, nodes, roots, peers>>

NoVersion == 0
NoEdges == [e \in {} |-> <<>>]

ResolverTypeOK ==
  /\ resAt \in {"fetch", "resolve", "fixup", "peers", "done", "failed"}
  /\ DOMAIN nodes \subseteq resolved /\ roots \subseteq resolved
  /\ \A key \in DOMAIN nodes : key[2] = nodes[key].version
  /\ \A k \in 1..Len(level) : level[k].depth \in 0..MaxDepth + 1

----------------------------------------------------------------------------
Versions(name) == {v \in DOMAIN project.info : v[1] = name}

Info(name, version) == project.info[<<name, version>>]

(* resolve_version: a dist-tag, else the highest version in the range.      *)
ResolveVersion(name, spec) ==
  LET all  == {v[2] : v \in Versions(name)}
      fits == {v \in all : spec.kind = "range" /\ v \in spec.in}
  IN  IF spec.kind = "tag" /\ project.latest[name] \in all THEN project.latest[name]
      ELSE IF fits = {} THEN NoVersion ELSE Max(fits)

Pending(dep, depth, dev) ==
  [as |-> dep.as, name |-> dep.name, spec |-> dep.spec, opt |-> dep.opt, depth |-> depth, dev |-> dev]

\* The orders in which a HashMap of dependencies may be pushed.
Orders(deps, depth, dev) ==
  {[k \in DOMAIN s |-> Pending(s[k], depth, dev)] : s \in SetToSeqs(deps)}

ResolverStart ==
  /\ resAt = "fetch" /\ fetched = {}
  /\ \E prod \in Orders(project.deps, 0, FALSE), dev \in Orders(project.dev, 0, TRUE) :
       level = prod \o dev
  /\ nextLevel = <<>> /\ resolved = {} /\ warned = {} /\ nodes = NoEdges /\ roots = {} /\ peers = NoEdges

ResolverInit == project \in Projects /\ ResolverStart

----------------------------------------------------------------------------
(* All uncached packuments of the level at once; some may fail, which only  *)
(* shows when a dependency needs them.                                      *)
ToFetch ==
  {level[k].name : k \in {j \in 1..Len(level) : level[j].depth <= MaxDepth /\ level[j].spec.kind # "git"}}
    \ fetched

FetchLevel ==
  /\ resAt = "fetch"
  /\ \E failing \in SUBSET ToFetch :
       fetched' = fetched \cup {n \in ToFetch \ failing : Versions(n) # {}}
  /\ resAt' = "resolve"
  /\ UNCHANGED <<project, level, nextLevel, resolved, warned, nodes, roots, peers>>

\* The level is used up: the next one, or the edges.
LevelDone ==
  /\ resAt = "resolve" /\ level = <<>>
  /\ resAt' = (IF nextLevel = <<>> THEN "fixup" ELSE "fetch")
  /\ level' = nextLevel /\ nextLevel' = <<>>
  /\ UNCHANGED <<project, fetched, resolved, warned, nodes, roots, peers>>

----------------------------------------------------------------------------
First == Head(level)

Failed(p) ==
  IF p.spec.kind = "git" THEN p.name \notin DOMAIN project.repos
  ELSE p.name \notin fetched \/ ResolveVersion(p.name, p.spec) = NoVersion

\* What a pending dependency that did not fail resolves to: resolve_git_spec
\* reads the name and version from the repository's package.json.
Target(p) ==
  IF p.spec.kind = "git" THEN project.repos[p.name]
  ELSE LET v == ResolveVersion(p.name, p.spec)
       IN  [name |-> p.name, version |-> v, info |-> Info(p.name, v)]

\* Over-deep dependencies are reported and optional ones that cannot be had are
\* skipped.
TooDeep(p) == p.depth > MaxDepth

Skip ==
  /\ resAt = "resolve" /\ level # <<>>
  /\ TooDeep(First) \/ (First.opt /\ Failed(First))
  /\ warned' = IF TooDeep(First) THEN warned \cup {First.name} ELSE warned
  /\ level' = Tail(level)
  /\ UNCHANGED <<project, resAt, fetched, nextLevel, resolved, nodes, roots, peers>>

Abort ==
  /\ resAt = "resolve" /\ level # <<>>
  /\ ~TooDeep(First) /\ ~First.opt /\ Failed(First)
  /\ resAt' = "failed"
  /\ UNCHANGED <<project, fetched, level, nextLevel, resolved, warned, nodes, roots, peers>>

Key(p) == <<p.as, Target(p).version>>

\* Faulty: one version of a package is enough.
AlreadyResolvedName(p) == \E key \in resolved : key[1] = p.as

AlreadyResolved(p) == Key(p) \in resolved

\* The key is marked resolved, and a root recorded, before the platform of an
\* optional package is looked at; a git package is never left out for it.
Foreign(p) == p.opt /\ p.spec.kind # "git" /\ ~Target(p).info.compatible

IsRoot(p) == p.depth = 0

\* node_deps, a map: an optional dependency replaces a required one of its name.
NodeDeps(deps) == {d \in deps : d.opt \/ \A e \in deps : e.opt => e.as # d.as}

\* A node goes by its alias if it has one, else by its own name, which for a git
\* package may not be the one it was asked for under.
Node(p) ==
  [as |-> IF p.as = p.name THEN Target(p).name ELSE p.as, name |-> Target(p).name,
   version |-> Target(p).version, dev |-> p.dev, opt |-> p.opt,
   declared |-> NodeDeps(Target(p).info.deps), edges |-> NoEdges,
   wants |-> IF p.spec.kind = "git" THEN {} ELSE Target(p).info.peers]

ResolveFirst ==
  /\ resAt = "resolve" /\ level # <<>>
  /\ ~TooDeep(First) /\ ~Failed(First)
  /\ level' = Tail(level)
  /\ LET p == First
     IN  IF AlreadyResolved(p)
         THEN UNCHANGED <<nextLevel, resolved, nodes, roots>>
         ELSE /\ resolved' = resolved \cup {Key(p)}
              /\ roots' = IF IsRoot(p) THEN roots \cup {Key(p)} ELSE roots
              /\ IF Foreign(p)
                 THEN UNCHANGED <<nextLevel, nodes>>
                 ELSE LET deps == Target(p).info.deps
                          required == {d \in deps : ~d.opt}
                      IN  /\ nodes' = [k \in DOMAIN nodes \cup {Key(p)} |->
                                         IF k = Key(p) THEN Node(p) ELSE nodes[k]]
                          /\ \E hard \in Orders(required, p.depth + 1, p.dev),
                                soft \in Orders(deps \ required, p.depth + 1, p.dev) :
                               nextLevel' = nextLevel \o hard \o soft
  /\ UNCHANGED <<project, resAt, fetched, warned, peers>>

----------------------------------------------------------------------------
Satisfies(key, dep) ==
  /\ nodes[key].as = dep.as \/ nodes[key].name = dep.as
  /\ dep.spec.kind = "range" => nodes[key].version \in dep.spec.in

\* The highest version; among nodes of one version the greatest key, which the
\* model leaves open.
Matching(dep) ==
  LET fits == {key \in DOMAIN nodes : Satisfies(key, dep)}
  IN  {key \in fits : \A other \in fits : nodes[other].version <= nodes[key].version}

Edges(node) == [n \in {d.as : d \in {e \in node.declared : Matching(e) # {}}} |->
                  CHOOSE key \in Matching(CHOOSE d \in node.declared : d.as = n) : TRUE]

Fixup ==
  /\ resAt = "fixup"
  /\ nodes' = [key \in DOMAIN nodes |-> [nodes[key] EXCEPT !.edges = Edges(nodes[key])]]
  /\ resAt' = "peers"
  /\ UNCHANGED <<project, fetched, level, nextLevel, resolved, warned, roots, peers>>

----------------------------------------------------------------------------
(* resolve_peers.  find_peer_in_context searches breadth first: the         *)
(* parents, then the roots, then the parents of each in turn; within one    *)
(* tier the order is that of a HashMap.                                     *)
Parents(keys) == {k \in DOMAIN nodes : \E n \in DOMAIN nodes[k].edges : nodes[k].edges[n] \in keys}

Tiers(key) ==
  LET tier[k \in 1..2 * Cardinality(DOMAIN nodes) + 2] ==
        IF k = 1 THEN Parents({key}) ELSE IF k = 2 THEN roots ELSE Parents(tier[k - 2])
  IN  tier

\* Where a peer is found: edges of the first tier that has one, else a root of
\* that name.
Providers(key, peer) ==
  LET provide(t) == {nodes[a].edges[peer.name] :
                       a \in {b \in t \cap DOMAIN nodes : peer.name \in DOMAIN nodes[b].edges}}
      tiers == Tiers(key)
      found == {k \in DOMAIN tiers : provide(tiers[k]) # {}}
  IN  IF found # {} THEN provide(tiers[Min(found)])
      ELSE {r \in roots \cap DOMAIN nodes : peer.name \in {nodes[r].as, nodes[r].name}}

PeerAnswers(key, peer) ==
  LET found == Providers(key, peer)
  IN  IF found = {} THEN {[is |-> IF peer.opt THEN "optional-missing" ELSE "missing", key |-> <<>>]}
      ELSE {[is |-> IF k[2] \in peer.in THEN "satisfied" ELSE "conflict", key |-> k] : k \in found}

ResolvePeers ==
  /\ resAt = "peers"
  /\ LET work == UNION {{key} \X nodes[key].wants : key \in DOMAIN nodes}
     IN  \E answers \in [work -> UNION {PeerAnswers(w[1], w[2]) : w \in work}] :
           /\ \A w \in work : answers[w] \in PeerAnswers(w[1], w[2])
           /\ peers' = answers
  /\ resAt' = "done"
  /\ UNCHANGED <<project, fetched, level, nextLevel, resolved, warned, nodes, roots>>

ResolverNext ==
  FetchLevel \/ LevelDone \/ Skip \/ Abort \/ ResolveFirst \/ Fixup \/ ResolvePeers

ResolverSpec == ResolverInit /\ [][ResolverNext]_resVars

----------------------------------------------------------------------------
(* A required dependency of a node of the graph has its edge unless there   *)
(* is a reason the resolver has: the depth limit was reported for it, the   *)
(* same key was met first as an optional package of another platform, or    *)
(* the key is that of a git package which calls itself by another name (the *)
(* fixup pass of resolve).                                                  *)
KeysFor(d) ==
  IF d.spec.kind = "git" THEN {<<d.as, project.repos[d.name].version>>}
  ELSE {<<d.as, v[2]>> : v \in Versions(d.name)}

Shadowed(d) ==
  \E key \in KeysFor(d) \cap resolved :
    key \in DOMAIN nodes => d.as \notin {nodes[key].as, nodes[key].name}

RequiredLinked ==
  resAt = "done" => \A key \in DOMAIN nodes : \A d \in nodes[key].declared :
    d.opt \/ d.name \in warned \/ d.as \in DOMAIN nodes[key].edges \/ Shadowed(d)

(* An edge leads to a node of the graph whose version the parent's own      *)
(* range admits, even when several versions of a package coexist            *)
(* (find_matching_key).                                                     *)
EdgesSatisfied ==
  resAt = "done" => \A key \in DOMAIN nodes : \A d \in nodes[key].declared :
    d.as \in DOMAIN nodes[key].edges =>
      /\ nodes[key].edges[d.as] \in DOMAIN nodes
      /\ d.spec.kind = "range" => nodes[key].edges[d.as][2] \in d.spec.in

(* Every direct dependency of the project is a root, whatever happened to   *)
(* the packages met before it.                                              *)
RootsComplete ==
  resAt = "done" => \A d \in project.deps \cup project.dev :
    \E r \in roots : r[1] = d.as /\ (d.spec.kind = "range" => r[2] \in d.spec.in)

(* A peer is reported missing only if no package from which the one that    *)
(* wants it can be reached, and no root, has a dependency of that name      *)
(* (find_peer_in_context).                                                  *)
UpTo(key) ==
  LET up[n \in 0..Cardinality(DOMAIN nodes)] == IF n = 0 THEN {key} ELSE up[n - 1] \cup Parents(up[n - 1])
  IN  up

Above(key) == UpTo(key)[Cardinality(DOMAIN nodes)] \cup roots

PeersHonest ==
  resAt = "done" => \A w \in DOMAIN peers :
    peers[w].is \in {"missing", "optional-missing"} =>
      \A a \in (Above(w[1]) \ {w[1]}) \cap DOMAIN nodes : w[2].name \notin DOMAIN nodes[a].edges

(* The graph resolve returns is the project's: its roots, its edges and     *)
(* the peers it reports are what the manifests ask for, in whatever order   *)
(* a batch's answers arrived.                                               *)
GraphFaithful ==
  RequiredLinked /\ EdgesSatisfied /\ RootsComplete /\ PeersHonest
=============================================================================

----------------------------- MODULE LinkPlan ------------------------------
(***************************************************************************)
(* The layout Linker::link_all (oath-store/linker.rs) gives a resolved     *)
(* graph: package directories under .oath, symbolic links at the top level *)
(* for the hoisted versions, nested and sibling links for the rest, and    *)
(* .bin.  (Staging and promotion are in Install.)                          *)
(*                                                                         *)
(* A path is a sequence of components below node_modules; ".." goes up.    *)
(* A scoped install name has two components.  A graph is                   *)
(* [nodes : key -> [as, edges, peers, bin], roots]; virtual_key_component, *)
(* an injective escape, makes a key one component.                         *)
(***************************************************************************)
EXTENDS Naturals, Sequences, FiniteSets, SequencesExt, FiniteSetsExt

CONSTANTS Graphs           \* graphs to link

\* validate_install_name: one component, or a scope (which starts with "@") and
\* one.  (It would also let through the names of the linker's own directories,
\* which no npm package may have.)
IsName(n) ==
  /\ n \in Seq(STRING) /\ Len(n) \in 1..2
  /\ \A k \in 1..Len(n) : n[k] # ".."
  /\ n[1] \notin {".oath", ".bin"}

\* The edges and peers of a resolved graph lead to its nodes.
ASSUME LinkPlanAssumption ==
  \A g \in Graphs : IsFiniteSet(DOMAIN g.nodes) /\ \A key \in DOMAIN g.nodes :
    LET node == g.nodes[key]
    IN  /\ key \in STRING /\ key # ".." /\ IsName(node.as)
        /\ IsFiniteSet(DOMAIN node.edges)
        /\ \A n \in DOMAIN node.edges : node.edges[n] \in DOMAIN g.nodes
        /\ node.peers \subseteq DOMAIN g.nodes
        /\ node.bin \in Seq(STRING)

VARIABLES graph,
          inStore,         \* keys whose package is in the store
          lpAt,            \* "packages", "top", "nested", "siblings", "peers", "bins", "linked"
          dirs,            \* package directories: path -> key
          links            \* symbolic links: path -> relative target

lpVars == <<graph, inStore, lpAt, dirs, links>>

Keys == DOMAIN graph.nodes
As(key) == graph.nodes[key].as
PackageDir(key, name) == <<".oath", key, "node_modules">> \o name

LinkPlanTypeOK ==
  /\ inStore \subseteq Keys
  /\ \A p \in DOMAIN dirs : dirs[p] \in inStore /\ p = PackageDir(dirs[p], As(dirs[p]))
  /\ DOMAIN dirs \cap DOMAIN links = {}

LinkPlanStart ==
  /\ inStore \in SUBSET Keys
  /\ lpAt = "packages" /\ dirs = [p \in {} |-> ""] /\ links = [p \in {} |-> <<>>]

LinkPlanInit == graph \in Graphs /\ LinkPlanStart

----------------------------------------------------------------------------
(* build_plan: of the versions of one install name the one most packages    *)
(* and roots refer to is hoisted, the least key among equals.               *)
GraphEdges == UNION {{k} \X DOMAIN graph.nodes[k].edges : k \in Keys}
EdgeTo(e) == graph.nodes[e[1]].edges[e[2]]

References(key) ==
  Cardinality({e \in GraphEdges : EdgeTo(e) = key}) + (IF key \in graph.roots THEN 1 ELSE 0)

Hoisted(name) ==
  LET same == {k \in Keys : As(k) = name}
      most == {k \in same : \A o \in same : References(o) <= References(k)}
  IN  CHOOSE k \in most : TRUE

IsHoisted(key) == Hoisted(As(key)) = key

\* (parent, child) for the edges to versions that are not hoisted.
Nested == {<<e[1], EdgeTo(e)>> : e \in {f \in GraphEdges : ~IsHoisted(EdgeTo(f))}}

----------------------------------------------------------------------------
(* pathdiff_relative: up from the link's directory to the common ancestor,  *)
(* then down.                                                               *)
Parent(path) == SubSeq(path, 1, Len(path) - 1)

PathDiff(from, to) ==
  LET dir    == Parent(from)
      common == Max({k \in 0..Len(to) : IsPrefix(SubSeq(to, 1, k), dir)})
  IN  [k \in 1..(Len(dir) - common) |-> ".."] \o SubSeq(to, common + 1, Len(to))

\* Following a relative path from a directory (the file system, external).
Steps(dir, rel) ==
  LET at[k \in 0..Len(rel)] ==
        IF k = 0 THEN dir ELSE IF rel[k] = ".." THEN Parent(at[k - 1]) ELSE Append(at[k - 1], rel[k])
  IN  at

Follow(dir, rel) == Steps(dir, rel)[Len(rel)]

Exists(path) == path \in DOMAIN dirs \cup DOMAIN links

With(more) == [p \in DOMAIN links \cup DOMAIN more |-> IF p \in DOMAIN links THEN links[p] ELSE more[p]]

----------------------------------------------------------------------------
\* Phase 1: packages missing from the store are counted and left out.
LinkPackages ==
  /\ lpAt = "packages"
  /\ dirs' = [p \in {PackageDir(k, As(k)) : k \in inStore} |->
                CHOOSE k \in inStore : PackageDir(k, As(k)) = p]
  /\ lpAt' = "top"
  /\ UNCHANGED <<graph, inStore, links>>

\* Phase 2: node_modules/<name>; one level deeper for @scope/name.  The link is
\* made whether or not the package was in the store.
TopTarget(name) ==
  (IF Len(name) = 2 THEN <<"..">> ELSE <<>>) \o PackageDir(Hoisted(name), name)

LinkTop ==
  /\ lpAt = "top"
  /\ links' = With([p \in {As(k) : k \in Keys} |-> TopTarget(p)])
  /\ lpAt' = "nested"
  /\ UNCHANGED <<graph, inStore, dirs>>

NestedAt(pair) == PackageDir(pair[1], As(pair[1])) \o <<"node_modules">> \o As(pair[2])

\* Faulty: the nested link leads to the hoisted version of the name.
LinkNestedHoisted ==
  /\ lpAt = "nested"
  /\ LET todo == {pair \in Nested : pair[1] \in inStore /\ pair[2] \in inStore}
     IN  links' = With([p \in {NestedAt(pair) : pair \in todo} |->
                          LET pair == CHOOSE q \in todo : NestedAt(q) = p
                          IN  PathDiff(p, PackageDir(Hoisted(As(pair[2])), As(pair[2])))])
  /\ lpAt' = "siblings"
  /\ UNCHANGED <<graph, inStore, dirs>>

\* Phase 3: inside the parent's own directory.
LinkNested ==
  /\ lpAt = "nested"
  /\ LET todo == {pair \in Nested : pair[1] \in inStore /\ pair[2] \in inStore}
     IN  links' = With([p \in {NestedAt(pair) : pair \in todo} |->
                          LET pair == CHOOSE q \in todo : NestedAt(q) = p
                          IN  PathDiff(p, PackageDir(pair[2], As(pair[2])))])
  /\ lpAt' = "siblings"
  /\ UNCHANGED <<graph, inStore, dirs>>

Free(path) == ~Exists(path)

\* Phases 4 and 4b: beside the package, unless something is there already.  (The
\* place of a package that is not in the store may hold a link of its own name;
\* nothing is linked to it here.)
Beside(key, others) ==
  [p \in {PackageDir(key, As(o)) : o \in {k \in others : k \in inStore /\ Free(PackageDir(key, As(k)))}} |->
     LET o == CHOOSE k \in others \cap inStore : PackageDir(key, As(k)) = p
     IN  PathDiff(p, PackageDir(o, As(o)))]

AllBeside(others) ==
  LET parts == {Beside(k, others[k]) : k \in Keys}
  IN  [p \in UNION {DOMAIN f : f \in parts} |-> LET f == CHOOSE g \in parts : p \in DOMAIN g IN f[p]]

Dependencies(key) == {graph.nodes[key].edges[n] : n \in DOMAIN graph.nodes[key].edges}

LinkSiblings ==
  /\ lpAt = "siblings"
  /\ links' = With(AllBeside([k \in Keys |-> Dependencies(k)]))
  /\ lpAt' = "peers"
  /\ UNCHANGED <<graph, inStore, dirs>>

PeersOf(key) == graph.nodes[key].peers

LinkPeers ==
  /\ lpAt = "peers"
  /\ links' = With(AllBeside([k \in Keys |-> PeersOf(k)]))
  /\ lpAt' = "bins"
  /\ UNCHANGED <<graph, inStore, dirs>>

----------------------------------------------------------------------------
(* Phase 5: .bin entries of hoisted packages.  sanitize_package_relative_   *)
(* path drops "." and refuses anything but plain components, or none.       *)
SafePath(path) ==
  /\ \A k \in 1..Len(path) : path[k] \notin {"..", "/"}
  /\ \E k \in 1..Len(path) : path[k] # "."

Plain(path) ==
  LET kept[k \in 0..Len(path)] ==
        IF k = 0 THEN <<>> ELSE IF path[k] = "." THEN kept[k - 1] ELSE Append(kept[k - 1], path[k])
  IN  kept

BinAt(name) == <<".bin", Last(name)>>
BinTarget(name) ==
  LET bin == graph.nodes[Hoisted(name)].bin
  IN  <<"..">> \o (name \o Plain(bin)[Len(bin)])

LinkBins ==
  /\ lpAt = "bins"
  /\ LET names == {As(k) : k \in Keys}
         safe  == {n \in names : Hoisted(n) \in inStore /\ SafePath(graph.nodes[Hoisted(n)].bin)}
     IN  links' = With([p \in {BinAt(n) : n \in safe} |->
                          BinTarget(CHOOSE n \in safe : BinAt(n) = p)])
  /\ lpAt' = "linked"
  /\ UNCHANGED <<graph, inStore, dirs>>

LinkPlanNext ==
  LinkPackages \/ LinkTop \/ LinkNested \/ LinkSiblings \/ LinkPeers \/ LinkBins

LinkPlanSpec == LinkPlanInit /\ [][LinkPlanNext]_lpVars

----------------------------------------------------------------------------
(* Node's lookup from a package's real directory: its own node_modules, its *)
(* siblings, the top level; links are followed.                             *)
Lookup(key, name) ==
  LET places == << PackageDir(key, As(key)) \o <<"node_modules">> \o name,
                   <<".oath", key, "node_modules">> \o name,
                   name >>
      hits == {k \in 1..3 : Exists(places[k])}
      place == places[Min(hits)]
  IN  IF hits = {} THEN <<>>
      ELSE IF place \in DOMAIN dirs THEN place ELSE Follow(Parent(place), links[place])

\* No other of these packages goes by the same install name.
Sole(key, others) == \A o \in others : As(o) = As(key) => o = key

(* Every package finds, from where Node runs it, exactly the version the    *)
(* graph gives it, for hoisted, nested and scoped packages alike -- except  *)
(* a dependency on the hoisted version of its own install name, which is    *)
(* hidden by the package itself, and two dependencies that claim one        *)
(* install name (link_all, phases 1-4).                                     *)
EdgesResolve ==
  lpAt = "linked" => \A key \in inStore : \A d \in Dependencies(key) \cap inStore :
    \/ ~Sole(d, Dependencies(key))
    \/ As(d) = As(key) /\ IsHoisted(d)
    \/ Lookup(key, As(d)) = PackageDir(d, As(d))

(* A resolved peer is found too, unless the package has a dependency or     *)
(* another peer of that name (phase 4b).                                    *)
PeersResolve ==
  lpAt = "linked" => \A key \in inStore : \A p \in PeersOf(key) \cap inStore :
    \/ ~Sole(p, PeersOf(key))
    \/ \E d \in Dependencies(key) \cup {key} : As(d) = As(p)
    \/ Lookup(key, As(p)) = PackageDir(p, As(p))

(* A link at the top level leads to the package directory of the version    *)
(* hoisted there, and every .bin link stays inside a package of the tree    *)
(* (phases 2 and 5).                                                        *)
TopLinksLand ==
  lpAt = "linked" =>
    /\ \A key \in inStore : IsHoisted(key) =>
         Follow(Parent(As(key)), links[As(key)]) = PackageDir(key, As(key))
    /\ \A p \in DOMAIN links : Len(p) = 2 /\ p[1] = ".bin" =>
         \E key \in inStore : IsStrictPrefix(As(key), Follow(<<".bin">>, links[p]))

(* The tree link_all builds resolves as the graph says, through             *)
(* dependencies, peers, top-level links and .bin links alike.               *)
TreeResolves ==
  EdgesResolve /\ PeersResolve /\ TopLinksLand
=============================================================================

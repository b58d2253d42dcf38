---------------------------- MODULE ReleaseSbom ----------------------------
(***************************************************************************)
(* What scripts/ci/generate_release_sbom.py requires of the reviewed       *)
(* runtime dependency manifest, of the hash lock and of an archive before  *)
(* it describes the archive, and what the description says.                *)
(*                                                                         *)
(* A manifest is a record of the requirements of the root package, its     *)
(* dependencies, and the components, each with its name, its dependencies  *)
(* and its pin: version, SHA-256 and marker.  A requirement is a name and  *)
(* its specifiers.  Lists of the file are sequences: their order is that   *)
(* of the traversal, and a repeated member is refused.                     *)
(***************************************************************************)
EXTENDS Naturals, FiniteSets, Sequences, SequencesExt, Functions

CONSTANTS
    Root,      \* the name of the root package
    Lock,      \* the pin of each package of the runtime lock
    Declares,  \* the requirements that the metadata of a valid archive declares
    PackageOf  \* the name and the version it declares

Cyclic == "raised\n"   \* marks a traversal that raised: no name has a line feed

NamesOf(parts) == {parts[i].name : i \in DOMAIN parts}
Component(parts, name) == parts[CHOOSE i \in DOMAIN parts : parts[i].name = name]
Mentioned(m) == NamesOf(m.parts) \cup Range(m.roots)
                    \cup UNION {Range(m.parts[i].depends) : i \in DOMAIN m.parts}

\* What _list and _text accept is a list of names without a line feed.
IsManifest(m) == /\ m.parts \in Seq(Range(m.parts)) /\ m.roots \in Seq(Range(m.roots))
                 /\ \A i \in DOMAIN m.parts :
                        m.parts[i].depends \in Seq(Range(m.parts[i].depends))
                 /\ Cyclic \notin Mentioned(m)

\* What the visits to the names of a list, one after the other, make of visited.
VisitEach(visit, names, visited) ==
    LET seen[i \in 0..Len(names)] ==
            IF i = 0 THEN visited ELSE visit[names[i]][seen[i - 1]]
    IN  seen[Len(names)]

\* Mutant: a package counts as visited as soon as it is entered.
ReachableVisitedEarly(m) ==
    LET visit[active \in SUBSET Mentioned(m)] ==
            [name \in Mentioned(m) |-> [visited \in SUBSET (Mentioned(m) \cup {Cyclic}) |->
                IF name \in visited THEN visited
                ELSE IF name \notin NamesOf(m.parts) THEN visited \cup {Cyclic}
                ELSE VisitEach(visit[active], Component(m.parts, name).depends,
                               visited \cup {name})]]
    IN  VisitEach(visit[{}], m.roots, {})

\* The depth-first traversal, with the names on the path active: one that is
\* among them, or unknown, raises.
Reachable(m) ==
    LET visit[active \in SUBSET Mentioned(m)] ==
            [name \in Mentioned(m) |-> [visited \in SUBSET (Mentioned(m) \cup {Cyclic}) |->
                IF name \in active THEN visited \cup {Cyclic}
                ELSE IF name \in visited THEN visited
                ELSE IF name \notin NamesOf(m.parts) THEN visited \cup {Cyclic}
                ELSE VisitEach(visit[active \cup {name}],
                               Component(m.parts, name).depends, visited) \cup {name}]]
    IN  VisitEach(visit[{}], m.roots, {})

Unique(names) == IsInjective(names)

RequiredNames(requirements) == {r.name : r \in requirements}
NamesMatch(requirements, roots) == /\ RequiredNames(requirements) = Range(roots)
                                   /\ Cardinality(requirements) = Len(roots)

\* _load_manifest accepts the manifest.
Loads(m) ==
    /\ Unique(m.roots) /\ \A i \in DOMAIN m.parts : Unique(m.parts[i].depends)
    /\ NamesMatch(m.requires, m.roots)
    /\ m.parts # <<>> /\ Cardinality(NamesOf(m.parts)) = Len(m.parts)
    /\ Root \notin NamesOf(m.parts)
    /\ Reachable(m) = NamesOf(m.parts)

\* validate_runtime_lock accepts the manifest.
LockBound(m) ==
    Loads(m) /\ \A i \in DOMAIN m.parts : /\ m.parts[i].name \in DOMAIN Lock
                                          /\ Lock[m.parts[i].name] = m.parts[i].pin

\* build_sbom describes the archive from the manifest.
Describes(m, archive) ==
    /\ archive \in DOMAIN Declares
    /\ PackageOf[archive].name = Root
    /\ Loads(m)
    /\ NamesMatch(Declares[archive], m.roots)
    /\ Declares[archive] = m.requires

Graph(m) == [roots |-> Range(m.roots),
             parts |-> {[name |-> m.parts[i].name, pin |-> m.parts[i].pin,
                         depends |-> Range(m.parts[i].depends)] : i \in DOMAIN m.parts}]

\* The version is that of the metadata: it is compared with nothing here.
Sbom(m, archive) == [binds |-> archive, package |-> PackageOf[archive], graph |-> Graph(m)]
-----------------------------------------------------------------------------
(* What a graph should be, said without a traversal *)

DependsOf(graph, name) == UNION {p.depends : p \in {q \in graph.parts : q.name = name}}

\* The least set that holds the roots and the dependencies of its members.
IsClosure(graph) ==
    LET names == {p.name : p \in graph.parts}
        Closed(set) == graph.roots \subseteq set
                           /\ \A n \in set : DependsOf(graph, n) \subseteq set
    IN  Closed(names) /\ \A set \in SUBSET names : Closed(set) => set = names

\* Some member of every set of packages depends on none of the others.
IsAcyclic(graph) ==
    \A set \in SUBSET {p.name : p \in graph.parts} :
        set # {} => \E n \in set : DependsOf(graph, n) \cap set = {}
=============================================================================

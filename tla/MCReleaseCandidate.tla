------------------------ MODULE MCReleaseCandidate ------------------------
(* Two archives of each kind, what writers may make of a release, and reviewed
   manifests over three packages. *)
EXTENDS ReleaseCandidate

CONSTANT Other   \* a graph that no reviewed manifest gives

\* The metadata of the second wheel declare another version.
MCPackage == [name |-> "root", version |-> 1]
MCPackageOf == [w1 |-> MCPackage, w2 |-> [MCPackage EXCEPT !.version = 2],
                s1 |-> MCPackage, s2 |-> MCPackage]
MCExtras == [w3 |-> "wheel"]

MCRoot == "root"
MCLock == [a |-> 1, b |-> 1, c |-> 1]
Needs(names) == {[name |-> n, spec |-> 1] : n \in names}
MCDeclares == [w1 |-> Needs({"a"}), s1 |-> Needs({"a"}),
               w2 |-> Needs({"a"}), s2 |-> Needs({"a", "b"})]

Part(name, pin, depends) == [name |-> name, pin |-> pin, depends |-> depends]
Manifest(names, roots, parts) == [requires |-> Needs(names), roots |-> roots, parts |-> parts]

\* Good is a diamond.
Good == Manifest({"a"}, <<"a">>, <<Part("a", 1, <<"b", "c">>), Part("b", 1, <<"c">>),
                                   Part("c", 1, <<>>)>>)
WithParts(parts) == [Good EXCEPT !.parts = parts]
MCReviewed ==
    {Good, Manifest({"a", "b"}, <<"b", "a">>, Good.parts),
     WithParts(<<Part("a", 1, <<"b">>), Part("b", 1, <<"a">>)>>),   \* a cycle
     WithParts(<<Part("a", 1, <<"b">>)>>),                          \* unknown
     WithParts(<<Part("a", 1, <<>>), Part("b", 1, <<>>)>>),         \* unreachable
     WithParts(<<Part("a", 2, <<>>)>>),                             \* not as locked
     WithParts(<<Part("a", 1, <<>>), Part("a", 1, <<>>)>>),         \* twice
     WithParts(<<Part("a", 1, <<"root">>), Part("root", 1, <<>>)>>),
     [Good EXCEPT !.requires = Needs({"b"})]}

Sb(archive) == [binds |-> archive, package |-> MCPackage, graph |-> Other]
Id(source) == [source |-> source]

Release == [sdist |-> "s1", wheel |-> "w1", sdistSbom |-> Sb("s1"),
            wheelSbom |-> Sb("w1"), identity |-> Id("requested")]

\* A good list, one with an SBOM of another wheel, one of another sdist, and
\* one that differs from a prepared one in the SBOM of the wheel.
Lists == {Release, [Release EXCEPT !.wheelSbom = Sb("w2")],
          [Release EXCEPT !.sdist = "s2", !.sdistSbom = Sb("s2")],
          [Release EXCEPT !.sdistSbom = Sbom(Good, "s1")]}

MCContents == [sdist |-> {"s1", "s2"}, wheel |-> {"w1", "w2", Gone},
               sdistSbom |-> {Sb("s1"), Sb("s2")}, wheelSbom |-> {Sb("w1"), Sb("w2")},
               identity |-> {Id("requested"), Id("other")}, sums |-> Lists]

Directory(d, sums) == [f \in Files |-> IF f = "sums" THEN sums ELSE d[f]]
Sealed(d) == Directory(d, d)

\* What each list lists, and directories that differ from it in one file.
MCStarts == {Sealed(list) : list \in Lists}
    \cup {Directory([Release EXCEPT !.identity = Id("other")], Release),
          Directory([Release EXCEPT !.wheel = Gone], Release),
          Directory([Release EXCEPT !.sdist = "s2"], Release)}

MCValid == {"w1", "s1", "s2"}
MCArchives == {[f \in Files |-> IF f = "wheel" THEN wheel ELSE IF f = "sdist" THEN "s1" ELSE Gone]
                  : wheel \in {"w1", "w2"}}
=============================================================================

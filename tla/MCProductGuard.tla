--------------------------- MODULE MCProductGuard ---------------------------
(* Four paths, one of them executable or a link and one outside the boundary; each
   content is beyond a bound of its own or within all of them. *)
EXTENDS ProductGuard

Text(kind, bytes, lines) ==
    [kind |-> kind, bytes |-> bytes, lines |-> lines, odd |-> {}]
Plain == Text("regular", 1, 1)

MCAllowed == {"src", "docs", "tool"}

First == [src |-> Plain, docs |-> Absent, tool |-> Text("executable", 1, 1), ci |-> Plain]
MCTree == [r1 |-> First, r2 |-> [First EXCEPT !.src = Text("regular", 2, 1), !.tool = Text("link", 1, 1)]]

MCContents ==
    [src |-> {Absent, Text("regular", 3, 1), Text("regular", 1, 2), Text("regular", 1, 4),
              Text("executable", 1, 1), Text("binary", 1, 1), Text("hardlink", 2, 1)},
     docs |-> {Absent, Plain, Text("regular", 2, 2), Text("regular", 9, 1),
               Text("link", 1, 1), [Plain EXCEPT !.odd = {"directive"}],
               [Plain EXCEPT !.odd = {"spaces"}], [Plain EXCEPT !.odd = {"undecodable"}]},
     tool |-> {Text("executable", 2, 1), Text("regular", 1, 1)},
     ci   |-> {Text("regular", 2, 1)}]
=============================================================================

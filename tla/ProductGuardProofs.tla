------------------------- MODULE ProductGuardProofs -------------------------
(***************************************************************************)
(* Proofs about ProductGuard, for any revisions, any set of allowed paths, *)
(* anything the model may make of a path, any bounds and any number of     *)
(* edits: what is handed off is within the boundary, and the second job    *)
(* refuses an undisturbed capture only for text that reads like a          *)
(* directive or is not UTF-8.  How a sum is computed is not used: equal    *)
(* summands suffice.                                                       *)
(***************************************************************************)
EXTENDS ProductGuard, TLAPS

\* The whole change of the workspace, as a quiet capture sees it.
Known(tree) == Files(Tree[base]) \cup Files(tree)
Change == Diff(Tree[base], workspace, Known(workspace))

\* A patch gives only contents that git can keep.
IsPatch(diff) == /\ DOMAIN diff \subseteq Paths
                 /\ \A p \in DOMAIN diff : diff[p].new \in ContentsOf(Versioned)

Shape == /\ main \in Revisions
         /\ workspace \in [Paths -> ContentsOf(Found)]
         /\ index \in SUBSET Paths
         /\ lateEdit \in BOOLEAN
         /\ stage # "checkout" => base \in Revisions
         /\ stage \in {"captured", "apply"} => IsPatch(patch)

Begun == {"checkout", "model", "index", "quiet", "names", "deleted"}
Indexed == {"quiet", "names", "deleted", "files", "numstat", "check", "diff"}
Decided == {"captured", "apply", "refused"}

\* What each place of an undisturbed capture has established of the change.
Looked ==
    ~lateEdit =>
        /\ stage \in Begun => sizes = <<>>
        /\ stage \in Indexed => index = Known(workspace)
        /\ stage = "deleted" => unread = Present(Change)
        /\ stage = "files" =>
              /\ NamesPass(Change) /\ unread \subseteq Present(Change)
              /\ \A p \in Present(Change) \ unread : FilePasses(p, workspace[p])
              /\ sizes = [p \in Present(Change) \ unread |-> workspace[p].bytes]
        /\ stage \in {"numstat", "check", "diff"} \cup Decided =>
              /\ NamesPass(Change) /\ SummaryPasses(Change)
              /\ \A p \in Present(Change) : FilePasses(p, workspace[p])
              /\ Sum([p \in Present(Change) |-> workspace[p].bytes]) <= MaxTotalBytes
        /\ stage \in {"check", "diff"} \cup Decided => NumstatPasses(Change)
        /\ stage \in {"diff"} \cup Decided => CheckPasses(Change)
        /\ stage \in Decided => patch = Change /\ PatchBytes(Change) <= MaxPatchBytes

\* HandoffWithinBounds needs Shape, RefusedForAReason needs Shape and Looked.
IInv == Shape /\ Looked /\ HandoffWithinBounds /\ RefusedForAReason
-----------------------------------------------------------------------------
(* What git shows of a content *)

\* A hard link is shown as the regular file that it is.
LEMMA SeenAre ==
    /\ \A c \in ContentsOf(Found) : /\ Seen(c) \in ContentsOf(Versioned)
                                    /\ Seen(c) = Absent <=> c = Absent
    /\ \A c \in ContentsOf(Versioned) : Seen(c) = c
<1>1. ASSUME NEW c \in ContentsOf(Found), c # Absent, c.kind = "hardlink"
      PROVE  Seen(c) \in FilesOf(Versioned)
  <2>1. c \in FilesOf(Found)
    BY <1>1 DEF ContentsOf
  <2> QED
    BY <1>1, <2>1 DEF FilesOf, Seen, Versioned, Found
<1>2. ASSUME NEW c \in ContentsOf(Found), c # Absent, c.kind # "hardlink"
      PROVE  c \in FilesOf(Versioned) /\ Seen(c) = c
  BY <1>2 DEF ContentsOf, FilesOf, Seen, Versioned, Found
<1>3. Absent \notin FilesOf(Versioned) /\ Seen(Absent) = Absent
  BY TreeAssumption DEF FilesOf, Seen, Versioned, Found
<1>4. ASSUME NEW c \in ContentsOf(Versioned)
      PROVE  Seen(c) = c
  <2>1. CASE c = Absent
    BY <2>1, <1>3
  <2>2. CASE c # Absent
    BY <2>2, <1>4 DEF ContentsOf, FilesOf, Seen, Versioned
  <2> QED
    BY <2>1, <2>2
<1> QED
  BY <1>1, <1>2, <1>3, <1>4 DEF ContentsOf

\* A revision holds only what git can keep, and an accepted file is regular.
LEMMA TreesAre ==
    /\ \A r \in Revisions : /\ Tree[r] \in [Paths -> ContentsOf(Versioned)]
                            /\ Tree[r] \in [Paths -> ContentsOf(Found)]
    /\ \A p \in Paths : \A c \in ContentsOf(Found) : FilePasses(p, c) => Seen(c) = c
<1>1. ContentsOf(Versioned) \subseteq ContentsOf(Found)
  BY DEF ContentsOf, FilesOf, Versioned, Found
<1>2. \A r \in Revisions : Tree[r] \in [Paths -> ContentsOf(Versioned)]
  BY TreeAssumption
<1>3. \A r \in Revisions : Tree[r] \in [Paths -> ContentsOf(Found)]
  BY <1>1, <1>2
<1>4. ASSUME NEW p \in Paths, NEW c \in ContentsOf(Found), FilePasses(p, c)
      PROVE  Seen(c) = c
  BY <1>4 DEF FilePasses, Seen
<1> QED
  BY <1>2, <1>3, <1>4

\* What git sees of the workspace is a patch.
LEMMA ChangesArePatches ==
    ASSUME NEW from \in [Paths -> ContentsOf(Found)], NEW to \in [Paths -> ContentsOf(Found)],
           NEW known \in SUBSET Paths
    PROVE  IsPatch(Diff(from, to, known))
  BY SeenAre DEF Diff, IsPatch
-----------------------------------------------------------------------------
(* The second job *)

\* An applied patch leaves only what git can keep.
LEMMA AppliedIs ==
    ASSUME NEW r \in Revisions, NEW diff, IsPatch(diff)
    PROVE  Applied(diff, Tree[r]) \in [Paths -> ContentsOf(Versioned)]
  BY TreesAre DEF Applied, IsPatch

\* What passes the validation of the second job is within every bound.
LEMMA PassingTreesAreBounded ==
    ASSUME NEW from \in [Paths -> ContentsOf(Versioned)],
           NEW to \in [Paths -> ContentsOf(Versioned)],
           WorktreePasses(to, Diff(from, to, Files(from) \cup Files(to)))
    PROVE  LET changed == {p \in Paths : from[p] # to[p]}
           IN  /\ changed \subseteq Allowed /\ changed # {}
               /\ Cardinality(changed) <= MaxFiles
               /\ \A p \in changed : /\ to[p] # Absent /\ to[p].kind = "regular"
                                     /\ to[p].bytes <= MaxFileBytes /\ "spaces" \notin to[p].odd
                                     /\ from[p] = Absent \/ from[p].kind = "regular"
               /\ Sum([p \in changed |-> to[p].bytes]) <= MaxTotalBytes
               /\ Sum([p \in changed |-> LinesOf(from[p]) + LinesOf(to[p])]) <= MaxChangedLines
<1> DEFINE known == Files(from) \cup Files(to)
           diff == Diff(from, to, known)
           changed == {p \in Paths : from[p] # to[p]}
<1>1. /\ known \in SUBSET Paths
      /\ from \in [Paths -> ContentsOf(Found)] /\ to \in [Paths -> ContentsOf(Found)]
  BY DEF Files, ContentsOf, FilesOf, Versioned, Found
<1>2. \A p \in Paths : Seen(to[p]) = to[p]
  BY SeenAre
<1>3. /\ DOMAIN diff = {p \in known : from[p] # Seen(to[p]) \/ to[p] = Absent}
      /\ \A p \in DOMAIN diff : diff[p].old = from[p] /\ diff[p].new = Seen(to[p])
  BY <1>1 DEF Diff
<1>4. DOMAIN diff = changed
  BY <1>1, <1>2, <1>3 DEF Files
<1>5. \A p \in changed : diff[p].old = from[p] /\ diff[p].new = to[p]
  BY <1>1, <1>2, <1>3, <1>4
<1> HIDE DEF diff
<1>6. WorktreePasses(to, diff) /\ NamesPass(diff)
  BY DEF diff, WorktreePasses
<1>7. Present(diff) = changed
  BY <1>4, <1>6 DEF NamesPass, Present
<1>8. \A p \in changed : FilePasses(p, to[p]) /\ "spaces" \notin to[p].odd
  BY <1>5, <1>6, <1>7 DEF WorktreePasses, CheckPasses
<1>9. changed # {} /\ Cardinality(changed) <= MaxFiles
  BY <1>6, <1>7 DEF NamesPass
<1>10. Sum([p \in changed |-> to[p].bytes]) <= MaxTotalBytes
  BY <1>6, <1>7 DEF WorktreePasses
<1>11. Sum([p \in changed |-> LinesOf(from[p]) + LinesOf(to[p])]) <= MaxChangedLines
  <2>1. [p \in DOMAIN diff |-> LinesOf(diff[p].old) + LinesOf(diff[p].new)]
          = [p \in changed |-> LinesOf(from[p]) + LinesOf(to[p])]
    BY <1>4, <1>5
  <2>2. ChangedLines(diff) <= MaxChangedLines
    BY <1>6 DEF WorktreePasses, NumstatPasses
  <2> QED
    BY <2>1, <2>2 DEF ChangedLines
<1>12. ASSUME NEW p \in changed
       PROVE  from[p] = Absent \/ from[p].kind = "regular"
  <2>1. to[p].kind = "regular" /\ p \in Present(diff)
    BY <1>7, <1>8, <1>12 DEF FilePasses
  <2>2. p \notin ModeChanges(diff) /\ p \notin BinaryChanges(diff)
    BY <1>6 DEF WorktreePasses, SummaryPasses, NumstatPasses
  <2>3. from[p] # Absent => from[p].kind \in Versioned
    BY <1>12 DEF ContentsOf, FilesOf
  <2>4. from[p] # Absent => from[p].kind \notin {"executable", "link"}
    BY <1>5, <1>12, <2>1, <2>2 DEF ModeChanges
  <2>5. from[p] # Absent => from[p].kind # "binary"
    BY <1>4, <1>5, <1>12, <2>2 DEF BinaryChanges, Binary
  <2> QED
    BY <2>3, <2>4, <2>5 DEF Versioned
<1> QED
  BY <1>8, <1>9, <1>10, <1>11, <1>12 DEF FilePasses

\* A change that passed the first job unwritten is, once applied, the same
\* change again, and passes again.
LEMMA UndisturbedChangesPass ==
    ASSUME NEW from \in [Paths -> ContentsOf(Versioned)],
           NEW to \in [Paths -> ContentsOf(Found)],
           WorktreePasses(to, Diff(from, to, Files(from) \cup Files(to)))
    PROVE  LET diff == Diff(from, to, Files(from) \cup Files(to))
               tree == Applied(diff, from)
           IN  /\ \A p \in DOMAIN diff : diff[p].old = from[p]
               /\ WorktreePasses(tree, Diff(from, tree, Files(from) \cup Files(tree)))
<1> DEFINE known == Files(from) \cup Files(to)
           diff == Diff(from, to, known)
           tree == Applied(diff, from)
<1>1. known \in SUBSET Paths
  BY DEF Files
<1>2. /\ DOMAIN diff = {p \in known : from[p] # Seen(to[p]) \/ to[p] = Absent}
      /\ \A p \in DOMAIN diff : diff[p].old = from[p] /\ diff[p].new = Seen(to[p])
  BY <1>1 DEF Diff
<1>3. \A p \in Paths : /\ Seen(to[p]) = Absent <=> to[p] = Absent
                       /\ from[p] \in ContentsOf(Versioned) /\ Seen(to[p]) \in ContentsOf(Versioned)
                       /\ Seen(from[p]) = from[p] /\ Seen(Seen(to[p])) = Seen(to[p])
  BY SeenAre
<1>4. \A p \in Paths : p \notin known => from[p] = Absent /\ to[p] = Absent
  BY DEF Files
<1>5. tree = [p \in Paths |-> Seen(to[p])]
  <2>1. \A p \in Paths : p \notin DOMAIN diff => from[p] = Seen(to[p])
    BY <1>2, <1>3, <1>4
  <2>2. \A p \in DOMAIN diff : diff[p].new = Seen(to[p])
    BY <1>2
  <2> HIDE DEF diff
  <2>3. tree = [p \in Paths |-> IF p \in DOMAIN diff THEN diff[p].new ELSE from[p]]
    BY DEF Applied
  <2> QED
    BY <2>1, <2>2, <2>3
<1>6. \A p \in Paths : tree[p] = Seen(to[p]) /\ Seen(tree[p]) = Seen(to[p])
  BY <1>3, <1>5
<1>7. Files(tree) = Files(to)
  <2> HIDE DEF tree
  <2> QED
    BY <1>3, <1>6 DEF Files
<1>8. Diff(from, tree, Files(from) \cup Files(tree)) = diff
  <2>1. \A p \in known : /\ Seen(tree[p]) = Seen(to[p])
                         /\ tree[p] = Absent <=> to[p] = Absent
    BY <1>1, <1>3, <1>6
  <2> HIDE DEF tree, known
  <2>2. Diff(from, tree, known) = Diff(from, to, known)
    BY <2>1 DEF Diff
  <2> QED
    BY <1>7, <2>2 DEF known
<1> HIDE DEF tree, known
<1> HIDE DEF diff
<1>9. WorktreePasses(to, diff)
  BY DEF diff, known
<1>10. Present(diff) \subseteq DOMAIN diff /\ DOMAIN diff \subseteq Paths
  BY <1>1, <1>2 DEF Present
<1>11. \A p \in Present(diff) : tree[p] = to[p] /\ FilePasses(p, tree[p])
  <2> SUFFICES ASSUME NEW p \in Present(diff) PROVE tree[p] = to[p] /\ FilePasses(p, tree[p])
    OBVIOUS
  <2>1. p \in Paths /\ FilePasses(p, to[p]) /\ to[p] \in ContentsOf(Found)
    BY <1>9, <1>10 DEF WorktreePasses
  <2>2. Seen(to[p]) = to[p]
    BY <2>1, TreesAre
  <2> QED
    BY <1>6, <2>1, <2>2
<1>12. [p \in Present(diff) |-> tree[p].bytes] = [p \in Present(diff) |-> to[p].bytes]
  BY <1>11
<1>13. WorktreePasses(tree, diff)
  BY <1>9, <1>11, <1>12 DEF WorktreePasses
<1>14. WorktreePasses(tree, Diff(from, tree, Files(from) \cup Files(tree)))
  BY <1>8, <1>13
<1> QED
  BY <1>2, <1>14 DEF diff, known, tree

\* Some text of the change reads like a directive, or is not UTF-8.
Unreadable(diff) == \E p \in DOMAIN diff : ~Readable(diff[p].old) \/ ~Readable(diff[p].new)

\* What passed the first job unwritten is refused as text for nothing else.
LEMMA UndisturbedTextPasses ==
    ASSUME NEW from \in [Paths -> ContentsOf(Versioned)],
           NEW to \in [Paths -> ContentsOf(Found)],
           WorktreePasses(to, Diff(from, to, Files(from) \cup Files(to))),
           PatchBytes(Diff(from, to, Files(from) \cup Files(to))) <= MaxPatchBytes,
           ~Unreadable(Diff(from, to, Files(from) \cup Files(to)))
    PROVE  PatchPasses(Diff(from, to, Files(from) \cup Files(to)))
<1> DEFINE known == Files(from) \cup Files(to)
           diff == Diff(from, to, known)
<1>1. DOMAIN diff \subseteq Paths /\ \A p \in DOMAIN diff : diff[p].new = Seen(to[p])
  BY DEF Diff, Files
<1>2. WorktreePasses(to, diff) /\ PatchBytes(diff) <= MaxPatchBytes /\ ~Unreadable(diff)
  OBVIOUS
<1> HIDE DEF diff
<1>3. Deleted(diff) = {} /\ Present(diff) # {} /\ Cardinality(Present(diff)) <= MaxFiles
  BY <1>2 DEF WorktreePasses, NamesPass
<1>4. Present(diff) = DOMAIN diff
  BY <1>3 DEF Present
<1>5. ModeChanges(diff) = {} /\ BinaryChanges(diff) = {}
  BY <1>2 DEF WorktreePasses, SummaryPasses, NumstatPasses
<1>6. \A p \in DOMAIN diff : p \in Allowed /\ diff[p].new # Absent /\ diff[p].new.kind = "regular"
  <2> SUFFICES ASSUME NEW p \in DOMAIN diff
               PROVE  p \in Allowed /\ diff[p].new # Absent /\ diff[p].new.kind = "regular"
    OBVIOUS
  <2>1. p \in Paths /\ FilePasses(p, to[p]) /\ to[p] \in ContentsOf(Found)
    BY <1>1, <1>2, <1>4 DEF WorktreePasses
  <2>2. Seen(to[p]) = to[p]
    BY <2>1, TreesAre
  <2> QED
    BY <1>1, <2>1, <2>2 DEF FilePasses
<1>7. \A p \in DOMAIN diff : Readable(diff[p].old) /\ Readable(diff[p].new)
  BY <1>2 DEF Unreadable
<1>8. PatchPasses(diff)
  BY <1>2, <1>3, <1>4, <1>5, <1>6, <1>7 DEF PatchPasses
<1> QED
  BY <1>8 DEF diff
-----------------------------------------------------------------------------
(* Every step keeps the invariant *)

\* Before the checkout there is nothing to be wrong about.
LEMMA InitialHolds == Init => IInv
<1> SUFFICES ASSUME Init PROVE IInv
  OBVIOUS
<1>1. Shape
  BY DEF Init, Shape, ContentsOf
<1>2. Looked
  BY DEF Init, Looked, Begun, Indexed, Decided
<1>3. HandoffWithinBounds /\ RefusedForAReason
  BY DEF Init, HandoffWithinBounds, RefusedForAReason
<1> QED
  BY <1>1, <1>2, <1>3 DEF IInv

\* The looks of the capture but its last: they write nothing the model sees.
Look == \/ Capture \/ PrepareIndex \/ Quiet \/ Names \/ DeletedNames
        \/ \E p \in Paths : LookAtFile(p)
        \/ Summary \/ Numstat \/ Check

\* The repository moves on, as far as the guard is concerned.
Elsewhere == (\E r \in Revisions : Push(r)) \/ TogglePull

\* The steps by what they write.
LEMMA StepsAre ==
    ASSUME [Next]_vars
    PROVE  \/ Checkout \/ Look \/ TakePatch \/ Gate \/ ApplyPatch
           \/ \E p \in Paths : \E c \in Contents[p] : Edit(p, c)
           \/ Elsewhere \/ UNCHANGED vars
  BY DEF Next, Develop, Reverify, Look, Elsewhere

\* The workspace holds files, the base is a revision, the patch is one.
LEMMA ShapeKept == ASSUME IInv, [Next]_vars PROVE Shape'
<1> USE DEF IInv
<1>1. CASE Checkout
  <2>1. base' \in Revisions /\ workspace' \in [Paths -> ContentsOf(Found)]
    BY <1>1, TreesAre DEF Checkout, Shape
  <2> QED
    BY <1>1, <2>1 DEF Checkout, Shape, Goto, capturing
<1>2. CASE Look
  <2>1. /\ UNCHANGED <<main, workspace, lateEdit, base, patch>>
        /\ stage # "checkout" /\ stage' \notin {"captured", "apply"}
    BY <1>2 DEF Look, Capture, PrepareIndex, Quiet, Names, DeletedNames, LookAtFile, Summary,
                Numstat, Check, Goto, Undisturbed, Keep
  <2>2. index' \in SUBSET Paths
    BY <1>2 DEF Look, Capture, PrepareIndex, Quiet, Names, DeletedNames, LookAtFile, Summary,
                Numstat, Check, capturing, Shape, Files
  <2> QED
    BY <2>1, <2>2 DEF Shape
<1>3. CASE TakePatch
  <2>1. base \in Revisions /\ index \in SUBSET Paths /\ workspace \in [Paths -> ContentsOf(Found)]
    BY <1>3 DEF TakePatch, Shape
  <2>2. IsPatch(Observed)
    BY <2>1, TreesAre, ChangesArePatches DEF Observed
  <2> QED
    BY <1>3, <2>1, <2>2 DEF TakePatch, Goto, Undisturbed, capturing, Shape, IsPatch
<1>4. CASE Gate
  BY <1>4 DEF Gate, Goto, Undisturbed, Keep, capturing, Shape, IsPatch
<1>5. CASE ApplyPatch
  <2>1. /\ UNCHANGED <<main, workspace, index, lateEdit, base, patch>>
        /\ stage = "apply" /\ stage' \notin {"captured", "apply"}
    BY <1>5 DEF ApplyPatch, Goto, Undisturbed, capturing
  <2> QED
    BY <2>1 DEF Shape
<1>6. ASSUME NEW p \in Paths, NEW c \in Contents[p], Edit(p, c)
      PROVE  Shape'
  <2>1. c \in ContentsOf(Found)
    BY TreeAssumption
  <2>2. workspace' \in [Paths -> ContentsOf(Found)]
    BY <1>6, <2>1 DEF Edit, Shape
  <2>3. lateEdit' \in BOOLEAN
    BY <1>6 DEF Edit, Shape, InCapture
  <2> QED
    BY <1>6, <2>2, <2>3 DEF Edit, capturing, Shape, IsPatch
<1>7. CASE Elsewhere
  BY <1>7 DEF Elsewhere, Push, TogglePull, capturing, Shape, IsPatch
<1>8. CASE UNCHANGED vars
  BY <1>8 DEF vars, capturing, Shape, IsPatch
<1> QED
  BY <1>1, <1>2, <1>3, <1>4, <1>5, <1>6, <1>7, <1>8, StepsAre

\* Only ApplyPatch hands off, and what it hands off has just been validated.
LEMMA HandoffKept == ASSUME IInv, [Next]_vars PROVE HandoffWithinBounds'
<1> USE DEF IInv
<1>1. CASE UNCHANGED handoff
  BY <1>1 DEF HandoffWithinBounds
<1>2. CASE handoff' # handoff
  <2>1. ApplyPatch
    BY <1>2, StepsAre DEF Checkout, Look, Capture, PrepareIndex, Quiet, Names, DeletedNames,
       LookAtFile, Summary, Numstat, Check, TakePatch, Gate, Keep, Edit, Elsewhere, Push,
       TogglePull, vars
  <2> DEFINE from == Tree[base]
             to == Applied(patch, from)
  <2>2. /\ WorktreePasses(to, Diff(from, to, Files(from) \cup Files(to)))
        /\ handoff' = [base |-> base, patch |-> patch, tree |-> to]
    BY <1>2, <2>1 DEF ApplyPatch
  <2>3. base \in Revisions /\ IsPatch(patch)
    BY <2>1 DEF ApplyPatch, Shape
  <2>4. from \in [Paths -> ContentsOf(Versioned)] /\ to \in [Paths -> ContentsOf(Versioned)]
    BY <2>3, TreesAre, AppliedIs
  <2>5. handoff'.base = base /\ handoff'.patch = patch /\ handoff'.tree = to
    BY <2>2
  <2>6. Tree[handoff'.base] = from /\ handoff'.tree = Applied(handoff'.patch, from)
    BY <2>5
  <2> HIDE DEF from, to
  <2>7. LET changed == {p \in Paths : from[p] # to[p]}
        IN  /\ changed \subseteq Allowed /\ changed # {}
            /\ Cardinality(changed) <= MaxFiles
            /\ \A p \in changed : /\ to[p] # Absent /\ to[p].kind = "regular"
                                  /\ to[p].bytes <= MaxFileBytes /\ "spaces" \notin to[p].odd
                                  /\ from[p] = Absent \/ from[p].kind = "regular"
            /\ Sum([p \in changed |-> to[p].bytes]) <= MaxTotalBytes
            /\ Sum([p \in changed |-> LinesOf(from[p]) + LinesOf(to[p])]) <= MaxChangedLines
    BY <2>2, <2>4, PassingTreesAreBounded
  <2> QED
    BY <2>5, <2>6, <2>7 DEF HandoffWithinBounds
<1> QED
  BY <1>1, <1>2

\* While base and workspace stand, so does the change.
LEMMA ChangeStands == ASSUME UNCHANGED <<base, workspace>>
                      PROVE  Change' = Change /\ Known(workspace)' = Known(workspace)
  BY DEF Change, Known

\* A look finds what a quiet capture would find, and adds it to what is known.
LEMMA LooksAdd == ASSUME IInv, Look PROVE Looked'
<1> USE DEF IInv
<1>1. UNCHANGED <<base, workspace, lateEdit>>
  BY DEF Look, Capture, PrepareIndex, Quiet, Names, DeletedNames, LookAtFile, Summary, Numstat,
         Check, Undisturbed, Keep
<1>2. Change' = Change /\ Known(workspace)' = Known(workspace) /\ workspace' = workspace
  BY <1>1, ChangeStands
<1>3. ASSUME ~lateEdit, stage \in Indexed
      PROVE  Observed = Change
  BY <1>3 DEF Looked, Observed, Change
<1> SUFFICES ASSUME ~lateEdit PROVE Looked'
  BY <1>1 DEF Looked
<1>4. CASE Capture
  BY <1>1, <1>2, <1>4 DEF Capture, Goto, capturing, Looked, Begun, Indexed, Decided
<1>5. CASE PrepareIndex
  <2>1. index' = Known(workspace)
    BY <1>5 DEF PrepareIndex, Known
  <2> QED
    BY <1>1, <1>2, <1>5, <2>1 DEF PrepareIndex, Goto, Looked, Begun, Indexed, Decided
<1>6. CASE Quiet
  BY <1>1, <1>2, <1>6 DEF Quiet, Goto, capturing, Looked, Begun, Indexed, Decided
<1>7. CASE Names
  <2>1. unread' = Present(Change)
    BY <1>3, <1>7 DEF Names, Indexed
  <2> QED
    BY <1>1, <1>2, <1>7, <2>1 DEF Names, Goto, Looked, Begun, Indexed, Decided
<1>8. CASE DeletedNames
  <2>1. /\ stage = "deleted" /\ Observed = Change /\ unread = Present(Change)
        /\ sizes = <<>> /\ index = Known(workspace)
    BY <1>3, <1>8 DEF DeletedNames, Indexed, Begun, Looked
  <2>2. UNCHANGED <<index, unread, sizes>>
    BY <1>8 DEF DeletedNames, capturing
  <2>3. CASE stage' = "files"
    <3>1. NamesPass(Change)
      BY <1>8, <2>1, <2>3 DEF DeletedNames, Goto, NamesPass
    <3>2. Present(Change) \ unread = {}
      BY <2>1
    <3>3. sizes = [p \in Present(Change) \ unread |-> workspace[p].bytes]
      BY <2>1, <3>2
    <3> QED
      BY <1>1, <1>2, <2>1, <2>2, <2>3, <3>1, <3>2, <3>3 DEF Looked, Begun, Indexed, Decided
  <2>4. CASE stage' = "rejected"
    BY <2>4 DEF Looked, Begun, Indexed, Decided
  <2> QED
    BY <1>8, <2>3, <2>4 DEF DeletedNames, Goto
<1>9. ASSUME NEW p \in Paths, LookAtFile(p)
      PROVE  Looked'
  <2>1. /\ stage = "files" /\ NamesPass(Change) /\ unread \subseteq Present(Change)
        /\ \A q \in Present(Change) \ unread : FilePasses(q, workspace[q])
        /\ sizes = [q \in Present(Change) \ unread |-> workspace[q].bytes]
        /\ index = Known(workspace) /\ p \in unread
    BY <1>9 DEF LookAtFile, Looked, Indexed
  <2>2. CASE FilePasses(p, workspace[p])
    <3>1. /\ unread' = unread \ {p} /\ stage' = "files" /\ index' = index
          /\ sizes' = [q \in DOMAIN sizes \cup {p} |->
                           IF q = p THEN workspace[p].bytes ELSE sizes[q]]
      BY <1>9, <2>1, <2>2 DEF LookAtFile
    <3>2. Present(Change) \ unread' = (Present(Change) \ unread) \cup {p}
      BY <2>1, <3>1
    <3>3. sizes' = [q \in Present(Change) \ unread' |-> workspace[q].bytes]
      BY <2>1, <3>1, <3>2
    <3>4. \A q \in Present(Change) \ unread' : FilePasses(q, workspace[q])
      BY <2>1, <2>2, <3>2
    <3>5. unread' \subseteq Present(Change)
      BY <2>1, <3>1
    <3> QED
      BY <1>1, <1>2, <2>1, <3>1, <3>3, <3>4, <3>5 DEF Looked, Begun, Indexed, Decided
  <2>3. CASE ~FilePasses(p, workspace[p])
    <3>1. stage' = "rejected"
      BY <1>9, <2>3 DEF LookAtFile, Goto
    <3> QED
      BY <3>1 DEF Looked, Begun, Indexed, Decided
  <2> QED
    BY <2>2, <2>3
<1>10. CASE Summary
  <2>1. /\ stage = "files" /\ unread = {} /\ Observed = Change /\ NamesPass(Change)
        /\ \A q \in Present(Change) \ unread : FilePasses(q, workspace[q])
        /\ sizes = [q \in Present(Change) \ unread |-> workspace[q].bytes]
        /\ index' = Known(workspace)
    BY <1>3, <1>10 DEF Summary, Looked, Indexed, capturing
  <2>2. Present(Change) \ unread = Present(Change)
    BY <2>1
  <2>3. sizes = [q \in Present(Change) |-> workspace[q].bytes]
    BY <2>1, <2>2
  <2>4. CASE stage' = "numstat"
    <3>1. Sum(sizes) <= MaxTotalBytes /\ SummaryPasses(Change)
      BY <1>10, <2>1, <2>4 DEF Summary, Goto
    <3> QED
      BY <1>1, <1>2, <2>1, <2>2, <2>3, <2>4, <3>1 DEF Looked, Begun, Indexed, Decided
  <2>5. CASE stage' = "rejected"
    BY <2>5 DEF Looked, Begun, Indexed, Decided
  <2> QED
    BY <1>10, <2>4, <2>5 DEF Summary, Goto
<1>11. CASE Numstat
  <2>1. Observed = Change /\ index' = Known(workspace)
    BY <1>3, <1>11 DEF Numstat, Looked, Indexed, capturing
  <2> QED
    BY <1>1, <1>2, <1>11, <2>1 DEF Numstat, Goto, Looked, Begun, Indexed, Decided
<1>12. CASE Check
  <2>1. Observed = Change /\ index' = Known(workspace)
    BY <1>3, <1>12 DEF Check, Looked, Indexed, capturing
  <2> QED
    BY <1>1, <1>2, <1>12, <2>1 DEF Check, Goto, Looked, Begun, Indexed, Decided
<1> QED
  BY <1>4, <1>5, <1>6, <1>7, <1>8, <1>9, <1>10, <1>11, <1>12 DEF Look

\* The patch is the change itself, and after it nobody writes the workspace.
LEMMA LookedKept == ASSUME IInv, [Next]_vars PROVE Looked'
<1> USE DEF IInv
<1>1. CASE Checkout
  BY <1>1 DEF Checkout, Goto, capturing, Looked, Begun, Indexed, Decided
<1>2. CASE TakePatch
  <2>1. UNCHANGED <<base, workspace, lateEdit>>
    BY <1>2 DEF TakePatch, Undisturbed
  <2>2. Change' = Change /\ workspace' = workspace
    BY <2>1, ChangeStands
  <2>3. ~lateEdit => Observed = Change
    BY <1>2 DEF TakePatch, Looked, Indexed, Observed, Change
  <2>4. stage = "diff" /\ patch' = Observed
    BY <1>2 DEF TakePatch
  <2>5. CASE stage' = "captured"
    <3>1. PatchBytes(Observed) <= MaxPatchBytes
      BY <1>2, <2>5 DEF TakePatch, Goto
    <3> QED
      BY <2>1, <2>2, <2>3, <2>4, <2>5, <3>1 DEF Looked, Begun, Indexed, Decided
  <2>6. CASE stage' = "rejected"
    BY <2>6 DEF Looked, Begun, Indexed, Decided
  <2> QED
    BY <1>2, <2>5, <2>6 DEF TakePatch, Goto
<1>3. CASE Gate
  <2>1. UNCHANGED <<base, workspace, lateEdit, patch>>
    BY <1>3 DEF Gate, Undisturbed, Keep
  <2>2. Change' = Change /\ workspace' = workspace
    BY <2>1, ChangeStands
  <2> QED
    BY <1>3, <2>1, <2>2 DEF Gate, Goto, Looked, Begun, Indexed, Decided
<1>4. CASE ApplyPatch
  <2>1. UNCHANGED <<base, workspace, lateEdit, patch>>
    BY <1>4 DEF ApplyPatch, Undisturbed
  <2>2. Change' = Change /\ workspace' = workspace
    BY <2>1, ChangeStands
  <2>3. stage = "apply" /\ stage' \in {"refused", "handed off"}
    BY <1>4 DEF ApplyPatch, Goto
  <2> QED
    BY <2>1, <2>2, <2>3 DEF Looked, Begun, Indexed, Decided
<1>5. ASSUME NEW p \in Paths, NEW c \in Contents[p], Edit(p, c)
      PROVE  Looked'
  BY <1>5 DEF Edit, InCapture, capturing, Looked, Begun, Indexed, Decided
<1>6. CASE Elsewhere \/ UNCHANGED vars
  <2>1. UNCHANGED <<base, workspace, lateEdit, patch, stage, index, unread, sizes>>
    BY <1>6 DEF Elsewhere, Push, TogglePull, capturing, vars
  <2>2. Change' = Change /\ Known(workspace)' = Known(workspace) /\ workspace' = workspace
    BY <2>1, ChangeStands
  <2> QED
    BY <2>1, <2>2 DEF Looked, Begun, Indexed, Decided
<1> QED
  BY <1>1, <1>2, <1>3, <1>4, <1>5, <1>6, LooksAdd, StepsAre

\* Of an undisturbed capture of readable text, ApplyPatch refuses nothing.
LEMMA ReasonKept == ASSUME IInv, [Next]_vars PROVE RefusedForAReason'
<1> USE DEF IInv
<1>1. CASE ApplyPatch
  <2> SUFFICES ASSUME stage' = "refused", ~lateEdit, ~Unreadable(patch)
               PROVE  FALSE
    BY <1>1 DEF ApplyPatch, Undisturbed, RefusedForAReason, Unreadable
  <2> DEFINE from == Tree[base]
  <2>1. /\ patch = Change /\ PatchBytes(Change) <= MaxPatchBytes
        /\ NamesPass(Change) /\ SummaryPasses(Change) /\ NumstatPasses(Change)
        /\ CheckPasses(Change) /\ \A p \in Present(Change) : FilePasses(p, workspace[p])
        /\ Sum([p \in Present(Change) |-> workspace[p].bytes]) <= MaxTotalBytes
    BY <1>1 DEF ApplyPatch, Looked, Decided
  <2>2. WorktreePasses(workspace, Change)
    BY <2>1 DEF WorktreePasses
  <2>3. /\ from \in [Paths -> ContentsOf(Versioned)]
        /\ workspace \in [Paths -> ContentsOf(Found)]
    BY <1>1, TreesAre DEF ApplyPatch, Shape
  <2>4. Change = Diff(from, workspace, Files(from) \cup Files(workspace))
    BY DEF Change, Known
  <2> DEFINE tree == Applied(patch, from)
  <2>5. /\ \A p \in DOMAIN patch : patch[p].old = from[p]
        /\ WorktreePasses(tree, Diff(from, tree, Files(from) \cup Files(tree)))
    BY <2>1, <2>2, <2>3, <2>4, UndisturbedChangesPass
  <2>6. PatchPasses(patch)
    BY <2>1, <2>2, <2>3, <2>4, UndisturbedTextPasses
  <2>7. stage' = "handed off"
    BY <1>1, <2>5, <2>6 DEF ApplyPatch, Goto
  <2> QED
    BY <2>7
<1>2. CASE UNCHANGED <<stage, lateEdit, patch>>
  BY <1>2 DEF RefusedForAReason
<1>3. CASE stage' # "refused"
  BY <1>3 DEF RefusedForAReason
<1>4. ApplyPatch \/ UNCHANGED <<stage, lateEdit, patch>> \/ stage' # "refused"
  BY StepsAre DEF Checkout, Look, Capture, PrepareIndex, Quiet, Names, DeletedNames,
     LookAtFile, Summary, Numstat, Check, TakePatch, Gate, Keep, Goto, Undisturbed, Edit,
     InCapture, Elsewhere, Push, TogglePull, vars
<1> QED
  BY <1>1, <1>2, <1>3, <1>4
-----------------------------------------------------------------------------
\* IInv holds in every state, for any revisions, contents and bounds.
THEOREM Inductive == Spec => []IInv
<1>1. Init => IInv
  BY InitialHolds
<1>2. IInv /\ [Next]_vars => IInv'
  BY ShapeKept, LookedKept, HandoffKept, ReasonKept DEF IInv
<1> QED
  BY <1>1, <1>2, PTL DEF Spec

\* Whatever is written while the capture looks, what is handed off is within
\* the boundary (apply_patch validates the applied patch once more).
THEOREM HandedOffWithinBounds == Spec => []HandoffWithinBounds
<1>1. IInv => HandoffWithinBounds
  BY DEF IInv
<1> QED
  BY <1>1, Inductive, PTL

\* What capture accepted, apply_patch refuses only after a late write, or for
\* text that reads like a directive of a patch or that read_text cannot decode.
THEOREM JobsAgree == Spec => []RefusedForAReason
<1>1. IInv => RefusedForAReason
  BY DEF IInv
<1> QED
  BY <1>1, Inductive, PTL
=============================================================================

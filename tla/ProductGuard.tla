---------------------------- MODULE ProductGuard ----------------------------
(***************************************************************************)
(* The hourly product workflow and scripts/ci/hourly_product_guard.py.     *)
(* The develop job checks out main, lets a model edit the workspace and    *)
(* captures the change as a patch; the reverify job, on another machine,   *)
(* checks out main again, applies the patch and hands it off.  The guard   *)
(* looks at the workspace several times, while a process the model left    *)
(* behind may still write it; main moves and pull requests are opened      *)
(* between the jobs.                                                       *)
(*                                                                         *)
(* A content is Absent or a record: its kind, its bytes, its lines, and    *)
(* what is odd about them: a line that reads like a directive of a patch,  *)
(* a line that git diff --check objects to, bytes that are not UTF-8.  A   *)
(* patch gives the contents before and after of each of its paths.  git    *)
(* shows the guard changed lines and those around them; here a change of   *)
(* a file is all lines of both contents, counted and judged alike.         *)
(***************************************************************************)
EXTENDS Naturals, FiniteSets, FiniteSetsExt

CONSTANTS
    Tree,       \* for each revision of main, the content of each path
    Allowed,    \* the paths inside the product boundary
    Contents,   \* for each path, what the model may make of it
    Absent, None,
    MaxFiles, MaxFileBytes, MaxTotalBytes, MaxPatchBytes, MaxChangedLines,
    MaxEdits    \* bound on the edits of the workspace

ASSUME BoundsAssumption == {MaxFiles, MaxFileBytes, MaxTotalBytes, MaxPatchBytes,
                            MaxChangedLines, MaxEdits} \subseteq Nat

Revisions == DOMAIN Tree
Paths == DOMAIN Contents

\* What a path may hold: nothing, or a file of one of these kinds.
FilesOf(kinds) ==
    [kind : kinds, bytes : Nat, lines : Nat,
     odd : SUBSET {"directive", "spaces", "undecodable"}]
ContentsOf(kinds) == {Absent} \cup FilesOf(kinds)
Versioned == {"regular", "executable", "binary", "link"}
Found == Versioned \cup {"hardlink"}

\* No file of a revision is a hard link; what the model leaves may be one.
ASSUME TreeAssumption ==
    /\ Absent \notin FilesOf(Found)
    /\ \A r \in Revisions : Tree[r] \in [Paths -> ContentsOf(Versioned)]
    /\ \A p \in Paths : Contents[p] \subseteq ContentsOf(Found)

VARIABLES
    main,        \* the head of main
    openPulls,   \* some pull request is open
    stage,       \* the step of the workflow
    base,        \* the revision of the develop job
    workspace,   \* the tree that the model edits
    index,       \* the paths in the alternate index
    unread,      \* the changed paths that are still to be looked at
    sizes,       \* total_bytes, as the sizes it is the sum of
    patch,       \* the captured patch
    handoff,     \* the base, the patch and the tree of a finished reverification
    edits,       \* edits so far
    lateEdit     \* history: the workspace was edited during the capture

capturing == <<index, unread, sizes>>
vars == <<main, openPulls, stage, base, workspace, capturing, patch, handoff, edits, lateEdit>>

Init == /\ main \in Revisions /\ openPulls \in BOOLEAN
        /\ stage = "checkout" /\ base = None
        /\ workspace = [p \in Paths |-> Absent]
        /\ index = {} /\ unread = {} /\ sizes = <<>>
        /\ patch = None /\ handoff = None
        /\ edits = 0 /\ lateEdit = FALSE
-----------------------------------------------------------------------------
(* What git says of a change *)

Files(tree) == {p \in Paths : tree[p] # Absent}

\* git sees no hard links.
Seen(c) == IF c # Absent /\ c.kind = "hardlink" THEN [c EXCEPT !.kind = "regular"] ELSE c

\* Of the known paths; one that is known and not there was deleted.
Diff(from, to, known) ==
    [p \in {q \in known : from[q] # Seen(to[q]) \/ to[q] = Absent} |->
        [old |-> from[p], new |-> Seen(to[p])]]

Sum(f) == MapThenSumSet(LAMBDA p : f[p], DOMAIN f)
LinesOf(c) == IF c = Absent THEN 0 ELSE c.lines
ChangedLines(diff) ==
    Sum([p \in DOMAIN diff |-> LinesOf(diff[p].old) + LinesOf(diff[p].new)])
PatchBytes(diff) == Cardinality(DOMAIN diff) + ChangedLines(diff)

Deleted(diff) == {p \in DOMAIN diff : diff[p].new = Absent}
Present(diff) == DOMAIN diff \ Deleted(diff)
\* Executable files and symbolic links have modes of their own.
ModeChanges(diff) == {p \in Present(diff) : diff[p].old # Absent
                                          /\ diff[p].old.kind # diff[p].new.kind
                                          /\ \/ "executable" \in {diff[p].old.kind, diff[p].new.kind}
                                             \/ "link" \in {diff[p].old.kind, diff[p].new.kind}}
Binary(c) == c # Absent /\ c.kind = "binary"
BinaryChanges(diff) == {p \in DOMAIN diff : Binary(diff[p].old) \/ Binary(diff[p].new)}
-----------------------------------------------------------------------------
(* validate_worktree_diff, by the looks it takes *)

NamesPass(diff) == /\ Deleted(diff) = {}
                   /\ Present(diff) # {} /\ Cardinality(Present(diff)) <= MaxFiles

FilePasses(p, c) == p \in Allowed /\ c # Absent /\ c.kind = "regular" /\ c.bytes <= MaxFileBytes

SummaryPasses(diff) == ModeChanges(diff) = {}
\* git counts added and deleted lines, and checks added lines only.
NumstatPasses(diff) == BinaryChanges(diff) = {} /\ ChangedLines(diff) <= MaxChangedLines
CheckPasses(diff) == \A p \in Present(diff) : "spaces" \notin diff[p].new.odd

\* All of them, of a tree that nobody writes.
WorktreePasses(tree, diff) ==
    /\ NamesPass(diff) /\ \A p \in Present(diff) : FilePasses(p, tree[p])
    /\ Sum([p \in Present(diff) |-> tree[p].bytes]) <= MaxTotalBytes
    /\ SummaryPasses(diff) /\ NumstatPasses(diff) /\ CheckPasses(diff)

\* Text that a patch can carry past the second job.
Readable(c) == c # Absent => c.odd \cap {"directive", "undecodable"} = {}

\* Mutant: one file fewer than the capture allows.
PatchPassesFewer(diff) ==
    /\ PatchBytes(diff) <= MaxPatchBytes
    /\ DOMAIN diff # {} /\ Cardinality(DOMAIN diff) < MaxFiles
    /\ DOMAIN diff \subseteq Allowed /\ Deleted(diff) = {}
    /\ ModeChanges(diff) = {} /\ BinaryChanges(diff) = {}
    /\ \A p \in DOMAIN diff : Readable(diff[p].old) /\ Readable(diff[p].new)
    /\ \A p \in DOMAIN diff : diff[p].old = Absent => diff[p].new.kind = "regular"

\* validate_patch_text: it reads the patch as UTF-8, sees modes only of files
\* that are new or change mode, and takes text that reads like a directive for one.
PatchPasses(diff) ==
    /\ PatchBytes(diff) <= MaxPatchBytes
    /\ DOMAIN diff # {} /\ Cardinality(DOMAIN diff) <= MaxFiles
    /\ DOMAIN diff \subseteq Allowed /\ Deleted(diff) = {}
    /\ ModeChanges(diff) = {} /\ BinaryChanges(diff) = {}
    /\ \A p \in DOMAIN diff : Readable(diff[p].old) /\ Readable(diff[p].new)
    /\ \A p \in DOMAIN diff : diff[p].old = Absent => diff[p].new.kind = "regular"
-----------------------------------------------------------------------------
(* The develop job *)

Goto(next) == stage' = next
Undisturbed == UNCHANGED <<main, openPulls, workspace, edits, lateEdit>>
Keep == UNCHANGED <<base, patch, handoff>>

\* With a pull request open the job does nothing.
Checkout ==
    /\ stage = "checkout"
    /\ base' = main
    /\ workspace' = Tree[main]
    /\ Goto(IF openPulls THEN "skipped" ELSE "model")
    /\ UNCHANGED <<main, openPulls, capturing, patch, handoff, edits, lateEdit>>

\* The model step is over; capture begins.
Capture == /\ stage = "model" /\ Goto("index")
           /\ Undisturbed /\ Keep /\ UNCHANGED capturing

\* Files that appear later are not in the index.
PrepareIndex == /\ stage = "index"
                /\ index' = Files(Tree[base]) \cup Files(workspace)
                /\ Goto("quiet")
                /\ Undisturbed /\ Keep /\ UNCHANGED <<unread, sizes>>

Observed == Diff(Tree[base], workspace, index)

Quiet == /\ stage = "quiet"
         /\ Goto(IF Observed = <<>> THEN "unchanged" ELSE "names")
         /\ Undisturbed /\ Keep /\ UNCHANGED capturing

\* The changed files are listed, then the deleted ones.
Names == /\ stage = "names"
         /\ unread' = Present(Observed)
         /\ Goto("deleted")
         /\ Undisturbed /\ Keep /\ UNCHANGED <<index, sizes>>

DeletedNames == /\ stage = "deleted"
                /\ Goto(IF /\ Deleted(Observed) = {} /\ unread # {}
                           /\ Cardinality(unread) <= MaxFiles
                        THEN "files" ELSE "rejected")
                /\ Undisturbed /\ Keep /\ UNCHANGED capturing

\* The mode, the size and the bytes of a file, in one look.
LookAtFile(p) ==
    /\ stage = "files" /\ p \in unread
    /\ IF FilePasses(p, workspace[p])
       THEN /\ unread' = unread \ {p}
            /\ sizes' = [q \in DOMAIN sizes \cup {p} |->
                             IF q = p THEN workspace[p].bytes ELSE sizes[q]]
            /\ UNCHANGED stage
       ELSE Goto("rejected") /\ UNCHANGED <<unread, sizes>>
    /\ Undisturbed /\ Keep /\ UNCHANGED index

Summary == /\ stage = "files" /\ unread = {}
           /\ Goto(IF Sum(sizes) <= MaxTotalBytes /\ SummaryPasses(Observed)
                   THEN "numstat" ELSE "rejected")
           /\ Undisturbed /\ Keep /\ UNCHANGED capturing

Numstat == /\ stage = "numstat"
           /\ Goto(IF NumstatPasses(Observed) THEN "check" ELSE "rejected")
           /\ Undisturbed /\ Keep /\ UNCHANGED capturing

Check == /\ stage = "check"
         /\ Goto(IF CheckPasses(Observed) THEN "diff" ELSE "rejected")
         /\ Undisturbed /\ Keep /\ UNCHANGED capturing

\* The patch is of the workspace as it is now.
TakePatch == /\ stage = "diff"
             /\ patch' = Observed
             /\ Goto(IF PatchBytes(Observed) <= MaxPatchBytes THEN "captured" ELSE "rejected")
             /\ Undisturbed /\ UNCHANGED <<base, handoff, capturing>>
-----------------------------------------------------------------------------
(* The reverify job *)

\* It checks out main as it is now, and gives up if anything moved.
Gate == /\ stage = "captured"
        /\ Goto(IF openPulls \/ main # base THEN "discarded" ELSE "apply")
        /\ Undisturbed /\ Keep /\ UNCHANGED capturing

Applied(diff, tree) == [p \in Paths |-> IF p \in DOMAIN diff THEN diff[p].new ELSE tree[p]]

\* Mutant: what was captured is not looked at once applied.
ApplyUnchecked ==
    /\ stage = "apply"
    /\ LET tree == Applied(patch, Tree[base])
       IN  IF /\ PatchPasses(patch)
              /\ \A p \in DOMAIN patch : patch[p].old = Tree[base][p]
           THEN /\ handoff' = [base |-> base, patch |-> patch, tree |-> tree]
                /\ Goto("handed off")
           ELSE Goto("refused") /\ UNCHANGED handoff
    /\ Undisturbed /\ UNCHANGED <<base, patch, capturing>>

\* The patch is read, must apply, and its result is validated in turn.
ApplyPatch ==
    /\ stage = "apply"
    /\ LET tree == Applied(patch, Tree[base])
           diff == Diff(Tree[base], tree, Files(Tree[base]) \cup Files(tree))
       IN  IF /\ PatchPasses(patch)
              /\ \A p \in DOMAIN patch : patch[p].old = Tree[base][p]
              /\ WorktreePasses(tree, diff)
           THEN /\ handoff' = [base |-> base, patch |-> patch, tree |-> tree]
                /\ Goto("handed off")
           ELSE Goto("refused") /\ UNCHANGED handoff
    /\ Undisturbed /\ UNCHANGED <<base, patch, capturing>>
-----------------------------------------------------------------------------
(* The model, what it left behind, and the repository *)

InCapture == stage \in {"index", "quiet", "names", "deleted", "files", "numstat", "check",
                        "diff"}

Edit(p, c) == /\ stage = "model" \/ InCapture
              /\ edits < MaxEdits /\ workspace[p] # c
              /\ workspace' = [workspace EXCEPT ![p] = c]
              /\ edits' = edits + 1
              /\ lateEdit' = (lateEdit \/ InCapture)
              /\ UNCHANGED <<main, openPulls, stage, base, capturing, patch, handoff>>

Open == stage \notin {"skipped", "unchanged", "rejected", "discarded", "refused", "handed off"}

Push(r) == /\ Open /\ main # r
           /\ main' = r
           /\ UNCHANGED <<openPulls, stage, base, workspace, capturing, patch, handoff,
                          edits, lateEdit>>

TogglePull == /\ Open
              /\ openPulls' = ~openPulls
              /\ UNCHANGED <<main, stage, base, workspace, capturing, patch, handoff,
                             edits, lateEdit>>

Develop == \/ Checkout \/ Capture \/ PrepareIndex \/ Quiet \/ Names \/ DeletedNames
           \/ \E p \in Paths : LookAtFile(p)
           \/ Summary \/ Numstat \/ Check \/ TakePatch
Reverify == Gate \/ ApplyPatch

Next == \/ Develop \/ Reverify
        \/ \E p \in Paths : \E c \in Contents[p] : Edit(p, c)
        \/ \E r \in Revisions : Push(r)
        \/ TogglePull

Spec == Init /\ [][Next]_vars
-----------------------------------------------------------------------------
(* Properties *)

\* Whatever is written while the capture looks, a change that is handed off is
\* within the boundary: few enough allowed files, no deletion, each a regular
\* file of bounded size that is not executable and was not before, without
\* lines that git objects to, and few enough changed lines; and it applies to
\* the revision it names.
HandoffWithinBounds ==
    handoff # None =>
        LET from == Tree[handoff.base]
            to == handoff.tree
            changed == {p \in Paths : from[p] # to[p]}
        IN  /\ changed \subseteq Allowed /\ changed # {}
            /\ Cardinality(changed) <= MaxFiles
            /\ \A p \in changed : /\ to[p] # Absent /\ to[p].kind = "regular"
                                  /\ to[p].bytes <= MaxFileBytes /\ "spaces" \notin to[p].odd
                                  /\ from[p] = Absent \/ from[p].kind = "regular"
            /\ Sum([p \in changed |-> to[p].bytes]) <= MaxTotalBytes
            /\ Sum([p \in changed |-> LinesOf(from[p]) + LinesOf(to[p])]) <= MaxChangedLines
            /\ handoff.tree = Applied(handoff.patch, from)

\* The two jobs agree: what the capture accepted is refused when it is applied
\* only if the workspace was written during the capture, or for a text that
\* reads like a directive or is not UTF-8, before the change or after it: the
\* capture takes any bytes without a NUL (path.read_bytes), the second job
\* decodes them (read_text).
RefusedForAReason ==
    stage = "refused" =>
        \/ lateEdit
        \/ \E p \in DOMAIN patch : ~Readable(patch[p].old) \/ ~Readable(patch[p].new)
=============================================================================

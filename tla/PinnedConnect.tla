--------------------------- MODULE PinnedConnect ---------------------------
(***************************************************************************)
(* What both network backends of EgressWeave promise of connect_tcp on a   *)
(* pinned authority: connections are opened only between the call and its  *)
(* end, and the call ends with exactly one open stream to one of the       *)
(* pinned addresses, with the generic denial, or with its cancellation.    *)
(***************************************************************************)
EXTENDS Naturals

CONSTANT Pinned   \* the validated addresses of the authority

VARIABLES
    phase,    \* "idle", "connecting", "returned", "denied" or "cancelled"
    opened,   \* addresses a connection was established to
    closed,   \* those whose stream was closed again
    chosen    \* {} or the one address whose stream is returned

vars == <<phase, opened, closed, chosen>>

Init == phase = "idle" /\ opened = {} /\ closed = {} /\ chosen = {}

Begin == /\ phase = "idle"
         /\ phase' = "connecting"
         /\ UNCHANGED <<opened, closed, chosen>>

Open(a) == /\ phase = "connecting"
           /\ a \notin opened
           /\ opened' = opened \cup {a}
           /\ UNCHANGED <<phase, closed, chosen>>

Close(a) == /\ phase = "connecting"
            /\ a \in opened \ closed
            /\ closed' = closed \cup {a}
            /\ UNCHANGED <<phase, opened, chosen>>

\* The stream may have been opened before, or by the same step.
Return(a) == /\ phase = "connecting"
             /\ a \notin closed
             /\ phase' = "returned"
             /\ opened' = opened \cup {a}
             /\ chosen' = {a}
             /\ UNCHANGED closed

Deny == /\ phase = "connecting"
        /\ phase' = "denied"
        /\ UNCHANGED <<opened, closed, chosen>>

Cancel == /\ phase = "connecting"
          /\ phase' = "cancelled"
          /\ UNCHANGED <<opened, closed, chosen>>

Next == \/ Begin \/ Deny \/ Cancel
        \/ \E a \in Pinned : Open(a) \/ Close(a) \/ Return(a)

SafeSpec == Init /\ [][Next]_vars

\* A call that begins ends.
Spec == /\ SafeSpec
        /\ WF_vars(Deny \/ \E a \in Pinned : Return(a))
=============================================================================

-------------------------- MODULE ResolverPromise --------------------------
(***************************************************************************)
(* What the bounded DNS resolver of egressweave.validation promises to its *)
(* callers, without clocks, semaphores or threads: at most MaxLookups      *)
(* platform lookups run at any moment (a lookup may outlive the call that  *)
(* asked for it), a call is allowed only on the validated answer of its    *)
(* own lookup, and every call that begins ends.                            *)
(***************************************************************************)
EXTENDS Naturals, FiniteSets

CONSTANTS Calls, MaxLookups

VARIABLES
    status,   \* per call: "idle", "pending", "allowed" or "denied"
    lookup    \* per call: "none", "running", "addresses" or "error"

vars == <<status, lookup>>

Running == {c \in Calls : lookup[c] = "running"}

Init == /\ status = [c \in Calls |-> "idle"]
        /\ lookup = [c \in Calls |-> "none"]

Begin(c) == /\ status[c] = "idle"
            /\ status' = [status EXCEPT ![c] = "pending"]
            /\ UNCHANGED lookup

StartLookup(c) == /\ status[c] = "pending"
                  /\ lookup[c] = "none"
                  /\ Cardinality(Running) < MaxLookups
                  /\ lookup' = [lookup EXCEPT ![c] = "running"]
                  /\ UNCHANGED status

EndLookup(c) == /\ lookup[c] = "running"
                /\ \E r \in {"addresses", "error"} :
                      lookup' = [lookup EXCEPT ![c] = r]
                /\ UNCHANGED status

Allow(c) == /\ status[c] = "pending"
            /\ lookup[c] = "addresses"
            /\ status' = [status EXCEPT ![c] = "allowed"]
            /\ UNCHANGED lookup

Deny(c) == /\ status[c] = "pending"
           /\ status' = [status EXCEPT ![c] = "denied"]
           /\ UNCHANGED lookup

Next == \E c \in Calls :
           Begin(c) \/ StartLookup(c) \/ EndLookup(c) \/ Allow(c) \/ Deny(c)

\* Every pending call is decided; nothing obliges a lookup to end.
Spec == /\ Init
        /\ [][Next]_vars
        /\ \A c \in Calls : WF_vars(Allow(c) \/ Deny(c))
=============================================================================

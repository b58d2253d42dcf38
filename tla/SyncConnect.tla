---------------------------- MODULE SyncConnect ----------------------------
(***************************************************************************)
(* _PinnedEgressSyncNetworkBackend.connect_tcp of                          *)
(* egressweave.sync_transport: the pinned addresses are tried one after    *)
(* the other on the caller's thread, each with what is left of one budget, *)
(* and the first stream wins.  The backend below is httpcore's: a blocking *)
(* connect that ends by its own timeout.                                   *)
(***************************************************************************)
EXTENDS Integers

CONSTANTS
    N,          \* number of pinned addresses
    Budget      \* the connection timeout, in ticks, unless it is None

ASSUME SyncAssumption == /\ N \in Nat \ {0}
                         /\ Budget \in Nat

Addresses == 1..N

VARIABLES
    bounded,   \* FALSE: timeout is None
    prompt,    \* TRUE: the thread is scheduled without delay
    pc,        \* "idle", "next", "connecting", "stream" or "denied"
    address,   \* the address at hand, N + 1 after the last
    left,      \* ticks to the deadline; -1: it has passed
    allowed,   \* ticks left of the running attempt's timeout
    result     \* per address: "untried", "failed" or "stream"

circumstances == <<bounded, prompt>>
vars == <<circumstances, pc, address, left, allowed, result>>

Ended == {"stream", "denied"}
Expired == bounded /\ left <= 0

Init == /\ bounded \in BOOLEAN
        /\ prompt \in BOOLEAN
        /\ pc = "idle"
        /\ address = 1
        /\ left = Budget
        /\ allowed = 0
        /\ result = [a \in Addresses |-> "untried"]

\* deadline = monotonic() + max(timeout, 0.0)
Begin == /\ pc = "idle"
         /\ pc' = "next"
         /\ UNCHANGED <<circumstances, address, left, allowed, result>>

\* The loop is over, or breaks because the budget is spent.
Deny == /\ pc = "next"
        /\ address > N \/ Expired
        /\ pc' = "denied"
        /\ UNCHANGED <<circumstances, address, left, allowed, result>>

\* Mutant: every attempt gets the whole timeout.
AttemptAfresh == /\ pc = "next"
                 /\ address <= N /\ ~Expired
                 /\ pc' = "connecting"
                 /\ allowed' = Budget
                 /\ UNCHANGED <<circumstances, address, left, result>>

\* The address is revalidated and tried with the remaining budget.
Attempt == /\ pc = "next"
           /\ address <= N /\ ~Expired
           /\ pc' = "connecting"
           /\ allowed' = left
           /\ UNCHANGED <<circumstances, address, left, result>>

\* The backend's connect_tcp returns.
Connected == /\ pc = "connecting"
             /\ pc' = "stream"
             /\ result' = [result EXCEPT ![address] = "stream"]
             /\ UNCHANGED <<circumstances, address, left, allowed>>

\* Mutant: a failure ends the call.
FailedForGood == /\ pc = "connecting"
                 /\ pc' = "denied"
                 /\ result' = [result EXCEPT ![address] = "failed"]
                 /\ UNCHANGED <<circumstances, address, left, allowed>>

\* Mutant: the address that failed is tried again.
FailedRetries == /\ pc = "connecting"
                 /\ pc' = "next"
                 /\ result' = [result EXCEPT ![address] = "failed"]
                 /\ UNCHANGED <<circumstances, address, left, allowed>>

\* It raises; its timeout is one way to raise.
Failed == /\ pc = "connecting"
          /\ pc' = "next"
          /\ result' = [result EXCEPT ![address] = "failed"]
          /\ address' = address + 1
          /\ UNCHANGED <<circumstances, left, allowed>>

\* A blocking connect is over when its timeout is.
AttemptOver == bounded /\ allowed = 0

Tick == /\ pc \in {"next", "connecting"}
        /\ prompt => pc = "connecting" /\ ~AttemptOver
        /\ left' = IF bounded /\ left >= 0 THEN left - 1 ELSE left
        /\ allowed' = IF bounded /\ allowed > 0 THEN allowed - 1 ELSE allowed
        /\ UNCHANGED <<circumstances, pc, address, result>>

Next == Begin \/ Deny \/ Attempt \/ Connected \/ Failed \/ Tick

Fairness == WF_vars(Deny \/ Attempt) /\ WF_vars(Connected \/ Failed)

Spec == Init /\ [][Next]_vars /\ Fairness
-----------------------------------------------------------------------------
(* Properties *)

\* With a prompt thread the call is over by its deadline, however many
\* addresses there are: the attempts share one budget.
OverByDeadline == prompt => left >= 0

\* A denial before the deadline means that every address was tried, and one
\* after it that those tried had failed: no stream is dropped.
DeniedForAReason ==
    pc = "denied" => /\ \A a \in Addresses : result[a] # "stream"
                     /\ Expired \/ \A a \in Addresses : result[a] = "failed"

Promise == INSTANCE PinnedConnect WITH
    Pinned <- Addresses,
    phase <- CASE pc \in {"idle", "denied"} -> pc
               [] pc = "stream" -> "returned"
               [] OTHER -> "connecting",
    opened <- {a \in Addresses : result[a] = "stream"},
    closed <- {},
    chosen <- {a \in Addresses : result[a] = "stream"}

\* The sequential backend keeps the promise of PinnedConnect: one stream or
\* the denial, and an end to every call.
KeepsPromise == Promise!Spec
=============================================================================

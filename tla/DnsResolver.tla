---------------------------- MODULE DnsResolver ----------------------------
(***************************************************************************)
(* _resolve_all_global_addresses of egressweave.validation: a synchronous  *)
(* call takes one of MaxSlots process-wide lookup slots, hands the lookup  *)
(* to a daemon worker thread and waits for the worker's answer in a queue  *)
(* of its own, all within one deadline.  The worker is never interrupted:  *)
(* a call that gives up leaves its worker running, and the worker keeps    *)
(* the slot until the platform lookup returns.                             *)
(*                                                                         *)
(* Time is relative: left[c] is what remains of the call's deadline, and   *)
(* wait[c] what remains of the blocking wait the call is in.  Tick is one  *)
(* unit of time.  With Prompt = TRUE no time passes while a caller thread  *)
(* has a step to take; with Prompt = FALSE threads are scheduled with      *)
(* arbitrary delays.                                                       *)
(***************************************************************************)
EXTENDS Integers, FiniteSets

CONSTANTS
    Calls,      \* the calls, of any number of threads
    MaxSlots,   \* _MAX_CONCURRENT_DNS_RESOLUTIONS
    Timeout,    \* policy.dns_timeout_seconds, in ticks
    Prompt      \* TRUE: caller threads are scheduled without delay

ASSUME CallsAssumption == IsFiniteSet(Calls)
ASSUME SlotsAssumption == MaxSlots \in Nat \ {0}
ASSUME TimeoutAssumption == Timeout \in Nat \ {0}
ASSUME PromptAssumption == Prompt \in BOOLEAN

VARIABLES
    pc,       \* where each call is
    left,     \* ticks left to each call's deadline; -1: it has passed
    wait,     \* ticks left of the blocking wait in force
    slots,    \* the value of _DNS_RESOLUTION_SLOTS
    worker,   \* each call's worker thread
    queue     \* each call's resolution_result

vars == <<pc, left, wait, slots, worker, queue>>

Idle == "idle"
Ended == {"returned", "denied"}
Active == {"entered", "acquiring", "acquired", "starting", "started", "getting"}

Alive(w) == w \in {"resolving", "posted"}

\* The calls that hold a slot: through their own thread, until the worker
\* has started, and through the worker from then on.
Holders == {c \in Calls : pc[c] \in {"acquired", "starting"} \/ Alive(worker[c])}

Init == /\ pc = [c \in Calls |-> Idle]
        /\ left = [c \in Calls |-> Timeout]
        /\ wait = [c \in Calls |-> 0]
        /\ slots = MaxSlots
        /\ worker = [c \in Calls |-> "none"]
        /\ queue = [c \in Calls |-> "empty"]
-----------------------------------------------------------------------------
(* The caller's thread *)

Goto(c, p) == pc' = [pc EXCEPT ![c] = p]

\* deadline = monotonic() + dns_timeout_seconds
Begin(c) == /\ pc[c] = Idle
            /\ Goto(c, "entered")
            /\ left' = [left EXCEPT ![c] = Timeout]
            /\ UNCHANGED <<wait, slots, worker, queue>>

\* acquire(timeout=dns_timeout_seconds): its timer starts here, which may be
\* later than the deadline's.
CallAcquire(c) == /\ pc[c] = "entered"
                  /\ Goto(c, "acquiring")
                  /\ wait' = [wait EXCEPT ![c] = Timeout]
                  /\ UNCHANGED <<left, slots, worker, queue>>

\* A free slot is taken even when the timer has run out: the semaphore
\* looks at its value before it gives up.
Acquire(c) == /\ pc[c] = "acquiring"
              /\ slots > 0
              /\ slots' = slots - 1
              /\ wait' = [wait EXCEPT ![c] = 0]
              /\ Goto(c, "acquired")
              /\ UNCHANGED <<left, worker, queue>>

\* Mutant: acquire() without a timeout.
AcquireNeverTimesOut(c) == pc[c] = "acquiring" /\ FALSE /\ UNCHANGED vars

\* acquire returns False.
AcquireTimesOut(c) == /\ pc[c] = "acquiring"
                      /\ slots = 0
                      /\ wait[c] = 0
                      /\ Goto(c, "denied")
                      /\ UNCHANGED <<left, wait, slots, worker, queue>>

\* Mutant: the late deadline check forgets the slot.
ExpireKeepsSlot(c) == /\ pc[c] = "acquired"
                      /\ left[c] <= 0
                      /\ Goto(c, "denied")
                      /\ UNCHANGED <<left, wait, slots, worker, queue>>

\* remaining_timeout <= 0: the slot goes back before the denial.
Expire(c) == /\ pc[c] = "acquired"
             /\ left[c] <= 0
             /\ slots' = slots + 1
             /\ Goto(c, "denied")
             /\ UNCHANGED <<left, wait, worker, queue>>

Proceed(c) == /\ pc[c] = "acquired"
              /\ left[c] > 0
              /\ Goto(c, "starting")
              /\ UNCHANGED <<left, wait, slots, worker, queue>>

\* worker.start() returns with the thread running: the slot is the worker's.
StartWorker(c) == /\ pc[c] = "starting"
                  /\ Goto(c, "started")
                  /\ worker' = [worker EXCEPT ![c] = "resolving"]
                  /\ UNCHANGED <<left, wait, slots, queue>>

\* worker.start() raises RuntimeError.
StartFails(c) == /\ pc[c] = "starting"
                 /\ Goto(c, "denied")
                 /\ worker' = [worker EXCEPT ![c] = "unstarted"]
                 /\ slots' = slots + 1
                 /\ UNCHANGED <<left, wait, queue>>

\* Mutants: the wait for the answer takes the whole timeout, or none of it.
CallGetAfresh(c) == /\ pc[c] = "started"
                    /\ Goto(c, "getting")
                    /\ wait' = [wait EXCEPT ![c] = Timeout]
                    /\ UNCHANGED <<left, slots, worker, queue>>

CallGetNoWait(c) == /\ pc[c] = "started"
                    /\ Goto(c, "getting")
                    /\ wait' = [wait EXCEPT ![c] = 0]
                    /\ UNCHANGED <<left, slots, worker, queue>>

\* resolution_result.get(timeout=max(0.0, deadline - monotonic()))
CallGet(c) == /\ pc[c] = "started"
              /\ Goto(c, "getting")
              /\ wait' = [wait EXCEPT ![c] = IF left[c] > 0 THEN left[c] ELSE 0]
              /\ UNCHANGED <<left, slots, worker, queue>>

\* The answer is taken; an error, whatever it is, becomes the denial.
Get(c) == /\ pc[c] = "getting"
          /\ queue[c] # "empty"
          /\ Goto(c, IF queue[c] = "addresses" THEN "returned" ELSE "denied")
          /\ queue' = [queue EXCEPT ![c] = "empty"]
          /\ wait' = [wait EXCEPT ![c] = 0]
          /\ UNCHANGED <<left, slots, worker>>

\* Mutant: the call that gives up releases its worker's slot.
GetTimeoutReleases(c) == /\ pc[c] = "getting"
                         /\ queue[c] = "empty"
                         /\ wait[c] = 0
                         /\ Goto(c, "denied")
                         /\ slots' = slots + 1
                         /\ UNCHANGED <<left, wait, worker, queue>>

\* queue.Empty: the worker is left to itself.
GetTimesOut(c) == /\ pc[c] = "getting"
                  /\ queue[c] = "empty"
                  /\ wait[c] = 0
                  /\ Goto(c, "denied")
                  /\ UNCHANGED <<left, wait, slots, worker, queue>>

Caller(c) == \/ CallAcquire(c) \/ Acquire(c) \/ AcquireTimesOut(c)
             \/ Expire(c) \/ Proceed(c) \/ StartWorker(c) \/ StartFails(c)
             \/ CallGet(c) \/ Get(c) \/ GetTimesOut(c)

\* The calls with a step to take now: all but those asleep in a wait.
Ready(c) == \/ pc[c] \in {"entered", "acquired", "starting", "started"}
            \/ pc[c] = "acquiring" /\ (slots > 0 \/ wait[c] = 0)
            \/ pc[c] = "getting" /\ (queue[c] # "empty" \/ wait[c] = 0)
-----------------------------------------------------------------------------
(* The worker's thread *)

\* Mutant: the worker swallows its exception and puts nothing.
ResolveSwallowsError(c) == /\ worker[c] = "resolving"
                           /\ worker' = [worker EXCEPT ![c] = "posted"]
                           /\ \E r \in {"addresses", "empty"} :
                                 queue' = [queue EXCEPT ![c] = r]
                           /\ UNCHANGED <<pc, left, wait, slots>>

\* The platform lookup returns and is validated, or raises: one put.
Resolve(c) == /\ worker[c] = "resolving"
              /\ worker' = [worker EXCEPT ![c] = "posted"]
              /\ \E r \in {"addresses", "error"} :
                    queue' = [queue EXCEPT ![c] = r]
              /\ UNCHANGED <<pc, left, wait, slots>>

\* Mutant: the slot is released only after an answer was put.
ReleaseOnSuccess(c) == /\ worker[c] = "posted"
                       /\ queue[c] = "addresses" \/ pc[c] = "returned"
                       /\ worker' = [worker EXCEPT ![c] = "ended"]
                       /\ slots' = slots + 1
                       /\ UNCHANGED <<pc, left, wait, queue>>

\* The finally clause.
Release(c) == /\ worker[c] = "posted"
              /\ worker' = [worker EXCEPT ![c] = "ended"]
              /\ slots' = slots + 1
              /\ UNCHANGED <<pc, left, wait, queue>>
-----------------------------------------------------------------------------
Tick == /\ Prompt => \A c \in Calls : ~Ready(c)
        /\ left' = [c \in Calls |->
                      IF pc[c] \in Active /\ left[c] >= 0
                      THEN left[c] - 1 ELSE left[c]]
        /\ wait' = [c \in Calls |->
                      IF pc[c] \in {"acquiring", "getting"} /\ wait[c] > 0
                      THEN wait[c] - 1 ELSE wait[c]]
        /\ UNCHANGED <<pc, slots, worker, queue>>

Next == \/ \E c \in Calls : Begin(c) \/ Caller(c) \/ Resolve(c) \/ Release(c)
        \/ Tick

\* Time passes and caller threads run; the platform lookup may hang forever.
Fairness == /\ WF_vars(Tick)
            /\ \A c \in Calls : WF_vars(Caller(c))

Spec == Init /\ [][Next]_vars /\ Fairness
-----------------------------------------------------------------------------
(* Properties *)

\* Every variable of the resolver keeps its type: a slot count between none
\* and all, a deadline that is at most one unit past.
TypeOK == /\ pc \in [Calls -> {Idle} \cup Active \cup Ended]
          /\ left \in [Calls -> -1..Timeout]
          /\ wait \in [Calls -> 0..Timeout]
          /\ slots \in 0..MaxSlots
          /\ worker \in [Calls -> {"none", "unstarted", "resolving", "posted", "ended"}]
          /\ queue \in [Calls -> {"empty", "addresses", "error"}]

\* The semaphore and the threads agree: every slot is either free or held by
\* exactly one call or worker, on every path through the acquire, the late
\* deadline check, the failed thread start and the abandoned worker.  A
\* missing release starves the process, a double one lifts the bound.
SlotConservation == slots + Cardinality(Holders) = MaxSlots

\* A worker's put never blocks on its queue of capacity one, and a call waits
\* only on a queue its own worker fills: an item is there only after the
\* worker posted it, and is gone only once the call took it.
AnswerIsOfItsWorker ==
    \A c \in Calls :
        /\ queue[c] # "empty" => worker[c] \in {"posted", "ended"}
        /\ pc[c] = "returned" => /\ worker[c] \in {"posted", "ended"}
                                 /\ queue[c] = "empty"
        /\ pc[c] = "getting" => Alive(worker[c]) \/ queue[c] # "empty"

\* A call is refused before its deadline only because its worker could not
\* start or its lookup failed: neither of the two timed waits ends early.
RefusedEarlyOnlyOnFailure ==
    \A c \in Calls :
        pc[c] = "denied" /\ left[c] > 0 =>
            \/ worker[c] = "unstarted"
            \/ worker[c] \in {"posted", "ended"} /\ queue[c] = "empty"

\* When caller threads are scheduled promptly no call is still undecided
\* after dns_timeout_seconds: the wait for a slot and the wait for the answer
\* share one deadline.
InTime == \A c \in Calls : left[c] >= 0

\* The call and its lookup as the caller of the library sees them.
Status(c) == CASE pc[c] = Idle -> "idle"
               [] pc[c] = "returned" -> "allowed"
               [] pc[c] = "denied" -> "denied"
               [] OTHER -> "pending"

Lookup(c) == CASE worker[c] \in {"none", "unstarted"} -> "none"
               [] worker[c] = "resolving" -> "running"
               [] OTHER -> IF queue[c] = "addresses" \/ pc[c] = "returned"
                           THEN "addresses" ELSE "error"

Promise == INSTANCE ResolverPromise WITH
    MaxLookups <- MaxSlots,
    status <- [c \in Calls |-> Status(c)],
    lookup <- [c \in Calls |-> Lookup(c)]

\* Every behaviour of the resolver is one the promise allows: lookups
\* bounded, abandoned ones included, answers only from a call's own lookup,
\* and every call decided.
KeepsPromise == Promise!Spec
=============================================================================

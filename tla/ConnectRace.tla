---------------------------- MODULE ConnectRace ----------------------------
(***************************************************************************)
(* _PinnedEgressNetworkBackend.connect_tcp of egressweave.transport: one   *)
(* coordinator coroutine races the pinned addresses 1..N of an authority.  *)
(* It creates a child task for the first address at once and for each next *)
(* one Delay later, or as soon as no child is left; each child paces its   *)
(* real start behind a fair lock, connects, and takes the lock again to    *)
(* say that it is no longer active.  The first stream the coordinator      *)
(* observes before the deadline wins.                                      *)
(*                                                                         *)
(* One asyncio event loop runs everything, so a step here is the run of a  *)
(* task from one await to the next.  Time is relative: every timer counts  *)
(* down to 0.  With Lag = FALSE no time passes while a task is ready to    *)
(* run; with Lag = TRUE the loop may be arbitrarily late.                  *)
(***************************************************************************)
EXTENDS Integers, Sequences, FiniteSets, SequencesExt

CONSTANTS
    N,            \* number of pinned addresses
    Delay,        \* _CONNECTION_ATTEMPT_DELAY_SECONDS, in ticks
    Timeouts,     \* the connection timeouts in use, in ticks; Never is None
    Lag,          \* TRUE: the event loop may run late
    MaxCancels    \* how often the coordinator may be cancelled

ASSUME RaceAssumption == /\ N \in Nat \ {0}
                         /\ Delay \in Nat \ {0}
                         /\ Timeouts \subseteq Nat \cup {-1}
                         /\ Lag \in BOOLEAN
                         /\ MaxCancels \in Nat

Addresses == 1..N
NoOne == 0
Never == -1    \* a timer that does not fire

VARIABLES
    coord,      \* where the coordinator is
    verdict,    \* how it ends: "none" until decided
    winner,     \* successful_stream, by address
    next,       \* address_iterator: the next address
    more,       \* more_addresses
    tasks,      \* tasks
    toClose,    \* completed streams the coordinator has to close and has not closed
    closing,    \* the one of them whose aclose runs
    unclosed,   \* streams whose own aclose failed
    cancels,    \* cancellations of the coordinator so far
    left,       \* ticks to the deadline; Never: there is none
    nextIn,     \* ticks to next_attempt_at
    timer,      \* ticks to the timeout of asyncio.wait
    child,      \* where each child task is
    result,     \* each child's result
    cancelled,  \* children with a cancellation not yet delivered
    nap,        \* ticks left of each child's sleep
    stream,     \* each address's stream
    holder,     \* who holds attempt_start_lock, or was handed it
    waiters,    \* who waits for it, first come first served
    active,     \* active_attempts
    since       \* ticks since last_attempt_started_at, up to Delay

closeVars == <<toClose, closing, unclosed>>
coordVars == <<coord, verdict, winner, next, more, tasks, closeVars, cancels>>
clockVars == <<left, nextIn, timer>>
childVars == <<child, result, cancelled, nap, stream>>
lockVars == <<holder, waiters, active, since>>
vars == <<coordVars, clockVars, childVars, lockVars>>

Init == /\ coord = "idle" /\ verdict = "none" /\ winner = NoOne
        /\ next = 1 /\ more = TRUE /\ tasks = {} /\ toClose = {}
        /\ closing = NoOne /\ unclosed = {} /\ cancels = 0
        /\ left \in Timeouts /\ nextIn = 0 /\ timer = Never
        /\ child = [a \in Addresses |-> "unborn"]
        /\ result = [a \in Addresses |-> "none"]
        /\ cancelled = {}
        /\ nap = [a \in Addresses |-> 0]
        /\ stream = [a \in Addresses |-> "none"]
        /\ holder = NoOne /\ waiters = <<>> /\ active = 0 /\ since = Delay

Bounded == left # Never
Expired == left = 0
Done == {a \in tasks : child[a] = "done"}
Connected == {a \in Done : result[a] = "stream"}

\* A task's first step was scheduled before anything the coordinator can be
\* woken by, and the loop's ready queue is first in, first out.
NoneCreated == \A a \in Addresses : child[a] # "created"
-----------------------------------------------------------------------------
(* The coordinator *)

Begin == /\ coord = "idle"
         /\ coord' = "start"
         /\ UNCHANGED <<verdict, winner, next, more, tasks, closeVars, cancels,
                        clockVars, childVars, lockVars>>

\* start_next_attempt behind the deadline check its callers make just before.
StartNext ==
    /\ coord = "start"
    /\ coord' = "head"
    /\ IF next > N \/ Expired
       THEN /\ more' = FALSE
            /\ UNCHANGED <<next, tasks, child, nextIn>>
       ELSE /\ tasks' = tasks \cup {next}
            /\ child' = [child EXCEPT ![next] = "created"]
            /\ next' = next + 1
            /\ nextIn' = Delay
            /\ UNCHANGED more
    /\ UNCHANGED <<verdict, winner, closeVars, cancels, left, timer, result,
                   cancelled, nap, stream, lockVars>>

\* Mutant: the tasks are cancelled but not awaited.
CancelOnly(v) == /\ verdict' = v
                 /\ coord' = "ended"
                 /\ cancelled' = cancelled \cup (tasks \ Done)

\* The finally clause, first half: every task still tracked is cancelled.
CancelTasks(v) ==
    /\ verdict' = v
    /\ coord' = IF tasks \subseteq Done THEN "ended" ELSE "cancelling"
    /\ cancelled' = cancelled \cup (tasks \ Done)

\* Mutant: once every address is started the wait has no timeout.
WaitForNextOnly == IF more THEN nextIn ELSE Never

\* The timeout of asyncio.wait: the next attempt or the deadline.
WaitTimeout == LET t == (IF more THEN {nextIn} ELSE {}) \cup
                        (IF Bounded THEN {left} ELSE {})
               IN  IF t = {} THEN Never ELSE Min(t)

\* The head of the while loop.
LoopEnds == /\ coord = "head"
            /\ tasks = {} \/ Expired
            /\ CancelTasks("denied")
            /\ UNCHANGED <<winner, next, more, tasks, closeVars, cancels, clockVars,
                           child, result, nap, stream, lockVars>>

Wait == /\ coord = "head"
        /\ tasks # {} /\ ~Expired
        /\ coord' = "waiting"
        /\ timer' = WaitTimeout
        /\ UNCHANGED <<verdict, winner, next, more, tasks, closeVars, cancels, left,
                       nextIn, childVars, lockVars>>

\* asyncio.wait returns: a task is done, or its timeout is over.
Woken == /\ coord = "waiting"
         /\ NoneCreated
         /\ Done # {} \/ timer = 0

\* Mutant: past the deadline the completed tasks are dropped.
WakeExpiredDropping ==
    /\ Woken /\ Expired
    /\ tasks' = tasks \ Done
    /\ CancelTasks("denied")
    /\ UNCHANGED <<winner, next, more, closeVars, cancels, clockVars, child, result,
                   nap, stream, lockVars>>

\* The deadline is checked before any result: gather the completed tasks, to
\* close their streams.
WakeExpired ==
    /\ Woken /\ Expired
    /\ tasks' = tasks \ Done
    /\ toClose' = Connected /\ UNCHANGED <<closing, unclosed>>
    /\ IF Done = {}
       THEN CancelTasks("denied")
       ELSE coord' = "gathering" /\ verdict' = "denied" /\ UNCHANGED cancelled
    /\ UNCHANGED <<winner, next, more, cancels, clockVars, child, result, nap,
                   stream, lockVars>>

\* Mutant: the next attempt always waits for its time, even with no task left.
WakeUnsuccessfulLate ==
    /\ Woken /\ ~Expired /\ Connected = {}
    /\ tasks' = tasks \ Done
    /\ coord' = IF more /\ (Done = {} \/ nextIn = 0) THEN "start" ELSE "head"
    /\ UNCHANGED <<verdict, winner, next, more, closeVars, cancels, clockVars,
                   childVars, lockVars>>

\* Nothing completed, or only failures: on to the next attempt when it is due.
WakeUnsuccessful ==
    /\ Woken /\ ~Expired /\ Connected = {}
    /\ tasks' = tasks \ Done
    /\ coord' = IF more /\ (Done = {} \/ tasks' = {} \/ nextIn = 0)
                THEN "start" ELSE "head"
    /\ UNCHANGED <<verdict, winner, next, more, closeVars, cancels, clockVars,
                   childVars, lockVars>>

\* Mutant: of two streams the selected one is closed.
WakeWonClosingIt ==
    /\ Woken /\ ~Expired
    /\ \E w \in Connected :
          /\ winner' = w
          /\ tasks' = tasks \ Done
          /\ stream' = IF Connected = {w} THEN stream ELSE [stream EXCEPT ![w] = "closed"]
          /\ CancelTasks("stream")
    /\ UNCHANGED <<next, more, closeVars, cancels, clockVars, child, result, nap,
                   lockVars>>

\* The first stream in the order of the done set wins; with others the
\* coordinator goes on to close them, one await after the other.
WakeWon ==
    /\ Woken /\ ~Expired
    /\ \E w \in Connected :
          /\ winner' = w
          /\ toClose' = Connected \ {w}
    /\ tasks' = tasks \ Done
    /\ IF toClose' = {}
       THEN CancelTasks("stream") /\ UNCHANGED closing
       ELSE /\ coord' = "closing" /\ verdict' = "stream"
            /\ closing' \in toClose'
            /\ UNCHANGED cancelled
    /\ UNCHANGED <<next, more, unclosed, cancels, clockVars, child, result, nap,
                   stream, lockVars>>

\* The coordinator resumes, from the gather or from a close, with streams left:
\* gather makes a task of the next aclose and the coordinator awaits it.
CloseNext ==
    /\ coord \in {"gathering", "closing"}
    /\ closing = NoOne /\ verdict # "cancelled"
    /\ closing' \in toClose
    /\ coord' = "closing"
    /\ UNCHANGED <<verdict, winner, next, more, tasks, toClose, unclosed, cancels,
                   clockVars, childVars, lockVars>>

\* Mutant: aclose is awaited itself, so one that cancels itself cancels the call.
CloseEndsBare ==
    /\ closing # NoOne
    /\ closing' = NoOne
    /\ toClose' = toClose \ {closing}
    /\ \/ /\ stream' = [stream EXCEPT ![closing] = "closed"]
          /\ UNCHANGED <<unclosed, verdict>>
       \/ /\ unclosed' = unclosed \cup {closing}
          /\ verdict' = "cancelled"
          /\ UNCHANGED stream
    /\ UNCHANGED <<coord, winner, next, more, tasks, cancels, clockVars, child,
                   result, cancelled, nap, lockVars>>

\* An aclose ends: it has closed its stream, or it has failed or cancelled itself,
\* which gather keeps to itself; one that fails before it awaits is one that
\* fails at once.  Cancelled with the coordinator, perhaps before its first
\* step, it may leave the stream as it was.
CloseEnds ==
    /\ closing # NoOne
    /\ closing' = NoOne
    /\ \/ /\ stream' = [stream EXCEPT ![closing] = "closed"]
          /\ toClose' = toClose \ {closing}
          /\ UNCHANGED unclosed
       \/ /\ verdict # "cancelled"
          /\ unclosed' = unclosed \cup {closing}
          /\ toClose' = toClose \ {closing}
          /\ UNCHANGED stream
       \/ /\ verdict = "cancelled"
          /\ UNCHANGED <<stream, toClose, unclosed>>
    /\ UNCHANGED <<coord, verdict, winner, next, more, tasks, cancels, clockVars,
                   child, result, cancelled, nap, lockVars>>

\* The coordinator resumes with nothing left to close, or to its cancellation.
Closed ==
    /\ coord \in {"gathering", "closing"}
    /\ closing = NoOne
    /\ toClose = {} \/ verdict = "cancelled"
    /\ CancelTasks(verdict)
    /\ UNCHANGED <<winner, next, more, tasks, closeVars, cancels, clockVars, child,
                   result, nap, stream, lockVars>>

\* The finally clause, second half: gather returns when every task has ended.
Finish == /\ coord = "cancelling"
          /\ tasks \subseteq Done
          /\ coord' = "ended"
          /\ UNCHANGED <<verdict, winner, next, more, tasks, closeVars, cancels,
                         clockVars, childVars, lockVars>>

\* The task that awaits connect_tcp is cancelled, at any await.  A gather passes
\* it on to what it awaits and ends only when that has ended: a close, or the
\* children of the finally clause, which are cancelled once more.
Interrupt ==
    /\ cancels < MaxCancels
    /\ NoneCreated
    /\ cancels' = cancels + 1
    /\ \/ coord = "waiting" /\ CancelTasks("cancelled")
       \/ /\ coord \in {"gathering", "closing"}
          /\ verdict' = "cancelled"
          /\ UNCHANGED <<coord, cancelled>>
       \/ /\ coord = "cancelling"
          /\ verdict' = "cancelled"
          /\ cancelled' = cancelled \cup (tasks \ Done)
          /\ UNCHANGED coord
    /\ UNCHANGED <<winner, next, more, tasks, closeVars, clockVars, child, result,
                   nap, stream, lockVars>>

Coordinator == \/ StartNext \/ LoopEnds \/ Wait
               \/ WakeExpired \/ WakeUnsuccessful \/ WakeWon
               \/ CloseNext \/ Closed \/ Finish
-----------------------------------------------------------------------------
(* The children: connect_after_stagger *)

\* Mutant: the lock goes to whoever came last.
HandOverToLast(queue) ==
    /\ holder' = IF queue = <<>> THEN NoOne ELSE Last(queue)
    /\ waiters' = IF queue = <<>> THEN <<>> ELSE Front(queue)

\* asyncio.Lock: a release hands the lock to the first waiter.
HandOver(queue) == /\ holder' = IF queue = <<>> THEN NoOne ELSE Head(queue)
                   /\ waiters' = IF queue = <<>> THEN <<>> ELSE Tail(queue)

\* A waiter that is cancelled leaves the queue.
Without(queue, a) == LET places == {i \in DOMAIN queue : queue[i] = a}
                     IN  IF places = {} THEN queue ELSE RemoveAt(queue, Min(places))

\* The lock is let go and the backend's connect_tcp is called.
Launch(a) == /\ child' = [child EXCEPT ![a] = "connecting"]
             /\ active' = active + 1
             /\ since' = 0
             /\ HandOver(waiters)

\* Mutant: no stagger after the lock is taken.
EnterAtOnce(a) == Launch(a) /\ UNCHANGED nap

\* Under the lock: sleep, holding it, until Delay after the last real start.
Enter(a) == IF active > 0 /\ since < Delay
            THEN /\ child' = [child EXCEPT ![a] = "sleeping"]
                 /\ nap' = [nap EXCEPT ![a] = Delay - since]
                 /\ holder' = a
                 /\ UNCHANGED <<waiters, active, since>>
            ELSE Launch(a) /\ UNCHANGED nap

\* The tasks of the loop run one at a time.
MayRun(a) == coord \notin {"start", "head"} /\ a \notin cancelled

FirstStep(a) ==
    /\ MayRun(a) /\ child[a] = "created"
    /\ IF holder = NoOne
       THEN Enter(a)
       ELSE /\ child' = [child EXCEPT ![a] = "queued"]
            /\ waiters' = Append(waiters, a)
            /\ UNCHANGED <<holder, active, since, nap>>
    /\ UNCHANGED <<coordVars, clockVars, result, cancelled, stream>>

Granted(a) ==
    /\ MayRun(a) /\ child[a] = "queued" /\ holder = a
    /\ Enter(a)
    /\ UNCHANGED <<coordVars, clockVars, result, cancelled, stream>>

Awake(a) ==
    /\ MayRun(a) /\ child[a] = "sleeping" /\ nap[a] = 0
    /\ Launch(a)
    /\ UNCHANGED <<coordVars, clockVars, result, cancelled, nap, stream>>

\* Mutant: a child that need not wait forgets to count itself out.
LeaveUncounted(a) == IF holder = NoOne
                     THEN /\ child' = [child EXCEPT ![a] = "done"]
                          /\ UNCHANGED <<active, waiters>>
                     ELSE /\ child' = [child EXCEPT ![a] = "leaving"]
                          /\ waiters' = Append(waiters, a)
                          /\ UNCHANGED active

\* The finally clause: active_attempts goes down under the lock.
Leave(a) == IF holder = NoOne
            THEN /\ child' = [child EXCEPT ![a] = "done"]
                 /\ active' = active - 1
                 /\ UNCHANGED waiters
            ELSE /\ child' = [child EXCEPT ![a] = "leaving"]
                 /\ waiters' = Append(waiters, a)
                 /\ UNCHANGED active

\* The backend's connect_tcp returns a stream or raises.
Connect(a) ==
    /\ MayRun(a) /\ child[a] = "connecting"
    /\ \/ /\ result' = [result EXCEPT ![a] = "stream"]
          /\ stream' = [stream EXCEPT ![a] = "open"]
       \/ /\ result' = [result EXCEPT ![a] = "failed"]
          /\ UNCHANGED stream
    /\ Leave(a)
    /\ UNCHANGED <<coordVars, clockVars, cancelled, nap, holder, since>>

Depart(a) ==
    /\ MayRun(a) /\ child[a] = "leaving" /\ holder = a
    /\ child' = [child EXCEPT ![a] = "done"]
    /\ active' = active - 1
    /\ HandOver(waiters)
    /\ UNCHANGED <<coordVars, clockVars, result, cancelled, nap, stream, since>>

\* CancelledError is thrown at the await the child is in; a task that was
\* only created never runs.  The result that a child in its finally clause
\* had is replaced by the cancellation.
DeliverCancel(a) ==
    /\ coord \notin {"start", "head"}
    /\ a \in cancelled
    /\ cancelled' = cancelled \ {a}
    /\ result' = [result EXCEPT ![a] = "cancelled"]
    /\ \/ child[a] = "connecting" /\ Leave(a) /\ UNCHANGED holder
       \/ /\ child[a] \in {"created", "queued", "sleeping", "leaving"}
          /\ child' = [child EXCEPT ![a] = "done"]
          /\ IF holder = a
             THEN HandOver(waiters)
             ELSE waiters' = Without(waiters, a) /\ UNCHANGED holder
          /\ UNCHANGED active
    /\ UNCHANGED <<coordVars, clockVars, nap, stream, since>>

Child(a) == FirstStep(a) \/ Granted(a) \/ Awake(a) \/ Depart(a) \/ DeliverCancel(a)
-----------------------------------------------------------------------------
\* Some task has a step to take now; a connection attempt or a close need not
\* have one.
Ready == \/ coord \in {"start", "head"}
         \/ coord \in {"gathering", "closing"} /\ closing = NoOne
         \/ coord = "waiting" /\ (Done # {} \/ timer = 0)
         \/ coord = "cancelling" /\ tasks \subseteq Done
         \/ cancelled # {}
         \/ \E a \in Addresses : \/ child[a] = "created"
                                 \/ child[a] \in {"queued", "leaving"} /\ holder = a
                                 \/ child[a] = "sleeping" /\ nap[a] = 0

CountDown(t) == IF t > 0 THEN t - 1 ELSE t

Tick == /\ coord \notin {"idle", "ended"}
        /\ ~Lag => ~Ready
        /\ left' = CountDown(left)
        /\ nextIn' = CountDown(nextIn)
        /\ timer' = CountDown(timer)
        /\ nap' = [a \in Addresses |-> CountDown(nap[a])]
        /\ since' = IF since < Delay THEN since + 1 ELSE since
        /\ UNCHANGED <<coordVars, child, result, cancelled, stream, holder,
                       waiters, active>>

Next == \/ Begin
        \/ Coordinator
        \/ CloseEnds
        \/ Interrupt
        \/ \E a \in Addresses : Child(a) \/ Connect(a)
        \/ Tick

\* Time passes and ready tasks run.  Connection attempts may hang forever,
\* except when cancelled, and so may closes.
Fairness == /\ WF_vars(Tick)
            /\ WF_vars(Coordinator)
            /\ \A a \in Addresses : WF_vars(Child(a))

Spec == Init /\ [][Next]_vars /\ Fairness

\* In addition every connection attempt ends on its own.
AttemptsEnd == \A a \in Addresses : WF_vars(Connect(a))

\* No aclose hangs: the code awaits each without a timeout.
ClosesEnd == WF_vars(CloseEnds)
-----------------------------------------------------------------------------
(* Properties *)

\* What each variable ranges over.
TypeOK ==
    /\ coord \in {"idle", "start", "head", "waiting", "gathering", "closing",
                  "cancelling", "ended"}
    /\ verdict \in {"none", "stream", "denied", "cancelled"}
    /\ winner \in Addresses \cup {NoOne}
    /\ next \in 1..N + 1
    /\ more \in BOOLEAN
    /\ tasks \subseteq Addresses /\ cancelled \subseteq Addresses
    /\ toClose \subseteq Addresses /\ unclosed \subseteq Addresses
    /\ closing \in Addresses \cup {NoOne}
    /\ cancels \in 0..MaxCancels
    /\ left \in Nat \cup {Never} /\ nextIn \in 0..Delay
    /\ timer \in Nat \cup {Never}
    /\ child \in [Addresses -> {"unborn", "created", "queued", "sleeping",
                                "connecting", "leaving", "done"}]
    /\ result \in [Addresses -> {"none", "stream", "failed", "cancelled"}]
    /\ nap \in [Addresses -> 0..Delay]
    /\ stream \in [Addresses -> {"none", "open", "closed"}]
    /\ holder \in Addresses \cup {NoOne}
    /\ waiters \in Seq(Addresses)
    /\ active \in 0..N
    /\ since \in 0..Delay

LaunchOf(a) == child[a] # "connecting" /\ child'[a] = "connecting"

\* While an earlier attempt is pending, the next one really starts at least
\* Delay after the previous real start, however late the tasks run.
PacedStarts ==
    [][\A a \in Addresses :
          LaunchOf(a) /\ (\E b \in Addresses : child[b] = "connecting")
              => since >= Delay]_vars

\* Attempts really start in the resolver's order of preference.
StartsInOrder ==
    [][\A a \in Addresses : LaunchOf(a) =>
          \A b \in 1..a - 1 : child[b] \in {"connecting", "leaving", "done"}]_vars

\* active_attempts counts the children between their start and their last
\* lock section, until the coordinator cancels: a child that finds it at zero
\* may skip the stagger, so neither a lost nor a stale count is harmless.
ActiveCounts ==
    verdict = "none" =>
        active = Cardinality({a \in Addresses : child[a] \in {"connecting", "leaving"}})

\* A denial before the deadline means that every address was tried and
\* failed: no address is skipped and no stream that connected is ignored.
DeniedForAReason ==
    coord = "ended" /\ verdict = "denied" =>
        Expired \/ \A a \in Addresses : result[a] = "failed"

\* What the coordinator has decided stands: a stream once selected is returned,
\* a denial is raised, whatever the closes in between do, and a cancellation
\* that arrives before the end is never swallowed by them.
DecisionStands ==
    coord = "ended" =>
        verdict = IF cancels > 0 THEN "cancelled"
                  ELSE IF winner # NoOne THEN "stream" ELSE "denied"

\* When connect_tcp ends, however it ends, no task of it is left running and
\* nobody holds or awaits its lock.
NothingLeftRunning ==
    coord = "ended" =>
        /\ \A a \in Addresses : child[a] \in {"unborn", "done"}
        /\ holder = NoOne /\ waiters = <<>>

\* Every stream the coordinator has observed is the one it returns, was closed,
\* or failed to close by its own fault.  A cancellation costs no more than what
\* was not closed yet, the stream being closed included, and the selected one.
ObservedStreamsAccountedFor ==
    coord = "ended" =>
        \A a \in Addresses \ tasks : stream[a] = "open" =>
            \/ verdict = "stream" /\ a = winner
            \/ verdict = "cancelled" /\ a \in toClose \cup {winner}
            \/ a \in unclosed

\* What PRD.md asks for: when connect_tcp ends uncancelled and no close failed,
\* every stream that connected is returned or closed.  A task that completes while the
\* coordinator awaits a close or the gather is discarded with its stream.
StreamsAccountedFor ==
    coord = "ended" /\ cancels = 0 /\ unclosed = {} =>
        \A a \in Addresses : stream[a] = "open" => verdict = "stream" /\ a = winner

\* connect_tcp ends if no close hangs: with a deadline although attempts may
\* hang, and without one if every attempt ends.
RaceEnds ==
    ClosesEnd => /\ coord # "idle" /\ Bounded ~> coord = "ended"
                 /\ AttemptsEnd => (coord # "idle" ~> coord = "ended")

Promise == INSTANCE PinnedConnect WITH
    Pinned <- Addresses,
    phase <- CASE coord = "idle" -> "idle"
               [] coord = "ended" -> IF verdict = "stream" THEN "returned" ELSE verdict
               [] OTHER -> "connecting",
    opened <- {a \in Addresses : stream[a] # "none"},
    closed <- {a \in Addresses : stream[a] = "closed"},
    chosen <- IF coord = "ended" /\ verdict = "stream" THEN {winner} ELSE {}

\* The race keeps what PinnedConnect promises: nothing connects once it has
\* ended, and the stream it returns is open and was never closed.  RaceEnds
\* says when it ends.
KeepsPromise == Promise!SafeSpec
=============================================================================

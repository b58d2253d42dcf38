-------------------------- MODULE DnsResolverAsync --------------------------
(***************************************************************************)
(* _resolve_all_global_addresses_async: the same synchronous resolver, run *)
(* by asyncio.to_thread on the event loop's default executor.  The         *)
(* executor is the interpreter's: PoolSize threads that take work items    *)
(* first in, first out.  A coroutine that is cancelled stops waiting; its  *)
(* work item is skipped if no thread has taken it, and runs on to its end, *)
(* unobserved, if one has.                                                 *)
(***************************************************************************)
EXTENDS DnsResolver, Sequences

CONSTANT PoolSize   \* threads of the default executor

ASSUME PoolAssumption == PoolSize \in Nat \ {0}

VARIABLES
    task,       \* per call: the awaiting coroutine
    executor,   \* work items no thread has taken yet
    waited      \* ticks each coroutine has been waiting, up to Timeout + 1

asyncVars == <<pc, left, wait, slots, worker, queue, task, executor, waited>>

Waiting == {c \in Calls : task[c] \in {"queued", "running"}}
BusyThreads == {c \in Calls : pc[c] \in Active}

AsyncInit == /\ Init
             /\ task = [c \in Calls |-> "none"]
             /\ executor = <<>>
             /\ waited = [c \in Calls |-> 0]
-----------------------------------------------------------------------------
\* await asyncio.to_thread(...)
Submit(c) == /\ task[c] = "none"
             /\ task' = [task EXCEPT ![c] = "queued"]
             /\ executor' = Append(executor, c)
             /\ UNCHANGED <<vars, waited>>

CanPickUp == executor # <<>> /\ Cardinality(BusyThreads) < PoolSize

\* A free thread takes the oldest item: it runs it, or drops a cancelled one.
PickUp ==
    /\ CanPickUp
    /\ executor' = Tail(executor)
    /\ LET c == Head(executor)
       IN  IF task[c] = "cancelled"
           THEN UNCHANGED <<vars, task>>
           ELSE Begin(c) /\ task' = [task EXCEPT ![c] = "running"]
    /\ UNCHANGED waited

\* The coroutine resumes with the call's result or error.
Resume(c) == /\ task[c] = "running"
             /\ pc[c] \in Ended
             /\ task' = [task EXCEPT ![c] = "done"]
             /\ UNCHANGED <<vars, executor, waited>>

\* The coroutine is cancelled by its caller.
Cancel(c) == /\ c \in Waiting
             /\ task' = [task EXCEPT ![c] = "cancelled"]
             /\ UNCHANGED <<vars, executor, waited>>

ThreadStep(c) == /\ Caller(c) \/ Resolve(c) \/ Release(c)
                 /\ UNCHANGED <<task, executor, waited>>

AsyncTick == /\ Tick
             /\ Prompt => /\ ~CanPickUp
                          /\ \A c \in Waiting : task[c] = "running" => pc[c] \notin Ended
             /\ waited' = [c \in Calls |->
                             IF c \in Waiting /\ waited[c] <= Timeout
                             THEN waited[c] + 1 ELSE waited[c]]
             /\ UNCHANGED <<task, executor>>

AsyncNext == \/ \E c \in Calls :
                   Submit(c) \/ Resume(c) \/ Cancel(c) \/ ThreadStep(c)
             \/ PickUp
             \/ AsyncTick

\* Time passes, the event loop, the executor and its threads run; lookups
\* need not return.
AsyncSpec ==
    /\ AsyncInit
    /\ [][AsyncNext]_asyncVars
    /\ WF_asyncVars(AsyncTick)
    /\ WF_asyncVars(PickUp)
    /\ \A c \in Calls :
          /\ WF_asyncVars(Resume(c))
          /\ WF_asyncVars(Caller(c) /\ UNCHANGED <<task, executor, waited>>)

\* In addition every platform lookup returns, and its worker runs to its end.
LookupsReturn ==
    \A c \in Calls :
        /\ WF_asyncVars(Resolve(c) /\ UNCHANGED <<task, executor, waited>>)
        /\ WF_asyncVars(Release(c) /\ UNCHANGED <<task, executor, waited>>)
-----------------------------------------------------------------------------
(* Properties *)

\* An awaiting coroutine is never kept longer than dns_timeout_seconds: what
\* the README says of synchronous and asynchronous validation alike.  It
\* fails when items queue for a thread, since the thread takes the deadline.
AwaitInTime == \A c \in Waiting : waited[c] <= Timeout

\* Every await ends although lookups may hang: each hung call frees its
\* executor thread at its own deadline, so the queue drains.
EveryAwaitEnds == \A c \in Calls : c \in Waiting ~> c \notin Waiting

\* If lookups return, the slots of abandoned workers come back: neither a call
\* that was refused nor one whose coroutine was cancelled keeps its slot.
SlotsComeBack ==
    LookupsReturn =>
        \A c \in Calls :
            pc[c] = "denied" \/ task[c] = "cancelled"
                ~> c \notin Holders /\ pc[c] \notin Active
=============================================================================

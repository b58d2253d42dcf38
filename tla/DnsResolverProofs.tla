------------------------- MODULE DnsResolverProofs -------------------------
(***************************************************************************)
(* Proofs about DnsResolver, for every finite set of calls, every number   *)
(* of slots and every timeout: type correctness and the conservation of    *)
(* the lookup slots, with the bound on running lookups it implies; then    *)
(* answers stay with their calls, calls are neither refused early nor, on  *)
(* promptly scheduled threads, kept late, and every step of the resolver   *)
(* is a step of ResolverPromise.  All of it carries over to the calls that *)
(* DnsResolverAsync runs on the default executor, where in addition no     *)
(* work item is lost and, with a thread for every call, no await is late.  *)
(***************************************************************************)
EXTENDS DnsResolverAsync, FiniteSetTheorems, SequenceTheorems, TLAPS

\* A call has no worker before its thread starts one.
NoWorkerYet == \A c \in Calls :
    pc[c] \in {Idle, "entered", "acquiring", "acquired", "starting"} =>
        worker[c] = "none"

\* The strengthening that makes SlotConservation inductive: without
\* NoWorkerYet, a call that acquires a slot might hold one already.
IInv == TypeOK /\ NoWorkerYet /\ SlotConservation
-----------------------------------------------------------------------------
\* Every set of calls is finite and has a size.
LEMMA CallSets == ASSUME NEW S \in SUBSET Calls
                  PROVE  IsFiniteSet(S) /\ Cardinality(S) \in Nat
  BY CallsAssumption, FS_Subset, FS_CardinalityType

\* One more holder is one more in the count.
LEMMA OneMore == ASSUME NEW S \in SUBSET Calls, NEW c \in Calls, c \notin S
                 PROVE  Cardinality(S \cup {c}) = Cardinality(S) + 1
  BY CallSets, FS_AddElement

\* One holder less is one less in the count.
LEMMA OneLess == ASSUME NEW S \in SUBSET Calls, NEW c \in S
                 PROVE  Cardinality(S \ {c}) = Cardinality(S) - 1
  BY CallSets, FS_RemoveElement

\* While someone holds a slot the semaphore is below its bound, so that a
\* release never exceeds it.
LEMMA RoomToRelease == ASSUME SlotConservation, slots \in 0..MaxSlots,
                              NEW c \in Holders
                       PROVE  slots + 1 \in 0..MaxSlots
<1>1. Holders \in SUBSET Calls
  BY DEF Holders
<1>2. Cardinality(Holders \ {c}) = Cardinality(Holders) - 1
  BY <1>1, OneLess
<1>3. /\ Cardinality(Holders \ {c}) \in Nat
      /\ Cardinality(Holders) \in Nat
  BY <1>1, CallSets
<1> QED
  BY <1>2, <1>3, SlotsAssumption DEF SlotConservation
-----------------------------------------------------------------------------
\* The initial state is well typed, no call has a worker and all slots are free.
LEMMA InitIInv == Init => IInv
<1> SUFFICES ASSUME Init PROVE IInv
  OBVIOUS
<1>1. TypeOK
  BY SlotsAssumption, TimeoutAssumption DEF Init, TypeOK, Idle, Active, Ended
<1>2. NoWorkerYet
  BY DEF Init, NoWorkerYet
<1>3. Holders = {}
  BY DEF Init, Holders, Alive, Idle
<1>4. SlotConservation
  BY <1>3, FS_EmptySet, SlotsAssumption DEF Init, SlotConservation
<1> QED
  BY <1>1, <1>2, <1>4 DEF IInv

\* A step keeps every variable in its type; the two releases need the room
\* that SlotConservation guarantees.
LEMMA NextTypeOK == IInv /\ [Next]_vars => TypeOK'
<1> SUFFICES ASSUME TypeOK, NoWorkerYet, SlotConservation, [Next]_vars
             PROVE  TypeOK'
  BY DEF IInv
<1> USE DEF TypeOK, Idle, Active, Ended
<1>1. ASSUME NEW c \in Calls, Begin(c) PROVE TypeOK'
  BY <1>1, TimeoutAssumption DEF Begin, Goto
<1>2. ASSUME NEW c \in Calls, Caller(c) PROVE TypeOK'
  <2>1. CASE CallAcquire(c)
    BY <2>1, TimeoutAssumption DEF CallAcquire, Goto
  <2>2. CASE Acquire(c)
    BY <2>2, SlotsAssumption, TimeoutAssumption DEF Acquire, Goto
  <2>3. CASE AcquireTimesOut(c)
    BY <2>3 DEF AcquireTimesOut, Goto
  <2>4. CASE Expire(c)
    <3>1. c \in Holders
      BY <2>4 DEF Expire, Holders
    <3> QED
      BY <2>4, <3>1, RoomToRelease DEF Expire, Goto
  <2>5. CASE Proceed(c)
    BY <2>5 DEF Proceed, Goto
  <2>6. CASE StartWorker(c)
    BY <2>6 DEF StartWorker, Goto
  <2>7. CASE StartFails(c)
    <3>1. c \in Holders
      BY <2>7 DEF StartFails, Holders
    <3> QED
      BY <2>7, <3>1, RoomToRelease DEF StartFails, Goto
  <2>8. CASE CallGet(c)
    BY <2>8, TimeoutAssumption DEF CallGet, Goto
  <2>9. CASE Get(c)
    BY <2>9, TimeoutAssumption DEF Get, Goto
  <2>10. CASE GetTimesOut(c)
    BY <2>10 DEF GetTimesOut, Goto
  <2> QED
    BY <1>2, <2>1, <2>2, <2>3, <2>4, <2>5, <2>6, <2>7, <2>8, <2>9, <2>10 DEF Caller
<1>3. ASSUME NEW c \in Calls, Resolve(c) PROVE TypeOK'
  BY <1>3 DEF Resolve
<1>4. ASSUME NEW c \in Calls, Release(c) PROVE TypeOK'
  <2>1. c \in Holders
    BY <1>4 DEF Release, Holders, Alive
  <2> QED
    BY <1>4, <2>1, RoomToRelease DEF Release
<1>5. CASE Tick
  BY <1>5, TimeoutAssumption DEF Tick
<1>6. CASE UNCHANGED vars
  BY <1>6 DEF vars
<1> QED
  BY <1>1, <1>2, <1>3, <1>4, <1>5, <1>6 DEF Next

\* Only StartWorker and StartFails give a call a worker, and they move the
\* call on.
LEMMA NextNoWorkerYet == IInv /\ [Next]_vars => NoWorkerYet'
<1> SUFFICES ASSUME TypeOK, NoWorkerYet, [Next]_vars
             PROVE  NoWorkerYet'
  BY DEF IInv
<1> USE DEF NoWorkerYet, TypeOK, Idle
<1>1. ASSUME NEW c \in Calls, Begin(c) PROVE NoWorkerYet'
  BY <1>1 DEF Begin, Goto
<1>2. ASSUME NEW c \in Calls, Caller(c) PROVE NoWorkerYet'
  BY <1>2 DEF Caller, CallAcquire, Acquire, AcquireTimesOut, Expire, Proceed,
              StartWorker, StartFails, CallGet, Get, GetTimesOut, Goto
<1>3. ASSUME NEW c \in Calls, Resolve(c) PROVE NoWorkerYet'
  BY <1>3 DEF Resolve
<1>4. ASSUME NEW c \in Calls, Release(c) PROVE NoWorkerYet'
  BY <1>4 DEF Release
<1>5. CASE Tick
  BY <1>5 DEF Tick
<1>6. CASE UNCHANGED vars
  BY <1>6 DEF vars
<1> QED
  BY <1>1, <1>2, <1>3, <1>4, <1>5, <1>6 DEF Next
-----------------------------------------------------------------------------
\* A step that leaves the holders and the count alone conserves the slots.
LEMMA SameHolders == ASSUME SlotConservation, Holders' = Holders, slots' = slots
                     PROVE  SlotConservation'
  BY DEF SlotConservation

\* A step that takes a slot for a new holder conserves the slots.
LEMMA TakeSlot == ASSUME SlotConservation, NEW c \in Calls, c \notin Holders,
                         Holders' = Holders \cup {c},
                         slots \in Nat, slots' = slots - 1
                  PROVE  SlotConservation'
<1>1. Holders \in SUBSET Calls
  BY DEF Holders
<1>2. Cardinality(Holders') = Cardinality(Holders) + 1
  BY <1>1, OneMore
<1> QED
  BY <1>1, <1>2, CallSets, SlotsAssumption DEF SlotConservation

\* A step that gives a holder's slot back conserves the slots.
LEMMA GiveSlotBack == ASSUME SlotConservation, NEW c \in Holders,
                             Holders' = Holders \ {c},
                             slots \in Nat, slots' = slots + 1
                      PROVE  SlotConservation'
<1>1. Holders \in SUBSET Calls
  BY DEF Holders
<1>2. Cardinality(Holders') = Cardinality(Holders) - 1
  BY <1>1, OneLess
<1> QED
  BY <1>1, <1>2, CallSets, SlotsAssumption DEF SlotConservation

\* Every action either leaves holders and count alone, or changes both by the
\* same one call.
LEMMA NextSlotConservation == IInv /\ [Next]_vars => SlotConservation'
<1> SUFFICES ASSUME TypeOK, NoWorkerYet, SlotConservation, [Next]_vars
             PROVE  SlotConservation'
  BY DEF IInv
<1>0. slots \in Nat
  BY SlotsAssumption DEF TypeOK
<1> USE DEF TypeOK, Alive, Holders
<1>1. ASSUME NEW c \in Calls, Begin(c) PROVE SlotConservation'
  BY <1>1, SameHolders DEF Begin, Goto, Idle
<1>2. ASSUME NEW c \in Calls, Caller(c) PROVE SlotConservation'
  <2>1. CASE CallAcquire(c)
    BY <2>1, SameHolders DEF CallAcquire, Goto
  <2>2. CASE Acquire(c)
    <3>1. c \notin Holders
      BY <2>2 DEF Acquire, NoWorkerYet
    <3>2. Holders' = Holders \cup {c}
      BY <2>2 DEF Acquire, Goto
    <3> QED
      BY <2>2, <3>1, <3>2, <1>0, TakeSlot DEF Acquire
  <2>3. CASE AcquireTimesOut(c)
    BY <2>3, SameHolders DEF AcquireTimesOut, Goto
  <2>4. CASE Expire(c)
    <3>1. c \in Holders
      BY <2>4 DEF Expire
    <3>2. Holders' = Holders \ {c}
      BY <2>4 DEF Expire, Goto, NoWorkerYet
    <3> QED
      BY <2>4, <3>1, <3>2, <1>0, GiveSlotBack DEF Expire
  <2>5. CASE Proceed(c)
    BY <2>5, SameHolders DEF Proceed, Goto
  <2>6. CASE StartWorker(c)
    BY <2>6, SameHolders DEF StartWorker, Goto
  <2>7. CASE StartFails(c)
    <3>1. c \in Holders
      BY <2>7 DEF StartFails
    <3>2. Holders' = Holders \ {c}
      BY <2>7 DEF StartFails, Goto
    <3> QED
      BY <2>7, <3>1, <3>2, <1>0, GiveSlotBack DEF StartFails
  <2>8. CASE CallGet(c)
    BY <2>8, SameHolders DEF CallGet, Goto
  <2>9. CASE Get(c)
    BY <2>9, SameHolders DEF Get, Goto
  <2>10. CASE GetTimesOut(c)
    BY <2>10, SameHolders DEF GetTimesOut, Goto
  <2> QED
    BY <1>2, <2>1, <2>2, <2>3, <2>4, <2>5, <2>6, <2>7, <2>8, <2>9, <2>10 DEF Caller
<1>3. ASSUME NEW c \in Calls, Resolve(c) PROVE SlotConservation'
  BY <1>3, SameHolders DEF Resolve
<1>4. ASSUME NEW c \in Calls, Release(c) PROVE SlotConservation'
  <2>1. c \in Holders
    BY <1>4 DEF Release
  <2>2. Holders' = Holders \ {c}
    BY <1>4 DEF Release, NoWorkerYet
  <2> QED
    BY <1>4, <2>1, <2>2, <1>0, GiveSlotBack DEF Release
<1>5. CASE Tick
  BY <1>5, SameHolders DEF Tick
<1>6. CASE UNCHANGED vars
  BY <1>6, SameHolders DEF vars
<1> QED
  BY <1>1, <1>2, <1>3, <1>4, <1>5, <1>6 DEF Next
-----------------------------------------------------------------------------
\* IInv is an invariant of the resolver.
THEOREM Inductive == Spec => []IInv
<1>1. IInv /\ [Next]_vars => IInv'
  BY NextTypeOK, NextNoWorkerYet, NextSlotConservation DEF IInv
<1> QED
  BY <1>1, InitIInv, PTL DEF Spec

\* Type correctness: in particular the semaphore never exceeds its bound, so
\* BoundedSemaphore.release never raises in a caller or in a worker.
THEOREM TypeCorrect == Spec => []TypeOK
<1>1. IInv => TypeOK
  BY DEF IInv
<1> QED
  BY <1>1, Inductive, PTL

\* Slots are neither lost nor duplicated, for every number of calls, slots
\* and ticks, and wherever calls give up.
THEOREM SlotsConserved == Spec => []SlotConservation
<1>1. IInv => SlotConservation
  BY DEF IInv
<1> QED
  BY <1>1, Inductive, PTL

\* No more platform lookups run than _MAX_CONCURRENT_DNS_RESOLUTIONS, those
\* of calls that gave up included.
LookupsBounded == Cardinality({c \in Calls : worker[c] = "resolving"}) <= MaxSlots

\* The semaphore bounds the running lookups for every number of calls.
THEOREM BoundedLookups == Spec => []LookupsBounded
<1>1. IInv => LookupsBounded
  <2> SUFFICES ASSUME TypeOK, SlotConservation PROVE LookupsBounded
    BY DEF IInv
  <2> DEFINE R == {c \in Calls : worker[c] = "resolving"}
  <2>1. R \subseteq Holders /\ Holders \in SUBSET Calls
    BY DEF Holders, Alive
  <2>2. Cardinality(R) <= Cardinality(Holders)
    BY <2>1, CallSets, FS_Subset
  <2>3. Cardinality(R) \in Nat /\ Cardinality(Holders) \in Nat
    BY <2>1, CallSets
  <2> QED
    BY <2>2, <2>3, SlotsAssumption DEF LookupsBounded, SlotConservation, TypeOK
<1> QED
  BY <1>1, Inductive, PTL
-----------------------------------------------------------------------------
Over(c) == worker[c] \in {"posted", "ended"}

\* An answer waits in the queue, or was taken, only after the worker's put;
\* and the worker of a waiting call has put it, or has still to.
AnswerInv == \A c \in Calls :
    /\ queue[c] # "empty" => Over(c)
    /\ pc[c] \in {"started", "getting"} =>
          worker[c] = "resolving" \/ (Over(c) /\ queue[c] # "empty")
    /\ pc[c] = "returned" => Over(c) /\ queue[c] = "empty"

\* The two timed waits last at least as long as the deadline is away, and,
\* with prompt threads, exactly as long.
TimeInv == \A c \in Calls :
    /\ pc[c] \in {"acquiring", "getting"} => left[c] <= wait[c]
    /\ Prompt => /\ left[c] >= 0
                 /\ pc[c] = "entered" => left[c] = Timeout
                 /\ pc[c] \in {"acquiring", "getting"} => wait[c] = left[c]

FullInv == IInv /\ AnswerInv /\ TimeInv /\ RefusedEarlyOnlyOnFailure
-----------------------------------------------------------------------------
\* Nothing is asked and nothing is answered yet.
LEMMA InitFullInv == Init => FullInv
<1> SUFFICES ASSUME Init PROVE FullInv
  OBVIOUS
<1>1. IInv
  BY InitIInv
<1>2. AnswerInv /\ RefusedEarlyOnlyOnFailure
  BY DEF Init, AnswerInv, RefusedEarlyOnlyOnFailure, Idle
<1>3. TimeInv
  BY TimeoutAssumption DEF Init, TimeInv, Idle
<1> QED
  BY <1>1, <1>2, <1>3 DEF FullInv

\* Resolve fills the queue of its own call, Get empties it, and no other
\* step touches queues.
LEMMA NextAnswerInv == FullInv /\ [Next]_vars => AnswerInv'
<1> SUFFICES ASSUME TypeOK, NoWorkerYet, AnswerInv, [Next]_vars
             PROVE  AnswerInv'
  BY DEF FullInv, IInv
<1> USE DEF AnswerInv, TypeOK, Over, Idle
<1>1. ASSUME NEW c \in Calls, Begin(c) PROVE AnswerInv'
  BY <1>1 DEF Begin, Goto
<1>2. ASSUME NEW c \in Calls, Caller(c) PROVE AnswerInv'
  <2>1. CASE CallAcquire(c) \/ Acquire(c) \/ AcquireTimesOut(c)
    BY <2>1 DEF CallAcquire, Acquire, AcquireTimesOut, Goto
  <2>2. CASE Expire(c) \/ Proceed(c)
    BY <2>2 DEF Expire, Proceed, Goto
  <2>3. CASE StartWorker(c) \/ StartFails(c)
    BY <2>3 DEF StartWorker, StartFails, Goto, NoWorkerYet
  <2>4. CASE CallGet(c) \/ GetTimesOut(c)
    BY <2>4 DEF CallGet, GetTimesOut, Goto
  <2>5. CASE Get(c)
    BY <2>5 DEF Get, Goto
  <2> QED
    BY <1>2, <2>1, <2>2, <2>3, <2>4, <2>5 DEF Caller
<1>3. ASSUME NEW c \in Calls, Resolve(c) PROVE AnswerInv'
  BY <1>3 DEF Resolve
<1>4. ASSUME NEW c \in Calls, Release(c) PROVE AnswerInv'
  BY <1>4 DEF Release
<1>5. CASE Tick
  BY <1>5 DEF Tick
<1>6. CASE UNCHANGED vars
  BY <1>6 DEF vars
<1> QED
  BY <1>1, <1>2, <1>3, <1>4, <1>5, <1>6 DEF Next

\* A prompt tick finds no call whose wait is over.
LEMMA PromptTick == ASSUME FullInv, Tick, Prompt, NEW c \in Calls,
                           pc[c] \in Active
                    PROVE  /\ pc[c] \in {"acquiring", "getting"}
                           /\ wait[c] > 0
<1>1. ~Ready(c)
  BY DEF Tick
<1>2. slots \in Nat /\ wait[c] \in Nat
  BY SlotsAssumption, TimeoutAssumption DEF FullInv, IInv, TypeOK
<1> QED
  BY <1>1, <1>2 DEF Ready, Active

\* The waits start with the deadline in view, and time passes alike for both.
LEMMA NextTimeInv == FullInv /\ [Next]_vars => TimeInv'
<1> SUFFICES ASSUME FullInv, [Next]_vars PROVE TimeInv'
  OBVIOUS
<1>0. TypeOK /\ TimeInv
  BY DEF FullInv, IInv
<1> USE <1>0, TimeoutAssumption DEF TimeInv, TypeOK, Idle
<1>1. ASSUME NEW c \in Calls, Begin(c) PROVE TimeInv'
  BY <1>1 DEF Begin, Goto
<1>2. ASSUME NEW c \in Calls, Caller(c) PROVE TimeInv'
  <2>1. CASE CallAcquire(c)
    BY <2>1 DEF CallAcquire, Goto
  <2>2. CASE Acquire(c) \/ AcquireTimesOut(c) \/ Expire(c) \/ Proceed(c)
    BY <2>2 DEF Acquire, AcquireTimesOut, Expire, Proceed, Goto
  <2>3. CASE StartWorker(c) \/ StartFails(c)
    BY <2>3 DEF StartWorker, StartFails, Goto
  <2>4. CASE CallGet(c)
    BY <2>4 DEF CallGet, Goto
  <2>5. CASE Get(c) \/ GetTimesOut(c)
    BY <2>5 DEF Get, GetTimesOut, Goto
  <2> QED
    BY <1>2, <2>1, <2>2, <2>3, <2>4, <2>5 DEF Caller
<1>3. ASSUME NEW c \in Calls, Resolve(c) PROVE TimeInv'
  BY <1>3 DEF Resolve
<1>4. ASSUME NEW c \in Calls, Release(c) PROVE TimeInv'
  BY <1>4 DEF Release
<1>5. CASE Tick
  <2> SUFFICES ASSUME NEW c \in Calls
               PROVE  /\ pc'[c] \in {"acquiring", "getting"} => left'[c] <= wait'[c]
                      /\ Prompt =>
                            /\ left'[c] >= 0
                            /\ pc'[c] = "entered" => left'[c] = Timeout
                            /\ pc'[c] \in {"acquiring", "getting"} =>
                                  wait'[c] = left'[c]
    OBVIOUS
  <2>1. /\ pc' = pc
        /\ left'[c] = IF pc[c] \in Active /\ left[c] >= 0
                      THEN left[c] - 1 ELSE left[c]
        /\ wait'[c] = IF pc[c] \in {"acquiring", "getting"} /\ wait[c] > 0
                      THEN wait[c] - 1 ELSE wait[c]
    BY <1>5 DEF Tick
  <2>2. left[c] \in Int /\ left[c] >= -1 /\ wait[c] \in Nat
    OBVIOUS
  <2>3. pc[c] \in {"acquiring", "getting"} => left'[c] <= wait'[c]
    BY <2>1, <2>2 DEF Active
  <2>4. CASE Prompt /\ pc[c] \in Active
    <3>1. pc[c] \in {"acquiring", "getting"} /\ wait[c] > 0
      BY <1>5, <2>4, PromptTick
    <3>2. wait[c] = left[c]
      BY <2>4, <3>1
    <3> QED
      BY <2>1, <2>2, <2>3, <3>1, <3>2
  <2>5. CASE Prompt /\ pc[c] \notin Active
    BY <2>1, <2>3, <2>5 DEF Active
  <2> QED
    BY <2>1, <2>3, <2>4, <2>5
<1>6. CASE UNCHANGED vars
  BY <1>6 DEF vars
<1> QED
  BY <1>1, <1>2, <1>3, <1>4, <1>5, <1>6 DEF Next

\* A wait that times out has used up the deadline.
LEMMA NextRefused == FullInv /\ [Next]_vars => RefusedEarlyOnlyOnFailure'
<1> SUFFICES ASSUME FullInv, [Next]_vars PROVE RefusedEarlyOnlyOnFailure'
  OBVIOUS
<1>0. TypeOK /\ AnswerInv /\ TimeInv /\ RefusedEarlyOnlyOnFailure
  BY DEF FullInv, IInv
<1> USE <1>0, TimeoutAssumption
    DEF RefusedEarlyOnlyOnFailure, TypeOK, Idle
<1>1. ASSUME NEW c \in Calls, Begin(c) PROVE RefusedEarlyOnlyOnFailure'
  BY <1>1 DEF Begin, Goto
<1>2. ASSUME NEW c \in Calls, Caller(c) PROVE RefusedEarlyOnlyOnFailure'
  <2>1. CASE CallAcquire(c) \/ Acquire(c) \/ Proceed(c) \/ Expire(c)
    BY <2>1 DEF CallAcquire, Acquire, Proceed, Expire, Goto
  <2>2. CASE AcquireTimesOut(c) \/ GetTimesOut(c)
    BY <2>2 DEF AcquireTimesOut, GetTimesOut, Goto, TimeInv
  <2>3. CASE StartWorker(c) \/ StartFails(c) \/ CallGet(c)
    BY <2>3 DEF StartWorker, StartFails, CallGet, Goto
  <2>4. CASE Get(c)
    BY <2>4 DEF Get, Goto, AnswerInv, Over
  <2> QED
    BY <1>2, <2>1, <2>2, <2>3, <2>4 DEF Caller
<1>3. ASSUME NEW c \in Calls, Resolve(c) PROVE RefusedEarlyOnlyOnFailure'
  BY <1>3 DEF Resolve
<1>4. ASSUME NEW c \in Calls, Release(c) PROVE RefusedEarlyOnlyOnFailure'
  BY <1>4 DEF Release
<1>5. CASE Tick
  BY <1>5 DEF Tick, Active
<1>6. CASE UNCHANGED vars
  BY <1>6 DEF vars
<1> QED
  BY <1>1, <1>2, <1>3, <1>4, <1>5, <1>6 DEF Next

\* Every step of the resolver preserves FullInv.
LEMMA NextFullInv == FullInv /\ [Next]_vars => FullInv'
<1>1. IInv /\ [Next]_vars => IInv'
  BY NextTypeOK, NextNoWorkerYet, NextSlotConservation DEF IInv
<1> QED
  BY <1>1, NextAnswerInv, NextTimeInv, NextRefused DEF FullInv

\* FullInv is an invariant of the resolver.
THEOREM FullInductive == Spec => []FullInv
  BY InitFullInv, NextFullInv, PTL DEF Spec

\* A call that waits has a worker that will answer it or has, an answer is
\* only ever the worker's, and the queue of capacity one never blocks a put.
THEOREM AnswersOwned == Spec => []AnswerIsOfItsWorker
<1>1. FullInv => AnswerIsOfItsWorker
  BY DEF FullInv, AnswerInv, AnswerIsOfItsWorker, Over, Alive
<1> QED
  BY <1>1, FullInductive, PTL

\* No call is refused before its deadline unless its lookup or thread failed.
THEOREM NotRefusedEarly == Spec => []RefusedEarlyOnlyOnFailure
<1>1. FullInv => RefusedEarlyOnlyOnFailure
  BY DEF FullInv
<1> QED
  BY <1>1, FullInductive, PTL

\* On promptly scheduled threads no call outlasts dns_timeout_seconds, for
\* every number of calls that compete for the slots.
THEOREM NotKeptLate == ASSUME Prompt PROVE Spec => []InTime
<1>1. FullInv => InTime
  BY DEF FullInv, TimeInv, InTime
<1> QED
  BY <1>1, FullInductive, PTL
-----------------------------------------------------------------------------
\* Where a worker starts, fewer lookups run than there are slots: the call's
\* own slot is not yet used by a lookup.
LEMMA RoomForLookup == ASSUME IInv, NEW c \in Calls, StartWorker(c)
                       PROVE  Cardinality({d \in Calls : worker[d] = "resolving"})
                                 < MaxSlots
<1> DEFINE R == {d \in Calls : worker[d] = "resolving"}
<1>1. c \in Holders /\ c \notin R
  BY DEF IInv, NoWorkerYet, StartWorker, Holders
<1>2. /\ Holders \in SUBSET Calls
      /\ R \subseteq Holders \ {c}
  BY <1>1 DEF Holders, Alive
<1>3. Cardinality(Holders \ {c}) = Cardinality(Holders) - 1
  BY <1>1, <1>2, OneLess
<1>4. Cardinality(R) <= Cardinality(Holders \ {c})
  BY <1>2, CallSets, FS_Subset
<1>5. /\ Cardinality(R) \in Nat
      /\ Cardinality(Holders) \in Nat
  BY <1>2, CallSets
<1> QED
  BY <1>3, <1>4, <1>5, SlotsAssumption DEF IInv, SlotConservation, TypeOK

\* The instance counts as this module does.
LEMMA SameCardinality == ASSUME NEW S PROVE Promise!Cardinality(S) = Cardinality(S)
  BY Zenon DEF Promise!Cardinality, Cardinality

\* The initial states correspond.
LEMMA InitPromise == Init => Promise!Init
  BY DEF Init, Promise!Init, Status, Lookup, Idle

\* Every step of the resolver is a step of the promise, or none of it.
LEMMA NextPromise == FullInv /\ [Next]_vars => [Promise!Next]_(Promise!vars)
<1> SUFFICES ASSUME FullInv, [Next]_vars
             PROVE  Promise!Next \/ UNCHANGED Promise!vars
  OBVIOUS
<1>0. IInv /\ TypeOK /\ NoWorkerYet /\ AnswerInv
  BY DEF FullInv, IInv
<1> USE DEF Promise!vars, Promise!Next, Status, Lookup, Idle, TypeOK
<1>1. ASSUME NEW c \in Calls, Begin(c) PROVE Promise!Begin(c)
  BY <1>0, <1>1 DEF Begin, Promise!Begin, Goto
<1>2. ASSUME NEW c \in Calls, Caller(c)
      PROVE  Promise!Next \/ UNCHANGED Promise!vars
  <2>1. CASE CallAcquire(c) \/ Acquire(c) \/ Proceed(c) \/ CallGet(c)
    BY <1>0, <2>1 DEF CallAcquire, Acquire, Proceed, CallGet, Goto
  <2>2. CASE AcquireTimesOut(c) \/ Expire(c) \/ GetTimesOut(c)
    <3>1. Promise!Deny(c)
      BY <1>0, <2>2 DEF AcquireTimesOut, Expire, GetTimesOut, Goto, Promise!Deny
    <3> QED
      BY <3>1
  <2>3. CASE StartFails(c)
    <3>1. Promise!Deny(c)
      BY <1>0, <2>3 DEF StartFails, Goto, Promise!Deny, NoWorkerYet
    <3> QED
      BY <3>1
  <2>4. CASE StartWorker(c)
    <3>1. Promise!Running = {d \in Calls : worker[d] = "resolving"}
      BY <1>0 DEF Promise!Running
    <3>2. Cardinality(Promise!Running) < MaxSlots
      BY <1>0, <2>4, <3>1, RoomForLookup
    <3>3. /\ pc[c] = "starting" /\ worker[c] = "none"
          /\ pc' = [pc EXCEPT ![c] = "started"]
          /\ worker' = [worker EXCEPT ![c] = "resolving"]
          /\ queue' = queue
      BY <1>0, <2>4 DEF StartWorker, Goto, NoWorkerYet
    <3>4. /\ [d \in Calls |-> Status(d)]' = [d \in Calls |-> Status(d)]
          /\ [d \in Calls |-> Lookup(d)]' =
                [[d \in Calls |-> Lookup(d)] EXCEPT ![c] = "running"]
      BY <1>0, <3>3
    <3>5. Promise!StartLookup(c)
      BY <3>2, <3>3, <3>4, SameCardinality DEF Promise!StartLookup
    <3> QED
      BY <3>5
  <2>5. CASE Get(c)
    <3>1. Promise!Allow(c) \/ Promise!Deny(c)
      <4>1. CASE queue[c] = "addresses"
        BY <1>0, <2>5, <4>1 DEF Get, Goto, Promise!Allow, AnswerInv, Over
      <4>2. CASE queue[c] = "error"
        BY <1>0, <2>5, <4>2 DEF Get, Goto, Promise!Deny, AnswerInv, Over
      <4> QED
        BY <1>0, <2>5, <4>1, <4>2 DEF Get
    <3> QED
      BY <3>1
  <2> QED
    BY <1>2, <2>1, <2>2, <2>3, <2>4, <2>5 DEF Caller
<1>3. ASSUME NEW c \in Calls, Resolve(c) PROVE Promise!EndLookup(c)
  BY <1>0, <1>3 DEF Resolve, Promise!EndLookup, AnswerInv, Over
<1>4. ASSUME NEW c \in Calls, Release(c) PROVE UNCHANGED Promise!vars
  BY <1>0, <1>4 DEF Release
<1>5. CASE Tick
  BY <1>5 DEF Tick
<1>6. CASE UNCHANGED vars
  BY <1>6 DEF vars
<1> QED
  BY <1>1, <1>2, <1>3, <1>4, <1>5, <1>6 DEF Next

\* The safety part of KeepsPromise: every behaviour of the resolver, seen as
\* statuses and lookups, is one ResolverPromise allows.
THEOREM ImplementsPromise == Spec => Promise!Init /\ [][Promise!Next]_(Promise!vars)
  BY InitPromise, NextPromise, FullInductive, PTL DEF Spec
-----------------------------------------------------------------------------
(* The executor and the coroutines of DnsResolverAsync *)

AsyncTypeOK ==
    /\ task \in [Calls -> {"none", "queued", "running", "cancelled", "done"}]
    /\ executor \in Seq(Calls)
    /\ waited \in [Calls -> 0..(Timeout + 1)]

\* The oldest work item, and what is left when it is taken.
LEMMA OldestItem ==
    ASSUME executor \in Seq(Calls), executor # <<>>
    PROVE  /\ Head(executor) \in Calls /\ Head(executor) = executor[1]
           /\ Tail(executor) \in Seq(Calls)
           /\ Len(Tail(executor)) = Len(executor) - 1
           /\ \A i \in 1..Len(Tail(executor)) : Tail(executor)[i] = executor[i + 1]
           /\ Len(executor) \in Nat \ {0}
  BY HeadTailProperties

\* What an executor thread, a coroutine or the clock does is a step of the
\* resolver, or nothing to it.
LEMMA AsyncStepIsStep == AsyncTypeOK /\ [AsyncNext]_asyncVars => [Next]_vars
<1> SUFFICES ASSUME AsyncTypeOK, [AsyncNext]_asyncVars PROVE [Next]_vars
  OBVIOUS
<1>1. ASSUME NEW c \in Calls, Submit(c) \/ Resume(c) \/ Cancel(c)
      PROVE  UNCHANGED vars
  BY <1>1 DEF Submit, Resume, Cancel
<1>2. ASSUME NEW c \in Calls, ThreadStep(c) PROVE Next
  BY <1>2 DEF ThreadStep, Next
<1>3. ASSUME PickUp PROVE [Next]_vars
  <2>1. UNCHANGED vars \/ Begin(Head(executor))
    BY <1>3 DEF PickUp
  <2>2. Head(executor) \in Calls
    BY <1>3, OldestItem DEF PickUp, CanPickUp, AsyncTypeOK
  <2> QED
    BY <2>1, <2>2 DEF Next
<1>4. ASSUME AsyncTick PROVE Next
  BY <1>4 DEF AsyncTick, Next
<1>5. ASSUME UNCHANGED asyncVars PROVE UNCHANGED vars
  BY <1>5 DEF asyncVars, vars
<1> QED
  BY <1>1, <1>2, <1>3, <1>4, <1>5 DEF AsyncNext

\* A coroutine keeps to its life cycle and its wait is counted no further
\* than one tick past the timeout.
LEMMA NextAsyncTypeOK == AsyncTypeOK /\ [AsyncNext]_asyncVars => AsyncTypeOK'
<1> SUFFICES ASSUME AsyncTypeOK, [AsyncNext]_asyncVars PROVE AsyncTypeOK'
  OBVIOUS
<1> USE TimeoutAssumption DEF AsyncTypeOK
<1>1. ASSUME NEW c \in Calls, Submit(c) PROVE AsyncTypeOK'
  BY <1>1 DEF Submit
<1>2. ASSUME NEW c \in Calls, Resume(c) \/ Cancel(c) PROVE AsyncTypeOK'
  BY <1>2 DEF Resume, Cancel
<1>3. ASSUME NEW c \in Calls, ThreadStep(c) PROVE AsyncTypeOK'
  BY <1>3 DEF ThreadStep
<1>4. ASSUME PickUp PROVE AsyncTypeOK'
  BY <1>4, OldestItem DEF PickUp, CanPickUp
<1>5. ASSUME AsyncTick PROVE AsyncTypeOK'
  <2>1. ASSUME NEW c \in Calls PROVE waited'[c] \in 0..(Timeout + 1)
    BY <1>5, <2>1 DEF AsyncTick
  <2> QED
    BY <1>5, <2>1 DEF AsyncTick
<1>6. ASSUME UNCHANGED asyncVars PROVE AsyncTypeOK'
  BY <1>6 DEF asyncVars
<1> QED
  BY <1>1, <1>2, <1>3, <1>4, <1>5, <1>6 DEF AsyncNext

\* Whatever the executor and the coroutines do, the resolver they run is the
\* one the theorems above are about.
LEMMA AsyncInductive == AsyncSpec => [](FullInv /\ AsyncTypeOK)
<1>1. AsyncInit => FullInv /\ AsyncTypeOK
  <2> SUFFICES ASSUME AsyncInit PROVE FullInv /\ AsyncTypeOK
    OBVIOUS
  <2>1. FullInv
    BY InitFullInv DEF AsyncInit
  <2> QED
    BY <2>1, TimeoutAssumption, EmptySeq DEF AsyncInit, AsyncTypeOK
<1>2. FullInv /\ AsyncTypeOK /\ [AsyncNext]_asyncVars => FullInv' /\ AsyncTypeOK'
  BY AsyncStepIsStep, NextAsyncTypeOK, NextFullInv
<1> QED
  BY <1>1, <1>2, PTL DEF AsyncSpec

\* asyncio.to_thread, its queue and its cancellations take and give no slot:
\* slots are neither lost nor duplicated under the event loop either.
THEOREM AsyncSlotsConserved == AsyncSpec => []SlotConservation
<1>1. FullInv => SlotConservation
  BY DEF FullInv, IInv
<1> QED
  BY <1>1, AsyncInductive, PTL

\* An answer reaches the call whose worker put it, on every executor thread
\* and whichever coroutines were cancelled meanwhile.
THEOREM AsyncAnswersOwned == AsyncSpec => []AnswerIsOfItsWorker
<1>1. FullInv => AnswerIsOfItsWorker
  BY DEF FullInv, AnswerInv, AnswerIsOfItsWorker, Over, Alive
<1> QED
  BY <1>1, AsyncInductive, PTL

\* The safety part of KeepsPromise for the asynchronous path: statuses and
\* lookups of its calls are what ResolverPromise allows.
THEOREM AsyncImplementsPromise ==
    AsyncSpec => Promise!Init /\ [][Promise!Next]_(Promise!vars)
<1>1. AsyncInit => Promise!Init
  BY InitPromise DEF AsyncInit
<1>2. FullInv /\ AsyncTypeOK /\ [AsyncNext]_asyncVars
         => [Promise!Next]_(Promise!vars)
  BY AsyncStepIsStep, NextPromise
<1> QED
  BY <1>1, <1>2, AsyncInductive, PTL DEF AsyncSpec
-----------------------------------------------------------------------------
\* No work item is lost, repeated or taken too late: an item in the queue is
\* there once and its call has not begun; a coroutine that waits has its item
\* in the queue or its call on a thread; and a coroutine that was cancelled
\* or answered waits for neither.
ItemsKept ==
    /\ \A i, j \in 1..Len(executor) : executor[i] = executor[j] => i = j
    /\ \A i \in 1..Len(executor) : /\ pc[executor[i]] = Idle
                                   /\ task[executor[i]] \in {"queued", "cancelled"}
    /\ \A c \in Calls :
          /\ task[c] = "none" => pc[c] = Idle
          /\ task[c] = "queued" => \E i \in 1..Len(executor) : executor[i] = c
          /\ task[c] = "running" => pc[c] # Idle
          /\ task[c] = "done" => pc[c] \in Ended

\* No step of the resolver but Begin takes a call from idle, and none revives
\* a call that is over.
LEMMA OnlyBeginBegins ==
    ASSUME AsyncTypeOK, FullInv, [AsyncNext]_asyncVars, NEW c \in Calls
    PROVE  /\ pc[c] # Idle => pc'[c] # Idle
           /\ pc[c] \in Ended => pc'[c] = pc[c]
           /\ pc[c] = Idle => \/ pc'[c] = Idle
                              \/ PickUp /\ c = Head(executor) /\ executor # <<>>
                                    /\ task[c] # "cancelled" /\ Begin(c)
<1> USE DEF Idle, Ended
<1>0. pc \in [Calls -> {Idle} \cup Active \cup Ended]
  BY DEF FullInv, IInv, TypeOK
<1>1. ASSUME NEW d \in Calls, Submit(d) \/ Resume(d) \/ Cancel(d)
      PROVE  pc' = pc
  BY <1>1 DEF Submit, Resume, Cancel, vars
<1>2. ASSUME NEW d \in Calls, Caller(d)
      PROVE  pc[d] \in Active /\ \E p : p # Idle /\ pc' = [pc EXCEPT ![d] = p]
  BY <1>2 DEF Caller, CallAcquire, Acquire, AcquireTimesOut, Expire, Proceed,
              StartWorker, StartFails, CallGet, Get, GetTimesOut, Goto, Active
<1>3. ASSUME NEW d \in Calls, Resolve(d) \/ Release(d) PROVE pc' = pc
  BY <1>3 DEF Resolve, Release
<1>4. ASSUME PickUp
      PROVE  \/ pc' = pc
             \/ /\ Begin(Head(executor)) /\ executor # <<>>
                /\ task[Head(executor)] # "cancelled"
  BY <1>4 DEF PickUp, CanPickUp, vars
<1>5. ASSUME AsyncTick PROVE pc' = pc
  BY <1>5 DEF AsyncTick, Tick
<1>6. ASSUME UNCHANGED asyncVars PROVE pc' = pc
  BY <1>6 DEF asyncVars
<1>7. ASSUME NEW d \in Calls, ThreadStep(d)
      PROVE  \/ pc' = pc
             \/ pc[d] \in Active /\ \E p : p # Idle /\ pc' = [pc EXCEPT ![d] = p]
  BY <1>2, <1>3, <1>7 DEF ThreadStep
<1>8. ASSUME pc' = pc PROVE /\ pc[c] # Idle => pc'[c] # Idle
                            /\ pc[c] \in Ended => pc'[c] = pc[c]
                            /\ pc[c] = Idle => pc'[c] = Idle
  BY <1>8
<1>9. ASSUME NEW d \in Calls, NEW p, pc[d] \in Active, p # Idle,
             pc' = [pc EXCEPT ![d] = p]
      PROVE  /\ pc[c] # Idle => pc'[c] # Idle
             /\ pc[c] \in Ended => pc'[c] = pc[c]
             /\ pc[c] = Idle => pc'[c] = Idle
  BY <1>0, <1>9 DEF Active
<1>10. ASSUME PickUp, Begin(Head(executor)), executor # <<>>,
              task[Head(executor)] # "cancelled"
       PROVE  /\ pc[c] # Idle => pc'[c] # Idle
              /\ pc[c] \in Ended => pc'[c] = pc[c]
              /\ pc[c] = Idle => pc'[c] = Idle \/ c = Head(executor)
  <2>1. pc[Head(executor)] = Idle /\ Head(executor) \in Calls
    BY <1>10, OldestItem DEF Begin, AsyncTypeOK
  <2> QED
    BY <1>0, <1>10, <2>1 DEF Begin, Goto
<1> QED
  BY <1>1, <1>4, <1>5, <1>6, <1>7, <1>8, <1>9, <1>10 DEF AsyncNext

\* Items enter the queue with their coroutine, leave it at its head, and
\* only the one that leaves may begin.
LEMMA NextItemsKept ==
    FullInv /\ AsyncTypeOK /\ ItemsKept /\ [AsyncNext]_asyncVars => ItemsKept'
<1> SUFFICES ASSUME FullInv, AsyncTypeOK, ItemsKept, [AsyncNext]_asyncVars
             PROVE  ItemsKept'
  OBVIOUS
<1>0. pc \in [Calls -> {Idle} \cup Active \cup Ended]
  BY DEF FullInv, IInv, TypeOK
<1>a. \A c \in Calls :
         /\ pc[c] # Idle => pc'[c] # Idle
         /\ pc[c] \in Ended => pc'[c] = pc[c]
         /\ pc[c] = Idle => \/ pc'[c] = Idle
                            \/ PickUp /\ c = Head(executor) /\ executor # <<>>
                                  /\ task[c] # "cancelled"
  BY OnlyBeginBegins
<1> USE DEF ItemsKept
<1>1. ASSUME NEW c \in Calls, Submit(c) PROVE ItemsKept'
  <2>1. /\ executor \in Seq(Calls) /\ Len(executor) \in Nat
        /\ executor' = Append(executor, c)
        /\ Len(executor') = Len(executor) + 1
        /\ executor'[Len(executor) + 1] = c
        /\ \A i \in 1..Len(executor) : /\ executor'[i] = executor[i]
                                       /\ executor[i] \in Calls
    BY <1>1, AppendProperties DEF Submit, AsyncTypeOK
  <2>2. /\ pc' = pc /\ task' = [task EXCEPT ![c] = "queued"]
        /\ task[c] = "none" /\ pc[c] = Idle
    BY <1>1 DEF Submit, vars
  <2>3. \A i \in 1..Len(executor) : executor[i] # c
    BY <2>2
  <2>4. \A i \in 1..Len(executor') : i \in 1..Len(executor) \/ i = Len(executor) + 1
    BY <2>1
  <2> HIDE DEF ItemsKept
  <2>5. \A i, j \in 1..Len(executor') : executor'[i] = executor'[j] => i = j
    BY <2>1, <2>3, <2>4 DEF ItemsKept
  <2>6. \A i \in 1..Len(executor') : /\ pc'[executor'[i]] = Idle
                                     /\ task'[executor'[i]] \in {"queued", "cancelled"}
    BY <2>1, <2>2, <2>3, <2>4 DEF ItemsKept, AsyncTypeOK
  <2>7. \A i \in 1..Len(executor) : i \in 1..Len(executor')
    BY <2>1
  <2>8. Len(executor) + 1 \in 1..Len(executor')
    BY <2>1
  <2>9. ASSUME NEW d \in Calls
        PROVE  /\ task'[d] = "none" => pc'[d] = Idle
               /\ task'[d] = "queued" => \E i \in 1..Len(executor') : executor'[i] = d
               /\ task'[d] = "running" => pc'[d] # Idle
               /\ task'[d] = "done" => pc'[d] \in Ended
    <3>1. CASE d = c
      BY <2>1, <2>2, <2>8, <3>1 DEF AsyncTypeOK
    <3>2. CASE d # c
      <4>1. task'[d] = task[d]
        BY <2>2, <3>2 DEF AsyncTypeOK
      <4>2. task'[d] = "queued" => \E i \in 1..Len(executor') : executor'[i] = d
        <5> SUFFICES ASSUME task[d] = "queued"
                     PROVE  \E i \in 1..Len(executor') : executor'[i] = d
          BY <4>1
        <5>1. PICK i \in 1..Len(executor) : executor[i] = d
          BY DEF ItemsKept
        <5> QED
          BY <2>1, <2>7, <5>1
      <4> QED
        BY <2>2, <4>1, <4>2 DEF ItemsKept
    <3> QED
      BY <3>1, <3>2
  <2> QED
    BY <2>5, <2>6, <2>9 DEF ItemsKept
<1>2. ASSUME NEW c \in Calls, Resume(c) \/ Cancel(c) PROVE ItemsKept'
  <2>1. /\ pc' = pc /\ executor' = executor
        /\ \/ task' = [task EXCEPT ![c] = "done"] /\ pc[c] \in Ended
              /\ task[c] = "running"
           \/ task' = [task EXCEPT ![c] = "cancelled"]
    BY <1>2 DEF Resume, Cancel, vars
  <2>2. \A i \in 1..Len(executor) : executor[i] \in Calls
    BY DEF AsyncTypeOK
  <2>3. CASE task' = [task EXCEPT ![c] = "done"] /\ pc[c] \in Ended /\ task[c] = "running"
    BY <2>1, <2>2, <2>3 DEF AsyncTypeOK
  <2>4. CASE task' = [task EXCEPT ![c] = "cancelled"]
    BY <2>1, <2>2, <2>4 DEF AsyncTypeOK
  <2> QED
    BY <2>1, <2>3, <2>4
<1>3. ASSUME PickUp PROVE ItemsKept'
  <2> DEFINE c == Head(executor)
  <2>1. /\ c \in Calls /\ c = executor[1] /\ executor' = Tail(executor)
        /\ Len(executor) \in Nat \ {0}
        /\ Len(executor') = Len(executor) - 1
        /\ \A i \in 1..Len(executor') : executor'[i] = executor[i + 1]
        /\ \A i \in 1..Len(executor) : executor[i] \in Calls
    BY <1>3, OldestItem DEF PickUp, CanPickUp, AsyncTypeOK
  <2>2. \/ pc' = pc /\ task' = task /\ task[c] = "cancelled"
        \/ /\ task[c] # "cancelled"
           /\ task' = [task EXCEPT ![c] = "running"]
           /\ pc' = [pc EXCEPT ![c] = "entered"]
    BY <1>3 DEF PickUp, vars, Begin, Goto
  <2> HIDE DEF c
  <2>3. \A i \in 1..Len(executor') : i + 1 \in 1..Len(executor) /\ i + 1 # 1
    BY <2>1
  <2>3a. 1 \in 1..Len(executor)
    BY <2>1
  <2>4. \A i \in 1..Len(executor') : executor'[i] # c
    BY <2>1, <2>3, <2>3a
  <2>5. \A i, j \in 1..Len(executor') : executor'[i] = executor'[j] => i = j
    <3> SUFFICES ASSUME NEW i \in 1..Len(executor'), NEW j \in 1..Len(executor'),
                        executor'[i] = executor'[j]
                 PROVE  i = j
      OBVIOUS
    <3>1. i + 1 = j + 1
      BY <2>1, <2>3
    <3> QED
      BY <3>1
  <2>6. \A i \in 1..Len(executor') : /\ pc'[executor'[i]] = Idle
                                     /\ task'[executor'[i]] \in {"queued", "cancelled"}
    <3> SUFFICES ASSUME NEW i \in 1..Len(executor')
                 PROVE  /\ pc'[executor'[i]] = Idle
                        /\ task'[executor'[i]] \in {"queued", "cancelled"}
      OBVIOUS
    <3>1. /\ executor'[i] = executor[i + 1] /\ i + 1 \in 1..Len(executor)
          /\ executor'[i] # c
      BY <2>1, <2>3, <2>4
    <3> QED
      BY <2>1, <2>2, <3>1, <1>0 DEF AsyncTypeOK
  <2>7. \A i \in 1..Len(executor) : i = 1 \/ i - 1 \in 1..Len(executor')
    BY <2>1
  <2>8. ASSUME NEW d \in Calls, d # c, task[d] = "queued"
        PROVE  \E i \in 1..Len(executor') : executor'[i] = d
    <3>1. PICK i \in 1..Len(executor) : executor[i] = d
      BY <2>8
    <3>2. i # 1
      BY <2>1, <2>8, <3>1
    <3>3. i - 1 \in 1..Len(executor') /\ executor'[i - 1] = executor[(i - 1) + 1]
      BY <2>1, <2>7, <3>2
    <3> QED
      BY <3>1, <3>3
  <2>9. ASSUME NEW d \in Calls
        PROVE  /\ task'[d] = "none" => pc'[d] = Idle
               /\ task'[d] = "queued" => \E i \in 1..Len(executor') : executor'[i] = d
               /\ task'[d] = "running" => pc'[d] # Idle
               /\ task'[d] = "done" => pc'[d] \in Ended
    <3>1. CASE d = c
      BY <2>1, <2>2, <3>1, <1>0 DEF AsyncTypeOK, Idle, Ended
    <3>2. CASE d # c
      <4>1. task'[d] = task[d] /\ pc'[d] = pc[d]
        BY <2>2, <3>2, <1>0 DEF AsyncTypeOK
      <4> QED
        BY <2>8, <3>2, <4>1
    <3> QED
      BY <3>1, <3>2
  <2> QED
    BY <2>5, <2>6, <2>9
<1>4. ASSUME executor' = executor, task' = task, ~PickUp PROVE ItemsKept'
  <2>1. \A i \in 1..Len(executor) : executor[i] \in Calls
    BY DEF AsyncTypeOK
  <2> QED
    BY <1>4, <1>a, <2>1
<1>5. ASSUME NEW c \in Calls, ThreadStep(c) PROVE executor' = executor /\ task' = task
  BY <1>5 DEF ThreadStep
<1>6. ASSUME AsyncTick PROVE executor' = executor /\ task' = task
  BY <1>6 DEF AsyncTick
<1>7. ASSUME UNCHANGED asyncVars PROVE executor' = executor /\ task' = task
  BY <1>7 DEF asyncVars
<1> HIDE DEF ItemsKept
<1> QED
  BY <1>1, <1>2, <1>3, <1>4, <1>5, <1>6, <1>7 DEF AsyncNext

\* No item is lost, repeated or started twice, and none starts for a
\* coroutine that was cancelled before a thread took it.
LEMMA ItemsInductive == AsyncSpec => [](FullInv /\ AsyncTypeOK /\ ItemsKept)
<1>1. AsyncInit => ItemsKept
  BY DEF AsyncInit, Init, ItemsKept, Idle
<1>2. FullInv /\ AsyncTypeOK /\ ItemsKept /\ [AsyncNext]_asyncVars => ItemsKept'
  BY NextItemsKept
<1> QED
  BY <1>1, <1>2, AsyncInductive, PTL DEF AsyncSpec

\* Each coroutine's work item is queued once or its call is on a thread, for
\* every number of coroutines and threads and whoever is cancelled.
THEOREM AsyncItemsKept == AsyncSpec => []ItemsKept
  BY ItemsInductive, PTL

\* A coroutine cancelled while its item is queued starts no lookup and takes
\* no slot, ever after.
CancelledStaysOut ==
    \A c \in Calls : task[c] = "cancelled" /\ pc[c] = Idle =>
                         task'[c] = "cancelled" /\ pc'[c] = Idle

\* The thread that finds a cancelled item drops it.
THEOREM CancelledNeverBegins == AsyncSpec => [][CancelledStaysOut]_asyncVars
<1>1. FullInv /\ AsyncTypeOK /\ [AsyncNext]_asyncVars => CancelledStaysOut
  <2> SUFFICES ASSUME FullInv, AsyncTypeOK, [AsyncNext]_asyncVars, NEW c \in Calls,
                      task[c] = "cancelled", pc[c] = Idle
               PROVE  task'[c] = "cancelled" /\ pc'[c] = Idle
    BY DEF CancelledStaysOut
  <2>1. pc'[c] = Idle
    BY OnlyBeginBegins
  <2>2. CASE PickUp
    BY <2>1, <2>2 DEF PickUp, AsyncTypeOK
  <2>3. ASSUME NEW d \in Calls, Submit(d) \/ Resume(d) \/ Cancel(d)
        PROVE  task'[c] = "cancelled"
    BY <2>3 DEF Submit, Resume, Cancel, AsyncTypeOK
  <2>4. ASSUME NEW d \in Calls, ThreadStep(d) PROVE task' = task
    BY <2>4 DEF ThreadStep
  <2>5. CASE AsyncTick \/ UNCHANGED asyncVars
    BY <2>1, <2>5 DEF AsyncTick, asyncVars
  <2> QED
    BY <2>1, <2>2, <2>3, <2>4, <2>5 DEF AsyncNext
<1> QED
  BY <1>1, AsyncInductive, PTL DEF AsyncSpec
-----------------------------------------------------------------------------
\* What a coroutine has waited: nothing before a thread has its call, and
\* from then on what is gone of the call's deadline.
AwaitInv ==
    \A c \in Calls :
        /\ task[c] \in {"none", "queued"} => waited[c] = 0
        /\ task[c] = "running" => IF pc[c] \in Ended THEN waited[c] <= Timeout
                                  ELSE waited[c] + left[c] = Timeout

\* With a thread for every call none is left in the queue when time passes.
LEMMA RoomForAll ==
    ASSUME FullInv, AsyncTypeOK, ItemsKept, Cardinality(Calls) <= PoolSize,
           ~CanPickUp
    PROVE  executor = <<>>
<1> SUFFICES ASSUME executor # <<>> PROVE FALSE
  OBVIOUS
<1>1. Head(executor) \in Calls /\ Head(executor) = executor[1]
      /\ Len(executor) \in Nat \ {0}
  BY OldestItem DEF AsyncTypeOK
<1>2. pc[Head(executor)] = Idle
  BY <1>1 DEF ItemsKept
<1>3. BusyThreads \subseteq Calls \ {Head(executor)}
  BY <1>2 DEF BusyThreads, Active, Idle
<1>4. Cardinality(Calls \ {Head(executor)}) = Cardinality(Calls) - 1
  BY <1>1, OneLess
<1>5. /\ Cardinality(BusyThreads) <= Cardinality(Calls \ {Head(executor)})
      /\ Cardinality(BusyThreads) \in Nat
      /\ Cardinality(Calls) \in Nat
      /\ Cardinality(Calls \ {Head(executor)}) \in Nat
  <2>1. Calls \ {Head(executor)} \in SUBSET Calls
    OBVIOUS
  <2> QED
    BY <1>3, <2>1, CallSets, FS_Subset
<1>6. Cardinality(BusyThreads) < PoolSize
  BY <1>4, <1>5, PoolAssumption
<1> QED
  BY <1>6 DEF CanPickUp

\* A coroutine's wait and its call's deadline run down together, from the
\* moment it is submitted to the moment it is answered.
LEMMA NextAwaitInv ==
    ASSUME Prompt, Cardinality(Calls) <= PoolSize,
           FullInv, FullInv', AsyncTypeOK, ItemsKept, AwaitInv, [AsyncNext]_asyncVars
    PROVE  AwaitInv'
<1>0. /\ pc \in [Calls -> {Idle} \cup Active \cup Ended]
      /\ left \in [Calls -> -1..Timeout]
      /\ \A c \in Calls : left[c] >= 0
      /\ \A c \in Calls : left'[c] >= 0
  BY DEF FullInv, IInv, TypeOK, TimeInv
<1> USE TimeoutAssumption
<1>1. ASSUME NEW c \in Calls, Submit(c) PROVE AwaitInv'
  BY <1>1 DEF Submit, vars, AsyncTypeOK, AwaitInv
<1>2. ASSUME NEW c \in Calls, Resume(c) \/ Cancel(c) PROVE AwaitInv'
  <2>1. /\ UNCHANGED <<pc, left, waited>>
        /\ \E t \in {"done", "cancelled"} : task' = [task EXCEPT ![c] = t]
    BY <1>2 DEF Resume, Cancel, vars
  <2> QED
    BY <2>1 DEF AsyncTypeOK, AwaitInv
<1>3. ASSUME NEW c \in Calls, ThreadStep(c) PROVE AwaitInv'
  <2>1. UNCHANGED <<task, executor, waited>>
    BY <1>3 DEF ThreadStep
  <2>2. CASE Caller(c)
    <3>1. /\ left' = left /\ pc[c] \in Active
          /\ \E p \in Active \cup Ended : pc' = [pc EXCEPT ![c] = p]
      BY <2>2 DEF Caller, CallAcquire, Acquire, AcquireTimesOut, Expire, Proceed,
                  StartWorker, StartFails, CallGet, Get, GetTimesOut, Goto, Active, Ended
    <3>2. \A d \in Calls : /\ d # c => pc'[d] = pc[d]
                           /\ d = c => pc[d] \notin Ended
      BY <1>0, <3>1 DEF Active, Ended
    <3>3. ASSUME NEW d \in Calls
          PROVE  /\ task'[d] \in {"none", "queued"} => waited'[d] = 0
                 /\ task'[d] = "running" =>
                       IF pc'[d] \in Ended THEN waited'[d] <= Timeout
                       ELSE waited'[d] + left'[d] = Timeout
      <4>1. waited[d] \in Nat /\ left[d] \in Nat
        BY <1>0 DEF AsyncTypeOK
      <4> QED
        BY <2>1, <3>1, <3>2, <4>1 DEF AwaitInv
    <3> QED
      BY <3>3 DEF AwaitInv
  <2>3. CASE Resolve(c) \/ Release(c)
    BY <2>1, <2>3 DEF Resolve, Release, AwaitInv
  <2> QED
    BY <1>3, <2>2, <2>3 DEF ThreadStep
<1>4. ASSUME PickUp PROVE AwaitInv'
  <2> DEFINE c == Head(executor)
  <2>1. c \in Calls /\ c = executor[1] /\ Len(executor) \in Nat \ {0} /\ waited' = waited
    BY <1>4, OldestItem DEF PickUp, CanPickUp, AsyncTypeOK
  <2>2. \/ UNCHANGED <<pc, left, task>>
        \/ /\ task[c] # "cancelled"
           /\ task' = [task EXCEPT ![c] = "running"]
           /\ pc' = [pc EXCEPT ![c] = "entered"]
           /\ left' = [left EXCEPT ![c] = Timeout]
    BY <1>4 DEF PickUp, vars, Begin, Goto
  <2>3. task[c] \in {"queued", "cancelled"}
    BY <2>1 DEF ItemsKept
  <2> HIDE DEF c
  <2>4. CASE UNCHANGED <<pc, left, task>>
    BY <2>1, <2>4 DEF AwaitInv
  <2>5. CASE /\ task[c] = "queued"
             /\ task' = [task EXCEPT ![c] = "running"]
             /\ pc' = [pc EXCEPT ![c] = "entered"]
             /\ left' = [left EXCEPT ![c] = Timeout]
    <3>1. waited[c] = 0
      BY <2>1, <2>5 DEF AwaitInv
    <3> QED
      BY <1>0, <2>1, <2>5, <3>1 DEF AwaitInv, AsyncTypeOK, Ended
  <2> QED
    BY <2>2, <2>3, <2>4, <2>5
<1>5. ASSUME AsyncTick PROVE AwaitInv'
  <2>1. executor = <<>>
    BY <1>5, RoomForAll DEF AsyncTick
  <2>2. /\ task' = task /\ pc' = pc
        /\ \A c \in Calls : left'[c] = IF pc[c] \in Active /\ left[c] >= 0
                                       THEN left[c] - 1 ELSE left[c]
        /\ \A c \in Calls : waited'[c] = IF c \in Waiting /\ waited[c] <= Timeout
                                         THEN waited[c] + 1 ELSE waited[c]
        /\ \A c \in Waiting : task[c] = "running" => pc[c] \notin Ended
    BY <1>5 DEF AsyncTick, Tick
  <2>3. ASSUME NEW c \in Calls
        PROVE  /\ task'[c] \in {"none", "queued"} => waited'[c] = 0
               /\ task'[c] = "running" =>
                     IF pc'[c] \in Ended THEN waited'[c] <= Timeout
                     ELSE waited'[c] + left'[c] = Timeout
    <3>1. task[c] # "queued"
      BY <2>1 DEF ItemsKept
    <3>2. waited[c] \in Nat /\ left[c] \in Nat
      BY <1>0 DEF AsyncTypeOK
    <3>3. CASE task[c] = "none"
      BY <2>2, <3>3 DEF AwaitInv, Waiting
    <3>4. CASE task[c] = "running"
      <4>1. c \in Waiting /\ pc[c] \in Active
        BY <1>0, <2>2, <3>4 DEF Waiting, ItemsKept
      <4>2. waited[c] + left[c] = Timeout /\ pc[c] \notin Ended
        BY <2>2, <3>4, <4>1 DEF AwaitInv
      <4>3. waited'[c] = waited[c] + 1 /\ left'[c] = left[c] - 1
        BY <2>2, <3>2, <4>1, <4>2
      <4> QED
        BY <2>2, <3>2, <3>4, <4>2, <4>3
    <3> QED
      BY <2>2, <3>1, <3>3, <3>4
  <2> QED
    BY <2>3 DEF AwaitInv
<1>6. ASSUME UNCHANGED asyncVars PROVE AwaitInv'
  BY <1>6 DEF asyncVars, AwaitInv
<1> QED
  BY <1>1, <1>2, <1>3, <1>4, <1>5, <1>6 DEF AsyncNext

\* With a thread for every coroutine and prompt scheduling an await lasts no
\* longer than dns_timeout_seconds, for any number of coroutines that compete
\* for the slots: the shortage of threads is all that AwaitInTime can fail by.
THEOREM AwaitInTimeWithRoom ==
    ASSUME Prompt, Cardinality(Calls) <= PoolSize
    PROVE  AsyncSpec => []AwaitInTime
<1> DEFINE Full == FullInv /\ AsyncTypeOK /\ ItemsKept
<1>1. AsyncInit => AwaitInv
  BY DEF AsyncInit, AwaitInv
<1>2. Full /\ Full' /\ AwaitInv /\ [AsyncNext]_asyncVars => AwaitInv'
  BY NextAwaitInv
<1>3. Full /\ AwaitInv => AwaitInTime
  <2> SUFFICES ASSUME Full, AwaitInv, NEW c \in Waiting PROVE waited[c] <= Timeout
    BY DEF AwaitInTime
  <2>1. /\ c \in Calls /\ task[c] \in {"queued", "running"}
        /\ waited[c] \in Nat /\ left[c] \in Int /\ left[c] >= 0
    BY TimeoutAssumption DEF Waiting, AsyncTypeOK, FullInv, IInv, TypeOK, TimeInv
  <2> QED
    BY <2>1, TimeoutAssumption DEF AwaitInv
<1>4. AsyncSpec => []Full
  BY ItemsInductive
<1> QED
  BY <1>1, <1>2, <1>3, <1>4, PTL DEF AsyncSpec
=============================================================================

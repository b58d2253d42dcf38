------------------------- MODULE ConnectRaceProofs -------------------------
(***************************************************************************)
(* Proofs about ConnectRace, for every number of addresses, every delay,   *)
(* every set of timeouts and any number of cancellations, with a prompt    *)
(* event loop or a late one: the safety properties of the race, and that   *)
(* each step of it is one that PinnedConnect allows.                       *)
(***************************************************************************)
EXTENDS ConnectRace, FiniteSetTheorems, SequenceTheorems, TLAPS

\* Addresses are started in turn; a child that is under way is a task that the
\* coordinator tracks, and only the last one may still have to run at all.
Tracked == \A a \in Addresses :
    /\ child[a] = "unborn" <=> a >= next
    /\ a \in tasks => a < next
    /\ child[a] \notin {"unborn", "done"} => a \in tasks
    /\ a \in cancelled => child[a] \notin {"unborn", "done"}
    /\ child[a] = "created" => a + 1 = next

Undecided == {"idle", "start", "head", "waiting"}

\* How far the coordinator is, what it has decided and what it still owes.
Staged ==
    /\ coord = "idle" => next = 1
    /\ coord \in {"idle", "start"} => NoneCreated
    /\ verdict = "none" <=> coord \in Undecided
    /\ verdict = "none" => toClose = {}
    /\ coord \in {"cancelling", "ended"} /\ verdict # "cancelled" => toClose = {}
    /\ coord # "cancelling" => cancelled = {}
    /\ coord = "ended" => tasks \subseteq Done
    /\ winner # NoOne => verdict \in {"stream", "cancelled"}
    /\ verdict = "stream" => winner # NoOne
    /\ verdict = "cancelled" <=> cancels > 0
    /\ closing # NoOne => coord = "closing"

\* The lock is with a child that is in one of the two sections or awaits one,
\* and everyone else who awaits it is in the queue, once.
LockHeld ==
    /\ holder = NoOne => waiters = <<>>
    /\ holder # NoOne => child[holder] \in {"queued", "sleeping", "leaving"}
    /\ \A i \in DOMAIN waiters : /\ waiters[i] # holder
                                 /\ child[waiters[i]] \in {"queued", "leaving"}
    /\ \A i, j \in DOMAIN waiters : waiters[i] = waiters[j] => i = j
    /\ \A a \in Addresses :
          /\ child[a] = "sleeping" => holder = a
          /\ child[a] \in {"queued", "leaving"} =>
                holder = a \/ \E i \in DOMAIN waiters : waiters[i] = a

\* Children that have not started yet hold and await the lock in their order.
InOrder ==
    /\ \A i, j \in DOMAIN waiters :
          i < j /\ child[waiters[i]] = "queued" /\ child[waiters[j]] = "queued"
              => waiters[i] < waiters[j]
    /\ holder # NoOne /\ child[holder] \in {"queued", "sleeping"} =>
          \A i \in DOMAIN waiters : child[waiters[i]] = "queued" => holder < waiters[i]

Counted == {a \in Addresses : child[a] \in {"connecting", "leaving"}}
Launched == {a \in Addresses : child[a] \in {"connecting", "leaving", "done"}}

\* The count is never below the children it counts; cancellation may leave it
\* above them, by children that were launched.
CountKept == /\ Cardinality(Counted) <= active /\ active <= Cardinality(Launched)
             /\ ActiveCounts

\* A sleeping child sleeps until Delay after the last launch.
NapsLastDelay == \A a \in Addresses : child[a] = "sleeping" => nap[a] + since >= Delay

NotConnected == {"unborn", "created", "queued", "sleeping", "connecting"}

\* Until the coordinator decides, a result tells whether there is a stream, and
\* a task it has dropped has failed.
ResultsKept == \A a \in Addresses :
    /\ child[a] \in NotConnected => stream[a] = "none"
    /\ verdict = "none" =>
          /\ child[a] \in NotConnected => result[a] = "none"
          /\ child[a] \in {"leaving", "done"} => result[a] \in {"stream", "failed"}
          /\ stream[a] = IF result[a] = "stream" THEN "open" ELSE "none"
          /\ a < next /\ a \notin tasks => result[a] = "failed"

\* The coordinator gives up only when it is late or nothing is left.
NothingLeftToTry ==
    /\ ~more => next > N \/ Expired
    /\ coord = "head" /\ tasks = {} => ~more
    /\ verdict = "denied" =>
          Expired \/ \A a \in Addresses : result[a] = "failed" /\ child[a] = "done"

\* An observed stream that is open is the winner's, is going to be closed, or
\* would not be.
StreamsOwned ==
    /\ closing # NoOne => closing \in toClose
    /\ \A a \in toClose : stream[a] = "open" /\ a \notin tasks
    /\ winner # NoOne => stream[winner] = "open" /\ winner \notin tasks \cup toClose
    /\ \A a \in Addresses \ tasks : stream[a] = "open" =>
          a \in toClose \cup unclosed \cup {winner}

IInv == /\ TypeOK /\ Tracked /\ Staged /\ LockHeld /\ InOrder /\ CountKept
        /\ NapsLastDelay /\ ResultsKept /\ NothingLeftToTry /\ StreamsOwned
-----------------------------------------------------------------------------
(* The queue of the lock *)

\* Every set of natural numbers that is not empty has a least member.
LEMMA LeastNatural ==
    ASSUME NEW T, T \subseteq Nat, T # {}
    PROVE  \E n \in T : \A m \in T : n <= m
<1> DEFINE R == OpToRel(<, Nat)
<1>1. \E x \in T : \A y \in T : ~(<<y, x>> \in R)
  <2>1. IsWellFoundedOn(R, Nat)
    BY NatLessThanWellFounded, Zenon
  <2> HIDE DEF R
  <2> QED
    BY <2>1, WFMin, Zenon
<1>2. \A x, y \in Nat : y < x => <<y, x>> \in R
  BY DEF OpToRel
<1> HIDE DEF R
<1>3. PICK n \in T : \A m \in T : ~(<<m, n>> \in R)
  BY <1>1
<1>4. \A m \in T : n <= m
  <2> TAKE m \in T
  <2>1. m \in Nat /\ n \in Nat /\ ~(m < n)
    BY <1>2, <1>3
  <2> QED
    BY <2>1
<1> QED
  BY <1>4

\* A queue that is let go of passes the lock to its first member.
LEMMA HandedOver ==
    ASSUME NEW S, NEW q \in Seq(S), HandOver(q)
    PROVE  /\ q = <<>> => holder' = NoOne /\ waiters' = <<>>
           /\ q # <<>> => /\ 1 \in DOMAIN q /\ holder' = q[1]
                          /\ Len(waiters') = Len(q) - 1
                          /\ \A i \in DOMAIN waiters' : i + 1 \in DOMAIN q
                                                        /\ waiters'[i] = q[i + 1]
           /\ waiters' \in Seq(S)
<1>1. CASE q = <<>>
  BY <1>1 DEF HandOver
<1>2. CASE q # <<>>
  BY <1>2 DEF HandOver
<1> QED
  BY <1>1, <1>2

\* A child that leaves the queue takes one place, if it was in it.
LEMMA Removed ==
    ASSUME NEW S, NEW q \in Seq(S), NEW a, NEW r, r = Without(q, a)
    PROVE  /\ r \in Seq(S)
           /\ \/ r = q /\ \A i \in DOMAIN q : q[i] # a
              \/ \E k \in DOMAIN q :
                    /\ q[k] = a /\ Len(r) = Len(q) - 1
                    /\ \A i \in DOMAIN r : r[i] = q[IF i < k THEN i ELSE i + 1]
<1> DEFINE I == {i \in DOMAIN q : q[i] = a}
           m == Min(I)
           u == SubSeq(q, 1, m - 1)
           w == SubSeq(q, m + 1, Len(q))
<1>1. CASE I = {}
  BY <1>1 DEF Without
<1>2. CASE I # {}
  <2>1. \E i \in I : \A j \in I : i <= j
    <3>1. I \subseteq Nat
      OBVIOUS
    <3> HIDE DEF I
    <3> QED
      BY <1>2, <3>1, LeastNatural
  <2>2. m \in 1..Len(q) /\ q[m] = a
    BY <2>1 DEF Min
  <2>3. r = u \o w
    BY <1>2 DEF Without, RemoveAt
  <2> HIDE DEF m
  <2>4. /\ u \in Seq(S) /\ Len(u) = m - 1 /\ \A i \in 1..m - 1 : u[i] = q[i]
        /\ w \in Seq(S) /\ Len(w) = Len(q) - m /\ \A i \in 1..Len(q) - m : w[i] = q[m + i]
    BY <2>2
  <2> HIDE DEF u, w
  <2>5. /\ r \in Seq(S) /\ Len(r) = Len(q) - 1
        /\ \A i \in 1..Len(r) : r[i] = IF i < m THEN u[i] ELSE w[i - (m - 1)]
    BY <2>2, <2>3, <2>4, ConcatProperties
  <2>6. \A i \in 1..Len(r) : r[i] = q[IF i < m THEN i ELSE i + 1]
    <3> SUFFICES ASSUME NEW i \in 1..Len(r) PROVE r[i] = q[IF i < m THEN i ELSE i + 1]
      OBVIOUS
    <3>1. CASE i < m
      BY <2>2, <2>4, <2>5, <3>1
    <3>2. CASE ~(i < m)
      <4>1. i - (m - 1) \in 1..Len(q) - m /\ m + (i - (m - 1)) = i + 1
        BY <2>2, <2>5, <3>2
      <4>2. r[i] = w[i - (m - 1)] /\ w[i - (m - 1)] = q[m + (i - (m - 1))]
        BY <2>4, <2>5, <3>2, <4>1
      <4> QED
        BY <3>2, <4>1, <4>2
    <3> QED
      BY <3>1, <3>2
  <2>7. DOMAIN r = 1..Len(r) /\ DOMAIN q = 1..Len(q)
    BY <2>5
  <2> QED
    BY <2>2, <2>5, <2>6, <2>7
<1> QED
  BY <1>1, <1>2
-----------------------------------------------------------------------------
(* The count *)

\* The children that are counted, and those that were launched, are finitely
\* many addresses.
LEMMA CountsFinite ==
    ASSUME NEW S \in SUBSET Addresses
    PROVE  IsFiniteSet(S) /\ Cardinality(S) \in 0..N
<1>1. IsFiniteSet(Addresses) /\ Cardinality(Addresses) = N
  BY RaceAssumption, FS_Interval DEF Addresses
<1> QED
  BY <1>1, FS_Subset, FS_CardinalityType, RaceAssumption

\* One child more or one less changes the number of a set of them by one.
LEMMA CountsChange ==
    ASSUME NEW S \in SUBSET Addresses, NEW a \in Addresses
    PROVE  /\ a \notin S => Cardinality(S \cup {a}) = Cardinality(S) + 1
           /\ a \in S => Cardinality(S \ {a}) = Cardinality(S) - 1
  BY CountsFinite, FS_AddElement, FS_RemoveElement

\* The two sets when a child is launched, when it ends before that or after,
\* and when it does anything else.
LEMMA CountsMove ==
    ASSUME TypeOK, NEW a \in Addresses, NEW s, child' = [child EXCEPT ![a] = s]
    PROVE  /\ s \in {"connecting", "leaving"} =>
                 Counted' = Counted \cup {a} /\ Launched' = Launched \cup {a}
           /\ s = "done" =>
                 Counted' = Counted \ {a} /\ Launched' = Launched \cup {a}
           /\ s \in {"leaving", "done"} /\ a \in Launched => Launched' = Launched
           /\ s = "leaving" /\ a \in Counted => Counted' = Counted
           /\ s \in {"created", "queued", "sleeping"} /\ a \notin Launched =>
                 Counted' = Counted /\ Launched' = Launched
<1>1. child'[a] = s /\ \A b \in Addresses \ {a} : child'[b] = child[b]
  BY DEF TypeOK
<1> QED
  BY <1>1 DEF Counted, Launched

\* The coordinator does not run the children; it only creates them.
LEMMA CoordinatorApart ==
    ASSUME Begin \/ Coordinator \/ CloseEnds \/ Interrupt
    PROVE  /\ UNCHANGED <<result, nap, lockVars>>
           /\ child' = child \/ StartNext
  BY DEF Begin, Coordinator, LoopEnds, Wait, WakeExpired, WakeUnsuccessful, WakeWon,
         CloseNext, CloseEnds, Closed, Finish, Interrupt, StartNext, clockVars, childVars

\* The count goes up with a launch and down with the last lock section; only a
\* cancellation parts it from the children that it counts.
LEMMA NextCountKept == IInv /\ [Next]_vars => CountKept' /\ active' \in 0..N
<1> SUFFICES ASSUME IInv, [Next]_vars
             PROVE  CountKept' /\ active' \in 0..N
  OBVIOUS
<1>0. /\ TypeOK /\ Tracked /\ Staged /\ LockHeld /\ CountKept
      /\ Cardinality(Counted) \in 0..N /\ Cardinality(Launched) \in 0..N
  <2>1. Counted \in SUBSET Addresses /\ Launched \in SUBSET Addresses
    BY DEF Counted, Launched
  <2> QED
    BY <2>1, CountsFinite DEF IInv
<1>1. CASE Begin \/ Coordinator \/ CloseEnds \/ Interrupt
  <2>1. UNCHANGED active /\ (verdict' = "none" => verdict = "none")
    BY <1>0, <1>1 DEF Begin, Coordinator, StartNext, LoopEnds, Wait, WakeExpired,
       WakeUnsuccessful, WakeWon, CloseNext, CloseEnds, Closed, Finish, Interrupt,
       CancelTasks, clockVars, childVars, lockVars
  <2>2. Counted' = Counted /\ Launched' = Launched
    <3>1. CASE StartNext
      <4>1. CASE UNCHANGED child
        BY <4>1 DEF Counted, Launched
      <4>2. CASE child' = [child EXCEPT ![next] = "created"] /\ next \in Addresses
        <5>1. next \notin Launched /\ next \notin Counted
          BY <1>0, <4>2 DEF Tracked, Addresses, TypeOK, Launched, Counted
        <5> QED
          BY <1>0, <4>2, <5>1, CountsMove
      <4> QED
        BY <3>1, <4>1, <4>2, <1>0, RaceAssumption DEF StartNext, Addresses, TypeOK
    <3>2. CASE child' = child
      BY <3>2 DEF Counted, Launched
    <3> QED
      BY <1>1, <3>1, <3>2, CoordinatorApart
  <2> QED
    BY <1>0, <2>1, <2>2 DEF CountKept, ActiveCounts, TypeOK, Counted
<1>2. ASSUME NEW a \in Addresses, Launch(a), child[a] \in {"created", "queued", "sleeping"},
             UNCHANGED verdict
      PROVE  CountKept' /\ active' \in 0..N
  <2>1. Counted' = Counted \cup {a} /\ Launched' = Launched \cup {a}
    BY <1>0, <1>2, CountsMove DEF Launch
  <2>2. a \notin Counted /\ a \notin Launched
    BY <1>2 DEF Counted, Launched
  <2>3. /\ Cardinality(Counted') = Cardinality(Counted) + 1
        /\ Cardinality(Launched') = Cardinality(Launched) + 1
        /\ Cardinality(Launched') \in 0..N
    BY <2>1, <2>2, CountsChange, CountsFinite DEF Counted, Launched
  <2>4. active' = active + 1
    BY <1>2 DEF Launch
  <2> QED
    BY <1>0, <1>2, <2>3, <2>4, RaceAssumption DEF CountKept, ActiveCounts, TypeOK, Counted
<1>3. ASSUME NEW a \in Addresses, NEW s \in {"created", "queued", "sleeping"},
             child' = [child EXCEPT ![a] = s],
             child[a] \in {"created", "queued"}, UNCHANGED <<verdict, active>>
      PROVE  CountKept' /\ active' \in 0..N
  <2>1. a \notin Counted /\ a \notin Launched
    BY <1>3 DEF Counted, Launched
  <2>2. Counted' = Counted /\ Launched' = Launched
    BY <1>0, <1>3, <2>1, CountsMove
  <2> QED
    BY <1>0, <1>3, <2>2 DEF CountKept, ActiveCounts, TypeOK, Counted
<1>4. ASSUME NEW a \in Addresses, child[a] \in {"connecting", "leaving"},
             child' = [child EXCEPT ![a] = "done"], active' = active - 1, UNCHANGED verdict
      PROVE  CountKept' /\ active' \in 0..N
  <2>1. a \in Counted /\ a \in Launched
    BY <1>4 DEF Counted, Launched
  <2>2. Counted' = Counted \ {a} /\ Launched' = Launched
    BY <1>0, <1>4, <2>1, CountsMove
  <2>3. Cardinality(Counted') = Cardinality(Counted) - 1 /\ Cardinality(Counted') \in 0..N
    BY <2>1, <2>2, CountsChange, CountsFinite DEF Counted
  <2> QED
    BY <1>0, <1>4, <2>2, <2>3, RaceAssumption DEF CountKept, ActiveCounts, TypeOK, Counted
<1>5. ASSUME NEW a \in Addresses, child[a] = "connecting", Leave(a), UNCHANGED verdict
      PROVE  CountKept' /\ active' \in 0..N
  <2>1. CASE holder = NoOne
    BY <1>4, <1>5, <2>1 DEF Leave
  <2>2. CASE holder # NoOne
    <3>1. a \in Counted /\ a \in Launched
      BY <1>5 DEF Counted, Launched
    <3>2. Counted' = Counted /\ Launched' = Launched /\ UNCHANGED active
      BY <1>0, <1>5, <2>2, <3>1, CountsMove DEF Leave
    <3> QED
      BY <1>0, <1>5, <3>2 DEF CountKept, ActiveCounts, TypeOK, Counted
  <2> QED
    BY <2>1, <2>2
<1>6. ASSUME NEW a \in Addresses, Enter(a), child[a] \in {"created", "queued"}, UNCHANGED verdict
      PROVE  CountKept' /\ active' \in 0..N
  BY <1>2, <1>3, <1>6 DEF Enter
<1>7. ASSUME NEW a \in Addresses, Child(a) \/ Connect(a)
      PROVE  CountKept' /\ active' \in 0..N
  <2>0. UNCHANGED verdict
    BY <1>7 DEF Child, FirstStep, Granted, Awake, Depart, DeliverCancel, Connect, coordVars
  <2>1. CASE FirstStep(a)
    BY <1>3, <1>6, <2>0, <2>1 DEF FirstStep
  <2>2. CASE Granted(a)
    BY <1>6, <2>0, <2>2 DEF Granted
  <2>3. CASE Awake(a)
    BY <1>2, <2>0, <2>3 DEF Awake
  <2>4. CASE Depart(a)
    BY <1>4, <2>0, <2>4 DEF Depart
  <2>5. CASE Connect(a)
    BY <1>5, <2>0, <2>5 DEF Connect
  <2>6. CASE DeliverCancel(a)
    <3>1. CASE child[a] = "connecting" /\ Leave(a)
      BY <1>5, <2>0, <3>1
    <3>2. CASE /\ child[a] \in {"created", "queued", "sleeping", "leaving"}
               /\ child' = [child EXCEPT ![a] = "done"] /\ UNCHANGED active
      <4>1. verdict # "none"
        BY <1>0, <2>6 DEF DeliverCancel, Staged, Undecided
      <4>2. Counted' = Counted \ {a} /\ Launched' = Launched \cup {a}
        BY <1>0, <3>2, CountsMove
      <4>3. /\ Cardinality(Counted') <= Cardinality(Counted)
            /\ Cardinality(Launched) <= Cardinality(Launched')
            /\ Cardinality(Counted') \in Int /\ Cardinality(Launched') \in 0..N
        BY <4>2, CountsFinite, FS_Subset DEF Counted, Launched
      <4> QED
        BY <1>0, <2>0, <3>2, <4>1, <4>3 DEF CountKept, ActiveCounts, TypeOK
    <3> QED
      BY <2>6, <3>1, <3>2 DEF DeliverCancel
  <2> QED
    BY <1>7, <2>1, <2>2, <2>3, <2>4, <2>5, <2>6 DEF Child
<1>8. CASE Tick \/ UNCHANGED vars
  <2>1. UNCHANGED <<child, active, verdict>>
    BY <1>8 DEF Tick, vars, coordVars, childVars, lockVars
  <2>2. Counted' = Counted /\ Launched' = Launched
    BY <2>1 DEF Counted, Launched
  <2> QED
    BY <1>0, <2>1, <2>2 DEF CountKept, ActiveCounts, TypeOK, Counted
<1> QED
  BY <1>1, <1>7, <1>8 DEF Next
-----------------------------------------------------------------------------
(* Types *)

\* The timeout of the wait is a number of ticks, if there is one.
LEMMA TimeoutType == TypeOK => WaitTimeout \in Nat \cup {Never}
<1> SUFFICES ASSUME TypeOK PROVE WaitTimeout \in Nat \cup {Never}
  OBVIOUS
<1> DEFINE T == (IF more THEN {nextIn} ELSE {}) \cup (IF Bounded THEN {left} ELSE {})
<1>1. T \subseteq Nat
  BY RaceAssumption DEF TypeOK, Bounded, Never
<1>2. CASE T = {}
  BY <1>2 DEF WaitTimeout
<1>3. CASE T # {}
  <2>1. \E n \in T : \A m \in T : n <= m
    <3> HIDE DEF T
    <3> QED
      BY <1>1, <1>3, LeastNatural
  <2>2. Min(T) \in T
    BY <2>1 DEF Min
  <2> QED
    BY <1>1, <1>3, <2>2 DEF WaitTimeout
<1> QED
  BY <1>2, <1>3

\* A step of the coordinator keeps every variable in its type.
LEMMA CoordinatorTypes == TypeOK /\ (Begin \/ Coordinator \/ CloseEnds \/ Interrupt) => TypeOK'
<1> SUFFICES ASSUME TypeOK, Begin \/ Coordinator \/ CloseEnds \/ Interrupt PROVE TypeOK'
  OBVIOUS
<1> USE RaceAssumption DEF TypeOK, closeVars, clockVars, childVars, lockVars
<1>1. CASE Begin
  BY <1>1 DEF Begin
<1>2. CASE StartNext
  <2>1. CASE next > N \/ Expired
    BY <1>2, <2>1 DEF StartNext
  <2>2. CASE ~(next > N \/ Expired)
    <3>1. next \in Addresses /\ next + 1 \in 1..N + 1
      BY <2>2 DEF Addresses
    <3>2. /\ coord' = "head" /\ tasks' = tasks \cup {next}
          /\ child' = [child EXCEPT ![next] = "created"]
          /\ next' = next + 1 /\ nextIn' = Delay
          /\ UNCHANGED <<more, verdict, winner, closeVars, cancels, left, timer, result,
                         cancelled, nap, stream, lockVars>>
      BY <1>2, <2>2 DEF StartNext
    <3> QED
      BY <3>1, <3>2
  <2> QED
    BY <2>1, <2>2
<1>9. CASE Finish
  BY <1>9 DEF Finish
<1>10. CASE Interrupt
  <2>1. verdict' = "cancelled" /\ cancels' \in 0..MaxCancels
    BY <1>10 DEF Interrupt, CancelTasks
  <2>2. coord' \in {coord, "ended", "cancelling"}
        /\ cancelled' \in {cancelled, cancelled \cup (tasks \ Done)}
    BY <1>10 DEF Interrupt, CancelTasks
  <2>3. UNCHANGED <<winner, next, more, tasks, toClose, closing, unclosed, left, nextIn, timer,
                    child, result, nap, stream, holder, waiters, active, since>>
    BY <1>10 DEF Interrupt
  <2> QED
    BY <2>1, <2>2, <2>3
<1>3. CASE Wait
  BY <1>3, TimeoutType DEF Wait
<1>4. CASE LoopEnds \/ Closed
  BY <1>4 DEF LoopEnds, Closed, CancelTasks
<1>5. CASE WakeExpired
  BY <1>5 DEF WakeExpired, CancelTasks, Connected, Done
<1>6. CASE WakeUnsuccessful
  BY <1>6 DEF WakeUnsuccessful, Done
<1>7. CASE WakeWon
  <2>1. Connected \subseteq Addresses
    BY DEF Connected, Done
  <2>2. PICK w \in Connected : winner' = w /\ toClose' = Connected \ {w}
    BY <1>7 DEF WakeWon
  <2>3. /\ verdict' = "stream" /\ coord' \in {"closing", "ended", "cancelling"}
        /\ closing' = closing \/ closing' \in toClose'
        /\ cancelled' \in {cancelled, cancelled \cup (tasks \ Done)}
        /\ tasks' = tasks \ Done
    BY <1>7 DEF WakeWon, CancelTasks
  <2>4. UNCHANGED <<next, more, unclosed, cancels, clockVars, child, result, nap, stream,
                    lockVars>>
    BY <1>7 DEF WakeWon
  <2> QED
    BY <2>1, <2>2, <2>3, <2>4
<1>8. CASE CloseNext
  BY <1>8 DEF CloseNext
<1>11. CASE CloseEnds
  BY <1>11 DEF CloseEnds
<1> QED
  BY <1>1, <1>2, <1>3, <1>4, <1>5, <1>6, <1>7, <1>8, <1>9, <1>10, <1>11 DEF Coordinator

\* So does a step of a child, which moves in the queue of the lock, and of time.
LEMMA NextTypes == IInv /\ [Next]_vars => TypeOK'
<1> SUFFICES ASSUME IInv, [Next]_vars PROVE TypeOK'
  OBVIOUS
<1>0. TypeOK /\ active' \in 0..N
  BY NextCountKept DEF IInv
<1>1. CASE Begin \/ Coordinator \/ CloseEnds \/ Interrupt
  BY <1>0, <1>1, CoordinatorTypes
<1>2. ASSUME NEW a \in Addresses, HandOver(waiters)
      PROVE  holder' \in Addresses \cup {NoOne} /\ waiters' \in Seq(Addresses)
  <2>1. waiters \in Seq(Addresses)
    BY <1>0 DEF TypeOK
  <2> QED
    BY <1>2, <2>1, HandedOver
<1>6. ASSUME NEW a \in Addresses, Enter(a)
      PROVE  /\ child' \in [Addresses -> {"unborn", "created", "queued", "sleeping",
                                          "connecting", "leaving", "done"}]
             /\ nap' \in [Addresses -> 0..Delay]
             /\ holder' \in Addresses \cup {NoOne} /\ waiters' \in Seq(Addresses)
             /\ since' \in 0..Delay
  <2>0. /\ child \in [Addresses -> {"unborn", "created", "queued", "sleeping",
                                    "connecting", "leaving", "done"}]
        /\ nap \in [Addresses -> 0..Delay] /\ since \in 0..Delay /\ Delay \in Nat
        /\ waiters \in Seq(Addresses)
    BY <1>0, RaceAssumption DEF TypeOK
  <2>1. CASE active > 0 /\ since < Delay
    <3>1. /\ child' = [child EXCEPT ![a] = "sleeping"]
          /\ nap' = [nap EXCEPT ![a] = Delay - since]
          /\ holder' = a /\ UNCHANGED <<waiters, since>>
      BY <1>6, <2>1 DEF Enter
    <3>2. Delay - since \in 0..Delay
      BY <2>0
    <3> QED
      BY <2>0, <3>1, <3>2
  <2>2. CASE ~(active > 0 /\ since < Delay)
    <3>1. Launch(a) /\ UNCHANGED nap
      BY <1>6, <2>2 DEF Enter
    <3> QED
      BY <1>0, <1>2, <3>1, RaceAssumption DEF Launch, TypeOK
  <2> QED
    BY <2>1, <2>2
<1>7. ASSUME NEW a \in Addresses, Leave(a)
      PROVE  /\ child' \in [Addresses -> {"unborn", "created", "queued", "sleeping",
                                          "connecting", "leaving", "done"}]
             /\ waiters' \in Seq(Addresses)
  <2>1. CASE holder = NoOne
    BY <1>0, <1>7, <2>1 DEF Leave, TypeOK
  <2>2. CASE holder # NoOne
    <3>1. child' = [child EXCEPT ![a] = "leaving"] /\ waiters' = Append(waiters, a)
      BY <1>7, <2>2 DEF Leave
    <3> QED
      BY <1>0, <3>1 DEF TypeOK
  <2> QED
    BY <2>1, <2>2
<1>3. ASSUME NEW a \in Addresses, Child(a) \/ Connect(a) PROVE TypeOK'
  <2> USE <1>0, RaceAssumption DEF TypeOK, coordVars, closeVars, clockVars
  <2>1. CASE FirstStep(a)
    <3>1. CASE holder = NoOne
      BY <1>6, <2>1, <3>1 DEF FirstStep
    <3>2. CASE holder # NoOne
      <4>1. /\ child' = [child EXCEPT ![a] = "queued"]
            /\ waiters' = Append(waiters, a)
            /\ UNCHANGED <<holder, active, since, nap, coordVars, clockVars, result,
                           cancelled, stream>>
        BY <2>1, <3>2 DEF FirstStep
      <4> QED
        BY <4>1
    <3> QED
      BY <3>1, <3>2
  <2>2. CASE Granted(a)
    BY <1>6, <2>2 DEF Granted
  <2>3. CASE Awake(a)
    BY <1>2, <2>3 DEF Awake, Launch
  <2>4. CASE Depart(a)
    BY <1>2, <2>4 DEF Depart
  <2>5. CASE Connect(a)
    <3>1. /\ result' \in [Addresses -> {"none", "stream", "failed", "cancelled"}]
          /\ stream' \in [Addresses -> {"none", "open", "closed"}]
      BY <2>5 DEF Connect
    <3>2. /\ Leave(a)
          /\ UNCHANGED <<coordVars, clockVars, cancelled, nap, holder, since>>
      BY <2>5 DEF Connect
    <3> QED
      BY <1>7, <3>1, <3>2
  <2>6. CASE DeliverCancel(a)
    <3>1. CASE child[a] = "connecting" /\ Leave(a) /\ UNCHANGED holder
      BY <1>7, <2>6, <3>1 DEF DeliverCancel
    <3>2. CASE HandOver(waiters) /\ child' = [child EXCEPT ![a] = "done"]
      BY <1>2, <2>6, <3>2 DEF DeliverCancel
    <3>3. CASE /\ waiters' = Without(waiters, a) /\ UNCHANGED holder
               /\ child' = [child EXCEPT ![a] = "done"]
      <4>1. waiters' \in Seq(Addresses)
        BY <3>3, Removed
      <4> QED
        BY <2>6, <3>3, <4>1 DEF DeliverCancel
    <3> QED
      BY <2>6, <3>1, <3>2, <3>3 DEF DeliverCancel
  <2> QED
    BY <1>3, <2>1, <2>2, <2>3, <2>4, <2>5, <2>6 DEF Child
<1>4. CASE Tick
  BY <1>0, <1>4, RaceAssumption DEF Tick, CountDown, TypeOK, coordVars, closeVars, Never
<1>5. CASE UNCHANGED vars
  BY <1>0, <1>5 DEF TypeOK, vars, coordVars, closeVars, clockVars, childVars, lockVars
<1> QED
  BY <1>1, <1>3, <1>4, <1>5 DEF Next
-----------------------------------------------------------------------------
(* The steps of a child *)

\* What a step of a child does to it and to the lock: it takes the lock and
\* sleeps, it lets go of the lock, it queues for it, it ends without it, or it
\* is cancelled before it has it.
Sleeps(a) == /\ child' = [child EXCEPT ![a] = "sleeping"]
             /\ \/ child[a] = "created" /\ holder = NoOne
                \/ child[a] = "queued" /\ holder = a
             /\ nap' = [nap EXCEPT ![a] = Delay - since]
             /\ holder' = a /\ UNCHANGED <<waiters, since>>
Passes(a, s) == /\ child' = [child EXCEPT ![a] = s]
                /\ \/ s = "connecting" /\ since' = 0
                   \/ s = "done" /\ UNCHANGED since
                /\ \/ child[a] = "created" /\ holder = NoOne
                   \/ holder = a
                /\ HandOver(waiters) /\ UNCHANGED nap
Queues(a, s) == /\ child' = [child EXCEPT ![a] = s]
                /\ \/ child[a] = "created" /\ s = "queued"
                   \/ child[a] = "connecting" /\ s = "leaving"
                /\ holder # NoOne /\ waiters' = Append(waiters, a)
                /\ UNCHANGED <<holder, nap, since>>
Ends(a) == /\ child' = [child EXCEPT ![a] = "done"]
           /\ child[a] = "connecting" /\ UNCHANGED <<holder, waiters, nap, since>>
Withdraws(a) == /\ child' = [child EXCEPT ![a] = "done"]
                /\ holder # a /\ waiters' = Without(waiters, a)
                /\ UNCHANGED <<holder, nap, since>>

\* Every step of a child is one of these, by a child that is under way, and
\* leaves no cancellation of it behind.
LEMMA ChildSteps ==
    ASSUME LockHeld, NEW a \in Addresses, Child(a) \/ Connect(a)
    PROVE  /\ \/ Sleeps(a) \/ Ends(a) \/ Withdraws(a)
              \/ \E s \in {"connecting", "done"} : Passes(a, s)
              \/ \E s \in {"queued", "leaving"} : Queues(a, s)
           /\ child[a] \notin {"unborn", "done"}
           /\ coord \notin {"start", "head"}
           /\ cancelled' = cancelled \ {a}
           /\ UNCHANGED <<coordVars, clockVars>>
<1>1. ASSUME Enter(a), \/ child[a] = "created" /\ holder = NoOne
                       \/ child[a] = "queued" /\ holder = a
      PROVE  Sleeps(a) \/ Passes(a, "connecting")
  <2>1. CASE active > 0 /\ since < Delay
    BY <1>1, <2>1 DEF Enter, Sleeps
  <2>2. CASE ~(active > 0 /\ since < Delay)
    BY <1>1, <2>2 DEF Enter, Launch, Passes
  <2> QED
    BY <2>1, <2>2
<1>2. ASSUME Leave(a), child[a] = "connecting", UNCHANGED <<holder, nap, since>>
      PROVE  Ends(a) \/ Queues(a, "leaving")
  <2>1. CASE holder = NoOne
    BY <1>2, <2>1 DEF Leave, Ends
  <2>2. CASE holder # NoOne
    BY <1>2, <2>2 DEF Leave, Queues
  <2> QED
    BY <2>1, <2>2
<1>3. CASE FirstStep(a)
  <2>1. CASE holder = NoOne
    BY <1>1, <1>3, <2>1 DEF FirstStep, MayRun
  <2>2. CASE holder # NoOne
    <3>1. Queues(a, "queued")
      BY <1>3, <2>2 DEF FirstStep, Queues
    <3> QED
      BY <1>3, <3>1 DEF FirstStep, MayRun
  <2> QED
    BY <2>1, <2>2
<1>4. CASE Granted(a)
  BY <1>1, <1>4 DEF Granted, MayRun
<1>5. CASE Awake(a)
  <2>1. Passes(a, "connecting")
    BY <1>5 DEF Awake, Launch, Passes, LockHeld
  <2> QED
    BY <1>5, <2>1 DEF Awake, MayRun
<1>6. CASE Depart(a)
  <2>1. Passes(a, "done")
    BY <1>6 DEF Depart, Passes
  <2> QED
    BY <1>6, <2>1 DEF Depart, MayRun
<1>7. CASE Connect(a)
  BY <1>2, <1>7 DEF Connect, MayRun
<1>8. CASE DeliverCancel(a)
  <2>1. CASE child[a] = "connecting" /\ Leave(a) /\ UNCHANGED holder
    BY <1>2, <1>8, <2>1 DEF DeliverCancel
  <2>2. CASE child[a] # "connecting"
    <3>1. /\ child[a] \in {"created", "queued", "sleeping", "leaving"}
          /\ child' = [child EXCEPT ![a] = "done"]
          /\ IF holder = a
             THEN HandOver(waiters)
             ELSE waiters' = Without(waiters, a) /\ UNCHANGED holder
          /\ UNCHANGED <<nap, since>>
      BY <1>8, <2>2 DEF DeliverCancel
    <3>2. Passes(a, "done") \/ Withdraws(a)
      BY <3>1 DEF Passes, Withdraws
    <3> QED
      BY <1>8, <3>1, <3>2 DEF DeliverCancel
  <2> QED
    BY <1>8, <2>1, <2>2 DEF DeliverCancel
<1> QED
  BY <1>3, <1>4, <1>5, <1>6, <1>7, <1>8 DEF Child
-----------------------------------------------------------------------------
(* The lock *)

\* What the coordinator does leaves the lock alone, and the child that it
\* creates had no part in it.
LEMMA CoordinatorChildren ==
    ASSUME TypeOK, Tracked, Begin \/ Coordinator \/ CloseEnds \/ Interrupt
    PROVE  \A a \in Addresses : \/ child'[a] = child[a]
                                \/ child[a] = "unborn" /\ child'[a] = "created"
<1>1. CASE child' = child
  BY <1>1
<1>2. CASE StartNext
  <2>1. \/ child' = child
        \/ next \in Addresses /\ child' = [child EXCEPT ![next] = "created"]
    <3>1. CASE next > N \/ Expired
      BY <1>2, <3>1 DEF StartNext
    <3>2. CASE ~(next > N \/ Expired)
      BY <1>2, <3>2, RaceAssumption DEF StartNext, TypeOK, Addresses
    <3> QED
      BY <3>1, <3>2
  <2>2. next \in Addresses => child[next] = "unborn"
    BY DEF Tracked, TypeOK
  <2> QED
    BY <2>1, <2>2 DEF TypeOK
<1> QED
  BY <1>1, <1>2, CoordinatorApart

\* The lock is handed from one child to the next.
LEMMA NextLockHeld == IInv /\ [Next]_vars => LockHeld'
<1> SUFFICES ASSUME TypeOK, Tracked, LockHeld, [Next]_vars PROVE LockHeld'
  BY DEF IInv
<1>0. waiters \in Seq(Addresses) /\ child \in [Addresses -> {"unborn", "created", "queued",
          "sleeping", "connecting", "leaving", "done"}]
      /\ holder \in Addresses \cup {NoOne}
      /\ \A i \in DOMAIN waiters : waiters[i] \in Addresses
  BY DEF TypeOK
<1>1. CASE Begin \/ Coordinator \/ CloseEnds \/ Interrupt
  <2>1. UNCHANGED <<holder, waiters>>
    BY <1>1, CoordinatorApart DEF lockVars
  <2> QED
    BY <1>0, <1>1, <2>1, CoordinatorChildren DEF LockHeld, NoOne
<1>2. ASSUME NEW a \in Addresses, Child(a) \/ Connect(a) PROVE LockHeld'
  <2>0. \A s : child' = [child EXCEPT ![a] = s] =>
           child'[a] = s /\ \A b \in Addresses : b # a => child'[b] = child[b]
    BY <1>0
  <2>1. CASE Sleeps(a)
    <3>1. child'[a] = "sleeping" /\ \A b \in Addresses : b # a => child'[b] = child[b]
      BY <2>0, <2>1 DEF Sleeps
    <3> QED
      BY <1>0, <2>1, <3>1 DEF Sleeps, LockHeld, NoOne, Addresses
  <2>2. CASE \E s \in {"connecting", "done"} : Passes(a, s)
    <3>1. PICK s \in {"connecting", "done"} : Passes(a, s)
      BY <2>2
    <3>2. child'[a] = s /\ \A b \in Addresses : b # a => child'[b] = child[b]
      BY <2>0, <3>1 DEF Passes
    <3>3. CASE waiters = <<>>
      <4>1. holder' = NoOne /\ waiters' = <<>>
        BY <1>0, <3>1, <3>3, HandedOver DEF Passes
      <4>2. \A b \in Addresses : child'[b] \notin {"sleeping", "queued", "leaving"}
        BY <3>1, <3>2, <3>3 DEF LockHeld, Passes, NoOne, Addresses
      <4> QED
        BY <4>1, <4>2 DEF LockHeld
    <3>4. CASE waiters # <<>>
      <4>1. /\ 1 \in DOMAIN waiters /\ holder' = waiters[1]
            /\ waiters' \in Seq(Addresses) /\ Len(waiters') = Len(waiters) - 1
            /\ \A i \in DOMAIN waiters' : /\ i + 1 \in DOMAIN waiters
                                          /\ waiters'[i] = waiters[i + 1]
        BY <1>0, <3>1, <3>4, HandedOver DEF Passes
      <4>2. holder = a
        BY <3>1, <3>4 DEF LockHeld, Passes
      <4>3. \A i \in DOMAIN waiters : waiters[i] # a /\ child'[waiters[i]] = child[waiters[i]]
        BY <1>0, <3>2, <4>2 DEF LockHeld
      <4>4. holder' \in Addresses /\ child'[holder'] \in {"queued", "leaving"}
        BY <1>0, <4>1, <4>3 DEF LockHeld
      <4>5. \A i \in DOMAIN waiters' : /\ waiters'[i] # holder'
                                       /\ child'[waiters'[i]] \in {"queued", "leaving"}
        <5> TAKE i \in DOMAIN waiters'
        <5>1. i \in Nat /\ i # 0 /\ i + 1 # 1
          BY <4>1
        <5> QED
          BY <4>1, <4>3, <5>1 DEF LockHeld
      <4>6. \A i, j \in DOMAIN waiters' : waiters'[i] = waiters'[j] => i = j
        <5> TAKE i, j \in DOMAIN waiters'
        <5>1. i \in Nat /\ j \in Nat /\ (i + 1 = j + 1 => i = j)
          BY <4>1
        <5> QED
          BY <4>1, <5>1 DEF LockHeld
      <4>7. ASSUME NEW b \in Addresses
            PROVE  /\ child'[b] = "sleeping" => holder' = b
                   /\ child'[b] \in {"queued", "leaving"} =>
                         holder' = b \/ \E i \in DOMAIN waiters' : waiters'[i] = b
        <5>1. CASE b = a
          BY <3>2, <5>1
        <5>2. CASE b # a
          <6>1. child'[b] # "sleeping"
            BY <3>2, <4>2, <5>2 DEF LockHeld
          <6>2. ASSUME child'[b] \in {"queued", "leaving"}, holder' # b
                PROVE  \E i \in DOMAIN waiters' : waiters'[i] = b
            <7>1. PICK k \in DOMAIN waiters : waiters[k] = b
              BY <3>2, <4>2, <5>2, <6>2 DEF LockHeld
            <7>2. k - 1 \in DOMAIN waiters' /\ (k - 1) + 1 = k
              BY <1>0, <4>1, <6>2, <7>1
            <7> QED
              BY <4>1, <7>1, <7>2
          <6> QED
            BY <6>1, <6>2
        <5> QED
          BY <5>1, <5>2
      <4> QED
        BY <4>4, <4>5, <4>6, <4>7 DEF LockHeld, NoOne, Addresses
    <3> QED
      BY <3>3, <3>4
  <2>3. CASE \E s \in {"queued", "leaving"} : Queues(a, s)
    <3>1. PICK s \in {"queued", "leaving"} : Queues(a, s)
      BY <2>3
    <3>2. child'[a] = s /\ \A b \in Addresses : b # a => child'[b] = child[b]
      BY <2>0, <3>1 DEF Queues
    <3>3. child[a] \notin {"sleeping", "queued", "leaving"}
      BY <3>1 DEF Queues
    <3>4. holder' = holder /\ holder \in Addresses /\ holder # a
      BY <1>0, <3>1, <3>3 DEF Queues, LockHeld
    <3>5. /\ waiters' \in Seq(Addresses) /\ Len(waiters') = Len(waiters) + 1
          /\ \A i \in DOMAIN waiters : i \in DOMAIN waiters' /\ waiters'[i] = waiters[i]
          /\ \A i \in DOMAIN waiters' : i \in DOMAIN waiters \/ i = Len(waiters) + 1
          /\ Len(waiters) + 1 \in DOMAIN waiters' /\ waiters'[Len(waiters) + 1] = a
      BY <1>0, <3>1 DEF Queues
    <3>6. \A i \in DOMAIN waiters : waiters[i] # a /\ child'[waiters[i]] = child[waiters[i]]
      BY <1>0, <3>2, <3>3 DEF LockHeld
    <3>7. \A i \in DOMAIN waiters' : /\ waiters'[i] # holder'
                                     /\ child'[waiters'[i]] \in {"queued", "leaving"}
      BY <3>2, <3>4, <3>5, <3>6 DEF LockHeld
    <3>8. \A i, j \in DOMAIN waiters' : waiters'[i] = waiters'[j] => i = j
      BY <3>5, <3>6 DEF LockHeld
    <3>9. \A b \in Addresses :
             /\ child'[b] = "sleeping" => holder' = b
             /\ child'[b] \in {"queued", "leaving"} =>
                   holder' = b \/ \E i \in DOMAIN waiters' : waiters'[i] = b
      BY <3>2, <3>4, <3>5 DEF LockHeld
    <3>10. child'[holder'] \in {"queued", "sleeping", "leaving"} /\ holder' # NoOne
      BY <3>1, <3>2, <3>4 DEF LockHeld, Queues
    <3> QED
      BY <3>7, <3>8, <3>9, <3>10 DEF LockHeld
  <2>4. CASE Ends(a)
    <3>1. child'[a] = "done" /\ child[a] = "connecting" /\ UNCHANGED <<holder, waiters>>
          /\ \A b \in Addresses : b # a => child'[b] = child[b]
      BY <2>0, <2>4 DEF Ends
    <3> QED
      BY <1>0, <3>1 DEF LockHeld, NoOne
  <2>5. CASE Withdraws(a)
    <3>1. child'[a] = "done" /\ holder' = holder /\ holder # a
          /\ \A b \in Addresses : b # a => child'[b] = child[b]
      BY <2>0, <2>5 DEF Withdraws
    <3>2. CASE waiters' = waiters /\ \A i \in DOMAIN waiters : waiters[i] # a
      BY <1>0, <3>1, <3>2 DEF LockHeld, NoOne
    <3>3. CASE waiters' \in Seq(Addresses) /\ \E k \in DOMAIN waiters :
                 /\ waiters[k] = a /\ Len(waiters') = Len(waiters) - 1
                 /\ \A i \in DOMAIN waiters' : waiters'[i] = waiters[IF i < k THEN i ELSE i + 1]
      <4>1. PICK k \in DOMAIN waiters :
                 /\ waiters[k] = a /\ Len(waiters') = Len(waiters) - 1
                 /\ \A i \in DOMAIN waiters' : waiters'[i] = waiters[IF i < k THEN i ELSE i + 1]
        BY <3>3
      <4> DEFINE from(i) == IF i < k THEN i ELSE i + 1
      <4>2. \A i \in DOMAIN waiters' : from(i) \in DOMAIN waiters /\ from(i) # k
        BY <1>0, <3>3, <4>1
      <4>3. \A i, j \in DOMAIN waiters' : from(i) = from(j) => i = j
        BY <1>0, <3>3, <4>1
      <4>4. \A n \in DOMAIN waiters : n # k => \E i \in DOMAIN waiters' : from(i) = n
        <5> TAKE n \in DOMAIN waiters
        <5>1. CASE n < k
          <6>1. n \in DOMAIN waiters' /\ from(n) = n
            BY <1>0, <3>3, <4>1, <5>1
          <6> QED
            BY <6>1
        <5>2. CASE n > k
          <6>1. n - 1 \in DOMAIN waiters' /\ from(n - 1) = n
            BY <1>0, <3>3, <4>1, <5>2
          <6> QED
            BY <6>1
        <5> QED
          BY <1>0, <4>1, <5>1, <5>2
      <4>5. \A i \in DOMAIN waiters' : waiters'[i] = waiters[from(i)]
        BY <4>1
      <4> HIDE DEF from
      <4>6. \A i \in DOMAIN waiters' : /\ waiters'[i] # a
                                       /\ child'[waiters'[i]] = child[waiters'[i]]
        BY <1>0, <3>1, <4>1, <4>2, <4>5 DEF LockHeld
      <4>7. \A i \in DOMAIN waiters' : /\ waiters'[i] # holder'
                                       /\ child'[waiters'[i]] \in {"queued", "leaving"}
        BY <3>1, <4>2, <4>5, <4>6 DEF LockHeld
      <4>8. \A i, j \in DOMAIN waiters' : waiters'[i] = waiters'[j] => i = j
        BY <4>2, <4>3, <4>5 DEF LockHeld
      <4>9. \A b \in Addresses :
               /\ child'[b] = "sleeping" => holder' = b
               /\ child'[b] \in {"queued", "leaving"} =>
                     holder' = b \/ \E i \in DOMAIN waiters' : waiters'[i] = b
        <5> TAKE b \in Addresses
        <5>1. CASE b = a
          BY <3>1, <5>1
        <5>2. CASE b # a
          BY <3>1, <4>1, <4>4, <4>5, <5>2 DEF LockHeld
        <5> QED
          BY <5>1, <5>2
      <4>10. holder' # NoOne /\ child'[holder'] \in {"queued", "sleeping", "leaving"}
        BY <1>0, <3>1, <4>1 DEF LockHeld
      <4> QED
        BY <4>7, <4>8, <4>9, <4>10 DEF LockHeld
    <3> QED
      BY <1>0, <2>5, <3>2, <3>3, Removed DEF Withdraws
  <2> QED
    BY <1>2, <2>1, <2>2, <2>3, <2>4, <2>5, ChildSteps
<1>3. CASE Tick \/ UNCHANGED vars
  <2>1. UNCHANGED <<child, holder, waiters>>
    BY <1>3 DEF Tick, vars, childVars, lockVars
  <2> QED
    BY <2>1 DEF LockHeld
<1> QED
  BY <1>1, <1>2, <1>3 DEF Next

\* Children are created in turn and queue in turn, and the lock is fair.
LEMMA NextInOrder == IInv /\ [Next]_vars => InOrder'
<1> SUFFICES ASSUME TypeOK, Tracked, LockHeld, InOrder, [Next]_vars PROVE InOrder'
  BY DEF IInv
<1>0. waiters \in Seq(Addresses) /\ child \in [Addresses -> {"unborn", "created", "queued",
          "sleeping", "connecting", "leaving", "done"}]
      /\ holder \in Addresses \cup {NoOne} /\ next \in Int
      /\ \A i \in DOMAIN waiters : waiters[i] \in Addresses
  BY RaceAssumption DEF TypeOK
<1>1. CASE Begin \/ Coordinator \/ CloseEnds \/ Interrupt
  <2>1. UNCHANGED <<holder, waiters>>
    BY <1>1, CoordinatorApart DEF lockVars
  <2> QED
    BY <1>0, <1>1, <2>1, CoordinatorChildren DEF InOrder, NoOne
<1>2. ASSUME NEW a \in Addresses, Child(a) \/ Connect(a) PROVE InOrder'
  <2>0. \A s : child' = [child EXCEPT ![a] = s] =>
           child'[a] = s /\ \A b \in Addresses : b # a => child'[b] = child[b]
    BY <1>0
  <2>1. CASE Sleeps(a)
    <3>1. child'[a] = "sleeping" /\ \A b \in Addresses : b # a => child'[b] = child[b]
      BY <2>0, <2>1 DEF Sleeps
    <3>2. \A i \in DOMAIN waiters : waiters[i] # a
      BY <1>0, <2>1 DEF Sleeps, LockHeld, NoOne, Addresses
    <3>3. (holder = a /\ child[holder] = "queued") \/ waiters = <<>>
      BY <2>1 DEF Sleeps, LockHeld
    <3> QED
      BY <1>0, <2>1, <3>1, <3>2, <3>3 DEF Sleeps, InOrder, NoOne, Addresses
  <2>2. CASE \E s \in {"connecting", "done"} : Passes(a, s)
    <3>1. PICK s \in {"connecting", "done"} : Passes(a, s)
      BY <2>2
    <3>2. child'[a] = s /\ \A b \in Addresses : b # a => child'[b] = child[b]
      BY <2>0, <3>1 DEF Passes
    <3>3. CASE waiters = <<>>
      <4>1. holder' = NoOne /\ waiters' = <<>>
        BY <1>0, <3>1, <3>3, HandedOver DEF Passes
      <4> QED
        BY <4>1 DEF InOrder
    <3>4. CASE waiters # <<>>
      <4>1. /\ 1 \in DOMAIN waiters /\ holder' = waiters[1]
            /\ waiters' \in Seq(Addresses) /\ Len(waiters') = Len(waiters) - 1
            /\ \A i \in DOMAIN waiters' : /\ i + 1 \in DOMAIN waiters
                                          /\ waiters'[i] = waiters[i + 1]
        BY <1>0, <3>1, <3>4, HandedOver DEF Passes
      <4>2. holder = a
        BY <3>1, <3>4 DEF LockHeld, Passes
      <4>3. \A i \in DOMAIN waiters : waiters[i] # a /\ child'[waiters[i]] = child[waiters[i]]
                                      /\ child[waiters[i]] \in {"queued", "leaving"}
        BY <1>0, <3>2, <4>2 DEF LockHeld
      <4>4. \A i, j \in DOMAIN waiters' :
               i < j /\ child'[waiters'[i]] = "queued" /\ child'[waiters'[j]] = "queued"
                   => waiters'[i] < waiters'[j]
        <5> TAKE i, j \in DOMAIN waiters'
        <5>1. i < j => i + 1 < j + 1
          BY <4>1
        <5> QED
          BY <4>1, <4>3, <5>1 DEF InOrder
      <4>5. \A i \in DOMAIN waiters' :
               child'[holder'] \in {"queued", "sleeping"} /\ child'[waiters'[i]] = "queued"
                   => holder' < waiters'[i]
        <5> TAKE i \in DOMAIN waiters'
        <5>1. 1 < i + 1
          BY <4>1
        <5> QED
          BY <4>1, <4>3, <5>1 DEF InOrder
      <4> QED
        BY <4>4, <4>5 DEF InOrder
    <3> QED
      BY <3>3, <3>4
  <2>3. CASE \E s \in {"queued", "leaving"} : Queues(a, s)
    <3>1. PICK s \in {"queued", "leaving"} : Queues(a, s)
      BY <2>3
    <3>2. child'[a] = s /\ \A b \in Addresses : b # a => child'[b] = child[b]
      BY <2>0, <3>1 DEF Queues
    <3>3. child[a] \notin {"sleeping", "queued", "leaving"}
      BY <3>1 DEF Queues
    <3>4. holder' = holder /\ holder \in Addresses /\ holder # a
      BY <1>0, <3>1, <3>3 DEF Queues, LockHeld
    <3>5. /\ waiters' \in Seq(Addresses) /\ Len(waiters') = Len(waiters) + 1
          /\ \A i \in DOMAIN waiters : i \in DOMAIN waiters' /\ waiters'[i] = waiters[i]
          /\ \A i \in DOMAIN waiters' : i \in DOMAIN waiters \/ i = Len(waiters) + 1
          /\ Len(waiters) + 1 \in DOMAIN waiters' /\ waiters'[Len(waiters) + 1] = a
      BY <1>0, <3>1 DEF Queues
    <3>6. \A i \in DOMAIN waiters : waiters[i] # a /\ child'[waiters[i]] = child[waiters[i]]
      BY <1>0, <3>2, <3>3 DEF LockHeld
    <3>7. child'[a] = "queued" =>
             \A b \in Addresses : b # a /\ child[b] \in {"queued", "sleeping"} => b < a
      <4>1. child'[a] = "queued" => a + 1 = next
        BY <3>1, <3>2 DEF Queues, Tracked
      <4>2. \A b \in Addresses : child[b] \in {"queued", "sleeping"} => b < next
        BY <1>0 DEF Tracked, Addresses
      <4> QED
        BY <4>1, <4>2 DEF Addresses
    <3>8. \A i, j \in DOMAIN waiters' :
             i < j /\ child'[waiters'[i]] = "queued" /\ child'[waiters'[j]] = "queued"
                 => waiters'[i] < waiters'[j]
      <4> TAKE i, j \in DOMAIN waiters'
      <4>1. CASE j = Len(waiters) + 1 /\ i < j
        <5>1. i \in DOMAIN waiters
          BY <3>5, <4>1
        <5> QED
          BY <1>0, <3>5, <3>6, <3>7, <4>1, <5>1
      <4>2. CASE j # Len(waiters) + 1 /\ i < j
        <5>1. j \in DOMAIN waiters /\ i \in DOMAIN waiters
          BY <1>0, <3>5, <4>2
        <5> QED
          BY <3>5, <3>6, <4>2, <5>1 DEF InOrder
      <4> QED
        BY <4>1, <4>2
    <3>9. \A i \in DOMAIN waiters' :
             child'[holder'] \in {"queued", "sleeping"} /\ child'[waiters'[i]] = "queued"
                 => holder' < waiters'[i]
      BY <3>2, <3>4, <3>5, <3>6, <3>7 DEF InOrder, NoOne, Addresses
    <3> QED
      BY <3>8, <3>9 DEF InOrder
  <2>4. CASE Ends(a)
    <3>1. child'[a] = "done" /\ child[a] = "connecting" /\ UNCHANGED <<holder, waiters>>
          /\ \A b \in Addresses : b # a => child'[b] = child[b]
      BY <2>0, <2>4 DEF Ends
    <3> QED
      BY <1>0, <3>1 DEF InOrder, NoOne
  <2>5. CASE Withdraws(a)
    <3>1. child'[a] = "done" /\ holder' = holder /\ holder # a
          /\ \A b \in Addresses : b # a => child'[b] = child[b]
      BY <2>0, <2>5 DEF Withdraws
    <3>2. CASE waiters' = waiters /\ \A i \in DOMAIN waiters : waiters[i] # a
      BY <1>0, <3>1, <3>2 DEF InOrder, NoOne
    <3>3. CASE waiters' \in Seq(Addresses) /\ \E k \in DOMAIN waiters :
                 /\ waiters[k] = a /\ Len(waiters') = Len(waiters) - 1
                 /\ \A i \in DOMAIN waiters' : waiters'[i] = waiters[IF i < k THEN i ELSE i + 1]
      <4>1. PICK k \in DOMAIN waiters :
                 /\ waiters[k] = a /\ Len(waiters') = Len(waiters) - 1
                 /\ \A i \in DOMAIN waiters' : waiters'[i] = waiters[IF i < k THEN i ELSE i + 1]
        BY <3>3
      <4> DEFINE from(i) == IF i < k THEN i ELSE i + 1
      <4>2. \A i \in DOMAIN waiters' : from(i) \in DOMAIN waiters
        BY <1>0, <3>3, <4>1
      <4>3. \A i, j \in DOMAIN waiters' : i < j => from(i) < from(j)
        BY <1>0, <3>3, <4>1
      <4>4. \A i \in DOMAIN waiters' : waiters'[i] = waiters[from(i)]
        BY <4>1
      <4> HIDE DEF from
      <4>5. \A i \in DOMAIN waiters' : child'[waiters'[i]] = "queued" =>
                                          child[waiters'[i]] = "queued"
        BY <1>0, <3>1, <4>2, <4>4
      <4>6. holder' # NoOne => child'[holder'] = child[holder]
        BY <1>0, <3>1
      <4> QED
        BY <3>1, <4>2, <4>3, <4>4, <4>5, <4>6 DEF InOrder
    <3> QED
      BY <1>0, <2>5, <3>2, <3>3, Removed DEF Withdraws
  <2> QED
    BY <1>2, <2>1, <2>2, <2>3, <2>4, <2>5, ChildSteps
<1>3. CASE Tick \/ UNCHANGED vars
  <2>1. UNCHANGED <<child, holder, waiters>>
    BY <1>3 DEF Tick, vars, childVars, lockVars
  <2> QED
    BY <2>1 DEF InOrder
<1> QED
  BY <1>1, <1>2, <1>3 DEF Next

\* Nobody sleeps when a child is launched but the child itself, and a tick
\* takes as much from the sleep as it adds to the time since the launch.
LEMMA NextNapsLastDelay == IInv /\ [Next]_vars => NapsLastDelay'
<1> SUFFICES ASSUME TypeOK, Tracked, LockHeld, NapsLastDelay, [Next]_vars PROVE NapsLastDelay'
  BY DEF IInv
<1>0. /\ since \in 0..Delay /\ nap \in [Addresses -> 0..Delay] /\ Delay \in Nat
      /\ child \in [Addresses -> {"unborn", "created", "queued", "sleeping", "connecting",
                                  "leaving", "done"}]
  BY RaceAssumption DEF TypeOK
<1>1. CASE Begin \/ Coordinator \/ CloseEnds \/ Interrupt
  <2>1. UNCHANGED <<nap, since>>
    BY <1>1, CoordinatorApart DEF lockVars
  <2> QED
    BY <1>0, <1>1, <2>1, CoordinatorChildren DEF NapsLastDelay
<1>2. ASSUME NEW a \in Addresses, Child(a) \/ Connect(a) PROVE NapsLastDelay'
  <2>0. \A s : child' = [child EXCEPT ![a] = s] =>
           child'[a] = s /\ \A b \in Addresses : b # a => child'[b] = child[b]
    BY <1>0
  <2>1. CASE Sleeps(a)
    <3>1. /\ child'[a] = "sleeping" /\ nap'[a] = Delay - since /\ since' = since
          /\ \A b \in Addresses : b # a => child'[b] = child[b] /\ nap'[b] = nap[b]
      BY <1>0, <2>0, <2>1 DEF Sleeps
    <3> QED
      BY <1>0, <3>1 DEF NapsLastDelay
  <2>2. CASE \E s \in {"connecting", "done"} : Passes(a, s)
    <3>1. PICK s \in {"connecting", "done"} : Passes(a, s)
      BY <2>2
    <3>2. child'[a] = s /\ nap' = nap /\ \A b \in Addresses : b # a => child'[b] = child[b]
      BY <2>0, <3>1 DEF Passes
    <3>3. \A b \in Addresses : child'[b] # "sleeping"
      BY <3>1, <3>2 DEF Passes, LockHeld, NoOne, Addresses
    <3> QED
      BY <3>3 DEF NapsLastDelay
  <2>3. CASE Ends(a) \/ Withdraws(a) \/ \E s \in {"queued", "leaving"} : Queues(a, s)
    <3>1. /\ child'[a] # "sleeping" /\ nap' = nap /\ since' = since
          /\ \A b \in Addresses : b # a => child'[b] = child[b]
      <4>1. CASE Ends(a) \/ Withdraws(a)
        BY <2>0, <4>1 DEF Ends, Withdraws
      <4>2. ASSUME NEW s \in {"queued", "leaving"}, Queues(a, s)
            PROVE  /\ child'[a] # "sleeping" /\ nap' = nap /\ since' = since
                   /\ \A b \in Addresses : b # a => child'[b] = child[b]
        BY <2>0, <4>2 DEF Queues
      <4> QED
        BY <2>3, <4>1, <4>2
    <3> QED
      BY <3>1 DEF NapsLastDelay
  <2> QED
    BY <1>2, <2>1, <2>2, <2>3, ChildSteps
<1>3. CASE Tick
  <2>1. /\ child' = child
        /\ \A a \in Addresses : nap'[a] = CountDown(nap[a])
        /\ since' = IF since < Delay THEN since + 1 ELSE since
    BY <1>3 DEF Tick
  <2>2. \A a \in Addresses : nap[a] \in 0..Delay /\ nap'[a] \in Int /\ nap'[a] >= nap[a] - 1
                             /\ nap'[a] >= 0
    BY <1>0, <2>1 DEF CountDown
  <2>3. CASE since < Delay
    BY <1>0, <2>1, <2>2, <2>3 DEF NapsLastDelay
  <2>4. CASE since = Delay
    BY <1>0, <2>1, <2>2, <2>4 DEF NapsLastDelay
  <2> QED
    BY <1>0, <2>3, <2>4
<1>4. CASE UNCHANGED vars
  BY <1>4 DEF NapsLastDelay, vars, childVars, lockVars
<1> QED
  BY <1>1, <1>2, <1>3, <1>4 DEF Next
-----------------------------------------------------------------------------
(* The coordinator and its tasks *)

\* In short: a child that takes a step goes on without being created anew.
LEMMA ChildMoves ==
    ASSUME TypeOK, LockHeld, NEW a \in Addresses, Child(a) \/ Connect(a)
    PROVE  /\ child[a] \notin {"unborn", "done"}
           /\ child'[a] \in {"queued", "sleeping", "connecting", "leaving", "done"}
           /\ child'[a] = "connecting" => child[a] \in {"created", "queued", "sleeping"}
           /\ \A b \in Addresses : b # a => child'[b] = child[b]
           /\ coord \notin {"start", "head"}
           /\ cancelled' = cancelled \ {a}
           /\ UNCHANGED <<coordVars, clockVars>>
<1>0. \A s : child' = [child EXCEPT ![a] = s] =>
         child'[a] = s /\ \A b \in Addresses : b # a => child'[b] = child[b]
  BY DEF TypeOK
<1>1. CASE Sleeps(a) \/ Ends(a) \/ Withdraws(a)
  BY <1>0, <1>1, ChildSteps DEF Sleeps, Ends, Withdraws
<1>2. ASSUME NEW s \in {"connecting", "done"}, Passes(a, s)
      PROVE  /\ child'[a] = s /\ \A b \in Addresses : b # a => child'[b] = child[b]
             /\ child[a] \in {"created", "queued", "sleeping", "leaving"}
  <2>1. child' = [child EXCEPT ![a] = s] /\ (child[a] = "created" \/ holder = a)
    BY <1>2 DEF Passes
  <2>2. holder = a => child[a] \in {"queued", "sleeping", "leaving"}
    BY DEF LockHeld, NoOne, Addresses
  <2> QED
    BY <1>0, <2>1, <2>2
<1>3. ASSUME NEW s \in {"queued", "leaving"}, Queues(a, s)
      PROVE  child'[a] = s /\ \A b \in Addresses : b # a => child'[b] = child[b]
  BY <1>0, <1>3 DEF Queues
<1>4. ~(child[a] = "leaving" /\ child'[a] = "connecting")
  <2>1. CASE FirstStep(a) \/ Granted(a) \/ Awake(a)
    BY <2>1 DEF FirstStep, Granted, Awake
  <2>2. CASE Connect(a) \/ Depart(a)
    BY <1>0, <2>2 DEF Connect, Depart
  <2>3. CASE DeliverCancel(a)
    BY <1>0, <2>3 DEF DeliverCancel
  <2> QED
    BY <2>1, <2>2, <2>3 DEF Child
<1> QED
  BY <1>1, <1>2, <1>3, <1>4, ChildSteps

\* The coordinator creates its children one by one, tracks them from then on,
\* and cancels no task that is done.
LEMMA NextTracked == IInv /\ [Next]_vars => Tracked'
<1> SUFFICES ASSUME TypeOK, Tracked, Staged, LockHeld, [Next]_vars PROVE Tracked'
  BY DEF IInv
<1>0. /\ next \in Int /\ N \in Int /\ tasks \subseteq Addresses
      /\ child \in [Addresses -> {"unborn", "created", "queued", "sleeping", "connecting",
                                  "leaving", "done"}]
  BY RaceAssumption DEF TypeOK
<1>1. CASE StartNext
  <2>1. CASE next > N \/ Expired
    <3>1. UNCHANGED <<next, tasks, child, cancelled>>
      BY <1>1, <2>1 DEF StartNext
    <3> QED
      BY <3>1 DEF Tracked
  <2>2. CASE ~(next > N \/ Expired)
    <3>1. /\ next \in Addresses /\ next' = next + 1 /\ tasks' = tasks \cup {next}
          /\ child' = [child EXCEPT ![next] = "created"] /\ cancelled' = cancelled
          /\ NoneCreated
      BY <1>1, <2>2, RaceAssumption DEF StartNext, TypeOK, Addresses, Staged
    <3>2. child'[next] = "created" /\ \A b \in Addresses : b # next => child'[b] = child[b]
      BY <1>0, <3>1
    <3>3. \A b \in Addresses : b \in Int
      BY <1>0 DEF Addresses
    <3> QED
      BY <1>0, <3>1, <3>2, <3>3 DEF Tracked, NoneCreated
  <2> QED
    BY <2>1, <2>2
<1>2. CASE Begin \/ Wait \/ Finish \/ CloseNext \/ CloseEnds
  <2>1. UNCHANGED <<next, tasks, child, cancelled>>
    BY <1>2 DEF Begin, Wait, Finish, CloseNext, CloseEnds, childVars
  <2> QED
    BY <2>1 DEF Tracked
<1>3. ASSUME UNCHANGED <<next, child>>, tasks' \in {tasks, tasks \ Done},
             cancelled' \in {cancelled, cancelled \cup (tasks \ Done)}
      PROVE  Tracked'
  <2>1. \A b \in Addresses : /\ b \in tasks' => b \in tasks
                             /\ b \in tasks /\ child[b] # "done" => b \in tasks'
                             /\ b \in cancelled' => b \in cancelled \cup (tasks \ Done)
    BY <1>3 DEF Done
  <2>2. next' = next /\ child' = child
    BY <1>3
  <2>3. \A b \in Addresses : b \in tasks => child[b] # "unborn"
    BY <1>0 DEF Tracked, Addresses
  <2> QED
    BY <2>1, <2>2, <2>3 DEF Tracked, Done
<1>4. CASE LoopEnds \/ Closed \/ Interrupt
  <2>1. UNCHANGED <<next, child>> /\ tasks' = tasks
        /\ cancelled' \in {cancelled, cancelled \cup (tasks \ Done)}
    BY <1>4 DEF LoopEnds, Closed, Interrupt, CancelTasks
  <2> QED
    BY <1>3, <2>1
<1>5. CASE WakeExpired \/ WakeUnsuccessful \/ WakeWon
  <2>1. UNCHANGED <<next, child>> /\ tasks' = tasks \ Done
        /\ cancelled' \in {cancelled, cancelled \cup (tasks \ Done)}
    BY <1>5 DEF WakeExpired, WakeUnsuccessful, WakeWon, CancelTasks, childVars
  <2> QED
    BY <1>3, <2>1
<1>6. ASSUME NEW a \in Addresses, Child(a) \/ Connect(a) PROVE Tracked'
  <2>1. UNCHANGED <<next, tasks>>
    BY <1>6, ChildMoves DEF coordVars
  <2> QED
    BY <1>6, <2>1, ChildMoves DEF Tracked
<1>7. CASE Tick \/ UNCHANGED vars
  <2>1. UNCHANGED <<next, tasks, child, cancelled>>
    BY <1>7 DEF Tick, vars, coordVars, childVars
  <2> QED
    BY <2>1 DEF Tracked
<1> QED
  BY <1>1, <1>2, <1>4, <1>5, <1>6, <1>7 DEF Next, Coordinator

\* What the finally clause does to the stages: the decision stands, and every
\* task that is not done is cancelled.
LEMMA CancelsTasks ==
    ASSUME NEW v, CancelTasks(v), coord # "cancelling", Staged
    PROVE  /\ verdict' = v /\ coord' \in {"ended", "cancelling"}
           /\ coord' = "ended" => tasks \subseteq Done /\ cancelled' = {}
           /\ coord' # "cancelling" => cancelled' = {}
<1>1. CASE tasks \subseteq Done
  BY <1>1 DEF CancelTasks, Staged
<1>2. CASE ~(tasks \subseteq Done)
  BY <1>2 DEF CancelTasks
<1> QED
  BY <1>1, <1>2

\* Each step takes the coordinator from one stage to the next, with what it has
\* decided and what it still owes.
LEMMA NextStaged == IInv /\ [Next]_vars => Staged'
<1> SUFFICES ASSUME TypeOK, Tracked, Staged, LockHeld, [Next]_vars PROVE Staged'
  BY DEF IInv
<1>0. winner \in Addresses \cup {NoOne} /\ NoOne \notin Addresses /\ tasks \subseteq Addresses
      /\ cancels \in Nat
  BY RaceAssumption DEF TypeOK, NoOne, Addresses
<1>1. CASE Begin
  BY <1>0, <1>1 DEF Begin, Staged, Undecided, Done, NoneCreated, childVars, closeVars
<1>2. CASE StartNext
  <2>1. /\ coord = "start" /\ coord' = "head"
        /\ UNCHANGED <<verdict, winner, toClose, closing, cancels, cancelled>>
    BY <1>2 DEF StartNext, closeVars
  <2> QED
    BY <2>1 DEF Staged, Undecided
<1>3. CASE LoopEnds
  <2>1. /\ coord = "head" /\ CancelTasks("denied")
        /\ UNCHANGED <<winner, tasks, toClose, closing, cancels, child>>
    BY <1>3 DEF LoopEnds, closeVars
  <2> QED
    BY <2>1, CancelsTasks DEF Staged, Undecided, Done
<1>4. CASE Wait
  BY <1>4 DEF Wait, Staged, Undecided, childVars, closeVars
<1>5. CASE WakeExpired
  <2>1. /\ coord = "waiting" /\ tasks' = tasks \ Done /\ toClose' = Connected
        /\ UNCHANGED <<winner, closing, cancels, child>>
    BY <1>5 DEF WakeExpired, Woken
  <2>2. CASE Done = {}
    <3>1. CancelTasks("denied") /\ Connected = {}
      BY <1>5, <2>2 DEF WakeExpired, Connected
    <3> QED
      BY <2>1, <2>2, <3>1, CancelsTasks DEF Staged, Undecided, Done
  <2>3. CASE Done # {}
    <3>1. coord' = "gathering" /\ verdict' = "denied" /\ UNCHANGED cancelled
      BY <1>5, <2>3 DEF WakeExpired
    <3> QED
      BY <2>1, <3>1 DEF Staged, Undecided
  <2> QED
    BY <2>2, <2>3
<1>6. CASE WakeUnsuccessful
  <2>1. /\ coord = "waiting" /\ coord' \in {"start", "head"} /\ NoneCreated
        /\ UNCHANGED <<verdict, winner, toClose, closing, cancels, child, cancelled>>
    BY <1>6 DEF WakeUnsuccessful, Woken, childVars, closeVars
  <2> QED
    BY <2>1 DEF Staged, Undecided, NoneCreated
<1>7. CASE WakeWon
  <2>1. PICK w \in Connected : winner' = w
    BY <1>7 DEF WakeWon
  <2>2. /\ coord = "waiting" /\ winner' # NoOne /\ tasks' = tasks \ Done
        /\ UNCHANGED <<cancels, child>>
    BY <1>0, <1>7, <2>1 DEF WakeWon, Woken, Connected, Done
  <2>3. CASE toClose' = {}
    <3>1. CancelTasks("stream") /\ UNCHANGED closing
      BY <1>7, <2>3 DEF WakeWon
    <3> QED
      BY <2>2, <2>3, <3>1, CancelsTasks DEF Staged, Undecided, Done
  <2>4. CASE toClose' # {}
    <3>1. coord' = "closing" /\ verdict' = "stream" /\ UNCHANGED cancelled
      BY <1>7, <2>4 DEF WakeWon
    <3> QED
      BY <2>2, <3>1 DEF Staged, Undecided
  <2> QED
    BY <2>3, <2>4
<1>8. CASE CloseNext
  <2>1. /\ coord \in {"gathering", "closing"} /\ coord' = "closing"
        /\ UNCHANGED <<verdict, winner, cancels, cancelled>>
    BY <1>8 DEF CloseNext, childVars
  <2> QED
    BY <2>1 DEF Staged, Undecided
<1>14. CASE CloseEnds
  <2>1. /\ coord = "closing" /\ coord' = "closing" /\ closing' = NoOne
        /\ UNCHANGED <<verdict, winner, cancels, cancelled>>
    BY <1>14 DEF CloseEnds, Staged
  <2> QED
    BY <2>1 DEF Staged, Undecided
<1>9. CASE Closed
  <2>1. /\ coord \in {"gathering", "closing"} /\ CancelTasks(verdict)
        /\ closing = NoOne /\ (toClose = {} \/ verdict = "cancelled")
        /\ UNCHANGED <<winner, tasks, toClose, closing, cancels, child>>
    BY <1>9 DEF Closed, closeVars
  <2> QED
    BY <2>1, CancelsTasks DEF Staged, Undecided, Done
<1>10. CASE Finish
  <2>1. /\ coord = "cancelling" /\ tasks \subseteq Done /\ coord' = "ended"
        /\ UNCHANGED <<verdict, winner, tasks, toClose, closing, cancels, child, cancelled>>
    BY <1>10 DEF Finish, childVars, closeVars
  <2>2. cancelled = {}
    BY <2>1 DEF Tracked, Done, TypeOK
  <2> QED
    BY <2>1, <2>2 DEF Staged, Undecided, Done
<1>11. CASE Interrupt
  <2>1. UNCHANGED <<winner, tasks, toClose, closing, child>> /\ cancels' > 0
    BY <1>0, <1>11 DEF Interrupt, closeVars
  <2>2. CASE coord = "waiting" /\ CancelTasks("cancelled")
    BY <2>1, <2>2, CancelsTasks DEF Staged, Undecided, Done
  <2>3. CASE /\ coord \in {"gathering", "closing"} /\ verdict' = "cancelled"
             /\ UNCHANGED <<coord, cancelled>>
    BY <2>1, <2>3 DEF Staged, Undecided
  <2>4. CASE coord = "cancelling" /\ verdict' = "cancelled" /\ coord' = "cancelling"
    BY <2>1, <2>4 DEF Staged, Undecided
  <2> QED
    BY <1>11, <2>2, <2>3, <2>4 DEF Interrupt
<1>12. ASSUME NEW a \in Addresses, Child(a) \/ Connect(a) PROVE Staged'
  <2>1. /\ child[a] \notin {"unborn", "done"} /\ a \in tasks
        /\ child'[a] # "created"
        /\ \A b \in Addresses : b # a => child'[b] = child[b]
        /\ cancelled' = cancelled \ {a}
        /\ UNCHANGED <<coord, verdict, winner, next, tasks, toClose, closing, cancels>>
    BY <1>12, ChildMoves DEF coordVars, closeVars, Tracked
  <2> QED
    BY <2>1 DEF Staged, Undecided, Done, NoneCreated
<1>13. CASE Tick \/ UNCHANGED vars
  <2>1. UNCHANGED <<coordVars, child, cancelled>>
    BY <1>13 DEF Tick, vars, childVars
  <2> QED
    BY <2>1 DEF Staged, Undecided, Done, NoneCreated, coordVars, closeVars
<1> QED
  BY <1>1, <1>2, <1>3, <1>4, <1>5, <1>6, <1>7, <1>8, <1>9, <1>10, <1>11, <1>12, <1>13,
     <1>14 DEF Next, Coordinator

\* The coordinator drops tasks that failed and goes on; what it does to a
\* stream it does after it has decided.
LEMMA NextResultsKept == IInv /\ [Next]_vars => ResultsKept'
<1> SUFFICES ASSUME TypeOK, Tracked, Staged, LockHeld, ResultsKept, StreamsOwned, [Next]_vars
             PROVE  ResultsKept'
  BY DEF IInv
<1>0. /\ child \in [Addresses -> {"unborn", "created", "queued", "sleeping", "connecting",
                                  "leaving", "done"}]
      /\ stream \in [Addresses -> {"none", "open", "closed"}]
      /\ result \in [Addresses -> {"none", "stream", "failed", "cancelled"}]
      /\ next \in Int /\ tasks \subseteq Addresses
  BY RaceAssumption DEF TypeOK
<1>1. CASE StartNext
  <2>0. UNCHANGED <<verdict, result, stream>>
    BY <1>1 DEF StartNext
  <2>1. CASE next > N \/ Expired
    <3>1. UNCHANGED <<next, tasks, child>>
      BY <1>1, <2>1 DEF StartNext
    <3> QED
      BY <2>0, <3>1 DEF ResultsKept
  <2>2. CASE ~(next > N \/ Expired)
    <3>1. /\ next \in Addresses /\ next' = next + 1 /\ tasks' = tasks \cup {next}
          /\ child' = [child EXCEPT ![next] = "created"]
      BY <1>1, <2>2, RaceAssumption DEF StartNext, TypeOK, Addresses
    <3>2. /\ child[next] = "unborn" /\ child'[next] = "created"
          /\ \A b \in Addresses : b # next => child'[b] = child[b]
      BY <1>0, <3>1 DEF Tracked
    <3>3. \A b \in Addresses : b < next' /\ b \notin tasks' => b < next /\ b \notin tasks
      BY <1>0, <3>1 DEF Addresses
    <3> QED
      BY <2>0, <3>2, <3>3 DEF ResultsKept, NotConnected
  <2> QED
    BY <2>1, <2>2
<1>2. CASE Begin \/ Wait
  <2>1. UNCHANGED <<verdict, next, tasks, child, result, stream>>
    BY <1>2 DEF Begin, Wait, childVars
  <2> QED
    BY <2>1 DEF ResultsKept
<1>3. CASE WakeUnsuccessful
  <2>1. /\ tasks' = tasks \ Done /\ Connected = {}
        /\ UNCHANGED <<verdict, next, child, result, stream>>
    BY <1>3 DEF WakeUnsuccessful, childVars
  <2>2. verdict = "none" => \A a \in Addresses : a \in Done => result[a] = "failed"
    BY <2>1 DEF ResultsKept, Connected, Done
  <2> QED
    BY <2>1, <2>2 DEF ResultsKept
<1>4. ASSUME verdict' # "none", child' = child,
             \A a \in Addresses : stream'[a] = stream[a] \/ stream[a] # "none"
      PROVE  ResultsKept'
  BY <1>4 DEF ResultsKept
<1>5. CASE \/ LoopEnds \/ WakeExpired \/ WakeWon \/ CloseNext \/ Closed \/ Interrupt
           \/ Finish
  <2>1. verdict' # "none" /\ UNCHANGED <<child, stream>>
    BY <1>5 DEF LoopEnds, WakeExpired, WakeWon, CloseNext, Closed, Interrupt, Finish,
       CancelTasks, Staged, Undecided, childVars
  <2> QED
    BY <1>4, <2>1
<1>6. CASE CloseEnds
  <2>1. stream' = stream \/ stream' = [stream EXCEPT ![closing] = "closed"]
    BY <1>6 DEF CloseEnds
  <2>2. closing \in toClose /\ coord = "closing" /\ UNCHANGED <<child, verdict>>
    BY <1>6 DEF CloseEnds, StreamsOwned, Staged
  <2>3. \A b \in Addresses : stream'[b] = stream[b] \/ stream[b] # "none"
    BY <1>0, <2>1, <2>2 DEF StreamsOwned
  <2> QED
    BY <1>4, <2>2, <2>3 DEF Staged, Undecided
<1>8. ASSUME NEW a \in Addresses, Connect(a) PROVE ResultsKept'
  <2>1. /\ child[a] = "connecting" /\ child'[a] \in {"leaving", "done"}
        /\ \A b \in Addresses : b # a => child'[b] = child[b]
        /\ a \in tasks /\ UNCHANGED <<verdict, next, tasks>>
    <3>1. child[a] = "connecting" /\ Leave(a)
      BY <1>8 DEF Connect
    <3>2. child' = [child EXCEPT ![a] = "done"] \/ child' = [child EXCEPT ![a] = "leaving"]
      BY <3>1 DEF Leave
    <3> QED
      BY <1>0, <1>8, <3>1, <3>2 DEF Connect, coordVars, Tracked
  <2>2. \/ result' = [result EXCEPT ![a] = "stream"] /\ stream' = [stream EXCEPT ![a] = "open"]
        \/ result' = [result EXCEPT ![a] = "failed"] /\ stream' = stream
    BY <1>8 DEF Connect
  <2>3. \A b \in Addresses : b # a => result'[b] = result[b] /\ stream'[b] = stream[b]
    BY <1>0, <2>2
  <2>4. /\ result'[a] \in {"stream", "failed"}
        /\ stream'[a] = IF result'[a] = "stream" THEN "open" ELSE "none"
    BY <1>0, <2>1, <2>2 DEF ResultsKept, NotConnected
  <2> QED
    BY <2>1, <2>3, <2>4 DEF ResultsKept, NotConnected
<1>9. ASSUME NEW a \in Addresses, Child(a) PROVE ResultsKept'
  <2>1. /\ child[a] \notin {"unborn", "done"} /\ child'[a] # "unborn"
        /\ \A b \in Addresses : b # a => child'[b] = child[b]
        /\ UNCHANGED <<verdict, next, tasks, stream>>
    BY <1>9, ChildMoves DEF Child, coordVars, FirstStep, Granted, Awake, Depart, DeliverCancel
  <2>2. CASE FirstStep(a) \/ Granted(a) \/ Awake(a)
    <3>1. child[a] \in {"created", "queued", "sleeping"} /\ result' = result
      BY <2>2 DEF FirstStep, Granted, Awake
    <3>2. child'[a] \in NotConnected
      <4>1. ASSUME Enter(a) PROVE child'[a] \in {"sleeping", "connecting"}
        <5>1. child' = [child EXCEPT ![a] = "sleeping"] \/ child' = [child EXCEPT ![a] = "connecting"]
          BY <4>1 DEF Enter, Launch
        <5> QED
          BY <1>0, <5>1
      <4>2. CASE FirstStep(a)
        BY <1>0, <4>1, <4>2 DEF FirstStep, NotConnected
      <4>3. CASE Granted(a)
        BY <4>1, <4>3 DEF Granted, NotConnected
      <4>4. CASE Awake(a)
        BY <1>0, <4>4 DEF Awake, Launch, NotConnected
      <4> QED
        BY <2>2, <4>2, <4>3, <4>4
    <3> QED
      BY <2>1, <3>1, <3>2 DEF ResultsKept, NotConnected
  <2>3. CASE Depart(a)
    <3>1. child[a] = "leaving" /\ result' = result /\ child'[a] = "done"
      BY <1>0, <2>3 DEF Depart
    <3> QED
      BY <2>1, <3>1 DEF ResultsKept, NotConnected
  <2>4. CASE DeliverCancel(a)
    <3>1. verdict' # "none" /\ child'[a] \in {"leaving", "done"}
      <4>1. child' = [child EXCEPT ![a] = "done"] \/ child' = [child EXCEPT ![a] = "leaving"]
        BY <2>4 DEF DeliverCancel, Leave
      <4> QED
        BY <1>0, <2>1, <2>4, <4>1 DEF DeliverCancel, Staged, Undecided
    <3> QED
      BY <2>1, <3>1 DEF ResultsKept, NotConnected
  <2> QED
    BY <1>9, <2>2, <2>3, <2>4 DEF Child
<1>10. CASE Tick \/ UNCHANGED vars
  <2>1. UNCHANGED <<verdict, next, tasks, child, result, stream>>
    BY <1>10 DEF Tick, vars, coordVars, childVars
  <2> QED
    BY <2>1 DEF ResultsKept
<1> QED
  BY <1>1, <1>2, <1>3, <1>5, <1>6, <1>8, <1>9, <1>10 DEF Next, Coordinator

\* A denial is decided when the deadline is over, or when there is neither a
\* task nor a next address.
LEMMA NextNothingLeftToTry == IInv /\ [Next]_vars => NothingLeftToTry'
<1> SUFFICES ASSUME TypeOK, Tracked, Staged, LockHeld, ResultsKept, NothingLeftToTry, [Next]_vars
             PROVE  NothingLeftToTry'
  BY DEF IInv
<1>0. next \in Int /\ N \in Int /\ left \in Int
  BY RaceAssumption DEF TypeOK, Never
<1>1. CASE StartNext
  <2>1. CASE next > N \/ Expired
    <3>1. more' = FALSE /\ coord' = "head" /\ UNCHANGED <<verdict, next, left, tasks, child, result>>
      BY <1>1, <2>1 DEF StartNext
    <3> QED
      BY <2>1, <3>1 DEF NothingLeftToTry, Expired
  <2>2. CASE ~(next > N \/ Expired)
    <3>1. /\ coord = "start" /\ tasks' # {} /\ next' = next + 1
          /\ UNCHANGED <<more, verdict, left>>
      BY <1>1, <2>2 DEF StartNext
    <3>2. verdict = "none"
      BY <3>1 DEF Staged, Undecided
    <3> QED
      BY <1>0, <2>2, <3>1, <3>2 DEF NothingLeftToTry, Expired
  <2> QED
    BY <2>1, <2>2
<1>2. CASE LoopEnds
  <2>1. /\ coord = "head" /\ coord' # "head" /\ (tasks = {} \/ Expired)
        /\ UNCHANGED <<next, more, left, child, result>>
    BY <1>2 DEF LoopEnds, CancelTasks, clockVars
  <2>2. Expired \/ \A a \in Addresses : result[a] = "failed" /\ child[a] = "done"
    <3>1. CASE tasks = {} /\ ~Expired
      <4>1. next > N /\ verdict = "none"
        BY <2>1, <3>1 DEF NothingLeftToTry, Staged, Undecided
      <4>2. \A a \in Addresses : a < next
        BY <1>0, <4>1 DEF Addresses
      <4> QED
        BY <1>0, <3>1, <4>1, <4>2 DEF ResultsKept, Tracked, Addresses
    <3> QED
      BY <2>1, <3>1
  <2> QED
    BY <2>1, <2>2 DEF NothingLeftToTry, Expired
<1>3. CASE WakeExpired
  <2>1. Expired /\ UNCHANGED <<next, more, left>> /\ coord' # "head"
    BY <1>3 DEF WakeExpired, CancelTasks, clockVars
  <2> QED
    BY <2>1 DEF NothingLeftToTry, Expired
<1>4. CASE WakeUnsuccessful
  <2>1. coord' = "head" /\ tasks' = {} => ~more
    BY <1>4 DEF WakeUnsuccessful
  <2>2. verdict' = "none" /\ UNCHANGED <<next, more, left>>
    BY <1>4 DEF WakeUnsuccessful, Woken, Staged, Undecided, clockVars
  <2> QED
    BY <2>1, <2>2 DEF NothingLeftToTry, Expired
<1>5. CASE Begin \/ Wait \/ Finish \/ CloseNext \/ CloseEnds \/ Closed
  <2>1. /\ coord' # "head" /\ (verdict' = verdict)
        /\ UNCHANGED <<next, more, left, child, result>>
    BY <1>5 DEF Begin, Wait, Finish, CloseNext, CloseEnds, Closed, CancelTasks, Staged,
       clockVars, childVars
  <2> QED
    BY <2>1 DEF NothingLeftToTry, Expired
<1>6. CASE WakeWon \/ Interrupt
  <2>1. coord' # "head" /\ verdict' # "denied" /\ UNCHANGED <<next, more, left>>
    BY <1>6 DEF WakeWon, Interrupt, CancelTasks, clockVars
  <2> QED
    BY <2>1 DEF NothingLeftToTry, Expired
<1>7. ASSUME NEW a \in Addresses, Child(a) \/ Connect(a) PROVE NothingLeftToTry'
  <2>1. child[a] # "done" /\ UNCHANGED <<coordVars, clockVars>>
    BY <1>7, ChildMoves
  <2> QED
    BY <1>7, <2>1 DEF NothingLeftToTry, Expired, coordVars, clockVars
<1>8. CASE Tick \/ UNCHANGED vars
  <2>1. UNCHANGED <<coordVars, child, result>>
    BY <1>8 DEF Tick, vars, childVars
  <2>2. Expired => Expired'
    BY <1>8 DEF Tick, CountDown, Expired, vars, clockVars
  <2> QED
    BY <2>1, <2>2 DEF NothingLeftToTry, coordVars
<1> QED
  BY <1>1, <1>2, <1>3, <1>4, <1>5, <1>6, <1>7, <1>8 DEF Next, Coordinator

\* The coordinator moves the streams of the tasks it drops to those it has to
\* close and to the winner, and closes only the former.
LEMMA NextStreamsOwned == IInv /\ [Next]_vars => StreamsOwned'
<1> SUFFICES ASSUME TypeOK, Tracked, Staged, LockHeld, ResultsKept, StreamsOwned, [Next]_vars
             PROVE  StreamsOwned'
  BY DEF IInv
<1>0. /\ stream \in [Addresses -> {"none", "open", "closed"}]
      /\ tasks \subseteq Addresses /\ toClose \subseteq Addresses
      /\ N \in Int /\ next \in Int
      /\ winner \in Addresses \cup {NoOne} /\ NoOne \notin Addresses
  BY RaceAssumption DEF TypeOK, NoOne, Addresses
<1>1. CASE StartNext
  <2>1. /\ \/ tasks' = tasks
           \/ next \in Addresses /\ tasks' = tasks \cup {next}
        /\ UNCHANGED <<winner, closeVars, stream>> /\ coord = "start"
    <3>1. CASE next > N \/ Expired
      BY <1>1, <3>1 DEF StartNext
    <3>2. CASE ~(next > N \/ Expired)
      BY <1>1, <3>2, RaceAssumption DEF StartNext, TypeOK, Addresses
    <3> QED
      BY <3>1, <3>2
  <2>2. winner = NoOne /\ toClose = {}
    BY <2>1 DEF Staged, Undecided
  <2> QED
    BY <1>0, <2>1, <2>2 DEF StreamsOwned, closeVars
<1>2. CASE Begin \/ LoopEnds \/ Wait \/ Closed \/ Finish \/ Interrupt
  <2>1. UNCHANGED <<winner, tasks, closeVars, stream>>
    BY <1>2 DEF Begin, LoopEnds, Wait, Closed, Finish, Interrupt, childVars
  <2> QED
    BY <2>1 DEF StreamsOwned, closeVars
<1>3. Woken => /\ winner = NoOne /\ toClose = {} /\ closing = NoOne
               /\ Connected \subseteq Addresses
               /\ \A a \in Connected : stream[a] = "open" /\ a \in Done
               /\ \A a \in Addresses \ (tasks \ Done) : stream[a] = "open" => a \in Connected
  <2>1. Woken => verdict = "none" /\ winner = NoOne /\ toClose = {} /\ closing = NoOne
    BY DEF Woken, Staged, Undecided
  <2>2. \A a \in Addresses \ (tasks \ Done) :
           verdict = "none" /\ stream[a] = "open" => a \in Connected
    <3> SUFFICES ASSUME NEW a \in Addresses \ (tasks \ Done), verdict = "none",
                        stream[a] = "open"
                 PROVE  a \in Connected
      OBVIOUS
    <3>1. result[a] = "stream" /\ child[a] \notin NotConnected
      BY DEF ResultsKept
    <3>2. a < next
      BY <1>0, <3>1 DEF Tracked, NotConnected, Addresses
    <3> QED
      BY <3>1, <3>2 DEF ResultsKept, Connected, Done
  <2> QED
    BY <1>0, <2>1, <2>2 DEF ResultsKept, Connected, Done
<1>4. CASE WakeExpired
  <2>1. /\ Woken /\ tasks' = tasks \ Done /\ toClose' = Connected
        /\ UNCHANGED <<winner, closing, unclosed, stream>>
    BY <1>4 DEF WakeExpired
  <2> QED
    BY <1>0, <1>3, <2>1 DEF StreamsOwned
<1>5. CASE WakeUnsuccessful
  <2>1. /\ Woken /\ tasks' = tasks \ Done /\ Connected = {}
        /\ UNCHANGED <<winner, toClose, closing, unclosed, stream>>
    BY <1>5 DEF WakeUnsuccessful, childVars, closeVars
  <2> QED
    BY <1>0, <1>3, <2>1 DEF StreamsOwned
<1>6. CASE WakeWon
  <2>1. PICK w \in Connected : winner' = w /\ toClose' = Connected \ {w}
    BY <1>6 DEF WakeWon
  <2>2. /\ Woken /\ tasks' = tasks \ Done /\ UNCHANGED <<unclosed, stream>>
        /\ closing' = closing \/ closing' \in toClose'
    BY <1>6 DEF WakeWon
  <2> QED
    BY <1>0, <1>3, <2>1, <2>2 DEF StreamsOwned
<1>7. CASE CloseNext
  <2>1. closing' \in toClose /\ UNCHANGED <<winner, tasks, toClose, unclosed, stream>>
    BY <1>7 DEF CloseNext, childVars
  <2> QED
    BY <2>1 DEF StreamsOwned
<1>10. CASE CloseEnds
  <2>1. closing \in toClose /\ closing' = NoOne /\ UNCHANGED <<winner, tasks>>
    BY <1>10 DEF CloseEnds, StreamsOwned
  <2>2. CASE /\ stream' = [stream EXCEPT ![closing] = "closed"]
             /\ toClose' = toClose \ {closing} /\ UNCHANGED unclosed
    <3>1. stream'[closing] = "closed"
          /\ \A b \in Addresses : b # closing => stream'[b] = stream[b]
      BY <1>0, <2>1, <2>2
    <3> QED
      BY <1>0, <2>1, <2>2, <3>1 DEF StreamsOwned
  <2>3. CASE /\ unclosed' = unclosed \cup {closing} /\ toClose' = toClose \ {closing}
             /\ UNCHANGED stream
    BY <2>1, <2>3 DEF StreamsOwned
  <2>4. CASE UNCHANGED <<stream, toClose, unclosed>>
    BY <2>1, <2>4 DEF StreamsOwned
  <2> QED
    BY <1>10, <2>2, <2>3, <2>4 DEF CloseEnds
<1>8. ASSUME NEW a \in Addresses, Child(a) \/ Connect(a) PROVE StreamsOwned'
  <2>1. a \in tasks /\ UNCHANGED <<winner, tasks, toClose, closing, unclosed>>
    BY <1>8, ChildMoves DEF coordVars, closeVars, Tracked
  <2>2. \A b \in Addresses : b # a => stream'[b] = stream[b]
    BY <1>0, <1>8 DEF Child, FirstStep, Granted, Awake, Depart, DeliverCancel, Connect
  <2> QED
    BY <1>0, <2>1, <2>2 DEF StreamsOwned
<1>9. CASE Tick \/ UNCHANGED vars
  <2>1. UNCHANGED <<winner, tasks, toClose, closing, unclosed, stream>>
    BY <1>9 DEF Tick, vars, coordVars, closeVars, childVars
  <2> QED
    BY <2>1 DEF StreamsOwned
<1> QED
  BY <1>1, <1>2, <1>4, <1>5, <1>6, <1>7, <1>8, <1>9, <1>10 DEF Next, Coordinator
-----------------------------------------------------------------------------
(* The invariants *)

\* No child has been created.
LEMMA InitIInv == Init => IInv
<1> SUFFICES ASSUME Init PROVE IInv
  OBVIOUS
<1>1. TypeOK /\ Tracked /\ Staged /\ LockHeld /\ InOrder /\ NapsLastDelay
  BY RaceAssumption DEF Init, TypeOK, Tracked, Staged, Undecided, NoneCreated, Done,
     LockHeld, InOrder, NapsLastDelay, Addresses, NoOne, Never
<1>2. CountKept
  <2>1. Counted = {} /\ Launched = {} /\ active = 0
    BY DEF Init, Counted, Launched
  <2> QED
    BY <2>1, FS_EmptySet DEF CountKept, ActiveCounts, Counted
<1>3. ResultsKept /\ NothingLeftToTry /\ StreamsOwned
  BY RaceAssumption DEF Init, ResultsKept, NotConnected, NothingLeftToTry, StreamsOwned,
     Addresses, NoOne
<1> QED
  BY <1>1, <1>2, <1>3 DEF IInv

\* IInv is an invariant of connect_tcp and its children.
THEOREM Inductive == Spec => []IInv
<1>1. IInv /\ [Next]_vars => IInv'
  BY NextTypes, NextTracked, NextStaged, NextLockHeld, NextInOrder, NextCountKept,
     NextNapsLastDelay, NextResultsKept, NextNothingLeftToTry, NextStreamsOwned DEF IInv
<1> QED
  BY InitIInv, <1>1, PTL DEF Spec
-----------------------------------------------------------------------------
(* What connect_tcp keeps *)

\* Every variable of connect_tcp, its children and the lock stays in its type.
THEOREM TypeCorrect == Spec => []TypeOK
<1>1. IInv => TypeOK
  BY DEF IInv
<1> QED
  BY <1>1, Inductive, PTL

\* Until the coordinator cancels its tasks, active_attempts is the number of
\* attempts that are pending, whoever waits for the lock in a finally clause.
THEOREM AttemptsCounted == Spec => []ActiveCounts
<1>1. IInv => ActiveCounts
  BY DEF IInv, CountKept
<1> QED
  BY <1>1, Inductive, PTL

\* connect_tcp denies before the deadline only after every address has failed.
THEOREM DeniedWithReason == Spec => []DeniedForAReason
<1>1. IInv => DeniedForAReason
  BY DEF IInv, NothingLeftToTry, DeniedForAReason
<1> QED
  BY <1>1, Inductive, PTL

\* However connect_tcp ends, every child has ended and the lock is free.
THEOREM NobodyLeftBehind == Spec => []NothingLeftRunning
<1>1. IInv => NothingLeftRunning
  <2> SUFFICES ASSUME TypeOK, Tracked, Staged, LockHeld, coord = "ended"
               PROVE  /\ \A a \in Addresses : child[a] \in {"unborn", "done"}
                      /\ holder = NoOne /\ waiters = <<>>
    BY DEF IInv, NothingLeftRunning
  <2>1. \A a \in Addresses : child[a] \in {"unborn", "done"}
    BY DEF Tracked, Staged, Done
  <2>2. holder = NoOne
    BY <2>1 DEF TypeOK, LockHeld
  <2> QED
    BY <2>1, <2>2 DEF LockHeld
<1> QED
  BY <1>1, Inductive, PTL

\* The coordinator returns every stream it has observed in a done task, closes
\* it, or tried to, unless it is cancelled over it.
THEOREM StreamsObserved == Spec => []ObservedStreamsAccountedFor
<1>1. IInv => ObservedStreamsAccountedFor
  <2> SUFFICES ASSUME TypeOK, Staged, StreamsOwned, coord = "ended",
                      NEW a \in Addresses \ tasks, stream[a] = "open"
               PROVE  \/ verdict = "stream" /\ a = winner
                      \/ verdict = "cancelled" /\ a \in toClose \cup {winner}
                      \/ a \in unclosed
    BY DEF IInv, ObservedStreamsAccountedFor
  <2>1. a \in toClose \cup unclosed \cup {winner} /\ a # NoOne
    BY DEF StreamsOwned, Addresses, NoOne
  <2>2. CASE verdict = "cancelled"
    BY <2>1, <2>2
  <2>3. CASE verdict # "cancelled"
    BY <2>1, <2>3 DEF Staged
  <2> QED
    BY <2>2, <2>3
<1> QED
  BY <1>1, Inductive, PTL

\* No close, whether it fails or cancels itself, changes what the coordinator has
\* decided, and none hides a cancellation of the coordinator.
THEOREM DecisionsStand == Spec => []DecisionStands
<1>1. IInv => DecisionStands
  <2> SUFFICES ASSUME TypeOK, Staged, coord = "ended" PROVE DecisionStands
    BY DEF IInv, DecisionStands
  <2>1. verdict \in {"stream", "denied", "cancelled"}
    BY DEF TypeOK, Staged, Undecided
  <2> QED
    BY <2>1 DEF Staged, DecisionStands
<1> QED
  BY <1>1, Inductive, PTL
-----------------------------------------------------------------------------
(* What a step of the race may not do *)

\* A child is launched under the lock, which it takes when it is free or holds.
LEMMA LaunchSteps ==
    ASSUME IInv, [Next]_vars, NEW a \in Addresses, LaunchOf(a)
    PROVE  /\ child[a] \in {"created", "queued", "sleeping"}
           /\ child[a] = "created" => holder = NoOne
           /\ child[a] # "created" => holder = a
           /\ child[a] = "sleeping" => nap[a] = 0
           /\ child[a] # "sleeping" => active = 0 \/ since >= Delay
<1>0. TypeOK /\ Tracked /\ LockHeld
  BY DEF IInv
<1>1. PICK b \in Addresses : Child(b) \/ Connect(b)
  <2>1. CASE Begin \/ Coordinator \/ CloseEnds \/ Interrupt
    BY <1>0, <2>1, CoordinatorChildren DEF LaunchOf
  <2>2. CASE Tick \/ UNCHANGED vars
    BY <2>2 DEF Tick, vars, childVars, LaunchOf
  <2> QED
    BY <2>1, <2>2 DEF Next
<1>2. b = a /\ child[a] \in {"created", "queued", "sleeping"}
  BY <1>0, <1>1, ChildMoves DEF LaunchOf
<1>3. child'[a] = "connecting"
  BY DEF LaunchOf
<1>4. ASSUME Enter(a) PROVE active = 0 \/ since >= Delay
  <2>1. ~(active > 0 /\ since < Delay)
    BY <1>0, <1>3, <1>4 DEF Enter, TypeOK
  <2> QED
    BY <1>0, <2>1, RaceAssumption DEF TypeOK
<1>5. CASE FirstStep(a)
  <2>1. CASE holder = NoOne
    BY <1>4, <1>5, <2>1 DEF FirstStep
  <2>2. CASE holder # NoOne
    BY <1>0, <1>3, <1>5, <2>2 DEF FirstStep, TypeOK
  <2> QED
    BY <2>1, <2>2
<1>6. CASE Granted(a)
  BY <1>4, <1>6 DEF Granted
<1>7. CASE Awake(a)
  BY <1>0, <1>7 DEF Awake, LockHeld
<1>8. CASE Connect(a) \/ Depart(a)
  BY <1>2, <1>8 DEF Connect, Depart
<1>9. CASE DeliverCancel(a)
  BY <1>0, <1>2, <1>3, <1>9 DEF DeliverCancel, TypeOK
<1> QED
  BY <1>1, <1>2, <1>5, <1>6, <1>7, <1>8, <1>9 DEF Child

\* While an attempt is pending, the next one starts Delay after the last: the
\* count is not zero, and a sleep ends no sooner.
THEOREM StartsArePaced == Spec => PacedStarts
<1>1. ASSUME IInv, [Next]_vars, NEW a \in Addresses, LaunchOf(a),
             NEW b \in Addresses, child[b] = "connecting"
      PROVE  since >= Delay
  <2>1. CASE child[a] = "sleeping"
    BY <1>1, <2>1, LaunchSteps, RaceAssumption DEF IInv, NapsLastDelay, TypeOK
  <2>2. CASE child[a] # "sleeping"
    <3>1. Counted \in SUBSET Addresses /\ b \in Counted
      BY <1>1 DEF Counted
    <3>2. IsFiniteSet(Counted) /\ Cardinality(Counted) \in Nat /\ Cardinality(Counted) # 0
      BY <3>1, CountsFinite, FS_EmptySet
    <3>3. active # 0
      BY <1>1, <3>2 DEF IInv, CountKept, TypeOK
    <3> QED
      BY <1>1, <2>2, <3>3, LaunchSteps
  <2> QED
    BY <2>1, <2>2
<1>2. IInv /\ [Next]_vars =>
         \A a \in Addresses : LaunchOf(a) /\ (\E b \in Addresses : child[b] = "connecting")
                                  => since >= Delay
  BY <1>1
<1>3. IInv /\ [Next]_vars =>
         [\A a \in Addresses : LaunchOf(a) /\ (\E b \in Addresses : child[b] = "connecting")
                                   => since >= Delay]_vars
  BY <1>2
<1> QED
  BY <1>3, Inductive, PTL DEF Spec, PacedStarts

\* Attempts start in the order of the addresses, although children reach
\* attempt_start_lock in the order of the loop.
THEOREM StartsAreOrdered == Spec => StartsInOrder
<1>1. ASSUME IInv, [Next]_vars, NEW a \in Addresses, LaunchOf(a), NEW b \in 1..a - 1
      PROVE  child[b] \in {"connecting", "leaving", "done"}
  <2>0. TypeOK /\ Tracked /\ LockHeld /\ InOrder /\ b \in Addresses /\ b < a /\ a # NoOne
    BY <1>1, RaceAssumption DEF IInv, Addresses, NoOne
  <2>1. child[b] \notin {"unborn", "created"}
    <3>0. next \in Int /\ a \in Int /\ b \in Int
      BY <2>0, RaceAssumption DEF TypeOK, Addresses
    <3>1. child[a] # "unborn"
      BY <1>1, LaunchSteps
    <3>2. a < next
      BY <1>1, <2>0, <3>0, <3>1 DEF Tracked
    <3> QED
      BY <2>0, <3>0, <3>2 DEF Tracked
  <2>2. child[b] # "sleeping"
    BY <1>1, <2>0, LaunchSteps DEF LockHeld, NoOne, Addresses
  <2>3. child[b] # "queued"
    <3> SUFFICES ASSUME child[b] = "queued" PROVE FALSE
      OBVIOUS
    <3>1. holder = b \/ \E i \in DOMAIN waiters : waiters[i] = b
      BY <2>0 DEF LockHeld
    <3>2. holder # b /\ holder # NoOne
      BY <1>1, <2>0, <3>1, LaunchSteps DEF LockHeld, NoOne, Addresses
    <3>3. holder = a /\ child[a] \in {"queued", "sleeping"}
      BY <1>1, <3>2, LaunchSteps
    <3> QED
      BY <2>0, <3>1, <3>2, <3>3 DEF InOrder, Addresses
  <2> QED
    BY <2>0, <2>1, <2>2, <2>3 DEF TypeOK
<1>2. IInv /\ [Next]_vars =>
         [\A a \in Addresses : LaunchOf(a) =>
             \A b \in 1..a - 1 : child[b] \in {"connecting", "leaving", "done"}]_vars
  BY <1>1
<1> QED
  BY <1>2, Inductive, PTL DEF Spec, StartsInOrder
-----------------------------------------------------------------------------
(* The race implements PinnedConnect *)

Opened == {a \in Addresses : stream[a] # "none"}
ClosedStreams == {a \in Addresses : stream[a] = "closed"}

\* A step that leaves the streams alone is hidden, or ends the call in one of
\* the three ways.
LEMMA EndsAsPromised ==
    ASSUME IInv', stream' = stream, coord \notin {"idle", "ended"}, coord' # "idle"
    PROVE  Promise!Next \/ UNCHANGED Promise!vars
<1>0. Opened' = Opened /\ ClosedStreams' = ClosedStreams
  BY DEF Opened, ClosedStreams
<1>1. CASE coord' # "ended"
  BY <1>0, <1>1 DEF Promise!vars, Opened, ClosedStreams
<1>2. CASE coord' = "ended"
  <2>0. verdict' \in {"stream", "denied", "cancelled"}
    BY <1>2 DEF IInv, TypeOK, Staged, Undecided
  <2>1. CASE verdict' = "denied"
    <3>1. Promise!Deny
      BY <1>0, <1>2, <2>1 DEF Promise!Deny, Opened, ClosedStreams
    <3> QED
      BY <3>1 DEF Promise!Next
  <2>2. CASE verdict' = "cancelled"
    <3>1. Promise!Cancel
      BY <1>0, <1>2, <2>2 DEF Promise!Cancel, Opened, ClosedStreams
    <3> QED
      BY <3>1 DEF Promise!Next
  <2>3. CASE verdict' = "stream"
    <3>1. PICK w \in Addresses : winner' = w /\ stream[w] = "open"
      BY <2>3 DEF IInv, TypeOK, Staged, StreamsOwned
    <3>2. Promise!Return(w)
      BY <1>0, <1>2, <2>3, <3>1 DEF Promise!Return, Opened, ClosedStreams
    <3> QED
      BY <3>2 DEF Promise!Next
  <2> QED
    BY <2>0, <2>1, <2>2, <2>3
<1> QED
  BY <1>1, <1>2

\* A step that closes a stream while the call is on is PinnedConnect's Close.
LEMMA ClosesAsPromised ==
    ASSUME TypeOK, NEW a \in Addresses, stream[a] = "open",
           stream' = [stream EXCEPT ![a] = "closed"],
           coord \notin {"idle", "ended"}, coord' \notin {"idle", "ended"}
    PROVE  Promise!Next
<1>1. Opened' = Opened /\ ClosedStreams' = ClosedStreams \cup {a}
  BY DEF TypeOK, Opened, ClosedStreams
<1>2. Promise!Close(a)
  BY <1>1 DEF Promise!Close, Opened, ClosedStreams
<1> QED
  BY <1>2 DEF Promise!Next

\* A step that opens one is its Open.
LEMMA OpensAsPromised ==
    ASSUME TypeOK, NEW a \in Addresses, stream[a] = "none",
           stream' = [stream EXCEPT ![a] = "open"],
           coord \notin {"idle", "ended"}, coord' \notin {"idle", "ended"}
    PROVE  Promise!Next
<1>1. Opened' = Opened \cup {a} /\ ClosedStreams' = ClosedStreams
  BY DEF TypeOK, Opened, ClosedStreams
<1>2. Promise!Open(a)
  BY <1>1 DEF Promise!Open, Opened, ClosedStreams
<1> QED
  BY <1>2 DEF Promise!Next

\* The call has not begun.
LEMMA InitPromise == Init => Promise!Init
  BY DEF Init, Promise!Init

\* A step of the race is one of PinnedConnect, or hidden from it.
LEMMA NextPromise == IInv /\ IInv' /\ [Next]_vars => [Promise!Next]_(Promise!vars)
<1> SUFFICES ASSUME IInv, IInv', [Next]_vars
             PROVE  Promise!Next \/ UNCHANGED Promise!vars
  OBVIOUS
<1>0. TypeOK /\ Tracked /\ Staged /\ ResultsKept /\ StreamsOwned
  BY DEF IInv
<1>1. CASE Begin
  <2>1. coord = "idle" /\ coord' = "start" /\ stream' = stream
    BY <1>1 DEF Begin, childVars
  <2>2. Promise!Begin
    BY <2>1 DEF Promise!Begin
  <2> QED
    BY <2>2 DEF Promise!Next
<1>2. CASE StartNext \/ LoopEnds \/ Wait \/ WakeExpired \/ WakeUnsuccessful \/ WakeWon \/ CloseNext
           \/ Closed \/ Finish \/ Interrupt
  <2>1. stream' = stream /\ coord \notin {"idle", "ended"} /\ coord' # "idle"
    BY <1>2 DEF StartNext, LoopEnds, Wait, WakeExpired, WakeUnsuccessful, WakeWon,
       CloseNext, Closed, Finish, Interrupt, Woken, CancelTasks, childVars
  <2> QED
    BY <2>1, EndsAsPromised
<1>3. CASE CloseEnds
  <2>1. /\ closing \in toClose /\ coord = "closing" /\ coord' = "closing"
        /\ UNCHANGED <<verdict, winner>>
    BY <1>0, <1>3 DEF CloseEnds, StreamsOwned, Staged
  <2>2. CASE stream' = [stream EXCEPT ![closing] = "closed"]
    <3>1. closing \in Addresses /\ stream[closing] = "open"
      BY <1>0, <2>1 DEF TypeOK, StreamsOwned
    <3> QED
      BY <1>0, <2>1, <2>2, <3>1, ClosesAsPromised
  <2>3. CASE stream' = stream
    BY <2>1, <2>3 DEF Promise!vars
  <2> QED
    BY <1>3, <2>2, <2>3 DEF CloseEnds
<1>5. ASSUME NEW a \in Addresses, Connect(a) PROVE Promise!Next \/ UNCHANGED Promise!vars
  <2>1. child[a] = "connecting" /\ coord' = coord /\ verdict' = verdict /\ winner' = winner
    BY <1>5 DEF Connect, coordVars
  <2>2. coord \notin {"idle", "ended"}
    BY <1>0, <2>1, RaceAssumption DEF Tracked, Staged, Done, Addresses
  <2>3. CASE stream' = [stream EXCEPT ![a] = "open"]
    <3>1. stream[a] = "none"
      BY <1>0, <2>1 DEF ResultsKept, NotConnected
    <3> QED
      BY <1>0, <2>1, <2>2, <2>3, <3>1, OpensAsPromised
  <2>4. CASE stream' = stream
    BY <2>1, <2>4 DEF Promise!vars
  <2> QED
    BY <1>5, <2>3, <2>4 DEF Connect
<1>6. CASE (\E a \in Addresses : Child(a)) \/ Tick \/ UNCHANGED vars
  <2>1. UNCHANGED <<coordVars, stream>>
    BY <1>6 DEF Child, FirstStep, Granted, Awake, Depart, DeliverCancel, Tick, vars, childVars
  <2> QED
    BY <2>1 DEF Promise!vars, coordVars
<1> QED
  BY <1>1, <1>2, <1>3, <1>5, <1>6 DEF Next, Coordinator

\* connect_tcp implements PinnedConnect, as far as safety goes: each of its
\* steps is a step of the abstract connect or a stutter.
THEOREM ImplementsPromise == Spec => KeepsPromise
<1>1. Spec => Promise!Init
  BY InitPromise DEF Spec
<1> QED
  BY <1>1, NextPromise, Inductive, PTL DEF Spec, KeepsPromise, Promise!SafeSpec
=============================================================================

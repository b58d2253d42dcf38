------------------------- MODULE SyncConnectProofs -------------------------
(***************************************************************************)
(* Proofs about SyncConnect, for every number of addresses and every       *)
(* budget: why calls are denied, when they are over, and that each step is *)
(* one that PinnedConnect allows.                                          *)
(***************************************************************************)
EXTENDS SyncConnect, TLAPS

Types == /\ bounded \in BOOLEAN
         /\ prompt \in BOOLEAN
         /\ pc \in {"idle", "next", "connecting", "stream", "denied"}
         /\ address \in 1..N + 1
         /\ left \in Int
         /\ allowed \in Nat
         /\ result \in [Addresses -> {"untried", "failed", "stream"}]

\* The addresses before the one at hand have failed, the one at hand has a
\* stream if the call has, and those behind it are untouched.
InTurn == \A a \in Addresses :
    /\ a < address => result[a] = "failed"
    /\ a = address => result[a] = IF pc = "stream" THEN "stream" ELSE "untried"
    /\ a > address => result[a] = "untried"

\* An attempt is at an address, and a denial at the end of one of the two.
AtHand == /\ pc \in {"connecting", "stream"} => address <= N
          /\ pc = "denied" => address > N \/ Expired

\* On a prompt thread the timeout of the running attempt is what is left of the
\* budget, so that no attempt outlasts it; without a deadline nothing is spent.
SharedBudget == /\ ~bounded => left = Budget
                /\ prompt => left >= 0
                /\ prompt /\ bounded /\ pc = "connecting" => allowed = left

IInv == Types /\ InTurn /\ AtHand /\ SharedBudget
-----------------------------------------------------------------------------
\* No address was tried and nothing was spent.
LEMMA InitIInv == Init => IInv
  BY SyncAssumption DEF Init, IInv, Types, InTurn, AtHand, SharedBudget, Addresses

\* A step keeps every variable in its type.
LEMMA NextTypes == IInv /\ [Next]_vars => Types'
<1> SUFFICES ASSUME Types, AtHand, SharedBudget, [Next]_vars
             PROVE  Types'
  BY DEF IInv
<1> USE SyncAssumption DEF Types, Addresses, circumstances
<1>1. CASE Begin
  BY <1>1 DEF Begin
<1>2. CASE Deny
  BY <1>2 DEF Deny
<1>3. CASE Attempt
  BY <1>3 DEF Attempt, Expired, SharedBudget
<1>4. CASE Connected
  BY <1>4 DEF Connected
<1>5. CASE Failed
  BY <1>5 DEF Failed, AtHand
<1>6. CASE Tick
  BY <1>6 DEF Tick
<1>7. CASE UNCHANGED vars
  BY <1>7 DEF vars
<1> QED
  BY <1>1, <1>2, <1>3, <1>4, <1>5, <1>6, <1>7 DEF Next

\* Connected and Failed change the result at hand; Failed moves on.
LEMMA NextInTurn == IInv /\ [Next]_vars => InTurn'
<1> SUFFICES ASSUME Types, InTurn, AtHand, [Next]_vars
             PROVE  InTurn'
  BY DEF IInv
<1> USE SyncAssumption DEF Types, InTurn, Addresses, circumstances
<1>1. CASE Begin
  BY <1>1 DEF Begin
<1>2. CASE Deny
  BY <1>2 DEF Deny
<1>3. CASE Attempt
  BY <1>3 DEF Attempt
<1>4. CASE Connected
  BY <1>4 DEF Connected
<1>5. CASE Failed
  BY <1>5 DEF Failed
<1>6. CASE Tick
  BY <1>6 DEF Tick
<1>7. CASE UNCHANGED vars
  BY <1>7 DEF vars
<1> QED
  BY <1>1, <1>2, <1>3, <1>4, <1>5, <1>6, <1>7 DEF Next

\* Attempts begin at addresses there are; a call is denied for one of two
\* reasons, and neither the address nor the time changes after that.
LEMMA NextAtHand == IInv /\ [Next]_vars => AtHand'
<1> SUFFICES ASSUME Types, AtHand, [Next]_vars
             PROVE  AtHand'
  BY DEF IInv
<1> USE SyncAssumption DEF Types, AtHand, Expired, circumstances
<1>1. CASE Begin \/ Deny \/ Attempt
  BY <1>1 DEF Begin, Deny, Attempt
<1>2. CASE Connected \/ Failed
  BY <1>2 DEF Connected, Failed
<1>3. CASE Tick
  BY <1>3 DEF Tick
<1>4. CASE UNCHANGED vars
  BY <1>4 DEF vars
<1> QED
  BY <1>1, <1>2, <1>3, <1>4 DEF Next

\* Attempt hands over what is left; a tick takes one of both.
LEMMA NextSharedBudget == IInv /\ [Next]_vars => SharedBudget'
<1> SUFFICES ASSUME Types, SharedBudget, [Next]_vars
             PROVE  SharedBudget'
  BY DEF IInv
<1> USE SyncAssumption DEF Types, SharedBudget, circumstances
<1>1. CASE Begin \/ Deny \/ Attempt
  BY <1>1 DEF Begin, Deny, Attempt
<1>2. CASE Connected \/ Failed
  BY <1>2 DEF Connected, Failed
<1>3. CASE Tick
  BY <1>3 DEF Tick, AttemptOver
<1>4. CASE UNCHANGED vars
  BY <1>4 DEF vars
<1> QED
  BY <1>1, <1>2, <1>3, <1>4 DEF Next

\* IInv is an invariant of the sequential connect.
THEOREM Inductive == Spec => []IInv
<1>1. IInv /\ [Next]_vars => IInv'
  BY NextTypes, NextInTurn, NextAtHand, NextSharedBudget DEF IInv
<1> QED
  BY InitIInv, <1>1, PTL DEF Spec
-----------------------------------------------------------------------------
\* A denied call drops no stream, and has tried every address unless its
\* deadline has passed.
THEOREM DeniedWithReason == Spec => []DeniedForAReason
<1>1. IInv => DeniedForAReason
  BY SyncAssumption DEF IInv, Types, InTurn, AtHand, DeniedForAReason, Addresses
<1> QED
  BY <1>1, Inductive, PTL

\* On a prompt thread no call outlasts its budget, however many addresses.
THEOREM BudgetShared == Spec => []OverByDeadline
<1>1. IInv => OverByDeadline
  BY DEF IInv, SharedBudget, OverByDeadline
<1> QED
  BY <1>1, Inductive, PTL
-----------------------------------------------------------------------------
Streams == {a \in Addresses : result[a] = "stream"}

OneStream == Streams = IF pc = "stream" THEN {address} ELSE {}

\* Nothing is connected before the call has its stream, and then that one is.
LEMMA StreamAtHand == IInv => OneStream
  BY SyncAssumption DEF IInv, Types, InTurn, AtHand, Streams, OneStream, Addresses

\* The call has not begun.
LEMMA InitPromise == Init => Promise!Init
  BY SyncAssumption DEF Init, Promise!Init, Addresses

\* A step of the backend is one of PinnedConnect, or hidden from it.
LEMMA NextPromise == OneStream /\ OneStream' /\ IInv /\ [Next]_vars
                         => [Promise!Next]_(Promise!vars)
<1> SUFFICES ASSUME OneStream, OneStream', IInv, [Next]_vars
             PROVE  Promise!Next \/ UNCHANGED Promise!vars
  OBVIOUS
<1> USE DEF Streams, OneStream
<1>1. CASE Begin
  <2>1. Promise!Begin
    BY <1>1 DEF Begin, Promise!Begin, Addresses
  <2> QED
    BY <2>1 DEF Promise!Next
<1>2. CASE Deny
  <2>1. Promise!Deny
    BY <1>2 DEF Deny, Promise!Deny, Addresses
  <2> QED
    BY <2>1 DEF Promise!Next
<1>3. CASE Connected
  <2>1. address \in Addresses
    BY <1>3, SyncAssumption DEF IInv, Types, AtHand, Connected, Addresses
  <2>2. \E a \in Addresses : Promise!Return(a)
    BY <1>3, <2>1 DEF Connected, Promise!Return
  <2> QED
    BY <2>2 DEF Promise!Next
<1>4. CASE Attempt \/ Failed \/ Tick
  <2>1. /\ pc \in {"next", "connecting"}
        /\ pc' \in {"next", "connecting"}
    BY <1>4 DEF Attempt, Failed, Tick
  <2> QED
    BY <2>1 DEF Promise!vars
<1>5. CASE UNCHANGED vars
  BY <1>5 DEF vars, Promise!vars
<1> QED
  BY <1>1, <1>2, <1>3, <1>4, <1>5 DEF Next

\* The sequential connect implements PinnedConnect, as far as safety goes.
THEOREM ImplementsPromise == Spec => Promise!SafeSpec
<1>1. Spec => Promise!Init
  BY InitPromise DEF Spec
<1> QED
  BY <1>1, StreamAtHand, NextPromise, Inductive, PTL DEF Spec, Promise!SafeSpec
=============================================================================

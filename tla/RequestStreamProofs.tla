------------------------ MODULE RequestStreamProofs ------------------------
(***************************************************************************)
(* Proofs about RequestStream, for every set of iterations, every budget,  *)
(* every set of declared lengths and every chunk size.                     *)
(***************************************************************************)
EXTENDS RequestStream, TLAPS

\* The generators that got at the source and have not been refused.
Reads(i) == iter[i] \in {"reading", "yielded", "complete", "failed"}

\* Before the first iteration starts nothing has happened.
NothingBeforeStart ==
    ~started => sent = 0 /\ consumed = 0 /\ \A i \in Iterations : iter[i] = "new"

\* While a generator reads, the bytes counted are the bytes that left.
CountIsSent == \A i \in Iterations : Reads(i) => consumed = sent

\* SentWithinBounds alone is not inductive: a chunk is checked against the
\* count, so the count has to be the bytes sent, and two readers would break
\* that when one of them is refused.
IInv == /\ TypeOK
        /\ NothingBeforeStart
        /\ OneReader
        /\ CountIsSent
        /\ SentWithinBounds
        /\ CompleteIsExact
        /\ DenialCloses
-----------------------------------------------------------------------------
\* No iteration has started, and no byte was counted.
LEMMA InitIInv == Init => IInv
<1> SUFFICES ASSUME Init PROVE IInv
  OBVIOUS
<1> USE BytesAssumption, ChunkAssumption DEF Init, Unknown
<1>1. TypeOK
  <2>1. 0 \in 0..MaxBytes + MaxChunk
    OBVIOUS
  <2>2. iter \in [Iterations -> {"new"}]
    OBVIOUS
  <2> QED
    BY <2>1, <2>2 DEF TypeOK
<1>2. SentWithinBounds
  BY DEF SentWithinBounds, Exceeds
<1>3. NothingBeforeStart /\ OneReader /\ CountIsSent
  BY DEF NothingBeforeStart, OneReader, CountIsSent
<1>4. CompleteIsExact /\ DenialCloses
  BY DEF CompleteIsExact, DenialCloses
<1> QED
  BY <1>1, <1>2, <1>3, <1>4 DEF IInv

\* Every step of a generator and every close preserves the invariant.
LEMMA NextIInv == IInv /\ [Next]_vars => IInv'
<1> SUFFICES ASSUME IInv, [Next]_vars PROVE IInv'
  OBVIOUS
<1> USE BytesAssumption, ChunkAssumption
    DEF IInv, TypeOK, NothingBeforeStart, OneReader, CountIsSent, Reads,
        SentWithinBounds, Exceeds, CompleteIsExact, DenialCloses, Unknown
<1>1. ASSUME NEW i \in Iterations, Start(i) PROVE IInv'
  <2>1. CASE started
    BY <1>1, <2>1 DEF Start, CloseAndDeny
  <2>2. CASE ~started
    BY <1>1, <2>2 DEF Start
  <2> QED
    BY <2>1, <2>2
<1>2. ASSUME NEW i \in Iterations, NEW n \in 0..MaxChunk, Chunk(i, n)
      PROVE  IInv'
  <2>1. consumed = sent /\ started
    BY <1>2 DEF Chunk
  <2>2. CASE Exceeds(consumed + n)
    <3>1. /\ sent' = sent /\ consumed' = consumed + n /\ closed' = TRUE
          /\ iter' = [iter EXCEPT ![i] = "denied"]
          /\ UNCHANGED <<declared, started>>
      BY <1>2, <2>2 DEF Chunk, CloseAndDeny
    <3>2. SentWithinBounds'
      BY <3>1
    <3>3. consumed \in Int /\ consumed <= MaxBytes /\ n \in 0..MaxChunk
      BY <2>1
    <3>4. TypeOK'
      BY <3>1, <3>3
    <3>5. NothingBeforeStart' /\ OneReader' /\ CountIsSent' /\ DenialCloses'
      BY <1>2, <2>1, <3>1 DEF Chunk
    <3>6. CompleteIsExact'
      BY <3>1
    <3> QED
      BY <3>2, <3>4, <3>5, <3>6
  <2>3. CASE ~Exceeds(consumed + n)
    <3>1. /\ sent' = sent + n /\ consumed' = consumed + n
          /\ iter' = [iter EXCEPT ![i] = "yielded"]
          /\ UNCHANGED <<declared, started, closed>>
      BY <1>2, <2>3 DEF Chunk
    <3>2. SentWithinBounds'
      BY <2>1, <2>3, <3>1
    <3>3. TypeOK'
      BY <2>1, <2>3, <3>1
    <3>4. NothingBeforeStart' /\ OneReader' /\ CountIsSent' /\ DenialCloses'
      BY <1>2, <2>1, <3>1 DEF Chunk
    <3>5. CompleteIsExact'
      BY <1>2, <3>1 DEF Chunk
    <3> QED
      BY <3>2, <3>3, <3>4, <3>5
  <2> QED
    BY <2>2, <2>3
<1>3. ASSUME NEW i \in Iterations, NotBytes(i) PROVE IInv'
  BY <1>3 DEF NotBytes, CloseAndDeny
<1>4. ASSUME NEW i \in Iterations, End(i) PROVE IInv'
  <2>1. CASE declared # Unknown /\ consumed # declared
    BY <1>4, <2>1 DEF End, CloseAndDeny
  <2>2. CASE ~(declared # Unknown /\ consumed # declared)
    BY <1>4, <2>2 DEF End
  <2> QED
    BY <2>1, <2>2
<1>5. ASSUME NEW i \in Iterations, SourceFails(i) PROVE IInv'
  BY <1>5 DEF SourceFails
<1>6. ASSUME NEW i \in Iterations, Resume(i) PROVE IInv'
  BY <1>6 DEF Resume
<1>7. ASSUME NEW i \in Iterations, GiveUp(i) PROVE IInv'
  BY <1>7 DEF GiveUp
<1>8. CASE Close
  BY <1>8 DEF Close
<1>9. CASE UNCHANGED vars
  BY <1>9 DEF vars
<1> QED
  BY <1>1, <1>2, <1>3, <1>4, <1>5, <1>6, <1>7, <1>8, <1>9 DEF Next

\* IInv is an invariant of the request stream.
THEOREM Inductive == Spec => []IInv
  BY InitIInv, NextIInv, PTL DEF Spec

\* Type correctness: the count never runs further than one chunk past the
\* policy's budget.
THEOREM TypeCorrect == Spec => []TypeOK
<1>1. IInv => TypeOK
  BY DEF IInv
<1> QED
  BY <1>1, Inductive, PTL

\* However often the pool iterates the wrapper and whatever the source gives,
\* no more than the policy and the declared length allow leaves it.
THEOREM BodyWithinBounds == Spec => []SentWithinBounds
<1>1. IInv => SentWithinBounds
  BY DEF IInv
<1> QED
  BY <1>1, Inductive, PTL

\* A body the pool takes as complete has exactly its declared length.
THEOREM BodyExact == Spec => []CompleteIsExact
<1>1. IInv => CompleteIsExact
  BY DEF IInv
<1> QED
  BY <1>1, Inductive, PTL

\* Of all the iterations one gets at the source, the others are refused.
THEOREM OneReaderOnly == Spec => []OneReader
<1>1. IInv => OneReader
  BY DEF IInv
<1> QED
  BY <1>1, Inductive, PTL

\* No iteration is refused without the source having been told to close.
THEOREM DenialsClose == Spec => []DenialCloses
<1>1. IInv => DenialCloses
  BY DEF IInv
<1> QED
  BY <1>1, Inductive, PTL
=============================================================================

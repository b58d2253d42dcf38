--------------------------- MODULE RequestStream ---------------------------
(***************************************************************************)
(* _BoundedSyncRequestStream and _BoundedAsyncRequestStream of             *)
(* egressweave.request_body_safety: the wrapper around the caller's body   *)
(* stream that the connection pool iterates, perhaps again for a retry,    *)
(* perhaps giving up half-way.  Every iteration is a generator of its own  *)
(* over the one source and the one byte count.  A step is the run of a     *)
(* generator from one await or yield to the next; the synchronous wrapper  *)
(* is the special case whose generators run one after the other.           *)
(***************************************************************************)
EXTENDS Integers

CONSTANTS
    Iterations,   \* the iterations of the wrapper
    MaxBytes,     \* policy.max_request_bytes
    Declarations, \* lengths a request may declare, or Unknown
    MaxChunk      \* bound on the size of one chunk of the source

Unknown == -1

ASSUME BytesAssumption == /\ MaxBytes \in Nat \ {0}
                          /\ Declarations \subseteq Nat \cup {Unknown}
                          /\ \A d \in Declarations : d <= MaxBytes
ASSUME ChunkAssumption == MaxChunk \in Nat

VARIABLES
    declared,   \* _declared_request_bytes
    iter,       \* where each generator is
    started,    \* _iteration_started
    consumed,   \* _consumed_bytes
    closed,     \* the source was told to close
    sent        \* bytes the generators have yielded, in total

vars == <<declared, iter, started, consumed, closed, sent>>

Init == /\ declared \in Declarations
        /\ iter = [i \in Iterations |-> "new"]
        /\ started = FALSE
        /\ consumed = 0
        /\ closed = FALSE
        /\ sent = 0

\* close() or aclose() of the source, then the generic denial.  A task that is
\* cancelled while it awaits the aclose counts as denied as well: its generator
\* is over, and the source was told to close.
CloseAndDeny(i) == /\ closed' = TRUE
                   /\ iter' = [iter EXCEPT ![i] = "denied"]

\* Mutant: a retry starts afresh.
StartAfresh(i) == /\ iter[i] = "new"
                  /\ iter' = [iter EXCEPT ![i] = "reading"]
                  /\ consumed' = 0
                  /\ UNCHANGED <<declared, started, closed, sent>>

\* The first next() of a generator: only the first iteration may go on.
Start(i) ==
    /\ iter[i] = "new"
    /\ IF started
       THEN CloseAndDeny(i) /\ UNCHANGED started
       ELSE /\ started' = TRUE
            /\ iter' = [iter EXCEPT ![i] = "reading"]
            /\ UNCHANGED closed
    /\ UNCHANGED <<declared, consumed, sent>>

Exceeds(bytes) == bytes > MaxBytes \/ (declared # Unknown /\ bytes > declared)

\* Mutant: the chunk is yielded before it is counted.
ChunkCountedLate(i, n) ==
    /\ iter[i] = "reading"
    /\ consumed' = consumed + n
    /\ IF Exceeds(consumed)
       THEN CloseAndDeny(i) /\ UNCHANGED sent
       ELSE /\ iter' = [iter EXCEPT ![i] = "yielded"]
            /\ sent' = sent + n
            /\ UNCHANGED closed
    /\ UNCHANGED <<declared, started>>

\* The source gives a chunk of n bytes: it is counted, then yielded or refused.
Chunk(i, n) ==
    /\ iter[i] = "reading"
    /\ consumed' = consumed + n
    /\ IF Exceeds(consumed + n)
       THEN CloseAndDeny(i) /\ UNCHANGED sent
       ELSE /\ iter' = [iter EXCEPT ![i] = "yielded"]
            /\ sent' = sent + n
            /\ UNCHANGED closed
    /\ UNCHANGED <<declared, started>>

\* The source gives something that is not bytes.
NotBytes(i) == /\ iter[i] = "reading"
               /\ CloseAndDeny(i)
               /\ UNCHANGED <<declared, started, consumed, sent>>

\* Mutant: a short body is taken as complete.
EndUnchecked(i) == /\ iter[i] = "reading"
                   /\ iter' = [iter EXCEPT ![i] = "complete"]
                   /\ UNCHANGED <<declared, started, consumed, closed, sent>>

\* The source ends: the declared length must have been reached exactly.
End(i) == /\ iter[i] = "reading"
          /\ IF declared # Unknown /\ consumed # declared
             THEN CloseAndDeny(i)
             ELSE iter' = [iter EXCEPT ![i] = "complete"] /\ UNCHANGED closed
          /\ UNCHANGED <<declared, started, consumed, sent>>

\* The source raises, or its await is cancelled: the error is passed on.
SourceFails(i) == /\ iter[i] = "reading"
                  /\ iter' = [iter EXCEPT ![i] = "failed"]
                  /\ UNCHANGED <<declared, started, consumed, closed, sent>>

\* The pool has written the chunk and asks for the next one, or gives up.
Resume(i) == /\ iter[i] = "yielded"
             /\ iter' = [iter EXCEPT ![i] = "reading"]
             /\ UNCHANGED <<declared, started, consumed, closed, sent>>

GiveUp(i) == /\ iter[i] = "yielded"
             /\ iter' = [iter EXCEPT ![i] = "failed"]
             /\ UNCHANGED <<declared, started, consumed, closed, sent>>

\* close() or aclose() of the wrapper, at any time.
Close == /\ closed' = TRUE
         /\ UNCHANGED <<declared, iter, started, consumed, sent>>

Next == \/ \E i \in Iterations : \/ Start(i) \/ NotBytes(i) \/ End(i)
                                 \/ SourceFails(i) \/ Resume(i) \/ GiveUp(i)
                                 \/ \E n \in 0..MaxChunk : Chunk(i, n)
        \/ Close

Spec == Init /\ [][Next]_vars
-----------------------------------------------------------------------------
(* Properties *)

TypeOK == /\ declared \in Declarations
          /\ iter \in [Iterations -> {"new", "reading", "yielded", "complete",
                                      "denied", "failed"}]
          /\ started \in BOOLEAN
          /\ consumed \in 0..MaxBytes + MaxChunk
          /\ closed \in BOOLEAN
          /\ sent \in 0..MaxBytes + MaxChunk

\* Whatever the number of iterations, what left the wrapper in all is within
\* the policy and within the declared length: a retry does not reset the
\* budget, and a chunk that exceeds it is withheld whole.
SentWithinBounds == ~Exceeds(sent)

\* At most one iteration ever gets at the source.
OneReader == \A i, j \in Iterations :
                 iter[i] \notin {"new", "denied"} /\ iter[j] \notin {"new", "denied"}
                     => i = j

\* A body is complete for the pool only if exactly the declared bytes left,
\* over all iterations.
CompleteIsExact ==
    declared # Unknown =>
        \A i \in Iterations : iter[i] = "complete" => sent = declared

\* Every denial has told the source to close.
DenialCloses == \A i \in Iterations : iter[i] = "denied" => closed
=============================================================================

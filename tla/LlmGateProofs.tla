--------------------------- MODULE LlmGateProofs ---------------------------
(***************************************************************************)
(* Proofs about LlmGate, for every set of callers, every threshold, limit  *)
(* and time-out.                                                           *)
(*                                                                         *)
(* The invariant is the conjunction of the four invariants that TLC checks *)
(* on MCLlmGate.  The count of requests in flight is not inductive alone:  *)
(* the flush turns as many queue entries into requests as it adds to the   *)
(* counter only because the entries are distinct and all of them wait; and *)
(* the entries stay in the order of their waiting only because the flush   *)
(* takes them from the head.  A retry stays within MAX_RETRIES because only *)
(* a call that has retries left is sent to its backoff.                    *)
(***************************************************************************)
EXTENDS LlmGate, TLAPS, FiniteSetTheorems, SequenceTheorems

\* A call in its backoff has a retry left.
BackoffHasRetry ==
    \A c \in Callers : calls[c].phase = "backoff" => calls[c].attempt < MAX_RETRIES

\* The inductive invariant.
IInv == TypeOK /\ SlotsCounted /\ ClosedMeansHealthy /\ QueueHoldsWaiting /\ BackoffHasRetry

\* The constants one by one.
LEMMA Limits ==
    /\ IsFiniteSet(Callers)
    /\ FAILURE_THRESHOLD \in Nat /\ FAILURE_THRESHOLD > 0
    /\ MAX_CONCURRENT \in Nat /\ MAX_CONCURRENT > 0
    /\ MAX_PER_MINUTE \in Nat /\ MAX_PER_MINUTE > 0
    /\ Minute \in Nat /\ CallTimeout \in Nat /\ CallTimeout > 0
    /\ ResetTimeout \in Nat /\ MAX_RETRIES \in Nat /\ QueueTimeout \in Nat
    /\ RetryAfter \subseteq Nat
  BY GateAssumption

LEMMA IdleIsCall == NotCalling \in Call /\ NotCalling.phase = "idle"
  BY Limits DEF NotCalling, Call, Phases

\* The set of callers in a phase is finite.
LEMMA PhaseSets == \A p : IsFiniteSet(InPhase(p)) /\ Cardinality(InPhase(p)) \in Nat
  <1> TAKE p
  <1>1. InPhase(p) \in SUBSET Callers
    BY DEF InPhase
  <1> QED
    BY <1>1, Limits, FS_Subset, FS_CardinalityType

\* A step of one caller moves it from one phase set to another.
LEMMA OneCall ==
    ASSUME IInv, NEW c \in Callers, NEW r, calls' = [calls EXCEPT ![c] = r]
    PROVE  /\ \A d \in Callers : calls'[d] = IF d = c THEN r ELSE calls[d]
           /\ \A p : r.phase = p => InPhase(p)' = InPhase(p) \cup {c}
           /\ \A p : r.phase # p /\ calls[c].phase # p => InPhase(p)' = InPhase(p)
           /\ \A p : r.phase # p /\ calls[c].phase = p =>
                       InPhase(p)' = InPhase(p) \ {c} /\ c \in InPhase(p)
           /\ \A p : calls[c].phase # p => c \notin InPhase(p)
  <1>1. \A d \in Callers : calls'[d] = IF d = c THEN r ELSE calls[d]
    BY DEF IInv, TypeOK
  <1> QED
    BY <1>1 DEF InPhase

\* A failed call is idle or in its backoff, and a proper record.
LEMMA FailedCall ==
    ASSUME TypeOK, NEW c \in Callers
    PROVE  /\ AfterFailure(c) \in Call /\ AfterFailure(c).phase \in {"idle", "backoff"}
           /\ AfterFailure(c).phase = "backoff" => AfterFailure(c).attempt < MAX_RETRIES
  BY Limits, IdleIsCall DEF TypeOK, Call, Phases, AfterFailure

\* The breaker after failures: typed, and a closed one is below the threshold.
LEMMA FailuresKeep ==
    ASSUME TypeOK, ClosedMeansHealthy, NEW n \in Nat, recordFailures(n)
    PROVE  /\ state' \in {"CLOSED", "OPEN", "HALF_OPEN"}
           /\ failures' \in 0..FAILURE_THRESHOLD
           /\ sinceOpened' \in 0..ResetTimeout
           /\ ClosedMeansHealthy'
  BY Limits DEF TypeOK, ClosedMeansHealthy, recordFailures, Opens, AtMost

\* A set of positions holds at most as many as there are.
LEMMA SubsetCount ==
    ASSUME NEW n \in Nat, NEW S \in SUBSET (1..n)
    PROVE  IsFiniteSet(S) /\ Cardinality(S) \in 0..n
  <1>1. IsFiniteSet(1..n) /\ Cardinality(1..n) = n
    BY FS_Interval
  <1>2. IsFiniteSet(S) /\ Cardinality(S) <= n
    BY <1>1, FS_Subset
  <1> QED
    BY <1>2, FS_CardinalityType

\* What the flush takes from the queue, and that it respects the limits.
Dropped == Cardinality(Expired)
Granted == AtMost(Len(queue) - Dropped, Free)

LEMMA FlushCounts ==
    ASSUME TypeOK
    PROVE  /\ Len(queue) \in Nat /\ Len(recent) \in Nat
           /\ Dropped \in 0..Len(queue)
           /\ Granted \in 0..(Len(queue) - Dropped)
           /\ Granted > 0 => /\ concurrent + Granted <= MAX_CONCURRENT
                             /\ Len(recent) + Granted <= MAX_PER_MINUTE
  <1>1. Len(queue) \in Nat /\ Len(recent) \in Nat /\ DOMAIN queue = 1..Len(queue)
    BY LenProperties DEF TypeOK
  <1>2. Expired \in SUBSET (1..Len(queue))
    BY <1>1 DEF Expired
  <1>3. Dropped \in 0..Len(queue)
    BY <1>1, <1>2, SubsetCount DEF Dropped
  <1>4. concurrent \in Nat
    BY DEF TypeOK
  <1>5. CASE CanProceed
    <2>1. retryLeft = 0 /\ concurrent < MAX_CONCURRENT /\ Len(recent) < MAX_PER_MINUTE
      BY <1>5 DEF CanProceed
    <2>2. /\ Free \in Nat
          /\ Free <= MAX_CONCURRENT - concurrent /\ Free <= MAX_PER_MINUTE - Len(recent)
      BY <2>1, <1>5, <1>4, <1>1, Limits DEF Free, AtMost
    <2>3. Granted \in 0..(Len(queue) - Dropped) /\ Granted <= Free
      BY <2>2, <1>1, <1>3 DEF Granted, AtMost
    <2> QED
      BY <2>1, <2>2, <2>3, <1>1, <1>3, <1>4, Limits
  <1>6. CASE ~CanProceed
    <2>1. Free = 0
      BY <1>6 DEF Free
    <2>2. Len(queue) - Dropped \in Nat
      BY <1>1, <1>3
    <2>3. Granted = 0
      BY <2>1, <2>2 DEF Granted, AtMost
    <2> QED
      BY <2>3, <1>1, <1>3
  <1> QED
    BY <1>5, <1>6

\* Intervals from 1 are equal only when they end alike.
LEMMA SameInterval == \A m, n \in Nat : 1..m = 1..n => m = n
  <1> TAKE m, n \in Nat
  <1>1. Cardinality(1..m) = m /\ Cardinality(1..n) = n
    BY FS_Interval
  <1> QED
    BY <1>1

\* The window after starting n requests.
LEMMA AcquireWindow ==
    ASSUME TypeOK, NEW n \in Nat, acquire(n)
    PROVE  recent' \in Seq(Nat) /\ Len(recent') = Len(recent) + n
  <1> DEFINE new == [i \in 1..n |-> 0]
  <1>1. new \in Seq(Nat) /\ Len(new) = n
    <2>1. new \in [1..n -> Nat]
      OBVIOUS
    <2> QED
      BY <2>1, SeqDef
  <1>2. recent' = recent \o new
    BY DEF acquire
  <1> HIDE DEF new
  <1> QED
    BY <1>1, <1>2, ConcatProperties DEF TypeOK

\* The window after a tick.
LEMMA TickWindow ==
    ASSUME TypeOK
    PROVE  WindowAfterTick \in Seq(Nat) /\ Len(WindowAfterTick) <= Len(recent)
  <1> DEFINE old == {i \in DOMAIN recent : recent[i] + 1 >= Minute}
             gone == Cardinality(old)
             left == Len(recent) - gone
  <1>1. Len(recent) \in Nat /\ DOMAIN recent = 1..Len(recent) /\ \A i \in 1..Len(recent) : recent[i] \in Nat
    BY LenProperties, ElementOfSeq DEF TypeOK
  <1>2. gone \in 0..Len(recent)
    <2>1. old \in SUBSET (1..Len(recent))
      BY <1>1
    <2> HIDE DEF old
    <2> QED
      BY <2>1, <1>1, SubsetCount
  <1>3. WindowAfterTick = [i \in 1..left |-> recent[i + gone] + 1]
    BY DEF WindowAfterTick
  <1> HIDE DEF gone
  <1>4. left \in Nat /\ [i \in 1..left |-> recent[i + gone] + 1] \in [1..left -> Nat]
    BY <1>1, <1>2
  <1>5. WindowAfterTick \in Seq(Nat)
    BY <1>3, <1>4, SeqDef
  <1>6. DOMAIN WindowAfterTick = 1..left /\ DOMAIN WindowAfterTick = 1..Len(WindowAfterTick)
    BY <1>3, <1>5, LenProperties
  <1>7. Len(WindowAfterTick) = left
    BY <1>4, <1>5, <1>6, LenProperties, SameInterval
  <1> QED
    BY <1>1, <1>2, <1>5, <1>7

---------------------------------------------------------------------------
(* Steps of one caller.                                                    *)

\* The queue is as before when the caller neither leaves nor joins it.
LEMMA QueueUntouched ==
    ASSUME IInv, NEW c \in Callers, NEW r, calls[c].phase # "queued", r.phase # "queued",
           calls' = [calls EXCEPT ![c] = r], queue' = queue
    PROVE  QueueHoldsWaiting'
  <1>1. /\ \A d \in Callers : calls'[d] = IF d = c THEN r ELSE calls[d]
        /\ InPhase("queued")' = InPhase("queued")
    BY OneCall
  <1>2. \A i \in DOMAIN queue : queue[i] \in InPhase("queued")
    BY DEF IInv, QueueHoldsWaiting
  <1>3. \A i \in DOMAIN queue : calls'[queue[i]] = calls[queue[i]]
    BY <1>1, <1>2 DEF InPhase
  <1>4. \A i, j \in DOMAIN queue :
          i < j => calls'[queue[i]].waited >= calls'[queue[j]].waited
    BY <1>3 DEF IInv, QueueHoldsWaiting
  <1>5. \A i, j \in DOMAIN queue' : queue'[i] = queue'[j] => i = j
    BY DEF IInv, QueueHoldsWaiting
  <1>6. {queue'[i] : i \in DOMAIN queue'} = InPhase("queued")'
    BY <1>1 DEF IInv, QueueHoldsWaiting
  <1>7. \A i, j \in DOMAIN queue' :
          i < j => calls'[queue'[i]].waited >= calls'[queue'[j]].waited
    BY <1>4
  <1> QED
    BY <1>5, <1>6, <1>7 DEF QueueHoldsWaiting

\* A step in which one caller leaves the request phase gives its slot back.
LEMMA SlotGivenBack ==
    ASSUME IInv, NEW c \in Callers, NEW r, calls[c].phase = "inflight", r.phase # "inflight",
           calls' = [calls EXCEPT ![c] = r], release, recent' = recent
    PROVE  SlotsCounted' /\ concurrent' \in Nat
  <1>1. InPhase("inflight")' = InPhase("inflight") \ {c} /\ c \in InPhase("inflight")
    BY OneCall
  <1>2. Cardinality(InPhase("inflight")') = Cardinality(InPhase("inflight")) - 1
    BY <1>1, PhaseSets, FS_RemoveElement
  <1>3. Cardinality(InPhase("inflight")') \in Nat
    BY <1>1, PhaseSets, FS_RemoveElement, FS_CardinalityType
  <1>4. concurrent' = Cardinality(InPhase("inflight")')
    BY <1>2, <1>3, PhaseSets DEF IInv, SlotsCounted, release
  <1> QED
    BY <1>2, <1>3, <1>4, PhaseSets, Limits DEF IInv, SlotsCounted

\* The other invariants about the calls after such a step.
LEMMA CallsKeep ==
    ASSUME IInv, NEW c \in Callers, NEW r \in Call, calls' = [calls EXCEPT ![c] = r],
           r.phase = "backoff" => r.attempt < MAX_RETRIES
    PROVE  calls' \in [Callers -> Call] /\ BackoffHasRetry'
  BY OneCall DEF IInv, TypeOK, BackoffHasRetry

\* A new attempt, granted or queued.
LEMMA AttemptInv ==
    ASSUME IInv, NEW c \in Callers, NEW n \in 0..MAX_RETRIES,
           calls[c].phase \in {"idle", "backoff"}, AttemptAs(c, n)
    PROVE  IInv'
  <1>1. /\ state' \in {"CLOSED", "OPEN", "HALF_OPEN"}
        /\ failures' \in 0..FAILURE_THRESHOLD /\ sinceOpened' \in 0..ResetTimeout
        /\ ClosedMeansHealthy'
    BY DEF IInv, TypeOK, ClosedMeansHealthy, AttemptAs, Probing
  <1>2. retryLeft' \in Nat /\ flushDue' \in BOOLEAN
    BY DEF IInv, TypeOK, AttemptAs
  <1>3. CASE CanProceed
    <2> DEFINE r == [phase |-> "inflight", attempt |-> n, ran |-> 0, waited |-> 0]
    <2>1. acquire(1) /\ queue' = queue /\ calls' = [calls EXCEPT ![c] = r]
      BY <1>3 DEF AttemptAs
    <2>2. r \in Call
      BY Limits DEF Call, Phases
    <2>3. r.phase = "inflight"
      OBVIOUS
    <2> HIDE DEF r
    <2>4. QueueHoldsWaiting' /\ calls' \in [Callers -> Call] /\ BackoffHasRetry'
      BY <2>1, <2>2, <2>3, QueueUntouched, CallsKeep
    <2>5. recent' \in Seq(Nat) /\ Len(recent') = Len(recent) + 1
      BY <2>1, AcquireWindow DEF IInv
    <2>6. Cardinality(InPhase("inflight")') = Cardinality(InPhase("inflight")) + 1
      <3>1. InPhase("inflight")' = InPhase("inflight") \cup {c} /\ c \notin InPhase("inflight")
        BY <2>1, <2>3, OneCall
      <3> QED
        BY <3>1, PhaseSets, FS_AddElement
    <2>7. concurrent' = concurrent + 1 /\ concurrent < MAX_CONCURRENT
          /\ Len(recent) < MAX_PER_MINUTE /\ Len(recent) \in Nat
      BY <2>1, <1>3, LenProperties DEF acquire, CanProceed, IInv, TypeOK
    <2>8. SlotsCounted' /\ concurrent' \in Nat
      BY <2>5, <2>6, <2>7, PhaseSets, Limits DEF IInv, SlotsCounted, TypeOK
    <2> QED
      BY <1>1, <1>2, <2>1, <2>4, <2>5, <2>8 DEF IInv, TypeOK
  <1>4. CASE ~CanProceed
    <2> DEFINE r == [phase |-> "queued", attempt |-> n, ran |-> 0, waited |-> 0]
    <2>1. queue' = Append(queue, c) /\ calls' = [calls EXCEPT ![c] = r]
          /\ concurrent' = concurrent /\ recent' = recent
      BY <1>4 DEF AttemptAs
    <2>2. r \in Call /\ r.phase = "queued" /\ r.waited = 0
      BY Limits DEF Call, Phases
    <2> HIDE DEF r
    <2>3. calls' \in [Callers -> Call] /\ BackoffHasRetry'
      BY <2>1, <2>2, CallsKeep
    <2>4. /\ InPhase("inflight")' = InPhase("inflight")
          /\ InPhase("queued")' = InPhase("queued") \cup {c} /\ c \notin InPhase("queued")
          /\ \A d \in Callers : calls'[d] = IF d = c THEN r ELSE calls[d]
      BY <2>1, <2>2, OneCall
    <2>5. SlotsCounted'
      BY <2>1, <2>4 DEF IInv, SlotsCounted
    <2>10. queue \in Seq(Callers) /\ \A i \in DOMAIN queue : queue[i] \in InPhase("queued")
      BY DEF IInv, TypeOK, QueueHoldsWaiting
    <2>6. /\ queue \in Seq(Callers) /\ queue' \in Seq(Callers)
          /\ Len(queue) \in Nat /\ DOMAIN queue = 1..Len(queue)
          /\ DOMAIN queue' = 1..(Len(queue) + 1)
          /\ \A i \in 1..Len(queue) : queue'[i] = queue[i] /\ queue[i] \in InPhase("queued")
          /\ queue'[Len(queue) + 1] = c
      <3>1. /\ Append(queue, c) \in Seq(Callers)
            /\ Len(Append(queue, c)) = Len(queue) + 1
            /\ \A i \in 1..Len(queue) : Append(queue, c)[i] = queue[i]
            /\ Append(queue, c)[Len(queue) + 1] = c
        BY <2>10, AppendProperties
      <3>2. Len(queue) \in Nat /\ DOMAIN queue = 1..Len(queue)
        BY <2>10, LenProperties
      <3>3. DOMAIN Append(queue, c) = 1..(Len(queue) + 1)
        BY <3>1, LenProperties
      <3> QED
        BY <3>1, <3>2, <3>3, <2>1, <2>10
    <2>7. QueueHoldsWaiting'
      <3>1. \A i, j \in DOMAIN queue' : queue'[i] = queue'[j] => i = j
        BY <2>4, <2>6 DEF IInv, QueueHoldsWaiting
      <3>2. {queue'[i] : i \in DOMAIN queue'} = InPhase("queued")'
        BY <2>4, <2>6 DEF IInv, QueueHoldsWaiting
      <3>3. \A i, j \in DOMAIN queue' :
              i < j => calls'[queue'[i]].waited >= calls'[queue'[j]].waited
        <4> SUFFICES ASSUME NEW i \in DOMAIN queue', NEW j \in DOMAIN queue', i < j
                     PROVE  calls'[queue'[i]].waited >= calls'[queue'[j]].waited
          OBVIOUS
        <4>1. i \in 1..Len(queue)
          BY <2>6
        <4>2. calls'[queue'[i]] = calls[queue[i]]
          BY <4>1, <2>4, <2>6 DEF InPhase
        <4>3. CASE j \in 1..Len(queue)
          <5>1. calls'[queue'[j]] = calls[queue[j]]
            BY <4>3, <2>4, <2>6 DEF InPhase
          <5> QED
            BY <4>1, <4>2, <4>3, <5>1, <2>6 DEF IInv, QueueHoldsWaiting
        <4>4. CASE j = Len(queue) + 1
          <5>1. calls'[queue'[j]].waited = 0
            BY <4>4, <2>2, <2>4, <2>6
          <5>2. calls'[queue'[i]].waited \in Nat
            BY <4>1, <4>2, <2>6, Limits DEF IInv, TypeOK, Call, InPhase
          <5> QED
            BY <5>1, <5>2
        <4> QED
          BY <4>3, <4>4, <2>6
      <3> QED
        BY <3>1, <3>2, <3>3 DEF QueueHoldsWaiting
    <2> QED
      BY <1>1, <1>2, <2>1, <2>3, <2>5, <2>6, <2>7 DEF IInv, TypeOK
  <1> QED
    BY <1>3, <1>4

\* A failed attempt that held a slot.
LEMMA RequestEnds ==
    ASSUME IInv, NEW c \in Callers, calls[c].phase = "inflight", release, Fail(c),
           retryLeft' \in Nat, queue' = queue, recent' = recent
    PROVE  IInv'
  <1>1. /\ AfterFailure(c) \in Call /\ AfterFailure(c).phase \in {"idle", "backoff"}
        /\ AfterFailure(c).phase = "backoff" => AfterFailure(c).attempt < MAX_RETRIES
    BY FailedCall DEF IInv
  <1>2. calls' = [calls EXCEPT ![c] = AfterFailure(c)] /\ recordFailures(1)
    BY DEF Fail
  <1> HIDE DEF Fail
  <1>3. QueueHoldsWaiting'
    BY <1>1, <1>2, QueueUntouched
  <1>4. SlotsCounted' /\ concurrent' \in Nat
    BY <1>1, <1>2, SlotGivenBack
  <1>5. calls' \in [Callers -> Call] /\ BackoffHasRetry'
    BY <1>1, <1>2, CallsKeep
  <1>6. /\ state' \in {"CLOSED", "OPEN", "HALF_OPEN"} /\ ClosedMeansHealthy'
        /\ failures' \in 0..FAILURE_THRESHOLD /\ sinceOpened' \in 0..ResetTimeout
    BY <1>2, FailuresKeep DEF IInv
  <1>7. flushDue' \in BOOLEAN /\ queue' \in Seq(Callers) /\ recent' \in Seq(Nat)
    BY DEF IInv, TypeOK, release
  <1> QED
    BY <1>3, <1>4, <1>5, <1>6, <1>7 DEF IInv, TypeOK

\* A caller that holds no slot before and after: the body is read, or an
\* attempt is not made.
LEMMA SlotlessStep ==
    ASSUME IInv, NEW c \in Callers, NEW r \in Call, calls' = [calls EXCEPT ![c] = r],
           calls[c].phase \notin {"inflight", "queued"}, r.phase \notin {"inflight", "queued"},
           r.phase = "backoff" => r.attempt < MAX_RETRIES, UNCHANGED limiter,
           state' \in {"CLOSED", "OPEN", "HALF_OPEN"}, failures' \in 0..FAILURE_THRESHOLD,
           sinceOpened' \in 0..ResetTimeout, ClosedMeansHealthy'
    PROVE  IInv'
  <1>1. /\ queue' = queue /\ recent' = recent /\ concurrent' = concurrent
        /\ retryLeft' = retryLeft /\ flushDue' = flushDue
    BY DEF limiter
  <1>2. QueueHoldsWaiting'
    BY <1>1, QueueUntouched
  <1>3. InPhase("inflight")' = InPhase("inflight")
    <2>1. calls[c].phase # "inflight" /\ r.phase # "inflight"
      OBVIOUS
    <2>2. \A p : r.phase # p /\ calls[c].phase # p => InPhase(p)' = InPhase(p)
      BY OneCall
    <2> QED
      BY <2>1, <2>2
  <1>4. SlotsCounted'
    BY <1>1, <1>3 DEF IInv, SlotsCounted
  <1>5. calls' \in [Callers -> Call] /\ BackoffHasRetry'
    BY CallsKeep
  <1> QED
    BY <1>1, <1>2, <1>4, <1>5 DEF IInv, TypeOK

\* The headers of an answer.
LEMMA AnswerInv ==
    ASSUME IInv, NEW c \in Callers, Answer(c)
    PROVE  IInv'
  <1> DEFINE r == [calls[c] EXCEPT !.phase = "reading"]
  <1>1. calls[c].phase = "inflight" /\ release /\ calls' = [calls EXCEPT ![c] = r]
        /\ queue' = queue /\ recent' = recent /\ retryLeft' = retryLeft /\ UNCHANGED breaker
    BY DEF Answer, IInv, TypeOK
  <1>2. r \in Call /\ r.phase = "reading"
    BY DEF IInv, TypeOK, Call, Phases
  <1> HIDE DEF r
  <1>3. QueueHoldsWaiting' /\ SlotsCounted' /\ concurrent' \in Nat
    BY <1>1, <1>2, QueueUntouched, SlotGivenBack
  <1>4. calls' \in [Callers -> Call] /\ BackoffHasRetry'
    BY <1>1, <1>2, CallsKeep
  <1>5. ClosedMeansHealthy'
    BY <1>1 DEF IInv, ClosedMeansHealthy, breaker
  <1> QED
    BY <1>1, <1>3, <1>4, <1>5 DEF IInv, TypeOK, breaker, release

\* Every step of a caller keeps the invariant.
LEMMA CallerInv ==
    ASSUME IInv, NEW c \in Callers, CallerStep(c)
    PROVE  IInv'
  <1>1. CASE CallLlm(c)
    BY <1>1, AttemptInv, Limits DEF CallLlm
  <1>2. CASE Retry(c)
    <2>1. calls[c].phase = "backoff" /\ calls[c].attempt \in Nat /\ calls[c].attempt < MAX_RETRIES
      BY <1>2, Limits DEF Retry, IInv, BackoffHasRetry, TypeOK, Call
    <2>2. CASE AttemptAs(c, calls[c].attempt + 1)
      <3>1. calls[c].attempt + 1 \in 0..MAX_RETRIES
        BY <2>1, Limits
      <3> QED
        BY <2>1, <2>2, <3>1, AttemptInv
    <2>3. CASE calls' = [calls EXCEPT ![c] = NotCalling] /\ UNCHANGED <<breaker, limiter>>
      <3>1. /\ state' = state /\ failures' = failures /\ sinceOpened' = sinceOpened
            /\ UNCHANGED limiter
        BY <2>3 DEF breaker
      <3>2. ClosedMeansHealthy' /\ state \in {"CLOSED", "OPEN", "HALF_OPEN"}
            /\ failures \in 0..FAILURE_THRESHOLD /\ sinceOpened \in 0..ResetTimeout
        BY <3>1 DEF IInv, ClosedMeansHealthy, TypeOK
      <3> QED
        BY <2>1, <2>3, <3>1, <3>2, IdleIsCall, SlotlessStep
    <2> QED
      BY <1>2, <2>2, <2>3 DEF Retry
  <1>3. CASE Answer(c)
    BY <1>3, AnswerInv
  <1>4. CASE TooMany(c)
    BY <1>4, RequestEnds, Limits DEF TooMany
  <1>5. CASE RequestFails(c)
    BY <1>5, RequestEnds DEF RequestFails, IInv, TypeOK
  <1>6. CASE BodyArrives(c)
    <2>1. /\ calls[c].phase = "reading" /\ UNCHANGED limiter
          /\ calls' = [calls EXCEPT ![c] = NotCalling]
      BY <1>6 DEF BodyArrives
    <2>2. /\ state' \in {"CLOSED", "OPEN", "HALF_OPEN"} /\ failures' \in 0..FAILURE_THRESHOLD
          /\ sinceOpened' \in 0..ResetTimeout /\ ClosedMeansHealthy'
      BY <1>6, Limits DEF BodyArrives, recordSuccess, IInv, TypeOK, ClosedMeansHealthy
    <2> QED
      BY <2>1, <2>2, IdleIsCall, SlotlessStep
  <1>7. CASE BodyFails(c)
    <2>1. /\ calls[c].phase = "reading" /\ UNCHANGED limiter /\ recordFailures(1)
          /\ calls' = [calls EXCEPT ![c] = AfterFailure(c)]
      BY <1>7 DEF BodyFails, Fail
    <2>2. /\ AfterFailure(c) \in Call /\ AfterFailure(c).phase \in {"idle", "backoff"}
          /\ AfterFailure(c).phase = "backoff" => AfterFailure(c).attempt < MAX_RETRIES
      BY FailedCall DEF IInv
    <2>3. /\ state' \in {"CLOSED", "OPEN", "HALF_OPEN"} /\ ClosedMeansHealthy'
          /\ failures' \in 0..FAILURE_THRESHOLD /\ sinceOpened' \in 0..ResetTimeout
      BY <2>1, FailuresKeep DEF IInv
    <2> QED
      BY <2>1, <2>2, <2>3, SlotlessStep
  <1> QED
    BY <1>1, <1>2, <1>3, <1>4, <1>5, <1>6, <1>7 DEF CallerStep

---------------------------------------------------------------------------
(* The flush and the tick.                                                 *)

\* As many callers as positions, for the entries are distinct.
LEMMA EntriesCount ==
    ASSUME IInv, NEW a \in Nat, NEW n \in Nat, a + n <= Len(queue)
    PROVE  LET callers == {queue[i] : i \in (a + 1)..(a + n)}
           IN  IsFiniteSet(callers) /\ Cardinality(callers) = n
  <1> DEFINE positions == (a + 1)..(a + n)
             callers == {queue[i] : i \in positions}
             f == [i \in positions |-> queue[i]]
  <1>1. Len(queue) \in Nat /\ DOMAIN queue = 1..Len(queue)
    BY LenProperties DEF IInv, TypeOK
  <1>2. positions \subseteq DOMAIN queue
    BY <1>1
  <1>3. IsFiniteSet(positions) /\ Cardinality(positions) = n
    <2>1. a + 1 \in Int /\ a + n \in Int
      OBVIOUS
    <2> QED
      BY <2>1, FS_Interval
  <1> HIDE DEF positions
  <1>4. f \in Bijection(positions, callers)
    BY <1>2 DEF Bijection, Injection, Surjection, IsInjective, IInv, QueueHoldsWaiting
  <1>5. ExistsBijection(positions, callers)
    BY <1>4 DEF ExistsBijection
  <1>6. IsFiniteSet(callers) /\ Cardinality(callers) = n
    BY <1>3, <1>5, FS_Bijection
  <1> QED
    BY <1>6 DEF positions

LEMMA FlushInv ==
    ASSUME IInv, Flush
    PROVE  IInv'
  <1> DEFINE D == Dropped
             G == Granted
             rejected == {queue[i] : i \in 1..D}
             resolved == {queue[i] : i \in (D + 1)..(D + G)}
             granted == [c \in Callers |-> [calls[c] EXCEPT !.phase = "inflight", !.waited = 0]]
             failed == [c \in Callers |-> AfterFailure(c)]
  <1>1. /\ queue' = SubSeq(queue, D + G + 1, Len(queue))
        /\ acquire(G) /\ recordFailures(D)
        /\ calls' = [c \in Callers |-> IF c \in rejected THEN failed[c]
                                      ELSE IF c \in resolved THEN granted[c] ELSE calls[c]]
        /\ retryLeft' = retryLeft /\ flushDue' = FALSE
    BY DEF Flush, FlushTo, Dropped, Granted
  <1>2. /\ Len(queue) \in Nat /\ Len(recent) \in Nat
        /\ D \in 0..Len(queue) /\ G \in 0..(Len(queue) - D)
        /\ G > 0 => concurrent + G <= MAX_CONCURRENT /\ Len(recent) + G <= MAX_PER_MINUTE
    BY FlushCounts DEF IInv
  <1>3. /\ queue \in Seq(Callers) /\ DOMAIN queue = 1..Len(queue)
        /\ \A i \in 1..Len(queue) : queue[i] \in Callers
    BY LenProperties, ElementOfSeq DEF IInv, TypeOK
  <1> HIDE DEF D, G
  <1>4. /\ \A i, j \in 1..Len(queue) : queue[i] = queue[j] => i = j
        /\ {queue[i] : i \in 1..Len(queue)} = InPhase("queued")
        /\ \A i, j \in 1..Len(queue) :
              i < j => calls[queue[i]].waited >= calls[queue[j]].waited
    BY <1>3 DEF IInv, QueueHoldsWaiting
  <1>5. /\ rejected \subseteq InPhase("queued") /\ resolved \subseteq InPhase("queued")
        /\ rejected \cap resolved = {}
    BY <1>2, <1>4
  <1>6. \A c \in Callers :
          /\ c \in rejected => calls'[c] = failed[c]
          /\ c \in resolved => calls'[c] = granted[c]
          /\ c \notin rejected \cup resolved => calls'[c] = calls[c]
    BY <1>1, <1>5
  <1>7. \A c \in Callers : /\ granted[c] \in Call /\ granted[c].phase = "inflight"
                           /\ failed[c] \in Call
                           /\ failed[c].phase \in {"idle", "backoff"}
                           /\ failed[c].phase = "backoff" =>
                               failed[c].attempt < MAX_RETRIES
    <2> SUFFICES ASSUME NEW c \in Callers
                 PROVE  /\ granted[c] \in Call /\ granted[c].phase = "inflight"
                        /\ failed[c] \in Call
                        /\ failed[c].phase \in {"idle", "backoff"}
                        /\ failed[c].phase = "backoff" => failed[c].attempt < MAX_RETRIES
      OBVIOUS
    <2>1. calls[c] \in Call
      BY DEF IInv, TypeOK
    <2>2. granted[c] \in Call /\ granted[c].phase = "inflight"
      <3>1. granted[c] = [phase |-> "inflight", attempt |-> calls[c].attempt,
                          ran |-> calls[c].ran, waited |-> 0]
        BY <2>1 DEF Call
      <3>2. calls[c].attempt \in 0..MAX_RETRIES /\ calls[c].ran \in 0..CallTimeout
        BY <2>1 DEF Call
      <3> HIDE DEF granted
      <3> QED
        BY <3>1, <3>2, Limits DEF Call, Phases
    <2>3. failed[c] = AfterFailure(c)
      OBVIOUS
    <2> QED
      BY <2>2, <2>3, FailedCall DEF IInv
  <1> HIDE DEF rejected, resolved, granted, failed
  <1>8. calls' \in [Callers -> Call] /\ BackoffHasRetry'
    <2>1. ASSUME NEW c \in Callers PROVE calls'[c] \in Call
      <3>1. calls[c] \in Call
        BY DEF IInv, TypeOK
      <3>2. CASE c \in rejected
        BY <3>2, <1>6, <1>7
      <3>3. CASE c \in resolved
        BY <3>3, <1>6, <1>7
      <3>4. CASE c \notin rejected \cup resolved
        BY <3>1, <3>4, <1>6
      <3> QED
        BY <3>2, <3>3, <3>4
    <2>2. calls' \in [Callers -> Call]
      BY <2>1, <1>1
    <2>3. BackoffHasRetry'
      BY <1>6, <1>7 DEF IInv, BackoffHasRetry
    <2> QED
      BY <2>2, <2>3
  <1>9. SlotsCounted' /\ concurrent' \in Nat /\ recent' \in Seq(Nat)
    <2>1. InPhase("inflight")' = InPhase("inflight") \cup resolved
      BY <1>5, <1>6, <1>7 DEF InPhase
    <2>2. InPhase("inflight") \cap resolved = {}
      BY <1>5 DEF InPhase
    <2>3. IsFiniteSet(resolved) /\ Cardinality(resolved) = G
      <3>1. D \in Nat /\ G \in Nat /\ D + G <= Len(queue)
        BY <1>2
      <3> QED
        BY <3>1, EntriesCount DEF resolved
    <2>4. Cardinality(InPhase("inflight")') = Cardinality(InPhase("inflight")) + G
      <3>1. IsFiniteSet(InPhase("inflight")) /\ Cardinality(InPhase("inflight")) \in Nat
        BY PhaseSets
      <3>2. Cardinality(InPhase("inflight") \cup resolved)
              = Cardinality(InPhase("inflight")) + Cardinality(resolved) - Cardinality({})
        BY <3>1, <2>2, <2>3, FS_Union
      <3>3. Cardinality({}) = 0
        BY FS_EmptySet
      <3>4. Cardinality(InPhase("inflight")') = Cardinality(InPhase("inflight") \cup resolved)
        BY <2>1
      <3>5. G \in Nat /\ Cardinality(resolved) = G
        BY <1>2, <2>3
      <3> QED
        BY <3>1, <3>2, <3>3, <3>4, <3>5
    <2>5. recent' \in Seq(Nat) /\ Len(recent') = Len(recent) + G
      BY <1>1, <1>2, AcquireWindow DEF IInv
    <2>6. concurrent' = concurrent + G
      BY <1>1 DEF acquire
    <2> QED
      BY <2>4, <2>5, <2>6, <1>2, PhaseSets, Limits DEF IInv, SlotsCounted, TypeOK
  <1>10. /\ queue' \in Seq(Callers) /\ Len(queue') = Len(queue) - (D + G)
         /\ DOMAIN queue' = 1..(Len(queue) - (D + G))
         /\ \A i \in 1..(Len(queue) - (D + G)) : queue'[i] = queue[i + D + G]
    <2>1. D + G + 1 \in Int /\ Len(queue) \in Int
          /\ \A i \in (D + G + 1)..Len(queue) : queue[i] \in Callers
      BY <1>2, <1>3
    <2>2. /\ queue' \in Seq(Callers)
          /\ Len(queue') = IF D + G + 1 <= Len(queue) THEN Len(queue) - (D + G + 1) + 1 ELSE 0
          /\ \A i \in 1..(Len(queue) - (D + G + 1) + 1) : queue'[i] = queue[D + G + 1 + i - 1]
      BY <1>1, <2>1, SubSeqProperties
    <2> QED
      BY <2>2, <1>2, LenProperties
  <1>11. QueueHoldsWaiting'
    <2>1. \A i, j \in DOMAIN queue' : queue'[i] = queue'[j] => i = j
      BY <1>2, <1>4, <1>10
    <2>2. \A i \in DOMAIN queue' : /\ i + D + G \in 1..Len(queue)
                                   /\ queue'[i] = queue[i + D + G]
                                   /\ calls'[queue'[i]] = calls[queue[i + D + G]]
      <3> SUFFICES ASSUME NEW i \in DOMAIN queue'
                   PROVE  /\ i + D + G \in 1..Len(queue)
                          /\ queue'[i] = queue[i + D + G]
                          /\ calls'[queue'[i]] = calls[queue[i + D + G]]
        OBVIOUS
      <3>1. i + D + G \in 1..Len(queue) /\ queue'[i] = queue[i + D + G]
        BY <1>2, <1>10
      <3>2. ASSUME NEW m \in 1..(D + G) PROVE queue[m] # queue[i + D + G]
        <4>1. m \in 1..Len(queue) /\ m # i + D + G
          BY <1>2, <1>10
        <4> HIDE DEF rejected, resolved
        <4> QED
          BY <3>1, <4>1, <1>4
      <3>3. queue[i + D + G] \notin rejected
        BY <3>2, <1>2 DEF rejected
      <3>4. queue[i + D + G] \notin resolved
        BY <3>2, <1>2 DEF resolved
      <3> QED
        BY <3>1, <3>3, <3>4, <1>3, <1>6
    <2>3. {queue'[i] : i \in DOMAIN queue'} = InPhase("queued")'
      <3>1. {queue'[i] : i \in DOMAIN queue'} \subseteq InPhase("queued")'
        BY <2>2, <1>3, <1>4 DEF InPhase
      <3>2. ASSUME NEW c \in InPhase("queued")'
            PROVE  c \in {queue'[i] : i \in DOMAIN queue'}
        <4>1. c \in Callers /\ calls'[c].phase = "queued"
          BY <3>2 DEF InPhase
        <4>2. c \notin rejected /\ c \notin resolved /\ calls'[c] = calls[c]
          BY <4>1, <1>6, <1>7
        <4>3. c \in InPhase("queued")
          BY <4>1, <4>2 DEF InPhase
        <4>4. PICK k \in 1..Len(queue) : c = queue[k]
          BY <4>3, <1>4
        <4>5. k > D + G
          BY <4>2, <4>4, <1>2 DEF rejected, resolved
        <4>6. k - (D + G) \in DOMAIN queue' /\ queue'[k - (D + G)] = queue[k]
          BY <4>5, <1>2, <1>10
        <4> QED
          BY <4>4, <4>6
      <3> QED
        BY <3>1, <3>2
    <2>4. \A i, j \in DOMAIN queue' :
            i < j => calls'[queue'[i]].waited >= calls'[queue'[j]].waited
      <3> SUFFICES ASSUME NEW i \in DOMAIN queue', NEW j \in DOMAIN queue', i < j
                   PROVE  calls'[queue'[i]].waited >= calls'[queue'[j]].waited
        OBVIOUS
      <3>1. /\ i + D + G \in 1..Len(queue) /\ j + D + G \in 1..Len(queue)
            /\ i + D + G < j + D + G
        BY <2>2, <1>2, <1>10
      <3> QED
        BY <3>1, <2>2, <1>4
    <2> QED
      BY <2>1, <2>3, <2>4 DEF QueueHoldsWaiting
  <1>12. /\ state' \in {"CLOSED", "OPEN", "HALF_OPEN"} /\ ClosedMeansHealthy'
         /\ failures' \in 0..FAILURE_THRESHOLD /\ sinceOpened' \in 0..ResetTimeout
    BY <1>1, <1>2, FailuresKeep DEF IInv
  <1> QED
    BY <1>1, <1>8, <1>9, <1>10, <1>11, <1>12 DEF IInv, TypeOK

\* Ages grow up to their limits and nobody changes its phase.
LEMMA OlderCall ==
    ASSUME NEW call \in Call
    PROVE  /\ Older(call) \in Call
           /\ Older(call).phase = call.phase /\ Older(call).attempt = call.attempt
           /\ call.phase = "queued" =>
                Older(call).waited = AtMost(call.waited + 1, QueueTimeout + 1)
  <1>1. /\ call.ran \in 0..CallTimeout /\ call.waited \in 0..(QueueTimeout + 1)
        /\ call.phase \in Phases /\ call.attempt \in 0..MAX_RETRIES
        /\ call = [phase |-> call.phase, attempt |-> call.attempt,
                   ran |-> call.ran, waited |-> call.waited]
    BY DEF Call
  <1>2. /\ AtMost(call.ran + 1, CallTimeout) \in 0..CallTimeout
        /\ AtMost(call.waited + 1, QueueTimeout + 1) \in 0..(QueueTimeout + 1)
    BY <1>1, Limits DEF AtMost
  <1> QED
    BY <1>1, <1>2 DEF Call, Older

LEMMA TickInv ==
    ASSUME IInv, Tick
    PROVE  IInv'
  <1>1. \A c \in Callers : /\ calls'[c] = Older(calls[c]) /\ calls'[c] \in Call
                           /\ calls'[c].phase = calls[c].phase
                           /\ calls'[c].attempt = calls[c].attempt
    BY OlderCall DEF Tick, IInv, TypeOK
  <1>2. calls' \in [Callers -> Call] /\ BackoffHasRetry'
    BY <1>1 DEF Tick, IInv, BackoffHasRetry
  <1>3. \A p : InPhase(p)' = InPhase(p)
    BY <1>1 DEF InPhase
  <1>4. recent' \in Seq(Nat) /\ Len(recent') <= Len(recent) /\ Len(recent') \in Nat
    BY TickWindow, LenProperties DEF Tick, IInv
  <1>5. SlotsCounted'
    <2>1. concurrent' = concurrent /\ Len(recent) \in Nat
      BY LenProperties DEF Tick, IInv, TypeOK
    <2> QED
      BY <2>1, <1>3, <1>4, Limits DEF IInv, SlotsCounted
  <1>6. QueueHoldsWaiting'
    <2>1. queue' = queue
      BY DEF Tick
    <2>2. \A i \in DOMAIN queue :
            /\ queue[i] \in Callers /\ calls[queue[i]] \in Call
            /\ calls'[queue[i]].waited = AtMost(calls[queue[i]].waited + 1, QueueTimeout + 1)
      <3>1. \A i \in DOMAIN queue : queue[i] \in InPhase("queued")
        BY DEF IInv, QueueHoldsWaiting
      <3> QED
        BY <3>1, <1>1, OlderCall DEF InPhase, IInv, TypeOK
    <2>3. \A i, j \in DOMAIN queue :
            i < j => calls'[queue[i]].waited >= calls'[queue[j]].waited
      <3> SUFFICES ASSUME NEW i \in DOMAIN queue, NEW j \in DOMAIN queue, i < j
                   PROVE  calls'[queue[i]].waited >= calls'[queue[j]].waited
        OBVIOUS
      <3>1. calls[queue[i]].waited >= calls[queue[j]].waited
        BY DEF IInv, QueueHoldsWaiting
      <3>2. calls[queue[i]].waited \in Nat /\ calls[queue[j]].waited \in Nat
        BY <2>2, Limits DEF Call
      <3> QED
        BY <3>1, <3>2, <2>2, Limits DEF AtMost
    <2>4. {queue[i] : i \in DOMAIN queue} = InPhase("queued")'
      BY <1>3 DEF IInv, QueueHoldsWaiting
    <2> QED
      BY <2>1, <2>3, <2>4 DEF IInv, QueueHoldsWaiting
  <1>7. ClosedMeansHealthy'
    BY DEF IInv, ClosedMeansHealthy, Tick
  <1>8. sinceOpened' \in 0..ResetTimeout /\ retryLeft' \in Nat
    BY Limits DEF Tick, IInv, TypeOK, AtMost
  <1> QED
    BY <1>2, <1>4, <1>5, <1>6, <1>7, <1>8 DEF Tick, IInv, TypeOK

LEMMA InitInv == Init => IInv
  <1> SUFFICES ASSUME Init PROVE IInv
    OBVIOUS
  <1>1. \A p : p # "idle" => InPhase(p) = {}
    BY IdleIsCall DEF Init, InPhase
  <1>2. queue = <<>> /\ recent = <<>> /\ Len(recent) = 0 /\ DOMAIN queue = {}
    BY DEF Init
  <1>3. TypeOK
    <2>1. queue \in Seq(Callers) /\ recent \in Seq(Nat)
      BY <1>2, EmptySeq
    <2>2. 0 \in 0..FAILURE_THRESHOLD /\ 0 \in 0..ResetTimeout
      BY Limits
    <2> QED
      BY <2>1, <2>2, IdleIsCall DEF Init, TypeOK
  <1>4. SlotsCounted
    BY <1>1, <1>2, FS_EmptySet, Limits DEF Init, SlotsCounted
  <1>5. ClosedMeansHealthy
    BY Limits DEF Init, ClosedMeansHealthy
  <1>6. QueueHoldsWaiting
    BY <1>1, <1>2 DEF QueueHoldsWaiting
  <1>7. BackoffHasRetry
    BY IdleIsCall DEF Init, BackoffHasRetry
  <1> QED
    BY <1>3, <1>4, <1>5, <1>6, <1>7 DEF IInv

LEMMA StepInv == IInv /\ [Next]_vars => IInv'
  <1> SUFFICES ASSUME IInv, [Next]_vars PROVE IInv'
    OBVIOUS
  <1>1. CASE Flush
    BY <1>1, FlushInv
  <1>2. CASE Tick
    BY <1>2, TickInv
  <1>3. ASSUME NEW c \in Callers, CallerStep(c) PROVE IInv'
    BY <1>3, CallerInv
  <1>4. CASE UNCHANGED vars
    BY <1>4 DEF vars, breaker, limiter, IInv, TypeOK, SlotsCounted, ClosedMeansHealthy,
                QueueHoldsWaiting, BackoffHasRetry, InPhase
  <1> QED
    BY <1>1, <1>2, <1>3, <1>4 DEF Next

---------------------------------------------------------------------------
(* The theorems.                                                           *)

\* The inductive invariant of the breaker, the limiter and the calls holds in
\* every reachable state of callLLM's gate.
THEOREM GateInvariant == Spec => []IInv
  BY InitInv, StepInv, PTL DEF Spec

\* Every state is well typed; in particular a call never makes more than
\* MAX_RETRIES retries.
THEOREM GateTypeOK == Spec => []TypeOK
  <1>1. IInv => TypeOK
    BY DEF IInv
  <1> QED
    BY <1>1, GateInvariant, PTL

\* The limiter's counter equals the requests in flight, and neither the
\* concurrency nor the per-minute limit is exceeded.
THEOREM SlotsAlwaysCounted == Spec => []SlotsCounted
  <1>1. IInv => SlotsCounted
    BY DEF IInv
  <1> QED
    BY <1>1, GateInvariant, PTL

\* A closed circuit has counted fewer failures than its threshold.
THEOREM ClosedAlwaysHealthy == Spec => []ClosedMeansHealthy
  <1>1. IInv => ClosedMeansHealthy
    BY DEF IInv
  <1> QED
    BY <1>1, GateInvariant, PTL

\* The queue holds exactly the waiting callers, once each, longest wait first.
THEOREM QueueAlwaysHoldsWaiting == Spec => []QueueHoldsWaiting
  <1>1. IInv => QueueHoldsWaiting
    BY DEF IInv
  <1> QED
    BY <1>1, GateInvariant, PTL
=============================================================================

------------------------------ MODULE LlmGate ------------------------------
(***************************************************************************)
(* The gate in front of the language model that the matching stage calls:  *)
(* callLLM (lib/reconciliation-llm-match.ts) asks the circuit breaker      *)
(* (lib/llm-circuit-breaker.ts), then the rate limiter                     *)
(* (lib/llm-rate-limiter.ts), fetches, and retries.  Breaker and limiter   *)
(* are singletons of one process that all its calls share.                 *)
(*                                                                         *)
(* Time is counted in ticks, and kept as ages and remainders, so that no   *)
(* clock grows: the age of each recent start, of each queue entry, of each *)
(* attempt, of the last opening, and what is left of a Retry-After.  An age*)
(* stops at the limit it is compared with.  A timer of the program fires   *)
(* at its time or later, as Node's do.                                     *)
(***************************************************************************)
EXTENDS Integers, Sequences, FiniteSets

CONSTANTS
    Callers,             \* tasks of the process that may be in callLLM
    FAILURE_THRESHOLD,   \* consecutive failures before opening
    MAX_CONCURRENT,      \* requests in flight
    MAX_PER_MINUTE,      \* requests started in one Minute
    MAX_RETRIES,         \* retries of one call
    Minute, QueueTimeout, CallTimeout, ResetTimeout,   \* in ticks
    RetryAfter           \* the waits that a 429 may ask for, in ticks

ASSUME GateAssumption ==
    /\ IsFiniteSet(Callers)
    /\ {FAILURE_THRESHOLD, MAX_CONCURRENT, MAX_PER_MINUTE} \subseteq Nat \ {0}
    /\ {Minute, CallTimeout, ResetTimeout} \subseteq Nat \ {0}
    /\ {MAX_RETRIES, QueueTimeout} \subseteq Nat
    /\ RetryAfter \subseteq Nat

VARIABLES
    state,        \* of the circuit
    failures,     \* consecutive failures, up to the threshold
    sinceOpened,  \* age of openedAt, which only an open circuit looks at
    concurrent,   \* the limiter's count of requests in flight
    recent,       \* minuteWindow: the age of each request started lately
    retryLeft,    \* ticks during which a 429 forbids requests
    queue,        \* callers that wait for a slot, first in first out
    flushDue,     \* a setTimeout(tryFlushQueue, 0) is pending
    calls         \* where each caller is

breaker == <<state, failures, sinceOpened>>
limiter == <<concurrent, recent, retryLeft, queue, flushDue>>
vars == <<breaker, limiter, calls>>

Phases == {"idle", "queued", "inflight", "reading", "backoff"}

\* attempt: retries so far; ran: age of the attempt, on which its abort
\* timer runs; waited: age of its queue entry.
Call == [phase : Phases, attempt : 0..MAX_RETRIES,
         ran : 0..CallTimeout, waited : 0..(QueueTimeout + 1)]

NotCalling == [phase |-> "idle", attempt |-> 0, ran |-> 0, waited |-> 0]

InPhase(phase) == {c \in Callers : calls[c].phase = phase}

AtMost(n, limit) == IF n < limit THEN n ELSE limit

---------------------------------------------------------------------------
(* The circuit breaker.                                                    *)

\* allowRequest: an open circuit lets a request through after the timeout,
\* a half-open one lets all of them through.
Allowed == state = "OPEN" => sinceOpened >= ResetTimeout

\* allowRequest's transition.
Probing ==
    /\ state' = IF state = "OPEN" THEN "HALF_OPEN" ELSE state
    /\ UNCHANGED <<failures, sinceOpened>>

\* Mutant: the count is reset only outside a probe.
SuccessKeepsCount ==
    /\ state' = IF state = "HALF_OPEN" THEN "CLOSED" ELSE state
    /\ failures' = IF state = "HALF_OPEN" THEN failures ELSE 0
    /\ UNCHANGED sinceOpened

\* recordSuccess: it closes a half-open circuit, and no other.
recordSuccess ==
    /\ state' = IF state = "HALF_OPEN" THEN "CLOSED" ELSE state
    /\ failures' = 0
    /\ sinceOpened' = IF state = "HALF_OPEN" THEN 0 ELSE sinceOpened

\* recordFailure, n times in a row.
Opens(n) ==
    \/ state = "HALF_OPEN" /\ n > 0
    \/ state = "CLOSED" /\ failures + n >= FAILURE_THRESHOLD

recordFailures(n) ==
    /\ failures' = AtMost(failures + n, FAILURE_THRESHOLD)
    /\ state' = IF Opens(n) THEN "OPEN" ELSE state
    /\ sinceOpened' = IF Opens(n) THEN 0 ELSE sinceOpened

---------------------------------------------------------------------------
(* The rate limiter.                                                       *)

\* canProceed.
CanProceed ==
    /\ retryLeft = 0
    /\ concurrent < MAX_CONCURRENT
    /\ Len(recent) < MAX_PER_MINUTE

\* How many requests canProceed lets through one after the other.
Free ==
    IF CanProceed THEN AtMost(MAX_CONCURRENT - concurrent, MAX_PER_MINUTE - Len(recent)) ELSE 0

\* acquire, n times.
acquire(n) ==
    /\ concurrent' = concurrent + n
    /\ recent' = recent \o [i \in 1..n |-> 0]

\* Mutant: the slot is kept.
ReleaseForgotten ==
    /\ UNCHANGED concurrent
    /\ flushDue' = TRUE

\* Mutant: nobody looks at the queue.
ReleaseWithoutFlush ==
    /\ concurrent' = IF concurrent = 0 THEN 0 ELSE concurrent - 1
    /\ UNCHANGED flushDue

\* release: the queue is looked at by a later task, not here.
release ==
    /\ concurrent' = IF concurrent = 0 THEN 0 ELSE concurrent - 1
    /\ flushDue' = TRUE

---------------------------------------------------------------------------
(* callLLM: one attempt, and what follows a failed one.                    *)

\* Mutant: one retry too many.
AfterFailureAgain(c) ==
    IF state' = "OPEN" \/ calls[c].attempt > MAX_RETRIES
    THEN NotCalling
    ELSE [phase |-> "backoff", attempt |-> calls[c].attempt, ran |-> 0, waited |-> 0]

\* What callLLM does with a null result: it gives up when the circuit is
\* (now) open or the retries are spent, and waits before the next attempt
\* otherwise.
AfterFailure(c) ==
    IF state' = "OPEN" \/ calls[c].attempt = MAX_RETRIES
    THEN NotCalling
    ELSE [phase |-> "backoff", attempt |-> calls[c].attempt, ran |-> 0, waited |-> 0]

Fail(c) ==
    /\ recordFailures(1)
    /\ calls' = [calls EXCEPT ![c] = AfterFailure(c)]

\* allowRequest and acquireSlot run in one go: the slot is taken at once,
\* past those who queue, or the caller joins the queue.
AttemptAs(c, attempt) ==
    /\ Allowed
    /\ Probing
    /\ \/ /\ CanProceed
          /\ acquire(1)
          /\ calls' = [calls EXCEPT ![c] =
                [phase |-> "inflight", attempt |-> attempt, ran |-> 0, waited |-> 0]]
          /\ UNCHANGED queue
       \/ /\ ~CanProceed
          /\ queue' = Append(queue, c)
          /\ calls' = [calls EXCEPT ![c] =
                [phase |-> "queued", attempt |-> attempt, ran |-> 0, waited |-> 0]]
          /\ UNCHANGED <<concurrent, recent>>
    /\ UNCHANGED <<retryLeft, flushDue>>

\* A call begins; one that the circuit blocks ends at once.
CallLlm(c) == calls[c].phase = "idle" /\ AttemptAs(c, 0)

\* The backoff ends.
Retry(c) ==
    /\ calls[c].phase = "backoff"
    /\ \/ AttemptAs(c, calls[c].attempt + 1)
       \/ /\ ~Allowed
          /\ calls' = [calls EXCEPT ![c] = NotCalling]
          /\ UNCHANGED <<breaker, limiter>>

\* The headers of an answer: the slot is free, the body is still to be read.
Answer(c) ==
    /\ calls[c].phase = "inflight" /\ calls[c].ran < CallTimeout
    /\ release
    /\ calls' = [calls EXCEPT ![c].phase = "reading"]
    /\ UNCHANGED <<breaker, recent, retryLeft, queue>>

\* A 429: the slot is free and the limiter is told, before any other task.
\* The wait that it asks for takes the place of an earlier one, longer or not.
TooMany(c) ==
    /\ calls[c].phase = "inflight" /\ calls[c].ran < CallTimeout
    /\ release
    /\ \E wait \in RetryAfter : retryLeft' = wait
    /\ Fail(c)
    /\ UNCHANGED <<recent, queue>>

\* The request fails; it must when its timer has fired, even while it was
\* still waiting for its slot.
RequestFails(c) ==
    /\ calls[c].phase = "inflight"
    /\ release
    /\ Fail(c)
    /\ UNCHANGED <<recent, retryLeft, queue>>

\* The body is complete and holds a text.
BodyArrives(c) ==
    /\ calls[c].phase = "reading" /\ calls[c].ran < CallTimeout
    /\ recordSuccess
    /\ calls' = [calls EXCEPT ![c] = NotCalling]
    /\ UNCHANGED limiter

\* An error status, a body without a text, a broken or an aborted body.
BodyFails(c) ==
    /\ calls[c].phase = "reading"
    /\ Fail(c)
    /\ UNCHANGED limiter

---------------------------------------------------------------------------
(* The limiter's task and the time.                                        *)

\* Entries that have waited longer than the timeout.
Expired == {i \in DOMAIN queue : calls[queue[i]].waited > QueueTimeout}

\* Mutant: the granted entries stay in the queue.
FlushKeepsGranted(dropped, granted) ==
    LET rejected == {queue[i] : i \in 1..dropped}
        resolved == {queue[i] : i \in (dropped + 1)..(dropped + granted)}
    IN  /\ queue' = SubSeq(queue, dropped + 1, Len(queue))
        /\ acquire(granted)
        /\ recordFailures(dropped)
        /\ calls' = [c \in Callers |->
              IF c \in rejected THEN AfterFailure(c)
              ELSE IF c \in resolved THEN [calls[c] EXCEPT !.phase = "inflight", !.waited = 0]
              ELSE calls[c]]

\* tryFlushQueue: expired entries at the head are rejected - a failure of
\* the call, which the breaker counts - and the next ones get what is free.
FlushTo(dropped, granted) ==
    LET rejected == {queue[i] : i \in 1..dropped}
        resolved == {queue[i] : i \in (dropped + 1)..(dropped + granted)}
    IN  /\ queue' = SubSeq(queue, dropped + granted + 1, Len(queue))
        /\ acquire(granted)
        /\ recordFailures(dropped)
        /\ calls' = [c \in Callers |->
              IF c \in rejected THEN AfterFailure(c)
              ELSE IF c \in resolved THEN [calls[c] EXCEPT !.phase = "inflight", !.waited = 0]
              ELSE calls[c]]

Flush ==
    /\ flushDue
    /\ flushDue' = FALSE
    /\ LET dropped == Cardinality(Expired)
       IN  FlushTo(dropped, AtMost(Len(queue) - dropped, Free))
    /\ UNCHANGED retryLeft

\* One tick passes.
Older(call) ==
    [call EXCEPT
       !.ran = IF call.phase \in {"queued", "inflight", "reading"}
               THEN AtMost(@ + 1, CallTimeout) ELSE @,
       !.waited = IF call.phase = "queued" THEN AtMost(@ + 1, QueueTimeout + 1) ELSE @]

\* cleanMinuteWindow: the oldest, at the front, leave after one Minute.
WindowAfterTick ==
    LET gone == Cardinality({i \in DOMAIN recent : recent[i] + 1 >= Minute})
    IN  [i \in 1..(Len(recent) - gone) |-> recent[i + gone] + 1]

Tick ==
    /\ calls' = [c \in Callers |-> Older(calls[c])]
    /\ sinceOpened' = IF state = "OPEN" THEN AtMost(sinceOpened + 1, ResetTimeout) ELSE sinceOpened
    /\ recent' = WindowAfterTick
    /\ retryLeft' = IF retryLeft = 0 THEN 0 ELSE retryLeft - 1
    /\ UNCHANGED <<state, failures, concurrent, queue, flushDue>>

---------------------------------------------------------------------------
Init ==
    /\ state = "CLOSED" /\ failures = 0 /\ sinceOpened = 0
    /\ concurrent = 0 /\ recent = <<>> /\ retryLeft = 0
    /\ queue = <<>> /\ flushDue = FALSE
    /\ calls = [c \in Callers |-> NotCalling]

CallerStep(c) ==
    \/ CallLlm(c) \/ Retry(c)
    \/ Answer(c) \/ TooMany(c) \/ RequestFails(c)
    \/ BodyArrives(c) \/ BodyFails(c)

Next == Flush \/ Tick \/ \E c \in Callers : CallerStep(c)

\* The abort timer of an attempt.
AbortTimer(c) ==
    /\ calls[c].ran = CallTimeout
    /\ RequestFails(c) \/ BodyFails(c)

\* Time passes, and the program's timers fire.  Nothing is assumed of the
\* callers or of the service.
Fairness ==
    /\ WF_vars(Tick)
    /\ WF_vars(Flush)
    /\ \A c \in Callers : WF_vars(AbortTimer(c)) /\ WF_vars(Retry(c))

Spec == Init /\ [][Next]_vars /\ Fairness

---------------------------------------------------------------------------
(* Properties.                                                             *)

\* Types, and the limits of the counters.
TypeOK ==
    /\ state \in {"CLOSED", "OPEN", "HALF_OPEN"}
    /\ failures \in 0..FAILURE_THRESHOLD
    /\ sinceOpened \in 0..ResetTimeout
    /\ concurrent \in Nat /\ retryLeft \in Nat /\ flushDue \in BOOLEAN
    /\ recent \in Seq(Nat) /\ queue \in Seq(Callers)
    /\ calls \in [Callers -> Call]

\* The counter of requests in flight is the number of them, on every way a
\* request can end, so no slot is lost and none is used twice; and neither
\* limit is exceeded, though slots are taken in two places, by new calls
\* and by the flush (acquireSlot, tryFlushQueue, withRateLimit's finally).
SlotsCounted ==
    /\ concurrent = Cardinality(InPhase("inflight"))
    /\ concurrent <= MAX_CONCURRENT
    /\ Len(recent) <= MAX_PER_MINUTE

\* A closed circuit has counted fewer failures than the threshold, whatever
\* calls of an earlier period, still running when it opened, reported while
\* it was open or half open (recordSuccess, recordFailure).
ClosedMeansHealthy == state = "CLOSED" => failures < FAILURE_THRESHOLD

\* The queue holds each waiting caller once, and in the order of their
\* waiting, so that the expired entries are those at its head, where
\* tryFlushQueue looks for them.
QueueHoldsWaiting ==
    /\ \A i, j \in DOMAIN queue : queue[i] = queue[j] => i = j
    /\ {queue[i] : i \in DOMAIN queue} = InPhase("queued")
    /\ \A i, j \in DOMAIN queue : i < j => calls[queue[i]].waited >= calls[queue[j]].waited

\* As long as requests keep being sent, a queued call gets its slot or is
\* rejected, even though newer calls go past the queue (acquireSlot).
ServedWhileBusy ==
    []<>(InPhase("inflight") # {})
        => \A c \in Callers : calls[c].phase = "queued" ~> calls[c].phase # "queued"

\* llm-rate-limiter.ts:10 says that queued requests wait up to 30 s before
\* failing: every queued call is granted or rejected in the end.
QueuedCallEnds ==
    \A c \in Callers : calls[c].phase = "queued" ~> calls[c].phase # "queued"

\* llm-rate-limiter.ts:11 says that Retry-After headers are respected: no step
\* shortens the wait that a 429 has asked for, so no request is sent in it.
RetryAfterKept ==
    [][retryLeft' >= retryLeft - 1]_vars

\* llm-circuit-breaker.ts:80 says that a half-open circuit allows exactly one
\* probe request: no further attempt gets past it.
OneProbe ==
    [][state = "HALF_OPEN" =>
         \A c \in Callers :
           calls[c].phase \in {"idle", "backoff"} =>
             calls'[c].phase \notin {"inflight", "queued"}]_vars
=============================================================================

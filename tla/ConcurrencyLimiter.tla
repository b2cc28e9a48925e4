-------------------------- MODULE ConcurrencyLimiter --------------------------
(***************************************************************************)
(* The limit on OCR jobs of one process (concurrencyLimiter.js): at most   *)
(* MaxConcurrent callers run, up to maxWaiting more wait in a queue, first *)
(* come first served, each with a timer; others are refused.               *)
(***************************************************************************)
EXTENDS Naturals, Sequences, FiniteSets

CONSTANTS
  Callers,
  MaxConcurrent,   \* maxConcurrent
  Rooms            \* the values of maxWaiting to consider

VARIABLES
  maxWaiting,      \* option of createConcurrencyLimiter
  active,          \* the counter of running tasks
  waiting,         \* the queue
  timers,          \* callers whose WAIT_TIMEOUT timer is set
  slot             \* per caller: where run() has got to

limiter == <<maxWaiting, active, waiting, timers, slot>>

ASSUME LimiterAssumption == IsFiniteSet(Callers) /\ MaxConcurrent \in Nat /\ Rooms \subseteq Nat

LimiterInit ==
  /\ maxWaiting \in Rooms
  /\ active = 0
  /\ waiting = <<>>
  /\ timers = {}
  /\ slot = [c \in Callers |-> "out"]

Free == active < MaxConcurrent /\ waiting = <<>>

Enter(c) ==
  /\ slot[c] = "out" /\ Free
  /\ active' = active + 1
  /\ slot' = [slot EXCEPT ![c] = "running"]
  /\ UNCHANGED <<maxWaiting, waiting, timers>>

Queue(c) ==
  /\ slot[c] = "out" /\ ~Free /\ Len(waiting) < maxWaiting
  /\ waiting' = Append(waiting, c)
  /\ timers' = timers \cup {c}
  /\ slot' = [slot EXCEPT ![c] = "waiting"]
  /\ UNCHANGED <<maxWaiting, active>>

\* QUEUE_FULL
Refuse(c) ==
  /\ slot[c] = "out" /\ ~Free /\ Len(waiting) >= maxWaiting
  /\ UNCHANGED limiter

WithoutPlace(queue, k) ==
  [i \in 1..(Len(queue) - 1) |-> IF i < k THEN queue[i] ELSE queue[i + 1]]

\* splice(indexOf(c), 1): a caller that is not in the queue takes its last one out.
Spliced(c) ==
  LET places == {k \in DOMAIN waiting : waiting[k] = c}
  IN WithoutPlace(waiting, IF places = {} THEN Len(waiting) ELSE CHOOSE k \in places : TRUE)

\* WAIT_TIMEOUT: the timer of a caller fires; one that runs by then does not
\* hear of it.
TimeOut(c) ==
  /\ c \in timers
  /\ timers' = timers \ {c}
  /\ waiting' = IF waiting = <<>> THEN <<>> ELSE Spliced(c)
  /\ slot' = IF slot[c] = "waiting" THEN [slot EXCEPT ![c] = "out"] ELSE slot
  /\ UNCHANGED <<maxWaiting, active>>

\* How many of the queue a release starts.
Started ==
  LET room == MaxConcurrent - (active - 1) IN IF room < Len(waiting) THEN room ELSE Len(waiting)

\* Variant: the callers that are started keep their timers.
LeaveTimersOn(c) ==
  /\ slot[c] = "running"
  /\ active' = active - 1 + Started
  /\ waiting' = SubSeq(waiting, Started + 1, Len(waiting))
  /\ slot' = [d \in Callers |-> IF d = c THEN "out"
                                ELSE IF \E k \in 1..Started : waiting[k] = d THEN "running" ELSE slot[d]]
  /\ UNCHANGED <<maxWaiting, timers>>

\* release() and startNextWaiting().
Leave(c) ==
  /\ slot[c] = "running"
  /\ active' = active - 1 + Started
  /\ waiting' = SubSeq(waiting, Started + 1, Len(waiting))
  /\ timers' = {d \in timers : ~\E k \in 1..Started : waiting[k] = d}
  /\ slot' = [d \in Callers |-> IF d = c THEN "out"
                                ELSE IF \E k \in 1..Started : waiting[k] = d THEN "running" ELSE slot[d]]
  /\ UNCHANGED maxWaiting

\* The process ends, and with it the limiter; the next one starts empty.
Reset ==
  /\ active' = 0
  /\ waiting' = <<>>
  /\ timers' = {}
  /\ slot' = [c \in Callers |-> "out"]
  /\ UNCHANGED maxWaiting

Inside(state) == {c \in Callers : slot[c] = state}

\* The counter is the number of tasks that run, never above the limit; the
\* queue holds each caller that waits, once, and no more than allowed, whether
\* their timers, a release or the end of the process comes first; and nobody
\* waits while a slot is free (concurrencyLimiter.js: "At most maxConcurrent
\* tasks run together; up to maxWaiting more wait").
Slots ==
  /\ active = Cardinality(Inside("running")) /\ active <= MaxConcurrent
  /\ Len(waiting) <= maxWaiting
  /\ \A k \in DOMAIN waiting : slot[waiting[k]] = "waiting"
  /\ \A j, k \in DOMAIN waiting : waiting[j] = waiting[k] => j = k
  /\ \A c \in Inside("waiting") : \E k \in DOMAIN waiting : waiting[k] = c
  /\ waiting # <<>> => active = MaxConcurrent
=============================================================================

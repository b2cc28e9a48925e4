------------------------ MODULE WorkerProcessProofs ------------------------
(***************************************************************************)
(* Theorems about WorkerProcess and the limiter it shares, for every       *)
(* number of loops, slots, submissions, processes and faults.              *)
(***************************************************************************)
EXTENDS WorkerProcess, FiniteSetTheorems, TLAPS

USE LimiterAssumption, WorkerAssumption

LimiterTyped ==
  /\ maxWaiting \in Nat /\ active \in Nat
  /\ waiting \in Seq(Loops)
  /\ timers \subseteq Loops
  /\ slot \in [Loops -> {"out", "waiting", "running"}]

\* A timer is set for those who wait, so that it finds its caller in the queue.
LimiterInv == LimiterTyped /\ Slots /\ timers = Inside("waiting")

----------------------------------------------------------------------------
(* The limiter *)

LEMMA RunningFinite ==
  ASSUME NEW state PROVE IsFiniteSet(Inside(state)) /\ Cardinality(Inside(state)) \in Nat
  <1>1. IsFiniteSet(Inside(state))
    BY FS_Subset DEF Inside
  <1>2. QED
    BY <1>1, FS_CardinalityType

LEMMA LimiterStarts == LimiterInit => LimiterInv
  <1> SUFFICES ASSUME LimiterInit PROVE LimiterInv
    OBVIOUS
  <1>1. LimiterTyped
    BY DEF LimiterInit, LimiterTyped, Loops
  <1>2. Inside("running") = {} /\ Inside("waiting") = {}
    BY DEF LimiterInit, Inside
  <1>3. Slots
    BY <1>1, <1>2, FS_EmptySet DEF LimiterInit, LimiterTyped, Slots
  <1>4. QED
    BY <1>1, <1>2, <1>3 DEF LimiterInv, LimiterInit

LEMMA EnterKeeps ==
  ASSUME LimiterInv, NEW c \in Callers, Enter(c) PROVE LimiterInv'
  <1>1. LimiterTyped'
    BY DEF LimiterInv, LimiterTyped, Enter, Loops
  <1>2. Inside("running")' = Inside("running") \cup {c} /\ c \notin Inside("running")
    BY DEF LimiterInv, LimiterTyped, Enter, Inside, Loops
  <1>3. active' = Cardinality(Inside("running")') /\ active' <= MaxConcurrent
    BY <1>2, RunningFinite, FS_AddElement DEF LimiterInv, LimiterTyped, Slots, Enter, Free
  <1>4. waiting' = <<>> /\ Inside("waiting")' = {} /\ timers' = {} /\ maxWaiting' \in Nat
    BY DEF LimiterInv, LimiterTyped, Slots, Enter, Free, Inside, Loops
  <1>5. QED
    BY <1>1, <1>3, <1>4 DEF LimiterInv, Slots

LEMMA QueueKeeps ==
  ASSUME LimiterInv, NEW c \in Callers, Queue(c) PROVE LimiterInv'
  <1>1. LimiterTyped'
    BY DEF LimiterInv, LimiterTyped, Queue, Loops
  <1>2. Inside("running")' = Inside("running")
    BY DEF LimiterInv, LimiterTyped, Queue, Inside, Loops
  <1>3. /\ waiting' = Append(waiting, c) /\ Len(waiting') = Len(waiting) + 1
        /\ waiting'[Len(waiting) + 1] = c
        /\ \A k \in DOMAIN waiting : waiting'[k] = waiting[k]
        /\ DOMAIN waiting = 1..Len(waiting) /\ DOMAIN waiting' = 1..(Len(waiting) + 1)
        /\ Len(waiting) \in Nat
    BY DEF LimiterInv, LimiterTyped, Queue, Loops
  <1>4. \A k \in DOMAIN waiting : waiting[k] \in Callers /\ slot[waiting[k]] = "waiting" /\ waiting[k] # c
    BY DEF LimiterInv, LimiterTyped, Slots, Queue, Loops
  <1>5. slot' = [slot EXCEPT ![c] = "waiting"] /\ slot'[c] = "waiting" /\ \A d \in Callers \ {c} : slot'[d] = slot[d]
    BY DEF LimiterInv, LimiterTyped, Queue, Loops
  <1>6. \A k \in DOMAIN waiting' : slot'[waiting'[k]] = "waiting"
    <2> TAKE k \in DOMAIN waiting'
    <2>1. CASE k \in DOMAIN waiting
      BY <2>1, <1>3, <1>4, <1>5
    <2>2. CASE k = Len(waiting) + 1
      BY <2>2, <1>3, <1>5
    <2>3. QED
      BY <2>1, <2>2, <1>3
  <1>7. \A j, k \in DOMAIN waiting' : waiting'[j] = waiting'[k] => j = k
    <2> TAKE j, k \in DOMAIN waiting'
    <2>1. \A i \in DOMAIN waiting' : i \in DOMAIN waiting \/ i = Len(waiting) + 1
      BY <1>3
    <2>2. CASE j \in DOMAIN waiting /\ k \in DOMAIN waiting
      BY <2>2, <1>3 DEF LimiterInv, Slots
    <2>3. CASE j = Len(waiting) + 1 \/ k = Len(waiting) + 1
      BY <2>3, <2>1, <1>3, <1>4
    <2>4. QED
      BY <2>1, <2>2, <2>3
  <1>8. \A d \in Inside("waiting")' : \E k \in DOMAIN waiting' : waiting'[k] = d
    <2> SUFFICES ASSUME NEW d \in Callers, slot'[d] = "waiting"
                 PROVE  \E k \in DOMAIN waiting' : waiting'[k] = d
      BY DEF Inside
    <2>1. CASE d = c
      BY <2>1, <1>3
    <2>2. CASE d # c
      <3>1. PICK k \in DOMAIN waiting : waiting[k] = d
        BY <2>2, <1>5 DEF LimiterInv, Slots, Inside
      <3>2. QED
        BY <3>1, <1>3
    <2>3. QED
      BY <2>1, <2>2
  <1>9. active = MaxConcurrent
    BY DEF LimiterInv, LimiterTyped, Slots, Queue, Free
  <1>10. Len(waiting') <= maxWaiting'
    BY <1>3 DEF LimiterInv, LimiterTyped, Queue
  <1>11. timers' = Inside("waiting")'
    BY <1>5 DEF LimiterInv, Queue, Inside
  <1>12. QED
    BY <1>1, <1>2, <1>6, <1>7, <1>8, <1>9, <1>10, <1>11 DEF LimiterInv, Slots, Queue

LEMMA TimeOutKeeps ==
  ASSUME LimiterInv, NEW c \in Callers, TimeOut(c) PROVE LimiterInv'
  <1>0. slot[c] = "waiting" /\ c \in Inside("waiting")
    BY DEF LimiterInv, TimeOut, Inside
  <1>1. PICK p \in DOMAIN waiting : waiting[p] = c /\ waiting' = WithoutPlace(waiting, p)
    <2> DEFINE places == {k \in DOMAIN waiting : waiting[k] = c}
    <2>1. places # {} /\ waiting # <<>>
      BY <1>0 DEF LimiterInv, Slots
    <2>2. (CHOOSE k \in places : TRUE) \in places
      BY <2>1
    <2> QED
      BY <2>1, <2>2 DEF TimeOut, Spliced
  <1> DEFINE old(i) == IF i < p THEN i ELSE i + 1
  <1>2. /\ Len(waiting) \in Nat /\ DOMAIN waiting = 1..Len(waiting) /\ p \in 1..Len(waiting)
        /\ \A i \in 1..Len(waiting) : waiting[i] \in Callers
    BY <1>1 DEF LimiterInv, LimiterTyped, Loops
  <1>3. waiting' = [i \in 1..(Len(waiting) - 1) |-> IF i < p THEN waiting[i] ELSE waiting[i + 1]]
    BY <1>1 DEF WithoutPlace
  <1>4. /\ \A i \in 1..(Len(waiting) - 1) :
             old(i) \in 1..Len(waiting) /\ old(i) # p /\ waiting'[i] = waiting[old(i)]
        /\ \A i \in 1..Len(waiting) : i # p => \E j \in 1..(Len(waiting) - 1) : old(j) = i
        /\ \A i, j \in 1..(Len(waiting) - 1) : old(i) = old(j) => i = j
    <2>1. \A i \in 1..(Len(waiting) - 1) :
             old(i) \in 1..Len(waiting) /\ old(i) # p /\ waiting'[i] = waiting[old(i)]
      BY <1>2, <1>3
    <2>2. ASSUME NEW i \in 1..Len(waiting), i # p PROVE \E j \in 1..(Len(waiting) - 1) : old(j) = i
      <3>1. CASE i < p
        BY <3>1, <1>2
      <3>2. CASE i > p
        <4>1. i - 1 \in 1..(Len(waiting) - 1) /\ old(i - 1) = i
          BY <3>2, <1>2
        <4>2. QED
          BY <4>1
      <3>3. QED
        BY <3>1, <3>2, <2>2, <1>2
    <2>3. \A i, j \in 1..(Len(waiting) - 1) : old(i) = old(j) => i = j
      BY <1>2
    <2>4. QED
      BY <2>1, <2>2, <2>3
  <1> HIDE DEF old
  <1>5. Len(waiting) - 1 \in Nat /\ waiting' \in Seq(Callers) /\ Len(waiting') = Len(waiting) - 1 /\ DOMAIN waiting' = 1..(Len(waiting) - 1)
    <2>1. Len(waiting) - 1 \in Nat
      BY <1>2
    <2>2. waiting' \in [1..(Len(waiting) - 1) -> Callers]
      BY <1>2, <1>3
    <2>3. QED
      BY <2>1, <2>2
  <1>6. slot' = [slot EXCEPT ![c] = "out"] /\ slot'[c] = "out" /\ \A d \in Callers \ {c} : slot'[d] = slot[d]
    BY <1>0 DEF LimiterInv, LimiterTyped, TimeOut, Loops
  <1>7. LimiterTyped'
    BY <1>5, <1>6 DEF LimiterInv, LimiterTyped, TimeOut, Loops
  <1>8. Inside("running")' = Inside("running") /\ timers' = Inside("waiting")'
    BY <1>0, <1>6 DEF Inside, TimeOut, LimiterInv
  <1>9. \A i \in DOMAIN waiting' : slot'[waiting'[i]] = "waiting"
    <2> TAKE i \in DOMAIN waiting'
    <2>1. waiting'[i] = waiting[old(i)] /\ old(i) \in DOMAIN waiting /\ old(i) # p
      BY <1>2, <1>4, <1>5
    <2>2. waiting[old(i)] # c /\ waiting[old(i)] \in Callers /\ slot[waiting[old(i)]] = "waiting"
      BY <1>1, <1>2, <2>1 DEF LimiterInv, Slots
    <2>3. QED
      BY <2>1, <2>2, <1>6
  <1>10. \A i, j \in DOMAIN waiting' : waiting'[i] = waiting'[j] => i = j
    <2> SUFFICES ASSUME NEW i \in DOMAIN waiting', NEW j \in DOMAIN waiting', waiting'[i] = waiting'[j]
                 PROVE  i = j
      OBVIOUS
    <2>1. /\ waiting[old(i)] = waiting[old(j)]
          /\ old(i) \in DOMAIN waiting /\ old(j) \in DOMAIN waiting
      BY <1>2, <1>4, <1>5
    <2>2. old(i) = old(j)
      BY <2>1 DEF LimiterInv, Slots
    <2>3. QED
      BY <2>2, <1>4, <1>5
  <1>11. \A d \in Inside("waiting")' : \E k \in DOMAIN waiting' : waiting'[k] = d
    <2> SUFFICES ASSUME NEW d \in Callers, slot'[d] = "waiting"
                 PROVE  \E k \in DOMAIN waiting' : waiting'[k] = d
      BY DEF Inside
    <2>1. d # c /\ slot[d] = "waiting"
      BY <1>6
    <2>2. PICK i \in DOMAIN waiting : waiting[i] = d
      BY <2>1 DEF LimiterInv, Slots, Inside
    <2>3. i # p
      BY <2>1, <2>2, <1>1
    <2>4. PICK j \in 1..(Len(waiting) - 1) : old(j) = i
      BY <2>3, <1>2, <1>4
    <2>5. QED
      BY <2>2, <2>4, <1>4, <1>5
  <1>12. active' = active /\ maxWaiting' = maxWaiting /\ waiting # <<>>
    BY <1>2 DEF TimeOut
  <1>13. Len(waiting') <= maxWaiting' /\ active' = MaxConcurrent
    BY <1>2, <1>5, <1>12 DEF LimiterInv, LimiterTyped, Slots
  <1>14. QED
    BY <1>7, <1>8, <1>9, <1>10, <1>11, <1>12, <1>13 DEF LimiterInv, Slots

\* The only caller that leaves a queue behind starts its head: whoever waits
\* does so because every slot is taken.
LEMMA LeaveKeeps ==
  ASSUME LimiterInv, NEW c \in Callers, Leave(c) PROVE LimiterInv'
  <1> DEFINE room == MaxConcurrent - (active - 1)
             started == Started
  <1>1. /\ slot[c] = "running" /\ active' = active - 1 + started
        /\ waiting' = SubSeq(waiting, started + 1, Len(waiting))
        /\ slot' = [d \in Callers |-> IF d = c THEN "out"
                                      ELSE IF \E k \in 1..started : waiting[k] = d THEN "running" ELSE slot[d]]
        /\ maxWaiting' = maxWaiting
    BY DEF Leave
  <1>8. timers' = {d \in timers : ~\E k \in 1..started : waiting[k] = d}
    BY DEF Leave
  <1>9. started = IF room < Len(waiting) THEN room ELSE Len(waiting)
    BY DEF Started
  <1> HIDE DEF started
  <1>2. /\ active \in Nat /\ active <= MaxConcurrent /\ active = Cardinality(Inside("running"))
        /\ Len(waiting) \in Nat /\ DOMAIN waiting = 1..Len(waiting) /\ waiting \in Seq(Callers)
        /\ maxWaiting \in Nat /\ Len(waiting) <= maxWaiting
        /\ slot \in [Callers -> {"out", "waiting", "running"}]
        /\ waiting # <<>> => active = MaxConcurrent
        /\ timers = Inside("waiting") /\ timers \subseteq Callers
    BY DEF LimiterInv, LimiterTyped, Slots, Loops
  <1>3. c \in Inside("running") /\ active >= 1
    <2>1. c \in Inside("running")
      BY <1>1 DEF Inside
    <2>2. Cardinality(Inside("running")) # 0
      BY <2>1, RunningFinite, FS_EmptySet
    <2>3. QED
      BY <2>1, <2>2, <1>2
  <1>4. IsFiniteSet(Inside("running") \ {c}) /\ Cardinality(Inside("running") \ {c}) = active - 1
    BY <1>2, <1>3, RunningFinite, FS_RemoveElement
  <1>5. CASE waiting = <<>>
    <2>1. started = 0 /\ Len(waiting) = 0
      BY <1>9, <1>2, <1>3, <1>5
    <2> HIDE DEF room
    <2>2. waiting' = <<>> /\ waiting' \in Seq(Loops) /\ active' = active - 1
      BY <1>1, <1>2, <1>5, <2>1
    <2>3. slot' = [slot EXCEPT ![c] = "out"]
      <3>1. \A d \in Callers : ~ \E k \in 1..started : waiting[k] = d
        BY <2>1
      <3>2. slot' = [d \in Callers |-> IF d = c THEN "out" ELSE slot[d]]
        BY <1>1, <3>1
      <3>3. QED
        BY <3>2, <1>2
    <2>4. Inside("running")' = Inside("running") \ {c} /\ Inside("waiting")' = Inside("waiting") \ {c}
      BY <1>2, <2>3 DEF Inside
    <2>5. Inside("waiting") = {}
      BY <1>5 DEF LimiterInv, Slots
    <2>10. timers' = {}
      BY <1>8, <1>2, <2>5
    <2>6. LimiterTyped'
      <3>1. active' \in Nat /\ slot' \in [Loops -> {"out", "waiting", "running"}]
        BY <1>2, <1>3, <2>2, <2>3 DEF Loops
      <3>2. QED
        BY <3>1, <1>1, <1>2, <2>2, <2>10 DEF LimiterTyped
    <2>7. DOMAIN waiting' = {} /\ Len(waiting') = 0
      BY <2>2
    <2>8. active' = Cardinality(Inside("running")') /\ active' <= MaxConcurrent
      <3>1. Cardinality(Inside("running")') = Cardinality(Inside("running") \ {c})
        BY <2>4, Zenon
      <3>2. QED
        BY <3>1, <1>2, <1>4, <2>2
    <2>9. QED
      BY <1>1, <1>2, <2>2, <2>4, <2>5, <2>6, <2>7, <2>8, <2>10 DEF LimiterInv, Slots
  <1>6. CASE waiting # <<>>
    <2>1. started = 1 /\ Len(waiting) >= 1 /\ active = MaxConcurrent
      <3>1. active = MaxConcurrent /\ Len(waiting) >= 1
        BY <1>2, <1>6
      <3>2. room = 1
        BY <3>1, <1>2
      <3> HIDE DEF room
      <3>3. Len(waiting) \in Nat
        BY <1>2
      <3>4. started = IF 1 < Len(waiting) THEN 1 ELSE Len(waiting)
        BY <1>9, <3>2, Zenon
      <3> DEFINE n == Len(waiting)
      <3> HIDE DEF n
      <3>5. n \in Nat /\ n >= 1 /\ started = IF 1 < n THEN 1 ELSE n
        BY <3>1, <3>3, <3>4, Zenon DEF n
      <3>6. started = 1
        BY <3>5
      <3>7. QED
        BY <3>1, <3>6
    <2> HIDE DEF room
    <2> DEFINE head == waiting[1]
    <2>2. head \in Callers /\ slot[head] = "waiting" /\ head # c
      BY <1>1, <1>2, <2>1 DEF LimiterInv, Slots
    <2>3. \A d \in Callers : (\E k \in 1..started : waiting[k] = d) <=> d = head
      BY <2>1
    <2> HIDE DEF head
    <2>4. slot' = [d \in Callers |-> IF d = c THEN "out" ELSE IF d = head THEN "running" ELSE slot[d]]
      BY <1>1, <2>3
    <2>5. active' = active
      BY <1>1, <1>2, <2>1
    <2>6. /\ waiting' \in Seq(Callers) /\ Len(waiting') = Len(waiting) - 1
          /\ DOMAIN waiting' = 1..(Len(waiting) - 1)
          /\ \A k \in 1..(Len(waiting) - 1) : waiting'[k] = waiting[k + 1]
      <3>1. waiting' = SubSeq(waiting, 2, Len(waiting))
        <4>1. started + 1 = 2
          BY <2>1
        <4>2. waiting' = SubSeq(waiting, started + 1, Len(waiting))
          BY <1>1
        <4>3. QED
          BY <4>1, <4>2, Zenon
      <3>2. QED
        BY <3>1, <1>2, <2>1
    <2>7. \A k \in 1..(Len(waiting) - 1) : k + 1 \in DOMAIN waiting /\ k + 1 # 1
      BY <1>2
    <2>8. Inside("running")' = (Inside("running") \ {c}) \cup {head} /\ head \notin Inside("running")
      BY <2>2, <2>4 DEF Inside
    <2>9. Cardinality(Inside("running")') = active'
      <3>1. head \notin Inside("running") \ {c}
        BY <2>8
      <3>2. Cardinality((Inside("running") \ {c}) \cup {head}) = (active - 1) + 1
        BY <3>1, <1>4, FS_AddElement
      <3>3. Cardinality(Inside("running")') = Cardinality((Inside("running") \ {c}) \cup {head})
        BY <2>8, Zenon
      <3>4. QED
        BY <3>2, <3>3, <2>5, <1>2
    <2>15. timers' = Inside("waiting")'
      <3>1. timers' = {d \in timers : d # head}
        BY <1>8, <1>2, <2>3
      <3>2. c \notin timers
        BY <1>1, <1>2 DEF Inside
      <3>3. QED
        BY <3>1, <3>2, <1>2, <2>4 DEF Inside
    <2>10. LimiterTyped'
      <3>1. slot' \in [Callers -> {"out", "waiting", "running"}]
        BY <1>2, <2>4
      <3>2. timers' \subseteq Callers
        BY <1>8, <1>2
      <3>3. QED
        BY <3>1, <3>2, <1>1, <1>2, <2>5, <2>6 DEF LimiterTyped, Loops
    <2>11. \A k \in DOMAIN waiting' : slot'[waiting'[k]] = "waiting"
      <3> TAKE k \in DOMAIN waiting'
      <3>1. waiting'[k] = waiting[k + 1] /\ k + 1 \in DOMAIN waiting /\ k + 1 # 1
        BY <2>6, <2>7
      <3>2. slot[waiting[k + 1]] = "waiting" /\ waiting[k + 1] \in Callers /\ waiting[k + 1] # head
        BY <3>1, <1>2, <2>1 DEF LimiterInv, Slots, head
      <3>3. QED
        BY <3>1, <3>2, <1>1, <2>4
    <2>12. \A i, j \in DOMAIN waiting' : waiting'[i] = waiting'[j] => i = j
      <3> SUFFICES ASSUME NEW i \in DOMAIN waiting', NEW j \in DOMAIN waiting', waiting'[i] = waiting'[j]
                   PROVE  i = j
        OBVIOUS
      <3>1. i \in Nat /\ j \in Nat
        BY <2>6, <1>2
      <3>2. waiting[i + 1] = waiting[j + 1] /\ i + 1 \in DOMAIN waiting /\ j + 1 \in DOMAIN waiting
        BY <2>6, <2>7
      <3>3. i + 1 = j + 1
        BY <3>2 DEF LimiterInv, Slots
      <3>4. QED
        BY <3>1, <3>3
    <2>13. \A d \in Inside("waiting")' : \E k \in DOMAIN waiting' : waiting'[k] = d
      <3> SUFFICES ASSUME NEW d \in Callers, slot'[d] = "waiting"
                   PROVE  \E k \in DOMAIN waiting' : waiting'[k] = d
        BY DEF Inside
      <3>1. d # head /\ slot[d] = "waiting"
        BY <2>4
      <3>2. PICK k \in DOMAIN waiting : waiting[k] = d
        BY <3>1 DEF LimiterInv, Slots, Inside
      <3>3. k # 1
        BY <3>1, <3>2 DEF head
      <3>4. k - 1 \in 1..(Len(waiting) - 1) /\ (k - 1) + 1 = k
        BY <3>3, <1>2
      <3>5. waiting'[k - 1] = d /\ k - 1 \in DOMAIN waiting'
        BY <3>2, <3>4, <2>6
      <3>6. QED
        BY <3>5
    <2>14. active' = MaxConcurrent /\ Len(waiting') <= maxWaiting'
      BY <1>1, <1>2, <2>1, <2>5, <2>6
    <2>16. MaxConcurrent <= MaxConcurrent
      BY LimiterAssumption
    <2>17. Slots'
      BY <2>9, <2>11, <2>12, <2>13, <2>14, <2>16 DEF Slots
    <2>18. QED
      BY <2>10, <2>15, <2>17 DEF LimiterInv
  <1>7. QED
    BY <1>5, <1>6

LEMMA ResetKeeps ==
  ASSUME LimiterInv, Reset PROVE LimiterInv'
  <1>1. LimiterTyped'
    BY DEF LimiterInv, LimiterTyped, Reset, Loops
  <1>2. Inside("running")' = {} /\ Inside("waiting")' = {}
    BY DEF Reset, Inside
  <1>3. active' = 0 /\ waiting' = <<>> /\ timers' = {} /\ maxWaiting' \in Nat /\ DOMAIN waiting' = {} /\ Len(waiting') = 0
    BY DEF LimiterInv, LimiterTyped, Reset
  <1>4. QED
    BY <1>1, <1>2, <1>3, FS_EmptySet DEF LimiterInv, Slots

\* What run(), its timers and the end of the process do to the limiter.
LimiterMoves ==
  \/ \E c \in Callers : Enter(c) \/ Queue(c) \/ Refuse(c) \/ TimeOut(c) \/ Leave(c)
  \/ Reset

LEMMA LimiterStep ==
  ASSUME LimiterInv, [LimiterMoves]_limiter PROVE LimiterInv'
  <1>1. CASE LimiterMoves
    <2>1. CASE Reset
      BY <2>1, ResetKeeps
    <2>2. ASSUME NEW c \in Callers, Enter(c) \/ Queue(c) \/ Refuse(c) \/ TimeOut(c) \/ Leave(c) PROVE LimiterInv'
      <3>1. CASE Refuse(c)
        BY <3>1 DEF Refuse, limiter, LimiterInv, LimiterTyped, Slots, Inside
      <3>2. QED
        BY <2>2, <3>1, EnterKeeps, QueueKeeps, TimeOutKeeps, LeaveKeeps
    <2>3. QED
      BY <1>1, <2>1, <2>2 DEF LimiterMoves
  <1>2. CASE UNCHANGED limiter
    BY <1>2 DEF limiter, LimiterInv, LimiterTyped, Slots, Inside
  <1>3. QED
    BY <1>1, <1>2

----------------------------------------------------------------------------
(* The process uses the limiter as it is meant to be used: every step of it *)
(* is one of the limiter or leaves the limiter alone.                       *)

LEMMA LoopUsesLimiter ==
  ASSUME NEW l \in Loops, LoopStep(l) \/ Poll(l) \/ FaultStep(l) PROVE [LimiterMoves]_limiter
  <1>1. CASE NeedsOcr(l) \/ OcrBusy(l) \/ OcrEnds(l) \/ OcrTimesOut(l)
    BY <1>1 DEF NeedsOcr, OcrBusy, OcrEnds, OcrTimesOut, LimiterMoves, Loops
  <1>2. CASE \/ Claim(l) \/ ClaimNone(l) \/ Start(l) \/ GiveUp(l) \/ NeedsNoOcr(l)
             \/ Renew(l) \/ Renewed(l) \/ Finish(l) \/ Sleep(l) \/ Poll(l)
    BY <1>2 DEF Claim, ClaimNone, Start, GiveUp, NeedsNoOcr, Renew, Renewed, Finish, Sleep, Poll
  <1>3. CASE FaultStep(l)
    BY <1>3 DEF FaultStep, ClaimFails, LoadFails, RenewFails, ReleaseFails
  <1>4. QED
    BY <1>1, <1>2, <1>3 DEF LoopStep

LEMMA StepUsesLimiter ==
  ASSUME [Next]_vars PROVE [LimiterMoves]_limiter
  <1>1. CASE \E l \in Loops : LoopStep(l) \/ Poll(l) \/ FaultStep(l)
    BY <1>1, LoopUsesLimiter
  <1>2. CASE \E s \in Submissions : WebhookStep(s) \/ LeaseOver(s)
    BY <1>2 DEF WebhookStep, Receive, Record, NotRecorded, Notify, LeaseOver
  <1>3. CASE Stopping \/ Crashes \/ Signal \/ Boot
    BY <1>3 DEF Stopping, Releasing, Crashes, LoopsSettled, StopTimesOut, Release, AllReleased, Exit, HardStop,
                Crash, Gone, Signal, Boot, LimiterMoves
  <1>4. CASE UNCHANGED vars
    BY <1>4 DEF vars
  <1>5. QED
    BY <1>1, <1>2, <1>3, <1>4 DEF Next

\* ocrService.js: at most MAX_CONCURRENT_OCR_JOBS jobs run, as counted, and a
\* loop waits for OCR only while they do, whichever of a loop's wait timer, the
\* release of a slot and the end of the process comes first.
THEOREM ProcessSlots == Spec => []Slots
  <1>1. LimiterInv /\ [Next]_vars => LimiterInv'
    BY StepUsesLimiter, LimiterStep
  <1>2. Init => LimiterInv
    BY LimiterStarts DEF Init
  <1>3. LimiterInv => Slots
    BY DEF LimiterInv
  <1>4. QED
    BY <1>1, <1>2, <1>3, PTL DEF Spec

----------------------------------------------------------------------------
(* The worker and its shutdown *)

Busy == {"Load", "Ocr", "Finish", "Renewing", "Lost", "Record"}

Typed ==
  /\ serving \subseteq Submissions
  /\ loop \in [Loops -> Step]
  /\ job \in [Loops -> Submissions \cup {0}]
  /\ attempt \in [Loops -> Nat]
  /\ claims \subseteq Loops
  /\ stop \in Stop
  /\ toRelease \subseteq Loops \X Submissions
  /\ kept \subseteq Submissions

\* An owned row is recorded and its attempt counted, so that release() can take
\* the attempt back.
RowsSound ==
  /\ row \in [Submissions -> Row]
  /\ \A s \in Submissions : row[s].owner \in Loops => (row[s].state # "absent" /\ row[s].attempts > 0)

JobsSound ==
  /\ \A l \in Loops : loop[l] \in Busy \cup {"Claimed"} => job[l] \in Submissions
  /\ \A l \in claims : loop[l] \in Busy
  /\ stop = "down" => \A l \in Loops : loop[l] = "Ended"

\* From the time-out of stop() on, a running claim whose lease still runs is one
\* that stop() is about to release or could not hand back.
Handing ==
  /\ stop # "releasing" => toRelease = {}
  /\ stop \in {"releasing", "stopped"} =>
       \A l \in claims : Holds(l, job[l]) => (job[l] \in kept \/ <<l, job[l]>> \in toRelease)

ProcessInv == Typed /\ RowsSound /\ JobsSound /\ Handing

\* Nobody comes to hold a row, or only loop m.
NoneGains == \A l \in Loops, s \in Submissions : Holds(l, s)' => Holds(l, s)
OnlyGains(m) == \A l \in Loops \ {m}, s \in Submissions : Holds(l, s)' => Holds(l, s)

LEMMA NoneIsNoLoop == None \notin Loops /\ "delayed" \notin Loops
  OBVIOUS

LEMMA ProcessStarts == Init => ProcessInv
  BY NoneIsNoLoop DEF Init, ProcessInv, Typed, RowsSound, JobsSound, Handing, Row, Step, Stop, Busy

(* What the writes of a row do *)

LEMMA ClaimedRows ==
  ASSUME RowsSound, NEW l \in Loops, NEW s \in Submissions, s \in Claimable, row' = Claimed(s, l)
  PROVE  RowsSound' /\ OnlyGains(l)
  <1>1. row[s] \in Row /\ row[s].state = "received" /\ row[s].attempts \in Nat
    BY DEF RowsSound, Row, Claimable
  <1> DEFINE new == [state |-> "received", owner |-> l, attempts |-> row[s].attempts + 1]
  <1>2. row' = [row EXCEPT ![s] = new]
    BY <1>1 DEF Claimed, RowsSound, Row
  <1>3. new \in Row /\ new.owner = l /\ new.state = "received" /\ new.attempts > 0
    BY <1>1 DEF Row
  <1> HIDE DEF new
  <1>4. QED
    BY <1>2, <1>3 DEF RowsSound, OnlyGains, Holds

\* A row that is written without naming a loop as its owner: done, handed back
\* with or without its attempt, or its lease over.
LEMMA RowWritten ==
  ASSUME RowsSound, NEW s \in Submissions, NEW new \in Row, row' = [row EXCEPT ![s] = new],
         new.owner \in Loops => (row[s].owner = new.owner /\ new.state # "absent" /\ new.attempts > 0
                                /\ (new.state = "received" => row[s].state = "received"))
  PROVE  RowsSound' /\ NoneGains
  BY DEF RowsSound, NoneGains, Holds

\* A row left as it is.
LEMMA RowsKept ==
  ASSUME RowsSound, row' = row PROVE RowsSound' /\ NoneGains
  BY DEF RowsSound, NoneGains, Holds

LEMMA DoneRows ==
  ASSUME RowsSound, NEW l \in Loops, job[l] \in Submissions, row' = Done(l) PROVE RowsSound' /\ NoneGains
  <1>1. CASE ~Owns(l, job[l])
    BY <1>1, RowsKept DEF Done
  <1>2. CASE Owns(l, job[l])
    <2> DEFINE new == [state |-> "done", owner |-> l, attempts |-> row[job[l]].attempts]
    <2>1. row[job[l]] \in Row /\ row[job[l]].owner = l /\ row[job[l]].attempts > 0
      BY <1>2 DEF RowsSound, Owns, Holds
    <2>2. row' = [row EXCEPT ![job[l]] = new]
      <3>1. [row[job[l]] EXCEPT !.state = "done"] = new
        BY <2>1 DEF Row
      <3>2. row' = [row EXCEPT ![job[l]] = [row[job[l]] EXCEPT !.state = "done"]]
        BY <1>2 DEF Done
      <3>3. QED
        BY <3>1, <3>2
    <2>3. new \in Row
      BY <2>1 DEF Row
    <2>4. QED
      BY <2>1, <2>2, <2>3, RowWritten
  <1>3. QED
    BY <1>1, <1>2

LEMMA DelayedRows ==
  ASSUME RowsSound, NEW l \in Loops, job[l] \in Submissions, Owns(l, job[l]),
         row' = [row EXCEPT ![job[l]].owner = "delayed"]
  PROVE  RowsSound' /\ NoneGains
  <1> DEFINE new == [state |-> "received", owner |-> "delayed", attempts |-> row[job[l]].attempts]
  <1>1. row[job[l]] \in Row /\ row[job[l]].state = "received"
    BY DEF RowsSound, Owns, Holds
  <1>2. row' = [row EXCEPT ![job[l]] = new]
    <2>1. [row[job[l]] EXCEPT !.owner = "delayed"] = new
      BY <1>1 DEF Row
    <2>2. row' = [row EXCEPT ![job[l]] = [row[job[l]] EXCEPT !.owner = "delayed"]]
      OBVIOUS
    <2>3. QED
      BY <2>1, <2>2
  <1>3. new \in Row /\ new.owner \notin Loops
    BY <1>1 DEF Row
  <1>4. QED
    BY <1>2, <1>3, RowWritten

\* release() counts the attempt down, which owning the row has counted up.
LEMMA ReleasedRows ==
  ASSUME RowsSound, NEW l \in Loops, NEW s \in Submissions, row' \in {row, Released(l, s)}
  PROVE  /\ RowsSound' /\ NoneGains
         /\ row' = Released(l, s) /\ job[l] = s /\ Owns(l, s) => ~Holds(l, s)'
  <1>1. CASE row' = row
    <2>1. job[l] = s /\ Owns(l, s) => Released(l, s)[s].owner = "delayed"
      BY DEF Released, RowsSound, Row, Owns, Holds
    <2>2. QED
      BY <1>1, <2>1, RowsKept DEF Holds
  <1>2. CASE row' # row
    <2> DEFINE new == [state |-> "received", owner |-> "delayed", attempts |-> row[s].attempts - 1]
    <2>1. row' = Released(l, s) /\ Owns(l, s)
      BY <1>2 DEF Released
    <2>2. row[s] \in Row /\ row[s].state = "received" /\ row[s].attempts > 0 /\ row[s].attempts \in Nat
      BY <2>1 DEF RowsSound, Owns, Holds, Row
    <2>3. row' = [row EXCEPT ![s] = new]
      BY <1>2, <2>1, <2>2 DEF Released, RowsSound, Row
    <2>4. new \in Row /\ new.owner = "delayed"
      BY <2>2 DEF Row
    <2> HIDE DEF new
    <2>5. RowsSound' /\ NoneGains
      BY <2>3, <2>4, RowWritten, NoneIsNoLoop
    <2>6. row'[s] = new
      BY <2>3 DEF RowsSound
    <2>7. QED
      BY <2>4, <2>5, <2>6, NoneIsNoLoop DEF Holds
  <1>3. QED
    BY <1>1, <1>2

(* What a step of a loop does *)

\* A loop whose job ends: the others' claims stay as they are.
LEMMA JobEnds ==
  ASSUME ProcessInv, NEW l \in Loops, NEW step \in Step \ (Busy \cup {"Claimed"}), EndJob(l, step),
         RowsSound', NoneGains, stop # "down", UNCHANGED <<serving, stop, toRelease, kept>>
  PROVE  ProcessInv'
  <1>1. Typed'
    BY DEF ProcessInv, Typed, EndJob, Goto
  <1>2. claims' = claims \ {l} /\ \A m \in Loops \ {l} : job'[m] = job[m] /\ loop'[m] = loop[m]
    BY DEF ProcessInv, Typed, EndJob, Goto
  <1>3. JobsSound'
    BY <1>2 DEF ProcessInv, Typed, JobsSound, EndJob, Goto
  <1>4. \A m \in claims' : m \in Loops /\ job'[m] = job[m] /\ job[m] \in Submissions /\ m \in claims
    BY <1>2 DEF ProcessInv, Typed, JobsSound
  <1>5. \A m \in claims' : Holds(m, job[m])' => Holds(m, job[m])
    BY <1>4 DEF NoneGains, Holds
  <1>6. Handing'
    BY <1>4, <1>5 DEF ProcessInv, Handing
  <1>7. QED
    BY <1>1, <1>3, <1>6 DEF ProcessInv

\* A loop that goes on without a claim being made or ended.
LEMMA LoopMoves ==
  ASSUME ProcessInv, NEW l \in Loops, NEW step \in Step, Goto(l, step), l \in claims <=> step \in Busy,
         step = "Claimed" => job'[l] \in Submissions,
         job' \in [Loops -> Submissions \cup {0}], attempt' \in [Loops -> Nat],
         \A m \in Loops \ {l} : job'[m] = job[m], l \in claims => job'[l] = job[l],
         RowsSound', OnlyGains(l), l \in claims => NoneGains,
         stop # "down", UNCHANGED <<serving, claims, stop, toRelease, kept>>
  PROVE  ProcessInv'
  <1>1. Typed'
    BY DEF ProcessInv, Typed, Goto
  <1>2. loop'[l] = step /\ \A m \in Loops \ {l} : loop'[m] = loop[m]
    BY DEF ProcessInv, Typed, Goto
  <1>3. JobsSound'
    BY <1>2 DEF ProcessInv, Typed, JobsSound
  <1>4. \A m \in claims : m \in Loops /\ job'[m] = job[m] /\ job[m] \in Submissions
    BY DEF ProcessInv, Typed, JobsSound
  <1>5. \A m \in claims : Holds(m, job[m])' => Holds(m, job[m])
    BY <1>4 DEF NoneGains, OnlyGains, Holds
  <1>6. Handing'
    BY <1>4, <1>5 DEF ProcessInv, Handing
  <1>7. QED
    BY <1>1, <1>3, <1>6 DEF ProcessInv

\* A loop that goes on with its job, whose claim and row stay as they are.
LEMMA BusyGoesOn ==
  ASSUME ProcessInv, NEW l \in Loops, loop[l] \in Busy, NEW step \in Busy, Goto(l, step),
         UNCHANGED <<row, serving, job, attempt, claims, stop, toRelease, kept>>
  PROVE  ProcessInv'
  <1>1. job[l] \in Submissions /\ stop # "down"
    BY DEF ProcessInv, JobsSound, Busy
  <1>2. RowsSound'
    BY RowsKept DEF ProcessInv
  <1>3. loop' = [loop EXCEPT ![l] = step]
    BY DEF Goto
  <1>4. Typed'
    BY <1>3 DEF ProcessInv, Typed, Step, Busy
  <1>5. JobsSound'
    BY <1>1, <1>3 DEF ProcessInv, Typed, JobsSound
  <1>6. Handing'
    BY DEF ProcessInv, Handing, Holds
  <1>7. QED
    BY <1>2, <1>4, <1>5, <1>6 DEF ProcessInv

LEMMA LoopKeeps ==
  ASSUME ProcessInv, NEW l \in Loops, LoopStep(l) \/ Poll(l) PROVE ProcessInv'
  <1>1. l \in claims => loop[l] \in Busy
    BY DEF ProcessInv, JobsSound
  <1>2. /\ job \in [Loops -> Submissions \cup {0}] /\ attempt \in [Loops -> Nat] /\ RowsSound
        /\ loop[l] \in Busy \cup {"Claimed"} => job[l] \in Submissions
        /\ GoesOn \in {"Ended", "Claim"}
        /\ loop[l] # "Ended" => stop # "down"
    BY DEF ProcessInv, Typed, JobsSound, GoesOn
  <1>3. CASE Claim(l)
    <2>1. PICK s \in Oldest : /\ row' = Claimed(s, l)
                              /\ job' = [job EXCEPT ![l] = s]
                              /\ attempt' = [attempt EXCEPT ![l] = row[s].attempts + 1]
      BY <1>3 DEF Claim
    <2>2. s \in Submissions /\ s \in Claimable /\ row[s].attempts \in Nat
      BY <1>2 DEF Oldest, Claimable, RowsSound, Row
    <2>3. RowsSound' /\ OnlyGains(l)
      BY <1>2, <2>1, <2>2, ClaimedRows
    <2>4. /\ l \notin claims /\ Goto(l, "Claimed") /\ stop # "down"
          /\ UNCHANGED <<serving, claims, stop, toRelease, kept>>
      BY <1>1, <1>2, <1>3 DEF Claim, Busy
    <2>5. /\ job' \in [Loops -> Submissions \cup {0}] /\ attempt' \in [Loops -> Nat]
          /\ job'[l] \in Submissions /\ \A m \in Loops \ {l} : job'[m] = job[m]
      BY <1>2, <2>1, <2>2
    <2>6. QED
      BY <2>3, <2>4, <2>5, LoopMoves DEF Step, Busy
  <1>4. CASE ClaimNone(l) \/ Sleep(l) \/ Poll(l)
    <2>1. PICK step \in {"Claim", "Sleep", "Asleep", "Ended"} : Goto(l, step)
      BY <1>2, <1>4 DEF ClaimNone, Sleep, Poll
    <2>2. UNCHANGED <<row, serving, job, attempt, claims, stop, toRelease, kept>>
      BY <1>4 DEF ClaimNone, Sleep, Poll
    <2>3. l \notin claims /\ stop # "down"
      BY <1>1, <1>2, <1>4 DEF ClaimNone, Sleep, Poll, Busy
    <2>4. RowsSound' /\ OnlyGains(l)
      BY <1>2, <2>2, RowsKept DEF NoneGains, OnlyGains
    <2>5. QED
      BY <1>2, <2>1, <2>2, <2>3, <2>4, LoopMoves DEF Step, Busy
  <1>5. CASE Start(l)
    <2>1. /\ loop[l] = "Claimed" /\ stop # "down" /\ claims' = claims \cup {l} /\ loop' = [loop EXCEPT ![l] = "Load"]
          /\ kept' = IF stop \in {"releasing", "stopped"} THEN kept \cup {job[l]} ELSE kept
          /\ UNCHANGED <<row, serving, job, attempt, stop, toRelease>>
      BY <1>2, <1>5 DEF Start, Goto
    <2>2. Typed'
      BY <1>2, <2>1 DEF ProcessInv, Typed, Step
    <2>3. RowsSound' /\ NoneGains
      BY <1>2, <2>1, RowsKept
    <2>4. JobsSound'
      BY <1>2, <2>1 DEF ProcessInv, Typed, JobsSound, Busy
    <2>5. Handing'
      BY <2>1 DEF ProcessInv, Handing, Holds
    <2>6. QED
      BY <2>2, <2>3, <2>4, <2>5 DEF ProcessInv
  <1>6. CASE GiveUp(l) \/ Finish(l)
    <2>1. /\ job[l] \in Submissions /\ row' = Done(l) /\ EndJob(l, GoesOn) /\ stop # "down"
          /\ UNCHANGED <<serving, stop, toRelease, kept>>
      BY <1>2, <1>6 DEF GiveUp, Finish, Busy
    <2>2. RowsSound' /\ NoneGains
      BY <1>2, <2>1, DoneRows
    <2>3. QED
      BY <1>2, <2>1, <2>2, JobEnds DEF Step, Busy
  <1>7. CASE NeedsOcr(l) \/ OcrBusy(l) \/ NeedsNoOcr(l) \/ OcrEnds(l) \/ Renew(l) \/ Renewed(l)
    <2>1. PICK step \in {"Ocr", "Finish", "Renewing", "Record"} : Goto(l, step)
      BY <1>7 DEF NeedsOcr, OcrBusy, NeedsNoOcr, OcrEnds, Renew, Renewed
    <2>2. loop[l] \in Busy /\ UNCHANGED <<row, serving, job, attempt, claims, stop, toRelease, kept>>
      BY <1>7 DEF NeedsOcr, OcrBusy, NeedsNoOcr, OcrEnds, Renew, Renewed, Busy
    <2>3. QED
      BY <2>1, <2>2, BusyGoesOn DEF Busy
  <1>9. CASE OcrTimesOut(l)
    <2>1. UNCHANGED <<row, serving, job, attempt, claims, stop, toRelease, kept>>
      BY <1>9 DEF OcrTimesOut
    <2>2. CASE loop[l] = "Ocr" /\ Goto(l, "Finish")
      BY <2>1, <2>2, BusyGoesOn DEF Busy
    <2>3. CASE UNCHANGED loop
      BY <2>1, <2>3 DEF ProcessInv, Typed, RowsSound, JobsSound, Handing, Holds
    <2>4. QED
      BY <1>9, <2>2, <2>3 DEF OcrTimesOut, Goto
  <1>8. QED
    BY <1>3, <1>4, <1>5, <1>6, <1>7, <1>9 DEF LoopStep

LEMMA FaultKeeps ==
  ASSUME ProcessInv, NEW l \in Loops, FaultStep(l) PROVE ProcessInv'
  <1>1. l \in claims => loop[l] \in Busy
    BY DEF ProcessInv, JobsSound
  <1>2. /\ job \in [Loops -> Submissions \cup {0}] /\ attempt \in [Loops -> Nat] /\ RowsSound
        /\ loop[l] \in Busy \cup {"Claimed"} => job[l] \in Submissions
        /\ GoesOn \in {"Ended", "Claim"}
        /\ loop[l] # "Ended" => stop # "down"
    BY DEF ProcessInv, Typed, JobsSound, GoesOn
  <1>3. CASE ClaimFails(l)
    <2>1. /\ l \notin claims /\ Goto(l, "Sleep") /\ stop # "down"
          /\ UNCHANGED <<serving, job, attempt, claims, stop, toRelease, kept>>
      BY <1>1, <1>2, <1>3 DEF ClaimFails, Busy
    <2>2. RowsSound' /\ OnlyGains(l)
      <3>1. CASE UNCHANGED row
        BY <1>2, <3>1, RowsKept DEF NoneGains, OnlyGains
      <3>2. CASE \E s \in Oldest : row' = Claimed(s, l)
        BY <1>2, <3>2, ClaimedRows DEF Oldest, Claimable
      <3>3. QED
        BY <1>3, <3>1, <3>2 DEF ClaimFails
    <2>3. QED
      BY <1>2, <2>1, <2>2, LoopMoves DEF Step, Busy
  <1>4. CASE LoadFails(l)
    <2>1. job[l] \in Submissions /\ stop # "down" /\ UNCHANGED <<serving, stop, toRelease, kept>>
      BY <1>2, <1>4 DEF LoadFails, Busy
    <2>2. PICK step \in {"Claim", "Sleep", "Ended"} : EndJob(l, step)
      BY <1>2, <1>4 DEF LoadFails
    <2>3. RowsSound' /\ NoneGains
      <3>1. CASE row' = Done(l)
        BY <1>2, <2>1, <3>1, DoneRows
      <3>2. CASE Owns(l, job[l]) /\ row' = [row EXCEPT ![job[l]].owner = "delayed"]
        BY <1>2, <2>1, <3>2, DelayedRows
      <3>3. CASE UNCHANGED row
        BY <1>2, <3>3, RowsKept
      <3>4. QED
        BY <1>4, <3>1, <3>2, <3>3 DEF LoadFails
    <2>4. QED
      BY <2>1, <2>2, <2>3, JobEnds DEF Step, Busy
  <1>7. CASE RenewFails(l)
    <2>1. loop[l] \in Busy /\ UNCHANGED <<row, serving, job, attempt, claims, stop, toRelease, kept>>
      BY <1>7 DEF RenewFails, Busy
    <2>2. PICK step \in {"Record", "Lost"} : Goto(l, step)
      BY <1>7 DEF RenewFails
    <2>3. QED
      BY <2>1, <2>2, BusyGoesOn DEF Busy
  <1>5. CASE \E s \in Submissions : ReleaseFails(l, s)
    <2>1. PICK s \in Submissions : ReleaseFails(l, s)
      BY <1>5
    <2>2. /\ stop = "releasing" /\ toRelease' = toRelease \ {<<l, s>>} /\ kept' = kept \cup {s}
          /\ UNCHANGED <<serving, loop, job, attempt, claims, stop>> /\ row' \in {row, Released(l, s)}
      BY <2>1 DEF ReleaseFails, worker
    <2>3. RowsSound' /\ NoneGains
      BY <1>2, <2>2, ReleasedRows
    <2>4. Typed' /\ JobsSound'
      BY <2>2 DEF ProcessInv, Typed, JobsSound
    <2>5. \A m \in claims : m \in Loops /\ job[m] \in Submissions /\ (Holds(m, job[m])' => Holds(m, job[m]))
      BY <2>2, <2>3 DEF ProcessInv, Typed, JobsSound, NoneGains, Holds
    <2>6. Handing'
      BY <2>2, <2>5 DEF ProcessInv, Handing
    <2>7. QED
      BY <2>3, <2>4, <2>6 DEF ProcessInv
  <1>6. QED
    BY <1>3, <1>4, <1>5, <1>7 DEF FaultStep

LEMMA WebhookKeeps ==
  ASSUME ProcessInv, NEW s \in Submissions, WebhookStep(s) \/ LeaseOver(s) PROVE ProcessInv'
  <1>1. CASE Receive(s) \/ NotRecorded(s)
    BY <1>1 DEF Receive, NotRecorded, ProcessInv, Typed, RowsSound, JobsSound, Handing, Holds, worker
  <1>2. CASE Record(s) \/ LeaseOver(s)
    <2>1. UNCHANGED <<serving, loop, job, attempt, claims, stop, toRelease, kept>>
      BY <1>2 DEF Record, LeaseOver, worker
    <2>2. RowsSound' /\ NoneGains
      <3> DEFINE r == row[s]
                 new == IF row[s].state = "absent" THEN [state |-> "received", owner |-> r.owner, attempts |-> r.attempts]
                                                   ELSE [state |-> r.state, owner |-> None, attempts |-> r.attempts]
      <3>1. r \in Row /\ (r.state = "absent" => r.owner \notin Loops)
        BY DEF ProcessInv, RowsSound
      <3>2. row' = [row EXCEPT ![s] = new]
        <4>1. CASE Record(s)
          <5>1. [row[s] EXCEPT !.state = "received"] = new
            BY <3>1, <4>1 DEF Record, Row
          <5>2. row' = [row EXCEPT ![s] = [row[s] EXCEPT !.state = "received"]]
            BY <4>1 DEF Record
          <5>3. QED
            BY <5>1, <5>2
        <4>2. CASE LeaseOver(s)
          <5>1. [row[s] EXCEPT !.owner = None] = new
            BY <3>1, <4>2 DEF LeaseOver, Row
          <5>2. row' = [row EXCEPT ![s] = [row[s] EXCEPT !.owner = None]]
            BY <4>2 DEF LeaseOver
          <5>3. QED
            BY <5>1, <5>2
        <4>3. QED
          BY <1>2, <4>1, <4>2
      <3>3. new \in Row /\ new.owner \notin Loops
        BY <3>1, NoneIsNoLoop DEF Row
      <3>4. QED
        BY <3>2, <3>3, RowWritten DEF ProcessInv
    <2>3. \A m \in claims : m \in Loops /\ job[m] \in Submissions /\ (Holds(m, job[m])' => Holds(m, job[m]))
      BY <2>1, <2>2 DEF ProcessInv, Typed, JobsSound, NoneGains, Holds
    <2>4. Typed' /\ JobsSound' /\ Handing'
      BY <2>1, <2>3 DEF ProcessInv, Typed, JobsSound, Handing
    <2>5. QED
      BY <2>2, <2>4 DEF ProcessInv
  <1>3. CASE Notify(s)
    <2>1. UNCHANGED <<row, job, attempt, claims, stop, toRelease, kept>> /\ serving' = serving \ {s}
      BY <1>3 DEF Notify
    <2>2. /\ loop' \in [Loops -> Step]
          /\ \A l \in Loops : loop'[l] = loop[l] \/ (loop[l] = "Asleep" /\ loop'[l] = "Claim")
      BY <1>3 DEF Notify, Woken, ProcessInv, Typed, Step
    <2>3. JobsSound'
      BY <2>1, <2>2 DEF ProcessInv, JobsSound, Typed, Busy
    <2>4. Typed' /\ RowsSound' /\ Handing'
      BY <2>1, <2>2 DEF ProcessInv, Typed, RowsSound, Handing, Holds
    <2>5. QED
      BY <2>3, <2>4 DEF ProcessInv
  <1>4. QED
    BY <1>1, <1>2, <1>3 DEF WebhookStep

LEMMA GoneKeeps ==
  ASSUME ProcessInv, Gone, UNCHANGED kept PROVE ProcessInv'
  BY DEF Gone, ProcessInv, Typed, RowsSound, JobsSound, Handing, Step, Stop, Busy

LEMMA StoppingKeeps ==
  ASSUME ProcessInv, Stopping \/ Crashes PROVE ProcessInv'
  <1>1. CASE LoopsSettled
    <2>1. claims = {}
      BY <1>1 DEF LoopsSettled, AllEnded, ProcessInv, Typed, JobsSound, Busy
    <2>2. QED
      BY <1>1, <2>1 DEF LoopsSettled, ProcessInv, Typed, RowsSound, JobsSound, Handing, Stop, Holds, worker
  <1>2. CASE StopTimesOut
    <2>1. /\ stop' = "releasing" /\ toRelease' = {<<l, job[l]>> : l \in claims}
          /\ UNCHANGED <<row, serving, loop, job, attempt, claims, kept>>
      BY <1>2 DEF StopTimesOut, worker
    <2>2. \A l \in claims : l \in Loops /\ job[l] \in Submissions
      BY DEF ProcessInv, Typed, JobsSound
    <2>3. Typed' /\ RowsSound' /\ JobsSound'
      BY <2>1, <2>2 DEF ProcessInv, Typed, RowsSound, JobsSound, Stop
    <2>4. Handing'
      BY <2>1 DEF Handing, Holds
    <2>5. QED
      BY <2>3, <2>4 DEF ProcessInv
  <1>3. CASE Releasing
    <2>1. PICK l \in Loops, s \in Submissions : Release(l, s)
      BY <1>3 DEF Releasing
    <2>2. /\ stop = "releasing" /\ toRelease' = toRelease \ {<<l, s>>} /\ row' = Released(l, s)
          /\ kept' = IF job[l] = s /\ loop[l] \in {"Renewing", "Lost"} THEN kept \cup {s} ELSE kept
          /\ UNCHANGED <<serving, loop, job, attempt, claims, stop>>
      BY <2>1 DEF Release, worker
    <2>3. RowsSound' /\ NoneGains /\ (job[l] = s /\ Owns(l, s) => ~Holds(l, s)')
      BY <2>2, ReleasedRows DEF ProcessInv
    <2>4. Typed' /\ JobsSound'
      BY <2>2 DEF ProcessInv, Typed, JobsSound
    <2>5. \A m \in claims : m \in Loops /\ job[m] \in Submissions /\ (Holds(m, job[m])' => Holds(m, job[m]))
      BY <2>2, <2>3 DEF ProcessInv, Typed, JobsSound, NoneGains, Holds
    <2>6. ASSUME NEW m \in claims, Holds(m, job[m])' PROVE job[m] \in kept' \/ <<m, job[m]>> \in toRelease'
      <3>1. job[m] \in kept \/ <<m, job[m]>> \in toRelease
        BY <2>2, <2>5, <2>6 DEF ProcessInv, Handing
      <3>2. CASE m = l /\ job[m] = s
        <4>1. Holds(l, s) /\ ~Owns(l, s)
          BY <2>2, <2>3, <2>5, <2>6, <3>2 DEF Holds
        <4>2. loop[l] \in {"Renewing", "Lost"}
          BY <4>1 DEF Owns
        <4>3. QED
          BY <2>2, <3>2, <4>2
      <3>3. CASE ~(m = l /\ job[m] = s)
        <4>1. <<m, job[m]>> # <<l, s>>
          BY <3>3
        <4>2. QED
          BY <3>1, <4>1, <2>2
      <3>4. QED
        BY <3>2, <3>3
    <2>7. Handing'
      BY <2>2, <2>6 DEF Handing
    <2>8. QED
      BY <2>3, <2>4, <2>7 DEF ProcessInv
  <1>4. CASE AllReleased
    BY <1>4 DEF AllReleased, ProcessInv, Typed, RowsSound, JobsSound, Handing, Stop, Holds, worker
  <1>5. CASE Exit \/ HardStop \/ Crashes
    BY <1>5, GoneKeeps DEF Exit, HardStop, Crashes, Crash
  <1>6. QED
    BY <1>1, <1>2, <1>3, <1>4, <1>5 DEF Stopping

LEMMA SignalKeeps ==
  ASSUME ProcessInv, Signal \/ Boot PROVE ProcessInv'
  <1>1. CASE Signal
    <2>1. UNCHANGED <<row, serving, job, attempt, claims, toRelease, kept>> /\ stop = "up" /\ stop' = "waiting"
      BY <1>1 DEF Signal
    <2>2. /\ loop' \in [Loops -> Step]
          /\ \A l \in Loops : loop'[l] = loop[l] \/ (loop[l] = "Asleep" /\ loop'[l] = "Ended")
      BY <1>1 DEF Signal, Woken, ProcessInv, Typed, Step
    <2>3. JobsSound'
      BY <2>1, <2>2 DEF ProcessInv, JobsSound, Typed, Busy
    <2>4. Typed' /\ RowsSound' /\ Handing'
      BY <2>1, <2>2 DEF ProcessInv, Typed, RowsSound, Handing, Stop
    <2>5. QED
      BY <2>3, <2>4 DEF ProcessInv
  <1>2. CASE Boot
    <2>1. UNCHANGED <<row, serving, job, attempt, claims, toRelease>> /\ stop = "down" /\ stop' = "up" /\ kept' = {}
      BY <1>2 DEF Boot
    <2>2. loop' \in [Loops -> Step] /\ \A l \in Loops : loop'[l] = "Claim"
      BY <1>2 DEF Boot, Step
    <2>3. QED
      BY <2>1, <2>2 DEF ProcessInv, Typed, RowsSound, JobsSound, Handing, Stop, Busy
  <1>3. QED
    BY <1>1, <1>2

----------------------------------------------------------------------------
(* The theorems *)

WorkerInv == LimiterInv /\ ProcessInv /\ runs \in Nat /\ faults \in Nat

LEMMA WorkerStarts == Init => WorkerInv
  BY ProcessStarts, LimiterStarts DEF WorkerInv, Init

LEMMA WorkerStep ==
  ASSUME WorkerInv, [Next]_vars PROVE WorkerInv'
  <1>1. LimiterInv'
    BY StepUsesLimiter, LimiterStep DEF WorkerInv
  <1>2. runs' \in Nat /\ faults' \in Nat
    BY DEF WorkerInv, Next, vars
  <1>3. ProcessInv'
    <2>1. CASE \E l \in Loops : LoopStep(l) \/ Poll(l) \/ FaultStep(l)
      BY <2>1, LoopKeeps, FaultKeeps DEF WorkerInv
    <2>2. CASE \E s \in Submissions : WebhookStep(s) \/ LeaseOver(s)
      BY <2>2, WebhookKeeps DEF WorkerInv
    <2>3. CASE Stopping \/ Crashes \/ Signal \/ Boot
      BY <2>3, StoppingKeeps, SignalKeeps DEF WorkerInv
    <2>4. CASE UNCHANGED vars
      BY <2>4 DEF vars, worker, WorkerInv, ProcessInv, Typed, RowsSound, JobsSound, Handing, Holds
    <2>5. QED
      BY <2>1, <2>2, <2>3, <2>4 DEF Next
  <1>4. QED
    BY <1>1, <1>2, <1>3 DEF WorkerInv

\* The types of the process; release() never counts attempts below zero.
THEOREM ProcessTypeCorrect == Spec => []TypeOK
  <1>1. WorkerInv /\ [Next]_vars => WorkerInv'
    BY WorkerStep
  <1>2. WorkerInv => TypeOK
    BY DEF WorkerInv, LimiterInv, LimiterTyped, ProcessInv, Typed, RowsSound, TypeOK
  <1>3. QED
    BY <1>1, <1>2, WorkerStarts, PTL DEF Spec

\* submissionQueue.js, stop(): once it returns, whatever the loops were doing
\* is finished or handed back, unless its release failed, its claim was still
\* on its way, or a renewal of it was not answered or went wrong.
THEOREM AllHandedBack == Spec => []HandedBack
  <1>1. WorkerInv /\ [Next]_vars => WorkerInv'
    BY WorkerStep
  <1>2. WorkerInv => HandedBack
    BY DEF WorkerInv, ProcessInv, Handing, HandedBack
  <1>3. QED
    BY <1>1, <1>2, WorkerStarts, PTL DEF Spec
=============================================================================

----------------------------- MODULE QueueProofs -----------------------------
(***************************************************************************)
(* Theorems about the queue, for any threads and any max_size.             *)
(***************************************************************************)
EXTENDS Queue, TLAPS

USE QueueAssumption DEF QueueAssumption

\* The calls and the resumed loops leave the queue well typed, and a thread in
\* a wait set stays inside its call.
LEMMA TypeStep ==
    ASSUME TypeOK, [Next]_vars
    PROVE  TypeOK'
<1> USE DEF TypeOK, Idle, IsFull, Insert, Remove, waits, calls
<1>1. ASSUME NEW t \in Threads, try_push(t) \/ try_pop(t) PROVE TypeOK'
  BY <1>1 DEF try_push, try_pop
<1>2. ASSUME NEW t \in Threads, push(t) \/ PushResumes(t) PROVE TypeOK'
  BY <1>2 DEF push, PushResumes, PushLoop
<1>3. ASSUME NEW t \in Threads, pop(t) \/ PopResumes(t) PROVE TypeOK'
  BY <1>3 DEF pop, PopResumes, PopLoop
<1>4. ASSUME NEW t \in Threads, WakeUp(t) PROVE TypeOK'
  BY <1>4 DEF WakeUp
<1>5. CASE close
  BY <1>5 DEF close
<1>6. CASE UNCHANGED vars
  BY <1>6 DEF vars
<1> QED BY <1>1, <1>2, <1>3, <1>4, <1>5, <1>6 DEF Next, Call

\* Every reachable state of the queue is well typed: whoever sleeps on a
\* condition variable is inside the method that waits on it.
THEOREM TypeCorrect == Spec => []TypeOK
<1>1. Init => TypeOK
  <2> SUFFICES ASSUME Init PROVE TypeOK
    OBVIOUS
  <2>1. size \in Nat /\ closed \in BOOLEAN
    BY DEF Init
  <2>2. pushing \cap popping = {}
    BY DEF Init
  <2> QED BY <2>1, <2>2 DEF Init, TypeOK
<1> QED BY <1>1, TypeStep, PTL DEF Spec

\* push() tests size == max_size before each insertion, also after waiting.
LEMMA CapacityStep ==
    ASSUME TypeOK, WithinCapacity, [Next]_vars
    PROVE  WithinCapacity'
<1> USE DEF TypeOK, WithinCapacity, IsFull, Insert, Remove
<1>1. ASSUME NEW t \in Threads, Call(t) \/ PushResumes(t) \/ PopResumes(t)
      PROVE  WithinCapacity'
  BY <1>1 DEF Call, try_push, try_pop, push, pop, PushResumes, PopResumes,
              PushLoop, PopLoop
<1>2. ASSUME NEW t \in Threads, WakeUp(t) PROVE WithinCapacity'
  BY <1>2 DEF WakeUp
<1>3. CASE close \/ UNCHANGED vars
  BY <1>3 DEF close, vars
<1> QED BY <1>1, <1>2, <1>3 DEF Next

\* The queue never holds more than max_size items.
THEOREM WithinCapacityHolds == Spec => []WithinCapacity
<1>1. Init => WithinCapacity
  BY DEF Init, WithinCapacity
<1> QED BY <1>1, TypeCorrect, CapacityStep, PTL DEF Spec

\* Whatever makes a sleeper's wait pointless empties its wait set.
LEMMA WakeupStep ==
    ASSUME TypeOK, NoLostWakeup, [Next]_vars
    PROVE  NoLostWakeup'
<1> USE DEF TypeOK, NoLostWakeup, IsFull, Insert, Remove, waits, calls
<1>1. ASSUME NEW t \in Threads, try_push(t) \/ try_pop(t) PROVE NoLostWakeup'
  BY <1>1 DEF try_push, try_pop
<1>2. ASSUME NEW t \in Threads, push(t) \/ PushResumes(t) PROVE NoLostWakeup'
  BY <1>2 DEF push, PushResumes, PushLoop
<1>3. ASSUME NEW t \in Threads, pop(t) \/ PopResumes(t) PROVE NoLostWakeup'
  BY <1>3 DEF pop, PopResumes, PopLoop
<1>4. ASSUME NEW t \in Threads, WakeUp(t) PROVE NoLostWakeup'
  BY <1>4 DEF WakeUp
<1>5. CASE close \/ UNCHANGED vars
  BY <1>5 DEF close, vars
<1> QED BY <1>1, <1>2, <1>3, <1>4, <1>5 DEF Next, Call

\* Nobody sleeps in pop() while there is an item or the queue is closed, nor in
\* push() while there is a place, closed or not.
THEOREM NoLostWakeupHolds == Spec => []NoLostWakeup
<1>1. Init => NoLostWakeup
  BY DEF Init, NoLostWakeup
<1> QED BY <1>1, TypeCorrect, WakeupStep, PTL DEF Spec

\* What still enters a closed queue comes from a push() that began before close().
THEOREM OnlyEarlierPushesHolds == Spec => OnlyEarlierPushes
<1>1. TypeOK /\ [Next]_vars
        => [closed /\ size' > size
              => \E t \in pushing \ is_not_full : pushing' = pushing \ {t}]_vars
  <2> SUFFICES ASSUME TypeOK, Next, closed, size' > size
               PROVE  \E t \in pushing \ is_not_full : pushing' = pushing \ {t}
    OBVIOUS
  <2>1. size \in Nat BY DEF TypeOK
  <2>2. ASSUME NEW t \in Threads, Call(t) \/ PopResumes(t) \/ WakeUp(t) PROVE FALSE
    <3>1. ~(try_push(t) \/ push(t)) BY DEF try_push, push
    <3>2. ~Remove
      <4>1. SUFFICES ASSUME size' = size - 1 PROVE FALSE BY DEF Remove
      <4> QED BY <2>1, <4>1
    <3>3. ~size' = size BY <2>1
    <3>4. ~try_pop(t) /\ ~PopLoop(t) BY <3>2, <3>3 DEF try_pop, PopLoop
    <3>5. ~WakeUp(t) BY <3>3 DEF WakeUp
    <3> QED BY <2>2, <3>1, <3>4, <3>5 DEF Call, pop, PopResumes
  <2>3. ~close BY DEF close
  <2>4. PICK t \in Threads : PushResumes(t) BY <2>2, <2>3 DEF Next
  <2>5. t \in pushing \ is_not_full /\ pushing' = pushing \ {t}
    BY <2>1, <2>4 DEF PushResumes, PushLoop
  <2> QED BY <2>5
<1> QED BY <1>1, TypeCorrect, PTL DEF Spec, OnlyEarlierPushes
=============================================================================

-------------------------------- MODULE Queue --------------------------------
(***************************************************************************)
(* The blocking queue between the threads (src/common/queue.h): a monitor  *)
(* with one mutex and two condition variables.                             *)
(*                                                                         *)
(* A step is what a thread does between taking the mutex and giving it up, *)
(* by returning or by waiting.  A thread that is notified leaves the wait  *)
(* set, and takes its next step when it has the mutex again: others may    *)
(* come first.  The values in the queue are not told apart.  Calls that    *)
(* leave the queue alone (try_push on a full queue, try_pop on an empty    *)
(* one, whatever raises at once) are not steps.                            *)
(***************************************************************************)
EXTENDS Integers

CONSTANTS Threads, max_size

ASSUME QueueAssumption == max_size \in Nat

VARIABLES
    size,           \* q.size()
    closed,
    is_not_full,    \* threads asleep on each condition variable
    is_not_empty,
    pushing,        \* threads inside push() that have waited
    popping         \* threads inside pop() that have waited

waits == <<is_not_full, is_not_empty>>
calls == <<pushing, popping>>
vars == <<size, closed, waits, calls>>

TypeOK ==
    /\ size \in Nat
    /\ closed \in BOOLEAN
    /\ pushing \subseteq Threads
    /\ popping \subseteq Threads
    /\ is_not_full \subseteq pushing
    /\ is_not_empty \subseteq popping
    /\ pushing \cap popping = {}

Init ==
    /\ size = 0
    /\ closed = FALSE
    /\ is_not_full = {}
    /\ is_not_empty = {}
    /\ pushing = {}
    /\ popping = {}

Idle(t) == t \in Threads \ (pushing \cup popping)

IsFull == size = max_size

\* Mutant: nobody is notified of the first item.
InsertSilently ==
    /\ size' = size + 1
    /\ UNCHANGED is_not_empty

\* The notification comes before q.push(), under the same lock.
Insert ==
    /\ size' = size + 1
    /\ is_not_empty' = IF size = 0 THEN {} ELSE is_not_empty

\* Nothing is taken from an empty queue.
Remove ==
    /\ size > 0
    /\ size' = size - 1
    /\ is_not_full' = IF IsFull THEN {} ELSE is_not_full

-----------------------------------------------------------------------------
(* The methods *)

try_push(t) ==
    /\ Idle(t)
    /\ ~closed
    /\ ~IsFull
    /\ Insert
    /\ UNCHANGED <<closed, is_not_full, calls>>

try_pop(t) ==
    /\ Idle(t)
    /\ Remove
    /\ UNCHANGED <<closed, is_not_empty, calls>>

\* The loop of push(): waits while the queue is full.
PushLoop(t) ==
    /\ IF IsFull
       THEN /\ is_not_full' = is_not_full \cup {t}
            /\ pushing' = pushing \cup {t}
            /\ UNCHANGED <<size, is_not_empty>>
       ELSE /\ Insert
            /\ pushing' = pushing \ {t}
            /\ UNCHANGED is_not_full
    /\ UNCHANGED <<closed, popping>>

\* Mutant: push() does not look whether the queue is closed.
PushAlways(t) ==
    /\ Idle(t)
    /\ PushLoop(t)

push(t) ==
    /\ Idle(t)
    /\ ~closed
    /\ PushLoop(t)

\* Mutant: push() waits with if instead of while.
PushResumesUnchecked(t) ==
    /\ t \in pushing \ is_not_full
    /\ Insert
    /\ pushing' = pushing \ {t}
    /\ UNCHANGED <<closed, is_not_full, popping>>

\* closed is not looked at again.
PushResumes(t) ==
    /\ t \in pushing \ is_not_full
    /\ PushLoop(t)

\* The loop of pop(): waits while the queue is empty, raises when it is closed.
PopLoop(t) ==
    /\ \/ /\ size = 0
          /\ ~closed
          /\ is_not_empty' = is_not_empty \cup {t}
          /\ popping' = popping \cup {t}
          /\ UNCHANGED <<size, is_not_full>>
       \/ /\ size = 0
          /\ closed
          /\ popping' = popping \ {t}
          /\ UNCHANGED <<size, waits>>
       \/ /\ Remove
          /\ popping' = popping \ {t}
          /\ UNCHANGED is_not_empty
    /\ UNCHANGED <<closed, pushing>>

pop(t) ==
    /\ Idle(t)
    /\ PopLoop(t)

PopResumes(t) ==
    /\ t \in popping \ is_not_empty
    /\ PopLoop(t)

\* Mutant: close() wakes nobody.
CloseSilently ==
    /\ ~closed
    /\ closed' = TRUE
    /\ UNCHANGED <<size, waits, calls>>

close ==
    /\ ~closed
    /\ closed' = TRUE
    /\ is_not_empty' = {}
    /\ UNCHANGED <<size, is_not_full, calls>>

\* A condition variable may wake a thread nobody notified.
WakeUp(t) ==
    /\ t \in is_not_full \cup is_not_empty
    /\ is_not_full' = is_not_full \ {t}
    /\ is_not_empty' = is_not_empty \ {t}
    /\ UNCHANGED <<size, closed, calls>>

-----------------------------------------------------------------------------

Call(t) == try_push(t) \/ try_pop(t) \/ push(t) \/ pop(t)

Next ==
    \/ \E t \in Threads : Call(t) \/ PushResumes(t) \/ PopResumes(t) \/ WakeUp(t)
    \/ close

Spec == Init /\ [][Next]_vars

\* A thread that was woken gets the mutex in the end; nobody has to call.
FairSpec ==
    /\ Spec
    /\ \A t \in Threads : WF_vars(PushResumes(t)) /\ WF_vars(PopResumes(t))

-----------------------------------------------------------------------------

\* push() compares with max_size for equality only: no order of wake-ups and
\* calls that overtake them takes the queue past it.
WithinCapacity == size <= max_size

\* push() and pop() notify only on the first item and on the first free place:
\* that is enough for nobody to sleep on a queue that can serve him.  close()
\* tells those in pop() only: who waits in push() sleeps on beside a closed
\* queue, but only for as long as it is full.
NoLostWakeup ==
    /\ is_not_empty # {} => size = 0 /\ ~closed
    /\ is_not_full # {} => IsFull

\* "On a closed queue, any method will raise ClosedQueue" (queue.h:24) is not what
\* a push() does that waited for a place when close() came: it looks at closed
\* before it waits and never again, and inserts.  Such a push() is the only one:
\* no call that begins on a closed queue gets anything into it.
OnlyEarlierPushes ==
    [][closed /\ size' > size
         => \E t \in pushing \ is_not_full : pushing' = pushing \ {t}]_vars

\* close() lets every thread that waits in pop() go, with a value or with
\* ClosedQueue: the sender's thread can be joined after ServerSender::stop().
ConsumersReleased ==
    \A t \in Threads : closed /\ t \in popping ~> t \notin popping

\* While a consumer is inside pop() an item does not stay in the queue for ever.
ConsumersServed ==
    size > 0 /\ popping # {} ~> size = 0 \/ popping = {}
=============================================================================

----------------------------- MODULE DelayQueue -----------------------------
(***************************************************************************)
(* class DelayQueue: a vector ordered by deadline, one mutex, one          *)
(* condition variable.  A block that holds m_mutex is one step, and so is  *)
(* the part of take() from one wake-up to the next wait, which releases    *)
(* the mutex atomically; a notification after a block is a step of its     *)
(* own.  Only add() and stop() notify: remove(), clear() and resume()      *)
(* leave a waiting taker where it is.                                      *)
(***************************************************************************)
EXTENDS Naturals, Sequences, FiniteSets, SequencesExt

CONSTANTS
    Items,      \* elements; each is a fresh object, added at most once
    Deadline,   \* T::deadline()
    Takers,     \* threads that call take() in a loop (Statechart.cpp:321)
    Clients,    \* threads that make the other calls
    MaxTime     \* bound: the last reading of the clock

ASSUME DelayQueueAssumption ==
    /\ Deadline \in [Items -> Nat]
    /\ MaxTime \in Nat
    /\ Takers \cap Clients = {}

VARIABLES
    items,      \* m_items
    stopped,    \* m_stop
    now,        \* steady_clock::now()
    pc,         \* where each thread is
    limit,      \* the deadline a taker in wait_until was given
    unseen      \* elements not added yet

vars == <<items, stopped, now, pc, limit, unseen>>

\* "wait" and "waitUntil": blocked in m_condition, without and with a limit.
Waiting == {"wait", "waitUntil"}
TypeOK ==
    /\ items \in Seq(Items)
    /\ stopped \in BOOLEAN
    /\ now \in Nat
    /\ pc \in [Takers \cup Clients -> {"out", "loop", "notify"} \cup Waiting]
    /\ limit \in [Takers -> Nat]
    /\ unseen \subseteq Items

Goto(t, where) == pc' = [pc EXCEPT ![t] = where]
Idle(c) == c \in Clients /\ pc[c] = "out"

(***************************************************************************)
(* take()                                                                  *)
(***************************************************************************)
BeginTake(t) ==
    /\ pc[t] = "out"
    /\ Goto(t, "loop")
    /\ UNCHANGED <<items, stopped, now, limit, unseen>>

TakeStopped(t) ==
    /\ pc[t] = "loop" /\ stopped
    /\ Goto(t, "out")
    /\ UNCHANGED <<items, stopped, now, limit, unseen>>

WaitEmpty(t) ==
    /\ pc[t] = "loop" /\ ~stopped
    /\ items = <<>>
    /\ Goto(t, "wait")
    /\ UNCHANGED <<items, stopped, now, limit, unseen>>

\* Mutant: the head is returned one unit of time early.
DueEarly(x) == Deadline[x] <= now + 1
Due(x) == Deadline[x] <= now

TakeDue(t) ==
    /\ pc[t] = "loop" /\ ~stopped
    /\ items # <<>> /\ Due(Head(items))
    /\ items' = Tail(items)
    /\ Goto(t, "out")
    /\ UNCHANGED <<stopped, now, limit, unseen>>

\* Mutant: the wait is for the last element instead of the first.
WaitDueOfLast(t) ==
    /\ pc[t] = "loop" /\ ~stopped
    /\ items # <<>> /\ ~Due(Head(items))
    /\ limit' = [limit EXCEPT ![t] = Deadline[items[Len(items)]]]
    /\ Goto(t, "waitUntil")
    /\ UNCHANGED <<items, stopped, now, unseen>>

WaitDue(t) ==
    /\ pc[t] = "loop" /\ ~stopped
    /\ items # <<>> /\ ~Due(Head(items))
    /\ limit' = [limit EXCEPT ![t] = Deadline[Head(items)]]
    /\ Goto(t, "waitUntil")
    /\ UNCHANGED <<items, stopped, now, unseen>>

WaitTimedOut(t) ==
    /\ pc[t] = "waitUntil" /\ limit[t] <= now
    /\ Goto(t, "loop")
    /\ UNCHANGED <<items, stopped, now, limit, unseen>>

SpuriousWakeup(t) ==
    /\ pc[t] \in Waiting
    /\ Goto(t, "loop")
    /\ UNCHANGED <<items, stopped, now, limit, unseen>>

(***************************************************************************)
(* The other calls                                                         *)
(***************************************************************************)
\* Mutant: new elements go to the end of the vector.
SlotAtEnd(x) == Len(items) + 1

\* lower_bound: the first position whose element is not due before x.
Slot(x) == Cardinality({i \in DOMAIN items : Deadline[items[i]] < Deadline[x]}) + 1

Add(c, x) ==
    /\ Idle(c) /\ x \in unseen
    /\ items' = InsertAt(items, Slot(x), x)
    /\ unseen' = unseen \ {x}
    /\ Goto(c, "notify")
    /\ UNCHANGED <<stopped, now, limit>>

\* Mutant: the notification wakes nobody.
NotifyNobody(c) ==
    /\ pc[c] = "notify"
    /\ Goto(c, "out")
    /\ UNCHANGED <<items, stopped, now, limit, unseen>>

NotifyAll(c) ==
    /\ pc[c] = "notify"
    /\ pc' = [t \in DOMAIN pc |-> IF t = c THEN "out"
                                  ELSE IF pc[t] \in Waiting THEN "loop"
                                  ELSE pc[t]]
    /\ UNCHANGED <<items, stopped, now, limit, unseen>>

RemoveItem(c, x) ==
    /\ Idle(c) /\ Contains(items, x)
    /\ items' = RemoveFirst(items, x)
    /\ UNCHANGED <<stopped, now, pc, limit, unseen>>

Clear(c) ==
    /\ Idle(c)
    /\ items' = <<>>
    /\ UNCHANGED <<stopped, now, pc, limit, unseen>>

\* Mutant: stop() does not notify.
StopQuietly(c) ==
    /\ Idle(c) /\ ~stopped
    /\ stopped' = TRUE
    /\ UNCHANGED <<items, now, pc, limit, unseen>>

Stop(c) ==
    /\ Idle(c)
    /\ stopped' = TRUE
    /\ Goto(c, "notify")
    /\ UNCHANGED <<items, now, limit, unseen>>

Resume(c) ==
    /\ Idle(c)
    /\ stopped' = FALSE
    /\ UNCHANGED <<items, now, pc, limit, unseen>>

Tick ==
    /\ now < MaxTime
    /\ now' = now + 1
    /\ UNCHANGED <<items, stopped, pc, limit, unseen>>

TakeStep(t) == BeginTake(t) \/ TakeStopped(t) \/ WaitEmpty(t) \/ TakeDue(t)
               \/ WaitDue(t) \/ WaitTimedOut(t)

Next ==
    \/ \E t \in Takers : TakeStep(t) \/ SpuriousWakeup(t)
    \/ \E c \in Clients : \/ \E x \in Items : Add(c, x) \/ RemoveItem(c, x)
                          \/ Clear(c) \/ Stop(c) \/ Resume(c) \/ NotifyAll(c)
    \/ Tick

Init ==
    /\ items = <<>> /\ stopped = FALSE /\ now = 0
    /\ pc = [t \in Takers \cup Clients |-> "out"]
    /\ limit = [t \in Takers |-> 0]
    /\ unseen = Items

Spec == Init /\ [][Next]_vars

\* Takers that are not blocked go on and ask again, notifications are sent,
\* time passes.  Clients need not call and wake-ups need not be spurious.
FairSpec ==
    /\ Spec
    /\ \A t \in Takers : WF_vars(TakeStep(t))
    /\ \A c \in Clients : WF_vars(NotifyAll(c))
    /\ WF_vars(Tick)

(***************************************************************************)
(* Properties                                                              *)
(***************************************************************************)
\* DelayQueue.hpp:40: elements are ordered by deadline, smallest first,
\* however additions, removals and takes interleave.
OrderedByDeadline ==
    \A i, j \in DOMAIN items : i < j => Deadline[items[i]] <= Deadline[items[j]]

\* A taker that sleeps while elements are queued is woken in time: its limit
\* is not later than the first deadline, unless a notification is about to
\* be sent (DelayQueue.hpp:156 waits for the head it saw, :100 wakes it).
SleepsNoLongerThanHead ==
    \A t \in Takers :
        (items # <<>> /\ pc[t] \in Waiting) =>
            \/ pc[t] = "waitUntil" /\ limit[t] <= Deadline[Head(items)]
            \/ \E c \in Clients : pc[c] = "notify"

\* DelayQueue.hpp:127: the queue implements the abstract timed queue; no
\* element is returned before its deadline, after its removal, out of order
\* or twice, and none disappears otherwise.
Abstract == INSTANCE TimedQueue WITH
                pending <- ToSet(items),
                asking <- {t \in Takers : pc[t] # "out"}
ImplementsTimedQueue == Abstract!Spec

\* DelayQueue.hpp:128: every element added is returned when its time has
\* come, unless it is removed or the queue is stopped.
EveryItemLeaves ==
    \A x \in Items : Contains(items, x) ~> (~Contains(items, x) \/ stopped)

\* DelayQueue.hpp:161: stop() makes every take() return, unless resume() is
\* called before the takers have looked.
StopReleasesTakers ==
    \A t \in Takers : (stopped /\ pc[t] # "out") ~> (pc[t] = "out" \/ ~stopped)
=============================================================================

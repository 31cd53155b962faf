----------------------------- MODULE TimedQueue -----------------------------
(***************************************************************************)
(* What a DelayQueue promises: a set of pending elements, each with a      *)
(* deadline.  A take() that is under way is answered with an element whose *)
(* deadline has passed and is the earliest of all pending ones, or, after  *)
(* stop(), with nothing.  No order of storage, no lock, no wake-up.        *)
(***************************************************************************)
EXTENDS Naturals

CONSTANTS
    Items,      \* elements; each is added at most once
    Takers,     \* threads that call take()
    Deadline    \* the deadline of each element

VARIABLES
    pending,    \* elements added and neither returned nor removed
    unseen,     \* elements not added yet
    asking,     \* takers inside take()
    stopped,    \* stop() was called, and no resume() since
    now         \* the clock

vars == <<pending, unseen, asking, stopped, now>>

Earliest(x) == \A y \in pending : Deadline[x] <= Deadline[y]

Offer(x) ==
    /\ x \in unseen
    /\ pending' = pending \cup {x} /\ unseen' = unseen \ {x}
    /\ UNCHANGED <<asking, stopped, now>>

Withdraw(gone) ==
    /\ pending' = pending \ gone
    /\ UNCHANGED <<unseen, asking, stopped, now>>

Ask(t) ==
    /\ t \notin asking
    /\ asking' = asking \cup {t}
    /\ UNCHANGED <<pending, unseen, stopped, now>>

Deliver(t, x) ==
    /\ t \in asking /\ ~stopped
    /\ x \in pending /\ Deadline[x] <= now /\ Earliest(x)
    /\ pending' = pending \ {x} /\ asking' = asking \ {t}
    /\ UNCHANGED <<unseen, stopped, now>>

Refuse(t) ==
    /\ t \in asking /\ stopped
    /\ asking' = asking \ {t}
    /\ UNCHANGED <<pending, unseen, stopped, now>>

SetStopped(flag) == stopped' = flag /\ UNCHANGED <<pending, unseen, asking, now>>

Tick == now' = now + 1 /\ UNCHANGED <<pending, unseen, asking, stopped>>

Next ==
    \/ \E x \in Items : Offer(x) \/ \E t \in Takers : Deliver(t, x)
    \/ \E gone \in SUBSET Items : Withdraw(gone)
    \/ \E t \in Takers : Ask(t) \/ Refuse(t)
    \/ \E flag \in BOOLEAN : SetStopped(flag)
    \/ Tick

Init ==
    /\ pending = {} /\ unseen = Items /\ asking = {}
    /\ stopped = FALSE /\ now = 0

Spec == Init /\ [][Next]_vars
=============================================================================

---------------------------- MODULE EventLedger ----------------------------
(***************************************************************************)
(* What the event queue promises about the events pushed to it: each is    *)
(* pending until it has its one fate.  They leave oldest first, a slice at *)
(* a time; what makes room for a new one is the oldest that is not on its  *)
(* way already.  No threads, no locks, no counter.                         *)
(***************************************************************************)
EXTENDS Naturals, Sequences, FiniteSets

CONSTANTS Room, Slice   \* what the queue keeps, what one post takes

VARIABLE fate           \* of each event, in the order they were pushed

Pending == {e \in DOMAIN fate : fate[e] = "pending"}
Settled(es, what) == [e \in DOMAIN fate |-> IF e \in es THEN what ELSE fate[e]]

\* A slice that may be on its way: the oldest events pending.  The others take up the room.
Oldest(es) == /\ Cardinality(es) <= Slice
              /\ \A e \in es, d \in Pending \ es : e < d

Init == fate = <<>>

Push ==
    \E es \in SUBSET Pending :
        /\ Oldest(es)
        /\ Cardinality(Pending \ es) < Room
        /\ fate' = Append(fate, "pending")

PushOver ==
    \E es \in SUBSET Pending :
        /\ Oldest(es)
        /\ Cardinality(Pending \ es) = Room
        /\ \E e \in Pending \ es :
             /\ \A d \in Pending \ es : e <= d
             /\ fate' = Append(Settled({e}, "evicted"), "pending")

Ship ==
    \E es \in SUBSET Pending, what \in {"stored", "refused", "lost"} :
        /\ Oldest(es)
        /\ fate' = Settled(es, what)

\* After a fork, what was pending is another process's to ship.
Disown == fate' = Settled(Pending, "parent")

Next == Push \/ PushOver \/ Ship \/ Disown

Spec == Init /\ [][Next]_fate
=============================================================================

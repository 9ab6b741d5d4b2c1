-------------------------- MODULE EventQueue_proofs --------------------------
(***************************************************************************)
(* Proofs about EventQueue, for any number of request threads and events   *)
(* and any sizes of batch, queue and slice: the inductive invariant IInv,  *)
(* and from it that no event vanishes or overtakes, the counter never      *)
(* overcounts, a full batch wakes the flush thread, the exit drain settles *)
(* what it found, and the queue implements EventLedger.                    *)
(***************************************************************************)
EXTENDS EventQueue, FiniteSetTheorems, SequenceTheorems, TLAPS

InFlight == {"lock", "pop", "post", "count", "leave"}
Posting == {"post", "count"}

\* The last event that is not in the queue any more.
Base == Len(fate) - Len(q)

\* The queue is the newest events, in order: nothing is taken from it but its oldest.
QueueInv ==
    /\ Base \in Nat
    /\ \A i \in 1..Len(q) : q[i] = Base + i

\* One flush at a time is in flight, and it alone has a batch.
FlightInv ==
    \A f \in Flushers :
        /\ flush[f].pc \in InFlight => inflight = f
        /\ Holding(f) # <<>> => flush[f].pc \in Posting

\* A batch is a slice of consecutive events, all older than the queue.
BatchInv ==
    \A f \in Flushers :
        /\ Len(Holding(f)) <= Slice
        /\ \A i \in 1..Len(Holding(f)) :
             /\ Holding(f)[i] \in 1..Base
             /\ Holding(f)[i] = Holding(f)[1] + i - 1

\* What is pending is in the queue or in the hands of a flusher.
PendingInv ==
    \A e \in 1..Len(fate) :
        fate[e] = "pending" <=> e > Base \/ \E f \in Flushers : \E i \in 1..Len(Holding(f)) : e = Holding(f)[i]

\* A queue without a thread, that may start one, has none.
StartInv == ~thread /\ ~stopped => flush[Daemon].pc = "off"

IInv == TypeOK /\ StartInv /\ QueueInv /\ FlightInv /\ BatchInv /\ PendingInv /\ PostedInOrder

-----------------------------------------------------------------------------
(* What Mark, Evict and a slice do. *)

\* Marking events changes the fate of those events and of no other.
LEMMA MarkIs ==
    ASSUME TypeOK, NEW es, NEW what \in Fates
    PROVE  /\ Mark(es, what) \in Seq(Fates) /\ Len(Mark(es, what)) = Len(fate)
           /\ \A e \in 1..Len(fate) : Mark(es, what)[e] = IF e \in es THEN what ELSE fate[e]
<1>1. fate \in Seq(Fates) /\ Events = 1..Len(fate) /\ Len(fate) \in Nat
  BY DEF TypeOK, Events
<1>2. Mark(es, what) \in [1..Len(fate) -> Fates]
  BY <1>1 DEF Mark
<1>3. Mark(es, what) \in Seq(Fates)
  BY <1>1, <1>2
<1>. QED
  BY <1>1, <1>2, <1>3 DEF Mark

\* The events in the hands of a flusher.
LEMMA HeldRange ==
    ASSUME TypeOK, NEW f \in Flushers
    PROVE  /\ Holding(f) \in Seq(Nat) /\ Len(Holding(f)) \in Nat
           /\ Range(Holding(f)) = {Holding(f)[i] : i \in 1..Len(Holding(f))}
  BY DEF TypeOK, Holding, Range

\* What push does to the queue: the oldest event makes room, the new one comes last.
LEMMA EnqueueIs ==
    ASSUME TypeOK, QueueInv, Enqueue
    PROVE  /\ q' \in Seq(Nat) /\ Len(q') <= MaxQueue /\ fate' \in Seq(Fates) /\ dropped' \in Nat
           /\ Len(fate') = Len(fate) + 1
           /\ Base' = IF IsFull THEN Base + 1 ELSE Base
           /\ \A i \in 1..Len(q') : q'[i] = Base' + i
           /\ \A e \in 1..Len(fate) :
                fate'[e] = IF IsFull /\ e = Base + 1 THEN "evicted" ELSE fate[e]
           /\ fate'[Len(fate) + 1] = "pending"
<1>. DEFINE new == Len(fate) + 1
<1>0. /\ q \in Seq(Nat) /\ Len(q) \in Nat /\ Len(q) <= MaxQueue /\ fate \in Seq(Fates) /\ Len(fate) \in Nat
      /\ dropped \in Nat /\ MaxQueue \in Nat \ {0} /\ Base \in Nat
  BY QueueAssumption DEF TypeOK, QueueInv
<1>1. CASE IsFull
  <2>1. Len(q) = MaxQueue /\ q # <<>>
    BY <1>0, <1>1 DEF IsFull
  <2>2. Tail(q) \in Seq(Nat) /\ Len(Tail(q)) = Len(q) - 1 /\ (\A i \in 1..(Len(q) - 1) : Tail(q)[i] = q[i + 1]) /\ Head(q) = q[1]
    BY <1>0, <2>1
  <2>3. q[1] = Base + 1
    BY <1>0, <2>1 DEF QueueInv
  <2>. DEFINE m == Mark({Head(q)}, "evicted")
  <2>4. /\ m \in Seq(Fates) /\ Len(m) = Len(fate)
        /\ \A e \in 1..Len(fate) : m[e] = IF e = Base + 1 THEN "evicted" ELSE fate[e]
    BY MarkIs, <2>2, <2>3 DEF Fates
  <2>5. q' = Append(Tail(q), new) /\ dropped' = dropped + 1 /\ fate' = Append(m, "pending")
    BY <1>1 DEF Enqueue, Evict
  <2>. HIDE DEF m
  <2>6. /\ Len(fate') = Len(fate) + 1 /\ fate' \in Seq(Fates) /\ fate'[Len(fate) + 1] = "pending"
        /\ \A e \in 1..Len(fate) : fate'[e] = m[e]
    BY <1>0, <2>4, <2>5 DEF Fates
  <2>7. q' \in Seq(Nat) /\ Len(q') = Len(q)
    BY <1>0, <2>1, <2>2, <2>5
  <2>8. Base' = Base + 1
    BY <1>0, <2>6, <2>7 DEF Base
  <2>9. ASSUME NEW i \in 1..Len(q') PROVE q'[i] = Base' + i
    <3>1. CASE i = Len(q)
      <4>1. q'[i] = new
        BY <3>1, <1>0, <2>1, <2>2, <2>5
      <4>2. Base + Len(q) = Len(fate)
        BY <1>0 DEF Base
      <4>. QED
        BY <4>1, <4>2, <3>1, <2>8, <1>0
    <3>2. CASE i # Len(q)
      <4>1. i \in 1..(Len(q) - 1) /\ i + 1 \in 1..Len(q)
        BY <3>2, <2>7, <1>0
      <4>2. q'[i] = q[i + 1]
        BY <4>1, <2>2, <2>5, <1>0
      <4>. QED
        BY <4>1, <4>2, <2>8, <1>0 DEF QueueInv
    <3>. QED
      BY <3>1, <3>2
  <2>. QED
    BY <1>0, <1>1, <2>1, <2>4, <2>5, <2>6, <2>7, <2>8, <2>9
<1>2. CASE ~IsFull
  <2>1. q' = Append(q, new) /\ dropped' = dropped /\ fate' = Append(fate, "pending") /\ Len(q) < MaxQueue
    BY <1>0, <1>2 DEF Enqueue, IsFull
  <2>2. Len(q') = Len(q) + 1 /\ Len(fate') = Len(fate) + 1 /\ q' \in Seq(Nat) /\ fate' \in Seq(Fates)
    BY <1>0, <2>1 DEF Fates
  <2>3. Base' = Base
    BY <1>0, <2>2 DEF Base
  <2>4. ASSUME NEW i \in 1..Len(q') PROVE q'[i] = Base' + i
    BY <1>0, <2>1, <2>2, <2>3 DEF QueueInv, Base
  <2>. QED
    BY <1>0, <1>2, <2>1, <2>2, <2>3, <2>4
<1>. QED
  BY <1>1, <1>2

\* What flush takes: the oldest events, no more than a slice, and it leaves the others.
LEMMA PopIs ==
    ASSUME TypeOK, QueueInv, NEW f \in Flushers, Pop(f)
    PROVE  /\ BatchSize \in 0..Len(q) /\ BatchSize <= Slice
           /\ q' \in Seq(Nat) /\ Len(q') = Len(q) - BatchSize
           /\ Base' = Base + BatchSize
           /\ \A i \in 1..Len(q') : q'[i] = Base' + i
           /\ SubSeq(q, 1, BatchSize) \in Seq(Nat) /\ Len(SubSeq(q, 1, BatchSize)) = BatchSize
           /\ \A i \in 1..BatchSize : SubSeq(q, 1, BatchSize)[i] = Base + i
<1>1. /\ q \in Seq(Nat) /\ Len(q) \in Nat /\ fate \in Seq(Fates) /\ Len(fate) \in Nat /\ Base \in Nat
      /\ BatchSize \in 0..Len(q) /\ BatchSize <= Slice /\ BatchSize \in Nat
  BY QueueAssumption DEF TypeOK, QueueInv, BatchSize
<1>2. q' = SubSeq(q, BatchSize + 1, Len(q)) /\ fate' = fate
  BY DEF Pop
<1>3. q' \in Seq(Nat) /\ Len(q') = Len(q) - BatchSize
  BY <1>1, <1>2
<1>4. \A i \in 1..Len(q') : q'[i] = q[BatchSize + i]
  BY <1>1, <1>2, <1>3
<1>5. Base' = Base + BatchSize
  <2>1. Base = Len(fate) - Len(q) /\ Base' = Len(fate) - Len(q')
    BY <1>2 DEF Base
  <2>. QED
    BY <2>1, <1>1, <1>3
<1>6. \A i \in 1..Len(q') : q'[i] = Base' + i
  BY <1>1, <1>3, <1>4, <1>5 DEF QueueInv
<1>7. SubSeq(q, 1, BatchSize) \in Seq(Nat) /\ Len(SubSeq(q, 1, BatchSize)) = BatchSize
  BY <1>1
<1>8. \A i \in 1..BatchSize : SubSeq(q, 1, BatchSize)[i] = Base + i
  BY <1>1 DEF QueueInv
<1>. QED
  BY <1>1, <1>3, <1>5, <1>6, <1>7, <1>8

-----------------------------------------------------------------------------
(* Every step keeps the invariant. *)

\* At moves a flusher and nothing else.
LEMMA AtIs ==
    ASSUME TypeOK, NEW f \in Flushers, NEW s \in Steps
    PROVE  /\ At(f, s) \in [Flushers -> [pc : Steps, batch : Seq(Nat), read : Nat]]
           /\ At(f, s)[f].pc = s /\ At(f, s)[f].batch = flush[f].batch
           /\ \A g \in Flushers \ {f} : At(f, s)[g] = flush[g]
<1>1. flush \in [Flushers -> [pc : Steps, batch : Seq(Nat), read : Nat]]
  BY DEF TypeOK
<1>. QED
  BY <1>1 DEF At

\* A flusher that starts over has nothing in its hands.
LEMMA OffIs ==
    ASSUME TypeOK, NEW f \in Flushers, NEW s \in Steps
    PROVE  /\ Off \in [pc : Steps, batch : Seq(Nat), read : Nat] /\ Off.pc = "off" /\ Off.batch = <<>>
           /\ [flush EXCEPT ![f] = [Off EXCEPT !.pc = s]] \in [Flushers -> [pc : Steps, batch : Seq(Nat), read : Nat]]
           /\ [flush EXCEPT ![f] = [Off EXCEPT !.pc = s]][f].pc = s
           /\ [flush EXCEPT ![f] = [Off EXCEPT !.pc = s]][f].batch = <<>>
           /\ \A g \in Flushers \ {f} : [flush EXCEPT ![f] = [Off EXCEPT !.pc = s]][g] = flush[g]
<1>1. flush \in [Flushers -> [pc : Steps, batch : Seq(Nat), read : Nat]]
  BY DEF TypeOK
<1>2. Off = [pc |-> "off", batch |-> <<>>, read |-> 0] /\ "off" \in Steps
  BY DEF Off, Steps
<1>3. <<>> \in Seq(Nat)
  OBVIOUS
<1>4. [Off EXCEPT !.pc = s] = [pc |-> s, batch |-> <<>>, read |-> 0]
  BY <1>2
<1>5. [pc |-> s, batch |-> <<>>, read |-> 0] \in [pc : Steps, batch : Seq(Nat), read : Nat]
  BY <1>3
<1>. QED
  BY <1>1, <1>2, <1>3, <1>4, <1>5

\* At, with the counter read.
LEMMA AtReadIs ==
    ASSUME TypeOK, NEW f \in Flushers, NEW s \in Steps, NEW n \in Nat
    PROVE  /\ [At(f, s) EXCEPT ![f].read = n] \in [Flushers -> [pc : Steps, batch : Seq(Nat), read : Nat]]
           /\ [At(f, s) EXCEPT ![f].read = n][f].pc = s /\ [At(f, s) EXCEPT ![f].read = n][f].batch = flush[f].batch
           /\ \A g \in Flushers \ {f} : [At(f, s) EXCEPT ![f].read = n][g] = flush[g]
<1>1. At(f, s) \in [Flushers -> [pc : Steps, batch : Seq(Nat), read : Nat]] /\ At(f, s)[f].pc = s
      /\ At(f, s)[f].batch = flush[f].batch /\ \A g \in Flushers \ {f} : At(f, s)[g] = flush[g]
  BY AtIs
<1>. QED
  BY <1>1

\* A step that leaves the queue, the events and the batches alone.
LEMMA QuietStep ==
    ASSUME IInv, TypeOK', StartInv', FlightInv', UNCHANGED <<q, fate>>, \A f \in Flushers : Holding(f)' = Holding(f)
    PROVE  IInv'
<1>1. Base' = Base /\ Len(q') = Len(q) /\ Len(fate') = Len(fate) /\ Events' = Events
  BY DEF Base, Events
<1>2. QueueInv'
  BY <1>1 DEF IInv, QueueInv
<1>3. BatchInv'
  BY <1>1 DEF IInv, BatchInv
<1>4. PendingInv'
  BY <1>1 DEF IInv, PendingInv
<1>5. PostedInOrder'
  BY <1>1 DEF IInv, PostedInOrder
<1>. QED
  BY <1>2, <1>3, <1>4, <1>5 DEF IInv

\* The steps of the loop, of the stop, and of a flush that move no event: where they take a flusher.
LEMMA QuietMove ==
    ASSUME IInv, NEW f \in Flushers, NEW s \in Steps, flush' = At(f, s), UNCHANGED <<q, fate, dropped, thread, mishaps>>,
           lock' \in Flushers \cup {NoThread}, inflight' \in {f, NoThread, inflight},
           wake' \in BOOLEAN, stopped' = stopped, full' \subseteq Pushers, drainable' \in 0..Len(fate),
           flush[f].pc # "off" \/ f # Daemon,
           s \in InFlight => inflight' = f, inflight' = inflight \/ inflight = NoThread \/ flush[f].pc \in InFlight,
           flush[f].pc \in Posting => s \in Posting
    PROVE  IInv'
<1>1. /\ flush' \in [Flushers -> [pc : Steps, batch : Seq(Nat), read : Nat]]
      /\ flush'[f].pc = s /\ flush'[f].batch = flush[f].batch
      /\ \A g \in Flushers \ {f} : flush'[g] = flush[g]
  BY AtIs DEF IInv
<1>2. TypeOK'
  BY <1>1 DEF IInv, TypeOK
<1>3. \A g \in Flushers : Holding(g)' = Holding(g)
  BY <1>1 DEF Holding
<1>4. StartInv'
  BY <1>1, QueueAssumption DEF IInv, StartInv, Flushers
<1>5. FlightInv'
  <2>1. ASSUME NEW g \in Flushers PROVE
        /\ flush'[g].pc \in InFlight => inflight' = g
        /\ Holding(g)' # <<>> => flush'[g].pc \in Posting
    BY <1>1, <1>3, QueueAssumption DEF IInv, FlightInv, InFlight, Flushers
  <2>. QED
    BY <2>1 DEF FlightInv
<1>. QED
  BY <1>2, <1>3, <1>4, <1>5, QuietStep

\* Every step but a push, the taking or settling of a batch, and a fork.
LEMMA QuietSteps ==
    ASSUME IInv,
           \/ \E p \in Pushers : SetWake(p)
           \/ DaemonWake \/ Drain \/ Stop
           \/ \E f \in Flushers : Enter(f) \/ TakeLock(f) \/ Unanswered(f) \/ Leave(f)
    PROVE  IInv'
<1>0. /\ Len(fate) \in Nat /\ Daemon \in Flushers /\ Exit \in Flushers /\ Daemon # Exit
      /\ TypeOK /\ \A f \in Flushers : Return(f) \in Steps \ (InFlight \cup Posting)
  BY QueueAssumption DEF IInv, TypeOK, Flushers, Return, Steps, InFlight, Posting
<1>1. CASE \E p \in Pushers : SetWake(p)
  BY <1>1, QuietStep DEF SetWake, IInv, TypeOK, StartInv, FlightInv, Holding
<1>2. CASE DaemonWake
  <2>. DEFINE s == IF stopped THEN "off" ELSE "enter"
  <2>1. s \in Steps /\ s \notin InFlight /\ flush[Daemon].pc = "sleep" /\ "sleep" \notin Posting
    BY <1>2 DEF DaemonWake, Steps, InFlight, Posting
  <2>2. flush' = At(Daemon, s) /\ UNCHANGED <<q, dropped, stopped, thread, lock, inflight, full, mishaps, fate, drainable>>
        /\ wake' = FALSE
    BY <1>2 DEF DaemonWake
  <2>. HIDE DEF s
  <2>. QED
    BY <1>0, <2>1, <2>2, QuietMove DEF TypeOK
<1>3. CASE Drain
  <2>1. flush' = At(Exit, "enter") /\ drainable' = Len(fate) /\ flush[Exit].pc = "off"
        /\ UNCHANGED <<q, dropped, wake, stopped, thread, lock, inflight, full, mishaps, fate>>
    BY <1>3 DEF Drain, attributes
  <2>2. "enter" \in Steps \ InFlight /\ "off" \notin Posting
    BY DEF Steps, InFlight, Posting
  <2>. QED
    BY <1>0, <2>1, <2>2, QuietMove DEF TypeOK
<1>4. CASE Stop
  BY <1>4, QuietStep DEF Stop, IInv, TypeOK, StartInv, FlightInv, Holding
<1>5. ASSUME NEW f \in Flushers, Enter(f) PROVE IInv'
  <2>1. UNCHANGED <<q, dropped, wake, stopped, thread, lock, full, mishaps, fate, drainable>> /\ flush[f].pc = "enter"
    BY <1>5 DEF Enter, attributes
  <2>2. "enter" \notin Posting /\ "lock" \in Steps /\ Posting \subseteq InFlight
    BY DEF Steps, InFlight, Posting
  <2>3. CASE Free
    <3>1. flush' = At(f, "lock") /\ inflight' = f /\ inflight = NoThread
      BY <1>5, <2>3 DEF Enter, Free
    <3>. QED
      BY <1>0, <2>1, <2>2, <3>1, QuietMove DEF TypeOK
  <2>4. CASE ~Free
    <3>1. flush' = At(f, Return(f)) /\ inflight' = inflight
      BY <1>5, <2>4 DEF Enter
    <3>. QED
      BY <1>0, <2>1, <2>2, <3>1, QuietMove DEF TypeOK
  <2>. QED
    BY <2>3, <2>4
<1>6. ASSUME NEW f \in Flushers, TakeLock(f) PROVE IInv'
  <2>1. /\ UNCHANGED <<q, dropped, wake, stopped, thread, inflight, full, mishaps, fate, drainable>>
        /\ flush[f].pc = "lock" /\ flush' = At(f, "pop") /\ lock' = f
    BY <1>6 DEF TakeLock, attributes
  <2>2. "lock" \in InFlight \ Posting /\ "pop" \in Steps
    BY DEF Steps, InFlight, Posting
  <2>3. inflight = f
    BY <2>1, <2>2 DEF IInv, FlightInv
  <2>. QED
    BY <1>0, <2>1, <2>2, <2>3, QuietMove DEF TypeOK
<1>7. ASSUME NEW f \in Flushers, Unanswered(f) PROVE IInv'
  <2>1. flush[f].pc = "post" /\ flush' = [At(f, "count") EXCEPT ![f].read = dropped]
        /\ UNCHANGED <<q, dropped, wake, stopped, thread, lock, inflight, full, mishaps, fate, drainable>>
    BY <1>7 DEF Unanswered, attributes
  <2>2. "post" \in Posting /\ "post" \in InFlight /\ "count" \in Steps /\ "count" \in Posting /\ "count" # "off" /\ dropped \in Nat
    BY <1>0 DEF Steps, InFlight, Posting, TypeOK
  <2>3. /\ flush' \in [Flushers -> [pc : Steps, batch : Seq(Nat), read : Nat]]
        /\ flush'[f].pc = "count" /\ flush'[f].batch = flush[f].batch
        /\ \A g \in Flushers \ {f} : flush'[g] = flush[g]
    BY <1>0, <2>1, <2>2, AtReadIs
  <2>4. TypeOK' /\ \A g \in Flushers : Holding(g)' = Holding(g)
    BY <1>0, <2>1, <2>3 DEF TypeOK, Holding
  <2>5. FlightInv'
    <3>1. ASSUME NEW g \in Flushers
          PROVE  /\ flush'[g].pc \in InFlight => inflight' = g
                 /\ Holding(g)' # <<>> => flush'[g].pc \in Posting
      BY <2>1, <2>2, <2>3, <2>4 DEF IInv, FlightInv
    <3>. QED
      BY <3>1 DEF FlightInv
  <2>6. StartInv'
    BY <1>0, <2>1, <2>2, <2>3 DEF IInv, StartInv
  <2>. QED
    BY <2>1, <2>4, <2>5, <2>6, QuietStep
<1>8. ASSUME NEW f \in Flushers, Leave(f) PROVE IInv'
  <2>1. flush[f].pc = "leave" /\ flush' = At(f, Return(f)) /\ inflight' = NoThread
        /\ UNCHANGED <<q, dropped, wake, stopped, thread, lock, full, mishaps, fate, drainable>>
    BY <1>8 DEF Leave, attributes
  <2>2. "leave" \in InFlight \ Posting
    BY DEF InFlight, Posting
  <2>. QED
    BY <1>0, <2>1, <2>2, QuietMove DEF TypeOK
<1>. QED
  BY <1>1, <1>2, <1>3, <1>4, <1>5, <1>6, <1>7, <1>8

\* push, its thread started or not.
LEMMA EnqueueStep ==
    ASSUME IInv, Enqueue, TypeOK', StartInv', FlightInv', \A f \in Flushers : Holding(f)' = Holding(f)
    PROVE  IInv'
<1>0. /\ Len(fate) \in Nat /\ Base \in Nat /\ Base <= Len(fate) /\ (IsFull => Base < Len(fate))
      /\ Events = 1..Len(fate) /\ Events' = 1..Len(fate')
  <2>1. q \in Seq(Nat) /\ fate \in Seq(Fates) /\ fate' \in Seq(Fates) /\ Base = Len(fate) - Len(q) /\ Base \in Nat
    BY DEF IInv, TypeOK, QueueInv, Base
  <2>. QED
    BY <2>1, QueueAssumption DEF IsFull, Events
<1>. DEFINE full1 == IsFull
<1>1. /\ Len(fate') = Len(fate) + 1
      /\ Base' = IF full1 THEN Base + 1 ELSE Base
      /\ \A i \in 1..Len(q') : q'[i] = Base' + i
      /\ \A e \in 1..Len(fate) : fate'[e] = IF full1 /\ e = Base + 1 THEN "evicted" ELSE fate[e]
      /\ fate'[Len(fate) + 1] = "pending"
  BY EnqueueIs DEF IInv
<1>. HIDE DEF full1
<1>2. QueueInv'
  BY <1>0, <1>1 DEF QueueInv
<1>3. BatchInv'
  BY <1>0, <1>1 DEF IInv, BatchInv
<1>4. PendingInv'
  <2>1. ASSUME NEW e \in 1..Len(fate')
        PROVE  fate'[e] = "pending" <=> e > Base' \/ \E f \in Flushers : \E i \in 1..Len(Holding(f)) : e = Holding(f)[i]
    <3>1. CASE e = Len(fate) + 1
      BY <3>1, <1>0, <1>1 DEF full1
    <3>2. CASE e # Len(fate) + 1 /\ full1 /\ e = Base + 1
      BY <3>2, <1>0, <1>1 DEF IInv, BatchInv
    <3>3. CASE e # Len(fate) + 1 /\ ~(full1 /\ e = Base + 1)
      <4>1. e \in 1..Len(fate) /\ fate'[e] = fate[e] /\ (e > Base' <=> e > Base)
        BY <3>3, <1>0, <1>1
      <4>. QED
        BY <4>1 DEF IInv, PendingInv
    <3>. QED
      BY <3>1, <3>2, <3>3
  <2>. QED
    BY <2>1 DEF PendingInv
<1>5. PostedInOrder'
  BY <1>0, <1>1 DEF IInv, PostedInOrder
<1>. QED
  BY <1>2, <1>3, <1>4, <1>5 DEF IInv

LEMMA PushStep ==
    ASSUME IInv, NEW p \in Pushers, Push(p) \/ PushThreadLimit(p)
    PROVE  IInv'
<1>1. Enqueue
  BY DEF Push, PushThreadLimit
<1>2. q' \in Seq(Nat) /\ Len(q') <= MaxQueue /\ fate' \in Seq(Fates) /\ dropped' \in Nat /\ Len(fate') = Len(fate) + 1
  BY <1>1, EnqueueIs DEF IInv
<1>3. Len(fate) \in Nat
  BY DEF IInv, TypeOK
<1>4. CASE Push(p)
  <2>1. TypeOK'
    <3>1. flush' \in [Flushers -> [pc : Steps, batch : Seq(Nat), read : Nat]]
      BY <1>4, OffIs, QueueAssumption DEF IInv, TypeOK, Push, Flushers, Steps
    <3>2. full' \subseteq Pushers /\ thread' \in BOOLEAN
      BY <1>4 DEF IInv, TypeOK, Push, MustStart
    <3>. QED
      BY <1>2, <1>3, <1>4, <3>1, <3>2 DEF IInv, TypeOK, Push
  <2>2. StartInv' /\ FlightInv' /\ \A f \in Flushers : Holding(f)' = Holding(f)
    <3>1. CASE MustStart
      <4>1. Daemon \in Flushers /\ "sleep" \in Steps /\ "sleep" \notin InFlight /\ "off" \notin Posting
        BY DEF Flushers, Steps, InFlight, Posting
      <4>2. /\ flush'[Daemon].pc = "sleep" /\ flush'[Daemon].batch = <<>>
            /\ \A g \in Flushers \ {Daemon} : flush'[g] = flush[g]
        BY <1>4, <3>1, <4>1, OffIs DEF Push, IInv
      <4>3. Holding(Daemon) = <<>>
        BY <3>1, <4>1 DEF IInv, StartInv, MustStart, FlightInv
      <4>4. thread' = TRUE /\ inflight' = inflight
        BY <1>4, <3>1 DEF Push
      <4>. QED
        BY <4>1, <4>2, <4>3, <4>4 DEF IInv, StartInv, FlightInv, Holding
    <3>2. CASE ~MustStart
      BY <1>4, <3>2 DEF IInv, StartInv, FlightInv, Push, Holding, MustStart
    <3>. QED
      BY <3>1, <3>2
  <2>. QED
    BY <1>1, <2>1, <2>2, EnqueueStep
<1>5. CASE PushThreadLimit(p)
  <2>1. TypeOK'
    BY <1>2, <1>3, <1>5, QueueAssumption DEF IInv, TypeOK, PushThreadLimit
  <2>2. StartInv' /\ FlightInv' /\ \A f \in Flushers : Holding(f)' = Holding(f)
    BY <1>5 DEF IInv, StartInv, FlightInv, PushThreadLimit, Holding
  <2>. QED
    BY <1>1, <2>1, <2>2, EnqueueStep
<1>. QED
  BY <1>4, <1>5

\* flush takes a slice.
LEMMA PopStep ==
    ASSUME IInv, NEW f \in Flushers, Pop(f)
    PROVE  IInv'
<1>. DEFINE n == BatchSize
<1>1. /\ n \in 0..Len(q) /\ n <= Slice /\ q' \in Seq(Nat) /\ Len(q') = Len(q) - n /\ Base' = Base + n
      /\ \A i \in 1..Len(q') : q'[i] = Base' + i
      /\ SubSeq(q, 1, n) \in Seq(Nat) /\ Len(SubSeq(q, 1, n)) = n
      /\ \A i \in 1..n : SubSeq(q, 1, n)[i] = Base + i
  BY PopIs DEF IInv
<1>2. /\ Len(q) \in Nat /\ Len(q) <= MaxQueue /\ Base \in Nat /\ fate' = fate /\ Events' = Events /\ Slice \in Nat /\ MaxQueue \in Nat
      /\ Len(fate) \in Nat /\ (q = <<>> => n = 0) /\ Base + n <= Len(fate)
  <2>1. q \in Seq(Nat) /\ fate \in Seq(Fates) /\ Base \in Nat /\ Base = Len(fate) - Len(q) /\ Len(q) <= MaxQueue
    BY DEF IInv, TypeOK, QueueInv, Base
  <2>2. Len(q) \in Nat /\ Len(fate) \in Nat
    BY <2>1
  <2>3. q = <<>> => n = 0
    BY <2>1, <1>1
  <2>4. Base + n <= Len(fate)
    BY <2>1, <2>2, <1>1
  <2>5. fate' = fate /\ Events' = Events
    BY DEF Pop, Events
  <2>. QED
    BY <2>1, <2>2, <2>3, <2>4, <2>5, QueueAssumption
<1>. HIDE DEF n
<1>3. /\ flush[f].pc = "pop" /\ lock' = NoThread /\ UNCHANGED <<attributes, inflight, full, mishaps, drainable>>
      /\ flush' = IF q = <<>> THEN At(f, "leave") ELSE [At(f, "post") EXCEPT ![f].batch = SubSeq(q, 1, n)]
  BY DEF Pop, n
<1>4. Holding(f) = <<>> /\ inflight = f
  BY <1>3 DEF IInv, FlightInv, InFlight, Posting
<1>5. /\ flush' \in [Flushers -> [pc : Steps, batch : Seq(Nat), read : Nat]]
      /\ flush'[f].pc = IF q = <<>> THEN "leave" ELSE "post"
      /\ flush'[f].batch = IF q = <<>> THEN <<>> ELSE SubSeq(q, 1, n)
      /\ \A g \in Flushers \ {f} : flush'[g] = flush[g]
  <2>1. "leave" \in Steps /\ "post" \in Steps /\ TypeOK
    BY DEF Steps, IInv
  <2>2. CASE q = <<>>
    BY <2>1, <2>2, <1>3, <1>4, AtIs DEF Holding
  <2>3. CASE q # <<>>
    <3>1. /\ At(f, "post") \in [Flushers -> [pc : Steps, batch : Seq(Nat), read : Nat]]
          /\ At(f, "post")[f].pc = "post" /\ \A g \in Flushers \ {f} : At(f, "post")[g] = flush[g]
      BY <2>1, AtIs
    <3>2. flush' = [At(f, "post") EXCEPT ![f].batch = SubSeq(q, 1, n)] /\ SubSeq(q, 1, n) \in Seq(Nat)
      BY <2>3, <1>1, <1>3
    <3>. QED
      BY <3>1, <3>2, <2>3
  <2>. QED
    BY <2>2, <2>3
<1>6. /\ Holding(f)' \in Seq(Nat) /\ Len(Holding(f)') = n /\ \A i \in 1..n : Holding(f)'[i] = Base + i
      /\ \A g \in Flushers \ {f} : Holding(g)' = Holding(g)
  BY <1>1, <1>2, <1>5 DEF Holding
<1>12. TypeOK'
  <2>1. Len(q') <= MaxQueue
    BY <1>1, <1>2
  <2>. QED
    BY <2>1, <1>1, <1>2, <1>3, <1>5 DEF IInv, TypeOK, attributes
<1>7. QueueInv' /\ StartInv'
  <2>1. QueueInv'
    BY <1>1, <1>2 DEF QueueInv
  <2>2. StartInv'
    <3>1. flush[Daemon].pc = "off" => f # Daemon
      BY <1>3
    <3>2. ~thread' /\ ~stopped' => flush[Daemon].pc = "off"
      BY <1>3 DEF IInv, StartInv, attributes
    <3>. QED
      BY <3>1, <3>2, <1>5 DEF StartInv, Flushers
  <2>. QED
    BY <2>1, <2>2
<1>8. FlightInv'
  <2>1. ASSUME NEW g \in Flushers
        PROVE  /\ flush'[g].pc \in InFlight => inflight' = g
               /\ Holding(g)' # <<>> => flush'[g].pc \in Posting
    <3>1. CASE g = f
      BY <3>1, <1>3, <1>4, <1>5 DEF Holding, Posting
    <3>2. CASE g # f
      BY <3>2, <1>3, <1>5, <1>6 DEF IInv, FlightInv
    <3>. QED
      BY <3>1, <3>2
  <2>. QED
    BY <2>1 DEF FlightInv
<1>9. BatchInv'
  <2>1. ASSUME NEW g \in Flushers PROVE
        /\ Len(Holding(g)') <= Slice
        /\ \A i \in 1..Len(Holding(g)') : Holding(g)'[i] \in 1..Base' /\ Holding(g)'[i] = Holding(g)'[1] + i - 1
    <3>1. CASE g = f
      BY <3>1, <1>1, <1>2, <1>6
    <3>2. CASE g # f
      <4>1. Holding(g)' = Holding(g)
        BY <3>2, <1>6
      <4>2. /\ Len(Holding(g)) <= Slice
            /\ \A i \in 1..Len(Holding(g)) : Holding(g)[i] \in 1..Base /\ Holding(g)[i] = Holding(g)[1] + i - 1
        BY DEF IInv, BatchInv
      <4>3. 1..Base \subseteq 1..Base'
        BY <1>1, <1>2
      <4>. HIDE DEF Base
      <4>. QED
        BY ONLY <4>1, <4>2, <4>3
    <3>. QED
      BY <3>1, <3>2
  <2>. QED
    BY <2>1 DEF BatchInv
<1>10. PendingInv'
  <2>1. ASSUME NEW e \in 1..Len(fate)
        PROVE  fate[e] = "pending" <=> e > Base + n \/ \E g \in Flushers : \E i \in 1..Len(Holding(g)') : e = Holding(g)'[i]
    <3>1. fate[e] = "pending" <=> e > Base \/ \E g \in Flushers : \E i \in 1..Len(Holding(g)) : e = Holding(g)[i]
      BY DEF IInv, PendingInv
    <3>2. (\E i \in 1..Len(Holding(f)') : e = Holding(f)'[i]) <=> e > Base /\ e <= Base + n
      <4>1. ASSUME e > Base, e <= Base + n PROVE \E i \in 1..Len(Holding(f)') : e = Holding(f)'[i]
        <5>1. e - Base \in 1..n /\ e = Base + (e - Base)
          BY <4>1, <1>1, <1>2
        <5>. QED
          BY <5>1, <1>6
      <4>. QED
        BY <4>1, <1>1, <1>2, <1>6
    <3>3. ~\E i \in 1..Len(Holding(f)) : e = Holding(f)[i]
      BY <1>4
    <3>4. \A g \in Flushers \ {f} : (\E i \in 1..Len(Holding(g)') : e = Holding(g)'[i])
                                  <=> \E i \in 1..Len(Holding(g)) : e = Holding(g)[i]
      BY <1>6
    <3>5. e > Base <=> (e > Base + n \/ (e > Base /\ e <= Base + n))
      <4>. n \in Nat
        BY <1>1, <1>2
      <4>. QED
        BY <1>2
    <3>6. (\E g \in Flushers : \E i \in 1..Len(Holding(g)') : e = Holding(g)'[i])
          <=> (e > Base /\ e <= Base + n) \/ \E g \in Flushers : \E i \in 1..Len(Holding(g)) : e = Holding(g)[i]
      BY <3>2, <3>3, <3>4
    <3>. QED
      BY <3>1, <3>5, <3>6
  <2>2. Base' = Base + n /\ fate' = fate
    BY <1>1, <1>2
  <2>. QED
    BY ONLY <2>1, <2>2 DEF PendingInv
<1>11. PostedInOrder'
  BY <1>2 DEF IInv, PostedInOrder
<1>. QED
  BY <1>12, <1>7, <1>8, <1>9, <1>10, <1>11 DEF IInv

\* A batch is settled.
LEMMA SettleStep ==
    ASSUME IInv, NEW f \in Flushers, NEW what \in {"stored", "refused", "lost"},
           flush[f].pc \in Posting, fate' = Mark(Range(Holding(f)), what), q' = q,
           Holding(f)' = <<>>, \A g \in Flushers \ {f} : Holding(g)' = Holding(g),
           TypeOK', StartInv', FlightInv'
    PROVE  IInv'
<1>1. /\ fate' \in Seq(Fates) /\ Len(fate') = Len(fate) /\ Len(fate) \in Nat
      /\ Events = 1..Len(fate) /\ Events' = 1..Len(fate)
      /\ \A e \in 1..Len(fate) :
           fate'[e] = IF \E i \in 1..Len(Holding(f)) : e = Holding(f)[i] THEN what ELSE fate[e]
  <2>1. /\ fate' \in Seq(Fates) /\ Len(fate') = Len(fate)
        /\ \A e \in 1..Len(fate) : fate'[e] = IF e \in Range(Holding(f)) THEN what ELSE fate[e]
    BY MarkIs DEF IInv, Fates
  <2>2. Range(Holding(f)) = {Holding(f)[i] : i \in 1..Len(Holding(f))}
    BY HeldRange DEF IInv
  <2>3. Events = 1..Len(fate) /\ Events' = 1..Len(fate) /\ Len(fate) \in Nat
    BY <2>1 DEF IInv, TypeOK, Events
  <2>. QED
    BY <2>1, <2>2, <2>3
<1>2. Base' = Base /\ Base \in Nat
  BY <1>1 DEF Base, IInv, QueueInv
<1>3. \A g \in Flushers \ {f} : Holding(g) = <<>>
  BY DEF IInv, FlightInv, InFlight, Posting
<1>4. QueueInv'
  BY <1>2 DEF IInv, QueueInv
<1>5. BatchInv'
  <2>1. \A g \in Flushers : Holding(g)' = <<>>
    BY <1>3
  <2>. QED
    BY <2>1, QueueAssumption DEF BatchInv
<1>6. PendingInv'
  BY <1>1, <1>2, <1>3 DEF IInv, PendingInv, BatchInv
<1>7. PostedInOrder'
  <2>1. ASSUME NEW d \in 1..Len(fate), NEW e \in 1..Len(fate), d < e, fate'[e] \in {"stored", "refused", "lost"},
               fate'[d] = "pending"
        PROVE  FALSE
    <3>1. fate[d] = "pending" /\ ~\E i \in 1..Len(Holding(f)) : d = Holding(f)[i]
      BY <1>1, <2>1
    <3>2. d > Base
      BY <3>1, <1>3 DEF IInv, PendingInv
    <3>3. CASE \E i \in 1..Len(Holding(f)) : e = Holding(f)[i]
      BY <3>2, <3>3, <2>1, <1>2 DEF IInv, BatchInv
    <3>4. CASE ~\E i \in 1..Len(Holding(f)) : e = Holding(f)[i]
      BY <3>1, <3>4, <2>1, <1>1 DEF IInv, PostedInOrder
    <3>. QED
      BY <3>3, <3>4
  <2>. QED
    BY <2>1, <1>1 DEF PostedInOrder
<1>. QED
  BY <1>4, <1>5, <1>6, <1>7 DEF IInv

\* A flusher whose batch is settled goes back for the next.
LEMMA MovedOn ==
    ASSUME IInv, NEW f \in Flushers, flush[f].pc \in Posting, flush'[f].pc = "lock", flush'[f].batch = <<>>,
           \A g \in Flushers \ {f} : flush'[g] = flush[g], UNCHANGED <<thread, stopped, inflight>>
    PROVE  StartInv' /\ FlightInv' /\ Holding(f)' = <<>> /\ \A g \in Flushers \ {f} : Holding(g)' = Holding(g)
<1>1. Holding(f)' = <<>> /\ \A g \in Flushers \ {f} : Holding(g)' = Holding(g)
  BY DEF Holding
<1>2. inflight = f /\ flush[f].pc # "off" /\ Daemon \in Flushers
  BY DEF IInv, FlightInv, InFlight, Posting, Flushers
<1>3. StartInv'
  BY <1>2 DEF IInv, StartInv
<1>4. ASSUME NEW g \in Flushers
      PROVE  /\ flush'[g].pc \in InFlight => inflight' = g
             /\ Holding(g)' # <<>> => flush'[g].pc \in Posting
  BY <1>1, <1>2 DEF IInv, FlightInv
<1>. QED
  BY <1>1, <1>3, <1>4 DEF FlightInv

\* The end of a post, answered or not.
LEMMA PostStep ==
    ASSUME IInv, NEW f \in Flushers, Answered(f) \/ Count(f)
    PROVE  IInv'
<1>1. ASSUME NEW what \in {"stored", "refused", "lost"} PROVE
      Mark(Range(Holding(f)), what) \in Seq(Fates) /\ Len(Mark(Range(Holding(f)), what)) = Len(fate)
  BY MarkIs DEF IInv, Fates
<1>2. CASE Answered(f)
  <2>1. PICK what \in {"stored", "refused"} : fate' = Mark(Range(Holding(f)), what)
    BY <1>2 DEF Answered
  <2>2. /\ flush' \in [Flushers -> [pc : Steps, batch : Seq(Nat), read : Nat]]
        /\ flush'[f].pc = "lock" /\ flush'[f].batch = <<>> /\ \A g \in Flushers \ {f} : flush'[g] = flush[g]
    <3>1. "lock" \in Steps /\ <<>> \in Seq(Nat) /\ TypeOK
      BY DEF Steps, IInv
    <3>2. flush' = [At(f, "lock") EXCEPT ![f].batch = <<>>]
      BY <1>2 DEF Answered
    <3>. QED
      <4>1. /\ At(f, "lock") \in [Flushers -> [pc : Steps, batch : Seq(Nat), read : Nat]]
            /\ At(f, "lock")[f].pc = "lock" /\ \A g \in Flushers \ {f} : At(f, "lock")[g] = flush[g]
        BY <3>1, AtIs
      <4>. QED
        BY <4>1, <3>1, <3>2
  <2>3. TypeOK'
    BY <1>1, <1>2, <2>1, <2>2 DEF IInv, TypeOK, Answered, attributes
  <2>4. StartInv' /\ FlightInv' /\ Holding(f)' = <<>> /\ \A g \in Flushers \ {f} : Holding(g)' = Holding(g)
    BY <1>2, <2>2, MovedOn DEF Answered, attributes, Posting
  <2>. QED
    BY <1>2, <2>1, <2>3, <2>4, SettleStep DEF Answered, Posting
<1>3. CASE Count(f)
  <2>1. fate' = Mark(Range(Holding(f)), "lost")
    BY <1>3 DEF Count
  <2>2. dropped' \in Nat
    BY <1>3 DEF IInv, TypeOK, Count, Counted, Holding
  <2>3. /\ flush' \in [Flushers -> [pc : Steps, batch : Seq(Nat), read : Nat]]
        /\ flush'[f].pc = "lock" /\ flush'[f].batch = <<>> /\ \A g \in Flushers \ {f} : flush'[g] = flush[g]
    <3>1. flush' = [flush EXCEPT ![f] = [Off EXCEPT !.pc = "lock"]] /\ "lock" \in Steps
      BY <1>3 DEF Count, Steps
    <3>2. TypeOK
      BY DEF IInv
    <3>. QED
      BY <3>1, <3>2, OffIs
  <2>4. TypeOK'
    BY <1>1, <1>3, <2>1, <2>2, <2>3 DEF IInv, TypeOK, Count
  <2>5. StartInv' /\ FlightInv' /\ Holding(f)' = <<>> /\ \A g \in Flushers \ {f} : Holding(g)' = Holding(g)
    BY <1>3, <2>3, MovedOn DEF Count, Posting
  <2>. QED
    BY <1>3, <2>1, <2>4, <2>5, SettleStep DEF Count, Posting
<1>. QED
  BY <1>2, <1>3

\* The child of a fork has nothing to ship.
LEMMA ForkStep ==
    ASSUME IInv, Fork
    PROVE  IInv'
<1>1. /\ fate' \in Seq(Fates) /\ Len(fate') = Len(fate) /\ Len(fate) \in Nat
      /\ \A e \in 1..Len(fate) : fate'[e] = IF fate[e] = "pending" THEN "parent" ELSE fate[e]
      /\ Events = 1..Len(fate) /\ Events' = 1..Len(fate)
  <2>1. Events = 1..Len(fate) /\ fate' = Mark({e \in Events : fate[e] = "pending"}, "parent") /\ Len(fate) \in Nat
    BY DEF Fork, IInv, TypeOK, Events
  <2>. DEFINE es == {d \in Events : fate[d] = "pending"}
  <2>2. \A e \in 1..Len(fate) : e \in es <=> fate[e] = "pending"
    BY <2>1
  <2>3. fate' = Mark(es, "parent") /\ "parent" \in Fates /\ TypeOK
    BY <2>1 DEF Fates, IInv
  <2>. HIDE DEF es
  <2>4. /\ fate' \in Seq(Fates) /\ Len(fate') = Len(fate)
        /\ \A e \in 1..Len(fate) : fate'[e] = IF e \in es THEN "parent" ELSE fate[e]
    BY <2>3, MarkIs
  <2>5. Events' = 1..Len(fate')
    BY <2>4 DEF Events
  <2>. QED
    BY <2>1, <2>2, <2>4, <2>5
<1>2. /\ q' = <<>> /\ Len(q') = 0 /\ q' \in Seq(Nat) /\ Base' = Len(fate)
      /\ \A f \in Flushers : Holding(f)' = <<>> /\ flush'[f].pc = "off"
      /\ flush' \in [Flushers -> [pc : Steps, batch : Seq(Nat), read : Nat]]
  <2>1. q' = <<>> /\ flush' = [f \in Flushers |-> Off]
    BY DEF Fork, QueueInChild
  <2>2. Len(q') = 0 /\ q' \in Seq(Nat)
    BY <2>1
  <2>3. Base' = Len(fate)
    BY <2>2, <1>1 DEF Base
  <2>4. Off = [pc |-> "off", batch |-> <<>>, read |-> 0] /\ "off" \in Steps /\ <<>> \in Seq(Nat)
    BY DEF Off, Steps
  <2>5. Off \in [pc : Steps, batch : Seq(Nat), read : Nat] /\ Off.pc = "off" /\ Off.batch = <<>>
    BY <2>4
  <2>. QED
    BY <2>1, <2>2, <2>3, <2>5 DEF Holding
<1>3. TypeOK'
  <2>1. Len(q') <= MaxQueue /\ mishaps' \in Nat
    BY <1>2, QueueAssumption DEF IInv, TypeOK, Fork
  <2>2. /\ dropped' = dropped /\ drainable' = drainable /\ lock' = NoThread /\ inflight' = NoThread
        /\ wake' = FALSE /\ stopped' = FALSE /\ thread' = FALSE /\ full' = {}
    BY DEF Fork, LockInChild, InflightInChild
  <2>. QED
    BY <2>1, <2>2, <1>1, <1>2 DEF IInv, TypeOK
<1>4. QueueInv' /\ StartInv' /\ FlightInv' /\ BatchInv'
  BY <1>1, <1>2, QueueAssumption DEF QueueInv, StartInv, FlightInv, InFlight, BatchInv, Flushers
<1>5. PendingInv'
  BY <1>1, <1>2 DEF PendingInv
<1>6. PostedInOrder'
  BY <1>1 DEF IInv, PostedInOrder
<1>. QED
  BY <1>3, <1>4, <1>5, <1>6 DEF IInv

-----------------------------------------------------------------------------
(* The theorems. *)

\* The invariant holds in the initial state.
LEMMA Initially == Init => IInv
<1>. SUFFICES ASSUME Init PROVE IInv
  OBVIOUS
<1>1. Off = [pc |-> "off", batch |-> <<>>, read |-> 0] /\ "off" \in Steps /\ <<>> \in Seq(Nat)
  BY DEF Off, Steps
<1>2. Off \in [pc : Steps, batch : Seq(Nat), read : Nat] /\ Off.pc = "off" /\ Off.batch = <<>>
  BY <1>1
<1>3. /\ flush \in [Flushers -> [pc : Steps, batch : Seq(Nat), read : Nat]]
      /\ \A f \in Flushers : flush[f].pc = "off" /\ Holding(f) = <<>>
  BY <1>2 DEF Init, Holding
<1>4. q = <<>> /\ fate = <<>> /\ Len(q) = 0 /\ Len(fate) = 0 /\ fate \in Seq(Fates) /\ Base = 0 /\ Events = {}
  BY DEF Init, Base, Events
<1>5. TypeOK
  <2>1. Len(q) <= MaxQueue /\ drainable \in 0..Len(fate) /\ q \in Seq(Nat) /\ mishaps \in Nat /\ dropped \in Nat
    BY <1>4, QueueAssumption DEF Init
  <2>. QED
    BY <2>1, <1>3, <1>4 DEF Init, TypeOK
<1>6. StartInv /\ QueueInv /\ FlightInv /\ BatchInv
  BY <1>3, <1>4, QueueAssumption DEF StartInv, QueueInv, FlightInv, InFlight, BatchInv, Flushers
<1>7. PendingInv /\ PostedInOrder
  BY <1>4 DEF PendingInv, PostedInOrder
<1>. QED
  BY <1>5, <1>6, <1>7 DEF IInv

\* Every step keeps the invariant.
LEMMA NextStep == IInv /\ [Next]_vars => IInv'
<1>. SUFFICES ASSUME IInv, [Next]_vars PROVE IInv'
  OBVIOUS
<1>1. CASE \E p \in Pushers : Push(p) \/ PushThreadLimit(p) \/ SetWake(p)
  BY <1>1, PushStep, QuietSteps
<1>2. CASE DaemonWake \/ Drain \/ Stop
  BY <1>2, QuietSteps
<1>3. ASSUME NEW f \in Flushers, Flush(f) PROVE IInv'
  BY <1>3, QuietSteps, PopStep, PostStep DEF Flush
<1>4. CASE Fork
  BY <1>4, ForkStep
<1>5. CASE UNCHANGED vars
  <2>1. UNCHANGED <<q, dropped, wake, stopped, thread, lock, inflight, full, flush, mishaps, fate, drainable>>
    BY <1>5 DEF vars, attributes
  <2>2. TypeOK' /\ StartInv' /\ FlightInv' /\ \A f \in Flushers : Holding(f)' = Holding(f)
    BY <2>1 DEF IInv, TypeOK, StartInv, FlightInv, Holding
  <2>. QED
    BY <2>1, <2>2, QuietStep
<1>. QED
  BY <1>1, <1>2, <1>3, <1>4, <1>5 DEF Next

\* What the process has yet to get rid of is each pending event once, oldest first.
LEMMA HeldIsPending == IInv => EachEventOnce
<1>. SUFFICES ASSUME IInv PROVE EachEventOnce
  OBVIOUS
<1>. DEFINE D == Holding(Daemon)
            X == Holding(Exit)
<1>1. /\ Daemon \in Flushers /\ Exit \in Flushers /\ Flushers = {Daemon, Exit} /\ Daemon # Exit
      /\ D \in Seq(Nat) /\ X \in Seq(Nat) /\ q \in Seq(Nat) /\ Base \in Nat /\ Len(fate) \in Nat
      /\ Len(fate) = Base + Len(q) /\ Events = 1..Len(fate)
  <2>1. Daemon \in Flushers /\ Exit \in Flushers /\ Flushers = {Daemon, Exit} /\ Daemon # Exit
    BY QueueAssumption DEF Flushers
  <2>2. q \in Seq(Nat) /\ Base \in Nat /\ fate \in Seq(Fates) /\ Base = Len(fate) - Len(q)
    BY DEF IInv, TypeOK, QueueInv, Base
  <2>3. D \in Seq(Nat) /\ X \in Seq(Nat)
    BY <2>1, HeldRange DEF IInv
  <2>4. Events = 1..Len(fate) /\ Len(fate) \in Nat /\ Len(q) \in Nat
    BY <2>2 DEF Events
  <2>. QED
    BY <2>1, <2>2, <2>3, <2>4
<1>2. D = <<>> \/ X = <<>>
  BY <1>1 DEF IInv, FlightInv, InFlight, Posting
<1>. DEFINE k == Len(D) + Len(X)
            b == D \o X
<1>3. b \in Seq(Nat) /\ Len(b) = k /\ k \in Nat /\ (b = D \/ b = X)
  <2>1. CASE D = <<>>
    <3>1. b = X /\ Len(D) = 0
      BY <2>1, <1>1
    <3>. QED
      BY <3>1, <1>1
  <2>2. CASE X = <<>>
    <3>1. b = D /\ Len(X) = 0
      BY <2>2, <1>1
    <3>. QED
      BY <3>1, <1>1
  <2>. QED
    BY <2>1, <2>2, <1>2
<1>4. /\ \A i \in 1..k : b[i] \in 1..Base /\ b[i] = b[1] + i - 1
      /\ \A i \in 1..Len(q) : q[i] = Base + i
  BY <1>1, <1>3 DEF IInv, BatchInv, QueueInv
<1>5. \A e \in 1..Len(fate) : fate[e] = "pending" <=> (e > Base \/ \E i \in 1..k : e = b[i])
  <2>1. ASSUME NEW e \in 1..Len(fate)
        PROVE  (\E f \in Flushers : \E i \in 1..Len(Holding(f)) : e = Holding(f)[i]) <=> \E i \in 1..k : e = b[i]
    <3>1. CASE D = <<>>
      <4>1. b = X /\ Len(X) = k /\ Len(D) = 0
        BY <3>1, <1>1
      <4>. QED
        BY <4>1, <1>1
    <3>2. CASE X = <<>>
      <4>1. b = D /\ Len(D) = k /\ Len(X) = 0
        BY <3>2, <1>1
      <4>. QED
        BY <4>1, <1>1
    <3>. QED
      BY <3>1, <3>2, <1>2
  <2>. QED
    BY <2>1 DEF IInv, PendingInv
<1>6. Held = b \o q
  BY DEF Held
<1>. HIDE DEF D, X, b, k
<1>7. /\ Held \in Seq(Nat) /\ DOMAIN Held = 1..(k + Len(q))
      /\ \A i \in 1..k : Held[i] = b[i]
      /\ \A i \in 1..Len(q) : Held[k + i] = q[i]
  <2>1. Held \in Seq(Nat) /\ Len(Held) = k + Len(q) /\ DOMAIN Held = 1..(k + Len(q))
    <3>1. b \in Seq(Nat) /\ q \in Seq(Nat)
      BY <1>1, <1>3
    <3>2. b \o q \in Seq(Nat) /\ Len(b \o q) = Len(b) + Len(q)
      BY <3>1, ConcatProperties
    <3>3. DOMAIN (b \o q) = 1..Len(b \o q)
      BY <3>2
    <3>. QED
      BY <3>2, <3>3, <1>3, <1>6
  <2>2. \A i \in 1..k : Held[i] = b[i]
    BY <1>1, <1>3, <1>6
  <2>3. ASSUME NEW i \in 1..Len(q) PROVE Held[k + i] = q[i]
    <3>1. k + i \in 1..(Len(b) + Len(q)) /\ k + i > Len(b) /\ k + i - Len(b) = i
      BY <1>1, <1>3
    <3>. QED
      BY <3>1, <1>1, <1>3, <1>6
  <2>. QED
    BY <2>1, <2>2, <2>3
<1>8. ASSUME NEW i \in 1..(k + Len(q)) PROVE i \in 1..k \/ (i - k \in 1..Len(q) /\ Held[i] = Base + (i - k))
  <2>1. CASE i > k
    <3>1. i - k \in 1..Len(q) /\ k + (i - k) = i
      BY <2>1, <1>1, <1>3
    <3>. QED
      BY <3>1, <1>4, <1>7
  <2>. QED
    BY <2>1, <1>3
<1>9. ASSUME NEW i \in DOMAIN Held, NEW j \in DOMAIN Held, i < j PROVE Held[i] < Held[j]
  <2>1. CASE j \in 1..k
    <3>1. i \in 1..k /\ 1 \in 1..k
      BY <2>1, <1>1, <1>3, <1>7, <1>9
    <3>2. Held[i] = b[1] + i - 1 /\ Held[j] = b[1] + j - 1 /\ b[1] \in Nat
      BY <3>1, <2>1, <1>1, <1>4, <1>7
    <3>. QED
      BY <3>1, <3>2, <2>1, <1>3, <1>9
  <2>2. CASE j \notin 1..k /\ i \in 1..k
    <3>1. Held[i] \in 1..Base
      BY <2>2, <1>4, <1>7
    <3>2. j - k \in 1..Len(q) /\ Held[j] = Base + (j - k)
      BY <2>2, <1>7, <1>8
    <3>. QED
      BY <3>1, <3>2, <1>1
  <2>3. CASE i \notin 1..k
    BY <2>3, <1>1, <1>3, <1>7, <1>8, <1>9
  <2>. QED
    BY <2>1, <2>2, <2>3
<1>10. Range(Held) = Pending
  <2>1. ASSUME NEW i \in DOMAIN Held PROVE Held[i] \in Pending
    <3>1. CASE i \in 1..k
      <4>1. Held[i] = b[i] /\ Held[i] \in 1..Base /\ Held[i] \in 1..Len(fate)
        BY <3>1, <1>1, <1>4, <1>7
      <4>. QED
        BY <4>1, <3>1, <1>1, <1>5 DEF Pending
    <3>2. CASE i \notin 1..k
      BY <3>2, <1>1, <1>3, <1>5, <1>7, <1>8 DEF Pending
    <3>. QED
      BY <3>1, <3>2
  <2>2. ASSUME NEW e \in Pending PROVE \E i \in DOMAIN Held : Held[i] = e
    <3>1. e \in 1..Len(fate) /\ fate[e] = "pending"
      BY <1>1 DEF Pending
    <3>2. CASE e > Base
      <4>1. e - Base \in 1..Len(q) /\ k + (e - Base) \in DOMAIN Held /\ Base + (e - Base) = e
        BY <3>1, <3>2, <1>1, <1>3, <1>7
      <4>2. Held[k + (e - Base)] = e
        BY <4>1, <1>4, <1>7
      <4>. QED
        BY <4>1, <4>2
    <3>3. CASE ~(e > Base)
      <4>1. PICK i \in 1..k : e = b[i]
        BY <3>1, <3>3, <1>5
      <4>2. i \in DOMAIN Held /\ Held[i] = e
        BY <4>1, <1>1, <1>3, <1>7
      <4>. QED
        BY <4>2
    <3>. QED
      BY <3>2, <3>3
  <2>. QED
    BY <2>1, <2>2 DEF Range
<1>. QED
  BY <1>9, <1>10 DEF EachEventOnce

\* What the ledger sees of a batch: the events pending that the queue no longer has.
OnTheirWay == {e \in Pending : e <= Base}

\* The ledger counts as the queue does.
LEMMA SameCardinality == \A S : EL!Cardinality(S) = Cardinality(S)
  BY DEF EL!Cardinality, Cardinality

\* The events pending are those on their way, no more than a slice, and those in the queue.
LEMMA Split ==
    ASSUME IInv
    PROVE  /\ OnTheirWay \in SUBSET Pending /\ EL!Pending = Pending /\ EL!Oldest(OnTheirWay)
           /\ Pending \ OnTheirWay = (Base + 1)..Len(fate) /\ Cardinality(Pending \ OnTheirWay) = Len(q)
           /\ \A f \in Flushers : flush[f].pc \in Posting => OnTheirWay = Range(Holding(f))
<1>1. /\ Base \in Nat /\ q \in Seq(Nat) /\ Len(q) \in Nat /\ Len(fate) \in Nat /\ Len(fate) = Base + Len(q)
      /\ Events = 1..Len(fate) /\ DOMAIN fate = 1..Len(fate)
  <2>1. q \in Seq(Nat) /\ Base \in Nat /\ fate \in Seq(Fates) /\ Base = Len(fate) - Len(q)
    BY DEF IInv, TypeOK, QueueInv, Base
  <2>. QED
    BY <2>1 DEF Events
<1>2. Pending = {e \in 1..Len(fate) : fate[e] = "pending"} /\ EL!Pending = Pending
  BY <1>1 DEF Pending, EL!Pending
<1>3. Pending \ OnTheirWay = (Base + 1)..Len(fate)
  BY <1>1, <1>2 DEF OnTheirWay, IInv, PendingInv
<1>4. Cardinality(Pending \ OnTheirWay) = Len(q)
  <2>1. Cardinality((Base + 1)..Len(fate)) = IF Base + 1 > Len(fate) THEN 0 ELSE Len(fate) - (Base + 1) + 1
    <3>1. Base + 1 \in Int /\ Len(fate) \in Int
      BY <1>1
    <3>. QED
      BY <3>1, FS_Interval
  <2>2. (IF Base + 1 > Len(fate) THEN 0 ELSE Len(fate) - (Base + 1) + 1) = Len(q)
    BY <1>1
  <2>. QED
    BY <2>1, <2>2, <1>3, Zenon
<1>5. \A e \in 1..Len(fate) : e \in OnTheirWay <=> \E f \in Flushers : \E i \in 1..Len(Holding(f)) : e = Holding(f)[i]
  BY <1>1, <1>2 DEF OnTheirWay, IInv, PendingInv, BatchInv
<1>6. ASSUME NEW f \in Flushers, flush[f].pc \in Posting
      PROVE  OnTheirWay = Range(Holding(f)) /\ Cardinality(OnTheirWay) <= Slice
  <2>1. \A g \in Flushers \ {f} : Holding(g) = <<>>
    BY <1>6 DEF IInv, FlightInv, InFlight, Posting
  <2>2. Len(Holding(f)) \in Nat /\ Range(Holding(f)) = {Holding(f)[i] : i \in 1..Len(Holding(f))}
    BY HeldRange DEF IInv
  <2>3. \A i \in 1..Len(Holding(f)) : Holding(f)[i] \in 1..Base /\ Holding(f)[i] = Holding(f)[1] + i - 1
    BY DEF IInv, BatchInv
  <2>4. OnTheirWay = Range(Holding(f))
    <3>1. ASSUME NEW e \in OnTheirWay PROVE e \in Range(Holding(f))
      BY <3>1, <1>2, <1>5, <2>1, <2>2 DEF OnTheirWay
    <3>2. ASSUME NEW e \in Range(Holding(f)) PROVE e \in OnTheirWay
      <4>1. PICK i \in 1..Len(Holding(f)) : e = Holding(f)[i]
        BY <3>2, <2>2
      <4>2. e \in 1..Len(fate)
        BY <4>1, <1>1, <2>3
      <4>. QED
        BY <4>1, <4>2, <1>5
    <3>. QED
      BY <3>1, <3>2
  <2>5. CASE Len(Holding(f)) = 0
    <3>1. OnTheirWay = {}
      BY <2>2, <2>4, <2>5
    <3>. QED
      BY <3>1, <2>4, FS_EmptySet, QueueAssumption
  <2>6. CASE Len(Holding(f)) # 0
    <3>. DEFINE a == Holding(f)[1]
                n == Len(Holding(f))
    <3>1. a \in Nat /\ n \in Nat \ {0} /\ n <= Slice
      BY <2>2, <2>3, <2>6 DEF IInv, BatchInv
    <3>. DEFINE z == a + n - 1
    <3>2. OnTheirWay = a..z
      <4>1. ASSUME NEW e \in a..z PROVE e \in OnTheirWay
        <5>1. e - a + 1 \in 1..n /\ a + (e - a + 1) - 1 = e
          BY <3>1
        <5>. QED
          BY <5>1, <2>2, <2>3, <2>4
      <4>2. ASSUME NEW e \in OnTheirWay PROVE e \in a..z
        <5>1. PICK i \in 1..n : e = Holding(f)[i]
          BY <2>2, <2>4
        <5>. QED
          BY <5>1, <2>3, <3>1
      <4>. QED
        BY <4>1, <4>2
    <3>3. a \in Int /\ z \in Int /\ a <= z /\ z - a + 1 <= Slice
      BY <3>1, QueueAssumption
    <3>. HIDE DEF a, z, n
    <3>4. Cardinality(a..z) = IF a > z THEN 0 ELSE z - a + 1
      BY <3>3, FS_Interval
    <3>5. Cardinality(a..z) <= Slice
      BY <3>3, <3>4
    <3>6. Cardinality(OnTheirWay) <= Slice
      BY <3>2, <3>5, Zenon
    <3>. QED
      BY <3>6, <2>4
  <2>. QED
    BY <2>2, <2>4, <2>5, <2>6
<1>7. Cardinality(OnTheirWay) <= Slice
  <2>1. CASE \E f \in Flushers : flush[f].pc \in Posting
    BY <2>1, <1>6
  <2>2. CASE ~\E f \in Flushers : flush[f].pc \in Posting
    <3>1. \A f \in Flushers : Holding(f) = <<>>
      BY <2>2 DEF IInv, FlightInv
    <3>2. OnTheirWay = {}
      BY <3>1, <1>2, <1>5 DEF OnTheirWay
    <3>. QED
      BY <3>2, FS_EmptySet, QueueAssumption
  <2>. QED
    BY <2>1, <2>2
<1>8. EL!Oldest(OnTheirWay)
  <2>1. ASSUME NEW e \in OnTheirWay, NEW d \in EL!Pending \ OnTheirWay PROVE e < d
    BY <1>1, <1>2 DEF OnTheirWay
  <2>. QED
    BY <2>1, <1>2, <1>7, SameCardinality DEF EL!Oldest
<1>. QED
  BY <1>2, <1>3, <1>4, <1>6, <1>8 DEF OnTheirWay

\* Each step is one of the ledger, or none.
LEMMA LedgerStep ==
    ASSUME IInv, [Next]_vars
    PROVE  [EL!Next]_fate
<1>0. \A es, what : EL!Settled(es, what) = Mark(es, what)
  BY DEF EL!Settled, Mark, Events
<1>1. ASSUME NEW p \in Pushers, Push(p) \/ PushThreadLimit(p) PROVE EL!Next
  <2>1. Enqueue
    BY <1>1 DEF Push, PushThreadLimit
  <2>2. /\ q \in Seq(Nat) /\ Base \in Nat /\ Len(fate) \in Nat /\ Len(q) \in Nat /\ Len(q) <= MaxQueue
        /\ \A i \in 1..Len(q) : q[i] = Base + i /\ Len(fate) = Base + Len(q)
    BY DEF IInv, TypeOK, QueueInv, Base
  <2>3. CASE IsFull
    <3>1. Len(q) = MaxQueue /\ Head(q) = Base + 1 /\ Base + 1 \in (Base + 1)..Len(fate)
      BY <2>2, <2>3, QueueAssumption DEF IsFull
    <3>2. fate' = Append(EL!Settled({Base + 1}, "evicted"), "pending")
      BY <2>1, <2>3, <3>1, <1>0 DEF Enqueue, Evict
    <3>3. EL!PushOver
      <4>. DEFINE es == OnTheirWay
      <4>1. /\ es \in SUBSET EL!Pending /\ EL!Oldest(es) /\ Cardinality(EL!Pending \ es) = MaxQueue
            /\ EL!Pending \ es = (Base + 1)..Len(fate)
        BY <3>1, Split
      <4>. HIDE DEF es
      <4>2. Base + 1 \in EL!Pending \ es /\ \A d \in EL!Pending \ es : Base + 1 <= d
        BY <4>1, <3>1, <2>2
      <4>. QED
        BY <4>1, <4>2, <3>2, SameCardinality DEF EL!PushOver
    <3>. QED
      BY <3>3 DEF EL!Next
  <2>4. CASE ~IsFull
    <3>1. Len(q) < MaxQueue /\ fate' = Append(fate, "pending")
      BY <2>1, <2>2, <2>4, QueueAssumption DEF IsFull, Enqueue
    <3>2. EL!Push
      <4>. DEFINE es == OnTheirWay
      <4>1. es \in SUBSET EL!Pending /\ EL!Oldest(es) /\ Cardinality(EL!Pending \ es) < MaxQueue
        BY <3>1, Split
      <4>. HIDE DEF es
      <4>. QED
        BY <4>1, <3>1, SameCardinality DEF EL!Push
    <3>. QED
      BY <3>2 DEF EL!Next
  <2>. QED
    BY <2>3, <2>4
<1>2. ASSUME NEW f \in Flushers, Answered(f) \/ Count(f) PROVE EL!Next
  <2>1. flush[f].pc \in Posting /\ \E what \in {"stored", "refused", "lost"} : fate' = Mark(Range(Holding(f)), what)
    BY <1>2 DEF Answered, Count, Posting
  <2>2. EL!Ship
    BY <2>1, <1>0, Split DEF EL!Ship
  <2>. QED
    BY <2>2 DEF EL!Next
<1>3. CASE Fork
  <2>1. fate' = EL!Settled(EL!Pending, "parent")
    BY <1>3, <1>0, Split DEF Fork, Pending
  <2>. QED
    BY <2>1 DEF EL!Next, EL!Disown
<1>4. ASSUME \/ \E p \in Pushers : SetWake(p)
             \/ DaemonWake \/ Drain \/ Stop
             \/ \E f \in Flushers : Enter(f) \/ TakeLock(f) \/ Pop(f) \/ Unanswered(f) \/ Leave(f)
             \/ UNCHANGED vars
      PROVE  UNCHANGED fate
  BY <1>4 DEF SetWake, DaemonWake, Drain, Stop, Enter, TakeLock, Pop, Unanswered, Leave, vars
<1>. QED
  BY <1>1, <1>2, <1>3, <1>4 DEF Next, Flush

\* The invariant is one of every state of the queue.
THEOREM QueueInvariant == Spec => []IInv
  BY Initially, NextStep, PTL DEF Spec

\* Every variable keeps its type, and the queue its size: it never holds more than max_queue events.
THEOREM TypesHold == Spec => []TypeOK
  BY QueueInvariant, PTL DEF IInv

\* Whoever flushes, and wherever the process forks, no event overtakes an older one.
THEOREM LeavesInOrder == Spec => []PostedInOrder
  BY QueueInvariant, PTL DEF IInv
\* No event vanishes and none is in two places, whoever flushes and wherever the process forks.
THEOREM NoneLostNoneTwice == Spec => []EachEventOnce
  BY QueueInvariant, HeldIsPending, PTL
\* The queue implements the ledger of EventLedger: threads, locks and forks add no fate to those an
\* event can have, and let none leave out of turn.
THEOREM ImplementsLedger == Spec => KeepsLedger
<1>1. Init => EL!Init
  BY DEF Init, EL!Init
<1>. QED
  BY <1>1, QueueInvariant, LedgerStep, PTL DEF Spec, KeepsLedger, EL!Spec

-----------------------------------------------------------------------------
(* More from IInv: what the counter says, who wakes the flush thread, what *)
(* the exit drain settles.                                                 *)

\* The events the counter is about.
Gone == {e \in Events : fate[e] \in {"evicted", "lost"}}

\* Whoever holds _inflight is in the middle of a flush.
HolderInv == inflight # NoThread => inflight \in Flushers /\ flush[inflight].pc \in InFlight

\* The exit drain leaves only when what was pushed before it is out.
DrainedInv == flush[Exit].pc = "leave" => \A e \in 1..drainable : fate[e] # "pending"

\* What a flush has read of the counter, and the counter, tell of events that are gone.
CountInv ==
    /\ dropped <= Cardinality(Gone)
    /\ \A f \in Flushers : flush[f].pc = "count" => flush[f].read <= Cardinality(Gone)

FInv == HolderInv /\ DrainedInv /\ CountInv /\ (MaxBatch > 0 => FullBatchWakes)

-----------------------------------------------------------------------------
(* What becomes of events, and where a flusher goes. *)

\* A fate is final: only what is pending gets another one.
LEMMA FatesAreFinal ==
    ASSUME IInv, [Next]_vars
    PROVE  /\ Len(fate) \in Nat /\ Len(fate') \in Nat /\ Len(fate) <= Len(fate')
           /\ Events = 1..Len(fate) /\ Events' = 1..Len(fate')
           /\ \A e \in 1..Len(fate) : fate[e] # "pending" => fate'[e] = fate[e]
<1>. DEFINE Kept(fs) == /\ fs \in Seq(Fates) /\ Len(fate) <= Len(fs)
                        /\ \A e \in 1..Len(fate) : fate[e] # "pending" => fs[e] = fate[e]
<1>0. /\ TypeOK /\ QueueInv /\ fate \in Seq(Fates) /\ Len(fate) \in Nat /\ Base \in Nat /\ q \in Seq(Nat)
      /\ Base = Len(fate) - Len(q)
  BY DEF IInv, TypeOK, QueueInv, Base
<1>1. ASSUME NEW p \in Pushers, Push(p) \/ PushThreadLimit(p) PROVE Kept(fate')
  <2>1. Enqueue
    BY <1>1 DEF Push, PushThreadLimit
  <2>2. /\ fate' \in Seq(Fates) /\ Len(fate') = Len(fate) + 1
        /\ \A e \in 1..Len(fate) : fate'[e] = IF IsFull /\ e = Base + 1 THEN "evicted" ELSE fate[e]
    BY <1>0, <2>1, EnqueueIs
  <2>3. \A e \in 1..Len(fate) : e = Base + 1 => fate[e] = "pending"
    BY <1>0 DEF IInv, PendingInv
  <2>. QED
    BY <1>0, <2>2, <2>3
<1>2. ASSUME NEW f \in Flushers, Answered(f) \/ Count(f) PROVE Kept(fate')
  <2>1. PICK what \in Fates : fate' = Mark(Range(Holding(f)), what)
    BY <1>2 DEF Answered, Count, Fates
  <2>2. \A e \in 1..Len(fate) : e \in Range(Holding(f)) => fate[e] = "pending"
    BY <1>0, HeldRange DEF IInv, PendingInv
  <2>. QED
    BY <1>0, <2>1, <2>2, MarkIs
<1>3. ASSUME Fork PROVE Kept(fate')
  <2>. DEFINE es == {e \in Events : fate[e] = "pending"}
  <2>1. fate' = Mark(es, "parent") /\ "parent" \in Fates
    BY <1>3 DEF Fork, Fates
  <2>2. \A e \in 1..Len(fate) : e \in es => fate[e] = "pending"
    OBVIOUS
  <2>. HIDE DEF es
  <2>. QED
    BY <1>0, <2>1, <2>2, MarkIs
<1>4. ASSUME \/ \E p \in Pushers : SetWake(p)
             \/ DaemonWake \/ Drain \/ Stop
             \/ \E f \in Flushers : Enter(f) \/ TakeLock(f) \/ Pop(f) \/ Unanswered(f) \/ Leave(f)
             \/ UNCHANGED vars
      PROVE  Kept(fate')
  <2>1. fate' = fate
    BY <1>4 DEF SetWake, DaemonWake, Drain, Stop, Enter, TakeLock, Pop, Unanswered, Leave, vars
  <2>. QED
    BY <1>0, <2>1
<1>. HIDE DEF Kept
<1>5. Kept(fate')
  BY <1>1, <1>2, <1>3, <1>4 DEF Next, Flush
<1>. QED
  BY <1>0, <1>5 DEF Events, Kept

\* The events that are gone are a finite set, that only grows.
LEMMA GoneGrows ==
    ASSUME IInv, [Next]_vars
    PROVE  /\ IsFiniteSet(Gone) /\ IsFiniteSet(Gone') /\ Gone \subseteq Gone'
           /\ Cardinality(Gone) \in Nat /\ Cardinality(Gone') \in Nat /\ Cardinality(Gone) <= Cardinality(Gone')
<1>1. /\ Len(fate) \in Nat /\ Len(fate') \in Nat /\ Len(fate) <= Len(fate')
      /\ Events = 1..Len(fate) /\ Events' = 1..Len(fate')
      /\ \A e \in 1..Len(fate) : fate[e] # "pending" => fate'[e] = fate[e]
  BY FatesAreFinal
<1>2. Gone \subseteq Gone'
  BY <1>1 DEF Gone
<1>3. IsFiniteSet(Events')
  BY <1>1, FS_Interval
<1>4. IsFiniteSet(Gone')
  BY <1>3, FS_Subset DEF Gone
<1>. QED
  BY <1>2, <1>4, FS_Subset, FS_CardinalityType

\* The batch of a flusher is as many pending events as it is long.
LEMMA BatchIsPending ==
    ASSUME IInv, NEW f \in Flushers
    PROVE  /\ IsFiniteSet(Range(Holding(f))) /\ Cardinality(Range(Holding(f))) = Len(Holding(f))
           /\ \A e \in Range(Holding(f)) : e \in 1..Len(fate) /\ fate[e] = "pending"
<1>. DEFINE n == Len(Holding(f))
<1>1. /\ n \in Nat /\ Range(Holding(f)) = {Holding(f)[i] : i \in 1..n}
      /\ \A i \in 1..n : Holding(f)[i] \in 1..Base /\ Holding(f)[i] = Holding(f)[1] + i - 1
  BY HeldRange DEF IInv, BatchInv
<1>2. Base \in Nat /\ Len(fate) \in Nat /\ Len(q) \in Nat /\ Base = Len(fate) - Len(q)
  BY DEF IInv, TypeOK, QueueInv, Base
<1>3. ASSUME NEW e \in Range(Holding(f)) PROVE e \in 1..Len(fate) /\ fate[e] = "pending"
  <2>1. PICK i \in 1..n : e = Holding(f)[i]
    BY <1>1
  <2>2. e \in 1..Len(fate)
    BY <2>1, <1>1, <1>2
  <2>. QED
    BY <2>1, <2>2 DEF IInv, PendingInv
<1>4. CASE n = 0
  <2>1. Range(Holding(f)) = {}
    BY <1>1, <1>4
  <2>. QED
    BY <2>1, <1>3, <1>4, FS_EmptySet
<1>5. CASE n # 0
  <2>. DEFINE a == Holding(f)[1]
              z == a + n - 1
  <2>1. a \in Nat /\ a \in Int /\ z \in Int /\ a <= z /\ z - a + 1 = n
    BY <1>1, <1>5
  <2>2. Range(Holding(f)) = a..z
    <3>1. ASSUME NEW e \in a..z PROVE e \in Range(Holding(f))
      <4>1. e - a + 1 \in 1..n /\ a + (e - a + 1) - 1 = e
        BY <2>1
      <4>. QED
        BY <4>1, <1>1
    <3>2. ASSUME NEW e \in Range(Holding(f)) PROVE e \in a..z
      <4>1. PICK i \in 1..n : e = Holding(f)[i]
        BY <1>1
      <4>2. e = a + i - 1 /\ i \in 1..n /\ n \in Nat
        BY <4>1, <1>1
      <4>3. a <= e /\ e <= z /\ e \in Int
        <5>. HIDE DEF a, n
        <5>. QED
          BY <4>2, <2>1
      <4>. QED
        BY <4>3, <2>1
    <3>. QED
      BY <3>1, <3>2
  <2>. HIDE DEF a, z, n
  <2>3. IsFiniteSet(a..z) /\ Cardinality(a..z) = IF a > z THEN 0 ELSE z - a + 1
    BY <2>1, FS_Interval
  <2>4. Cardinality(a..z) = n
    BY <2>1, <2>3
  <2>5. IsFiniteSet(Range(Holding(f))) /\ Cardinality(Range(Holding(f))) = n
    BY <2>2, <2>3, <2>4, Zenon
  <2>. QED
    BY <2>5, <1>3 DEF n
<1>. QED
  BY <1>4, <1>5

\* What stands of a flusher after a step of that flusher, of the other, of a push.
LEMMA Moves ==
    ASSUME IInv, NEW f \in Flushers
    PROVE  /\ \A s \in Steps : /\ At(f, s)[f].pc = s /\ At(f, s)[f].read = flush[f].read
                              /\ \A g \in Flushers \ {f} : At(f, s)[g] = flush[g]
           /\ \A s \in Steps : /\ [flush EXCEPT ![f] = [Off EXCEPT !.pc = s]][f].pc = s
                              /\ \A g \in Flushers \ {f} : [flush EXCEPT ![f] = [Off EXCEPT !.pc = s]][g] = flush[g]
<1>1. TypeOK /\ flush \in [Flushers -> [pc : Steps, batch : Seq(Nat), read : Nat]]
  BY DEF IInv, TypeOK
<1>2. ASSUME NEW s \in Steps PROVE At(f, s)[f].read = flush[f].read
  BY <1>1 DEF At
<1>. QED
  BY <1>1, <1>2, AtIs, OffIs

\* What a flusher does, in terms of where it is and where it goes.
LEMMA FlushMoves ==
    ASSUME IInv, NEW f \in Flushers, Flush(f)
    PROVE  /\ \A g \in Flushers \ {f} : flush'[g] = flush[g]
           /\ UNCHANGED <<wake, stopped, thread, full, drainable>>
           /\ \/ /\ flush[f].pc = "enter" /\ inflight = NoThread /\ inflight' = f /\ flush'[f].pc = "lock"
                 /\ UNCHANGED <<q, dropped, fate>>
              \/ /\ flush[f].pc = "enter" /\ inflight # NoThread /\ f # Exit /\ flush'[f].pc = Return(f)
                 /\ UNCHANGED <<q, dropped, fate, inflight>>
              \/ /\ flush[f].pc = "lock" /\ flush'[f].pc = "pop" /\ UNCHANGED <<q, dropped, fate, inflight>>
              \/ /\ flush[f].pc = "pop" /\ q = <<>> /\ flush'[f].pc = "leave" /\ q' = <<>>
                 /\ UNCHANGED <<dropped, fate, inflight>>
              \/ /\ flush[f].pc = "pop" /\ flush'[f].pc = "post" /\ UNCHANGED <<dropped, fate, inflight>>
              \/ /\ flush[f].pc = "post" /\ flush'[f].pc = "lock" /\ UNCHANGED <<q, dropped, inflight>>
              \/ /\ flush[f].pc = "post" /\ flush'[f].pc = "count" /\ flush'[f].read = dropped
                 /\ UNCHANGED <<q, dropped, fate, inflight>>
              \/ /\ flush[f].pc = "count" /\ flush'[f].pc = "lock" /\ UNCHANGED <<q, inflight>>
                 /\ dropped' = flush[f].read + Len(Holding(f)) /\ fate' = Mark(Range(Holding(f)), "lost")
              \/ /\ flush[f].pc = "leave" /\ flush'[f].pc = Return(f) /\ inflight' = NoThread
                 /\ UNCHANGED <<q, dropped, fate>>
<1>0. /\ Return(f) \in Steps /\ {"lock", "pop", "post", "count", "leave"} \subseteq Steps
      /\ TypeOK /\ flush \in [Flushers -> [pc : Steps, batch : Seq(Nat), read : Nat]]
  BY DEF IInv, TypeOK, Return, Steps
<1>1. CASE Enter(f)
  BY <1>0, <1>1, Moves DEF Enter, Free, Waits, attributes
<1>2. CASE TakeLock(f)
  BY <1>0, <1>2, Moves DEF TakeLock, attributes
<1>3. CASE Pop(f)
  <2>1. /\ UNCHANGED <<dropped, wake, stopped, thread, inflight, full, fate, drainable>>
        /\ flush[f].pc = "pop" /\ q' = SubSeq(q, BatchSize + 1, Len(q))
    BY <1>3 DEF Pop, attributes
  <2>2. CASE q = <<>>
    <3>1. flush' = At(f, "leave") /\ BatchSize = 0 /\ q' = <<>>
      BY <1>3, <2>1, <2>2, QueueAssumption DEF Pop, BatchSize
    <3>. QED
      BY <1>0, <2>1, <2>2, <3>1, Moves
  <2>3. CASE q # <<>>
    <3>. DEFINE b == SubSeq(q, 1, BatchSize)
                m == At(f, "post")
    <3>1. flush' = [m EXCEPT ![f].batch = b]
      BY <1>3, <2>3 DEF Pop
    <3>2. /\ m \in [Flushers -> [pc : Steps, batch : Seq(Nat), read : Nat]] /\ m[f].pc = "post"
          /\ \A g \in Flushers \ {f} : m[g] = flush[g]
      BY <1>0, AtIs
    <3>. HIDE DEF b, m
    <3>3. flush'[f].pc = "post" /\ \A g \in Flushers \ {f} : flush'[g] = flush[g]
      BY <3>1, <3>2
    <3>. QED
      BY <2>1, <3>3
  <2>. QED
    BY <2>2, <2>3
<1>4. CASE Answered(f)
  <2>1. UNCHANGED <<q, dropped, wake, stopped, thread, inflight, full, drainable>> /\ flush[f].pc = "post"
    BY <1>4 DEF Answered, attributes
  <2>. DEFINE m == At(f, "lock")
  <2>2. flush' = [m EXCEPT ![f].batch = <<>>]
    BY <1>4 DEF Answered
  <2>3. /\ m \in [Flushers -> [pc : Steps, batch : Seq(Nat), read : Nat]] /\ m[f].pc = "lock"
        /\ \A g \in Flushers \ {f} : m[g] = flush[g]
    BY <1>0, AtIs
  <2>. HIDE DEF m
  <2>4. flush'[f].pc = "lock" /\ \A g \in Flushers \ {f} : flush'[g] = flush[g]
    BY <2>2, <2>3
  <2>. QED
    BY <2>1, <2>4
<1>5. CASE Unanswered(f)
  <2>1. /\ UNCHANGED <<q, dropped, wake, stopped, thread, inflight, full, fate, drainable>>
        /\ flush[f].pc = "post" /\ dropped \in Nat
    BY <1>5, <1>0 DEF Unanswered, attributes, TypeOK
  <2>. DEFINE m == At(f, "count")
  <2>2. flush' = [m EXCEPT ![f].read = dropped]
    BY <1>5 DEF Unanswered
  <2>3. /\ m \in [Flushers -> [pc : Steps, batch : Seq(Nat), read : Nat]] /\ m[f].pc = "count"
        /\ \A g \in Flushers \ {f} : m[g] = flush[g]
    BY <1>0, AtIs
  <2>. HIDE DEF m
  <2>4. /\ flush'[f].pc = "count" /\ flush'[f].read = dropped
        /\ \A g \in Flushers \ {f} : flush'[g] = flush[g]
    BY <2>2, <2>3
  <2>. QED
    BY <2>1, <2>4
<1>6. CASE Count(f)
  BY <1>0, <1>6, Moves DEF Count, Counted
<1>7. CASE Leave(f)
  BY <1>0, <1>7, Moves DEF Leave, attributes
<1>. QED
  BY <1>1, <1>2, <1>3, <1>4, <1>5, <1>6, <1>7 DEF Flush

\* The other steps leave the flushers where they are, but for the daemon when it starts or wakes, the
\* exit thread when it starts, and both when the process forks.
LEMMA OtherMoves ==
    ASSUME IInv, [Next]_vars, ~\E f \in Flushers : Flush(f)
    PROVE  \/ /\ flush' = [f \in Flushers |-> Off] /\ inflight' = NoThread /\ Fork
           \/ /\ inflight' = inflight
              /\ \/ flush' = flush /\ drainable' = drainable
                 \/ /\ flush[Exit].pc = "off" /\ flush'[Exit].pc = "enter" /\ flush'[Daemon] = flush[Daemon]
                 \/ /\ flush[Daemon].pc \in {"off", "sleep"} /\ flush'[Daemon].pc \in {"off", "sleep", "enter"}
                    /\ flush'[Exit] = flush[Exit] /\ drainable' = drainable
<1>0. /\ {"sleep", "enter", "off"} \subseteq Steps /\ Daemon \in Flushers /\ Exit \in Flushers /\ Daemon # Exit
      /\ flush \in [Flushers -> [pc : Steps, batch : Seq(Nat), read : Nat]]
  BY QueueAssumption DEF Steps, Flushers, IInv, TypeOK
<1>1. ASSUME NEW p \in Pushers, Push(p)
      PROVE  /\ inflight' = inflight /\ drainable' = drainable
             /\ \/ flush' = flush
                \/ /\ flush[Daemon].pc = "off" /\ flush'[Daemon].pc = "sleep" /\ flush'[Exit] = flush[Exit]
  <2>1. inflight' = inflight /\ drainable' = drainable
    BY <1>1 DEF Push
  <2>2. CASE MustStart
    <3>1. flush' = [flush EXCEPT ![Daemon] = [Off EXCEPT !.pc = "sleep"]] /\ flush[Daemon].pc = "off"
      BY <1>1, <2>2 DEF Push, MustStart, IInv, StartInv
    <3>. QED
      BY <1>0, <2>1, <3>1, Moves
  <2>3. CASE ~MustStart
    BY <1>1, <2>1, <2>3 DEF Push
  <2>. QED
    BY <2>2, <2>3
<1>2. ASSUME (\E p \in Pushers : PushThreadLimit(p) \/ SetWake(p)) \/ Stop \/ UNCHANGED vars
      PROVE  flush' = flush /\ drainable' = drainable /\ inflight' = inflight
  BY <1>2 DEF PushThreadLimit, SetWake, Stop, vars
<1>3. ASSUME DaemonWake
      PROVE  /\ inflight' = inflight /\ drainable' = drainable /\ flush[Daemon].pc = "sleep"
             /\ flush'[Daemon].pc \in {"off", "enter"} /\ flush'[Exit] = flush[Exit]
  <2>. DEFINE s == IF stopped THEN "off" ELSE "enter"
  <2>1. flush' = At(Daemon, s) /\ inflight' = inflight /\ drainable' = drainable /\ flush[Daemon].pc = "sleep"
    BY <1>3 DEF DaemonWake
  <2>2. s \in {"off", "enter"}
    OBVIOUS
  <2>. HIDE DEF s
  <2>. QED
    BY <1>0, <2>1, <2>2, Moves
<1>4. ASSUME Drain
      PROVE  /\ inflight' = inflight /\ flush[Exit].pc = "off" /\ flush'[Exit].pc = "enter"
             /\ flush'[Daemon] = flush[Daemon]
  <2>1. flush' = At(Exit, "enter") /\ inflight' = inflight /\ flush[Exit].pc = "off"
    BY <1>4 DEF Drain
  <2>. QED
    BY <1>0, <2>1, Moves
<1>5. ASSUME Fork PROVE flush' = [f \in Flushers |-> Off] /\ inflight' = NoThread
  BY <1>5 DEF Fork, InflightInChild
<1>. QED
  BY <1>1, <1>2, <1>3, <1>4, <1>5 DEF Next

-----------------------------------------------------------------------------
(* Every step keeps FInv. *)

\* The counter, and what a flush has read of it, never exceed the events that are gone: what is
\* added is what goes in that step.
LEMMA CountStep ==
    ASSUME IInv, CountInv, [Next]_vars
    PROVE  CountInv'
<1>. DEFINE c == Cardinality(Gone)
            d == Cardinality(Gone')
<1>0. /\ c \in Nat /\ d \in Nat /\ c <= d /\ dropped \in Nat /\ dropped <= c
      /\ \A f \in Flushers : flush[f].pc = "count" => flush[f].read <= c
      /\ \A f \in Flushers : flush[f].read \in Nat
  BY GoneGrows DEF CountInv, IInv, TypeOK
<1>1. /\ IsFiniteSet(Gone) /\ IsFiniteSet(Gone') /\ Gone \subseteq Gone'
      /\ Len(fate) \in Nat /\ Len(fate') \in Nat /\ Len(fate) <= Len(fate')
      /\ Events = 1..Len(fate) /\ Events' = 1..Len(fate')
  BY GoneGrows, FatesAreFinal
<1>2. ASSUME NEW p \in Pushers, Push(p) \/ PushThreadLimit(p) PROVE dropped' <= d
  <2>1. Enqueue
    BY <1>2 DEF Push, PushThreadLimit
  <2>2. CASE ~IsFull
    BY <2>1, <2>2, <1>0 DEF Enqueue
  <2>3. CASE IsFull
    <3>1. dropped' = dropped + 1
      BY <2>1, <2>3 DEF Enqueue
    <3>2. /\ q \in Seq(Nat) /\ Len(q) \in Nat /\ Base \in Nat /\ Base = Len(fate) - Len(q) /\ Len(q) >= 1
      BY <2>3, QueueAssumption DEF IInv, TypeOK, QueueInv, Base, IsFull
    <3>3. Base + 1 \in 1..Len(fate) /\ fate[Base + 1] = "pending"
      BY <3>2 DEF IInv, PendingInv
    <3>4. fate'[Base + 1] = "evicted"
      BY <2>1, <2>3, <3>3, EnqueueIs DEF IInv
    <3>5. Base + 1 \in Gone' /\ Base + 1 \notin Gone
      BY <1>1, <3>3, <3>4 DEF Gone
    <3>. DEFINE e == Base + 1
    <3>. HIDE DEF e
    <3>6. e \in Gone' /\ e \notin Gone
      BY <3>5 DEF e
    <3>7. IsFiniteSet(Gone \cup {e}) /\ Cardinality(Gone \cup {e}) = c + 1
      BY <1>1, <3>6, FS_AddElement
    <3>8. Gone \cup {e} \subseteq Gone'
      BY <1>1, <3>6
    <3>9. c + 1 <= d
      BY <1>1, <3>7, <3>8, FS_Subset
    <3>. QED
      BY <1>0, <3>1, <3>9
  <2>. QED
    BY <2>2, <2>3
<1>3. ASSUME NEW f \in Flushers, flush[f].pc = "count", dropped' = flush[f].read + Len(Holding(f)),
             fate' = Mark(Range(Holding(f)), "lost")
      PROVE  dropped' <= d
  <2>. DEFINE b == Range(Holding(f))
              n == Len(Holding(f))
  <2>1. IsFiniteSet(b) /\ Cardinality(b) = n /\ n \in Nat /\ \A e \in b : e \in 1..Len(fate) /\ fate[e] = "pending"
    BY BatchIsPending, HeldRange DEF IInv
  <2>2. \A e \in b : e \in 1..Len(fate') /\ fate'[e] = "lost"
    BY <1>1, <1>3, <2>1, MarkIs DEF IInv, Fates
  <2>3. Gone \cap b = {} /\ b \subseteq Gone'
    BY <1>1, <2>1, <2>2 DEF Gone
  <2>. HIDE DEF b
  <2>4. IsFiniteSet(Gone \cup b) /\ Cardinality(Gone \cup b) = c + n
    <3>1. Cardinality(Gone \cap b) = 0
      BY <2>3, FS_EmptySet
    <3>2. /\ IsFiniteSet(Gone \cup b)
          /\ Cardinality(Gone \cup b) = Cardinality(Gone) + Cardinality(b) - Cardinality(Gone \cap b)
      BY <1>1, <2>1, FS_Union
    <3>. QED
      BY <3>1, <3>2, <2>1
  <2>5. Gone \cup b \subseteq Gone'
    BY <1>1, <2>3
  <2>6. Cardinality(Gone \cup b) <= d
    BY <1>1, <2>5, FS_Subset
  <2>7. flush[f].read <= c /\ flush[f].read \in Nat
    BY <1>0, <1>3
  <2>. HIDE DEF n, c, d
  <2>8. flush[f].read + n <= d
    BY <1>0, <2>1, <2>4, <2>6, <2>7
  <2>. QED
    BY <1>3, <2>8 DEF n
<1>. HIDE DEF c, d
<1>4. dropped' <= d
  <2>1. ASSUME NEW f \in Flushers, Flush(f) PROVE dropped' <= d
    <3>1. \/ dropped' = dropped
          \/ /\ flush[f].pc = "count" /\ dropped' = flush[f].read + Len(Holding(f))
             /\ fate' = Mark(Range(Holding(f)), "lost")
      BY <2>1, FlushMoves
    <3>. QED
      BY <3>1, <1>0, <1>3
  <2>2. ASSUME \/ \E p \in Pushers : SetWake(p)
               \/ DaemonWake \/ Drain \/ Stop \/ Fork \/ UNCHANGED vars
        PROVE  dropped' = dropped
    BY <2>2 DEF SetWake, DaemonWake, Drain, Stop, Fork, vars, attributes
  <2>. QED
    BY <1>0, <1>2, <2>1, <2>2 DEF Next
<1>5. ASSUME NEW g \in Flushers, flush'[g].pc = "count" PROVE flush'[g].read <= d
  <2>1. flush'[g] = flush[g] \/ flush'[g].read = dropped
    <3>1. CASE \E f \in Flushers : Flush(f)
      <4>1. PICK f \in Flushers : Flush(f)
        BY <3>1
      <4>2. CASE g # f
        BY <4>1, <4>2, FlushMoves
      <4>3. CASE g = f
        BY <4>1, <4>3, <1>5, FlushMoves DEF Return
      <4>. QED
        BY <4>2, <4>3
    <3>2. CASE ~\E f \in Flushers : Flush(f)
      BY <3>2, <1>5, OtherMoves DEF Off, Flushers
    <3>. QED
      BY <3>1, <3>2
  <2>. QED
    BY <2>1, <1>0, <1>5
<1>. QED
  BY <1>4, <1>5 DEF CountInv, d

\* Nobody but the flush in flight holds _inflight.
LEMMA HolderStep ==
    ASSUME IInv, HolderInv, [Next]_vars
    PROVE  HolderInv'
<1>0. Daemon \in Flushers /\ Exit \in Flushers /\ Daemon # Exit /\ Flushers = {Daemon, Exit} /\ NoThread \notin Flushers
  BY QueueAssumption DEF Flushers
<1>1. ASSUME NEW f \in Flushers, Flush(f) PROVE HolderInv'
  <2>1. /\ \A g \in Flushers \ {f} : flush'[g] = flush[g]
        /\ \/ inflight' = f /\ flush'[f].pc = "lock"
           \/ inflight' = NoThread
           \/ inflight' = inflight /\ flush'[f].pc \in InFlight
           \/ inflight' = inflight /\ flush[f].pc = "enter"
    BY <1>1, FlushMoves DEF InFlight
  <2>. QED
    BY <2>1, <1>0 DEF HolderInv, InFlight
<1>2. CASE ~\E f \in Flushers : Flush(f)
  BY <1>0, <1>2, OtherMoves DEF HolderInv, InFlight
<1>. QED
  BY <1>1, <1>2

\* The exit drain finds the queue empty with no other flush in flight, and what has left stays away.
LEMMA DrainedStep ==
    ASSUME IInv, DrainedInv, [Next]_vars
    PROVE  DrainedInv'
<1>0. /\ Daemon \in Flushers /\ Exit \in Flushers /\ Daemon # Exit /\ Flushers = {Daemon, Exit}
      /\ drainable \in 0..Len(fate) /\ q \in Seq(Nat) /\ Base = Len(fate) - Len(q)
  BY QueueAssumption DEF Flushers, IInv, TypeOK, Base
<1>1. /\ Len(fate) \in Nat /\ Len(fate') \in Nat /\ Len(fate) <= Len(fate')
      /\ \A e \in 1..Len(fate) : fate[e] # "pending" => fate'[e] = fate[e]
  BY FatesAreFinal
<1>2. ASSUME flush'[Exit].pc = "leave", drainable' = drainable, flush[Exit].pc = "leave"
      PROVE  \A e \in 1..drainable' : fate'[e] # "pending"
  BY <1>0, <1>1, <1>2 DEF DrainedInv
<1>3. ASSUME flush[Exit].pc = "pop", q = <<>>, fate' = fate, drainable' = drainable
      PROVE  \A e \in 1..drainable' : fate'[e] # "pending"
  <2>1. \A f \in Flushers : Holding(f) = <<>>
    BY <1>0, <1>3 DEF IInv, FlightInv, InFlight, Posting
  <2>2. Base = Len(fate)
    BY <1>0, <1>1, <1>3
  <2>3. \A e \in 1..Len(fate) : fate[e] # "pending"
    BY <1>1, <2>1, <2>2 DEF IInv, PendingInv
  <2>. QED
    BY <1>0, <1>1, <1>3, <2>3
<1>4. ASSUME flush'[Exit].pc = "leave" PROVE \A e \in 1..drainable' : fate'[e] # "pending"
  <2>1. CASE Flush(Exit)
    BY <1>0, <1>3, <1>4, <2>1, FlushMoves DEF Return
  <2>2. CASE Flush(Daemon)
    BY <1>0, <1>2, <1>4, <2>2, FlushMoves
  <2>3. CASE ~\E f \in Flushers : Flush(f)
    BY <1>0, <1>2, <1>4, <2>3, OtherMoves DEF Off
  <2>. QED
    BY <2>1, <2>2, <2>3, <1>0
<1>. QED
  BY <1>4 DEF DrainedInv

\* No step leaves a queue at max_batch to the interval.
LEMMA WakeStep ==
    ASSUME IInv, HolderInv, FullBatchWakes, MaxBatch > 0, [Next]_vars
    PROVE  FullBatchWakes'
<1>0. /\ Daemon \in Flushers /\ Exit \in Flushers /\ Daemon # Exit /\ Flushers = {Daemon, Exit}
      /\ MaxBatch \in Nat /\ \A f \in Flushers : Return(f) # "off" \/ f # Exit
  BY QueueAssumption DEF Flushers, Return
<1>1. CASE \E p \in Pushers : Push(p)
  <2>1. PICK p \in Pushers : Push(p)
    BY <1>1
  <2>2. CASE Len(q') >= MaxBatch
    BY <2>1, <2>2 DEF Push, BatchReady, FullBatchWakes
  <2>3. CASE ~(Len(q') >= MaxBatch)
    BY <2>3 DEF FullBatchWakes
  <2>. QED
    BY <2>2, <2>3
<1>2. CASE \E p \in Pushers : PushThreadLimit(p)
  BY <1>2 DEF PushThreadLimit, MustStart, FullBatchWakes, IInv, StartInv
<1>3. CASE \E p \in Pushers : SetWake(p)
  BY <1>3 DEF SetWake, FullBatchWakes
<1>4. CASE DaemonWake
  <2>1. flush' = At(Daemon, IF stopped THEN "off" ELSE "enter") /\ stopped' = stopped
    BY <1>4 DEF DaemonWake
  <2>2. flush'[Daemon].pc = IF stopped THEN "off" ELSE "enter"
    BY <2>1, <1>0, Moves DEF Steps
  <2>. QED
    BY <2>1, <2>2 DEF FullBatchWakes
<1>5. CASE Drain
  <2>1. flush'[Exit].pc = "enter"
    BY <1>0, <1>5, Moves DEF Drain, Steps
  <2>. QED
    BY <2>1 DEF FullBatchWakes
<1>6. CASE Stop
  BY <1>6 DEF Stop, FullBatchWakes
<1>7. CASE Fork
  BY <1>0, <1>7 DEF Fork, Off, FullBatchWakes
<1>8. CASE Flush(Exit)
  <2>1. flush'[Exit].pc # "off"
    BY <1>0, <1>8, FlushMoves DEF Return
  <2>. QED
    BY <2>1 DEF FullBatchWakes
<1>9. CASE Flush(Daemon)
  <2>1. flush'[Exit] = flush[Exit] /\ UNCHANGED <<wake, full, stopped>>
    BY <1>0, <1>9, FlushMoves
  <2>2. \/ flush'[Daemon].pc \in {"lock", "pop", "post", "count"}
        \/ flush[Daemon].pc = "pop" /\ q' = <<>>
        \/ flush[Daemon].pc = "enter" /\ inflight # NoThread
        \/ flush[Daemon].pc = "leave" /\ q' = q
    BY <1>0, <1>9, FlushMoves
  <2>3. CASE q' = <<>>
    BY <2>3, <1>0 DEF FullBatchWakes
  <2>4. CASE flush[Daemon].pc = "enter" /\ inflight # NoThread
    BY <2>1, <2>4, <1>0 DEF FullBatchWakes, HolderInv, InFlight
  <2>. QED
    BY <2>1, <2>2, <2>3, <2>4 DEF FullBatchWakes
<1>10. CASE UNCHANGED vars
  BY <1>10 DEF vars, attributes, FullBatchWakes
<1>. QED
  BY <1>0, <1>1, <1>2, <1>3, <1>4, <1>5, <1>6, <1>7, <1>8, <1>9, <1>10 DEF Next

-----------------------------------------------------------------------------
(* The theorems. *)

\* The invariant of the counter, the wake-up and the drain holds in every state of the queue.
THEOREM FlightInvariant == Spec => []FInv
<1>1. Init => FInv
  <2>. SUFFICES ASSUME Init PROVE FInv
    OBVIOUS
  <2>1. q = <<>> /\ fate = <<>> /\ dropped = 0 /\ inflight = NoThread /\ flush = [f \in Flushers |-> Off]
    BY DEF Init
  <2>2. \A f \in Flushers : flush[f].pc = "off"
    BY <2>1 DEF Off
  <2>3. Gone = {} /\ Cardinality(Gone) = 0
    BY <2>1, FS_EmptySet DEF Gone, Events
  <2>4. Daemon \in Flushers /\ Exit \in Flushers
    BY DEF Flushers
  <2>. QED
    BY <2>1, <2>2, <2>3, <2>4 DEF FInv, HolderInv, DrainedInv, CountInv, FullBatchWakes
<1>2. IInv /\ FInv /\ [Next]_vars => FInv'
  <2>. SUFFICES ASSUME IInv, FInv, [Next]_vars PROVE FInv'
    OBVIOUS
  <2>1. HolderInv' /\ DrainedInv' /\ CountInv'
    BY HolderStep, DrainedStep, CountStep DEF FInv
  <2>2. MaxBatch > 0 => FullBatchWakes'
    BY WakeStep DEF FInv
  <2>. QED
    BY <2>1, <2>2 DEF FInv
<1>. QED
  BY <1>1, <1>2, QueueInvariant, PTL DEF Spec

\* `dropped` never says more than was dropped, though flush adds to it without the lock: what
\* push and flush overwrite of one another's is only ever missed.
THEOREM CounterNeverInvents == Spec => []DroppedNeverOvercounts
<1>1. FInv => DroppedNeverOvercounts
  BY DEF FInv, CountInv, DroppedNeverOvercounts, Gone
<1>. QED
  BY <1>1, FlightInvariant, PTL

\* With a max_batch of at least one event, a queue that reaches it always has a wake-up on its way
\* to the flush thread, however pushes, waits, flushes, stop and forks interleave.
THEOREM FullBatchWakesTheorem == MaxBatch > 0 => (Spec => []FullBatchWakes)
<1>. SUFFICES ASSUME MaxBatch > 0 PROVE Spec => []FullBatchWakes
  OBVIOUS
<1>1. FInv => FullBatchWakes
  BY DEF FInv
<1>. QED
  BY <1>1, FlightInvariant, PTL

\* When drain() returns, whatever was pushed before it was called has left the process: the batch
\* that the daemon had in its hands is waited for.
THEOREM DrainSettlesTheorem == Spec => DrainSettles
<1>. DEFINE Settles == flush[Exit].pc # "done" /\ flush'[Exit].pc = "done" =>
                          \A e \in 1..drainable : fate'[e] # "pending"
<1>1. IInv /\ FInv /\ [Next]_vars => [Settles]_vars
  <2>. SUFFICES ASSUME IInv, FInv, [Next]_vars, flush[Exit].pc # "done", flush'[Exit].pc = "done"
                PROVE  \A e \in 1..drainable : fate'[e] # "pending"
    OBVIOUS
  <2>0. Daemon \in Flushers /\ Exit \in Flushers /\ Daemon # Exit /\ Flushers = {Daemon, Exit}
    BY QueueAssumption DEF Flushers
  <2>1. flush[Exit].pc = "leave"
    <3>1. CASE Flush(Exit)
      BY <2>0, <3>1, FlushMoves
    <3>2. CASE Flush(Daemon)
      BY <2>0, <3>2, FlushMoves
    <3>3. CASE ~\E f \in Flushers : Flush(f)
      BY <2>0, <3>3, OtherMoves DEF Off
    <3>. QED
      BY <2>0, <3>1, <3>2, <3>3
  <2>2. drainable \in 0..Len(fate) /\ \A e \in 1..Len(fate) : fate[e] # "pending" => fate'[e] = fate[e]
    BY FatesAreFinal DEF IInv, TypeOK
  <2>3. \A e \in 1..drainable : fate[e] # "pending" /\ e \in 1..Len(fate)
    BY <2>1, <2>2, FatesAreFinal DEF FInv, DrainedInv
  <2>. QED
    BY <2>2, <2>3
<1>. QED
  BY <1>1, QueueInvariant, FlightInvariant, PTL DEF Spec, DrainSettles
=============================================================================

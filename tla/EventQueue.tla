----------------------------- MODULE EventQueue -----------------------------
(***************************************************************************)
(* EventQueue (src/camada/events/queue.py): telemetry leaves a process in  *)
(* batches over POST /e.  Request threads push; the daemon thread flushes  *)
(* on size or interval; drain() flushes once more when the interpreter     *)
(* exits.                                                                  *)
(*                                                                         *)
(* Events are numbered in the order they are pushed.  A critical section   *)
(* of push is one step; that of flush is two, so that a fork can find the  *)
(* lock held.  `dropped` is read and written in two steps by flush, which  *)
(* does not hold the lock, and in one by push, which makes no call between *)
(* them.  Definitions called ...Mutant are wrong on purpose.               *)
(***************************************************************************)
EXTENDS Integers, Sequences, FiniteSets, Functions

CONSTANTS
    Pushers,                    \* request threads
    Daemon, Exit, NoThread,     \* the flush thread, the thread of drain(), nobody
    MaxBatch, MaxQueue, Slice,  \* max_batch, max_queue, and the 1000 of flush
    MaxEvents, MaxMishaps       \* bounds

Flushers == {Daemon, Exit}

ASSUME QueueAssumption ==
    /\ Daemon # Exit /\ NoThread \notin Flushers
    /\ MaxBatch \in Nat /\ MaxQueue \in Nat \ {0} /\ Slice \in Nat \ {0}
    /\ MaxEvents \in Nat /\ MaxMishaps \in Nat

VARIABLES
    q,          \* the deque
    dropped,    \* the counter
    lock,       \* who holds _lock between two steps
    inflight,   \* who holds _inflight
    wake, stopped, thread,   \* the two events are set; _thread is not None
    full,       \* the pushers that have found the queue at max_batch and not yet set `wake`
    flush,      \* where each flusher is, the batch in its hands, the `dropped` it has read
    mishaps,    \* forks, and threads that could not start, so far
    fate,       \* history: what became of each event pushed
    drainable   \* history: how many events had been pushed when drain() was called

attributes == <<dropped, wake, stopped, thread>>
vars == <<q, attributes, lock, inflight, full, flush, mishaps, fate, drainable>>

-----------------------------------------------------------------------------
Off == [pc |-> "off", batch |-> <<>>, read |-> 0]
At(f, step) == [flush EXCEPT ![f].pc = step]
Holding(f) == flush[f].batch

Events == DOMAIN fate
Mark(es, what) == [e \in Events |-> IF e \in es THEN what ELSE fate[e]]

Init ==
    /\ q = <<>> /\ dropped = 0 /\ lock = NoThread /\ inflight = NoThread
    /\ wake = FALSE /\ stopped = FALSE /\ thread = FALSE
    /\ full = {} /\ flush = [f \in Flushers |-> Off]
    /\ mishaps = 0 /\ fate = <<>> /\ drainable = 0

-----------------------------------------------------------------------------
(* push().                                                                 *)

IsFullMutant == Len(q) > MaxQueue
IsFull == Len(q) >= MaxQueue

EvictMutant == [gone |-> q[Len(q)], kept |-> SubSeq(q, 1, Len(q) - 1)]   \* pop(), not popleft()
Evict == [gone |-> Head(q), kept |-> Tail(q)]

\* Drop the oldest event if there is no room, count it, append.
Enqueue ==
    LET new == Len(fate) + 1
    IN IF IsFull
         THEN /\ q' = Append(Evict.kept, new)
              /\ dropped' = dropped + 1
              /\ fate' = Append(Mark({Evict.gone}, "evicted"), "pending")
         ELSE /\ q' = Append(q, new)
              /\ fate' = Append(fate, "pending")
              /\ UNCHANGED dropped

BatchReadyMutant(n) == n > MaxBatch
BatchReady(n) == n >= MaxBatch

MustStart == ~thread /\ ~stopped

Push(p) ==
    /\ p \notin full /\ lock = NoThread
    /\ Len(fate) < MaxEvents
    /\ Enqueue
    /\ thread' = (thread \/ MustStart)
    /\ flush' = IF MustStart THEN [flush EXCEPT ![Daemon] = [Off EXCEPT !.pc = "sleep"]] ELSE flush
    /\ full' = IF BatchReady(Len(q')) THEN full \cup {p} ELSE full
    /\ UNCHANGED <<wake, stopped, lock, inflight, mishaps, drainable>>

\* The process may have no more threads.  Thread.start() raises after _thread was assigned: push
\* swallows that, and does not set `wake`.
PushThreadLimit(p) ==
    /\ p \notin full /\ lock = NoThread
    /\ Len(fate) < MaxEvents /\ MustStart
    /\ mishaps < MaxMishaps /\ mishaps' = mishaps + 1
    /\ Enqueue
    /\ thread' = TRUE
    /\ UNCHANGED <<wake, stopped, lock, inflight, full, flush, drainable>>

SetWake(p) ==
    /\ p \in full
    /\ full' = full \ {p}
    /\ wake' = TRUE
    /\ UNCHANGED <<q, dropped, stopped, thread, lock, inflight, flush, mishaps, fate, drainable>>

-----------------------------------------------------------------------------
(* _run() and drain(): when flush() is called, and on which thread.        *)

\* The wait of _run ends, on `wake` or on the interval; clear, then look at the stop, then flush.
DaemonWake ==
    /\ flush[Daemon].pc = "sleep"
    /\ wake' = FALSE
    /\ flush' = At(Daemon, IF stopped THEN "off" ELSE "enter")
    /\ UNCHANGED <<q, dropped, stopped, thread, lock, inflight, full, mishaps, fate, drainable>>

Drain ==
    /\ flush[Exit].pc = "off"
    /\ flush' = At(Exit, "enter")
    /\ drainable' = Len(fate)
    /\ UNCHANGED <<q, attributes, lock, inflight, full, mishaps, fate>>

-----------------------------------------------------------------------------
(* flush().                                                                *)

\* Where a flusher goes when flush() returns: the loop of _run, or the end of the drain thread.
Return(f) == IF f = Exit THEN "done" ELSE IF stopped THEN "off" ELSE "sleep"

WaitsMutant(f) == FALSE   \* the exit drain yields, too
Waits(f) == f = Exit

FreeMutant == TRUE   \* no single flight
Free == inflight = NoThread

Enter(f) ==
    /\ flush[f].pc = "enter"
    /\ IF Free
         THEN inflight' = f /\ flush' = At(f, "lock")
         ELSE ~Waits(f) /\ flush' = At(f, Return(f)) /\ UNCHANGED inflight
    /\ UNCHANGED <<q, attributes, lock, full, mishaps, fate, drainable>>

TakeLock(f) ==
    /\ flush[f].pc = "lock" /\ lock = NoThread
    /\ lock' = f
    /\ flush' = At(f, "pop")
    /\ UNCHANGED <<q, attributes, inflight, full, mishaps, fate, drainable>>

BatchSize == IF Len(q) < Slice THEN Len(q) ELSE Slice

\* Take a slice, or find nothing left.
Pop(f) ==
    /\ flush[f].pc = "pop"
    /\ lock' = NoThread
    /\ q' = SubSeq(q, BatchSize + 1, Len(q))
    /\ flush' = IF q = <<>> THEN At(f, "leave")
                ELSE [At(f, "post") EXCEPT ![f].batch = SubSeq(q, 1, BatchSize)]
    /\ UNCHANGED <<attributes, inflight, full, mishaps, fate, drainable>>

\* Any status is an answer, a refusal too: the batch is forgotten.
Answered(f) ==
    /\ flush[f].pc = "post"
    /\ \E answer \in {"stored", "refused"} : fate' = Mark(Range(Holding(f)), answer)
    /\ flush' = [At(f, "lock") EXCEPT ![f].batch = <<>>]
    /\ UNCHANGED <<q, attributes, lock, inflight, full, mishaps, drainable>>

\* No answer (or the batch does not serialise): read the counter, then add the batch to it.
Unanswered(f) ==
    /\ flush[f].pc = "post"
    /\ flush' = [At(f, "count") EXCEPT ![f].read = dropped]
    /\ UNCHANGED <<q, attributes, lock, inflight, full, mishaps, fate, drainable>>

CountedMutant(f) == flush[f].read + Slice   \* a slice may be shorter
Counted(f) == flush[f].read + Len(Holding(f))

Count(f) ==
    /\ flush[f].pc = "count"
    /\ dropped' = Counted(f)
    /\ fate' = Mark(Range(Holding(f)), "lost")
    /\ flush' = [flush EXCEPT ![f] = [Off EXCEPT !.pc = "lock"]]
    /\ UNCHANGED <<q, wake, stopped, thread, lock, inflight, full, mishaps, drainable>>

Leave(f) ==
    /\ flush[f].pc = "leave"
    /\ inflight' = NoThread
    /\ flush' = At(f, Return(f))
    /\ UNCHANGED <<q, attributes, lock, full, mishaps, fate, drainable>>

Flush(f) == \/ Enter(f) \/ TakeLock(f) \/ Pop(f) \/ Answered(f)
            \/ Unanswered(f) \/ Count(f) \/ Leave(f)

-----------------------------------------------------------------------------
(* stop() and fork.                                                        *)

Stop ==
    /\ ~stopped /\ stopped' = TRUE /\ wake' = TRUE /\ thread' = FALSE
    /\ UNCHANGED <<q, dropped, lock, inflight, full, flush, mishaps, fate, drainable>>

LockInChildMutant == lock   \* held by a thread the child does not have
LockInChild == NoThread
InflightInChildMutant == inflight
InflightInChild == NoThread

QueueInChildMutant == q   \* the parent ships these as well
QueueInChild == <<>>

\* fork, followed into the child: the queue is empty (what was pending is the parent's), the locks
\* and events are new, no thread is left; the counter stays.
Fork ==
    /\ mishaps < MaxMishaps /\ mishaps' = mishaps + 1
    /\ q' = QueueInChild /\ lock' = LockInChild /\ inflight' = InflightInChild
    /\ wake' = FALSE /\ stopped' = FALSE /\ thread' = FALSE
    /\ full' = {} /\ flush' = [f \in Flushers |-> Off]
    /\ fate' = Mark({e \in Events : fate[e] = "pending"}, "parent")
    /\ UNCHANGED <<dropped, drainable>>

Next ==
    \/ \E p \in Pushers : Push(p) \/ PushThreadLimit(p) \/ SetWake(p)
    \/ DaemonWake \/ Drain
    \/ \E f \in Flushers : Flush(f)
    \/ Stop \/ Fork

Spec == Init /\ [][Next]_vars

\* Threads run, waits end, every POST ends within its timeout.
Fairness ==
    /\ \A p \in Pushers : WF_vars(SetWake(p))
    /\ WF_vars(DaemonWake)
    /\ \A f \in Flushers : WF_vars(Flush(f))
FairSpec == Spec /\ Fairness

-----------------------------------------------------------------------------
Steps == {"off", "sleep", "enter", "lock", "pop", "post", "count", "leave", "done"}
Fates == {"pending", "evicted", "stored", "refused", "lost", "parent"}
Pending == {e \in Events : fate[e] = "pending"}
Held == Holding(Daemon) \o Holding(Exit) \o q   \* what the process has yet to get rid of

TypeOK ==
    /\ q \in Seq(Nat) /\ Len(q) <= MaxQueue
    /\ dropped \in Nat
    /\ lock \in Flushers \cup {NoThread} /\ inflight \in Flushers \cup {NoThread}
    /\ wake \in BOOLEAN /\ stopped \in BOOLEAN /\ thread \in BOOLEAN
    /\ full \subseteq Pushers
    /\ flush \in [Flushers -> [pc : Steps, batch : Seq(Nat), read : Nat]]
    /\ mishaps \in Nat
    /\ fate \in Seq(Fates)
    /\ drainable \in 0..Len(fate)

\* No event vanishes and none is in two places: what is pending is exactly what the queue and the
\* flush in flight hold, each once and oldest first, whoever flushes and whenever the process
\* forks (a child ships none of its parent's).
EachEventOnce ==
    /\ \A i, j \in DOMAIN Held : i < j => Held[i] < Held[j]
    /\ Range(Held) = Pending

\* Events leave in the order they were pushed: none is posted while an older one waits.
PostedInOrder ==
    \A d, e \in Events : d < e /\ fate[e] \in {"stored", "refused", "lost"} => fate[d] # "pending"

\* The counter may miss a drop (flush adds to it without the lock) but never invents one.
DroppedNeverOvercounts == dropped <= Cardinality({e \in Events : fate[e] \in {"evicted", "lost"}})

\* When the exit drain is through, every event pushed before it is out of the process, those that
\* another flush had in its hands included (flush(wait=True)).
DrainSettles ==
    [][flush[Exit].pc # "done" /\ flush'[Exit].pc = "done" =>
         \A e \in 1..drainable : fate'[e] # "pending"]_vars

\* A queue that reaches max_batch is not left to the interval: the wake-up is set, about to be
\* set, or the flush thread is on its way to the queue.  (Once drain() runs, the two may yield to
\* one another.)
FullBatchWakes ==
    Len(q) >= MaxBatch /\ flush[Daemon].pc # "off" /\ flush[Exit].pc = "off" /\ ~stopped =>
        wake \/ full # {} \/ flush[Daemon].pc \in {"enter", "lock", "pop", "post", "count"}

\* push() waits for a critical section of flush and no longer: a request thread is never blocked
\* for good, not even in a child forked in the middle of one.
PushIsNotBlocked == []<>(lock = NoThread)

\* Every event leaves the process, unless the queue is stopped or its thread could not start.
EventsLeave ==
    <>[](\/ stopped
         \/ thread /\ flush[Daemon].pc = "off"
         \/ Pending = {})

\* The queue implements the ledger: seen from outside, events leave oldest first, at most a slice at a
\* time, each with one fate, and only the oldest that no flush holds makes room for a new one (push,
\* flush, _after_fork).
EL == INSTANCE EventLedger WITH Room <- MaxQueue
KeepsLedger == EL!Spec

\* queue.py, on a batch that was lost: "Dropping telemetry is by design, doing it silently is not".
\* Once nothing is pending, and nothing was evicted, the counter tells every event that was lost.
LossIsNotSilent ==
    (\A e \in Events : fate[e] \notin {"pending", "evicted", "parent"}) =>
        dropped >= Cardinality({e \in Events : fate[e] \in {"refused", "lost"}})

\* queue.py, header: "an in-process SDK batches, flushes on size or interval, and drains at exit".
\* Every event leaves the process unless the queue is stopped.
FlushesOnSizeOrInterval == <>[](stopped \/ Pending = {})
=============================================================================

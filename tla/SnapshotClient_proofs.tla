------------------------ MODULE SnapshotClient_proofs ------------------------
(***************************************************************************)
(* What holds of SnapshotClient for every set of snapshots, configs and    *)
(* threads and every value of the poll constants.                          *)
(***************************************************************************)
EXTENDS SnapshotClient, TLAPS

InPoll(t) == load[t].pc \in {"wire", "config", "publish", "stamp", "release"}
\* The thread in the middle of a poll is the one that holds the slot.
SlotInv == \A t \in Loaders : InPoll(t) <=> loading = t

\* The etag the client would revalidate is that of the rules it holds.
EtagInv == etag = Etag(matcher)

\* It is also the one the poll under way was sent with, until that poll installs its answer.
WireInv == \A t \in Loaders : load[t].pc \in {"wire", "config", "publish"} => load[t].inm = etag

\* An answer that is still to be installed is about a generation at least as late as the one in
\* place, and about no other than it says.
AnswerInv ==
    \A t \in Loaders : load[t].pc \in {"config", "publish"} =>
        /\ load[t].gen \in 1..Len(log) /\ seen <= load[t].gen
        /\ LET body == log[load[t].gen].body
           IN /\ load[t].kind = "body" => body # NoBody
              /\ load[t].kind = "empty" => body = NoBody
              /\ load[t].kind = "unchanged" => load[t].inm # NoEtag /\ load[t].inm = Etag(body)

IInv == /\ TypeOK /\ SlotInv /\ EtagInv /\ WireInv /\ AnswerInv
        /\ RulesMatchGeneration /\ PollsArePaced

-----------------------------------------------------------------------------
LEMMA IdleType == Idle \in LoadRecord
  BY DEF Idle, LoadRecord, Kinds, Etags

LEMMA InitIInv == Init => IInv
<1> SUFFICES ASSUME Init PROVE IInv
  OBVIOUS
<1> USE ClientAssumption DEF Init
<1>1. TypeOK
  <2>1. PICK g \in Generations : log = <<g>>
    OBVIOUS
  <2>2. log \in Seq(Generations) /\ log # <<>> /\ Len(log) = 1
    BY <2>1
  <2>3. load \in [Loaders -> LoadRecord]
    BY IdleType
  <2> QED
    <3>1. kick \subseteq Kickers /\ timer \in Timers
      BY DEF Timers
    <3>2. /\ matcher \in Bodies \cup {NoBody} /\ config \in Configs \cup {NoConfig}
          /\ refresh \in Cadences /\ etag \in Etags
      BY DEF Cadences, Etags
    <3>3. /\ age \in 0..AgeCap \cup {Never} /\ gate \in Nat
          /\ loading \in Loaders \cup {NoThread} /\ mishaps \in Nat
      BY DEF Never
    <3>4. seen \in 0..Len(log)
      BY <2>2
    <3> QED
      BY <2>2, <2>3, <3>1, <3>2, <3>3, <3>4 DEF TypeOK
<1>2. SlotInv /\ EtagInv /\ WireInv /\ AnswerInv /\ PollsArePaced
  BY DEF SlotInv, InPoll, EtagInv, Etag, WireInv, AnswerInv, PollsArePaced, Idle
<1>3. RulesMatchGeneration
  BY DEF RulesMatchGeneration
<1> QED
  BY <1>1, <1>2, <1>3 DEF IInv

-----------------------------------------------------------------------------
(* One lemma per group of actions.                                         *)

\* The steps of ensure_fresh(), start() and stop() touch the threads that are not in _poll().
LEMMA KickIInv ==
  ASSUME IInv,
         \/ \E k \in Kickers : LookDue(k) \/ LookSlot(k) \/ ThreadLimit(k)
         \/ \E t \in Loaders : CallRefresh(t)
         \/ Start \/ StartTimer \/ Stop
  PROVE  IInv'
<1> USE DEF IInv
<1>1. /\ UNCHANGED <<attributes, loading, log, seen>>
      /\ mishaps' \in Nat /\ timer' \in Timers /\ kick' \subseteq Kickers
  <2>1. /\ UNCHANGED <<attributes, loading, log, seen>>
        /\ kick' \subseteq Kickers
    BY DEF LookDue, LookSlot, ThreadLimit, CallRefresh, Start, StartTimer, Stop, StartFrom, TypeOK, Kickers
  <2>2. mishaps' \in Nat
    <3>1. mishaps' = mishaps \/ mishaps' = mishaps + 1
      BY Zenon DEF LookDue, LookSlot, ThreadLimit, CallRefresh, Start, StartTimer, Stop
    <3> QED
      BY <3>1 DEF TypeOK
  <2>3. timer' \in Timers
    <3>1. timer' \in {"starting", "none", "running", "dead"} \/ timer' = timer
      <4>1. CASE \E k \in Kickers : ThreadLimit(k)
        BY <4>1, Zenon DEF ThreadLimit
      <4>2. CASE Start \/ StartTimer \/ Stop
        BY <4>2 DEF Start, StartTimer, Stop, StartFrom
      <4>3. CASE (\E k \in Kickers : LookDue(k) \/ LookSlot(k)) \/ \E t \in Loaders : CallRefresh(t)
        BY <4>3 DEF LookDue, LookSlot, CallRefresh
      <4> QED
        BY <4>1, <4>2, <4>3
    <3> QED
      BY <3>1 DEF TypeOK, Timers
  <2> QED
    BY <2>1, <2>2, <2>3
<1>2. \/ UNCHANGED load
      \/ \E u \in Loaders, d \in BOOLEAN : Enter(u, d)
  BY DEF LookDue, LookSlot, ThreadLimit, CallRefresh, Start, StartTimer, Stop
<1>3. CASE UNCHANGED load
  BY <1>1, <1>3 DEF attributes, TypeOK, SlotInv, InPoll, EtagInv, Etag, WireInv, AnswerInv,
                    RulesMatchGeneration, PollsArePaced, Due, Stale
<1>4. CASE \E u \in Loaders, d \in BOOLEAN : Enter(u, d)
  <2>1. PICK u \in Loaders, d \in BOOLEAN : Enter(u, d)
    BY <1>4
  <2>2. /\ load' = [load EXCEPT ![u] = [Idle EXCEPT !.pc = "acquire", !.due = d]]
        /\ load[u] = Idle
    BY <2>1 DEF Enter
  <2>3. load' \in [Loaders -> LoadRecord]
    BY <2>2, IdleType DEF TypeOK, LoadRecord
  <2>4. \A v \in Loaders : v # u => load'[v] = load[v]
    BY <2>2 DEF TypeOK
  <2>5. load'[u].pc = "acquire" /\ load[u].pc = "free"
    BY <2>2 DEF TypeOK, Idle
  <2>6. TypeOK'
    BY <1>1, <2>3 DEF TypeOK, attributes
  <2>7. SlotInv' /\ WireInv' /\ AnswerInv' /\ PollsArePaced'
    BY <1>1, <2>4, <2>5 DEF SlotInv, InPoll, WireInv, AnswerInv, PollsArePaced, attributes, Due, Stale, Etag
  <2>8. EtagInv' /\ RulesMatchGeneration'
    BY <1>1 DEF EtagInv, Etag, RulesMatchGeneration, attributes
  <2> QED
    BY <2>6, <2>7, <2>8
<1> QED
  BY <1>2, <1>3, <1>4

\* A thread in the middle of a poll is alone there.
LEMMA AloneInPoll ==
  ASSUME SlotInv, NEW t \in Loaders, InPoll(t)
  PROVE  loading = t /\ \A u \in Loaders : u # t => ~InPoll(u)
BY DEF SlotInv

\* Any other thread's record survives a step of t.
LEMMA OthersStay ==
  ASSUME TypeOK, NEW t \in Loaders, NEW r \in LoadRecord, load' = [load EXCEPT ![t] = r]
  PROVE  /\ load' \in [Loaders -> LoadRecord] /\ load'[t] = r
         /\ \A u \in Loaders : u # t => load'[u] = load[u]
BY DEF TypeOK

\* Taking the slot proves the poll due; a thread that gives up leaves nothing behind.
LEMMA AcquireIInv ==
  ASSUME IInv, NEW t \in Loaders, Acquire(t)
  PROVE  IInv'
<1> USE DEF IInv
<1>1. load[t].pc = "acquire" /\ UNCHANGED <<attributes, kick, timer, log, mishaps, seen>>
  BY DEF Acquire
<1>2. loading # t /\ load[t] \in LoadRecord
  BY <1>1 DEF SlotInv, InPoll, TypeOK
<1>3. EtagInv' /\ RulesMatchGeneration'
  BY <1>1 DEF EtagInv, Etag, RulesMatchGeneration, attributes
<1>4. CASE SlotFree /\ MayLoad(t)
  <2> DEFINE r == [load[t] EXCEPT !.pc = "wire", !.inm = etag]
  <2>1. loading' = t /\ load' = [load EXCEPT ![t] = r]
    BY <1>4, <1>2 DEF Acquire, TypeOK
  <2>2. r \in LoadRecord /\ r.pc = "wire" /\ r.inm = etag /\ r.due = load[t].due
    BY <1>2 DEF LoadRecord, TypeOK
  <2> HIDE DEF r
  <2>3. load' \in [Loaders -> LoadRecord] /\ load'[t] = r
        /\ \A u \in Loaders : u # t => load'[u] = load[u]
    BY <2>1, <2>2, OthersStay
  <2>4. \A u \in Loaders : u # t => ~InPoll(u)
    BY <1>4, ClientAssumption DEF SlotFree, SlotInv
  <2>5. TypeOK'
    BY <1>1, <2>1, <2>3 DEF TypeOK, attributes
  <2>6. SlotInv' /\ WireInv' /\ AnswerInv'
    BY <1>1, <2>1, <2>2, <2>3, <2>4 DEF SlotInv, InPoll, WireInv, AnswerInv, attributes
  <2>7. PollsArePaced'
    BY <1>1, <1>4, <2>2, <2>3, <2>4 DEF PollsArePaced, MayLoad, InPoll, Due, Stale, attributes
  <2> QED
    BY <1>3, <2>5, <2>6, <2>7
<1>5. CASE ~(SlotFree /\ MayLoad(t))
  <2>1. load' = [load EXCEPT ![t] = Idle] /\ loading' = loading
    BY <1>5 DEF Acquire
  <2>2. load' \in [Loaders -> LoadRecord] /\ load'[t] = Idle
        /\ \A u \in Loaders : u # t => load'[u] = load[u]
    BY <2>1, IdleType, OthersStay
  <2>3. TypeOK'
    BY <1>1, <2>1, <2>2 DEF TypeOK, attributes
  <2>4. SlotInv' /\ WireInv' /\ AnswerInv' /\ PollsArePaced'
    BY <1>1, <1>2, <2>1, <2>2
    DEF SlotInv, InPoll, WireInv, AnswerInv, PollsArePaced, Idle, Due, Stale, Etag, attributes
  <2> QED
    BY <1>3, <2>3, <2>4
<1> QED
  BY <1>4, <1>5

\* The answer is about the latest generation; a failed poll touches the gate alone.
LEMMA AnswerIInv ==
  ASSUME IInv, NEW t \in Loaders, Answer(t)
  PROVE  IInv'
<1> USE DEF IInv
<1>1. PICK kind \in AnswerKinds(load[t].inm) \cup {"corrupt"}, c \in {log[Latest].config, NoConfig} :
        load' = [Advance(t) EXCEPT ![t].kind = kind, ![t].gen = Latest, ![t].config = c]
  BY DEF Answer
<1>2. /\ load[t].pc = "wire" /\ load[t] \in LoadRecord
      /\ gate' = 0 /\ (mishaps' = mishaps \/ mishaps' = mishaps + 1)
      /\ UNCHANGED <<matcher, config, refresh, etag, age, loading, kick, timer, log, seen>>
  BY DEF Answer, TypeOK
<1>3. Latest \in 1..Len(log) /\ log[Latest] \in Generations
  BY DEF TypeOK, Latest
<1> DEFINE r == [load[t] EXCEPT !.pc = "config", !.kind = kind, !.gen = Latest, !.config = c]
<1>4. load' = [load EXCEPT ![t] = r]
  <2>1. Advance(t) = [load EXCEPT ![t] = [load[t] EXCEPT !.pc = "config"]]
    BY <1>2 DEF Advance, NextPc, TypeOK
  <2>2. Advance(t)[t] = [load[t] EXCEPT !.pc = "config"] /\ DOMAIN Advance(t) = Loaders
    BY <2>1 DEF TypeOK
  <2>3. load' = [Advance(t) EXCEPT ![t] = [[[Advance(t)[t] EXCEPT !.kind = kind] EXCEPT !.gen = Latest] EXCEPT !.config = c]]
    BY <1>1, <2>2
  <2>4. r = [[[[load[t] EXCEPT !.pc = "config"] EXCEPT !.kind = kind] EXCEPT !.gen = Latest] EXCEPT !.config = c]
    BY <1>2 DEF LoadRecord
  <2> HIDE DEF r
  <2> QED
    BY <2>1, <2>2, <2>3, <2>4 DEF TypeOK
<1>5. /\ r \in LoadRecord /\ r.pc = "config" /\ r.kind = kind /\ r.gen = Latest
      /\ r.inm = load[t].inm
  <2>1. kind \in Kinds
    BY <1>1 DEF AnswerKinds, Kinds
  <2>2. c \in Configs \cup {NoConfig} /\ Latest \in Nat
    BY <1>3, ClientAssumption
  <2> QED
    BY <1>2, <2>1, <2>2 DEF LoadRecord
<1> HIDE DEF r
<1>6. /\ load' \in [Loaders -> LoadRecord] /\ load'[t] = r
      /\ \A u \in Loaders : u # t => load'[u] = load[u]
  BY <1>4, <1>5, OthersStay
<1>7. loading = t /\ \A u \in Loaders : u # t => ~InPoll(u)
  BY <1>2, AloneInPoll DEF InPoll
<1>8. TypeOK'
  BY <1>2, <1>6 DEF TypeOK
<1>9. SlotInv' /\ EtagInv' /\ WireInv' /\ RulesMatchGeneration' /\ PollsArePaced'
  BY <1>2, <1>5, <1>6, <1>7
  DEF SlotInv, InPoll, EtagInv, Etag, WireInv, RulesMatchGeneration, PollsArePaced
<1>10. AnswerInv'
  <2>1. seen <= Latest
    BY <1>3 DEF TypeOK, Latest
  <2>2. LET body == log[Latest].body
        IN /\ kind = "body" => body # NoBody
           /\ kind = "empty" => body = NoBody
           /\ kind = "unchanged" => load[t].inm # NoEtag /\ load[t].inm = Etag(body)
    BY DEF AnswerKinds
  <2>3. \A u \in Loaders : load'[u].pc \in {"config", "publish"} => u = t
    BY <1>6, <1>7 DEF InPoll
  <2>4. log' = log /\ seen' = seen
    BY <1>2
  <2> HIDE DEF IInv
  <2> QED
    BY <1>3, <1>5, <1>6, <2>1, <2>2, <2>3, <2>4 DEF AnswerInv, Etag
<1> QED
  BY <1>8, <1>9, <1>10

LEMMA FailIInv ==
  ASSUME IInv, NEW t \in Loaders, Fail(t)
  PROVE  IInv'
<1> USE DEF IInv
<1>1. /\ load[t].pc = "wire" /\ load[t] \in LoadRecord /\ mishaps' = mishaps + 1
      /\ load' = [load EXCEPT ![t] = [load[t] EXCEPT !.pc = "release"]]
      /\ UNCHANGED <<matcher, config, refresh, etag, age, loading, kick, timer, log, seen>>
  BY DEF Fail, TypeOK
<1>2. gate' \in Nat
  <2>1. refresh \in Nat
    BY ClientAssumption DEF TypeOK, Cadences
  <2> QED
    BY <2>1, ClientAssumption DEF Fail, NextPollDelay, Least, Most
<1>3. [load[t] EXCEPT !.pc = "release"] \in LoadRecord
  BY <1>1 DEF LoadRecord
<1>4. /\ load' \in [Loaders -> LoadRecord] /\ load'[t].pc = "release"
      /\ \A u \in Loaders : u # t => load'[u] = load[u]
  BY <1>1, <1>3, OthersStay DEF LoadRecord
<1>5. loading = t /\ \A u \in Loaders : u # t => ~InPoll(u)
  BY <1>1, AloneInPoll DEF InPoll
<1>6. TypeOK'
  BY <1>1, <1>2, <1>4 DEF TypeOK
<1>7. IInv'
  BY <1>1, <1>4, <1>5, <1>6
  DEF SlotInv, InPoll, EtagInv, Etag, WireInv, AnswerInv, RulesMatchGeneration, PollsArePaced
<1> QED
  BY <1>7

\* What ReadConfig, Install and Stamp do to the thread that takes them.
LEMMA AdvanceType ==
  ASSUME TypeOK, NEW t \in Loaders, load[t].pc \in {"config", "publish", "stamp"}, load' = Advance(t)
  PROVE  /\ load' \in [Loaders -> LoadRecord]
         /\ load'[t] = [load[t] EXCEPT !.pc = NextPc[load[t].pc]]
         /\ load[t].pc = "config" => load'[t].pc = "publish"
         /\ load[t].pc = "publish" => load'[t].pc = "stamp"
         /\ load[t].pc = "stamp" => load'[t].pc = "release"
         /\ \A u \in Loaders : u # t => load'[u] = load[u]
<1> DEFINE r == [load[t] EXCEPT !.pc = NextPc[load[t].pc]]
<1>1. load[t] \in LoadRecord
  BY DEF TypeOK
<1>2. r \in LoadRecord /\ r.pc = NextPc[load[t].pc]
  BY <1>1 DEF LoadRecord, NextPc
<1>3. load' = [load EXCEPT ![t] = r]
  BY DEF Advance
<1> HIDE DEF r
<1>4. /\ load' \in [Loaders -> LoadRecord] /\ load'[t] = r
      /\ \A u \in Loaders : u # t => load'[u] = load[u]
  BY <1>2, <1>3, OthersStay
<1> USE DEF r
<1> QED
  BY <1>2, <1>4 DEF NextPc

LEMMA ReadConfigIInv ==
  ASSUME IInv, NEW t \in Loaders, ReadConfig(t)
  PROVE  IInv'
<1> USE DEF IInv
<1>1. /\ load[t].pc = "config" /\ load' = Advance(t) /\ load[t] \in LoadRecord
      /\ UNCHANGED <<matcher, etag, age, gate, loading, kick, timer, log, mishaps, seen>>
  BY DEF ReadConfig, TypeOK
<1>2. /\ load' \in [Loaders -> LoadRecord] /\ load'[t] = [load[t] EXCEPT !.pc = "publish"]
      /\ \A u \in Loaders : u # t => load'[u] = load[u]
  BY <1>1, AdvanceType DEF NextPc
<1>3. loading = t /\ \A u \in Loaders : u # t => ~InPoll(u)
  BY <1>1, AloneInPoll DEF InPoll
<1>4. config' \in Configs \cup {NoConfig} /\ refresh' \in Cadences
  <2>1. load[t].config \in Configs \cup {NoConfig}
    BY <1>1 DEF LoadRecord
  <2>2. Steers(load[t].config) => PollOf[load[t].config] \in Cadences
    BY <2>1, ClientAssumption DEF Steers, Cadences
  <2> QED
    BY <2>1, <2>2 DEF ReadConfig, TypeOK
<1>5. TypeOK'
  BY <1>1, <1>2, <1>4 DEF TypeOK
<1>6. load'[t].pc = "publish" /\ load'[t].inm = load[t].inm /\ load'[t].gen = load[t].gen /\ load'[t].kind = load[t].kind
  BY <1>1, <1>2 DEF LoadRecord
<1>7. \A u \in Loaders : u # t => load'[u].pc \notin {"wire", "config", "publish", "stamp", "release"}
  BY <1>2, <1>3 DEF InPoll
<1>8. EtagInv' /\ RulesMatchGeneration'
  BY <1>1 DEF EtagInv, Etag, RulesMatchGeneration
<1>9. SlotInv' /\ WireInv' /\ PollsArePaced'
  <2>1. load[t].inm = etag
    BY <1>1 DEF WireInv
  <2> HIDE DEF IInv
  <2> QED
    BY <1>1, <1>3, <1>6, <1>7, <2>1 DEF SlotInv, InPoll, WireInv, PollsArePaced
<1>10. AnswerInv'
  <2> DEFINE Sound(r) == /\ r.gen \in 1..Len(log) /\ seen <= r.gen
                         /\ r.kind = "body" => log[r.gen].body # NoBody
                         /\ r.kind = "empty" => log[r.gen].body = NoBody
                         /\ r.kind = "unchanged" => r.inm # NoEtag /\ r.inm = Etag(log[r.gen].body)
  <2>1. Sound(load[t])
    BY <1>1 DEF AnswerInv
  <2>2. Sound(load'[t])
    BY <1>6, <2>1
  <2>3. \A u \in Loaders : load'[u].pc \in {"config", "publish"} => Sound(load'[u])
    BY <1>7, <2>2
  <2> HIDE DEF IInv
  <2> QED
    BY <1>1, <2>3 DEF AnswerInv, Etag
<1> QED
  BY <1>5, <1>8, <1>9, <1>10

\* The heart of it: what is in place after a publish is the generation that was answered, because
\* the etag that vouched for it (in a 304, or in a body that is skipped) is that of the rules held.
LEMMA InstallIInv ==
  ASSUME IInv, NEW t \in Loaders, Install(t)
  PROVE  IInv'
<1> USE DEF IInv
<1> DEFINE g == load[t].gen
           body == log[g].body
<1>1. /\ load[t].pc = "publish" /\ load' = Advance(t) /\ load[t] \in LoadRecord
      /\ UNCHANGED <<config, refresh, age, gate, loading, kick, timer, log, mishaps>>
  BY DEF Install, TypeOK
<1>2. /\ load' \in [Loaders -> LoadRecord] /\ load'[t].pc = "stamp"
      /\ \A u \in Loaders : u # t => load'[u] = load[u]
  BY <1>1, AdvanceType
<1>3. loading = t /\ \A u \in Loaders : u # t => ~InPoll(u)
  BY <1>1, AloneInPoll DEF InPoll
<1>4. /\ g \in 1..Len(log) /\ body \in Bodies \cup {NoBody}
      /\ load[t].kind \in Kinds /\ load[t].inm = etag
  <2>1. g \in 1..Len(log) /\ load[t].inm = etag /\ load[t].kind \in Kinds
    BY <1>1 DEF AnswerInv, WireInv, LoadRecord
  <2>2. log[g] \in Generations
    BY <2>1 DEF TypeOK
  <2> QED
    BY <2>1, <2>2, ClientAssumption
<1>5. /\ matcher' \in Bodies \cup {NoBody} /\ etag' = Etag(matcher')
      /\ seen' \in 0..Len(log) /\ matcher' = IF seen' = 0 THEN NoBody ELSE log[seen'].body
  <2>1. CASE load[t].kind = "body"
    <3>1. body \in Bodies /\ body # NoBody /\ seen' = g /\ Replace(body)
      BY <1>1, <1>4, <2>1 DEF Install, AnswerInv
    <3>2. matcher' = body
      <4>1. SUFFICES ASSUME SameSnapshot(body) PROVE matcher = body
        BY <3>1, <4>1 DEF Replace
      <4>2. matcher # NoBody /\ matcher \in Bodies /\ EtagOf[body] # NoEtag /\ EtagOf[body] = EtagOf[matcher]
        BY <4>1 DEF SameSnapshot, EtagInv, Etag, TypeOK
      <4> QED
        BY <3>1, <4>2, EtagAssumption
    <3>3. etag' = EtagOf[body]
      BY <3>1 DEF Replace, SameSnapshot
    <3> HIDE DEF IInv
    <3> QED
      BY <1>4, <3>1, <3>2, <3>3 DEF Etag
  <2>2. CASE load[t].kind = "empty"
    <3>1. body = NoBody /\ seen' = g /\ matcher' = NoBody /\ etag' = NoEtag
      BY <1>1, <2>2 DEF Install, Clear, AnswerInv
    <3> QED
      BY <1>4, <3>1 DEF Etag
  <2>3. CASE load[t].kind = "unchanged"
    <3>1. etag # NoEtag /\ etag = Etag(body) /\ seen' = g /\ UNCHANGED <<matcher, etag>>
      BY <1>1, <1>4, <2>3 DEF Install, AnswerInv
    <3>2. matcher \in Bodies /\ body \in Bodies /\ EtagOf[matcher] = EtagOf[body] /\ EtagOf[body] # NoEtag
      BY <1>4, <3>1 DEF EtagInv, Etag, TypeOK
    <3>3. matcher = body
      BY <3>2, EtagAssumption
    <3> QED
      BY <1>4, <3>1, <3>2, <3>3 DEF Etag
  <2>4. CASE load[t].kind = "corrupt"
    BY <2>4 DEF Install, TypeOK, EtagInv, Etag, RulesMatchGeneration
  <2> QED
    BY <1>4, <2>1, <2>2, <2>3, <2>4 DEF Kinds
<1>6. etag' \in Etags
  BY <1>5 DEF Etag, Etags
<1>7. TypeOK'
  BY <1>1, <1>2, <1>5, <1>6 DEF TypeOK
<1>8. EtagInv' /\ RulesMatchGeneration'
  BY <1>1, <1>5 DEF EtagInv, Etag, RulesMatchGeneration
<1>9. SlotInv' /\ WireInv' /\ AnswerInv' /\ PollsArePaced'
  BY <1>1, <1>2, <1>3 DEF SlotInv, InPoll, WireInv, AnswerInv, PollsArePaced
<1> QED
  BY <1>7, <1>8, <1>9

\* Nobody is on the wire while a poll is stamped or its slot given back.
LEMMA StampIInv ==
  ASSUME IInv, NEW t \in Loaders, Stamp(t)
  PROVE  IInv'
<1> USE DEF IInv
<1>1. /\ load[t].pc = "stamp" /\ load' = Advance(t) /\ age' = 0
      /\ UNCHANGED <<matcher, config, refresh, etag, gate, loading, kick, timer, log, mishaps, seen>>
  BY DEF Stamp
<1>2. /\ load' \in [Loaders -> LoadRecord] /\ load'[t].pc = "release"
      /\ \A u \in Loaders : u # t => load'[u] = load[u]
  BY <1>1, AdvanceType
<1>3. loading = t /\ \A u \in Loaders : u # t => ~InPoll(u)
  BY <1>1, AloneInPoll DEF InPoll
<1>4. TypeOK'
  BY <1>1, <1>2, ClientAssumption DEF TypeOK
<1> QED
  BY <1>1, <1>2, <1>3, <1>4
  DEF SlotInv, InPoll, EtagInv, Etag, WireInv, AnswerInv, RulesMatchGeneration, PollsArePaced

LEMMA ReleaseIInv ==
  ASSUME IInv, NEW t \in Loaders, Release(t)
  PROVE  IInv'
<1> USE DEF IInv
<1>1. /\ load[t].pc = "release" /\ load' = [load EXCEPT ![t] = Idle] /\ loading' = NoThread
      /\ UNCHANGED <<attributes, kick, timer, log, mishaps, seen>>
  BY DEF Release
<1>2. /\ load' \in [Loaders -> LoadRecord] /\ load'[t] = Idle
      /\ \A u \in Loaders : u # t => load'[u] = load[u]
  BY <1>1, IdleType, OthersStay
<1>3. \A u \in Loaders : u # t => ~InPoll(u)
  BY <1>1, AloneInPoll DEF InPoll
<1>4. TypeOK'
  BY <1>1, <1>2 DEF TypeOK, attributes
<1>5. \A u \in Loaders : load'[u].pc \notin {"wire", "config", "publish", "stamp", "release"}
  BY <1>2, <1>3 DEF InPoll, Idle
<1>6. SlotInv' /\ WireInv' /\ AnswerInv' /\ PollsArePaced'
  BY <1>1, <1>5, ClientAssumption DEF SlotInv, InPoll, WireInv, AnswerInv, PollsArePaced
<1>7. EtagInv' /\ RulesMatchGeneration'
  BY <1>1 DEF EtagInv, Etag, RulesMatchGeneration, attributes
<1> QED
  BY <1>4, <1>6, <1>7

\* The child inherits the attributes and none of the threads.
LEMMA ForkIInv ==
  ASSUME IInv, Fork
  PROVE  IInv'
<1> USE DEF IInv
<1>1. /\ load' = [t \in Loaders |-> Idle] /\ loading' = NoThread /\ mishaps' = mishaps + 1
      /\ UNCHANGED <<attributes, log, seen>>
  BY DEF Fork, SlotInChild
<1>2. kick' \subseteq Kickers
  BY DEF Fork, StartFrom, Kickers
<1>3. timer' \in Timers
  <2>1. timer' = "starting" \/ timer' = timer
    BY Zenon DEF Fork, StartFrom
  <2> QED
    BY <2>1 DEF TypeOK, Timers
<1>4. load' \in [Loaders -> LoadRecord]
  BY <1>1, IdleType
<1>5. TypeOK'
  BY <1>1, <1>2, <1>3, <1>4 DEF TypeOK, attributes
<1>6. SlotInv' /\ WireInv' /\ AnswerInv' /\ PollsArePaced'
  BY <1>1, ClientAssumption DEF SlotInv, InPoll, WireInv, AnswerInv, PollsArePaced, Idle
<1>7. EtagInv' /\ RulesMatchGeneration'
  BY <1>1 DEF EtagInv, Etag, RulesMatchGeneration, attributes
<1> QED
  BY <1>5, <1>6, <1>7

\* The log only grows: what is known of its generations stays true.
LEMMA PublishIInv ==
  ASSUME IInv, Publish
  PROVE  IInv'
<1> USE DEF IInv
<1>1. UNCHANGED <<attributes, loading, kick, timer, load, mishaps, seen>>
  BY DEF Publish
<1>2. PICK g \in Generations : log' = Append(log, g)
  BY DEF Publish
<1>3. /\ log' \in Seq(Generations) /\ log' # <<>> /\ Len(log') = Len(log) + 1 /\ Len(log) \in Nat
      /\ \A i \in 1..Len(log) : log'[i] = log[i]
  BY <1>2 DEF TypeOK
<1>4. seen \in 0..Len(log)
  BY DEF TypeOK
<1>5. TypeOK'
  BY <1>1, <1>3, <1>4 DEF TypeOK, attributes
<1>6. SlotInv' /\ EtagInv' /\ WireInv' /\ PollsArePaced'
  BY <1>1 DEF SlotInv, InPoll, EtagInv, Etag, WireInv, PollsArePaced, Due, Stale, attributes
<1>7. RulesMatchGeneration'
  BY <1>1, <1>3, <1>4 DEF RulesMatchGeneration, attributes
<1>8. AnswerInv'
  BY <1>1, <1>3 DEF AnswerInv, Etag
<1> QED
  BY <1>5, <1>6, <1>7, <1>8

\* What is due stays due: rules do not get fresher by themselves, and a gate that is open stays so.
LEMMA TickIInv ==
  ASSUME IInv, Tick
  PROVE  IInv'
<1> USE DEF IInv
<1>1. UNCHANGED <<matcher, config, refresh, etag, loading, kick, timer, load, log, mishaps, seen>>
  BY DEF Tick
<1>2. refresh \in Nat /\ 10 * AgeCap > 9 * refresh /\ AgeCap \in Nat
  BY ClientAssumption DEF TypeOK, Cadences
<1>3. age' \in 0..AgeCap \cup {Never} /\ gate' \in Nat
  BY <1>2 DEF Tick, TypeOK, Never, Least, Most
<1>4. Due => Due'
  <2>1. gate = 0 => gate' = 0
    BY DEF Tick, Most
  <2>2. Stale => Stale'
    BY <1>1, <1>2 DEF Stale, Tick, Least, TypeOK, Never
  <2> QED
    BY <2>1, <2>2 DEF Due
<1>5. TypeOK'
  BY <1>1, <1>3 DEF TypeOK
<1>6. PollsArePaced'
  BY <1>1, <1>4 DEF PollsArePaced
<1>7. SlotInv' /\ EtagInv' /\ WireInv' /\ AnswerInv' /\ RulesMatchGeneration'
  BY <1>1 DEF SlotInv, InPoll, EtagInv, Etag, WireInv, AnswerInv, RulesMatchGeneration
<1> QED
  BY <1>5, <1>6, <1>7

\* Every step preserves the inductive invariant.
LEMMA StepIInv == IInv /\ [Next]_vars => IInv'
<1> SUFFICES ASSUME IInv, [Next]_vars PROVE IInv'
  OBVIOUS
<1>1. CASE \E k \in Requests : RequestLook(k)
  <2>1. PICK k \in Kickers : LookDue(k)
    BY <1>1 DEF RequestLook, Kickers
  <2> QED
    BY <2>1, KickIInv
<1>2. CASE TimerLook
  BY <1>2, KickIInv DEF TimerLook, Kickers
<1>3. CASE \E k \in Kickers : LookSlot(k) \/ ThreadLimit(k)
  BY <1>3, KickIInv
<1>4. CASE \E t \in Loaders : CallRefresh(t) \/ Load(t)
  BY <1>4, KickIInv, AcquireIInv, AnswerIInv, FailIInv, ReadConfigIInv, InstallIInv, StampIInv, ReleaseIInv DEF Load
<1>5. CASE Start \/ StartTimer \/ Stop
  BY <1>5, KickIInv
<1>6. CASE Fork \/ Publish \/ Tick
  BY <1>6, ForkIInv, PublishIInv, TickIInv
<1>7. CASE UNCHANGED vars
  BY <1>7 DEF IInv, vars, attributes, TypeOK, SlotInv, InPoll, EtagInv, Etag, WireInv, AnswerInv,
              RulesMatchGeneration, PollsArePaced, Due, Stale
<1> QED
  BY <1>1, <1>2, <1>3, <1>4, <1>5, <1>6, <1>7 DEF Next

LEMMA Invariance == Spec => []IInv
<1>1. Init => IInv
  BY InitIInv
<1>2. IInv /\ [Next]_vars => IInv'
  BY StepIInv
<1> QED
  BY <1>1, <1>2, PTL DEF Spec

-----------------------------------------------------------------------------
(* The invariants and the order of answers.                                *)

\* Every attribute and every thread of a client stays in its type: the cadence the server steers to
\* in particular is the default or a poll_seconds of at least the shortest cadence.
THEOREM TypeCorrect == Spec => []TypeOK
<1>1. IInv => TypeOK
  BY DEF IInv
<1> QED
  BY <1>1, Invariance, PTL

\* The rules in place are those of the last generation the client heard of (_publish).
THEOREM RulesAreThoseHeardOf == Spec => []RulesMatchGeneration
<1>1. IInv => RulesMatchGeneration
  BY DEF IInv
<1> QED
  BY <1>1, Invariance, PTL

\* No poll of the client's own is on the wire before it is due (_refresh_if_due).
THEOREM PollsAreOnlySentWhenDue == Spec => []PollsArePaced
<1>1. IInv => PollsArePaced
  BY DEF IInv
<1> QED
  BY <1>1, Invariance, PTL

\* Only Install changes the generation in place, and the answer it installs is no older.
LEMMA SeenSteps ==
  ASSUME IInv, [Next]_vars
  PROVE  \/ UNCHANGED seen
         \/ \E t \in Loaders : Install(t) /\ seen' = load[t].gen /\ seen' >= seen
<1>1. CASE \E t \in Loaders : Install(t)
  <2>1. PICK t \in Loaders : Install(t)
    BY <1>1
  <2>2. seen' = seen \/ seen' = load[t].gen
    BY <2>1 DEF Install
  <2>3. load[t].gen >= seen /\ seen \in Nat
    BY <2>1 DEF Install, IInv, AnswerInv, TypeOK
  <2> QED
    BY <2>1, <2>2, <2>3
<1>2. CASE ~\E t \in Loaders : Install(t)
  BY <1>2 DEF Next, RequestLook, TimerLook, LookDue, LookSlot, ThreadLimit, CallRefresh, Load, Acquire,
              Answer, Fail, ReadConfig, Stamp, Release, Start, StartTimer, Stop, Fork, Publish, Tick, vars
<1> QED
  BY <1>1, <1>2

\* An answer that was given earlier never overwrites the effect of a later one (_poll).
THEOREM AnswersApplyInOrder == Spec => RulesNeverGoBack
<1>1. IInv /\ [Next]_vars => [seen' >= seen]_vars
  <2> SUFFICES ASSUME IInv, [Next]_vars PROVE seen' >= seen
    OBVIOUS
  <2>1. seen \in Nat
    BY DEF IInv, TypeOK
  <2> QED
    BY <2>1, SeenSteps
<1> QED
  BY <1>1, Invariance, PTL DEF Spec, RulesNeverGoBack

-----------------------------------------------------------------------------
(* The client implements the rule feed.                                    *)

Bodied(l) == [g \in DOMAIN l |-> l[g].body]   \* what the feed says of a log

LEMMA InitFeeds == Init => RF!Init
<1> SUFFICES ASSUME Init PROVE RF!Init
  OBVIOUS
<1>1. PICK g \in Generations : log = <<g>>
  BY DEF Init
<1>2. g.body \in Bodies \cup {NoBody}
  BY <1>1, ClientAssumption
<1>3. Bodied(log) = <<g.body>>
  BY <1>1 DEF Bodied
<1>4. Bodied(log) \in {<<r>> : r \in Bodies \cup {NoBody}}
  BY <1>2, <1>3
<1>5. seen = 0 /\ matcher = NoBody /\ (age # Never) = FALSE
  BY DEF Init
<1> QED
  BY <1>4, <1>5 DEF RF!Init, Bodied

\* Install takes up a publication, Stamp warms up, Publish publishes, and nothing else is noticed.
LEMMA StepFeeds == IInv /\ [Next]_vars => [RF!Next]_(RF!vars)
<1> SUFFICES ASSUME IInv, [Next]_vars PROVE [RF!Next]_(RF!vars)
  OBVIOUS
<1>1. CASE \E t \in Loaders : Install(t)
  <2>1. PICK t \in Loaders : Install(t)
    BY <1>1
  <2>2. log' = log /\ age' = age /\ load[t].pc = "publish" /\ IInv'
    BY <2>1, StepIInv DEF Install
  <2>3. CASE seen' = seen
    <3>1. matcher' = matcher
      BY <2>2, <2>3 DEF IInv, RulesMatchGeneration
    <3> QED
      BY <2>2, <2>3, <3>1 DEF RF!vars
  <2>4. CASE seen' # seen
    <3>1. seen' = load[t].gen /\ seen' >= seen
      BY <2>1, <2>4 DEF Install, IInv, AnswerInv, TypeOK
    <3>2. seen' \in 1..Len(log) /\ log \in Seq(Generations)
      BY <2>2, <3>1 DEF IInv, AnswerInv, TypeOK
    <3>3. matcher' = log[seen'].body
      BY <2>2, <3>2 DEF IInv, RulesMatchGeneration
    <3>4. Bodied(log)[seen'] = matcher' /\ Len(Bodied(log)) = Len(log)
      BY <3>2, <3>3 DEF Bodied
    <3>5. RF!TakeUp
      BY <2>2, <3>1, <3>2, <3>4 DEF RF!TakeUp, Bodied
    <3> QED
      BY <3>5 DEF RF!Next
  <2> QED
    BY <2>3, <2>4
<1>2. CASE \E t \in Loaders : Stamp(t)
  <2>1. UNCHANGED <<log, seen, matcher>> /\ age' = 0
    BY <1>2 DEF Stamp
  <2>2. (age' # Never) = TRUE
    BY <2>1 DEF Never
  <2>3. RF!WarmUp
    BY <2>1, <2>2 DEF RF!WarmUp
  <2> QED
    BY <2>3 DEF RF!Next
<1>3. CASE Publish
  <2>1. PICK g \in Generations : log' = Append(log, g)
    BY <1>3 DEF Publish
  <2>2. log \in Seq(Generations) /\ UNCHANGED <<seen, matcher, age>>
    BY <1>3 DEF Publish, attributes, IInv, TypeOK
  <2>3. g.body \in Bodies \cup {NoBody}
    BY ClientAssumption
  <2>4. Bodied(log') = Append(Bodied(log), g.body)
    BY <2>1, <2>2 DEF Bodied
  <2>5. RF!Publish
    BY <2>2, <2>3, <2>4 DEF RF!Publish, Bodied
  <2> QED
    BY <2>5 DEF RF!Next
<1>4. CASE Tick
  <2>1. UNCHANGED <<log, seen, matcher>>
    BY <1>4 DEF Tick
  <2>2. (age' # Never) = (age # Never)
    <3>1. AgeCap \in Nat /\ age \in 0..AgeCap \cup {Never}
      BY ClientAssumption DEF IInv, TypeOK
    <3> QED
      BY <1>4, <3>1 DEF Tick, Never, Least
  <2> QED
    BY <2>1, <2>2 DEF RF!vars
<1>5. CASE UNCHANGED <<log, seen, matcher, age>>
  BY <1>5 DEF RF!vars
<1> QED
  <2>1. \/ \E t \in Loaders : Install(t)
        \/ \E t \in Loaders : Stamp(t)
        \/ Publish \/ Tick
        \/ UNCHANGED <<log, seen, matcher, age>>
    BY DEF Next, RequestLook, TimerLook, LookDue, LookSlot, ThreadLimit, CallRefresh, Load, Acquire,
           Answer, Fail, ReadConfig, Release, Start, StartTimer, Stop, Fork, vars, attributes
  <2> QED
    BY <1>1, <1>2, <1>3, <1>4, <1>5, <2>1

\* A client implements the feed it promises its engine: it holds exactly one of the rule sets that
\* were published, or none, moves only forward, and never gets cold again (_load, _publish).
THEOREM ClientFeedsRules == Spec => FeedsRules
<1>1. Init => RF!Init
  BY InitFeeds
<1>2. IInv /\ [Next]_vars => [RF!Next]_(RF!vars)
  BY StepFeeds
<1> QED
  BY <1>1, <1>2, Invariance, PTL DEF Spec, FeedsRules, RF!Spec

-----------------------------------------------------------------------------
(* A client that is warm is whole.                                         *)

\* What a poll has read and installed is in place until it gives its slot back.
WholeInv ==
    \A t \in Loaders :
        /\ load[t].pc \in {"publish", "stamp"} /\ load[t].config # NoConfig => config = load[t].config
        /\ load[t].pc = "stamp" /\ load[t].kind # "corrupt" => seen = load[t].gen

\* A thread that is not about to publish or to stamp has nothing to keep.
LEMMA QuietStep ==
  ASSUME WholeInv, UNCHANGED <<config, seen>>,
         \A t \in Loaders : load'[t] = load[t] \/ load'[t].pc \notin {"publish", "stamp"}
  PROVE  WholeInv'
BY DEF WholeInv

LEMMA StepWhole == IInv /\ WholeInv /\ [Next]_vars => WholeInv'
<1> SUFFICES ASSUME IInv, WholeInv, [Next]_vars PROVE WholeInv'
  OBVIOUS
<1> DEFINE Quiet == \A u \in Loaders : load'[u] = load[u] \/ load'[u].pc \notin {"publish", "stamp"}
<1>1. CASE \E t \in Loaders : ReadConfig(t)
  <2>1. PICK t \in Loaders : ReadConfig(t)
    BY <1>1
  <2>2. load[t].pc = "config" /\ load' = Advance(t) /\ load[t] \in LoadRecord /\ TypeOK /\ SlotInv
    BY <2>1 DEF ReadConfig, IInv, TypeOK
  <2>3. /\ load'[t] = [load[t] EXCEPT !.pc = "publish"]
        /\ \A u \in Loaders : u # t => load'[u] = load[u]
    BY <2>2, AdvanceType DEF NextPc
  <2>4. load'[t].pc = "publish" /\ load'[t].config = load[t].config
    BY <2>2, <2>3 DEF LoadRecord
  <2>5. \A u \in Loaders : u # t => ~InPoll(u)
    BY <2>2, AloneInPoll DEF InPoll
  <2>6. load[t].config # NoConfig => config' = load[t].config
    BY <2>1 DEF ReadConfig
  <2> QED
    BY <2>3, <2>4, <2>5, <2>6 DEF WholeInv, InPoll
<1>2. CASE \E t \in Loaders : Install(t)
  <2>1. PICK t \in Loaders : Install(t)
    BY <1>2
  <2>2. /\ load[t].pc = "publish" /\ load' = Advance(t) /\ load[t] \in LoadRecord /\ TypeOK /\ SlotInv
        /\ config' = config
    BY <2>1 DEF Install, IInv, TypeOK
  <2>3. /\ load'[t] = [load[t] EXCEPT !.pc = "stamp"]
        /\ \A u \in Loaders : u # t => load'[u] = load[u]
    BY <2>2, AdvanceType DEF NextPc
  <2>4. /\ load'[t].pc = "stamp" /\ load'[t].config = load[t].config
        /\ load'[t].kind = load[t].kind /\ load'[t].gen = load[t].gen
    BY <2>2, <2>3 DEF LoadRecord
  <2>5. \A u \in Loaders : u # t => ~InPoll(u)
    BY <2>2, AloneInPoll DEF InPoll
  <2>6. load[t].kind # "corrupt" => seen' = load[t].gen
    BY <2>1 DEF Install
  <2> QED
    BY <2>2, <2>3, <2>4, <2>5, <2>6 DEF WholeInv, InPoll
<1>3. ASSUME NEW t \in Loaders, Answer(t) PROVE Quiet /\ UNCHANGED <<config, seen>>
  <2>1. load'[t].pc = "config"
    <3>1. PICK kind, c : load' = [Advance(t) EXCEPT ![t].kind = kind, ![t].gen = Latest, ![t].config = c]
      BY <1>3 DEF Answer
    <3>2. load[t].pc = "wire" /\ load[t] \in LoadRecord /\ load \in [Loaders -> LoadRecord]
      BY <1>3 DEF Answer, IInv, TypeOK
    <3>3. Advance(t)[t] = [load[t] EXCEPT !.pc = "config"] /\ DOMAIN Advance(t) = Loaders
      BY <3>2 DEF Advance, NextPc
    <3>4. load'[t] = [[[Advance(t)[t] EXCEPT !.kind = kind] EXCEPT !.gen = Latest] EXCEPT !.config = c]
      BY <3>1, <3>3
    <3> QED
      BY <3>2, <3>3, <3>4 DEF LoadRecord
  <2>2. \A u \in Loaders : u # t => load'[u] = load[u]
    BY <1>3 DEF Answer, Advance, IInv, TypeOK
  <2> QED
    BY <1>3, <2>1, <2>2 DEF Answer
<1>4. ASSUME NEW t \in Loaders, Acquire(t) \/ Fail(t) \/ Release(t)
      PROVE  Quiet /\ UNCHANGED <<config, seen>>
  <2>1. load \in [Loaders -> LoadRecord] /\ load[t] \in LoadRecord
    BY DEF IInv, TypeOK
  <2>2. PICK r : load' = [load EXCEPT ![t] = r] /\ r.pc \in {"wire", "release", "free"}
    <3>1. CASE load' = [load EXCEPT ![t] = [load[t] EXCEPT !.pc = "wire", !.inm = etag]]
      <4>1. [load[t] EXCEPT !.pc = "wire", !.inm = etag].pc = "wire"
        BY <2>1 DEF LoadRecord
      <4> QED
        BY <3>1, <4>1
    <3>2. CASE load' = [load EXCEPT ![t] = [load[t] EXCEPT !.pc = "release"]]
      <4>1. [load[t] EXCEPT !.pc = "release"].pc = "release"
        BY <2>1 DEF LoadRecord
      <4> QED
        BY <3>2, <4>1
    <3>3. CASE load' = [load EXCEPT ![t] = Idle]
      <4>1. Idle.pc = "free"
        BY DEF Idle
      <4> QED
        BY <3>3, <4>1
    <3> QED
      BY <1>4, <2>1, <3>1, <3>2, <3>3 DEF Acquire, Fail, Release
  <2>3. load'[t].pc \notin {"publish", "stamp"} /\ \A u \in Loaders : u # t => load'[u] = load[u]
    BY <2>1, <2>2
  <2> QED
    BY <1>4, <2>3 DEF Acquire, Fail, Release, attributes
<1>5. ASSUME NEW t \in Loaders, Stamp(t) PROVE Quiet /\ UNCHANGED <<config, seen>>
  <2>1. TypeOK /\ load[t].pc = "stamp" /\ load' = Advance(t)
    BY <1>5 DEF Stamp, IInv
  <2> QED
    BY <1>5, <2>1, AdvanceType DEF Stamp
<1>6. ASSUME \/ \E k \in Kickers : LookDue(k) \/ LookSlot(k) \/ ThreadLimit(k)
             \/ \E t \in Loaders : CallRefresh(t)
             \/ Start \/ StartTimer \/ Stop \/ Fork \/ Publish \/ Tick \/ UNCHANGED vars
      PROVE  Quiet /\ UNCHANGED <<config, seen>>
  <2>1. \/ UNCHANGED load
        \/ load' = [t \in Loaders |-> Idle]
        \/ \E t \in Loaders, d \in BOOLEAN : Enter(t, d)
    BY <1>6 DEF LookDue, LookSlot, ThreadLimit, CallRefresh, Start, StartTimer, Stop, Fork, Publish, Tick, vars
  <2>2. Quiet
    <3>1. CASE \E t \in Loaders, d \in BOOLEAN : Enter(t, d)
      BY <3>1 DEF Enter, Idle, IInv, TypeOK
    <3> QED
      BY <2>1, <3>1 DEF Idle
  <2>3. UNCHANGED <<config, seen>>
    BY <1>6 DEF LookDue, LookSlot, ThreadLimit, CallRefresh, Start, StartTimer, Stop, Fork, Publish, Tick, vars, attributes
  <2> QED
    BY <2>2, <2>3
<1> HIDE DEF Quiet
<1>7. \/ Quiet /\ UNCHANGED <<config, seen>>
      \/ \E t \in Loaders : ReadConfig(t) \/ Install(t)
  <2>1. CASE \E k \in Requests : RequestLook(k)
    BY <2>1, <1>6 DEF RequestLook, Kickers
  <2>2. CASE TimerLook
    BY <2>2, <1>6 DEF TimerLook, Kickers
  <2>3. CASE \E t \in Loaders : Load(t)
    BY <2>3, <1>3, <1>4, <1>5 DEF Load
  <2> QED
    BY <2>1, <2>2, <2>3, <1>6 DEF Next
<1>8. Quiet /\ UNCHANGED <<config, seen>> => WholeInv'
  BY QuietStep DEF Quiet
<1> QED
  BY <1>1, <1>2, <1>7, <1>8

\* When the client stops being cold, the rules and the config of the answer that made it so are in
\* place, whatever other threads, failures and forks did meanwhile (_load stamps _loaded_at last).
THEOREM WarmIsWhole == Spec => WarmsUpWhole
<1>1. Init => WholeInv
  BY DEF Init, WholeInv, Idle
<1>2. IInv /\ WholeInv /\ [Next]_vars =>
        [age = Never /\ age' # Never =>
           \E t \in Loaders : /\ load[t].pc = "stamp"
                              /\ load[t].kind # "corrupt" => seen' = load[t].gen
                              /\ load[t].config # NoConfig => config' = load[t].config]_vars
  <2>1. ASSUME WholeInv, [Next]_vars, age = Never, age' # Never
        PROVE  \E t \in Loaders : /\ load[t].pc = "stamp"
                                  /\ load[t].kind # "corrupt" => seen' = load[t].gen
                                  /\ load[t].config # NoConfig => config' = load[t].config
    <3>1. PICK t \in Loaders : Stamp(t)
      BY <2>1 DEF Next, RequestLook, TimerLook, LookDue, LookSlot, ThreadLimit, CallRefresh, Load, Acquire,
                  Answer, Fail, ReadConfig, Install, Release, Start, StartTimer, Stop, Fork, Publish, Tick, vars, attributes
    <3> QED
      BY <2>1, <3>1 DEF Stamp, WholeInv
  <2> QED
    BY <2>1, Zenon
<1> QED
  BY <1>1, <1>2, StepWhole, Invariance, PTL DEF Spec, WarmsUpWhole
=============================================================================

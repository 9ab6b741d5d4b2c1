--------------------------- MODULE SnapshotClient ---------------------------
(***************************************************************************)
(* SnapshotClient (src/camada/snapshot/client.py): the rules and config of *)
(* one process, polled over GET /snapshot by daemon threads and read by    *)
(* request threads without a lock.                                         *)
(*                                                                         *)
(* Time is relative: `age` is clock - _loaded_at, `gate` what is left of   *)
(* _not_before.  A step is what a thread runs without a switch another     *)
(* thread could see: matcher and _etag are two stores with no call between *)
(* them, which CPython (>= 3.10) does not separate, so they are one step.  *)
(* Definitions called ...Mutant are wrong on purpose: nothing uses them.   *)
(***************************************************************************)
EXTENDS Integers, Sequences

CONSTANTS
    Bodies, VersionOf, EtagOf,    \* snapshots, the meta.version and etag header of each
    NoBody, NoEtag,               \* none published; no etag
    Generations,                  \* what the analyst can publish: a snapshot or none, and a config
    Configs, PollOf, NoConfig,    \* x-camada-config, the poll_seconds of each; none, or unreadable
    Retries,                      \* what _parse_retry_after can return
    PollFloor, MinPoll,           \* POLL_FLOOR_S; the shortest cadence the server may steer to
    DefaultRefresh, Pinned, Mode, \* refresh_s, whether the host passed it; "timer" or "lazy"
    Requests, Timer,              \* the threads that call ensure_fresh()
    Loaders, NoThread,            \* the threads in _poll(); nobody
    AgeCap, MaxPublishes, MaxMishaps   \* bounds

Kickers == Requests \cup {Timer}
Cadences == {DefaultRefresh} \cup {r \in {PollOf[c] : c \in Configs} : r >= MinPoll}

ASSUME ClientAssumption ==
    /\ NoThread \notin Loaders /\ NoBody \notin Bodies /\ NoConfig \notin Configs
    /\ Generations \subseteq [body : Bodies \cup {NoBody}, config : Configs]
    /\ PollOf \in [Configs -> Nat] /\ DefaultRefresh \in Nat
    /\ Retries \subseteq Nat /\ 0 \in Retries /\ PollFloor \in Nat /\ MinPoll \in Nat
    /\ Pinned \in BOOLEAN /\ Mode \in {"timer", "lazy"}
    /\ AgeCap \in Nat /\ \A r \in Cadences : 10 * AgeCap > 9 * r
    /\ MaxPublishes \in Nat /\ MaxMishaps \in Nat
\* What revalidation rests on: two snapshots never share an etag.
ASSUME EtagAssumption ==
    \A a, b \in Bodies : EtagOf[a] = EtagOf[b] => a = b \/ EtagOf[a] = NoEtag

VARIABLES
    matcher, config, refresh, etag, age, gate, \* the attributes
    loading,        \* who holds the single-flight slot
    kick,           \* the calls of ensure_fresh() that have found a poll due
    timer,          \* how far start() is, and what became of the timer thread
    load,           \* the threads in _poll()
    log,            \* what the analyst published, oldest first
    mishaps,        \* failed polls, corrupt bodies, threads that could not start and forks so far
    seen            \* history: the generation of the last answer that was applied

attributes == <<matcher, config, refresh, etag, age, gate>>
vars == <<attributes, loading, kick, timer, load, log, mishaps, seen>>

-----------------------------------------------------------------------------
Never == -1     \* the age of a client that has had no answer: _loaded_at = 0
Latest == Len(log)
Etag(b) == IF b = NoBody THEN NoEtag ELSE EtagOf[b]
Least(a, b) == IF a < b THEN a ELSE b
Most(a, b) == IF a > b THEN a ELSE b

\* start() was not called yet; is in its ensure_fresh(); left no thread (lazy, stopped, or it raised);
\* left a thread that runs; or one that ended or never began, which start() takes for a running one.
Timers == {"new", "starting", "none", "running", "dead"}

Kinds == {"body", "unchanged", "empty", "corrupt"}   \* 200, 304, 204, and a 200 that does not parse
Idle == [pc |-> "free", due |-> FALSE, inm |-> NoEtag, kind |-> "corrupt", gen |-> 0, config |-> NoConfig]

Stale == age = Never \/ 10 * age > 9 * refresh
Due == Stale /\ gate = 0

NextPollDelay(retry) == Least(Most(retry, PollFloor), refresh)

Init ==
    /\ matcher = NoBody /\ config = NoConfig /\ refresh = DefaultRefresh
    /\ etag = NoEtag /\ age = Never /\ gate = 0 /\ loading = NoThread
    /\ kick = {} /\ timer = "new"
    /\ load = [t \in Loaders |-> Idle]
    /\ log \in {<<g>> : g \in Generations}
    /\ mishaps = 0 /\ seen = 0

-----------------------------------------------------------------------------
(* ensure_fresh(): a look at _due, then at the slot, then a load thread.   *)

LookDue(k) ==
    /\ k \notin kick /\ Due
    /\ kick' = kick \cup {k}
    /\ UNCHANGED <<attributes, loading, timer, load, log, mishaps, seen>>

\* Every request (engine._decide), once the engine's constructor is done.
RequestLook(k) == timer \notin {"new", "starting"} /\ LookDue(k)
TimerLook == timer = "running" /\ LookDue(Timer)   \* every time the wait of _run times out

\* Thread(target=_refresh_if_due).start(), or the thread that calls refresh().
Enter(t, due) == load[t] = Idle /\ load' = [load EXCEPT ![t] = [Idle EXCEPT !.pc = "acquire", !.due = due]]

LookSlot(k) ==
    /\ k \in kick /\ kick' = kick \ {k}
    /\ IF loading = NoThread THEN \E t \in Loaders : Enter(t, TRUE) ELSE UNCHANGED load
    /\ UNCHANGED <<attributes, loading, timer, log, mishaps, seen>>

\* Thread.start() raises when the process may have no more threads: the engine swallows that for a
\* request; nothing does for the timer thread, which ends, nor for start(), which never makes one.
ThreadLimit(k) ==
    /\ k \in kick /\ kick' = kick \ {k}
    /\ loading = NoThread
    /\ mishaps < MaxMishaps /\ mishaps' = mishaps + 1
    /\ timer' = CASE k = Timer /\ timer = "running"  -> "dead"
                  [] k = Timer /\ timer = "starting" -> "none"
                  [] OTHER                           -> timer
    /\ UNCHANGED <<attributes, loading, load, log, seen>>

CallRefresh(t) ==
    /\ Enter(t, FALSE)
    /\ UNCHANGED <<attributes, loading, kick, timer, log, mishaps, seen>>

-----------------------------------------------------------------------------
(* _poll() and _load() of one thread.                                      *)

SlotFreeMutant == TRUE   \* no single-flight slot
SlotFree == loading = NoThread

MayLoadMutant(t) == TRUE   \* no second look at _due once the slot is taken
MayLoad(t) == load[t].due => Due

\* Take the slot and send what there is to revalidate; or find it taken; or find the poll that just
\* finished has left nothing due.
Acquire(t) ==
    /\ load[t].pc = "acquire"
    /\ IF SlotFree /\ MayLoad(t)
         THEN loading' = t /\ load' = [load EXCEPT ![t].pc = "wire", ![t].inm = etag]
         ELSE load' = [load EXCEPT ![t] = Idle] /\ UNCHANGED loading
    /\ UNCHANGED <<attributes, kick, timer, log, mishaps, seen>>

\* _loaded_at is assigned before _publish.
NextPcMutant == [wire |-> "stamp", stamp |-> "config", config |-> "publish", publish |-> "release"]
\* The order of _load: the config first, _loaded_at last.
NextPc == [wire |-> "config", config |-> "publish", publish |-> "stamp", stamp |-> "release"]
Advance(t) == [load EXCEPT ![t].pc = NextPc[@]]

\* What the analyst may answer about its latest generation: always 200 or 204, 304 for its etag.
AnswerKinds(sent) ==
    LET body == log[Latest].body
    IN {IF body = NoBody THEN "empty" ELSE "body"}
         \cup {k \in {"unchanged"} : sent # NoEtag /\ sent = Etag(body)}

\* 200, 204 or 304, with the config header or without it: the gate opens.
Answer(t) ==
    /\ load[t].pc = "wire"
    /\ \E kind \in AnswerKinds(load[t].inm) \cup {k \in {"corrupt"} : mishaps < MaxMishaps},
          c \in {log[Latest].config, NoConfig} :
         /\ load' = [Advance(t) EXCEPT ![t].kind = kind, ![t].gen = Latest, ![t].config = c]
         /\ mishaps' = IF kind = "corrupt" THEN mishaps + 1 ELSE mishaps
    /\ gate' = 0
    /\ UNCHANGED <<matcher, config, refresh, etag, age, loading, kick, timer, log, seen>>

\* Any other status, or no answer: nothing changes but the gate.
Fail(t) ==
    /\ load[t].pc = "wire"
    /\ mishaps < MaxMishaps /\ mishaps' = mishaps + 1
    /\ load' = [load EXCEPT ![t].pc = "release"]
    /\ \E retry \in Retries : gate' = NextPollDelay(retry)
    /\ UNCHANGED <<matcher, config, refresh, etag, age, loading, kick, timer, log, seen>>

SteersMutant(c) == c # NoConfig /\ ~Pinned   \* any poll_seconds will do
Steers(c) == c # NoConfig /\ ~Pinned /\ PollOf[c] >= MinPoll

\* A readable config replaces the one before and steers the cadence, unless the host pinned it.
ReadConfig(t) ==
    /\ load[t].pc = "config"
    /\ load' = Advance(t)
    /\ config' = IF load[t].config = NoConfig THEN config ELSE load[t].config
    /\ refresh' = IF Steers(load[t].config) THEN PollOf[load[t].config] ELSE refresh
    /\ UNCHANGED <<matcher, etag, age, gate, loading, kick, timer, log, mishaps, seen>>

\* Only the version is compared.
SameSnapshotMutant(body) == matcher # NoBody /\ VersionOf[body] = VersionOf[matcher]
\* The snapshots of one publish share the version: the etag must agree too.
SameSnapshot(body) ==
    /\ matcher # NoBody /\ VersionOf[body] = VersionOf[matcher]
    /\ EtagOf[body] # NoEtag /\ EtagOf[body] = etag

ClearMutant == matcher' = NoBody /\ UNCHANGED etag   \* the etag survives a 204
Clear == matcher' = NoBody /\ etag' = NoEtag

Replace(body) ==
    IF SameSnapshot(body) THEN UNCHANGED <<matcher, etag>> ELSE matcher' = body /\ etag' = EtagOf[body]

\* The rest of _publish.  A body that does not parse raises before either attribute is stored.
Install(t) ==
    /\ load[t].pc = "publish"
    /\ load' = Advance(t)
    /\ CASE load[t].kind = "body"  -> Replace(log[load[t].gen].body)
         [] load[t].kind = "empty" -> Clear
         [] OTHER                  -> UNCHANGED <<matcher, etag>>
    /\ seen' = IF load[t].kind = "corrupt" THEN seen ELSE load[t].gen
    /\ UNCHANGED <<config, refresh, age, gate, loading, kick, timer, log, mishaps>>

\* The finally of _load: whatever became of the body, and after everything else.
Stamp(t) ==
    /\ load[t].pc = "stamp"
    /\ load' = Advance(t)
    /\ age' = 0
    /\ UNCHANGED <<matcher, config, refresh, etag, gate, loading, kick, timer, log, mishaps, seen>>

Release(t) ==
    /\ load[t].pc = "release"
    /\ load' = [load EXCEPT ![t] = Idle]
    /\ loading' = NoThread
    /\ UNCHANGED <<attributes, kick, timer, log, mishaps, seen>>

Load(t) == \/ Acquire(t) \/ Answer(t) \/ Fail(t) \/ ReadConfig(t)
           \/ Install(t) \/ Stamp(t) \/ Release(t)

-----------------------------------------------------------------------------
(* start(), stop(), fork, the analyst and the clock.                       *)

\* start() calls ensure_fresh() itself: a call of Timer's.
StartFrom(kicks) ==
    /\ kick' = kicks \cup {k \in {Timer} : Due}
    /\ timer' = "starting"

\* Called once, by the engine's constructor.
Start ==
    /\ timer = "new"
    /\ StartFrom(kick)
    /\ UNCHANGED <<attributes, loading, load, log, mishaps, seen>>

\* The rest of start(): in timer mode the thread is assigned, then started, which may fail.
StartTimer ==
    /\ timer = "starting" /\ Timer \notin kick
    /\ \/ Mode = "timer" /\ timer' = "running" /\ UNCHANGED mishaps
       \/ Mode = "timer" /\ timer' = "dead" /\ mishaps < MaxMishaps /\ mishaps' = mishaps + 1
       \/ Mode = "lazy" /\ timer' = "none" /\ UNCHANGED mishaps
    /\ UNCHANGED <<attributes, loading, kick, load, log, seen>>

Stop ==
    /\ timer \in {"running", "dead"} /\ timer' = "none"
    /\ UNCHANGED <<attributes, loading, kick, load, log, mishaps, seen>>

SlotInChildMutant == loading   \* held by a thread the child does not have
SlotInChild == NoThread

\* fork, followed into the child: every thread is gone, wherever it was; the attributes stay; the
\* slot is new; in timer mode start() runs, whether or not the parent's thread was stopped or dead.
Fork ==
    /\ mishaps < MaxMishaps /\ mishaps' = mishaps + 1
    /\ load' = [t \in Loaders |-> Idle]
    /\ loading' = SlotInChild
    /\ IF Mode = "timer"
         THEN StartFrom({})
         ELSE kick' = {} /\ UNCHANGED timer
    /\ UNCHANGED <<attributes, log, seen>>

Publish ==
    /\ Latest < MaxPublishes
    /\ \E g \in Generations : log' = Append(log, g)
    /\ UNCHANGED <<attributes, loading, kick, timer, load, mishaps, seen>>

Tick ==
    /\ age' = IF age = Never THEN Never ELSE Least(age + 1, AgeCap)
    /\ gate' = Most(gate - 1, 0)
    /\ UNCHANGED <<matcher, config, refresh, etag, loading, kick, timer, load, log, mishaps, seen>>

Next ==
    \/ \E k \in Requests : RequestLook(k)
    \/ TimerLook
    \/ \E k \in Kickers : LookSlot(k) \/ ThreadLimit(k)
    \/ \E t \in Loaders : CallRefresh(t) \/ Load(t)
    \/ Start \/ StartTimer \/ Stop \/ Fork \/ Publish \/ Tick

Spec == Init /\ [][Next]_vars

\* Threads run, the timer's wait times out, the analyst answers, the clock advances, the engine's
\* constructor makes its one call of start().  Nobody has to send a request or call refresh(), stop()
\* or fork, and nothing starts a stopped or dead timer again but a fork.
Fairness ==
    /\ WF_vars(Start) /\ WF_vars(StartTimer) /\ WF_vars(TimerLook) /\ WF_vars(Tick)
    /\ \A k \in Kickers : WF_vars(LookSlot(k))
    /\ \A t \in Loaders : WF_vars(Load(t))
FairSpec == Spec /\ Fairness

-----------------------------------------------------------------------------
Etags == {EtagOf[b] : b \in Bodies} \cup {NoEtag}
LoadRecord ==
    [pc : {"free", "acquire", "wire", "config", "publish", "stamp", "release"}, due : BOOLEAN,
     inm : Etags, kind : Kinds, gen : Nat, config : Configs \cup {NoConfig}]

TypeOK ==
    /\ matcher \in Bodies \cup {NoBody}
    /\ config \in Configs \cup {NoConfig}
    /\ refresh \in Cadences
    /\ etag \in Etags
    /\ age \in 0..AgeCap \cup {Never}
    /\ gate \in Nat
    /\ loading \in Loaders \cup {NoThread}
    /\ kick \subseteq Kickers
    /\ timer \in Timers
    /\ load \in [Loaders -> LoadRecord]
    /\ log \in Seq(Generations) /\ log # <<>>
    /\ mishaps \in Nat
    /\ seen \in 0..Len(log)

\* The rules in place are those of the last generation the client heard of, whatever mix of 200,
\* 304, 204, corrupt bodies, republished snapshots and forks came before: neither a 304 nor a
\* skipped parse leaves it with the rules of another (_publish, and the etag it keeps).
RulesMatchGeneration == matcher = IF seen = 0 THEN NoBody ELSE log[seen].body

\* An answer that was given earlier never overwrites the effect of a later one (the slot of _poll).
RulesNeverGoBack == [][seen' >= seen]_vars

\* No poll the client makes on its own is on the wire while the rules are fresh or the gate of a
\* failed poll is shut, however many threads had found it due before (_refresh_if_due).
PollsArePaced == \A t \in Loaders : load[t].pc = "wire" /\ load[t].due => Due

\* When the client stops being cold, the answer that made it so is in place: a reader that sees it
\* warm finds the rules and the config of that answer (_load stamps _loaded_at last).
WarmsUpWhole ==
    [][age = Never /\ age' # Never =>
         \E t \in Loaders : /\ load[t].pc = "stamp"
                            /\ load[t].kind # "corrupt" => seen' = load[t].gen
                            /\ load[t].config # NoConfig => config' = load[t].config]_vars

\* Unless it is left without a timer thread (stopped, or a thread could not start: start() never looks
\* at that again), a client ends up enforcing the latest rules the analyst published, through failed
\* polls, corrupt bodies and forks at any moment.
LatestRulesEnforced ==
    <>[](\/ Mode = "timer" /\ timer \in {"none", "dead"}
         \/ age # Never /\ matcher = log[Latest].body)

\* The client implements the rule feed.
RF == INSTANCE RuleFeed WITH
        RuleSets <- Bodies, NoRules <- NoBody,
        published <- [g \in DOMAIN log |-> log[g].body],
        at <- seen, held <- matcher, warm <- age # Never
FeedsRules == RF!Spec
=============================================================================

# Formal model of camada-python

TLA+ models of the in-app part of the camada SDK (`src/src/camada/`), TLC runs over small instances,
and TLAPS proofs for every value of the constants. Paths below are relative to `src/src/camada/`
unless they begin with `src/`.

1. [The system](#the-system)
2. [Modules](#modules)
3. [How the state and the actions correspond to the code](#how-the-state-and-the-actions-correspond-to-the-code)
4. [Runs](#runs)
5. [Fairness](#fairness)
6. [Proofs](#proofs)
7. [What the runs found](#what-the-runs-found)
8. [What is not modelled](#what-is-not-modelled)
9. [Plan](#plan)

## The system

A web process imports camada and wraps its application in an adapter. Each request passes through
the adapter into the *engine*, which resolves the client's address, asks the *snapshot client* for a
verdict, and answers the request itself (block, challenge page, beacon) or lets the application have
it. When the response ends, the engine's `on_finish` pushes one event onto the *event queue*. Two
background threads talk to the analyst: one polls `GET /snapshot`, one posts event batches to
`POST /e`. Nothing is persisted; processes share nothing but the challenge secret.

| component | state it keeps | operations | talks to | what makes it correct |
|---|---|---|---|---|
| snapshot client, `snapshot/client.py` | `matcher`, `config`, `refresh_s`, `_etag`, `_loaded_at`, `_not_before`, the single-flight lock `_loading`, the timer thread | `start`, `stop`, `ensure_fresh`, `refresh`, `_poll`/`_load`/`_publish`, `verdict`, `_after_fork` | request threads (read without a lock), transport, matcher | the rules are those of the last answer; answers apply in order; polls are paced; a warm client has whole rules; the latest rules end up enforced |
| event queue, `events/queue.py` | the deque, `dropped`, `_lock`, `_inflight`, `_wake`, `_stop`, `_thread` | `push`, `flush`, `_run`, `drain`, `stop`, `_after_fork` | request threads, transport, `atexit` | each event leaves once and in order; drops are not invented; a full batch is not left to the interval; the exit drain waits; a push never blocks for good |
| engine, `engine.py` | environment, snapshot client, queue, challenge kit; a context per request | `wants_body`, `handle`/`_decide`, `on_finish`, `serve_challenge`, `_verify`, `track`, `script_tag` | everything | one request, one event; a request is judged by the config that goes with the rules; an exception in camada costs the event, never the request |
| adapters, `wsgi.py`, `asgi.py`, `django.py` | one request's progress | read the body if wanted, call the engine, run the app, add headers, call `on_finish` | engine, server, app | `on_finish` once, however the response ends; the signal is on the headers; the app finds its body untouched |
| `flask.py`, `fastapi.py` | none | `track`, `script_tag`, `serve_challenge` for the request at hand | adapters, engine | they use the engine that judged the request |
| challenge kit, `challenge/verify.py`, `challenge/format.py` | the secret | nonce, `nonce_valid`, `issue`, `token_valid`, `verify` | engine | stateless: who solved is let in for an hour, nobody else; a page outlives midnight and not two days |
| matcher, `snapshot/match.py` | a parsed snapshot | `match` and its lookups | engine | finds what is listed; the first rule decides; a slow regex never exempts |
| snapshot parser, `snapshot/parse.py` | none | decode a container, compile rules and regexes | client, matcher | a damaged body is rejected whole; a rule that cannot be compiled is dropped, and the others keep their own ip ranges |
| paths, `snapshot/paths.py` | a thread-local regex budget | `path_forms`, `prefixed`, `path_hit`, `regex_hit` | matcher | a deny rule catches every spelling, an exemption is not borrowed |
| client address, `ip.py`, `ipparse.py` | none | `resolve_client_ip` | engine | the first hop that nobody of the tenant's vouches for |
| event builder, `events/build.py`, `redact.py` | none | format and redact one event | engine | encoding hides no credential from the scrubbing |
| configuration, `config.py`, `env.py` | read once | parse the environment and `x-camada-config` | engine, client | — |
| default engine, `__init__.py` | one unsynchronised global | `configure`, `get_default`, `engine_for` | adapters | one engine polls; a request is reported to one engine, whose queue ships |
| log limiter, `guarded.py` | a timestamp | `log_rate_limited` | all | — |
| transport, `transport.py` | none | one HTTP request | client, queue | — |
| challenge page, beacon script, constants | literals | — | engine | — |

Hard behaviours: the client's attributes are stored one after another and read by request threads
without a lock; the slot of a poll and the flight of a flush are handed between threads that may not
exist in a forked child; a request reads the client several times, and an ASGI request awaits
between; servers and apps end responses in many ways; clocks of hosts that share a secret differ.
`PROJECT.json` lists every such hazard at its line, with the properties that would catch it.

## Modules

| module | models | extends or instantiates |
|---|---|---|
| `RuleFeed` | abstract specification: what the snapshot client promises its engine | |
| `SnapshotClient` | `snapshot/client.py` in detail; implements `RuleFeed` by a refinement mapping | `RuleFeed` |
| `SnapshotClient_proofs` | theorems about `SnapshotClient` | `SnapshotClient`, TLAPS |
| `EventLedger` | abstract specification: what the queue promises about each event | |
| `EventQueue` | `events/queue.py` in detail; implements `EventLedger` | `EventLedger` |
| `EventQueue_proofs` | theorems about `EventQueue` | `EventQueue`, TLAPS |
| `Engines` | `__init__.py` and what the adapters and wrappers make of the default engine | |
| `Engines_proofs` | theorems about `Engines` | `Engines`, TLAPS |
| `RequestPath` | `engine.py` and the three adapters, with the client's stores around them | |
| `RequestPath_proofs` | theorems about `RequestPath` | `RequestPath`, TLAPS |
| `BodyReader` | how the three adapters read a body and what the app finds after them | |
| `BodyReader_proofs` | theorems about `BodyReader` | `BodyReader`, TLAPS |
| `Challenge` | `challenge/` and the engine's use of it, across hosts and days | |
| `Challenge_proofs` | theorems about `Challenge` | `Challenge`, TLAPS |
| `ClientIp` | `resolve_client_ip` as an operator | |
| `Paths` | `snapshot/paths.py` as operators | |
| `Matcher` | `snapshot/match.py`, the lookups of `parse.py`, the regex budget, as operators | |
| `Container` | `parse_snapshot` and `_compile_rules` as operators | |
| `Cadence` | which ticks of the poll timer poll, on a clock finer than the interval | |
| `Redact` | `scrub_query` as operators | |
| `Decision` | asks the operators of the last six about every case of a set, with reference definitions | those six |
| `Decision_proofs` | theorems about `Decision`: the lookups, the verdict, the ticks, the containers | `Decision`, TLAPS |
| `DecisionRequest_proofs` | theorems about `Decision`: the address, the path and the query | `Decision_proofs` |
| `MC...` | the small instances TLC checks | one of the above |

How they fit: `RequestPath` uses of `SnapshotClient` the order of its stores (config, rules, warm) and
nothing else, and of `EventQueue` that a push is one event. `SnapshotClient`'s `WarmsUpWhole` is what
`RequestPath` relies on, and `JudgedByConfig` is what it means for a request. `Matcher.Match` is what
`RequestPath` abstracts as a ruleset (a verdict per address), `ClientIp.Resolve` what it abstracts as
"the visitor's address if the config is known, else the proxy's", and `Challenge` what it abstracts as
a cookie that expires and a solution that is right or wrong. `BodyReader` is its `ReadBody` in detail,
`Container` the parse that `SnapshotClient` has succeed or fail, `Cadence` its timer with a finer clock.
`Engines` is about many engines where the other modules have one; a row there is an event given to
`EventQueue.push`.

In every module, definitions called `...Mutant` are wrong on purpose. Each is a plausible bug in
the code its neighbour of the same name stands for, nothing uses them, and `PROJECT.json` pairs each with
the property it breaks.

## How the state and the actions correspond to the code

**`SnapshotClient`.** The variables `matcher`, `config`, `refresh`, `etag` are the attributes; `age`
is the clock minus `_loaded_at` (`Never` when that is 0) and `gate` what is left of `_not_before`, so
time stays bounded without a cap on the run. `loading` is the holder of `_loading`. A thread in
`_poll` walks `acquire → wire → config → publish → stamp → release`, one step for each point where
another thread could see a difference: take the slot and look at `_due` again (`Acquire`), the answer
and the gate (`Answer`, `Fail`), `_read_config` (`ReadConfig`), the rest of `_publish` (`Install`),
the `finally` that stamps `_loaded_at` (`Stamp`), the release of the slot. `matcher` and `_etag` are
two stores without a call between them, which CPython from 3.10 on does not separate, so they are one
step. `ensure_fresh` is two looks, at `_due` and at the slot, with other threads in between
(`LookDue`, `LookSlot`); `Thread.start()` may raise (`ThreadLimit`). The engine's constructor calls
`start()` once (`Start`, then `StartTimer` for the timer thread, which may fail to start); `timer` says how
far that is and what has become of the thread. A stopped or dead timer is not started again, but `Fork`,
`_after_fork` seen from the child, calls `start()` anew: all threads gone, a new slot, the attributes kept. The analyst (`Publish`, `AnswerKinds`)
is external: it answers 200 or 204 about its latest generation at any time and 304 for its etag.
`seen` is history: the generation of the last answer applied. Several snapshots of one publish
share a version (formats v3 to v5 of the container), and an answer may come without an etag.

**`EventQueue`.** Events are numbered as pushed. A critical section of `push` is one step, that of
`flush` two, so that a fork finds the lock held. `flush` reads and writes `dropped` in two steps
(`Unanswered`, `Count`) because it does so without the lock. `Daemon` is the thread of `_run`, `Exit`
that of `drain`; a flusher walks `enter → lock → pop → post → count → leave`. `fate` is history: what
became of each event, and what `EventLedger` is about: the refinement mapping is the identity on it.

**`RequestPath`.** A request walks `wants → body → decide → verdict → beacon → pass → app → done`;
each is what it does between two reads of something another thread writes: the adapter's
`wants_body`, its `read_body`, the address (reads `config`), the verdict (reads `_loaded_at` and
`matcher`), the beacon switch, sample and exclude. `App` holds what can happen to the response in
each adapter: the app calls `serve_challenge`, begins the response, returns or sends its last message,
raises, the server closes the iterable, once or twice. A load is `LoadBegins` and three `Store`s; the
header `x-camada-config` it brings may be missing or unreadable (`NoConfig`), which leaves the config there
was, none at first, and warms the client all the same. An exception inside camada is an alternative
of the step it is swallowed in (`Swallows`): before the decision the app runs as if camada were not
there (`Bug`); while a row is made the row is `lost` and nothing else (`Finish`, `Page`);
`serve_challenge()` may fail before or after it marks the request as challenged (`Challenge`); and an
adapter that fails over the headers sends them without the signal (`Tells`). `rows` counts the events a
request ships, `pages` the challenge pages `serve_challenge()` made for it, each of which ships one,
`Owed` the events it should ship.

**`Challenge`.** One browser is followed, because the kit keeps no state: it roams between addresses,
opens pages (`Visit`: a route the app gates, or a rule), sends their form (`Submit`), and any host
answers by its own clock. A MAC is its message: two agree when their messages do.

**`BodyReader`.** The bytes of a body are numbered, and `at` is how many the server has handed over. A
read or receive (`Reads`, `Receives`) returns any piece of what has arrived, and waits if nothing has
and the client is still there: on a connection kept open the end of a body is not seen by reading past
it (`terminated` is FALSE), except where the server frames it (chunks, ASGI's `more_body`, Django's own
request). `Ask`, `Read`, `PutBack`, `Raise` are the adapter, `held` what `io.BytesIO`, `_Chained`,
`_replay` or Django's `request.body` holds for the app, `rest` whether the server's stream is behind
it. What the engine answers itself, the 413 of a body that is `None` among it (over the cap, or, in
Django, one that raised), never reaches the app: that is `RequestPath`'s, and `BodyReader` follows the
requests that fall through. The app reads as its protocol allows: to CONTENT_LENGTH, or to the end where there is one.

**`Engines`.** `default` is the global, `timers` and `halted` what `stop()` and a fork do to each
engine ever built. `get_default` is a look, a construction, an assignment and a second read of the
global, with other threads in between (`Look`, `Build`, `Install`, `Fetch`); `configure` stops, builds
and assigns. A request begins in an adapter that keeps what it resolved (WSGI, ASGI) or not (Django),
its context names the engine that judged it or is absent, and the app calls `track`, `script_tag` or
`serve_challenge` any number of times (`Use`). `raced`, `late` and `revived` are history: they say which
of the known weaknesses of an unsynchronised global had occurred.

**`Container`.** A container is the sequence of its sections, a word of a range section is the name of
a range. The table is refused by arithmetic on word counts; a rule finds its ranges by its index. An
ip condition with an empty `matches` value, which `_compile_cond` answers before it takes its ranges, is
not among the cases.

**`Cadence`.** Ticks a full interval apart or a little later; a poll takes its time, an interval at most, and
is answered or fails with a Retry-After. The timeout of a poll is 3 s and the shortest interval longer,
but it is one of the socket's: an answer that drips may take longer than the interval, and while it does no tick
can poll.

**`Redact`.** A query is a sequence of separators and runs of text, each percent-encoded some number
of times; a run is a credential's name, a value that looks like one, the beginning of a JWT, or
neither. Decoding strips the layers, four at most.

**`ClientIp`, `Paths`, `Matcher`.** Pure operators. An `X-Forwarded-For` entry is what it reads as
after trimming, un-mapping and losing its port; a path is its segments, each with a flag for a
non-canonical spelling and one for a `;parameter`; a condition without a regex is whether it holds, and a regex is
what each text would answer and how long it takes. The binary searches, the bitmap, the `/16` index
and its step back, and the budget arithmetic are as in the code; rows are numbered from 0, as there.

## Runs

| run | instance | checks |
|---|---|---|
| `snapshot_safety` | lazy mode, two load threads, a request thread, three publications, one mishap (failed poll, corrupt body, thread limit or fork) | `TypeOK`, `RulesMatchGeneration`, `PollsArePaced`, `RulesNeverGoBack`, `WarmsUpWhole`, and `FeedsRules` (implements `RuleFeed`) |
| `snapshot_live` | timer mode, one load thread, two publications, two mishaps | `LatestRulesEnforced` |
| `queue` | two pushers, daemon and exit drain, four events, queue, batch and slice of two, one mishap | `EachEventOnce`, `PostedInOrder`, `DroppedNeverOvercounts`, `FullBatchWakes`, `DrainSettles`, `EventsLeave`, `PushIsNotBlocked`, and `KeepsLedger` (implements `EventLedger`) |
| `request_path` | one request through each of three adapters; two loads or switches, over two rulesets and two configs, a header that is missing or cannot be read, a 304 or 204; two calls of `serve_challenge()`; one exception, wherever one is swallowed | `ReportedOnce`, `SignalIsTold`, `JudgedByConfig`, `RefusedOverCap`, `SolutionIsTaken` |
| `challenge` | two addresses and none, two hosts one unit apart, days of 3 units, cookies of 2, 7 units of time | `ThroughMeansSolved`, `SolveSurvivesMidnight`, `NoncesExpire`, `SolverIsLetIn` |
| `decision` | see below | `ResolvesLikeTheChain`, `UpstreamIsIgnored`, `LookupsFindWhatIsListed`, `DetoursAreCaught`, `ExemptionNotBorrowed`, `FirstMatchDecides`, `SlowRegexNeverOpens`, `ContainersReadAsWritten`, `CadenceKept`, `EncodingHidesNothing` |
| `body` | three adapters, a cap of two bytes, bodies of up to four, any length announced or none | `AppSeesItsBody`, `EngineGetsWhole`, `RequestGetsThrough` |
| `engines` | two threads, an adapter that keeps its engine and one that does not, three engines, one fork | `OneRequestOneEngine`, `OneEnginePolls`, `RowsAreShipped` |
| `queue_silent`, `queue_thread_lost`, `request_cold`, `challenge_trap` | small instances | each finds one statement of the docs violated, see [below](#what-the-runs-found) |

Each property has a comment in its module that says what it is about.

**Bounds and why they are enough.**
- *Snapshot client.* Two loaders are what it takes for answers to cross; a third would repeat what
  one of the two does. Three publications let the client hold one, revalidate a second and be
  overtaken by a third: the ABA case of two snapshots of one version, with a 204 or an answer without
  an etag in between. `AgeCap` is past every cadence, so an older age behaves the same. One
  mishap in the safety run puts a failure, a corrupt body or a fork between any two steps; two in the
  live run let a second strike while the client recovers from the first (a fork during the gate, a
  corrupt body after a fork). The proofs below hold for any number. The loaders are symmetric.
- *Event queue.* Four events over a queue of two with slices of two: eviction while a slice is in
  flight, a short last slice, and a second lap. The proofs hold for any sizes. The run stops when all
  events are pushed, hence no deadlock check.
- *Request path.* Requests share nothing but the client and the switch, which change underneath at
  any step, so one request is followed; two changes are what it takes to see a value, act, and see
  another. One exception can fall on any step, and each is swallowed where it happens. `MaxServes` is two, which is what it takes for two pages in one request (see below).
  The proofs hold for any number of requests, changes, pages and exceptions. Requests end, hence no
  deadlock check.
- *Challenge.* Seven units are two midnights and a whole day after; a cookie spans a midnight or not;
  the fast host's clock crosses midnight before the other. The proofs hold for any hosts, clocks and lengths.
- *Decision.* Addresses: every chain of up to three hops over a trusted proxy, an edge, a client,
  another address, a loopback and a text that is no address, in every mode. Lookups: every set of up
  to three disjoint ranges over nine addresses in blocks of two and indexes of four, ASNs on both
  sides of the bitmap's end. Paths: every path of up to three segments of nine kinds, against every
  set of directories of depth two. Verdicts: every list of up to three rules over conditions that
  hold or not, regexes that are quick, slow or over the cap, two texts of one condition, and budgets
  spent halfway. Containers: up to two rules of up to two conditions, known or not, malformed or not,
  with either half of an ip condition empty, behind other sections or none, cut after every number of
  words. Cadence: three ticks, on time or late, with polls that are prompt, slow or almost as long as
  the interval, answered or failed with a short or a long Retry-After. Queries: any three pieces raw,
  encoded once or more often than can be decoded, and any three after a `word=`. Each case is one step
  from the initial state, after which the run stops. The proofs hold for chains, tables, columns, paths, lists
  of rules, containers, numbers of ticks and queries of any size.
- *Body.* Four bytes under a cap of two: shorter, just fitting, one over, and over by more than the one
  byte that is read to find out. The proofs hold for any cap and any length. Requests end, hence no
  deadlock check.
- *Engines.* Three engines are a default, its replacement, and a second one built at once; a thread
  begins requests for ever, so any number of them is followed. Building stops at the bound, hence no
  deadlock check. The proofs hold for any number.

## Fairness

Safety runs assume none. `SnapshotClient`'s `Fairness`: the timer's wait times out, load threads run
and each request to the analyst ends (urllib has a timeout), the clock advances, and the engine's
constructor calls `start()` and the `start()` it or a fork has begun goes on: once, so a timer that was
stopped, or whose thread died or never started, stays so until a fork. Nobody has to send a request, call `refresh()`, `stop()`
or fork. The corrupt bodies and failures are bounded by `MaxMishaps`, which stands for "the analyst
is not down for ever". `LatestRulesEnforced` excuses a client that was stopped and one whose timer
thread died, or never ran, because no thread could be started. `EventQueue`'s `Fairness`: a pusher that found the batch full goes on to set
`wake`, the daemon's wait ends (it has the interval as timeout), a flusher takes its next step
(`POST` has a timeout). The lock of `push` is held within one step and needs no fairness. `BodyReader`: a client
that stays sends its body, and the worker of the request takes its steps when a read can return.

## Proofs

`SnapshotClient_proofs` proves, from `ClientAssumption` (types of the constants; `AgeCap` past every
cadence) and `EtagAssumption` (two snapshots never share an etag, which is what revalidation rests on):

| theorem | states |
|---|---|
| `TypeCorrect` | `Spec => []TypeOK` |
| `RulesAreThoseHeardOf` | `Spec => []RulesMatchGeneration` |
| `PollsAreOnlySentWhenDue` | `Spec => []PollsArePaced` |
| `AnswersApplyInOrder` | `Spec => RulesNeverGoBack` |
| `ClientFeedsRules` | `Spec => FeedsRules`: the client implements `RuleFeed` |
| `WarmIsWhole` | `Spec => WarmsUpWhole` |

for any set of snapshots, etags, configs and threads, any number of failures and forks, pinned or
steered, timer or lazy.

*The inductive invariant.* `RulesMatchGeneration` is not inductive: a 304 keeps the rules in place
and moves `seen`, which is right only because the etag that was sent is that of the rules in place
now. `IInv` therefore adds: `SlotInv`, a thread in the middle of a poll is the one that holds the
slot, so there is one; `EtagInv`, the etag kept is that of the rules in place; `WireInv`, it is also
the one the poll under way was sent with; `AnswerInv`, an answer to be installed is about a generation
no earlier than `seen`, and is of the kind that generation allows. `AloneInPoll` (two threads are never both in a
poll) carries every step of a load. `PollsArePaced` is inductive with `SlotInv`, because only the
thread in the slot can make a poll that was due no longer so. Each action has a lemma; `StepIInv`
combines them. `WarmsUpWhole` needs one more, `WholeInv`: between publishing and stamping, what the
poll stored is what is in place. The refinement has one lemma for the initial states and one for the
steps: `Install` is `TakeUp`, `Stamp` is `WarmUp`, `Publish` is `Publish`, the rest stutters.

`EventQueue_proofs` proves, from `QueueAssumption` (sizes are numbers, queue and slice not zero; the
daemon is not the drain), for any pushers, sizes, events, forks and failures of `Thread.start()`:

| theorem | states |
|---|---|
| `TypesHold` | `Spec => []TypeOK` |
| `QueueInvariant` | `Spec => []IInv` |
| `NoneLostNoneTwice` | `Spec => []EachEventOnce` |
| `LeavesInOrder` | `Spec => []PostedInOrder` |
| `ImplementsLedger` | `Spec => KeepsLedger`: the queue implements `EventLedger` |

*The inductive invariant.* `EachEventOnce` says that what the process holds is what is pending; that a
step keeps it needs to know where each event is. `QueueInv`: the queue is the newest events,
consecutive. `FlightInv`: one flusher is in flight and it alone holds a batch. `BatchInv`: a batch is a
slice of consecutive events, older than the queue. `PendingInv`: pending is what is in either.
`StartInv` (a queue that may start its thread has none) keeps a push from resetting a daemon with a
batch in its hands, and `PostedInOrder` is itself a part: what left is older than what is held. Each
action has a lemma. For the refinement, a push maps to `Push` or `PushOver` with what is on its way as
the witness for the slice the ledger sets aside, an answered or counted batch to `Ship`, a fork to
`Disown`; the rest stutters.

The module goes on from that invariant, under the same assumptions:

| theorem | states |
|---|---|
| `FlightInvariant` | `Spec => []FInv` |
| `CounterNeverInvents` | `Spec => []DroppedNeverOvercounts` |
| `FullBatchWakesTheorem` | `MaxBatch > 0 => (Spec => []FullBatchWakes)` |
| `DrainSettlesTheorem` | `Spec => DrainSettles` |

*The inductive invariant.* `dropped` is read in one step and written in another without the lock, so
`CountInv` speaks of both: neither the counter nor what a flusher has read of it is more than the
events gone, a set that only grows because a fate is final (`FatesAreFinal`); that a batch about to be
counted adds its own events to that set is `CountStep`. `HolderInv`: who holds `_inflight` is in
the middle of a flush, so a drain that finds it free finds nobody's batch. `DrainedInv`: a drain that
leaves has settled everything. A `max_batch` of zero makes every queue a full batch and wakes nobody
who has not pushed, which is why `FullBatchWakes` needs `MaxBatch > 0`.

`RequestPath_proofs` proves, from `RequestAssumption` (types of the constants; no visitor is "no
address"; an answer brings a config or, missing or unreadable, none):

| theorem | states |
|---|---|
| `RequestInvariant` | `Spec => []IInv` |
| `ReportedOnceTheorem` | `Spec => []ReportedOnce` |
| `SignalIsToldTheorem` | `Spec => []SignalIsTold` |
| `JudgedByConfigTheorem` | `Spec => []JudgedByConfig` |
| `RefusedOverCapTheorem` | `Spec => []RefusedOverCap` |
| `SolutionIsTakenTheorem` | `Spec => []SolutionIsTaken` |

*The inductive invariant.* It is about the client (`ClientInv`: a load that brings a config has stored it
before it stores the rules, and a client that has `heard` one still knows one, whatever later answers
bring) and about each request by itself
(`ReqInv`), so a step that writes one request has one proof (`OneRequest`). `Untouched`: until camada
has answered or let it pass, a request has left no trace. `Answered`: what camada answers is over, and
reported there. `Counted`: what the app answers is reported by the pages it made and, once, by
`on_finish`, no more often and, but for the rows an exception took (`Accounted`), no less; it carries
`ReportedOnce` through a response that begins, is closed, raises or ends in any order, and through a
`serve_challenge()` that marked the request and then failed. `Told` and `Judged` are the same for the signal and the config. `Asked` says what the adapter's
early look at config and switch is still worth when `_decide` looks again, and `Settled` which answers
a verify request can have.

`Challenge_proofs` proves, from `ChallengeAssumption` (days and lifetimes are not zero, the hosts are
finitely many, a cookie is not "nothing"):

| theorem | states |
|---|---|
| `ChallengeInvariant` | `Spec => []IInv` |
| `ThroughMeansSolvedTheorem` | `Spec => []ThroughMeansSolved` |
| `SolveSurvivesMidnightTheorem` | `Spec => []SolveSurvivesMidnight` |
| `NoncesExpireTheorem` | `Spec => []NoncesExpire` |
| `SolverIsLetInTheorem` | `ChallengeOn => (Spec => []SolverIsLetIn)` |

*The inductive invariant.* `PageInv`: a page carries the nonce of the address and of the day it was
served to and on. `CookieInv`: the cookie is the one issued when a solution from its address was last
accepted, so its expiry dates that. `SolvedInv`: an engine that challenges has issued a cookie for the
last solution sent in time. The arithmetic of days is in `WithinADay` and `WithinTwoDays` (a day
apart is the same day or the next; on the same day or the next is less than two days apart) and that
of clocks in `MaxAheadBounds`, for hosts whose clocks differ by any amount. Without
`ChallengeOn` the last theorem is false, which is what `challenge_trap` shows.

`BodyReader_proofs` proves, from `BodyAssumption` (types of the constants; no body is not a body), for
any cap, any length of body, and pieces of any sizes:

| theorem | states |
|---|---|
| `BodyInvariant` | `Spec => []IInv` |
| `AppSeesItsBodyTheorem` | `Spec => []AppSeesItsBody` |
| `EngineGetsWholeTheorem` | `Spec => []EngineGetsWhole` |

*The inductive invariant.* What the app finds is spread over what it has read, the pieces put back and
the server's stream. `HeldInv` says that they follow one another: there are cuts, from where the app is
to where the server is, and the piece between two of them holds the bytes between them; that they do not
decrease is said of any two, since what follows from neighbours only would need an induction.
`ReadingInv`: while the adapter reads, its bytes are all that were handed over. `LastInv`: only the
last piece held may say it is the last, and then it is. `EndInv`: an adapter that stops reading, or
hides the stream from the app, does so only where nothing is left in it or it has a byte too many.

`Engines_proofs` proves, from `EnginesAssumption` (the adapters that keep are adapters; `None` is no
engine), for any threads, adapters, engines and forks:

| theorem | states |
|---|---|
| `TypesHold` | `Spec => []TypeOK` |
| `ReportsStayTogether` | `Spec => []OneRequestOneEngine` |
| `OneDefaultPolls` | `Spec => []OneEnginePolls` |
| `ReportsAreShipped` | `Spec => []RowsAreShipped` |

*The inductive invariant.* `RequestInv`: while an adapter resolves its engine nothing has been
reported, and the context names that engine. `ResolvedInv`: the second read of the global finds it
set. `FreshInv`: an engine about to be installed is nobody's yet. `DefaultInv`: the default is a
stopped engine only while a `configure()` is replacing it, and then every request under way is late.
`KeptInv`, `ShippedInv`: who may be judged by a stopped engine. `AloneInv`: unless two built at once,
one that builds for `get_default` has found no default and there still is none.

`Decision_proofs` and `DecisionRequest_proofs` prove, from the assumptions of the modules asked about
(`MatcherAssumption`: blocks, index and budget are not zero; `ClientIpAssumption`: a text that is no
address is not an address, and neither is "no entry"; `PathAssumption`: a segment may read as "", "." or
".."; `CadenceAssumption`: an interval is not zero) and `DecisionAssumption` (the cases are tables in
order and apart, sorted ASN columns, rules as `_compile_rules` makes them, chains of entries, paths of
segments, polls of an interval at most, sections of lists and rules of conditions, queries of pieces):

| theorem | states |
|---|---|
| `LookupsFindTheorem` | `Spec => []LookupsFindWhatIsListed` |
| `FirstMatchTheorem` | `Spec => []FirstMatchDecides` |
| `SlowRegexTheorem` | `Spec => []SlowRegexNeverOpens` |
| `CadenceTheorem` | `Spec => []CadenceKept` |
| `ContainersTheorem` | `Spec => []ContainersReadAsWritten` |
| `ChainTheorem` | `Spec => []ResolvesLikeTheChain` |
| `UpstreamTheorem` | `Spec => []UpstreamIsIgnored` |
| `DetoursTheorem` | `Spec => []DetoursAreCaught` |
| `ExemptionTheorem` | `Spec => []ExemptionNotBorrowed` |
| `EncodingTheorem` | `Spec => []EncodingHidesNothing` |

for tables and ASN columns of any size, any sizes of the blocks and the index, rules, conditions and
texts in any number and of any cost, any number of ticks of any delay, chains of any length over any
ranges, paths of any length over any names, any sections of lists and any rules cut after any number of
words, queries of any length encoded any number of times.

*The argument.* There is no transition to keep an invariant through: an answer is given in one step, and
what has to be shown is what the searches and folds compute. The library's induction theorems take an
operator, so `Induction` states induction for a *set* of numbers and gets it from the well-foundedness
of finite sets. A recursive function is by definition some `f` that solves its equation, if there
is one; each proof first exhibits a solution (`SearchEnds`, `CondChain`, `CondsChain`, `WalkChain`), so
the function solves it, and then argues by `Induction` on the width of the search or on the place in the
list. `SearchFinds`: in a sorted column the search ends at the cut between the entries that are not past
the address and those that are. `RowsAre` says what the table holds of the rows, `IndexSeparates` that
the row sought lies between the two entries of the `/16` index after the step back, and `BitmapCovers`
that a covered address has its block's bit. `RegexHitIs`, `CondIs`, `CondsIs` and `WalkIs` follow a
request through the texts, the conditions and the rules: what comes of each is what would have come
unhurried, or the deny rule's hit, or the skip's miss. `VerdictIs` adds the sides.

The ticks are two recursive functions over places, which exist by `ListExists`. What one tick hands to the next
is `Lasts`: of a poll, its slot, its answer and its gate may last an interval or two; after a tick that was idle
they are an interval nearer their end, so the next one polls. `LastsPrompt` is the same for prompt polls, which
end in time for the very next tick. An address: `FirstOutsideIs` says what the walk over the header
and the peer finds, `Stands` that a place is the one where the chain of hops stops, of which there is exactly one
(`ClientIs`); `ChainIs` puts the two walks of a cidrs config together, the one over all proxies and the one that
leaves Cloudflare's out, and `ClientMoves` shows that an entry written in front moves that place by one and
leaves its hop. A path: `CanonChain` is what `canon_path` has made of the first k segments; what it
makes of them is canonical (`FullIsCanon`) and a canonical path is left alone (`CanonStays`). A detour is
where the walks over the two paths part and meet again (`WalksAgree`, `DetourResolves`): the directory
that was appended is the one that is popped.

A container and a query are folded element by element. A fold is again a chain of intermediate results
(`PickedChain`, `WordsChain`, `FlattenChain`, `SplitChain`), from which follows what one element more at the end
adds (`PickedAdd`, `WordsAdd`, `FlattenAdd`, `SplitAdd`); with `SeqInduction`, induction on sequences
that grow at their end, that says what they are of any sequence. A container: sections end one after the
other, so a body is refused exactly if it ends before the last does (`EndsBetween`, `RefusedIs`).
What is written for the rules is one block of sections for each, and only the block of rule `i` has its
number (`BlockIs`), so picking by number gives that block whole (`PickedBlock`,
`SectionsOfIs`): the n-th ip condition of the rule reads what was written for it (`CompiledIs`), and
a rule that is kept stands at its rank among those kept (`KeptIs`).

A query: splitting at `&` what was joined with `&` gives the parts back (`SplitJoin`), which is why
parts keep their places; encoding touches no separator, so it commutes with splitting (`SplitOnce`). A
part encoded more often than once is tested as the same text, unless it is encoded too deep, and then it is
replaced (`HitsOnce`, `PartAgrees`). Scrubbing a part leaves one that is scrubbed to itself
(`ScrubPartStays`): no pattern takes the `~r` it ends with, and a name that still is a credential's gives
the same `~r` again. `ScrubQueryIs` puts the parts together.

*Only model-checked.* Liveness under fairness (`LatestRulesEnforced`, `EventsLeave`,
`PushIsNotBlocked`, `RequestGetsThrough`): it needs `ENABLED`, out of the prover's reach. Every safety
and action property and both refinements that a passing run checks are proved.

## What the runs found

| run | where | what |
|---|---|---|
| `queue_silent` | `events/queue.py:108` | a batch the ingest refuses (any status but 0) is neither counted in `dropped` nor logged, although "doing it silently is not" by design (`events/queue.py:112-113`) |
| `queue_thread_lost` | `events/queue.py:73` | `push` assigns `_thread` before `start()`: if that raises once, no later push starts a flush thread and events wait for the exit drain |
| `request_cold` | `engine.py:213` | a request that resolves its address before the first load stores the config, and asks for a verdict after it warms up, is enforced by the address of the proxy in front |
| `challenge_trap` | `engine.py:384` | with `challenge=False`, a route gated with `serve_challenge()` shows its page for ever: nothing answers the form |

Each is a documented statement of the code, quoted in `PROJECT.json`, that the run violates.

Met while modelling, and excused by name in the properties concerned:

- `serve_challenge()` called twice in one request ships two `challenge` rows (`engine.py:394`):
  `ReportedOnce` counts as many rows as pages.
- `serve_challenge()` that fails after it has set `ctx["challenged"]` (`engine.py:395`) leaves the request,
  which the app then serves, without any row: `on_finish` takes it for reported (`ReportedOnce`, `lost`).
- An adapter that fails while it adds its headers sends the response without the signal, and `on_finish`
  still reports `chs: 1` (`wsgi.py:182`, `asgi.py:144`, `django.py:147`; `SignalIsTold`, `unstamped`).
- While no answer has brought a readable `x-camada-config`, the client is warm without a config
  (`snapshot/client.py:200-209`, `170`), and requests are enforced by the address of the peer
  (`JudgedByConfig`, `heard`).
- A slow regex of a `warn` rule hits when it is cut off, ends the walk and passes the request, marked, whatever
  a rule below would have done. `SlowRegexNeverOpens` is about exemptions and requests that pass unmarked.
- A read that raises half-way through a body loses the bytes already taken: `read_body` of `wsgi.py` and
  `asgi.py` puts them back only when it returns, and the request falls through to the app without them
  (`AppSeesItsBody`, `raised`).
- Two first requests may each build a default engine, and the one that loses goes on polling
  (`OneEnginePolls`, `raced`). A fork wakes every engine `configure()` had stopped (`revived`).
- A WSGI or ASGI adapter keeps the engine it resolved: after a `configure()` its rows go to a stopped
  queue, which no thread ships (`RowsAreShipped`); what is left there may still go out with the exit drain.

## What is not modelled

- The bytes of a container's sections (`_words`, the bitmaps' layout) and the translation of
  JavaScript regexes, half of `parse.py`: text in, text out, no state.
- The grammar of addresses, ports and masks (`ipparse.py`, parts of `ip.py`): character by character.
- The fields of an event but its query, `body_shape`, `hash_user_id`, `scrub_url` (`scrub_query` on two
  halves of a URL), the challenge page, the beacon script, headers that carry no decision.
- Beacon rows and the text of `script_tag()`: they decide nothing. Which queue `track()` pushes to is
  in `Engines`.
- `guarded.py`: one timestamp; a lost update logs once more, and nothing reads it.
- The exit budget of `drain`: it decides when the interpreter stops waiting, and changes no state.
- A tick of the timer that comes early: the wait of `_run` does not end before its timeout, so `Cadence`
  has late ticks only. What would make a full-interval comparison skip one is that `_loaded_at` is
  stamped after the answer.

## Plan

Done: the four stateful components, the default engine and the body readers, the pure functions of a
verdict and of the query's scrubbing; two refinements; the proofs of every safety and action property
of the stateful modules, of both refinements, and of everything `Decision` says of the pure functions.

Next: lazy mode kept fresh by traffic. The parsing of the challenge form and its return-to path.

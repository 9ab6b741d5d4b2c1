----------------------------- MODULE RequestPath -----------------------------
(***************************************************************************)
(* One process's requests through an adapter (wsgi.py, asgi.py, django.py) *)
(* and the engine (engine.py), while the snapshot client stores what it    *)
(* loads, the kill switch is thrown and cookies expire.                    *)
(*                                                                         *)
(* A step is what a request does between two reads of what others write.   *)
(* Of SnapshotClient only the order of its stores is kept; of EventQueue   *)
(* only how many events a request pushes.  Beacon and track() rows are no  *)
(* request's event and left out.                                           *)
(* An exception inside camada is an alternative of the step it happens in. *)
(* Definitions called ...Mutant are wrong on purpose: nothing uses them.   *)
(***************************************************************************)
EXTENDS Naturals

CONSTANTS
    Requests, Hosts,      \* requests, and the adapters they come through
    Peer, Visitors, NoIp, \* the proxy in front; the addresses it vouches for; no address resolved
    Rulesets,             \* what a snapshot decides about each address
    Configs,              \* x-camada-config; NoConfig: missing, or unreadable
    ChallengeOn,          \* the engine may challenge
    MaxServes,            \* bound: calls of serve_challenge() during a request
    MaxChanges, MaxBugs   \* bounds: loads, and throws of the switch; exceptions during a request

Addresses == {Peer, NoIp} \cup Visitors
Verdicts == {"pass", "block", "challenge"}

\* Before the first config: no proxy is trusted, the beacon is on, every event ships.
NoConfig == [known |-> FALSE, proxy |-> FALSE, beacon |-> TRUE, ships |-> {TRUE}]

ASSUME RequestAssumption ==
    /\ Hosts \subseteq {"wsgi", "asgi", "django"}
    /\ NoIp \notin Visitors \cup {Peer}
    /\ Rulesets \subseteq [Addresses -> Verdicts]
    /\ Configs \subseteq [known : {TRUE}, proxy : BOOLEAN, beacon : BOOLEAN, ships : SUBSET BOOLEAN \ {{}}]
                      \cup {NoConfig}
    /\ ChallengeOn \in BOOLEAN
    /\ MaxServes \in Nat /\ MaxChanges \in Nat /\ MaxBugs \in Nat

VARIABLES
    client,     \* what the engine reads of its SnapshotClient, the load under way, and history
    killed,     \* CAMADA_DISABLED=1
    req,        \* the requests
    changes

vars == <<client, killed, req, changes>>

-----------------------------------------------------------------------------
\* What the request is and brings (`over`: its body is over the cap or, in Django, already consumed);
\* what the engine and the adapter make of it; what comes of it; and history: had a load that brought
\* a config ended, and was the config known, when the address was resolved; did config or switch
\* change since the adapter asked about the body; how many pages serve_challenge() has made, and was
\* it called after the response had begun; how many exceptions there were, how many in the making of
\* a row, and was there one while the headers were stamped.
Idle ==
    [pc |-> "idle", host |-> "wsgi", what |-> "page", from |-> NoIp, html |-> FALSE,
     cookie |-> FALSE, solved |-> FALSE, over |-> FALSE,
     body |-> FALSE, ip |-> NoIp, ctx |-> FALSE, signalled |-> FALSE, challenged |-> FALSE, ships |-> FALSE,
     serves |-> 0, started |-> FALSE, returned |-> FALSE, fired |-> FALSE,
     answer |-> "none", told |-> FALSE, rows |-> 0, pages |-> 0,
     heard |-> FALSE, known |-> FALSE, changed |-> FALSE, late |-> FALSE,
     bugs |-> 0, lost |-> 0, unstamped |-> FALSE]

\* `next` is the store the load under way makes next, or 0; `header` what it brings; `heard` is
\* history: a load that brought a config has ended.
Init ==
    /\ client = [config |-> NoConfig, rules |-> [a \in Addresses |-> "pass"], warm |-> FALSE,
                 next |-> 0, header |-> NoConfig, heard |-> FALSE]
    /\ killed = FALSE
    /\ req = [r \in Requests |-> Idle]
    /\ changes = 0

-----------------------------------------------------------------------------
(* What happens around the requests.                                       *)

Underway(q) == q.pc \in {"body", "decide", "verdict", "beacon", "pass"}
NoteChange == req' = [r \in Requests |-> [req[r] EXCEPT !.changed = @ \/ Underway(req[r])]]

LoadOrderMutant == <<"rules", "warm", "config">>   \* "not cold" is visible before the config is
LoadOrder == <<"config", "rules", "warm">>

\* The analyst answers 200, 204 or 304, with a config or without.
LoadBegins ==
    /\ client.next = 0
    /\ changes < MaxChanges /\ changes' = changes + 1
    /\ \E header \in Configs : client' = [client EXCEPT !.next = 1, !.header = header]
    /\ UNCHANGED <<killed, req>>

\* A header without a config leaves the one before; a 304 or a corrupt body the rules before.
Stored(what) ==
    [config |-> {IF client.header.known THEN client.header ELSE client.config},
     rules |-> Rulesets \cup {client.rules}, warm |-> {TRUE}][what]

\* The next store of the load under way.
Store(what) ==
    /\ client.next # 0 /\ LoadOrder[client.next] = what
    /\ \E v \in Stored(what) :
         client' = [client EXCEPT ![what] = v, !.next = (client.next + 1) % 4,
                                  !.heard = client.heard \/ (what = "warm" /\ client.header.known),
                                  !.header = IF client.next = 3 THEN NoConfig ELSE client.header]
    /\ IF what = "config" /\ client.header.known THEN NoteChange ELSE UNCHANGED req
    /\ UNCHANGED <<killed, changes>>

Switch ==
    /\ changes < MaxChanges /\ changes' = changes + 1
    /\ killed' = ~killed
    /\ NoteChange
    /\ UNCHANGED client

\* The hour of the request's _cch cookie ends.
Expire(r) ==
    /\ req[r].cookie
    /\ req' = [req EXCEPT ![r].cookie = FALSE]
    /\ UNCHANGED <<client, killed, changes>>

-----------------------------------------------------------------------------
(* The adapter, up to the engine's decision.                               *)

Is(r, pc) == req[r].pc = pc
Becomes(r, q) == req' = [req EXCEPT ![r] = q] /\ UNCHANGED <<client, killed, changes>>
Goes(r, pc) == [req[r] EXCEPT !.pc = pc]
\* What becomes of q by an exception that is swallowed: f, once more.
Swallows(q, f) == {[g EXCEPT !.bugs = @ + 1] : g \in {h \in f : q.bugs < MaxBugs}}
\* camada answers; the app does not run.
Answers(r, what, events) == Becomes(r, [req[r] EXCEPT !.pc = "done", !.answer = what, !.rows = @ + events])

Posts == {"beacon", "verify"}

Arrive(r) ==
    /\ Is(r, "idle")
    /\ \E h \in Hosts, w \in {"page", "script"} \cup Posts, f \in Visitors \cup {NoIp},
          html, cookie, solved, over \in BOOLEAN :
         /\ over => w \in Posts
         /\ solved => w = "verify"
         /\ Becomes(r, [Idle EXCEPT !.pc = "wants", !.host = h, !.what = w, !.from = f, !.html = html,
                                    !.cookie = cookie, !.solved = solved, !.over = over])

WantedMutant(q) == ~killed /\ q.what = "beacon" /\ client.config.beacon   \* the verify form is not read
Wanted(q) ==
    /\ ~killed
    /\ \/ q.what = "beacon" /\ client.config.beacon
       \/ q.what = "verify" /\ ChallengeOn

\* wants_body(): only a POST that camada may answer itself is read.
WantsBody(r) ==
    /\ Is(r, "wants")
    /\ Becomes(r, Goes(r, IF Wanted(req[r]) THEN "body" ELSE "decide"))

\* read_body(): nothing is kept of a body over the cap.
ReadBody(r) ==
    /\ Is(r, "body")
    /\ Becomes(r, [Goes(r, "decide") EXCEPT !.body = ~req[r].over])

\* The app runs as if camada were not there.
Inert(r) == [Goes(r, "app") EXCEPT !.signalled = FALSE]

\* An exception before the decision is made ends there (handle, the try of each adapter); but Django's
\* _body swallows its own, see `over`.
Bug(r) ==
    /\ Is(r, "wants") \/ Underway(req[r])
    /\ Is(r, "body") => req[r].host # "django"
    /\ \E q \in Swallows(req[r], {Inert(r)}) : Becomes(r, q)

-----------------------------------------------------------------------------
(* The engine's decision (_decide), one step for each read of the client.  *)

Resolve(q) == IF client.config.proxy THEN q.from ELSE Peer

Decide(r) ==
    /\ Is(r, "decide")
    /\ Becomes(r, IF killed THEN Inert(r)
                  ELSE [Goes(r, "verdict") EXCEPT !.ip = Resolve(req[r]), !.heard = client.heard,
                                                  !.known = client.config.known])

Verdict(q) == IF client.warm THEN client.rules[q.ip] ELSE "pass"

\* _verify(): 413 without a body, the page again for a wrong solution.
Verify(r) ==
    IF ~req[r].body THEN Answers(r, "413", 0)
    ELSE IF req[r].solved THEN Answers(r, "verified", 1) ELSE Answers(r, "again", 0)

\* _serve_challenge(): the page is answered whether or not its row can be made.
Page(r) == \/ Answers(r, "page", 1)
           \/ \E q \in Swallows(req[r], {[Goes(r, "done") EXCEPT !.answer = "page", !.lost = @ + 1]}) : Becomes(r, q)

VerifiesMutant(r, v) == req[r].what = "verify" /\ v # "challenge"   \* the challenged are challenged again
Verifies(r, v) == req[r].what = "verify"

Judge(r) ==
    /\ Is(r, "verdict")
    /\ LET v == Verdict(req[r])
           challengeable == ChallengeOn /\ req[r].ip # NoIp
       IN CASE v = "block" -> Answers(r, "blocked", 1)
            [] v # "block" /\ challengeable /\ Verifies(r, v) -> Verify(r)
            [] v = "challenge" /\ challengeable /\ ~Verifies(r, v) /\ ~req[r].cookie ->
                 IF req[r].html THEN Page(r)
                 ELSE Becomes(r, [Goes(r, "beacon") EXCEPT !.signalled = TRUE])
            [] OTHER -> Becomes(r, Goes(r, "beacon"))

\* The beacon's own endpoints, while the tenant has not switched it off.
Beacon(r) ==
    /\ Is(r, "beacon")
    /\ CASE client.config.beacon /\ req[r].what = "script" -> Answers(r, "script", 0)
         [] client.config.beacon /\ req[r].what = "beacon" -> Answers(r, IF req[r].body THEN "204" ELSE "413", 0)
         [] OTHER -> Becomes(r, Goes(r, "pass"))

\* Passed: sample and exclude are settled now, for on_finish.
Pass(r) ==
    /\ Is(r, "pass")
    /\ \E s \in client.config.ships : Becomes(r, [Goes(r, "app") EXCEPT !.ctx = TRUE, !.ships = s])

-----------------------------------------------------------------------------
(* The app, under the adapter's watch.                                     *)

Ships(q) == IF ~q.challenged /\ (q.signalled \/ q.ships) THEN 1 ELSE 0

FiresOnceMutant(q) == FALSE   \* neither _Closing nor finish() remembers
FiresOnce(q) == q.fired

\* on_finish, if the engine gave one and the adapter has not called it yet: with its row, or without
\* when that cannot be made.
Finish(q) ==
    IF ~q.ctx \/ FiresOnce(q) THEN {q}
    ELSE {[q EXCEPT !.fired = TRUE, !.rows = @ + Ships(q)]}
           \cup Swallows(q, {f \in {[q EXCEPT !.fired = TRUE, !.lost = @ + 1]} : Ships(q) = 1})

\* serve_challenge() once it looks at the request.  It may fail before it has marked a page load as
\* challenged, with the mark set but no page made, or, with the page, in the making of its row.
Challenge(q) ==
    IF q.html
    THEN {[q EXCEPT !.challenged = TRUE, !.rows = @ + 1, !.pages = @ + 1]}
           \cup Swallows(q, {q, [q EXCEPT !.challenged = TRUE, !.lost = @ + 1],
                             [q EXCEPT !.challenged = TRUE, !.lost = @ + 1, !.pages = @ + 1]})
    ELSE {[q EXCEPT !.signalled = TRUE]} \cup Swallows(q, {q})

\* serve_challenge(), called by the app.
Serve(r) ==
    /\ Is(r, "app") /\ req[r].ctx
    /\ req[r].serves < MaxServes
    /\ LET q == [req[r] EXCEPT !.serves = @ + 1, !.late = @ \/ req[r].started]
       IN \E s \in IF killed \/ q.ip = NoIp \/ q.cookie THEN {q} ELSE Challenge(q) : Becomes(r, s)

\* Only what handle() knew.
TellsMutant(q) == {[q EXCEPT !.started = TRUE, !.told = q.signalled /\ q.serves = 0]}
\* The response begins: the adapter adds the signal to its headers, or, when that raises, does not.
Tells(q) ==
    {[q EXCEPT !.started = TRUE, !.told = q.signalled]}
      \cup Swallows(q, {[q EXCEPT !.started = TRUE, !.unstamped = TRUE]})

\* In Django this is the first half of _after.
Start(r) ==
    /\ Is(r, "app") /\ ~req[r].started
    /\ \E q \in Tells(req[r]) :
         Becomes(r, IF q.host = "django" THEN [q EXCEPT !.pc = "stamped"] ELSE q)

\* The WSGI app returns its iterable; the ASGI app has sent its last message, and may go on.
Return(r) ==
    /\ Is(r, "app") /\ ~req[r].returned
    /\ \/ req[r].host = "wsgi" /\ Becomes(r, [req[r] EXCEPT !.returned = TRUE])
       \/ /\ req[r].host = "asgi" /\ req[r].started
          /\ \E q \in Finish(req[r]) : Becomes(r, [q EXCEPT !.returned = TRUE])

\* on_finish, then the request is at pc.
Ends(r, pc) == \E q \in Finish(req[r]) : Becomes(r, [q EXCEPT !.pc = pc])

\* The rest of _after; the response's body may still be streaming.
After(r) == Is(r, "stamped") /\ Ends(r, "done")

\* The app's exception passes through; the ASGI adapter has a finally after its except.
Raise(r) ==
    /\ Is(r, "app")
    /\ req[r].host = "wsgi" => ~req[r].returned
    /\ \E p \in Finish(req[r]) : \E q \in IF p.host = "asgi" THEN Finish(p) ELSE {p} :
         Becomes(r, [q EXCEPT !.pc = "done"])

\* The ASGI app is through, its last message sent or not.
Through(r) == Is(r, "app") /\ req[r].host = "asgi" /\ Ends(r, "done")

\* The iterable is exhausted, raises, or is closed first; then the server calls close(), again.
Close(r) ==
    /\ req[r].host = "wsgi" /\ req[r].returned
    /\ \/ Is(r, "app") /\ Ends(r, "closing")
       \/ Is(r, "closing") /\ Ends(r, "done")

Engine(r) == Decide(r) \/ Judge(r) \/ Beacon(r) \/ Pass(r)
App(r) == Serve(r) \/ Start(r) \/ Return(r) \/ After(r) \/ Raise(r) \/ Through(r) \/ Close(r)

Next ==
    \/ \E what \in {"config", "rules", "warm"} : Store(what)
    \/ LoadBegins \/ Switch
    \/ \E r \in Requests : \/ Arrive(r) \/ WantsBody(r) \/ ReadBody(r) \/ Bug(r)
                           \/ Engine(r) \/ App(r) \/ Expire(r)

Spec == Init /\ [][Next]_vars

-----------------------------------------------------------------------------
Over(r) == Is(r, "done")
Enforced(q) == q.answer \in {"blocked", "page"}

\* The events a request is owed.
Owed(q) ==
    IF q.pages > 0 THEN q.pages
    ELSE IF Enforced(q) \/ q.answer = "verified" \/ (q.ctx /\ (q.signalled \/ q.ships)) THEN 1 ELSE 0

\* One request, one event: whatever the app, the server and the adapter do at its end, a request that
\* is over was reported once if it was blocked, challenged or signalled, if it solved its challenge,
\* or if config lets its event ship, and else not at all (on_finish, _Closing, finish).  An app that
\* gates itself reports every page it makes and no end; once its response has begun it is past
\* gating.  An exception costs at most the row it happened in (on_finish, _serve_challenge) or, in
\* serve_challenge() past its mark, the row of the request's end; none makes a second row.
ReportedOnce ==
    \A r \in Requests : Over(r) /\ ~req[r].late =>
        /\ req[r].rows <= Owed(req[r])
        /\ Owed(req[r]) <= req[r].rows + req[r].lost

\* A request that is reported as signalled had the signal on its response, whether handle() or a
\* serve_challenge() in time signalled it, in every adapter, unless its headers could not be stamped.
SignalIsTold ==
    \A r \in Requests :
        Over(r) /\ req[r].ctx /\ req[r].signalled /\ req[r].started
        => req[r].told \/ req[r].late \/ req[r].unstamped

\* A request that comes after a load that brought a config is enforced by the address its tenant's
\* proxy config resolves, never by that of the proxy in front (_load stores the config before
\* _loaded_at, and nothing takes a config away).  While no answer has brought a readable config a
\* warm client enforces by the address of the peer (_read_config leaves None).
JudgedByConfig == \A r \in Requests : Enforced(req[r]) /\ req[r].heard => req[r].known

\* Only a body over the cap, or one Django cannot give (`over`), is refused, unless the config or the
\* switch changed after the adapter had asked whether to read it (wants_body and _decide look twice).
RefusedOverCap == \A r \in Requests : req[r].answer = "413" => req[r].over \/ req[r].changed

\* A client with the right solution gets its cookie: neither its challenge nor an exception short of
\* bypassing camada is in the way of the verify endpoint (_decide: "The verify endpoint answers first").
SolutionIsTaken ==
    \A r \in Requests :
        /\ Over(r) /\ ChallengeOn /\ req[r].what = "verify" /\ req[r].solved /\ ~req[r].over
        /\ req[r].ip # NoIp /\ (req[r].ctx \/ req[r].answer # "none")
        => req[r].answer \in {"verified", "blocked"} \/ req[r].changed

\* client.py, on _loaded_at: "it must not be visible before the matcher and config are".  So whoever
\* is enforced is enforced by an address its tenant's proxy config resolved.
EnforcedByConfig == \A r \in Requests : Enforced(req[r]) => req[r].known
=============================================================================

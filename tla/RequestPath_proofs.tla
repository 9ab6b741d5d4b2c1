------------------------- MODULE RequestPath_proofs -------------------------
(***************************************************************************)
(* Proofs about RequestPath, for any requests, adapters, snapshots,        *)
(* configs and bounds.  The invariant speaks of one request at a time.     *)
(***************************************************************************)
EXTENDS RequestPath, TLAPS

Config == [known : BOOLEAN, proxy : BOOLEAN, beacon : BOOLEAN, ships : SUBSET BOOLEAN]

Query ==
    [pc : {"idle", "wants", "body", "decide", "verdict", "beacon", "pass", "app", "stamped", "closing", "done"},
     host : {"wsgi", "asgi", "django"}, what : {"page", "script", "beacon", "verify"},
     from : Visitors \cup {NoIp}, html : BOOLEAN, cookie : BOOLEAN, solved : BOOLEAN, over : BOOLEAN,
     body : BOOLEAN, ip : Addresses, ctx : BOOLEAN, signalled : BOOLEAN, challenged : BOOLEAN, ships : BOOLEAN,
     serves : Nat, started : BOOLEAN, returned : BOOLEAN, fired : BOOLEAN,
     answer : {"none", "blocked", "413", "verified", "again", "page", "script", "204"},
     told : BOOLEAN, rows : Nat, pages : Nat,
     heard : BOOLEAN, known : BOOLEAN, changed : BOOLEAN, late : BOOLEAN,
     bugs : Nat, lost : Nat, unstamped : BOOLEAN]

\* Until camada has answered or let it pass, a request has left no trace.
Untouched(q) ==
    q.pc \in {"idle", "wants"} \/ Underway(q) =>
        /\ ~q.ctx /\ ~q.challenged /\ ~q.started /\ ~q.fired /\ ~q.late
        /\ q.answer = "none" /\ q.rows = 0 /\ q.pages = 0 /\ q.lost = 0

\* There are no more rows than n, and no fewer but for the lost ones.
Accounted(q, n) == q.rows <= n /\ n <= q.rows + q.lost

\* What camada answers is over, and reported there and then.
Answered(q) ==
    q.answer # "none" =>
        /\ q.pc = "done" /\ ~q.ctx /\ ~q.challenged /\ q.pages = 0
        /\ Accounted(q, IF Enforced(q) \/ q.answer = "verified" THEN 1 ELSE 0)

\* What the app answers is reported by the pages it made and, once on_finish has fired, by that; it has
\* fired by the end, and before the end only if the response has begun.  A request that is marked as
\* challenged has a page, or has lost its row.
Counted(q) ==
    /\ q.pc \in {"closing", "done"} /\ q.ctx => q.fired
    /\ q.pc = "app" /\ q.fired => q.started
    /\ q.answer = "none" /\ ~q.late =>
         /\ Accounted(q, q.pages + (IF q.fired THEN Ships(q) ELSE 0))
         /\ q.fired \/ q.challenged => q.ctx
         /\ ~q.challenged => q.pages = 0
         /\ q.challenged /\ q.pages = 0 => q.lost > 0

Told(q) == q.ctx /\ q.signalled /\ q.started /\ ~q.late => q.told \/ q.unstamped

Judged(q) == q.heard => q.known

\* Unless config or switch has changed since, whoever comes without a body has one over the cap, or was
\* not to be asked for it and still is not.
Asked(q) ==
    ~q.changed =>
        /\ q.pc \in {"decide", "verdict", "beacon"} /\ ~q.body /\ ~q.over => ~Wanted(q)
        /\ q.pc \in {"verdict", "beacon"} => ~killed
        /\ q.answer = "413" => q.over

\* A verify POST of an address that can be challenged is answered by _verify() or blocked.
Settled(q) ==
    ChallengeOn /\ q.what = "verify" /\ q.ip # NoIp =>
        /\ q.pc \notin {"beacon", "pass"} /\ ~q.ctx
        /\ q.answer \in {"none", "blocked", "413", "verified", "again"}
        /\ q.answer = "again" => ~q.solved

ReqInv(q) == Untouched(q) /\ Answered(q) /\ Counted(q) /\ Told(q) /\ Judged(q) /\ Asked(q) /\ Settled(q)

Client == [config : Config, rules : [Addresses -> Verdicts], warm : BOOLEAN, next : 0..3,
           header : Config, heard : BOOLEAN]

\* Once a load that brings a config has made its first store the config is known, and stays so.
ClientInv ==
    /\ client \in Client
    /\ client.heard => client.config.known
    /\ client.next \in {2, 3} /\ client.header.known => client.config.known
    /\ killed \in BOOLEAN

IInv == ClientInv /\ req \in [Requests -> Query] /\ \A r \in Requests : ReqInv(req[r])

-----------------------------------------------------------------------------
(* From one request to all. *)

\* A step that writes one request keeps the invariant if what it writes does.
LEMMA OneRequest ==
    ASSUME IInv, NEW r \in Requests, NEW q \in Query, ReqInv(q),
           Becomes(r, q) \/ (UNCHANGED <<client, killed>> /\ req' = [req EXCEPT ![r] = q])
    PROVE  IInv'
<1>1. UNCHANGED <<client, killed>> /\ req' = [req EXCEPT ![r] = q] BY DEF Becomes
<1>2. ClientInv' BY <1>1 DEF IInv, ClientInv
<1>3. req' \in [Requests -> Query] BY <1>1 DEF IInv
<1>4. ASSUME NEW s \in Requests PROVE ReqInv(req[s])'
    <2>1. ReqInv(req'[s]) BY <1>1 DEF IInv
    <2>2. Asked(req'[s]) <=> Asked(req[s])' BY <1>1 DEF Asked, Wanted
    <2> QED BY <2>1, <2>2 DEF ReqInv, Untouched, Answered, Counted, Told, Judged, Settled
<1> QED BY <1>2, <1>3, <1>4 DEF IInv

\* What the end of a request leaves alone; and on_finish.
SameButEnd(f, q) ==
    /\ f.what = q.what /\ f.ip = q.ip /\ f.ctx = q.ctx /\ f.answer = q.answer
    /\ f.started = q.started /\ f.late = q.late /\ f.told = q.told /\ f.unstamped = q.unstamped
    /\ f.pages = q.pages /\ f.signalled = q.signalled /\ f.challenged = q.challenged /\ f.ships = q.ships
    /\ f.heard = q.heard /\ f.known = q.known /\ f.changed = q.changed
    /\ f.body = q.body /\ f.over = q.over /\ f.solved = q.solved
SameButCount(f, q) == f.pc = q.pc /\ SameButEnd(f, q)
SameReport(f, q) == SameButCount(f, q) /\ f.fired = q.fired /\ f.rows = q.rows /\ f.lost = q.lost

\* The invariant reads nothing of a request but what an end and a count may touch.
LEMMA SameKeeps ==
    ASSUME NEW q \in Query, ReqInv(q), NEW f, SameReport(f, q)
    PROVE  ReqInv(f)
<1> USE DEF SameReport, SameButCount, SameButEnd
<1>1. Untouched(f) /\ Answered(f) BY DEF ReqInv, Untouched, Answered, Underway, Enforced, Accounted
<1>2. Counted(f) BY DEF ReqInv, Counted, Ships, Accounted
<1>3. Told(f) /\ Judged(f) /\ Settled(f) BY DEF ReqInv, Told, Judged, Settled
<1>4. Asked(f) BY DEF ReqInv, Asked, Wanted
<1> QED BY <1>1, <1>2, <1>3, <1>4 DEF ReqInv

\* An exception that is swallowed leaves the request as it is otherwise.
LEMMA SwallowsOne ==
    ASSUME NEW q, NEW f, NEW g \in Swallows(q, f)
    PROVE  \E h \in f : g = [h EXCEPT !.bugs = @ + 1]
BY DEF Swallows

LEMMA BugCounts ==
    ASSUME NEW h \in Query, NEW g, g = [h EXCEPT !.bugs = @ + 1]
    PROVE  g \in Query /\ SameReport(g, h)
<1> DEFINE n == h.bugs + 1
<1>1. n \in Nat BY DEF Query
<1>2. g = [h EXCEPT !.bugs = n] OBVIOUS
<1> HIDE DEF n
<1>3. g \in Query BY ONLY <1>1, <1>2, h \in Query DEF Query
<1>4. SameReport(g, h) BY ONLY <1>2, h \in Query DEF Query, SameReport, SameButCount, SameButEnd
<1> QED BY <1>3, <1>4

LEMMA BugKeeps ==
    ASSUME NEW h \in Query, ReqInv(h), NEW g, g = [h EXCEPT !.bugs = @ + 1]
    PROVE  g \in Query /\ ReqInv(g) /\ SameReport(g, h)
BY BugCounts, SameKeeps

-----------------------------------------------------------------------------
(* The app, under the adapter's watch. *)

\* on_finish accounts for what was not reported yet, once.
LEMMA FinishCounts ==
    ASSUME NEW q \in Query, NEW f \in Finish(q)
    PROVE  /\ f \in Query /\ SameButCount(f, q)
           /\ q.fired \/ ~q.ctx => f = q
           /\ q.ctx => f.fired
           /\ q.ctx /\ ~q.fired => \/ f.rows = q.rows + Ships(q) /\ f.lost = q.lost
                                   \/ Ships(q) = 1 /\ f.rows = q.rows /\ f.lost = q.lost + 1
<1>1. CASE ~q.ctx \/ q.fired BY <1>1 DEF Finish, FiresOnce, SameButCount, SameButEnd, Query
<1>2. CASE q.ctx /\ ~q.fired
    <2> DEFINE n == q.rows + Ships(q)  reported == [q EXCEPT !.fired = TRUE, !.rows = n]
               k == q.lost + 1  missed == [q EXCEPT !.fired = TRUE, !.lost = k]
    <2>1. f = reported \/ f \in Swallows(q, {g \in {missed} : Ships(q) = 1})
        BY <1>2 DEF Finish, FiresOnce
    <2>2. n \in Nat /\ k \in Nat BY DEF Ships, Query
    <2> HIDE DEF n, k
    <2>3. CASE f = reported
        <3>1. f \in Query BY ONLY <2>2, <2>3, q \in Query DEF Query
        <3>2. SameButCount(f, q) /\ f.fired /\ f.rows = n /\ f.lost = q.lost
            BY ONLY <2>3, q \in Query DEF Query, SameButCount, SameButEnd
        <3> QED BY <1>2, <3>1, <3>2 DEF n
    <2>4. CASE f \in Swallows(q, {g \in {missed} : Ships(q) = 1})
        <3>1. PICK m \in {g \in {missed} : Ships(q) = 1} : f = [m EXCEPT !.bugs = @ + 1]
            BY <2>4, SwallowsOne
        <3>2. m = missed /\ Ships(q) = 1 BY <3>1
        <3>3. m \in Query BY ONLY <2>2, <3>2, q \in Query DEF Query
        <3>4. SameButCount(m, q) /\ m.fired /\ m.rows = q.rows /\ m.lost = k
            BY ONLY <3>2, q \in Query DEF Query, SameButCount, SameButEnd
        <3>5. f \in Query /\ SameReport(f, m) BY <3>1, <3>3, BugCounts
        <3> QED BY <1>2, <3>2, <3>4, <3>5 DEF SameReport, SameButCount, SameButEnd, k
    <2> QED BY <2>1, <2>3, <2>4
<1> QED BY <1>1, <1>2

\* on_finish called twice reports as if called once (_Closing, finish).
LEMMA FinishOnce == ASSUME NEW q \in Query, NEW f \in Finish(q), NEW g \in Finish(f) PROVE g = f
<1>1. f \in Query /\ (q.ctx => f.fired) /\ (~q.ctx => f = q) BY FinishCounts
<1> QED BY <1>1, FinishCounts DEF Query

\* What the app's share of Counted says when on_finish has been called.
Reported(f) ==
    ~f.late => /\ Accounted(f, f.pages + (IF f.fired THEN Ships(f) ELSE 0))
               /\ f.fired \/ f.challenged => f.ctx
               /\ ~f.challenged => f.pages = 0
               /\ f.challenged /\ f.pages = 0 => f.lost > 0

\* What Finish keeps of the invariant, whatever comes next.
LEMMA FinishKeeps ==
    ASSUME NEW q \in Query, ReqInv(q), q.pc \in {"app", "stamped", "closing"}, NEW f \in Finish(q)
    PROVE  /\ f \in Query /\ f.answer = "none" /\ (f.ctx => f.fired)
           /\ f.pc # "app" \/ f.started => Counted(f)
           /\ Reported(f)
           /\ Told(f) /\ Judged(f) /\ Asked(f) /\ Settled(f)
<1>1. f \in Query /\ SameButCount(f, q) /\ q.answer = "none"
    BY FinishCounts DEF ReqInv, Answered, Query
<1>2. (f.ctx => f.fired) /\ Ships(f) = Ships(q) BY <1>1, FinishCounts DEF SameButCount, SameButEnd, Ships
<1>3. Reported(f)
    <2>1. Reported(q) BY <1>1 DEF ReqInv, Counted, Reported
    <2>2. CASE q.fired \/ ~q.ctx BY <2>1, <2>2, FinishCounts
    <2>3. CASE q.ctx /\ ~q.fired
        <3>1. \/ f.rows = q.rows + Ships(q) /\ f.lost = q.lost
              \/ Ships(q) = 1 /\ f.rows = q.rows /\ f.lost = q.lost + 1
            BY <2>3, FinishCounts
        <3>2. f.fired /\ f.ctx /\ f.late = q.late /\ f.challenged = q.challenged /\ f.pages = q.pages
            BY <1>1, <1>2, <2>3 DEF SameButCount, SameButEnd
        <3>3. /\ q.rows \in Nat /\ q.lost \in Nat /\ q.pages \in Nat /\ Ships(q) \in Nat
            BY DEF Query, Ships
        <3> HIDE DEF Ships
        <3> QED BY <1>2, <2>1, <2>3, <3>1, <3>2, <3>3 DEF Reported, Accounted
    <2> QED BY <2>2, <2>3
<1>4. f.pc # "app" \/ f.started => Counted(f) BY <1>1, <1>2, <1>3 DEF Counted, Reported
<1>5. Told(f) /\ Judged(f) /\ Asked(f) /\ Settled(f)
    BY <1>1 DEF SameButCount, SameButEnd, ReqInv, Told, Judged, Asked, Settled, Wanted
<1> QED BY <1>1, <1>2, <1>3, <1>4, <1>5 DEF SameButCount, SameButEnd

\* A request that ends is accounted for by then.
LEMMA EndKeeps ==
    ASSUME NEW q \in Query, ReqInv(q), q.pc \in {"app", "stamped", "closing"}, NEW f \in Finish(q),
           NEW pc \in {"closing", "done"}, NEW e, e = [f EXCEPT !.pc = pc]
    PROVE  e \in Query /\ ReqInv(e)
<1>1. /\ f \in Query /\ f.answer = "none" /\ (f.ctx => f.fired) /\ Reported(f)
      /\ Told(f) /\ Judged(f) /\ Asked(f) /\ Settled(f)
    BY FinishKeeps
<1>2. e \in Query BY ONLY <1>1, e = [f EXCEPT !.pc = pc], pc \in {"closing", "done"} DEF Query
<1>3. e.pc = pc /\ e.fired = f.fired /\ e.rows = f.rows /\ e.lost = f.lost /\ SameButEnd(e, f)
    BY <1>1 DEF Query, SameButEnd
<1>4. Untouched(e) /\ Answered(e) BY <1>1, <1>3 DEF SameButEnd, Untouched, Answered, Underway
<1>5. Counted(e) BY <1>1, <1>3 DEF SameButEnd, Counted, Reported, Accounted, Ships
<1>6. Told(e) /\ Judged(e) /\ Settled(e) BY <1>1, <1>3 DEF SameButEnd, Told, Judged, Settled
<1>7. Asked(e) BY <1>1, <1>3 DEF SameButEnd, Asked
<1> QED BY <1>2, <1>4, <1>5, <1>6, <1>7 DEF ReqInv

\* A step to an end (Ends).
LEMMA EndsStep ==
    ASSUME IInv, NEW r \in Requests, req[r].pc \in {"app", "stamped", "closing"},
           NEW pc \in {"closing", "done"}, Ends(r, pc)
    PROVE  IInv'
<1>1. req[r] \in Query /\ ReqInv(req[r]) BY DEF IInv
<1>2. PICK f \in Finish(req[r]) : Becomes(r, [f EXCEPT !.pc = pc]) BY DEF Ends
<1>3. PICK e : e = [f EXCEPT !.pc = pc] OBVIOUS
<1>4. e \in Query /\ ReqInv(e) BY <1>1, <1>3, EndKeeps
<1> QED BY <1>2, <1>3, <1>4, OneRequest

\* The response begins with what the context says by then, or cannot be stamped.
LEMMA TellsKeeps ==
    ASSUME NEW q \in Query, ReqInv(q), q.pc = "app", ~q.started, NEW t \in Tells(q)
    PROVE  t \in Query /\ ReqInv(t) /\ t.pc = "app" /\ t.host = q.host /\ t.fired = FALSE /\ t.started
<1> DEFINE stamped == [q EXCEPT !.started = TRUE, !.told = q.signalled]
           plain == [q EXCEPT !.started = TRUE, !.unstamped = TRUE]
<1>1. stamped \in Query /\ plain \in Query BY DEF Query
<1>2. PICK f \in {stamped, plain} : t = f \/ t = [f EXCEPT !.bugs = @ + 1]
    <2>1. t = stamped \/ t \in Swallows(q, {plain}) BY DEF Tells
    <2> HIDE DEF stamped, plain
    <2>2. CASE t \in Swallows(q, {plain})
        <3>1. PICK h \in {plain} : t = [h EXCEPT !.bugs = @ + 1] BY <2>2, SwallowsOne
        <3> QED BY <3>1
    <2> QED BY <2>1, <2>2
<1>3. f \in Query /\ f.pc = "app" /\ f.started /\ f.host = q.host
    <2>1. CASE f = stamped BY <1>1, <2>1 DEF Query
    <2>2. CASE f = plain BY <1>1, <2>2 DEF Query
    <2> QED BY <1>2, <2>1, <2>2
<1>4. f.told = q.signalled \/ f.unstamped
    <2>1. CASE f = stamped BY <2>1 DEF Query
    <2>2. CASE f = plain BY <2>2 DEF Query
    <2> QED BY <1>2, <2>1, <2>2
<1>5. /\ f.ctx = q.ctx /\ f.signalled = q.signalled /\ f.challenged = q.challenged /\ f.ships = q.ships
      /\ f.fired = q.fired /\ f.late = q.late /\ f.answer = q.answer /\ f.rows = q.rows /\ f.lost = q.lost
      /\ f.pages = q.pages /\ f.what = q.what /\ f.ip = q.ip /\ f.solved = q.solved /\ f.over = q.over
      /\ f.heard = q.heard /\ f.known = q.known /\ f.changed = q.changed
    <2>1. CASE f = stamped BY <2>1 DEF Query
    <2>2. CASE f = plain BY <2>2 DEF Query
    <2> QED BY <1>2, <2>1, <2>2
<1>6. ~q.fired BY DEF ReqInv, Counted, Query
<1> HIDE DEF stamped, plain
<1>7. Untouched(f) /\ Answered(f) BY <1>3, <1>5 DEF ReqInv, Untouched, Answered, Underway, Enforced, Accounted
<1>8. Counted(f) BY <1>3, <1>5 DEF ReqInv, Counted, Ships, Accounted
<1>9. Told(f) BY <1>4, <1>5 DEF Told
<1>10. Judged(f) /\ Settled(f) BY <1>3, <1>5 DEF ReqInv, Judged, Settled
<1>11. Asked(f) BY <1>3, <1>5 DEF ReqInv, Asked
<1>12. ReqInv(f) BY <1>7, <1>8, <1>9, <1>10, <1>11 DEF ReqInv
<1>13. t.host = f.host BY <1>2, <1>3 DEF Query
<1> QED BY <1>2, <1>3, <1>5, <1>6, <1>12, <1>13, BugKeeps DEF SameReport, SameButCount, SameButEnd, Query

\* serve_challenge() reports the page it makes, or loses a row by an exception, or signals, or does
\* nothing.
LEMMA ServeKeeps ==
    ASSUME IInv, NEW r \in Requests, Serve(r)
    PROVE  IInv'
<1> DEFINE p == req[r]
           q == [p EXCEPT !.serves = @ + 1, !.late = @ \/ p.started]
           made == [q EXCEPT !.challenged = TRUE, !.rows = @ + 1, !.pages = @ + 1]
           unmade == [q EXCEPT !.challenged = TRUE, !.lost = @ + 1]
           rowless == [q EXCEPT !.challenged = TRUE, !.lost = @ + 1, !.pages = @ + 1]
           told == [q EXCEPT !.signalled = TRUE]
<1>1. p \in Query /\ ReqInv(p) /\ p.pc = "app" /\ p.ctx BY DEF IInv, Serve, Is
<1>2. PICK g : /\ Becomes(r, g)
               /\ g \in {q} \/ g \in Challenge(q)
    BY DEF Serve
<1>3. PICK f \in {q, made, unmade, rowless, told} : g = f \/ g = [f EXCEPT !.bugs = @ + 1]
    <2> HIDE DEF q
    <2>1. \/ g \in {q, made, told}
          \/ g \in Swallows(q, {q, unmade, rowless}) \/ g \in Swallows(q, {q})
        BY <1>2 DEF Challenge
    <2>2. CASE g \in {q, made, told} BY <2>2
    <2>3. CASE g \in Swallows(q, {q, unmade, rowless})
        <3> HIDE DEF unmade, rowless
        <3>1. PICK h \in {q, unmade, rowless} : g = [h EXCEPT !.bugs = @ + 1] BY <2>3, SwallowsOne
        <3> QED BY <3>1
    <2>4. CASE g \in Swallows(q, {q})
        <3>1. PICK h \in {q} : g = [h EXCEPT !.bugs = @ + 1] BY <2>4, SwallowsOne
        <3> QED BY <3>1
    <2> QED BY <2>1, <2>2, <2>3, <2>4
<1>4. q \in Query
    <2> DEFINE n == p.serves + 1  b == p.late \/ p.started
    <2>1. n \in Nat /\ b \in BOOLEAN BY <1>1 DEF Query
    <2>2. q = [p EXCEPT !.serves = n, !.late = b] OBVIOUS
    <2> HIDE DEF n, b, p, q
    <2> QED BY ONLY <1>1, <2>1, <2>2 DEF Query
<1>5. f \in Query
    <2> HIDE DEF q
    <2> DEFINE n == q.rows + 1  m == q.pages + 1  k == q.lost + 1
    <2>1. n \in Nat /\ m \in Nat /\ k \in Nat BY <1>4 DEF Query
    <2>2. /\ made = [q EXCEPT !.challenged = TRUE, !.rows = n, !.pages = m]
          /\ unmade = [q EXCEPT !.challenged = TRUE, !.lost = k]
          /\ rowless = [q EXCEPT !.challenged = TRUE, !.lost = k, !.pages = m]
        OBVIOUS
    <2> HIDE DEF n, m, k, made, unmade, rowless
    <2>3. made \in Query BY ONLY <1>4, <2>1, <2>2 DEF Query
    <2>4. unmade \in Query BY ONLY <1>4, <2>1, <2>2 DEF Query
    <2>5. rowless \in Query BY ONLY <1>4, <2>1, <2>2 DEF Query
    <2>6. told \in Query BY ONLY <1>4 DEF Query, told
    <2> QED BY <1>3, <1>4, <2>3, <2>4, <2>5, <2>6
<1>6. ASSUME p.fired \/ p.started PROVE f.late /\ p.started
    <2>1. p.started BY <1>1, <1>6 DEF ReqInv, Counted
    <2>2. q.late BY <1>1, <2>1 DEF Query
    <2> HIDE DEF q
    <2> QED BY <1>3, <1>4, <2>1, <2>2 DEF Query
<1>7. /\ q.pc = p.pc /\ q.ctx = p.ctx /\ q.fired = p.fired /\ q.started = p.started /\ q.answer = p.answer
      /\ q.what = p.what /\ q.ip = p.ip /\ q.solved = p.solved /\ q.body = p.body /\ q.over = p.over
      /\ q.heard = p.heard /\ q.known = p.known /\ q.changed = p.changed
      /\ q.challenged = p.challenged /\ q.rows = p.rows /\ q.pages = p.pages /\ q.lost = p.lost
      /\ p.late => q.late
    BY <1>1 DEF Query
<1> HIDE DEF q
<1>8. /\ f.pc = q.pc /\ f.ctx = q.ctx /\ f.fired = q.fired /\ f.started = q.started /\ f.answer = q.answer
      /\ f.what = q.what /\ f.ip = q.ip /\ f.solved = q.solved /\ f.body = q.body /\ f.over = q.over
      /\ f.heard = q.heard /\ f.known = q.known /\ f.changed = q.changed /\ f.late = q.late
    <2>1. CASE f = q BY <2>1
    <2>2. CASE f = made BY <1>4, <2>2 DEF Query
    <2>3. CASE f = unmade BY <1>4, <2>3 DEF Query
    <2>4. CASE f = rowless BY <1>4, <2>4 DEF Query
    <2>5. CASE f = told BY <1>4, <2>5 DEF Query
    <2> QED BY <1>3, <2>1, <2>2, <2>3, <2>4, <2>5
<1>9. \/ f.challenged = q.challenged /\ f.rows = q.rows /\ f.pages = q.pages /\ f.lost = q.lost
      \/ f.challenged /\ f.rows = q.rows + 1 /\ f.pages = q.pages + 1 /\ f.lost = q.lost
      \/ f.challenged /\ f.rows = q.rows /\ f.pages = q.pages /\ f.lost = q.lost + 1
      \/ f.challenged /\ f.rows = q.rows /\ f.pages = q.pages + 1 /\ f.lost = q.lost + 1
    <2>1. CASE f = q BY <2>1
    <2>2. CASE f = made BY <1>4, <2>2 DEF Query
    <2>3. CASE f = unmade BY <1>4, <2>3 DEF Query
    <2>4. CASE f = rowless BY <1>4, <2>4 DEF Query
    <2>5. CASE f = told BY <1>4, <2>5 DEF Query
    <2> QED BY <1>3, <2>1, <2>2, <2>3, <2>4, <2>5
<1> HIDE DEF p, made, unmade, rowless, told
<1>10. Untouched(f) /\ Answered(f) BY <1>1, <1>7, <1>8 DEF ReqInv, Untouched, Answered, Underway
<1>11. Counted(f)
    <2>1. f.pc = "app" /\ (f.fired => f.started) BY <1>1, <1>6, <1>7, <1>8
    <2>2. ASSUME f.answer = "none", ~f.late
          PROVE  /\ Accounted(f, f.pages + (IF f.fired THEN Ships(f) ELSE 0))
                 /\ f.fired \/ f.challenged => f.ctx
                 /\ ~f.challenged => f.pages = 0
                 /\ f.challenged /\ f.pages = 0 => f.lost > 0
        <3>1. ~f.fired /\ ~p.fired /\ f.ctx BY <1>1, <1>6, <1>7, <1>8, <2>2 DEF Query
        <3>2. p.rows \in Nat /\ p.pages \in Nat /\ p.lost \in Nat BY <1>1 DEF Query
        <3>3. /\ p.rows <= p.pages /\ p.pages <= p.rows + p.lost
              /\ ~p.challenged => p.pages = 0
              /\ p.challenged /\ p.pages = 0 => p.lost > 0
            BY <1>1, <1>7, <1>8, <2>2, <3>1, <3>2 DEF ReqInv, Counted, Accounted
        <3> QED BY <1>7, <1>9, <3>1, <3>2, <3>3 DEF Accounted
    <2> QED BY <2>1, <2>2 DEF Counted
<1>12. Told(f) BY <1>1, <1>6, <1>7, <1>8 DEF Told
<1>13. Judged(f) /\ Settled(f) BY <1>1, <1>7, <1>8 DEF ReqInv, Judged, Settled
<1>14. Asked(f) BY <1>1, <1>7, <1>8 DEF ReqInv, Asked
<1>15. g \in Query /\ ReqInv(g)
    BY <1>3, <1>5, <1>10, <1>11, <1>12, <1>13, <1>14, BugKeeps DEF ReqInv
<1> QED BY <1>2, <1>15, OneRequest

LEMMA StartStep ==
    ASSUME IInv, NEW r \in Requests, Start(r)
    PROVE  IInv'
<1>1. req[r] \in Query /\ ReqInv(req[r]) /\ req[r].pc = "app" /\ ~req[r].started BY DEF IInv, Start, Is
<1>2. PICK t \in Tells(req[r]) : Becomes(r, IF t.host = "django" THEN [t EXCEPT !.pc = "stamped"] ELSE t)
    BY DEF Start
<1>3. t \in Query /\ ReqInv(t) /\ t.pc = "app" BY <1>1, TellsKeeps
<1>4. CASE t.host # "django" BY <1>2, <1>3, <1>4, OneRequest
<1>5. CASE t.host = "django"
    <2> DEFINE e == [t EXCEPT !.pc = "stamped"]
    <2>1. e \in Query BY <1>3 DEF Query
    <2>2. e.pc = "stamped" /\ e.fired = t.fired /\ e.rows = t.rows /\ e.lost = t.lost /\ SameButEnd(e, t)
        BY <1>3 DEF Query, SameButEnd
    <2> HIDE DEF e
    <2>3. Untouched(e) BY <2>2 DEF Untouched, Underway
    <2>4. Answered(e) BY <1>3, <2>2 DEF ReqInv, SameButEnd, Answered
    <2>5. Counted(e) BY <1>3, <2>2 DEF ReqInv, SameButEnd, Counted, Ships, Accounted
    <2>6. Told(e) /\ Judged(e) /\ Settled(e) BY <1>3, <2>2 DEF ReqInv, SameButEnd, Told, Judged, Settled
    <2>7. Asked(e) BY <1>3, <2>2 DEF ReqInv, SameButEnd, Asked
    <2>8. ReqInv(e) BY <2>3, <2>4, <2>5, <2>6, <2>7 DEF ReqInv
    <2> QED BY <1>2, <1>5, <2>1, <2>8, OneRequest DEF e
<1> QED BY <1>4, <1>5

LEMMA ReturnStep ==
    ASSUME IInv, NEW r \in Requests, Return(r)
    PROVE  IInv'
<1> DEFINE q == req[r]
<1>1. q \in Query /\ ReqInv(q) /\ q.pc = "app" BY DEF IInv, Return, Is
<1>2. PICK f : /\ f = q \/ (f \in Finish(q) /\ q.started)
               /\ Becomes(r, [f EXCEPT !.returned = TRUE]) BY DEF Return
<1> HIDE DEF q
<1>3. f \in Query /\ ReqInv(f)
    <2>1. CASE f = q BY <2>1, <1>1
    <2>2. CASE f \in Finish(q) /\ q.started
        <3>1. f \in Query /\ SameButCount(f, q) BY <2>2, <1>1, FinishCounts
        <3>2. Told(f) /\ Judged(f) /\ Asked(f) /\ Settled(f) /\ f.answer = "none"
            BY <2>2, <1>1, FinishKeeps
        <3>3. f.pc # "app" \/ f.started => Counted(f) BY <2>2, <1>1, FinishKeeps
        <3>4. Counted(f) BY <2>2, <3>1, <3>3 DEF SameButCount, SameButEnd
        <3>5. Untouched(f) /\ Answered(f)
            BY <3>1, <3>2, <1>1 DEF SameButCount, Untouched, Answered, Underway
        <3> QED BY <3>1, <3>2, <3>4, <3>5 DEF ReqInv
    <2> QED BY <1>2, <2>1, <2>2
<1> DEFINE e == [f EXCEPT !.returned = TRUE]
<1>4. e \in Query BY ONLY <1>3 DEF Query
<1>5. SameReport(e, f) BY <1>3 DEF SameReport, SameButCount, SameButEnd, Query
<1>6. ReqInv(e) BY <1>3, <1>5, SameKeeps
<1> QED BY <1>2, <1>4, <1>6, OneRequest

\* However a request ends, the adapter has called on_finish by then (After, Raise, Through, Close).
LEMMA EndStep ==
    ASSUME IInv, NEW r \in Requests, After(r) \/ Raise(r) \/ Through(r) \/ Close(r)
    PROVE  IInv'
<1>1. req[r] \in Query BY DEF IInv
<1>2. CASE After(r) BY <1>2, EndsStep DEF After, Is
<1>3. CASE Raise(r)
    <2>1. PICK p \in Finish(req[r]) : \E q \in IF p.host = "asgi" THEN Finish(p) ELSE {p} :
              Becomes(r, [q EXCEPT !.pc = "done"])
        BY <1>3 DEF Raise
    <2>2. PICK q \in Finish(p) \cup {p} : Becomes(r, [q EXCEPT !.pc = "done"]) BY <2>1
    <2>3. q = p BY <1>1, <2>2, FinishOnce
    <2>4. Ends(r, "done") BY <2>2, <2>3 DEF Ends
    <2> QED BY <1>3, <2>4, EndsStep DEF Raise, Is
<1>4. CASE Through(r) BY <1>4, EndsStep DEF Through, Is
<1>5. CASE Close(r) BY <1>5, EndsStep DEF Close, Is
<1> QED BY <1>2, <1>3, <1>4, <1>5

-----------------------------------------------------------------------------
(* The adapter and the engine, up to the decision. *)

Early(q) == q.pc \in {"idle", "wants"} \/ Underway(q)

SameCount(f, q) ==
    /\ f.ctx = q.ctx /\ f.challenged = q.challenged /\ f.started = q.started /\ f.fired = q.fired
    /\ f.late = q.late /\ f.answer = q.answer /\ f.rows = q.rows /\ f.pages = q.pages /\ f.lost = q.lost

\* A request that leaves no trace has none to account for.
LEMMA EarlyKeeps ==
    ASSUME NEW q \in Query, ReqInv(q), Early(q), NEW f, SameCount(f, q)
    PROVE  Untouched(f) /\ Answered(f) /\ Counted(f) /\ Told(f)
<1>1. /\ ~f.ctx /\ ~f.challenged /\ ~f.started /\ ~f.fired /\ ~f.late
      /\ f.answer = "none" /\ f.rows = 0 /\ f.pages = 0 /\ f.lost = 0
    BY DEF Early, SameCount, ReqInv, Untouched, Query
<1> QED BY <1>1 DEF Untouched, Answered, Counted, Accounted, Told

\* An answer of camada's own is reported as it is given, or loses its row.
LEMMA AnswerKeeps ==
    ASSUME NEW q \in Query, ReqInv(q), Early(q),
           NEW what \in {"blocked", "413", "verified", "again", "page", "script", "204"},
           what = "413" => q.over \/ q.changed,
           ChallengeOn /\ q.what = "verify" /\ q.ip # NoIp =>
               what \notin {"page", "script", "204"} /\ (what = "again" => ~q.solved),
           NEW f \in Query, f.pc = "done", f.answer = what,
           f.rows + f.lost = IF what \in {"blocked", "page", "verified"} THEN 1 ELSE 0,
           f.what = q.what, f.ip = q.ip, f.ctx = q.ctx, f.challenged = q.challenged, f.solved = q.solved,
           f.heard = q.heard, f.known = q.known, f.changed = q.changed, f.over = q.over, f.pages = q.pages
    PROVE  ReqInv(f)
<1>1. ~q.ctx /\ ~q.challenged /\ q.pages = 0 BY DEF Early, ReqInv, Untouched
<1>2. Untouched(f) BY DEF Untouched, Underway
<1>3. Answered(f)
    <2>1. f.rows \in Nat /\ f.lost \in Nat BY DEF Query
    <2> QED BY <1>1, <2>1 DEF Answered, Enforced, Accounted
<1>4. Counted(f) /\ Told(f) BY <1>1 DEF Counted, Told
<1>5. Judged(f) BY DEF ReqInv, Judged
<1>6. Asked(f) BY DEF Asked
<1>7. Settled(f) BY <1>1 DEF Settled
<1> QED BY <1>2, <1>3, <1>4, <1>5, <1>6, <1>7 DEF ReqInv

LEMMA AnswersStep ==
    ASSUME IInv, NEW r \in Requests, NEW what \in {"blocked", "413", "verified", "again", "page", "script", "204"},
           NEW events, events = IF what \in {"blocked", "page", "verified"} THEN 1 ELSE 0,
           Early(req[r]), what = "413" => req[r].over \/ req[r].changed,
           ChallengeOn /\ req[r].what = "verify" /\ req[r].ip # NoIp =>
               what \notin {"page", "script", "204"} /\ (what = "again" => ~req[r].solved),
           Answers(r, what, events)
    PROVE  IInv'
<1> DEFINE q == req[r]
<1>1. q \in Query /\ ReqInv(q) BY DEF IInv
<1>2. q.rows = 0 /\ q.lost = 0 BY <1>1 DEF ReqInv, Untouched, Early
<1>3. PICK f : f = [q EXCEPT !.pc = "done", !.answer = what, !.rows = @ + events] OBVIOUS
<1>4. Becomes(r, f) BY <1>3 DEF Answers
<1> HIDE DEF q
<1>5. f = [q EXCEPT !.pc = "done", !.answer = what, !.rows = events] BY <1>1, <1>2, <1>3 DEF Query
<1>6. events \in Nat OBVIOUS
<1>7. f \in Query
    <2>1. PICK d : d = [q EXCEPT !.pc = "done"] OBVIOUS
    <2>2. PICK e : e = [d EXCEPT !.answer = what] OBVIOUS
    <2>3. d \in Query BY ONLY <1>1, <2>1 DEF Query
    <2>4. e \in Query
        BY ONLY <2>2, <2>3, what \in {"blocked", "413", "verified", "again", "page", "script", "204"} DEF Query
    <2>5. f = [e EXCEPT !.rows = events] BY <1>5, <2>1, <2>2
    <2> QED BY ONLY <1>6, <2>4, <2>5 DEF Query
<1>8. /\ f.pc = "done" /\ f.answer = what /\ f.rows = events /\ f.lost = 0
      /\ f.what = q.what /\ f.ip = q.ip /\ f.ctx = q.ctx /\ f.challenged = q.challenged /\ f.solved = q.solved
      /\ f.heard = q.heard /\ f.known = q.known /\ f.changed = q.changed /\ f.over = q.over /\ f.pages = q.pages
    BY <1>1, <1>2, <1>5 DEF Query
<1>9. f.rows + f.lost = IF what \in {"blocked", "page", "verified"} THEN 1 ELSE 0 BY <1>6, <1>8
<1>10. ReqInv(f) BY <1>1, <1>7, <1>8, <1>9, AnswerKeeps DEF q
<1> QED BY <1>4, <1>7, <1>10, OneRequest

\* The page without its row (_serve_challenge).
LEMMA PageStep ==
    ASSUME IInv, NEW r \in Requests, Early(req[r]), ~(ChallengeOn /\ req[r].what = "verify" /\ req[r].ip # NoIp),
           Page(r)
    PROVE  IInv'
<1> DEFINE q == req[r]  k == q.lost + 1
           h == [q EXCEPT !.pc = "done", !.answer = "page", !.lost = k]
<1>1. q \in Query /\ ReqInv(q) BY DEF IInv
<1>2. CASE Answers(r, "page", 1) BY <1>2, AnswersStep
<1>3. CASE \E g \in Swallows(q, {[Goes(r, "done") EXCEPT !.answer = "page", !.lost = @ + 1]}) : Becomes(r, g)
    <2>1. [Goes(r, "done") EXCEPT !.answer = "page", !.lost = @ + 1] = h BY <1>1 DEF Goes, Query
    <2>2. PICK g \in Swallows(q, {h}) : Becomes(r, g) BY <1>3, <2>1
    <2>3. g = [h EXCEPT !.bugs = @ + 1]
        <3> HIDE DEF h
        <3> QED BY <2>2, SwallowsOne
    <2> HIDE DEF q
    <2>4. q.rows = 0 /\ q.lost = 0 BY <1>1 DEF ReqInv, Untouched, Early, q
    <2>5. k = 1 /\ k \in Nat BY <2>4
    <2> HIDE DEF k
    <2>6. h \in Query
        <3>1. PICK e : e = [q EXCEPT !.pc = "done"] OBVIOUS
        <3>2. PICK d : d = [e EXCEPT !.answer = "page"] OBVIOUS
        <3>3. h = [d EXCEPT !.lost = k] BY <3>1, <3>2 DEF h
        <3> HIDE DEF h
        <3>4. e \in Query BY ONLY <1>1, <3>1 DEF Query
        <3>5. d \in Query BY ONLY <3>4, <3>2 DEF Query
        <3> QED BY ONLY <2>5, <3>5, <3>3 DEF Query
    <2>7. /\ h.pc = "done" /\ h.answer = "page" /\ h.rows = 0 /\ h.lost = 1
          /\ h.what = q.what /\ h.ip = q.ip /\ h.ctx = q.ctx /\ h.challenged = q.challenged /\ h.solved = q.solved
          /\ h.heard = q.heard /\ h.known = q.known /\ h.changed = q.changed /\ h.over = q.over /\ h.pages = q.pages
        BY <1>1, <2>4, <2>5 DEF Query
    <2> HIDE DEF h
    <2>8. ReqInv(h) BY <1>1, <2>6, <2>7, AnswerKeeps DEF q
    <2>9. g \in Query /\ ReqInv(g) BY <2>3, <2>6, <2>8, BugKeeps
    <2> QED BY <2>2, <2>9, OneRequest
<1> QED BY <1>2, <1>3 DEF Page

LEMMA ArriveStep ==
    ASSUME IInv, NEW r \in Requests, Arrive(r)
    PROVE  IInv'
<1>1. PICK h \in Hosts, w \in {"page", "script"} \cup Posts, f \in Visitors \cup {NoIp},
           html, cookie, solved, over \in BOOLEAN :
        /\ over => w \in Posts
        /\ solved => w = "verify"
        /\ Becomes(r, [Idle EXCEPT !.pc = "wants", !.host = h, !.what = w, !.from = f, !.html = html,
                                   !.cookie = cookie, !.solved = solved, !.over = over])
    BY Zenon DEF Arrive
<1> DEFINE q == [Idle EXCEPT !.pc = "wants", !.host = h, !.what = w, !.from = f, !.html = html,
                             !.cookie = cookie, !.solved = solved, !.over = over]
<1>2. h \in {"wsgi", "asgi", "django"} /\ w \in {"page", "script", "beacon", "verify"}
    BY RequestAssumption DEF Posts
<1>3. Idle \in Query BY DEF Idle, Query, Addresses
<1>4. q \in Query
    <2> DEFINE e == [Idle EXCEPT !.pc = "wants", !.host = h]
               k == [e EXCEPT !.what = w, !.from = f]
    <2>1. e \in Query BY <1>2, <1>3 DEF Query
    <2> HIDE DEF e
    <2>3. k \in Query BY <1>2, <2>1 DEF Query
    <2> HIDE DEF k
    <2>2. [k EXCEPT !.html = html, !.cookie = cookie, !.solved = solved, !.over = over] \in Query
        BY <2>3 DEF Query
    <2> QED BY <2>2 DEF k, e
<1>5. q.pc = "wants" /\ SameCount(q, Idle) /\ q.heard = FALSE /\ q.ctx = FALSE /\ q.answer = "none"
    BY <1>3 DEF Idle, Query, SameCount
<1> HIDE DEF q
<1>6. Untouched(q) /\ Answered(q) /\ Counted(q) /\ Told(q) /\ Judged(q) /\ Asked(q) /\ Settled(q)
    BY <1>5 DEF SameCount, Idle, Untouched, Answered, Counted, Accounted, Told, Judged, Asked, Settled
<1> QED BY <1>1, <1>4, <1>6, OneRequest DEF q, ReqInv

\* A request that moves on to `pc`, with what Asked and Settled are about unchanged.
LEMMA MoveKeeps ==
    ASSUME NEW q \in Query, ReqInv(q), Early(q),
           NEW pc \in {"body", "decide", "beacon", "pass"}, NEW f, f = [q EXCEPT !.pc = pc],
           ~q.changed /\ pc = "decide" /\ ~q.body /\ ~q.over => ~Wanted(q),
           ~q.changed /\ pc = "beacon" => ~killed /\ (~q.body /\ ~q.over => ~Wanted(q)),
           ChallengeOn /\ q.what = "verify" /\ q.ip # NoIp => pc \notin {"beacon", "pass"}
    PROVE  f \in Query /\ ReqInv(f)
<1>1. f \in Query
    BY ONLY q \in Query, f = [q EXCEPT !.pc = pc], pc \in {"body", "decide", "beacon", "pass"} DEF Query
<1>2. /\ f.pc = pc /\ SameCount(f, q) /\ f.heard = q.heard /\ f.known = q.known /\ f.changed = q.changed
      /\ f.what = q.what /\ f.ip = q.ip /\ f.body = q.body /\ f.over = q.over
    BY DEF Query, SameCount
<1>3. q.answer = "none" /\ ~q.ctx BY DEF ReqInv, Early, Untouched
<1>4. Untouched(f) /\ Answered(f) /\ Counted(f) /\ Told(f) BY <1>2, EarlyKeeps
<1>5. Judged(f) BY <1>2 DEF ReqInv, Judged
<1>6. Asked(f)
    <2>1. Wanted(f) <=> Wanted(q) BY <1>2 DEF Wanted
    <2> QED BY <1>2, <1>3, <2>1 DEF Asked, SameCount
<1>7. Settled(f) BY <1>2, <1>3 DEF Settled, SameCount
<1> QED BY <1>1, <1>4, <1>5, <1>6, <1>7 DEF ReqInv

\* A request camada is out of the way of.
LEMMA InertKeeps ==
    ASSUME IInv, NEW r \in Requests, Early(req[r])
    PROVE  Inert(r) \in Query /\ ReqInv(Inert(r))
<1> DEFINE q == req[r]  f == [q EXCEPT !.pc = "app", !.signalled = FALSE]
<1>1. Inert(r) = f BY DEF Inert, Goes, IInv
<1>2. q \in Query /\ ReqInv(q) BY DEF IInv
<1> HIDE DEF q
<1>3. f \in Query BY ONLY <1>2 DEF Query, f
<1>4. /\ f.pc = "app" /\ SameCount(f, q) /\ f.heard = q.heard /\ f.known = q.known
    BY <1>2 DEF Query, SameCount
<1>5. q.answer = "none" /\ ~q.ctx BY <1>2 DEF ReqInv, Early, Untouched, q
<1>6. Untouched(f) /\ Answered(f) /\ Counted(f) /\ Told(f) BY <1>2, <1>4, EarlyKeeps DEF q
<1>7. Judged(f) BY <1>2, <1>4 DEF ReqInv, Judged
<1>8. Asked(f) /\ Settled(f) BY <1>4, <1>5 DEF Asked, Settled, SameCount
<1> QED BY <1>1, <1>3, <1>6, <1>7, <1>8 DEF ReqInv

LEMMA WantsBodyStep ==
    ASSUME IInv, NEW r \in Requests, WantsBody(r)
    PROVE  IInv'
<1> DEFINE q == req[r]
<1>1. q \in Query /\ ReqInv(q) /\ Early(q) BY DEF IInv, WantsBody, Is, Early
<1>2. PICK pc \in {"body", "decide"} :
          Becomes(r, [q EXCEPT !.pc = pc]) /\ (pc = "decide" => ~Wanted(q))
    BY DEF WantsBody, Goes
<1> QED BY <1>1, <1>2, MoveKeeps, OneRequest

LEMMA ReadBodyStep ==
    ASSUME IInv, NEW r \in Requests, ReadBody(r)
    PROVE  IInv'
<1> DEFINE q == req[r]  b == ~q.over  k == [q EXCEPT !.body = b]  f == [k EXCEPT !.pc = "decide"]
<1>1. q \in Query /\ ReqInv(q) /\ q.pc = "body" BY DEF IInv, ReadBody, Is
<1>2. Becomes(r, f) BY <1>1 DEF ReadBody, Goes, Query
<1> HIDE DEF q
<1>3. b \in BOOLEAN OBVIOUS
<1>4. k \in Query
    <2> HIDE DEF b
    <2> QED BY <1>1, <1>3 DEF Query
<1>5. /\ k.pc = "body" /\ SameCount(k, q) /\ k.heard = q.heard /\ k.known = q.known
      /\ k.over = q.over /\ (k.body <=> ~q.over)
    BY <1>1 DEF Query, SameCount
<1> HIDE DEF k
<1>6. Early(k) /\ Early(q) BY <1>1, <1>5 DEF Early, Underway
<1>7. q.answer = "none" /\ ~q.ctx BY <1>1, <1>6 DEF ReqInv, Early, Untouched
<1>8. ReqInv(k)
    <2>1. Untouched(k) /\ Answered(k) /\ Counted(k) /\ Told(k) BY <1>1, <1>5, <1>6, EarlyKeeps
    <2>2. Judged(k) BY <1>1, <1>5 DEF ReqInv, Judged
    <2>3. Asked(k) /\ Settled(k) BY <1>5, <1>7 DEF Asked, Settled, SameCount
    <2> QED BY <2>1, <2>2, <2>3 DEF ReqInv
<1>9. f \in Query /\ ReqInv(f) BY <1>4, <1>5, <1>6, <1>8, MoveKeeps
<1> QED BY <1>2, <1>9, OneRequest

LEMMA BugStep ==
    ASSUME IInv, NEW r \in Requests, Bug(r)
    PROVE  IInv'
<1>1. PICK q \in Swallows(req[r], {Inert(r)}) : Becomes(r, q) BY DEF Bug
<1>2. q = [Inert(r) EXCEPT !.bugs = @ + 1] BY <1>1, SwallowsOne
<1>3. Early(req[r]) BY DEF Bug, Early, Is
<1>4. Inert(r) \in Query /\ ReqInv(Inert(r)) BY <1>3, InertKeeps
<1>5. q \in Query /\ ReqInv(q) BY <1>2, <1>4, BugKeeps
<1> QED BY <1>1, <1>5, OneRequest

\* The address is resolved by a config that is known if a load has brought one (_load, _resolve_ip).
LEMMA DecideStep ==
    ASSUME IInv, NEW r \in Requests, Decide(r)
    PROVE  IInv'
<1> DEFINE q == req[r]  i == Resolve(q)  w == client.heard  n == client.config.known
           f == [q EXCEPT !.pc = "verdict", !.ip = i, !.heard = w, !.known = n]
<1>1. q \in Query /\ ReqInv(q) /\ q.pc = "decide" /\ ClientInv BY DEF IInv, Decide, Is
<1>2. Early(q) BY <1>1 DEF Early, Underway
<1>3. CASE killed
    <2>1. Becomes(r, Inert(r)) BY <1>3 DEF Decide
    <2> QED BY <2>1, <1>2, InertKeeps, OneRequest
<1>4. CASE ~killed
    <2>1. Becomes(r, f) BY <1>4 DEF Decide, Goes
    <2>2. i \in Addresses BY <1>1 DEF Resolve, Addresses, Query
    <2>3. w \in BOOLEAN /\ n \in BOOLEAN /\ (w => n) BY <1>1 DEF ClientInv, Client, Config
    <2> HIDE DEF q, i, w, n
    <2>4. f \in Query BY <1>1, <2>2, <2>3 DEF Query
    <2>5. /\ f.pc = "verdict" /\ SameCount(f, q) /\ f.heard = w /\ f.known = n /\ f.changed = q.changed
          /\ f.what = q.what /\ f.body = q.body /\ f.over = q.over
        BY <1>1 DEF Query, SameCount
    <2> HIDE DEF f
    <2>6. q.answer = "none" /\ ~q.ctx BY <1>1, <1>2 DEF ReqInv, Early, Untouched
    <2>7. Untouched(f) /\ Answered(f) /\ Counted(f) /\ Told(f) BY <1>1, <1>2, <2>5, EarlyKeeps
    <2>8. Judged(f) BY <2>3, <2>5 DEF Judged
    <2>9. Asked(f)
        <3>1. Wanted(f) <=> Wanted(q) BY <2>5 DEF Wanted
        <3>2. ~q.changed /\ ~q.body /\ ~q.over => ~Wanted(q) BY <1>1 DEF ReqInv, Asked
        <3> QED BY <1>4, <2>5, <2>6, <3>1, <3>2 DEF Asked, SameCount
    <2>10. Settled(f) BY <2>5, <2>6 DEF Settled, SameCount
    <2> QED BY <2>1, <2>4, <2>7, <2>8, <2>9, <2>10, OneRequest DEF ReqInv, f
<1> QED BY <1>3, <1>4

\* A verify POST of an address that can be challenged never gets past here, and is refused only for
\* a body over the cap, or one that was not asked for then and is wanted now (_decide, _verify).
LEMMA JudgeStep ==
    ASSUME IInv, NEW r \in Requests, Judge(r)
    PROVE  IInv'
<1> DEFINE q == req[r]  v == Verdict(q)  challengeable == ChallengeOn /\ q.ip # NoIp
<1>1. q \in Query /\ ReqInv(q) /\ q.pc = "verdict" BY DEF IInv, Judge, Is
<1>2. Early(q) BY <1>1 DEF Early, Underway
<1>3. ~q.changed => ~killed /\ (~q.body /\ ~q.over => ~Wanted(q)) BY <1>1 DEF ReqInv, Asked
<1>4. CASE v = "block"
    <2>1. Answers(r, "blocked", 1) BY <1>4 DEF Judge
    <2> QED BY <2>1, <1>1, <1>2, AnswersStep
<1>5. CASE v # "block" /\ challengeable /\ q.what = "verify"
    <2>1. Verify(r) BY <1>5 DEF Judge, Verifies
    <2>2. CASE ~q.body
        <3>1. Answers(r, "413", 0) BY <2>1, <2>2 DEF Verify
        <3>2. q.over \/ q.changed BY <1>3, <1>5, <2>2 DEF Wanted
        <3> QED BY <3>1, <3>2, <1>1, <1>2, AnswersStep
    <2>3. CASE q.body /\ q.solved
        <3>1. Answers(r, "verified", 1) BY <2>1, <2>3 DEF Verify
        <3> QED BY <3>1, <1>1, <1>2, AnswersStep
    <2>4. CASE q.body /\ ~q.solved
        <3>1. Answers(r, "again", 0) BY <2>1, <2>4 DEF Verify
        <3> QED BY <3>1, <2>4, <1>1, <1>2, AnswersStep
    <2> QED BY <2>2, <2>3, <2>4
<1>6. CASE v # "block" /\ ~(challengeable /\ q.what = "verify")
    <2>1. \/ Page(r)
          \/ Becomes(r, [[q EXCEPT !.pc = "beacon"] EXCEPT !.signalled = TRUE])
          \/ Becomes(r, [q EXCEPT !.pc = "beacon"])
        BY <1>6 DEF Judge, Verifies, Goes
    <2>2. CASE Page(r) BY <2>2, <1>1, <1>2, <1>6, PageStep
    <2> DEFINE f == [q EXCEPT !.pc = "beacon"]  e == [f EXCEPT !.signalled = TRUE]
    <2>3. f \in Query /\ ReqInv(f) BY <1>1, <1>2, <1>3, <1>6, MoveKeeps
    <2>4. CASE Becomes(r, f) BY <2>3, <2>4, OneRequest
    <2>5. CASE Becomes(r, e)
        <3>1. f.pc = "beacon" BY <1>1 DEF Query
        <3> HIDE DEF f
        <3>2. e \in Query BY <2>3 DEF Query
        <3>3. /\ e.pc = f.pc /\ SameCount(e, f) /\ e.heard = f.heard /\ e.known = f.known /\ e.changed = f.changed
              /\ e.what = f.what /\ e.ip = f.ip /\ e.body = f.body /\ e.over = f.over /\ e.solved = f.solved
            BY <2>3 DEF Query, SameCount
        <3> HIDE DEF e
        <3>4. Untouched(e) /\ Answered(e) /\ Counted(e) /\ Told(e)
            BY <2>3, <3>1, <3>3, EarlyKeeps DEF Early, Underway
        <3>5. Judged(e) BY <2>3, <3>3 DEF ReqInv, Judged
        <3>6. Asked(e) BY <2>3, <3>3 DEF ReqInv, Asked, Wanted, SameCount
        <3>7. Settled(e) BY <2>3, <3>3 DEF ReqInv, Settled, SameCount
        <3> QED BY <2>5, <3>2, <3>4, <3>5, <3>6, <3>7, OneRequest DEF ReqInv
    <2> QED BY <2>1, <2>2, <2>4, <2>5
<1> QED BY <1>4, <1>5, <1>6

LEMMA BeaconStep ==
    ASSUME IInv, NEW r \in Requests, Beacon(r)
    PROVE  IInv'
<1> DEFINE q == req[r]
<1>1. q \in Query /\ ReqInv(q) /\ q.pc = "beacon" BY DEF IInv, Beacon, Is
<1>2. Early(q) BY <1>1 DEF Early, Underway
<1>3. ~q.changed => ~killed /\ (~q.body /\ ~q.over => ~Wanted(q)) BY <1>1 DEF ReqInv, Asked
<1>4. ~(ChallengeOn /\ q.what = "verify" /\ q.ip # NoIp) BY <1>1 DEF ReqInv, Settled
<1>5. \/ Answers(r, "script", 0)
      \/ client.config.beacon /\ q.what = "beacon" /\ Answers(r, IF q.body THEN "204" ELSE "413", 0)
      \/ Becomes(r, [q EXCEPT !.pc = "pass"])
    BY DEF Beacon, Goes
<1>6. CASE Answers(r, "script", 0) BY <1>6, <1>1, <1>2, <1>4, AnswersStep
<1>7. CASE client.config.beacon /\ q.what = "beacon" /\ Answers(r, IF q.body THEN "204" ELSE "413", 0)
    <2>1. q.body \/ q.over \/ q.changed BY <1>3, <1>7 DEF Wanted
    <2>2. CASE q.body
        <3>1. Answers(r, "204", 0) BY <1>7, <2>2
        <3> QED BY <3>1, <1>1, <1>2, <1>4, AnswersStep
    <2>3. CASE ~q.body
        <3>1. Answers(r, "413", 0) BY <1>7, <2>3
        <3> QED BY <3>1, <2>1, <2>3, <1>1, <1>2, <1>4, AnswersStep
    <2> QED BY <2>2, <2>3
<1>8. CASE Becomes(r, [q EXCEPT !.pc = "pass"]) BY <1>8, <1>1, <1>2, <1>4, MoveKeeps, OneRequest
<1> QED BY <1>5, <1>6, <1>7, <1>8

LEMMA PassStep ==
    ASSUME IInv, NEW r \in Requests, Pass(r)
    PROVE  IInv'
<1> DEFINE q == req[r]
<1>1. q \in Query /\ ReqInv(q) /\ q.pc = "pass" /\ ClientInv BY DEF IInv, Pass, Is
<1>2. PICK s \in client.config.ships : Becomes(r, [q EXCEPT !.pc = "app", !.ctx = TRUE, !.ships = s])
    BY <1>1 DEF Pass, Goes, Query
<1>3. s \in BOOLEAN BY <1>1 DEF ClientInv, Client, Config
<1> DEFINE f == [q EXCEPT !.pc = "app", !.ctx = TRUE, !.ships = s]
<1> HIDE DEF q
<1>4. f \in Query BY <1>1, <1>3 DEF Query
<1>5. /\ f.pc = "app" /\ f.challenged = q.challenged /\ f.started = q.started /\ f.fired = q.fired
      /\ f.answer = q.answer /\ f.rows = q.rows /\ f.pages = q.pages /\ f.lost = q.lost
      /\ f.heard = q.heard /\ f.known = q.known /\ f.what = q.what /\ f.ip = q.ip
    BY <1>1 DEF Query
<1> HIDE DEF f
<1>6. f.ctx = TRUE BY <1>1 DEF f, Query
<1>7. ~q.challenged /\ ~q.started /\ ~q.fired /\ q.answer = "none" /\ q.rows = 0 /\ q.pages = 0 /\ q.lost = 0
    BY <1>1 DEF ReqInv, Untouched, Underway
<1>8. Untouched(f) /\ Answered(f) BY <1>5, <1>7 DEF Untouched, Underway, Answered
<1>9. Counted(f) /\ Told(f) BY <1>5, <1>6, <1>7 DEF Counted, Accounted, Told
<1>10. Judged(f) BY <1>1, <1>5 DEF ReqInv, Judged
<1>11. Asked(f) BY <1>5, <1>7 DEF Asked
<1>12. Settled(f) BY <1>1, <1>5 DEF ReqInv, Settled
<1> QED BY <1>2, <1>4, <1>8, <1>9, <1>10, <1>11, <1>12, OneRequest DEF ReqInv, f

-----------------------------------------------------------------------------
(* What happens around the requests. *)

LEMMA ExpireStep ==
    ASSUME IInv, NEW r \in Requests, Expire(r)
    PROVE  IInv'
<1> DEFINE q == req[r]  f == [q EXCEPT !.cookie = FALSE]
<1>1. q \in Query /\ ReqInv(q) BY DEF IInv
<1>2. UNCHANGED <<client, killed>> /\ req' = [req EXCEPT ![r] = f] BY DEF Expire
<1> HIDE DEF q
<1>3. f \in Query BY <1>1 DEF Query
<1>4. SameReport(f, q) BY <1>1 DEF SameReport, SameButCount, SameButEnd, Query
<1>5. ReqInv(f) BY <1>1, <1>4, SameKeeps
<1> QED BY <1>2, <1>3, <1>5, OneRequest

\* Whoever has asked about the body and is not through learns that config or switch have changed.
LEMMA NotedKeeps ==
    ASSUME IInv, NoteChange
    PROVE  /\ req' \in [Requests -> Query]
           /\ \A r \in Requests : ReqInv(req[r])'
<1>1. req' = [r \in Requests |-> [req[r] EXCEPT !.changed = @ \/ Underway(req[r])]] BY DEF NoteChange
<1>2. ASSUME NEW r \in Requests PROVE req'[r] \in Query /\ ReqInv(req[r])'
    <2> DEFINE q == req[r]  b == q.changed \/ Underway(q)
    <2>1. q \in Query /\ ReqInv(q) BY DEF IInv
    <2>2. req'[r] = [q EXCEPT !.changed = b] BY <1>1
    <2>3. b \in BOOLEAN BY <2>1 DEF Underway, Query
    <2> HIDE DEF q, b
    <2>4. PICK f \in Query : f = [q EXCEPT !.changed = b]
        <3>1. [q EXCEPT !.changed = b] \in Query BY <2>1, <2>3 DEF Query
        <3> QED BY <3>1
    <2>5. /\ SameCount(f, q) /\ f.changed = b /\ f.pc = q.pc /\ f.heard = q.heard /\ f.known = q.known
          /\ f.signalled = q.signalled /\ f.ships = q.ships /\ f.told = q.told /\ f.ip = q.ip
          /\ f.what = q.what /\ f.solved = q.solved /\ f.over = q.over /\ f.unstamped = q.unstamped
        BY <2>1, <2>3, <2>4 DEF Query, SameCount
    <2>6. Untouched(f) /\ Answered(f)
        BY <2>1, <2>5 DEF ReqInv, SameCount, Untouched, Underway, Answered, Enforced, Accounted
    <2>7. Counted(f) BY <2>1, <2>5 DEF ReqInv, SameCount, Counted, Ships, Accounted
    <2>8. Told(f) /\ Judged(f) /\ Settled(f) BY <2>1, <2>5 DEF ReqInv, SameCount, Told, Judged, Settled
    <2>9. Asked(f)'
        <3> SUFFICES ASSUME ~f.changed PROVE (f.pc \notin {"decide", "verdict", "beacon"} /\ (f.answer = "413" => f.over))
            BY DEF Asked
        <3>1. ~q.changed /\ ~Underway(q) BY <2>5 DEF b
        <3> QED BY <2>1, <2>5, <3>1 DEF ReqInv, Asked, SameCount, Underway
    <2>10. ReqInv(f)'
        BY <2>6, <2>7, <2>8, <2>9
        DEF ReqInv, Untouched, Underway, Answered, Enforced, Counted, Accounted, Told, Judged, Settled, Ships
    <2> QED BY <2>2, <2>4, <2>10
<1> QED BY <1>1, <1>2

\* What no request reads keeps the requests as they are.
LEMMA UnreadKeeps ==
    ASSUME IInv, UNCHANGED <<req, killed>>, client'.config = client.config
    PROVE  \A r \in Requests : ReqInv(req[r])'
BY DEF IInv, ReqInv, Untouched, Underway, Answered, Enforced, Counted, Accounted, Told, Judged, Asked, Wanted, Settled,
       Ships

\* What a header may be.
LEMMA HeaderType == Configs \subseteq Config
<1>1. NoConfig \in Config BY DEF NoConfig, Config
<1> QED BY <1>1, RequestAssumption DEF Config

LEMMA PutType ==
    ASSUME NEW c \in Client, NEW n \in 0..3, NEW b \in BOOLEAN, NEW g \in Config
    PROVE  [c EXCEPT !.next = n, !.heard = b, !.header = g] \in Client
<1>1. PICK d : d = [c EXCEPT !.next = n] OBVIOUS
<1>2. PICK e : e = [d EXCEPT !.heard = b] OBVIOUS
<1>3. d \in Client BY <1>1 DEF Client
<1>4. e \in Client BY <1>2, <1>3 DEF Client
<1>5. [e EXCEPT !.header = g] \in Client BY <1>4 DEF Client
<1> QED BY <1>1, <1>2, <1>5

LEMMA LoadBeginsStep ==
    ASSUME IInv, LoadBegins
    PROVE  IInv'
<1>1. ClientInv /\ client \in Client BY DEF IInv, ClientInv
<1>2. PICK h \in Configs : client' = [client EXCEPT !.next = 1, !.header = h] BY DEF LoadBegins
<1>3. UNCHANGED <<req, killed>> BY DEF LoadBegins
<1>4. h \in Config BY HeaderType
<1>5. client' \in Client
    <2>1. PICK d : d = [client EXCEPT !.next = 1] OBVIOUS
    <2>2. d \in Client BY <1>1, <2>1 DEF Client
    <2>3. client' = [d EXCEPT !.header = h] BY <1>2, <2>1
    <2> QED BY <1>4, <2>2, <2>3 DEF Client
<1>6. client'.config = client.config /\ client'.heard = client.heard /\ client'.next = 1
    BY <1>1, <1>2 DEF Client
<1>7. ClientInv' BY <1>1, <1>3, <1>5, <1>6 DEF ClientInv
<1> QED BY <1>3, <1>6, <1>7, UnreadKeeps DEF IInv

\* A load stores its config first, and says so last (_load).
LEMMA StoreStep ==
    ASSUME IInv, NEW what \in {"config", "rules", "warm"}, Store(what)
    PROVE  IInv'
<1>1. ClientInv /\ client \in Client BY DEF IInv, ClientInv
<1>2. LoadOrder[client.next] = what /\ client.next \in 1..3 /\ UNCHANGED killed
    <2>1. LoadOrder[client.next] = what /\ client.next # 0 /\ UNCHANGED killed BY Zenon DEF Store
    <2>2. client.next \in 0..3 BY <1>1 DEF Client
    <2> QED BY <2>1, <2>2
<1> DEFINE n == (client.next + 1) % 4
           heard == client.heard \/ (what = "warm" /\ client.header.known)
           left == IF client.next = 3 THEN NoConfig ELSE client.header
<1>3. PICK v \in Stored(what) : client' = [client EXCEPT ![what] = v, !.next = n, !.heard = heard, !.header = left]
    BY Zenon DEF Store
<1>4. NoConfig \in Config /\ ~NoConfig.known /\ client.header \in Config
    <2>1. NoConfig \in Config /\ ~NoConfig.known BY DEF NoConfig, Config
    <2> QED BY <1>1, <2>1 DEF Client
<1> HIDE DEF n, heard, left
<1>5. CASE what = "config"
    <2>1. client.next = 1 /\ n = 2 /\ left = client.header BY <1>2, <1>5 DEF LoadOrder, n, left
    <2>2. v = IF client.header.known THEN client.header ELSE client.config BY <1>3, <1>5 DEF Stored
    <2>3. v \in Config /\ (client.header.known \/ client.config.known => v.known) BY <1>1, <1>4, <2>2 DEF Client
    <2>4. heard \in BOOLEAN /\ (heard => client.heard) BY <1>1, <1>5 DEF Client, heard
    <2>5. PICK c : c = [client EXCEPT !.config = v] OBVIOUS
    <2>6. c \in Client BY <1>1, <2>3, <2>5 DEF Client
    <2>7. client' = [c EXCEPT !.next = n, !.heard = heard, !.header = left] BY <1>3, <1>5, <2>5
    <2>8. client' \in Client /\ client'.config = v /\ client'.header = client.header /\ client'.heard = heard
        <3>1. c.config = v BY <1>1, <2>5 DEF Client
        <3>4. n \in 0..3 /\ heard \in BOOLEAN /\ left \in Config BY <1>4, <2>1, <2>4
        <3>5. [c EXCEPT !.next = n, !.heard = heard, !.header = left] \in Client
            BY ONLY <2>6, <3>4, PutType
        <3>2. client' \in Client BY <2>7, <3>5
        <3>3. client'.config = v /\ client'.header = left /\ client'.heard = heard
            BY ONLY <2>6, <2>7, <3>1 DEF Client
        <3> QED BY <2>1, <3>2, <3>3
    <2>11. ClientInv' BY <1>1, <1>2, <2>3, <2>4, <2>8 DEF ClientInv
    <2>9. CASE client.header.known
        <3>1. NoteChange BY <1>5, <2>9 DEF Store
        <3> QED BY <2>11, <3>1, NotedKeeps DEF IInv
    <2>10. CASE ~client.header.known
        <3>1. UNCHANGED <<req, killed>> BY <1>2, <1>5, <2>10 DEF Store
        <3>2. client'.config = client.config BY <2>2, <2>8, <2>10
        <3> QED BY <2>11, <3>1, <3>2, UnreadKeeps DEF IInv
    <2> QED BY <2>9, <2>10
<1>6. CASE what = "rules"
    <2>1. client.next = 2 /\ n = 3 /\ left = client.header BY <1>2, <1>6 DEF LoadOrder, n, left
    <2>2. v \in [Addresses -> Verdicts] BY <1>1, <1>3, <1>6, RequestAssumption DEF Stored, Client
    <2>3. heard \in BOOLEAN /\ (heard => client.heard) BY <1>1, <1>6 DEF Client, heard
    <2>4. PICK c : c = [client EXCEPT !.rules = v] OBVIOUS
    <2>5. c \in Client /\ c.config = client.config BY <1>1, <2>2, <2>4 DEF Client
    <2>6. client' = [c EXCEPT !.next = n, !.heard = heard, !.header = left] BY <1>3, <1>6, <2>4
    <2>7. client' \in Client
        <3>1. n \in 0..3 /\ heard \in BOOLEAN /\ left \in Config BY <1>4, <2>1, <2>3
        <3>2. [c EXCEPT !.next = n, !.heard = heard, !.header = left] \in Client
            BY ONLY <2>5, <3>1, PutType
        <3> QED BY <2>6, <3>2
    <2>8. client'.config = client.config /\ client'.header = client.header /\ client'.heard = heard
        BY ONLY <2>1, <2>5, <2>6 DEF Client
    <2>9. ClientInv' BY <1>1, <1>2, <2>1, <2>3, <2>7, <2>8 DEF ClientInv
    <2>10. UNCHANGED <<req, killed>> BY <1>2, <1>6 DEF Store
    <2> QED BY <2>8, <2>9, <2>10, UnreadKeeps DEF IInv
<1>7. CASE what = "warm"
    <2>1. client.next = 3 /\ n = 0 /\ left = NoConfig BY <1>2, <1>7 DEF LoadOrder, n, left
    <2>2. v = TRUE BY <1>3, <1>7 DEF Stored
    <2>3. heard \in BOOLEAN /\ (heard => client.config.known)
        <3>1. client.heard \in BOOLEAN /\ client.header.known \in BOOLEAN BY <1>1 DEF Client, Config
        <3> QED BY <1>1, <2>1, <3>1 DEF ClientInv, heard
    <2>4. PICK c : c = [client EXCEPT !.warm = TRUE] OBVIOUS
    <2>5. c \in Client /\ c.config = client.config BY <1>1, <2>4 DEF Client
    <2>6. client' = [c EXCEPT !.next = n, !.heard = heard, !.header = left] BY <1>3, <1>7, <2>2, <2>4
    <2>7. client' \in Client
        <3>1. n \in 0..3 /\ heard \in BOOLEAN /\ left \in Config BY <1>4, <2>1, <2>3
        <3>2. [c EXCEPT !.next = n, !.heard = heard, !.header = left] \in Client
            BY ONLY <2>5, <3>1, PutType
        <3> QED BY <2>6, <3>2
    <2>8. client'.config = client.config /\ client'.next = 0 /\ client'.heard = heard
        BY ONLY <2>1, <2>5, <2>6 DEF Client
    <2>9. ClientInv' BY <1>1, <1>2, <2>3, <2>7, <2>8 DEF ClientInv
    <2>10. UNCHANGED <<req, killed>> BY <1>2, <1>7 DEF Store
    <2> QED BY <2>8, <2>9, <2>10, UnreadKeeps DEF IInv
<1> QED BY <1>5, <1>6, <1>7

LEMMA SwitchStep ==
    ASSUME IInv, Switch
    PROVE  IInv'
<1>1. ClientInv' BY DEF IInv, ClientInv, Switch
<1>2. NoteChange BY DEF Switch
<1> QED BY <1>1, <1>2, NotedKeeps DEF IInv

-----------------------------------------------------------------------------
LEMMA IInvInit == Init => IInv
<1> SUFFICES ASSUME Init PROVE IInv OBVIOUS
<1>1. client = [config |-> NoConfig, rules |-> [a \in Addresses |-> "pass"], warm |-> FALSE,
                 next |-> 0, header |-> NoConfig, heard |-> FALSE]
    BY DEF Init
<1>2. NoConfig \in Config BY DEF NoConfig, Config
<1>3. ClientInv
    <2>1. [a \in Addresses |-> "pass"] \in [Addresses -> Verdicts] BY DEF Verdicts
    <2>2. client \in Client BY <1>1, <1>2, <2>1 DEF Client
    <2>3. ~client.heard /\ client.next = 0 BY <1>1
    <2>4. killed \in BOOLEAN BY DEF Init
    <2>5. client.next \notin {2, 3} BY <2>3
    <2> QED BY <2>2, <2>3, <2>4, <2>5 DEF ClientInv
<1>4. Idle \in Query BY DEF Idle, Query, Addresses
<1>5. ReqInv(Idle)
    BY DEF Idle, ReqInv, Untouched, Underway, Answered, Counted, Accounted, Told, Judged, Asked, Settled
<1> QED BY <1>3, <1>4, <1>5 DEF Init, IInv

LEMMA IInvStep == IInv /\ [Next]_vars => IInv'
<1> SUFFICES ASSUME IInv, [Next]_vars PROVE IInv' OBVIOUS
<1>1. ASSUME NEW what \in {"config", "rules", "warm"}, Store(what) PROVE IInv' BY <1>1, StoreStep
<1>2. CASE LoadBegins \/ Switch BY <1>2, LoadBeginsStep, SwitchStep
<1>3. ASSUME NEW r \in Requests, Arrive(r) \/ WantsBody(r) \/ ReadBody(r) \/ Bug(r) PROVE IInv'
    BY <1>3, ArriveStep, WantsBodyStep, ReadBodyStep, BugStep
<1>4. ASSUME NEW r \in Requests, Engine(r) PROVE IInv'
    BY <1>4, DecideStep, JudgeStep, BeaconStep, PassStep DEF Engine
<1>5. ASSUME NEW r \in Requests, App(r) PROVE IInv'
    BY <1>5, ServeKeeps, StartStep, ReturnStep, EndStep DEF App
<1>6. ASSUME NEW r \in Requests, Expire(r) PROVE IInv' BY <1>6, ExpireStep
<1>7. CASE UNCHANGED vars
    <2>1. UNCHANGED <<client, killed, req>> BY <1>7 DEF vars
    <2>2. ClientInv' BY <2>1 DEF IInv, ClientInv
    <2> QED BY <2>1, <2>2, UnreadKeeps DEF IInv
<1> QED BY <1>1, <1>2, <1>3, <1>4, <1>5, <1>6, <1>7 DEF Next

\* The invariant that carries the five properties: what a request has come to, what was reported of
\* it, and what the client and the switch said when it was last asked, always belong together.
THEOREM RequestInvariant == Spec => []IInv
BY IInvInit, IInvStep, PTL DEF Spec

\* One request, one event, in every adapter, whatever order its end comes in (on_finish, _Closing,
\* finish), and one for each page an app that gates itself makes (serve_challenge); an exception
\* costs at most a row, and none makes a second.
THEOREM ReportedOnceTheorem == Spec => []ReportedOnce
<1>1. IInv => ReportedOnce
    <2> SUFFICES ASSUME IInv, NEW r \in Requests, Over(r), ~req[r].late
                 PROVE  Accounted(req[r], Owed(req[r]))
        BY DEF ReportedOnce, Accounted
    <2> DEFINE q == req[r]
    <2>1. q \in Query /\ Answered(q) /\ Counted(q) /\ q.pc = "done" /\ ~q.late BY DEF IInv, ReqInv, Over, Is
    <2> HIDE DEF q
    <2>2. CASE q.answer # "none"
        BY <2>1, <2>2 DEF Answered, Owed, q
    <2>3. CASE q.answer = "none"
        <3>1. q.rows \in Nat /\ q.lost \in Nat /\ q.pages \in Nat BY <2>1 DEF Query
        <3>2. /\ Accounted(q, q.pages + (IF q.fired THEN Ships(q) ELSE 0))
              /\ q.fired <=> q.ctx
              /\ q.challenged => q.ctx
              /\ ~q.challenged => q.pages = 0
              /\ q.challenged /\ q.pages = 0 => q.lost > 0
            BY <2>1, <2>3 DEF Counted, Query
        <3>3. CASE q.challenged
            <4>1. Accounted(q, q.pages) BY <3>1, <3>2, <3>3 DEF Ships, Accounted
            <4> QED BY <2>3, <3>1, <3>2, <3>3, <4>1 DEF Accounted, Owed, Enforced, q
        <3>4. CASE ~q.challenged BY <2>3, <3>1, <3>2, <3>4 DEF Ships, Accounted, Owed, Enforced, q
        <3> QED BY <3>3, <3>4
    <2> QED BY <2>2, <2>3
<1> QED BY <1>1, RequestInvariant, PTL

\* Nobody is reported as signalled without the signal on a response that could be stamped (on_finish,
\* _after).
THEOREM SignalIsToldTheorem == Spec => []SignalIsTold
<1>1. IInv => SignalIsTold BY DEF IInv, ReqInv, Told, SignalIsTold
<1> QED BY <1>1, RequestInvariant, PTL

\* Whoever comes after a load that brought a config is enforced by the address that config resolves,
\* whatever loads without one came before or after (_load, _read_config).
THEOREM JudgedByConfigTheorem == Spec => []JudgedByConfig
<1>1. IInv => JudgedByConfig BY DEF IInv, ReqInv, Judged, JudgedByConfig
<1> QED BY <1>1, RequestInvariant, PTL

\* A 413 is for a body over the cap, or for a change between two looks (wants_body, _decide).
THEOREM RefusedOverCapTheorem == Spec => []RefusedOverCap
<1>1. IInv => RefusedOverCap BY DEF IInv, ReqInv, Asked, RefusedOverCap
<1> QED BY <1>1, RequestInvariant, PTL

\* The right solution is taken, unless its address is blocked or config or switch change (_decide).
THEOREM SolutionIsTakenTheorem == Spec => []SolutionIsTaken
<1>1. IInv => SolutionIsTaken
    <2> SUFFICES ASSUME IInv, NEW r \in Requests,
                        Over(r) /\ ChallengeOn /\ req[r].what = "verify" /\ req[r].solved /\ ~req[r].over,
                        req[r].ip # NoIp, req[r].ctx \/ req[r].answer # "none"
                 PROVE  req[r].answer \in {"verified", "blocked"} \/ req[r].changed
        BY DEF SolutionIsTaken
    <2>1. Settled(req[r]) /\ Asked(req[r]) BY DEF IInv, ReqInv
    <2> QED BY <2>1 DEF Settled, Asked
<1> QED BY <1>1, RequestInvariant, PTL
=============================================================================

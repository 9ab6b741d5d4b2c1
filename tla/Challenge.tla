------------------------------ MODULE Challenge ------------------------------
(***************************************************************************)
(* The challenge served by the SDK (challenge/verify.py, challenge/format.py *)
(* and the engine's use of them): a page with a nonce, a solution that     *)
(* buys a cookie, a cookie that opens the gate.  Nothing is stored on the  *)
(* server; any of several hosts, whose clocks differ, answers any request. *)
(*                                                                         *)
(* The kit has no state, so one browser is followed.  A MAC is its message *)
(* (two MACs agree when their messages do); a time is a number of units.   *)
(* Definitions called ...Mutant are wrong on purpose: nothing uses them.   *)
(***************************************************************************)
EXTENDS Integers, FiniteSetsExt

CONSTANTS
    Ips, NoIp,        \* the addresses the browser can have; none could be resolved
    Hosts, Ahead,     \* hosts that share a secret, and how far the clock of each is ahead
    Day, Ttl,         \* _DAY_MS, CHALLENGE_TTL_MS
    ChallengeOn,      \* challenge=True, and CAMADA_CHALLENGE is not 0
    Nothing,          \* no page, no cookie, no solution
    MaxTime           \* bound

ASSUME ChallengeAssumption ==
    /\ NoIp \notin Ips
    /\ IsFiniteSet(Hosts)
    /\ Ahead \in [Hosts -> Nat]
    /\ Day \in Nat \ {0} /\ Ttl \in Nat \ {0}
    /\ ChallengeOn \in BOOLEAN
    /\ MaxTime \in Nat
    /\ Nothing \notin Int
    /\ Nothing \notin [exp : Int, mac : [of : {"token"}, ip : Ips, n : Int]]

VARIABLES
    now,        \* time
    ip,         \* the address the browser's requests are resolved to
    page,       \* the challenge page it has open: the nonce, and what host's clock read when served
    cookie,     \* its _cch cookie
    answer,     \* the last answer it got
    solved,     \* history: from where, and at what reading, it last sent a right solution, if in time
    accepted    \* history: when a solution from each address was last accepted

vars == <<now, ip, page, cookie, answer, solved, accepted>>

Clock(h) == now + Ahead[h]

Init ==
    /\ now = 0 /\ ip \in Ips
    /\ page = Nothing /\ cookie = Nothing /\ answer = Nothing /\ solved = Nothing
    /\ accepted = [i \in Ips |-> Nothing]

-----------------------------------------------------------------------------
(* The kit.                                                                *)

UtcDay(t) == t \div Day

NonceMessageMutant(i, day) == [of |-> "nonce", ip |-> i, n |-> 0]   \* the same every day
NonceMessage(i, day) == [of |-> "nonce", ip |-> i, n |-> day]
TokenMessage(i, exp) == [of |-> "token", ip |-> i, n |-> exp]

Nonce(i, t) == NonceMessage(i, UtcDay(t))

NonceValidMutant(i, t, nonce) == nonce = Nonce(i, t)   \* today's only
\* Today's or yesterday's.
NonceValid(i, t, nonce) == nonce \in {NonceMessage(i, day) : day \in {UtcDay(t), UtcDay(t) - 1}}

Expiry(t) == t + Ttl
Issue(i, t) == [exp |-> Expiry(t), mac |-> TokenMessage(i, Expiry(t))]

AliveMutant(exp, t) == exp <= t + Ttl                 \* never expires
AliveTooLateMutant(exp, t) == exp > t /\ exp < t + Ttl   \* not yet at the instant it is issued
\* Not expired, and not for longer than a cookie lasts.
Alive(exp, t) == exp > t /\ exp <= t + Ttl

TokenValid(i, t, c) == c # Nothing /\ Alive(c.exp, t) /\ c.mac = TokenMessage(i, c.exp)

-----------------------------------------------------------------------------
(* The engine.                                                             *)

Since(t) == IF t = Nothing THEN Nothing ELSE now - t
Page(h) == [nonce |-> Nonce(ip, Clock(h)), at |-> Clock(h)]
Holds(h) == TokenValid(ip, Clock(h), cookie)

\* History: by this host's clock, the browser solved its challenge from this address within the
\* lifetime of a cookie.
SolvedHere(h) == /\ solved # Nothing /\ solved.ip = ip
                 /\ Clock(h) >= solved.at /\ Clock(h) - solved.at < Ttl

\* A page the app gates itself (serve_challenge()) or a rule does (_decide), asked for as HTML.
Visit(h, by) ==
    /\ LET challenged == ip # NoIp /\ (by = "rule" => ChallengeOn)
       IN \/ ~challenged /\ answer' = [what |-> "open"] /\ UNCHANGED page
          \/ challenged /\ Holds(h) /\ answer' = [what |-> "through", age |-> Since(accepted[ip])] /\ UNCHANGED page
          \/ challenged /\ ~Holds(h) /\ answer' = [what |-> "page", solved |-> SolvedHere(h)] /\ page' = Page(h)
    /\ UNCHANGED <<now, ip, cookie, solved, accepted>>

\* What the browser is told of its solution, and (history) what it had sent: a right answer or not,
\* for a page served to this very address or not, how long ago by the clocks of the hosts.
Verdict(what, h, right) ==
    [what |-> what, right |-> right, own |-> page.nonce.ip = ip, age |-> Clock(h) - page.at]

Taken(h, right) == right /\ NonceValid(ip, Clock(h), page.nonce)

\* The form of the page, sent once or again: _verify(), or the app if the engine does not challenge.
Submit(h, right) ==
    /\ page # Nothing
    /\ LET own == right /\ page.nonce.ip = ip
       IN solved' = IF ~own THEN solved
                    ELSE IF Clock(h) - page.at \in 0..Day THEN [ip |-> ip, at |-> Clock(h)] ELSE Nothing
    /\ \/ /\ ~ChallengeOn \/ ip = NoIp
          /\ answer' = [what |-> "app"]
          /\ UNCHANGED <<page, cookie, accepted>>
       \/ /\ ChallengeOn /\ ip # NoIp /\ Taken(h, right)
          /\ answer' = Verdict("cookie", h, right)
          /\ cookie' = Issue(ip, Clock(h))
          /\ accepted' = [accepted EXCEPT ![ip] = now]
          /\ UNCHANGED page
       \/ /\ ChallengeOn /\ ip # NoIp /\ ~Taken(h, right)
          /\ answer' = Verdict("again", h, right)
          /\ page' = Page(h)
          /\ UNCHANGED <<cookie, accepted>>
    /\ UNCHANGED <<now, ip>>

\* The browser moves to another network, or to one that hides its address.
Roam ==
    /\ ip' \in (Ips \cup {NoIp}) \ {ip}
    /\ UNCHANGED <<now, page, cookie, answer, solved, accepted>>

Tick ==
    /\ now < MaxTime /\ now' = now + 1
    /\ UNCHANGED <<ip, page, cookie, answer, solved, accepted>>

Next ==
    \/ \E h \in Hosts : \/ \E by \in {"rule", "app"} : Visit(h, by)
                        \/ \E right \in BOOLEAN : Submit(h, right)
    \/ Roam
    \/ Tick

Spec == Init /\ [][Next]_vars

-----------------------------------------------------------------------------
MaxAhead == Max({Ahead[h] : h \in Hosts})
Got(what) == answer # Nothing /\ answer.what = what

\* Whoever passes the gate sent a right solution from the very address, no longer ago than a cookie
\* lasts and the clocks of the hosts are apart (token_valid).
ThroughMeansSolved == Got("through") => answer.age < Ttl + MaxAhead

\* "a solve started before midnight UTC must not be thrown away": a right solution sent from where
\* its page was served is taken for a whole day, on any host whose clock is not behind.
SolveSurvivesMidnight == Got("again") /\ answer.right /\ answer.own => answer.age \notin 0..Day

\* A page is not good for ever: what was served two days ago, or to another address, is refused
\* (nonce_valid; "replayable from its own IP for up to ~48 h").
NoncesExpire == Got("cookie") => answer.own /\ answer.age < 2 * Day

\* README: "POST /__camada/challenge verifies the solution, sets _cch" and serve_challenge() "returns the
\* page ... until the browser holds a valid _cch, then None".  So a browser that solved its challenge in
\* time is not shown the page again within the hour, on any host whose clock is not behind the one that
\* took the solution.
SolverIsLetIn == Got("page") => ~answer.solved
=============================================================================

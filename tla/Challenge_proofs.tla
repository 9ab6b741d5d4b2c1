-------------------------- MODULE Challenge_proofs --------------------------
(***************************************************************************)
(* Proofs about Challenge, for any addresses, hosts, clocks, lengths of a  *)
(* day and lifetimes of a cookie.                                          *)
(***************************************************************************)
EXTENDS Challenge, FiniteSetTheorems, WellFoundedInduction, TLAPS

TypeInv ==
    /\ now \in Nat /\ ip \in Ips \cup {NoIp}
    /\ accepted \in [Ips -> Nat \cup {Nothing}]
    /\ solved # Nothing => solved \in [ip : Ips \cup {NoIp}, at : Nat]

\* A page carries the nonce of the address and of the day it was served to and on.
PageInv == page # Nothing => /\ page \in [nonce : [of : {"nonce"}, ip : Ips, n : Int], at : Nat]
                             /\ page.nonce = Nonce(page.nonce.ip, page.at)

\* The cookie is the one issued when a solution from its address was last accepted.
CookieInv == cookie # Nothing => \E i \in Ips, h \in Hosts :
                /\ accepted[i] \in Nat
                /\ cookie = Issue(i, accepted[i] + Ahead[h])

\* An engine that challenges has issued a cookie for the last solution sent in time.
SolvedInv == ChallengeOn /\ solved # Nothing /\ solved.ip # NoIp => cookie = Issue(solved.ip, solved.at)

IInv == /\ TypeInv /\ PageInv /\ CookieInv /\ SolvedInv
        /\ ThroughMeansSolved /\ SolveSurvivesMidnight /\ NoncesExpire
        /\ ChallengeOn => SolverIsLetIn
-----------------------------------------------------------------------------
(* Days and clocks. *)

\* A time is on its day: not before its start, and before its end.
LEMMA DayBounds ==
    ASSUME NEW t \in Int
    PROVE  UtcDay(t) \in Int /\ Day * UtcDay(t) <= t /\ t < Day * UtcDay(t) + Day
BY ChallengeAssumption DEF UtcDay

\* No more than a day later it is the same day or the next.
LEMMA WithinADay ==
    ASSUME NEW t \in Int, NEW u \in Int, u - t \in 0..Day
    PROVE  UtcDay(t) \in {UtcDay(u), UtcDay(u) - 1}
<1> DEFINE x == UtcDay(t)  y == UtcDay(u)
<1>1. x \in Int /\ Day * x <= t /\ t < Day * x + Day BY DayBounds
<1>2. y \in Int /\ Day * y <= u /\ u < Day * y + Day BY DayBounds
<1>3. Day \in Nat \ {0} BY ChallengeAssumption
<1> HIDE DEF x, y
<1>4. Day * (y - x) < 2 * Day BY <1>1, <1>2, <1>3
<1>5. Day * (y - x) > -Day BY <1>1, <1>2, <1>3
<1>6. y - x < 2 /\ y - x > -1 BY <1>1, <1>2, <1>3, <1>4, <1>5
<1> QED BY <1>1, <1>2, <1>6 DEF x, y

\* On the same day or the next, less than two days have gone by.
LEMMA WithinTwoDays ==
    ASSUME NEW t \in Int, NEW u \in Int, UtcDay(t) \in {UtcDay(u), UtcDay(u) - 1}
    PROVE  u - t < 2 * Day
<1> DEFINE x == UtcDay(t)  y == UtcDay(u)
<1>1. x \in Int /\ Day * x <= t BY DayBounds
<1>2. y \in Int /\ u < Day * y + Day BY DayBounds
<1>3. Day \in Nat \ {0} BY ChallengeAssumption
<1>4. x \in {y, y - 1} OBVIOUS
<1> HIDE DEF x, y
<1>5. Day * y = Day * x \/ Day * y = Day * x + Day BY <1>1, <1>2, <1>3, <1>4
<1> QED BY <1>1, <1>2, <1>3, <1>5

\* The clock of a host reads a natural number, no more than MaxAhead later than the time.
LEMMA ClockType ==
    ASSUME now \in Nat, NEW h \in Hosts
    PROVE  Ahead[h] \in Nat /\ Clock(h) \in Nat /\ Clock(h) = now + Ahead[h]
BY ChallengeAssumption DEF Clock

\* Max of a finite set of integers is its greatest element: a smallest subset without one could spare
\* an element, and the rest would have one.
LEMMA MaxOfFinite ==
    ASSUME NEW S \in SUBSET Int, IsFiniteSet(S), S # {}
    PROVE  Max(S) \in S /\ \A y \in S : Max(S) >= y
<1> DEFINE HasMax(T) == \E x \in T : \A y \in T : x >= y
           Bad == {T \in SUBSET S : T # {} /\ ~HasMax(T)}
<1>1. SUFFICES HasMax(S) BY DEF Max
<1>2. SUFFICES ASSUME S \in Bad PROVE FALSE OBVIOUS
<1>3. Bad \subseteq FiniteSubsetsOf(S) BY FS_FiniteSubsetsOfFinite
<1>4. PICK T \in Bad : \A U \in Bad : <<U, T>> \notin StrictSubsetOrdering(S)
    <2> HIDE DEF Bad
    <2> QED BY <1>2, <1>3, FS_StrictSubsetOrderingWellFounded, WFMin
<1>5. PICK x \in T : TRUE OBVIOUS
<1> DEFINE U == T \ {x}
<1>6. U # {} BY <1>5
<1>7. U \notin Bad BY <1>4, <1>5 DEF StrictSubsetOrdering
<1>8. PICK m \in U : \A y \in U : m >= y BY <1>6, <1>7
<1>9. CASE x >= m
    <2>1. \A y \in T : x >= y BY <1>5, <1>8, <1>9
    <2> QED BY <2>1, <1>5
<1>10. CASE m >= x
    <2>1. \A y \in T : m >= y BY <1>5, <1>8, <1>10
    <2> QED BY <2>1, <1>8
<1> QED BY <1>5, <1>8, <1>9, <1>10

LEMMA MaxAheadBounds ==
    ASSUME NEW h \in Hosts
    PROVE  MaxAhead \in Nat /\ Ahead[h] \in Nat /\ Ahead[h] <= MaxAhead
<1> DEFINE S == {Ahead[g] : g \in Hosts}
<1>1. S \subseteq Nat /\ S # {} BY ChallengeAssumption
<1>2. IsFiniteSet(S)
    <2>1. Ahead \in Surjection(Hosts, S) BY ChallengeAssumption DEF Surjection
    <2> QED BY <2>1, ChallengeAssumption, FS_Surjection
<1>3. Max(S) \in S /\ \A y \in S : Max(S) >= y
    <2> HIDE DEF S
    <2>1. S \in SUBSET Int BY <1>1
    <2> QED BY <1>1, <1>2, <2>1, MaxOfFinite
<1> QED BY <1>1, <1>3 DEF MaxAhead

-----------------------------------------------------------------------------
(* The kit. *)

\* What was issued is a token that lives for the lifetime of a cookie, by a clock not behind the one
\* that issued it.
LEMMA IssuedIsValid ==
    ASSUME NEW i \in Ips, NEW t \in Int, NEW u \in Int, u \in t..(t + Ttl - 1)
    PROVE  TokenValid(i, u, Issue(i, t))
<1>1. Ttl \in Nat BY ChallengeAssumption
<1>2. Issue(i, t) \in [exp : Int, mac : [of : {"token"}, ip : Ips, n : Int]]
    BY <1>1 DEF Issue, Expiry, TokenMessage
<1>3. Issue(i, t) # Nothing BY <1>2, ChallengeAssumption
<1>4. Issue(i, t).exp = t + Ttl /\ Issue(i, t).mac = TokenMessage(i, t + Ttl) BY DEF Issue, Expiry
<1> QED BY <1>1, <1>3, <1>4 DEF TokenValid, Alive

\* A token is good for the address it was issued to and no other, and only before it expires.
LEMMA ValidIsIssued ==
    ASSUME NEW i, NEW j, NEW t \in Int, NEW u \in Int, TokenValid(j, u, Issue(i, t))
    PROVE  j = i /\ u < t + Ttl
<1>1. Ttl \in Nat BY ChallengeAssumption
<1>2. Issue(i, t).exp = t + Ttl /\ Issue(i, t).mac = TokenMessage(i, t + Ttl) BY DEF Issue, Expiry
<1>3. t + Ttl > u /\ TokenMessage(i, t + Ttl) = TokenMessage(j, t + Ttl)
    BY <1>2 DEF TokenValid, Alive
<1> QED BY <1>1, <1>3 DEF TokenMessage

\* A nonce is good for its own address, on its own day and the next.
LEMMA NonceGoodTwoDays ==
    ASSUME NEW i, NEW j, NEW t \in Int, NEW u \in Int
    PROVE  NonceValid(j, u, Nonce(i, t)) <=> i = j /\ UtcDay(t) \in {UtcDay(u), UtcDay(u) - 1}
BY DEF NonceValid, Nonce, NonceMessage

\* The page a request is answered with is one of its address and of the clock of the host.
LEMMA PageType ==
    ASSUME TypeInv, NEW h \in Hosts, ip # NoIp
    PROVE  /\ Page(h) \in [nonce : [of : {"nonce"}, ip : Ips, n : Int], at : Nat]
           /\ Page(h).nonce = Nonce(Page(h).nonce.ip, Page(h).at)
<1>1. Clock(h) \in Nat /\ ip \in Ips BY ClockType DEF TypeInv
<1>2. UtcDay(Clock(h)) \in Int BY <1>1, DayBounds
<1> QED BY <1>1, <1>2 DEF Page, Nonce, NonceMessage

\* A solution sent in time, for a page of its own, is taken.
LEMMA InTimeIsTaken ==
    ASSUME TypeInv, PageInv, page # Nothing, NEW h \in Hosts, page.nonce.ip = ip, Clock(h) - page.at \in 0..Day
    PROVE  Taken(h, TRUE)
<1>1. Clock(h) \in Int /\ page.at \in Int BY ClockType DEF TypeInv, PageInv
<1>2. UtcDay(page.at) \in {UtcDay(Clock(h)), UtcDay(Clock(h)) - 1} BY <1>1, WithinADay
<1>3. page.nonce = Nonce(ip, page.at) BY DEF PageInv
<1> QED BY <1>1, <1>2, <1>3, NonceGoodTwoDays DEF Taken

\* A solution that is taken is for a page of its own, not two days old.
LEMMA TakenIsFresh ==
    ASSUME TypeInv, PageInv, page # Nothing, NEW h \in Hosts, NEW right, Taken(h, right)
    PROVE  page.nonce.ip = ip /\ Clock(h) - page.at < 2 * Day
<1>1. Clock(h) \in Int /\ page.at \in Int BY ClockType DEF TypeInv, PageInv
<1>2. NonceValid(ip, Clock(h), Nonce(page.nonce.ip, page.at)) BY DEF Taken, PageInv
<1>3. page.nonce.ip = ip /\ UtcDay(page.at) \in {UtcDay(Clock(h)), UtcDay(Clock(h)) - 1}
    BY <1>1, <1>2, NonceGoodTwoDays
<1> QED BY <1>1, <1>3, WithinTwoDays

-----------------------------------------------------------------------------
(* Each handler keeps the invariant. *)

\* Time, and the browser's moves, touch nothing the invariant is about but the clock and the address.
LEMMA QuietStep ==
    ASSUME IInv, now' \in Nat, ip' \in Ips \cup {NoIp}, UNCHANGED <<page, cookie, answer, solved, accepted>>
    PROVE  IInv'
<1>1. TypeInv' BY DEF IInv, TypeInv
<1>2. PageInv' BY DEF IInv, PageInv
<1>3. CookieInv' BY DEF IInv, CookieInv
<1>4. SolvedInv' BY DEF IInv, SolvedInv
<1>5. (ThroughMeansSolved /\ SolveSurvivesMidnight /\ NoncesExpire /\ (ChallengeOn => SolverIsLetIn))'
    BY DEF IInv, ThroughMeansSolved, SolveSurvivesMidnight, NoncesExpire, SolverIsLetIn, Got
<1> QED BY <1>1, <1>2, <1>3, <1>4, <1>5 DEF IInv

\* A gate opens to a cookie that is valid, and so to one not long accepted; the page is shown only to
\* a browser without one, and so not to one that has just solved its challenge.
LEMMA VisitStep ==
    ASSUME IInv, NEW h \in Hosts, NEW by, Visit(h, by)
    PROVE  IInv'
<1> USE DEF Visit
<1>0. TypeInv /\ CookieInv /\ SolvedInv BY DEF IInv
<1>1. Clock(h) \in Nat /\ Clock(h) >= now /\ now \in Nat /\ Ttl \in Nat
    BY <1>0, ClockType, ChallengeAssumption DEF TypeInv
<1>2. TypeInv' BY <1>0 DEF TypeInv
<1>3. PageInv'
    <2>1. CASE UNCHANGED page BY <2>1 DEF IInv, PageInv
    <2>2. CASE page' = Page(h) /\ ip # NoIp BY <2>2, <1>0, PageType DEF PageInv
    <2> QED BY <2>1, <2>2
<1>4. CookieInv' BY <1>0 DEF CookieInv
<1>5. SolvedInv' BY <1>0 DEF SolvedInv
<1>6. ThroughMeansSolved'
    <2> SUFFICES ASSUME Got("through")' PROVE answer'.age < Ttl + MaxAhead BY DEF ThroughMeansSolved
    <2>1. Holds(h) /\ answer' = [what |-> "through", age |-> Since(accepted[ip])] BY DEF Got
    <2>2. cookie # Nothing BY <2>1 DEF Holds, TokenValid
    <2>3. PICK i \in Ips, g \in Hosts : accepted[i] \in Nat /\ cookie = Issue(i, accepted[i] + Ahead[g])
        BY <2>2, <1>0 DEF CookieInv
    <2>4. Ahead[g] \in Nat /\ MaxAhead \in Nat /\ Ahead[g] <= MaxAhead BY MaxAheadBounds
    <2>5. ip = i /\ Clock(h) < accepted[i] + Ahead[g] + Ttl
        BY <2>1, <2>3, <2>4, <1>1, ValidIsIssued DEF Holds
    <2>6. Since(accepted[ip]) = now - accepted[i] BY <2>3, <2>5, ChallengeAssumption DEF Since
    <2> QED BY <2>1, <2>3, <2>4, <2>5, <2>6, <1>1
<1>7. (SolveSurvivesMidnight /\ NoncesExpire)' BY DEF SolveSurvivesMidnight, NoncesExpire, Got
<1>8. ASSUME ChallengeOn PROVE SolverIsLetIn'
    <2> SUFFICES ASSUME Got("page")', answer'.solved PROVE FALSE BY DEF SolverIsLetIn
    <2>1. ip # NoIp /\ ~Holds(h) /\ answer' = [what |-> "page", solved |-> SolvedHere(h)] BY DEF Got
    <2>2. /\ solved # Nothing /\ solved.ip = ip
          /\ Clock(h) >= solved.at /\ Clock(h) - solved.at < Ttl BY <2>1 DEF SolvedHere
    <2>3. ip \in Ips /\ solved.at \in Nat BY <2>1, <2>2, <1>0 DEF TypeInv
    <2>4. cookie = Issue(ip, solved.at) BY <1>8, <2>1, <2>2, <1>0 DEF SolvedInv
    <2>5. TokenValid(ip, Clock(h), cookie) BY <2>2, <2>3, <2>4, <1>1, IssuedIsValid
    <2> QED BY <2>1, <2>5 DEF Holds
<1> QED BY <1>2, <1>3, <1>4, <1>5, <1>6, <1>7, <1>8 DEF IInv

\* A right solution for a page of its own is taken for a day, and then the cookie is the one it buys;
\* no other solution buys one.
LEMMA SubmitStep ==
    ASSUME IInv, NEW h \in Hosts, NEW right \in BOOLEAN, Submit(h, right)
    PROVE  IInv'
<1> DEFINE t == Clock(h)
           own == right /\ page.nonce.ip = ip
           inTime == own /\ t - page.at \in 0..Day
           toApp == (~ChallengeOn \/ ip = NoIp) /\ answer' = [what |-> "app"] /\ UNCHANGED <<page, cookie, accepted>>
           taken == /\ ChallengeOn /\ ip # NoIp /\ Taken(h, right)
                    /\ answer' = Verdict("cookie", h, right) /\ cookie' = Issue(ip, t)
                    /\ accepted' = [accepted EXCEPT ![ip] = now] /\ UNCHANGED page
           again == /\ ChallengeOn /\ ip # NoIp /\ ~Taken(h, right)
                    /\ answer' = Verdict("again", h, right) /\ page' = Page(h) /\ UNCHANGED <<cookie, accepted>>
<1>1. TypeInv /\ PageInv /\ CookieInv /\ SolvedInv BY DEF IInv
<1>2. /\ page # Nothing /\ UNCHANGED <<now, ip>> /\ (toApp \/ taken \/ again)
      /\ solved' = IF ~own THEN solved ELSE IF inTime THEN [ip |-> ip, at |-> t] ELSE Nothing
    BY DEF Submit
<1>3. t \in Nat /\ Ahead[h] \in Nat /\ t = now + Ahead[h] /\ now \in Nat
    BY <1>1, ClockType DEF TypeInv
<1>4. inTime => Taken(h, right) BY <1>1, <1>2, InTimeIsTaken DEF Taken
<1>5. Taken(h, right) => own /\ t - page.at < 2 * Day BY <1>1, <1>2, TakenIsFresh DEF Taken
<1>6. Taken(h, right) \in BOOLEAN BY DEF Taken, NonceValid
<1>7. Got("cookie")' => taken BY <1>2 DEF Got, Verdict
<1>8. Got("again")' => again BY <1>2 DEF Got, Verdict
<1>9. ~Got("through")' /\ ~Got("page")' BY <1>2 DEF Got, Verdict
<1> HIDE DEF t, own, inTime
<1>10. TypeInv'
    <2>1. accepted' \in [Ips -> Nat \cup {Nothing}] BY <1>1, <1>2, <1>3 DEF TypeInv
    <2>2. solved' # Nothing => solved' \in [ip : Ips \cup {NoIp}, at : Nat] BY <1>1, <1>2, <1>3 DEF TypeInv
    <2> QED BY <1>1, <1>2, <2>1, <2>2 DEF TypeInv
<1>11. PageInv'
    <2>1. CASE UNCHANGED page BY <2>1, <1>1 DEF PageInv
    <2>2. CASE page' = Page(h) /\ ip # NoIp BY <2>2, <1>1, PageType DEF PageInv
    <2> QED BY <1>2, <2>1, <2>2
<1>12. CookieInv'
    <2>1. CASE UNCHANGED <<cookie, accepted>> BY <2>1, <1>1 DEF CookieInv
    <2>2. CASE taken
        <3>1. ip \in Ips /\ accepted'[ip] = now BY <2>2, <1>1 DEF TypeInv
        <3>2. cookie' = Issue(ip, accepted'[ip] + Ahead[h]) BY <2>2, <3>1, <1>3
        <3> QED BY <3>1, <3>2, <1>3 DEF CookieInv
    <2> QED BY <1>2, <2>1, <2>2
<1>13. SolvedInv'
    <2> SUFFICES ASSUME ChallengeOn, solved' # Nothing, solved'.ip # NoIp
                 PROVE  cookie' = Issue(solved'.ip, solved'.at)
        BY DEF SolvedInv
    <2>1. CASE inTime
        <3>1. own BY <2>1 DEF inTime
        <3>2. solved' = [ip |-> ip, at |-> t] BY <1>2, <2>1, <3>1
        <3>3. taken BY <1>2, <1>4, <2>1, <3>2
        <3> QED BY <3>2, <3>3
    <2>2. CASE ~inTime
        <3>1. ~own /\ solved' = solved BY <1>2, <2>2
        <3>2. ~taken BY <1>5, <3>1
        <3> QED BY <1>1, <1>2, <3>1, <3>2 DEF SolvedInv
    <2> QED BY <2>1, <2>2
<1>14. SolveSurvivesMidnight'
    <2> SUFFICES ASSUME Got("again")', answer'.right, answer'.own PROVE answer'.age \notin 0..Day
        BY DEF SolveSurvivesMidnight
    <2>1. again BY <1>8
    <2>2. right /\ page.nonce.ip = ip /\ answer'.age = t - page.at BY <2>1 DEF Verdict, t
    <2> QED BY <1>4, <2>1, <2>2 DEF inTime, own
<1>15. NoncesExpire'
    <2> SUFFICES ASSUME Got("cookie")' PROVE answer'.own /\ answer'.age < 2 * Day BY DEF NoncesExpire
    <2>1. taken BY <1>7
    <2>2. answer'.own = (page.nonce.ip = ip) /\ answer'.age = t - page.at BY <2>1 DEF Verdict, t
    <2> QED BY <1>5, <2>1, <2>2 DEF own
<1>16. (ThroughMeansSolved /\ SolverIsLetIn)' BY <1>9 DEF ThroughMeansSolved, SolverIsLetIn
<1> QED BY <1>10, <1>11, <1>12, <1>13, <1>14, <1>15, <1>16 DEF IInv

-----------------------------------------------------------------------------
LEMMA IInvInit == Init => IInv
BY DEF Init, IInv, TypeInv, PageInv, CookieInv, SolvedInv, ThroughMeansSolved, SolveSurvivesMidnight,
       NoncesExpire, SolverIsLetIn, Got

LEMMA IInvStep == IInv /\ [Next]_vars => IInv'
<1> SUFFICES ASSUME IInv, [Next]_vars PROVE IInv' OBVIOUS
<1>1. now \in Nat /\ ip \in Ips \cup {NoIp} BY DEF IInv, TypeInv
<1>2. ASSUME NEW h \in Hosts, NEW by \in {"rule", "app"}, Visit(h, by) PROVE IInv' BY <1>2, VisitStep
<1>3. ASSUME NEW h \in Hosts, NEW right \in BOOLEAN, Submit(h, right) PROVE IInv' BY <1>3, SubmitStep
<1>4. CASE Roam BY <1>1, <1>4, QuietStep DEF Roam
<1>5. CASE Tick BY <1>1, <1>5, QuietStep DEF Tick
<1>6. CASE UNCHANGED vars BY <1>1, <1>6, QuietStep DEF vars
<1> QED BY <1>2, <1>3, <1>4, <1>5, <1>6 DEF Next

\* The invariant that carries the four properties: the page, the cookie and the last solution in time
\* always belong together (issue, token_valid, nonce_valid).
THEOREM ChallengeInvariant == Spec => []IInv
BY IInvInit, IInvStep, PTL DEF Spec

\* A gate opens only to an address a right solution was taken from, less than the lifetime of a cookie
\* and the greatest lead of a clock ago (token_valid).
THEOREM ThroughMeansSolvedTheorem == Spec => []ThroughMeansSolved
<1>1. IInv => ThroughMeansSolved BY DEF IInv
<1> QED BY <1>1, ChallengeInvariant, PTL

\* A right solution sent from where its page was served is never refused within a day of it, midnight
\* or not (nonce_valid).
THEOREM SolveSurvivesMidnightTheorem == Spec => []SolveSurvivesMidnight
<1>1. IInv => SolveSurvivesMidnight BY DEF IInv
<1> QED BY <1>1, ChallengeInvariant, PTL

\* No page served to another address, or two days ago, buys a cookie (nonce_valid).
THEOREM NoncesExpireTheorem == Spec => []NoncesExpire
<1>1. IInv => NoncesExpire BY DEF IInv
<1> QED BY <1>1, ChallengeInvariant, PTL

\* An engine that challenges does not show the page again, while its cookie lasts, to a browser that
\* solved it in time (_verify, _gate).  With CAMADA_CHALLENGE=0 it does: the run challenge_trap.
THEOREM SolverIsLetInTheorem == ChallengeOn => (Spec => []SolverIsLetIn)
<1> SUFFICES ASSUME ChallengeOn PROVE Spec => []SolverIsLetIn OBVIOUS
<1>1. IInv => SolverIsLetIn BY DEF IInv
<1> QED BY <1>1, ChallengeInvariant, PTL
=============================================================================

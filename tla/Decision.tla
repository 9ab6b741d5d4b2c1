------------------------------ MODULE Decision ------------------------------
(***************************************************************************)
(* The pure functions a request's verdict is made of, each asked about     *)
(* everything in a set of cases and compared with what it stands for:      *)
(* resolve_client_ip (ClientIp), the container's lookups and Matcher.match *)
(* (Matcher), the path forms (Paths), parse_snapshot (Container), the      *)
(* ticks of the poll timer (Cadence); and the scrubbing of the query that  *)
(* the event of the request carries (Redact).                              *)
(***************************************************************************)
EXTENDS ClientIp, Paths, Matcher, Container, Cadence, Redact, TLC

CONSTANTS AddressCases, LookupCases, PathCases, VerdictCases, ContainerCases, CadenceCases, QueryCases

ASSUME DecisionAssumption ==
    /\ \A c \in AddressCases : /\ c.peer \in Entries \cup {Absent} /\ c.cf \in Entries \cup {Absent}
                              /\ c.xff \in Seq(Entries) /\ c.cfg \in Cfgs
    /\ \A c \in LookupCases :
         /\ IsRows(c.rows) /\ c.n \in 0..MaxAddress
         /\ \A a \in c.bm : a < DenseAsns
         /\ IsColumn(c.extra) /\ \A i \in DOMAIN c.extra : c.extra[i] \in Int /\ c.extra[i] >= DenseAsns
         /\ \A i, j \in DOMAIN c.extra : i < j => c.extra[i] < c.extra[j]
    /\ \A c \in PathCases : c.path \in Seq(Segments) /\ IsPath(c.path)
    /\ \A c \in VerdictCases : c.rules \in Seq(Rules) /\ c.regexes \in Conditions
    /\ \A c \in ContainerCases : c.lists \in Seq(ListSections) /\ c.rules \in Seq(MetaRules)
    /\ CadenceCases \subseteq Seq(Ticks)
    /\ QueryCases \subseteq Seq(Pieces)

VARIABLES about, asked, told
vars == <<about, asked, told>>

Init == about = "nothing" /\ asked = "nothing" /\ told = "nothing"

Idle == about = "nothing"
Ask(what, case, answer) == about' = what /\ asked' = case /\ told' = answer

AskAddress ==
    /\ Idle
    /\ \E c \in AddressCases : Ask("address", c, Resolve(c.peer, c.xff, c.cfg, c.cf))

AskLookup ==
    /\ Idle
    /\ \E c \in LookupCases :
         LET t == Table(c.rows)
         IN Ask("lookup", c, [v4 |-> Blocked4(t, c.n), v6 |-> Blocked6(t, c.n), side |-> InRange(t, c.n),
                              asn |-> BlockedAsn(c.bm, c.extra, c.n)])

AskPath ==
    /\ Idle
    /\ \E c \in PathCases :
         Ask("path", c, [deny |-> Fires(c.dirs, c.path, TRUE), exempt |-> Fires(c.dirs, c.path, FALSE)])

AskVerdict ==
    /\ Idle
    /\ \E c \in VerdictCases : Ask("verdict", c, Match(c.rules, c.listed, c.regexes))

\* Of the container for these rules, each number of words that may have come.
AskContainer ==
    /\ Idle
    /\ \E c \in ContainerCases :
         LET whole == Written(c.lists, c.rules)
         IN \E got \in 0..Words(whole) : Ask("container", [lists |-> c.lists, rules |-> c.rules, got |-> got], Parse(whole, c.rules, got))

AskCadence ==
    /\ Idle
    /\ \E ticks \in CadenceCases : Ask("cadence", [ticks |-> ticks], Polls(ticks))

AskQuery ==
    /\ Idle
    /\ \E q \in QueryCases : Ask("query", [query |-> q], ScrubQuery(q))

Next == AskAddress \/ AskLookup \/ AskPath \/ AskVerdict \/ AskContainer \/ AskCadence \/ AskQuery

Spec == Init /\ [][Next]_vars

-----------------------------------------------------------------------------
About(what) == about = what

\* The chain of hops is [...xff, peer].  A hop is vouched for if every hop to its right is one of the
\* tenant's proxies (or a loopback peer, or there is no peer).
Hops(c) == Append(c.xff, c.peer)
Passes(c, i, ranges) ==
    \/ Trusted(Hops(c)[i], ranges)
    \/ i = Len(Hops(c)) /\ Hops(c)[i] \in Loopback \cup {Absent}
Client(c, ranges) ==
    CHOOSE i \in 0..Len(Hops(c)) :
        /\ \A j \in (i + 1)..Len(Hops(c)) : Passes(c, j, ranges)
        /\ i > 0 => ~Passes(c, i, ranges)
Hop(c, i) == IF i = 0 \/ Hops(c)[i] \notin Valid THEN Sock(c.peer) ELSE Hops(c)[i]

\* Under a cidrs config the client is the first hop from the right that no proxy of the tenant's is,
\* and its socket's address if that hop is no address; Cloudflare's header is believed exactly if
\* the request came through the tenant's own hops from an edge (resolve_client_ip, "walks the chain
\* `[...xff, peer]` from the right").
ResolvesLikeTheChain ==
    About("address") /\ asked.cfg.mode = "cidrs" =>
        LET c == asked
            first == Client(c, c.cfg.cidrs \ c.cfg.cloudflare)
            direct == Client(c, c.cfg.cidrs) = Len(Hops(c))
            viaEdge == /\ c.cf \in Valid /\ ~direct
                       /\ first > 0 /\ Trusted(Hops(c)[first], c.cfg.cloudflare)
        IN told = IF viaEdge THEN c.cf ELSE Hop(c, Client(c, c.cfg.cidrs))

\* What stands left of the hop that decided is anybody's to write: no such entry changes the address,
\* in any mode.
Decided(c) ==
    CASE c.cfg.mode = "none"   -> TRUE
      [] c.cfg.mode = "vercel" -> c.xff # <<>>
      [] c.cfg.mode = "hops"   -> c.cfg.hops <= Len(c.xff)
      [] c.cfg.mode = "cidrs"  -> Client(c, c.cfg.cidrs) > 0
UpstreamIsIgnored ==
    About("address") /\ Decided(asked) =>
        \A e \in Entries : Resolve(asked.peer, <<e>> \o asked.xff, asked.cfg, asked.cf) = told

\* The binary searches, with their bitmap and their index, find exactly the addresses and ASNs in the
\* lists: first, last, adjacent and single-address ranges, and those that reach over an index.
LookupsFindWhatIsListed ==
    About("lookup") =>
        LET in == \E i \in DOMAIN asked.rows : asked.n \in asked.rows[i].s..asked.rows[i].e
        IN /\ told.v4 = in /\ told.v6 = in /\ told.side = in
           /\ told.asn = (asked.n \in asked.bm \cup Range(asked.extra))

\* "A path rule must catch every spelling a framework would route to the same handler": what a deny
\* rule catches it catches after any detour through a directory and back, any /./ and any //.
Detours == {<<Plain("a"), Plain("..")>>, <<Plain(".")>>, <<Empty>>}
DetoursAreCaught ==
    About("path") /\ Fires(asked.dirs, Full(asked.path), TRUE) =>
        \A k \in 0..Len(asked.path), d \in Detours :
            LET p == asked.path IN Fires(asked.dirs, SubSeq(p, 1, k) \o d \o SubSeq(p, k + 1, Len(p)), TRUE)

\* "/public/../admin can never borrow /public/'s exemption": a path is exempt only if what it resolves
\* to is, and what it says unresolved; and only where a deny rule would have fired.
ExemptionNotBorrowed ==
    About("path") /\ told.exempt =>
        told.deny /\ Fires(asked.dirs, Full(asked.path), FALSE) /\ Prefixed(asked.dirs, Lit(asked.path))

\* The verdict, had every regex all the time in the world: of the rules whose conditions all hold, the
\* first; else the sides in their order.
Says(text, deny) == IF text.over THEN deny ELSE text.hits
Holds(c, deny) ==
    CASE c.kind = "plain" -> c.holds
      [] c.kind = "regex" /\ deny -> \E i \in DOMAIN c.texts : Says(c.texts[i], deny)
      [] OTHER -> \A i \in DOMAIN c.texts : Says(c.texts[i], deny)
Firing(rule) == \A i \in DOMAIN rule.conds : Holds(rule.conds[i], rule.action # "skip")
Unhurried(c) ==
    LET firing == {i \in DOMAIN c.rules : Firing(c.rules[i])}
    IN IF firing # {} THEN c.rules[CHOOSE i \in firing : \A j \in firing : i <= j].action
       ELSE CASE "allow" \in c.listed -> "skip"
              [] "allow" \notin c.listed /\ ("block" \in c.listed \/ Holds(c.regexes, TRUE)) -> "block"
              [] OTHER -> IF "challenge" \in c.listed THEN "challenge" ELSE "none"

Quick(c) == c.kind = "regex" => \A text \in Range(c.texts) : text.cost = 0
NoneSlow(c) == Quick(c.regexes) /\ \A rule \in Range(c.rules) : \A cond \in Range(rule.conds) : Quick(cond)

\* "first match wins, the order IS the precedence": if no regex is slow, the verdict is that of the
\* first rule that fires, or of the first side.
FirstMatchDecides ==
    About("verdict") /\ NoneSlow(asked) => told = Unhurried(asked)

\* However slow its regexes are, a request is exempted (`skip`) or passed unmarked (`none`) only if it
\* would have been with all the time in the world: a regex that is cut off hits for a deny rule and
\* misses for a skip.  A `warn` is the exception: cut off it hits too, ends the walk and passes the
\* request marked, whatever a rule below would have done.
SlowRegexNeverOpens ==
    About("verdict") => /\ told = "skip" => Unhurried(asked) = "skip"
                        /\ told = "none" => Unhurried(asked) \in {"none", "skip"}

\* "Raises on a malformed container": a body that was cut anywhere is refused whole.  Of one that came
\* whole, each rule this SDK knows reads the ranges written for it, condition by condition, whatever
\* rules before it were left out.
Meant(rules, i) ==
    [k \in DOMAIN rules[i].conds |->
        LET cond == rules[i].conds[k] IN IF cond.kind = "ip" THEN <<cond.v4, cond.v6>> ELSE cond.kind]
ContainersReadAsWritten ==
    About("container") =>
        LET kept == {i \in DOMAIN asked.rules : Kept(asked.rules[i])}
        IN /\ told.refused = (asked.got < Words(Written(asked.lists, asked.rules)))
           /\ told.refused \/
                /\ Len(told.rules) = Cardinality(kept)
                /\ \A i \in kept : told.rules[Cardinality({j \in kept : j <= i})] = Meant(asked.rules, i)

\* "A full-interval comparison makes every other tick a no-op": with answers that come within a tenth
\* of the interval, and failures whose gate is open again, every tick polls.  However slow the answers,
\* within an interval, and whatever Retry-After a failure brings, no two ticks in a row are idle.
Prompt(tick) == /\ 10 * tick.took < Refresh
                /\ tick.took + (IF tick.end > Floor THEN tick.end ELSE Floor) <= Refresh
CadenceKept ==
    About("cadence") =>
        /\ (\A i \in DOMAIN told : Prompt(asked.ticks[i])) => \A i \in DOMAIN told : told[i]
        /\ \A i \in DOMAIN told : i > 1 => told[i - 1] \/ told[i]

\* "Double (or triple) encoding cannot hide a name or a nested query": however often the pieces of a
\* query are encoded, the parts replaced are those that would be if each were encoded once, and those
\* that four passes do not decode.  The parts keep their places, and what ships has nothing left that
\* another scrub would take.
Once(q) == [i \in DOMAIN q |-> IF q[i].layers > 1 THEN [q[i] EXCEPT !.layers = 1] ELSE q[i]]
Scrubbed(text, i) == Removed \in ToSet(Parts(text)[i])
EncodingHidesNothing ==
    About("query") =>
        LET q == asked.query
        IN /\ Len(Parts(told)) = Len(Parts(q))
           /\ \A i \in DOMAIN Parts(q) : Scrubbed(told, i) = (Scrubbed(ScrubQuery(Once(q)), i) \/ TooDeep(Parts(q)[i]))
           /\ ScrubQuery(told) = told
=============================================================================

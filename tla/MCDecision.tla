----------------------------- MODULE MCDecision -----------------------------
(* Small instances of Decision for TLC. *)
EXTENDS Decision

CONSTANTS proxy, edge, client, other, local, junk, Proxies, Edges

MCIn == (Proxies :> {proxy}) @@ (Edges :> {edge})
MCCfgs ==
    {[mode |-> "none"], [mode |-> "vercel"]} \cup [mode : {"hops"}, hops : 1..3]
      \cup {[mode |-> "cidrs", cidrs |-> c, cloudflare |-> e] :
              c \in {{Proxies}, {Edges}, {Proxies, Edges}}, e \in {{}, {Edges}}}
MCAddressCases ==
    [peer : Entries \cup {Absent}, xff : UNION {[1..n -> Entries] : n \in 0..3}, cfg : MCCfgs, cf : {Absent, junk, other}]

\* Up to three ranges, and ASNs on both sides of the bitmap's end.
Spans == {r \in [s : 0..MaxAddress, e : 0..MaxAddress] : r.s <= r.e /\ r.e <= r.s + IndexSize}
Apart(rs) == \A r, q \in rs : r = q \/ r.e < q.s \/ q.e < r.s
RangeSets == {rs \in {{}} \cup {{p, q, r} : p, q, r \in Spans} : Apart(rs)}
Column(S, before(_, _)) == LET s == SetToSortSeq(S, before) IN [i \in 0..(Len(s) - 1) |-> s[i + 1]]
MCRows == {Column(rs, LAMBDA p, q : p.s < q.s) : rs \in RangeSets}
MCExtras == {Column(asns, <) : asns \in SUBSET (DenseAsns..MaxAddress)}
MCLookupCases ==
    [rows : MCRows, n : 0..MaxAddress, bm : {{}}, extra : {Column({}, <)}]
      \cup [rows : {Column({}, <)}, n : 0..MaxAddress, bm : SUBSET (0..(DenseAsns - 1)), extra : MCExtras]

\* A segment written canonically or otherwise (%2e%2e), with a parameter, or nothing but one.
MCSegments ==
    {Plain(n) : n \in Names}
      \cup {[name |-> "..", plain |-> FALSE, param |-> FALSE], [name |-> "a", plain |-> FALSE, param |-> FALSE],
            [name |-> "a", plain |-> TRUE, param |-> TRUE], [name |-> "", plain |-> TRUE, param |-> TRUE]}
MCPathCases ==
    [path : {p \in UNION {[1..n -> MCSegments] : n \in 0..3} : IsPath(p)},
     dirs : SUBSET {<<>>, <<Plain("a")>>, <<Plain("b")>>, <<Plain("a"), Plain("b")>>}]

Slow == 3
Text1 == [over : {FALSE}, hits : BOOLEAN, cost : {0, Slow}] \cup {[over |-> TRUE, hits |-> FALSE, cost |-> 0]}
MCConds == [kind : {"plain"}, holds : BOOLEAN] \cup [kind : {"regex"}, texts : {<<t>> : t \in Text1}]
Two == [kind |-> "regex", texts |-> <<[over |-> FALSE, hits |-> FALSE, cost |-> Slow], [over |-> FALSE, hits |-> TRUE, cost |-> 0]>>]
MCRules ==
    [action : {"skip", "block", "warn"}, conds : {<<c>> : c \in MCConds \cup {Two}}]
      \cup [action : {"skip", "challenge"}, conds : {<<Two, [kind |-> "plain", holds |-> FALSE]>>, <<Two, [kind |-> "plain", holds |-> TRUE]>>}]
MCVerdictCases ==
    [rules : UNION {[1..n -> MCRules] : n \in 0..3}, listed : {{}, {"block", "challenge"}, {"allow", "block"}},
     regexes : {[kind |-> "plain", holds |-> FALSE], Two}]

\* Every condition has ranges of its own name; a half of an ip condition may be empty.
MCConditions == {"plain", "malformed", "v4", "v6", "both"}
MCCondition(kind, i, k) ==
    IF kind \in {"plain", "malformed"} THEN [kind |-> kind]
    ELSE [kind |-> "ip", v4 |-> IF kind = "v6" THEN <<>> ELSE <<4, i, k>>, v6 |-> IF kind = "v4" THEN <<>> ELSE <<6, i, k>>]
MCShapes == [known : {TRUE}, kinds : UNION {[1..n -> MCConditions] : n \in 0..2}]
              \cup [known : {FALSE}, kinds : {<<>>, <<"both">>, <<"plain", "v4">>}]
MCContainerCases ==
    {[lists |-> l,
      rules |-> [i \in DOMAIN shapes |->
                   [known |-> shapes[i].known,
                    conds |-> [k \in DOMAIN shapes[i].kinds |-> MCCondition(shapes[i].kinds[k], i, k)]]]] :
       l \in {<<>>, <<[t |-> 10, words |-> <<1, 2>>], [t |-> 11, words |-> <<>>]>>},
       shapes \in UNION {[1..n -> MCShapes] : n \in 0..2}}

MCCadenceCases == [1..3 -> [late : {0, 2}, took : {1, 2, 19}, end : {Answered, 0, 99}]]

\* Any three pieces, each raw, encoded once, or once more than can be decoded; and after a raw name and
\* its =, any three encoded as often as can be decoded.
MCPieces(layers) == [is : Separators \cup (Texts \ {"~r"}), layers : layers]
MCQueryCases ==
    UNION {[1..n -> MCPieces({0, 1, DecodePasses + 1})] : n \in 0..3}
      \cup {<<Piece("word"), Piece("=")>> \o q : q \in [1..3 -> MCPieces({0, DecodePasses})]}
=============================================================================

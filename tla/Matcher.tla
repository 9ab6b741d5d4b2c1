------------------------------- MODULE Matcher -------------------------------
(***************************************************************************)
(* Matcher (src/camada/snapshot/match.py) and what it calls of parse.py    *)
(* and paths.py: the lookups in the container's sorted columns, and the    *)
(* decision about one request, under a budget for its regexes.             *)
(*                                                                         *)
(* Addresses are small numbers, the /24 and /16 of one BlockSize and       *)
(* IndexSize of them.  A condition without a regex is whether it holds; a  *)
(* regex is what each text it is tried on would answer, and after how      *)
(* long.  Definitions called ...Mutant are wrong on purpose.               *)
(***************************************************************************)
EXTENDS Integers, Sequences, FiniteSets, SequencesExt

CONSTANTS
    MaxAddress, BlockSize, IndexSize,   \* addresses are 0..MaxAddress
    DenseAsns,                          \* the ASNs below this are a bitmap
    MatchLimit, Budget                  \* MATCH_BUDGET_MS, REQUEST_REGEX_BUDGET_MS

ASSUME MatcherAssumption ==
    /\ MaxAddress \in Nat /\ BlockSize \in Nat \ {0} /\ IndexSize \in Nat \ {0}
    /\ DenseAsns \in Nat /\ MatchLimit \in Nat /\ Budget \in Nat \ {0}

-----------------------------------------------------------------------------
(* The columns of a list of ranges.                                        *)

\* Numbered from 0, as in the container.
Size(col) == Cardinality(DOMAIN col)
IsColumn(col) == IsFiniteSet(DOMAIN col) /\ DOMAIN col = 0..(Size(col) - 1)

\* Ranges in their order, apart from one another.
IsRows(rows) ==
    /\ IsColumn(rows)
    /\ \A i \in DOMAIN rows : rows[i].s \in 0..MaxAddress /\ rows[i].e \in rows[i].s..MaxAddress
    /\ \A i, j \in DOMAIN rows : i < j => rows[i].e < rows[j].s

Table(rows) ==
    [n   |-> Size(rows),
     s   |-> [i \in DOMAIN rows |-> rows[i].s],
     e   |-> [i \in DOMAIN rows |-> rows[i].e],
     bm  |-> {a \div BlockSize : a \in UNION {rows[i].s..rows[i].e : i \in DOMAIN rows}},
     idx |-> [h \in 0..(MaxAddress \div IndexSize + 1) |->
                 Cardinality({i \in DOMAIN rows : rows[i].s \div IndexSize < h})]]

\* The last row from left to right that does not start past n, or the leftmost.
Search(t, n, left, right) ==
    LET f[w \in (left..right) \X (left..right)] ==
          LET l == w[1]  r == w[2]  m == (l + r + 1) \div 2
          IN IF l < r THEN IF t.s[m] <= n THEN f[<<m, r>>] ELSE f[<<l, m - 1>>]
             ELSE l
    IN f[<<left, right>>]

Covers(t, row, n) == t.s[row] <= n /\ n <= t.e[row]

StepBackMutant(left) == left   \* a range that began in an earlier /16 is not seen
\* The row before the index may reach into this /16.
StepBack(left) == IF left > 0 THEN left - 1 ELSE left

Blocked4(t, n) ==
    LET left == StepBack(t.idx[n \div IndexSize])
        right == t.idx[n \div IndexSize + 1] - 1
    IN n \div BlockSize \in t.bm /\ left <= right /\ Covers(t, Search(t, n, left, right), n)

Blocked6(t, n) == n \div BlockSize \in t.bm /\ t.n > 0 /\ Covers(t, Search(t, n, 0, t.n - 1), n)

\* The lists of a side and of a rule's ip condition.
InRange(t, n) == t.n > 0 /\ Covers(t, Search(t, n, 0, t.n - 1), n)

\* `extra` holds the ASNs past the bitmap, sorted.
BlockedAsn(bm, extra, asn) ==
    LET k == Size(extra)
        f[w \in (0..k) \X (-1..(k - 1))] ==
          LET l == w[1]  r == w[2]  m == (l + r) \div 2
          IN l <= r /\ (extra[m] = asn \/ IF extra[m] < asn THEN f[<<m + 1, r>>] ELSE f[<<l, m - 1>>])
    IN IF asn < DenseAsns THEN asn \in bm ELSE f[<<0, k - 1>>]

-----------------------------------------------------------------------------
(* The rules as they were compiled.  A text over the cap is answered       *)
(* without running the regex.                                              *)

RegexTexts == [over : BOOLEAN, hits : BOOLEAN, cost : Nat]
Conditions == [kind : {"plain"}, holds : BOOLEAN] \cup [kind : {"regex"}, texts : Seq(RegexTexts)]
Rules == [action : {"skip", "block", "challenge", "warn"}, conds : Seq(Conditions)]

OnErrorMutant(deny) == TRUE   \* a skip rule fires when its regex cannot be run
OnError(deny) == deny

RegexHit(text, left, deny) ==
    [hit  |-> IF text.over \/ left <= 0 \/ text.cost > MatchLimit THEN OnError(deny) ELSE text.hits,
     left |-> IF text.over \/ left <= 0 THEN left
              ELSE left - (IF text.cost > MatchLimit THEN MatchLimit ELSE text.cost)]

\* Deny hits on any of the texts, an exemption on all; neither tries more than it must.
Try(acc, text, deny) == IF acc.hit = deny THEN acc ELSE RegexHit(text, acc.left, deny)

\* Whether the condition holds, and what is left of the budget.
Cond(c, left, deny) ==
    IF c.kind = "plain" THEN [hit |-> c.holds, left |-> left]
    ELSE FoldLeft(LAMBDA acc, text : Try(acc, text, deny), [hit |-> ~deny, left |-> left], c.texts)

-----------------------------------------------------------------------------
(* match(): the rules in order, then allow, block and challenge.           *)

Conds(rule, left) ==
    FoldLeft(LAMBDA acc, c : IF acc.hit THEN Cond(c, acc.left, rule.action # "skip") ELSE acc,
             [hit |-> TRUE, left |-> left], rule.conds)

DecidesMutant(acc) == FALSE   \* a later rule overrides an earlier one
Decides(acc) == acc.by # 0

\* The rule that decides, 0 for none.
Walk(rules) ==
    FoldLeftDomain(LAMBDA acc, i :
                     IF Decides(acc) THEN acc
                     ELSE LET c == Conds(rules[i], acc.left)
                          IN [by |-> IF c.hit THEN i ELSE acc.by, left |-> c.left],
                   [by |-> 0, left |-> Budget], rules)

\* `listed` names the side lists the request is on; the block side has path regexes, too.
Side(listed, regexes, left) ==
    CASE "allow" \in listed -> "skip"
      [] "allow" \notin listed /\ ("block" \in listed \/ Cond(regexes, left, TRUE).hit) -> "block"
      [] OTHER -> IF "challenge" \in listed THEN "challenge" ELSE "none"

Match(rules, listed, regexes) ==
    LET w == Walk(rules)
    IN IF w.by # 0 THEN rules[w.by].action ELSE Side(listed, regexes, w.left)
=============================================================================

-------------------------- MODULE Decision_proofs --------------------------
(***************************************************************************)
(* What Decision tells of the lookups, of the verdicts, of the poll timer  *)
(* and of containers is right for every list of ranges, every list of      *)
(* rules and budget, any ticks and every container, cut anywhere:          *)
(* LookupsFindWhatIsListed, FirstMatchDecides, SlowRegexNeverOpens,        *)
(* CadenceKept and ContainersReadAsWritten.                                *)
(*                                                                         *)
(* A recursive function, and a fold is one, is CHOOSE f : f = Body(f).     *)
(* Each proof about one gives a solution, so the function solves its       *)
(* equation; what it computes follows by Induction or SeqInduction.        *)
(***************************************************************************)
EXTENDS Decision, FiniteSetTheorems, WellFoundedInduction, TLAPS

\* Induction, for a set of numbers.
LEMMA Induction ==
    ASSUME NEW S \in SUBSET Nat, 0 \in S, \A k \in S : k + 1 \in S
    PROVE  S = Nat
<1>1. SUFFICES ASSUME NEW b \in Nat, b \notin S PROVE FALSE
  OBVIOUS
<1>. DEFINE Upto(k) == 0..k
            Bad == {Upto(k) : k \in {j \in 0..b : j \notin S}}
<1>2. IsFiniteSet(0..b)
  BY FS_Interval
<1>3. IsWellFoundedOn(StrictSubsetOrdering(0..b), FiniteSubsetsOf(0..b))
  BY <1>2, FS_StrictSubsetOrderingWellFounded
<1>4. Bad \subseteq FiniteSubsetsOf(0..b)
  BY <1>2, FS_FiniteSubsetsOfFinite
<1>5. Bad # {}
  BY <1>1
<1>6. PICK X \in Bad : \A Y \in Bad : <<Y, X>> \notin StrictSubsetOrdering(0..b)
  <2>. HIDE DEF Bad
  <2>. QED
    BY <1>3, <1>4, <1>5, WFMin
<1>7. PICK k \in 0..b : k \notin S /\ X = Upto(k)
  BY <1>6
<1>8. k - 1 \in 0..b /\ (k - 1) + 1 = k
  BY <1>7
<1>9. k - 1 \notin S
  BY <1>7, <1>8
<1>10. Upto(k - 1) \in Bad
  BY <1>8, <1>9
<1>11. <<Upto(k - 1), X>> \in StrictSubsetOrdering(0..b)
  BY <1>7, <1>8 DEF StrictSubsetOrdering
<1>. QED
  BY <1>6, <1>10, <1>11

CutAt(P, lo, hi, K) == K \in (lo - 1)..hi /\ P = lo..K
\* What is closed downwards between two bounds is all there is up to some last number.
LEMMA Cut ==
    ASSUME NEW lo \in Int, NEW hi \in Int, NEW P \in SUBSET (lo..hi),
           lo <= hi + 1, \A i \in P : \A j \in lo..i : j \in P
    PROVE  \E K : CutAt(P, lo, hi, K)
<1>1. CASE P = {}
  <2>1. CutAt(P, lo, hi, lo - 1)
    BY <1>1 DEF CutAt
  <2>. QED
    BY <2>1
<1>2. CASE P # {}
  <2>1. lo \in P
    <3>1. PICK i \in P : TRUE
      BY <1>2
    <3>2. lo \in lo..i
      BY <3>1
    <3>. QED
      BY <3>2
  <2>2. SUFFICES ASSUME \A i \in P : i + 1 \in P
                 PROVE  FALSE
    <3>1. ASSUME NEW i \in P, i + 1 \notin P PROVE CutAt(P, lo, hi, i)
      <4>1. ASSUME NEW j \in P, j > i PROVE FALSE
        <5>1. i + 1 \in lo..j
          BY <4>1
        <5>. QED
          BY <3>1, <5>1
      <4>2. i \in lo..hi /\ \A j \in P : j \in lo..hi
        OBVIOUS
      <4>3. \A j \in lo..i : j \in P
        OBVIOUS
      <4>4. \A j \in P : j \in lo..i
        BY <4>1, <4>2
      <4>. QED
        <5>1. P = lo..i
          BY <4>3, <4>4
        <5>2. i \in (lo - 1)..hi
          BY <4>2
        <5>. QED
          BY <5>1, <5>2 DEF CutAt
    <3>. QED
      BY <3>1
  <2>. DEFINE S == {k \in Nat : lo + k \in P}
  <2>3. 0 \in S
    BY <2>1
  <2>4. \A k \in S : k + 1 \in S
    BY <2>2
  <2>5. S = Nat
    <3>1. S \in SUBSET Nat
      OBVIOUS
    <3>. HIDE DEF S
    <3>. QED
      BY <3>1, <2>3, <2>4, Induction
  <2>6. hi - lo + 1 \in S
    <3>1. hi - lo + 1 \in Nat
      OBVIOUS
    <3>. HIDE DEF S
    <3>. QED
      BY <2>5, <3>1
  <2>7. hi + 1 \in P
    BY <2>6
  <2>. QED
    BY <2>7
<1>. QED
  BY <1>1, <1>2

-----------------------------------------------------------------------------
(* Folds over a sequence.                                                  *)

\* The greatest number of a set is one that bounds it.
LEMMA MaxIs ==
    ASSUME NEW s \in SUBSET Int, NEW m \in s, \A y \in s : m >= y
    PROVE  Max(s) = m
<1>1. \A x \in s : (\A y \in s : x >= y) => x = m
  OBVIOUS
<1>. QED
  BY <1>1 DEF Max

\* A fold of typed steps that takes the greatest element last has a solution.
FoldsTo(iter, D, base, step) ==
    \A s \in SUBSET D : iter[s] = IF s = {} THEN base ELSE step[Max(s)][iter[s \ {Max(s)}]]

\* So over the sets of places of a sequence there is one, and it stays in the type of its steps.
LEMMA FoldExists ==
    ASSUME NEW n \in Nat, NEW A, NEW base \in A, NEW step \in [1..n -> [A -> A]]
    PROVE  \E iter \in [SUBSET (1..n) -> A] : FoldsTo(iter, 1..n, base, step)
<1>. DEFINE Has(k) == \E iter \in [SUBSET (1..k) -> A] : FoldsTo(iter, 1..k, base, step)
            S == {k \in Nat : k <= n => Has(k)}
<1>1. 0 \in S
  <2>. DEFINE g == [s \in SUBSET (1..0) |-> base]
  <2>1. 1..0 = {}
    OBVIOUS
  <2>2. g \in [SUBSET (1..0) -> A]
    OBVIOUS
  <2>3. FoldsTo(g, 1..0, base, step)
    BY <2>1 DEF FoldsTo
  <2>4. Has(0)
    <3>. HIDE DEF g
    <3>. QED
      BY <2>2, <2>3
  <2>. HIDE DEF Has
  <2>. QED
    BY <2>4
<1>2. \A k \in S : k + 1 \in S
  <2>1. SUFFICES ASSUME NEW k \in Nat, k + 1 <= n, Has(k) PROVE Has(k + 1)
    <3>. HIDE DEF Has
    <3>. QED
      OBVIOUS
  <2>2. PICK g \in [SUBSET (1..k) -> A] : FoldsTo(g, 1..k, base, step)
    BY <2>1
  <2>. DEFINE h == [s \in SUBSET (1..(k + 1)) |-> IF k + 1 \in s THEN step[k + 1][g[s \ {k + 1}]] ELSE g[s]]
  <2>3. k + 1 \in 1..n /\ step[k + 1] \in [A -> A]
    BY <2>1
  <2>4. \A s \in SUBSET (1..(k + 1)) : s \ {k + 1} \in SUBSET (1..k) /\ (k + 1 \notin s => s \in SUBSET (1..k))
    <3>1. \A x \in 1..(k + 1) : x # k + 1 => x \in 1..k
      OBVIOUS
    <3>. QED
      BY <3>1
  <2>5. h \in [SUBSET (1..(k + 1)) -> A]
    <3>1. ASSUME NEW s \in SUBSET (1..(k + 1))
          PROVE  (IF k + 1 \in s THEN step[k + 1][g[s \ {k + 1}]] ELSE g[s]) \in A
      BY <2>2, <2>3, <2>4
    <3>. QED
      BY <3>1
  <2>6. ASSUME NEW s \in SUBSET (1..(k + 1))
        PROVE  h[s] = IF s = {} THEN base ELSE step[Max(s)][h[s \ {Max(s)}]]
    <3>1. CASE k + 1 \in s
      <4>1. Max(s) = k + 1
        <5>1. s \in SUBSET Int /\ \A y \in s : k + 1 >= y
          OBVIOUS
        <5>. QED
          BY <3>1, <5>1, MaxIs
      <4>2. s \ {k + 1} \in SUBSET (1..(k + 1)) /\ k + 1 \notin s \ {k + 1}
        OBVIOUS
      <4>3. h[s \ {k + 1}] = g[s \ {k + 1}]
        BY <4>2
      <4>4. h[s] = step[k + 1][g[s \ {k + 1}]]
        BY <3>1
      <4>. HIDE DEF h
      <4>. QED
        BY <3>1, <4>1, <4>3, <4>4
    <3>2. CASE k + 1 \notin s
      <4>1. s \in SUBSET (1..k) /\ s \ {Max(s)} \in SUBSET (1..k) /\ s \ {Max(s)} \in SUBSET (1..(k + 1))
        BY <2>4, <3>2
      <4>2. h[s] = g[s] /\ h[s \ {Max(s)}] = g[s \ {Max(s)}]
        BY <3>2, <4>1
      <4>. HIDE DEF h
      <4>. QED
        BY <2>2, <4>1, <4>2 DEF FoldsTo
    <3>. QED
      BY <3>1, <3>2
  <2>. HIDE DEF h
  <2>7. FoldsTo(h, 1..(k + 1), base, step)
    BY <2>6 DEF FoldsTo
  <2>. QED
    BY <2>5, <2>7
<1>3. S = Nat
  <2>1. S \in SUBSET Nat
    OBVIOUS
  <2>. HIDE DEF S
  <2>. QED
    BY <2>1, <1>1, <1>2, Induction
<1>4. Has(n)
  <2>. HIDE DEF Has
  <2>. QED
    BY <1>3
<1>. QED
  BY <1>4

\* The last of the first k places is k.
LEMMA MaxInterval ==
    ASSUME NEW k \in Nat \ {0}
    PROVE  Max(1..k) = k /\ (1..k) \ {k} = 1..(k - 1) /\ 1..k # {}
<1>1. 1..k \in SUBSET Int /\ k \in 1..k /\ \A y \in 1..k : k >= y
  OBVIOUS
<1>2. Max(1..k) = k
  BY <1>1, MaxIs
<1>3. \A x : x \in (1..k) \ {k} <=> x \in 1..(k - 1)
  OBVIOUS
<1>. QED
  BY <1>1, <1>2, <1>3

\* The greatest number of a set that is not empty is one of its elements and bounds them.
LEMMA MaxInside ==
    ASSUME NEW n \in Nat, NEW s \in SUBSET (1..n), s # {}
    PROVE  Max(s) \in s /\ Max(s) \in 1..n /\ \A y \in s : Max(s) >= y
<1>. DEFINE Has(k) == \A u \in SUBSET (1..k) : u # {} => \E m \in u : \A y \in u : m >= y
            S == {k \in Nat : Has(k)}
<1>1. 0 \in S
  <2>1. \A u \in SUBSET (1..0) : u = {}
    OBVIOUS
  <2>. QED
    BY <2>1
<1>2. \A k \in S : k + 1 \in S
  <2>1. SUFFICES ASSUME NEW k \in Nat, Has(k), NEW u \in SUBSET (1..(k + 1)), u # {}
                 PROVE  \E m \in u : \A y \in u : m >= y
    OBVIOUS
  <2>2. CASE k + 1 \in u
    BY <2>2
  <2>3. CASE k + 1 \notin u
    <3>1. u \in SUBSET (1..k)
      <4>1. \A x \in 1..(k + 1) : x # k + 1 => x \in 1..k
        OBVIOUS
      <4>. QED
        BY <2>3, <4>1
    <3>. QED
      BY <2>1, <3>1
  <2>. QED
    BY <2>2, <2>3
<1>3. S = Nat
  <2>1. S \in SUBSET Nat
    OBVIOUS
  <2>. HIDE DEF S
  <2>. QED
    BY <2>1, <1>1, <1>2, Induction
<1>4. PICK m \in s : \A y \in s : m >= y
  <2>1. Has(n)
    <3>. HIDE DEF Has
    <3>. QED
      BY <1>3
  <2>. QED
    BY <2>1
<1>5. s \in SUBSET Int
  OBVIOUS
<1>. QED
  BY <1>4, <1>5, MaxIs

-----------------------------------------------------------------------------
(* The binary search.                                                      *)

\* Between two bounds, a search of a sorted column ends at the last row that does not start past what
\* is looked for, or at the first row.
LEMMA SearchEnds ==
    ASSUME NEW t, NEW n \in Int, NEW left \in Int, NEW right \in Int, left <= right,
           \A i \in left..right : t.s[i] \in Int,
           \A i, j \in left..right : i < j => t.s[i] < t.s[j]
    PROVE  /\ Search(t, n, left, right) \in left..right
           /\ \A i \in left..right :
                 t.s[i] <= n => i <= Search(t, n, left, right) /\ t.s[Search(t, n, left, right)] <= n
<1>. DEFINE P == {i \in left..right : t.s[i] <= n}
            W == (left..right) \X (left..right)
<1>1. \A i \in P : \A j \in left..i : j \in P
  BY Z3
<1>2. PICK K : CutAt(P, left, right, K)
  <2>1. P \in SUBSET (left..right)
    OBVIOUS
  <2>2. left <= right + 1
    OBVIOUS
  <2>3. \A i \in P : \A j \in left..i : j \in P
    BY <1>1
  <2>. HIDE DEF P
  <2>. QED
    BY <2>1, <2>2, <2>3, Cut
<1>20. K \in (left - 1)..right /\ P = left..K
  BY <1>2 DEF CutAt
<1>3. \A i \in left..right : (t.s[i] <= n) <=> (i <= K)
  BY <1>20
<1>. HIDE DEF P
<1>. DEFINE Mid(l, r) == (l + r + 1) \div 2
            Body(h) == [w \in W |->
                          IF w[1] < w[2]
                          THEN IF t.s[Mid(w[1], w[2])] <= n THEN h[<<Mid(w[1], w[2]), w[2]>>]
                                                            ELSE h[<<w[1], Mid(w[1], w[2]) - 1>>]
                          ELSE w[1]]
            F == CHOOSE h : h = Body(h)
            G == [w \in W |-> IF w[1] < w[2]
                              THEN IF K < w[1] THEN w[1] ELSE IF K > w[2] THEN w[2] ELSE K
                              ELSE w[1]]
<1>4. Search(t, n, left, right) = F[<<left, right>>]
  BY DEF Search
<1>5. \A l, r \in left..right :
         l < r => Mid(l, r) \in (l + 1)..r /\ Mid(l, r) \in left..right /\ Mid(l, r) - 1 \in left..right
  OBVIOUS
<1>. HIDE DEF Mid
<1>. DEFINE At(h, l, r) == h[<<l, r>>]
            To(l, r) == IF l < r THEN IF K < l THEN l ELSE IF K > r THEN r ELSE K ELSE l
            Solves(h) == \A l, r \in left..right :
                           At(h, l, r) = IF l < r THEN IF t.s[Mid(l, r)] <= n THEN At(h, Mid(l, r), r)
                                                                              ELSE At(h, l, Mid(l, r) - 1)
                                         ELSE l
<1>6. \A l, r \in left..right : At(G, l, r) = To(l, r)
  OBVIOUS
<1>7. \A l, r \in left..right :
         To(l, r) = IF l < r THEN IF t.s[Mid(l, r)] <= n THEN To(Mid(l, r), r) ELSE To(l, Mid(l, r) - 1)
                    ELSE l
  <2>1. SUFFICES ASSUME NEW l \in left..right, NEW r \in left..right, l < r
                 PROVE  To(l, r) = IF t.s[Mid(l, r)] <= n THEN To(Mid(l, r), r) ELSE To(l, Mid(l, r) - 1)
    OBVIOUS
  <2>. DEFINE m == Mid(l, r)
  <2>2. m \in (l + 1)..r /\ m \in left..right /\ ((t.s[m] <= n) <=> (m <= K)) /\ K \in Int
    <3>1. m \in (l + 1)..r /\ m \in left..right
      BY <2>1, <1>5
    <3>. HIDE DEF m
    <3>2. (t.s[m] <= n) <=> (m <= K)
      BY <3>1, <1>3
    <3>3. K \in Int
      BY <1>20
    <3>. QED
      BY <3>1, <3>2, <3>3
  <2>. HIDE DEF m
  <2>3. To(l, r) = IF m <= K THEN To(m, r) ELSE To(l, m - 1)
    BY <2>1, <2>2
  <2>. QED
    BY <2>2, <2>3 DEF m
<1>8. G = Body(G)
  <2>1. ASSUME NEW l \in left..right, NEW r \in left..right PROVE G[<<l, r>>] = Body(G)[<<l, r>>]
    <3>1. Body(G)[<<l, r>>] = IF l < r THEN IF t.s[Mid(l, r)] <= n THEN At(G, Mid(l, r), r)
                                                                   ELSE At(G, l, Mid(l, r) - 1)
                              ELSE l
      <4>. HIDE DEF G
      <4>. QED
        OBVIOUS
    <3>2. G[<<l, r>>] = To(l, r)
      BY <1>6
    <3>. HIDE DEF G, Body
    <3>3. CASE l < r
      <4>1. Mid(l, r) \in left..right /\ Mid(l, r) - 1 \in left..right
        BY <3>3, <1>5
      <4>2. At(G, Mid(l, r), r) = To(Mid(l, r), r) /\ At(G, l, Mid(l, r) - 1) = To(l, Mid(l, r) - 1)
        <5>. HIDE DEF At, To
        <5>. QED
          BY <4>1, <1>6
      <4>. HIDE DEF At, To
      <4>. QED
        BY <3>1, <3>2, <3>3, <4>2, <1>7
    <3>4. CASE ~(l < r)
      <4>. HIDE DEF At, To
      <4>. QED
        BY <3>1, <3>2, <3>4, <1>7
    <3>. QED
      BY <3>3, <3>4
  <2>2. \A w \in W : G[w] = Body(G)[w]
    <3>. HIDE DEF G, Body
    <3>. QED
      BY <2>1
  <2>3. G = [w \in W |-> G[w]] /\ Body(G) = [w \in W |-> Body(G)[w]]
    <3>1. G = [w \in W |-> G[w]]
      OBVIOUS
    <3>2. ASSUME NEW h PROVE Body(h) = [w \in W |-> Body(h)[w]]
      OBVIOUS
    <3>. HIDE DEF G, Body
    <3>. QED
      BY <3>1, <3>2
  <2>. HIDE DEF G, Body, W
  <2>. QED
    BY <2>2, <2>3
<1>9. F = Body(F)
  <2>. HIDE DEF Body, G
  <2>. QED
    BY <1>8
<1>10. Solves(F)
  <2>1. ASSUME NEW l \in left..right, NEW r \in left..right
        PROVE  Body(F)[<<l, r>>] = IF l < r THEN IF t.s[Mid(l, r)] <= n THEN At(F, Mid(l, r), r)
                                                                        ELSE At(F, l, Mid(l, r) - 1)
                                   ELSE l
    <3>. HIDE DEF F
    <3>. QED
      OBVIOUS
  <2>. HIDE DEF F, Body
  <2>. QED
    BY <2>1, <1>9
<1>. HIDE DEF F, G, W, At, To
<1>. DEFINE S == {k \in Nat : \A l, r \in left..right : r - l <= k => At(F, l, r) = To(l, r)}
<1>11. 0 \in S
  <2>1. ASSUME NEW l \in left..right, NEW r \in left..right, r - l <= 0 PROVE At(F, l, r) = To(l, r)
    <3>1. ~(l < r)
      BY <2>1
    <3>. QED
      BY <1>7, <1>10, <3>1
  <2>. QED
    BY <2>1
<1>12. \A k \in S : k + 1 \in S
  <2>1. SUFFICES ASSUME NEW k \in S, NEW l \in left..right, NEW r \in left..right, r - l <= k + 1
                 PROVE  At(F, l, r) = To(l, r)
    <3>1. \A k \in S : k \in Nat /\ k + 1 \in Nat
      OBVIOUS
    <3>. QED
      BY <3>1
  <2>2. CASE ~(l < r)
    BY <2>2, <1>7, <1>10
  <2>3. CASE l < r
    <3>1. Mid(l, r) \in (l + 1)..r /\ Mid(l, r) \in left..right /\ Mid(l, r) - 1 \in left..right
      BY <2>3, <1>5
    <3>2. At(F, Mid(l, r), r) = To(Mid(l, r), r) /\ At(F, l, Mid(l, r) - 1) = To(l, Mid(l, r) - 1)
      BY <2>1, <3>1
    <3>. QED
      BY <2>3, <3>1, <3>2, <1>7, <1>10
  <2>. QED
    BY <2>2, <2>3
<1>13. S = Nat
  <2>1. S \in SUBSET Nat
    OBVIOUS
  <2>. HIDE DEF S
  <2>. QED
    BY <2>1, <1>11, <1>12, Induction
<1>14. F[<<left, right>>] = To(left, right)
  <2>1. right - left \in S
    <3>1. right - left \in Nat
      OBVIOUS
    <3>. HIDE DEF S
    <3>. QED
      BY <1>13, <3>1
  <2>2. left \in left..right /\ right \in left..right
    OBVIOUS
  <2>. QED
    BY <2>1, <2>2 DEF At
<1>15. To(left, right) \in left..right
  BY <1>20 DEF To
<1>16. ASSUME NEW i \in left..right, t.s[i] <= n
       PROVE  i <= To(left, right) /\ t.s[To(left, right)] <= n
  <2>1. i <= K
    BY <1>3, <1>16
  <2>2. To(left, right) = K
    BY <2>1, <1>20 DEF To
  <2>. QED
    BY <2>1, <2>2, <1>3, <1>15
<1>. QED
  BY <1>4, <1>14, <1>15, <1>16

\* So it finds the row that covers what is looked for, if one does.
LEMMA SearchFinds ==
    ASSUME NEW t, NEW n \in Int, NEW left \in Int, NEW right \in Int, left <= right,
           \A i \in left..right : t.s[i] \in Int /\ t.e[i] \in Int /\ t.s[i] <= t.e[i],
           \A i, j \in left..right : i < j => t.e[i] < t.s[j]
    PROVE  Covers(t, Search(t, n, left, right), n) <=> \E i \in left..right : Covers(t, i, n)
<1>. DEFINE k == Search(t, n, left, right)
<1>1. \A i, j \in left..right : i < j => t.s[i] < t.s[j]
  OBVIOUS
<1>2. k \in left..right /\ \A i \in left..right : t.s[i] <= n => i <= k /\ t.s[k] <= n
  BY <1>1, SearchEnds
<1>. HIDE DEF k
<1>3. ASSUME NEW i \in left..right, Covers(t, i, n) PROVE Covers(t, k, n)
  <2>1. CASE i = k
    BY <1>3, <2>1
  <2>2. CASE i # k
    <3>1. i < k
      BY <1>2, <1>3, <2>2 DEF Covers
    <3>2. t.e[i] < t.s[k] /\ t.s[k] \in Int
      BY <1>2, <3>1
    <3>3. t.s[k] <= n
      BY <1>2, <1>3 DEF Covers
    <3>. QED
      BY <1>3, <3>2, <3>3 DEF Covers
  <2>. QED
    BY <2>1, <2>2
<1>. QED
  BY <1>2, <1>3 DEF k

-----------------------------------------------------------------------------
(* The lookups.                                                            *)

\* Division by the size of a block keeps the order.
LEMMA DivMonotone ==
    ASSUME NEW a \in Nat, NEW b \in Nat, NEW d \in Nat \ {0}, a <= b
    PROVE  a \div d <= b \div d
OBVIOUS

\* What a well-formed list of ranges is.
LEMMA RowsAre ==
    ASSUME NEW rows, IsRows(rows)
    PROVE  /\ Size(rows) \in Nat /\ DOMAIN rows = 0..(Size(rows) - 1)
           /\ \A i \in DOMAIN rows : rows[i].s \in Nat /\ rows[i].e \in Nat /\ rows[i].s <= rows[i].e
           /\ \A i \in DOMAIN rows : rows[i].e <= MaxAddress
           /\ \A i, j \in DOMAIN rows : i < j => rows[i].e < rows[j].s
<1>1. IsFiniteSet(DOMAIN rows)
  BY DEF IsRows, IsColumn
<1>2. Size(rows) \in Nat
  BY <1>1, FS_CardinalityType DEF Size
<1>3. DOMAIN rows = 0..(Size(rows) - 1)
  BY DEF IsRows, IsColumn
<1>. QED
  BY <1>2, <1>3, MatcherAssumption DEF IsRows

\* An entry of the index separates the rows that start before its block from the others.
LEMMA IndexSeparates ==
    ASSUME NEW rows, IsRows(rows), NEW h \in 0..(MaxAddress \div IndexSize + 1)
    PROVE  /\ Table(rows).idx[h] \in 0..Size(rows)
           /\ \A i \in DOMAIN rows : i < Table(rows).idx[h] <=> rows[i].s \div IndexSize < h
<1>. DEFINE P == {i \in DOMAIN rows : rows[i].s \div IndexSize < h}
            n == Size(rows)
<1>1. Table(rows).idx[h] = Cardinality(P)
  BY DEF Table
<1>2. n \in Nat /\ DOMAIN rows = 0..(n - 1)
  BY RowsAre
<1>3. P \in SUBSET (0..(n - 1))
  BY <1>2
<1>4. \A i \in P : \A j \in 0..i : j \in P
  <2>1. SUFFICES ASSUME NEW i \in P, NEW j \in 0..i PROVE j \in P
    OBVIOUS
  <2>2. i \in DOMAIN rows /\ j \in DOMAIN rows /\ (j < i \/ j = i)
    BY <1>2, <2>1
  <2>3. rows[j].s \in Nat /\ rows[i].s \in Nat /\ rows[j].s <= rows[i].s
    BY <2>2, RowsAre
  <2>4. rows[j].s \div IndexSize <= rows[i].s \div IndexSize
    BY <2>3, DivMonotone, MatcherAssumption
  <2>5. rows[j].s \div IndexSize \in Int /\ rows[i].s \div IndexSize \in Int /\ h \in Int
    BY <2>3, MatcherAssumption
  <2>6. rows[i].s \div IndexSize < h
    OBVIOUS
  <2>. QED
    BY <2>2, <2>4, <2>5, <2>6
<1>5. PICK K : CutAt(P, 0, n - 1, K)
  <2>1. 0 \in Int /\ n - 1 \in Int /\ 0 <= (n - 1) + 1
    BY <1>2
  <2>. HIDE DEF P, n
  <2>. QED
    BY <2>1, <1>3, <1>4, Cut
<1>6. K \in (0 - 1)..(n - 1) /\ P = 0..K
  BY <1>5 DEF CutAt
<1>7. Cardinality(0..K) = K + 1
  <2>1. CASE K >= 0
    BY <1>2, <1>6, <2>1, FS_Interval
  <2>2. CASE K < 0
    <3>1. 0..K = {}
      BY <1>2, <1>6, <2>2
    <3>2. K + 1 = 0
      BY <1>2, <1>6, <2>2
    <3>. QED
      BY <3>1, <3>2, FS_EmptySet
  <2>. QED
    BY <1>2, <1>6, <2>1, <2>2
<1>8. \A i \in DOMAIN rows : i <= K <=> rows[i].s \div IndexSize < h
  BY <1>2, <1>6
<1>9. Table(rows).idx[h] = K + 1
  BY <1>1, <1>6, <1>7
<1>. QED
  BY <1>2, <1>6, <1>8, <1>9

\* A search between two rows finds an address in the ranges of the rows between them.
LEMMA RowsFound ==
    ASSUME NEW rows, IsRows(rows), NEW n \in Int,
           NEW left \in DOMAIN rows, NEW right \in DOMAIN rows, left <= right
    PROVE  Covers(Table(rows), Search(Table(rows), n, left, right), n)
             <=> \E i \in left..right : n \in rows[i].s..rows[i].e
<1>. DEFINE t == Table(rows)
<1>1. left..right \subseteq DOMAIN rows /\ left \in Int /\ right \in Int
  BY RowsAre
<1>2. \A i \in left..right : t.s[i] = rows[i].s /\ t.e[i] = rows[i].e
  BY <1>1 DEF Table
<1>3. \A i \in left..right : t.s[i] \in Int /\ t.e[i] \in Int /\ t.s[i] <= t.e[i]
  BY <1>1, <1>2, RowsAre
<1>4. \A i, j \in left..right : i < j => t.e[i] < t.s[j]
  BY <1>1, <1>2, RowsAre
<1>. HIDE DEF t
<1>5. Covers(t, Search(t, n, left, right), n) <=> \E i \in left..right : Covers(t, i, n)
  BY <1>1, <1>3, <1>4, SearchFinds
<1>6. \A i \in left..right : Covers(t, i, n) <=> n \in rows[i].s..rows[i].e
  BY <1>2, <1>3 DEF Covers
<1>. QED
  BY <1>5, <1>6 DEF t

\* One of the ranges has the address.
Listed(rows, n) == \E i \in DOMAIN rows : n \in rows[i].s..rows[i].e

\* in_range4, in_range6: the search of a whole list finds the address if it is there.
LEMMA InRangeFinds ==
    ASSUME NEW rows, IsRows(rows), NEW n \in Int
    PROVE  InRange(Table(rows), n) = Listed(rows, n)
<1>. DEFINE k == Size(rows)
<1>1. k \in Nat /\ DOMAIN rows = 0..(k - 1) /\ Table(rows).n = k
  BY RowsAre DEF Table
<1>2. CASE k = 0
  <2>1. DOMAIN rows = {}
    BY <1>1, <1>2
  <2>2. ~InRange(Table(rows), n)
    BY <1>1, <1>2 DEF InRange
  <2>3. ~Listed(rows, n)
    BY <2>1 DEF Listed
  <2>. QED
    BY <2>2, <2>3 DEF InRange, Listed
<1>3. CASE k > 0
  <2>1. 0 \in DOMAIN rows /\ k - 1 \in DOMAIN rows /\ 0 <= k - 1
    BY <1>1, <1>3
  <2>2. Covers(Table(rows), Search(Table(rows), n, 0, k - 1), n)
          <=> \E i \in 0..(k - 1) : n \in rows[i].s..rows[i].e
    <3>. HIDE DEF k
    <3>. QED
      BY <2>1, RowsFound
  <2>. QED
    BY <1>1, <1>3, <2>2 DEF InRange, Listed
<1>. QED
  BY <1>1, <1>2, <1>3

\* The bitmap of the blocks has the block of every address in the list.
LEMMA BitmapCovers ==
    ASSUME NEW rows, NEW n, Listed(rows, n)
    PROVE  n \div BlockSize \in Table(rows).bm
<1>1. n \in UNION {rows[i].s..rows[i].e : i \in DOMAIN rows}
  BY DEF Listed
<1>. QED
  BY <1>1 DEF Table

\* _blocked6: so does the search behind the bitmap.
LEMMA Blocked6Finds ==
    ASSUME NEW rows, IsRows(rows), NEW n \in Int
    PROVE  Blocked6(Table(rows), n) = Listed(rows, n)
BY InRangeFinds, BitmapCovers DEF Blocked6, InRange

\* The part of the table that the index leaves has the range of the address, if there is one.
LEMMA Blocked4Finds ==
    ASSUME NEW rows, IsRows(rows), NEW n \in 0..MaxAddress
    PROVE  Blocked4(Table(rows), n) = Listed(rows, n)
<1>. DEFINE h == n \div IndexSize
            from == Table(rows).idx[h]
            left == StepBack(from)
            right == Table(rows).idx[h + 1] - 1
            k == Size(rows)
<1>1. k \in Nat /\ DOMAIN rows = 0..(k - 1)
  BY RowsAre
<1>2. n \in Nat /\ n \in Int /\ h \in Int /\ h >= 0 /\ h <= MaxAddress \div IndexSize
      /\ MaxAddress \div IndexSize \in Int
  BY DivMonotone, MatcherAssumption
<1>3. h \in 0..(MaxAddress \div IndexSize + 1) /\ h + 1 \in 0..(MaxAddress \div IndexSize + 1)
  <2>. HIDE DEF h
  <2>. QED
    BY <1>2
<1>4. from \in 0..k /\ \A i \in DOMAIN rows : i < from <=> rows[i].s \div IndexSize < h
  <2>. HIDE DEF h
  <2>. QED
    BY <1>3, IndexSeparates
<1>5. right \in Int /\ right + 1 \in 0..k
      /\ \A i \in DOMAIN rows : i < right + 1 <=> rows[i].s \div IndexSize < h + 1
  <2>1. /\ Table(rows).idx[h + 1] \in 0..k
        /\ \A i \in DOMAIN rows : i < Table(rows).idx[h + 1] <=> rows[i].s \div IndexSize < h + 1
    <3>. HIDE DEF h
    <3>. QED
      BY <1>3, IndexSeparates
  <2>2. right + 1 = Table(rows).idx[h + 1] /\ right \in Int
    <3>. HIDE DEF h
    <3>. QED
      BY <2>1, <1>1
  <2>. QED
    BY <2>1, <2>2
<1>. HIDE DEF from, right, k
<1>6. left \in Int /\ left >= 0 /\ (from = 0 => left = 0) /\ (from > 0 => left = from - 1)
  BY <1>1, <1>4 DEF StepBack
<1>. HIDE DEF left
<1>7. Blocked4(Table(rows), n)
        <=> /\ n \div BlockSize \in Table(rows).bm /\ left <= right
            /\ Covers(Table(rows), Search(Table(rows), n, left, right), n)
  BY DEF Blocked4, left, right, from
<1>8. ASSUME left <= right
      PROVE  /\ left..right \subseteq DOMAIN rows
             /\ Covers(Table(rows), Search(Table(rows), n, left, right), n)
                  <=> \E i \in left..right : n \in rows[i].s..rows[i].e
  <2>1. left \in DOMAIN rows /\ right \in DOMAIN rows /\ left..right \subseteq DOMAIN rows
    BY <1>1, <1>5, <1>6, <1>8
  <2>. QED
    BY <1>2, <1>8, <2>1, RowsFound
<1>9. ASSUME NEW i \in DOMAIN rows, n \in rows[i].s..rows[i].e PROVE left <= i /\ i <= right
  <2>1. i \in Int /\ rows[i].s \in Nat /\ rows[i].s <= n /\ rows[i].e \in Nat /\ n <= rows[i].e
    BY <1>1, <1>2, <1>9, RowsAre
  <2>2. rows[i].s \div IndexSize <= h
    BY <1>2, <2>1, DivMonotone, MatcherAssumption
  <2>3. rows[i].s \div IndexSize \in Int
    BY <2>1, MatcherAssumption
  <2>4. i <= right
    <3>. HIDE DEF h
    <3>1. rows[i].s \div IndexSize < h + 1
      BY <1>2, <2>2, <2>3
    <3>. QED
      BY <1>5, <1>1, <2>1, <3>1
  <2>5. ASSUME i < left PROVE FALSE
    <3>1. from > 0 /\ left = from - 1 /\ left \in DOMAIN rows
      BY <1>1, <1>4, <1>6, <2>1, <2>5
    <3>2. rows[left].s \div IndexSize < h
      BY <1>1, <1>4, <1>6, <3>1
    <3>3. rows[left].s \in Nat /\ rows[i].e < rows[left].s
      BY <2>5, <3>1, RowsAre
    <3>4. n <= rows[left].s
      BY <1>2, <2>1, <3>3
    <3>5. h <= rows[left].s \div IndexSize
      BY <1>2, <3>3, <3>4, DivMonotone, MatcherAssumption
    <3>6. rows[left].s \div IndexSize \in Int
      BY <3>3, MatcherAssumption
    <3>. HIDE DEF h
    <3>. QED
      BY <1>2, <3>2, <3>5, <3>6
  <2>. QED
    BY <1>6, <2>1, <2>4, <2>5
<1>10. ASSUME Listed(rows, n) PROVE Blocked4(Table(rows), n)
  <2>1. PICK i \in DOMAIN rows : n \in rows[i].s..rows[i].e
    BY <1>10 DEF Listed
  <2>2. left <= i /\ i <= right
    BY <1>9, <2>1
  <2>3. i \in left..right /\ left <= right
    BY <1>1, <1>5, <1>6, <2>2
  <2>4. Covers(Table(rows), Search(Table(rows), n, left, right), n)
    BY <1>8, <2>1, <2>3
  <2>5. n \div BlockSize \in Table(rows).bm
    BY <1>10, BitmapCovers
  <2>. QED
    BY <1>7, <2>3, <2>4, <2>5
<1>11. ASSUME Blocked4(Table(rows), n) PROVE Listed(rows, n)
  <2>1. left <= right /\ \E i \in left..right : n \in rows[i].s..rows[i].e
    BY <1>7, <1>8, <1>11
  <2>2. left..right \subseteq DOMAIN rows
    BY <1>8, <2>1
  <2>. QED
    BY <2>1, <2>2 DEF Listed
<1>. QED
  BY <1>10, <1>11 DEF Blocked4, Listed

\* The search of the ASNs past the bitmap finds those that are there.
LEMMA BlockedAsnFinds ==
    ASSUME NEW bm, NEW extra, NEW asn \in Nat, IsColumn(extra), \A a \in bm : a < DenseAsns,
           \A i \in DOMAIN extra : extra[i] \in Int /\ extra[i] >= DenseAsns,
           \A i, j \in DOMAIN extra : i < j => extra[i] < extra[j]
    PROVE  BlockedAsn(bm, extra, asn) = (asn \in bm \/ \E i \in DOMAIN extra : extra[i] = asn)
<1>. DEFINE k == Size(extra)
            W == (0..k) \X (-1..(k - 1))
            Mid(l, r) == (l + r) \div 2
            Body(h) == [w \in W |->
                          w[1] <= w[2] /\ (extra[Mid(w[1], w[2])] = asn
                                           \/ IF extra[Mid(w[1], w[2])] < asn THEN h[<<Mid(w[1], w[2]) + 1, w[2]>>]
                                                                              ELSE h[<<w[1], Mid(w[1], w[2]) - 1>>])]
            F == CHOOSE h : h = Body(h)
            Within(l, r) == \E i \in l..r : extra[i] = asn
            G == [w \in W |-> Within(w[1], w[2])]
            At(h, l, r) == h[<<l, r>>]
<1>1. k \in Nat /\ DOMAIN extra = 0..(k - 1)
  BY FS_CardinalityType DEF IsColumn, Size
<1>2. DenseAsns \in Nat
  BY MatcherAssumption
<1>3. BlockedAsn(bm, extra, asn) = IF asn < DenseAsns THEN asn \in bm ELSE At(F, 0, k - 1)
  BY DEF BlockedAsn
<1>. HIDE DEF k
<1>4. \A l \in 0..k, r \in -1..(k - 1) :
         l <= r => /\ Mid(l, r) \in l..r /\ Mid(l, r) \in DOMAIN extra
                   /\ Mid(l, r) + 1 \in 0..k /\ Mid(l, r) - 1 \in -1..(k - 1)
  BY <1>1
<1>. HIDE DEF Mid
<1>5. \A l \in 0..k, r \in -1..(k - 1) :
         Within(l, r) <=> l <= r /\ (extra[Mid(l, r)] = asn
                                     \/ IF extra[Mid(l, r)] < asn THEN Within(Mid(l, r) + 1, r) ELSE Within(l, Mid(l, r) - 1))
  <2>1. SUFFICES ASSUME NEW l \in 0..k, NEW r \in -1..(k - 1)
                 PROVE  Within(l, r) <=> l <= r /\ (extra[Mid(l, r)] = asn
                                     \/ IF extra[Mid(l, r)] < asn THEN Within(Mid(l, r) + 1, r) ELSE Within(l, Mid(l, r) - 1))
    OBVIOUS
  <2>2. CASE l > r
    BY <1>1, <2>2
  <2>3. CASE l <= r
    <3>. DEFINE m == Mid(l, r)
    <3>1. m \in l..r /\ m \in DOMAIN extra /\ l..r \subseteq DOMAIN extra
      BY <1>1, <1>4, <2>3
    <3>. HIDE DEF m
    <3>2. \A i \in l..r : (i < m => extra[i] < extra[m]) /\ (i > m => extra[m] < extra[i])
      BY <1>1, <3>1
    <3>3. m \in Int /\ extra[m] \in Int /\ \A i \in l..r : extra[i] \in Int
      BY <1>1, <3>1
    <3>4. CASE extra[m] = asn
      BY <2>3, <3>1, <3>4 DEF m
    <3>5. CASE extra[m] < asn
      <4>1. \A i \in l..r : extra[i] = asn <=> i \in (m + 1)..r /\ extra[i] = asn
        BY <1>1, <3>2, <3>3, <3>5
      <4>2. (m + 1)..r \subseteq l..r
        BY <1>1, <3>1
      <4>3. Within(l, r) <=> Within(m + 1, r)
        BY <4>1, <4>2
      <4>. HIDE DEF Within
      <4>. QED
        BY <2>3, <3>3, <3>5, <4>3 DEF m
    <3>6. CASE extra[m] > asn
      <4>1. \A i \in l..r : extra[i] = asn <=> i \in l..(m - 1) /\ extra[i] = asn
        BY <1>1, <3>2, <3>3, <3>6
      <4>2. l..(m - 1) \subseteq l..r
        BY <1>1, <3>1
      <4>3. Within(l, r) <=> Within(l, m - 1)
        BY <4>1, <4>2
      <4>. HIDE DEF Within
      <4>. QED
        BY <2>3, <3>3, <3>6, <4>3 DEF m
    <3>. QED
      BY <3>3, <3>4, <3>5, <3>6
  <2>. QED
    BY <1>1, <2>2, <2>3
<1>6. \A l \in 0..k, r \in -1..(k - 1) : At(G, l, r) = Within(l, r)
  OBVIOUS
<1>. HIDE DEF Within
<1>. DEFINE Solved(h, l, r) == l <= r /\ (extra[Mid(l, r)] = asn
                                 \/ IF extra[Mid(l, r)] < asn THEN At(h, Mid(l, r) + 1, r)
                                                              ELSE At(h, l, Mid(l, r) - 1))
<1>7. \A h : \A l \in 0..k, r \in -1..(k - 1) : Body(h)[<<l, r>>] = Solved(h, l, r)
  <2>. HIDE DEF G, F
  <2>. QED
    OBVIOUS
<1>8. \A l \in 0..k, r \in -1..(k - 1) : At(G, l, r) = Solved(G, l, r)
  <2>1. SUFFICES ASSUME NEW l \in 0..k, NEW r \in -1..(k - 1) PROVE At(G, l, r) = Solved(G, l, r)
    OBVIOUS
  <2>2. CASE ~(l <= r)
    <3>1. At(G, l, r) = FALSE
      <4>. HIDE DEF G, At
      <4>. QED
        BY <1>5, <1>6, <2>2
    <3>. HIDE DEF G, At
    <3>. QED
      BY <2>2, <3>1
  <2>3. CASE l <= r
    <3>1. Mid(l, r) + 1 \in 0..k /\ Mid(l, r) - 1 \in -1..(k - 1)
      BY <2>3, <1>4
    <3>2. At(G, Mid(l, r) + 1, r) = Within(Mid(l, r) + 1, r) /\ At(G, l, Mid(l, r) - 1) = Within(l, Mid(l, r) - 1)
      <4>. HIDE DEF At, G
      <4>. QED
        BY <3>1, <1>6
    <3>3. At(G, l, r) = Within(l, r)
      BY <1>6
    <3>4. Within(l, r) <=> Solved(G, l, r)
      <4>. HIDE DEF At, G
      <4>1. Within(l, r) <=> (extra[Mid(l, r)] = asn
                          \/ IF extra[Mid(l, r)] < asn THEN Within(Mid(l, r) + 1, r) ELSE Within(l, Mid(l, r) - 1))
        BY <2>3, <1>5
      <4>. QED
        BY <2>3, <3>2, <4>1
    <3>5. Within(l, r) \in BOOLEAN /\ Solved(G, l, r) \in BOOLEAN
      BY DEF Within
    <3>. HIDE DEF At, G, Solved
    <3>. QED
      BY <3>3, <3>4, <3>5
  <2>. QED
    BY <2>2, <2>3
<1>9. G = Body(G)
  <2>1. \A w \in W : G[w] = Body(G)[w]
    <3>1. ASSUME NEW l \in 0..k, NEW r \in -1..(k - 1) PROVE G[<<l, r>>] = Body(G)[<<l, r>>]
      <4>. HIDE DEF G, Body, Solved
      <4>. QED
        BY <1>7, <1>8
    <3>. HIDE DEF G, Body
    <3>. QED
      BY <3>1
  <2>2. G = [w \in W |-> G[w]]
    OBVIOUS
  <2>3. \A h : Body(h) = [w \in W |-> Body(h)[w]]
    OBVIOUS
  <2>. HIDE DEF G, Body, W
  <2>. QED
    BY <2>1, <2>2, <2>3
<1>10. F = Body(F)
  <2>. HIDE DEF Body, G
  <2>. QED
    BY <1>9
<1>11. \A l \in 0..k, r \in -1..(k - 1) : At(F, l, r) = Solved(F, l, r)
  <2>. HIDE DEF F, Body, Solved
  <2>. QED
    BY <1>7, <1>10
<1>12. \A l \in 0..k, r \in -1..(k - 1) : At(G, l, r) = Within(l, r)
  BY <1>6
<1>. HIDE DEF F, G, W, At, Body
<1>. DEFINE S == {d \in Nat : \A l \in 0..k, r \in -1..(k - 1) : r - l <= d - 1 => At(F, l, r) = At(G, l, r)}
<1>13. 0 \in S
  <2>1. ASSUME NEW l \in 0..k, NEW r \in -1..(k - 1), r - l <= 0 - 1 PROVE At(F, l, r) = At(G, l, r)
    <3>1. ~(l <= r)
      BY <1>1, <2>1
    <3>2. Solved(F, l, r) = FALSE /\ Solved(G, l, r) = FALSE
      BY <3>1
    <3>. HIDE DEF Solved
    <3>. QED
      BY <3>2, <1>8, <1>11
  <2>. QED
    BY <2>1
<1>14. \A d \in S : d + 1 \in S
  <2>1. SUFFICES ASSUME NEW d \in S, NEW l \in 0..k, NEW r \in -1..(k - 1), r - l <= (d + 1) - 1
                 PROVE  At(F, l, r) = At(G, l, r)
    <3>1. \A d \in S : d \in Nat /\ d + 1 \in Nat
      OBVIOUS
    <3>. QED
      BY <3>1
  <2>2. CASE ~(l <= r)
    <3>1. Solved(F, l, r) = FALSE /\ Solved(G, l, r) = FALSE
      BY <2>2
    <3>. HIDE DEF Solved
    <3>. QED
      BY <3>1, <1>8, <1>11
  <2>3. CASE l <= r
    <3>1. /\ Mid(l, r) \in l..r /\ Mid(l, r) + 1 \in 0..k /\ Mid(l, r) - 1 \in -1..(k - 1)
      BY <2>3, <1>4
    <3>2. At(F, Mid(l, r) + 1, r) = At(G, Mid(l, r) + 1, r) /\ At(F, l, Mid(l, r) - 1) = At(G, l, Mid(l, r) - 1)
      BY <1>1, <2>1, <3>1
    <3>3. Solved(F, l, r) = Solved(G, l, r)
      BY <3>2
    <3>. HIDE DEF Solved
    <3>. QED
      BY <3>3, <1>8, <1>11
  <2>. QED
    BY <2>2, <2>3
<1>15. S = Nat
  <2>1. S \in SUBSET Nat
    OBVIOUS
  <2>. HIDE DEF S
  <2>. QED
    BY <2>1, <1>13, <1>14, Induction
<1>16. At(F, 0, k - 1) = Within(0, k - 1)
  <2>1. k \in S
    <3>. HIDE DEF S
    <3>. QED
      BY <1>1, <1>15
  <2>2. 0 \in 0..k /\ k - 1 \in -1..(k - 1) /\ (k - 1) - 0 <= k - 1
    BY <1>1
  <2>. QED
    BY <2>1, <2>2, <1>12
<1>17. Within(0, k - 1) <=> \E i \in DOMAIN extra : extra[i] = asn
  BY <1>1 DEF Within
<1>18. CASE asn < DenseAsns
  <2>1. \A i \in DOMAIN extra : extra[i] # asn
    BY <1>2, <1>18
  <2>. QED
    BY <1>3, <1>18, <2>1
<1>19. CASE ~(asn < DenseAsns)
  <2>1. asn \notin bm
    BY <1>19
  <2>2. BlockedAsn(bm, extra, asn) = Within(0, k - 1)
    BY <1>3, <1>16, <1>19
  <2>. QED
    BY <2>1, <2>2, <1>1 DEF Within
<1>. QED
  BY <1>18, <1>19

-----------------------------------------------------------------------------
(* The folds of Matcher, step by step.                                     *)

\* What a fold of conditions carries: the answer so far, and what is left of the budget.
Accs == [hit : BOOLEAN, left : Int]

\* A text tried leaves an answer and a number.
LEMMA RegexHitType ==
    ASSUME NEW text \in RegexTexts, NEW left \in Int, NEW deny \in BOOLEAN
    PROVE  RegexHit(text, left, deny) \in Accs
<1>1. text.over \in BOOLEAN /\ text.hits \in BOOLEAN /\ text.cost \in Nat
  BY DEF RegexTexts
<1>2. (IF text.over \/ left <= 0 \/ text.cost > MatchLimit THEN OnError(deny) ELSE text.hits) \in BOOLEAN
  BY <1>1 DEF OnError
<1>3. (IF text.over \/ left <= 0 THEN left
       ELSE left - (IF text.cost > MatchLimit THEN MatchLimit ELSE text.cost)) \in Int
  BY <1>1, MatcherAssumption
<1>. QED
  BY <1>2, <1>3 DEF RegexHit, Accs


\* A regex condition tries its texts one by one.
LEMMA CondChain ==
    ASSUME NEW c, c.kind = "regex", c.texts \in Seq(RegexTexts), NEW left \in Int, NEW deny \in BOOLEAN
    PROVE  \E n \in Nat : \E f :
              /\ DOMAIN c.texts = 1..n
              /\ f[0] = [hit |-> ~deny, left |-> left]
              /\ \A k \in 1..n : f[k] = Try(f[k - 1], c.texts[k], deny)
              /\ Cond(c, left, deny) = f[n]
<1>1. PICK n \in Nat : c.texts \in [1..n -> RegexTexts]
  BY DEF Seq
<1>. DEFINE base == [hit |-> ~deny, left |-> left]
            Op(acc, i) == Try(acc, c.texts[i], deny)
            Body(h) == [s \in SUBSET (1..n) |-> IF s = {} THEN base ELSE Op(h[s \ {Max(s)}], Max(s))]
            F == CHOOSE h : h = Body(h)
            step == [i \in 1..n |-> [acc \in Accs |-> Op(acc, i)]]
<1>2. Cond(c, left, deny) = F[1..n]
  BY <1>1 DEF Cond, FoldLeft, MapThenFoldSet
<1>3. base \in Accs /\ step \in [1..n -> [Accs -> Accs]]
  <2>1. base \in Accs
    BY DEF Accs
  <2>2. ASSUME NEW i \in 1..n, NEW acc \in Accs PROVE Op(acc, i) \in Accs
    BY <1>1, RegexHitType DEF Try, Accs
  <2>. HIDE DEF Op
  <2>. QED
    BY <2>1, <2>2
<1>. HIDE DEF base, Op
<1>4. PICK iter \in [SUBSET (1..n) -> Accs] : FoldsTo(iter, 1..n, base, step)
  <2>. HIDE DEF step
  <2>. QED
    BY <1>1, <1>3, FoldExists
<1>5. ASSUME NEW s \in SUBSET (1..n), s # {} PROVE Max(s) \in 1..n
  BY <1>1, <1>5, MaxInside
<1>6. iter = Body(iter)
  <2>1. ASSUME NEW s \in SUBSET (1..n) PROVE iter[s] = IF s = {} THEN base ELSE Op(iter[s \ {Max(s)}], Max(s))
    <3>1. CASE s = {}
      BY <1>4, <3>1 DEF FoldsTo
    <3>2. CASE s # {}
      <4>1. s \ {Max(s)} \in SUBSET (1..n) /\ Max(s) \in 1..n
        BY <1>5, <3>2
      <4>2. iter[s] = step[Max(s)][iter[s \ {Max(s)}]]
        BY <1>4, <3>2 DEF FoldsTo
      <4>3. iter[s \ {Max(s)}] \in Accs
        BY <1>4, <4>1
      <4>. QED
        BY <3>2, <4>1, <4>2, <4>3
    <3>. QED
      BY <3>1, <3>2
  <2>. QED
    BY <1>4, <2>1
<1>7. F = Body(F)
  <2>. HIDE DEF Body
  <2>. QED
    BY <1>6
<1>8. \A s \in SUBSET (1..n) : F[s] = IF s = {} THEN base ELSE Op(F[s \ {Max(s)}], Max(s))
  <2>1. \A h : \A s \in SUBSET (1..n) : Body(h)[s] = IF s = {} THEN base ELSE Op(h[s \ {Max(s)}], Max(s))
    OBVIOUS
  <2>. HIDE DEF F, Body
  <2>. QED
    BY <1>7, <2>1
<1>. HIDE DEF F
<1>. DEFINE f == [k \in 0..n |-> F[1..k]]
<1>9. f[0] = base
  <2>1. 1..0 = {}
    OBVIOUS
  <2>2. {} \in SUBSET (1..n) /\ 0 \in 0..n
    BY <1>1
  <2>3. F[{}] = base
    BY <1>8, <2>2
  <2>. QED
    BY <2>1, <2>2, <2>3
<1>10. ASSUME NEW k \in 1..n PROVE f[k] = Op(f[k - 1], k)
  <2>1. k \in Nat \ {0} /\ k \in 0..n /\ k - 1 \in 0..n /\ 1..k \in SUBSET (1..n)
    BY <1>1
  <2>2. Max(1..k) = k /\ (1..k) \ {k} = 1..(k - 1) /\ 1..k # {}
    BY <2>1, MaxInterval
  <2>3. F[1..k] = Op(F[1..(k - 1)], k)
    BY <1>8, <2>1, <2>2
  <2>. QED
    BY <2>1, <2>3
<1>11. f[n] = F[1..n]
  BY <1>1
<1>. HIDE DEF f
<1>. QED
  BY <1>1, <1>2, <1>9, <1>10, <1>11 DEF base, Op

-----------------------------------------------------------------------------
(* What one condition says.                                                *)

\* Holds, kind by kind.
LEMMA HoldsIs ==
    ASSUME NEW c \in Conditions, NEW deny \in BOOLEAN
    PROVE  /\ c.kind = "plain" => Holds(c, deny) = c.holds
           /\ c.kind = "regex" /\ deny => Holds(c, deny) = \E i \in DOMAIN c.texts : Says(c.texts[i], deny)
           /\ c.kind = "regex" /\ ~deny => Holds(c, deny) = \A i \in DOMAIN c.texts : Says(c.texts[i], deny)
BY Zenon DEF Holds

\* A regex that runs says what it says; one that is cut off, or whose text is over the cap, hits for deny.
LEMMA RegexHitIs ==
    ASSUME NEW text \in RegexTexts, NEW left \in Int, NEW deny \in BOOLEAN
    PROVE  /\ Says(text, deny) \in BOOLEAN
           /\ deny => (Says(text, deny) => RegexHit(text, left, deny).hit)
           /\ ~deny => (RegexHit(text, left, deny).hit => Says(text, deny))
           /\ text.cost = 0 /\ left > 0 => RegexHit(text, left, deny) = [hit |-> Says(text, deny), left |-> left]
<1>1. text.over \in BOOLEAN /\ text.hits \in BOOLEAN /\ text.cost \in Nat
  BY DEF RegexTexts
<1>2. MatchLimit \in Nat
  BY MatcherAssumption
<1>3. Says(text, deny) \in BOOLEAN
  BY <1>1 DEF Says
<1>4. RegexHit(text, left, deny).hit
        = IF text.over \/ left <= 0 \/ text.cost > MatchLimit THEN deny ELSE text.hits
  BY DEF RegexHit, OnError
<1>5. CASE text.over
  <2>1. RegexHit(text, left, deny) = [hit |-> deny, left |-> left] /\ Says(text, deny) = deny
    BY <1>5 DEF RegexHit, OnError, Says
  <2>. QED
    BY <2>1, <1>3
<1>6. CASE ~text.over
  <2>1. Says(text, deny) = text.hits
    BY <1>6 DEF Says
  <2>2. text.cost = 0 /\ left > 0 => RegexHit(text, left, deny) = [hit |-> text.hits, left |-> left]
    BY <1>1, <1>2, <1>6 DEF RegexHit
  <2>. QED
    BY <1>3, <1>4, <2>1, <2>2
<1>. QED
  BY <1>5, <1>6

\* A condition holds no less for a deny rule, and no more for a skip, than with all the time in the world;
\* exactly as much if none of its regexes takes time.
LEMMA CondIs ==
    ASSUME NEW c \in Conditions, NEW left \in Int, NEW deny \in BOOLEAN
    PROVE  /\ Cond(c, left, deny) \in Accs
           /\ deny => (Holds(c, deny) => Cond(c, left, deny).hit)
           /\ ~deny => (Cond(c, left, deny).hit => Holds(c, deny))
           /\ Quick(c) /\ left > 0 => Cond(c, left, deny) = [hit |-> Holds(c, deny), left |-> left]
<1>1. CASE c.kind = "plain"
  <2>1. Cond(c, left, deny) = [hit |-> c.holds, left |-> left] /\ Holds(c, deny) = c.holds
    BY <1>1, HoldsIs DEF Cond
  <2>2. c.holds \in BOOLEAN
    BY <1>1 DEF Conditions
  <2>. QED
    BY <2>1, <2>2 DEF Accs
<1>2. CASE c.kind = "regex"
  <2>1. c.texts \in Seq(RegexTexts)
    BY <1>2 DEF Conditions
  <2>0. PICK n \in Nat : \E f :
              /\ DOMAIN c.texts = 1..n
              /\ f[0] = [hit |-> ~deny, left |-> left]
              /\ \A k \in 1..n : f[k] = Try(f[k - 1], c.texts[k], deny)
              /\ Cond(c, left, deny) = f[n]
    BY <1>2, <2>1, CondChain
  <2>2. PICK f :
              /\ DOMAIN c.texts = 1..n
              /\ f[0] = [hit |-> ~deny, left |-> left]
              /\ \A k \in 1..n : f[k] = Try(f[k - 1], c.texts[k], deny)
              /\ Cond(c, left, deny) = f[n]
    BY <2>0
  <2>3. \A k \in 1..n : c.texts[k] \in RegexTexts
    BY <2>1, <2>2 DEF Seq
  <2>. DEFINE Some(k) == \E i \in 1..k : Says(c.texts[i], deny)
              All(k) == \A i \in 1..k : Says(c.texts[i], deny)
              Good(k) == /\ f[k] \in Accs
                         /\ deny => (Some(k) => f[k].hit)
                         /\ ~deny => (f[k].hit => All(k))
                         /\ Quick(c) /\ left > 0 => f[k].left = left /\ f[k].hit = IF deny THEN Some(k) ELSE All(k)
              S == {k \in Nat : k <= n => Good(k)}
  <2>4. Good(0)
    <3>1. Some(0) = FALSE /\ All(0) = TRUE
      <4>1. 1..0 = {}
        OBVIOUS
      <4>. QED
        BY <4>1
    <3>2. f[0] \in Accs /\ f[0].hit = ~deny /\ f[0].left = left
      BY <2>2 DEF Accs
    <3>. HIDE DEF Some, All
    <3>3. f[0].hit = IF deny THEN Some(0) ELSE All(0)
      BY <3>1, <3>2
    <3>. QED
      BY <3>1, <3>2, <3>3
  <2>5. ASSUME NEW k \in Nat, k + 1 <= n, Good(k) PROVE Good(k + 1)
    <3>. DEFINE text == c.texts[k + 1]
                says == Says(text, deny)
                hit == RegexHit(text, f[k].left, deny)
    <3>1. k + 1 \in 1..n /\ (k + 1) - 1 = k
      BY <2>5
    <3>2. f[k + 1] = IF f[k].hit = deny THEN f[k] ELSE hit
      BY <2>2, <3>1 DEF Try
    <3>3. text \in RegexTexts
      BY <2>3, <3>1
    <3>4. f[k].left \in Int /\ f[k].hit \in BOOLEAN /\ f[k] = [hit |-> f[k].hit, left |-> f[k].left]
      BY <2>5 DEF Accs
    <3>. HIDE DEF text
    <3>5. /\ says \in BOOLEAN
          /\ deny => (says => hit.hit)
          /\ ~deny => (hit.hit => says)
          /\ text.cost = 0 /\ f[k].left > 0 => hit = [hit |-> says, left |-> f[k].left]
      BY <3>3, <3>4, RegexHitIs
    <3>6. hit \in Accs
      BY <3>3, <3>4, RegexHitType
    <3>7. /\ Some(k + 1) <=> Some(k) \/ says
          /\ All(k + 1) <=> All(k) /\ says
      <4>1. \A i : i \in 1..(k + 1) <=> i \in 1..k \/ i = k + 1
        BY <2>5
      <4>. HIDE DEF text
      <4>. QED
        BY <4>1 DEF text
    <3>8. Quick(c) => text.cost = 0
      <4>1. text \in Range(c.texts)
        BY <2>2, <3>1 DEF Range, text
      <4>. QED
        BY <1>2, <4>1 DEF Quick
    <3>9. Some(k) \in BOOLEAN /\ Some(k + 1) \in BOOLEAN /\ All(k) \in BOOLEAN /\ All(k + 1) \in BOOLEAN
      OBVIOUS
    <3>. HIDE DEF Some, All, hit, says
    <3>10. CASE f[k].hit = deny
      <4>1. f[k + 1] = f[k]
        BY <3>2, <3>10
      <4>2. deny => f[k].hit
        BY <3>10
      <4>3. ~deny => ~f[k].hit
        BY <3>10
      <4>4. Quick(c) /\ left > 0 => f[k + 1].left = left /\ f[k + 1].hit = IF deny THEN Some(k + 1) ELSE All(k + 1)
        BY <2>5, <3>5, <3>7, <3>9, <3>10, <4>1
      <4>. QED
        BY <2>5, <4>1, <4>2, <4>3, <4>4
    <3>11. CASE f[k].hit # deny
      <4>1. f[k + 1] = hit
        BY <3>2, <3>11
      <4>2. deny => ~f[k].hit /\ ~Some(k)
        BY <2>5, <3>4, <3>11
      <4>3. ~deny => f[k].hit /\ All(k)
        BY <2>5, <3>4, <3>11
      <4>4. ASSUME Quick(c), left > 0
            PROVE  f[k + 1].left = left /\ f[k + 1].hit = IF deny THEN Some(k + 1) ELSE All(k + 1)
        <5>1. hit = [hit |-> says, left |-> left]
          BY <2>5, <3>5, <3>8, <4>4
        <5>2. says = IF deny THEN Some(k + 1) ELSE All(k + 1)
          BY <3>5, <3>7, <3>9, <4>2, <4>3
        <5>. QED
          BY <4>1, <5>1, <5>2
      <4>5. deny => (Some(k + 1) => f[k + 1].hit)
        BY <3>5, <3>7, <4>1, <4>2
      <4>6. ~deny => (f[k + 1].hit => All(k + 1))
        BY <3>5, <3>7, <4>1, <4>3
      <4>. QED
        BY <3>6, <4>1, <4>4, <4>5, <4>6
    <3>. QED
      BY <3>10, <3>11
  <2>6. S = Nat
    <3>. HIDE DEF Good
    <3>1. S \in SUBSET Nat /\ 0 \in S /\ \A k \in S : k + 1 \in S
      BY <2>4, <2>5
    <3>. HIDE DEF S
    <3>. QED
      BY <3>1, Induction
  <2>7. Good(n)
    <3>. HIDE DEF Good
    <3>. QED
      BY <2>6
  <2>8. Holds(c, deny) = IF deny THEN Some(n) ELSE All(n)
    BY <1>2, <2>2, HoldsIs
  <2>9. f[n] = [hit |-> f[n].hit, left |-> f[n].left]
    BY <2>7 DEF Accs
  <2>. HIDE DEF Some, All
  <2>. QED
    BY <2>2, <2>7, <2>8, <2>9
<1>. QED
  BY <1>1, <1>2 DEF Conditions

-----------------------------------------------------------------------------
(* What a rule's conditions say together.                                  *)

\* A rule tries its conditions one by one.
LEMMA CondsChain ==
    ASSUME NEW rule \in Rules, NEW left \in Int
    PROVE  \E n \in Nat : \E f :
              /\ DOMAIN rule.conds = 1..n
              /\ f[0] = [hit |-> TRUE, left |-> left]
              /\ \A k \in 1..n : f[k] = IF f[k - 1].hit
                                        THEN Cond(rule.conds[k], f[k - 1].left, rule.action # "skip") ELSE f[k - 1]
              /\ Conds(rule, left) = f[n]
<1>1. PICK n \in Nat : rule.conds \in [1..n -> Conditions]
  BY DEF Seq, Rules
<1>. DEFINE base == [hit |-> TRUE, left |-> left]
            Op(acc, i) == (IF acc.hit THEN Cond(rule.conds[i], acc.left, rule.action # "skip") ELSE acc)
            Body(h) == [s \in SUBSET (1..n) |-> IF s = {} THEN base ELSE Op(h[s \ {Max(s)}], Max(s))]
            F == CHOOSE h : h = Body(h)
            step == [i \in 1..n |-> [acc \in Accs |-> Op(acc, i)]]
<1>2. Conds(rule, left) = F[1..n]
  BY <1>1 DEF Conds, FoldLeft, MapThenFoldSet
<1>3. base \in Accs /\ step \in [1..n -> [Accs -> Accs]]
  <2>1. base \in Accs
    BY <1>1 DEF Accs
  <2>2. ASSUME NEW i \in 1..n, NEW acc \in Accs PROVE Op(acc, i) \in Accs
    BY <1>1, CondIs DEF Accs
  <2>. HIDE DEF Op
  <2>. QED
    BY <2>1, <2>2
<1>. HIDE DEF base, Op
<1>4. PICK iter \in [SUBSET (1..n) -> Accs] : FoldsTo(iter, 1..n, base, step)
  <2>. HIDE DEF step
  <2>. QED
    BY <1>1, <1>3, FoldExists
<1>5. ASSUME NEW s \in SUBSET (1..n), s # {} PROVE Max(s) \in 1..n
  BY <1>1, <1>5, MaxInside
<1>6. iter = Body(iter)
  <2>1. ASSUME NEW s \in SUBSET (1..n) PROVE iter[s] = IF s = {} THEN base ELSE Op(iter[s \ {Max(s)}], Max(s))
    <3>1. CASE s = {}
      BY <1>4, <3>1 DEF FoldsTo
    <3>2. CASE s # {}
      <4>1. s \ {Max(s)} \in SUBSET (1..n) /\ Max(s) \in 1..n
        BY <1>5, <3>2
      <4>2. iter[s] = step[Max(s)][iter[s \ {Max(s)}]]
        BY <1>4, <3>2 DEF FoldsTo
      <4>3. iter[s \ {Max(s)}] \in Accs
        BY <1>4, <4>1
      <4>. QED
        BY <3>2, <4>1, <4>2, <4>3
    <3>. QED
      BY <3>1, <3>2
  <2>. QED
    BY <1>4, <2>1
<1>7. F = Body(F)
  <2>. HIDE DEF Body
  <2>. QED
    BY <1>6
<1>8. \A s \in SUBSET (1..n) : F[s] = IF s = {} THEN base ELSE Op(F[s \ {Max(s)}], Max(s))
  <2>1. \A h : \A s \in SUBSET (1..n) : Body(h)[s] = IF s = {} THEN base ELSE Op(h[s \ {Max(s)}], Max(s))
    OBVIOUS
  <2>. HIDE DEF F, Body
  <2>. QED
    BY <1>7, <2>1
<1>. HIDE DEF F
<1>. DEFINE f == [k \in 0..n |-> F[1..k]]
<1>9. f[0] = base
  <2>1. 1..0 = {}
    OBVIOUS
  <2>2. {} \in SUBSET (1..n) /\ 0 \in 0..n
    BY <1>1
  <2>3. F[{}] = base
    BY <1>8, <2>2
  <2>. QED
    BY <2>1, <2>2, <2>3
<1>10. ASSUME NEW k \in 1..n PROVE f[k] = Op(f[k - 1], k)
  <2>1. k \in Nat \ {0} /\ k \in 0..n /\ k - 1 \in 0..n /\ 1..k \in SUBSET (1..n)
    BY <1>1
  <2>2. Max(1..k) = k /\ (1..k) \ {k} = 1..(k - 1) /\ 1..k # {}
    BY <2>1, MaxInterval
  <2>3. F[1..k] = Op(F[1..(k - 1)], k)
    BY <1>8, <2>1, <2>2
  <2>. QED
    BY <2>1, <2>3
<1>11. f[n] = F[1..n]
  BY <1>1
<1>. HIDE DEF f
<1>. QED
  BY <1>1, <1>2, <1>9, <1>10, <1>11 DEF base, Op

\* The same of all the conditions of a rule.
LEMMA CondsIs ==
    ASSUME NEW rule \in Rules, NEW left \in Int
    PROVE  /\ Conds(rule, left) \in Accs
           /\ rule.action # "skip" => (Firing(rule) => Conds(rule, left).hit)
           /\ rule.action = "skip" => (Conds(rule, left).hit => Firing(rule))
           /\ (\A cond \in Range(rule.conds) : Quick(cond)) /\ left > 0
                => Conds(rule, left) = [hit |-> Firing(rule), left |-> left]
<1>. DEFINE deny == rule.action # "skip"
<1>1. deny \in BOOLEAN
  OBVIOUS
<1>0. PICK n \in Nat : \E f :
            /\ DOMAIN rule.conds = 1..n
            /\ f[0] = [hit |-> TRUE, left |-> left]
            /\ \A k \in 1..n : f[k] = IF f[k - 1].hit THEN Cond(rule.conds[k], f[k - 1].left, deny) ELSE f[k - 1]
            /\ Conds(rule, left) = f[n]
  BY CondsChain
<1>2. PICK f :
            /\ DOMAIN rule.conds = 1..n
            /\ f[0] = [hit |-> TRUE, left |-> left]
            /\ \A k \in 1..n : f[k] = IF f[k - 1].hit THEN Cond(rule.conds[k], f[k - 1].left, deny) ELSE f[k - 1]
            /\ Conds(rule, left) = f[n]
  BY <1>0
<1>3. \A k \in 1..n : rule.conds[k] \in Conditions
  BY <1>2 DEF Seq, Rules
<1>. DEFINE AllQuick == \A cond \in Range(rule.conds) : Quick(cond)
            All(k) == \A i \in 1..k : Holds(rule.conds[i], deny)
            Good(k) == /\ f[k] \in Accs
                       /\ deny => (All(k) => f[k].hit)
                       /\ ~deny => (f[k].hit => All(k))
                       /\ AllQuick /\ left > 0 => f[k].left = left /\ f[k].hit = All(k)
            S == {k \in Nat : k <= n => Good(k)}
<1>. HIDE DEF deny
<1>4. Good(0)
  <2>1. All(0) = TRUE
    <3>1. 1..0 = {}
      OBVIOUS
    <3>. QED
      BY <3>1
  <2>2. f[0] \in Accs /\ f[0].hit = TRUE /\ f[0].left = left
    BY <1>2 DEF Accs
  <2>. HIDE DEF All
  <2>. QED
    BY <2>1, <2>2
<1>5. ASSUME NEW k \in Nat, k + 1 <= n, Good(k) PROVE Good(k + 1)
  <2>. DEFINE c == rule.conds[k + 1]
              holds == Holds(c, deny)
              hit == Cond(c, f[k].left, deny)
  <2>1. k + 1 \in 1..n /\ (k + 1) - 1 = k
    BY <1>5
  <2>2. f[k + 1] = IF f[k].hit THEN hit ELSE f[k]
    BY <1>2, <2>1
  <2>3. c \in Conditions
    BY <1>3, <2>1
  <2>4. f[k].left \in Int /\ f[k].hit \in BOOLEAN
    BY <1>5 DEF Accs
  <2>5. /\ hit \in Accs
        /\ deny => (holds => hit.hit)
        /\ ~deny => (hit.hit => holds)
        /\ Quick(c) /\ f[k].left > 0 => hit = [hit |-> holds, left |-> f[k].left]
    <3>. HIDE DEF c
    <3>. QED
      BY <1>1, <2>3, <2>4, CondIs
  <2>6. All(k + 1) <=> All(k) /\ holds
    <3>1. \A i : i \in 1..(k + 1) <=> i \in 1..k \/ i = k + 1
      BY <1>5
    <3>. HIDE DEF c
    <3>. QED
      BY <3>1 DEF c
  <2>7. AllQuick => Quick(c)
    <3>1. c \in Range(rule.conds)
      BY <1>2, <2>1 DEF Range
    <3>. QED
      BY <3>1
  <2>8. All(k) \in BOOLEAN /\ All(k + 1) \in BOOLEAN
    OBVIOUS
  <2>9. hit.hit \in BOOLEAN
    BY <2>5 DEF Accs
  <2>. HIDE DEF All, AllQuick, hit, holds, c
  <2>10. CASE f[k].hit
    <3>1. f[k + 1] = hit
      BY <2>2, <2>10
    <3>2. ~deny => All(k)
      BY <1>5, <2>10
    <3>3. ASSUME AllQuick, left > 0 PROVE f[k + 1].left = left /\ f[k + 1].hit = All(k + 1)
      <4>1. All(k) /\ hit = [hit |-> holds, left |-> left]
        BY <1>5, <2>5, <2>7, <2>10, <3>3
      <4>2. f[k + 1].left = left /\ f[k + 1].hit = holds
        BY <3>1, <4>1
      <4>3. f[k + 1].hit \in BOOLEAN
        BY <2>9, <3>1
      <4>. QED
        BY <2>6, <2>8, <4>1, <4>2, <4>3
    <3>. QED
      BY <2>5, <2>6, <3>1, <3>2, <3>3
  <2>11. CASE ~f[k].hit
    <3>1. f[k + 1] = f[k]
      BY <2>2, <2>11
    <3>2. deny => ~All(k)
      BY <1>5, <2>11
    <3>3. ASSUME AllQuick, left > 0 PROVE f[k + 1].left = left /\ f[k + 1].hit = All(k + 1)
      <4>1. ~All(k) /\ f[k].left = left
        BY <1>5, <2>4, <2>8, <2>11, <3>3
      <4>. QED
        BY <2>4, <2>6, <2>8, <2>11, <3>1, <4>1
    <3>. QED
      BY <1>5, <2>6, <2>11, <3>1, <3>2, <3>3
  <2>. QED
    BY <2>4, <2>10, <2>11
<1>6. S = Nat
  <2>. HIDE DEF Good
  <2>1. S \in SUBSET Nat /\ 0 \in S /\ \A k \in S : k + 1 \in S
    BY <1>4, <1>5
  <2>. HIDE DEF S
  <2>. QED
    BY <2>1, Induction
<1>7. Good(n)
  <2>. HIDE DEF Good
  <2>. QED
    BY <1>6
<1>8. Firing(rule) = All(n)
  BY <1>2 DEF Firing, deny
<1>9. f[n] = [hit |-> f[n].hit, left |-> f[n].left]
  BY <1>7 DEF Accs
<1>. HIDE DEF All
<1>. QED
  BY <1>2, <1>7, <1>8, <1>9 DEF deny

-----------------------------------------------------------------------------
(* Which rule decides.                                                     *)

\* What the walk over the rules carries.
Walks == [by : Nat, left : Int]

\* The rules are tried one by one.
LEMMA WalkChain ==
    ASSUME NEW rules \in Seq(Rules)
    PROVE  \E n \in Nat : \E f :
              /\ DOMAIN rules = 1..n
              /\ f[0] = [by |-> 0, left |-> Budget]
              /\ \A k \in 1..n : f[k] = IF Decides(f[k - 1]) THEN f[k - 1]
                                        ELSE [by |-> IF Conds(rules[k], f[k - 1].left).hit THEN k ELSE f[k - 1].by,
                                              left |-> Conds(rules[k], f[k - 1].left).left]
              /\ Walk(rules) = f[n]
<1>1. PICK n \in Nat : rules \in [1..n -> Rules]
  BY DEF Seq
<1>. DEFINE base == [by |-> 0, left |-> Budget]
            Id == [i \in DOMAIN rules |-> i]
            Op(acc, i) == IF Decides(acc) THEN acc
                          ELSE [by |-> IF Conds(rules[Id[i]], acc.left).hit THEN Id[i] ELSE acc.by,
                                left |-> Conds(rules[Id[i]], acc.left).left]
            Body(h) == [s \in SUBSET (1..n) |-> IF s = {} THEN base ELSE Op(h[s \ {Max(s)}], Max(s))]
            F == CHOOSE h : h = Body(h)
            step == [i \in 1..n |-> [acc \in Walks |-> Op(acc, i)]]
<1>2. Walk(rules) = F[1..n]
  BY <1>1 DEF Walk, FoldLeftDomain, FoldLeft, MapThenFoldSet
<1>3. base \in Walks /\ step \in [1..n -> [Walks -> Walks]]
  <2>1. base \in Walks
    BY MatcherAssumption DEF Walks
  <2>2. ASSUME NEW i \in 1..n, NEW acc \in Walks PROVE Op(acc, i) \in Walks
    <3>1. Id[i] \in 1..n /\ Id[i] = i /\ rules[Id[i]] \in Rules
      BY <1>1
    <3>2. acc.by \in Nat /\ acc.left \in Int
      BY DEF Walks
    <3>. HIDE DEF Id
    <3>. DEFINE c == Conds(rules[Id[i]], acc.left)
    <3>3. c.hit \in BOOLEAN /\ c.left \in Int
      BY <3>1, <3>2, CondsIs DEF Accs
    <3>4. Op(acc, i) = IF Decides(acc) THEN acc ELSE [by |-> IF c.hit THEN Id[i] ELSE acc.by, left |-> c.left]
      OBVIOUS
    <3>5. Id[i] \in Nat
      BY <1>1, <3>1
    <3>. HIDE DEF c, Op
    <3>. QED
      BY <3>2, <3>3, <3>4, <3>5 DEF Walks
  <2>. HIDE DEF Op
  <2>. QED
    BY <2>1, <2>2
<1>. HIDE DEF base, Op
<1>4. PICK iter \in [SUBSET (1..n) -> Walks] : FoldsTo(iter, 1..n, base, step)
  <2>. HIDE DEF step
  <2>. QED
    BY <1>1, <1>3, FoldExists
<1>5. ASSUME NEW s \in SUBSET (1..n), s # {} PROVE Max(s) \in 1..n
  BY <1>1, <1>5, MaxInside
<1>6. iter = Body(iter)
  <2>1. ASSUME NEW s \in SUBSET (1..n) PROVE iter[s] = IF s = {} THEN base ELSE Op(iter[s \ {Max(s)}], Max(s))
    <3>1. CASE s = {}
      BY <1>4, <3>1 DEF FoldsTo
    <3>2. CASE s # {}
      <4>1. s \ {Max(s)} \in SUBSET (1..n) /\ Max(s) \in 1..n
        BY <1>5, <3>2
      <4>2. iter[s] = step[Max(s)][iter[s \ {Max(s)}]]
        BY <1>4, <3>2 DEF FoldsTo
      <4>3. iter[s \ {Max(s)}] \in Walks
        BY <1>4, <4>1
      <4>. QED
        BY <3>2, <4>1, <4>2, <4>3
    <3>. QED
      BY <3>1, <3>2
  <2>. QED
    BY <1>4, <2>1
<1>7. F = Body(F)
  <2>. HIDE DEF Body
  <2>. QED
    BY <1>6
<1>8. \A s \in SUBSET (1..n) : F[s] = IF s = {} THEN base ELSE Op(F[s \ {Max(s)}], Max(s))
  <2>1. \A h : \A s \in SUBSET (1..n) : Body(h)[s] = IF s = {} THEN base ELSE Op(h[s \ {Max(s)}], Max(s))
    OBVIOUS
  <2>. HIDE DEF F, Body
  <2>. QED
    BY <1>7, <2>1
<1>. HIDE DEF F
<1>. DEFINE f == [k \in 0..n |-> F[1..k]]
<1>9. f[0] = base
  <2>1. 1..0 = {}
    OBVIOUS
  <2>2. {} \in SUBSET (1..n) /\ 0 \in 0..n
    BY <1>1
  <2>3. F[{}] = base
    BY <1>8, <2>2
  <2>. QED
    BY <2>1, <2>2, <2>3
<1>10. ASSUME NEW k \in 1..n PROVE f[k] = Op(f[k - 1], k)
  <2>1. k \in Nat \ {0} /\ k \in 0..n /\ k - 1 \in 0..n /\ 1..k \in SUBSET (1..n)
    BY <1>1
  <2>2. Max(1..k) = k /\ (1..k) \ {k} = 1..(k - 1) /\ 1..k # {}
    BY <2>1, MaxInterval
  <2>3. F[1..k] = Op(F[1..(k - 1)], k)
    BY <1>8, <2>1, <2>2
  <2>. QED
    BY <2>1, <2>3
<1>11. f[n] = F[1..n]
  BY <1>1
<1>. HIDE DEF f
<1>. QED
  <2>1. \A k \in 1..n : Id[k] = k
    BY <1>1
  <2>. HIDE DEF Id
  <2>. QED
    BY <1>1, <1>2, <1>9, <1>10, <1>11, <2>1 DEF base, Op

\* The rule that decides a walk, and what is known of the rules before it.
LEMMA WalkIs ==
    ASSUME NEW rules \in Seq(Rules)
    PROVE  LET w == Walk(rules)
               skips(i) == rules[i].action = "skip"
               quick == \A rule \in Range(rules) : \A cond \in Range(rule.conds) : Quick(cond)
           IN  /\ w \in Walks /\ (w.by = 0 \/ w.by \in DOMAIN rules)
               /\ w.by # 0 /\ skips(w.by) => Firing(rules[w.by])
               /\ \A i \in DOMAIN rules : (w.by = 0 \/ i < w.by) /\ ~skips(i) => ~Firing(rules[i])
               /\ quick => /\ w.left > 0
                           /\ w.by # 0 => Firing(rules[w.by])
                           /\ \A i \in DOMAIN rules : (w.by = 0 \/ i < w.by) => ~Firing(rules[i])
<1>. DEFINE Skips(i) == rules[i].action = "skip"
            AllQuick == \A rule \in Range(rules) : \A cond \in Range(rule.conds) : Quick(cond)
<1>0. PICK n \in Nat : \E f :
            /\ DOMAIN rules = 1..n
            /\ f[0] = [by |-> 0, left |-> Budget]
            /\ \A k \in 1..n :
                  f[k] = (IF Decides(f[k - 1]) THEN f[k - 1]
                          ELSE [by   |-> IF Conds(rules[k], f[k - 1].left).hit THEN k ELSE f[k - 1].by,
                                left |-> Conds(rules[k], f[k - 1].left).left])
            /\ Walk(rules) = f[n]
  BY WalkChain
<1>1. PICK f :
            /\ DOMAIN rules = 1..n
            /\ f[0] = [by |-> 0, left |-> Budget]
            /\ \A k \in 1..n :
                  f[k] = (IF Decides(f[k - 1]) THEN f[k - 1]
                          ELSE [by   |-> IF Conds(rules[k], f[k - 1].left).hit THEN k ELSE f[k - 1].by,
                                left |-> Conds(rules[k], f[k - 1].left).left])
            /\ Walk(rules) = f[n]
  BY <1>0
<1>2. \A k \in 1..n : rules[k] \in Rules
  BY <1>1 DEF Seq
<1>. DEFINE Passed(w, k) == \A i \in 1..k : (w.by = 0 \/ i < w.by) /\ ~Skips(i) => ~Firing(rules[i])
            None(w, k) == \A i \in 1..k : (w.by = 0 \/ i < w.by) => ~Firing(rules[i])
            Good(k) == /\ f[k] \in Walks /\ f[k].by \in 0..k
                       /\ f[k].by # 0 /\ Skips(f[k].by) => Firing(rules[f[k].by])
                       /\ Passed(f[k], k)
                       /\ AllQuick => /\ f[k].left > 0
                                      /\ f[k].by # 0 => Firing(rules[f[k].by])
                                      /\ None(f[k], k)
            S == {k \in Nat : k <= n => Good(k)}
<1>3. Good(0)
  <2>1. f[0] \in Walks /\ f[0].by = 0 /\ f[0].left > 0
    BY <1>1, MatcherAssumption DEF Walks
  <2>2. 1..0 = {}
    OBVIOUS
  <2>3. Passed(f[0], 0) /\ None(f[0], 0)
    BY <2>2
  <2>. HIDE DEF Passed, None
  <2>. QED
    BY <2>1, <2>3
<1>4. ASSUME NEW k \in Nat, k + 1 <= n, Good(k) PROVE Good(k + 1)
  <2>. DEFINE w == f[k]
              rule == rules[k + 1]
              c == Conds(rule, w.left)
  <2>1. k + 1 \in 1..n /\ (k + 1) - 1 = k
    BY <1>4
  <2>2. f[k + 1] = IF w.by # 0 THEN w ELSE [by |-> IF c.hit THEN k + 1 ELSE w.by, left |-> c.left]
    BY <1>1, <2>1 DEF Decides
  <2>3. rule \in Rules
    BY <1>2, <2>1
  <2>4. w.left \in Int /\ w.by \in Nat /\ w \in Walks
    BY <1>4 DEF Walks
  <2>5. \A i : i \in 1..(k + 1) <=> i \in 1..k \/ i = k + 1
    BY <1>4
  <2>6. AllQuick => \A cond \in Range(rule.conds) : Quick(cond)
    <3>1. rule \in Range(rules)
      BY <1>1, <2>1 DEF Range
    <3>. QED
      BY <3>1
  <2>. HIDE DEF w
  <2>7. /\ c \in Accs
        /\ rule.action # "skip" => (Firing(rule) => c.hit)
        /\ rule.action = "skip" => (c.hit => Firing(rule))
        /\ AllQuick /\ w.left > 0 => c = [hit |-> Firing(rule), left |-> w.left]
    <3>. HIDE DEF rule, AllQuick
    <3>. QED
      BY <2>3, <2>4, <2>6, CondsIs
  <2>8. c.hit \in BOOLEAN /\ c.left \in Int
    BY <2>7 DEF Accs
  <2>9. /\ w.by \in 0..k
        /\ w.by # 0 /\ Skips(w.by) => Firing(rules[w.by])
        /\ Passed(w, k)
        /\ AllQuick => w.left > 0 /\ (w.by # 0 => Firing(rules[w.by])) /\ None(w, k)
    BY <1>4 DEF w
  <2>10. (Skips(k + 1) <=> rule.action = "skip") /\ rules[k + 1] = rule
    OBVIOUS
  <2>. HIDE DEF AllQuick, c, rule, Skips
  <2>11. CASE w.by # 0
    <3>1. f[k + 1] = w
      BY <2>2, <2>11
    <3>2. ~(w.by = 0 \/ k + 1 < w.by)
      BY <2>9, <2>11
    <3>3. Passed(w, k + 1)
      BY <2>5, <2>9, <3>2
    <3>4. AllQuick => None(w, k + 1)
      BY <2>5, <2>9, <3>2
    <3>5. w.by \in 0..(k + 1)
      BY <2>9
    <3>. HIDE DEF Passed, None
    <3>. QED
      BY <2>4, <2>9, <3>1, <3>3, <3>4, <3>5
  <2>12. CASE w.by = 0 /\ c.hit
    <3>. DEFINE v == [by |-> k + 1, left |-> c.left]
    <3>1. f[k + 1] = v
      BY <2>2, <2>12
    <3>2. v \in Walks /\ v.by = k + 1 /\ v.left = c.left /\ v.by \in 0..(k + 1) /\ v.by # 0
      BY <2>8 DEF Walks
    <3>. HIDE DEF v
    <3>3. Skips(k + 1) => Firing(rules[k + 1])
      BY <2>7, <2>10, <2>12
    <3>4. \A i \in 1..(k + 1) : (v.by = 0 \/ i < v.by) => i \in 1..k
      BY <3>2
    <3>5. Passed(v, k + 1)
      BY <2>9, <2>12, <3>4
    <3>6. ASSUME AllQuick PROVE v.left > 0 /\ Firing(rules[k + 1]) /\ None(v, k + 1)
      <4>1. w.left > 0 /\ None(w, k)
        BY <2>9, <3>6
      <4>2. c = [hit |-> Firing(rule), left |-> w.left]
        BY <2>7, <3>6, <4>1
      <4>3. None(v, k + 1)
        BY <2>12, <3>4, <4>1
      <4>4. c.hit = Firing(rule) /\ c.left = w.left
        BY <4>2
      <4>. HIDE DEF None
      <4>. QED
        BY <2>10, <2>12, <3>2, <4>1, <4>3, <4>4
    <3>. HIDE DEF Passed, None
    <3>. QED
      BY <3>1, <3>2, <3>3, <3>5, <3>6
  <2>13. CASE w.by = 0 /\ ~c.hit
    <3>. DEFINE v == [by |-> w.by, left |-> c.left]
    <3>1. f[k + 1] = v
      BY <2>2, <2>13
    <3>2. v \in Walks /\ v.by = 0 /\ v.left = c.left /\ v.by \in 0..(k + 1)
      BY <2>4, <2>8, <2>13 DEF Walks
    <3>. HIDE DEF v
    <3>3. ~Skips(k + 1) => ~Firing(rules[k + 1])
      BY <2>7, <2>10, <2>13
    <3>4. Passed(v, k + 1)
      BY <2>5, <2>9, <2>13, <3>2, <3>3
    <3>5. ASSUME AllQuick PROVE v.left > 0 /\ None(v, k + 1)
      <4>1. w.left > 0 /\ None(w, k)
        BY <2>9, <3>5
      <4>2. c = [hit |-> Firing(rule), left |-> w.left]
        BY <2>7, <3>5, <4>1
      <4>3. c.hit = Firing(rule) /\ c.left = w.left
        BY <4>2
      <4>4. ~Firing(rules[k + 1])
        BY <2>10, <2>13, <4>3
      <4>5. None(v, k + 1)
        BY <2>5, <2>13, <3>2, <4>1, <4>4
      <4>. HIDE DEF None
      <4>. QED
        BY <3>2, <4>1, <4>3, <4>5
    <3>. HIDE DEF Passed, None
    <3>. QED
      BY <3>1, <3>2, <3>4, <3>5
  <2>. QED
    BY <2>8, <2>11, <2>12, <2>13
<1>5. S = Nat
  <2>. HIDE DEF Good
  <2>1. S \in SUBSET Nat /\ 0 \in S /\ \A k \in S : k + 1 \in S
    BY <1>3, <1>4
  <2>. HIDE DEF S
  <2>. QED
    BY <2>1, Induction
<1>6. Good(n)
  <2>. HIDE DEF Good
  <2>. QED
    BY <1>5
<1>7. f[n].by = 0 \/ f[n].by \in DOMAIN rules
  BY <1>1, <1>6
<1>. QED
  BY <1>1, <1>6, <1>7

-----------------------------------------------------------------------------
(* The verdict.                                                            *)

\* The sides in their order.
InOrder(listed, blocked) ==
    IF "allow" \in listed THEN "skip"
    ELSE IF "block" \in listed \/ blocked THEN "block"
    ELSE IF "challenge" \in listed THEN "challenge" ELSE "none"

\* Side asks the lists in that order.
LEMMA SideIs ==
    ASSUME NEW listed, NEW regexes, NEW left
    PROVE  Side(listed, regexes, left) = InOrder(listed, Cond(regexes, left, TRUE).hit)
BY Zenon DEF Side, InOrder

FirstOf(P) == CHOOSE i \in P : \A j \in P : i <= j
\* A set of places in a sequence has a first.
LEMMA FirstIs ==
    ASSUME NEW n \in Nat, NEW P \in SUBSET (1..n), P # {}
    PROVE  FirstOf(P) \in P /\ \A j \in P : FirstOf(P) <= j
<1>. DEFINE Q == {k \in 1..n : \A j \in P : k < j}
<1>1. PICK p \in P : TRUE
  OBVIOUS
<1>2. Q \in SUBSET (1..n) /\ \A i \in Q : \A j \in 1..i : j \in Q
  OBVIOUS
<1>3. PICK K : CutAt(Q, 1, n, K)
  <2>1. 1 \in Int /\ n \in Int /\ 1 <= n + 1
    OBVIOUS
  <2>. HIDE DEF Q
  <2>. QED
    BY <1>2, <2>1, Cut
<1>4. K \in 0..n /\ Q = 1..K
  BY <1>3 DEF CutAt
<1>5. \A j \in P : j \in 1..n /\ K < j
  <2>1. SUFFICES ASSUME NEW j \in P PROVE K < j
    OBVIOUS
  <2>2. CASE K = 0
    BY <2>2
  <2>3. CASE K # 0
    <3>1. K \in Q
      BY <1>4, <2>3
    <3>. QED
      BY <3>1
  <2>. QED
    BY <2>2, <2>3
<1>6. K + 1 \in 1..n /\ K + 1 \notin Q
  BY <1>1, <1>4, <1>5
<1>7. PICK i \in P : ~(K + 1 < i)
  BY <1>6
<1>8. i \in 1..n /\ i = K + 1
  BY <1>4, <1>5, <1>7
<1>9. \A j \in P : i <= j
  BY <1>4, <1>5, <1>8
<1>. HIDE DEF Q
<1>. QED
  BY <1>7, <1>9 DEF FirstOf

\* The verdict, had every regex all the time in the world, is that of the first rule that fires.
LEMMA UnhurriedIs ==
    ASSUME NEW c, c.rules \in Seq(Rules)
    PROVE  /\ \A i \in DOMAIN c.rules :
                 Firing(c.rules[i]) /\ (\A j \in DOMAIN c.rules : j < i => ~Firing(c.rules[j]))
                   => Unhurried(c) = c.rules[i].action
           /\ (\A i \in DOMAIN c.rules : ~Firing(c.rules[i])) => Unhurried(c) = InOrder(c.listed, Holds(c.regexes, TRUE))
           /\ \/ \A i \in DOMAIN c.rules : ~Firing(c.rules[i])
              \/ \E i \in DOMAIN c.rules :
                    Firing(c.rules[i]) /\ \A j \in DOMAIN c.rules : j < i => ~Firing(c.rules[j])
<1>. DEFINE P == {i \in DOMAIN c.rules : Firing(c.rules[i])}
<1>1. PICK n \in Nat : DOMAIN c.rules = 1..n
  BY DEF Seq
<1>2. P \in SUBSET (1..n)
  BY <1>1
<1>3. ASSUME NEW i \in DOMAIN c.rules, Firing(c.rules[i]), \A j \in DOMAIN c.rules : j < i => ~Firing(c.rules[j])
      PROVE  Unhurried(c) = c.rules[i].action
  <2>1. i \in P /\ \A j \in P : i <= j
    BY <1>1, <1>2, <1>3
  <2>2. \A k \in P : (\A j \in P : k <= j) => k = i
    BY <1>2, <2>1
  <2>3. FirstOf(P) = i
    <3>. HIDE DEF P
    <3>. QED
      BY <2>1, <2>2 DEF FirstOf
  <2>4. Unhurried(c) = c.rules[FirstOf(P)].action
    <3>1. P # {}
      BY <2>1
    <3>. QED
      BY <3>1, Zenon DEF Unhurried, FirstOf
  <2>. QED
    BY <2>3, <2>4
<1>4. ASSUME \A i \in DOMAIN c.rules : ~Firing(c.rules[i])
      PROVE  Unhurried(c) = InOrder(c.listed, Holds(c.regexes, TRUE))
  <2>1. P = {}
    BY <1>4
  <2>2. Unhurried(c) = CASE "allow" \in c.listed -> "skip"
                         [] "allow" \notin c.listed /\ ("block" \in c.listed \/ Holds(c.regexes, TRUE)) -> "block"
                         [] OTHER -> IF "challenge" \in c.listed THEN "challenge" ELSE "none"
    BY <2>1, Zenon DEF Unhurried
  <2>. QED
    BY <2>2, Zenon DEF InOrder
<1>5. ASSUME NEW k \in DOMAIN c.rules, Firing(c.rules[k])
      PROVE  \E i \in DOMAIN c.rules :
                Firing(c.rules[i]) /\ \A j \in DOMAIN c.rules : j < i => ~Firing(c.rules[j])
  <2>1. P # {}
    BY <1>5
  <2>. DEFINE i == FirstOf(P)
  <2>3. i \in P /\ \A j \in P : i <= j
    <3>. HIDE DEF P
    <3>. QED
      BY <1>2, <2>1, FirstIs
  <2>. HIDE DEF i
  <2>4. ASSUME NEW j \in DOMAIN c.rules, j < i PROVE ~Firing(c.rules[j])
    <3>1. j \in Int /\ i \in Int /\ ~(i <= j)
      BY <1>1, <1>2, <2>3, <2>4
    <3>. QED
      BY <2>3, <3>1
  <2>. QED
    BY <2>3, <2>4
<1>. QED
  BY <1>3, <1>4, <1>5

\* What match() answers, beside what it would with all the time in the world.
LEMMA VerdictIs ==
    ASSUME NEW c, c.rules \in Seq(Rules), c.regexes \in Conditions
    PROVE  LET answer == Match(c.rules, c.listed, c.regexes)
           IN  /\ NoneSlow(c) => answer = Unhurried(c)
               /\ answer = "skip" => Unhurried(c) = "skip"
               /\ answer = "none" => Unhurried(c) \in {"none", "skip"}
<1>. DEFINE w == Walk(c.rules)
            Skips(i) == c.rules[i].action = "skip"
            hit == Cond(c.regexes, w.left, TRUE).hit
            verdict == Match(c.rules, c.listed, c.regexes)
            quick == \A rule \in Range(c.rules) : \A cond \in Range(rule.conds) : Quick(cond)
<1>1. /\ w \in Walks /\ (w.by = 0 \/ w.by \in DOMAIN c.rules)
      /\ w.by # 0 /\ Skips(w.by) => Firing(c.rules[w.by])
      /\ \A i \in DOMAIN c.rules : (w.by = 0 \/ i < w.by) /\ ~Skips(i) => ~Firing(c.rules[i])
      /\ quick => /\ w.left > 0
                  /\ w.by # 0 => Firing(c.rules[w.by])
                  /\ \A i \in DOMAIN c.rules : (w.by = 0 \/ i < w.by) => ~Firing(c.rules[i])
  BY WalkIs
<1>2. verdict = IF w.by # 0 THEN c.rules[w.by].action ELSE InOrder(c.listed, hit)
  BY SideIs DEF Match
<1>3. w.left \in Int /\ w.by \in Nat
  BY <1>1 DEF Walks
<1>. HIDE DEF w
<1>4. /\ hit \in BOOLEAN
      /\ Holds(c.regexes, TRUE) => hit
      /\ Quick(c.regexes) /\ w.left > 0 => hit = Holds(c.regexes, TRUE)
  <2>1. /\ Cond(c.regexes, w.left, TRUE) \in Accs
        /\ Holds(c.regexes, TRUE) => hit
        /\ Quick(c.regexes) /\ w.left > 0
             => Cond(c.regexes, w.left, TRUE) = [hit |-> Holds(c.regexes, TRUE), left |-> w.left]
    BY <1>3, CondIs
  <2>2. hit \in BOOLEAN
    BY <2>1 DEF Accs
  <2>3. ASSUME Quick(c.regexes), w.left > 0 PROVE hit = Holds(c.regexes, TRUE)
    <3>1. Cond(c.regexes, w.left, TRUE) = [hit |-> Holds(c.regexes, TRUE), left |-> w.left]
      BY <2>1, <2>3
    <3>. HIDE DEF w
    <3>2. [hit |-> Holds(c.regexes, TRUE), left |-> w.left].hit = Holds(c.regexes, TRUE)
      OBVIOUS
    <3>. QED
      BY <3>1, <3>2, Zenon
  <2>. QED
    BY <2>1, <2>2, <2>3
<1>5. PICK n \in Nat : c.rules \in [1..n -> Rules] /\ DOMAIN c.rules = 1..n
  BY DEF Seq
<1>6. \A i \in DOMAIN c.rules : c.rules[i].action \in {"skip", "block", "challenge", "warn"}
  BY <1>5 DEF Rules
<1>. HIDE DEF hit, verdict
<1>7. ASSUME NoneSlow(c) PROVE verdict = Unhurried(c)
  <2>1. Quick(c.regexes) /\ quick
    BY <1>7 DEF NoneSlow
  <2>. HIDE DEF quick
  <2>2. CASE w.by # 0
    <3>1. w.by \in DOMAIN c.rules /\ Firing(c.rules[w.by]) /\ \A j \in DOMAIN c.rules : j < w.by => ~Firing(c.rules[j])
      BY <1>1, <2>1, <2>2
    <3>. QED
      BY <1>2, <2>2, <3>1, UnhurriedIs
  <2>3. CASE w.by = 0
    <3>1. \A i \in DOMAIN c.rules : ~Firing(c.rules[i])
      BY <1>1, <2>1, <2>3
    <3>2. hit = Holds(c.regexes, TRUE)
      BY <1>1, <1>4, <2>1
    <3>. QED
      BY <1>2, <2>3, <3>1, <3>2, UnhurriedIs
  <2>. QED
    BY <2>2, <2>3
<1>. HIDE DEF quick
<1>8. ASSUME NEW i \in DOMAIN c.rules, Firing(c.rules[i]), \A j \in DOMAIN c.rules : j < i => ~Firing(c.rules[j]),
             w.by = 0 \/ Skips(w.by)
      PROVE  Unhurried(c) = "skip"
  <2>1. Unhurried(c) = c.rules[i].action
    BY <1>8, UnhurriedIs
  <2>2. Skips(i)
    <3>1. CASE w.by = 0 \/ i < w.by
      BY <1>1, <1>8, <3>1
    <3>2. CASE w.by # 0 /\ ~(i < w.by)
      <4>1. Firing(c.rules[w.by]) /\ w.by \in DOMAIN c.rules
        BY <1>1, <1>8, <3>2
      <4>2. i = w.by
        BY <1>3, <1>5, <1>8, <3>2, <4>1
      <4>. QED
        BY <1>8, <3>2, <4>2
    <3>. QED
      BY <3>1, <3>2
  <2>. QED
    BY <2>1, <2>2
<1>9. ASSUME verdict = "skip" PROVE Unhurried(c) = "skip"
  <2>1. CASE \A i \in DOMAIN c.rules : ~Firing(c.rules[i])
    <3>1. w.by = 0
      <4>1. ASSUME w.by # 0 PROVE FALSE
        <5>1. Skips(w.by) /\ w.by \in DOMAIN c.rules
          BY <1>1, <1>2, <1>9, <4>1
        <5>. QED
          BY <1>1, <2>1, <4>1, <5>1
      <4>. QED
        BY <4>1
    <3>2. "allow" \in c.listed
      BY <1>2, <1>9, <3>1 DEF InOrder
    <3>. QED
      BY <2>1, <3>2, UnhurriedIs DEF InOrder
  <2>2. CASE \E i \in DOMAIN c.rules : Firing(c.rules[i]) /\ \A j \in DOMAIN c.rules : j < i => ~Firing(c.rules[j])
    <3>1. w.by = 0 \/ Skips(w.by)
      BY <1>2, <1>9
    <3>. QED
      BY <1>8, <2>2, <3>1
  <2>. QED
    BY <2>1, <2>2, UnhurriedIs
<1>10. ASSUME verdict = "none" PROVE Unhurried(c) \in {"none", "skip"}
  <2>1. w.by = 0
    BY <1>1, <1>2, <1>6, <1>10
  <2>2. CASE \A i \in DOMAIN c.rules : ~Firing(c.rules[i])
    <3>1. InOrder(c.listed, hit) = "none"
      BY <1>2, <1>10, <2>1
    <3>2. "allow" \notin c.listed /\ "block" \notin c.listed /\ ~hit /\ "challenge" \notin c.listed
      BY <3>1 DEF InOrder
    <3>3. ~Holds(c.regexes, TRUE)
      BY <1>4, <3>2
    <3>. QED
      BY <2>2, <3>2, <3>3, UnhurriedIs DEF InOrder
  <2>3. CASE \E i \in DOMAIN c.rules : Firing(c.rules[i]) /\ \A j \in DOMAIN c.rules : j < i => ~Firing(c.rules[j])
    BY <1>8, <2>1, <2>3
  <2>. QED
    BY <2>2, <2>3, UnhurriedIs
<1>. QED
  BY <1>7, <1>9, <1>10 DEF verdict

-----------------------------------------------------------------------------
(* The answers.                                                            *)

\* What was told about a lookup is what the lookups answer about one of the cases.
LookupsRight ==
    about = "lookup" => /\ asked \in LookupCases
                        /\ told = [v4  |-> Blocked4(Table(asked.rows), asked.n),
                                   v6  |-> Blocked6(Table(asked.rows), asked.n),
                                   side |-> InRange(Table(asked.rows), asked.n),
                                   asn |-> BlockedAsn(asked.bm, asked.extra, asked.n)]

\* LookupsRight is inductive: only AskLookup tells of a lookup.
LEMMA LookupsRightInvariant == Spec => []LookupsRight
<1>1. Init => LookupsRight
  BY DEF Init, LookupsRight
<1>2. LookupsRight /\ [Next]_vars => LookupsRight'
  <2>. SUFFICES ASSUME LookupsRight, [Next]_vars PROVE LookupsRight'
    OBVIOUS
  <2>1. CASE AskLookup
    BY <2>1 DEF AskLookup, Ask, LookupsRight
  <2>2. CASE AskAddress \/ AskPath \/ AskVerdict \/ AskContainer \/ AskCadence \/ AskQuery
    <3>1. about' # "lookup"
      BY <2>2 DEF AskAddress, AskPath, AskVerdict, AskContainer, AskCadence, AskQuery, Ask
    <3>. QED
      BY <3>1 DEF LookupsRight
  <2>3. CASE UNCHANGED vars
    BY <2>3 DEF LookupsRight, vars
  <2>. QED
    BY <2>1, <2>2, <2>3 DEF Next
<1>. QED
  BY <1>1, <1>2, PTL DEF Spec

\* LookupsFindWhatIsListed: for every list of ranges in order and apart, every size of the blocks and of
\* the index, the binary searches of match.py find exactly what is listed.
THEOREM LookupsFindTheorem == Spec => []LookupsFindWhatIsListed
<1>1. LookupsRight => LookupsFindWhatIsListed
  <2>1. SUFFICES ASSUME LookupsRight, about = "lookup" PROVE LookupsFindWhatIsListed
    BY DEF LookupsFindWhatIsListed, About
  <2>. DEFINE c == asked
              in == \E i \in DOMAIN c.rows : c.n \in c.rows[i].s..c.rows[i].e
  <2>2. /\ IsRows(c.rows) /\ c.n \in 0..MaxAddress /\ \A a \in c.bm : a < DenseAsns
        /\ IsColumn(c.extra) /\ \A i \in DOMAIN c.extra : c.extra[i] \in Int /\ c.extra[i] >= DenseAsns
        /\ \A i, j \in DOMAIN c.extra : i < j => c.extra[i] < c.extra[j]
    BY <2>1, DecisionAssumption DEF LookupsRight
  <2>3. c.n \in Int /\ c.n \in Nat
    BY <2>2, MatcherAssumption
  <2>. HIDE DEF c
  <2>4. /\ Blocked4(Table(c.rows), c.n) = Listed(c.rows, c.n)
        /\ Blocked6(Table(c.rows), c.n) = Listed(c.rows, c.n)
        /\ InRange(Table(c.rows), c.n) = Listed(c.rows, c.n)
    BY <2>2, <2>3, Blocked4Finds, Blocked6Finds, InRangeFinds
  <2>5. BlockedAsn(c.bm, c.extra, c.n) = (c.n \in c.bm \cup Range(c.extra))
    <3>1. c.n \in Range(c.extra) <=> \E i \in DOMAIN c.extra : c.extra[i] = c.n
      BY DEF Range
    <3>. QED
      BY <2>2, <2>3, <3>1, BlockedAsnFinds
  <2>6. /\ told.v4 = Listed(c.rows, c.n) /\ told.v6 = Listed(c.rows, c.n) /\ told.side = Listed(c.rows, c.n)
        /\ told.asn = (c.n \in c.bm \cup Range(c.extra))
    <3>1. /\ told.v4 = Blocked4(Table(c.rows), c.n) /\ told.v6 = Blocked6(Table(c.rows), c.n)
          /\ told.side = InRange(Table(c.rows), c.n) /\ told.asn = BlockedAsn(c.bm, c.extra, c.n)
      BY <2>1 DEF LookupsRight, c
    <3>. QED
      BY <3>1, <2>4, <2>5
  <2>. QED
    BY <2>6 DEF LookupsFindWhatIsListed, Listed, c
<1>. QED
  BY <1>1, LookupsRightInvariant, PTL

\* A verdict that was told is Match's answer about one of the cases.
VerdictsRight ==
    about = "verdict" => asked \in VerdictCases /\ told = Match(asked.rules, asked.listed, asked.regexes)

\* VerdictsRight is inductive: only AskVerdict tells of a verdict.
LEMMA VerdictsRightInvariant == Spec => []VerdictsRight
<1>1. Init => VerdictsRight
  BY DEF Init, VerdictsRight
<1>2. VerdictsRight /\ [Next]_vars => VerdictsRight'
  <2>. SUFFICES ASSUME VerdictsRight, [Next]_vars PROVE VerdictsRight'
    OBVIOUS
  <2>1. CASE AskVerdict
    BY <2>1 DEF AskVerdict, Ask, VerdictsRight
  <2>2. CASE AskAddress \/ AskLookup \/ AskPath \/ AskContainer \/ AskCadence \/ AskQuery
    <3>1. about' # "verdict"
      BY <2>2 DEF AskAddress, AskLookup, AskPath, AskContainer, AskCadence, AskQuery, Ask
    <3>. QED
      BY <3>1 DEF VerdictsRight
  <2>3. CASE UNCHANGED vars
    BY <2>3 DEF VerdictsRight, vars
  <2>. QED
    BY <2>1, <2>2, <2>3 DEF Next
<1>. QED
  BY <1>1, <1>2, PTL DEF Spec

\* FirstMatchDecides: for every list of rules, of any length and any conditions, match() answers with
\* the first rule that fires, or the first side, as long as no regex is slow.
THEOREM FirstMatchTheorem == Spec => []FirstMatchDecides
<1>1. VerdictsRight => FirstMatchDecides
  BY DecisionAssumption, VerdictIs DEF VerdictsRight, FirstMatchDecides, About
<1>. QED
  BY <1>1, VerdictsRightInvariant, PTL

\* SlowRegexNeverOpens: whatever the regexes cost and whatever is left of the budget, match() neither
\* exempts a request nor passes it unmarked that it would not have with all the time in the world; a
\* warn rule may still pass one, marked.
THEOREM SlowRegexTheorem == Spec => []SlowRegexNeverOpens
<1>1. VerdictsRight => SlowRegexNeverOpens
  BY DecisionAssumption, VerdictIs DEF VerdictsRight, SlowRegexNeverOpens, About
<1>. QED
  BY <1>1, VerdictsRightInvariant, PTL

-----------------------------------------------------------------------------
(* The ticks of the poll timer.                                            *)

\* What a list has before place i.
Before1(f, i, base) == IF i = 1 THEN base ELSE f[i - 1]
Follows(f, n, base, step) == \A i \in 1..n : f[i] = step[i][Before1(f, i, base)]

\* A value for each place that follows from the one before: there is such a list.
LEMMA ListExists ==
    ASSUME NEW n \in Nat, NEW A, NEW base \in A, NEW step \in [1..n -> [A -> A]]
    PROVE  \E f \in [1..n -> A] : Follows(f, n, base, step)
<1>1. PICK iter \in [SUBSET (1..n) -> A] : FoldsTo(iter, 1..n, base, step)
  BY FoldExists
<1>. DEFINE f == [i \in 1..n |-> iter[1..i]]
<1>2. f \in [1..n -> A]
  <2>1. \A i \in 1..n : 1..i \in SUBSET (1..n)
    OBVIOUS
  <2>. QED
    BY <1>1, <2>1
<1>3. ASSUME NEW i \in 1..n PROVE f[i] = step[i][Before1(f, i, base)]
  <2>1. i \in Nat \ {0} /\ 1..i \in SUBSET (1..n) /\ 1..(i - 1) \in SUBSET (1..n)
    OBVIOUS
  <2>2. Max(1..i) = i /\ (1..i) \ {i} = 1..(i - 1) /\ 1..i # {}
    BY <2>1, MaxInterval
  <2>3. iter[1..i] = step[i][iter[1..(i - 1)]]
    BY <1>1, <2>1, <2>2 DEF FoldsTo
  <2>4. CASE i = 1
    <3>1. 1..(i - 1) = {}
      BY <2>4
    <3>2. iter[{}] = base
      BY <1>1 DEF FoldsTo
    <3>. QED
      BY <2>3, <2>4, <3>1, <3>2 DEF Before1
  <2>5. CASE i # 1
    <3>1. i - 1 \in 1..n
      BY <2>5
    <3>. QED
      BY <2>3, <2>5, <3>1 DEF Before1
  <2>. QED
    BY <2>4, <2>5
<1>. HIDE DEF f
<1>. QED
  BY <1>2, <1>3 DEF Follows

\* What is known after a tick.
Known == [polls : BOOLEAN, free : Int, loaded : Int, gate : Int]

\* A tick makes of what was known what is known then.
LEMMA TickType ==
    ASSUME NEW was \in Known, NEW t \in Int, NEW tick \in Ticks
    PROVE  Tick(was, t, tick.took, tick.end) \in Known
<1>1. was.free \in Int /\ was.loaded \in Int /\ was.gate \in Int /\ was \in Known
  BY DEF Known
<1>2. tick.took \in Int /\ tick.end \in Int
  BY CadenceAssumption DEF Ticks, Answered
<1>3. Gate(tick.end) \in Int
  BY <1>2, CadenceAssumption DEF Gate, Least
<1>4. CASE was.free <= t /\ IsStale(t - was.loaded) /\ t >= was.gate
  <2>1. Tick(was, t, tick.took, tick.end) =
          [polls |-> TRUE, free |-> t + tick.took,
           loaded |-> IF tick.end = Answered THEN t + tick.took ELSE was.loaded,
           gate |-> IF tick.end = Answered THEN 0 ELSE t + tick.took + Gate(tick.end)]
    BY <1>4 DEF Tick
  <2>. QED
    BY <1>1, <1>2, <1>3, <2>1 DEF Known
<1>5. CASE ~(was.free <= t /\ IsStale(t - was.loaded) /\ t >= was.gate)
  <2>1. Tick(was, t, tick.took, tick.end) = [was EXCEPT !.polls = FALSE]
    BY <1>5 DEF Tick
  <2>. QED
    BY <1>1, <2>1 DEF Known
<1>. QED
  BY <1>4, <1>5

\* Each tick comes an interval after the one before, or later, and goes by what is known from it.
LEMMA PollsAre ==
    ASSUME NEW ticks \in Seq(Ticks)
    PROVE  \E n \in Nat : \E at \in [1..n -> Nat], run \in [1..n -> Known] :
              /\ ticks \in [1..n -> Ticks]
              /\ \A i \in 1..n : i > 1 => at[i] >= at[i - 1] + Refresh
              /\ \A i \in 1..n : run[i] = Tick(IF i = 1 THEN NeverLoaded ELSE run[i - 1], at[i], ticks[i].took, ticks[i].end)
              /\ Polls(ticks) = [i \in 1..n |-> run[i].polls]
<1>1. PICK n \in Nat : ticks \in [1..n -> Ticks]
  BY DEF Seq
<1>2. \A i \in 1..n : ticks[i] \in Ticks /\ ticks[i].late \in Nat
  BY <1>1 DEF Ticks
<1>. DEFINE BodyAt(h) == [i \in DOMAIN ticks |-> IF i = 1 THEN 0 ELSE h[i - 1] + Refresh + ticks[i].late]
            at == CHOOSE h : h = BodyAt(h)
            BodyRun(h) == [i \in DOMAIN ticks |->
                             Tick(IF i = 1 THEN NeverLoaded ELSE h[i - 1], at[i], ticks[i].took, ticks[i].end)]
            run == CHOOSE h : h = BodyRun(h)
<1>3. Polls(ticks) = [i \in DOMAIN ticks |-> run[i].polls]
  BY DEF Polls
<1>4. at = BodyAt(at) /\ at \in [1..n -> Nat]
  <2>. DEFINE step == [i \in 1..n |-> [x \in Nat |-> IF i = 1 THEN 0 ELSE x + Refresh + ticks[i].late]]
  <2>1. step \in [1..n -> [Nat -> Nat]]
    BY <1>2, CadenceAssumption
  <2>2. PICK f \in [1..n -> Nat] : Follows(f, n, 0, step)
    <3>. HIDE DEF step
    <3>. QED
      BY <2>1, ListExists
  <2>3. ASSUME NEW i \in 1..n PROVE f[i] = IF i = 1 THEN 0 ELSE f[i - 1] + Refresh + ticks[i].late
    <3>1. Before1(f, i, 0) \in Nat /\ Before1(f, i, 0) = IF i = 1 THEN 0 ELSE f[i - 1]
      BY <2>2 DEF Before1
    <3>2. f[i] = IF i = 1 THEN 0 ELSE Before1(f, i, 0) + Refresh + ticks[i].late
      BY <2>2, <3>1 DEF Follows
    <3>. QED
      BY <3>1, <3>2
  <2>4. f = BodyAt(f)
    BY <1>1, <2>2, <2>3
  <2>5. at = BodyAt(at)
    <3>. HIDE DEF BodyAt
    <3>. QED
      BY <2>4
  <2>6. DOMAIN at = 1..n /\ \A i \in 1..n : at[i] = IF i = 1 THEN 0 ELSE at[i - 1] + Refresh + ticks[i].late
    <3>1. \A h : /\ DOMAIN BodyAt(h) = 1..n
                 /\ \A i \in 1..n : BodyAt(h)[i] = IF i = 1 THEN 0 ELSE h[i - 1] + Refresh + ticks[i].late
      BY <1>1
    <3>. HIDE DEF at, BodyAt
    <3>. QED
      BY <2>5, <3>1
  <2>. HIDE DEF at
  <2>. DEFINE S == {k \in Nat : \A i \in 1..n : i <= k => at[i] \in Nat}
  <2>7. S = Nat
    <3>1. 0 \in S
      OBVIOUS
    <3>2. ASSUME NEW k \in S PROVE k + 1 \in S
      <4>1. ASSUME NEW i \in 1..n, i <= k + 1 PROVE at[i] \in Nat
        <5>1. CASE i = 1
          BY <2>6, <5>1
        <5>2. CASE i # 1
          <6>1. i - 1 \in 1..n /\ i - 1 <= k
            BY <4>1, <5>2
          <6>2. at[i - 1] \in Nat
            BY <6>1
          <6>3. at[i] = at[i - 1] + Refresh + ticks[i].late
            BY <2>6, <5>2
          <6>. QED
            BY <6>2, <6>3, <1>2, CadenceAssumption
        <5>. QED
          BY <5>1, <5>2
      <4>. QED
        BY <4>1
    <3>3. S \in SUBSET Nat
      OBVIOUS
    <3>. HIDE DEF S
    <3>. QED
      BY <3>1, <3>2, <3>3, Induction
  <2>8. \A i \in 1..n : at[i] \in Nat
    <3>1. n \in S
      <4>. HIDE DEF S
      <4>. QED
        BY <2>7
    <3>. QED
      BY <3>1
  <2>9. at = [i \in 1..n |-> at[i]]
    <3>1. \A h : BodyAt(h) = [i \in 1..n |-> BodyAt(h)[i]]
      BY <1>1
    <3>. HIDE DEF BodyAt
    <3>. QED
      BY <2>5, <3>1
  <2>. QED
    BY <2>5, <2>8, <2>9
<1>5. \A i \in 1..n : i > 1 => at[i] >= at[i - 1] + Refresh
  <2>1. \A h : \A i \in 1..n : i > 1 => BodyAt(h)[i] = h[i - 1] + Refresh + ticks[i].late
    BY <1>1
  <2>. HIDE DEF at, BodyAt
  <2>2. ASSUME NEW i \in 1..n, i > 1 PROVE at[i] >= at[i - 1] + Refresh
    <3>1. at[i] = at[i - 1] + Refresh + ticks[i].late
      BY <2>1, <2>2, <1>4
    <3>2. i - 1 \in 1..n
      BY <2>2
    <3>. QED
      BY <3>1, <3>2, <1>2, <1>4, CadenceAssumption
  <2>. QED
    BY <2>2
<1>. HIDE DEF at
<1>6. run = BodyRun(run) /\ run \in [1..n -> Known]
  <2>. DEFINE step == [i \in 1..n |-> [x \in Known |-> Tick(x, at[i], ticks[i].took, ticks[i].end)]]
  <2>1. step \in [1..n -> [Known -> Known]]
    <3>1. ASSUME NEW i \in 1..n, NEW x \in Known PROVE Tick(x, at[i], ticks[i].took, ticks[i].end) \in Known
      <4>1. at[i] \in Int /\ ticks[i] \in Ticks
        BY <1>2, <1>4
      <4>. QED
        BY <4>1, TickType
    <3>. QED
      BY <3>1
  <2>2. NeverLoaded \in Known
    BY CadenceAssumption DEF NeverLoaded, Known
  <2>3. PICK f \in [1..n -> Known] : Follows(f, n, NeverLoaded, step)
    <3>. HIDE DEF step
    <3>. QED
      BY <2>1, <2>2, ListExists
  <2>4. ASSUME NEW i \in 1..n
        PROVE f[i] = Tick(IF i = 1 THEN NeverLoaded ELSE f[i - 1], at[i], ticks[i].took, ticks[i].end)
    <3>1. /\ Before1(f, i, NeverLoaded) \in Known
          /\ Before1(f, i, NeverLoaded) = IF i = 1 THEN NeverLoaded ELSE f[i - 1]
      BY <2>2, <2>3 DEF Before1
    <3>2. f[i] = Tick(Before1(f, i, NeverLoaded), at[i], ticks[i].took, ticks[i].end)
      BY <2>3, <3>1 DEF Follows
    <3>. QED
      BY <3>1, <3>2
  <2>5. f = BodyRun(f)
    BY <1>1, <2>3, <2>4
  <2>6. run = BodyRun(run)
    <3>. HIDE DEF BodyRun
    <3>. QED
      BY <2>5
  <2>7. \A i \in 1..n : run[i] = Tick(IF i = 1 THEN NeverLoaded ELSE run[i - 1], at[i], ticks[i].took, ticks[i].end)
    <3>1. \A h : \A i \in 1..n :
            BodyRun(h)[i] = Tick(IF i = 1 THEN NeverLoaded ELSE h[i - 1], at[i], ticks[i].took, ticks[i].end)
      BY <1>1
    <3>. HIDE DEF run, BodyRun
    <3>. QED
      BY <2>6, <3>1
  <2>. HIDE DEF run
  <2>. DEFINE S == {k \in Nat : \A i \in 1..n : i <= k => run[i] \in Known}
  <2>8. S = Nat
    <3>1. 0 \in S
      OBVIOUS
    <3>2. ASSUME NEW k \in S PROVE k + 1 \in S
      <4>1. ASSUME NEW i \in 1..n, i <= k + 1 PROVE run[i] \in Known
        <5>1. (IF i = 1 THEN NeverLoaded ELSE run[i - 1]) \in Known
          BY <2>2, <4>1
        <5>2. at[i] \in Int /\ ticks[i] \in Ticks
          BY <1>2, <1>4
        <5>3. run[i] = Tick(IF i = 1 THEN NeverLoaded ELSE run[i - 1], at[i], ticks[i].took, ticks[i].end)
          BY <2>7
        <5>. QED
          BY <5>1, <5>2, <5>3, TickType
      <4>. QED
        BY <4>1
    <3>3. S \in SUBSET Nat
      OBVIOUS
    <3>. HIDE DEF S
    <3>. QED
      BY <3>1, <3>2, <3>3, Induction
  <2>9. \A i \in 1..n : run[i] \in Known
    <3>1. n \in S
      <4>. HIDE DEF S
      <4>. QED
        BY <2>8
    <3>. QED
      BY <3>1
  <2>10. run = [i \in 1..n |-> run[i]]
    <3>1. \A h : BodyRun(h) = [i \in 1..n |-> BodyRun(h)[i]]
      BY <1>1
    <3>. HIDE DEF BodyRun
    <3>. QED
      BY <2>6, <3>1
  <2>. QED
    BY <2>6, <2>9, <2>10
<1>7. \A i \in 1..n : run[i] = Tick(IF i = 1 THEN NeverLoaded ELSE run[i - 1], at[i], ticks[i].took, ticks[i].end)
  <2>1. \A h : \A i \in 1..n :
          BodyRun(h)[i] = Tick(IF i = 1 THEN NeverLoaded ELSE h[i - 1], at[i], ticks[i].took, ticks[i].end)
    BY <1>1
  <2>. HIDE DEF run, BodyRun
  <2>. QED
    BY <1>6, <2>1
<1>8. Polls(ticks) = [i \in 1..n |-> run[i].polls]
  BY <1>1, <1>3
<1>. HIDE DEF run
<1>. QED
  BY <1>1, <1>4, <1>5, <1>6, <1>7, <1>8

\* A tick that finds nothing in its way polls; one that does not changes nothing else.
LEMMA TickIs ==
    ASSUME NEW was \in Known, NEW t \in Nat, NEW tick \in Ticks
    PROVE  LET now == Tick(was, t, tick.took, tick.end)
           IN  /\ now.polls = (was.free <= t /\ IsStale(t - was.loaded) /\ t >= was.gate)
               /\ now.polls => /\ now.free = t + tick.took
                               /\ now.loaded \in {t + tick.took, was.loaded}
                               /\ now.gate <= t + tick.took + Refresh
                               /\ Prompt(tick) => now.gate <= t + Refresh
               /\ ~now.polls => now.free = was.free /\ now.loaded = was.loaded /\ now.gate = was.gate
<1>1. was.free \in Int /\ was.loaded \in Int /\ was.gate \in Int /\ was \in Known
  BY DEF Known
<1>2. tick.took \in 0..Refresh /\ tick.end \in Int
  BY CadenceAssumption DEF Ticks, Answered
<1>3. /\ Gate(tick.end) \in Int /\ Gate(tick.end) <= Refresh
      /\ Gate(tick.end) <= (IF tick.end > Floor THEN tick.end ELSE Floor)
  BY <1>2, CadenceAssumption DEF Gate, Least
<1>. DEFINE now == Tick(was, t, tick.took, tick.end)
<1>4. CASE was.free <= t /\ IsStale(t - was.loaded) /\ t >= was.gate
  <2>1. now =
          [polls |-> TRUE, free |-> t + tick.took,
           loaded |-> IF tick.end = Answered THEN t + tick.took ELSE was.loaded,
           gate |-> IF tick.end = Answered THEN 0 ELSE t + tick.took + Gate(tick.end)]
    BY <1>4 DEF Tick
  <2>. HIDE DEF now
  <2>2. /\ now.polls = TRUE /\ now.free = t + tick.took
        /\ now.loaded = IF tick.end = Answered THEN t + tick.took ELSE was.loaded
        /\ now.gate = IF tick.end = Answered THEN 0 ELSE t + tick.took + Gate(tick.end)
    BY <2>1
  <2>3. now.gate <= t + tick.took + Refresh
    BY <1>2, <1>3, <2>2, CadenceAssumption
  <2>4. ASSUME Prompt(tick) PROVE now.gate <= t + Refresh
    <3>1. tick.took + (IF tick.end > Floor THEN tick.end ELSE Floor) <= Refresh
      BY <2>4 DEF Prompt
    <3>. QED
      BY <1>2, <1>3, <2>2, <3>1, CadenceAssumption
  <2>5. QED
    BY <1>4, <2>2, <2>3, <2>4 DEF now
<1>5. CASE ~(was.free <= t /\ IsStale(t - was.loaded) /\ t >= was.gate)
  <2>1. now = [was EXCEPT !.polls = FALSE]
    BY <1>5 DEF Tick
  <2>. HIDE DEF now
  <2>2. now.polls = FALSE /\ now.free = was.free /\ now.loaded = was.loaded /\ now.gate = was.gate
    BY <1>1, <2>1 DEF Known
  <2>. QED
    BY <1>5, <2>2 DEF now
<1>. QED
  BY <1>4, <1>5

\* What is left of a tick at t at the next one: after an idle one, nothing that would keep it from polling.
Lasts(was, t) ==
    IF was.polls THEN was.free <= t + Refresh /\ was.loaded <= t + Refresh /\ was.gate <= t + 2 * Refresh
    ELSE was.free <= t /\ was.loaded <= t /\ was.gate <= t + Refresh

\* After a prompt one that polled, nothing either.
LastsPrompt(was, t) ==
    was.polls /\ was.free <= t + Refresh /\ 10 * (was.loaded - t) < Refresh /\ was.gate <= t + Refresh

\* The next tick, an interval later at least.
LEMMA TickLasts ==
    ASSUME NEW was \in Known, NEW before \in Int, NEW t \in Nat, t >= before + Refresh, NEW tick \in Ticks
    PROVE  LET now == Tick(was, t, tick.took, tick.end)
           IN  /\ Lasts(was, before) => Lasts(now, t) /\ (was.polls \/ now.polls)
               /\ LastsPrompt(was, before) /\ Prompt(tick) => LastsPrompt(now, t)
<1>. DEFINE now == Tick(was, t, tick.took, tick.end)
<1>1. /\ was.free \in Int /\ was.loaded \in Int /\ was.gate \in Int
      /\ tick.took \in 0..Refresh /\ Refresh \in Nat \ {0}
  BY CadenceAssumption DEF Known, Ticks
<1>2. now \in Known
  BY TickType
<1>3. now.free \in Int /\ now.loaded \in Int /\ now.gate \in Int
  <2>. HIDE DEF now
  <2>. QED
    BY <1>2 DEF Known
<1>4. /\ now.polls = (was.free <= t /\ IsStale(t - was.loaded) /\ t >= was.gate)
      /\ now.polls => /\ now.free = t + tick.took
                      /\ now.loaded \in {t + tick.took, was.loaded}
                      /\ now.gate <= t + tick.took + Refresh
                      /\ Prompt(tick) => now.gate <= t + Refresh
      /\ ~now.polls => now.free = was.free /\ now.loaded = was.loaded /\ now.gate = was.gate
  BY TickIs
<1>. HIDE DEF now
<1>5. ASSUME Lasts(was, before) PROVE Lasts(now, t) /\ (was.polls \/ now.polls)
  <2>1. CASE was.polls
    <3>1. was.free <= before + Refresh /\ was.loaded <= before + Refresh /\ was.gate <= before + 2 * Refresh
      BY <1>5, <2>1 DEF Lasts
    <3>2. was.free <= t /\ was.loaded <= t /\ was.gate <= t + Refresh
      BY <1>1, <3>1
    <3>3. CASE now.polls
      BY <1>1, <1>3, <1>4, <3>2, <3>3 DEF Lasts
    <3>4. CASE ~now.polls
      <4>1. now.free <= t /\ now.loaded <= t /\ now.gate <= t + Refresh
        BY <1>4, <3>2, <3>4
      <4>. QED
        BY <2>1, <3>4, <4>1 DEF Lasts
    <3>. QED
      BY <2>1, <3>3, <3>4
  <2>2. CASE ~was.polls
    <3>1. was.free <= before /\ was.loaded <= before /\ was.gate <= before + Refresh
      BY <1>5, <2>2 DEF Lasts
    <3>2. was.free <= t /\ was.gate <= t /\ 10 * (t - was.loaded) > 9 * Refresh /\ was.loaded <= t
      BY <1>1, <3>1
    <3>3. now.polls
      BY <1>4, <3>2 DEF IsStale
    <3>. QED
      BY <1>1, <1>3, <1>4, <3>2, <3>3 DEF Lasts
  <2>. QED
    BY <2>1, <2>2
<1>6. ASSUME LastsPrompt(was, before), Prompt(tick) PROVE LastsPrompt(now, t)
  <2>1. was.free <= before + Refresh /\ 10 * (was.loaded - before) < Refresh /\ was.gate <= before + Refresh
    BY <1>6 DEF LastsPrompt
  <2>2. was.free <= t /\ was.gate <= t /\ 10 * (t - was.loaded) > 9 * Refresh
    BY <1>1, <2>1
  <2>3. now.polls
    BY <1>4, <2>2 DEF IsStale
  <2>4. 10 * tick.took < Refresh
    BY <1>6 DEF Prompt
  <2>. QED
    BY <1>1, <1>3, <1>4, <1>6, <2>2, <2>3, <2>4 DEF LastsPrompt
<1>. QED
  BY <1>5, <1>6 DEF now

\* Never loaded, the first tick polls.
LEMMA FirstTick ==
    ASSUME NEW t \in Nat, NEW tick \in Ticks
    PROVE  LET now == Tick(NeverLoaded, t, tick.took, tick.end)
           IN  Lasts(now, t) /\ (Prompt(tick) => LastsPrompt(now, t))
<1>. DEFINE now == Tick(NeverLoaded, t, tick.took, tick.end)
<1>1. /\ tick.took \in 0..Refresh /\ Refresh \in Nat \ {0}
      /\ NeverLoaded.free = 0 /\ NeverLoaded.gate = 0 /\ NeverLoaded.loaded = -2 * Refresh
  BY CadenceAssumption DEF Ticks, NeverLoaded
<1>2. NeverLoaded \in Known
  BY CadenceAssumption DEF NeverLoaded, Known
<1>3. now \in Known
  BY <1>2, TickType
<1>4. now.free \in Int /\ now.loaded \in Int /\ now.gate \in Int
  <2>. HIDE DEF now
  <2>. QED
    BY <1>3 DEF Known
<1>5. /\ now.polls = (NeverLoaded.free <= t /\ IsStale(t - NeverLoaded.loaded) /\ t >= NeverLoaded.gate)
      /\ now.polls => /\ now.free = t + tick.took
                      /\ now.loaded \in {t + tick.took, NeverLoaded.loaded}
                      /\ now.gate <= t + tick.took + Refresh
                      /\ Prompt(tick) => now.gate <= t + Refresh
  BY <1>2, TickIs
<1>. HIDE DEF now
<1>6. now.polls
  <2>1. 10 * (t - -2 * Refresh) > 9 * Refresh /\ 0 <= t /\ t >= 0
    BY <1>1
  <2>. QED
    BY <1>1, <1>5, <2>1 DEF IsStale
<1>7. Lasts(now, t)
  BY <1>1, <1>4, <1>5, <1>6 DEF Lasts
<1>8. ASSUME Prompt(tick) PROVE LastsPrompt(now, t)
  <2>1. 10 * tick.took < Refresh
    BY <1>8 DEF Prompt
  <2>. QED
    BY <1>1, <1>4, <1>5, <1>6, <1>8, <2>1 DEF LastsPrompt
<1>. QED
  BY <1>7, <1>8 DEF now

\* Which of any ticks poll.
LEMMA CadenceIs ==
    ASSUME NEW ticks \in Seq(Ticks)
    PROVE  /\ (\A i \in DOMAIN Polls(ticks) : Prompt(ticks[i])) => \A i \in DOMAIN Polls(ticks) : Polls(ticks)[i]
           /\ \A i \in DOMAIN Polls(ticks) : i > 1 => Polls(ticks)[i - 1] \/ Polls(ticks)[i]
<1>1. PICK n \in Nat : \E at \in [1..n -> Nat], run \in [1..n -> Known] :
              /\ ticks \in [1..n -> Ticks]
              /\ \A i \in 1..n : i > 1 => at[i] >= at[i - 1] + Refresh
              /\ \A i \in 1..n : run[i] = Tick(IF i = 1 THEN NeverLoaded ELSE run[i - 1], at[i], ticks[i].took, ticks[i].end)
              /\ Polls(ticks) = [i \in 1..n |-> run[i].polls]
  BY PollsAre
<1>2. PICK at \in [1..n -> Nat], run \in [1..n -> Known] :
              /\ ticks \in [1..n -> Ticks]
              /\ \A i \in 1..n : i > 1 => at[i] >= at[i - 1] + Refresh
              /\ \A i \in 1..n : run[i] = Tick(IF i = 1 THEN NeverLoaded ELSE run[i - 1], at[i], ticks[i].took, ticks[i].end)
              /\ Polls(ticks) = [i \in 1..n |-> run[i].polls]
  BY <1>1
<1>. DEFINE AllPrompt == \A i \in 1..n : Prompt(ticks[i])
            Good(i) == Lasts(run[i], at[i]) /\ (AllPrompt => LastsPrompt(run[i], at[i]))
            Next2(i) == i > 1 => run[i - 1].polls \/ run[i].polls
<1>3. ASSUME NEW i \in 1..n, i = 1 PROVE Good(i) /\ Next2(i)
  <2>1. run[i] = Tick(NeverLoaded, at[i], ticks[i].took, ticks[i].end) /\ at[i] \in Nat /\ ticks[i] \in Ticks
    BY <1>2, <1>3
  <2>. QED
    BY <1>3, <2>1, FirstTick
<1>4. ASSUME NEW i \in 1..n, i > 1, Good(i - 1) PROVE Good(i) /\ Next2(i)
  <2>1. /\ run[i] = Tick(run[i - 1], at[i], ticks[i].took, ticks[i].end)
        /\ at[i] \in Nat /\ ticks[i] \in Ticks /\ at[i] >= at[i - 1] + Refresh
    BY <1>2, <1>4
  <2>2. run[i - 1] \in Known /\ at[i - 1] \in Int
    <3>1. i - 1 \in 1..n
      BY <1>4
    <3>. QED
      BY <1>2, <3>1
  <2>3. /\ Lasts(run[i - 1], at[i - 1]) => Lasts(run[i], at[i]) /\ (run[i - 1].polls \/ run[i].polls)
        /\ LastsPrompt(run[i - 1], at[i - 1]) /\ Prompt(ticks[i]) => LastsPrompt(run[i], at[i])
    BY <2>1, <2>2, TickLasts
  <2>. QED
    BY <1>4, <2>3
<1>. DEFINE S == {k \in Nat : \A i \in 1..n : i <= k => Good(i) /\ Next2(i)}
<1>5. S = Nat
  <2>. HIDE DEF Good, Next2
  <2>1. 0 \in S
    OBVIOUS
  <2>2. ASSUME NEW k \in S PROVE k + 1 \in S
    <3>1. ASSUME NEW i \in 1..n, i <= k + 1 PROVE Good(i) /\ Next2(i)
      <4>1. CASE i = 1
        BY <1>3, <4>1
      <4>2. CASE i # 1
        <5>1. i - 1 \in 1..n /\ i - 1 <= k /\ i > 1
          BY <3>1, <4>2
        <5>2. Good(i - 1)
          BY <5>1
        <5>. QED
          BY <1>4, <5>1, <5>2
      <4>. QED
        BY <4>1, <4>2
    <3>. QED
      BY <3>1
  <2>3. S \in SUBSET Nat
    OBVIOUS
  <2>. HIDE DEF S
  <2>. QED
    BY <2>1, <2>2, <2>3, Induction
<1>6. ASSUME NEW i \in 1..n PROVE Good(i) /\ Next2(i)
  <2>. HIDE DEF Good, Next2
  <2>1. n \in S
    <3>. HIDE DEF S
    <3>. QED
      BY <1>5
  <2>. QED
    BY <2>1
<1>7. DOMAIN Polls(ticks) = 1..n /\ \A i \in 1..n : Polls(ticks)[i] = run[i].polls
  BY <1>2
<1>8. ASSUME AllPrompt, NEW i \in 1..n PROVE Polls(ticks)[i]
  BY <1>6, <1>7, <1>8 DEF LastsPrompt
<1>9. ASSUME NEW i \in 1..n, i > 1 PROVE Polls(ticks)[i - 1] \/ Polls(ticks)[i]
  <2>1. i - 1 \in 1..n
    BY <1>9
  <2>. QED
    BY <1>6, <1>7, <1>9, <2>1
<1>. QED
  <2>. HIDE DEF Good, Next2
  <2>. QED
    BY <1>7, <1>8, <1>9

\* What was told of some ticks is what they do.
TicksRight == about = "cadence" => asked.ticks \in CadenceCases /\ told = Polls(asked.ticks)

\* TicksRight is inductive: only AskCadence tells of ticks.
LEMMA TicksRightInvariant == Spec => []TicksRight
<1>1. Init => TicksRight
  BY DEF Init, TicksRight
<1>2. TicksRight /\ [Next]_vars => TicksRight'
  <2>. SUFFICES ASSUME TicksRight, [Next]_vars PROVE TicksRight'
    OBVIOUS
  <2>1. CASE AskCadence
    BY <2>1 DEF AskCadence, Ask, TicksRight
  <2>2. CASE AskAddress \/ AskLookup \/ AskPath \/ AskVerdict \/ AskContainer \/ AskQuery
    <3>1. about' # "cadence"
      BY <2>2 DEF AskAddress, AskLookup, AskPath, AskVerdict, AskContainer, AskQuery, Ask
    <3>. QED
      BY <3>1 DEF TicksRight
  <2>3. CASE UNCHANGED vars
    BY <2>3 DEF TicksRight, vars
  <2>. QED
    BY <2>1, <2>2, <2>3 DEF Next
<1>. QED
  BY <1>1, <1>2, PTL DEF Spec

\* CadenceKept: for any interval and floor and any ticks, prompt polls are never skipped, and slow or
\* failing ones never cost two ticks in a row.
THEOREM CadenceTheorem == Spec => []CadenceKept
<1>1. TicksRight => CadenceKept
  BY DecisionAssumption, CadenceIs DEF TicksRight, CadenceKept, About
<1>. QED
  BY <1>1, TicksRightInvariant, PTL

-----------------------------------------------------------------------------
(* Sequences, one element after the other.                                 *)

\* What a sequence is with one more element.
LEMMA Added ==
    ASSUME NEW S, NEW s \in Seq(S), NEW x \in S
    PROVE  /\ Append(s, x) \in Seq(S) /\ Len(Append(s, x)) = Len(s) + 1 /\ Append(s, x) # <<>>
           /\ \A i \in 1..Len(s) : Append(s, x)[i] = s[i]
           /\ Append(s, x)[Len(s) + 1] = x
           /\ Front(Append(s, x)) = s /\ Last(Append(s, x)) = x
<1>1. /\ Append(s, x) \in Seq(S) /\ Len(Append(s, x)) = Len(s) + 1 /\ Append(s, x) # <<>>
      /\ \A i \in 1..Len(s) : Append(s, x)[i] = s[i]
      /\ Append(s, x)[Len(s) + 1] = x
  OBVIOUS
<1>2. Last(Append(s, x)) = x
  BY <1>1 DEF Last
<1>3. Front(Append(s, x)) = s
  <2>1. SubSeq(Append(s, x), 1, Len(s)) = s
    OBVIOUS
  <2>2. Len(Append(s, x)) - 1 = Len(s)
    BY <1>1
  <2>. QED
    BY <2>1, <2>2 DEF Front
<1>. QED
  BY <1>1, <1>2, <1>3

\* A sequence that is not empty is its front with its last element.
LEMMA FrontAndLast ==
    ASSUME NEW S, NEW s \in Seq(S), s # <<>>
    PROVE  /\ Front(s) \in Seq(S) /\ Last(s) \in S /\ s = Append(Front(s), Last(s))
           /\ Len(s) \in Nat \ {0} /\ Len(Front(s)) = Len(s) - 1
           /\ \A i \in 1..(Len(s) - 1) : Front(s)[i] = s[i]
<1>1. Len(s) \in Nat \ {0} /\ Len(s) - 1 \in 0..Len(s)
  <2>1. Len(s) \in Nat /\ Len(s) # 0
    OBVIOUS
  <2>. QED
    BY <2>1
<1>. DEFINE r == SubSeq(s, 1, Len(s) - 1)
<1>2. r \in Seq(S) /\ Len(r) = Len(s) - 1 /\ \A i \in 1..(Len(s) - 1) : r[i] = s[i]
  <2>1. ASSUME NEW m \in 0..Len(s)
        PROVE  SubSeq(s, 1, m) \in Seq(S) /\ Len(SubSeq(s, 1, m)) = m /\ \A i \in 1..m : SubSeq(s, 1, m)[i] = s[i]
    <3>1. m \in Nat /\ m <= Len(s)
      OBVIOUS
    <3>2. SubSeq(s, 1, m) \in Seq(S)
      OBVIOUS
    <3>3. Len(SubSeq(s, 1, m)) = m
      BY <3>1
    <3>4. ASSUME NEW i \in 1..m PROVE SubSeq(s, 1, m)[i] = s[i]
      BY <3>1
    <3>. QED
      BY <3>2, <3>3, <3>4
  <2>. QED
    BY <1>1, <2>1
<1>3. s = Append(r, s[Len(s)])
  <2>1. Len(Append(r, s[Len(s)])) = Len(s) /\ Append(r, s[Len(s)]) \in Seq(S)
    BY <1>1, <1>2
  <2>2. ASSUME NEW i \in 1..Len(s) PROVE Append(r, s[Len(s)])[i] = s[i]
    <3>1. CASE i = Len(s)
      BY <1>1, <1>2, <3>1
    <3>2. CASE i # Len(s)
      <4>1. i \in 1..(Len(s) - 1)
        BY <1>1, <3>2
      <4>. QED
        BY <1>2, <4>1
    <3>. QED
      BY <3>1, <3>2
  <2>. HIDE DEF r
  <2>. QED
    BY <2>1, <2>2
<1>. QED
  BY <1>1, <1>2, <1>3 DEF Front, Last

\* Induction, for a set of sequences.
LEMMA SeqInduction ==
    ASSUME NEW S, NEW G, <<>> \in G, \A s \in Seq(S) : s \in G => \A x \in S : Append(s, x) \in G
    PROVE  \A s \in Seq(S) : s \in G
<1>. DEFINE N == {k \in Nat : \A s \in Seq(S) : Len(s) = k => s \in G}
<1>1. 0 \in N
  <2>1. \A s \in Seq(S) : Len(s) = 0 => s = <<>>
    OBVIOUS
  <2>. QED
    BY <2>1
<1>2. \A k \in N : k + 1 \in N
  <2>1. SUFFICES ASSUME NEW k \in N, NEW s \in Seq(S), Len(s) = k + 1 PROVE s \in G
    OBVIOUS
  <2>2. k \in Nat /\ s \in Seq(S) /\ s # <<>>
    BY <2>1
  <2>3. Front(s) \in Seq(S) /\ Last(s) \in S /\ s = Append(Front(s), Last(s)) /\ Len(Front(s)) = k
    <3>1. Front(s) \in Seq(S) /\ Last(s) \in S /\ s = Append(Front(s), Last(s)) /\ Len(Front(s)) = Len(s) - 1
      BY <2>2, FrontAndLast
    <3>. QED
      BY <2>1, <2>2, <3>1
  <2>4. Front(s) \in G
    BY <2>1, <2>3
  <2>. QED
    BY <2>3, <2>4
<1>3. N = Nat
  <2>1. N \in SUBSET Nat
    OBVIOUS
  <2>. HIDE DEF N
  <2>. QED
    BY <1>1, <1>2, <2>1, Induction
<1>4. ASSUME NEW s \in Seq(S) PROVE s \in G
  <2>1. Len(s) \in N
    <3>. HIDE DEF N
    <3>. QED
      BY <1>3
  <2>. QED
    BY <2>1
<1>. QED
  BY <1>4

\* What two sequences one after the other hold.
LEMMA Joined ==
    ASSUME NEW S, NEW s \in Seq(S), NEW u \in Seq(S)
    PROVE  /\ s \o u \in Seq(S) /\ Len(s \o u) = Len(s) + Len(u)
           /\ \A i \in 1..Len(s) : (s \o u)[i] = s[i]
           /\ \A i \in 1..Len(u) : (s \o u)[Len(s) + i] = u[i]
<1>1. s \o u \in Seq(S) /\ Len(s \o u) = Len(s) + Len(u)
  OBVIOUS
<1>2. ASSUME NEW i \in 1..Len(s) PROVE (s \o u)[i] = s[i]
  OBVIOUS
<1>3. ASSUME NEW i \in 1..Len(u) PROVE (s \o u)[Len(s) + i] = u[i]
  <2>1. Len(s) + i \in 1..(Len(s) + Len(u)) /\ ~(Len(s) + i <= Len(s)) /\ (Len(s) + i) - Len(s) = i
    OBVIOUS
  <2>. QED
    BY <2>1
<1>. QED
  BY <1>1, <1>2, <1>3

\* Of what joining leaves as it is.
LEMMA JoinedAdd ==
    ASSUME NEW S, NEW s \in Seq(S), NEW u \in Seq(S), NEW x \in S
    PROVE  /\ s \o Append(u, x) = Append(s \o u, x)
           /\ s \o <<>> = s /\ <<>> \o s = s /\ s \o <<x>> = Append(s, x)
<1>1. s \o <<>> = s /\ <<>> \o s = s
  OBVIOUS
<1>2. s \o Append(u, x) = Append(s \o u, x)
  OBVIOUS
<1>3. s \o <<x>> = Append(s, x)
  OBVIOUS
<1>. QED
  BY <1>1, <1>2, <1>3

\* f[i] is the first i sequences of ss, one after the other.
Joins(f, ss) == \A i \in 1..Len(ss) : f[i] = IF i = 1 THEN ss[1] ELSE f[i - 1] \o ss[i]

\* FlattenSeq joins them one by one.
LEMMA FlattenChain ==
    ASSUME NEW S, NEW ss \in Seq(Seq(S)), ss # <<>>
    PROVE  \E f \in [1..Len(ss) -> Seq(S)] : Joins(f, ss) /\ FlattenSeq(ss) = f[Len(ss)]
<1>. DEFINE n == Len(ss)
            Body(h) == [i \in 1..n |-> IF i = 1 THEN ss[i] ELSE h[i - 1] \o ss[i]]
            F == CHOOSE h : h = Body(h)
            step == [i \in 1..n |-> [x \in Seq(S) |-> IF i = 1 THEN ss[i] ELSE x \o ss[i]]]
<1>1. n \in Nat \ {0} /\ \A i \in 1..n : ss[i] \in Seq(S)
  OBVIOUS
<1>2. FlattenSeq(ss) = F[n]
  BY <1>1 DEF FlattenSeq
<1>3. step \in [1..n -> [Seq(S) -> Seq(S)]]
  <2>. HIDE DEF n
  <2>. QED
    BY <1>1
<1>4. <<>> \in Seq(S)
  OBVIOUS
<1>5. PICK f \in [1..n -> Seq(S)] : Follows(f, n, <<>>, step)
  <2>. HIDE DEF step, n
  <2>. QED
    BY <1>1, <1>3, <1>4, ListExists
<1>. HIDE DEF n
<1>6. ASSUME NEW i \in 1..n PROVE f[i] = IF i = 1 THEN ss[i] ELSE f[i - 1] \o ss[i]
  <2>1. Before1(f, i, <<>>) \in Seq(S) /\ Before1(f, i, <<>>) = IF i = 1 THEN <<>> ELSE f[i - 1]
    BY <1>1, <1>4, <1>5 DEF Before1
  <2>2. f[i] = IF i = 1 THEN ss[i] ELSE Before1(f, i, <<>>) \o ss[i]
    BY <1>5, <2>1 DEF Follows
  <2>. QED
    BY <2>1, <2>2
<1>7. f = Body(f)
  BY <1>5, <1>6
<1>8. F = Body(F)
  <2>. HIDE DEF Body
  <2>. QED
    BY <1>7
<1>9. DOMAIN F = 1..n /\ \A i \in 1..n : F[i] = IF i = 1 THEN ss[i] ELSE F[i - 1] \o ss[i]
  <2>1. \A h : DOMAIN Body(h) = 1..n /\ \A i \in 1..n : Body(h)[i] = IF i = 1 THEN ss[i] ELSE h[i - 1] \o ss[i]
    OBVIOUS
  <2>. HIDE DEF F, Body
  <2>. QED
    BY <1>8, <2>1
<1>. HIDE DEF F
<1>10. \A i \in 1..n : F[i] = f[i]
  <2>. DEFINE N == {k \in Nat : k + 1 <= n => F[k + 1] = f[k + 1]}
  <2>1. 0 \in N
    <3>1. 1 \in 1..n /\ 0 + 1 = 1
      BY <1>1
    <3>2. F[1] = f[1]
      BY <1>6, <1>9, <3>1
    <3>. QED
      BY <3>1, <3>2
  <2>2. \A k \in N : k + 1 \in N
    <3>1. SUFFICES ASSUME NEW k \in N, (k + 1) + 1 <= n PROVE F[(k + 1) + 1] = f[(k + 1) + 1]
      OBVIOUS
    <3>2. (k + 1) + 1 \in 1..n /\ (k + 1) + 1 # 1 /\ ((k + 1) + 1) - 1 = k + 1 /\ F[k + 1] = f[k + 1]
      BY <1>1, <3>1
    <3>. DEFINE i == (k + 1) + 1
    <3>3. i \in 1..n /\ i # 1 /\ i - 1 = k + 1
      BY <3>2
    <3>. HIDE DEF i
    <3>4. f[i] = f[k + 1] \o ss[i] /\ F[i] = F[k + 1] \o ss[i]
      BY <1>6, <1>9, <3>3
    <3>. QED
      BY <3>2, <3>4 DEF i
  <2>3. N = Nat
    <3>1. N \in SUBSET Nat
      OBVIOUS
    <3>. HIDE DEF N
    <3>. QED
      BY <2>1, <2>2, <3>1, Induction
  <2>4. ASSUME NEW i \in 1..n PROVE F[i] = f[i]
    <3>1. i - 1 \in N
      <4>1. i - 1 \in Nat
        BY <1>1
      <4>. HIDE DEF N
      <4>. QED
        BY <2>3, <4>1
    <3>2. (i - 1) + 1 = i /\ i <= n
      BY <1>1
    <3>. QED
      BY <3>1, <3>2
  <2>. QED
    BY <2>4
<1>11. Joins(f, ss)
  BY <1>1, <1>6 DEF Joins, n
<1>12. FlattenSeq(ss) = f[n]
  BY <1>1, <1>2, <1>10
<1>. QED
  BY <1>5, <1>11, <1>12 DEF n

\* Of no sequence FlattenSeq makes the empty one.
LEMMA FlattenEmpty == FlattenSeq(<<>>) = <<>>
<1>. QED
  BY DEF FlattenSeq

\* One sequence more comes after the others.
LEMMA FlattenAdd ==
    ASSUME NEW S, NEW ss \in Seq(Seq(S)), NEW t \in Seq(S)
    PROVE  FlattenSeq(ss) \in Seq(S) /\ FlattenSeq(Append(ss, t)) = FlattenSeq(ss) \o t
<1>. DEFINE n == Len(ss)
            tt == Append(ss, t)
<1>1. /\ n \in Nat /\ tt \in Seq(Seq(S)) /\ Len(tt) = n + 1 /\ tt # <<>> /\ tt[n + 1] = t
      /\ \A i \in 1..n : tt[i] = ss[i] /\ ss[i] \in Seq(S)
  <2>1. n \in Nat /\ \A i \in 1..n : ss[i] \in Seq(S)
    OBVIOUS
  <2>. QED
    BY <2>1, Added
<1>. HIDE DEF tt
<1>2. PICK g \in [1..(n + 1) -> Seq(S)] : Joins(g, tt) /\ FlattenSeq(tt) = g[n + 1]
  <2>. HIDE DEF n
  <2>. QED
    BY <1>1, FlattenChain
<1>3. CASE ss = <<>>
  <2>1. n = 0 /\ FlattenSeq(ss) = <<>>
    BY <1>3, FlattenEmpty
  <2>2. g[1] = tt[1]
    BY <1>1, <1>2, <2>1 DEF Joins
  <2>3. FlattenSeq(tt) = t
    BY <1>1, <1>2, <2>1, <2>2
  <2>4. <<>> \in Seq(S) /\ <<>> \o t = t
    OBVIOUS
  <2>. QED
    BY <2>1, <2>3, <2>4 DEF tt
<1>4. CASE ss # <<>>
  <2>1. PICK f \in [1..n -> Seq(S)] : Joins(f, ss) /\ FlattenSeq(ss) = f[n]
    BY <1>4, FlattenChain
  <2>2. n \in Nat \ {0}
    BY <1>4
  <2>. HIDE DEF n
  <2>3. \A i \in 1..n : f[i] = IF i = 1 THEN ss[1] ELSE f[i - 1] \o ss[i]
    BY <2>1 DEF Joins, n
  <2>4. \A i \in 1..(n + 1) : g[i] = IF i = 1 THEN tt[1] ELSE g[i - 1] \o tt[i]
    BY <1>1, <1>2 DEF Joins
  <2>. DEFINE N == {k \in Nat : k + 1 <= n => g[k + 1] = f[k + 1]}
  <2>5. 0 \in N
    <3>1. 1 \in 1..n /\ 1 \in 1..(n + 1)
      BY <2>2
    <3>2. f[1] = ss[1] /\ g[1] = tt[1]
      BY <2>3, <2>4, <3>1
    <3>. QED
      BY <1>1, <3>1, <3>2
  <2>6. \A k \in N : k + 1 \in N
    <3>1. SUFFICES ASSUME NEW k \in N, (k + 1) + 1 <= n PROVE g[(k + 1) + 1] = f[(k + 1) + 1]
      OBVIOUS
    <3>. DEFINE i == (k + 1) + 1
    <3>2. i \in 1..n /\ i \in 1..(n + 1) /\ i # 1 /\ i - 1 = k + 1 /\ g[k + 1] = f[k + 1]
      BY <2>2, <3>1
    <3>. HIDE DEF i
    <3>3. f[i] = f[k + 1] \o ss[i] /\ g[i] = g[k + 1] \o tt[i]
      BY <2>3, <2>4, <3>2
    <3>4. g[i] = f[i]
      BY <1>1, <3>2, <3>3
    <3>. QED
      BY <3>4 DEF i
  <2>7. N = Nat
    <3>1. N \in SUBSET Nat
      OBVIOUS
    <3>. HIDE DEF N
    <3>. QED
      BY <2>5, <2>6, <3>1, Induction
  <2>8. g[n] = f[n]
    <3>1. n - 1 \in N
      <4>1. n - 1 \in Nat
        BY <2>2
      <4>. HIDE DEF N
      <4>. QED
        BY <2>7, <4>1
    <3>2. (n - 1) + 1 = n
      BY <2>2
    <3>. QED
      BY <3>1, <3>2
  <2>9. g[n + 1] = g[n] \o tt[n + 1]
    <3>1. n + 1 \in 1..(n + 1) /\ n + 1 # 1 /\ (n + 1) - 1 = n
      BY <2>2
    <3>. QED
      BY <2>4, <3>1
  <2>10. f[n] \in Seq(S)
    BY <2>1, <2>2
  <2>. QED
    BY <1>1, <1>2, <2>1, <2>8, <2>9, <2>10 DEF tt
<1>. QED
  BY <1>3, <1>4

\* A sequence over fewer elements is one over more.
LEMMA SeqWidens ==
    ASSUME NEW S, NEW T, S \subseteq T, NEW s \in Seq(S)
    PROVE  s \in Seq(T)
<1>1. PICK n \in Nat : s \in [1..n -> S]
  BY DEF Seq
<1>2. s \in [1..n -> T]
  BY <1>1
<1>. QED
  BY <1>2 DEF Seq

\* Joining does not depend on where one begins.
LEMMA JoinedAll ==
    ASSUME NEW S, NEW s \in Seq(S), NEW u \in Seq(S), NEW v \in Seq(S)
    PROVE  (s \o u) \o v = s \o (u \o v)
<1>. QED
  OBVIOUS

\* What a sequence is up to a place, and after it.
LEMMA Sides ==
    ASSUME NEW S, NEW s \in Seq(S), NEW i \in 1..Len(s)
    PROVE  /\ Before(s, i) \in Seq(S) /\ Len(Before(s, i)) = i - 1
           /\ \A j \in 1..(i - 1) : Before(s, i)[j] = s[j]
           /\ After(s, i) \in Seq(S) /\ Len(After(s, i)) = Len(s) - i
           /\ \A j \in 1..(Len(s) - i) : After(s, i)[j] = s[i + j]
           /\ SubSeq(s, 1, i) \in Seq(S) /\ Len(SubSeq(s, 1, i)) = i
           /\ \A j \in 1..i : SubSeq(s, 1, i)[j] = s[j]
<1>1. ASSUME NEW a \in 1..(Len(s) + 1), NEW b \in 0..Len(s), a <= b + 1
      PROVE  /\ SubSeq(s, a, b) \in Seq(S) /\ Len(SubSeq(s, a, b)) = b - a + 1
             /\ \A j \in 1..(b - a + 1) : SubSeq(s, a, b)[j] = s[a + j - 1]
  <2>1. a \in Nat \ {0} /\ b \in Nat /\ b <= Len(s) /\ Len(s) \in Nat
    OBVIOUS
  <2>2. Len(SubSeq(s, a, b)) = b - a + 1
    BY <1>1, <2>1
  <2>3. SubSeq(s, a, b) \in Seq(S)
    <3>1. \A j \in a..b : s[j] \in S
      BY <2>1
    <3>. QED
      BY <2>1, <3>1
  <2>4. ASSUME NEW j \in 1..(b - a + 1) PROVE SubSeq(s, a, b)[j] = s[a + j - 1]
    BY <1>1, <2>1
  <2>. QED
    BY <2>2, <2>3, <2>4
<1>. DEFINE n == Len(s)
<1>2. n \in Nat /\ i \in 1..n
  OBVIOUS
<1>3. /\ Before(s, i) \in Seq(S) /\ Len(Before(s, i)) = i - 1
      /\ \A j \in 1..(i - 1) : Before(s, i)[j] = s[j]
  <2>1. /\ SubSeq(s, 1, i - 1) \in Seq(S) /\ Len(SubSeq(s, 1, i - 1)) = (i - 1) - 1 + 1
        /\ \A j \in 1..((i - 1) - 1 + 1) : SubSeq(s, 1, i - 1)[j] = s[1 + j - 1]
    <3>1. 1 \in 1..(n + 1) /\ i - 1 \in 0..n /\ 1 <= (i - 1) + 1
      BY <1>2
    <3>. QED
      BY <1>1, <3>1
  <2>2. (i - 1) - 1 + 1 = i - 1 /\ \A j \in 1..(i - 1) : 1 + j - 1 = j
    BY <1>2
  <2>. QED
    BY <2>1, <2>2 DEF Before
<1>4. /\ After(s, i) \in Seq(S) /\ Len(After(s, i)) = n - i
      /\ \A j \in 1..(n - i) : After(s, i)[j] = s[i + j]
  <2>1. /\ SubSeq(s, i + 1, n) \in Seq(S) /\ Len(SubSeq(s, i + 1, n)) = n - (i + 1) + 1
        /\ \A j \in 1..(n - (i + 1) + 1) : SubSeq(s, i + 1, n)[j] = s[(i + 1) + j - 1]
    <3>1. i + 1 \in 1..(n + 1) /\ n \in 0..n /\ i + 1 <= n + 1
      BY <1>2
    <3>. QED
      BY <1>1, <3>1
  <2>2. n - (i + 1) + 1 = n - i /\ \A j \in 1..(n - i) : (i + 1) + j - 1 = i + j
    BY <1>2
  <2>. QED
    BY <2>1, <2>2 DEF After
<1>5. /\ SubSeq(s, 1, i) \in Seq(S) /\ Len(SubSeq(s, 1, i)) = i
      /\ \A j \in 1..i : SubSeq(s, 1, i)[j] = s[j]
  <2>1. /\ SubSeq(s, 1, i) \in Seq(S) /\ Len(SubSeq(s, 1, i)) = i - 1 + 1
        /\ \A j \in 1..(i - 1 + 1) : SubSeq(s, 1, i)[j] = s[1 + j - 1]
    <3>1. 1 \in 1..(n + 1) /\ i \in 0..n /\ 1 <= i + 1
      BY <1>2
    <3>. QED
      BY <1>1, <3>1
  <2>2. i - 1 + 1 = i /\ \A j \in 1..i : 1 + j - 1 = j
    BY <1>2
  <2>. QED
    BY <2>1, <2>2
<1>. QED
  BY <1>3, <1>4, <1>5
-----------------------------------------------------------------------------
(* Containers.                                                             *)

\* Picked, element by element: f[k] is what has been picked of the first k.
PickStep(out, x, S) == IF x \in S THEN Append(out, x) ELSE out
PicksTo(f, s, S) == f[0] = <<>> /\ \A k \in 1..Len(s) : f[k] = PickStep(f[k - 1], s[k], S)

\* A step of a pick gives a sequence of what was there.
LEMMA PickStepType ==
    ASSUME NEW T, NEW S, NEW out \in Seq(T), NEW x \in T
    PROVE  PickStep(out, x, S) \in Seq(T)
<1>. QED
  BY DEF PickStep

\* Picked is the last of a chain, one link for each element.
LEMMA PickedChain ==
    ASSUME NEW T, NEW Only, NEW q \in Seq(T)
    PROVE  \E f \in [0..Len(q) -> Seq(T)] : PicksTo(f, q, Only) /\ Picked(q, Only) = f[Len(q)]
<1>1. PICK n \in Nat : q \in [1..n -> T]
  BY DEF Seq
<1>2. Len(q) = n
  BY <1>1
<1>. DEFINE A == Seq(T)
            Op(out, i) == PickStep(out, q[i], Only)
            Body(h) == [s \in SUBSET (1..n) |-> IF s = {} THEN <<>> ELSE Op(h[s \ {Max(s)}], Max(s))]
            F == CHOOSE h : h = Body(h)
            step == [i \in 1..n |-> [out \in A |-> Op(out, i)]]
<1>3. Picked(q, Only) = F[1..n]
  BY <1>1 DEF Picked, FoldLeft, MapThenFoldSet, PickStep
<1>4. <<>> \in A /\ step \in [1..n -> [A -> A]]
  <2>1. ASSUME NEW i \in 1..n, NEW out \in A PROVE Op(out, i) \in A
    BY <1>1, PickStepType
  <2>. HIDE DEF Op
  <2>2. step \in [1..n -> [A -> A]]
    <3>. HIDE DEF A
    <3>. QED
      BY <2>1
  <2>3. <<>> \in A
    OBVIOUS
  <2>. QED
    BY <2>2, <2>3
<1>. HIDE DEF A, Op
<1>5. PICK iter \in [SUBSET (1..n) -> A] : FoldsTo(iter, 1..n, <<>>, step)
  <2>. HIDE DEF step
  <2>. QED
    BY <1>1, <1>4, FoldExists
<1>6. ASSUME NEW s \in SUBSET (1..n), s # {} PROVE Max(s) \in 1..n
  BY <1>1, <1>6, MaxInside
<1>7. iter = Body(iter)
  <2>1. ASSUME NEW s \in SUBSET (1..n) PROVE iter[s] = IF s = {} THEN <<>> ELSE Op(iter[s \ {Max(s)}], Max(s))
    <3>1. CASE s = {}
      BY <1>5, <3>1 DEF FoldsTo
    <3>2. CASE s # {}
      <4>1. s \ {Max(s)} \in SUBSET (1..n) /\ Max(s) \in 1..n
        BY <1>6, <3>2
      <4>2. iter[s] = step[Max(s)][iter[s \ {Max(s)}]]
        BY <1>5, <3>2 DEF FoldsTo
      <4>3. iter[s \ {Max(s)}] \in A
        BY <1>5, <4>1
      <4>. QED
        BY <3>2, <4>1, <4>2, <4>3
    <3>. QED
      BY <3>1, <3>2
  <2>. QED
    BY <1>5, <2>1
<1>8. F = Body(F)
  <2>. HIDE DEF Body
  <2>. QED
    BY <1>7
<1>9. \A s \in SUBSET (1..n) : F[s] = IF s = {} THEN <<>> ELSE Op(F[s \ {Max(s)}], Max(s))
  <2>1. \A h : \A s \in SUBSET (1..n) : Body(h)[s] = IF s = {} THEN <<>> ELSE Op(h[s \ {Max(s)}], Max(s))
    OBVIOUS
  <2>. HIDE DEF F, Body
  <2>. QED
    BY <1>8, <2>1
<1>. HIDE DEF F
<1>. DEFINE f == [k \in 0..n |-> F[1..k]]
<1>10. f[0] = <<>>
  <2>1. 1..0 = {}
    OBVIOUS
  <2>2. {} \in SUBSET (1..n) /\ 0 \in 0..n
    BY <1>1
  <2>3. F[{}] = <<>>
    BY <1>9, <2>2
  <2>. QED
    BY <2>1, <2>2, <2>3
<1>11. ASSUME NEW k \in 1..n PROVE f[k] = Op(f[k - 1], k)
  <2>1. k \in Nat \ {0} /\ k \in 0..n /\ k - 1 \in 0..n /\ 1..k \in SUBSET (1..n)
    BY <1>1
  <2>2. Max(1..k) = k /\ (1..k) \ {k} = 1..(k - 1) /\ 1..k # {}
    BY <2>1, MaxInterval
  <2>3. F[1..k] = Op(F[1..(k - 1)], k)
    BY <1>9, <2>1, <2>2
  <2>. QED
    BY <2>1, <2>3
<1>12. \A k \in 0..n : f[k] \in A
  <2>. DEFINE S == {k \in Nat : k <= n => f[k] \in A}
  <2>. HIDE DEF f
  <2>1. 0 \in S
    BY <1>4, <1>10
  <2>2. \A k \in S : k + 1 \in S
    <3>1. SUFFICES ASSUME NEW k \in Nat, k \in S, k + 1 <= n PROVE f[k + 1] \in A
      OBVIOUS
    <3>2. f[k] \in A /\ k + 1 \in 1..n /\ (k + 1) - 1 = k
      BY <1>1, <3>1
    <3>3. f[k + 1] = Op(f[k], k + 1)
      BY <1>11, <3>2
    <3>4. Op(f[k], k + 1) \in A
      <4>1. q[k + 1] \in T
        BY <1>1, <3>2
      <4>. QED
        BY <3>2, <4>1, PickStepType DEF A, Op
    <3>. QED
      BY <3>3, <3>4
  <2>3. S = Nat
    <3>1. S \in SUBSET Nat
      OBVIOUS
    <3>. HIDE DEF S
    <3>. QED
      BY <2>1, <2>2, <3>1, Induction
  <2>. QED
    BY <1>1, <2>3
<1>13. f \in [0..n -> A]
  BY <1>12
<1>14. f[n] = F[1..n]
  BY <1>1
<1>. HIDE DEF f
<1>15. PicksTo(f, q, Only)
  BY <1>2, <1>10, <1>11 DEF PicksTo, Op
<1>. QED
  BY <1>2, <1>3, <1>13, <1>14, <1>15 DEF A

\* One element more is picked or not.
LEMMA PickedAdd ==
    ASSUME NEW T, NEW Only, NEW s \in Seq(T), NEW x \in T
    PROVE  /\ Picked(s, Only) \in Seq(T)
           /\ Picked(Append(s, x), Only) = IF x \in Only THEN Append(Picked(s, Only), x) ELSE Picked(s, Only)
<1>. DEFINE n == Len(s)
            t == Append(s, x)
<1>1. n \in Nat /\ t \in Seq(T) /\ Len(t) = n + 1 /\ t[n + 1] = x /\ \A i \in 1..n : t[i] = s[i]
  BY Added
<1>. HIDE DEF t
<1>2. PICK f \in [0..n -> Seq(T)] : PicksTo(f, s, Only) /\ Picked(s, Only) = f[n]
  BY PickedChain
<1>3. PICK g \in [0..Len(t) -> Seq(T)] : PicksTo(g, t, Only) /\ Picked(t, Only) = g[Len(t)]
  BY <1>1, PickedChain
<1>4. f[0] = <<>> /\ \A k \in 1..n : f[k] = PickStep(f[k - 1], s[k], Only)
  BY <1>2 DEF PicksTo
<1>5. g[0] = <<>> /\ \A k \in 1..(n + 1) : g[k] = PickStep(g[k - 1], t[k], Only)
  BY <1>1, <1>3 DEF PicksTo
<1>. HIDE DEF n
<1>. DEFINE N == {k \in Nat : k <= n => g[k] = f[k]}
<1>6. 0 \in N
  BY <1>1, <1>4, <1>5
<1>7. \A k \in N : k + 1 \in N
  <2>1. SUFFICES ASSUME NEW k \in N, k + 1 <= n PROVE g[k + 1] = f[k + 1]
    OBVIOUS
  <2>2. k + 1 \in 1..n /\ k + 1 \in 1..(n + 1) /\ (k + 1) - 1 = k /\ g[k] = f[k]
    <3>1. k \in Nat /\ k <= n
      BY <1>1, <2>1
    <3>2. g[k] = f[k]
      BY <3>1
    <3>. QED
      BY <1>1, <2>1, <3>1, <3>2
  <2>3. f[k + 1] = PickStep(f[k], s[k + 1], Only) /\ g[k + 1] = PickStep(g[k], t[k + 1], Only)
    BY <1>4, <1>5, <2>2
  <2>. QED
    BY <1>1, <2>2, <2>3
<1>8. N = Nat
  <2>1. N \in SUBSET Nat
    OBVIOUS
  <2>. HIDE DEF N
  <2>. QED
    BY <1>6, <1>7, <2>1, Induction
<1>9. g[n] = f[n]
  <2>1. n \in N
    <3>. HIDE DEF N
    <3>. QED
      BY <1>1, <1>8
  <2>. QED
    BY <2>1
<1>10. g[n + 1] = PickStep(g[n], x, Only)
  <2>1. n + 1 \in 1..(n + 1) /\ (n + 1) - 1 = n
    BY <1>1
  <2>. QED
    BY <1>1, <1>5, <2>1
<1>11. f[n] \in Seq(T)
  BY <1>1, <1>2
<1>. QED
  BY <1>1, <1>2, <1>3, <1>9, <1>10, <1>11 DEF t, PickStep


\* Of nothing, nothing is picked.
LEMMA PickedEmpty == ASSUME NEW Only PROVE Picked(<<>>, Only) = <<>>
<1>1. PICK e \in Seq({}) : e = <<>> /\ Len(e) = 0
  <2>1. <<>> \in Seq({}) /\ Len(<<>>) = 0
    OBVIOUS
  <2>. QED
    BY <2>1
<1>2. PICK f \in [0..Len(e) -> Seq({})] : PicksTo(f, e, Only) /\ Picked(e, Only) = f[Len(e)]
  BY PickedChain
<1>. QED
  BY <1>1, <1>2 DEF PicksTo

\* Only whether an element is picked matters.
LEMMA PickedSame ==
    ASSUME NEW T, NEW s \in Seq(T), NEW S1, NEW S2, \A i \in 1..Len(s) : s[i] \in S1 <=> s[i] \in S2
    PROVE  Picked(s, S1) = Picked(s, S2)
<1>. DEFINE G == {u \in Seq(T) : (\A i \in 1..Len(u) : u[i] \in S1 <=> u[i] \in S2) => Picked(u, S1) = Picked(u, S2)}
<1>1. <<>> \in G
  BY PickedEmpty
<1>2. ASSUME NEW u \in Seq(T), u \in G, NEW x \in T PROVE Append(u, x) \in G
  <2>. DEFINE t == Append(u, x)
  <2>1. t \in Seq(T) /\ Len(t) = Len(u) + 1 /\ t[Len(u) + 1] = x /\ \A i \in 1..Len(u) : t[i] = u[i]
    BY Added
  <2>2. SUFFICES ASSUME \A i \in 1..Len(t) : t[i] \in S1 <=> t[i] \in S2 PROVE Picked(t, S1) = Picked(t, S2)
    BY <2>1
  <2>3. /\ Picked(t, S1) = IF x \in S1 THEN Append(Picked(u, S1), x) ELSE Picked(u, S1)
        /\ Picked(t, S2) = IF x \in S2 THEN Append(Picked(u, S2), x) ELSE Picked(u, S2)
    BY PickedAdd
  <2>. HIDE DEF t
  <2>4. (x \in S1 <=> x \in S2) /\ \A i \in 1..Len(u) : u[i] \in S1 <=> u[i] \in S2
    <3>1. Len(u) + 1 \in 1..Len(t) /\ \A i \in 1..Len(u) : i \in 1..Len(t)
      BY <2>1
    <3>. QED
      BY <2>1, <2>2, <3>1
  <2>5. Picked(u, S1) = Picked(u, S2)
    BY <1>2, <2>4
  <2>. QED
    BY <2>3, <2>4, <2>5
<1>3. \A u \in Seq(T) : u \in G
  <2>. HIDE DEF G
  <2>. QED
    BY <1>1, <1>2, SeqInduction
<1>. QED
  BY <1>3

\* Of elements none of which is meant nothing is picked, and of those all of which are, all.
LEMMA PickedNoneOrAll ==
    ASSUME NEW T, NEW s \in Seq(T), NEW Only
    PROVE  /\ (\A i \in 1..Len(s) : s[i] \notin Only) => Picked(s, Only) = <<>>
           /\ (\A i \in 1..Len(s) : s[i] \in Only) => Picked(s, Only) = s
<1>. DEFINE G == {u \in Seq(T) : /\ (\A i \in 1..Len(u) : u[i] \notin Only) => Picked(u, Only) = <<>>
                                 /\ (\A i \in 1..Len(u) : u[i] \in Only) => Picked(u, Only) = u}
<1>1. <<>> \in G
  BY PickedEmpty
<1>2. ASSUME NEW u \in Seq(T), u \in G, NEW x \in T PROVE Append(u, x) \in G
  <2>. DEFINE t == Append(u, x)
  <2>1. t \in Seq(T) /\ Len(t) = Len(u) + 1 /\ t[Len(u) + 1] = x /\ \A i \in 1..Len(u) : t[i] = u[i]
    BY Added
  <2>2. Picked(t, Only) = IF x \in Only THEN Append(Picked(u, Only), x) ELSE Picked(u, Only)
    BY PickedAdd
  <2>3. Len(u) + 1 \in 1..Len(t) /\ \A i \in 1..Len(u) : i \in 1..Len(t)
    BY <2>1
  <2>4. (\A i \in 1..Len(t) : t[i] \notin Only) => Picked(t, Only) = <<>>
    <3>1. SUFFICES ASSUME \A i \in 1..Len(t) : t[i] \notin Only PROVE Picked(t, Only) = <<>>
      OBVIOUS
    <3>. HIDE DEF t
    <3>2. x \notin Only /\ \A i \in 1..Len(u) : u[i] \notin Only
      BY <2>1, <2>3, <3>1
    <3>. QED
      BY <1>2, <2>2, <3>2
  <2>5. (\A i \in 1..Len(t) : t[i] \in Only) => Picked(t, Only) = t
    <3>1. SUFFICES ASSUME \A i \in 1..Len(t) : t[i] \in Only PROVE Picked(t, Only) = t
      OBVIOUS
    <3>. HIDE DEF t
    <3>2. x \in Only /\ \A i \in 1..Len(u) : u[i] \in Only
      BY <2>1, <2>3, <3>1
    <3>3. Picked(u, Only) = u
      BY <1>2, <3>2
    <3>. QED
      BY <2>2, <3>2, <3>3 DEF t
  <2>. HIDE DEF t
  <2>. QED
    BY <2>1, <2>4, <2>5 DEF t
<1>3. \A u \in Seq(T) : u \in G
  <2>. HIDE DEF G
  <2>. QED
    BY <1>1, <1>2, SeqInduction
<1>4. s \in G
  <2>. HIDE DEF G
  <2>. QED
    BY <1>3
<1>. QED
  BY <1>4

\* Of two sequences one after the other, what is picked of each.
LEMMA PickedJoined ==
    ASSUME NEW T, NEW Only, NEW s \in Seq(T), NEW v \in Seq(T)
    PROVE  Picked(s \o v, Only) = Picked(s, Only) \o Picked(v, Only)
<1>. DEFINE G == {u \in Seq(T) : Picked(s \o u, Only) = Picked(s, Only) \o Picked(u, Only)}
<1>0. \A u \in Seq(T) : Picked(u, Only) \in Seq(T)
  <2>1. SUFFICES ASSUME NEW u \in Seq(T) PROVE Picked(u, Only) \in Seq(T)
    OBVIOUS
  <2>2. PICK f \in [0..Len(u) -> Seq(T)] : Picked(u, Only) = f[Len(u)]
    BY PickedChain
  <2>3. Len(u) \in 0..Len(u)
    OBVIOUS
  <2>. QED
    BY <2>2, <2>3
<1>1. <<>> \in G
  <2>1. <<>> \in Seq(T) /\ s \o <<>> = s
    OBVIOUS
  <2>2. Picked(s, Only) \o <<>> = Picked(s, Only)
    <3>. DEFINE ps == Picked(s, Only)
    <3>1. ps \in Seq(T)
      BY <1>0
    <3>. HIDE DEF ps
    <3>. QED
      BY <3>1 DEF ps
  <2>. QED
    BY <2>1, <2>2, PickedEmpty
<1>2. ASSUME NEW u \in Seq(T), u \in G, NEW x \in T PROVE Append(u, x) \in G
  <2>. DEFINE ps == Picked(s, Only)
              pu == Picked(u, Only)
  <2>1. ps \in Seq(T) /\ pu \in Seq(T) /\ s \o u \in Seq(T) /\ Append(u, x) \in Seq(T)
    BY <1>0, Added, Joined
  <2>2. s \o Append(u, x) = Append(s \o u, x)
    OBVIOUS
  <2>3. /\ Picked(Append(s \o u, x), Only) = IF x \in Only THEN Append(Picked(s \o u, Only), x) ELSE Picked(s \o u, Only)
        /\ Picked(Append(u, x), Only) = IF x \in Only THEN Append(pu, x) ELSE pu
    <3>1. s \o u \in Seq(T)
      BY <2>1
    <3>2. ASSUME NEW w \in Seq(T)
          PROVE  Picked(Append(w, x), Only) = IF x \in Only THEN Append(Picked(w, Only), x) ELSE Picked(w, Only)
      BY PickedAdd
    <3>. QED
      BY <3>1, <3>2
  <2>4. Picked(s \o u, Only) = ps \o pu
    BY <1>2
  <2>. HIDE DEF ps, pu
  <2>5. ps \o Append(pu, x) = Append(ps \o pu, x)
    BY <2>1
  <2>6. Picked(s \o Append(u, x), Only) = ps \o Picked(Append(u, x), Only)
    BY <2>2, <2>3, <2>4, <2>5
  <2>. QED
    BY <2>1, <2>6 DEF ps
<1>3. \A u \in Seq(T) : u \in G
  <2>. HIDE DEF G
  <2>. QED
    BY <1>1, <1>2, SeqInduction
<1>. QED
  BY <1>3

\* What is picked is of the elements.
LEMMA PickedType ==
    ASSUME NEW T, NEW Only, NEW s \in Seq(T)
    PROVE  Picked(s, Only) \in Seq(T)
<1>1. PICK f \in [0..Len(s) -> Seq(T)] : Picked(s, Only) = f[Len(s)]
  BY PickedChain
<1>2. Len(s) \in 0..Len(s)
  OBVIOUS
<1>. QED
  BY <1>1, <1>2

\* A prefix is the one before it with one more element.
LEMMA PrefixAdd ==
    ASSUME NEW T, NEW s \in Seq(T), NEW k \in 1..Len(s)
    PROVE  /\ SubSeq(s, 1, k - 1) \in Seq(T) /\ s[k] \in T
           /\ SubSeq(s, 1, k) = Append(SubSeq(s, 1, k - 1), s[k])
<1>. DEFINE h == SubSeq(s, 1, k)
            b == Before(s, k)
            ab == Append(b, s[k])
<1>1. k \in Nat \ {0} /\ s[k] \in T
  OBVIOUS
<1>2. /\ b \in Seq(T) /\ Len(b) = k - 1 /\ \A j \in 1..(k - 1) : b[j] = s[j]
      /\ h \in Seq(T) /\ Len(h) = k /\ \A j \in 1..k : h[j] = s[j]
  BY Sides
<1>3. ab \in Seq(T) /\ Len(ab) = Len(b) + 1 /\ ab[Len(b) + 1] = s[k] /\ \A j \in 1..Len(b) : ab[j] = b[j]
  BY <1>1, <1>2, Added
<1>. HIDE DEF h, b, ab
<1>4. Len(ab) = k /\ ab[k] = s[k] /\ \A j \in 1..(k - 1) : ab[j] = s[j]
  BY <1>1, <1>2, <1>3
<1>5. \A j \in 1..k : h[j] = ab[j]
  <2>1. SUFFICES ASSUME NEW j \in 1..k PROVE h[j] = ab[j]
    OBVIOUS
  <2>2. CASE j = k
    BY <1>2, <1>4, <2>2
  <2>3. CASE j # k
    <3>1. j \in 1..(k - 1)
      BY <1>1, <2>3
    <3>. QED
      BY <1>2, <1>4, <3>1
  <2>. QED
    BY <2>2, <2>3
<1>6. h = ab
  BY <1>2, <1>3, <1>4, <1>5
<1>. QED
  BY <1>1, <1>2, <1>6 DEF h, ab, b, Before

\* A sequence is a prefix of it and the rest.
LEMMA PrefixAndRest ==
    ASSUME NEW T, NEW s \in Seq(T), NEW k \in 1..Len(s)
    PROVE  s = SubSeq(s, 1, k) \o After(s, k)
<1>. DEFINE h == SubSeq(s, 1, k)
            a == After(s, k)
            ha == h \o a
            n == Len(s)
<1>1. n \in Nat /\ k \in 1..n
  OBVIOUS
<1>2. /\ a \in Seq(T) /\ Len(a) = n - k /\ \A j \in 1..(n - k) : a[j] = s[k + j]
      /\ h \in Seq(T) /\ Len(h) = k /\ \A j \in 1..k : h[j] = s[j]
  BY Sides
<1>. HIDE DEF h, a
<1>3. /\ ha \in Seq(T) /\ Len(ha) = Len(h) + Len(a)
      /\ \A i \in 1..Len(h) : ha[i] = h[i]
      /\ \A i \in 1..Len(a) : ha[Len(h) + i] = a[i]
  <2>1. h \in Seq(T) /\ a \in Seq(T)
    BY <1>2
  <2>. QED
    BY <2>1, Joined
<1>. HIDE DEF ha
<1>4. Len(ha) = n /\ \A i \in 1..k : ha[i] = s[i]
  BY <1>1, <1>2, <1>3
<1>5. \A i \in 1..(n - k) : ha[k + i] = s[k + i]
  BY <1>2, <1>3
<1>. HIDE DEF n
<1>6. \A i \in 1..n : ha[i] = s[i]
  <2>1. SUFFICES ASSUME NEW i \in 1..n PROVE ha[i] = s[i]
    OBVIOUS
  <2>2. CASE i <= k
    <3>1. i \in 1..k
      BY <1>1, <2>2
    <3>. QED
      BY <1>4, <3>1
  <2>3. CASE ~(i <= k)
    <3>1. i - k \in 1..(n - k) /\ k + (i - k) = i
      BY <1>1, <2>3
    <3>. QED
      BY <1>5, <3>1
  <2>. QED
    BY <2>2, <2>3
<1>7. ha = s
  BY <1>3, <1>4, <1>6 DEF n
<1>. QED
  BY <1>7 DEF ha, h, a

\* An element that is meant is picked, after those picked before it.
LEMMA PickedRank ==
    ASSUME NEW T, NEW Only, NEW s \in Seq(T), NEW k \in 1..Len(s), s[k] \in Only
    PROVE  /\ Len(Picked(SubSeq(s, 1, k), Only)) \in 1..Len(Picked(s, Only))
           /\ Picked(s, Only)[Len(Picked(SubSeq(s, 1, k), Only))] = s[k]
<1>. DEFINE h == SubSeq(s, 1, k)
            a == After(s, k)
            b == SubSeq(s, 1, k - 1)
            ph == Picked(h, Only)
            pa == Picked(a, Only)
            pb == Picked(b, Only)
            ps == Picked(s, Only)
<1>1. h \in Seq(T) /\ a \in Seq(T)
  BY Sides
<1>2. b \in Seq(T) /\ s[k] \in T /\ h = Append(b, s[k])
  BY PrefixAdd
<1>3. s = h \o a
  BY PrefixAndRest
<1>. HIDE DEF h, a, b
<1>4. ps = ph \o pa
  BY <1>1, <1>3, PickedJoined
<1>5. ph = Append(pb, s[k])
  <2>1. Picked(Append(b, s[k]), Only) = IF s[k] \in Only THEN Append(Picked(b, Only), s[k]) ELSE Picked(b, Only)
    BY <1>2, PickedAdd
  <2>. QED
    BY <1>2, <2>1
<1>6. ph \in Seq(T) /\ pa \in Seq(T) /\ pb \in Seq(T)
  BY <1>1, <1>2, PickedType
<1>. HIDE DEF ph, pa, pb, ps
<1>7. Len(ph) = Len(pb) + 1 /\ ph[Len(pb) + 1] = s[k]
  BY <1>2, <1>5, <1>6, Added
<1>8. Len(ps) = Len(ph) + Len(pa) /\ \A i \in 1..Len(ph) : ps[i] = ph[i]
  <2>1. Len(ph \o pa) = Len(ph) + Len(pa) /\ \A i \in 1..Len(ph) : (ph \o pa)[i] = ph[i]
    BY <1>6, Joined
  <2>. QED
    BY <1>4, <2>1
<1>9. Len(ph) \in Nat /\ Len(pa) \in Nat /\ Len(pb) \in Nat
  BY <1>6
<1>10. Len(ph) \in 1..Len(ps) /\ Len(ph) \in 1..Len(ph)
  BY <1>7, <1>8, <1>9
<1>. QED
  BY <1>7, <1>8, <1>10 DEF ph, ps, h

\* Of blocks one after the other, one of which is meant and the others are not, that one is picked.
OnlyBlock(blocks, Only, b) ==
    \A i \in 1..Len(blocks) : \A k \in 1..Len(blocks[i]) : blocks[i][k] \in Only <=> i = b
\* Where one block alone holds what is picked, and nothing else, that block is picked whole.
LEMMA PickedBlock ==
    ASSUME NEW T, NEW Only, NEW blocks \in Seq(Seq(T)), NEW b \in Nat, OnlyBlock(blocks, Only, b)
    PROVE  Picked(FlattenSeq(blocks), Only) = IF b \in 1..Len(blocks) THEN blocks[b] ELSE <<>>
<1>. DEFINE Goal(bs) == OnlyBlock(bs, Only, b) => Picked(FlattenSeq(bs), Only) = IF b \in 1..Len(bs) THEN bs[b] ELSE <<>>
            G == {bs \in Seq(Seq(T)) : Goal(bs)}
<1>1. <<>> \in G
  <2>1. Len(<<>>) = 0 /\ b \notin 1..0 /\ <<>> \in Seq(Seq(T))
    OBVIOUS
  <2>. QED
    BY <2>1, FlattenEmpty, PickedEmpty
<1>2. ASSUME NEW bs \in Seq(Seq(T)), bs \in G, NEW x \in Seq(T) PROVE Append(bs, x) \in G
  <2>. DEFINE t == Append(bs, x)
              n == Len(bs)
  <2>1. n \in Nat /\ t \in Seq(Seq(T)) /\ Len(t) = n + 1 /\ t[n + 1] = x /\ \A i \in 1..n : t[i] = bs[i]
    BY Added
  <2>2. SUFFICES ASSUME OnlyBlock(t, Only, b)
                 PROVE  Picked(FlattenSeq(t), Only) = IF b \in 1..Len(t) THEN t[b] ELSE <<>>
    BY <2>1
  <2>3. FlattenSeq(bs) \in Seq(T) /\ FlattenSeq(t) = FlattenSeq(bs) \o x
    BY FlattenAdd
  <2>4. Picked(FlattenSeq(t), Only) = Picked(FlattenSeq(bs), Only) \o Picked(x, Only)
    BY <2>3, PickedJoined
  <2>5. Goal(bs)
    BY <1>2
  <2>. HIDE DEF t
  <2>6. OnlyBlock(bs, Only, b) /\ \A k \in 1..Len(x) : x[k] \in Only <=> n + 1 = b
    <3>1. n + 1 \in 1..Len(t) /\ \A i \in 1..n : i \in 1..Len(t)
      BY <2>1
    <3>2. \A k \in 1..Len(x) : x[k] \in Only <=> n + 1 = b
      <4>1. \A k \in 1..Len(t[n + 1]) : t[n + 1][k] \in Only <=> n + 1 = b
        BY <2>2, <3>1 DEF OnlyBlock
      <4>. QED
        BY <2>1, <4>1
    <3>3. ASSUME NEW i \in 1..n, NEW k \in 1..Len(bs[i]) PROVE bs[i][k] \in Only <=> i = b
      <4>1. \A m \in 1..Len(t[i]) : t[i][m] \in Only <=> i = b
        BY <2>2, <3>1 DEF OnlyBlock
      <4>. QED
        BY <2>1, <4>1
    <3>. QED
      BY <3>2, <3>3 DEF OnlyBlock
  <2>7. Picked(FlattenSeq(bs), Only) = IF b \in 1..n THEN bs[b] ELSE <<>>
    BY <2>5, <2>6
  <2>8. CASE b = n + 1
    <3>1. Picked(x, Only) = x
      BY <2>6, <2>8, PickedNoneOrAll
    <3>2. b \notin 1..n /\ b \in 1..Len(t)
      BY <2>1, <2>8
    <3>3. <<>> \o x = x
      OBVIOUS
    <3>. QED
      BY <2>1, <2>4, <2>7, <2>8, <3>1, <3>2, <3>3
  <2>9. CASE b # n + 1
    <3>1. Picked(x, Only) = <<>>
      BY <2>6, <2>9, PickedNoneOrAll
    <3>2. b \in 1..n <=> b \in 1..Len(t)
      BY <2>1, <2>9
    <3>. DEFINE y == IF b \in 1..n THEN bs[b] ELSE <<>>
    <3>3. y \in Seq(T)
      <4>1. b \in 1..n => bs[b] \in Seq(T)
        OBVIOUS
      <4>2. <<>> \in Seq(T)
        OBVIOUS
      <4>. QED
        BY <4>1, <4>2
    <3>4. y \o <<>> = y
      <4>. HIDE DEF y
      <4>. QED
        BY <3>3
    <3>. HIDE DEF n
    <3>5. Picked(FlattenSeq(t), Only) = y
      <4>. HIDE DEF y
      <4>1. Picked(FlattenSeq(bs), Only) = y
        BY <2>7 DEF y
      <4>. QED
        BY <2>4, <3>1, <3>4, <4>1
    <3>. QED
      BY <2>1, <3>2, <3>5
  <2>. QED
    BY <2>8, <2>9
<1>3. \A bs \in Seq(Seq(T)) : bs \in G
  <2>. HIDE DEF G
  <2>. QED
    BY <1>1, <1>2, SeqInduction
<1>4. Goal(blocks)
  <2>1. blocks \in G
    <3>. HIDE DEF G
    <3>. QED
      BY <1>3
  <2>. QED
    BY <2>1
<1>. QED
  BY <1>4

\* A section of a container; WordsFrom is how many words lie before what follows them.
Sections == [t : Nat, words : Seq(Nat)]
WordsFrom(start, s) == FoldLeft(LAMBDA n, x : n + Len(x.words), start, s)
CountsTo(f, s, start) == f[0] = start /\ \A k \in 1..Len(s) : f[k] = f[k - 1] + Len(s[k].words)

\* The words of sections are the last of a chain, one link for each section.
LEMMA WordsChain ==
    ASSUME NEW q \in Seq(Sections), NEW start \in Nat
    PROVE  \E f \in [0..Len(q) -> Nat] : CountsTo(f, q, start) /\ WordsFrom(start, q) = f[Len(q)]
<1>1. PICK n \in Nat : q \in [1..n -> Sections]
  BY DEF Seq
<1>2. Len(q) = n
  BY <1>1
<1>. DEFINE A == Nat
            Op(out, i) == out + Len(q[i].words)
            Body(h) == [s \in SUBSET (1..n) |-> IF s = {} THEN start ELSE Op(h[s \ {Max(s)}], Max(s))]
            F == CHOOSE h : h = Body(h)
            step == [i \in 1..n |-> [out \in A |-> Op(out, i)]]
<1>3. WordsFrom(start, q) = F[1..n]
  BY <1>1 DEF WordsFrom, FoldLeft, MapThenFoldSet
<1>4. start \in A /\ step \in [1..n -> [A -> A]]
  <2>1. ASSUME NEW i \in 1..n, NEW out \in A PROVE Op(out, i) \in A
    BY <1>1 DEF Sections
  <2>. HIDE DEF Op
  <2>2. step \in [1..n -> [A -> A]]
    <3>. HIDE DEF A
    <3>. QED
      BY <2>1
  <2>3. start \in A
    OBVIOUS
  <2>. QED
    BY <2>2, <2>3
<1>. HIDE DEF A, Op
<1>5. PICK iter \in [SUBSET (1..n) -> A] : FoldsTo(iter, 1..n, start, step)
  <2>. HIDE DEF step
  <2>. QED
    BY <1>1, <1>4, FoldExists
<1>6. ASSUME NEW s \in SUBSET (1..n), s # {} PROVE Max(s) \in 1..n
  BY <1>1, <1>6, MaxInside
<1>7. iter = Body(iter)
  <2>1. ASSUME NEW s \in SUBSET (1..n) PROVE iter[s] = IF s = {} THEN start ELSE Op(iter[s \ {Max(s)}], Max(s))
    <3>1. CASE s = {}
      BY <1>5, <3>1 DEF FoldsTo
    <3>2. CASE s # {}
      <4>1. s \ {Max(s)} \in SUBSET (1..n) /\ Max(s) \in 1..n
        BY <1>6, <3>2
      <4>2. iter[s] = step[Max(s)][iter[s \ {Max(s)}]]
        BY <1>5, <3>2 DEF FoldsTo
      <4>3. iter[s \ {Max(s)}] \in A
        BY <1>5, <4>1
      <4>. QED
        BY <3>2, <4>1, <4>2, <4>3
    <3>. QED
      BY <3>1, <3>2
  <2>. QED
    BY <1>5, <2>1
<1>8. F = Body(F)
  <2>. HIDE DEF Body
  <2>. QED
    BY <1>7
<1>9. \A s \in SUBSET (1..n) : F[s] = IF s = {} THEN start ELSE Op(F[s \ {Max(s)}], Max(s))
  <2>1. \A h : \A s \in SUBSET (1..n) : Body(h)[s] = IF s = {} THEN start ELSE Op(h[s \ {Max(s)}], Max(s))
    OBVIOUS
  <2>. HIDE DEF F, Body
  <2>. QED
    BY <1>8, <2>1
<1>. HIDE DEF F
<1>. DEFINE f == [k \in 0..n |-> F[1..k]]
<1>10. f[0] = start
  <2>1. 1..0 = {}
    OBVIOUS
  <2>2. {} \in SUBSET (1..n) /\ 0 \in 0..n
    BY <1>1
  <2>3. F[{}] = start
    BY <1>9, <2>2
  <2>. QED
    BY <2>1, <2>2, <2>3
<1>11. ASSUME NEW k \in 1..n PROVE f[k] = Op(f[k - 1], k)
  <2>1. k \in Nat \ {0} /\ k \in 0..n /\ k - 1 \in 0..n /\ 1..k \in SUBSET (1..n)
    BY <1>1
  <2>2. Max(1..k) = k /\ (1..k) \ {k} = 1..(k - 1) /\ 1..k # {}
    BY <2>1, MaxInterval
  <2>3. F[1..k] = Op(F[1..(k - 1)], k)
    BY <1>9, <2>1, <2>2
  <2>. QED
    BY <2>1, <2>3
<1>12. \A k \in 0..n : f[k] \in A
  <2>. DEFINE S == {k \in Nat : k <= n => f[k] \in A}
  <2>. HIDE DEF f
  <2>1. 0 \in S
    BY <1>4, <1>10
  <2>2. \A k \in S : k + 1 \in S
    <3>1. SUFFICES ASSUME NEW k \in Nat, k \in S, k + 1 <= n PROVE f[k + 1] \in A
      OBVIOUS
    <3>2. f[k] \in A /\ k + 1 \in 1..n /\ (k + 1) - 1 = k
      BY <1>1, <3>1
    <3>3. f[k + 1] = Op(f[k], k + 1)
      BY <1>11, <3>2
    <3>4. Op(f[k], k + 1) \in A
      <4>1. q[k + 1] \in Sections
        BY <1>1, <3>2
      <4>. QED
        BY <3>2, <4>1 DEF A, Op, Sections
    <3>. QED
      BY <3>3, <3>4
  <2>3. S = Nat
    <3>1. S \in SUBSET Nat
      OBVIOUS
    <3>. HIDE DEF S
    <3>. QED
      BY <2>1, <2>2, <3>1, Induction
  <2>. QED
    BY <1>1, <2>3
<1>13. f \in [0..n -> A]
  BY <1>12
<1>14. f[n] = F[1..n]
  BY <1>1
<1>. HIDE DEF f
<1>15. CountsTo(f, q, start)
  BY <1>2, <1>10, <1>11 DEF CountsTo, Op
<1>. QED
  BY <1>2, <1>3, <1>13, <1>14, <1>15 DEF A

\* A section more ends as many words later as it has.
LEMMA WordsAdd ==
    ASSUME NEW s \in Seq(Sections), NEW x \in Sections, NEW start \in Nat
    PROVE  /\ WordsFrom(start, s) \in Nat
           /\ WordsFrom(start, Append(s, x)) = WordsFrom(start, s) + Len(x.words)
<1>. DEFINE n == Len(s)
            t == Append(s, x)
<1>1. n \in Nat /\ t \in Seq(Sections) /\ Len(t) = n + 1 /\ t[n + 1] = x /\ \A i \in 1..n : t[i] = s[i]
  BY Added
<1>. HIDE DEF t
<1>2. PICK f \in [0..n -> Nat] : CountsTo(f, s, start) /\ WordsFrom(start, s) = f[n]
  BY WordsChain
<1>3. PICK g \in [0..Len(t) -> Nat] : CountsTo(g, t, start) /\ WordsFrom(start, t) = g[Len(t)]
  BY <1>1, WordsChain
<1>4. f[0] = start /\ \A k \in 1..n : f[k] = f[k - 1] + Len(s[k].words)
  BY <1>2 DEF CountsTo
<1>5. g[0] = start /\ \A k \in 1..(n + 1) : g[k] = g[k - 1] + Len(t[k].words)
  BY <1>1, <1>3 DEF CountsTo
<1>. HIDE DEF n
<1>. DEFINE N == {k \in Nat : k <= n => g[k] = f[k]}
<1>6. 0 \in N
  BY <1>1, <1>4, <1>5
<1>7. \A k \in N : k + 1 \in N
  <2>1. SUFFICES ASSUME NEW k \in N, k + 1 <= n PROVE g[k + 1] = f[k + 1]
    OBVIOUS
  <2>2. k + 1 \in 1..n /\ k + 1 \in 1..(n + 1) /\ (k + 1) - 1 = k /\ g[k] = f[k]
    <3>1. k \in Nat /\ k <= n
      BY <1>1, <2>1
    <3>2. g[k] = f[k]
      BY <3>1
    <3>. QED
      BY <1>1, <2>1, <3>1, <3>2
  <2>3. f[k + 1] = f[k] + Len(s[k + 1].words) /\ g[k + 1] = g[k] + Len(t[k + 1].words)
    BY <1>4, <1>5, <2>2
  <2>. QED
    BY <1>1, <2>2, <2>3
<1>8. N = Nat
  <2>1. N \in SUBSET Nat
    OBVIOUS
  <2>. HIDE DEF N
  <2>. QED
    BY <1>6, <1>7, <2>1, Induction
<1>9. g[n] = f[n]
  <2>1. n \in N
    <3>. HIDE DEF N
    <3>. QED
      BY <1>1, <1>8
  <2>. QED
    BY <2>1
<1>10. g[n + 1] = g[n] + Len(x.words)
  <2>1. n + 1 \in 1..(n + 1) /\ (n + 1) - 1 = n
    BY <1>1
  <2>. QED
    BY <1>1, <1>5, <2>1
<1>11. f[n] \in Nat
  BY <1>1, <1>2
<1>. QED
  BY <1>1, <1>2, <1>3, <1>9, <1>10, <1>11 DEF t


\* No sections have no words.
LEMMA WordsNone ==
    ASSUME NEW start \in Nat
    PROVE  WordsFrom(start, <<>>) = start
<1>1. PICK e \in Seq(Sections) : e = <<>> /\ Len(e) = 0
  <2>1. <<>> \in Seq(Sections) /\ Len(<<>>) = 0
    OBVIOUS
  <2>. QED
    BY <2>1
<1>2. PICK f \in [0..Len(e) -> Nat] : CountsTo(f, e, start) /\ WordsFrom(start, e) = f[Len(e)]
  BY WordsChain
<1>. QED
  BY <1>1, <1>2 DEF CountsTo

\* Sections end one after the other, the first after the header.
LEMMA EndIs ==
    ASSUME NEW c \in Seq(Sections)
    PROVE  /\ Header(c) \in Nat /\ Header(c) >= 2 /\ End(c, 0) = Header(c)
           /\ \A k \in 0..Len(c) : End(c, k) \in Nat
           /\ \A k \in 1..Len(c) : End(c, k) >= End(c, k - 1)
<1>1. Header(c) \in Nat /\ Header(c) >= 2
  <2>1. Len(c) \in Nat
    OBVIOUS
  <2>. QED
    BY <2>1 DEF Header
<1>2. \A k : End(c, k) = WordsFrom(Header(c), SubSeq(c, 1, k))
  BY DEF End, WordsFrom
<1>3. End(c, 0) = Header(c)
  <2>1. SubSeq(c, 1, 0) = <<>>
    OBVIOUS
  <2>. QED
    BY <1>1, <1>2, <2>1, WordsNone
<1>4. ASSUME NEW k \in 1..Len(c)
      PROVE  End(c, k - 1) \in Nat /\ End(c, k) \in Nat /\ End(c, k) >= End(c, k - 1)
  <2>. DEFINE h == SubSeq(c, 1, k - 1)
  <2>1. h \in Seq(Sections) /\ c[k] \in Sections /\ SubSeq(c, 1, k) = Append(h, c[k])
    BY PrefixAdd
  <2>. HIDE DEF h
  <2>2. /\ WordsFrom(Header(c), h) \in Nat
        /\ WordsFrom(Header(c), Append(h, c[k])) = WordsFrom(Header(c), h) + Len(c[k].words)
    BY <1>1, <2>1, WordsAdd
  <2>3. Len(c[k].words) \in Nat
    BY <2>1 DEF Sections
  <2>4. End(c, k - 1) = WordsFrom(Header(c), h) /\ End(c, k) = WordsFrom(Header(c), h) + Len(c[k].words)
    BY <1>2, <2>1, <2>2 DEF h
  <2>. QED
    BY <2>2, <2>3, <2>4
<1>5. ASSUME NEW k \in 0..Len(c) PROVE End(c, k) \in Nat
  <2>1. CASE k = 0
    BY <1>1, <1>3, <2>1
  <2>2. CASE k # 0
    <3>1. k \in 1..Len(c)
      BY <2>2
    <3>. QED
      BY <1>4, <3>1
  <2>. QED
    BY <2>1, <2>2
<1>. QED
  BY <1>1, <1>3, <1>4, <1>5

\* None ends after the last, nor before the header.
LEMMA EndsBetween ==
    ASSUME NEW c \in Seq(Sections)
    PROVE  \A k \in 0..Len(c) : Header(c) <= End(c, k) /\ End(c, k) <= Words(c)
<1>. DEFINE n == Len(c)
            e == [k \in 0..n |-> End(c, k)]
<1>1. /\ n \in Nat /\ \A k \in 0..n : e[k] \in Nat
      /\ \A k \in 1..n : e[k] >= e[k - 1]
      /\ e[0] = Header(c) /\ e[n] = Words(c)
  <2>1. n \in Nat /\ \A k \in 1..n : k \in 0..n /\ k - 1 \in 0..n
    OBVIOUS
  <2>2. 0 \in 0..n /\ n \in 0..n
    BY <2>1
  <2>3. \A k \in 1..n : End(c, k) >= End(c, k - 1)
    BY EndIs
  <2>4. \A k \in 0..n : End(c, k) \in Nat
    BY EndIs
  <2>. HIDE DEF n
  <2>5. \A k \in 0..n : e[k] = End(c, k)
    OBVIOUS
  <2>. HIDE DEF e
  <2>6. \A k \in 1..n : e[k] >= e[k - 1]
    BY <2>1, <2>3, <2>5
  <2>7. e[0] = Header(c) /\ e[n] = Words(c)
    BY <2>2, <2>5, EndIs DEF Words, n
  <2>. QED
    BY <2>1, <2>4, <2>5, <2>6, <2>7
<1>. HIDE DEF n, e
<1>. DEFINE Rises(d) == \A k \in 0..n : k + d <= n => e[k] <= e[k + d]
            Up == {d \in Nat : Rises(d)}
<1>2. Up = Nat
  <2>1. 0 \in Up
    <3>1. \A k \in 0..n : k + 0 = k /\ e[k] <= e[k]
      BY <1>1
    <3>. QED
      BY <3>1
  <2>2. ASSUME NEW d \in Nat, Rises(d) PROVE Rises(d + 1)
    <3>1. SUFFICES ASSUME NEW k \in 0..n, k + (d + 1) <= n PROVE e[k] <= e[k + (d + 1)]
      OBVIOUS
    <3>2. k + d <= n /\ k + d \in 0..n /\ k + (d + 1) \in 1..n /\ (k + (d + 1)) - 1 = k + d
      BY <1>1, <3>1
    <3>3. e[k] <= e[k + d]
      BY <2>2, <3>2
    <3>4. e[k + (d + 1)] >= e[k + d]
      BY <1>1, <3>2
    <3>5. e[k] \in Nat /\ e[k + d] \in Nat /\ e[k + (d + 1)] \in Nat
      <4>1. k + (d + 1) \in 0..n
        BY <1>1, <3>2
      <4>. QED
        BY <1>1, <3>2, <4>1
    <3>. QED
      BY <3>3, <3>4, <3>5
  <2>4. \A d \in Up : d + 1 \in Up
    <3>. HIDE DEF Rises
    <3>. QED
      BY <2>2
  <2>3. Up \in SUBSET Nat
    OBVIOUS
  <2>. HIDE DEF Up
  <2>. QED
    BY <2>1, <2>4, <2>3, Induction
<1>3. ASSUME NEW i \in 0..n, NEW j \in 0..n, i <= j PROVE e[i] <= e[j]
  <2>1. j - i \in Nat /\ i + (j - i) = j /\ j <= n
    BY <1>1, <1>3
  <2>2. j - i \in Up
    <3>. HIDE DEF Up
    <3>. QED
      BY <1>2, <2>1
  <2>3. i + (j - i) <= n => e[i] <= e[i + (j - i)]
    BY <2>2
  <2>. QED
    BY <2>1, <2>3
<1>4. ASSUME NEW k \in 0..n PROVE e[0] <= e[k] /\ e[k] <= e[n]
  <2>1. 0 \in 0..n /\ n \in 0..n /\ 0 <= k /\ k <= n
    BY <1>1
  <2>. QED
    BY <1>3, <2>1
<1>5. \A k \in 0..n : e[k] = End(c, k)
  BY DEF e
<1>. QED
  BY <1>1, <1>4, <1>5 DEF n

\* A container is refused if not all of its words have come.
LEMMA RefusedIs ==
    ASSUME NEW c \in Seq(Sections), NEW got \in Nat
    PROVE  Refused(c, got) <=> got < Words(c)
<1>1. Len(c) \in Nat /\ Header(c) \in Nat /\ Header(c) >= 2 /\ End(c, 0) = Header(c) /\ DOMAIN c = 1..Len(c)
  BY EndIs
<1>2. \A k \in 0..Len(c) : End(c, k) \in Nat /\ Header(c) <= End(c, k) /\ End(c, k) <= Words(c)
  BY EndIs, EndsBetween
<1>3. Words(c) \in Nat /\ Words(c) = End(c, Len(c))
  BY <1>1, <1>2 DEF Words
<1>4. ASSUME Refused(c, got) PROVE got < Words(c)
  <2>1. Header(c) <= Words(c)
    BY <1>1, <1>2
  <2>2. CASE got < Header(c) \/ got < 2
    BY <1>1, <1>3, <2>1, <2>2
  <2>3. CASE \E i \in 1..Len(c) : End(c, i) > got
    <3>1. PICK i \in 1..Len(c) : End(c, i) > got
      BY <2>3
    <3>2. End(c, i) \in Nat /\ End(c, i) <= Words(c)
      BY <1>1, <1>2
    <3>. QED
      BY <1>3, <3>1, <3>2
  <2>. QED
    BY <1>1, <1>4, <2>2, <2>3 DEF Refused
<1>5. ASSUME got < Words(c) PROVE Refused(c, got)
  <2>1. CASE Len(c) = 0
    BY <1>1, <1>3, <1>5, <2>1 DEF Refused
  <2>2. CASE Len(c) # 0
    <3>1. Len(c) \in 1..Len(c)
      BY <1>1, <2>2
    <3>2. End(c, Len(c)) > got
      BY <1>3, <1>5
    <3>. QED
      BY <1>1, <3>1, <3>2 DEF Refused
  <2>. QED
    BY <2>1, <2>2
<1>. QED
  BY <1>4, <1>5

-----------------------------------------------------------------------------
(* The rules of a container.                                               *)

\* What is picked is meant.
LEMMA PickedMeant ==
    ASSUME NEW T, NEW Only, NEW s \in Seq(T)
    PROVE  Picked(s, Only) \in Seq(T \cap Only)
<1>. DEFINE Both == T \cap Only
            G == {u \in Seq(T) : Picked(u, Only) \in Seq(Both)}
<1>1. <<>> \in G
  <2>1. <<>> \in Seq(T) /\ <<>> \in Seq(Both)
    OBVIOUS
  <2>. QED
    BY <2>1, PickedEmpty
<1>2. ASSUME NEW u \in Seq(T), u \in G, NEW x \in T PROVE Append(u, x) \in G
  <2>1. Append(u, x) \in Seq(T)
    BY Added
  <2>2. Picked(Append(u, x), Only) = IF x \in Only THEN Append(Picked(u, Only), x) ELSE Picked(u, Only)
    BY PickedAdd
  <2>3. Picked(u, Only) \in Seq(Both) /\ (x \in Only => x \in Both)
    BY <1>2
  <2>. HIDE DEF Both
  <2>4. Picked(Append(u, x), Only) \in Seq(Both)
    <3>1. CASE x \in Only
      BY <2>2, <2>3, <3>1, Added
    <3>2. CASE x \notin Only
      BY <2>2, <2>3, <3>2
    <3>. QED
      BY <3>1, <3>2
  <2>. QED
    BY <2>1, <2>4
<1>3. \A u \in Seq(T) : u \in G
  <2>. HIDE DEF G
  <2>. QED
    BY <1>1, <1>2, SeqInduction
<1>. QED
  BY <1>3

\* The conditions about the address.
IpSet == {d \in MetaConds : d.kind = "ip"}

\* The ip conditions are those picked, and each is a condition about the address.
LEMMA IpCondsIs ==
    ASSUME NEW conds \in Seq(MetaConds)
    PROVE  /\ IpConds(conds) = Picked(conds, IpSet)
           /\ IpConds(conds) \in Seq(IpSet)
<1>. DEFINE Here == {d \in ToSet(conds) : d.kind = "ip"}
<1>1. \A i \in 1..Len(conds) : conds[i] \in Here <=> conds[i] \in IpSet
  <2>1. \A i \in 1..Len(conds) : conds[i] \in ToSet(conds) /\ conds[i] \in MetaConds
    BY DEF ToSet
  <2>. QED
    BY <2>1 DEF IpSet
<1>2. Picked(conds, Here) = Picked(conds, IpSet)
  <2>. HIDE DEF Here
  <2>. QED
    BY <1>1, PickedSame
<1>3. Picked(conds, IpSet) \in Seq(MetaConds \cap IpSet)
  BY PickedMeant
<1>4. MetaConds \cap IpSet = IpSet
  BY DEF IpSet
<1>. QED
  BY <1>2, <1>3, <1>4 DEF IpConds

V(type, d) == IF type = RuleV4 THEN d.v4 ELSE d.v6
\* What is written of a condition about the address is a sequence of numbers.
LEMMA VType ==
    ASSUME NEW type, NEW d \in IpSet
    PROVE  V(type, d) \in Seq(Nat)
<1>1. d \in [kind : {"ip"}, v4 : Seq(Nat), v6 : Seq(Nat)]
  <2>1. d \in MetaConds /\ d.kind = "ip"
    BY DEF IpSet
  <2>2. d \notin [kind : {"plain", "malformed"}]
    BY <2>1, "ip" # "plain", "ip" # "malformed"
  <2>. QED
    BY <2>1, <2>2 DEF MetaConds
<1>. QED
  BY <1>1 DEF V

\* The sections written for the i-th rule.
Block(type, rules, i) ==
    LET ips == IpConds(rules[i].conds)
    IN [k \in DOMAIN ips |-> [t |-> type, words |-> <<i - 1>> \o V(type, ips[k])]]

\* What is written for a rule: a section for each of its ip conditions, with its number and ranges.
LEMMA BlockIs ==
    ASSUME NEW rules \in Seq(MetaRules), NEW i \in 1..Len(rules), NEW type \in {RuleV4, RuleV6}
    PROVE  LET ips == IpConds(rules[i].conds)
           IN /\ Block(type, rules, i) \in Seq(Sections) /\ Len(Block(type, rules, i)) = Len(ips)
              /\ \A k \in 1..Len(ips) : /\ Block(type, rules, i)[k].t = type
                                        /\ Block(type, rules, i)[k].words[1] = i - 1
                                        /\ Tail(Block(type, rules, i)[k].words) = V(type, ips[k])
<1>. DEFINE ips == IpConds(rules[i].conds)
            block == Block(type, rules, i)
<1>1. rules[i].conds \in Seq(MetaConds)
  <2>1. rules[i] \in MetaRules
    OBVIOUS
  <2>. QED
    BY <2>1 DEF MetaRules
<1>2. ips \in Seq(IpSet)
  BY <1>1, IpCondsIs
<1>3. i - 1 \in Nat /\ type \in Nat
  BY DEF RuleV4, RuleV6
<1>4. block = [k \in DOMAIN ips |-> [t |-> type, words |-> <<i - 1>> \o V(type, ips[k])]]
  BY DEF Block
<1>. HIDE DEF ips, block
<1>5. DOMAIN ips = 1..Len(ips) /\ Len(ips) \in Nat /\ \A k \in 1..Len(ips) : ips[k] \in IpSet
  BY <1>2
<1>6. ASSUME NEW v \in Seq(Nat)
      PROVE  /\ <<i - 1>> \o v \in Seq(Nat) /\ (<<i - 1>> \o v)[1] = i - 1 /\ Tail(<<i - 1>> \o v) = v
  <2>. DEFINE w == <<i - 1>> \o v
  <2>1. w \in Seq(Nat) /\ w[1] = i - 1 /\ Len(w) = 1 + Len(v) /\ w # <<>>
    BY <1>3
  <2>2. \A j \in 1..Len(v) : w[1 + j] = v[j]
    BY <1>3
  <2>. HIDE DEF w
  <2>3. Tail(w) \in Seq(Nat) /\ Len(Tail(w)) = Len(w) - 1 /\ \A j \in 1..(Len(w) - 1) : Tail(w)[j] = w[j + 1]
    <3>1. Len(w) \in Nat /\ Len(w) # 0
      BY <2>1
    <3>. QED
      BY <2>1, <3>1
  <2>4. Tail(w) = v
    <3>1. Len(v) \in Nat /\ Len(w) - 1 = Len(v)
      BY <2>1
    <3>2. \A j \in 1..Len(v) : Tail(w)[j] = v[j]
      <4>1. \A j \in 1..Len(v) : j + 1 = 1 + j
        OBVIOUS
      <4>. QED
        BY <2>2, <2>3, <3>1, <4>1
    <3>. DEFINE tl == Tail(w)
    <3>. HIDE DEF w, tl
    <3>3. tl \in Seq(Nat) /\ Len(tl) = Len(v) /\ \A j \in 1..Len(v) : tl[j] = v[j]
      BY <2>3, <3>1, <3>2 DEF tl
    <3>4. tl = v
      BY <3>3
    <3>. QED
      BY <3>4 DEF tl
  <2>. QED
    BY <2>1, <2>4 DEF w
<1>7. ASSUME NEW k \in 1..Len(ips)
      PROVE  /\ block[k] \in Sections /\ block[k].t = type /\ block[k].words[1] = i - 1
             /\ Tail(block[k].words) = V(type, ips[k])
  <2>. DEFINE w == <<i - 1>> \o V(type, ips[k])
  <2>1. w \in Seq(Nat) /\ w[1] = i - 1 /\ Tail(w) = V(type, ips[k])
    BY <1>5, <1>6, VType
  <2>2. block[k] = [t |-> type, words |-> w]
    BY <1>4, <1>5
  <2>. HIDE DEF w
  <2>3. block[k] \in Sections
    BY <1>3, <2>1, <2>2 DEF Sections
  <2>. QED
    BY <2>1, <2>2, <2>3
<1>8. block \in [1..Len(ips) -> Sections]
  BY <1>4, <1>5, <1>7
<1>9. block \in Seq(Sections) /\ Len(block) = Len(ips)
  BY <1>5, <1>8
<1>. QED
  BY <1>7, <1>9 DEF block, ips

\* What is written for the rules are sections.
LEMMA SectionsForType ==
    ASSUME NEW rules \in Seq(MetaRules), NEW type \in {RuleV4, RuleV6}
    PROVE  SectionsFor(type, rules) \in Seq(Sections)
<1>. DEFINE blocks == [m \in DOMAIN rules |-> Block(type, rules, m)]
<1>1. DOMAIN rules = 1..Len(rules) /\ Len(rules) \in Nat
  OBVIOUS
<1>2. SectionsFor(type, rules) = FlattenSeq(blocks)
  BY DEF SectionsFor, Block, V
<1>3. \A m \in 1..Len(rules) : Block(type, rules, m) \in Seq(Sections)
  BY BlockIs
<1>4. blocks \in [1..Len(rules) -> Seq(Sections)]
  BY <1>1, <1>3
<1>5. blocks \in Seq(Seq(Sections)) /\ <<>> \in Seq(Sections)
  BY <1>1, <1>4
<1>. HIDE DEF blocks
<1>6. FlattenSeq(blocks) \in Seq(Sections)
  BY <1>5, FlattenAdd
<1>. QED
  BY <1>2, <1>6

\* Of the sections written for the rules, those of a type and a rule are that rule's block.
LEMMA WrittenFor ==
    ASSUME NEW rules \in Seq(MetaRules), NEW i \in 1..Len(rules),
           NEW type \in {RuleV4, RuleV6}, NEW other \in {RuleV4, RuleV6}
    PROVE  /\ SectionsFor(type, rules) \in Seq(Sections)
           /\ Picked(SectionsFor(type, rules), {s \in Sections : s.t = other /\ s.words[1] = i - 1}) =
                IF type = other THEN Block(type, rules, i) ELSE <<>>
<1>. DEFINE Only == {s \in Sections : s.t = other /\ s.words[1] = i - 1}
            blocks == [m \in DOMAIN rules |-> Block(type, rules, m)]
            b == IF type = other THEN i ELSE 0
<1>1. DOMAIN rules = 1..Len(rules) /\ Len(rules) \in Nat
  OBVIOUS
<1>2. SectionsFor(type, rules) = FlattenSeq(blocks)
  BY DEF SectionsFor, Block, V
<1>3. \A m \in 1..Len(rules) : Block(type, rules, m) \in Seq(Sections)
  BY BlockIs
<1>4. blocks \in Seq(Seq(Sections)) /\ Len(blocks) = Len(rules) /\ \A m \in 1..Len(rules) : blocks[m] = Block(type, rules, m)
  <2>1. blocks \in [1..Len(rules) -> Seq(Sections)]
    BY <1>1, <1>3
  <2>. QED
    BY <1>1, <2>1
<1>. HIDE DEF blocks
<1>5. b \in Nat
  OBVIOUS
<1>6. OnlyBlock(blocks, Only, b)
  <2>1. SUFFICES ASSUME NEW m \in 1..Len(rules), NEW k \in 1..Len(blocks[m])
                 PROVE  blocks[m][k] \in Only <=> m = b
    BY <1>4 DEF OnlyBlock
  <2>2. blocks[m] = Block(type, rules, m) /\ blocks[m] \in Seq(Sections)
    BY <1>3, <1>4
  <2>3. blocks[m][k] \in Sections
    BY <2>2
  <2>4. blocks[m][k].t = type /\ blocks[m][k].words[1] = m - 1
    <3>1. Len(blocks[m]) = Len(IpConds(rules[m].conds))
      BY <2>2, BlockIs
    <3>. QED
      BY <2>2, <3>1, BlockIs
  <2>5. blocks[m][k] \in Only <=> type = other /\ m - 1 = i - 1
    BY <2>3, <2>4
  <2>6. (type = other /\ m - 1 = i - 1) <=> m = b
    OBVIOUS
  <2>. QED
    BY <2>5, <2>6
<1>. HIDE DEF Only
<1>7. Picked(FlattenSeq(blocks), Only) = IF b \in 1..Len(blocks) THEN blocks[b] ELSE <<>>
  <2>. HIDE DEF b
  <2>. QED
    BY <1>4, <1>5, <1>6, PickedBlock
<1>8. FlattenSeq(blocks) \in Seq(Sections)
  <2>1. <<>> \in Seq(Sections)
    OBVIOUS
  <2>. QED
    BY <1>4, <2>1, FlattenAdd
<1>9. Picked(FlattenSeq(blocks), Only) = IF type = other THEN Block(type, rules, i) ELSE <<>>
  BY <1>1, <1>4, <1>7
<1>. QED
  BY <1>2, <1>8, <1>9 DEF Only

\* The sections of a whole container that are of a type and a rule are that rule's block: the lists'
\* are of other types.
LEMMA SectionsOfIs ==
    ASSUME NEW lists \in Seq(ListSections), NEW rules \in Seq(MetaRules), NEW i \in 1..Len(rules),
           NEW type \in {RuleV4, RuleV6}
    PROVE  /\ Written(lists, rules) \in Seq(Sections)
           /\ SectionsOf(Written(lists, rules), type, i - 1) = Block(type, rules, i)
<1>. DEFINE c == Written(lists, rules)
            x4 == SectionsFor(RuleV4, rules)
            x6 == SectionsFor(RuleV6, rules)
            Here == {s \in ToSet(c) : s.t = type /\ s.words[1] = i - 1}
            Only == {s \in Sections : s.t = type /\ s.words[1] = i - 1}
<1>1. lists \in Seq(Sections)
  <2>1. ListSections \subseteq Sections
    BY DEF ListSections, Sections
  <2>. QED
    BY <2>1, SeqWidens
<1>2. x4 \in Seq(Sections) /\ x6 \in Seq(Sections)
  <2>1. RuleV4 \in {RuleV4, RuleV6} /\ RuleV6 \in {RuleV4, RuleV6}
    OBVIOUS
  <2>. QED
    BY <2>1, WrittenFor
<1>3. /\ Picked(x4, Only) = IF RuleV4 = type THEN Block(RuleV4, rules, i) ELSE <<>>
      /\ Picked(x6, Only) = IF RuleV6 = type THEN Block(RuleV6, rules, i) ELSE <<>>
  <2>1. RuleV4 \in {RuleV4, RuleV6} /\ RuleV6 \in {RuleV4, RuleV6}
    OBVIOUS
  <2>. QED
    BY <2>1, WrittenFor
<1>4. c = lists \o x4 \o x6
  BY DEF Written
<1>5. Picked(lists, Only) = <<>>
  <2>1. \A j \in 1..Len(lists) : lists[j] \notin Only
    <3>1. \A j \in 1..Len(lists) : lists[j] \in ListSections
      OBVIOUS
    <3>. QED
      BY <3>1 DEF ListSections
  <2>. HIDE DEF Only
  <2>. QED
    BY <1>1, <2>1, PickedNoneOrAll
<1>. HIDE DEF x4, x6
<1>6. lists \o x4 \in Seq(Sections) /\ c \in Seq(Sections)
  BY <1>1, <1>2, <1>4
<1>. HIDE DEF c
<1>7. Picked(c, Here) = Picked(c, Only)
  <2>1. \A j \in 1..Len(c) : c[j] \in Here <=> c[j] \in Only
    <3>1. \A j \in 1..Len(c) : c[j] \in ToSet(c) /\ c[j] \in Sections
      BY <1>6 DEF ToSet
    <3>. QED
      BY <3>1
  <2>. HIDE DEF Here, Only
  <2>. QED
    BY <1>6, <2>1, PickedSame
<1>. HIDE DEF Only
<1>8. Picked(c, Only) = (Picked(lists, Only) \o Picked(x4, Only)) \o Picked(x6, Only)
  <2>1. Picked(lists \o x4, Only) = Picked(lists, Only) \o Picked(x4, Only)
    BY <1>1, <1>2, PickedJoined
  <2>2. Picked((lists \o x4) \o x6, Only) = Picked(lists \o x4, Only) \o Picked(x6, Only)
    BY <1>2, <1>6, PickedJoined
  <2>. QED
    BY <1>4, <2>1, <2>2
<1>9. Picked(c, Only) = Block(type, rules, i)
  <2>1. Block(type, rules, i) \in Seq(Sections)
    BY BlockIs
  <2>. DEFINE block == Block(type, rules, i)
  <2>2. RuleV4 # RuleV6 /\ (type = RuleV4 \/ type = RuleV6)
    BY DEF RuleV4, RuleV6
  <2>3. \/ Picked(x4, Only) = block /\ Picked(x6, Only) = <<>>
        \/ Picked(x4, Only) = <<>> /\ Picked(x6, Only) = block
    BY <1>3, <2>2
  <2>. HIDE DEF block
  <2>4. (<<>> \o block) \o <<>> = block /\ (<<>> \o <<>>) \o block = block
    <3>1. block \in Seq(Sections)
      BY <2>1 DEF block
    <3>. QED
      BY <3>1
  <2>. QED
    BY <1>5, <1>8, <2>3, <2>4 DEF block
<1>. QED
  BY <1>6, <1>7, <1>9 DEF SectionsOf, c

\* The conditions of a rule.
LEMMA RuleConds ==
    ASSUME NEW rules \in Seq(MetaRules), NEW i \in 1..Len(rules)
    PROVE  rules[i].conds \in Seq(MetaConds)
<1>1. rules[i] \in MetaRules
  OBVIOUS
<1>. QED
  BY <1>1 DEF MetaRules

\* A rule of a whole container compiles to what was written: the n-th condition about the address
\* reads the n-th sections of its rule.
LEMMA CompiledIs ==
    ASSUME NEW lists \in Seq(ListSections), NEW rules \in Seq(MetaRules), NEW i \in 1..Len(rules)
    PROVE  Compiled(Written(lists, rules), i - 1, rules[i].conds) = Meant(rules, i)
<1>. DEFINE c == Written(lists, rules)
            conds == rules[i].conds
            ips == IpConds(conds)
            rank(k) == Len(IpConds(SubSeq(conds, 1, k)))
<1>1. conds \in Seq(MetaConds)
  BY RuleConds
<1>. HIDE DEF conds
<1>2. ips \in Seq(IpSet) /\ ips = Picked(conds, IpSet)
  BY <1>1, IpCondsIs
<1>3. ASSUME NEW k \in 1..Len(conds), conds[k].kind = "ip"
      PROVE  rank(k) \in 1..Len(ips) /\ ips[rank(k)] = conds[k] /\ conds[k] \in IpSet
  <2>1. conds[k] \in IpSet
    <3>1. conds[k] \in MetaConds
      BY <1>1
    <3>. QED
      BY <1>3, <3>1 DEF IpSet
  <2>2. SubSeq(conds, 1, k) \in Seq(MetaConds)
    BY <1>1, Sides
  <2>3. IpConds(SubSeq(conds, 1, k)) = Picked(SubSeq(conds, 1, k), IpSet)
    BY <2>2, IpCondsIs
  <2>4. /\ Len(Picked(SubSeq(conds, 1, k), IpSet)) \in 1..Len(Picked(conds, IpSet))
        /\ Picked(conds, IpSet)[Len(Picked(SubSeq(conds, 1, k), IpSet))] = conds[k]
    BY <1>1, <2>1, PickedRank
  <2>. QED
    BY <1>2, <2>1, <2>3, <2>4
<1>4. ASSUME NEW type \in {RuleV4, RuleV6}, NEW n \in 1..Len(ips)
      PROVE  Half(SectionsOf(c, type, i - 1), n) = V(type, ips[n])
  <2>. DEFINE block == Block(type, rules, i)
  <2>1. SectionsOf(c, type, i - 1) = block
    BY SectionsOfIs
  <2>2. block \in Seq(Sections) /\ Len(block) = Len(ips) /\ Tail(block[n].words) = V(type, ips[n])
    BY BlockIs DEF conds
  <2>. HIDE DEF block
  <2>3. n \in DOMAIN block
    BY <2>2
  <2>. QED
    BY <2>1, <2>2, <2>3 DEF Half
<1>. HIDE DEF c, ips
<1>5. ASSUME NEW k \in 1..Len(conds), conds[k].kind = "ip"
      PROVE  Pair(c, i - 1, rank(k)) = <<conds[k].v4, conds[k].v6>>
  <2>. DEFINE n == rank(k)
  <2>1. n \in 1..Len(ips) /\ ips[n] = conds[k]
    BY <1>3, <1>5
  <2>. HIDE DEF n
  <2>2. RuleV4 # RuleV6 /\ RuleV4 \in {RuleV4, RuleV6} /\ RuleV6 \in {RuleV4, RuleV6}
    BY DEF RuleV4, RuleV6
  <2>3. /\ Half(SectionsOf(c, RuleV4, i - 1), n) = conds[k].v4
        /\ Half(SectionsOf(c, RuleV6, i - 1), n) = conds[k].v6
    <3>1. V(RuleV4, ips[n]) = conds[k].v4 /\ V(RuleV6, ips[n]) = conds[k].v6
      BY <2>1, <2>2 DEF V
    <3>. QED
      BY <1>4, <2>1, <2>2, <3>1
  <2>. QED
    BY <2>3 DEF Pair, n
<1>. HIDE DEF rank
<1>6. DOMAIN conds = 1..Len(conds)
  BY <1>1
<1>7. Compiled(c, i - 1, conds) =
        [k \in 1..Len(conds) |-> IF conds[k].kind = "ip" THEN Pair(c, i - 1, rank(k)) ELSE conds[k].kind]
  BY <1>6 DEF Compiled, rank
<1>8. Meant(rules, i) =
        [k \in 1..Len(conds) |-> IF conds[k].kind = "ip" THEN <<conds[k].v4, conds[k].v6>> ELSE conds[k].kind]
  BY <1>6 DEF Meant, conds
<1>9. Compiled(c, i - 1, conds) = Meant(rules, i)
  BY <1>5, <1>7, <1>8
<1>. QED
  BY <1>9 DEF c, conds

\* Of the rules those that are kept are compiled, in their order.
KeptOf(rules) == {i \in DOMAIN rules : Kept(rules[i])}
KeptSeq(rules) == Picked([i \in DOMAIN rules |-> i], KeptOf(rules))

\* The rules kept, in order: a rule stands where its rank among them says.
LEMMA KeptIs ==
    ASSUME NEW rules \in Seq(MetaRules)
    PROVE  /\ KeptSeq(rules) \in Seq(Nat)
           /\ Len(KeptSeq(rules)) = Cardinality(KeptOf(rules))
           /\ \A i \in KeptOf(rules) :
                /\ Cardinality({j \in KeptOf(rules) : j <= i}) \in 1..Len(KeptSeq(rules))
                /\ KeptSeq(rules)[Cardinality({j \in KeptOf(rules) : j <= i})] = i
<1>. DEFINE n == Len(rules)
            K == KeptOf(rules)
            id == [i \in 1..n |-> i]
            Low(k) == {j \in K : j <= k}
            PrefixRight(k) == /\ IsFiniteSet(Low(k))
                              /\ Len(Picked(SubSeq(id, 1, k), K)) = Cardinality(Low(k))
<1>1. n \in Nat /\ DOMAIN rules = 1..n /\ K \in SUBSET (1..n) /\ KeptSeq(rules) = Picked(id, K)
  BY DEF KeptOf, KeptSeq
<1>2. id \in Seq(Nat) /\ Len(id) = n /\ \A i \in 1..n : id[i] = i
  BY <1>1
<1>0. \A j \in K : j \in Nat /\ 1 <= j /\ j <= n
  BY <1>1
<1>. HIDE DEF n, K, id
<1>. DEFINE N == {k \in Nat : k <= n => PrefixRight(k)}
<1>3. 0 \in N
  <2>1. Low(0) = {}
    BY <1>0
  <2>2. SubSeq(id, 1, 0) = <<>>
    BY <1>2
  <2>3. Picked(SubSeq(id, 1, 0), K) = <<>>
    BY <2>2, PickedEmpty
  <2>4. Cardinality({}) = 0 /\ IsFiniteSet({}) /\ Len(<<>>) = 0
    BY FS_EmptySet
  <2>5. PrefixRight(0)
    BY <2>1, <2>3, <2>4
  <2>. HIDE DEF PrefixRight
  <2>. QED
    BY <2>5
<1>4. ASSUME NEW k \in Nat, k + 1 <= n, PrefixRight(k) PROVE PrefixRight(k + 1)
  <2>. DEFINE h == SubSeq(id, 1, k)
  <2>1. k + 1 \in 1..n /\ k + 1 \in 1..Len(id) /\ (k + 1) - 1 = k
    BY <1>1, <1>2, <1>4
  <2>2. h \in Seq(Nat) /\ SubSeq(id, 1, k + 1) = Append(h, k + 1)
    <3>1. PICK m \in 1..Len(id) : m = k + 1
      BY <2>1
    <3>2. SubSeq(id, 1, m - 1) \in Seq(Nat) /\ SubSeq(id, 1, m) = Append(SubSeq(id, 1, m - 1), id[m])
      BY <1>2, PrefixAdd
    <3>3. id[m] = k + 1 /\ m - 1 = k
      BY <1>2, <2>1, <3>1
    <3>. QED
      BY <3>1, <3>2, <3>3
  <2>3. Picked(SubSeq(id, 1, k + 1), K) = IF k + 1 \in K THEN Append(Picked(h, K), k + 1) ELSE Picked(h, K)
    <3>1. k + 1 \in Nat
      OBVIOUS
    <3>2. Picked(Append(h, k + 1), K) = IF k + 1 \in K THEN Append(Picked(h, K), k + 1) ELSE Picked(h, K)
      <4>1. ASSUME NEW w \in Seq(Nat), NEW x \in Nat
            PROVE  Picked(Append(w, x), K) = IF x \in K THEN Append(Picked(w, K), x) ELSE Picked(w, K)
        BY PickedAdd
      <4>2. PICK x \in Nat : x = k + 1
        BY <3>1
      <4>3. h \in Seq(Nat)
        BY <2>2
      <4>. HIDE DEF h
      <4>4. Picked(Append(h, x), K) = IF x \in K THEN Append(Picked(h, K), x) ELSE Picked(h, K)
        BY <4>1, <4>3
      <4>. QED
        BY <4>2, <4>4
    <3>. QED
      BY <2>2, <3>2
  <2>4. IsFiniteSet(Low(k)) /\ Len(Picked(h, K)) = Cardinality(Low(k))
    BY <1>4
  <2>5. Picked(h, K) \in Seq(Nat)
    BY <2>2, PickedType
  <2>. HIDE DEF h
  <2>6. CASE k + 1 \in K
    <3>1. Low(k + 1) = Low(k) \cup {k + 1} /\ k + 1 \notin Low(k)
      BY <1>0, <2>6
    <3>. DEFINE L == Low(k)
    <3>. HIDE DEF Low, L
    <3>2. IsFiniteSet(L \cup {k + 1}) /\ Cardinality(L \cup {k + 1}) = Cardinality(L) + 1
      BY <2>4, <3>1, FS_AddElement DEF L
    <3>3. Len(Append(Picked(h, K), k + 1)) = Len(Picked(h, K)) + 1
      BY <2>5
    <3>. QED
      BY <2>3, <2>4, <2>6, <3>1, <3>2, <3>3 DEF L
  <2>7. CASE k + 1 \notin K
    <3>1. Low(k + 1) = Low(k)
      BY <1>0, <2>7
    <3>. HIDE DEF Low
    <3>. QED
      BY <2>3, <2>4, <2>7, <3>1
  <2>. QED
    BY <2>6, <2>7
<1>5. \A k \in N : k + 1 \in N
  <2>. HIDE DEF PrefixRight
  <2>1. SUFFICES ASSUME NEW k \in Nat, k <= n => PrefixRight(k), k + 1 <= n PROVE PrefixRight(k + 1)
    OBVIOUS
  <2>2. k <= n
    BY <1>1, <2>1
  <2>. QED
    BY <1>4, <2>1, <2>2
<1>6. N = Nat
  <2>1. N \in SUBSET Nat
    OBVIOUS
  <2>. HIDE DEF N
  <2>. QED
    BY <1>3, <1>5, <2>1, Induction
<1>7. \A k \in 0..n : PrefixRight(k)
  <2>. HIDE DEF PrefixRight
  <2>1. SUFFICES ASSUME NEW k \in 0..n PROVE PrefixRight(k)
    OBVIOUS
  <2>2. k \in Nat /\ k <= n
    BY <1>1
  <2>3. k \in N
    <3>. HIDE DEF N
    <3>. QED
      BY <1>6, <2>2
  <2>. QED
    BY <2>2, <2>3
<1>8. Picked(id, K) \in Seq(Nat)
  BY <1>2, PickedType
<1>9. Len(Picked(id, K)) = Cardinality(K)
  <2>1. Low(n) = K
    BY <1>0
  <2>2. SubSeq(id, 1, n) = id
    BY <1>2
  <2>3. n \in 0..n
    BY <1>1
  <2>4. Len(Picked(SubSeq(id, 1, n), K)) = Cardinality(Low(n))
    BY <1>7, <2>3
  <2>. HIDE DEF Low
  <2>. QED
    BY <2>1, <2>2, <2>4
<1>10. ASSUME NEW i \in K
       PROVE  Cardinality(Low(i)) \in 1..Len(Picked(id, K)) /\ Picked(id, K)[Cardinality(Low(i))] = i
  <2>1. i \in 0..n /\ i \in 1..Len(id) /\ id[i] \in K /\ id[i] = i
    BY <1>1, <1>2
  <2>2. Len(Picked(SubSeq(id, 1, i), K)) = Cardinality(Low(i))
    BY <1>7, <2>1
  <2>3. /\ Len(Picked(SubSeq(id, 1, i), K)) \in 1..Len(Picked(id, K))
        /\ Picked(id, K)[Len(Picked(SubSeq(id, 1, i), K))] = id[i]
    BY <1>2, <2>1, PickedRank
  <2>. HIDE DEF Low
  <2>. QED
    BY <2>1, <2>2, <2>3
<1>. QED
  BY <1>1, <1>8, <1>9, <1>10 DEF K

\* What was told of a container is what parse_snapshot makes of the words that have come.
ContainersRight ==
    about = "container" =>
        /\ asked.lists \in Seq(ListSections) /\ asked.rules \in Seq(MetaRules)
        /\ asked.got \in 0..Words(Written(asked.lists, asked.rules))
        /\ told = Parse(Written(asked.lists, asked.rules), asked.rules, asked.got)

\* ContainersRight is inductive: only AskContainer tells of containers.
LEMMA ContainersRightInvariant == Spec => []ContainersRight
<1>1. Init => ContainersRight
  BY DEF Init, ContainersRight
<1>2. ContainersRight /\ [Next]_vars => ContainersRight'
  <2>. SUFFICES ASSUME ContainersRight, [Next]_vars PROVE ContainersRight'
    OBVIOUS
  <2>1. CASE AskContainer
    <3>1. PICK c \in ContainerCases : \E got \in 0..Words(Written(c.lists, c.rules)) :
            Ask("container", [lists |-> c.lists, rules |-> c.rules, got |-> got],
                Parse(Written(c.lists, c.rules), c.rules, got))
      BY <2>1 DEF AskContainer
    <3>2. PICK got \in 0..Words(Written(c.lists, c.rules)) :
            /\ asked' = [lists |-> c.lists, rules |-> c.rules, got |-> got]
            /\ told' = Parse(Written(c.lists, c.rules), c.rules, got)
      BY <3>1 DEF Ask
    <3>3. asked'.lists = c.lists /\ asked'.rules = c.rules /\ asked'.got = got
      BY <3>2
    <3>4. c.lists \in Seq(ListSections) /\ c.rules \in Seq(MetaRules)
      BY DecisionAssumption
    <3>. QED
      BY <3>2, <3>3, <3>4 DEF ContainersRight
  <2>2. CASE AskAddress \/ AskLookup \/ AskPath \/ AskVerdict \/ AskCadence \/ AskQuery
    <3>1. about' # "container"
      BY <2>2 DEF AskAddress, AskLookup, AskPath, AskVerdict, AskCadence, AskQuery, Ask
    <3>. QED
      BY <3>1 DEF ContainersRight
  <2>3. CASE UNCHANGED vars
    BY <2>3 DEF ContainersRight, vars
  <2>. QED
    BY <2>1, <2>2, <2>3 DEF Next
<1>. QED
  BY <1>1, <1>2, PTL DEF Spec

\* ContainersReadAsWritten: for any lists and rules, a container is refused exactly if words of it are
\* missing, and of a whole one each rule that is kept reads the ranges written for it.
THEOREM ContainersTheorem == Spec => []ContainersReadAsWritten
<1>1. ASSUME ContainersRight PROVE ContainersReadAsWritten
  <2>. DEFINE lists == asked.lists
              rules == asked.rules
              c == Written(lists, rules)
              got == asked.got
              kept == KeptOf(rules)
              read == CompileRules(c, rules)
              seq == KeptSeq(rules)
  <2>1. SUFFICES ASSUME about = "container"
                 PROVE  /\ told.refused = (got < Words(c))
                        /\ told.refused \/
                             /\ Len(told.rules) = Cardinality(kept)
                             /\ \A i \in kept : told.rules[Cardinality({j \in kept : j <= i})] = Meant(rules, i)
    BY DEF ContainersReadAsWritten, About, KeptOf
  <2>2. /\ lists \in Seq(ListSections) /\ rules \in Seq(MetaRules)
        /\ got \in 0..Words(c) /\ told = Parse(c, rules, got)
    BY <1>1, <2>1 DEF ContainersRight
  <2>. HIDE DEF lists, rules, got
  <2>3. c \in Seq(Sections)
    <3>1. \A type \in {RuleV4, RuleV6} : SectionsFor(type, rules) \in Seq(Sections)
      BY <2>2, SectionsForType
    <3>2. SectionsFor(RuleV4, rules) \in Seq(Sections) /\ SectionsFor(RuleV6, rules) \in Seq(Sections)
      BY <3>1
    <3>3. lists \in Seq(Sections)
      <4>1. ListSections \subseteq Sections
        BY DEF ListSections, Sections
      <4>. QED
        BY <2>2, <4>1, SeqWidens
    <3>. QED
      BY <3>2, <3>3 DEF Written
  <2>4. Refused(c, got) <=> got < Words(c)
    <3>1. got \in Nat
      BY <2>2
    <3>. HIDE DEF c
    <3>. QED
      BY <2>3, <3>1, RefusedIs
  <2>5. CASE Refused(c, got)
    <3>1. told = [refused |-> TRUE]
      BY <2>2, <2>5 DEF Parse
    <3>. HIDE DEF c
    <3>2. told.refused = TRUE
      BY <3>1
    <3>. QED
      BY <2>4, <2>5, <3>2
  <2>6. CASE ~Refused(c, got)
    <3>. HIDE DEF c, read, kept, seq
    <3>1. told = [refused |-> FALSE, rules |-> read]
      BY <2>2, <2>6 DEF Parse, read
    <3>2. told.refused = FALSE /\ told.rules = read
      BY <3>1
    <3>3. /\ seq \in Seq(Nat) /\ Len(seq) = Cardinality(kept)
          /\ \A i \in kept : /\ Cardinality({j \in kept : j <= i}) \in 1..Len(seq)
                             /\ seq[Cardinality({j \in kept : j <= i})] = i
      BY <2>2, KeptIs DEF seq, kept
    <3>4. read = [n \in 1..Len(seq) |-> Compiled(c, RuleIndex(rules, seq[n]), rules[seq[n]].conds)]
      <4>1. DOMAIN seq = 1..Len(seq)
        BY <3>3
      <4>2. read = [n \in DOMAIN seq |-> Compiled(c, RuleIndex(rules, seq[n]), rules[seq[n]].conds)]
        BY DEF read, CompileRules, seq, KeptSeq, KeptOf
      <4>. QED
        BY <4>1, <4>2
    <3>5. Len(read) = Cardinality(kept)
      <4>1. Len(seq) \in Nat
        BY <3>3
      <4>. QED
        BY <3>3, <3>4, <4>1
    <3>6. ASSUME NEW i \in kept PROVE read[Cardinality({j \in kept : j <= i})] = Meant(rules, i)
      <4>. DEFINE r == Cardinality({j \in kept : j <= i})
      <4>1. r \in 1..Len(seq) /\ seq[r] = i
        BY <3>3
      <4>. HIDE DEF r
      <4>2. read[r] = Compiled(c, RuleIndex(rules, i), rules[i].conds)
        BY <3>4, <4>1
      <4>3. i \in 1..Len(rules)
        BY <2>2 DEF kept, KeptOf
      <4>4. RuleIndex(rules, i) = i - 1
        BY DEF RuleIndex
      <4>5. Compiled(c, i - 1, rules[i].conds) = Meant(rules, i)
        BY <2>2, <4>3, CompiledIs DEF c
      <4>. QED
        BY <4>2, <4>4, <4>5 DEF r
    <3>7. told.refused = (got < Words(c))
      <4>1. (got < Words(c)) = FALSE
        BY <2>4, <2>6
      <4>. QED
        BY <3>2, <4>1
    <3>8. Len(told.rules) = Cardinality(kept)
      BY <3>2, <3>5
    <3>9. \A i \in kept : told.rules[Cardinality({j \in kept : j <= i})] = Meant(rules, i)
      BY <3>2, <3>6
    <3>. QED
      BY <3>7, <3>8, <3>9
  <2>. QED
    BY <2>5, <2>6
<1>. QED
  BY <1>1, ContainersRightInvariant, PTL
=============================================================================

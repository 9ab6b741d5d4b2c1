----------------------------- MODULE Container ------------------------------
(***************************************************************************)
(* How parse_snapshot reads a container: the header and its table of       *)
(* sections, and the rules of the meta compiled with the sections 14 and   *)
(* 15 of their ip conditions (snapshot/parse.py).  A container is the      *)
(* sequence of its sections, laid out one after the other; a range is its  *)
(* name.  Definitions called ...Mutant are wrong on purpose.               *)
(***************************************************************************)
EXTENDS Integers, Sequences, SequencesExt

RuleV4 == 14
RuleV6 == 15

\* What is written: a section of a list, a condition of a rule, a rule of an action known here or not.
ListSections == [t : Nat \ {RuleV4, RuleV6}, words : Seq(Nat)]
MetaConds == [kind : {"plain", "malformed"}] \cup [kind : {"ip"}, v4 : Seq(Nat), v6 : Seq(Nat)]
MetaRules == [known : BOOLEAN, conds : Seq(MetaConds)]

\* The elements of s that are in S, in their order.
Picked(s, S) == FoldLeft(LAMBDA out, x : IF x \in S THEN Append(out, x) ELSE out, <<>>, s)

\* The words before the sections, and where a section ends.
Header(c) == 2 + 3 * Len(c)
End(c, i) == FoldLeft(LAMBDA n, s : n + Len(s.words), Header(c), SubSeq(c, 1, i))

\* A body of which `got` words have come: no magic and count, a table cut short, or a section that
\* reaches past what is there.
Refused(c, got) ==
    \/ got < 2
    \/ got < Header(c)
    \/ \E i \in DOMAIN c : End(c, i) > got

RuleIndexMutant(rules, i) == Cardinality({j \in 1..(i - 1) : rules[j].known})   \* of the rules kept
\* Rules are counted from 0, those this SDK does not know included.
RuleIndex(rules, i) == i - 1

SectionsOf(c, type, index) == Picked(c, {s \in ToSet(c) : s.t = type /\ s.words[1] = index})

\* The ranges of the n-th ip condition of a rule; a half that was not written is empty.
Half(sections, n) == IF n \in DOMAIN sections THEN Tail(sections[n].words) ELSE <<>>
Pair(c, index, n) == <<Half(SectionsOf(c, RuleV4, index), n), Half(SectionsOf(c, RuleV6, index), n)>>

\* A condition, and the pair it reads if it is about the address: the next of its rule.
IpConds(conds) == Picked(conds, {d \in ToSet(conds) : d.kind = "ip"})
Compiled(c, index, conds) ==
    [k \in DOMAIN conds |->
        IF conds[k].kind = "ip" THEN Pair(c, index, Len(IpConds(SubSeq(conds, 1, k)))) ELSE conds[k].kind]

\* A rule of an unknown action, without conditions or with one that does not compile is left out.
Kept(rule) == rule.known /\ rule.conds # <<>> /\ \A k \in DOMAIN rule.conds : rule.conds[k].kind # "malformed"

CompileRules(c, rules) ==
    LET kept == Picked([i \in DOMAIN rules |-> i], {i \in DOMAIN rules : Kept(rules[i])})
    IN [n \in DOMAIN kept |-> Compiled(c, RuleIndex(rules, kept[n]), rules[kept[n]].conds)]

Parse(c, rules, got) ==
    IF Refused(c, got) THEN [refused |-> TRUE] ELSE [refused |-> FALSE, rules |-> CompileRules(c, rules)]

-----------------------------------------------------------------------------
\* What the analyst writes for these rules: one 14 and one 15 for each ip condition, in order, whatever
\* becomes of its rule here, after the sections of the lists.
SectionsFor(type, rules) ==
    FlattenSeq([i \in DOMAIN rules |->
        LET ips == IpConds(rules[i].conds)
        IN [k \in DOMAIN ips |->
               [t |-> type, words |-> <<i - 1>> \o (IF type = RuleV4 THEN ips[k].v4 ELSE ips[k].v6)]]])
Written(lists, rules) == lists \o SectionsFor(RuleV4, rules) \o SectionsFor(RuleV6, rules)
Words(c) == End(c, Len(c))
=============================================================================

------------------------------- MODULE Redact -------------------------------
(***************************************************************************)
(* How a query is scrubbed before it ships (redact.py, scrub_query): split *)
(* at its own & and =, each half decoded to be tested, the text itself     *)
(* kept or replaced.  A query is a sequence of pieces: a separator, or a   *)
(* run of text that is one thing to the patterns, and how many times it is *)
(* percent-encoded.  Definitions called ...Mutant are wrong on purpose.    *)
(***************************************************************************)
EXTENDS Integers, Sequences, SequencesExt

\* A run of text may read as a credential's name, as a long hex or base64 value, as the beginning of a
\* JWT, as what replaces one, or as none of these.
Separators == {"=", "&", "?"}
Texts == {"word", "name", "value", "jwt", "~r"}

Pieces == [is : Separators \cup Texts, layers : Nat]

DecodePasses == 4   \* of _decode

Piece(is) == [is |-> is, layers |-> 0]
Removed == Piece("~r")

SplitAt(s, Sep(_)) ==
    FoldLeft(LAMBDA parts, x : IF Sep(x) THEN Append(parts, <<>>)
                               ELSE Append(Front(parts), Append(Last(parts), x)), <<<<>>>>, s)
\* The first place where a sequence has x, 0 if it has not.
First(s, x) == IF x \in ToSet(s) THEN CHOOSE i \in DOMAIN s : s[i] = x /\ \A j \in 1..(i - 1) : s[j] # x ELSE 0
Before(s, i) == SubSeq(s, 1, i - 1)
After(s, i) == SubSeq(s, i + 1, Len(s))

\* The text that is tested, if four passes decode it.
TooDeep(s) == \E x \in ToSet(s) : x.layers > DecodePasses
DecodeMutant(s) == [ok |-> TRUE, text |-> [i \in DOMAIN s |-> IF s[i].layers > DecodePasses THEN "word" ELSE s[i].is]]
Decode(s) == IF TooDeep(s) THEN [ok |-> FALSE] ELSE [ok |-> TRUE, text |-> [i \in DOMAIN s |-> s[i].is]]

\* A JWT may be followed by anything; a base64 value by two = at most.
SuspectValue(t) ==
    /\ t # <<>>
    /\ \/ t[1] = "jwt"
       \/ t[1] = "value" /\ Len(t) <= 3 /\ \A i \in 2..Len(t) : t[i] = "="

SuspectName(t) == "name" \in ToSet(t)

CredSegment(t) ==
    LET eq == First(t, "=")
    IN IF eq = 0 THEN SuspectValue(t) ELSE SuspectName(Before(t, eq)) \/ SuspectValue(After(t, eq))

\* A query within a value.
NestedCred(t) ==
    /\ ToSet(t) \cap Separators # {}
    /\ \E seg \in ToSet(SplitAt(t, LAMBDA x : x \in {"?", "&"})) : CredSegment(seg)

CredValue(s) == LET d == Decode(s) IN ~d.ok \/ SuspectValue(d.text) \/ NestedCred(d.text)
CredName(s) == LET d == Decode(s) IN ~d.ok \/ SuspectName(d.text)

ScrubPart(p) ==
    LET eq == First(p, Piece("="))
    IN CASE eq = 0 -> IF CredValue(p) THEN <<Removed>> ELSE p
         [] OTHER -> IF CredName(Before(p, eq)) \/ CredValue(After(p, eq))
                       THEN Append(SubSeq(p, 1, eq), Removed) ELSE p

\* A leading ? is not the query's.
Lead(q) == IF q # <<>> /\ q[1] = Piece("?") THEN 1 ELSE 0
Parts(q) == SplitAt(After(q, Lead(q)), LAMBDA x : x = Piece("&"))
ScrubQuery(q) ==
    LET parts == Parts(q)
    IN SubSeq(q, 1, Lead(q)) \o
         FlattenSeq([i \in DOMAIN parts |-> (IF i = 1 THEN <<>> ELSE <<Piece("&")>>) \o ScrubPart(parts[i])])
=============================================================================

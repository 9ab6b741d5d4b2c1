-------------------------------- MODULE Paths --------------------------------
(***************************************************************************)
(* Path canonicalisation and matching (src/camada/snapshot/paths.py).  A   *)
(* request's path is compared in three forms: raw, with its dot segments   *)
(* (lit), and with them resolved (full).                                   *)
(*                                                                         *)
(* A path is what lies between its slashes, the query cut; <<>> is "/".  A *)
(* segment reads as a name; it may be spelled otherwise than canonically   *)
(* (upper case, %XX), and carry a ;parameter.  Definitions called          *)
(* ...Mutant are wrong on purpose.                                         *)
(***************************************************************************)
EXTENDS Naturals, Sequences, SequencesExt

CONSTANTS Names   \* what a segment can read as: "", ".", ".." and others

Segments == [name : Names, plain : BOOLEAN, param : BOOLEAN]
Plain(name) == [name |-> name, plain |-> TRUE, param |-> FALSE]
Empty == Plain("")
IsPath(p) == p # <<Empty>>   \* "/" has no segment

ASSUME PathAssumption == {"", ".", ".."} \subseteq Names

-----------------------------------------------------------------------------
\* Decoded, lower-cased, cut at its ; and written canonically.
Canonical(s) == Plain(s.name)

StepMutant(segs, s, dots) ==   \* "." stays
    CASE s.name = "" -> segs
      [] dots /\ s.name = ".." -> IF segs = <<>> THEN <<>> ELSE Front(segs)
      [] OTHER -> Append(segs, Canonical(s))
\* One segment of canon_path's last loop.
Step(segs, s, dots) ==
    CASE s.name = "" \/ (dots /\ s.name = ".") -> segs
      [] dots /\ s.name = ".." -> IF segs = <<>> THEN <<>> ELSE Front(segs)
      [] OTHER -> Append(segs, Canonical(s))

\* canon_path: the empty segments go, and with `dots` the dot segments are resolved.
CanonPath(p, dots) == FoldLeft(LAMBDA segs, s : Step(segs, s, dots), <<>>, p)
Lit(p) == CanonPath(p, FALSE)
Full(p) == CanonPath(p, TRUE)

\* _is_canon: already canonical, the shortcut past the byte walk.
IsCanon(p) == \A i \in DOMAIN p : p[i] = Canonical(p[i]) /\ p[i].name \notin {"", ".", ".."}

Forms(p) == IF IsCanon(p) THEN <<p, p, p>> ELSE <<p, Lit(p), Full(p)>>

-----------------------------------------------------------------------------
\* prefixed(): a directory of the list is the path or lies above it.
Prefixed(dirs, p) == \E k \in 0..Len(p) : SubSeq(p, 1, k) \in dirs

PathHitMutant(hits, deny) == TRUE \in {hits[i] : i \in 1..3}   \* an exemption fires on any spelling, too
\* Which of the three forms an entry hits.  A deny rule fires on any of them; an exemption needs both
\* canonical ones.
PathHit(hits, deny) == IF deny THEN \E i \in 1..3 : hits[i] ELSE hits[2] /\ hits[3]

\* A rule on these directories, over the forms of p.
Fires(dirs, p, deny) == PathHit([i \in 1..3 |-> Prefixed(dirs, Forms(p)[i])], deny)
=============================================================================

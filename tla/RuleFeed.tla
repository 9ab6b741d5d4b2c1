------------------------------ MODULE RuleFeed ------------------------------
(***************************************************************************)
(* What the snapshot client promises its engine, without the HTTP contract *)
(* that gets it there.  The analyst publishes a sequence of rule sets; the *)
(* client always holds exactly one of them, or none before the first; it   *)
(* moves only forward along the sequence; and it enforces nothing until it *)
(* has heard an answer once (src/camada/snapshot/client.py, header and     *)
(* `verdict`).                                                             *)
(***************************************************************************)
EXTENDS Naturals, Sequences

CONSTANTS RuleSets,   \* everything the analyst can publish
          NoRules     \* "no snapshot published": enforce nothing

VARIABLES published,  \* the rule sets published so far, oldest first
          at,         \* how far along `published` the client is; 0 before the first
          held,       \* the rules the client holds
          warm        \* the client has had an answer: `held` is enforced

vars == <<published, at, held, warm>>

Init == /\ published \in {<<r>> : r \in RuleSets \cup {NoRules}}
        /\ at = 0
        /\ held = NoRules
        /\ warm = FALSE

\* The analyst publishes; the client does not notice.
Publish == /\ \E r \in RuleSets \cup {NoRules} : published' = Append(published, r)
           /\ UNCHANGED <<at, held, warm>>

\* The client takes up a publication no older than the one it holds.
TakeUp == /\ \E g \in 1..Len(published) : /\ g >= at
                                          /\ at' = g
                                          /\ held' = published[g]
          /\ UNCHANGED <<published, warm>>

\* The first answer has been dealt with: from here on `held` is enforced.
WarmUp == /\ warm' = TRUE
          /\ UNCHANGED <<published, at, held>>

Next == Publish \/ TakeUp \/ WarmUp

Spec == Init /\ [][Next]_vars
=============================================================================

---------------------------- MODULE MCRequestPath ----------------------------
(* Small instances of RequestPath for TLC. *)
EXTENDS RequestPath

CONSTANTS r1, proxy, visitor

\* A snapshot that lists the visitor, one that lists the proxy in front of everybody, each with a
\* custom rule that challenges whoever else comes.  The rules of a client without a snapshot pass all.
MCRulesets ==
    {[a \in Addresses |-> IF a = visitor THEN "block" ELSE "challenge"],
     [a \in Addresses |-> IF a = proxy THEN "block" ELSE "challenge"]}

\* The proxy trusted, the beacon off, events sampled; and a tenant without a proxy, events excluded.
MCConfigs ==
    {[known |-> TRUE, proxy |-> TRUE, beacon |-> FALSE, ships |-> {TRUE, FALSE}],
     [known |-> TRUE, proxy |-> FALSE, beacon |-> TRUE, ships |-> {FALSE}]}
\* And answers that bring none, or one that cannot be read.
MCHeaders == MCConfigs \cup {NoConfig}
=============================================================================

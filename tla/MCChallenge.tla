----------------------------- MODULE MCChallenge -----------------------------
(* Small instances of Challenge for TLC. *)
EXTENDS Challenge, TLC

CONSTANTS home, cafe, a, b

\* One host's clock is ahead of the other's.
MCAhead == (a :> 0) @@ (b :> 1)
=============================================================================

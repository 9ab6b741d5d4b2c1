-------------------------- MODULE MCSnapshotClient --------------------------
(* Small instances of SnapshotClient for TLC. *)
EXTENDS SnapshotClient, TLC

CONSTANTS v5, v4, bare, e5, e4, keep, slow, l1, l2, r1

\* Two snapshots of one publish, under one version and two etags; one answered without an etag.
MCVersionOf == (v5 :> 1) @@ (v4 :> 1) @@ (bare :> 2)
MCEtagOf == (v5 :> e5) @@ (v4 :> e4) @@ (bare :> NoEtag)

\* poll_seconds below the shortest cadence, which changes nothing, and above the default.
MCPollOf == (keep :> 0) @@ (slow :> 2)

Twin == {[body |-> v5, config |-> slow], [body |-> v4, config |-> keep]}
None == {[body |-> NoBody, config |-> slow]}
Bare == {[body |-> bare, config |-> slow]}
TwinAndNone == Twin \cup None
TwinAndBare == Twin \cup Bare

Twins == Permutations({l1, l2})
=============================================================================

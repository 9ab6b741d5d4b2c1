------------------------------ MODULE Cadence -------------------------------
(***************************************************************************)
(* Which ticks of the poll timer poll: _run, stale, _due and the gate of   *)
(* snapshot/client.py, on a clock finer than the interval.  The first poll *)
(* is that of start(); a tick comes a full interval after the one before   *)
(* it, or a little later.  No requests poll in between.                    *)
(***************************************************************************)
EXTENDS Integers, Sequences

CONSTANTS Refresh, Floor   \* refresh_s and POLL_FLOOR_S, in units of the clock

ASSUME CadenceAssumption == Refresh \in Nat \ {0} /\ Floor \in Nat

Answered == -1             \* a poll that was; one that failed has the seconds of its retry-after

\* A tick is so late, and its poll, if it polls, is done after so long, in an interval at most: while a
\* poll takes longer than that, no tick can poll.
Ticks == [late : Nat, took : 0..Refresh, end : Nat \cup {Answered}]

IsStaleMutant(age) == age >= Refresh   \* the full interval
IsStale(age) == 10 * age > 9 * Refresh

Least(a, b) == IF a < b THEN a ELSE b
Gate(retry) == Least(IF retry > Floor THEN retry ELSE Floor, Refresh)

\* What a tick at time t does, `took` units before its poll ends, after what is known of those before:
\* the time of the last answer, the gate, and when the slot is free again.
Tick(was, t, took, end) ==
    LET polls == was.free <= t /\ IsStale(t - was.loaded) /\ t >= was.gate
    IN IF ~polls THEN [was EXCEPT !.polls = FALSE]
       ELSE [polls |-> TRUE, free |-> t + took,
             loaded |-> IF end = Answered THEN t + took ELSE was.loaded,
             gate |-> IF end = Answered THEN 0 ELSE t + took + Gate(end)]

\* Never loaded is stale whatever the clock reads.
NeverLoaded == [polls |-> FALSE, free |-> 0, loaded |-> -2 * Refresh, gate |-> 0]

Polls(ticks) ==
    LET at[i \in DOMAIN ticks] == IF i = 1 THEN 0 ELSE at[i - 1] + Refresh + ticks[i].late
        run[i \in DOMAIN ticks] ==
            Tick(IF i = 1 THEN NeverLoaded ELSE run[i - 1], at[i], ticks[i].took, ticks[i].end)
    IN [i \in DOMAIN ticks |-> run[i].polls]
=============================================================================

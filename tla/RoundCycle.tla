----------------------------- MODULE RoundCycle -----------------------------
(***************************************************************************)
(* What a match promises to whoever watches its scoreboard, without its    *)
(* players: it waits, then plays at most RoundsTotal rounds of shopping    *)
(* and fighting, gives at most one point at the end of each fight and      *)
(* none anywhere else, and once over stays as it is.                       *)
(***************************************************************************)
EXTENDS Integers

CONSTANT RoundsTotal    \* a natural number

VARIABLES
    phase,
    played,     \* rounds fought to their end
    a, b        \* rounds won by each team

cycleVars == <<phase, played, a, b>>

CycleTypeOK ==
    /\ phase \in {"waiting", "between", "shopping", "fighting", "over"}
    /\ played \in Nat
    /\ a \in Nat
    /\ b \in Nat

Init ==
    /\ phase = "waiting"
    /\ played = 0
    /\ a = 0
    /\ b = 0

Turn(from, to) ==
    /\ phase = from
    /\ phase' = to

Open ==
    /\ Turn("waiting", "between")
    /\ UNCHANGED <<played, a, b>>

Shop ==
    /\ Turn("between", "shopping")
    /\ played < RoundsTotal
    /\ UNCHANGED <<played, a, b>>

Fight ==
    /\ Turn("shopping", "fighting")
    /\ UNCHANGED <<played, a, b>>

\* A draw gives no point.
Score ==
    /\ Turn("fighting", "between")
    /\ played' = played + 1
    /\ \/ a' = a + 1 /\ UNCHANGED b
       \/ b' = b + 1 /\ UNCHANGED a
       \/ UNCHANGED <<a, b>>

Close ==
    /\ Turn("between", "over")
    /\ UNCHANGED <<played, a, b>>

Next == Open \/ Shop \/ Fight \/ Score \/ Close

Spec == Init /\ [][Next]_cycleVars

\* No more points than rounds fought, and no more rounds than configured.
ScoreWithinRounds ==
    /\ a + b <= played
    /\ played <= RoundsTotal
    /\ phase \in {"shopping", "fighting"} => played < RoundsTotal
=============================================================================

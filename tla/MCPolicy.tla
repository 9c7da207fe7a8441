------------------------------ MODULE MCPolicy ------------------------------
(***************************************************************************)
(* Limits, warnings and configuration changes with one game: "strict" and  *)
(* "late" differ in limits, level, thresholds and reset clock, so that a   *)
(* change of configuration may grow or shrink the allowance, roll the day  *)
(* over, or take it back to the previous day.                              *)
(***************************************************************************)
EXTENDS EngineAudit
CONSTANTS DayLength
MCDays == 0 .. 1
MCGrants == {-1, 0, 1}
MCConfig == [p \in {"strict", "late"} |->
    LET reset == IF p = "strict" THEN 0 ELSE 1
    IN  [accounting_day |-> [w \in Wall |-> IF w < DayLength + reset THEN 0 ELSE 1],
         day_start      |-> [d \in MCDays |-> d * (DayLength + reset)],
         limit          |-> [d \in MCDays |-> IF p = "strict" THEN 1 ELSE 2],
         allowed        |-> Wall,
         level          |-> IF p = "strict" THEN 3 ELSE 2,
         count_only     |-> TRUE,
         thresholds     |-> {1},
         notify_zero    |-> TRUE,
         checkpoint     |-> 2]]
View == <<wall, mono, cfg, mem, db, active, said>>
=============================================================================

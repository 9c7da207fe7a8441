---------------------------- MODULE MCOvercount ----------------------------
(* A day with an allowance, then a day without; one game, one timer. *)
EXTENDS EngineFaults
CONSTANTS DayLength
MCDays == 0 .. 1
MCConfig == [p \in {"weekend"} |->
    [accounting_day |-> [w \in Wall |-> w \div DayLength],
     day_start      |-> [d \in MCDays |-> d * DayLength],
     limit          |-> [d \in MCDays |-> IF d = 0 THEN 2 ELSE 0],
     allowed        |-> Wall,
     level          |-> 1,
     count_only     |-> FALSE,
     thresholds     |-> {1},
     notify_zero    |-> TRUE,
     checkpoint     |-> 2]]
=============================================================================

------------------------------ MODULE MCLedger ------------------------------
(* Accounting: two games, a day change inside the horizon, no limit. *)
EXTENDS EngineAudit, TLC
CONSTANTS DayLength, LastDay
MCDays == 0 .. LastDay
MCConfig == [p \in {"plain"} |->
    [accounting_day |-> [w \in Wall |-> w \div DayLength],
     day_start      |-> [d \in MCDays |-> d * DayLength],
     limit          |-> [d \in MCDays |-> None],
     allowed        |-> Wall,
     level          |-> 1,
     count_only     |-> FALSE,
     thresholds     |-> {},
     notify_zero    |-> FALSE,
     checkpoint     |-> 2]]
Symmetry == Permutations(Games)
\* No property of this run looks at the events, and no step reads them.
View == <<wall, mono, cfg, mem, db, active, said>>
=============================================================================

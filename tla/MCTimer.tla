------------------------------ MODULE MCTimer ------------------------------
(* The timer alone: it counts without a game, and play ends at instant 3. *)
EXTENDS EngineAudit
MCAdjustments == {-1, 0, 2}
MCConfig == [p \in {"always"} |->
    [accounting_day |-> [w \in Wall |-> 0],
     day_start      |-> [d \in Days |-> 0],
     limit          |-> [d \in Days |-> None],
     allowed        |-> Wall \ {3},
     level          |-> 1,
     count_only     |-> FALSE,
     thresholds     |-> {1, 2},
     notify_zero    |-> TRUE,
     checkpoint     |-> 2]]
\* No step reads the events, and the properties see them only in `said'.
View == <<wall, mono, cfg, mem, db, active, said>>
=============================================================================

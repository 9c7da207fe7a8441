---------------------------- MODULE EngineFaults ----------------------------
(***************************************************************************)
(* The engine when a write to the database fails in the middle of a tick   *)
(* (disk full, database locked).  The exception leaves what the tick did   *)
(* so far in memory and in the database; the baselines, set last, stay     *)
(* behind.  The caller survives: the RPC server answers with an error.     *)
(***************************************************************************)
EXTENDS EngineAudit

\* The tick got as far as t, and the next write it makes fails.  Not among the
\* faults: open_session failing between the two halves of a roll-over, which
\* leaves a game without a row, for which every later checkpoint raises.
TickFails ==
    /\ Running
    /\ \E t \in TickStages(S, C) :
        /\ t.db # Ticked.db
        /\ (t.mem.game = None) = (t.db.open = None)
        /\ mem' = t.mem
        /\ db' = t.db
    /\ out' = <<>>
    /\ UNCHANGED <<wall, mono, cfg, active, said>>

FaultNext == AuditNext \/ TickFails

FaultSpec == AuditInit /\ [][FaultNext]_auditVars

\* engine.py:167: "only active elapsed time is counted".  The time counted, on
\* all days together, is never more than the time a game was active.
NoOvercount == Recorded(db) + Unsaved <= active

=============================================================================

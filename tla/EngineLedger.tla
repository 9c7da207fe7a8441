---------------------------- MODULE EngineLedger ----------------------------
(* The engine and its database, seen as a PlayLedger. *)
EXTENDS Engine

\* The durable time of a day is the sum of its session rows; the time counted
\* is the same with the open row replaced by the session in memory.
DurableTime == [d \in Days |-> usage_for_day(db, d)]

CountedTime ==
    [d \in Days |->
        IF Running /\ db.open # None /\ db.open.day = d
        THEN db.closed[d] + mem.session_duration
        ELSE usage_for_day(db, d)]

L == INSTANCE PlayLedger
        WITH live <- Running, counted <- CountedTime, durable <- DurableTime

\* The accounting of engine.py and storage.py implements PlayLedger: crashes
\* between any two commits, restarts, roll-overs and clock changes included.
ImplementsLedger == L!LedgerSpec

=============================================================================

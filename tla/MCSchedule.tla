----------------------------- MODULE MCSchedule -----------------------------
(* Four days of six slots in a week of three; the clock goes forward or back *)
(* by up to two slots at any instant of the second day.                       *)
EXTENDS Schedule
MCZones == [at : 6 .. 12, before : 6 .. 8, after : 6 .. 8]
MCSchedules ==
    {{}} \cup { {[days |-> {1}, start |-> c[1], end |-> c[2]]} :
                   c \in { c \in (0 .. 5) \X (0 .. 5) : c[1] # c[2] } }
    \cup {{[days |-> {0, 2}, start |-> 4, end |-> 2], [days |-> {1}, start |-> 1, end |-> 3]}}
=============================================================================

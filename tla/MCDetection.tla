---------------------------- MODULE MCDetection ----------------------------
(* Two games of one tracked process, which go by two names.  Behaviour after a *)
(* fault is not followed: no property says anything of it, and a restart, which *)
(* ends it, leads to a state that is also reached without the fault.            *)
EXTENDS Detection
UpToFirstFault == ~mishap
MCSymmetry == Permutations(Games)
=============================================================================

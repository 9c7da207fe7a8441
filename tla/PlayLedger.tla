----------------------------- MODULE PlayLedger -----------------------------
(***************************************************************************)
(* What the accounting of play time promises, whatever sessions, ticks and *)
(* checkpoints it is made of.  For each accounting day there is the time   *)
(* counted so far and the part of it that is durable.                      *)
(*   - A running service only ever adds time, and makes time durable.      *)
(*   - A stop, orderly or not, may lose time that was not durable, never   *)
(*     time that was.                                                      *)
(*   - A start changes nothing: the service counts on from what is durable.*)
(*   - Only the owner's purge of the history removes durable time.         *)
(***************************************************************************)
EXTENDS Naturals

CONSTANT Days
VARIABLES live, counted, durable

ledgerVars == <<live, counted, durable>>

Empty == [d \in Days |-> 0]

LedgerInit == live = FALSE /\ counted = Empty /\ durable = Empty

Grows(old, new) == \A d \in Days : old[d] <= new[d]

Count ==
    /\ live /\ live' = TRUE
    /\ Grows(counted, counted')
    /\ Grows(durable, durable')
    /\ Grows(durable', counted')

Stop ==
    /\ live /\ live' = FALSE
    /\ Grows(durable, durable')
    /\ counted' = durable'

Start == ~live /\ live' = TRUE /\ UNCHANGED <<counted, durable>>

Purge == live /\ live' = TRUE /\ counted' = Empty /\ durable' = Empty

LedgerNext == Count \/ Stop \/ Start \/ Purge

LedgerSpec == LedgerInit /\ [][LedgerNext]_ledgerVars

=============================================================================

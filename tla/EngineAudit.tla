---------------------------- MODULE EngineAudit ----------------------------
(***************************************************************************)
(* Engine with an observer the program does not have.                      *)
(*   active  the monotonic time during which a game was timed and the      *)
(*           service was not suspended, less what a crash made it forget   *)
(*   said    the thresholds announced in each scope (the timer, each day)  *)
(*           since time was last added to that scope, and whether one was  *)
(*           repeated                                                      *)
(* The properties compare what the engine recorded and announced with it.  *)
(***************************************************************************)
EXTENDS EngineLedger, FiniteSetsExt

VARIABLES active, said

auditVars == <<vars, active, said>>

\* The modelled days, over which the recorded time is summed.
ASSUME DaysAssumption == IsFiniteSet(Days)

\* All play time in the database, over all days.
Recorded(d) == MapThenSumSet(LAMBDA day : usage_for_day(d, day), Days)

Timing == Running /\ mem.game # None /\ ~mem.suspended

\* Play time since the last tick, and play time counted but not stored yet.
InFlight == IF Timing THEN mono - mem.tick_mono ELSE 0
Unsaved  ==
    IF Running /\ db.open # None THEN mem.session_duration - db.open.duration ELSE 0

Nothing == [timer |-> {}, daily |-> [d \in Days |-> {}], repeated |-> FALSE]

AuditInit == Init /\ active = 0 /\ said = Nothing

Warned(events, scope) ==
    {events[i].threshold : i \in {j \in DOMAIN events :
        events[j].kind = "notification.warning" /\ events[j].scope = scope}}

Happened(kind) == \E i \in DOMAIN out' : out'[i].kind = kind

\* The warnings of some events, added to what was heard on that day before.
Heard(h, events, day) ==
    LET timer == Warned(events, "timer")
        daily == Warned(events, "daily")
    IN  [timer    |-> h.timer \cup timer,
         daily    |-> [h.daily EXCEPT ![day] = @ \cup daily],
         repeated |-> \/ h.repeated
                      \/ timer \cap h.timer # {}
                      \/ daily \cap h.daily[day] # {}]

\* A scope to which the handler added time starts again.
Renewed(h, timerGrew, dayGrew) ==
    [h EXCEPT !.timer = IF timerGrew THEN {} ELSE @,
              !.daily = IF dayGrew THEN [@ EXCEPT ![mem'.day_key] = {}] ELSE @]

\* A handler: its tick announces, then it may add time, then it announces.
Hear(timerGrew, dayGrew) ==
    \E t \in {Ticked} :
    LET later == SubSeq(out', Len(t.out) + 1, Len(out'))
        h     == Heard(said, t.out, t.mem.day_key)
    IN  /\ said' = IF out' = <<>> /\ ~timerGrew /\ ~dayGrew THEN said
                   ELSE Heard(Renewed(h, timerGrew, dayGrew), later, mem'.day_key)
        /\ UNCHANGED active

Quiet == UNCHANGED said

\* The timer was adjusted by a positive amount, even if the 24 h cap ate it.
Extended ==
    /\ Happened("timer.adjusted")
    /\ mem'.timer.remaining > 0
    /\ mem'.timer.remaining >= Ticked.mem.timer.remaining

DailyLeft(s, c) == warning_snapshot(s, c).daily

AuditNext ==
    \/ Advance /\ active' = active + (IF Timing THEN 1 ELSE 0) /\ Quiet
    \/ SetWall /\ UNCHANGED active /\ Quiet
    \/ (Crash \/ UpdateDies) /\ active' = Recorded(db') /\ Quiet
    \/ AdjustDies /\ active' = Recorded(db') /\ said' = [said EXCEPT !.timer = {}]
    \/ (Boot \/ BootDies) /\ UNCHANGED active /\ Quiet
    \/ Shutdown /\ UNCHANGED active /\ Quiet
    \/ RestartCheckpoint /\ UNCHANGED active /\ Quiet
    \/ /\ ClearHistory
       /\ active' = Recorded(db') + Unsaved + InFlight
       /\ said' = IF db.open = None THEN [Nothing EXCEPT !.repeated = said.repeated]
                  ELSE said
    \/ (TickLoop \/ GameReported \/ GameCleared \/ Suspend \/ Resume
        \/ PauseTimer \/ ResumeTimer) /\ Hear(FALSE, FALSE)
    \/ StartTimer /\ Hear(Happened("timer.started"), FALSE)
    \/ CancelTimer /\ Hear(Happened("timer.cancelled"), FALSE)
    \/ AdjustTimer /\ Hear(Extended, FALSE)
    \/ GrantDailyTime
       /\ Hear(FALSE, \E d \in Days : db'.adjustment[d] > db.adjustment[d])
    \/ UpdateConfig
       /\ Hear(FALSE, /\ DailyLeft(Ticked, C) # None
                      /\ DailyLeft(S', C') # None
                      /\ DailyLeft(S', C') > DailyLeft(Ticked, C))

AuditSpec == AuditInit /\ [][AuditNext]_auditVars

FairAuditSpec == AuditSpec /\ Fairness

\* docs/architecture.md, Time management: wall-clock and time-zone changes "do
\* not create or remove play time".  Every second of active play is recorded in
\* exactly one session of one day, counted but unsaved, or elapsed since the
\* last tick: roll-overs, game changes, suspends, configuration changes, clock
\* jumps in either direction, shutdowns and restarts neither lose nor duplicate
\* any of it.
Conservation == Recorded(db) + Unsaved + InFlight = active

\* docs/limitations.md:37: a hard crash "can undercount up to the checkpoint
\* interval".  Play time counted and not stored is no more than that.
LossWithinInterval == \E p \in Profiles : Unsaved <= Config[p].checkpoint

\* What a crash really loses, the play since the last tick included: less than a
\* checkpoint interval plus two tick intervals, one for the time no tick has
\* counted yet and one for the slice of the new day that a roll-over counts
\* after it has reset the checkpoint baseline (engine.py:620).
LossBounded ==
    \E p \in Profiles : Unsaved + InFlight < Config[p].checkpoint + 2 * MaxTickGap

\* docs/architecture.md, Warning system: "Crossing a threshold emits one
\* notification. Adding time clears marks for that scope": no threshold of the
\* timer or of a day is announced twice unless time was added in between, even
\* when a crash or a restart takes the remaining time back above it.
WarnedOnce == ~said.repeated

=============================================================================

---------------------------- MODULE Enforcement ----------------------------
(***************************************************************************)
(* Dispatch of the engine's events (service.py) and the enforcement flow   *)
(* they arm and cancel (enforcement.py).                                   *)
(*                                                                         *)
(* Everything runs on one asyncio loop.  A handler calls the engine under  *)
(* the lock and dispatches the events it got after releasing it.  Dispatch *)
(* gives up the loop only while notify-send runs (NativeNotifier.send):    *)
(* handlers of other tasks, their dispatch and the flow may run there.     *)
(* `turn' is the task that has the loop.                                   *)
(*                                                                         *)
(* Of the engine there is what dispatch and enforcement look at: the game, *)
(* and the restriction.  Each handler ticks, which may warn and change the *)
(* restriction, and then does its own work.                                *)
(***************************************************************************)
EXTENDS Naturals, Sequences

CONSTANTS
    None,      \* no game, no flow, no task
    Games,     \* identities of games
    Tasks,     \* tick loop, detector consumer and RPC connections
    Reasons,   \* reasons of a restriction
    Levels,    \* restriction levels in use
    Options    \* safe_process_fallback and force_kill_enabled, in use together

ASSUME LevelAssumption == Levels \subseteq 0 .. 3
ASSUME OptionAssumption == Options \subseteq [fallback : BOOLEAN, force : BOOLEAN]

VARIABLES
    eng,      \* current_game, restriction_reason, restriction_level
    opts,     \* the two options of the restriction that a plan copies
    todo,     \* what each task has still to dispatch
    turn,     \* the task that is running, None when the loop is free
    flow,     \* EnforcementManager._task
    asked,    \* history: the present game was asked to close under `eng'
    overlap   \* history: a handler ran while another task was dispatching

vars == <<eng, opts, todo, turn, flow, asked, overlap>>

Views   == [reason : Reasons, level : Levels] \cup {[reason |-> None, level |-> 0]}
Ops     == [op : {"send", "cancel"}]
           \cup [op : {"activated"}, level : 1 .. 3] \cup [op : {"launched"}, level : 2 .. 3]
Phases  == {"grace", "closing", "term", "waiting", "kill"}
Flow    == [game : Games, level : 2 .. 3, fallback : BOOLEAN, force : BOOLEAN,
            phase : Phases]

ASSUME NoneAssumption == None \notin Games \cup Tasks \cup Reasons /\ None \notin Flow

\* Every operation waiting to be dispatched and every flow has a level that its
\* event can carry: below level 2 nothing is armed by a launch, and no flow exists.
TypeOK ==
    /\ eng \in [game : Games \cup {None}, view : Views]
    /\ opts \in Options
    /\ todo \in [Tasks -> Seq(Ops)]
    /\ turn \in Tasks \cup {None}
    /\ flow \in Flow \cup {None}
    /\ asked \in BOOLEAN /\ overlap \in BOOLEAN

-----------------------------------------------------------------------------
(* What dispatching the events of a handler comes down to. *)

Send   == <<[op |-> "send"]>>
Cancel == <<[op |-> "cancel"]>>

\* _dispatch of the warnings and of the event of _refresh_restriction, if there
\* are any.  The notice of restriction.activated is sent before it is acted upon,
\* as the warnings are: one notification stands for all of them.  Of the other two
\* events only restriction.cleared cancels; allowance.exhausted does nothing.
Change(old, new, notified) ==
    (IF notified THEN Send ELSE <<>>)
    \o (IF old = new THEN <<>>
        ELSE IF new.reason = None THEN Cancel
        ELSE IF new.level = 0 THEN <<>>
        ELSE <<[op |-> "activated", level |-> new.level]>>)

\* Faulty variant: game.stopped does not cancel.
StoppedSilently(game) == <<>>

\* The event of _close_current_game.
Stopped(game) == IF game = None THEN <<>> ELSE Cancel

\* Faulty variants: a game under level 2 is not followed up; any game is.
LaunchedAtThreeOnly(level) ==
    IF level < 3 THEN <<>> ELSE <<[op |-> "launched", level |-> level]>>

LaunchedAtAnyLevel(level) == <<[op |-> "launched", level |-> level]>>

\* The event of set_game for a new game under a restriction.
Launched(level) ==
    IF level < 2 THEN <<>> ELSE <<[op |-> "launched", level |-> level]>>

\* EnforcementManager.arm: it replaces the flow, whose task is cancelled.  The
\* plan is a copy of the options at this moment.
Armed(game, level) ==
    [game |-> game, level |-> level, fallback |-> opts.fallback, force |-> opts.force,
     phase |-> "grace"]

MaxOf(m, n) == IF m > n THEN m ELSE n

\* The flow after one operation.  The game armed for is the engine's game of
\* this moment, the level that of the event, or at least that.
Dispatched(o) ==
    CASE o.op = "cancel" -> None
      [] o.op = "activated" ->
            IF eng.game # None /\ o.level >= 2 THEN Armed(eng.game, o.level) ELSE flow
      [] o.op = "launched" ->
            IF eng.game # None THEN Armed(eng.game, MaxOf(o.level, eng.view.level)) ELSE flow
      [] OTHER -> flow

-----------------------------------------------------------------------------
Init ==
    /\ eng \in [game : {None}, view : Views]
    /\ opts \in Options
    /\ todo = [t \in Tasks |-> <<>>]
    /\ turn = None
    /\ flow = None
    /\ asked = FALSE
    /\ overlap = FALSE

Idle(t) == turn = None /\ todo[t] = <<>>

Pending(t) == \E u \in Tasks \ {t} : todo[u] # <<>>

Effective(ops) == \E i \in DOMAIN ops : ops[i].op # "send"

\* A handler of task t leaves the engine as new and has ops to dispatch.
Handled(t, new, ops) ==
    /\ eng' = new
    /\ todo' = [todo EXCEPT ![t] = ops]
    /\ turn' = IF ops = <<>> THEN None ELSE t
    /\ asked' = (asked /\ new = eng)
    /\ overlap' = (Pending(t) \/ (overlap /\ ~Effective(ops)))
    /\ UNCHANGED flow

\* A tick, or an RPC that ticks and then changes limits, timer or adjustments:
\* each of the two may warn and change the restriction.
Policy(t) ==
    \E v1, v2 \in Views, n1, n2 \in BOOLEAN :
        Handled(t, [eng EXCEPT !.view = v2],
                Change(eng.view, v1, n1) \o Change(v1, v2, n2))

PolicyHandler(t) == Idle(t) /\ Policy(t) /\ UNCHANGED opts

ConfigUpdated(t) == Idle(t) /\ Policy(t) /\ opts' \in Options

GameReported(t) ==
    /\ Idle(t)
    /\ \E g \in Games, v \in Views, n \in BOOLEAN :
        Handled(t, [game |-> g, view |-> v],
                Change(eng.view, v, n)
                \o IF g = eng.game THEN <<>> ELSE Stopped(eng.game) \o Launched(v.level))
    /\ UNCHANGED opts

GameCleared(t) ==
    /\ Idle(t)
    /\ \E v \in Views, n \in BOOLEAN :
        Handled(t, [game |-> None, view |-> v],
                Change(eng.view, v, n) \o Stopped(eng.game))
    /\ UNCHANGED opts

\* The running task dispatches its next event, up to the next notification.
Dispatch(t) ==
    /\ turn = t
    /\ Head(todo[t]).op # "send"
    /\ flow' = Dispatched(Head(todo[t]))
    /\ todo' = [todo EXCEPT ![t] = Tail(@)]
    /\ turn' = IF Tail(todo[t]) = <<>> THEN None ELSE t
    /\ UNCHANGED <<eng, opts, asked, overlap>>

\* notify-send is started and the loop is free.
Notify(t) ==
    /\ turn = t
    /\ Head(todo[t]).op = "send"
    /\ turn' = None
    /\ UNCHANGED <<eng, opts, todo, flow, asked, overlap>>

\* notify-send has ended, or timed out.
Notified(t) ==
    /\ turn = None
    /\ todo[t] # <<>>
    /\ todo' = [todo EXCEPT ![t] = Tail(@)]
    /\ turn' = IF Tail(todo[t]) = <<>> THEN None ELSE t
    /\ UNCHANGED <<eng, opts, flow, asked, overlap>>

-----------------------------------------------------------------------------
(* EnforcementManager._run, one action per await. *)

\* Faulty variant: the level has to be above that of the plan.
ApplicableAbove == eng.game = flow.game /\ eng.view.level > flow.level

\* _still_applicable.  The generation of a flow that was not cancelled is the
\* current one, and asyncio never resumes a cancelled one.
Applicable == eng.game = flow.game /\ eng.view.level >= flow.level

In(phase) == turn = None /\ flow # None /\ flow.phase = phase

Goto(phase) ==
    /\ flow' = [flow EXCEPT !.phase = phase]
    /\ UNCHANGED <<eng, opts, todo, turn, overlap>>

Finish == flow' = None /\ UNCHANGED <<eng, opts, todo, turn, asked, overlap>>

GiveUp == \E p \in {"grace", "closing", "waiting"} : In(p) /\ ~Applicable /\ Finish

\* The plugin is asked to close the game.
GraceEnds == In("grace") /\ Applicable /\ Goto("closing") /\ asked' = TRUE

CloseTimesOut ==
    /\ In("closing") /\ Applicable
    /\ IF flow.fallback THEN Goto("term") /\ UNCHANGED asked ELSE Finish

\* The scan of /proc, in a thread, has ended: SIGTERM is sent.
Terminate == In("term") /\ Goto("waiting") /\ UNCHANGED asked

TermTimesOut ==
    /\ In("waiting") /\ Applicable
    /\ IF flow.force THEN Goto("kill") /\ UNCHANGED asked ELSE Finish

\* The second scan has ended: SIGKILL is sent.
Kill == In("kill") /\ Finish

FlowStep == GiveUp \/ GraceEnds \/ CloseTimesOut \/ Terminate \/ TermTimesOut \/ Kill

Next ==
    \/ \E t \in Tasks :
        PolicyHandler(t) \/ ConfigUpdated(t) \/ GameReported(t) \/ GameCleared(t)
    \/ \E t \in Tasks : Dispatch(t) \/ Notify(t) \/ Notified(t)
    \/ GiveUp \/ GraceEnds \/ CloseTimesOut \/ Terminate \/ TermTimesOut \/ Kill

Spec == Init /\ [][Next]_vars

\* The loop runs its ready tasks, notify-send ends or times out after 5 s, sleeps
\* and scans of /proc end.  No handler has to be called.
FairSpec ==
    /\ Spec
    /\ \A t \in Tasks : WF_vars(Dispatch(t) \/ Notify(t) \/ Notified(t))
    /\ WF_vars(FlowStep)

-----------------------------------------------------------------------------
(* Properties *)

Quiescent == turn = None /\ \A t \in Tasks : todo[t] = <<>>

Restricted == eng.game # None /\ eng.view.level >= 2

Pursued == asked \/ (flow # None /\ flow.game = eng.game /\ flow.level <= eng.view.level)

\* docs/architecture.md:232, "Level 2 arms a grace period and asks the plugin",
\* and line 233, "Level 3 applies the same sequence to newly detected games":
\* once every event is dispatched, a game in front of a restriction of level 2 or
\* 3 is being pursued or has been asked to close.
RestrictedGameIsPursued == Quiescent /\ Restricted => Pursued

\* The same, unless a handler ran while another task was waiting for notify-send
\* in the middle of its dispatch: no other sequence of reports, restrictions,
\* changes of level and late flows loses the pursuit.
PursuedUnlessOvertaken == Quiescent /\ ~overlap /\ Restricted => Pursued

\* Without such an overtaking nothing is pursued that should not be: no flow is
\* left when there is no game or no reason.
NoFlowWithoutCause ==
    Quiescent /\ ~overlap /\ (eng.game = None \/ eng.view.reason = None) => flow = None

\* Overtaken or not, once every event is dispatched no flow pursues a game other
\* than the one in front: the game that was closed is let go.
FlowOfPresentGame == Quiescent /\ flow # None => flow.game = eng.game

\* When the service comes to rest, the flow has come to its end, and a game still
\* restricted has been asked to close.
EnforcementSettles ==
    <>[]Quiescent => <>[](flow = None /\ (Restricted /\ ~overlap => asked))

=============================================================================

----------------------------- MODULE Detection -----------------------------
(***************************************************************************)
(* How the daemon learns which game runs: the follower of Steam's process  *)
(* log (steam_log.py), the scan of /proc (procfs.py), the arbitration      *)
(* between the two (composite.py), the reports of the Decky plugin         *)
(* (index.tsx) and the consumer that turns all of it into set_game and     *)
(* stop_game (service.py).                                                 *)
(*                                                                         *)
(* Steam itself is external: it runs games, tracks their processes, writes *)
(* the log and may rotate it.  The arbitration handles an event in the     *)
(* step that emits it, because it takes them first in, first out and looks *)
(* at nothing else.  The process counts by which a scan prefers one of     *)
(* several games are left out: it may prefer any.                          *)
(***************************************************************************)
EXTENDS Naturals, Sequences, FiniteSets, SequencesExt

CONSTANTS
    None,        \* no game, no key
    Games,       \* App IDs
    Pids,        \* processes that Steam may track for a game
    Names,       \* names a game may go by
    FirstName,   \* the one in the app manifests
    Plugins,     \* whether the Decky plugin is installed
    Faults,      \* what may go wrong, of FaultKinds
    MaxUnread,   \* bound on the lines of the log not yet read
    MaxQueue,    \* bound on the events waiting for the consumer when one is added
    MaxReports   \* bound on the reports that are due, and on those under way

FaultKinds == {"rotate", "rename", "fail", "lose", "overtake", "restart"}

ASSUME FaultAssumption == Faults \subseteq FaultKinds
ASSUME NameAssumption  == FirstName \in Names
ASSUME GamesAssumption == IsFiniteSet(Games)
ASSUME BoundAssumption == MaxUnread \in Nat /\ MaxReports \in Nat
ASSUME PluginAssumption == Plugins \subseteq BOOLEAN

VARIABLES
    listed,    \* external: Steam's running list
    procs,     \* external: the processes of each game
    log,       \* the log: lines not read, a rotation not noticed, reader alive
    parser,    \* SteamLogParser: pids and names
    last,      \* ProcfsDetector._last
    arbiter,   \* CompositeDetector: priority and key of the source in charge
    queue,     \* detector_queue, from the arbitration to the consumer
    current,   \* the engine's current_game
    recent,    \* decky_signal_is_recent
    plugin,    \* the plugin: installed, reports due, reports under way
    mishap,    \* history: a fault since the daemon started
    overlap    \* history: two games ran together since there last was none

steam == <<listed, procs>>
vars  == <<listed, procs, log, parser, last, arbiter, queue, current, recent, plugin,
           mishap, overlap>>

Maybe(T)  == T \cup {None}
Identity  == [app : Games, name : Names, source : {"steam_log", "procfs"}]
Key       == [app : Games, name : Names]
Event     == [type : {"started", "changed", "stopped"}, game : Identity]
Line      == [op : {"track", "untrack"}, app : Games, pid : Pids]
             \cup [op : {"remove"}, app : Games]
             \cup [op : {"name"}, app : Games, name : Names]
Timed     == [app : Games, source : {"steam_log", "procfs", "decky"}]
Priority  == [steam_log |-> 80, procfs |-> 50]

ASSUME NoneAssumption == None \notin Games \cup Identity \cup Key \cup Timed

\* The bounds on the queues, and the link between the two halves of the arbiter:
\* a source is in charge exactly when there is a key to stop.
TypeOK ==
    /\ listed \subseteq Games
    /\ procs \in [Games -> SUBSET Pids]
    /\ log \in [unread : Seq(Line), rotated : BOOLEAN, alive : BOOLEAN]
    /\ Len(log.unread) <= MaxUnread
    /\ parser \in [pids : [Games -> SUBSET Pids], names : [Games -> Names]]
    /\ last \in Maybe([app : Games, name : Names, source : {"procfs"}])
    /\ arbiter \in [priority : {0, 50, 80}, key : Maybe(Key)]
    /\ (arbiter.priority = 0) = (arbiter.key = None)
    /\ queue \in Seq(Event)
    /\ current \in Maybe(Timed)
    /\ plugin \in [installed : BOOLEAN, due : 0 .. MaxReports, sent : Seq(Maybe(Games))]
    /\ recent \in BOOLEAN /\ mishap \in BOOLEAN /\ overlap \in BOOLEAN

-----------------------------------------------------------------------------
(* The daemon's side, as functions of its state *)

KeyOf(game) == [app |-> game.app, name |-> game.name]

NoSource == [priority |-> 0, key |-> None]

\* Faulty variant: a source does not stop what it started itself.
ForwardedIfAbove(a, event) ==
    IF event.type = "stopped"
    THEN /\ Priority[event.game.source] > a.priority
         /\ a.key \in {None, KeyOf(event.game)}
    ELSE Priority[event.game.source] >= a.priority

\* CompositeDetector.run: is the event passed on?
Forwarded(a, event) ==
    /\ Priority[event.game.source] >= a.priority
    /\ event.type = "stopped" => a.key \in {None, KeyOf(event.game)}

\* Faulty variant: the priority is reset, the key is not.
ArbitrateKeepingKey(s, event) ==
    IF ~Forwarded(s.arbiter, event) THEN s
    ELSE [s EXCEPT !.queue = Append(@, event),
                   !.arbiter = [priority |-> IF event.type = "stopped" THEN 0
                                             ELSE Priority[event.game.source],
                                key |-> KeyOf(event.game)]]

\* CompositeDetector.run for one event; s holds the arbiter and the queue.
Arbitrate(s, event) ==
    IF ~Forwarded(s.arbiter, event) THEN s
    ELSE [s EXCEPT !.queue = Append(@, event),
                   !.arbiter = IF event.type = "stopped" THEN NoSource
                               ELSE [priority |-> Priority[event.game.source],
                                     key |-> KeyOf(event.game)]]

\* SteamLogParser._identity
SteamIdentity(s, app) == [app |-> app, name |-> s.names[app], source |-> "steam_log"]

\* SteamLogParser.feed_line, with what becomes of the event it returns.
FeedLine(s, line) ==
    CASE line.op = "name" -> [s EXCEPT !.names[line.app] = line.name]
      [] line.op = "track" ->
            LET t == [s EXCEPT !.pids[line.app] = @ \cup {line.pid}]
            IN  IF s.pids[line.app] # {} THEN t
                ELSE Arbitrate(t, [type |-> "started", game |-> SteamIdentity(t, line.app)])
      [] line.op = "untrack" -> [s EXCEPT !.pids[line.app] = @ \ {line.pid}]
      [] line.op = "remove" ->
            Arbitrate([s EXCEPT !.pids[line.app] = {}],
                      [type |-> "stopped", game |-> SteamIdentity(s, line.app)])

\* Faulty variant: the first scan only sets the baseline.
ScanEventsAfterFirst(detected) ==
    IF last = None THEN <<>>
    ELSE IF detected = None THEN <<[type |-> "stopped", game |-> last]>>
    ELSE <<[type |-> "changed", game |-> detected]>>

\* ProcfsDetector.run: what it puts out for a scan whose result differs from the
\* last one.
ScanEvents(detected) ==
    IF detected = None THEN <<[type |-> "stopped", game |-> last]>>
    ELSE <<[type |-> IF last = None THEN "started" ELSE "changed", game |-> detected]>>

\* _consume_detector: the game after one event.  set_game of the same App ID
\* replaces the identity, and with it the source.
Consumed(event) ==
    CASE recent /\ current # None /\ current.source = "decky" -> current
      [] event.type = "stopped" ->
            IF current # None /\ current.app # event.game.app THEN current ELSE None
      [] OTHER -> [app |-> event.game.app, source |-> event.game.source]

-----------------------------------------------------------------------------
(* Steam and its log *)

NoProcs == [g \in Games |-> {}]

Init ==
    /\ listed \in SUBSET Games
    /\ procs = [g \in Games |-> IF g \in listed THEN Pids ELSE {}]
    /\ log = [unread |-> <<>>, rotated |-> FALSE, alive |-> TRUE]
    /\ parser = [pids |-> NoProcs, names |-> [g \in Games |-> FirstName]]
    /\ last = None
    /\ arbiter = NoSource
    /\ queue = <<>>
    /\ current = None
    /\ recent = FALSE
    /\ plugin \in [installed : Plugins, due : {0}, sent : {<<>>}]
    /\ mishap = FALSE
    /\ overlap = (Cardinality(listed) > 1)

Daemon == <<parser, last, arbiter, queue, current, recent>>

\* Steam appends a line; without a reader it is of no more concern.
Written(line) ==
    IF log.alive
    THEN /\ Len(log.unread) < MaxUnread
         /\ log' = [log EXCEPT !.unread = Append(@, line)]
    ELSE UNCHANGED log

\* definePlugin: 750 ms after each lifetime notification a report is due.
Notification ==
    /\ plugin.due < MaxReports
    /\ plugin' = [plugin EXCEPT !.due = IF plugin.installed THEN @ + 1 ELSE @]

Listed(games) ==
    /\ listed' = games
    /\ overlap' = (Cardinality(games) > 1 \/ (overlap /\ games # {}))
    /\ IF games = listed THEN UNCHANGED plugin ELSE Notification

ProcessStarts(g, p) ==
    /\ p \notin procs[g]
    /\ procs' = [procs EXCEPT ![g] = @ \cup {p}]
    /\ Listed(listed \cup {g})
    /\ Written([op |-> "track", app |-> g, pid |-> p])
    /\ UNCHANGED <<Daemon, mishap>>

ProcessEnds(g, p) ==
    /\ p \in procs[g]
    /\ procs' = [procs EXCEPT ![g] = @ \ {p}]
    /\ Written([op |-> "untrack", app |-> g, pid |-> p])
    /\ UNCHANGED <<listed, plugin, Daemon, mishap, overlap>>

GameEnds(g) ==
    /\ g \in listed
    /\ procs' = [procs EXCEPT ![g] = {}]
    /\ Listed(listed \ {g})
    /\ Written([op |-> "remove", app |-> g])
    /\ UNCHANGED <<Daemon, mishap>>

\* A line that names a game otherwise than before.
Renamed(g, n) ==
    /\ "rename" \in Faults
    /\ n # parser.names[g]
    /\ Written([op |-> "name", app |-> g, name |-> n])
    /\ mishap' = TRUE
    /\ UNCHANGED <<steam, plugin, Daemon, overlap>>

Rotated ==
    /\ "rotate" \in Faults
    /\ ~log.rotated
    /\ log' = [log EXCEPT !.rotated = TRUE]
    /\ UNCHANGED <<steam, plugin, Daemon, mishap, overlap>>

-----------------------------------------------------------------------------
(* The detectors *)

\* SteamLogDetector.run, one turn of the loop.  After a rotation the new file is
\* opened at its end: what was not read of the old one and what is in the new one
\* already is skipped.
ReadLog ==
    /\ log.alive
    /\ log.unread # <<>> \/ log.rotated
    /\ Len(queue) <= MaxQueue
    /\ log' = [log EXCEPT !.unread = <<>>, !.rotated = FALSE]
    /\ IF log.rotated
       THEN /\ mishap' = (mishap \/ log.unread # <<>>)
            /\ UNCHANGED <<parser, arbiter, queue>>
       ELSE LET s == FoldLeft(FeedLine, [pids |-> parser.pids, names |-> parser.names,
                                         arbiter |-> arbiter, queue |-> queue], log.unread)
            IN  /\ parser' = [pids |-> s.pids, names |-> s.names]
                /\ arbiter' = s.arbiter
                /\ queue' = s.queue
                /\ UNCHANGED mishap
    /\ UNCHANGED <<steam, last, current, recent, plugin, overlap>>

\* The adapter reports an error and ends; nobody starts it again.
ReaderFails ==
    /\ "fail" \in Faults
    /\ log.alive
    /\ log' = [log EXCEPT !.alive = FALSE, !.unread = <<>>]
    /\ mishap' = TRUE
    /\ UNCHANGED <<steam, Daemon, plugin, overlap>>

WithProcesses == {g \in Games : procs[g] # {}}

ScanResults ==
    IF WithProcesses = {} THEN {None}
    ELSE [app : WithProcesses, name : Names, source : {"procfs"}]

\* ProcfsDetector.run and scan.
Scan ==
    \E detected \in ScanResults :
        /\ detected # last
        /\ Len(queue) <= MaxQueue
        /\ last' = detected
        /\ LET s == FoldLeft(Arbitrate, [arbiter |-> arbiter, queue |-> queue],
                             ScanEvents(detected))
           IN  arbiter' = s.arbiter /\ queue' = s.queue
        /\ UNCHANGED <<steam, log, parser, current, recent, plugin, mishap, overlap>>

\* _consume_detector, one event.
Consume ==
    /\ queue # <<>>
    /\ queue' = Tail(queue)
    /\ current' = Consumed(Head(queue))
    /\ UNCHANGED <<steam, log, parser, last, arbiter, recent, plugin, mishap, overlap>>

-----------------------------------------------------------------------------
(* The plugin *)

\* MainRunningApp, external: one of the games that run, if there is one.
Foreground == IF listed = {} THEN {None} ELSE listed

Report(d) ==
    /\ plugin.installed
    /\ Len(plugin.sent) < MaxReports
    /\ \E g \in Foreground :
        plugin' = [plugin EXCEPT !.due = d, !.sent = Append(@, g)]
    /\ UNCHANGED <<steam, log, Daemon, mishap, overlap>>

\* reportCurrentForeground, from the timer of a notification.
ReportDue == plugin.due > 0 /\ Report(plugin.due - 1)

\* reportCurrentForeground, from the panel, which reports while it is visible, and
\* when the plugin is loaded.
ReportFromPanel == Report(plugin.due)

\* _report_foreground.  Each report has a connection of its own: a later one may
\* be served first.
ReportArrives(i) ==
    /\ i \in DOMAIN plugin.sent
    /\ i > 1 => "overtake" \in Faults
    /\ plugin' = [plugin EXCEPT !.sent = RemoveAt(@, i)]
    /\ current' = IF plugin.sent[i] = None THEN None
                  ELSE [app |-> plugin.sent[i], source |-> "decky"]
    /\ recent' = TRUE
    /\ mishap' = (mishap \/ i > 1)
    /\ UNCHANGED <<steam, log, parser, last, arbiter, queue, overlap>>

\* The bridge cannot reach the daemon: the plugin warns and does not try again.
ReportLost ==
    /\ "lose" \in Faults
    /\ plugin.sent # <<>>
    /\ plugin' = [plugin EXCEPT !.sent = Tail(@)]
    /\ mishap' = TRUE
    /\ UNCHANGED <<steam, log, Daemon, overlap>>

\* decky_signal_ttl_seconds have passed since the last report.
SignalExpires ==
    /\ recent
    /\ recent' = FALSE
    /\ UNCHANGED <<steam, log, parser, last, arbiter, queue, current, plugin, mishap, overlap>>

\* The daemon restarts: the recovered session is closed, the log is opened at its
\* end, and the reports under way fail.
Restart ==
    /\ "restart" \in Faults
    /\ log' = [unread |-> <<>>, rotated |-> FALSE, alive |-> TRUE]
    /\ parser' = [pids |-> NoProcs, names |-> [g \in Games |-> FirstName]]
    /\ last' = None
    /\ arbiter' = NoSource
    /\ queue' = <<>>
    /\ current' = None
    /\ recent' = FALSE
    /\ plugin' = [plugin EXCEPT !.sent = <<>>]
    /\ mishap' = FALSE
    /\ UNCHANGED <<steam, overlap>>

-----------------------------------------------------------------------------
SteamStep ==
    \/ \E g \in Games, p \in Pids : ProcessStarts(g, p) \/ ProcessEnds(g, p)
    \/ \E g \in Games : GameEnds(g)
    \/ \E g \in Games, n \in Names : Renamed(g, n)
    \/ Rotated

Next ==
    \/ SteamStep
    \/ ReadLog \/ ReaderFails \/ Scan \/ Consume
    \/ ReportDue \/ ReportFromPanel \/ ReportLost \/ SignalExpires \/ Restart
    \/ \E i \in 1 .. MaxReports : ReportArrives(i)

Spec == Init /\ [][Next]_vars

\* inotify or the timeout wakes the reader, the scan runs every
\* procfs_fallback_interval_seconds, the consumer waits on its queue, and a report
\* that is due is sent and served.  The signal's age grows with the clock.
FairSpec ==
    /\ Spec
    /\ WF_vars(ReadLog) /\ WF_vars(Scan) /\ WF_vars(Consume)
    /\ WF_vars(ReportDue) /\ WF_vars(ReportArrives(1)) /\ WF_vars(SignalExpires)

-----------------------------------------------------------------------------
(* Properties *)

\* Nothing is under way: every line, process and report was seen and acted upon.
Settled ==
    /\ log.unread = <<>> /\ queue = <<>>
    /\ plugin.due = 0 /\ plugin.sent = <<>>
    /\ IF WithProcesses = {} THEN last = None ELSE last # None /\ last.app \in WithProcesses

\* docs/architecture.md:176, "The session ends only after the source no longer
\* tracks the App ID": however the lines, scans, reports and the life of the signal
\* interleave, the game that is timed when all is seen is one that Steam lists.
TimedGameRuns ==
    Settled /\ ~mishap /\ current # None => current.app \in listed

\* And no game runs without being timed, also one that ran before the daemon did,
\* unless two games were run together: the end of the one seen last ends the
\* session although the other runs on, until a scan or a report says so.
RunningGameIsTimed ==
    Settled /\ ~mishap /\ ~overlap /\ WithProcesses # {} => current # None

\* docs/architecture.md:160, "a long timeout handles missed events/rotation", and
\* line 184, "A lower-confidence detector can still drive normal policy": also then
\* a game that has ended is not timed for ever.
EndedGameIsStopped == <>[](listed = {}) => <>[](current = None)

=============================================================================

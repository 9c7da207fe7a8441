------------------------------- MODULE Daemon -------------------------------
(***************************************************************************)
(* The life of the daemon: systemd starts it, it loads its configuration,  *)
(* opens its database and serves (GuardianService, run_service); it is     *)
(* stopped in the order of GuardianService.stop, or dies.  While it serves *)
(* it publishes events (EventBus) which the bridge of the Decky backend    *)
(* (main.py) receives over a connection of its own (ipc.py).               *)
(*                                                                         *)
(* Handlers are reduced to what outlives them: an open session, rows of    *)
(* the history, a change of the settings, and the event they publish.      *)
(***************************************************************************)
EXTENDS ConfigStore, Database, Sequences, FiniteSets

CONSTANTS
    QueueSize,        \* EventBus queue_size
    MaxEvents,        \* bound on the events published
    MaxFaults,        \* bound on faults, crashes, stops and edits by hand
    WaitsForClients   \* Server.wait_closed waits for connections (Python >= 3.12)

ASSUME BoundAssumption == QueueSize \in Nat \ {0} /\ MaxEvents \in Nat /\ MaxFaults \in Nat

VARIABLES
    phase,      \* where the service is
    session,    \* whether a session row is open
    bridge,     \* the event connection: open, its queue, the last event seen and
                \* the last one published before it was opened
    published,  \* number of the last event published
    faults,     \* how much has gone wrong so far
    late,       \* history: a request was served after engine.shutdown
    stopped     \* "asked" to stop, stopped to the "end", "no"

serviceVars == <<phase, session, bridge, published, late, stopped>>
vars == <<configVars, dbVars, serviceVars, faults>>

Phases == {"down", "config", "database", "up", "stopping", "drained", "closing"}

TypeOK ==
    /\ ConfigTypeOK /\ DbTypeOK
    /\ phase \in Phases
    /\ session \in BOOLEAN
    /\ bridge \in [on : BOOLEAN, queue : Seq(1 .. MaxEvents),
                   seen : 0 .. MaxEvents, since : 0 .. MaxEvents]
    /\ Len(bridge.queue) <= QueueSize
    /\ published \in 0 .. MaxEvents
    /\ faults \in 0 .. MaxFaults
    /\ late \in BOOLEAN /\ stopped \in {"no", "asked", "end"}

Init ==
    /\ ConfigInit /\ DbInit
    /\ phase = "down"
    /\ session = FALSE
    /\ bridge = [on |-> FALSE, queue |-> <<>>, seen |-> 0, since |-> 0]
    /\ published = 0
    /\ faults = 0
    /\ late = FALSE
    /\ stopped = "end"

-----------------------------------------------------------------------------
(* EventBus and the bridge *)

\* Faulty variants: the queue has no bound; an event that finds it full is dropped.
PublishedUnbounded(queue, e) == Append(queue, e)

PublishedDroppingNew(queue, e) ==
    IF Len(queue) < QueueSize THEN Append(queue, e) ELSE queue

\* EventBus.publish: a full queue loses its oldest event.
Published(queue, e) ==
    Append(IF Len(queue) < QueueSize THEN queue ELSE Tail(queue), e)

\* _dispatch of one event.
Publish ==
    /\ published < MaxEvents
    /\ published' = published + 1
    /\ bridge' = IF bridge.on
                 THEN [bridge EXCEPT !.queue = Published(@, published + 1)]
                 ELSE bridge

\* The server accepts connections, and serves those it has accepted until the
\* process ends.
Listening == phase \in {"up", "stopping", "drained"}
Serving == Listening \/ phase = "closing"

\* Faulty variant: the bridge tries only once.
BridgeConnectsOnce ==
    /\ Listening /\ ~bridge.on /\ bridge.since = 0
    /\ bridge' = [bridge EXCEPT !.on = TRUE, !.queue = <<>>, !.since = published + 1]
    /\ UNCHANGED <<configVars, dbVars, phase, session, published, late, stopped, faults>>

\* _event_bridge connects and subscribes; what was published before is not repeated.
BridgeConnects ==
    /\ Listening /\ ~bridge.on
    /\ bridge' = [bridge EXCEPT !.on = TRUE, !.queue = <<>>, !.since = published]
    /\ UNCHANGED <<configVars, dbVars, phase, session, published, late, stopped, faults>>

\* _stream_events writes an event, and the bridge emits it to the frontend.
EventDelivered ==
    /\ bridge.on /\ bridge.queue # <<>>
    /\ bridge' = [bridge EXCEPT !.queue = Tail(@), !.seen = Head(bridge.queue)]
    /\ UNCHANGED <<configVars, dbVars, phase, session, published, late, stopped, faults>>

Disconnected == [bridge EXCEPT !.on = FALSE, !.queue = <<>>]

-----------------------------------------------------------------------------
(* Start *)

\* systemd: when the session begins or the owner asks for it, and RestartSec after
\* the end of a process that was not asked to stop (Restart=on-failure).
Start ==
    /\ phase = "down"
    /\ phase' = "config"
    /\ cstep' = "load"
    /\ late' = FALSE
    /\ stopped' = "no"
    /\ UNCHANGED <<file, corrupt, saving, config, owner, dbVars, session, bridge, published,
                   faults>>

LoadConfig ==
    /\ phase = "config"
    /\ ConfigStep
    /\ UNCHANGED <<dbVars, serviceVars, faults>>

ConfigLoaded ==
    /\ phase = "config" /\ cstep = "open"
    /\ phase' = "database"
    /\ dstep' = "connect"
    /\ UNCHANGED <<configVars, db, wal, shelf, history, halfway, session, bridge, published,
                   late, stopped, faults>>

OpenDatabase ==
    /\ phase = "database"
    /\ DbStep
    /\ session' = (session /\ db' # Absent)
    /\ UNCHANGED <<configVars, phase, bridge, published, late, stopped, faults>>

\* GuardianEngine.__init__ closes a session left open; rpc.start replaces a socket
\* left behind.
ServiceStarts ==
    /\ phase = "database" /\ dstep = "open"
    /\ phase' = "up"
    /\ session' = FALSE
    /\ UNCHANGED <<configVars, dbVars, bridge, published, late, stopped, faults>>

\* load or open raised: the process ends with an error.
StartFailed ==
    /\ cstep = "failed" \/ dstep = "failed"
    /\ phase' = "down"
    /\ ConfigLost /\ DatabaseLost
    /\ UNCHANGED <<session, bridge, published, late, stopped, faults>>

-----------------------------------------------------------------------------
(* Service *)

\* A handler or a detector event opens or closes a session.  The detectors and the
\* tick loop are cancelled at the start of stop, requests are served to the end.
SessionChanges ==
    /\ Serving /\ cstep = "open"
    /\ session' = ~session
    /\ late' = (late \/ phase \in {"drained", "closing"})
    /\ Commit
    /\ Publish
    /\ UNCHANGED <<configVars, phase, stopped, faults>>

UpdateConfig ==
    /\ Serving
    /\ Update \/ (saving.why = "update" /\ (Replace \/ Saved))
    /\ UNCHANGED <<dbVars, serviceVars, faults>>

WalCheckpoint ==
    /\ Serving
    /\ Checkpoint
    /\ UNCHANGED <<configVars, serviceVars, faults>>

-----------------------------------------------------------------------------
(* Stop *)

Stop(from, to) ==
    /\ phase = from /\ cstep = "open"
    /\ phase' = to

\* SIGTERM: request_stop; the tasks are cancelled.
StopRequested ==
    /\ Stop("up", "stopping")
    /\ faults < MaxFaults /\ faults' = faults + 1
    /\ stopped' = "asked"
    /\ UNCHANGED <<configVars, dbVars, session, bridge, published, late>>

\* Faulty variant: the session is not closed.
ShutdownLeavingSession ==
    /\ Stop("stopping", "drained")
    /\ UNCHANGED <<configVars, dbVars, session, bridge, published, late, stopped, faults>>

\* engine.shutdown under the lock.
Shutdown ==
    /\ Stop("stopping", "drained")
    /\ session' = FALSE
    /\ UNCHANGED <<configVars, dbVars, bridge, published, late, stopped, faults>>

\* Faulty variant: the server goes on listening until the bridge has left.
CloseServerWhenIdle ==
    /\ Stop("drained", "closing")
    /\ ~bridge.on
    /\ UNCHANGED <<configVars, dbVars, session, bridge, published, late, stopped, faults>>

\* The server listens no more.
CloseServer ==
    /\ Stop("drained", "closing")
    /\ UNCHANGED <<configVars, dbVars, session, bridge, published, late, stopped, faults>>

\* wait_closed does not return: the bridge keeps its connection open.
Held == phase = "closing" /\ WaitsForClients /\ bridge.on

\* The server has closed; the database is closed and the process ends.
StopEnds ==
    /\ Stop("closing", "down") /\ ~Held
    /\ ConfigLost /\ CloseStorage
    /\ bridge' = Disconnected
    /\ stopped' = "end"
    /\ UNCHANGED <<session, published, late, faults>>

Dies ==
    /\ phase' = "down"
    /\ ConfigLost /\ DatabaseLost
    /\ bridge' = Disconnected
    /\ UNCHANGED <<session, published, late, stopped>>

\* systemd: SIGKILL after TimeoutStopSec.  A stop that is only slow meets it as a Crash.
StopTimesOut == Held /\ Dies /\ UNCHANGED faults

-----------------------------------------------------------------------------
(* Faults *)

Fault == faults < MaxFaults /\ faults' = faults + 1

Crash == phase # "down" /\ Dies /\ Fault

ConfigFault ==
    /\ phase = "config" \/ (Serving /\ saving.why = "update")
    /\ LoadFails \/ SaveFails
    /\ Fault
    /\ UNCHANGED <<dbVars, serviceVars>>

DatabaseFault ==
    /\ phase = "database"
    /\ OpenFails \/ MoveFails
    /\ Fault
    /\ UNCHANGED <<configVars, serviceVars>>

FileDamaged ==
    /\ phase = "down"
    /\ Fault
    /\ \/ Edited /\ UNCHANGED dbVars
       \/ Damaged /\ UNCHANGED configVars
    /\ UNCHANGED serviceVars

-----------------------------------------------------------------------------
StartStep == Start \/ LoadConfig \/ ConfigLoaded \/ OpenDatabase \/ ServiceStarts \/ StartFailed

Next ==
    \/ Start \/ LoadConfig \/ ConfigLoaded \/ OpenDatabase \/ ServiceStarts \/ StartFailed
    \/ SessionChanges \/ UpdateConfig \/ WalCheckpoint \/ BridgeConnects \/ EventDelivered
    \/ StopRequested \/ Shutdown \/ CloseServer \/ StopEnds \/ StopTimesOut
    \/ Crash \/ ConfigFault \/ DatabaseFault \/ FileDamaged

Spec == Init /\ [][Next]_vars

\* systemd restarts a daemon that failed and kills one that does not stop; the
\* daemon's own steps are taken; the bridge keeps trying and the loop serves its
\* connection.  stop gets its turn between requests: the lock is first come, first
\* served, and other clients open a connection per request.
FairSpec ==
    /\ Spec
    /\ WF_vars(StartStep /\ stopped = "no")
    /\ WF_vars(UpdateConfig /\ cstep # "open")
    /\ SF_vars(Shutdown \/ CloseServer) /\ SF_vars(StopEnds) /\ WF_vars(StopTimesOut)
    /\ WF_vars(BridgeConnects) /\ WF_vars(EventDelivered)

-----------------------------------------------------------------------------
(* Properties *)

\* The settings the owner gave last are in the file or in one that was set aside.
Kept(disk) ==
    disk.owner.settings # None =>
        \E c \in disk.corrupt \cup ({disk.file} \ {None}) : c.settings = disk.owner.settings

\* docs/configuration.md:19, "written to a temporary file, fsynced, and atomically
\* renamed": wherever the process dies or the power fails, and whatever raises, the
\* settings the owner gave last are kept.  The one exception is config.py:294: load
\* could not move the file, ignored that and wrote its defaults over it.
SettingsKept == ~owner.lost => Kept(Disk)

\* The daemon that serves runs on the settings in its file, also after an update
\* that failed half way.
SettingsInForce == Serving /\ cstep = "open" => file = Current(config)

\* No row of the history is lost to a migration, a quarantine or a crash, except
\* that of a process that dies between moving a database and moving its log.
Shelved == UNION { s.main.rows \cup (IF s.wal = Absent THEN {} ELSE s.wal) : s \in shelf }
HistoryKept ==
    ~halfway => history \subseteq Shelved \cup LogRows \cup IF db = Absent THEN {} ELSE db.rows

\* A stop that runs to its end leaves no session open and no log behind, unless a
\* request is served after engine.shutdown, while the server still listens or on a
\* connection it had accepted.
StopLeavesNothing ==
    phase = "down" /\ stopped = "end" /\ ~late => ~session /\ wal = Absent

\* After faults and crashes at any step, a daemon that was not asked to stop comes to
\* serve again, unless its database is of a later version, or its file raises what
\* load does not catch (config.py:289) and meets every restart.
LaterDatabase == db # Absent /\ db.schema > CurrentSchema
ServesInTheEnd == []<>(Serving \/ stopped # "no" \/ LaterDatabase \/ file = Malformed)

\* GuardianService.stop comes to its end or waits for nothing but a bridge that keeps
\* its connection open.
StopCompletes == phase = "stopping" ~> phase = "down" \/ Held

\* A bridge that stays connected sees the newest event in the end, however many it
\* was too slow for.
NewestEventSeen ==
    \A n \in 1 .. MaxEvents :
        bridge.on /\ bridge.since < n /\ published = n
        ~> bridge.seen = n \/ ~bridge.on \/ published > n

\* The bridge finds a daemon that was restarted, and stays connected.
BridgeReturns == <>[](phase = "up") => <>[](bridge.on)

\* docs/troubleshooting.md:46, "A fresh database loses history and requires
\* approval": a sound database is not put aside for an empty one.
SoundDatabaseStays == \A s \in shelf : s.main.schema > 0 => ~s.main.sound

=============================================================================

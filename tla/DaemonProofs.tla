---------------------------- MODULE DaemonProofs ----------------------------
(***************************************************************************)
(* Proofs about the life of the daemon, for every set of settings and of   *)
(* rows, every schema and every bound.                                     *)
(*                                                                         *)
(* The invariants of Daemon are not inductive.  Each rests on what the     *)
(* step in progress has left in the files (SaveInv, OpenInv), on what a    *)
(* loss of power would bring back (UndoInv), on where the two stores stand *)
(* in each phase of the service (PhaseInv), and on what a stop has already *)
(* done (StopInv).                                                         *)
(***************************************************************************)
EXTENDS Daemon, TLAPS

\* What the file holds at each step of a load or a save.
SaveInv ==
    /\ cstep \notin {"write", "sync"} => saving = NotSaving
    /\ cstep \in {"write", "sync"} => saving.why # "none"
    /\ cstep = "write" /\ saving.why = "load" =>
          file # None /\ file.settings = saving.settings
    /\ cstep = "write" /\ saving.why = "update" => file = Current(config)
    /\ cstep = "sync" => file = Current(saving.settings)
    /\ cstep = "open" => file = Current(config)

\* Every state of the disk a loss of power may bring back keeps the owner's settings.
UndoInv == \A disk \in saving.undo : ~disk.owner.lost => Kept(disk)

\* An open database has a main file and a log; a log is without a main file only
\* between the two moves of a quarantine.
OpenInv ==
    /\ dstep \in {"migrate", "recreate", "open"} => db # Absent /\ wal # Absent
    /\ db = Absent /\ dstep # "move_wal" /\ ~halfway => wal = Absent

\* Where the two stores are in each phase.
PhaseInv ==
    /\ phase = "down" => cstep = "closed" /\ dstep = "closed"
    /\ phase = "config" => dstep = "closed"
    /\ phase \in {"up", "stopping", "drained", "closing"} => dstep = "open"
    /\ dstep = "open" => phase \in {"database", "up", "stopping", "drained", "closing"}

\* A stop has run to its end only in a daemon that is down, and has closed the
\* session unless a request came late.
StopInv ==
    /\ stopped = "end" => phase = "down"
    /\ phase \in {"drained", "closing"} /\ ~late => ~session
    /\ StopLeavesNothing

ConfigInv == ConfigTypeOK /\ SettingsKept /\ SaveInv /\ UndoInv
DbInv == DbTypeOK /\ HistoryKept /\ OpenInv

\* The part of TypeOK about the service itself.
ServiceTypeOK ==
    /\ phase \in Phases
    /\ session \in BOOLEAN
    /\ bridge \in [on : BOOLEAN, queue : Seq(1 .. MaxEvents),
                   seen : 0 .. MaxEvents, since : 0 .. MaxEvents]
    /\ Len(bridge.queue) <= QueueSize
    /\ published \in 0 .. MaxEvents
    /\ faults \in 0 .. MaxFaults
    /\ late \in BOOLEAN /\ stopped \in {"no", "asked", "end"}

IInv == ConfigInv /\ DbInv /\ ServiceTypeOK /\ PhaseInv /\ StopInv

-----------------------------------------------------------------------------
(* Contents of the configuration file *)

\* Settings in the current schema are a file, and never no file.
LEMMA CurrentContents ==
    ASSUME NEW s \in Settings
    PROVE  /\ Current(s) \in Contents /\ Current(s) # None
           /\ Current(s).settings = s /\ Current(s).schema = "current"
BY SettingsAssumption DEF Current, Contents

\* A file load accepts holds valid settings; any other holds none.
LEMMA AcceptedContents ==
    ASSUME NEW f \in Contents
    PROVE  /\ f.settings \in Settings \cup {None}
           /\ f.schema \in {"older", "current"} => f.settings \in Settings
           /\ f.schema = "current" => f = Current(f.settings)
BY DEF Contents, Invalid, Malformed, Current

-----------------------------------------------------------------------------
(* The configuration store *)

\* What Kept says of the disk as it is.
LEMMA KeptNow ==
    Kept(Disk) <=> (owner.settings # None =>
                        \E c \in corrupt \cup ({file} \ {None}) : c.settings = owner.settings)
BY DEF Kept, Disk

\* The disk as it is can be brought back.
LEMMA DiskUndo ==
    ASSUME ConfigTypeOK, SettingsKept
    PROVE  Disk \in Disks /\ (~Disk.owner.lost => Kept(Disk))
BY DEF ConfigTypeOK, SettingsKept, Disk, Disks

\* Nothing is lost as long as what the file and the files set aside hold is kept.
LEMMA SettingsKeptBy ==
    ASSUME SettingsKept, owner' = owner, corrupt \subseteq corrupt',
           file # None => \E c \in corrupt' \cup ({file'} \ {None}) : c.settings = file.settings
    PROVE  SettingsKept'
<1>1. SUFFICES ASSUME ~owner.lost, owner.settings # None
               PROVE  \E c \in corrupt' \cup ({file'} \ {None}) : c.settings = owner.settings
  BY DEF SettingsKept, Kept, Disk
<1>2. PICK c \in corrupt \cup ({file} \ {None}) : c.settings = owner.settings
  BY <1>1, KeptNow DEF SettingsKept
<1>3. CASE c \in corrupt
  BY <1>2, <1>3
<1>4. CASE c \notin corrupt
  BY <1>2, <1>4
<1>5. QED
  BY <1>3, <1>4

\* A step that leaves the disk alone.
LEMMA SettingsStay ==
    ASSUME SettingsKept, UNCHANGED <<file, corrupt, owner>>
    PROVE  SettingsKept'
BY DEF SettingsKept, Kept, Disk

\* A save begins: the disk as it is can be brought back.
LEMMA SaveUndo ==
    ASSUME ConfigInv, NEW s \in Settings, NEW why \in {"load", "recover", "update"},
           Save(s, why)
    PROVE  /\ saving' \in [settings : Settings, why : {"none", "load", "recover", "update"},
                           undo : SUBSET Disks]
           /\ UndoInv'
<1>1. saving' = [settings |-> s, why |-> why, undo |-> {Disk}]
  BY DEF Save
<1>2. \A disk \in {Disk} : ~disk.owner.lost => Kept(disk)
  BY DiskUndo DEF ConfigInv
<1>3. saving'.undo = {Disk}
  BY <1>1
<1>4. UndoInv'
  BY <1>2, <1>3 DEF UndoInv, Kept
<1>5. QED
  BY <1>1, <1>4, DiskUndo DEF ConfigInv

\* No save is in progress.
LEMMA IdleUndo ==
    ASSUME saving' = NotSaving
    PROVE  /\ saving' \in [settings : Settings, why : {"none", "load", "recover", "update"},
                           undo : SUBSET Disks]
           /\ UndoInv'
BY SettingsAssumption DEF NotSaving, UndoInv

\* load of a missing file.
LEMMA LoadMissingInv == ConfigInv /\ LoadMissing => ConfigInv'
<1> SUFFICES ASSUME ConfigInv, LoadMissing PROVE ConfigInv'
  OBVIOUS
<1>0. Save(Default, "recover") /\ UNCHANGED <<file, corrupt, config, owner>>
  BY DEF LoadMissing
<1>1. ConfigTypeOK' /\ UndoInv'
  BY <1>0, SettingsAssumption, SaveUndo DEF ConfigInv, ConfigTypeOK, Save, ConfigSteps
<1>2. SettingsKept'
  BY <1>0, SettingsStay DEF ConfigInv
<1>3. SaveInv'
  BY <1>0 DEF ConfigInv, SaveInv, Save
<1>4. QED
  BY <1>1, <1>2, <1>3 DEF ConfigInv

\* load of a current file.
LEMMA LoadCurrentInv == ConfigInv /\ LoadCurrent => ConfigInv'
<1> SUFFICES ASSUME ConfigInv, LoadCurrent PROVE ConfigInv'
  OBVIOUS
<1>0. file \in Contents /\ file.settings \in Settings /\ file = Current(file.settings)
  BY AcceptedContents DEF ConfigInv, ConfigTypeOK, LoadCurrent
<1>1. ConfigTypeOK'
  BY <1>0 DEF ConfigInv, ConfigTypeOK, LoadCurrent, ConfigSteps
<1>2. SettingsKept'
  BY SettingsStay DEF ConfigInv, LoadCurrent
<1>3. SaveInv' /\ UndoInv'
  BY <1>0 DEF ConfigInv, SaveInv, UndoInv, LoadCurrent, NotSaving
<1>4. QED
  BY <1>1, <1>2, <1>3 DEF ConfigInv

\* load of an older schema: the migration is saved.
LEMMA LoadOlderInv == ConfigInv /\ LoadOlder => ConfigInv'
<1> SUFFICES ASSUME ConfigInv, LoadOlder PROVE ConfigInv'
  OBVIOUS
<1>0. file \in Contents /\ file.settings \in Settings
  BY AcceptedContents DEF ConfigInv, ConfigTypeOK, LoadOlder
<1>1. ConfigTypeOK' /\ UndoInv'
  BY <1>0, SaveUndo DEF ConfigInv, ConfigTypeOK, LoadOlder, Save, ConfigSteps
<1>2. SettingsKept'
  BY SettingsStay DEF ConfigInv, LoadOlder
<1>3. SaveInv'
  BY DEF ConfigInv, SaveInv, LoadOlder, Save
<1>4. QED
  BY <1>1, <1>2, <1>3 DEF ConfigInv

\* load of a file whose exception it does not catch.
LEMMA LoadMalformedInv == ConfigInv /\ LoadMalformed => ConfigInv'
<1> SUFFICES ASSUME ConfigInv, LoadMalformed PROVE ConfigInv'
  OBVIOUS
<1>1. ConfigTypeOK'
  BY DEF ConfigInv, ConfigTypeOK, LoadMalformed, ConfigSteps
<1>2. SettingsKept'
  BY SettingsStay DEF ConfigInv, LoadMalformed
<1>3. SaveInv' /\ UndoInv'
  BY DEF ConfigInv, SaveInv, UndoInv, LoadMalformed
<1>4. QED
  BY <1>1, <1>2, <1>3 DEF ConfigInv

\* The except branch of load: what the file held is set aside, or still there; a loss
\* of power can undo the move.
LEMMA SetAsideInv ==
    ASSUME ConfigInv, file # None, NEW moved \in BOOLEAN, SetAside(moved)
    PROVE  ConfigInv'
<1>0. file \in Contents
  BY DEF ConfigInv, ConfigTypeOK
<1>1. /\ file' \in Contents \cup {None} /\ corrupt' \subseteq Contents
      /\ owner' = owner /\ config' = config /\ cstep' = "write"
      /\ saving' = [settings |-> Default, why |-> "recover", undo |-> {Disk, Disk'}]
  BY <1>0 DEF ConfigInv, ConfigTypeOK, SetAside
<1>2. SettingsKept'
  <2>1. corrupt \subseteq corrupt' /\ file \in corrupt' \cup ({file'} \ {None})
    BY DEF SetAside
  <2>2. QED
    BY <1>1, <2>1, SettingsKeptBy DEF ConfigInv
<1>3. Disk' \in Disks /\ (~Disk'.owner.lost => Kept(Disk)')
  BY <1>1, <1>2 DEF ConfigInv, ConfigTypeOK, SettingsKept, Disk, Disks
<1>4. ConfigTypeOK'
  BY <1>1, <1>3, DiskUndo, SettingsAssumption DEF ConfigInv, ConfigTypeOK, ConfigSteps
<1>5. UndoInv'
  <2>1. saving'.undo = {Disk, Disk'}
    BY <1>1
  <2>2. Kept(Disk)' <=> Kept(Disk')
    BY DEF Kept
  <2>3. \A disk \in {Disk, Disk'} : ~disk.owner.lost => Kept(disk)
    BY <1>3, <2>2, DiskUndo DEF ConfigInv
  <2>4. QED
    BY <2>1, <2>3 DEF UndoInv, Kept
<1>6. SaveInv'
  BY <1>1 DEF SaveInv
<1>7. QED
  BY <1>2, <1>4, <1>5, <1>6 DEF ConfigInv

\* A save that fails leaves the file as it was.
LEMMA SaveFailsInv == ConfigInv /\ SaveFails => ConfigInv'
<1> SUFFICES ASSUME ConfigInv, SaveFails PROVE ConfigInv'
  OBVIOUS
<1>1. ConfigTypeOK' /\ UndoInv'
  BY IdleUndo DEF ConfigInv, ConfigTypeOK, SaveFails, ConfigSteps
<1>2. SettingsKept'
  BY SettingsStay DEF ConfigInv, SaveFails
<1>3. SaveInv'
  BY DEF ConfigInv, SaveInv, SaveFails
<1>4. QED
  BY <1>1, <1>2, <1>3 DEF ConfigInv

\* os.replace overwrites the settings it holds, no file, those an update of the owner
\* supersedes, or a file that could not be moved, which is then on record as lost.
LEMMA ReplaceInv == ConfigInv /\ Replace => ConfigInv'
<1> SUFFICES ASSUME ConfigInv, Replace PROVE ConfigInv'
  OBVIOUS
<1>0. saving.settings \in Settings /\ saving.why \in {"load", "recover", "update"}
  BY DEF ConfigInv, ConfigTypeOK, SaveInv, Replace
<1>a. owner' \in Owners
  BY <1>0 DEF ConfigInv, ConfigTypeOK, Replace, OwnerAfter, Owners
<1>1. ConfigTypeOK' /\ UndoInv'
  BY <1>0, <1>a, CurrentContents DEF ConfigInv, ConfigTypeOK, UndoInv, Replace, ConfigSteps
<1>2. SettingsKept'
  <2>0. file' # None /\ file'.settings = saving.settings /\ corrupt' = corrupt
    BY <1>0, CurrentContents DEF Replace
  <2>1. CASE saving.why = "update"
    <3>1. owner'.settings = file'.settings
      BY <2>0, <2>1 DEF Replace, OwnerAfter
    <3>2. QED
      BY <2>0, <3>1 DEF SettingsKept, Kept, Disk
  <2>2. CASE saving.why = "load"
    <3>1. owner' = owner
      BY <2>2 DEF ConfigInv, ConfigTypeOK, Owners, Replace, OwnerAfter
    <3>2. file.settings = saving.settings
      BY <2>2 DEF ConfigInv, SaveInv, Replace
    <3>3. QED
      BY <3>1, <3>2, <2>0, SettingsKeptBy DEF ConfigInv
  <2>3. CASE saving.why = "recover"
    <3>1. /\ owner'.settings = owner.settings
          /\ owner'.lost = (owner.lost \/ (file # None /\ file.settings = owner.settings))
      BY <2>3 DEF ConfigInv, ConfigTypeOK, Owners, Replace, OwnerAfter
    <3>2. SUFFICES ASSUME ~owner'.lost, owner.settings # None
                   PROVE  \E c \in corrupt : c.settings = owner.settings
      BY <2>0, <3>1 DEF SettingsKept, Kept, Disk
    <3>3. ~owner.lost /\ (file # None => file.settings # owner.settings)
      BY <3>1, <3>2
    <3>4. PICK c \in corrupt \cup ({file} \ {None}) : c.settings = owner.settings
      BY <3>2, <3>3, KeptNow DEF ConfigInv, SettingsKept
    <3>5. QED
      BY <3>3, <3>4
  <2>4. QED
    BY <1>0, <2>1, <2>2, <2>3
<1>3. SaveInv'
  BY <1>0 DEF ConfigInv, SaveInv, Replace
<1>4. QED
  BY <1>1, <1>2, <1>3 DEF ConfigInv

\* The caller of save has the settings that are in the file.
LEMMA SavedInv == ConfigInv /\ Saved => ConfigInv'
<1> SUFFICES ASSUME ConfigInv, Saved PROVE ConfigInv'
  OBVIOUS
<1>1. ConfigTypeOK' /\ UndoInv'
  BY IdleUndo DEF ConfigInv, ConfigTypeOK, Saved, ConfigSteps
<1>2. SettingsKept'
  BY SettingsStay DEF ConfigInv, Saved
<1>3. SaveInv'
  BY DEF ConfigInv, SaveInv, Saved
<1>4. QED
  BY <1>1, <1>2, <1>3 DEF ConfigInv

\* config.update.
LEMMA UpdateInv == ConfigInv /\ Update => ConfigInv'
<1> SUFFICES ASSUME ConfigInv, Update PROVE ConfigInv'
  OBVIOUS
<1>0. PICK s \in Settings : Save(s, "update")
  BY DEF Update
<1>1. ConfigTypeOK' /\ UndoInv'
  BY <1>0, SaveUndo DEF ConfigInv, ConfigTypeOK, Update, Save, ConfigSteps
<1>2. SettingsKept'
  BY SettingsStay DEF ConfigInv, Update
<1>3. SaveInv'
  BY <1>0 DEF ConfigInv, SaveInv, Update, Save
<1>4. QED
  BY <1>1, <1>2, <1>3 DEF ConfigInv

\* The end of the process, with the disk as it is or as a loss of power leaves it.
LEMMA ConfigLostInv == ConfigInv /\ ConfigLost => ConfigInv'
<1> SUFFICES ASSUME ConfigInv, ConfigLost PROVE ConfigInv'
  OBVIOUS
<1>0. saving' = NotSaving /\ config' = None /\ cstep' = "closed"
  BY DEF ConfigLost
<1>1. SaveInv' /\ UndoInv'
  BY <1>0, IdleUndo DEF SaveInv
<1>2. CASE UNCHANGED <<file, corrupt, owner>>
  <2>1. ConfigTypeOK'
    BY <1>0, <1>2, IdleUndo DEF ConfigInv, ConfigTypeOK, ConfigSteps
  <2>2. SettingsKept'
    BY <1>2, SettingsStay DEF ConfigInv
  <2>3. QED
    BY <1>1, <2>1, <2>2 DEF ConfigInv
<1>3. CASE \E disk \in saving.undo :
             file' = disk.file /\ corrupt' = disk.corrupt /\ owner' = disk.owner
  <2>0. PICK disk \in saving.undo :
             file' = disk.file /\ corrupt' = disk.corrupt /\ owner' = disk.owner
    BY <1>3
  <2>1. disk \in Disks /\ (~disk.owner.lost => Kept(disk))
    BY DEF ConfigInv, ConfigTypeOK, UndoInv
  <2>2. ConfigTypeOK'
    BY <1>0, <2>0, <2>1, IdleUndo DEF ConfigTypeOK, ConfigSteps, Disks
  <2>3. SettingsKept'
    BY <2>0, <2>1 DEF SettingsKept, Kept, Disk
  <2>4. QED
    BY <1>1, <2>2, <2>3 DEF ConfigInv
<1>4. QED
  BY <1>2, <1>3 DEF ConfigLost

\* An edit by hand.
LEMMA EditedInv == ConfigInv /\ Edited => ConfigInv'
<1> SUFFICES ASSUME ConfigInv, Edited PROVE ConfigInv'
  OBVIOUS
<1>0. file' \in Contents /\ file' # None /\ corrupt' = corrupt
      /\ owner' = [settings |-> file'.settings, lost |-> FALSE]
  BY SettingsAssumption DEF Edited
<1>1. ConfigTypeOK'
  BY <1>0, AcceptedContents DEF ConfigInv, ConfigTypeOK, Edited, Owners
<1>2. SettingsKept'
  <2>1. owner'.settings = file'.settings
    BY <1>0
  <2>2. QED
    BY <1>0, <2>1 DEF SettingsKept, Kept, Disk
<1>3. SaveInv' /\ UndoInv'
  BY DEF ConfigInv, SaveInv, UndoInv, Edited
<1>4. QED
  BY <1>1, <1>2, <1>3 DEF ConfigInv

\* A step of the other components.
LEMMA ConfigIdle == ConfigInv /\ UNCHANGED configVars => ConfigInv'
<1> SUFFICES ASSUME ConfigInv, UNCHANGED configVars PROVE ConfigInv'
  OBVIOUS
<1>1. SettingsKept'
  BY SettingsStay DEF ConfigInv, configVars
<1>2. QED
  BY <1>1 DEF ConfigInv, ConfigTypeOK, SaveInv, UndoInv, configVars

-----------------------------------------------------------------------------
(* The database *)

\* The rows a database holds where they can still be read: in the main file, in the
\* log, and in both of every database set aside.
LEMMA HistoryKeptBy ==
    ASSUME HistoryKept, halfway' = halfway, history' = history,
           ~halfway => Shelved \cup LogRows \cup (IF db = Absent THEN {} ELSE db.rows)
               \subseteq Shelved' \cup LogRows' \cup (IF db' = Absent THEN {} ELSE db'.rows)
    PROVE  HistoryKept'
BY DEF HistoryKept

\* What is put on the shelf adds its rows.
LEMMA ShelvedAdd ==
    ASSUME NEW entry, shelf' = shelf \cup {entry}
    PROVE  Shelved' = Shelved \cup entry.main.rows \cup (IF entry.wal = Absent THEN {} ELSE entry.wal)
<1> DEFINE rowsOf(s) == s.main.rows \cup (IF s.wal = Absent THEN {} ELSE s.wal)
<1>1. \A r : r \in Shelved <=> \E s \in shelf : r \in rowsOf(s)
  BY DEF Shelved
<1>2. \A r : r \in Shelved' <=> \E s \in shelf' : r \in rowsOf(s)
  BY DEF Shelved
<1>3. \A r : r \in Shelved' <=> r \in Shelved \/ r \in rowsOf(entry)
  <2> HIDE DEF rowsOf
  <2> QED
    BY <1>1, <1>2
<1>4. QED
  BY <1>3

\* The empty database and the empty log are files.
LEMMA EmptyFiles == NoRows \in Main /\ NoRows.rows = {} /\ NoRows # Absent /\ {} # Absent
<1>1. 0 \in 0 .. CurrentSchema + 1
  BY SchemaAssumption
<1>2. NoRows \in Main /\ NoRows.rows = {}
  BY <1>1 DEF NoRows, Main
<1>3. {} # Absent
  BY AbsentAssumption
<1>4. QED
  BY <1>2, <1>3, AbsentAssumption

\* The shelf holds what it held.
LEMMA ShelvedSame == ASSUME shelf' = shelf PROVE Shelved' = Shelved
BY DEF Shelved

\* _connect: the log of a database that is not there holds nothing.
LEMMA ConnectInv == DbInv /\ Connect => DbInv'
<1> SUFFICES ASSUME DbInv, Connect PROVE DbInv'
  OBVIOUS
<1>0. shelf' = shelf /\ halfway' = halfway /\ history' = history
  BY DEF Connect
<1>1. CASE db = Absent
  <2>0. db' = NoRows /\ wal' = {} /\ dstep' \in {"migrate", "recreate"}
    BY <1>1 DEF Connect
  <2>2. DbTypeOK'
    BY <1>0, <2>0, EmptyFiles DEF DbInv, DbTypeOK, Log, DbSteps
  <2>3. HistoryKept'
    <3>1. dstep # "move_wal"
      BY DEF Connect
    <3>2. ~halfway => LogRows = {}
      BY <1>1, <3>1 DEF DbInv, OpenInv, LogRows
    <3>3. QED
      BY <1>0, <1>1, <3>2, ShelvedSame, HistoryKeptBy DEF DbInv
  <2>4. OpenInv'
    BY <2>0, EmptyFiles DEF OpenInv
  <2>5. QED
    BY <2>2, <2>3, <2>4 DEF DbInv
<1>2. CASE db # Absent
  <2>0. db' = db /\ \/ dstep' = "move" /\ wal' = wal
                    \/ dstep' \in {"migrate", "recreate"} /\ wal' = LogRows
    BY <1>2 DEF Connect
  <2>1. LogRows \in SUBSET Rows /\ LogRows # Absent
    BY AbsentAssumption DEF DbInv, DbTypeOK, Log, LogRows
  <2>2. DbTypeOK'
    BY <1>0, <2>0, <2>1 DEF DbInv, DbTypeOK, Log, DbSteps
  <2>3. HistoryKept'
    <3>1. LogRows' = LogRows
      BY <2>0, <2>1 DEF LogRows
    <3>2. QED
      BY <1>0, <2>0, <3>1, ShelvedSame, HistoryKeptBy DEF DbInv
  <2>4. OpenInv'
    BY <1>2, <2>0, <2>1 DEF OpenInv
  <2>5. QED
    BY <2>2, <2>3, <2>4 DEF DbInv
<1>3. QED
  BY <1>1, <1>2

\* _migrate: the rows stay.
LEMMA MigrateInv == DbInv /\ Migrate => DbInv'
<1> SUFFICES ASSUME DbInv, Migrate PROVE DbInv'
  OBVIOUS
<1>0. /\ wal' = wal /\ shelf' = shelf /\ halfway' = halfway /\ history' = history
      /\ db \in Main /\ db # Absent /\ wal # Absent
  BY DEF DbInv, DbTypeOK, OpenInv, Migrate
<1>1. db' \in Main /\ db'.rows = db.rows /\ db' # Absent
  BY <1>0, SchemaAssumption, AbsentAssumption DEF Migrate, Main
<1>2. dstep' \in {"migrate", "recreate", "failed", "open"}
  BY DEF Migrate
<1>3. DbTypeOK'
  BY <1>0, <1>1, <1>2 DEF DbInv, DbTypeOK, DbSteps
<1>4. HistoryKept'
  BY <1>0, <1>1, ShelvedSame, HistoryKeptBy DEF DbInv, LogRows
<1>5. OpenInv'
  BY <1>0, <1>1 DEF OpenInv
<1>6. QED
  BY <1>3, <1>4, <1>5 DEF DbInv

\* An error while opening touches no file.
LEMMA OpenFailsInv == DbInv /\ OpenFails => DbInv'
<1> SUFFICES ASSUME DbInv, OpenFails PROVE DbInv'
  OBVIOUS
<1>1. DbTypeOK'
  BY DEF DbInv, DbTypeOK, OpenFails, DbSteps
<1>2. HistoryKept'
  BY DEF DbInv, HistoryKept, OpenFails, LogRows, Shelved
<1>3. OpenInv'
  BY DEF DbInv, OpenInv, OpenFails
<1>4. QED
  BY <1>1, <1>2, <1>3 DEF DbInv

\* The first move of a quarantine: the main file goes to the shelf, with the log's
\* rows if the connection had emptied the log.
LEMMA MoveMainInv == DbInv /\ MoveMain => DbInv'
<1> SUFFICES ASSUME DbInv, MoveMain PROVE DbInv'
  OBVIOUS
<1>0. db' = Absent /\ dstep' = "move_wal" /\ history' = history /\ halfway' = halfway
  BY DEF MoveMain
<1>1. CASE db = Absent
  <2>1. shelf' = shelf /\ wal' = wal
    BY <1>1 DEF MoveMain
  <2>2. DbTypeOK'
    BY <1>0, <2>1 DEF DbInv, DbTypeOK, DbSteps
  <2>3. HistoryKept'
    BY <1>0, <1>1, <2>1, ShelvedSame, HistoryKeptBy DEF DbInv, LogRows
  <2>4. QED
    BY <1>0, <2>2, <2>3 DEF DbInv, OpenInv
<1>2. CASE db # Absent
  <2>0. db \in Main /\ wal \in Log /\ LogRows \in SUBSET Rows
    BY <1>2 DEF DbInv, DbTypeOK, LogRows, Log
  <2>1. PICK main \in Main :
           /\ shelf' = shelf \cup {[main |-> main, wal |-> Absent]}
           /\ \/ main = db /\ wal' = wal
              \/ main.rows = db.rows \cup LogRows /\ wal' = Absent
    <3>1. PICK flushed \in BOOLEAN :
             /\ shelf' = shelf \cup {[main |-> IF flushed THEN [db EXCEPT !.rows = @ \cup LogRows]
                                               ELSE db, wal |-> Absent]}
             /\ wal' = IF flushed THEN Absent ELSE wal
      BY <1>2 DEF MoveMain
    <3>2. [db EXCEPT !.rows = @ \cup LogRows] \in Main
          /\ [db EXCEPT !.rows = @ \cup LogRows].rows = db.rows \cup LogRows
      BY <2>0 DEF Main
    <3>3. CASE flushed
      BY <3>1, <3>2, <3>3
    <3>4. CASE ~flushed
      BY <3>1, <3>4, <2>0
    <3>5. QED
      BY <3>3, <3>4
  <2>2. DbTypeOK'
    BY <1>0, <2>0, <2>1 DEF DbInv, DbTypeOK, DbSteps, Log
  <2>3. HistoryKept'
    <3> DEFINE entry == [main |-> main, wal |-> Absent]
    <3>1. Shelved' = Shelved \cup main.rows
      <4>1. shelf' = shelf \cup {entry}
        BY <2>1
      <4>2. entry.main = main /\ entry.wal = Absent
        OBVIOUS
      <4> HIDE DEF entry
      <4>3. QED
        BY <4>1, <4>2, ShelvedAdd
    <3>2. CASE main = db /\ wal' = wal
      BY <1>0, <1>2, <3>1, <3>2, HistoryKeptBy DEF DbInv, LogRows
    <3>3. CASE main.rows = db.rows \cup LogRows
      BY <1>0, <1>2, <3>1, <3>3, HistoryKeptBy DEF DbInv
    <3>4. QED
      BY <2>1, <3>2, <3>3
  <2>4. QED
    BY <1>0, <2>2, <2>3 DEF DbInv, OpenInv
<1>3. QED
  BY <1>1, <1>2

\* The second move: the log goes to the shelf.
LEMMA MoveWalInv == DbInv /\ MoveWal => DbInv'
<1> SUFFICES ASSUME DbInv, MoveWal PROVE DbInv'
  OBVIOUS
<1> DEFINE entry == [main |-> NoRows, wal |-> wal]
<1>0. db' = db /\ wal' = Absent /\ dstep' = "reconnect" /\ history' = history /\ halfway' = halfway
  BY DEF MoveWal
<1>2. DbTypeOK'
  BY <1>0, EmptyFiles DEF DbInv, DbTypeOK, DbSteps, Log, MoveWal
<1>3. Shelved' = Shelved \cup LogRows
  <2>1. CASE wal = Absent
    BY <2>1, ShelvedSame DEF MoveWal, LogRows
  <2>2. CASE wal # Absent
    <3>1. shelf' = shelf \cup {entry}
      BY <2>2 DEF MoveWal
    <3>2. entry.main = NoRows /\ entry.wal = wal
      OBVIOUS
    <3> HIDE DEF entry
    <3>3. QED
      BY <2>2, <3>1, <3>2, EmptyFiles, ShelvedAdd DEF LogRows
  <2>3. QED
    BY <2>1, <2>2
<1>4. HistoryKept'
  BY <1>0, <1>3, HistoryKeptBy DEF DbInv
<1>5. QED
  BY <1>0, <1>2, <1>4 DEF DbInv, OpenInv

\* A quarantine that fails between its moves is marked.
LEMMA MoveFailsInv == DbInv /\ MoveFails => DbInv'
<1> SUFFICES ASSUME DbInv, MoveFails PROVE DbInv'
  OBVIOUS
<1>1. DbTypeOK'
  BY DEF DbInv, DbTypeOK, MoveFails, DbSteps
<1>2. HistoryKept'
  BY DEF DbInv, HistoryKept, MoveFails, LogRows, Shelved
<1>3. OpenInv'
  BY DEF DbInv, OpenInv, MoveFails
<1>4. QED
  BY <1>1, <1>2, <1>3 DEF DbInv

\* A row is committed to the log of an open database.
LEMMA CommitInv == DbInv /\ dstep = "open" /\ Commit => DbInv'
<1> SUFFICES ASSUME DbInv, dstep = "open", Commit PROVE DbInv'
  OBVIOUS
<1>0. db \in Main /\ wal \in SUBSET Rows /\ wal # Absent
  BY DEF DbInv, DbTypeOK, OpenInv, Log
<1>1. PICK r \in Rows : wal' = wal \cup {r} /\ history' = history \cup {r}
  BY DEF Commit
<1>2. db' = db /\ shelf' = shelf /\ halfway' = halfway /\ dstep' = dstep
  BY DEF Commit
<1>3. wal' \in SUBSET Rows /\ wal' # Absent
  BY <1>0, <1>1, AbsentAssumption
<1>4. DbTypeOK'
  BY <1>1, <1>2, <1>3 DEF DbInv, DbTypeOK, Log
<1>5. HistoryKept'
  <2>1. LogRows' = LogRows \cup {r}
    BY <1>0, <1>1, <1>3 DEF LogRows
  <2>2. QED
    BY <1>1, <1>2, <2>1, ShelvedSame DEF DbInv, HistoryKept
<1>6. OpenInv'
  BY <1>2, <1>3 DEF DbInv, OpenInv
<1>7. QED
  BY <1>4, <1>5, <1>6 DEF DbInv

\* SQLite moves the log into the main file, with the database open or on closing it.
LEMMA CheckpointRows ==
    ASSUME DbInv, dstep = "open", db' = [db EXCEPT !.rows = @ \cup wal],
           wal' \in {{}, Absent}, UNCHANGED <<shelf, history, halfway>>
    PROVE  /\ db' \in Main /\ db' # Absent /\ {} # Absent
           /\ HistoryKept'
<1>0. db \in Main /\ db # Absent /\ wal \in SUBSET Rows /\ wal # Absent
  BY DEF DbInv, DbTypeOK, OpenInv, Log
<1>1. db' \in Main /\ db'.rows = db.rows \cup wal
  BY <1>0 DEF Main
<1>2. db' # Absent /\ {} # Absent
  BY <1>1, AbsentAssumption
<1>3. HistoryKept'
  BY <1>0, <1>1, <1>2, ShelvedSame, HistoryKeptBy DEF DbInv, LogRows
<1>4. QED
  BY <1>1, <1>2, <1>3

\* wal_checkpoint.
LEMMA CheckpointInv == DbInv /\ Checkpoint => DbInv'
BY CheckpointRows DEF DbInv, DbTypeOK, OpenInv, Checkpoint, Log

\* Storage.close.
LEMMA CloseStorageInv == DbInv /\ dstep = "open" /\ CloseStorage => DbInv'
BY CheckpointRows DEF DbInv, DbTypeOK, OpenInv, CloseStorage, Log, DbSteps

\* The end of the process.
LEMMA DatabaseLostInv == DbInv /\ DatabaseLost => DbInv'
<1> SUFFICES ASSUME DbInv, DatabaseLost PROVE DbInv'
  OBVIOUS
<1>1. DbTypeOK'
  BY DEF DbInv, DbTypeOK, DatabaseLost, DbSteps
<1>2. HistoryKept'
  BY DEF DbInv, HistoryKept, DatabaseLost, LogRows, Shelved
<1>3. OpenInv'
  BY DEF DbInv, OpenInv, DatabaseLost
<1>4. QED
  BY <1>1, <1>2, <1>3 DEF DbInv

\* Damage to the main file.  The rows of a damaged database count as kept: it is set
\* aside, not overwritten.
LEMMA DamagedInv == DbInv /\ Damaged => DbInv'
<1> SUFFICES ASSUME DbInv, Damaged PROVE DbInv'
  OBVIOUS
<1>0. /\ wal' = wal /\ shelf' = shelf /\ halfway' = halfway /\ history' = history /\ dstep' = dstep
      /\ db \in Main /\ db # Absent /\ dstep = "closed"
  BY DEF DbInv, DbTypeOK, Damaged
<1>1. db' \in Main /\ db'.rows = db.rows /\ db' # Absent
  BY <1>0, AbsentAssumption DEF Damaged, Main
<1>2. DbTypeOK'
  BY <1>0, <1>1 DEF DbInv, DbTypeOK
<1>3. HistoryKept'
  BY <1>0, <1>1, ShelvedSame, HistoryKeptBy DEF DbInv, LogRows
<1>4. OpenInv'
  BY <1>0, <1>1 DEF OpenInv
<1>5. QED
  BY <1>2, <1>3, <1>4 DEF DbInv

\* A step of the other components.
LEMMA DbIdle == DbInv /\ UNCHANGED dbVars => DbInv'
BY DEF DbInv, DbTypeOK, HistoryKept, OpenInv, LogRows, Shelved, dbVars

-----------------------------------------------------------------------------
(* The service *)

BridgeType == [on : BOOLEAN, queue : Seq(1 .. MaxEvents),
               seen : 0 .. MaxEvents, since : 0 .. MaxEvents]

\* The first element of a queue, and the rest.
LEMMA HeadTail ==
    ASSUME NEW S, NEW queue \in Seq(S), queue # <<>>
    PROVE  Head(queue) \in S /\ Tail(queue) \in Seq(S) /\ Len(Tail(queue)) = Len(queue) - 1
<1>1. Len(queue) \in Nat /\ Len(queue) # 0
  OBVIOUS
<1>2. Head(queue) \in S
  BY <1>1
<1>3. QED
  BY <1>2

\* EventBus.publish: the queue keeps its bound.
LEMMA PublishedType ==
    ASSUME NEW queue \in Seq(1 .. MaxEvents), Len(queue) <= QueueSize,
           NEW e \in 1 .. MaxEvents
    PROVE  Published(queue, e) \in Seq(1 .. MaxEvents) /\ Len(Published(queue, e)) <= QueueSize
<1>1. CASE Len(queue) < QueueSize
  BY <1>1, BoundAssumption DEF Published
<1>2. CASE ~(Len(queue) < QueueSize)
  <2>1. queue # <<>>
    BY <1>2, BoundAssumption
  <2>2. Tail(queue) \in Seq(1 .. MaxEvents) /\ Len(Tail(queue)) = Len(queue) - 1
    BY <2>1, HeadTail
  <2>3. QED
    BY <1>2, <2>2, BoundAssumption DEF Published
<1>3. QED
  BY <1>1, <1>2

\* The same for the bridge's connection, open or not.
LEMMA PublishType ==
    ASSUME ServiceTypeOK, Publish
    PROVE  bridge' \in BridgeType /\ Len(bridge'.queue) <= QueueSize /\ published' \in 0 .. MaxEvents
<1>0. published + 1 \in 1 .. MaxEvents /\ published' = published + 1
  BY BoundAssumption DEF ServiceTypeOK, Publish
<1>1. bridge.queue \in Seq(1 .. MaxEvents)
  BY DEF ServiceTypeOK
<1>2. Published(bridge.queue, published + 1) \in Seq(1 .. MaxEvents)
      /\ Len(Published(bridge.queue, published + 1)) <= QueueSize
  BY <1>0, <1>1, PublishedType DEF ServiceTypeOK
<1>3. QED
  BY <1>0, <1>2, BoundAssumption DEF ServiceTypeOK, Publish, BridgeType

\* A queue that has just been opened or dropped.
LEMMA EmptyQueue == <<>> \in Seq(1 .. MaxEvents) /\ Len(<<>>) <= QueueSize
<1>1. <<>> \in Seq(1 .. MaxEvents) /\ Len(<<>>) = 0
  OBVIOUS
<1>2. QED
  BY <1>1, BoundAssumption

\* The connection is closed with the process.
LEMMA DisconnectedType ==
    ASSUME ServiceTypeOK
    PROVE  Disconnected \in BridgeType /\ Len(Disconnected.queue) <= QueueSize
<1>1. Disconnected \in BridgeType /\ Disconnected.queue = <<>>
  BY EmptyQueue DEF ServiceTypeOK, Disconnected, BridgeType
<1>2. QED
  BY <1>1, EmptyQueue

\* The connection is opened.
LEMMA ConnectedType ==
    ASSUME ServiceTypeOK,
           bridge' = [bridge EXCEPT !.on = TRUE, !.queue = <<>>, !.since = published]
    PROVE  bridge' \in BridgeType /\ Len(bridge'.queue) <= QueueSize
<1>1. bridge' \in BridgeType /\ bridge'.queue = <<>>
  BY EmptyQueue DEF ServiceTypeOK, BridgeType
<1>2. QED
  BY <1>1, EmptyQueue

\* An event is taken from the queue.
LEMMA DeliveredType ==
    ASSUME ServiceTypeOK, bridge.queue # <<>>,
           bridge' = [bridge EXCEPT !.queue = Tail(@), !.seen = Head(bridge.queue)]
    PROVE  bridge' \in BridgeType /\ Len(bridge'.queue) <= QueueSize
<1> DEFINE queue == bridge.queue
<1>0. queue # <<>>
  OBVIOUS
<1>1. queue \in Seq(1 .. MaxEvents) /\ Len(queue) <= QueueSize
  BY DEF ServiceTypeOK
<1>2. Head(queue) \in 1 .. MaxEvents /\ Tail(queue) \in Seq(1 .. MaxEvents)
      /\ Len(Tail(queue)) = Len(queue) - 1
  <2> HIDE DEF queue
  <2> QED
    BY <1>0, <1>1, HeadTail
<1>3. Head(queue) \in 0 .. MaxEvents /\ Len(Tail(queue)) <= QueueSize
  BY <1>1, <1>2, BoundAssumption
<1>4. bridge' \in BridgeType /\ bridge'.queue = Tail(queue)
  BY <1>2, <1>3 DEF ServiceTypeOK, BridgeType
<1>5. QED
  BY <1>3, <1>4

\* systemd starts the daemon.
LEMMA StartIInv == IInv /\ Start => IInv'
<1> SUFFICES ASSUME IInv, Start PROVE IInv'
  OBVIOUS
<1>1. ConfigInv'
  <2>1. SettingsKept'
    BY SettingsStay DEF IInv, ConfigInv, Start
  <2>2. QED
    BY <2>1 DEF IInv, ConfigInv, ConfigTypeOK, SaveInv, UndoInv, PhaseInv, Start, ConfigSteps
<1>2. DbInv'
  BY DbIdle DEF IInv, Start
<1>3. ServiceTypeOK'
  BY DEF IInv, ServiceTypeOK, Start, Phases
<1>4. PhaseInv'
  BY DEF IInv, PhaseInv, Start, dbVars
<1>5. StopInv'
  BY DEF IInv, PhaseInv, StopInv, StopLeavesNothing, Start, dbVars
<1>6. QED
  BY <1>1, <1>2, <1>3, <1>4, <1>5 DEF IInv

\* load, until the service has its settings.
LEMMA LoadConfigIInv == IInv /\ LoadConfig => IInv'
<1> SUFFICES ASSUME IInv, LoadConfig PROVE IInv'
  OBVIOUS
<1>1. ConfigInv'
  <2>1. CASE LoadInvalid
    BY <2>1, SettingsAssumption, SetAsideInv DEF IInv, LoadInvalid, Contents
  <2>2. QED
    BY <2>1, LoadMissingInv, LoadCurrentInv, LoadOlderInv, LoadMalformedInv, ReplaceInv, SavedInv
    DEF IInv, LoadConfig, ConfigStep
<1>2. DbInv'
  BY DbIdle DEF IInv, LoadConfig
<1>3. ServiceTypeOK'
  BY DEF IInv, ServiceTypeOK, LoadConfig, serviceVars
<1>4. PhaseInv'
  BY DEF IInv, PhaseInv, LoadConfig, configVars, dbVars, serviceVars
<1>5. StopInv'
  BY DEF IInv, PhaseInv, StopInv, StopLeavesNothing, LoadConfig, configVars, dbVars, serviceVars
<1>6. QED
  BY <1>1, <1>2, <1>3, <1>4, <1>5 DEF IInv

\* The database is next.
LEMMA ConfigLoadedIInv == IInv /\ ConfigLoaded => IInv'
<1> SUFFICES ASSUME IInv, ConfigLoaded PROVE IInv'
  OBVIOUS
<1>1. ConfigInv'
  BY ConfigIdle DEF IInv, ConfigLoaded
<1>2. DbInv'
  BY DEF IInv, DbInv, DbTypeOK, HistoryKept, OpenInv, LogRows, Shelved, PhaseInv, ConfigLoaded, DbSteps
<1>3. ServiceTypeOK'
  BY DEF IInv, ServiceTypeOK, ConfigLoaded, Phases
<1>4. PhaseInv'
  BY DEF IInv, PhaseInv, ConfigLoaded, configVars
<1>5. StopInv'
  BY DEF IInv, PhaseInv, StopInv, StopLeavesNothing, ConfigLoaded, configVars
<1>6. QED
  BY <1>1, <1>2, <1>3, <1>4, <1>5 DEF IInv

\* open, with its migrations and its quarantine.
LEMMA OpenDatabaseIInv == IInv /\ OpenDatabase => IInv'
<1> SUFFICES ASSUME IInv, OpenDatabase PROVE IInv'
  OBVIOUS
<1>1. ConfigInv'
  BY ConfigIdle DEF IInv, OpenDatabase
<1>2. DbInv'
  BY ConnectInv, MigrateInv, MoveMainInv, MoveWalInv DEF IInv, OpenDatabase, DbStep
<1>3. ServiceTypeOK'
  BY DEF IInv, ServiceTypeOK, OpenDatabase
<1>4. PhaseInv'
  BY DEF IInv, PhaseInv, OpenDatabase, configVars, DbStep, Connect, Migrate, MoveMain, MoveWal
<1>5. StopInv'
  BY DEF IInv, PhaseInv, StopInv, StopLeavesNothing, OpenDatabase
<1>6. QED
  BY <1>1, <1>2, <1>3, <1>4, <1>5 DEF IInv

\* The service is up.
LEMMA ServiceStartsIInv == IInv /\ ServiceStarts => IInv'
<1> SUFFICES ASSUME IInv, ServiceStarts PROVE IInv'
  OBVIOUS
<1>1. ConfigInv'
  BY ConfigIdle DEF IInv, ServiceStarts
<1>2. DbInv'
  BY DbIdle DEF IInv, ServiceStarts
<1>3. ServiceTypeOK'
  BY DEF IInv, ServiceTypeOK, ServiceStarts, Phases
<1>4. PhaseInv'
  BY DEF IInv, PhaseInv, ServiceStarts, configVars, dbVars
<1>5. StopInv'
  BY DEF IInv, PhaseInv, StopInv, StopLeavesNothing, ServiceStarts, configVars, dbVars
<1>6. QED
  BY <1>1, <1>2, <1>3, <1>4, <1>5 DEF IInv

\* A start that fails.
LEMMA StartFailedIInv == IInv /\ StartFailed => IInv'
<1> SUFFICES ASSUME IInv, StartFailed PROVE IInv'
  OBVIOUS
<1>1. ConfigInv'
  BY ConfigLostInv DEF IInv, StartFailed
<1>2. DbInv'
  BY DatabaseLostInv DEF IInv, StartFailed
<1>3. ServiceTypeOK'
  BY DEF IInv, ServiceTypeOK, StartFailed, Phases
<1>4. PhaseInv'
  BY DEF IInv, PhaseInv, StartFailed, ConfigLost, DatabaseLost
<1>5. StopInv'
  BY DEF IInv, PhaseInv, StopInv, StopLeavesNothing, StartFailed, ConfigLost, DatabaseLost
<1>6. QED
  BY <1>1, <1>2, <1>3, <1>4, <1>5 DEF IInv

\* A handler or a detector event.
LEMMA SessionChangesIInv == IInv /\ SessionChanges => IInv'
<1> SUFFICES ASSUME IInv, SessionChanges PROVE IInv'
  OBVIOUS
<1>1. ConfigInv'
  BY ConfigIdle DEF IInv, SessionChanges
<1>2. DbInv'
  BY CommitInv DEF IInv, PhaseInv, SessionChanges, Serving, Listening
<1>3. ServiceTypeOK'
  BY PublishType DEF IInv, ServiceTypeOK, SessionChanges, BridgeType
<1>4. PhaseInv'
  BY DEF IInv, PhaseInv, SessionChanges, Commit, configVars
<1>5. StopInv'
  BY DEF IInv, PhaseInv, StopInv, StopLeavesNothing, SessionChanges, Commit, configVars, Serving, Listening
<1>6. QED
  BY <1>1, <1>2, <1>3, <1>4, <1>5 DEF IInv

\* config.update.
LEMMA UpdateConfigIInv == IInv /\ UpdateConfig => IInv'
<1> SUFFICES ASSUME IInv, UpdateConfig PROVE IInv'
  OBVIOUS
<1>1. ConfigInv'
  BY UpdateInv, ReplaceInv, SavedInv DEF IInv, UpdateConfig
<1>2. DbInv'
  BY DbIdle DEF IInv, UpdateConfig
<1>3. ServiceTypeOK'
  BY DEF IInv, ServiceTypeOK, UpdateConfig, serviceVars
<1>4. PhaseInv'
  BY DEF IInv, PhaseInv, UpdateConfig, configVars, dbVars, serviceVars, Update, Save, Replace, Saved, Serving, Listening
<1>5. StopInv'
  BY DEF IInv, PhaseInv, StopInv, StopLeavesNothing, UpdateConfig, configVars, dbVars, serviceVars
<1>6. QED
  BY <1>1, <1>2, <1>3, <1>4, <1>5 DEF IInv

\* wal_checkpoint.
LEMMA WalCheckpointIInv == IInv /\ WalCheckpoint => IInv'
<1> SUFFICES ASSUME IInv, WalCheckpoint PROVE IInv'
  OBVIOUS
<1>1. ConfigInv'
  BY ConfigIdle DEF IInv, WalCheckpoint
<1>2. DbInv'
  BY CheckpointInv DEF IInv, WalCheckpoint
<1>3. ServiceTypeOK'
  BY DEF IInv, ServiceTypeOK, WalCheckpoint, serviceVars
<1>4. PhaseInv'
  BY DEF IInv, PhaseInv, WalCheckpoint, configVars, dbVars, serviceVars, Checkpoint
<1>5. StopInv'
  BY DEF IInv, PhaseInv, StopInv, StopLeavesNothing, WalCheckpoint, configVars, dbVars, serviceVars, Serving, Listening
<1>6. QED
  BY <1>1, <1>2, <1>3, <1>4, <1>5 DEF IInv

\* The bridge connects.
LEMMA BridgeConnectsIInv == IInv /\ BridgeConnects => IInv'
<1> SUFFICES ASSUME IInv, BridgeConnects PROVE IInv'
  OBVIOUS
<1>1. ConfigInv'
  BY ConfigIdle DEF IInv, BridgeConnects
<1>2. DbInv'
  BY DbIdle DEF IInv, BridgeConnects
<1>3. ServiceTypeOK'
  BY ConnectedType DEF IInv, ServiceTypeOK, BridgeConnects, BridgeType
<1>4. PhaseInv'
  BY DEF IInv, PhaseInv, BridgeConnects, configVars, dbVars, serviceVars
<1>5. StopInv'
  BY DEF IInv, PhaseInv, StopInv, StopLeavesNothing, BridgeConnects, configVars, dbVars, serviceVars
<1>6. QED
  BY <1>1, <1>2, <1>3, <1>4, <1>5 DEF IInv

\* The bridge takes an event from its queue.
LEMMA EventDeliveredIInv == IInv /\ EventDelivered => IInv'
<1> SUFFICES ASSUME IInv, EventDelivered PROVE IInv'
  OBVIOUS
<1>1. ConfigInv'
  BY ConfigIdle DEF IInv, EventDelivered
<1>2. DbInv'
  BY DbIdle DEF IInv, EventDelivered
<1>3. ServiceTypeOK'
  BY DeliveredType DEF IInv, ServiceTypeOK, EventDelivered, BridgeType
<1>4. PhaseInv'
  BY DEF IInv, PhaseInv, EventDelivered, configVars, dbVars, serviceVars
<1>5. StopInv'
  BY DEF IInv, PhaseInv, StopInv, StopLeavesNothing, EventDelivered, configVars, dbVars, serviceVars
<1>6. QED
  BY <1>1, <1>2, <1>3, <1>4, <1>5 DEF IInv

\* SIGTERM.
LEMMA StopRequestedIInv == IInv /\ StopRequested => IInv'
<1> SUFFICES ASSUME IInv, StopRequested PROVE IInv'
  OBVIOUS
<1>1. ConfigInv'
  BY ConfigIdle DEF IInv, StopRequested
<1>2. DbInv'
  BY DbIdle DEF IInv, StopRequested
<1>3. ServiceTypeOK'
  BY BoundAssumption DEF IInv, ServiceTypeOK, StopRequested, Stop, Phases
<1>4. PhaseInv'
  BY DEF IInv, PhaseInv, StopRequested, configVars, dbVars, serviceVars, Stop
<1>5. StopInv'
  BY DEF IInv, PhaseInv, StopInv, StopLeavesNothing, StopRequested, configVars, dbVars, serviceVars, Stop
<1>6. QED
  BY <1>1, <1>2, <1>3, <1>4, <1>5 DEF IInv

\* engine.shutdown closes the session.
LEMMA ShutdownIInv == IInv /\ Shutdown => IInv'
<1> SUFFICES ASSUME IInv, Shutdown PROVE IInv'
  OBVIOUS
<1>1. ConfigInv'
  BY ConfigIdle DEF IInv, Shutdown
<1>2. DbInv'
  BY DbIdle DEF IInv, Shutdown
<1>3. ServiceTypeOK'
  BY DEF IInv, ServiceTypeOK, Shutdown, Stop, Phases
<1>4. PhaseInv'
  BY DEF IInv, PhaseInv, Shutdown, configVars, dbVars, serviceVars, Stop
<1>5. StopInv'
  BY DEF IInv, PhaseInv, StopInv, StopLeavesNothing, Shutdown, configVars, dbVars, serviceVars, Stop
<1>6. QED
  BY <1>1, <1>2, <1>3, <1>4, <1>5 DEF IInv

\* The server is closed.
LEMMA CloseServerIInv == IInv /\ CloseServer => IInv'
<1> SUFFICES ASSUME IInv, CloseServer PROVE IInv'
  OBVIOUS
<1>1. ConfigInv'
  BY ConfigIdle DEF IInv, CloseServer
<1>2. DbInv'
  BY DbIdle DEF IInv, CloseServer
<1>3. ServiceTypeOK'
  BY DEF IInv, ServiceTypeOK, CloseServer, Stop, Phases
<1>4. PhaseInv'
  BY DEF IInv, PhaseInv, CloseServer, configVars, dbVars, serviceVars, Stop
<1>5. StopInv'
  BY DEF IInv, PhaseInv, StopInv, StopLeavesNothing, CloseServer, configVars, dbVars, serviceVars, Stop
<1>6. QED
  BY <1>1, <1>2, <1>3, <1>4, <1>5 DEF IInv

\* The end of a stop.
LEMMA StopEndsIInv == IInv /\ StopEnds => IInv'
<1> SUFFICES ASSUME IInv, StopEnds PROVE IInv'
  OBVIOUS
<1>1. ConfigInv'
  BY ConfigLostInv DEF IInv, StopEnds
<1>2. DbInv'
  BY CloseStorageInv DEF IInv, PhaseInv, StopEnds, Stop
<1>3. ServiceTypeOK'
  BY DisconnectedType DEF IInv, ServiceTypeOK, StopEnds, Stop, BridgeType, Phases
<1>4. PhaseInv'
  BY DEF IInv, PhaseInv, StopEnds, Stop, ConfigLost, CloseStorage
<1>5. StopInv'
  BY DEF IInv, PhaseInv, StopInv, StopLeavesNothing, StopEnds, Stop, CloseStorage
<1>6. QED
  BY <1>1, <1>2, <1>3, <1>4, <1>5 DEF IInv

\* SIGKILL after TimeoutStopSec.
LEMMA StopTimesOutIInv == IInv /\ StopTimesOut => IInv'
<1> SUFFICES ASSUME IInv, StopTimesOut PROVE IInv'
  OBVIOUS
<1>1. ConfigInv'
  BY ConfigLostInv DEF IInv, StopTimesOut, Dies
<1>2. DbInv'
  BY DatabaseLostInv DEF IInv, StopTimesOut, Dies
<1>3. ServiceTypeOK'
  BY DisconnectedType DEF IInv, ServiceTypeOK, StopTimesOut, Dies, BridgeType, Phases
<1>4. PhaseInv'
  BY DEF IInv, PhaseInv, StopTimesOut, Dies, ConfigLost, DatabaseLost
<1>5. StopInv'
  BY DEF IInv, PhaseInv, StopInv, StopLeavesNothing, StopTimesOut, Held, Dies
<1>6. QED
  BY <1>1, <1>2, <1>3, <1>4, <1>5 DEF IInv

\* The process dies.
LEMMA CrashIInv == IInv /\ Crash => IInv'
<1> SUFFICES ASSUME IInv, Crash PROVE IInv'
  OBVIOUS
<1>1. ConfigInv'
  BY ConfigLostInv DEF IInv, Crash, Dies
<1>2. DbInv'
  BY DatabaseLostInv DEF IInv, Crash, Dies
<1>3. ServiceTypeOK'
  BY DisconnectedType, BoundAssumption DEF IInv, ServiceTypeOK, Crash, Dies, BridgeType, Phases, Fault
<1>4. PhaseInv'
  BY DEF IInv, PhaseInv, Crash, Dies, ConfigLost, DatabaseLost
<1>5. StopInv'
  BY DEF IInv, PhaseInv, StopInv, StopLeavesNothing, Crash, Dies
<1>6. QED
  BY <1>1, <1>2, <1>3, <1>4, <1>5 DEF IInv

\* OSError in load or save.
LEMMA ConfigFaultIInv == IInv /\ ConfigFault => IInv'
<1> SUFFICES ASSUME IInv, ConfigFault PROVE IInv'
  OBVIOUS
<1>1. ConfigInv'
  <2>1. CASE LoadFails
    <3>1. file # None /\ \E moved \in BOOLEAN : SetAside(moved)
      BY <2>1 DEF LoadFails
    <3>2. QED
      BY <3>1, SetAsideInv DEF IInv
  <2>2. QED
    BY <2>1, SaveFailsInv DEF IInv, ConfigFault
<1>2. DbInv'
  BY DbIdle DEF IInv, ConfigFault
<1>3. ServiceTypeOK'
  BY BoundAssumption DEF IInv, ServiceTypeOK, ConfigFault, serviceVars, Fault
<1>4. PhaseInv'
  BY DEF IInv, PhaseInv, ConfigFault, configVars, dbVars, serviceVars, LoadFails, SetAside, SaveFails, Serving, Listening
<1>5. StopInv'
  BY DEF IInv, PhaseInv, StopInv, StopLeavesNothing, ConfigFault, configVars, dbVars, serviceVars
<1>6. QED
  BY <1>1, <1>2, <1>3, <1>4, <1>5 DEF IInv

\* An error while the database is opened or set aside.
LEMMA DatabaseFaultIInv == IInv /\ DatabaseFault => IInv'
<1> SUFFICES ASSUME IInv, DatabaseFault PROVE IInv'
  OBVIOUS
<1>1. ConfigInv'
  BY ConfigIdle DEF IInv, DatabaseFault
<1>2. DbInv'
  BY OpenFailsInv, MoveFailsInv DEF IInv, DatabaseFault
<1>3. ServiceTypeOK'
  BY BoundAssumption DEF IInv, ServiceTypeOK, DatabaseFault, serviceVars, Fault
<1>4. PhaseInv'
  BY DEF IInv, PhaseInv, DatabaseFault, configVars, dbVars, serviceVars, OpenFails, MoveFails
<1>5. StopInv'
  BY DEF IInv, PhaseInv, StopInv, StopLeavesNothing, DatabaseFault, configVars, dbVars, serviceVars
<1>6. QED
  BY <1>1, <1>2, <1>3, <1>4, <1>5 DEF IInv

\* A file is edited or damaged while the daemon is down.
LEMMA FileDamagedIInv == IInv /\ FileDamaged => IInv'
<1> SUFFICES ASSUME IInv, FileDamaged PROVE IInv'
  OBVIOUS
<1>1. ConfigInv'
  BY EditedInv, ConfigIdle DEF IInv, FileDamaged
<1>2. DbInv'
  BY DamagedInv, DbIdle DEF IInv, FileDamaged
<1>3. ServiceTypeOK'
  BY BoundAssumption DEF IInv, ServiceTypeOK, FileDamaged, serviceVars, Fault
<1>4. PhaseInv'
  BY DEF IInv, PhaseInv, FileDamaged, configVars, dbVars, serviceVars, Edited, Damaged
<1>5. StopInv'
  BY DEF IInv, PhaseInv, StopInv, StopLeavesNothing, FileDamaged, configVars, dbVars, serviceVars, Edited, Damaged
<1>6. QED
  BY <1>1, <1>2, <1>3, <1>4, <1>5 DEF IInv

-----------------------------------------------------------------------------
(* Theorems *)

\* The daemon starts on the settings and the database it finds.
LEMMA InitIInv == Init => IInv
<1> SUFFICES ASSUME Init PROVE IInv
  OBVIOUS
<1>1. ConfigInv
  <2>1. ConfigTypeOK
    BY SettingsAssumption, AcceptedContents
    DEF Init, ConfigInit, ConfigTypeOK, ConfigSteps, NotSaving, Owners
  <2>2. QED
    BY <2>1, KeptNow DEF Init, ConfigInit, ConfigInv, SettingsKept, SaveInv, UndoInv, NotSaving
<1>2. DbInv
  <2>1. 1 \in 0 .. CurrentSchema + 1 /\ CurrentSchema \in 0 .. CurrentSchema + 1
        /\ CurrentSchema + 1 \in 0 .. CurrentSchema + 1
    BY SchemaAssumption
  <2>2. DbTypeOK
    BY <2>1 DEF Init, DbInit, DbTypeOK, Main, Log, DbSteps
  <2>3. QED
    BY <2>2 DEF Init, DbInit, DbInv, HistoryKept, OpenInv
<1>3. ServiceTypeOK
  <2>1. 0 \in 0 .. MaxEvents /\ 0 \in 0 .. MaxFaults
    BY BoundAssumption
  <2>2. bridge \in BridgeType /\ bridge.queue = <<>>
    BY <2>1, EmptyQueue DEF Init, BridgeType
  <2>3. QED
    BY <2>1, <2>2, EmptyQueue DEF Init, ServiceTypeOK, BridgeType, Phases
<1>4. PhaseInv /\ StopInv
  BY DEF Init, ConfigInit, DbInit, PhaseInv, StopInv, StopLeavesNothing
<1>5. QED
  BY <1>1, <1>2, <1>3, <1>4 DEF IInv

\* A step that changes nothing.
LEMMA StutterIInv == IInv /\ UNCHANGED vars => IInv'
<1> SUFFICES ASSUME IInv, UNCHANGED vars PROVE IInv'
  OBVIOUS
<1>1. ConfigInv' /\ DbInv'
  BY ConfigIdle, DbIdle DEF IInv, vars
<1>2. ServiceTypeOK' /\ PhaseInv' /\ StopInv'
  BY DEF IInv, ServiceTypeOK, PhaseInv, StopInv, StopLeavesNothing, vars, configVars, dbVars,
         serviceVars
<1>3. QED
  BY <1>1, <1>2 DEF IInv

\* Every step of the daemon keeps the inductive invariant.
LEMMA NextIInv == IInv /\ [Next]_vars => IInv'
BY StartIInv, LoadConfigIInv, ConfigLoadedIInv, OpenDatabaseIInv, ServiceStartsIInv, StartFailedIInv,
   SessionChangesIInv, UpdateConfigIInv, WalCheckpointIInv, BridgeConnectsIInv, EventDeliveredIInv,
   StopRequestedIInv, ShutdownIInv, CloseServerIInv, StopEndsIInv, StopTimesOutIInv,
   CrashIInv, ConfigFaultIInv, DatabaseFaultIInv, FileDamagedIInv, StutterIInv
DEF Next

\* The inductive invariant holds in every reachable state.
THEOREM Invariance == Spec => []IInv
BY InitIInv, NextIInv, PTL DEF Spec

\* Every variable of the daemon, of its files and of its event queue keeps its type,
\* the queue its bound.
THEOREM TypeCorrect == Spec => []TypeOK
<1>1. IInv => TypeOK
  BY DEF IInv, ConfigInv, DbInv, ServiceTypeOK, TypeOK
<1>2. QED
  BY <1>1, Invariance, PTL

\* ConfigStore: the settings the owner gave last are kept by every load, save, death
\* and loss of power, except where load saved its defaults over a file it could not move.
THEOREM SettingsAreKept == Spec => []SettingsKept
<1>1. IInv => SettingsKept
  BY DEF IInv, ConfigInv
<1>2. QED
  BY <1>1, Invariance, PTL

\* GuardianService serves with the settings in its file.
THEOREM SettingsAreInForce == Spec => []SettingsInForce
<1>1. IInv => SettingsInForce
  BY DEF IInv, ConfigInv, SaveInv, SettingsInForce
<1>2. QED
  BY <1>1, Invariance, PTL

\* Storage: no committed row is lost, unless a quarantine was interrupted.
THEOREM HistoryIsKept == Spec => []HistoryKept
<1>1. IInv => HistoryKept
  BY DEF IInv, DbInv
<1>2. QED
  BY <1>1, Invariance, PTL

\* GuardianService.stop leaves neither a session nor a log behind, unless a request is
\* served after engine.shutdown.
THEOREM StopIsClean == Spec => []StopLeavesNothing
<1>1. IInv => StopLeavesNothing
  BY DEF IInv, StopInv
<1>2. QED
  BY <1>1, Invariance, PTL

=============================================================================

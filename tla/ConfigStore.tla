---------------------------- MODULE ConfigStore ----------------------------
(***************************************************************************)
(* The configuration file (config.py): load, which migrates an old file    *)
(* and sets aside one it cannot use, and save, which replaces the file as  *)
(* a whole.  The process may die between any two steps.                    *)
(*                                                                         *)
(* Of the settings only their identity matters; a file holds settings that *)
(* load takes as they are or after a migration, or something it rejects    *)
(* (not JSON, an unknown key, a value out of range, a newer schema), or    *)
(* something whose exception it does not catch.                            *)
(***************************************************************************)
EXTENDS Naturals

CONSTANTS
    None,       \* no file, no settings
    Settings,   \* valid settings
    Default     \* DEFAULT_CONFIG

\* Malformed: not UTF-8 (UnicodeDecodeError), a section that is not an object
\* (AttributeError), a time zone that is not a string (TypeError).
Invalid   == [settings |-> None, schema |-> "rejected"]
Malformed == [settings |-> None, schema |-> "malformed"]
Contents  == [settings : Settings, schema : {"older", "current"}] \cup {Invalid, Malformed}

ASSUME SettingsAssumption ==
    Default \in Settings /\ None \notin Settings /\ None \notin Contents

Current(s) == [settings |-> s, schema |-> "current"]

VARIABLES
    file,      \* config.json
    corrupt,   \* the config.corrupt-*.json files
    saving,    \* the save in progress: settings, for whom, and undo, the states of
               \* the disk a loss of power may bring back
    config,    \* GuardianService.config
    owner,     \* history: the settings the owner gave last, and whether defaults
               \* were written over them
    cstep      \* where load and save are

configVars == <<file, corrupt, saving, config, owner, cstep>>

NotSaving == [settings |-> Default, why |-> "none", undo |-> {}]
ConfigSteps == {"closed", "load", "write", "sync", "open", "failed"}

Owners == [settings : Settings \cup {None}, lost : BOOLEAN]
Disks  == [file : Contents \cup {None}, corrupt : SUBSET Contents, owner : Owners]
Disk   == [file |-> file, corrupt |-> corrupt, owner |-> owner]

ConfigTypeOK ==
    /\ file \in Contents \cup {None}
    /\ corrupt \subseteq Contents
    /\ saving \in [settings : Settings, why : {"none", "load", "recover", "update"},
                   undo : SUBSET Disks]
    /\ config \in Settings \cup {None}
    /\ owner \in Owners
    /\ cstep \in ConfigSteps

ConfigInit ==
    /\ file \in Contents \cup {None}
    /\ owner = [settings |-> IF file = None THEN None ELSE file.settings, lost |-> FALSE]
    /\ corrupt = {}
    /\ saving = NotSaving
    /\ config = None
    /\ cstep = "closed"

-----------------------------------------------------------------------------
\* ConfigStore.save begins: the temporary file is written.
Save(s, why) ==
    /\ saving' = [settings |-> s, why |-> why, undo |-> {Disk}]
    /\ cstep' = "write"

\* ConfigStore.load of a missing file, of a current one, and of an older schema,
\* whose migration is saved.
LoadMissing ==
    /\ cstep = "load" /\ file = None
    /\ Save(Default, "recover")
    /\ UNCHANGED <<file, corrupt, config, owner>>

LoadCurrent ==
    /\ cstep = "load" /\ file # None /\ file.schema = "current"
    /\ config' = file.settings
    /\ cstep' = "open"
    /\ UNCHANGED <<file, corrupt, saving, owner>>

LoadOlder ==
    /\ cstep = "load" /\ file # None /\ file.schema = "older"
    /\ Save(file.settings, "load")
    /\ UNCHANGED <<file, corrupt, config, owner>>

\* An exception load does not catch: the process ends with an error, the file stays.
LoadMalformed ==
    /\ cstep = "load" /\ file = Malformed
    /\ cstep' = "failed"
    /\ UNCHANGED <<file, corrupt, saving, config, owner>>

\* The except branch of load: the file is moved and defaults are saved.  OSError of
\* the move is swallowed, and the file stays where the defaults go.
SetAside(moved) ==
    /\ corrupt' = IF moved THEN corrupt \cup {file} ELSE corrupt
    /\ file' = IF moved THEN None ELSE file
    /\ UNCHANGED <<config, owner>>
    /\ saving' = [settings |-> Default, why |-> "recover", undo |-> {Disk, Disk'}]
    /\ cstep' = "write"

LoadInvalid == cstep = "load" /\ file = Invalid /\ SetAside(TRUE)

\* OSError while reading, or while saving a migrated file: taken for corruption.
\* Also a file load rejects and cannot move.
LoadFails ==
    /\ file # None
    /\ cstep = "load" \/ (cstep = "write" /\ saving.why = "load")
    /\ \E moved \in BOOLEAN : SetAside(moved)

\* OSError while saving otherwise: load raises, an update is answered with an error.
SaveFails ==
    /\ cstep = "write" /\ saving.why # "load"
    /\ cstep' = IF saving.why = "update" THEN "open" ELSE "failed"
    /\ saving' = NotSaving
    /\ UNCHANGED <<file, corrupt, config, owner>>

\* The owner's update is in force from os.replace on; defaults saved over a file that
\* was not moved destroy what the owner wrote there.
OwnerAfter ==
    IF saving.why = "update" THEN [settings |-> saving.settings, lost |-> FALSE]
    ELSE [owner EXCEPT !.lost = @ \/ (saving.why = "recover" /\ file # None
                                     /\ file.settings = owner.settings)]

\* Faulty variant: the file is opened for writing in place.
ReplaceInPlace ==
    /\ cstep = "write"
    /\ file' = Invalid
    /\ cstep' = "sync"
    /\ owner' = OwnerAfter
    /\ UNCHANGED <<corrupt, saving, config>>

\* os.replace.
Replace ==
    /\ cstep = "write"
    /\ file' = Current(saving.settings)
    /\ cstep' = "sync"
    /\ owner' = OwnerAfter
    /\ UNCHANGED <<corrupt, saving, config>>

\* Faulty variant: the service goes on with the settings from before the update.
SavedNotTaken ==
    /\ cstep = "sync"
    /\ config' = IF saving.why = "update" THEN config ELSE saving.settings
    /\ cstep' = "open"
    /\ saving' = NotSaving
    /\ UNCHANGED <<file, corrupt, owner>>

\* The directory is synchronised and the caller has the settings.
Saved ==
    /\ cstep = "sync"
    /\ config' = saving.settings
    /\ cstep' = "open"
    /\ saving' = NotSaving
    /\ UNCHANGED <<file, corrupt, owner>>

\* config.update: the patch is merged into the settings in memory.
Update ==
    /\ cstep = "open"
    /\ \E s \in Settings \ {config} : Save(s, "update")
    /\ UNCHANGED <<file, corrupt, config, owner>>

\* The process ends.  If it ends by a loss of power before the directory is
\* synchronised, the disk may be back in a state from before a rename.
ConfigLost ==
    /\ \/ UNCHANGED <<file, corrupt, owner>>
       \/ \E disk \in saving.undo :
             file' = disk.file /\ corrupt' = disk.corrupt /\ owner' = disk.owner
    /\ saving' = NotSaving
    /\ config' = None
    /\ cstep' = "closed"

\* The owner edits the file of a stopped daemon, and may leave it invalid.
Edited ==
    /\ cstep = "closed"
    /\ file' \in Contents
    /\ owner' = [settings |-> file'.settings, lost |-> FALSE]
    /\ UNCHANGED <<corrupt, saving, config, cstep>>

ConfigStep ==
    LoadMissing \/ LoadCurrent \/ LoadOlder \/ LoadInvalid \/ LoadMalformed \/ Replace \/ Saved

=============================================================================

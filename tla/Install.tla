------------------------------ MODULE Install ------------------------------
(***************************************************************************)
(* redutok init and redutok remove (meter/installer.ts): the managed files *)
(* are backed up once, written over or merged into, and put back. Either   *)
(* command may die between two of its steps; the user edits files between  *)
(* commands and may delete .dcp, which is not committed.                   *)
(*                                                                         *)
(* A file is absent or holds a user's part, by its version, and a number   *)
(* of blocks or entries of redutok's. init refuses, before all of this, a  *)
(* project its launchers could not load the package from.                  *)
(***************************************************************************)
EXTENDS Naturals, FiniteSets

CONSTANTS
    Merged,  \* settings.local.json, .mcp.json, CLAUDE.md: the user's part stays
    Owned,   \* the launchers, scout.md: redutok's, written whole
    Folders, \* the folders init makes that are missing, .dcp apart
    FolderOf, \* the folder of a file, or "none"
    MaxInits, MaxEdits

Managed == Merged \cup Owned
ASSUME InstallAssumption ==
    /\ "none" \notin Folders
    /\ FolderOf \in [Managed -> Folders \cup {"none"}]
    /\ {MaxInits, MaxEdits} \subseteq Nat

VARIABLES
    files, folders,
    backup,    \* by file, its copy in .dcp/backup
    manifest,  \* [existed, created], or NoManifest
    command,   \* the command at work: [name, left, made]
    inits, edits,
    original,  \* ghost: files and folders before the first init
    pristine   \* ghost: nothing edited or deleted since, and whether a command died

installVars == <<files, folders, backup, manifest, command, inits, edits, original, pristine>>

Idle == [name |-> "idle", left |-> {}, made |-> {}]
Absent == [user |-> 0, ours |-> 0]
NoManifest == [existed |-> {}]

\* The user may have any of the files, their folders, and others.
InstallInit ==
    /\ files \in [Managed -> {Absent, [user |-> 1, ours |-> 0]}]
    /\ folders \in SUBSET Folders
    /\ \A f \in Managed : files[f] # Absent => FolderOf[f] \in folders \cup {"none"}
    /\ backup = [f \in Managed |-> Absent]
    /\ manifest = NoManifest
    /\ command = Idle
    /\ inits = 0 /\ edits = 0
    /\ original = [files |-> files, folders |-> folders]
    /\ pristine = [files |-> TRUE, run |-> TRUE]

-----------------------------------------------------------------------------
(* The user. *)

EditFile(f) ==
    /\ command = Idle /\ edits < MaxEdits
    /\ edits' = edits + 1
    /\ files' = [files EXCEPT ![f].user = edits + 2]
    /\ folders' = folders \cup ({FolderOf[f]} \ {"none"})
    /\ IF inits = 0
       THEN original' = [files |-> files', folders |-> folders'] /\ UNCHANGED pristine
       ELSE pristine' = [pristine EXCEPT !.files = FALSE] /\ UNCHANGED original
    /\ UNCHANGED <<backup, manifest, command, inits>>

DeleteDcp ==
    /\ command = Idle /\ manifest # NoManifest
    /\ manifest' = NoManifest
    /\ backup' = [f \in Managed |-> Absent]
    /\ pristine' = [pristine EXCEPT !.files = FALSE]
    /\ UNCHANGED <<files, folders, command, inits, edits, original>>

\* A command dies where it stands.
Die ==
    /\ command # Idle
    /\ command' = Idle
    /\ pristine' = [pristine EXCEPT !.run = FALSE]
    /\ UNCHANGED <<files, folders, backup, manifest, inits, edits, original>>

-----------------------------------------------------------------------------
(* redutok init. *)

\* Mutant of FirstInit: backups are taken on every init.
FirstInitAlways == TRUE

FirstInit == manifest = NoManifest

\* The first one makes the folders and then copies what is there.
StartInit ==
    /\ command = Idle /\ inits < MaxInits
    /\ inits' = inits + 1
    /\ command' = [name |-> IF FirstInit THEN "copy" ELSE "write", left |-> Managed,
                   made |-> IF FirstInit THEN Folders \ folders ELSE {}]
    /\ folders' = IF FirstInit THEN Folders ELSE folders
    /\ UNCHANGED <<files, backup, manifest, edits, original, pristine>>

Copy(f) ==
    /\ command.name = "copy" /\ f \in command.left
    /\ backup' = [backup EXCEPT ![f] = files[f]]
    /\ command' = [command EXCEPT !.left = @ \ {f}]
    /\ UNCHANGED <<files, folders, manifest, inits, edits, original, pristine>>

Register ==
    /\ command.name = "copy" /\ command.left = {}
    /\ manifest' = [existed |-> {f \in Managed : files[f] # Absent}, created |-> command.made]
    /\ command' = [name |-> "write", left |-> Managed, made |-> {}]
    /\ UNCHANGED <<files, folders, backup, inits, edits, original, pristine>>

\* Earlier entries and blocks of redutok's are taken out first.
Installed(f, content) == [user |-> IF f \in Owned THEN 0 ELSE content.user, ours |-> 1]

Write(f) ==
    /\ command.name = "write" /\ f \in command.left
    /\ files' = [files EXCEPT ![f] = Installed(f, files[f])]
    /\ folders' = folders \cup ({FolderOf[f]} \ {"none"})
    /\ command' = [command EXCEPT !.left = @ \ {f}]
    /\ UNCHANGED <<backup, manifest, inits, edits, original, pristine>>

EndInit ==
    /\ command.name = "write" /\ command.left = {}
    /\ command' = Idle
    /\ UNCHANGED <<files, folders, backup, manifest, inits, edits, original, pristine>>

-----------------------------------------------------------------------------
(* redutok remove. *)

StartRemove ==
    /\ command = Idle /\ manifest # NoManifest
    /\ command' = [name |-> "restore", left |-> Managed, made |-> manifest.created]
    /\ UNCHANGED <<files, folders, backup, manifest, inits, edits, original, pristine>>

Restore(f) ==
    /\ command.name = "restore" /\ f \in command.left
    /\ files' = [files EXCEPT ![f] = IF f \in manifest.existed THEN backup[f] ELSE Absent]
    /\ command' = [command EXCEPT !.left = @ \ {f}]
    /\ UNCHANGED <<folders, backup, manifest, inits, edits, original, pristine>>

\* .dcp goes, and with it the manifest and the backups.
RemoveDcp ==
    /\ command.name = "restore" /\ command.left = {}
    /\ manifest' = NoManifest
    /\ backup' = [f \in Managed |-> Absent]
    /\ command' = [command EXCEPT !.name = "folders"]
    /\ UNCHANGED <<files, folders, inits, edits, original, pristine>>

\* The folders init made go too, where they are empty.
RemoveFolders ==
    /\ command.name = "folders"
    /\ folders' = folders \ {d \in command.made : \A f \in Managed : FolderOf[f] = d => files[f] = Absent}
    /\ command' = Idle
    /\ UNCHANGED <<files, backup, manifest, inits, edits, original, pristine>>

InstallNext ==
    \/ DeleteDcp \/ Die
    \/ StartInit \/ Register \/ EndInit \/ StartRemove \/ RemoveDcp \/ RemoveFolders
    \/ \E f \in Managed : EditFile(f) \/ Copy(f) \/ Write(f) \/ Restore(f)

InstallSpec == InstallInit /\ [][InstallNext]_installVars

-----------------------------------------------------------------------------
(* Safety. *)

\* "remove reverts byte-identical from backups taken on first init": however
\* often init ran and wherever a command died, once .dcp is gone the managed
\* files are what they were, if the user left them and .dcp alone; so are the
\* folders, if no command died.
InstallReversible ==
    /\ pristine.files /\ manifest = NoManifest /\ command.name \in {"idle", "folders"} =>
         files = original.files
    /\ pristine.files /\ pristine.run /\ manifest = NoManifest /\ command = Idle =>
         folders = original.folders

=============================================================================

---------------------------- MODULE ProjectFile ----------------------------
(***************************************************************************)
(* ProjectSerializer::save() (src/Source/Serialization/ProjectSerializer   *)
(* .cpp:1083): the project file, its backup and its temporary sibling.     *)
(* save() runs on the message thread from end to end; the process may die  *)
(* between any two of its calls to the file system and each call may fail. *)
(* What a version holds is Manifest's; here a file holds one whole.        *)
(***************************************************************************)
CONSTANTS Versions,  \* what can be saved
          Absent,    \* no file of that name
          Torn       \* a file that was not written to its end

ASSUME FileAssumption == Absent \notin Versions /\ Torn \notin Versions /\ Absent # Torn

VARIABLES dest,      \* <name>.padflow
          bak, tmp,  \* <name>.padflow.bak, <name>.padflow.tmp
          saving,    \* where save() is, or "idle"
          version,   \* what save() was called with
          saved      \* ghost: what the last successful save() saved

files == <<dest, bak, tmp>>
fileVars == <<dest, bak, tmp, saving, version, saved>>

FileInit ==
  /\ dest = Absent /\ bak = Absent /\ tmp = Absent
  /\ saving = "idle" /\ version = Absent /\ saved = Absent

\* save() returns: the caller is told what happened.
Return == saving' = "idle" /\ version' = Absent

\* deleteFile() of the temporary: its failure is not looked at.
Fail ==
  /\ tmp' \in {tmp, Absent}
  /\ Return
  /\ UNCHANGED <<dest, bak, saved>>

BeginSave(v) ==
  /\ saving = "idle"
  /\ saving' = "clean" /\ version' = v
  /\ UNCHANGED <<files, saved>>

\* A stale temporary is removed, or nothing is saved.
RemoveStale ==
  /\ saving = "clean"
  /\ \/ tmp' = Absent /\ saving' = "create" /\ UNCHANGED version
     \/ tmp # Absent /\ UNCHANGED tmp /\ Return
  /\ UNCHANGED <<dest, bak, saved>>

\* The temporary is opened, written and flushed; then read back and compared.
CreateTemporary ==
  /\ saving = "create"
  /\ tmp' = Torn /\ saving' = "write"
  /\ UNCHANGED <<dest, bak, version, saved>>

WriteTemporary ==
  /\ saving = "write"
  /\ \/ /\ tmp' \in {version, Torn} /\ saving' = "compare"
        /\ UNCHANGED <<dest, bak, version, saved>>
     \/ Fail

CompareTemporary ==
  /\ saving = "compare"
  /\ \/ /\ tmp = version
        /\ saving' = IF dest = Absent THEN "publish" ELSE "dropBackup"
        /\ UNCHANGED <<files, version, saved>>
     \/ Fail   \* it differs, or cannot be read

DropBackup ==
  /\ saving = "dropBackup"
  /\ \/ /\ bak' = Absent /\ saving' = "rotate"
        /\ UNCHANGED <<dest, tmp, version, saved>>
     \/ bak # Absent /\ Fail

\* Mutant of Rotate: the file is deleted to make room.
RotateDeletes ==
  /\ saving = "rotate"
  /\ \/ /\ dest' = Absent /\ saving' = "publish"
        /\ UNCHANGED <<bak, tmp, version, saved>>
     \/ Fail

Rotate ==
  /\ saving = "rotate"
  /\ \/ /\ bak' = dest /\ dest' = Absent /\ saving' = "publish"
        /\ UNCHANGED <<tmp, version, saved>>
     \/ Fail

\* The temporary becomes the file; if it cannot, the backup comes back.
Publish ==
  /\ saving = "publish"
  /\ \/ /\ dest' = tmp /\ tmp' = Absent /\ saved' = version
        /\ Return /\ UNCHANGED bak
     \/ saving' = "restore" /\ UNCHANGED <<files, version, saved>>

Restore ==
  /\ saving = "restore"
  /\ \/ bak # Absent /\ dest' = bak /\ bak' = Absent
     \/ UNCHANGED <<dest, bak>>
  /\ tmp' \in {tmp, Absent}
  /\ Return
  /\ UNCHANGED saved

SaveStep ==
  \/ RemoveStale \/ CreateTemporary \/ WriteTemporary \/ CompareTemporary
  \/ DropBackup \/ Rotate \/ Publish \/ Restore

\* The process dies; the files stay.
FileCrash == Return /\ UNCHANGED <<files, saved>>

FileNext == (\E v \in Versions : BeginSave(v)) \/ SaveStep \/ FileCrash
FileSpec == FileInit /\ [][FileNext]_fileVars

\* Wherever save() fails or the process dies, the last project that was saved is
\* whole in the file or in its backup, and neither is ever half written
\* (ProjectSerializer.cpp:1128-1150).
SavedProjectSurvives ==
  /\ saved # Absent => saved \in {dest, bak}
  /\ dest # Torn /\ bak # Torn
=============================================================================

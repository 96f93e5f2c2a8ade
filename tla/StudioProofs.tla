---------------------------- MODULE StudioProofs ----------------------------
(***************************************************************************)
(* TLAPS proofs about SamplerView's work with samples and files: that      *)
(* save() keeps the last project saved, and Studio uses the project's file *)
(* that way and nowhere else; that the files of renders and the samples of *)
(* layers stay with the projects that name them; that the queue of imports *)
(* never waits for nothing; that the registry keeps to its budget.         *)
(***************************************************************************)
EXTENDS Studio, SequenceFacts

(***************************************************************************)
(* save(), whatever is saved with it: the inductive invariant.             *)
(***************************************************************************)

\* Where the last project saved is: in the file, or in the backup while there is
\* no file.  SavedProjectSurvives alone would let save() drop the backup that
\* holds it.
SavedIsWhere ==
  /\ saved # Absent => saved = IF dest # Absent THEN dest ELSE bak
  /\ saved = Absent => dest = Absent /\ bak = Absent

\* What is written is whole, and only what was read back as it was written moves on.
WrittenIsWhole ==
  /\ saving # "idle" => version \notin {Absent, Torn}
  /\ saving \in {"dropBackup", "rotate", "publish"} => tmp = version

\* The file is out of the way when the temporary is to take its place.
FileOutOfTheWay ==
  /\ saving \in {"dropBackup", "rotate"} => dest # Absent
  /\ saving \in {"publish", "restore"} => dest = Absent

FileInv ==
  /\ dest # Torn /\ bak # Torn
  /\ SavedIsWhere /\ WrittenIsWhole /\ FileOutOfTheWay

\* A file that was never saved.
LEMMA FileInitSafe == FileInit => FileInv
  BY FileAssumption DEF FileInit, FileInv, SavedIsWhere, WrittenIsWhole, FileOutOfTheWay

\* A save that fails gives up its temporary and nothing else.
LEMMA FailSafe ==
  ASSUME FileInv, Fail
  PROVE  FileInv'
  BY DEF Fail, Return, FileInv, SavedIsWhere, WrittenIsWhole, FileOutOfTheWay

\* Every step of save(): before the rotation the last project saved is in the file,
\* after it in the backup, after the publication in the file again.
LEMMA SaveStepSafe ==
  ASSUME FileInv, SaveStep
  PROVE  FileInv'
<1> USE FileAssumption DEF FileInv, SavedIsWhere, WrittenIsWhole, FileOutOfTheWay, files,
                           Return
<1>1. CASE RemoveStale
  BY <1>1 DEF RemoveStale
<1>2. CASE CreateTemporary
  BY <1>2 DEF CreateTemporary
<1>3. CASE WriteTemporary
  BY <1>3, FailSafe DEF WriteTemporary
<1>4. CASE CompareTemporary
  BY <1>4, FailSafe DEF CompareTemporary
<1>5. CASE DropBackup
  \* the file is there, so the backup holds nothing that was saved last
  BY <1>5, FailSafe DEF DropBackup
<1>6. CASE Rotate
  BY <1>6, FailSafe DEF Rotate
<1>7. CASE Publish
  BY <1>7 DEF Publish
<1>8. CASE Restore
  BY <1>8 DEF Restore
<1> QED
  BY <1>1, <1>2, <1>3, <1>4, <1>5, <1>6, <1>7, <1>8 DEF SaveStep

\* So does the beginning of a save and the death of the process.
LEMMA BeginSafe ==
  ASSUME FileInv, NEW v, v \notin {Absent, Torn}, BeginSave(v)
  PROVE  FileInv'
  BY DEF BeginSave, FileInv, SavedIsWhere, WrittenIsWhole, FileOutOfTheWay, files

LEMMA CrashSafe ==
  ASSUME FileInv, FileCrash \/ UNCHANGED fileVars
  PROVE  FileInv'
  BY DEF FileCrash, Return, fileVars, FileInv, SavedIsWhere, WrittenIsWhole, FileOutOfTheWay,
         files

LEMMA FileStepSafe == FileInv /\ [FileNext]_fileVars => FileInv'
  BY BeginSafe, CrashSafe, SaveStepSafe, FileAssumption DEF FileNext

\* Whichever call of save() fails and wherever the process dies, the last project
\* saved is whole in the file or in its backup (ProjectSerializer::save()).
THEOREM SavedSurvives == FileSpec => []SavedProjectSurvives
<1>1. FileInv => SavedProjectSurvives
  BY DEF FileInv, SavedIsWhere, SavedProjectSurvives
<1> QED BY FileInitSafe, FileStepSafe, <1>1, PTL DEF FileSpec

(***************************************************************************)
(* The shape of Studio's variables.                                        *)
(***************************************************************************)

Edits == [before : States, after : States]
Targets == [uuid : Nat, revision : Nat, pad : Pads]

\* Jobs, of which renders and no others bring a render.
Jobs ==
  {job \in [kind : {"import", "derived", "recorded", "resolve"}, pad : Pads, asset : Assets,
            owner : Int, revision : Nat, opening : Nat, wrote : {"no", "new", "reused"},
            id : Nat] :
     job.kind # "resolve" => (job.kind = "derived" <=> job.asset[2] = "render")}

Results == [job : Jobs, ok : BOOLEAN, bytes : Nat]

\* What the recording keeps: a target once it is armed, the result of a take.
Takes ==
  {r \in [stage : {"idle", "armed", "completed"}, take : Nat, target : Targets \cup {None},
          auto : BOOLEAN, submitted : BOOLEAN, decoding : BOOLEAN,
          pending : Results \cup {None}] :
     /\ r.stage # "idle" => r.target \in Targets
     /\ r.pending # None => r.pending \in Results /\ r.pending.job.kind = "recorded"}

DeskTypes == project \in Projects /\ undo \in Seq(Edits) /\ redo \in Seq(Edits)

StoreTypes ==
  /\ store = [entries |-> store.entries, used |-> store.used]
  /\ store.entries \in [DOMAIN store.entries -> Nat] /\ store.used \in Int

WorkTypes ==
  /\ imports \in [queue : Seq(Pads), active : BOOLEAN, refused : BOOLEAN]
  /\ jobs \subseteq Jobs /\ completed \in Seq(Results)
  /\ fresh \in Nat
  /\ ghost \in [opening : Nat, unbacked : SUBSET Assets, gestures : Nat, takes : Nat]

\* The file and its backup are whole, and so is the temporary once it was read back.
FileTypes ==
  /\ {dest, bak} \subseteq Projects \cup {Absent} /\ tmp \in Projects \cup {Absent, Torn}
  /\ version \in Projects \cup {Absent}
  /\ saving # "idle" => version \in Projects
  /\ saving \in {"dropBackup", "rotate", "publish"} => tmp \in Projects

StudioTypes == DeskTypes /\ StoreTypes /\ WorkTypes /\ rec \in Takes /\ FileTypes

\* A job submitted for a target, with an asset of its kind.
LEMMA JobTyped ==
  ASSUME WorkTypes, NEW kind \in {"import", "derived", "recorded"}, NEW p \in Pads,
         NEW a \in Assets, kind = "derived" <=> a[2] = "render",
         NEW target, target.uuid \in Nat, target.revision \in Nat
  PROVE  Job(kind, p, a, target) \in Jobs
  BY DEF Job, Jobs, WorkTypes

\* The three kinds of asset.
LEMMA AssetTyped ==
  ASSUME NEW n \in Nat, NEW kind \in {"import", "take", "render"}
  PROVE  <<n, kind>> \in Assets /\ <<n, kind>>[2] = kind
  BY DEF Assets

\* A take is noticed, or not.
LEMMA RefreshTyped ==
  ASSUME WorkTypes, NEW r \in Takes, NEW js, js \subseteq Jobs, RecordingRefreshed(r, js)
  PROVE  rec' \in Takes /\ jobs' \subseteq Jobs
<1>1. CASE rec' = r /\ jobs' = js
  BY <1>1
<1>2. CASE /\ r.stage = "completed"
           /\ rec' = [r EXCEPT !.submitted = TRUE, !.decoding = TRUE]
           /\ jobs' = js \cup {TakeJob(r)}
  <2>1. rec' \in Takes
    BY <1>2 DEF Takes
  <2>2. r.target \in Targets /\ r.take \in Nat
    BY <1>2 DEF Takes
  <2>3. TakeJob(r) \in Jobs
    BY <2>2, JobTyped, AssetTyped DEF TakeJob, Targets
  <2> QED BY <1>2, <2>1, <2>3
<1> QED BY <1>1, <1>2 DEF RecordingRefreshed

\* Cancelling keeps the preferences and a complete take.
LEMMA CancelTyped ==
  ASSUME rec \in Takes
  PROVE  RecordingCancelled \in Takes
<1>1. NoTake \in Takes /\ [NoTake EXCEPT !.auto = rec.auto] \in Takes
  BY DEF NoTake, Takes
<1>2. [rec EXCEPT !.submitted = FALSE, !.decoding = FALSE, !.pending = None] \in Takes
  BY DEF Takes
<1> QED BY <1>1, <1>2 DEF RecordingCancelled

\* The next import is for a pad.
LEMMA NextImportTyped ==
  ASSUME WorkTypes, NEW queue \in Seq(Pads), NEW js, js \subseteq Jobs,
         NEW target \in Projects, NEW next \in ImportsAfter(queue, js, target)
  PROVE  /\ next.imports \in [queue : Seq(Pads), active : BOOLEAN, refused : BOOLEAN]
         /\ next.jobs \subseteq Jobs
<1>1. CASE queue = <<>>
  <2>1. next = [imports |-> NoImports, jobs |-> js]
    BY <1>1 DEF ImportsAfter
  <2>2. NoImports \in [queue : Seq(Pads), active : BOOLEAN, refused : BOOLEAN]
    BY EmptySeq DEF NoImports
  <2> QED BY <2>1, <2>2
<1>2. CASE queue # <<>>
  <2>1. Head(queue) \in Pads /\ Tail(queue) \in Seq(Pads)
    BY <1>2, HeadTailProperties
  <2>2. ImportJob(Head(queue), target) \in Jobs
    BY <2>1, JobTyped, AssetTyped DEF ImportJob, Projects, WorkTypes
  <2>3. CASE next = [imports |-> [queue |-> queue, active |-> TRUE, refused |-> FALSE],
                     jobs |-> js \cup {ImportJob(Head(queue), target)}]
    BY <2>2, <2>3
  <2>4. CASE next = [imports |-> [queue |-> Tail(queue), active |-> FALSE, refused |-> TRUE],
                     jobs |-> js]
    BY <2>1, <2>4
  <2> QED BY <1>2, <2>3, <2>4 DEF ImportsAfter
<1> QED BY <1>1, <1>2

\* An edit moves the project on.
LEMMA EditTyped ==
  ASSUME DeskTypes, NEW s \in States, Edit(s)
  PROVE  DeskTypes'
<1>1. project' \in Projects
  <2>1. project \in [uuid : Nat, revision : Nat, state : States] /\ project.revision + 1 \in Nat
    BY DEF DeskTypes, Projects
  <2>2. project' = [project EXCEPT !.state = s, !.revision = project.revision + 1]
    BY DEF Edit
  <2> QED BY <2>1, <2>2 DEF Projects
<1>2. [before |-> project.state, after |-> s] \in Edits
  BY DEF DeskTypes, Projects, Edits
<1>3. undo' \in Seq(Edits) /\ redo' \in Seq(Edits)
  BY <1>2, AppendProperties, EmptySeq DEF DeskTypes, Edit
<1> QED BY <1>1, <1>3 DEF DeskTypes

\* The edit that puts a sample on a layer.
LEMMA WithAssetTyped ==
  ASSUME NEW s \in States, NEW p \in Pads, NEW a \in Assets
  PROVE  /\ WithAsset(s, p, a) \in States
         /\ WithAsset(s, p, a).assets = s.assets \cup {a}
         /\ WithAsset(s, p, a).missing = s.missing \ {a}
         /\ WithAsset(s, p, a).layers = [s.layers EXCEPT ![p] = a]
  BY DEF WithAsset, States

\* The registry after a publication, and after one that was taken back: nothing
\* has changed.
LEMMA PublishedTyped ==
  ASSUME StoreTypes, NEW a, NEW bytes \in Nat, store' = Published(store, a, bytes)
  PROVE  StoreTypes' /\ DOMAIN store'.entries = DOMAIN store.entries \cup {a}
  BY DEF StoreTypes, Published, HeldBytes, Holds

LEMMA RolledBackIsNothing ==
  ASSUME StoreTypes, NEW a, NEW bytes \in Nat
  PROVE  RolledBack(store, a, bytes) = store
<1> DEFINE held == store.entries
           pub == Published(store, a, bytes)
<1>0. /\ store = [entries |-> held, used |-> store.used] /\ store.used \in Int
      /\ held \in [DOMAIN held -> Nat]
  BY DEF StoreTypes
<1>1. CASE Holds(store, a)
  <2>1. a \in DOMAIN held /\ held[a] \in Nat
    BY <1>0, <1>1 DEF Holds
  <2>2. /\ pub.entries = [x \in DOMAIN held \cup {a} |-> IF x = a THEN bytes ELSE held[x]]
        /\ pub.used = store.used - held[a] + bytes
        /\ a \in DOMAIN pub.entries /\ pub.entries[a] = bytes
    BY <1>1, <2>1 DEF Published, HeldBytes, Holds
  <2>3. Published(pub, a, held[a]).used = store.used
    BY <1>0, <2>1, <2>2 DEF Published, HeldBytes, Holds
  <2>4. Published(pub, a, held[a]).entries = held
    BY <1>0, <2>1, <2>2 DEF Published
  <2>5. Published(pub, a, held[a])
        = [entries |-> Published(pub, a, held[a]).entries,
           used |-> Published(pub, a, held[a]).used]
    BY DEF Published
  <2> QED BY <1>0, <1>1, <2>3, <2>4, <2>5 DEF RolledBack
<1>2. CASE ~Holds(store, a)
  <2>1. a \notin DOMAIN held
    BY <1>2 DEF Holds
  <2>2. /\ pub.entries = [x \in DOMAIN held \cup {a} |-> IF x = a THEN bytes ELSE held[x]]
        /\ pub.used = store.used + bytes
        /\ a \in DOMAIN pub.entries /\ pub.entries[a] = bytes
    BY <1>0, <1>2, <2>1 DEF Published, HeldBytes, Holds
  <2>3. Erased(pub, a).used = store.used
    BY <1>0, <2>1, <2>2 DEF Erased, HeldBytes, Holds
  <2>4. Erased(pub, a).entries = held
    BY <1>0, <2>1, <2>2 DEF Erased
  <2>5. Erased(pub, a) = [entries |-> Erased(pub, a).entries, used |-> Erased(pub, a).used]
    BY DEF Erased
  <2> QED BY <1>0, <1>2, <2>3, <2>4, <2>5 DEF RolledBack
<1> QED BY <1>1, <1>2

\* A result committed puts its sample on its layer and in the registry, one that is
\* rejected changes neither.
LEMMA ResultTyped ==
  ASSUME DeskTypes, StoreTypes, NEW result \in Results, Committed(result) \/ Rejected(result)
  PROVE  /\ DeskTypes' /\ StoreTypes'
         /\ \/ /\ Committed(result)
               /\ DOMAIN store'.entries = DOMAIN store.entries \cup {result.job.asset}
               /\ project'.state = WithAsset(project.state, result.job.pad, result.job.asset)
            \/ Rejected(result) /\ UNCHANGED <<desk, store>>
<1>1. /\ result.bytes \in Nat /\ result.job.asset \in Assets /\ result.job.pad \in Pads
      /\ project.state \in States
  BY DEF Results, Jobs, DeskTypes, Projects
<1>2. CASE Committed(result)
  <2> DEFINE s == WithAsset(project.state, result.job.pad, result.job.asset)
  <2>1. s \in States
    BY <1>1, WithAssetTyped
  <2>2. Edit(s) /\ store' = Published(store, result.job.asset, result.bytes)
    BY <1>2 DEF Committed
  <2>3. project'.state = s
    <3>1. project \in [uuid : Nat, revision : Nat, state : States]
      BY DEF DeskTypes, Projects
    <3>2. project' = [project EXCEPT !.state = s, !.revision = project.revision + 1]
      BY <2>2 DEF Edit
    <3> HIDE DEF s
    <3> QED BY <3>1, <3>2
  <2>4. DeskTypes'
    <3> HIDE DEF s
    <3> QED BY <2>1, <2>2, EditTyped
  <2> QED BY <1>1, <1>2, <2>2, <2>3, <2>4, PublishedTyped
<1>3. CASE Rejected(result)
  <2>1. UNCHANGED <<desk, store>>
    BY <1>1, <1>3, RolledBackIsNothing DEF Rejected, Refused
  <2>2. DeskTypes' /\ StoreTypes'
    BY <2>1 DEF desk, DeskTypes, StoreTypes
  <2> QED BY <1>3, <2>1, <2>2
<1> QED BY <1>2, <1>3

\* The result the timer takes is one of those that wait.
LEMMA HeadTyped ==
  ASSUME WorkTypes, completed # <<>>
  PROVE  /\ Head(completed) \in Results /\ Tail(completed) \in Seq(Results)
         /\ Head(completed) = completed[1] /\ 1 \in DOMAIN completed
<1>1. completed \in Seq(Results)
  BY DEF WorkTypes
<1>2. Len(completed) \in Nat \ {0} /\ DOMAIN completed = 1 .. Len(completed)
  BY <1>1, LenProperties, EmptySeq
<1> QED BY <1>1, <1>2, HeadTailProperties

\* The result a handler of the timer has in its hands.
LEMMA HandledTyped ==
  ASSUME WorkTypes, NEW result, Timer(result)
  PROVE  result \in Results /\ completed' \in Seq(Results)
  BY HeadTyped DEF Timer

\* Steps of handlers and of the user, as far as the project and the registry go.
LEMMA RecordedCommits ==
  ASSUME NEW result, HandleRecorded(result)
  PROVE  Committed(result) \/ Rejected(result) \/ UNCHANGED <<desk, store>>
  BY DEF HandleRecorded, Rejected

\* An empty project is a project, and so is one that was opened.
LEMMA NoProjectTyped ==
  ASSUME NEW n \in Nat
  PROVE  NoProject(n) \in Projects
  BY DEF NoProject, Projects, States

LEMMA OpenedTyped ==
  ASSUME NEW d \in Projects, NEW gone \in Gone(d.state), NEW n \in Nat
  PROVE  LET opened == [d EXCEPT !.state.missing = gone, !.revision = n]
         IN /\ opened \in Projects
            /\ opened.state.missing = gone
            /\ opened.state.assets = d.state.assets
            /\ opened.state.layers = d.state.layers
<1>1. gone \in SUBSET Assets
  BY DEF Gone, Projects, States
<1> QED BY <1>1 DEF Projects, States

LEMMA EmptyStoreTyped == store' = EmptyStore => StoreTypes' /\ DOMAIN store'.entries = {}
  BY DEF EmptyStore, StoreTypes

\* The project and its histories through every step.
LEMMA DeskTypesKept ==
  ASSUME StudioTypes, [Next]_studioVars
  PROVE  DeskTypes' /\ StoreTypes'
<1> USE DEF StudioTypes
<1>0. ASSUME UNCHANGED <<desk, store>> PROVE DeskTypes' /\ StoreTypes'
  BY <1>0 DEF desk, DeskTypes, StoreTypes
<1>1. ASSUME NEW p \in EditedPads, DropFiles(p) \/ SubmitDerived(p)
      PROVE  DeskTypes' /\ StoreTypes'
  BY <1>0, <1>1 DEF DropFiles, SubmitDerived
<1>2. ASSUME NEW p \in EditedPads, ClearLayer(p) PROVE DeskTypes' /\ StoreTypes'
  <2>1. [project.state EXCEPT !.layers[p] = None] \in States
    BY StudioAssumption DEF DeskTypes, Projects, States
  <2>2. UNCHANGED store
    BY <1>2 DEF ClearLayer
  <2> QED BY <1>2, <2>1, <2>2, EditTyped DEF ClearLayer, StoreTypes
<1>3. ASSUME NEW p \in EditedPads, ArmRecording(p) PROVE DeskTypes' /\ StoreTypes'
  <2>1. \A auto \in BOOLEAN : [project.state EXCEPT !.autoAssign = auto] \in States
    BY DEF DeskTypes, Projects, States
  <2>2. UNCHANGED desk \/ DeskTypes'
    BY <1>3, <2>1, EditTyped DEF ArmRecording
  <2>3. UNCHANGED store
    BY <1>3 DEF ArmRecording
  <2> QED BY <1>0, <2>2, <2>3 DEF StoreTypes
<1>4. CASE UndoEdit
  <2> DEFINE edit == undo[Len(undo)]
  <2>1. Len(undo) \in Nat \ {0} /\ Len(undo) \in 1 .. Len(undo)
    BY <1>4, LenProperties, EmptySeq DEF UndoEdit, DeskTypes
  <2>2. edit \in Edits /\ project \in Projects /\ project.revision + 1 \in Nat
    BY <2>1, ElementOfSeq DEF DeskTypes, Projects
  <2>3. project' = [project EXCEPT !.state = edit.before, !.revision = project.revision + 1]
    BY <1>4 DEF UndoEdit
  <2>4. project' \in Projects
    <3>1. edit.before \in States
      BY <2>2 DEF Edits
    <3> HIDE DEF edit
    <3> QED BY <2>2, <2>3, <3>1 DEF Projects
  <2>5. redo' = Append(redo, edit) /\ undo' = SubSeq(undo, 1, Len(undo) - 1)
    BY <1>4 DEF UndoEdit
  <2>6. redo' \in Seq(Edits)
    <3> HIDE DEF edit
    <3> QED BY <2>2, <2>5, AppendProperties DEF DeskTypes
  <2>7. undo' \in Seq(Edits)
    BY <2>1, <2>5, ElementOfSeq, SubSeqProperties DEF DeskTypes
  <2>8. UNCHANGED store
    BY <1>4 DEF UndoEdit
  <2> QED BY <2>4, <2>6, <2>7, <2>8 DEF DeskTypes, StoreTypes
<1>5. CASE RedoEdit
  <2> DEFINE edit == redo[Len(redo)]
  <2>1. Len(redo) \in Nat \ {0} /\ Len(redo) \in 1 .. Len(redo)
    BY <1>5, LenProperties, EmptySeq DEF RedoEdit, DeskTypes
  <2>2. edit \in Edits /\ project \in Projects /\ project.revision + 1 \in Nat
    BY <2>1, ElementOfSeq DEF DeskTypes, Projects
  <2>3. project' = [project EXCEPT !.state = edit.after, !.revision = project.revision + 1]
    BY <1>5 DEF RedoEdit
  <2>4. project' \in Projects
    <3>1. edit.after \in States
      BY <2>2 DEF Edits
    <3> HIDE DEF edit
    <3> QED BY <2>2, <2>3, <3>1 DEF Projects
  <2>5. undo' = Append(undo, edit) /\ redo' = SubSeq(redo, 1, Len(redo) - 1)
    BY <1>5 DEF RedoEdit
  <2>6. undo' \in Seq(Edits)
    <3> HIDE DEF edit
    <3> QED BY <2>2, <2>5, AppendProperties DEF DeskTypes
  <2>7. redo' \in Seq(Edits)
    BY <2>1, <2>5, ElementOfSeq, SubSeqProperties DEF DeskTypes
  <2>8. UNCHANGED store
    BY <1>5 DEF RedoEdit
  <2> QED BY <2>4, <2>6, <2>7, <2>8 DEF DeskTypes, StoreTypes
<1>6. CASE AssignPending
  <2>1. rec.pending \in Results
    BY <1>6 DEF AssignPending, Takes
  <2> QED BY <1>6, <2>1, ResultTyped DEF AssignPending
<1>7. CASE CancelRecording \/ Save \/ OpenRefused \/ SaveProject \/ NoticeTake \/ TakeEnds
  BY <1>0, <1>7 DEF CancelRecording, Save, OpenRefused, SaveProject, NoticeTake, TakeEnds
<1>8. CASE NewProject \/ Restart
  BY <1>8, NoProjectTyped, EmptyStoreTyped, EmptySeq
     DEF NewProject, Restart, Abandon, DeskTypes, WorkTypes
<1>9. CASE OpenProject
  <2>1. PICK gone \in Gone(dest.state) :
          project' = [dest EXCEPT !.state.missing = gone,
                        !.revision = dest.revision + (IF gone = dest.state.missing THEN 0 ELSE 1)]
    BY <1>9 DEF OpenProject
  <2>2. store' = EmptyStore /\ undo' = <<>> /\ redo' = <<>>
    BY <1>9 DEF OpenProject, Abandon
  <2>3. dest \in Projects
    BY <1>9 DEF OpenProject, FileTypes
  <2>4. project' \in Projects
    <3>1. dest.revision + (IF gone = dest.state.missing THEN 0 ELSE 1) \in Nat
      BY <2>3 DEF Projects
    <3> QED BY <2>1, <2>3, <3>1, OpenedTyped
  <2> QED BY <2>2, <2>4, EmptyStoreTyped, EmptySeq DEF DeskTypes
<1>10. CASE \E job \in jobs : Worker(job)
  BY <1>0, <1>10 DEF Worker, Decode, RenderFile, Rendered
<1>11. ASSUME NEW result, HandleImport(result) \/ HandleDerived(result)
       PROVE  DeskTypes' /\ StoreTypes'
  <2>1. result \in Results
    BY <1>11, HandledTyped DEF HandleImport, HandleDerived
  <2> QED BY <1>11, <2>1, ResultTyped DEF HandleImport, HandleDerived
<1>12. ASSUME NEW result, HandleRecorded(result) PROVE DeskTypes' /\ StoreTypes'
  <2>1. result \in Results
    BY <1>12, HandledTyped DEF HandleRecorded
  <2> QED BY <1>0, <1>12, <2>1, ResultTyped, RecordedCommits
<1>13. ASSUME NEW result, HandleResolved(result) PROVE DeskTypes' /\ StoreTypes'
  <2>1. result \in Results /\ result.bytes \in Nat
    BY <1>13, HandledTyped DEF HandleResolved, Results
  <2>2. UNCHANGED desk
    BY <1>13 DEF HandleResolved
  <2>3. store' = Published(store, result.job.asset, result.bytes) \/ UNCHANGED store
    BY <1>13 DEF HandleResolved
  <2> QED BY <1>0, <2>1, <2>2, <2>3, PublishedTyped DEF desk, DeskTypes
<1>14. CASE UNCHANGED studioVars
  BY <1>0, <1>14 DEF studioVars
<1> QED
  BY <1>1, <1>2, <1>3, <1>4, <1>5, <1>6, <1>7, <1>8, <1>9, <1>10, <1>11, <1>12, <1>13, <1>14
     DEF Next, PadGesture, User, Beside, HandleCompletedJob

\* save() is begun by one gesture, with the project; the rest leaves the files alone.
LEMMA OtherStepsLeaveFiles ==
  ASSUME [Next]_studioVars
  PROVE  Save \/ SaveProject \/ Restart \/ UNCHANGED fileVars
<1>1. ASSUME NEW p \in EditedPads, PadGesture(p) PROVE UNCHANGED fileVars
  BY <1>1 DEF PadGesture, DropFiles, SubmitDerived, ClearLayer, ArmRecording
<1>2. CASE UndoEdit \/ RedoEdit \/ CancelRecording \/ AssignPending
  BY <1>2 DEF UndoEdit, RedoEdit, CancelRecording, AssignPending
<1>3. CASE NewProject \/ OpenProject \/ OpenRefused
  BY <1>3 DEF NewProject, OpenProject, OpenRefused
<1>4. CASE Beside
  BY <1>4 DEF Beside, TakeEnds, Worker, Decode, RenderFile, Rendered
<1>5. CASE HandleCompletedJob
  BY <1>5 DEF HandleCompletedJob, HandleImport, HandleDerived, HandleRecorded,
              HandleResolved, Timer
<1>6. CASE NoticeTake
  BY <1>6 DEF NoticeTake
<1>7. CASE UNCHANGED studioVars
  BY <1>7 DEF studioVars
<1> QED
  BY <1>1, <1>2, <1>3, <1>4, <1>5, <1>6, <1>7 DEF Next, User

\* UUIDs are counted up.
LEMMA DrawnTyped ==
  ASSUME fresh \in Nat, Drawn \/ fresh' = fresh + 1 \/ UNCHANGED fresh
  PROVE  fresh' \in Nat
  BY DEF Drawn

\* Gestures are counted, and nothing else the ghost keeps changes.
LEMMA GestureTyped ==
  ASSUME WorkTypes, Gesture
  PROVE  /\ ghost' \in [opening : Nat, unbacked : SUBSET Assets, gestures : Nat, takes : Nat]
         /\ ghost'.opening = ghost.opening /\ ghost'.unbacked = ghost.unbacked
<1>1. ghost' = [ghost EXCEPT !.gestures = ghost.gestures + 1] /\ ghost.gestures + 1 \in Nat
  BY DEF Gesture, WorkTypes
<1> QED BY <1>1 DEF WorkTypes

\* A job that ends is taken from the jobs, its result waits behind the others.
LEMMA FinishTyped ==
  ASSUME WorkTypes, NEW job \in jobs, NEW ok \in BOOLEAN, NEW bytes \in Nat,
         Finish(job, ok, bytes)
  PROVE  jobs' \subseteq Jobs /\ completed' \in Seq(Results)
<1>1. [job |-> job, ok |-> ok, bytes |-> bytes] \in Results
  BY DEF WorkTypes, Results
<1> QED BY <1>1, AppendProperties DEF WorkTypes, Finish

\* Files dropped go to pads, one after the other.
LEMMA DroppedTyped ==
  ASSUME NEW p \in Pads, NEW last \in Pads, last >= p
  PROVE  [i \in 1 .. last - p + 1 |-> p + i - 1] \in Seq(Pads)
<1>1. p \in Nat /\ last \in Nat /\ last - p + 1 \in Nat /\ 0 .. last \subseteq Pads
  BY StudioAssumption
<1>2. \A i \in 1 .. last - p + 1 : p + i - 1 \in 0 .. last
  BY <1>1
<1> QED BY <1>1, <1>2, SeqDef

\* The variables of the work under way through every step.
LEMMA WorkTypesKept ==
  ASSUME StudioTypes, DeskTypes', [Next]_studioVars
  PROVE  WorkTypes' /\ rec' \in Takes
<1> USE DEF StudioTypes
<1> DEFINE Queues == [queue : Seq(Pads), active : BOOLEAN, refused : BOOLEAN]
           Ghosts == [opening : Nat, unbacked : SUBSET Assets, gestures : Nat, takes : Nat]
<1>0. project \in Projects /\ project' \in Projects /\ rec \in Takes /\ jobs \subseteq Jobs
      /\ NoImports \in Queues /\ imports \in Queues /\ ghost \in Ghosts /\ fresh \in Nat
      /\ completed \in Seq(Results)
  BY EmptySeq DEF DeskTypes, WorkTypes, NoImports
<1>a. ASSUME imports' \in Queues, jobs' \subseteq Jobs, completed' \in Seq(Results),
             Drawn \/ fresh' = fresh + 1 \/ UNCHANGED fresh, ghost' \in Ghosts, rec' \in Takes
      PROVE  WorkTypes' /\ rec' \in Takes
  BY <1>0, <1>a, DrawnTyped DEF WorkTypes
<1>b. Gesture => ghost' \in Ghosts
  BY GestureTyped
<1>c. RecordingRefreshed(rec, jobs) => rec' \in Takes /\ jobs' \subseteq Jobs
  BY <1>0, RefreshTyped
<1>d. RecordingCancelled \in Takes
  BY CancelTyped
<1>1. ASSUME NEW p \in EditedPads, DropFiles(p) PROVE WorkTypes' /\ rec' \in Takes
  <2>1. PICK last \in {q \in Pads : q >= p} :
          LET queue == imports.queue \o [i \in 1 .. last - p + 1 |-> p + i - 1]
          IN IF imports.active
             THEN imports' = [imports EXCEPT !.queue = queue] /\ UNCHANGED jobs
             ELSE \E next \in ImportsAfter(queue, jobs, project) :
                    imports' = next.imports /\ jobs' = next.jobs
    BY <1>1 DEF DropFiles
  <2>2. PICK queue : queue = imports.queue \o [i \in 1 .. last - p + 1 |-> p + i - 1]
    OBVIOUS
  <2>3. queue \in Seq(Pads)
    BY <1>0, <2>1, <2>2, DroppedTyped, ConcatProperties, StudioAssumption
  <2>4. imports' \in Queues /\ jobs' \subseteq Jobs
    <3>1. CASE imports.active
      BY <1>0, <2>1, <2>2, <2>3, <3>1
    <3>2. CASE ~imports.active
      <4>1. PICK next \in ImportsAfter(queue, jobs, project) :
              imports' = next.imports /\ jobs' = next.jobs
        BY <2>1, <2>2, <3>2
      <4> QED BY <1>0, <2>3, <4>1, NextImportTyped
    <3> QED BY <3>1, <3>2
  <2> QED BY <1>0, <1>1, <1>a, <1>b, <2>4 DEF DropFiles
<1>2. ASSUME NEW p \in EditedPads, SubmitDerived(p) PROVE WorkTypes' /\ rec' \in Takes
  <2>1. PICK a : a = project.state.layers[p]
    OBVIOUS
  <2>2. a # None /\ jobs' = jobs \cup {Job("derived", p, <<a[1], "render">>, project)}
    BY <1>2, <2>1 DEF SubmitDerived
  <2>3. p \in Pads /\ a \in Assets
    BY <1>0, <2>1, <2>2, StudioAssumption DEF Projects, States
  <2>4. Job("derived", p, <<a[1], "render">>, project) \in Jobs
    BY <1>0, <2>3, JobTyped, AssetTyped DEF Projects, Assets
  <2> QED BY <1>0, <1>2, <1>a, <1>b, <2>2, <2>4 DEF SubmitDerived
<1>3. ASSUME NEW p \in EditedPads, ClearLayer(p) PROVE WorkTypes' /\ rec' \in Takes
  BY <1>0, <1>3, <1>a, <1>b, <1>c DEF ClearLayer
<1>4. ASSUME NEW p \in EditedPads, ArmRecording(p) PROVE WorkTypes' /\ rec' \in Takes
  <2>1. PICK auto \in BOOLEAN :
          rec' = [NoTake EXCEPT !.stage = "armed", !.take = fresh, !.auto = auto,
                    !.target = [uuid |-> project.uuid, revision |-> project'.revision,
                                pad |-> p]]
    BY <1>4 DEF ArmRecording
  <2>2. [uuid |-> project.uuid, revision |-> project'.revision, pad |-> p] \in Targets
    BY <1>0, StudioAssumption DEF Targets, Projects
  <2>3. rec' \in Takes
    BY <1>0, <2>1, <2>2 DEF Takes, NoTake
  <2>4. ghost' \in Ghosts
    <3>1. ghost.gestures + 2 \in Nat /\ ghost.takes + 1 \in Nat
      BY <1>0
    <3> QED BY <1>0, <1>4, <3>1 DEF ArmRecording
  <2> QED BY <1>0, <1>4, <1>a, <2>3, <2>4 DEF ArmRecording
<1>5. CASE UndoEdit \/ RedoEdit
  BY <1>0, <1>5, <1>a, <1>b, <1>c DEF UndoEdit, RedoEdit
<1>6. CASE AssignPending
  <2>1. [rec EXCEPT !.pending = None] \in Takes
    BY <1>0 DEF Takes
  <2>2. rec' \in Takes /\ jobs' \subseteq Jobs
    BY <1>0, <1>6, <2>1, RefreshTyped DEF AssignPending
  <2> QED BY <1>0, <1>6, <1>a, <1>b, <2>2 DEF AssignPending
<1>7. CASE CancelRecording \/ OpenRefused \/ Save
  BY <1>0, <1>7, <1>a, <1>b, <1>d DEF CancelRecording, OpenRefused, Save
<1>8. CASE NewProject
  <2>1. rec' \in Takes /\ jobs' \subseteq Jobs
    BY <1>0, <1>8, <1>d, RefreshTyped DEF NewProject
  <2> QED BY <1>0, <1>8, <1>a, <1>b, <2>1 DEF NewProject, Abandon
<1>9. CASE OpenProject
  <2>1. PICK gone \in Gone(dest.state) :
          LET present == dest.state.assets \ gone
              revision == dest.revision + (IF gone = dest.state.missing THEN 0 ELSE 1)
          IN \E queued \in SUBSET present :
               /\ RecordingRefreshed(RecordingCancelled,
                                     jobs \cup {Resolve(a, revision) : a \in queued})
               /\ ghost' = [ghost EXCEPT !.gestures = @ + 1, !.opening = @ + 1,
                                         !.unbacked = present \ queued]
    BY <1>9 DEF OpenProject
  <2> DEFINE revision == dest.revision + (IF gone = dest.state.missing THEN 0 ELSE 1)
  <2>2. PICK queued \in SUBSET (dest.state.assets \ gone) :
          /\ RecordingRefreshed(RecordingCancelled,
                                jobs \cup {Resolve(a, revision) : a \in queued})
          /\ ghost' = [ghost EXCEPT !.gestures = @ + 1, !.opening = @ + 1,
                         !.unbacked = (dest.state.assets \ gone) \ queued]
    BY <2>1
  <2>3. dest \in Projects /\ dest.state.assets \subseteq Assets
    BY <1>9 DEF OpenProject, FileTypes, Projects, States
  <2>4. ghost.opening + 1 \in Nat /\ ghost.gestures + 1 \in Nat
    BY <1>0
  <2>5. \A a \in queued : Resolve(a, revision) \in Jobs
    <3>1. revision \in Nat /\ 0 \in Pads
      BY <2>3, StudioAssumption DEF Projects
    <3> HIDE DEF revision
    <3> QED BY <2>3, <2>4, <3>1 DEF Resolve, Jobs
  <2>6. rec' \in Takes /\ jobs' \subseteq Jobs
    <3> HIDE DEF revision
    <3> QED BY <1>0, <1>d, <2>2, <2>5, RefreshTyped
  <2>7. ghost' \in Ghosts
    BY <1>0, <2>2, <2>3, <2>4
  <2> QED BY <1>0, <1>9, <1>a, <2>6, <2>7 DEF OpenProject, Abandon
<1>10. CASE Restart
  <2>1. NoTake \in Takes
    BY DEF NoTake, Takes
  <2> QED BY <1>0, <1>10, <1>a, <2>1, EmptySeq DEF Restart
<1>11. CASE SaveProject
  BY <1>0, <1>11, <1>a DEF SaveProject
<1>12. CASE TakeEnds
  <2>1. [rec EXCEPT !.stage = "completed"] \in Takes /\ [NoTake EXCEPT !.auto = rec.auto] \in Takes
    BY <1>0, <1>12 DEF TakeEnds, Takes, NoTake
  <2> QED BY <1>0, <1>12, <1>a, <2>1 DEF TakeEnds
<1>13. ASSUME NEW job \in jobs, Decode(job) \/ Rendered(job) PROVE WorkTypes' /\ rec' \in Takes
  <2>1. \E ok \in BOOLEAN, bytes \in Nat : Finish(job, ok, bytes)
    <3>1. 0 \in Nat /\ 1 \in Nat /\ DecodedSizes \subseteq Nat /\ TRUE \in BOOLEAN /\ FALSE \in BOOLEAN
          /\ (job.wrote # "no") \in BOOLEAN
      BY StudioAssumption
    <3> QED BY <1>13, <3>1 DEF Decode, Rendered
  <2>2. jobs' \subseteq Jobs /\ completed' \in Seq(Results)
    BY <2>1, FinishTyped
  <2> QED BY <1>0, <1>13, <1>a, <2>2 DEF Decode, Rendered
<1>14. ASSUME NEW job \in jobs, RenderFile(job) PROVE WorkTypes' /\ rec' \in Takes
  <2>1. [job EXCEPT !.wrote = "reused"] \in Jobs /\ [job EXCEPT !.wrote = "new"] \in Jobs
    BY <1>0 DEF Jobs
  <2>2. jobs' \subseteq Jobs
    BY <1>0, <1>14, <2>1 DEF RenderFile
  <2> QED BY <1>0, <1>14, <1>a, <2>2 DEF RenderFile
<1>15. ASSUME NEW result, HandleImport(result) PROVE WorkTypes' /\ rec' \in Takes
  <2>1. PICK queue : /\ queue = IF imports.queue = <<>> THEN <<>> ELSE Tail(imports.queue)
                     /\ \E next \in ImportsAfter(queue, jobs, project') :
                          imports' = next.imports /\ RecordingRefreshed(rec, next.jobs)
    BY <1>15 DEF HandleImport
  <2>2. queue \in Seq(Pads)
    BY <1>0, <2>1, HeadTailProperties, EmptySeq
  <2>3. imports' \in Queues /\ rec' \in Takes /\ jobs' \subseteq Jobs
    <3>1. PICK next \in ImportsAfter(queue, jobs, project') :
            imports' = next.imports /\ RecordingRefreshed(rec, next.jobs)
      BY <2>1
    <3>2. next.imports \in Queues /\ next.jobs \subseteq Jobs
      BY <1>0, <2>2, NextImportTyped
    <3> QED BY <1>0, <3>1, <3>2, RefreshTyped
  <2>4. completed' \in Seq(Results)
    BY <1>15, HandledTyped DEF HandleImport
  <2> QED BY <1>0, <1>15, <1>a, <2>3, <2>4 DEF HandleImport
<1>16. ASSUME NEW result, HandleDerived(result) PROVE WorkTypes' /\ rec' \in Takes
  <2>1. completed' \in Seq(Results)
    BY <1>16, HandledTyped DEF HandleDerived
  <2> QED BY <1>0, <1>16, <1>a, <1>c, <2>1 DEF HandleDerived
<1>17. ASSUME NEW result, HandleRecorded(result) PROVE WorkTypes' /\ rec' \in Takes
  <2>1. result \in Results /\ completed' \in Seq(Results) /\ result.job.kind = "recorded"
    BY <1>17, HandledTyped DEF HandleRecorded
  <2>2. [rec EXCEPT !.decoding = FALSE] \in Takes
    BY <1>0 DEF Takes
  <2>3. [[rec EXCEPT !.decoding = FALSE] EXCEPT !.pending = result] \in Takes
    BY <1>0, <2>1 DEF Takes
  <2>4. rec' \in Takes /\ jobs' \subseteq Jobs
    BY <1>0, <1>17, <2>2, <2>3, RefreshTyped DEF HandleRecorded
  <2> QED BY <1>0, <1>17, <1>a, <2>1, <2>4 DEF HandleRecorded
<1>18. ASSUME NEW result, HandleResolved(result) PROVE WorkTypes' /\ rec' \in Takes
  <2>1. result \in Results /\ completed' \in Seq(Results) /\ result.job.asset \in Assets
    BY <1>18, HandledTyped DEF HandleResolved, Results, Jobs
  <2>2. ghost' = ghost
        \/ ghost' = [ghost EXCEPT !.unbacked = ghost.unbacked \cup {result.job.asset}]
    BY <1>18 DEF HandleResolved
  <2>3. ghost' \in Ghosts
    BY <1>0, <2>1, <2>2
  <2> QED BY <1>0, <1>18, <1>a, <1>c, <2>1, <2>3 DEF HandleResolved
<1>19. CASE NoticeTake
  BY <1>0, <1>19, <1>a, <1>c DEF NoticeTake
<1>20. CASE UNCHANGED studioVars
  BY <1>0, <1>20, <1>a DEF studioVars
<1> QED
  BY <1>1, <1>2, <1>3, <1>4, <1>5, <1>6, <1>7, <1>8, <1>9, <1>10, <1>11, <1>12, <1>13, <1>14,
     <1>15, <1>16, <1>17, <1>18, <1>19, <1>20
     DEF Next, PadGesture, User, Beside, Worker, HandleCompletedJob

\* A save that fails leaves whole files.
LEMMA FailTyped ==
  ASSUME FileTypes, Fail
  PROVE  FileTypes'
  BY DEF Fail, Return, FileTypes

\* What is moved into place was read back.
LEMMA SaveStepTyped ==
  ASSUME FileTypes, SaveStep
  PROVE  FileTypes'
<1> USE DEF FileTypes, Return, files
<1>1. CASE RemoveStale
  BY <1>1 DEF RemoveStale
<1>2. CASE CreateTemporary
  BY <1>2 DEF CreateTemporary
<1>3. CASE WriteTemporary
  <2>1. version \in Projects /\ (Fail \/ (/\ tmp' \in {version, Torn} /\ saving' = "compare"
                                        /\ UNCHANGED <<dest, bak, version>>))
    BY <1>3 DEF WriteTemporary
  <2> QED BY <2>1, FailTyped
<1>4. CASE CompareTemporary
  <2>1. /\ version \in Projects
        /\ Fail \/ (/\ tmp = version /\ UNCHANGED <<dest, bak, tmp, version>>)
    BY <1>4 DEF CompareTemporary
  <2> QED BY <2>1, FailTyped
<1>5. CASE DropBackup
  BY <1>5, FailTyped DEF DropBackup
<1>6. CASE Rotate
  BY <1>6, FailTyped DEF Rotate
<1>7. CASE Publish
  BY <1>7 DEF Publish
<1>8. CASE Restore
  BY <1>8 DEF Restore
<1> QED BY <1>1, <1>2, <1>3, <1>4, <1>5, <1>6, <1>7, <1>8 DEF SaveStep

\* The files hold projects, or nothing, or for a time half of one.
LEMMA FileTypesKept ==
  ASSUME StudioTypes, [Next]_studioVars
  PROVE  FileTypes'
<1>0. FileTypes
  BY DEF StudioTypes
<1>1. CASE Save
  BY <1>0, <1>1 DEF Save, BeginSave, StudioTypes, DeskTypes, FileTypes, files
<1>2. CASE Restart
  BY <1>0, <1>2 DEF Restart, FileCrash, Return, FileTypes, files
<1>3. CASE SaveProject
  BY <1>0, <1>3, SaveStepTyped DEF SaveProject
<1>4. CASE UNCHANGED fileVars
  BY <1>0, <1>4 DEF fileVars, FileTypes
<1> QED BY <1>1, <1>2, <1>3, <1>4, OtherStepsLeaveFiles

\* Every variable has its type.
THEOREM StudioTypesAlways == Spec => []StudioTypes
<1>1. Init => StudioTypes
  <2>1. NoTake \in Takes
    BY DEF NoTake, Takes
  <2>2. store = EmptyStore => StoreTypes
    BY DEF EmptyStore, StoreTypes
  <2> QED
    BY <2>1, <2>2, NoProjectTyped, EmptySeq
       DEF Init, StudioTypes, DeskTypes, WorkTypes, FileTypes, FileInit, NoImports
<1>2. StudioTypes /\ [Next]_studioVars => StudioTypes'
  BY DeskTypesKept, WorkTypesKept, FileTypesKept DEF StudioTypes
<1> QED BY <1>1, <1>2, PTL DEF Spec

(***************************************************************************)
(* The project's file in Studio.                                           *)
(***************************************************************************)

\* However the user, the workers and the timer interleave with saves and deaths of
\* the process, the last project saved survives.
THEOREM StudioKeepsSavedProject == Spec => []SavedProjectSurvives
<1>1. Init => FileInv
  BY FileInitSafe DEF Init
<1>2. FileInv => SavedProjectSurvives
  BY DEF FileInv, SavedIsWhere, SavedProjectSurvives
<1>3. StudioTypes /\ FileInv /\ [Next]_studioVars => FileInv'
  <2> SUFFICES ASSUME StudioTypes, FileInv, [Next]_studioVars PROVE FileInv'
    OBVIOUS
  <2>1. CASE Save
    <3>1. project \notin {Absent, Torn}
      BY StudioAssumption DEF StudioTypes, DeskTypes
    <3> QED BY <2>1, <3>1, BeginSafe DEF Save
  <2>2. CASE SaveProject
    BY <2>2, SaveStepSafe DEF SaveProject
  <2>3. CASE Restart
    BY <2>3, CrashSafe DEF Restart
  <2> QED BY <2>1, <2>2, <2>3, CrashSafe, OtherStepsLeaveFiles
<1> QED BY <1>1, <1>2, <1>3, StudioTypesAlways, PTL DEF Spec

(***************************************************************************)
(* What is remembered: the states of the project the user can get back to, *)
(* and those that are in files.                                            *)
(***************************************************************************)

StatesOf(history) == {history[i].before : i \in DOMAIN history}
                      \cup {history[i].after : i \in DOMAIN history}

Remembered == {project.state} \cup StatesOf(undo) \cup StatesOf(redo)

OnDisk == {dest, bak, tmp, version} \cap Projects

Kept == Remembered \cup {f.state : f \in OnDisk}

\* The state an edit has left or made is part of its history.
LEMMA HistoryAppended ==
  ASSUME NEW history \in Seq(Edits), NEW edit \in Edits
  PROVE  StatesOf(Append(history, edit)) \subseteq StatesOf(history) \cup {edit.before, edit.after}
<1>1. /\ Append(history, edit) \in Seq(Edits)
      /\ Len(Append(history, edit)) = Len(history) + 1 /\ Len(history) \in Nat
      /\ \A i \in 1 .. Len(history) : Append(history, edit)[i] = history[i]
      /\ Append(history, edit)[Len(history) + 1] = edit
  BY AppendProperties, LenProperties
<1>2. DOMAIN Append(history, edit) = 1 .. Len(history) + 1 /\ DOMAIN history = 1 .. Len(history)
  BY <1>1, LenProperties
<1>3. ASSUME NEW i \in DOMAIN Append(history, edit)
      PROVE  \/ i \in DOMAIN history /\ Append(history, edit)[i] = history[i]
             \/ Append(history, edit)[i] = edit
  BY <1>1, <1>2, <1>3
<1> QED BY <1>3 DEF StatesOf

\* Taking the last edit from a history.
LEMMA HistoryPopped ==
  ASSUME NEW history \in Seq(Edits), history # <<>>
  PROVE  LET edit == history[Len(history)]
         IN /\ edit \in Edits /\ {edit.before, edit.after} \subseteq StatesOf(history)
            /\ StatesOf(SubSeq(history, 1, Len(history) - 1)) \subseteq StatesOf(history)
<1>1. Len(history) \in Nat \ {0} /\ DOMAIN history = 1 .. Len(history)
  BY LenProperties, EmptySeq
<1>2. Len(history) \in DOMAIN history /\ history[Len(history)] \in Edits
  BY <1>1, ElementOfSeq
<1> DEFINE front == SubSeq(history, 1, Len(history) - 1)
<1>3. IsSequence(history)
  BY DEF IsSequence
<1>4. /\ DOMAIN front = 1 .. Len(history) - 1
      /\ \A i \in 1 .. Len(history) - 1 : front[i] = history[i]
  BY <1>3, ShortenedSequence, DomainOfSequence
<1>5. \A i \in DOMAIN front : i \in DOMAIN history /\ front[i] = history[i]
  BY <1>1, <1>4
<1> HIDE DEF front
<1>6. StatesOf(front) \subseteq StatesOf(history)
  BY <1>5 DEF StatesOf
<1> QED BY <1>2, <1>6 DEF StatesOf, front

LEMMA NoHistory == StatesOf(<<>>) = {}
  BY EmptySeq DEF StatesOf

\* An edit remembers the state it leaves.
LEMMA EditRemembers ==
  ASSUME DeskTypes, NEW s \in States, Edit(s)
  PROVE  project'.state = s /\ Remembered' \subseteq Remembered \cup {s}
<1>1. /\ project \in [uuid : Nat, revision : Nat, state : States]
      /\ project' = [project EXCEPT !.state = s, !.revision = project.revision + 1]
      /\ undo' = Append(undo, [before |-> project.state, after |-> s]) /\ redo' = <<>>
  BY DEF DeskTypes, Projects, Edit
<1>2. [before |-> project.state, after |-> s] \in Edits /\ undo \in Seq(Edits)
  BY <1>1 DEF Edits, DeskTypes
<1>3. project'.state = s
  BY <1>1
<1>4. StatesOf(undo') \subseteq StatesOf(undo) \cup {project.state, s}
  BY <1>1, <1>2, HistoryAppended
<1> QED BY <1>1, <1>3, <1>4, NoHistory DEF Remembered

\* s has the assets of t, and each of its layers or nothing there.
Pruned(s, t) == s.assets = t.assets /\ \A p \in Pads : s.layers[p] \in {t.layers[p], None}

\* Where the state of the project comes from: it was remembered or on the disk, but
\* for layers that were cleared, it is new and empty, or a result was committed.
Committing(result) ==
  /\ result \in Results /\ Committed(result)
  /\ project'.state = WithAsset(project.state, result.job.pad, result.job.asset)
  /\ HandleDerived(result) \/ result.job.kind \in {"import", "recorded"}

\* Only an opened project was not open before, or knows other samples to be missing.
Returning(t) ==
  /\ t \in Kept /\ Pruned(project'.state, t)
  /\ OpenProject \/ (t \in Remembered /\ project'.state.missing = t.missing)

ProjectComesFrom ==
  \/ \E t : Returning(t)
  \/ \E n \in Nat : project'.state = NoProject(n).state
  \/ \E result : Committing(result)

LEMMA SameIsPruned ==
  ASSUME NEW s
  PROVE  Pruned(s, s)
  BY DEF Pruned

LEMMA WhereProjectComesFrom ==
  ASSUME StudioTypes, [Next]_studioVars
  PROVE  Remembered' \subseteq Remembered \cup {project'.state} /\ ProjectComesFrom
<1> DEFINE Goal == Remembered' \subseteq Remembered \cup {project'.state} /\ ProjectComesFrom
<1> SUFFICES Goal
  OBVIOUS
<1>0. ASSUME UNCHANGED desk PROVE Goal
  <2>1. /\ Remembered' = Remembered /\ project'.state = project.state
        /\ project.state \in Kept /\ project.state \in Remembered
    BY <1>0 DEF desk, Remembered, Kept
  <2> QED BY <2>1, SameIsPruned DEF ProjectComesFrom, Returning
<1>t. /\ project \in [uuid : Nat, revision : Nat, state : States] /\ project.revision + 1 \in Nat
      /\ undo \in Seq(Edits) /\ redo \in Seq(Edits) /\ DeskTypes /\ StoreTypes
      /\ fresh \in Nat /\ project.state \in Kept /\ project.state \in Remembered
  BY DEF StudioTypes, DeskTypes, WorkTypes, Projects, Kept, Remembered
<1>c. ASSUME NEW result \in Results, Committed(result) \/ Rejected(result),
             HandleDerived(result) \/ result.job.kind \in {"import", "recorded"}
      PROVE  Goal
  <2>1. CASE UNCHANGED <<desk, store>>
    BY <1>0, <2>1
  <2>2. CASE Committed(result)
    <3> DEFINE s == WithAsset(project.state, result.job.pad, result.job.asset)
    <3>1. s \in States /\ Edit(s)
      BY <1>t, <2>2, WithAssetTyped DEF Committed, Results, Jobs
    <3> HIDE DEF s
    <3>2. project'.state = s /\ Remembered' \subseteq Remembered \cup {s}
      BY <1>t, <3>1, EditRemembers
    <3> QED BY <1>c, <2>2, <3>2 DEF ProjectComesFrom, Committing, s
  <2> QED BY <1>t, <1>c, <2>1, <2>2, ResultTyped
<1>1. ASSUME NEW p \in EditedPads, ClearLayer(p) PROVE Goal
  <2> DEFINE s == [project.state EXCEPT !.layers[p] = None]
  <2>1. s \in States /\ Pruned(s, project.state) /\ s.missing = project.state.missing
    BY <1>t, StudioAssumption DEF States, Pruned
  <2>2. Edit(s)
    BY <1>1 DEF ClearLayer
  <2> HIDE DEF s
  <2>3. project'.state = s /\ Remembered' \subseteq Remembered \cup {s}
    BY <1>t, <2>1, <2>2, EditRemembers
  <2> QED BY <1>t, <2>1, <2>3 DEF ProjectComesFrom, Returning
<1>2. ASSUME NEW p \in EditedPads, ArmRecording(p) PROVE Goal
  <2>1. CASE UNCHANGED desk
    BY <1>0, <2>1
  <2>2. CASE \E auto \in BOOLEAN : Edit([project.state EXCEPT !.autoAssign = auto])
    <3>1. PICK auto \in BOOLEAN : Edit([project.state EXCEPT !.autoAssign = auto])
      BY <2>2
    <3> DEFINE s == [project.state EXCEPT !.autoAssign = auto]
    <3>2. s \in States /\ Pruned(s, project.state) /\ s.missing = project.state.missing
      BY <1>t DEF States, Pruned
    <3>3. Edit(s)
      BY <3>1
    <3> HIDE DEF s
    <3>4. project'.state = s /\ Remembered' \subseteq Remembered \cup {s}
      BY <1>t, <3>2, <3>3, EditRemembers
    <3> QED BY <1>t, <3>2, <3>4 DEF ProjectComesFrom, Returning
  <2> QED BY <1>2, <2>1, <2>2 DEF ArmRecording
<1>3. CASE UndoEdit
  <2>1. PICK edit : edit = undo[Len(undo)]
    OBVIOUS
  <2>2. /\ undo # <<>> /\ undo' = SubSeq(undo, 1, Len(undo) - 1) /\ redo' = Append(redo, edit)
        /\ project' = [project EXCEPT !.state = edit.before, !.revision = project.revision + 1]
    BY <1>3, <2>1 DEF UndoEdit
  <2>3. /\ edit \in Edits /\ {edit.before, edit.after} \subseteq StatesOf(undo)
        /\ StatesOf(undo') \subseteq StatesOf(undo)
    BY <1>t, <2>1, <2>2, HistoryPopped
  <2>4. StatesOf(redo') \subseteq StatesOf(redo) \cup {edit.before, edit.after}
    BY <1>t, <2>2, <2>3, HistoryAppended
  <2>5. project'.state = edit.before
    BY <1>t, <2>2
  <2>6. edit.before \in Kept /\ edit.before \in Remembered
    BY <2>3 DEF Kept, Remembered
  <2>7. Returning(edit.before)
    BY <2>5, <2>6, SameIsPruned DEF Returning
  <2> QED BY <2>3, <2>4, <2>5, <2>7 DEF Remembered, ProjectComesFrom
<1>4. CASE RedoEdit
  <2>1. PICK edit : edit = redo[Len(redo)]
    OBVIOUS
  <2>2. /\ redo # <<>> /\ redo' = SubSeq(redo, 1, Len(redo) - 1) /\ undo' = Append(undo, edit)
        /\ project' = [project EXCEPT !.state = edit.after, !.revision = project.revision + 1]
    BY <1>4, <2>1 DEF RedoEdit
  <2>3. /\ edit \in Edits /\ {edit.before, edit.after} \subseteq StatesOf(redo)
        /\ StatesOf(redo') \subseteq StatesOf(redo)
    BY <1>t, <2>1, <2>2, HistoryPopped
  <2>4. StatesOf(undo') \subseteq StatesOf(undo) \cup {edit.before, edit.after}
    BY <1>t, <2>2, <2>3, HistoryAppended
  <2>5. project'.state = edit.after
    BY <1>t, <2>2
  <2>6. edit.after \in Kept /\ edit.after \in Remembered
    BY <2>3 DEF Kept, Remembered
  <2>7. Returning(edit.after)
    BY <2>5, <2>6, SameIsPruned DEF Returning
  <2> QED BY <2>3, <2>4, <2>5, <2>7 DEF Remembered, ProjectComesFrom
<1>5. CASE AssignPending
  <2>1. rec.pending \in Results /\ rec.pending.job.kind = "recorded"
    BY <1>5 DEF AssignPending, StudioTypes, Takes
  <2> QED BY <1>5, <1>c, <2>1 DEF AssignPending
<1>6. CASE NewProject \/ Restart
  <2>1. project' = NoProject(fresh) /\ undo' = <<>> /\ redo' = <<>>
    BY <1>6 DEF NewProject, Restart, Abandon
  <2> QED BY <1>t, <2>1, NoHistory DEF Remembered, ProjectComesFrom
<1>7. CASE OpenProject
  <2>1. PICK gone \in Gone(dest.state) :
          project' = [dest EXCEPT !.state.missing = gone,
                        !.revision = dest.revision + (IF gone = dest.state.missing THEN 0 ELSE 1)]
    BY <1>7 DEF OpenProject
  <2>2. dest # Absent /\ undo' = <<>> /\ redo' = <<>>
    BY <1>7 DEF OpenProject, Abandon
  <2>3. dest \in Projects
    BY <2>2 DEF StudioTypes, FileTypes
  <2>4. dest \in OnDisk
    BY <2>2 DEF OnDisk, StudioTypes, FileTypes
  <2>5. Pruned(project'.state, dest.state)
    <3>1. dest.revision + (IF gone = dest.state.missing THEN 0 ELSE 1) \in Nat
      BY <2>3 DEF Projects
    <3> QED BY <2>1, <2>3, <3>1, OpenedTyped DEF Pruned
  <2>6. dest.state \in Kept
    BY <2>4 DEF Kept
  <2>7. Returning(dest.state)
    BY <1>7, <2>5, <2>6 DEF Returning
  <2> QED BY <2>2, <2>7, NoHistory DEF Remembered, ProjectComesFrom
<1>8. ASSUME NEW result, HandleImport(result) \/ HandleDerived(result) \/ HandleRecorded(result)
      PROVE  Goal
  <2>1. result \in Results
    BY <1>8, HandledTyped DEF HandleImport, HandleDerived, HandleRecorded, StudioTypes
  <2>2. HandleDerived(result) \/ result.job.kind \in {"import", "recorded"}
    BY <1>8 DEF HandleImport, HandleRecorded
  <2>3. Committed(result) \/ Rejected(result) \/ UNCHANGED desk
    BY <1>8, RecordedCommits DEF HandleImport, HandleDerived
  <2> QED BY <1>0, <1>c, <2>1, <2>2, <2>3
<1>9. ASSUME NEW result, HandleResolved(result) PROVE Goal
  BY <1>0, <1>9 DEF HandleResolved
<1>10. ASSUME NEW p \in EditedPads, DropFiles(p) \/ SubmitDerived(p) PROVE Goal
  BY <1>0, <1>10 DEF DropFiles, SubmitDerived
<1>11. CASE CancelRecording \/ Save \/ OpenRefused \/ SaveProject \/ Beside \/ NoticeTake
            \/ UNCHANGED studioVars
  <2>1. UNCHANGED desk
    BY <1>11 DEF CancelRecording, Save, OpenRefused, SaveProject, NoticeTake, TakeEnds, Beside,
                 Worker, Decode, RenderFile, Rendered, studioVars
  <2> QED BY <1>0, <2>1
<1> HIDE DEF Goal
<1> QED
  BY <1>1, <1>2, <1>3, <1>4, <1>5, <1>6, <1>7, <1>8, <1>9, <1>10, <1>11
     DEF Next, PadGesture, User, HandleCompletedJob

\* What is on the disk was there, or is the project that is saved.
LEMMA KeptGrows ==
  ASSUME StudioTypes, [Next]_studioVars
  PROVE  Kept' \subseteq Kept \cup {project'.state}
<1>1. OnDisk' \subseteq OnDisk \cup {project}
  <2>1. CASE Save
    BY <2>1 DEF Save, BeginSave, OnDisk, files
  <2>2. CASE Restart
    BY <2>2, StudioAssumption DEF Restart, FileCrash, Return, OnDisk, files
  <2>3. CASE SaveProject
    <3> USE StudioAssumption DEF OnDisk, Return, Fail, files
    <3>1. CASE RemoveStale \/ CreateTemporary
      BY <3>1 DEF RemoveStale, CreateTemporary
    <3>2. CASE WriteTemporary \/ CompareTemporary
      BY <3>2 DEF WriteTemporary, CompareTemporary
    <3>3. CASE DropBackup \/ Rotate
      BY <3>3 DEF DropBackup, Rotate
    <3>4. CASE Publish \/ Restore
      BY <3>4 DEF Publish, Restore
    <3> QED BY <2>3, <3>1, <3>2, <3>3, <3>4 DEF SaveProject, SaveStep
  <2>4. CASE UNCHANGED fileVars
    BY <2>4 DEF fileVars, OnDisk
  <2> QED BY <2>1, <2>2, <2>3, <2>4, OtherStepsLeaveFiles
<1>2. project.state \in Kept
  BY DEF Kept, Remembered
<1> QED BY <1>1, <1>2, WhereProjectComesFrom DEF Kept

(***************************************************************************)
(* Renders: their files stay for whoever names them.                       *)
(***************************************************************************)

Renders(s) == {a \in s.assets : a[2] = "render"}

\* A project names the samples of its layers among its assets.
NamesItsLayers == \A s \in Kept, p \in Pads : s.layers[p] \in s.assets \cup {None}

\* FilesBackProjects, of every state remembered or on the disk, the samples it
\* knows to be missing included: opening a project may find them again.
RendersStay == \A s \in Kept : Renders(s) \subseteq rendered

\* One render at a time is under way or waits for the timer (derivedJob_).
OneRender ==
  /\ \A x, y \in jobs : x.kind = "derived" /\ y.kind = "derived" => x = y
  /\ \A i, k \in DOMAIN completed :
       completed[i].job.kind = "derived" /\ completed[k].job.kind = "derived" => i = k
  /\ \A x \in jobs, i \in DOMAIN completed :
       ~(x.kind = "derived" /\ completed[i].job.kind = "derived")
  /\ \A x \in Outstanding : x.kind = "derived" => derivedJob

\* The file a render has made is there, and nobody names it yet when it is new.
OwnRender ==
  /\ \A x \in Outstanding :
       x.kind = "derived" =>
         /\ x.wrote # "no" => x.asset \in rendered
         /\ x.wrote = "new" => \A s \in Kept : x.asset \notin s.assets
  /\ \A i \in DOMAIN completed :
       completed[i].ok /\ completed[i].job.kind = "derived" => completed[i].job.wrote # "no"

\* What is remembered and what is on the disk are states of projects.
LEMMA KeptTyped == StudioTypes => Kept \subseteq States
<1> SUFFICES ASSUME StudioTypes PROVE Kept \subseteq States
  OBVIOUS
<1>1. ASSUME NEW history \in Seq(Edits) PROVE StatesOf(history) \subseteq States
  <2>1. \A i \in DOMAIN history : history[i] \in Edits
    BY LenProperties, ElementOfSeq
  <2> QED BY <2>1 DEF StatesOf, Edits
<1>2. project.state \in States /\ undo \in Seq(Edits) /\ redo \in Seq(Edits)
  BY DEF StudioTypes, DeskTypes, Projects
<1>3. \A f \in OnDisk : f.state \in States
  BY DEF OnDisk, Projects
<1> QED BY <1>1, <1>2, <1>3 DEF Kept, Remembered

\* Layers keep being named, however projects are edited, opened and saved.
LEMMA NamesKept ==
  ASSUME StudioTypes, NamesItsLayers, [Next]_studioVars
  PROVE  NamesItsLayers'
<1> SUFFICES ASSUME NEW s \in Kept', NEW p \in Pads PROVE s.layers[p] \in s.assets \cup {None}
  BY DEF NamesItsLayers
<1>0. project.state \in Kept /\ project.state \in States
  BY KeptTyped DEF Kept, Remembered
<1>1. CASE s \in Kept
  BY <1>1 DEF NamesItsLayers
<1>2. CASE s = project'.state
  <2>1. CASE \E t \in Kept : Pruned(s, t)
    BY <2>1 DEF Pruned, NamesItsLayers
  <2>2. CASE \E n \in Nat : s = NoProject(n).state
    BY <2>2 DEF NoProject
  <2>3. CASE \E result : Committing(result)
    <3>1. PICK result : Committing(result)
      BY <2>3
    <3> DEFINE a == result.job.asset
               q == result.job.pad
    <3>2. /\ s = WithAsset(project.state, q, a)
          /\ a \in Assets /\ q \in Pads
      BY <1>2, <3>1 DEF Committing, Results, Jobs
    <3> HIDE DEF a, q
    <3>3. s.assets = project.state.assets \cup {a}
          /\ s.layers = [project.state.layers EXCEPT ![q] = a]
      BY <1>0, <3>2, WithAssetTyped
    <3>4. DOMAIN project.state.layers = Pads
      BY <1>0 DEF States
    <3> QED BY <1>0, <3>3, <3>4 DEF NamesItsLayers
  <2> QED BY <1>2, <2>1, <2>2, <2>3, WhereProjectComesFrom DEF ProjectComesFrom, Returning
<1> QED BY <1>1, <1>2, KeptGrows

\* A result is committed or rejected, not both.
LEMMA CommittedIsEdit ==
  ASSUME DeskTypes, StoreTypes, NEW result \in Results, Committed(result)
  PROVE  ~Rejected(result)
<1>1. project \in Projects /\ project.revision \in Nat
  BY DEF DeskTypes, Projects
<1>2. project'.revision = project.revision + 1
  BY <1>1 DEF Committed, Edit, Projects
<1>3. project' # project
  BY <1>1, <1>2
<1> QED BY <1>3 DEF Committed, Rejected, Refused, desk

\* Whoever names a render took it from a state that was kept, or from the result
\* that is being committed.
LEMMA RendersComeFrom ==
  ASSUME StudioTypes, [Next]_studioVars, NEW s \in Kept', NEW a \in Renders(s)
  PROVE  \/ \E t \in Kept : a \in Renders(t)
         \/ \E result \in Results : /\ HandleDerived(result) /\ ~Stale(result)
                                    /\ a = result.job.asset /\ UNCHANGED rendered
<1>0. project.state \in Kept /\ project.state \in States
  BY KeptTyped DEF Kept, Remembered
<1>1. CASE s \in Kept
  BY <1>1
<1>2. CASE s = project'.state
  <2>1. CASE \E t \in Kept : Pruned(s, t)
    BY <2>1 DEF Pruned, Renders
  <2>2. CASE \E n \in Nat : s = NoProject(n).state
    BY <2>2 DEF NoProject, Renders
  <2>3. CASE \E result : Committing(result)
    <3>1. PICK result : Committing(result)
      BY <2>3
    <3>2. /\ result \in Results /\ result.job \in Jobs
          /\ result.job.asset \in Assets /\ result.job.pad \in Pads
      BY <3>1 DEF Committing, Results, Jobs
    <3>3. s.assets = project.state.assets \cup {result.job.asset}
      <4> DEFINE b == result.job.asset
                 q == result.job.pad
      <4>1. s = WithAsset(project.state, q, b) /\ b \in Assets /\ q \in Pads
        BY <1>2, <3>1, <3>2 DEF Committing
      <4>2. \A u \in States, r \in Pads, c \in Assets :
              WithAsset(u, r, c).assets = u.assets \cup {c}
        BY WithAssetTyped
      <4> HIDE DEF b, q
      <4>3. s.assets = project.state.assets \cup {b}
        BY <1>0, <4>1, <4>2
      <4> QED BY <4>3 DEF b
    <3>4. CASE a \in project.state.assets
      BY <1>0, <3>4 DEF Renders
    <3>5. CASE a = result.job.asset
      <4>1. result.job.kind \notin {"import", "recorded"}
        BY <3>2, <3>5 DEF Jobs, Renders
      <4>2. HandleDerived(result) /\ Committed(result)
        BY <3>1, <4>1 DEF Committing
      <4>3. ~Rejected(result)
        BY <3>2, <4>2, CommittedIsEdit DEF StudioTypes
      <4>4. ~Stale(result) /\ UNCHANGED rendered
        BY <4>2, <4>3 DEF HandleDerived, Committed
      <4> QED BY <3>2, <3>5, <4>2, <4>4
    <3> QED BY <3>3, <3>4, <3>5 DEF Renders
  <2> QED BY <1>2, <2>1, <2>2, <2>3, WhereProjectComesFrom DEF ProjectComesFrom, Returning
<1> QED BY <1>1, <1>2, KeptGrows

\* What opening a project queues and what it remembers of it.
Resolves(queued, revision) == {Resolve(a, revision) : a \in queued}

OpenedWith(gone, revision, queued) ==
  /\ gone \in Gone(dest.state) /\ queued \subseteq dest.state.assets \ gone
  /\ project' = [dest EXCEPT !.state.missing = gone, !.revision = revision]
  /\ revision = dest.revision + (IF gone = dest.state.missing THEN 0 ELSE 1)
  /\ RecordingRefreshed(RecordingCancelled, jobs \cup Resolves(queued, revision))
  /\ ghost' = [ghost EXCEPT !.gestures = @ + 1, !.opening = @ + 1,
                 !.unbacked = (dest.state.assets \ gone) \ queued]

LEMMA OpenEffect ==
  ASSUME OpenProject
  PROVE  \E gone, revision, queued : OpenedWith(gone, revision, queued)
<1>1. PICK gone \in Gone(dest.state) :
        LET present == dest.state.assets \ gone
            revision == dest.revision + (IF gone = dest.state.missing THEN 0 ELSE 1)
        IN /\ project' = [dest EXCEPT !.state.missing = gone, !.revision = revision]
           /\ \E queued \in SUBSET present :
                /\ RecordingRefreshed(RecordingCancelled,
                                      jobs \cup {Resolve(a, revision) : a \in queued})
                /\ ghost' = [ghost EXCEPT !.gestures = @ + 1, !.opening = @ + 1,
                                          !.unbacked = present \ queued]
  BY DEF OpenProject
<1> DEFINE n == dest.revision + (IF gone = dest.state.missing THEN 0 ELSE 1)
<1>2. PICK queued \in SUBSET (dest.state.assets \ gone) :
        /\ project' = [dest EXCEPT !.state.missing = gone, !.revision = n]
        /\ RecordingRefreshed(RecordingCancelled, jobs \cup {Resolve(a, n) : a \in queued})
        /\ ghost' = [ghost EXCEPT !.gestures = @ + 1, !.opening = @ + 1,
                       !.unbacked = (dest.state.assets \ gone) \ queued]
  BY <1>1
<1>3. n = dest.revision + (IF gone = dest.state.missing THEN 0 ELSE 1)
  OBVIOUS
<1>4. {Resolve(a, n) : a \in queued} = Resolves(queued, n)
  BY DEF Resolves
<1> HIDE DEF n
<1>5. OpenedWith(gone, n, queued)
  BY <1>2, <1>3, <1>4 DEF OpenedWith
<1> QED BY <1>5

\* No new render among these jobs.
NoNewRender == \A x \in jobs' : x.kind = "derived" => x \in jobs

RendersRest ==
  \/ UNCHANGED completed
  \/ \E result : Timer(result) /\ result.job.kind # "derived"

\* The steps as renders see them: most leave them alone.
LEMMA RenderSteps ==
  ASSUME StudioTypes, [Next]_studioVars
  PROVE  \/ UNCHANGED <<derivedJob, rendered>> /\ NoNewRender /\ RendersRest
         \/ \E p \in EditedPads : SubmitDerived(p)
         \/ \E job \in jobs : Worker(job)
         \/ \E result : HandleDerived(result)
         \/ Restart
<1> DEFINE Rest == UNCHANGED <<derivedJob, rendered>> /\ NoNewRender /\ RendersRest
           Goal == \/ Rest
                   \/ \E p \in EditedPads : SubmitDerived(p)
                   \/ \E job \in jobs : Worker(job)
                   \/ \E result : HandleDerived(result)
                   \/ Restart
<1> SUFFICES Goal
  OBVIOUS
<1>0. ASSUME NEW r, NEW js, \A x \in js : x.kind = "derived" => x \in jobs,
             RecordingRefreshed(r, js)
      PROVE  NoNewRender
  BY <1>0 DEF RecordingRefreshed, TakeJob, Job, NoNewRender
<1>i. ASSUME NEW queue, NEW target, NEW next \in ImportsAfter(queue, jobs, target), NEW x \in next.jobs,
             x.kind = "derived"
      PROVE  x \in jobs
  BY <1>i DEF ImportsAfter, ImportJob, Job
<1>1. ASSUME NEW p \in EditedPads, DropFiles(p) PROVE Rest
  <2>1. UNCHANGED jobs \/ \E queue : \E next \in ImportsAfter(queue, jobs, project) :
                             jobs' = next.jobs
    BY <1>1 DEF DropFiles
  <2> QED BY <1>1, <1>i, <2>1 DEF DropFiles, NoNewRender, RendersRest
<1>2. ASSUME NEW p \in EditedPads, ClearLayer(p) \/ ArmRecording(p) PROVE Rest
  BY <1>0, <1>2 DEF ClearLayer, ArmRecording, NoNewRender, RendersRest
<1>3. CASE UndoEdit \/ RedoEdit \/ AssignPending \/ NewProject \/ NoticeTake
  <2>1. UNCHANGED <<derivedJob, rendered, completed>>
    BY <1>3 DEF UndoEdit, RedoEdit, AssignPending, NewProject, NoticeTake, Abandon
  <2>2. (\E r : RecordingRefreshed(r, jobs)) \/ UNCHANGED jobs
    BY <1>3 DEF UndoEdit, RedoEdit, AssignPending, NewProject, NoticeTake
  <2>3. Rest
    BY <1>0, <2>1, <2>2 DEF NoNewRender, RendersRest
  <2> QED BY <2>3
<1>4. CASE CancelRecording \/ Save \/ OpenRefused \/ SaveProject \/ TakeEnds
           \/ UNCHANGED studioVars
  <2>1. UNCHANGED <<derivedJob, rendered, completed, jobs>>
    BY <1>4 DEF CancelRecording, Save, OpenRefused, SaveProject, TakeEnds, studioVars
  <2>2. Rest
    BY <2>1 DEF NoNewRender, RendersRest
  <2> QED BY <2>2
<1>5. CASE OpenProject
  <2>1. UNCHANGED <<derivedJob, rendered, completed>>
    BY <1>5 DEF OpenProject, Abandon
  <2>2. PICK gone, revision, queued : OpenedWith(gone, revision, queued)
    BY <1>5, OpenEffect
  <2>3. \A x \in Resolves(queued, revision) : x.kind # "derived"
    BY DEF Resolve, Resolves
  <2>4. NoNewRender
    BY <1>0, <2>2, <2>3 DEF OpenedWith
  <2>5. Rest
    BY <2>1, <2>4 DEF RendersRest
  <2> QED BY <2>5
<1>6. ASSUME NEW result, HandleImport(result) PROVE Rest
  <2>1. PICK queue : \E next \in ImportsAfter(queue, jobs, project') :
                       RecordingRefreshed(rec, next.jobs)
    BY <1>6 DEF HandleImport
  <2>2. NoNewRender
    <3>1. PICK next \in ImportsAfter(queue, jobs, project') : RecordingRefreshed(rec, next.jobs)
      BY <2>1
    <3>2. \A x \in next.jobs : x.kind = "derived" => x \in jobs
      BY <1>i
    <3> QED BY <1>0, <3>1, <3>2
  <2> QED BY <1>6, <2>2 DEF HandleImport, RendersRest
<1>7. ASSUME NEW result, HandleRecorded(result) PROVE Rest
  <2>1. \E r : RecordingRefreshed(r, jobs)
    BY <1>7 DEF HandleRecorded
  <2> QED BY <1>0, <1>7, <2>1 DEF HandleRecorded, RendersRest
<1>8. ASSUME NEW result, HandleResolved(result) PROVE Rest
  BY <1>0, <1>8 DEF HandleResolved, RendersRest
<1> HIDE DEF Rest
<1>9. ASSUME Rest PROVE Goal
  BY <1>9
<1>10. ASSUME \E result : HandleDerived(result) PROVE Goal
  BY <1>10
<1>11. CASE Restart \/ \E job \in jobs : Worker(job)
  BY <1>11
<1>12. ASSUME NEW p \in EditedPads, SubmitDerived(p) PROVE Goal
  BY <1>12
<1> HIDE DEF Goal
<1> QED
  BY <1>1, <1>2, <1>3, <1>4, <1>5, <1>6, <1>7, <1>8, <1>9, <1>10, <1>11, <1>12
     DEF Next, PadGesture, User, Beside, HandleCompletedJob

\* Where results are once a job has ended, and once the timer has taken one.
LEMMA ResultsAfterFinish ==
  ASSUME WorkTypes, NEW job, NEW ok, NEW bytes, Finish(job, ok, bytes)
  PROVE  \E n \in Nat :
           /\ DOMAIN completed = 1 .. n /\ DOMAIN completed' = 1 .. n + 1
           /\ \A i \in DOMAIN completed : completed'[i] = completed[i]
           /\ completed'[n + 1] = [job |-> job, ok |-> ok, bytes |-> bytes]
<1>1. IsSequence(completed)
  BY DEF WorkTypes, IsSequence
<1>2. PICK result : result = [job |-> job, ok |-> ok, bytes |-> bytes]
  OBVIOUS
<1>3. completed' = Append(completed, result)
  BY <1>2 DEF Finish
<1>4. /\ Len(completed) \in Nat /\ DOMAIN completed = 1 .. Len(completed)
      /\ IsSequence(completed') /\ Len(completed') = Len(completed) + 1
      /\ \A i \in 1 .. Len(completed) : completed'[i] = completed[i]
      /\ completed'[Len(completed) + 1] = result
  BY <1>1, <1>3, AppendedSequence, DomainOfSequence
<1>5. DOMAIN completed' = 1 .. Len(completed) + 1
  BY <1>4, DomainOfSequence
<1> QED BY <1>2, <1>4, <1>5

LEMMA ResultsAfterTimer ==
  ASSUME WorkTypes, NEW result, Timer(result)
  PROVE  /\ 1 \in DOMAIN completed /\ result = completed[1]
         /\ DOMAIN completed \subseteq Nat \ {0} /\ DOMAIN completed' \subseteq Nat \ {0}
         /\ \A i \in DOMAIN completed' : i + 1 \in DOMAIN completed /\ completed'[i] = completed[i + 1]
         /\ \A i \in DOMAIN completed :
              i # 1 => i - 1 \in DOMAIN completed' /\ completed'[i - 1] = completed[i]
<1>1. IsSequence(completed) /\ completed # <<>> /\ completed' = Tail(completed)
      /\ result = Head(completed)
  BY DEF WorkTypes, IsSequence, Timer
<1>2. PICK n \in Nat \ {0} :
        /\ DOMAIN completed = 1 .. n /\ DOMAIN completed' = 1 .. n - 1 /\ result = completed[1]
        /\ \A i \in 1 .. n - 1 : completed'[i] = completed[i + 1]
  BY <1>1, TailOfSequence
<1>3. ASSUME NEW i \in DOMAIN completed, i # 1
      PROVE  i - 1 \in DOMAIN completed' /\ completed'[i - 1] = completed[i]
  <2>1. i \in Nat /\ i - 1 \in 1 .. n - 1 /\ (i - 1) + 1 = i
    BY <1>2, <1>3
  <2> QED BY <1>2, <2>1
<1>4. ASSUME NEW i \in DOMAIN completed'
      PROVE  i + 1 \in DOMAIN completed /\ completed'[i] = completed[i + 1]
  BY <1>2, <1>4
<1> QED BY <1>2, <1>3, <1>4

\* The render whose result is handled was the only one.
LEMMA NoRenderAfter ==
  ASSUME WorkTypes, OneRender, NEW result, HandleDerived(result)
  PROVE  \A x \in Outstanding' : x.kind # "derived"
<1>1. Timer(result) /\ result.job.kind = "derived" /\ RecordingRefreshed(rec, jobs)
  BY DEF HandleDerived
<1>2. /\ 1 \in DOMAIN completed /\ completed[1].job.kind = "derived"
      /\ DOMAIN completed' \subseteq Nat \ {0}
      /\ \A i \in DOMAIN completed' : i + 1 \in DOMAIN completed /\ completed'[i] = completed[i + 1]
  BY <1>1, ResultsAfterTimer
<1>3. \A x \in jobs' : x.kind # "derived"
  BY <1>1, <1>2 DEF OneRender, RecordingRefreshed, TakeJob, Job
<1>4. ASSUME NEW i \in DOMAIN completed' PROVE completed'[i].job.kind # "derived"
  <2>1. i + 1 # 1
    BY <1>2
  <2> QED BY <1>2, <2>1 DEF OneRender
<1> QED BY <1>3, <1>4 DEF Outstanding

\* There is never a second render, whatever else is submitted, ends or is handled.
LEMMA OneRenderKept ==
  ASSUME StudioTypes, OneRender, [Next]_studioVars
  PROVE  OneRender'
<1> USE DEF OneRender
<1>t. WorkTypes
  BY DEF StudioTypes
<1>1. CASE UNCHANGED <<derivedJob, rendered>> /\ NoNewRender /\ RendersRest
  <2>1. CASE UNCHANGED completed
    BY <1>1, <2>1 DEF NoNewRender, Outstanding
  <2>2. CASE \E result : Timer(result) /\ result.job.kind # "derived"
    <3>1. PICK result : Timer(result) /\ result.job.kind # "derived"
      BY <2>2
    <3>2. /\ DOMAIN completed' \subseteq Nat
          /\ \A i \in DOMAIN completed' :
               i + 1 \in DOMAIN completed /\ completed'[i] = completed[i + 1]
      BY <1>t, <3>1, ResultsAfterTimer
    <3>3. \A i, k \in DOMAIN completed' :
            completed'[i].job.kind = "derived" /\ completed'[k].job.kind = "derived"
              => i + 1 = k + 1
      BY <3>2
    <3>4. \A i, k \in DOMAIN completed' : i + 1 = k + 1 => i = k
      BY <3>2
    <3>5. \A x \in jobs', i \in DOMAIN completed' :
            ~(x.kind = "derived" /\ completed'[i].job.kind = "derived")
      BY <1>1, <3>2 DEF NoNewRender
    <3>6. \A x \in Outstanding' : x.kind = "derived" => x \in Outstanding
      BY <1>1, <3>2 DEF NoNewRender, Outstanding
    <3>7. \A x, y \in jobs' : x.kind = "derived" /\ y.kind = "derived" => x = y
      BY <1>1 DEF NoNewRender
    <3> QED BY <1>1, <3>3, <3>4, <3>5, <3>6, <3>7
  <2> QED BY <1>1, <2>1, <2>2 DEF RendersRest
<1>2. ASSUME NEW p \in EditedPads, SubmitDerived(p) PROVE OneRender'
  <2>1. PICK job : jobs' = jobs \cup {job}
    BY <1>2 DEF SubmitDerived
  <2>2. ~derivedJob /\ derivedJob' = TRUE /\ UNCHANGED completed
    BY <1>2 DEF SubmitDerived
  <2> QED BY <2>1, <2>2 DEF Outstanding
<1>3. ASSUME NEW job \in jobs, Worker(job) PROVE OneRender'
  <2>1. CASE RenderFile(job)
    <3>1. PICK made : jobs' = (jobs \ {job}) \cup {made} /\ made.kind = "derived"
      <4>1. [job EXCEPT !.wrote = "reused"].kind = job.kind
            /\ [job EXCEPT !.wrote = "new"].kind = job.kind
        BY <1>t DEF WorkTypes, Jobs
      <4> QED BY <2>1, <4>1 DEF RenderFile
    <3>2. job.kind = "derived" /\ UNCHANGED <<completed, derivedJob>>
      BY <2>1 DEF RenderFile
    <3> QED BY <1>3, <3>1, <3>2 DEF Outstanding
  <2>2. CASE Decode(job) \/ Rendered(job)
    <3>1. (\E ok, bytes : Finish(job, ok, bytes)) /\ UNCHANGED derivedJob
      BY <2>2 DEF Decode, Rendered
    <3>2. PICK ok, bytes : Finish(job, ok, bytes)
      BY <3>1
    <3>3. PICK n \in Nat :
            /\ DOMAIN completed = 1 .. n /\ DOMAIN completed' = 1 .. n + 1
            /\ \A i \in DOMAIN completed : completed'[i] = completed[i]
            /\ completed'[n + 1] = [job |-> job, ok |-> ok, bytes |-> bytes]
      BY <1>t, <3>2, ResultsAfterFinish
    <3>4. /\ \A i \in DOMAIN completed' : i \in DOMAIN completed \/ i = n + 1
          /\ completed'[n + 1].job = job /\ n + 1 \notin DOMAIN completed
      BY <3>3
    <3>5. jobs' = jobs \ {job}
      BY <3>2 DEF Finish
    <3>6. \A i, k \in DOMAIN completed' :
            completed'[i].job.kind = "derived" /\ completed'[k].job.kind = "derived" => i = k
      BY <1>3, <3>3, <3>4
    <3>7. \A x \in jobs', i \in DOMAIN completed' :
            ~(x.kind = "derived" /\ completed'[i].job.kind = "derived")
      BY <1>3, <3>3, <3>4, <3>5
    <3>8. Outstanding' \subseteq Outstanding
      BY <1>3, <3>3, <3>4, <3>5 DEF Outstanding
    <3> QED BY <3>1, <3>5, <3>6, <3>7, <3>8
  <2> QED BY <1>3, <2>1, <2>2 DEF Worker
<1>4. ASSUME NEW result, HandleDerived(result) PROVE OneRender'
  <2>1. \A x \in Outstanding' : x.kind # "derived"
    BY <1>4, NoRenderAfter DEF StudioTypes
  <2> QED BY <2>1 DEF Outstanding
<1>5. CASE Restart
  BY <1>5, EmptySeq DEF Restart, Outstanding
<1> QED BY <1>1, <1>2, <1>3, <1>4, <1>5, RenderSteps

\* Only the result of a render takes a file away, and only the one it has brought.
LEMMA OnlyOwnFileGoes ==
  ASSUME StudioTypes, [Next]_studioVars, NEW a \in rendered, a \notin rendered'
  PROVE  \E result : /\ HandleDerived(result) /\ result.ok /\ result.job.wrote = "new"
                     /\ a = result.job.asset
<1>1. ASSUME NEW p \in EditedPads, SubmitDerived(p) PROVE FALSE
  BY <1>1 DEF SubmitDerived
<1>2. ASSUME NEW job \in jobs, Worker(job) PROVE FALSE
  BY <1>2 DEF Worker, Decode, RenderFile, Rendered
<1>3. CASE Restart
  BY <1>3 DEF Restart
<1>4. ASSUME NEW result, HandleDerived(result)
      PROVE  result.ok /\ result.job.wrote = "new" /\ a = result.job.asset
  BY <1>4 DEF HandleDerived, Cleaned
<1> QED BY <1>1, <1>2, <1>3, <1>4, RenderSteps

\* Jobs are jobs wherever they are.
LEMMA OutstandingTyped == WorkTypes => Outstanding \subseteq Jobs
<1> SUFFICES ASSUME WorkTypes PROVE Outstanding \subseteq Jobs
  OBVIOUS
<1>1. \A i \in DOMAIN completed : completed[i] \in Results
  BY LenProperties, ElementOfSeq DEF WorkTypes
<1> QED BY <1>1 DEF Outstanding, WorkTypes, Results

\* Nobody who names a render loses its file.
LEMMA RendersKept ==
  ASSUME StudioTypes, RendersStay, OwnRender, [Next]_studioVars
  PROVE  RendersStay'
<1> SUFFICES ASSUME NEW s \in Kept', NEW a \in Renders(s) PROVE a \in rendered'
  BY DEF RendersStay, Renders
<1>t. WorkTypes
  BY DEF StudioTypes
<1>1. CASE \E t \in Kept : a \in Renders(t)
  <2>1. PICK t \in Kept : a \in Renders(t)
    BY <1>1
  <2>2. a \in rendered
    BY <2>1 DEF RendersStay
  <2>3. ASSUME a \notin rendered' PROVE FALSE
    <3>1. PICK result : /\ HandleDerived(result) /\ result.ok /\ result.job.wrote = "new"
                        /\ a = result.job.asset
      BY <2>2, <2>3, OnlyOwnFileGoes
    <3>2. result.job \in Outstanding /\ result.job.kind = "derived"
      BY <1>t, <3>1, ResultsAfterTimer DEF HandleDerived, Outstanding
    <3> QED BY <2>1, <3>1, <3>2 DEF OwnRender, Renders
  <2> QED BY <2>3
<1>2. CASE \E result \in Results : /\ HandleDerived(result) /\ ~Stale(result)
                                   /\ a = result.job.asset /\ UNCHANGED rendered
  <2>1. PICK result \in Results : /\ HandleDerived(result) /\ ~Stale(result)
                                  /\ a = result.job.asset /\ UNCHANGED rendered
    BY <1>2
  <2>2. 1 \in DOMAIN completed /\ result = completed[1] /\ result.job.kind = "derived"
    BY <1>t, <2>1, ResultsAfterTimer DEF HandleDerived
  <2>3. result.job.wrote # "no" /\ result.job \in Outstanding
    BY <2>1, <2>2 DEF OwnRender, Outstanding, Stale
  <2> QED BY <2>1, <2>2, <2>3 DEF OwnRender
<1> QED BY <1>1, <1>2, RendersComeFrom

\* Where renders under way come from.
LEMMA OutstandingRenders ==
  ASSUME StudioTypes, [Next]_studioVars, ~(\E result : HandleDerived(result)),
         NEW x \in Outstanding', x.kind = "derived"
  PROVE  \/ x \in Outstanding
         \/ x.wrote = "no"
         \/ \E job \in jobs : /\ RenderFile(job) /\ x.asset = job.asset
                              /\ x.wrote = "new" => job.asset \notin rendered
<1>t. WorkTypes /\ jobs \subseteq Jobs
  BY DEF StudioTypes, WorkTypes
<1>1. CASE NoNewRender /\ RendersRest
  <2>1. CASE UNCHANGED completed
    BY <1>1, <2>1 DEF NoNewRender, Outstanding
  <2>2. CASE \E result : Timer(result)
    <3>1. \A i \in DOMAIN completed' :
            i + 1 \in DOMAIN completed /\ completed'[i] = completed[i + 1]
      BY <1>t, <2>2, ResultsAfterTimer
    <3> QED BY <1>1, <3>1 DEF NoNewRender, Outstanding
  <2> QED BY <1>1, <2>1, <2>2 DEF RendersRest
<1>2. ASSUME NEW p \in EditedPads, SubmitDerived(p) PROVE x \in Outstanding \/ x.wrote = "no"
  <2>1. \E a : jobs' = jobs \cup {Job("derived", p, a, project)}
    BY <1>2 DEF SubmitDerived
  <2>2. \A a : Job("derived", p, a, project).wrote = "no"
    BY DEF Job
  <2>3. UNCHANGED completed
    BY <1>2 DEF SubmitDerived
  <2> QED BY <2>1, <2>2, <2>3 DEF Outstanding
<1>3. ASSUME NEW job \in jobs, RenderFile(job)
      PROVE  \/ x \in Outstanding
             \/ x.asset = job.asset /\ (x.wrote = "new" => job.asset \notin rendered)
  <2>1. /\ [job EXCEPT !.wrote = "reused"].asset = job.asset
        /\ [job EXCEPT !.wrote = "reused"].wrote = "reused"
        /\ [job EXCEPT !.wrote = "new"].asset = job.asset
    BY <1>t DEF Jobs
  <2>2. UNCHANGED completed
    BY <1>3 DEF RenderFile
  <2>3. x \in jobs' \/ x \in Outstanding
    BY <2>2 DEF Outstanding
  <2>4. CASE job.asset \in rendered
    <3>1. jobs' = (jobs \ {job}) \cup {[job EXCEPT !.wrote = "reused"]}
      BY <1>3, <2>4 DEF RenderFile
    <3> QED BY <2>1, <2>3, <3>1 DEF Outstanding
  <2>5. CASE job.asset \notin rendered
    <3>1. jobs' = (jobs \ {job}) \cup {[job EXCEPT !.wrote = "new"]}
      BY <1>3, <2>5 DEF RenderFile
    <3> QED BY <2>1, <2>3, <2>5, <3>1 DEF Outstanding
  <2> QED BY <2>4, <2>5
<1>4. ASSUME NEW job \in jobs, Decode(job) \/ Rendered(job) PROVE x \in Outstanding
  <2>1. PICK ok, bytes : Finish(job, ok, bytes)
    BY <1>4 DEF Decode, Rendered
  <2>2. PICK n \in Nat :
          /\ DOMAIN completed = 1 .. n /\ DOMAIN completed' = 1 .. n + 1
          /\ \A i \in DOMAIN completed : completed'[i] = completed[i]
          /\ completed'[n + 1] = [job |-> job, ok |-> ok, bytes |-> bytes]
    BY <1>t, <2>1, ResultsAfterFinish
  <2>3. \A i \in DOMAIN completed' : i \in DOMAIN completed \/ i = n + 1
    BY <2>2
  <2>4. completed'[n + 1].job = job /\ jobs' = jobs \ {job}
    BY <2>1, <2>2 DEF Finish
  <2> QED BY <2>2, <2>3, <2>4 DEF Outstanding
<1>5. CASE Restart
  BY <1>5, EmptySeq DEF Restart, Outstanding
<1> QED BY <1>1, <1>2, <1>3, <1>4, <1>5, RenderSteps DEF Worker

\* The result of a render that succeeded has made its file.
LEMMA SuccessKept ==
  ASSUME StudioTypes, OwnRender, [Next]_studioVars,
         NEW i \in DOMAIN completed', completed'[i].ok, completed'[i].job.kind = "derived"
  PROVE  completed'[i].job.wrote # "no"
<1>t. WorkTypes
  BY DEF StudioTypes
<1>1. CASE UNCHANGED completed
  BY <1>1 DEF OwnRender
<1>2. CASE \E result : Timer(result)
  <2>1. i + 1 \in DOMAIN completed /\ completed'[i] = completed[i + 1]
    BY <1>t, <1>2, ResultsAfterTimer
  <2> QED BY <2>1 DEF OwnRender
<1>3. ASSUME NEW job \in jobs, Decode(job) \/ Rendered(job)
      PROVE  completed'[i].job.wrote # "no"
  <2>1. PICK ok \in BOOLEAN, bytes \in Nat :
          Finish(job, ok, bytes) /\ (job.kind = "derived" => ok = (job.wrote # "no"))
    BY <1>3, StudioAssumption DEF Decode, Rendered
  <2>2. PICK n \in Nat :
          /\ DOMAIN completed = 1 .. n /\ DOMAIN completed' = 1 .. n + 1
          /\ \A k \in DOMAIN completed : completed'[k] = completed[k]
          /\ completed'[n + 1] = [job |-> job, ok |-> ok, bytes |-> bytes]
    BY <1>t, <2>1, ResultsAfterFinish
  <2>3. CASE i = n + 1
    <3>1. completed'[i].job = job /\ job.kind = "derived"
      BY <1>3, <2>2, <2>3
    <3>2. ASSUME job.wrote = "no" PROVE FALSE
      <4>1. ok = FALSE
        BY <2>1, <3>1, <3>2
      <4>2. completed'[i] = [job |-> job, ok |-> FALSE, bytes |-> bytes]
        BY <2>2, <2>3, <4>1
      <4>3. ~completed'[i].ok
        BY <4>2
      <4> QED BY <4>3
    <3> QED BY <3>1, <3>2
  <2>4. CASE i # n + 1
    BY <2>2, <2>4 DEF OwnRender
  <2> QED BY <2>3, <2>4
<1>4. ASSUME NEW job \in jobs, RenderFile(job) PROVE UNCHANGED completed
  BY <1>4 DEF RenderFile
<1>5. ASSUME NEW p \in EditedPads, SubmitDerived(p) PROVE UNCHANGED completed
  BY <1>5 DEF SubmitDerived
<1>6. CASE Restart
  BY <1>6, EmptySeq DEF Restart
<1>7. ASSUME NEW result, HandleDerived(result) PROVE Timer(result)
  BY <1>7 DEF HandleDerived
<1> QED BY <1>1, <1>2, <1>3, <1>4, <1>5, <1>6, <1>7, RenderSteps DEF Worker, RendersRest

\* A new render stays unnamed until its result is handled.
LEMMA OwnRenderKept ==
  ASSUME StudioTypes, StudioTypes', RendersStay, OneRender, OwnRender, [Next]_studioVars
  PROVE  OwnRender'
<1>0. (WorkTypes => Outstanding \subseteq Jobs)'
  BY OutstandingTyped, PTL
<1>1. ASSUME NEW x \in Outstanding', x.kind = "derived"
      PROVE  /\ x.wrote # "no" => x.asset \in rendered'
             /\ x.wrote = "new" => \A s \in Kept' : x.asset \notin s.assets
  <2>1. CASE \E result : HandleDerived(result)
    BY <1>1, <2>1, NoRenderAfter DEF StudioTypes
  <2>2. CASE ~ \E result : HandleDerived(result)
    <3>1. rendered \subseteq rendered'
      BY <2>2, OnlyOwnFileGoes
    <3>2. ASSUME NEW s \in Kept', x.asset \in s.assets
          PROVE  \E t \in Kept : x.asset \in t.assets /\ x.asset \in rendered
      <4>1. x \in Jobs
        <5>1. WorkTypes'
          BY DEF StudioTypes
        <5> QED BY <1>0, <5>1
      <4>2. x.asset \in Renders(s)
        BY <1>1, <3>2, <4>1 DEF Jobs, Renders
      <4>3. PICK t \in Kept : x.asset \in Renders(t)
        BY <2>2, <4>2, RendersComeFrom
      <4> QED BY <4>3 DEF RendersStay, Renders
    <3>3. CASE x \in Outstanding
      BY <1>1, <3>1, <3>2, <3>3 DEF OwnRender
    <3>4. CASE x.wrote = "no"
      BY <3>4
    <3>5. CASE \E job \in jobs : /\ RenderFile(job) /\ x.asset = job.asset
                                 /\ x.wrote = "new" => job.asset \notin rendered
      <4>1. PICK job \in jobs : /\ RenderFile(job) /\ x.asset = job.asset
                                /\ x.wrote = "new" => job.asset \notin rendered
        BY <3>5
      <4>2. job.asset \in rendered'
        BY <4>1 DEF RenderFile
      <4> QED BY <3>2, <4>1, <4>2
    <3> QED BY <1>1, <2>2, <3>3, <3>4, <3>5, OutstandingRenders
  <2> QED BY <2>1, <2>2
<1> QED BY <1>1, SuccessKept DEF OwnRender

\* The inductive invariant of the files of renders.
RendersInv == StudioTypes /\ NamesItsLayers /\ RendersStay /\ OneRender /\ OwnRender

LEMMA RendersInvHolds == Spec => []RendersInv
<1>1. Init => NamesItsLayers /\ RendersStay /\ OneRender /\ OwnRender
  <2> SUFFICES ASSUME Init PROVE NamesItsLayers /\ RendersStay /\ OneRender /\ OwnRender
    OBVIOUS
  <2>1. Outstanding = {} /\ DOMAIN completed = {} /\ jobs = {}
    BY EmptySeq DEF Init, Outstanding
  <2>2. Kept = {NoProject(0).state}
    <3>1. OnDisk = {}
      BY StudioAssumption DEF Init, FileInit, OnDisk
    <3>2. Remembered = {NoProject(0).state}
      BY NoHistory DEF Init, Remembered
    <3> QED BY <3>1, <3>2 DEF Kept
  <2>3. NoProject(0).state.assets = {} /\ \A p \in Pads : NoProject(0).state.layers[p] = None
    BY DEF NoProject
  <2> QED BY <2>1, <2>2, <2>3 DEF NamesItsLayers, RendersStay, Renders, OneRender, OwnRender
<1>2. StudioTypes /\ StudioTypes' /\ RendersInv /\ [Next]_studioVars => RendersInv'
  BY NamesKept, RendersKept, OneRenderKept, OwnRenderKept DEF RendersInv
<1>3. Init /\ StudioTypes => RendersInv
  BY <1>1 DEF RendersInv
<1> QED BY <1>2, <1>3, StudioTypesAlways, PTL DEF Spec

\* The file of a render is there for as long as the project, undo, redo or a file
\* names it, whoever else asked for the same render and had it refused, and wherever
\* the process dies (DerivedAssetRenderer::commit()).
THEOREM RendersAlwaysBack == Spec => []FilesBackProjects
<1>1. RendersInv => FilesBackProjects
  <2> SUFFICES ASSUME RendersInv,
                      NEW s \in Reachable \cup {f.state : f \in {dest, bak, tmp} \ {Absent, Torn}}
               PROVE  {a \in s.assets \ s.missing : a[2] = "render"} \subseteq rendered
    BY DEF FilesBackProjects
  <2>1. Reachable \subseteq Remembered
    BY DEF Reachable, Remembered, StatesOf
  <2>2. {dest, bak, tmp} \ {Absent, Torn} \subseteq OnDisk
    BY DEF RendersInv, StudioTypes, FileTypes, OnDisk
  <2>3. s \in Kept
    BY <2>1, <2>2 DEF Kept
  <2> QED BY <2>3 DEF RendersInv, RendersStay, Renders
<1> QED BY <1>1, RendersInvHolds, PTL

(***************************************************************************)
(* Imports.                                                                *)
(***************************************************************************)

\* An import is among these jobs or these results.
ImportAmong(js, results) ==
  \/ \E job \in js : job.kind = "import"
  \/ \E i \in DOMAIN results : results[i].job.kind = "import"

\* The inductive invariant: what ImportsMove says, of variables of the right shape.
ImportsInv ==
  /\ IsSequence(completed)
  /\ DOMAIN imports = {"queue", "active", "refused"}
  /\ imports.active => ImportAmong(jobs, completed)
  /\ imports.queue # <<>> => imports.active \/ imports.refused

\* The definition of Importing, over the two places an import can be in.
LEMMA ImportingIsAmong == Importing <=> ImportAmong(jobs, completed)
  BY DEF Importing, ImportAmong, Outstanding

\* The next submission leaves an import among the jobs, an empty queue, or the
\* refusal of a full job system; no job is lost.
LEMMA NextImport ==
  ASSUME NEW queue, NEW js, NEW target, NEW next \in ImportsAfter(queue, js, target)
  PROVE  /\ DOMAIN next.imports = {"queue", "active", "refused"}
         /\ js \subseteq next.jobs
         /\ next.imports.active => \E job \in next.jobs : job.kind = "import"
         /\ next.imports.queue # <<>> => next.imports.active \/ next.imports.refused
<1>1. CASE queue = <<>>
  BY <1>1 DEF ImportsAfter, NoImports
<1>2. CASE queue # <<>>
  <2>1. ImportJob(Head(queue), target).kind = "import"
    BY DEF ImportJob, Job
  <2> QED
    BY <1>2, <2>1 DEF ImportsAfter
<1> QED BY <1>1, <1>2

\* A take noticed only adds its job.
LEMMA RefreshOnlyAdds ==
  ASSUME NEW r, NEW js, RecordingRefreshed(r, js)
  PROVE  js \subseteq jobs'
  BY DEF RecordingRefreshed

\* Where the queue and the results stay and no job is lost, nothing changes.
LEMMA JobsOnlyAdded ==
  ASSUME ImportsInv, UNCHANGED <<imports, completed>>, jobs \subseteq jobs'
  PROVE  ImportsInv'
  BY DEF ImportsInv, ImportAmong

\* A result that is no import is handled.
LEMMA OtherResultHandled ==
  ASSUME ImportsInv, NEW result, Timer(result), result.job.kind # "import",
         UNCHANGED imports, jobs \subseteq jobs'
  PROVE  ImportsInv'
<1>1. /\ IsSequence(completed) /\ completed # <<>> /\ result = Head(completed)
      /\ completed' = Tail(completed)
  BY DEF ImportsInv, Timer
<1>2. /\ IsSequence(completed')
      /\ Len(completed) \in Nat \ {0}
      /\ DOMAIN completed = 1 .. Len(completed)
      /\ DOMAIN completed' = 1 .. Len(completed) - 1
      /\ result = completed[1]
      /\ \A i \in 1 .. Len(completed) - 1 : completed'[i] = completed[i + 1]
  BY <1>1, TailOfSequence
<1>3. ASSUME NEW i \in DOMAIN completed, completed[i].job.kind = "import"
      PROVE  \E k \in DOMAIN completed' : completed'[k].job.kind = "import"
  <2>1. i # 1
    BY <1>2, <1>3
  <2>2. i - 1 \in 1 .. Len(completed) - 1 /\ (i - 1) + 1 = i
    BY <1>2, <1>3, <2>1
  <2> QED BY <1>2, <1>3, <2>2
<1>4. ImportAmong(jobs, completed) => ImportAmong(jobs', completed')
  BY <1>3 DEF ImportAmong
<1> QED BY <1>2, <1>4 DEF ImportsInv

\* A job that ends is a result.
LEMMA FinishedIsKept ==
  ASSUME ImportsInv, NEW job \in jobs, NEW ok, NEW bytes, Finish(job, ok, bytes),
         UNCHANGED imports
  PROVE  ImportsInv'
<1> DEFINE result == [job |-> job, ok |-> ok, bytes |-> bytes]
<1>1. IsSequence(completed) /\ completed' = Append(completed, result) /\ jobs' = jobs \ {job}
  BY DEF ImportsInv, Finish
<1>2. /\ IsSequence(completed')
      /\ Len(completed) \in Nat
      /\ Len(completed') = Len(completed) + 1
      /\ \A i \in 1 .. Len(completed) : completed'[i] = completed[i]
      /\ completed'[Len(completed) + 1] = result
  <2> HIDE DEF result
  <2> QED BY <1>1, AppendedSequence
<1>3. DOMAIN completed = 1 .. Len(completed) /\ DOMAIN completed' = 1 .. Len(completed) + 1
  BY <1>1, <1>2, DomainOfSequence
<1>4. completed'[Len(completed) + 1].job = job
  BY <1>2
<1>5. ImportAmong(jobs, completed) => ImportAmong(jobs', completed')
  <2>1. DOMAIN completed \subseteq DOMAIN completed' /\ Len(completed) + 1 \in DOMAIN completed'
    BY <1>2, <1>3
  <2> HIDE DEF result
  <2> QED BY <1>1, <1>2, <1>3, <1>4, <2>1 DEF ImportAmong
<1> QED BY <1>2, <1>5 DEF ImportsInv

\* No imports when the application starts.
LEMMA ImportsInitially == Init => ImportsInv
  BY EmptyIsSequence DEF Init, ImportsInv, NoImports

\* Files dropped, imports completed, projects replaced and everything else keep it: a
\* queue that waits has an import under way, or was refused by a full job system.
LEMMA ImportsKept ==
  ASSUME ImportsInv, [Next]_studioVars
  PROVE  ImportsInv'
<1>1. ASSUME NEW p \in EditedPads, DropFiles(p) PROVE ImportsInv'
  <2>1. CASE imports.active
    <3>1. UNCHANGED <<completed, jobs>>
      BY <1>1, <2>1 DEF DropFiles
    <3>2. \E queue : imports' = [imports EXCEPT !.queue = queue]
      BY <1>1, <2>1 DEF DropFiles
    <3> QED BY <2>1, <3>1, <3>2 DEF ImportsInv
  <2>2. CASE ~imports.active
    <3>1. PICK queue : \E next \in ImportsAfter(queue, jobs, project) :
                         imports' = next.imports /\ jobs' = next.jobs
      BY <1>1, <2>2 DEF DropFiles
    <3>2. UNCHANGED completed
      BY <1>1 DEF DropFiles
    <3> QED BY <3>1, <3>2, NextImport DEF ImportsInv, ImportAmong
  <2> QED BY <2>1, <2>2
<1>2. ASSUME NEW p \in EditedPads, SubmitDerived(p) \/ ClearLayer(p) \/ ArmRecording(p)
      PROVE  ImportsInv'
  BY <1>2, RefreshOnlyAdds, JobsOnlyAdded DEF SubmitDerived, ClearLayer, ArmRecording
<1>3. CASE UndoEdit \/ RedoEdit \/ CancelRecording \/ Save \/ OpenRefused
  BY <1>3, RefreshOnlyAdds, JobsOnlyAdded
     DEF UndoEdit, RedoEdit, CancelRecording, Save, OpenRefused
<1>4. CASE AssignPending
  BY <1>4, RefreshOnlyAdds, JobsOnlyAdded DEF AssignPending
<1>5. CASE NewProject \/ OpenProject
  <2>1. imports' = NoImports /\ UNCHANGED completed
    BY <1>5 DEF NewProject, OpenProject, Abandon
  <2> QED BY <2>1 DEF ImportsInv, NoImports
<1>6. CASE Restart
  BY <1>6, EmptyIsSequence DEF Restart, ImportsInv, NoImports
<1>7. CASE SaveProject \/ UNCHANGED studioVars \/ TakeEnds
  BY <1>7, JobsOnlyAdded DEF SaveProject, studioVars, TakeEnds
<1>8. ASSUME NEW job \in jobs, Decode(job) \/ Rendered(job) PROVE ImportsInv'
  BY <1>8, FinishedIsKept DEF Decode, Rendered
<1>9. ASSUME NEW job \in jobs, RenderFile(job) PROVE ImportsInv'
  <2>1. /\ job.kind = "derived" /\ jobs \ {job} \subseteq jobs'
        /\ UNCHANGED <<imports, completed>>
    BY <1>9 DEF RenderFile
  <2> QED BY <2>1 DEF ImportsInv, ImportAmong
<1>10. ASSUME NEW result, HandleImport(result) PROVE ImportsInv'
  <2>1. PICK queue : \E next \in ImportsAfter(queue, jobs, project') :
                       imports' = next.imports /\ RecordingRefreshed(rec, next.jobs)
    BY <1>10 DEF HandleImport
  <2>2. IsSequence(completed')
    BY <1>10, TailOfSequence DEF HandleImport, Timer, ImportsInv
  <2> QED BY <2>1, <2>2, NextImport, RefreshOnlyAdds DEF ImportsInv, ImportAmong
<1>11. ASSUME NEW result, HandleDerived(result) PROVE ImportsInv'
  BY <1>11, RefreshOnlyAdds, OtherResultHandled DEF HandleDerived
<1>12. ASSUME NEW result, HandleRecorded(result) PROVE ImportsInv'
  BY <1>12, RefreshOnlyAdds, OtherResultHandled DEF HandleRecorded
<1>13. ASSUME NEW result, HandleResolved(result) PROVE ImportsInv'
  BY <1>13, RefreshOnlyAdds, OtherResultHandled DEF HandleResolved
<1>14. CASE NoticeTake
  BY <1>14, RefreshOnlyAdds, JobsOnlyAdded DEF NoticeTake
<1> QED
  BY <1>1, <1>2, <1>3, <1>4, <1>5, <1>6, <1>7, <1>8, <1>9, <1>10, <1>11, <1>12, <1>13, <1>14
     DEF Next, PadGesture, User, Beside, Worker, HandleCompletedJob

\* No import waits in the queue while none is under way, but for a submission the
\* job system refused, for every number of pads, files, results and faults.
THEOREM ImportsNeverStall == Spec => []ImportsMove
<1>1. ImportsInv => ImportsMove
  BY ImportingIsAmong DEF ImportsInv, ImportsMove
<1> QED BY <1>1, ImportsInitially, ImportsKept, PTL DEF Spec

(***************************************************************************)
(* The samples of the layers.                                              *)
(***************************************************************************)

\* The sample a of a layer can be played, is being decoded, or was said to be missing.
Backed(a, missing) ==
  \/ a = None \/ a \in missing \/ Holds(store, a) \/ a \in ghost.unbacked
  \/ \E job \in Outstanding :
       job.kind = "resolve" /\ job.asset = a /\ job.opening = ghost.opening

\* LayersAreBacked, of both sides of every edit in the histories.
AllBacked == \A s \in Remembered, p \in Pads : Backed(s.layers[p], s.missing)

\* A sample that is being decoded again for an opened project is so until its result
\* is handled.
LEMMA ResolvesStay ==
  ASSUME StudioTypes, [Next]_studioVars, ~Restart, NEW x \in Outstanding, x.kind = "resolve"
  PROVE  x \in Outstanding' \/ \E result : HandleResolved(result) /\ x = result.job
<1> DEFINE Goal == x \in Outstanding' \/ \E result : HandleResolved(result) /\ x = result.job
<1> SUFFICES Goal
  OBVIOUS
<1>t. WorkTypes
  BY DEF StudioTypes
<1>0. ASSUME UNCHANGED completed, jobs \subseteq jobs' PROVE Goal
  BY <1>0 DEF Outstanding
<1>1. ASSUME NEW p \in EditedPads, DropFiles(p) PROVE Goal
  <2>1. UNCHANGED jobs \/ \E queue : \E next \in ImportsAfter(queue, jobs, project) :
                             jobs' = next.jobs
    BY <1>1 DEF DropFiles
  <2>2. jobs \subseteq jobs'
    BY <2>1, NextImport
  <2> QED BY <1>0, <1>1, <2>2 DEF DropFiles
<1>2. ASSUME NEW p \in EditedPads, SubmitDerived(p) \/ ClearLayer(p) \/ ArmRecording(p) PROVE Goal
  <2>1. jobs \subseteq jobs'
    BY <1>2, RefreshOnlyAdds DEF SubmitDerived, ClearLayer, ArmRecording
  <2> QED BY <1>0, <1>2, <2>1 DEF SubmitDerived, ClearLayer, ArmRecording
<1>3. CASE UndoEdit \/ RedoEdit \/ AssignPending \/ NewProject \/ NoticeTake
  <2>1. jobs \subseteq jobs'
    BY <1>3, RefreshOnlyAdds DEF UndoEdit, RedoEdit, AssignPending, NewProject, NoticeTake
  <2>2. UNCHANGED completed
    BY <1>3 DEF UndoEdit, RedoEdit, AssignPending, NewProject, NoticeTake, Abandon
  <2> QED BY <1>0, <2>1, <2>2
<1>4. CASE CancelRecording \/ Save \/ OpenRefused \/ SaveProject \/ TakeEnds
           \/ UNCHANGED studioVars
  <2>1. UNCHANGED <<completed, jobs>>
    BY <1>4 DEF CancelRecording, Save, OpenRefused, SaveProject, TakeEnds, studioVars
  <2> QED BY <1>0, <2>1
<1>5. CASE OpenProject
  <2>1. UNCHANGED completed
    BY <1>5 DEF OpenProject, Abandon
  <2>2. PICK gone, revision, queued : OpenedWith(gone, revision, queued)
    BY <1>5, OpenEffect
  <2>3. jobs \subseteq jobs'
    BY <2>2, RefreshOnlyAdds DEF OpenedWith
  <2> QED BY <1>0, <2>1, <2>3
<1>6. ASSUME NEW result, Timer(result), jobs \subseteq jobs',
             result.job.kind = "resolve" => HandleResolved(result)
      PROVE  Goal
  <2>1. CASE x \in jobs
    BY <1>6, <2>1 DEF Outstanding
  <2>2. CASE x \notin jobs
    <3>1. PICK i \in DOMAIN completed : x = completed[i].job
      BY <2>2 DEF Outstanding
    <3>2. CASE i = 1
      BY <1>t, <1>6, <3>1, <3>2, ResultsAfterTimer
    <3>3. CASE i # 1
      <4>1. i - 1 \in DOMAIN completed' /\ completed'[i - 1] = completed[i]
        BY <1>t, <1>6, <3>3, ResultsAfterTimer
      <4> QED BY <3>1, <4>1 DEF Outstanding
    <3> QED BY <3>2, <3>3
  <2> QED BY <2>1, <2>2
<1>7. ASSUME NEW result, HandleImport(result) PROVE Goal
  <2>1. PICK queue : \E next \in ImportsAfter(queue, jobs, project') :
                       RecordingRefreshed(rec, next.jobs)
    BY <1>7 DEF HandleImport
  <2>2. jobs \subseteq jobs'
    BY <2>1, NextImport, RefreshOnlyAdds
  <2>3. Timer(result) /\ result.job.kind = "import"
    BY <1>7 DEF HandleImport
  <2> QED BY <1>6, <2>2, <2>3
<1>8. ASSUME NEW result, HandleDerived(result) \/ HandleRecorded(result) \/ HandleResolved(result)
      PROVE  Goal
  <2>1. jobs \subseteq jobs'
    BY <1>8, RefreshOnlyAdds DEF HandleDerived, HandleRecorded, HandleResolved
  <2>2. Timer(result) /\ (result.job.kind = "resolve" => HandleResolved(result))
    BY <1>8 DEF HandleDerived, HandleRecorded, HandleResolved
  <2> QED BY <1>6, <2>1, <2>2
<1>9. ASSUME NEW job \in jobs, Decode(job) \/ Rendered(job) PROVE Goal
  <2>1. PICK ok, bytes : Finish(job, ok, bytes)
    BY <1>9 DEF Decode, Rendered
  <2>2. PICK n \in Nat :
          /\ DOMAIN completed = 1 .. n /\ DOMAIN completed' = 1 .. n + 1
          /\ \A i \in DOMAIN completed : completed'[i] = completed[i]
          /\ completed'[n + 1] = [job |-> job, ok |-> ok, bytes |-> bytes]
    BY <1>t, <2>1, ResultsAfterFinish
  <2>3. n + 1 \in DOMAIN completed' /\ completed'[n + 1].job = job /\ jobs' = jobs \ {job}
        /\ DOMAIN completed \subseteq DOMAIN completed'
    BY <2>1, <2>2 DEF Finish
  <2>4. x \in Outstanding'
    BY <2>2, <2>3 DEF Outstanding
  <2> QED BY <2>4
<1>10. ASSUME NEW job \in jobs, RenderFile(job) PROVE Goal
  <2>1. /\ job.kind = "derived" /\ jobs \ {job} \subseteq jobs' /\ UNCHANGED completed
    BY <1>10 DEF RenderFile
  <2>2. x \in Outstanding'
    BY <2>1 DEF Outstanding
  <2> QED BY <2>2
<1> HIDE DEF Goal
<1> QED
  BY <1>1, <1>2, <1>3, <1>4, <1>5, <1>7, <1>8, <1>9, <1>10
     DEF Next, PadGesture, User, Beside, Worker, HandleCompletedJob

\* What becomes of the registry: emptied with the project, left alone, or one sample
\* that fits put in; what a commit had to take back leaves it as it was.
StoreStep ==
  \/ (NewProject \/ OpenProject \/ Restart) /\ store' = EmptyStore
  \/ UNCHANGED store
  \/ \E a \in Assets, bytes \in Nat : Fits(store, a, bytes) /\ store' = Published(store, a, bytes)

LEMMA StoreSteps ==
  ASSUME StudioTypes, [Next]_studioVars
  PROVE  StoreStep
<1>t. DeskTypes /\ StoreTypes /\ WorkTypes
  BY DEF StudioTypes
<1>0. ASSUME UNCHANGED store PROVE StoreStep
  BY <1>0 DEF StoreStep
<1>1. ASSUME NEW p \in EditedPads, PadGesture(p) PROVE StoreStep
  BY <1>0, <1>1 DEF PadGesture, DropFiles, SubmitDerived, ClearLayer, ArmRecording
<1>2. CASE UndoEdit \/ RedoEdit \/ CancelRecording \/ Save \/ OpenRefused \/ SaveProject
           \/ NoticeTake \/ Beside \/ UNCHANGED studioVars
  <2>1. UNCHANGED store
    BY <1>2 DEF UndoEdit, RedoEdit, CancelRecording, Save, OpenRefused, SaveProject, NoticeTake,
                Beside, TakeEnds, Worker, Decode, RenderFile, Rendered, studioVars
  <2> QED BY <1>0, <2>1
<1>3. ASSUME NEW result \in Results,
             Committed(result) \/ Rejected(result) \/ UNCHANGED <<desk, store>>
      PROVE  StoreStep
  <2>1. CASE Committed(result)
    <3>1. result.job.asset \in Assets /\ result.bytes \in Nat
      BY DEF Results, Jobs
    <3>2. /\ Fits(store, result.job.asset, result.bytes)
          /\ store' = Published(store, result.job.asset, result.bytes)
      BY <2>1 DEF Committed
    <3> QED BY <3>1, <3>2 DEF StoreStep
  <2>2. CASE Rejected(result) \/ UNCHANGED <<desk, store>>
    <3>1. UNCHANGED store
      BY <1>t, <2>2, RolledBackIsNothing DEF Rejected, Refused, Results
    <3> QED BY <1>0, <3>1
  <2> QED BY <1>3, <2>1, <2>2
<1>4. CASE AssignPending
  <2>1. rec.pending \in Results /\ (Committed(rec.pending) \/ Rejected(rec.pending))
    BY <1>4 DEF AssignPending, StudioTypes, Takes
  <2> QED BY <1>3, <2>1
<1>5. ASSUME NEW result, HandleImport(result) \/ HandleDerived(result) \/ HandleRecorded(result)
      PROVE  StoreStep
  <2>1. result \in Results
    BY <1>t, <1>5, HandledTyped DEF HandleImport, HandleDerived, HandleRecorded
  <2>2. Committed(result) \/ Rejected(result) \/ UNCHANGED <<desk, store>>
    BY <1>5, RecordedCommits DEF HandleImport, HandleDerived
  <2> QED BY <1>3, <2>1, <2>2
<1>6. ASSUME NEW result, HandleResolved(result) PROVE StoreStep
  <2>1. result.job.asset \in Assets /\ result.bytes \in Nat
    <3>1. result \in Results
      BY <1>t, <1>6, HandledTyped DEF HandleResolved
    <3> QED BY <3>1 DEF Results, Jobs
  <2>2. \/ /\ Fits(store, result.job.asset, result.bytes)
           /\ store' = Published(store, result.job.asset, result.bytes)
        \/ UNCHANGED store
    BY <1>6 DEF HandleResolved
  <2> QED BY <2>1, <2>2 DEF StoreStep
<1>7. CASE NewProject \/ OpenProject \/ Restart
  BY <1>7 DEF NewProject, OpenProject, Restart, Abandon, StoreStep
<1> QED
  BY <1>1, <1>2, <1>4, <1>5, <1>6, <1>7 DEF Next, User, HandleCompletedJob

\* While the project stays open the registry loses nothing.
LEMMA StoreGrows ==
  ASSUME StudioTypes, [Next]_studioVars, ~(NewProject \/ OpenProject \/ Restart)
  PROVE  DOMAIN store.entries \subseteq DOMAIN store'.entries
<1>1. \/ UNCHANGED store
      \/ \E a \in Assets, bytes \in Nat : store' = Published(store, a, bytes)
  BY StoreSteps DEF StoreStep
<1> QED BY <1>1, PublishedTyped DEF StudioTypes

\* What could not be loaded is remembered until another project is opened.
LEMMA UnbackedGrows ==
  ASSUME StudioTypes, [Next]_studioVars, ~OpenProject
  PROVE  ghost'.opening = ghost.opening /\ ghost.unbacked \subseteq ghost'.unbacked
<1> DEFINE Goal == ghost'.opening = ghost.opening /\ ghost.unbacked \subseteq ghost'.unbacked
<1> SUFFICES Goal
  OBVIOUS
<1>t. WorkTypes /\ ghost \in [opening : Nat, unbacked : SUBSET Assets, gestures : Nat, takes : Nat]
  BY DEF StudioTypes, WorkTypes
<1>0. ASSUME UNCHANGED ghost PROVE Goal
  BY <1>0
<1>1. ASSUME Gesture PROVE Goal
  BY <1>t, <1>1, GestureTyped
<1>2. ASSUME NEW p \in EditedPads, DropFiles(p) \/ SubmitDerived(p) \/ ClearLayer(p) PROVE Goal
  BY <1>1, <1>2 DEF DropFiles, SubmitDerived, ClearLayer
<1>3. ASSUME NEW p \in EditedPads, ArmRecording(p) PROVE Goal
  <2>1. ghost' = [ghost EXCEPT !.gestures = @ + 2, !.takes = @ + 1]
    BY <1>3 DEF ArmRecording
  <2> QED BY <1>t, <2>1
<1>4. CASE UndoEdit \/ RedoEdit \/ CancelRecording \/ AssignPending \/ NewProject \/ Save
           \/ OpenRefused
  <2>1. Gesture
    BY <1>4 DEF UndoEdit, RedoEdit, CancelRecording, AssignPending, NewProject, Save, OpenRefused
  <2> QED BY <1>1, <2>1
<1>5. CASE SaveProject \/ Restart \/ NoticeTake \/ Beside \/ UNCHANGED studioVars
  <2>1. UNCHANGED ghost
    BY <1>5 DEF SaveProject, Restart, NoticeTake, Beside, TakeEnds, Worker, Decode, RenderFile,
                Rendered, studioVars
  <2> QED BY <1>0, <2>1
<1>6. ASSUME NEW result, HandleImport(result) \/ HandleDerived(result) \/ HandleRecorded(result)
      PROVE  Goal
  BY <1>0, <1>6 DEF HandleImport, HandleDerived, HandleRecorded
<1>7. ASSUME NEW result, HandleResolved(result) PROVE Goal
  <2>1. ghost' = ghost
        \/ ghost' = [ghost EXCEPT !.unbacked = ghost.unbacked \cup {result.job.asset}]
    BY <1>7 DEF HandleResolved
  <2> QED BY <1>t, <2>1
<1> HIDE DEF Goal
<1> QED
  BY <1>2, <1>3, <1>4, <1>5, <1>6, <1>7 DEF Next, PadGesture, User, HandleCompletedJob

\* A result for an opened project is taken, or what it was for is known not to be there.
LEMMA ResolvedIsBacked ==
  ASSUME StudioTypes, NEW result, HandleResolved(result), result.job.opening = ghost.opening
  PROVE  Holds(store, result.job.asset)' \/ result.job.asset \in ghost'.unbacked
<1>1. /\ StoreTypes /\ result \in Results /\ result.bytes \in Nat
      /\ ghost \in [opening : Nat, unbacked : SUBSET Assets, gestures : Nat, takes : Nat]
  BY HandledTyped DEF StudioTypes, WorkTypes, HandleResolved, Results
<1>2. CASE result.ok /\ Fits(store, result.job.asset, result.bytes)
  <2>1. store' = Published(store, result.job.asset, result.bytes)
    BY <1>2 DEF HandleResolved
  <2>2. DOMAIN store'.entries = DOMAIN store.entries \cup {result.job.asset}
    BY <1>1, <2>1, PublishedTyped
  <2> QED BY <2>2 DEF Holds
<1>3. CASE ~(result.ok /\ Fits(store, result.job.asset, result.bytes))
  <2>1. ghost' = [ghost EXCEPT !.unbacked = ghost.unbacked \cup {result.job.asset}]
    BY <1>3 DEF HandleResolved
  <2> QED BY <1>1, <2>1
<1> QED BY <1>2, <1>3

\* While a project is open what backs a layer goes on backing it.
LEMMA BackedStays ==
  ASSUME StudioTypes, [Next]_studioVars, ~(NewProject \/ OpenProject \/ Restart),
         NEW a, NEW missing, Backed(a, missing)
  PROVE  Backed(a, missing)'
<1>1. CASE a = None \/ a \in missing
  BY <1>1 DEF Backed
<1>2. CASE Holds(store, a)
  BY <1>2, StoreGrows DEF Backed, Holds
<1>3. CASE a \in ghost.unbacked
  BY <1>3, UnbackedGrows DEF Backed
<1>4. CASE \E job \in Outstanding :
             job.kind = "resolve" /\ job.asset = a /\ job.opening = ghost.opening
  <2>1. PICK job \in Outstanding :
          job.kind = "resolve" /\ job.asset = a /\ job.opening = ghost.opening
    BY <1>4
  <2>2. ghost'.opening = ghost.opening
    BY UnbackedGrows
  <2>3. CASE job \in Outstanding'
    BY <2>1, <2>2, <2>3 DEF Backed
  <2>4. CASE \E result : HandleResolved(result) /\ job = result.job
    <3>1. PICK result : HandleResolved(result) /\ job = result.job
      BY <2>4
    <3>2. Holds(store, result.job.asset)' \/ result.job.asset \in ghost'.unbacked
      BY <2>1, <3>1, ResolvedIsBacked
    <3>3. result.job.asset = a
      BY <2>1, <3>1
    <3> QED BY <3>2, <3>3 DEF Backed, Holds
  <2> QED BY <2>1, <2>3, <2>4, ResolvesStay
<1> QED BY <1>1, <1>2, <1>3, <1>4 DEF Backed

\* A project that was just opened: its samples are missing, queued or known not to load.
LEMMA OpenedIsBacked ==
  ASSUME StudioTypes, NamesItsLayers, OpenProject
  PROVE  AllBacked'
<1>1. PICK gone, revision, queued : OpenedWith(gone, revision, queued)
  BY OpenEffect
<1>2. dest \in Projects /\ dest.state \in Kept
  BY StudioAssumption DEF OpenProject, StudioTypes, FileTypes, Kept, OnDisk
<1>3. undo' = <<>> /\ redo' = <<>>
  BY DEF OpenProject, Abandon
<1>4. Remembered' = {project'.state}
  BY <1>3, NoHistory DEF Remembered
<1>5. project'.state.missing = gone /\ project'.state.layers = dest.state.layers
  <2>1. revision \in Nat
    BY <1>1, <1>2 DEF OpenedWith, Projects
  <2> QED BY <1>1, <1>2, <2>1, OpenedTyped DEF OpenedWith
<1>6. /\ ghost'.opening = ghost.opening + 1
      /\ ghost'.unbacked = (dest.state.assets \ gone) \ queued
  BY <1>1 DEF OpenedWith, StudioTypes, WorkTypes
<1>7. ASSUME NEW a \in queued
      PROVE  \E job \in Outstanding' :
               job.kind = "resolve" /\ job.asset = a /\ job.opening = ghost'.opening
  <2>1. Resolve(a, revision) \in jobs'
    BY <1>1, <1>7, RefreshOnlyAdds DEF OpenedWith, Resolves
  <2>2. /\ Resolve(a, revision).kind = "resolve" /\ Resolve(a, revision).asset = a
        /\ Resolve(a, revision).opening = ghost.opening + 1
    BY DEF Resolve
  <2> QED BY <1>6, <2>1, <2>2 DEF Outstanding
<1>8. ASSUME NEW p \in Pads PROVE Backed(dest.state.layers[p], gone)'
  <2>1. PICK a : a = dest.state.layers[p]
    OBVIOUS
  <2>2. a \in dest.state.assets \cup {None}
    BY <1>2, <2>1 DEF NamesItsLayers
  <2>3. Backed(a, gone)'
    BY <1>6, <1>7, <2>2 DEF Backed
  <2>4. UNCHANGED dest
    BY DEF OpenProject, fileVars
  <2> QED BY <2>1, <2>3, <2>4
<1>9. UNCHANGED dest
  BY DEF OpenProject, fileVars
<1> QED BY <1>4, <1>5, <1>8, <1>9 DEF AllBacked

\* Every step leaves every layer backed.
LEMMA BackedKept ==
  ASSUME RendersInv, AllBacked, [Next]_studioVars
  PROVE  AllBacked'
<1>t. StudioTypes /\ NamesItsLayers
  BY DEF RendersInv
<1>1. CASE OpenProject
  BY <1>t, <1>1, OpenedIsBacked
<1>2. CASE NewProject \/ Restart
  <2>1. project' = NoProject(fresh) /\ undo' = <<>> /\ redo' = <<>>
    BY <1>2 DEF NewProject, Restart, Abandon
  <2>2. Remembered' = {NoProject(fresh).state}
    BY <2>1, NoHistory DEF Remembered
  <2>3. \A p \in Pads : NoProject(fresh).state.layers[p] = None
    BY DEF NoProject
  <2> QED BY <2>1, <2>2, <2>3, NoHistory DEF AllBacked, Backed, Remembered
<1>3. CASE ~(NewProject \/ OpenProject \/ Restart)
  <2> SUFFICES ASSUME NEW s \in Remembered', NEW p \in Pads PROVE Backed(s.layers[p], s.missing)'
    BY DEF AllBacked
  <2>0. \A t \in Remembered, q \in Pads : Backed(t.layers[q], t.missing)
    BY DEF AllBacked
  <2>1. ASSUME NEW a, NEW missing, Backed(a, missing) PROVE Backed(a, missing)'
    BY <1>t, <1>3, <2>1, BackedStays
  <2>2. CASE s \in Remembered
    BY <2>0, <2>1, <2>2
  <2>3. CASE s = project'.state
    <3>1. CASE \E t : Returning(t)
      <4>1. PICK t \in Remembered : Pruned(s, t) /\ s.missing = t.missing
        BY <1>3, <2>3, <3>1 DEF Returning
      <4>2. PICK a, missing : a = t.layers[p] /\ missing = t.missing
        OBVIOUS
      <4>3. Backed(a, missing)'
        BY <2>0, <2>1, <4>1, <4>2
      <4>4. s.layers[p] \in {a, None} /\ s.missing = missing
        BY <4>1, <4>2 DEF Pruned
      <4> QED BY <4>3, <4>4 DEF Backed
    <3>2. CASE \E n \in Nat : s = NoProject(n).state
      <4>1. s.layers[p] = None
        BY <3>2 DEF NoProject
      <4> QED BY <4>1 DEF Backed
    <3>3. CASE \E result : Committing(result)
      <4>1. PICK result : Committing(result)
        BY <3>3
      <4>2. PICK a, q : a = result.job.asset /\ q = result.job.pad
        OBVIOUS
      <4>3. /\ s = WithAsset(project.state, q, a) /\ a \in Assets /\ q \in Pads
            /\ Committed(result) /\ result.bytes \in Nat
        BY <2>3, <4>1, <4>2 DEF Committing, Results, Jobs
      <4>4. project.state \in States /\ project.state \in Remembered
        BY <1>t, KeptTyped DEF Kept, Remembered
      <4>5. /\ s.missing = project.state.missing \ {a}
            /\ s.layers = [project.state.layers EXCEPT ![q] = a]
        BY <4>3, <4>4, WithAssetTyped
      <4>6. Holds(store, a)'
        <5>1. store' = Published(store, a, result.bytes) /\ StoreTypes
          BY <1>t, <4>2, <4>3 DEF Committed, StudioTypes
        <5>2. DOMAIN store'.entries = DOMAIN store.entries \cup {a}
          BY <4>3, <5>1, PublishedTyped
        <5> QED BY <5>2 DEF Holds
      <4>7. CASE p = q
        <5>1. s.layers[p] = a
          BY <4>3, <4>4, <4>5, <4>7 DEF States
        <5> QED BY <4>6, <5>1 DEF Backed
      <4>8. CASE p # q
        <5>1. PICK b, missing : b = project.state.layers[p] /\ missing = project.state.missing
          OBVIOUS
        <5>2. Backed(b, missing)'
          BY <2>0, <2>1, <4>4, <5>1
        <5>3. s.layers[p] = b /\ s.missing = missing \ {a}
          BY <4>3, <4>4, <4>5, <4>8, <5>1 DEF States
        <5> QED BY <4>6, <5>2, <5>3 DEF Backed
      <4> QED BY <4>7, <4>8
    <3> QED BY <1>t, <2>3, <3>1, <3>2, <3>3, WhereProjectComesFrom DEF ProjectComesFrom
  <2> QED BY <1>t, <2>2, <2>3, WhereProjectComesFrom
<1> QED BY <1>1, <1>2, <1>3

\* Whatever layer the project, undo or redo brings, its sample can be played, is being
\* decoded for the project that is open, or the user was told that it is missing,
\* whatever is imported, rendered, recorded, saved, opened or cancelled meanwhile
\* (resolveProjectAssets() and the three commit functions).
THEOREM LayersAlwaysBacked == Spec => []LayersAreBacked
<1>1. Init => AllBacked
  <2> SUFFICES ASSUME Init PROVE AllBacked
    OBVIOUS
  <2>1. Remembered = {NoProject(0).state}
    BY NoHistory DEF Init, Remembered
  <2>2. \A p \in Pads : NoProject(0).state.layers[p] = None
    BY DEF NoProject
  <2> QED BY <2>1, <2>2 DEF AllBacked, Backed
<1>2. RendersInv /\ AllBacked /\ [Next]_studioVars => AllBacked'
  BY BackedKept
<1>3. AllBacked => LayersAreBacked
  <2>1. Reachable \subseteq Remembered
    BY DEF Reachable, Remembered, StatesOf
  <2> QED BY <2>1 DEF AllBacked, Backed, LayersAreBacked
<1> QED BY <1>1, <1>2, <1>3, RendersInvHolds, PTL DEF Spec

(***************************************************************************)
(* The memory of the decoded samples.  That the running total is the sum   *)
(* of what is held is an induction over the registry; the library's fold   *)
(* is unfolded below by taking, of what does not behave, a smallest case.  *)
(***************************************************************************)

\* The element of a set whose value the library's fold takes next.
NextOf(s) == CHOOSE x \in s : TRUE

\* What the library's SumFunctionOnSet(f, S) makes for every subset of S.
SumsOver(f, S, g) ==
  g = [s \in SUBSET S |-> IF s = {} THEN 0 ELSE f[NextOf(s)] + g[s \ {NextOf(s)}]]

SumOver(f, S) == CHOOSE g : SumsOver(f, S, g)

\* The next element is one of the set.
LEMMA NextIsIn == ASSUME NEW s, s # {} PROVE NextOf(s) \in s
BY DEF NextOf

\* The recursion of the library's fold has a solution on a finite set.
LEMMA SumsExist ==
  ASSUME NEW S, IsFiniteSet(S), NEW f, \A x \in S : f[x] \in Int
  PROVE  SumsOver(f, S, SumOver(f, S))
<1> DEFINE c == [s \in SUBSET S |-> NextOf(s)]
           F == [xv \in S \X Int |-> f[xv[1]] + xv[2]]
<1>1. \A s \in SUBSET S : s # {} => c[s] = NextOf(s) /\ c[s] \in s
  BY NextIsIn
<1>2. F \in [S \X Int -> Int] /\ 0 \in Int
  OBVIOUS
<1> HIDE DEF c, F
<1>3. PICK g : IsFold(g, S, Int, 0, F, c)
  <2>1. \A s \in SUBSET S : s # {} => c[s] \in s
    BY <1>1
  <2> QED BY <1>2, <2>1, FoldExists
<1>4. ASSUME NEW s \in SUBSET S
      PROVE  g[s] = IF s = {} THEN 0 ELSE f[NextOf(s)] + g[s \ {NextOf(s)}]
  <2>1. CASE s = {}
    BY <1>3, <2>1 DEF IsFold
  <2>2. CASE s # {}
    <3>1. /\ NextOf(s) \in S /\ s \ {NextOf(s)} \in SUBSET S
          /\ c[s] = NextOf(s) /\ g \in [SUBSET S -> Int]
      BY <1>1, <1>3, <2>2, NextIsIn DEF IsFold
    <3>2. g[s] = F[<<NextOf(s), g[s \ {NextOf(s)}]>>]
      BY <1>3, <2>2, <3>1 DEF IsFold
    <3>3. PICK x, rest : x = NextOf(s) /\ rest = g[s \ {NextOf(s)}]
      OBVIOUS
    <3>4. x \in S /\ rest \in Int
      BY <3>1, <3>3
    <3>5. F[<<x, rest>>] = f[x] + rest
      BY <3>4 DEF F
    <3> QED BY <2>2, <3>2, <3>3, <3>5
  <2> QED BY <2>1, <2>2
<1>5. SumsOver(f, S, g)
  <2>1. DOMAIN g = SUBSET S /\ g = [s \in DOMAIN g |-> g[s]]
    BY <1>3 DEF IsFold
  <2> QED BY <1>4, <2>1 DEF SumsOver
<1> QED BY <1>5 DEF SumOver

\* Its values, one element at a time.
LEMMA SumStep ==
  ASSUME NEW S, IsFiniteSet(S), NEW f, \A x \in S : f[x] \in Int
  PROVE  /\ SumOver(f, S)[{}] = 0
         /\ \A s \in SUBSET S : s # {} =>
              /\ NextOf(s) \in s
              /\ SumOver(f, S)[s] = f[NextOf(s)] + SumOver(f, S)[s \ {NextOf(s)}]
<1>1. SumOver(f, S) =
        [s \in SUBSET S |->
           IF s = {} THEN 0 ELSE f[NextOf(s)] + SumOver(f, S)[s \ {NextOf(s)}]]
  BY SumsExist DEF SumsOver
<1> DEFINE g == SumOver(f, S)
<1>2. g = [s \in SUBSET S |-> IF s = {} THEN 0 ELSE f[NextOf(s)] + g[s \ {NextOf(s)}]]
  BY <1>1
<1> HIDE DEF g
<1>3. \A s \in SUBSET S :
        g[s] = IF s = {} THEN 0 ELSE f[NextOf(s)] + g[s \ {NextOf(s)}]
  <2> TAKE s \in SUBSET S
  <2>1. \A x : g = x => g[s] = x[s]
    OBVIOUS
  <2> QED BY <2>1, <1>2
<1> QED BY <1>3, NextIsIn DEF g

\* The sum of the library is that of the whole set.
LEMMA SumIs == ASSUME NEW f PROVE SumFunction(f) = SumOver(f, DOMAIN f)[DOMAIN f]
BY DEF SumFunction, SumFunctionOnSet, FoldFunctionOnSet, MapThenFoldSet, SumOver, SumsOver, NextOf

\* It is an integer, and any element may be taken first.
LEMMA SumOfAny ==
  ASSUME NEW S, IsFiniteSet(S), NEW f, \A x \in S : f[x] \in Int, NEW s \in SUBSET S
  PROVE  /\ SumOver(f, S)[s] \in Int
         /\ \A a \in s : SumOver(f, S)[s] = f[a] + SumOver(f, S)[s \ {a}]
<1> DEFINE g == SumOver(f, S)
           Good(t) == g[t] \in Int /\ \A a \in t : g[t] = f[a] + g[t \ {a}]
           Bad == {t \in SUBSET S : ~Good(t)}
<1>1. /\ g[{}] = 0
      /\ \A t \in SUBSET S : t # {} => /\ NextOf(t) \in t
                                       /\ g[t] = f[NextOf(t)] + g[t \ {NextOf(t)}]
  BY SumStep
<1> HIDE DEF g
<1>2. Bad = {}
  <2> SUFFICES ASSUME Bad # {} PROVE FALSE
    OBVIOUS
  <2>1. PICK t \in Bad : \A u \in SUBSET t : u \in Bad => u = t
    <3> HIDE DEF Bad
    <3>1. Bad \in SUBSET SUBSET S
      BY DEF Bad
    <3> QED BY <3>1, SmallestSet
  <2>2. \A u \in SUBSET t : u # t => Good(u)
    BY <2>1
  <2>3. t # {}
    <3>1. Good({})
      BY <1>1
    <3> HIDE DEF Good
    <3> QED BY <3>1, <2>1
  <2> DEFINE x == NextOf(t)
  <2>4. x \in t /\ g[t] = f[x] + g[t \ {x}] /\ t \in SUBSET S
    BY <1>1, <2>1, <2>3
  <2> HIDE DEF x
  <2>5. g[t] \in Int
    <3>1. f[x] \in Int /\ g[t \ {x}] \in Int
      BY <2>2, <2>4
    <3> QED BY <3>1, <2>4
  <2>6. ASSUME NEW a \in t PROVE g[t] = f[a] + g[t \ {a}]
    <3>1. CASE a = x
      BY <2>4, <3>1
    <3>2. CASE a # x
      <4>1. Good(t \ {x}) /\ Good(t \ {a}) /\ Good((t \ {x}) \ {a})
        <5>1. /\ t \ {x} \in SUBSET t /\ t \ {x} # t
              /\ t \ {a} \in SUBSET t /\ t \ {a} # t
              /\ (t \ {x}) \ {a} \in SUBSET t /\ (t \ {x}) \ {a} # t
          BY <2>4
        <5> HIDE DEF Good
        <5> QED BY <5>1, <2>2
      <4>2. g[t \ {x}] = f[a] + g[(t \ {x}) \ {a}]
        BY <4>1, <3>2
      <4>3. g[t \ {a}] = f[x] + g[(t \ {a}) \ {x}]
        BY <4>1, <3>2, <2>4
      <4>4. (t \ {a}) \ {x} = (t \ {x}) \ {a}
        OBVIOUS
      <4>5. f[a] \in Int /\ f[x] \in Int /\ g[(t \ {x}) \ {a}] \in Int
        BY <4>1, <2>4
      <4> HIDE DEF Good, Bad
      <4>6. g[t] = f[x] + (f[a] + g[(t \ {x}) \ {a}])
        BY <2>4, <4>2
      <4>7. g[t \ {a}] = f[x] + g[(t \ {x}) \ {a}]
        BY <4>3, <4>4
      <4> QED BY <4>5, <4>6, <4>7
    <3> QED BY <3>1, <3>2
  <2> QED BY <2>1, <2>5, <2>6
<1> QED BY <1>2 DEF g

\* It depends on the values of the set's own elements only.
LEMMA SumAgrees ==
  ASSUME NEW S, IsFiniteSet(S), NEW f, \A x \in S : f[x] \in Int,
         NEW R, IsFiniteSet(R), NEW e, \A x \in R : e[x] \in Int, NEW s, s \in SUBSET S, s \in SUBSET R, \A x \in s : f[x] = e[x]
  PROVE  SumOver(f, S)[s] = SumOver(e, R)[s]
<1> DEFINE g == SumOver(f, S)
           h == SumOver(e, R)
           Bad == {t \in SUBSET s : g[t] # h[t]}
<1>1. /\ g[{}] = 0
      /\ \A t \in SUBSET S : t # {} => /\ NextOf(t) \in t
                                       /\ g[t] = f[NextOf(t)] + g[t \ {NextOf(t)}]
  BY SumStep
<1>2. /\ h[{}] = 0
      /\ \A t \in SUBSET R : t # {} => /\ NextOf(t) \in t
                                       /\ h[t] = e[NextOf(t)] + h[t \ {NextOf(t)}]
  BY SumStep
<1> HIDE DEF g, h
<1>3. Bad = {}
  <2> SUFFICES ASSUME Bad # {} PROVE FALSE
    OBVIOUS
  <2>1. PICK t \in Bad : \A u \in SUBSET t : u \in Bad => u = t
    <3> HIDE DEF Bad
    <3>1. Bad \in SUBSET SUBSET S
      BY DEF Bad
    <3> QED BY <3>1, SmallestSet
  <2>2. t \in SUBSET s /\ t # {} /\ g[t] # h[t]
    BY <1>1, <1>2, <2>1
  <2>3. NextOf(t) \in t /\ f[NextOf(t)] = e[NextOf(t)]
    BY <2>2, NextIsIn
  <2>4. g[t \ {NextOf(t)}] = h[t \ {NextOf(t)}]
    BY <2>1, <2>2, <2>3
  <2> QED BY <1>1, <1>2, <2>2, <2>3, <2>4
<1> QED BY <1>3 DEF g, h

\* One value put into a function, in the place of another or as a new one.
LEMMA SumWith ==
  ASSUME NEW f, IsFiniteSet(DOMAIN f), \A x \in DOMAIN f : f[x] \in Int,
         NEW a, NEW b \in Int
  PROVE  LET g == [x \in DOMAIN f \cup {a} |-> IF x = a THEN b ELSE f[x]]
         IN /\ SumFunction(g) \in Int /\ SumFunction(f) \in Int
            /\ SumFunction(g) = SumFunction(f) - (IF a \in DOMAIN f THEN f[a] ELSE 0) + b
<1> DEFINE D == DOMAIN f
           E == DOMAIN f \cup {a}
           g == [x \in E |-> IF x = a THEN b ELSE f[x]]
           rest == D \ {a}
<1>1. /\ DOMAIN g = E /\ IsFiniteSet(E) /\ \A x \in E : g[x] \in Int
      /\ g[a] = b /\ a \in E /\ E \ {a} = rest /\ rest \in SUBSET D /\ rest \in SUBSET E
      /\ \A x \in rest : g[x] = f[x]
      /\ a \notin D => rest = D
  BY FS_AddElement
<1>2. SumFunction(g) = SumOver(g, E)[E] /\ SumFunction(f) = SumOver(f, D)[D]
  BY <1>1, SumIs
<1> HIDE DEF D, E, g, rest
<1>3. IsFiniteSet(D) /\ \A x \in D : f[x] \in Int
  BY DEF D
<1>4. SumOver(g, E)[rest] = SumOver(f, D)[rest]
  BY <1>1, <1>3, SumAgrees
<1>5. /\ SumOver(g, E)[E] = b + SumOver(g, E)[rest]
      /\ SumOver(g, E)[E] \in Int /\ SumOver(g, E)[rest] \in Int
  <2>1. /\ SumOver(g, E)[E] \in Int
        /\ \A x \in E : SumOver(g, E)[E] = g[x] + SumOver(g, E)[E \ {x}]
    BY <1>1, SumOfAny
  <2>2. SumOver(g, E)[rest] \in Int
    BY <1>1, SumOfAny
  <2> QED BY <1>1, <2>1, <2>2
<1>6. /\ SumOver(f, D)[D] \in Int
      /\ a \in D => SumOver(f, D)[D] = f[a] + SumOver(f, D)[rest]
  <2>1. /\ SumOver(f, D)[D] \in Int
        /\ \A x \in D : SumOver(f, D)[D] = f[x] + SumOver(f, D)[D \ {x}]
    <3>1. D \in SUBSET D
      OBVIOUS
    <3>2. \A s \in SUBSET D : /\ SumOver(f, D)[s] \in Int
                             /\ \A x \in s : SumOver(f, D)[s] = f[x] + SumOver(f, D)[s \ {x}]
      BY <1>3, SumOfAny
    <3> QED BY <3>1, <3>2
  <2> QED BY <2>1 DEF rest
<1>7. SumFunction(g) = SumFunction(f) - (IF a \in D THEN f[a] ELSE 0) + b
  <2>1. CASE a \in D
    <3>1. f[a] \in Int
      BY <2>1, <1>3
    <3> QED BY <2>1, <3>1, <1>2, <1>4, <1>5, <1>6
  <2>2. CASE a \notin D
    BY <2>2, <1>1, <1>2, <1>4, <1>5, <1>6
  <2> QED BY <2>1, <2>2
<1>8. SumFunction(g) \in Int /\ SumFunction(f) \in Int
  BY <1>2, <1>5, <1>6
<1> QED BY <1>7, <1>8 DEF g, D, E

\* The empty function adds up to nothing.
LEMMA SumOfNothing == ASSUME NEW f, DOMAIN f = {} PROVE SumFunction(f) = 0
BY SumIs, SumStep, FS_EmptySet

\* What BudgetKept lacks to be inductive: there are finitely many samples.
BudgetInv == IsFiniteSet(DOMAIN store.entries) /\ BudgetKept

\* A sample put in, in the place of its older self or as a new one.
LEMMA PublishedIsCounted ==
  ASSUME StoreTypes, BudgetInv, NEW a, NEW bytes \in Nat, Fits(store, a, bytes),
         store' = Published(store, a, bytes)
  PROVE  BudgetInv'
<1> DEFINE held == store.entries
           put == [x \in DOMAIN held \cup {a} |-> IF x = a THEN bytes ELSE held[x]]
<1>1. /\ store.used \in Int /\ \A x \in DOMAIN held : held[x] \in Int
      /\ IsFiniteSet(DOMAIN held) /\ store.used = SumFunction(held)
  BY DEF StoreTypes, BudgetInv, BudgetKept
<1>2. /\ store'.entries = put
      /\ store'.used = store.used - HeldBytes(store, a) + bytes
  BY DEF Published
<1>3. HeldBytes(store, a) = IF a \in DOMAIN held THEN held[a] ELSE 0
  BY DEF HeldBytes, Holds
<1>4. IsFiniteSet(DOMAIN put)
  BY <1>1, FS_AddElement
<1>5. SumFunction(put) = SumFunction(held) - (IF a \in DOMAIN held THEN held[a] ELSE 0) + bytes
  <2> HIDE DEF held
  <2> QED BY <1>1, SumWith
<1>6. store'.used <= Budget
  <2>1. HeldBytes(store, a) \in Int
    BY <1>1, <1>3
  <2> QED BY <1>1, <1>2, <2>1, StoreAssumption DEF Fits
<1> HIDE DEF held, put
<1>7. store'.used = SumFunction(store'.entries)
  BY <1>1, <1>2, <1>3, <1>5
<1> QED BY <1>2, <1>4, <1>6, <1>7 DEF BudgetInv, BudgetKept

\* The running total of the registry is what it holds, and within the budget, for every
\* budget and however publications, replacements, roll-backs and the results of closed
\* projects follow each other (SampleAssetRegistry::publish).
THEOREM MemoryWithinBudget == Spec => []BudgetKept
<1>0. store = EmptyStore => BudgetInv
  BY SumOfNothing, FS_EmptySet, StoreAssumption DEF EmptyStore, BudgetInv, BudgetKept
<1>1. Init => BudgetInv
  BY <1>0 DEF Init
<1>2. StudioTypes /\ BudgetInv /\ [Next]_studioVars => BudgetInv'
  <2> SUFFICES ASSUME StudioTypes, BudgetInv, [Next]_studioVars PROVE BudgetInv'
    OBVIOUS
  <2>1. CASE store' = EmptyStore
    <3>1. (store = EmptyStore => BudgetInv)'
      BY SumOfNothing, FS_EmptySet, StoreAssumption DEF EmptyStore, BudgetInv, BudgetKept
    <3> QED BY <2>1, <3>1
  <2>2. CASE UNCHANGED store
    BY <2>2 DEF BudgetInv, BudgetKept
  <2>3. ASSUME NEW a \in Assets, NEW bytes \in Nat, Fits(store, a, bytes),
               store' = Published(store, a, bytes)
        PROVE  BudgetInv'
    BY <2>3, PublishedIsCounted DEF StudioTypes
  <2> QED BY <2>1, <2>2, <2>3, StoreSteps DEF StoreStep
<1>3. BudgetInv => BudgetKept
  BY DEF BudgetInv
<1> QED BY <1>1, <1>2, <1>3, StudioTypesAlways, PTL DEF Spec
=============================================================================

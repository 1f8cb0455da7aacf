----------------------------- MODULE TaskStores -----------------------------
(***************************************************************************)
(* The two task files of a workspace and those who write them.             *)
(*                                                                         *)
(* tasks/tasks.json is the task engine's (task_engine/engine.py): every    *)
(* TaskStore keeps the list it loaded when it was made and saves it whole. *)
(* tasks.json is the list the user sees: the panel server creates,         *)
(* completes, deletes and restores its rows, and an engine mirrors its     *)
(* tasks into it after every save (core/task_store_mirror.py).  There is no*)
(* lock between any two of them.                                           *)
(*                                                                         *)
(* A step is one read or one write of a file.  The engine's is truncated   *)
(* and then written, and is empty to who reads it in between; the panel's  *)
(* is replaced whole.  The panel serves one request at a time.             *)
(*                                                                         *)
(* Of a task the model keeps its status: "halted" stands for an error and a*)
(* stop, "simulation" for all that a run completes with short of "done".   *)
(* The trash that engines write is read by nothing modelled here and is    *)
(* left out, and so are the events of the panel's file.                    *)
(***************************************************************************)
EXTENDS Integers, Sequences, SequencesExt

CONSTANTS
    Engine,         \* processes, or TaskStores of one process
    EngineTask,     \* task ids an engine may use: 1 .. n
    PanelTask,      \* rows the panel may create
    MaxTrash        \* bound of a run: row -> files of it in trash/

ASSUME StoreAssumption ==
    /\ EngineTask \subseteq Nat \ {0} /\ EngineTask \cap PanelTask = {}
    /\ MaxTrash \in [EngineTask \cup PanelTask -> Nat]

VARIABLES
    disk,           \* tasks/tasks.json
    doc,            \* tasks.json: row -> "active", "done", or "none"
    trash,          \* row -> the files of it in trash/, newest last
    engine,         \* what an engine does, and its copies
    panel,          \* what the panel does, and its copy
    made, purged,   \* panel rows that were created; deleted for good
    adrift,         \* engine rows that something but the mirror has touched, or whose task
                    \* an engine has changed and not saved
    raced,          \* a write was made over one its writer had not seen
    cut             \* the panel stopped between its two files

storeVars == <<disk, doc, trash, engine, panel, made, purged, adrift, raced, cut>>
panelVars == <<trash, panel, made, purged, cut>>

Row == EngineTask \cup PanelTask
Task(s, a) == [status |-> s, archived |-> a]
NoTask == Task("none", FALSE)
Empty == [tasks |-> [i \in EngineTask |-> NoTask], next |-> 1]
Torn == [tasks |-> <<>>, next |-> 0]

Off == [pc |-> "off", mem |-> Empty, saw |-> Empty, phase |-> "rest", run |-> 0,
        todo |-> {}, read |-> <<>>]
Waiting == [pc |-> "idle", row |-> 0, new |-> "none", read |-> <<>>]

StoreInit ==
    /\ disk = Empty
    /\ doc = [r \in Row |-> "none"]
    /\ trash = [r \in Row |-> <<>>]
    /\ engine = [e \in Engine |-> Off]
    /\ panel = Waiting
    /\ made = {} /\ purged = {} /\ adrift = {}
    /\ raced = FALSE /\ cut = FALSE

-----------------------------------------------------------------------------
(* The engine: a change of its list is saved whole, then mirrored *)

Set(e, record) == engine' = [engine EXCEPT ![e] = record]

KeepFiles == UNCHANGED <<disk, doc, adrift, raced>>

\* TaskStore.__init__: a file that cannot be parsed counts as an empty list.
Start(e) ==
    /\ engine[e].pc = "off"
    /\ Set(e, [Off EXCEPT !.pc = "idle", !.mem = IF disk = Torn THEN Empty ELSE disk,
                           !.saw = disk])
    /\ KeepFiles /\ UNCHANGED panelVars

\* An idle engine changes tasks of its list; only then does it save.
Change(e, changed) ==
    /\ engine[e].pc = "idle"
    /\ Set(e, [changed EXCEPT !.pc = "save"])
    /\ KeepFiles /\ UNCHANGED panelVars

Tasks(e) == engine[e].mem.tasks
SetStatus(e, i, s) == [Tasks(e) EXCEPT ![i].status = s]
Phase(e, p) == engine[e].phase = p
Changed(e, tasks, ids) ==
    [engine[e] EXCEPT !.mem = [tasks |-> tasks, next |-> engine[e].mem.next], !.todo = ids]

CreateTask(e) ==
    LET mem == engine[e].mem
    IN  /\ Phase(e, "rest") /\ mem.next \in EngineTask
        /\ Change(e, [engine[e] EXCEPT
                !.mem = [tasks |-> [mem.tasks EXCEPT ![mem.next] = Task("pending", FALSE)],
                         next |-> mem.next + 1],
                !.todo = {mem.next}])

\* run_task: an update before the first step, one around every step, a last one.
Run(e, i) ==
    /\ Phase(e, "rest") /\ Tasks(e)[i].status \in {"pending", "halted"}
    /\ Change(e, [Changed(e, SetStatus(e, i, "running"), {i}) EXCEPT !.phase = "first", !.run = i])

RunStep(e) ==
    /\ Phase(e, "step")
    /\ Change(e, Changed(e, Tasks(e), {engine[e].run}))

Finish(e) ==
    /\ Phase(e, "step")
    /\ \E s \in {"done", "simulation", "halted"} :
        Change(e, [Changed(e, SetStatus(e, engine[e].run, s), {engine[e].run})
                      EXCEPT !.phase = "last"])

Cancel(e, i) ==
    /\ Phase(e, "rest") /\ Tasks(e)[i].status \in {"pending", "running", "halted"}
    /\ Change(e, Changed(e, SetStatus(e, i, "halted"), {i}))

Archive(e, i) ==
    /\ Phase(e, "rest") /\ Tasks(e)[i] # NoTask /\ ~Tasks(e)[i].archived
    /\ Change(e, Changed(e, [Tasks(e) EXCEPT ![i].archived = TRUE], {i}))

\* archive_completed and archive_simulations mirror the whole list.
ArchiveAll(e, s) ==
    LET hits == {i \in EngineTask : Tasks(e)[i] = Task(s, FALSE)}
    IN  /\ Phase(e, "rest") /\ hits # {}
        /\ Change(e, Changed(e,
                [i \in EngineTask |-> IF i \in hits THEN Task(s, TRUE) ELSE Tasks(e)[i]],
                {i \in EngineTask : Tasks(e)[i] # NoTask}))

\* move_to_trash, delete
Drop(e, i) ==
    /\ Phase(e, "rest") /\ Tasks(e)[i] # NoTask
    /\ Change(e, Changed(e, [Tasks(e) EXCEPT ![i] = NoTask], {i}))

SomeoneWrites == \E e \in Engine : engine[e].pc = "write"

\* _save: write_text truncates the file ...
Truncate(e) ==
    /\ engine[e].pc = "save"
    /\ disk' = Torn /\ raced' = (raced \/ disk # engine[e].saw \/ SomeoneWrites)
    /\ Set(e, [engine[e] EXCEPT !.pc = "write"])
    /\ UNCHANGED <<doc, adrift>> /\ UNCHANGED panelVars

\* ... and writes it ...
Fill(e) ==
    /\ engine[e].pc = "write"
    /\ disk' = engine[e].mem /\ raced' = (raced \/ disk # Torn)
    /\ Set(e, [engine[e] EXCEPT !.pc = "mirror", !.saw = engine[e].mem])
    /\ UNCHANGED <<doc, adrift>> /\ UNCHANGED panelVars

\* ... and hands the tasks of the change to the mirror, in the order of the list.
IsNext(e, i) == i \in engine[e].todo /\ \A k \in engine[e].todo : i <= k

\* An engine holds a change of the task that it has not saved.
Unsaved(e, i) == engine[e].saw # Torn /\ engine[e].mem.tasks[i] # engine[e].saw.tasks[i]

\* Mutant: an archived task has a row like any other.
RowOfAny(t) ==
    IF t = NoTask THEN "none" ELSE IF t.status = "done" THEN "done" ELSE "active"

\* engine_task_to_row; a task that is gone has its row removed.
RowOf(t) ==
    IF t.status = "none" \/ t.archived THEN "none"
    ELSE IF t.status = "done" THEN "done" ELSE "active"

ReadDoc(e) ==
    /\ engine[e].pc = "mirror"
    /\ Set(e, [engine[e] EXCEPT !.pc = "mirroring", !.read = doc])
    /\ KeepFiles /\ UNCHANGED panelVars

\* The caller goes on: a run, after its first update and its steps.
Returned(e) ==
    IF engine[e].phase \in {"first", "step"}
    THEN [engine[e] EXCEPT !.pc = "idle", !.todo = {}, !.read = <<>>, !.phase = "step"]
    ELSE [engine[e] EXCEPT !.pc = "idle", !.todo = {}, !.read = <<>>, !.phase = "rest", !.run = 0]

\* An exception out of the save ends a run; inside its try the task is
\* halted, by a save that may raise again.
Raised(e) ==
    IF engine[e].phase \in {"step", "last"}
    THEN [Changed(e, SetStatus(e, engine[e].run, "halted"), {engine[e].run})
             EXCEPT !.pc = "save", !.read = <<>>, !.phase = "handler"]
    ELSE [engine[e] EXCEPT !.pc = "idle", !.todo = {}, !.read = <<>>, !.phase = "rest", !.run = 0]

\* Only the evidence of the save may still fail once the last row is mirrored.
MirrorRow(e, i) ==
    LET row == RowOf(Tasks(e)[i])
        same == engine[e].read[i] = row
    IN  /\ engine[e].pc = "mirroring" /\ IsNext(e, i)
        /\ doc' = IF same THEN doc ELSE [engine[e].read EXCEPT ![i] = row]
        /\ adrift' = IF \/ same /\ doc # engine[e].read
                        \/ \E o \in Engine \ {e} : Unsaved(o, i)
                     THEN adrift ELSE adrift \ {i}
        /\ raced' = (raced \/ (~same /\ doc # engine[e].read) \/ disk # engine[e].saw)
        /\ \/ /\ engine[e].todo # {i}
              /\ Set(e, [engine[e] EXCEPT !.pc = "mirror", !.todo = @ \ {i}, !.read = <<>>])
           \/ engine[e].todo = {i} /\ (Set(e, Returned(e)) \/ Set(e, Raised(e)))
        /\ UNCHANGED disk /\ UNCHANGED panelVars

\* The mirror gives up, without a word, what it had still to do.
MirrorFails(e) ==
    /\ engine[e].pc \in {"mirror", "mirroring"}
    /\ adrift' = adrift \cup engine[e].todo
    /\ Set(e, Returned(e)) \/ Set(e, Raised(e))
    /\ UNCHANGED <<disk, doc, raced>> /\ UNCHANGED panelVars

\* The save fails before the file is touched, or in the middle of it: the list
\* in memory keeps the change and the next save writes it.
SaveFails(e) ==
    /\ engine[e].pc \in {"save", "write"}
    /\ adrift' = IF engine[e].pc = "write" THEN EngineTask ELSE adrift \cup engine[e].todo
    /\ Set(e, Raised(e))
    /\ UNCHANGED <<disk, doc, raced>> /\ UNCHANGED panelVars

\* The process ends, at any step.
Die(e) ==
    /\ engine[e].pc # "off"
    /\ adrift' = CASE engine[e].pc = "write" -> EngineTask
                   [] engine[e].pc \in {"mirror", "mirroring"} -> adrift \cup engine[e].todo
                   [] OTHER -> adrift
    /\ engine' = [engine EXCEPT ![e] = Off]
    /\ UNCHANGED <<disk, doc, raced>> /\ UNCHANGED panelVars

-----------------------------------------------------------------------------
(* The panel server: one request at a time, each reads tasks.json once *)

Request(pc, r, new) ==
    /\ panel.pc = "idle"
    /\ panel' = [pc |-> pc, row |-> r, new |-> new, read |-> doc]
    /\ UNCHANGED <<disk, doc, engine, made, adrift, raced, cut>>

PostCreate(r) ==
    /\ r \in PanelTask \ made /\ Request("write", r, "active")
    /\ UNCHANGED <<trash, purged>>

PostComplete(r) ==
    /\ doc[r] = "active" /\ Request("write", r, "done")
    /\ UNCHANGED <<trash, purged>>

PostDelete(r) ==
    /\ doc[r] # "none" /\ Len(trash[r]) < MaxTrash[r] /\ Request("delete", r, "none")
    /\ UNCHANGED <<trash, purged>>

\* Mutant: the file in the trash is consumed before the row is back.
PostRestoreFirst(r) ==
    /\ trash[r] # <<>> /\ doc[r] = "none" /\ Request("write", r, Last(trash[r]))
    /\ trash' = [trash EXCEPT ![r] = Front(@)]
    /\ UNCHANGED purged

\* The newest file counts, and a row that is listed already is not restored.
PostRestore(r) ==
    /\ trash[r] # <<>> /\ doc[r] = "none" /\ Request("restore", r, Last(trash[r]))
    /\ UNCHANGED <<trash, purged>>

\* A permanent deletion unlinks the newest file and leaves the rows as they are:
\* what it writes to tasks.json is an event.
PostDeletePermanent(r) ==
    /\ trash[r] # <<>> /\ Request("write", r, doc[r])
    /\ trash' = [trash EXCEPT ![r] = Front(@)]
    /\ purged' = purged \cup ({r} \cap PanelTask)

\* _write_trash_task_file
FileAway ==
    /\ panel.pc = "delete"
    /\ trash' = [trash EXCEPT ![panel.row] = Append(@, panel.read[panel.row])]
    /\ panel' = [panel EXCEPT !.pc = "trashed"]
    /\ UNCHANGED <<disk, doc, engine, made, purged, adrift, raced, cut>>

WriteDoc ==
    /\ panel.pc \in {"write", "trashed", "restore"}
    /\ doc' = [panel.read EXCEPT ![panel.row] = panel.new]
    /\ raced' = (raced \/ doc # panel.read)
    /\ made' = made \cup ({panel.row} \cap PanelTask)
    /\ adrift' = IF doc'[panel.row] = doc[panel.row] THEN adrift
                 ELSE adrift \cup ({panel.row} \cap EngineTask)
    /\ panel' = IF panel.pc = "restore" THEN [panel EXCEPT !.pc = "restored"] ELSE Waiting
    /\ UNCHANGED <<disk, trash, engine, purged, cut>>

\* A restored row's newest file goes.
UnlinkRestored ==
    /\ panel.pc = "restored"
    /\ trash' = [trash EXCEPT ![panel.row] = Front(@)]
    /\ panel' = Waiting
    /\ UNCHANGED <<disk, doc, engine, made, purged, adrift, raced, cut>>

\* A write or an unlink fails, or the panel dies and is started again.
PanelStops ==
    /\ panel.pc # "idle" /\ panel' = Waiting
    /\ cut' = (cut \/ panel.pc \in {"trashed", "restored"})
    /\ UNCHANGED <<disk, doc, trash, engine, made, purged, adrift, raced>>

-----------------------------------------------------------------------------

EngineStep(e) ==
    \/ Start(e) \/ CreateTask(e) \/ RunStep(e) \/ Finish(e)
    \/ \E i \in EngineTask : Run(e, i) \/ Cancel(e, i) \/ Archive(e, i) \/ Drop(e, i)
                            \/ MirrorRow(e, i)
    \/ \E s \in {"done", "simulation"} : ArchiveAll(e, s)
    \/ Truncate(e) \/ Fill(e) \/ ReadDoc(e)
    \/ MirrorFails(e) \/ SaveFails(e) \/ Die(e)

PanelStep ==
    \/ \E r \in Row : \/ PostCreate(r) \/ PostComplete(r) \/ PostDelete(r)
                      \/ PostRestore(r) \/ PostDeletePermanent(r)
    \/ FileAway \/ WriteDoc \/ UnlinkRestored \/ PanelStops

StoreNext == PanelStep \/ \E e \in Engine : EngineStep(e)

StoreSpec == StoreInit /\ [][StoreNext]_storeVars

-----------------------------------------------------------------------------
(* Properties *)

RowStates == {"none", "active", "done"}
Docs == [Row -> RowStates]
TaskRecords == [status : {"none", "pending", "running", "done", "simulation", "halted"},
                archived : BOOLEAN]
Lists == [tasks : [EngineTask -> TaskRecords], next : Nat]

\* Every variable has its type; a task that is gone keeps no flag.
StoreTypeOK ==
    /\ disk \in Lists \cup {Torn} /\ doc \in Docs
    /\ \A r \in Row : Len(trash[r]) <= MaxTrash[r] /\ Range(trash[r]) \subseteq RowStates \ {"none"}
    /\ \A e \in Engine : /\ engine[e].mem \in Lists /\ engine[e].saw \in Lists \cup {Torn}
                          /\ engine[e].todo \subseteq EngineTask
                          /\ (engine[e].run = 0) = Phase(e, "rest")
    /\ panel.pc \in {"idle", "write", "delete", "trashed", "restore", "restored"}
    /\ made \subseteq PanelTask /\ purged \subseteq made /\ adrift \subseteq EngineTask
    /\ raced \in BOOLEAN /\ cut \in BOOLEAN

\* The trash of the panel: whatever write fails, and wherever the panel stops, a
\* task that was created is listed, in the trash or deleted for good; and unless a
\* request was cut off between its two files, it is so in one place only, so that
\* what is deleted for good cannot be restored.  (Two processes that write the list
\* over each other may lose anything.)
KeptInOnePlace ==
    ~raced => \A r \in made :
        LET places == Len(trash[r]) + (IF doc[r] # "none" THEN 1 ELSE 0)
                                    + (IF r \in purged THEN 1 ELSE 0)
        IN  places >= 1 /\ (~cut /\ panel.pc = "idle" => places = 1)

\* docs/contracts/task-store-v1.md, rule 3: the user's list shows an engine task as
\* done or as active as the engine's file has it, and shows no archived or deleted
\* one, once the engine that saved it has mirrored it; unless a save or a mirror
\* was cut off, the panel has changed the row, or two have written over each other.
RowFollowsEngine ==
    ~raced /\ disk # Torn => \A i \in EngineTask \ adrift :
        \/ \E e \in Engine : engine[e].pc \in {"mirror", "mirroring"} /\ i \in engine[e].todo
        \/ LET task == disk.tasks[i]
           IN  doc[i] = CASE task.status = "none" \/ task.archived -> "none"
                          [] task.status = "done" /\ ~task.archived -> "done"
                          [] OTHER -> "active"
=============================================================================

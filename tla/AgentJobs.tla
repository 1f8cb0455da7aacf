------------------------------ MODULE AgentJobs ------------------------------
(***************************************************************************)
(* Agent jobs (agent_runner.py): threads of the bridge's process that each *)
(* patch a file of one working tree, verify and commit what the tree has   *)
(* changed, and publish a report: in agent_last.json, whose temporary file *)
(* all jobs share, in the evidence journal, and in a status file of the    *)
(* job's own.                                                              *)
(***************************************************************************)
EXTENDS Integers

CONSTANTS Job, SourceFile, NoJob, NoFile,
          MaxFaults     \* bound of a run: writes that fail, deaths of the process

ASSUME JobAssumption == NoJob \notin Job /\ NoFile \notin SourceFile /\ MaxFaults \in Nat

VARIABLES
    agentJob,       \* where each job is, what it patches and how it went
    worktree,       \* the text of each file: which job wrote it, and whether it compiles
    index,          \* what is staged
    head,           \* what is committed
    lastTmp,        \* agent_last.json.tmp is there
    statusFile,     \* agent_status_<job>.json of each job
    journal,        \* the last record of each job in the evidence journal
    unjournaled,    \* jobs of which an append to the journal failed
    committed,      \* jobs whose commit succeeded
    rewritten,      \* files that changed between a job's verification and its add
    met,            \* jobs that wrote agent_last.json while another one did
    faults

jobVars == <<agentJob, worktree, index, head, lastTmp, statusFile, journal,
             unjournaled, committed, rewritten, met, faults>>

Text == [by : Job \cup {NoJob}, compiles : BOOLEAN]
Base == [by |-> NoJob, compiles |-> TRUE]

NewJob == [at |-> "new", target |-> NoFile, named |-> FALSE, former |-> Base, changed |-> {},
          report |-> "running", blocked |-> FALSE, raised |-> FALSE]

JobInit ==
    /\ agentJob = [j \in Job |-> NewJob]
    /\ worktree = [f \in SourceFile |-> Base] /\ index = worktree /\ head = worktree
    /\ lastTmp = FALSE
    /\ statusFile = [j \in Job |-> "none"] /\ journal = [j \in Job |-> "none"]
    /\ unjournaled = {} /\ committed = {} /\ rewritten = {} /\ met = {} /\ faults = 0

JobAt(j, place) == agentJob[j].at = place
JobGoes(j, place) == agentJob' = [agentJob EXCEPT ![j].at = place]

\* A partial report and a failed one are alike.
Reports(j, report) ==
    agentJob' = [agentJob EXCEPT ![j] = [NewJob EXCEPT !.at = "bind", !.report = report]]

\* A write that fails, or a death.
Fault == faults < MaxFaults /\ faults' = faults + 1

KeepTree == UNCHANGED <<worktree, index, head, committed, rewritten>>
KeepRecords == UNCHANGED <<lastTmp, statusFile, journal, unjournaled, met>>

-----------------------------------------------------------------------------
(* The pipeline *)

\* Every phase writes "running" to the status file, the first one for all.
StartJob(j) ==
    /\ JobAt(j, "new")
    /\ \E f \in SourceFile, named \in BOOLEAN :
        agentJob' = [agentJob EXCEPT ![j].at = "patch", ![j].target = f, ![j].named = named]
    /\ statusFile' = [statusFile EXCEPT ![j] = "running"]
    /\ KeepTree /\ UNCHANGED <<lastTmp, journal, unjournaled, met, faults>>

\* The goal is risky, not approved or has no target, or the executor raises, before
\* or after its patch.
RefuseJob(j) ==
    /\ JobAt(j, "patch") \/ JobAt(j, "look")
    /\ Reports(j, "failed") /\ KeepTree /\ KeepRecords /\ UNCHANGED faults

\* Whoever has verified f and has not added it yet will add another text.
Rewrites(j, f) ==
    rewritten' = rewritten \cup
        (IF \E q \in Job \ {j} : JobAt(q, "add") /\ f \in agentJob[q].changed THEN {f} ELSE {})

\* The executor's attempt holds the file's .lock (InstructionPatches).
PatchFile(j) ==
    LET f == agentJob[j].target IN
    /\ JobAt(j, "patch") /\ ~\E q \in Job : JobAt(q, "settle") /\ agentJob[q].target = f
    /\ \E compiles \in BOOLEAN :
        worktree' = [worktree EXCEPT ![f] = [by |-> j, compiles |-> compiles]]
    /\ agentJob' = [agentJob EXCEPT ![j].at = "settle", ![j].former = worktree[f]]
    /\ Rewrites(j, f) /\ KeepRecords /\ UNCHANGED <<index, head, committed, faults>>

\* No change, or refused by the .lock or a gate: the pipeline goes on.
PatchNothing(j) == JobAt(j, "patch") /\ JobGoes(j, "look") /\ KeepTree /\ KeepRecords
                   /\ UNCHANGED faults

\* What does not compile is put back.
PatchSettles(j) ==
    LET f == agentJob[j].target IN
    /\ JobAt(j, "settle")
    /\ agentJob' = [agentJob EXCEPT ![j].at = "look", ![j].former = Base]
    /\ IF worktree[f].compiles
       THEN UNCHANGED <<worktree, rewritten>>
       ELSE worktree' = [worktree EXCEPT ![f] = agentJob[j].former] /\ Rewrites(j, f)
    /\ KeepRecords /\ UNCHANGED <<index, head, committed, faults>>

\* git diff, with and without --cached.
Uncommitted == {f \in SourceFile : worktree[f] # index[f] \/ index[f] # head[f]}

\* A goal that names its file looks at that one only.
LookAtTree(j) ==
    LET seen == {f \in Uncommitted : agentJob[j].named => f = agentJob[j].target} IN
    /\ JobAt(j, "look")
    /\ IF seen = {} THEN Reports(j, "failed")
       ELSE agentJob' = [agentJob EXCEPT ![j].at = "verify", ![j].changed = seen]
    /\ KeepTree /\ KeepRecords /\ UNCHANGED faults

VerifyFiles(j) ==
    /\ JobAt(j, "verify")
    /\ IF \A f \in agentJob[j].changed : worktree[f].compiles
       THEN JobGoes(j, "add") ELSE Reports(j, "failed")
    /\ KeepTree /\ KeepRecords /\ UNCHANGED faults

AddFile(j) ==
    /\ JobAt(j, "add")
    /\ \E f \in agentJob[j].changed :
        /\ index' = [index EXCEPT ![f] = worktree[f]]
        /\ agentJob' = [agentJob EXCEPT ![j].changed = @ \ {f},
                              ![j].at = IF agentJob[j].changed = {f} THEN "commit" ELSE "add"]
    /\ KeepRecords /\ UNCHANGED <<worktree, head, committed, rewritten, faults>>

\* A commit has no paths: it takes whatever is staged.
CommitIndex(j) ==
    /\ JobAt(j, "commit") /\ index # head
    /\ head' = index /\ committed' = committed \cup {j} /\ Reports(j, "ok")
    /\ KeepRecords /\ UNCHANGED <<worktree, index, rewritten, faults>>

\* git refuses: nothing is staged, somebody has the index's lock, a hook says no.
GitFails(j) ==
    /\ JobAt(j, "add") \/ JobAt(j, "commit")
    /\ Reports(j, "failed") /\ KeepTree /\ KeepRecords /\ UNCHANGED faults

-----------------------------------------------------------------------------
(* The report *)

\* Mutant: the status is published before the journal has the report.
FollowStatusFirst(j, place) ==
    LET order == IF agentJob[j].raised
                 THEN [journal |-> "last", replace |-> "status", status |-> "done"]
                 ELSE [replace |-> "status", status |-> "journal", journal |-> "done"]
    IN order[place]

\* What comes after each artefact, for a job that ends and for one that raised.
Follow(j, place) ==
    LET order == IF agentJob[j].raised
                 THEN [journal |-> "last", replace |-> "status", status |-> "done"]
                 ELSE [replace |-> "journal", journal |-> "status", status |-> "done"]
    IN order[place]

\* Evidence that is required and not verified makes an ok report a partial one.
BindReport(j) ==
    /\ JobAt(j, "bind")
    /\ \E blocked \in BOOLEAN :
        agentJob' = [agentJob EXCEPT ![j].at = "last", ![j].blocked = blocked,
                           ![j].report = IF blocked /\ @ = "ok" THEN "failed" ELSE @]
    /\ KeepTree /\ KeepRecords /\ UNCHANGED faults

\* A write that raises makes the job failed; the second time it is let go.
Raises(j) ==
    /\ agentJob' = [agentJob EXCEPT ![j].at = IF agentJob[j].raised THEN "done" ELSE "journal",
                          ![j].raised = TRUE, ![j].report = "failed"]
    /\ KeepTree /\ UNCHANGED <<lastTmp, statusFile, journal, unjournaled, met>>

WriteTmp(j) ==
    /\ JobAt(j, "last") /\ lastTmp' = TRUE /\ JobGoes(j, "replace")
    /\ met' = IF \E q \in Job : JobAt(q, "replace")
              THEN met \cup {j} \cup {q \in Job : JobAt(q, "replace")} ELSE met
    /\ KeepTree /\ UNCHANGED <<statusFile, journal, unjournaled, faults>>

ReplaceLast(j) ==
    /\ JobAt(j, "replace") /\ lastTmp
    /\ lastTmp' = FALSE /\ JobGoes(j, Follow(j, "replace"))
    /\ KeepTree /\ UNCHANGED <<statusFile, journal, unjournaled, met, faults>>

\* Another job has renamed the file they share.
ReplaceMissing(j) == JobAt(j, "replace") /\ ~lastTmp /\ Raises(j) /\ UNCHANGED faults

WriteRaises(j) == agentJob[j].at \in {"last", "replace", "status"} /\ Raises(j) /\ Fault

Outcome(j) == IF agentJob[j].raised \/ agentJob[j].blocked THEN "failed" ELSE "completed"

AppendJournal(j) ==
    /\ JobAt(j, "journal")
    /\ \/ /\ journal' = [journal EXCEPT ![j] = agentJob[j].report]
          /\ UNCHANGED <<unjournaled, faults>>
       \/ Fault /\ unjournaled' = unjournaled \cup {j} /\ UNCHANGED journal
    /\ JobGoes(j, Follow(j, "journal"))
    /\ KeepTree /\ UNCHANGED <<lastTmp, statusFile, met>>

PublishStatus(j) ==
    /\ JobAt(j, "status")
    /\ statusFile' = [statusFile EXCEPT ![j] = Outcome(j)]
    /\ JobGoes(j, Follow(j, "status"))
    /\ KeepTree /\ UNCHANGED <<lastTmp, journal, unjournaled, met, faults>>

\* The bridge's process ends and is started again.
BridgeDies ==
    /\ Fault
    /\ agentJob' = [j \in Job |-> IF JobAt(j, "new") THEN agentJob[j]
                             ELSE [NewJob EXCEPT !.at = "done", !.report = agentJob[j].report,
                                                !.raised = agentJob[j].raised]]
    /\ KeepTree /\ UNCHANGED <<lastTmp, statusFile, journal, unjournaled, met>>

JobNext ==
    \/ BridgeDies
    \/ \E j \in Job :
        \/ StartJob(j) \/ RefuseJob(j) \/ PatchFile(j) \/ PatchNothing(j) \/ PatchSettles(j)
        \/ LookAtTree(j) \/ VerifyFiles(j) \/ AddFile(j) \/ CommitIndex(j) \/ GitFails(j)
        \/ BindReport(j) \/ WriteTmp(j) \/ ReplaceLast(j) \/ ReplaceMissing(j)
        \/ WriteRaises(j) \/ AppendJournal(j) \/ PublishStatus(j)

JobSpec == JobInit /\ [][JobNext]_jobVars

-----------------------------------------------------------------------------
(* Properties *)

JobTypeOK ==
    /\ agentJob \in [Job -> [at : {"new", "patch", "settle", "look", "verify", "add", "commit",
                              "bind", "last", "replace", "journal", "status", "done"},
                        target : SourceFile \cup {NoFile}, named : BOOLEAN, former : Text,
                        changed : SUBSET SourceFile,
                        report : {"running", "ok", "failed"},
                        blocked : BOOLEAN, raised : BOOLEAN]]
    /\ {worktree, index, head} \subseteq [SourceFile -> Text]
    /\ lastTmp \in BOOLEAN
    /\ statusFile \in [Job -> {"none", "running", "completed", "failed"}]
    /\ journal \in [Job -> {"none", "ok", "failed"}]
    /\ {unjournaled, committed, met} \subseteq SUBSET Job
    /\ rewritten \subseteq SourceFile /\ faults \in 0 .. MaxFaults

JournalFirst ==
    \A j \in Job : statusFile[j] = "completed" =>
        j \in unjournaled \/ journal[j] = agentJob[j].report

CommittedCompiles == \A f \in SourceFile : ~head[f].compiles => f \in rewritten

FailedIsExcused == \A j \in committed : agentJob[j].raised => faults > 0 \/ j \in met

\* Who is told that a job completed finds its report in the journal, unless the append
\* failed.  A text that does not compile is committed only if its file changed between
\* a job's verification and its add.  A job that committed is recorded as failed only
\* if a write failed or another job published its report at the same time.
JobTellsTheTruth == JournalFirst /\ CommittedCompiles /\ FailedIsExcused
=============================================================================

-------------------------- MODULE EvidenceJournal --------------------------
(***************************************************************************)
(* The trace that the writes of the task files leave: the panel's          *)
(* _write_doc and the engine's save_task_store_json append a record to the *)
(* one journal before the write, and one after it or, if that fails, keep  *)
(* it in a file of its own.  Two writers of the user's task file leave no  *)
(* record: the panel asks for none when a task is deleted for good, and    *)
(* the engine's mirror has none.  An append may fail with nothing, a part  *)
(* or the whole of its line in the journal; a part has no end, and the     *)
(* next record is written behind it.                                       *)
(***************************************************************************)
EXTENDS Integers, Sequences, FiniteSets

CONSTANTS Mutator,        \* panel and engines
          MaxMutations,   \* bound of a run: writes of a task file
          MaxLapses       \* bound of a run: failing appends and writes, and deaths

ASSUME EvidenceAssumption == MaxMutations \in Nat /\ MaxLapses \in Nat

VARIABLES
    evidence,       \* evidence_continuity.jsonl, a record per line
    ragged,         \* its last line has no end
    kept,           \* records whose append has succeeded
    fallback,       \* evidence_archive/audit_fallback: mutations with a record there
    reached,        \* mutations that have reached their file
    silent,         \* mutations whose writer asks for no record
    mutator, mutations, answers, lapses

evidenceVars ==
    <<evidence, ragged, kept, fallback, reached, silent, mutator, mutations, answers, lapses>>

Settled == [at |-> "idle", op |-> 0]

EvidenceInit ==
    /\ evidence = <<>> /\ ragged = FALSE /\ kept = {} /\ fallback = {} /\ reached = {}
    /\ silent = {}
    /\ mutator = [m \in Mutator |-> Settled]
    /\ mutations = 0 /\ answers = {} /\ lapses = 0

MutatorAt(m, place) == mutator[m].at = place
Onward(m, place) == mutator' = [mutator EXCEPT ![m].at = place] /\ UNCHANGED answers
AnswerTo(m, answer) ==
    /\ answers' = answers \cup {[op |-> mutator[m].op, answer |-> answer]}
    /\ mutator' = [mutator EXCEPT ![m] = Settled]
Lapse == lapses < MaxLapses /\ lapses' = lapses + 1

\* A record that is written behind a line without an end cannot be read.
WriteRecord(m, phase, whole) ==
    /\ evidence' = Append(evidence, [op |-> mutator[m].op, phase |-> phase,
                                     legible |-> whole /\ ~ragged])
    /\ ragged' = ~whole

AppendRecord(m, phase) ==
    /\ WriteRecord(m, phase, TRUE) /\ kept' = kept \cup {<<mutator[m].op, phase>>}
    /\ UNCHANGED lapses

\* append_evidence_event returns that nothing was appended, whatever has been.
AppendLapses(m, phase) ==
    /\ Lapse /\ UNCHANGED kept
    /\ \/ UNCHANGED <<evidence, ragged>>
       \/ \E whole \in BOOLEAN : WriteRecord(m, phase, whole)

BeginMutation(m) ==
    /\ MutatorAt(m, "idle") /\ mutations < MaxMutations /\ mutations' = mutations + 1
    /\ mutator' = [mutator EXCEPT ![m] = [at |-> "before", op |-> mutations']]
    /\ UNCHANGED <<evidence, ragged, kept, fallback, reached, silent, answers, lapses>>

\* A write in the sandbox of the live task file: nothing but the error is recorded.
RefuseMutation(m) ==
    /\ MutatorAt(m, "before") /\ Onward(m, "error")
    /\ UNCHANGED <<evidence, ragged, kept, fallback, reached, silent, mutations, lapses>>

RecordBefore(m) ==
    /\ MutatorAt(m, "before") /\ AppendRecord(m, "before") /\ Onward(m, "write")
    /\ UNCHANGED <<fallback, reached, silent, mutations>>

\* Mutant: the result of the first append is not looked at.
BlockNothing(m) ==
    /\ MutatorAt(m, "before") /\ AppendLapses(m, "before") /\ Onward(m, "write")
    /\ UNCHANGED <<fallback, reached, silent, mutations>>

BlockMutation(m) ==
    /\ MutatorAt(m, "before") /\ AppendLapses(m, "before") /\ AnswerTo(m, "blocked")
    /\ UNCHANGED <<fallback, reached, silent, mutations>>

WriteTasks(m) ==
    /\ MutatorAt(m, "write") /\ reached' = reached \cup {mutator[m].op} /\ Onward(m, "after")
    /\ UNCHANGED <<evidence, ragged, kept, fallback, silent, mutations, lapses>>

\* An engine's file may be cut off then: see TaskStores.
WriteTasksFails(m) ==
    /\ MutatorAt(m, "write") /\ Lapse /\ Onward(m, "error")
    /\ UNCHANGED <<evidence, ragged, kept, fallback, reached, silent, mutations>>

\* Nobody looks whether the error was recorded.
RecordError(m) ==
    /\ MutatorAt(m, "error") /\ AnswerTo(m, "failed")
    /\ AppendRecord(m, "error") \/ AppendLapses(m, "error")
    /\ UNCHANGED <<fallback, reached, silent, mutations>>

RecordAfter(m) ==
    /\ MutatorAt(m, "after") /\ AppendRecord(m, "after") /\ AnswerTo(m, "done")
    /\ UNCHANGED <<fallback, reached, silent, mutations>>

RecordAfterFails(m) ==
    /\ MutatorAt(m, "after") /\ AppendLapses(m, "after") /\ Onward(m, "fallback")
    /\ UNCHANGED <<fallback, reached, silent, mutations>>

\* preserve_audit_fallback: the file appears under its name once it is complete.
SaveFallback(m) ==
    /\ MutatorAt(m, "fallback") /\ fallback' = fallback \cup {mutator[m].op}
    /\ AnswerTo(m, "done")
    /\ UNCHANGED <<evidence, ragged, kept, reached, silent, mutations, lapses>>

\* CompletionEvidenceError, also when only the directory could not be synchronised.
FallbackFails(m) ==
    /\ MutatorAt(m, "fallback") /\ Lapse /\ AnswerTo(m, "incomplete")
    /\ fallback' \in {fallback, fallback \cup {mutator[m].op}}
    /\ UNCHANGED <<evidence, ragged, kept, reached, silent, mutations>>

\* A write without a record, of the panel after it has removed a task for good or of the
\* engine's mirror, which answers nobody.  It is one step: all that others see is the file.
Silently(m, answer) ==
    /\ MutatorAt(m, "idle") /\ mutations < MaxMutations /\ mutations' = mutations + 1
    /\ silent' = silent \cup {mutations'}
    /\ \/ UNCHANGED answers
       \/ answers' = answers \cup {[op |-> mutations', answer |-> answer]}
    /\ UNCHANGED <<evidence, ragged, kept, fallback, mutator>>

WriteSilently(m) ==
    Silently(m, "done") /\ reached' = reached \cup {mutations'} /\ UNCHANGED lapses

SilentWriteFails(m) == Silently(m, "failed") /\ Lapse /\ UNCHANGED reached

MutatorDies(m) ==
    /\ ~MutatorAt(m, "idle") /\ mutator' = [mutator EXCEPT ![m] = Settled]
    /\ \/ AppendLapses(m, mutator[m].at) /\ mutator[m].at \in {"before", "error", "after"}
       \/ Lapse /\ UNCHANGED <<evidence, ragged, kept>>
    /\ \/ UNCHANGED fallback
       \/ MutatorAt(m, "fallback") /\ fallback' = fallback \cup {mutator[m].op}
    /\ UNCHANGED <<reached, silent, mutations, answers>>

EvidenceNext == \E m \in Mutator :
    \/ BeginMutation(m) \/ RefuseMutation(m) \/ RecordBefore(m) \/ BlockMutation(m) \/ WriteTasks(m)
    \/ WriteTasksFails(m) \/ RecordError(m) \/ RecordAfter(m) \/ RecordAfterFails(m)
    \/ SaveFallback(m) \/ FallbackFails(m) \/ MutatorDies(m)
    \/ WriteSilently(m) \/ SilentWriteFails(m)

EvidenceSpec == EvidenceInit /\ [][EvidenceNext]_evidenceVars

-----------------------------------------------------------------------------
(* Properties *)

EvidenceTypeOK ==
    /\ evidence \in Seq([op : 1 .. mutations, phase : {"before", "after", "error"},
                         legible : BOOLEAN])
    /\ ragged \in BOOLEAN /\ lapses \in 0 .. MaxLapses /\ mutations \in 0 .. MaxMutations
    /\ kept \subseteq (1 .. mutations) \X {"before", "after", "error"}
    /\ fallback \subseteq reached /\ reached \subseteq 1 .. mutations
    /\ silent \subseteq 1 .. mutations
    /\ mutator \in [Mutator -> [at : {"idle", "before", "write", "error", "after", "fallback"},
                                op : 0 .. mutations]]
    /\ answers \subseteq [op : 1 .. mutations,
                          answer : {"blocked", "failed", "done", "incomplete"}]

\* read_recent_evidence_events
Legible == {<<evidence[i].op, evidence[i].phase>> : i \in {j \in DOMAIN evidence : evidence[j].legible}}

Completed(op) == <<op, "after">> \in kept \/ op \in fallback

Answered(answer) == {a.op : a \in {b \in answers : b.answer = answer}}

\* No write that asks for a record reaches its file before that record is in the journal,
\* while those of the mirror and of a deletion for good leave none; a record of a completed
\* write, in the journal or beside it, is of a write that happened; who is told that all is
\* well has both, unless none was asked for, and who is told that the evidence is
\* incomplete, or that the write failed, has what he is told; and a line without an end
\* hides one record at most.
EvidenceTellsTheTruth ==
    /\ \A op \in reached \ silent : <<op, "before">> \in kept
    /\ {op \in 1 .. mutations : <<op, "after">> \in Legible} \subseteq reached
    /\ \A op \in Answered("done") : op \in reached /\ (Completed(op) \/ op \in silent)
    /\ Answered("incomplete") \subseteq reached
    /\ reached \cap (Answered("blocked") \cup Answered("failed")) = {}
    /\ Cardinality(kept \ Legible) <= lapses
=============================================================================

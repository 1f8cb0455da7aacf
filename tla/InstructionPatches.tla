------------------------- MODULE InstructionPatches -------------------------
(***************************************************************************)
(* One file of the repository and the threads that patch it: instruction   *)
(* goals (kando/cursor_bridge.py), which hold a .lock file beside it, the  *)
(* task engine's patch steps (executors/patch_apply_executor.py), which do *)
(* not, and ROLLBACK_LAST, which does not either.  Both patch through      *)
(* core/patch_pipeline.py and the in-process lock of patch_transaction.py. *)
(*                                                                         *)
(* A step is one read or one write of the file.  Its text is a sequence of *)
(* marks, so that one can tell whose patches it holds.  An "insert" puts a *)
(* mark before the text its attempt has read, a "touch" behind the text    *)
(* that was read before its first attempt (and "dry" is a touch that only  *)
(* previews), a "replace" gives the whole text.  Goals of two files are    *)
(* sequences of these; policy gates refuse a goal before it begins.        *)
(***************************************************************************)
EXTENDS Integers, Sequences

CONSTANTS
    Patcher,        \* threads of one process
    NoOne,
    MaxGoals        \* bound of a run

ASSUME PatchAssumption == NoOne \notin Patcher /\ MaxGoals \in Nat

VARIABLES
    target,         \* the file
    lockFile,       \* its .lock
    memory,         \* the last row about it in patch_memory.sqlite
    rolling,        \* _is_rollback
    holder,         \* who holds the lock of patch_transaction
    job,            \* what a thread does
    goals           \* how many have begun

patchVars == <<target, lockFile, memory, rolling, holder, job, goals>>

BridgeGoal == {"insert", "touch", "dry", "replace"}
EngineGoal == {"engine insert", "engine replace"}
Composed == {"touch", "dry"}

Missing == [exists |-> FALSE, text |-> <<>>]
Holding(s) == [exists |-> TRUE, text |-> s]
Forgotten == [known |-> FALSE, was |-> Missing]

\* crossed: somebody changed the file between the read an attempt works from and its
\* lock, or wrote to it without the lock while the attempt held it.
Resting == [pc |-> "rest", goal |-> "none", tries |-> 0, body |-> <<>>, found |-> Missing,
            original |-> <<>>, proposed |-> <<>>, result |-> "none", crossed |-> FALSE]

\* The patch memory outlives the process and may have a row of an earlier one.
PatchInit ==
    /\ target \in {Missing, Holding(<<"base">>)}
    /\ lockFile = FALSE
    /\ memory \in {Forgotten, [known |-> TRUE, was |-> Holding(<<"old">>)]}
    /\ rolling = FALSE /\ holder = NoOne
    /\ job = [t \in Patcher |-> Resting] /\ goals = 0

Pc(t) == job[t].pc
Bridge(t) == job[t].goal \in BridgeGoal
KeepTarget == UNCHANGED <<target, lockFile, memory, rolling, holder, goals>>

\* What holds the .lock: a bridge's attempt until it has removed it.
InsideLock(t) == Bridge(t) /\ Pc(t) \notin {"rest", "find", "lock"}

Now(t, record) == job' = [job EXCEPT ![t] = record]
GoesTo(t, place) == Now(t, [job[t] EXCEPT !.pc = place])
Conclude(t, r) ==
    Now(t, IF Bridge(t) THEN [job[t] EXCEPT !.pc = "unlock", !.result = r] ELSE Resting)

\* A write without the lock crosses every attempt that holds it.
NowCrossing(t, place) ==
    job' = [o \in Patcher |->
                IF o = t THEN [job[o] EXCEPT !.pc = place]
                ELSE IF InsideLock(o) THEN [job[o] EXCEPT !.crossed = TRUE] ELSE job[o]]

-----------------------------------------------------------------------------
(* A patch *)

\* A bridge goal is refused while the flag is up; the engine does not look at it.
Begin(t, g) ==
    /\ Pc(t) = "rest" /\ goals < MaxGoals
    /\ g \in BridgeGoal => ~rolling
    /\ g \in Composed => target.exists
    /\ Now(t, [job[t] EXCEPT !.pc = "find", !.goal = g,
               !.body = IF g \in Composed THEN Append(target.text, t) ELSE <<t>>])
    /\ goals' = goals + 1
    /\ UNCHANGED <<target, lockFile, memory, rolling, holder>>

\* previous_text is read before the lock is taken.
Find(t) ==
    /\ Pc(t) = "find"
    /\ Now(t, [job[t] EXCEPT !.pc = IF Bridge(t) THEN "lock" ELSE "propose", !.found = target])
    /\ KeepTarget

\* The former text goes into the patch memory whatever becomes of the patch, unless the
\* memory fails.
Remember(t) ==
    LET cross == \/ job[t].found # target
                 \/ job[t].goal \in Composed /\ job[t].body # Append(target.text, t)
    IN  \/ /\ memory' = [known |-> TRUE, was |-> job[t].found]
           /\ Now(t, [job[t] EXCEPT !.pc = "propose", !.crossed = cross])
        \/ /\ Now(t, [job[t] EXCEPT !.pc = "unlock", !.result = "failed", !.crossed = cross])
           /\ UNCHANGED memory

\* Mutant: touch(exist_ok=True).
TakeAnyLock(t) ==
    /\ Pc(t) = "lock"
    /\ lockFile' = TRUE /\ Remember(t)
    /\ UNCHANGED <<target, rolling, holder, goals>>

TakeLock(t) ==
    /\ Pc(t) = "lock" /\ ~lockFile
    /\ lockFile' = TRUE /\ Remember(t)
    /\ UNCHANGED <<target, rolling, holder, goals>>

FindLocked(t) == Pc(t) = "lock" /\ lockFile /\ Now(t, Resting) /\ KeepTarget

Propose(t) ==
    /\ Pc(t) = "propose"
    /\ Now(t, [job[t] EXCEPT !.pc = "validate", !.original = target.text,
               !.proposed = IF job[t].goal \in {"insert", "engine insert"}
                            THEN job[t].body \o job[t].found.text ELSE job[t].body])
    /\ KeepTarget

\* The file has changed since the proposal; it was only to be shown; it holds the text
\* already, and verifies or not; its risk is high; or the patch goes ahead.
Validate(t) ==
    /\ Pc(t) = "validate"
    /\ LET same == job[t].proposed = job[t].found.text
       IN  \/ target.text # job[t].original /\ Conclude(t, "failed")
           \/ /\ target.text = job[t].original /\ Bridge(t)
              /\ \/ job[t].goal = "dry" /\ Conclude(t, "shown")
                 \/ job[t].goal # "dry" /\ same /\ \E r \in {"no change", "failed"} : Conclude(t, r)
                 \/ job[t].goal # "dry" /\ ~same /\ Conclude(t, "blocked")
           \/ /\ target.text = job[t].original
              /\ Bridge(t) => job[t].goal # "dry" /\ ~same
              /\ GoesTo(t, "check")
    /\ KeepTarget

\* apply_with_transaction compares once more; a conflict is recorded, and it returns.
CheckAgain(t) ==
    /\ Pc(t) = "check" /\ holder = NoOne
    /\ IF target.text = job[t].original
       THEN holder' = t /\ GoesTo(t, "write")
       ELSE UNCHANGED holder /\ GoesTo(t, IF Bridge(t) THEN "recheck" ELSE "verify")
    /\ UNCHANGED <<target, lockFile, memory, rolling, goals>>

WritePatch(t) ==
    /\ Pc(t) = "write" /\ holder' = NoOne
    /\ \/ /\ target' = Holding(job[t].proposed)
          /\ IF Bridge(t) THEN GoesTo(t, "recheck") ELSE NowCrossing(t, "verify")
       \/ UNCHANGED target /\ Conclude(t, "failed")
    /\ UNCHANGED <<lockFile, memory, rolling, goals>>

RecheckFile(t) ==
    /\ Pc(t) = "recheck"
    /\ GoesTo(t, IF target.text = job[t].proposed THEN "verify" ELSE "force")
    /\ KeepTarget

\* _atomic_write_text_utf8, over whatever the conflict was about.
ForceWrite(t) ==
    /\ Pc(t) = "force"
    /\ \/ target' = Holding(job[t].proposed) /\ GoesTo(t, "verify")
       \/ UNCHANGED target /\ GoesTo(t, "restore")
    /\ UNCHANGED <<lockFile, memory, rolling, holder, goals>>

\* What does not verify is taken back by the bridge and stays with the engine.
Verify(t) ==
    /\ Pc(t) = "verify"
    /\ \/ Conclude(t, "applied")
       \/ IF Bridge(t) THEN GoesTo(t, "restore") ELSE Now(t, Resting)
    /\ KeepTarget

\* rollback_patch_file with the text read before the lock; it may fail.
Restore(t) ==
    /\ Pc(t) = "restore"
    /\ \/ target' = job[t].found /\ Conclude(t, "failed")
       \/ UNCHANGED target /\ Conclude(t, "stuck")
    /\ UNCHANGED <<lockFile, memory, rolling, holder, goals>>

\* Out of time: before the lock, before the write, or after it, when the text stays.
OutOfTime(t) ==
    /\ Bridge(t)
    /\ \/ Pc(t) = "lock" /\ Now(t, Resting)
       \/ Pc(t) \in {"validate", "verify"} /\ Conclude(t, "timeout")
    /\ KeepTarget

\* A failure that was neither a timeout nor a block is tried once more.
Unlock(t) ==
    /\ Pc(t) = "unlock" /\ lockFile' = FALSE
    /\ IF job[t].result \in {"failed", "stuck"} /\ job[t].tries = 0
       THEN Now(t, [Resting EXCEPT !.pc = "find", !.tries = 1, !.goal = job[t].goal,
                                   !.body = job[t].body])
       ELSE Now(t, Resting)
    /\ UNCHANGED <<target, memory, rolling, holder, goals>>

-----------------------------------------------------------------------------
(* ROLLBACK_LAST *)

Inside == {"recall", "revert", "forget", "resume"}

BeginRollback(t) ==
    /\ Pc(t) = "rest" /\ goals < MaxGoals
    /\ rolling' = TRUE /\ goals' = goals + 1
    /\ Now(t, [job[t] EXCEPT !.pc = "recall", !.goal = "rollback"])
    /\ UNCHANGED <<target, lockFile, memory, holder>>

\* Without a row there is nothing to do; a row without a text is dropped.
Recall(t) ==
    /\ Pc(t) = "recall"
    /\ IF memory.was.exists
       THEN Now(t, [job[t] EXCEPT !.pc = "revert", !.found = memory.was]) /\ UNCHANGED memory
       ELSE GoesTo(t, "resume") /\ memory' = Forgotten
    /\ UNCHANGED <<target, lockFile, rolling, holder, goals>>

Revert(t) ==
    /\ Pc(t) = "revert"
    /\ \/ target' = job[t].found /\ NowCrossing(t, "forget")
       \/ UNCHANGED target /\ GoesTo(t, "resume")
    /\ UNCHANGED <<lockFile, memory, rolling, holder, goals>>

Forget(t) ==
    /\ Pc(t) = "forget" /\ memory' = Forgotten /\ GoesTo(t, "resume")
    /\ UNCHANGED <<target, lockFile, rolling, holder, goals>>

Resume(t) ==
    /\ Pc(t) = "resume" /\ rolling' = FALSE /\ Now(t, Resting)
    /\ UNCHANGED <<target, lockFile, memory, holder, goals>>

-----------------------------------------------------------------------------

\* The process dies: its flag and its locks go, the .lock file stays.
ProcessDies ==
    /\ \E t \in Patcher : Pc(t) # "rest"
    /\ job' = [t \in Patcher |-> Resting] /\ rolling' = FALSE /\ holder' = NoOne
    /\ UNCHANGED <<target, lockFile, memory, goals>>

PatchNext ==
    \/ \E t \in Patcher :
        \/ \E g \in BridgeGoal \cup EngineGoal : Begin(t, g)
        \/ Find(t) \/ TakeLock(t) \/ FindLocked(t) \/ Propose(t) \/ Validate(t)
        \/ CheckAgain(t) \/ WritePatch(t) \/ RecheckFile(t) \/ ForceWrite(t) \/ Verify(t)
        \/ Restore(t) \/ OutOfTime(t) \/ Unlock(t)
        \/ BeginRollback(t) \/ Recall(t) \/ Revert(t) \/ Forget(t) \/ Resume(t)
    \/ ProcessDies

PatchSpec == PatchInit /\ [][PatchNext]_patchVars

-----------------------------------------------------------------------------
(* Properties *)

Texts(s) == s \in Seq(Patcher \cup {"old", "base"})

PatchTypeOK ==
    /\ target.exists \in BOOLEAN /\ Texts(target.text)
    /\ lockFile \in BOOLEAN /\ rolling \in BOOLEAN
    /\ holder \in Patcher \cup {NoOne}
    /\ memory.known \in BOOLEAN /\ Texts(memory.was.text)
    /\ \A t \in Patcher :
        /\ DOMAIN job[t] = DOMAIN Resting
        /\ Texts(job[t].body) /\ Texts(job[t].proposed) /\ Texts(job[t].found.text)

\* An attempt under the .lock is all or nothing, with every other thread at work and
\* failures at each write: reported as applied, the file holds the text proposed, and
\* that keeps whatever patch the file held, unless the goal was to replace it; reported
\* as failed, blocked or only shown, the file is as it was found.  It is not so for an
\* attempt that was crossed: the code reads the former text before it takes the lock,
\* and rollbacks and the task engine take none.
AttemptIsWhole ==
    \A t \in Patcher : Pc(t) = "unlock" /\ ~job[t].crossed =>
        /\ job[t].result \in {"failed", "blocked", "shown", "no change"} => target = job[t].found
        /\ job[t].result = "applied" =>
            /\ target = Holding(job[t].proposed)
            /\ job[t].goal # "replace" =>
                \A i \in DOMAIN job[t].found.text :
                    \E n \in DOMAIN target.text : target.text[n] = job[t].found.text[i]

\* While a rollback is under way no bridge goal begins to patch (the comment on
\* _is_rollback): violated, because the flag is one for all rollbacks and the first one
\* that ends takes it down.
PatchWaitsForRollback ==
    [][\A t, o \in Patcher :
        Pc(t) = "rest" /\ job'[t].pc = "find" /\ job'[t].goal \in BridgeGoal => Pc(o) \notin Inside
      ]_patchVars
=============================================================================

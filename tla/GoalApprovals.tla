---------------------------- MODULE GoalApprovals ----------------------------
(***************************************************************************)
(* High-risk goals that wait for APPROVE or REJECT (cursor_bridge.py).     *)
(* Each process keeps the waiting goals in a table of its own, takes in    *)
(* what the shared file has before it looks, and writes its whole table    *)
(* over the file after a change.  Where confirmations are enabled, a goal  *)
(* also has a confirmation, which is used up after the goal was applied    *)
(* (confirmation_policy.py).  Processes start at any time, and end at any: *)
(* some serve one instruction, some stay.                                  *)
(***************************************************************************)
EXTENDS Integers

CONSTANTS Runner,       \* processes
          Goal,         \* high-risk goals
          NoGoal,
          MaxAsked      \* bound of a run: instructions

ASSUME GoalAssumption == NoGoal \notin Goal /\ MaxAsked \in Nat

VARIABLES
    confirming,     \* LUMOS_CONFIRMATION_ENABLED
    asked,          \* how many instructions there were
    registered,     \* goals that were set aside for approval
    goalFile,       \* pending_approvals.json: a set of goals, or cut off
    table,          \* _PENDING_APPROVALS of each process
    runner,         \* where each process is
    used,           \* goals whose confirmation is used up or has expired
    applied,        \* how often each goal was applied
    rejected,       \* goals that a REJECT has found
    echoed,         \* goals of which a copy may be left though they were taken
    overlapped      \* goals approved twice at a time, or whose confirmation stayed

goalVars == <<confirming, asked, registered, goalFile, table, runner, used, applied,
              rejected, echoed, overlapped>>

CutOff == {NoGoal}
Quiet == [at |-> "quiet", goal |-> NoGoal, next |-> "quiet", tries |-> 0]

GoalInit ==
    /\ confirming \in BOOLEAN /\ asked = 0 /\ registered = {} /\ goalFile = {}
    /\ table = [p \in Runner |-> {}] /\ runner = [p \in Runner |-> Quiet]
    /\ used = {} /\ applied = [g \in Goal |-> 0] /\ rejected = {}
    /\ echoed = {} /\ overlapped = {}

IsAt(p, place) == runner[p].at = place
Proceeds(p, place) == runner' = [runner EXCEPT ![p].at = place]
SavesAnd(p, place) == runner' = [runner EXCEPT ![p].at = "save", ![p].next = place]

\* A file that does not parse is taken for an empty one.
OnDisk == IF goalFile = CutOff THEN {} ELSE goalFile

\* The process has taken its goal, and the file may not show it yet.
TakenUnsaved(q) == IsAt(q, "save") /\ runner[q].goal \notin table[q]

\* What p takes in that somebody else has just taken.
Copied(p) == {runner[q].goal : q \in {r \in Runner \ {p} : TakenUnsaved(r)}} \cap OnDisk

-----------------------------------------------------------------------------
(* An instruction: what a process looks up and takes *)

AskGoal(p) ==
    /\ IsAt(p, "quiet") /\ asked < MaxAsked /\ asked' = asked + 1
    /\ \E g \in Goal, what \in {"register", "approve", "reject"} :
        /\ what = "register" <=> g \notin registered
        /\ runner' = [runner EXCEPT ![p] = [at |-> what, goal |-> g, next |-> "quiet",
                                            tries |-> 1]]
        /\ registered' = registered \cup {g}
    /\ UNCHANGED <<confirming, goalFile, table, used, applied, rejected, echoed,
                   overlapped>>

Register(p) ==
    /\ IsAt(p, "register") /\ SavesAnd(p, "quiet")
    /\ table' = [table EXCEPT ![p] = @ \cup OnDisk \cup {runner[p].goal}]
    /\ echoed' = echoed \cup Copied(p)
    /\ UNCHANGED <<confirming, asked, registered, goalFile, used, applied, rejected,
                   overlapped>>

FindNothing(p) ==
    /\ IsAt(p, "approve") \/ IsAt(p, "reject")
    /\ runner[p].goal \notin table[p] \cup OnDisk
    /\ table' = [table EXCEPT ![p] = @ \cup OnDisk]
    /\ echoed' = echoed \cup Copied(p)
    /\ Proceeds(p, IF IsAt(p, "approve") THEN "again" ELSE "quiet")
    /\ UNCHANGED <<confirming, asked, registered, goalFile, used, applied, rejected,
                   overlapped>>

\* An APPROVE that has found nothing, or was denied, is tried a second time.
LookAgain(p) ==
    /\ IsAt(p, "again")
    /\ runner' = [runner EXCEPT ![p].at = IF runner[p].tries < 2 THEN "approve" ELSE "quiet",
                                ![p].tries = 2]
    /\ UNCHANGED <<confirming, asked, registered, goalFile, table, used, applied, rejected,
                   echoed, overlapped>>

\* Mutant: the table is not saved before the goal is applied.
TakeGoalUnsaved(p) ==
    LET g == runner[p].goal IN
    /\ IsAt(p, "approve") \/ IsAt(p, "reject")
    /\ g \in table[p] \cup OnDisk
    /\ table' = [table EXCEPT ![p] = (@ \cup OnDisk) \ {g}]
    /\ echoed' = echoed \cup Copied(p)
                 \cup IF \E q \in Runner \ {p} : g \in table[q] THEN {g} ELSE {}
    /\ rejected' = IF IsAt(p, "reject") THEN rejected \cup {g} ELSE rejected
    /\ Proceeds(p, IF IsAt(p, "approve") THEN "taken" ELSE "quiet")
    /\ UNCHANGED <<confirming, asked, registered, goalFile, used, applied, overlapped>>

\* The goal leaves the table, and the table is saved before anything is done with it.
TakeGoal(p) ==
    LET g == runner[p].goal IN
    /\ IsAt(p, "approve") \/ IsAt(p, "reject")
    /\ g \in table[p] \cup OnDisk
    /\ table' = [table EXCEPT ![p] = (@ \cup OnDisk) \ {g}]
    /\ echoed' = echoed \cup Copied(p)
                 \cup IF \E q \in Runner \ {p} : g \in table[q] THEN {g} ELSE {}
    /\ rejected' = IF IsAt(p, "reject") THEN rejected \cup {g} ELSE rejected
    /\ SavesAnd(p, IF IsAt(p, "approve") THEN "taken" ELSE "quiet")
    /\ UNCHANGED <<confirming, asked, registered, goalFile, used, applied, overlapped>>

-----------------------------------------------------------------------------
(* The save of a table *)

EmptyFile(p) ==
    /\ IsAt(p, "save") /\ goalFile' = CutOff /\ Proceeds(p, "saving")
    /\ UNCHANGED <<confirming, asked, registered, table, used, applied, rejected, echoed,
                   overlapped>>

FillFile(p) ==
    /\ IsAt(p, "saving") /\ goalFile' = table[p] /\ Proceeds(p, runner[p].next)
    /\ UNCHANGED <<confirming, asked, registered, table, used, applied, rejected, echoed,
                   overlapped>>

\* A save that fails is passed over in silence.
SaveGoalsFails(p) ==
    /\ IsAt(p, "save") \/ IsAt(p, "saving")
    /\ Proceeds(p, runner[p].next)
    /\ echoed' = IF TakenUnsaved(p) THEN echoed \cup {runner[p].goal} ELSE echoed
    /\ UNCHANGED <<confirming, asked, registered, goalFile, table, used, applied, rejected,
                   overlapped>>

-----------------------------------------------------------------------------
(* What is done with an approved goal *)

PutBack(p, place) ==
    /\ table' = [table EXCEPT ![p] = @ \cup {runner[p].goal}] /\ SavesAnd(p, place)
    /\ UNCHANGED <<confirming, asked, registered, goalFile, used, applied, rejected, echoed,
                   overlapped>>

ConfirmGoal(p) ==
    LET g == runner[p].goal IN
    /\ IsAt(p, "taken") /\ (confirming => g \notin used)
    /\ overlapped' = IF \E q \in Runner \ {p} :
                            runner[q].goal = g /\ runner[q].at \in {"apply", "consume"}
                     THEN overlapped \cup {g} ELSE overlapped
    /\ Proceeds(p, "apply")
    /\ UNCHANGED <<confirming, asked, registered, goalFile, table, used, applied, rejected,
                   echoed>>

DenyGoal(p) == IsAt(p, "taken") /\ confirming /\ runner[p].goal \in used /\ PutBack(p, "again")

\* The force of the approval passes the gates; what is applied has been modelled
\* in InstructionPatches.
ApplyGoal(p) ==
    /\ IsAt(p, "apply") /\ Proceeds(p, IF confirming THEN "consume" ELSE "quiet")
    /\ applied' = [applied EXCEPT ![runner[p].goal] = @ + 1]
    /\ UNCHANGED <<confirming, asked, registered, goalFile, table, used, rejected, echoed,
                   overlapped>>

ApplyFails(p) == IsAt(p, "apply") /\ PutBack(p, "quiet")

ApplyRaises(p) ==
    /\ IsAt(p, "apply") /\ Proceeds(p, "quiet")
    /\ UNCHANGED <<confirming, asked, registered, goalFile, table, used, applied, rejected,
                   echoed, overlapped>>

ConsumeConfirmation(p) ==
    /\ IsAt(p, "consume") /\ Proceeds(p, "quiet")
    /\ \/ used' = used \cup {runner[p].goal} /\ UNCHANGED overlapped
       \/ UNCHANGED used /\ overlapped' = overlapped \cup {runner[p].goal}
    /\ UNCHANGED <<confirming, asked, registered, goalFile, table, applied, rejected, echoed>>

ConfirmationExpires ==
    /\ confirming /\ \E g \in registered \ used : used' = used \cup {g}
    /\ UNCHANGED <<confirming, asked, registered, goalFile, table, runner, applied, rejected,
                   echoed, overlapped>>

\* A process ends, wherever it is, and another may start in its place.
RunnerEnds(p) ==
    LET g == runner[p].goal IN
    /\ IsAt(p, "quiet") => table[p] # {}
    /\ runner' = [runner EXCEPT ![p] = Quiet] /\ table' = [table EXCEPT ![p] = {}]
    /\ echoed' = IF TakenUnsaved(p) THEN echoed \cup {g} ELSE echoed
    /\ overlapped' = IF IsAt(p, "consume") THEN overlapped \cup {g} ELSE overlapped
    /\ UNCHANGED <<confirming, asked, registered, goalFile, used, applied, rejected>>

GoalNext ==
    \/ ConfirmationExpires
    \/ \E p \in Runner :
        \/ AskGoal(p) \/ Register(p) \/ FindNothing(p) \/ LookAgain(p) \/ TakeGoal(p)
        \/ EmptyFile(p) \/ FillFile(p) \/ SaveGoalsFails(p)
        \/ ConfirmGoal(p) \/ DenyGoal(p) \/ ApplyGoal(p) \/ ApplyFails(p) \/ ApplyRaises(p)
        \/ ConsumeConfirmation(p) \/ RunnerEnds(p)

GoalSpec == GoalInit /\ [][GoalNext]_goalVars

-----------------------------------------------------------------------------
(* Properties *)

GoalPlaces == {"quiet", "register", "approve", "reject", "again", "save", "saving", "taken",
               "apply", "consume"}

GoalTypeOK ==
    /\ confirming \in BOOLEAN /\ asked \in 0 .. MaxAsked
    /\ {registered, used, rejected, echoed, overlapped} \subseteq SUBSET Goal
    /\ goalFile \in (SUBSET Goal) \cup {CutOff}
    /\ table \in [Runner -> SUBSET registered]
    /\ runner \in [Runner -> [at : GoalPlaces, goal : Goal \cup {NoGoal}, next : GoalPlaces,
                              tries : 0 .. 2]]
    /\ applied \in [Goal -> Nat]

\* A goal is applied again, or applied though it was rejected, only if another process had
\* it in its table when it was taken, read the file before that was saved, or the save
\* failed; and under confirmations it is applied again only if, besides, two applications
\* of it overlapped or the first did not get to use its confirmation up.
GoalIsDecidedOnce ==
    \A g \in Goal :
        /\ applied[g] > 1 => g \in echoed /\ (confirming => g \in overlapped)
        /\ applied[g] > 0 /\ g \in rejected => g \in echoed
=============================================================================

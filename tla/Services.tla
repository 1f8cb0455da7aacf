------------------------------ MODULE Services ------------------------------
(***************************************************************************)
(* The parts that keep state of their own beside the board: the claim      *)
(* store's two files, the bridge's approvals, the two task files, the      *)
(* payment bridge, the store of founder approvals, the patches of a file,  *)
(* the goals that wait for an approval, the jobs of agents, the watcher    *)
(* that locks the device, the interpreter's voice in a meeting, the        *)
(* evidence of task writes and the moves into the trash.  They share no    *)
(* state, so a behaviour is one of one of them, chosen at the start, and a *)
(* run explores each on its own.                                           *)
(***************************************************************************)
EXTENDS ClaimJournal, PendingApprovals, TaskStores, PaymentApproval, FounderApprovals,
    InstructionPatches, GoalApprovals, AgentJobs, PresenceLock, Interpreter, EvidenceJournal,
    TrashMove

VARIABLE service

servicesVars == <<service, journalVars, vars, storeVars, paymentVars, founderVars, patchVars,
                  goalVars, jobVars, presenceVars, interpreterVars, evidenceVars, trashVars>>

ServicesInit ==
    /\ service \in {"journal", "approvals", "tasks", "payment", "founder", "patches", "goals",
                    "jobs", "presence", "interpreter", "evidence", "trash"}
    /\ JournalInit
    /\ Init /\ (service # "approvals" => kind = "pc")
    /\ StoreInit /\ PaymentInit /\ FounderInit /\ PatchInit /\ GoalInit /\ JobInit
    /\ PresenceInit
    /\ service # "patches" => target = Missing /\ memory = Forgotten
    /\ service # "goals" => ~confirming
    /\ service # "presence" => ~enabled
    /\ InterpreterInit /\ EvidenceInit /\ TrashInit

ServicesNext ==
    /\ UNCHANGED service
    /\ \/ /\ service = "journal" /\ JournalNext
          /\ UNCHANGED <<vars, storeVars, paymentVars, founderVars, patchVars,
                         goalVars, jobVars, presenceVars, interpreterVars, evidenceVars, trashVars>>
       \/ /\ service = "approvals" /\ Next
          /\ UNCHANGED <<journalVars, storeVars, paymentVars, founderVars, patchVars,
                         goalVars, jobVars, presenceVars, interpreterVars, evidenceVars, trashVars>>
       \/ /\ service = "tasks" /\ StoreNext
          /\ UNCHANGED <<journalVars, vars, paymentVars, founderVars, patchVars,
                         goalVars, jobVars, presenceVars, interpreterVars, evidenceVars, trashVars>>
       \/ /\ service = "payment" /\ PaymentNext
          /\ UNCHANGED <<journalVars, vars, storeVars, founderVars, patchVars,
                         goalVars, jobVars, presenceVars, interpreterVars, evidenceVars, trashVars>>
       \/ /\ service = "founder" /\ FounderNext
          /\ UNCHANGED <<journalVars, vars, storeVars, paymentVars, patchVars,
                         goalVars, jobVars, presenceVars, interpreterVars, evidenceVars, trashVars>>
       \/ /\ service = "patches" /\ PatchNext
          /\ UNCHANGED <<journalVars, vars, storeVars, paymentVars, founderVars,
                         goalVars, jobVars, presenceVars, interpreterVars, evidenceVars, trashVars>>
       \/ /\ service = "goals" /\ GoalNext
          /\ UNCHANGED <<journalVars, vars, storeVars, paymentVars, founderVars,
                         patchVars, jobVars, presenceVars, interpreterVars, evidenceVars, trashVars>>
       \/ /\ service = "jobs" /\ JobNext
          /\ UNCHANGED <<journalVars, vars, storeVars, paymentVars, founderVars,
                         patchVars, goalVars, presenceVars, interpreterVars, evidenceVars, trashVars>>
       \/ /\ service = "presence" /\ PresenceNext
          /\ UNCHANGED <<journalVars, vars, storeVars, paymentVars, founderVars,
                         patchVars, goalVars, jobVars, interpreterVars, evidenceVars, trashVars>>
       \/ /\ service = "interpreter" /\ InterpreterNext
          /\ UNCHANGED <<journalVars, vars, storeVars, paymentVars, founderVars,
                         patchVars, goalVars, jobVars, presenceVars, evidenceVars, trashVars>>
       \/ /\ service = "evidence" /\ EvidenceNext
          /\ UNCHANGED <<journalVars, vars, storeVars, paymentVars, founderVars, patchVars,
                         goalVars, jobVars, presenceVars, interpreterVars, trashVars>>
       \/ /\ service = "trash" /\ TrashNext
          /\ UNCHANGED <<journalVars, vars, storeVars, paymentVars, founderVars, patchVars,
                         goalVars, jobVars, presenceVars, interpreterVars, evidenceVars>>

ServicesSpec == ServicesInit /\ [][ServicesNext]_servicesVars

\* The variables of a service have their types; those of the others stay as they began.
ServicesTypeOK ==
    /\ service = "journal" => JournalTypeOK
    /\ service = "approvals" => TypeOK
    /\ service = "tasks" => StoreTypeOK
    /\ service = "payment" => PaymentTypeOK
    /\ service = "founder" => FounderTypeOK
    /\ service = "patches" => PatchTypeOK
    /\ service = "goals" => GoalTypeOK
    /\ service = "jobs" => JobTypeOK
    /\ service = "presence" => PresenceTypeOK
    /\ service = "interpreter" => InterpreterTypeOK
    /\ service = "evidence" => EvidenceTypeOK
    /\ service = "trash" => TrashTypeOK
=============================================================================

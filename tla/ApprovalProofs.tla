---------------------------- MODULE ApprovalProofs ----------------------------
(***************************************************************************)
(* What the services that ask for an approval keep, whatever their clients *)
(* and threads do: the bridge's approval record, the payment bridge, the   *)
(* store of founder approvals and the goals that wait for an approval.     *)
(***************************************************************************)
EXTENDS PendingApprovals, PaymentApproval, FounderApprovals, GoalApprovals,
    FiniteSetTheorems, SequenceTheorems, TLAPS

-----------------------------------------------------------------------------
(* One approval record and the threads that serve requests about it *)

\* The record that a thread has read is there, and what it is about to do was decided
\* on it.
CopiesMatch ==
    \A t \in Thread :
        LET rec == call[t].rec
        IN  /\ call[t].pc \in {"approve", "reject", "approving", "rejecting"}
                    => rec \notin {Unmade, Gone} /\ ~rec.used
            /\ call[t].pc = "consume" => rec = Approved
            /\ call[t].pc \in {"gate", "lock", "locked", "consume", "approving", "rejecting",
                            "approved"}
                    => kind = "pc"

\* The sidecar lock of the consumption.
OneConsumes == \A t, u \in Thread : Locked(t) /\ Locked(u) => t = u

Executing == {t \in Thread : At(t, "execute")}

\* Executions that were, or are about to be.
Spent == runs + Cardinality(Executing)

\* The record can still be executed: it says so, or who has the lock has seen it say so.
Ready1 == file = Approved \/ \E t \in Thread : Locked(t) /\ call[t].rec = Approved

Count(b) == IF b THEN 1 ELSE 0

\* What is executed was approved before, once for each time; and if nobody has written
\* over a record that he had not read, only a record that was never used is left to
\* execute; a legacy record has its file until it is executed.
Ledger ==
    /\ IsFiniteSet(Executing)
    /\ kind = "pc" => Spent + Count(Ready1) <= opened
    /\ kind = "pc" /\ ~lost => Spent + Count(file \notin {Used, Gone}) <= 1
    /\ kind = "legacy" => Spent + Count(file # Gone) <= 1

ApprovalInv == TypeOK /\ CopiesMatch /\ OneConsumes /\ Ledger

LEMMA RecordValues ==
    /\ {Unmade, Gone, Pending, Approved, Used, Expired} \subseteq Records
    /\ ~Unmade.used /\ ~Gone.used /\ ~Pending.used /\ ~Approved.used /\ Used.used
    /\ ~Expired.used
    /\ Approved \notin {Used, Gone, Unmade, Pending, Expired}
    /\ Pending \notin {Used, Gone, Unmade} /\ Unmade \notin {Used, Gone}
    /\ Gone # Used
    /\ \A s : Record(s, FALSE) # Used /\ Record(s, FALSE).used = FALSE
  BY DEF Unmade, Gone, Pending, Approved, Used, Expired, Record, Records

\* What one thread does with its own entry.
LEMMA OneThread ==
    ASSUME TypeOK, NEW t \in Thread, NEW x \in Calls, call' = [call EXCEPT ![t] = x]
    PROVE  /\ call' \in [Thread -> Calls] /\ call'[t] = x
           /\ \A u \in Thread \ {t} : call'[u] = call[u]
  BY DEF TypeOK

LEMMA GotoEntry ==
    ASSUME TypeOK, NEW t \in Thread, NEW place, Goto(t, place),
           place \in {"idle", "created", "approve", "reject", "approving", "rejecting",
                     "approved", "rejected", "gate", "lock", "locked", "consume", "execute"}
    PROVE  /\ call' \in [Thread -> Calls]
           /\ call'[t].pc = place /\ call'[t].rec = call[t].rec
           /\ \A u \in Thread \ {t} : call'[u] = call[u]
<1>1. call[t] \in Calls
  BY DEF TypeOK
<1>2. [call[t] EXCEPT !.pc = place] \in Calls
  BY <1>1 DEF Calls
<1>3. call' = [call EXCEPT ![t] = [call[t] EXCEPT !.pc = place]]
  BY DEF Goto
<1> QED
  BY <1>1, <1>2, <1>3, OneThread DEF Calls

LEMMA DoneEntry ==
    ASSUME TypeOK, NEW t \in Thread, Done(t)
    PROVE  /\ call' \in [Thread -> Calls]
           /\ call'[t].pc = "idle"
           /\ \A u \in Thread \ {t} : call'[u] = call[u]
<1>1. [pc |-> "idle", rec |-> Gone] \in Calls
  BY RecordValues DEF Calls
<1> QED
  BY <1>1, OneThread DEF Done

LEMMA ReadEntry ==
    ASSUME TypeOK, NEW t \in Thread, NEW place \in {"approve", "reject", "gate", "locked"},
           call' = [call EXCEPT ![t] = [pc |-> place, rec |-> file]]
    PROVE  /\ call' \in [Thread -> Calls]
           /\ call'[t].pc = place /\ call'[t].rec = file
           /\ \A u \in Thread \ {t} : call'[u] = call[u]
<1>1. [pc |-> place, rec |-> file] \in Calls
  BY DEF Calls, TypeOK
<1> QED
  BY <1>1, OneThread

\* What the entry of a thread must be on the record it has read.
Matches(e) ==
    /\ e.pc \in {"approve", "reject", "approving", "rejecting"}
            => e.rec \notin {Unmade, Gone} /\ ~e.rec.used
    /\ e.pc = "consume" => e.rec = Approved
    /\ e.pc \in {"gate", "lock", "locked", "consume", "approving", "rejecting", "approved"}
            => kind = "pc"

LEMMA ShapeStep ==
    ASSUME TypeOK, CopiesMatch, OneConsumes, NEW t \in Thread, kind' = kind,
           call' \in [Thread -> Calls], \A u \in Thread \ {t} : call'[u] = call[u],
           Matches(call'[t]),
           call'[t].pc \in {"locked", "consume"} => Locked(t) \/ \A u \in Thread : ~Locked(u)
    PROVE  CopiesMatch' /\ OneConsumes'
<1>1. \A u \in Thread : Matches(call'[u])
  BY DEF Matches, CopiesMatch
<1>2. CopiesMatch'
  BY <1>1 DEF Matches, CopiesMatch
<1>3. OneConsumes'
  <2> SUFFICES ASSUME NEW u \in Thread, NEW v \in Thread,
                      call'[u].pc \in {"locked", "consume"}, call'[v].pc \in {"locked", "consume"}
               PROVE  u = v
    BY DEF OneConsumes, Locked
  <2> QED
    BY DEF OneConsumes, Locked
<1> QED
  BY <1>2, <1>3

\* A write, a removal, or nothing.
Touches ==
    \/ KeepFile
    \/ file' = Gone /\ UNCHANGED <<lost, opened>>
    \/ \E seen, rec \in Records :
        /\ Replace(seen, rec) /\ ~rec.used
        /\ seen \notin {Used, Gone} /\ (kind = "legacy" => file # Gone)

LEMMA TouchTypes ==
    ASSUME TypeOK, Touches, now' = now, kind' = kind, runs' = runs,
           call' \in [Thread -> Calls]
    PROVE  TypeOK'
<1>1. CASE KeepFile
  BY <1>1 DEF TypeOK, KeepFile
<1>2. CASE file' = Gone /\ UNCHANGED <<lost, opened>>
  <2>1. Gone \in Records /\ ~Gone.used
    BY RecordValues
  <2> QED
    BY <1>2, <2>1 DEF TypeOK
<1>3. ASSUME NEW seen \in Records, NEW rec \in Records, Replace(seen, rec), ~rec.used
      PROVE  TypeOK'
  <2>1. file' \in Records /\ ~file'.used /\ opened' \in Nat /\ lost' \in BOOLEAN
    BY <1>3 DEF TypeOK, Replace
  <2> QED
    BY <2>1 DEF TypeOK
<1> QED
  BY <1>1, <1>2, <1>3 DEF Touches

\* The ledger of an action that neither executes nor consumes.
LEMMA LedgerStep ==
    ASSUME TypeOK, TypeOK', Ledger, Touches, kind' = kind, runs' = runs,
           Executing' = Executing, Ready1' => Ready1 \/ file' = Approved
    PROVE  Ledger'
<1>1. Cardinality(Executing) \in Nat /\ Spent' = Spent /\ Spent \in Nat
  BY FS_CardinalityType DEF Ledger, Spent, TypeOK
<1>2. CASE kind = "legacy"
  <2>1. file' # Gone => file # Gone
    BY <1>2 DEF Touches, KeepFile, Replace
  <2> QED
    BY <1>1, <1>2, <2>1 DEF Ledger, Count
<1>3. CASE kind = "pc"
  <2>1. opened' >= opened /\ (Ready1' => Ready1 \/ opened' > opened)
    <3>1. CASE KeepFile
      BY <3>1 DEF KeepFile, Ready1, TypeOK
    <3>2. CASE file' = Gone /\ UNCHANGED <<lost, opened>>
      BY <3>2, RecordValues DEF TypeOK
    <3>3. ASSUME NEW seen \in Records, NEW rec \in Records, Replace(seen, rec)
          PROVE  opened' >= opened /\ (Ready1' => Ready1 \/ opened' > opened)
      BY <3>3 DEF Replace, TypeOK
    <3> QED
      BY <3>1, <3>2, <3>3 DEF Touches
  <2>2. ~lost' => ~lost /\ (file' \notin {Used, Gone} => file \notin {Used, Gone})
    BY DEF Touches, KeepFile, Replace
  <2>3. Spent + Count(Ready1') <= opened'
    <3>1. Spent + Count(Ready1) <= opened /\ opened \in Nat /\ opened' \in Nat
      BY <1>3 DEF Ledger, TypeOK
    <3> QED
      BY <1>1, <2>1, <3>1 DEF Count
  <2>4. ~lost' => Spent + Count(file' \notin {Used, Gone}) <= 1
    BY <1>1, <1>3, <2>2 DEF Ledger, Count
  <2> QED
    BY <1>1, <1>3, <2>3, <2>4 DEF Ledger, Count
<1> QED
  BY <1>2, <1>3 DEF TypeOK

LEMMA ThreadStep ==
    ASSUME ApprovalInv, NEW t \in Thread, now' = now, kind' = kind, runs' = runs, Touches,
           call' \in [Thread -> Calls], \A u \in Thread \ {t} : call'[u] = call[u],
           Matches(call'[t]), call[t].pc # "execute", call'[t].pc # "execute",
           call'[t].pc \in {"locked", "consume"} =>
                \/ Locked(t) /\ call'[t].rec = call[t].rec
                \/ (\A u \in Thread : ~Locked(u)) /\ call'[t].rec = file
    PROVE  ApprovalInv'
<1> USE DEF ApprovalInv
<1>1. TypeOK'
  BY TouchTypes
<1>2. CopiesMatch' /\ OneConsumes'
  BY ShapeStep
<1>3. Executing' = Executing
  BY DEF Executing, At
<1>4. Ready1' => Ready1 \/ file' = Approved
  <2> SUFFICES ASSUME NEW u \in Thread, call'[u].pc \in {"locked", "consume"},
                      call'[u].rec = Approved
               PROVE  Ready1
    BY DEF Ready1, Locked
  <2> QED
    BY DEF Ready1, Locked
<1>5. Ledger'
  BY <1>1, <1>3, <1>4, LedgerStep
<1> QED
  BY <1>1, <1>2, <1>5

LEMMA LapsedTouches ==
    ASSUME TypeOK, kind = "pc", NEW t \in Thread, Lapsed(t),
           Replace(call[t].rec, Expired) \/ KeepFile
    PROVE  Touches
<1>1. call[t].rec \in Records /\ call[t].rec = Pending /\ "legacy" # "pc"
  BY DEF TypeOK, Calls, Lapsed
<1> QED
  BY <1>1, RecordValues DEF Touches

\* Each action of /approve.
LEMMA DecideKeeps ==
    ASSUME ApprovalInv, NEW t \in Thread,
           Create(t) \/ CreateAudited(t) \/ Decide(t) \/ WriteFails(t), call'[t].pc # "execute"
    PROVE  ApprovalInv'
<1> USE DEF ApprovalInv
<1>0. call[t] \in Calls /\ call[t].rec \in Records
  BY DEF TypeOK, Calls
<1>1. CASE Create(t)
  <2>1. Touches
    BY <1>1, RecordValues DEF Create, Touches
  <2> QED
    BY <1>1, <2>1, GotoEntry, ThreadStep DEF Create, Matches, At
<1>2. CASE CreateAudited(t)
  <2>1. Touches
    BY <1>2 DEF CreateAudited, Touches
  <2> QED
    BY <1>2, <2>1, DoneEntry, ThreadStep DEF CreateAudited, Matches, At
<1>3. CASE Load(t)
  <2>1. PICK place \in {"approve", "reject"} :
            call' = [call EXCEPT ![t] = [pc |-> place, rec |-> file]]
    BY <1>3 DEF Load
  <2>2. Touches
    BY <1>3 DEF Load, Touches
  <2>3. /\ call' \in [Thread -> Calls] /\ call'[t].pc = place /\ call'[t].rec = file
        /\ \A u \in Thread \ {t} : call'[u] = call[u]
    BY <2>1, ReadEntry
  <2> QED
    BY <1>3, <2>2, <2>3, ThreadStep DEF Load, Matches, At, Exists
<1>4. CASE Check(t)
  <2>1. kind = "pc" /\ now' = now /\ kind' = kind /\ runs' = runs
        /\ call[t].pc \in {"approve", "reject"}
    BY <1>4 DEF Check, At
  <2>2. CASE MarkExpired(t)
    <3>1. Touches
      BY <2>1, <2>2, LapsedTouches DEF MarkExpired
    <3> QED
      BY <2>1, <2>2, <3>1, DoneEntry, ThreadStep DEF MarkExpired, Matches
  <2>3. CASE Done(t) /\ KeepFile
    <3>1. Touches
      BY <2>3 DEF Touches
    <3> QED
      BY <2>1, <2>3, <3>1, DoneEntry, ThreadStep DEF Matches
  <2>4. CASE Goto(t, IF At(t, "approve") THEN "approving" ELSE "rejecting") /\ KeepFile
    <3> DEFINE place == IF At(t, "approve") THEN "approving" ELSE "rejecting"
    <3>1. Touches
      BY <2>4 DEF Touches
    <3>2. place \in {"approving", "rejecting"} /\ Goto(t, place)
      BY <2>4
    <3> HIDE DEF place
    <3>3. /\ call' \in [Thread -> Calls] /\ call'[t].pc = place /\ call'[t].rec = call[t].rec
          /\ \A u \in Thread \ {t} : call'[u] = call[u]
      BY <3>2, GotoEntry
    <3>4. Matches(call'[t])
      BY <2>1, <3>2, <3>3 DEF Matches, CopiesMatch
    <3> QED
      BY <2>1, <3>1, <3>2, <3>3, <3>4, ThreadStep
  <2> QED
    BY <1>4, <2>2, <2>3, <2>4 DEF Check
<1>5. CASE Approve(t)
  <2>1. Touches
    <3>1. call[t].rec \notin {Used, Gone}
      BY <1>5, RecordValues DEF Approve, CopiesMatch, At
    <3>2. kind = "pc"
      BY <1>5 DEF Approve, CopiesMatch, At
    <3> QED
      BY <1>0, <1>5, <3>1, <3>2, RecordValues DEF Approve, Touches
  <2>2. /\ call' \in [Thread -> Calls] /\ call'[t].pc = "approved" /\ kind = "pc"
        /\ \A u \in Thread \ {t} : call'[u] = call[u]
    BY <1>5, GotoEntry DEF Approve, CopiesMatch, At
  <2> QED
    BY <1>5, <2>1, <2>2, ThreadStep DEF Approve, Matches, At
<1>6. CASE RollBack(t)
  <2>1. kind = "pc"
    BY <1>6 DEF RollBack, CopiesMatch, At
  <2>2. Record(call[t].rec.status, FALSE) \in Records
    BY <1>0 DEF Record, Records
  <2>3. Touches
    BY <1>6, <2>1, <2>2, RecordValues DEF RollBack, Touches
  <2> QED
    BY <1>6, <2>3, DoneEntry, ThreadStep DEF RollBack, Matches, At
<1>7. CASE ApproveAudited(t)
  <2>1. Touches
    BY <1>7 DEF ApproveAudited, Touches
  <2> QED
    BY <1>7, <2>1, DoneEntry, ThreadStep DEF ApproveAudited, Matches, At
<1>8. CASE Reject(t)
  <2>1. kind = "pc" /\ call[t].rec \notin {Used, Gone}
    BY <1>8, RecordValues DEF Reject, CopiesMatch, At
  <2>2. Record("rejected", FALSE) \in Records
    BY DEF Record, Records
  <2>3. Touches
    BY <1>0, <1>8, <2>1, <2>2, RecordValues DEF Reject, Touches
  <2> QED
    BY <1>8, <2>3, GotoEntry, ThreadStep DEF Reject, Matches, At
<1>9. CASE Unlink(t)
  <2>1. Touches
    BY <1>9 DEF Unlink, Touches, KeepFile
  <2> QED
    BY <1>9, <2>1, DoneEntry, ThreadStep DEF Unlink, Matches, At
<1>10. CASE Claim(t)
  <2>1. file' = file /\ Done(t) /\ UNCHANGED <<now, kind, opened, runs, lost>>
        /\ call[t].pc = "approve"
    <3>1. ~Goto(t, "execute")
      BY GotoEntry
    <3> QED
      BY <1>10, <3>1 DEF Claim, At
  <2>2. Touches
    BY <2>1 DEF Touches, KeepFile
  <2> QED
    BY <2>1, <2>2, DoneEntry, ThreadStep DEF Matches
<1>11. CASE WriteFails(t)
  <2>1. Touches
    BY <1>11 DEF WriteFails, Touches
  <2> QED
    BY <1>11, <2>1, DoneEntry, ThreadStep DEF WriteFails, Matches
<1> QED
  BY <1>1, <1>2, <1>3, <1>4, <1>5, <1>6, <1>7, <1>8, <1>9, <1>10, <1>11 DEF Decide

\* Each action of /tools/execute but the consumption and the execution.
LEMMA UseKeeps ==
    ASSUME ApprovalInv, NEW t \in Thread, Present(t) \/ Gate(t) \/ Lock(t) \/ Recheck(t)
    PROVE  ApprovalInv'
<1> USE DEF ApprovalInv
<1>0. call[t] \in Calls /\ call[t].rec \in Records
  BY DEF TypeOK, Calls
<1>1. CASE Present(t)
  <2>1. Touches
    BY <1>1 DEF Present, Touches
  <2> QED
    BY <1>1, <2>1, ReadEntry, ThreadStep DEF Present, Matches, At
<1>2. CASE Gate(t)
  <2>1. now' = now /\ kind' = kind /\ runs' = runs /\ call[t].pc = "gate" /\ kind = "pc"
    BY <1>2 DEF Gate, At, CopiesMatch
  <2>2. CASE Done(t) /\ Touches
    BY <2>1, <2>2, DoneEntry, ThreadStep DEF Matches
  <2>3. CASE MarkExpired(t)
    BY <2>1, <2>2, <2>3, LapsedTouches DEF MarkExpired
  <2>4. CASE call[t].rec = Approved /\ Replace(call[t].rec, Expired) /\ Done(t)
    BY <1>0, <2>1, <2>2, <2>4, RecordValues DEF Touches
  <2>5. CASE Goto(t, "lock") /\ KeepFile
    <3>1. Touches
      BY <2>5 DEF Touches
    <3> QED
      BY <2>1, <2>5, <3>1, GotoEntry, ThreadStep DEF Matches
  <2>6. CASE Done(t) /\ KeepFile
    BY <2>2, <2>6 DEF Touches
  <2> QED
    BY <1>2, <2>3, <2>4, <2>5, <2>6 DEF Gate
<1>3. CASE Lock(t)
  <2>1. now' = now /\ kind' = kind /\ runs' = runs /\ call[t].pc = "lock" /\ kind = "pc"
        /\ Touches /\ \A u \in Thread : ~Locked(u)
    BY <1>3 DEF Lock, At, CopiesMatch, Touches
  <2>2. CASE call' = [call EXCEPT ![t] = [pc |-> "locked", rec |-> file]]
    BY <2>1, <2>2, ReadEntry, ThreadStep DEF Matches
  <2>3. CASE Done(t)
    BY <2>1, <2>3, DoneEntry, ThreadStep DEF Matches
  <2> QED
    BY <1>3, <2>2, <2>3 DEF Lock
<1>4. CASE Recheck(t)
  <2>1. now' = now /\ kind' = kind /\ runs' = runs /\ call[t].pc = "locked" /\ kind = "pc"
        /\ Locked(t)
    BY <1>4 DEF Recheck, At, CopiesMatch, Locked
  <2>2. CASE Done(t) /\ Touches
    BY <2>1, <2>2, DoneEntry, ThreadStep DEF Matches
  <2>3. CASE MarkExpired(t)
    BY <2>1, <2>2, <2>3, LapsedTouches DEF MarkExpired
  <2>4. CASE call[t].rec = Approved /\ Goto(t, "consume") /\ KeepFile
    <3>1. Touches
      BY <2>4 DEF Touches
    <3> QED
      BY <2>1, <2>4, <3>1, GotoEntry, ThreadStep DEF Matches
  <2>5. CASE Done(t) /\ KeepFile
    BY <2>2, <2>5 DEF Touches
  <2> QED
    BY <1>4, <2>3, <2>4, <2>5 DEF Recheck
<1> QED
  BY <1>1, <1>2, <1>3, <1>4

\* A consumption, or the removal of a legacy file: one more is about to execute.
LEMMA EntersExecution ==
    ASSUME ApprovalInv, NEW t \in Thread,
           Consume(t) \/ (Claim(t) /\ call'[t].pc = "execute")
    PROVE  ApprovalInv'
<1> USE DEF ApprovalInv
<1>1. /\ call' \in [Thread -> Calls] /\ call'[t].pc = "execute" /\ call[t].pc # "execute"
      /\ \A u \in Thread \ {t} : call'[u] = call[u]
      /\ now' = now /\ kind' = kind /\ runs' = runs
  <2>1. CASE Consume(t)
    BY <2>1, GotoEntry DEF Consume, At
  <2>2. CASE Claim(t) /\ call'[t].pc = "execute"
    <3>1. Goto(t, "execute")
      BY <2>2, DoneEntry DEF Claim
    <3> QED
      BY <2>2, <3>1, GotoEntry DEF Claim, At
  <2> QED
    BY <2>1, <2>2
<1>2. CopiesMatch' /\ OneConsumes'
  BY <1>1, ShapeStep DEF Matches
<1>3. t \notin Executing /\ Executing' = Executing \cup {t}
  BY <1>1 DEF Executing, At
<1>4. /\ Cardinality(Executing) \in Nat /\ Spent \in Nat /\ Spent' = Spent + 1
      /\ IsFiniteSet(Executing')
  <2>1. IsFiniteSet(Executing) /\ runs \in Nat
    BY DEF Ledger, TypeOK
  <2>2. Cardinality(Executing) \in Nat /\ IsFiniteSet(Executing')
        /\ Cardinality(Executing') = Cardinality(Executing) + 1
    BY <1>3, <2>1, FS_AddElement, FS_CardinalityType
  <2> QED
    BY <1>1, <2>1, <2>2 DEF Spent
<1>5. CASE Consume(t)
  <2>1. /\ kind = "pc" /\ call[t].rec = Approved /\ Locked(t)
        /\ file' = Used /\ opened' = opened /\ lost' = (lost \/ file # Approved)
    BY <1>5, RecordValues DEF Consume, CopiesMatch, At, Replace, Locked
  <2>2. TypeOK'
    BY <1>1, <2>1, RecordValues DEF TypeOK
  <2>3. Ready1 /\ ~Ready1'
    <3>1. \A u \in Thread : ~(call'[u].pc \in {"locked", "consume"})
      BY <1>1, <2>1 DEF OneConsumes, Locked
    <3>2. Ready1
      BY <2>1 DEF Ready1
    <3>3. ~Ready1'
      BY <2>1, <3>1, RecordValues DEF Ready1, Locked
    <3> QED
      BY <3>2, <3>3
  <2>4. Spent' + Count(Ready1') <= opened'
    BY <1>4, <2>1, <2>3 DEF Ledger, Count, TypeOK
  <2>5. ~lost' => Spent' + Count(file' \notin {Used, Gone}) <= 1
    <3>1. ~lost' => Spent + Count(file \notin {Used, Gone}) <= 1 /\ file = Approved
      BY <2>1 DEF Ledger, TypeOK
    <3>2. Approved \notin {Used, Gone} /\ ~(file' \notin {Used, Gone})
      BY <2>1, RecordValues
    <3> HIDE DEF ApprovalInv
    <3> QED
      BY <1>4, <3>1, <3>2 DEF Count
  <2> QED
    BY <1>1, <1>2, <1>4, <2>1, <2>2, <2>4, <2>5 DEF Ledger
<1>6. CASE Claim(t)
  <2>1. kind = "legacy" /\ Exists /\ file' = Gone /\ UNCHANGED <<opened, lost>>
    BY <1>1, <1>6, DoneEntry DEF Claim
  <2>2. TypeOK'
    BY <1>1, <2>1, RecordValues DEF TypeOK
  <2>3. Spent' + Count(file' # Gone) <= 1
    BY <1>4, <2>1 DEF Ledger, Count, Exists
  <2> QED
    BY <1>1, <1>2, <1>4, <2>1, <2>2, <2>3 DEF Ledger
<1> QED
  BY <1>5, <1>6

\* An execution, and the end of all threads: nobody becomes about to execute.
LEMMA LeavesExecution ==
    ASSUME ApprovalInv, TypeOK', UNCHANGED <<now, kind, file, opened, lost>>,
           CopiesMatch', OneConsumes',
           \A t \in Thread : call'[t].pc \in {"locked", "consume"}
                                => Locked(t) /\ call'[t].rec = call[t].rec,
           \/ \E t \in Executing : Executing' = Executing \ {t} /\ runs' \in {runs, runs + 1}
           \/ Executing' = {} /\ runs' = runs
           \/ Executing' = Executing /\ runs' = runs
    PROVE  ApprovalInv'
<1> USE DEF ApprovalInv
<1>1. /\ Cardinality(Executing) \in Nat /\ Spent \in Nat /\ runs \in Nat
  BY FS_CardinalityType DEF Ledger, Spent, TypeOK
<1>2. IsFiniteSet(Executing') /\ Spent' <= Spent /\ Spent' \in Nat
  <2>1. CASE Executing' = Executing /\ runs' = runs
    BY <1>1, <2>1 DEF Ledger, Spent
  <2>2. CASE Executing' = {} /\ runs' = runs
    BY <1>1, <2>2, FS_EmptySet DEF Spent
  <2>3. ASSUME NEW t \in Executing, Executing' = Executing \ {t}, runs' \in {runs, runs + 1}
        PROVE  IsFiniteSet(Executing') /\ Spent' <= Spent /\ Spent' \in Nat
    <3>1. /\ IsFiniteSet(Executing \ {t})
          /\ Cardinality(Executing \ {t}) = Cardinality(Executing) - 1
      BY FS_RemoveElement DEF Ledger
    <3>2. Cardinality(Executing \ {t}) \in Nat
      BY <3>1, FS_CardinalityType
    <3> QED
      BY <1>1, <2>3, <3>1, <3>2 DEF Spent
  <2> QED
    BY <2>1, <2>2, <2>3
<1>3. Count(Ready1') <= Count(Ready1) /\ Count(Ready1') \in Nat /\ Count(Ready1) \in Nat
  <2>1. Ready1' => Ready1
    BY DEF Ready1, Locked
  <2> QED
    BY <2>1 DEF Count
<1>4. /\ opened \in Nat
      /\ Count(file \notin {Used, Gone}) \in Nat /\ Count(file # Gone) \in Nat
  BY DEF TypeOK, Count
<1>5. Ledger
  OBVIOUS
<1> HIDE DEF ApprovalInv
<1>6. kind = "pc" => Spent' + Count(Ready1') <= opened
  BY <1>1, <1>2, <1>3, <1>4, <1>5 DEF Ledger
<1>7. kind = "pc" /\ ~lost => Spent' + Count(file \notin {Used, Gone}) <= 1
  BY <1>1, <1>2, <1>4, <1>5 DEF Ledger
<1>8. kind = "legacy" => Spent' + Count(file # Gone) <= 1
  BY <1>1, <1>2, <1>4, <1>5 DEF Ledger
<1> QED
  BY <1>2, <1>6, <1>7, <1>8 DEF Ledger, ApprovalInv

LEMMA ExecuteKeeps ==
    ASSUME ApprovalInv, NEW t \in Thread, Execute(t)
    PROVE  ApprovalInv'
<1> USE DEF ApprovalInv
<1>1. /\ call' \in [Thread -> Calls] /\ call'[t].pc = "idle" /\ t \in Executing
      /\ \A u \in Thread \ {t} : call'[u] = call[u]
      /\ UNCHANGED <<now, kind, file, opened, lost>> /\ runs' \in {runs, runs + 1}
  BY DoneEntry DEF Execute, KeepFile, Executing
<1>2. TypeOK'
  BY <1>1 DEF TypeOK
<1>3. CopiesMatch' /\ OneConsumes'
  BY <1>1, ShapeStep DEF Matches
<1>4. \A u \in Thread : call'[u].pc \in {"locked", "consume"}
                            => Locked(u) /\ call'[u].rec = call[u].rec
  BY <1>1 DEF Locked
<1>5. Executing' = Executing \ {t}
  BY <1>1 DEF Executing, At
<1> QED
  BY <1>1, <1>2, <1>3, <1>4, <1>5, LeavesExecution

LEMMA ApprovalInit == Init => ApprovalInv
<1> SUFFICES ASSUME Init PROVE ApprovalInv
  OBVIOUS
<1>1. [pc |-> "idle", rec |-> Gone] \in Calls
  BY RecordValues DEF Calls
<1>2. \A t \in Thread : call[t].pc = "idle"
  BY DEF Init
<1>3. TypeOK
  BY <1>1, RecordValues DEF Init, TypeOK
<1>4. CopiesMatch /\ OneConsumes
  BY <1>2 DEF CopiesMatch, OneConsumes, Locked
<1>5. Executing = {}
  BY <1>2 DEF Executing, At
<1>6. Spent = 0 /\ IsFiniteSet(Executing)
  BY <1>5, FS_EmptySet DEF Spent, Init
<1>7. ~Ready1 /\ opened = 0
  BY <1>2, RecordValues DEF Ready1, Locked, Init
<1> QED
  BY <1>3, <1>4, <1>6, <1>7 DEF ApprovalInv, Ledger, Count

LEMMA ApprovalNext == ApprovalInv /\ [Next]_vars => ApprovalInv'
<1> SUFFICES ASSUME ApprovalInv, [Next]_vars PROVE ApprovalInv'
  OBVIOUS
<1>1. ASSUME NEW t \in Thread,
             Create(t) \/ CreateAudited(t) \/ Decide(t) \/ Use(t) \/ WriteFails(t)
      PROVE  ApprovalInv'
  <2>1. CASE Use(t)
    BY <2>1, UseKeeps, EntersExecution, ExecuteKeeps DEF Use
  <2>2. CASE call'[t].pc # "execute"
    BY <1>1, <2>1, <2>2, DecideKeeps
  <2>3. CASE call'[t].pc = "execute" /\ Claim(t)
    BY <2>3, EntersExecution
  <2>4. ASSUME call'[t].pc = "execute", ~Claim(t), ~Use(t) PROVE FALSE
    <3>0. TypeOK
      BY DEF ApprovalInv
    <3>1. ~Done(t)
      BY <2>4, <3>0, DoneEntry
    <3>2. \A place \in {"created", "approving", "rejecting", "approved", "rejected"} : ~Goto(t, place)
      BY <2>4, <3>0, GotoEntry
    <3>3. \A place \in {"approve", "reject"} :
            call' # [call EXCEPT ![t] = [pc |-> place, rec |-> file]]
      BY <2>4, <3>0, ReadEntry
    <3>4. ~Check(t)
      BY <3>1, <3>2 DEF Check, MarkExpired
    <3>5. ~Create(t) /\ ~CreateAudited(t) /\ ~Load(t) /\ ~WriteFails(t) /\ ~Approve(t)
          /\ ~RollBack(t) /\ ~ApproveAudited(t) /\ ~Reject(t) /\ ~Unlink(t)
      BY <3>1, <3>2, <3>3 DEF Create, CreateAudited, Load, WriteFails, Approve, RollBack,
                              ApproveAudited, Reject, Unlink
    <3> QED
      BY <1>1, <2>4, <3>4, <3>5 DEF Decide
  <2> QED
    BY <2>1, <2>2, <2>3, <2>4
<1>2. CASE Tick
  <2>1. TypeOK'
    BY <1>2 DEF Tick, ApprovalInv, TypeOK
  <2>2. CopiesMatch' /\ OneConsumes' /\ Ledger'
    BY <1>2 DEF Tick, ApprovalInv, CopiesMatch, OneConsumes, Locked, Ledger, Executing, At,
                Spent, Ready1
  <2> QED
    BY <2>1, <2>2 DEF ApprovalInv
<1>3. CASE Restart
  <2>1. [pc |-> "idle", rec |-> Gone] \in Calls
    BY RecordValues DEF Calls
  <2>2. \A t \in Thread : call'[t].pc = "idle"
    BY <1>3 DEF Restart
  <2>3. TypeOK'
    BY <1>3, <2>1 DEF Restart, ApprovalInv, TypeOK
  <2>4. CopiesMatch' /\ OneConsumes'
    BY <2>2 DEF CopiesMatch, OneConsumes, Locked
  <2>5. Executing' = {}
    BY <2>2 DEF Executing, At
  <2> QED
    BY <1>3, <2>2, <2>3, <2>4, <2>5, LeavesExecution DEF Restart
<1>4. CASE UNCHANGED vars
  BY <1>4 DEF vars, ApprovalInv, TypeOK, CopiesMatch, OneConsumes, Locked, Ledger, Executing, At,
              Spent, Ready1
<1> QED
  BY <1>1, <1>2, <1>3, <1>4 DEF Next

\* The approval record has its type, and only an approved one is ever used.
THEOREM ApprovalTypeCorrect == Spec => []TypeOK
<1>1. ApprovalInv => TypeOK
  BY DEF ApprovalInv
<1> QED
  BY <1>1, ApprovalInit, ApprovalNext, PTL DEF Spec

\* Executions of a pc record never outnumber the approvals of it, there is one at most
\* as long as nobody writes over a record he had not read, and a legacy record is executed
\* once at most (try_consume_approval_token's lock, the unlink of the legacy path), for any
\* number of threads, approvals and restarts.
THEOREM ApprovedOnce == Spec => []EachApprovalOnce
<1>1. ApprovalInv => EachApprovalOnce
  <2> SUFFICES ASSUME ApprovalInv PROVE EachApprovalOnce
    OBVIOUS
  <2>1. Cardinality(Executing) \in Nat /\ runs \in Nat /\ opened \in Nat
        /\ kind \in {"pc", "legacy"}
    BY FS_CardinalityType DEF ApprovalInv, Ledger, TypeOK
  <2> QED
    BY <2>1 DEF ApprovalInv, Ledger, Spent, Count, EachApprovalOnce, RunsNeedApprovals,
                OnceUnlessOverwritten
<1> QED
  BY <1>1, ApprovalInit, ApprovalNext, PTL DEF Spec

-----------------------------------------------------------------------------
(* The store of founder approvals *)

FounderRecords == [question : Question, by : DOMAIN Founder \cup {Nobody}]

FounderEvents == [event : {"APPROVAL_REQUESTED", "APPROVAL_GRANTED"}, record : Nat,
                  by : DOMAIN Founder \cup {Nobody}]

FounderEntries == [pc : {"ready", "decide", "write", "audit"}, copy : Seq(FounderRecords),
                   pending : Seq(FounderEvents)]

FounderTypes ==
    /\ today \in Nat /\ approvals \in Seq(FounderRecords) /\ events \in Seq(FounderEvents)
    /\ process \in [Process -> FounderEntries]

OneRecordEach(as) == \A i, j \in DOMAIN as : as[i].question = as[j].question => i = j

\* The event is true of the records.
Tells(e, as) ==
    /\ e.record \in DOMAIN as
    /\ e.event = "APPROVAL_GRANTED" => as[e.record].by = e.by /\ e.by # Nobody

Untold(e) == \A n \in DOMAIN events : events[n].event = e.event => events[n].record # e.record

\* No record is lost, and none that was granted changes.
Grown(as, bs) ==
    /\ DOMAIN as \subseteq DOMAIN bs
    /\ \A i \in DOMAIN as : as[i].by = Nobody \/ bs[i].by = as[i].by

\* Who is at work has read the file that is there, and has at most one event to tell,
\* which is true of what he writes and has not been told.
Works(e) ==
    /\ e.pc = "decide" => e.copy = approvals /\ e.pending = <<>>
    /\ e.pc \in {"write", "audit"} =>
        /\ OneRecordEach(e.copy) /\ Grown(approvals, e.copy) /\ Len(e.pending) \in {0, 1}
        /\ \A n \in DOMAIN e.pending : Tells(e.pending[n], e.copy) /\ Untold(e.pending[n])
    /\ e.pc = "audit" => e.copy = approvals

FileLock == \A p, q \in Process : process[p].pc # "ready" /\ process[q].pc # "ready" => p = q

AllTrue == \A n \in DOMAIN events : Tells(events[n], approvals)

NoEventTwice ==
    \A n, m \in DOMAIN events :
        events[m].event = events[n].event /\ events[m].record = events[n].record => m = n

FounderInv ==
    /\ FounderTypes /\ FileLock /\ (\A p \in Process : Works(process[p]))
    /\ OneRecordEach(approvals) /\ AllTrue /\ NoEventTwice

\* A step of the one process that is at work.
LEMMA FounderEntry ==
    ASSUME FounderInv, NEW p \in Process, NEW e \in FounderEntries,
           process' = [process EXCEPT ![p] = e],
           process[p].pc # "ready" \/ \A o \in Process : process[o].pc = "ready",
           e.pc = "ready" \/ Works(e)'
    PROVE  process' \in [Process -> FounderEntries] /\ FileLock'
           /\ (\A q \in Process : Works(process[q]))'
<1>1. process' \in [Process -> FounderEntries] /\ process'[p] = e
      /\ \A q \in Process \ {p} : process'[q] = process[q]
  BY DEF FounderInv, FounderTypes
<1>2. \A q \in Process \ {p} : process'[q].pc = "ready"
  BY <1>1 DEF FounderInv, FileLock
<1>3. FileLock'
  BY <1>2 DEF FileLock
<1>4. ASSUME NEW q \in Process PROVE Works(process[q])'
  <2>1. CASE process'[q].pc = "ready"
    BY <2>1 DEF Works
  <2>2. CASE process'[q].pc # "ready"
    BY <1>1, <1>2, <2>2 DEF Works
  <2> QED
    BY <2>1, <2>2
<1> QED
  BY <1>1, <1>3, <1>4

LEMMA FounderInitInv == FounderInit => FounderInv
<1> SUFFICES ASSUME FounderInit PROVE FounderInv
  OBVIOUS
<1>1. Ready \in FounderEntries
  BY DEF Ready, FounderEntries
<1>2. FounderTypes
  BY <1>1 DEF FounderInit, FounderTypes
<1>3. \A p \in Process : process[p].pc = "ready"
  BY DEF FounderInit, Ready
<1> QED
  BY <1>2, <1>3 DEF FounderInv, FounderInit, FileLock, Works, OneRecordEach, AllTrue, NoEventTwice

LEMMA ReadyEntry ==
    ASSUME NEW x \in FounderEntries
    PROVE  [x EXCEPT !.pc = "ready", !.copy = <<>>]
                = [pc |-> "ready", copy |-> <<>>, pending |-> x.pending]
<1>1. DOMAIN x = {"pc", "copy", "pending"}
  BY DEF FounderEntries
<1> DEFINE y == [x EXCEPT !.pc = "ready", !.copy = <<>>]
<1>2. DOMAIN y = {"pc", "copy", "pending"} /\ y = [f \in DOMAIN x |-> y[f]]
  BY <1>1
<1>3. y.pc = "ready" /\ y.copy = <<>> /\ y.pending = x.pending
  BY <1>1
<1> HIDE DEF y
<1>4. y = [pc |-> "ready", copy |-> <<>>, pending |-> x.pending]
  BY <1>1, <1>2, <1>3
<1> QED
  BY <1>4 DEF y

LEMMA NoneOrOne ==
    ASSUME NEW S, NEW s \in Seq(S), Len(s) \in {0, 1}
    PROVE  s = <<>> \/ Len(s) = 1
  BY EmptySeq

LEMMA OneMore ==
    ASSUME NEW S, NEW s \in Seq(S), NEW t \in Seq(S), Len(t) = 1
    PROVE  /\ s \o t \in Seq(S) /\ DOMAIN (s \o t) = 1 .. Len(s) + 1
           /\ \A n \in 1 .. Len(s) : (s \o t)[n] = s[n]
           /\ (s \o t)[Len(s) + 1] = t[1] /\ 1 \in DOMAIN t /\ t[1] \in S
<1>1. /\ s \o t \in Seq(S) /\ Len(s \o t) = Len(s) + Len(t)
      /\ \A n \in 1 .. Len(s) + Len(t) :
            (s \o t)[n] = IF n <= Len(s) THEN s[n] ELSE t[n - Len(s)]
  BY ConcatProperties
<1>2. Len(s) \in Nat /\ DOMAIN t = 1 .. Len(t)
  BY LenProperties
<1>3. DOMAIN (s \o t) = 1 .. Len(s) + 1
  BY <1>1, LenProperties
<1>4. 1 \in DOMAIN t /\ t[1] \in S
  BY <1>2
<1>5. ASSUME NEW n \in 1 .. Len(s) PROVE (s \o t)[n] = s[n]
  BY <1>1, <1>2
<1>6. (s \o t)[Len(s) + 1] = t[1]
  BY <1>1, <1>2
<1> QED
  BY <1>1, <1>3, <1>4, <1>5, <1>6

LEMMA FounderStep ==
    ASSUME FounderInv, NEW p \in Process,
           \/ Enter(p) \/ Look(p) \/ RefuseGrant(p) \/ WriteState(p) \/ FlushAudit(p)
           \/ Fails(p) \/ Killed(p)
           \/ \E q \in Question : Ask(p, q)
           \/ \E i \in DOMAIN process[p].copy, who \in DOMAIN Founder : Grant(p, i, who)
    PROVE  FounderInv'
<1> USE DEF FounderInv
<1>0. /\ process[p] \in FounderEntries /\ Works(process[p]) /\ Ready \in FounderEntries
      /\ approvals \in Seq(FounderRecords) /\ events \in Seq(FounderEvents) /\ today \in Nat
  BY DEF FounderTypes, Ready, FounderEntries
<1> DEFINE copy == process[p].copy
           pending == process[p].pending
<1>t. /\ copy \in Seq(FounderRecords) /\ pending \in Seq(FounderEvents)
      /\ process[p].pc \in {"ready", "decide", "write", "audit"}
  BY <1>0 DEF FounderEntries
<1>1. CASE Enter(p)
  <2> DEFINE e == [pc |-> "decide", copy |-> approvals, pending |-> <<>>]
  <2>1. e \in FounderEntries
    BY <1>0 DEF FounderEntries
  <2>2. Works(e)' /\ UNCHANGED <<today, approvals, events>>
    BY <1>1 DEF Enter, Works
  <2>3. process' = [process EXCEPT ![p] = e] /\ \A o \in Process : process[o].pc = "ready"
    BY <1>1 DEF Enter
  <2> QED
    BY <1>0, <2>1, <2>2, <2>3, FounderEntry DEF FounderTypes, AllTrue, NoEventTwice
<1>2. ASSUME NEW as \in Seq(FounderRecords), NEW new \in Seq(FounderEvents),
             process' = [process EXCEPT ![p] = [pc |-> "write", copy |-> as, pending |-> new]],
             UNCHANGED <<today, approvals, events>>,
             process[p].pc = "decide", OneRecordEach(as), Grown(approvals, as), Len(new) \in {0, 1},
             \A n \in DOMAIN new : Tells(new[n], as),
             \A n \in DOMAIN new, m \in DOMAIN events :
                events[m].event = new[n].event => events[m].record # new[n].record
      PROVE  FounderInv'
  <2> DEFINE e == [pc |-> "write", copy |-> as, pending |-> new]
  <2>1. e \in FounderEntries
    BY DEF FounderEntries
  <2>2. Works(e)'
    BY <1>2 DEF Works, Untold
  <2>3. process' \in [Process -> FounderEntries] /\ FileLock'
        /\ (\A q \in Process : Works(process[q]))'
    BY <1>2, <2>1, <2>2, FounderEntry
  <2> QED
    BY <1>0, <1>2, <2>3 DEF FounderTypes, AllTrue, NoEventTwice
<1>d. ASSUME NEW as \in Seq(FounderRecords), NEW new \in Seq(FounderEvents),
             process[p].pc = "decide"
      PROVE  [pc |-> "write", copy |-> as, pending |-> pending \o new]
                = [pc |-> "write", copy |-> as, pending |-> new]
  <2>1. pending = <<>>
    BY <1>0, <1>d DEF Works
  <2> HIDE DEF pending
  <2>2. pending \o new = new
    BY <2>1, ConcatEmptySeq
  <2> QED
    BY <2>2
<1>3. ASSUME NEW q \in Question, Ask(p, q) PROVE FounderInv'
  <2> DEFINE as == Append(copy, [question |-> q, by |-> Nobody])
             new == <<[event |-> "APPROVAL_REQUESTED", record |-> Len(copy) + 1, by |-> Nobody]>>
  <2>1. process[p].pc = "decide" /\ Asking(q, copy) = {} /\ Decided(p, as, new)
    BY <1>3 DEF Ask
  <2>2. copy = approvals
    BY <1>0, <2>1 DEF Works
  <2>3. as \in Seq(FounderRecords) /\ new \in Seq(FounderEvents) /\ Len(new) = 1
    BY <1>t DEF FounderRecords, FounderEvents
  <2>4. OneRecordEach(as) /\ Grown(approvals, as)
    BY <1>t, <2>1, <2>2 DEF OneRecordEach, Grown, Asking
  <2>5. \A n \in DOMAIN new : Tells(new[n], as) /\ Untold(new[n])
    BY <1>0, <1>t, <2>2 DEF Tells, Untold, AllTrue
  <2>6. PICK a \in Seq(FounderRecords), b \in Seq(FounderEvents) : a = as /\ b = new
    BY <2>3
  <2>7. /\ process' = [process EXCEPT ![p] = [pc |-> "write", copy |-> a, pending |-> b]]
        /\ UNCHANGED <<today, approvals, events>>
    BY <1>d, <2>1, <2>6 DEF Decided
  <2>8. /\ OneRecordEach(a) /\ Grown(approvals, a) /\ Len(b) \in {0, 1}
        /\ \A n \in DOMAIN b : Tells(b[n], a)
        /\ \A n \in DOMAIN b, m \in DOMAIN events :
                events[m].event = b[n].event => events[m].record # b[n].record
    BY <2>3, <2>4, <2>5, <2>6 DEF Untold
  <2> QED
    BY <1>2, <2>1, <2>7, <2>8
<1>4. ASSUME NEW i \in DOMAIN process[p].copy, NEW who \in DOMAIN Founder, Grant(p, i, who)
      PROVE  FounderInv'
  <2> DEFINE as == [copy EXCEPT ![i].by = who]
             new == <<[event |-> "APPROVAL_GRANTED", record |-> i, by |-> who]>>
  <2>1. process[p].pc = "decide" /\ copy[i].by = Nobody /\ Decided(p, as, new)
    BY <1>4 DEF Grant
  <2>2. copy = approvals
    BY <1>0, <2>1 DEF Works
  <2>3. copy[i] \in FounderRecords
    BY <1>4, <1>t
  <2>4. as \in Seq(FounderRecords) /\ new \in Seq(FounderEvents) /\ Len(new) = 1
    BY <1>4, <1>t, <2>3 DEF FounderRecords, FounderEvents
  <2>5. /\ DOMAIN as = DOMAIN copy /\ as[i].by = who /\ as[i].question = copy[i].question
        /\ \A j \in DOMAIN copy \ {i} : as[j] = copy[j]
    BY <1>4, <1>t, <2>3 DEF FounderRecords
  <2>6. OneRecordEach(as) /\ Grown(approvals, as)
    BY <1>4, <2>1, <2>2, <2>5 DEF OneRecordEach, Grown
  <2>7. \A n \in DOMAIN new : Tells(new[n], as) /\ Untold(new[n])
    <3>1. Tells(new[1], as)
      BY <1>4, <2>5, FounderAssumption DEF Tells
    <3>2. Untold(new[1])
      BY <1>0, <2>1, <2>2 DEF Tells, Untold, AllTrue
    <3> QED
      BY <3>1, <3>2
  <2>8. PICK a \in Seq(FounderRecords), b \in Seq(FounderEvents) : a = as /\ b = new
    BY <2>4
  <2>9. /\ process' = [process EXCEPT ![p] = [pc |-> "write", copy |-> a, pending |-> b]]
        /\ UNCHANGED <<today, approvals, events>>
    BY <1>d, <2>1, <2>8 DEF Decided
  <2>10. /\ OneRecordEach(a) /\ Grown(approvals, a) /\ Len(b) \in {0, 1}
         /\ \A n \in DOMAIN b : Tells(b[n], a)
         /\ \A n \in DOMAIN b, m \in DOMAIN events :
                events[m].event = b[n].event => events[m].record # b[n].record
    <3> HIDE DEF as, new
    <3>1. /\ OneRecordEach(a) /\ Grown(approvals, a) /\ Len(b) \in {0, 1}
          /\ \A n \in DOMAIN b : Tells(b[n], a)
      <4>1. OneRecordEach(a) /\ Grown(approvals, a)
        BY <2>6, <2>8
      <4>2. Len(b) \in {0, 1}
        BY <2>4, <2>8
      <4>3. \A n \in DOMAIN b : Tells(b[n], a)
        BY <2>7, <2>8
      <4> QED
        BY <4>1, <4>2, <4>3
    <3>2. \A n \in DOMAIN b : Untold(b[n])
      BY <2>7, <2>8
    <3> QED
      BY <3>1, <3>2 DEF Untold
  <2> QED
    BY <1>2, <2>1, <2>9, <2>10
<1>5. CASE Look(p)
  <2>1. copy = approvals /\ process[p].pc = "decide" /\ Decided(p, copy, <<>>)
    BY <1>0, <1>5 DEF Look, Works
  <2>2. Grown(approvals, copy) /\ OneRecordEach(copy)
    BY <2>1 DEF Grown
  <2>3. PICK a \in Seq(FounderRecords) : a = copy
    BY <1>t
  <2>4. PICK b \in Seq(FounderEvents) : b = <<>>
    BY EmptySeq
  <2>5. /\ process' = [process EXCEPT ![p] = [pc |-> "write", copy |-> a, pending |-> b]]
        /\ UNCHANGED <<today, approvals, events>>
    BY <1>d, <2>1, <2>3, <2>4 DEF Decided
  <2>6. /\ OneRecordEach(a) /\ Grown(approvals, a) /\ Len(b) \in {0, 1}
        /\ \A n \in DOMAIN b : Tells(b[n], a)
        /\ \A n \in DOMAIN b, m \in DOMAIN events :
                events[m].event = b[n].event => events[m].record # b[n].record
    BY <2>2, <2>3, <2>4
  <2> QED
    BY <1>2, <2>1, <2>5, <2>6
<1>6. ASSUME NEW e \in FounderEntries, process' = [process EXCEPT ![p] = e], e.pc = "ready",
             process[p].pc # "ready" \/ \A o \in Process : process[o].pc = "ready",
             UNCHANGED <<today, approvals>>,
             \/ UNCHANGED events
             \/ process[p].pc = "audit" /\ events' = events \o pending
      PROVE  FounderInv'
  <2>1. process' \in [Process -> FounderEntries] /\ FileLock'
        /\ (\A q \in Process : Works(process[q]))'
    BY <1>6, FounderEntry
  <2>2. CASE UNCHANGED events
    BY <1>0, <1>6, <2>1, <2>2 DEF FounderTypes, AllTrue, NoEventTwice
  <2>3. CASE process[p].pc = "audit" /\ events' = events \o pending
    <3>1. /\ Len(pending) \in {0, 1} /\ copy = approvals
          /\ \A n \in DOMAIN pending : Tells(pending[n], approvals) /\ Untold(pending[n])
      BY <1>0, <2>3 DEF Works
    <3>2. CASE pending = <<>>
      BY <1>0, <1>6, <2>1, <2>3, <3>2 DEF FounderTypes, AllTrue, NoEventTwice
    <3>3. CASE Len(pending) = 1
      <4>1. 1 \in DOMAIN pending /\ pending[1] \in FounderEvents
        BY <1>t, <3>3, OneMore
      <4>2. /\ events' \in Seq(FounderEvents) /\ DOMAIN events' = 1 .. Len(events) + 1
            /\ \A n \in 1 .. Len(events) : events'[n] = events[n]
            /\ events'[Len(events) + 1] = pending[1]
        BY <1>0, <1>t, <2>3, <3>3, OneMore
      <4>3. Tells(pending[1], approvals) /\ Untold(pending[1])
        BY <3>1, <4>1
      <4>n. Len(events) \in Nat /\ DOMAIN events = 1 .. Len(events)
        BY <1>0, LenProperties
      <4>m. \A n \in DOMAIN events' : n \in DOMAIN events \/ n = Len(events) + 1
        BY <4>2, <4>n
      <4>4. AllTrue'
        <5> SUFFICES ASSUME NEW n \in DOMAIN events' PROVE Tells(events'[n], approvals')
          BY DEF AllTrue
        <5>1. CASE n \in DOMAIN events
          <6>1. events'[n] = events[n] /\ Tells(events[n], approvals)
            BY <4>2, <4>n, <5>1 DEF AllTrue
          <6> QED
            BY <1>6, <6>1
        <5>2. CASE n = Len(events) + 1
          BY <1>6, <4>2, <4>3, <5>2
        <5> QED
          BY <4>m, <5>1, <5>2
      <4>5. NoEventTwice'
        <5> SUFFICES ASSUME NEW n \in DOMAIN events', NEW m \in DOMAIN events',
                            events'[m].event = events'[n].event,
                            events'[m].record = events'[n].record
                     PROVE  m = n
          BY DEF NoEventTwice
        <5>1. CASE n \in DOMAIN events /\ m \in DOMAIN events
          BY <4>2, <4>n, <5>1 DEF NoEventTwice
        <5>2. CASE n = Len(events) + 1 /\ m \in DOMAIN events
          BY <4>2, <4>3, <4>n, <5>2 DEF Untold
        <5>3. CASE n \in DOMAIN events /\ m = Len(events) + 1
          BY <4>2, <4>3, <4>n, <5>3 DEF Untold
        <5> QED
          BY <4>m, <5>1, <5>2, <5>3
      <4> QED
        BY <1>0, <1>6, <2>1, <4>2, <4>4, <4>5 DEF FounderTypes
    <3>4. pending = <<>> \/ Len(pending) = 1
      BY <1>t, <3>1, NoneOrOne
    <3> QED
      BY <3>2, <3>3, <3>4
  <2> QED
    BY <1>6, <2>2, <2>3
<1>7. CASE RefuseGrant(p)
  BY <1>0, <1>6, <1>7 DEF RefuseGrant, Ready
<1>8. CASE FlushAudit(p)
  BY <1>0, <1>6, <1>8 DEF FlushAudit, Ready
<1>9. CASE Fails(p)
  <2> DEFINE e == [pc |-> "ready", copy |-> <<>>, pending |-> pending]
  <2>1. e \in FounderEntries
    BY <1>t DEF FounderEntries
  <2>2. process' = [process EXCEPT ![p] = e]
    <3>1. [process[p] EXCEPT !.pc = "ready", !.copy = <<>>] = e
      BY <1>0, ReadyEntry
    <3>2. process' = [process EXCEPT ![p] = [process[p] EXCEPT !.pc = "ready", !.copy = <<>>]]
      BY <1>0, <1>9 DEF Fails, FounderTypes
    <3> QED
      BY <3>1, <3>2
  <2>3. /\ process[p].pc \in {"write", "audit"} /\ UNCHANGED <<today, approvals>>
        /\ \/ UNCHANGED events
           \/ process[p].pc = "audit" /\ events' = events \o pending
    BY <1>9 DEF Fails
  <2> QED
    BY <1>6, <2>1, <2>2, <2>3
<1>10. CASE Killed(p)
  <2>1. CASE process[p].pc # "ready"
    BY <1>0, <1>6, <1>10, <2>1 DEF Killed, Ready
  <2>2. CASE process[p].pc = "ready"
    <3>1. process' \in [Process -> FounderEntries] /\ process'[p].pc = "ready"
          /\ \A q \in Process \ {p} : process'[q] = process[q]
      BY <1>0, <1>10 DEF Killed, Ready, FounderTypes
    <3>2. FileLock'
      BY <3>1, <2>2 DEF FileLock
    <3>3. ASSUME NEW q \in Process PROVE Works(process[q])'
      BY <1>10, <3>1 DEF Works, Killed, Untold
    <3> QED
      BY <1>10, <3>1, <3>2, <3>3 DEF Killed, FounderTypes, AllTrue, NoEventTwice
  <2> QED
    BY <2>1, <2>2
<1>11. CASE WriteState(p)
  <2>0. PICK as \in Seq(FounderRecords), new \in Seq(FounderEvents) : as = copy /\ new = pending
    BY <1>t
  <2> DEFINE e == [pc |-> "audit", copy |-> as, pending |-> new]
  <2>1. process[p].pc = "write" /\ approvals' = as /\ UNCHANGED <<today, events>>
    BY <1>11, <2>0 DEF WriteState
  <2>2. e \in FounderEntries
    BY DEF FounderEntries
  <2>3. process' = [process EXCEPT ![p] = e]
    <3>1. [process[p] EXCEPT !.pc = "audit"] = e
      BY <1>0, <2>0 DEF FounderEntries
    <3>2. process' = [process EXCEPT ![p] = [process[p] EXCEPT !.pc = "audit"]]
      BY <1>11 DEF WriteState
    <3> QED
      BY <3>1, <3>2
  <2>4. /\ OneRecordEach(as) /\ Grown(approvals, as) /\ Len(new) \in {0, 1}
        /\ \A n \in DOMAIN new : Tells(new[n], as) /\ Untold(new[n])
    BY <1>0, <2>0, <2>1 DEF Works
  <2>5. Works(e)'
    BY <2>1, <2>4 DEF Works, Grown, Untold
  <2>6. AllTrue'
    <3> SUFFICES ASSUME NEW n \in DOMAIN events PROVE Tells(events[n], as)
      BY <2>1 DEF AllTrue
    <3>1. Tells(events[n], approvals)
      BY DEF AllTrue
    <3> QED
      BY <2>4, <3>1 DEF Tells, Grown
  <2>7. OneRecordEach(approvals)'
    BY <2>1, <2>4 DEF OneRecordEach
  <2> QED
    BY <1>0, <2>1, <2>2, <2>3, <2>5, <2>6, <2>7, FounderEntry DEF FounderTypes, NoEventTwice
<1> QED
  BY <1>1, <1>3, <1>4, <1>5, <1>7, <1>8, <1>9, <1>10, <1>11

LEMMA FounderNextInv == FounderInv /\ [FounderNext]_founderVars => FounderInv'
<1> SUFFICES ASSUME FounderInv, [FounderNext]_founderVars PROVE FounderInv'
  OBVIOUS
<1>1. CASE NextDay
  <2>1. today' \in Nat /\ UNCHANGED <<approvals, events, process>>
    BY <1>1 DEF NextDay, FounderInv, FounderTypes
  <2> QED
    BY <2>1 DEF FounderInv, FounderTypes, FileLock, Works, Untold, AllTrue, NoEventTwice
<1>2. CASE UNCHANGED founderVars
  BY <1>2 DEF founderVars, FounderInv, FounderTypes, FileLock, Works, Untold, AllTrue,
              NoEventTwice
<1> QED
  BY <1>1, <1>2, FounderStep DEF FounderNext

\* Every variable of the store of founder approvals has its type.
THEOREM FounderTypeCorrect == FounderSpec => []FounderTypeOK
<1>1. FounderInv => FounderTypeOK
  <2> SUFFICES ASSUME FounderTypes PROVE FounderTypeOK
    BY DEF FounderInv
  <2>1. \A i \in DOMAIN approvals : approvals[i] \in FounderRecords
    BY DEF FounderTypes
  <2>2. \A p \in Process : process[p].pc \in {"ready", "decide", "write", "audit"}
    BY DEF FounderTypes, FounderEntries
  <2> QED
    BY <2>1, <2>2 DEF FounderTypes, FounderTypeOK, FounderRecords
<1> QED
  BY <1>1, FounderInitInv, FounderNextInv, PTL DEF FounderSpec

\* The audit file of the founder approvals is true of the records and tells of nothing
\* twice, and no question has two records (_locked_state, _write_state, _flush_audit),
\* for any processes, founders and questions and wherever they fail or die.
THEOREM FounderAuditIsTrue == FounderSpec => []AuditIsTrue
<1>1. FounderInv => AuditIsTrue
  BY DEF FounderInv, OneRecordEach, AllTrue, Tells, NoEventTwice, AuditIsTrue
<1> QED
  BY <1>1, FounderInitInv, FounderNextInv, PTL DEF FounderSpec

-----------------------------------------------------------------------------
(* Goals that wait for an approval *)

GoalEntries == [at : GoalPlaces, goal : Goal \cup {NoGoal}, next : GoalPlaces, tries : 0 .. 2]

\* The process has taken the goal for an APPROVE or a REJECT, and has not put it back.
Carries(g, p) ==
    /\ runner[p].goal = g /\ g \notin table[p]
    /\ runner[p].at \in {"taken", "apply", "save", "saving"}

Registers(g, p) == runner[p].goal = g /\ IsAt(p, "register")

Nowhere(g) == g \notin OnDisk /\ \A p \in Runner : g \notin table[p] /\ ~Carries(g, p)

\* Who has a goal has it alone, and the file only shows it until he has saved.
Carried(g) ==
    \A p \in Runner : Carries(g, p) =>
        /\ \A q \in Runner : g \notin table[q] /\ (Carries(g, q) => q = p)
        /\ g \in OnDisk => IsAt(p, "save")
        /\ g \in rejected => runner[p].at \in {"save", "saving"} /\ runner[p].next = "quiet"

\* A goal that was applied is gone, and so is one that was rejected, once that is saved.
Concluded(g) ==
    /\ applied[g] <= 1
    /\ applied[g] > 0 => Nowhere(g) /\ g \notin rejected
    /\ g \in rejected => \A q \in Runner : g \notin table[q]
    /\ g \in rejected /\ g \in OnDisk => \E p \in Runner : Carries(g, p)

\* Nobody waits for a goal before the one process that registers it has done so.
Unasked(g) ==
    /\ g \notin registered => Nowhere(g) /\ applied[g] = 0 /\ g \notin rejected
                              /\ \A p \in Runner : ~Registers(g, p)
    /\ \A p \in Runner : Registers(g, p) =>
        /\ Nowhere(g) /\ applied[g] = 0 /\ g \notin rejected
        /\ \A q \in Runner : Registers(g, q) => q = p

Applies(g, p) == runner[p].goal = g /\ runner[p].at \in {"apply", "consume"}

\* One process at a time applies the goal, and until it has used the confirmation up.
Confirmed(g) ==
    /\ applied[g] <= 1
    /\ \A p \in Runner : Applies(g, p) =>
        /\ IsAt(p, "apply") => applied[g] = 0
        /\ \A q \in Runner : Applies(g, q) => q = p
    /\ applied[g] > 0 => g \in used \/ \E p \in Runner : Applies(g, p) /\ IsAt(p, "consume")

Placed ==
    /\ OnDisk \subseteq registered
    /\ \A p \in Runner :
        /\ runner[p].at # "quiet" => runner[p].goal \in registered
        /\ runner[p].at \in {"save", "saving"} =>
            /\ runner[p].next \in {"quiet", "again", "taken"}
            /\ runner[p].next = "taken" => runner[p].goal \notin table[p]
        /\ runner[p].at \in {"taken", "apply"} => runner[p].goal \notin table[p]

GoalFlow ==
    /\ GoalTypeOK /\ Placed
    /\ \A g \in Goal : Unasked(g) /\ (g \notin echoed => Carried(g) /\ Concluded(g))

ConfirmedOnce == \A g \in Goal : confirming /\ g \notin overlapped => Confirmed(g)

GoalInv == GoalFlow /\ ConfirmedOnce

LEMMA GoalSets ==
    ASSUME GoalTypeOK
    PROVE  /\ registered \subseteq Goal /\ used \subseteq Goal /\ rejected \subseteq Goal
           /\ echoed \subseteq Goal /\ overlapped \subseteq Goal /\ OnDisk \subseteq Goal
           /\ table \in [Runner -> SUBSET registered] /\ runner \in [Runner -> GoalEntries]
           /\ applied \in [Goal -> Nat]
<1>1. OnDisk \subseteq Goal
  <2>1. goalFile \subseteq Goal \/ goalFile = CutOff
    BY DEF GoalTypeOK
  <2> QED
    BY <2>1 DEF OnDisk
<1>2. /\ registered \subseteq Goal /\ used \subseteq Goal /\ rejected \subseteq Goal
      /\ echoed \subseteq Goal /\ overlapped \subseteq Goal
  BY DEF GoalTypeOK
<1>3. /\ table \in [Runner -> SUBSET registered] /\ runner \in [Runner -> GoalEntries]
      /\ applied \in [Goal -> Nat]
  BY DEF GoalTypeOK, GoalEntries
<1> QED
  BY <1>1, <1>2, <1>3

LEMMA ProceedsEntry ==
    ASSUME GoalTypeOK, NEW p \in Runner, NEW place \in GoalPlaces, Proceeds(p, place)
    PROVE  /\ runner' \in [Runner -> GoalEntries]
           /\ runner'[p].at = place /\ runner'[p].goal = runner[p].goal
           /\ runner'[p].next = runner[p].next
           /\ \A q \in Runner \ {p} : runner'[q] = runner[q]
<1>1. runner[p] \in GoalEntries /\ runner \in [Runner -> GoalEntries]
  BY GoalSets
<1>2. [runner[p] EXCEPT !.at = place] \in GoalEntries
  BY <1>1 DEF GoalEntries
<1>3. runner' = [runner EXCEPT ![p] = [runner[p] EXCEPT !.at = place]]
  BY DEF Proceeds
<1> QED
  BY <1>1, <1>2, <1>3 DEF GoalEntries

LEMMA SavesEntry ==
    ASSUME GoalTypeOK, NEW p \in Runner, NEW place \in GoalPlaces, SavesAnd(p, place)
    PROVE  /\ runner' \in [Runner -> GoalEntries]
           /\ runner'[p].at = "save" /\ runner'[p].goal = runner[p].goal
           /\ runner'[p].next = place
           /\ \A q \in Runner \ {p} : runner'[q] = runner[q]
<1>1. runner[p] \in GoalEntries /\ runner \in [Runner -> GoalEntries]
  BY GoalSets
<1> DEFINE e == [runner[p] EXCEPT !.at = "save"]
           f == [e EXCEPT !.next = place]
<1>2. e \in GoalEntries /\ e.goal = runner[p].goal /\ e.at = "save"
  BY <1>1 DEF GoalEntries, GoalPlaces
<1> HIDE DEF e
<1>3. f \in GoalEntries /\ f.goal = e.goal /\ f.at = e.at /\ f.next = place
  BY <1>2 DEF GoalEntries
<1>4. runner' = [runner EXCEPT ![p] = f]
  BY <1>1 DEF SavesAnd, e
<1> HIDE DEF f
<1> QED
  BY <1>1, <1>2, <1>3, <1>4

\* What a process sees in the file that another has just taken.
LEMMA CopiedGoal ==
    ASSUME NEW g, NEW p \in Runner, NEW q \in Runner, q # p, g \in OnDisk,
           Carries(g, q), IsAt(q, "save")
    PROVE  g \in Copied(p)
  BY DEF Copied, Carries, TakenUnsaved

\* A step that takes nothing up.
LEMMA FlowMoves ==
    ASSUME GoalFlow, NEW p \in Runner, GoalTypeOK',
           UNCHANGED <<registered, applied, rejected>>, echoed \subseteq echoed',
           \A q \in Runner \ {p} : runner'[q] = runner[q] /\ table'[q] = table[q],
           table'[p] \subseteq table[p], OnDisk' \subseteq OnDisk \cup table[p],
           runner'[p].at \notin {"register", "save"},
           runner'[p].at # "quiet" => /\ runner'[p].goal = runner[p].goal
                                      /\ table'[p] = table[p] /\ runner[p].at # "quiet",
           runner'[p].at = "saving" => /\ runner[p].at = "save"
                                       /\ runner'[p].next = runner[p].next,
           runner'[p].at = "taken" => /\ runner[p].at \in {"save", "saving"}
                                      /\ runner[p].next = "taken",
           runner'[p].at = "apply" => runner[p].at = "taken",
           \A g \in Goal \ echoed' : Carries(g, p) => g \notin OnDisk'
    PROVE  GoalFlow'
<1>1. Placed'
  BY DEF GoalFlow, GoalTypeOK, Placed
<1> SUFFICES ASSUME NEW g \in Goal
             PROVE  (Unasked(g) /\ (g \notin echoed => Carried(g) /\ Concluded(g)))'
  BY <1>1 DEF GoalFlow
<1>2. \A q \in Runner : /\ g \in table'[q] => g \in table[q]
                        /\ Carries(g, q)' => Carries(g, q)
                        /\ Registers(g, q)' => Registers(g, q)
  BY DEF Carries, Registers, IsAt, GoalFlow, Placed
<1>3. \A q \in Runner : Carries(g, q) /\ q # p => Carries(g, q)'
  BY DEF Carries
<1>4. Unasked(g)'
  BY <1>2 DEF GoalFlow, Unasked, Nowhere
<1>5. ASSUME g \notin echoed' PROVE Carried(g)' /\ Concluded(g)'
  <2>1. Carried(g) /\ Concluded(g)
    BY <1>5 DEF GoalFlow
  <2>2. g \in OnDisk' => g \in OnDisk \/ \E q \in Runner : g \in table[q]
    OBVIOUS
  <2>3. \A q \in Runner : Carries(g, q) /\ g \in OnDisk' => q # p /\ IsAt(q, "save") /\ IsAt(q, "save")'
    BY <1>5, <2>1, <2>2 DEF Carried, IsAt
  <2>4. \A q \in Runner : Carries(g, q)' /\ g \in rejected =>
            runner'[q].at \in {"save", "saving"} /\ runner'[q].next = "quiet"
    BY <1>2, <2>1 DEF Carried, Carries
  <2>5. Carried(g)'
    BY <1>2, <2>1, <2>3, <2>4 DEF Carried
  <2>6. Concluded(g)'
    BY <1>2, <1>3, <2>1, <2>2, <2>3 DEF Concluded, Nowhere
  <2> QED
    BY <2>5, <2>6
<1> QED
  BY <1>4, <1>5

\* A step that leaves the goals of the table, the file and the applications as they are.
LEMMA ConfirmedKeeps ==
    ASSUME ConfirmedOnce, NEW p \in Runner, UNCHANGED <<confirming, applied>>,
           used \subseteq used', overlapped \subseteq overlapped',
           \A q \in Runner \ {p} : runner'[q] = runner[q],
           runner[p].at \notin {"apply", "consume"}, runner'[p].at \notin {"apply", "consume"}
    PROVE  ConfirmedOnce'
<1> SUFFICES ASSUME NEW g \in Goal, confirming, g \notin overlapped' PROVE Confirmed(g)'
  BY DEF ConfirmedOnce
<1>1. Confirmed(g)
  BY DEF ConfirmedOnce
<1>2. \A q \in Runner : Applies(g, q)' <=> Applies(g, q)
  BY DEF Applies
<1>3. \A q \in Runner : Applies(g, q) => runner'[q] = runner[q]
  BY DEF Applies
<1> QED
  BY <1>1, <1>2, <1>3 DEF Confirmed, IsAt

LEMMA GoalFlowTypes ==
    ASSUME GoalInv, NEW p \in Runner
    PROVE  /\ GoalTypeOK /\ runner[p] \in GoalEntries /\ table[p] \subseteq registered
           /\ OnDisk \subseteq registered /\ registered \subseteq Goal /\ NoGoal \notin Goal
  BY GoalSets, GoalAssumption DEF GoalInv, GoalFlow, Placed

LEMMA EmptyFileKeeps ==
    ASSUME GoalInv, NEW p \in Runner, EmptyFile(p)
    PROVE  GoalInv'
<1>1. runner' \in [Runner -> GoalEntries] /\ runner'[p].at = "saving" /\ runner[p].at = "save"
      /\ runner'[p].goal = runner[p].goal /\ runner'[p].next = runner[p].next
      /\ \A q \in Runner \ {p} : runner'[q] = runner[q]
  BY GoalFlowTypes, ProceedsEntry DEF EmptyFile, IsAt, GoalPlaces
<1>2. OnDisk' = {} /\ goalFile' = CutOff
  BY DEF EmptyFile, OnDisk, CutOff
<1>3. GoalTypeOK'
  <2>1. goalFile' \in (SUBSET Goal) \cup {CutOff}
    BY <1>2
  <2> QED
    BY <1>1, <2>1, GoalFlowTypes DEF EmptyFile, GoalTypeOK, GoalEntries
<1>4. GoalFlow'
  BY <1>1, <1>2, <1>3, FlowMoves DEF EmptyFile, GoalInv
<1>5. ConfirmedOnce'
  BY <1>1, ConfirmedKeeps DEF EmptyFile, GoalInv
<1> QED
  BY <1>4, <1>5 DEF GoalInv

LEMMA FillFileKeeps ==
    ASSUME GoalInv, NEW p \in Runner, FillFile(p)
    PROVE  GoalInv'
<1>0. /\ IsAt(p, "saving") /\ Proceeds(p, runner[p].next) /\ goalFile' = table[p]
      /\ UNCHANGED <<confirming, asked, registered, table, used, applied, rejected, echoed,
                     overlapped>>
      /\ runner[p].next \in {"quiet", "again", "taken"}
  BY DEF FillFile, GoalInv, GoalFlow, Placed, IsAt
<1>1. runner' \in [Runner -> GoalEntries] /\ runner'[p].at = runner[p].next
      /\ runner'[p].goal = runner[p].goal /\ \A q \in Runner \ {p} : runner'[q] = runner[q]
  BY <1>0, GoalFlowTypes, ProceedsEntry DEF GoalPlaces
<1>2. OnDisk' = table[p] /\ goalFile' \in SUBSET Goal
  BY <1>0, GoalFlowTypes DEF OnDisk, CutOff
<1>3. GoalTypeOK'
  BY <1>0, <1>1, <1>2, GoalFlowTypes DEF GoalTypeOK, GoalEntries
<1>4. \A g \in Goal \ echoed' : Carries(g, p) => g \notin OnDisk'
  BY <1>2 DEF Carries
<1>5. GoalFlow'
  BY <1>0, <1>1, <1>2, <1>3, <1>4, FlowMoves DEF GoalInv, IsAt
<1>6. ConfirmedOnce'
  BY <1>0, <1>1, ConfirmedKeeps DEF GoalInv, IsAt
<1> QED
  BY <1>5, <1>6 DEF GoalInv

LEMMA SaveGoalsFailsKeeps ==
    ASSUME GoalInv, NEW p \in Runner, SaveGoalsFails(p)
    PROVE  GoalInv'
<1>0. /\ runner[p].at \in {"save", "saving"} /\ Proceeds(p, runner[p].next)
      /\ UNCHANGED <<confirming, asked, registered, goalFile, table, used, applied, rejected,
                     overlapped>>
      /\ runner[p].next \in {"quiet", "again", "taken"}
      /\ echoed' = IF TakenUnsaved(p) THEN echoed \cup {runner[p].goal} ELSE echoed
      /\ OnDisk' = OnDisk
  BY DEF SaveGoalsFails, GoalInv, GoalFlow, Placed, IsAt, OnDisk
<1>1. runner' \in [Runner -> GoalEntries] /\ runner'[p].at = runner[p].next
      /\ runner'[p].goal = runner[p].goal /\ \A q \in Runner \ {p} : runner'[q] = runner[q]
  BY <1>0, GoalFlowTypes, ProceedsEntry DEF GoalPlaces
<1>2. runner[p].goal \in Goal
  BY <1>0, GoalFlowTypes DEF GoalInv, GoalFlow, Placed
<1>3. GoalTypeOK'
  BY <1>0, <1>1, <1>2, GoalFlowTypes DEF GoalTypeOK, GoalEntries
<1>4. ASSUME NEW g \in Goal \ echoed', Carries(g, p) PROVE g \notin OnDisk'
  <2>1. ~TakenUnsaved(p) /\ g \notin echoed /\ ~IsAt(p, "save")
    BY <1>0, <1>4 DEF Carries, TakenUnsaved
  <2> QED
    BY <1>0, <1>4, <2>1 DEF GoalInv, GoalFlow, Carried
<1>5. GoalFlow'
  BY <1>0, <1>1, <1>3, <1>4, FlowMoves DEF GoalInv
<1>6. ConfirmedOnce'
  BY <1>0, <1>1, ConfirmedKeeps DEF GoalInv
<1> QED
  BY <1>5, <1>6 DEF GoalInv

LEMMA LookAgainKeeps ==
    ASSUME GoalInv, NEW p \in Runner, LookAgain(p)
    PROVE  GoalInv'
<1> DEFINE place == IF runner[p].tries < 2 THEN "approve" ELSE "quiet"
           e == [runner[p] EXCEPT !.at = place]
           f == [e EXCEPT !.tries = 2]
<1>1. runner[p] \in GoalEntries /\ place \in {"approve", "quiet"} /\ runner[p].at = "again"
  BY GoalFlowTypes DEF LookAgain, IsAt
<1>2. e \in GoalEntries /\ e.at = place /\ e.goal = runner[p].goal /\ e.next = runner[p].next
  BY <1>1 DEF GoalEntries, GoalPlaces
<1>3. runner' = [runner EXCEPT ![p] = f]
  BY <1>1, GoalFlowTypes, GoalSets DEF LookAgain
<1> HIDE DEF e
<1>4. f \in GoalEntries /\ f.at = place /\ f.goal = runner[p].goal /\ f.next = runner[p].next
  BY <1>2 DEF GoalEntries
<1> HIDE DEF f, place
<1>5. runner' \in [Runner -> GoalEntries] /\ runner'[p].at \in {"approve", "quiet"}
      /\ runner'[p].goal = runner[p].goal /\ \A q \in Runner \ {p} : runner'[q] = runner[q]
  BY <1>1, <1>3, <1>4, GoalFlowTypes, GoalSets
<1>6. GoalTypeOK' /\ OnDisk' = OnDisk
  BY <1>5, GoalFlowTypes DEF LookAgain, GoalTypeOK, GoalEntries, OnDisk
<1>7. GoalFlow'
  BY <1>1, <1>5, <1>6, FlowMoves DEF LookAgain, GoalInv, Carries
<1>8. ConfirmedOnce'
  BY <1>1, <1>5, ConfirmedKeeps DEF LookAgain, GoalInv
<1> QED
  BY <1>7, <1>8 DEF GoalInv

LEMMA ConfirmGoalKeeps ==
    ASSUME GoalInv, NEW p \in Runner, ConfirmGoal(p)
    PROVE  GoalInv'
<1> DEFINE g == runner[p].goal
<1>0. /\ runner[p].at = "taken" /\ Proceeds(p, "apply") /\ (confirming => g \notin used)
      /\ UNCHANGED <<confirming, asked, registered, goalFile, table, used, applied, rejected,
                     echoed>>
      /\ overlapped' = IF \E q \in Runner \ {p} : Applies(g, q) THEN overlapped \cup {g}
                       ELSE overlapped
      /\ OnDisk' = OnDisk /\ g \in Goal
  BY GoalFlowTypes DEF ConfirmGoal, IsAt, OnDisk, Applies, GoalInv, GoalFlow, Placed
<1>1. runner' \in [Runner -> GoalEntries] /\ runner'[p].at = "apply"
      /\ runner'[p].goal = g /\ \A q \in Runner \ {p} : runner'[q] = runner[q]
  BY <1>0, GoalFlowTypes, ProceedsEntry DEF GoalPlaces
<1>2. GoalTypeOK'
  BY <1>0, <1>1, GoalFlowTypes DEF GoalTypeOK, GoalEntries
<1>3. \A h \in Goal \ echoed : Carries(h, p) => h \notin OnDisk
  BY <1>0 DEF GoalInv, GoalFlow, Carried, IsAt
<1>4. GoalFlow'
  BY <1>0, <1>1, <1>2, <1>3, FlowMoves DEF GoalInv
<1>5. ASSUME NEW h \in Goal, confirming, h \notin overlapped' PROVE Confirmed(h)'
  <2>1. Confirmed(h) /\ applied[h] \in Nat
    BY <1>0, <1>5, GoalFlowTypes, GoalSets DEF GoalInv, ConfirmedOnce
  <2>2. \A q \in Runner \ {p} : Applies(h, q)' <=> Applies(h, q)
    BY <1>1 DEF Applies
  <2>3. Applies(h, p)' <=> h = g
    BY <1>1 DEF Applies
  <2>4. ~Applies(h, p)
    BY <1>0 DEF Applies
  <2>5. CASE h # g
    BY <1>0, <1>1, <2>1, <2>2, <2>3, <2>4, <2>5 DEF Confirmed, IsAt
  <2>6. CASE h = g
    <3>1. h \notin used /\ \A q \in Runner : ~Applies(h, q)
      BY <1>0, <1>5, <2>4, <2>6
    <3>2. applied[h] = 0
      BY <2>1, <3>1 DEF Confirmed
    <3> QED
      BY <1>0, <1>1, <2>1, <2>2, <3>1, <3>2 DEF Confirmed, IsAt
  <2> QED
    BY <2>5, <2>6
<1> QED
  BY <1>0, <1>4, <1>5 DEF GoalInv, ConfirmedOnce

\* The goal has been applied, or has not: nobody carries it any more.
LEMMA ApplyRaisesKeeps ==
    ASSUME GoalInv, NEW p \in Runner, ApplyRaises(p)
    PROVE  GoalInv'
<1>0. /\ runner[p].at = "apply" /\ Proceeds(p, "quiet") /\ OnDisk' = OnDisk
      /\ UNCHANGED <<confirming, asked, registered, goalFile, table, used, applied, rejected,
                     echoed, overlapped>>
  BY DEF ApplyRaises, IsAt, OnDisk
<1>1. runner' \in [Runner -> GoalEntries] /\ runner'[p].at = "quiet"
      /\ runner'[p].goal = runner[p].goal /\ \A q \in Runner \ {p} : runner'[q] = runner[q]
  BY <1>0, GoalFlowTypes, ProceedsEntry DEF GoalPlaces
<1>2. GoalTypeOK'
  BY <1>0, <1>1, GoalFlowTypes DEF GoalTypeOK, GoalEntries
<1>3. \A h \in Goal \ echoed : Carries(h, p) => h \notin OnDisk
  BY <1>0 DEF GoalInv, GoalFlow, Carried, IsAt
<1>4. GoalFlow'
  BY <1>0, <1>1, <1>2, <1>3, FlowMoves DEF GoalInv
<1>5. ASSUME NEW h \in Goal, confirming, h \notin overlapped PROVE Confirmed(h)'
  <2>1. Confirmed(h)
    BY <1>5 DEF GoalInv, ConfirmedOnce
  <2>2. \A q \in Runner : Applies(h, q)' => Applies(h, q) /\ q # p
    BY <1>1 DEF Applies
  <2>3. \A q \in Runner : Applies(h, q) /\ IsAt(q, "consume") => Applies(h, q)' /\ IsAt(q, "consume")'
    BY <1>0, <1>1 DEF Applies, IsAt
  <2> QED
    BY <1>0, <1>1, <2>1, <2>2, <2>3 DEF Confirmed, IsAt
<1> QED
  BY <1>0, <1>4, <1>5 DEF GoalInv, ConfirmedOnce

LEMMA ConsumeConfirmationKeeps ==
    ASSUME GoalInv, NEW p \in Runner, ConsumeConfirmation(p)
    PROVE  GoalInv'
<1> DEFINE g == runner[p].goal
<1>0. /\ runner[p].at = "consume" /\ Proceeds(p, "quiet") /\ OnDisk' = OnDisk
      /\ UNCHANGED <<confirming, asked, registered, goalFile, table, applied, rejected, echoed>>
      /\ \/ used' = used \cup {g} /\ overlapped' = overlapped
         \/ used' = used /\ overlapped' = overlapped \cup {g}
      /\ g \in Goal
  BY GoalFlowTypes DEF ConsumeConfirmation, IsAt, OnDisk, GoalInv, GoalFlow, Placed
<1>1. runner' \in [Runner -> GoalEntries] /\ runner'[p].at = "quiet"
      /\ runner'[p].goal = runner[p].goal /\ \A q \in Runner \ {p} : runner'[q] = runner[q]
  BY <1>0, GoalFlowTypes, ProceedsEntry DEF GoalPlaces
<1>2. GoalTypeOK'
  BY <1>0, <1>1, GoalFlowTypes DEF GoalTypeOK, GoalEntries
<1>3. GoalFlow'
  BY <1>0, <1>1, <1>2, FlowMoves DEF GoalInv, Carries
<1>4. ASSUME NEW h \in Goal, confirming, h \notin overlapped' PROVE Confirmed(h)'
  <2>1. Confirmed(h)
    BY <1>0, <1>4 DEF GoalInv, ConfirmedOnce
  <2>2. \A q \in Runner : Applies(h, q)' => Applies(h, q) /\ q # p
    BY <1>1 DEF Applies
  <2>3. \A q \in Runner \ {p} : Applies(h, q) /\ IsAt(q, "consume")
                                    => Applies(h, q)' /\ IsAt(q, "consume")'
    BY <1>1 DEF Applies, IsAt
  <2>4. Applies(h, p) => h \in used'
    BY <1>0, <1>4 DEF Applies
  <2> QED
    BY <1>0, <1>1, <2>1, <2>2, <2>3, <2>4 DEF Confirmed, IsAt
<1> QED
  BY <1>0, <1>3, <1>4 DEF GoalInv, ConfirmedOnce

LEMMA RunnerEndsKeeps ==
    ASSUME GoalInv, NEW p \in Runner, RunnerEnds(p)
    PROVE  GoalInv'
<1> DEFINE g == runner[p].goal
<1>0. /\ runner' = [runner EXCEPT ![p] = Quiet] /\ table' = [table EXCEPT ![p] = {}]
      /\ UNCHANGED <<confirming, asked, registered, goalFile, used, applied, rejected>>
      /\ echoed' = IF TakenUnsaved(p) THEN echoed \cup {g} ELSE echoed
      /\ overlapped' = IF IsAt(p, "consume") THEN overlapped \cup {g} ELSE overlapped
      /\ OnDisk' = OnDisk
  BY DEF RunnerEnds, OnDisk
<1>1. IsAt(p, "save") \/ IsAt(p, "consume") => g \in Goal
  BY GoalFlowTypes DEF IsAt, GoalInv, GoalFlow, Placed
<1>2. Quiet \in GoalEntries
  BY DEF Quiet, GoalEntries, GoalPlaces
<1>3. /\ runner' \in [Runner -> GoalEntries] /\ runner'[p].at = "quiet"
      /\ \A q \in Runner \ {p} : runner'[q] = runner[q] /\ table'[q] = table[q]
      /\ table' \in [Runner -> SUBSET registered] /\ table'[p] = {}
  BY <1>0, <1>2, GoalFlowTypes, GoalSets DEF Quiet
<1>4. GoalTypeOK'
  BY <1>0, <1>1, <1>3, GoalFlowTypes DEF GoalTypeOK, GoalEntries, TakenUnsaved
<1>5. ASSUME NEW h \in Goal \ echoed', Carries(h, p) PROVE h \notin OnDisk
  <2>1. ~TakenUnsaved(p) /\ h \notin echoed /\ ~IsAt(p, "save")
    BY <1>0, <1>5 DEF Carries, TakenUnsaved
  <2> QED
    BY <1>5, <2>1 DEF GoalInv, GoalFlow, Carried
<1>6. GoalFlow'
  BY <1>0, <1>3, <1>4, <1>5, FlowMoves DEF GoalInv
<1>7. ASSUME NEW h \in Goal, confirming, h \notin overlapped' PROVE Confirmed(h)'
  <2>1. Confirmed(h)
    BY <1>0, <1>7 DEF GoalInv, ConfirmedOnce
  <2>2. \A q \in Runner : Applies(h, q)' => Applies(h, q) /\ q # p
    BY <1>3 DEF Applies
  <2>3. \A q \in Runner : Applies(h, q) /\ IsAt(q, "consume")
                            => q # p /\ Applies(h, q)' /\ IsAt(q, "consume")'
    BY <1>0, <1>3, <1>7 DEF Applies, IsAt
  <2> QED
    BY <1>0, <1>3, <2>1, <2>2, <2>3 DEF Confirmed, IsAt
<1> QED
  BY <1>0, <1>6, <1>7 DEF GoalInv, ConfirmedOnce

\* An instruction about a goal that nobody asked before goes to the one that registers it.
LEMMA AskGoalKeeps ==
    ASSUME GoalInv, NEW p \in Runner, AskGoal(p)
    PROVE  GoalInv'
<1>1. PICK g \in Goal, what \in {"register", "approve", "reject"} :
        /\ what = "register" <=> g \notin registered
        /\ runner' = [runner EXCEPT ![p] = [at |-> what, goal |-> g, next |-> "quiet",
                                            tries |-> 1]]
        /\ registered' = registered \cup {g}
  BY DEF AskGoal
<1>2. /\ runner[p].at = "quiet" /\ asked < MaxAsked /\ asked' = asked + 1 /\ OnDisk' = OnDisk
      /\ UNCHANGED <<confirming, goalFile, table, used, applied, rejected, echoed, overlapped>>
  BY DEF AskGoal, IsAt, OnDisk
<1>3. [at |-> what, goal |-> g, next |-> "quiet", tries |-> 1] \in GoalEntries
  BY DEF GoalEntries, GoalPlaces
<1>4. /\ runner' \in [Runner -> GoalEntries]
      /\ runner'[p].at = what /\ runner'[p].goal = g /\ runner'[p].next = "quiet"
      /\ \A q \in Runner \ {p} : runner'[q] = runner[q]
  BY <1>1, <1>3, GoalFlowTypes, GoalSets
<1>5. asked' \in 0 .. MaxAsked
  BY <1>2, GoalFlowTypes, GoalAssumption DEF GoalTypeOK
<1>6. registered' \subseteq Goal /\ table' \in [Runner -> SUBSET registered']
  BY <1>1, <1>2, GoalFlowTypes, GoalSets
<1>7. GoalTypeOK'
  BY <1>2, <1>4, <1>5, <1>6, GoalFlowTypes DEF GoalTypeOK, GoalEntries
<1>8. Placed'
  BY <1>1, <1>2, <1>4 DEF GoalInv, GoalFlow, Placed
<1>9. ASSUME NEW h \in Goal PROVE Unasked(h)' /\ (h \notin echoed' => Carried(h)' /\ Concluded(h)')
  <2>1. Unasked(h) /\ (h \notin echoed => Carried(h) /\ Concluded(h))
    BY DEF GoalInv, GoalFlow
  <2>2. ~Carries(h, p) /\ \A q \in Runner : Carries(h, q)' <=> Carries(h, q)
    BY <1>2, <1>4 DEF Carries
  <2>3. Nowhere(h)' <=> Nowhere(h)
    BY <1>2, <2>2 DEF Nowhere
  <2>4. h \notin echoed' => Carried(h)' /\ Concluded(h)'
    BY <1>2, <1>4, <2>1, <2>2, <2>3 DEF Carried, Concluded, IsAt
  <2>5. Unasked(h)'
    <3>1. ~Registers(h, p) /\ \A q \in Runner \ {p} : Registers(h, q)' <=> Registers(h, q)
      BY <1>2, <1>4 DEF Registers, IsAt
    <3>2. Registers(h, p)' => h = g /\ h \notin registered
      BY <1>1, <1>4 DEF Registers, IsAt
    <3>3. h \notin registered' => h # g /\ h \notin registered
      BY <1>1
    <3>4. Registers(h, p)' => h \in registered'
      BY <1>1, <3>2
    <3>5. applied' = applied /\ rejected' = rejected
      BY <1>2
    <3> QED
      BY <2>1, <2>3, <3>1, <3>2, <3>3, <3>4, <3>5 DEF Unasked
  <2> QED
    BY <2>4, <2>5
<1>10. GoalFlow'
  BY <1>7, <1>8, <1>9 DEF GoalFlow
<1>11. ConfirmedOnce'
  BY <1>2, <1>4, ConfirmedKeeps DEF GoalInv
<1> QED
  BY <1>10, <1>11 DEF GoalInv

\* A step in which a process adds what the file has to its table, and takes a goal or none.
LEMMA FlowReads ==
    ASSUME GoalFlow, NEW p \in Runner, GoalTypeOK', OnDisk' = OnDisk, NEW g \in Goal,
           runner[p].goal = g, runner'[p].goal = g,
           UNCHANGED <<registered, applied>>,
           \A q \in Runner \ {p} : runner'[q] = runner[q] /\ table'[q] = table[q],
           table'[p] \subseteq table[p] \cup OnDisk \cup {g}, echoed \cup Copied(p) \subseteq echoed',
           rejected \subseteq rejected', rejected' \subseteq rejected \cup {g},
           runner[p].at \in {"register", "approve", "reject"},
           \/ /\ runner[p].at = "register" /\ g \in table'[p] /\ rejected' = rejected
              /\ runner'[p].at = "save" /\ runner'[p].next = "quiet"
           \/ /\ g \notin table[p] \cup OnDisk /\ rejected' = rejected
              /\ runner[p].at # "register" /\ g \notin table'[p] /\ runner'[p].at \in {"again", "quiet"}
           \/ /\ g \in table[p] \cup OnDisk /\ g \notin table'[p] /\ runner'[p].at = "save"
              /\ runner[p].at # "register"
              /\ (\E q \in Runner \ {p} : g \in table[q]) => g \in echoed'
              /\ g \in rejected' <=> g \in rejected \/ runner[p].at = "reject"
              /\ runner'[p].next = IF runner[p].at = "approve" THEN "taken" ELSE "quiet"
    PROVE  GoalFlow'
<1>1. Placed'
  BY DEF GoalFlow, GoalTypeOK, Placed
<1>2. \A h \in Goal : ~Carries(h, p)
  BY DEF Carries
<1>3. ASSUME NEW h \in Goal PROVE Unasked(h)'
  <2>1. Unasked(h)
    BY DEF GoalFlow
  <2>2. \A q \in Runner : Registers(h, q)' => Registers(h, q) /\ q # p
    BY DEF Registers, IsAt
  <2>3. ASSUME h \notin registered \/ \E q \in Runner : Registers(h, q)'
        PROVE  Nowhere(h)' /\ h \notin rejected'
    <3>1. Nowhere(h) /\ h \notin rejected
      BY <2>1, <2>2, <2>3 DEF Unasked
    <3>2. h \notin table'[p] /\ ~Carries(h, p)' /\ h \notin rejected'
      <4>1. CASE h # g
        BY <3>1, <4>1 DEF Nowhere, Carries
      <4>2. CASE h = g
        <5>1. g \in registered
          BY DEF GoalFlow, Placed
        <5>2. PICK q \in Runner : Registers(h, q) /\ q # p
          BY <2>2, <2>3, <4>2, <5>1
        <5>3. runner[p].at # "register"
          BY <2>1, <4>2, <5>2 DEF Unasked, Registers, IsAt
        <5>4. g \notin table[p] \cup OnDisk
          BY <3>1, <4>2 DEF Nowhere
        <5>5. g \notin table'[p] /\ runner'[p].at \in {"again", "quiet"} /\ rejected' = rejected
          BY <5>3, <5>4
        <5> QED
          BY <3>1, <4>2, <5>5 DEF Carries
      <4> QED
        BY <4>1, <4>2
    <3>3. \A q \in Runner \ {p} : h \notin table'[q] /\ ~Carries(h, q)'
      BY <3>1 DEF Nowhere, Carries
    <3> QED
      BY <3>1, <3>2, <3>3 DEF Nowhere
  <2> QED
    BY <2>1, <2>2, <2>3 DEF Unasked
<1>4. ASSUME NEW h \in Goal, h \notin echoed' PROVE Carried(h)' /\ Concluded(h)'
  <2>1. Carried(h) /\ Concluded(h) /\ Unasked(h)
    BY <1>4 DEF GoalFlow
  <2>2. \A q \in Runner : Carries(h, q) => h \notin OnDisk
    BY <1>2, <1>4, <2>1, CopiedGoal DEF Carried
  <2>3. \A q \in Runner \ {p} : Carries(h, q)' <=> Carries(h, q)
    BY DEF Carries
  <2>4. \A q \in Runner : Carries(h, q) => \A r \in Runner : h \notin table[r]
    BY <2>1 DEF Carried
  <2>5. h \in rejected => h \notin OnDisk /\ \A r \in Runner : h \notin table[r]
    BY <2>1, <2>2 DEF Concluded
  <2>6. applied[h] > 0 => h \notin OnDisk /\ \A r \in Runner : h \notin table[r] /\ ~Carries(h, r)
    BY <2>1 DEF Concluded, Nowhere
  <2>7. CASE h # g
    <3>1. ~Carries(h, p)' /\ (h \in rejected' <=> h \in rejected)
          /\ (h \in table'[p] => h \in table[p] \cup OnDisk)
      BY <2>7 DEF Carries
    <3>2. Carried(h)'
      BY <1>2, <2>1, <2>2, <2>3, <2>4, <3>1 DEF Carried, IsAt
    <3>3. Concluded(h)'
      BY <1>2, <2>1, <2>2, <2>3, <2>5, <2>6, <3>1 DEF Concluded, Nowhere
    <3> QED
      BY <3>2, <3>3
  <2>8. CASE h = g /\ runner[p].at = "register"
    <3>1. Nowhere(h) /\ applied[h] = 0 /\ h \notin rejected
      BY <2>1, <2>8 DEF Unasked, Registers, IsAt
    <3>2. \A q \in Runner : ~Carries(h, q)'
      BY <2>3, <2>8, <3>1 DEF Nowhere, Carries
    <3> QED
      BY <2>8, <3>1, <3>2 DEF Carried, Concluded, Nowhere
  <2>9. CASE h = g /\ g \notin table[p] \cup OnDisk /\ runner[p].at # "register"
    <3>1. ~Carries(h, p)' /\ h \notin table'[p] /\ rejected' = rejected
      BY <2>9 DEF Carries
    <3>2. Carried(h)'
      BY <1>2, <2>1, <2>3, <2>4, <2>9, <3>1 DEF Carried, IsAt
    <3>3. Concluded(h)'
      BY <1>2, <2>1, <2>3, <2>9, <3>1 DEF Concluded, Nowhere
    <3> QED
      BY <3>2, <3>3
  <2>10. CASE h = g /\ g \in table[p] \cup OnDisk /\ runner[p].at # "register"
    <3>1. /\ \A q \in Runner : ~Carries(h, q)
          /\ h \notin rejected /\ ~(applied[h] > 0)
      BY <2>2, <2>4, <2>5, <2>6, <2>10
    <3>2. /\ Carries(h, p)' /\ IsAt(p, "save")' /\ \A q \in Runner \ {p} : ~Carries(h, q)'
          /\ h \in rejected' => runner'[p].next = "quiet"
          /\ \A q \in Runner : h \notin table'[q]
      BY <1>4, <2>3, <2>10, <3>1 DEF Carries, IsAt
    <3>3. Carried(h)'
      BY <3>2 DEF Carried, IsAt
    <3>4. Concluded(h)'
      BY <2>1, <3>1, <3>2 DEF Concluded
    <3> QED
      BY <3>3, <3>4
  <2> QED
    BY <2>7, <2>8, <2>9, <2>10
<1> QED
  BY <1>1, <1>3, <1>4 DEF GoalFlow

LEMMA RegisterKeeps ==
    ASSUME GoalInv, NEW p \in Runner, Register(p)
    PROVE  GoalInv'
<1> DEFINE g == runner[p].goal
<1>0. /\ runner[p].at = "register" /\ SavesAnd(p, "quiet")
      /\ table' = [table EXCEPT ![p] = table[p] \cup OnDisk \cup {g}]
      /\ echoed' = echoed \cup Copied(p)
      /\ UNCHANGED <<confirming, asked, registered, goalFile, used, applied, rejected,
                     overlapped>>
      /\ OnDisk' = OnDisk /\ g \in registered
  BY GoalFlowTypes DEF Register, IsAt, OnDisk, GoalInv, GoalFlow, Placed
<1>1. /\ runner' \in [Runner -> GoalEntries] /\ runner'[p].at = "save"
      /\ runner'[p].goal = g /\ runner'[p].next = "quiet"
      /\ \A q \in Runner \ {p} : runner'[q] = runner[q]
  BY <1>0, GoalFlowTypes, SavesEntry DEF GoalPlaces
<1>2. /\ table' \in [Runner -> SUBSET registered] /\ table'[p] = table[p] \cup OnDisk \cup {g}
      /\ \A q \in Runner \ {p} : table'[q] = table[q]
  BY <1>0, GoalFlowTypes, GoalSets
<1>3. GoalTypeOK'
  BY <1>0, <1>1, <1>2, GoalFlowTypes DEF GoalTypeOK, GoalEntries, Copied
<1>4. GoalFlow'
  BY <1>0, <1>1, <1>2, <1>3, GoalFlowTypes, FlowReads DEF GoalInv
<1>5. ConfirmedOnce'
  BY <1>0, <1>1, ConfirmedKeeps DEF GoalInv
<1> QED
  BY <1>4, <1>5 DEF GoalInv

LEMMA FindNothingKeeps ==
    ASSUME GoalInv, NEW p \in Runner, FindNothing(p)
    PROVE  GoalInv'
<1> DEFINE g == runner[p].goal
           place == IF IsAt(p, "approve") THEN "again" ELSE "quiet"
<1>0. /\ runner[p].at \in {"approve", "reject"} /\ g \notin table[p] \cup OnDisk
      /\ Proceeds(p, place) /\ table' = [table EXCEPT ![p] = table[p] \cup OnDisk]
      /\ echoed' = echoed \cup Copied(p)
      /\ UNCHANGED <<confirming, asked, registered, goalFile, used, applied, rejected,
                     overlapped>>
      /\ OnDisk' = OnDisk /\ g \in registered /\ place \in {"again", "quiet"}
  BY GoalFlowTypes DEF FindNothing, IsAt, OnDisk, GoalInv, GoalFlow, Placed
<1> HIDE DEF place
<1>1. /\ runner' \in [Runner -> GoalEntries] /\ runner'[p].at \in {"again", "quiet"}
      /\ runner'[p].goal = g /\ \A q \in Runner \ {p} : runner'[q] = runner[q]
  BY <1>0, GoalFlowTypes, ProceedsEntry DEF GoalPlaces
<1>2. /\ table' \in [Runner -> SUBSET registered] /\ table'[p] = table[p] \cup OnDisk
      /\ \A q \in Runner \ {p} : table'[q] = table[q]
  BY <1>0, GoalFlowTypes, GoalSets
<1>3. GoalTypeOK'
  BY <1>0, <1>1, <1>2, GoalFlowTypes DEF GoalTypeOK, GoalEntries, Copied
<1>4. GoalFlow'
  BY <1>0, <1>1, <1>2, <1>3, GoalFlowTypes, FlowReads DEF GoalInv
<1>5. ConfirmedOnce'
  BY <1>0, <1>1, ConfirmedKeeps DEF GoalInv
<1> QED
  BY <1>4, <1>5 DEF GoalInv

LEMMA TakeGoalKeeps ==
    ASSUME GoalInv, NEW p \in Runner, TakeGoal(p)
    PROVE  GoalInv'
<1> DEFINE g == runner[p].goal
           place == IF IsAt(p, "approve") THEN "taken" ELSE "quiet"
<1>0. /\ runner[p].at \in {"approve", "reject"} /\ g \in table[p] \cup OnDisk
      /\ SavesAnd(p, place) /\ table' = [table EXCEPT ![p] = (table[p] \cup OnDisk) \ {g}]
      /\ echoed' = echoed \cup Copied(p)
                   \cup IF \E q \in Runner \ {p} : g \in table[q] THEN {g} ELSE {}
      /\ rejected' = IF IsAt(p, "reject") THEN rejected \cup {g} ELSE rejected
      /\ UNCHANGED <<confirming, asked, registered, goalFile, used, applied, overlapped>>
      /\ OnDisk' = OnDisk /\ g \in registered /\ place \in GoalPlaces
  BY GoalFlowTypes DEF TakeGoal, IsAt, OnDisk, GoalInv, GoalFlow, Placed, GoalPlaces
<1>1. /\ runner' \in [Runner -> GoalEntries] /\ runner'[p].at = "save"
      /\ runner'[p].goal = g /\ runner'[p].next = place
      /\ \A q \in Runner \ {p} : runner'[q] = runner[q]
  BY <1>0, GoalFlowTypes, SavesEntry
<1>2. /\ table' \in [Runner -> SUBSET registered] /\ table'[p] = (table[p] \cup OnDisk) \ {g}
      /\ \A q \in Runner \ {p} : table'[q] = table[q]
  BY <1>0, GoalFlowTypes, GoalSets
<1>3. GoalTypeOK'
  BY <1>0, <1>1, <1>2, GoalFlowTypes DEF GoalTypeOK, GoalEntries, Copied
<1>4. /\ rejected \subseteq rejected' /\ rejected' \subseteq rejected \cup {g}
      /\ g \in rejected' <=> g \in rejected \/ runner[p].at = "reject"
      /\ place = IF runner[p].at = "approve" THEN "taken" ELSE "quiet"
      /\ (\E q \in Runner \ {p} : g \in table[q]) => g \in echoed'
      /\ echoed \cup Copied(p) \subseteq echoed'
  BY <1>0 DEF IsAt
<1> HIDE DEF place
<1>5. GoalFlow'
  BY <1>0, <1>1, <1>2, <1>3, <1>4, GoalFlowTypes, FlowReads DEF GoalInv
<1>6. ConfirmedOnce'
  BY <1>0, <1>1, ConfirmedKeeps DEF GoalInv
<1> QED
  BY <1>5, <1>6 DEF GoalInv

\* Who had the goal waits for an approval of it again.
LEMMA PutBackKeeps ==
    ASSUME GoalInv, NEW p \in Runner, NEW place \in {"again", "quiet"}, PutBack(p, place),
           runner[p].at \in {"taken", "apply"}
    PROVE  GoalInv'
<1> DEFINE g == runner[p].goal
<1>0. /\ SavesAnd(p, place) /\ table' = [table EXCEPT ![p] = table[p] \cup {g}]
      /\ UNCHANGED <<confirming, asked, registered, goalFile, used, applied, rejected, echoed,
                     overlapped>>
      /\ OnDisk' = OnDisk /\ g \in registered
  BY GoalFlowTypes DEF PutBack, OnDisk, GoalInv, GoalFlow, Placed
<1>1. /\ runner' \in [Runner -> GoalEntries] /\ runner'[p].at = "save"
      /\ runner'[p].goal = g /\ runner'[p].next = place
      /\ \A q \in Runner \ {p} : runner'[q] = runner[q]
  BY <1>0, GoalFlowTypes, SavesEntry DEF GoalPlaces
<1>2. /\ table' \in [Runner -> SUBSET registered] /\ table'[p] = table[p] \cup {g}
      /\ \A q \in Runner \ {p} : table'[q] = table[q]
  BY <1>0, GoalFlowTypes, GoalSets
<1>3. GoalTypeOK'
  BY <1>0, <1>1, <1>2, GoalFlowTypes DEF GoalTypeOK, GoalEntries
<1>4. Placed'
  BY <1>0, <1>1, <1>2 DEF GoalInv, GoalFlow, Placed
<1>5. ASSUME NEW h \in Goal PROVE Unasked(h)' /\ (h \notin echoed' => Carried(h)' /\ Concluded(h)')
  <2>1. Unasked(h) /\ (h \notin echoed => Carried(h) /\ Concluded(h))
    BY DEF GoalInv, GoalFlow
  <2>2. ~Carries(h, p)' /\ \A q \in Runner \ {p} : Carries(h, q)' <=> Carries(h, q)
    BY <1>1, <1>2 DEF Carries
  <2>3. \A q \in Runner : Registers(h, q)' <=> Registers(h, q)
    BY <1>1 DEF Registers, IsAt
  <2>4. CASE h # g
    <3>1. \A q \in Runner : (h \in table'[q] <=> h \in table[q]) /\ (Carries(h, q)' <=> Carries(h, q))
      BY <1>2, <2>2, <2>4 DEF Carries
    <3>2. \A q \in Runner : Carries(h, q) => runner'[q] = runner[q]
      BY <1>1, <2>4 DEF Carries
    <3>3. Unasked(h)'
      BY <1>0, <2>1, <2>3, <3>1 DEF Unasked, Nowhere
    <3>4. h \notin echoed' => Carried(h)' /\ Concluded(h)'
      BY <1>0, <2>1, <3>1, <3>2 DEF Carried, Concluded, Nowhere, IsAt
    <3> QED
      BY <3>3, <3>4
  <2>5. CASE h = g
    <3>1. Unasked(h)'
      <4>1. CASE \A q \in Runner : ~Registers(h, q)
        BY <1>0, <2>3, <2>5, <4>1 DEF Unasked
      <4>2. ASSUME NEW q \in Runner, Registers(h, q) PROVE FALSE
        <5>1. h \notin table[p] /\ ~Carries(h, p)
          BY <2>1, <4>2 DEF Unasked, Nowhere
        <5> QED
          BY <2>5, <5>1 DEF Carries
      <4> QED
        BY <4>1, <4>2
    <3>2. ASSUME h \notin echoed' PROVE Carried(h)' /\ Concluded(h)'
      <4>1. Carried(h) /\ Concluded(h)
        BY <1>0, <2>1, <3>2
      <4>2. \A q \in Runner : ~Carries(h, q)'
        <5>1. CASE Carries(h, p)
          BY <2>2, <4>1, <5>1 DEF Carried
        <5>2. CASE ~Carries(h, p)
          <6>1. h \in table[p]
            BY <2>5, <5>2 DEF Carries
          <6> QED
            BY <2>2, <4>1, <6>1 DEF Carried
        <5> QED
          BY <5>1, <5>2
      <4>3. h \notin rejected /\ ~(applied[h] > 0)
        <5>1. CASE Carries(h, p)
          BY <4>1, <5>1 DEF Carried, Concluded, Nowhere
        <5>2. CASE h \in table[p]
          BY <4>1, <5>2 DEF Concluded, Nowhere
        <5> QED
          BY <2>5, <5>1, <5>2 DEF Carries
      <4> QED
        BY <1>0, <4>1, <4>2, <4>3 DEF Carried, Concluded
    <3> QED
      BY <3>1, <3>2
  <2> QED
    BY <2>4, <2>5
<1>6. GoalFlow'
  BY <1>3, <1>4, <1>5 DEF GoalFlow
<1>7. ConfirmedOnce'
  <2> SUFFICES ASSUME NEW h \in Goal, confirming, h \notin overlapped PROVE Confirmed(h)'
    BY <1>0 DEF ConfirmedOnce
  <2>1. Confirmed(h)
    BY DEF GoalInv, ConfirmedOnce
  <2>2. \A q \in Runner : Applies(h, q)' => Applies(h, q) /\ q # p
    BY <1>1 DEF Applies
  <2>3. \A q \in Runner : Applies(h, q) /\ IsAt(q, "consume") => Applies(h, q)' /\ IsAt(q, "consume")'
    BY <1>1 DEF Applies, IsAt
  <2> QED
    BY <1>0, <1>1, <2>1, <2>2, <2>3 DEF Confirmed, IsAt
<1> QED
  BY <1>6, <1>7 DEF GoalInv

LEMMA ApplyGoalKeeps ==
    ASSUME GoalInv, NEW p \in Runner, ApplyGoal(p)
    PROVE  GoalInv'
<1> DEFINE g == runner[p].goal
           place == IF confirming THEN "consume" ELSE "quiet"
<1>0. /\ runner[p].at = "apply" /\ Proceeds(p, place) /\ OnDisk' = OnDisk
      /\ applied' = [applied EXCEPT ![g] = applied[g] + 1]
      /\ UNCHANGED <<confirming, asked, registered, goalFile, table, used, rejected, echoed,
                     overlapped>>
      /\ place \in {"consume", "quiet"} /\ g \in registered /\ g \in Goal
  BY GoalFlowTypes DEF ApplyGoal, IsAt, OnDisk, GoalInv, GoalFlow, Placed
<1>p. confirming => place = "consume"
  OBVIOUS
<1>c. Carries(g, p)
  BY <1>0 DEF Carries, GoalInv, GoalFlow, Placed
<1> HIDE DEF place
<1>1. runner' \in [Runner -> GoalEntries] /\ runner'[p].at = place
      /\ runner'[p].goal = g /\ \A q \in Runner \ {p} : runner'[q] = runner[q]
  BY <1>0, GoalFlowTypes, ProceedsEntry DEF GoalPlaces
<1>2. /\ applied' \in [Goal -> Nat] /\ applied'[g] = applied[g] + 1
      /\ \A h \in Goal \ {g} : applied'[h] = applied[h]
      /\ \A h \in Goal : applied[h] \in Nat
  BY <1>0, GoalFlowTypes, GoalSets
<1>3. GoalTypeOK'
  BY <1>0, <1>1, <1>2, GoalFlowTypes DEF GoalTypeOK, GoalEntries
<1>4. Placed'
  BY <1>0, <1>1 DEF GoalInv, GoalFlow, Placed
<1>5. ASSUME NEW h \in Goal PROVE Unasked(h)' /\ (h \notin echoed' => Carried(h)' /\ Concluded(h)')
  <2>1. Unasked(h) /\ (h \notin echoed => Carried(h) /\ Concluded(h))
    BY DEF GoalInv, GoalFlow
  <2>2. ~Carries(h, p)' /\ \A q \in Runner \ {p} : Carries(h, q)' <=> Carries(h, q)
    BY <1>0, <1>1 DEF Carries
  <2>3. \A q \in Runner : Registers(h, q)' <=> Registers(h, q)
    BY <1>0, <1>1 DEF Registers, IsAt
  <2>4. \A q \in Runner : h \in table'[q] <=> h \in table[q]
    BY <1>0
  <2>5. CASE h # g
    <3>1. ~Carries(h, p)
      BY <2>5 DEF Carries
    <3>2. Nowhere(h)' <=> Nowhere(h)
      BY <1>0, <2>2, <2>4, <3>1 DEF Nowhere
    <3>3. Unasked(h)'
      BY <1>0, <1>2, <2>1, <2>3, <2>5, <3>2 DEF Unasked
    <3>4. h \notin echoed' => Carried(h)' /\ Concluded(h)'
      BY <1>0, <1>1, <1>2, <2>1, <2>2, <2>4, <2>5, <3>1, <3>2 DEF Carried, Concluded, IsAt
    <3> QED
      BY <3>3, <3>4
  <2>6. CASE h = g
    <3>1. Unasked(h)'
      <4>1. CASE \A q \in Runner : ~Registers(h, q)
        BY <1>0, <2>3, <2>6, <4>1 DEF Unasked
      <4>2. ASSUME NEW q \in Runner, Registers(h, q) PROVE FALSE
        BY <1>c, <2>1, <2>6, <4>2 DEF Unasked, Nowhere
      <4> QED
        BY <4>1, <4>2
    <3>2. ASSUME h \notin echoed' PROVE Carried(h)' /\ Concluded(h)'
      <4>1. Carried(h) /\ Concluded(h)
        BY <1>0, <2>1, <3>2
      <4>2. Carries(h, p)
        BY <1>c, <2>6
      <4>3. /\ \A q \in Runner : h \notin table[q] /\ (Carries(h, q) => q = p)
            /\ h \notin OnDisk /\ h \notin rejected
        BY <1>0, <4>1, <4>2 DEF Carried, IsAt
      <4>4. applied[h] = 0
        BY <1>2, <4>1, <4>2 DEF Concluded, Nowhere
      <4>5. Nowhere(h)' /\ applied'[h] = 1
        BY <1>0, <1>2, <2>2, <2>6, <4>3, <4>4 DEF Nowhere
      <4> QED
        BY <1>0, <4>3, <4>5 DEF Carried, Concluded, Nowhere
    <3> QED
      BY <3>1, <3>2
  <2> QED
    BY <2>5, <2>6
<1>6. GoalFlow'
  BY <1>3, <1>4, <1>5 DEF GoalFlow
<1>7. ASSUME NEW h \in Goal, confirming, h \notin overlapped PROVE Confirmed(h)'
  <2>1. Confirmed(h)
    BY <1>7 DEF GoalInv, ConfirmedOnce
  <2>2. \A q \in Runner : Applies(h, q)' <=> Applies(h, q)
    BY <1>0, <1>1, <1>7, <1>p DEF Applies
  <2>3. CASE h # g
    BY <1>0, <1>1, <1>2, <1>7, <2>1, <2>2, <2>3 DEF Confirmed, IsAt, Applies
  <2>4. CASE h = g
    <3>1. Applies(h, p) /\ IsAt(p, "apply") /\ applied[h] = 0
      BY <1>0, <2>1, <2>4 DEF Applies, IsAt, Confirmed
    <3>2. \A q \in Runner : Applies(h, q) => q = p
      BY <2>1, <3>1 DEF Confirmed
    <3>3. Applies(h, p)' /\ IsAt(p, "consume")' /\ ~IsAt(p, "apply")' /\ applied'[h] = 1
      BY <1>1, <1>2, <1>7, <1>p, <2>2, <2>4, <3>1 DEF IsAt
    <3> QED
      BY <2>2, <3>2, <3>3 DEF Confirmed
  <2> QED
    BY <2>3, <2>4
<1> QED
  BY <1>0, <1>6, <1>7 DEF GoalInv, ConfirmedOnce

LEMMA GoalInitInv == GoalInit => GoalInv
<1> SUFFICES ASSUME GoalInit PROVE GoalInv
  OBVIOUS
<1>1. Quiet \in GoalEntries /\ Quiet.at = "quiet"
  BY DEF Quiet, GoalEntries, GoalPlaces
<1>2. OnDisk = {} /\ \A p \in Runner : runner[p].at = "quiet" /\ table[p] = {}
  BY <1>1 DEF GoalInit, OnDisk
<1>3. GoalTypeOK
  BY <1>1, GoalAssumption DEF GoalInit, GoalTypeOK, GoalEntries
<1>4. Placed
  BY <1>2 DEF Placed
<1>5. ASSUME NEW g \in Goal PROVE Unasked(g) /\ Carried(g) /\ Concluded(g) /\ Confirmed(g)
  <2>1. \A p \in Runner : ~Carries(g, p) /\ ~Registers(g, p) /\ ~Applies(g, p)
    BY <1>2 DEF Carries, Registers, IsAt, Applies
  <2>2. Nowhere(g) /\ applied[g] = 0 /\ g \notin rejected
    BY <1>2, <2>1 DEF Nowhere, GoalInit
  <2> QED
    BY <2>1, <2>2 DEF Unasked, Carried, Concluded, Confirmed
<1> QED
  BY <1>3, <1>4, <1>5 DEF GoalInv, GoalFlow, ConfirmedOnce

LEMMA GoalNextInv == GoalInv /\ [GoalNext]_goalVars => GoalInv'
<1> SUFFICES ASSUME GoalInv, [GoalNext]_goalVars PROVE GoalInv'
  OBVIOUS
<1>1. CASE ConfirmationExpires
  <2>1. /\ used \subseteq used' /\ used' \subseteq Goal
        /\ UNCHANGED <<confirming, asked, registered, goalFile, table, runner, applied, rejected,
                       echoed, overlapped>>
    BY <1>1, GoalSets DEF ConfirmationExpires, GoalInv, GoalFlow
  <2>2. GoalTypeOK' /\ Placed'
    BY <2>1 DEF GoalInv, GoalFlow, GoalTypeOK, Placed, OnDisk
  <2>3. \A g \in Goal : (Unasked(g)' <=> Unasked(g)) /\ (Carried(g)' <=> Carried(g))
                        /\ (Concluded(g)' <=> Concluded(g))
    BY <2>1 DEF Unasked, Carried, Concluded, Nowhere, Carries, Registers, IsAt, OnDisk
  <2>4. \A g \in Goal : Confirmed(g) => Confirmed(g)'
    BY <2>1 DEF Confirmed, Applies, IsAt
  <2> QED
    BY <2>1, <2>2, <2>3, <2>4 DEF GoalInv, GoalFlow, ConfirmedOnce
<1>2. ASSUME NEW p \in Runner, DenyGoal(p) PROVE GoalInv'
  BY <1>2, PutBackKeeps DEF DenyGoal, IsAt
<1>3. ASSUME NEW p \in Runner, ApplyFails(p) PROVE GoalInv'
  BY <1>3, PutBackKeeps DEF ApplyFails, IsAt
<1>4. CASE UNCHANGED goalVars
  <2>1. /\ GoalTypeOK' /\ Placed'
        /\ \A g \in Goal : (Unasked(g)' <=> Unasked(g)) /\ (Carried(g)' <=> Carried(g))
                           /\ (Concluded(g)' <=> Concluded(g))
    BY <1>4 DEF goalVars, GoalInv, GoalFlow, GoalTypeOK, Placed, OnDisk, Unasked, Carried,
                Concluded, Nowhere, Carries, Registers, IsAt
  <2>2. \A g \in Goal : Confirmed(g)' <=> Confirmed(g)
    BY <1>4 DEF goalVars, Confirmed, Applies, IsAt
  <2> QED
    BY <1>4, <2>1, <2>2 DEF goalVars, GoalInv, GoalFlow, ConfirmedOnce
<1> QED
  BY <1>1, <1>2, <1>3, <1>4, AskGoalKeeps, RegisterKeeps, FindNothingKeeps, LookAgainKeeps,
     TakeGoalKeeps, EmptyFileKeeps, FillFileKeeps, SaveGoalsFailsKeeps, ConfirmGoalKeeps,
     ApplyGoalKeeps, ApplyRaisesKeeps, ConsumeConfirmationKeeps, RunnerEndsKeeps DEF GoalNext

\* Every variable of the waiting goals has its type.
THEOREM GoalTypeCorrect == GoalSpec => []GoalTypeOK
<1>1. GoalInv => GoalTypeOK
  BY DEF GoalInv, GoalFlow
<1> QED
  BY <1>1, GoalInitInv, GoalNextInv, PTL DEF GoalSpec

\* A goal is applied twice, or applied though it was rejected, only if a copy of it was
\* left in a table or the file when it was taken, and under confirmations only if besides
\* two applications overlapped or a confirmation was not used up (handle_approval,
\* _save_pending_approvals), for any number of processes and goals.
THEOREM GoalDecidedOnce == GoalSpec => []GoalIsDecidedOnce
<1>1. GoalInv => GoalIsDecidedOnce
  <2> SUFFICES ASSUME GoalInv, NEW g \in Goal
               PROVE  /\ applied[g] > 1 => g \in echoed /\ (confirming => g \in overlapped)
                      /\ applied[g] > 0 /\ g \in rejected => g \in echoed
    BY DEF GoalIsDecidedOnce
  <2>1. applied[g] \in Nat
    BY GoalSets DEF GoalInv, GoalFlow
  <2>2. g \notin echoed => applied[g] <= 1 /\ (applied[g] > 0 => g \notin rejected)
    BY DEF GoalInv, GoalFlow, Concluded
  <2>3. confirming /\ g \notin overlapped => applied[g] <= 1
    BY DEF GoalInv, ConfirmedOnce, Confirmed
  <2> QED
    BY <2>1, <2>2, <2>3
<1> QED
  BY <1>1, GoalInitInv, GoalNextInv, PTL DEF GoalSpec

-----------------------------------------------------------------------------
(* The payment approval bridge *)

PaymentStates == {"review", "awaiting_approval", "payment_initiated", "cancelled", "timed_out"}

PaymentEvents == [
    type : {"approval_requested", "user_approval_recorded", "payment_initiated",
            "payment_cancelled", "approval_timed_out"},
    from : PaymentStates, to : PaymentStates, at : Nat,
    actor : {c.actor : c \in PaymentCommand}, approval : {c.approval : c \in PaymentCommand} \cup {NoApproval}]

PaymentTypes ==
    /\ snapshot \in [state : PaymentStates, revision : Nat, updated : Nat]
    /\ deadline \in Nat /\ answered \in [Key -> PaymentCommand \cup {NoCommand}]
    /\ audit \in Seq(PaymentEvents)

AcceptedKeys == {k \in Key : answered[k] # NoCommand}

IsEvent(e, type, from, to) == e.type = type /\ e.from = from /\ e.to = to

RequestIsFirst ==
    /\ IsEvent(audit[1], "approval_requested", "review", "awaiting_approval")
    /\ audit[1].at <= snapshot.updated

\* The lifecycle that led to the state, event by event.
InReview == snapshot.state = "review" /\ snapshot.revision = 0 /\ Len(audit) = 0

InWaiting ==
    /\ snapshot.state = "awaiting_approval" /\ snapshot.revision = 1 /\ Len(audit) = 1
    /\ RequestIsFirst

CancelledAtOnce ==
    /\ snapshot.state = "cancelled" /\ snapshot.revision = 1 /\ Len(audit) = 1
    /\ IsEvent(audit[1], "payment_cancelled", "review", "cancelled")
    /\ audit[1].at = snapshot.updated

GivenUp ==
    /\ snapshot.revision = 2 /\ Len(audit) = 2 /\ RequestIsFirst
    /\ \/ snapshot.state = "cancelled"
          /\ IsEvent(audit[2], "payment_cancelled", "awaiting_approval", "cancelled")
       \/ snapshot.state = "timed_out"
          /\ IsEvent(audit[2], "approval_timed_out", "awaiting_approval", "timed_out")
    /\ audit[2].at = snapshot.updated

GrantedBy(e) ==
    /\ e.actor = "user" /\ e.approval.by = "user" /\ e.approval.fits
    /\ audit[1].at <= e.approval.at /\ e.approval.at <= e.at /\ e.at < deadline
    /\ e.at = snapshot.updated

Initiated ==
    /\ snapshot.state = "payment_initiated" /\ snapshot.revision = 2 /\ Len(audit) = 3
    /\ RequestIsFirst /\ GrantedBy(audit[2]) /\ GrantedBy(audit[3])
    /\ IsEvent(audit[2], "user_approval_recorded", "awaiting_approval", "payment_initiated")
    /\ IsEvent(audit[3], "payment_initiated", "awaiting_approval", "payment_initiated")

PaymentInv ==
    /\ PaymentTypes
    /\ IsFiniteSet(AcceptedKeys) /\ Cardinality(AcceptedKeys) = snapshot.revision
    /\ InReview \/ InWaiting \/ CancelledAtOnce \/ GivenUp \/ Initiated

PaymentEvent(c, target, type, evidence) ==
    [type |-> type, from |-> snapshot.state, to |-> target, at |-> c.at, actor |-> c.actor,
     approval |-> evidence]

LEMMA EventTyped ==
    ASSUME PaymentTypes, NEW c \in PaymentCommand, NEW target \in PaymentStates,
           NEW type \in {"approval_requested", "user_approval_recorded", "payment_initiated",
                         "payment_cancelled", "approval_timed_out"},
           NEW evidence \in {d.approval : d \in PaymentCommand} \cup {NoApproval}
    PROVE  PaymentEvent(c, target, type, evidence) \in PaymentEvents
  BY PaymentAssumption DEF PaymentEvent, PaymentEvents, PaymentTypes

\* What every accepted command does: the snapshot, the keys and the types.
LEMMA AdvanceTypes ==
    ASSUME PaymentInv, NEW c \in PaymentCommand, NEW target \in PaymentStates, NEW types,
           NEW evidence, Advance(c, target, types, evidence), deadline' \in Nat,
           audit' \in Seq(PaymentEvents)
    PROVE  /\ PaymentTypes'
           /\ IsFiniteSet(AcceptedKeys)' /\ (Cardinality(AcceptedKeys) = snapshot.revision)'
           /\ snapshot'.state = target /\ snapshot'.revision = snapshot.revision + 1
           /\ snapshot'.updated = c.at /\ snapshot.updated <= c.at
           /\ c.at \in Nat /\ snapshot.updated \in Nat /\ snapshot.revision \in Nat
           /\ target \in ALLOWED_TRANSITIONS[snapshot.state]
<1>1. /\ c.at \in Nat /\ c.key \in Key /\ c # NoCommand /\ snapshot.updated \in Nat
      /\ snapshot.revision \in Nat
  BY PaymentAssumption DEF PaymentInv, PaymentTypes
<1>2. /\ snapshot' = [state |-> target, revision |-> snapshot.revision + 1, updated |-> c.at]
      /\ answered' = [answered EXCEPT ![c.key] = c] /\ answered[c.key] = NoCommand
      /\ target \in ALLOWED_TRANSITIONS[snapshot.state]
      /\ snapshot.updated <= c.at
  BY <1>1 DEF Advance, Fresh
<1>3. PaymentTypes'
  BY <1>1, <1>2 DEF PaymentInv, PaymentTypes
<1>4. c.key \notin AcceptedKeys /\ AcceptedKeys' = AcceptedKeys \cup {c.key}
  BY <1>1, <1>2 DEF AcceptedKeys, PaymentInv, PaymentTypes
<1>5. IsFiniteSet(AcceptedKeys') /\ Cardinality(AcceptedKeys') = snapshot.revision + 1
  BY <1>4, FS_AddElement DEF PaymentInv
<1> QED
  BY <1>1, <1>2, <1>3, <1>5

LEMMA AdvanceOne ==
    ASSUME PaymentTypes, NEW c \in PaymentCommand, NEW target \in PaymentStates,
           NEW type \in {"approval_requested", "payment_cancelled", "approval_timed_out"},
           Advance(c, target, <<type>>, NoApproval)
    PROVE  /\ audit' \in Seq(PaymentEvents) /\ Len(audit') = Len(audit) + 1
           /\ \A i \in 1 .. Len(audit) : audit'[i] = audit[i]
           /\ audit'[Len(audit) + 1] = PaymentEvent(c, target, type, NoApproval)
<1> DEFINE e == PaymentEvent(c, target, type, NoApproval)
           n == [i \in DOMAIN <<type>> |->
                    [type |-> <<type>>[i], from |-> snapshot.state, to |-> target, at |-> c.at,
                     actor |-> c.actor, approval |-> NoApproval]]
<1>1. n = <<e>>
  BY DEF PaymentEvent
<1>2. audit' = audit \o n
  BY DEF Advance
<1>3. e \in PaymentEvents /\ audit \in Seq(PaymentEvents)
  BY EventTyped DEF PaymentTypes
<1> HIDE DEF e, n
<1>4. audit' = audit \o <<e>> /\ <<e>> \in Seq(PaymentEvents) /\ Len(<<e>>) = 1 /\ <<e>>[1] = e
  BY <1>1, <1>2, <1>3
<1>5. /\ audit' \in Seq(PaymentEvents) /\ Len(audit') = Len(audit) + 1
      /\ \A i \in 1 .. Len(audit) : audit'[i] = audit[i]
      /\ audit'[Len(audit) + 1] = e
  BY <1>3, <1>4, ConcatProperties, OneMore
<1> QED
  BY <1>5 DEF e

LEMMA AdvanceTwo ==
    ASSUME PaymentTypes, NEW c \in PaymentCommand, NEW evidence \in {d.approval : d \in PaymentCommand},
           Advance(c, "payment_initiated", <<"user_approval_recorded", "payment_initiated">>,
                   evidence)
    PROVE  /\ audit' \in Seq(PaymentEvents) /\ Len(audit') = Len(audit) + 2
           /\ \A i \in 1 .. Len(audit) : audit'[i] = audit[i]
           /\ audit'[Len(audit) + 1]
                = PaymentEvent(c, "payment_initiated", "user_approval_recorded", evidence)
           /\ audit'[Len(audit) + 2]
                = PaymentEvent(c, "payment_initiated", "payment_initiated", evidence)
<1> DEFINE d == PaymentEvent(c, "payment_initiated", "user_approval_recorded", evidence)
           e == PaymentEvent(c, "payment_initiated", "payment_initiated", evidence)
           types == <<"user_approval_recorded", "payment_initiated">>
           n == [i \in DOMAIN types |->
                    [type |-> types[i], from |-> snapshot.state, to |-> "payment_initiated",
                     at |-> c.at, actor |-> c.actor, approval |-> evidence]]
<1>1. n = <<d, e>>
  BY DEF PaymentEvent
<1>2. audit' = audit \o n
  BY DEF Advance
<1>3. d \in PaymentEvents /\ e \in PaymentEvents /\ audit \in Seq(PaymentEvents)
  BY EventTyped DEF PaymentTypes, PaymentStates
<1> HIDE DEF d, e, n
<1>4. /\ audit' = audit \o <<d, e>> /\ <<d, e>> \in Seq(PaymentEvents)
      /\ Len(<<d, e>>) = 2 /\ <<d, e>>[1] = d /\ <<d, e>>[2] = e
  BY <1>1, <1>2, <1>3
<1>5. audit' \in Seq(PaymentEvents) /\ Len(audit') = Len(audit) + 2
  BY <1>3, <1>4, ConcatProperties
<1>6. \A i \in 1 .. Len(audit) + 2 : audit'[i] = IF i <= Len(audit) THEN audit[i]
                                                 ELSE <<d, e>>[i - Len(audit)]
  BY <1>3, <1>4, ConcatProperties
<1>7. Len(audit) \in Nat
  BY <1>3, LenProperties
<1>8. /\ \A i \in 1 .. Len(audit) : audit'[i] = audit[i]
      /\ audit'[Len(audit) + 1] = d /\ audit'[Len(audit) + 2] = e
  BY <1>4, <1>6, <1>7
<1> QED
  BY <1>5, <1>8 DEF d, e

LEMMA PaymentInitInv == PaymentInit => PaymentInv
<1> SUFFICES ASSUME PaymentInit PROVE PaymentInv
  OBVIOUS
<1>1. PaymentTypes /\ InReview
  BY EmptySeq DEF PaymentInit, PaymentTypes, PaymentStates, InReview
<1>2. AcceptedKeys = {} /\ snapshot.revision = 0
  BY DEF PaymentInit, AcceptedKeys
<1> QED
  BY <1>1, <1>2, FS_EmptySet DEF PaymentInv

\* From which state a step can come.
LEMMA Transitions2 ==
    /\ ALLOWED_TRANSITIONS["review"] = {"awaiting_approval", "cancelled"}
    /\ ALLOWED_TRANSITIONS["awaiting_approval"] = {"payment_initiated", "cancelled", "timed_out"}
    /\ ALLOWED_TRANSITIONS["payment_initiated"] = {} /\ ALLOWED_TRANSITIONS["cancelled"] = {}
    /\ ALLOWED_TRANSITIONS["timed_out"] = {}
  BY DEF ALLOWED_TRANSITIONS

LEMMA TimesOfEvents ==
    ASSUME PaymentTypes, NEW i \in 1 .. Len(audit)
    PROVE  audit[i] \in PaymentEvents /\ audit[i].at \in Nat
<1>1. audit[i] \in PaymentEvents
  BY DEF PaymentTypes
<1> QED
  BY <1>1 DEF PaymentEvents

LEMMA FirstTime ==
    ASSUME PaymentTypes, InWaiting
    PROVE  audit[1].at <= snapshot.updated /\ audit[1].at \in Nat
<1>1. 1 \in 1 .. Len(audit)
  BY DEF InWaiting
<1> QED
  BY <1>1, TimesOfEvents DEF InWaiting, RequestIsFirst

LEMMA RequestKeeps ==
    ASSUME PaymentInv, NEW c \in PaymentCommand, RequestApproval(c)
    PROVE  PaymentInv'
<1> DEFINE e == PaymentEvent(c, "awaiting_approval", "approval_requested", NoApproval)
<1>1. PaymentTypes /\ Advance(c, "awaiting_approval", <<"approval_requested">>, NoApproval)
      /\ deadline' \in Nat /\ "awaiting_approval" \in PaymentStates
  BY PaymentAssumption DEF RequestApproval, PaymentInv, PaymentStates
<1>2. /\ audit' \in Seq(PaymentEvents) /\ Len(audit') = Len(audit) + 1
      /\ audit'[Len(audit) + 1] = e
  BY <1>1, AdvanceOne
<1>3. /\ PaymentTypes'
      /\ IsFiniteSet(AcceptedKeys)' /\ (Cardinality(AcceptedKeys) = snapshot.revision)'
      /\ snapshot'.state = "awaiting_approval" /\ snapshot'.revision = snapshot.revision + 1
      /\ snapshot'.updated = c.at /\ c.at \in Nat
      /\ "awaiting_approval" \in ALLOWED_TRANSITIONS[snapshot.state]
  BY <1>1, <1>2, AdvanceTypes
<1>4. InReview
  BY <1>3, Transitions2 DEF PaymentInv, InReview, InWaiting, CancelledAtOnce, GivenUp, Initiated
<1>5. audit'[1] = e /\ Len(audit') = 1 /\ snapshot'.revision = 1 /\ snapshot.state = "review"
  BY <1>2, <1>3, <1>4 DEF InReview
<1>6. InWaiting'
  BY <1>3, <1>5 DEF InWaiting, RequestIsFirst, IsEvent, PaymentEvent
<1> QED
  BY <1>3, <1>6 DEF PaymentInv

LEMMA CancelKeeps ==
    ASSUME PaymentInv, NEW c \in PaymentCommand, CancelPayment(c)
    PROVE  PaymentInv'
<1> DEFINE e == PaymentEvent(c, "cancelled", "payment_cancelled", NoApproval)
<1>1. PaymentTypes /\ Advance(c, "cancelled", <<"payment_cancelled">>, NoApproval)
      /\ deadline' \in Nat /\ "cancelled" \in PaymentStates
  BY DEF CancelPayment, PaymentInv, PaymentStates, PaymentTypes
<1>2. /\ audit' \in Seq(PaymentEvents) /\ Len(audit') = Len(audit) + 1
      /\ \A i \in 1 .. Len(audit) : audit'[i] = audit[i]
      /\ audit'[Len(audit) + 1] = e
  BY <1>1, AdvanceOne
<1>3. /\ PaymentTypes'
      /\ IsFiniteSet(AcceptedKeys)' /\ (Cardinality(AcceptedKeys) = snapshot.revision)'
      /\ snapshot'.state = "cancelled" /\ snapshot'.revision = snapshot.revision + 1
      /\ snapshot'.updated = c.at /\ snapshot.updated <= c.at
      /\ c.at \in Nat /\ snapshot.updated \in Nat
      /\ "cancelled" \in ALLOWED_TRANSITIONS[snapshot.state]
  BY <1>1, <1>2, AdvanceTypes
<1>4. InReview \/ InWaiting
  BY <1>3, Transitions2 DEF PaymentInv, InReview, InWaiting, CancelledAtOnce, GivenUp, Initiated
<1>5. CASE InReview
  <2>1. audit'[1] = e /\ Len(audit') = 1 /\ snapshot'.revision = 1 /\ snapshot.state = "review"
    BY <1>2, <1>3, <1>5 DEF InReview
  <2>2. CancelledAtOnce'
    BY <1>3, <2>1 DEF CancelledAtOnce, IsEvent, PaymentEvent
  <2> QED
    BY <1>3, <2>2 DEF PaymentInv
<1>6. CASE InWaiting
  <2>1. /\ audit'[2] = e /\ audit'[1] = audit[1] /\ Len(audit') = 2
        /\ snapshot'.revision = 2 /\ snapshot.state = "awaiting_approval"
    BY <1>2, <1>3, <1>6 DEF InWaiting
  <2>2. RequestIsFirst'
    <3>1. audit[1].at <= snapshot.updated /\ audit[1].at \in Nat
      BY <1>1, <1>6, FirstTime
    <3> QED
      BY <1>3, <1>6, <2>1, <3>1 DEF InWaiting, RequestIsFirst, IsEvent
  <2>3. GivenUp'
    BY <1>3, <2>1, <2>2 DEF GivenUp, IsEvent, PaymentEvent
  <2> QED
    BY <1>3, <2>3 DEF PaymentInv
<1> QED
  BY <1>4, <1>5, <1>6

LEMMA TimeoutKeeps ==
    ASSUME PaymentInv, NEW c \in PaymentCommand, Timeout(c)
    PROVE  PaymentInv'
<1> DEFINE e == PaymentEvent(c, "timed_out", "approval_timed_out", NoApproval)
<1>1. PaymentTypes /\ Advance(c, "timed_out", <<"approval_timed_out">>, NoApproval)
      /\ deadline' \in Nat /\ "timed_out" \in PaymentStates
  BY DEF Timeout, PaymentInv, PaymentStates, PaymentTypes
<1>2. /\ audit' \in Seq(PaymentEvents) /\ Len(audit') = Len(audit) + 1
      /\ \A i \in 1 .. Len(audit) : audit'[i] = audit[i]
      /\ audit'[Len(audit) + 1] = e
  BY <1>1, AdvanceOne
<1>3. /\ PaymentTypes'
      /\ IsFiniteSet(AcceptedKeys)' /\ (Cardinality(AcceptedKeys) = snapshot.revision)'
      /\ snapshot'.state = "timed_out" /\ snapshot'.revision = snapshot.revision + 1
      /\ snapshot'.updated = c.at /\ snapshot.updated <= c.at
      /\ c.at \in Nat /\ snapshot.updated \in Nat
      /\ "timed_out" \in ALLOWED_TRANSITIONS[snapshot.state]
  BY <1>1, <1>2, AdvanceTypes
<1>4. InWaiting
  BY <1>3, Transitions2 DEF PaymentInv, InReview, InWaiting, CancelledAtOnce, GivenUp, Initiated
<1>5. /\ audit'[2] = e /\ audit'[1] = audit[1] /\ Len(audit') = 2
      /\ snapshot'.revision = 2 /\ snapshot.state = "awaiting_approval"
  BY <1>2, <1>3, <1>4 DEF InWaiting
<1>6. audit[1].at <= snapshot.updated /\ audit[1].at \in Nat
  BY <1>1, <1>4, FirstTime
<1>7. RequestIsFirst'
  BY <1>3, <1>4, <1>5, <1>6 DEF InWaiting, RequestIsFirst, IsEvent
<1>8. GivenUp'
  BY <1>3, <1>5, <1>7 DEF GivenUp, IsEvent, PaymentEvent
<1> QED
  BY <1>3, <1>8 DEF PaymentInv

LEMMA ApproveKeeps ==
    ASSUME PaymentInv, NEW c \in PaymentCommand, ApprovePayment(c)
    PROVE  PaymentInv'
<1> DEFINE d == PaymentEvent(c, "payment_initiated", "user_approval_recorded", c.approval)
           e == PaymentEvent(c, "payment_initiated", "payment_initiated", c.approval)
           types == <<"user_approval_recorded", "payment_initiated">>
<1>1. PaymentTypes /\ Advance(c, "payment_initiated", types, c.approval)
      /\ deadline' = deadline /\ deadline \in Nat /\ "payment_initiated" \in PaymentStates
  BY DEF ApprovePayment, PaymentInv, PaymentStates, PaymentTypes
<1>2. /\ audit' \in Seq(PaymentEvents) /\ Len(audit') = Len(audit) + 2
      /\ \A i \in 1 .. Len(audit) : audit'[i] = audit[i]
      /\ audit'[Len(audit) + 1] = d /\ audit'[Len(audit) + 2] = e
  BY <1>1, AdvanceTwo
<1>3. /\ PaymentTypes'
      /\ IsFiniteSet(AcceptedKeys)' /\ (Cardinality(AcceptedKeys) = snapshot.revision)'
      /\ snapshot'.state = "payment_initiated" /\ snapshot'.revision = snapshot.revision + 1
      /\ snapshot'.updated = c.at /\ snapshot.updated <= c.at
      /\ c.at \in Nat /\ snapshot.updated \in Nat
  BY <1>1, <1>2, AdvanceTypes
<1>4. InWaiting
  BY DEF ApprovePayment, PaymentInv, InReview, InWaiting, CancelledAtOnce, GivenUp, Initiated
<1>5. /\ audit'[2] = d /\ audit'[3] = e /\ audit'[1] = audit[1] /\ Len(audit') = 3
      /\ snapshot'.revision = 2 /\ snapshot.state = "awaiting_approval"
  BY <1>2, <1>3, <1>4 DEF InWaiting
<1>6. audit[1].at <= snapshot.updated /\ audit[1].at \in Nat
  BY <1>1, <1>4, FirstTime
<1>7. RequestIsFirst'
  BY <1>3, <1>4, <1>5, <1>6 DEF InWaiting, RequestIsFirst, IsEvent
<1>8. /\ c.actor = "user" /\ c.approval.by = "user" /\ c.approval.fits
      /\ snapshot.updated <= c.approval.at /\ c.approval.at <= c.at /\ c.at < deadline
      /\ c.approval.at \in Nat
  BY <1>3, PaymentAssumption DEF ApprovePayment
<1>9. audit'[1].at <= c.approval.at
  BY <1>3, <1>5, <1>6, <1>8
<1>10. GrantedBy(audit[2])' /\ GrantedBy(audit[3])'
  BY <1>1, <1>3, <1>5, <1>8, <1>9 DEF GrantedBy, PaymentEvent
<1>11. Initiated'
  BY <1>3, <1>5, <1>7, <1>10 DEF Initiated, IsEvent, PaymentEvent
<1> QED
  BY <1>3, <1>11 DEF PaymentInv

LEMMA PaymentNextInv == PaymentInv /\ [PaymentNext]_paymentVars => PaymentInv'
<1> SUFFICES ASSUME PaymentInv, [PaymentNext]_paymentVars PROVE PaymentInv'
  OBVIOUS
<1>1. CASE PaymentNext
  BY <1>1, RequestKeeps, ApproveKeeps, CancelKeeps, TimeoutKeeps DEF PaymentNext
<1>2. CASE UNCHANGED paymentVars
  BY <1>2 DEF paymentVars, PaymentInv, PaymentTypes, AcceptedKeys, InReview, InWaiting,
              CancelledAtOnce, GivenUp, Initiated, RequestIsFirst, IsEvent, GrantedBy
<1> QED
  BY <1>1, <1>2

\* Every variable of the payment bridge keeps its type.
THEOREM PaymentTypeCorrect == PaymentSpec => []PaymentTypeOK
<1>1. PaymentInv => PaymentTypeOK
  <2>1. DOMAIN ALLOWED_TRANSITIONS = PaymentStates
    BY DEF ALLOWED_TRANSITIONS, PaymentStates
  <2> QED
    BY <2>1 DEF PaymentInv, PaymentTypes, PaymentTypeOK
<1> QED
  BY <1>1, PaymentInitInv, PaymentNextInv, PTL DEF PaymentSpec

\* The state before an event is the one its latest transition led to.
LEMMA StateBeforeAny ==
    ASSUME NEW n, \A i \in Transitions : ~(i < n)
    PROVE  StateBefore(n) = "review"
<1>1. {i \in Transitions : i < n} = {}
  OBVIOUS
<1> QED
  BY <1>1 DEF StateBefore

LEMMA StateBeforeOne ==
    ASSUME NEW n \in Int, Transitions \subseteq Int, NEW m \in Transitions, m < n,
           \A j \in Transitions : j < n => j <= m
    PROVE  StateBefore(n) = audit[m].to
<1> DEFINE earlier == {i \in Transitions : i < n}
           latest == CHOOSE i \in earlier : \A j \in earlier : j <= i
<1>1. m \in earlier /\ \A j \in earlier : j <= m
  OBVIOUS
<1>2. latest \in earlier /\ \A j \in earlier : j <= latest
  BY <1>1
<1>3. latest = m
  <2>1. latest \in Int /\ m \in Int /\ m <= latest /\ latest <= m
    BY <1>1, <1>2
  <2> HIDE DEF latest
  <2> QED
    BY <2>1
<1>4. StateBefore(n) = IF earlier = {} THEN "review" ELSE audit[latest].to
  BY DEF StateBefore
<1> QED
  BY <1>1, <1>3, <1>4

LEMMA ReviewIsExplained == ASSUME PaymentInv, InReview PROVE AuditExplainsPayment
<1>1. DOMAIN audit = {} /\ Len(audit) = 0
  BY DEF PaymentInv, PaymentTypes, InReview
<1>2. Transitions = {}
  BY <1>1 DEF Transitions
<1>3. StateBefore(Len(audit) + 1) = "review"
  BY <1>2, StateBeforeAny
<1>4. Cardinality(Transitions) = 0
  BY <1>2, FS_EmptySet
<1> QED
  BY <1>1, <1>3, <1>4 DEF AuditExplainsPayment, PaymentInv, AcceptedKeys, InReview

LEMMA OneEventIsExplained == ASSUME PaymentInv, InWaiting \/ CancelledAtOnce PROVE AuditExplainsPayment
<1>1. /\ DOMAIN audit = {1} /\ Len(audit) = 1 /\ audit[1].at \in Nat
      /\ snapshot.updated \in Nat
  <2>1. DOMAIN audit = 1 .. 1 /\ Len(audit) = 1 /\ PaymentTypes
    BY DEF PaymentInv, PaymentTypes, InWaiting, CancelledAtOnce
  <2> QED
    BY <2>1, TimesOfEvents DEF PaymentTypes
<1>2. Transitions = {1}
  BY <1>1 DEF Transitions, InWaiting, CancelledAtOnce, RequestIsFirst, IsEvent
<1>3. StateBefore(1) = "review"
  BY <1>2, StateBeforeAny
<1>4. StateBefore(2) = audit[1].to
  BY <1>2, StateBeforeOne
<1>5. Cardinality(Transitions) = 1
  BY <1>2, FS_Singleton
<1>6. snapshot.revision = 1 /\ snapshot.state = audit[1].to /\ audit[1].from = "review"
      /\ audit[1].at <= snapshot.updated /\ audit[1].to # "payment_initiated"
  BY <1>1 DEF InWaiting, CancelledAtOnce, RequestIsFirst, IsEvent
<1> QED
  BY <1>1, <1>3, <1>4, <1>5, <1>6 DEF AuditExplainsPayment, PaymentInv, AcceptedKeys

LEMMA TwoIsTwo == ASSUME NEW a, NEW b, a # b PROVE Cardinality({a, b}) = 2
<1>1. IsFiniteSet({a}) /\ Cardinality({a}) = 1 /\ {a, b} = {a} \cup {b} /\ b \notin {a}
  BY FS_Singleton
<1> QED
  BY <1>1, FS_AddElement

LEMMA AddsOne ==
    ASSUME NEW S, IsFiniteSet(S), NEW x
    PROVE  /\ IsFiniteSet(S \cup {x})
           /\ Cardinality(S) \in Nat /\ Cardinality(S \cup {x}) \in Nat
           /\ Cardinality(S \cup {x}) <= Cardinality(S) + 1
<1>1. /\ IsFiniteSet(S \cup {x})
      /\ Cardinality(S \cup {x}) = IF x \in S THEN Cardinality(S) ELSE Cardinality(S) + 1
  BY FS_AddElement
<1>2. Cardinality(S) \in Nat
  BY FS_CardinalityType
<1> QED
  BY <1>1, <1>2

LEMMA GivenUpIsExplained == ASSUME PaymentInv, GivenUp PROVE AuditExplainsPayment
<1>1. /\ DOMAIN audit = {1, 2} /\ Len(audit) = 2 /\ audit[1].at \in Nat /\ audit[2].at \in Nat
      /\ snapshot.updated \in Nat
  <2>1. DOMAIN audit = 1 .. 2 /\ Len(audit) = 2 /\ PaymentTypes
    BY DEF PaymentInv, PaymentTypes, GivenUp
  <2>2. 1 .. 2 = {1, 2}
    OBVIOUS
  <2> QED
    BY <2>1, <2>2, TimesOfEvents DEF PaymentTypes
<1>2. Transitions = {1, 2}
  BY <1>1 DEF Transitions, GivenUp, RequestIsFirst, IsEvent
<1>3. StateBefore(1) = "review"
  BY <1>2, StateBeforeAny
<1>4. StateBefore(2) = audit[1].to /\ StateBefore(3) = audit[2].to
  BY <1>2, StateBeforeOne
<1>5. Cardinality(Transitions) = 2
  <2>1. Cardinality({1, 2}) = 2
    <3>1. 1 # 2
      OBVIOUS
    <3> QED
      BY <3>1, TwoIsTwo
  <2> QED
    BY <1>2, <2>1
<1>6. /\ snapshot.revision = 2 /\ snapshot.state = audit[2].to /\ audit[1].from = "review"
      /\ audit[2].from = audit[1].to /\ audit[1].at <= audit[2].at
      /\ audit[2].at <= snapshot.updated /\ audit[1].at <= snapshot.updated
      /\ audit[1].to # "payment_initiated" /\ audit[2].to # "payment_initiated"
  BY <1>1 DEF GivenUp, RequestIsFirst, IsEvent
<1>7. /\ \A i \in DOMAIN audit : audit[i].from = StateBefore(i)
      /\ \A i, j \in DOMAIN audit : i <= j => audit[i].at <= audit[j].at
  BY <1>1, <1>3, <1>4, <1>6
<1> QED
  BY <1>1, <1>4, <1>5, <1>6, <1>7 DEF AuditExplainsPayment, PaymentInv, AcceptedKeys

LEMMA InitiatedIsExplained == ASSUME PaymentInv, Initiated PROVE AuditExplainsPayment
<1>1. /\ DOMAIN audit = {1, 2, 3} /\ Len(audit) = 3 /\ audit[1].at \in Nat
      /\ audit[2].at \in Nat /\ audit[3].at \in Nat /\ snapshot.updated \in Nat
  <2>1. DOMAIN audit = 1 .. 3 /\ Len(audit) = 3 /\ PaymentTypes
    BY DEF PaymentInv, PaymentTypes, Initiated
  <2>2. 1 .. 3 = {1, 2, 3}
    OBVIOUS
  <2> QED
    BY <2>1, <2>2, TimesOfEvents DEF PaymentTypes
<1>2. Transitions = {1, 3}
  BY <1>1 DEF Transitions, Initiated, RequestIsFirst, IsEvent
<1>3. StateBefore(1) = "review"
  BY <1>2, StateBeforeAny
<1>4. StateBefore(2) = audit[1].to /\ StateBefore(3) = audit[1].to /\ StateBefore(4) = audit[3].to
  BY <1>2, StateBeforeOne
<1>5. Cardinality(Transitions) = 2
  <2>1. 1 # 3
    OBVIOUS
  <2>2. Cardinality({1, 3}) = 2
    BY <2>1, TwoIsTwo
  <2> QED
    BY <1>2, <2>2
<1>6. /\ snapshot.revision = 2 /\ snapshot.state = audit[3].to /\ audit[1].from = "review"
      /\ audit[2].from = audit[1].to /\ audit[3].from = audit[1].to
      /\ audit[1].at <= snapshot.updated
      /\ audit[2].at = snapshot.updated /\ audit[3].at = snapshot.updated
      /\ audit[1].to # "payment_initiated" /\ audit[1].type = "approval_requested"
  BY <1>1 DEF Initiated, RequestIsFirst, IsEvent, GrantedBy
<1>7. /\ \A i \in DOMAIN audit : audit[i].from = StateBefore(i)
      /\ \A i, j \in DOMAIN audit : i <= j => audit[i].at <= audit[j].at
      /\ \A i \in DOMAIN audit : audit[i].at <= snapshot.updated
  BY <1>1, <1>3, <1>4, <1>6
<1>8. \A i \in {2, 3} : 1 \in 1 .. i /\ GrantedBy(audit[i])
  BY DEF Initiated
<1>9. \A i \in DOMAIN audit : audit[i].to = "payment_initiated" => \E r \in 1 .. i :
        LET given == audit[i].approval
        IN  /\ audit[r].type = "approval_requested"
            /\ given.by = "user" /\ given.fits /\ audit[i].actor = "user"
            /\ audit[r].at <= given.at /\ given.at <= audit[i].at /\ audit[i].at < deadline
  BY <1>1, <1>6, <1>8 DEF GrantedBy
<1>10. snapshot.state = StateBefore(Len(audit) + 1)
  BY <1>1, <1>4, <1>6
<1> QED
  BY <1>5, <1>6, <1>7, <1>9, <1>10 DEF AuditExplainsPayment, PaymentInv, AcceptedKeys

\* The audit of a payment is a whole and true account of it, in whatever order commands
\* come and however often; an initiated payment had the user's approval in time.
THEOREM AuditExplains == PaymentSpec => []AuditExplainsPayment
<1>1. PaymentInv => AuditExplainsPayment
  BY ReviewIsExplained, OneEventIsExplained, GivenUpIsExplained, InitiatedIsExplained
     DEF PaymentInv
<1> QED
  BY <1>1, PaymentInitInv, PaymentNextInv, PTL DEF PaymentSpec
=============================================================================

-------------------------- MODULE PendingApprovals --------------------------
(***************************************************************************)
(* One record of .lumos/pending_approvals/ of the bridge and the requests  *)
(* its threads serve at the same time (ThreadingHTTPServer).  A "pc"       *)
(* record (pending_approvals.py, pc_remote_tools.py) is approved or        *)
(* rejected over POST /approve and consumed by POST /tools/execute; a      *)
(* "legacy" record (server.py) is executed by /approve itself, once it has *)
(* removed the file.                                                       *)
(*                                                                         *)
(* A step is one read or one write of the file: /approve reads the record, *)
(* looks at the clock, and writes back what it read, without the lock that *)
(* consumption takes.  Callers present the record's own token (any other   *)
(* token changes nothing) and the request it was made for; confirmations   *)
(* are off, as they are by default; Windows, without fcntl, takes no lock  *)
(* and is not modelled.                                                    *)
(***************************************************************************)
EXTENDS Integers

CONSTANTS
    Thread,             \* the bridge's request threads
    Expiry,             \* expires_at of the record
    MaxTime, MaxOpened  \* bounds of a run

ASSUME ApprovalAssumption ==
    Expiry \in Nat /\ MaxTime \in Nat /\ MaxOpened \in Nat

VARIABLES
    now,                \* wall clock
    kind,               \* "pc" or "legacy"
    file,               \* the record on disk
    call,               \* thread -> what it does, and the record it has read
    opened,             \* writes that left the record approved and unused
    runs,               \* executions of what the record asks for
    lost                \* a write has replaced a record its writer had not read

vars == <<now, kind, file, call, opened, runs, lost>>

Record(s, u) == [status |-> s, used |-> u]

Unmade == Record("unmade", FALSE)       \* write_pending_approval is still to come
Gone == Record("gone", FALSE)           \* no file
Pending == Record("pending", FALSE)
Approved == Record("approved", FALSE)
Used == Record("approved", TRUE)
Expired == Record("expired", FALSE)

Exists == file \notin {Unmade, Gone}

Init ==
    /\ now = 0
    /\ kind \in {"pc", "legacy"}
    /\ file = Unmade
    /\ call = [t \in Thread |-> [pc |-> "idle", rec |-> Gone]]
    /\ opened = 0 /\ runs = 0 /\ lost = FALSE

At(t, pc) == call[t].pc = pc

Goto(t, pc) == call' = [call EXCEPT ![t].pc = pc]

\* The thread has answered and forgets its copy.
Done(t) == call' = [call EXCEPT ![t] = [pc |-> "idle", rec |-> Gone]]

\* os.replace by a thread that believes seen is on disk.
Replace(seen, rec) ==
    /\ file' = rec
    /\ lost' = (lost \/ file # seen)
    /\ opened' = IF rec = Approved THEN opened + 1 ELSE opened

KeepFile == UNCHANGED <<file, lost, opened>>

\* mark_expired_if_needed, of the copy the thread holds.
Lapsed(t) == call[t].rec = Pending /\ now > Expiry

\* ... which says nothing when the write fails.
MarkExpired(t) == Lapsed(t) /\ (Replace(call[t].rec, Expired) \/ KeepFile) /\ Done(t)

-----------------------------------------------------------------------------
(* write_pending_approval: a record whose audit line fails is removed *)

Create(t) ==
    /\ At(t, "idle") /\ file = Unmade
    /\ Replace(Unmade, Pending) /\ Goto(t, "created")
    /\ UNCHANGED <<now, kind, runs>>

CreateAudited(t) ==
    /\ At(t, "created") /\ Done(t)
    /\ \/ KeepFile
       \/ file' = Gone /\ UNCHANGED <<lost, opened>>
    /\ UNCHANGED <<now, kind, runs>>

-----------------------------------------------------------------------------
(* POST /approve *)

\* A used record is refused; pc says what the caller decided.
Load(t) ==
    /\ At(t, "idle") /\ Exists /\ ~file.used
    /\ \E pc \in {"approve", "reject"} : call' = [call EXCEPT ![t] = [pc |-> pc, rec |-> file]]
    /\ KeepFile /\ UNCHANGED <<now, kind, runs>>

\* approve_pc_remote_pending: an expired copy is refused, any other may be
\* decided, one that was decided before too.
Check(t) ==
    /\ kind = "pc" /\ (At(t, "approve") \/ At(t, "reject"))
    /\ \/ MarkExpired(t)
       \/ call[t].rec = Expired /\ Done(t) /\ KeepFile
       \/ /\ ~Lapsed(t) /\ call[t].rec # Expired
          /\ Goto(t, IF At(t, "approve") THEN "approving" ELSE "rejecting")
          /\ KeepFile
    /\ UNCHANGED <<now, kind, runs>>

Approve(t) ==
    /\ At(t, "approving") /\ opened < MaxOpened
    /\ Replace(call[t].rec, Approved) /\ Goto(t, "approved")
    /\ UNCHANGED <<now, kind, runs>>

\* Mutant: the roll-back leaves a record without a status.
RollBackBlank(t) ==
    /\ At(t, "approved") /\ opened < MaxOpened /\ Done(t)
    /\ Replace(Approved, Record("", FALSE))
    /\ UNCHANGED <<now, kind, runs>>

\* The audit line fails: the status the handler had read is written back, if
\* that can be written.
RollBack(t) ==
    /\ At(t, "approved") /\ opened < MaxOpened /\ Done(t)
    /\ \/ Replace(Approved, Record(call[t].rec.status, FALSE))
       \/ KeepFile
    /\ UNCHANGED <<now, kind, runs>>

ApproveAudited(t) ==
    /\ At(t, "approved") /\ Done(t) /\ KeepFile
    /\ UNCHANGED <<now, kind, runs>>

Reject(t) ==
    /\ At(t, "rejecting")
    /\ Replace(call[t].rec, Record("rejected", FALSE)) /\ Goto(t, "rejected")
    /\ UNCHANGED <<now, kind, runs>>

\* The handler removes what is there now, or fails to and says nothing.
Unlink(t) ==
    /\ At(t, "rejected") \/ (kind = "legacy" /\ At(t, "reject"))
    /\ Done(t)
    /\ file' \in {Gone, file}
    /\ UNCHANGED <<now, kind, opened, runs, lost>>

\* A legacy record: only the thread that has removed the file executes.
Claim(t) ==
    /\ kind = "legacy" /\ At(t, "approve")
    /\ \/ Exists /\ file' = Gone /\ Goto(t, "execute")
       \/ file' = file /\ Done(t)
    /\ UNCHANGED <<now, kind, opened, runs, lost>>

-----------------------------------------------------------------------------
(* POST /tools/execute *)

\* validate_approval_token reads without the lock ...
Present(t) ==
    /\ kind = "pc" /\ At(t, "idle") /\ Exists
    /\ call' = [call EXCEPT ![t] = [pc |-> "gate", rec |-> file]]
    /\ KeepFile /\ UNCHANGED <<now, kind, runs>>

\* ... and marks a lapsed approval expired, from its copy.
Gate(t) ==
    LET rec == call[t].rec
    IN  /\ At(t, "gate")
        /\ \/ MarkExpired(t)
           \/ rec = Approved /\ now > Expiry /\ Replace(rec, Expired) /\ Done(t)
           \/ rec = Approved /\ now <= Expiry /\ Goto(t, "lock") /\ KeepFile
           \/ ~Lapsed(t) /\ rec # Approved /\ Done(t) /\ KeepFile
        /\ UNCHANGED <<now, kind, runs>>

Locked(t) == call[t].pc \in {"locked", "consume"}

\* Mutant: no lock, as on a build without fcntl.
LockNothing(t) ==
    /\ At(t, "lock")
    /\ \/ Exists /\ call' = [call EXCEPT ![t] = [pc |-> "locked", rec |-> file]]
       \/ ~Exists /\ Done(t)
    /\ KeepFile /\ UNCHANGED <<now, kind, runs>>

\* try_consume_approval_token reads again under the sidecar lock.
Lock(t) ==
    /\ At(t, "lock") /\ \A u \in Thread : ~Locked(u)
    /\ \/ Exists /\ call' = [call EXCEPT ![t] = [pc |-> "locked", rec |-> file]]
       \/ ~Exists /\ Done(t)
    /\ KeepFile /\ UNCHANGED <<now, kind, runs>>

\* In the lock an approval that has lapsed is refused and not written.
Recheck(t) ==
    LET rec == call[t].rec
    IN  /\ At(t, "locked")
        /\ \/ MarkExpired(t)
           \/ rec = Approved /\ now <= Expiry /\ Goto(t, "consume") /\ KeepFile
           \/ ~Lapsed(t) /\ ~(rec = Approved /\ now <= Expiry) /\ Done(t) /\ KeepFile
        /\ UNCHANGED <<now, kind, runs>>

Consume(t) ==
    /\ At(t, "consume")
    /\ Replace(call[t].rec, Used) /\ Goto(t, "execute")
    /\ UNCHANGED <<now, kind, runs>>

\* The execution, or its failure: an audit line that fails, an exception.
Execute(t) ==
    /\ At(t, "execute") /\ Done(t)
    /\ runs' \in {runs, runs + 1}
    /\ KeepFile /\ UNCHANGED <<now, kind>>

-----------------------------------------------------------------------------

Tick == now < MaxTime /\ now' = now + 1 /\ UNCHANGED <<kind, file, call, opened, runs, lost>>

\* The bridge dies with all its threads and starts again.
Restart ==
    /\ \E t \in Thread : ~At(t, "idle")
    /\ call' = [t \in Thread |-> [pc |-> "idle", rec |-> Gone]]
    /\ UNCHANGED <<now, kind, file, opened, runs, lost>>

\* A decision or a consumption that cannot be written: the request fails.
WriteFails(t) ==
    /\ call[t].pc \in {"approving", "rejecting", "consume"} /\ Done(t)
    /\ KeepFile /\ UNCHANGED <<now, kind, runs>>

Decide(t) ==
    \/ Load(t) \/ Check(t) \/ Approve(t) \/ RollBack(t) \/ ApproveAudited(t)
    \/ Reject(t) \/ Unlink(t) \/ Claim(t)

Use(t) == Present(t) \/ Gate(t) \/ Lock(t) \/ Recheck(t) \/ Consume(t) \/ Execute(t)

Next ==
    \/ \E t \in Thread :
        Create(t) \/ CreateAudited(t) \/ Decide(t) \/ Use(t) \/ WriteFails(t)
    \/ Tick \/ Restart

Spec == Init /\ [][Next]_vars

-----------------------------------------------------------------------------
(* Properties *)

Records == [status : {"unmade", "gone", "pending", "approved", "rejected", "expired"},
            used : BOOLEAN]

Calls == [pc : {"idle", "created", "approve", "reject", "approving", "rejecting",
                "approved", "rejected", "gate", "lock", "locked", "consume", "execute"},
          rec : Records]

\* Every variable has its type; only an approved record is ever used.
TypeOK ==
    /\ now \in Nat /\ kind \in {"pc", "legacy"}
    /\ file \in Records /\ (file.used => file = Used)
    /\ call \in [Thread -> Calls]
    /\ opened \in Nat /\ runs \in Nat /\ lost \in BOOLEAN

RunsNeedApprovals == runs <= IF kind = "pc" THEN opened ELSE 1

OnceUnlessOverwritten == kind = "pc" /\ ~lost => runs <= 1

\* Whatever the unlocked handlers of /approve and the gates write in between,
\* executions of a pc record never outnumber the writes that approved it, by the lock
\* of try_consume_approval_token; as long as no handler writes over a record that it
\* has not read, there is one at most, even when the record is approved again, rolled
\* back, or its bridge restarted; and a legacy record executes at most once, however
\* many /approve requests have read it, because its unlink decides.
EachApprovalOnce == RunsNeedApprovals /\ OnceUnlessOverwritten

\* What the review of the approval flow says of a second /approve: that it does
\* not lead to a second execution, because used is still false.  The code breaks it.
SingleUse == kind = "pc" => runs <= 1
=============================================================================

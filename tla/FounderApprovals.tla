-------------------------- MODULE FounderApprovals --------------------------
(***************************************************************************)
(* The store of founder approvals (lumos_board/founder_approval.py).  An   *)
(* operation reads the file under the lock, decides, writes the file, then *)
(* appends its events to the audit file; it may fail or die in between, and*)
(* a process keeps its FounderApprovalStore, with the events it has not    *)
(* written, for the next operation.                                        *)
(*                                                                         *)
(* A question stands for the task, gate, action and head an approval is    *)
(* for; a record is known by its place in the file, which only grows.  Names*)
(* the registry refuses (bots, apps) are not among the founders.           *)
(***************************************************************************)
EXTENDS Integers, Sequences

CONSTANTS
    Process, Question,
    Founder,            \* who the registry takes for a human, and until when
    MaxNow              \* bound of a run

VARIABLES
    today,              \* wall clock
    approvals,          \* founder_approvals.json
    events,             \* founder_approval_events.jsonl
    process             \* what a process does, its copy and its pending events

founderVars == <<today, approvals, events, process>>

Nobody == "nobody"

\* The registry names people.
ASSUME FounderAssumption == Nobody \notin DOMAIN Founder

Ready == [pc |-> "ready", copy |-> <<>>, pending |-> <<>>]

FounderInit ==
    /\ today = 0 /\ approvals = <<>> /\ events = <<>>
    /\ process = [p \in Process |-> Ready]

Asking(q, as) == {i \in DOMAIN as : as[i].question = q}

\* Mutant: an operation that begins keeps what an earlier one has not written.
EnterKept(p) ==
    /\ process[p].pc = "ready" /\ \A o \in Process : process[o].pc = "ready"
    /\ process' = [process EXCEPT ![p] = [pc |-> "decide", copy |-> approvals, pending |-> @.pending]]
    /\ UNCHANGED <<today, approvals, events>>

\* _locked_state: the lock, the file, and no pending event.
Enter(p) ==
    /\ process[p].pc = "ready" /\ \A o \in Process : process[o].pc = "ready"
    /\ process' = [process EXCEPT ![p] = [pc |-> "decide", copy |-> approvals, pending |-> <<>>]]
    /\ UNCHANGED <<today, approvals, events>>

Decided(p, as, new) ==
    /\ process' = [process EXCEPT ![p] = [pc |-> "write", copy |-> as, pending |-> @.pending \o new]]
    /\ UNCHANGED <<today, approvals, events>>

\* A question that is recorded already, granted or not, is not asked again.
Ask(p, q) ==
    LET as == process[p].copy
    IN  /\ process[p].pc = "decide" /\ Asking(q, as) = {}
        /\ Decided(p, Append(as, [question |-> q, by |-> Nobody]),
                   <<[event |-> "APPROVAL_REQUESTED", record |-> Len(as) + 1, by |-> Nobody]>>)

Grant(p, i, who) ==
    LET as == process[p].copy
    IN  /\ process[p].pc = "decide" /\ i \in DOMAIN as
        /\ who \in DOMAIN Founder /\ Founder[who] > today
        /\ as[i].by = Nobody
        /\ Decided(p, [as EXCEPT ![i].by = who],
                   <<[event |-> "APPROVAL_GRANTED", record |-> i, by |-> who]>>)

\* check, list_approvals and an answered request write back what they read.
Look(p) == process[p].pc = "decide" /\ Decided(p, process[p].copy, <<>>)

\* An operation that refuses writes nothing and drops its events.
RefuseGrant(p) ==
    /\ process[p].pc = "decide"
    /\ process' = [process EXCEPT ![p] = Ready]
    /\ UNCHANGED <<today, approvals, events>>

WriteState(p) ==
    /\ process[p].pc = "write"
    /\ approvals' = process[p].copy
    /\ process' = [process EXCEPT ![p].pc = "audit"]
    /\ UNCHANGED <<today, events>>

FlushAudit(p) ==
    /\ process[p].pc = "audit"
    /\ events' = events \o process[p].pending
    /\ process' = [process EXCEPT ![p] = Ready]
    /\ UNCHANGED <<today, approvals>>

\* A write that fails leaves the store with its pending events; one of the audit
\* file may fail, at its fsync, when the lines are there.
Fails(p) ==
    /\ process[p].pc \in {"write", "audit"}
    /\ process' = [process EXCEPT ![p].pc = "ready", ![p].copy = <<>>]
    /\ \/ UNCHANGED events
       \/ process[p].pc = "audit" /\ events' = events \o process[p].pending
    /\ UNCHANGED <<today, approvals>>

Killed(p) ==
    /\ process[p] # Ready /\ process' = [process EXCEPT ![p] = Ready]
    /\ UNCHANGED <<today, approvals, events>>

NextDay == today < MaxNow /\ today' = today + 1 /\ UNCHANGED <<approvals, events, process>>

FounderNext ==
    \/ \E p \in Process :
        \/ Enter(p) \/ Look(p) \/ RefuseGrant(p) \/ WriteState(p) \/ FlushAudit(p)
        \/ Fails(p) \/ Killed(p)
        \/ \E q \in Question : Ask(p, q)
        \/ \E i \in DOMAIN process[p].copy, who \in DOMAIN Founder : Grant(p, i, who)
    \/ NextDay

FounderSpec == FounderInit /\ [][FounderNext]_founderVars

-----------------------------------------------------------------------------
(* Properties *)

FounderTypeOK ==
    /\ today \in Nat
    /\ \A i \in DOMAIN approvals : approvals[i] \in [question : Question, by : DOMAIN Founder \cup {Nobody}]
    /\ \A p \in Process : process[p].pc \in {"ready", "decide", "write", "audit"}

\* The audit file never tells of what did not happen, or twice of what did: every
\* event is of a record of the file, a grant of one granted to that founder, and no
\* question has two records, whatever failed or died before.  (A write of the file
\* whose events are lost with it leaves a record that the audit does not tell of.)
AuditIsTrue ==
    /\ \A i, j \in DOMAIN approvals : approvals[i].question = approvals[j].question => i = j
    /\ \A n \in DOMAIN events :
        /\ events[n].record \in DOMAIN approvals
        /\ events[n].event = "APPROVAL_GRANTED" => approvals[events[n].record].by = events[n].by
        /\ \A m \in DOMAIN events : events[m].event = events[n].event
                                    /\ events[m].record = events[n].record => m = n
=============================================================================

---------------------------- MODULE ReaderGateway ----------------------------
(***************************************************************************)
(* SingleReaderGateway (src/lumos_board/coordination_gateway.py): many     *)
(* writers submit events, one leased reader reads the user's digest and    *)
(* acknowledges it.  Every operation runs under one flock in three steps:  *)
(* it reads the files and decides, it writes a file, it appends its audit  *)
(* line; if the write or the line fails, the file is rolled back to what   *)
(* was read.  A line that fails leaves nothing in the audit file, or a part*)
(* of itself, or all of it: it is flushed before it is synchronised.  The  *)
(* next line stands behind a part, and neither can be read.  A process may *)
(* die after any step, which drops the lock and rolls nothing back.        *)
(*                                                                         *)
(* An event is known by its dedupe key; the reader's token by the process  *)
(* that holds it, for a process keeps only its latest one.  The lease is   *)
(* the time it has left.  The library has no client in the repository: a   *)
(* reader here acknowledges what its last digest showed, and forgets the   *)
(* digest of a former lease.                                               *)
(***************************************************************************)
EXTENDS Integers, Sequences, FiniteSets

CONSTANTS
    Proc,
    Key, UserKey,       \* dedupe keys, and those routed to the user
    NoReader,
    Ttl,                \* ttl_seconds of a lease
    MaxFaults           \* bound of a run: writes and audit lines that fail, and deaths

ASSUME GatewayAssumption ==
    UserKey \subseteq Key /\ Key # {} /\ Ttl \in Nat /\ NoReader \notin Proc

VARIABLES
    events,             \* coordination_events.jsonl
    reader,             \* single_reader.json: whose token, time left
    acked,              \* delivery_state.json
    audited,            \* events and acknowledgements with an audit line that can be read
    ragged,             \* coordination_audit.jsonl: the last line has no end
    cuts,               \* parts of lines that were left there so far
    strays,             \* lines left there by operations that failed
    call,               \* what a process does under the lock, and what it read
    token,              \* the process holds a token
    seen,               \* events of the last digest it was given
    told,               \* events whose submitter was answered
    shownTo, ackedBy,   \* the last reader shown an event, the one that acked it
    faults, deaths

vars == <<events, reader, acked, audited, ragged, cuts, strays, call,
          token, seen, told, shownTo, ackedBy, faults, deaths>>

disk == <<events, reader, acked>>
flaws == <<ragged, cuts, strays>>
clients == <<token, seen, told, shownTo, ackedBy>>

Stored == {events[i] : i \in DOMAIN events}

Vacant == [owner |-> NoReader, left |-> 0]

Idle == [op |-> "none", pc |-> "idle", key |-> CHOOSE k \in Key : TRUE,
         events |-> <<>>, reader |-> Vacant, acked |-> {}]

Init ==
    /\ events = <<>> /\ reader = Vacant /\ acked = {}
    /\ audited = [event |-> {}, ack |-> {}]
    /\ ragged = FALSE /\ cuts = 0 /\ strays = 0
    /\ call = [p \in Proc |-> Idle]
    /\ token = [p \in Proc |-> FALSE] /\ seen = [p \in Proc |-> {}]
    /\ told = {}
    /\ shownTo = [k \in Key |-> NoReader] /\ ackedBy = [k \in Key |-> NoReader]
    /\ faults = 0 /\ deaths = 0

At(p, op, pc) == call[p].op = op /\ call[p].pc = pc

Finish(p) == call' = [call EXCEPT ![p] = Idle]

-----------------------------------------------------------------------------
(* _append_json on the audit file *)

LineEnds == ragged' = FALSE /\ UNCHANGED <<cuts, strays>>

LineIsCut == ragged' = TRUE /\ cuts' = cuts + 1 /\ UNCHANGED strays

\* The error comes before the line, within it, or after all of it.
LineFails ==
    \/ UNCHANGED flaws
    \/ LineIsCut
    \/ ragged' = FALSE /\ strays' = (IF ragged THEN strays ELSE strays + 1) /\ UNCHANGED cuts

-----------------------------------------------------------------------------
(* The lock, the files as they are read, and the decision *)

\* Mutant: _require_reader takes the token of any lease that was ever given out.
IsReaderOnce(p) == token[p] /\ reader.left > 0

\* _require_reader
IsReader(p) == token[p] /\ reader.left > 0 /\ reader.owner = p

Enter(p, op, k) ==
    /\ \A q \in Proc : call[q].pc = "idle"
    /\ call' = [call EXCEPT ![p] = [op |-> op, pc |-> "write", key |-> k,
            events |-> events, reader |-> reader, acked |-> acked]]
    /\ UNCHANGED <<disk, audited, flaws, clients, faults, deaths>>

NoKey == Idle.key

\* A submitter retries until it is answered.
Submit(p, k) == k \notin told /\ Enter(p, "submit", k)

Claim(p) == reader.left = 0 /\ Enter(p, "claim", NoKey)

Heartbeat(p) == IsReader(p) /\ Enter(p, "heartbeat", NoKey)

Release(p) == IsReader(p) /\ Enter(p, "release", NoKey)

Digest(p) == IsReader(p) /\ Enter(p, "digest", NoKey)

\* read_internal_routes: the audit file is all that it writes.
Routes(p) == IsReader(p) /\ Enter(p, "routes", NoKey)

Acknowledge(p) == IsReader(p) /\ seen[p] # {} /\ Enter(p, "ack", NoKey)

-----------------------------------------------------------------------------
(* The write *)

\* Mutant: an event is shown to one reader only.
UnacknowledgedUnseen(p) ==
    {k \in UserKey : (\E i \in DOMAIN call[p].events : call[p].events[i] = k)
                     /\ k \notin call[p].acked /\ shownTo[k] = NoReader}

Unacknowledged(p) ==
    {k \in UserKey : (\E i \in DOMAIN call[p].events : call[p].events[i] = k)
                     /\ k \notin call[p].acked}

Duplicate(p) == \E i \in DOMAIN call[p].events : call[p].events[i] = call[p].key

\* A duplicate is answered, after its line, with the event it repeats.
AnswerDuplicate(p) ==
    /\ At(p, "submit", "write") /\ Duplicate(p)
    /\ told' = told \cup {call[p].key} /\ Finish(p) /\ LineEnds
    /\ UNCHANGED <<disk, audited, token, seen, shownTo, ackedBy, faults, deaths>>

\* Mutant: a heartbeat adds to what is left.
LeaseLonger(p) == [owner |-> p, left |-> reader.left + Ttl]

Lease(p) == [owner |-> p, left |-> Ttl]

\* Of a lease that ran out and was not released.
TakesOver(p) == At(p, "claim", "write") /\ call[p].reader.owner # NoReader

\* A takeover has a line of its own, before the write.
LineFirst(p) == TakesOver(p) \/ (At(p, "submit", "write") /\ Duplicate(p))

Write(p) ==
    /\ call[p].pc = "write"
    /\ \/ At(p, "submit", "write") /\ ~Duplicate(p)
          /\ events' = Append(events, call[p].key) /\ UNCHANGED <<reader, acked>>
       \/ call[p].op \in {"claim", "heartbeat"}
          /\ reader' = Lease(p) /\ UNCHANGED <<events, acked>>
       \/ At(p, "release", "write")
          /\ reader' = Vacant /\ UNCHANGED <<events, acked>>
       \/ At(p, "ack", "write")
          /\ acked' = call[p].acked \cup seen[p] /\ UNCHANGED <<events, reader>>
       \/ call[p].op \in {"digest", "routes"} /\ UNCHANGED disk
    /\ IF TakesOver(p) THEN LineEnds ELSE UNCHANGED flaws
    /\ call' = [call EXCEPT ![p].pc = "audit"]
    /\ UNCHANGED <<audited, clients, faults, deaths>>

\* The file gets back what it held, or there was no write yet but a line that failed.
WriteFails(p) ==
    /\ call[p].pc = "write" /\ call[p].op \notin {"digest", "routes"} /\ faults < MaxFaults
    /\ Finish(p) /\ faults' = faults + 1
    /\ IF LineFirst(p) THEN LineFails ELSE UNCHANGED flaws
    /\ UNCHANGED <<disk, audited, clients, deaths>>

-----------------------------------------------------------------------------
(* The audit line and the answer *)

\* What has its line once that of p is all there.
Recorded(p) ==
    [event |-> audited.event \cup {k \in {call[p].key} : At(p, "submit", "audit") /\ ~ragged},
     ack |-> audited.ack \cup {k \in seen[p] : At(p, "ack", "audit") /\ ~ragged}]

Audit(p) ==
    /\ call[p].pc = "audit" /\ Finish(p)
    /\ audited' = Recorded(p) /\ LineEnds
    /\ \/ /\ At(p, "submit", "audit")
          /\ told' = told \cup {call[p].key}
          /\ UNCHANGED <<token, seen, shownTo, ackedBy>>
       \/ /\ call[p].op \in {"claim", "release"}
          /\ token' = [token EXCEPT ![p] = At(p, "claim", "audit")]
          /\ seen' = [seen EXCEPT ![p] = {}]
          /\ UNCHANGED <<told, shownTo, ackedBy>>
       \/ /\ At(p, "digest", "audit")
          /\ seen' = [seen EXCEPT ![p] = Unacknowledged(p)]
          /\ shownTo' = [k \in Key |-> IF k \in Unacknowledged(p) THEN p ELSE shownTo[k]]
          /\ UNCHANGED <<token, told, ackedBy>>
       \/ /\ At(p, "ack", "audit")
          /\ ackedBy' = [k \in Key |-> IF k \in seen[p] THEN p ELSE ackedBy[k]]
          /\ seen' = [seen EXCEPT ![p] = {}]
          /\ UNCHANGED <<token, told, shownTo>>
       \/ call[p].op \in {"heartbeat", "routes"} /\ UNCHANGED clients
    /\ UNCHANGED <<disk, faults, deaths>>

\* Mutant: the file stays as it was written.
AuditFailsOnly(p) ==
    /\ call[p].pc = "audit" /\ faults < MaxFaults
    /\ Finish(p) /\ faults' = faults + 1 /\ LineFails
    /\ UNCHANGED <<disk, audited, clients, deaths>>

\* _audit_rollback: the file gets back what it held, and the caller an error; the audit
\* file keeps what it got of the line.
AuditFails(p) ==
    /\ call[p].pc = "audit" /\ faults < MaxFaults
    /\ events' = IF At(p, "submit", "audit") THEN call[p].events ELSE events
    /\ reader' = IF call[p].op \in {"claim", "heartbeat", "release"}
                 THEN call[p].reader ELSE reader
    /\ acked' = IF At(p, "ack", "audit") THEN call[p].acked ELSE acked
    /\ Finish(p) /\ faults' = faults + 1 /\ LineFails
    /\ UNCHANGED <<audited, clients, deaths>>

-----------------------------------------------------------------------------

\* An operation is short against a lease (900 seconds): it ends before the time
\* that its clock has read is over.
Tick ==
    /\ \A p \in Proc : call[p].pc = "idle"
    /\ reader.left > 0 /\ reader' = [reader EXCEPT !.left = @ - 1]
    /\ UNCHANGED <<events, acked, audited, flaws, call, clients, faults, deaths>>

\* The process dies with its token and its digest; if it was at a line, that may be
\* there, in part or whole.
Die(p) ==
    /\ faults < MaxFaults /\ faults' = faults + 1 /\ deaths' = deaths + 1
    /\ Finish(p)
    /\ token' = [token EXCEPT ![p] = FALSE] /\ seen' = [seen EXCEPT ![p] = {}]
    /\ \/ UNCHANGED <<audited, flaws>>
       \/ /\ call[p].pc = "audit" \/ LineFirst(p)
          /\ \/ LineIsCut /\ UNCHANGED audited
             \/ LineEnds /\ audited' = Recorded(p)
    /\ UNCHANGED <<disk, told, shownTo, ackedBy>>

Finishes(p) == AnswerDuplicate(p) \/ Write(p) \/ Audit(p)

Next ==
    \/ Tick
    \/ \E p \in Proc :
        \/ \E k \in Key : Submit(p, k)
        \/ Claim(p) \/ Heartbeat(p) \/ Release(p) \/ Digest(p) \/ Routes(p)
        \/ Acknowledge(p) \/ Finishes(p) \/ WriteFails(p) \/ AuditFails(p) \/ Die(p)

Spec == Init /\ [][Next]_vars

\* An operation that has the lock ends, time passes, and where somebody can claim, read
\* or acknowledge again and again, somebody does at last.
FairSpec ==
    /\ Spec /\ WF_vars(Tick)
    /\ WF_vars(\E p \in Proc : Finishes(p))
    /\ SF_vars(\E p \in Proc : Claim(p))
    /\ SF_vars(\E p \in Proc : Digest(p))
    /\ SF_vars(\E p \in Proc : Acknowledge(p))

-----------------------------------------------------------------------------
(* Properties *)

Lines == [owner : Proc \cup {NoReader}, left : 0..Ttl]

Calls == [op : {"none", "submit", "claim", "heartbeat", "release", "digest", "routes", "ack"},
          pc : {"idle", "write", "audit"}, key : Key,
          events : Seq(Key), reader : Lines, acked : SUBSET UserKey]

\* Every variable has its type.
TypeOK ==
    /\ events \in Seq(Key) /\ reader \in Lines /\ acked \subseteq UserKey
    /\ audited \in [event : SUBSET Key, ack : SUBSET UserKey]
    /\ ragged \in BOOLEAN /\ cuts \in Nat /\ strays \in Nat
    /\ call \in [Proc -> Calls]
    /\ token \in [Proc -> BOOLEAN] /\ seen \in [Proc -> SUBSET UserKey]
    /\ told \subseteq Key
    /\ shownTo \in [Key -> Proc \cup {NoReader}] /\ ackedBy \in [Key -> Proc \cup {NoReader}]

\* submit_event: however often a submitter retries, whoever dies between two writes and
\* whatever is rolled back, an event that was answered is in the inbox, and no key is
\* there twice.
AnsweredOnce ==
    /\ told \subseteq Stored
    /\ \A i, j \in DOMAIN events : events[i] = events[j] => i = j

\* Changes that stand in files of these contents and whose line cannot be read.
Unread(keys, acks) ==
    Cardinality(keys \ audited.event) + (IF acks = audited.ack THEN 0 ELSE 1)

HalfLine == IF ragged THEN 1 ELSE 0

\* _audit_rollback, once the lock is free: what the audit file says was received and
\* acknowledged stands in the files, its strays aside, and a failing operation leaves one
\* of these at most; a change stands there unrecorded only because a process died or
\* because its line is behind a part of another, each part hiding one change at most; and
\* unless a process died there is no lease without somebody who holds its token.
AuditOffByFailures ==
    (\A p \in Proc : call[p].pc = "idle") =>
        /\ audited.event \subseteq Stored /\ audited.ack \subseteq acked
        /\ Unread(Stored, acked) + HalfLine <= cuts + deaths
        /\ strays + cuts <= faults
        /\ deaths = 0 /\ reader.owner # NoReader => token[reader.owner]

\* submit_event and _audit_rollback: what the inbox says was received agrees with the
\* answers that were given, and with the audit but for the lines that failed.
InboxAndAuditAgree == AnsweredOnce /\ AuditOffByFailures

\* A reader whose lease lapsed acknowledges nothing: an event is acknowledged by
\* the reader it was shown to last, however many readers came and went.
LastReaderAcknowledges ==
    \A k \in Key : ackedBy[k] # NoReader => ackedBy[k] = shownTo[k]

\* Every user event whose submitter was answered is acknowledged in the end,
\* although readers die with the lease and audit lines fail.
AnsweredIsDelivered == \A k \in UserKey : (k \in told) ~> (k \in acked)
=============================================================================

--------------------------- MODULE ExecutionGrant ---------------------------
(***************************************************************************)
(* Task execution grants (src/policy/task_execution_grant.py), enforcement *)
(* switched on.  The authority accepts a task in five writes: a stub in the*)
(* task registry, the grant file, the grant in the registry, and two ledger*)
(* lines; then its caller holds the token.  The executor's gate reads the  *)
(* registry without a lock, consumes the grant under the lock of its file, *)
(* and writes the ledger.  A step of the model is one write: processes     *)
(* interleave between writes, and die there.                               *)
(*                                                                         *)
(* A token is known by its grant's id, and NoGrant is any token that was   *)
(* never issued.  The hash of a ledger line is the line's number: a hash   *)
(* stands for all the lines before it.  A process that dies drops its      *)
(* flocks.  A build without fcntl takes no locks and is not modelled.      *)
(***************************************************************************)
EXTENDS Integers, Sequences, FiniteSets

CONSTANTS
    Worker,             \* processes that accept or execute
    Task,
    Binding,            \* who does what to which task
    Forbidden,          \* actions that get no grant (SECURITY_NEVER_AUTO)
    GrantId, NoGrant,
    NoTask,             \* a task the registry does not know
    Ttl,                \* ttl_seconds
    MaxTime, MaxLedger, MaxCrashes      \* bounds of a run

ASSUME GrantAssumption ==
    /\ Binding # {} /\ \A b \in Binding : b.task \in Task
    /\ NoGrant \notin GrantId
    /\ NoTask \notin Binding
    /\ NoTask \notin [bind : Binding, grant : GrantId \cup {NoGrant}]
    /\ Ttl \in Nat /\ MaxTime \in Nat /\ MaxLedger \in Nat /\ MaxCrashes \in Nat

VARIABLES
    now,                \* wall clock
    registry,           \* task -> its record: binding and registered grant
    grants,             \* grant files: binding, expiry, consumed
    ledger, tip,        \* lines, each with the hash it follows; the tip file
    call,               \* what each process is doing
    held,               \* grants whose token accept has returned
    allowed,            \* task -> the executions the gate has let through
    crashes

vars == <<now, registry, grants, ledger, tip, call, held, allowed, crashes>>

\* pc is the next write; lined says that its ledger line is written and the tip
\* is not.
Call(pc, b, g) == [pc |-> pc, bind |-> b, grant |-> g, lined |-> FALSE]

Idle == Call("idle", CHOOSE b \in Binding : TRUE, NoGrant)

Init ==
    /\ now = 0
    /\ registry = [t \in Task |-> NoTask]
    /\ grants = <<>>
    /\ ledger = <<>> /\ tip = 0
    /\ call = [w \in Worker |-> Idle]
    /\ held = {}
    /\ allowed = [t \in Task |-> <<>>]
    /\ crashes = 0

Goto(w, c) == call' = [call EXCEPT ![w] = c]

-----------------------------------------------------------------------------
(* accept_execution_task *)

\* The record before its grant is stamped; the same binding may take it up again.
Stub(b) == [bind |-> b, grant |-> NoGrant]

Occupy(w, b) ==
    /\ call[w].pc = "idle" /\ b.action \notin Forbidden
    /\ registry[b.task] \in {NoTask, Stub(b)}
    /\ registry' = [registry EXCEPT ![b.task] = Stub(b)]
    /\ Goto(w, Call("mint", b, NoGrant))
    /\ UNCHANGED <<now, grants, ledger, tip, held, allowed, crashes>>

Mint(w, g) ==
    /\ call[w].pc = "mint" /\ g \in GrantId \ DOMAIN grants
    /\ grants' = [h \in DOMAIN grants \cup {g} |->
            IF h = g
            THEN [bind |-> call[w].bind, expires |-> now + Ttl, consumed |-> FALSE]
            ELSE grants[h]]
    /\ Goto(w, Call("stamp", call[w].bind, g))
    /\ UNCHANGED <<now, registry, ledger, tip, held, allowed, crashes>>

\* Mutant: the last one to stamp the registry wins.
StampBlind(w) ==
    /\ call[w].pc = "stamp"
    /\ registry' = [registry EXCEPT
            ![call[w].bind.task] = [bind |-> call[w].bind, grant |-> call[w].grant]]
    /\ Goto(w, [call[w] EXCEPT !.pc = "accepted"])
    /\ UNCHANGED <<now, grants, ledger, tip, held, allowed, crashes>>

\* _finalize_registry_grant: an accept that finished first wins, this one raises.
Stamp(w) ==
    LET b == call[w].bind
        g == call[w].grant
    IN  /\ call[w].pc = "stamp"
        /\ \/ /\ registry[b.task] = Stub(b)
              /\ registry' = [registry EXCEPT ![b.task] = [bind |-> b, grant |-> g]]
              /\ Goto(w, [call[w] EXCEPT !.pc = "accepted"])
           \/ /\ registry[b.task] # Stub(b)
              /\ UNCHANGED registry /\ Goto(w, Idle)
        /\ UNCHANGED <<now, grants, ledger, tip, held, allowed, crashes>>

-----------------------------------------------------------------------------
(* consume_task_execution_grant *)

\* The token presented is the one registered for the task.
Registered(b, g) == g # NoGrant /\ registry[b.task] \in [bind : Binding, grant : {g}]

\* The registry is read without a lock.
Present(w, b, g) ==
    /\ call[w].pc = "idle" /\ g \in held \cup {NoGrant}
    /\ Goto(w, Call(IF Registered(b, g) THEN "consume" ELSE "denied", b, g))
    /\ UNCHANGED <<now, registry, grants, ledger, tip, held, allowed, crashes>>

\* Nobody is between the write to the grant file of g and its ledger line.
Unlocked(g) ==
    \A w \in Worker :
        call[w].pc \in {"authorized", "refused"} => call[w].grant # g

\* Mutant: the consumed flag is not read again under the lock.
ValidUnread(g, b) ==
    b.action \notin Forbidden /\ grants[g].bind = b /\ now <= grants[g].expires

\* _validate_record
Valid(g, b) ==
    /\ b.action \notin Forbidden
    /\ grants[g].bind = b
    /\ ~grants[g].consumed
    /\ now <= grants[g].expires

\* _consume_locked up to its ledger line
Consume(w) ==
    LET g == call[w].grant
    IN  /\ call[w].pc = "consume" /\ Unlocked(g)
        /\ \/ /\ Valid(g, call[w].bind)
              /\ grants' = [grants EXCEPT ![g].consumed = TRUE]
              /\ Goto(w, [call[w] EXCEPT !.pc = "authorized"])
           \/ /\ ~Valid(g, call[w].bind)
              /\ UNCHANGED grants
              /\ Goto(w, [call[w] EXCEPT !.pc = "refused"])
        /\ UNCHANGED <<now, registry, ledger, tip, held, allowed, crashes>>

-----------------------------------------------------------------------------
(* append_ledger_entry, and what its caller does next *)

Logs == {"accepted", "issued", "authorized", "denied", "refused"}

Line(kind, g) == [kind |-> kind, grant |-> g, prev |-> tip]

\* Mutant: the ledger has no lock.
WriteLineUnlocked(w) ==
    /\ call[w].pc \in Logs /\ ~call[w].lined /\ Len(ledger) < MaxLedger
    /\ ledger' = Append(ledger, Line(call[w].pc, call[w].grant))
    /\ Goto(w, [call[w] EXCEPT !.lined = TRUE])
    /\ UNCHANGED <<now, registry, grants, tip, held, allowed, crashes>>

\* With the ledger's lock taken: a line that follows the tip.
WriteLine(w) ==
    /\ call[w].pc \in Logs /\ Len(ledger) < MaxLedger
    /\ \A v \in Worker : ~call[v].lined
    /\ ledger' = Append(ledger, Line(call[w].pc, call[w].grant))
    /\ Goto(w, [call[w] EXCEPT !.lined = TRUE])
    /\ UNCHANGED <<now, registry, grants, tip, held, allowed, crashes>>

\* The line becomes the tip, and the lock is released.
WriteTip(w) == call[w].lined /\ tip' = Len(ledger) /\ UNCHANGED ledger

\* The second line of an accept follows the first.
Accepted(w) ==
    /\ call[w].pc = "accepted" /\ WriteTip(w)
    /\ Goto(w, Call("issued", call[w].bind, call[w].grant))
    /\ UNCHANGED <<now, registry, grants, held, allowed, crashes>>

\* accept_execution_task returns the token.
Issued(w) ==
    /\ call[w].pc = "issued" /\ WriteTip(w)
    /\ held' = held \cup {call[w].grant}
    /\ Goto(w, Idle)
    /\ UNCHANGED <<now, registry, grants, allowed, crashes>>

\* Mutant: the gate opens before the line is written.
AuthorizedEarly(w) ==
    /\ call[w].pc = "authorized"
    /\ allowed' = [allowed EXCEPT ![call[w].bind.task] = Append(@, call[w].bind)]
    /\ Goto(w, Idle)
    /\ UNCHANGED <<now, registry, grants, ledger, tip, held, crashes>>

\* The gate lets the execution through.
Authorized(w) ==
    /\ call[w].pc = "authorized" /\ WriteTip(w)
    /\ allowed' = [allowed EXCEPT ![call[w].bind.task] = Append(@, call[w].bind)]
    /\ Goto(w, Idle)
    /\ UNCHANGED <<now, registry, grants, held, crashes>>

Denied(w) ==
    /\ call[w].pc \in {"denied", "refused"} /\ WriteTip(w)
    /\ Goto(w, Idle)
    /\ UNCHANGED <<now, registry, grants, held, allowed, crashes>>

-----------------------------------------------------------------------------

\* The wall clock moves, and may be stepped back.
Tick ==
    /\ now' \in 0..MaxTime
    /\ UNCHANGED <<registry, grants, ledger, tip, call, held, allowed, crashes>>

\* A process dies.  When it was at the tip, write_text may have emptied the file
\* (which reads as genesis) or filled it.
Crash(w) ==
    /\ call[w].pc # "idle"
    /\ crashes < MaxCrashes /\ crashes' = crashes + 1
    /\ tip' \in IF call[w].lined THEN {tip, 0, Len(ledger)} ELSE {tip}
    /\ Goto(w, Idle)
    /\ UNCHANGED <<now, registry, grants, ledger, held, allowed>>

Accept(w) ==
    \/ \E b \in Binding : Occupy(w, b)
    \/ \E g \in GrantId : Mint(w, g)
    \/ Stamp(w) \/ Accepted(w) \/ Issued(w)

Execute(w) ==
    \/ \E b \in Binding, g \in GrantId \cup {NoGrant} : Present(w, b, g)
    \/ Consume(w) \/ Authorized(w) \/ Denied(w)

Next == Tick \/ \E w \in Worker : Accept(w) \/ Execute(w) \/ WriteLine(w) \/ Crash(w)

Spec == Init /\ [][Next]_vars

-----------------------------------------------------------------------------
(* Correctness *)

RegistryRecord == [bind : Binding, grant : GrantId \cup {NoGrant}]

GrantFile == [bind : Binding, expires : Nat, consumed : BOOLEAN]

LedgerLine == [kind : Logs, grant : GrantId \cup {NoGrant}, prev : Nat]

CallRecord ==
    [pc : Logs \cup {"idle", "mint", "stamp", "consume"}, bind : Binding,
     grant : GrantId \cup {NoGrant}, lined : BOOLEAN]

\* Every variable has its type, and the tip is genesis or some line.
TypeOK ==
    /\ now \in 0..MaxTime /\ crashes \in 0..MaxCrashes
    /\ registry \in [Task -> {NoTask} \cup RegistryRecord]
    /\ DOMAIN grants \subseteq GrantId /\ grants \in [DOMAIN grants -> GrantFile]
    /\ ledger \in Seq(LedgerLine)
    /\ tip \in 0..Len(ledger)
    /\ call \in [Worker -> CallRecord]
    /\ held \subseteq GrantId
    /\ allowed \in [Task -> Seq(Binding)]

\* A token that accept has returned is the one registered for its task: no hung
\* accept that wakes up later, and no recovery of a stub, replaces it
\* (the contract of _finalize_registry_grant).
HeldTokenIsRegistered ==
    \A g \in held :
        /\ g \in DOMAIN grants
        /\ registry[grants[g].bind.task] = [bind |-> grants[g].bind, grant |-> g]

\* Lines of grant g of the given kinds, in this order.
AcceptedLine(l, g) == \E i \in 1..Len(l) : l[i].kind = "accepted" /\ l[i].grant = g

IssuedLine(l, g) ==
    \E i, j \in 1..Len(l) :
        /\ i < j
        /\ l[i].kind = "accepted" /\ l[i].grant = g
        /\ l[j].kind = "issued" /\ l[j].grant = g

AuthorizedLine(l, g) ==
    \E i, j, k \in 1..Len(l) :
        /\ i < j /\ j < k
        /\ l[i].kind = "accepted" /\ l[i].grant = g
        /\ l[j].kind = "issued" /\ l[j].grant = g
        /\ l[k].kind = "authorized" /\ l[k].grant = g

\* An execution has left its evidence before it starts: the grant registered for
\* its task was accepted, issued and authorized in the ledger, in this order.
EvidenceFirst ==
    \A t \in Task : allowed[t] # <<>> => AuthorizedLine(ledger, registry[t].grant)

\* verify_ledger_chain returns TRUE.
ChainVerifies == \A i \in 1..Len(ledger) : ledger[i].prev = i - 1

\* The lines that do not follow the line before them.
Breaks == {i \in 1..Len(ledger) : ledger[i].prev # i - 1}

\* However the processes interleave, a death costs the chain of the ledger one
\* link at most (append_ledger_entry): the line after a break is a good one again,
\* and with no death the chain verifies.
OneBreakPerDeath == Cardinality(Breaks) <= crashes

\* The binding a registry record was accepted for; a stub is not accepted yet.
AcceptedBinding(r) == IF r = NoTask \/ r = Stub(r.bind) THEN NoTask ELSE r.bind

Gate == INSTANCE OneUse WITH
    NoBinding <- NoTask,
    accepted <- [t \in Task |-> AcceptedBinding(registry[t])],
    uses <- allowed

\* A task is accepted once and its accepted binding executes at most once,
\* whatever is presented, retried, or lost in a crash.
OneExecution == Gate!Spec
=============================================================================

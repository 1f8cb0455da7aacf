---------------------------- MODULE CentralStore ----------------------------
(***************************************************************************)
(* CentralClaimStore (src/lumos_board/central_store.py) as hosts run it: an*)
(* operation fetches the board's branch, applies the rules of ClaimRules to*)
(* the board it found, commits the result on top of what it fetched, and   *)
(* pushes.  The remote accepts a push only if the branch still is where the*)
(* commit's parent was; a rejected operation starts again from the fetch,  *)
(* at most MaxAttempts times.  A push whose answer is lost fails the call, *)
(* yet the remote may have taken it, or may take it later.                 *)
(*                                                                         *)
(* Operations of one host are serialized by its lock file, so a host has   *)
(* one call at a time.  What happens inside the host between fetch and     *)
(* push touches nothing shared and is one step.  Commits are numbered along*)
(* the branch.  The mirror each host keeps for its read-only tools is left *)
(* out.                                                                    *)
(***************************************************************************)
EXTENDS Integers

CONSTANTS
    ClaimId, Task, Repo, Owner, Path, Approver, PullRequest, ApproverUntil,
    DelegatorUntil, NoClaim, NoPR, Requests, HeartbeatTtl, Approvals,
    Delegations, Time, ClockSkew,
    LocalBoards,        \* as in CentralBoard
    Host,
    Ops,                \* the operations hosts call
    MaxAttempts,        \* max_attempts
    MaxCalls            \* calls in a behaviour (bounds the run)

VARIABLES
    ref,                \* the branch: number of its last commit, and content
    host,               \* the call each host is in
    flight,             \* commits pushed whose answer was not waited for
    calls,              \* calls made so far
    landed,             \* <<call, commit number>> of the commits on the branch
    told                \* claims whose call was answered with success

cvars == <<ref, host, flight, calls, landed, told>>

\* The board on the branch; the rules of ClaimRules are B!...
B == INSTANCE CentralBoard
        WITH claims <- ref.board, clock <- ref.clock,
             overrides <- ref.overrides, Horizon <- 0

\* The arguments of each operation are those a host's own board takes.
Operation(op) ==
    \/ op.kind = "list"
    \/ op.kind = "claim" /\ op.req \in Requests
                         /\ op.token \in Delegations \cup {NoClaim}
                         /\ op.queue \in BOOLEAN
    \/ op.kind = "override" /\ op.req \in Requests /\ op.approval \in Approvals
    \/ op.kind = "heartbeat" /\ op.claim \in ClaimId /\ op.owner \in Owner
                             /\ op.ttl \in HeartbeatTtl
    \/ op.kind = "release" /\ op.claim \in ClaimId /\ op.owner \in Owner
    \/ op.kind = "attach" /\ op.claim \in ClaimId /\ op.owner \in Owner
                          /\ op.pr \in PullRequest
    \/ op.kind = "import" /\ op.local \in LocalBoards

\* What CentralBoard assumes of the constants it shares with this module.
ASSUME BoardAssumption ==
    /\ B!ClaimIdAssumption /\ B!PathAssumption /\ B!RegistryAssumption
    /\ B!InputAssumption /\ B!LocalAssumption

ASSUME OpsAssumption == \A op \in Ops : Operation(op)

NoOp == [kind |-> "none"]

\* What a call has to write, and the claim it creates.
Work(b, t, ov, c) == [board |-> b, clock |-> t, overrides |-> ov, id |-> c]

NoWork == Work(<<>>, 0, {}, NoClaim)

Idle == [pc |-> "idle", call |-> 0, op |-> NoOp, tries |-> 0, base |-> 0,
         work |-> NoWork]

Init ==
    /\ ref = [num |-> 0, board |-> <<>>, clock |-> 0, overrides |-> {}]
    /\ host = [h \in Host |-> Idle]
    /\ flight = {}
    /\ calls = 0
    /\ landed = {}
    /\ told = {}

-----------------------------------------------------------------------------
(* Operations on the fetched board *)

LocalIds == UNION {DOMAIN ls : ls \in LocalBoards}

\* uuid4(): an id nobody else has, on the branch or on its way.
NewIds ==
    ClaimId \ (DOMAIN ref.board \cup LocalIds
                \cup {host[h].work.id : h \in Host}
                \cup {p.work.id : p \in flight})

\* claim(): refused, queued or granted; nothing if its token does not hold.
ClaimWork(op, cs, ov, t, ids) ==
    LET rival == B!ConflictsOf(cs, op.req, op.token, t)
        st == IF rival = {} THEN "ACTIVE" ELSE "QUEUED"
        x == B!NewClaim(op.req, B!ParentOf(op.token), st, t)
    IN  IF ~B!Admissible(cs, op.req, op.token, t) THEN {}
        ELSE IF rival # {} /\ ~op.queue
        THEN {Work(cs, t, ov, NoClaim)}
        ELSE {Work(B!Put(cs, c, x), t, ov, c) : c \in ids}

OverrideWork(op, cs, ov, t, ids) ==
    LET active == B!ConflictsOf(cs, op.req, NoClaim, t) \cap B!Active(cs)
        victims == {v \in active :
                        /\ active = {v}
                        /\ B!ApprovalVerifies(op.approval, op.req.task,
                                            cs[v].owner, op.req.owner, t)}
    IN  {Work(B!TakenOver(cs, v, c, op.req, t), t,
              ov \cup {<<op.approval.id, v>>}, c) : v \in victims, c \in ids}

\* heartbeat(), release() and attach_pr() do w to a claim the caller owns in S.
OwnerWork(op, cs, S, w) ==
    {w : c \in {c \in S \cap {op.claim} : cs[c].owner = op.owner}}

\* What op may write when the swept board is cs, the overrides so far are ov and
\* ids are unused: nothing if it raises.
Outcomes(op, cs, ov, t, ids) ==
    LET Done(b) == Work(b, t, ov, NoClaim)
        c == op.claim
    IN  CASE op.kind = "list" -> {Done(cs)}
          [] op.kind = "claim" -> ClaimWork(op, cs, ov, t, ids)
          [] op.kind = "override" -> OverrideWork(op, cs, ov, t, ids)
          [] op.kind = "heartbeat" ->
                OwnerWork(op, cs, B!Active(cs),
                    Done(B!Put(cs, c, [cs[c] EXCEPT !.expires = t + op.ttl])))
          [] op.kind = "release" ->
                OwnerWork(op, cs, B!Open(cs), Done(B!Freed(cs, c, t)))
          [] op.kind = "attach" ->
                OwnerWork(op, cs, B!Open(cs),
                    Done(B!Put(cs, c, [cs[c] EXCEPT !.pr = op.pr])))
          [] op.kind = "import" -> {Done(b) : b \in B!Imported(cs, op.local, t)}

\* What op, reading the clock at t, may write on top of the branch r.
WorkOn(r, op, t, ids) ==
    Outcomes(op, B!ExpireStale(r.board, t), r.overrides, t, ids)

\* Whether there is something to commit even if the board is as it was: an
\* event, or the first commit of the branch.
AlwaysWrites(op) == op.kind \in {"heartbeat", "attach"} \/ ref.num = 0

-----------------------------------------------------------------------------
(* A call *)

\* A call that has its rejected attempts behind it, or a new one.
MayAttempt(h, op) ==
    \/ host[h].pc = "idle" /\ calls < MaxCalls
    \/ host[h].pc = "again" /\ op = host[h].op

\* Fetch, apply the rules and commit: what is pushed next.  A new call that
\* writes nothing leaves no trace and is not counted.
Attempt(h, op, t) ==
    /\ MayAttempt(h, op)
    /\ t + ClockSkew >= ref.clock
    /\ \E w \in WorkOn(ref, op, t, NewIds) :
        /\ w.board # ref.board \/ AlwaysWrites(op)
        /\ LET new == host[h].pc = "idle"
               call == IF new THEN calls + 1 ELSE host[h].call
           IN  /\ host' = [host EXCEPT ![h] =
                    [pc |-> "push", call |-> call, op |-> op,
                     tries |-> host[h].tries, base |-> ref.num, work |-> w]]
               /\ calls' = IF new THEN calls + 1 ELSE calls
    /\ UNCHANGED <<ref, flight, landed, told>>

\* A new attempt finds nothing to write, raises, or cannot fetch.
GiveUp(h) ==
    /\ host[h].pc = "again"
    /\ host' = [host EXCEPT ![h] = Idle]
    /\ UNCHANGED <<ref, flight, calls, landed, told>>

\* The branch moves to the commit of call with the given base and work.
Advance(call, w) ==
    /\ ref' = [num |-> ref.num + 1, board |-> w.board, clock |-> w.clock,
               overrides |-> w.overrides]
    /\ landed' = landed \cup {<<call, ref.num + 1>>}

\* Mutant: push --force.
LandForced(h) ==
    /\ host[h].pc = "push"
    /\ Advance(host[h].call, host[h].work)
    /\ host' = [host EXCEPT ![h].pc = "answered"]
    /\ UNCHANGED <<flight, calls, told>>

Land(h) ==
    /\ host[h].pc = "push" /\ host[h].base = ref.num
    /\ Advance(host[h].call, host[h].work)
    /\ host' = [host EXCEPT ![h].pc = "answered"]
    /\ UNCHANGED <<flight, calls, told>>

\* The call returns.
Return(h) ==
    /\ host[h].pc = "answered"
    /\ told' = told \cup ({host[h].work.id} \ {NoClaim})
    /\ host' = [host EXCEPT ![h] = Idle]
    /\ UNCHANGED <<ref, flight, calls, landed>>

\* Somebody else moved the branch, or holds its lock on the remote.
Contended(h) ==
    \/ host[h].base # ref.num
    \/ \E p \in flight : p.base = ref.num
    \/ \E g \in Host \ {h} : host[g].pc = "push" /\ host[g].base = ref.num

\* The remote rejects the push: the operation starts again, or gives up.
Reject(h) ==
    /\ host[h].pc = "push" /\ Contended(h)
    /\ host' = [host EXCEPT ![h] =
            IF host[h].tries + 1 < MaxAttempts
            THEN [host[h] EXCEPT !.pc = "again", !.tries = @ + 1, !.base = 0,
                                 !.work = NoWork]
            ELSE Idle]
    /\ UNCHANGED <<ref, flight, calls, landed, told>>

InFlight(h) == [call |-> host[h].call, base |-> host[h].base, work |-> host[h].work]

\* Mutant: a push that timed out is tried again like a rejected one.
CutOffRetried(h) ==
    /\ host[h].pc = "push"
    /\ flight' = flight \cup {InFlight(h)}
    /\ host' = [host EXCEPT ![h].pc = "again", ![h].base = 0, ![h].work = NoWork]
    /\ UNCHANGED <<ref, calls, landed, told>>

\* The push times out or the process dies: the caller learns of no success, the
\* remote may still take the commit.
CutOff(h) ==
    /\ host[h].pc \in {"push", "answered"}
    /\ flight' = flight \cup (IF host[h].pc = "push" THEN {InFlight(h)} ELSE {})
    /\ host' = [host EXCEPT ![h] = Idle]
    /\ UNCHANGED <<ref, calls, landed, told>>

\* A commit whose push was cut off reaches the branch after all, or never.
LandLate(p) ==
    /\ p.base = ref.num
    /\ Advance(p.call, p.work)
    /\ flight' = flight \ {p}
    /\ UNCHANGED <<host, calls, told>>

Vanish(p) ==
    /\ flight' = flight \ {p}
    /\ UNCHANGED <<ref, host, calls, landed, told>>

Next ==
    \/ \E h \in Host :
        \/ \E op \in Ops, t \in Time : Attempt(h, op, t)
        \/ GiveUp(h) \/ Land(h) \/ Return(h) \/ Reject(h) \/ CutOff(h)
    \/ \E p \in flight : LandLate(p) \/ Vanish(p)

Spec == Init /\ [][Next]_cvars

-----------------------------------------------------------------------------
(* Properties *)

\* Whatever hosts race, retry, time out or die, the branch changes as if every
\* operation were one step on it ("of two agents racing on the same base
\* exactly one wins").
BoardIsAtomic == B!CentralSpec

\* A claim whose call was answered with success is on the board for good.
ToldClaimStays == told \subseteq DOMAIN ref.board

\* A call takes effect at most once, retries and late pushes included.
AtMostOnce == \A p, q \in landed : p[1] = q[1] => p = q
=============================================================================

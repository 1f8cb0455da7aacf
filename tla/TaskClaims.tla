----------------------------- MODULE TaskClaims -----------------------------
(***************************************************************************)
(* The claim store of the Lumos Board (TaskClaimStore in                   *)
(* src/lumos_board/task_claim.py).  An operation holds an operating-system *)
(* file lock from the read of claims.json to its replacement, so it is one *)
(* step here.                                                              *)
(*                                                                         *)
(* Time is what operations see of it: each reads the wall clock once, after*)
(* it got the lock.  `clock' is the reading of the last operation that     *)
(* wrote the board.  ClockSkew bounds how far behind it a later reading may*)
(* be: 0 for agents on one host with a steady clock, more for a clock that *)
(* is stepped back or for agents on several hosts.                         *)
(*                                                                         *)
(* An operation that raises (a guard that fails below) writes nothing, not *)
(* even the sweep it began with.  A claim that is refused for a conflict   *)
(* does not raise: its sweep is kept.                                      *)
(***************************************************************************)
EXTENDS ClaimRules

CONSTANTS
    Requests,           \* what agents ask for
    HeartbeatTtl,       \* ttl_seconds values of heartbeat()
    Approvals,          \* override approvals the approval service has signed
    Delegations,        \* delegation tokens the coordination service has signed
    Time,               \* clock readings (bounds the run)
    ClockSkew

ASSUME InputAssumption ==
    /\ Requests \subseteq Request
    /\ HeartbeatTtl \subseteq Nat \ {0}
    /\ Approvals \subseteq Approval
    /\ Delegations \subseteq Delegation
    /\ Time \subseteq Nat
    /\ ClockSkew \in Nat

VARIABLES
    claims,             \* claims.json
    clock,              \* time of the last operation that wrote it
    overrides           \* <<approval id, claim>> of the CLAIM_OVERRIDDEN events

vars == <<claims, clock, overrides>>

Init ==
    /\ claims = <<>>
    /\ clock = 0
    /\ overrides = {}

-----------------------------------------------------------------------------

\* A reading of the wall clock.
Reads(t) == t \in Time /\ t + ClockSkew >= clock

\* _locked_state's exit without an exception.
Commit(cs, t) ==
    /\ claims' = cs
    /\ clock' = t

Swept(t) == ExpireStale(claims, t)

\* claim() that meets no conflict.
Acquire(c, req, d, t) ==
    /\ Reads(t)
    /\ c \in ClaimId \ DOMAIN claims
    /\ LET cs == Swept(t)
       IN  /\ Admissible(cs, req, d, t)
           /\ ConflictsOf(cs, req, d, t) = {}
           /\ Commit(Put(cs, c, NewClaim(req, ParentOf(d), "ACTIVE", t)), t)
    /\ UNCHANGED overrides

\* ... with conflicts and queue_on_conflict.
Enqueue(c, req, d, t) ==
    /\ Reads(t)
    /\ c \in ClaimId \ DOMAIN claims
    /\ LET cs == Swept(t)
       IN  /\ Admissible(cs, req, d, t)
           /\ ConflictsOf(cs, req, d, t) # {}
           /\ Commit(Put(cs, c, NewClaim(req, ParentOf(d), "QUEUED", t)), t)
    /\ UNCHANGED overrides

\* ... with conflicts and without queue_on_conflict.
Refuse(req, d, t) ==
    /\ Reads(t)
    /\ LET cs == Swept(t)
       IN  /\ Admissible(cs, req, d, t)
           /\ ConflictsOf(cs, req, d, t) # {}
           /\ Commit(cs, t)
    /\ UNCHANGED overrides

\* Mutant: the queue moves up before the new claim is on the board.
OverrideAfterPromote(c, req, a, t) ==
    /\ Reads(t)
    /\ c \in ClaimId \ DOMAIN claims
    /\ LET cs == Swept(t)
           active == ConflictsOf(cs, req, NoClaim, t) \cap Active(cs)
       IN  \E v \in active :
            /\ active = {v}
            /\ ApprovalVerifies(a, req.task, cs[v].owner, req.owner, t)
            /\ LET freed == CloseOrphans(Close(cs, {v}, "OVERRIDDEN"))
               IN  Commit(Put(Promote(freed, t), c,
                              NewClaim(req, NoClaim, "ACTIVE", t)), t)
            /\ overrides' = overrides \cup {<<a.id, v>>}

\* claim() with a signed approval: it ends the one active lease in the way and
\* is granted whatever else waits; what waited for that lease alone moves up.
Override(c, req, a, t) ==
    /\ Reads(t)
    /\ c \in ClaimId \ DOMAIN claims
    /\ LET cs == Swept(t)
           active == ConflictsOf(cs, req, NoClaim, t) \cap Active(cs)
       IN  \E v \in active :
            /\ active = {v}
            /\ ApprovalVerifies(a, req.task, cs[v].owner, req.owner, t)
            /\ Commit(TakenOver(cs, v, c, req, t), t)
            /\ overrides' = overrides \cup {<<a.id, v>>}

\* Mutant: the lease is renewed before the sweep.
HeartbeatUnswept(c, o, ttl, t) ==
    /\ Reads(t)
    /\ c \in Active(claims) /\ claims[c].owner = o
    /\ Commit(Put(claims, c, [claims[c] EXCEPT !.expires = t + ttl]), t)
    /\ UNCHANGED overrides

Heartbeat(c, o, ttl, t) ==
    /\ Reads(t)
    /\ c \in DOMAIN claims
    /\ LET cs == Swept(t)
       IN  /\ c \in Active(cs) /\ cs[c].owner = o
           /\ Commit(Put(cs, c, [cs[c] EXCEPT !.expires = t + ttl]), t)
    /\ UNCHANGED overrides

\* Mutant: a claim is released without asking whether it is open.
ReleaseRecorded(c, o, t) ==
    /\ Reads(t)
    /\ c \in DOMAIN claims
    /\ LET cs == Swept(t)
       IN  /\ cs[c].owner = o
           /\ Commit(Promote(CloseOrphans(Close(cs, {c}, "RELEASED")), t), t)
    /\ UNCHANGED overrides

Release(c, o, t) ==
    /\ Reads(t)
    /\ c \in DOMAIN claims
    /\ LET cs == Swept(t)
       IN  /\ c \in Open(cs) /\ cs[c].owner = o
           /\ Commit(Freed(cs, c, t), t)
    /\ UNCHANGED overrides

AttachPR(c, o, pr, t) ==
    /\ Reads(t)
    /\ c \in DOMAIN claims
    /\ LET cs == Swept(t)
       IN  /\ c \in Open(cs) /\ cs[c].owner = o
           /\ Commit(Put(cs, c, [cs[c] EXCEPT !.pr = pr]), t)
    /\ UNCHANGED overrides

\* Reading the board sweeps it, and writes the result back.
ListClaims(t) ==
    /\ Reads(t)
    /\ Commit(Swept(t), t)
    /\ UNCHANGED overrides

Next ==
    \E t \in Time :
        \/ ListClaims(t)
        \/ \E req \in Requests, d \in Delegations \cup {NoClaim} :
            \/ Refuse(req, d, t)
            \/ \E c \in ClaimId : Acquire(c, req, d, t) \/ Enqueue(c, req, d, t)
        \/ \E c \in ClaimId, req \in Requests, a \in Approvals :
            Override(c, req, a, t)
        \/ \E c \in ClaimId, o \in Owner :
            \/ Release(c, o, t)
            \/ \E ttl \in HeartbeatTtl : Heartbeat(c, o, ttl, t)
            \/ \E pr \in PullRequest : AttachPR(c, o, pr, t)

Spec == Init /\ [][Next]_vars

\* Nothing sweeps the board in the background.  What is assumed for liveness is
\* that somebody reads it at every instant of model time: each guarded write,
\* each status view and each operation of another agent does.
PromptNext == Next /\ clock' <= clock + 1

FairSpec ==
    /\ Init /\ [][PromptNext]_vars
    /\ WF_vars(\E t \in Time : t > clock /\ ListClaims(t))

-----------------------------------------------------------------------------
(* Safety *)

Board(cs) == DOMAIN cs \subseteq ClaimId /\ cs \in [DOMAIN cs -> Claim]

TypeOK ==
    /\ Board(claims)
    /\ clock \in Nat
    /\ overrides \subseteq Nat \X ClaimId

\* Two active claims of a repo never carry one task, and their scopes are
\* disjoint unless one was delegated by the other (contract rules 1, 2, 4, 5:
\* what _find_conflicts is for, through acquisition, promotion and override).
Exclusive(cs) ==
    \A b, c \in Active(cs) :
        b # c /\ cs[b].repo = cs[c].repo =>
            /\ cs[b].task # cs[c].task
            /\ \/ b = cs[c].parent \/ c = cs[b].parent
               \/ ~ScopesOverlap(cs[b].scopes, cs[c].scopes)

ActiveExclusive == Exclusive(claims)

\* A delegated claim is open only inside an active parent's lease: same repo,
\* scopes within the parent's, whatever closed or replaced the parent since
\* (contract rule 5, _close_orphaned_children).
Inside(cs) ==
    \A c \in Open(cs) : cs[c].parent # NoClaim =>
        /\ cs[c].parent \in DOMAIN cs \ {c}
        /\ cs[c].repo = cs[cs[c].parent].repo
        /\ ScopesWithin(cs[c].scopes, cs[cs[c].parent].scopes)

Housed(cs) ==
    \A c \in Open(cs) : cs[c].parent # NoClaim => cs[c].parent \in Active(cs)

DelegatedInsideParent == Inside(claims) /\ Housed(claims)

\* No operation writes a board that still shows a lapsed lease as active,
\* its own promotions and renewals included (contract rule 6).
Fresh(cs, t) == \A c \in Active(cs) : cs[c].expires > t

NoLapsedLease == Fresh(claims, clock)

\* Nobody waits for nothing: whatever a queued claim waited for that closed
\* promoted it in the same operation (contract rule 12, _promote_queued).
Waiting(cs) ==
    \A c \in Queued(cs) :
        \E b \in Open(cs) \ {c} : Collides(cs[c], b, cs[b])

QueueIsBlocked == Waiting(claims)

\* A delegated claim cannot delegate work that runs: the child of a child
\* collides with its grandparent, which only its own parent is exempt from,
\* and no promotion ever clears that (_find_conflicts, _scopes_within).
OneDeep(cs) ==
    \A c \in Active(cs) : cs[c].parent # NoClaim =>
        cs[cs[c].parent].parent = NoClaim

DelegationIsOneDeep == OneDeep(claims)

-----------------------------------------------------------------------------
(* What a step may not do *)

\* A claim that stays active across an operation had not lapsed when the
\* operation read the clock: a late heartbeat never saves a lease, however
\* long nobody swept the board (contract rule 6).
LapsedLeaseIsLost ==
    [][\A c \in Active(claims) :
            c \in Active(claims') => claims[c].expires > clock']_vars

\* A freed place goes to the first in line: a claim is promoted only when no
\* earlier one it collides with is left waiting (contract rule 12).
FirstInLineFirst ==
    [][\A c \in Queued(claims) \cap Active(claims') :
        \A b \in Queued(claims) \cap Queued(claims') :
            Before(claims, b, c) => ~Collides(claims[c], b, claims[b])]_vars

\* A claim expires only when its own lease ran out or its parent closed; time
\* alone never takes a queued claim's place (contract rules 5, 6 and 12).
ExpiryHasACause ==
    [][\A c \in Open(claims) : claims'[c].status = "EXPIRED" =>
        \/ c \in Active(claims) /\ claims[c].expires <= clock'
        \/ claims[c].parent # NoClaim /\ claims[c].parent \notin Active(claims')]_vars

\* The record of a closed claim never changes again and no record is dropped
\* (release, attach_pr, promotion and the cascade act on open claims only).
ClosedIsFinal ==
    [][\A c \in DOMAIN claims :
        /\ c \in DOMAIN claims'
        /\ claims[c].status \in ClosedStatus => claims'[c] = claims[c]]_vars

-----------------------------------------------------------------------------
(* Liveness *)

CONSTANT Horizon        \* requests after it may outlive the bound on Time

\* A claim that queues does not wait for ever: when leases are not renewed for
\* ever and no override jumps the queue, it is promoted or closes with its
\* parent (contract rule 12).
QueueDrains ==
    \A c \in ClaimId :
        (c \in Queued(claims) /\ clock <= Horizon) ~> (c \notin Queued(claims))
=============================================================================

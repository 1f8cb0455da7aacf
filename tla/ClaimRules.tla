----------------------------- MODULE ClaimRules -----------------------------
(***************************************************************************)
(* The rules of the Lumos Board claim store (src/lumos_board/task_claim.py)*)
(* as pure operators on a board: scope collision, lease expiry, the        *)
(* cascade over delegated claims, queue promotion, the verification of     *)
(* override approvals and delegation tokens, and the import of one board   *)
(* into another (central_store.py).  Every store operation is a composition*)
(* of these, computed on the claims read under the lock.                   *)
(*                                                                         *)
(* A board is a function from the ids recorded so far to claim records.    *)
(* Text fields the rules only compare are members of small sets; branch,   *)
(* worktree, heartbeat_at and closed_at are never read by a rule and are   *)
(* left out.  A path is the sequence of its components.                    *)
(*                                                                         *)
(* A definition marked "Mutant" is a plausible bug in the one that follows *)
(* it, and is used by no specification: it shows that the property named   *)
(* beside it in PROJECT.json would notice.                                 *)
(***************************************************************************)
EXTENDS Integers, Sequences

CONSTANTS
    ClaimId,            \* uuids, numbered in their sort order
    Task, Repo, Owner,  \* names
    Path,               \* normalized repo-relative paths
    Approver,           \* ids that may appear as approver_id
    PullRequest,        \* values of pr_ref
    ApproverUntil,      \* approver registry: [Approver -> Nat], valid_until
    DelegatorUntil,     \* delegation owner registry: [Owner -> Nat]
    NoClaim, NoPR       \* None

ASSUME ClaimIdAssumption == ClaimId \subseteq Nat /\ NoClaim \notin ClaimId
ASSUME PathAssumption == Path \subseteq (Seq(STRING) \ {<<>>})
ASSUME RegistryAssumption ==
    /\ ApproverUntil \in [Approver -> Nat]
    /\ DelegatorUntil \in [Owner -> Nat]

OpenStatus == {"ACTIVE", "QUEUED"}
ClosedStatus == {"RELEASED", "EXPIRED", "OVERRIDDEN"}

\* Scopes as _normalize_scopes leaves them: at least one path.
Scopes == (SUBSET Path) \ {{}}

\* What claim() is asked for, beside the tokens.
Request == [task : Task, repo : Repo, owner : Owner, scopes : Scopes,
            ttl : Nat \ {0}]

Claim == [status : OpenStatus \cup ClosedStatus,
          task : Task, repo : Repo, owner : Owner, scopes : Scopes,
          started : Nat, expires : Nat,
          parent : ClaimId \cup {NoClaim},
          pr : PullRequest \cup {NoPR}]

\* The payloads the two signing services put into a token.
Approval == [id : Nat, approver : Approver, task : Task,
             current : Owner, new : Owner, issued : Nat, expires : Nat]
Delegation == [parent : ClaimId, parentOwner : Owner, childOwner : Owner,
               childTask : Task, repo : Repo, scopes : Scopes,
               issued : Nat, expires : Nat]

-----------------------------------------------------------------------------
(* Scopes *)

\* p is q or a directory above it.
Covers(p, q) == Len(p) <= Len(q) /\ \A i \in 1..Len(p) : p[i] = q[i]

PathsOverlap(p, q) == Covers(p, q) \/ Covers(q, p)

ScopesOverlap(S, T) == \E p \in S, q \in T : PathsOverlap(p, q)

ScopesWithin(S, T) == \A p \in S : \E q \in T : Covers(q, p)

-----------------------------------------------------------------------------
(* Reading a board *)

WithStatus(cs, st) == {c \in DOMAIN cs : cs[c].status = st}
Active(cs) == WithStatus(cs, "ACTIVE")
Queued(cs) == WithStatus(cs, "QUEUED")
Open(cs) == Active(cs) \cup Queued(cs)

\* Claim x may not be active beside claim b, recorded as y.  A delegated claim
\* may work inside its own parent's scopes, never under its parent's task.
Collides(x, b, y) ==
    /\ y.repo = x.repo
    /\ \/ y.task = x.task
       \/ b # x.parent /\ ScopesOverlap(x.scopes, y.scopes)

\* The open claims x collides with: queued ones hold their place too.
Conflicts(cs, x) == {b \in Open(cs) : Collides(x, b, cs[b])}

\* Queue order: (started_at, claim_id).
Before(cs, b, c) ==
    \/ cs[b].started < cs[c].started
    \/ cs[b].started = cs[c].started /\ b < c

-----------------------------------------------------------------------------
(* Rewriting a board *)

\* The board with claim c recorded as x, new or replaced.
Put(cs, c, x) ==
    [b \in DOMAIN cs \cup {c} |-> IF b = c THEN x ELSE cs[b]]

Close(cs, C, st) ==
    [c \in DOMAIN cs |-> IF c \in C THEN [cs[c] EXCEPT !.status = st]
                                    ELSE cs[c]]

\* S keeps every parent its members need: each is undelegated, or its parent
\* is an active member.
ParentClosed(cs, S) ==
    \A c \in S : cs[c].parent = NoClaim \/ cs[c].parent \in S \cap Active(cs)

\* The open claims the cascade spares: it closes a claim whose parent is not
\* active until nothing changes, so what is left is the largest such set.
Sheltered(cs) == UNION {S \in SUBSET Open(cs) : ParentClosed(cs, S)}

\* Mutant: the cascade stops after one pass.
CloseOrphansOnce(cs) ==
    Close(cs, {c \in Open(cs) : cs[c].parent # NoClaim
                                /\ cs[c].parent \notin Open(cs)}, "EXPIRED")

CloseOrphans(cs) == Close(cs, Open(cs) \ Sheltered(cs), "EXPIRED")

\* Mutant: only active claims block a promotion.
PromotableOverQueue(cs) ==
    {c \in Queued(cs) :
        \A b \in Active(cs) : ~Collides(cs[c], b, cs[b])}

\* The queued claims that _promote_queued activates.  The loop visits them in
\* queue order; an earlier one is a blocker whether the loop promoted it
\* (it is active) or skipped it (it waits ahead), so the choice of c depends
\* on the board before the loop alone.
Promotable(cs) ==
    {c \in Queued(cs) :
        \A b \in Open(cs) : b # c /\ Collides(cs[c], b, cs[b])
            => b \in Queued(cs) /\ ~Before(cs, b, c)}

\* A promoted claim starts the lease it asked for anew.
Promote(cs, t) ==
    [c \in DOMAIN cs |->
        IF c \in Promotable(cs)
        THEN [cs[c] EXCEPT !.status = "ACTIVE",
                           !.expires = t + (cs[c].expires - cs[c].started)]
        ELSE cs[c]]

\* Mutant: waiting claims run out too.
LapsedQueue(cs, t) == {c \in Open(cs) : cs[c].expires <= t}

Lapsed(cs, t) == {c \in Active(cs) : cs[c].expires <= t}

\* Mutant: the sweep forgets the queue.
ExpireStaleOnly(cs, t) == CloseOrphans(Close(cs, Lapsed(cs, t), "EXPIRED"))

\* The sweep that opens every operation: lapsed leases end, their delegated
\* claims with them, and whoever waited for them moves up.
ExpireStale(cs, t) ==
    Promote(CloseOrphans(Close(cs, Lapsed(cs, t), "EXPIRED")), t)

-----------------------------------------------------------------------------
(* Tokens *)

\* A token is valid at t within the registry entry of its issuer.
InForce(tok, until, t) ==
    /\ tok.issued <= t
    /\ t < tok.expires
    /\ t < until
    /\ tok.expires <= until

\* OverrideApprovalVerifier.verify: the approval a lets owner take task over
\* from current, and its approver is neither.
ApprovalVerifies(a, task, current, owner, t) ==
    /\ InForce(a, ApproverUntil[a.approver], t)
    /\ a.approver \notin {current, owner}
    /\ a.task = task /\ a.current = current /\ a.new = owner

\* DelegationVerifier.verify: the parent's owner signed d for this child.
DelegationVerifies(cs, d, req, t) ==
    /\ d.childOwner = req.owner /\ d.childTask = req.task
    /\ d.repo = req.repo /\ d.scopes = req.scopes
    /\ d.parentOwner = cs[d.parent].owner
    /\ InForce(d, DelegatorUntil[d.parentOwner], t)

\* claim()'s checks on a delegated request, on the swept board cs.
MayDelegate(cs, d, req, t) ==
    /\ d.parent \in Active(cs)
    /\ DelegationVerifies(cs, d, req, t)
    /\ req.repo = cs[d.parent].repo
    /\ ScopesWithin(req.scopes, cs[d.parent].scopes)

\* The record claim() appends.
NewClaim(req, par, st, t) ==
    [status |-> st, task |-> req.task, repo |-> req.repo,
     owner |-> req.owner, scopes |-> req.scopes,
     started |-> t, expires |-> t + req.ttl, parent |-> par, pr |-> NoPR]

-----------------------------------------------------------------------------
(* The parts of an operation, on the swept board cs *)

ParentOf(d) == IF d = NoClaim THEN NoClaim ELSE d.parent

\* claim(), undelegated (d = NoClaim) or under token d: its checks, and what it
\* collides with.
Admissible(cs, req, d, t) == d # NoClaim => MayDelegate(cs, d, req, t)

ConflictsOf(cs, req, d, t) ==
    Conflicts(cs, NewClaim(req, ParentOf(d), "ACTIVE", t))

\* Claim c takes over from v, and what waited for v alone moves up.
TakenOver(cs, v, c, req, t) ==
    LET freed == CloseOrphans(Close(cs, {v}, "OVERRIDDEN"))
    IN  Promote(Put(freed, c, NewClaim(req, NoClaim, "ACTIVE", t)), t)

\* Claim c is released.
Freed(cs, c, t) == Promote(CloseOrphans(Close(cs, {c}, "RELEASED")), t)

-----------------------------------------------------------------------------
(* Importing the local board ls into the swept board cs *)

\* Mutant: a local lease is taken as it stands.
ImportableLapsed(cs, ls, t) ==
    {c \in Open(ls) \ DOMAIN cs : ls[c].parent = NoClaim}

\* The claims of ls that _import_claims looks at more closely: unknown here,
\* open, not lapsed, and not delegated (the token cannot be verified again).
Importable(cs, ls, t) ==
    {c \in Open(ls) \ DOMAIN cs :
        /\ ls[c].status = "ACTIVE" => ls[c].expires > t
        /\ ls[c].parent = NoClaim}

\* Mutant: local claims are compared with each other only.
KeptBlind(cs, ls, t, S) ==
    \A c \in Importable(cs, ls, t) :
        c \in S <=> \A b \in S : Before(ls, b, c) => ~Collides(ls[c], b, ls[b])

\* S is what the import keeps: it goes through ls in queue order and skips what
\* collides with the board or with a claim it has already kept.
Kept(cs, ls, t, S) ==
    \A c \in Importable(cs, ls, t) :
        c \in S <=> /\ Conflicts(cs, ls[c]) = {}
                    /\ \A b \in S : Before(ls, b, c) => ~Collides(ls[c], b, ls[b])

\* The board with the claims S of ls added.
Merge(cs, ls, S) ==
    [c \in DOMAIN cs \cup S |-> IF c \in S THEN ls[c] ELSE cs[c]]

\* The boards _import_claims may leave of the swept board cs.  Nothing is
\* promoted after the import.
Imported(cs, ls, t) ==
    {CloseOrphans(Merge(cs, ls, S)) :
        S \in {S \in SUBSET Importable(cs, ls, t) : Kept(cs, ls, t, S)}}
=============================================================================

--------------------------- MODULE MCCentralStore ---------------------------
(* Two hosts on one board: claims that collide, a queued one, a release, a   *)
(* heartbeat, an override, and the import of a board with a claim that waited*)
(* for one that has run out since.                                           *)
EXTENDS CentralStore, TLC

Src == <<"src">>
SrcA == <<"src", "a">>
Docs == <<"docs">>
Paths == {Src, SrcA, Docs}

Ask(task, owner, path, ttl) ==
    [task |-> task, repo |-> "core", owner |-> owner, scopes |-> {path},
     ttl |-> ttl]

AnnSrc == Ask("build", "ann", Src, 2)
BobSrcA == Ask("fix", "bob", SrcA, 1)

\* dan lets bob take ann's task over.
BobBuild == Ask("build", "bob", Src, 1)
DanApproves == [id |-> 1, approver |-> "dan", task |-> "build", current |-> "ann",
                new |-> "bob", issued |-> 0, expires |-> 3]

\* ann's local claim 8 ends at 1; bob's 9 waits for it.
Local(owner, task, path, st, ttl) ==
    [status |-> st, task |-> task, repo |-> "core", owner |-> owner,
     scopes |-> {path}, started |-> 0, expires |-> ttl, parent |-> NoClaim,
     pr |-> NoPR]

LocalBoard == [c \in {8, 9} |-> IF c = 8 THEN Local("ann", "test", Docs, "ACTIVE", 1)
                                ELSE Local("bob", "fix", Docs, "QUEUED", 2)]
Locals == {LocalBoard}

ClaimOp(req, queue) ==
    [kind |-> "claim", req |-> req, token |-> NoClaim, queue |-> queue]

HostSymmetry == Permutations(Host)

SharedOps ==
    {ClaimOp(AnnSrc, FALSE), ClaimOp(BobSrcA, TRUE),
     [kind |-> "override", req |-> BobBuild, approval |-> DanApproves],
     [kind |-> "heartbeat", claim |-> 1, owner |-> "ann", ttl |-> 1],
     [kind |-> "attach", claim |-> 1, owner |-> "bob", pr |-> "pr"],
     [kind |-> "release", claim |-> 1, owner |-> "ann"],
     [kind |-> "import", local |-> LocalBoard],
     [kind |-> "list"]}

AllRequests == {AnnSrc, BobSrcA, BobBuild}
AllApprovals == {DanApproves}
Registry == [a \in {"dan"} |-> 9]
Delegators == [o \in {"ann", "bob"} |-> 9]
=============================================================================

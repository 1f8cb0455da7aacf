---------------------------- MODULE MCTaskClaims ----------------------------
(* Small instances of TaskClaims: three agents, a directory with a            *)
(* subdirectory, and a second directory.                                      *)
EXTENDS TaskClaims

Src == <<"src">>
SrcA == <<"src", "a">>
Docs == <<"docs">>
Paths == {Src, SrcA, Docs}

Ask(task, repo, owner, scopes, ttl) ==
    [task |-> task, repo |-> repo, owner |-> owner, scopes |-> scopes,
     ttl |-> ttl]

\* ann takes src, bob works below it, cat takes bob's task elsewhere.
AnnSrc == Ask("build", "core", "ann", {Src}, 2)
BobSrcA == Ask("fix", "core", "bob", {SrcA}, 1)
CatDocs == Ask("fix", "core", "cat", {Docs}, 1)
AnnSrcA == Ask("test", "core", "ann", {SrcA}, 2)
BobBoth == Ask("test", "core", "bob", {SrcA, Docs}, 1)
BobOther == Ask("build", "docs", "bob", {Src}, 1)

ShortSrc == Ask("build", "core", "ann", {Src}, 1)

BasicRequests == {AnnSrc, BobSrcA, CatDocs}
QueueRequests == {ShortSrc, BobBoth, CatDocs}
TakeoverRequests == {AnnSrc, BobSrcA}
AllRequests == {AnnSrc, BobSrcA, CatDocs, BobOther}
DelegateRequests == {AnnSrc, BobSrcA, AnnSrcA}

\* Tokens the owner of claim p signed for a request.
Token(p, owner, req) ==
    [parent |-> p, parentOwner |-> owner, childOwner |-> req.owner,
     childTask |-> req.task, repo |-> req.repo, scopes |-> req.scopes,
     issued |-> 0, expires |-> 3]

TokensToBob == {Token(p, "ann", BobSrcA) : p \in ClaimId}
TokensBothWays == TokensToBob \cup {Token(p, "bob", AnnSrcA) : p \in ClaimId}

\* An approval of dan's, and one that its own beneficiary signed.
Approve(id, approver, req, current) ==
    [id |-> id, approver |-> approver, task |-> req.task, current |-> current,
     new |-> req.owner, issued |-> 0, expires |-> 3]

BobTakesOver == {Approve(1, "dan", BobSrcA, "ann"), Approve(2, "bob", BobSrcA, "ann")}

Forever == 9
Registry == [a \in {"dan", "bob"} |-> Forever]
OneApprover == [a \in {"dan"} |-> Forever]
Delegators == [o \in {"ann", "bob", "cat"} |-> Forever]
=============================================================================

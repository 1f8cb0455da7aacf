--------------------------- MODULE MCCentralBoard ---------------------------
(* An instance of the store as the board that hosts share: a host brings a    *)
(* local board on which cat holds docs until 1 and bob waits for her.         *)
EXTENDS CentralBoard, MCTaskClaims

Local(owner, task, st, ttl) ==
    [status |-> st, task |-> task, repo |-> "core", owner |-> owner,
     scopes |-> {Docs}, started |-> 0, expires |-> ttl, parent |-> NoClaim,
     pr |-> NoPR]

Boards == {[c \in {1, 2} |-> IF c = 1 THEN Local("cat", "test", "ACTIVE", 1)
                             ELSE Local("bob", "fix", "QUEUED", 2)]}

\* Only the first claim gets a pull request, and one other may follow then.
OnePull == \A c \in DOMAIN claims : claims[c].pr # NoPR => c = 1 /\ 3 \notin DOMAIN claims
=============================================================================

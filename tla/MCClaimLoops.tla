---------------------------- MODULE MCClaimLoops ----------------------------
(* Every board of three claims of one owner: any status, any parent among    *)
(* them, leases that have and have not run out, started in any order.        *)
EXTENDS ClaimLoops, TLC

Src == <<"src">>
SrcA == <<"src", "a">>
Docs == <<"docs">>
Paths == {Src, SrcA, Docs}
Registry == [a \in {"dan"} |-> 9]
Delegators == [o \in {"ann"} |-> 9]

Entry(c, st, path, parent, started) ==
    [status |-> st, task |-> IF c = 3 THEN 1 ELSE c, repo |-> "core",
     owner |-> "ann", scopes |-> {path}, started |-> started,
     expires |-> started + 2, parent |-> parent, pr |-> NoPR]

Entries(c) ==
    {Entry(c, st, path, parent, started) :
        st \in {"ACTIVE", "QUEUED"}, path \in Paths,
        parent \in {NoClaim} \cup (ClaimId \ {c}), started \in {0, 1}}
    \cup {Entry(c, "RELEASED", SrcA, NoClaim, 0)}

AllBoards == {<<x, y, z>> : x \in Entries(1), y \in Entries(2), z \in Entries(3)}

\* A local board of a claim that is known and two that are not.
AllImports ==
    {<< <<x>>, (1 :> Entry(1, "ACTIVE", Docs, NoClaim, 1)) @@ (2 :> y) @@ (3 :> z) >> :
        x \in Entries(1), y \in Entries(2), z \in Entries(3)}
=============================================================================

----------------------------- MODULE MCServices -----------------------------
(* Two agents, four operations on the claim store, and two failing writes  *)
(* or deaths; three threads on one approval record; one engine that may die *)
(* and be started again, with one task, and a panel with one of its own;    *)
(* every command about a payment, well formed or not, at three times, under *)
(* three keys; two processes with two founders and two questions; two goals *)
(* that patch one file or roll it back, three where one run looks for more; *)
(* three instructions about two high-risk goals to two processes; two       *)
(* agents' jobs on two files, with one failure or death; three watchers of  *)
(* the camera in the life of one process; two turns of up to three clips in *)
(* a meeting; three writes of a task file with two failures or deaths; and  *)
(* two moves of a file here and one on another filesystem, with an edit of  *)
(* each and one failure or death.                                           *)
EXTENDS Services, TLC

CONSTANTS t1, t2, t3, e1, r1

Threads == {t1, t2, t3}

\* The rotations only: most services have no threads, and pay for every permutation.
Symmetry == {p \in Permutations(Threads) : \A t, u \in Threads : p[t] = t => p[u] = u}

\* A row has one file in the trash at a time.
TrashBound == [r \in Row |-> 1]

\* What follows a write over another's is not explored: nothing is promised there.
Unraced == ~raced

\* One row at a time has files in the trash: the two rows meet in the list only.
OneTrash == trash[1] = <<>> \/ trash[r1] = <<>>

Times == 1 .. 3

Sent(action, actors, expires, approval) ==
    [key : Key, action : {action}, actor : actors, at : Times, expires : expires,
     approval : approval]

Evidence == [by : {"user", "other"}, fits : BOOLEAN, at : Times] \cup {NoApproval}

Commands == UNION {
    Sent("request_approval", {"user"}, {0, 4} \cup Times, {NoApproval}),
    Sent("approve", {"user", "other"}, {0}, Evidence),
    Sent("cancel", {"user", "other"}, {0}, {NoApproval}),
    Sent("timeout", {"user", "system"}, {0}, {NoApproval})}

Founders == [ann |-> 1, bob |-> 2]
=============================================================================

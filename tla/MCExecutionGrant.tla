-------------------------- MODULE MCExecutionGrant --------------------------
(* Two tasks: two bindings want the first one, and the second has only one   *)
(* that may never get a grant.                                               *)
EXTENDS ExecutionGrant, TLC

Bind(task, action) == [task |-> task, action |-> action]
Bindings == {Bind("t", "read"), Bind("t", "write"), Bind("u", "pay")}

WorkerSymmetry == Permutations(Worker)
=============================================================================

------------------------------- MODULE OneUse -------------------------------
(***************************************************************************)
(* What the execution gate of src/policy/task_execution_grant.py promises: *)
(* a task is accepted once, for one binding, and lets that binding execute *)
(* at most once.  ExecutionGrant shows how the code keeps the promise.     *)
(***************************************************************************)
EXTENDS Sequences

CONSTANTS Task, Binding,        \* a binding names its task
          NoBinding             \* the binding of a task not accepted yet

VARIABLES accepted,             \* task -> the binding it was accepted for
          uses                  \* task -> the executions the gate let through

vars == <<accepted, uses>>

Init ==
    /\ accepted = [t \in Task |-> NoBinding]
    /\ uses = [t \in Task |-> <<>>]

\* accept_execution_task succeeds once for a task.
Accept(b) ==
    /\ accepted[b.task] = NoBinding
    /\ accepted' = [accepted EXCEPT ![b.task] = b]
    /\ UNCHANGED uses

\* The first presentation of the task's token executes what was accepted.
Use(t) ==
    /\ accepted[t] # NoBinding /\ uses[t] = <<>>
    /\ uses' = [uses EXCEPT ![t] = <<accepted[t]>>]
    /\ UNCHANGED accepted

Next == (\E b \in Binding : Accept(b)) \/ (\E t \in Task : Use(t))

Spec == Init /\ [][Next]_vars
=============================================================================

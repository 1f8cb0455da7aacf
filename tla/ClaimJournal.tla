---------------------------- MODULE ClaimJournal ----------------------------
(***************************************************************************)
(* How an operation of the claim store reaches its files                   *)
(* (TaskClaimStore._locked_state): under the lock it reads claims.json,    *)
(* decides, replaces claims.json, appends its events to                    *)
(* claim_events.jsonl and unlocks.  What it decides is in TaskClaims; here *)
(* claims.json is the list of the operations that changed it.  A write may *)
(* fail and an agent may die between any two steps.                        *)
(***************************************************************************)
EXTENDS Integers, Sequences, SequencesExt

CONSTANTS Agent,        \* processes, each with a store object of its own
          MaxOps,       \* bound of a run: operations
          MaxMishaps    \* bound of a run: failing writes and deaths

ASSUME JournalAssumption == MaxOps \in Nat /\ MaxMishaps \in Nat

VARIABLES
    board,          \* claims.json
    claimEvents,    \* claim_events.jsonl
    agent,          \* where each agent is, its copy of the board, its pending events
    ops,            \* operations begun
    returned,       \* operations that returned to their caller
    mishaps

journalVars == <<board, claimEvents, agent, ops, returned, mishaps>>

Idle == [at |-> "idle", op |-> 0, copy |-> <<>>, pending |-> <<>>]

JournalInit ==
    /\ board = <<>> /\ claimEvents = <<>> /\ agent = [a \in Agent |-> Idle]
    /\ ops = 0 /\ returned = {} /\ mishaps = 0

AgentAt(a, place) == agent[a].at = place
Mishap == mishaps < MaxMishaps /\ mishaps' = mishaps + 1

\* Mutant: an operation begins with the events that an earlier one has not appended.
LockBoardKept(a) ==
    /\ \A b \in Agent : AgentAt(b, "idle") /\ ops < MaxOps /\ ops' = ops + 1
    /\ agent' = [agent EXCEPT ![a] = [at |-> "decide", op |-> ops', copy |-> board,
                                      pending |-> @.pending]]
    /\ UNCHANGED <<board, claimEvents, returned, mishaps>>

LockBoard(a) ==
    /\ \A b \in Agent : AgentAt(b, "idle") /\ ops < MaxOps /\ ops' = ops + 1
    /\ agent' = [agent EXCEPT ![a] = [at |-> "decide", op |-> ops', copy |-> board,
                                      pending |-> <<>>]]
    /\ UNCHANGED <<board, claimEvents, returned, mishaps>>

\* A sweep and the operation proper leave an event each.
Compute(a) ==
    /\ AgentAt(a, "decide")
    /\ \E n \in 1 .. 2 :
        agent' = [agent EXCEPT ![a].at = "write", ![a].copy = Append(@, agent[a].op),
                               ![a].pending = @ \o [i \in 1 .. n |-> agent[a].op]]
    /\ UNCHANGED <<board, claimEvents, ops, returned, mishaps>>

\* Nothing has lapsed, and nothing is asked but the list.
ComputeNothing(a) ==
    /\ AgentAt(a, "decide") /\ agent' = [agent EXCEPT ![a].at = "write"]
    /\ UNCHANGED <<board, claimEvents, ops, returned, mishaps>>

\* A ClaimError undoes the operation, and with it its events.
RaiseClaimError(a) ==
    /\ AgentAt(a, "decide") /\ agent' = [agent EXCEPT ![a] = Idle]
    /\ UNCHANGED <<board, claimEvents, ops, returned, mishaps>>

ReplaceBoard(a) ==
    /\ AgentAt(a, "write") /\ board' = agent[a].copy
    /\ agent' = [agent EXCEPT ![a].at = "flush"]
    /\ UNCHANGED <<claimEvents, ops, returned, mishaps>>

\* The events stay with the store object.
ReplaceFails(a) ==
    /\ AgentAt(a, "write") /\ Mishap /\ agent' = [agent EXCEPT ![a].at = "idle"]
    /\ UNCHANGED <<board, claimEvents, ops, returned>>

AppendEvents(a) ==
    /\ AgentAt(a, "flush") /\ claimEvents' = claimEvents \o agent[a].pending
    /\ agent' = [agent EXCEPT ![a] = Idle] /\ returned' = returned \cup {agent[a].op}
    /\ UNCHANGED <<board, ops, mishaps>>

\* What has reached the file of the pending events when an append is cut short.
SomeEvents(a) == \E n \in 0 .. Len(agent[a].pending) :
                    claimEvents' = claimEvents \o SubSeq(agent[a].pending, 1, n)

AppendFails(a) ==
    /\ AgentAt(a, "flush") /\ Mishap /\ SomeEvents(a)
    /\ agent' = [agent EXCEPT ![a].at = "idle"]
    /\ UNCHANGED <<board, ops, returned>>

AgentDies(a) ==
    /\ ~AgentAt(a, "idle") /\ Mishap /\ agent' = [agent EXCEPT ![a] = Idle]
    /\ IF AgentAt(a, "flush") THEN SomeEvents(a) ELSE UNCHANGED claimEvents
    /\ UNCHANGED <<board, ops, returned>>

JournalNext == \E a \in Agent :
    \/ LockBoard(a) \/ Compute(a) \/ ComputeNothing(a) \/ RaiseClaimError(a)
    \/ ReplaceBoard(a) \/ ReplaceFails(a) \/ AppendEvents(a) \/ AppendFails(a)
    \/ AgentDies(a)

JournalSpec == JournalInit /\ [][JournalNext]_journalVars

-----------------------------------------------------------------------------
(* Properties *)

JournalTypeOK ==
    /\ board \in Seq(1 .. ops) /\ claimEvents \in Seq(1 .. ops) /\ ops \in 0 .. MaxOps
    /\ agent \in [Agent -> [at : {"idle", "decide", "write", "flush"}, op : 0 .. ops,
                            copy : Seq(1 .. ops), pending : Seq(1 .. ops)]]
    /\ returned \subseteq 1 .. ops /\ mishaps \in 0 .. MaxMishaps

\* An agent that has replaced the board and not yet appended its events.
Flushing == {a \in Agent : AgentAt(a, "flush")}

\* Contract rule 11: the events are those of operations that are on the board, in the
\* board's order; an operation that changed the board and returned has its events; and the
\* changes that never tell of themselves are no more than the mishaps.
JournalFollowsBoard ==
    /\ ToSet(claimEvents) \subseteq ToSet(board)
    /\ \A i, j \in DOMAIN claimEvents : i < j => claimEvents[i] <= claimEvents[j]
    /\ returned \cap ToSet(board) \subseteq ToSet(claimEvents)
    /\ Cardinality(ToSet(board) \ ToSet(claimEvents)) <= mishaps + Cardinality(Flushing)
=============================================================================

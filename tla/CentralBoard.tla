---------------------------- MODULE CentralBoard ----------------------------
(***************************************************************************)
(* What CentralClaimStore (src/lumos_board/central_store.py) promises: one *)
(* board that every host changes in one step per operation, by the rules of*)
(* TaskClaims, and into which the open claims of a host's own board can be *)
(* imported.  CentralStore shows how the code keeps the promise.           *)
(***************************************************************************)
EXTENDS TaskClaims

CONSTANT LocalBoards    \* boards of hosts that worked on their own before

\* The store has written them: a queued claim still has the lease it asked for.
ASSUME LocalAssumption ==
    \A ls \in LocalBoards :
        Board(ls) /\ \A c \in Queued(ls) : ls[c].expires > ls[c].started

-----------------------------------------------------------------------------

\* _import_claims, in one step.
Import(ls, t) ==
    /\ Reads(t)
    /\ \E cs \in Imported(Swept(t), ls, t) : Commit(cs, t)
    /\ UNCHANGED overrides

CentralNext == Next \/ \E t \in Time, ls \in LocalBoards : Import(ls, t)

CentralSpec == Init /\ [][CentralNext]_vars
=============================================================================

----------------------------- MODULE ClaimLoops -----------------------------
(***************************************************************************)
(* The loops over claims as the code runs them, one visit a step: the walk *)
(* of _expire_stale over the claim list, the passes of                     *)
(* _close_orphaned_children until one changes nothing, the walk of         *)
(* _promote_queued over the queue (task_claim.py), and that of             *)
(* _import_claims over a local board (central_store.py), each changing the *)
(* list it reads while it goes.  A behaviour is one call of one of the     *)
(* four, on a board that need not be one the store can reach.              *)
(*                                                                         *)
(* The board keeps no list order, so a walk over the list takes the claims *)
(* in any order; the other two take them in queue order.                   *)
(***************************************************************************)
EXTENDS ClaimRules

CONSTANTS Boards,       \* the boards to call them on
          Imports,      \* pairs of a board and a local board to import into it
          Now           \* the time of the call

IsBoard(cs) == DOMAIN cs \subseteq ClaimId /\ cs \in [DOMAIN cs -> Claim]

\* Records as the store makes them.
ASSUME LoopAssumption ==
    /\ Now \in Nat
    /\ \A cs \in Boards :
        IsBoard(cs) /\ \A c \in Queued(cs) : cs[c].expires > cs[c].started
    /\ \A io \in Imports : IsBoard(io[1]) /\ IsBoard(io[2])

VARIABLES call,         \* the function called
          given,        \* the claims it was called with
          local,        \* the local claims, if it is the import
          board,        \* the claims now
          pc,           \* the loop that runs
          todo,         \* the claims its walk has yet to visit
          byId,         \* by_id, taken when the pass over the list began
          changed       \* whether the pass closed a claim

loopVars == <<call, given, local, board, pc, todo, byId, changed>>

Calls == {"_expire_stale", "_close_orphaned_children", "_promote_queued",
          "_import_claims"}

Inputs(f) == IF f = "_import_claims" THEN Imports ELSE Boards \X {<<>>}

-----------------------------------------------------------------------------

\* _close_orphaned_children enters its loop with changed = True: its first pass is
\* unconditional.
LoopInit ==
    /\ call \in Calls
    /\ \E io \in Inputs(call) : given = io[1] /\ local = io[2]
    /\ board = given
    /\ pc = call
    /\ todo = CASE call = "_promote_queued" -> Queued(given)
                [] call = "_import_claims" -> DOMAIN local
                [] OTHER -> DOMAIN given
    /\ byId = given
    /\ changed = FALSE

\* One visit of the walk of _expire_stale.
VisitLease(c) ==
    /\ pc = "_expire_stale" /\ c \in todo
    /\ board' = Close(board, {c} \cap Lapsed(board, Now), "EXPIRED")
    /\ todo' = todo \ {c}
    /\ UNCHANGED <<call, given, local, pc, byId, changed>>

\* The local claims that go on to the check for conflicts.
MayImport(c) ==
    /\ c \in Open(local) \ DOMAIN board
    /\ local[c].status = "ACTIVE" => local[c].expires > Now
    /\ local[c].parent = NoClaim

\* One visit of _import_claims, over the local claims as they were sorted.
VisitLocal(c) ==
    /\ pc = "_import_claims" /\ c \in todo
    /\ \A b \in todo \ {c} : Before(local, c, b)
    /\ board' = IF MayImport(c) /\ Conflicts(board, local[c]) = {}
                THEN Put(board, c, local[c]) ELSE board
    /\ todo' = todo \ {c}
    /\ UNCHANGED <<call, given, local, pc, byId, changed>>

\* The next pass of _close_orphaned_children, after the walk of _expire_stale or
\* _import_claims or a pass that closed a claim.
BeginPass ==
    /\ todo = {}
    /\ \/ pc \in {"_expire_stale", "_import_claims"}
       \/ pc = "_close_orphaned_children" /\ changed
    /\ pc' = "_close_orphaned_children"
    /\ todo' = DOMAIN board
    /\ byId' = board
    /\ changed' = FALSE
    /\ UNCHANGED <<call, given, local, board>>

\* An open claim whose parent was not active when the pass began.
Orphaned(c) ==
    /\ c \in Open(board) /\ board[c].parent # NoClaim
    /\ board[c].parent \notin Active(byId)

\* One visit of a pass.
VisitOrphan(c) ==
    /\ pc = "_close_orphaned_children" /\ c \in todo
    /\ board' = Close(board, {b \in {c} : Orphaned(b)}, "EXPIRED")
    /\ changed' = (changed \/ Orphaned(c))
    /\ todo' = todo \ {c}
    /\ UNCHANGED <<call, given, local, pc, byId>>

\* A pass changed nothing: _expire_stale goes on with _promote_queued.
EndCascade ==
    /\ pc = "_close_orphaned_children" /\ todo = {} /\ ~changed
    /\ IF call = "_expire_stale"
       THEN pc' = "_promote_queued" /\ todo' = Queued(board)
       ELSE pc' = "done" /\ todo' = {}
    /\ UNCHANGED <<call, given, local, board, byId, changed>>

\* What stands in the way of c: what is active by now, or still waits ahead.
Blockers(c) ==
    {b \in Active(board) \cup {q \in Queued(board) : Before(board, q, c)} :
        b # c /\ Collides(board[c], b, board[b])}

\* Mutant: a promoted claim keeps the lease end it was queued with.
VisitQueuedUnrenewed(c) ==
    /\ pc = "_promote_queued" /\ c \in todo
    /\ \A b \in todo \ {c} : Before(board, c, b)
    /\ board' = IF Blockers(c) = {}
                THEN Put(board, c, [board[c] EXCEPT !.status = "ACTIVE"])
                ELSE board
    /\ todo' = todo \ {c}
    /\ UNCHANGED <<call, given, local, pc, byId, changed>>

\* One visit of the walk of _promote_queued, over the queue as it was sorted.
VisitQueued(c) ==
    /\ pc = "_promote_queued" /\ c \in todo
    /\ \A b \in todo \ {c} : Before(board, c, b)
    /\ board' = IF Blockers(c) = {}
                THEN Put(board, c, [board[c] EXCEPT !.status = "ACTIVE",
                         !.expires = Now + (board[c].expires - board[c].started)])
                ELSE board
    /\ todo' = todo \ {c}
    /\ UNCHANGED <<call, given, local, pc, byId, changed>>

EndPromotion ==
    /\ pc = "_promote_queued" /\ todo = {}
    /\ pc' = "done"
    /\ UNCHANGED <<call, given, local, board, todo, byId, changed>>

\* The call has returned; any other state without a step is a deadlock.
Returned == pc = "done" /\ UNCHANGED loopVars

LoopNext ==
    \/ \E c \in todo : VisitLease(c) \/ VisitOrphan(c) \/ VisitQueued(c) \/ VisitLocal(c)
    \/ BeginPass \/ EndCascade \/ EndPromotion \/ Returned

LoopSpec == LoopInit /\ [][LoopNext]_loopVars

-----------------------------------------------------------------------------

\* The cascade's passes (_close_orphaned_children) end where ClaimRules says, and
\* rewriting entries while walking the queue (_promote_queued) promotes the claims that a
\* look at the board before the walk picks; appending to the board while walking the
\* local one (_import_claims) keeps what Kept says.  One sweep is enough: a second reader
\* at the same instant finds nothing to change, so that the central store may skip its
\* push (_locked_state).
LoopsAreClosedForms ==
    pc = "done" =>
        /\ call = "_close_orphaned_children" => board = CloseOrphans(given)
        /\ call = "_promote_queued" => board = Promote(given, Now)
        /\ call = "_import_claims" => board \in Imported(given, local, Now)
        /\ call = "_expire_stale" =>
            /\ board = ExpireStale(given, Now)
            /\ ExpireStale(board, Now) = board

\* A pass of _close_orphaned_children that is followed by another one has closed a claim
\* that was open when it began, and opened none: the loop ends.
PassesMakeProgress ==
    pc = "_close_orphaned_children" /\ changed =>
        Open(board) \subseteq Open(byId) /\ Open(board) # Open(byId)

=============================================================================

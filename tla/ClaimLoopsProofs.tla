-------------------------- MODULE ClaimLoopsProofs --------------------------
(***************************************************************************)
(* The loops of task_claim.py compute the closed forms of ClaimRules, for  *)
(* any board and any number of claims, in whatever order the list is       *)
(* walked.                                                                 *)
(*                                                                         *)
(* A pass never closes a claim of the set that CloseOrphans spares, since  *)
(* the parents of its members are spared too; and a pass that closes       *)
(* nothing leaves a set that keeps its parents, which is inside the set    *)
(* spared.  The walk over the queue has at each claim promoted exactly the *)
(* promotable ones ahead of it, and every claim ahead of it blocks it      *)
(* whether it was promoted or waits on.  The walk over a local board has   *)
(* kept of the claims it has visited what Kept says, and no later claim    *)
(* changes that.                                                           *)
(***************************************************************************)
EXTENDS ClaimLoops, TaskClaimsProofs

\* The claims the cascade works on, and those the promotion works on, in a call
\* of f on cs.
Lease(f, cs) ==
    IF f = "_expire_stale" THEN Close(cs, Lapsed(cs, Now), "EXPIRED") ELSE cs
Queue(f, cs) ==
    IF f = "_expire_stale" THEN CloseOrphans(Lease(f, cs)) ELSE cs

\* Closing what the cascade does not spare, perhaps not yet all of it.
Cascading(cs, ds) ==
    \E G \in SUBSET (Open(cs) \ Sheltered(cs)) : ds = Close(cs, G, "EXPIRED")

\* A claim as the promotion leaves it.
Renewed(x, t) == [x EXCEPT !.status = "ACTIVE", !.expires = t + (x.expires - x.started)]

\* The promotion after it has visited the claims of V.
Walked(cs, V, t) ==
    [c \in DOMAIN cs |-> IF c \in Promotable(cs) \cap V THEN Renewed(cs[c], t) ELSE cs[c]]

\* What the import may keep of the claims it has visited.
KeptOf(cs, ls, t, V, S) ==
    \A c \in Importable(cs, ls, t) \cap V :
        c \in S <=> /\ Conflicts(cs, ls[c]) = {}
                    /\ \A b \in S : Before(ls, b, c) => ~Collides(ls[c], b, ls[b])

\* The boards the cascade may begin with in a call of f.
Starts(f, cs, ls) ==
    IF f = "_import_claims"
    THEN {Merge(cs, ls, S) :
            S \in {S \in SUBSET Importable(cs, ls, Now) : Kept(cs, ls, Now, S)}}
    ELSE {Lease(f, cs)}

ImportLoop ==
    pc = "_import_claims" =>
        /\ call = "_import_claims"
        /\ todo \subseteq DOMAIN local
        /\ \A b \in DOMAIN local \ todo, c \in todo : Before(local, b, c)
        /\ \E S \in SUBSET (Importable(given, local, Now) \ todo) :
            /\ board = Merge(given, local, S)
            /\ KeptOf(given, local, Now, DOMAIN local \ todo, S)

LeaseLoop ==
    pc = "_expire_stale" =>
        /\ call = "_expire_stale"
        /\ board = Close(given, Lapsed(given, Now) \ todo, "EXPIRED")

CascadeLoop ==
    pc = "_close_orphaned_children" =>
        /\ call # "_promote_queued"
        /\ \E cs \in Starts(call, given, local) : Cascading(cs, board) /\ Cascading(cs, byId)
        /\ Open(board) \subseteq Open(byId)
        /\ changed => Open(board) # Open(byId)
        /\ ~changed => board = byId /\ \A c \in DOMAIN board \ todo : ~Orphaned(c)

PromotionLoop ==
    pc = "_promote_queued" =>
        /\ call \in {"_expire_stale", "_promote_queued"}
        /\ LET cs == Queue(call, given)
           IN  /\ todo \subseteq Queued(cs)
               /\ board = Walked(cs, Queued(cs) \ todo, Now)
               /\ \A b \in Queued(cs) \ todo, c \in todo : Before(cs, b, c)

Result ==
    pc = "done" =>
        /\ call = "_close_orphaned_children" => board = CloseOrphans(given)
        /\ call = "_promote_queued" => board = Promote(given, Now)
        /\ call = "_import_claims" => board \in Imported(given, local, Now)
        /\ call = "_expire_stale" => board = ExpireStale(given, Now)

\* The call and its arguments never change.
Input == call \in Calls /\ \E io \in Inputs(call) : given = io[1] /\ local = io[2]

LoopInv ==
    /\ Input /\ changed \in BOOLEAN /\ pc \in Calls \cup {"done"}
    /\ LeaseLoop /\ ImportLoop /\ CascadeLoop /\ PromotionLoop /\ Result

-----------------------------------------------------------------------------
(* Closing and spared claims *)

LEMMA CloseNone ==
    ASSUME NEW cs, Board(cs), NEW st
    PROVE  Close(cs, {}, st) = cs
BY DEF Close, Board

LEMMA CloseTwice ==
    ASSUME NEW cs, NEW C, NEW D, NEW st
    PROVE  Close(Close(cs, C, st), D, st) = Close(cs, C \cup D, st)
<1> DEFINE ds == Close(cs, C, st)
<1>1. DOMAIN ds = DOMAIN cs
  BY DEF Close
<1>2. \A c \in DOMAIN cs :
        ds[c] = IF c \in C THEN [cs[c] EXCEPT !.status = st] ELSE cs[c]
  BY DEF Close
<1>3. \A c \in DOMAIN cs :
        (IF c \in D THEN [ds[c] EXCEPT !.status = st] ELSE ds[c])
          = IF c \in C \cup D THEN [cs[c] EXCEPT !.status = st] ELSE cs[c]
  BY <1>2
<1> HIDE DEF ds
<1>4. Close(ds, D, st) = Close(cs, C \cup D, st)
  BY <1>1, <1>3 DEF Close
<1> QED
  BY <1>4 DEF ds

\* Whatever keeps its parents is spared.
LEMMA SparedIsLargest ==
    ASSUME NEW cs, NEW S \in SUBSET Open(cs), ParentClosed(cs, S)
    PROVE  S \subseteq Sheltered(cs)
BY DEF Sheltered

LEMMA CascadingRecords ==
    ASSUME NEW cs, Board(cs), NEW ds, Cascading(cs, ds)
    PROVE  /\ Board(ds) /\ DOMAIN ds = DOMAIN cs
           /\ \E G \in SUBSET (Open(cs) \ Sheltered(cs)) :
                /\ ds = Close(cs, G, "EXPIRED")
                /\ Active(ds) = Active(cs) \ G /\ Open(ds) = Open(cs) \ G
           /\ \A c \in DOMAIN cs : ds[c].parent = cs[c].parent
<1>1. PICK G \in SUBSET (Open(cs) \ Sheltered(cs)) : ds = Close(cs, G, "EXPIRED")
  BY DEF Cascading
<1>2. "EXPIRED" \in ClosedStatus
  BY DEF ClosedStatus
<1>3. /\ Board(ds) /\ DOMAIN ds = DOMAIN cs
      /\ Active(ds) = Active(cs) \ G /\ Queued(ds) = Queued(cs) \ G
      /\ \A c \in DOMAIN cs : ds[c].parent = cs[c].parent
  BY <1>1, <1>2, CloseRecords
<1>4. Open(ds) = Open(cs) \ G
  BY <1>3 DEF Open
<1> QED
  BY <1>1, <1>3, <1>4

\* A visit closes no claim that is spared: its parent was active at the start
\* of the pass.
LEMMA VisitSpares ==
    ASSUME NEW cs, Board(cs), NEW ds, Cascading(cs, ds), NEW es, Cascading(cs, es),
           NEW c \in Open(ds), ds[c].parent # NoClaim, ds[c].parent \notin Active(es)
    PROVE  Cascading(cs, Close(ds, {c}, "EXPIRED"))
<1>1. PICK G \in SUBSET (Open(cs) \ Sheltered(cs)) :
        ds = Close(cs, G, "EXPIRED") /\ Open(ds) = Open(cs) \ G
  BY CascadingRecords
<1>2. PICK H \in SUBSET (Open(cs) \ Sheltered(cs)) :
        es = Close(cs, H, "EXPIRED") /\ Active(es) = Active(cs) \ H
  BY CascadingRecords
<1>3. c \in DOMAIN cs /\ ds[c].parent = cs[c].parent
  BY <1>1, CascadingRecords DEF Open, Active, Queued, WithStatus
<1>4. c \notin Sheltered(cs)
  BY <1>2, <1>3, ShelteredClosed DEF ParentClosed
<1>5. Close(ds, {c}, "EXPIRED") = Close(cs, G \cup {c}, "EXPIRED")
  BY <1>1, CloseTwice
<1>6. G \cup {c} \in SUBSET (Open(cs) \ Sheltered(cs))
  BY <1>1, <1>4
<1> QED
  BY <1>5, <1>6 DEF Cascading

\* A pass that finds no orphan has closed what CloseOrphans closes.
LEMMA CascadeEnds ==
    ASSUME NEW cs, Board(cs), NEW ds, Cascading(cs, ds),
           \A c \in Open(ds) : ds[c].parent = NoClaim \/ ds[c].parent \in Active(ds)
    PROVE  ds = CloseOrphans(cs)
<1>1. PICK G \in SUBSET (Open(cs) \ Sheltered(cs)) :
        /\ ds = Close(cs, G, "EXPIRED")
        /\ Active(ds) = Active(cs) \ G /\ Open(ds) = Open(cs) \ G
  BY CascadingRecords
<1>2. Open(ds) \subseteq DOMAIN cs /\ Active(cs) \subseteq Open(cs)
  BY <1>1 DEF Open, Active, Queued, WithStatus
<1>3. ParentClosed(cs, Open(ds))
  BY <1>1, <1>2, CascadingRecords DEF ParentClosed
<1>4. Open(ds) \subseteq Sheltered(cs)
  BY <1>1, <1>3, SparedIsLargest
<1>5. G = Open(cs) \ Sheltered(cs)
  BY <1>1, <1>4
<1> QED
  BY <1>1, <1>5 DEF CloseOrphans

-----------------------------------------------------------------------------
(* The walk over the queue *)

LEMMA WalkedRecords ==
    ASSUME NEW cs, Board(cs), NEW V, NEW t \in Nat
    PROVE  LET ds == Walked(cs, V, t)
               P == Promotable(cs) \cap V
           IN  /\ DOMAIN ds = DOMAIN cs
               /\ Active(ds) = Active(cs) \cup P
               /\ Queued(ds) = Queued(cs) \ P
               /\ \A c \in DOMAIN cs :
                    /\ ds[c].task = cs[c].task /\ ds[c].repo = cs[c].repo
                    /\ ds[c].scopes = cs[c].scopes /\ ds[c].parent = cs[c].parent
                    /\ ds[c].started = cs[c].started
                    /\ c \notin P => ds[c] = cs[c]
<1> DEFINE ds == Walked(cs, V, t)
           P == Promotable(cs) \cap V
<1>1. DOMAIN ds = DOMAIN cs
  BY DEF Walked
<1>2. P \subseteq Queued(cs) /\ Queued(cs) \subseteq DOMAIN cs
  BY PromotableQueued DEF Queued, WithStatus
<1>3. \A c \in DOMAIN cs : cs[c] \in Claim
  BY DEF Board
<1>4. \A c \in DOMAIN cs :
        ds[c] = IF c \in P
                THEN [cs[c] EXCEPT !.status = "ACTIVE",
                                   !.expires = t + (cs[c].expires - cs[c].started)]
                ELSE cs[c]
  BY DEF Walked, Renewed
<1> HIDE DEF ds, P
<1>5. \A c \in DOMAIN cs :
        /\ ds[c].status = IF c \in P THEN "ACTIVE" ELSE cs[c].status
        /\ ds[c].task = cs[c].task /\ ds[c].repo = cs[c].repo
        /\ ds[c].scopes = cs[c].scopes /\ ds[c].parent = cs[c].parent
        /\ ds[c].started = cs[c].started
        /\ c \notin P => ds[c] = cs[c]
  BY <1>3, <1>4 DEF Claim
<1>6. Active(ds) = Active(cs) \cup P
  BY <1>1, <1>2, <1>5 DEF Active, Queued, WithStatus
<1>7. Queued(ds) = Queued(cs) \ P
  BY <1>1, <1>2, <1>5 DEF Queued, WithStatus
<1> QED
  BY <1>1, <1>5, <1>6, <1>7 DEF ds, P

\* At the first claim the walk has not visited, what stands in its way now is
\* what stood in its way before the walk.
LEMMA WalkBlocks ==
    ASSUME NEW cs, Board(cs), NEW V \in SUBSET Queued(cs),
           NEW t \in Nat, board = Walked(cs, V, t), NEW c \in Queued(cs) \ V,
           \A b \in V : Before(cs, b, c),
           \A b \in Queued(cs) \ V : b # c => Before(cs, c, b)
    PROVE  Blockers(c) = {} <=> c \in Promotable(cs)
<1> DEFINE P == Promotable(cs) \cap V
<1>1. /\ DOMAIN board = DOMAIN cs
      /\ Active(board) = Active(cs) \cup P /\ Queued(board) = Queued(cs) \ P
      /\ \A b \in DOMAIN cs :
            /\ board[b].task = cs[b].task /\ board[b].repo = cs[b].repo
            /\ board[b].scopes = cs[b].scopes /\ board[b].parent = cs[b].parent
            /\ board[b].started = cs[b].started
  BY WalkedRecords
<1>2. /\ Active(cs) \subseteq DOMAIN cs /\ Queued(cs) \subseteq DOMAIN cs
      /\ Active(cs) \cap Queued(cs) = {} /\ c \in DOMAIN cs
  BY DEF Active, Queued, WithStatus
<1>3. \A b \in DOMAIN cs :
        /\ Before(board, b, c) <=> Before(cs, b, c)
        /\ Collides(board[c], b, board[b]) <=> Collides(cs[c], b, cs[b])
  BY <1>1, <1>2 DEF Before, Collides
<1> HIDE DEF P
<1>4. \A b : b \in Active(board) \cup {q \in Queued(board) : Before(board, q, c)}
             <=> b \in Active(cs) \cup {q \in Queued(cs) : Before(cs, q, c)}
  BY <1>1, <1>2, <1>3 DEF P
<1>5. Blockers(c) = {} <=>
        \A b \in Active(cs) \cup {q \in Queued(cs) : Before(cs, q, c)} :
            ~(b # c /\ Collides(cs[c], b, cs[b]))
  BY <1>2, <1>3, <1>4 DEF Blockers
<1>6. c \in Promotable(cs) <=>
        \A b \in Active(cs) \cup Queued(cs) :
            b # c /\ Collides(cs[c], b, cs[b]) => b \in Queued(cs) /\ ~Before(cs, b, c)
  BY DEF Promotable, Open
<1> QED
  BY <1>2, <1>5, <1>6

\* A visit goes on to the walk that has visited one claim more.
LEMMA WalkStep ==
    ASSUME NEW cs, Board(cs), NEW V, NEW c \in Queued(cs) \ V, NEW t \in Nat
    PROVE  /\ c \notin Promotable(cs) => Walked(cs, V \cup {c}, t) = Walked(cs, V, t)
           /\ c \in Promotable(cs) =>
                Walked(cs, V \cup {c}, t)
                  = Put(Walked(cs, V, t), c, Renewed(Walked(cs, V, t)[c], t))
<1> DEFINE ds == Walked(cs, V, t)
           up(b) == Renewed(cs[b], t)
<1>1. c \in DOMAIN cs
  BY DEF Queued, WithStatus
<1>2. DOMAIN ds = DOMAIN cs /\ ds[c] = cs[c]
  BY <1>1 DEF Walked
<1>3. CASE c \notin Promotable(cs)
  <2>1. Promotable(cs) \cap (V \cup {c}) = Promotable(cs) \cap V
    BY <1>3
  <2>2. Walked(cs, V \cup {c}, t) = Walked(cs, V, t)
    BY <2>1 DEF Walked
  <2> QED
    BY <1>3, <2>2
<1>4. CASE c \in Promotable(cs)
  <2>1. Walked(cs, V \cup {c}, t)
          = [b \in DOMAIN cs |-> IF b \in Promotable(cs) \cap (V \cup {c})
                                 THEN up(b) ELSE cs[b]]
    BY DEF Walked
  <2>2. ds = [b \in DOMAIN cs |-> IF b \in Promotable(cs) \cap V THEN up(b) ELSE cs[b]]
    BY DEF Walked
  <2> HIDE DEF ds, up
  <2>3. Put(ds, c, up(c)) = [b \in DOMAIN cs |-> IF b = c THEN up(c) ELSE ds[b]]
    BY <1>1, <1>2 DEF Put
  <2>4. \A b \in DOMAIN cs :
          (IF b \in Promotable(cs) \cap (V \cup {c}) THEN up(b) ELSE cs[b])
            = IF b = c THEN up(c) ELSE ds[b]
    BY <1>4, <2>2
  <2>5. Walked(cs, V \cup {c}, t) = Put(ds, c, up(c))
    BY <2>1, <2>3, <2>4
  <2> QED
    BY <1>2, <1>4, <2>5 DEF ds, up
<1> QED
  BY <1>3, <1>4

LEMMA WalkEnds ==
    ASSUME NEW cs, NEW t, Board(cs)
    PROVE  Walked(cs, Queued(cs), t) = Promote(cs, t) /\ Walked(cs, {}, t) = cs
<1>1. Promotable(cs) \cap Queued(cs) = Promotable(cs)
  BY PromotableQueued
<1>2. Walked(cs, Queued(cs), t) = Promote(cs, t)
  BY <1>1 DEF Walked, Renewed, Promote
<1>3. Walked(cs, {}, t) = [c \in DOMAIN cs |-> cs[c]]
  BY DEF Walked
<1> QED
  BY <1>2, <1>3 DEF Board

-----------------------------------------------------------------------------
(* A second sweep *)

\* Nothing is promotable after a promotion: who was skipped is still behind
\* what it was skipped for.
LEMMA NoneLeftToPromote ==
    ASSUME NEW cs, Board(cs), LeaseAhead(cs), NEW t \in Nat
    PROVE  Promotable(Promote(cs, t)) = {}
<1> DEFINE ds == Promote(cs, t)
<1>1. /\ DOMAIN ds = DOMAIN cs
      /\ Active(ds) = Active(cs) \cup Promotable(cs)
      /\ Queued(ds) = Queued(cs) \ Promotable(cs)
      /\ \A c \in DOMAIN cs :
            /\ ds[c].task = cs[c].task /\ ds[c].repo = cs[c].repo
            /\ ds[c].scopes = cs[c].scopes /\ ds[c].parent = cs[c].parent
            /\ ds[c].started = cs[c].started
  BY PromoteRecords
<1>2. /\ Open(cs) \subseteq DOMAIN cs /\ Queued(cs) \subseteq Open(cs)
      /\ Active(cs) \cap Queued(cs) = {}
  BY DEF Open, Active, Queued, WithStatus
<1> HIDE DEF ds
<1>3. SUFFICES ASSUME NEW c \in Promotable(ds) PROVE FALSE
  BY DEF ds
<1>4. c \in Queued(cs) /\ c \notin Promotable(cs)
  BY <1>1, PromotableQueued
<1>5. PICK b \in Open(cs) :
        /\ b # c /\ Collides(cs[c], b, cs[b])
        /\ b \notin Queued(cs) \/ Before(cs, b, c)
  BY <1>4 DEF Promotable
<1>6. b \in Open(ds) /\ Collides(ds[c], b, ds[b])
  BY <1>1, <1>2, <1>4, <1>5 DEF Open, Collides
<1>7. b \notin Queued(ds) \/ Before(ds, b, c)
  BY <1>1, <1>2, <1>4, <1>5 DEF Before
<1> QED
  BY <1>5, <1>6, <1>7 DEF Promotable

\* A sweep leaves nothing for a second one at the same instant.
LEMMA SweepTwice ==
    ASSUME NEW cs, Board(cs), LeaseAhead(cs), NEW t \in Nat
    PROVE  ExpireStale(ExpireStale(cs, t), t) = ExpireStale(cs, t)
<1> DEFINE ls == Close(cs, Lapsed(cs, t), "EXPIRED")
           os == CloseOrphans(ls)
           ds == Promote(os, t)
<1>1. "EXPIRED" \in ClosedStatus
  BY DEF ClosedStatus
<1>2. Board(ls) /\ LeaseAhead(ls) /\ Fresh(ls, t)
  BY <1>1, CloseRecords, CloseLapsed DEF LeaseAhead, Queued, WithStatus
<1>3. Board(os) /\ LeaseAhead(os) /\ Fresh(os, t)
  BY <1>1, <1>2, CloseRecords, CloseFresh
     DEF CloseOrphans, LeaseAhead, Queued, WithStatus
<1>4. Housed(os)
  BY <1>2, CascadeHoused
<1> HIDE DEF ls, os
<1>5. /\ Board(ds) /\ DOMAIN ds = DOMAIN os
      /\ Active(ds) = Active(os) \cup Promotable(os)
      /\ Queued(ds) = Queued(os) \ Promotable(os)
      /\ \A c \in DOMAIN os : /\ ds[c].parent = os[c].parent
                              /\ c \notin Promotable(os) => ds[c] = os[c]
                              /\ c \in Promotable(os) => ds[c].expires > t
  BY <1>3, PromoteRecords
<1>6. /\ Active(os) \subseteq DOMAIN os /\ Promotable(os) \subseteq Queued(os)
      /\ Active(os) \cap Queued(os) = {} /\ Queued(os) \subseteq DOMAIN os
  BY PromotableQueued DEF Active, Queued, WithStatus
<1>7. Promotable(ds) = {}
  BY <1>3, NoneLeftToPromote
<1> HIDE DEF ds
<1>8. Lapsed(ds, t) = {}
  <2> SUFFICES ASSUME NEW c \in Active(ds) PROVE ~(ds[c].expires <= t)
    BY DEF Lapsed
  <2>1. ds[c].expires > t
    BY <1>3, <1>5, <1>6 DEF Fresh
  <2>2. ds[c].expires \in Nat
    BY <1>5, <1>6 DEF Board, Claim
  <2> QED
    BY <2>1, <2>2
<1>9. Close(ds, Lapsed(ds, t), "EXPIRED") = ds
  BY <1>5, <1>8, CloseNone
<1>10. ParentClosed(ds, Open(ds))
  BY <1>4, <1>5, <1>6 DEF Housed, ParentClosed, Open
<1>11. Open(ds) \ Sheltered(ds) = {}
  BY <1>10, SparedIsLargest
<1>12. CloseOrphans(ds) = ds
  BY <1>5, <1>11, CloseNone DEF CloseOrphans
<1>13. Promote(ds, t) = ds
  BY <1>5, <1>7 DEF Promote, Board
<1>14. ExpireStale(ds, t) = ds
  BY <1>9, <1>12, <1>13 DEF ExpireStale
<1> QED
  BY <1>14 DEF ExpireStale, ds, os, ls

-----------------------------------------------------------------------------
(* The walk over a local board *)

LEMMA BeforeOrder ==
    ASSUME NEW cs, Board(cs), NEW b \in DOMAIN cs, NEW c \in DOMAIN cs, Before(cs, b, c)
    PROVE  ~Before(cs, c, b)
<1>1. b \in Nat /\ c \in Nat
  BY ClaimIdAssumption DEF Board
<1>2. cs[b].started \in Nat /\ cs[c].started \in Nat
  BY DEF Board, Claim
<1> QED
  BY <1>1, <1>2 DEF Before

\* At the first local claim that was not visited, what it collides with on the board by
\* now is what it collides with on the board as it was, or has kept since.
LEMMA MergedConflicts ==
    ASSUME NEW cs, Board(cs), NEW ls, Board(ls), NEW t,
           NEW S \in SUBSET Importable(cs, ls, t), NEW x
    PROVE  Conflicts(Merge(cs, ls, S), x) = {} <=>
             Conflicts(cs, x) = {} /\ \A b \in S : ~Collides(x, b, ls[b])
<1> DEFINE ds == Merge(cs, ls, S)
<1>1. /\ DOMAIN ds = DOMAIN cs \cup S
      /\ \A c \in S : ds[c] = ls[c]
      /\ \A c \in DOMAIN cs : ds[c] = cs[c]
      /\ Active(ds) = Active(cs) \cup (S \cap Active(ls))
      /\ Queued(ds) = Queued(cs) \cup (S \cap Queued(ls))
  <2>1. Merged(cs, ls, S, ds)
    BY MergeRecords
  <2> QED
    BY <2>1 DEF Merged
<1>2. S \subseteq Open(ls) /\ Open(cs) \subseteq DOMAIN cs
  BY StatusSets DEF Importable
<1> HIDE DEF ds
<1>3. Open(ds) = Open(cs) \cup S
  BY <1>1, <1>2 DEF Open
<1>4. Conflicts(ds, x) = Conflicts(cs, x) \cup {b \in S : Collides(x, b, ls[b])}
  BY <1>1, <1>2, <1>3 DEF Conflicts
<1> QED
  BY <1>4 DEF ds

\* Visiting a local claim keeps it if it is free of conflicts, and what was kept stays.
LEMMA ImportVisit ==
    ASSUME NEW cs, Board(cs), NEW ls, Board(ls), NEW t, NEW V \in SUBSET DOMAIN ls,
           NEW S \in SUBSET (Importable(cs, ls, t) \cap V), KeptOf(cs, ls, t, V, S),
           NEW c \in DOMAIN ls \ V, \A b \in V : Before(ls, b, c)
    PROVE  LET more == IF c \in Importable(cs, ls, t)
                          /\ Conflicts(Merge(cs, ls, S), ls[c]) = {}
                       THEN S \cup {c} ELSE S
           IN  KeptOf(cs, ls, t, V \cup {c}, more)
<1> DEFINE I == Importable(cs, ls, t)
           more == IF c \in I /\ Conflicts(Merge(cs, ls, S), ls[c]) = {}
                   THEN S \cup {c} ELSE S
           free(b) == Conflicts(cs, ls[b]) = {}
           clear(b, T) == \A d \in T : Before(ls, d, b) => ~Collides(ls[b], d, ls[d])
<1>1. Conflicts(Merge(cs, ls, S), ls[c]) = {} <=>
        free(c) /\ \A b \in S : ~Collides(ls[c], b, ls[b])
  BY MergedConflicts
<1>2. \A b \in S : Before(ls, b, c)
  OBVIOUS
<1>3. Conflicts(Merge(cs, ls, S), ls[c]) = {} <=> free(c) /\ clear(c, S)
  BY <1>1, <1>2
<1>4. \A b \in V : ~Before(ls, c, b)
  BY BeforeOrder
<1>5. ~Before(ls, c, c)
  BY BeforeOrder
<1>6. \A b \in I \cap V : clear(b, more) <=> clear(b, S)
  BY <1>4
<1>7. clear(c, more) <=> clear(c, S)
  BY <1>5
<1> HIDE DEF free, clear
<1>8. \A b \in I \cap V : b \in S <=> free(b) /\ clear(b, S)
  BY DEF KeptOf, free, clear
<1>9. \A b \in I \cap (V \cup {c}) : b \in more <=> free(b) /\ clear(b, more)
  BY <1>3, <1>6, <1>7, <1>8
<1> HIDE DEF more, I
<1>10. KeptOf(cs, ls, t, V \cup {c}, more)
  BY <1>9 DEF KeptOf, free, clear, I
<1> QED
  BY <1>10 DEF more, I

\* ... and the board grows by that claim.
LEMMA MergeMore ==
    ASSUME NEW cs, NEW ls, NEW S, NEW c, c \notin S, c \notin DOMAIN cs
    PROVE  Put(Merge(cs, ls, S), c, ls[c]) = Merge(cs, ls, S \cup {c})
BY DEF Put, Merge

-----------------------------------------------------------------------------
(* The steps *)

\* What the promotion works on is a board of records as the store makes them.
LEMMA LoopBoards ==
    ASSUME NEW cs \in Boards, NEW f
    PROVE  /\ Board(cs) /\ LeaseAhead(cs)
           /\ Board(Lease(f, cs)) /\ DOMAIN Lease(f, cs) = DOMAIN cs
           /\ Board(Queue(f, cs)) /\ LeaseAhead(Queue(f, cs))
           /\ DOMAIN Queue(f, cs) = DOMAIN cs
<1> DEFINE ls == Close(cs, Lapsed(cs, Now), "EXPIRED")
           os == Close(ls, Open(ls) \ Sheltered(ls), "EXPIRED")
<1>1. "EXPIRED" \in ClosedStatus
  BY DEF ClosedStatus
<1>2. Board(cs) /\ LeaseAhead(cs)
  BY LoopAssumption DEF IsBoard, Board, LeaseAhead
<1>3. Board(ls) /\ LeaseAhead(ls) /\ DOMAIN ls = DOMAIN cs
  BY <1>1, <1>2, CloseRecords DEF LeaseAhead, Queued, WithStatus
<1> HIDE DEF ls
<1>4. Board(os) /\ LeaseAhead(os) /\ DOMAIN os = DOMAIN cs
  BY <1>1, <1>3, CloseRecords DEF LeaseAhead, Queued, WithStatus
<1> QED
  BY <1>2, <1>3, <1>4 DEF Lease, Queue, CloseOrphans, ls, os

LEMMA InputBoards ==
    ASSUME Input
    PROVE  /\ Board(given) /\ Now \in Nat
           /\ call = "_import_claims" => Board(local)
           /\ call # "_import_claims" => given \in Boards
<1>1. PICK io \in Inputs(call) : given = io[1] /\ local = io[2]
  BY DEF Input
<1>2. CASE call = "_import_claims"
  BY <1>1, <1>2, LoopAssumption DEF Inputs, IsBoard, Board
<1>3. CASE call # "_import_claims"
  <2>1. given \in Boards
    BY <1>1, <1>3 DEF Inputs
  <2> QED
    BY <1>3, <2>1, LoopBoards, LoopAssumption
<1> QED
  BY <1>2, <1>3

LEMMA StartBoards ==
    ASSUME Input, NEW cs \in Starts(call, given, local)
    PROVE  Board(cs)
<1>1. CASE call = "_import_claims"
  <2>1. PICK S \in SUBSET Importable(given, local, Now) : cs = Merge(given, local, S)
    BY <1>1 DEF Starts
  <2> QED
    BY <1>1, <2>1, InputBoards, MergeRecords DEF Merged
<1>2. CASE call # "_import_claims"
  BY <1>2, InputBoards, LoopBoards DEF Starts
<1> QED
  BY <1>1, <1>2

LEMMA CascadingStarts == ASSUME NEW cs, Board(cs) PROVE Cascading(cs, cs)
<1>1. {} \in SUBSET (Open(cs) \ Sheltered(cs)) /\ cs = Close(cs, {}, "EXPIRED")
  BY CloseNone
<1> QED
  BY <1>1 DEF Cascading

LEMMA LoopInitInv == LoopInit => LoopInv
<1> SUFFICES ASSUME LoopInit PROVE LoopInv
  OBVIOUS
<1>1. /\ Input /\ call \in Calls /\ board = given /\ byId = given
      /\ pc = call /\ changed = FALSE
      /\ todo = CASE call = "_promote_queued" -> Queued(given)
                  [] call = "_import_claims" -> DOMAIN local
                  [] OTHER -> DOMAIN given
  BY DEF LoopInit, Input
<1>2. Board(given)
  BY <1>1, InputBoards
<1>3. LeaseLoop
  <2> SUFFICES ASSUME pc = "_expire_stale"
               PROVE  board = Close(given, Lapsed(given, Now) \ todo, "EXPIRED")
    BY <1>1 DEF LeaseLoop
  <2>1. Lapsed(given, Now) \ todo = {}
    BY <1>1 DEF Lapsed, Active, WithStatus
  <2> QED
    BY <1>1, <1>2, <2>1, CloseNone
<1>4. ImportLoop
  <2> SUFFICES ASSUME pc = "_import_claims" PROVE ImportLoop
    BY DEF ImportLoop
  <2>1. todo = DOMAIN local
    BY <1>1
  <2>2. board = Merge(given, local, {})
    BY <1>1, <1>2 DEF Merge, Board
  <2>3. KeptOf(given, local, Now, {}, {})
    BY DEF KeptOf
  <2>4. DOMAIN local \ todo = {} /\ {} \in SUBSET (Importable(given, local, Now) \ todo)
    BY <2>1
  <2> QED
    BY <1>1, <2>1, <2>2, <2>3, <2>4 DEF ImportLoop
<1>5. CascadeLoop
  <2> SUFFICES ASSUME pc = "_close_orphaned_children" PROVE CascadeLoop
    BY DEF CascadeLoop
  <2>1. given \in Starts(call, given, local)
    BY <1>1 DEF Starts, Lease
  <2>2. todo = DOMAIN given
    BY <1>1
  <2> QED
    BY <1>1, <1>2, <2>1, <2>2, CascadingStarts DEF CascadeLoop
<1>6. PromotionLoop
  <2> SUFFICES ASSUME pc = "_promote_queued" PROVE PromotionLoop
    BY DEF PromotionLoop
  <2>1. Queue(call, given) = given
    BY <1>1 DEF Queue
  <2>2. Queued(given) \ todo = {} /\ Walked(given, {}, Now) = given
    BY <1>1, <1>2, WalkEnds
  <2> QED
    BY <1>1, <2>1, <2>2 DEF PromotionLoop
<1>7. Result
  BY <1>1 DEF Result, Calls
<1> QED
  BY <1>1, <1>3, <1>4, <1>5, <1>6, <1>7 DEF LoopInv

LEMMA VisitLeaseInv == ASSUME LoopInv, NEW c, VisitLease(c) PROVE LoopInv'
<1>1. /\ pc = "_expire_stale" /\ c \in todo /\ todo' = todo \ {c}
      /\ board' = Close(board, {c} \cap Lapsed(board, Now), "EXPIRED")
      /\ call' = call /\ given' = given /\ local' = local /\ pc' = pc
      /\ changed' = changed
  BY DEF VisitLease
<1>2. /\ board = Close(given, Lapsed(given, Now) \ todo, "EXPIRED")
      /\ Input /\ call = "_expire_stale"
  BY <1>1 DEF LoopInv, LeaseLoop
<1> DEFINE D == Lapsed(given, Now) \ todo
<1>3. Board(given) /\ "EXPIRED" \in ClosedStatus
  BY <1>2, InputBoards DEF ClosedStatus
<1>4. /\ Active(board) = Active(given) \ D
      /\ \A b \in DOMAIN given : board[b].expires = given[b].expires
  BY <1>2, <1>3, CloseRecords
<1>5. {c} \cap Lapsed(board, Now) = {c} \cap Lapsed(given, Now)
  BY <1>1, <1>2, <1>4 DEF Lapsed, Active, WithStatus
<1>6. D \cup ({c} \cap Lapsed(given, Now)) = Lapsed(given, Now) \ todo'
  BY <1>1
<1>7. board' = Close(given, D \cup ({c} \cap Lapsed(given, Now)), "EXPIRED")
  BY <1>1, <1>2, <1>5, CloseTwice
<1>8. LeaseLoop'
  BY <1>1, <1>2, <1>6, <1>7 DEF LeaseLoop
<1> QED
  BY <1>1, <1>8 DEF LoopInv, Input, ImportLoop, CascadeLoop, PromotionLoop, Result

LEMMA VisitLocalInv == ASSUME LoopInv, NEW c, VisitLocal(c) PROVE LoopInv'
<1> DEFINE V == DOMAIN local \ todo
           I == Importable(given, local, Now)
           free == MayImport(c) /\ Conflicts(board, local[c]) = {}
<1>1. /\ pc = "_import_claims" /\ c \in todo /\ todo' = todo \ {c}
      /\ \A b \in todo \ {c} : Before(local, c, b)
      /\ board' = IF free THEN Put(board, c, local[c]) ELSE board
      /\ call' = call /\ given' = given /\ local' = local /\ pc' = pc
      /\ changed' = changed
  BY DEF VisitLocal
<1>2. /\ Input /\ call = "_import_claims" /\ todo \subseteq DOMAIN local
      /\ \A b \in V, d \in todo : Before(local, b, d)
      /\ \E S \in SUBSET (I \ todo) :
            board = Merge(given, local, S) /\ KeptOf(given, local, Now, V, S)
  BY <1>1 DEF LoopInv, ImportLoop
<1>3. Board(given) /\ Board(local)
  BY <1>2, InputBoards
<1>4. PICK S \in SUBSET (I \ todo) :
        board = Merge(given, local, S) /\ KeptOf(given, local, Now, V, S)
  BY <1>2
<1>5. I \subseteq Open(local) \ DOMAIN given /\ Open(local) \subseteq DOMAIN local
  BY StatusSets DEF Importable
<1>6. DOMAIN board = DOMAIN given \cup S
  BY <1>4 DEF Merge
<1>7. MayImport(c) <=> c \in I
  BY <1>1, <1>4, <1>6 DEF MayImport, Importable
<1> DEFINE more == IF c \in I /\ Conflicts(Merge(given, local, S), local[c]) = {}
                   THEN S \cup {c} ELSE S
<1>8. /\ V \in SUBSET DOMAIN local /\ c \in DOMAIN local \ V
      /\ S \in SUBSET (I \cap V)
      /\ \A b \in V : Before(local, b, c)
  BY <1>1, <1>2, <1>4, <1>5
<1>9. KeptOf(given, local, Now, V \cup {c}, more)
  BY <1>3, <1>4, <1>8, ImportVisit
<1>10. board' = Merge(given, local, more)
  <2>1. CASE free
    <3>1. c \notin S /\ c \notin DOMAIN given
      BY <1>1, <1>4, <1>5, <1>7, <2>1
    <3>2. board' = Put(Merge(given, local, S), c, local[c])
      BY <1>1, <1>4, <2>1
    <3>3. more = S \cup {c}
      BY <1>4, <1>7, <2>1
    <3> QED
      BY <3>1, <3>2, <3>3, MergeMore
  <2>2. CASE ~free
    BY <1>1, <1>4, <1>7, <2>2
  <2> QED
    BY <2>1, <2>2
<1>11. /\ more \in SUBSET (I \ todo') /\ V \cup {c} = DOMAIN local \ todo'
       /\ \A b \in DOMAIN local \ todo', d \in todo' : Before(local, b, d)
       /\ todo' \subseteq DOMAIN local
  BY <1>1, <1>2, <1>4
<1> HIDE DEF more, I
<1>12. \E T \in SUBSET (I \ todo') :
            /\ board' = Merge(given, local, T)
            /\ KeptOf(given, local, Now, DOMAIN local \ todo', T)
  BY <1>9, <1>10, <1>11
<1>13. ImportLoop'
  BY <1>1, <1>2, <1>11, <1>12 DEF ImportLoop, I
<1> QED
  BY <1>1, <1>13 DEF LoopInv, Input, LeaseLoop, CascadeLoop, PromotionLoop, Result

\* What the first pass of the cascade begins with.
LEMMA CascadeBegins ==
    ASSUME LoopInv, todo = {}, pc \in {"_expire_stale", "_import_claims"}
    PROVE  call = pc /\ board \in Starts(call, given, local)
<1>1. CASE pc = "_expire_stale"
  <2>1. call = "_expire_stale"
        /\ board = Close(given, Lapsed(given, Now) \ {}, "EXPIRED")
    BY <1>1 DEF LoopInv, LeaseLoop
  <2> QED
    BY <1>1, <2>1 DEF Starts, Lease
<1>2. CASE pc = "_import_claims"
  <2>1. call = "_import_claims"
    BY <1>2 DEF LoopInv, ImportLoop
  <2>2. PICK S \in SUBSET Importable(given, local, Now) :
            /\ board = Merge(given, local, S)
            /\ KeptOf(given, local, Now, DOMAIN local, S)
    <3>1. DOMAIN local \ todo = DOMAIN local
          /\ Importable(given, local, Now) \ todo = Importable(given, local, Now)
      OBVIOUS
    <3> QED
      BY <1>2, <3>1 DEF LoopInv, ImportLoop
  <2>3. Importable(given, local, Now) \cap DOMAIN local = Importable(given, local, Now)
    BY StatusSets DEF Importable
  <2>4. Kept(given, local, Now, S)
    BY <2>2, <2>3 DEF Kept, KeptOf
  <2> QED
    BY <1>2, <2>1, <2>2, <2>4 DEF Starts
<1> QED
  BY <1>1, <1>2

LEMMA BeginPassInv == ASSUME LoopInv, BeginPass PROVE LoopInv'
<1>1. /\ todo = {} /\ pc' = "_close_orphaned_children" /\ todo' = DOMAIN board
      /\ byId' = board /\ changed' = FALSE
      /\ call' = call /\ given' = given /\ local' = local /\ board' = board
      /\ pc \in {"_expire_stale", "_import_claims"} \/ pc = "_close_orphaned_children"
  BY DEF BeginPass
<1>2. Input
  BY DEF LoopInv
<1>3. call # "_promote_queued"
      /\ \E cs \in Starts(call, given, local) : Cascading(cs, board)
  <2>1. CASE pc \in {"_expire_stale", "_import_claims"}
    BY <1>1, <1>2, <2>1, CascadeBegins, StartBoards, CascadingStarts
  <2>2. CASE pc = "_close_orphaned_children"
    BY <2>2 DEF LoopInv, CascadeLoop
  <2> QED
    BY <1>1, <2>1, <2>2
<1>4. CascadeLoop'
  BY <1>1, <1>3 DEF CascadeLoop
<1> QED
  BY <1>1, <1>2, <1>4
     DEF LoopInv, Input, LeaseLoop, ImportLoop, PromotionLoop, Result, Calls

LEMMA VisitOrphanInv == ASSUME LoopInv, NEW c, VisitOrphan(c) PROVE LoopInv'
<1>1. /\ pc = "_close_orphaned_children" /\ c \in todo /\ todo' = todo \ {c}
      /\ board' = Close(board, {b \in {c} : Orphaned(b)}, "EXPIRED")
      /\ changed' = (changed \/ Orphaned(c)) /\ byId' = byId
      /\ call' = call /\ given' = given /\ local' = local /\ pc' = pc
  BY DEF VisitOrphan
<1>2. /\ call # "_promote_queued" /\ Input
      /\ \E cs \in Starts(call, given, local) : Cascading(cs, board) /\ Cascading(cs, byId)
      /\ Open(board) \subseteq Open(byId)
      /\ changed => Open(board) # Open(byId)
      /\ ~changed => board = byId /\ \A b \in DOMAIN board \ todo : ~Orphaned(b)
      /\ changed \in BOOLEAN
  BY <1>1 DEF LoopInv, CascadeLoop
<1>3. PICK ls \in Starts(call, given, local) : Cascading(ls, board) /\ Cascading(ls, byId)
  BY <1>2
<1>4. Board(ls) /\ Board(board) /\ "EXPIRED" \in ClosedStatus
  BY <1>2, <1>3, StartBoards, CascadingRecords DEF ClosedStatus
<1>5. ASSUME Orphaned(c) PROVE CascadeLoop'
  <2>1. c \in Open(board) /\ board[c].parent # NoClaim
        /\ board[c].parent \notin Active(byId)
    BY <1>5 DEF Orphaned
  <2>2. {b \in {c} : Orphaned(b)} = {c}
    BY <1>5
  <2>3. board' = Close(board, {c}, "EXPIRED") /\ changed' = TRUE
    BY <1>1, <1>5, <2>2
  <2>4. Cascading(ls, board')
    BY <1>3, <1>4, <2>1, <2>3, VisitSpares
  <2>5. Active(board') = Active(board) \ {c} /\ Queued(board') = Queued(board) \ {c}
    BY <1>4, <2>3, CloseRecords
  <2>6. Open(board') = Open(board) \ {c}
    BY <2>5 DEF Open
  <2>7. Open(board') \subseteq Open(byId) /\ Open(board') # Open(byId)
    BY <1>2, <2>1, <2>6
  <2> QED
    BY <1>1, <1>2, <1>3, <2>3, <2>4, <2>7 DEF CascadeLoop
<1>6. ASSUME ~Orphaned(c) PROVE CascadeLoop'
  <2>1. {b \in {c} : Orphaned(b)} = {}
    BY <1>6
  <2>2. board' = board /\ changed' = changed
    BY <1>1, <1>2, <1>4, <1>6, <2>1, CloseNone
  <2>3. ASSUME ~changed', NEW b \in DOMAIN board' \ todo' PROVE ~Orphaned(b)'
    <3>1. ~Orphaned(b)
      BY <1>1, <1>2, <1>6, <2>2, <2>3
    <3> QED
      BY <1>1, <2>2, <3>1 DEF Orphaned
  <2> QED
    BY <1>1, <1>2, <2>2, <2>3 DEF CascadeLoop
<1>7. CascadeLoop'
  BY <1>5, <1>6
<1>8. changed' \in BOOLEAN
  BY <1>1, <1>2 DEF Orphaned
<1> QED
  BY <1>1, <1>7, <1>8 DEF LoopInv, Input, LeaseLoop, ImportLoop, PromotionLoop, Result

LEMMA EndCascadeInv == ASSUME LoopInv, EndCascade PROVE LoopInv'
<1>1. /\ pc = "_close_orphaned_children" /\ todo = {} /\ ~changed
      /\ IF call = "_expire_stale"
         THEN pc' = "_promote_queued" /\ todo' = Queued(board)
         ELSE pc' = "done" /\ todo' = {}
      /\ call' = call /\ given' = given /\ local' = local /\ board' = board
      /\ changed' = changed
  BY DEF EndCascade
<1>2. /\ call # "_promote_queued" /\ call \in Calls /\ Input
      /\ \E cs \in Starts(call, given, local) : Cascading(cs, board)
      /\ board = byId /\ \A c \in DOMAIN board : ~Orphaned(c)
  BY <1>1 DEF LoopInv, CascadeLoop, Input
<1>3. PICK ls \in Starts(call, given, local) : Cascading(ls, board)
  BY <1>2
<1>4. Board(ls) /\ Board(board)
  BY <1>2, <1>3, StartBoards, CascadingRecords
<1>5. \A c \in Open(board) :
        board[c].parent = NoClaim \/ board[c].parent \in Active(board)
  BY <1>2 DEF Orphaned, Open, Active, Queued, WithStatus
<1>6. board = CloseOrphans(ls)
  BY <1>3, <1>4, <1>5, CascadeEnds
<1>7. CASE call = "_expire_stale"
  <2>1. board = Queue(call, given)
    BY <1>3, <1>6, <1>7 DEF Queue, Starts
  <2>2. Queued(board) \ todo' = {} /\ Walked(board, {}, Now) = board
    BY <1>1, <1>4, <1>7, WalkEnds
  <2>3. PromotionLoop'
    BY <1>1, <1>2, <1>7, <2>1, <2>2 DEF PromotionLoop
  <2> QED
    BY <1>1, <1>7, <2>3
       DEF LoopInv, Input, LeaseLoop, ImportLoop, CascadeLoop, Result, Calls
<1>8. CASE call # "_expire_stale"
  <2>1. call = "_close_orphaned_children" => board = CloseOrphans(given)
    BY <1>3, <1>6 DEF Starts, Lease
  <2>2. call = "_import_claims" => board \in Imported(given, local, Now)
    BY <1>3, <1>6 DEF Starts, Imported
  <2>3. Result'
    BY <1>1, <1>2, <1>8, <2>1, <2>2 DEF Result, Calls
  <2> QED
    BY <1>1, <1>8, <2>3
       DEF LoopInv, Input, LeaseLoop, ImportLoop, CascadeLoop, PromotionLoop, Calls
<1> QED
  BY <1>7, <1>8

LEMMA VisitQueuedInv == ASSUME LoopInv, NEW c, VisitQueued(c) PROVE LoopInv'
<1> DEFINE cs == Queue(call, given)
           V == Queued(cs) \ todo
           up == Renewed(board[c], Now)
<1>1. /\ pc = "_promote_queued" /\ c \in todo /\ todo' = todo \ {c}
      /\ \A b \in todo \ {c} : Before(board, c, b)
      /\ board' = IF Blockers(c) = {} THEN Put(board, c, up) ELSE board
      /\ call' = call /\ given' = given /\ local' = local /\ pc' = pc
      /\ changed' = changed
  BY DEF VisitQueued, Renewed
<1>2. /\ call \in {"_expire_stale", "_promote_queued"} /\ Input
      /\ todo \subseteq Queued(cs) /\ board = Walked(cs, V, Now)
      /\ \A b \in V, d \in todo : Before(cs, b, d)
  BY <1>1 DEF LoopInv, PromotionLoop
<1>3. Board(cs) /\ Now \in Nat
  BY <1>2, InputBoards, LoopBoards
<1> HIDE DEF cs
<1>4. /\ DOMAIN board = DOMAIN cs /\ Queued(cs) \subseteq DOMAIN cs
      /\ \A b \in DOMAIN cs : board[b].started = cs[b].started
  BY <1>2, <1>3, WalkedRecords DEF Queued, WithStatus
<1>5. \A b \in todo \ {c} : Before(cs, c, b)
  BY <1>1, <1>2, <1>4 DEF Before
<1>6. /\ c \in Queued(cs) \ V
      /\ \A b \in V : Before(cs, b, c)
      /\ \A b \in Queued(cs) \ V : b # c => Before(cs, c, b)
  BY <1>1, <1>2, <1>5
<1>7. Blockers(c) = {} <=> c \in Promotable(cs)
  BY <1>2, <1>3, <1>6, WalkBlocks
<1>8. /\ c \notin Promotable(cs) => Walked(cs, V \cup {c}, Now) = Walked(cs, V, Now)
      /\ c \in Promotable(cs) => Walked(cs, V \cup {c}, Now) = Put(board, c, up)
  BY <1>2, <1>3, <1>6, WalkStep
<1>9. board' = Walked(cs, V \cup {c}, Now)
  BY <1>1, <1>2, <1>7, <1>8
<1>10. V \cup {c} = Queued(cs) \ todo'
  BY <1>1, <1>2
<1>11. \A b \in Queued(cs) \ todo', d \in todo' : Before(cs, b, d)
  BY <1>1, <1>2, <1>5
<1>12. PromotionLoop'
  BY <1>1, <1>2, <1>9, <1>10, <1>11 DEF PromotionLoop, cs
<1> QED
  BY <1>1, <1>12 DEF LoopInv, Input, LeaseLoop, ImportLoop, CascadeLoop, Result

LEMMA EndPromotionInv == ASSUME LoopInv, EndPromotion PROVE LoopInv'
<1> DEFINE cs == Queue(call, given)
<1>1. /\ pc = "_promote_queued" /\ todo = {} /\ pc' = "done" /\ todo' = todo
      /\ call' = call /\ given' = given /\ local' = local /\ board' = board
      /\ changed' = changed
  BY DEF EndPromotion
<1>2. /\ call \in {"_expire_stale", "_promote_queued"} /\ Input
      /\ board = Walked(cs, Queued(cs) \ {}, Now)
  BY <1>1 DEF LoopInv, PromotionLoop
<1>3. Board(cs) /\ Queued(cs) \ {} = Queued(cs)
  BY <1>2, InputBoards, LoopBoards
<1> HIDE DEF cs
<1>4. board = Promote(cs, Now)
  BY <1>2, <1>3, WalkEnds
<1>5. Result'
  BY <1>1, <1>2, <1>4 DEF Result, cs, Queue, Lease, ExpireStale
<1> QED
  BY <1>1, <1>5 DEF LoopInv, Input, LeaseLoop, ImportLoop, CascadeLoop, PromotionLoop

LEMMA LoopStepInv == LoopInv /\ [LoopNext]_loopVars => LoopInv'
<1>1. ASSUME LoopInv, UNCHANGED loopVars PROVE LoopInv'
  BY <1>1 DEF loopVars, LoopInv, Input, LeaseLoop, ImportLoop, CascadeLoop,
              PromotionLoop, Result, Orphaned
<1>2. ASSUME LoopInv, LoopNext PROVE LoopInv'
  BY <1>1, <1>2, VisitLeaseInv, VisitOrphanInv, VisitQueuedInv, VisitLocalInv,
     BeginPassInv, EndCascadeInv, EndPromotionInv DEF LoopNext, Returned
<1> QED
  BY <1>1, <1>2

-----------------------------------------------------------------------------

\* The loops of _expire_stale, _close_orphaned_children, _promote_queued and
\* _import_claims compute ExpireStale, CloseOrphans, Promote and a member of Imported, on
\* every board of any number of claims, however they are delegated, and a second sweep at
\* the same instant changes nothing: what TaskClaims and CentralBoard say in one operator
\* is what the code does in many visits.
THEOREM LoopsComputeTheForms == LoopSpec => []LoopsAreClosedForms
<1>1. LoopSpec => []LoopInv
  BY LoopInitInv, LoopStepInv, PTL DEF LoopSpec
<1>2. LoopInv => LoopsAreClosedForms
  <2>1. LoopInv => /\ Now \in Nat /\ Result
                   /\ call = "_expire_stale" => Board(given) /\ LeaseAhead(given)
    BY InputBoards, LoopBoards DEF LoopInv
  <2> QED
    BY <2>1, SweepTwice DEF Result, LoopsAreClosedForms
<1> QED
  BY <1>1, <1>2, PTL

\* A pass of _close_orphaned_children that is followed by another one has closed a claim:
\* over a claim list the loop ends, after at most one pass for each open claim and one
\* more.
THEOREM CascadeTerminates == LoopSpec => []PassesMakeProgress
<1>1. LoopSpec => []LoopInv
  BY LoopInitInv, LoopStepInv, PTL DEF LoopSpec
<1>2. LoopInv => PassesMakeProgress
  BY DEF LoopInv, CascadeLoop, PassesMakeProgress
<1> QED
  BY <1>1, <1>2, PTL

=============================================================================

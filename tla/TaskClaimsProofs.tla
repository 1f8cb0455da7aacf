-------------------------- MODULE TaskClaimsProofs --------------------------
(***************************************************************************)
(* Proofs about the claim store, for every set of claims, agents, requests,*)
(* tokens and clock readings, and any clock skew.                          *)
(*                                                                         *)
(* Every operation is a composition of Close, CloseOrphans, Promote and    *)
(* Put, so each of these gets one lemma per property of a board, and the   *)
(* steps compose them.                                                     *)
(***************************************************************************)
EXTENDS CentralBoard, TLAPS

\* A queued claim still holds the lease length it asked for.
LeaseAhead(cs) == \A c \in Queued(cs) : cs[c].expires > cs[c].started

Good(cs) == Board(cs) /\ LeaseAhead(cs) /\ Exclusive(cs) /\ Inside(cs)

-----------------------------------------------------------------------------
(* Close *)

\* Closing claims leaves every other record alone.
LEMMA CloseRecords ==
    ASSUME NEW cs, Board(cs), NEW C, NEW st \in ClosedStatus
    PROVE  /\ Board(Close(cs, C, st))
           /\ DOMAIN Close(cs, C, st) = DOMAIN cs
           /\ Active(Close(cs, C, st)) = Active(cs) \ C
           /\ Queued(Close(cs, C, st)) = Queued(cs) \ C
           /\ \A c \in DOMAIN cs :
                /\ Close(cs, C, st)[c].task = cs[c].task
                /\ Close(cs, C, st)[c].repo = cs[c].repo
                /\ Close(cs, C, st)[c].scopes = cs[c].scopes
                /\ Close(cs, C, st)[c].parent = cs[c].parent
                /\ Close(cs, C, st)[c].started = cs[c].started
                /\ Close(cs, C, st)[c].expires = cs[c].expires
<1> DEFINE ds == Close(cs, C, st)
<1>1. DOMAIN ds = DOMAIN cs
  BY DEF Close
<1>2. \A c \in DOMAIN cs : cs[c] \in Claim
  BY DEF Board
<1>3. \A c \in DOMAIN cs :
        ds[c] = IF c \in C THEN [cs[c] EXCEPT !.status = st] ELSE cs[c]
  BY DEF Close
<1>4. \A c \in DOMAIN cs :
        /\ ds[c] \in Claim
        /\ ds[c].status = IF c \in C THEN st ELSE cs[c].status
        /\ ds[c].task = cs[c].task /\ ds[c].repo = cs[c].repo
        /\ ds[c].scopes = cs[c].scopes /\ ds[c].parent = cs[c].parent
        /\ ds[c].started = cs[c].started /\ ds[c].expires = cs[c].expires
  <2> SUFFICES ASSUME NEW c \in DOMAIN cs
               PROVE  /\ ds[c] \in Claim
                      /\ ds[c].status = IF c \in C THEN st ELSE cs[c].status
                      /\ ds[c].task = cs[c].task /\ ds[c].repo = cs[c].repo
                      /\ ds[c].scopes = cs[c].scopes /\ ds[c].parent = cs[c].parent
                      /\ ds[c].started = cs[c].started /\ ds[c].expires = cs[c].expires
    OBVIOUS
  <2> QED
    BY <1>2, <1>3 DEF Claim
<1>5. Active(ds) = Active(cs) \ C /\ Queued(ds) = Queued(cs) \ C
  BY <1>1, <1>4 DEF Active, Queued, WithStatus, ClosedStatus
<1>6. ds = [c \in DOMAIN ds |-> ds[c]]
  BY DEF Close
<1>7. Board(ds)
  BY <1>1, <1>4, <1>6 DEF Board
<1> QED
  BY <1>1, <1>4, <1>5, <1>7

\* ... so whatever holds between open claims still does.
LEMMA CloseGood ==
    ASSUME NEW cs, Good(cs), NEW C, NEW st \in ClosedStatus
    PROVE  Good(Close(cs, C, st))
<1> DEFINE ds == Close(cs, C, st)
<1>1. /\ Board(ds) /\ DOMAIN ds = DOMAIN cs
      /\ Active(ds) = Active(cs) \ C /\ Queued(ds) = Queued(cs) \ C
      /\ \A c \in DOMAIN cs :
            /\ ds[c].task = cs[c].task /\ ds[c].repo = cs[c].repo
            /\ ds[c].scopes = cs[c].scopes /\ ds[c].parent = cs[c].parent
            /\ ds[c].started = cs[c].started /\ ds[c].expires = cs[c].expires
  BY CloseRecords DEF Good
<1>2. Active(cs) \subseteq DOMAIN cs /\ Queued(cs) \subseteq DOMAIN cs
  BY DEF Active, Queued, WithStatus
<1> HIDE DEF ds
<1>3. LeaseAhead(ds)
  BY <1>1, <1>2 DEF LeaseAhead, Good
<1>4. Exclusive(ds)
  BY <1>1, <1>2 DEF Exclusive, Good
<1>5. Inside(ds)
  <2> SUFFICES ASSUME NEW c \in Open(ds), ds[c].parent # NoClaim
               PROVE  /\ ds[c].parent \in DOMAIN ds \ {c}
                      /\ ds[c].repo = ds[ds[c].parent].repo
                      /\ ScopesWithin(ds[c].scopes, ds[ds[c].parent].scopes)
    BY DEF Inside
  <2>1. c \in Open(cs) /\ c \in DOMAIN cs
    BY <1>1, <1>2 DEF Open
  <2>2. /\ cs[c].parent \in DOMAIN cs \ {c}
        /\ cs[c].repo = cs[cs[c].parent].repo
        /\ ScopesWithin(cs[c].scopes, cs[cs[c].parent].scopes)
    BY <1>1, <2>1 DEF Inside, Good
  <2> QED
    BY <1>1, <2>1, <2>2
<1> QED
  BY <1>1, <1>3, <1>4, <1>5 DEF Good, ds

\* Closing claims makes no active lease lapse.
LEMMA CloseFresh ==
    ASSUME NEW cs, Board(cs), NEW C, NEW st \in ClosedStatus, NEW t \in Nat,
           Fresh(cs, t)
    PROVE  Fresh(Close(cs, C, st), t)
<1>1. Active(cs) \subseteq DOMAIN cs
  BY DEF Active, WithStatus
<1> QED
  BY <1>1, CloseRecords DEF Fresh

\* Ending the lapsed leases leaves none.
LEMMA CloseLapsed ==
    ASSUME NEW cs, Board(cs), NEW t \in Nat
    PROVE  Fresh(Close(cs, Lapsed(cs, t), "EXPIRED"), t)
<1>1. Active(cs) \subseteq DOMAIN cs
  BY DEF Active, WithStatus
<1>2. \A c \in DOMAIN cs : cs[c].expires \in Nat
  BY DEF Board, Claim
<1>3. "EXPIRED" \in ClosedStatus
  BY DEF ClosedStatus
<1>4. /\ Active(Close(cs, Lapsed(cs, t), "EXPIRED")) = Active(cs) \ Lapsed(cs, t)
      /\ \A c \in DOMAIN cs :
            Close(cs, Lapsed(cs, t), "EXPIRED")[c].expires = cs[c].expires
  BY <1>3, CloseRecords
<1>5. \A c \in Active(cs) \ Lapsed(cs, t) : cs[c].expires > t
  BY <1>1, <1>2 DEF Lapsed
<1> QED
  BY <1>1, <1>4, <1>5 DEF Fresh

\* Closing claims keeps a one-deep board one deep.
LEMMA CloseOneDeep ==
    ASSUME NEW cs, Board(cs), Inside(cs), OneDeep(cs), NEW C, NEW st \in ClosedStatus
    PROVE  OneDeep(Close(cs, C, st))
<1>1. Active(cs) \subseteq DOMAIN cs /\ Active(cs) \subseteq Open(cs)
  BY DEF Active, Open, WithStatus
<1>2. \A c \in Active(cs) : cs[c].parent # NoClaim => cs[c].parent \in DOMAIN cs
  BY <1>1 DEF Inside
<1>3. /\ Active(Close(cs, C, st)) = Active(cs) \ C
      /\ \A c \in DOMAIN cs : Close(cs, C, st)[c].parent = cs[c].parent
  BY CloseRecords
<1> QED
  BY <1>1, <1>2, <1>3 DEF OneDeep

-----------------------------------------------------------------------------
(* The cascade *)

\* The spared claims keep every parent they need.
LEMMA ShelteredClosed ==
    ASSUME NEW cs
    PROVE  Sheltered(cs) \subseteq Open(cs) /\ ParentClosed(cs, Sheltered(cs))
BY DEF Sheltered, ParentClosed

\* After the cascade every open delegated claim has an active parent, whatever
\* the board was before.
LEMMA CascadeHoused ==
    ASSUME NEW cs, Board(cs)
    PROVE  Housed(CloseOrphans(cs))
<1> DEFINE S == Sheltered(cs)
           ds == Close(cs, Open(cs) \ S, "EXPIRED")
<1>1. "EXPIRED" \in ClosedStatus
  BY DEF ClosedStatus
<1>2. /\ Active(ds) = Active(cs) \ (Open(cs) \ S)
      /\ Queued(ds) = Queued(cs) \ (Open(cs) \ S)
      /\ \A c \in DOMAIN cs : ds[c].parent = cs[c].parent
  BY <1>1, CloseRecords
<1>3. Active(cs) \subseteq DOMAIN cs /\ Queued(cs) \subseteq DOMAIN cs
  BY DEF Active, Queued, WithStatus
<1> HIDE DEF ds, S
<1>4. Active(ds) = Active(cs) \cap S /\ Open(ds) \subseteq Open(cs) \cap S
  BY <1>2 DEF Open
<1>5. \A c \in S : cs[c].parent = NoClaim \/ cs[c].parent \in S \cap Active(cs)
  BY ShelteredClosed DEF ParentClosed, S
<1>6. Housed(ds)
  BY <1>2, <1>3, <1>4, <1>5 DEF Housed, Open
<1> QED
  BY <1>6 DEF CloseOrphans, ds, S

-----------------------------------------------------------------------------
(* Promotion *)

LEMMA PromotableQueued == ASSUME NEW cs PROVE Promotable(cs) \subseteq Queued(cs)
BY DEF Promotable

\* Promotion changes the status and the lease of the promoted claims only.
LEMMA PromoteRecords ==
    ASSUME NEW cs, Board(cs), LeaseAhead(cs), NEW t \in Nat
    PROVE  /\ Board(Promote(cs, t))
           /\ DOMAIN Promote(cs, t) = DOMAIN cs
           /\ Active(Promote(cs, t)) = Active(cs) \cup Promotable(cs)
           /\ Queued(Promote(cs, t)) = Queued(cs) \ Promotable(cs)
           /\ \A c \in DOMAIN cs :
                /\ Promote(cs, t)[c].task = cs[c].task
                /\ Promote(cs, t)[c].repo = cs[c].repo
                /\ Promote(cs, t)[c].scopes = cs[c].scopes
                /\ Promote(cs, t)[c].parent = cs[c].parent
                /\ Promote(cs, t)[c].started = cs[c].started
                /\ c \notin Promotable(cs) => Promote(cs, t)[c] = cs[c]
                /\ c \in Promotable(cs) => Promote(cs, t)[c].expires > t
<1> DEFINE P == Promotable(cs)
           ds == Promote(cs, t)
<1>1. DOMAIN ds = DOMAIN cs
  BY DEF Promote
<1>2. \A c \in DOMAIN cs : cs[c] \in Claim
  BY DEF Board
<1>3. P \subseteq Queued(cs) /\ Queued(cs) \subseteq DOMAIN cs
  BY PromotableQueued DEF Queued, WithStatus
<1>4. \A c \in DOMAIN cs :
        ds[c] = IF c \in P
                THEN [cs[c] EXCEPT !.status = "ACTIVE",
                                   !.expires = t + (cs[c].expires - cs[c].started)]
                ELSE cs[c]
  BY DEF Promote
<1> HIDE DEF P
<1>5. ASSUME NEW c \in P
      PROVE  /\ ds[c] \in Claim
             /\ ds[c].status = "ACTIVE"
             /\ ds[c].task = cs[c].task /\ ds[c].repo = cs[c].repo
             /\ ds[c].scopes = cs[c].scopes /\ ds[c].parent = cs[c].parent
             /\ ds[c].started = cs[c].started /\ ds[c].expires > t
  <2> DEFINE new == [cs[c] EXCEPT !.status = "ACTIVE",
                           !.expires = t + (cs[c].expires - cs[c].started)]
  <2>1. c \in DOMAIN cs /\ cs[c] \in Claim /\ cs[c].expires > cs[c].started
    BY <1>2, <1>3 DEF LeaseAhead
  <2>2. cs[c].expires \in Nat /\ cs[c].started \in Nat
    BY <2>1 DEF Claim
  <2>3. t + (cs[c].expires - cs[c].started) \in Nat /\ t + (cs[c].expires - cs[c].started) > t
    BY <2>1, <2>2
  <2>4. new \in Claim /\ new.status = "ACTIVE" /\ new.task = cs[c].task
        /\ new.repo = cs[c].repo /\ new.scopes = cs[c].scopes
        /\ new.parent = cs[c].parent /\ new.started = cs[c].started
        /\ new.expires = t + (cs[c].expires - cs[c].started)
    BY <2>1, <2>3 DEF Claim, OpenStatus
  <2>5. ds[c] = new
    BY <1>4, <2>1
  <2> QED
    BY <2>3, <2>4, <2>5
<1>6. \A c \in DOMAIN cs \ P : ds[c] = cs[c]
  BY <1>4
<1>7. \A c \in DOMAIN cs : ds[c] \in Claim
  BY <1>2, <1>5, <1>6
<1>8. Active(ds) = Active(cs) \cup P /\ Queued(ds) = Queued(cs) \ P
  BY <1>1, <1>3, <1>5, <1>6 DEF Active, Queued, WithStatus
<1>9. ds = [c \in DOMAIN ds |-> ds[c]]
  BY DEF Promote
<1>10. Board(ds)
  BY <1>1, <1>7, <1>9 DEF Board
<1> QED
  BY <1>1, <1>3, <1>5, <1>6, <1>8, <1>10 DEF P

\* The queue is totally ordered.
LEMMA BeforeTotal ==
    ASSUME NEW cs, Board(cs), NEW b \in DOMAIN cs, NEW c \in DOMAIN cs, b # c
    PROVE  Before(cs, b, c) \/ Before(cs, c, b)
<1>1. b \in Nat /\ c \in Nat
  BY ClaimIdAssumption DEF Board
<1>2. cs[b] \in Claim /\ cs[c] \in Claim
  BY DEF Board
<1>3. cs[b].started \in Nat /\ cs[c].started \in Nat
  BY <1>2 DEF Claim
<1> QED
  BY <1>1, <1>3 DEF Before

\* Overlap does not depend on the side one looks from.
LEMMA OverlapSymmetric ==
    ASSUME NEW S, NEW T, ScopesOverlap(S, T)
    PROVE  ScopesOverlap(T, S)
BY DEF ScopesOverlap, PathsOverlap

\* A promoted claim collides with no claim that is active after the promotion:
\* not with one that was, and not with another promoted one, since one of the
\* two was ahead of the other.
LEMMA PromotedCompatible ==
    ASSUME NEW cs, Board(cs), NEW b \in Active(cs) \cup Promotable(cs),
           NEW c \in Promotable(cs), b # c
    PROVE  ~Collides(cs[c], b, cs[b]) \/ ~Collides(cs[b], c, cs[c])
<1>1. Active(cs) \subseteq Open(cs) /\ Queued(cs) \subseteq Open(cs)
      /\ Promotable(cs) \subseteq Queued(cs)
      /\ Active(cs) \cap Queued(cs) = {} /\ Open(cs) \subseteq DOMAIN cs
  BY PromotableQueued DEF Open, Active, Queued, WithStatus
<1>2. CASE b \in Active(cs)
  BY <1>1, <1>2 DEF Promotable
<1>3. CASE b \in Promotable(cs)
  <2>1. Before(cs, b, c) \/ Before(cs, c, b)
    BY <1>1, <1>3, BeforeTotal
  <2> QED
    BY <1>1, <1>3, <2>1 DEF Promotable
<1> QED
  BY <1>2, <1>3

\* Promotion keeps active claims exclusive and delegated claims inside.
LEMMA PromoteGood ==
    ASSUME NEW cs, Good(cs), NEW t \in Nat
    PROVE  Good(Promote(cs, t))
<1> DEFINE ds == Promote(cs, t)
           P == Promotable(cs)
<1>1. /\ Board(ds) /\ DOMAIN ds = DOMAIN cs
      /\ Active(ds) = Active(cs) \cup P /\ Queued(ds) = Queued(cs) \ P
      /\ \A c \in DOMAIN cs :
            /\ ds[c].task = cs[c].task /\ ds[c].repo = cs[c].repo
            /\ ds[c].scopes = cs[c].scopes /\ ds[c].parent = cs[c].parent
            /\ ds[c].started = cs[c].started
            /\ c \notin P => ds[c] = cs[c]
  BY PromoteRecords DEF Good
<1>2. /\ Active(cs) \subseteq DOMAIN cs /\ Queued(cs) \subseteq DOMAIN cs
      /\ P \subseteq Queued(cs)
  BY PromotableQueued DEF Active, Queued, WithStatus
<1>3. \A b \in Active(cs) \cup P, c \in P : b # c =>
        ~Collides(cs[c], b, cs[b]) \/ ~Collides(cs[b], c, cs[c])
  BY PromotedCompatible DEF Good
<1> HIDE DEF ds, P
<1>4. LeaseAhead(ds)
  BY <1>1, <1>2 DEF LeaseAhead, Good
<1>5. Exclusive(ds)
  <2> SUFFICES ASSUME NEW b \in Active(ds), NEW c \in Active(ds), b # c,
                      ds[b].repo = ds[c].repo
               PROVE  /\ ds[b].task # ds[c].task
                      /\ \/ b = ds[c].parent \/ c = ds[b].parent
                         \/ ~ScopesOverlap(ds[b].scopes, ds[c].scopes)
    BY DEF Exclusive
  <2>1. b \in DOMAIN cs /\ c \in DOMAIN cs /\ cs[b].repo = cs[c].repo
    BY <1>1, <1>2
  <2>2. /\ cs[b].task # cs[c].task
        /\ \/ b = cs[c].parent \/ c = cs[b].parent
           \/ ~ScopesOverlap(cs[b].scopes, cs[c].scopes)
    <3>1. CASE b \in Active(cs) /\ c \in Active(cs)
      BY <2>1, <3>1 DEF Good, Exclusive
    <3>2. CASE b \in P \/ c \in P
      <4>1. ~Collides(cs[c], b, cs[b]) \/ ~Collides(cs[b], c, cs[c])
        BY <1>1, <1>3, <3>2
      <4> QED
        BY <2>1, <4>1, OverlapSymmetric DEF Collides
    <3> QED
      BY <1>1, <3>1, <3>2
  <2> QED
    BY <1>1, <2>1, <2>2
<1>6. Inside(ds)
  <2> SUFFICES ASSUME NEW c \in Open(ds), ds[c].parent # NoClaim
               PROVE  /\ ds[c].parent \in DOMAIN ds \ {c}
                      /\ ds[c].repo = ds[ds[c].parent].repo
                      /\ ScopesWithin(ds[c].scopes, ds[ds[c].parent].scopes)
    BY DEF Inside
  <2>1. c \in Open(cs) /\ c \in DOMAIN cs
    BY <1>1, <1>2 DEF Open
  <2>2. /\ cs[c].parent \in DOMAIN cs \ {c}
        /\ cs[c].repo = cs[cs[c].parent].repo
        /\ ScopesWithin(cs[c].scopes, cs[cs[c].parent].scopes)
    BY <1>1, <2>1 DEF Inside, Good
  <2> QED
    BY <1>1, <2>1, <2>2
<1> QED
  BY <1>1, <1>4, <1>5, <1>6 DEF Good, ds

\* A parent that is active stays active.
LEMMA PromoteHoused ==
    ASSUME NEW cs, Good(cs), Housed(cs), NEW t \in Nat
    PROVE  Housed(Promote(cs, t))
<1>1. Open(cs) \subseteq DOMAIN cs /\ Open(Promote(cs, t)) \subseteq Open(cs)
  BY PromoteRecords, PromotableQueued DEF Open, Active, Queued, WithStatus, Good
<1> QED
  BY <1>1, PromoteRecords DEF Housed, Good

\* A promoted claim starts with a full lease.
LEMMA PromoteFresh ==
    ASSUME NEW cs, Good(cs), NEW t \in Nat, Fresh(cs, t)
    PROVE  Fresh(Promote(cs, t), t)
<1>1. Active(cs) \subseteq DOMAIN cs /\ Promotable(cs) \subseteq DOMAIN cs
  BY PromotableQueued DEF Active, Queued, WithStatus
<1> QED
  BY <1>1, PromoteRecords DEF Fresh, Good

\* Who is left in the queue has somebody to wait for.
LEMMA PromoteWaiting ==
    ASSUME NEW cs, Good(cs), NEW t \in Nat
    PROVE  Waiting(Promote(cs, t))
<1> DEFINE ds == Promote(cs, t)
<1>1. /\ DOMAIN ds = DOMAIN cs
      /\ Active(ds) = Active(cs) \cup Promotable(cs)
      /\ Queued(ds) = Queued(cs) \ Promotable(cs)
      /\ \A c \in DOMAIN cs :
            /\ ds[c].task = cs[c].task /\ ds[c].repo = cs[c].repo
            /\ ds[c].scopes = cs[c].scopes /\ ds[c].parent = cs[c].parent
  BY PromoteRecords DEF Good
<1>2. /\ Open(cs) \subseteq DOMAIN cs /\ Queued(cs) \subseteq Open(cs)
      /\ Promotable(cs) \subseteq Queued(cs)
  BY PromotableQueued DEF Open, Active, Queued, WithStatus
<1> HIDE DEF ds
<1>3. Open(ds) = Open(cs)
  BY <1>1, <1>2 DEF Open
<1>4. ASSUME NEW c \in Queued(ds)
      PROVE  \E b \in Open(ds) \ {c} : Collides(ds[c], b, ds[b])
  <2>1. c \in Queued(cs) \ Promotable(cs)
    BY <1>1, <1>4
  <2>2. PICK b \in Open(cs) : b # c /\ Collides(cs[c], b, cs[b])
    BY <2>1 DEF Promotable
  <2>3. b \in DOMAIN cs /\ c \in DOMAIN cs
    BY <1>2, <2>1
  <2>4. Collides(ds[c], b, ds[b])
    BY <1>1, <2>2, <2>3 DEF Collides
  <2> QED
    BY <1>3, <2>2, <2>4
<1> QED
  BY <1>4 DEF Waiting, ds

\* A path under a path under p is under p.
LEMMA CoversTransitive ==
    ASSUME NEW p \in Path, NEW q \in Path, NEW r \in Path,
           Covers(p, q), Covers(q, r)
    PROVE  Covers(p, r)
<1>1. p \in Seq(STRING) /\ q \in Seq(STRING) /\ r \in Seq(STRING)
  BY PathAssumption
<1>2. Len(p) \in Nat /\ Len(q) \in Nat /\ Len(r) \in Nat
  BY <1>1
<1>3. Len(p) <= Len(q) /\ Len(q) <= Len(r)
  BY DEF Covers
<1>4. \A i \in 1..Len(p) : i \in 1..Len(q)
  BY <1>2, <1>3
<1> QED
  BY <1>2, <1>3, <1>4 DEF Covers

\* Scopes two levels down overlap those at the top.
LEMMA GrandchildOverlaps ==
    ASSUME NEW S \in Scopes, NEW T \in Scopes, NEW U \in Scopes,
           ScopesWithin(S, T), ScopesWithin(T, U)
    PROVE  ScopesOverlap(S, U) /\ ScopesOverlap(U, S)
<1>1. PICK p \in S : TRUE
  BY DEF Scopes
<1>2. PICK q \in T : Covers(q, p)
  BY <1>1 DEF ScopesWithin
<1>3. PICK r \in U : Covers(r, q)
  BY <1>2 DEF ScopesWithin
<1>4. p \in Path /\ q \in Path /\ r \in Path
  BY <1>1, <1>2, <1>3 DEF Scopes
<1>5. Covers(r, p)
  BY <1>2, <1>3, <1>4, CoversTransitive
<1> QED
  BY <1>1, <1>3, <1>5 DEF ScopesOverlap, PathsOverlap

\* What a claim with a delegated parent always runs into.
LEMMA CollidesWithGrandparent ==
    ASSUME NEW cs, Board(cs), Inside(cs), NEW p \in Open(cs), cs[p].parent # NoClaim,
           NEW x, x.scopes \in Scopes, x.repo = cs[p].repo, x.parent = p,
           ScopesWithin(x.scopes, cs[p].scopes)
    PROVE  Collides(x, cs[p].parent, cs[cs[p].parent])
<1> DEFINE g == cs[p].parent
<1>1. g \in DOMAIN cs /\ g # p /\ cs[p].repo = cs[g].repo
      /\ ScopesWithin(cs[p].scopes, cs[g].scopes)
  BY DEF Inside
<1>2. p \in DOMAIN cs
  BY DEF Open, Active, Queued, WithStatus
<1>3. cs[p].scopes \in Scopes /\ cs[g].scopes \in Scopes
  BY <1>1, <1>2 DEF Board, Claim
<1>4. ScopesOverlap(x.scopes, cs[g].scopes)
  BY <1>1, <1>3, GrandchildOverlaps
<1> QED
  BY <1>1, <1>4 DEF Collides

\* Promotion never lets a grandchild through.
LEMMA PromoteOneDeep ==
    ASSUME NEW cs, Good(cs), Housed(cs), OneDeep(cs), NEW t \in Nat
    PROVE  OneDeep(Promote(cs, t))
<1>1. /\ Active(Promote(cs, t)) = Active(cs) \cup Promotable(cs)
      /\ \A c \in DOMAIN cs : Promote(cs, t)[c].parent = cs[c].parent
  BY PromoteRecords DEF Good
<1>2. /\ Active(cs) \subseteq Open(cs) /\ Queued(cs) \subseteq Open(cs)
      /\ Open(cs) \subseteq DOMAIN cs /\ Active(cs) \cap Queued(cs) = {}
      /\ Promotable(cs) \subseteq Queued(cs)
  BY PromotableQueued DEF Open, Active, Queued, WithStatus
<1>3. \A c \in Open(cs) : cs[c].parent # NoClaim => cs[c].parent \in Active(cs)
  BY DEF Housed
<1>4. ASSUME NEW c \in Promotable(cs), cs[c].parent # NoClaim,
             cs[cs[c].parent].parent # NoClaim
      PROVE  FALSE
  <2> DEFINE p == cs[c].parent
             g == cs[p].parent
  <2>1. p \in Active(cs) /\ g \in Active(cs)
    BY <1>2, <1>3, <1>4
  <2>2. cs[c].repo = cs[p].repo /\ ScopesWithin(cs[c].scopes, cs[p].scopes)
    BY <1>2, <1>4 DEF Good, Inside
  <2>3. cs[c].scopes \in Scopes
    BY <1>2 DEF Good, Board, Claim
  <2>4. Collides(cs[c], g, cs[g])
    BY <1>2, <1>4, <2>1, <2>2, <2>3, CollidesWithGrandparent DEF Good
  <2> QED
    BY <1>2, <2>1, <2>4 DEF Promotable
<1> QED
  BY <1>1, <1>2, <1>3, <1>4 DEF OneDeep

-----------------------------------------------------------------------------
(* Boards an operation leaves behind *)

Settled(cs, t) ==
    Good(cs) /\ Housed(cs) /\ Fresh(cs, t) /\ OneDeep(cs)

Sound(cs, t) == Settled(cs, t) /\ Waiting(cs)

LEMMA PromoteSound ==
    ASSUME NEW cs, NEW t \in Nat, Settled(cs, t)
    PROVE  Sound(Promote(cs, t), t) /\ DOMAIN Promote(cs, t) = DOMAIN cs
BY PromoteGood, PromoteHoused, PromoteFresh, PromoteOneDeep, PromoteWaiting,
   PromoteRecords DEF Settled, Sound, Good

LEMMA CascadeSettled ==
    ASSUME NEW cs, NEW t \in Nat, Good(cs), Fresh(cs, t), OneDeep(cs)
    PROVE  Settled(CloseOrphans(cs), t) /\ DOMAIN CloseOrphans(cs) = DOMAIN cs
<1>1. "EXPIRED" \in ClosedStatus
  BY DEF ClosedStatus
<1>2. Board(cs) /\ Inside(cs)
  BY DEF Good
<1>3. /\ Good(CloseOrphans(cs)) /\ Fresh(CloseOrphans(cs), t)
      /\ OneDeep(CloseOrphans(cs)) /\ DOMAIN CloseOrphans(cs) = DOMAIN cs
  BY <1>1, <1>2, CloseGood, CloseFresh, CloseOneDeep, CloseRecords DEF CloseOrphans
<1> QED
  BY <1>2, <1>3, CascadeHoused DEF Settled

\* The sweep repairs whatever time did to the board.
LEMMA SweepSound ==
    ASSUME NEW cs, NEW t \in Nat, Good(cs), OneDeep(cs)
    PROVE  Sound(ExpireStale(cs, t), t) /\ DOMAIN ExpireStale(cs, t) = DOMAIN cs
<1> DEFINE ds == Close(cs, Lapsed(cs, t), "EXPIRED")
<1>1. "EXPIRED" \in ClosedStatus /\ Board(cs) /\ Inside(cs)
  BY DEF ClosedStatus, Good
<1>2. Good(ds) /\ OneDeep(ds) /\ Fresh(ds, t) /\ DOMAIN ds = DOMAIN cs
  BY <1>1, CloseGood, CloseOneDeep, CloseLapsed, CloseRecords
<1> HIDE DEF ds
<1>3. Settled(CloseOrphans(ds), t) /\ DOMAIN CloseOrphans(ds) = DOMAIN cs
  BY <1>2, CascadeSettled
<1>4. /\ Sound(Promote(CloseOrphans(ds), t), t)
      /\ DOMAIN Promote(CloseOrphans(ds), t) = DOMAIN cs
  BY <1>3, PromoteSound
<1> QED
  BY <1>4 DEF ExpireStale, ds

\* Closing one claim for good, the cascade, and the queue.
LEMMA ReleaseSound ==
    ASSUME NEW cs, NEW t \in Nat, Sound(cs, t), NEW C, NEW st \in ClosedStatus
    PROVE  /\ Settled(CloseOrphans(Close(cs, C, st)), t)
           /\ Sound(Promote(CloseOrphans(Close(cs, C, st)), t), t)
           /\ DOMAIN CloseOrphans(Close(cs, C, st)) = DOMAIN cs
<1>1. Board(cs) /\ Inside(cs) /\ Good(cs) /\ Fresh(cs, t) /\ OneDeep(cs)
  BY DEF Sound, Settled, Good
<1>2. /\ Good(Close(cs, C, st)) /\ OneDeep(Close(cs, C, st))
      /\ Fresh(Close(cs, C, st), t) /\ DOMAIN Close(cs, C, st) = DOMAIN cs
  BY <1>1, CloseGood, CloseOneDeep, CloseFresh, CloseRecords
<1> QED
  BY <1>2, CascadeSettled, PromoteSound

-----------------------------------------------------------------------------
(* Put *)

LEMMA PutRecords ==
    ASSUME NEW cs, Board(cs), NEW c \in ClaimId, NEW x \in Claim
    PROVE  /\ Board(Put(cs, c, x))
           /\ DOMAIN Put(cs, c, x) = DOMAIN cs \cup {c}
           /\ Put(cs, c, x)[c] = x
           /\ \A b \in DOMAIN cs : b # c => Put(cs, c, x)[b] = cs[b]
<1> DEFINE ds == Put(cs, c, x)
<1>1. DOMAIN ds = DOMAIN cs \cup {c} /\ ds = [b \in DOMAIN ds |-> ds[b]]
  BY DEF Put
<1>2. ds[c] = x /\ \A b \in DOMAIN cs : b # c => ds[b] = cs[b]
  BY DEF Put
<1>3. \A b \in DOMAIN ds : ds[b] \in Claim
  BY <1>1, <1>2 DEF Board
<1>4. Board(ds)
  BY <1>1, <1>3 DEF Board
<1> QED
  BY <1>1, <1>2, <1>4

\* Who is active and who waits once a claim is added.
LEMMA PutNewStatus ==
    ASSUME NEW cs, NEW c, c \notin DOMAIN cs, NEW ds, DOMAIN ds = DOMAIN cs \cup {c},
           \A b \in DOMAIN cs : ds[b] = cs[b]
    PROVE  /\ Active(ds) = IF ds[c].status = "ACTIVE" THEN Active(cs) \cup {c}
                           ELSE Active(cs)
           /\ Queued(ds) = IF ds[c].status = "QUEUED" THEN Queued(cs) \cup {c}
                           ELSE Queued(cs)
<1>1. ASSUME NEW st
      PROVE  WithStatus(ds, st) = IF ds[c].status = st THEN WithStatus(cs, st) \cup {c}
                                  ELSE WithStatus(cs, st)
  <2>1. CASE ds[c].status = st
    BY <2>1 DEF WithStatus
  <2>2. CASE ds[c].status # st
    BY <2>2 DEF WithStatus
  <2> QED
    BY <2>1, <2>2
<1> QED
  BY <1>1 DEF Active, Queued

\* ds is cs with claim c added as x.
Added(cs, c, x, ds) ==
    /\ Board(ds) /\ DOMAIN ds = DOMAIN cs \cup {c} /\ ds[c] = x
    /\ \A b \in DOMAIN cs : ds[b] = cs[b]
    /\ Active(ds) = IF x.status = "ACTIVE" THEN Active(cs) \cup {c} ELSE Active(cs)
    /\ Queued(ds) = IF x.status = "QUEUED" THEN Queued(cs) \cup {c} ELSE Queued(cs)

LEMMA PutNewRecords ==
    ASSUME NEW cs, Board(cs), NEW c \in ClaimId, c \notin DOMAIN cs, NEW x \in Claim
    PROVE  Added(cs, c, x, Put(cs, c, x))
<1> DEFINE ds == Put(cs, c, x)
<1>1. Board(ds)
  BY PutRecords
<1>2. /\ DOMAIN ds = DOMAIN cs \cup {c} /\ ds[c] = x
      /\ \A b \in DOMAIN cs : ds[b] = cs[b]
  BY DEF Put
<1> HIDE DEF ds
<1>3. /\ Active(ds) = IF x.status = "ACTIVE" THEN Active(cs) \cup {c} ELSE Active(cs)
      /\ Queued(ds) = IF x.status = "QUEUED" THEN Queued(cs) \cup {c} ELSE Queued(cs)
  BY <1>2, PutNewStatus
<1> QED
  BY <1>1, <1>2, <1>3 DEF Added, ds

\* The record of a new claim.
LEMMA NewClaimRecord ==
    ASSUME NEW req \in Request, NEW par \in ClaimId \cup {NoClaim},
           NEW st \in OpenStatus, NEW t \in Nat
    PROVE  /\ NewClaim(req, par, st, t) \in Claim
           /\ NewClaim(req, par, st, t).status = st
           /\ NewClaim(req, par, st, t).parent = par
           /\ NewClaim(req, par, st, t).task = req.task
           /\ NewClaim(req, par, st, t).repo = req.repo
           /\ NewClaim(req, par, st, t).scopes = req.scopes
           /\ NewClaim(req, par, st, t).scopes \in Scopes
           /\ NewClaim(req, par, st, t).started = t
           /\ NewClaim(req, par, st, t).expires > t
<1>1. /\ req.task \in Task /\ req.repo \in Repo /\ req.owner \in Owner
      /\ req.scopes \in Scopes /\ req.ttl \in Nat /\ req.ttl > 0
  BY DEF Request
<1>2. t + req.ttl \in Nat /\ t + req.ttl > t
  BY <1>1
<1> QED
  BY <1>1, <1>2 DEF NewClaim, Claim

\* A new claim, active where no active claim is in its way or else queued,
\* leaves a settled board settled.
LEMMA PutNewSettled ==
    ASSUME NEW cs, NEW t \in Nat, Settled(cs, t),
           NEW c \in ClaimId \ DOMAIN cs, NEW x \in Claim,
           x.expires > t, x.started = t, x.status \in OpenStatus,
           x.status = "ACTIVE" =>
                \A b \in Active(cs) : ~Collides(x, b, cs[b]),
           x.parent # NoClaim =>
                /\ x.parent \in Active(cs)
                /\ x.repo = cs[x.parent].repo
                /\ ScopesWithin(x.scopes, cs[x.parent].scopes)
    PROVE  Settled(Put(cs, c, x), t)
<1> DEFINE ds == Put(cs, c, x)
<1>0. Good(cs) /\ Board(cs) /\ LeaseAhead(cs) /\ Exclusive(cs) /\ Inside(cs)
      /\ Housed(cs) /\ Fresh(cs, t) /\ OneDeep(cs)
  BY DEF Settled, Good
<1>1. /\ Board(ds) /\ DOMAIN ds = DOMAIN cs \cup {c} /\ ds[c] = x
      /\ \A b \in DOMAIN cs : ds[b] = cs[b]
      /\ Active(ds) = IF x.status = "ACTIVE" THEN Active(cs) \cup {c} ELSE Active(cs)
      /\ Queued(ds) = IF x.status = "QUEUED" THEN Queued(cs) \cup {c} ELSE Queued(cs)
  <2>1. Added(cs, c, x, ds)
    BY <1>0, PutNewRecords
  <2> QED
    BY <2>1 DEF Added
<1>2. /\ Active(cs) \subseteq DOMAIN cs /\ Queued(cs) \subseteq DOMAIN cs
      /\ Active(cs) \subseteq Open(cs) /\ Open(cs) \subseteq DOMAIN cs
      /\ Open(cs) = Active(cs) \cup Queued(cs)
  BY DEF Open, Active, Queued, WithStatus
<1>3. Open(ds) = Open(cs) \cup {c}
  BY <1>1 DEF Open, OpenStatus
<1> HIDE DEF ds
<1>4. \A b \in Open(cs) : cs[b].parent # NoClaim =>
        cs[b].parent \in Active(cs) /\ cs[b].parent \in DOMAIN cs \ {b}
  BY <1>0 DEF Housed, Inside
<1>5. LeaseAhead(ds)
  BY <1>0, <1>1, <1>2 DEF LeaseAhead
<1>6. Exclusive(ds)
  <2> SUFFICES ASSUME NEW a \in Active(ds), NEW b \in Active(ds), a # b,
                      ds[a].repo = ds[b].repo
               PROVE  /\ ds[a].task # ds[b].task
                      /\ \/ a = ds[b].parent \/ b = ds[a].parent
                         \/ ~ScopesOverlap(ds[a].scopes, ds[b].scopes)
    BY DEF Exclusive
  <2>1. CASE a \in Active(cs) /\ b \in Active(cs)
    BY <1>0, <1>1, <1>2, <2>1 DEF Exclusive
  <2>2. CASE a = c /\ b \in Active(cs)
    <3>1. ~Collides(x, b, cs[b])
      BY <1>1, <1>2, <2>2
    <3> QED
      BY <1>1, <1>2, <2>2, <3>1 DEF Collides
  <2>3. CASE b = c /\ a \in Active(cs)
    <3>1. ~Collides(x, a, cs[a])
      BY <1>1, <1>2, <2>3
    <3>2. ds[a].task # ds[b].task
      BY <1>1, <1>2, <2>3, <3>1 DEF Collides
    <3>3. a = ds[b].parent \/ ~ScopesOverlap(ds[b].scopes, ds[a].scopes)
      BY <1>1, <1>2, <2>3, <3>1 DEF Collides
    <3> QED
      BY <3>2, <3>3, OverlapSymmetric
  <2> QED
    BY <1>1, <2>1, <2>2, <2>3
<1>7. Inside(ds)
  <2>1. \A b \in Open(cs) : cs[b].parent # NoClaim =>
            /\ cs[b].repo = cs[cs[b].parent].repo
            /\ ScopesWithin(cs[b].scopes, cs[cs[b].parent].scopes)
    BY <1>0 DEF Inside
  <2> QED
    BY <1>1, <1>2, <1>3, <1>4, <2>1 DEF Inside
<1>8. Housed(ds)
  BY <1>1, <1>2, <1>3, <1>4 DEF Housed
<1>9. Fresh(ds, t)
  BY <1>0, <1>1, <1>2 DEF Fresh
<1>10. OneDeep(ds)
  <2>1. ASSUME NEW b \in Active(cs), ds[b].parent # NoClaim
        PROVE  ds[ds[b].parent].parent = NoClaim
    BY <1>0, <1>1, <1>2, <1>4, <2>1 DEF OneDeep
  <2>2. ASSUME x.status = "ACTIVE", x.parent # NoClaim,
               cs[x.parent].parent # NoClaim
        PROVE  FALSE
    <3>1. x.parent \in Open(cs) /\ cs[x.parent].parent \in Active(cs)
      BY <1>2, <1>4, <2>2
    <3>2. x.scopes \in Scopes
      BY DEF Claim
    <3>3. Collides(x, cs[x.parent].parent, cs[cs[x.parent].parent])
      BY <1>0, <2>2, <3>1, <3>2, CollidesWithGrandparent
    <3> QED
      BY <2>2, <3>1, <3>3
  <2> QED
    BY <1>1, <1>2, <2>1, <2>2 DEF OneDeep
<1> QED
  BY <1>1, <1>5, <1>6, <1>7, <1>8, <1>9, <1>10 DEF Settled, Good, ds

\* A new claim that found the queue honoured keeps it so.
LEMMA PutNewWaiting ==
    ASSUME NEW cs, Board(cs), Waiting(cs),
           NEW c \in ClaimId \ DOMAIN cs, NEW x \in Claim,
           x.status \in OpenStatus,
           x.status = "QUEUED" => \E b \in Open(cs) : Collides(x, b, cs[b])
    PROVE  Waiting(Put(cs, c, x))
<1> DEFINE ds == Put(cs, c, x)
<1>1. c \notin Active(cs) /\ c \notin Queued(cs)
  BY DEF Active, Queued, WithStatus
<1>2. /\ ds[c] = x /\ \A b \in DOMAIN cs : ds[b] = cs[b]
      /\ Active(ds) = IF x.status = "ACTIVE" THEN Active(cs) \cup {c} ELSE Active(cs)
      /\ Queued(ds) = IF x.status = "QUEUED" THEN Queued(cs) \cup {c} ELSE Queued(cs)
  <2>1. Added(cs, c, x, ds)
    BY PutNewRecords
  <2> QED
    BY <2>1 DEF Added
<1>3. Open(cs) \subseteq DOMAIN cs /\ Queued(cs) \subseteq DOMAIN cs
  BY DEF Open, Active, Queued, WithStatus
<1> HIDE DEF ds
<1>4. Open(cs) \subseteq Open(ds) \ {c}
  BY <1>1, <1>2 DEF Open
<1> QED
  BY <1>2, <1>3, <1>4 DEF Waiting, ds

\* A renewed lease or an attached pull request disturbs nothing.
LEMMA PutSameSound ==
    ASSUME NEW cs, NEW t \in Nat, Sound(cs, t), NEW c \in Open(cs), NEW x \in Claim,
           x.status = cs[c].status, x.task = cs[c].task, x.repo = cs[c].repo,
           x.scopes = cs[c].scopes, x.parent = cs[c].parent,
           x.started = cs[c].started,
           x.expires = cs[c].expires \/ (c \in Active(cs) /\ x.expires > t)
    PROVE  Sound(Put(cs, c, x), t)
<1> DEFINE ds == Put(cs, c, x)
<1>0. Good(cs) /\ Board(cs) /\ LeaseAhead(cs) /\ Exclusive(cs) /\ Inside(cs)
      /\ Housed(cs) /\ Fresh(cs, t) /\ OneDeep(cs) /\ Waiting(cs)
  BY DEF Sound, Settled, Good
<1>1. /\ c \in ClaimId /\ c \in DOMAIN cs /\ Active(cs) \cap Queued(cs) = {}
      /\ Active(cs) \subseteq DOMAIN cs /\ Queued(cs) \subseteq DOMAIN cs
      /\ Open(cs) \subseteq DOMAIN cs
      /\ Active(cs) = {b \in DOMAIN cs : cs[b].status = "ACTIVE"}
      /\ Queued(cs) = {b \in DOMAIN cs : cs[b].status = "QUEUED"}
  BY <1>0 DEF Open, Active, Queued, WithStatus, Board
<1>2. Board(ds)
  BY <1>0, <1>1, PutRecords
<1>3. DOMAIN ds = DOMAIN cs /\ ds[c] = x /\ \A b \in DOMAIN cs : b # c => ds[b] = cs[b]
  BY <1>1 DEF Put
<1>4. \A b \in DOMAIN cs :
        /\ ds[b].status = cs[b].status
        /\ ds[b].task = cs[b].task /\ ds[b].repo = cs[b].repo
        /\ ds[b].scopes = cs[b].scopes /\ ds[b].parent = cs[b].parent
        /\ ds[b].started = cs[b].started
        /\ ds[b].expires = cs[b].expires \/ (b \in Active(cs) /\ ds[b].expires > t)
  <2> HIDE DEF ds
  <2> QED
    BY <1>3
<1> HIDE DEF ds
<1>5. Active(ds) = Active(cs) /\ Queued(ds) = Queued(cs) /\ Open(ds) = Open(cs)
  BY <1>3, <1>4 DEF Open, Active, Queued, WithStatus
<1>6. LeaseAhead(ds)
  BY <1>0, <1>1, <1>4, <1>5 DEF LeaseAhead
<1>7. Exclusive(ds)
  BY <1>0, <1>1, <1>4, <1>5 DEF Exclusive
<1>8. Inside(ds)
  BY <1>0, <1>1, <1>3, <1>4, <1>5 DEF Inside
<1>9. Housed(ds)
  BY <1>0, <1>1, <1>4, <1>5 DEF Housed
<1>10. Fresh(ds, t)
  BY <1>0, <1>1, <1>4, <1>5 DEF Fresh
<1>11. OneDeep(ds)
  <2>1. \A b \in Active(cs) : cs[b].parent # NoClaim => cs[b].parent \in DOMAIN cs
    BY <1>0 DEF Inside, Open
  <2> QED
    BY <1>0, <1>1, <1>4, <1>5, <2>1 DEF OneDeep
<1>12. Waiting(ds)
  <2>1. \A a, b \in Open(cs) :
            Collides(cs[a], b, cs[b]) => Collides(ds[a], b, ds[b])
    BY <1>1, <1>4 DEF Collides
  <2>2. Queued(cs) \subseteq Open(cs)
    BY DEF Open
  <2> QED
    BY <1>0, <1>5, <2>1, <2>2 DEF Waiting
<1> QED
  BY <1>2, <1>6, <1>7, <1>8, <1>9, <1>10, <1>11, <1>12
     DEF Sound, Settled, Good, ds


-----------------------------------------------------------------------------
(* The operations *)

\* What an operation needs of the board it finds ...
Standing == TypeOK /\ Settled(claims, clock)

\* ... and what it leaves behind, whatever the clock read before it.
IInv == TypeOK /\ Sound(claims, clock)

LEMMA SweptSound ==
    ASSUME Standing, NEW t \in Nat
    PROVE  Sound(Swept(t), t) /\ Board(Swept(t)) /\ DOMAIN Swept(t) = DOMAIN claims
<1>1. Good(claims) /\ OneDeep(claims)
  BY DEF Standing, Settled
<1>2. Sound(Swept(t), t) /\ DOMAIN Swept(t) = DOMAIN claims
  BY <1>1, SweepSound DEF Swept
<1> QED
  BY <1>2 DEF Sound, Settled, Good

\* What collides does not depend on whether the newcomer is to be active.
LEMMA CollidesNew ==
    ASSUME NEW req \in Request, NEW par \in ClaimId \cup {NoClaim},
           NEW st \in OpenStatus, NEW t \in Nat, NEW b, NEW y
    PROVE  Collides(NewClaim(req, par, st, t), b, y)
             <=> Collides(NewClaim(req, par, "ACTIVE", t), b, y)
BY DEF Collides, NewClaim

\* A request admitted under a token lies inside its parent's lease.
LEMMA AdmittedInside ==
    ASSUME NEW cs, NEW req \in Request, NEW d \in Delegations \cup {NoClaim},
           NEW t \in Nat, Admissible(cs, req, d, t), ParentOf(d) # NoClaim
    PROVE  /\ ParentOf(d) \in Active(cs)
           /\ req.repo = cs[ParentOf(d)].repo
           /\ ScopesWithin(req.scopes, cs[ParentOf(d)].scopes)
BY DEF ParentOf, Admissible, MayDelegate

LEMMA ParentOfType ==
    ASSUME NEW d \in Delegations \cup {NoClaim}
    PROVE  ParentOf(d) \in ClaimId \cup {NoClaim}
BY InputAssumption DEF ParentOf, Delegation

\* claim() appends an active record where nothing is in its way, and a queued
\* one where something is.
LEMMA AppendSound ==
    ASSUME NEW cs, NEW t \in Nat, Sound(cs, t),
           NEW c \in ClaimId \ DOMAIN cs, NEW req \in Request,
           NEW d \in Delegations \cup {NoClaim}, NEW st \in OpenStatus,
           Admissible(cs, req, d, t),
           st = "ACTIVE" => ConflictsOf(cs, req, d, t) = {},
           st = "QUEUED" => ConflictsOf(cs, req, d, t) # {}
    PROVE  Sound(Put(cs, c, NewClaim(req, ParentOf(d), st, t)), t)
<1> DEFINE x == NewClaim(req, ParentOf(d), st, t)
<1>1. ParentOf(d) \in ClaimId \cup {NoClaim}
  BY ParentOfType
<1>2. /\ x \in Claim /\ x.expires > t /\ x.started = t /\ x.status = st
      /\ x.parent = ParentOf(d) /\ x.repo = req.repo /\ x.scopes = req.scopes
  BY <1>1, NewClaimRecord
<1>3. \A b : b \in ConflictsOf(cs, req, d, t)
                <=> b \in Open(cs) /\ Collides(x, b, cs[b])
  BY <1>1, CollidesNew DEF ConflictsOf, Conflicts
<1>4. x.parent # NoClaim =>
        /\ x.parent \in Active(cs) /\ x.repo = cs[x.parent].repo
        /\ ScopesWithin(x.scopes, cs[x.parent].scopes)
  <2>1. ParentOf(d) # NoClaim =>
            /\ ParentOf(d) \in Active(cs) /\ req.repo = cs[ParentOf(d)].repo
            /\ ScopesWithin(req.scopes, cs[ParentOf(d)].scopes)
    BY AdmittedInside
  <2> HIDE DEF x
  <2> QED
    BY <1>2, <2>1
<1> HIDE DEF x
<1>5. /\ x.status = "ACTIVE" => \A b \in Active(cs) : ~Collides(x, b, cs[b])
      /\ x.status = "QUEUED" => \E b \in Open(cs) : Collides(x, b, cs[b])
  BY <1>2, <1>3 DEF Open
<1>6. Settled(Put(cs, c, x), t)
  BY <1>2, <1>4, <1>5, PutNewSettled DEF Sound
<1>7. Waiting(Put(cs, c, x))
  BY <1>2, <1>5, PutNewWaiting DEF Sound, Settled, Good
<1> QED
  BY <1>6, <1>7 DEF Sound, x

LEMMA AcquireSound ==
    ASSUME Standing, NEW c, NEW req \in Request, NEW d \in Delegations \cup {NoClaim},
           NEW t \in Nat, Acquire(c, req, d, t)
    PROVE  Sound(claims', clock')
<1>1. Sound(Swept(t), t) /\ DOMAIN Swept(t) = DOMAIN claims
  BY SweptSound
<1> QED
  BY <1>1, AppendSound DEF Acquire, Commit, OpenStatus

LEMMA EnqueueSound ==
    ASSUME Standing, NEW c, NEW req \in Request, NEW d \in Delegations \cup {NoClaim},
           NEW t \in Nat, Enqueue(c, req, d, t)
    PROVE  Sound(claims', clock')
<1>1. Sound(Swept(t), t) /\ DOMAIN Swept(t) = DOMAIN claims
  BY SweptSound
<1> QED
  BY <1>1, AppendSound DEF Enqueue, Commit, OpenStatus

\* What closing claims and the cascade leave of the records.
LEMMA CascadeRecords ==
    ASSUME NEW cs, Board(cs), NEW C, NEW st \in ClosedStatus
    PROVE  LET ds == CloseOrphans(Close(cs, C, st))
           IN  /\ DOMAIN ds = DOMAIN cs
               /\ Active(ds) \subseteq Active(cs) \ C
               /\ Open(ds) \subseteq Open(cs) \ C
               /\ \A b \in DOMAIN cs :
                    /\ ds[b].task = cs[b].task /\ ds[b].repo = cs[b].repo
                    /\ ds[b].scopes = cs[b].scopes
<1> DEFINE es == Close(cs, C, st)
           ds == Close(es, Open(es) \ Sheltered(es), "EXPIRED")
<1>1. /\ Board(es) /\ DOMAIN es = DOMAIN cs
      /\ Active(es) = Active(cs) \ C /\ Queued(es) = Queued(cs) \ C
      /\ \A b \in DOMAIN cs :
            /\ es[b].task = cs[b].task /\ es[b].repo = cs[b].repo
            /\ es[b].scopes = cs[b].scopes
  BY CloseRecords
<1>2. "EXPIRED" \in ClosedStatus
  BY DEF ClosedStatus
<1> HIDE DEF es
<1>3. /\ DOMAIN ds = DOMAIN es
      /\ Active(ds) = Active(es) \ (Open(es) \ Sheltered(es))
      /\ Queued(ds) = Queued(es) \ (Open(es) \ Sheltered(es))
      /\ \A b \in DOMAIN es :
            /\ ds[b].task = es[b].task /\ ds[b].repo = es[b].repo
            /\ ds[b].scopes = es[b].scopes
  BY <1>1, <1>2, CloseRecords
<1> HIDE DEF ds
<1>4. /\ DOMAIN ds = DOMAIN cs /\ Active(ds) \subseteq Active(cs) \ C
      /\ Open(ds) \subseteq Open(cs) \ C
      /\ \A b \in DOMAIN cs :
            /\ ds[b].task = cs[b].task /\ ds[b].repo = cs[b].repo
            /\ ds[b].scopes = cs[b].scopes
  BY <1>1, <1>3 DEF Open
<1> QED
  BY <1>4 DEF ds, es, CloseOrphans

LEMMA OverrideSound ==
    ASSUME Standing, NEW c, NEW req \in Request, NEW a \in Approvals,
           NEW t \in Nat, Override(c, req, a, t)
    PROVE  Sound(claims', clock') /\ overrides' \subseteq Nat \X ClaimId
<1> DEFINE cs == Swept(t)
           x == NewClaim(req, NoClaim, "ACTIVE", t)
           active == ConflictsOf(cs, req, NoClaim, t) \cap Active(cs)
<1>1. Sound(cs, t) /\ Board(cs) /\ DOMAIN cs = DOMAIN claims
  BY SweptSound
<1>2. PICK v \in active :
        /\ active = {v}
        /\ claims' = Promote(Put(CloseOrphans(Close(cs, {v}, "OVERRIDDEN")), c, x), t)
        /\ clock' = t
        /\ overrides' = overrides \cup {<<a.id, v>>}
  BY DEF Override, Commit, TakenOver
<1>3. c \in ClaimId \ DOMAIN cs
  BY <1>1 DEF Override
<1>4. /\ x \in Claim /\ x.expires > t /\ x.started = t /\ x.status = "ACTIVE"
      /\ x.parent = NoClaim
  BY NewClaimRecord DEF OpenStatus
<1>5. \A b \in Active(cs) : Collides(x, b, cs[b]) => b = v
  BY <1>2 DEF ConflictsOf, Conflicts, ParentOf, Open
<1>6. v \in ClaimId /\ Active(cs) \subseteq DOMAIN cs
  BY <1>1, <1>2 DEF Active, WithStatus, Board
<1> DEFINE ds == CloseOrphans(Close(cs, {v}, "OVERRIDDEN"))
<1> HIDE DEF cs, x
<1>7. "OVERRIDDEN" \in ClosedStatus
  BY DEF ClosedStatus
<1>8. Settled(ds, t)
  BY <1>1, <1>7, ReleaseSound
<1>9. /\ DOMAIN ds = DOMAIN cs /\ Active(ds) \subseteq Active(cs) \ {v}
      /\ \A b \in DOMAIN cs :
            /\ ds[b].task = cs[b].task /\ ds[b].repo = cs[b].repo
            /\ ds[b].scopes = cs[b].scopes
  BY <1>1, <1>7, CascadeRecords
<1> HIDE DEF ds
<1>10. \A b \in Active(ds) : ~Collides(x, b, ds[b])
  BY <1>5, <1>6, <1>9 DEF Collides
<1>11. Settled(Put(ds, c, x), t)
  BY <1>3, <1>4, <1>8, <1>9, <1>10, PutNewSettled DEF OpenStatus
<1>12. Sound(claims', clock')
  BY <1>2, <1>11, PromoteSound DEF ds
<1>13. a.id \in Nat
  BY InputAssumption DEF Approval
<1> QED
  BY <1>2, <1>6, <1>12, <1>13 DEF Standing, TypeOK

LEMMA ReleaseStepSound ==
    ASSUME Standing, NEW c, NEW o, NEW t \in Nat, Release(c, o, t)
    PROVE  Sound(claims', clock')
<1>1. Sound(Swept(t), t)
  BY SweptSound
<1> QED
  BY <1>1, ReleaseSound DEF Release, Commit, Freed, ClosedStatus

LEMMA HeartbeatSound ==
    ASSUME Standing, NEW c, NEW o, NEW ttl \in HeartbeatTtl, NEW t \in Nat,
           Heartbeat(c, o, ttl, t)
    PROVE  Sound(claims', clock')
<1> DEFINE cs == Swept(t)
           x == [cs[c] EXCEPT !.expires = t + ttl]
<1>1. Sound(cs, t) /\ Board(cs)
  BY SweptSound
<1>2. c \in Active(cs) /\ c \in Open(cs) /\ c \in DOMAIN cs /\ claims' = Put(cs, c, x)
      /\ clock' = t
  BY DEF Heartbeat, Commit, Open, Active, WithStatus
<1> HIDE DEF cs
<1>3. cs[c] \in Claim
  BY <1>1, <1>2 DEF Board
<1>4. ttl \in Nat /\ t + ttl \in Nat /\ t + ttl > t
  BY InputAssumption
<1>5. /\ x \in Claim /\ x.status = cs[c].status /\ x.task = cs[c].task
      /\ x.repo = cs[c].repo /\ x.scopes = cs[c].scopes
      /\ x.parent = cs[c].parent /\ x.started = cs[c].started
      /\ x.expires = t + ttl
  BY <1>3, <1>4 DEF Claim
<1> HIDE DEF x
<1>6. Sound(Put(cs, c, x), t)
  BY <1>1, <1>2, <1>4, <1>5, PutSameSound
<1> QED
  BY <1>2, <1>6

LEMMA AttachPRSound ==
    ASSUME Standing, NEW c, NEW o, NEW pr \in PullRequest, NEW t \in Nat,
           AttachPR(c, o, pr, t)
    PROVE  Sound(claims', clock')
<1> DEFINE cs == Swept(t)
           x == [cs[c] EXCEPT !.pr = pr]
<1>1. Sound(cs, t) /\ Board(cs)
  BY SweptSound
<1>2. c \in Open(cs) /\ c \in DOMAIN cs /\ claims' = Put(cs, c, x) /\ clock' = t
  BY DEF AttachPR, Commit, Open, Active, Queued, WithStatus
<1> HIDE DEF cs
<1>3. cs[c] \in Claim
  BY <1>1, <1>2 DEF Board
<1>4. /\ x \in Claim /\ x.status = cs[c].status /\ x.task = cs[c].task
      /\ x.repo = cs[c].repo /\ x.scopes = cs[c].scopes
      /\ x.parent = cs[c].parent /\ x.started = cs[c].started
      /\ x.expires = cs[c].expires
  BY <1>3 DEF Claim
<1> HIDE DEF x
<1>5. Sound(Put(cs, c, x), t)
  BY <1>1, <1>2, <1>4, PutSameSound
<1> QED
  BY <1>2, <1>5

-----------------------------------------------------------------------------
(* The theorems *)

LEMMA InitSound == Init => IInv
<1> SUFFICES ASSUME Init PROVE IInv
  OBVIOUS
<1>1. DOMAIN claims = {} /\ claims = [c \in {} |-> 0] /\ clock = 0 /\ overrides = {}
  BY DEF Init
<1>2. Active(claims) = {} /\ Queued(claims) = {} /\ Open(claims) = {}
  BY <1>1 DEF Open, Active, Queued, WithStatus
<1>3. Board(claims)
  BY <1>1 DEF Board
<1>4. Good(claims)
  BY <1>2, <1>3 DEF Good, LeaseAhead, Exclusive, Inside
<1>5. Sound(claims, clock)
  BY <1>2, <1>4 DEF Sound, Settled, Housed, Fresh, OneDeep, Waiting
<1> QED
  BY <1>1, <1>3, <1>5 DEF IInv, TypeOK

\* Every operation, at any reading of the clock, leaves a sound board.
LEMMA NextSound == ASSUME Standing, Next PROVE IInv'
<1>1. PICK t \in Time : 
          \/ ListClaims(t)
          \/ \E req \in Requests, d \in Delegations \cup {NoClaim} :
              \/ Refuse(req, d, t)
              \/ \E c \in ClaimId : Acquire(c, req, d, t) \/ Enqueue(c, req, d, t)
          \/ \E c \in ClaimId, req \in Requests, a \in Approvals :
              Override(c, req, a, t)
          \/ \E c \in ClaimId, o \in Owner :
              \/ Release(c, o, t)
              \/ \E ttl \in HeartbeatTtl : Heartbeat(c, o, ttl, t)
              \/ \E pr \in PullRequest : AttachPR(c, o, pr, t)
  BY DEF Next
<1>2. t \in Nat
  BY InputAssumption
<1>3. ASSUME Sound(claims', clock'), clock' = t,
             overrides' = overrides \/ overrides' \subseteq Nat \X ClaimId
      PROVE  IInv'
  <2>1. Board(claims')
    BY <1>3 DEF Sound, Settled, Good
  <2>2. overrides' \subseteq Nat \X ClaimId
    BY <1>3 DEF Standing, TypeOK
  <2> QED
    BY <1>2, <1>3, <2>1, <2>2 DEF IInv, TypeOK
<1>4. CASE ListClaims(t)
  BY <1>2, <1>3, <1>4, SweptSound DEF ListClaims, Commit
<1>5. CASE \E req \in Requests, d \in Delegations \cup {NoClaim} : Refuse(req, d, t)
  BY <1>2, <1>3, <1>5, SweptSound DEF Refuse, Commit
<1>6. ASSUME NEW req \in Requests, NEW d \in Delegations \cup {NoClaim},
             NEW c \in ClaimId, Acquire(c, req, d, t)
      PROVE  IInv'
  <2>1. req \in Request
    BY InputAssumption
  <2>2. Sound(claims', clock')
    BY <1>2, <1>6, <2>1, AcquireSound
  <2> QED
    BY <1>3, <1>6, <2>2 DEF Acquire, Commit
<1>7. ASSUME NEW req \in Requests, NEW d \in Delegations \cup {NoClaim},
             NEW c \in ClaimId, Enqueue(c, req, d, t)
      PROVE  IInv'
  <2>1. req \in Request
    BY InputAssumption
  <2>2. Sound(claims', clock')
    BY <1>2, <1>7, <2>1, EnqueueSound
  <2> QED
    BY <1>3, <1>7, <2>2 DEF Enqueue, Commit
<1>8. ASSUME NEW c \in ClaimId, NEW req \in Requests, NEW a \in Approvals,
             Override(c, req, a, t)
      PROVE  IInv'
  <2>1. req \in Request
    BY InputAssumption
  <2>2. Sound(claims', clock') /\ overrides' \subseteq Nat \X ClaimId
    BY <1>2, <1>8, <2>1, OverrideSound
  <2> QED
    BY <1>3, <1>8, <2>2 DEF Override, Commit
<1>9. ASSUME NEW c \in ClaimId, NEW o \in Owner, Release(c, o, t)
      PROVE  IInv'
  <2>1. Sound(claims', clock')
    BY <1>2, <1>9, ReleaseStepSound
  <2> QED
    BY <1>3, <1>9, <2>1 DEF Release, Commit
<1>10. ASSUME NEW c \in ClaimId, NEW o \in Owner, NEW ttl \in HeartbeatTtl,
              Heartbeat(c, o, ttl, t)
       PROVE  IInv'
  <2>1. Sound(claims', clock')
    BY <1>2, <1>10, HeartbeatSound
  <2> QED
    BY <1>3, <1>10, <2>1 DEF Heartbeat, Commit
<1>11. ASSUME NEW c \in ClaimId, NEW o \in Owner, NEW pr \in PullRequest,
              AttachPR(c, o, pr, t)
       PROVE  IInv'
  <2>1. Sound(claims', clock')
    BY <1>2, <1>11, AttachPRSound
  <2> QED
    BY <1>3, <1>11, <2>1 DEF AttachPR, Commit
<1> QED
  BY <1>1, <1>4, <1>5, <1>6, <1>7, <1>8, <1>9, <1>10, <1>11

LEMMA StepSound == IInv /\ [Next]_vars => IInv'
<1>1. IInv => Standing
  BY DEF IInv, Standing, Sound
<1>2. CASE UNCHANGED vars
  BY <1>2 DEF vars, IInv, TypeOK
<1> QED
  BY <1>1, <1>2, NextSound

\* The board an operation leaves is sound, for any number of claims, agents and
\* repos, any tokens, and a clock that may be stepped back by any amount.
THEOREM Soundness == Spec => []IInv
BY InitSound, StepSound, PTL DEF Spec

\* Records, clock and override log keep their type (TypeOK).
THEOREM TypeCorrect == Spec => []TypeOK
<1>1. IInv => TypeOK
  BY DEF IInv
<1> QED
  BY <1>1, Soundness, PTL

\* Two active claims of a repo never share a task or, unless one is the other's
\* parent, a path (_find_conflicts, through acquisition, promotion, override).
THEOREM Exclusion == Spec => []ActiveExclusive
<1>1. IInv => ActiveExclusive
  BY DEF IInv, Sound, Settled, Good, ActiveExclusive
<1> QED
  BY <1>1, Soundness, PTL

\* A delegated claim is open only inside the lease of an active parent.
THEOREM DelegationStaysInside == Spec => []DelegatedInsideParent
<1>1. IInv => DelegatedInsideParent
  BY DEF IInv, Sound, Settled, Good, DelegatedInsideParent
<1> QED
  BY <1>1, Soundness, PTL

\* No operation leaves an active lease that had run out when it read the clock.
THEOREM NoLapsed == Spec => []NoLapsedLease
<1>1. IInv => NoLapsedLease
  BY DEF IInv, Sound, Settled, NoLapsedLease
<1> QED
  BY <1>1, Soundness, PTL

\* Every queued claim has an open claim it waits for.
THEOREM NoIdleQueue == Spec => []QueueIsBlocked
<1>1. IInv => QueueIsBlocked
  BY DEF IInv, Sound, QueueIsBlocked
<1> QED
  BY <1>1, Soundness, PTL

\* The child of a delegated claim is never active.
THEOREM OneLevel == Spec => []DelegationIsOneDeep
<1>1. IInv => DelegationIsOneDeep
  BY DEF IInv, Sound, Settled, DelegationIsOneDeep
<1> QED
  BY <1>1, Soundness, PTL
-----------------------------------------------------------------------------
(* Closed records *)

\* No record of cs is dropped on the way to ds, and closed ones stay as they are.
Keeps(cs, ds) ==
    \A c \in DOMAIN cs :
        /\ c \in DOMAIN ds
        /\ cs[c].status \in ClosedStatus => ds[c] = cs[c]

LEMMA KeepsTransitive ==
    ASSUME NEW cs, NEW ds, NEW es, Keeps(cs, ds), Keeps(ds, es)
    PROVE  Keeps(cs, es)
BY DEF Keeps

\* Active and queued claims are not closed.
LEMMA OpenNotClosed ==
    ASSUME NEW cs, NEW c \in Open(cs)
    PROVE  c \in DOMAIN cs /\ cs[c].status \notin ClosedStatus
BY DEF Open, Active, Queued, WithStatus, ClosedStatus

LEMMA CloseKeeps ==
    ASSUME NEW cs, NEW C, NEW st, C \subseteq Open(cs)
    PROVE  Keeps(cs, Close(cs, C, st))
<1>1. \A c \in C : cs[c].status \notin ClosedStatus
  BY OpenNotClosed
<1>2. /\ DOMAIN Close(cs, C, st) = DOMAIN cs
      /\ \A c \in DOMAIN cs \ C : Close(cs, C, st)[c] = cs[c]
  BY DEF Close
<1> QED
  BY <1>1, <1>2 DEF Keeps

LEMMA CloseOrphansKeeps == ASSUME NEW cs PROVE Keeps(cs, CloseOrphans(cs))
BY CloseKeeps DEF CloseOrphans

LEMMA PromoteKeeps == ASSUME NEW cs, NEW t PROVE Keeps(cs, Promote(cs, t))
<1>1. \A c \in Promotable(cs) : cs[c].status \notin ClosedStatus
  BY PromotableQueued, OpenNotClosed DEF Open
<1>2. /\ DOMAIN Promote(cs, t) = DOMAIN cs
      /\ \A c \in DOMAIN cs \ Promotable(cs) : Promote(cs, t)[c] = cs[c]
  BY DEF Promote
<1> QED
  BY <1>1, <1>2 DEF Keeps

\* A record is written where there was none, or over an open one.
LEMMA PutKeeps ==
    ASSUME NEW cs, NEW c, NEW x, c \notin DOMAIN cs \/ c \in Open(cs)
    PROVE  Keeps(cs, Put(cs, c, x))
<1>1. c \in DOMAIN cs => cs[c].status \notin ClosedStatus
  BY OpenNotClosed
<1>2. /\ DOMAIN Put(cs, c, x) = DOMAIN cs \cup {c}
      /\ \A b \in DOMAIN cs : b # c => Put(cs, c, x)[b] = cs[b]
  BY DEF Put
<1> QED
  BY <1>1, <1>2 DEF Keeps

LEMMA FreedKeeps ==
    ASSUME NEW cs, NEW c \in Open(cs), NEW st, NEW t
    PROVE  /\ Keeps(cs, CloseOrphans(Close(cs, {c}, st)))
           /\ Keeps(cs, Promote(CloseOrphans(Close(cs, {c}, st)), t))
BY CloseKeeps, CloseOrphansKeeps, PromoteKeeps, KeepsTransitive

\* The board with its lapsed leases ended, as every operation begins.
Ended(t) == Close(claims, Lapsed(claims, t), "EXPIRED")

LEMMA SweptKeeps ==
    ASSUME NEW t
    PROVE  /\ Keeps(claims, Ended(t))
           /\ Keeps(Ended(t), Swept(t))
           /\ DOMAIN Swept(t) = DOMAIN claims
<1>1. Lapsed(claims, t) \subseteq Open(claims)
  BY DEF Lapsed, Open
<1>2. Keeps(claims, Ended(t))
  BY <1>1, CloseKeeps DEF Ended
<1>3. Keeps(Ended(t), CloseOrphans(Ended(t)))
  BY CloseOrphansKeeps
<1>4. Keeps(CloseOrphans(Ended(t)), Swept(t))
  BY PromoteKeeps DEF Swept, ExpireStale, Ended
<1>5. DOMAIN Swept(t) = DOMAIN claims
  BY DEF Swept, ExpireStale, Promote, CloseOrphans, Close
<1> QED
  BY <1>2, <1>3, <1>4, <1>5, KeepsTransitive

\* Whatever an operation does, it keeps what the sweep it begins with closed.
LEMMA NextKeeps ==
    ASSUME Next
    PROVE  \E t \in Time :
                /\ clock' = t
                /\ Keeps(claims, Ended(t)) /\ Keeps(Ended(t), claims')
<1>1. PICK t \in Time :
        \/ ListClaims(t)
        \/ \E req \in Requests, d \in Delegations \cup {NoClaim} :
            \/ Refuse(req, d, t)
            \/ \E c \in ClaimId : Acquire(c, req, d, t) \/ Enqueue(c, req, d, t)
        \/ \E c \in ClaimId, req \in Requests, a \in Approvals :
            Override(c, req, a, t)
        \/ \E c \in ClaimId, o \in Owner :
            \/ Release(c, o, t)
            \/ \E ttl \in HeartbeatTtl : Heartbeat(c, o, ttl, t)
            \/ \E pr \in PullRequest : AttachPR(c, o, pr, t)
  BY DEF Next
<1> DEFINE cs == Swept(t)
<1>2. Keeps(claims, Ended(t)) /\ Keeps(Ended(t), cs) /\ DOMAIN cs = DOMAIN claims
  BY SweptKeeps
<1>3. ASSUME clock' = t, Keeps(cs, claims')
      PROVE  clock' = t /\ Keeps(claims, Ended(t)) /\ Keeps(Ended(t), claims')
  BY <1>2, <1>3, KeepsTransitive
<1>4. Keeps(cs, cs)
  BY DEF Keeps
<1>5. CASE ListClaims(t)
  BY <1>3, <1>4, <1>5 DEF ListClaims, Commit
<1>6. CASE \E req \in Requests, d \in Delegations \cup {NoClaim} : Refuse(req, d, t)
  BY <1>3, <1>4, <1>6 DEF Refuse, Commit
<1>7. ASSUME NEW req \in Requests, NEW d \in Delegations \cup {NoClaim},
             NEW c \in ClaimId, Acquire(c, req, d, t)
      PROVE  clock' = t /\ Keeps(cs, claims')
  BY <1>2, <1>7, PutKeeps DEF Acquire, Commit
<1>8. ASSUME NEW req \in Requests, NEW d \in Delegations \cup {NoClaim},
             NEW c \in ClaimId, Enqueue(c, req, d, t)
      PROVE  clock' = t /\ Keeps(cs, claims')
  BY <1>2, <1>8, PutKeeps DEF Enqueue, Commit
<1>9. ASSUME NEW c \in ClaimId, NEW req \in Requests, NEW a \in Approvals,
             Override(c, req, a, t)
      PROVE  clock' = t /\ Keeps(cs, claims')
  <2> DEFINE x == NewClaim(req, NoClaim, "ACTIVE", t)
  <2>1. PICK v \in Active(cs) :
            claims' = Promote(Put(CloseOrphans(Close(cs, {v}, "OVERRIDDEN")), c, x), t)
    BY <1>9 DEF Override, Commit, TakenOver
  <2> DEFINE ds == CloseOrphans(Close(cs, {v}, "OVERRIDDEN"))
  <2>2. Keeps(cs, ds)
    BY FreedKeeps DEF Open
  <2>3. DOMAIN ds = DOMAIN cs
    BY DEF CloseOrphans, Close
  <2>4. c \notin DOMAIN cs /\ clock' = t
    BY <1>2, <1>9 DEF Override, Commit
  <2> HIDE DEF ds, x, cs
  <2>5. Keeps(ds, Put(ds, c, x))
    BY <2>3, <2>4, PutKeeps
  <2>6. Keeps(cs, claims')
    BY <2>1, <2>2, <2>5, PromoteKeeps, KeepsTransitive DEF ds
  <2> QED
    BY <2>4, <2>6
<1>10. ASSUME NEW c \in ClaimId, NEW o \in Owner, Release(c, o, t)
       PROVE  clock' = t /\ Keeps(cs, claims')
  BY <1>10, FreedKeeps DEF Release, Commit, Freed
<1>11. ASSUME NEW c \in ClaimId, NEW o \in Owner, NEW ttl \in HeartbeatTtl,
              Heartbeat(c, o, ttl, t)
       PROVE  clock' = t /\ Keeps(cs, claims')
  BY <1>11, PutKeeps DEF Heartbeat, Commit, Open
<1>12. ASSUME NEW c \in ClaimId, NEW o \in Owner, NEW pr \in PullRequest,
              AttachPR(c, o, pr, t)
       PROVE  clock' = t /\ Keeps(cs, claims')
  BY <1>12, PutKeeps DEF AttachPR, Commit
<1> HIDE DEF cs
<1> QED
  BY <1>1, <1>3, <1>5, <1>6, <1>7, <1>8, <1>9, <1>10, <1>11, <1>12

\* A closed record never changes and no record is dropped (claims.json is
\* replaced whole by every operation).
THEOREM ClosedForGood == Spec => ClosedIsFinal
<1>1. [Next]_vars =>
        [\A c \in DOMAIN claims :
            /\ c \in DOMAIN claims'
            /\ claims[c].status \in ClosedStatus => claims'[c] = claims[c]]_vars
  <2>1. ASSUME Next PROVE Keeps(claims, claims')
    BY <2>1, NextKeeps, KeepsTransitive
  <2> QED
    BY <2>1 DEF Keeps, vars
<1> QED
  BY <1>1, PTL DEF Spec, ClosedIsFinal

\* What the sweep ended is not active in a board that keeps closed records.
LEMMA EndedStaysEnded ==
    ASSUME TypeOK, NEW t \in Time, Keeps(Ended(t), claims'),
           NEW c \in Active(claims), c \in Active(claims')
    PROVE  claims[c].expires > t
<1>1. t \in Nat /\ c \in DOMAIN claims
  BY InputAssumption DEF Active, WithStatus
<1>2. claims[c].expires \in Nat
  BY <1>1 DEF TypeOK, Board, Claim
<1>3. c \notin Lapsed(claims, t)
  <2> SUFFICES ASSUME c \in Lapsed(claims, t) PROVE FALSE
    OBVIOUS
  <2>1. c \in DOMAIN Ended(t) /\ Ended(t)[c] = [claims[c] EXCEPT !.status = "EXPIRED"]
    BY <1>1 DEF Ended, Close
  <2>2. Ended(t)[c].status = "EXPIRED"
    BY <1>1, <2>1 DEF TypeOK, Board, Claim
  <2>3. claims'[c] = Ended(t)[c]
    BY <2>1, <2>2 DEF Keeps, ClosedStatus
  <2> QED
    BY <2>2, <2>3 DEF Active, WithStatus
<1> QED
  BY <1>1, <1>2, <1>3 DEF Lapsed

\* A claim that stays active had not lapsed when the operation read the clock:
\* no heartbeat, promotion or release brings a lapsed lease back.
THEOREM LateIsTooLate == Spec => LapsedLeaseIsLost
<1>1. TypeOK /\ [Next]_vars =>
        [\A c \in Active(claims) :
            c \in Active(claims') => claims[c].expires > clock']_vars
  BY NextKeeps, EndedStaysEnded DEF vars
<1> QED
  BY <1>1, TypeCorrect, PTL DEF Spec, LapsedLeaseIsLost

-----------------------------------------------------------------------------
(* The order of the queue, and the causes of an expiry *)

\* On the way from cs to ds claims wait, are active and close, in this order, and keep
\* what the queue goes by.
Forward(cs, ds) ==
    \A c \in DOMAIN cs :
        /\ c \in DOMAIN ds
        /\ ds[c].task = cs[c].task /\ ds[c].repo = cs[c].repo
        /\ ds[c].scopes = cs[c].scopes /\ ds[c].parent = cs[c].parent
        /\ ds[c].started = cs[c].started
        /\ c \in Queued(ds) => c \in Queued(cs)
        /\ c \notin Open(cs) => c \notin Open(ds) /\ ds[c].status = cs[c].status

\* ... nobody who was promoted had somebody in the way who was ahead and still waits.
InLine(cs, ds) ==
    \A c \in Queued(cs) \cap Active(ds), b \in Queued(cs) \cap Queued(ds) :
        Before(cs, b, c) => ~Collides(cs[c], b, cs[b])

\* ... and who expired has lost the parent.
Bereft(cs, ds) ==
    \A c \in Open(cs) : ds[c].status = "EXPIRED" =>
        cs[c].parent # NoClaim /\ cs[c].parent \notin Active(ds)

Proceeds(cs, ds) == Forward(cs, ds) /\ InLine(cs, ds) /\ Bereft(cs, ds)

\* A parent of an open claim does not wait.
Parented(cs) ==
    \A c \in Open(cs) : cs[c].parent # NoClaim => cs[c].parent \in DOMAIN cs \ Queued(cs)

LEMMA StatusSets ==
    ASSUME NEW cs
    PROVE  /\ Open(cs) \subseteq DOMAIN cs /\ Active(cs) \cap Queued(cs) = {}
           /\ \A c \in Open(cs) : c \in Active(cs) \/ c \in Queued(cs)
           /\ Active(cs) \subseteq Open(cs) /\ Queued(cs) \subseteq Open(cs)
           /\ \A c \in Open(cs) : cs[c].status # "EXPIRED"
  BY DEF Open, Active, Queued, WithStatus

LEMMA ForwardTransitive ==
    ASSUME NEW cs, NEW ds, NEW es, Forward(cs, ds), Forward(ds, es)
    PROVE  Forward(cs, es)
  BY DEF Forward

LEMMA InLineTransitive ==
    ASSUME NEW cs, NEW ds, NEW es, Forward(cs, ds), Forward(ds, es),
           InLine(cs, ds), InLine(ds, es)
    PROVE  InLine(cs, es)
<1> SUFFICES ASSUME NEW c \in Queued(cs) \cap Active(es), NEW b \in Queued(cs) \cap Queued(es),
                    Before(cs, b, c)
             PROVE  ~Collides(cs[c], b, cs[b])
  BY DEF InLine
<1>1. b \in DOMAIN cs /\ c \in DOMAIN cs /\ c \in Open(es)
  BY StatusSets
<1>2. b \in DOMAIN ds /\ c \in DOMAIN ds /\ b \in Queued(ds) /\ c \in Open(ds)
  BY <1>1 DEF Forward
<1>3. CASE c \in Active(ds)
  BY <1>2, <1>3 DEF InLine
<1>4. CASE c \in Queued(ds)
  <2>1. Before(ds, b, c) /\ (Collides(cs[c], b, cs[b]) <=> Collides(ds[c], b, ds[b]))
    BY <1>1 DEF Forward, Before, Collides
  <2> QED
    BY <1>2, <1>4, <2>1 DEF InLine
<1> QED
  BY <1>2, <1>3, <1>4, StatusSets

\* A parent that has closed stays closed.
LEMMA BereftTransitive ==
    ASSUME NEW cs, Parented(cs), NEW ds, NEW es, Forward(cs, ds), Forward(ds, es),
           Bereft(cs, ds), Bereft(ds, es)
    PROVE  Bereft(cs, es)
<1> SUFFICES ASSUME NEW c \in Open(cs), es[c].status = "EXPIRED"
             PROVE  cs[c].parent # NoClaim /\ cs[c].parent \notin Active(es)
  BY DEF Bereft
<1>1. c \in DOMAIN cs /\ c \in DOMAIN ds /\ ds[c].parent = cs[c].parent
  BY StatusSets DEF Forward
<1>2. CASE c \in Open(ds)
  BY <1>1, <1>2 DEF Bereft
<1>3. CASE c \notin Open(ds)
  <2> DEFINE p == cs[c].parent
  <2>1. ds[c].status = "EXPIRED"
    BY <1>1, <1>3 DEF Forward
  <2>2. p # NoClaim /\ p \notin Active(ds)
    BY <2>1 DEF Bereft
  <2>3. p \in DOMAIN ds /\ p \notin Queued(ds)
    BY <2>2 DEF Parented, Forward
  <2>4. p \notin Open(es)
    BY <2>2, <2>3, StatusSets DEF Forward
  <2> QED
    BY <2>2, <2>4, StatusSets
<1> QED
  BY <1>2, <1>3

LEMMA ProceedsTransitive ==
    ASSUME NEW cs, Parented(cs), NEW ds, NEW es, Proceeds(cs, ds), Proceeds(ds, es)
    PROVE  Proceeds(cs, es)
  BY ForwardTransitive, InLineTransitive, BereftTransitive DEF Proceeds

\* Closing claims moves nobody up.
LEMMA CloseForward ==
    ASSUME NEW cs, Board(cs), NEW C \in SUBSET Open(cs), NEW st \in ClosedStatus
    PROVE  Forward(cs, Close(cs, C, st)) /\ InLine(cs, Close(cs, C, st))
<1> DEFINE ds == Close(cs, C, st)
<1>1. /\ DOMAIN ds = DOMAIN cs
      /\ Active(ds) = Active(cs) \ C /\ Queued(ds) = Queued(cs) \ C
      /\ \A c \in DOMAIN cs :
            /\ ds[c].task = cs[c].task /\ ds[c].repo = cs[c].repo
            /\ ds[c].scopes = cs[c].scopes /\ ds[c].parent = cs[c].parent
            /\ ds[c].started = cs[c].started
  BY CloseRecords
<1>2. \A c \in DOMAIN cs \ C : ds[c] = cs[c]
  BY DEF Close
<1> HIDE DEF ds
<1>3. Forward(cs, ds)
  BY <1>1, <1>2 DEF Forward, Open
<1>4. InLine(cs, ds)
  BY <1>1, StatusSets DEF InLine
<1> QED
  BY <1>3, <1>4 DEF ds

\* A claim that is closed for another reason has not expired.
LEMMA CloseProceeds ==
    ASSUME NEW cs, Board(cs), NEW c \in Open(cs), NEW st \in {"RELEASED", "OVERRIDDEN"}
    PROVE  Proceeds(cs, Close(cs, {c}, st)) /\ Board(Close(cs, {c}, st))
<1> DEFINE ds == Close(cs, {c}, st)
<1>1. st \in ClosedStatus /\ st # "EXPIRED" /\ {c} \in SUBSET Open(cs)
  BY DEF ClosedStatus
<1>2. Forward(cs, ds) /\ InLine(cs, ds) /\ Board(ds)
  BY <1>1, CloseForward, CloseRecords
<1>3. \A b \in Open(cs) : b \in DOMAIN cs /\ cs[b].status # "EXPIRED" /\ cs[b] \in Claim
  BY StatusSets DEF Board
<1>4. \A b \in Open(cs) : ds[b].status # "EXPIRED"
  BY <1>1, <1>3 DEF Close, Claim
<1> QED
  BY <1>2, <1>4 DEF Proceeds, Bereft

\* The cascade takes only claims whose parent is not left: the largest sheltered set
\* has room for every other.
LEMMA CascadeProceeds ==
    ASSUME NEW cs, Board(cs)
    PROVE  Proceeds(cs, CloseOrphans(cs)) /\ Board(CloseOrphans(cs))
<1> DEFINE S == Sheltered(cs)
           ds == CloseOrphans(cs)
<1>1. "EXPIRED" \in ClosedStatus /\ ds = Close(cs, Open(cs) \ S, "EXPIRED")
  BY DEF CloseOrphans, ClosedStatus
<1>2. Forward(cs, ds) /\ InLine(cs, ds)
  BY <1>1, CloseForward
<1>3. Board(ds) /\ Active(ds) = Active(cs) \ (Open(cs) \ S)
  BY <1>1, CloseRecords
<1>4. S \subseteq Open(cs) /\ ParentClosed(cs, S)
  BY ShelteredClosed
<1>5. ASSUME NEW c \in Open(cs), ds[c].status = "EXPIRED"
      PROVE  cs[c].parent # NoClaim /\ cs[c].parent \notin Active(ds)
  <2>1. c \notin S
    <3> SUFFICES ASSUME c \in S PROVE FALSE
      OBVIOUS
    <3>1. c \in DOMAIN cs /\ cs[c].status # "EXPIRED"
      BY StatusSets
    <3>2. ds[c] = cs[c]
      BY <1>1, <3>1 DEF Close
    <3> QED
      BY <1>5, <3>1, <3>2
  <2>2. ASSUME cs[c].parent = NoClaim \/ cs[c].parent \in S \cap Active(cs) PROVE FALSE
    <3>1. ParentClosed(cs, S \cup {c})
      BY <1>4, <2>2 DEF ParentClosed
    <3>2. S \cup {c} \in SUBSET Open(cs)
      BY <1>4
    <3>3. c \in S
      BY <3>1, <3>2 DEF Sheltered
    <3> QED
      BY <2>1, <3>3
  <2> QED
    BY <1>3, <2>2, StatusSets
<1> QED
  BY <1>2, <1>3, <1>5 DEF Proceeds, Bereft

\* Who is promoted has nobody in the way who is ahead, queued or active.
LEMMA PromoteProceeds ==
    ASSUME NEW cs, Board(cs), NEW t
    PROVE  Proceeds(cs, Promote(cs, t))
<1> DEFINE ds == Promote(cs, t)
           P == Promotable(cs)
<1>1. DOMAIN ds = DOMAIN cs /\ P \subseteq Queued(cs)
  BY PromotableQueued DEF Promote
<1>2. \A c \in DOMAIN cs : cs[c] \in Claim
  BY DEF Board
<1>3. \A c \in DOMAIN cs \ P : ds[c] = cs[c]
  BY DEF Promote
<1>4. ASSUME NEW c \in P
      PROVE  /\ ds[c].task = cs[c].task /\ ds[c].repo = cs[c].repo
             /\ ds[c].scopes = cs[c].scopes /\ ds[c].parent = cs[c].parent
             /\ ds[c].started = cs[c].started /\ ds[c].status = "ACTIVE"
  <2>1. c \in DOMAIN cs /\ cs[c] \in Claim
    BY <1>1, <1>2, StatusSets
  <2>2. ds[c] = [cs[c] EXCEPT !.status = "ACTIVE",
                              !.expires = t + (cs[c].expires - cs[c].started)]
    BY <2>1 DEF Promote
  <2> QED
    BY <2>1, <2>2 DEF Claim
<1> HIDE DEF ds
<1>5. /\ \A c \in DOMAIN cs : c \in Queued(ds) => c \in Queued(cs) /\ c \notin P
      /\ \A c \in Queued(cs) : c \in Active(ds) => c \in P
  BY <1>1, <1>3, <1>4 DEF Active, Queued, WithStatus
<1>6. \A c \in DOMAIN cs : c \notin Open(cs) => c \notin Open(ds) /\ ds[c] = cs[c]
  BY <1>1, <1>3, StatusSets DEF Open, Active, Queued, WithStatus
<1>7. Forward(cs, ds)
  BY <1>1, <1>3, <1>4, <1>5, <1>6 DEF Forward
<1>8. InLine(cs, ds)
  <2> SUFFICES ASSUME NEW c \in Queued(cs) \cap Active(ds), NEW b \in Queued(cs) \cap Queued(ds),
                      Before(cs, b, c), Collides(cs[c], b, cs[b])
               PROVE  FALSE
    BY DEF InLine
  <2>1. c \in P /\ b \in Open(cs) /\ b # c
    BY <1>1, <1>5, StatusSets
  <2> QED
    BY <2>1 DEF Promotable
<1>9. Bereft(cs, ds)
  <2>1. \A c \in Open(cs) : ds[c].status # "EXPIRED"
    BY <1>3, <1>4, StatusSets
  <2> QED
    BY <2>1 DEF Bereft
<1> QED
  BY <1>7, <1>8, <1>9 DEF Proceeds, ds

\* A record is added, or replaced by one that only its lease or pull request tells apart.
LEMMA PutProceeds ==
    ASSUME NEW cs, Board(cs), NEW c \in ClaimId, NEW x \in Claim,
           c \in DOMAIN cs => /\ x.status = cs[c].status
                              /\ x.task = cs[c].task /\ x.repo = cs[c].repo
                              /\ x.scopes = cs[c].scopes /\ x.parent = cs[c].parent
                              /\ x.started = cs[c].started
    PROVE  Proceeds(cs, Put(cs, c, x)) /\ Board(Put(cs, c, x))
<1> DEFINE ds == Put(cs, c, x)
<1>1. /\ Board(ds) /\ DOMAIN ds = DOMAIN cs \cup {c} /\ ds[c] = x
      /\ \A b \in DOMAIN cs : b # c => ds[b] = cs[b]
  BY PutRecords
<1> HIDE DEF ds
<1>2. \A b \in DOMAIN cs : ds[b].status = cs[b].status
  BY <1>1
<1>3. \A b \in DOMAIN cs : /\ b \in Queued(ds) <=> b \in Queued(cs)
                           /\ b \in Active(ds) <=> b \in Active(cs)
                           /\ b \in Open(ds) <=> b \in Open(cs)
  BY <1>1, <1>2 DEF Open, Active, Queued, WithStatus
<1>4. Forward(cs, ds)
  BY <1>1, <1>2, <1>3 DEF Forward
<1>5. InLine(cs, ds) /\ Bereft(cs, ds)
  BY <1>2, <1>3, StatusSets DEF InLine, Bereft
<1> QED
  BY <1>1, <1>4, <1>5 DEF Proceeds, ds

LEMMA ProceedsReflexive == ASSUME NEW cs PROVE Proceeds(cs, cs)
  BY StatusSets DEF Proceeds, Forward, InLine, Bereft

LEMMA HousedParented == ASSUME NEW cs, Housed(cs) PROVE Parented(cs)
  BY StatusSets DEF Housed, Parented

\* A claim is closed on a sound board, the cascade follows, and a record may be added
\* before the queue moves up.
LEMMA FreedProceeds ==
    ASSUME NEW cs, Board(cs), Housed(cs), NEW c \in Open(cs),
           NEW st \in {"RELEASED", "OVERRIDDEN"}, NEW t
    PROVE  LET ds == CloseOrphans(Close(cs, {c}, st))
           IN  Proceeds(cs, ds) /\ Board(ds) /\ Proceeds(cs, Promote(ds, t))
<1> DEFINE es == Close(cs, {c}, st)
           ds == CloseOrphans(es)
<1>1. Parented(cs)
  BY HousedParented
<1>2. Proceeds(cs, es) /\ Board(es)
  BY CloseProceeds
<1> HIDE DEF es
<1>3. Proceeds(es, ds) /\ Board(ds)
  BY <1>2, CascadeProceeds
<1> HIDE DEF ds
<1>4. Proceeds(cs, ds)
  BY <1>1, <1>2, <1>3, ProceedsTransitive
<1>5. Proceeds(cs, Promote(ds, t))
  BY <1>1, <1>3, <1>4, PromoteProceeds, ProceedsTransitive
<1> QED
  BY <1>3, <1>4, <1>5 DEF es, ds

LEMMA TakenOverProceeds ==
    ASSUME NEW cs, Board(cs), Housed(cs), NEW v \in Active(cs), NEW c \in ClaimId \ DOMAIN cs,
           NEW req \in Request, NEW t \in Nat
    PROVE  Proceeds(cs, TakenOver(cs, v, c, req, t))
<1> DEFINE x == NewClaim(req, NoClaim, "ACTIVE", t)
           ds == CloseOrphans(Close(cs, {v}, "OVERRIDDEN"))
           es == Put(ds, c, x)
<1>1. x \in Claim
  BY NewClaimRecord DEF OpenStatus
<1>2. Proceeds(cs, ds) /\ Board(ds)
  BY FreedProceeds, StatusSets
<1>3. DOMAIN ds = DOMAIN cs
  BY DEF CloseOrphans, Close
<1> HIDE DEF x, ds
<1>4. Proceeds(ds, es) /\ Board(es)
  BY <1>1, <1>2, <1>3, PutProceeds
<1> HIDE DEF es
<1>5. Proceeds(es, Promote(es, t))
  BY <1>4, PromoteProceeds
<1>6. Proceeds(cs, Promote(es, t))
  BY <1>2, <1>4, <1>5, HousedParented, ProceedsTransitive
<1> QED
  BY <1>6 DEF TakenOver, es, ds, x

\* The sweep that opens an operation, after it has ended the lapsed leases.
LEMMA SweptProceeds ==
    ASSUME Standing, NEW t \in Nat
    PROVE  /\ Forward(claims, Ended(t)) /\ InLine(claims, Ended(t))
           /\ Parented(Ended(t)) /\ Proceeds(Ended(t), Swept(t))
<1> DEFINE es == Ended(t)
           ds == CloseOrphans(es)
<1>1. Board(claims) /\ Housed(claims)
  BY DEF Standing, Settled, Good
<1>2. Lapsed(claims, t) \in SUBSET Open(claims) /\ "EXPIRED" \in ClosedStatus
  BY DEF Lapsed, Open, ClosedStatus
<1>3. Forward(claims, es) /\ InLine(claims, es) /\ Board(es) /\ DOMAIN es = DOMAIN claims
  BY <1>1, <1>2, CloseForward, CloseRecords DEF Ended
<1>4. Swept(t) = Promote(ds, t)
  BY DEF Swept, ExpireStale, Ended
<1> HIDE DEF es
<1>5. Parented(es)
  <2> SUFFICES ASSUME NEW c \in Open(es), es[c].parent # NoClaim
               PROVE  es[c].parent \in DOMAIN es \ Queued(es)
    BY DEF Parented
  <2>1. c \in DOMAIN claims /\ c \in Open(claims) /\ es[c].parent = claims[c].parent
    BY <1>3, StatusSets DEF Forward
  <2>2. claims[c].parent \in Active(claims)
    BY <1>1, <2>1 DEF Housed
  <2>3. claims[c].parent \in DOMAIN claims /\ claims[c].parent \notin Queued(claims)
    BY <2>2, StatusSets
  <2> QED
    BY <1>3, <2>1, <2>3 DEF Forward
<1>6. Proceeds(es, ds) /\ Board(ds)
  BY <1>3, CascadeProceeds
<1> HIDE DEF ds
<1>7. Proceeds(ds, Promote(ds, t))
  BY <1>6, PromoteProceeds
<1>8. Proceeds(es, Swept(t))
  BY <1>4, <1>5, <1>6, <1>7, ProceedsTransitive
<1> QED
  BY <1>3, <1>5, <1>8 DEF es

\* What an operation does on the swept board.
LEMMA ActProceeds ==
    ASSUME Standing, NEW t \in Nat,
           \/ ListClaims(t)
           \/ \E req \in Requests, d \in Delegations \cup {NoClaim} :
                \/ Refuse(req, d, t)
                \/ \E c \in ClaimId : Acquire(c, req, d, t) \/ Enqueue(c, req, d, t)
           \/ \E c \in ClaimId, req \in Requests, a \in Approvals :
                Override(c, req, a, t)
           \/ \E c \in ClaimId, o \in Owner :
                \/ Release(c, o, t)
                \/ \E ttl \in HeartbeatTtl : Heartbeat(c, o, ttl, t)
                \/ \E pr \in PullRequest : AttachPR(c, o, pr, t)
    PROVE  Proceeds(Swept(t), claims')
<1> DEFINE cs == Swept(t)
<1>1. Board(cs) /\ Housed(cs) /\ DOMAIN cs = DOMAIN claims
  BY SweptSound DEF Sound, Settled
<1>2. \A c \in DOMAIN cs : cs[c] \in Claim /\ c \in ClaimId
  BY <1>1 DEF Board
<1>3. CASE claims' = cs
  BY <1>3, ProceedsReflexive
<1>4. ASSUME NEW req \in Requests, NEW d \in Delegations \cup {NoClaim},
             NEW c \in ClaimId, Acquire(c, req, d, t) \/ Enqueue(c, req, d, t)
      PROVE  Proceeds(cs, claims')
  <2>1. PICK st \in OpenStatus : claims' = Put(cs, c, NewClaim(req, ParentOf(d), st, t))
    BY <1>4 DEF Acquire, Enqueue, Commit, OpenStatus
  <2>2. NewClaim(req, ParentOf(d), st, t) \in Claim
    BY InputAssumption, ParentOfType, NewClaimRecord
  <2>3. c \notin DOMAIN cs
    BY <1>1, <1>4 DEF Acquire, Enqueue
  <2> HIDE DEF cs
  <2> QED
    BY <1>1, <2>1, <2>2, <2>3, PutProceeds
<1>5. ASSUME NEW c \in ClaimId, NEW req \in Requests, NEW a \in Approvals,
             Override(c, req, a, t)
      PROVE  Proceeds(cs, claims')
  <2>1. PICK v \in Active(cs) : claims' = TakenOver(cs, v, c, req, t)
    BY <1>5 DEF Override, Commit
  <2>2. c \in ClaimId \ DOMAIN cs /\ req \in Request
    BY <1>1, <1>5, InputAssumption DEF Override
  <2> HIDE DEF cs
  <2> QED
    BY <1>1, <2>1, <2>2, TakenOverProceeds
<1>6. ASSUME NEW c \in ClaimId, NEW o \in Owner, Release(c, o, t)
      PROVE  Proceeds(cs, claims')
  <2>1. c \in Open(cs) /\ claims' = Freed(cs, c, t)
    BY <1>6 DEF Release, Commit
  <2> HIDE DEF cs
  <2> QED
    BY <1>1, <2>1, FreedProceeds DEF Freed
<1>7. ASSUME NEW c \in ClaimId, NEW o \in Owner, NEW ttl \in HeartbeatTtl,
             Heartbeat(c, o, ttl, t)
      PROVE  Proceeds(cs, claims')
  <2>1. c \in DOMAIN cs /\ claims' = Put(cs, c, [cs[c] EXCEPT !.expires = t + ttl])
    BY <1>1, <1>7 DEF Heartbeat, Commit
  <2>2. cs[c] \in Claim /\ t + ttl \in Nat
    BY <1>2, <2>1, InputAssumption
  <2> HIDE DEF cs
  <2>3. [cs[c] EXCEPT !.expires = t + ttl] \in Claim
    BY <2>2 DEF Claim
  <2> QED
    BY <1>1, <2>1, <2>2, <2>3, PutProceeds DEF Claim
<1>8. ASSUME NEW c \in ClaimId, NEW o \in Owner, NEW pr \in PullRequest,
             AttachPR(c, o, pr, t)
      PROVE  Proceeds(cs, claims')
  <2>1. c \in DOMAIN cs /\ claims' = Put(cs, c, [cs[c] EXCEPT !.pr = pr])
    BY <1>1, <1>8 DEF AttachPR, Commit
  <2>2. cs[c] \in Claim
    BY <1>2, <2>1
  <2> HIDE DEF cs
  <2>3. [cs[c] EXCEPT !.pr = pr] \in Claim
    BY <2>2 DEF Claim
  <2> QED
    BY <1>1, <2>1, <2>2, <2>3, PutProceeds DEF Claim
<1> QED
  BY <1>3, <1>4, <1>5, <1>6, <1>7, <1>8 DEF ListClaims, Refuse, Commit

LEMMA NextProceeds ==
    ASSUME Standing, Next
    PROVE  \E t \in Time :
                /\ clock' = t
                /\ Forward(claims, Ended(t)) /\ InLine(claims, Ended(t))
                /\ Proceeds(Ended(t), claims')
<1>1. PICK t \in Time :
        \/ ListClaims(t)
        \/ \E req \in Requests, d \in Delegations \cup {NoClaim} :
            \/ Refuse(req, d, t)
            \/ \E c \in ClaimId : Acquire(c, req, d, t) \/ Enqueue(c, req, d, t)
        \/ \E c \in ClaimId, req \in Requests, a \in Approvals :
            Override(c, req, a, t)
        \/ \E c \in ClaimId, o \in Owner :
            \/ Release(c, o, t)
            \/ \E ttl \in HeartbeatTtl : Heartbeat(c, o, ttl, t)
            \/ \E pr \in PullRequest : AttachPR(c, o, pr, t)
  BY DEF Next
<1>2. t \in Nat
  BY InputAssumption
<1>3. clock' = t
  BY <1>1 DEF ListClaims, Refuse, Acquire, Enqueue, Override, Release, Heartbeat,
              AttachPR, Commit
<1>4. Proceeds(Swept(t), claims')
  BY <1>1, <1>2, ActProceeds
<1>5. Proceeds(Ended(t), claims')
  BY <1>2, <1>4, SweptProceeds, ProceedsTransitive
<1> QED
  BY <1>2, <1>3, <1>5, SweptProceeds

\* The queue is served in its order: whoever is promoted by an operation had nobody in
\* the way who is ahead and still waits (_promote_queued after the sweep, a release or
\* an override; the loop that skips a claim leaves those behind it that it blocks).
THEOREM FirstComesFirst == Spec => FirstInLineFirst
<1>1. IInv /\ [Next]_vars =>
        [\A c \in Queued(claims) \cap Active(claims') :
            \A b \in Queued(claims) \cap Queued(claims') :
                Before(claims, b, c) => ~Collides(claims[c], b, claims[b])]_vars
  <2>1. ASSUME IInv, Next PROVE InLine(claims, claims')
    <3>1. Standing
      BY <2>1 DEF IInv, Standing, Sound
    <3>2. PICK t \in Time : Forward(claims, Ended(t)) /\ InLine(claims, Ended(t))
                            /\ Proceeds(Ended(t), claims')
      BY <2>1, <3>1, NextProceeds
    <3> QED
      BY <3>2, InLineTransitive DEF Proceeds
  <2> QED
    BY <2>1 DEF InLine, vars
<1> QED
  BY <1>1, Soundness, PTL DEF Spec, FirstInLineFirst

\* Who expires on the way from a board through the sweep has a cause.
LEMMA CauseOfExpiry ==
    ASSUME NEW t \in Time, Forward(claims, Ended(t)), Proceeds(Ended(t), claims'),
           NEW c \in Open(claims), claims'[c].status = "EXPIRED"
    PROVE  \/ c \in Active(claims) /\ claims[c].expires <= t
           \/ claims[c].parent # NoClaim /\ claims[c].parent \notin Active(claims')
<1>1. CASE c \in Lapsed(claims, t)
  BY <1>1 DEF Lapsed
<1>2. CASE c \notin Lapsed(claims, t)
  <2>1. c \in DOMAIN claims
    BY StatusSets
  <2>2. c \in DOMAIN Ended(t) /\ Ended(t)[c] = claims[c]
    BY <1>2, <2>1 DEF Ended, Close
  <2>3. c \in Open(Ended(t))
    BY <2>1, <2>2 DEF Open, Active, Queued, WithStatus
  <2> QED
    BY <2>2, <2>3 DEF Proceeds, Bereft
<1> QED
  BY <1>1, <1>2

\* No claim expires without a cause: its own lease had run out, or its parent is no
\* longer active (the sweep takes active leases only, the cascade nobody whose parent
\* stands; a place in the queue never runs out).
THEOREM ExpiryIsCaused == Spec => ExpiryHasACause
<1>1. IInv /\ [Next]_vars =>
        [\A c \in Open(claims) : claims'[c].status = "EXPIRED" =>
            \/ c \in Active(claims) /\ claims[c].expires <= clock'
            \/ claims[c].parent # NoClaim /\ claims[c].parent \notin Active(claims')]_vars
  <2>1. ASSUME IInv, Next, NEW c \in Open(claims), claims'[c].status = "EXPIRED"
        PROVE  \/ c \in Active(claims) /\ claims[c].expires <= clock'
               \/ claims[c].parent # NoClaim /\ claims[c].parent \notin Active(claims')
    <3>1. Standing
      BY <2>1 DEF IInv, Standing, Sound
    <3>2. PICK t \in Time : /\ clock' = t /\ Forward(claims, Ended(t))
                            /\ Proceeds(Ended(t), claims')
      BY <2>1, <3>1, NextProceeds
    <3> QED
      BY <2>1, <3>2, CauseOfExpiry
  <2> QED
    BY <2>1 DEF vars
<1> QED
  BY <1>1, Soundness, PTL DEF Spec, ExpiryHasACause

-----------------------------------------------------------------------------
(* Imports: the shared board keeps what a host's own board keeps, except    *)
(* that an imported queued claim may wait for nothing.  An operation needs  *)
(* only a settled board, and leaves a sound one; an import leaves a settled *)
(* one.                                                                     *)

\* ds is cs with the claims S of ls added as they are.
Merged(cs, ls, S, ds) ==
    /\ Board(ds) /\ DOMAIN ds = DOMAIN cs \cup S
    /\ \A c \in S : ds[c] = ls[c]
    /\ \A c \in DOMAIN cs : ds[c] = cs[c]
    /\ Active(ds) = Active(cs) \cup (S \cap Active(ls))
    /\ Queued(ds) = Queued(cs) \cup (S \cap Queued(ls))

LEMMA MergeRecords ==
    ASSUME NEW cs, Board(cs), NEW ls, Board(ls), NEW t,
           NEW S \in SUBSET Importable(cs, ls, t)
    PROVE  Merged(cs, ls, S, Merge(cs, ls, S))
<1> DEFINE ds == Merge(cs, ls, S)
<1>2. S \subseteq DOMAIN ls \ DOMAIN cs /\ S \subseteq Open(ls)
  BY DEF Importable, Open, Active, Queued, WithStatus
<1>3. /\ DOMAIN ds = DOMAIN cs \cup S /\ ds = [c \in DOMAIN ds |-> ds[c]]
      /\ \A c \in S : ds[c] = ls[c]
      /\ \A c \in DOMAIN cs : ds[c] = cs[c]
  BY <1>2 DEF Merge
<1> HIDE DEF ds
<1>4. Board(ds)
  <2>1. \A c \in DOMAIN ds : ds[c] \in Claim /\ c \in ClaimId
    BY <1>2, <1>3 DEF Board
  <2> QED
    BY <1>3, <2>1 DEF Board
<1>5. ASSUME NEW st
      PROVE  WithStatus(ds, st) = WithStatus(cs, st) \cup (S \cap WithStatus(ls, st))
  BY <1>2, <1>3 DEF WithStatus
<1> QED
  BY <1>3, <1>4, <1>5 DEF Merged, Active, Queued, ds

\* No claim the import keeps collides with the board, nor a later one with an
\* earlier.
LEMMA KeptCompatible ==
    ASSUME NEW cs, Board(cs), NEW ls \in LocalBoards, NEW t,
           NEW S \in SUBSET Importable(cs, ls, t), Kept(cs, ls, t, S), NEW c \in S
    PROVE  /\ \A b \in Open(cs) : ~Collides(ls[c], b, cs[b])
           /\ \A b \in S : Before(ls, b, c) => ~Collides(ls[c], b, ls[b])
           /\ ls[c].parent = NoClaim
           /\ c \in Active(ls) => ls[c].expires > t
BY DEF Kept, Importable, Conflicts, Active, WithStatus

\* A claim without parent that does not collide shares neither task nor path.
LEMMA ApartUndelegated ==
    ASSUME NEW x, NEW b \in ClaimId, NEW y, x.parent = NoClaim,
           x.repo = y.repo, ~Collides(x, b, y)
    PROVE  x.task # y.task /\ ~ScopesOverlap(x.scopes, y.scopes)
BY ClaimIdAssumption DEF Collides

LEMMA MergeExclusive ==
    ASSUME NEW cs, Board(cs), Exclusive(cs), NEW ls \in LocalBoards, NEW t,
           NEW S \in SUBSET Importable(cs, ls, t), Kept(cs, ls, t, S)
    PROVE  Exclusive(Merge(cs, ls, S))
<1> DEFINE ds == Merge(cs, ls, S)
<1>1. /\ Board(ds) /\ DOMAIN ds = DOMAIN cs \cup S
      /\ \A c \in S : ds[c] = ls[c]
      /\ \A c \in DOMAIN cs : ds[c] = cs[c]
      /\ Active(ds) = Active(cs) \cup (S \cap Active(ls))
  <2>1. Merged(cs, ls, S, ds)
    BY MergeRecords, LocalAssumption
  <2> QED
    BY <2>1 DEF Merged
<1>2. /\ Active(cs) \subseteq DOMAIN cs /\ Active(cs) \subseteq Open(cs)
      /\ Board(ls) /\ S \subseteq DOMAIN ls /\ DOMAIN ds \subseteq ClaimId
      /\ DOMAIN ls \subseteq ClaimId
  BY <1>1, LocalAssumption DEF Open, Active, Queued, WithStatus, Board, Importable
<1> HIDE DEF ds
<1> DEFINE Apart(b, c) == /\ ds[b].task # ds[c].task
                          /\ ~ScopesOverlap(ds[b].scopes, ds[c].scopes)
<1>3. ASSUME NEW b \in DOMAIN ds, NEW c \in DOMAIN ds, Apart(b, c)
      PROVE  Apart(c, b)
  BY <1>3, OverlapSymmetric
<1>4. ASSUME NEW c \in S, NEW b \in Active(cs), ds[b].repo = ds[c].repo
      PROVE  Apart(c, b)
  BY <1>1, <1>2, <1>4, KeptCompatible, ApartUndelegated
<1>5. ASSUME NEW c \in S, NEW b \in S, Before(ls, b, c), ds[b].repo = ds[c].repo
      PROVE  Apart(c, b)
  BY <1>1, <1>2, <1>5, KeptCompatible, ApartUndelegated
<1>6. \A b, c \in S : b # c => Before(ls, b, c) \/ Before(ls, c, b)
  BY <1>2, BeforeTotal
<1>7. ASSUME NEW b \in Active(ds), NEW c \in Active(ds), b # c,
             ds[b].repo = ds[c].repo
      PROVE  /\ ds[b].task # ds[c].task
             /\ \/ b = ds[c].parent \/ c = ds[b].parent
                \/ ~ScopesOverlap(ds[b].scopes, ds[c].scopes)
  <2>1. CASE b \in Active(cs) /\ c \in Active(cs)
    BY <1>1, <1>2, <1>7, <2>1 DEF Exclusive
  <2>2. CASE b \in S /\ c \in Active(cs)
    BY <1>4, <1>7, <2>2
  <2>3. CASE b \in Active(cs) /\ c \in S
    BY <1>1, <1>3, <1>4, <1>7, <2>3, <1>2
  <2>4. CASE b \in S /\ c \in S
    BY <1>1, <1>3, <1>5, <1>6, <1>7, <2>4
  <2> QED
    BY <1>1, <2>1, <2>2, <2>3, <2>4
<1> QED
  BY <1>7 DEF Exclusive, ds

LEMMA ImportedSettled ==
    ASSUME NEW cs, NEW t \in Nat, Settled(cs, t), NEW ls \in LocalBoards,
           NEW ds \in Imported(cs, ls, t)
    PROVE  Settled(ds, t)
<1>1. PICK S \in SUBSET Importable(cs, ls, t) :
        Kept(cs, ls, t, S) /\ ds = CloseOrphans(Merge(cs, ls, S))
  BY DEF Imported
<1> DEFINE ms == Merge(cs, ls, S)
<1>2. /\ Good(cs) /\ Board(cs) /\ LeaseAhead(cs) /\ Exclusive(cs) /\ Inside(cs)
      /\ Fresh(cs, t) /\ OneDeep(cs)
  BY DEF Settled, Good
<1>3. /\ Board(ms) /\ DOMAIN ms = DOMAIN cs \cup S
      /\ \A c \in S : ms[c] = ls[c]
      /\ \A c \in DOMAIN cs : ms[c] = cs[c]
      /\ Active(ms) = Active(cs) \cup (S \cap Active(ls))
      /\ Queued(ms) = Queued(cs) \cup (S \cap Queued(ls))
  <2>1. Merged(cs, ls, S, ms)
    BY <1>2, MergeRecords, LocalAssumption
  <2> QED
    BY <2>1 DEF Merged
<1>4. Exclusive(ms)
  BY <1>1, <1>2, MergeExclusive
<1>5. \A c \in S : ls[c].parent = NoClaim /\ (c \in Active(ls) => ls[c].expires > t)
  BY <1>1, <1>2, KeptCompatible
<1>6. /\ Active(cs) \subseteq DOMAIN cs /\ Queued(cs) \subseteq DOMAIN cs
      /\ Open(cs) = Active(cs) \cup Queued(cs) /\ Open(ms) = Active(ms) \cup Queued(ms)
  BY DEF Open, Active, Queued, WithStatus
<1>7. \A c \in Open(cs) : cs[c].parent # NoClaim =>
        /\ cs[c].parent \in DOMAIN cs \ {c}
        /\ cs[c].repo = cs[cs[c].parent].repo
        /\ ScopesWithin(cs[c].scopes, cs[cs[c].parent].scopes)
  BY <1>2 DEF Inside
<1> HIDE DEF ms
<1>8. LeaseAhead(ms)
  BY <1>2, <1>3, <1>6, LocalAssumption DEF LeaseAhead
<1>9. Inside(ms)
  BY <1>3, <1>5, <1>6, <1>7 DEF Inside
<1>10. Fresh(ms, t)
  BY <1>2, <1>3, <1>5, <1>6 DEF Fresh
<1>11. OneDeep(ms)
  BY <1>2, <1>3, <1>5, <1>6, <1>7 DEF OneDeep
<1>12. Settled(CloseOrphans(ms), t)
  BY <1>3, <1>4, <1>8, <1>9, <1>10, <1>11, CascadeSettled DEF Good
<1> QED
  BY <1>1, <1>12 DEF ms

LEMMA ImportStanding ==
    ASSUME Standing, NEW t \in Time, NEW ls \in LocalBoards, Import(ls, t)
    PROVE  Standing'
<1>1. t \in Nat
  BY InputAssumption
<1>2. Settled(Swept(t), t)
  BY <1>1, SweptSound DEF Sound
<1>3. Settled(claims', t) /\ clock' = t /\ overrides' = overrides
  BY <1>1, <1>2, ImportedSettled DEF Import, Commit
<1>4. Board(claims')
  BY <1>3 DEF Settled, Good
<1> QED
  BY <1>1, <1>3, <1>4 DEF Standing, TypeOK

LEMMA StandingInductive ==
    /\ Init => Standing
    /\ Standing /\ [CentralNext]_vars => Standing'
<1>1. IInv => Standing
  BY DEF IInv, Standing, Sound
<1>2. IInv' => Standing'
  BY DEF IInv, Standing, Sound
<1>3. ASSUME Standing, CentralNext PROVE Standing'
  BY <1>2, <1>3, NextSound, ImportStanding DEF CentralNext
<1>4. ASSUME Standing, UNCHANGED vars PROVE Standing'
  BY <1>4 DEF vars, Standing, TypeOK
<1> QED
  BY <1>1, <1>3, <1>4, InitSound

\* Every operation and every import leaves a settled board.
THEOREM CentralStanding == CentralSpec => []Standing
BY StandingInductive, PTL DEF CentralSpec

\* Two active claims of the shared board never share a task or, unless one is
\* the other's parent, a path, wherever they were claimed first
\* (_import_claims: what collides is reported, not merged).
THEOREM CentralExclusion == CentralSpec => []ActiveExclusive
<1>1. Standing => ActiveExclusive
  BY DEF Standing, Settled, Good, ActiveExclusive
<1> QED
  BY <1>1, CentralStanding, PTL

\* No operation, and no import, leaves an active lease that had run out.
THEOREM CentralNoLapsed == CentralSpec => []NoLapsedLease
<1>1. Standing => NoLapsedLease
  BY DEF Standing, Settled, NoLapsedLease
<1> QED
  BY <1>1, CentralStanding, PTL

\* An open delegated claim stays inside the lease of an active parent.
THEOREM CentralDelegation == CentralSpec => []DelegatedInsideParent
<1>1. Standing => DelegatedInsideParent
  BY DEF Standing, Settled, Good, DelegatedInsideParent
<1> QED
  BY <1>1, CentralStanding, PTL

\* An import adds records and closes nobody but orphans.
LEMMA MergeProceeds ==
    ASSUME NEW cs, Board(cs), NEW ls \in LocalBoards, NEW t,
           NEW S \in SUBSET Importable(cs, ls, t)
    PROVE  LET ds == Merge(cs, ls, S)
           IN  Board(ds) /\ Keeps(cs, ds) /\ Proceeds(cs, ds)
<1> DEFINE ds == Merge(cs, ls, S)
<1>1. /\ Board(ds) /\ DOMAIN ds = DOMAIN cs \cup S
      /\ \A c \in DOMAIN cs : ds[c] = cs[c]
      /\ Active(ds) = Active(cs) \cup (S \cap Active(ls))
      /\ Queued(ds) = Queued(cs) \cup (S \cap Queued(ls))
  <2>1. Merged(cs, ls, S, ds)
    BY MergeRecords, LocalAssumption
  <2> QED
    BY <2>1 DEF Merged
<1>2. S \cap DOMAIN cs = {}
  BY DEF Importable
<1> HIDE DEF ds
<1>3. Keeps(cs, ds)
  BY <1>1 DEF Keeps
<1>4. Forward(cs, ds)
  BY <1>1, <1>2 DEF Forward, Open
<1>5. InLine(cs, ds)
  BY <1>1, <1>2, StatusSets DEF InLine
<1>6. Bereft(cs, ds)
  BY <1>1, StatusSets DEF Bereft
<1> QED
  BY <1>1, <1>3, <1>4, <1>5, <1>6 DEF Proceeds, ds

\* An operation or an import proceeds from what the sweep ended.
LEMMA CentralProceeds ==
    ASSUME Standing, CentralNext
    PROVE  \E t \in Time :
                /\ clock' = t
                /\ Keeps(claims, Ended(t)) /\ Keeps(Ended(t), claims')
                /\ Forward(claims, Ended(t)) /\ InLine(claims, Ended(t))
                /\ Proceeds(Ended(t), claims')
<1>1. CASE Next
  <2>1. PICK t \in Time :
            clock' = t /\ Keeps(claims, Ended(t)) /\ Keeps(Ended(t), claims')
    BY <1>1, NextKeeps
  <2>2. PICK u \in Time : /\ clock' = u /\ Proceeds(Ended(u), claims')
                          /\ Forward(claims, Ended(u)) /\ InLine(claims, Ended(u))
    BY <1>1, NextProceeds
  <2> QED
    BY <2>1, <2>2
<1>2. ASSUME NEW t \in Time, NEW ls \in LocalBoards, Import(ls, t)
      PROVE  /\ clock' = t
             /\ Keeps(claims, Ended(t)) /\ Keeps(Ended(t), claims')
             /\ Forward(claims, Ended(t)) /\ InLine(claims, Ended(t))
             /\ Proceeds(Ended(t), claims')
  <2> DEFINE cs == Swept(t)
  <2>1. t \in Nat
    BY InputAssumption
  <2>2. Board(cs) /\ Housed(cs)
    BY <2>1, SweptSound DEF Sound, Settled
  <2>3. /\ Keeps(claims, Ended(t)) /\ Keeps(Ended(t), cs)
        /\ Forward(claims, Ended(t)) /\ InLine(claims, Ended(t))
        /\ Parented(Ended(t)) /\ Proceeds(Ended(t), cs)
    BY <2>1, SweptKeeps, SweptProceeds
  <2>4. PICK S \in SUBSET Importable(cs, ls, t) :
            claims' = CloseOrphans(Merge(cs, ls, S)) /\ clock' = t
    BY <1>2 DEF Import, Imported, Commit
  <2> DEFINE ds == Merge(cs, ls, S)
  <2> HIDE DEF cs
  <2>5. Board(ds) /\ Keeps(cs, ds) /\ Proceeds(cs, ds)
    BY <2>2, MergeProceeds
  <2> HIDE DEF ds
  <2>6. Keeps(ds, claims') /\ Proceeds(ds, claims')
    BY <2>4, <2>5, CloseOrphansKeeps, CascadeProceeds DEF ds
  <2>7. Proceeds(cs, claims') /\ Keeps(cs, claims')
    BY <2>2, <2>5, <2>6, HousedParented, ProceedsTransitive, KeepsTransitive
  <2>8. Proceeds(Ended(t), claims') /\ Keeps(Ended(t), claims')
    BY <2>3, <2>7, ProceedsTransitive, KeepsTransitive
  <2> QED
    BY <2>3, <2>4, <2>8
<1> QED
  BY <1>1, <1>2 DEF CentralNext

\* On the shared board too a closed record never changes and none is dropped, whatever a
\* host's own board has under the same id (_import_claims skips known ids).
THEOREM CentralClosedForGood == CentralSpec => ClosedIsFinal
<1>1. Standing /\ [CentralNext]_vars =>
        [\A c \in DOMAIN claims :
            /\ c \in DOMAIN claims'
            /\ claims[c].status \in ClosedStatus => claims'[c] = claims[c]]_vars
  <2>1. ASSUME Standing, CentralNext PROVE Keeps(claims, claims')
    BY <2>1, CentralProceeds, KeepsTransitive
  <2> QED
    BY <2>1 DEF Keeps, vars
<1> QED
  BY <1>1, CentralStanding, PTL DEF CentralSpec, ClosedIsFinal

\* ... no import brings a lapsed lease back.
THEOREM CentralLateIsTooLate == CentralSpec => LapsedLeaseIsLost
<1>1. Standing /\ [CentralNext]_vars =>
        [\A c \in Active(claims) :
            c \in Active(claims') => claims[c].expires > clock']_vars
  BY CentralProceeds, EndedStaysEnded DEF vars, Standing
<1> QED
  BY <1>1, CentralStanding, PTL DEF CentralSpec, LapsedLeaseIsLost

\* ... nobody is promoted past an earlier claim of the board that is in the way, and an
\* import promotes nobody (_import_claims ends with the cascade alone).
THEOREM CentralFirstComesFirst == CentralSpec => FirstInLineFirst
<1>1. Standing /\ [CentralNext]_vars =>
        [\A c \in Queued(claims) \cap Active(claims') :
            \A b \in Queued(claims) \cap Queued(claims') :
                Before(claims, b, c) => ~Collides(claims[c], b, claims[b])]_vars
  <2>1. ASSUME Standing, CentralNext PROVE InLine(claims, claims')
    BY <2>1, CentralProceeds, InLineTransitive DEF Proceeds
  <2> QED
    BY <2>1 DEF InLine, vars
<1> QED
  BY <1>1, CentralStanding, PTL DEF CentralSpec, FirstInLineFirst

\* ... and a claim expires only when its lease ran out or its parent closed.
THEOREM CentralExpiryIsCaused == CentralSpec => ExpiryHasACause
<1>1. Standing /\ [CentralNext]_vars =>
        [\A c \in Open(claims) : claims'[c].status = "EXPIRED" =>
            \/ c \in Active(claims) /\ claims[c].expires <= clock'
            \/ claims[c].parent # NoClaim /\ claims[c].parent \notin Active(claims')]_vars
  <2>1. ASSUME Standing, CentralNext, NEW c \in Open(claims), claims'[c].status = "EXPIRED"
        PROVE  \/ c \in Active(claims) /\ claims[c].expires <= clock'
               \/ claims[c].parent # NoClaim /\ claims[c].parent \notin Active(claims')
    BY <2>1, CentralProceeds, CauseOfExpiry
  <2> QED
    BY <2>1 DEF vars
<1> QED
  BY <1>1, CentralStanding, PTL DEF CentralSpec, ExpiryHasACause
=============================================================================

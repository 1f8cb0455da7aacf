------------------------- MODULE CentralStoreProofs -------------------------
(***************************************************************************)
(* The protocol of CentralStore implements CentralBoard: for any number of *)
(* hosts, calls and attempts, and however pushes are lost, delayed or      *)
(* rejected, the branch changes as if every operation were one step.       *)
(*                                                                         *)
(* A commit may lie about for any time before the remote takes it.  What   *)
(* makes it right then is that its parent still is the branch's last       *)
(* commit: the board it was computed from is the board it replaces.        *)
(* From the refinement the branch inherits the theorems of TaskClaimsProofs*)
(* about CentralBoard, through an instance of that module on the branch.   *)
(***************************************************************************)
EXTENDS CentralStore, TLAPS

\* Work that some operation may do on the branch r.
Possible(r, w) ==
    \E op \in Ops, t \in Time :
        /\ t + ClockSkew >= r.clock
        /\ w \in WorkOn(r, op, t, ClaimId \ DOMAIN r.board)

\* A commit was computed from an earlier branch, or from r.
Based(r, base, w) ==
    /\ base \in Nat /\ base <= r.num
    /\ base = r.num => Possible(r, w)

CInv ==
    /\ ref.num \in Nat
    /\ host = [h \in Host |-> host[h]]
    /\ \A h \in Host :
            /\ "pc" \in DOMAIN host[h]
            /\ host[h].pc = "push" => Based(ref, host[h].base, host[h].work)
    /\ \A p \in flight : Based(ref, p.base, p.work)

\* More unused ids, more outcomes.
LEMMA OutcomesMonotone ==
    ASSUME NEW op \in Ops, NEW cs, NEW ov, NEW t, NEW ids, NEW more, ids \subseteq more,
           NEW w \in Outcomes(op, cs, ov, t, ids)
    PROVE  w \in Outcomes(op, cs, ov, t, more)
<1>0. Operation(op)
  BY OpsAssumption
<1>1. CASE op.kind = "claim"
  <2>1. w \in ClaimWork(op, cs, ov, t, ids)
    BY <1>1 DEF Outcomes
  <2>2. w \in ClaimWork(op, cs, ov, t, more)
    BY <2>1 DEF ClaimWork
  <2> QED
    BY <1>1, <2>2 DEF Outcomes
<1>2. CASE op.kind = "override"
  <2>1. w \in OverrideWork(op, cs, ov, t, ids)
    BY <1>2 DEF Outcomes
  <2>2. w \in OverrideWork(op, cs, ov, t, more)
    BY <2>1 DEF OverrideWork
  <2> QED
    BY <1>2, <2>2 DEF Outcomes
<1>3. CASE op.kind \notin {"claim", "override"}
  BY <1>0, <1>3 DEF Outcomes, Operation
<1> QED
  BY <1>1, <1>2, <1>3

-----------------------------------------------------------------------------
(* The branch moves as an operation on the board would *)

\* What Advance does to the board's variables.
Writes(w) ==
    /\ (ref.board)' = w.board
    /\ (ref.clock)' = w.clock
    /\ (ref.overrides)' = w.overrides

LEMMA AdvanceWrites ==
    ASSUME NEW call, NEW w, Advance(call, w)
    PROVE  Writes(w)
BY DEF Advance, Writes

LEMMA WorkFields ==
    ASSUME NEW b, NEW t, NEW ov, NEW c
    PROVE  /\ Work(b, t, ov, c).board = b
           /\ Work(b, t, ov, c).clock = t
           /\ Work(b, t, ov, c).overrides = ov
BY DEF Work

LEMMA ClaimStep ==
    ASSUME NEW t \in Time, t + ClockSkew >= ref.clock, NEW op, op.req \in Requests,
           op.token \in Delegations \cup {NoClaim},
           NEW w \in ClaimWork(op, B!ExpireStale(ref.board, t), ref.overrides, t,
                               ClaimId \ DOMAIN ref.board),
           Writes(w)
    PROVE  B!CentralNext
<1> DEFINE cs == B!ExpireStale(ref.board, t)
           ids == ClaimId \ DOMAIN ref.board
           rival == B!ConflictsOf(cs, op.req, op.token, t)
           st == IF rival = {} THEN "ACTIVE" ELSE "QUEUED"
           x == B!NewClaim(op.req, B!ParentOf(op.token), st, t)
<1>1. /\ B!Admissible(cs, op.req, op.token, t)
      /\ \/ rival # {} /\ w = Work(cs, t, ref.overrides, NoClaim)
         \/ \E c \in ids : w = Work(B!Put(cs, c, x), t, ref.overrides, c)
  BY DEF ClaimWork
<1>2. CASE rival # {} /\ w = Work(cs, t, ref.overrides, NoClaim)
  <2>1. /\ (ref.board)' = cs /\ (ref.clock)' = t
        /\ (ref.overrides)' = ref.overrides
    BY <1>2, WorkFields DEF Writes
  <2>2. B!Refuse(op.req, op.token, t)
    BY <1>1, <1>2, <2>1 DEF B!Refuse, B!Reads, B!Commit, B!Swept
  <2> QED
    BY <2>2 DEF B!CentralNext, B!Next
<1>3. ASSUME NEW c \in ids, w = Work(B!Put(cs, c, x), t, ref.overrides, c)
      PROVE  B!CentralNext
  <2>1. /\ (ref.board)' = B!Put(cs, c, x) /\ (ref.clock)' = t
        /\ (ref.overrides)' = ref.overrides
    BY <1>3, WorkFields DEF Writes
  <2>2. CASE rival = {}
    <3>1. B!Acquire(c, op.req, op.token, t)
      BY <1>1, <2>1, <2>2 DEF B!Acquire, B!Reads, B!Commit, B!Swept
    <3> QED
      BY <3>1 DEF B!CentralNext, B!Next
  <2>3. CASE rival # {}
    <3>1. B!Enqueue(c, op.req, op.token, t)
      BY <1>1, <2>1, <2>3 DEF B!Enqueue, B!Reads, B!Commit, B!Swept
    <3> QED
      BY <3>1 DEF B!CentralNext, B!Next
  <2> QED
    BY <2>2, <2>3
<1> QED
  BY <1>1, <1>2, <1>3

LEMMA OverrideStep ==
    ASSUME NEW t \in Time, t + ClockSkew >= ref.clock, NEW op, op.req \in Requests,
           op.approval \in Approvals,
           NEW w \in OverrideWork(op, B!ExpireStale(ref.board, t), ref.overrides, t,
                                  ClaimId \ DOMAIN ref.board),
           Writes(w)
    PROVE  B!CentralNext
<1> DEFINE cs == B!ExpireStale(ref.board, t)
           active == B!ConflictsOf(cs, op.req, NoClaim, t) \cap B!Active(cs)
<1>1. PICK v \in active, c \in ClaimId \ DOMAIN ref.board :
        /\ active = {v}
        /\ B!ApprovalVerifies(op.approval, op.req.task, cs[v].owner, op.req.owner, t)
        /\ w = Work(B!TakenOver(cs, v, c, op.req, t), t,
                    ref.overrides \cup {<<op.approval.id, v>>}, c)
  BY DEF OverrideWork
<1>2. /\ (ref.board)' = B!TakenOver(cs, v, c, op.req, t) /\ (ref.clock)' = t
      /\ (ref.overrides)' = ref.overrides \cup {<<op.approval.id, v>>}
  BY <1>1, WorkFields DEF Writes
<1>3. B!Override(c, op.req, op.approval, t)
  BY <1>1, <1>2 DEF B!Override, B!Reads, B!Commit, B!Swept
<1> QED
  BY <1>3 DEF B!CentralNext, B!Next

LEMMA OwnerStep ==
    ASSUME NEW t \in Time, t + ClockSkew >= ref.clock, NEW op, op.claim \in ClaimId,
           op.owner \in Owner, Operation(op),
           op.kind \in {"heartbeat", "release", "attach"},
           NEW w \in WorkOn(ref, op, t, ClaimId \ DOMAIN ref.board),
           Writes(w)
    PROVE  B!CentralNext
<1> DEFINE cs == B!ExpireStale(ref.board, t)
           Done(b) == Work(b, t, ref.overrides, NoClaim)
<1>1. ASSUME NEW S, NEW b, w \in OwnerWork(op, cs, S, Done(b))
      PROVE  /\ op.claim \in S /\ cs[op.claim].owner = op.owner
             /\ (ref.board)' = b /\ (ref.clock)' = t
             /\ (ref.overrides)' = ref.overrides
  BY <1>1, WorkFields DEF OwnerWork, Writes
<1>2. DOMAIN cs = DOMAIN ref.board
  BY DEF B!ExpireStale, B!Promote, B!CloseOrphans, B!Close
<1>3. /\ B!Active(cs) \subseteq DOMAIN cs /\ B!Open(cs) \subseteq DOMAIN cs
  BY DEF B!Open, B!Active, B!Queued, B!WithStatus
<1>4. CASE op.kind = "heartbeat"
  <2>1. /\ op.ttl \in HeartbeatTtl
        /\ w \in OwnerWork(op, cs, B!Active(cs),
                Done(B!Put(cs, op.claim, [cs[op.claim] EXCEPT !.expires = t + op.ttl])))
    BY <1>4 DEF WorkOn, Outcomes, Operation
  <2>2. B!Heartbeat(op.claim, op.owner, op.ttl, t)
    BY <1>1, <1>2, <1>3, <2>1 DEF B!Heartbeat, B!Reads, B!Commit, B!Swept
  <2> QED
    BY <2>1, <2>2 DEF B!CentralNext, B!Next
<1>5. CASE op.kind = "release"
  <2>1. w \in OwnerWork(op, cs, B!Open(cs), Done(B!Freed(cs, op.claim, t)))
    BY <1>5 DEF WorkOn, Outcomes
  <2>2. B!Release(op.claim, op.owner, t)
    BY <1>1, <1>2, <1>3, <2>1 DEF B!Release, B!Reads, B!Commit, B!Swept
  <2> QED
    BY <2>2 DEF B!CentralNext, B!Next
<1>6. CASE op.kind = "attach"
  <2>1. /\ op.pr \in PullRequest
        /\ w \in OwnerWork(op, cs, B!Open(cs),
                Done(B!Put(cs, op.claim, [cs[op.claim] EXCEPT !.pr = op.pr])))
    BY <1>6 DEF WorkOn, Outcomes, Operation
  <2>2. B!AttachPR(op.claim, op.owner, op.pr, t)
    BY <1>1, <1>2, <1>3, <2>1 DEF B!AttachPR, B!Reads, B!Commit, B!Swept
  <2> QED
    BY <2>1, <2>2 DEF B!CentralNext, B!Next
<1> QED
  BY <1>4, <1>5, <1>6

\* A commit on the board it was computed from is one operation on it.
LEMMA PossibleStep ==
    ASSUME NEW w, Possible(ref, w), NEW call, Advance(call, w)
    PROVE  B!CentralNext
<1>1. PICK op \in Ops, t \in Time :
        /\ t + ClockSkew >= ref.clock
        /\ w \in WorkOn(ref, op, t, ClaimId \ DOMAIN ref.board)
  BY DEF Possible
<1>2. Operation(op) /\ Writes(w)
  BY OpsAssumption, AdvanceWrites
<1>3. CASE op.kind = "list"
  <2>1. w = Work(B!ExpireStale(ref.board, t), t, ref.overrides, NoClaim)
    BY <1>1, <1>3 DEF WorkOn, Outcomes
  <2>2. B!ListClaims(t)
    BY <1>1, <1>2, <2>1, WorkFields DEF Writes, B!ListClaims, B!Reads, B!Commit, B!Swept
  <2> QED
    BY <2>2 DEF B!CentralNext, B!Next
<1>4. CASE op.kind = "claim"
  <2>1. w \in ClaimWork(op, B!ExpireStale(ref.board, t), ref.overrides, t, ClaimId \ DOMAIN ref.board)
    BY <1>1, <1>4 DEF WorkOn, Outcomes
  <2> QED
    BY <1>1, <1>2, <1>4, <2>1, ClaimStep DEF Operation
<1>5. CASE op.kind = "override"
  <2>1. w \in OverrideWork(op, B!ExpireStale(ref.board, t), ref.overrides, t,
                           ClaimId \ DOMAIN ref.board)
    BY <1>1, <1>5 DEF WorkOn, Outcomes
  <2> QED
    BY <1>1, <1>2, <1>5, <2>1, OverrideStep DEF Operation
<1>6. CASE op.kind \in {"heartbeat", "release", "attach"}
  <2>1. op.claim \in ClaimId /\ op.owner \in Owner
    BY <1>2, <1>6 DEF Operation
  <2> QED
    BY <1>1, <1>2, <1>6, <2>1, OwnerStep
<1>7. CASE op.kind = "import"
  <2>1. PICK b \in B!Imported(B!ExpireStale(ref.board, t), op.local, t) :
            w = Work(b, t, ref.overrides, NoClaim)
    BY <1>1, <1>7 DEF WorkOn, Outcomes
  <2>2. /\ (ref.board)' = b /\ (ref.clock)' = t /\ (ref.overrides)' = ref.overrides
    BY <1>2, <2>1, WorkFields DEF Writes
  <2>3. B!Import(op.local, t)
    BY <1>1, <2>1, <2>2 DEF B!Import, B!Reads, B!Commit, B!Swept
  <2>4. op.local \in LocalBoards
    BY <1>2, <1>7 DEF Operation
  <2> QED
    BY <2>3, <2>4 DEF B!CentralNext
<1> QED
  BY <1>2, <1>3, <1>4, <1>5, <1>6, <1>7 DEF Operation

-----------------------------------------------------------------------------
(* The invariant of the protocol *)

\* What is about on one branch is about on the next: its parent is older now.
LEMMA BasedLater ==
    ASSUME NEW r, NEW q, r.num \in Nat, q.num = r.num + 1, NEW base, NEW w,
           Based(r, base, w)
    PROVE  Based(q, base, w)
BY DEF Based

LEMMA CInit == Init => CInv
BY DEF Init, CInv, Idle, NoWork

\* A call's commit reaches the branch, and nothing else changes what is about.
LEMMA AdvanceCInv ==
    ASSUME CInv, NEW call, NEW w, Advance(call, w)
    PROVE  /\ ref'.num \in Nat
           /\ \A base, v : Based(ref, base, v) => Based(ref', base, v)
<1>1. ref.num \in Nat
  BY DEF CInv
<1>2. ref'.num = ref.num + 1
  BY DEF Advance
<1> QED
  BY <1>1, <1>2, BasedLater

LEMMA CNext == CInv /\ [Next]_cvars => CInv'
<1> SUFFICES ASSUME CInv, [Next]_cvars PROVE CInv'
  OBVIOUS
<1>0. /\ ref.num \in Nat /\ host = [h \in Host |-> host[h]]
      /\ \A h \in Host : "pc" \in DOMAIN host[h]
      /\ \A h \in Host : host[h].pc = "push" => Based(ref, host[h].base, host[h].work)
      /\ \A p \in flight : Based(ref, p.base, p.work)
  BY DEF CInv
<1>1. CASE UNCHANGED cvars
  BY <1>0, <1>1 DEF cvars, CInv
\* Host h leaves "push", or stays out of it, and the branch stays.
<1>2. ASSUME NEW h \in Host, NEW x, "pc" \in DOMAIN x, x.pc # "push",
             host' = [host EXCEPT ![h] = x],
             ref'.num \in Nat,
             \A base, v : Based(ref, base, v) => Based(ref', base, v),
             \A p \in flight' : Based(ref, p.base, p.work)
      PROVE  CInv'
  <2>1. host' = [g \in Host |-> IF g = h THEN x ELSE host[g]]
    BY <1>0, <1>2
  <2> QED
    BY <1>0, <1>2, <2>1 DEF CInv
<1>3. ASSUME NEW h \in Host, NEW op \in Ops, NEW t \in Time, Attempt(h, op, t)
      PROVE  CInv'
  <2>1. PICK w, call :
            /\ w \in WorkOn(ref, op, t, NewIds)
            /\ host' = [host EXCEPT ![h] =
                    [pc |-> "push", call |-> call, op |-> op,
                     tries |-> host[h].tries, base |-> ref.num, work |-> w]]
            /\ t + ClockSkew >= ref.clock
            /\ ref' = ref /\ flight' = flight
    BY <1>3 DEF Attempt
  <2>2. NewIds \subseteq ClaimId \ DOMAIN ref.board
    BY DEF NewIds
  <2>3. w \in WorkOn(ref, op, t, ClaimId \ DOMAIN ref.board)
    BY <2>1, <2>2, OutcomesMonotone DEF WorkOn
  <2>4. Based(ref, ref.num, w)
    BY <1>0, <2>1, <2>3 DEF Based, Possible
  <2> QED
    BY <1>0, <2>1, <2>4 DEF CInv
<1>4. ASSUME NEW h \in Host, GiveUp(h) \/ Return(h) \/ Reject(h)
      PROVE  CInv'
  <2> DEFINE x == [host[h] EXCEPT !.pc = "again", !.tries = @ + 1, !.base = 0,
                                  !.work = NoWork]
  <2>1. /\ \/ host' = [host EXCEPT ![h] = Idle]
           \/ host' = [host EXCEPT ![h] = x]
        /\ ref' = ref /\ flight' = flight
    BY <1>4 DEF GiveUp, Return, Reject
  <2>2. "pc" \in DOMAIN Idle /\ Idle.pc # "push"
    BY DEF Idle
  <2>3. "pc" \in DOMAIN x /\ x.pc # "push"
    BY <1>0
  <2> HIDE DEF x
  <2> QED
    BY <1>0, <1>2, <2>1, <2>2, <2>3
<1>5. ASSUME NEW h \in Host, Land(h)
      PROVE  CInv'
  <2> DEFINE x == [host[h] EXCEPT !.pc = "answered"]
  <2>1. /\ Advance(host[h].call, host[h].work)
        /\ host' = [host EXCEPT ![h] = x] /\ flight' = flight
    BY <1>5 DEF Land
  <2>2. "pc" \in DOMAIN x /\ x.pc # "push"
    BY <1>0
  <2> HIDE DEF x
  <2> QED
    BY <1>0, <1>2, <2>1, <2>2, AdvanceCInv
<1>6. ASSUME NEW h \in Host, CutOff(h)
      PROVE  CInv'
  <2>1. /\ host' = [host EXCEPT ![h] = Idle] /\ ref' = ref
        /\ \A p \in flight' : p \in flight \/ (host[h].pc = "push" /\ p = InFlight(h))
    BY <1>6 DEF CutOff
  <2>2. InFlight(h).base = host[h].base /\ InFlight(h).work = host[h].work
    BY DEF InFlight
  <2>3. "pc" \in DOMAIN Idle /\ Idle.pc # "push"
    BY DEF Idle
  <2> QED
    BY <1>0, <1>2, <2>1, <2>2, <2>3
<1>7. ASSUME NEW p \in flight, LandLate(p)
      PROVE  CInv'
  BY <1>0, <1>7, AdvanceCInv DEF LandLate, CInv
<1>8. ASSUME NEW p \in flight, Vanish(p)
      PROVE  CInv'
  BY <1>0, <1>8 DEF Vanish, CInv
<1> QED
  BY <1>1, <1>3, <1>4, <1>5, <1>6, <1>7, <1>8 DEF Next

\* The branch changes only as an operation on one board would change it
\* (_locked_state, _push: fetch, compute, commit, push without force).
THEOREM Atomic == Spec => BoardIsAtomic
<1>1. Init => B!Init
  BY DEF Init, B!Init
<1>2. CInv /\ [Next]_cvars => [B!CentralNext]_(B!vars)
  <2> SUFFICES ASSUME CInv, [Next]_cvars, (B!vars)' # B!vars PROVE B!CentralNext
    OBVIOUS
  <2>1. ref' # ref
    BY DEF B!vars
  <2>2. \/ \E h \in Host : Land(h)
        \/ \E p \in flight : LandLate(p)
    BY <2>1 DEF Next, cvars, Attempt, GiveUp, Return, Reject, CutOff, Vanish
  <2>3. ASSUME NEW h \in Host, Land(h) PROVE B!CentralNext
    <3>1. Possible(ref, host[h].work)
      BY <2>3 DEF Land, CInv, Based
    <3> QED
      BY <2>3, <3>1, PossibleStep DEF Land
  <2>4. ASSUME NEW p \in flight, LandLate(p) PROVE B!CentralNext
    <3>1. Possible(ref, p.work)
      BY <2>4 DEF LandLate, CInv, Based
    <3> QED
      BY <2>4, <3>1, PossibleStep DEF LandLate
  <2> QED
    BY <2>2, <2>3, <2>4
<1> QED
  BY <1>1, <1>2, CInit, CNext, PTL DEF Spec, BoardIsAtomic, B!CentralSpec

-----------------------------------------------------------------------------
(* What a host was told, and how often a call takes effect *)

\* Work keeps every claim it found and records the one it creates.
LEMMA WorkKeeps ==
    ASSUME NEW op \in Ops, NEW r, NEW t, NEW ids, NEW w \in WorkOn(r, op, t, ids)
    PROVE  /\ DOMAIN r.board \subseteq DOMAIN w.board
           /\ w.id \in DOMAIN w.board \cup {NoClaim}
<1> DEFINE cs == B!ExpireStale(r.board, t)
           Done(b) == Work(b, t, r.overrides, NoClaim)
<1>0. Operation(op)
  BY OpsAssumption
<1>1. DOMAIN cs = DOMAIN r.board
  BY DEF B!ExpireStale, B!Promote, B!CloseOrphans, B!Close
<1>2. w \in Outcomes(op, cs, r.overrides, t, ids)
  BY DEF WorkOn
<1> HIDE DEF cs
<1>3. \A b, ov, c : Work(b, t, ov, c).board = b /\ Work(b, t, ov, c).id = c
  BY DEF Work
<1>4. ASSUME NEW b, w = Done(b), DOMAIN cs \subseteq DOMAIN b
      PROVE  /\ DOMAIN r.board \subseteq DOMAIN w.board
             /\ w.id \in DOMAIN w.board \cup {NoClaim}
  BY <1>1, <1>3, <1>4
<1>5. CASE op.kind = "list"
  BY <1>2, <1>4, <1>5 DEF Outcomes
<1>6. CASE op.kind = "claim"
  <2>1. w \in ClaimWork(op, cs, r.overrides, t, ids)
    BY <1>2, <1>6 DEF Outcomes
  <2>2. CASE w = Done(cs)
    BY <1>4, <2>2
  <2>3. ASSUME NEW c \in ids, NEW x, w = Work(B!Put(cs, c, x), t, r.overrides, c)
        PROVE  /\ DOMAIN r.board \subseteq DOMAIN w.board
               /\ w.id \in DOMAIN w.board \cup {NoClaim}
    <3>1. w.board = B!Put(cs, c, x) /\ w.id = c
      BY <1>3, <2>3
    <3>2. DOMAIN B!Put(cs, c, x) = DOMAIN cs \cup {c}
      BY DEF B!Put
    <3> QED
      BY <1>1, <3>1, <3>2
  <2> DEFINE rival == B!ConflictsOf(cs, op.req, op.token, t)
             st == IF rival = {} THEN "ACTIVE" ELSE "QUEUED"
             y == B!NewClaim(op.req, B!ParentOf(op.token), st, t)
  <2>4. \/ w = Done(cs)
        \/ \E c \in ids : w = Work(B!Put(cs, c, y), t, r.overrides, c)
    BY <2>1 DEF ClaimWork
  <2> HIDE DEF y
  <2> QED
    BY <2>2, <2>3, <2>4
<1>7. CASE op.kind = "override"
  <2>1. w \in OverrideWork(op, cs, r.overrides, t, ids)
    BY <1>2, <1>7 DEF Outcomes
  <2> DEFINE active == B!ConflictsOf(cs, op.req, NoClaim, t) \cap B!Active(cs)
  <2>2. PICK v \in active, c \in ids :
            w = Work(B!TakenOver(cs, v, c, op.req, t), t,
                     r.overrides \cup {<<op.approval.id, v>>}, c)
    BY <2>1 DEF OverrideWork
  <2>3. DOMAIN B!TakenOver(cs, v, c, op.req, t) = DOMAIN cs \cup {c}
    BY DEF B!TakenOver, B!Promote, B!Put, B!CloseOrphans, B!Close
  <2>4. w.board = B!TakenOver(cs, v, c, op.req, t) /\ w.id = c
    BY <1>3, <2>2
  <2> QED
    BY <1>1, <2>3, <2>4
<1>8. CASE op.kind \in {"heartbeat", "attach", "release"}
  <2>1. /\ \A S, v : OwnerWork(op, cs, S, v) \subseteq {v}
        /\ \A S, v : OwnerWork(op, cs, S, v) # {} => op.claim \in S
    BY DEF OwnerWork
  <2>2. \A x : DOMAIN B!Put(cs, op.claim, x) = DOMAIN cs \cup {op.claim}
    BY DEF B!Put
  <2>3. DOMAIN B!Freed(cs, op.claim, t) = DOMAIN cs
    BY DEF B!Freed, B!Promote, B!CloseOrphans, B!Close
  <2>4. CASE op.kind = "heartbeat"
    <3>1. w = Done(B!Put(cs, op.claim, [cs[op.claim] EXCEPT !.expires = t + op.ttl]))
      BY <1>2, <2>1, <2>4 DEF Outcomes
    <3> QED
      BY <1>4, <2>2, <3>1
  <2>5. CASE op.kind = "attach"
    <3>1. w = Done(B!Put(cs, op.claim, [cs[op.claim] EXCEPT !.pr = op.pr]))
      BY <1>2, <2>1, <2>5 DEF Outcomes
    <3> QED
      BY <1>4, <2>2, <3>1
  <2>6. CASE op.kind = "release"
    <3>1. w = Done(B!Freed(cs, op.claim, t))
      BY <1>2, <2>1, <2>6 DEF Outcomes
    <3> QED
      BY <1>4, <2>3, <3>1
  <2> QED
    BY <1>8, <2>4, <2>5, <2>6
<1>9. CASE op.kind = "import"
  <2>1. PICK b \in B!Imported(cs, op.local, t) : w = Done(b)
    BY <1>2, <1>9 DEF Outcomes
  <2>2. DOMAIN cs \subseteq DOMAIN b
    BY DEF B!Imported, B!CloseOrphans, B!Close, B!Merge
  <2> QED
    BY <1>4, <2>1, <2>2
<1> QED
  BY <1>0, <1>5, <1>6, <1>7, <1>8, <1>9 DEF Operation

\* A call that has not taken effect yet, and may.
Pending(h) == host[h].pc \in {"push", "again"}

\* The calls hosts are in.
Hosts ==
    /\ DOMAIN host = Host
    /\ \A h \in Host :
        DOMAIN host[h] = {"pc", "call", "op", "tries", "base", "work"}

\* What was told is on the branch, and what will be told is in what is written.
ToldInv ==
    /\ told \subseteq DOMAIN ref.board
    /\ \A h \in Host :
        /\ host[h].pc = "answered" => host[h].work.id \in DOMAIN ref.board \cup {NoClaim}
        /\ host[h].pc = "push" => host[h].work.id \in DOMAIN host[h].work.board \cup {NoClaim}

\* Whatever may still take effect belongs to a call of its own that has not done so.
OnceInv ==
    /\ calls \in Nat
    /\ AtMostOnce
    /\ \A p \in landed : p[1] \in Nat /\ p[1] <= calls
    /\ \A h \in Host : Pending(h) =>
        /\ host[h].call \in Nat /\ host[h].call <= calls
        /\ \A p \in landed : p[1] # host[h].call
        /\ \A g \in Host \ {h} : Pending(g) => host[g].call # host[h].call
    /\ \A p \in flight :
        /\ p.call \in Nat /\ p.call <= calls
        /\ \A q \in landed : q[1] # p.call
        /\ \A q \in flight : q.call = p.call => q = p
        /\ \A h \in Host : Pending(h) => host[h].call # p.call

CallInv == CInv /\ Hosts /\ ToldInv /\ OnceInv

LEMMA CallInit == Init => CallInv
<1> SUFFICES ASSUME Init PROVE Hosts /\ ToldInv /\ OnceInv
  BY CInit DEF CallInv
<1>1. \A h \in Host : host[h] = Idle
  BY DEF Init
<1>2. Idle.pc = "idle" /\ DOMAIN Idle = {"pc", "call", "op", "tries", "base", "work"}
  BY DEF Idle
<1> QED
  BY <1>1, <1>2 DEF Init, Hosts, ToldInv, OnceInv, Pending, AtMostOnce

\* The branch never loses a claim: a commit that lands was computed from the board it
\* replaces.
LEMMA AdvanceKeeps ==
    ASSUME NEW base, NEW w, Based(ref, base, w), base = ref.num, NEW call, Advance(call, w)
    PROVE  DOMAIN ref.board \subseteq DOMAIN ref'.board /\ ref'.board = w.board
<1>1. PICK op \in Ops, t \in Time : w \in WorkOn(ref, op, t, ClaimId \ DOMAIN ref.board)
  BY DEF Based, Possible
<1>2. ref'.board = w.board
  BY DEF Advance
<1> QED
  BY <1>1, <1>2, WorkKeeps

LEMMA CallNext == CallInv /\ [Next]_cvars => CallInv'
<1> SUFFICES ASSUME CallInv, [Next]_cvars PROVE Hosts' /\ ToldInv' /\ OnceInv'
  BY CNext DEF CallInv
<1> USE DEF CallInv
<1>0. Idle.pc = "idle" /\ DOMAIN Idle = {"pc", "call", "op", "tries", "base", "work"}
  BY DEF Idle
<1>1. CASE UNCHANGED cvars
  BY <1>1 DEF cvars, Hosts, ToldInv, OnceInv, Pending, AtMostOnce
<1>2. ASSUME NEW h \in Host, NEW op \in Ops, NEW t \in Time, Attempt(h, op, t)
      PROVE  Hosts' /\ ToldInv' /\ OnceInv'
  <2> DEFINE call == IF host[h].pc = "idle" THEN calls + 1 ELSE host[h].call
  <2>1. PICK w : /\ w \in WorkOn(ref, op, t, NewIds)
                 /\ host' = [host EXCEPT ![h] =
                        [pc |-> "push", call |-> call, op |-> op,
                         tries |-> host[h].tries, base |-> ref.num, work |-> w]]
    BY <1>2 DEF Attempt
  <2>2. /\ calls' = IF host[h].pc = "idle" THEN calls + 1 ELSE calls
        /\ ref' = ref /\ flight' = flight /\ landed' = landed /\ told' = told
        /\ host[h].pc \in {"idle", "again"}
    BY <1>2 DEF Attempt, MayAttempt
  <2>3. /\ \A g \in Host \ {h} : host'[g] = host[g]
        /\ host'[h].pc = "push" /\ host'[h].call = call /\ host'[h].work = w
        /\ DOMAIN host'[h] = {"pc", "call", "op", "tries", "base", "work"}
        /\ DOMAIN host' = Host
    BY <2>1 DEF Hosts
  <2>4. w.id \in DOMAIN w.board \cup {NoClaim}
    BY <2>1, WorkKeeps
  <2>5. Hosts'
    BY <2>3 DEF Hosts
  <2>6. ToldInv'
    BY <2>2, <2>3, <2>4 DEF ToldInv
  <2>7. /\ call \in Nat /\ call <= calls' /\ calls' \in Nat /\ calls <= calls'
        /\ \A p \in landed : p[1] # call
        /\ \A p \in flight : p.call # call
        /\ \A g \in Host \ {h} : Pending(g) => host[g].call # call
    BY <2>2 DEF OnceInv, Pending
  <2> HIDE DEF call
  <2>8. \A n \in Nat : n <= calls => n <= calls'
    BY <2>7 DEF OnceInv
  <2> QED
    BY <2>2, <2>3, <2>5, <2>6, <2>7, <2>8 DEF OnceInv, Pending, AtMostOnce
<1>3. ASSUME NEW h \in Host, GiveUp(h) \/ Reject(h) \/ Return(h)
      PROVE  Hosts' /\ ToldInv' /\ OnceInv'
  <2> DEFINE again == [host[h] EXCEPT !.pc = "again", !.tries = @ + 1, !.base = 0,
                                      !.work = NoWork]
  <2>1. \/ host' = [host EXCEPT ![h] = Idle]
        \/ host' = [host EXCEPT ![h] = again] /\ host[h].pc = "push"
    BY <1>3 DEF GiveUp, Reject, Return
  <2>2. /\ ref' = ref /\ flight' = flight /\ landed' = landed /\ calls' = calls
        /\ told' \subseteq told \cup (IF host[h].pc = "answered"
                                     THEN {host[h].work.id} \ {NoClaim} ELSE {})
    BY <1>3 DEF GiveUp, Reject, Return
  <2>3. /\ again.pc = "again" /\ again.call = host[h].call
        /\ DOMAIN again = {"pc", "call", "op", "tries", "base", "work"}
    BY DEF Hosts
  <2> HIDE DEF again
  <2>4. /\ \A g \in Host \ {h} : host'[g] = host[g]
        /\ host'[h].pc \notin {"push", "answered"}
        /\ host'[h].pc = "again" => host[h].pc = "push" /\ host'[h].call = host[h].call
        /\ DOMAIN host'[h] = {"pc", "call", "op", "tries", "base", "work"}
        /\ DOMAIN host' = Host
    BY <1>0, <2>1, <2>3 DEF Hosts
  <2>5. Hosts'
    BY <2>4 DEF Hosts
  <2>6. ToldInv'
    BY <2>2, <2>4 DEF ToldInv
  <2> QED
    BY <2>2, <2>4, <2>5, <2>6 DEF OnceInv, Pending, AtMostOnce
<1>4. ASSUME NEW h \in Host, CutOff(h)
      PROVE  Hosts' /\ ToldInv' /\ OnceInv'
  <2>1. /\ host' = [host EXCEPT ![h] = Idle]
        /\ ref' = ref /\ landed' = landed /\ calls' = calls /\ told' = told
        /\ flight' = flight \cup (IF host[h].pc = "push" THEN {InFlight(h)} ELSE {})
    BY <1>4 DEF CutOff
  <2>2. InFlight(h).call = host[h].call
    BY DEF InFlight
  <2>3. /\ \A g \in Host \ {h} : host'[g] = host[g]
        /\ host'[h] = Idle /\ DOMAIN host' = Host
    BY <2>1 DEF Hosts
  <2>4. Hosts' /\ ToldInv'
    BY <1>0, <2>1, <2>3 DEF Hosts, ToldInv
  <2>5. \A p \in flight' : p \in flight \/ (host[h].pc = "push" /\ p = InFlight(h))
    BY <2>1
  <2> QED
    BY <1>0, <2>1, <2>2, <2>3, <2>4, <2>5 DEF OnceInv, Pending, AtMostOnce
<1>5. ASSUME NEW h \in Host, Land(h)
      PROVE  Hosts' /\ ToldInv' /\ OnceInv'
  <2>1. /\ Advance(host[h].call, host[h].work) /\ host[h].pc = "push"
        /\ host' = [host EXCEPT ![h].pc = "answered"]
        /\ flight' = flight /\ calls' = calls /\ told' = told
        /\ landed' = landed \cup {<<host[h].call, ref.num + 1>>}
    BY <1>5 DEF Land, Advance
  <2>2. DOMAIN ref.board \subseteq DOMAIN ref'.board /\ ref'.board = host[h].work.board
    BY <1>5, <2>1, AdvanceKeeps DEF Land, CInv
  <2>3. /\ \A g \in Host \ {h} : host'[g] = host[g]
        /\ host'[h].pc = "answered" /\ host'[h].work = host[h].work
        /\ DOMAIN host'[h] = {"pc", "call", "op", "tries", "base", "work"}
        /\ DOMAIN host' = Host
    BY <2>1 DEF Hosts
  <2>4. Hosts'
    BY <2>3 DEF Hosts
  <2>5. ToldInv'
    BY <2>1, <2>2, <2>3 DEF ToldInv
  <2>6. AtMostOnce'
    BY <2>1 DEF OnceInv, Pending, AtMostOnce
  <2> QED
    BY <2>1, <2>3, <2>4, <2>5, <2>6 DEF OnceInv, Pending
<1>6. ASSUME NEW p \in flight, LandLate(p)
      PROVE  Hosts' /\ ToldInv' /\ OnceInv'
  <2>1. /\ Advance(p.call, p.work)
        /\ host' = host /\ calls' = calls /\ told' = told /\ flight' = flight \ {p}
        /\ landed' = landed \cup {<<p.call, ref.num + 1>>}
    BY <1>6 DEF LandLate, Advance
  <2>2. DOMAIN ref.board \subseteq DOMAIN ref'.board
    BY <1>6, <2>1, AdvanceKeeps DEF LandLate, CInv
  <2>3. Hosts' /\ ToldInv'
    BY <2>1, <2>2 DEF Hosts, ToldInv
  <2>4. AtMostOnce'
    BY <2>1 DEF OnceInv, Pending, AtMostOnce
  <2> QED
    BY <2>1, <2>3, <2>4 DEF OnceInv, Pending
<1>7. ASSUME NEW p \in flight, Vanish(p)
      PROVE  Hosts' /\ ToldInv' /\ OnceInv'
  BY <1>7 DEF Vanish, Hosts, ToldInv, OnceInv, Pending, AtMostOnce
<1> QED
  BY <1>1, <1>2, <1>3, <1>4, <1>5, <1>6, <1>7 DEF Next

\* A claim a host was told of is never lost, whichever pushes of other hosts, late or
\* retried, follow (_push leases the branch on the commit it fetched).
THEOREM ToldForGood == Spec => []ToldClaimStays
<1>1. CallInv => ToldClaimStays
  BY DEF CallInv, ToldInv, ToldClaimStays
<1> QED
  BY <1>1, CallInit, CallNext, PTL DEF Spec

\* A call takes effect at most once: it is tried again only after the remote rejected
\* it, and a push that was cut off is never repeated (_locked_state's loop).
THEOREM CallsLandOnce == Spec => []AtMostOnce
<1>1. CallInv => AtMostOnce
  BY DEF CallInv, OnceInv
<1> QED
  BY <1>1, CallInit, CallNext, PTL DEF Spec

-----------------------------------------------------------------------------
(* What CentralBoard promises of its board holds of the branch: K is the    *)
(* board again, with what is proved of it.  The two instances have the same *)
(* rules, so that an operation of the one is an operation of the other.     *)

K == INSTANCE TaskClaimsProofs
        WITH claims <- ref.board, clock <- ref.clock,
             overrides <- ref.overrides, Horizon <- 0

LEMMA SameAssumptions ==
    /\ K!ClaimIdAssumption /\ K!PathAssumption /\ K!RegistryAssumption
    /\ K!InputAssumption /\ K!LocalAssumption
<1>1. B!Request = K!Request /\ B!Approval = K!Approval /\ B!Delegation = K!Delegation
  BY DEF B!Request, K!Request, B!Approval, K!Approval, B!Delegation, K!Delegation,
         B!Scopes, K!Scopes
<1>2. \A ls : B!Board(ls) <=> K!Board(ls)
  BY DEF B!Board, K!Board, B!Claim, K!Claim, B!OpenStatus, K!OpenStatus,
         B!ClosedStatus, K!ClosedStatus, B!Scopes, K!Scopes
<1>3. \A ls : B!Queued(ls) = K!Queued(ls)
  BY DEF B!Queued, K!Queued, B!WithStatus, K!WithStatus
<1> QED
  BY <1>1, <1>2, <1>3, BoardAssumption
     DEF B!ClaimIdAssumption, K!ClaimIdAssumption, B!PathAssumption, K!PathAssumption,
         B!RegistryAssumption, K!RegistryAssumption, B!InputAssumption, K!InputAssumption,
         B!LocalAssumption, K!LocalAssumption

LEMMA SameReads ==
    ASSUME NEW cs
    PROVE  /\ B!Active(cs) = K!Active(cs) /\ B!Queued(cs) = K!Queued(cs)
           /\ B!Open(cs) = K!Open(cs)
  BY Zenon DEF B!WithStatus, K!WithStatus, B!Active, K!Active, B!Queued, K!Queued,
         B!Open, K!Open

LEMMA SameRules ==
    ASSUME NEW cs, NEW x, NEW b, NEW c, NEW y
    PROVE  /\ B!Before(cs, b, c) <=> K!Before(cs, b, c)
           /\ B!Collides(x, b, y) <=> K!Collides(x, b, y)
<1>1. B!Before(cs, b, c) <=> K!Before(cs, b, c)
  BY DEF B!Before, K!Before
<1>2. B!Collides(x, b, y) <=> K!Collides(x, b, y)
  BY Zenon DEF B!Collides, K!Collides, B!ScopesOverlap, K!ScopesOverlap,
         B!PathsOverlap, K!PathsOverlap, B!Covers, K!Covers
<1> QED
  BY <1>1, <1>2

LEMMA SameSweep == ASSUME NEW cs, NEW t PROVE B!ExpireStale(cs, t) = K!ExpireStale(cs, t)
  BY Zenon DEF B!ExpireStale, K!ExpireStale, B!Lapsed, K!Lapsed, B!CloseOrphans,
         K!CloseOrphans, B!Sheltered, K!Sheltered, B!ParentClosed, K!ParentClosed,
         B!Close, K!Close, B!Promote, K!Promote, B!Promotable, K!Promotable, B!Collides,
         K!Collides, B!Before, K!Before, B!WithStatus, K!WithStatus, B!Active, K!Active,
         B!Queued, K!Queued, B!Open, K!Open, B!Covers, K!Covers, B!PathsOverlap,
         K!PathsOverlap, B!ScopesOverlap, K!ScopesOverlap, B!ScopesWithin,
         K!ScopesWithin

LEMMA SameChecks ==
    ASSUME NEW cs, NEW req, NEW d, NEW t
    PROVE  /\ B!Admissible(cs, req, d, t) <=> K!Admissible(cs, req, d, t)
           /\ B!ConflictsOf(cs, req, d, t) = K!ConflictsOf(cs, req, d, t)
<1>1. B!Admissible(cs, req, d, t) <=> K!Admissible(cs, req, d, t)
  BY Zenon DEF B!Admissible, K!Admissible, B!MayDelegate, K!MayDelegate,
         B!DelegationVerifies, K!DelegationVerifies, B!InForce, K!InForce,
         B!ScopesWithin, K!ScopesWithin, B!Covers, K!Covers, B!Active, K!Active,
         B!WithStatus, K!WithStatus
<1>2. B!ConflictsOf(cs, req, d, t) = K!ConflictsOf(cs, req, d, t)
  BY Zenon DEF B!ConflictsOf, K!ConflictsOf, B!Conflicts, K!Conflicts, B!NewClaim,
         K!NewClaim, B!ParentOf, K!ParentOf, B!Collides, K!Collides, B!ScopesOverlap,
         K!ScopesOverlap, B!PathsOverlap, K!PathsOverlap, B!Covers, K!Covers,
         B!WithStatus, K!WithStatus, B!Active, K!Active, B!Queued, K!Queued, B!Open,
         K!Open
<1> QED
  BY <1>1, <1>2

LEMMA SameChanges ==
    ASSUME NEW cs, NEW c, NEW v, NEW x, NEW req, NEW t, NEW d, NEW st
    PROVE  /\ B!Put(cs, c, x) = K!Put(cs, c, x) /\ B!Freed(cs, c, t) = K!Freed(cs, c, t)
           /\ B!TakenOver(cs, v, c, req, t) = K!TakenOver(cs, v, c, req, t)
           /\ B!NewClaim(req, B!ParentOf(d), st, t) = K!NewClaim(req, K!ParentOf(d), st, t)
<1>1. B!Put(cs, c, x) = K!Put(cs, c, x)
  BY DEF B!Put, K!Put
<1>2. B!Freed(cs, c, t) = K!Freed(cs, c, t)
  BY Zenon DEF B!Freed, K!Freed, B!CloseOrphans, K!CloseOrphans, B!Sheltered,
         K!Sheltered, B!ParentClosed, K!ParentClosed, B!Close, K!Close, B!Promote,
         K!Promote, B!Promotable, K!Promotable, B!Collides, K!Collides, B!Before,
         K!Before, B!WithStatus, K!WithStatus, B!Active, K!Active, B!Queued, K!Queued,
         B!Open, K!Open, B!Covers, K!Covers, B!PathsOverlap, K!PathsOverlap,
         B!ScopesOverlap, K!ScopesOverlap, B!ScopesWithin, K!ScopesWithin
<1>3. B!TakenOver(cs, v, c, req, t) = K!TakenOver(cs, v, c, req, t)
  BY Zenon DEF B!TakenOver, K!TakenOver, B!Put, K!Put, B!NewClaim, K!NewClaim,
         B!CloseOrphans, K!CloseOrphans, B!Sheltered, K!Sheltered, B!ParentClosed,
         K!ParentClosed, B!Close, K!Close, B!Promote, K!Promote, B!Promotable,
         K!Promotable, B!Collides, K!Collides, B!Before, K!Before, B!WithStatus,
         K!WithStatus, B!Active, K!Active, B!Queued, K!Queued, B!Open, K!Open, B!Covers,
         K!Covers, B!PathsOverlap, K!PathsOverlap, B!ScopesOverlap, K!ScopesOverlap,
         B!ScopesWithin, K!ScopesWithin
<1>4. B!NewClaim(req, B!ParentOf(d), st, t) = K!NewClaim(req, K!ParentOf(d), st, t)
  BY DEF B!NewClaim, K!NewClaim, B!ParentOf, K!ParentOf
<1> QED
  BY <1>1, <1>2, <1>3, <1>4

LEMMA SameImport == ASSUME NEW cs, NEW ls, NEW t PROVE B!Imported(cs, ls, t) = K!Imported(cs, ls, t)
  BY Zenon DEF B!Imported, K!Imported, B!Importable, K!Importable, B!Kept, K!Kept,
         B!Conflicts, K!Conflicts, B!Merge, K!Merge, B!CloseOrphans, K!CloseOrphans,
         B!Sheltered, K!Sheltered, B!ParentClosed, K!ParentClosed, B!Close, K!Close,
         B!Collides, K!Collides, B!Before, K!Before, B!WithStatus, K!WithStatus,
         B!Active, K!Active, B!Queued, K!Queued, B!Open, K!Open, B!Covers, K!Covers,
         B!PathsOverlap, K!PathsOverlap, B!ScopesOverlap, K!ScopesOverlap,
         B!ScopesWithin, K!ScopesWithin

LEMMA SameApproval ==
    ASSUME NEW a, NEW task, NEW cur, NEW o, NEW t
    PROVE  B!ApprovalVerifies(a, task, cur, o, t) <=> K!ApprovalVerifies(a, task, cur, o, t)
  BY DEF B!ApprovalVerifies, K!ApprovalVerifies, B!InForce, K!InForce

\* An operation of the one board is an operation of the other.
LEMMA SameNext == B!CentralNext => K!CentralNext
<1> SUFFICES ASSUME B!CentralNext PROVE K!CentralNext
  OBVIOUS
<1>1. \A t : B!Swept(t) = K!Swept(t) /\ (B!Reads(t) <=> K!Reads(t))
  BY SameSweep DEF B!Swept, K!Swept, B!Reads, K!Reads
<1>2. \A cs, t : B!Commit(cs, t) <=> K!Commit(cs, t)
  BY DEF B!Commit, K!Commit
<1>3. CASE \E t \in Time, ls \in LocalBoards : B!Import(ls, t)
  <2>1. \A t, ls : B!Import(ls, t) => K!Import(ls, t)
    BY <1>1, <1>2, SameImport DEF B!Import, K!Import
  <2> QED
    BY <1>3, <2>1 DEF K!CentralNext
<1>4. CASE B!Next
  <2>1. ASSUME NEW t \in Time, B!ListClaims(t) PROVE K!ListClaims(t)
    BY <1>1, <1>2, <2>1 DEF B!ListClaims, K!ListClaims
  <2>2. ASSUME NEW t, NEW req, NEW d
        PROVE  /\ B!Refuse(req, d, t) => K!Refuse(req, d, t)
               /\ \A c : B!Acquire(c, req, d, t) => K!Acquire(c, req, d, t)
               /\ \A c : B!Enqueue(c, req, d, t) => K!Enqueue(c, req, d, t)
    <3>1. B!Refuse(req, d, t) => K!Refuse(req, d, t)
      BY <1>1, <1>2, SameChecks DEF B!Refuse, K!Refuse
    <3>2. ASSUME NEW c, B!Acquire(c, req, d, t) PROVE K!Acquire(c, req, d, t)
      BY <1>1, <1>2, <3>2, SameChecks, SameChanges DEF B!Acquire, K!Acquire
    <3>3. ASSUME NEW c, B!Enqueue(c, req, d, t) PROVE K!Enqueue(c, req, d, t)
      BY <1>1, <1>2, <3>3, SameChecks, SameChanges DEF B!Enqueue, K!Enqueue
    <3> QED
      BY <3>1, <3>2, <3>3
  <2>3. ASSUME NEW t, NEW c, NEW req, NEW a, B!Override(c, req, a, t)
        PROVE  K!Override(c, req, a, t)
    BY <1>1, <1>2, <2>3, SameReads, SameChecks, SameChanges, SameApproval
       DEF B!Override, K!Override
  <2>4. ASSUME NEW t, NEW c, NEW o
        PROVE  /\ B!Release(c, o, t) => K!Release(c, o, t)
               /\ \A ttl : B!Heartbeat(c, o, ttl, t) => K!Heartbeat(c, o, ttl, t)
               /\ \A pr : B!AttachPR(c, o, pr, t) => K!AttachPR(c, o, pr, t)
    <3>1. B!Release(c, o, t) => K!Release(c, o, t)
      BY <1>1, <1>2, SameReads, SameChanges DEF B!Release, K!Release
    <3>2. ASSUME NEW ttl, B!Heartbeat(c, o, ttl, t) PROVE K!Heartbeat(c, o, ttl, t)
      BY <1>1, <1>2, <3>2, SameReads, SameChanges DEF B!Heartbeat, K!Heartbeat
    <3>3. ASSUME NEW pr, B!AttachPR(c, o, pr, t) PROVE K!AttachPR(c, o, pr, t)
      BY <1>1, <1>2, <3>3, SameReads, SameChanges DEF B!AttachPR, K!AttachPR
    <3> QED
      BY <3>1, <3>2, <3>3
  <2> QED
    BY <1>4, <2>1, <2>2, <2>3, <2>4 DEF B!Next, K!Next, K!CentralNext
<1> QED
  BY <1>3, <1>4 DEF B!CentralNext

\* The branch is a board of CentralBoard at every moment.
LEMMA BranchIsABoard == Spec => K!CentralSpec
<1>1. Init => K!Init
  BY DEF Init, K!Init
<1>2. [B!CentralNext]_(B!vars) => [K!CentralNext]_(K!vars)
  BY SameNext DEF B!vars, K!vars
<1>3. B!Init => K!Init
  BY DEF B!Init, K!Init
<1> QED
  BY <1>2, <1>3, Atomic, PTL DEF BoardIsAtomic, B!CentralSpec, K!CentralSpec

\* On the branch itself, whatever hosts race, retry or die, two active claims never
\* share a task nor, unless one is the other's parent, a path.
THEOREM BranchExclusion == Spec => []B!ActiveExclusive
<1>1. K!CentralSpec => []K!ActiveExclusive
  BY SameAssumptions, K!CentralExclusion
<1>2. K!ActiveExclusive => B!ActiveExclusive
  BY Zenon DEF B!ActiveExclusive, K!ActiveExclusive, B!Exclusive, K!Exclusive,
         B!ScopesOverlap, K!ScopesOverlap, B!PathsOverlap, K!PathsOverlap, B!Covers,
         K!Covers, B!Active, K!Active, B!WithStatus, K!WithStatus
<1> QED
  BY <1>1, <1>2, BranchIsABoard, PTL

\* Nobody who fetches the branch reads an active lease that had run out when the last
\* operation was computed.
THEOREM BranchNoLapsed == Spec => []B!NoLapsedLease
<1>1. K!CentralSpec => []K!NoLapsedLease
  BY SameAssumptions, K!CentralNoLapsed
<1>2. K!NoLapsedLease => B!NoLapsedLease
  BY Zenon DEF B!NoLapsedLease, K!NoLapsedLease, B!Fresh, K!Fresh, B!Active, K!Active,
         B!WithStatus, K!WithStatus
<1> QED
  BY <1>1, <1>2, BranchIsABoard, PTL

\* On the branch an open delegated claim stays inside the lease of an active parent.
THEOREM BranchDelegation == Spec => []B!DelegatedInsideParent
<1>1. K!CentralSpec => []K!DelegatedInsideParent
  BY SameAssumptions, K!CentralDelegation
<1>2. K!DelegatedInsideParent => B!DelegatedInsideParent
  BY Zenon DEF B!DelegatedInsideParent, K!DelegatedInsideParent, B!Inside, K!Inside,
         B!Housed, K!Housed, B!ScopesWithin, K!ScopesWithin, B!Covers, K!Covers,
         B!WithStatus, K!WithStatus, B!Active, K!Active, B!Queued, K!Queued, B!Open,
         K!Open
<1> QED
  BY <1>1, <1>2, BranchIsABoard, PTL

\* From one commit of the branch to the next, a closed record never changes and none is
\* dropped: no late push brings an older board back.
THEOREM BranchClosedForGood == Spec => B!ClosedIsFinal
<1>1. K!CentralSpec => K!ClosedIsFinal
  BY SameAssumptions, K!CentralClosedForGood
<1>2. [\A c \in DOMAIN ref.board :
        /\ c \in DOMAIN (ref.board)'
        /\ ref.board[c].status \in K!ClosedStatus => (ref.board)'[c] = ref.board[c]]_(K!vars)
      => [\A c \in DOMAIN ref.board :
            /\ c \in DOMAIN (ref.board)'
            /\ ref.board[c].status \in B!ClosedStatus
                => (ref.board)'[c] = ref.board[c]]_(B!vars)
  BY DEF B!vars, K!vars, B!ClosedStatus, K!ClosedStatus
<1>3. K!ClosedIsFinal => B!ClosedIsFinal
  BY <1>2, PTL DEF B!ClosedIsFinal, K!ClosedIsFinal
<1> QED
  BY <1>1, <1>3, BranchIsABoard, PTL

\* ... a claim that stays active had not lapsed when the operation read the clock, on
\* whichever host and however long its push took.
THEOREM BranchLateIsTooLate == Spec => B!LapsedLeaseIsLost
<1>1. K!CentralSpec => K!LapsedLeaseIsLost
  BY SameAssumptions, K!CentralLateIsTooLate
<1>2. B!Active(ref.board) = K!Active(ref.board)
      /\ B!Active((ref.board)') = K!Active((ref.board)')
  BY SameReads
<1>3. [\A c \in K!Active(ref.board) :
        c \in K!Active((ref.board)') => ref.board[c].expires > (ref.clock)']_(K!vars)
      => [\A c \in B!Active(ref.board) :
            c \in B!Active((ref.board)') => ref.board[c].expires > (ref.clock)']_(B!vars)
  BY <1>2 DEF B!vars, K!vars
<1>4. K!LapsedLeaseIsLost => B!LapsedLeaseIsLost
  BY <1>3, PTL DEF B!LapsedLeaseIsLost, K!LapsedLeaseIsLost
<1> QED
  BY <1>1, <1>4, BranchIsABoard, PTL

\* ... nobody is promoted past an earlier claim that is in the way and still waits,
\* though the hosts that promote are not the ones that queued.
THEOREM BranchFirstComesFirst == Spec => B!FirstInLineFirst
<1>1. K!CentralSpec => K!FirstInLineFirst
  BY SameAssumptions, K!CentralFirstComesFirst
<1>2. /\ B!Queued(ref.board) = K!Queued(ref.board)
      /\ B!Active((ref.board)') = K!Active((ref.board)')
      /\ B!Queued((ref.board)') = K!Queued((ref.board)')
  BY SameReads
<1>3. [\A c \in K!Queued(ref.board) \cap K!Active((ref.board)') :
        \A b \in K!Queued(ref.board) \cap K!Queued((ref.board)') :
            K!Before(ref.board, b, c)
                => ~K!Collides(ref.board[c], b, ref.board[b])]_(K!vars)
      => [\A c \in B!Queued(ref.board) \cap B!Active((ref.board)') :
            \A b \in B!Queued(ref.board) \cap B!Queued((ref.board)') :
                B!Before(ref.board, b, c)
                    => ~B!Collides(ref.board[c], b, ref.board[b])]_(B!vars)
  BY <1>2, SameRules DEF B!vars, K!vars
<1>4. K!FirstInLineFirst => B!FirstInLineFirst
  BY <1>3, PTL DEF B!FirstInLineFirst, K!FirstInLineFirst
<1> QED
  BY <1>1, <1>4, BranchIsABoard, PTL

\* ... and a claim expires only when its lease ran out or its parent closed: losing a
\* race for the branch costs nobody a claim.
THEOREM BranchExpiryIsCaused == Spec => B!ExpiryHasACause
<1>1. K!CentralSpec => K!ExpiryHasACause
  BY SameAssumptions, K!CentralExpiryIsCaused
<1>2. /\ B!Active(ref.board) = K!Active(ref.board)
      /\ B!Open(ref.board) = K!Open(ref.board)
      /\ B!Active((ref.board)') = K!Active((ref.board)')
  BY SameReads
<1>3. [\A c \in K!Open(ref.board) : (ref.board)'[c].status = "EXPIRED" =>
        \/ c \in K!Active(ref.board) /\ ref.board[c].expires <= (ref.clock)'
        \/ ref.board[c].parent # NoClaim
           /\ ref.board[c].parent \notin K!Active((ref.board)')]_(K!vars)
      => [\A c \in B!Open(ref.board) : (ref.board)'[c].status = "EXPIRED" =>
            \/ c \in B!Active(ref.board) /\ ref.board[c].expires <= (ref.clock)'
            \/ ref.board[c].parent # NoClaim
               /\ ref.board[c].parent \notin B!Active((ref.board)')]_(B!vars)
  BY <1>2 DEF B!vars, K!vars
<1>4. K!ExpiryHasACause => B!ExpiryHasACause
  BY <1>3, PTL DEF B!ExpiryHasACause, K!ExpiryHasACause
<1> QED
  BY <1>1, <1>4, BranchIsABoard, PTL
=============================================================================

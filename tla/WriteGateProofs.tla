--------------------------- MODULE WriteGateProofs ---------------------------
(***************************************************************************)
(* Proofs about the write gate, for every claim store, any number of       *)
(* commands and any clock.  To the claim store the commands of the gate are*)
(* operations like others, so the board keeps what TaskClaimsProofs proves *)
(* of it; the rest is about a file that is read, changed and written back  *)
(* without a lock.                                                         *)
(***************************************************************************)
EXTENDS WriteGate, TaskClaimsProofs

\* What command p does is for claim c.
For(p, c, pcs) == command[p].claim = c /\ command[p].pc \in pcs

Issues(p, c) == For(p, c, {"issue", "issuing"})
Revokes(p, c) == For(p, c, {"revoke", "revoking"})
Attests(p, c) == For(p, c, {"check", "burn"})

\* A claim is issued a token by the command that was granted it, once; one whose token
\* is revoked has closed; and what is attested was an issued token when it was read.
CommandsKnow ==
    \A p \in Command, c \in ClaimId :
        /\ Issues(p, c) => /\ c \in DOMAIN claims /\ tokens[c] = 0 /\ command[p].until > 0
                           /\ \A q \in Command : Issues(q, c) => q = p
        /\ Revokes(p, c) => c \in DOMAIN claims \ Open(claims)
        /\ Attests(p, c) => tokens[c] # 0 /\ command[p].read[c] = "issued"

\* Nothing is known of a claim without a token.
Tokenless == \A c \in ClaimId : (c \notin DOMAIN claims => tokens[c] = 0)
                                /\ (tokens[c] = 0 => attested[c] = 0)

RecordTells(c) ==
    /\ tokens[c] = 0 => records[c] = "none"
    /\ tokens[c] # 0 /\ c \in Open(claims) => records[c] # "none"
    /\ attested[c] <= 1
    /\ records[c] = "issued" => attested[c] = 0
    /\ records[c] = "consumed" => attested[c] = 1

RecordsTell == ~lost => \A c \in ClaimId : RecordTells(c)

GateInv == IInv /\ GateTypeOK /\ CommandsKnow /\ Tokenless /\ RecordsTell

-----------------------------------------------------------------------------
(* What a step of the gate does to the board *)

\* Every step of the gate is an operation of the claim store, or leaves it alone.
LEMMA GateStepIsStoreStep == [GateNext]_gateVars => [Next]_vars
<1> SUFFICES ASSUME [GateNext]_gateVars PROVE [Next]_vars
  OBVIOUS
<1>1. CASE UNCHANGED gateVars
  BY <1>1 DEF gateVars, vars
<1>2. ASSUME NEW t \in Time, Plain(t) PROVE [Next]_vars
  BY <1>2 DEF Plain, Next
<1>3. ASSUME NEW p \in Command, NEW t \in Time, NEW c \in ClaimId, NEW req \in Requests,
             NEW d \in Delegations \cup {NoClaim}, Accept(p, c, req, d, t)
      PROVE  [Next]_vars
  BY <1>3 DEF Accept, Next
<1>4. ASSUME NEW p \in Command, NEW t \in Time, NEW c \in ClaimId, NEW o \in Owner,
             ReleaseClaim(p, c, o, t)
      PROVE  [Next]_vars
  BY <1>4 DEF ReleaseClaim, Next
<1>5. ASSUME NEW p \in Command, NEW t \in Time, CheckClaim(p, t) PROVE [Next]_vars
  BY <1>5 DEF CheckClaim, Next
<1>6. ASSUME NEW p \in Command,
             \/ \E t \in Time, c \in ClaimId : Present(p, c, t)
             \/ ReadRecords(p) \/ Issue(p) \/ Revoke(p) \/ Burn(p) \/ Die(p)
      PROVE  [Next]_vars
  BY <1>6 DEF Present, ReadRecords, Issue, Revoke, Burn, Die, vars
<1> QED
  BY <1>1, <1>2, <1>3, <1>4, <1>5, <1>6 DEF GateNext

\* The gate refines the claim store: its commands do to the board what the store allows.
THEOREM GateRefinesStore == GateSpec => Spec
<1>1. GateInit => Init
  BY DEF GateInit
<1> QED
  BY <1>1, GateStepIsStoreStep, PTL DEF GateSpec, Spec

\* ds comes after cs: no claim is dropped, and none that has closed is open again.
After(cs, ds) ==
    /\ DOMAIN cs \subseteq DOMAIN ds
    /\ \A c \in DOMAIN cs : c \in Open(ds) => c \in Open(cs)

LEMMA StoreStepAfter ==
    ASSUME IInv, [Next]_vars
    PROVE  IInv' /\ After(claims, claims')
<1>1. IInv'
  BY StepSound
<1>2. CASE UNCHANGED vars
  BY <1>1, <1>2 DEF vars, After
<1>3. CASE Next
  <2>1. Keeps(claims, claims')
    BY <1>3, NextKeeps, KeepsTransitive
  <2>2. ASSUME NEW c \in DOMAIN claims, c \in Open(claims') PROVE c \in Open(claims)
    <3>1. claims[c].status \in OpenStatus \cup ClosedStatus
      BY DEF IInv, TypeOK, Board, Claim
    <3>2. claims[c].status \notin ClosedStatus
      BY <2>1, <2>2, OpenNotClosed DEF Keeps
    <3> QED
      BY <3>1, <3>2 DEF OpenStatus, Open, Active, Queued, WithStatus
  <2> QED
    BY <1>1, <2>1, <2>2 DEF After, Keeps
<1> QED
  BY <1>2, <1>3

\* The claim that takes over is recorded as it was asked for.
LEMMA TakenOverNew ==
    ASSUME NEW cs, NEW v, NEW c, NEW req, NEW t
    PROVE  /\ c \in DOMAIN TakenOver(cs, v, c, req, t)
           /\ TakenOver(cs, v, c, req, t)[c] = NewClaim(req, NoClaim, "ACTIVE", t)
<1> DEFINE x == NewClaim(req, NoClaim, "ACTIVE", t)
           freed == CloseOrphans(Close(cs, {v}, "OVERRIDDEN"))
           es == Put(freed, c, x)
<1>1. c \in DOMAIN es /\ es[c] = x
  BY DEF Put
<1>2. x.status = "ACTIVE"
  BY DEF NewClaim
<1> HIDE DEF es, x
<1>3. c \notin Promotable(es)
  BY <1>1, <1>2, PromotableQueued DEF Queued, WithStatus
<1>4. c \in DOMAIN Promote(es, t) /\ Promote(es, t)[c] = x
  BY <1>1, <1>3 DEF Promote
<1> QED
  BY <1>4 DEF TakenOver, es, x

\* An accepted claim is a new one, with a lease that ends later.
LEMMA AcceptedClaim ==
    ASSUME NEW c \in ClaimId, NEW req \in Requests, NEW d \in Delegations \cup {NoClaim},
           NEW t \in Time,
           Acquire(c, req, d, t) \/ \E a \in Approvals : Override(c, req, a, t)
    PROVE  c \notin DOMAIN claims /\ c \in DOMAIN claims'
           /\ claims'[c].expires \in Nat /\ claims'[c].expires > 0
<1>1. req \in Request /\ t \in Nat
  BY InputAssumption
<1>2. c \notin DOMAIN claims
  BY DEF Acquire, Override
<1>3. \E par : c \in DOMAIN claims' /\ claims'[c] = NewClaim(req, par, "ACTIVE", t)
  <2>1. CASE Acquire(c, req, d, t)
    BY <2>1 DEF Acquire, Commit, Put
  <2>2. ASSUME NEW a \in Approvals, Override(c, req, a, t)
        PROVE  c \in DOMAIN claims' /\ claims'[c] = NewClaim(req, NoClaim, "ACTIVE", t)
    BY <2>2, TakenOverNew DEF Override, Commit
  <2> QED
    BY <2>1, <2>2
<1>4. req.ttl \in Nat \ {0}
  BY <1>1 DEF Request
<1> QED
  BY <1>1, <1>2, <1>3, <1>4 DEF NewClaim

-----------------------------------------------------------------------------
(* The commands *)

LEMMA IdleCommand ==
    /\ Idle.pc = "idle" /\ Idle.claim \in ClaimId /\ Idle.until = 0 /\ Idle.read = None
    /\ None \in [ClaimId -> Statuses]
  BY GateAssumption DEF Idle, None, Statuses

\* What p knows is true of the claims that its command is for.
Knows(p) ==
    \A c \in ClaimId :
        /\ Issues(p, c) => c \in DOMAIN claims /\ tokens[c] = 0 /\ command[p].until > 0
        /\ Revokes(p, c) => c \in DOMAIN claims \ Open(claims)
        /\ Attests(p, c) => tokens[c] # 0 /\ command[p].read[c] = "issued"

\* A step of p leaves what the other commands know true: the board only moves on, and
\* no token but that of a claim p issues for is touched.
LEMMA OthersStillKnow ==
    ASSUME GateInv, NEW p \in Command, After(claims, claims'),
           \A q \in Command \ {p} : command'[q] = command[q],
           \A c \in ClaimId : /\ tokens[c] # 0 => tokens'[c] # 0
                              /\ tokens'[c] # tokens[c] => Issues(p, c),
           Knows(p)',
           \A c \in ClaimId : Issues(p, c)' => \A q \in Command \ {p} : ~Issues(q, c)
    PROVE  CommandsKnow'
<1> USE DEF GateInv, CommandsKnow
<1> SUFFICES ASSUME NEW q \in Command, NEW c \in ClaimId
             PROVE  /\ Issues(q, c)' => /\ c \in DOMAIN claims' /\ tokens'[c] = 0
                                        /\ command'[q].until > 0
                                        /\ \A r \in Command : Issues(r, c)' => r = q
                    /\ Revokes(q, c)' => c \in DOMAIN claims' \ Open(claims')
                    /\ Attests(q, c)' => tokens'[c] # 0 /\ command'[q].read[c] = "issued"
  OBVIOUS
<1>1. \A r \in Command \ {p}, d \in ClaimId :
        /\ Issues(r, d)' <=> Issues(r, d)
        /\ Revokes(r, d)' <=> Revokes(r, d)
        /\ Attests(r, d)' <=> Attests(r, d)
  BY DEF Issues, Revokes, Attests, For
<1>2. CASE q = p
  <2>1. /\ Issues(p, c)' => c \in DOMAIN claims' /\ tokens'[c] = 0 /\ command'[p].until > 0
        /\ Revokes(p, c)' => c \in DOMAIN claims' \ Open(claims')
        /\ Attests(p, c)' => tokens'[c] # 0 /\ command'[p].read[c] = "issued"
    BY DEF Knows
  <2> QED
    BY <1>1, <1>2, <2>1
<1>3. CASE q # p
  <2>1. Issues(q, c) => tokens'[c] = 0 /\ ~Issues(p, c) /\ ~Issues(p, c)'
    BY <1>3
  <2>2. Issues(q, c) => c \in DOMAIN claims'
    BY DEF After
  <2>3. Revokes(q, c) => c \in DOMAIN claims' \ Open(claims')
    BY DEF After
  <2>4. command'[q] = command[q]
    BY <1>3
  <2> QED
    BY <1>1, <1>3, <2>1, <2>2, <2>3, <2>4
<1> QED
  BY <1>2, <1>3

\* The board moves on, and the records and tokens stay.
LEMMA RecordsStillTell ==
    ASSUME GateInv, After(claims, claims'), UNCHANGED <<records, tokens, attested, lost>>
    PROVE  Tokenless' /\ RecordsTell'
  BY DEF GateInv, Tokenless, RecordsTell, RecordTells, After

Commands == [pc : {"idle", "issue", "issuing", "revoke", "revoking", "check", "burn"},
             claim : ClaimId, until : Nat, read : [ClaimId -> Statuses]]

\* A command that is over knows nothing.
LEMMA DoneKnows ==
    ASSUME GateInv, NEW p \in Command, Done(p)
    PROVE  /\ command' \in [Command -> Commands] /\ command'[p].pc = "idle"
           /\ \A q \in Command \ {p} : command'[q] = command[q]
           /\ Knows(p)' /\ \A c \in ClaimId : ~Issues(p, c)'
<1>1. command \in [Command -> Commands] /\ Idle \in Commands
  BY IdleCommand, GateAssumption DEF GateInv, GateTypeOK, Commands, Idle
<1>2. /\ command' \in [Command -> Commands] /\ command'[p] = Idle
      /\ \A q \in Command \ {p} : command'[q] = command[q]
  BY <1>1 DEF Done
<1>3. command'[p].pc = "idle"
  BY <1>2, IdleCommand
<1> QED
  BY <1>2, <1>3 DEF Knows, Issues, Revokes, Attests, For

LEMMA BeginTypes ==
    ASSUME GateInv, NEW p \in Command, NEW pc \in {"issue", "revoke"}, NEW c \in ClaimId,
           NEW until \in Nat, Begin(p, pc, c, until)
    PROVE  /\ command' \in [Command -> Commands]
           /\ command'[p].pc = pc /\ command'[p].claim = c /\ command'[p].until = until
           /\ \A q \in Command \ {p} : command'[q] = command[q]
<1> DEFINE new == [pc |-> pc, claim |-> c, until |-> until, read |-> None]
<1>1. command \in [Command -> Commands] /\ new \in Commands
  BY IdleCommand DEF GateInv, GateTypeOK, Commands
<1> QED
  BY <1>1 DEF Begin

-----------------------------------------------------------------------------
(* The invariant holds at first, and each step keeps it *)

LEMMA GateInitInv == GateInit => GateInv
<1> SUFFICES ASSUME GateInit PROVE GateInv
  OBVIOUS
<1>1. IInv
  BY InitSound DEF GateInit
<1>2. DOMAIN claims = {}
  BY DEF GateInit, Init
<1>3. \A p \in Command : command[p] = Idle /\ command[p].pc = "idle"
  BY IdleCommand DEF GateInit
<1>4. Idle \in Commands
  BY IdleCommand, GateAssumption DEF Commands, Idle
<1>5. GateTypeOK
  BY <1>4, IdleCommand DEF GateInit, GateTypeOK, Commands
<1>6. CommandsKnow
  BY <1>3 DEF CommandsKnow, Issues, Revokes, Attests, For
<1>7. \A c \in ClaimId : tokens[c] = 0 /\ attested[c] = 0 /\ records[c] = "none"
  BY DEF GateInit, None
<1>8. Tokenless /\ RecordsTell
  BY <1>7 DEF Tokenless, RecordsTell, RecordTells
<1> QED
  BY <1>1, <1>5, <1>6, <1>8 DEF GateInv

LEMMA StoreStepKeeps ==
    ASSUME GateInv, [Next]_vars, UNCHANGED gate
    PROVE  GateInv'
<1>1. IInv' /\ After(claims, claims')
  BY StoreStepAfter DEF GateInv
<1>2. UNCHANGED <<records, tokens, command, attested, lost>>
  BY DEF gate
<1>3. Tokenless' /\ RecordsTell'
  BY <1>1, <1>2, RecordsStillTell
<1>4. GateTypeOK'
  BY <1>2 DEF GateInv, GateTypeOK
<1>5. CommandsKnow'
  BY <1>1, <1>2 DEF GateInv, CommandsKnow, Issues, Revokes, Attests, For, After
<1> QED
  BY <1>1, <1>3, <1>4, <1>5 DEF GateInv

LEMMA AcceptKeeps ==
    ASSUME GateInv, NEW p \in Command, NEW c \in ClaimId, NEW req \in Requests,
           NEW d \in Delegations \cup {NoClaim}, NEW t \in Time, Accept(p, c, req, d, t),
           [Next]_vars
    PROVE  GateInv'
<1>1. IInv' /\ After(claims, claims')
  BY StoreStepAfter DEF GateInv
<1>2. /\ c \notin DOMAIN claims /\ c \in DOMAIN claims'
      /\ claims'[c].expires \in Nat /\ claims'[c].expires > 0
  BY AcceptedClaim DEF Accept
<1>3. /\ Begin(p, "issue", c, claims'[c].expires)
      /\ UNCHANGED <<records, tokens, attested, lost>>
  BY DEF Accept
<1>4. /\ command' \in [Command -> Commands]
      /\ command'[p].pc = "issue" /\ command'[p].claim = c
      /\ command'[p].until = claims'[c].expires
      /\ \A q \in Command \ {p} : command'[q] = command[q]
  BY <1>2, <1>3, BeginTypes
<1>5. GateTypeOK'
  BY <1>3, <1>4 DEF GateInv, GateTypeOK, Commands
<1>6. tokens[c] = 0
  BY <1>2 DEF GateInv, Tokenless
<1>7. Knows(p)'
  BY <1>2, <1>3, <1>4, <1>6 DEF Knows, Issues, Revokes, Attests, For
<1>8. \A b \in ClaimId : Issues(p, b)' => \A q \in Command \ {p} : ~Issues(q, b)
  BY <1>2, <1>4 DEF GateInv, CommandsKnow, Issues, For
<1>9. CommandsKnow'
  BY <1>1, <1>3, <1>4, <1>7, <1>8, OthersStillKnow
<1> QED
  BY <1>1, <1>3, <1>5, <1>9, RecordsStillTell DEF GateInv

\* A claim that is released is closed.
LEMMA ReleasedIsClosed ==
    ASSUME IInv, NEW c, NEW o, NEW t \in Time, Release(c, o, t)
    PROVE  c \in DOMAIN claims' \ Open(claims')
<1> DEFINE cs == Swept(t)
           ds == CloseOrphans(Close(cs, {c}, "RELEASED"))
<1>1. t \in Nat /\ c \in DOMAIN claims /\ claims' = Promote(ds, t)
  BY InputAssumption DEF Release, Commit, Freed
<1>2. Sound(cs, t) /\ Board(cs) /\ DOMAIN cs = DOMAIN claims
  BY <1>1, SweptSound DEF IInv, Standing, Sound
<1>3. "RELEASED" \in ClosedStatus
  BY DEF ClosedStatus
<1>4. DOMAIN ds = DOMAIN cs /\ Open(ds) \subseteq Open(cs) \ {c}
  BY <1>2, <1>3, CascadeRecords
<1>5. Settled(ds, t)
  BY <1>1, <1>2, <1>3, ReleaseSound
<1> HIDE DEF ds, cs
<1>6. /\ DOMAIN claims' = DOMAIN ds
      /\ Active(claims') = Active(ds) \cup Promotable(ds)
      /\ Queued(claims') = Queued(ds) \ Promotable(ds)
  BY <1>1, <1>5, PromoteRecords DEF Settled, Good
<1>7. Open(claims') \subseteq Open(ds)
  BY <1>6, PromotableQueued DEF Open
<1> QED
  BY <1>1, <1>2, <1>4, <1>6, <1>7

LEMMA ReleaseClaimKeeps ==
    ASSUME GateInv, NEW p \in Command, NEW c \in ClaimId, NEW o, NEW t \in Time,
           ReleaseClaim(p, c, o, t), [Next]_vars
    PROVE  GateInv'
<1>1. IInv' /\ After(claims, claims')
  BY StoreStepAfter DEF GateInv
<1>2. c \in DOMAIN claims' \ Open(claims')
  BY ReleasedIsClosed DEF ReleaseClaim, GateInv
<1>3. Begin(p, "revoke", c, 0) /\ UNCHANGED <<records, tokens, attested, lost>>
  BY DEF ReleaseClaim
<1>4. /\ command' \in [Command -> Commands]
      /\ command'[p].pc = "revoke" /\ command'[p].claim = c
      /\ \A q \in Command \ {p} : command'[q] = command[q]
  BY <1>3, BeginTypes
<1>5. GateTypeOK'
  BY <1>3, <1>4 DEF GateInv, GateTypeOK, Commands
<1>6. Knows(p)' /\ \A b \in ClaimId : ~Issues(p, b)'
  BY <1>2, <1>4 DEF Knows, Issues, Revokes, Attests, For
<1>7. CommandsKnow'
  BY <1>1, <1>3, <1>4, <1>6, OthersStillKnow
<1> QED
  BY <1>1, <1>3, <1>5, <1>7, RecordsStillTell DEF GateInv

LEMMA StoreStays ==
    ASSUME GateInv, UNCHANGED <<claims, clock, overrides>>
    PROVE  IInv' /\ After(claims, claims')
  BY StoreStepAfter DEF GateInv, vars

LEMMA ReadRecordsKeeps ==
    ASSUME GateInv, NEW p \in Command, ReadRecords(p)
    PROVE  GateInv'
<1> DEFINE old == command[p]
           new == [old EXCEPT !.pc = IF old.pc = "issue" THEN "issuing" ELSE "revoking",
                              !.read = records]
<1>1. /\ old.pc \in {"issue", "revoke"}
      /\ command' = [command EXCEPT ![p].pc = IF old.pc = "issue" THEN "issuing" ELSE "revoking",
                                    ![p].read = records]
      /\ UNCHANGED <<claims, clock, overrides, records, tokens, attested, lost>>
  BY DEF ReadRecords
<1>2. IInv' /\ After(claims, claims')
  BY <1>1, StoreStays
<1>3. command \in [Command -> Commands] /\ records \in [ClaimId -> Statuses]
  BY DEF GateInv, GateTypeOK, Commands
<1>4. /\ new \in Commands /\ new.claim = old.claim /\ new.until = old.until
      /\ new.pc = IF old.pc = "issue" THEN "issuing" ELSE "revoking"
  BY <1>3 DEF Commands
<1>5. /\ command' \in [Command -> Commands] /\ command'[p] = new
      /\ \A q \in Command \ {p} : command'[q] = command[q]
  BY <1>1, <1>3, <1>4
<1> HIDE DEF new
<1>6. GateTypeOK'
  BY <1>1, <1>5 DEF GateInv, GateTypeOK, Commands
<1>7. \A c \in ClaimId : /\ Issues(p, c)' <=> Issues(p, c)
                         /\ Revokes(p, c)' <=> Revokes(p, c)
                         /\ ~Attests(p, c)'
  BY <1>1, <1>4, <1>5 DEF Issues, Revokes, Attests, For
<1>8. Knows(p)'
  BY <1>1, <1>4, <1>5, <1>7 DEF GateInv, CommandsKnow, Knows
<1>9. \A c \in ClaimId : Issues(p, c)' => \A q \in Command \ {p} : ~Issues(q, c)
  BY <1>7 DEF GateInv, CommandsKnow
<1>10. CommandsKnow'
  BY <1>1, <1>2, <1>5, <1>8, <1>9, OthersStillKnow
<1> QED
  BY <1>1, <1>2, <1>6, <1>10, RecordsStillTell DEF GateInv

LEMMA PresentKeeps ==
    ASSUME GateInv, NEW p \in Command, NEW c \in ClaimId, NEW t \in Time, Present(p, c, t)
    PROVE  GateInv'
<1> DEFINE new == [pc |-> "check", claim |-> c, until |-> 0, read |-> records]
<1>1. /\ tokens[c] > t /\ records[c] = "issued" /\ command' = [command EXCEPT ![p] = new]
      /\ UNCHANGED <<claims, clock, overrides, records, tokens, attested, lost>>
  BY DEF Present, Unspent
<1>2. IInv' /\ After(claims, claims')
  BY <1>1, StoreStays
<1>3. command \in [Command -> Commands] /\ new \in Commands
  BY DEF GateInv, GateTypeOK, Commands
<1>4. /\ command' \in [Command -> Commands] /\ command'[p] = new
      /\ \A q \in Command \ {p} : command'[q] = command[q]
  BY <1>1, <1>3
<1>5. GateTypeOK'
  BY <1>1, <1>4 DEF GateInv, GateTypeOK, Commands
<1>6. tokens[c] # 0
  BY <1>1, InputAssumption DEF GateInv, GateTypeOK
<1>7. Knows(p)' /\ \A b \in ClaimId : ~Issues(p, b)'
  BY <1>1, <1>4, <1>6 DEF Knows, Issues, Revokes, Attests, For
<1>8. CommandsKnow'
  BY <1>1, <1>2, <1>4, <1>7, OthersStillKnow
<1> QED
  BY <1>1, <1>2, <1>5, <1>8, RecordsStillTell DEF GateInv

LEMMA CheckClaimKeeps ==
    ASSUME GateInv, NEW p \in Command, NEW t \in Time, CheckClaim(p, t), [Next]_vars
    PROVE  GateInv'
<1>1. IInv' /\ After(claims, claims')
  BY StoreStepAfter DEF GateInv
<1>2. /\ command[p].pc = "check" /\ (Goto(p, "burn") \/ Done(p))
      /\ UNCHANGED <<records, tokens, attested, lost>>
  BY DEF CheckClaim
<1>3. CASE Done(p)
  <2>1. /\ command' \in [Command -> Commands]
        /\ \A q \in Command \ {p} : command'[q] = command[q]
        /\ Knows(p)' /\ \A c \in ClaimId : ~Issues(p, c)'
    BY <1>3, DoneKnows
  <2>2. GateTypeOK'
    BY <1>2, <2>1 DEF GateInv, GateTypeOK, Commands
  <2>3. CommandsKnow'
    BY <1>1, <1>2, <2>1, OthersStillKnow
  <2> QED
    BY <1>1, <1>2, <2>2, <2>3, RecordsStillTell DEF GateInv
<1>4. CASE Goto(p, "burn")
  <2> DEFINE new == [command[p] EXCEPT !.pc = "burn"]
  <2>1. command \in [Command -> Commands]
    BY DEF GateInv, GateTypeOK, Commands
  <2>2. /\ new \in Commands /\ new.claim = command[p].claim /\ new.read = command[p].read
        /\ new.pc = "burn"
    BY <2>1 DEF Commands
  <2>3. /\ command' \in [Command -> Commands] /\ command'[p] = new
        /\ \A q \in Command \ {p} : command'[q] = command[q]
    BY <1>4, <2>1, <2>2 DEF Goto
  <2> HIDE DEF new
  <2>4. GateTypeOK'
    BY <1>2, <2>3 DEF GateInv, GateTypeOK, Commands
  <2>5. \A c \in ClaimId : ~Issues(p, c)' /\ ~Revokes(p, c)' /\ (Attests(p, c)' <=> Attests(p, c))
    BY <1>2, <2>2, <2>3 DEF Issues, Revokes, Attests, For
  <2>6. Knows(p)'
    BY <1>2, <2>2, <2>3, <2>5 DEF GateInv, CommandsKnow, Knows
  <2>7. CommandsKnow'
    BY <1>1, <1>2, <2>3, <2>5, <2>6, OthersStillKnow
  <2> QED
    BY <1>1, <1>2, <2>4, <2>7, RecordsStillTell DEF GateInv
<1> QED
  BY <1>2, <1>3, <1>4

\* The file as p writes it back, which differs at its own claim; what it has undone that
\* way it says.
LEMMA WriteBackOne ==
    ASSUME GateInv, NEW p \in Command, NEW st \in Statuses, WriteBack(p, st)
    PROVE  /\ command[p].claim \in ClaimId /\ command[p].until \in Nat
           /\ records' \in [ClaimId -> Statuses] /\ lost' \in BOOLEAN
           /\ records'[command[p].claim] = st
           /\ ~lost' => /\ ~lost
                        /\ \A c \in ClaimId \ {command[p].claim} : records'[c] = records[c]
                        /\ command[p].read = records
<1>1. /\ command[p].claim \in ClaimId /\ command[p].until \in Nat
      /\ command[p].read \in [ClaimId -> Statuses] /\ lost \in BOOLEAN
  BY DEF GateInv, GateTypeOK
<1> QED
  BY <1>1 DEF WriteBack

LEMMA IssueKeeps ==
    ASSUME GateInv, NEW p \in Command, Issue(p)
    PROVE  GateInv'
<1> DEFINE c == command[p].claim
<1>1. /\ command[p].pc = "issuing" /\ WriteBack(p, "issued") /\ Done(p)
      /\ tokens' = [tokens EXCEPT ![c] = command[p].until]
      /\ UNCHANGED <<claims, clock, overrides, attested>>
  BY DEF Issue
<1>2. IInv' /\ After(claims, claims')
  BY <1>1, StoreStays
<1>3. /\ c \in ClaimId /\ command[p].until \in Nat
      /\ records' \in [ClaimId -> Statuses] /\ lost' \in BOOLEAN /\ records'[c] = "issued"
      /\ ~lost' => ~lost /\ \A b \in ClaimId \ {c} : records'[b] = records[b]
  BY <1>1, WriteBackOne DEF Statuses
<1>4. Issues(p, c) /\ c \in DOMAIN claims /\ tokens[c] = 0 /\ command[p].until > 0
  BY <1>1, <1>3 DEF Issues, For, GateInv, CommandsKnow
<1>5. /\ tokens' \in [ClaimId -> Nat] /\ tokens'[c] > 0 /\ attested[c] = 0
      /\ \A b \in ClaimId \ {c} : tokens'[b] = tokens[b]
  BY <1>1, <1>3, <1>4 DEF GateInv, GateTypeOK, Tokenless
<1>6. /\ command' \in [Command -> Commands]
      /\ \A q \in Command \ {p} : command'[q] = command[q]
      /\ Knows(p)' /\ \A b \in ClaimId : ~Issues(p, b)'
  BY <1>1, DoneKnows
<1>7. GateTypeOK'
  BY <1>1, <1>3, <1>5, <1>6 DEF GateInv, GateTypeOK, Commands
<1>8. CommandsKnow'
  BY <1>2, <1>4, <1>5, <1>6, OthersStillKnow
<1>9. Tokenless'
  BY <1>1, <1>4, <1>5 DEF GateInv, Tokenless
<1>10. RecordsTell'
  BY <1>1, <1>3, <1>5 DEF GateInv, RecordsTell, RecordTells
<1> QED
  BY <1>2, <1>7, <1>8, <1>9, <1>10 DEF GateInv

LEMMA RevokeKeeps ==
    ASSUME GateInv, NEW p \in Command, Revoke(p)
    PROVE  GateInv'
<1> DEFINE c == command[p].claim
<1>1. /\ command[p].pc = "revoking" /\ Done(p)
      /\ UNCHANGED <<records, lost>> \/ WriteBack(p, "none")
      /\ UNCHANGED <<claims, clock, overrides, tokens, attested>>
  BY DEF Revoke
<1>2. IInv' /\ After(claims, claims')
  BY <1>1, StoreStays
<1>3. /\ command' \in [Command -> Commands]
      /\ \A q \in Command \ {p} : command'[q] = command[q]
      /\ Knows(p)' /\ \A b \in ClaimId : ~Issues(p, b)'
  BY <1>1, DoneKnows
<1>4. CommandsKnow'
  BY <1>1, <1>2, <1>3, OthersStillKnow
<1>5. CASE UNCHANGED <<records, lost>>
  <2>1. GateTypeOK'
    BY <1>1, <1>3, <1>5 DEF GateInv, GateTypeOK, Commands
  <2> QED
    BY <1>1, <1>2, <1>4, <1>5, <2>1, RecordsStillTell DEF GateInv
<1>6. CASE WriteBack(p, "none")
  <2>1. /\ c \in ClaimId
        /\ records' \in [ClaimId -> Statuses] /\ lost' \in BOOLEAN /\ records'[c] = "none"
        /\ ~lost' => ~lost /\ \A b \in ClaimId \ {c} : records'[b] = records[b]
    BY <1>6, WriteBackOne DEF Statuses
  <2>2. c \notin Open(claims)
    BY <1>1, <2>1 DEF Revokes, For, GateInv, CommandsKnow
  <2>3. GateTypeOK'
    BY <1>1, <1>3, <2>1 DEF GateInv, GateTypeOK, Commands
  <2>4. Tokenless'
    BY <1>1 DEF GateInv, Tokenless
  <2>5. RecordsTell'
    BY <1>1, <2>1, <2>2 DEF GateInv, RecordsTell, RecordTells
  <2> QED
    BY <1>2, <1>4, <2>3, <2>4, <2>5 DEF GateInv
<1> QED
  BY <1>1, <1>5, <1>6

LEMMA BurnKeeps ==
    ASSUME GateInv, NEW p \in Command, Burn(p)
    PROVE  GateInv'
<1> DEFINE c == command[p].claim
<1>1. /\ command[p].pc = "burn" /\ WriteBack(p, "consumed") /\ Done(p)
      /\ attested' = [attested EXCEPT ![c] = @ + 1]
      /\ UNCHANGED <<claims, clock, overrides, tokens>>
  BY DEF Burn
<1>2. IInv' /\ After(claims, claims')
  BY <1>1, StoreStays
<1>3. /\ c \in ClaimId
      /\ records' \in [ClaimId -> Statuses] /\ lost' \in BOOLEAN /\ records'[c] = "consumed"
      /\ ~lost' => /\ ~lost /\ command[p].read = records
                   /\ \A b \in ClaimId \ {c} : records'[b] = records[b]
  BY <1>1, WriteBackOne DEF Statuses
<1>4. tokens[c] # 0 /\ command[p].read[c] = "issued"
  BY <1>1, <1>3 DEF Attests, For, GateInv, CommandsKnow
<1>5. /\ attested' \in [ClaimId -> Nat] /\ attested'[c] = attested[c] + 1
      /\ \A b \in ClaimId \ {c} : attested'[b] = attested[b]
  BY <1>1, <1>3 DEF GateInv, GateTypeOK
<1>6. /\ command' \in [Command -> Commands]
      /\ \A q \in Command \ {p} : command'[q] = command[q]
      /\ Knows(p)' /\ \A b \in ClaimId : ~Issues(p, b)'
  BY <1>1, DoneKnows
<1>7. GateTypeOK'
  BY <1>1, <1>3, <1>5, <1>6 DEF GateInv, GateTypeOK, Commands
<1>8. CommandsKnow'
  BY <1>1, <1>2, <1>6, OthersStillKnow
<1>9. Tokenless'
  BY <1>1, <1>4, <1>5 DEF GateInv, Tokenless
<1>10. RecordsTell'
  <2>1. ~lost' => attested[c] = 0
    BY <1>3, <1>4 DEF GateInv, RecordsTell, RecordTells
  <2> QED
    BY <1>1, <1>3, <1>4, <1>5, <2>1 DEF GateInv, RecordsTell, RecordTells
<1> QED
  BY <1>2, <1>7, <1>8, <1>9, <1>10 DEF GateInv

LEMMA DieKeeps ==
    ASSUME GateInv, NEW p \in Command, Die(p)
    PROVE  GateInv'
<1>1. Done(p) /\ UNCHANGED <<claims, clock, overrides, records, tokens, attested, lost>>
  BY DEF Die
<1>2. IInv' /\ After(claims, claims')
  BY <1>1, StoreStays
<1>3. /\ command' \in [Command -> Commands]
      /\ \A q \in Command \ {p} : command'[q] = command[q]
      /\ Knows(p)' /\ \A b \in ClaimId : ~Issues(p, b)'
  BY <1>1, DoneKnows
<1>4. GateTypeOK'
  BY <1>1, <1>3 DEF GateInv, GateTypeOK, Commands
<1>5. CommandsKnow'
  BY <1>1, <1>2, <1>3, OthersStillKnow
<1> QED
  BY <1>1, <1>2, <1>4, <1>5, RecordsStillTell DEF GateInv

-----------------------------------------------------------------------------
(* The theorems *)

LEMMA GateStepInv == GateInv /\ [GateNext]_gateVars => GateInv'
<1> SUFFICES ASSUME GateInv, [GateNext]_gateVars PROVE GateInv'
  OBVIOUS
<1>1. [Next]_vars
  BY GateStepIsStoreStep
<1>2. CASE UNCHANGED gateVars
  BY <1>1, <1>2, StoreStepKeeps DEF gateVars, gate
<1>3. ASSUME NEW t \in Time, UNCHANGED gate PROVE GateInv'
  BY <1>1, <1>3, StoreStepKeeps
<1>4. ASSUME NEW p \in Command, NEW t \in Time, NEW c \in ClaimId, NEW req \in Requests,
             NEW d \in Delegations \cup {NoClaim}, Accept(p, c, req, d, t)
      PROVE  GateInv'
  BY <1>1, <1>4, AcceptKeeps
<1>5. ASSUME NEW p \in Command, NEW t \in Time, NEW c \in ClaimId, NEW o \in Owner,
             ReleaseClaim(p, c, o, t)
      PROVE  GateInv'
  BY <1>1, <1>5, ReleaseClaimKeeps
<1>6. ASSUME NEW p \in Command, NEW t \in Time, NEW c \in ClaimId, Present(p, c, t)
      PROVE  GateInv'
  BY <1>6, PresentKeeps
<1>7. ASSUME NEW p \in Command, NEW t \in Time, CheckClaim(p, t) PROVE GateInv'
  BY <1>1, <1>7, CheckClaimKeeps
<1>8. ASSUME NEW p \in Command, ReadRecords(p) \/ Issue(p) \/ Revoke(p) \/ Burn(p) \/ Die(p)
      PROVE  GateInv'
  BY <1>8, ReadRecordsKeeps, IssueKeeps, RevokeKeeps, BurnKeeps, DieKeeps
<1> QED
  BY <1>2, <1>3, <1>4, <1>5, <1>6, <1>7, <1>8 DEF GateNext

LEMMA GateInvariance == GateSpec => []GateInv
  BY GateInitInv, GateStepInv, PTL DEF GateSpec

\* The gate's file, the tokens that were given out and what the commands have read have
\* their types.
THEOREM GateTypeCorrect == GateSpec => []GateTypeOK
<1>1. GateInv => GateTypeOK
  BY DEF GateInv
<1> QED
  BY <1>1, GateInvariance, PTL

\* "One-shot write token (consumed at attest time)": as long as no two commands have
\* written the file over each other, a token is burnt for one commit at most, a burnt one
\* was burnt for one, and none that was given out is gone while its claim is open.
THEOREM TokenIsOneShot == GateSpec => []OneShotUnlessOverwritten
<1>1. GateInv => OneShotUnlessOverwritten
  BY DEF GateInv, RecordsTell, RecordTells, OneShotUnlessOverwritten
<1> QED
  BY <1>1, GateInvariance, PTL

\* The sweep changes no claim's repo, scopes or parent.
LEMMA SweptRecords ==
    ASSUME NEW cs, NEW t \in Nat, Good(cs), OneDeep(cs)
    PROVE  LET ds == ExpireStale(cs, t)
           IN  /\ DOMAIN ds = DOMAIN cs
               /\ \A c \in DOMAIN cs : /\ ds[c].repo = cs[c].repo /\ ds[c].parent = cs[c].parent
                                       /\ ds[c].scopes = cs[c].scopes
<1> DEFINE closed == Close(cs, Lapsed(cs, t), "EXPIRED")
           es == CloseOrphans(closed)
           Same(as, bs) == /\ DOMAIN bs = DOMAIN as
                           /\ \A c \in DOMAIN as : /\ bs[c].repo = as[c].repo
                                                   /\ bs[c].parent = as[c].parent
                                                   /\ bs[c].scopes = as[c].scopes
<1>1. "EXPIRED" \in ClosedStatus /\ Board(cs)
  BY DEF ClosedStatus, Good
<1>2. Same(cs, closed) /\ Good(closed)
  BY <1>1, CloseRecords, CloseGood
<1> HIDE DEF closed
<1>3. Same(closed, es) /\ Good(es)
  BY <1>1, <1>2, CloseRecords, CloseGood DEF CloseOrphans, Good
<1> HIDE DEF es
<1>4. Same(es, Promote(es, t))
  BY <1>3, PromoteRecords DEF Good
<1> QED
  BY <1>2, <1>3, <1>4 DEF ExpireStale, es, closed

\* Two owners whose scopes overlap never hold tokens that the gate takes at the same
\* moment, unless one claim was delegated by the other: the gate looks at a swept board,
\* and on that two such claims are not both active.
THEOREM GateHasOneWriter == GateSpec => []OneWriter
<1>1. IInv => OneWriter
  <2> SUFFICES ASSUME IInv, NEW t \in Time, NEW b \in ClaimId, NEW c \in ClaimId,
                      b # c, Writes(b, t), Writes(c, t), claims[b].repo = claims[c].repo
               PROVE  \/ b = claims[c].parent \/ c = claims[b].parent
                      \/ ~ScopesOverlap(claims[b].scopes, claims[c].scopes)
    BY DEF OneWriter
  <2> DEFINE ds == ExpireStale(claims, t)
  <2>1. t \in Nat /\ Good(claims) /\ OneDeep(claims)
    BY InputAssumption DEF IInv, Sound, Settled
  <2>2. Exclusive(ds)
    BY <2>1, SweepSound DEF Sound, Settled, Good
  <2>3. /\ DOMAIN ds = DOMAIN claims
        /\ \A a \in DOMAIN claims : /\ ds[a].repo = claims[a].repo
                                    /\ ds[a].parent = claims[a].parent
                                    /\ ds[a].scopes = claims[a].scopes
    BY <2>1, SweptRecords
  <2>4. b \in Active(ds) /\ c \in Active(ds)
    BY DEF Writes, Holds
  <2> HIDE DEF ds
  <2>5. b \in DOMAIN claims /\ c \in DOMAIN claims
    BY <2>3, <2>4 DEF Active, WithStatus
  <2> QED
    BY <2>2, <2>3, <2>4, <2>5 DEF Exclusive
<1>2. GateInv => OneWriter
  BY <1>1 DEF GateInv
<1> QED
  BY <1>2, GateInvariance, PTL

LEMMA SweepKeeps == ASSUME NEW cs, NEW t PROVE Keeps(cs, ExpireStale(cs, t))
<1> DEFINE ended == Close(cs, Lapsed(cs, t), "EXPIRED")
<1>1. Keeps(cs, ended)
  BY CloseKeeps DEF Lapsed, Open
<1>2. Keeps(ended, CloseOrphans(ended))
  BY CloseOrphansKeeps
<1>3. Keeps(CloseOrphans(ended), ExpireStale(cs, t))
  BY PromoteKeeps DEF ExpireStale
<1> QED
  BY <1>1, <1>2, <1>3, KeepsTransitive

\* Once a claim has ended, no step of any command lets the holder of its token write
\* again: its record stays closed, and a sweep never shows a closed record as active.
THEOREM TokenDiesWithItsClaim == GateSpec => EndedWritesNoMore
<1>1. [GateNext]_gateVars =>
        [\A c \in DOMAIN claims : claims[c].status \in ClosedStatus =>
            \A t \in Time : ~Writes(c, t)']_gateVars
  <2> SUFFICES ASSUME GateNext, NEW c \in DOMAIN claims, claims[c].status \in ClosedStatus,
                      NEW t \in Time
               PROVE  ~Writes(c, t)'
    BY DEF gateVars
  <2> DEFINE swept == ExpireStale(claims', t)
  <2>1. Keeps(claims, claims')
    <3>1. CASE Next
      BY <3>1, NextKeeps, KeepsTransitive
    <3>2. CASE UNCHANGED vars
      BY <3>2 DEF vars, Keeps
    <3> QED
      BY <3>1, <3>2, GateStepIsStoreStep
  <2>2. c \in DOMAIN claims' /\ claims'[c].status \in ClosedStatus
    BY <2>1 DEF Keeps
  <2>3. swept[c] = claims'[c]
    BY <2>2, SweepKeeps DEF Keeps
  <2>4. c \notin Active(swept)
    BY <2>2, <2>3 DEF Active, WithStatus, ClosedStatus
  <2> QED
    BY <2>4 DEF Writes, Holds
<1> QED
  BY <1>1, PTL DEF GateSpec, EndedWritesNoMore
=============================================================================

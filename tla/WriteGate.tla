------------------------------ MODULE WriteGate ------------------------------
(***************************************************************************)
(* The write gate (src/lumos_board/write_gate.py) over the claim store, as *)
(* claim_cli.py drives it with LUMOS_WRITE_GATE_SECRET set: an accepted    *)
(* claim gets a write token, write-attest burns it for one commit, release *)
(* revokes it.  write_credentials.json is read and written whole, without a*)
(* lock: a step of the gate is one read or one write of it, and commands   *)
(* interleave, and die, in between.                                        *)
(*                                                                         *)
(* The CLI issues one token per claim, so a token is known by its claim.   *)
(* Owners present their own tokens for paths of their own scopes, and      *)
(* anything else is refused without a write.  A write of the file is whole *)
(* (what a reader meets of one that is cut short is left out).             *)
(***************************************************************************)
EXTENDS TaskClaims

CONSTANTS Command,      \* commands that run at the same time
          MaxAttested   \* bound of a run

ASSUME GateAssumption == ClaimId # {}

VARIABLES
    records,            \* write_credentials.json: claim -> its token's status
    tokens,             \* claim -> expires_at of the token its owner was given
    command,            \* what a command does, and the records it has read
    attested,           \* claim -> commits its token was burnt for
    lost                \* a write has undone one its writer had not read

gate == <<records, tokens, command, attested, lost>>
gateVars == <<claims, clock, overrides, records, tokens, command, attested, lost>>

None == [c \in ClaimId |-> "none"]

Idle == [pc |-> "idle", claim |-> CHOOSE c \in ClaimId : TRUE, until |-> 0,
         read |-> None]

GateInit ==
    /\ Init
    /\ records = None
    /\ tokens = [c \in ClaimId |-> 0]
    /\ command = [p \in Command |-> Idle]
    /\ attested = [c \in ClaimId |-> 0]
    /\ lost = FALSE

Goto(p, pc) == command' = [command EXCEPT ![p].pc = pc]
Begin(p, pc, c, until) ==
    command' = [command EXCEPT ![p] = [pc |-> pc, claim |-> c, until |-> until, read |-> None]]
Done(p) == command' = [command EXCEPT ![p] = Idle]

\* _write_records replaces the file by the copy that was read, with one change.
WriteBack(p, st) ==
    /\ records' = [command[p].read EXCEPT ![command[p].claim] = st]
    /\ lost' = (lost \/ records # command[p].read)

-----------------------------------------------------------------------------
(* claim and release: the store first, the token after it *)

Accept(p, c, req, d, t) ==
    /\ command[p].pc = "idle"
    /\ \/ Acquire(c, req, d, t)
       \/ \E a \in Approvals : Override(c, req, a, t)
    /\ Begin(p, "issue", c, claims'[c].expires)
    /\ UNCHANGED <<records, tokens, attested, lost>>

ReleaseClaim(p, c, o, t) ==
    /\ command[p].pc = "idle" /\ Release(c, o, t)
    /\ Begin(p, "revoke", c, 0)
    /\ UNCHANGED <<records, tokens, attested, lost>>

ReadRecords(p) ==
    /\ command[p].pc \in {"issue", "revoke"}
    /\ command' = [command EXCEPT ![p].pc = IF @ = "issue" THEN "issuing" ELSE "revoking",
                                  ![p].read = records]
    /\ UNCHANGED <<claims, clock, overrides, records, tokens, attested, lost>>

\* Mutant: the record is written with what the command does for its status.
IssueStep(p) ==
    /\ command[p].pc = "issuing"
    /\ WriteBack(p, command[p].pc) /\ Done(p)
    /\ tokens' = [tokens EXCEPT ![command[p].claim] = command[p].until]
    /\ UNCHANGED <<claims, clock, overrides, attested>>

\* The token ends when the claim did that was accepted: a heartbeat renews the
\* claim only.
Issue(p) ==
    /\ command[p].pc = "issuing"
    /\ WriteBack(p, "issued") /\ Done(p)
    /\ tokens' = [tokens EXCEPT ![command[p].claim] = command[p].until]
    /\ UNCHANGED <<claims, clock, overrides, attested>>

Revoke(p) ==
    /\ command[p].pc = "revoking" /\ Done(p)
    /\ IF command[p].read[command[p].claim] = "none"
       THEN UNCHANGED <<records, lost>> ELSE WriteBack(p, "none")
    /\ UNCHANGED <<claims, clock, overrides, tokens, attested>>

-----------------------------------------------------------------------------
(* write-attest: check(consume=True), then the signature *)

\* Mutant: a token counts as long as it lasts, whatever became of its claim.
HoldsAny(c, cs) == c \in DOMAIN cs

\* The claim list of check() still shows the claim as active.
Holds(c, cs) == c \in Active(cs)

\* Mutant: the status of the record is not looked at.
UnspentSeen(c, rs) == rs[c] # "none"

Unspent(c, rs) == rs[c] = "issued"

\* The signature, the expiry and the record of the token are looked at first ...
Present(p, c, t) ==
    /\ command[p].pc = "idle" /\ attested[c] < MaxAttested
    /\ Reads(t) /\ tokens[c] > t /\ Unspent(c, records)
    /\ command' = [command EXCEPT ![p] =
            [pc |-> "check", claim |-> c, until |-> 0, read |-> records]]
    /\ UNCHANGED <<claims, clock, overrides, records, tokens, attested, lost>>

\* ... then the board, by a listing that sweeps it.
CheckClaim(p, t) ==
    /\ command[p].pc = "check" /\ ListClaims(t)
    /\ IF Holds(command[p].claim, Swept(t)) THEN Goto(p, "burn") ELSE Done(p)
    /\ UNCHANGED <<records, tokens, attested, lost>>

Burn(p) ==
    /\ command[p].pc = "burn"
    /\ WriteBack(p, "consumed") /\ Done(p)
    /\ attested' = [attested EXCEPT ![command[p].claim] = @ + 1]
    /\ UNCHANGED <<claims, clock, overrides, tokens>>

-----------------------------------------------------------------------------

\* A command dies; its records are as far as it got.
Die(p) ==
    /\ command[p].pc # "idle" /\ Done(p)
    /\ UNCHANGED <<claims, clock, overrides, records, tokens, attested, lost>>

\* The operations that touch no token (attach-pr touches nothing the gate reads).
Plain(t) ==
    \/ ListClaims(t)
    \/ \E req \in Requests, d \in Delegations \cup {NoClaim} :
        Refuse(req, d, t) \/ \E c \in ClaimId : Enqueue(c, req, d, t)
    \/ \E c \in ClaimId, o \in Owner, ttl \in HeartbeatTtl : Heartbeat(c, o, ttl, t)

GateNext ==
    \/ \E t \in Time : Plain(t) /\ UNCHANGED gate
    \/ \E p \in Command :
        \/ \E t \in Time, c \in ClaimId :
            \/ \E req \in Requests, d \in Delegations \cup {NoClaim} : Accept(p, c, req, d, t)
            \/ \E o \in Owner : ReleaseClaim(p, c, o, t)
            \/ Present(p, c, t)
        \/ \E t \in Time : CheckClaim(p, t)
        \/ ReadRecords(p) \/ Issue(p) \/ Revoke(p) \/ Burn(p) \/ Die(p)

GateSpec == GateInit /\ [][GateNext]_gateVars

-----------------------------------------------------------------------------
(* Properties *)

Statuses == {"none", "issued", "consumed"}

\* The type of the gate's own variables.
GateTypeOK ==
    /\ records \in [ClaimId -> Statuses]
    /\ tokens \in [ClaimId -> Nat]
    /\ command \in [Command -> [pc : {"idle", "issue", "issuing", "revoke", "revoking",
                                      "check", "burn"},
                                claim : ClaimId, until : Nat, read : [ClaimId -> Statuses]]]
    /\ attested \in [ClaimId -> Nat] /\ lost \in BOOLEAN

\* The gate would let the holder of c's token write now.
Writes(c, t) == tokens[c] > t /\ Unspent(c, records) /\ Holds(c, ExpireStale(claims, t))

\* What the gate is for: two owners whose scopes overlap never hold tokens that it
\* takes at the same moment, across override, expiry, promotion and release,
\* unless one claim was delegated by the other.
OneWriter ==
    \A t \in Time : Reads(t) => \A b, c \in ClaimId :
        b # c /\ Writes(b, t) /\ Writes(c, t) /\ claims[b].repo = claims[c].repo =>
            \/ b = claims[c].parent \/ c = claims[b].parent
            \/ ~ScopesOverlap(claims[b].scopes, claims[c].scopes)

\* A token outlives its claim in the file, but not at the gate: once a claim has
\* ended, no command of anybody lets its holder write again, at any clock and
\* whatever becomes of the token's record (the claim list that check() reads).
EndedWritesNoMore ==
    [][\A c \in DOMAIN claims : claims[c].status \in ClosedStatus =>
            \A t \in Time : ~Writes(c, t)']_gateVars

\* "One-shot write token (consumed at attest time)" (write_attestation.py): it is
\* burnt for one commit, and none that was given out disappears while its claim is
\* open, as long as no two commands wrote the file over each other.
OneShotUnlessOverwritten ==
    ~lost => \A c \in ClaimId :
        /\ attested[c] <= 1
        /\ tokens[c] # 0 /\ c \in Open(claims) => records[c] # "none"
        /\ records[c] = "consumed" => attested[c] = 1
=============================================================================

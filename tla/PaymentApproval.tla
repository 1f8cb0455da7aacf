--------------------------- MODULE PaymentApproval ---------------------------
(***************************************************************************)
(* The payment approval bridge (commerce/payment_approval_bridge): one     *)
(* payment under review, and the commands clients send about it.  Nothing  *)
(* orders them: a command may be late, repeated after an answer that was   *)
(* lost, or carry the idempotency key of another.  A command that is       *)
(* refused raises and changes nothing, not even what is known of its key.  *)
(*                                                                         *)
(* Times are those the commands carry.  fits says that an approval names   *)
(* the reviewed request, its fingerprint and the scope of a single payment.*)
(***************************************************************************)
EXTENDS Integers, Sequences, FiniteSets

CONSTANTS
    Key,            \* idempotency keys
    PaymentCommand, \* the commands clients may send
    NoApproval, NoCommand

\* Every command carries its key and its times, and the approval it brings another.
ASSUME PaymentAssumption ==
    /\ NoCommand \notin PaymentCommand
    /\ \A c \in PaymentCommand :
        /\ c.key \in Key /\ c.at \in Nat /\ c.expires \in Nat
        /\ c.approval # NoApproval => c.approval.at \in Nat

VARIABLES
    snapshot,       \* [state, revision, updated]
    deadline,       \* of the approval; 0 before one is requested
    audit,          \* the audit events
    answered        \* key -> the command it was accepted with, or NoCommand

paymentVars == <<snapshot, deadline, audit, answered>>

ALLOWED_TRANSITIONS == [
    review            |-> {"awaiting_approval", "cancelled"},
    awaiting_approval |-> {"payment_initiated", "cancelled", "timed_out"},
    payment_initiated |-> {},
    cancelled         |-> {},
    timed_out         |-> {}]

PaymentInit ==
    /\ snapshot = [state |-> "review", revision |-> 0, updated |-> 0]
    /\ deadline = 0
    /\ audit = <<>>
    /\ answered = [k \in Key |-> NoCommand]

\* Mutant: a key is only known together with its command.
FreshCommand(c) == answered[c.key] # c

\* A key that is known is answered from the record, or refused as a conflict.
Fresh(c) == answered[c.key] = NoCommand

\* advance_lifecycle, and _record with one event for each type.
Advance(c, target, types, evidence) ==
    /\ Fresh(c)
    /\ c.at >= snapshot.updated /\ target \in ALLOWED_TRANSITIONS[snapshot.state]
    /\ snapshot' = [state |-> target, revision |-> snapshot.revision + 1, updated |-> c.at]
    /\ audit' = audit \o [i \in DOMAIN types |->
            [type |-> types[i], from |-> snapshot.state, to |-> target, at |-> c.at,
             actor |-> c.actor, approval |-> evidence]]
    /\ answered' = [answered EXCEPT ![c.key] = c]

RequestApproval(c) ==
    /\ c.action = "request_approval" /\ c.approval = NoApproval
    /\ c.expires > c.at
    /\ Advance(c, "awaiting_approval", <<"approval_requested">>, NoApproval)
    /\ deadline' = c.expires

\* The approval must be the user's own, of this payment, and neither older than the
\* request for it nor newer than the command that brings it.
ApprovePayment(c) ==
    /\ c.action = "approve" /\ snapshot.state = "awaiting_approval"
    /\ c.at < deadline
    /\ c.approval # NoApproval /\ c.actor = "user"
    /\ c.approval.by = "user" /\ c.approval.fits
    /\ c.approval.at >= snapshot.updated /\ c.approval.at <= c.at
    /\ Advance(c, "payment_initiated", <<"user_approval_recorded", "payment_initiated">>,
               c.approval)
    /\ UNCHANGED deadline

CancelPayment(c) ==
    /\ c.action = "cancel" /\ c.approval = NoApproval /\ c.expires = 0
    /\ c.actor = "user"
    /\ Advance(c, "cancelled", <<"payment_cancelled">>, NoApproval)
    /\ UNCHANGED deadline

Timeout(c) ==
    /\ c.action = "timeout" /\ c.approval = NoApproval /\ c.expires = 0
    /\ c.actor = "system"
    /\ deadline # 0 /\ c.at >= deadline
    /\ Advance(c, "timed_out", <<"approval_timed_out">>, NoApproval)
    /\ UNCHANGED deadline

PaymentNext ==
    \E c \in PaymentCommand :
        RequestApproval(c) \/ ApprovePayment(c) \/ CancelPayment(c) \/ Timeout(c)

PaymentSpec == PaymentInit /\ [][PaymentNext]_paymentVars

-----------------------------------------------------------------------------
(* Properties *)

\* Every variable has its type.
PaymentTypeOK ==
    /\ snapshot \in [state : DOMAIN ALLOWED_TRANSITIONS, revision : Nat, updated : Nat]
    /\ deadline \in Nat
    /\ answered \in [Key -> PaymentCommand \cup {NoCommand}]

\* An approval leaves two events for one transition; this counts the second.
Transitions == {i \in DOMAIN audit : audit[i].type # "user_approval_recorded"}

\* The state before the n-th event, as the ones before it tell it.
StateBefore(n) ==
    LET earlier == {i \in Transitions : i < n}
    IN  IF earlier = {} THEN "review"
        ELSE audit[CHOOSE i \in earlier : \A j \in earlier : j <= i].to

\* The audit is a whole and true account, in whatever order commands come and
\* however often: its events lead, by times that do not run back, from the review to
\* the present state, one transition for every revision and for every key accepted.
\* A payment it shows initiated was approved by the user between the request for the
\* approval and the initiation, and that came before the deadline.
AuditExplainsPayment ==
    /\ \A i \in DOMAIN audit : audit[i].from = StateBefore(i)
    /\ \A i, j \in DOMAIN audit : i <= j => audit[i].at <= audit[j].at
    /\ snapshot.state = StateBefore(Len(audit) + 1)
    /\ \A i \in DOMAIN audit : audit[i].at <= snapshot.updated
    /\ Cardinality(Transitions) = snapshot.revision
    /\ Cardinality({k \in Key : answered[k] # NoCommand}) = snapshot.revision
    /\ \A i \in DOMAIN audit : audit[i].to = "payment_initiated" => \E r \in 1 .. i :
        LET given == audit[i].approval
        IN  /\ audit[r].type = "approval_requested"
            /\ given.by = "user" /\ given.fits /\ audit[i].actor = "user"
            /\ audit[r].at <= given.at /\ given.at <= audit[i].at /\ audit[i].at < deadline
=============================================================================

# Verification of lumos-core

TLA+ models of the coordination core of lumos-core, the TLC runs that check
them on small instances, and proofs checked by TLAPS. Source paths below are
relative to the repository.

## 1. The system

lumos-core is a local assistant whose agents edit one repository, run commands
on a PC and ask a person before anything that matters. What makes it a system,
and not a collection of scripts, is the state that several processes share
through files: who works on which paths, who may run what, what a person has
approved. The inventory follows; "hard" names what a test would hardly reach.

### 1.1 Task claims (`src/lumos_board/task_claim.py`)

State: `claims.json`, a list of claims (task, repo, owner, scopes, lease,
parent, status ACTIVE / QUEUED / RELEASED / EXPIRED / OVERRIDDEN), replaced
whole under an operating-system file lock; `claim_events.jsonl`, the audit.
Operations: `claim` (plain, delegated under a signed token, queueing, or
overriding under a signed approval), `heartbeat`, `release`, `attach_pr`,
`list_claims`. Each one first sweeps the board: ends lapsed leases, closes
claims whose parent ended, promotes whoever waited.
Correct when: active claims exclude each other; a delegated claim lives inside
its parent's lease; a lapsed lease never comes back; the queue is served in
order and never forgotten.
Hard: cascades, promotion among several waiters, late heartbeats, override
among waiters, clocks stepped back, a crash between board and audit.

### 1.2 Central board (`src/lumos_board/central_store.py`)

The same operations on a board kept on one git ref: fetch, compute, commit,
push; a rejected push re-runs the operation up to twelve times. Imports the
open claims of a local board. Keeps a mirror per host.
Correct when: the branch changes as if each operation were one step, a claim
whose call succeeded stays, and a call takes effect at most once.
Hard: pushes that time out and land later, hosts whose clocks disagree,
imports of queued claims.

### 1.3 Execution grants (`src/policy/task_execution_grant.py`)

One-shot grants for running a task: a registry of accepted requests, a file per
grant, a hash-chained ledger, each under its own lock.
Correct when: a task is accepted once, executes at most once with what was
accepted, leaves its evidence before it executes, and the chain verifies.
Hard: consuming twice, an accept that hangs while another recovers it, a crash
between any two of its writes, a ledger that forks.

### 1.4 Write gate (`src/lumos_board/write_gate.py`)

State: `write_credentials.json`, one record per write token, read and written
back whole without a lock. The command line issues a token for an accepted
claim, burns it when a write is attested, revokes it on release.
Correct when: two owners never hold tokens the gate takes for overlapping
paths, and a token attests one commit.
Hard: commands that overlap each other's read and write, tokens that outlive
their claim.

### 1.5 Coordination gateway (`src/lumos_board/coordination_gateway.py`)

Writers submit events; one leased reader reads the digest of those routed to
the user and acknowledges them. Events, the reader's lease and the
acknowledgements are three files under one `flock`, and each change is followed
by an audit line and rolled back when that line fails. The line is flushed
before it is synchronised, so a line that fails may be in the audit file, in
part or whole.
Correct when: nothing answered is lost, a lapsed reader acknowledges nothing,
files and audit differ by what failed and no more, and everything answered is
delivered in the end.
Hard: deaths between a write and its audit line, lines that fail halfway, retries of a submission that
was made, a lease that lapses between a digest and its acknowledgement.

### 1.6 Bridge approvals (`packages/kando_bridge`)

A request for a remote action waits in a file until a person approves or
rejects it over `POST /approve`; the approved token is consumed once by
`POST /tools/execute`. Requests of the older kind are executed by `/approve`.
Correct when: an approval leads to one execution.
Hard: approving, rejecting, expiring and consuming race on one file, and only
the consumption takes the file's lock.

### 1.7 Task files (`src/task_engine/engine.py`, `src/core/task_store_mirror.py`, `panel/scripts/panel_tasks_server.py`)

The engine keeps `tasks/tasks.json` and mirrors its tasks into the user's
`tasks.json`, which the panel server edits and whose deleted rows it files in a
trash. No two of them share a lock.
Correct when: a task of the user is never lost, and the user's list shows the
engine's tasks as they are.
Hard: writers that replace a file they read earlier, stops between two files.

### 1.8 Approvals of a founder and of a payment

`src/lumos_board/founder_approval.py`: requests and grants in one file under a
lock, followed by an audit. `src/commerce/payment_approval_bridge`: one
payment's life cycle, each command under an idempotency key.
Correct when: the audit tells the truth, and what is initiated was approved.
Hard: writes that fail after the decision, commands late or repeated.

### 1.9 Patches of a file (`src/kando/cursor_bridge.py`, `src/core/patch_transaction.py`, `src/task_engine/executors/patch_apply_executor.py`)

An instruction becomes an attempt on one file: a `.lock` beside it, the former
text in `patch_memory.sqlite`, a proposal checked twice against the file, a
write, a verification, and the former text again when that fails. The task
engine patches without the `.lock`; `ROLLBACK_LAST` restores the last text.
Correct when: an attempt is whole, and no other one is lost by it.
Hard: texts read before the lock, conflicts, retries, timeouts, rollbacks.

### 1.10 High-risk goals (`src/kando/cursor_bridge.py`, `src/policy/confirmation_policy.py`)

A goal that touches what is protected waits until an instruction approves or
rejects it. Each process keeps the waiting goals in a table of its own, takes in
what `pending_approvals.json` has, and saves its whole table without a lock;
with confirmations on, a goal has a confirmation that is used up once.
Correct when: a goal is applied at most once, and not after a rejection.
Hard: tables of other processes, saves that fail or are cut off, deaths before
the confirmation is used up.

### 1.11 Agent jobs (`src/kando/agent_runner.py`)

A job is a thread of the bridge: it has a file patched, verifies and commits
what the working tree has changed, and publishes a report in three places.
Correct when: what is committed was verified, and who sees a completed job finds
its report.
Hard: jobs that share the tree, the index and a temporary file; writes that fail
between the three places.

### 1.12 Presence lock (`src/security/presence_lock.py`)

A thread watches the camera and locks the device; the command loop starts,
stops and restarts it through one stop flag and one status.
Correct when: one watcher at most, while presence is enabled, told by the status.
Hard: a watcher that has not ended when its stop has waited long enough.

### 1.13 Meeting interpreter (`src/representative`)

One loop interrupts what is said, translates a turn and says its first clip; a
worker thread says the others. Timers and a publisher thread keep the avatar's
face.
Correct when: one voice speaks, of the turn at hand, and says all of it; the
face shown in the end is that of the newest state.
Hard: a worker that outlives the wait for it, timers and publications that come
late, clips that fail.

### 1.14 Evidence and trash (`src/core/evidence_continuity.py`, `src/core/evidence_settings.py`, `src/core/trash_evidence.py`)

The panel's and the engine's writes of a task file are preceded and followed by
a record in one journal; when the second cannot be appended it is kept in a
file of its own. Two writers of the user's `tasks.json` leave no record there:
the panel when a task was deleted for good (`skip`,
`panel_tasks_server.py:1763`), and the engine's mirror
(`task_store_mirror.py:55`). A file that is moved into the trash is compared with what was
first read, and copied and compared again when the trash is on another
filesystem. Nothing but the tests calls the move yet.
Correct when: nothing that is to be recorded is written without its record, who is answered is told the
truth, and the last version of a file is never lost.
Hard: appends that fail halfway, deaths between record and write, edits and
other moves between a comparison and a removal.

### 1.15 Not modelled

Everything else is listed in `PROJECT.json` with its reason: front ends, HTTP
routing, clients of external services, text classification, numeric scoring,
and read-only views.

## 2. Modules

| Module | Models | Composes |
| --- | --- | --- |
| `ClaimRules` | what one operation of the claim store computes on a board: conflicts, tokens, sweep, cascade, promotion, override, release, import | |
| `TaskClaims` | the claim store as agents use it: one action per operation | extends `ClaimRules` |
| `ClaimLoops` | the loops of the sweep, the cascade, the promotion and the import as they are written, one visit a step | extends `ClaimRules` |
| `CentralBoard` | the shared board as one board, with the import of a host's own | extends `TaskClaims` |
| `CentralStore` | the shared board as hosts run it: fetch, compute, commit, push | implements `CentralBoard` |
| `OneUse` | what the execution gate promises: a task is accepted once and executes at most once | |
| `ExecutionGrant` | registry, grant files and ledger of the gate, one write at a time | implements `OneUse` |
| `WriteGate` | write tokens and the commands that issue, burn and revoke them | extends `TaskClaims` |
| `ReaderGateway` | the reader lease, events, digests and acknowledgements | |
| `ClaimJournal` | how an operation of the claim store reaches `claims.json` and `claim_events.jsonl` | |
| `PendingApprovals` | one approval record of the bridge and the threads that serve requests about it | |
| `TaskStores` | the engine's file, the user's list and its trash | |
| `PaymentApproval` | one payment and its commands | |
| `FounderApprovals` | the founder's file, its lock and its audit | |
| `InstructionPatches` | one file and the threads that patch it | |
| `GoalApprovals` | high-risk goals, the processes' tables of them and the file | |
| `AgentJobs` | the jobs, the tree, the index and the commits, the published reports | |
| `PresenceLock` | the command loop and the watcher threads | |
| `Interpreter` | the interpreter's loop, its clip worker, the avatar's timers and publisher | |
| `EvidenceJournal` | writes of task files, the journal and the records beside it | |
| `TrashMove` | files of one name, their place in the trash and the moves into it | |
| `Services` | any one of the last twelve, chosen at the start | extends them |
| `TaskClaimsProofs` | theorems about the claim store, and about the shared board with its imports | extends `CentralBoard` |
| `ClaimLoopsProofs`, `CentralStoreProofs`, `ExecutionGrantProofs`, `WriteGateProofs`, `ReaderGatewayProofs` | theorems and their proofs | extend the module they are named after |
| `ApprovalProofs` | theorems about who approved what: the bridge, the founder, a payment, high-risk goals | extends `PendingApprovals`, `FounderApprovals`, `PaymentApproval`, `GoalApprovals` |
| `ServicesProofs` | theorems about the other services, and about all of them together | extends `Services`, `ApprovalProofs` |
| `MC...` | small instances for TLC | extend the module they are named after |

### 2.1 Claims: how state and actions correspond to the code

`claims` is the list in `claims.json`, as a function from claim id to record.
The list's order matters in the code only through `started_at` and, among equal
ones, through the claim id (`_promote_queued` sorts by both), so the order of
ids is the model's tie-break. Ids are the code's UUIDs as small numbers.
Abstracted away because no rule reads them: text fields, branch, worktree,
`heartbeat_at`, `closed_at`. A scope is a path as a sequence of names, so that
"covers" is the prefix relation of `_scope_overlap`. A signed token is a member
of a set of tokens that somebody signed; the verifiers' rules about who may
sign what, for whom, and until when are kept (`ApprovalVerifies`,
`DelegationVerifies`); the cryptography is not.

An operation holds the file lock from the read of `claims.json` to its
replacement and is one step. It reads the wall clock once, after the lock was
taken (`Reads`). An operation that raises writes nothing, not even its sweep; a
claim that is refused for a conflict keeps its sweep (`Refuse`).

The code computes the sweep, the cascade, the promotion and the import in loops
that change the list they read. `ClaimRules` states what they compute in closed
form (`ExpireStale`, `CloseOrphans`, `Promote`, `Imported`). `ClaimLoops` is one
call of one of the four: `todo` holds the claims a walk has yet to visit, `byId`
the snapshot a pass of the cascade is given, `changed` whether it closed
anything; a step is one visit (`VisitLease`, `VisitOrphan`, `VisitQueued`,
`VisitLocal`) or the turn to the next pass or loop. The board keeps no list
order, so a walk over the list takes the claims in any order; the other two take
them in queue order. `LoopsAreClosedForms` says that a call that has returned
leaves what the closed form says.

### 2.2 The central board

In `CentralBoard` an operation is one step and `Import` is added. Its `Kept`
says which local claims an import takes: those that collide neither with the
board nor with one taken before. `CentralStore` is the transaction of
`_transact` and `_locked_state`: `Attempt` fetches, computes (`Outcomes`, by the
operators of `ClaimRules`) and commits; `Land` and `Reject` are the remote's two
answers; `CutOff` is a push whose answer is lost, which the remote takes later
(`LandLate`) or never (`Vanish`); `GiveUp` ends the last attempt. A host's
operations are serialized by its lock file, so a host is in one call at a time.
`MaxCalls` bounds a run.

### 2.3 Execution grants

A step is one write to one file, since processes interleave and die between
writes: `Occupy` (registry stub), `Mint` (grant file), `Stamp` (registry),
`WriteLine` and `WriteTip` (ledger and tip, twice), `Present` (the unlocked look
at the registry), `Consume` (the grant file under its lock). `Crash` kills a
process wherever it is; at the tip, `write_text` may have emptied the file or
filled it. A line's hash is its number: hashes are used only to say which line
follows which. A lock is held as long as its holder is between two named
writes (`Unlocked`, `lined`), and a death releases it, as `flock` does. The wall
clock may move either way.

### 2.4 The write gate

`WriteGate` is the claim store of `TaskClaims` with the token file over it. A
command is the claim store's operation (one step, under its lock) and then the
steps on the token file: `Issue` and `Revoke` after `Accept` and `ReleaseClaim`,
`Present`, `CheckClaim` and `Burn` for an attestation. `ReadRecords` takes a copy
and `WriteBack` replaces the file by the copy with one change; `lost` remembers
that this has undone a write the copy did not have. A claim that is promoted
from the queue gets no token, and a heartbeat does not renew one: the code is
so. Between the look at the claim and the burning the claim may end. A file that
is torn is refused by every later check, and is left out.

### 2.5 The gateway

The three steps of an operation are the read and the decision (`Enter` and the
operation), `Write`, and `Audit` or `AuditFails`, which puts back what was read.
`Die` drops the lock wherever the process is. A line that fails, or that a death
interrupts, has left nothing, a part or the whole of itself (`LineFails`); a part
has no end (`ragged`), so the next line stands behind it and neither can be
read. `cuts` counts the parts, `strays` the whole lines of operations that were
rolled back, `audited` what has a line that can be read. A takeover has a line
before the write and one after it, a duplicate only one, and `Routes` writes
nothing else. A rollback is one write, with the failure that causes it. A lease is the time it has left,
so that the model needs no absolute clock. The library has no client in the
repository: a reader acknowledges what its last digest has shown.

### 2.6 The bridge's approvals

A step is one read or one write of the record. `/approve` loads (`Load`), looks
at the clock (`Check`), writes back what it had read with another status
(`Approve`, `Reject`, `MarkExpired`), and rolls back when its audit line fails
(`RollBack`). Consumption passes a gate without the lock, takes it, reads again
and writes (`Gate`, `Lock`, `Recheck`, `Consume`). `opened` counts the writes
that leave the record approved and unused, `runs` the executions, `lost` that a
write has replaced a record its writer had not read. A phone that repeats a
request over the relay is another thread's `/approve`.

### 2.7 The task files

`disk` is the engine's file, which a save truncates (`Truncate`) and fills
(`Fill`); `doc` is the user's list, which is replaced whole. An engine keeps its
own list (`mem`) and saves it whole, then mirrors it row by row (`IsNext`,
`ReadDoc`, `MirrorRow`). The panel serves one request at a time, each of one or
two writes. `raced` says that somebody has written over what it had not seen:
nothing is promised from there on and the run does not go on. `cut` says that
the panel stopped between its two files.

### 2.8 Founder, payment, patches, goals, jobs, presence, interpreter, evidence, trash

`FounderApprovals` splits an operation at its read, its write and its flush of
the audit; a process keeps the store object and with it the pending events.
`PaymentApproval` has one action per command; whether a command's contract is
well formed is a flag of it. `InstructionPatches` has one step per read or write
of the file: a text is a sequence of marks, one per patch, so that a lost patch
is a lost mark. `crossed` says of an attempt that the file was changed between
the read it works from and its `.lock`, or written without the `.lock` while it
held it. `GoalApprovals` has a step per look at the table and the file, per half
of a save and per decision; a process ends wherever it is and loses its table.
`echoed` says of a goal that when it was taken another process had it too, or
could still read it, `overlapped` that it was applied twice at a time or its
confirmation stayed. `AgentJobs` has a step per command of git and per write of
the report; the executor's attempt is two of them, since what does not compile
is in the tree until it is put back. `rewritten` holds the files that changed
between a verification and the `git add` that followed it, `met` the jobs that
wrote `agent_last.json.tmp` while another did. `PresenceLock` has the command loop's steps between which a watcher may
move, and the watchers' between which the flag, the status and the lock are read
or written; `forgotten` says that a stop has given up on the watcher.
`Interpreter` has the loop's and the worker's steps between two looks at the
queue, the flag and the worker's life; `voice` says where each thread is and
of which turn its clip is, `givenUp` that the last interruption stopped waiting
for the worker. What a clip or a text is does not matter: only turns that are
spoken appear. A timer is a generation of the avatar's state, and fires when it
likes. `EvidenceJournal` has a step per append and per write of a task file: an
append that fails has left nothing, a part or the whole of its line, and a part
has no end, so that the next line cannot be read. `kept` holds the records whose
append succeeded, `silent` the writes of the two writers without a record
(`WriteSilently`): a writer says at the start which kind it is, and no promise
about records is made of those. `RefuseMutation` is a sandbox's write of the live
file, of which only the error is recorded. `TrashMove` has a step per comparison, copy, publication and
removal, any of which may fail. A content is a version number. `unseen` holds
the files that were edited after the last comparison of a move, `trod` those
whose content in the trash another move has replaced.

## 3. Runs

| Run | Question | Bounds |
| --- | --- | --- |
| `claims_queue` | who is active, who waits, and why a claim ends, with queueing, overriding and renewing | 3 claims, 3 agents whose requests collide by path or by task, time 0..3 |
| `claims_delegate` | what may be open beside what and inside whose lease, on the shared board, with imports and pull requests | 3 claims, tokens in both directions between two agents, a local board of two, time 0..2 |
| `claims_liveness` | does every waiter get its turn | 3 claims, time 0..3 |
| `claim_loops` | do the closed forms say what the loops compute, and do the loops end | every board of 3 claims with two statuses open and one closed, any of 3 paths, any parent and order, reachable or not (50653); as many pairs of a board and a local board; walks over the list in any order |
| `central_store` | do hosts that race on the branch implement `CentralBoard` | 2 hosts, 3 calls of 8 operations, 2 attempts, clocks apart by 1 |
| `grants` | do accept, gate and ledger implement `OneUse`, with evidence first | 2 processes, 3 bindings of 2 tasks, 2 grants, 4 ledger lines, 1 death |
| `grants_crash` (violation) | does the ledger verify after a death | the same |
| `write_gate` | who may write, and for how many commits | 2 claims, 3 agents, 2 commands at a time, 2 attestations, time 0..2 |
| `coordination` | is anything answered lost, and is all of it delivered | 2 processes, one event for the user and one for others, 2 failing writes, failing audit lines or deaths, a lease of 2 |
| `services` | the twelve services of `Services`, each alone | see below |
| `approvals_twice` (violation) | does a second `/approve` lead to a second execution | 3 threads, 3 approvals |
| `rollback_flag` (violation) | do patches wait for every rollback | 3 goals by 3 threads |

`services`: 4 operations on the claim store by 2 agents, with 2 failing writes or
deaths; an approval under 3 threads, 3 approvals and an expiry; an engine
with one task that dies and restarts, beside a panel with one of its own and a
trash of one file of each row (explored with two of the panel's row); every payment command at three times under three keys; two
processes, two founders and two questions; 2 patches or rollbacks of one file
(the same was explored with 3 goals of 2 threads); 3 instructions about two
high-risk goals to 2 processes (explored with 5); 2 jobs on 2 files with one
failure or death; 3 watchers; 2 turns of up to
three clips (explored with 3 turns too); 3 writes of task files by 2 processes with
2 failures or deaths; 2 moves by 2 processes of 2 files, one on another
filesystem, with an edit of each and a failure or death. The services share no state: a
behaviour is one of one of them, and the run is the sum of twelve.
Its threads are symmetric; only their rotations are used, since the services
without threads pay for every permutation.

Why the bounds are enough. Three claims are what the rules need at most: a
holder and two waiters (order, overtaking), or a parent, its child and a
grandchild (the cascade), or an overridden claim, its successor and a waiter.
The paths are a directory, one below it, and one apart, which is every relation
two scopes can have. Time reaches past the end of every lease that is granted at
0. Two hosts and two attempts give every order of fetch, push and late arrival
of two commits; a third call sees what they left. Two processes and two grants
give a hung accept and its recovery; four ledger lines hold a whole story and a
denial. A token file needs two commands to be overwritten and a third claim
state to matter, which a takeover gives. Two processes at the gateway are a
reader and its successor, or a submitter and its retry. Three threads are two
decisions and a consumption, and three approvals reach each of them. Two goals
are an attempt and what crosses it. Three instructions are a
registration and two decisions. Two jobs on two files are a job and another that
commits, patches or publishes across it. Three watchers are a forgotten one, the one
that replaced it, and the next. A turn of three clips has one said by the loop,
one by the worker and one that waits; a second turn interrupts it at any point.
Three writes are a line that is cut off, the one behind it and the next. Two
moves are a move and its retry, or two files of one name.

Each property is falsified, under the bounds of its own run, by a
plausible slip in the code: a definition beside the right one, marked "Mutant".
Beyond the bounds the theorems of section 4 take over, where there are any.

`claims_delegate` holds its state space down by `OnePull`: only the first claim
gets a pull request, with one claim beside it, since a pull request changes
nothing that a rule reads. `services` stops
at `Unraced`, and at `OneTrash`: one row at a time has files in the trash, since
the two rows meet in the list only (explored without it too).
`CHECK_DEADLOCK FALSE` stands where a run ends by its bound (calls made, ledger
full, a payment ended); elsewhere `list_claims` is always
possible and deadlock is checked. In `claim_loops` a deadlock would be a loop that
gets stuck before its call returns, and that is checked too.

Fairness. Nothing in the repository sweeps a board in the background. What
`claims_liveness` assumes (`FairSpec`) is that somebody reads the board at every
instant of model time, which is what guarded writes, status views and other
agents' operations do in practice: weak fairness on `ListClaims` at a later
clock, and no operation that skips an instant. Without it a queued claim waits
for ever, which is the system as written. That run renews and overrides nothing:
a holder that renews its lease for ever, or agents that override for ever, keep
a waiter waiting, and the code promises no more. `coordination` assumes that
time passes and an operation that has the lock finishes or dies (weak fairness
of `Tick` and `Finishes`, which is the code under `flock`), and that a process
that again and again may claim the lease, read or acknowledge does so (strong
fairness: the lock is contended, and readers are programs that come back). An
operation takes no model time, since a lease is 900 s and an operation a few
file accesses.

### 3.1 Where code and documents differ

Three have a run of their own.

- `grants_crash`: the ledger line and the tip are two writes. After a death in
  between, the next line follows an old tip and `verify_ledger_chain` is false
  for ever, though nothing was altered.
- `approvals_twice`: a review document says that a repeated `/approve` cannot
  lead to a second execution, because `used` is still false. `/approve` writes
  back the record it has read, with `used` false, without the consumption's
  lock: when another approval and a consumption come in between, the tool runs
  twice.
- `rollback_flag`: a comment and a test say that no patch begins during a
  rollback. The flag is one for the process and the first of two rollbacks that
  ends takes it down.

Others were met while modelling; the models do what the code does.

- `docs/contracts/task-claim-v1.md:24` says a heartbeat extends the lease; the
  code (`task_claim.py:600`) replaces `expires_at`, so a smaller ttl shortens it.
- The error text at `task_claim.py:515` says that one approval cannot override
  more than one claim. That is enforced within one request; nothing records that
  a token was spent.
- The contract's line 30 says a queued claim becomes active by itself once
  nothing is in its way; `import_local` (`central_store.py:294`) adds the local
  claims after its sweep, so a local waiter can wait for nothing until the next
  operation of anybody.
- `patch_transaction.py:71` says that a failing apply falls into the state
  FAILED; the record stays APPLYING, with an error beside it.
- A conflict that `apply_with_transaction` detects is recorded as one, and
  `cursor_bridge.py:1661` then forces the same text over the file and reports
  it applied.
- An attempt that only previews, fails or changes nothing has put the present
  text into the patch memory already, so a `ROLLBACK_LAST` after it undoes
  nothing. A process that dies during an attempt leaves the `.lock`, and every
  later attempt on that file is refused.
- A process that stays alive keeps in its table a high-risk goal that another
  one has approved or rejected, writes it back with its next save, and the goal
  can be approved again; with confirmations on, only if the first application
  did not get to use its confirmation up.
- Two agent jobs that publish at the same time share `agent_last.json.tmp`: the
  first to rename it leaves the other without it, and that job is journaled a
  second time and told as failed although its commit stands. A commit names no
  paths, so it also takes what another job has staged; a job that dies stays
  "running" in its status file.
- A task that runs when the engine dies stays "running" on disk; only a
  cancellation lets it run again. A save that is cut off leaves a file the next
  start takes for an empty list and writes over.
- A founder's approval whose events are lost (a death, a failing flush) stays in
  force, and the audit never tells of it.
- A watcher forgotten by a stop goes on when the next start clears the flag; as
  it ends it sets the status OFF that belongs to the other.
- An interruption of the interpreter waits eight seconds for the clip in hand
  (`tts_playback.py:146`). After a longer one the next turn clears the flag
  before the worker has looked at it: what was interrupted goes on over the new
  turn, though the method's comment says that queued clips are dropped.
- The contract of the evidence journal (`docs/contracts/lumos-wall-v1.md:315`)
  says that a completed write has a record or an explicit error. Of the user's
  list that is so only where the writer asks for a record: the engine's mirror
  and a deletion for good rewrite it without one (the deletion has
  saved the removed file's hash under `removal_evidence` before). A line that is
  cut off in the middle has no end, the next record is written behind it, and no
  reader finds that record though its writer was told that it is there.
- `_audit_rollback` (`coordination_gateway.py:364`) is to leave no state without
  its audit line. But the line is flushed before `os.fsync`
  (`:458`): when that fails the state is rolled back and the line stays, so the
  audit tells of a change that was taken back, and a line that was cut off hides
  the next one.
- `os.rename` replaces a file that another move has put into the trash since
  `move_to_trash` looked, and an edit between the last comparison of the source
  and its removal is lost. Both are what the look before them is meant to
  prevent.
- An authority that dies after it has stamped an accepted grant and before it
  returns (`task_execution_grant.py:869`) has issued a token that nobody holds:
  every retry is told of a duplicate, and the task never executes. The code
  keeps no way back on purpose, and no property promises one.

## 4. Theorems

All theorems hold for every value of the constants that satisfies the named
assumptions: that requests and tokens have their types, that local boards were
written by the store and operations are made of those requests (`ClaimRules`,
`TaskClaims`, `CentralBoard`, `CentralStore`), that the boards the loops are
called on are made of records the store makes (`ClaimLoops`), that a "nobody" is none of the
processes, files or goals it stands beside, that the engine's task ids are
positive and not the panel's, and that the bounds of a run are numbers. TLC
evaluates each of them in a run. No theorem bounds the number of processes,
threads, engines, tasks, files or claims; the counters of a run's inputs
(`MaxGoals`, `MaxOps`, ...) are any number.

Every safety property that a passing run checks, and every action property, is the
property of a theorem. Each is proved from an inductive invariant.

`TaskClaimsProofs`. `Exclusion`, `DelegationStaysInside`, `NoLapsed` and
`NoIdleQueue` say that the invariants of the runs hold always, `TypeCorrect`
that the state keeps its type (no run checks that again), and `OneLevel` that an
active claim's parent is never itself delegated;
`ClosedForGood`, `LateIsTooLate`, `FirstComesFirst` and `ExpiryIsCaused` are the
action properties: the second half of them follows an operation through the
states between its parts, the sweep, the cascade and the promotion, and says of
each who may have been promoted or expired there. None of the
invariants is inductive alone: a promotion needs to know that a queued claim
still has its lease length ahead (`LeaseAhead`), that the board it starts from
is exclusive, and that parents are active; exclusion of a promoted child needs
`Inside`. The inductive invariant is `IInv`: types, and `Sound` for the board at
the clock of its last write. Every operation is a composition of Close,
CloseOrphans, Promote and Put. Each of these has one lemma per part of `Sound`,
and an operation's proof composes them. The sweep re-establishes everything
whatever the clock read before: that is why no clock skew breaks the theorems.

The same module carries the claim store's promises over to the shared board.
`CentralExclusion`, `CentralNoLapsed` and `CentralDelegation` extend three
invariants to imports, `CentralClosedForGood`, `CentralLateIsTooLate`,
`CentralFirstComesFirst` and `CentralExpiryIsCaused` the four action properties.
`Waiting` does not survive an import (section 3.1), so the invariant there is
`Standing`, which is `IInv` without it; the operations' lemmas are stated from
`Standing` for that reason. `MergeRecords` says of an import what the lemmas of
the operations say of theirs: no record of the board changes, and nothing that
was queued on it becomes active.

`ClaimLoopsProofs`. `LoopsComputeTheForms`: on every board of any number of
claims, however they are delegated to each other, the four loops leave what the
closed forms say, in whatever order the list is walked. The invariant `LoopInv`
says of each loop what it has done with the claims it has visited. `LeaseLoop`
has closed the lapsed ones. `CascadeLoop` has closed none of those that
`CloseOrphans` spares, since their parents are spared too; and when a pass has
closed nothing, the open claims that are left keep their parents and so are
spared. `PromotionLoop` has promoted exactly the promotable claims ahead of the
one at hand: each claim ahead of it blocks it, whether it was promoted or waits
on. `ImportLoop` has kept what `Kept` says. `CascadeTerminates` is the loop's
variant: between two passes an open claim was closed. `SweepTwice` adds that a
second sweep at the same instant changes nothing, on which every reader of a
swept board relies.

`CentralStoreProofs`. `Atomic`: the branch changes only as `CentralBoard` would
change. The invariant says of each pushed commit that if the branch still is
where the commit was based, then its content is a possible outcome of one
operation on the present board (`Possible`); a commit based on an earlier
number can never land. By this refinement the branch keeps what `CentralBoard`
promises: `BranchExclusion`, `BranchNoLapsed`, `BranchDelegation`,
`BranchClosedForGood`, `BranchLateIsTooLate`, `BranchFirstComesFirst` and
`BranchExpiryIsCaused` say of the branch what the theorems above say of one
board, whichever hosts race and whichever pushes are late, lost or retried. For
that the module instantiates `TaskClaimsProofs` on the branch (`K`); the prover
holds the operators of two instances of one module to be different ones, and the
lemmas `Same...` show that those of `K` are those of `CentralStore`.
`ToldForGood` and `CallsLandOnce` need an invariant about calls: what a host was
answered is on the branch or in the commit it pushes (`ToldInv`), and a push
that may still land belongs to a call of its own that has not landed
(`OnceInv`).

`ExecutionGrantProofs`. `TypeCorrect`, `TokenStaysRegistered`, `OneUsePerTask`
(the refinement), `EvidenceComesFirst`, `DeathBreaksOneLink`. The heart of
the invariant is that a complete registry record never changes (`RecordStays`),
a consumed grant stays consumed (`FileStays`), and that what a process has
established before a write no other process can undo (`CallStays`, `OtherCall`).
`Paper` adds what each process has left in the ledger. `Chained` counts: the
links that do not hold, and the one that will not hold next because the tip was
left behind (`Loose`), are no more than the deaths so far, with at most one
process between a line and its tip. So a ledger recovers by itself, at the
price of one link for each death, and `ChainVerifiesUntilCrash` is the case of
none.

`WriteGateProofs`. `GateRefinesStore` says that the gate's commands do to the
board only what `TaskClaims` allows, so the invariant `IInv` of the claim store
comes with it. `GateHasOneWriter` rests on it: the gate looks at a swept
board, where two active claims exclude each other. `TokenIsOneShot` adds what a
command that is under way has read (`CommandsKnow`), and that as long as nothing
was overwritten a record tells what became of its token (`RecordsTell`).
`TokenDiesWithItsClaim` says that no step of any command lets the holder of an
ended claim write again: the record may say issued and the token may last, but
closed claims stay closed, in the file and in every sweep of it.

`ReaderGatewayProofs`. `InboxIsAudited` and `LastReaderDoes`, from an invariant
about the lock: one process is between a read and its audit line, the files are
what it has read or what it has written, and they agree with the audit whenever
nobody is, but for what was paid for (`SettledWhenFree`, `SettledCopy`,
`FilesFollowCopy`). That is a count: the changes that stand in the files without
a line that can be read, and the one that a part at the end of the audit file
would hide next, are no more than the parts and the deaths so far. An operation's
own line is either the one that the part before it hides, and then the part
hides no other, or it can be read; a line that fails adds a part to the count
and a part to the reasons (`LineKeepsSettled`). Parts and strays are in turn no
more than the failures.

`ApprovalProofs`. `ApprovedOnce` counts: the approvals are at least the
executions, the thread that is about to execute and the record while it is open
(`Ledger`), under the consumption's lock, which one thread has (`OneConsumes`).
`FounderAuditIsTrue` needs that an event in the memory of a process is not in
the file yet (`NoEventTwice`, `AllTrue`). `GoalDecidedOnce` follows each copy of
a goal through the tables, the file and the process that has taken it
(`GoalFlow`), and its confirmation (`ConfirmedOnce`). `AuditExplains` lists the
five shapes that the account of one payment can have.

`ServicesProofs`. `WatcherStaysKnown`, `EvidenceIsTrue`, `JournalFollows`,
`JobsTellTheTruth`, `VoiceStaysCurrent`, `AvatarFollowsVoice`, `TrashKeeps`,
`PatchIsWhole`, `KeptOnce` and `RowsFollowEngine`, with the types of each
service. The invariants say what a step takes for granted: `PatchInv` what a
thread inside its `.lock` knows of the file as long as nobody crosses it,
`TrashInv` where the last version of a file is at each point of each move,
`EvidenceInv` and `JournalInv` what a line without an end or a death can have
cost, as a number that each mishap pays for; a write without a record is nobody's
at hand, and so disturbs none of those that are. `StoreInv` has two halves. For the
panel it counts the places of a row, two while a request is between its two
files. For the engines it says that a row follows its task or that an engine
still owes it the row (`Owes`), and, while the file is truncated, that the row
follows the list of the engine that writes it (`WriterFollows`); what an engine
holds unsaved is a change of its own (`SavedButTodo`). Last,
`ServicesTypeCorrect` and `ServicesKeepTheirPromises` carry all of it over to
the specification the run checks, since a behaviour of `ServicesSpec` is one of
each service.

What the proofs changed. `RowFollowsEngine` was false for two engines, though
true in the run with one: an engine whose save failed keeps its change in
memory, and when the other one mirrored that task the model counted its row as
no longer adrift; and a truncation of a file that another engine was writing was
not counted as a race. `adrift` and `raced` now say so (`Unsaved`,
`SomeoneWrites`); with one engine the states are the same, and the invariant of
the proof was then checked with two. The same property named the row of an
archived and completed task by a CASE whose guards overlapped, which TLC reads
in order and the language does not; they are disjoint now. Assumptions were
missing: that a registry of founders has no Nobody, that bounds are numbers.

The loops were functions of TLC's until they were proved about: what a recursive
operator computes for every input is outside the prover's reach. As steps of a
state machine, one visit each, they have an invariant like any other program,
and TLC now also checks each order of the walks and that none gets stuck.

Only model-checked: liveness (`QueueDrains`, `AnsweredIsDelivered`), which is
outside the prover's reach under fairness. The violations of section 3.1 are
counterexamples and need no theorem. Some theorems state what no run checks:
`CascadeTerminates`, `TokenDiesWithItsClaim` and the theorems about the branch.
Their properties were explored with TLC too, the second on the greater part of
the states of `write_gate` only.

## 5. What is not modelled

Of the modelled components: an unreadable `claims.json`, on which every
operation raises; an event line torn in the middle; a death within a write or a
rollback of the gateway's files, and a rollback that fails (`write_bytes` empties
the file first, so that either may lose answered events or leave an inbox that
nobody can read); the read-only mirror of the central board; the
derivation of a binding from a plan's text; builds without `fcntl`, which take
no locks; a ledger line torn by the file system; a write of
`write_credentials.json` or of a rollback's text that is cut short; the
confirmations of the panel and of the bridge; the panel's `PUT /tasks.json`, which replaces the whole
list by what a client sends, and the trash of the engine, which nothing reads;
two engines that save over each other, which `raced` excludes from every promise
(two that do not are in the theorems); goals of two
files and the gates before a patch; the limit of fifty waiting goals; the
preferences and the reports of the evidence journal, and directories that are
removed in part; the record of a file that is archived before its removal. Of the
system: the components
that `PROJECT.json` lists as `not_modelled`, each with its reason.

## 6. Plan

Done: the components of section 1 as checked models, with a theorem for each
safety property and each action property that a passing run checks.

Next, in order of importance:

1. `ClaimJournal` as an implementation of one operation of `TaskClaims`: today
   the two share the board's meaning and not its value.
2. What holds of the two task files after a race, which `RowFollowsEngine`
   excludes; an abstract specification of an approval that leads to one
   execution, which `PendingApprovals` implements as long as nothing is
   overwritten.
3. `PanelTasksAuth`, `LanRelay`: sessions and retries.

Services that share no state share a run, so that the list of runs stays one of
questions.

------------------------ MODULE ExecutionGrantProofs ------------------------
(***************************************************************************)
(* Proofs about execution grants, for every number of processes, tasks,    *)
(* bindings and grants, every lifetime, and crashes anywhere.              *)
(***************************************************************************)
EXTENDS ExecutionGrant, FiniteSetTheorems, TLAPS

\* The registry has accepted task t: its record names a grant file that was
\* minted for the same binding.
Complete(t, g) ==
    /\ g \in DOMAIN grants
    /\ registry[t] = [bind |-> grants[g].bind, grant |-> g]

\* A record is filed under its own task, and a stamped one names a grant file.
Filed ==
    \A t \in Task : registry[t] # NoTask =>
        /\ registry[t].bind.task = t
        /\ registry[t].grant # NoGrant => Complete(t, registry[t].grant)

\* What a process that has come to call c has established.
CallOK(c) ==
    /\ c.lined => c.pc \in Logs
    /\ c.pc = "stamp" => c.grant \in DOMAIN grants /\ grants[c.grant].bind = c.bind
    /\ c.pc \in {"accepted", "issued"} =>
        /\ Complete(c.bind.task, c.grant) /\ grants[c.grant].bind = c.bind
    /\ c.pc = "consume" => Complete(c.bind.task, c.grant) /\ c.grant \in held
    /\ c.pc = "authorized" =>
        /\ Complete(c.bind.task, c.grant) /\ grants[c.grant].bind = c.bind
        /\ grants[c.grant].consumed
        /\ c.grant \in held
        /\ allowed[c.bind.task] = <<>>

Calls == \A w \in Worker : CallOK(call[w])

\* Only one process is authorized by a grant.
Single ==
    \A v, w \in Worker :
        /\ call[v].pc = "authorized" /\ call[w].pc = "authorized"
        /\ call[v].grant = call[w].grant
        => v = w

\* What has executed is the accepted binding, once, and its grant is spent.
Spent ==
    \A t \in Task : allowed[t] # <<>> =>
        /\ registry[t] # NoTask /\ Complete(t, registry[t].grant)
        /\ grants[registry[t].grant].consumed
        /\ allowed[t] = <<registry[t].bind>>

Held == \A g \in held : g \in DOMAIN grants /\ Complete(grants[g].bind.task, g)

IInv == TypeOK /\ Filed /\ Calls /\ Single /\ Spent /\ Held

-----------------------------------------------------------------------------
(* Types *)

LEMMA IdleType == Idle \in CallRecord
  BY GrantAssumption DEF Idle, Call, CallRecord

LEMMA InitType == Init => TypeOK
<1> SUFFICES ASSUME Init PROVE TypeOK
  OBVIOUS
<1>1. call \in [Worker -> CallRecord]
  BY IdleType DEF Init
<1>2. now \in 0..MaxTime /\ crashes \in 0..MaxCrashes /\ tip \in 0..Len(ledger)
  BY GrantAssumption DEF Init
<1> QED
  BY <1>1, <1>2 DEF Init, TypeOK

\* A process that goes on to a well-formed call leaves calls well-formed.
LEMMA GotoType ==
    ASSUME TypeOK, NEW w \in Worker, NEW c \in CallRecord, Goto(w, c)
    PROVE  call' \in [Worker -> CallRecord]
  BY DEF TypeOK, Goto

\* Consuming a grant file changes its flag only.
LEMMA ConsumeFiles ==
    ASSUME TypeOK, NEW w \in Worker, Consume(w)
    PROVE  /\ DOMAIN grants' = DOMAIN grants
           /\ grants' \in [DOMAIN grants -> GrantFile]
           /\ \A h \in DOMAIN grants :
                /\ grants'[h].bind = grants[h].bind
                /\ grants[h].consumed => grants'[h].consumed
<1> DEFINE g == call[w].grant
           spent == [grants[g] EXCEPT !.consumed = TRUE]
<1>1. \/ grants' = grants
      \/ grants' = [grants EXCEPT ![g] = spent]
  BY DEF Consume
<1>2. grants \in [DOMAIN grants -> GrantFile]
  BY DEF TypeOK
<1>3. g \in DOMAIN grants =>
        spent \in GrantFile /\ spent.bind = grants[g].bind /\ spent.consumed
  BY <1>2 DEF GrantFile
<1> HIDE DEF spent
<1> QED
  BY <1>1, <1>2, <1>3

\* Every step keeps the types.
LEMMA NextType == TypeOK /\ Calls /\ Next => TypeOK'
<1> SUFFICES ASSUME TypeOK, Calls, Next PROVE TypeOK'
  OBVIOUS
<1> USE GrantAssumption
<1>0. \A w \in Worker :
        /\ call[w] \in CallRecord
        /\ \A pc \in Logs : [call[w] EXCEPT !.pc = pc] \in CallRecord
        /\ [call[w] EXCEPT !.lined = TRUE] \in CallRecord
  BY DEF TypeOK, CallRecord
<1>1. CASE Tick
  BY <1>1 DEF Tick, TypeOK
<1>2. ASSUME NEW w \in Worker, NEW b \in Binding, Occupy(w, b) PROVE TypeOK'
  <2>1. Call("mint", b, NoGrant) \in CallRecord /\ Stub(b) \in RegistryRecord
    BY DEF Call, CallRecord, Stub, RegistryRecord
  <2> QED
    BY <1>2, <2>1, GotoType DEF Occupy, TypeOK
<1>3. ASSUME NEW w \in Worker, NEW g \in GrantId, Mint(w, g) PROVE TypeOK'
  <2>1. Call("stamp", call[w].bind, g) \in CallRecord
    BY <1>0 DEF Call, CallRecord
  <2>2. [bind |-> call[w].bind, expires |-> now + Ttl, consumed |-> FALSE] \in GrantFile
    BY <1>0 DEF CallRecord, GrantFile, TypeOK
  <2>3. grants' \in [DOMAIN grants' -> GrantFile] /\ DOMAIN grants' \subseteq GrantId
    BY <1>3, <2>2 DEF Mint, TypeOK
  <2>4. call' \in [Worker -> CallRecord]
    BY <1>3, <2>1, GotoType DEF Mint
  <2> QED
    BY <1>3, <2>3, <2>4 DEF Mint, TypeOK
<1>4. ASSUME NEW w \in Worker, Stamp(w) PROVE TypeOK'
  <2>1. [bind |-> call[w].bind, grant |-> call[w].grant] \in RegistryRecord
    BY <1>0 DEF CallRecord, RegistryRecord
  <2>2. [call[w] EXCEPT !.pc = "accepted"] \in CallRecord
    BY <1>0 DEF Logs
  <2>3. call' \in [Worker -> CallRecord]
    BY <1>4, <2>2, IdleType, GotoType DEF Stamp
  <2>4. registry' \in [Task -> {NoTask} \cup RegistryRecord]
    BY <1>4, <2>1 DEF Stamp, TypeOK
  <2> QED
    BY <1>4, <2>3, <2>4 DEF Stamp, TypeOK
<1>5. ASSUME NEW w \in Worker, NEW b \in Binding, NEW g \in GrantId \cup {NoGrant},
             Present(w, b, g)
      PROVE  TypeOK'
  <2>1. \A pc \in {"consume", "denied"} : Call(pc, b, g) \in CallRecord
    BY DEF Call, CallRecord, Logs
  <2>2. call' \in [Worker -> CallRecord]
    BY <1>5, <2>1, GotoType DEF Present
  <2> QED
    BY <1>5, <2>2 DEF Present, TypeOK
<1>6. ASSUME NEW w \in Worker, Consume(w) PROVE TypeOK'
  <2>1. grants' \in [DOMAIN grants' -> GrantFile] /\ DOMAIN grants' \subseteq GrantId
    BY <1>6, ConsumeFiles DEF TypeOK
  <2>2. call' \in [Worker -> CallRecord]
    BY <1>0, <1>6, GotoType DEF Consume, Logs
  <2> QED
    BY <1>6, <2>1, <2>2 DEF Consume, TypeOK
<1>7. ASSUME NEW w \in Worker, WriteLine(w) PROVE TypeOK'
  <2>1. Line(call[w].pc, call[w].grant) \in LedgerLine
    BY <1>0, <1>7 DEF WriteLine, TypeOK, Line, CallRecord, LedgerLine
  <2>2. ledger' \in Seq(LedgerLine) /\ Len(ledger') = Len(ledger) + 1
    BY <1>7, <2>1 DEF WriteLine, TypeOK
  <2>3. tip' \in 0..Len(ledger')
    BY <1>7, <2>2 DEF WriteLine, TypeOK
  <2>4. call' \in [Worker -> CallRecord]
    BY <1>0, <1>7, GotoType DEF WriteLine
  <2> QED
    BY <1>7, <2>2, <2>3, <2>4 DEF WriteLine, TypeOK
<1>8. ASSUME NEW w \in Worker, Accepted(w) PROVE TypeOK'
  <2>1. Call("issued", call[w].bind, call[w].grant) \in CallRecord
    BY <1>0 DEF Call, CallRecord, Logs
  <2> QED
    BY <1>8, <2>1, GotoType DEF Accepted, WriteTip, TypeOK
<1>9. ASSUME NEW w \in Worker, Issued(w) PROVE TypeOK'
  <2>1. call[w].grant \in GrantId
    BY <1>9 DEF Issued, Calls, CallOK, Complete, TypeOK
  <2> QED
    BY <1>9, <2>1, IdleType, GotoType DEF Issued, WriteTip, TypeOK
<1>10. ASSUME NEW w \in Worker, Authorized(w) PROVE TypeOK'
  <2>1. call[w].bind \in Binding
    BY <1>0 DEF CallRecord
  <2>2. allowed' \in [Task -> Seq(Binding)]
    BY <1>10, <2>1 DEF Authorized, TypeOK
  <2> QED
    BY <1>10, <2>2, IdleType, GotoType DEF Authorized, WriteTip, TypeOK
<1>11. ASSUME NEW w \in Worker, Denied(w) PROVE TypeOK'
  BY <1>11, IdleType, GotoType DEF Denied, WriteTip, TypeOK
<1>12. ASSUME NEW w \in Worker, Crash(w) PROVE TypeOK'
  BY <1>12, IdleType, GotoType DEF Crash, TypeOK
<1> QED
  BY <1>1, <1>2, <1>3, <1>4, <1>5, <1>6, <1>7, <1>8, <1>9, <1>10, <1>11, <1>12
  DEF Next, Accept, Execute

-----------------------------------------------------------------------------
(* What a step leaves alone *)

\* A grant file stays, with its binding, and once consumed stays consumed.
LEMMA FileStays ==
    ASSUME TypeOK, Next, NEW g \in DOMAIN grants
    PROVE  /\ g \in DOMAIN grants'
           /\ grants'[g].bind = grants[g].bind
           /\ grants[g].consumed => grants'[g].consumed
<1>1. ASSUME NEW w \in Worker, NEW h \in GrantId, Mint(w, h)
      PROVE  g \in DOMAIN grants' /\ grants'[g] = grants[g]
  BY <1>1 DEF Mint
<1>2. ASSUME NEW w \in Worker, Consume(w)
      PROVE  /\ g \in DOMAIN grants'
             /\ grants'[g].bind = grants[g].bind
             /\ grants[g].consumed => grants'[g].consumed
  BY <1>2, ConsumeFiles
<1>3. CASE UNCHANGED grants
  BY <1>3
<1> QED
  BY <1>1, <1>2, <1>3 DEF Next, Accept, Execute, Tick, Occupy, Stamp, Accepted,
    Issued, Present, Authorized, Denied, WriteLine, Crash

\* A complete record never changes: neither a new stub nor another stamp.
LEMMA RecordStays ==
    ASSUME TypeOK, Next, NEW t \in Task, NEW g, Complete(t, g)
    PROVE  registry'[t] = registry[t] /\ Complete(t, g)'
<1> USE GrantAssumption
<1>1. g \in GrantId /\ registry[t].grant = g
  BY DEF Complete, TypeOK
<1>2. registry'[t] = registry[t]
  <2>1. \A b \in Binding : registry[t] \notin {NoTask, Stub(b)}
    BY <1>1 DEF Complete, Stub, TypeOK, GrantFile
  <2>2. ASSUME NEW w \in Worker, NEW b \in Binding, Occupy(w, b)
        PROVE  registry'[t] = registry[t]
    BY <2>1, <2>2 DEF Occupy, TypeOK
  <2>3. ASSUME NEW w \in Worker, Stamp(w) PROVE registry'[t] = registry[t]
    BY <2>1, <2>3 DEF Stamp, TypeOK, CallRecord
  <2>4. CASE UNCHANGED registry
    BY <2>4
  <2> QED
    BY <2>2, <2>3, <2>4 DEF Next, Accept, Execute, Tick, Mint, Accepted, Issued,
      Present, Consume, Authorized, Denied, WriteLine, Crash
<1> QED
  BY <1>2, FileStays DEF Complete

\* What a process has established, the steps of the others leave true.
LEMMA CallStays ==
    ASSUME TypeOK, Next, NEW c \in CallRecord, CallOK(c),
           c.pc = "authorized" => allowed'[c.bind.task] = allowed[c.bind.task]
    PROVE  CallOK(c)'
<1>1. c.bind.task \in Task
  BY GrantAssumption DEF CallRecord
<1>2. Complete(c.bind.task, c.grant) => Complete(c.bind.task, c.grant)'
  BY <1>1, RecordStays
<1>3. c.grant \in DOMAIN grants =>
        /\ c.grant \in DOMAIN grants'
        /\ grants'[c.grant].bind = grants[c.grant].bind
        /\ grants[c.grant].consumed => grants'[c.grant].consumed
  BY FileStays
<1>4. Complete(c.bind.task, c.grant) => c.grant \in DOMAIN grants
  BY DEF Complete
<1>5. held \subseteq held'
  BY DEF Next, Accept, Execute, Tick, Occupy, Mint, Stamp, Accepted, Issued,
    Present, Consume, Authorized, Denied, WriteLine, Crash
<1> QED
  BY <1>2, <1>3, <1>4, <1>5 DEF CallOK

-----------------------------------------------------------------------------
(* The invariant *)

LEMMA OtherCall ==
    ASSUME TypeOK, Next, NEW v \in Worker, CallOK(call[v]), call'[v] = call[v],
           call[v].pc = "authorized" =>
                allowed'[call[v].bind.task] = allowed[call[v].bind.task]
    PROVE  CallOK(call[v])'
<1>1. PICK c \in CallRecord : c = call[v]
  BY DEF TypeOK
<1>2. CallOK(c)'
  BY <1>1, CallStays
<1> QED
  BY <1>1, <1>2 DEF CallOK

\* Each process comes to its next write with what that write relies on.
LEMMA NextCalls == IInv /\ Next => Calls'
<1> SUFFICES ASSUME IInv, Next, NEW v \in Worker PROVE CallOK(call[v])'
  BY DEF Calls
<1> USE GrantAssumption
<1>0. /\ TypeOK /\ CallOK(call[v]) /\ call[v] \in CallRecord
      /\ call \in [Worker -> CallRecord]
  BY DEF IInv, Calls, TypeOK
<1>1. ASSUME NEW w \in Worker, call' = [call EXCEPT ![w] = Idle] PROVE call'[w] = Idle
  BY <1>0, <1>1
<1>2. CASE UNCHANGED allowed /\ call'[v] = call[v]
  BY <1>0, <1>2, OtherCall
<1>3. CASE call'[v] = Idle
  BY <1>3 DEF Idle, Call, CallOK
<1>4. ASSUME NEW b \in Binding, Occupy(v, b) PROVE CallOK(call[v])'
  BY <1>0, <1>4 DEF Occupy, Goto, Call, CallOK
<1>5. ASSUME NEW g \in GrantId, Mint(v, g) PROVE CallOK(call[v])'
  BY <1>0, <1>5 DEF Mint, Goto, Call, CallOK
<1>6. ASSUME Stamp(v) PROVE CallOK(call[v])'
  <2>1. CASE registry[call[v].bind.task] = Stub(call[v].bind)
    <3>1. call'[v] = [call[v] EXCEPT !.pc = "accepted"]
      BY <1>0, <1>6, <2>1 DEF Stamp, Goto
    <3>2. call[v].bind.task \in Task
      BY <1>0 DEF CallRecord
    <3>3. registry'[call[v].bind.task] = [bind |-> call[v].bind, grant |-> call[v].grant]
      BY <1>0, <1>6, <2>1, <3>2 DEF Stamp, TypeOK
    <3>4. UNCHANGED grants
      BY <1>6 DEF Stamp
    <3> QED
      BY <1>0, <1>6, <3>1, <3>3, <3>4 DEF Stamp, CallOK, Complete, Logs, CallRecord
  <2>2. CASE registry[call[v].bind.task] # Stub(call[v].bind)
    BY <1>0, <1>3, <1>6, <2>2 DEF Stamp, Goto
  <2> QED
    BY <2>1, <2>2
<1>7. ASSUME Accepted(v) PROVE CallOK(call[v])'
  BY <1>0, <1>7 DEF Accepted, Goto, Call, CallOK, Complete
<1>8. ASSUME NEW b \in Binding, NEW g \in GrantId \cup {NoGrant}, Present(v, b, g)
      PROVE  CallOK(call[v])'
  <2>1. CASE Registered(b, g)
    <3>1. b.task \in Task /\ registry[b.task] # NoTask /\ registry[b.task].grant = g
      BY <2>1 DEF Registered
    <3>2. Complete(b.task, g) /\ g \in held
      BY <1>8, <2>1, <3>1 DEF IInv, Filed, Registered, Present
    <3>3. call'[v] = Call("consume", b, g)
      BY <1>0, <1>8, <2>1 DEF Present, Goto
    <3> QED
      BY <1>8, <3>2, <3>3 DEF Present, Call, CallOK, Complete
  <2>2. CASE ~Registered(b, g)
    BY <1>0, <1>8, <2>2 DEF Present, Goto, Call, CallOK
  <2> QED
    BY <2>1, <2>2
<1>9. ASSUME Consume(v) PROVE CallOK(call[v])'
  <2> DEFINE b == call[v].bind
             g == call[v].grant
  <2>1. Complete(b.task, g) /\ g \in held /\ g \in DOMAIN grants /\ ~call[v].lined
    BY <1>0, <1>9 DEF Consume, CallOK, Logs, Complete, CallRecord
  <2>2. CASE Valid(g, b)
    <3>1. call'[v] = [call[v] EXCEPT !.pc = "authorized"]
      BY <1>0, <1>9, <2>1, <2>2 DEF Consume, Goto
    <3>2. b.task \in Task
      BY <1>0 DEF CallRecord
    <3>3. allowed[b.task] = <<>>
      <4>1. registry[b.task].grant = g
        BY <2>1 DEF Complete
      <4> QED
        BY <2>2, <3>2, <4>1 DEF IInv, Spent, Valid
    <3>4. g \in DOMAIN grants' /\ grants'[g].bind = grants[g].bind
      BY <1>0, <1>9, <2>1, ConsumeFiles
    <3>5. grants'[g].consumed
      <4>1. grants' = [grants EXCEPT ![g].consumed = TRUE]
        BY <1>9, <2>2 DEF Consume
      <4>2. grants[g] \in GrantFile
        BY <1>0, <2>1 DEF TypeOK
      <4> QED
        BY <2>1, <4>1, <4>2 DEF GrantFile
    <3>6. registry'[b.task] = [bind |-> grants'[g].bind, grant |-> g] /\ grants[g].bind = b
      BY <1>9, <2>1, <2>2, <3>4 DEF Complete, Consume, Valid
    <3>7. UNCHANGED <<held, allowed, registry>>
      BY <1>9 DEF Consume
    <3>8. call'[v].pc = "authorized" /\ call'[v].bind = b /\ call'[v].grant = g
      BY <1>0, <3>1 DEF CallRecord
    <3>9. ~call'[v].lined
      BY <1>0, <2>1, <3>1 DEF CallRecord
    <3> HIDE DEF b, g
    <3> QED
      BY <2>1, <3>3, <3>4, <3>5, <3>6, <3>7, <3>8, <3>9 DEF CallOK, Complete
  <2>3. CASE ~Valid(g, b)
    <3>1. call'[v] = [call[v] EXCEPT !.pc = "refused"]
      BY <1>0, <1>9, <2>1, <2>3 DEF Consume, Goto
    <3> QED
      BY <1>0, <3>1 DEF CallOK, CallRecord, Logs
  <2> QED
    BY <2>2, <2>3
<1>10. ASSUME WriteLine(v) PROVE CallOK(call[v])'
  <2>1. call'[v] = [call[v] EXCEPT !.lined = TRUE] /\ call[v].pc \in Logs
    BY <1>0, <1>10 DEF WriteLine, Goto
  <2>2. call'[v].pc = call[v].pc /\ call'[v].bind = call[v].bind
        /\ call'[v].grant = call[v].grant
    BY <1>0, <2>1 DEF CallRecord
  <2>3. UNCHANGED <<registry, grants, held, allowed>>
    BY <1>10 DEF WriteLine
  <2> QED
    BY <1>0, <2>1, <2>2, <2>3 DEF CallOK, Complete
<1>11. ASSUME NEW w \in Worker, w # v, Authorized(w) PROVE CallOK(call[v])'
  <2>1. ASSUME call[v].pc = "authorized"
        PROVE  call[v].bind.task # call[w].bind.task
    <3>1. call[v].grant # call[w].grant
      BY <1>11, <2>1 DEF IInv, Single, Authorized
    <3>2. Complete(call[v].bind.task, call[v].grant)
      BY <1>0, <2>1 DEF CallOK
    <3>3. Complete(call[w].bind.task, call[w].grant)
      BY <1>11 DEF IInv, Calls, CallOK, Authorized
    <3> QED
      BY <3>1, <3>2, <3>3 DEF Complete
  <2>2. call[v].pc = "authorized" =>
            allowed'[call[v].bind.task] = allowed[call[v].bind.task]
    BY <1>0, <1>11, <2>1 DEF Authorized, TypeOK, CallRecord
  <2>3. call'[v] = call[v]
    BY <1>0, <1>11 DEF Authorized, Goto
  <2> QED
    BY <1>0, <2>2, <2>3, OtherCall
<1>12. ASSUME NEW w \in Worker, w # v,
              Accept(w) \/ Consume(w) \/ Denied(w) \/ WriteLine(w) \/ Crash(w)
              \/ \E b \in Binding, g \in GrantId \cup {NoGrant} : Present(w, b, g)
       PROVE  CallOK(call[v])'
  <2>1. UNCHANGED allowed /\ call'[v] = call[v]
    BY <1>0, <1>12 DEF Accept, Goto, Occupy, Mint, Stamp, Accepted, Issued, Present,
      Consume, Denied, WriteLine, Crash
  <2> QED
    BY <1>2, <2>1
<1>13. ASSUME Issued(v) \/ Authorized(v) \/ Denied(v) \/ Crash(v)
       PROVE  CallOK(call[v])'
  BY <1>0, <1>1, <1>3, <1>13 DEF Issued, Authorized, Denied, Crash, Goto
<1>14. CASE Tick
  BY <1>2, <1>14 DEF Tick
<1> QED
  BY <1>4, <1>5, <1>6, <1>7, <1>8, <1>9, <1>10, <1>11, <1>12, <1>13, <1>14
  DEF Next, Accept, Execute

LEMMA NextFiled == IInv /\ Next => Filed'
<1> SUFFICES ASSUME IInv, Next, NEW t \in Task, registry'[t] # NoTask
             PROVE  /\ registry'[t].bind.task = t
                    /\ registry'[t].grant # NoGrant => Complete(t, registry[t].grant)'
  BY DEF Filed
<1> USE GrantAssumption DEF IInv
<1>1. CASE registry'[t] = registry[t]
  <2>1. registry[t].bind.task = t
        /\ (registry[t].grant # NoGrant => Complete(t, registry[t].grant))
    BY <1>1 DEF Filed
  <2>2. PICK g : g = registry[t].grant
    OBVIOUS
  <2>3. Complete(t, g) => Complete(t, g)'
    BY RecordStays
  <2> QED
    BY <1>1, <2>1, <2>2, <2>3 DEF Complete
<1>2. ASSUME NEW w \in Worker, NEW b \in Binding, Occupy(w, b), b.task = t
      PROVE  registry'[t].bind.task = t /\ registry'[t].grant = NoGrant
  BY <1>2 DEF Occupy, Stub, TypeOK
<1>3. ASSUME NEW w \in Worker, Stamp(w), call[w].bind.task = t, registry'[t] # registry[t]
      PROVE  registry'[t].bind.task = t /\ Complete(t, registry[t].grant)'
  <2>1. registry'[t] = [bind |-> call[w].bind, grant |-> call[w].grant] /\ UNCHANGED grants
    BY <1>3 DEF Stamp, TypeOK
  <2>2. call[w].grant \in DOMAIN grants /\ grants[call[w].grant].bind = call[w].bind
    BY <1>3 DEF Calls, CallOK, Stamp
  <2> QED
    BY <1>3, <2>1, <2>2 DEF Complete
<1>4. ASSUME NEW w \in Worker, NEW b \in Binding, Occupy(w, b), b.task # t
      PROVE  registry'[t] = registry[t]
  BY <1>4 DEF Occupy, TypeOK
<1>5. ASSUME NEW w \in Worker, Stamp(w), call[w].bind.task # t
      PROVE  registry'[t] = registry[t]
  BY <1>5 DEF Stamp, TypeOK
<1>6. CASE UNCHANGED registry
  BY <1>1, <1>6
<1> QED
  BY <1>1, <1>2, <1>3, <1>4, <1>5, <1>6 DEF Next, Accept, Execute, Tick, Mint,
    Accepted, Issued, Present, Consume, Authorized, Denied, WriteLine, Crash

LEMMA NextSingle == IInv /\ Next => Single'
<1> SUFFICES ASSUME IInv, Next PROVE Single'
  OBVIOUS
<1> USE DEF IInv
<1>0. call \in [Worker -> CallRecord]
  BY DEF TypeOK
<1>1. ASSUME NEW w \in Worker, Consume(w) PROVE Single'
  <2>1. \A v \in Worker : v # w => call'[v] = call[v]
    BY <1>0, <1>1 DEF Consume, Goto
  <2>2. call'[w].grant = call[w].grant
    BY <1>0, <1>1 DEF Consume, Goto, CallRecord
  <2>3. \A v \in Worker : call[v].pc = "authorized" => call[v].grant # call[w].grant
    BY <1>1 DEF Consume, Unlocked
  <2> QED
    BY <2>1, <2>2, <2>3 DEF Single
<1>2. ASSUME \A v \in Worker : call'[v].pc = "authorized" =>
                call[v].pc = "authorized" /\ call'[v].grant = call[v].grant
      PROVE  Single'
  BY <1>2 DEF Single
<1>3. ASSUME NEW w \in Worker,
             Accept(w) \/ Authorized(w) \/ Denied(w) \/ WriteLine(w) \/ Crash(w)
             \/ \E b \in Binding, g \in GrantId \cup {NoGrant} : Present(w, b, g)
      PROVE  \A v \in Worker : call'[v].pc = "authorized" =>
                call[v].pc = "authorized" /\ call'[v].grant = call[v].grant
  <2>1. \A v \in Worker : v # w => call'[v] = call[v]
    BY <1>0, <1>3 DEF Accept, Goto, Occupy, Mint, Stamp, Accepted, Issued, Present,
      Authorized, Denied, WriteLine, Crash
  <2>2. CASE WriteLine(w)
    <3>1. call'[w].pc = call[w].pc /\ call'[w].grant = call[w].grant
      BY <1>0, <2>2 DEF WriteLine, Goto, CallRecord
    <3> QED
      BY <2>1, <3>1
  <2>3. CASE ~WriteLine(w)
    <3>1. CASE call' = [call EXCEPT ![w] = Idle]
      BY <1>0, <2>1, <3>1 DEF Idle, Call
    <3>2. ASSUME Stamp(w), call' # [call EXCEPT ![w] = Idle]
          PROVE  call'[w].pc # "authorized"
      BY <1>0, <3>2 DEF Stamp, Goto, CallRecord
    <3>3. ASSUME NEW b \in Binding, Occupy(w, b) PROVE call'[w].pc # "authorized"
      BY <1>0, <3>3 DEF Occupy, Goto, Call
    <3>4. ASSUME NEW g \in GrantId, Mint(w, g) PROVE call'[w].pc # "authorized"
      BY <1>0, <3>4 DEF Mint, Goto, Call
    <3>5. ASSUME Accepted(w) PROVE call'[w].pc # "authorized"
      BY <1>0, <3>5 DEF Accepted, Goto, Call
    <3>6. ASSUME NEW b \in Binding, NEW g \in GrantId \cup {NoGrant}, Present(w, b, g)
          PROVE  call'[w].pc # "authorized"
      BY <1>0, <3>6 DEF Present, Goto, Call
    <3> QED
      BY <1>3, <2>1, <2>3, <3>1, <3>2, <3>3, <3>4, <3>5, <3>6
      DEF Accept, Issued, Authorized, Denied, Crash, Goto
  <2> QED
    BY <2>2, <2>3
<1>4. CASE Tick
  BY <1>2, <1>4 DEF Tick
<1> QED
  BY <1>1, <1>2, <1>3, <1>4 DEF Next, Execute

LEMMA NextSpent == IInv /\ Next => Spent'
<1> SUFFICES ASSUME IInv, Next, NEW t \in Task, allowed'[t] # <<>>
             PROVE  /\ registry'[t] # NoTask /\ Complete(t, registry[t].grant)'
                    /\ grants'[registry'[t].grant].consumed
                    /\ allowed'[t] = <<registry'[t].bind>>
  BY DEF Spent
<1> USE DEF IInv
<1>1. ASSUME NEW g, Complete(t, g), registry[t] # NoTask, grants[g].consumed,
             allowed'[t] = <<registry[t].bind>>
      PROVE  /\ registry'[t] # NoTask /\ Complete(t, registry[t].grant)'
             /\ grants'[registry'[t].grant].consumed
             /\ allowed'[t] = <<registry'[t].bind>>
  <2>1. registry'[t] = registry[t] /\ Complete(t, g)'
    BY <1>1, RecordStays
  <2>2. registry[t].grant = g /\ grants'[g].consumed
    BY <1>1, FileStays DEF Complete
  <2> QED
    BY <1>1, <2>1, <2>2 DEF Complete
<1>2. CASE allowed'[t] = allowed[t]
  <2>1. PICK g : g = registry[t].grant
    OBVIOUS
  <2> QED
    BY <1>1, <1>2, <2>1 DEF Spent
<1>3. ASSUME NEW w \in Worker, Authorized(w), call[w].bind.task = t
      PROVE  \E g : /\ Complete(t, g) /\ registry[t] # NoTask /\ grants[g].consumed
                    /\ allowed'[t] = <<registry[t].bind>>
  <2>1. /\ Complete(t, call[w].grant) /\ grants[call[w].grant].bind = call[w].bind
        /\ grants[call[w].grant].consumed /\ allowed[t] = <<>>
    BY <1>3 DEF Calls, CallOK, Authorized
  <2>2. registry[t] = [bind |-> call[w].bind, grant |-> call[w].grant]
    BY <2>1 DEF Complete
  <2>3. registry[t] # NoTask
    BY <2>2, GrantAssumption DEF TypeOK, CallRecord
  <2>4. allowed'[t] = <<call[w].bind>>
    BY <1>3, <2>1 DEF Authorized, TypeOK
  <2> QED
    BY <2>1, <2>2, <2>3, <2>4
<1>4. ASSUME NEW w \in Worker, Authorized(w), call[w].bind.task # t
      PROVE  allowed'[t] = allowed[t]
  BY <1>4 DEF Authorized, TypeOK
<1>5. CASE UNCHANGED allowed
  BY <1>2, <1>5
<1> QED
  BY <1>1, <1>2, <1>3, <1>4, <1>5 DEF Next, Accept, Execute, Tick, Occupy, Mint, Stamp,
    Accepted, Issued, Present, Consume, Denied, WriteLine, Crash

LEMMA NextHeld == IInv /\ Next => Held'
<1> SUFFICES ASSUME IInv, Next, NEW g \in held'
             PROVE  g \in DOMAIN grants' /\ Complete(grants[g].bind.task, g)'
  BY DEF Held
<1> USE GrantAssumption DEF IInv
<1>1. g \in DOMAIN grants /\ Complete(grants[g].bind.task, g)
  <2>1. CASE g \in held
    BY <2>1 DEF Held
  <2>2. ASSUME NEW w \in Worker, Issued(w), g = call[w].grant
        PROVE  g \in DOMAIN grants /\ Complete(grants[g].bind.task, g)
    BY <2>2 DEF Issued, Calls, CallOK, Complete
  <2> QED
    BY <2>1, <2>2 DEF Next, Accept, Execute, Tick, Occupy, Mint, Stamp,
      Accepted, Issued, Present, Consume, Authorized, Denied, WriteLine, Crash
<1>2. PICK t \in Task : t = grants[g].bind.task
  BY <1>1 DEF TypeOK, GrantFile
<1>3. Complete(t, g)'
  BY <1>1, <1>2, RecordStays
<1>4. g \in DOMAIN grants' /\ grants'[g].bind.task = t
  BY <1>1, <1>2, FileStays
<1> QED
  BY <1>3, <1>4 DEF Complete

LEMMA InitInv == Init => IInv
<1> SUFFICES ASSUME Init PROVE IInv
  OBVIOUS
<1>1. \A w \in Worker : call[w] = Idle
  BY DEF Init
<1>2. Idle.pc = "idle" /\ ~Idle.lined
  BY DEF Idle, Call
<1>4. Calls /\ Single
  BY <1>1, <1>2 DEF Calls, CallOK, Single
<1>3. Filed /\ Spent /\ Held
  BY DEF Init, Filed, Spent, Held
<1> QED
  BY <1>3, <1>4, InitType DEF IInv

LEMMA NextInv == IInv /\ [Next]_vars => IInv'
<1>1. CASE UNCHANGED vars
  BY <1>1 DEF vars, IInv, TypeOK, Filed, Calls, CallOK, Complete, Single, Spent, Held
<1> QED
  BY <1>1, NextType, NextCalls, NextFiled, NextSingle, NextSpent, NextHeld DEF IInv

\* Every variable keeps its type, however many processes accept, execute and die.
THEOREM TypeCorrect == Spec => []TypeOK
  BY InitInv, NextInv, PTL DEF Spec, IInv

\* A token once returned stays the one registered for its task: no recovery of a
\* stub and no accept that hung replaces it.
THEOREM TokenStaysRegistered == Spec => []HeldTokenIsRegistered
<1>1. IInv => HeldTokenIsRegistered
  BY DEF IInv, Held, Complete, HeldTokenIsRegistered
<1> QED
  BY <1>1, InitInv, NextInv, PTL DEF Spec

-----------------------------------------------------------------------------
(* The code implements OneUse *)

LEMMA AcceptedOf ==
    ASSUME NEW b \in Binding, NEW g \in GrantId
    PROVE  /\ AcceptedBinding([bind |-> b, grant |-> g]) = b
           /\ AcceptedBinding(Stub(b)) = NoTask
           /\ AcceptedBinding(NoTask) = NoTask
  BY GrantAssumption DEF AcceptedBinding, Stub

\* Stamping the registry is the acceptance.
LEMMA StampStep ==
    ASSUME IInv, NEW w \in Worker, Stamp(w), registry' # registry
    PROVE  Gate!Accept(call[w].bind) /\ call[w].bind \in Binding
<1> USE GrantAssumption
<1>1. PICK b, g : b = call[w].bind /\ g = call[w].grant
  OBVIOUS
<1>2. b \in Binding /\ g \in GrantId /\ b.task \in Task
  BY <1>1 DEF IInv, TypeOK, CallRecord, Calls, CallOK, Stamp
<1>3. registry[b.task] = Stub(b) /\ UNCHANGED allowed
      /\ registry' = [registry EXCEPT ![b.task] = [bind |-> b, grant |-> g]]
  BY <1>1 DEF Stamp
<1>4. \A t \in Task :
        registry'[t] = IF t = b.task THEN [bind |-> b, grant |-> g] ELSE registry[t]
  BY <1>2, <1>3 DEF IInv, TypeOK
<1>5. \A t \in Task :
        AcceptedBinding(registry'[t]) = IF t = b.task THEN b ELSE AcceptedBinding(registry[t])
  BY <1>2, <1>4, AcceptedOf
<1>6. AcceptedBinding(registry[b.task]) = NoTask
  BY <1>2, <1>3, AcceptedOf
<1>7. Gate!Accept(b)
  BY <1>2, <1>3, <1>5, <1>6 DEF Gate!Accept
<1> QED
  BY <1>1, <1>2, <1>7

\* A stub, new or taken up again, is no acceptance.
LEMMA OccupyStutters ==
    ASSUME IInv, NEW w \in Worker, NEW b \in Binding, Occupy(w, b)
    PROVE  UNCHANGED Gate!vars
<1> USE GrantAssumption
<1>1. \A t \in Task : registry'[t] = IF t = b.task THEN Stub(b) ELSE registry[t]
  BY DEF IInv, TypeOK, Occupy
<1>2. AcceptedBinding(registry[b.task]) = NoTask /\ AcceptedBinding(Stub(b)) = NoTask
  BY DEF Occupy, AcceptedBinding, Stub
<1>3. \A t \in Task : AcceptedBinding(registry'[t]) = AcceptedBinding(registry[t])
  BY <1>1, <1>2
<1> QED
  BY <1>3 DEF Occupy, Gate!vars

\* Opening the gate is the use.
LEMMA AuthorizedStep ==
    ASSUME IInv, NEW w \in Worker, Authorized(w)
    PROVE  \E t \in Task : Gate!Use(t)
<1> USE GrantAssumption
<1>1. PICK b, g : b = call[w].bind /\ g = call[w].grant
  OBVIOUS
<1>2. b \in Binding /\ b.task \in Task
  BY <1>1 DEF IInv, TypeOK, CallRecord
<1>3. /\ g \in GrantId /\ registry[b.task] = [bind |-> b, grant |-> g]
      /\ allowed[b.task] = <<>>
  BY <1>1 DEF IInv, TypeOK, Calls, CallOK, Complete, Authorized
<1>4. AcceptedBinding(registry[b.task]) = b /\ b # NoTask
  BY <1>2, <1>3, AcceptedOf
<1>5. allowed' = [allowed EXCEPT ![b.task] = <<b>>] /\ UNCHANGED registry
  BY <1>1, <1>3 DEF Authorized
<1>6. Gate!Use(b.task)
  BY <1>2, <1>3, <1>4, <1>5 DEF Gate!Use
<1> QED
  BY <1>2, <1>6

\* A task is accepted once, and its accepted binding executes at most once: not
\* twice for a token presented twice, a stub minted again, an accept that hung,
\* or any crash.
THEOREM OneUsePerTask == Spec => OneExecution
<1>1. Init => Gate!Init
  BY GrantAssumption DEF Init, Gate!Init, AcceptedBinding
<1>2. IInv /\ [Next]_vars => [Gate!Next]_(Gate!vars)
  <2> SUFFICES ASSUME IInv, [Next]_vars PROVE Gate!Next \/ UNCHANGED Gate!vars
    OBVIOUS
  <2>1. CASE UNCHANGED <<registry, allowed>>
    BY <2>1 DEF Gate!vars
  <2>2. ASSUME NEW w \in Worker, Stamp(w)
        PROVE  Gate!Next \/ UNCHANGED <<registry, allowed>>
    BY <2>2, StampStep DEF Gate!Next, Stamp
  <2>3. ASSUME NEW w \in Worker, Authorized(w) PROVE Gate!Next
    BY <2>3, AuthorizedStep DEF Gate!Next
  <2> QED
    BY <2>1, <2>2, <2>3, OccupyStutters DEF Next, vars, Accept, Execute, Tick, Mint,
      Accepted, Issued, Present, Consume, Denied, WriteLine, Crash
<1> QED
  BY <1>1, <1>2, InitInv, NextInv, PTL DEF Spec, OneExecution, Gate!Spec

-----------------------------------------------------------------------------
(* The ledger *)

\* The lines that a process in call c has left of its grant.
PaperOK(c) ==
    /\ (c.pc = "accepted" /\ c.lined) \/ c.pc = "issued" => AcceptedLine(ledger, c.grant)
    /\ c.pc = "issued" /\ c.lined => IssuedLine(ledger, c.grant)
    /\ c.pc = "authorized" /\ c.lined => AuthorizedLine(ledger, c.grant)

Paper ==
    /\ \A w \in Worker : PaperOK(call[w])
    /\ \A g \in held : IssuedLine(ledger, g)
    /\ EvidenceFirst

\* Lines stay where they are when the ledger grows, and the new one completes
\* what was there.
LEMMA LinesStay ==
    ASSUME NEW l \in Seq(LedgerLine), NEW x \in LedgerLine, NEW g
    PROVE  /\ AcceptedLine(l, g) => AcceptedLine(Append(l, x), g)
           /\ IssuedLine(l, g) => IssuedLine(Append(l, x), g)
           /\ AuthorizedLine(l, g) => AuthorizedLine(Append(l, x), g)
           /\ x.kind = "accepted" /\ x.grant = g => AcceptedLine(Append(l, x), g)
           /\ AcceptedLine(l, g) /\ x.kind = "issued" /\ x.grant = g
              => IssuedLine(Append(l, x), g)
           /\ IssuedLine(l, g) /\ x.kind = "authorized" /\ x.grant = g
              => AuthorizedLine(Append(l, x), g)
<1> DEFINE m == Append(l, x)
<1>1. /\ Len(l) \in Nat /\ Len(m) = Len(l) + 1 /\ m[Len(l) + 1] = x
      /\ \A i \in 1..Len(l) : m[i] = l[i]
  OBVIOUS
<1> HIDE DEF m
<1>2. AcceptedLine(l, g) => AcceptedLine(m, g)
  BY <1>1 DEF AcceptedLine
<1>3. IssuedLine(l, g) => IssuedLine(m, g)
  BY <1>1 DEF IssuedLine
<1>4. AuthorizedLine(l, g) => AuthorizedLine(m, g)
  <2> SUFFICES ASSUME AuthorizedLine(l, g) PROVE AuthorizedLine(m, g)
    OBVIOUS
  <2>1. PICK i, j, k \in 1..Len(l) :
            /\ i < j /\ j < k
            /\ l[i].kind = "accepted" /\ l[i].grant = g
            /\ l[j].kind = "issued" /\ l[j].grant = g
            /\ l[k].kind = "authorized" /\ l[k].grant = g
    BY DEF AuthorizedLine
  <2>2. i \in 1..Len(m) /\ j \in 1..Len(m) /\ k \in 1..Len(m)
    BY <1>1
  <2>3. m[i] = l[i] /\ m[j] = l[j] /\ m[k] = l[k]
    BY <1>1
  <2> QED
    BY <2>1, <2>2, <2>3 DEF AuthorizedLine
<1>5. x.kind = "accepted" /\ x.grant = g => AcceptedLine(m, g)
  BY <1>1 DEF AcceptedLine
<1>6. AcceptedLine(l, g) /\ x.kind = "issued" /\ x.grant = g => IssuedLine(m, g)
  BY <1>1 DEF AcceptedLine, IssuedLine
<1>7. IssuedLine(l, g) /\ x.kind = "authorized" /\ x.grant = g => AuthorizedLine(m, g)
  <2> SUFFICES ASSUME IssuedLine(l, g), x.kind = "authorized", x.grant = g
               PROVE  AuthorizedLine(m, g)
    OBVIOUS
  <2>1. PICK i, j \in 1..Len(l) :
            /\ i < j
            /\ l[i].kind = "accepted" /\ l[i].grant = g
            /\ l[j].kind = "issued" /\ l[j].grant = g
    BY DEF IssuedLine
  <2>2. /\ i \in 1..Len(m) /\ j \in 1..Len(m) /\ Len(m) \in 1..Len(m)
        /\ j < Len(m) /\ m[Len(m)] = x /\ m[i] = l[i] /\ m[j] = l[j]
    BY <1>1
  <2> QED
    BY <2>1, <2>2 DEF AuthorizedLine
<1> QED
  BY <1>2, <1>3, <1>4, <1>5, <1>6, <1>7 DEF m

\* Of the ledger a step changes nothing but its end, and that only by WriteLine.
LEMMA LedgerGrows ==
    ASSUME TypeOK, Next, NEW g
    PROVE  /\ AcceptedLine(ledger, g) => AcceptedLine(ledger', g)
           /\ IssuedLine(ledger, g) => IssuedLine(ledger', g)
           /\ AuthorizedLine(ledger, g) => AuthorizedLine(ledger', g)
<1>1. ASSUME NEW w \in Worker, WriteLine(w)
      PROVE  \E x \in LedgerLine : ledger' = Append(ledger, x)
  <2>1. Line(call[w].pc, call[w].grant) \in LedgerLine
    BY <1>1 DEF WriteLine, TypeOK, Line, CallRecord, LedgerLine
  <2> QED
    BY <1>1, <2>1 DEF WriteLine
<1>2. ASSUME NEW x \in LedgerLine, ledger' = Append(ledger, x)
      PROVE  /\ AcceptedLine(ledger, g) => AcceptedLine(ledger', g)
             /\ IssuedLine(ledger, g) => IssuedLine(ledger', g)
             /\ AuthorizedLine(ledger, g) => AuthorizedLine(ledger', g)
  BY <1>2, LinesStay DEF TypeOK
<1>3. (\A w \in Worker : ~WriteLine(w)) => UNCHANGED ledger
  BY DEF Next, Accept, Execute, Tick, Occupy, Mint, Stamp, Accepted, Issued,
    Present, Consume, Authorized, Denied, WriteTip, Crash
<1> QED
  BY <1>1, <1>2, <1>3

LEMMA NextPaper == IInv /\ Paper /\ Next => Paper'
<1> SUFFICES ASSUME IInv, Paper, Next PROVE Paper'
  OBVIOUS
<1> USE DEF IInv
<1>0. call \in [Worker -> CallRecord]
  BY DEF TypeOK
<1>1. ASSUME NEW v \in Worker, call'[v] = call[v] PROVE PaperOK(call[v])'
  <2>1. PICK c : c = call[v]
    OBVIOUS
  <2>2. PaperOK(c)
    BY <2>1 DEF Paper
  <2>3. PaperOK(c)'
    BY <2>2, LedgerGrows DEF PaperOK
  <2> QED
    BY <1>1, <2>1, <2>3 DEF PaperOK
<1>2. ASSUME NEW v \in Worker, ~call'[v].lined, call'[v].pc # "issued"
      PROVE  PaperOK(call[v])'
  BY <1>2 DEF PaperOK
<1>3. ASSUME NEW v \in Worker, WriteLine(v) PROVE PaperOK(call[v])'
  <2>1. PICK x : x = Line(call[v].pc, call[v].grant)
    OBVIOUS
  <2>2. x \in LedgerLine /\ x.kind = call[v].pc /\ x.grant = call[v].grant
    BY <1>0, <1>3, <2>1 DEF WriteLine, TypeOK, Line, CallRecord, LedgerLine
  <2>3. ledger' = Append(ledger, x) /\ ledger \in Seq(LedgerLine)
    BY <1>3, <2>1 DEF WriteLine, TypeOK
  <2>4. call'[v].pc = call[v].pc /\ call'[v].grant = call[v].grant
    BY <1>0, <1>3 DEF WriteLine, Goto, CallRecord
  <2>5. PICK g : g = call[v].grant
    OBVIOUS
  <2>6. call[v].pc = "accepted" => AcceptedLine(ledger', g)
    BY <2>2, <2>3, <2>5, LinesStay
  <2>7. call[v].pc = "issued" => AcceptedLine(ledger', g) /\ IssuedLine(ledger', g)
    <3>1. call[v].pc = "issued" => AcceptedLine(ledger, g)
      BY <2>5 DEF Paper, PaperOK
    <3> QED
      BY <2>2, <2>3, <2>5, <3>1, LinesStay
  <2>8. call[v].pc = "authorized" => AuthorizedLine(ledger', g)
    <3>1. call[v].pc = "authorized" => IssuedLine(ledger, g)
      BY <2>5 DEF Paper, Calls, CallOK
    <3> QED
      BY <2>2, <2>3, <2>5, <3>1, LinesStay
  <2> QED
    BY <2>4, <2>5, <2>6, <2>7, <2>8 DEF PaperOK
<1>4. ASSUME NEW v \in Worker, Accepted(v) PROVE PaperOK(call[v])'
  <2>1. call'[v] = Call("issued", call[v].bind, call[v].grant)
    BY <1>0, <1>4 DEF Accepted, Goto
  <2>2. AcceptedLine(ledger, call[v].grant) /\ UNCHANGED ledger
    BY <1>4 DEF Paper, PaperOK, Accepted, WriteTip
  <2> QED
    BY <2>1, <2>2 DEF PaperOK, Call
<1>5. ASSUME NEW v \in Worker, NEW w \in Worker, v # w,
             Accept(w) \/ Execute(w) \/ WriteLine(w) \/ Crash(w)
      PROVE  call'[v] = call[v]
  BY <1>0, <1>5 DEF Accept, Execute, Goto, Occupy, Mint, Stamp, Accepted, Issued,
    Present, Consume, Authorized, Denied, WriteLine, Crash
<1>6. ASSUME NEW v \in Worker,
             call' = [call EXCEPT ![v] = Idle] \/ (\E b \in Binding : Occupy(v, b))
             \/ (\E g \in GrantId : Mint(v, g)) \/ Stamp(v) \/ Consume(v)
             \/ \E b \in Binding, g \in GrantId \cup {NoGrant} : Present(v, b, g)
      PROVE  ~call'[v].lined /\ call'[v].pc # "issued"
  <2>1. CASE call' = [call EXCEPT ![v] = Idle]
    BY <1>0, <2>1 DEF Idle, Call
  <2>2. ASSUME Stamp(v) \/ Consume(v), call' # [call EXCEPT ![v] = Idle]
        PROVE  ~call'[v].lined /\ call'[v].pc # "issued"
    <3>1. ~call[v].lined
      BY <1>0, <2>2 DEF Stamp, Consume, Calls, CallOK, Logs, CallRecord
    <3> QED
      BY <1>0, <2>2, <3>1 DEF Stamp, Consume, Goto, CallRecord
  <2>3. ASSUME NEW b \in Binding, Occupy(v, b)
        PROVE  ~call'[v].lined /\ call'[v].pc # "issued"
    BY <1>0, <2>3 DEF Occupy, Goto, Call
  <2>4. ASSUME NEW g \in GrantId, Mint(v, g)
        PROVE  ~call'[v].lined /\ call'[v].pc # "issued"
    BY <1>0, <2>4 DEF Mint, Goto, Call
  <2>5. ASSUME NEW b \in Binding, NEW g \in GrantId \cup {NoGrant}, Present(v, b, g)
        PROVE  ~call'[v].lined /\ call'[v].pc # "issued"
    BY <1>0, <2>5 DEF Present, Goto, Call
  <2> QED
    BY <1>6, <2>1, <2>2, <2>3, <2>4, <2>5
<1>7. \A v \in Worker : PaperOK(call[v])'
  BY <1>1, <1>2, <1>3, <1>4, <1>5, <1>6
  DEF Next, Accept, Execute, Tick, Issued, Authorized, Denied, Crash, Goto
<1>8. ASSUME NEW g \in held' PROVE IssuedLine(ledger, g)'
  <2>1. CASE g \in held
    BY <2>1, LedgerGrows DEF Paper
  <2>2. ASSUME NEW w \in Worker, Issued(w), g = call[w].grant
        PROVE  IssuedLine(ledger, g)'
    BY <2>2 DEF Issued, WriteTip, Paper, PaperOK
  <2> QED
    BY <2>1, <2>2 DEF Next, Accept, Execute, Tick, Occupy, Mint, Stamp,
      Accepted, Issued, Present, Consume, Authorized, Denied, WriteLine, Crash
<1>9. ASSUME NEW t \in Task, allowed'[t] # <<>>
      PROVE  AuthorizedLine(ledger, registry[t].grant)'
  <2>1. CASE allowed'[t] = allowed[t]
    <3>1. PICK g : g = registry[t].grant
      OBVIOUS
    <3>2. AuthorizedLine(ledger, g) /\ Complete(t, g)
      BY <1>9, <2>1, <3>1 DEF Paper, EvidenceFirst, Spent
    <3>3. AuthorizedLine(ledger', g)
      BY <3>2, LedgerGrows
    <3>4. registry'[t].grant = g
      BY <3>1, <3>2, RecordStays
    <3> QED
      BY <3>3, <3>4
  <2>2. ASSUME NEW w \in Worker, Authorized(w), call[w].bind.task = t
        PROVE  AuthorizedLine(ledger, registry[t].grant)'
    <3>1. Complete(t, call[w].grant)
      BY <2>2 DEF Authorized, Calls, CallOK
    <3>2. registry[t].grant = call[w].grant
      BY <3>1 DEF Complete
    <3> QED
      BY <2>2, <3>2 DEF Authorized, WriteTip, Paper, PaperOK
  <2>3. ASSUME NEW w \in Worker, Authorized(w), call[w].bind.task # t
        PROVE  allowed'[t] = allowed[t]
    BY <2>3 DEF Authorized, TypeOK
  <2> QED
    BY <2>1, <2>2, <2>3 DEF Next, Accept, Execute, Tick, Occupy, Mint, Stamp,
      Accepted, Issued, Present, Consume, Denied, WriteLine, Crash
<1> QED
  BY <1>7, <1>8, <1>9 DEF Paper, EvidenceFirst

\* An execution never starts before its grant is accepted, issued and authorized
\* in the ledger, in this order.
THEOREM EvidenceComesFirst == Spec => []EvidenceFirst
<1>1. Init => Paper
  <2> SUFFICES ASSUME Init PROVE Paper
    OBVIOUS
  <2>1. Idle.pc = "idle" /\ ~Idle.lined
    BY DEF Idle, Call
  <2>2. \A w \in Worker : PaperOK(call[w])
    BY <2>1 DEF Init, PaperOK
  <2> QED
    BY <2>2 DEF Init, Paper, EvidenceFirst
<1>2. IInv /\ Paper /\ [Next]_vars => Paper'
  <2>1. CASE UNCHANGED vars
    BY <2>1 DEF vars, Paper, PaperOK, EvidenceFirst
  <2> QED
    BY <2>1, NextPaper
<1> QED
  BY <1>1, <1>2, InitInv, NextInv, PTL DEF Spec, Paper

\* The next line will follow a tip that a death has left behind.
Loose == IF (\A w \in Worker : ~call[w].lined) /\ tip # Len(ledger) THEN 1 ELSE 0

\* At most one process is between a line and its tip; every link that is broken, and
\* the one that will be broken next, was paid for by a death.
Chained ==
    /\ \A v, w \in Worker : call[v].lined /\ call[w].lined => v = w
    /\ Cardinality(Breaks) + Loose <= crashes

LEMMA BreaksCount ==
    ASSUME ledger \in Seq(LedgerLine)
    PROVE  IsFiniteSet(Breaks) /\ Cardinality(Breaks) \in Nat
<1>1. Len(ledger) \in Nat
  OBVIOUS
<1>2. IsFiniteSet(1..Len(ledger)) /\ Breaks \subseteq 1..Len(ledger)
  BY <1>1, FS_Interval DEF Breaks
<1> QED
  BY <1>2, FS_Subset, FS_CardinalityType

\* A new line breaks the chain at its own place or not at all.
LEMMA BreaksGrow ==
    ASSUME ledger \in Seq(LedgerLine), NEW x \in LedgerLine, ledger' = Append(ledger, x)
    PROVE  Cardinality(Breaks') =
             Cardinality(Breaks) + (IF x.prev = Len(ledger) THEN 0 ELSE 1)
<1>1. /\ Len(ledger) \in Nat /\ Len(ledger') = Len(ledger) + 1
      /\ ledger'[Len(ledger) + 1] = x
      /\ \A i \in 1..Len(ledger) : ledger'[i] = ledger[i]
  OBVIOUS
<1>2. CASE x.prev = Len(ledger)
  <2>1. Breaks' = Breaks
    BY <1>1, <1>2 DEF Breaks
  <2> QED
    BY <1>2, <2>1, BreaksCount
<1>3. CASE x.prev # Len(ledger)
  <2>1. Breaks' = Breaks \cup {Len(ledger) + 1} /\ Len(ledger) + 1 \notin Breaks
    BY <1>1, <1>3 DEF Breaks
  <2> QED
    BY <1>3, <2>1, BreaksCount, FS_AddElement
<1> QED
  BY <1>2, <1>3

LEMMA NextChained == IInv /\ Chained /\ Next => Chained'
<1> SUFFICES ASSUME IInv, Chained, Next PROVE Chained'
  OBVIOUS
<1> USE DEF IInv
<1>0. call \in [Worker -> CallRecord] /\ ledger \in Seq(LedgerLine) /\ crashes \in Nat
  BY DEF TypeOK
<1>1. ASSUME NEW w \in Worker, WriteLine(w) PROVE Chained'
  <2>1. \A v \in Worker : call'[v].lined => v = w
    BY <1>0, <1>1 DEF WriteLine, Goto
  <2>2. call'[w].lined
    BY <1>0, <1>1 DEF WriteLine, Goto, CallRecord
  <2>3. PICK x : x = Line(call[w].pc, call[w].grant)
    OBVIOUS
  <2>4. x \in LedgerLine /\ x.prev = tip /\ ledger' = Append(ledger, x)
    BY <1>0, <1>1, <2>3 DEF WriteLine, TypeOK, Line, CallRecord, LedgerLine
  <2>5. Loose = (IF tip = Len(ledger) THEN 0 ELSE 1) /\ Loose' = 0 /\ crashes' = crashes
    BY <1>1, <2>2 DEF WriteLine, Loose
  <2>6. Cardinality(Breaks') \in Nat /\ Cardinality(Breaks') <= crashes'
    BY <1>0, <2>4, <2>5, BreaksGrow, BreaksCount DEF Chained
  <2> QED
    BY <1>0, <2>1, <2>5, <2>6 DEF Chained
<1>2. ASSUME NEW w \in Worker, WriteTip(w), UNCHANGED crashes, ~call'[w].lined,
             \A v \in Worker : v # w => call'[v] = call[v]
      PROVE  Chained'
  <2>1. \A v \in Worker : ~call'[v].lined
    BY <1>2 DEF Chained, WriteTip
  <2> QED
    BY <1>2, <2>1 DEF Chained, WriteTip, Breaks, Loose
<1>3. ASSUME NEW w \in Worker, Accepted(w) \/ Issued(w) \/ Authorized(w) \/ Denied(w)
      PROVE  Chained'
  <2>1. ~call'[w].lined /\ \A v \in Worker : v # w => call'[v] = call[v]
    BY <1>0, <1>3 DEF Accepted, Issued, Authorized, Denied, Goto, Idle, Call
  <2> QED
    BY <1>2, <1>3, <2>1 DEF Accepted, Issued, Authorized, Denied
<1>4. ASSUME UNCHANGED <<ledger, tip, crashes>>,
             \A v \in Worker : call'[v].lined = call[v].lined
      PROVE  Chained'
  BY <1>4 DEF Chained, Breaks, Loose
<1>5. ASSUME NEW w \in Worker, ~call[w].lined, ~call'[w].lined,
             \A v \in Worker : v # w => call'[v] = call[v],
             UNCHANGED <<ledger, tip, crashes>>
      PROVE  Chained'
  <2>1. \A v \in Worker : call'[v].lined <=> call[v].lined
    BY <1>5
  <2> QED
    BY <1>5, <2>1 DEF Chained, Breaks, Loose
<1>6. ASSUME NEW w \in Worker, Crash(w) PROVE Chained'
  <2>1. ~call'[w].lined /\ \A v \in Worker : v # w => call'[v] = call[v]
    BY <1>0, <1>6 DEF Crash, Goto, Idle, Call
  <2>2. crashes' = crashes + 1 /\ Breaks' = Breaks
    BY <1>6 DEF Crash, Breaks
  <2>3. Loose \in 0..1 /\ Loose' \in 0..1
    BY DEF Loose
  <2> QED
    BY <1>0, <2>1, <2>2, <2>3, BreaksCount DEF Chained
<1>7. ASSUME NEW w \in Worker, Stamp(w) \/ Consume(w) PROVE Chained'
  <2>1. ~call[w].lined
    BY <1>0, <1>7 DEF Stamp, Consume, Calls, CallOK, Logs, CallRecord
  <2>2. ~Idle.lined
    BY DEF Idle, Call
  <2>3. ~call'[w].lined /\ \A v \in Worker : v # w => call'[v] = call[v]
    BY <1>0, <1>7, <2>1, <2>2 DEF Stamp, Consume, Goto, CallRecord
  <2> QED
    BY <1>5, <1>7, <2>1, <2>3 DEF Stamp, Consume
<1>8. ASSUME NEW w \in Worker, NEW b \in Binding, Occupy(w, b) PROVE Chained'
  <2>1. ~call[w].lined
    BY <1>0, <1>8 DEF Occupy, Calls, CallOK, Logs, CallRecord
  <2>2. ~call'[w].lined /\ \A v \in Worker : v # w => call'[v] = call[v]
    BY <1>0, <1>8 DEF Occupy, Goto, Call
  <2> QED
    BY <1>5, <1>8, <2>1, <2>2 DEF Occupy
<1>9. ASSUME NEW w \in Worker, NEW g \in GrantId, Mint(w, g) PROVE Chained'
  <2>1. ~call[w].lined
    BY <1>0, <1>9 DEF Mint, Calls, CallOK, Logs, CallRecord
  <2>2. ~call'[w].lined /\ \A v \in Worker : v # w => call'[v] = call[v]
    BY <1>0, <1>9 DEF Mint, Goto, Call
  <2> QED
    BY <1>5, <1>9, <2>1, <2>2 DEF Mint
<1>10. ASSUME NEW w \in Worker, NEW b \in Binding, NEW g \in GrantId \cup {NoGrant},
              Present(w, b, g)
       PROVE  Chained'
  <2>1. ~call[w].lined
    BY <1>0, <1>10 DEF Present, Calls, CallOK, Logs, CallRecord
  <2>2. ~call'[w].lined /\ \A v \in Worker : v # w => call'[v] = call[v]
    BY <1>0, <1>10 DEF Present, Goto, Call
  <2> QED
    BY <1>5, <1>10, <2>1, <2>2 DEF Present
<1>11. CASE Tick
  BY <1>4, <1>11 DEF Tick
<1> QED
  BY <1>1, <1>3, <1>6, <1>7, <1>8, <1>9, <1>10, <1>11 DEF Next, Accept, Execute

LEMMA InitChained == Init => Chained
<1> SUFFICES ASSUME Init PROVE Chained
  OBVIOUS
<1>1. \A w \in Worker : ~call[w].lined
  BY DEF Init, Idle, Call
<1>2. Breaks = {} /\ Loose = 0 /\ crashes = 0
  BY DEF Init, Breaks, Loose
<1> QED
  BY <1>1, <1>2, FS_EmptySet DEF Chained

\* A death costs the chain of the ledger one link at most.
THEOREM DeathBreaksOneLink == Spec => []OneBreakPerDeath
<1>1. IInv /\ Chained /\ [Next]_vars => Chained'
  <2>1. CASE UNCHANGED vars
    BY <2>1 DEF vars, Chained, Breaks, Loose
  <2> QED
    BY <2>1, NextChained
<1>2. IInv /\ Chained => OneBreakPerDeath
  <2> SUFFICES ASSUME IInv, Chained PROVE OneBreakPerDeath
    OBVIOUS
  <2>1. Cardinality(Breaks) \in Nat /\ Loose \in 0..1 /\ crashes \in Nat
    BY BreaksCount DEF IInv, TypeOK, Loose
  <2> QED
    BY <2>1 DEF Chained, OneBreakPerDeath
<1> QED
  BY <1>1, <1>2, InitChained, InitInv, NextInv, PTL DEF Spec

\* As long as no process dies, verify_ledger_chain returns TRUE at every moment.
THEOREM ChainVerifiesUntilCrash == Spec => [](crashes = 0 => ChainVerifies)
<1>1. TypeOK /\ OneBreakPerDeath => (crashes = 0 => ChainVerifies)
  <2> SUFFICES ASSUME TypeOK, OneBreakPerDeath, crashes = 0 PROVE ChainVerifies
    OBVIOUS
  <2>1. IsFiniteSet(Breaks) /\ Cardinality(Breaks) = 0
    BY BreaksCount DEF TypeOK, OneBreakPerDeath
  <2>2. Breaks = {}
    BY <2>1, FS_EmptySet
  <2> QED
    BY <2>2 DEF Breaks, ChainVerifies
<1> QED
  BY <1>1, TypeCorrect, DeathBreaksOneLink, PTL
=============================================================================

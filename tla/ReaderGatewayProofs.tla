------------------------- MODULE ReaderGatewayProofs -------------------------
(***************************************************************************)
(* Proofs about the coordination gateway, for every set of processes and   *)
(* keys, any lease length and any number of failing audit lines and deaths.*)
(*                                                                         *)
(* The process that has the lock holds a copy of the files as it found     *)
(* them.  What the properties need holds of the files while the lock is    *)
(* free, and of that copy while it is not; and the files differ from the   *)
(* copy by the write of the operation, once it has made it.                *)
(***************************************************************************)
EXTENDS ReaderGateway, FiniteSetTheorems, TLAPS

Busy(p) == call[p].pc # "idle"

\* The flock.
OneHasTheLock == \A p, q \in Proc : Busy(p) /\ Busy(q) => p = q

KeysOf(evs) == {evs[i] : i \in DOMAIN evs}

NoKeyTwice(evs) == \A i, j \in DOMAIN evs : evs[i] = evs[j] => i = j

\* Changes that stand in such files and whose line cannot be read, if these are recorded.
UnreadOf(keys, acks, recorded) ==
    Cardinality(keys \ recorded.event) + (IF acks = recorded.ack THEN 0 ELSE 1)

\* What files of these contents owe to those who were answered, to the audit file, and
\* to the readers.
Settled(evs, lease, acks) ==
    /\ told \subseteq KeysOf(evs) /\ NoKeyTwice(evs) /\ IsFiniteSet(KeysOf(evs))
    /\ audited.event \subseteq KeysOf(evs) /\ audited.ack \subseteq acks
    /\ UnreadOf(KeysOf(evs), acks, audited) + HalfLine <= cuts + deaths
    /\ deaths = 0 /\ lease.owner # NoReader => token[lease.owner]
    /\ \A k \in Key : ackedBy[k] # NoReader => k \in acks
    /\ lease.owner # NoReader => \A k \in seen[lease.owner] : shownTo[k] = lease.owner

SettledWhenFree ==
    (\A p \in Proc : ~Busy(p)) => Settled(events, reader, acked)

SettledCopy ==
    \A p \in Proc : Busy(p) => Settled(call[p].events, call[p].reader, call[p].acked)

\* The write of p has changed the files so.
Written(p) ==
    /\ call[p].op = "submit" =>
        ~Duplicate(p) /\ events = Append(call[p].events, call[p].key)
    /\ call[p].op # "submit" => events = call[p].events
    /\ call[p].op \in {"claim", "heartbeat"} => reader = Lease(p)
    /\ call[p].op = "release" => reader = Vacant
    /\ call[p].op \in {"submit", "digest", "routes", "ack"} => reader = call[p].reader
    /\ acked = IF call[p].op = "ack" THEN call[p].acked \cup seen[p] ELSE call[p].acked

FilesFollowCopy ==
    \A p \in Proc :
        /\ call[p].pc = "write" => /\ events = call[p].events /\ reader = call[p].reader
                                   /\ acked = call[p].acked
        /\ call[p].pc = "audit" => Written(p)
        /\ Busy(p) => call[p].op # "none"
        /\ Busy(p) /\ call[p].op \in {"heartbeat", "release", "digest", "routes", "ack"} =>
            call[p].reader.owner = p

GatewayInv ==
    /\ TypeOK /\ faults \in Nat /\ deaths \in Nat /\ strays + cuts <= faults
    /\ OneHasTheLock /\ SettledWhenFree /\ SettledCopy /\ FilesFollowCopy
    /\ LastReaderAcknowledges

-----------------------------------------------------------------------------
(* The inbox, and what a record of a call says *)

\* Appending a key that is not there adds it, and repeats nothing.
LEMMA AppendKeys ==
    ASSUME NEW evs \in Seq(Key), NEW k \in Key
    PROVE  /\ Append(evs, k) \in Seq(Key)
           /\ KeysOf(Append(evs, k)) = KeysOf(evs) \cup {k}
           /\ NoKeyTwice(evs) /\ k \notin KeysOf(evs) => NoKeyTwice(Append(evs, k))
<1> DEFINE more == Append(evs, k)
<1>1. /\ Len(evs) \in Nat /\ DOMAIN evs = 1 .. Len(evs)
      /\ DOMAIN more = 1 .. Len(evs) + 1 /\ more \in Seq(Key)
      /\ \A i \in 1 .. Len(evs) : more[i] = evs[i]
      /\ more[Len(evs) + 1] = k
  OBVIOUS
<1>2. KeysOf(more) = KeysOf(evs) \cup {k}
  <2>1. ASSUME NEW x \in KeysOf(more) PROVE x \in KeysOf(evs) \cup {k}
    BY <1>1, <2>1 DEF KeysOf
  <2>2. ASSUME NEW x \in KeysOf(evs) \cup {k} PROVE x \in KeysOf(more)
    BY <1>1, <2>2 DEF KeysOf
  <2> QED
    BY <2>1, <2>2
<1>3. ASSUME NoKeyTwice(evs), k \notin KeysOf(evs) PROVE NoKeyTwice(more)
  <2> SUFFICES ASSUME NEW i \in DOMAIN more, NEW j \in DOMAIN more, more[i] = more[j]
               PROVE  i = j
    BY DEF NoKeyTwice
  <2>1. \A n \in DOMAIN evs : evs[n] # k
    BY <1>3 DEF KeysOf
  <2> QED
    BY <1>1, <1>3, <2>1 DEF NoKeyTwice
<1> QED
  BY <1>1, <1>2, <1>3

\* What is in a call that a process holds.
LEMMA CallParts ==
    ASSUME TypeOK, NEW p \in Proc
    PROVE  /\ call[p].key \in Key /\ call[p].events \in Seq(Key)
           /\ call[p].reader \in Lines /\ call[p].acked \subseteq UserKey
           /\ call[p].pc \in {"idle", "write", "audit"}
           /\ call[p].op \in {"none", "submit", "claim", "heartbeat", "release",
                              "digest", "routes", "ack"}
           /\ seen[p] \subseteq UserKey /\ Unacknowledged(p) \subseteq UserKey
  BY DEF TypeOK, Calls, Unacknowledged

\* The change of one file more, with its line or without it, and the count of what is unread.
LEMMA UnreadEvent ==
    ASSUME NEW keys, IsFiniteSet(keys), NEW k, NEW acks, NEW old, NEW new, new.ack = old.ack
    PROVE  /\ IsFiniteSet(keys \cup {k}) /\ UnreadOf(keys, acks, old) \in Nat
           /\ new.event = old.event => UnreadOf(keys \cup {k}, acks, new) \in Nat
                /\ UnreadOf(keys \cup {k}, acks, new) <= UnreadOf(keys, acks, old) + 1
           /\ new.event = old.event \cup {k} => UnreadOf(keys \cup {k}, acks, new) \in Nat
                /\ UnreadOf(keys \cup {k}, acks, new) <= UnreadOf(keys, acks, old)
<1> DEFINE rest == keys \ old.event
           one == (keys \cup {k}) \ old.event
           none == (keys \cup {k}) \ (old.event \cup {k})
<1>1. IsFiniteSet(keys \cup {k})
  BY FS_AddElement
<1>2. rest \in SUBSET keys /\ none \in SUBSET rest /\ one \in SUBSET (rest \cup {k})
  OBVIOUS
<1>3. IsFiniteSet(rest) /\ Cardinality(rest) \in Nat
  BY <1>2, FS_Subset, FS_CardinalityType
<1>4. /\ IsFiniteSet(rest \cup {k}) /\ Cardinality(rest \cup {k}) \in Nat
      /\ Cardinality(rest \cup {k}) <= Cardinality(rest) + 1
  <2>1. /\ IsFiniteSet(rest \cup {k})
        /\ Cardinality(rest \cup {k}) = IF k \in rest THEN Cardinality(rest) ELSE Cardinality(rest) + 1
    BY <1>3, FS_AddElement
  <2> HIDE DEF rest
  <2> QED
    BY <1>3, <2>1
<1>5. Cardinality(none) \in Nat /\ Cardinality(none) <= Cardinality(rest)
  BY <1>2, <1>3, FS_Subset, FS_CardinalityType
<1>6. Cardinality(one) \in Nat /\ Cardinality(one) <= Cardinality(rest \cup {k})
  BY <1>2, <1>4, FS_Subset, FS_CardinalityType
<1>7. Cardinality(one) <= Cardinality(rest) + 1
  BY <1>3, <1>4, <1>6
<1> DEFINE c == Cardinality(rest)
           c1 == Cardinality(one)
           c0 == Cardinality(none)
           flag == IF acks = old.ack THEN 0 ELSE 1
<1>8. c \in Nat /\ c1 \in Nat /\ c0 \in Nat /\ flag \in Nat /\ c1 <= c + 1 /\ c0 <= c
  BY <1>3, <1>5, <1>6, <1>7
<1>9. UnreadOf(keys, acks, old) = c + flag
  BY DEF UnreadOf
<1>10. new.event = old.event => UnreadOf(keys \cup {k}, acks, new) = c1 + flag
  BY DEF UnreadOf
<1>11. new.event = old.event \cup {k} => UnreadOf(keys \cup {k}, acks, new) = c0 + flag
  BY DEF UnreadOf
<1> HIDE DEF c, c1, c0, flag
<1> QED
  BY <1>1, <1>8, <1>9, <1>10, <1>11

LEMMA UnreadAck ==
    ASSUME NEW keys, IsFiniteSet(keys), NEW acks, NEW more, NEW old, NEW new,
           new.event = old.event
    PROVE  /\ UnreadOf(keys, acks, old) \in Nat /\ UnreadOf(keys, acks \cup more, new) \in Nat
           /\ UnreadOf(keys, acks \cup more, new) <= UnreadOf(keys, acks, old) + 1
           /\ new.ack = old.ack \cup more =>
                UnreadOf(keys, acks \cup more, new) <= UnreadOf(keys, acks, old)
<1> DEFINE c == Cardinality(keys \ old.event)
<1>1. c \in Nat
  BY FS_Subset, FS_CardinalityType
<1>2. /\ UnreadOf(keys, acks, old) = c + (IF acks = old.ack THEN 0 ELSE 1)
      /\ UnreadOf(keys, acks \cup more, new) = c + (IF acks \cup more = new.ack THEN 0 ELSE 1)
  BY DEF UnreadOf
<1> HIDE DEF c
<1>3. acks = old.ack /\ new.ack = old.ack \cup more => acks \cup more = new.ack
  OBVIOUS
<1> QED
  BY <1>1, <1>2, <1>3

\* A line that ends, or fails, adds as much to what may be unread as it adds of reasons.
LEMMA LinesCount ==
    ASSUME TypeOK, LineEnds \/ LineFails \/ UNCHANGED flaws
    PROVE  /\ ragged' \in BOOLEAN /\ cuts' \in Nat /\ strays' \in Nat
           /\ HalfLine \in Nat /\ HalfLine' \in Nat /\ cuts \in Nat /\ strays \in Nat
           /\ HalfLine' + cuts <= HalfLine + cuts'
           /\ strays' + cuts' <= strays + cuts + 1
           /\ LineEnds \/ UNCHANGED flaws => strays' + cuts' = strays + cuts
<1>1. ragged \in BOOLEAN /\ cuts \in Nat /\ strays \in Nat
  BY DEF TypeOK
<1>2. HalfLine \in {0, 1}
  BY DEF HalfLine
<1>3. CASE LineEnds
  <2>1. ragged' = FALSE /\ cuts' = cuts /\ strays' = strays
    BY <1>3 DEF LineEnds
  <2>2. HalfLine' = 0
    BY <2>1 DEF HalfLine
  <2>3. ragged' \in BOOLEAN
    BY <2>1, Zenon
  <2>4. cuts' = cuts /\ strays' = strays
    BY <2>1
  <2> QED
    BY <1>1, <1>2, <2>2, <2>3, <2>4
<1>4. CASE UNCHANGED flaws
  <2>1. ragged' = ragged /\ cuts' = cuts /\ strays' = strays
    BY <1>4 DEF flaws
  <2>2. HalfLine' = HalfLine
    BY <2>1 DEF HalfLine
  <2> QED
    BY <1>1, <1>2, <2>1, <2>2
<1>5. CASE LineIsCut
  <2>1. ragged' = TRUE /\ cuts' = cuts + 1 /\ strays' = strays
    BY <1>5 DEF LineIsCut
  <2>2. HalfLine' = 1 /\ ~LineEnds
    BY <2>1 DEF HalfLine, LineEnds
  <2>3. UNCHANGED flaws => cuts' = cuts
    BY DEF flaws
  <2>4. ragged' \in BOOLEAN
    BY <2>1, Zenon
  <2>5. cuts' = cuts + 1 /\ strays' = strays
    BY <2>1
  <2> QED
    BY <1>1, <1>2, <2>2, <2>3, <2>4, <2>5
<1>6. CASE ragged' = FALSE /\ strays' = (IF ragged THEN strays ELSE strays + 1) /\ UNCHANGED cuts
  <2>1. HalfLine' = 0 /\ cuts' = cuts /\ (strays' = strays \/ strays' = strays + 1)
    BY <1>6 DEF HalfLine
  <2>2. LineEnds \/ UNCHANGED flaws => strays' = strays
    BY DEF LineEnds, flaws
  <2>3. ragged' \in BOOLEAN
    BY <1>6, Zenon
  <2> QED
    BY <1>1, <1>2, <2>1, <2>2, <2>3
<1> QED
  BY <1>3, <1>4, <1>5, <1>6 DEF LineFails

LEMMA Balance ==
    ASSUME NEW unread \in Nat, NEW half \in Nat, NEW half2 \in Nat, NEW reasons \in Nat,
           NEW reasons2 \in Nat, NEW died \in Nat,
           unread + half <= reasons + died, half2 + reasons <= half + reasons2
    PROVE  unread + half2 <= reasons2 + died
  OBVIOUS

\* Files of the same contents owe no more after such a line.
LEMMA LineKeepsSettled ==
    ASSUME TypeOK, deaths \in Nat, LineEnds \/ LineFails \/ UNCHANGED flaws,
           NEW evs, NEW lease, NEW acks, Settled(evs, lease, acks)
    PROVE  UnreadOf(KeysOf(evs), acks, audited) + HalfLine' <= cuts' + deaths
<1> DEFINE u == UnreadOf(KeysOf(evs), acks, audited)
<1>1. u \in Nat /\ u + HalfLine <= cuts + deaths
  BY UnreadEvent DEF Settled
<1>2. /\ HalfLine \in Nat /\ HalfLine' \in Nat /\ cuts \in Nat /\ cuts' \in Nat
      /\ HalfLine' + cuts <= HalfLine + cuts'
  BY LinesCount
<1> HIDE DEF u
<1>3. u + HalfLine' <= cuts' + deaths
  BY <1>1, <1>2, Balance
<1> QED
  BY <1>3 DEF u

LEMMA IdleIsACall == Idle \in Calls /\ Vacant \in Lines /\ Idle.pc = "idle"
<1>1. Vacant \in Lines
  BY GatewayAssumption DEF Vacant, Lines
<1>2. <<>> \in Seq(Key) /\ (CHOOSE k \in Key : TRUE) \in Key
  BY GatewayAssumption
<1> QED
  BY <1>1, <1>2 DEF Idle, Calls

-----------------------------------------------------------------------------
(* The invariant holds at first, and each step keeps it *)

LEMMA GatewayInit == Init => GatewayInv
<1> SUFFICES ASSUME Init PROVE GatewayInv
  OBVIOUS
<1>1. TypeOK
  <2>1. ragged \in BOOLEAN
    BY Zenon DEF Init
  <2> QED
    BY <2>1, IdleIsACall DEF Init, TypeOK
<1>1a. faults \in Nat /\ deaths \in Nat /\ strays + cuts <= faults
  BY DEF Init
<1>2. \A p \in Proc : ~Busy(p)
  BY IdleIsACall DEF Init, Busy
<1>3. Settled(events, reader, acked)
  <2>1. KeysOf(events) = {} /\ KeysOf(events) \ audited.event = {} /\ acked = audited.ack
    BY DEF Init, KeysOf
  <2>2. UnreadOf(KeysOf(events), acked, audited) = 0 /\ IsFiniteSet(KeysOf(events))
    BY <2>1, FS_EmptySet DEF UnreadOf
  <2> QED
    BY <2>1, <2>2 DEF Init, Settled, HalfLine, NoKeyTwice, Vacant
<1>4. \A p \in Proc : call[p].pc = "idle"
  BY IdleIsACall DEF Init
<1> QED
  BY <1>1, <1>1a, <1>2, <1>3, <1>4
  DEF GatewayInv, OneHasTheLock, SettledWhenFree, SettledCopy, FilesFollowCopy,
      LastReaderAcknowledges, Init

LEMMA EnterKeeps ==
    ASSUME GatewayInv, NEW p \in Proc, NEW k \in Key,
           NEW op \in {"submit", "claim", "heartbeat", "release", "digest", "routes", "ack"},
           Enter(p, op, k),
           op \in {"heartbeat", "release", "digest", "routes", "ack"} => IsReader(p)
    PROVE  GatewayInv'
<1>1. \A q \in Proc : ~Busy(q)
  BY DEF Enter, Busy
<1>2. Settled(events, reader, acked)
  BY <1>1 DEF GatewayInv, SettledWhenFree
<1> DEFINE new == [op |-> op, pc |-> "write", key |-> k, events |-> events,
                   reader |-> reader, acked |-> acked]
<1>3. /\ call' = [call EXCEPT ![p] = new]
      /\ UNCHANGED <<disk, audited, flaws, clients, faults, deaths>>
  BY DEF Enter
<1>4. call'[p] = new /\ \A q \in Proc \ {p} : call'[q] = call[q]
  BY <1>3 DEF GatewayInv, TypeOK
<1>5. TypeOK'
  <2>1. new \in Calls
    BY DEF GatewayInv, TypeOK, Calls
  <2> QED
    BY <1>3, <2>1 DEF GatewayInv, TypeOK, disk, clients, flaws
<1>6. Busy(p)' /\ \A q \in Proc \ {p} : ~Busy(q)'
  BY <1>1, <1>4 DEF Busy
<1>7. Settled(events, reader, acked)'
  BY <1>2, <1>3 DEF Settled, clients, disk, flaws, HalfLine
<1>8. SettledCopy'
  <2> SUFFICES ASSUME NEW q \in Proc, Busy(q)'
               PROVE  Settled(call[q].events, call[q].reader, call[q].acked)'
    BY DEF SettledCopy
  <2>1. q = p
    BY <1>6
  <2>2. call'[q].events = events' /\ call'[q].reader = reader' /\ call'[q].acked = acked'
    BY <1>3, <1>4, <2>1 DEF disk
  <2> QED
    BY <1>7, <2>2 DEF Settled
<1>9. FilesFollowCopy'
  BY <1>1, <1>3, <1>4, <1>6 DEF FilesFollowCopy, Busy, disk, IsReader
<1> QED
  BY <1>3, <1>5, <1>6, <1>8, <1>9
  DEF GatewayInv, OneHasTheLock, SettledWhenFree, LastReaderAcknowledges, clients, flaws

LEMMA WriteKeeps ==
    ASSUME GatewayInv, NEW p \in Proc, Write(p)
    PROVE  GatewayInv'
<1> USE DEF At
<1>1. /\ call[p].pc = "write" /\ call' = [call EXCEPT ![p].pc = "audit"]
      /\ UNCHANGED <<audited, clients, faults, deaths>>
      /\ LineEnds \/ UNCHANGED flaws
  BY DEF Write
<1>2. TypeOK /\ Busy(p)
  BY <1>1 DEF GatewayInv, Busy
<1>3. /\ call'[p] = [call[p] EXCEPT !.pc = "audit"]
      /\ \A q \in Proc \ {p} : call'[q] = call[q]
      /\ call' \in [Proc -> Calls] /\ call'[p].pc = "audit"
  <2>0. call \in [Proc -> Calls] /\ call[p] \in Calls
    BY <1>2 DEF TypeOK
  <2>1. [call[p] EXCEPT !.pc = "audit"] \in Calls
    BY <2>0 DEF Calls
  <2>2. call'[p] = [call[p] EXCEPT !.pc = "audit"] /\ call' \in [Proc -> Calls]
    BY <1>1, <2>0, <2>1
  <2> QED
    BY <1>1, <2>0, <2>1, <2>2 DEF Calls
<1>4. /\ call'[p].op = call[p].op /\ call'[p].key = call[p].key
      /\ call'[p].events = call[p].events /\ call'[p].reader = call[p].reader
      /\ call'[p].acked = call[p].acked
  BY <1>2, <1>3 DEF TypeOK, Calls
<1>5. /\ events = call[p].events /\ reader = call[p].reader /\ acked = call[p].acked
      /\ call[p].op # "none"
      /\ call[p].op \in {"heartbeat", "release", "digest", "routes", "ack"} => call[p].reader.owner = p
  BY <1>1, <1>2 DEF GatewayInv, FilesFollowCopy
<1>6. Busy(p)' /\ \A q \in Proc \ {p} : ~Busy(q) /\ ~Busy(q)'
  BY <1>2, <1>3 DEF GatewayInv, OneHasTheLock, Busy
<1>7. TypeOK'
  <2>1. call[p].key \in Key /\ seen[p] \subseteq UserKey
    BY <1>2, CallParts
  <2>2. events \in Seq(Key) /\ reader \in Lines /\ acked \subseteq UserKey
    BY <1>2 DEF TypeOK
  <2>3. Append(events, call[p].key) \in Seq(Key)
    BY <2>1, <2>2, AppendKeys
  <2>4. Lease(p) \in Lines /\ Vacant \in Lines
    BY IdleIsACall, GatewayAssumption DEF Lines, Lease
  <2>5. events' \in Seq(Key) /\ reader' \in Lines /\ acked' \subseteq UserKey
    BY <1>5, <2>1, <2>2, <2>3, <2>4 DEF Write, disk
  <2> QED
    BY <1>1, <1>2, <1>3, <2>5, LinesCount DEF TypeOK, clients
<1>8. Settled(call[p].events, call[p].reader, call[p].acked)'
  <2>1. Settled(call[p].events, call[p].reader, call[p].acked) /\ deaths \in Nat
    BY <1>2 DEF GatewayInv, SettledCopy
  <2>2. UnreadOf(KeysOf(call[p].events), call[p].acked, audited) + HalfLine' <= cuts' + deaths
    BY <1>1, <1>2, <2>1, LineKeepsSettled
  <2> QED
    BY <1>1, <1>4, <2>1, <2>2 DEF Settled, clients
<1>12. faults' \in Nat /\ deaths' \in Nat /\ strays' + cuts' <= faults'
  BY <1>1, <1>2, LinesCount DEF GatewayInv
<1>9. SettledCopy'
  BY <1>6, <1>8 DEF SettledCopy
<1>10. Written(p)'
  BY <1>1, <1>4, <1>5 DEF Written, Write, Duplicate, Lease, disk, clients
<1>11. FilesFollowCopy'
  BY <1>3, <1>4, <1>5, <1>6, <1>10 DEF FilesFollowCopy, Busy
<1> QED
  BY <1>1, <1>6, <1>7, <1>9, <1>11, <1>12
  DEF GatewayInv, OneHasTheLock, SettledWhenFree, LastReaderAcknowledges, clients

\* A call ends: the lock is free, and the files are what they were or are left as they are.
LEMMA FinishKeeps ==
    ASSUME GatewayInv, NEW p \in Proc, Busy(p), Finish(p), TypeOK',
           faults' \in Nat /\ deaths' \in Nat /\ strays' + cuts' <= faults',
           Settled(events, reader, acked)', LastReaderAcknowledges'
    PROVE  GatewayInv'
<1>1. call' = [call EXCEPT ![p] = Idle] /\ call \in [Proc -> Calls]
  BY DEF Finish, GatewayInv, TypeOK
<1>2. \A q \in Proc : ~Busy(q)
        \/ q = p
  BY DEF GatewayInv, OneHasTheLock
<1>3. \A q \in Proc : call'[q].pc = "idle"
  BY <1>1, <1>2, IdleIsACall DEF Busy
<1>4. \A q \in Proc : ~Busy(q)'
  BY <1>3 DEF Busy
<1> QED
  BY <1>3, <1>4
  DEF GatewayInv, OneHasTheLock, SettledWhenFree, SettledCopy, FilesFollowCopy

LEMMA FinishTypes ==
    ASSUME GatewayInv, NEW p \in Proc, Finish(p)
    PROVE  call' \in [Proc -> Calls]
  BY IdleIsACall DEF Finish, GatewayInv, TypeOK

LEMMA AnswerDuplicateKeeps ==
    ASSUME GatewayInv, NEW p \in Proc, AnswerDuplicate(p)
    PROVE  GatewayInv'
<1>1. /\ At(p, "submit", "write") /\ Duplicate(p) /\ told' = told \cup {call[p].key}
      /\ Finish(p) /\ LineEnds
      /\ UNCHANGED <<disk, audited, token, seen, shownTo, ackedBy, faults, deaths>>
  BY DEF AnswerDuplicate
<1>2. TypeOK /\ Busy(p) /\ call[p].pc = "write"
  BY <1>1 DEF GatewayInv, Busy, At
<1>3. events = call[p].events /\ reader = call[p].reader /\ acked = call[p].acked
  BY <1>2 DEF GatewayInv, FilesFollowCopy
<1>4. TypeOK'
  BY <1>1, <1>2, CallParts, FinishTypes, LinesCount DEF TypeOK, disk
<1>5. Settled(events, reader, acked) /\ deaths \in Nat
  BY <1>2, <1>3 DEF GatewayInv, SettledCopy
<1>6. call[p].key \in KeysOf(events)
  BY <1>1, <1>3 DEF Duplicate, KeysOf
<1>7. Settled(events, reader, acked)'
  <2>1. UnreadOf(KeysOf(events), acked, audited) + HalfLine' <= cuts' + deaths
    BY <1>1, <1>2, <1>5, LineKeepsSettled
  <2> QED
    BY <1>1, <1>5, <1>6, <2>1 DEF Settled, disk
<1>8. /\ LastReaderAcknowledges'
      /\ faults' \in Nat /\ deaths' \in Nat /\ strays' + cuts' <= faults'
  BY <1>1, <1>2, LinesCount DEF GatewayInv, LastReaderAcknowledges
<1> QED
  BY <1>1, <1>2, <1>4, <1>7, <1>8, FinishKeeps

\* The file is as it was found, and the line that failed is counted.
LEMMA FailureKeeps ==
    ASSUME GatewayInv, NEW p \in Proc, Busy(p), Finish(p), LineFails \/ UNCHANGED flaws,
           events' = call[p].events, reader' = call[p].reader, acked' = call[p].acked,
           faults' = faults + 1, UNCHANGED <<audited, clients, deaths>>
    PROVE  GatewayInv'
<1>1. TypeOK /\ deaths \in Nat /\ faults \in Nat /\ strays + cuts <= faults
  BY DEF GatewayInv
<1>2. /\ call[p].events \in Seq(Key) /\ call[p].reader \in Lines
      /\ call[p].acked \subseteq UserKey
  BY <1>1, CallParts
<1>3. TypeOK'
  BY <1>1, <1>2, FinishTypes, LinesCount DEF TypeOK, clients
<1>4. Settled(call[p].events, call[p].reader, call[p].acked)
  BY DEF GatewayInv, SettledCopy
<1>5. UnreadOf(KeysOf(call[p].events), call[p].acked, audited) + HalfLine' <= cuts' + deaths
  BY <1>1, <1>4, LineKeepsSettled
<1>6. Settled(events, reader, acked)'
  BY <1>4, <1>5 DEF Settled, clients
<1>7. /\ LastReaderAcknowledges'
      /\ faults' \in Nat /\ deaths' \in Nat /\ strays' + cuts' <= faults'
  BY <1>1, LinesCount DEF GatewayInv, LastReaderAcknowledges, clients
<1> QED
  BY <1>3, <1>6, <1>7, FinishKeeps

LEMMA WriteFailsKeeps ==
    ASSUME GatewayInv, NEW p \in Proc, WriteFails(p)
    PROVE  GatewayInv'
<1>1. /\ call[p].pc = "write" /\ Finish(p) /\ faults' = faults + 1
      /\ LineFails \/ UNCHANGED flaws
      /\ UNCHANGED <<events, reader, acked, audited, clients, deaths>>
  BY DEF WriteFails, disk
<1>2. events = call[p].events /\ reader = call[p].reader /\ acked = call[p].acked
  BY <1>1 DEF GatewayInv, FilesFollowCopy
<1> QED
  BY <1>1, <1>2, FailureKeeps DEF Busy

LEMMA AuditFailsKeeps ==
    ASSUME GatewayInv, NEW p \in Proc, AuditFails(p)
    PROVE  GatewayInv'
<1>1. /\ call[p].pc = "audit" /\ Finish(p) /\ faults' = faults + 1 /\ LineFails
      /\ events' = IF call[p].op = "submit" THEN call[p].events ELSE events
      /\ reader' = IF call[p].op \in {"claim", "heartbeat", "release"}
                   THEN call[p].reader ELSE reader
      /\ acked' = IF call[p].op = "ack" THEN call[p].acked ELSE acked
      /\ UNCHANGED <<audited, clients, deaths>>
  BY DEF AuditFails, At
<1>2. TypeOK /\ Busy(p) /\ Written(p) /\ call[p].op # "none"
  BY <1>1 DEF GatewayInv, Busy, FilesFollowCopy
<1>3. call[p].op \in {"none", "submit", "claim", "heartbeat", "release", "digest", "routes", "ack"}
  BY <1>2, CallParts
<1>4. events' = call[p].events /\ reader' = call[p].reader /\ acked' = call[p].acked
  BY <1>1, <1>2, <1>3 DEF Written
<1> QED
  BY <1>1, <1>2, <1>4, FailureKeeps

\* The files that an audited operation leaves are settled: what it told, showed or
\* acknowledged is in them.
LEMMA AuditKeeps ==
    ASSUME GatewayInv, NEW p \in Proc, Audit(p)
    PROVE  GatewayInv'
<1> DEFINE c == call[p]
<1>1. /\ c.pc = "audit" /\ Finish(p) /\ UNCHANGED <<events, reader, acked, faults, deaths>>
      /\ audited' = Recorded(p) /\ LineEnds
  BY DEF Audit, disk
<1>2. TypeOK /\ Busy(p) /\ Written(p) /\ c.op # "none"
  BY <1>1 DEF GatewayInv, Busy, FilesFollowCopy
<1>3. /\ c.key \in Key /\ c.events \in Seq(Key) /\ c.reader \in Lines
      /\ c.acked \subseteq UserKey /\ seen[p] \subseteq UserKey
      /\ Unacknowledged(p) \subseteq UserKey /\ UserKey \subseteq Key
  BY <1>2, CallParts, GatewayAssumption
<1>4. Settled(c.events, c.reader, c.acked)
  BY <1>2 DEF GatewayInv, SettledCopy
<1>5. c.op \in {"heartbeat", "release", "digest", "routes", "ack"} => c.reader.owner = p
  BY <1>2 DEF GatewayInv, FilesFollowCopy
<1>6. LastReaderAcknowledges /\ deaths \in Nat /\ p # NoReader
  BY GatewayAssumption DEF GatewayInv
<1>7. /\ deaths' = deaths /\ events' = events /\ reader' = reader /\ acked' = acked
      /\ call' \in [Proc -> Calls] /\ ragged' \in BOOLEAN /\ cuts' \in Nat /\ strays' \in Nat
      /\ audited' \in [event : SUBSET Key, ack : SUBSET UserKey]
  BY <1>1, <1>2, <1>3, FinishTypes, LinesCount DEF Recorded, TypeOK
<1>7a. faults' \in Nat /\ deaths' \in Nat /\ strays' + cuts' <= faults'
  BY <1>1, <1>2, LinesCount DEF GatewayInv
<1>7b. /\ audited'.event = audited.event
                \cup (IF c.op = "submit" /\ ~ragged THEN {c.key} ELSE {})
       /\ audited'.ack = audited.ack \cup (IF c.op = "ack" /\ ~ragged THEN seen[p] ELSE {})
  BY <1>1 DEF Recorded, At
<1>7c. /\ cuts' = cuts /\ HalfLine' = 0 /\ HalfLine = (IF ragged THEN 1 ELSE 0)
       /\ cuts \in Nat /\ ragged \in BOOLEAN
  BY <1>1, <1>2 DEF LineEnds, HalfLine, TypeOK
<1>7d. /\ UnreadOf(KeysOf(c.events), c.acked, audited) \in Nat
       /\ UnreadOf(KeysOf(c.events), c.acked, audited) + HalfLine <= cuts + deaths
  BY <1>4, UnreadEvent DEF Settled
<1>7e. c.op \notin {"submit", "ack"} =>
        /\ audited'.event = audited.event /\ audited'.ack = audited.ack
        /\ UnreadOf(KeysOf(c.events), c.acked, audited') + HalfLine' <= cuts' + deaths'
  BY <1>6, <1>7, <1>7b, <1>7c, <1>7d DEF UnreadOf
<1>8. CASE c.op = "submit"
  <2>1. told' = told \cup {c.key} /\ UNCHANGED <<token, seen, shownTo, ackedBy>>
    BY <1>8 DEF Audit, At
  <2>2. TypeOK'
    BY <1>2, <1>3, <1>7, <2>1 DEF TypeOK
  <2>3. events = Append(c.events, c.key) /\ reader = c.reader /\ acked = c.acked
    BY <1>2, <1>8 DEF Written
  <2>4. c.key \notin KeysOf(c.events)
    BY <1>2, <1>8 DEF Written, Duplicate, KeysOf
  <2>5. KeysOf(events) = KeysOf(c.events) \cup {c.key} /\ NoKeyTwice(events)
    BY <1>3, <1>4, <2>3, <2>4, AppendKeys DEF Settled
  <2>6. /\ audited'.ack = audited.ack /\ IsFiniteSet(KeysOf(c.events))
        /\ audited'.event = IF ragged THEN audited.event ELSE audited.event \cup {c.key}
    BY <1>4, <1>7b, <1>8 DEF Settled
  <2>7. IsFiniteSet(KeysOf(events))
        /\ UnreadOf(KeysOf(events), acked, audited') + HalfLine' <= cuts' + deaths'
    <3>1. /\ IsFiniteSet(KeysOf(events)) /\ UnreadOf(KeysOf(events), acked, audited') \in Nat
          /\ UnreadOf(KeysOf(events), acked, audited')
                <= UnreadOf(KeysOf(c.events), c.acked, audited) + (IF ragged THEN 1 ELSE 0)
      <4> DEFINE grown == UnreadOf(KeysOf(c.events) \cup {c.key}, c.acked, audited')
      <4>1. grown = UnreadOf(KeysOf(events), acked, audited')
        BY <2>3, <2>5
      <4>2. CASE ragged
        BY <2>5, <2>6, <4>1, <4>2, UnreadEvent
      <4>3. CASE ~ragged
        <5>1. grown \in Nat /\ grown <= UnreadOf(KeysOf(c.events), c.acked, audited)
          BY <2>6, <4>3, UnreadEvent
        <5>2. IsFiniteSet(KeysOf(events))
          BY <2>5, <2>6, FS_AddElement
        <5> HIDE DEF grown
        <5> QED
          BY <1>7d, <4>1, <4>3, <5>1, <5>2
      <4> QED
        BY <4>2, <4>3
    <3> QED
      BY <1>6, <1>7, <1>7c, <1>7d, <3>1
  <2>8. audited'.event \subseteq KeysOf(events) /\ audited'.ack \subseteq acked
    BY <1>4, <2>3, <2>5, <2>6 DEF Settled
  <2>9. Settled(events, reader, acked)'
    BY <1>4, <1>7, <2>1, <2>3, <2>5, <2>7, <2>8 DEF Settled
  <2>10. LastReaderAcknowledges'
    BY <1>6, <2>1 DEF LastReaderAcknowledges
  <2> QED
    BY <1>1, <1>2, <1>7a, <2>2, <2>9, <2>10, FinishKeeps
<1>9. CASE c.op \in {"claim", "release"}
  <2>1. /\ token' = [token EXCEPT ![p] = (c.op = "claim")]
        /\ seen' = [seen EXCEPT ![p] = {}]
        /\ UNCHANGED <<told, shownTo, ackedBy>>
    BY <1>1, <1>9 DEF Audit, At
  <2>2. TypeOK'
    BY <1>2, <1>7, <2>1 DEF TypeOK
  <2>3. /\ events = c.events /\ acked = c.acked
        /\ reader = IF c.op = "claim" THEN Lease(p) ELSE Vacant
    BY <1>2, <1>9 DEF Written
  <2>4. (c.op = "claim" => token'[p]) /\ seen'[p] = {}
    BY <1>2, <2>1 DEF TypeOK
  <2>5. reader'.owner # NoReader => reader'.owner = p /\ c.op = "claim"
    BY <1>7, <2>3 DEF Lease, Vacant
  <2>6. Settled(events, reader, acked)'
    BY <1>4, <1>7, <1>7e, <1>9, <2>1, <2>3, <2>4, <2>5 DEF Settled
  <2>7. LastReaderAcknowledges'
    BY <1>6, <2>1 DEF LastReaderAcknowledges
  <2> QED
    BY <1>1, <1>2, <1>7a, <2>2, <2>6, <2>7, FinishKeeps
<1>10. CASE c.op = "digest"
  <2>1. /\ seen' = [seen EXCEPT ![p] = Unacknowledged(p)]
        /\ shownTo' = [k \in Key |-> IF k \in Unacknowledged(p) THEN p ELSE shownTo[k]]
        /\ UNCHANGED <<token, told, ackedBy>>
    BY <1>1, <1>10 DEF Audit, At
  <2>2. TypeOK'
    BY <1>2, <1>3, <1>7, <2>1 DEF TypeOK
  <2>3. events = c.events /\ reader = c.reader /\ acked = c.acked /\ reader.owner = p
    BY <1>2, <1>5, <1>10 DEF Written
  <2>4. seen'[p] = Unacknowledged(p)
    BY <1>2, <2>1 DEF TypeOK
  <2>5. \A k \in seen'[p] : shownTo'[k] = p
    BY <1>3, <2>1, <2>4
  <2>6. Settled(events, reader, acked)'
    BY <1>4, <1>6, <1>7, <1>7e, <1>10, <2>1, <2>3, <2>5 DEF Settled
  <2>7. LastReaderAcknowledges'
    <3>1. \A k \in Key : ackedBy[k] # NoReader => k \notin Unacknowledged(p)
      BY <1>4 DEF Settled, Unacknowledged
    <3> QED
      BY <1>6, <2>1, <3>1 DEF LastReaderAcknowledges
  <2> QED
    BY <1>1, <1>2, <1>7a, <2>2, <2>6, <2>7, FinishKeeps
<1>11. CASE c.op = "ack"
  <2>1. /\ ackedBy' = [k \in Key |-> IF k \in seen[p] THEN p ELSE ackedBy[k]]
        /\ seen' = [seen EXCEPT ![p] = {}] /\ UNCHANGED <<token, told, shownTo>>
    BY <1>1, <1>11 DEF Audit, At
  <2>2. TypeOK'
    BY <1>2, <1>3, <1>7, <2>1 DEF TypeOK
  <2>3. events = c.events /\ reader = c.reader /\ acked = c.acked \cup seen[p]
    BY <1>2, <1>11 DEF Written
  <2>4. /\ audited'.event = audited.event /\ IsFiniteSet(KeysOf(c.events))
        /\ audited'.ack = IF ragged THEN audited.ack ELSE audited.ack \cup seen[p]
    BY <1>4, <1>7b, <1>11 DEF Settled
  <2>5. c.reader.owner = p /\ seen'[p] = {} /\ \A k \in seen[p] : shownTo[k] = p
    BY <1>2, <1>4, <1>5, <1>6, <1>11, <2>1 DEF TypeOK, Settled
  <2>6. UnreadOf(KeysOf(events), acked, audited') + HalfLine' <= cuts' + deaths'
    <3>1. /\ UnreadOf(KeysOf(events), acked, audited') \in Nat
          /\ UnreadOf(KeysOf(events), acked, audited')
                <= UnreadOf(KeysOf(c.events), c.acked, audited) + (IF ragged THEN 1 ELSE 0)
      <4> DEFINE grown == UnreadOf(KeysOf(c.events), c.acked \cup seen[p], audited')
      <4>1. grown = UnreadOf(KeysOf(events), acked, audited')
        BY <2>3
      <4>2. CASE ragged
        BY <2>4, <4>1, <4>2, UnreadAck
      <4>3. CASE ~ragged
        <5>1. grown \in Nat /\ grown <= UnreadOf(KeysOf(c.events), c.acked, audited)
          BY <2>4, <4>3, UnreadAck
        <5> HIDE DEF grown
        <5> QED
          BY <1>7d, <4>1, <4>3, <5>1
      <4> QED
        BY <4>2, <4>3
    <3> QED
      BY <1>6, <1>7, <1>7c, <1>7d, <3>1
  <2>7. audited'.event \subseteq KeysOf(events) /\ audited'.ack \subseteq acked
    BY <1>4, <2>3, <2>4 DEF Settled
  <2>8. Settled(events, reader, acked)'
    BY <1>3, <1>4, <1>7, <2>1, <2>3, <2>5, <2>6, <2>7 DEF Settled
  <2>9. LastReaderAcknowledges'
    BY <1>6, <2>1, <2>5 DEF LastReaderAcknowledges
  <2> QED
    BY <1>1, <1>2, <1>7a, <2>2, <2>8, <2>9, FinishKeeps
<1>12. CASE c.op \in {"heartbeat", "routes"}
  <2>1. UNCHANGED clients
    BY <1>1, <1>12 DEF Audit, At
  <2>2. TypeOK'
    BY <1>2, <1>7, <2>1 DEF TypeOK, clients
  <2>3. events = c.events /\ reader.owner = c.reader.owner /\ acked = c.acked
    BY <1>2, <1>5, <1>12 DEF Written, Lease
  <2>4. Settled(events, reader, acked)'
    BY <1>4, <1>7, <1>7e, <1>12, <2>1, <2>3 DEF Settled, clients
  <2>5. LastReaderAcknowledges'
    BY <1>6, <2>1 DEF LastReaderAcknowledges, clients
  <2> QED
    BY <1>1, <1>2, <1>7a, <2>2, <2>4, <2>5, FinishKeeps
<1> QED
  BY <1>2, <1>8, <1>9, <1>10, <1>11, <1>12, CallParts

LEMMA TickKeeps ==
    ASSUME GatewayInv, Tick
    PROVE  GatewayInv'
<1>1. /\ \A p \in Proc : call[p].pc = "idle" /\ ~Busy(p)
      /\ reader.left > 0 /\ reader' = [reader EXCEPT !.left = @ - 1]
      /\ UNCHANGED <<events, acked, audited, flaws, call, clients, faults, deaths>>
  BY DEF Tick, Busy
<1>2. TypeOK /\ reader \in Lines
  BY DEF GatewayInv, TypeOK
<1>3. reader' \in Lines /\ reader'.owner = reader.owner
  BY <1>1, <1>2, GatewayAssumption DEF Lines
<1>4. TypeOK'
  BY <1>1, <1>2, <1>3 DEF TypeOK, clients, flaws
<1>5. Settled(events, reader, acked)
  BY <1>1 DEF GatewayInv, SettledWhenFree
<1>6. Settled(events, reader, acked)'
  BY <1>1, <1>3, <1>5 DEF Settled, clients, flaws, HalfLine
<1>7. \A p \in Proc : call'[p].pc = "idle" /\ ~Busy(p)'
  BY <1>1 DEF Busy
<1> QED
  BY <1>1, <1>4, <1>6, <1>7
  DEF GatewayInv, OneHasTheLock, SettledWhenFree, SettledCopy, FilesFollowCopy,
      LastReaderAcknowledges, clients, flaws

\* A process that dies may leave a write without its line, and a part of that line, which
\* the death and the part excuse.
LEMMA DieKeeps ==
    ASSUME GatewayInv, NEW p \in Proc, Die(p)
    PROVE  GatewayInv'
<1>1. /\ faults' = faults + 1 /\ deaths' = deaths + 1 /\ Finish(p)
      /\ token' = [token EXCEPT ![p] = FALSE] /\ seen' = [seen EXCEPT ![p] = {}]
      /\ UNCHANGED <<events, reader, acked, told, shownTo, ackedBy>>
      /\ \/ audited' = audited /\ (UNCHANGED flaws \/ LineIsCut)
         \/ audited' = Recorded(p) /\ LineEnds
  BY DEF Die, disk
<1>2. /\ TypeOK /\ faults \in Nat /\ deaths \in Nat /\ strays + cuts <= faults
      /\ LastReaderAcknowledges
  BY DEF GatewayInv
<1>2a. LineEnds \/ LineFails \/ UNCHANGED flaws
  BY <1>1 DEF LineFails
<1>2b. /\ ragged' \in BOOLEAN /\ cuts' \in Nat /\ strays' \in Nat
       /\ HalfLine \in Nat /\ HalfLine' \in Nat /\ cuts \in Nat /\ strays \in Nat
       /\ HalfLine' + cuts <= HalfLine + cuts'
       /\ strays' + cuts' <= strays + cuts + 1
  BY <1>2, <1>2a, LinesCount
<1>2c. audited' = audited \/ (audited' = Recorded(p) /\ LineEnds)
  BY <1>1
<1>3. /\ TypeOK' /\ faults' \in Nat /\ deaths' \in Nat /\ deaths' # 0
      /\ strays' + cuts' <= faults'
  <2>1. audited' \in [event : SUBSET Key, ack : SUBSET UserKey]
    BY <1>2, <1>2c, CallParts DEF TypeOK, Recorded
  <2>2. TypeOK'
    <3>1. call' \in [Proc -> Calls]
      BY <1>1, FinishTypes
    <3>2. token' \in [Proc -> BOOLEAN] /\ seen' \in [Proc -> SUBSET UserKey]
      BY <1>1, <1>2 DEF TypeOK
    <3>3. ragged' \in BOOLEAN /\ cuts' \in Nat /\ strays' \in Nat
      BY <1>2b
    <3> QED
      BY <1>1, <1>2, <2>1, <3>1, <3>2, <3>3 DEF TypeOK
  <2>3. faults' = faults + 1 /\ deaths' = deaths + 1
    BY <1>1
  <2>4. faults' \in Nat /\ deaths' \in Nat /\ deaths' # 0
    BY <1>2, <2>3
  <2>5. strays' + cuts' <= faults'
    <3>1. strays + cuts <= faults /\ strays' + cuts' <= strays + cuts + 1
      BY <1>2, <1>2b
    <3>2. /\ strays \in Nat /\ cuts \in Nat /\ strays' \in Nat /\ cuts' \in Nat
          /\ faults \in Nat
      BY <1>2, <1>2b
    <3> DEFINE s == strays
               c == cuts
               f == faults
               s2 == strays'
               c2 == cuts'
    <3>3. s + c <= f /\ s2 + c2 <= s + c + 1 /\ faults' = f + 1
      BY <2>3, <3>1
    <3>4. s \in Nat /\ c \in Nat /\ s2 \in Nat /\ c2 \in Nat /\ f \in Nat
      BY <3>2
    <3> HIDE DEF s, c, f, s2, c2
    <3>5. s2 + c2 <= f + 1
      BY <3>3, <3>4
    <3> QED
      BY <3>3, <3>5 DEF s2, c2
  <2> QED
    BY <2>2, <2>4, <2>5
<1>4. seen'[p] = {} /\ \A q \in Proc \ {p} : seen'[q] = seen[q]
  BY <1>1, <1>2 DEF TypeOK
<1>5. LastReaderAcknowledges'
  BY <1>1, <1>2 DEF LastReaderAcknowledges
<1>6. ASSUME NEW evs, NEW lease \in Lines, NEW acks, Settled(evs, lease, acks)
      PROVE  /\ told' \subseteq KeysOf(evs) /\ NoKeyTwice(evs) /\ IsFiniteSet(KeysOf(evs))
             /\ audited.event \subseteq KeysOf(evs) /\ audited.ack \subseteq acks
             /\ UnreadOf(KeysOf(evs), acks, audited) \in Nat
             /\ UnreadOf(KeysOf(evs), acks, audited) + HalfLine' + 1 <= cuts' + deaths'
             /\ \A k \in Key : ackedBy'[k] # NoReader => k \in acks
             /\ lease.owner # NoReader => \A k \in seen'[lease.owner] : shownTo'[k] = lease.owner
  <2> DEFINE u == UnreadOf(KeysOf(evs), acks, audited)
  <2>1. /\ told' \subseteq KeysOf(evs) /\ NoKeyTwice(evs) /\ IsFiniteSet(KeysOf(evs))
        /\ audited.event \subseteq KeysOf(evs) /\ audited.ack \subseteq acks
        /\ u + HalfLine <= cuts + deaths
        /\ \A k \in Key : ackedBy'[k] # NoReader => k \in acks
        /\ lease.owner # NoReader => \A k \in seen'[lease.owner] : shownTo'[k] = lease.owner
    BY <1>1, <1>4, <1>6 DEF Settled, Lines
  <2>2. u \in Nat
    BY <2>1, UnreadEvent
  <2> HIDE DEF u
  <2>3. u + HalfLine' + 1 <= cuts' + deaths'
    BY <1>1, <1>2, <1>2b, <2>1, <2>2
  <2> QED
    BY <2>1, <2>2, <2>3 DEF u
<1>7. CASE Busy(p)
  <2> DEFINE c == call[p]
  <2>1. /\ c.key \in Key /\ c.events \in Seq(Key) /\ c.reader \in Lines
        /\ c.pc \in {"write", "audit"}
        /\ c.op \in {"submit", "claim", "heartbeat", "release", "digest", "routes", "ack"}
    BY <1>2, <1>7, CallParts DEF Busy, GatewayInv, FilesFollowCopy
  <2>2. Settled(c.events, c.reader, c.acked)
    BY <1>7 DEF GatewayInv, SettledCopy
  <2>3. /\ told' \subseteq KeysOf(c.events) /\ NoKeyTwice(c.events)
        /\ IsFiniteSet(KeysOf(c.events))
        /\ audited.event \subseteq KeysOf(c.events) /\ audited.ack \subseteq c.acked
        /\ UnreadOf(KeysOf(c.events), c.acked, audited) \in Nat
        /\ UnreadOf(KeysOf(c.events), c.acked, audited) + HalfLine' + 1 <= cuts' + deaths'
    BY <1>6, <2>1, <2>2
  <2>4. Written(p) \/ (events = c.events /\ acked = c.acked /\ reader = c.reader /\ c.pc = "write")
    BY <2>1 DEF GatewayInv, FilesFollowCopy
  <2>5. c.acked \subseteq acked /\ reader.owner \in {c.reader.owner, p, NoReader}
    BY <2>1, <2>4 DEF Written, Lease, Vacant
  <2>6. /\ told' \subseteq KeysOf(events) /\ NoKeyTwice(events) /\ IsFiniteSet(KeysOf(events))
        /\ audited'.event \subseteq KeysOf(events) /\ audited'.ack \subseteq acked
        /\ UnreadOf(KeysOf(events), acked, audited') + HalfLine' <= cuts' + deaths'
    <3>1. CASE events = c.events /\ acked = c.acked /\ audited' = audited
      BY <1>2b, <1>3, <2>3, <3>1
    <3>2. CASE c.op = "submit" /\ Written(p)
      <4>1. /\ events = Append(c.events, c.key) /\ acked = c.acked
            /\ c.key \notin KeysOf(c.events)
        BY <3>2 DEF Written, Duplicate, KeysOf
      <4>2. KeysOf(events) = KeysOf(c.events) \cup {c.key} /\ NoKeyTwice(events)
        BY <2>1, <2>3, <4>1, AppendKeys
      <4>3. /\ audited'.ack = audited.ack
            /\ \/ audited'.event = audited.event
               \/ audited'.event = audited.event \cup {c.key}
        <5>1. Recorded(p).ack = audited.ack
          BY <3>2 DEF Recorded, At
        <5>2. \/ Recorded(p).event = audited.event
              \/ Recorded(p).event = audited.event \cup {c.key}
          BY DEF Recorded
        <5> QED
          BY <1>2c, <5>1, <5>2
      <4>4. /\ UnreadOf(KeysOf(events), acked, audited') \in Nat
            /\ UnreadOf(KeysOf(events), acked, audited')
                    <= UnreadOf(KeysOf(c.events), c.acked, audited) + 1
        <5> DEFINE grown == UnreadOf(KeysOf(c.events) \cup {c.key}, c.acked, audited')
        <5>1. grown = UnreadOf(KeysOf(events), acked, audited')
          BY <4>1, <4>2
        <5>2. CASE audited'.event = audited.event
          BY <2>3, <4>3, <5>1, <5>2, UnreadEvent
        <5>3. CASE audited'.event = audited.event \cup {c.key}
          <6>1. grown \in Nat /\ grown <= UnreadOf(KeysOf(c.events), c.acked, audited)
            BY <2>3, <4>3, <5>3, UnreadEvent
          <6> HIDE DEF grown
          <6> QED
            BY <2>3, <5>1, <6>1
        <5> QED
          BY <4>3, <5>2, <5>3
      <4>5. IsFiniteSet(KeysOf(events))
        BY <2>3, <4>2, FS_AddElement
      <4>6. UnreadOf(KeysOf(events), acked, audited') + HalfLine' <= cuts' + deaths'
        BY <1>2b, <1>3, <2>3, <4>4
      <4> QED
        BY <2>3, <4>1, <4>2, <4>3, <4>5, <4>6
    <3>3. CASE c.op = "ack" /\ Written(p)
      <4>1. events = c.events /\ acked = c.acked \cup seen[p]
        BY <3>3 DEF Written
      <4>2. /\ audited'.event = audited.event
            /\ audited'.ack = audited.ack \/ audited'.ack = audited.ack \cup seen[p]
        <5>1. Recorded(p).event = audited.event
          BY <3>3 DEF Recorded, At
        <5>2. Recorded(p).ack = audited.ack \/ Recorded(p).ack = audited.ack \cup seen[p]
          BY DEF Recorded
        <5> QED
          BY <1>2c, <5>1, <5>2
      <4>3. /\ UnreadOf(KeysOf(events), acked, audited') \in Nat
            /\ UnreadOf(KeysOf(events), acked, audited')
                    <= UnreadOf(KeysOf(c.events), c.acked, audited) + 1
        BY <2>3, <4>1, <4>2, UnreadAck
      <4>4. UnreadOf(KeysOf(events), acked, audited') + HalfLine' <= cuts' + deaths'
        BY <1>2b, <1>3, <2>3, <4>3
      <4> QED
        BY <2>3, <4>1, <4>2, <4>4
    <3>4. CASE events = c.events /\ acked = c.acked /\ audited' # audited
               /\ (c.pc = "write" \/ c.op \notin {"submit", "ack"})
      <4>1. audited'.event = audited.event /\ audited'.ack = audited.ack
        <5>1. ~At(p, "submit", "audit") /\ ~At(p, "ack", "audit")
          BY <3>4 DEF At
        <5>2. Recorded(p).event = audited.event /\ Recorded(p).ack = audited.ack
          BY <5>1 DEF Recorded
        <5> QED
          BY <1>2c, <5>2
      <4>2. UnreadOf(KeysOf(events), acked, audited') = UnreadOf(KeysOf(c.events), c.acked, audited)
        BY <3>4, <4>1 DEF UnreadOf
      <4> QED
        BY <1>2b, <1>3, <2>3, <3>4, <4>1, <4>2
    <3> QED
      BY <2>1, <2>4, <3>1, <3>2, <3>3, <3>4 DEF Written
  <2>7. Settled(events, reader, acked)'
    BY <1>1, <1>3, <1>4, <1>6, <2>1, <2>2, <2>5, <2>6 DEF Settled
  <2> QED
    BY <1>1, <1>3, <1>5, <1>7, <2>7, FinishKeeps
<1>8. CASE ~Busy(p)
  <2>1. /\ call'[p] = Idle /\ \A q \in Proc \ {p} : call'[q] = call[q]
    BY <1>1, <1>2 DEF Finish, TypeOK
  <2>2. ~Busy(p)' /\ call'[p].pc = "idle" /\ \A q \in Proc : Busy(q)' => q # p /\ Busy(q)
    BY <2>1, IdleIsACall DEF Busy
  <2>2a. audited' = audited
    <3>1. Recorded(p) = [event |-> audited.event, ack |-> audited.ack]
      BY <1>8 DEF Recorded, At, Busy
    <3>2. audited = [event |-> audited.event, ack |-> audited.ack]
      BY <1>2 DEF TypeOK
    <3> QED
      BY <1>2c, <3>1, <3>2
  <2>3. OneHasTheLock'
    BY <2>2 DEF OneHasTheLock, GatewayInv
  <2>4. SettledWhenFree'
    <3> SUFFICES ASSUME \A q \in Proc : ~Busy(q)'
                 PROVE  Settled(events, reader, acked)'
      BY DEF SettledWhenFree
    <3>1. \A q \in Proc : ~Busy(q)
      BY <1>8, <2>1 DEF Busy
    <3>2. Settled(events, reader, acked) /\ reader \in Lines
      BY <1>2, <3>1 DEF GatewayInv, SettledWhenFree, TypeOK
    <3> QED
      <4>1. /\ told' \subseteq KeysOf(events) /\ NoKeyTwice(events)
            /\ IsFiniteSet(KeysOf(events))
            /\ audited'.event \subseteq KeysOf(events) /\ audited'.ack \subseteq acked
            /\ UnreadOf(KeysOf(events), acked, audited') + HalfLine' <= cuts' + deaths'
            /\ \A k \in Key : ackedBy'[k] # NoReader => k \in acked
            /\ reader.owner # NoReader =>
                \A k \in seen'[reader.owner] : shownTo'[k] = reader.owner
        BY <1>2b, <1>3, <1>6, <2>2a, <3>2
      <4> QED
        BY <1>1, <1>3, <4>1 DEF Settled
  <2>5. SettledCopy'
    <3> SUFFICES ASSUME NEW q \in Proc, Busy(q)'
                 PROVE  Settled(call[q].events, call[q].reader, call[q].acked)'
      BY DEF SettledCopy
    <3>1. q # p /\ Busy(q) /\ call'[q] = call[q]
      BY <2>1, <2>2
    <3>2. Settled(call[q].events, call[q].reader, call[q].acked) /\ call[q].reader \in Lines
      BY <1>2, <3>1, CallParts DEF GatewayInv, SettledCopy
    <3> DEFINE evs == call[q].events
               lease == call[q].reader
               acks == call[q].acked
    <3>3. /\ told' \subseteq KeysOf(evs) /\ NoKeyTwice(evs) /\ IsFiniteSet(KeysOf(evs))
          /\ audited'.event \subseteq KeysOf(evs) /\ audited'.ack \subseteq acks
          /\ UnreadOf(KeysOf(evs), acks, audited') + HalfLine' <= cuts' + deaths'
          /\ \A k \in Key : ackedBy'[k] # NoReader => k \in acks
          /\ lease.owner # NoReader => \A k \in seen'[lease.owner] : shownTo'[k] = lease.owner
      <4>1. /\ told' \subseteq KeysOf(evs) /\ NoKeyTwice(evs) /\ IsFiniteSet(KeysOf(evs))
            /\ audited.event \subseteq KeysOf(evs) /\ audited.ack \subseteq acks
            /\ UnreadOf(KeysOf(evs), acks, audited) \in Nat
            /\ UnreadOf(KeysOf(evs), acks, audited) + HalfLine' + 1 <= cuts' + deaths'
            /\ \A k \in Key : ackedBy'[k] # NoReader => k \in acks
            /\ lease.owner # NoReader =>
                \A k \in seen'[lease.owner] : shownTo'[k] = lease.owner
        BY <1>6, <3>2
      <4>2. UnreadOf(KeysOf(evs), acks, audited') = UnreadOf(KeysOf(evs), acks, audited)
        BY <2>2a
      <4>3. UnreadOf(KeysOf(evs), acks, audited') + HalfLine' <= cuts' + deaths'
        BY <1>2b, <1>3, <4>1, <4>2
      <4> QED
        BY <2>2a, <4>1, <4>3
    <3> QED
      BY <1>3, <3>1, <3>3 DEF Settled
  <2>6. FilesFollowCopy'
    <3> SUFFICES ASSUME NEW q \in Proc, q # p
                 PROVE  /\ call'[q].pc = "write" =>
                            /\ events' = call'[q].events /\ reader' = call'[q].reader
                            /\ acked' = call'[q].acked
                        /\ call'[q].pc = "audit" => Written(q)'
                        /\ Busy(q)' => call'[q].op # "none"
                        /\ Busy(q)' /\ call'[q].op \in {"heartbeat", "release", "digest", "routes", "ack"}
                            => call'[q].reader.owner = q
      BY <2>2 DEF FilesFollowCopy
    <3>1. call'[q] = call[q] /\ seen'[q] = seen[q] /\ Lease(q)' = Lease(q) /\ Vacant' = Vacant
      BY <1>4, <2>1 DEF Lease, Vacant
    <3>2. Written(q)' <=> Written(q)
      BY <1>1, <3>1 DEF Written, Duplicate, Lease, Vacant
    <3> QED
      BY <1>1, <3>1, <3>2 DEF GatewayInv, FilesFollowCopy, Busy
  <2> QED
    BY <1>3, <1>5, <2>3, <2>4, <2>5, <2>6 DEF GatewayInv
<1> QED
  BY <1>7, <1>8

-----------------------------------------------------------------------------
(* The theorems *)

LEMMA GatewayStep == GatewayInv /\ [Next]_vars => GatewayInv'
<1> SUFFICES ASSUME GatewayInv, [Next]_vars PROVE GatewayInv'
  OBVIOUS
<1>1. NoKey \in Key
  BY GatewayAssumption DEF NoKey, Idle
<1>2. CASE UNCHANGED vars
  BY <1>2
  DEF GatewayInv, TypeOK, OneHasTheLock, SettledWhenFree, SettledCopy, FilesFollowCopy,
      LastReaderAcknowledges, Settled, HalfLine, Written, Duplicate, Lease, Vacant, Busy, vars
<1>3. CASE Tick
  BY <1>3, TickKeeps
<1>4. ASSUME NEW p \in Proc, NEW k \in Key, Submit(p, k) PROVE GatewayInv'
  BY <1>4, EnterKeeps DEF Submit
<1>5. ASSUME NEW p \in Proc, Claim(p) \/ Heartbeat(p) \/ Release(p) \/ Digest(p)
             \/ Routes(p) \/ Acknowledge(p)
      PROVE  GatewayInv'
  BY <1>1, <1>5, EnterKeeps DEF Claim, Heartbeat, Release, Digest, Routes, Acknowledge
<1>6. ASSUME NEW p \in Proc, Finishes(p) PROVE GatewayInv'
  BY <1>6, AnswerDuplicateKeeps, WriteKeeps, AuditKeeps DEF Finishes
<1>7. ASSUME NEW p \in Proc, WriteFails(p) \/ AuditFails(p) \/ Die(p) PROVE GatewayInv'
  BY <1>7, WriteFailsKeeps, AuditFailsKeeps, DieKeeps
<1> QED
  BY <1>2, <1>3, <1>4, <1>5, <1>6, <1>7 DEF Next

LEMMA GatewayInvariance == Spec => []GatewayInv
  BY GatewayInit, GatewayStep, PTL DEF Spec

\* Every variable of the gateway has its type, in every call of every process.
THEOREM GatewayTypeCorrect == Spec => []TypeOK
<1>1. GatewayInv => TypeOK
  BY DEF GatewayInv
<1> QED
  BY <1>1, GatewayInvariance, PTL

\* submit_event and _audit_rollback: an event that was answered is in the inbox, and no key
\* is there twice, however often a submitter retries, whoever dies and whatever is rolled
\* back; once the lock is free, what the audit file records stands in the files but for the
\* lines of operations that failed, one of each at most; a change stands there unrecorded
\* only for a death or for a part of a line before its own; and unless a process died the
\* lease has somebody who holds its token.
THEOREM InboxIsAudited == Spec => []InboxAndAuditAgree
<1>1. GatewayInv => InboxAndAuditAgree
  <2> SUFFICES ASSUME GatewayInv PROVE InboxAndAuditAgree
    OBVIOUS
  <2>1. CASE \A p \in Proc : ~Busy(p)
    <3>1. Settled(events, reader, acked) /\ strays + cuts <= faults /\ KeysOf(events) = Stored
      BY <2>1 DEF GatewayInv, SettledWhenFree, KeysOf, Stored
    <3>2. UnreadOf(KeysOf(events), acked, audited) = Unread(Stored, acked)
      BY <3>1 DEF UnreadOf, Unread
    <3> QED
      BY <3>1, <3>2 DEF Settled, InboxAndAuditAgree, AnsweredOnce, AuditOffByFailures, NoKeyTwice
  <2>2. ASSUME NEW p \in Proc, Busy(p) PROVE InboxAndAuditAgree
    <3> DEFINE c == call[p]
    <3>1. /\ c.key \in Key /\ c.events \in Seq(Key) /\ c.pc \in {"write", "audit"}
      BY <2>2, CallParts DEF GatewayInv, Busy
    <3>2. told \subseteq KeysOf(c.events) /\ NoKeyTwice(c.events)
      BY <2>2 DEF GatewayInv, SettledCopy, Settled
    <3>3. \/ events = c.events
          \/ events = Append(c.events, c.key) /\ c.key \notin KeysOf(c.events)
      BY <3>1 DEF GatewayInv, FilesFollowCopy, Written, Duplicate, KeysOf
    <3>4. told \subseteq KeysOf(events) /\ NoKeyTwice(events)
      BY <3>1, <3>2, <3>3, AppendKeys
    <3> QED
      BY <2>2, <3>4 DEF InboxAndAuditAgree, AnsweredOnce, AuditOffByFailures, Busy, KeysOf,
                        NoKeyTwice, Stored
  <2> QED
    BY <2>1, <2>2
<1> QED
  BY <1>1, GatewayInvariance, PTL

\* An event is acknowledged by the reader it was shown to last, however many readers came
\* and went with their leases.
THEOREM LastReaderDoes == Spec => []LastReaderAcknowledges
<1>1. GatewayInv => LastReaderAcknowledges
  BY DEF GatewayInv
<1> QED
  BY <1>1, GatewayInvariance, PTL
=============================================================================

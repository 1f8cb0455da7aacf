--------------------------- MODULE ServicesProofs ---------------------------
(***************************************************************************)
(* What the services of the runs do for any number of threads, watchers,   *)
(* agents, files and steps.  Each section strengthens a property of one    *)
(* service until a step preserves it; the last carries the results over to *)
(* ServicesSpec, where a behaviour is one of one of the services.          *)
(***************************************************************************)
EXTENDS Services, ApprovalProofs, SequenceTheorems

-----------------------------------------------------------------------------
(* The presence lock *)

WatcherPlaces == {"unborn", "begun", "opening", "looking", "reading", "locking", "leaving", "gone"}

PresenceTypes ==
    /\ enabled \in BOOLEAN /\ stopping \in BOOLEAN /\ locked \in BOOLEAN
    /\ current \in Watcher \cup {NoWatcher}
    /\ presence \in {"OFF", "ON", "ERR"}
    /\ menu \in [at : {"boot", "rest", "stop", "join", "stopped"},
                 then : {"none", "start", "stop", "disable"}]
    /\ watcher \in [Watcher -> [at : WatcherPlaces, forgotten : BOOLEAN]]

NoneForgotten == \A w \in Watcher : ~watcher[w].forgotten

\* A command that is to start a watcher again was given while presence was enabled.
StartsEnabled == menu.then \in {"start", "stop"} => enabled

OnlyCurrentLives == \A w \in Watcher : Alive(w) => w = current /\ enabled

StatusIsTrue ==
    /\ presence = "ON" => IsRunning
    /\ IsRunning /\ watcher[current].at # "begun" => presence # "OFF"

\* Where the command loop has no watcher it shows none.
NobodyThere == menu.at \in {"boot", "stopped"} => current = NoWatcher /\ presence = "OFF"

PresenceInv ==
    /\ PresenceTypes /\ StartsEnabled
    /\ NoneForgotten => OnlyCurrentLives /\ StatusIsTrue /\ NobodyThere

LEMMA PresenceInitInv == PresenceInit => PresenceInv
<1> SUFFICES ASSUME PresenceInit PROVE PresenceInv
  OBVIOUS
<1>1. PresenceTypes
  BY DEF PresenceInit, PresenceTypes, WatcherPlaces, Unborn, NoWatcher
<1>2. StartsEnabled /\ OnlyCurrentLives /\ StatusIsTrue /\ NobodyThere
  BY DEF PresenceInit, StartsEnabled, OnlyCurrentLives, StatusIsTrue, NobodyThere, Alive,
         IsRunning, Unborn, NoWatcher
<1> QED
  BY <1>1, <1>2 DEF PresenceInv

\* A watcher goes on, and is otherwise as it was.
LEMMA WatcherGoes ==
    ASSUME PresenceTypes, NEW w \in Watcher, NEW place \in WatcherPlaces, Goes(w, place)
    PROVE  /\ watcher' \in [Watcher -> [at : WatcherPlaces, forgotten : BOOLEAN]]
           /\ \A v \in Watcher : /\ watcher'[v].forgotten = watcher[v].forgotten
                                 /\ watcher'[v].at = IF v = w THEN place ELSE watcher[v].at
           /\ NoneForgotten' <=> NoneForgotten
<1>1. watcher' = [watcher EXCEPT ![w].at = place]
  BY DEF Goes
<1>2. watcher' \in [Watcher -> [at : WatcherPlaces, forgotten : BOOLEAN]]
  BY <1>1 DEF PresenceTypes
<1>3. \A v \in Watcher : /\ watcher'[v].forgotten = watcher[v].forgotten
                         /\ watcher'[v].at = IF v = w THEN place ELSE watcher[v].at
  BY <1>1 DEF PresenceTypes
<1> QED
  BY <1>2, <1>3 DEF NoneForgotten

LEMMA NoWatcherIsNone == NoWatcher \notin Watcher
  BY DEF NoWatcher, Watcher

\* The command loop, where it does not touch the watchers.
LEMMA CommandKeeps ==
    ASSUME PresenceInv,
           Boot \/ WatchdogTick \/ TurnOn \/ TurnOff \/ SetTimeout \/ SwitchLock \/ AskToStop
             \/ StopAgain \/ Disable
    PROVE  PresenceInv'
<1>1. PresenceTypes' /\ UNCHANGED <<current, presence, watcher>>
  <2>1. UNCHANGED <<current, presence, watcher>>
    BY DEF Boot, WatchdogTick, TurnOn, TurnOff, SetTimeout, SwitchLock, AskToStop, StopAgain,
           Disable
  <2>2. enabled' \in BOOLEAN /\ stopping' \in BOOLEAN /\ locked' \in BOOLEAN
    BY DEF PresenceInv, PresenceTypes, Boot, WatchdogTick, TurnOn, TurnOff, SetTimeout, SwitchLock,
           AskToStop, StopAgain, Disable
  <2>3. menu' \in [at : {"boot", "rest", "stop", "join", "stopped"},
                   then : {"none", "start", "stop", "disable"}]
    <3>1. CASE SwitchLock
      BY <3>1 DEF PresenceInv, PresenceTypes, SwitchLock
    <3>2. CASE AskToStop
      BY <3>2 DEF PresenceInv, PresenceTypes, AskToStop, Turns
    <3>3. CASE Boot \/ WatchdogTick \/ TurnOn \/ TurnOff \/ SetTimeout \/ StopAgain \/ Disable
      BY <3>3 DEF Boot, WatchdogTick, TurnOn, TurnOff, SetTimeout, StopAgain, Disable, Turns
    <3> QED
      BY <3>1, <3>2, <3>3
  <2> QED
    BY <2>1, <2>2, <2>3 DEF PresenceInv, PresenceTypes
<1>2. StartsEnabled'
  BY DEF PresenceInv, StartsEnabled, Boot, WatchdogTick, TurnOn, TurnOff, SetTimeout, SwitchLock,
         AskToStop, StopAgain, Disable, Turns
<1>3. NoneForgotten' => NoneForgotten
  BY <1>1 DEF NoneForgotten
<1>4. ASSUME NoneForgotten PROVE OnlyCurrentLives' /\ StatusIsTrue' /\ NobodyThere'
  <2>1. OnlyCurrentLives /\ StatusIsTrue /\ NobodyThere
    BY <1>4 DEF PresenceInv
  <2>2. StatusIsTrue'
    BY <1>1, <2>1 DEF StatusIsTrue, IsRunning, Alive
  <2>3. NobodyThere'
    BY <1>1, <2>1 DEF NobodyThere, Boot, WatchdogTick, TurnOn, TurnOff, SetTimeout, SwitchLock,
                      AskToStop, StopAgain, Disable, Turns
  <2>4. CASE Disable
    <3>1. \A w \in Watcher : ~Alive(w)
      BY <2>1, <2>4, NoWatcherIsNone DEF OnlyCurrentLives, NobodyThere, Disable
    <3> QED
      BY <1>1, <2>2, <2>3, <3>1 DEF OnlyCurrentLives, Alive
  <2>5. CASE ~Disable
    <3>1. enabled => enabled'
      BY <2>5 DEF Boot, WatchdogTick, TurnOn, TurnOff, SetTimeout, SwitchLock, AskToStop, StopAgain
    <3> QED
      BY <1>1, <2>1, <2>2, <2>3, <3>1 DEF OnlyCurrentLives, Alive
  <2> QED
    BY <2>4, <2>5
<1> QED
  BY <1>1, <1>2, <1>3, <1>4 DEF PresenceInv

LEMMA JoinKeeps == ASSUME PresenceInv, Join PROVE PresenceInv'
<1>1. PresenceTypes
  BY DEF PresenceInv
<1>2. \A w \in Watcher : /\ watcher'[w].at = watcher[w].at
                         /\ watcher'[w].forgotten = (watcher[w].forgotten \/ (w = current /\ Alive(w)))
                         /\ watcher'[w] \in [at : WatcherPlaces, forgotten : BOOLEAN]
  BY <1>1 DEF Join, PresenceTypes
<1>3. PresenceTypes'
  BY <1>1, <1>2 DEF Join, Turns, PresenceTypes
<1>4. StartsEnabled'
  BY DEF PresenceInv, StartsEnabled, Join, Turns
<1>5. ASSUME NoneForgotten' PROVE OnlyCurrentLives' /\ StatusIsTrue' /\ NobodyThere'
  <2>1. NoneForgotten /\ \A w \in Watcher : w = current => ~Alive(w)
    BY <1>1, <1>2, <1>5 DEF NoneForgotten, PresenceTypes
  <2>2. \A w \in Watcher : ~Alive(w)
    BY <2>1 DEF PresenceInv, OnlyCurrentLives
  <2>3. current' = NoWatcher /\ presence' = "OFF"
    BY DEF Join
  <2> QED
    BY <1>2, <2>2, <2>3 DEF OnlyCurrentLives, StatusIsTrue, NobodyThere, Alive, IsRunning
<1> QED
  BY <1>3, <1>4, <1>5 DEF PresenceInv

LEMMA StartKeeps == ASSUME PresenceInv, StartWatcher PROVE PresenceInv'
<1>1. PICK w \in Watcher : watcher[w] = Unborn /\ current' = w /\ Goes(w, "begun")
  BY DEF StartWatcher
<1>2. /\ menu.at = "stopped" /\ menu.then = "start" /\ menu' = [at |-> "rest", then |-> "none"]
      /\ stopping' = FALSE /\ UNCHANGED <<enabled, presence, locked>>
  BY DEF StartWatcher, Turns
<1>3. /\ watcher' \in [Watcher -> [at : WatcherPlaces, forgotten : BOOLEAN]]
      /\ \A v \in Watcher : watcher'[v].at = IF v = w THEN "begun" ELSE watcher[v].at
      /\ NoneForgotten' => NoneForgotten
  BY <1>1, WatcherGoes DEF PresenceInv, WatcherPlaces
<1>4. PresenceTypes'
  BY <1>1, <1>2, <1>3 DEF PresenceInv, PresenceTypes
<1>5. StartsEnabled' /\ enabled'
  BY <1>2 DEF PresenceInv, StartsEnabled
<1>6. ASSUME NoneForgotten PROVE OnlyCurrentLives' /\ StatusIsTrue' /\ NobodyThere'
  <2>1. presence = "OFF" /\ \A v \in Watcher : ~Alive(v)
    BY <1>2, <1>6, NoWatcherIsNone DEF PresenceInv, OnlyCurrentLives, NobodyThere
  <2>2. IsRunning'
    BY <1>1, <1>3, NoWatcherIsNone DEF IsRunning, Alive
  <2> QED
    BY <1>1, <1>2, <1>3, <1>5, <2>1, <2>2
       DEF OnlyCurrentLives, StatusIsTrue, NobodyThere, Alive
<1> QED
  BY <1>3, <1>4, <1>5, <1>6 DEF PresenceInv

LEMMA EndKeeps == ASSUME PresenceInv, ProcessEnds PROVE PresenceInv'
<1>1. PresenceTypes'
  BY DEF PresenceInv, PresenceTypes, ProcessEnds, Turns, WatcherPlaces, Unborn, NoWatcher
<1>2. StartsEnabled' /\ OnlyCurrentLives' /\ StatusIsTrue' /\ NobodyThere'
  BY DEF ProcessEnds, Turns, StartsEnabled, OnlyCurrentLives, StatusIsTrue, NobodyThere, Alive,
         IsRunning, Unborn, NoWatcher
<1> QED
  BY <1>1, <1>2 DEF PresenceInv

\* What a watcher does: it was alive, is so until it leaves, and the status follows.
LEMMA WatcherKeeps ==
    ASSUME PresenceInv, NEW w \in Watcher,
           Comes(w) \/ OpensCamera(w) \/ Looks(w) \/ Reads(w) \/ LocksDevice(w) \/ Leaves(w)
    PROVE  PresenceInv'
<1>1. /\ Alive(w) /\ UNCHANGED <<enabled, current, stopping, menu>>
      /\ presence' \in {"OFF", "ON", "ERR"} /\ locked' \in BOOLEAN
  BY DEF PresenceInv, PresenceTypes, Comes, OpensCamera, Looks, Reads, LocksDevice, Leaves, Alive
<1>2. PICK place \in WatcherPlaces :
        /\ Goes(w, place) /\ place # "unborn" /\ place # "begun"
        /\ place = "gone" => presence' # "ON"
        /\ place # "gone" /\ watcher[w].at = "begun" => presence' # "OFF"
        /\ place # "gone" /\ presence # "OFF" => presence' # "OFF"
  BY DEF Comes, OpensCamera, Looks, Reads, LocksDevice, Leaves, WatcherPlaces,
         PresenceInv, PresenceTypes
<1>3. /\ watcher' \in [Watcher -> [at : WatcherPlaces, forgotten : BOOLEAN]]
      /\ \A v \in Watcher : watcher'[v].at = IF v = w THEN place ELSE watcher[v].at
      /\ NoneForgotten' => NoneForgotten
  BY <1>2, WatcherGoes DEF PresenceInv
<1>4. PresenceTypes' /\ StartsEnabled'
  BY <1>1, <1>3 DEF PresenceInv, PresenceTypes, StartsEnabled
<1>5. ASSUME NoneForgotten PROVE OnlyCurrentLives' /\ StatusIsTrue' /\ NobodyThere'
  <2>1. OnlyCurrentLives /\ StatusIsTrue /\ NobodyThere /\ w = current
    BY <1>1, <1>5 DEF PresenceInv, OnlyCurrentLives
  <2>2. OnlyCurrentLives'
    BY <1>1, <1>3, <2>1 DEF OnlyCurrentLives, Alive
  <2>3. IsRunning /\ (IsRunning' <=> place # "gone")
    BY <1>1, <1>2, <1>3, <2>1, NoWatcherIsNone DEF IsRunning, Alive
  <2>4. StatusIsTrue'
    BY <1>1, <1>2, <1>3, <2>1, <2>3 DEF StatusIsTrue
  <2>5. NobodyThere'
    BY <1>1, <2>1, NoWatcherIsNone DEF NobodyThere
  <2> QED
    BY <2>2, <2>4, <2>5
<1> QED
  BY <1>3, <1>4, <1>5 DEF PresenceInv

LEMMA PresenceNextInv == PresenceInv /\ [PresenceNext]_presenceVars => PresenceInv'
<1> SUFFICES ASSUME PresenceInv, [PresenceNext]_presenceVars PROVE PresenceInv'
  OBVIOUS
<1>1. CASE UNCHANGED presenceVars
  BY <1>1 DEF presenceVars, PresenceInv, PresenceTypes, NoneForgotten, StartsEnabled,
              OnlyCurrentLives, StatusIsTrue, NobodyThere, Alive, IsRunning
<1>2. CASE PresenceNext
  BY <1>2, CommandKeeps, JoinKeeps, StartKeeps, EndKeeps, WatcherKeeps DEF PresenceNext
<1> QED
  BY <1>1, <1>2

\* Every variable of the presence lock keeps its type.
THEOREM PresenceTypeCorrect == PresenceSpec => []PresenceTypeOK
<1>1. PresenceInv => PresenceTypeOK
  BY DEF PresenceInv, PresenceTypes, PresenceTypeOK
<1> QED
  BY <1>1, PresenceInitInv, PresenceNextInv, PTL DEF PresenceSpec

\* However many watchers a process starts: unless one was forgotten, at most the one the
\* process knows of is alive, only while presence is enabled, and the status tells of it.
THEOREM WatcherStaysKnown == PresenceSpec => []WatcherIsKnown
<1>1. PresenceInv => WatcherIsKnown
  BY DEF PresenceInv, NoneForgotten, OnlyCurrentLives, StatusIsTrue, WatcherIsKnown
<1> QED
  BY <1>1, PresenceInitInv, PresenceNextInv, PTL DEF PresenceSpec

-----------------------------------------------------------------------------
(* The evidence of task writes *)

EvidencePhases == {"before", "after", "error"}
EvidenceRecords == [op : 1 .. mutations, phase : EvidencePhases, legible : BOOLEAN]

MutatorBusy(m) == mutator[m].at # "idle"

\* Every write at hand is one of its own, and nobody has been told of it.
WritesApart ==
    /\ \A m \in Mutator : MutatorBusy(m) => /\ mutator[m].op \in 1 .. mutations
                                            /\ \A a \in answers : a.op # mutator[m].op
    /\ \A m, n \in Mutator : MutatorBusy(m) /\ m # n => mutator[m].op # mutator[n].op

\* What a write has done is what its place says.
InPlace(m) ==
    /\ mutator[m].at \in {"before", "write", "error"} => mutator[m].op \notin reached
    /\ mutator[m].at = "write" => <<mutator[m].op, "before">> \in kept
    /\ mutator[m].at \in {"after", "fallback"} => mutator[m].op \in reached

WritesInPlace == \A m \in Mutator : InPlace(m)

RecordsAreTrue ==
    /\ \A op \in reached \ silent : <<op, "before">> \in kept
    /\ \A i \in DOMAIN evidence : evidence[i].phase = "after" => evidence[i].op \in reached

Recorded(op) == Completed(op) \/ op \in silent
AnswersAreTrue == \A a \in answers :
    /\ a.answer = "done" => a.op \in reached /\ Recorded(a.op)
    /\ a.answer = "incomplete" => a.op \in reached
    /\ a.answer \in {"blocked", "failed"} => a.op \notin reached

\* A line without an end will hide the next record too.
Hidden == kept \ Legible
HiddenIsCaused ==
    /\ IsFiniteSet(Hidden)
    /\ Cardinality(Hidden) + (IF ragged THEN 1 ELSE 0) <= lapses

EvidenceInv ==
    /\ EvidenceTypeOK
    /\ WritesApart /\ WritesInPlace /\ RecordsAreTrue /\ AnswersAreTrue /\ HiddenIsCaused

LEMMA EvidenceInitInv == EvidenceInit => EvidenceInv
<1> SUFFICES ASSUME EvidenceInit PROVE EvidenceInv
  OBVIOUS
<1>1. EvidenceTypeOK
  <2>1. evidence \in Seq([op : 1 .. mutations, phase : {"before", "after", "error"},
                          legible : BOOLEAN])
    BY EmptySeq DEF EvidenceInit
  <2>2. mutator \in [Mutator -> [at : {"idle", "before", "write", "error", "after", "fallback"},
                                 op : 0 .. mutations]]
    BY DEF EvidenceInit, Settled
  <2>3. lapses \in 0 .. MaxLapses /\ mutations \in 0 .. MaxMutations
    BY EvidenceAssumption DEF EvidenceInit
  <2>5. ragged \in BOOLEAN
    BY DEF EvidenceInit
  <2>4. /\ kept \subseteq (1 .. mutations) \X {"before", "after", "error"}
        /\ fallback \subseteq reached /\ reached \subseteq 1 .. mutations
        /\ silent \subseteq 1 .. mutations
        /\ answers \subseteq [op : 1 .. mutations,
                              answer : {"blocked", "failed", "done", "incomplete"}]
    BY DEF EvidenceInit
  <2> QED
    BY <2>1, <2>2, <2>3, <2>4, <2>5 DEF EvidenceTypeOK
<1>2. WritesApart /\ WritesInPlace /\ RecordsAreTrue /\ AnswersAreTrue
  BY EmptySeq DEF EvidenceInit, Settled, WritesApart, WritesInPlace, InPlace, RecordsAreTrue,
                  AnswersAreTrue, MutatorBusy
<1>3. Hidden = {} /\ ~ragged /\ lapses = 0
  BY DEF EvidenceInit, Hidden
<1>4. HiddenIsCaused
  BY <1>3, FS_EmptySet DEF HiddenIsCaused
<1> QED
  BY <1>1, <1>2, <1>4 DEF EvidenceInv

LEMMA SeqWidens == ASSUME NEW S, NEW T, S \subseteq T, NEW s \in Seq(S) PROVE s \in Seq(T)
  OBVIOUS

\* What a record adds to what can be read.
LEMMA LegibleGrows ==
    ASSUME EvidenceTypeOK, NEW r \in EvidenceRecords, evidence' = Append(evidence, r)
    PROVE  Legible' = Legible \cup (IF r.legible THEN {<<r.op, r.phase>>} ELSE {})
<1>1. evidence \in Seq(EvidenceRecords)
  BY DEF EvidenceTypeOK, EvidenceRecords, EvidencePhases
<1>2. /\ DOMAIN evidence' = DOMAIN evidence \cup {Len(evidence) + 1}
      /\ evidence'[Len(evidence) + 1] = r
      /\ \A i \in DOMAIN evidence : evidence'[i] = evidence[i]
  BY <1>1
<1> QED
  BY <1>2 DEF Legible

RecordsKept ==
    /\ evidence' \in Seq(EvidenceRecords) /\ ragged' \in BOOLEAN
    /\ lapses' \in 0 .. MaxLapses
    /\ kept' \subseteq (1 .. mutations) \X EvidencePhases
    /\ kept \subseteq kept'
    /\ RecordsAreTrue' /\ HiddenIsCaused'

\* A record, or an append that fails with nothing, a part or the whole of it in the file.
LEMMA RecordsKeep ==
    ASSUME EvidenceInv, NEW m \in Mutator, MutatorBusy(m), NEW phase \in EvidencePhases,
           phase = "after" => mutator[m].op \in reached,
           AppendRecord(m, phase) \/ AppendLapses(m, phase),
           UNCHANGED <<reached, silent, mutations>>
    PROVE  /\ RecordsKept
           /\ AppendRecord(m, phase) => <<mutator[m].op, phase>> \in kept'
<1> USE DEF RecordsKept
<1> DEFINE op == mutator[m].op
           mark == <<op, phase>>
<1>1. /\ EvidenceTypeOK /\ op \in 1 .. mutations /\ evidence \in Seq(EvidenceRecords)
      /\ kept \subseteq (1 .. mutations) \X EvidencePhases /\ lapses \in 0 .. MaxLapses
      /\ ragged \in BOOLEAN /\ RecordsAreTrue /\ HiddenIsCaused /\ MaxLapses \in Nat
  BY EvidenceAssumption
     DEF EvidenceInv, WritesApart, EvidenceTypeOK, EvidenceRecords, EvidencePhases
<1>2. /\ lapses' \in 0 .. MaxLapses /\ kept' \subseteq (1 .. mutations) \X EvidencePhases
      /\ kept \subseteq kept'
      /\ AppendRecord(m, phase) => mark \in kept'
  <2>1. mark \in (1 .. mutations) \X EvidencePhases
    BY <1>1
  <2>2. kept' = kept \/ kept' = kept \cup {mark}
    BY DEF AppendRecord, AppendLapses
  <2>3. lapses' \in 0 .. MaxLapses
    <3>1. lapses' = lapses \/ (lapses < MaxLapses /\ lapses' = lapses + 1)
      BY Zenon DEF AppendRecord, AppendLapses, Lapse
    <3> QED
      BY <1>1, <3>1
  <2>4. AppendRecord(m, phase) => mark \in kept'
    BY DEF AppendRecord
  <2> QED
    BY <1>1, <2>1, <2>2, <2>3, <2>4
<1>3. \A op2 \in reached \ silent : <<op2, "before">> \in kept'
  BY <1>1, <1>2 DEF RecordsAreTrue
<1>4. Cardinality(Hidden) \in Nat /\ IsFiniteSet(Hidden)
  BY <1>1, FS_CardinalityType DEF HiddenIsCaused
<1>5. CASE AppendLapses(m, phase) /\ UNCHANGED <<evidence, ragged>>
  <2>1. Hidden' = Hidden /\ lapses' = lapses + 1
    BY <1>5 DEF AppendLapses, Lapse, Hidden, Legible
  <2>2. HiddenIsCaused'
    BY <1>1, <1>4, <1>5, <2>1 DEF HiddenIsCaused
  <2> QED
    BY <1>1, <1>2, <1>3, <1>5, <2>2 DEF RecordsAreTrue
<1>6. CASE \E whole \in BOOLEAN : WriteRecord(m, phase, whole) /\ (whole \/ AppendLapses(m, phase))
  <2>1. PICK whole \in BOOLEAN : WriteRecord(m, phase, whole) /\ (whole \/ AppendLapses(m, phase))
    BY <1>6
  <2> DEFINE r == [op |-> op, phase |-> phase, legible |-> whole /\ ~ragged]
  <2>2. r \in EvidenceRecords /\ evidence' = Append(evidence, r) /\ ragged' = ~whole
    BY <1>1, <2>1 DEF WriteRecord, EvidenceRecords
  <2>3. r.op = op /\ r.phase = phase /\ r.legible = (whole /\ ~ragged)
    OBVIOUS
  <2> HIDE DEF r
  <2>4. /\ evidence' \in Seq(EvidenceRecords)
        /\ \A i \in DOMAIN evidence' : \/ (i \in DOMAIN evidence /\ evidence'[i] = evidence[i])
                                         \/ evidence'[i] = r
    BY <1>1, <2>2
  <2>5. RecordsAreTrue'
    BY <1>1, <1>3, <2>3, <2>4 DEF RecordsAreTrue
  <2>6. Legible' = Legible \cup (IF whole /\ ~ragged THEN {mark} ELSE {})
    BY <1>1, <2>2, <2>3, LegibleGrows
  <2>7. HiddenIsCaused'
    <3>1. CASE AppendRecord(m, phase)
      <4>1. kept' = kept \cup {mark} /\ lapses' = lapses
        BY <3>1 DEF AppendRecord
      <4>2. ragged' = FALSE /\ whole
        BY <2>2, <3>1 DEF AppendRecord, WriteRecord
      <4>3. CASE ragged
        <5>1. Hidden' \subseteq Hidden \cup {mark}
          BY <2>6, <4>1 DEF Hidden
        <5>2. IsFiniteSet(Hidden \cup {mark}) /\ Cardinality(Hidden \cup {mark}) <= Cardinality(Hidden) + 1
          <6> HIDE DEF mark
          <6> QED
            BY <1>4, AddsOne
        <5>3. IsFiniteSet(Hidden') /\ Cardinality(Hidden') <= Cardinality(Hidden \cup {mark})
          BY <5>1, <5>2, FS_Subset
        <5>4. Cardinality(Hidden') \in Nat /\ Cardinality(Hidden \cup {mark}) \in Nat
          BY <5>2, <5>3, FS_CardinalityType
        <5> QED
          BY <1>1, <1>4, <4>1, <4>2, <4>3, <5>2, <5>3, <5>4 DEF HiddenIsCaused
      <4>4. CASE ~ragged
        <5>1. Hidden' \subseteq Hidden
          BY <2>6, <4>1, <4>2, <4>4 DEF Hidden
        <5>2. IsFiniteSet(Hidden') /\ Cardinality(Hidden') <= Cardinality(Hidden)
          BY <1>4, <5>1, FS_Subset
        <5>3. Cardinality(Hidden') \in Nat
          BY <5>2, FS_CardinalityType
        <5> QED
          BY <1>1, <1>4, <4>1, <4>2, <4>4, <5>2, <5>3 DEF HiddenIsCaused
      <4> QED
        BY <4>3, <4>4
    <3>2. CASE AppendLapses(m, phase)
      <4>1. kept' = kept /\ lapses' = lapses + 1
        BY <3>2 DEF AppendLapses, Lapse
      <4>2. Hidden' \subseteq Hidden
        BY <2>6, <4>1 DEF Hidden
      <4>3. IsFiniteSet(Hidden') /\ Cardinality(Hidden') <= Cardinality(Hidden)
        BY <1>4, <4>2, FS_Subset
      <4>4. Cardinality(Hidden') \in Nat
        BY <4>3, FS_CardinalityType
      <4> QED
        BY <1>1, <1>4, <2>2, <4>1, <4>3, <4>4 DEF HiddenIsCaused
    <3> QED
      BY <3>1, <3>2
  <2> QED
    BY <1>2, <2>2, <2>4, <2>5, <2>7
<1> QED
  BY <1>5, <1>6 DEF AppendRecord, AppendLapses

MutatorBusyPlaces == {"before", "write", "error", "after", "fallback"}
Mutators == [Mutator -> [at : MutatorBusyPlaces \cup {"idle"}, op : 0 .. mutations]]
EvidenceAnswers == [op : 1 .. mutations, answer : {"blocked", "failed", "done", "incomplete"}]

\* The rest of a step: a write may reach its file, and its record the fallback.
FilesKept(m) ==
    /\ mutations' = mutations /\ silent' = silent
    /\ reached \subseteq reached' /\ reached' \subseteq reached \cup {mutator[m].op}
    /\ fallback \subseteq fallback' /\ fallback' \subseteq reached'

LEMMA EvidenceAssembled ==
    ASSUME EvidenceInv, RecordsKept, mutations' = mutations, silent' = silent,
           fallback' \subseteq reached', reached' \subseteq 1 .. mutations,
           mutator' \in Mutators, answers' \subseteq EvidenceAnswers,
           WritesApart', WritesInPlace', AnswersAreTrue'
    PROVE  EvidenceInv'
<1>1. mutations' \in 0 .. MaxMutations /\ silent' \subseteq 1 .. mutations'
  BY DEF EvidenceInv, EvidenceTypeOK
<1>2. MutatorBusyPlaces \cup {"idle"} = {"idle", "before", "write", "error", "after", "fallback"}
  BY DEF MutatorBusyPlaces
<1>3. EvidenceTypeOK'
  BY <1>1, <1>2, Zenon
     DEF EvidenceTypeOK, RecordsKept, EvidenceRecords, EvidencePhases, EvidenceAnswers, Mutators
<1> QED
  BY <1>3 DEF EvidenceInv, RecordsKept

LEMMA OthersInPlace ==
    ASSUME EvidenceInv, NEW m \in Mutator, MutatorBusy(m), kept \subseteq kept', FilesKept(m),
           NEW n \in Mutator, n # m, mutator'[n] = mutator[n]
    PROVE  InPlace(n)'
<1>1. InPlace(n) /\ (MutatorBusy(n) => mutator[n].op # mutator[m].op)
  BY DEF EvidenceInv, WritesInPlace, WritesApart
<1>2. n \in Mutator => (mutator[n].at = "idle" \/ MutatorBusy(n))
  BY DEF MutatorBusy
<1> QED
  BY <1>1, <1>2 DEF InPlace, FilesKept

LEMMA EvidenceParts ==
    ASSUME EvidenceInv, NEW m \in Mutator, MutatorBusy(m)
    PROVE  /\ EvidenceTypeOK /\ mutator \in Mutators /\ answers \subseteq EvidenceAnswers
           /\ mutator[m].op \in 1 .. mutations /\ mutator[m].at \in MutatorBusyPlaces
           /\ \A a \in answers : a.op # mutator[m].op
           /\ InPlace(m) /\ fallback \subseteq reached /\ reached \subseteq 1 .. mutations
<1>1. EvidenceTypeOK /\ InPlace(m)
  BY DEF EvidenceInv, WritesInPlace
<1>2. MutatorBusyPlaces \cup {"idle"} = {"idle", "before", "write", "error", "after", "fallback"}
  BY DEF MutatorBusyPlaces
<1>3. mutator \in Mutators /\ answers \subseteq EvidenceAnswers
  BY <1>1, <1>2, Zenon DEF EvidenceTypeOK, Mutators, EvidenceAnswers
<1>4. mutator[m].at \in MutatorBusyPlaces
  BY <1>3 DEF Mutators, MutatorBusy
<1> QED
  BY <1>1, <1>3, <1>4 DEF EvidenceInv, WritesApart, EvidenceTypeOK

\* A step after which the write goes on.
LEMMA WriteGoesOn ==
    ASSUME EvidenceInv, NEW m \in Mutator, MutatorBusy(m), RecordsKept, FilesKept(m),
           NEW place \in MutatorBusyPlaces, Onward(m, place),
           place = "write" => <<mutator[m].op, "before">> \in kept',
           place \in {"write", "error"} => mutator[m].op \notin reached',
           place \in {"after", "fallback"} => mutator[m].op \in reached', place # "before"
    PROVE  EvidenceInv'
<1>1. /\ mutator' = [mutator EXCEPT ![m].at = place] /\ answers' = answers
      /\ mutations' = mutations
  BY DEF Onward, FilesKept
<1>2. /\ mutator' \in Mutators
      /\ mutator'[m].at = place /\ mutator'[m].op = mutator[m].op
      /\ \A n \in Mutator : n # m => mutator'[n] = mutator[n]
      /\ \A n \in Mutator : mutator'[n].op = mutator[n].op
  BY <1>1, EvidenceParts DEF Mutators
<1>3. WritesApart'
  BY <1>1, <1>2 DEF EvidenceInv, WritesApart, MutatorBusy
<1>4. InPlace(m)'
  BY <1>2 DEF InPlace
<1>5. WritesInPlace'
  BY <1>2, <1>4, OthersInPlace DEF WritesInPlace, RecordsKept
<1>6. AnswersAreTrue' /\ silent' = silent
  BY <1>1, EvidenceParts DEF EvidenceInv, AnswersAreTrue, Recorded, Completed, RecordsKept, FilesKept
<1>7. fallback' \subseteq reached' /\ reached' \subseteq 1 .. mutations
  BY EvidenceParts DEF FilesKept
<1> QED
  BY <1>1, <1>2, <1>3, <1>5, <1>6, <1>7, EvidenceParts, EvidenceAssembled

\* A step after which the write is over, with an answer or without.
LEMMA WriteIsOver ==
    ASSUME EvidenceInv, NEW m \in Mutator, MutatorBusy(m), RecordsKept, FilesKept(m),
           mutator' = [mutator EXCEPT ![m] = Settled],
           NEW answer \in {"blocked", "failed", "done", "incomplete"},
           answers' \in {answers, answers \cup {[op |-> mutator[m].op, answer |-> answer]}},
           answers' # answers =>
               /\ answer = "done" =>
                    /\ mutator[m].op \in reached'
                    /\ <<mutator[m].op, "after">> \in kept' \/ mutator[m].op \in fallback'
               /\ answer = "incomplete" => mutator[m].op \in reached'
               /\ answer \in {"blocked", "failed"} => mutator[m].op \notin reached'
    PROVE  EvidenceInv'
<1> DEFINE new == [op |-> mutator[m].op, answer |-> answer]
<1>1. mutations' = mutations /\ new \in EvidenceAnswers
  BY EvidenceParts DEF FilesKept, EvidenceAnswers
<1>2. answers' \subseteq EvidenceAnswers
  BY <1>1, EvidenceParts
<1>3. /\ mutator' \in Mutators /\ mutator'[m].at = "idle"
      /\ \A n \in Mutator : n # m => mutator'[n] = mutator[n]
      /\ mutator'[m].op = 0
  BY EvidenceParts DEF Mutators, Settled, EvidenceTypeOK
<1>4. \A a \in answers' : a \in answers \/ a.op = mutator[m].op
  OBVIOUS
<1>5. WritesApart'
  <2>1. ASSUME NEW n \in Mutator, MutatorBusy(n)'
        PROVE  n # m /\ mutator'[n] = mutator[n] /\ MutatorBusy(n)
    BY <1>3, <2>1 DEF MutatorBusy
  <2>2. \A n \in Mutator : MutatorBusy(n)' =>
            /\ mutator'[n].op \in 1 .. mutations
            /\ \A a \in answers' : a.op # mutator'[n].op
            /\ \A o \in Mutator : n # o => mutator'[n].op # mutator'[o].op
    BY <1>3, <1>4, <2>1 DEF EvidenceInv, WritesApart
  <2> QED
    BY <1>1, <2>2 DEF WritesApart
<1>6. WritesInPlace'
  BY <1>3, OthersInPlace DEF WritesInPlace, InPlace, RecordsKept
<1>7. AnswersAreTrue'
  <2>1. ASSUME NEW a \in answers
        PROVE  /\ a.answer = "done" => a.op \in reached' /\ Recorded(a.op)'
               /\ a.answer = "incomplete" => a.op \in reached'
               /\ a.answer \in {"blocked", "failed"} => a.op \notin reached'
    BY EvidenceParts DEF EvidenceInv, AnswersAreTrue, Recorded, Completed, RecordsKept, FilesKept
  <2>2. CASE answers' = answers
    BY <2>1, <2>2 DEF AnswersAreTrue, Recorded, Completed
  <2>3. CASE answers' = answers \cup {new} /\ answers' # answers
    <3>1. ASSUME NEW a \in answers', a \notin answers
          PROVE  a.op = mutator[m].op /\ a.answer = answer
      BY <2>3, <3>1
    <3>2. \A a \in answers' :
            /\ a.answer = "done" => a.op \in reached' /\ Recorded(a.op)'
            /\ a.answer = "incomplete" => a.op \in reached'
            /\ a.answer \in {"blocked", "failed"} => a.op \notin reached'
      BY <2>1, <2>3, <3>1 DEF Recorded, Completed
    <3> QED
      BY <3>2 DEF AnswersAreTrue, Recorded, Completed
  <2> QED
    BY <2>2, <2>3
<1>8. fallback' \subseteq reached' /\ reached' \subseteq 1 .. mutations /\ silent' = silent
  BY EvidenceParts DEF FilesKept
<1> QED
  BY <1>1, <1>2, <1>3, <1>5, <1>6, <1>7, <1>8, EvidenceAssembled

LEMMA NoRecord ==
    ASSUME EvidenceInv, UNCHANGED <<evidence, ragged, kept, lapses, silent, mutations>>,
           reached \subseteq reached', \A op \in reached' \ silent : <<op, "before">> \in kept
    PROVE  RecordsKept
<1>1. /\ evidence \in Seq(EvidenceRecords) /\ kept \subseteq (1 .. mutations) \X EvidencePhases
      /\ lapses \in 0 .. MaxLapses
  BY DEF EvidenceInv, EvidenceTypeOK, EvidenceRecords, EvidencePhases
<1>2. ragged \in BOOLEAN
  BY DEF EvidenceInv, EvidenceTypeOK
<1>3. RecordsAreTrue'
  BY DEF EvidenceInv, RecordsAreTrue
<1>4. HiddenIsCaused'
  BY DEF EvidenceInv, HiddenIsCaused, Hidden, Legible
<1> QED
  BY <1>1, <1>2, <1>3, <1>4 DEF RecordsKept

\* A failure that leaves no record.
LEMMA OnlyLapses ==
    ASSUME Lapse, UNCHANGED <<evidence, ragged, kept>>, NEW m, NEW phase
    PROVE  AppendLapses(m, phase)
  BY DEF AppendLapses

\* What has been said stays said, of no write but those begun, when one more is begun.
LEMMA OneMoreWrite ==
    ASSUME EvidenceInv, mutations < MaxMutations, mutations' = mutations + 1,
           UNCHANGED <<evidence, ragged, kept>>
    PROVE  /\ mutations \in 0 .. MaxMutations /\ mutations' \in 0 .. MaxMutations
           /\ 1 .. mutations \subseteq 1 .. mutations' /\ mutations' \in 1 .. mutations'
           /\ mutations' \notin 1 .. mutations /\ 0 .. mutations \subseteq 0 .. mutations'
           /\ evidence' \in Seq([op : 1 .. mutations', phase : {"before", "after", "error"},
                                 legible : BOOLEAN])
           /\ kept' \subseteq (1 .. mutations') \X {"before", "after", "error"}
           /\ ragged' \in BOOLEAN
<1>1. /\ mutations \in 0 .. MaxMutations /\ mutations' \in 0 .. MaxMutations
      /\ 1 .. mutations \subseteq 1 .. mutations' /\ mutations' \in 1 .. mutations'
      /\ mutations' \notin 1 .. mutations /\ 0 .. mutations \subseteq 0 .. mutations'
  BY EvidenceAssumption DEF EvidenceInv, EvidenceTypeOK
<1>2. evidence' \in Seq([op : 1 .. mutations', phase : {"before", "after", "error"},
                         legible : BOOLEAN])
  <2> DEFINE S == [op : 1 .. mutations, phase : {"before", "after", "error"}, legible : BOOLEAN]
             T == [op : 1 .. mutations', phase : {"before", "after", "error"}, legible : BOOLEAN]
  <2>1. S \subseteq T
    BY <1>1
  <2>2. evidence \in Seq(S)
    BY DEF EvidenceInv, EvidenceTypeOK
  <2> HIDE DEF S
  <2> QED
    BY <2>1, <2>2, SeqWidens
<1>3. kept' \subseteq (1 .. mutations') \X {"before", "after", "error"}
  BY <1>1 DEF EvidenceInv, EvidenceTypeOK
<1>4. ragged' \in BOOLEAN
  BY DEF EvidenceInv, EvidenceTypeOK
<1> QED
  BY <1>1, <1>2, <1>3, <1>4

LEMMA BeginMutationKeeps ==
    ASSUME EvidenceInv, NEW m \in Mutator, BeginMutation(m)
    PROVE  EvidenceInv'
<1>1. /\ mutator[m].at = "idle" /\ mutations < MaxMutations /\ mutations' = mutations + 1
      /\ mutator' = [mutator EXCEPT ![m] = [at |-> "before", op |-> mutations']]
      /\ UNCHANGED <<evidence, ragged, kept, fallback, reached, silent, answers, lapses>>
  BY DEF BeginMutation, MutatorAt
<1>2. /\ mutations \in 0 .. MaxMutations /\ mutations' \in 0 .. MaxMutations
      /\ 1 .. mutations \subseteq 1 .. mutations' /\ mutations' \in 1 .. mutations'
      /\ mutations' \notin 1 .. mutations /\ 0 .. mutations \subseteq 0 .. mutations'
  BY <1>1, OneMoreWrite
<1>3. /\ mutator \in [Mutator -> [at : {"idle", "before", "write", "error", "after", "fallback"},
                                  op : 0 .. mutations]]
      /\ answers \subseteq [op : 1 .. mutations,
                            answer : {"blocked", "failed", "done", "incomplete"}]
      /\ fallback \subseteq reached /\ reached \subseteq 1 .. mutations
      /\ silent \subseteq 1 .. mutations /\ lapses \in 0 .. MaxLapses
  BY DEF EvidenceInv, EvidenceTypeOK
<1>4. /\ mutator' \in [Mutator -> [at : {"idle", "before", "write", "error", "after", "fallback"},
                                   op : 0 .. mutations']]
      /\ mutator'[m].at = "before" /\ mutator'[m].op = mutations'
      /\ \A n \in Mutator : n # m => mutator'[n] = mutator[n]
  BY <1>1, <1>2, <1>3
<1>5. answers' \subseteq [op : 1 .. mutations',
                          answer : {"blocked", "failed", "done", "incomplete"}]
  BY <1>1, <1>2, <1>3
<1>6. /\ evidence' \in Seq([op : 1 .. mutations', phase : {"before", "after", "error"},
                            legible : BOOLEAN])
      /\ kept' \subseteq (1 .. mutations') \X {"before", "after", "error"}
      /\ ragged' \in BOOLEAN
  BY <1>1, OneMoreWrite
<1>9. EvidenceTypeOK'
  <2>1. reached' \subseteq 1 .. mutations' /\ silent' \subseteq 1 .. mutations'
    BY <1>1, <1>2, <1>3
  <2> QED
    BY <1>1, <1>2, <1>3, <1>4, <1>5, <1>6, <2>1, Zenon DEF EvidenceTypeOK
<1>10. WritesApart'
  <2>1. \A a \in answers : a.op \in 1 .. mutations
    BY <1>3
  <2>2. \A n \in Mutator : mutator[n].op \in 0 .. mutations /\ mutator[n].op # mutations'
    BY <1>1, <1>2, <1>3
  <2> QED
    BY <1>1, <1>2, <1>4, <2>1, <2>2 DEF EvidenceInv, WritesApart, MutatorBusy
<1>11. WritesInPlace'
  <2>1. InPlace(m)'
    BY <1>1, <1>2, <1>3, <1>4 DEF InPlace
  <2>2. \A n \in Mutator : n # m => InPlace(n)'
    BY <1>1, <1>4 DEF EvidenceInv, WritesInPlace, InPlace
  <2> QED
    BY <2>1, <2>2 DEF WritesInPlace
<1>12. RecordsAreTrue' /\ AnswersAreTrue' /\ HiddenIsCaused'
  BY <1>1 DEF EvidenceInv, RecordsAreTrue, AnswersAreTrue, Recorded, Completed, HiddenIsCaused, Hidden,
              Legible
<1> QED
  BY <1>9, <1>10, <1>11, <1>12 DEF EvidenceInv

\* A write without a record: it is nobody's at hand, and it disturbs none that is.
LEMMA WrittenSilentlyKeeps ==
    ASSUME EvidenceInv, NEW m \in Mutator, WriteSilently(m) \/ SilentWriteFails(m)
    PROVE  EvidenceInv'
<1> PICK answer \in {"done", "failed"} :
       /\ Silently(m, answer)
       /\ \/ answer = "done" /\ reached' = reached \cup {mutations'} /\ UNCHANGED lapses
          \/ answer = "failed" /\ Lapse /\ UNCHANGED reached
  BY Zenon DEF WriteSilently, SilentWriteFails
<1> DEFINE new == [op |-> mutations', answer |-> answer]
<1>1. /\ mutations < MaxMutations /\ mutations' = mutations + 1
      /\ silent' = silent \cup {mutations'}
      /\ UNCHANGED <<evidence, ragged, kept, fallback, mutator>>
      /\ answers' = answers \/ answers' = answers \cup {new}
  BY DEF Silently
<1>2. /\ mutations \in 0 .. MaxMutations /\ mutations' \in 0 .. MaxMutations
      /\ 1 .. mutations \subseteq 1 .. mutations' /\ mutations' \in 1 .. mutations'
      /\ mutations' \notin 1 .. mutations /\ 0 .. mutations \subseteq 0 .. mutations'
      /\ evidence' \in Seq([op : 1 .. mutations', phase : {"before", "after", "error"},
                            legible : BOOLEAN])
      /\ kept' \subseteq (1 .. mutations') \X {"before", "after", "error"}
      /\ ragged' \in BOOLEAN
  BY <1>1, OneMoreWrite
<1>3. /\ mutator \in [Mutator -> [at : {"idle", "before", "write", "error", "after", "fallback"},
                                  op : 0 .. mutations]]
      /\ answers \subseteq [op : 1 .. mutations,
                            answer : {"blocked", "failed", "done", "incomplete"}]
      /\ fallback \subseteq reached /\ reached \subseteq 1 .. mutations
      /\ silent \subseteq 1 .. mutations /\ lapses \in 0 .. MaxLapses
      /\ WritesApart /\ WritesInPlace /\ RecordsAreTrue /\ AnswersAreTrue /\ HiddenIsCaused
  BY DEF EvidenceInv, EvidenceTypeOK
<1>4. /\ reached \subseteq reached' /\ reached' \subseteq reached \cup {mutations'}
      /\ answer = "done" => mutations' \in reached'
      /\ answer = "failed" => mutations' \notin reached'
  BY <1>2, <1>3
<1>5. lapses' \in 0 .. MaxLapses /\ (lapses' = lapses \/ lapses' = lapses + 1)
  BY <1>3, EvidenceAssumption DEF Lapse
<1>6. \A n \in Mutator : MutatorBusy(n) => mutator[n].op # mutations'
  BY <1>2, <1>3 DEF WritesApart
<1>7. EvidenceTypeOK'
  <2>1. /\ reached' \subseteq 1 .. mutations' /\ silent' \subseteq 1 .. mutations'
        /\ fallback' \subseteq reached'
    BY <1>1, <1>2, <1>3, <1>4
  <2>2. mutator' \in [Mutator -> [at : {"idle", "before", "write", "error", "after", "fallback"},
                                  op : 0 .. mutations']]
    BY <1>1, <1>2, <1>3
  <2>3. new \in [op : 1 .. mutations', answer : {"blocked", "failed", "done", "incomplete"}]
    BY <1>2
  <2>4. answers' \subseteq [op : 1 .. mutations',
                            answer : {"blocked", "failed", "done", "incomplete"}]
    BY <1>1, <1>2, <1>3, <2>3
  <2> QED
    BY <1>2, <1>5, <2>1, <2>2, <2>4, Zenon DEF EvidenceTypeOK
<1>8. WritesApart'
  <2>1. \A a \in answers' : a \in answers \/ a.op = mutations'
    BY <1>1
  <2> QED
    BY <1>1, <1>2, <1>3, <1>6, <2>1 DEF WritesApart, MutatorBusy
<1>9. WritesInPlace'
  <2> SUFFICES ASSUME NEW n \in Mutator PROVE InPlace(n)'
    BY DEF WritesInPlace
  <2>1. InPlace(n) /\ mutator'[n] = mutator[n]
    BY <1>1, <1>3 DEF WritesInPlace
  <2>2. mutator[n].at = "idle" \/ mutator[n].op # mutations'
    BY <1>6 DEF MutatorBusy
  <2> QED
    BY <1>1, <1>4, <2>1, <2>2 DEF InPlace
<1>10. RecordsAreTrue'
  BY <1>1, <1>3, <1>4 DEF RecordsAreTrue
<1>11. AnswersAreTrue'
  <2> SUFFICES ASSUME NEW a \in answers'
               PROVE  /\ a.answer = "done" => a.op \in reached' /\ Recorded(a.op)'
                      /\ a.answer = "incomplete" => a.op \in reached'
                      /\ a.answer \in {"blocked", "failed"} => a.op \notin reached'
    BY DEF AnswersAreTrue, Recorded, Completed
  <2>1. CASE a \in answers
    <3>1. a.op # mutations'
      BY <1>2, <1>3, <2>1
    <3> QED
      BY <1>1, <1>3, <1>4, <2>1, <3>1 DEF AnswersAreTrue, Recorded, Completed
  <2>2. CASE a = new
    <3>1. a.op = mutations' /\ a.answer = answer /\ mutations' \in silent'
      BY <1>1, <2>2
    <3> QED
      BY <1>4, <3>1 DEF Recorded
  <2> QED
    BY <1>1, <2>1, <2>2
<1>12. HiddenIsCaused'
  <2>1. Hidden' = Hidden /\ ragged' = ragged
    BY <1>1 DEF Hidden, Legible
  <2>2. Cardinality(Hidden) \in Nat /\ lapses \in Nat
    BY <1>3, FS_CardinalityType DEF HiddenIsCaused
  <2> QED
    BY <1>3, <1>5, <2>1, <2>2 DEF HiddenIsCaused
<1> QED
  BY <1>7, <1>8, <1>9, <1>10, <1>11, <1>12 DEF EvidenceInv

\* The steps of a write, one after the other.
LEMMA MutationKeeps ==
    ASSUME EvidenceInv, NEW m \in Mutator,
           RefuseMutation(m) \/ RecordBefore(m) \/ BlockMutation(m) \/ WriteTasks(m) \/ WriteTasksFails(m)
             \/ RecordError(m) \/ RecordAfter(m) \/ RecordAfterFails(m) \/ SaveFallback(m)
             \/ FallbackFails(m) \/ MutatorDies(m)
    PROVE  EvidenceInv'
<1> USE DEF MutatorAt
<1>1. MutatorBusy(m)
  BY DEF RefuseMutation, RecordBefore, BlockMutation, WriteTasks, WriteTasksFails, RecordError, RecordAfter,
         RecordAfterFails, SaveFallback, FallbackFails, MutatorDies, MutatorBusy
<1>2. InPlace(m) /\ fallback \subseteq reached /\ mutator[m].op \in 1 .. mutations
  BY <1>1, EvidenceParts
<1>3. CASE RecordBefore(m)
  <2>1. RecordsKept /\ <<mutator[m].op, "before">> \in kept'
    BY <1>1, <1>3, RecordsKeep DEF RecordBefore, EvidencePhases
  <2>2. FilesKept(m) /\ Onward(m, "write") /\ mutator[m].op \notin reached'
    BY <1>2, <1>3 DEF RecordBefore, FilesKept, InPlace
  <2> QED
    BY <1>1, <2>1, <2>2, WriteGoesOn DEF MutatorBusyPlaces
<1>13. CASE RefuseMutation(m)
  <2>1. FilesKept(m) /\ Onward(m, "error") /\ mutator[m].op \notin reached'
    BY <1>2, <1>13 DEF RefuseMutation, FilesKept, InPlace
  <2>2. RecordsKept
    BY <1>13, NoRecord DEF RefuseMutation, EvidenceInv, RecordsAreTrue
  <2> QED
    BY <1>1, <2>1, <2>2, WriteGoesOn DEF MutatorBusyPlaces
<1>4. CASE BlockMutation(m)
  <2>1. RecordsKept
    BY <1>1, <1>4, RecordsKeep DEF BlockMutation, EvidencePhases
  <2>2. FilesKept(m) /\ AnswerTo(m, "blocked") /\ mutator[m].op \notin reached'
    BY <1>2, <1>4 DEF BlockMutation, FilesKept, InPlace
  <2> QED
    BY <1>1, <2>1, <2>2, WriteIsOver DEF AnswerTo
<1>5. CASE WriteTasks(m)
  <2>1. FilesKept(m) /\ Onward(m, "after") /\ mutator[m].op \in reached'
    BY <1>2, <1>5 DEF WriteTasks, FilesKept
  <2>2. \A op \in reached' \ silent : <<op, "before">> \in kept
    BY <1>2, <1>5 DEF WriteTasks, InPlace, EvidenceInv, RecordsAreTrue
  <2>3. RecordsKept
    BY <1>5, <2>1, <2>2, NoRecord DEF WriteTasks, FilesKept
  <2> QED
    BY <1>1, <2>1, <2>3, WriteGoesOn DEF MutatorBusyPlaces
<1>6. CASE WriteTasksFails(m)
  <2>1. AppendLapses(m, "error")
    BY <1>6, OnlyLapses DEF WriteTasksFails
  <2>2. RecordsKept
    BY <1>1, <1>6, <2>1, RecordsKeep DEF WriteTasksFails, EvidencePhases
  <2>3. FilesKept(m) /\ Onward(m, "error") /\ mutator[m].op \notin reached'
    BY <1>2, <1>6 DEF WriteTasksFails, FilesKept, InPlace
  <2> QED
    BY <1>1, <2>2, <2>3, WriteGoesOn DEF MutatorBusyPlaces
<1>7. CASE RecordError(m)
  <2>1. RecordsKept
    BY <1>1, <1>7, RecordsKeep DEF RecordError, EvidencePhases
  <2>2. FilesKept(m) /\ AnswerTo(m, "failed") /\ mutator[m].op \notin reached'
    BY <1>2, <1>7 DEF RecordError, FilesKept, InPlace
  <2> QED
    BY <1>1, <2>1, <2>2, WriteIsOver DEF AnswerTo
<1>8. CASE RecordAfter(m)
  <2>1. FilesKept(m) /\ AnswerTo(m, "done") /\ mutator[m].op \in reached'
    BY <1>2, <1>8 DEF RecordAfter, FilesKept, InPlace
  <2>2. RecordsKept /\ <<mutator[m].op, "after">> \in kept'
    BY <1>1, <1>2, <1>8, RecordsKeep DEF RecordAfter, EvidencePhases, InPlace
  <2> QED
    BY <1>1, <2>1, <2>2, WriteIsOver DEF AnswerTo
<1>9. CASE RecordAfterFails(m)
  <2>1. FilesKept(m) /\ Onward(m, "fallback") /\ mutator[m].op \in reached'
    BY <1>2, <1>9 DEF RecordAfterFails, FilesKept, InPlace
  <2>2. RecordsKept
    BY <1>1, <1>2, <1>9, RecordsKeep DEF RecordAfterFails, EvidencePhases, InPlace
  <2> QED
    BY <1>1, <2>1, <2>2, WriteGoesOn DEF MutatorBusyPlaces
<1>10. CASE SaveFallback(m)
  <2>1. FilesKept(m) /\ AnswerTo(m, "done") /\ mutator[m].op \in reached'
        /\ mutator[m].op \in fallback'
    BY <1>2, <1>10 DEF SaveFallback, FilesKept, InPlace
  <2>2. RecordsKept
    BY <1>10, NoRecord DEF SaveFallback, EvidenceInv, RecordsAreTrue
  <2> QED
    BY <1>1, <2>1, <2>2, WriteIsOver DEF AnswerTo
<1>11. CASE FallbackFails(m)
  <2>1. FilesKept(m) /\ AnswerTo(m, "incomplete") /\ mutator[m].op \in reached'
    BY <1>2, <1>11 DEF FallbackFails, FilesKept, InPlace
  <2>2. AppendLapses(m, "error")
    BY <1>11, OnlyLapses DEF FallbackFails
  <2>3. RecordsKept
    BY <1>1, <1>11, <2>2, RecordsKeep DEF FallbackFails, EvidencePhases
  <2> QED
    BY <1>1, <2>1, <2>3, WriteIsOver DEF AnswerTo
<1>12. CASE MutatorDies(m)
  <2>1. FilesKept(m) /\ answers' = answers /\ mutator' = [mutator EXCEPT ![m] = Settled]
    BY <1>2, <1>12 DEF MutatorDies, FilesKept, InPlace
  <2>2. \E phase \in EvidencePhases : AppendLapses(m, phase) /\ (phase = "after" => mutator[m].op \in reached)
    <3>1. CASE AppendLapses(m, mutator[m].at) /\ mutator[m].at \in {"before", "error", "after"}
      BY <1>2, <3>1 DEF EvidencePhases, InPlace
    <3>2. CASE Lapse /\ UNCHANGED <<evidence, ragged, kept>>
      BY <3>2, OnlyLapses DEF EvidencePhases
    <3> QED
      BY <1>12, <3>1, <3>2 DEF MutatorDies
  <2>3. RecordsKept
    BY <1>1, <1>12, <2>2, RecordsKeep DEF MutatorDies
  <2> QED
    BY <1>1, <2>1, <2>3, WriteIsOver
<1> QED
  BY <1>3, <1>4, <1>5, <1>6, <1>7, <1>8, <1>9, <1>10, <1>11, <1>12, <1>13

LEMMA EvidenceNextInv == EvidenceInv /\ [EvidenceNext]_evidenceVars => EvidenceInv'
<1> SUFFICES ASSUME EvidenceInv, [EvidenceNext]_evidenceVars PROVE EvidenceInv'
  OBVIOUS
<1>1. CASE UNCHANGED evidenceVars
  BY <1>1 DEF evidenceVars, EvidenceInv, EvidenceTypeOK, WritesApart, WritesInPlace, InPlace,
              RecordsAreTrue, AnswersAreTrue, HiddenIsCaused, Hidden, Legible, Recorded,
              Completed, MutatorBusy
<1>2. CASE EvidenceNext
  BY <1>2, BeginMutationKeeps, WrittenSilentlyKeeps, MutationKeeps DEF EvidenceNext
<1> QED
  BY <1>1, <1>2

\* Every variable of the evidence journal keeps its type.
THEOREM EvidenceTypeCorrect == EvidenceSpec => []EvidenceTypeOK
<1>1. EvidenceInv => EvidenceTypeOK
  BY DEF EvidenceInv
<1> QED
  BY <1>1, EvidenceInitInv, EvidenceNextInv, PTL DEF EvidenceSpec

\* Whatever writes, appends and processes fail: no write that asks for a record reaches its
\* file before it, a record tells of what happened, so does every answer, and a line without
\* an end hides one record at most.
THEOREM EvidenceIsTrue == EvidenceSpec => []EvidenceTellsTheTruth
<1>1. EvidenceInv => EvidenceTellsTheTruth
  <2> SUFFICES ASSUME EvidenceInv PROVE EvidenceTellsTheTruth
    OBVIOUS
  <2>1. \A op \in reached \ silent : <<op, "before">> \in kept
    BY DEF EvidenceInv, RecordsAreTrue
  <2>2. {op \in 1 .. mutations : <<op, "after">> \in Legible} \subseteq reached
    BY DEF EvidenceInv, RecordsAreTrue, Legible
  <2>3. /\ \A op \in Answered("done") : op \in reached /\ (Completed(op) \/ op \in silent)
        /\ Answered("incomplete") \subseteq reached
        /\ reached \cap (Answered("blocked") \cup Answered("failed")) = {}
    BY DEF EvidenceInv, AnswersAreTrue, Recorded, Answered
  <2>4. Cardinality(kept \ Legible) <= lapses
    <3>1. IsFiniteSet(Hidden) /\ Cardinality(Hidden) \in Nat /\ lapses \in 0 .. MaxLapses
      BY FS_CardinalityType DEF EvidenceInv, HiddenIsCaused, EvidenceTypeOK
    <3>2. Cardinality(Hidden) <= lapses
      BY <3>1, EvidenceAssumption DEF EvidenceInv, HiddenIsCaused
    <3> QED
      BY <3>2 DEF Hidden
  <2> QED
    BY <2>1, <2>2, <2>3, <2>4 DEF EvidenceTellsTheTruth
<1> QED
  BY <1>1, EvidenceInitInv, EvidenceNextInv, PTL DEF EvidenceSpec

-----------------------------------------------------------------------------
(* The claim journal *)

AgentBusy(a) == agent[a].at # "idle"

OneAtWork == \A a, b \in Agent : AgentBusy(a) /\ AgentBusy(b) => a = b

\* The operation at hand is the last one begun, and nobody has heard of it; what it has
\* decided is its own mark on a copy of the board, and events of its own.
OpDecided(a) ==
    /\ agent[a].copy = Append(board, ops)
    /\ ToSet(agent[a].pending) = {ops}

WorkInPlace(a) ==
    /\ AgentBusy(a) => agent[a].op = ops /\ ops \in 1 .. MaxOps /\ ops \notin returned
    /\ agent[a].at \in {"decide", "write"} => ops \notin ToSet(board)
    /\ agent[a].at = "decide" => agent[a].copy = board /\ agent[a].pending = <<>>
    /\ agent[a].at = "write" => OpDecided(a) \/ (agent[a].copy = board /\ agent[a].pending = <<>>)
    /\ agent[a].at = "flush" => \/ ops \in ToSet(board) /\ ToSet(agent[a].pending) = {ops}
                                \/ ops \notin ToSet(board) /\ agent[a].pending = <<>>

EventsFollow ==
    /\ ToSet(claimEvents) \subseteq ToSet(board)
    /\ \A i, j \in DOMAIN claimEvents : i < j => claimEvents[i] <= claimEvents[j]
    /\ returned \cap ToSet(board) \subseteq ToSet(claimEvents)

\* The operations on the board that nobody will tell of any more.
Unspoken == (ToSet(board) \ ToSet(claimEvents)) \ {agent[a].op : a \in Flushing}

UnspokenIsCaused == IsFiniteSet(Unspoken) /\ Cardinality(Unspoken) <= mishaps

JournalInv ==
    /\ JournalTypeOK /\ OneAtWork /\ (\A a \in Agent : WorkInPlace(a))
    /\ EventsFollow /\ UnspokenIsCaused

LEMMA AppendAddsOne ==
    ASSUME NEW S, NEW s \in Seq(S), NEW x \in S
    PROVE  ToSet(Append(s, x)) = ToSet(s) \cup {x}
<1>1. /\ DOMAIN Append(s, x) = DOMAIN s \cup {Len(s) + 1} /\ Append(s, x)[Len(s) + 1] = x
      /\ \A i \in DOMAIN s : Append(s, x)[i] = s[i]
  OBVIOUS
<1> QED
  BY <1>1 DEF ToSet

LEMMA ConcatJoins ==
    ASSUME NEW S, NEW s \in Seq(S), NEW t \in Seq(S)
    PROVE  ToSet(s \o t) = ToSet(s) \cup ToSet(t)
<1>1. /\ s \o t \in Seq(S) /\ Len(s \o t) = Len(s) + Len(t)
      /\ \A i \in 1 .. Len(s) + Len(t) : (s \o t)[i] = IF i <= Len(s) THEN s[i] ELSE t[i - Len(s)]
  BY ConcatProperties
<1>2. /\ DOMAIN (s \o t) = 1 .. Len(s) + Len(t) /\ DOMAIN s = 1 .. Len(s)
      /\ DOMAIN t = 1 .. Len(t) /\ Len(s) \in Nat /\ Len(t) \in Nat
  BY <1>1
<1>3. ASSUME NEW i \in DOMAIN (s \o t) PROVE (s \o t)[i] \in ToSet(s) \cup ToSet(t)
  <2>1. CASE i <= Len(s)
    BY <1>1, <1>2, <2>1 DEF ToSet
  <2>2. CASE ~(i <= Len(s))
    <3>1. i - Len(s) \in DOMAIN t
      BY <1>2, <2>2
    <3> QED
      BY <1>1, <1>2, <2>2, <3>1 DEF ToSet
  <2> QED
    BY <2>1, <2>2
<1>4. ASSUME NEW i \in DOMAIN s PROVE s[i] \in ToSet(s \o t)
  <2>1. i \in DOMAIN (s \o t) /\ (s \o t)[i] = s[i]
    BY <1>1, <1>2
  <2> QED
    BY <2>1 DEF ToSet
<1>5. ASSUME NEW i \in DOMAIN t PROVE t[i] \in ToSet(s \o t)
  <2>1. i + Len(s) \in DOMAIN (s \o t) /\ (s \o t)[i + Len(s)] = t[i]
    BY <1>1, <1>2
  <2> QED
    BY <2>1 DEF ToSet
<1> QED
  BY <1>3, <1>4, <1>5 DEF ToSet

LEMMA PrefixIsPart ==
    ASSUME NEW S, NEW s \in Seq(S), NEW n \in 0 .. Len(s)
    PROVE  SubSeq(s, 1, n) \in Seq(S) /\ ToSet(SubSeq(s, 1, n)) \subseteq ToSet(s)
<1>1. \A i \in 1 .. n : i \in DOMAIN s /\ s[i] \in S
  OBVIOUS
<1>2. /\ SubSeq(s, 1, n) \in Seq(S) /\ Len(SubSeq(s, 1, n)) = n
      /\ \A i \in 1 .. n : SubSeq(s, 1, n)[i] = s[i]
  <2>1. n \in Int /\ 1 \in Int
    OBVIOUS
  <2>2. /\ SubSeq(s, 1, n) \in Seq(S)
        /\ Len(SubSeq(s, 1, n)) = IF 1 <= n THEN n - 1 + 1 ELSE 0
        /\ \A i \in 1 .. n - 1 + 1 : SubSeq(s, 1, n)[i] = s[1 + i - 1]
    BY <1>1, <2>1, SubSeqProperties
  <2> QED
    BY <2>2
<1> QED
  BY <1>1, <1>2 DEF ToSet

JournalAgents == [at : {"idle", "decide", "write", "flush"}, op : 0 .. ops,
                  copy : Seq(1 .. ops), pending : Seq(1 .. ops)]

LEMMA JournalInitInv == JournalInit => JournalInv
<1> SUFFICES ASSUME JournalInit PROVE JournalInv
  OBVIOUS
<1>1. /\ board = <<>> /\ claimEvents = <<>> /\ ops = 0 /\ returned = {} /\ mishaps = 0
      /\ \A a \in Agent : agent[a].at = "idle"
  BY DEF JournalInit, Idle
<1>2. JournalTypeOK
  <2>1. agent \in [Agent -> [at : {"idle", "decide", "write", "flush"}, op : 0 .. ops,
                             copy : Seq(1 .. ops), pending : Seq(1 .. ops)]]
    BY EmptySeq DEF JournalInit, Idle
  <2> QED
    BY <1>1, <2>1, EmptySeq, JournalAssumption DEF JournalTypeOK
<1>3. OneAtWork /\ (\A a \in Agent : WorkInPlace(a))
  BY <1>1 DEF OneAtWork, WorkInPlace, AgentBusy
<1>4. ToSet(board) = {} /\ EventsFollow
  BY <1>1, EmptySeq DEF ToSet, EventsFollow
<1>5. Unspoken = {}
  BY <1>4 DEF Unspoken
<1> QED
  BY <1>1, <1>2, <1>3, <1>4, <1>5, FS_EmptySet DEF JournalInv, UnspokenIsCaused

LEMMA JournalParts ==
    ASSUME JournalInv, NEW a \in Agent
    PROVE  /\ board \in Seq(1 .. ops) /\ claimEvents \in Seq(1 .. ops) /\ ops \in 0 .. MaxOps
           /\ agent \in [Agent -> JournalAgents]
           /\ agent[a].copy \in Seq(1 .. ops) /\ agent[a].pending \in Seq(1 .. ops)
           /\ returned \subseteq 1 .. ops /\ mishaps \in 0 .. MaxMishaps
           /\ WorkInPlace(a) /\ EventsFollow /\ UnspokenIsCaused
           /\ MaxOps \in Nat /\ MaxMishaps \in Nat
<1>1. agent \in [Agent -> JournalAgents]
  BY DEF JournalInv, JournalTypeOK, JournalAgents
<1>2. agent[a].copy \in Seq(1 .. ops) /\ agent[a].pending \in Seq(1 .. ops)
  BY <1>1 DEF JournalAgents
<1> QED
  BY <1>1, <1>2, JournalAssumption DEF JournalInv, JournalTypeOK

\* While an agent works the others rest, and still do.
LEMMA OthersRest ==
    ASSUME JournalInv, NEW a \in Agent, AgentBusy(a), NEW r \in JournalAgents',
           agent' = [agent EXCEPT ![a] = r], ops' = ops
    PROVE  /\ agent' \in [Agent -> JournalAgents'] /\ agent'[a] = r
           /\ \A b \in Agent : b # a => ~AgentBusy(b) /\ ~AgentBusy(b)' /\ WorkInPlace(b)'
           /\ OneAtWork'
           /\ Flushing = (IF agent[a].at = "flush" THEN {a} ELSE {})
           /\ Flushing' = (IF r.at = "flush" THEN {a} ELSE {})
<1>1. /\ agent \in [Agent -> JournalAgents'] /\ \A b \in Agent : b # a => ~AgentBusy(b)
  BY JournalParts DEF JournalInv, OneAtWork, JournalAgents
<1>2. agent' \in [Agent -> JournalAgents'] /\ agent'[a] = r /\ \A b \in Agent : b # a => agent'[b] = agent[b]
  BY <1>1
<1>3. \A b \in Agent : b # a => ~AgentBusy(b)' /\ WorkInPlace(b)'
  BY <1>1, <1>2 DEF AgentBusy, WorkInPlace
<1>4. OneAtWork'
  BY <1>3 DEF OneAtWork
<1>5. Flushing = (IF agent[a].at = "flush" THEN {a} ELSE {})
  BY <1>1 DEF Flushing, AgentAt, AgentBusy
<1>6. Flushing' = (IF r.at = "flush" THEN {a} ELSE {})
  BY <1>2, <1>3 DEF Flushing, AgentAt, AgentBusy
<1> QED
  BY <1>1, <1>2, <1>3, <1>4, <1>5, <1>6

LEMMA UnspokenShrinks ==
    ASSUME UnspokenIsCaused, mishaps \in Nat, mishaps' \in Nat, mishaps <= mishaps',
           Unspoken' \subseteq Unspoken
    PROVE  UnspokenIsCaused'
<1>1. IsFiniteSet(Unspoken') /\ Cardinality(Unspoken') <= Cardinality(Unspoken)
  BY FS_Subset DEF UnspokenIsCaused
<1>2. Cardinality(Unspoken) \in Nat /\ Cardinality(Unspoken') \in Nat
  BY <1>1, FS_CardinalityType DEF UnspokenIsCaused
<1> QED
  BY <1>1, <1>2 DEF UnspokenIsCaused

LEMMA UnspokenByOne ==
    ASSUME UnspokenIsCaused, mishaps \in Nat, mishaps' = mishaps + 1,
           NEW x, Unspoken' \subseteq Unspoken \cup {x}
    PROVE  UnspokenIsCaused'
<1>1. /\ IsFiniteSet(Unspoken \cup {x}) /\ Cardinality(Unspoken) \in Nat
      /\ Cardinality(Unspoken \cup {x}) <= Cardinality(Unspoken) + 1
  BY AddsOne DEF UnspokenIsCaused
<1>2. IsFiniteSet(Unspoken') /\ Cardinality(Unspoken') <= Cardinality(Unspoken \cup {x})
  BY <1>1, FS_Subset
<1>3. Cardinality(Unspoken') \in Nat /\ Cardinality(Unspoken \cup {x}) \in Nat
  BY <1>1, <1>2, FS_CardinalityType
<1> QED
  BY <1>1, <1>2, <1>3 DEF UnspokenIsCaused

LEMMA LockKeeps == ASSUME JournalInv, NEW a \in Agent, LockBoard(a) PROVE JournalInv'
<1> DEFINE r == [at |-> "decide", op |-> ops', copy |-> board, pending |-> <<>>]
<1>1. /\ \A b \in Agent : agent[b].at = "idle"
      /\ ops < MaxOps /\ ops' = ops + 1 /\ agent' = [agent EXCEPT ![a] = r]
      /\ UNCHANGED <<board, claimEvents, returned, mishaps>>
  BY DEF LockBoard, AgentAt
<1>2. /\ ops \in 0 .. MaxOps /\ ops' \in 1 .. MaxOps /\ 1 .. ops \subseteq 1 .. ops'
      /\ ops' \notin 1 .. ops /\ 0 .. ops \subseteq 0 .. ops' /\ ops' \in 0 .. MaxOps
  BY <1>1, JournalParts
<1>3. board' \in Seq(1 .. ops') /\ claimEvents' \in Seq(1 .. ops') /\ r \in JournalAgents'
  <2>1. board \in Seq(1 .. ops') /\ claimEvents \in Seq(1 .. ops')
    BY <1>2, JournalParts, SeqWidens
  <2> QED
    BY <1>1, <1>2, <2>1, EmptySeq DEF JournalAgents
<1>4. agent \in [Agent -> JournalAgents']
  <2>1. ASSUME NEW b \in Agent PROVE agent[b] \in JournalAgents'
    <3>1. agent[b] \in JournalAgents /\ agent[b].copy \in Seq(1 .. ops) /\ agent[b].pending \in Seq(1 .. ops)
      BY JournalParts
    <3>2. agent[b].copy \in Seq(1 .. ops') /\ agent[b].pending \in Seq(1 .. ops')
      BY <1>2, <3>1, SeqWidens
    <3> QED
      BY <1>2, <3>1, <3>2 DEF JournalAgents
  <2> QED
    BY <2>1, JournalParts
<1>5. /\ agent' \in [Agent -> JournalAgents'] /\ agent'[a] = r
      /\ \A b \in Agent : b # a => agent'[b] = agent[b]
  BY <1>1, <1>3, <1>4
<1>6. JournalTypeOK'
  <2>1. returned' \subseteq 1 .. ops' /\ mishaps' \in 0 .. MaxMishaps
    BY <1>1, <1>2, JournalParts
  <2> QED
    BY <1>2, <1>3, <1>5, <2>1 DEF JournalTypeOK, JournalAgents
<1>7. ToSet(board) \subseteq 1 .. ops
  BY JournalParts DEF ToSet
<1>8. WorkInPlace(a)'
  BY <1>1, <1>2, <1>5, <1>7, JournalParts DEF WorkInPlace
<1>9. OneAtWork' /\ (\A b \in Agent : WorkInPlace(b)')
  BY <1>1, <1>5, <1>8 DEF OneAtWork, AgentBusy, WorkInPlace
<1>10. EventsFollow'
  BY <1>1 DEF JournalInv, EventsFollow
<1>11. UnspokenIsCaused'
  <2>1. Flushing = {} /\ Flushing' = {}
    BY <1>1, <1>5 DEF Flushing, AgentAt
  <2>2. Unspoken' \subseteq Unspoken
    BY <1>1, <2>1 DEF Unspoken
  <2> QED
    BY <1>1, <2>2, UnspokenShrinks, JournalParts
<1> QED
  BY <1>6, <1>9, <1>10, <1>11 DEF JournalInv

LEMMA ThreeFields ==
    ASSUME NEW w \in JournalAgents, NEW x, NEW y, NEW z
    PROVE  [[[w EXCEPT !.at = x] EXCEPT !.copy = y] EXCEPT !.pending = z]
             = [at |-> x, op |-> w.op, copy |-> y, pending |-> z]
<1> DEFINE v == [[[w EXCEPT !.at = x] EXCEPT !.copy = y] EXCEPT !.pending = z]
<1>1. v \in [at : {x}, op : {w.op}, copy : {y}, pending : {z}]
  BY DEF JournalAgents
<1> HIDE DEF v
<1>2. v = [at |-> x, op |-> w.op, copy |-> y, pending |-> z]
  BY <1>1
<1> QED
  BY <1>2 DEF v

\* A step between the lock and the replacement that touches no file.
LEMMA ComputeKeeps ==
    ASSUME JournalInv, NEW a \in Agent, Compute(a) \/ ComputeNothing(a) \/ RaiseClaimError(a)
    PROVE  JournalInv'
<1>1. /\ agent[a].at = "decide" /\ UNCHANGED <<board, claimEvents, ops, returned, mishaps>>
      /\ AgentBusy(a)
  BY DEF Compute, ComputeNothing, RaiseClaimError, AgentAt, AgentBusy
<1>2. /\ agent[a].op = ops /\ ops \in 1 .. MaxOps /\ ops \notin returned /\ ops \notin ToSet(board)
      /\ agent[a].copy = board /\ agent[a].pending = <<>>
      /\ agent[a] \in JournalAgents /\ ops \in 1 .. ops
  BY <1>1, JournalParts DEF WorkInPlace
<1>3. PICK r \in JournalAgents :
        /\ agent' = [agent EXCEPT ![a] = r]
        /\ \/ r.at = "idle"
           \/ /\ r.at = "write" /\ r.op = ops
              /\ \/ r.copy = board /\ r.pending = <<>>
                 \/ r.copy = Append(board, ops) /\ ToSet(r.pending) = {ops}
  <2>1. CASE RaiseClaimError(a)
    <3>1. Idle \in JournalAgents /\ Idle.at = "idle"
      BY <1>2, EmptySeq DEF Idle, JournalAgents
    <3> QED
      BY <2>1, <3>1 DEF RaiseClaimError
  <2>2. CASE ComputeNothing(a)
    <3> DEFINE q == [agent[a] EXCEPT !.at = "write"]
    <3>1. q \in JournalAgents /\ q.at = "write" /\ q.op = ops /\ q.copy = board /\ q.pending = <<>>
      BY <1>2 DEF JournalAgents
    <3>2. agent' = [agent EXCEPT ![a] = q]
      BY <2>2 DEF ComputeNothing
    <3> QED
      BY <3>1, <3>2
  <2>3. CASE Compute(a)
    <3>1. PICK n \in 1 .. 2 :
            agent' = [agent EXCEPT ![a].at = "write", ![a].copy = Append(@, agent[a].op),
                                   ![a].pending = @ \o [i \in 1 .. n |-> agent[a].op]]
      BY <2>3 DEF Compute
    <3> DEFINE new == [i \in 1 .. n |-> ops]
               q == [at |-> "write", op |-> ops, copy |-> Append(board, ops), pending |-> new]
    <3>2. new \in Seq(1 .. ops) /\ ToSet(new) = {ops}
      BY <1>2 DEF ToSet
    <3>3. <<>> \o new = new
      BY <3>2, ConcatEmptySeq
    <3>4. q \in JournalAgents
      BY <1>2, <3>2, JournalParts DEF JournalAgents
    <3>5. agent' = [agent EXCEPT ![a] = q]
      <4> DEFINE rest == agent[a].pending \o [i \in 1 .. n |-> agent[a].op]
                 decided == [[[agent[a] EXCEPT !.at = "write"]
                                EXCEPT !.copy = Append(agent[a].copy, agent[a].op)]
                                EXCEPT !.pending = rest]
      <4>1. agent' = [agent EXCEPT ![a] = decided]
        BY <3>1, JournalParts
      <4>2. rest = new
        BY <1>2, <3>3
      <4> HIDE DEF rest
      <4>3. decided = [at |-> "write", op |-> agent[a].op,
                       copy |-> Append(agent[a].copy, agent[a].op), pending |-> rest]
        BY <1>2, ThreeFields, Zenon
      <4> QED
        BY <1>2, <4>1, <4>2, <4>3
    <3> QED
      BY <3>2, <3>4, <3>5
  <2> QED
    BY <2>1, <2>2, <2>3
<1>4. JournalAgents' = JournalAgents
  BY <1>1 DEF JournalAgents
<1>5. /\ agent' \in [Agent -> JournalAgents] /\ agent'[a] = r /\ OneAtWork'
      /\ \A b \in Agent : b # a => WorkInPlace(b)'
      /\ Flushing = {} /\ Flushing' = {}
  BY <1>1, <1>3, <1>4, OthersRest
<1>6. JournalTypeOK'
  BY <1>1, <1>5 DEF JournalInv, JournalTypeOK, JournalAgents
<1>7. WorkInPlace(a)'
  BY <1>1, <1>2, <1>3, <1>5 DEF WorkInPlace, AgentBusy, OpDecided
<1>8. EventsFollow'
  BY <1>1 DEF JournalInv, EventsFollow
<1>9. Unspoken' \subseteq Unspoken
  BY <1>1, <1>5 DEF Unspoken
<1>10. UnspokenIsCaused'
  BY <1>1, <1>9, UnspokenShrinks, JournalParts
<1>11. \A b \in Agent : WorkInPlace(b)'
  BY <1>5, <1>7
<1> QED
  BY <1>5, <1>6, <1>8, <1>10, <1>11 DEF JournalInv

LEMMA ReplaceKeeps ==
    ASSUME JournalInv, NEW a \in Agent, ReplaceBoard(a) \/ ReplaceFails(a)
    PROVE  JournalInv'
<1>1. /\ agent[a].at = "write" /\ UNCHANGED <<claimEvents, ops, returned>> /\ AgentBusy(a)
  BY DEF ReplaceBoard, ReplaceFails, AgentAt, AgentBusy
<1>2. /\ agent[a].op = ops /\ ops \in 1 .. MaxOps /\ ops \notin returned /\ ops \notin ToSet(board)
      /\ OpDecided(a) \/ (agent[a].copy = board /\ agent[a].pending = <<>>)
      /\ agent[a] \in JournalAgents /\ ops \in 1 .. ops /\ JournalAgents' = JournalAgents
  BY <1>1, JournalParts DEF WorkInPlace, JournalAgents
<1>3. mishaps \in Nat /\ mishaps' \in 0 .. MaxMishaps /\ mishaps <= mishaps'
  BY JournalParts DEF ReplaceBoard, ReplaceFails, Mishap
<1>4. CASE ReplaceFails(a)
  <2> DEFINE r == [agent[a] EXCEPT !.at = "idle"]
  <2>1. r \in JournalAgents /\ r.at = "idle" /\ agent' = [agent EXCEPT ![a] = r] /\ board' = board
    BY <1>2, <1>4 DEF ReplaceFails, JournalAgents
  <2>2. /\ agent' \in [Agent -> JournalAgents] /\ agent'[a] = r /\ OneAtWork'
        /\ \A b \in Agent : b # a => WorkInPlace(b)'
        /\ Flushing = {} /\ Flushing' = {}
    BY <1>1, <1>2, <2>1, OthersRest
  <2>3. WorkInPlace(a)'
    BY <2>1, <2>2 DEF WorkInPlace, AgentBusy
  <2>4. \A b \in Agent : WorkInPlace(b)'
    BY <2>2, <2>3
  <2>5. JournalTypeOK'
    BY <1>1, <1>3, <2>1, <2>2 DEF JournalInv, JournalTypeOK, JournalAgents
  <2>6. EventsFollow'
    BY <1>1, <2>1 DEF JournalInv, EventsFollow
  <2>7. Unspoken' \subseteq Unspoken
    BY <1>1, <2>1, <2>2 DEF Unspoken
  <2>8. UnspokenIsCaused'
    BY <1>3, <2>7, UnspokenShrinks, JournalParts
  <2> QED
    BY <2>2, <2>4, <2>5, <2>6, <2>8 DEF JournalInv
<1>5. CASE ReplaceBoard(a)
  <2> DEFINE r == [agent[a] EXCEPT !.at = "flush"]
  <2>1. /\ r \in JournalAgents /\ r.at = "flush" /\ r.op = ops /\ r.pending = agent[a].pending
        /\ agent' = [agent EXCEPT ![a] = r] /\ board' = agent[a].copy /\ mishaps' = mishaps
    BY <1>2, <1>5 DEF ReplaceBoard, JournalAgents
  <2>2. /\ agent' \in [Agent -> JournalAgents] /\ agent'[a] = r /\ OneAtWork'
        /\ \A b \in Agent : b # a => WorkInPlace(b)'
        /\ Flushing = {} /\ Flushing' = {a}
    BY <1>1, <1>2, <2>1, OthersRest
  <2>3. \/ ToSet(board') = ToSet(board) \cup {ops} /\ ToSet(agent[a].pending) = {ops}
        \/ ToSet(board') = ToSet(board) /\ agent[a].pending = <<>>
    <3>1. CASE OpDecided(a)
      <4>1. board' = Append(board, ops) /\ ToSet(agent[a].pending) = {ops}
        BY <2>1, <3>1 DEF OpDecided
      <4>2. ToSet(Append(board, ops)) = ToSet(board) \cup {ops}
        <5>1. board \in Seq(1 .. ops) /\ ops \in 1 .. ops
          BY <1>2, JournalParts
        <5> QED
          BY <5>1, AppendAddsOne
      <4> QED
        BY <4>1, <4>2
    <3>2. CASE agent[a].copy = board /\ agent[a].pending = <<>>
      BY <2>1, <3>2
    <3> QED
      BY <1>2, <3>1, <3>2
  <2>4. WorkInPlace(a)'
    <3>1. \/ ops \in ToSet(board') /\ ToSet(r.pending) = {ops}
          \/ ops \notin ToSet(board') /\ r.pending = <<>>
      BY <1>2, <2>1, <2>3
    <3> HIDE DEF r
    <3> QED
      BY <1>1, <1>2, <2>1, <2>2, <3>1 DEF WorkInPlace
  <2>5. \A b \in Agent : WorkInPlace(b)'
    BY <2>2, <2>4
  <2>6. JournalTypeOK'
    <3>1. board' \in Seq(1 .. ops)
      BY <2>1, JournalParts
    <3> QED
      BY <1>1, <1>3, <2>2, <3>1 DEF JournalInv, JournalTypeOK, JournalAgents
  <2>7. EventsFollow'
    BY <1>1, <1>2, <2>3 DEF JournalInv, EventsFollow
  <2>8. Unspoken' \subseteq Unspoken
    <3>1. {agent'[b].op : b \in Flushing'} = {ops}
      BY <2>1, <2>2
    <3>2. Unspoken' = (ToSet(board') \ ToSet(claimEvents)) \ {ops}
      BY <1>1, <3>1 DEF Unspoken
    <3>3. Unspoken = ToSet(board) \ ToSet(claimEvents)
      BY <2>2 DEF Unspoken
    <3> QED
      BY <2>3, <3>2, <3>3
  <2>9. UnspokenIsCaused'
    BY <1>3, <2>8, UnspokenShrinks, JournalParts
  <2> QED
    BY <2>2, <2>5, <2>6, <2>7, <2>9 DEF JournalInv
<1> QED
  BY <1>4, <1>5

\* What is appended behind the events follows them, for none is of a later operation.
LEMMA EventsAdded ==
    ASSUME JournalInv, NEW a \in Agent, agent[a].at = "flush",
           NEW s \in Seq(1 .. ops), ToSet(s) \subseteq ToSet(agent[a].pending),
           claimEvents' = claimEvents \o s
    PROVE  /\ claimEvents' \in Seq(1 .. ops)
           /\ ToSet(claimEvents') = ToSet(claimEvents) \cup ToSet(s)
           /\ ToSet(claimEvents') \subseteq ToSet(board)
           /\ \A i, j \in DOMAIN claimEvents' : i < j => claimEvents'[i] <= claimEvents'[j]
<1>1. claimEvents \in Seq(1 .. ops) /\ EventsFollow /\ ops \in Nat
  BY JournalParts
<1>2. /\ claimEvents' \in Seq(1 .. ops) /\ Len(claimEvents') = Len(claimEvents) + Len(s)
      /\ \A i \in 1 .. Len(claimEvents) + Len(s) :
            claimEvents'[i] = IF i <= Len(claimEvents) THEN claimEvents[i] ELSE s[i - Len(claimEvents)]
  BY <1>1, ConcatProperties
<1>3. ToSet(claimEvents') = ToSet(claimEvents) \cup ToSet(s)
  BY <1>1, ConcatJoins
<1>4. ToSet(s) \subseteq {ops} /\ ToSet(s) \subseteq ToSet(board)
  <2>1. \/ ops \in ToSet(board) /\ ToSet(agent[a].pending) = {ops}
        \/ agent[a].pending = <<>>
    BY JournalParts DEF WorkInPlace
  <2>2. ToSet(<<>>) = {}
    BY EmptySeq DEF ToSet
  <2> QED
    BY <2>1, <2>2
<1>5. \A k \in 1 .. Len(s) : s[k] = ops
  BY <1>4 DEF ToSet
<1>6. ASSUME NEW i \in DOMAIN claimEvents', NEW j \in DOMAIN claimEvents', i < j
      PROVE  claimEvents'[i] <= claimEvents'[j]
  <2>1. /\ i \in 1 .. Len(claimEvents) + Len(s) /\ j \in 1 .. Len(claimEvents) + Len(s)
        /\ Len(claimEvents) \in Nat /\ Len(s) \in Nat
    BY <1>1, <1>2
  <2>2. CASE j <= Len(claimEvents)
    BY <1>1, <1>2, <1>6, <2>1, <2>2 DEF EventsFollow
  <2>3. CASE ~(j <= Len(claimEvents))
    <3>1. j - Len(claimEvents) \in 1 .. Len(s) /\ claimEvents'[j] = ops
      BY <1>2, <1>5, <2>1, <2>3
    <3>2. claimEvents'[i] \in 1 .. ops
      <4>1. i \in 1 .. Len(claimEvents')
        BY <1>2, <2>1
      <4> DEFINE S == 1 .. ops
                 n == Len(claimEvents')
      <4>2. claimEvents' \in Seq(S) /\ i \in 1 .. n
        BY <1>2, <4>1
      <4> HIDE DEF S
      <4>3. claimEvents'[i] \in S
        BY <4>2
      <4> QED
        BY <4>3 DEF S
    <3>3. ops \in Nat
      BY <1>1
    <3>4. claimEvents'[i] <= ops
      <4> DEFINE y == claimEvents'[i]
      <4> HIDE DEF y
      <4>1. y \in 1 .. ops
        BY <3>2 DEF y
      <4>2. y <= ops
        BY <3>3, <4>1
      <4> QED
        BY <4>2 DEF y
    <3> QED
      BY <3>1, <3>4
  <2> QED
    BY <2>2, <2>3
<1> QED
  BY <1>1, <1>2, <1>3, <1>4, <1>6 DEF EventsFollow

LEMMA FlushKeeps ==
    ASSUME JournalInv, NEW a \in Agent, agent[a].at = "flush",
           AppendEvents(a) \/ AppendFails(a) \/ AgentDies(a)
    PROVE  JournalInv'
<1>1. /\ AgentBusy(a) /\ UNCHANGED <<board, ops>> /\ JournalAgents' = JournalAgents
      /\ agent[a] \in JournalAgents
  BY JournalParts DEF AppendEvents, AppendFails, AgentDies, AgentBusy, JournalAgents
<1>2. /\ agent[a].op = ops /\ ops \in 1 .. MaxOps /\ ops \notin returned
      /\ \/ ops \in ToSet(board) /\ ToSet(agent[a].pending) = {ops}
         \/ ops \notin ToSet(board) /\ agent[a].pending = <<>>
      /\ agent[a].pending \in Seq(1 .. ops)
  BY <1>1, JournalParts DEF WorkInPlace
<1>3. PICK r \in JournalAgents : r.at = "idle" /\ agent' = [agent EXCEPT ![a] = r]
  <2>1. Idle \in JournalAgents /\ Idle.at = "idle"
    BY <1>2, EmptySeq DEF Idle, JournalAgents
  <2>2. [agent[a] EXCEPT !.at = "idle"] \in JournalAgents
    BY <1>1 DEF JournalAgents
  <2>3. [agent[a] EXCEPT !.at = "idle"].at = "idle"
    BY <1>1 DEF JournalAgents
  <2> QED
    BY <2>1, <2>2, <2>3 DEF AppendEvents, AppendFails, AgentDies
<1>4. /\ agent' \in [Agent -> JournalAgents] /\ agent'[a] = r /\ OneAtWork'
      /\ \A b \in Agent : b # a => WorkInPlace(b)'
      /\ Flushing = {a} /\ Flushing' = {}
  BY <1>1, <1>3, OthersRest
<1>5. \A b \in Agent : WorkInPlace(b)'
  <2>1. WorkInPlace(a)'
    BY <1>3, <1>4 DEF WorkInPlace, AgentBusy
  <2> QED
    BY <1>4, <2>1
<1>6. Unspoken = (ToSet(board) \ ToSet(claimEvents)) \ {ops}
      /\ Unspoken' = ToSet(board) \ ToSet(claimEvents')
  <2>1. {agent[b].op : b \in Flushing} = {ops}
    BY <1>2, <1>4
  <2> QED
    BY <1>1, <1>4, <2>1 DEF Unspoken
<1>7. CASE AppendEvents(a)
  <2>1. /\ claimEvents' = claimEvents \o agent[a].pending /\ returned' = returned \cup {ops}
        /\ mishaps' = mishaps
    BY <1>2, <1>7 DEF AppendEvents
  <2>2. /\ claimEvents' \in Seq(1 .. ops)
        /\ ToSet(claimEvents') = ToSet(claimEvents) \cup ToSet(agent[a].pending)
        /\ ToSet(claimEvents') \subseteq ToSet(board)
        /\ \A i, j \in DOMAIN claimEvents' : i < j => claimEvents'[i] <= claimEvents'[j]
    BY <1>2, <2>1, EventsAdded
  <2>3. EventsFollow'
    BY <1>1, <1>2, <2>1, <2>2 DEF JournalInv, EventsFollow
  <2>4. JournalTypeOK'
    <3>1. returned' \subseteq 1 .. ops
      BY <1>2, <2>1, JournalParts
    <3> QED
      BY <1>1, <1>4, <2>1, <2>2, <3>1 DEF JournalInv, JournalTypeOK, JournalAgents
  <2>5. Unspoken' \subseteq Unspoken
    BY <1>2, <1>6, <2>2
  <2>6. UnspokenIsCaused'
    BY <2>1, <2>5, UnspokenShrinks, JournalParts
  <2> QED
    BY <1>4, <1>5, <2>3, <2>4, <2>6 DEF JournalInv
<1>8. CASE AppendFails(a) \/ AgentDies(a)
  <2>1. SomeEvents(a) /\ Mishap /\ returned' = returned
    BY <1>8 DEF AppendFails, AgentDies, AgentAt
  <2>2. PICK n \in 0 .. Len(agent[a].pending) :
          claimEvents' = claimEvents \o SubSeq(agent[a].pending, 1, n)
    BY <2>1 DEF SomeEvents
  <2> DEFINE s == SubSeq(agent[a].pending, 1, n)
  <2>3. s \in Seq(1 .. ops) /\ ToSet(s) \subseteq ToSet(agent[a].pending)
    BY <1>2, PrefixIsPart
  <2> HIDE DEF s
  <2>4. claimEvents' = claimEvents \o s
    BY <2>2 DEF s
  <2>5. /\ claimEvents' \in Seq(1 .. ops)
        /\ ToSet(claimEvents') = ToSet(claimEvents) \cup ToSet(s)
        /\ ToSet(claimEvents') \subseteq ToSet(board)
        /\ \A i, j \in DOMAIN claimEvents' : i < j => claimEvents'[i] <= claimEvents'[j]
    BY <2>3, <2>4, EventsAdded
  <2>6. EventsFollow'
    BY <1>1, <2>1, <2>5 DEF JournalInv, EventsFollow
  <2>7. mishaps \in Nat /\ mishaps' = mishaps + 1 /\ mishaps' \in 0 .. MaxMishaps
    BY <2>1, JournalParts DEF Mishap
  <2>8. JournalTypeOK'
    BY <1>1, <1>4, <2>1, <2>5, <2>7 DEF JournalInv, JournalTypeOK, JournalAgents
  <2>9. Unspoken' \subseteq Unspoken \cup {ops}
    BY <1>6, <2>5
  <2>10. UnspokenIsCaused'
    BY <2>7, <2>9, UnspokenByOne, JournalParts
  <2> QED
    BY <1>4, <1>5, <2>6, <2>8, <2>10 DEF JournalInv
<1> QED
  BY <1>7, <1>8

\* An agent that dies before it has replaced the board leaves the files as they are.
LEMMA EarlyDeathKeeps ==
    ASSUME JournalInv, NEW a \in Agent, agent[a].at # "flush", AgentDies(a)
    PROVE  JournalInv'
<1>1. /\ AgentBusy(a) /\ UNCHANGED <<board, claimEvents, ops, returned>>
      /\ JournalAgents' = JournalAgents /\ agent' = [agent EXCEPT ![a] = Idle]
  BY DEF AgentDies, AgentAt, AgentBusy, JournalAgents
<1>2. mishaps \in Nat /\ mishaps' \in 0 .. MaxMishaps /\ mishaps <= mishaps'
  BY JournalParts DEF AgentDies, Mishap
<1>3. Idle \in JournalAgents /\ Idle.at = "idle"
  BY JournalParts, EmptySeq DEF Idle, JournalAgents
<1>4. /\ agent' \in [Agent -> JournalAgents] /\ agent'[a] = Idle /\ OneAtWork'
      /\ \A b \in Agent : b # a => WorkInPlace(b)'
      /\ Flushing = {} /\ Flushing' = {}
  BY <1>1, <1>3, OthersRest
<1>5. \A b \in Agent : WorkInPlace(b)'
  <2>1. WorkInPlace(a)'
    BY <1>3, <1>4 DEF WorkInPlace, AgentBusy
  <2> QED
    BY <1>4, <2>1
<1>6. JournalTypeOK'
  BY <1>1, <1>2, <1>4 DEF JournalInv, JournalTypeOK, JournalAgents
<1>7. EventsFollow'
  BY <1>1 DEF JournalInv, EventsFollow
<1>8. Unspoken' \subseteq Unspoken
  BY <1>1, <1>4 DEF Unspoken
<1>9. UnspokenIsCaused'
  BY <1>2, <1>8, UnspokenShrinks, JournalParts
<1> QED
  BY <1>4, <1>5, <1>6, <1>7, <1>9 DEF JournalInv

LEMMA JournalNextInv == JournalInv /\ [JournalNext]_journalVars => JournalInv'
<1> SUFFICES ASSUME JournalInv, [JournalNext]_journalVars PROVE JournalInv'
  OBVIOUS
<1>1. CASE UNCHANGED journalVars
  <2>1. UNCHANGED <<board, claimEvents, agent, ops, returned, mishaps>>
    BY <1>1 DEF journalVars
  <2>2. JournalTypeOK'
    BY <2>1 DEF JournalInv, JournalTypeOK
  <2>3. OneAtWork' /\ (\A a \in Agent : WorkInPlace(a)')
    BY <2>1 DEF JournalInv, OneAtWork, WorkInPlace, AgentBusy, OpDecided
  <2>4. EventsFollow'
    BY <2>1 DEF JournalInv, EventsFollow
  <2>5. UnspokenIsCaused'
    BY <2>1 DEF JournalInv, UnspokenIsCaused, Unspoken, Flushing, AgentAt
  <2> QED
    BY <2>2, <2>3, <2>4, <2>5 DEF JournalInv
<1>2. CASE JournalNext
  <2>1. PICK a \in Agent :
          \/ LockBoard(a) \/ Compute(a) \/ ComputeNothing(a) \/ RaiseClaimError(a)
          \/ ReplaceBoard(a) \/ ReplaceFails(a) \/ AppendEvents(a) \/ AppendFails(a)
          \/ AgentDies(a)
    BY <1>2 DEF JournalNext
  <2>2. AppendEvents(a) \/ AppendFails(a) => agent[a].at = "flush"
    BY DEF AppendEvents, AppendFails, AgentAt
  <2> QED
    <3>1. LockBoard(a) => JournalInv'
      BY LockKeeps
    <3>2. Compute(a) \/ ComputeNothing(a) \/ RaiseClaimError(a) => JournalInv'
      BY ComputeKeeps
    <3>3. ReplaceBoard(a) \/ ReplaceFails(a) => JournalInv'
      BY ReplaceKeeps
    <3>4. AppendEvents(a) \/ AppendFails(a) => JournalInv'
      BY <2>2, FlushKeeps
    <3>5. AgentDies(a) => JournalInv'
      BY FlushKeeps, EarlyDeathKeeps
    <3> QED
      BY <2>1, <3>1, <3>2, <3>3, <3>4, <3>5
<1> QED
  BY <1>1, <1>2

\* Every variable of the claim journal keeps its type.
THEOREM JournalTypeCorrect == JournalSpec => []JournalTypeOK
<1>1. JournalInv => JournalTypeOK
  BY DEF JournalInv
<1> QED
  BY <1>1, JournalInitInv, JournalNextInv, PTL DEF JournalSpec

\* Contract rule 11 of the claim store, for any number of agents and operations: the events
\* are those of the board in its order, an operation that returned has its own, and those
\* that never tell of themselves are no more than the mishaps.
THEOREM JournalFollows == JournalSpec => []JournalFollowsBoard
<1>1. JournalInv => JournalFollowsBoard
  <2> SUFFICES ASSUME JournalInv PROVE JournalFollowsBoard
    OBVIOUS
  <2> DEFINE missing == ToSet(board) \ ToSet(claimEvents)
             ours == {agent[a].op : a \in Flushing}
  <2>1. /\ IsFiniteSet(Unspoken) /\ Cardinality(Unspoken) <= mishaps /\ Cardinality(Unspoken) \in Nat
        /\ mishaps \in Nat /\ Unspoken = missing \ ours
    BY FS_CardinalityType, JournalAssumption
       DEF JournalInv, UnspokenIsCaused, JournalTypeOK, Unspoken
  <2>2. EventsFollow
    BY DEF JournalInv
  <2>3. CASE Flushing = {}
    <3>1. missing = Unspoken
      BY <2>1, <2>3
    <3>2. Cardinality(Flushing) = 0
      BY <2>3, FS_EmptySet
    <3>3. Cardinality(missing) <= mishaps + Cardinality(Flushing)
      BY <2>1, <3>1, <3>2
    <3> QED
      BY <2>2, <3>3 DEF JournalFollowsBoard, EventsFollow
  <2>4. CASE Flushing # {}
    <3>1. PICK a \in Flushing : TRUE
      BY <2>4
    <3>2. Flushing = {a}
      BY <3>1 DEF JournalInv, OneAtWork, Flushing, AgentAt, AgentBusy
    <3>3. Cardinality(Flushing) = 1 /\ ours = {agent[a].op}
      BY <3>2, FS_Singleton
    <3>4. missing \subseteq Unspoken \cup {agent[a].op}
      BY <2>1, <3>3
    <3>5. IsFiniteSet(Unspoken \cup {agent[a].op}) /\ Cardinality(Unspoken \cup {agent[a].op}) <= Cardinality(Unspoken) + 1
      BY <2>1, AddsOne
    <3>6. /\ IsFiniteSet(missing) /\ Cardinality(missing) <= Cardinality(Unspoken \cup {agent[a].op})
      BY <3>4, <3>5, FS_Subset
    <3>7. Cardinality(missing) \in Nat /\ Cardinality(Unspoken \cup {agent[a].op}) \in Nat
      BY <3>5, <3>6, FS_CardinalityType
    <3>8. Cardinality(missing) <= mishaps + Cardinality(Flushing)
      BY <2>1, <3>3, <3>5, <3>6, <3>7
    <3> QED
      BY <2>2, <3>8 DEF JournalFollowsBoard, EventsFollow
  <2> QED
    BY <2>3, <2>4
<1> QED
  BY <1>1, JournalInitInv, JournalNextInv, PTL DEF JournalSpec
-----------------------------------------------------------------------------
(* The jobs of agents *)

EarlyPlaces == {"new", "patch", "settle", "look", "verify", "add", "commit"}
ReportPlaces == {"bind", "last", "replace", "journal", "status"}
JobRecords == [at : EarlyPlaces \cup ReportPlaces \cup {"done"},
               target : SourceFile \cup {NoFile}, named : BOOLEAN, former : Text,
               changed : SUBSET SourceFile, report : {"running", "ok", "failed"},
               blocked : BOOLEAN, raised : BOOLEAN]

JobTypes ==
    /\ agentJob \in [Job -> JobRecords]
    /\ worktree \in [SourceFile -> Text] /\ index \in [SourceFile -> Text]
    /\ head \in [SourceFile -> Text]
    /\ committed \subseteq Job /\ rewritten \subseteq SourceFile

RecordTypes ==
    /\ lastTmp \in BOOLEAN
    /\ statusFile \in [Job -> {"none", "running", "completed", "failed"}]
    /\ journal \in [Job -> {"none", "ok", "failed"}]
    /\ unjournaled \subseteq Job /\ met \subseteq Job /\ faults \in 0 .. MaxFaults

\* A job patches a file, and reports how it went.
ShapeOf(j) ==
    /\ agentJob[j].at \in {"patch", "settle"} => agentJob[j].target \in SourceFile
    /\ agentJob[j].at \in ReportPlaces => agentJob[j].report # "running"

\* A job that completed went through the journal, and its report is still the one there.
InJournal(j) ==
    /\ statusFile[j] = "completed" => JobAt(j, "done")
    /\ (~agentJob[j].raised /\ JobAt(j, "status")) \/ statusFile[j] = "completed"
         => j \in unjournaled \/ journal[j] = agentJob[j].report

\* A job raises after a write that failed, or without the temporary file, which another
\* job has renamed.
Excused(j) ==
    agentJob[j].raised \/ (JobAt(j, "replace") /\ ~lastTmp) => faults > 0 \/ j \in met

PublishersMet == \A j, q \in Job :
    j # q /\ JobAt(j, "replace") /\ JobAt(q, "replace") => j \in met /\ q \in met

ReportsAreTrue == PublishersMet /\ \A j \in Job : ShapeOf(j) /\ InJournal(j) /\ Excused(j)

\* What a job is about to add compiles, unless the file has changed since.
VerifiedCompiles == \A j \in Job : JobAt(j, "add") =>
    \A f \in agentJob[j].changed : worktree[f].compiles \/ f \in rewritten

IndexCompiles == \A f \in SourceFile : ~index[f].compiles => f \in rewritten

TreeIsTrue == VerifiedCompiles /\ IndexCompiles /\ CommittedCompiles

JobInv == JobTypes /\ RecordTypes /\ ReportsAreTrue /\ TreeIsTrue

LEMMA JobInitInv == JobInit => JobInv
<1> SUFFICES ASSUME JobInit PROVE JobInv
  OBVIOUS
<1>1. JobTypes
  BY DEF JobInit, JobTypes, JobRecords, EarlyPlaces, ReportPlaces, NewJob, Base, Text
<1>2. RecordTypes
  <2>1. lastTmp \in BOOLEAN
    BY DEF JobInit
  <2>2. faults \in 0 .. MaxFaults
    BY JobAssumption DEF JobInit
  <2> QED
    BY <2>1, <2>2 DEF JobInit, RecordTypes
<1>3. ReportsAreTrue
  BY DEF JobInit, ReportsAreTrue, PublishersMet, ShapeOf, InJournal, Excused, NewJob, JobAt,
         ReportPlaces
<1>4. TreeIsTrue
  BY DEF JobInit, TreeIsTrue, VerifiedCompiles, IndexCompiles, CommittedCompiles, NewJob, Base,
         JobAt
<1> QED
  BY <1>1, <1>2, <1>3, <1>4 DEF JobInv

\* Only job j goes on.
OneJob(j) ==
    /\ agentJob' \in [Job -> JobRecords]
    /\ \A q \in Job : q # j => agentJob'[q] = agentJob[q]

\* A step of the pipeline leaves what is reported alone.
PipelineStep(j) ==
    /\ agentJob[j].at \in EarlyPlaces
    /\ OneJob(j) /\ ShapeOf(j)'
    /\ agentJob'[j].at \in (EarlyPlaces \ {"new"}) \cup {"bind"}
    /\ agentJob'[j].raised => agentJob[j].raised
    /\ UNCHANGED <<lastTmp, journal, unjournaled, met, faults>>
    /\ statusFile' = statusFile \/ statusFile' = [statusFile EXCEPT ![j] = "running"]

LEMMA PipelineKeepsReports ==
    ASSUME JobInv, NEW j \in Job, PipelineStep(j)
    PROVE  RecordTypes' /\ ReportsAreTrue'
<1>1. RecordTypes'
  BY DEF JobInv, RecordTypes, PipelineStep
<1>2. statusFile'[j] # "completed" /\ \A q \in Job : q # j => statusFile'[q] = statusFile[q]
  BY DEF JobInv, RecordTypes, ReportsAreTrue, InJournal, PipelineStep, JobAt, EarlyPlaces
<1>3. ~JobAt(j, "replace")' /\ ~JobAt(j, "status")'
  BY DEF PipelineStep, JobAt, EarlyPlaces
<1>4. PublishersMet'
  BY <1>3 DEF JobInv, ReportsAreTrue, PublishersMet, PipelineStep, OneJob, JobAt
<1>5. ASSUME NEW q \in Job PROVE (ShapeOf(q) /\ InJournal(q) /\ Excused(q))'
  <2>1. CASE q = j
    <3>1. InJournal(j)'
      BY <1>2, <1>3 DEF InJournal
    <3>2. Excused(j)'
      BY <1>3 DEF JobInv, ReportsAreTrue, Excused, PipelineStep
    <3> QED
      BY <2>1, <3>1, <3>2 DEF PipelineStep
  <2>2. CASE q # j
    <3>1. ShapeOf(q) /\ InJournal(q) /\ Excused(q)
      BY DEF JobInv, ReportsAreTrue
    <3>2. agentJob'[q] = agentJob[q] /\ statusFile'[q] = statusFile[q]
      BY <1>2, <2>2 DEF PipelineStep, OneJob
    <3> QED
      BY <3>1, <3>2 DEF ShapeOf, InJournal, Excused, PipelineStep, JobAt
  <2> QED
    BY <2>1, <2>2
<1> QED
  BY <1>1, <1>4, <1>5 DEF ReportsAreTrue

\* A step that touches neither the tree nor what a job is about to add.
LEMMA TreeKept ==
    ASSUME JobInv, NEW j \in Job, OneJob(j), KeepTree,
           JobAt(j, "add")' => JobAt(j, "add") /\ agentJob'[j].changed = agentJob[j].changed
    PROVE  JobTypes' /\ TreeIsTrue'
<1>1. JobTypes'
  BY DEF JobInv, JobTypes, OneJob, KeepTree
<1>2. IndexCompiles' /\ CommittedCompiles'
  BY DEF JobInv, TreeIsTrue, IndexCompiles, CommittedCompiles, KeepTree
<1>3. VerifiedCompiles'
  BY DEF JobInv, TreeIsTrue, VerifiedCompiles, KeepTree, OneJob, JobAt
<1> QED
  BY <1>1, <1>2, <1>3 DEF TreeIsTrue

\* The steps of the pipeline that leave the tree as it is.
LEMMA PipelineOnlyKeeps ==
    ASSUME JobInv, NEW j \in Job,
           StartJob(j) \/ RefuseJob(j) \/ PatchNothing(j) \/ LookAtTree(j) \/ GitFails(j)
    PROVE  JobInv'
<1>1. agentJob[j] \in JobRecords /\ agentJob \in [Job -> JobRecords] /\ ShapeOf(j) /\ KeepTree
  BY DEF JobInv, JobTypes, ReportsAreTrue, StartJob, RefuseJob, PatchNothing, LookAtTree, GitFails
<1>2. PipelineStep(j) /\ ~JobAt(j, "add")'
  <2>1. CASE StartJob(j)
    <3>1. PICK f \in SourceFile, named \in BOOLEAN :
            agentJob' = [agentJob EXCEPT ![j].at = "patch", ![j].target = f, ![j].named = named]
      BY <2>1 DEF StartJob
    <3>2. OneJob(j) /\ agentJob'[j].at = "patch" /\ agentJob'[j].target = f
          /\ agentJob'[j].raised = agentJob[j].raised
      BY <1>1, <3>1 DEF OneJob, JobRecords, EarlyPlaces
    <3> QED
      BY <2>1, <3>2 DEF StartJob, PipelineStep, ShapeOf, JobAt, EarlyPlaces, ReportPlaces
  <2>2. CASE Reports(j, "failed") /\ KeepRecords /\ UNCHANGED faults /\ agentJob[j].at \in EarlyPlaces
    <3> DEFINE r == [NewJob EXCEPT !.at = "bind", !.report = "failed"]
    <3>1. r \in JobRecords /\ r.at = "bind" /\ r.report = "failed" /\ r.raised = FALSE
      BY DEF JobRecords, NewJob, Base, Text, ReportPlaces
    <3>2. agentJob' = [agentJob EXCEPT ![j] = r]
      BY <2>2 DEF Reports
    <3> HIDE DEF r
    <3>3. OneJob(j) /\ agentJob'[j] = r
      BY <1>1, <3>1, <3>2 DEF OneJob
    <3> QED
      BY <2>2, <3>1, <3>3 DEF PipelineStep, ShapeOf, KeepRecords, JobAt, EarlyPlaces, ReportPlaces
  <2>3. CASE PatchNothing(j)
    <3>1. OneJob(j) /\ agentJob'[j].at = "look" /\ agentJob'[j].raised = agentJob[j].raised
      BY <1>1, <2>3 DEF PatchNothing, JobGoes, OneJob, JobRecords, EarlyPlaces
    <3> QED
      BY <2>3, <3>1 DEF PatchNothing, PipelineStep, ShapeOf, KeepRecords, JobAt, EarlyPlaces,
                        ReportPlaces
  <2>4. CASE \E seen \in SUBSET SourceFile :
                /\ JobAt(j, "look") /\ KeepRecords /\ UNCHANGED faults
                /\ agentJob' = [agentJob EXCEPT ![j].at = "verify", ![j].changed = seen]
    <3>0. PICK seen \in SUBSET SourceFile :
            agentJob' = [agentJob EXCEPT ![j].at = "verify", ![j].changed = seen]
      BY <2>4
    <3>1. OneJob(j) /\ agentJob'[j].at = "verify" /\ agentJob'[j].raised = agentJob[j].raised
      BY <1>1, <3>0 DEF OneJob, JobRecords, EarlyPlaces
    <3> QED
      BY <2>4, <3>1 DEF PipelineStep, ShapeOf, KeepRecords, JobAt, EarlyPlaces, ReportPlaces
  <2>5. RefuseJob(j) => Reports(j, "failed") /\ KeepRecords /\ UNCHANGED faults
                        /\ agentJob[j].at \in EarlyPlaces
    BY DEF RefuseJob, JobAt, EarlyPlaces
  <2>6. GitFails(j) => Reports(j, "failed") /\ KeepRecords /\ UNCHANGED faults
                       /\ agentJob[j].at \in EarlyPlaces
    BY DEF GitFails, JobAt, EarlyPlaces
  <2>7. CASE LookAtTree(j)
    <3> DEFINE seen == {f \in Uncommitted : agentJob[j].named => f = agentJob[j].target}
    <3>1. seen \in SUBSET SourceFile
      BY DEF Uncommitted
    <3>2. CASE seen = {}
      BY <2>2, <2>7, <3>2 DEF LookAtTree, JobAt, EarlyPlaces
    <3>3. CASE seen # {}
      BY <2>4, <2>7, <3>1, <3>3 DEF LookAtTree
    <3> QED
      BY <3>2, <3>3
  <2> QED
    BY <2>1, <2>2, <2>3, <2>5, <2>6, <2>7
<1>3. JobTypes' /\ TreeIsTrue'
  BY <1>1, <1>2, TreeKept DEF PipelineStep
<1> QED
  BY <1>2, <1>3, PipelineKeepsReports DEF JobInv

\* A verification finds every file whole, and what compiles now does until it changes.
LEMMA VerifyKeeps == ASSUME JobInv, NEW j \in Job, VerifyFiles(j) PROVE JobInv'
<1>1. /\ agentJob[j] \in JobRecords /\ agentJob \in [Job -> JobRecords] /\ ShapeOf(j)
      /\ KeepTree /\ KeepRecords /\ UNCHANGED faults /\ JobAt(j, "verify")
  BY DEF JobInv, JobTypes, ReportsAreTrue, VerifyFiles
<1>2. CASE JobGoes(j, "add") /\ \A f \in agentJob[j].changed : worktree[f].compiles
  <2>1. /\ OneJob(j) /\ agentJob'[j].at = "add" /\ agentJob'[j].raised = agentJob[j].raised
        /\ agentJob'[j].changed = agentJob[j].changed
    BY <1>1, <1>2 DEF JobGoes, OneJob, JobRecords, EarlyPlaces
  <2>2. PipelineStep(j)
    BY <1>1, <2>1 DEF PipelineStep, ShapeOf, KeepRecords, JobAt, EarlyPlaces, ReportPlaces
  <2>3. TreeIsTrue'
    BY <1>1, <1>2, <2>1
       DEF JobInv, TreeIsTrue, VerifiedCompiles, IndexCompiles, CommittedCompiles, KeepTree,
           OneJob, JobAt
  <2>4. JobTypes'
    BY <1>1, <2>1 DEF JobInv, JobTypes, OneJob, KeepTree
  <2> QED
    BY <2>2, <2>3, <2>4, PipelineKeepsReports DEF JobInv
<1>3. CASE Reports(j, "failed")
  <2> DEFINE r == [NewJob EXCEPT !.at = "bind", !.report = "failed"]
  <2>2. r \in JobRecords /\ r.at = "bind" /\ r.report = "failed" /\ r.raised = FALSE
    BY DEF JobRecords, NewJob, Base, Text, ReportPlaces
  <2>3. agentJob' = [agentJob EXCEPT ![j] = r]
    BY <1>3 DEF Reports
  <2> HIDE DEF r
  <2>4. OneJob(j) /\ agentJob'[j] = r
    BY <1>1, <2>2, <2>3 DEF OneJob
  <2>5. PipelineStep(j) /\ ~JobAt(j, "add")'
    BY <1>1, <2>2, <2>4
       DEF PipelineStep, ShapeOf, KeepRecords, JobAt, EarlyPlaces, ReportPlaces
  <2> QED
    BY <1>1, <2>4, <2>5, TreeKept, PipelineKeepsReports DEF JobInv
<1> QED
  BY <1>2, <1>3 DEF VerifyFiles

\* A text that is written while another job is about to add the file is a rewritten one.
LEMMA RewritesCover ==
    ASSUME JobInv, NEW j \in Job, NEW f \in SourceFile, OneJob(j),
           worktree' \in [SourceFile -> Text],
           \A g \in SourceFile : g # f => worktree'[g] = worktree[g],
           Rewrites(j, f), ~JobAt(j, "add")', UNCHANGED <<index, head, committed>>
    PROVE  JobTypes' /\ TreeIsTrue'
<1>1. /\ rewritten \subseteq rewritten' /\ rewritten' \subseteq SourceFile
      /\ \A q \in Job : q # j /\ JobAt(q, "add") /\ f \in agentJob[q].changed => f \in rewritten'
  BY DEF Rewrites, JobInv, JobTypes
<1>2. JobTypes'
  BY <1>1 DEF JobInv, JobTypes, OneJob
<1>3. IndexCompiles' /\ CommittedCompiles'
  BY <1>1 DEF JobInv, TreeIsTrue, IndexCompiles, CommittedCompiles
<1>4. VerifiedCompiles'
  <2> SUFFICES ASSUME NEW q \in Job, JobAt(q, "add")', NEW g \in agentJob'[q].changed
               PROVE  worktree'[g].compiles \/ g \in rewritten'
    BY DEF VerifiedCompiles
  <2>1. q # j /\ agentJob'[q] = agentJob[q] /\ JobAt(q, "add")
    BY DEF OneJob, JobAt
  <2>2. g \in SourceFile /\ (worktree[g].compiles \/ g \in rewritten)
    BY <2>1 DEF JobInv, JobTypes, JobRecords, TreeIsTrue, VerifiedCompiles
  <2>3. CASE g = f
    BY <1>1, <2>1, <2>3
  <2>4. CASE g # f
    BY <1>1, <2>2, <2>4
  <2> QED
    BY <2>3, <2>4
<1> QED
  BY <1>2, <1>3, <1>4 DEF TreeIsTrue

LEMMA PatchKeeps ==
    ASSUME JobInv, NEW j \in Job, PatchFile(j) \/ PatchSettles(j) PROVE JobInv'
<1>1. /\ agentJob[j] \in JobRecords /\ agentJob \in [Job -> JobRecords]
      /\ worktree \in [SourceFile -> Text] /\ agentJob[j].at \in {"patch", "settle"}
      /\ agentJob[j].target \in SourceFile
      /\ KeepRecords /\ UNCHANGED <<index, head, committed, faults>>
  BY DEF JobInv, JobTypes, ReportsAreTrue, ShapeOf, PatchFile, PatchSettles, JobAt
<1> DEFINE f == agentJob[j].target
<1>2. /\ OneJob(j) /\ agentJob'[j].at \in {"settle", "look"} /\ agentJob'[j].target = f
      /\ agentJob'[j].raised = agentJob[j].raised
  <2>1. CASE PatchFile(j)
    BY <1>1, <2>1 DEF PatchFile, OneJob, JobRecords, EarlyPlaces
  <2>2. CASE PatchSettles(j)
    BY <1>1, <2>2 DEF PatchSettles, OneJob, JobRecords, EarlyPlaces, Base, Text
  <2> QED
    BY <2>1, <2>2
<1>3. PipelineStep(j) /\ ~JobAt(j, "add")'
  BY <1>1, <1>2 DEF PipelineStep, ShapeOf, KeepRecords, JobAt, EarlyPlaces, ReportPlaces
<1>4. JobTypes' /\ TreeIsTrue'
  <2>1. CASE UNCHANGED <<worktree, rewritten>>
    BY <1>1, <1>2, <1>3, <2>1, TreeKept DEF KeepTree
  <2>2. CASE \E text \in Text : worktree' = [worktree EXCEPT ![f] = text] /\ Rewrites(j, f)
    <3>1. /\ worktree' \in [SourceFile -> Text] /\ Rewrites(j, f)
          /\ \A g \in SourceFile : g # f => worktree'[g] = worktree[g]
      BY <1>1, <2>2
    <3> QED
      BY <1>1, <1>2, <1>3, <3>1, RewritesCover
  <2>3. PatchFile(j) => \E text \in Text : worktree' = [worktree EXCEPT ![f] = text]
                                            /\ Rewrites(j, f)
    BY DEF PatchFile, Text
  <2>4. agentJob[j].former \in Text
    BY <1>1 DEF JobRecords
  <2> QED
    BY <2>1, <2>2, <2>3, <2>4 DEF PatchSettles
<1> QED
  BY <1>3, <1>4, PipelineKeepsReports DEF JobInv

LEMMA AddKeeps == ASSUME JobInv, NEW j \in Job, AddFile(j) PROVE JobInv'
<1>1. PICK f \in agentJob[j].changed :
        /\ index' = [index EXCEPT ![f] = worktree[f]]
        /\ agentJob' = [agentJob EXCEPT ![j].changed = @ \ {f},
                              ![j].at = IF agentJob[j].changed = {f} THEN "commit" ELSE "add"]
  BY DEF AddFile
<1>2. /\ agentJob[j] \in JobRecords /\ agentJob \in [Job -> JobRecords] /\ JobAt(j, "add")
      /\ f \in SourceFile /\ (worktree[f].compiles \/ f \in rewritten)
      /\ KeepRecords /\ UNCHANGED <<worktree, head, committed, rewritten, faults>>
  BY <1>1 DEF JobInv, JobTypes, JobRecords, TreeIsTrue, VerifiedCompiles, AddFile
<1>3. /\ OneJob(j) /\ agentJob'[j].at \in {"commit", "add"}
      /\ agentJob'[j].changed \subseteq agentJob[j].changed
      /\ agentJob'[j].raised = agentJob[j].raised
  BY <1>1, <1>2 DEF OneJob, JobRecords, EarlyPlaces
<1>4. PipelineStep(j)
  BY <1>2, <1>3 DEF PipelineStep, ShapeOf, KeepRecords, JobAt, EarlyPlaces, ReportPlaces
<1>5. JobTypes'
  BY <1>1, <1>2, <1>3 DEF JobInv, JobTypes, OneJob
<1>6. VerifiedCompiles'
  BY <1>2, <1>3 DEF JobInv, TreeIsTrue, VerifiedCompiles, OneJob, JobAt
<1>7. IndexCompiles' /\ CommittedCompiles'
  <2>1. \A g \in SourceFile : index'[g] = IF g = f THEN worktree[f] ELSE index[g]
    BY <1>1, <1>2 DEF JobInv, JobTypes
  <2> QED
    BY <1>2, <2>1 DEF JobInv, TreeIsTrue, IndexCompiles, CommittedCompiles
<1> QED
  BY <1>4, <1>5, <1>6, <1>7, PipelineKeepsReports DEF JobInv, TreeIsTrue

LEMMA CommitKeeps == ASSUME JobInv, NEW j \in Job, CommitIndex(j) PROVE JobInv'
<1> DEFINE r == [NewJob EXCEPT !.at = "bind", !.report = "ok"]
<1>1. /\ agentJob[j] \in JobRecords /\ agentJob \in [Job -> JobRecords] /\ JobAt(j, "commit")
      /\ agentJob' = [agentJob EXCEPT ![j] = r]
      /\ head' = index /\ committed' = committed \cup {j}
      /\ KeepRecords /\ UNCHANGED <<worktree, index, rewritten, faults>>
  BY DEF JobInv, JobTypes, CommitIndex, Reports
<1>2. r \in JobRecords /\ r.at = "bind" /\ r.report = "ok" /\ r.raised = FALSE
  BY DEF JobRecords, NewJob, Base, Text, ReportPlaces
<1> HIDE DEF r
<1>3. OneJob(j) /\ agentJob'[j] = r
  BY <1>1, <1>2 DEF OneJob
<1>4. PipelineStep(j)
  BY <1>1, <1>2, <1>3 DEF PipelineStep, ShapeOf, KeepRecords, JobAt, EarlyPlaces, ReportPlaces
<1>5. JobTypes' /\ TreeIsTrue'
  BY <1>1, <1>2, <1>3
     DEF JobInv, JobTypes, TreeIsTrue, VerifiedCompiles, IndexCompiles, CommittedCompiles,
         OneJob, JobAt
<1> QED
  BY <1>4, <1>5, PipelineKeepsReports DEF JobInv

\* A step of the report: where it leads, and what it leaves in the records.
ReportStep(j) ==
    /\ agentJob[j].at \in ReportPlaces
    /\ OneJob(j) /\ KeepTree
    /\ agentJob'[j].at \in {"last", "replace", "journal", "status", "done"}
    /\ agentJob'[j].report # "running"

\* The records of the other jobs stay as they are.
OthersRecorded(j) ==
    /\ \A q \in Job : q # j => statusFile'[q] = statusFile[q] /\ journal'[q] = journal[q]
    /\ unjournaled \subseteq unjournaled' /\ met \subseteq met' /\ faults <= faults'

\* Jobs that wait to rename the file they share: with the file there, or met.
ReplacersAreSafe ==
    /\ PublishersMet'
    /\ \A q \in Job : JobAt(q, "replace")' /\ ~lastTmp' => faults' > 0 \/ q \in met'

LEMMA ReportKeeps ==
    ASSUME JobInv, NEW j \in Job, ReportStep(j), OthersRecorded(j), RecordTypes',
           InJournal(j)', agentJob'[j].raised => faults' > 0 \/ j \in met', ReplacersAreSafe
    PROVE  JobInv'
<1>1. JobTypes' /\ TreeIsTrue'
  BY TreeKept DEF ReportStep, JobAt
<1>2. ASSUME NEW q \in Job PROVE (ShapeOf(q) /\ InJournal(q) /\ Excused(q))'
  <2>1. Excused(q)'
    <3>1. CASE q = j
      BY <3>1 DEF Excused, ReplacersAreSafe
    <3>2. CASE q # j
      <4>1. agentJob'[q] = agentJob[q] /\ Excused(q) /\ faults \in Nat /\ faults' \in Nat
        BY <3>2, JobAssumption DEF JobInv, RecordTypes, ReportsAreTrue, ReportStep, OneJob
      <4>2. CASE agentJob[q].raised
        BY <4>1, <4>2 DEF Excused, OthersRecorded
      <4>3. CASE ~agentJob[q].raised
        BY <4>1, <4>3 DEF Excused, ReplacersAreSafe
      <4> QED
        BY <4>2, <4>3
    <3> QED
      BY <3>1, <3>2
  <2>2. CASE q = j
    BY <2>1, <2>2 DEF ReportStep, ShapeOf, ReportPlaces
  <2>3. CASE q # j
    <3>1. /\ agentJob'[q] = agentJob[q] /\ statusFile'[q] = statusFile[q]
          /\ journal'[q] = journal[q] /\ ShapeOf(q) /\ InJournal(q)
      BY <2>3 DEF JobInv, ReportsAreTrue, ReportStep, OneJob, OthersRecorded
    <3>2. ShapeOf(q)' /\ InJournal(q)'
      BY <3>1 DEF ShapeOf, InJournal, JobAt, OthersRecorded
    <3> QED
      BY <2>1, <3>2
  <2> QED
    BY <2>2, <2>3
<1> QED
  BY <1>1, <1>2 DEF JobInv, ReportsAreTrue, ReplacersAreSafe

\* No other job comes to the rename of the temporary file in this step.
LEMMA NobodyReplaces ==
    ASSUME JobInv, NEW j \in Job, ReportStep(j), OthersRecorded(j), RecordTypes',
           ~JobAt(j, "replace")', lastTmp' = lastTmp
    PROVE  ReplacersAreSafe
<1>1. \A q \in Job : JobAt(q, "replace")' => q # j /\ JobAt(q, "replace")
  BY DEF ReportStep, OneJob, JobAt
<1>2. PublishersMet'
  BY <1>1 DEF JobInv, ReportsAreTrue, PublishersMet, OthersRecorded
<1>3. faults \in Nat /\ faults' \in Nat
  BY JobAssumption DEF JobInv, RecordTypes
<1> QED
  BY <1>1, <1>2, <1>3
     DEF JobInv, ReportsAreTrue, Excused, OthersRecorded, ReplacersAreSafe

LEMMA RaisesKeeps ==
    ASSUME JobInv, NEW j \in Job, agentJob[j].at \in ReportPlaces, Raises(j),
           \/ UNCHANGED faults /\ j \in met
           \/ faults' = faults + 1 /\ faults' \in 0 .. MaxFaults
           \/ UNCHANGED faults /\ faults > 0
    PROVE  JobInv'
<1>1. /\ agentJob[j] \in JobRecords /\ agentJob \in [Job -> JobRecords]
      /\ KeepTree /\ UNCHANGED <<lastTmp, statusFile, journal, unjournaled, met>>
      /\ faults \in Nat /\ faults' \in Nat /\ faults <= faults' /\ (faults' > 0 \/ j \in met)
  BY JobAssumption DEF JobInv, JobTypes, RecordTypes, Raises
<1>2. /\ OneJob(j) /\ agentJob'[j].at \in {"done", "journal"}
      /\ agentJob'[j].raised = TRUE /\ agentJob'[j].report = "failed"
  BY <1>1 DEF Raises, OneJob, JobRecords, ReportPlaces
<1>3. ReportStep(j) /\ OthersRecorded(j)
  BY <1>1, <1>2 DEF ReportStep, OthersRecorded
<1>4. faults' \in 0 .. MaxFaults
  BY DEF JobInv, RecordTypes
<1>5. RecordTypes'
  BY <1>1, <1>4, Zenon DEF JobInv, RecordTypes
<1>6. InJournal(j)'
  BY <1>1, <1>2 DEF JobInv, ReportsAreTrue, InJournal, JobAt, ReportPlaces
<1>7. ReplacersAreSafe
  BY <1>1, <1>2, <1>3, <1>5, NobodyReplaces DEF JobAt
<1> QED
  BY <1>1, <1>3, <1>5, <1>6, <1>7, ReportKeeps

LEMMA RaisedKeeps ==
    ASSUME JobInv, NEW j \in Job, ReplaceMissing(j) \/ WriteRaises(j) PROVE JobInv'
<1>1. agentJob[j].at \in ReportPlaces /\ Raises(j)
  BY DEF ReplaceMissing, WriteRaises, JobAt, ReportPlaces
<1>2. CASE ReplaceMissing(j)
  BY <1>1, <1>2, RaisesKeeps DEF ReplaceMissing, JobInv, ReportsAreTrue, Excused
<1>3. CASE WriteRaises(j)
  <2>1. faults' = faults + 1 /\ faults' \in 0 .. MaxFaults
    BY <1>3, JobAssumption DEF WriteRaises, Fault, JobInv, RecordTypes
  <2> QED
    BY <1>1, <2>1, RaisesKeeps
<1> QED
  BY <1>2, <1>3

LEMMA BindKeeps == ASSUME JobInv, NEW j \in Job, BindReport(j) PROVE JobInv'
<1>1. PICK blocked \in BOOLEAN :
        agentJob' = [agentJob EXCEPT ![j].at = "last", ![j].blocked = blocked,
                           ![j].report = IF blocked /\ @ = "ok" THEN "failed" ELSE @]
  BY DEF BindReport
<1>2. /\ agentJob[j] \in JobRecords /\ agentJob \in [Job -> JobRecords] /\ JobAt(j, "bind")
      /\ agentJob[j].report # "running" /\ KeepTree /\ KeepRecords /\ UNCHANGED faults
      /\ faults \in Nat
  BY JobAssumption
     DEF JobInv, JobTypes, RecordTypes, ReportsAreTrue, ShapeOf, BindReport, JobAt, ReportPlaces
<1>3. /\ OneJob(j) /\ agentJob'[j].at = "last" /\ agentJob'[j].report # "running"
      /\ agentJob'[j].raised = agentJob[j].raised
  BY <1>1, <1>2 DEF OneJob, JobRecords, ReportPlaces
<1>4. ReportStep(j) /\ OthersRecorded(j) /\ RecordTypes'
  BY <1>2, <1>3 DEF ReportStep, OthersRecorded, KeepRecords, JobInv, RecordTypes, JobAt,
                    ReportPlaces
<1>5. InJournal(j)' /\ (agentJob'[j].raised => faults' > 0 \/ j \in met')
  BY <1>2, <1>3 DEF JobInv, ReportsAreTrue, InJournal, Excused, KeepRecords, JobAt
<1>6. ReplacersAreSafe
  BY <1>2, <1>3, <1>4, NobodyReplaces DEF KeepRecords, JobAt
<1> QED
  BY <1>4, <1>5, <1>6, ReportKeeps

\* Of two jobs that wait for the rename both have met the other.
LEMMA WriteTmpKeeps == ASSUME JobInv, NEW j \in Job, WriteTmp(j) PROVE JobInv'
<1> DEFINE others == {q \in Job : JobAt(q, "replace")}
<1>1. /\ agentJob[j] \in JobRecords /\ agentJob \in [Job -> JobRecords] /\ JobAt(j, "last")
      /\ agentJob[j].report # "running" /\ KeepTree /\ lastTmp' = TRUE
      /\ UNCHANGED <<statusFile, journal, unjournaled, faults>> /\ faults \in Nat
      /\ JobGoes(j, "replace")
  BY JobAssumption
     DEF JobInv, JobTypes, RecordTypes, ReportsAreTrue, ShapeOf, WriteTmp, JobAt, ReportPlaces
<1>2. /\ OneJob(j) /\ agentJob'[j].at = "replace" /\ agentJob'[j].report # "running"
      /\ agentJob'[j].raised = agentJob[j].raised
  BY <1>1 DEF OneJob, JobRecords, JobGoes, ReportPlaces
<1>3. /\ met \subseteq met' /\ met' \subseteq Job
      /\ others # {} => others \subseteq met' /\ j \in met'
  BY DEF WriteTmp, JobInv, RecordTypes
<1>4. ReportStep(j) /\ OthersRecorded(j)
  BY <1>1, <1>2, <1>3 DEF ReportStep, OthersRecorded, JobAt, ReportPlaces
<1>5. RecordTypes'
  BY <1>1, <1>3, Zenon DEF JobInv, RecordTypes
<1>6. InJournal(j)' /\ (agentJob'[j].raised => faults' > 0 \/ j \in met')
  BY <1>1, <1>2, <1>3 DEF JobInv, ReportsAreTrue, InJournal, Excused, JobAt
<1>7. PublishersMet'
  <2>1. \A q \in Job : q # j /\ JobAt(q, "replace")' => q \in others
    BY <1>2 DEF OneJob, JobAt
  <2>2. \A q \in Job : q # j /\ JobAt(q, "replace")' => q \in met' /\ j \in met'
    BY <1>3, <2>1
  <2>3. \A p, q \in Job : p # q => p # j \/ q # j
    OBVIOUS
  <2> QED
    BY <1>2, <1>3, <2>1, <2>2 DEF PublishersMet, JobInv, ReportsAreTrue, JobAt, OneJob
<1>8. ReplacersAreSafe
  BY <1>1, <1>7 DEF ReplacersAreSafe
<1> QED
  BY <1>4, <1>5, <1>6, <1>8, ReportKeeps

LEMMA ReplaceLastKeeps == ASSUME JobInv, NEW j \in Job, ReplaceLast(j) PROVE JobInv'
<1>1. /\ agentJob[j] \in JobRecords /\ agentJob \in [Job -> JobRecords] /\ JobAt(j, "replace")
      /\ agentJob[j].report # "running" /\ KeepTree /\ lastTmp' = FALSE
      /\ UNCHANGED <<statusFile, journal, unjournaled, met, faults>> /\ faults \in Nat
      /\ JobGoes(j, IF agentJob[j].raised THEN "status" ELSE "journal")
  BY JobAssumption
     DEF JobInv, JobTypes, RecordTypes, ReportsAreTrue, ShapeOf, ReplaceLast, Follow, JobAt,
         ReportPlaces
<1>2. /\ OneJob(j) /\ agentJob'[j].at = IF agentJob[j].raised THEN "status" ELSE "journal"
      /\ agentJob'[j].report # "running" /\ agentJob'[j].raised = agentJob[j].raised
  BY <1>1 DEF OneJob, JobRecords, JobGoes, ReportPlaces
<1>3. ReportStep(j) /\ OthersRecorded(j)
  BY <1>1, <1>2 DEF ReportStep, OthersRecorded, JobAt, ReportPlaces
<1>4. RecordTypes'
  BY <1>1, Zenon DEF JobInv, RecordTypes
<1>5. InJournal(j)' /\ (agentJob'[j].raised => faults' > 0 \/ j \in met')
  BY <1>1, <1>2 DEF JobInv, ReportsAreTrue, InJournal, Excused, JobAt
<1>6. \A q \in Job : JobAt(q, "replace")' => q # j /\ JobAt(q, "replace") /\ q \in met
  BY <1>1, <1>2 DEF OneJob, JobAt, JobInv, ReportsAreTrue, PublishersMet
<1>7. ReplacersAreSafe
  BY <1>1, <1>6 DEF ReplacersAreSafe, PublishersMet
<1> QED
  BY <1>3, <1>4, <1>5, <1>7, ReportKeeps

LEMMA AppendJournalKeeps == ASSUME JobInv, NEW j \in Job, AppendJournal(j) PROVE JobInv'
<1>1. /\ agentJob[j] \in JobRecords /\ agentJob \in [Job -> JobRecords] /\ JobAt(j, "journal")
      /\ agentJob[j].report \in {"ok", "failed"} /\ KeepTree
      /\ UNCHANGED <<lastTmp, statusFile, met>> /\ faults \in Nat
      /\ JobGoes(j, IF agentJob[j].raised THEN "last" ELSE "status")
  BY JobAssumption
     DEF JobInv, JobTypes, RecordTypes, ReportsAreTrue, ShapeOf, AppendJournal, Follow, JobAt,
         ReportPlaces, JobRecords
<1>2. /\ OneJob(j) /\ agentJob'[j].at = IF agentJob[j].raised THEN "last" ELSE "status"
      /\ agentJob'[j].report = agentJob[j].report /\ agentJob'[j].raised = agentJob[j].raised
  BY <1>1 DEF OneJob, JobRecords, JobGoes, ReportPlaces
<1>3. \/ /\ journal' = [journal EXCEPT ![j] = agentJob[j].report]
         /\ UNCHANGED <<unjournaled, faults>>
      \/ Fault /\ unjournaled' = unjournaled \cup {j} /\ UNCHANGED journal
  BY DEF AppendJournal
<1>4. faults' \in 0 .. MaxFaults /\ faults <= faults'
  BY <1>1, <1>3, JobAssumption DEF Fault, JobInv, RecordTypes
<1>5. /\ journal' \in [Job -> {"none", "ok", "failed"}] /\ unjournaled' \subseteq Job
      /\ unjournaled \subseteq unjournaled' /\ \A q \in Job : q # j => journal'[q] = journal[q]
      /\ j \in unjournaled' \/ journal'[j] = agentJob[j].report
  BY <1>1, <1>3 DEF JobInv, RecordTypes
<1>6. RecordTypes'
  BY <1>1, <1>4, <1>5, Zenon DEF JobInv, RecordTypes
<1>7. ReportStep(j) /\ OthersRecorded(j)
  BY <1>1, <1>2, <1>4, <1>5 DEF ReportStep, OthersRecorded, JobAt, ReportPlaces
<1>8. InJournal(j)'
  BY <1>1, <1>2, <1>5 DEF JobInv, ReportsAreTrue, InJournal, JobAt
<1>9. agentJob'[j].raised => faults' > 0 \/ j \in met'
  <2>1. agentJob[j].raised => faults > 0 \/ j \in met
    BY DEF JobInv, ReportsAreTrue, Excused
  <2>2. faults > 0 => faults' > 0
    BY <1>1, <1>4, JobAssumption
  <2> QED
    BY <1>1, <1>2, <2>1, <2>2
<1>10. ReplacersAreSafe
  BY <1>1, <1>2, <1>6, <1>7, NobodyReplaces DEF JobAt
<1> QED
  BY <1>6, <1>7, <1>8, <1>9, <1>10, ReportKeeps

LEMMA PublishKeeps == ASSUME JobInv, NEW j \in Job, PublishStatus(j) PROVE JobInv'
<1>1. /\ agentJob[j] \in JobRecords /\ agentJob \in [Job -> JobRecords] /\ JobAt(j, "status")
      /\ agentJob[j].report # "running" /\ KeepTree
      /\ UNCHANGED <<lastTmp, journal, unjournaled, met, faults>> /\ faults \in Nat
      /\ JobGoes(j, "done") /\ statusFile' = [statusFile EXCEPT ![j] = Outcome(j)]
      /\ Outcome(j) \in {"completed", "failed"} /\ statusFile \in [Job -> {"none", "running", "completed", "failed"}]
      /\ Outcome(j) = "completed" => ~agentJob[j].raised
  BY JobAssumption
     DEF JobInv, JobTypes, RecordTypes, ReportsAreTrue, ShapeOf, PublishStatus, Follow, JobAt,
         ReportPlaces, Outcome
<1>2. /\ OneJob(j) /\ agentJob'[j].at = "done" /\ agentJob'[j].report = agentJob[j].report
      /\ agentJob'[j].raised = agentJob[j].raised
  BY <1>1 DEF OneJob, JobRecords, JobGoes, ReportPlaces
<1>3. /\ statusFile' \in [Job -> {"none", "running", "completed", "failed"}]
      /\ \A q \in Job : q # j => statusFile'[q] = statusFile[q]
      /\ statusFile'[j] = Outcome(j)
  BY <1>1
<1>4. RecordTypes'
  BY <1>1, <1>3, Zenon DEF JobInv, RecordTypes
<1>5. ReportStep(j) /\ OthersRecorded(j)
  BY <1>1, <1>2, <1>3 DEF ReportStep, OthersRecorded, JobAt, ReportPlaces
<1>6. InJournal(j)' /\ (agentJob'[j].raised => faults' > 0 \/ j \in met')
  BY <1>1, <1>2, <1>3 DEF JobInv, ReportsAreTrue, InJournal, Excused, JobAt
<1>7. ReplacersAreSafe
  BY <1>1, <1>2, <1>4, <1>5, NobodyReplaces DEF JobAt
<1> QED
  BY <1>4, <1>5, <1>6, <1>7, ReportKeeps

\* Whatever a job was at, its report is what it was.
LEMMA BridgeDiesKeeps == ASSUME JobInv, BridgeDies PROVE JobInv'
<1>1. /\ agentJob \in [Job -> JobRecords] /\ faults \in Nat /\ faults' = faults + 1
      /\ faults' \in 0 .. MaxFaults
      /\ KeepTree /\ UNCHANGED <<lastTmp, statusFile, journal, unjournaled, met>>
  <2>1. faults \in 0 .. MaxFaults /\ faults < MaxFaults /\ faults' = faults + 1
    BY DEF JobInv, RecordTypes, BridgeDies, Fault
  <2>2. faults \in Nat /\ faults' \in 0 .. MaxFaults
    BY <2>1, JobAssumption
  <2> QED
    BY <2>1, <2>2 DEF JobInv, JobTypes, BridgeDies
<1>2. ASSUME NEW j \in Job
      PROVE  /\ agentJob'[j] \in JobRecords
             /\ agentJob'[j].at \in {"new", "done"}
             /\ agentJob[j].at = "done" => agentJob'[j].at = "done"
             /\ agentJob'[j].report = agentJob[j].report
  BY <1>1 DEF BridgeDies, JobRecords, NewJob, Base, Text, JobAt, EarlyPlaces, ReportPlaces
<1>3. agentJob' \in [Job -> JobRecords]
  <2>1. agentJob' = [j \in Job |-> agentJob'[j]]
    BY DEF BridgeDies
  <2> QED
    BY <1>2, <2>1
<1>4. JobTypes'
  BY <1>1, <1>3 DEF JobInv, JobTypes, KeepTree
<1>5. RecordTypes'
  BY <1>1, Zenon DEF JobInv, RecordTypes
<1>6. ReportsAreTrue'
  BY <1>1, <1>2
     DEF JobInv, ReportsAreTrue, PublishersMet, ShapeOf, InJournal, Excused, JobAt, ReportPlaces
<1>7. TreeIsTrue'
  BY <1>1, <1>2
     DEF JobInv, TreeIsTrue, VerifiedCompiles, IndexCompiles, CommittedCompiles, JobAt, KeepTree
<1> QED
  BY <1>4, <1>5, <1>6, <1>7 DEF JobInv

LEMMA JobNextInv == JobInv /\ [JobNext]_jobVars => JobInv'
<1> SUFFICES ASSUME JobInv, [JobNext]_jobVars PROVE JobInv'
  OBVIOUS
<1>1. CASE UNCHANGED jobVars
  BY <1>1 DEF jobVars, JobInv, JobTypes, RecordTypes, ReportsAreTrue, PublishersMet, ShapeOf,
              InJournal, Excused, TreeIsTrue, VerifiedCompiles, IndexCompiles,
              CommittedCompiles, JobAt
<1>2. CASE JobNext
  BY <1>2, PipelineOnlyKeeps, VerifyKeeps, PatchKeeps, AddKeeps, CommitKeeps, RaisedKeeps,
     BindKeeps, WriteTmpKeeps, ReplaceLastKeeps, AppendJournalKeeps, PublishKeeps,
     BridgeDiesKeeps DEF JobNext
<1> QED
  BY <1>1, <1>2

\* Every variable of the agents' jobs keeps its type.
THEOREM JobTypeCorrect == JobSpec => []JobTypeOK
<1>1. JobInv => JobTypeOK
  BY DEF JobInv, JobTypes, RecordTypes, JobTypeOK, JobRecords, EarlyPlaces, ReportPlaces
<1> QED
  BY <1>1, JobInitInv, JobNextInv, PTL DEF JobSpec

\* For any number of jobs, files, failures and deaths: who is told that a job completed
\* finds its report in the journal, a text that does not compile is committed only where
\* its file changed between a job's verification and its add, and a job that committed is
\* recorded as failed only after a failure or where another one published beside it.
THEOREM JobsTellTheTruth == JobSpec => []JobTellsTheTruth
<1>1. JobInv => JobTellsTheTruth
  <2> SUFFICES ASSUME JobInv PROVE JobTellsTheTruth
    OBVIOUS
  <2>1. JournalFirst
    BY DEF JobInv, ReportsAreTrue, InJournal, JournalFirst
  <2>2. FailedIsExcused
    BY DEF JobInv, JobTypes, ReportsAreTrue, Excused, FailedIsExcused
  <2> QED
    BY <2>1, <2>2 DEF JobInv, TreeIsTrue, JobTellsTheTruth
<1> QED
  BY <1>1, JobInitInv, JobNextInv, PTL DEF JobSpec

-----------------------------------------------------------------------------
(* The interpreter's voice *)

WorkerPlaces == {"pop", "popped", "synthesized", "clip", "face", "hold", "ending", "dead"}
LoopPlaces == {"listen", "drop", "stop", "join", "translate", "speak", "clip", "face", "hold",
               "rest", "kick", "over"}
VoiceRecords == [at : Places, of : 0 .. MaxTurns]

VoiceFlags == cancel \in BOOLEAN /\ givenUp \in BOOLEAN /\ broken \in BOOLEAN

VoiceTypes ==
    /\ turn \in 0 .. MaxTurns /\ planned \in Clips \cup {0}
    /\ voice \in [{Loop, ClipWorker} -> VoiceRecords]
    /\ voice[Loop].at \in LoopPlaces /\ voice[ClipWorker].at \in WorkerPlaces
    /\ pending \in Seq(1 .. MaxTurns)
    /\ said \in [1 .. MaxTurns -> Nat]

\* What is said or left to say is of this turn or a former one; before the interruption
\* is over, of a former one.
OfTurns ==
    /\ voice[Loop].at \in {"speak", "clip", "face", "hold", "rest"} => voice[Loop].of = turn
    /\ voice[Loop].at # "listen" => turn > 0
    /\ voice[ClipWorker].of <= turn
    /\ Interrupting => voice[ClipWorker].of < turn
    /\ \A i \in DOMAIN pending : pending[i] <= turn
    /\ Interrupting => \A i \in DOMAIN pending : pending[i] < turn
    /\ \A t \in 1 .. MaxTurns : t > turn \/ (Interrupting /\ t = turn) => said[t] = 0
    /\ voice[Loop].at \notin {"drop", "kick", "listen"} => pending = <<>>

LoopBusy ==
    voice[Loop].at \in {"translate", "speak", "clip", "face", "hold", "rest", "kick", "over"}

\* After an interruption that saw the worker end, the loop is alone until it leaves the
\* rest of the turn to a new one ...
LoopAlone == LoopBusy =>
    /\ ~WorkerAlive
    /\ voice[Loop].at \in {"translate", "speak", "clip"} => said[turn] = 0
    /\ voice[Loop].at \in {"face", "hold", "rest"} => said[turn] = 1
    /\ voice[Loop].at \in {"speak", "clip", "face", "hold", "rest", "kick"} => planned \in Clips
    /\ voice[Loop].at \in {"clip", "face", "hold", "rest", "kick"} => ~cancel
    /\ Voice(Loop, "kick") => /\ said[turn] + Len(pending) = planned
                              /\ \A i \in DOMAIN pending : pending[i] = turn

InHand == IF voice[ClipWorker].at \in {"popped", "synthesized", "clip"} THEN 1 ELSE 0

\* ... which has then to say all that is left, and nothing else.
RestLeft == Voice(Loop, "listen") =>
    /\ WorkerAlive => turn > 0 /\ ~cancel
    /\ \A i \in DOMAIN pending : pending[i] = turn
    /\ voice[ClipWorker].at \in {"popped", "synthesized", "clip", "face", "hold"}
          => voice[ClipWorker].of = turn
    /\ turn > 0 /\ ~broken => /\ said[turn] + Len(pending) + InHand = planned
                              /\ voice[ClipWorker].at \in {"ending", "dead"} => pending = <<>>

VoiceInv == VoiceFlags /\ VoiceTypes /\ OfTurns /\ (~givenUp => LoopAlone /\ RestLeft)

LEMMA VoiceInitInv == InterpreterInit => VoiceInv
<1> SUFFICES ASSUME InterpreterInit PROVE VoiceInv
  OBVIOUS
<1>1. /\ voice[Loop] = [at |-> "listen", of |-> 0] /\ voice[ClipWorker] = [at |-> "dead", of |-> 0]
      /\ voice \in [{Loop, ClipWorker} -> VoiceRecords]
  BY InterpreterAssumption DEF InterpreterInit, Loop, ClipWorker, VoiceRecords, Places
<1>2. VoiceFlags
  BY DEF InterpreterInit, VoiceFlags
<1>3. VoiceTypes
  BY <1>1, InterpreterAssumption, EmptySeq DEF InterpreterInit, VoiceTypes, LoopPlaces, WorkerPlaces
<1>4. OfTurns /\ LoopAlone /\ RestLeft
  BY <1>1, EmptySeq
     DEF InterpreterInit, OfTurns, LoopAlone, LoopBusy, RestLeft, Interrupting, Voice, WorkerAlive
<1> QED
  BY <1>2, <1>3, <1>4 DEF VoiceInv

\* A move of one of the two voices.
LEMMA VoiceMoves ==
    ASSUME VoiceTypes, NEW v \in {Loop, ClipWorker}, NEW place \in Places, Moves(v, place)
    PROVE  /\ voice' \in [{Loop, ClipWorker} -> VoiceRecords]
           /\ voice'[v].at = place /\ voice'[v].of = voice[v].of
           /\ \A w \in {Loop, ClipWorker} : w # v => voice'[w] = voice[w]
  BY DEF VoiceTypes, VoiceRecords, Moves

LEMMA TwoVoices == Loop # ClipWorker
  BY DEF Loop, ClipWorker

\* A new turn finds nothing said of it, and everything else older.
LEMMA TakeTurnKeeps == ASSUME VoiceInv, TakeTurn PROVE VoiceInv'
<1>1. /\ VoiceTypes /\ OfTurns /\ VoiceFlags /\ MaxTurns \in Nat
      /\ Voice(Loop, "listen") /\ turn < MaxTurns /\ turn' = turn + 1 /\ Moves(Loop, "drop")
      /\ UNCHANGED <<planned, said, pending, cancel, givenUp, broken>>
  BY InterpreterAssumption DEF VoiceInv, TakeTurn
<1>2. /\ voice' \in [{Loop, ClipWorker} -> VoiceRecords] /\ voice'[Loop].at = "drop"
      /\ voice'[ClipWorker] = voice[ClipWorker]
  BY <1>1, VoiceMoves, TwoVoices DEF Places
<1>3. VoiceFlags' /\ VoiceTypes'
  BY <1>1, <1>2 DEF VoiceFlags, VoiceTypes, LoopPlaces
<1>4. OfTurns'
  <2>1. turn \in Nat /\ voice[ClipWorker].of \in Nat /\ \A i \in DOMAIN pending : pending[i] \in Nat
    BY <1>1 DEF VoiceTypes, VoiceRecords
  <2> QED
    BY <1>1, <1>2, <2>1 DEF OfTurns, Interrupting, Voice
<1>5. LoopAlone' /\ RestLeft'
  BY <1>2 DEF LoopAlone, LoopBusy, RestLeft, Voice
<1> QED
  BY <1>3, <1>4, <1>5 DEF VoiceInv

\* The three steps of an interruption.
LEMMA InterruptKeeps ==
    ASSUME VoiceInv, DropPending \/ SetCancel \/ JoinWorker PROVE VoiceInv'
<1>1. /\ VoiceTypes /\ OfTurns /\ VoiceFlags /\ Interrupting
      /\ UNCHANGED <<turn, planned, said>>
      /\ \/ pending' = <<>> /\ Moves(Loop, "stop") /\ UNCHANGED <<cancel, givenUp, broken>>
         \/ cancel' = TRUE /\ Moves(Loop, "join") /\ UNCHANGED <<pending, givenUp, broken>>
              /\ ~Voice(Loop, "drop")
         \/ /\ givenUp' = WorkerAlive /\ broken' = FALSE /\ Moves(Loop, "translate")
            /\ UNCHANGED <<pending, cancel>> /\ ~Voice(Loop, "drop")
  BY DEF VoiceInv, DropPending, SetCancel, JoinWorker, Voice, Interrupting
<1>2. PICK place \in {"stop", "join", "translate"} :
        Moves(Loop, place) /\ (place = "translate" => givenUp' = WorkerAlive)
        /\ (pending' = <<>> \/ (pending' = pending /\ ~Voice(Loop, "drop")))
  BY <1>1
<1>3. /\ voice' \in [{Loop, ClipWorker} -> VoiceRecords] /\ voice'[Loop].at = place
      /\ voice'[ClipWorker] = voice[ClipWorker]
  BY <1>1, <1>2, VoiceMoves, TwoVoices DEF Places
<1>4. VoiceFlags'
  BY <1>1 DEF VoiceFlags, WorkerAlive, Voice
<1>5. pending' = <<>>
  BY <1>1, <1>2 DEF OfTurns, Interrupting, Voice
<1>6. VoiceTypes'
  BY <1>1, <1>3, <1>5, EmptySeq DEF VoiceTypes, LoopPlaces
<1>7. OfTurns'
  BY <1>1, <1>3, <1>5, EmptySeq DEF OfTurns, Interrupting
<1>8. ~givenUp' => LoopAlone' /\ RestLeft'
  <2>1. turn \in 1 .. MaxTurns /\ said[turn] = 0
    BY <1>1, InterpreterAssumption DEF OfTurns, Interrupting, VoiceTypes
  <2>2. place = "translate" /\ ~givenUp' => ~WorkerAlive'
    BY <1>2, <1>3 DEF WorkerAlive, Voice
  <2> QED
    BY <1>1, <1>3, <2>1, <2>2 DEF LoopAlone, LoopBusy, RestLeft, Voice
<1> QED
  BY <1>4, <1>6, <1>7, <1>8 DEF VoiceInv

\* The loop's steps from the translation to the last clip of its own.
LEMMA TranslateKeeps == ASSUME VoiceInv, Translate PROVE VoiceInv'
<1>1. /\ VoiceTypes /\ OfTurns /\ VoiceFlags /\ Voice(Loop, "translate")
      /\ UNCHANGED <<turn, said, pending, cancel, givenUp, broken>>
      /\ ~givenUp => LoopAlone
  BY DEF VoiceInv, Translate
<1>2. /\ voice' \in [{Loop, ClipWorker} -> VoiceRecords]
      /\ voice'[ClipWorker] = voice[ClipWorker]
      /\ \/ /\ voice'[Loop].at = "speak" /\ voice'[Loop].of = turn /\ planned' \in Clips
         \/ voice'[Loop].at \in {"listen", "over"} /\ planned' = 0
  <2>1. CASE \E n \in Clips : /\ planned' = n
                              /\ voice' = [voice EXCEPT ![Loop].at = "speak", ![Loop].of = turn]
    <3>1. PICK n \in Clips : /\ planned' = n
                             /\ voice' = [voice EXCEPT ![Loop].at = "speak", ![Loop].of = turn]
      BY <2>1
    <3>2. /\ voice \in [{Loop, ClipWorker} -> VoiceRecords] /\ turn \in 0 .. MaxTurns
          /\ "speak" \in Places
      BY <1>1 DEF VoiceTypes, Places
    <3> DEFINE spoken == [voice[Loop] EXCEPT !.at = "speak", !.of = turn]
    <3>3. voice' = [voice EXCEPT ![Loop] = spoken]
      BY <3>1, <3>2 DEF VoiceRecords
    <3>4. spoken \in VoiceRecords /\ spoken.at = "speak" /\ spoken.of = turn
      BY <3>2 DEF VoiceRecords
    <3> HIDE DEF spoken
    <3>5. /\ voice' \in [{Loop, ClipWorker} -> VoiceRecords]
          /\ voice'[ClipWorker] = voice[ClipWorker] /\ voice'[Loop] = spoken
      BY <3>2, <3>3, <3>4, TwoVoices
    <3> QED
      BY <3>1, <3>4, <3>5
  <2>2. CASE \E place \in {"listen", "over"} : Moves(Loop, place) /\ planned' = 0
    BY <1>1, <2>2, VoiceMoves, TwoVoices DEF Places
  <2> QED
    BY <2>1, <2>2 DEF Translate
<1>3. VoiceFlags'
  BY <1>1 DEF VoiceFlags
<1>4. VoiceTypes'
  BY <1>1, <1>2 DEF VoiceTypes, LoopPlaces
<1>5. OfTurns' /\ pending = <<>>
  BY <1>1, <1>2 DEF OfTurns, Interrupting, Voice
<1>6. ~givenUp' => LoopAlone' /\ RestLeft'
  <2> SUFFICES ASSUME ~givenUp PROVE LoopAlone' /\ RestLeft'
    BY <1>1
  <2>1. ~WorkerAlive' /\ said[turn] = 0
    BY <1>1, <1>2 DEF LoopAlone, LoopBusy, WorkerAlive, Voice
  <2>2. LoopAlone'
    BY <1>1, <1>2, <2>1 DEF LoopAlone, LoopBusy, Voice
  <2>3. RestLeft'
    BY <1>1, <1>2, <1>5, <2>1, EmptySeq DEF RestLeft, WorkerAlive, Voice, InHand
  <2> QED
    BY <2>2, <2>3
<1> QED
  BY <1>3, <1>4, <1>5, <1>6 DEF VoiceInv

LEMMA ClearCancelKeeps == ASSUME VoiceInv, ClearCancel PROVE VoiceInv'
<1>1. /\ VoiceTypes /\ OfTurns /\ VoiceFlags /\ Voice(Loop, "speak") /\ cancel' = FALSE
      /\ Moves(Loop, "clip") /\ UNCHANGED <<turn, planned, said, pending, givenUp, broken>>
      /\ ~givenUp => LoopAlone
  BY DEF VoiceInv, ClearCancel
<1>2. /\ voice' \in [{Loop, ClipWorker} -> VoiceRecords]
      /\ voice'[ClipWorker] = voice[ClipWorker]
      /\ voice'[Loop].at = "clip" /\ voice'[Loop].of = voice[Loop].of
  BY <1>1, VoiceMoves, TwoVoices DEF Places
<1>3. VoiceFlags' /\ VoiceTypes'
  BY <1>1, <1>2 DEF VoiceFlags, VoiceTypes, LoopPlaces
<1>4. OfTurns'
  BY <1>1, <1>2 DEF OfTurns, Interrupting, Voice
<1>5. ~givenUp' => LoopAlone' /\ RestLeft'
  BY <1>1, <1>2 DEF LoopAlone, LoopBusy, RestLeft, WorkerAlive, Voice
<1> QED
  BY <1>3, <1>4, <1>5 DEF VoiceInv

\* As many clips are queued as the turn has left.
LEMMA QueueRestKeeps == ASSUME VoiceInv, QueueRest PROVE VoiceInv'
<1> DEFINE rest == [i \in 1 .. planned - 1 |-> turn]
<1>1. /\ VoiceTypes /\ OfTurns /\ VoiceFlags /\ Voice(Loop, "rest") /\ planned > 1
      /\ pending' = pending \o rest /\ pending = <<>>
      /\ Moves(Loop, "kick") /\ UNCHANGED <<turn, planned, said, cancel, givenUp, broken>>
      /\ ~givenUp => LoopAlone
      /\ planned \in Nat /\ turn \in 1 .. MaxTurns
  BY InterpreterAssumption DEF VoiceInv, QueueRest, OfTurns, Interrupting, Voice, VoiceTypes
<1>2. /\ voice' \in [{Loop, ClipWorker} -> VoiceRecords]
      /\ voice'[ClipWorker] = voice[ClipWorker] /\ voice'[Loop].at = "kick"
  BY <1>1, VoiceMoves, TwoVoices DEF Places
<1>3. /\ rest \in Seq(1 .. MaxTurns) /\ Len(rest) = planned - 1
      /\ \A i \in DOMAIN rest : rest[i] = turn
  BY <1>1
<1>4. pending' = rest
  <2> HIDE DEF rest
  <2> QED
    BY <1>1, <1>3, ConcatEmptySeq
<1> HIDE DEF rest
<1>5. VoiceFlags' /\ VoiceTypes'
  BY <1>1, <1>2, <1>3, <1>4 DEF VoiceFlags, VoiceTypes, LoopPlaces
<1>6. OfTurns'
  BY <1>1, <1>2, <1>3, <1>4 DEF OfTurns, Interrupting, Voice
<1>7. ~givenUp' => LoopAlone' /\ RestLeft'
  <2> SUFFICES ASSUME ~givenUp PROVE LoopAlone' /\ RestLeft'
    BY <1>1
  <2>1. ~WorkerAlive' /\ said[turn] = 1 /\ planned \in Clips /\ ~cancel
    BY <1>1, <1>2 DEF LoopAlone, LoopBusy, WorkerAlive, Voice
  <2>2. said[turn] + Len(pending') = planned
    BY <1>1, <1>3, <1>4, <2>1
  <2> QED
    BY <1>1, <1>2, <1>3, <1>4, <2>1, <2>2 DEF LoopAlone, LoopBusy, RestLeft, Voice
<1> QED
  BY <1>5, <1>6, <1>7 DEF VoiceInv

\* The loop's turn is over: it leaves the rest to a worker, if there is any left.
LEMMA LeaveTurnKeeps == ASSUME VoiceInv, KickWorker \/ NothingLeft PROVE VoiceInv'
<1>1. /\ VoiceTypes /\ OfTurns /\ VoiceFlags /\ LoopBusy /\ ~Interrupting /\ turn > 0
      /\ UNCHANGED <<turn, planned, said, pending, cancel, givenUp, broken>>
      /\ ~givenUp => LoopAlone
      /\ turn \in 1 .. MaxTurns /\ said[turn] \in Nat
  BY InterpreterAssumption
     DEF VoiceInv, KickWorker, NothingLeft, OfTurns, Interrupting, LoopBusy, Voice, VoiceTypes
<1>2. /\ voice' \in [{Loop, ClipWorker} -> VoiceRecords]
      /\ voice'[ClipWorker].of = voice[ClipWorker].of
      /\ voice'[Loop].at = "listen"
      /\ voice'[ClipWorker].at \in {voice[ClipWorker].at, "pop"}
  <2>1. CASE KickWorker
    BY <1>1, <2>1, TwoVoices DEF KickWorker, VoiceTypes, VoiceRecords, Places
  <2>2. CASE NothingLeft
    BY <1>1, <2>2, VoiceMoves, TwoVoices DEF NothingLeft, Places
  <2> QED
    BY <2>1, <2>2
<1>3. VoiceFlags' /\ VoiceTypes'
  BY <1>1, <1>2 DEF VoiceFlags, VoiceTypes, LoopPlaces, WorkerPlaces
<1>4. OfTurns'
  BY <1>1, <1>2 DEF OfTurns, Interrupting
<1>5. ~givenUp' => LoopAlone' /\ RestLeft'
  <2> SUFFICES ASSUME ~givenUp PROVE RestLeft' /\ LoopAlone'
    BY <1>1
  <2>1. LoopAlone'
    BY <1>2 DEF LoopAlone, LoopBusy
  <2>2. CASE KickWorker
    <3>1. voice'[ClipWorker].at = "pop" /\ ~cancel
      BY <1>1, <1>2, <2>2, TwoVoices
         DEF KickWorker, LoopAlone, LoopBusy, Voice, VoiceTypes, VoiceRecords
    <3>2. said[turn] + Len(pending) = planned /\ \A i \in DOMAIN pending : pending[i] = turn
      BY <1>1, <2>2 DEF KickWorker, LoopAlone, LoopBusy, Voice
    <3>3. Len(pending) \in Nat
      BY <1>1 DEF VoiceTypes
    <3> QED
      BY <1>1, <1>2, <2>1, <3>1, <3>2, <3>3 DEF RestLeft, WorkerAlive, Voice, InHand
  <2>3. CASE NothingLeft
    <3>1. voice'[ClipWorker].at = "dead"
      BY <1>1, <2>3, VoiceMoves, TwoVoices
         DEF NothingLeft, LoopAlone, LoopBusy, WorkerAlive, Voice, Places
    <3>2. said[turn] = 1 /\ planned = 1 /\ pending = <<>>
      BY <1>1, <2>3 DEF NothingLeft, LoopAlone, LoopBusy, Voice, OfTurns
    <3> QED
      BY <1>1, <1>2, <2>1, <3>1, <3>2, EmptySeq DEF RestLeft, WorkerAlive, Voice, InHand
  <2> QED
    BY <2>2, <2>3
<1> QED
  BY <1>3, <1>4, <1>5 DEF VoiceInv

\* A clip that is said is one more of its turn, whoever says it.
LEMMA DeliverKeeps ==
    ASSUME VoiceInv, NEW v \in {Loop, ClipWorker}, DeliverClip(v) PROVE VoiceInv'
<1>1. /\ VoiceTypes /\ OfTurns /\ VoiceFlags /\ Voice(v, "clip")
      /\ said' = [said EXCEPT ![voice[v].of] = @ + 1] /\ Moves(v, "face")
      /\ UNCHANGED <<turn, planned, pending, cancel, givenUp, broken>>
      /\ ~givenUp => LoopAlone /\ RestLeft
  BY DEF VoiceInv, DeliverClip
<1>2. /\ voice' \in [{Loop, ClipWorker} -> VoiceRecords] /\ voice'[v].at = "face"
      /\ voice'[v].of = voice[v].of
      /\ \A w \in {Loop, ClipWorker} : w # v => voice'[w] = voice[w]
  BY <1>1, VoiceMoves DEF Places
<1>3. VoiceFlags' /\ VoiceTypes'
  <2>1. said' \in [1 .. MaxTurns -> Nat]
    <3> DEFINE T == 1 .. MaxTurns
               k == voice[v].of
    <3>1. said \in [T -> Nat] /\ said' = [said EXCEPT ![k] = @ + 1]
      BY <1>1 DEF VoiceTypes
    <3> HIDE DEF T, k
    <3>2. k \in T => said[k] + 1 \in Nat
      BY <3>1
    <3>3. said' \in [T -> Nat]
      BY <3>1, <3>2
    <3> QED
      BY <3>3 DEF T
  <2>2. VoiceFlags'
    BY <1>1 DEF VoiceFlags
  <2>3. VoiceTypes'
    BY <1>1, <1>2, <2>1, TwoVoices DEF VoiceTypes, LoopPlaces, WorkerPlaces
  <2> QED
    BY <2>2, <2>3
<1>4. /\ voice[v].of <= turn /\ (Interrupting => voice[v].of < turn)
      /\ voice[v].of \in Nat /\ turn \in Nat
  BY <1>1, TwoVoices DEF OfTurns, VoiceTypes, VoiceRecords, Interrupting, Voice
<1>5. \A t \in 1 .. MaxTurns : said'[t] = IF t = voice[v].of THEN said[t] + 1 ELSE said[t]
  BY <1>1 DEF VoiceTypes
<1>6. Interrupting' <=> Interrupting
  BY <1>1, <1>2, TwoVoices DEF Interrupting, Voice
<1>7. OfTurns'
  <2>1. \A t \in 1 .. MaxTurns : t > turn \/ (Interrupting /\ t = turn) => said'[t] = 0
    BY <1>1, <1>4, <1>5 DEF OfTurns
  <2> QED
    BY <1>1, <1>2, <1>6, <2>1, TwoVoices DEF OfTurns, Voice
<1>8. ~givenUp' => LoopAlone' /\ RestLeft'
  <2> SUFFICES ASSUME ~givenUp PROVE LoopAlone' /\ RestLeft'
    BY <1>1
  <2>1. CASE v = Loop
    <3>1. ~WorkerAlive /\ said[turn] = 0 /\ planned \in Clips /\ ~cancel /\ voice[v].of = turn
          /\ turn \in 1 .. MaxTurns
      BY <1>1, <2>1, InterpreterAssumption DEF LoopAlone, LoopBusy, OfTurns, Voice, VoiceTypes
    <3>2. said'[turn] = 1
      BY <1>5, <3>1
    <3> QED
      BY <1>1, <1>2, <2>1, <3>1, <3>2, TwoVoices
         DEF LoopAlone, LoopBusy, RestLeft, WorkerAlive, Voice
  <2>2. CASE v = ClipWorker
    <3>1. Voice(Loop, "listen") \/ Interrupting
      BY <1>1, <2>2
         DEF LoopAlone, LoopBusy, WorkerAlive, Voice, Interrupting, VoiceTypes, LoopPlaces
    <3>2. LoopAlone'
      BY <1>2, <2>2, <3>1, TwoVoices DEF LoopAlone, LoopBusy, Voice, Interrupting
    <3>3. ASSUME Voice(Loop, "listen") PROVE RestLeft'
      <4>1. /\ turn > 0 /\ ~cancel /\ voice[v].of = turn /\ InHand = 1 /\ InHand' = 0
            /\ \A i \in DOMAIN pending : pending[i] = turn
            /\ ~broken => said[turn] + Len(pending) + InHand = planned
        BY <1>1, <1>2, <2>2, <3>3 DEF RestLeft, WorkerAlive, Voice, InHand
      <4>2. turn \in 1 .. MaxTurns /\ said[turn] \in Nat /\ Len(pending) \in Nat
        BY <1>1, <4>1, InterpreterAssumption DEF VoiceTypes
      <4>3. said'[turn] = said[turn] + 1
        BY <1>5, <4>1, <4>2
      <4>4. ~broken => said'[turn] + Len(pending) + InHand' = planned
        BY <4>1, <4>2, <4>3
      <4> QED
        BY <1>1, <1>2, <2>2, <4>1, <4>4, TwoVoices DEF RestLeft, WorkerAlive, Voice
    <3>4. ~Voice(Loop, "listen") => RestLeft'
      BY <1>2, <2>2, TwoVoices DEF RestLeft, Voice
    <3> QED
      BY <3>2, <3>3, <3>4
  <2> QED
    BY <2>1, <2>2
<1> QED
  BY <1>3, <1>7, <1>8 DEF VoiceInv

\* A voice that goes on without a word.
LEMMA SilentKeeps ==
    ASSUME VoiceInv, NEW v \in {Loop, ClipWorker},
           ClipRaises(v) \/ ShowSpeaking(v) \/ HoldEnds(v)
    PROVE  VoiceInv'
<1>1. /\ VoiceTypes /\ OfTurns /\ VoiceFlags /\ voice[v].at \in {"clip", "face", "hold"}
      /\ UNCHANGED <<turn, planned, said, pending, cancel, givenUp>>
      /\ ~givenUp => LoopAlone /\ RestLeft
  BY DEF VoiceInv, ClipRaises, ShowSpeaking, HoldEnds, Voice
<1>2. PICK place \in Places :
        /\ Moves(v, place)
        /\ \/ broken' = TRUE /\ place = IF v = Loop THEN "over" ELSE "dead"
           \/ broken' = broken /\ voice[v].at = "face" /\ place = "hold"
           \/ broken' = broken /\ voice[v].at = "hold" /\ place = IF v = Loop THEN "rest" ELSE "pop"
  BY DEF ClipRaises, ShowSpeaking, HoldEnds, Voice, Places
<1>3. /\ voice' \in [{Loop, ClipWorker} -> VoiceRecords] /\ voice'[v].at = place
      /\ voice'[v].of = voice[v].of
      /\ \A w \in {Loop, ClipWorker} : w # v => voice'[w] = voice[w]
  BY <1>1, <1>2, VoiceMoves
<1>4. VoiceFlags'
  BY <1>1, <1>2 DEF VoiceFlags
<1>5. VoiceTypes'
  BY <1>1, <1>2, <1>3, TwoVoices DEF VoiceTypes, LoopPlaces, WorkerPlaces
<1>6. Interrupting' <=> Interrupting
  BY <1>1, <1>2, <1>3, TwoVoices DEF Interrupting, Voice
<1>7. OfTurns'
  BY <1>1, <1>2, <1>3, <1>6, TwoVoices DEF OfTurns
<1>8. ~givenUp' => LoopAlone' /\ RestLeft'
  <2> SUFFICES ASSUME ~givenUp PROVE LoopAlone' /\ RestLeft'
    BY <1>1
  <2>1. CASE v = Loop
    BY <1>1, <1>2, <1>3, <2>1, TwoVoices DEF LoopAlone, LoopBusy, RestLeft, WorkerAlive, Voice
  <2>2. CASE v = ClipWorker
    <3>1. ~LoopBusy
      BY <1>1, <2>2 DEF LoopAlone, WorkerAlive, Voice
    <3>2. LoopAlone'
      BY <1>3, <2>2, <3>1, TwoVoices DEF LoopAlone, LoopBusy
    <3>3. ASSUME Voice(Loop, "listen") PROVE RestLeft'
      <4>1. /\ turn > 0 /\ ~cancel /\ voice[v].of = turn
            /\ \A i \in DOMAIN pending : pending[i] = turn
            /\ ~broken => said[turn] + Len(pending) + InHand = planned
        BY <1>1, <2>2, <3>3 DEF RestLeft, WorkerAlive, Voice
      <4>2. ~broken' => InHand' = InHand /\ ~broken /\ place \notin {"ending", "dead"}
        BY <1>1, <1>2, <1>3, <2>2, TwoVoices DEF InHand
      <4> QED
        BY <1>1, <1>2, <1>3, <2>2, <4>1, <4>2, TwoVoices DEF RestLeft, WorkerAlive, Voice
    <3>4. ~Voice(Loop, "listen") => RestLeft'
      BY <1>3, <2>2, TwoVoices DEF RestLeft, Voice
    <3> QED
      BY <3>2, <3>3, <3>4
  <2> QED
    BY <2>1, <2>2
<1> QED
  BY <1>4, <1>5, <1>7, <1>8 DEF VoiceInv

\* The worker takes the next clip, or ends when there is none.
LEMMA PopKeeps == ASSUME VoiceInv, PopClip PROVE VoiceInv'
<1>1. /\ VoiceTypes /\ OfTurns /\ VoiceFlags /\ Voice(ClipWorker, "pop")
      /\ UNCHANGED <<turn, planned, said, cancel, givenUp, broken>>
      /\ ~givenUp => LoopAlone /\ RestLeft
      /\ pending \in Seq(1 .. MaxTurns)
  BY DEF VoiceInv, PopClip, VoiceTypes
<1>2. CASE pending = <<>>
  <2>1. Moves(ClipWorker, "ending") /\ pending' = pending
    BY <1>2 DEF PopClip
  <2>2. /\ voice' \in [{Loop, ClipWorker} -> VoiceRecords] /\ voice'[ClipWorker].at = "ending"
        /\ voice'[ClipWorker].of = voice[ClipWorker].of /\ voice'[Loop] = voice[Loop]
    BY <1>1, <2>1, VoiceMoves, TwoVoices DEF Places
  <2>3. VoiceFlags' /\ VoiceTypes'
    BY <1>1, <2>1, <2>2 DEF VoiceFlags, VoiceTypes, WorkerPlaces
  <2>4. OfTurns'
    BY <1>1, <2>1, <2>2 DEF OfTurns, Interrupting
  <2>5. ~givenUp' => LoopAlone' /\ RestLeft'
    <3>1. InHand' = InHand
      BY <1>1, <2>2 DEF InHand, Voice
    <3> QED
      BY <1>1, <1>2, <2>1, <2>2, <3>1 DEF LoopAlone, LoopBusy, RestLeft, WorkerAlive, Voice
  <2> QED
    BY <2>3, <2>4, <2>5 DEF VoiceInv
<1>3. CASE pending # <<>>
  <2>1. /\ voice' = [voice EXCEPT ![ClipWorker] = [at |-> "popped", of |-> Head(pending)]]
        /\ pending' = Tail(pending)
    BY <1>3 DEF PopClip
  <2>2. /\ Head(pending) \in 1 .. MaxTurns /\ Head(pending) = pending[1] /\ 1 \in DOMAIN pending
        /\ Tail(pending) \in Seq(1 .. MaxTurns) /\ Len(Tail(pending)) = Len(pending) - 1
        /\ \A i \in DOMAIN Tail(pending) : i + 1 \in DOMAIN pending /\ Tail(pending)[i] = pending[i + 1]
    <3> DEFINE T == 1 .. MaxTurns
    <3>1. pending \in Seq(T) /\ pending # <<>>
      BY <1>1, <1>3
    <3> HIDE DEF T
    <3>2. /\ Head(pending) \in T /\ Head(pending) = pending[1] /\ Tail(pending) \in Seq(T)
          /\ Len(Tail(pending)) = Len(pending) - 1 /\ Len(pending) \in Nat /\ Len(pending) > 0
          /\ DOMAIN pending = 1 .. Len(pending) /\ DOMAIN Tail(pending) = 1 .. Len(Tail(pending))
          /\ \A i \in 1 .. Len(Tail(pending)) : Tail(pending)[i] = pending[i + 1]
      BY <3>1, HeadTailProperties
    <3>3. \A i \in 1 .. Len(Tail(pending)) : i + 1 \in 1 .. Len(pending)
      BY <3>2
    <3> QED
      BY <3>2, <3>3 DEF T
  <2>3. /\ voice' \in [{Loop, ClipWorker} -> VoiceRecords] /\ voice'[ClipWorker].at = "popped"
        /\ voice'[ClipWorker].of = Head(pending) /\ voice'[Loop] = voice[Loop]
    BY <1>1, <2>1, <2>2, TwoVoices DEF VoiceTypes, VoiceRecords, Places
  <2>4. VoiceFlags' /\ VoiceTypes'
    BY <1>1, <2>1, <2>2, <2>3 DEF VoiceFlags, VoiceTypes, WorkerPlaces
  <2>5. OfTurns'
    BY <1>1, <1>3, <2>1, <2>2, <2>3 DEF OfTurns, Interrupting
  <2>6. ~givenUp' => LoopAlone' /\ RestLeft'
    <3> SUFFICES ASSUME ~givenUp PROVE LoopAlone' /\ RestLeft'
      BY <1>1
    <3>1. LoopAlone' /\ ~LoopBusy
      BY <1>1, <2>3 DEF LoopAlone, LoopBusy, WorkerAlive, Voice
    <3>2. ASSUME Voice(Loop, "listen") PROVE RestLeft'
      <4>1. /\ turn > 0 /\ ~cancel /\ InHand = 0 /\ InHand' = 1
            /\ \A i \in DOMAIN pending : pending[i] = turn
            /\ ~broken => said[turn] + Len(pending) + InHand = planned
        BY <1>1, <2>3, <3>2 DEF RestLeft, WorkerAlive, Voice, InHand
      <4>2. turn \in 1 .. MaxTurns /\ said[turn] \in Nat /\ Len(pending) \in Nat
        BY <1>1, <4>1, InterpreterAssumption DEF VoiceTypes
      <4>3. ~broken => said[turn] + Len(pending') + InHand' = planned
        BY <2>1, <2>2, <4>1, <4>2
      <4> QED
        BY <1>1, <2>1, <2>2, <2>3, <4>1, <4>3 DEF RestLeft, Voice
    <3>3. ~Voice(Loop, "listen") => RestLeft'
      BY <2>3 DEF RestLeft, Voice
    <3> QED
      BY <3>1, <3>2, <3>3
  <2> QED
    BY <2>4, <2>5, <2>6 DEF VoiceInv
<1> QED
  BY <1>2, <1>3

LEMMA WorkerGoesOnKeeps == ASSUME VoiceInv, HeedCancel \/ WorkerEnds PROVE VoiceInv'
<1>1. /\ VoiceTypes /\ OfTurns /\ VoiceFlags
      /\ voice[ClipWorker].at \in {"popped", "synthesized", "ending"}
      /\ UNCHANGED <<turn, planned, said, cancel, givenUp, broken>>
      /\ ~givenUp => LoopAlone /\ RestLeft
      /\ pending \in Seq(1 .. MaxTurns)
  BY DEF VoiceInv, HeedCancel, WorkerEnds, VoiceTypes, Voice
<1>2. PICK place \in {"ending", "synthesized", "clip", "dead"} :
        /\ Moves(ClipWorker, place)
        /\ pending' \in {<<>>, pending}
        /\ ~cancel => pending' = pending
        /\ \/ cancel /\ place = "ending"
           \/ place \in {"synthesized", "clip"} /\ voice[ClipWorker].at \in {"popped", "synthesized"}
           \/ place = "dead" /\ voice[ClipWorker].at = "ending"
  BY DEF HeedCancel, WorkerEnds, Voice
<1>3. /\ voice' \in [{Loop, ClipWorker} -> VoiceRecords] /\ voice'[ClipWorker].at = place
      /\ voice'[ClipWorker].of = voice[ClipWorker].of /\ voice'[Loop] = voice[Loop]
  BY <1>1, <1>2, VoiceMoves, TwoVoices DEF Places
<1>4. VoiceFlags'
  BY <1>1 DEF VoiceFlags
<1>5. VoiceTypes'
  BY <1>1, <1>2, <1>3, EmptySeq DEF VoiceTypes, WorkerPlaces
<1>6. OfTurns'
  BY <1>1, <1>2, <1>3, EmptySeq DEF OfTurns, Interrupting
<1>7. ~givenUp' => LoopAlone' /\ RestLeft'
  <2> SUFFICES ASSUME ~givenUp PROVE LoopAlone' /\ RestLeft'
    BY <1>1
  <2>1. LoopAlone' /\ ~LoopBusy
    BY <1>1, <1>3 DEF LoopAlone, LoopBusy, WorkerAlive, Voice
  <2>2. ASSUME Voice(Loop, "listen") PROVE RestLeft'
    <3>1. ~cancel /\ pending' = pending /\ place # "ending"
      BY <1>1, <1>2, <2>2 DEF RestLeft, WorkerAlive, Voice
    <3>2. InHand' = InHand
      BY <1>2, <1>3, <3>1 DEF InHand
    <3> QED
      BY <1>1, <1>2, <1>3, <2>2, <3>1, <3>2 DEF RestLeft, WorkerAlive, Voice
  <2>3. ~Voice(Loop, "listen") => RestLeft'
    BY <1>3 DEF RestLeft, Voice
  <2> QED
    BY <2>1, <2>2, <2>3
<1> QED
  BY <1>4, <1>5, <1>6, <1>7 DEF VoiceInv

LEMMA SameVoice == ASSUME VoiceInv, UNCHANGED voiceVars PROVE VoiceInv'
  BY DEF voiceVars, VoiceInv, VoiceFlags, VoiceTypes, OfTurns, LoopAlone, LoopBusy, RestLeft,
         WorkerAlive, Voice, InHand, Interrupting

LEMMA VoiceNextInv == VoiceInv /\ [InterpreterNext]_interpreterVars => VoiceInv'
<1> SUFFICES ASSUME VoiceInv, [InterpreterNext]_interpreterVars PROVE VoiceInv'
  OBVIOUS
<1>1. CASE UNCHANGED interpreterVars
  BY <1>1, SameVoice DEF interpreterVars
<1>2. CASE RestIdle \/ TakeFace \/ PublishFace
  BY <1>2, SameVoice DEF RestIdle, TakeFace, PublishFace
<1>3. CASE InterpreterNext /\ ~(RestIdle \/ TakeFace \/ PublishFace)
  BY <1>3, TakeTurnKeeps, InterruptKeeps, TranslateKeeps, ClearCancelKeeps, QueueRestKeeps,
     LeaveTurnKeeps, DeliverKeeps, SilentKeeps, PopKeeps, WorkerGoesOnKeeps
     DEF InterpreterNext
<1> QED
  BY <1>1, <1>2, <1>3

\* As long as interruptions see the worker end, one voice speaks at a time, nothing of a
\* former turn is said after its interruption, and a turn is said to its last clip unless
\* one failed: for any number of turns and of clips.
THEOREM VoiceStaysCurrent == InterpreterSpec => []VoiceIsCurrent
<1>1. VoiceInv => VoiceIsCurrent
  <2> SUFFICES ASSUME VoiceInv, ~givenUp PROVE VoiceIsCurrent
    BY DEF VoiceIsCurrent
  <2>1. VoiceTypes /\ OfTurns /\ LoopAlone /\ RestLeft
    BY DEF VoiceInv
  <2>2. ~(Speaks(Loop) /\ Speaks(ClipWorker))
    BY <2>1 DEF Speaks, LoopAlone, LoopBusy, WorkerAlive, Voice
  <2>3. Speaks(ClipWorker) /\ ~Interrupting => voice[ClipWorker].of = turn
    BY <2>1 DEF Speaks, Interrupting, LoopAlone, LoopBusy, RestLeft, WorkerAlive, Voice,
                VoiceTypes, LoopPlaces
  <2>4. Voice(Loop, "listen") /\ ~WorkerAlive /\ ~broken /\ turn > 0
          => pending = <<>> /\ said[turn] = planned
    <3> SUFFICES ASSUME Voice(Loop, "listen"), ~WorkerAlive, ~broken, turn > 0
                 PROVE  pending = <<>> /\ said[turn] = planned
      OBVIOUS
    <3>1. pending = <<>> /\ InHand = 0 /\ said[turn] + Len(pending) + InHand = planned
      BY <2>1 DEF RestLeft, WorkerAlive, Voice, InHand
    <3>2. said[turn] \in Nat /\ Len(pending) = 0
      BY <2>1, <3>1, InterpreterAssumption, EmptySeq DEF VoiceTypes
    <3> QED
      BY <3>1, <3>2
  <2> QED
    BY <2>2, <2>3, <2>4 DEF VoiceIsCurrent
<1> QED
  BY <1>1, VoiceInitInv, VoiceNextInv, PTL DEF InterpreterSpec

-----------------------------------------------------------------------------
(* The interpreter's face *)

\* The face the meeting is to see.
NewestFace == IF generation \in timers THEN "speaking" ELSE "idle"

\* It is the one that waits; where none waits, the one that is being published; and where
\* there is none either and none was missed, the one that is shown.
FaceInv ==
    /\ generation \in Nat /\ timers \subseteq 1 .. generation
    /\ shown \in Faces /\ slot \in Faces \cup {NoFace} /\ publishing \in Faces \cup {NoFace}
    /\ missed \in BOOLEAN
    /\ slot # NoFace => slot = NewestFace
    /\ slot = NoFace /\ publishing # NoFace => publishing = NewestFace
    /\ slot = NoFace /\ publishing = NoFace /\ ~missed => shown = NewestFace

LEMMA FaceInitInv == InterpreterInit => FaceInv
<1> SUFFICES ASSUME InterpreterInit PROVE FaceInv
  OBVIOUS
<1>1. missed \in BOOLEAN
  BY DEF InterpreterInit
<1>2. NewestFace = "idle"
  BY DEF InterpreterInit, NewestFace
<1> QED
  BY <1>1, <1>2 DEF InterpreterInit, FaceInv, Faces, NoFace

LEMMA FaceNextInv == FaceInv /\ [InterpreterNext]_interpreterVars => FaceInv'
<1> SUFFICES ASSUME FaceInv, [InterpreterNext]_interpreterVars PROVE FaceInv'
  OBVIOUS
<1>1. CASE UNCHANGED avatarVars
  BY <1>1 DEF avatarVars, FaceInv, NewestFace
<1>2. CASE TakeTurn
  <2>1. generation' = generation + 1 /\ slot' = "idle" /\ UNCHANGED <<timers, publishing, shown, missed>>
    BY <1>2 DEF TakeTurn, Stages
  <2>2. generation' \in Nat /\ timers' \subseteq 1 .. generation' /\ generation' \notin timers'
    BY <2>1 DEF FaceInv
  <2>3. NewestFace' = "idle"
    BY <2>2 DEF NewestFace
  <2> QED
    BY <2>1, <2>2, <2>3 DEF FaceInv, Faces, NoFace
<1>3. CASE \E v \in {Loop, ClipWorker} : ShowSpeaking(v)
  <2>1. /\ generation' = generation + 1 /\ slot' = "speaking"
        /\ timers' = timers \cup {generation + 1} /\ UNCHANGED <<publishing, shown, missed>>
    BY <1>3 DEF ShowSpeaking, Stages
  <2>2. generation' \in Nat /\ timers' \subseteq 1 .. generation' /\ generation' \in timers'
    BY <2>1 DEF FaceInv
  <2>3. NewestFace' = "speaking"
    BY <2>2 DEF NewestFace
  <2> QED
    BY <2>1, <2>2, <2>3 DEF FaceInv, Faces, NoFace
<1>4. CASE RestIdle
  <2>1. PICK g \in timers : timers' = timers \ {g} /\ slot' = IF g = generation THEN "idle" ELSE slot
    BY <1>4 DEF RestIdle
  <2>2. UNCHANGED <<generation, publishing, shown, missed>>
    BY <1>4 DEF RestIdle
  <2>3. IF g = generation THEN NewestFace' = "idle" ELSE NewestFace' = NewestFace
    BY <2>1, <2>2 DEF NewestFace
  <2>4. generation' \in Nat /\ timers' \subseteq 1 .. generation'
    BY <2>1, <2>2 DEF FaceInv
  <2> QED
    BY <2>1, <2>2, <2>3, <2>4 DEF FaceInv, Faces, NoFace
<1>5. CASE TakeFace \/ PublishFace
  BY <1>5 DEF TakeFace, PublishFace, FaceInv, NewestFace, Faces, NoFace
<1>6. InterpreterNext => \/ UNCHANGED avatarVars \/ TakeTurn \/ RestIdle \/ TakeFace \/ PublishFace
                         \/ \E v \in {Loop, ClipWorker} : ShowSpeaking(v)
  BY DEF InterpreterNext, DropPending, SetCancel, JoinWorker, Translate, ClearCancel, QueueRest,
         KickWorker, NothingLeft, DeliverClip, ClipRaises, HoldEnds, PopClip, HeedCancel,
         WorkerEnds
<1> QED
  BY <1>1, <1>2, <1>3, <1>4, <1>5, <1>6 DEF interpreterVars

\* When all has been published, the meeting sees a speaking face exactly as long as the
\* newest change was a clip whose timer has not fired, whatever timers are late.
THEOREM AvatarFollowsVoice == InterpreterSpec => []AvatarFollows
<1>1. FaceInv => AvatarFollows
  BY DEF FaceInv, NewestFace, AvatarFollows
<1> QED
  BY <1>1, FaceInitInv, FaceNextInv, PTL DEF InterpreterSpec

\* Every variable of the interpreter keeps its type.
THEOREM InterpreterTypeCorrect == InterpreterSpec => []InterpreterTypeOK
<1>1. VoiceInv /\ FaceInv => InterpreterTypeOK
  <2> SUFFICES ASSUME VoiceInv, FaceInv PROVE InterpreterTypeOK
    OBVIOUS
  <2>1. {cancel, givenUp, broken, missed} \subseteq BOOLEAN
    BY DEF VoiceInv, VoiceFlags, FaceInv
  <2>2. \A i \in DOMAIN pending : pending[i] \in 1 .. MaxTurns
    <3> DEFINE T == 1 .. MaxTurns
    <3>1. pending \in Seq(T)
      BY DEF VoiceInv, VoiceTypes
    <3> HIDE DEF T
    <3>2. \A i \in DOMAIN pending : pending[i] \in T
      BY <3>1
    <3> QED
      BY <3>2 DEF T
  <2>3. /\ turn \in 0 .. MaxTurns /\ planned \in Clips \cup {0}
        /\ voice \in [{Loop, ClipWorker} -> [at : Places, of : 0 .. MaxTurns]]
    BY DEF VoiceInv, VoiceTypes, VoiceRecords
  <2>4. /\ generation \in Nat /\ timers \subseteq 1 .. generation
        /\ shown \in Faces /\ {slot, publishing} \subseteq Faces \cup {NoFace}
    BY DEF FaceInv
  <2> QED
    BY <2>1, <2>2, <2>3, <2>4, Zenon DEF InterpreterTypeOK
<1> QED
  BY <1>1, VoiceInitInv, VoiceNextInv, FaceInitInv, FaceNextInv, PTL DEF InterpreterSpec

-----------------------------------------------------------------------------
(* The moves into the trash *)

MovePlaces == {"idle", "intend", "rename", "copy", "verify", "look", "place",
               "publish", "remove", "record"}
MoveRecords == [at : MovePlaces, of : Item \cup {"none"}, move : 0 .. begun,
                snapshot : Version \cup {Absent}, published : BOOLEAN]
MoveReplies == [move : BegunMoves, answer : {"moved", "applied", "refused"}]

FileTypes ==
    /\ tree \in [Item -> Version \cup {Absent}] /\ newest \in [Item -> Version]
    /\ binned \in [of : Item, version : Version] \cup {NoItem}
    /\ staged \in [1 .. MaxMoves -> Version \cup {Absent, Cut}]
    /\ unseen \subseteq Item /\ trod \subseteq Item

BookTypes ==
    /\ mover \in [Mover -> MoveRecords] /\ begun \in 0 .. MaxMoves
    /\ intents \subseteq BegunMoves /\ replies \subseteq MoveReplies

Moving(m) == ~MoverAt(m, "idle")

\* What a move has done is what its place says.
ShapeOfMove(m) == Moving(m) =>
    /\ Of(m) \in Item /\ mover[m].move \in 1 .. begun /\ mover[m].snapshot \in Version
    /\ mover[m].at # "intend" => ThisMove(m) \in intents
    /\ mover[m].at \in {"copy", "look", "place", "publish", "remove"} => Of(m) \in Remote
    /\ mover[m].at \in {"intend", "rename", "copy", "look", "place", "publish"}
          => ~mover[m].published
    /\ MoverAt(m, "verify") => (mover[m].published <=> Of(m) \notin Remote)
    /\ mover[m].at \in {"remove", "record"} => mover[m].published
    /\ MoverAt(m, "record") \/ (MoverAt(m, "verify") /\ mover[m].published) => tree[Of(m)] = Absent

MovesApart == \A m, n \in Mover : m # n /\ Moving(m) /\ Moving(n) => mover[m].move # mover[n].move
OldReplies == \A r \in replies, m \in Mover : Moving(m) => r.move.move # mover[m].move

\* Who removed a file has its intent on record, and will not say that it is still there.
Removed(s) ==
    /\ [move |-> s, answer |-> "refused"] \notin replies
    /\ \A m \in Mover : Moving(m) /\ mover[m].move = s.move => mover[m].published
RemovedBy == \A i \in Item : tree[i] = Absent => \E s \in intents : s.of = i /\ Removed(s)
MovedIsGone == \A r \in replies : r.answer = "moved" => tree[r.move.of] = Absent

TreeIsNewest == \A i \in Item : tree[i] \in {Absent, newest[i]}
BinnedIsNewest == \A i \in Item \ (unseen \cup trod) :
    tree[i] = Absent => binned = [of |-> i, version |-> newest[i]]

\* From its second comparison on a copy is the whole of the source, and unless it was
\* edited since, the last version of it.
CopyIsWhole(m) ==
    /\ mover[m].at \in {"look", "place", "publish"} => staged[mover[m].move] = mover[m].snapshot
    /\ mover[m].at \in {"place", "publish"} /\ Of(m) \notin unseen
          => mover[m].snapshot = newest[Of(m)]
    /\ MoverAt(m, "remove") /\ Of(m) \notin unseen \cup trod
          => binned = [of |-> Of(m), version |-> newest[Of(m)]]

Books ==
    /\ BookTypes /\ MovesApart /\ OldReplies /\ RemovedBy /\ MovedIsGone
    /\ \A m \in Mover : ShapeOfMove(m)
Contents ==
    /\ FileTypes /\ TreeIsNewest /\ BinnedIsNewest
    /\ \A m \in Mover : CopyIsWhole(m)

TrashInv == breaks \in 0 .. MaxBreaks /\ Books /\ Contents

LEMMA TrashInitInv == TrashInit => TrashInv
<1> SUFFICES ASSUME TrashInit PROVE TrashInv
  OBVIOUS
<1>1. breaks \in 0 .. MaxBreaks /\ begun \in 0 .. MaxMoves /\ 1 \in Version
  BY TrashAssumption DEF TrashInit, Version
<1>2. /\ tree = [i \in Item |-> 1] /\ newest = [i \in Item |-> 1] /\ binned = NoItem
      /\ intents = {} /\ replies = {} /\ \A m \in Mover : mover[m] = Parked
  BY DEF TrashInit
<1>3. mover \in [Mover -> MoveRecords]
  <2>1. Parked \in MoveRecords
    BY <1>1 DEF Parked, MoveRecords, MovePlaces
  <2> QED
    BY <2>1 DEF TrashInit
<1>4. Books
  BY <1>1, <1>2, <1>3
     DEF Books, BookTypes, MovesApart, OldReplies, RemovedBy, MovedIsGone, ShapeOfMove, Moving,
         MoverAt, Parked, Absent
<1>5. FileTypes
  BY <1>1 DEF TrashInit, FileTypes
<1>6. TreeIsNewest /\ BinnedIsNewest /\ \A m \in Mover : CopyIsWhole(m)
  BY <1>2 DEF TreeIsNewest, BinnedIsNewest, CopyIsWhole, MoverAt, Parked, Absent
<1> QED
  BY <1>1, <1>4, <1>5, <1>6 DEF TrashInv, Contents

\* A step of move m: it goes on or is over, with an answer or without one.
MoveStep(m) ==
    /\ Moving(m) /\ begun' = begun
    /\ mover' \in [Mover -> MoveRecords] /\ \A n \in Mover : n # m => mover'[n] = mover[n]
    /\ Moving(m)' => /\ mover'[m].of = Of(m) /\ mover'[m].move = mover[m].move
                     /\ mover'[m].snapshot = mover[m].snapshot
                     /\ mover[m].published => mover'[m].published
    /\ intents \subseteq intents' /\ intents' \subseteq intents \cup {ThisMove(m)}
    /\ \/ replies' = replies
       \/ ~Moving(m)' /\ \E a \in {"moved", "applied", "refused"} :
            /\ replies' = replies \cup {[move |-> ThisMove(m), answer |-> a]}
            /\ a = "refused" => ~mover[m].published
            /\ a = "moved" => tree[Of(m)] = Absent
    /\ \A i \in Item : tree[i] = Absent => tree'[i] = Absent
    /\ \A i \in Item : tree'[i] = Absent /\ tree[i] # Absent =>
            i = Of(m) /\ ThisMove(m) \in intents /\ Moving(m)' /\ mover'[m].published

LEMMA BooksKeep ==
    ASSUME TrashInv, NEW m \in Mover, MoveStep(m), ShapeOfMove(m)'
    PROVE  Books'
<1>1. /\ Books /\ BookTypes /\ ShapeOfMove(m) /\ Moving(m)
      /\ ThisMove(m) \in BegunMoves /\ BegunMoves' = BegunMoves /\ MoveRecords' = MoveRecords
  BY DEF TrashInv, Books, MoveStep, ShapeOfMove, ThisMove, BegunMoves, MoveRecords
<1>2. ThisMove(m).move = mover[m].move /\ ThisMove(m).of = Of(m)
  BY DEF ThisMove
<1>3. BookTypes'
  <2>1. replies' \subseteq MoveReplies
    BY <1>1 DEF MoveStep, BookTypes, MoveReplies
  <2>2. MoveReplies' = MoveReplies
    BY <1>1 DEF MoveReplies
  <2> QED
    BY <1>1, <2>1, <2>2 DEF MoveStep, BookTypes
<1>4. MovesApart'
  BY <1>1 DEF Books, MovesApart, Moving, MoverAt, MoveStep
<1>5. OldReplies'
  <2> SUFFICES ASSUME NEW r \in replies', NEW n \in Mover, Moving(n)' PROVE r.move.move # mover'[n].move
    BY DEF OldReplies
  <2>1. Moving(n) /\ mover'[n].move = mover[n].move
    BY <1>1 DEF MoveStep, Moving, MoverAt
  <2>2. CASE r \in replies
    BY <1>1, <2>1, <2>2 DEF Books, OldReplies
  <2>3. CASE r \notin replies
    <3>1. n # m /\ r.move = ThisMove(m)
      BY <2>3 DEF MoveStep
    <3> QED
      BY <1>1, <1>2, <2>1, <3>1 DEF Books, MovesApart
  <2> QED
    BY <2>2, <2>3
<1>6. RemovedBy'
  <2> SUFFICES ASSUME NEW i \in Item, tree'[i] = Absent
               PROVE  \E s \in intents' : s.of = i /\ Removed(s)'
    BY DEF RemovedBy
  <2>1. CASE tree[i] = Absent
    <3>1. PICK s \in intents : s.of = i /\ Removed(s)
      BY <1>1, <2>1 DEF Books, RemovedBy
    <3>2. [move |-> s, answer |-> "refused"] \notin replies'
      <4> SUFFICES ASSUME [move |-> s, answer |-> "refused"] \in replies' PROVE FALSE
        OBVIOUS
      <4>1. [move |-> s, answer |-> "refused"] \notin replies
        BY <3>1 DEF Removed
      <4>2. s = ThisMove(m) /\ ~mover[m].published
        BY <4>1 DEF MoveStep
      <4> QED
        BY <1>1, <1>2, <3>1, <4>2 DEF Removed
    <3>3. \A n \in Mover : Moving(n)' /\ mover'[n].move = s.move => mover'[n].published
      BY <1>1, <3>1 DEF Removed, MoveStep, Moving, MoverAt
    <3> QED
      BY <3>1, <3>2, <3>3 DEF Removed, MoveStep
  <2>2. CASE tree[i] # Absent
    <3>1. i = Of(m) /\ ThisMove(m) \in intents /\ Moving(m)' /\ mover'[m].published
          /\ replies' = replies
      BY <2>2 DEF MoveStep
    <3>2. [move |-> ThisMove(m), answer |-> "refused"] \notin replies'
      <4> DEFINE r == [move |-> ThisMove(m), answer |-> "refused"]
      <4>1. r.move.move = mover[m].move
        BY <1>2
      <4> HIDE DEF r
      <4> QED
        BY <1>1, <3>1, <4>1 DEF Books, OldReplies, r
    <3>3. \A n \in Mover : Moving(n)' /\ mover'[n].move = ThisMove(m).move => mover'[n].published
      BY <1>1, <1>2, <3>1 DEF Books, MovesApart, MoveStep, Moving, MoverAt
    <3>4. ThisMove(m) \in intents'
      BY <3>1 DEF MoveStep
    <3> DEFINE s == ThisMove(m)
    <3>5. s.of = i /\ s \in intents' /\ [move |-> s, answer |-> "refused"] \notin replies'
          /\ \A n \in Mover : Moving(n)' /\ mover'[n].move = s.move => mover'[n].published
      BY <1>2, <3>1, <3>2, <3>3, <3>4
    <3> HIDE DEF s
    <3> QED
      BY <3>5 DEF Removed, Moving, MoverAt
  <2> QED
    BY <2>1, <2>2
<1>7. MovedIsGone'
  <2> SUFFICES ASSUME NEW r \in replies', r.answer = "moved" PROVE tree'[r.move.of] = Absent
    BY DEF MovedIsGone
  <2>1. CASE r \in replies
    <3>1. tree[r.move.of] = Absent /\ r.move.of \in Item
      BY <1>1, <2>1 DEF Books, MovedIsGone, BookTypes, MoveReplies, BegunMoves
    <3> QED
      BY <3>1 DEF MoveStep
  <2>2. CASE r \notin replies
    <3>1. r.move.of = Of(m) /\ tree[Of(m)] = Absent
      BY <1>2, <2>2 DEF MoveStep
    <3> QED
      BY <1>1, <3>1 DEF MoveStep, ShapeOfMove
  <2> QED
    BY <2>1, <2>2
<1>8. ASSUME NEW n \in Mover PROVE ShapeOfMove(n)'
  <2>1. CASE n = m
    BY <2>1
  <2>2. CASE n # m
    <3>1. mover'[n] = mover[n] /\ ShapeOfMove(n)
      BY <1>1, <2>2 DEF Books, MoveStep
    <3> QED
      BY <3>1 DEF ShapeOfMove, Moving, MoverAt, Of, ThisMove, MoveStep
  <2> QED
    BY <2>1, <2>2
<1> QED
  BY <1>3, <1>4, <1>5, <1>6, <1>7, <1>8 DEF Books

\* What the files of a step that removes none are to the moves.
FilesStay == UNCHANGED <<tree, newest, binned, unseen, trod>>
StagesOwn(m) == staged' = staged \/ \E version \in Version \cup {Absent, Cut} : Stage(m, version)
IntendsOwn(m) == intents \subseteq intents' /\ intents' \subseteq intents \cup {ThisMove(m)}

LEMMA BreaksCount ==
    ASSUME TrashInv, Break \/ UNCHANGED breaks PROVE breaks' \in 0 .. MaxBreaks
<1>1. breaks \in 0 .. MaxBreaks /\ MaxBreaks \in Nat
  BY TrashAssumption DEF TrashInv
<1>2. breaks' = breaks \/ (breaks < MaxBreaks /\ breaks' = breaks + 1)
  BY DEF Break
<1> QED
  BY <1>1, <1>2

\* The staging of one move is not that of another.
LEMMA StagedStays ==
    ASSUME TrashInv, NEW m \in Mover, Moving(m), StagesOwn(m)
    PROVE  /\ staged' \in [1 .. MaxMoves -> Version \cup {Absent, Cut}]
           /\ \A n \in Mover : n # m /\ Moving(n) => staged'[mover[n].move] = staged[mover[n].move]
<1> DEFINE S == Version \cup {Absent, Cut}
           k == mover[m].move
<1>1. /\ staged \in [1 .. MaxMoves -> S]
      /\ staged' = staged \/ \E version \in S : staged' = [staged EXCEPT ![k] = version]
  BY DEF TrashInv, Contents, FileTypes, StagesOwn, Stage
<1>2. \A n \in Mover : n # m /\ Moving(n) => mover[n].move # k /\ mover[n].move \in 1 .. MaxMoves
  <2>1. \A n \in Mover : n # m /\ Moving(n) => mover[n].move # k /\ mover[n].move \in 1 .. begun
    BY DEF TrashInv, Books, MovesApart, ShapeOfMove
  <2>2. begun \in 0 .. MaxMoves
    BY DEF TrashInv, Books, BookTypes
  <2> QED
    BY <2>1, <2>2, TrashAssumption
<1> HIDE DEF S, k
<1>3. staged' \in [1 .. MaxMoves -> S]
  BY <1>1
<1>4. \A n \in Mover : n # m /\ Moving(n) => staged'[mover[n].move] = staged[mover[n].move]
  BY <1>1, <1>2
<1> QED
  BY <1>3, <1>4 DEF S

\* The contents after a step of move m that changes no file but its own copy.
LEMMA ContentsStay ==
    ASSUME TrashInv, NEW m \in Mover, Moving(m), FilesStay, StagesOwn(m),
           \A n \in Mover : n # m => mover'[n] = mover[n], CopyIsWhole(m)'
    PROVE  Contents'
<1>1. FileTypes' /\ TreeIsNewest' /\ BinnedIsNewest'
  BY StagedStays DEF TrashInv, Contents, FileTypes, TreeIsNewest, BinnedIsNewest, FilesStay
<1>2. ASSUME NEW n \in Mover PROVE CopyIsWhole(n)'
  <2>1. CASE n = m
    BY <2>1
  <2>2. CASE n # m
    <3>1. mover'[n] = mover[n] /\ CopyIsWhole(n)
      BY <2>2 DEF TrashInv, Contents
    <3>2. mover[n].at \in {"look", "place", "publish"} => staged'[mover[n].move] = staged[mover[n].move]
      BY <2>2, StagedStays DEF Moving, MoverAt
    <3> QED
      BY <3>1, <3>2 DEF CopyIsWhole, FilesStay, MoverAt, Of
  <2> QED
    BY <2>1, <2>2
<1> QED
  BY <1>1, <1>2 DEF Contents

LEMMA MoverAtPlace ==
    ASSUME Books, NEW m \in Mover, NEW place \in MovePlaces,
           mover' = [mover EXCEPT ![m].at = place], begun' = begun
    PROVE  /\ mover' \in [Mover -> MoveRecords]
           /\ mover'[m].at = place /\ mover'[m].of = Of(m) /\ mover'[m].move = mover[m].move
           /\ mover'[m].snapshot = mover[m].snapshot /\ mover'[m].published = mover[m].published
           /\ \A n \in Mover : n # m => mover'[n] = mover[n]
<1>1. mover \in [Mover -> MoveRecords]
  BY DEF Books, BookTypes
<1>2. [mover[m] EXCEPT !.at = place] \in MoveRecords
  BY <1>1 DEF MoveRecords
<1> QED
  BY <1>1, <1>2 DEF MoveRecords, Of

LEMMA MoverPublished ==
    ASSUME Books, NEW m \in Mover, NEW place \in MovePlaces,
           mover' = [mover EXCEPT ![m].at = place, ![m].published = TRUE], begun' = begun
    PROVE  /\ mover' \in [Mover -> MoveRecords]
           /\ mover'[m].at = place /\ mover'[m].of = Of(m) /\ mover'[m].move = mover[m].move
           /\ mover'[m].snapshot = mover[m].snapshot /\ mover'[m].published
           /\ \A n \in Mover : n # m => mover'[n] = mover[n]
<1>1. mover \in [Mover -> MoveRecords]
  BY DEF Books, BookTypes
<1>2. [mover[m] EXCEPT !.at = place, !.published = TRUE] \in MoveRecords
  BY <1>1 DEF MoveRecords
<1> QED
  BY <1>1, <1>2 DEF MoveRecords, Of

\* A move that goes on.
LEMMA GoesOnKeeps ==
    ASSUME TrashInv, NEW m \in Mover, NEW place \in MovePlaces \ {"idle"}, Moving(m),
           mover' = [mover EXCEPT ![m].at = place], begun' = begun,
           UNCHANGED <<replies, breaks>>, FilesStay, StagesOwn(m), IntendsOwn(m),
           ShapeOfMove(m)', CopyIsWhole(m)'
    PROVE  TrashInv'
<1>1. Books
  BY DEF TrashInv
<1>2. MoveStep(m)
  BY <1>1, MoverAtPlace DEF MoveStep, Moving, MoverAt, IntendsOwn, FilesStay
<1> QED
  BY <1>2, BooksKeep, ContentsStay, BreaksCount DEF TrashInv, MoveStep

\* A move that ends, with an answer or by the death of its process.
MoveEnds(m) ==
    /\ mover' = [mover EXCEPT ![m] = Parked]
    /\ \/ replies' = replies
       \/ \E a \in {"moved", "applied", "refused"} :
            /\ replies' = replies \cup {[move |-> ThisMove(m), answer |-> a]}
            /\ a = "refused" => ~mover[m].published
            /\ a = "moved" => tree[Of(m)] = Absent
    /\ Break \/ UNCHANGED breaks

LEMMA EndsKeeps ==
    ASSUME TrashInv, NEW m \in Mover, Moving(m), MoveEnds(m), begun' = begun,
           FilesStay, StagesOwn(m), IntendsOwn(m)
    PROVE  TrashInv'
<1>1. mover \in [Mover -> MoveRecords] /\ begun \in Nat
  BY DEF TrashInv, Books, BookTypes
<1>2. Parked \in MoveRecords
  BY <1>1 DEF Parked, MoveRecords, MovePlaces
<1>3. /\ mover' \in [Mover -> MoveRecords] /\ mover'[m] = Parked
      /\ \A n \in Mover : n # m => mover'[n] = mover[n]
  BY <1>1, <1>2 DEF MoveEnds
<1>4. mover'[m].at = "idle"
  BY <1>3 DEF Parked
<1>5. MoveStep(m)
  BY <1>3, <1>4 DEF MoveStep, MoveEnds, Moving, MoverAt, IntendsOwn, FilesStay
<1>6. ShapeOfMove(m)' /\ CopyIsWhole(m)'
  BY <1>4 DEF ShapeOfMove, CopyIsWhole, Moving, MoverAt
<1> QED
  BY <1>3, <1>5, <1>6, BooksKeep, ContentsStay, BreaksCount DEF TrashInv, MoveEnds

\* A step that goes on only if what it looks for holds.
PassesOn(m, here, next) ==
    /\ MoverAt(m, here)
    /\ (Proceed(m, next) \/ MoveEnds(m))
    /\ UNCHANGED <<intents, begun>> /\ KeepContent

LEMMA PassKeeps ==
    ASSUME TrashInv, NEW m \in Mover, NEW here \in MovePlaces \ {"idle"},
           NEW next \in MovePlaces \ {"idle"}, PassesOn(m, here, next),
           Proceed(m, next) => ShapeOfMove(m)' /\ CopyIsWhole(m)'
    PROVE  TrashInv'
<1>1. Moving(m) /\ FilesStay /\ StagesOwn(m) /\ IntendsOwn(m) /\ begun' = begun
  BY DEF PassesOn, KeepContent, FilesStay, StagesOwn, IntendsOwn, Moving, MoverAt
<1>2. CASE Proceed(m, next)
  BY <1>1, <1>2, GoesOnKeeps DEF Proceed
<1>3. CASE MoveEnds(m)
  BY <1>1, <1>3, EndsKeeps
<1> QED
  BY <1>2, <1>3 DEF PassesOn

\* A new move has a number no other has.
LEMMA AskMoveKeeps ==
    ASSUME TrashInv, NEW m \in Mover, NEW i \in Item, AskMove(m, i) PROVE TrashInv'
<1>1. /\ Books /\ BookTypes /\ Contents /\ FileTypes /\ ~Moving(m)
      /\ begun < MaxMoves /\ begun' = begun + 1 /\ tree[i] # Absent
      /\ UNCHANGED <<intents, replies, breaks>> /\ KeepContent
      /\ begun \in Nat /\ MaxMoves \in Nat
  BY TrashAssumption DEF TrashInv, Books, BookTypes, Contents, AskMove, Moving
<1> DEFINE r == [Parked EXCEPT !.at = "intend", !.of = i, !.move = begun', !.snapshot = tree[i]]
<1>2. mover' = [mover EXCEPT ![m] = r]
  BY DEF AskMove
<1>3. tree[i] \in Version
  BY <1>1 DEF FileTypes
<1>4. /\ r.at = "intend" /\ r.of = i /\ r.move = begun' /\ r.snapshot = tree[i] /\ r.published = FALSE
      /\ r \in MoveRecords'
  <2>1. begun' \in 0 .. begun'
    BY <1>1
  <2> QED
    BY <1>3, <2>1 DEF Parked, MoveRecords, MovePlaces
<1> HIDE DEF r
<1>5. MoveRecords \subseteq MoveRecords' /\ BegunMoves \subseteq BegunMoves'
  <2>1. 0 .. begun \subseteq 0 .. begun' /\ 1 .. begun \subseteq 1 .. begun'
    BY <1>1
  <2> QED
    BY <2>1 DEF MoveRecords, BegunMoves
<1>6. /\ mover' \in [Mover -> MoveRecords'] /\ mover'[m] = r
      /\ \A n \in Mover : n # m => mover'[n] = mover[n]
  BY <1>1, <1>2, <1>4, <1>5 DEF BookTypes
<1>7. BookTypes'
  <2>1. begun' \in 0 .. MaxMoves
    BY <1>1
  <2>2. MoveReplies \subseteq MoveReplies'
    BY <1>5 DEF MoveReplies
  <2> QED
    BY <1>1, <1>5, <1>6, <2>1, <2>2 DEF BookTypes
<1>8. \A n \in Mover : n # m /\ Moving(n) => mover[n].move < begun'
  <2>1. \A n \in Mover : Moving(n) => mover[n].move \in 1 .. begun
    BY <1>1 DEF Books, ShapeOfMove
  <2> QED
    BY <1>1, <2>1
<1>9. \A s \in BegunMoves : s.move < begun'
  BY <1>1 DEF BegunMoves
<1>10. MovesApart'
  BY <1>1, <1>4, <1>6, <1>8 DEF Books, MovesApart, Moving, MoverAt
<1>11. OldReplies'
  <2>1. \A q \in replies : q.move \in BegunMoves
    BY <1>1 DEF BookTypes, MoveReplies
  <2>2. \A q \in replies : q.move.move < begun'
    BY <1>9, <2>1
  <2> QED
    BY <1>1, <1>4, <1>6, <2>2 DEF Books, OldReplies, Moving, MoverAt
<1>12. RemovedBy'
  <2> SUFFICES ASSUME NEW j \in Item, tree[j] = Absent
               PROVE  \E s \in intents : s.of = j /\ Removed(s)'
    BY <1>1 DEF RemovedBy, KeepContent
  <2>1. PICK s \in intents : s.of = j /\ Removed(s)
    BY <1>1 DEF Books, RemovedBy
  <2>2. s.move < begun'
    BY <1>1, <1>9 DEF BookTypes
  <2>3. Removed(s)'
    BY <1>1, <1>4, <1>6, <2>1, <2>2 DEF Removed, Moving, MoverAt
  <2> QED
    BY <2>1, <2>3
<1>13. MovedIsGone'
  BY <1>1 DEF Books, MovedIsGone, KeepContent
<1>14. ASSUME NEW n \in Mover PROVE ShapeOfMove(n)'
  <2>1. CASE n = m
    <3>1. begun' \in 1 .. begun'
      BY <1>1
    <3>2. mover'[n] = r /\ i \in Item /\ r.move \in 1 .. begun' /\ r.snapshot \in Version
      BY <1>3, <1>4, <1>6, <2>1, <3>1
    <3> QED
      BY <1>4, <3>2 DEF ShapeOfMove, Moving, MoverAt, Of
  <2>2. CASE n # m
    <3>1. mover'[n] = mover[n] /\ ShapeOfMove(n)
      BY <1>1, <1>6, <2>2 DEF Books
    <3>2. Moving(n) => mover[n].move \in 1 .. begun'
      BY <1>1, <3>1 DEF ShapeOfMove
    <3> QED
      BY <1>1, <3>1, <3>2 DEF ShapeOfMove, Moving, MoverAt, Of, ThisMove, KeepContent
  <2> QED
    BY <2>1, <2>2
<1>15. Contents'
  <2>1. FileTypes' /\ TreeIsNewest' /\ BinnedIsNewest'
    BY <1>1 DEF Contents, FileTypes, TreeIsNewest, BinnedIsNewest, KeepContent
  <2>2. \A n \in Mover : CopyIsWhole(n)'
    BY <1>1, <1>4, <1>6 DEF Contents, CopyIsWhole, KeepContent, MoverAt, Of
  <2> QED
    BY <2>1, <2>2 DEF Contents
<1>16. breaks' \in 0 .. MaxBreaks
  BY <1>1 DEF TrashInv
<1> QED
  BY <1>7, <1>10, <1>11, <1>12, <1>13, <1>14, <1>15, <1>16 DEF TrashInv, Books

LEMMA SaveIntentKeeps == ASSUME TrashInv, NEW m \in Mover, SaveIntent(m) PROVE TrashInv'
<1>1. /\ Moving(m) /\ MoverAt(m, "intend") /\ FilesStay /\ StagesOwn(m) /\ IntendsOwn(m)
      /\ begun' = begun /\ ShapeOfMove(m) /\ Books
      /\ \/ intents' = intents \cup {ThisMove(m)} /\ Proceed(m, "rename")
         \/ MoveEnds(m)
  BY DEF SaveIntent, KeepContent, FilesStay, StagesOwn, IntendsOwn, Moving, MoverAt, TrashInv,
         Books, MoveFails, Reply, MoveEnds
<1>2. CASE intents' = intents \cup {ThisMove(m)} /\ Proceed(m, "rename")
  <2>1. /\ mover'[m].at = "rename" /\ mover'[m].of = Of(m) /\ mover'[m].move = mover[m].move
        /\ mover'[m].snapshot = mover[m].snapshot /\ mover'[m].published = mover[m].published
    BY <1>1, <1>2, MoverAtPlace DEF Proceed, MovePlaces
  <2>2. ShapeOfMove(m)' /\ CopyIsWhole(m)'
    BY <1>1, <1>2, <2>1 DEF ShapeOfMove, CopyIsWhole, Moving, MoverAt, Of, ThisMove
  <2> QED
    BY <1>1, <1>2, <2>2, GoesOnKeeps DEF Proceed, MovePlaces
<1>3. CASE MoveEnds(m)
  BY <1>1, <1>3, EndsKeeps
<1> QED
  BY <1>1, <1>2, <1>3

LEMMA CannotRenameKeeps == ASSUME TrashInv, NEW m \in Mover, CannotRename(m) PROVE TrashInv'
<1>1. /\ Moving(m) /\ MoverAt(m, "rename") /\ ShapeOfMove(m) /\ Books
      /\ (Of(m) \in Remote /\ Proceed(m, "copy")) \/ MoveEnds(m)
      /\ UNCHANGED <<intents, begun>> /\ KeepContent
  BY DEF CannotRename, Moving, MoverAt, TrashInv, Books, MoveFails, Reply, MoveEnds
<1>2. FilesStay /\ StagesOwn(m) /\ IntendsOwn(m) /\ begun' = begun
  BY <1>1 DEF KeepContent, FilesStay, StagesOwn, IntendsOwn
<1>3. CASE Of(m) \in Remote /\ Proceed(m, "copy")
  <2>1. /\ mover'[m].at = "copy" /\ mover'[m].of = Of(m) /\ mover'[m].move = mover[m].move
        /\ mover'[m].snapshot = mover[m].snapshot /\ mover'[m].published = mover[m].published
    BY <1>1, <1>3, MoverAtPlace DEF Proceed, MovePlaces
  <2>2. ShapeOfMove(m)' /\ CopyIsWhole(m)'
    BY <1>1, <1>3, <2>1 DEF ShapeOfMove, CopyIsWhole, Moving, MoverAt, Of, ThisMove
  <2> QED
    BY <1>1, <1>2, <1>3, <2>2, GoesOnKeeps DEF Proceed, MovePlaces
<1>4. CASE MoveEnds(m)
  BY <1>1, <1>2, <1>4, EndsKeeps
<1> QED
  BY <1>1, <1>3, <1>4

\* The two comparisons and the search for a place.
LEMMA LooksKeep ==
    ASSUME TrashInv, NEW m \in Mover, VerifyItem(m) \/ CompareAgain(m) \/ FindPlace(m)
    PROVE  TrashInv'
<1>1. ShapeOfMove(m) /\ CopyIsWhole(m) /\ Books /\ TreeIsNewest
  BY DEF TrashInv, Books, Contents
<1>2. CASE VerifyItem(m)
  <2> DEFINE next == IF Of(m) \in Remote THEN "look" ELSE "record"
  <2>1. PassesOn(m, "verify", next)
    BY <1>2 DEF VerifyItem, PassIf, PassesOn, MoveFails, Reply, MoveEnds
  <2>2. next \in MovePlaces \ {"idle"}
    BY DEF MovePlaces
  <2>3. ASSUME Proceed(m, next) PROVE ShapeOfMove(m)' /\ CopyIsWhole(m)'
    <3>1. /\ mover'[m].at = next /\ mover'[m].of = Of(m) /\ mover'[m].move = mover[m].move
          /\ mover'[m].snapshot = mover[m].snapshot /\ mover'[m].published = mover[m].published
      BY <1>1, <2>1, <2>2, <2>3, MoverAtPlace DEF Proceed, PassesOn
    <3>2. MoverAt(m, "verify") /\ KeepContent /\ UNCHANGED <<intents, begun>>
      BY <2>1 DEF PassesOn
    <3>3. Of(m) \in Remote => staged[mover[m].move] = mover[m].snapshot
      <4>1. CaptureSame(m)
        <5>1. mover' # [mover EXCEPT ![m] = Parked]
          <6>1. mover \in [Mover -> MoveRecords]
            BY <1>1 DEF Books, BookTypes
          <6>2. [mover EXCEPT ![m] = Parked][m].at = "idle"
            BY <6>1 DEF Parked
          <6> QED
            BY <3>1, <6>2
        <5> QED
          BY <1>2, <5>1 DEF VerifyItem, PassIf, MoveFails, Reply
      <4> QED
        BY <4>1 DEF CaptureSame, Captured
    <3>4. ShapeOfMove(m)'
      BY <1>1, <3>1, <3>2 DEF ShapeOfMove, Moving, MoverAt, Of, ThisMove, KeepContent
    <3>5. CopyIsWhole(m)'
      BY <3>1, <3>2, <3>3 DEF CopyIsWhole, MoverAt, Of, KeepContent
    <3> QED
      BY <3>4, <3>5
  <2> HIDE DEF next
  <2> QED
    BY <2>1, <2>2, <2>3, PassKeeps DEF MovePlaces
<1>3. CASE CompareAgain(m)
  <2>1. PassesOn(m, "look", "place")
    BY <1>3 DEF CompareAgain, PassIf, PassesOn, MoveFails, Reply, MoveEnds
  <2>2. ASSUME Proceed(m, "place") PROVE ShapeOfMove(m)' /\ CopyIsWhole(m)'
    <3>1. /\ mover'[m].at = "place" /\ mover'[m].of = Of(m) /\ mover'[m].move = mover[m].move
          /\ mover'[m].snapshot = mover[m].snapshot /\ mover'[m].published = mover[m].published
      BY <1>1, <2>1, <2>2, MoverAtPlace DEF Proceed, PassesOn, MovePlaces
    <3>2. MoverAt(m, "look") /\ KeepContent /\ UNCHANGED <<intents, begun>>
      BY <2>1 DEF PassesOn
    <3>3. mover[m].snapshot = newest[Of(m)]
      <4>1. SourceSame(m)
        <5>1. mover' # [mover EXCEPT ![m] = Parked]
          <6>1. mover \in [Mover -> MoveRecords]
            BY <1>1 DEF Books, BookTypes
          <6>2. [mover EXCEPT ![m] = Parked][m].at = "idle"
            BY <6>1 DEF Parked
          <6> QED
            BY <3>1, <6>2
        <5> QED
          BY <1>3, <5>1 DEF CompareAgain, PassIf, MoveFails, Reply
      <4>2. Of(m) \in Item /\ mover[m].snapshot # Absent
        BY <1>1, <3>2 DEF ShapeOfMove, Moving, MoverAt, Version, Absent
      <4> QED
        BY <1>1, <4>1, <4>2 DEF SourceSame, TreeIsNewest
    <3>4. ShapeOfMove(m)'
      BY <1>1, <3>1, <3>2 DEF ShapeOfMove, Moving, MoverAt, Of, ThisMove, KeepContent
    <3>5. CopyIsWhole(m)'
      BY <1>1, <3>1, <3>2, <3>3 DEF CopyIsWhole, MoverAt, Of, KeepContent
    <3> QED
      BY <3>4, <3>5
  <2> QED
    BY <2>1, <2>2, PassKeeps DEF MovePlaces
<1>4. CASE FindPlace(m)
  <2>1. PassesOn(m, "place", "publish")
    BY <1>4 DEF FindPlace, PassIf, PassesOn, MoveFails, Reply, MoveEnds
  <2>2. ASSUME Proceed(m, "publish") PROVE ShapeOfMove(m)' /\ CopyIsWhole(m)'
    <3>1. /\ mover'[m].at = "publish" /\ mover'[m].of = Of(m) /\ mover'[m].move = mover[m].move
          /\ mover'[m].snapshot = mover[m].snapshot /\ mover'[m].published = mover[m].published
      BY <1>1, <2>1, <2>2, MoverAtPlace DEF Proceed, PassesOn, MovePlaces
    <3>2. MoverAt(m, "place") /\ KeepContent /\ UNCHANGED <<intents, begun>>
      BY <2>1 DEF PassesOn
    <3>3. ShapeOfMove(m)'
      BY <1>1, <3>1, <3>2 DEF ShapeOfMove, Moving, MoverAt, Of, ThisMove, KeepContent
    <3>4. CopyIsWhole(m)'
      BY <1>1, <3>1, <3>2 DEF CopyIsWhole, MoverAt, Of, KeepContent
    <3> QED
      BY <3>3, <3>4
  <2> QED
    BY <2>1, <2>2, PassKeeps DEF MovePlaces
<1> QED
  BY <1>2, <1>3, <1>4

\* What is put into the trash over a file makes that file one whose content is replaced.
LEMMA PublishLeaves ==
    ASSUME Contents, NEW m \in Mover, NEW version \in Version, Of(m) \in Item, Publish(m, version)
    PROVE  /\ binned' \in [of : Item, version : Version] \cup {NoItem}
           /\ binned' = [of |-> Of(m), version |-> version]
           /\ trod \subseteq trod' /\ trod' \subseteq Item
           /\ \A i \in Item : binned = [of |-> i, version |-> newest[i]] => i \in trod'
<1>1. binned \in [of : Item, version : Version] \cup {NoItem} /\ trod \subseteq Item
      /\ newest \in [Item -> Version]
  BY DEF Contents, FileTypes
<1>2. /\ binned' = [of |-> Of(m), version |-> version]
      /\ trod' = IF binned = NoItem THEN trod ELSE trod \cup {binned.of}
  BY DEF Publish
<1>3. ASSUME NEW i \in Item, binned = [of |-> i, version |-> newest[i]] PROVE i \in trod'
  <2>1. binned.version = newest[i] /\ binned.of = i
    BY <1>3
  <2>2. newest[i] # Absent
    BY <1>1 DEF Version, Absent
  <2>3. binned # NoItem
    BY <2>1, <2>2 DEF NoItem
  <2> QED
    BY <1>2, <2>1, <2>3
<1>4. trod' \subseteq Item
  BY <1>1, <1>2 DEF NoItem
<1> QED
  BY <1>1, <1>2, <1>3, <1>4

LEMMA RenameKeeps == ASSUME TrashInv, NEW m \in Mover, RenameItem(m) PROVE TrashInv'
<1>1. /\ Books /\ Contents /\ FileTypes /\ ShapeOfMove(m) /\ Moving(m) /\ MoverAt(m, "rename")
      /\ Of(m) \in Item /\ Of(m) \notin Remote /\ tree[Of(m)] # Absent
      /\ tree' = [tree EXCEPT ![Of(m)] = Absent] /\ Publish(m, tree[Of(m)])
      /\ mover' = [mover EXCEPT ![m].at = "verify", ![m].published = TRUE]
      /\ UNCHANGED <<newest, staged, unseen, intents, begun, replies, breaks>>
  BY DEF TrashInv, Books, Contents, RenameItem, ShapeOfMove, Moving, MoverAt
<1>2. /\ mover' \in [Mover -> MoveRecords]
      /\ mover'[m].at = "verify" /\ mover'[m].of = Of(m) /\ mover'[m].move = mover[m].move
      /\ mover'[m].snapshot = mover[m].snapshot /\ mover'[m].published
      /\ \A n \in Mover : n # m => mover'[n] = mover[n]
  BY <1>1, MoverPublished DEF MovePlaces
<1>3. tree[Of(m)] \in Version /\ tree[Of(m)] = newest[Of(m)]
  BY <1>1 DEF FileTypes, Contents, TreeIsNewest
<1>4. /\ binned' \in [of : Item, version : Version] \cup {NoItem}
      /\ binned' = [of |-> Of(m), version |-> newest[Of(m)]]
      /\ trod \subseteq trod' /\ trod' \subseteq Item
      /\ \A i \in Item : binned = [of |-> i, version |-> newest[i]] => i \in trod'
  BY <1>1, <1>3, PublishLeaves
<1>5. /\ tree' \in [Item -> Version \cup {Absent}]
      /\ \A i \in Item : tree'[i] = IF i = Of(m) THEN Absent ELSE tree[i]
  BY <1>1 DEF FileTypes
<1>6. ShapeOfMove(m)'
  BY <1>1, <1>2, <1>5 DEF ShapeOfMove, Moving, MoverAt, Of, ThisMove
<1>7. MoveStep(m)
  BY <1>1, <1>2, <1>5 DEF MoveStep, ShapeOfMove, Moving, MoverAt
<1>8. FileTypes'
  BY <1>1, <1>4, <1>5 DEF FileTypes
<1>9. TreeIsNewest'
  BY <1>1, <1>5 DEF Contents, TreeIsNewest
<1>10. BinnedIsNewest'
  BY <1>1, <1>4, <1>5 DEF Contents, BinnedIsNewest
<1>11. ASSUME NEW n \in Mover PROVE CopyIsWhole(n)'
  <2>1. CASE n = m
    BY <1>2, <2>1 DEF CopyIsWhole, MoverAt
  <2>2. CASE n # m
    <3>1. mover'[n] = mover[n] /\ CopyIsWhole(n) /\ ShapeOfMove(n)
      BY <1>1, <1>2, <2>2 DEF Books, Contents
    <3>2. MoverAt(n, "remove") => Of(n) \in Item
      BY <3>1 DEF ShapeOfMove, Moving, MoverAt
    <3> QED
      BY <1>1, <1>4, <3>1, <3>2 DEF CopyIsWhole, MoverAt, Of
  <2> QED
    BY <2>1, <2>2
<1> QED
  BY <1>1, <1>6, <1>7, <1>8, <1>9, <1>10, <1>11, BooksKeep DEF TrashInv, Contents

LEMMA CopyKeeps == ASSUME TrashInv, NEW m \in Mover, CopyItem(m) PROVE TrashInv'
<1>1. /\ Books /\ FileTypes /\ ShapeOfMove(m) /\ Moving(m) /\ MoverAt(m, "copy")
      /\ Of(m) \in Item /\ FilesStay /\ IntendsOwn(m) /\ begun' = begun
      /\ UNCHANGED <<tree, intents>>
  BY DEF TrashInv, Books, Contents, CopyItem, ShapeOfMove, Moving, MoverAt, FilesStay, IntendsOwn
<1>2. CASE tree[Of(m)] # Absent /\ Stage(m, tree[Of(m)]) /\ Proceed(m, "verify")
  <2>1. StagesOwn(m)
    BY <1>1, <1>2 DEF FileTypes, StagesOwn
  <2>2. /\ mover'[m].at = "verify" /\ mover'[m].of = Of(m) /\ mover'[m].move = mover[m].move
        /\ mover'[m].snapshot = mover[m].snapshot /\ mover'[m].published = mover[m].published
    BY <1>1, <1>2, MoverAtPlace DEF Proceed, MovePlaces
  <2>3. ShapeOfMove(m)' /\ CopyIsWhole(m)'
    BY <1>1, <2>2 DEF ShapeOfMove, CopyIsWhole, Moving, MoverAt, Of, ThisMove
  <2> QED
    BY <1>1, <1>2, <2>1, <2>3, GoesOnKeeps DEF Proceed, MovePlaces
<1>3. CASE Stage(m, Cut) /\ MoveEnds(m)
  BY <1>1, <1>3, EndsKeeps DEF StagesOwn
<1>4. \/ tree[Of(m)] # Absent /\ Stage(m, tree[Of(m)]) /\ Proceed(m, "verify")
      \/ Stage(m, Cut) /\ MoveEnds(m)
  BY <1>1 DEF CopyItem, MoveFails, Reply, MoveEnds, ShapeOfMove, MoverAt
<1> QED
  BY <1>2, <1>3, <1>4

LEMMA PublishCopyKeeps == ASSUME TrashInv, NEW m \in Mover, PublishCopy(m) PROVE TrashInv'
<1>1. /\ Books /\ Contents /\ FileTypes /\ ShapeOfMove(m) /\ CopyIsWhole(m) /\ Moving(m)
      /\ MoverAt(m, "publish") /\ Of(m) \in Item /\ mover[m].snapshot \in Version
      /\ staged[mover[m].move] = mover[m].snapshot
      /\ UNCHANGED <<tree, newest, unseen, intents, begun>>
  BY DEF TrashInv, Books, Contents, PublishCopy, ShapeOfMove, CopyIsWhole, Moving, MoverAt
<1>2. CASE MoveEnds(m) /\ UNCHANGED <<binned, staged, trod>>
  BY <1>1, <1>2, EndsKeeps DEF StagesOwn, IntendsOwn, FilesStay
<1>3. CASE /\ Publish(m, staged[mover[m].move]) /\ Stage(m, Absent)
           /\ mover' = [mover EXCEPT ![m].at = "remove", ![m].published = TRUE]
           /\ UNCHANGED <<replies, breaks>>
  <2>1. /\ mover' \in [Mover -> MoveRecords]
        /\ mover'[m].at = "remove" /\ mover'[m].of = Of(m) /\ mover'[m].move = mover[m].move
        /\ mover'[m].snapshot = mover[m].snapshot /\ mover'[m].published
        /\ \A n \in Mover : n # m => mover'[n] = mover[n]
    BY <1>1, <1>3, MoverPublished DEF MovePlaces
  <2>2. /\ binned' \in [of : Item, version : Version] \cup {NoItem}
        /\ binned' = [of |-> Of(m), version |-> mover[m].snapshot]
        /\ trod \subseteq trod' /\ trod' \subseteq Item
        /\ \A i \in Item : binned = [of |-> i, version |-> newest[i]] => i \in trod'
    BY <1>1, <1>3, PublishLeaves
  <2>3. StagesOwn(m)
    BY <1>3 DEF StagesOwn
  <2>4. ShapeOfMove(m)'
    BY <1>1, <2>1 DEF ShapeOfMove, Moving, MoverAt, Of, ThisMove
  <2>5. MoveStep(m)
    BY <1>1, <1>3, <2>1 DEF MoveStep, Moving, MoverAt
  <2>6. FileTypes'
    BY <1>1, <2>2, <2>3, StagedStays DEF FileTypes
  <2>7. TreeIsNewest' /\ BinnedIsNewest'
    BY <1>1, <2>2 DEF Contents, TreeIsNewest, BinnedIsNewest
  <2>8. ASSUME NEW n \in Mover PROVE CopyIsWhole(n)'
    <3>1. CASE n = m
      BY <1>1, <2>1, <2>2, <3>1 DEF CopyIsWhole, MoverAt, Of
    <3>2. CASE n # m
      <4>1. mover'[n] = mover[n] /\ CopyIsWhole(n) /\ ShapeOfMove(n)
        BY <1>1, <2>1, <3>2 DEF Books, Contents
      <4>2. mover[n].at \in {"look", "place", "publish"} => staged'[mover[n].move] = staged[mover[n].move]
        BY <1>1, <2>3, <3>2, StagedStays DEF Moving, MoverAt
      <4>3. MoverAt(n, "remove") => Of(n) \in Item
        BY <4>1 DEF ShapeOfMove, Moving, MoverAt
      <4> QED
        BY <1>1, <2>2, <4>1, <4>2, <4>3 DEF CopyIsWhole, MoverAt, Of
    <3> QED
      BY <3>1, <3>2
  <2> QED
    BY <1>3, <2>4, <2>5, <2>6, <2>7, <2>8, BooksKeep DEF TrashInv, Contents
<1>4. MoveFails(m, TRUE) => MoveEnds(m)
  BY DEF MoveFails, Reply, MoveEnds
<1> QED
  BY <1>2, <1>3, <1>4 DEF PublishCopy

\* The source goes when its last version is in the trash.
LEMMA RemoveKeeps == ASSUME TrashInv, NEW m \in Mover, RemoveSource(m) PROVE TrashInv'
<1>1. /\ Books /\ Contents /\ FileTypes /\ ShapeOfMove(m) /\ CopyIsWhole(m) /\ Moving(m)
      /\ MoverAt(m, "remove") /\ Of(m) \in Item
      /\ UNCHANGED <<newest, binned, staged, unseen, trod, intents, begun>>
  BY DEF TrashInv, Books, Contents, RemoveSource, ShapeOfMove, Moving, MoverAt
<1>2. \/ tree[Of(m)] # Absent /\ tree' = [tree EXCEPT ![Of(m)] = Absent] /\ Proceed(m, "record")
      \/ MoveEnds(m) /\ UNCHANGED tree
  BY DEF RemoveSource, MoveFails, Reply, MoveEnds
<1>3. CASE MoveEnds(m) /\ UNCHANGED tree
  BY <1>1, <1>3, EndsKeeps DEF StagesOwn, IntendsOwn, FilesStay
<1>4. CASE tree[Of(m)] # Absent /\ tree' = [tree EXCEPT ![Of(m)] = Absent] /\ Proceed(m, "record")
  <2>1. /\ mover' \in [Mover -> MoveRecords]
        /\ mover'[m].at = "record" /\ mover'[m].of = Of(m) /\ mover'[m].move = mover[m].move
        /\ mover'[m].snapshot = mover[m].snapshot /\ mover'[m].published = mover[m].published
        /\ \A n \in Mover : n # m => mover'[n] = mover[n]
    BY <1>1, <1>4, MoverAtPlace DEF Proceed, MovePlaces
  <2>2. /\ tree' \in [Item -> Version \cup {Absent}]
        /\ \A i \in Item : tree'[i] = IF i = Of(m) THEN Absent ELSE tree[i]
    BY <1>1, <1>4 DEF FileTypes
  <2>3. ShapeOfMove(m)'
    BY <1>1, <2>1, <2>2 DEF ShapeOfMove, Moving, MoverAt, Of, ThisMove
  <2>4. MoveStep(m)
    BY <1>1, <1>4, <2>1, <2>2 DEF MoveStep, ShapeOfMove, Moving, MoverAt, Proceed
  <2>5. FileTypes'
    BY <1>1, <2>2 DEF FileTypes
  <2>6. TreeIsNewest'
    BY <1>1, <2>2 DEF Contents, TreeIsNewest
  <2>7. BinnedIsNewest'
    BY <1>1, <2>2 DEF Contents, BinnedIsNewest, CopyIsWhole
  <2>8. \A n \in Mover : CopyIsWhole(n)'
    BY <1>1, <2>1 DEF Contents, CopyIsWhole, MoverAt, Of
  <2>9. breaks' = breaks
    BY <1>4 DEF Proceed
  <2> QED
    BY <2>3, <2>4, <2>5, <2>6, <2>7, <2>8, <2>9, BooksKeep DEF TrashInv, Contents
<1> QED
  BY <1>2, <1>3, <1>4

LEMMA LastStepsKeep ==
    ASSUME TrashInv, NEW m \in Mover, SaveVerified(m) \/ MoverDies(m) PROVE TrashInv'
<1>1. /\ Moving(m) /\ FilesStay /\ IntendsOwn(m) /\ begun' = begun /\ StagesOwn(m)
  BY DEF SaveVerified, MoverDies, Moving, MoverAt, KeepContent, FilesStay, IntendsOwn, StagesOwn
<1>2. MoveEnds(m)
  <2>1. CASE SaveVerified(m)
    <3>1. tree[Of(m)] = Absent
      BY <2>1 DEF SaveVerified, TrashInv, Books, ShapeOfMove, Moving, MoverAt
    <3> QED
      BY <2>1, <3>1 DEF SaveVerified, MoveFails, Reply, MoveEnds
  <2>2. CASE MoverDies(m)
    BY <2>2 DEF MoverDies, MoveEnds
  <2> QED
    BY <2>1, <2>2
<1> QED
  BY <1>1, <1>2, EndsKeeps

\* An edit after the last look is one nobody will see; an earlier one is seen.
LEMMA EditKeeps == ASSUME TrashInv, NEW i \in Item, Edit(i) PROVE TrashInv'
<1>1. /\ Books /\ Contents /\ FileTypes
      /\ newest[i] <= MaxEdits /\ newest' = [newest EXCEPT ![i] = @ + 1]
      /\ UNCHANGED <<staged, trod, intents, mover, begun, replies, breaks>>
      /\ unseen \subseteq unseen' /\ unseen' \subseteq Item
      /\ \A m \in Mover : Of(m) = i /\ mover[m].at \in {"place", "publish", "remove"} => i \in unseen'
  BY DEF TrashInv, Contents, FileTypes, Edit
<1>2. newest'[i] \in Version /\ newest' \in [Item -> Version]
      /\ \A j \in Item : j # i => newest'[j] = newest[j]
  <2>1. newest[i] \in Version /\ newest[i] + 1 \in Version
    BY <1>1, TrashAssumption DEF FileTypes, Version
  <2> QED
    BY <1>1, <2>1 DEF FileTypes
<1>3. \/ tree[i] # Absent /\ tree' = [tree EXCEPT ![i] = newest'[i]] /\ binned' = binned
      \/ /\ tree[i] = Absent /\ tree' = tree /\ binned.of = i
         /\ binned' = [binned EXCEPT !.version = newest'[i]]
  BY DEF Edit
<1>4. /\ tree' \in [Item -> Version \cup {Absent}]
      /\ \A j \in Item : tree'[j] = Absent <=> tree[j] = Absent
      /\ \A j \in Item : j # i => tree'[j] = tree[j]
      /\ tree'[i] \in {Absent, newest'[i]}
  <2>1. newest'[i] # Absent
    BY <1>2 DEF Version, Absent
  <2> QED
    BY <1>1, <1>2, <1>3, <2>1 DEF FileTypes
<1>5. /\ binned' \in [of : Item, version : Version] \cup {NoItem}
      /\ tree[i] = Absent => binned' = [of |-> i, version |-> newest'[i]] \/ binned' = binned
      /\ \A j \in Item : j # i /\ binned = [of |-> j, version |-> newest[j]] => binned' = binned
  <2>1. CASE binned' = binned
    BY <1>1, <2>1 DEF FileTypes
  <2>2. CASE binned.of = i /\ binned' = [binned EXCEPT !.version = newest'[i]]
    <3>1. binned \in [of : Item, version : Version] \cup {NoItem}
      BY <1>1 DEF FileTypes
    <3>2. binned' = [of |-> i, version |-> newest'[i]]
      BY <2>2, <3>1 DEF NoItem
    <3>3. binned' \in [of : Item, version : Version]
      BY <1>2, <3>2
    <3>4. \A j \in Item : j # i => binned # [of |-> j, version |-> newest[j]]
      <4>1. \A j \in Item : [of |-> j, version |-> newest[j]].of = j
        OBVIOUS
      <4> QED
        BY <2>2, <4>1
    <3> QED
      BY <3>2, <3>3, <3>4
  <2> QED
    BY <1>3, <2>1, <2>2
<1>6. Books'
  <2>1. BegunMoves' = BegunMoves /\ MoveRecords' = MoveRecords /\ MoveReplies' = MoveReplies
    BY <1>1 DEF BegunMoves, MoveRecords, MoveReplies
  <2>2. BookTypes'
    BY <1>1, <2>1 DEF Books, BookTypes
  <2>3. MovesApart' /\ OldReplies'
    BY <1>1 DEF Books, MovesApart, OldReplies, Moving, MoverAt
  <2>4. RemovedBy'
    BY <1>1, <1>4 DEF Books, RemovedBy, Removed, Moving, MoverAt
  <2>5. MovedIsGone'
    BY <1>1, <1>4 DEF Books, MovedIsGone, BookTypes, MoveReplies, BegunMoves
  <2>6. \A m \in Mover : ShapeOfMove(m)'
    BY <1>1, <1>4 DEF Books, ShapeOfMove, Moving, MoverAt, Of, ThisMove
  <2> QED
    BY <2>2, <2>3, <2>4, <2>5, <2>6 DEF Books
<1>7. FileTypes'
  BY <1>1, <1>2, <1>4, <1>5 DEF FileTypes
<1>8. TreeIsNewest'
  BY <1>1, <1>2, <1>4 DEF Contents, TreeIsNewest
<1>9. BinnedIsNewest'
  <2> SUFFICES ASSUME NEW j \in Item \ (unseen \cup trod), tree[j] = Absent
               PROVE  binned' = [of |-> j, version |-> newest'[j]]
    BY <1>1, <1>4 DEF BinnedIsNewest
  <2>1. binned = [of |-> j, version |-> newest[j]]
    BY <1>1 DEF Contents, BinnedIsNewest
  <2>2. CASE j # i
    BY <1>2, <1>5, <2>1, <2>2
  <2>3. CASE j = i
    <3>1. binned' = [binned EXCEPT !.version = newest'[i]]
      BY <1>3, <2>3
    <3> QED
      BY <2>1, <2>3, <3>1
  <2> QED
    BY <2>2, <2>3
<1>10. ASSUME NEW m \in Mover PROVE CopyIsWhole(m)'
  <2>1. CopyIsWhole(m) /\ ShapeOfMove(m)
    BY <1>1 DEF Books, Contents
  <2>2. mover[m].at \in {"place", "publish"} /\ Of(m) \notin unseen' => mover[m].snapshot = newest'[Of(m)]
    <3> SUFFICES ASSUME mover[m].at \in {"place", "publish"}, Of(m) \notin unseen'
                 PROVE  mover[m].snapshot = newest'[Of(m)]
      OBVIOUS
    <3>1. Of(m) # i /\ Of(m) \in Item
      BY <1>1, <2>1 DEF ShapeOfMove, Moving, MoverAt
    <3> QED
      BY <1>1, <1>2, <2>1, <3>1 DEF CopyIsWhole
  <2>3. MoverAt(m, "remove") /\ Of(m) \notin unseen' \cup trod
          => binned' = [of |-> Of(m), version |-> newest'[Of(m)]]
    <3> SUFFICES ASSUME MoverAt(m, "remove"), Of(m) \notin unseen' \cup trod
                 PROVE  binned' = [of |-> Of(m), version |-> newest'[Of(m)]]
      OBVIOUS
    <3>1. Of(m) # i /\ Of(m) \in Item
      BY <1>1, <2>1 DEF ShapeOfMove, Moving, MoverAt
    <3> QED
      BY <1>1, <1>2, <1>5, <2>1, <3>1 DEF CopyIsWhole
  <2> QED
    BY <1>1, <2>1, <2>2, <2>3 DEF CopyIsWhole, MoverAt, Of
<1>11. breaks' \in 0 .. MaxBreaks
  BY <1>1 DEF TrashInv
<1> QED
  BY <1>6, <1>7, <1>8, <1>9, <1>10, <1>11 DEF TrashInv, Contents

LEMMA TrashNextInv == TrashInv /\ [TrashNext]_trashVars => TrashInv'
<1> SUFFICES ASSUME TrashInv, [TrashNext]_trashVars PROVE TrashInv'
  OBVIOUS
<1>1. CASE UNCHANGED trashVars
  <2>1. Books'
    <3>1. Books /\ UNCHANGED <<tree, newest, binned, staged, intents, mover, begun, replies>>
      BY <1>1 DEF trashVars, TrashInv
    <3>2. BegunMoves' = BegunMoves /\ MoveRecords' = MoveRecords /\ MoveReplies' = MoveReplies
      BY <3>1 DEF BegunMoves, MoveRecords, MoveReplies
    <3>3. BookTypes'
      BY <3>1, <3>2 DEF Books, BookTypes
    <3>4. MovesApart' /\ OldReplies'
      BY <3>1 DEF Books, MovesApart, OldReplies, Moving, MoverAt
    <3>5. RemovedBy'
      BY <3>1 DEF Books, RemovedBy, Removed, Moving, MoverAt
    <3>6. MovedIsGone'
      BY <3>1 DEF Books, MovedIsGone
    <3>7. \A m \in Mover : ShapeOfMove(m)'
      BY <3>1 DEF Books, ShapeOfMove, Moving, MoverAt, Of, ThisMove
    <3> QED
      BY <3>3, <3>4, <3>5, <3>6, <3>7 DEF Books
  <2>2. Contents'
    BY <1>1 DEF trashVars, TrashInv, Contents, FileTypes, TreeIsNewest, BinnedIsNewest,
                CopyIsWhole, MoverAt, Of
  <2> QED
    BY <1>1, <2>1, <2>2 DEF trashVars, TrashInv
<1>2. CASE TrashNext
  BY <1>2, AskMoveKeeps, SaveIntentKeeps, RenameKeeps, CannotRenameKeeps, CopyKeeps, LooksKeep,
     PublishCopyKeeps, RemoveKeeps, LastStepsKeep, EditKeeps DEF TrashNext
<1> QED
  BY <1>1, <1>2

\* Every variable of the trash keeps its type.
THEOREM TrashTypeCorrect == TrashSpec => []TrashTypeOK
<1>1. TrashInv => TrashTypeOK
  BY DEF TrashInv, Books, BookTypes, Contents, FileTypes, MoveRecords, MovePlaces, MoveReplies,
         TrashTypeOK
<1> QED
  BY <1>1, TrashInitInv, TrashNextInv, PTL DEF TrashSpec

\* For any number of processes, files, moves, edits and failures: the last version of a
\* file is at its path or whole in the trash, a file that has left its path has an intent
\* on record, and who is told what became of a file is told the truth.
THEOREM TrashKeeps == TrashSpec => []TrashKeepsContent
<1>1. TrashInv => TrashKeepsContent
  <2> SUFFICES ASSUME TrashInv PROVE TrashKeepsContent
    OBVIOUS
  <2>1. \A i \in Item \ (unseen \cup trod) :
          tree[i] = newest[i] \/ binned = [of |-> i, version |-> newest[i]]
    BY DEF TrashInv, Contents, TreeIsNewest, BinnedIsNewest
  <2>2. \A i \in Item : tree[i] = Absent => \E s \in intents : s.of = i
    BY DEF TrashInv, Books, RemovedBy
  <2>3. binned.version # Cut
    <3>1. binned \in [of : Item, version : Version] \cup {NoItem}
      BY DEF TrashInv, Contents, FileTypes
    <3>2. binned.version \in Version \cup {Absent}
      BY <3>1 DEF NoItem
    <3> QED
      BY <3>2, TrashAssumption DEF Version, Absent, Cut
  <2>4. \A r \in replies : r.answer = "moved" => tree[r.move.of] = Absent
    BY DEF TrashInv, Books, MovedIsGone
  <2>5. ASSUME NEW r \in replies, r.answer = "refused", Alone(r.move), tree[r.move.of] = Absent
        PROVE  FALSE
    <3>1. r \in MoveReplies /\ r.move.of \in Item
      BY DEF TrashInv, Books, BookTypes, MoveReplies, BegunMoves
    <3>2. PICK s \in intents : s.of = r.move.of /\ Removed(s)
      BY <2>5, <3>1 DEF TrashInv, Books, RemovedBy
    <3>3. s = r.move
      BY <2>5, <3>2 DEF Alone
    <3>4. r = [move |-> s, answer |-> "refused"]
      BY <2>5, <3>1, <3>3 DEF MoveReplies
    <3> QED
      BY <3>2, <3>4 DEF Removed
  <2> QED
    BY <2>1, <2>2, <2>3, <2>4, <2>5 DEF TrashKeepsContent
<1> QED
  BY <1>1, TrashInitInv, TrashNextInv, PTL DEF TrashSpec

-----------------------------------------------------------------------------
(* The patches of a file *)

Marks == Patcher \cup {"old", "base"}
Files == [exists : BOOLEAN, text : Seq(Marks)]

BridgePlaces == {"lock", "recheck", "force", "restore", "unlock"}
PatchPlaces == {"find", "propose", "validate", "check", "write", "verify"}

Attempts ==
    [pc : {"rest"} \cup BridgePlaces \cup PatchPlaces \cup Inside,
     goal : {"none", "rollback"} \cup BridgeGoal \cup EngineGoal, tries : {0, 1},
     body : Seq(Marks), found : Files, original : Seq(Marks), proposed : Seq(Marks),
     result : {"none", "failed", "shown", "no change", "blocked", "applied", "stuck", "timeout"},
     crossed : BOOLEAN]

PatchTypes ==
    /\ target \in Files /\ lockFile \in BOOLEAN /\ rolling \in BOOLEAN
    /\ memory \in [known : BOOLEAN, was : Files] /\ holder \in Patcher \cup {NoOne}
    /\ job \in [Patcher -> Attempts]

\* Only a goal of the bridge takes the .lock, only a rollback is inside one.
PlaceOfPatch(t) ==
    /\ Pc(t) = "rest" => job[t] = Resting
    /\ Pc(t) \in BridgePlaces => Bridge(t)
    /\ Pc(t) \in PatchPlaces => job[t].goal \in BridgeGoal \cup EngineGoal
    /\ Pc(t) \in Inside => job[t].goal = "rollback"

OneAttempt ==
    /\ \A t \in Patcher : InsideLock(t) => lockFile
    /\ \A t, u \in Patcher : InsideLock(t) /\ InsideLock(u) => t = u

\* What an attempt proposes, once it has read the file.
ProposalOf(t) ==
    IF job[t].goal = "insert" THEN job[t].body \o job[t].found.text ELSE job[t].body

\* The file is as the attempt found it until its write, and then as it proposed it.
Uncrossed(t) ==
    /\ job[t].goal \in Composed => job[t].body = Append(job[t].found.text, t)
    /\ Pc(t) \in {"propose", "validate", "check", "write"} => target = job[t].found
    /\ Pc(t) \in {"validate", "check", "write"} => job[t].original = job[t].found.text
    /\ Pc(t) \in {"validate", "check", "write", "recheck", "verify"} =>
        job[t].proposed = ProposalOf(t)
    /\ Pc(t) \in {"recheck", "verify"} => target = Holding(job[t].proposed)
    /\ Pc(t) # "force"
    /\ Pc(t) = "unlock" /\ job[t].result \in {"failed", "blocked", "shown", "no change"} =>
        target = job[t].found
    /\ Pc(t) = "unlock" /\ job[t].result = "applied" =>
        target = Holding(job[t].proposed) /\ job[t].proposed = ProposalOf(t)

PatchInv ==
    /\ PatchTypes /\ OneAttempt
    /\ \A t \in Patcher : PlaceOfPatch(t)
    /\ \A t \in Patcher : InsideLock(t) /\ ~job[t].crossed => Uncrossed(t)

LEMMA PatchInitInv == PatchInit => PatchInv
<1> SUFFICES ASSUME PatchInit PROVE PatchInv
  OBVIOUS
<1>1. Missing \in Files /\ Holding(<<"base">>) \in Files /\ Holding(<<"old">>) \in Files
  BY DEF Missing, Holding, Files, Marks
<1>2. Resting \in Attempts
  BY <1>1 DEF Resting, Attempts
<1>3. PatchTypes
  <2>1. Forgotten \in [known : BOOLEAN, was : Files]
    BY <1>1 DEF Forgotten
  <2>2. [known |-> TRUE, was |-> Holding(<<"old">>)] \in [known : BOOLEAN, was : Files]
    BY <1>1
  <2> QED
    BY <1>1, <1>2, <2>1, <2>2 DEF PatchInit, PatchTypes
<1>4. \A t \in Patcher : job[t] = Resting
  BY DEF PatchInit
<1>5. ASSUME NEW t \in Patcher PROVE ~InsideLock(t) /\ PlaceOfPatch(t)
  <2>1. job[t] = Resting
    BY <1>4
  <2>2. Pc(t) = "rest"
    BY <2>1 DEF Pc, Resting
  <2> QED
    BY <2>1, <2>2 DEF InsideLock, PlaceOfPatch, BridgePlaces, PatchPlaces, Inside
<1> QED
  BY <1>3, <1>5 DEF PatchInv, OneAttempt

\* What the step of one thread leaves to the others: what was under the lock stays there,
\* and is crossed by a write from outside.
OthersPatch(t) ==
    \A o \in Patcher \ {t} :
        /\ job'[o] \in {job[o], [job[o] EXCEPT !.crossed = TRUE]}
        /\ job'[o] # job[o] => InsideLock(o)
        /\ InsideLock(o) /\ target' # target /\ ~InsideLock(t) => job'[o].crossed

\* The .lock appears when it is taken and goes when it is given back.
LockOf(t) ==
    /\ InsideLock(t)' => lockFile'
    /\ \/ lockFile' = lockFile /\ (InsideLock(t)' => InsideLock(t))
       \/ ~lockFile /\ lockFile'
       \/ InsideLock(t) /\ ~InsideLock(t)'

LEMMA PatchStep ==
    ASSUME PatchInv, NEW t \in Patcher, PatchTypes', OthersPatch(t), LockOf(t), PlaceOfPatch(t)',
           InsideLock(t)' /\ ~job'[t].crossed => Uncrossed(t)'
    PROVE  PatchInv'
<1>1. ASSUME NEW o \in Patcher \ {t}
      PROVE  /\ job'[o].pc = job[o].pc /\ job'[o].goal = job[o].goal
             /\ job'[o].body = job[o].body /\ job'[o].found = job[o].found
             /\ job'[o].original = job[o].original /\ job'[o].proposed = job[o].proposed
             /\ job'[o].result = job[o].result
             /\ ~job'[o].crossed => ~job[o].crossed
  <2>1. job[o] \in Attempts
    BY DEF PatchInv, PatchTypes
  <2>2. CASE job'[o] = job[o]
    BY <2>2
  <2>3. CASE job'[o] = [job[o] EXCEPT !.crossed = TRUE]
    BY <2>1, <2>3 DEF Attempts
  <2> QED
    BY <2>2, <2>3 DEF OthersPatch
<1>2. \A o \in Patcher \ {t} : InsideLock(o)' <=> InsideLock(o)
  BY <1>1 DEF InsideLock, Pc, Bridge
<1>3. OneAttempt'
  BY <1>2 DEF OneAttempt, PatchInv, LockOf
<1>4. ASSUME NEW o \in Patcher \ {t} PROVE PlaceOfPatch(o)'
  <2>1. PlaceOfPatch(o)
    BY DEF PatchInv
  <2>2. CASE Pc(o) = "rest"
    <3>1. job'[o] = job[o]
      BY <2>2 DEF OthersPatch, InsideLock
    <3> QED
      BY <2>1, <3>1 DEF PlaceOfPatch, Pc, Bridge
  <2>3. CASE Pc(o) # "rest"
    BY <1>1, <2>1, <2>3 DEF PlaceOfPatch, Pc, Bridge
  <2> QED
    BY <2>2, <2>3
<1>5. ASSUME NEW o \in Patcher \ {t}, InsideLock(o)', ~job'[o].crossed PROVE Uncrossed(o)'
  <2>1. InsideLock(o) /\ Uncrossed(o)
    BY <1>1, <1>2, <1>5 DEF PatchInv
  <2>2. ~InsideLock(t)
    BY <2>1 DEF PatchInv, OneAttempt
  <2>3. target' = target
    BY <1>5, <2>1, <2>2 DEF OthersPatch
  <2> QED
    BY <1>1, <2>1, <2>3 DEF Uncrossed, ProposalOf, Pc
<1> QED
  BY <1>3, <1>4, <1>5 DEF PatchInv

PatchEnv ==
    /\ target' \in Files /\ lockFile' \in BOOLEAN /\ rolling' \in BOOLEAN
    /\ memory' \in [known : BOOLEAN, was : Files] /\ holder' \in Patcher \cup {NoOne}

LEMMA EnvStays == ASSUME PatchInv, KeepTarget PROVE PatchEnv
  BY DEF PatchInv, PatchTypes, KeepTarget, PatchEnv

\* The thread alone goes on, and a write is one under the lock.
LEMMA OneMoves ==
    ASSUME PatchInv, NEW t \in Patcher, NEW r \in Attempts, Now(t, r), PatchEnv, LockOf(t),
           target' = target \/ InsideLock(t), PlaceOfPatch(t)',
           InsideLock(t)' /\ ~r.crossed => Uncrossed(t)'
    PROVE  PatchInv'
<1>1. job \in [Patcher -> Attempts]
  BY DEF PatchInv, PatchTypes
<1>2. job'[t] = r /\ job' \in [Patcher -> Attempts] /\ \A o \in Patcher \ {t} : job'[o] = job[o]
  BY <1>1 DEF Now
<1>3. PatchTypes'
  BY <1>2 DEF PatchTypes, PatchEnv
<1>4. OthersPatch(t)
  BY <1>2 DEF OthersPatch
<1> QED
  BY <1>2, <1>3, <1>4, PatchStep

LEMMA RestingIsAttempt == Resting \in Attempts
<1>1. Missing \in Files
  BY DEF Missing, Files
<1> QED
  BY <1>1 DEF Resting, Attempts

LEMMA TextsJoin ==
    ASSUME NEW S, NEW s \in Seq(S), NEW u \in Seq(S), NEW x \in S
    PROVE  s \o u \in Seq(S) /\ Append(s, x) \in Seq(S) /\ <<x>> \in Seq(S)
  OBVIOUS

\* A thread that comes to rest leaves the lock alone.
LEMMA RestKeeps ==
    ASSUME PatchInv, NEW t \in Patcher, Now(t, Resting), PatchEnv, target' = target,
           lockFile' = lockFile \/ InsideLock(t)
    PROVE  PatchInv'
<1>1. job'[t] = Resting
  BY DEF PatchInv, PatchTypes, Now
<1>2. ~InsideLock(t)'
  BY <1>1 DEF InsideLock, Pc, Resting
<1>3. PlaceOfPatch(t)'
  BY <1>1 DEF PlaceOfPatch, Pc, Resting, BridgePlaces, PatchPlaces, Inside
<1> QED
  BY <1>2, <1>3, RestingIsAttempt, OneMoves DEF LockOf

\* A thread that ends its attempt, under the lock or without.
LEMMA ConcludeKeeps ==
    ASSUME PatchInv, NEW t \in Patcher, Pc(t) \notin {"rest", "find", "lock"},
           NEW r \in {"failed", "shown", "no change", "blocked", "applied", "stuck", "timeout"},
           Conclude(t, r), PatchEnv, lockFile' = lockFile, target' = target \/ InsideLock(t),
           InsideLock(t) /\ ~job[t].crossed =>
               /\ r \in {"failed", "blocked", "shown", "no change"} => target' = job[t].found
               /\ r = "applied" =>
                    target' = Holding(job[t].proposed) /\ job[t].proposed = ProposalOf(t)
    PROVE  PatchInv'
<1>1. CASE ~Bridge(t)
  <2>1. Now(t, Resting) /\ target' = target
    BY <1>1 DEF Conclude, InsideLock
  <2> QED
    BY <2>1, RestKeeps
<1>2. CASE Bridge(t)
  <2> DEFINE q == [job[t] EXCEPT !.pc = "unlock", !.result = r]
  <2>1. job[t] \in Attempts
    BY DEF PatchInv, PatchTypes
  <2>2. /\ q.pc = "unlock" /\ q.result = r /\ q.goal = job[t].goal /\ q.body = job[t].body
        /\ q.found = job[t].found /\ q.proposed = job[t].proposed /\ q.crossed = job[t].crossed
    BY <2>1 DEF Attempts
  <2>3. q \in Attempts
    BY <2>1 DEF Attempts, BridgePlaces
  <2>4. Now(t, q)
    BY <1>2 DEF Conclude
  <2> HIDE DEF q
  <2>5. job'[t] = q
    BY <2>4 DEF PatchInv, PatchTypes, Now
  <2>6. InsideLock(t)
    BY <1>2 DEF InsideLock
  <2>7. LockOf(t) /\ PlaceOfPatch(t)'
    BY <1>2, <2>2, <2>5, <2>6 DEF LockOf, PlaceOfPatch, Pc, Bridge, InsideLock, BridgePlaces,
                                 PatchPlaces, Inside, PatchInv, OneAttempt
  <2>8. ASSUME ~q.crossed PROVE Uncrossed(t)'
    <3>1. Uncrossed(t)
      BY <2>2, <2>6, <2>8 DEF PatchInv
    <3> QED
      BY <2>2, <2>5, <2>6, <2>8, <3>1 DEF Uncrossed, ProposalOf, Pc
  <2> QED
    BY <2>3, <2>4, <2>6, <2>7, <2>8, OneMoves
<1> QED
  BY <1>1, <1>2

LEMMA BeginKeeps ==
    ASSUME PatchInv, NEW t \in Patcher, NEW g \in BridgeGoal \cup EngineGoal, Begin(t, g)
    PROVE  PatchInv'
<1> DEFINE b == IF g \in Composed THEN Append(target.text, t) ELSE <<t>>
           q == [job[t] EXCEPT !.pc = "find", !.goal = g, !.body = b]
<1>1. Pc(t) = "rest" /\ Now(t, q) /\ UNCHANGED <<target, lockFile, memory, rolling, holder>>
  BY DEF Begin
<1>2. PatchEnv
  BY <1>1 DEF PatchEnv, PatchInv, PatchTypes
<1>3. b \in Seq(Marks)
  <2>1. target.text \in Seq(Marks) /\ t \in Marks
    BY DEF PatchInv, PatchTypes, Files, Marks
  <2> QED
    BY <2>1, TextsJoin
<1>4. job[t] \in Attempts
  BY DEF PatchInv, PatchTypes
<1>5. q \in Attempts /\ q.pc = "find" /\ q.goal = g
  BY <1>3, <1>4 DEF Attempts, PatchPlaces
<1> HIDE DEF q
<1>6. job'[t] = q
  BY <1>1 DEF PatchInv, PatchTypes, Now
<1>7. ~InsideLock(t)' /\ PlaceOfPatch(t)'
  BY <1>5, <1>6 DEF InsideLock, PlaceOfPatch, Pc, Bridge, BridgePlaces, PatchPlaces, Inside
<1> QED
  BY <1>1, <1>2, <1>5, <1>7, OneMoves DEF LockOf

LEMMA FindKeeps == ASSUME PatchInv, NEW t \in Patcher, Find(t) PROVE PatchInv'
<1> DEFINE p == IF Bridge(t) THEN "lock" ELSE "propose"
           q == [job[t] EXCEPT !.pc = p, !.found = target]
<1>1. Pc(t) = "find" /\ Now(t, q) /\ KeepTarget /\ job[t] \in Attempts /\ PlaceOfPatch(t)
  BY DEF Find, PatchInv, PatchTypes
<1>2. target \in Files
  BY DEF PatchInv, PatchTypes
<1>3. p \in BridgePlaces \cup PatchPlaces
  BY DEF BridgePlaces, PatchPlaces
<1>4. q \in Attempts /\ q.pc = p /\ q.goal = job[t].goal
  BY <1>1, <1>2, <1>3 DEF Attempts
<1> HIDE DEF q
<1>5. job'[t] = q
  BY <1>1 DEF PatchInv, PatchTypes, Now
<1>6. ~InsideLock(t)' /\ PlaceOfPatch(t)'
  <2>1. job[t].goal \in BridgeGoal \cup EngineGoal
    BY <1>1 DEF PlaceOfPatch, PatchPlaces
  <2> QED
    BY <1>4, <1>5, <2>1 DEF InsideLock, PlaceOfPatch, Pc, Bridge, BridgePlaces, PatchPlaces, Inside
<1> QED
  BY <1>1, <1>4, <1>6, EnvStays, OneMoves DEF LockOf, KeepTarget

LEMMA TakeLockKeeps == ASSUME PatchInv, NEW t \in Patcher, TakeLock(t) PROVE PatchInv'
<1> DEFINE cross == \/ job[t].found # target
                    \/ job[t].goal \in Composed /\ job[t].body # Append(target.text, t)
           p == [job[t] EXCEPT !.pc = "propose", !.crossed = cross]
           f == [job[t] EXCEPT !.pc = "unlock", !.result = "failed", !.crossed = cross]
<1>1. /\ Pc(t) = "lock" /\ ~lockFile /\ lockFile' = TRUE
      /\ UNCHANGED <<target, rolling, holder>>
      /\ \/ memory' = [known |-> TRUE, was |-> job[t].found] /\ Now(t, p)
         \/ UNCHANGED memory /\ Now(t, f)
  BY DEF TakeLock, Remember
<1>2. job[t] \in Attempts /\ PlaceOfPatch(t)
  BY DEF PatchInv, PatchTypes
<1>3. PatchEnv
  <2>1. [known |-> TRUE, was |-> job[t].found] \in [known : BOOLEAN, was : Files]
    BY <1>2 DEF Attempts
  <2>2. memory' \in [known : BOOLEAN, was : Files]
    BY <1>1, <2>1 DEF PatchInv, PatchTypes
  <2> QED
    BY <1>1, <2>2 DEF PatchEnv, PatchInv, PatchTypes
<1>4. cross \in BOOLEAN
  OBVIOUS
<1>5. ASSUME ~cross
      PROVE  /\ target = job[t].found
             /\ job[t].goal \in Composed => job[t].body = Append(target.text, t)
  BY <1>5
<1> HIDE DEF cross
<1>6. /\ p \in Attempts /\ p.pc = "propose" /\ p.goal = job[t].goal /\ p.crossed = cross
      /\ p.found = job[t].found /\ p.body = job[t].body
  BY <1>2, <1>4 DEF Attempts, PatchPlaces
<1>7. /\ f \in Attempts /\ f.pc = "unlock" /\ f.goal = job[t].goal /\ f.crossed = cross
      /\ f.found = job[t].found /\ f.body = job[t].body /\ f.result = "failed"
  BY <1>2, <1>4 DEF Attempts, BridgePlaces
<1> HIDE DEF p, f
<1>8. PICK q \in {p, f} : Now(t, q)
  BY <1>1
<1>9. job'[t] = q
  BY <1>8 DEF PatchInv, PatchTypes, Now
<1>10. Bridge(t)
  BY <1>1, <1>2 DEF PlaceOfPatch, BridgePlaces
<1>11. PlaceOfPatch(t)' /\ LockOf(t)
  BY <1>1, <1>6, <1>7, <1>8, <1>9, <1>10
     DEF LockOf, PlaceOfPatch, Pc, Bridge, InsideLock, BridgePlaces, PatchPlaces, Inside
<1>12. ASSUME ~q.crossed PROVE Uncrossed(t)'
  <2>1. ~cross
    BY <1>6, <1>7, <1>8, <1>12
  <2>2. CASE q = p
    BY <1>1, <1>5, <1>6, <1>9, <2>1, <2>2 DEF Uncrossed, Pc
  <2>3. CASE q = f
    BY <1>1, <1>5, <1>7, <1>9, <2>1, <2>3 DEF Uncrossed, Pc
  <2> QED
    BY <1>8, <2>2, <2>3
<1> QED
  BY <1>1, <1>3, <1>6, <1>7, <1>8, <1>11, <1>12, OneMoves

\* A thread goes on under the lock, or on a way that takes none.
LEMMA GoesKeeps ==
    ASSUME PatchInv, NEW t \in Patcher, NEW place \in BridgePlaces \cup PatchPlaces \cup Inside,
           GoesTo(t, place), PatchEnv, lockFile' = lockFile, target' = target \/ InsideLock(t),
           Pc(t) \notin {"rest", "find", "lock"}, place \notin {"rest", "find", "lock"},
           place \in BridgePlaces => Bridge(t),
           place \in PatchPlaces => job[t].goal \in BridgeGoal \cup EngineGoal,
           place \in Inside => job[t].goal = "rollback",
           InsideLock(t) /\ ~job[t].crossed =>
               /\ place \in {"check", "write", "recheck", "verify", "restore"}
               /\ place \in {"check", "write"} =>
                    /\ target' = job[t].found /\ job[t].original = job[t].found.text
                    /\ job[t].proposed = ProposalOf(t)
               /\ place \in {"recheck", "verify"} =>
                    target' = Holding(job[t].proposed) /\ job[t].proposed = ProposalOf(t)
    PROVE  PatchInv'
<1> DEFINE q == [job[t] EXCEPT !.pc = place]
<1>1. Now(t, q) /\ job[t] \in Attempts
  BY DEF GoesTo, PatchInv, PatchTypes
<1>2. /\ q \in Attempts /\ q.pc = place /\ q.goal = job[t].goal /\ q.crossed = job[t].crossed
      /\ q.found = job[t].found /\ q.body = job[t].body /\ q.original = job[t].original
      /\ q.proposed = job[t].proposed
  BY <1>1 DEF Attempts
<1> HIDE DEF q
<1>3. job'[t] = q
  BY <1>1 DEF PatchInv, PatchTypes, Now
<1>4. InsideLock(t)' <=> InsideLock(t)
  BY <1>2, <1>3 DEF InsideLock, Pc, Bridge
<1>5. LockOf(t)
  BY <1>4 DEF LockOf, PatchInv, OneAttempt
<1>6. PlaceOfPatch(t)'
  BY <1>2, <1>3 DEF PlaceOfPatch, Pc, Bridge
<1>7. ASSUME InsideLock(t)', ~q.crossed PROVE Uncrossed(t)'
  <2>1. Uncrossed(t)
    BY <1>2, <1>4, <1>7 DEF PatchInv
  <2> QED
    BY <1>2, <1>3, <1>4, <1>7, <2>1 DEF Uncrossed, ProposalOf, Pc
<1> QED
  BY <1>1, <1>2, <1>5, <1>6, <1>7, OneMoves

LEMMA ProposeKeeps == ASSUME PatchInv, NEW t \in Patcher, Propose(t) PROVE PatchInv'
<1> DEFINE b == IF job[t].goal \in {"insert", "engine insert"}
                THEN job[t].body \o job[t].found.text ELSE job[t].body
           q == [job[t] EXCEPT !.pc = "validate", !.original = target.text, !.proposed = b]
<1>1. Pc(t) = "propose" /\ Now(t, q) /\ KeepTarget /\ job[t] \in Attempts /\ PlaceOfPatch(t)
  BY DEF Propose, PatchInv, PatchTypes
<1>2. target.text \in Seq(Marks)
  BY DEF PatchInv, PatchTypes, Files
<1>3. b \in Seq(Marks)
  <2>1. job[t].body \in Seq(Marks) /\ job[t].found.text \in Seq(Marks)
    BY <1>1 DEF Attempts, Files
  <2>2. job[t].body \o job[t].found.text \in Seq(Marks)
    BY <2>1
  <2> QED
    BY <2>1, <2>2
<1>4. Bridge(t) => b = ProposalOf(t)
  BY DEF Bridge, BridgeGoal, ProposalOf
<1> HIDE DEF b
<1>5. /\ q \in Attempts /\ q.pc = "validate" /\ q.goal = job[t].goal /\ q.crossed = job[t].crossed
      /\ q.found = job[t].found /\ q.body = job[t].body /\ q.original = target.text
      /\ q.proposed = b
  BY <1>1, <1>2, <1>3 DEF Attempts, PatchPlaces
<1> HIDE DEF q
<1>6. job'[t] = q
  BY <1>1 DEF PatchInv, PatchTypes, Now
<1>7. InsideLock(t)' <=> InsideLock(t)
  BY <1>1, <1>5, <1>6 DEF InsideLock, Pc, Bridge
<1>8. LockOf(t)
  BY <1>1, <1>7 DEF LockOf, PatchInv, OneAttempt, KeepTarget
<1>9. PlaceOfPatch(t)'
  <2>1. job[t].goal \in BridgeGoal \cup EngineGoal
    BY <1>1 DEF PlaceOfPatch, PatchPlaces
  <2> QED
    BY <1>5, <1>6, <2>1 DEF PlaceOfPatch, Pc, Bridge, BridgePlaces, PatchPlaces, Inside
<1>10. ASSUME InsideLock(t)', ~q.crossed PROVE Uncrossed(t)'
  <2>1. Uncrossed(t) /\ Bridge(t)
    BY <1>5, <1>7, <1>10 DEF PatchInv, InsideLock
  <2>2. target = job[t].found /\ target' = target
    BY <1>1, <2>1 DEF Uncrossed, KeepTarget
  <2> QED
    BY <1>4, <1>5, <1>6, <2>1, <2>2 DEF Uncrossed, ProposalOf, Pc
<1> QED
  BY <1>1, <1>5, <1>8, <1>9, <1>10, EnvStays, OneMoves DEF KeepTarget

\* Under the lock, and not crossed, the file is as the attempt expects it.
LEMMA UncrossedNow ==
    ASSUME PatchInv, NEW t \in Patcher, InsideLock(t), ~job[t].crossed PROVE Uncrossed(t)
  BY DEF PatchInv

LEMMA ValidateKeeps == ASSUME PatchInv, NEW t \in Patcher, Validate(t) PROVE PatchInv'
<1>1. Pc(t) = "validate" /\ KeepTarget /\ PatchEnv /\ PlaceOfPatch(t) /\ job[t] \in Attempts
  BY EnvStays DEF Validate, PatchInv, PatchTypes
<1>2. target' = target /\ lockFile' = lockFile
  BY <1>1 DEF KeepTarget
<1>3. ASSUME InsideLock(t), ~job[t].crossed
      PROVE  /\ target' = job[t].found /\ job[t].original = job[t].found.text
             /\ job[t].proposed = ProposalOf(t)
  BY <1>1, <1>2, <1>3, UncrossedNow DEF Uncrossed
<1>4. CASE \E r \in {"failed", "shown", "no change", "blocked"} : Conclude(t, r)
  <2>1. PICK r \in {"failed", "shown", "no change", "blocked"} : Conclude(t, r)
    BY <1>4
  <2> QED
    BY <1>1, <1>2, <1>3, <2>1, ConcludeKeeps
<1>5. CASE GoesTo(t, "check")
  <2>1. job[t].goal \in BridgeGoal \cup EngineGoal
    BY <1>1 DEF PlaceOfPatch, PatchPlaces
  <2> QED
    BY <1>1, <1>2, <1>3, <1>5, <2>1, GoesKeeps DEF BridgePlaces, PatchPlaces, Inside
<1> QED
  BY <1>4, <1>5 DEF Validate

LEMMA CheckAgainKeeps == ASSUME PatchInv, NEW t \in Patcher, CheckAgain(t) PROVE PatchInv'
<1>1. Pc(t) = "check" /\ PlaceOfPatch(t) /\ UNCHANGED <<target, lockFile, memory, rolling>>
      /\ holder' \in {t, holder}
  BY DEF CheckAgain, PatchInv
<1>2. PatchEnv
  BY <1>1 DEF PatchEnv, PatchInv, PatchTypes
<1>3. job[t].goal \in BridgeGoal \cup EngineGoal
  BY <1>1 DEF PlaceOfPatch, PatchPlaces
<1>4. CASE target.text = job[t].original
  <2>1. GoesTo(t, "write")
    BY <1>4 DEF CheckAgain
  <2>2. ASSUME InsideLock(t), ~job[t].crossed
        PROVE  /\ target' = job[t].found /\ job[t].original = job[t].found.text
               /\ job[t].proposed = ProposalOf(t)
    BY <1>1, <2>2, UncrossedNow DEF Uncrossed
  <2> QED
    BY <1>1, <1>2, <1>3, <2>1, <2>2, GoesKeeps DEF BridgePlaces, PatchPlaces, Inside
<1>5. CASE target.text # job[t].original
  <2> DEFINE place == IF Bridge(t) THEN "recheck" ELSE "verify"
  <2>1. GoesTo(t, place)
    BY <1>5 DEF CheckAgain
  <2>2. ~(InsideLock(t) /\ ~job[t].crossed)
    BY <1>1, <1>5, UncrossedNow DEF Uncrossed
  <2>3. place \in BridgePlaces \cup PatchPlaces /\ place \notin Inside
        /\ place \notin {"rest", "find", "lock"} /\ (place \in BridgePlaces => Bridge(t))
    BY DEF BridgePlaces, PatchPlaces, Inside
  <2> HIDE DEF place
  <2> QED
    BY <1>1, <1>2, <1>3, <2>1, <2>2, <2>3, GoesKeeps
<1> QED
  BY <1>4, <1>5

\* A write without the lock crosses the attempt that holds it.
LEMMA CrossingKeeps ==
    ASSUME PatchInv, NEW t \in Patcher, NEW place \in {"verify", "forget"},
           NowCrossing(t, place), PatchEnv, lockFile' = lockFile, ~Bridge(t), Pc(t) # "rest",
           place = "verify" => job[t].goal \in EngineGoal,
           place = "forget" => job[t].goal = "rollback"
    PROVE  PatchInv'
<1>1. job \in [Patcher -> Attempts]
  BY DEF PatchInv, PatchTypes
<1>2. job[t] \in Attempts
  BY <1>1
<1>3. job'[t] = [job[t] EXCEPT !.pc = place]
  BY DEF NowCrossing
<1>4. job'[t] \in Attempts /\ job'[t].pc = place /\ job'[t].goal = job[t].goal
  BY <1>2, <1>3 DEF Attempts, PatchPlaces, Inside
<1>5. ASSUME NEW o \in Patcher \ {t}
      PROVE  /\ job'[o] = IF InsideLock(o) THEN [job[o] EXCEPT !.crossed = TRUE] ELSE job[o]
             /\ job'[o] \in Attempts
             /\ InsideLock(o) => job'[o].crossed
  <2>1. job'[o] = IF InsideLock(o) THEN [job[o] EXCEPT !.crossed = TRUE] ELSE job[o]
    BY DEF NowCrossing
  <2>2. job[o] \in Attempts
    BY <1>1
  <2>3. CASE InsideLock(o)
    <3>1. job'[o] = [job[o] EXCEPT !.crossed = TRUE]
      BY <2>1, <2>3
    <3>2. job'[o] \in Attempts
      BY <2>2, <3>1 DEF Attempts
    <3>3. job'[o].crossed = TRUE
      BY <2>2, <3>1 DEF Attempts
    <3> QED
      BY <2>1, <3>2, <3>3
  <2>4. CASE ~InsideLock(o)
    BY <2>1, <2>2, <2>4
  <2> QED
    BY <2>3, <2>4
<1>6. job' \in [Patcher -> Attempts]
  <2>1. \A o \in Patcher : job'[o] \in Attempts
    BY <1>4, <1>5
  <2>2. job' = [o \in Patcher |-> job'[o]]
    BY DEF NowCrossing
  <2> QED
    BY <2>1, <2>2
<1>7. PatchTypes'
  BY <1>6 DEF PatchTypes, PatchEnv
<1>8. OthersPatch(t)
  BY <1>5 DEF OthersPatch
<1>9. ~InsideLock(t)' /\ ~InsideLock(t)
  BY <1>4 DEF InsideLock, Bridge
<1>10. PlaceOfPatch(t)'
  BY <1>4 DEF PlaceOfPatch, Pc, Bridge, BridgePlaces, PatchPlaces, Inside
<1> QED
  BY <1>7, <1>8, <1>9, <1>10, PatchStep DEF LockOf

LEMMA WritePatchKeeps == ASSUME PatchInv, NEW t \in Patcher, WritePatch(t) PROVE PatchInv'
<1>1. /\ Pc(t) = "write" /\ PlaceOfPatch(t) /\ UNCHANGED <<lockFile, memory, rolling>>
      /\ holder' = NoOne /\ job[t] \in Attempts
      /\ \/ /\ target' = Holding(job[t].proposed)
            /\ IF Bridge(t) THEN GoesTo(t, "recheck") ELSE NowCrossing(t, "verify")
         \/ UNCHANGED target /\ Conclude(t, "failed")
  BY DEF WritePatch, PatchInv, PatchTypes
<1>2. PatchEnv
  <2>1. Holding(job[t].proposed) \in Files
    BY <1>1 DEF Holding, Files, Attempts
  <2>2. target' \in Files
    BY <1>1, <2>1 DEF PatchInv, PatchTypes
  <2> QED
    BY <1>1, <2>2 DEF PatchEnv, PatchInv, PatchTypes
<1>3. job[t].goal \in BridgeGoal \cup EngineGoal
  BY <1>1 DEF PlaceOfPatch, PatchPlaces
<1>4. ASSUME InsideLock(t), ~job[t].crossed
      PROVE  target = job[t].found /\ job[t].proposed = ProposalOf(t)
  BY <1>1, <1>4, UncrossedNow DEF Uncrossed
<1>5. CASE target' = Holding(job[t].proposed) /\ Bridge(t) /\ GoesTo(t, "recheck")
  <2>1. InsideLock(t)
    BY <1>1, <1>5 DEF InsideLock
  <2> QED
    BY <1>1, <1>2, <1>3, <1>4, <1>5, <2>1, GoesKeeps DEF BridgePlaces, PatchPlaces, Inside
<1>6. CASE ~Bridge(t) /\ NowCrossing(t, "verify")
  <2>1. job[t].goal \in EngineGoal
    BY <1>3, <1>6 DEF Bridge
  <2> QED
    BY <1>1, <1>2, <1>6, <2>1, CrossingKeeps
<1>7. CASE UNCHANGED target /\ Conclude(t, "failed")
  BY <1>1, <1>2, <1>4, <1>7, ConcludeKeeps
<1> QED
  BY <1>1, <1>5, <1>6, <1>7

LEMMA RecheckKeeps == ASSUME PatchInv, NEW t \in Patcher, RecheckFile(t) PROVE PatchInv'
<1> DEFINE place == IF target.text = job[t].proposed THEN "verify" ELSE "force"
<1>1. Pc(t) = "recheck" /\ PlaceOfPatch(t) /\ KeepTarget /\ PatchEnv /\ GoesTo(t, place)
  BY EnvStays DEF RecheckFile, PatchInv
<1>2. Bridge(t) /\ job[t].goal \in BridgeGoal /\ InsideLock(t)
  BY <1>1 DEF PlaceOfPatch, BridgePlaces, Bridge, InsideLock
<1>3. ASSUME ~job[t].crossed
      PROVE  /\ target = Holding(job[t].proposed) /\ job[t].proposed = ProposalOf(t)
             /\ place = "verify"
  <2>1. Uncrossed(t)
    BY <1>2, <1>3, UncrossedNow
  <2>2. target = Holding(job[t].proposed) /\ job[t].proposed = ProposalOf(t)
    BY <1>1, <2>1 DEF Uncrossed
  <2>3. target.text = job[t].proposed
    BY <2>2 DEF Holding
  <2> QED
    BY <2>2, <2>3
<1>4. /\ place \in BridgePlaces \cup PatchPlaces /\ place \notin Inside
      /\ place \notin {"rest", "find", "lock"}
  BY DEF BridgePlaces, PatchPlaces, Inside
<1> HIDE DEF place
<1> QED
  BY <1>1, <1>2, <1>3, <1>4, GoesKeeps DEF KeepTarget

LEMMA ForceKeeps == ASSUME PatchInv, NEW t \in Patcher, ForceWrite(t) PROVE PatchInv'
<1>1. /\ Pc(t) = "force" /\ PlaceOfPatch(t) /\ UNCHANGED <<lockFile, memory, rolling, holder>>
      /\ job[t] \in Attempts
      /\ \/ target' = Holding(job[t].proposed) /\ GoesTo(t, "verify")
         \/ UNCHANGED target /\ GoesTo(t, "restore")
  BY DEF ForceWrite, PatchInv, PatchTypes
<1>2. PatchEnv
  <2>1. Holding(job[t].proposed) \in Files
    BY <1>1 DEF Holding, Files, Attempts
  <2>2. target' \in Files
    BY <1>1, <2>1 DEF PatchInv, PatchTypes
  <2> QED
    BY <1>1, <2>2 DEF PatchEnv, PatchInv, PatchTypes
<1>3. Bridge(t) /\ job[t].goal \in BridgeGoal /\ InsideLock(t)
  BY <1>1 DEF PlaceOfPatch, BridgePlaces, Bridge, InsideLock
<1>4. job[t].crossed
  <2>1. job[t].crossed \in BOOLEAN
    BY <1>1 DEF Attempts
  <2>2. ASSUME ~job[t].crossed PROVE FALSE
    BY <1>1, <1>3, <2>2, UncrossedNow DEF Uncrossed
  <2> QED
    BY <2>1, <2>2
<1> QED
  BY <1>1, <1>2, <1>3, <1>4, GoesKeeps DEF BridgePlaces, PatchPlaces, Inside

LEMMA VerifyPatchKeeps == ASSUME PatchInv, NEW t \in Patcher, Verify(t) PROVE PatchInv'
<1>1. /\ Pc(t) = "verify" /\ PlaceOfPatch(t) /\ KeepTarget /\ PatchEnv
      /\ Conclude(t, "applied") \/ IF Bridge(t) THEN GoesTo(t, "restore") ELSE Now(t, Resting)
  BY EnvStays DEF Verify, PatchInv
<1>2. target' = target /\ lockFile' = lockFile
  BY <1>1 DEF KeepTarget
<1>3. ASSUME InsideLock(t), ~job[t].crossed
      PROVE  target' = Holding(job[t].proposed) /\ job[t].proposed = ProposalOf(t)
  BY <1>1, <1>2, <1>3, UncrossedNow DEF Uncrossed
<1>4. CASE Conclude(t, "applied")
  BY <1>1, <1>2, <1>3, <1>4, ConcludeKeeps
<1>5. CASE Bridge(t) /\ GoesTo(t, "restore")
  BY <1>1, <1>2, <1>5, GoesKeeps DEF BridgePlaces, PatchPlaces, Inside
<1>6. CASE Now(t, Resting)
  BY <1>1, <1>2, <1>6, RestKeeps
<1> QED
  BY <1>1, <1>4, <1>5, <1>6

LEMMA RestoreKeeps == ASSUME PatchInv, NEW t \in Patcher, Restore(t) PROVE PatchInv'
<1>1. /\ Pc(t) = "restore" /\ PlaceOfPatch(t) /\ UNCHANGED <<lockFile, memory, rolling, holder>>
      /\ job[t] \in Attempts
      /\ \/ target' = job[t].found /\ Conclude(t, "failed")
         \/ UNCHANGED target /\ Conclude(t, "stuck")
  BY DEF Restore, PatchInv, PatchTypes
<1>2. PatchEnv
  <2>1. target' \in Files
    BY <1>1 DEF PatchInv, PatchTypes, Attempts
  <2> QED
    BY <1>1, <2>1 DEF PatchEnv, PatchInv, PatchTypes
<1>3. InsideLock(t)
  BY <1>1 DEF PlaceOfPatch, BridgePlaces, Bridge, InsideLock
<1> QED
  BY <1>1, <1>2, <1>3, ConcludeKeeps

LEMMA OutOfTimeKeeps == ASSUME PatchInv, NEW t \in Patcher, OutOfTime(t) PROVE PatchInv'
<1>1. KeepTarget /\ PatchEnv /\ target' = target /\ lockFile' = lockFile
  BY EnvStays DEF OutOfTime, KeepTarget
<1>2. CASE Now(t, Resting)
  BY <1>1, <1>2, RestKeeps
<1>3. CASE Pc(t) \in {"validate", "verify"} /\ Conclude(t, "timeout")
  BY <1>1, <1>3, ConcludeKeeps
<1> QED
  BY <1>2, <1>3 DEF OutOfTime

LEMMA UnlockKeeps == ASSUME PatchInv, NEW t \in Patcher, Unlock(t) PROVE PatchInv'
<1> DEFINE q == [Resting EXCEPT !.pc = "find", !.tries = 1, !.goal = job[t].goal,
                                !.body = job[t].body]
<1>1. /\ Pc(t) = "unlock" /\ lockFile' = FALSE /\ UNCHANGED <<target, memory, rolling, holder>>
      /\ PlaceOfPatch(t) /\ job[t] \in Attempts /\ (Now(t, q) \/ Now(t, Resting))
  BY DEF Unlock, PatchInv, PatchTypes
<1>2. PatchEnv
  BY <1>1 DEF PatchEnv, PatchInv, PatchTypes
<1>3. Bridge(t) /\ InsideLock(t)
  BY <1>1 DEF PlaceOfPatch, BridgePlaces, Bridge, InsideLock
<1>4. CASE Now(t, Resting)
  BY <1>1, <1>2, <1>3, <1>4, RestKeeps
<1>5. CASE Now(t, q)
  <2>1. q \in Attempts /\ q.pc = "find" /\ q.goal = job[t].goal
    <3>1. /\ job[t].body \in Seq(Marks)
          /\ job[t].goal \in {"none", "rollback"} \cup BridgeGoal \cup EngineGoal
      BY <1>1 DEF Attempts
    <3>2. Resting \in Attempts
      BY RestingIsAttempt
    <3> QED
      BY <3>1, <3>2 DEF Attempts, PatchPlaces
  <2> HIDE DEF q
  <2>2. job'[t] = q
    BY <1>5 DEF PatchInv, PatchTypes, Now
  <2>3. ~InsideLock(t)' /\ PlaceOfPatch(t)'
    BY <1>3, <2>1, <2>2
       DEF InsideLock, PlaceOfPatch, Pc, Bridge, BridgePlaces, PatchPlaces, Inside
  <2> QED
    BY <1>1, <1>2, <1>3, <1>5, <2>1, <2>3, OneMoves DEF LockOf
<1> QED
  BY <1>1, <1>4, <1>5

\* A rollback goes on, without the lock.
LEMMA RollbackMoves ==
    ASSUME PatchInv, NEW t \in Patcher, NEW r \in Attempts, Now(t, r), PatchEnv,
           UNCHANGED <<target, lockFile>>, Pc(t) \in {"rest"} \cup Inside, r.goal = "rollback",
           r.pc \in Inside
    PROVE  PatchInv'
<1>1. job'[t] = r
  BY DEF PatchInv, PatchTypes, Now
<1>2. ~InsideLock(t)' /\ PlaceOfPatch(t)'
  BY <1>1 DEF InsideLock, PlaceOfPatch, Pc, Bridge, BridgeGoal, BridgePlaces, PatchPlaces, Inside
<1> QED
  BY <1>2, OneMoves DEF LockOf

LEMMA RollbackKeeps ==
    ASSUME PatchInv, NEW t \in Patcher,
           BeginRollback(t) \/ Recall(t) \/ Revert(t) \/ Forget(t) \/ Resume(t)
    PROVE  PatchInv'
<1>1. /\ job[t] \in Attempts /\ memory.was \in Files
      /\ Pc(t) \in Inside => job[t].goal = "rollback"
      /\ target \in Files /\ memory \in [known : BOOLEAN, was : Files]
  BY DEF PatchInv, PatchTypes, PlaceOfPatch
<1>2. Forgotten \in [known : BOOLEAN, was : Files]
  <2>1. Missing \in Files
    BY DEF Missing, Files
  <2> QED
    BY <2>1 DEF Forgotten
<1>3. CASE BeginRollback(t)
  <2> DEFINE q == [job[t] EXCEPT !.pc = "recall", !.goal = "rollback"]
  <2>1. q \in Attempts /\ q.goal = "rollback" /\ q.pc \in Inside
    BY <1>1 DEF Attempts, Inside
  <2>2. Now(t, q) /\ UNCHANGED <<target, lockFile>> /\ Pc(t) = "rest"
    BY <1>3 DEF BeginRollback
  <2> HIDE DEF q
  <2>3. PatchEnv
    BY <1>3 DEF BeginRollback, PatchEnv, PatchInv, PatchTypes
  <2> QED
    BY <2>1, <2>2, <2>3, RollbackMoves
<1>4. CASE Pc(t) \in Inside /\ GoesTo(t, "resume") /\ UNCHANGED <<target, lockFile>> /\ PatchEnv
  <2> DEFINE q == [job[t] EXCEPT !.pc = "resume"]
  <2>1. q \in Attempts /\ q.goal = "rollback" /\ q.pc \in Inside
    BY <1>1, <1>4 DEF Attempts, Inside
  <2>2. Now(t, q)
    BY <1>4 DEF GoesTo
  <2> HIDE DEF q
  <2> QED
    BY <1>4, <2>1, <2>2, RollbackMoves
<1>5. CASE Recall(t)
  <2>1. /\ Pc(t) \in Inside /\ UNCHANGED <<target, lockFile, rolling, holder>>
        /\ memory' \in {memory, Forgotten}
    BY <1>5 DEF Recall, Inside
  <2>2. PatchEnv
    BY <1>1, <1>2, <2>1 DEF PatchEnv, PatchInv, PatchTypes
  <2>3. CASE memory.was.exists
    <3> DEFINE q == [job[t] EXCEPT !.pc = "revert", !.found = memory.was]
    <3>1. q \in Attempts /\ q.goal = "rollback" /\ q.pc \in Inside
      BY <1>1, <2>1 DEF Attempts, Inside
    <3>2. Now(t, q)
      BY <1>5, <2>3 DEF Recall
    <3> HIDE DEF q
    <3> QED
      BY <2>1, <2>2, <3>1, <3>2, RollbackMoves
  <2>4. CASE ~memory.was.exists
    BY <1>4, <1>5, <2>1, <2>2, <2>4 DEF Recall
  <2> QED
    BY <2>3, <2>4
<1>6. CASE Revert(t)
  <2>1. /\ Pc(t) = "revert" /\ UNCHANGED <<lockFile, memory, rolling, holder>>
        /\ \/ target' = job[t].found /\ NowCrossing(t, "forget")
           \/ UNCHANGED target /\ GoesTo(t, "resume")
    BY <1>6 DEF Revert
  <2>2. job[t].goal = "rollback" /\ ~Bridge(t) /\ Pc(t) \in Inside
    BY <1>1, <2>1 DEF Bridge, BridgeGoal, Inside
  <2>3. PatchEnv
    <3>1. target' \in Files
      BY <1>1, <2>1 DEF Attempts
    <3> QED
      BY <2>1, <3>1 DEF PatchEnv, PatchInv, PatchTypes
  <2>4. CASE NowCrossing(t, "forget")
    BY <2>1, <2>2, <2>3, <2>4, CrossingKeeps
  <2>5. CASE UNCHANGED target /\ GoesTo(t, "resume")
    BY <1>4, <2>1, <2>2, <2>3, <2>5
  <2> QED
    BY <2>1, <2>4, <2>5
<1>7. CASE Forget(t)
  <2>1. /\ Pc(t) \in Inside /\ UNCHANGED <<target, lockFile, rolling, holder>>
        /\ memory' = Forgotten /\ GoesTo(t, "resume")
    BY <1>7 DEF Forget, Inside
  <2>2. PatchEnv
    BY <1>2, <2>1 DEF PatchEnv, PatchInv, PatchTypes
  <2> QED
    BY <1>4, <2>1, <2>2
<1>8. CASE Resume(t)
  <2>1. Now(t, Resting) /\ rolling' = FALSE /\ UNCHANGED <<target, lockFile, memory, holder>>
    BY <1>8 DEF Resume
  <2>2. PatchEnv
    BY <2>1 DEF PatchEnv, PatchInv, PatchTypes
  <2> QED
    BY <2>1, <2>2, RestKeeps
<1> QED
  BY <1>3, <1>5, <1>6, <1>7, <1>8

LEMMA PatcherDiesKeeps == ASSUME PatchInv, ProcessDies PROVE PatchInv'
<1>1. /\ \A t \in Patcher : job'[t] = Resting /\ job' \in [Patcher -> Attempts]
      /\ rolling' = FALSE /\ holder' = NoOne /\ UNCHANGED <<target, lockFile, memory>>
  BY RestingIsAttempt DEF ProcessDies
<1>2. job' \in [Patcher -> Attempts]
  BY RestingIsAttempt DEF ProcessDies
<1>3. PatchTypes'
  BY <1>1, <1>2 DEF PatchTypes, PatchInv
<1>4. ASSUME NEW t \in Patcher PROVE ~InsideLock(t)' /\ PlaceOfPatch(t)'
  <2>1. job'[t] = Resting
    BY <1>1
  <2>2. Pc(t)' = "rest"
    BY <2>1 DEF Pc, Resting
  <2> QED
    BY <2>1, <2>2 DEF InsideLock, PlaceOfPatch, BridgePlaces, PatchPlaces, Inside
<1> QED
  BY <1>3, <1>4 DEF PatchInv, OneAttempt

LEMMA PatchNextInv == PatchInv /\ [PatchNext]_patchVars => PatchInv'
<1> SUFFICES ASSUME PatchInv, [PatchNext]_patchVars PROVE PatchInv'
  OBVIOUS
<1>1. CASE UNCHANGED patchVars
  <2>1. UNCHANGED <<target, lockFile, memory, rolling, holder, job>>
    BY <1>1 DEF patchVars
  <2>2. PatchTypes'
    BY <2>1 DEF PatchInv, PatchTypes
  <2>3. OneAttempt'
    BY <2>1 DEF PatchInv, OneAttempt, InsideLock, Bridge, Pc
  <2>4. ASSUME NEW t \in Patcher PROVE PlaceOfPatch(t)'
    <3>1. PlaceOfPatch(t)
      BY DEF PatchInv
    <3> QED
      BY <2>1, <3>1 DEF PlaceOfPatch, Bridge, Pc
  <2>5. ASSUME NEW t \in Patcher, (InsideLock(t) /\ ~job[t].crossed)' PROVE Uncrossed(t)'
    <3>1. InsideLock(t) /\ ~job[t].crossed
      BY <2>1, <2>5 DEF InsideLock, Bridge, Pc
    <3>2. Uncrossed(t)
      BY <3>1 DEF PatchInv
    <3> QED
      BY <2>1, <3>2 DEF Uncrossed, ProposalOf, Pc
  <2> QED
    BY <2>2, <2>3, <2>4, <2>5 DEF PatchInv
<1>2. CASE ProcessDies
  BY <1>2, PatcherDiesKeeps
<1>3. ASSUME NEW t \in Patcher, FindLocked(t) PROVE PatchInv'
  BY <1>3, EnvStays, RestKeeps DEF FindLocked, KeepTarget
<1> QED
  BY <1>1, <1>2, <1>3, BeginKeeps, FindKeeps, TakeLockKeeps, ProposeKeeps, ValidateKeeps,
     CheckAgainKeeps, WritePatchKeeps, RecheckKeeps, ForceKeeps, VerifyPatchKeeps, RestoreKeeps,
     OutOfTimeKeeps, UnlockKeeps, RollbackKeeps DEF PatchNext

\* The file, its locks, the memory and what each thread works with have their types, and a
\* text is one of marks.
THEOREM PatchTypeCorrect == PatchSpec => []PatchTypeOK
<1>1. PatchInv => PatchTypeOK
  <2> SUFFICES ASSUME PatchInv PROVE PatchTypeOK
    OBVIOUS
  <2>1. PatchTypes
    BY DEF PatchInv
  <2>2. /\ target.exists \in BOOLEAN /\ Texts(target.text)
        /\ memory.known \in BOOLEAN /\ Texts(memory.was.text)
    BY <2>1 DEF PatchTypes, Files, Texts, Marks
  <2>3. ASSUME NEW t \in Patcher
        PROVE  /\ DOMAIN job[t] = DOMAIN Resting
               /\ Texts(job[t].body) /\ Texts(job[t].proposed) /\ Texts(job[t].found.text)
    <3>1. job[t] \in Attempts /\ Resting \in Attempts
      BY <2>1, RestingIsAttempt DEF PatchTypes
    <3>2. DOMAIN job[t] = DOMAIN Resting
      BY <3>1 DEF Attempts
    <3> QED
      BY <3>1, <3>2 DEF Attempts, Files, Texts, Marks
  <2> QED
    BY <2>1, <2>2, <2>3 DEF PatchTypeOK, PatchTypes
<1> QED
  BY <1>1, PatchInitInv, PatchNextInv, PTL DEF PatchSpec

\* An attempt under the .lock that nobody crosses is all or nothing, for any number of threads
\* and goals: what it reports as applied the file holds, with whatever patch it held before,
\* and what it reports as failed, blocked or only shown has left the file as it was.
THEOREM PatchIsWhole == PatchSpec => []AttemptIsWhole
<1>1. PatchInv => AttemptIsWhole
  <2> SUFFICES ASSUME PatchInv, NEW t \in Patcher, Pc(t) = "unlock", ~job[t].crossed
               PROVE  /\ job[t].result \in {"failed", "blocked", "shown", "no change"} =>
                            target = job[t].found
                      /\ job[t].result = "applied" =>
                            /\ target = Holding(job[t].proposed)
                            /\ job[t].goal # "replace" =>
                                \A i \in DOMAIN job[t].found.text :
                                    \E n \in DOMAIN target.text :
                                        target.text[n] = job[t].found.text[i]
    BY DEF AttemptIsWhole
  <2>1. job[t] \in Attempts /\ Bridge(t) /\ InsideLock(t)
    BY DEF PatchInv, PatchTypes, PlaceOfPatch, BridgePlaces, InsideLock
  <2>2. Uncrossed(t)
    BY <2>1, UncrossedNow
  <2>3. ASSUME job[t].result = "applied", job[t].goal # "replace",
               NEW i \in DOMAIN job[t].found.text
        PROVE  \E n \in DOMAIN target.text : target.text[n] = job[t].found.text[i]
    <3> DEFINE b == job[t].body
               f == job[t].found.text
    <3>1. b \in Seq(Marks) /\ f \in Seq(Marks) /\ t \in Marks
      BY <2>1 DEF Attempts, Files, Marks
    <3>2. target.text = ProposalOf(t)
      BY <2>2, <2>3 DEF Uncrossed, Holding
    <3>3. CASE job[t].goal = "insert"
      <4>1. target.text = b \o f
        BY <3>2, <3>3 DEF ProposalOf
      <4> HIDE DEF b, f
      <4>2. i \in 1 .. Len(f) /\ Len(b) \in Nat
        BY <2>3, <3>1 DEF f
      <4>3. Len(b) + i \in DOMAIN (b \o f) /\ (b \o f)[Len(b) + i] = f[i]
        BY <3>1, <4>2
      <4> QED
        BY <4>1, <4>3 DEF f
    <3>4. CASE job[t].goal \in Composed
      <4>1. target.text = Append(f, t)
        BY <2>2, <3>2, <3>4 DEF ProposalOf, Uncrossed, Composed
      <4> HIDE DEF b, f
      <4>2. i \in 1 .. Len(f)
        BY <2>3, <3>1 DEF f
      <4>3. i \in DOMAIN Append(f, t) /\ Append(f, t)[i] = f[i]
        BY <3>1, <4>2
      <4> QED
        BY <4>1, <4>3 DEF f
    <3> QED
      BY <2>1, <2>3, <3>3, <3>4 DEF Bridge, BridgeGoal, Composed
  <2>4. job[t].result = "applied" => target = Holding(job[t].proposed)
    BY <2>2 DEF Uncrossed
  <2>5. job[t].result \in {"failed", "blocked", "shown", "no change"} => target = job[t].found
    BY <2>2 DEF Uncrossed
  <2> QED
    BY <2>3, <2>4, <2>5
<1> QED
  BY <1>1, PatchInitInv, PatchNextInv, PTL DEF PatchSpec

-----------------------------------------------------------------------------
(* The two task files *)

SavedLists == [tasks : [EngineTask -> TaskRecords], next : Nat \ {0}]

EngineRecords ==
    [pc : {"off", "idle", "save", "write", "mirror", "mirroring"}, mem : SavedLists,
     saw : SavedLists \cup {Torn}, phase : {"rest", "first", "step", "last", "handler"},
     run : EngineTask \cup {0}, todo : SUBSET EngineTask, read : Docs \cup {<<>>}]

PanelRecords ==
    [pc : {"idle", "write", "delete", "trashed", "restore", "restored"}, row : Row \cup {0},
     new : RowStates, read : Docs \cup {<<>>}]

FileTypesOK ==
    /\ disk \in SavedLists \cup {Torn} /\ doc \in Docs
    /\ adrift \subseteq EngineTask /\ raced \in BOOLEAN

PanelTypesOK ==
    /\ trash \in [Row -> Seq(RowStates \ {"none"})] /\ \A r \in Row : Len(trash[r]) <= MaxTrash[r]
    /\ panel \in PanelRecords /\ cut \in BOOLEAN
    /\ made \subseteq PanelTask /\ purged \subseteq made

EngineTypesOK == engine \in [Engine -> EngineRecords]

EngineMirrors(e) == engine[e].pc \in {"mirror", "mirroring"}

\* What an engine mirrors is what it has saved, and at rest it has nothing to mirror.
EngineShape(e) ==
    /\ (engine[e].run = 0) <=> Phase(e, "rest")
    /\ engine[e].pc = "mirroring" => engine[e].read \in Docs
    /\ EngineMirrors(e) => engine[e].saw = engine[e].mem
    /\ engine[e].pc \in {"off", "idle"} => engine[e].todo = {}
    /\ engine[e].pc = "off" => engine[e] = Off

PanelShape ==
    /\ panel.pc # "idle" => panel.row \in Row /\ panel.read \in Docs
    /\ panel.pc = "delete" =>
        panel.read[panel.row] # "none" /\ Len(trash[panel.row]) < MaxTrash[panel.row]
    /\ panel.pc \in {"trashed", "restore", "restored"} => trash[panel.row] # <<>>

\* A row that was never made is nowhere, and in no copy of the list.
Unlisted ==
    \A r \in PanelTask \ made :
        /\ doc[r] = "none" /\ trash[r] = <<>>
        /\ panel.pc # "idle" => panel.read[r] = "none" /\ (panel.row = r => panel.pc = "write")
        /\ \A e \in Engine : engine[e].pc = "mirroring" => engine[e].read[r] = "none"

StoreShape ==
    /\ FileTypesOK /\ PanelTypesOK /\ EngineTypesOK
    /\ PanelShape /\ Unlisted /\ \A e \in Engine : EngineShape(e)

\* What a request about a row of the panel found, and what it will leave.
RequestOn(r) ==
    /\ panel.pc = "write" =>
        IF r \in made
        THEN (panel.new # "none" <=> doc[r] # "none") /\ (doc[r] # "none" \/ r \in purged)
        ELSE panel.new # "none"
    /\ panel.pc \in {"delete", "trashed"} => doc[r] # "none" /\ panel.new = "none"
    /\ panel.pc = "restore" => doc[r] = "none" /\ panel.new # "none"
    /\ panel.pc = "restored" => doc[r] # "none"

PanelKeeps ==
    /\ panel.pc \notin {"idle", "restored"} => \A r \in PanelTask : panel.read[r] = doc[r]
    /\ panel.pc # "idle" /\ panel.row \in PanelTask => RequestOn(panel.row)

ListedIn(r) == IF doc[r] # "none" THEN 1 ELSE 0
PurgedIn(r) == IF r \in purged THEN 1 ELSE 0
PlacesOf(r) == Len(trash[r]) + ListedIn(r) + PurgedIn(r)

\* Between its two files a request has the row in both.
Due(r) == IF panel.pc \in {"trashed", "restored"} /\ panel.row = r THEN 2 ELSE 1

PlacesHold == \A r \in made : PlacesOf(r) >= 1 /\ (~cut => PlacesOf(r) = Due(r))

\* An engine has still to bring the row of the task to this, and will.
Owes(e, i, row) ==
    /\ EngineMirrors(e) /\ i \in engine[e].todo /\ RowOf(Tasks(e)[i]) = row
    /\ engine[e].pc = "mirroring" => engine[e].read[i] # row

Follows(i, row) == doc[i] = row \/ \E e \in Engine : Owes(e, i, row)

RowsFollow == disk # Torn => \A i \in EngineTask \ adrift : Follows(i, RowOf(disk.tasks[i]))

\* One engine writes at a time, and what it does not change is listed as it has it.
WriterFollows ==
    \A e \in Engine : engine[e].pc = "write" =>
        /\ disk = Torn /\ \A o \in Engine : engine[o].pc = "write" => o = e
        /\ \A i \in EngineTask \ (adrift \cup engine[e].todo) : Follows(i, RowOf(Tasks(e)[i]))

TornIsWritten == disk = Torn => SomeoneWrites \/ adrift = EngineTask

SavedButTodo(e) == \A i \in EngineTask \ (adrift \cup engine[e].todo) : ~Unsaved(e, i)

EngineKeeps ==
    RowsFollow /\ WriterFollows /\ TornIsWritten /\ \A e \in Engine : SavedButTodo(e)

StoreInv == StoreShape /\ (~raced => PanelKeeps /\ PlacesHold /\ EngineKeeps)

LEMMA NoTaskIsTask == NoTask \in TaskRecords
  BY DEF NoTask, Task, TaskRecords

LEMMA EmptyIsSaved == Empty \in SavedLists
  BY NoTaskIsTask DEF Empty, SavedLists

LEMMA TornIsNotSaved == Torn \notin SavedLists
  BY DEF Torn, SavedLists

LEMMA OffIsEngine == Off \in EngineRecords /\ Off.pc = "off" /\ Off.todo = {} /\ Off.run = 0
                     /\ Off.phase = "rest" /\ Off.saw = Empty /\ Off.mem = Empty
  BY EmptyIsSaved DEF Off, EngineRecords

LEMMA RowIsState == ASSUME NEW t \in TaskRecords PROVE RowOf(t) \in RowStates
  BY DEF RowOf, RowStates

LEMMA StoreInitInv == StoreInit => StoreInv
<1> SUFFICES ASSUME StoreInit PROVE StoreInv
  OBVIOUS
<1>1. FileTypesOK
  BY EmptyIsSaved DEF StoreInit, FileTypesOK, Docs, RowStates
<1>2. PanelTypesOK
  <2>1. Waiting \in PanelRecords
    BY DEF Waiting, PanelRecords, RowStates
  <2>2. \A r \in Row : trash[r] = <<>> /\ Len(<<>>) = 0 /\ MaxTrash[r] \in Nat
    BY StoreAssumption DEF StoreInit, Row
  <2>3. trash \in [Row -> Seq(RowStates \ {"none"})]
    BY DEF StoreInit
  <2>4. \A r \in Row : Len(trash[r]) <= MaxTrash[r]
    BY <2>2
  <2>5. panel \in PanelRecords /\ cut \in BOOLEAN /\ made = {} /\ purged = {}
    BY <2>1 DEF StoreInit
  <2> QED
    BY <2>3, <2>4, <2>5 DEF PanelTypesOK
<1>3. \A e \in Engine : engine[e] = Off
  BY DEF StoreInit
<1>4. EngineTypesOK
  BY OffIsEngine DEF StoreInit, EngineTypesOK
<1>5. panel.pc = "idle" /\ made = {} /\ doc = [r \in Row |-> "none"] /\ trash = [r \in Row |-> <<>>]
  BY DEF StoreInit, Waiting
<1>6. \A e \in Engine : EngineShape(e)
  BY <1>3, OffIsEngine DEF EngineShape, EngineMirrors, Phase
<1>7. PanelShape /\ PanelKeeps /\ PlacesHold
  BY <1>5 DEF PanelShape, PanelKeeps, PlacesHold
<1>8. Unlisted
  BY <1>3, <1>5, OffIsEngine DEF Unlisted, Row
<1>9. EngineKeeps
  <2>1. \A e \in Engine : engine[e].pc = "off" /\ ~\E i \in EngineTask : Unsaved(e, i)
    BY <1>3, OffIsEngine DEF Unsaved
  <2>2. disk = Empty /\ Empty # Torn
    BY EmptyIsSaved, TornIsNotSaved DEF StoreInit
  <2>3. RowsFollow
    <3> SUFFICES ASSUME NEW i \in EngineTask PROVE doc[i] = RowOf(Empty.tasks[i])
      BY <2>2 DEF RowsFollow, Follows
    <3>1. Empty.tasks[i] = NoTask
      BY DEF Empty
    <3> QED
      BY <1>5, <3>1 DEF RowOf, NoTask, Task, Row
  <2> QED
    BY <2>1, <2>2, <2>3 DEF EngineKeeps, WriterFollows, TornIsWritten, SavedButTodo
<1> QED
  BY <1>1, <1>2, <1>4, <1>6, <1>7, <1>8, <1>9 DEF StoreInv, StoreShape

\* The files change by what an engine reads and writes; the panel's rows do not.
LEMMA ShapeOfEngineStep ==
    ASSUME StoreShape, NEW e \in Engine, NEW r \in EngineRecords, Set(e, r), UNCHANGED panelVars,
           FileTypesOK', \A p \in PanelTask \ made : doc'[p] = "none",
           r.run = 0 <=> r.phase = "rest",
           r.pc = "mirroring" => r.read = doc,
           r.pc \in {"mirror", "mirroring"} => r.saw = r.mem,
           r.pc \in {"off", "idle"} => r.todo = {},
           r.pc = "off" => r = Off
    PROVE  StoreShape'
<1>1. engine'[e] = r /\ engine' \in [Engine -> EngineRecords]
      /\ \A o \in Engine : o # e => engine'[o] = engine[o]
  BY DEF StoreShape, EngineTypesOK, Set
<1>2. EngineTypesOK' /\ PanelTypesOK' /\ PanelShape'
  BY <1>1 DEF EngineTypesOK, StoreShape, PanelTypesOK, PanelShape, panelVars
<1>3. ASSUME NEW o \in Engine PROVE EngineShape(o)'
  <2>1. CASE o = e
    <3>1. r.pc = "mirroring" => r.read \in Docs
      BY DEF StoreShape, FileTypesOK
    <3> QED
      BY <1>1, <2>1, <3>1 DEF EngineShape, EngineMirrors, Phase
  <2>2. CASE o # e
    <3>1. EngineShape(o) /\ engine'[o] = engine[o]
      BY <1>1, <2>2 DEF StoreShape
    <3> QED
      BY <3>1 DEF EngineShape, EngineMirrors, Phase
  <2> QED
    BY <2>1, <2>2
<1>4. Unlisted'
  <2> SUFFICES ASSUME NEW p \in PanelTask \ made
               PROVE  \A o \in Engine : engine'[o].pc = "mirroring" => engine'[o].read[p] = "none"
    BY DEF Unlisted, StoreShape, panelVars
  <2>1. doc[p] = "none"
    BY DEF StoreShape, Unlisted
  <2> SUFFICES ASSUME NEW o \in Engine, engine'[o].pc = "mirroring"
               PROVE  engine'[o].read[p] = "none"
    OBVIOUS
  <2>2. CASE o = e
    BY <1>1, <2>1, <2>2
  <2>3. CASE o # e
    BY <1>1, <2>3 DEF StoreShape, Unlisted
  <2> QED
    BY <2>2, <2>3
<1> QED
  BY <1>2, <1>3, <1>4 DEF StoreShape

\* What an engine leaves of the panel's rows keeps the panel's books.
LEMMA PanelKeepsThrough ==
    ASSUME StoreShape, PanelKeeps, PlacesHold, UNCHANGED panelVars,
           \A p \in PanelTask : doc'[p] = doc[p]
    PROVE  PanelKeeps' /\ PlacesHold'
<1>1. made \subseteq PanelTask
  BY DEF StoreShape, PanelTypesOK
<1>2. PanelKeeps'
  BY DEF PanelKeeps, RequestOn, panelVars
<1>3. PlacesHold'
  BY <1>1 DEF PlacesHold, PlacesOf, ListedIn, PurgedIn, Due, panelVars
<1> QED
  BY <1>2, <1>3

\* The other engines' debts stay, and so does what the engine of the step does not change.
LEMMA FollowsThrough ==
    ASSUME NEW e \in Engine, NEW i \in EngineTask, NEW row,
           \A o \in Engine : o # e => engine'[o] = engine[o], doc'[i] = doc[i],
           Owes(e, i, row) => Owes(e, i, row)' \/ doc[i] = row,
           Follows(i, row)
    PROVE  Follows(i, row)'
<1>1. CASE doc[i] = row
  BY <1>1 DEF Follows
<1>2. ASSUME NEW o \in Engine, Owes(o, i, row) PROVE Follows(i, row)'
  <2>1. CASE o = e
    BY <1>2, <2>1 DEF Follows
  <2>2. CASE o # e
    BY <1>2, <2>2 DEF Follows, Owes, EngineMirrors, Tasks
  <2> QED
    BY <2>1, <2>2
<1> QED
  BY <1>1, <1>2 DEF Follows

\* A step of an engine that does not touch its file.
LEMMA EngineStepKeeps ==
    ASSUME StoreShape, EngineKeeps, NEW e \in Engine, NEW r \in EngineRecords, Set(e, r),
           disk' = disk, adrift \subseteq adrift', adrift' \subseteq EngineTask,
           r.pc # "write", engine[e].pc = "write" => adrift' = EngineTask,
           \A i \in EngineTask \ adrift' : doc'[i] = doc[i],
           \A i \in EngineTask \ adrift' : \A row :
               Owes(e, i, row) => Owes(e, i, row)' \/ doc[i] = row,
           \A i \in EngineTask \ (adrift' \cup r.todo) :
               r.saw = Torn \/ r.mem.tasks[i] = r.saw.tasks[i]
    PROVE  EngineKeeps'
<1>1. engine'[e] = r /\ \A o \in Engine : o # e => engine'[o] = engine[o]
  BY DEF StoreShape, EngineTypesOK, Set
<1>2. RowsFollow'
  <2> SUFFICES ASSUME disk # Torn, NEW i \in EngineTask \ adrift'
               PROVE  Follows(i, RowOf(disk.tasks[i]))'
    BY DEF RowsFollow
  <2>1. Follows(i, RowOf(disk.tasks[i]))
    BY DEF EngineKeeps, RowsFollow
  <2> DEFINE row == RowOf(disk.tasks[i])
  <2>2. row' = row
    OBVIOUS
  <2> HIDE DEF row
  <2> QED
    BY <1>1, <2>1, <2>2, FollowsThrough DEF Follows, row
<1>3. WriterFollows'
  <2> SUFFICES ASSUME NEW w \in Engine, engine'[w].pc = "write"
               PROVE  /\ disk = Torn /\ \A o \in Engine : engine'[o].pc = "write" => o = w
                      /\ \A i \in EngineTask \ (adrift' \cup engine'[w].todo) :
                            Follows(i, RowOf(Tasks(w)[i]))'
    BY DEF WriterFollows
  <2>1. w # e /\ engine'[w] = engine[w]
    BY <1>1
  <2>2. disk = Torn /\ \A o \in Engine : engine'[o].pc = "write" => o = w
    BY <1>1, <2>1 DEF EngineKeeps, WriterFollows
  <2>3. ASSUME NEW i \in EngineTask \ (adrift' \cup engine'[w].todo)
        PROVE  Follows(i, RowOf(Tasks(w)[i]))'
    <3>1. Follows(i, RowOf(Tasks(w)[i]))
      BY <2>1, <2>3 DEF EngineKeeps, WriterFollows
    <3> DEFINE row == RowOf(Tasks(w)[i])
    <3>2. row' = row
      BY <2>1 DEF Tasks
    <3> HIDE DEF row
    <3> QED
      BY <1>1, <3>1, <3>2, FollowsThrough DEF Follows, row
  <2> QED
    BY <2>2, <2>3
<1>4. TornIsWritten'
  BY <1>1 DEF EngineKeeps, TornIsWritten, SomeoneWrites
<1>5. ASSUME NEW o \in Engine PROVE SavedButTodo(o)'
  <2>1. CASE o = e
    BY <1>1, <2>1 DEF SavedButTodo, Unsaved
  <2>2. CASE o # e
    BY <1>1, <2>2 DEF EngineKeeps, SavedButTodo, Unsaved
  <2> QED
    BY <2>1, <2>2
<1> QED
  BY <1>2, <1>3, <1>4, <1>5 DEF EngineKeeps

LEMMA ChangedIs ==
    ASSUME NEW e \in Engine, engine[e] \in EngineRecords, NEW ids \in SUBSET EngineTask,
           NEW tasks \in [EngineTask -> TaskRecords]
    PROVE  /\ Changed(e, tasks, ids) \in EngineRecords
           /\ Changed(e, tasks, ids).mem = [tasks |-> tasks, next |-> engine[e].mem.next]
           /\ Changed(e, tasks, ids).todo = ids /\ Changed(e, tasks, ids).pc = engine[e].pc
           /\ Changed(e, tasks, ids).saw = engine[e].saw
           /\ Changed(e, tasks, ids).phase = engine[e].phase
           /\ Changed(e, tasks, ids).run = engine[e].run
           /\ Changed(e, tasks, ids).read = engine[e].read
<1> DEFINE m == [tasks |-> tasks, next |-> engine[e].mem.next]
<1>1. m \in SavedLists
  BY DEF EngineRecords, SavedLists
<1>2. Changed(e, tasks, ids) = [engine[e] EXCEPT !.mem = m, !.todo = ids]
  BY DEF Changed
<1> HIDE DEF m
<1>3. /\ Changed(e, tasks, ids) \in EngineRecords
      /\ Changed(e, tasks, ids).mem = m
      /\ Changed(e, tasks, ids).todo = ids /\ Changed(e, tasks, ids).pc = engine[e].pc
      /\ Changed(e, tasks, ids).saw = engine[e].saw
      /\ Changed(e, tasks, ids).phase = engine[e].phase
      /\ Changed(e, tasks, ids).run = engine[e].run
      /\ Changed(e, tasks, ids).read = engine[e].read
  BY <1>1, <1>2 DEF EngineRecords
<1> QED
  BY <1>3 DEF m

\* An engine changes tasks of its list, and means to save and to mirror them.
LEMMA ChangeKeeps ==
    ASSUME StoreInv, NEW e \in Engine, NEW c \in EngineRecords, Change(e, c),
           c.saw = engine[e].saw, c.run = 0 <=> c.phase = "rest",
           \A i \in EngineTask \ c.todo : c.mem.tasks[i] = Tasks(e)[i]
    PROVE  StoreInv'
<1> DEFINE r == [c EXCEPT !.pc = "save"]
<1>1. engine[e].pc = "idle" /\ Set(e, r) /\ KeepFiles /\ UNCHANGED panelVars
  BY DEF Change
<1>2. /\ r \in EngineRecords /\ r.pc = "save" /\ r.saw = c.saw /\ r.mem = c.mem /\ r.todo = c.todo
      /\ r.run = c.run /\ r.phase = c.phase
  BY DEF EngineRecords
<1> HIDE DEF r
<1>3. StoreShape /\ FileTypesOK' /\ EngineShape(e)
  BY <1>1 DEF StoreInv, StoreShape, FileTypesOK, KeepFiles
<1>4. StoreShape'
  <2>1. \A p \in PanelTask \ made : doc'[p] = "none"
    BY <1>1, <1>3 DEF KeepFiles, StoreShape, Unlisted
  <2> QED
    BY <1>1, <1>2, <1>3, <2>1, ShapeOfEngineStep
<1>5. ASSUME ~raced, PanelKeeps, PlacesHold, EngineKeeps
      PROVE  PanelKeeps' /\ PlacesHold' /\ EngineKeeps'
  <2>1. PanelKeeps' /\ PlacesHold'
    BY <1>1, <1>3, <1>5, PanelKeepsThrough DEF KeepFiles
  <2>2. \A i \in EngineTask : \A row : ~Owes(e, i, row)
    BY <1>1 DEF Owes, EngineMirrors
  <2>3. ASSUME NEW i \in EngineTask \ (adrift' \cup r.todo)
        PROVE  r.saw = Torn \/ r.mem.tasks[i] = r.saw.tasks[i]
    <3>1. engine[e].todo = {} /\ adrift' = adrift
      BY <1>1, <1>3 DEF EngineShape, KeepFiles
    <3>2. ~Unsaved(e, i)
      BY <1>5, <2>3, <3>1 DEF EngineKeeps, SavedButTodo
    <3> QED
      BY <1>2, <2>3, <3>2 DEF Unsaved, Tasks
  <2>4. EngineKeeps'
    <3>1. disk' = disk /\ adrift' = adrift /\ doc' = doc /\ adrift \subseteq EngineTask
      BY <1>1, <1>3 DEF KeepFiles, StoreShape, FileTypesOK
    <3> QED
      BY <1>1, <1>2, <1>3, <1>5, <2>2, <2>3, <3>1, EngineStepKeeps
  <2> QED
    BY <2>1, <2>4
<1>6. raced' = raced
  BY <1>1 DEF KeepFiles
<1> QED
  BY <1>4, <1>5, <1>6 DEF StoreInv

LEMMA EngineIsTyped ==
    ASSUME StoreInv, NEW e \in Engine
    PROVE  /\ engine[e] \in EngineRecords /\ Tasks(e) \in [EngineTask -> TaskRecords]
           /\ engine[e].mem.next \in Nat \ {0} /\ EngineShape(e)
           /\ engine[e].run \in EngineTask \cup {0}
  BY DEF StoreInv, StoreShape, EngineTypesOK, EngineRecords, SavedLists, Tasks

LEMMA StatusSet ==
    ASSUME StoreInv, NEW e \in Engine, NEW i \in EngineTask,
           NEW s \in {"none", "pending", "running", "done", "simulation", "halted"}
    PROVE  /\ SetStatus(e, i, s) \in [EngineTask -> TaskRecords]
           /\ \A j \in EngineTask \ {i} : SetStatus(e, i, s)[j] = Tasks(e)[j]
<1>1. Tasks(e) \in [EngineTask -> TaskRecords]
  BY EngineIsTyped
<1>2. [Tasks(e)[i] EXCEPT !.status = s] \in TaskRecords
  BY <1>1 DEF TaskRecords
<1> QED
  BY <1>1, <1>2 DEF SetStatus

LEMMA SimpleChangeKeeps ==
    ASSUME StoreInv, NEW e \in Engine, NEW ids \in SUBSET EngineTask,
           NEW tasks \in [EngineTask -> TaskRecords], Change(e, Changed(e, tasks, ids)),
           \A i \in EngineTask \ ids : tasks[i] = Tasks(e)[i]
    PROVE  StoreInv'
<1> DEFINE c == Changed(e, tasks, ids)
<1>1. /\ c \in EngineRecords /\ c.mem = [tasks |-> tasks, next |-> engine[e].mem.next]
      /\ c.todo = ids /\ c.saw = engine[e].saw /\ c.phase = engine[e].phase
      /\ c.run = engine[e].run
  BY EngineIsTyped, ChangedIs
<1>2. Change(e, c)
  OBVIOUS
<1> HIDE DEF c
<1>3. c.mem.tasks = tasks
  BY <1>1
<1>4. c.run = 0 <=> c.phase = "rest"
  BY <1>1, EngineIsTyped DEF EngineShape, Phase
<1> QED
  BY <1>1, <1>2, <1>3, <1>4, ChangeKeeps

LEMMA CreateTaskKeeps == ASSUME StoreInv, NEW e \in Engine, CreateTask(e) PROVE StoreInv'
<1> DEFINE n == engine[e].mem.next
           tasks == [Tasks(e) EXCEPT ![n] = Task("pending", FALSE)]
           m == [tasks |-> tasks, next |-> n + 1]
           c == [engine[e] EXCEPT !.mem = m, !.todo = {n}]
<1>1. n \in EngineTask /\ Change(e, c)
  BY DEF CreateTask, Tasks
<1>2. engine[e] \in EngineRecords /\ Tasks(e) \in [EngineTask -> TaskRecords] /\ n \in Nat \ {0}
      /\ EngineShape(e)
  BY EngineIsTyped
<1>3. tasks \in [EngineTask -> TaskRecords] /\ \A j \in EngineTask \ {n} : tasks[j] = Tasks(e)[j]
  <2>1. Task("pending", FALSE) \in TaskRecords
    BY DEF Task, TaskRecords
  <2> QED
    BY <1>2, <2>1
<1> HIDE DEF tasks
<1>4. m \in SavedLists /\ m.tasks = tasks
  BY <1>2, <1>3 DEF SavedLists
<1> HIDE DEF m
<1>5. /\ c \in EngineRecords /\ c.mem = m /\ c.todo = {n} /\ c.saw = engine[e].saw
      /\ c.run = engine[e].run /\ c.phase = engine[e].phase
  BY <1>1, <1>2, <1>4 DEF EngineRecords
<1> HIDE DEF c
<1>6. c.run = 0 <=> c.phase = "rest"
  BY <1>2, <1>5 DEF EngineShape, Phase
<1> QED
  BY <1>1, <1>3, <1>4, <1>5, <1>6, ChangeKeeps

LEMMA RunKeeps ==
    ASSUME StoreInv, NEW e \in Engine, NEW i \in EngineTask, Run(e, i) PROVE StoreInv'
<1> DEFINE b == Changed(e, SetStatus(e, i, "running"), {i})
           c == [b EXCEPT !.phase = "first", !.run = i]
<1>1. Change(e, c)
  BY DEF Run
<1>2. b \in EngineRecords /\ b.mem.tasks = SetStatus(e, i, "running") /\ b.todo = {i}
      /\ b.saw = engine[e].saw
  <2>1. SetStatus(e, i, "running") \in [EngineTask -> TaskRecords]
    BY StatusSet
  <2>2. b \in EngineRecords /\ b.todo = {i} /\ b.saw = engine[e].saw
        /\ b.mem = [tasks |-> SetStatus(e, i, "running"), next |-> engine[e].mem.next]
    BY <2>1, EngineIsTyped, ChangedIs
  <2> QED
    BY <2>2
<1> HIDE DEF b
<1>3. /\ c \in EngineRecords /\ c.mem = b.mem /\ c.todo = {i} /\ c.saw = b.saw /\ c.run = i
      /\ c.phase = "first"
  BY <1>2 DEF EngineRecords
<1> HIDE DEF c
<1>4. i # 0
  BY StoreAssumption
<1>5. \A j \in EngineTask \ c.todo : c.mem.tasks[j] = Tasks(e)[j]
  BY <1>2, <1>3, StatusSet
<1> QED
  BY <1>1, <1>2, <1>3, <1>4, <1>5, ChangeKeeps

LEMMA FinishKeeps == ASSUME StoreInv, NEW e \in Engine, Finish(e) PROVE StoreInv'
<1>1. PICK s \in {"done", "simulation", "halted"} :
        Change(e, [Changed(e, SetStatus(e, engine[e].run, s), {engine[e].run})
                      EXCEPT !.phase = "last"])
  BY DEF Finish
<1> DEFINE i == engine[e].run
           b == Changed(e, SetStatus(e, i, s), {i})
           c == [b EXCEPT !.phase = "last"]
<1>2. Change(e, c)
  BY <1>1
<1>3. i \in EngineTask
  BY EngineIsTyped DEF EngineShape, Finish, Phase
<1>4. b \in EngineRecords /\ b.mem.tasks = SetStatus(e, i, s) /\ b.todo = {i}
      /\ b.saw = engine[e].saw /\ b.run = i
  <2>1. SetStatus(e, i, s) \in [EngineTask -> TaskRecords]
    BY <1>3, StatusSet
  <2>2. b \in EngineRecords /\ b.todo = {i} /\ b.saw = engine[e].saw /\ b.run = i
        /\ b.mem = [tasks |-> SetStatus(e, i, s), next |-> engine[e].mem.next]
    BY <1>3, <2>1, EngineIsTyped, ChangedIs
  <2> QED
    BY <2>2
<1> HIDE DEF b
<1>5. /\ c \in EngineRecords /\ c.mem = b.mem /\ c.todo = {i} /\ c.saw = b.saw /\ c.run = i
      /\ c.phase = "last"
  BY <1>4 DEF EngineRecords
<1> HIDE DEF c
<1>6. i # 0
  BY <1>3, StoreAssumption
<1>7. \A j \in EngineTask \ c.todo : c.mem.tasks[j] = Tasks(e)[j]
  BY <1>3, <1>4, <1>5, StatusSet
<1> HIDE DEF i
<1> QED
  BY <1>2, <1>4, <1>5, <1>6, <1>7, ChangeKeeps

\* Whatever else an engine at rest, or between two steps of a run, does to its list.
LEMMA ChangesKeep ==
    ASSUME StoreInv, NEW e \in Engine,
           \/ RunStep(e)
           \/ \E i \in EngineTask : Cancel(e, i) \/ Archive(e, i) \/ Drop(e, i)
           \/ \E s \in {"done", "simulation"} : ArchiveAll(e, s)
    PROVE  StoreInv'
<1>1. Tasks(e) \in [EngineTask -> TaskRecords]
  BY EngineIsTyped
<1>2. CASE RunStep(e)
  <2>1. engine[e].run \in EngineTask
    BY <1>2, EngineIsTyped DEF EngineShape, RunStep, Phase
  <2> QED
    BY <1>1, <1>2, <2>1, SimpleChangeKeeps DEF RunStep
<1>3. ASSUME NEW i \in EngineTask, Cancel(e, i) PROVE StoreInv'
  <2>1. /\ SetStatus(e, i, "halted") \in [EngineTask -> TaskRecords]
        /\ \A j \in EngineTask \ {i} : SetStatus(e, i, "halted")[j] = Tasks(e)[j]
    BY StatusSet
  <2> QED
    BY <1>3, <2>1, SimpleChangeKeeps DEF Cancel
<1>4. ASSUME NEW i \in EngineTask, Archive(e, i) PROVE StoreInv'
  <2> DEFINE tasks == [Tasks(e) EXCEPT ![i].archived = TRUE]
  <2>1. [Tasks(e)[i] EXCEPT !.archived = TRUE] \in TaskRecords
    BY <1>1 DEF TaskRecords
  <2>2. tasks \in [EngineTask -> TaskRecords] /\ \A j \in EngineTask \ {i} : tasks[j] = Tasks(e)[j]
    BY <1>1, <2>1
  <2>3. Change(e, Changed(e, tasks, {i}))
    BY <1>4 DEF Archive
  <2> HIDE DEF tasks
  <2> QED
    BY <2>2, <2>3, SimpleChangeKeeps
<1>5. ASSUME NEW i \in EngineTask, Drop(e, i) PROVE StoreInv'
  <2> DEFINE tasks == [Tasks(e) EXCEPT ![i] = NoTask]
  <2>1. tasks \in [EngineTask -> TaskRecords] /\ \A j \in EngineTask \ {i} : tasks[j] = Tasks(e)[j]
    BY <1>1, NoTaskIsTask
  <2>2. Change(e, Changed(e, tasks, {i}))
    BY <1>5 DEF Drop
  <2> HIDE DEF tasks
  <2> QED
    BY <2>1, <2>2, SimpleChangeKeeps
<1>6. ASSUME NEW s \in {"done", "simulation"}, ArchiveAll(e, s) PROVE StoreInv'
  <2> DEFINE hits == {i \in EngineTask : Tasks(e)[i] = Task(s, FALSE)}
             tasks == [i \in EngineTask |-> IF i \in hits THEN Task(s, TRUE) ELSE Tasks(e)[i]]
             ids == {i \in EngineTask : Tasks(e)[i] # NoTask}
  <2>1. Change(e, Changed(e, tasks, ids))
    BY <1>6 DEF ArchiveAll
  <2>2. Task(s, TRUE) \in TaskRecords /\ Task(s, FALSE) # NoTask
    BY DEF Task, TaskRecords, NoTask
  <2>3. tasks \in [EngineTask -> TaskRecords] /\ ids \in SUBSET EngineTask
    BY <1>1, <2>2
  <2>4. \A j \in EngineTask \ ids : tasks[j] = Tasks(e)[j]
    BY <2>2
  <2> HIDE DEF tasks, ids
  <2> QED
    BY <2>1, <2>3, <2>4, SimpleChangeKeeps
<1> QED
  BY <1>2, <1>3, <1>4, <1>5, <1>6

\* An engine's step that touches no file: it starts, fails or dies.
LEMMA QuietKeeps ==
    ASSUME StoreInv, NEW e \in Engine, NEW r \in EngineRecords, Set(e, r),
           UNCHANGED <<disk, doc, raced>>, UNCHANGED panelVars,
           adrift \subseteq adrift', adrift' \subseteq EngineTask,
           r.pc \in {"off", "idle", "save"}, r.run = 0 <=> r.phase = "rest",
           r.pc \in {"off", "idle"} => r.todo = {}, r.pc = "off" => r = Off,
           engine[e].pc = "write" => adrift' = EngineTask,
           EngineMirrors(e) => engine[e].todo \subseteq adrift',
           ~raced => \A i \in EngineTask \ (adrift' \cup r.todo) :
                        r.saw = Torn \/ r.mem.tasks[i] = r.saw.tasks[i]
    PROVE  StoreInv'
<1>1. StoreShape /\ FileTypesOK'
  BY DEF StoreInv, StoreShape, FileTypesOK
<1>2. StoreShape'
  <2>1. \A p \in PanelTask \ made : doc'[p] = "none"
    BY <1>1 DEF StoreShape, Unlisted
  <2> QED
    BY <1>1, <2>1, ShapeOfEngineStep
<1>3. ASSUME ~raced, PanelKeeps, PlacesHold, EngineKeeps
      PROVE  PanelKeeps' /\ PlacesHold' /\ EngineKeeps'
  <2>1. PanelKeeps' /\ PlacesHold'
    BY <1>1, <1>3, PanelKeepsThrough
  <2>2. \A i \in EngineTask \ adrift' : \A row : ~Owes(e, i, row)
    BY DEF Owes
  <2>3. EngineKeeps'
    BY <1>1, <1>3, <2>2, EngineStepKeeps
  <2> QED
    BY <2>1, <2>3
<1> QED
  BY <1>2, <1>3 DEF StoreInv

LEMMA StartEngineKeeps == ASSUME StoreInv, NEW e \in Engine, Start(e) PROVE StoreInv'
<1> DEFINE m == IF disk = Torn THEN Empty ELSE disk
           r == [Off EXCEPT !.pc = "idle", !.mem = m, !.saw = disk]
<1>1. /\ engine[e].pc = "off" /\ Set(e, r) /\ UNCHANGED <<disk, doc, raced, adrift>>
      /\ UNCHANGED panelVars
  BY DEF Start, KeepFiles
<1>2. m \in SavedLists /\ disk \in SavedLists \cup {Torn} /\ (disk = Torn \/ m = disk)
      /\ adrift \subseteq EngineTask
  BY EmptyIsSaved DEF StoreInv, StoreShape, FileTypesOK
<1> HIDE DEF m
<1>3. /\ r \in EngineRecords /\ r.pc = "idle" /\ r.mem = m /\ r.saw = disk /\ r.run = 0
      /\ r.phase = "rest" /\ r.todo = {}
  BY <1>2, OffIsEngine DEF EngineRecords
<1> HIDE DEF r
<1> QED
  BY <1>1, <1>2, <1>3, QuietKeeps DEF EngineMirrors

LEMMA ReturnedIs ==
    ASSUME StoreInv, NEW e \in Engine
    PROVE  /\ Returned(e) \in EngineRecords /\ Returned(e).pc = "idle" /\ Returned(e).todo = {}
           /\ Returned(e).mem = engine[e].mem /\ Returned(e).saw = engine[e].saw
           /\ Returned(e).run = 0 <=> Returned(e).phase = "rest"
<1>1. engine[e] \in EngineRecords /\ EngineShape(e)
  BY EngineIsTyped
<1>2. CASE engine[e].phase \in {"first", "step"}
  <2>1. Returned(e) = [engine[e] EXCEPT !.pc = "idle", !.todo = {}, !.read = <<>>, !.phase = "step"]
    BY <1>2 DEF Returned
  <2>2. engine[e].run # 0
    BY <1>1, <1>2 DEF EngineShape, Phase
  <2> QED
    BY <1>1, <2>1, <2>2 DEF EngineRecords
<1>3. CASE engine[e].phase \notin {"first", "step"}
  <2>1. Returned(e) = [engine[e] EXCEPT !.pc = "idle", !.todo = {}, !.read = <<>>,
                                        !.phase = "rest", !.run = 0]
    BY <1>3 DEF Returned
  <2> QED
    BY <1>1, <2>1 DEF EngineRecords
<1> QED
  BY <1>2, <1>3

LEMMA RaisedIs ==
    ASSUME StoreInv, NEW e \in Engine
    PROVE  /\ Raised(e) \in EngineRecords /\ Raised(e).pc \in {"idle", "save"}
           /\ Raised(e).saw = engine[e].saw
           /\ Raised(e).pc = "idle" => Raised(e).todo = {}
           /\ \A i \in EngineTask \ Raised(e).todo : Raised(e).mem.tasks[i] = Tasks(e)[i]
           /\ Raised(e).run = 0 <=> Raised(e).phase = "rest"
<1>1. engine[e] \in EngineRecords /\ EngineShape(e)
  BY EngineIsTyped
<1>2. CASE engine[e].phase \in {"step", "last"}
  <2> DEFINE i == engine[e].run
             b == Changed(e, SetStatus(e, i, "halted"), {i})
             r == [b EXCEPT !.pc = "save", !.read = <<>>, !.phase = "handler"]
  <2>1. Raised(e) = r
    BY <1>2 DEF Raised
  <2>2. i \in EngineTask
    BY <1>1, <1>2, EngineIsTyped DEF EngineShape, Phase
  <2>3. i # 0
    BY <2>2, StoreAssumption
  <2>4. /\ SetStatus(e, i, "halted") \in [EngineTask -> TaskRecords]
        /\ \A j \in EngineTask \ {i} : SetStatus(e, i, "halted")[j] = Tasks(e)[j]
    BY <2>2, StatusSet
  <2>5. b \in EngineRecords /\ b.todo = {i} /\ b.saw = engine[e].saw /\ b.run = i
        /\ b.mem.tasks = SetStatus(e, i, "halted")
    <3>1. b \in EngineRecords /\ b.todo = {i} /\ b.saw = engine[e].saw /\ b.run = i
          /\ b.mem = [tasks |-> SetStatus(e, i, "halted"), next |-> engine[e].mem.next]
      BY <1>1, <2>2, <2>4, ChangedIs
    <3> QED
      BY <3>1
  <2> HIDE DEF b
  <2>6. /\ r \in EngineRecords /\ r.pc = "save" /\ r.saw = b.saw /\ r.todo = {i} /\ r.mem = b.mem
        /\ r.run = i /\ r.phase = "handler"
    BY <2>5 DEF EngineRecords
  <2> HIDE DEF r, i
  <2> QED
    BY <2>1, <2>3, <2>4, <2>5, <2>6
<1>3. CASE engine[e].phase \notin {"step", "last"}
  <2>1. Raised(e) = [engine[e] EXCEPT !.pc = "idle", !.todo = {}, !.read = <<>>,
                                      !.phase = "rest", !.run = 0]
    BY <1>3 DEF Raised
  <2> QED
    BY <1>1, <2>1 DEF EngineRecords, Tasks
<1> QED
  BY <1>2, <1>3

LEMMA FailsKeep ==
    ASSUME StoreInv, NEW e \in Engine, MirrorFails(e) \/ SaveFails(e) \/ Die(e)
    PROVE  StoreInv'
<1>1. engine[e] \in EngineRecords /\ EngineShape(e) /\ adrift \subseteq EngineTask
      /\ engine[e].todo \subseteq EngineTask
  BY EngineIsTyped DEF StoreInv, StoreShape, FileTypesOK, EngineRecords
<1>2. CASE Die(e)
  <2>1. /\ Set(e, Off) /\ UNCHANGED <<disk, doc, raced>> /\ UNCHANGED panelVars
        /\ adrift \subseteq adrift' /\ adrift' \subseteq EngineTask
        /\ engine[e].pc = "write" => adrift' = EngineTask
        /\ EngineMirrors(e) => engine[e].todo \subseteq adrift'
    BY <1>1, <1>2 DEF Die, Set, EngineMirrors
  <2> QED
    BY <2>1, OffIsEngine, QuietKeeps
<1>3. CASE MirrorFails(e)
  <2>1. /\ UNCHANGED <<disk, doc, raced>> /\ UNCHANGED panelVars /\ EngineMirrors(e)
        /\ engine[e].pc # "write" /\ adrift' = adrift \cup engine[e].todo
        /\ Set(e, Returned(e)) \/ Set(e, Raised(e))
    BY <1>3 DEF MirrorFails, EngineMirrors
  <2>2. engine[e].saw = engine[e].mem
    BY <1>1, <2>1 DEF EngineShape
  <2>3. CASE Set(e, Returned(e))
    BY <1>1, <2>1, <2>2, <2>3, ReturnedIs, QuietKeeps
  <2>4. CASE Set(e, Raised(e))
    <3>1. \A i \in EngineTask \ (adrift' \cup Raised(e).todo) :
            Raised(e).mem.tasks[i] = Raised(e).saw.tasks[i]
      BY <2>2, RaisedIs DEF Tasks
    <3> QED
      BY <1>1, <2>1, <2>4, <3>1, RaisedIs, QuietKeeps
  <2> QED
    BY <2>1, <2>3, <2>4
<1>4. CASE SaveFails(e)
  <2>1. /\ UNCHANGED <<disk, doc, raced>> /\ UNCHANGED panelVars /\ ~EngineMirrors(e)
        /\ adrift' = IF engine[e].pc = "write" THEN EngineTask ELSE adrift \cup engine[e].todo
        /\ Set(e, Raised(e))
    BY <1>4 DEF SaveFails, EngineMirrors
  <2>2. ASSUME ~raced, NEW i \in EngineTask \ (adrift' \cup Raised(e).todo)
        PROVE  Raised(e).saw = Torn \/ Raised(e).mem.tasks[i] = Raised(e).saw.tasks[i]
    <3>1. ~Unsaved(e, i)
      BY <2>1, <2>2 DEF StoreInv, EngineKeeps, SavedButTodo
    <3> QED
      BY <2>2, <3>1, RaisedIs DEF Unsaved, Tasks
  <2> QED
    BY <1>1, <2>1, <2>2, RaisedIs, QuietKeeps
<1> QED
  BY <1>2, <1>3, <1>4

LEMMA ReadDocKeeps == ASSUME StoreInv, NEW e \in Engine, ReadDoc(e) PROVE StoreInv'
<1> DEFINE r == [engine[e] EXCEPT !.pc = "mirroring", !.read = doc]
<1>1. engine[e].pc = "mirror" /\ Set(e, r) /\ KeepFiles /\ UNCHANGED panelVars
      /\ engine[e] \in EngineRecords /\ EngineShape(e)
  BY EngineIsTyped DEF ReadDoc
<1>2. StoreShape /\ FileTypesOK' /\ doc \in Docs
  BY <1>1 DEF StoreInv, StoreShape, FileTypesOK, KeepFiles
<1>3. /\ r \in EngineRecords /\ r.pc = "mirroring" /\ r.read = doc /\ r.mem = engine[e].mem
      /\ r.saw = engine[e].saw /\ r.todo = engine[e].todo /\ r.run = engine[e].run
      /\ r.phase = engine[e].phase
  BY <1>1, <1>2 DEF EngineRecords
<1> HIDE DEF r
<1>4. r.saw = r.mem /\ (r.run = 0 <=> r.phase = "rest")
  BY <1>1, <1>3 DEF EngineShape, EngineMirrors, Phase
<1>5. engine'[e] = r
  BY <1>1 DEF StoreInv, StoreShape, EngineTypesOK, Set
<1>6. StoreShape'
  <2>1. \A p \in PanelTask \ made : doc'[p] = "none"
    BY <1>1, <1>2 DEF KeepFiles, StoreShape, Unlisted
  <2> QED
    BY <1>1, <1>2, <1>3, <1>4, <2>1, ShapeOfEngineStep
<1>7. ASSUME ~raced, PanelKeeps, PlacesHold, EngineKeeps
      PROVE  PanelKeeps' /\ PlacesHold' /\ EngineKeeps'
  <2>1. PanelKeeps' /\ PlacesHold'
    BY <1>1, <1>2, <1>7, PanelKeepsThrough DEF KeepFiles
  <2>2. ASSUME NEW i \in EngineTask \ adrift', NEW row, Owes(e, i, row)
        PROVE  Owes(e, i, row)' \/ doc[i] = row
    BY <1>3, <1>5, <2>2 DEF Owes, EngineMirrors, Tasks
  <2>3. disk' = disk /\ adrift' = adrift /\ doc' = doc /\ adrift \subseteq EngineTask
    BY <1>1, <1>2 DEF KeepFiles, StoreShape, FileTypesOK
  <2>4. EngineKeeps'
    BY <1>1, <1>2, <1>3, <1>4, <1>7, <2>2, <2>3, EngineStepKeeps
  <2> QED
    BY <2>1, <2>4
<1>8. raced' = raced
  BY <1>1 DEF KeepFiles
<1> QED
  BY <1>6, <1>7, <1>8 DEF StoreInv

\* What an engine has not changed is listed as its file had it before it was truncated.
LEMMA TruncateKeeps == ASSUME StoreInv, NEW e \in Engine, Truncate(e) PROVE StoreInv'
<1> DEFINE r == [engine[e] EXCEPT !.pc = "write"]
<1>1. /\ engine[e].pc = "save" /\ disk' = Torn /\ Set(e, r) /\ UNCHANGED <<doc, adrift>>
      /\ raced' = (raced \/ disk # engine[e].saw \/ SomeoneWrites) /\ UNCHANGED panelVars
      /\ engine[e] \in EngineRecords /\ EngineShape(e)
  BY EngineIsTyped DEF Truncate
<1>2. /\ r \in EngineRecords /\ r.pc = "write" /\ r.mem = engine[e].mem /\ r.saw = engine[e].saw
      /\ r.todo = engine[e].todo /\ r.run = engine[e].run /\ r.phase = engine[e].phase
  BY <1>1 DEF EngineRecords
<1> HIDE DEF r
<1>3. r.run = 0 <=> r.phase = "rest"
  BY <1>1, <1>2 DEF EngineShape, Phase
<1>4. StoreShape /\ FileTypesOK'
  <2>1. raced' \in BOOLEAN
    BY <1>1
  <2> QED
    BY <1>1, <2>1 DEF StoreInv, StoreShape, FileTypesOK
<1>5. StoreShape'
  <2>1. \A p \in PanelTask \ made : doc'[p] = "none"
    BY <1>1, <1>4 DEF StoreShape, Unlisted
  <2> QED
    BY <1>1, <1>2, <1>3, <1>4, <2>1, ShapeOfEngineStep
<1>6. ASSUME ~raced' PROVE PanelKeeps' /\ PlacesHold' /\ EngineKeeps'
  <2>1. PanelKeeps /\ PlacesHold /\ EngineKeeps /\ disk = engine[e].saw /\ ~SomeoneWrites
    BY <1>1, <1>6 DEF StoreInv
  <2>2. PanelKeeps' /\ PlacesHold'
    BY <1>1, <1>4, <2>1, PanelKeepsThrough
  <2>3. engine'[e] = r /\ \A o \in Engine : o # e => engine'[o] = engine[o]
    BY <1>1 DEF StoreInv, StoreShape, EngineTypesOK, Set
  <2>4. \A o \in Engine : engine'[o].pc = "write" => o = e
    BY <2>1, <2>3 DEF SomeoneWrites
  <2>5. ASSUME NEW i \in EngineTask \ (adrift \cup engine[e].todo)
        PROVE  Follows(i, RowOf(Tasks(e)[i]))'
    <3>1. disk # Torn
      BY <2>1, <2>5 DEF EngineKeeps, TornIsWritten
    <3>2. disk.tasks[i] = Tasks(e)[i]
      BY <2>1, <2>5, <3>1 DEF EngineKeeps, SavedButTodo, Unsaved, Tasks
    <3>3. Follows(i, RowOf(Tasks(e)[i]))
      BY <2>1, <2>5, <3>1, <3>2 DEF EngineKeeps, RowsFollow
    <3> DEFINE row == RowOf(Tasks(e)[i])
    <3>4. row' = row
      BY <1>2, <2>3 DEF Tasks
    <3>5. ~Owes(e, i, row)
      BY <1>1 DEF Owes, EngineMirrors
    <3> HIDE DEF row
    <3>6. Follows(i, row)
      BY <3>3 DEF row
    <3> QED
      BY <1>1, <2>3, <3>4, <3>5, <3>6, FollowsThrough DEF Follows, row
  <2>6. RowsFollow' /\ TornIsWritten'
    BY <1>1, <1>2, <2>3 DEF RowsFollow, TornIsWritten, SomeoneWrites
  <2>7. WriterFollows'
    <3> SUFFICES ASSUME NEW w \in Engine, engine'[w].pc = "write"
                 PROVE  /\ disk' = Torn /\ \A o \in Engine : engine'[o].pc = "write" => o = w
                        /\ \A i \in EngineTask \ (adrift' \cup engine'[w].todo) :
                              Follows(i, RowOf(Tasks(w)[i]))'
      BY DEF WriterFollows
    <3>1. w = e
      BY <2>4
    <3>2. adrift' \cup engine'[e].todo = adrift \cup engine[e].todo
      BY <1>1, <1>2, <2>3
    <3> QED
      BY <1>1, <2>4, <2>5, <3>1, <3>2
  <2>8. ASSUME NEW o \in Engine PROVE SavedButTodo(o)'
    <3>1. SavedButTodo(o) /\ adrift' = adrift
      BY <1>1, <2>1 DEF EngineKeeps
    <3>2. /\ engine'[o].saw = engine[o].saw /\ engine'[o].mem = engine[o].mem
          /\ engine'[o].todo = engine[o].todo
      BY <1>2, <2>3
    <3> QED
      BY <3>1, <3>2 DEF SavedButTodo, Unsaved
  <2> QED
    BY <2>2, <2>6, <2>7, <2>8 DEF EngineKeeps
<1> QED
  BY <1>5, <1>6 DEF StoreInv

LEMMA FillKeeps == ASSUME StoreInv, NEW e \in Engine, Fill(e) PROVE StoreInv'
<1> DEFINE r == [engine[e] EXCEPT !.pc = "mirror", !.saw = engine[e].mem]
<1>1. /\ engine[e].pc = "write" /\ disk' = engine[e].mem /\ Set(e, r) /\ UNCHANGED <<doc, adrift>>
      /\ raced' = (raced \/ disk # Torn) /\ UNCHANGED panelVars
      /\ engine[e] \in EngineRecords /\ EngineShape(e)
  BY EngineIsTyped DEF Fill
<1>2. /\ r \in EngineRecords /\ r.pc = "mirror" /\ r.mem = engine[e].mem /\ r.saw = engine[e].mem
      /\ r.todo = engine[e].todo /\ r.run = engine[e].run /\ r.phase = engine[e].phase
      /\ engine[e].mem \in SavedLists
  BY <1>1 DEF EngineRecords
<1> HIDE DEF r
<1>3. r.run = 0 <=> r.phase = "rest"
  BY <1>1, <1>2 DEF EngineShape, Phase
<1>4. StoreShape /\ FileTypesOK'
  <2>1. raced' \in BOOLEAN
    BY <1>1
  <2> QED
    BY <1>1, <1>2, <2>1 DEF StoreInv, StoreShape, FileTypesOK
<1>5. StoreShape'
  <2>1. \A p \in PanelTask \ made : doc'[p] = "none"
    BY <1>1, <1>4 DEF StoreShape, Unlisted
  <2> QED
    BY <1>1, <1>2, <1>3, <1>4, <2>1, ShapeOfEngineStep
<1>6. ASSUME ~raced' PROVE PanelKeeps' /\ PlacesHold' /\ EngineKeeps'
  <2>1. PanelKeeps /\ PlacesHold /\ EngineKeeps
    BY <1>1, <1>6 DEF StoreInv
  <2>2. PanelKeeps' /\ PlacesHold'
    BY <1>1, <1>4, <2>1, PanelKeepsThrough
  <2>3. engine'[e] = r /\ \A o \in Engine : o # e => engine'[o] = engine[o]
    BY <1>1 DEF StoreInv, StoreShape, EngineTypesOK, Set
  <2>4. \A o \in Engine : engine'[o].pc # "write"
    BY <1>1, <1>2, <2>1, <2>3 DEF EngineKeeps, WriterFollows
  <2>5. RowsFollow'
    <3> SUFFICES ASSUME NEW i \in EngineTask \ adrift'
                 PROVE  Follows(i, RowOf(disk.tasks[i]))'
      BY DEF RowsFollow
    <3> DEFINE row == RowOf(Tasks(e)[i])
    <3>1. RowOf(disk.tasks[i])' = row /\ RowOf(Tasks(e)[i])' = row
      BY <1>1, <1>2, <2>3 DEF Tasks
    <3>2. CASE i \in engine[e].todo
      <4>1. Owes(e, i, RowOf(Tasks(e)[i]))'
        BY <1>2, <2>3, <3>2 DEF Owes, EngineMirrors
      <4> HIDE DEF row
      <4>2. Owes(e, i, RowOf(disk.tasks[i]))'
        BY <3>1, <4>1 DEF Owes, EngineMirrors
      <4> QED
        BY <4>2 DEF Follows
    <3>3. CASE i \notin engine[e].todo
      <4>1. Follows(i, row)
        BY <1>1, <2>1, <3>3 DEF EngineKeeps, WriterFollows
      <4>2. ~Owes(e, i, row)
        BY <1>1 DEF Owes, EngineMirrors
      <4> HIDE DEF row
      <4> QED
        BY <1>1, <2>3, <3>1, <4>1, <4>2, FollowsThrough DEF Follows
    <3> QED
      BY <3>2, <3>3
  <2>6. WriterFollows'
    BY <2>4 DEF WriterFollows
  <2>7. TornIsWritten'
    BY <1>1, <1>2, TornIsNotSaved DEF TornIsWritten
  <2>8. ASSUME NEW o \in Engine PROVE SavedButTodo(o)'
    <3>1. SavedButTodo(o) /\ adrift' = adrift
      BY <1>1, <2>1 DEF EngineKeeps
    <3>2. CASE o = e
      BY <1>2, <2>3, <3>2 DEF SavedButTodo, Unsaved
    <3>3. CASE o # e
      BY <2>3, <3>1, <3>3 DEF SavedButTodo, Unsaved
    <3> QED
      BY <3>2, <3>3
  <2> QED
    BY <2>2, <2>5, <2>6, <2>7, <2>8 DEF EngineKeeps
<1> QED
  BY <1>5, <1>6 DEF StoreInv

\* Where an engine stands after the mirror has dealt with one row.
LEMMA MirroredIs ==
    ASSUME StoreInv, NEW e \in Engine, NEW i \in EngineTask, MirrorRow(e, i)
    PROVE  \E r \in EngineRecords :
             /\ Set(e, r) /\ r.pc \in {"mirror", "idle", "save"} /\ r.saw = engine[e].saw
             /\ r.run = 0 <=> r.phase = "rest"
             /\ r.pc = "idle" => r.todo = {}
             /\ \A j \in EngineTask \ r.todo : r.mem.tasks[j] = Tasks(e)[j]
             /\ r.pc = "mirror" => r.mem = engine[e].mem /\ r.todo = engine[e].todo \ {i}
             /\ r.pc # "mirror" => engine[e].todo = {i}
<1>1. engine[e] \in EngineRecords /\ EngineShape(e)
  BY EngineIsTyped
<1>2. CASE /\ engine[e].todo # {i}
           /\ Set(e, [engine[e] EXCEPT !.pc = "mirror", !.todo = @ \ {i}, !.read = <<>>])
  <2> DEFINE r == [engine[e] EXCEPT !.pc = "mirror", !.todo = @ \ {i}, !.read = <<>>]
  <2>1. /\ r \in EngineRecords /\ r.pc = "mirror" /\ r.saw = engine[e].saw /\ r.mem = engine[e].mem
        /\ r.todo = engine[e].todo \ {i} /\ r.run = engine[e].run /\ r.phase = engine[e].phase
    BY <1>1 DEF EngineRecords
  <2>2. Set(e, r)
    BY <1>2
  <2> HIDE DEF r
  <2>3. r.run = 0 <=> r.phase = "rest"
    BY <1>1, <2>1 DEF EngineShape, Phase
  <2>4. \A j \in EngineTask \ r.todo : r.mem.tasks[j] = Tasks(e)[j]
    BY <2>1 DEF Tasks
  <2> QED
    BY <2>1, <2>2, <2>3, <2>4
<1>3. CASE engine[e].todo = {i} /\ Set(e, Returned(e))
  <2>1. \A j \in EngineTask \ Returned(e).todo : Returned(e).mem.tasks[j] = Tasks(e)[j]
    BY ReturnedIs DEF Tasks
  <2> QED
    BY <1>3, <2>1, ReturnedIs
<1>4. CASE engine[e].todo = {i} /\ Set(e, Raised(e))
  <2>1. Raised(e).pc # "mirror"
    BY RaisedIs
  <2> QED
    BY <1>4, <2>1, RaisedIs
<1> QED
  BY <1>2, <1>3, <1>4 DEF MirrorRow

LEMMA MirrorRowKeeps ==
    ASSUME StoreInv, NEW e \in Engine, NEW i \in EngineTask, MirrorRow(e, i) PROVE StoreInv'
<1> DEFINE row == RowOf(Tasks(e)[i])
           same == engine[e].read[i] = row
<1>1. PICK r \in EngineRecords :
             /\ Set(e, r) /\ r.pc \in {"mirror", "idle", "save"} /\ r.saw = engine[e].saw
             /\ r.run = 0 <=> r.phase = "rest"
             /\ r.pc = "idle" => r.todo = {}
             /\ \A j \in EngineTask \ r.todo : r.mem.tasks[j] = Tasks(e)[j]
             /\ r.pc = "mirror" => r.mem = engine[e].mem /\ r.todo = engine[e].todo \ {i}
             /\ r.pc # "mirror" => engine[e].todo = {i}
  BY MirroredIs
<1>2. /\ engine[e].pc = "mirroring" /\ disk' = disk /\ UNCHANGED panelVars /\ i \in engine[e].todo
      /\ doc' = IF same THEN doc ELSE [engine[e].read EXCEPT ![i] = row]
      /\ adrift' = IF \/ same /\ doc # engine[e].read
                      \/ \E o \in Engine \ {e} : Unsaved(o, i)
                   THEN adrift ELSE adrift \ {i}
      /\ raced' = (raced \/ (~same /\ doc # engine[e].read) \/ disk # engine[e].saw)
  BY DEF MirrorRow, IsNext
<1>3. /\ engine[e] \in EngineRecords /\ engine[e].read \in Docs /\ engine[e].saw = engine[e].mem
      /\ Tasks(e)[i] \in TaskRecords
  BY <1>2, EngineIsTyped DEF EngineShape, EngineMirrors
<1>4. StoreShape /\ doc \in Docs /\ adrift \subseteq EngineTask /\ raced \in BOOLEAN
      /\ disk \in SavedLists \cup {Torn}
  BY DEF StoreInv, StoreShape, FileTypesOK
<1>5. row \in RowStates /\ i \in Row /\ i \notin PanelTask
  BY <1>3, RowIsState, StoreAssumption DEF Row
<1> HIDE DEF row, same
<1>6. FileTypesOK'
  <2>1. doc' \in Docs
    BY <1>2, <1>3, <1>4, <1>5 DEF Docs
  <2>2. adrift' \subseteq EngineTask
    BY <1>2, <1>4
  <2>3. raced' \in BOOLEAN
    BY <1>2, <1>4
  <2> QED
    BY <1>2, <1>4, <2>1, <2>2, <2>3 DEF FileTypesOK
<1>7. \A p \in PanelTask \ made : doc'[p] = "none"
  <2> SUFFICES ASSUME NEW p \in PanelTask \ made PROVE doc'[p] = "none"
    OBVIOUS
  <2>1. doc[p] = "none" /\ engine[e].read[p] = "none" /\ p # i /\ p \in Row
    BY <1>2, <1>4, <1>5 DEF StoreShape, Unlisted, Row
  <2> QED
    BY <1>2, <1>3, <2>1 DEF Docs
<1>8. StoreShape'
  <2>1. r.pc = "mirror" => r.saw = r.mem
    BY <1>1, <1>3
  <2> QED
    BY <1>1, <1>2, <1>4, <1>6, <1>7, <2>1, ShapeOfEngineStep
<1>9. ASSUME ~raced' PROVE PanelKeeps' /\ PlacesHold' /\ EngineKeeps'
  <2>1. PanelKeeps /\ PlacesHold /\ EngineKeeps /\ (same \/ doc = engine[e].read)
        /\ disk = engine[e].mem
    BY <1>2, <1>3, <1>9 DEF StoreInv
  <2>2. disk # Torn
    BY <1>3, <2>1, TornIsNotSaved DEF EngineRecords
  <2>3. engine'[e] = r /\ \A o \in Engine : o # e => engine'[o] = engine[o]
    BY <1>1 DEF StoreInv, StoreShape, EngineTypesOK, Set
  <2>4. \A j \in Row : j # i => doc'[j] = doc[j]
    BY <1>2, <1>3, <2>1 DEF Docs
  <2>5. PanelKeeps' /\ PlacesHold'
    <3>1. \A p \in PanelTask : doc'[p] = doc[p]
      BY <1>5, <2>4 DEF Row
    <3> QED
      BY <1>2, <1>4, <2>1, <3>1, PanelKeepsThrough
  <2>6. \A o \in Engine : engine'[o].pc # "write"
    BY <1>1, <2>1, <2>2, <2>3 DEF EngineKeeps, WriterFollows
  <2>7. adrift \ {i} \subseteq adrift'
    BY <1>2
  <2>8. RowsFollow'
    <3> SUFFICES ASSUME NEW j \in EngineTask, j \notin adrift'
                 PROVE  Follows(j, RowOf(disk.tasks[j]))'
      BY DEF RowsFollow
    <3> DEFINE this == RowOf(disk.tasks[j])
    <3>1. this' = this /\ this = RowOf(Tasks(e)[j])
      BY <1>2, <2>1 DEF Tasks
    <3> HIDE DEF this
    <3>2. CASE j # i
      <4>1. Follows(j, this)
        BY <2>1, <2>2, <2>7, <3>2 DEF EngineKeeps, RowsFollow, this
      <4>2. ASSUME Owes(e, j, this) PROVE Owes(e, j, this)'
        BY <1>1, <2>3, <3>1, <3>2, <4>2 DEF Owes, EngineMirrors, Tasks
      <4>3. doc'[j] = doc[j]
        BY <2>4, <3>2 DEF Row
      <4> QED
        BY <2>3, <3>1, <4>1, <4>2, <4>3, FollowsThrough DEF Follows, this
    <3>3. CASE j = i
      <4>1. this = row
        BY <3>1, <3>3 DEF row
      <4>2. CASE same /\ doc # engine[e].read
        <5>1. adrift' = adrift /\ doc' = doc
          BY <1>2, <4>2
        <5>2. Follows(j, this)
          BY <2>1, <2>2, <5>1 DEF EngineKeeps, RowsFollow, this
        <5>3. ~Owes(e, j, this)
          BY <1>2, <3>3, <4>1, <4>2 DEF Owes, same
        <5> QED
          BY <2>3, <3>1, <5>1, <5>2, <5>3, FollowsThrough DEF Follows, this
      <4>3. CASE doc = engine[e].read
        <5>1. doc'[i] = row
          BY <1>2, <1>3, <1>5, <4>3 DEF same, Docs
        <5> QED
          BY <3>1, <3>3, <4>1, <5>1 DEF Follows, this
      <4> QED
        BY <2>1, <4>2, <4>3
    <3> QED
      BY <3>2, <3>3
  <2>9. WriterFollows' /\ TornIsWritten'
    BY <1>2, <2>2, <2>6 DEF WriterFollows, TornIsWritten
  <2>10. ASSUME NEW o \in Engine PROVE SavedButTodo(o)'
    <3>1. CASE o = e
      <4> SUFFICES ASSUME NEW j \in EngineTask, j \notin r.todo
                   PROVE  r.mem.tasks[j] = r.saw.tasks[j]
        BY <2>3, <3>1 DEF SavedButTodo, Unsaved
      <4> QED
        BY <1>1, <1>3 DEF Tasks
    <3>2. CASE o # e
      <4>1. engine'[o] = engine[o] /\ SavedButTodo(o)
        BY <2>1, <2>3, <3>2 DEF EngineKeeps
      <4> SUFFICES ASSUME NEW j \in EngineTask, j \notin adrift', j \notin engine[o].todo
                   PROVE  ~Unsaved(o, j)
        BY <4>1 DEF SavedButTodo, Unsaved
      <4>2. CASE j \notin adrift
        BY <4>1, <4>2 DEF SavedButTodo
      <4>3. CASE j \in adrift
        <5>1. j = i
          BY <2>7, <4>3
        <5> QED
          BY <1>2, <3>2, <4>3, <5>1
      <4> QED
        BY <4>2, <4>3
    <3> QED
      BY <3>1, <3>2
  <2> QED
    BY <2>5, <2>8, <2>9, <2>10 DEF EngineKeeps
<1> QED
  BY <1>8, <1>9 DEF StoreInv

LEMMA FrontOfFiles ==
    ASSUME NEW S, NEW s \in Seq(S), s # <<>>
    PROVE  /\ Front(s) \in Seq(S) /\ Len(s) \in Nat \ {0} /\ Len(Front(s)) = Len(s) - 1
           /\ Last(s) \in S
<1>1. Len(s) \in Nat \ {0}
  OBVIOUS
<1>2. Len(s) - 1 \in Nat /\ \A k \in 1 .. Len(s) - 1 : s[k] \in S
  BY <1>1
<1>3. SubSeq(s, 1, Len(s) - 1) \in Seq(S) /\ Len(SubSeq(s, 1, Len(s) - 1)) = Len(s) - 1
  <2> DEFINE n == Len(s) - 1
  <2>1. n \in Int /\ 1 \in Int /\ n >= 0 /\ \A k \in 1 .. n : s[k] \in S
    BY <1>1, <1>2
  <2> HIDE DEF n
  <2>2. /\ SubSeq(s, 1, n) \in Seq(S)
        /\ Len(SubSeq(s, 1, n)) = IF 1 <= n THEN n - 1 + 1 ELSE 0
    BY <2>1, SubSeqProperties
  <2>3. Len(SubSeq(s, 1, n)) = n
    BY <2>1, <2>2
  <2> QED
    BY <2>2, <2>3 DEF n
<1>4. s[Len(s)] \in S
  BY <1>1
<1> QED
  BY <1>1, <1>3, <1>4 DEF Front, Last

\* The panel leaves the engines' files alone, and owns up to the engine rows it changes.
LEMMA EngineKeepsThrough ==
    ASSUME EngineKeeps, UNCHANGED <<disk, engine>>, adrift \subseteq adrift',
           adrift' \subseteq EngineTask, \A i \in EngineTask \ adrift' : doc'[i] = doc[i]
    PROVE  EngineKeeps'
<1>1. \A o \in Engine : \A i \in EngineTask : \A row : Owes(o, i, row) => Owes(o, i, row)'
  BY DEF Owes, EngineMirrors, Tasks
<1>2. ASSUME NEW i \in EngineTask \ adrift', NEW row, Follows(i, row) PROVE Follows(i, row)'
  BY <1>1, <1>2 DEF Follows
<1>3. RowsFollow'
  <2> SUFFICES ASSUME disk # Torn, NEW i \in EngineTask \ adrift'
               PROVE  Follows(i, RowOf(disk.tasks[i]))'
    BY DEF RowsFollow
  <2> DEFINE row == RowOf(disk.tasks[i])
  <2>1. row' = row
    OBVIOUS
  <2>2. Follows(i, row)
    BY DEF EngineKeeps, RowsFollow
  <2> HIDE DEF row
  <2> QED
    BY <1>2, <2>1, <2>2 DEF Follows, row
<1>4. WriterFollows'
  <2> SUFFICES ASSUME NEW w \in Engine, engine[w].pc = "write"
               PROVE  /\ disk = Torn /\ \A o \in Engine : engine[o].pc = "write" => o = w
                      /\ \A i \in EngineTask \ (adrift' \cup engine[w].todo) :
                            Follows(i, RowOf(Tasks(w)[i]))'
    BY DEF WriterFollows
  <2>1. ASSUME NEW i \in EngineTask \ (adrift' \cup engine[w].todo)
        PROVE  Follows(i, RowOf(Tasks(w)[i]))'
    <3> DEFINE row == RowOf(Tasks(w)[i])
    <3>1. row' = row
      BY DEF Tasks
    <3>2. Follows(i, row)
      BY DEF EngineKeeps, WriterFollows
    <3> HIDE DEF row
    <3> QED
      BY <1>2, <3>1, <3>2 DEF Follows, row
  <2> QED
    BY <2>1 DEF EngineKeeps, WriterFollows
<1>5. TornIsWritten'
  BY DEF EngineKeeps, TornIsWritten, SomeoneWrites
<1>6. \A o \in Engine : SavedButTodo(o)'
  BY DEF EngineKeeps, SavedButTodo, Unsaved
<1> QED
  BY <1>3, <1>4, <1>5, <1>6 DEF EngineKeeps

LEMMA EngineShapeThrough ==
    ASSUME StoreShape, UNCHANGED engine
    PROVE  EngineTypesOK' /\ \A e \in Engine : EngineShape(e)'
  BY DEF StoreShape, EngineTypesOK, EngineShape, EngineMirrors, Phase

\* A request that reads the list, and moves no file yet.
LEMMA ListRequestKeeps ==
    ASSUME StoreInv, NEW r \in Row, NEW new \in RowStates,
           NEW pc \in {"write", "delete", "restore"},
           Request(pc, r, new), UNCHANGED <<trash, purged>>,
           r \in PanelTask \ made => pc = "write" /\ new # "none",
           pc = "write" /\ r \in made => doc[r] # "none" /\ new # "none",
           pc = "delete" => doc[r] # "none" /\ new = "none" /\ Len(trash[r]) < MaxTrash[r],
           pc = "restore" => doc[r] = "none" /\ new # "none" /\ trash[r] # <<>>
    PROVE  StoreInv'
<1>1. /\ panel.pc = "idle" /\ panel' = [pc |-> pc, row |-> r, new |-> new, read |-> doc]
      /\ UNCHANGED <<disk, doc, engine, made, adrift, raced, cut>>
  BY DEF Request
<1>2. StoreShape /\ doc \in Docs
  BY DEF StoreInv, StoreShape, FileTypesOK
<1>3. panel'.pc = pc /\ panel'.row = r /\ panel'.new = new /\ panel'.read = doc
  BY <1>1
<1>4. StoreShape'
  <2>1. FileTypesOK' /\ EngineTypesOK' /\ \A e \in Engine : EngineShape(e)'
    BY <1>1, <1>2, EngineShapeThrough DEF StoreShape, FileTypesOK
  <2>2. panel' \in PanelRecords
    BY <1>1, <1>2 DEF PanelRecords
  <2>3. PanelTypesOK'
    BY <1>1, <1>2, <2>2 DEF StoreShape, PanelTypesOK
  <2>4. PanelShape'
    BY <1>1, <1>2, <1>3 DEF PanelShape
  <2>5. Unlisted'
    BY <1>1, <1>2, <1>3 DEF StoreShape, Unlisted
  <2> QED
    BY <2>1, <2>3, <2>4, <2>5 DEF StoreShape
<1>5. ASSUME ~raced, PanelKeeps, PlacesHold, EngineKeeps
      PROVE  PanelKeeps' /\ PlacesHold' /\ EngineKeeps'
  <2>1. RequestOn(r)' \/ r \notin PanelTask
    BY <1>1, <1>3 DEF RequestOn
  <2>2. PanelKeeps'
    BY <1>1, <1>3, <2>1 DEF PanelKeeps
  <2>3. PlacesHold'
    <3> SUFFICES ASSUME NEW p \in made PROVE PlacesOf(p)' >= 1 /\ (~cut => PlacesOf(p)' = Due(p)')
      BY <1>1 DEF PlacesHold
    <3>1. PlacesOf(p)' = PlacesOf(p)
      BY <1>1 DEF PlacesOf, ListedIn, PurgedIn
    <3>2. Due(p)' = Due(p)
      BY <1>1, <1>3 DEF Due
    <3> QED
      BY <1>5, <3>1, <3>2 DEF PlacesHold
  <2>4. EngineKeeps'
    BY <1>1, <1>2, <1>5, EngineKeepsThrough DEF StoreShape, FileTypesOK
  <2> QED
    BY <2>2, <2>3, <2>4
<1> QED
  BY <1>1, <1>4, <1>5 DEF StoreInv

LEMMA RequestsKeep ==
    ASSUME StoreInv, NEW r \in Row,
           PostCreate(r) \/ PostComplete(r) \/ PostDelete(r) \/ PostRestore(r)
    PROVE  StoreInv'
<1>1. /\ trash \in [Row -> Seq(RowStates \ {"none"})]
      /\ \A p \in PanelTask \ made : doc[p] = "none" /\ trash[p] = <<>>
  BY DEF StoreInv, StoreShape, PanelTypesOK, Unlisted
<1>2. CASE PostCreate(r)
  BY <1>2, ListRequestKeeps DEF PostCreate, RowStates
<1>3. CASE PostComplete(r)
  BY <1>1, <1>3, ListRequestKeeps DEF PostComplete, RowStates
<1>4. CASE PostDelete(r)
  BY <1>1, <1>4, ListRequestKeeps DEF PostDelete, RowStates
<1>5. CASE PostRestore(r)
  <2>1. Last(trash[r]) \in RowStates \ {"none"}
    BY <1>1, <1>5, FrontOfFiles DEF PostRestore
  <2> QED
    BY <1>1, <1>5, <2>1, ListRequestKeeps DEF PostRestore
<1> QED
  BY <1>2, <1>3, <1>4, <1>5

\* What is deleted for good leaves the trash and is listed as deleted, once.
LEMMA PurgeKeeps == ASSUME StoreInv, NEW r \in Row, PostDeletePermanent(r) PROVE StoreInv'
<1>1. /\ panel.pc = "idle" /\ panel' = [pc |-> "write", row |-> r, new |-> doc[r], read |-> doc]
      /\ UNCHANGED <<disk, doc, engine, made, adrift, raced, cut>>
      /\ trash' = [trash EXCEPT ![r] = Front(@)] /\ trash[r] # <<>>
      /\ purged' = purged \cup ({r} \cap PanelTask)
  BY DEF PostDeletePermanent, Request
<1>2. StoreShape /\ doc \in Docs /\ trash \in [Row -> Seq(RowStates \ {"none"})]
      /\ made \subseteq PanelTask /\ purged \subseteq made
      /\ \A p \in Row : Len(trash[p]) <= MaxTrash[p]
  BY DEF StoreInv, StoreShape, FileTypesOK, PanelTypesOK
<1>3. panel'.pc = "write" /\ panel'.row = r /\ panel'.new = doc[r] /\ panel'.read = doc
  BY <1>1
<1>4. /\ trash'[r] \in Seq(RowStates \ {"none"}) /\ Len(trash'[r]) = Len(trash[r]) - 1
      /\ Len(trash[r]) \in Nat \ {0}
  BY <1>1, <1>2, FrontOfFiles
<1>5. r \in PanelTask => r \in made
  BY <1>1, <1>2 DEF StoreShape, Unlisted
<1>6. StoreShape'
  <2>1. FileTypesOK' /\ EngineTypesOK' /\ \A e \in Engine : EngineShape(e)'
    BY <1>1, <1>2, EngineShapeThrough DEF StoreShape, FileTypesOK
  <2>2. panel' \in PanelRecords
    BY <1>1, <1>2 DEF PanelRecords, Docs
  <2>3. trash' \in [Row -> Seq(RowStates \ {"none"})]
    BY <1>1, <1>2, <1>4
  <2>4. ASSUME NEW p \in Row PROVE Len(trash'[p]) <= MaxTrash[p]
    <3>1. MaxTrash[p] \in Nat /\ Len(trash[p]) <= MaxTrash[p]
      BY <1>2, StoreAssumption DEF Row
    <3>2. CASE p = r
      BY <1>4, <3>1, <3>2
    <3>3. CASE p # r
      BY <1>1, <1>2, <3>1, <3>3
    <3> QED
      BY <3>2, <3>3
  <2>5. purged' \subseteq made' /\ made' \subseteq PanelTask /\ cut' \in BOOLEAN
    BY <1>1, <1>2, <1>5 DEF StoreShape, PanelTypesOK
  <2>6. PanelTypesOK'
    BY <2>2, <2>3, <2>4, <2>5 DEF PanelTypesOK
  <2>7. PanelShape'
    BY <1>1, <1>2, <1>3 DEF PanelShape
  <2>8. Unlisted'
    <3> SUFFICES ASSUME NEW p \in PanelTask \ made
                 PROVE  doc[p] = "none" /\ trash'[p] = <<>> /\ \A e \in Engine :
                            engine[e].pc = "mirroring" => engine[e].read[p] = "none"
      BY <1>1, <1>3 DEF Unlisted
    <3> QED
      BY <1>1, <1>2, <1>5 DEF StoreShape, Unlisted, Row
  <2> QED
    BY <2>1, <2>6, <2>7, <2>8 DEF StoreShape
<1>7. ASSUME ~raced, PanelKeeps, PlacesHold, EngineKeeps
      PROVE  PanelKeeps' /\ PlacesHold' /\ EngineKeeps'
  <2>1. PanelKeeps'
    <3>1. r \in PanelTask => RequestOn(r)'
      BY <1>1, <1>3, <1>5 DEF RequestOn
    <3> QED
      BY <1>1, <1>3, <3>1 DEF PanelKeeps
  <2>2. PlacesHold'
    <3> SUFFICES ASSUME NEW p \in made PROVE PlacesOf(p)' >= 1 /\ (~cut => PlacesOf(p)' = 1)
      BY <1>1, <1>3 DEF PlacesHold, Due
    <3>1. PlacesOf(p) >= 1 /\ (~cut => PlacesOf(p) = 1)
      BY <1>1, <1>7 DEF PlacesHold, Due
    <3>2. p \in Row /\ Len(trash[p]) \in Nat
      BY <1>2 DEF Row
    <3>3. ListedIn(p) \in {0, 1} /\ PurgedIn(p) \in {0, 1} /\ ListedIn(p)' = ListedIn(p)
      BY <1>1 DEF ListedIn, PurgedIn
    <3>4. CASE p # r
      <4>1. PurgedIn(p)' = PurgedIn(p) /\ trash'[p] = trash[p]
        BY <1>1, <1>2, <3>2, <3>4 DEF PurgedIn
      <4> QED
        BY <3>1, <3>3, <4>1 DEF PlacesOf
    <3>5. CASE p = r
      <4>1. PurgedIn(p)' = 1
        BY <1>1, <1>2, <3>5 DEF PurgedIn
      <4>2. PlacesOf(p)' = (Len(trash[p]) - 1) + ListedIn(p) + 1
        BY <1>4, <3>3, <3>5, <4>1 DEF PlacesOf
      <4> HIDE DEF PlacesOf
      <4>3. PlacesOf(p)' >= 1
        BY <1>4, <3>3, <3>5, <4>2
      <4>4. PlacesOf(p) = Len(trash[p]) + ListedIn(p) + PurgedIn(p)
        BY DEF PlacesOf
      <4>5. ASSUME ~cut PROVE PlacesOf(p)' = 1
        <5>1. PlacesOf(p) = 1
          BY <3>1, <4>5
        <5> QED
          BY <1>4, <3>3, <3>5, <4>2, <4>4, <5>1
      <4> QED
        BY <4>3, <4>5
    <3> QED
      BY <3>4, <3>5
  <2>3. EngineKeeps'
    BY <1>1, <1>2, <1>7, EngineKeepsThrough DEF StoreShape, FileTypesOK
  <2> QED
    BY <2>1, <2>2, <2>3
<1> QED
  BY <1>1, <1>6, <1>7 DEF StoreInv

LEMMA FileAwayKeeps == ASSUME StoreInv, FileAway PROVE StoreInv'
<1> PICK r : r = panel.row
  OBVIOUS
<1>1. /\ panel.pc = "delete" /\ panel' = [panel EXCEPT !.pc = "trashed"]
      /\ trash' = [trash EXCEPT ![r] = Append(@, panel.read[r])]
      /\ UNCHANGED <<disk, doc, engine, made, purged, adrift, raced, cut>>
  BY DEF FileAway
<1>2. StoreShape /\ trash \in [Row -> Seq(RowStates \ {"none"})] /\ panel \in PanelRecords
      /\ made \subseteq PanelTask /\ \A p \in Row : Len(trash[p]) <= MaxTrash[p]
  BY DEF StoreInv, StoreShape, PanelTypesOK
<1>3. /\ r \in Row /\ panel.read[r] \in RowStates \ {"none"} /\ Len(trash[r]) < MaxTrash[r]
      /\ panel.read \in Docs
  BY <1>1, <1>2 DEF StoreShape, PanelShape, Docs
<1>4. /\ panel' \in PanelRecords /\ panel'.pc = "trashed" /\ panel'.row = r
      /\ panel'.new = panel.new /\ panel'.read = panel.read
  BY <1>1, <1>2 DEF PanelRecords
<1>5. r \notin PanelTask \ made
  BY <1>1, <1>2 DEF StoreShape, Unlisted
<1>6. /\ trash'[r] \in Seq(RowStates \ {"none"}) /\ Len(trash'[r]) = Len(trash[r]) + 1
      /\ Len(trash[r]) \in Nat /\ trash'[r] # <<>>
  <2> DEFINE s == trash[r]
             x == panel.read[r]
  <2>1. s \in Seq(RowStates \ {"none"}) /\ x \in RowStates \ {"none"} /\ trash'[r] = Append(s, x)
    BY <1>1, <1>2, <1>3
  <2> HIDE DEF s, x
  <2>2. /\ Append(s, x) \in Seq(RowStates \ {"none"}) /\ Len(Append(s, x)) = Len(s) + 1
        /\ Append(s, x) # <<>> /\ Len(s) \in Nat
    BY <2>1, AppendProperties
  <2> QED
    BY <2>1, <2>2 DEF s
<1>7. StoreShape'
  <2>1. FileTypesOK' /\ EngineTypesOK' /\ \A e \in Engine : EngineShape(e)'
    BY <1>1, <1>2, EngineShapeThrough DEF StoreShape, FileTypesOK
  <2>2. trash' \in [Row -> Seq(RowStates \ {"none"})]
    BY <1>1, <1>2, <1>6
  <2>3. ASSUME NEW p \in Row PROVE Len(trash'[p]) <= MaxTrash[p]
    <3>1. MaxTrash[p] \in Nat /\ Len(trash[p]) <= MaxTrash[p]
      BY <1>2, StoreAssumption DEF Row
    <3>2. CASE p = r
      BY <1>3, <1>6, <3>1, <3>2
    <3>3. CASE p # r
      BY <1>1, <1>2, <3>1, <3>3
    <3> QED
      BY <3>2, <3>3
  <2>4. PanelTypesOK'
    BY <1>1, <1>2, <1>4, <2>2, <2>3 DEF StoreShape, PanelTypesOK
  <2>5. PanelShape'
    BY <1>3, <1>4, <1>6 DEF PanelShape
  <2>6. Unlisted'
    <3> SUFFICES ASSUME NEW p \in PanelTask \ made
                 PROVE  doc[p] = "none" /\ trash'[p] = <<>> /\ panel.read[p] = "none" /\ r # p
                        /\ \A e \in Engine :
                            engine[e].pc = "mirroring" => engine[e].read[p] = "none"
      BY <1>1, <1>4 DEF Unlisted
    <3> QED
      BY <1>1, <1>2, <1>5 DEF StoreShape, Unlisted, Row
  <2> QED
    BY <2>1, <2>4, <2>5, <2>6 DEF StoreShape
<1>8. ASSUME ~raced, PanelKeeps, PlacesHold, EngineKeeps
      PROVE  PanelKeeps' /\ PlacesHold' /\ EngineKeeps'
  <2>1. PanelKeeps'
    <3>1. r \in PanelTask => RequestOn(r)'
      BY <1>1, <1>4, <1>8 DEF RequestOn, PanelKeeps
    <3> QED
      BY <1>1, <1>4, <1>8, <3>1 DEF PanelKeeps
  <2>2. PlacesHold'
    <3> SUFFICES ASSUME NEW p \in made
                 PROVE  PlacesOf(p)' >= 1 /\ (~cut => PlacesOf(p)' = Due(p)')
      BY <1>1 DEF PlacesHold
    <3>1. PlacesOf(p) >= 1 /\ (~cut => PlacesOf(p) = 1)
      BY <1>1, <1>8 DEF PlacesHold, Due
    <3>2. p \in Row /\ Len(trash[p]) \in Nat
      BY <1>2 DEF Row
    <3>3. ListedIn(p) \in {0, 1} /\ PurgedIn(p) \in {0, 1} /\ ListedIn(p)' = ListedIn(p)
          /\ PurgedIn(p)' = PurgedIn(p)
      BY <1>1 DEF ListedIn, PurgedIn
    <3>4. CASE p # r
      <4>1. trash'[p] = trash[p] /\ Due(p)' = 1
        BY <1>1, <1>2, <1>4, <3>2, <3>4 DEF Due
      <4> QED
        BY <3>1, <3>3, <4>1 DEF PlacesOf
    <3>5. CASE p = r
      <4>1. Due(p)' = 2
        BY <1>4, <3>5 DEF Due
      <4>2. PlacesOf(p)' = (Len(trash[p]) + 1) + ListedIn(p) + PurgedIn(p)
        BY <1>6, <3>3, <3>5 DEF PlacesOf
      <4>3. PlacesOf(p) = Len(trash[p]) + ListedIn(p) + PurgedIn(p)
        BY DEF PlacesOf
      <4>4. PlacesOf(p)' = PlacesOf(p) + 1
        BY <3>2, <3>3, <4>2, <4>3
      <4>5. PlacesOf(p) \in Nat
        BY <3>2, <3>3, <4>3
      <4> QED
        BY <3>1, <4>1, <4>4, <4>5
    <3> QED
      BY <3>4, <3>5
  <2>3. EngineKeeps'
    BY <1>1, <1>2, <1>8, EngineKeepsThrough DEF StoreShape, FileTypesOK
  <2> QED
    BY <2>1, <2>2, <2>3
<1> QED
  BY <1>1, <1>7, <1>8 DEF StoreInv

\* The list is replaced whole: by what the request read, and the row it is about.
LEMMA WriteDocKeeps == ASSUME StoreInv, WriteDoc PROVE StoreInv'
<1> PICK r : r = panel.row
  OBVIOUS
<1>1. /\ panel.pc \in {"write", "trashed", "restore"} /\ doc' = [panel.read EXCEPT ![r] = panel.new]
      /\ raced' = (raced \/ doc # panel.read) /\ made' = made \cup ({r} \cap PanelTask)
      /\ adrift' = IF doc'[r] = doc[r] THEN adrift ELSE adrift \cup ({r} \cap EngineTask)
      /\ UNCHANGED <<disk, trash, engine, purged, cut>>
      /\ panel' = IF panel.pc = "restore" THEN [panel EXCEPT !.pc = "restored"] ELSE Waiting
  BY DEF WriteDoc
<1>2. /\ StoreShape /\ trash \in [Row -> Seq(RowStates \ {"none"})] /\ panel \in PanelRecords
      /\ made \subseteq PanelTask /\ purged \subseteq made /\ adrift \subseteq EngineTask
      /\ \A p \in Row : Len(trash[p]) <= MaxTrash[p]
  BY DEF StoreInv, StoreShape, PanelTypesOK, FileTypesOK
<1>3. r \in Row /\ panel.read \in Docs /\ panel.new \in RowStates
  BY <1>1, <1>2 DEF StoreShape, PanelShape, PanelRecords
<1>4. doc' \in Docs /\ doc'[r] = panel.new /\ \A p \in Row : p # r => doc'[p] = panel.read[p]
  BY <1>1, <1>3 DEF Docs
<1>5. /\ panel.pc = "restore" =>
            /\ panel' \in PanelRecords /\ panel'.pc = "restored" /\ panel'.row = r
            /\ panel'.new = panel.new /\ panel'.read = panel.read
      /\ panel.pc # "restore" => panel' = Waiting
  <2>1. panel.pc = "restore" => panel' = [panel EXCEPT !.pc = "restored"]
    BY <1>1
  <2> QED
    BY <1>1, <1>2, <2>1 DEF PanelRecords
<1>6. Waiting \in PanelRecords /\ Waiting.pc = "idle"
  BY DEF Waiting, PanelRecords, RowStates
<1>7. StoreShape'
  <2>1. EngineTypesOK' /\ \A e \in Engine : EngineShape(e)'
    BY <1>1, <1>2, EngineShapeThrough
  <2>2. raced' \in BOOLEAN /\ adrift' \subseteq EngineTask
    BY <1>1, <1>2 DEF StoreShape, FileTypesOK
  <2>3. FileTypesOK'
    BY <1>1, <1>2, <1>4, <2>2 DEF StoreShape, FileTypesOK
  <2>4. panel' \in PanelRecords /\ made' \subseteq PanelTask /\ purged' \subseteq made'
    BY <1>1, <1>2, <1>5, <1>6
  <2>5. PanelTypesOK'
    BY <1>1, <1>2, <2>4 DEF StoreShape, PanelTypesOK
  <2>6. PanelShape'
    BY <1>1, <1>2, <1>3, <1>5, <1>6 DEF StoreShape, PanelShape
  <2>7. Unlisted'
    <3> SUFFICES ASSUME NEW p \in PanelTask \ made'
                 PROVE  /\ doc'[p] = "none" /\ trash[p] = <<>>
                        /\ panel'.pc # "idle" => panel'.read[p] = "none" /\ panel'.row # p
                        /\ \A e \in Engine :
                              engine[e].pc = "mirroring" => engine[e].read[p] = "none"
      BY <1>1 DEF Unlisted
    <3>1. p \in PanelTask \ made /\ p # r /\ p \in Row
      BY <1>1 DEF Row
    <3>2. panel.read[p] = "none" /\ trash[p] = <<>>
          /\ \A e \in Engine : engine[e].pc = "mirroring" => engine[e].read[p] = "none"
      BY <1>1, <1>2, <3>1 DEF StoreShape, Unlisted
    <3> QED
      BY <1>4, <1>5, <1>6, <3>1, <3>2
  <2> QED
    BY <2>1, <2>3, <2>5, <2>6, <2>7 DEF StoreShape
<1>8. ASSUME ~raced' PROVE PanelKeeps' /\ PlacesHold' /\ EngineKeeps'
  <2>1. PanelKeeps /\ PlacesHold /\ EngineKeeps /\ doc = panel.read
    BY <1>1, <1>8 DEF StoreInv
  <2>2. r \in PanelTask => RequestOn(r)
    BY <1>1, <2>1 DEF PanelKeeps
  <2>3. PanelKeeps'
    <3>1. CASE panel.pc = "restore"
      <4>1. r \in PanelTask => doc'[r] # "none"
        BY <1>4, <2>2, <3>1 DEF RequestOn
      <4>2. r \in PanelTask => RequestOn(r)'
        BY <1>5, <3>1, <4>1 DEF RequestOn
      <4> QED
        BY <1>5, <3>1, <4>2 DEF PanelKeeps
    <3>2. CASE panel.pc # "restore"
      BY <1>5, <1>6, <3>2 DEF PanelKeeps
    <3> QED
      BY <3>1, <3>2
  <2>4. PlacesHold'
    <3> SUFFICES ASSUME NEW p \in made'
                 PROVE  PlacesOf(p)' >= 1 /\ (~cut => PlacesOf(p)' = Due(p)')
      BY <1>1 DEF PlacesHold
    <3>1. p \in PanelTask /\ p \in Row /\ Len(trash[p]) \in Nat /\ trash'[p] = trash[p]
      BY <1>1, <1>2 DEF Row
    <3>2. ListedIn(p) \in {0, 1} /\ PurgedIn(p) \in {0, 1} /\ PurgedIn(p)' = PurgedIn(p)
      BY <1>1 DEF ListedIn, PurgedIn
    <3>3. CASE p # r
      <4>1. p \in made /\ doc'[p] = doc[p]
        BY <1>1, <1>4, <2>1, <3>1, <3>3
      <4>2. Due(p)' = 1 /\ Due(p) = 1 /\ PlacesOf(p)' = PlacesOf(p)
        BY <1>1, <1>5, <1>6, <3>3, <4>1 DEF Due, PlacesOf, ListedIn, PurgedIn
      <4> QED
        BY <2>1, <4>1, <4>2 DEF PlacesHold
    <3>4. CASE p = r /\ panel.pc = "write" /\ p \in made
      <4>1. doc'[p] # "none" <=> doc[p] # "none"
        BY <1>4, <2>2, <3>1, <3>4 DEF RequestOn
      <4>2. ListedIn(p)' = ListedIn(p) /\ Due(p)' = 1 /\ Due(p) = 1
        BY <1>5, <1>6, <3>4, <4>1 DEF ListedIn, Due
      <4>3. PlacesOf(p)' = PlacesOf(p)
        BY <3>1, <3>2, <4>2 DEF PlacesOf
      <4> QED
        BY <2>1, <3>4, <4>2, <4>3 DEF PlacesHold
    <3>5. CASE p = r /\ panel.pc = "write" /\ p \notin made
      <4>1. doc'[p] # "none" /\ trash[p] = <<>> /\ p \notin purged
        BY <1>2, <1>4, <2>2, <3>1, <3>5 DEF RequestOn, StoreShape, Unlisted
      <4>2. ListedIn(p)' = 1 /\ PurgedIn(p) = 0 /\ Len(trash[p]) = 0 /\ Due(p)' = 1
        BY <1>5, <1>6, <3>5, <4>1 DEF ListedIn, PurgedIn, Due
      <4> QED
        BY <3>1, <3>2, <4>2 DEF PlacesOf
    <3>6. CASE p = r /\ panel.pc = "trashed"
      <4>1. p \in made /\ doc'[p] = "none" /\ doc[p] # "none" /\ trash[p] # <<>>
        BY <1>2, <1>4, <2>2, <3>1, <3>6 DEF RequestOn, StoreShape, Unlisted, PanelShape
      <4>2. ListedIn(p)' = 0 /\ ListedIn(p) = 1 /\ Due(p)' = 1 /\ Due(p) = 2
        BY <1>5, <1>6, <3>6, <4>1 DEF ListedIn, Due
      <4>3. Len(trash[p]) >= 1
        BY <1>2, <3>1, <4>1, FrontOfFiles
      <4>4. /\ PlacesOf(p) = Len(trash[p]) + 1 + PurgedIn(p)
            /\ PlacesOf(p)' = Len(trash[p]) + 0 + PurgedIn(p)
        BY <3>1, <3>2, <4>2 DEF PlacesOf
      <4>5. ~cut => PlacesOf(p) = 2
        BY <2>1, <4>1, <4>2 DEF PlacesHold
      <4> HIDE DEF PlacesOf
      <4>6. PlacesOf(p)' >= 1 /\ (PlacesOf(p) = 2 => PlacesOf(p)' = 1)
        BY <3>1, <3>2, <4>3, <4>4
      <4> QED
        BY <4>2, <4>5, <4>6
    <3>7. CASE p = r /\ panel.pc = "restore"
      <4>1. p \in made /\ doc'[p] # "none" /\ doc[p] = "none"
        BY <1>2, <1>4, <2>2, <3>1, <3>7 DEF RequestOn, StoreShape, Unlisted
      <4>2. ListedIn(p)' = 1 /\ ListedIn(p) = 0 /\ Due(p)' = 2 /\ Due(p) = 1
        BY <1>5, <3>7, <4>1 DEF ListedIn, Due
      <4>3. /\ PlacesOf(p) = Len(trash[p]) + 0 + PurgedIn(p)
            /\ PlacesOf(p)' = Len(trash[p]) + 1 + PurgedIn(p)
        BY <3>1, <3>2, <4>2 DEF PlacesOf
      <4>4. ~cut => PlacesOf(p) = 1
        BY <2>1, <4>1, <4>2 DEF PlacesHold
      <4>5. PlacesOf(p)' >= 1 /\ (PlacesOf(p) = 1 => PlacesOf(p)' = 2)
        BY <3>1, <3>2, <4>3
      <4> QED
        BY <4>2, <4>4, <4>5
    <3> QED
      BY <1>1, <3>3, <3>4, <3>5, <3>6, <3>7
  <2>5. EngineKeeps'
    <3>1. adrift \subseteq adrift' /\ adrift' \subseteq EngineTask
      BY <1>1, <1>2
    <3>2. \A i \in EngineTask \ adrift' : doc'[i] = doc[i]
      BY <1>1, <1>4, <2>1 DEF Row
    <3> QED
      BY <1>1, <2>1, <3>1, <3>2, EngineKeepsThrough
  <2> QED
    BY <2>3, <2>4, <2>5
<1> QED
  BY <1>7, <1>8 DEF StoreInv

LEMMA UnlinkRestoredKeeps == ASSUME StoreInv, UnlinkRestored PROVE StoreInv'
<1> PICK r : r = panel.row
  OBVIOUS
<1>1. /\ panel.pc = "restored" /\ trash' = [trash EXCEPT ![r] = Front(@)] /\ panel' = Waiting
      /\ UNCHANGED <<disk, doc, engine, made, purged, adrift, raced, cut>>
  BY DEF UnlinkRestored
<1>2. /\ StoreShape /\ trash \in [Row -> Seq(RowStates \ {"none"})]
      /\ made \subseteq PanelTask /\ \A p \in Row : Len(trash[p]) <= MaxTrash[p]
  BY DEF StoreInv, StoreShape, PanelTypesOK
<1>3. r \in Row /\ trash[r] # <<>> /\ r \notin PanelTask \ made
  BY <1>1, <1>2 DEF StoreShape, PanelShape, Unlisted
<1>4. Waiting \in PanelRecords /\ Waiting.pc = "idle"
  BY DEF Waiting, PanelRecords, RowStates
<1>5. /\ trash'[r] \in Seq(RowStates \ {"none"}) /\ Len(trash'[r]) = Len(trash[r]) - 1
      /\ Len(trash[r]) \in Nat \ {0}
  BY <1>1, <1>2, <1>3, FrontOfFiles
<1>6. StoreShape'
  <2>1. FileTypesOK' /\ EngineTypesOK' /\ \A e \in Engine : EngineShape(e)'
    BY <1>1, <1>2, EngineShapeThrough DEF StoreShape, FileTypesOK
  <2>2. trash' \in [Row -> Seq(RowStates \ {"none"})]
    BY <1>1, <1>2, <1>5
  <2>3. ASSUME NEW p \in Row PROVE Len(trash'[p]) <= MaxTrash[p]
    <3>1. MaxTrash[p] \in Nat /\ Len(trash[p]) <= MaxTrash[p]
      BY <1>2, StoreAssumption DEF Row
    <3>2. CASE p = r
      BY <1>5, <3>1, <3>2
    <3>3. CASE p # r
      BY <1>1, <1>2, <3>1, <3>3
    <3> QED
      BY <3>2, <3>3
  <2>4. PanelTypesOK'
    BY <1>1, <1>2, <1>4, <2>2, <2>3 DEF StoreShape, PanelTypesOK
  <2>5. PanelShape'
    BY <1>1, <1>4 DEF PanelShape
  <2>6. Unlisted'
    <3> SUFFICES ASSUME NEW p \in PanelTask \ made
                 PROVE  /\ doc[p] = "none" /\ trash'[p] = <<>>
                        /\ \A e \in Engine :
                              engine[e].pc = "mirroring" => engine[e].read[p] = "none"
      BY <1>1, <1>4 DEF Unlisted
    <3> QED
      BY <1>1, <1>2, <1>3 DEF StoreShape, Unlisted, Row
  <2> QED
    BY <2>1, <2>4, <2>5, <2>6 DEF StoreShape
<1>7. ASSUME ~raced, PanelKeeps, PlacesHold, EngineKeeps
      PROVE  PanelKeeps' /\ PlacesHold' /\ EngineKeeps'
  <2>1. PanelKeeps'
    BY <1>1, <1>4 DEF PanelKeeps
  <2>2. PlacesHold'
    <3> SUFFICES ASSUME NEW p \in made
                 PROVE  PlacesOf(p)' >= 1 /\ (~cut => PlacesOf(p)' = 1)
      BY <1>1, <1>4 DEF PlacesHold, Due
    <3>1. p \in PanelTask /\ p \in Row /\ Len(trash[p]) \in Nat
      BY <1>2 DEF Row
    <3>2. ListedIn(p) \in {0, 1} /\ PurgedIn(p) \in {0, 1} /\ PurgedIn(p)' = PurgedIn(p)
          /\ ListedIn(p)' = ListedIn(p)
      BY <1>1 DEF ListedIn, PurgedIn
    <3>3. CASE p # r
      <4>1. trash'[p] = trash[p]
        BY <1>1, <1>2, <3>1, <3>3
      <4>2. Due(p) = 1
        BY <1>1, <3>3 DEF Due
      <4>3. PlacesOf(p)' = PlacesOf(p)
        BY <3>2, <4>1 DEF PlacesOf
      <4> QED
        BY <1>7, <4>2, <4>3 DEF PlacesHold
    <3>4. CASE p = r
      <4>1. doc[p] # "none"
        BY <1>1, <1>7, <3>1, <3>4 DEF PanelKeeps, RequestOn
      <4>2. ListedIn(p) = 1 /\ Due(p) = 2
        BY <1>1, <3>4, <4>1 DEF ListedIn, Due
      <4>3. PlacesOf(p) = Len(trash[p]) + 1 + PurgedIn(p)
            /\ PlacesOf(p)' = (Len(trash[p]) - 1) + 1 + PurgedIn(p)
        BY <1>5, <3>2, <3>4, <4>2 DEF PlacesOf
      <4>4. ~cut => PlacesOf(p) = 2
        BY <1>7, <4>2 DEF PlacesHold
      <4>5. PlacesOf(p)' >= 1 /\ (PlacesOf(p) = 2 => PlacesOf(p)' = 1)
        BY <1>5, <3>2, <3>4, <4>3
      <4> QED
        BY <4>4, <4>5
    <3> QED
      BY <3>3, <3>4
  <2>3. EngineKeeps'
    BY <1>1, <1>2, <1>7, EngineKeepsThrough DEF StoreShape, FileTypesOK
  <2> QED
    BY <2>1, <2>2, <2>3
<1> QED
  BY <1>1, <1>6, <1>7 DEF StoreInv

LEMMA PanelStopsKeeps == ASSUME StoreInv, PanelStops PROVE StoreInv'
<1>1. /\ panel' = Waiting /\ cut' = (cut \/ panel.pc \in {"trashed", "restored"})
      /\ UNCHANGED <<disk, doc, trash, engine, made, purged, adrift, raced>>
  BY DEF PanelStops
<1>2. StoreShape /\ Waiting \in PanelRecords /\ Waiting.pc = "idle"
  BY DEF StoreInv, Waiting, PanelRecords, RowStates
<1>3. StoreShape'
  <2>1. FileTypesOK' /\ EngineTypesOK' /\ \A e \in Engine : EngineShape(e)'
    BY <1>1, <1>2, EngineShapeThrough DEF StoreShape, FileTypesOK
  <2>2. cut' \in BOOLEAN
    BY <1>1, <1>2 DEF StoreShape, PanelTypesOK
  <2>3. PanelTypesOK'
    BY <1>1, <1>2, <2>2 DEF StoreShape, PanelTypesOK
  <2>4. PanelShape' /\ Unlisted'
    BY <1>1, <1>2 DEF StoreShape, PanelShape, Unlisted
  <2> QED
    BY <2>1, <2>3, <2>4 DEF StoreShape
<1>4. ASSUME ~raced, PanelKeeps, PlacesHold, EngineKeeps
      PROVE  PanelKeeps' /\ PlacesHold' /\ EngineKeeps'
  <2>1. PanelKeeps'
    BY <1>1, <1>2 DEF PanelKeeps
  <2>2. PlacesHold'
    <3> SUFFICES ASSUME NEW p \in made
                 PROVE  PlacesOf(p)' >= 1 /\ (~cut' => PlacesOf(p)' = Due(p)')
      BY <1>1 DEF PlacesHold
    <3>1. PlacesOf(p)' = PlacesOf(p) /\ Due(p)' = 1
      BY <1>1, <1>2 DEF PlacesOf, ListedIn, PurgedIn, Due
    <3>2. ~cut' => ~cut /\ Due(p) = 1
      BY <1>1 DEF Due
    <3> QED
      BY <1>4, <3>1, <3>2 DEF PlacesHold
  <2>3. EngineKeeps'
    BY <1>1, <1>2, <1>4, EngineKeepsThrough DEF StoreShape, FileTypesOK
  <2> QED
    BY <2>1, <2>2, <2>3
<1> QED
  BY <1>1, <1>3, <1>4 DEF StoreInv

LEMMA StoreStutter == ASSUME StoreInv, UNCHANGED storeVars PROVE StoreInv'
<1>1. UNCHANGED panelVars /\ UNCHANGED <<disk, doc, engine, adrift, raced>>
  BY DEF storeVars, panelVars
<1>2. StoreShape'
  <2>1. FileTypesOK' /\ EngineTypesOK' /\ \A e \in Engine : EngineShape(e)'
    BY <1>1, EngineShapeThrough DEF StoreInv, StoreShape, FileTypesOK
  <2>2. PanelTypesOK' /\ PanelShape' /\ Unlisted'
    BY <1>1 DEF StoreInv, StoreShape, PanelTypesOK, PanelShape, Unlisted, panelVars
  <2> QED
    BY <2>1, <2>2 DEF StoreShape
<1>3. ASSUME ~raced, PanelKeeps, PlacesHold, EngineKeeps
      PROVE  PanelKeeps' /\ PlacesHold' /\ EngineKeeps'
  <2>1. PanelKeeps' /\ PlacesHold'
    BY <1>1, <1>3, PanelKeepsThrough DEF StoreInv
  <2>2. EngineKeeps'
    BY <1>1, <1>3, EngineKeepsThrough DEF StoreInv, StoreShape, FileTypesOK
  <2> QED
    BY <2>1, <2>2
<1> QED
  BY <1>1, <1>2, <1>3 DEF StoreInv

LEMMA EngineStepInv == ASSUME StoreInv, NEW e \in Engine, EngineStep(e) PROVE StoreInv'
<1>1. CASE Start(e)
  BY <1>1, StartEngineKeeps
<1>2. CASE CreateTask(e)
  BY <1>2, CreateTaskKeeps
<1>3. CASE RunStep(e)
  BY <1>3, ChangesKeep
<1>4. CASE Finish(e)
  BY <1>4, FinishKeeps
<1>5. ASSUME NEW i \in EngineTask, Run(e, i) \/ Cancel(e, i) \/ Archive(e, i) \/ Drop(e, i)
                                   \/ MirrorRow(e, i)
      PROVE  StoreInv'
  <2>1. CASE Run(e, i)
    BY <2>1, RunKeeps
  <2>2. CASE Cancel(e, i) \/ Archive(e, i) \/ Drop(e, i)
    BY <2>2, ChangesKeep
  <2>3. CASE MirrorRow(e, i)
    BY <2>3, MirrorRowKeeps
  <2> QED
    BY <1>5, <2>1, <2>2, <2>3
<1>6. CASE \E s \in {"done", "simulation"} : ArchiveAll(e, s)
  BY <1>6, ChangesKeep
<1>7. CASE Truncate(e)
  BY <1>7, TruncateKeeps
<1>8. CASE Fill(e)
  BY <1>8, FillKeeps
<1>9. CASE ReadDoc(e)
  BY <1>9, ReadDocKeeps
<1>10. CASE MirrorFails(e) \/ SaveFails(e) \/ Die(e)
  BY <1>10, FailsKeep
<1> QED
  BY <1>1, <1>2, <1>3, <1>4, <1>5, <1>6, <1>7, <1>8, <1>9, <1>10 DEF EngineStep

LEMMA PanelStepInv == ASSUME StoreInv, PanelStep PROVE StoreInv'
<1>1. ASSUME NEW r \in Row, \/ PostCreate(r) \/ PostComplete(r) \/ PostDelete(r)
                            \/ PostRestore(r) \/ PostDeletePermanent(r)
      PROVE  StoreInv'
  <2>1. CASE PostDeletePermanent(r)
    BY <2>1, PurgeKeeps
  <2> QED
    BY <1>1, <2>1, RequestsKeep
<1>2. CASE FileAway
  BY <1>2, FileAwayKeeps
<1>3. CASE WriteDoc
  BY <1>3, WriteDocKeeps
<1>4. CASE UnlinkRestored
  BY <1>4, UnlinkRestoredKeeps
<1>5. CASE PanelStops
  BY <1>5, PanelStopsKeeps
<1> QED
  BY <1>1, <1>2, <1>3, <1>4, <1>5 DEF PanelStep

LEMMA StoreNextInv == StoreInv /\ [StoreNext]_storeVars => StoreInv'
  BY StoreStutter, EngineStepInv, PanelStepInv DEF StoreNext

LEMMA StoreAlwaysInv == StoreSpec => []StoreInv
  BY StoreInitInv, StoreNextInv, PTL DEF StoreSpec

LEMMA SavedAreLists == SavedLists \subseteq Lists
  BY DEF SavedLists, Lists

\* StoreTypeOK: the two files, the trash and every copy of a list keep their types for
\* any number of engines and tasks; a permanent deletion is of a task that was made.
THEOREM StoreTypeCorrect == StoreSpec => []StoreTypeOK
<1>1. StoreInv => StoreTypeOK
  <2> SUFFICES ASSUME StoreInv PROVE StoreTypeOK
    OBVIOUS
  <2>1. FileTypesOK /\ PanelTypesOK /\ EngineTypesOK /\ \A e \in Engine : EngineShape(e)
    BY DEF StoreInv, StoreShape
  <2>2. disk \in Lists \cup {Torn} /\ doc \in Docs
    BY <2>1, SavedAreLists DEF FileTypesOK
  <2>3. ASSUME NEW r \in Row
        PROVE  Len(trash[r]) <= MaxTrash[r] /\ Range(trash[r]) \subseteq RowStates \ {"none"}
    <3>1. trash[r] \in Seq(RowStates \ {"none"}) /\ Len(trash[r]) <= MaxTrash[r]
      BY <2>1 DEF PanelTypesOK
    <3> QED
      BY <3>1 DEF Range
  <2>4. ASSUME NEW e \in Engine
        PROVE  /\ engine[e].mem \in Lists /\ engine[e].saw \in Lists \cup {Torn}
               /\ engine[e].todo \subseteq EngineTask
               /\ (engine[e].run = 0) = Phase(e, "rest")
    <3>1. /\ engine[e].mem \in SavedLists /\ engine[e].saw \in SavedLists \cup {Torn}
          /\ engine[e].todo \subseteq EngineTask
      BY <2>1 DEF EngineTypesOK, EngineRecords
    <3>2. (engine[e].run = 0) = Phase(e, "rest")
      BY <2>1 DEF EngineShape, Phase
    <3> QED
      BY <3>1, <3>2, SavedAreLists
  <2>5. /\ panel.pc \in {"idle", "write", "delete", "trashed", "restore", "restored"}
        /\ made \subseteq PanelTask /\ purged \subseteq made /\ adrift \subseteq EngineTask
        /\ raced \in BOOLEAN /\ cut \in BOOLEAN
    BY <2>1 DEF FileTypesOK, PanelTypesOK, PanelRecords
  <2> QED
    BY <2>2, <2>3, <2>4, <2>5 DEF StoreTypeOK
<1> QED
  BY <1>1, StoreAlwaysInv, PTL

\* KeptInOnePlace: whatever write fails and wherever the panel server stops, a task it
\* created is listed, in the trash or deleted for good, and with no request cut off in one
\* of these places only, for any number of rows, of files in the trash and of engines.
THEOREM KeptOnce == StoreSpec => []KeptInOnePlace
<1>1. StoreInv => KeptInOnePlace
  <2> SUFFICES ASSUME StoreInv, ~raced, NEW r \in made
               PROVE  LET places == Len(trash[r]) + (IF doc[r] # "none" THEN 1 ELSE 0)
                                                  + (IF r \in purged THEN 1 ELSE 0)
                      IN  places >= 1 /\ (~cut /\ panel.pc = "idle" => places = 1)
    BY DEF KeptInOnePlace
  <2>1. PlacesOf(r) >= 1 /\ (~cut => PlacesOf(r) = Due(r))
    BY DEF StoreInv, PlacesHold
  <2>2. panel.pc = "idle" => Due(r) = 1
    BY DEF Due
  <2>3. PlacesOf(r) >= 1 /\ (~cut /\ panel.pc = "idle" => PlacesOf(r) = 1)
    BY <2>1, <2>2
  <2> QED
    BY <2>3 DEF PlacesOf, ListedIn, PurgedIn
<1> QED
  BY <1>1, StoreAlwaysInv, PTL

\* RowFollowsEngine: once an engine has mirrored a task it saved, the user's list shows it
\* as the engine's file has it, for any number of engines and tasks, whatever fails or dies,
\* as long as nobody has written over what he had not seen.
THEOREM RowsFollowEngine == StoreSpec => []RowFollowsEngine
<1>1. StoreInv => RowFollowsEngine
  <2> SUFFICES ASSUME StoreInv, ~raced, disk # Torn, NEW i \in EngineTask \ adrift
               PROVE  \/ \E e \in Engine : EngineMirrors(e) /\ i \in engine[e].todo
                      \/ doc[i] = LET task == disk.tasks[i]
                                  IN  CASE task.status = "none" \/ task.archived -> "none"
                                        [] task.status = "done" /\ ~task.archived -> "done"
                                        [] OTHER -> "active"
    BY DEF RowFollowsEngine, EngineMirrors
  <2>1. Follows(i, RowOf(disk.tasks[i]))
    BY DEF StoreInv, EngineKeeps, RowsFollow
  <2>2. \/ \E e \in Engine : EngineMirrors(e) /\ i \in engine[e].todo
        \/ doc[i] = RowOf(disk.tasks[i])
    BY <2>1 DEF Follows, Owes
  <2> DEFINE t == disk.tasks[i]
  <2>3. RowOf(t) = CASE t.status = "none" \/ t.archived -> "none"
                     [] t.status = "done" /\ ~t.archived -> "done"
                     [] OTHER -> "active"
    <3>1. t \in TaskRecords
      BY DEF StoreInv, StoreShape, FileTypesOK, SavedLists
    <3> HIDE DEF t
    <3>2. CASE t.status = "none"
      BY <3>2, <3>1 DEF RowOf, TaskRecords
    <3>3. CASE t.status # "none" /\ t.archived
      BY <3>3, <3>1 DEF RowOf, TaskRecords
    <3>4. CASE t.status # "none" /\ ~t.archived
      BY <3>4, <3>1 DEF RowOf, TaskRecords
    <3> QED
      BY <3>2, <3>3, <3>4
  <2> QED
    BY <2>2, <2>3
<1> QED
  BY <1>1, StoreAlwaysInv, PTL

-----------------------------------------------------------------------------
(* All of them: a behaviour of the services is one of each, most of them at rest *)

LEMMA ServicesBegin ==
    ASSUME ServicesInit
    PROVE  /\ JournalInit /\ Init /\ StoreInit /\ PaymentInit /\ FounderInit /\ PatchInit
           /\ GoalInit /\ JobInit /\ PresenceInit /\ InterpreterInit /\ EvidenceInit /\ TrashInit
  BY DEF ServicesInit

\* A step of one service leaves the variables of the others as they are.
LEMMA ServicesStep ==
    ASSUME [ServicesNext]_servicesVars
    PROVE  /\ service' = service
           /\ [JournalNext]_journalVars /\ [Next]_vars /\ [StoreNext]_storeVars
           /\ [PaymentNext]_paymentVars /\ [FounderNext]_founderVars /\ [PatchNext]_patchVars
           /\ [GoalNext]_goalVars /\ [JobNext]_jobVars /\ [PresenceNext]_presenceVars
           /\ [InterpreterNext]_interpreterVars /\ [EvidenceNext]_evidenceVars
           /\ [TrashNext]_trashVars
  BY DEF ServicesNext, servicesVars

LEMMA ServicesAreEach ==
    ServicesSpec =>
        /\ JournalSpec /\ Spec /\ StoreSpec /\ PaymentSpec /\ FounderSpec /\ PatchSpec
        /\ GoalSpec /\ JobSpec /\ PresenceSpec /\ InterpreterSpec /\ EvidenceSpec /\ TrashSpec
<1>1. ServicesInit => /\ JournalInit /\ Init /\ StoreInit /\ PaymentInit /\ FounderInit
                      /\ PatchInit /\ GoalInit /\ JobInit /\ PresenceInit /\ InterpreterInit
                      /\ EvidenceInit /\ TrashInit
  BY ServicesBegin
<1>2. [ServicesNext]_servicesVars =>
        /\ [JournalNext]_journalVars /\ [Next]_vars /\ [StoreNext]_storeVars
        /\ [PaymentNext]_paymentVars /\ [FounderNext]_founderVars /\ [PatchNext]_patchVars
        /\ [GoalNext]_goalVars /\ [JobNext]_jobVars /\ [PresenceNext]_presenceVars
        /\ [InterpreterNext]_interpreterVars /\ [EvidenceNext]_evidenceVars
        /\ [TrashNext]_trashVars
  BY ServicesStep
<1> QED
  BY <1>1, <1>2, PTL
     DEF ServicesSpec, JournalSpec, Spec, StoreSpec, PaymentSpec, FounderSpec, PatchSpec, GoalSpec,
         JobSpec, PresenceSpec, InterpreterSpec, EvidenceSpec, TrashSpec

\* ServicesTypeOK: the service of a behaviour keeps the types of its variables, for any
\* number of threads, engines, agents, watchers, files and steps.
THEOREM ServicesTypeCorrect == ServicesSpec => []ServicesTypeOK
<1>1. /\ JournalTypeOK /\ TypeOK /\ StoreTypeOK /\ PaymentTypeOK /\ FounderTypeOK /\ PatchTypeOK
      /\ GoalTypeOK /\ JobTypeOK /\ PresenceTypeOK /\ InterpreterTypeOK /\ EvidenceTypeOK
      /\ TrashTypeOK
      => ServicesTypeOK
  BY DEF ServicesTypeOK
<1> QED
  BY <1>1, ServicesAreEach, JournalTypeCorrect, ApprovalTypeCorrect, StoreTypeCorrect,
     PaymentTypeCorrect, FounderTypeCorrect, PatchTypeCorrect, GoalTypeCorrect, JobTypeCorrect,
     PresenceTypeCorrect, InterpreterTypeCorrect, EvidenceTypeCorrect, TrashTypeCorrect, PTL

\* Every property the run of the services checks holds of them for any number of threads,
\* engines, agents, watchers, files and steps: what each service promises of its state is
\* not lost when it is one of twelve.
THEOREM ServicesKeepTheirPromises ==
    ServicesSpec =>
        /\ []JournalFollowsBoard /\ []EachApprovalOnce /\ []KeptInOnePlace /\ []RowFollowsEngine
        /\ []AuditExplainsPayment /\ []AuditIsTrue /\ []AttemptIsWhole /\ []GoalIsDecidedOnce
        /\ []JobTellsTheTruth /\ []WatcherIsKnown /\ []VoiceIsCurrent /\ []AvatarFollows
        /\ []EvidenceTellsTheTruth /\ []TrashKeepsContent
  BY ServicesAreEach, JournalFollows, ApprovedOnce, KeptOnce, RowsFollowEngine, AuditExplains,
     FounderAuditIsTrue, PatchIsWhole, GoalDecidedOnce, JobsTellTheTruth, WatcherStaysKnown,
     VoiceStaysCurrent, AvatarFollowsVoice, EvidenceIsTrue, TrashKeeps, PTL
=============================================================================

----------------------------- MODULE Interpreter -----------------------------
(***************************************************************************)
(* The interpreter's voice in a meeting (src/representative): one loop     *)
(* takes assembled turns, interrupts what is still being said, translates, *)
(* says the first clip itself and leaves the others to a worker thread     *)
(* (tts_playback.py).  Each clip turns the avatar's face to speaking, a    *)
(* timer turns it back, and a publisher sends the newest face (avatar.py). *)
(* Turns that are not spoken change none of this.                          *)
(***************************************************************************)
EXTENDS Integers, Sequences

CONSTANTS
    Clips,      \* how many clips a translation may have
    MaxTurns    \* bound of a run: spoken turns

ASSUME InterpreterAssumption == MaxTurns \in Nat /\ Clips \subseteq Nat \ {0}

VARIABLES
    turn,           \* the turn at hand
    planned,        \* how many clips its translation has
    said,           \* of each turn, how many clips were begun
    voice,          \* the loop's thread and the worker's
    pending,        \* _pending: the turn of each clip left to the worker
    cancel,         \* _cancel
    givenUp,        \* the last interruption did not see the worker end
    broken,         \* the worker has raised since then
    generation,     \* of the avatar's state
    timers,         \* the generations whose timer has not fired
    slot,           \* the face that waits to be published
    publishing,     \* the one being published
    shown,          \* the one the meeting sees
    missed          \* the last publication failed

voiceVars == <<turn, planned, said, voice, pending, cancel, givenUp, broken>>
avatarVars == <<generation, timers, slot, publishing, shown, missed>>
interpreterVars == <<voiceVars, avatarVars>>

Loop == "loop"
ClipWorker == "worker"
Faces == {"idle", "speaking"}
NoFace == "none"

InterpreterInit ==
    /\ turn = 0 /\ planned = 0 /\ said = [t \in 1 .. MaxTurns |-> 0]
    /\ voice = [v \in {Loop, ClipWorker} |->
                    [at |-> IF v = Loop THEN "listen" ELSE "dead", of |-> 0]]
    /\ pending = <<>> /\ cancel = FALSE /\ givenUp = FALSE /\ broken = FALSE
    /\ generation = 0 /\ timers = {} /\ slot = NoFace /\ publishing = NoFace
    /\ shown = "idle" /\ missed = FALSE

Voice(v, place) == voice[v].at = place
Moves(v, place) == voice' = [voice EXCEPT ![v].at = place]
WorkerAlive == ~Voice(ClipWorker, "dead")

\* A change of state and the face it stages, under the avatar's lock.
Stages(face) == generation' = generation + 1 /\ slot' = face

-----------------------------------------------------------------------------
(* The loop *)

\* A turn worth speaking interrupts the former one: first the face.
TakeTurn ==
    /\ Voice(Loop, "listen") /\ turn < MaxTurns
    /\ turn' = turn + 1 /\ Stages("idle") /\ Moves(Loop, "drop")
    /\ UNCHANGED <<planned, said, pending, cancel, givenUp, broken,
                   timers, publishing, shown, missed>>

DropPending ==
    /\ Voice(Loop, "drop") /\ pending' = <<>> /\ Moves(Loop, "stop")
    /\ UNCHANGED <<turn, planned, said, cancel, givenUp, broken, avatarVars>>

SetCancel ==
    /\ Voice(Loop, "stop") /\ cancel' = TRUE /\ Moves(Loop, "join")
    /\ UNCHANGED <<turn, planned, said, pending, givenUp, broken, avatarVars>>

\* Mutant: the interruption does not wait for the clip in hand.
JoinNobody ==
    /\ Voice(Loop, "join") /\ Moves(Loop, "translate")
    /\ givenUp' = FALSE /\ broken' = FALSE
    /\ UNCHANGED <<turn, planned, said, pending, cancel, avatarVars>>

\* The worker has ended, or eight seconds have passed.
JoinWorker ==
    /\ Voice(Loop, "join") /\ Moves(Loop, "translate")
    /\ givenUp' = WorkerAlive /\ broken' = FALSE
    /\ UNCHANGED <<turn, planned, said, pending, cancel, avatarVars>>

\* A translation that is empty, not one, or in the wrong language twice is recorded
\* and not spoken; a translator that raises ends the session.
Translate ==
    /\ Voice(Loop, "translate")
    /\ \/ \E n \in Clips :
            /\ planned' = n
            /\ voice' = [voice EXCEPT ![Loop].at = "speak", ![Loop].of = turn]
       \/ \E place \in {"listen", "over"} : Moves(Loop, place) /\ planned' = 0
    /\ UNCHANGED <<turn, said, pending, cancel, givenUp, broken, avatarVars>>

ClearCancel ==
    /\ Voice(Loop, "speak") /\ cancel' = FALSE /\ Moves(Loop, "clip")
    /\ UNCHANGED <<turn, planned, said, pending, givenUp, broken, avatarVars>>

\* The first clip is over: the others are left to the worker.
QueueRest ==
    /\ Voice(Loop, "rest") /\ planned > 1
    /\ pending' = pending \o [i \in 1 .. planned - 1 |-> turn] /\ Moves(Loop, "kick")
    /\ UNCHANGED <<turn, planned, said, cancel, givenUp, broken, avatarVars>>

\* A worker that is still alive is taken to go on.
KickWorker ==
    /\ Voice(Loop, "kick")
    /\ voice' = [voice EXCEPT ![Loop].at = "listen",
                              ![ClipWorker].at = IF WorkerAlive THEN @ ELSE "pop"]
    /\ UNCHANGED <<turn, planned, said, pending, cancel, givenUp, broken, avatarVars>>

NothingLeft ==
    /\ Voice(Loop, "rest") /\ planned = 1 /\ Moves(Loop, "listen")
    /\ UNCHANGED <<turn, planned, said, pending, cancel, givenUp, broken, avatarVars>>

-----------------------------------------------------------------------------
(* A clip, said by either thread while it holds the gate closed *)

DeliverClip(v) ==
    /\ Voice(v, "clip")
    /\ said' = [said EXCEPT ![voice[v].of] = @ + 1] /\ Moves(v, "face")
    /\ UNCHANGED <<turn, planned, pending, cancel, givenUp, broken, avatarVars>>

\* Neither the synthesis nor the delivery is guarded.
ClipRaises(v) ==
    /\ Voice(v, "clip")
    /\ Moves(v, IF v = Loop THEN "over" ELSE "dead") /\ broken' = TRUE
    /\ UNCHANGED <<turn, planned, said, pending, cancel, givenUp, avatarVars>>

\* The timer that is started after the lock's release fires later anyway.
ShowSpeaking(v) ==
    /\ Voice(v, "face") /\ Stages("speaking")
    /\ timers' = timers \cup {generation + 1} /\ Moves(v, "hold")
    /\ UNCHANGED <<turn, planned, said, pending, cancel, givenUp, broken,
                   publishing, shown, missed>>

HoldEnds(v) ==
    /\ Voice(v, "hold") /\ Moves(v, IF v = Loop THEN "rest" ELSE "pop")
    /\ UNCHANGED <<turn, planned, said, pending, cancel, givenUp, broken, avatarVars>>

-----------------------------------------------------------------------------
(* The worker *)

PopClip ==
    /\ Voice(ClipWorker, "pop")
    /\ IF pending = <<>>
       THEN Moves(ClipWorker, "ending") /\ UNCHANGED pending
       ELSE /\ voice' = [voice EXCEPT ![ClipWorker] = [at |-> "popped", of |-> Head(pending)]]
            /\ pending' = Tail(pending)
    /\ UNCHANGED <<turn, planned, said, cancel, givenUp, broken, avatarVars>>

\* Looks at the flag before the synthesis, and again after it.
HeedCancel ==
    /\ \/ /\ Voice(ClipWorker, "popped")
          /\ IF cancel THEN pending' = <<>> /\ Moves(ClipWorker, "ending")
             ELSE Moves(ClipWorker, "synthesized") /\ UNCHANGED pending
       \/ /\ Voice(ClipWorker, "synthesized") /\ UNCHANGED pending
          /\ Moves(ClipWorker, IF cancel THEN "ending" ELSE "clip")
    /\ UNCHANGED <<turn, planned, said, cancel, givenUp, broken, avatarVars>>

\* Until now it was alive for whoever asked.
WorkerEnds ==
    /\ Voice(ClipWorker, "ending") /\ Moves(ClipWorker, "dead")
    /\ UNCHANGED <<turn, planned, said, pending, cancel, givenUp, broken, avatarVars>>

-----------------------------------------------------------------------------
(* The avatar *)

\* Mutant: a timer does not ask whether something newer is shown.
RestIdleAlways ==
    /\ \E g \in timers : timers' = timers \ {g} /\ slot' = "idle"
    /\ UNCHANGED <<generation, publishing, shown, missed, voiceVars>>

RestIdle ==
    /\ \E g \in timers :
        /\ timers' = timers \ {g}
        /\ slot' = IF g = generation THEN "idle" ELSE slot
    /\ UNCHANGED <<generation, publishing, shown, missed, voiceVars>>

TakeFace ==
    /\ publishing = NoFace /\ slot # NoFace
    /\ publishing' = slot /\ slot' = NoFace
    /\ UNCHANGED <<generation, timers, shown, missed, voiceVars>>

PublishFace ==
    /\ publishing # NoFace /\ publishing' = NoFace
    /\ \/ shown' = publishing /\ missed' = FALSE
       \/ UNCHANGED shown /\ missed' = TRUE
    /\ UNCHANGED <<generation, timers, slot, voiceVars>>

InterpreterNext ==
    \/ TakeTurn \/ DropPending \/ SetCancel \/ JoinWorker \/ Translate \/ ClearCancel
    \/ QueueRest \/ KickWorker \/ NothingLeft
    \/ \E v \in {Loop, ClipWorker} :
        DeliverClip(v) \/ ClipRaises(v) \/ ShowSpeaking(v) \/ HoldEnds(v)
    \/ PopClip \/ HeedCancel \/ WorkerEnds
    \/ RestIdle \/ TakeFace \/ PublishFace

InterpreterSpec == InterpreterInit /\ [][InterpreterNext]_interpreterVars

-----------------------------------------------------------------------------
(* Properties *)

Places == {"listen", "drop", "stop", "join", "translate", "speak", "clip", "face", "hold",
           "rest", "kick", "over", "pop", "popped", "synthesized", "ending", "dead"}

InterpreterTypeOK ==
    /\ turn \in 0 .. MaxTurns /\ planned \in Clips \cup {0}
    /\ voice \in [{Loop, ClipWorker} -> [at : Places, of : 0 .. MaxTurns]]
    /\ \A i \in DOMAIN pending : pending[i] \in 1 .. MaxTurns
    /\ {cancel, givenUp, broken, missed} \subseteq BOOLEAN
    /\ generation \in Nat /\ timers \subseteq 1 .. generation
    /\ shown \in Faces /\ {slot, publishing} \subseteq Faces \cup {NoFace}

Speaks(v) == voice[v].at \in {"clip", "face", "hold"}
Interrupting == voice[Loop].at \in {"drop", "stop", "join"}

\* As long as interruptions see the worker end, one voice speaks at a time, nothing of a
\* former turn is said once the interruption is over, and when all is quiet the turn has
\* been said to its last clip, if no clip failed.  After an interruption that gave up
\* it is not so: the next turn clears the flag the worker has not looked at yet, which
\* then says what was interrupted, over the new turn; and a worker that is just ending
\* is taken for one that goes on, so that the rest of the turn is never said.
VoiceIsCurrent ==
    ~givenUp =>
        /\ ~(Speaks(Loop) /\ Speaks(ClipWorker))
        /\ Speaks(ClipWorker) /\ ~Interrupting => voice[ClipWorker].of = turn
        /\ Voice(Loop, "listen") /\ ~WorkerAlive /\ ~broken /\ turn > 0
            => pending = <<>> /\ said[turn] = planned

\* When nothing waits to be published and the last publication succeeded, the meeting
\* sees a speaking face exactly as long as the newest change was a clip whose timer has
\* not fired: neither a late timer of a former clip nor a slow publication leaves
\* another face there.
AvatarFollows ==
    slot = NoFace /\ publishing = NoFace /\ ~missed =>
        shown = IF generation \in timers THEN "speaking" ELSE "idle"
=============================================================================

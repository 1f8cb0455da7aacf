---------------------------- MODULE PresenceLock ----------------------------
(***************************************************************************)
(* The camera watcher that locks the device (security/presence_lock.py):   *)
(* one command loop that turns it on and off and looks after it, and the   *)
(* watcher threads it has started, which share one stop flag and one       *)
(* status.  A stop waits two seconds for the watcher; one that is in a     *)
(* read of the camera by then goes on and is forgotten.                    *)
(***************************************************************************)
EXTENDS Integers, TLC

CONSTANT MaxWatchers        \* bound of a run: watchers of one process

ASSUME WatcherAssumption == MaxWatchers \in Nat

VARIABLES
    enabled,        \* in presence.json
    current,        \* _THREAD
    stopping,       \* _STOP
    presence,       \* _STATUS
    locked,         \* what is_already_locked answers
    watcher,        \* every thread of this process
    menu            \* where the command loop is

presenceVars == <<enabled, current, stopping, presence, locked, watcher, menu>>

Watcher == 1 .. MaxWatchers
NoWatcher == 0
Unborn == [at |-> "unborn", forgotten |-> FALSE]

PresenceInit ==
    /\ enabled \in BOOLEAN
    /\ current = NoWatcher /\ stopping = FALSE /\ presence = "OFF" /\ locked = TRUE
    /\ watcher = [w \in Watcher |-> Unborn]
    /\ menu = [at |-> "boot", then |-> "none"]

Alive(w) == watcher[w].at \notin {"unborn", "gone"}
IsRunning == current # NoWatcher /\ Alive(current)
Goes(w, place) == watcher' = [watcher EXCEPT ![w].at = place]
Turns(place, next) == menu' = [at |-> place, then |-> next]

-----------------------------------------------------------------------------
(* The command loop *)

\* recover_if_needed, once.
Boot ==
    /\ menu.at = "boot"
    /\ IF enabled THEN Turns("stop", "start") ELSE Turns("rest", "none")
    /\ UNCHANGED <<enabled, current, stopping, presence, locked, watcher>>

WatchdogTick ==
    /\ menu.at = "rest" /\ ~locked /\ enabled /\ ~IsRunning
    /\ Turns("stop", "start")
    /\ UNCHANGED <<enabled, current, stopping, presence, locked, watcher>>

TurnOn ==
    /\ menu.at = "rest"
    /\ enabled' = TRUE /\ Turns("stop", "start")
    /\ UNCHANGED <<current, stopping, presence, locked, watcher>>

TurnOff ==
    /\ menu.at = "rest"
    /\ Turns("stop", "disable")
    /\ UNCHANGED <<enabled, current, stopping, presence, locked, watcher>>

\* A new timeout: a stop, and a start, which stops again.
SetTimeout ==
    /\ menu.at = "rest" /\ enabled
    /\ Turns("stop", "stop")
    /\ UNCHANGED <<enabled, current, stopping, presence, locked, watcher>>

\* The user unlocks the device, or locks it.
SwitchLock ==
    /\ menu.at = "rest" /\ locked' = ~locked
    /\ UNCHANGED <<enabled, current, stopping, presence, watcher, menu>>

AskToStop ==
    /\ menu.at = "stop"
    /\ stopping' = TRUE /\ Turns("join", menu.then)
    /\ UNCHANGED <<enabled, current, presence, locked, watcher>>

\* Mutant: the stop does not wait.
JoinNothing ==
    /\ menu.at = "join"
    /\ current' = NoWatcher /\ presence' = "OFF" /\ Turns("stopped", menu.then)
    /\ UNCHANGED <<enabled, stopping, locked, watcher>>

\* The watcher has ended, or the two seconds have.
Join ==
    /\ menu.at = "join"
    /\ watcher' = [w \in Watcher |-> IF w = current /\ Alive(w)
                                     THEN [watcher[w] EXCEPT !.forgotten = TRUE]
                                     ELSE watcher[w]]
    /\ current' = NoWatcher /\ presence' = "OFF" /\ Turns("stopped", menu.then)
    /\ UNCHANGED <<enabled, stopping, locked>>

\* The flag is cleared for whoever still looks at it.
StartWatcher ==
    /\ menu.at = "stopped" /\ menu.then = "start"
    /\ \E w \in Watcher :
        /\ watcher[w] = Unborn /\ \A v \in 1 .. w - 1 : watcher[v] # Unborn
        /\ current' = w /\ Goes(w, "begun")
    /\ stopping' = FALSE /\ Turns("rest", "none")
    /\ UNCHANGED <<enabled, presence, locked>>

StopAgain ==
    /\ menu.at = "stopped" /\ menu.then = "stop" /\ Turns("stop", "start")
    /\ UNCHANGED <<enabled, current, stopping, presence, locked, watcher>>

\* The setting is saved when the watcher has been stopped.
Disable ==
    /\ menu.at = "stopped" /\ menu.then = "disable"
    /\ enabled' = FALSE /\ Turns("rest", "none")
    /\ UNCHANGED <<current, stopping, presence, locked, watcher>>

ProcessEnds ==
    /\ menu.at # "boot"
    /\ current' = NoWatcher /\ stopping' = FALSE /\ presence' = "OFF" /\ locked' = TRUE
    /\ watcher' = [w \in Watcher |-> Unborn] /\ Turns("boot", "none")
    /\ UNCHANGED enabled

-----------------------------------------------------------------------------
(* A watcher *)

Comes(w) ==
    /\ watcher[w].at = "begun" /\ presence' = "ON" /\ Goes(w, "opening")
    /\ UNCHANGED <<enabled, current, stopping, locked, menu>>

OpensCamera(w) ==
    /\ watcher[w].at = "opening"
    /\ \/ Goes(w, "looking") /\ UNCHANGED presence
       \/ Goes(w, "leaving") /\ presence' = "ERR"
    /\ UNCHANGED <<enabled, current, stopping, locked, menu>>

Looks(w) ==
    /\ watcher[w].at = "looking"
    /\ Goes(w, IF stopping THEN "leaving" ELSE "reading")
    /\ UNCHANGED <<enabled, current, stopping, presence, locked, menu>>

\* A face or not for long enough, nobody for too long, or a camera that raises.
Reads(w) ==
    /\ watcher[w].at = "reading"
    /\ \E place \in {"looking", "locking", "leaving"} : Goes(w, place)
    /\ UNCHANGED <<enabled, current, stopping, presence, locked, menu>>

LocksDevice(w) ==
    /\ watcher[w].at = "locking" /\ Goes(w, "looking")
    /\ \/ locked' = TRUE /\ UNCHANGED presence
       \/ ~locked /\ presence' = "ERR" /\ UNCHANGED locked
    /\ UNCHANGED <<enabled, current, stopping, menu>>

\* An error stays on display.
Leaves(w) ==
    /\ watcher[w].at = "leaving" /\ Goes(w, "gone")
    /\ presence' = IF presence = "ERR" THEN "ERR" ELSE "OFF"
    /\ UNCHANGED <<enabled, current, stopping, locked, menu>>

PresenceNext ==
    \/ Boot \/ WatchdogTick \/ TurnOn \/ TurnOff \/ SetTimeout \/ SwitchLock
    \/ AskToStop \/ Join \/ StartWatcher \/ StopAgain \/ Disable \/ ProcessEnds
    \/ \E w \in Watcher :
        Comes(w) \/ OpensCamera(w) \/ Looks(w) \/ Reads(w) \/ LocksDevice(w) \/ Leaves(w)

PresenceSpec == PresenceInit /\ [][PresenceNext]_presenceVars

-----------------------------------------------------------------------------
(* Properties *)

PresenceTypeOK ==
    /\ enabled \in BOOLEAN /\ stopping \in BOOLEAN /\ locked \in BOOLEAN
    /\ current \in Watcher \cup {NoWatcher}
    /\ presence \in {"OFF", "ON", "ERR"}
    /\ menu.at \in {"boot", "rest", "stop", "join", "stopped"}
    /\ menu.then \in {"none", "start", "stop", "disable"}
    /\ \A w \in Watcher : watcher[w].forgotten \in BOOLEAN

\* As long as every watcher has ended within the two seconds it was given, there is at
\* most the one the process knows of, it watches only while presence is enabled, also
\* between the steps of the commands that change the setting, and the status tells of
\* it: ON or an error while it is at work, never ON without it.  It is not so with a
\* forgotten watcher: the next start clears the flag that was to end it, so that two
\* watch, and when it ends, after that one has come, its OFF covers the other's ON.
WatcherIsKnown ==
    (\A w \in Watcher : ~watcher[w].forgotten) =>
        /\ \A w \in Watcher : Alive(w) => w = current /\ enabled
        /\ presence = "ON" => IsRunning
        /\ IsRunning /\ watcher[current].at # "begun" => presence # "OFF"
=============================================================================

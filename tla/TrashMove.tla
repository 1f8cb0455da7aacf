----------------------------- MODULE TrashMove -----------------------------
(***************************************************************************)
(* Moving files into the trash (move_to_trash, move_with_evidence): the    *)
(* intent is recorded, the content compared with what was first read, and  *)
(* across filesystems copied beside the trash and compared again before    *)
(* the source is removed.  The files of a run have one name, and with it   *)
(* one place in the trash.  Content is a version number; an editor may     *)
(* change a file at any time.  Of the records, only the intent matters.    *)
(***************************************************************************)
EXTENDS Integers, FiniteSets

CONSTANTS Mover,        \* processes that move files
          Item,         \* files, of one name
          Remote,       \* those on another filesystem than the trash
          MaxMoves, MaxEdits,   \* bounds of a run
          MaxBreaks             \* bound of a run: failing steps and deaths

ASSUME TrashAssumption ==
    Remote \subseteq Item /\ MaxMoves \in Nat /\ MaxEdits \in Nat /\ MaxBreaks \in Nat

Absent == 0
Cut == -1
Version == 1 .. MaxEdits + 1

VARIABLES
    tree,       \* what is at each file's path
    newest,     \* the last version of each file
    binned,     \* what is in the trash, of which file
    staged,     \* what is in the staging directory of each move
    intents,    \* evidence_archive/trash_moves: moves with a record there
    mover, begun, replies, breaks,
    unseen,     \* files edited after the last look of a move
    trod        \* files whose content in the trash another move has replaced

trashVars == <<tree, newest, binned, staged, intents, mover, begun, replies, breaks, unseen, trod>>

NoItem == [of |-> "none", version |-> Absent]
Parked == [at |-> "idle", of |-> "none", move |-> 0, snapshot |-> Absent, published |-> FALSE]

TrashInit ==
    /\ tree = [i \in Item |-> 1] /\ newest = tree /\ binned = NoItem
    /\ staged = [n \in 1 .. MaxMoves |-> Absent] /\ intents = {}
    /\ mover = [m \in Mover |-> Parked] /\ begun = 0 /\ replies = {} /\ breaks = 0
    /\ unseen = {} /\ trod = {}

MoverAt(m, place) == mover[m].at = place
Of(m) == mover[m].of
ThisMove(m) == [move |-> mover[m].move, of |-> Of(m)]
Proceed(m, place) == mover' = [mover EXCEPT ![m].at = place] /\ UNCHANGED <<replies, breaks>>
Break == breaks < MaxBreaks /\ breaks' = breaks + 1

Reply(m, answer) ==
    /\ replies' = replies \cup {[move |-> ThisMove(m), answer |-> answer]}
    /\ mover' = [mover EXCEPT ![m] = Parked]

\* An OSError becomes a CompletionEvidenceError once the destination is published.
\* Any step may fail; one whose condition does not hold does.
MoveFails(m, holds) ==
    /\ Reply(m, IF mover[m].published THEN "applied" ELSE "refused")
    /\ IF holds THEN Break ELSE UNCHANGED breaks

KeepContent == UNCHANGED <<tree, newest, binned, staged, unseen, trod>>

\* A step that goes on only if what it looks for holds.
PassIf(m, here, holds, next) ==
    /\ MoverAt(m, here)
    /\ (holds /\ Proceed(m, next)) \/ MoveFails(m, holds)
    /\ UNCHANGED <<intents, begun>> /\ KeepContent

\* move_to_trash, and the first manifest
AskMove(m, i) ==
    /\ MoverAt(m, "idle") /\ begun < MaxMoves /\ binned = NoItem /\ tree[i] # Absent
    /\ begun' = begun + 1
    /\ mover' = [mover EXCEPT ![m] = [Parked EXCEPT !.at = "intend", !.of = i,
                                                    !.move = begun', !.snapshot = tree[i]]]
    /\ UNCHANGED <<intents, replies, breaks>> /\ KeepContent

SaveIntent(m) ==
    /\ MoverAt(m, "intend")
    /\ \/ intents' = intents \cup {ThisMove(m)} /\ Proceed(m, "rename")
       \/ intents' \in {intents, intents \cup {ThisMove(m)}} /\ MoveFails(m, TRUE)
    /\ UNCHANGED begun /\ KeepContent

\* What is put into the trash replaces a file there.
Publish(m, version) ==
    /\ binned' = [of |-> Of(m), version |-> version]
    /\ trod' = IF binned = NoItem THEN trod ELSE trod \cup {binned.of}

RenameItem(m) ==
    /\ MoverAt(m, "rename") /\ Of(m) \notin Remote /\ tree[Of(m)] # Absent
    /\ Publish(m, tree[Of(m)]) /\ tree' = [tree EXCEPT ![Of(m)] = Absent]
    /\ mover' = [mover EXCEPT ![m].at = "verify", ![m].published = TRUE]
    /\ UNCHANGED <<newest, staged, unseen, intents, begun, replies, breaks>>

\* Another filesystem, or a failure: another move may have taken the file.
CannotRename(m) ==
    /\ MoverAt(m, "rename")
    /\ \/ Of(m) \in Remote /\ tree[Of(m)] # Absent /\ Proceed(m, "copy")
       \/ MoveFails(m, tree[Of(m)] # Absent)
    /\ UNCHANGED <<intents, begun>> /\ KeepContent

Stage(m, version) == staged' = [staged EXCEPT ![mover[m].move] = version]

CopyItem(m) ==
    /\ MoverAt(m, "copy")
    /\ \/ tree[Of(m)] # Absent /\ Stage(m, tree[Of(m)]) /\ Proceed(m, "verify")
       \/ Stage(m, Cut) /\ MoveFails(m, tree[Of(m)] # Absent)
    /\ UNCHANGED <<tree, newest, binned, unseen, trod, intents, begun>>

Captured(m) == IF Of(m) \in Remote THEN [of |-> Of(m), version |-> staged[mover[m].move]] ELSE binned
SourceSame(m) == tree[Of(m)] = mover[m].snapshot
CaptureSame(m) ==
    /\ Captured(m) = [of |-> Of(m), version |-> mover[m].snapshot]
    /\ Of(m) \in Remote => SourceSame(m)

VerifyItem(m) ==
    PassIf(m, "verify", CaptureSame(m), IF Of(m) \in Remote THEN "look" ELSE "record")

\* Mutant: once the copy is synchronised the source is not compared again.
CompareNoMore(m) == PassIf(m, "look", TRUE, "place")

\* The copy is synchronised, and the source compared again.
CompareAgain(m) == PassIf(m, "look", SourceSame(m), "place")

FindPlace(m) == PassIf(m, "place", binned = NoItem, "publish")

PublishCopy(m) ==
    /\ MoverAt(m, "publish")
    /\ \/ /\ Publish(m, staged[mover[m].move]) /\ Stage(m, Absent)
          /\ mover' = [mover EXCEPT ![m].at = "remove", ![m].published = TRUE]
          /\ UNCHANGED <<replies, breaks>>
       \/ MoveFails(m, TRUE) /\ UNCHANGED <<binned, staged, trod>>
    /\ UNCHANGED <<tree, newest, unseen, intents, begun>>

RemoveSource(m) ==
    /\ MoverAt(m, "remove")
    /\ \/ /\ tree[Of(m)] # Absent /\ tree' = [tree EXCEPT ![Of(m)] = Absent]
          /\ Proceed(m, "record")
       \/ MoveFails(m, tree[Of(m)] # Absent) /\ UNCHANGED tree
    /\ UNCHANGED <<newest, binned, staged, unseen, trod, intents, begun>>

SaveVerified(m) ==
    /\ MoverAt(m, "record")
    /\ (Reply(m, "moved") /\ UNCHANGED breaks) \/ MoveFails(m, TRUE)
    /\ UNCHANGED <<intents, begun>> /\ KeepContent

MoverDies(m) ==
    /\ ~MoverAt(m, "idle") /\ Break /\ mover' = [mover EXCEPT ![m] = Parked]
    /\ IF MoverAt(m, "copy") THEN Stage(m, Cut) ELSE UNCHANGED staged
    /\ UNCHANGED <<tree, newest, binned, unseen, trod, intents, begun, replies>>

\* An editor writes the file where it is, a file it had open also in the trash.
Edit(i) ==
    /\ newest[i] <= MaxEdits /\ newest' = [newest EXCEPT ![i] = @ + 1]
    /\ \/ tree[i] # Absent /\ tree' = [tree EXCEPT ![i] = newest'[i]] /\ UNCHANGED binned
       \/ /\ tree[i] = Absent /\ i \notin Remote /\ binned.of = i
          /\ binned' = [binned EXCEPT !.version = newest'[i]] /\ UNCHANGED tree
    /\ unseen' = IF \E m \in Mover : Of(m) = i /\ mover[m].at \in {"place", "publish", "remove"}
                 THEN unseen \cup {i} ELSE unseen
    /\ UNCHANGED <<staged, trod, intents, mover, begun, replies, breaks>>

TrashNext ==
    \/ \E m \in Mover :
        \/ \E i \in Item : AskMove(m, i)
        \/ SaveIntent(m) \/ RenameItem(m) \/ CannotRename(m) \/ CopyItem(m) \/ VerifyItem(m)
        \/ CompareAgain(m) \/ FindPlace(m) \/ PublishCopy(m) \/ RemoveSource(m)
        \/ SaveVerified(m) \/ MoverDies(m)
    \/ \E i \in Item : Edit(i)

TrashSpec == TrashInit /\ [][TrashNext]_trashVars

-----------------------------------------------------------------------------
(* Properties *)

BegunMoves == [move : 1 .. begun, of : Item]

TrashTypeOK ==
    /\ tree \in [Item -> Version \cup {Absent}] /\ newest \in [Item -> Version]
    /\ binned \in [of : Item, version : Version] \cup {NoItem}
    /\ staged \in [1 .. MaxMoves -> Version \cup {Absent, Cut}]
    /\ intents \subseteq BegunMoves /\ begun \in 0 .. MaxMoves /\ breaks \in 0 .. MaxBreaks
    /\ mover \in [Mover -> [at : {"idle", "intend", "rename", "copy", "verify", "look", "place",
                                  "publish", "remove", "record"},
                            of : Item \cup {"none"}, move : 0 .. begun,
                            snapshot : Version \cup {Absent}, published : BOOLEAN]]
    /\ replies \subseteq [move : BegunMoves, answer : {"moved", "applied", "refused"}]
    /\ unseen \subseteq Item /\ trod \subseteq Item

Alone(move) == \A s \in intents : s.of = move.of => s = move

\* The last version of a file is at its path or in the trash, whatever fails, unless it was
\* written after the last look at the source or another file of the name took its place; a
\* file that has left its path has an intent on record; what is in the trash is whole; and
\* who is told that a file is where it was, or that it was moved, is told the truth.
TrashKeepsContent ==
    /\ \A i \in Item \ (unseen \cup trod) :
          tree[i] = newest[i] \/ binned = [of |-> i, version |-> newest[i]]
    /\ \A i \in Item : tree[i] = Absent => \E s \in intents : s.of = i
    /\ binned.version # Cut
    /\ \A r \in replies :
          /\ r.answer = "moved" => tree[r.move.of] = Absent
          /\ r.answer = "refused" /\ Alone(r.move) => tree[r.move.of] # Absent
=============================================================================

----------------------------- MODULE DurableFile -----------------------------
(***************************************************************************)
(* The durable replacement of one file of the agent orchestrator's state:  *)
(* a temporary file, a journal that is written as a candidate, linked      *)
(* under its pending name and so becomes the intent, a rename, and a       *)
(* recovery that every read and every replacement performs first.          *)
(*                                                                         *)
(* A process sees the directory as it is (dir); a loss of power leaves any *)
(* of the states it had since it was last synced (disk), in the order the  *)
(* changes were made.  File contents are synced before they are linked, so *)
(* only names can be lost.  Digests, inode checks and permissions are left *)
(* out: no other program touches the directory.  Callers hold a lease, so  *)
(* there is one operation at a time (op).                                  *)
(***************************************************************************)
CONSTANTS
  Value,
  First,           \* stands for the missing file
  Lawful(_, _)     \* validateTransition

VARIABLES
  dir,    \* the directory entries that belong to the file
  disk,   \* the states of them that a loss of power may leave
  op      \* the operation under way and the step it takes next

fileVars == <<dir, disk, op>>

Journal == [pred: Value, succ: Value]
Dir == [target: Value,
        temps: SUBSET Value,                       \* temporary files
        names: SUBSET {"candidate", "pending"},    \* links of the journal
        journal: Journal]                          \* void without a link

Steps == {"rest", "normalize", "apply", "confirm", "retire", "prepare", "publish",
          "intent", "drop", "rename", "commit", "unpend", "settle",
          "done", "failed", "pending"}
Goals == {"read", "write"}

Rest == [step |-> "rest", goal |-> "read", value |-> First]

FileTypeOK ==
  /\ dir \in Dir
  /\ disk \subseteq Dir
  /\ op \in [step: Steps, goal: Goals, value: Value]

Void(v) == [pred |-> v, succ |-> v]

Empty == [target |-> First, temps |-> {}, names |-> {}, journal |-> Void(First)]

FileInit ==
  /\ dir = Empty
  /\ disk = {Empty}
  /\ op = Rest

-----------------------------------------------------------------------------
(* Directory changes, and the sync that makes them last *)

Change(d) ==
  /\ dir' = d
  /\ disk' = disk \cup {d}

\* Mutant: the directory is never synced.
NotSynced(d) == disk \cup {d}
\* syncDirectory
Synced(d) == {d}

Sync ==
  /\ disk' = Synced(dir)
  /\ UNCHANGED dir

ChangeAndSync(d) ==
  /\ dir' = d
  /\ disk' = Synced(d)

Unlinked(d, name) ==
  LET left == d.names \ {name}
  IN [d EXCEPT !.names = left, !.journal = IF left = {} THEN Void(d.target) ELSE @]

At(step) == op.step = step
Go(step) == op' = [op EXCEPT !.step = step]

\* What follows the recovery that precedes every read and every replacement.
AfterRecovery == IF op.goal = "read" THEN "done" ELSE "prepare"

\* One operation may follow another at once.
Start(goal, v) ==
  /\ op.step \in {"rest", "done"}
  /\ op' = [step |-> "normalize", goal |-> goal, value |-> v]
  /\ UNCHANGED <<dir, disk>>

Finish ==
  /\ op.step \in {"done", "failed", "pending"}
  /\ op' = Rest
  /\ UNCHANGED <<dir, disk>>

-----------------------------------------------------------------------------
(* recoverDurableFileReplace *)

NothingPending ==
  /\ At("normalize")
  /\ dir.names = {}
  /\ Go(AfterRecovery)
  /\ UNCHANGED <<dir, disk>>

\* Mutant: whatever has a candidate was not published.
DropAnyCandidate ==
  /\ At("normalize")
  /\ "candidate" \in dir.names
  /\ ChangeAndSync([dir EXCEPT !.names = {}, !.journal = Void(dir.target)])
  /\ Go(AfterRecovery)
\* A candidate that was never linked was no intent.
DropUnpublished ==
  /\ At("normalize")
  /\ dir.names = {"candidate"}
  /\ ChangeAndSync(Unlinked(dir, "candidate"))
  /\ Go(AfterRecovery)

NormalizePublished ==
  /\ At("normalize")
  /\ "pending" \in dir.names
  /\ IF "candidate" \in dir.names
       THEN ChangeAndSync(Unlinked(dir, "candidate"))
       ELSE UNCHANGED <<dir, disk>>
  /\ Go("apply")

RenamedAlready == dir.target = dir.journal.succ /\ dir.journal.succ \notin dir.temps

NotRenamedYet ==
  /\ dir.target = dir.journal.pred
  /\ dir.journal.succ \in dir.temps
  /\ Lawful(dir.journal.pred, dir.journal.succ)

Renamed == [dir EXCEPT !.target = dir.journal.succ, !.temps = @ \ {dir.journal.succ}]

Apply ==
  /\ At("apply")
  /\ \/ RenamedAlready /\ UNCHANGED <<dir, disk>>
     \/ ~RenamedAlready /\ NotRenamedYet /\ Change(Renamed)
  /\ Go("confirm")

Confirm ==
  /\ At("confirm")
  /\ Sync
  /\ Go("retire")

Retire ==
  /\ At("retire")
  /\ ChangeAndSync(Unlinked(dir, "pending"))
  /\ Go(AfterRecovery)

-----------------------------------------------------------------------------
(* durableAtomicWriteFile, after its recovery *)

Prepared ==
  [dir EXCEPT !.temps = {op.value},
              !.names = {"candidate"},
              !.journal = [pred |-> dir.target, succ |-> op.value]]

Prepare ==
  /\ At("prepare")
  /\ dir.names = {}
  /\ Lawful(dir.target, op.value)
  /\ Change(Prepared)
  /\ Go("publish")

Publish ==
  /\ At("publish")
  /\ Change([dir EXCEPT !.names = @ \cup {"pending"}])
  /\ Go("intent")

SyncIntent ==
  /\ At("intent")
  /\ Sync
  /\ Go("drop")

DropCandidate ==
  /\ At("drop")
  /\ ChangeAndSync(Unlinked(dir, "candidate"))
  /\ Go("rename")

Rename ==
  /\ At("rename")
  /\ dir.target = dir.journal.pred
  /\ Change(Renamed)
  /\ Go("commit")

SyncCommit ==
  /\ At("commit")
  /\ Sync
  /\ Go("unpend")

Cleanup ==
  /\ At("unpend")
  /\ ChangeAndSync(Unlinked(dir, "pending"))
  /\ Go("done")

-----------------------------------------------------------------------------
(* What may go wrong *)

\* The rule refuses the successor, or a previous journal could not be removed.
RefuseWrite ==
  /\ At("prepare")
  /\ ~Lawful(dir.target, op.value) \/ dir.names # {}
  /\ Change([dir EXCEPT !.temps = {}])
  /\ Go("failed")

\* Neither end of the journal is what the directory holds.
Conflict ==
  /\ At("apply")
  /\ ~RenamedAlready
  /\ ~NotRenamedYet
  /\ Go("failed")
  /\ UNCHANGED <<dir, disk>>

\* Before the intent an error undoes the preparation, as far as it can.
FailBeforeIntent ==
  /\ \/ op.step \in {"normalize", "apply", "confirm", "prepare"} /\ UNCHANGED <<dir, disk>>
     \/ At("publish") /\ \E d \in {dir, [Unlinked(dir, "candidate") EXCEPT !.temps = {}]} : Change(d)
  /\ Go("failed")

\* After it, and in the rename of a recovery, DurableCommitPendingError: the next
\* recovery finishes the work.
FailAfterIntent ==
  /\ \/ At("intent") /\ \E d \in {dir, Unlinked(dir, "candidate")} : Change(d)
     \/ op.step \in {"apply", "confirm", "drop", "rename", "commit"} /\ UNCHANGED <<dir, disk>>
  /\ Go("pending")

\* cleanupPendingAfterDurableCommit: what fails there is swallowed, though a
\* journal that is still linked stops the next replacement.
KeepJournal ==
  /\ \/ At("retire") /\ Go(AfterRecovery)
     \/ At("unpend") /\ Go("done")
  /\ \E d \in {dir, Unlinked(dir, "pending")} : Change(d)

FileCrash ==
  /\ op' = Rest
  /\ UNCHANGED <<dir, disk>>

FilePowerLoss ==
  /\ \E d \in disk : dir' = d /\ disk' = {d}
  /\ op' = Rest

FileStep ==
  \/ NothingPending \/ DropUnpublished \/ NormalizePublished \/ Apply \/ Confirm \/ Retire
  \/ Prepare \/ Publish \/ SyncIntent \/ DropCandidate \/ Rename \/ SyncCommit \/ Cleanup
  \/ RefuseWrite \/ Conflict

FileFault == FailBeforeIntent \/ FailAfterIntent \/ KeepJournal

FileNext ==
  \/ \E goal \in Goals, v \in Value : Start(goal, v)
  \/ FileStep \/ FileFault \/ Finish \/ FileCrash \/ FilePowerLoss

FileSpec == FileInit /\ [][FileNext]_fileVars

-----------------------------------------------------------------------------
\* What a reader finds once recovery has dealt with a directory state.
Logical(d) == IF "pending" \in d.names THEN d.journal.succ ELSE d.target

Agreed == \A d \in disk : Logical(d) = Logical(dir)

\* The record that lasts: a published intent counts once it is synced.
Lasting == IF Agreed THEN Logical(dir) ELSE dir.journal.pred

\* recoverDurableFileReplace and durableAtomicWriteFile together are one
\* record that is replaced by lawful successors only.
Record == INSTANCE AtomicRecord WITH record <- Lasting
KeepsRecord == Record!Spec

\* A read or a replacement that returned is not undone by a loss of power.
AnswersLast ==
  At("done") => /\ Lasting = dir.target
                /\ op.goal = "write" => dir.target = op.value

\* A recovery always finds one of the two ends of the journal.
NoConflict == At("apply") => RenamedAlready \/ NotRenamedYet

-----------------------------------------------------------------------------
(* The inductive invariant *)

\* Published or about to be: the successor waits in its temporary file.
Waiting(d) ==
  /\ d.target = d.journal.pred
  /\ d.journal.succ \in d.temps

Committed(d) ==
  /\ d.names = {"pending"}
  /\ d.target = d.journal.succ
  /\ d.journal.succ \notin d.temps

\* Every state a loss of power may leave can be recovered from.
Sound(d) ==
  \/ d.names = {}
  \/ /\ Waiting(d) \/ Committed(d)
     /\ Lawful(d.journal.pred, d.journal.succ)

\* Two records are possible only while an intent may not be synced.
Undecided ==
  /\ "pending" \in dir.names
  /\ \A d \in disk : Logical(d) \in {dir.journal.pred, dir.journal.succ}

\* What is true of the directory when a step is taken.
StepSound ==
  /\ At("apply") => dir.names = {"pending"}
  /\ At("confirm") => Committed(dir)
  /\ op.step \in {"retire", "commit", "unpend"} => Committed(dir) /\ Agreed
  /\ At("prepare") => dir.names = {} \/ (Committed(dir) /\ Agreed)
  /\ At("publish") => dir.names = {"candidate"}
  /\ op.step \in {"intent", "drop"} => dir.names = {"candidate", "pending"}
  /\ At("rename") => dir.names = {"pending"} /\ Waiting(dir)
  /\ op.step \in {"drop", "rename"} => Agreed
  /\ op.step \in {"publish", "intent", "drop", "rename", "commit", "unpend"} =>
       dir.journal.succ = op.value
  /\ At("done") =>
       /\ Agreed
       /\ dir.names = {} \/ Committed(dir)
       /\ op.goal = "write" => dir.target = op.value

FileInv ==
  /\ FileTypeOK
  /\ dir \in disk
  /\ \A d \in disk : Sound(d)
  /\ Agreed \/ Undecided
  /\ StepSound
=============================================================================

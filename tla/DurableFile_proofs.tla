-------------------------- MODULE DurableFile_proofs --------------------------
(***************************************************************************)
(* The durable replacement of a file is one record that nothing takes      *)
(* back, for every set of values and every transition rule, and through    *)
(* any number of errors, crashes and losses of power at any step.          *)
(***************************************************************************)
EXTENDS DurableFile, TLAPS

\* The invariant holds of the empty directory.
LEMMA FileInitInv ==
  ASSUME First \in Value, FileInit
  PROVE  FileInv
<1>1. Empty \in Dir
  BY DEF FileInit, Empty, Dir, Void, Journal
<1>2. Sound(Empty)
  BY DEF Sound, Empty
<1> QED
  BY <1>1, <1>2 DEF FileInit, FileInv, FileTypeOK, Rest, Steps, Goals, Agreed, StepSound, At

-----------------------------------------------------------------------------
(* Directory states *)

LEMMA UnlinkedTyped ==
  ASSUME NEW d \in Dir, NEW name
  PROVE  Unlinked(d, name) \in Dir
BY DEF Dir, Journal, Unlinked, Void

LEMMA RenamedTyped ==
  ASSUME dir \in Dir
  PROVE  Renamed \in Dir
BY DEF Dir, Journal, Renamed

LEMMA PreparedTyped ==
  ASSUME dir \in Dir, op.value \in Value
  PROVE  Prepared \in Dir
BY DEF Dir, Journal, Prepared

\* A change adds the new state to those that may be left, a sync leaves only it.
LEMMA ChangeSound ==
  ASSUME FileInv, NEW d \in Dir, Sound(d), Change(d) \/ ChangeAndSync(d)
  PROVE  /\ dir' = d
         /\ dir' \in Dir
         /\ disk' \subseteq Dir
         /\ dir' \in disk'
         /\ \A e \in disk' : Sound(e)
BY DEF FileInv, FileTypeOK, Change, ChangeAndSync, Synced

LEMMA SyncedAgreed ==
  ASSUME disk' = {dir'}
  PROVE  Agreed'
BY DEF Agreed
-----------------------------------------------------------------------------
(* Every action keeps the invariant, and the record or a lawful step of it *)

Moved == Lasting' = Lasting \/ Lawful(Lasting, Lasting')

\* Steps that leave the directory alone change no record.
LEMMA QuietMoved ==
  ASSUME UNCHANGED <<dir, disk>>
  PROVE  Moved
BY DEF Moved, Lasting, Agreed, Logical

LEMMA StartInv ==
  ASSUME FileInv, NEW goal \in Goals, NEW v \in Value, Start(goal, v)
  PROVE  FileInv'
BY DEF FileInv, FileTypeOK, Start, StepSound, At, Steps, Agreed, Undecided, Logical

LEMMA RestInv ==
  ASSUME First \in Value, FileInv, op' = Rest, UNCHANGED <<dir, disk>>
  PROVE  FileInv'
BY DEF FileInv, FileTypeOK, Rest, Goals, StepSound, At, Steps, Agreed, Undecided, Logical

LEMMA PowerLossInv ==
  ASSUME First \in Value, FileInv, FilePowerLoss
  PROVE  FileInv' /\ Moved
<1>1. PICK d \in disk : dir' = d /\ disk' = {d}
  BY DEF FilePowerLoss
<1>2. d \in Dir /\ Sound(d)
  BY DEF FileInv, FileTypeOK
<1>3. Agreed' /\ Lasting' = Logical(d)
  BY <1>1 DEF Agreed, Lasting, Logical
<1>4. FileInv'
  BY <1>1, <1>2, <1>3 DEF FilePowerLoss, FileInv, FileTypeOK, Rest, Goals, StepSound, At, Steps
<1>5. CASE Agreed
  BY <1>1, <1>3, <1>4, <1>5 DEF Agreed, Lasting, Moved
<1>6. CASE ~Agreed
  <2>1. Undecided
    BY <1>6 DEF FileInv
  <2>2. Logical(d) \in {dir.journal.pred, dir.journal.succ}
    BY <1>1, <2>1 DEF Undecided
  <2>3. Lawful(dir.journal.pred, dir.journal.succ)
    BY <2>1 DEF FileInv, Sound, Undecided
  <2> QED
    BY <1>3, <1>4, <1>6, <2>2, <2>3 DEF Lasting, Moved
<1> QED
  BY <1>5, <1>6

\* A step that synced leaves the record of the directory as it is now.
LEMMA SyncedMoved ==
  ASSUME FileInv, disk' = {dir'},
         Logical(dir)' = Logical(dir)
  PROVE  Moved
<1>1. Lasting' = Logical(dir)'
  BY DEF Lasting, Agreed, Logical
<1>2. CASE Agreed
  BY <1>1, <1>2 DEF Lasting, Moved
<1>3. CASE ~Agreed
  <2>1. Undecided
    BY <1>3 DEF FileInv
  <2>2. Lawful(dir.journal.pred, dir.journal.succ)
    BY <2>1 DEF FileInv, Sound, Undecided
  <2> QED
    BY <1>1, <1>3, <2>1, <2>2 DEF Lasting, Moved, Undecided, Logical
<1> QED
  BY <1>2, <1>3

\* A step that changes the directory and not its record, unsynced.
LEMMA ChangedMoved ==
  ASSUME FileInv, NEW d, Change(d), Logical(d) = Logical(dir),
         Agreed \/ ("pending" \in d.names /\ d.journal = dir.journal)
  PROVE  Moved /\ (Agreed => Agreed') /\ (Agreed \/ Undecided)'
<1>1. Logical(dir') = Logical(dir)
  BY DEF Change
<1>2. Agreed' <=> Agreed
  BY <1>1 DEF Agreed, Change
<1>3. ~Agreed => Undecided'
  BY <1>1 DEF FileInv, Undecided, Change, Agreed, Logical
<1> QED
  BY <1>1, <1>2, <1>3 DEF Lasting, Moved, Change
\* The parts of the invariant that a step on the directory has to show.
LEMMA StepInv ==
  ASSUME FileInv, NEW d \in Dir, Sound(d), NEW step \in Steps,
         Change(d) \/ ChangeAndSync(d), Go(step),
         (Agreed \/ Undecided)', StepSound'
  PROVE  FileInv'
<1>1. op' \in [step: Steps, goal: Goals, value: Value]
  BY DEF FileInv, FileTypeOK, Go
<1> QED
  BY <1>1, ChangeSound DEF FileInv, FileTypeOK

LEMMA QuietInv ==
  ASSUME FileInv, NEW step \in Steps, Go(step), UNCHANGED <<dir, disk>>, StepSound'
  PROVE  FileInv' /\ Moved
<1>1. op' \in [step: Steps, goal: Goals, value: Value]
  BY DEF FileInv, FileTypeOK, Go
<1>2. (Agreed \/ Undecided)'
  BY DEF FileInv, Agreed, Undecided, Logical
<1> QED
  BY <1>1, <1>2, QuietMoved DEF FileInv, FileTypeOK

-----------------------------------------------------------------------------
(* Recovery *)

LEMMA AfterRecoveryStep ==
  ASSUME FileInv
  PROVE  /\ AfterRecovery \in {"done", "prepare"}
         /\ AfterRecovery = "done" <=> op.goal = "read"
BY DEF FileInv, FileTypeOK, AfterRecovery, Goals

LEMMA NothingPendingInv ==
  ASSUME FileInv, NothingPending
  PROVE  FileInv' /\ Moved
<1>1. AfterRecovery \in Steps
  BY AfterRecoveryStep DEF Steps
<1>2. Agreed
  BY DEF FileInv, NothingPending, Undecided
<1>3. StepSound'
  BY <1>2, AfterRecoveryStep
  DEF NothingPending, StepSound, At, Go, Agreed, Logical, FileInv, FileTypeOK
<1> QED
  BY <1>1, <1>3, QuietInv DEF NothingPending

LEMMA DropUnpublishedInv ==
  ASSUME FileInv, DropUnpublished
  PROVE  FileInv' /\ Moved
<1> DEFINE d == Unlinked(dir, "candidate")
<1>1. d \in Dir /\ d.names = {} /\ Logical(d) = Logical(dir)
  BY UnlinkedTyped
  DEF DropUnpublished, FileInv, FileTypeOK, Unlinked, Logical, Dir, Journal, Void
<1>2. Sound(d) /\ AfterRecovery \in Steps
  BY <1>1, AfterRecoveryStep DEF Sound, Steps
<1> HIDE DEF d
<1>3. dir' = d /\ disk' = {dir'} /\ Agreed' /\ op' = [op EXCEPT !.step = AfterRecovery]
  BY SyncedAgreed DEF DropUnpublished, ChangeAndSync, Synced, Go, d
<1>4. StepSound'
  BY <1>1, <1>3, AfterRecoveryStep DEF StepSound, At, FileInv, FileTypeOK
<1>5. FileInv'
  BY <1>1, <1>2, <1>3, <1>4, StepInv DEF DropUnpublished, d
<1>6. Moved
  BY <1>1, <1>3, SyncedMoved DEF Logical
<1> QED
  BY <1>5, <1>6

LEMMA NormalizePublishedInv ==
  ASSUME FileInv, NormalizePublished
  PROVE  FileInv' /\ Moved
<1> DEFINE d == Unlinked(dir, "candidate")
<1> "apply" \in Steps
  BY DEF Steps
<1>1. CASE "candidate" \notin dir.names
  <2>1. StepSound'
    BY <1>1 DEF NormalizePublished, StepSound, At, Go, FileInv, FileTypeOK, Dir
  <2> QED
    BY <1>1, <2>1, QuietInv DEF NormalizePublished
<1>2. CASE "candidate" \in dir.names
  <2>1. /\ d \in Dir
        /\ d.names = {"pending"}
        /\ d.journal = dir.journal /\ d.target = dir.target /\ d.temps = dir.temps
        /\ Logical(d) = Logical(dir)
    <3>1. dir \in Dir /\ "pending" \in dir.names
      BY DEF NormalizePublished, FileInv, FileTypeOK
    <3>2. dir.names \ {"candidate"} = {"pending"}
      BY <3>1 DEF Dir
    <3>3. d = [dir EXCEPT !.names = {"pending"}]
      BY <3>1, <3>2 DEF Unlinked, Dir
    <3> QED
      BY <3>1, <3>3, UnlinkedTyped DEF Logical, Dir
  <2>2. Sound(d)
    BY <1>2, <2>1 DEF FileInv, Sound, Waiting, Committed
  <2> HIDE DEF d
  <2>3. dir' = d /\ disk' = {dir'} /\ Agreed' /\ op' = [op EXCEPT !.step = "apply"]
    BY <1>2, SyncedAgreed DEF NormalizePublished, ChangeAndSync, Synced, Go, d
  <2>4. StepSound'
    BY <2>1, <2>3 DEF StepSound, At, FileInv, FileTypeOK
  <2>5. FileInv'
    BY <1>2, <2>1, <2>2, <2>3, <2>4, StepInv DEF NormalizePublished, d
  <2>6. Moved
    BY <2>1, <2>3, SyncedMoved DEF Logical
  <2> QED
    BY <2>5, <2>6
<1> QED
  BY <1>1, <1>2

\* A rename completes what is waiting, and the record is the same before and after.
LEMMA RenamedSound ==
  ASSUME FileInv, dir.names = {"pending"}, Waiting(dir)
  PROVE  /\ Renamed \in Dir
         /\ Sound(Renamed)
         /\ Committed(Renamed)
         /\ Renamed.journal = dir.journal
         /\ Logical(Renamed) = Logical(dir)
BY RenamedTyped
DEF FileInv, FileTypeOK, Sound, Committed, Waiting, Renamed, Logical, Dir, Journal

LEMMA ApplyInv ==
  ASSUME FileInv, Apply
  PROVE  FileInv' /\ Moved
<1> "confirm" \in Steps
  BY DEF Steps
<1>1. dir.names = {"pending"}
  BY DEF FileInv, StepSound, Apply
<1>2. CASE RenamedAlready /\ UNCHANGED <<dir, disk>>
  <2>1. StepSound'
    BY <1>1, <1>2
    DEF Apply, RenamedAlready, Committed, StepSound, At, Go, FileInv, FileTypeOK
  <2> QED
    BY <1>2, <2>1, QuietInv DEF Apply
<1>3. CASE NotRenamedYet /\ Change(Renamed)
  <2>1. Waiting(dir)
    BY <1>3 DEF NotRenamedYet, Waiting
  <2>2. Moved /\ (Agreed \/ Undecided)'
    BY <1>1, <1>3, <2>1, RenamedSound, ChangedMoved DEF Committed
  <2>3. StepSound'
    BY <1>1, <1>3, <2>1, RenamedSound
    DEF Apply, Change, Committed, StepSound, At, Go, FileInv, FileTypeOK
  <2> QED
    BY <1>1, <1>3, <2>1, <2>2, <2>3, RenamedSound, StepInv DEF Apply
<1> QED
  BY <1>2, <1>3 DEF Apply

LEMMA ApplyFinds ==
  ASSUME FileInv
  PROVE  NoConflict
BY DEF FileInv, StepSound, NoConflict, Sound, Waiting, Committed, RenamedAlready, NotRenamedYet

LEMMA ConfirmInv ==
  ASSUME FileInv, Confirm
  PROVE  FileInv' /\ Moved
<1> "retire" \in Steps
  BY DEF Steps
<1>1. Committed(dir) /\ dir \in Dir /\ Sound(dir) /\ ChangeAndSync(dir)
  BY DEF FileInv, FileTypeOK, StepSound, Confirm, Sync, ChangeAndSync
<1>2. disk' = {dir'} /\ dir' = dir /\ Agreed'
  BY SyncedAgreed DEF Confirm, Sync, Synced
<1>3. StepSound'
  BY <1>1, <1>2 DEF Confirm, StepSound, At, Go, FileInv, FileTypeOK, Committed
<1>4. Moved
  BY <1>2, SyncedMoved DEF Logical
<1> QED
  BY <1>1, <1>2, <1>3, <1>4, StepInv DEF Confirm

\* The journal of what is committed and synced says nothing any more.
LEMMA UnpendingSound ==
  ASSUME FileInv, Committed(dir)
  PROVE  LET d == Unlinked(dir, "pending")
         IN  d \in Dir /\ Sound(d) /\ d.names = {} /\ d.target = dir.target
             /\ Logical(d) = Logical(dir) /\ Logical(dir) = dir.target
BY UnlinkedTyped
DEF FileInv, FileTypeOK, Sound, Committed, Unlinked, Logical, Dir, Journal, Void

LEMMA RetireInv ==
  ASSUME FileInv, Retire
  PROVE  FileInv' /\ Moved
<1> DEFINE d == Unlinked(dir, "pending")
<1>1. AfterRecovery \in Steps
  BY AfterRecoveryStep DEF Steps
<1>2. Committed(dir)
  BY DEF FileInv, StepSound, Retire, At
<1>3. d \in Dir /\ Sound(d) /\ d.names = {} /\ Logical(d) = Logical(dir)
  BY <1>2, UnpendingSound
<1> HIDE DEF d
<1>4. dir' = d /\ disk' = {dir'} /\ Agreed' /\ op' = [op EXCEPT !.step = AfterRecovery]
  BY SyncedAgreed DEF Retire, ChangeAndSync, Synced, Go, d
<1>5. StepSound'
  BY <1>3, <1>4, AfterRecoveryStep DEF StepSound, At, FileInv, FileTypeOK
<1>6. FileInv'
  BY <1>1, <1>3, <1>4, <1>5, StepInv DEF Retire, d
<1>7. Moved
  BY <1>3, <1>4, SyncedMoved DEF Logical
<1> QED
  BY <1>6, <1>7
-----------------------------------------------------------------------------
(* Writing *)

LEMMA PrepareInv ==
  ASSUME FileInv, Prepare
  PROVE  FileInv' /\ Moved
<1> "publish" \in Steps
  BY DEF Steps
<1>1. dir \in Dir /\ op.value \in Value /\ dir.names = {} /\ Lawful(dir.target, op.value)
  BY DEF Prepare, FileInv, FileTypeOK
<1>2. /\ Prepared \in Dir
      /\ Prepared.names = {"candidate"}
      /\ Prepared.journal.succ = op.value
      /\ Sound(Prepared)
      /\ Logical(Prepared) = Logical(dir)
  BY <1>1, PreparedTyped DEF Prepared, Sound, Waiting, Logical, Dir
<1>3. Agreed
  BY <1>1 DEF FileInv, Undecided
<1>4. Moved /\ (Agreed \/ Undecided)'
  BY <1>2, <1>3, ChangedMoved DEF Prepare
<1>5. StepSound'
  BY <1>2 DEF Prepare, Change, StepSound, At, Go, FileInv, FileTypeOK
<1> QED
  BY <1>2, <1>4, <1>5, StepInv DEF Prepare

\* Linking the journal under its pending name leaves two records possible.
LEMMA PublishInv ==
  ASSUME FileInv, Publish
  PROVE  FileInv' /\ Moved
<1> DEFINE d == [dir EXCEPT !.names = @ \cup {"pending"}]
<1> "intent" \in Steps
  BY DEF Steps
<1>1. /\ dir \in Dir /\ dir.names = {"candidate"} /\ Sound(dir) /\ Agreed
      /\ dir.journal.succ = op.value
  BY DEF Publish, FileInv, FileTypeOK, StepSound, At, Undecided
<1>2. Waiting(dir) /\ Lawful(dir.journal.pred, dir.journal.succ)
  BY <1>1 DEF Sound, Committed
<1>3. /\ d \in Dir
      /\ d.names = {"candidate", "pending"}
      /\ d.journal = dir.journal /\ d.target = dir.target /\ d.temps = dir.temps
  BY <1>1 DEF Dir, Journal
<1>4. Sound(d)
  BY <1>2, <1>3 DEF Sound, Waiting
<1>5. Logical(dir) = dir.journal.pred /\ Logical(d) = dir.journal.succ
  BY <1>1, <1>2, <1>3 DEF Logical, Waiting
<1> HIDE DEF d
<1>6. dir' = d /\ disk' = disk \cup {d} /\ op' = [op EXCEPT !.step = "intent"]
  BY DEF Publish, Change, Go, d
<1>7. \A e \in disk' : Logical(e) \in {dir.journal.pred, dir.journal.succ}
  BY <1>1, <1>5, <1>6 DEF Agreed
<1>8. Undecided'
  BY <1>3, <1>6, <1>7 DEF Undecided, Logical
<1>9. StepSound'
  BY <1>1, <1>3, <1>6 DEF StepSound, At, FileInv, FileTypeOK
<1>10. FileInv'
  BY <1>3, <1>4, <1>8, <1>9, StepInv DEF Publish, d
<1>11. Lasting = dir.journal.pred /\ Lasting' \in {dir.journal.pred, dir.journal.succ}
  BY <1>1, <1>3, <1>5, <1>6 DEF Lasting, Logical
<1> QED
  BY <1>2, <1>10, <1>11 DEF Moved

LEMMA SyncIntentInv ==
  ASSUME FileInv, SyncIntent
  PROVE  FileInv' /\ Moved
<1> "drop" \in Steps
  BY DEF Steps
<1>1. /\ dir.names = {"candidate", "pending"} /\ dir.journal.succ = op.value
      /\ dir \in Dir /\ Sound(dir) /\ ChangeAndSync(dir)
  BY DEF FileInv, FileTypeOK, StepSound, SyncIntent, Sync, ChangeAndSync, At
<1>2. disk' = {dir'} /\ dir' = dir /\ Agreed'
  BY SyncedAgreed DEF SyncIntent, Sync, Synced
<1>3. StepSound'
  BY <1>1, <1>2 DEF SyncIntent, StepSound, At, Go, FileInv, FileTypeOK
<1>4. Moved
  BY <1>2, SyncedMoved DEF Logical
<1> QED
  BY <1>1, <1>2, <1>3, <1>4, StepInv DEF SyncIntent

\* Of a published journal the candidate's name may go.
LEMMA UncandidateSound ==
  ASSUME FileInv, dir.names = {"candidate", "pending"}
  PROVE  LET d == Unlinked(dir, "candidate")
         IN  d \in Dir /\ Sound(d) /\ Waiting(d) /\ d.names = {"pending"}
             /\ d.journal = dir.journal /\ Logical(d) = Logical(dir)
<1> DEFINE d == Unlinked(dir, "candidate")
<1>1. dir \in Dir /\ Sound(dir)
  BY DEF FileInv, FileTypeOK
<1>2. d = [dir EXCEPT !.names = {"pending"}]
  <2>1. dir.names \ {"candidate"} = {"pending"}
    OBVIOUS
  <2> QED
    BY <1>1, <2>1 DEF Unlinked, Dir
<1>3. /\ d \in Dir /\ d.names = {"pending"}
      /\ d.journal = dir.journal /\ d.target = dir.target /\ d.temps = dir.temps
  BY <1>1, <1>2, UnlinkedTyped DEF Dir
<1> HIDE DEF d
<1>4. Sound(d) /\ Waiting(d) /\ Logical(d) = Logical(dir)
  BY <1>1, <1>3 DEF Sound, Waiting, Committed, Logical
<1> QED
  BY <1>3, <1>4 DEF d

LEMMA DropCandidateInv ==
  ASSUME FileInv, DropCandidate
  PROVE  FileInv' /\ Moved
<1> DEFINE d == Unlinked(dir, "candidate")
<1> "rename" \in Steps
  BY DEF Steps
<1>1. dir.names = {"candidate", "pending"} /\ dir.journal.succ = op.value
  BY DEF FileInv, StepSound, DropCandidate, At
<1>2. /\ d \in Dir /\ Sound(d) /\ Waiting(d) /\ d.names = {"pending"}
      /\ d.journal = dir.journal /\ Logical(d) = Logical(dir)
  BY <1>1, UncandidateSound
<1> HIDE DEF d
<1>3. dir' = d /\ disk' = {dir'} /\ Agreed' /\ op' = [op EXCEPT !.step = "rename"]
  BY SyncedAgreed DEF DropCandidate, ChangeAndSync, Synced, Go, d
<1>4. StepSound'
  BY <1>1, <1>2, <1>3 DEF StepSound, At, FileInv, FileTypeOK, Waiting
<1>5. FileInv'
  BY <1>2, <1>3, <1>4, StepInv DEF DropCandidate, d
<1>6. Moved
  BY <1>2, <1>3, SyncedMoved DEF Logical
<1> QED
  BY <1>5, <1>6

LEMMA RenameInv ==
  ASSUME FileInv, Rename
  PROVE  FileInv' /\ Moved
<1> "commit" \in Steps
  BY DEF Steps
<1>1. dir.names = {"pending"} /\ Waiting(dir) /\ Agreed /\ dir.journal.succ = op.value
  BY DEF FileInv, StepSound, Rename, At
<1>2. Moved /\ Agreed' /\ (Agreed \/ Undecided)'
  BY <1>1, RenamedSound, ChangedMoved DEF Committed, Rename
<1>3. StepSound'
  BY <1>1, <1>2, RenamedSound
  DEF Rename, Change, Committed, StepSound, At, Go, FileInv, FileTypeOK
<1> QED
  BY <1>1, <1>2, <1>3, RenamedSound, StepInv DEF Rename

LEMMA SyncCommitInv ==
  ASSUME FileInv, SyncCommit
  PROVE  FileInv' /\ Moved
<1> "unpend" \in Steps
  BY DEF Steps
<1>1. Committed(dir) /\ dir.journal.succ = op.value /\ dir \in Dir /\ Sound(dir)
      /\ ChangeAndSync(dir)
  BY DEF FileInv, FileTypeOK, StepSound, SyncCommit, Sync, ChangeAndSync, At
<1>2. disk' = {dir'} /\ dir' = dir /\ Agreed'
  BY SyncedAgreed DEF SyncCommit, Sync, Synced
<1>3. StepSound'
  BY <1>1, <1>2 DEF SyncCommit, StepSound, At, Go, FileInv, FileTypeOK, Committed
<1>4. Moved
  BY <1>2, SyncedMoved DEF Logical
<1> QED
  BY <1>1, <1>2, <1>3, <1>4, StepInv DEF SyncCommit

LEMMA CleanupInv ==
  ASSUME FileInv, Cleanup
  PROVE  FileInv' /\ Moved
<1> DEFINE d == Unlinked(dir, "pending")
<1> "done" \in Steps
  BY DEF Steps
<1>1. Committed(dir) /\ dir.journal.succ = op.value
  BY DEF FileInv, StepSound, Cleanup, At
<1>2. d \in Dir /\ Sound(d) /\ d.names = {} /\ Logical(d) = Logical(dir)
      /\ d.target = dir.target
  BY <1>1, UnpendingSound
<1> HIDE DEF d
<1>3. dir' = d /\ disk' = {dir'} /\ Agreed' /\ op' = [op EXCEPT !.step = "done"]
  BY SyncedAgreed DEF Cleanup, ChangeAndSync, Synced, Go, d
<1>4. StepSound'
  BY <1>1, <1>2, <1>3 DEF StepSound, At, FileInv, FileTypeOK, Committed
<1>5. FileInv'
  BY <1>2, <1>3, <1>4, StepInv DEF Cleanup, d
<1>6. Moved
  BY <1>2, <1>3, SyncedMoved DEF Logical
<1> QED
  BY <1>5, <1>6
-----------------------------------------------------------------------------
(* Errors *)

LEMMA RefuseWriteInv ==
  ASSUME FileInv, RefuseWrite
  PROVE  FileInv' /\ Moved
<1> DEFINE d == [dir EXCEPT !.temps = {}]
<1> "failed" \in Steps
  BY DEF Steps
<1>1. dir \in Dir /\ Sound(dir) /\ (dir.names = {} \/ Committed(dir)) /\ Agreed
  BY DEF FileInv, FileTypeOK, StepSound, RefuseWrite, At, Undecided
<1>2. d \in Dir /\ d.names = dir.names /\ d.journal = dir.journal /\ d.target = dir.target
      /\ d.temps = {}
  BY <1>1 DEF Dir
<1>3. Sound(d) /\ Logical(d) = Logical(dir)
  BY <1>1, <1>2 DEF Sound, Committed, Waiting, Logical
<1> HIDE DEF d
<1>4. Moved /\ (Agreed \/ Undecided)'
  BY <1>1, <1>3, ChangedMoved DEF RefuseWrite, d
<1>5. StepSound'
  BY DEF RefuseWrite, StepSound, At, Go, FileInv, FileTypeOK
<1> QED
  BY <1>2, <1>3, <1>4, <1>5, StepInv DEF RefuseWrite, d

\* An error before the intent, and after it, leaves one record or the other.
LEMMA FailBeforeIntentInv ==
  ASSUME FileInv, FailBeforeIntent
  PROVE  FileInv' /\ Moved
<1> DEFINE d == [Unlinked(dir, "candidate") EXCEPT !.temps = {}]
<1> "failed" \in Steps
  BY DEF Steps
<1>1. StepSound'
  BY DEF FailBeforeIntent, StepSound, At, Go, FileInv, FileTypeOK
<1>2. CASE UNCHANGED <<dir, disk>>
  BY <1>1, <1>2, QuietInv DEF FailBeforeIntent
<1>3. CASE At("publish") /\ \E e \in {dir, d} : Change(e)
  <2>1. /\ dir \in Dir /\ Sound(dir) /\ dir.names = {"candidate"} /\ Agreed
        /\ Waiting(dir)
    BY <1>3 DEF FileInv, FileTypeOK, StepSound, Undecided, Sound, Committed
  <2>2. d \in Dir /\ d.names = {} /\ Sound(d) /\ Logical(d) = Logical(dir)
    BY <2>1, UnlinkedTyped DEF Unlinked, Sound, Logical, Dir, Journal, Void
  <2> HIDE DEF d
  <2>3. PICK e \in {dir, d} : Change(e)
    BY <1>3
  <2>4. e \in Dir /\ Sound(e) /\ Logical(e) = Logical(dir)
    BY <2>1, <2>2
  <2>5. Moved /\ (Agreed \/ Undecided)'
    BY <2>1, <2>3, <2>4, ChangedMoved
  <2> QED
    BY <1>1, <2>3, <2>4, <2>5, StepInv DEF FailBeforeIntent
<1> QED
  BY <1>2, <1>3 DEF FailBeforeIntent

LEMMA FailAfterIntentInv ==
  ASSUME FileInv, FailAfterIntent
  PROVE  FileInv' /\ Moved
<1> DEFINE d == Unlinked(dir, "candidate")
<1> "pending" \in Steps
  BY DEF Steps
<1>1. StepSound'
  BY DEF FailAfterIntent, StepSound, At, Go, FileInv, FileTypeOK
<1>2. CASE UNCHANGED <<dir, disk>>
  BY <1>1, <1>2, QuietInv DEF FailAfterIntent
<1>3. CASE At("intent") /\ \E e \in {dir, d} : Change(e)
  <2>1. dir \in Dir /\ Sound(dir) /\ dir.names = {"candidate", "pending"}
    BY <1>3 DEF FileInv, FileTypeOK, StepSound, At
  <2>2. /\ d \in Dir /\ Sound(d) /\ d.names = {"pending"}
        /\ d.journal = dir.journal /\ Logical(d) = Logical(dir)
    BY <2>1, UncandidateSound
  <2> HIDE DEF d
  <2>3. PICK e \in {dir, d} : Change(e)
    BY <1>3
  <2>4. /\ e \in Dir /\ Sound(e) /\ Logical(e) = Logical(dir)
        /\ "pending" \in e.names /\ e.journal = dir.journal
    BY <2>1, <2>2
  <2>5. Moved /\ (Agreed \/ Undecided)'
    BY <2>3, <2>4, ChangedMoved
  <2> QED
    BY <1>1, <2>3, <2>4, <2>5, StepInv DEF FailAfterIntent
<1> QED
  BY <1>2, <1>3 DEF FailAfterIntent

LEMMA KeepJournalInv ==
  ASSUME FileInv, KeepJournal
  PROVE  FileInv' /\ Moved
<1> DEFINE d == Unlinked(dir, "pending")
<1>1. PICK step \in Steps : Go(step) /\ step \in {"done", "prepare"}
                            /\ (step = "done" /\ op.goal = "write" => At("unpend"))
  BY AfterRecoveryStep DEF KeepJournal, Steps
<1>2. Committed(dir) /\ Agreed /\ dir \in Dir /\ Sound(dir)
      /\ (At("unpend") => dir.journal.succ = op.value)
  BY DEF FileInv, FileTypeOK, StepSound, KeepJournal, At
<1>3. d \in Dir /\ Sound(d) /\ d.names = {} /\ d.target = dir.target
      /\ Logical(d) = Logical(dir)
  BY <1>2, UnpendingSound
<1> HIDE DEF d
<1>4. PICK e \in {dir, d} : Change(e)
  BY DEF KeepJournal, d
<1>5. e \in Dir /\ Sound(e) /\ Logical(e) = Logical(dir) /\ e.target = dir.target
      /\ (e.names = {} \/ Committed(e))
  BY <1>2, <1>3
<1>6. Moved /\ Agreed'
  BY <1>2, <1>4, <1>5, ChangedMoved
<1>7. dir' = e /\ op' = [op EXCEPT !.step = step]
  BY <1>1, <1>4 DEF Change, Go
<1>8. StepSound'
  BY <1>1, <1>2, <1>5, <1>6, <1>7 DEF StepSound, At, FileInv, FileTypeOK, Committed
<1> QED
  BY <1>1, <1>4, <1>5, <1>6, <1>8, StepInv

-----------------------------------------------------------------------------
(* All steps *)

LEMMA FileStepInv ==
  ASSUME First \in Value, FileInv, [FileNext]_fileVars
  PROVE  FileInv' /\ Moved
<1>1. CASE \E goal \in Goals, v \in Value : Start(goal, v)
  BY <1>1, StartInv, QuietMoved DEF Start
<1>2. CASE FileStep
  <2>1. ~Conflict
    BY ApplyFinds DEF NoConflict, Conflict
  <2> QED
    BY <1>2, <2>1, NothingPendingInv, DropUnpublishedInv, NormalizePublishedInv, ApplyInv,
       ConfirmInv, RetireInv, PrepareInv, PublishInv, SyncIntentInv, DropCandidateInv,
       RenameInv, SyncCommitInv, CleanupInv, RefuseWriteInv
    DEF FileStep
<1>3. CASE FileFault
  BY <1>3, FailBeforeIntentInv, FailAfterIntentInv, KeepJournalInv DEF FileFault
<1>4. CASE Finish \/ FileCrash
  BY <1>4, RestInv, QuietMoved DEF Finish, FileCrash
<1>5. CASE FilePowerLoss
  BY <1>5, PowerLossInv
<1>6. CASE UNCHANGED fileVars
  <2>1. FileInv'
    BY <1>6 DEF fileVars, FileInv, FileTypeOK, Sound, Agreed, Undecided, StepSound, At,
                Waiting, Committed, Logical
  <2> QED
    BY <1>6, <2>1, QuietMoved DEF fileVars
<1> QED
  BY <1>1, <1>2, <1>3, <1>4, <1>5, <1>6 DEF FileNext

LEMMA LastingTyped == FileInv => Lasting \in Value
BY DEF FileInv, FileTypeOK, Lasting, Logical, Dir, Journal

\* A step adds at most the directory as it is now to what may be left of it.
LEMMA DiskGrows ==
  ASSUME FileInv, [FileNext]_fileVars
  PROVE  \A d \in disk' : d \in disk \/ d = dir'
<1>1. ASSUME NEW d, Change(d) \/ ChangeAndSync(d)
      PROVE  \A e \in disk' : e \in disk \/ e = dir'
  BY <1>1 DEF Change, ChangeAndSync, Synced
<1>2. ASSUME Sync PROVE \A e \in disk' : e \in disk \/ e = dir'
  BY <1>2 DEF Sync, Synced
<1>3. CASE FileStep
  BY <1>1, <1>2, <1>3
  DEF FileStep, NothingPending, DropUnpublished, NormalizePublished, Apply, Confirm, Retire,
      Prepare, Publish, SyncIntent, DropCandidate, Rename, SyncCommit, Cleanup, RefuseWrite,
      Conflict
<1>4. CASE FileFault
  BY <1>1, <1>4 DEF FileFault, FailBeforeIntent, FailAfterIntent, KeepJournal
<1> QED
  BY <1>3, <1>4 DEF FileNext, fileVars, Start, Finish, FileCrash, FilePowerLoss

\* What is true of a record and of its lawful successors stays true of whatever
\* a loss of power may leave.
LEMMA ClosedKept ==
  ASSUME First \in Value, FileInv, [FileNext]_fileVars,
         NEW S, \A v \in S, w \in Value : Lawful(v, w) => w \in S,
         \A d \in disk : Logical(d) \in S
  PROVE  \A d \in disk' : Logical(d) \in S
<1>1. FileInv' /\ Moved
  BY FileStepInv
<1>2. Lasting \in S
  <2>1. CASE Agreed
    BY <2>1 DEF Lasting, FileInv
  <2>2. CASE ~Agreed
    <3>1. Undecided /\ Logical(dir) = dir.journal.succ
      BY <2>2 DEF FileInv, Undecided, Logical
    <3>2. PICK d \in disk : Logical(d) # Logical(dir)
      BY <2>2 DEF Agreed
    <3>3. Logical(d) = dir.journal.pred
      BY <3>1, <3>2 DEF Undecided
    <3> QED
      BY <2>2, <3>3 DEF Lasting
  <2> QED
    BY <2>1, <2>2
<1>3. (Lasting \in Value)'
  <2>1. FileInv' => (Lasting \in Value)'
    BY LastingTyped, PTL
  <2> QED
    BY <1>1, <2>1
<1>4. Lasting' \in S
  BY <1>1, <1>2, <1>3 DEF Moved
<1>5. Logical(dir') \in S
  <2>1. CASE Agreed'
    BY <1>4, <2>1 DEF Lasting
  <2>2. CASE ~Agreed'
    <3>1. Undecided' /\ dir' \in Dir /\ Sound(dir') /\ Lasting' = dir'.journal.pred
      BY <1>1, <2>2 DEF FileInv, FileTypeOK, Sound, Waiting, Committed, Lasting
    <3>2. Lawful(dir'.journal.pred, dir'.journal.succ) /\ Logical(dir') = dir'.journal.succ
      BY <3>1 DEF Sound, Undecided, Logical
    <3>3. dir'.journal.succ \in Value
      BY <3>1 DEF Dir, Journal
    <3> QED
      BY <1>4, <3>1, <3>2, <3>3
  <2> QED
    BY <2>1, <2>2
<1> QED
  BY <1>5, DiskGrows

\* The values that a directory state or the operation under way holds.
HoldsOnly(d, S) == d.target \in S /\ d.journal.pred \in S /\ d.journal.succ \in S
ValuesIn(S) == op.value \in S /\ \A d \in disk : HoldsOnly(d, S)

\* A step of an operation brings no value into the directory but its own.
LEMMA ChangeValues ==
  ASSUME FileInv, FileStep \/ FileFault
  PROVE  /\ op'.value = op.value
         /\ dir'.target \in {dir.target, dir.journal.succ}
         /\ dir'.journal.pred \in {dir.target, dir.journal.pred}
         /\ dir'.journal.succ \in {dir.target, dir.journal.succ, op.value}
<1> DEFINE From(d) == /\ d.target \in {dir.target, dir.journal.succ}
                      /\ d.journal.pred \in {dir.target, dir.journal.pred}
                      /\ d.journal.succ \in {dir.target, dir.journal.succ, op.value}
<1>1. dir \in Dir /\ op \in [step: Steps, goal: Goals, value: Value]
  BY DEF FileInv, FileTypeOK
<1>2. From(dir) /\ From(Renamed) /\ From(Prepared)
  BY <1>1 DEF Dir, Journal, Renamed, Prepared
<1>3. \A name : From(Unlinked(dir, name))
  BY <1>1 DEF Dir, Journal, Unlinked, Void
<1>4. From([dir EXCEPT !.names = @ \cup {"pending"}]) /\ From([dir EXCEPT !.temps = {}])
  BY <1>1 DEF Dir, Journal
<1>5. From([Unlinked(dir, "candidate") EXCEPT !.temps = {}])
  BY <1>1, UnlinkedTyped DEF Dir, Journal, Unlinked, Void
<1>7. ASSUME NEW step, Go(step) PROVE op'.value = op.value
  BY <1>1, <1>7 DEF Go
<1> HIDE DEF From
<1>8. ASSUME NEW d, From(d), Change(d) \/ ChangeAndSync(d) PROVE From(dir')
  BY <1>8 DEF Change, ChangeAndSync
<1>9. ASSUME UNCHANGED dir PROVE From(dir')
  BY <1>2, <1>9
<1>10. CASE NothingPending \/ DropUnpublished \/ NormalizePublished \/ Apply \/ Confirm \/ Retire
  <2>1. op'.value = op.value
    BY <1>7, <1>10
    DEF NothingPending, DropUnpublished, NormalizePublished, Apply, Confirm, Retire
  <2>2. From(dir')
    BY <1>2, <1>3, <1>8, <1>9, <1>10
    DEF NothingPending, DropUnpublished, NormalizePublished, Apply, Confirm, Retire, Sync
  <2> QED
    BY <2>1, <2>2 DEF From
<1>11. CASE Prepare \/ Publish \/ SyncIntent \/ DropCandidate \/ Rename \/ SyncCommit \/ Cleanup
  <2>1. op'.value = op.value
    BY <1>7, <1>11
    DEF Prepare, Publish, SyncIntent, DropCandidate, Rename, SyncCommit, Cleanup
  <2>2. From(dir')
    BY <1>2, <1>3, <1>4, <1>8, <1>9, <1>11
    DEF Prepare, Publish, SyncIntent, DropCandidate, Rename, SyncCommit, Cleanup, Sync
  <2> QED
    BY <2>1, <2>2 DEF From
<1>12. CASE RefuseWrite \/ Conflict \/ FailBeforeIntent \/ FailAfterIntent \/ KeepJournal
  <2>1. op'.value = op.value
    BY <1>7, <1>12 DEF RefuseWrite, Conflict, FailBeforeIntent, FailAfterIntent, KeepJournal
  <2>2. From(dir')
    BY <1>2, <1>3, <1>4, <1>5, <1>8, <1>9, <1>12
    DEF RefuseWrite, Conflict, FailBeforeIntent, FailAfterIntent, KeepJournal
  <2> QED
    BY <2>1, <2>2 DEF From
<1> QED
  BY <1>10, <1>11, <1>12 DEF FileStep, FileFault

\* A set of values that every write keeps to is never left, by no crash either.
LEMMA ValuesKept ==
  ASSUME NEW S, First \in S, FileInv, [FileNext]_fileVars, ValuesIn(S),
         op'.value \in S \/ op'.value = op.value
  PROVE  ValuesIn(S)'
<1>1. dir \in disk
  BY DEF FileInv
<1>2. op'.value \in S
  BY DEF ValuesIn
<1>3. HoldsOnly(dir', S)
  <2>1. CASE FileStep \/ FileFault
    BY <1>1, <2>1, ChangeValues DEF ValuesIn, HoldsOnly
  <2>2. CASE FilePowerLoss
    BY <2>2 DEF FilePowerLoss, ValuesIn
  <2>3. CASE UNCHANGED dir
    BY <1>1, <2>3 DEF ValuesIn, HoldsOnly
  <2> QED
    BY <2>1, <2>2, <2>3 DEF FileNext, fileVars, Start, Finish, FileCrash
<1> QED
  BY <1>2, <1>3, DiskGrows DEF ValuesIn

LEMMA FileInvAnswers ==
  ASSUME FileInv
  PROVE  AnswersLast
BY DEF FileInv, StepSound, AnswersLast, Lasting, Logical, Committed

\* What a process was told, by a read or a replacement that returned, no crash
\* takes back, and a recovery never meets a directory it cannot make sense of.
THEOREM AnswersAreLasting ==
  ASSUME First \in Value
  PROVE  FileSpec => [](AnswersLast /\ NoConflict)
<1>1. FileSpec => []FileInv
  BY FileInitInv, FileStepInv, PTL DEF FileSpec
<1> QED
  BY <1>1, FileInvAnswers, ApplyFinds, PTL

\* The journal, the syncs and the recovery together implement one record that
\* is replaced as a whole, by lawful successors only: the refinement.
THEOREM FileImplementsRecord ==
  ASSUME First \in Value
  PROVE  FileSpec => KeepsRecord
<1>1. FileSpec => []FileInv
  BY FileInitInv, FileStepInv, PTL DEF FileSpec
<1>2. FileInit => Record!Init
  BY DEF FileInit, Record!Init, Lasting, Agreed, Logical, Empty
<1>3. FileInv /\ FileInv' /\ [FileNext]_fileVars => [Record!Replace]_Lasting
  <2>1. FileInv' => (Lasting \in Value)'
    BY LastingTyped, PTL
  <2> QED
    BY <2>1, FileStepInv DEF Moved, Record!Replace
<1> QED
  BY <1>1, <1>2, <1>3, PTL DEF FileSpec, KeepsRecord, Record!Spec
=============================================================================

-------------------------- MODULE QueueClaim_proofs --------------------------
(***************************************************************************)
(* The claim ledger, for every set of processes and issues, every failure  *)
(* limit and any number of claims and crashes: what each of its actions    *)
(* keeps of the lease, of the claim file and of what a process relies on.  *)
(* TaskRunner_proofs puts the actions together.                            *)
(***************************************************************************)
EXTENDS QueueClaim, TLAPS

-----------------------------------------------------------------------------
(* The file lease excludes *)

LEMMA LeaseInitInv == LeaseInit => LeaseInv
BY DEF LeaseInit, LeaseInv, LeaseTypeOK, Phases

\* Whoever works under the guard is alone there, and the marker of a holder
\* is removed by nobody else who lives.
LEMMA LeaseStepInv == LeaseInv /\ [LeaseNext]_leaseVars => LeaseInv'
<1> SUFFICES ASSUME LeaseInv, [LeaseNext]_leaseVars PROVE LeaseInv'
  OBVIOUS
<1> USE OwnersDiffer DEF LeaseInv, LeaseTypeOK, Phases
<1>1. ASSUME NEW p \in Proc, TakeGuard(p) PROVE LeaseInv'
  BY <1>1 DEF TakeGuard
<1>2. ASSUME NEW p \in Proc, Clear(p) PROVE LeaseInv'
  BY <1>2 DEF Clear, Removable
<1>3. ASSUME NEW p \in Proc, Refuse(p) PROVE LeaseInv'
  BY <1>3 DEF Refuse
<1>4. ASSUME NEW p \in Proc, Enter(p) PROVE LeaseInv'
  BY <1>4 DEF Enter
<1>5. ASSUME NEW p \in Proc, AbandonEntry(p) PROVE LeaseInv'
  BY <1>5 DEF AbandonEntry
<1>6. ASSUME NEW p \in Proc, Deactivate(p) PROVE LeaseInv'
  BY <1>6 DEF Deactivate
<1>7. ASSUME NEW p \in Proc, Leave(p) PROVE LeaseInv'
  BY <1>7 DEF Leave
<1>8. ASSUME NEW p \in Proc, LeaseCrash(p) PROVE LeaseInv'
  BY <1>8 DEF LeaseCrash
<1>9. ASSUME NEW p \in Proc, HelperExits(p) PROVE LeaseInv'
  BY <1>9 DEF HelperExits
<1>10. CASE LeasePowerLoss
  BY <1>10 DEF LeasePowerLoss
<1>11. CASE UNCHANGED leaseVars
  BY <1>11 DEF leaseVars
<1> QED
  BY <1>1, <1>2, <1>3, <1>4, <1>5, <1>6, <1>7, <1>8, <1>9, <1>10, <1>11 DEF LeaseNext

LEMMA LeaseInvExcludes == LeaseInv => OneHolder
BY DEF LeaseInv, OneHolder, Holds

\* A marker is only ever removed under the guard, from an owner that is dead or
\* is the process itself, so two live processes never hold the lease at once.
THEOREM LeaseExcludes == LeaseSpec => []OneHolder
<1>1. LeaseSpec => []LeaseInv
  BY LeaseInitInv, LeaseStepInv, PTL DEF LeaseSpec
<1> QED
  BY <1>1, LeaseInvExcludes, PTL

-----------------------------------------------------------------------------
(* The claim file *)

\* The theorems about the durable file, of the claim file.
Proved == INSTANCE DurableFile_proofs WITH
            Value <- Claim, First <- NoClaim, Lawful <- validQueueTransaction

\* Both instances of DurableFile speak of one file.
LEMMA SameInv == File!FileInv <=> Proved!FileInv
BY
DEF File!Journal, File!Dir, File!Steps, File!Goals, File!FileTypeOK, File!At,
    File!Logical, File!Agreed, File!Waiting, File!Committed, File!Sound, File!Undecided,
    File!StepSound, File!FileInv, Proved!Journal, Proved!Dir, Proved!Steps, Proved!Goals,
    Proved!FileTypeOK, Proved!At, Proved!Logical, Proved!Agreed, Proved!Waiting,
    Proved!Committed, Proved!Sound, Proved!Undecided, Proved!StepSound, Proved!FileInv

LEMMA SameLasting == File!Lasting = Proved!Lasting
BY
DEF File!Logical, File!Agreed, File!Lasting, Proved!Logical, Proved!Agreed, Proved!Lasting

LEMMA SameNext == [File!FileNext]_(File!fileVars) <=> [Proved!FileNext]_(Proved!fileVars)
BY
DEF File!fileVars, File!Goals, File!Rest, File!Void, File!Change, File!Synced, File!Sync,
    File!ChangeAndSync, File!Unlinked, File!At, File!Go, File!AfterRecovery, File!Start,
    File!Finish, File!NothingPending, File!DropUnpublished, File!NormalizePublished,
    File!RenamedAlready, File!NotRenamedYet, File!Renamed, File!Apply, File!Confirm,
    File!Retire, File!Prepared, File!Prepare, File!Publish, File!SyncIntent,
    File!DropCandidate, File!Rename, File!SyncCommit, File!Cleanup, File!RefuseWrite,
    File!Conflict, File!FailBeforeIntent, File!FailAfterIntent, File!KeepJournal,
    File!FileCrash, File!FilePowerLoss, File!FileStep, File!FileFault, File!FileNext,
    Proved!fileVars, Proved!Goals, Proved!Rest, Proved!Void, Proved!Change, Proved!Synced,
    Proved!Sync, Proved!ChangeAndSync, Proved!Unlinked, Proved!At, Proved!Go,
    Proved!AfterRecovery, Proved!Start, Proved!Finish, Proved!NothingPending,
    Proved!DropUnpublished, Proved!NormalizePublished, Proved!RenamedAlready,
    Proved!NotRenamedYet, Proved!Renamed, Proved!Apply, Proved!Confirm, Proved!Retire,
    Proved!Prepared, Proved!Prepare, Proved!Publish, Proved!SyncIntent,
    Proved!DropCandidate, Proved!Rename, Proved!SyncCommit, Proved!Cleanup,
    Proved!RefuseWrite, Proved!Conflict, Proved!FailBeforeIntent, Proved!FailAfterIntent,
    Proved!KeepJournal, Proved!FileCrash, Proved!FilePowerLoss, Proved!FileStep,
    Proved!FileFault, Proved!FileNext

-----------------------------------------------------------------------------
(* The inductive invariant of the claim ledger *)

\* The record withClaim writes before the callback.
OwnRecord(j) ==
  [j.base EXCEPT !.status = "active", !.attempt = @ + 1, !.retry = j.retry,
                 !.origin = j.issue]

JobTyped ==
  /\ job \in [Proc -> Job]
  /\ \A p \in Proc : job[p].at # "idle" => job[p].issue \in Issue

\* What a process is doing says how far it is with the instruction's lease.
AtPhase(at, ph) ==
  /\ at \in {"idle", "fetched", "issued", "selecting"} => ph = "out"
  /\ at = "claiming" => ph \in {"guarded", "cleared"}
  /\ at \in {"reading", "activating", "working", "completing", "settling"} => ph = "holding"
  /\ at = "leaving" => ph = "leaving"

Coupled == \A p \in Proc : AtPhase(job[p].at, phase[p])

\* A claim that is being activated is written for the process's issue, to work
\* under it as its own record; while the callback runs that record is the one
\* that is read and the one that lasts.
OwnClaim(j) ==
  /\ j.at = "activating" => op.goal = "write" /\ op.value.origin = j.issue
  /\ j.at = "activating" /\ j.kind = "claim" => op.value = OwnRecord(j)
  /\ j.at = "working" => File!Agreed /\ File!Lasting = OwnRecord(j) /\ Read = OwnRecord(j)

Activated == \A p \in Proc : OwnClaim(job[p])

ClaimInv ==
  /\ LeaseInv
  /\ File!FileInv
  /\ JobTyped
  /\ Coupled
  /\ Activated

-----------------------------------------------------------------------------
(* The claim file in the hands of its one holder *)

LEMMA NoClaimTyped == NoClaim \in Claim
BY DEF NoClaim, Claim

LEMMA SameInvNext == File!FileInv' <=> Proved!FileInv'
BY SameInv, PTL

LEMMA SameLastingNext == (File!Lasting)' = (Proved!Lasting)'
BY DEF File!Logical, File!Agreed, File!Lasting,
       Proved!Logical, Proved!Agreed, Proved!Lasting

FileMove == [File!FileNext]_(File!fileVars)
LedgerMove == [File!Record!Replace]_(File!Lasting)

LEMMA FileStepKeeps ==
  ASSUME File!FileInv, FileMove
  PROVE  File!FileInv' /\ LedgerMove
<1>1. Proved!FileInv /\ [Proved!FileNext]_(Proved!fileVars)
  BY SameInv, SameNext DEF FileMove
<1>2. Proved!FileInv' /\ Proved!Moved
  BY <1>1, NoClaimTyped, Proved!FileStepInv
<1>3. (Proved!Lasting \in Claim)'
  <2>1. Proved!FileInv' => (Proved!Lasting \in Claim)'
    BY Proved!LastingTyped, PTL
  <2> QED
    BY <1>2, <2>1
<1> QED
  BY <1>2, <1>3, SameInvNext, SameLasting, SameLastingNext
  DEF LedgerMove, File!Record!Replace, Proved!Moved

\* The operation goes on with the goal and the value it was started with.
LEMMA FileStepOp ==
  ASSUME File!FileInv, File!FileStep \/ File!FileFault
  PROVE  op'.goal = op.goal /\ op'.value = op.value
<1>1. op \in [step: File!Steps, goal: File!Goals, value: Claim]
  BY DEF File!FileInv, File!FileTypeOK
<1>2. \E step : File!Go(step)
  BY DEF File!FileStep, File!FileFault, File!NothingPending, File!DropUnpublished,
         File!NormalizePublished, File!Apply, File!Confirm, File!Retire, File!Prepare,
         File!Publish, File!SyncIntent, File!DropCandidate, File!Rename, File!SyncCommit,
         File!Cleanup, File!RefuseWrite, File!Conflict, File!FailBeforeIntent,
         File!FailAfterIntent, File!KeepJournal
<1> QED
  BY <1>1, <1>2 DEF File!Go

\* What a finished replacement wrote is the record that lasts.
LEMMA FileDone ==
  ASSUME File!FileInv, op.step = "done"
  PROVE  /\ File!Agreed
         /\ File!Lasting = dir.target
         /\ dir.target \in Claim
         /\ op.goal = "write" => dir.target = op.value
BY DEF File!FileInv, File!FileTypeOK, File!Dir, File!StepSound, File!At, File!Lasting,
       File!Logical, File!Committed

LEMMA QuietLasting ==
  ASSUME UNCHANGED <<dir, disk>>
  PROVE  /\ (File!Agreed)' = File!Agreed
         /\ (File!Lasting)' = File!Lasting
         /\ Read' = Read
BY DEF File!Agreed, File!Lasting, File!Logical, Read

LEMMA Alone ==
  ASSUME LeaseInv, NEW p \in Proc, NEW q \in Proc, phase[p] = "holding", phase[q] = "holding"
  PROVE  p = q
BY DEF LeaseInv

LEMMA AloneNext ==
  ASSUME LeaseInv', NEW p \in Proc, NEW q \in Proc, phase'[p] = "holding", phase'[q] = "holding"
  PROVE  p = q
BY DEF LeaseInv

LEMMA OwnClaimKept ==
  ASSUME NEW j, OwnClaim(j), UNCHANGED <<dir, disk, op>>
  PROVE  OwnClaim(j)'
BY QuietLasting DEF OwnClaim

\* One process takes a step; the file is touched by nobody but the holder of the
\* lease, so the claim another process relies on stays as it is.
LEMMA ProcessStep ==
  ASSUME ClaimInv, [LeaseNext]_leaseVars, FileMove, NEW q \in Proc, NEW j \in Job,
         job' = [job EXCEPT ![q] = j],
         j.at # "idle" => j.issue \in Issue,
         \A p \in Proc : p # q => phase'[p] = phase[p],
         AtPhase(j.at, phase'[q]),
         OwnClaim(j)',
         UNCHANGED <<dir, disk, op>> \/ phase[q] = "holding" \/ phase'[q] = "holding"
  PROVE  ClaimInv'
<1>1. LeaseInv'
  BY LeaseStepInv DEF ClaimInv
<1>2. File!FileInv'
  BY FileStepKeeps DEF ClaimInv
<1>3. JobTyped'
  BY DEF ClaimInv, JobTyped
<1>4. Coupled'
  BY DEF ClaimInv, JobTyped, Coupled
<1>5. ASSUME NEW p \in Proc PROVE OwnClaim(job[p])'
  <2>1. CASE p = q
    <3>1. job'[p] = j
      BY <2>1 DEF ClaimInv, JobTyped
    <3> QED
      BY <3>1 DEF OwnClaim, OwnRecord
  <2>2. CASE p # q /\ UNCHANGED <<dir, disk, op>>
    <3>1. job'[p] = job[p] /\ OwnClaim(job[p])
      BY <2>2 DEF ClaimInv, JobTyped, Activated
    <3> QED
      BY <2>2, <3>1, QuietLasting DEF OwnClaim, OwnRecord
  <2>3. CASE p # q /\ job[p].at \in {"activating", "working"}
             /\ (phase[q] = "holding" \/ phase'[q] = "holding")
    <3>1. phase[p] = "holding" /\ phase'[p] = "holding"
      BY <2>3 DEF ClaimInv, Coupled, AtPhase
    <3> QED
      BY <1>1, <2>3, <3>1, Alone, AloneNext DEF ClaimInv
  <2>4. CASE p # q /\ job[p].at \notin {"activating", "working"}
    <3>1. job'[p] = job[p]
      BY <2>4 DEF ClaimInv, JobTyped
    <3> QED
      BY <2>4, <3>1 DEF OwnClaim
  <2> QED
    BY <2>1, <2>2, <2>3, <2>4
<1> QED
  BY <1>1, <1>2, <1>3, <1>4, <1>5 DEF ClaimInv, Activated

\* A step of one process that neither ends nor leads to a claimed callback.
LEMMA PlainStep ==
  ASSUME ClaimInv, [LeaseNext]_leaseVars, FileMove, NEW q \in Proc, NEW j \in Job,
         job' = [job EXCEPT ![q] = j],
         j.at \notin {"activating", "working"},
         j.at # "idle" => j.issue \in Issue,
         \A p \in Proc : p # q => phase'[p] = phase[p],
         AtPhase(j.at, phase'[q]),
         UNCHANGED <<dir, disk, op>> \/ phase[q] = "holding" \/ phase'[q] = "holding"
  PROVE  ClaimInv'
<1>1. OwnClaim(j)'
  BY DEF OwnClaim
<1> QED
  BY <1>1, ProcessStep

LEMMA FileKeptMove ==
  ASSUME UNCHANGED <<dir, disk, op>>
  PROVE  FileMove
BY DEF FileMove, File!fileVars

LEMMA JobOf ==
  ASSUME ClaimInv, NEW p \in Proc
  PROVE  job[p] \in Job /\ (job[p].at # "idle" => job[p].issue \in Issue)
         /\ AtPhase(job[p].at, phase[p]) /\ OwnClaim(job[p])
BY DEF ClaimInv, JobTyped, Coupled, Activated

LEMMA NoJobTyped == NoJob \in Job /\ NoJob.at = "idle"
BY NoClaimTyped DEF NoJob, Job, JobAt, Results

-----------------------------------------------------------------------------
(* Before the claim *)

\* A cycle that ends gives back the issue, and holds no other lease by then.
LEMMA EndsInv ==
  ASSUME ClaimInv, NEW p \in Proc, ReleaseIssue(p), [LeaseNext]_leaseVars, FileMove,
         \A q \in Proc : q # p => phase'[q] = phase[q],
         phase'[p] = "out",
         UNCHANGED <<dir, disk, op>> \/ phase[p] = "holding"
  PROVE  ClaimInv'
BY NoJobTyped, PlainStep DEF ReleaseIssue, AtPhase

LEMMA QuietEndInv ==
  ASSUME ClaimInv, NEW p \in Proc, ReleaseIssue(p), LeaseKept, FileKept,
         job[p].at \in {"fetched", "issued", "selecting"}
  PROVE  ClaimInv'
BY EndsInv, JobOf, FileKeptMove DEF LeaseKept, FileKept, leaseVars, AtPhase

LEMMA AskInv ==
  ASSUME ClaimInv, NEW p \in Proc, NEW kind \in {"claim", "complete"}, NEW retry \in BOOLEAN,
         job[p].at \in {"issued", "selecting"}, Ask(p, kind, retry), FileKept
  PROVE  ClaimInv'
<1>1. PICK j : j = [job[p] EXCEPT !.at = "claiming", !.kind = kind, !.retry = retry]
  OBVIOUS
<1>2. j \in Job /\ j.at = "claiming" /\ j.issue \in Issue
  BY <1>1, JobOf DEF Job, JobAt
<1>3. job' = [job EXCEPT ![p] = j]
  BY <1>1, JobOf DEF Ask, Job
<1>4. TakeGuard(p)
  BY DEF Ask
<1>5. [LeaseNext]_leaseVars /\ (\A q \in Proc : q # p => phase'[q] = phase[q])
      /\ phase'[p] = "guarded"
  BY <1>4 DEF LeaseNext, TakeGuard, ClaimInv, LeaseInv, LeaseTypeOK
<1> QED
  BY <1>2, <1>3, <1>5, PlainStep, FileKeptMove DEF FileKept, AtPhase

-----------------------------------------------------------------------------
(* The lease of the instruction *)

\* Each of the lease's actions moves one process and no other.
LEMMA LeaseMoves ==
  ASSUME LeaseInv, NEW p \in Proc,
         \/ TakeGuard(p) \/ Clear(p) \/ Refuse(p) \/ Enter(p) \/ AbandonEntry(p)
         \/ Deactivate(p) \/ Leave(p) \/ LeaseCrash(p) \/ HelperExits(p)
  PROVE  /\ [LeaseNext]_leaseVars
         /\ \A q \in Proc : q # p => phase'[q] = phase[q]
         /\ Clear(p) => phase'[p] = "cleared"
         /\ Refuse(p) \/ AbandonEntry(p) \/ Leave(p) \/ LeaseCrash(p) => phase'[p] = "out"
         /\ Enter(p) => phase'[p] = "holding"
         /\ Deactivate(p) => phase[p] = "holding" /\ phase'[p] = "leaving"
         /\ HelperExits(p) => phase'[p] = phase[p]
<1>1. LeaseNext
  BY DEF LeaseNext
<1>2. phase \in [Proc -> Phases]
  BY DEF LeaseInv, LeaseTypeOK
<1> QED
  BY <1>1, <1>2
  DEF TakeGuard, Clear, Refuse, Enter, AbandonEntry, Deactivate, Leave, LeaseCrash, HelperExits

LEMMA ClearLeaseInv ==
  ASSUME ClaimInv, NEW p \in Proc, ClearLease(p)
  PROVE  ClaimInv'
<1>1. job' = [job EXCEPT ![p] = job[p]] /\ job[p].at = "claiming"
  BY DEF ClearLease, Is, ClaimInv, JobTyped
<1>2. PICK j : j = job[p]
  OBVIOUS
<1> QED
  BY <1>1, <1>2, LeaseMoves, PlainStep, JobOf, FileKeptMove
  DEF ClearLease, ClaimInv, FileKept, AtPhase

LEMMA RefuseLeaseInv ==
  ASSUME ClaimInv, NEW p \in Proc, RefuseLease(p) \/ FailLease(p)
  PROVE  ClaimInv'
BY LeaseMoves, EndsInv, FileKeptMove DEF RefuseLease, FailLease, ClaimInv, FileKept

LEMMA OrphanExitsInv ==
  ASSUME ClaimInv, NEW p \in Proc, OrphanExits(p)
  PROVE  ClaimInv'
<1>1. [LeaseNext]_leaseVars /\ phase' = phase /\ job' = job
  BY LeaseMoves DEF OrphanExits, ClaimInv, HelperExits
<1>2. LeaseInv'
  BY <1>1, LeaseStepInv DEF ClaimInv
<1>3. File!FileInv'
  BY FileStepKeeps, FileKeptMove DEF ClaimInv, OrphanExits, FileKept
<1>4. Activated'
  <2> SUFFICES ASSUME NEW p_1 \in Proc PROVE OwnClaim(job[p_1])'
    BY DEF Activated
  <2>1. PICK j : j = job[p_1]
    OBVIOUS
  <2>2. OwnClaim(j)'
    BY <2>1, OwnClaimKept, JobOf DEF OrphanExits, FileKept
  <2> QED
    BY <1>1, <2>1, <2>2 DEF OwnClaim, OwnRecord
<1> QED
  BY <1>1, <1>2, <1>3, <1>4 DEF ClaimInv, JobTyped, Coupled

LEMMA StartMove ==
  ASSUME NEW goal \in {"read", "write"}, NEW c \in Claim, File!Start(goal, c)
  PROVE  FileMove /\ op'.goal = goal /\ op'.value = c
BY DEF FileMove, File!FileNext, File!Start, File!Goals

LEMMA EnterLeaseInv ==
  ASSUME ClaimInv, NEW p \in Proc, EnterLease(p)
  PROVE  ClaimInv'
<1>1. PICK j : j = [job[p] EXCEPT !.at = "reading"]
  OBVIOUS
<1>2. j \in Job /\ j.at = "reading" /\ j.issue \in Issue
  BY <1>1, JobOf DEF Job, JobAt, EnterLease, Is
<1>3. job' = [job EXCEPT ![p] = j]
  BY <1>1 DEF EnterLease, Moves
<1> QED
  BY <1>2, <1>3, LeaseMoves, PlainStep, StartMove, NoClaimTyped
  DEF EnterLease, ClaimInv, AtPhase

LEMMA LeaveInstructionInv ==
  ASSUME ClaimInv, NEW p \in Proc, LeaveInstruction(p)
  PROVE  ClaimInv'
<1>1. CASE ReleaseIssue(p)
  BY <1>1, LeaseMoves, EndsInv, FileKeptMove DEF LeaveInstruction, ClaimInv, FileKept
<1>2. CASE Moves(p, "selecting")
  <2>1. PICK j : j = [job[p] EXCEPT !.at = "selecting"]
    OBVIOUS
  <2>2. j \in Job /\ j.at = "selecting" /\ j.issue \in Issue
    BY <2>1, JobOf DEF Job, JobAt, LeaveInstruction, Is
  <2>3. job' = [job EXCEPT ![p] = j]
    BY <1>2, <2>1 DEF Moves
  <2> QED
    BY <2>2, <2>3, LeaseMoves, PlainStep, FileKeptMove
    DEF LeaveInstruction, ClaimInv, FileKept, AtPhase
<1> QED
  BY <1>1, <1>2 DEF LeaveInstruction

-----------------------------------------------------------------------------
(* The claim file *)

LEMMA OnFileInv ==
  ASSUME ClaimInv, NEW p \in Proc, StepFile(p) \/ FailFile(p)
  PROVE  ClaimInv'
<1>1. PICK j : j = job[p]
  OBVIOUS
<1>2. j \in Job /\ j.issue \in Issue /\ job' = [job EXCEPT ![p] = j]
      /\ AtPhase(j.at, phase'[p]) /\ j.at # "working" /\ phase[p] = "holding"
  BY <1>1, JobOf
  DEF StepFile, FailFile, Busy, ClaimInv, JobTyped, LeaseKept, leaseVars, AtPhase
<1>3. [LeaseNext]_leaseVars /\ phase' = phase
  BY DEF StepFile, FailFile, LeaseKept, leaseVars
<1>4. File!FileStep \/ File!FileFault
  BY DEF StepFile, FailFile
<1>5. FileMove
  BY <1>4 DEF FileMove, File!FileNext
<1>6. op'.goal = op.goal /\ op'.value = op.value
  BY <1>4, FileStepOp DEF ClaimInv
<1>7. OwnClaim(j)'
  BY <1>1, <1>2, <1>6, JobOf DEF OwnClaim
<1> QED
  BY <1>2, <1>3, <1>5, <1>7, ProcessStep

LEMMA StopInv ==
  ASSUME ClaimInv, NEW p \in Proc, NEW result \in Results, Stop(p, result)
  PROVE  ClaimInv'
<1>1. PICK j : j = [job[p] EXCEPT !.at = "leaving", !.result = result]
  OBVIOUS
<1>2. Deactivate(p) /\ FileMove
  BY DEF Stop, StopHolding, FileMove, File!FileNext
<1>3. phase[p] = "holding" /\ phase'[p] = "leaving"
  BY <1>2, LeaseMoves DEF ClaimInv
<1>4. j \in Job /\ j.at = "leaving" /\ j.issue \in Issue
  BY <1>1, <1>3, JobOf DEF Job, JobAt, AtPhase
<1>5. job' = [job EXCEPT ![p] = j]
  BY <1>1, JobOf DEF Stop, Job
<1> QED
  BY <1>2, <1>3, <1>4, <1>5, LeaseMoves, PlainStep DEF ClaimInv, AtPhase

\* A settled record is a record, whatever the callback returned.
LEMMA OutcomesTyped ==
  ASSUME ClaimInv, NEW p \in Proc, job[p].result \notin {"none", "commit_pending"}
  PROVE  Outcomes(p) \subseteq Claim
<1>1. dir.target \in Claim
  BY DEF ClaimInv, File!FileInv, File!FileTypeOK, File!Dir
<1>2. job[p].base \in Claim
  BY JobOf DEF Job
<1>3. \A c \in Claim, s \in {"completed", "released"} : [c EXCEPT !.status = s] \in Claim
  BY DEF Claim
<1>4. \A c \in Claim, s \in {"quarantined", "retryable_error"} :
        [c EXCEPT !.status = s, !.failures = @ + 1] \in Claim
  <2> SUFFICES ASSUME NEW c \in Claim, NEW s \in {"quarantined", "retryable_error"}
               PROVE  [c EXCEPT !.status = s, !.failures = @ + 1] \in Claim
    OBVIOUS
  <2>1. c.failures + 1 \in Nat
    BY DEF Claim
  <2>2. PICK n \in Nat : n = c.failures + 1
    BY <2>1
  <2>3. [c EXCEPT !.status = s, !.failures = n] \in Claim
    BY DEF Claim
  <2> QED
    BY <2>2, <2>3
<1>5. \A c, r : FailedStatus(c, r) \subseteq {"quarantined", "retryable_error"}
  BY DEF FailedStatus
<1>6. CASE job[p].result = "completed"
  BY <1>1, <1>3, <1>6 DEF Outcomes, Read
<1>7. CASE job[p].result = "deferred"
  BY <1>1, <1>2, <1>3, <1>7 DEF Outcomes, Read
<1>8. CASE job[p].result = "shutdown"
  BY <1>1, <1>3, <1>8 DEF Outcomes, Read
<1>9. CASE job[p].result \in {"error", "permanent"}
  <2>1. Outcomes(p) = {[dir.target EXCEPT !.status = s, !.failures = @ + 1] :
                         s \in FailedStatus(dir.target, job[p].result)}
    BY <1>9 DEF Outcomes, Read
  <2> SUFFICES ASSUME NEW c \in Outcomes(p) PROVE c \in Claim
    OBVIOUS
  <2>2. PICK s \in FailedStatus(dir.target, job[p].result) :
          c = [dir.target EXCEPT !.status = s, !.failures = @ + 1]
    BY <2>1, Zenon
  <2>3. s \in {"quarantined", "retryable_error"}
    BY <1>5
  <2> QED
    BY <1>1, <1>4, <2>2, <2>3
<1>10. job[p].result \in Results
  BY JobOf DEF Job
<1> QED
  BY <1>6, <1>7, <1>8, <1>9, <1>10 DEF Results

-----------------------------------------------------------------------------
(* withClaim and the completion of a claim *)

\* Starting a replacement of the claim file, which the holder alone does.
LEMMA WriteInv ==
  ASSUME ClaimInv, NEW p \in Proc, NEW j \in Job, NEW c \in Claim,
         job' = [job EXCEPT ![p] = j],
         job[p].at \in {"reading", "activating", "working"},
         j.at \in {"activating", "completing", "settling"},
         j.issue = job[p].issue,
         j.at = "activating" => c.origin = j.issue,
         j.at = "activating" /\ j.kind = "claim" => c = OwnRecord(j),
         File!Start("write", c), LeaseKept
  PROVE  ClaimInv'
<1>1. FileMove /\ op'.goal = "write" /\ op'.value = c
  BY StartMove
<1>2. phase[p] = "holding" /\ phase' = phase /\ [LeaseNext]_leaseVars
  BY JobOf DEF LeaseKept, leaseVars, AtPhase
<1>3. OwnClaim(j)'
  BY <1>1 DEF OwnClaim, OwnRecord
<1> QED
  BY <1>1, <1>2, <1>3, ProcessStep, JobOf DEF AtPhase

LEMMA TargetTyped ==
  ASSUME ClaimInv
  PROVE  Read \in Claim
BY DEF Read, ClaimInv, File!FileInv, File!FileTypeOK, File!Dir

LEMMA MovedWriteInv ==
  ASSUME ClaimInv, NEW p \in Proc, NEW at \in {"activating", "completing", "settling"},
         NEW c \in Claim, Write(p, at, c),
         job[p].at \in {"reading", "activating", "working"},
         at = "activating" => job[p].kind = "complete" /\ c.origin = job[p].issue
  PROVE  ClaimInv'
<1>1. PICK j : j = [job[p] EXCEPT !.at = at]
  OBVIOUS
<1>2. j \in Job /\ j.at = at /\ j.issue = job[p].issue /\ j.kind = job[p].kind
  BY <1>1, JobOf DEF Job, JobAt
<1>3. job' = [job EXCEPT ![p] = j]
  BY <1>1 DEF Write, Moves
<1> QED
  BY <1>2, <1>3, WriteInv DEF Write

LEMMA ActivateInv ==
  ASSUME ClaimInv, NEW p \in Proc, Activate(p)
  PROVE  ClaimInv'
<1>1. PICK c : c = [Read EXCEPT !.status = "active", !.attempt = @ + 1,
                                !.retry = job[p].retry, !.origin = job[p].issue]
  OBVIOUS
<1>2. PICK j : j = [job[p] EXCEPT !.at = "activating", !.base = Read]
  OBVIOUS
<1>3. job[p] \in Job /\ job[p].at = "reading" /\ job[p].issue \in Issue
  BY JobOf DEF Activate, Answered, Is
<1>4. PICK n \in Nat : n = Read.attempt + 1
  BY TargetTyped DEF Claim
<1>5. c \in Claim
  <2>1. c = [Read EXCEPT !.status = "active", !.attempt = n, !.retry = job[p].retry,
                         !.origin = job[p].issue]
    BY <1>1, <1>4
  <2>2. job[p].retry \in BOOLEAN
    BY <1>3 DEF Job
  <2> QED
    BY <2>1, <2>2, <1>3, TargetTyped DEF Claim
<1>6. /\ j \in Job /\ j.at = "activating" /\ j.issue = job[p].issue
      /\ j.base = Read /\ j.retry = job[p].retry
  BY <1>2, <1>3, TargetTyped DEF Job, JobAt
<1>7. c = OwnRecord(j) /\ c.origin = j.issue
  BY <1>1, <1>6, TargetTyped DEF OwnRecord, Claim
<1>8. job' = [job EXCEPT ![p] = j] /\ File!Start("write", c) /\ LeaseKept
  BY <1>1, <1>2, <1>3 DEF Activate, Job
<1> QED
  BY <1>3, <1>5, <1>6, <1>7, <1>8, WriteInv

\* The callback starts when the record is there to last.
LEMMA StartWorkInv ==
  ASSUME ClaimInv, NEW p \in Proc, StartWork(p)
  PROVE  ClaimInv'
<1>1. PICK j : j = [job[p] EXCEPT !.at = "working"]
  OBVIOUS
<1>2. job[p] \in Job /\ job[p].at = "activating" /\ job[p].issue \in Issue
      /\ phase[p] = "holding"
  BY JobOf DEF StartWork, Answered, Is, AtPhase
<1>3. j \in Job /\ j.at = "working" /\ j.issue \in Issue /\ OwnRecord(j) = OwnRecord(job[p])
  BY <1>1, <1>2 DEF Job, JobAt, OwnRecord
<1>4. job' = [job EXCEPT ![p] = j]
  BY <1>1 DEF StartWork, Moves
<1>5. op.goal = "write" /\ op.value = OwnRecord(job[p]) /\ op.step = "done"
  BY <1>2, JobOf DEF StartWork, Answered, OwnClaim
<1>6. File!Agreed /\ File!Lasting = OwnRecord(j) /\ Read = OwnRecord(j)
  BY <1>3, <1>5, FileDone DEF ClaimInv, Read
<1>7. OwnClaim(j)'
  <2>1. UNCHANGED <<dir, disk>>
    BY DEF StartWork, File!Finish
  <2> QED
    BY <1>3, <1>6, <2>1, QuietLasting DEF OwnClaim, OwnRecord
<1>8. FileMove /\ phase' = phase /\ [LeaseNext]_leaseVars
  BY DEF StartWork, LeaseKept, leaseVars, FileMove, File!FileNext
<1> QED
  BY <1>2, <1>3, <1>4, <1>7, <1>8, ProcessStep DEF AtPhase

LEMMA LeaveActiveInv ==
  ASSUME ClaimInv, NEW p \in Proc, LeaveActive(p)
  PROVE  ClaimInv'
<1>1. PICK j : j = [job[p] EXCEPT !.at = "leaving"]
  OBVIOUS
<1>2. j \in Job /\ j.at = "leaving" /\ j.issue \in Issue
  BY <1>1, JobOf DEF Job, JobAt, LeaveActive, Is
<1>3. job' = [job EXCEPT ![p] = j] /\ Deactivate(p) /\ UNCHANGED <<dir, disk, op>>
  BY <1>1 DEF LeaveActive, Moves, StopHolding, FileKept
<1> QED
  BY <1>2, <1>3, LeaseMoves, PlainStep, FileKeptMove DEF ClaimInv, AtPhase

LEMMA ClaimStepInv ==
  ASSUME ClaimInv, NEW p \in Proc, ClaimStep(p)
  PROVE  ClaimInv'
<1>1. ASSUME FileError(p) \/ RefuseClaim(p) \/ Settled(p) \/ NothingToComplete(p) \/ Completed(p)
      PROVE  ClaimInv'
  <2>1. job[p].result \in Results
    BY JobOf DEF Job
  <2>2. \E result \in Results : Stop(p, result)
    BY <1>1, <2>1
    DEF FileError, RefuseClaim, Settled, NothingToComplete, Completed, Results
  <2> QED
    BY <2>2, StopInv
<1>2. ASSUME SettleClaim(p) PROVE ClaimInv'
  <2>1. PICK c \in Outcomes(p) : Write(p, "settling", c)
    BY <1>2 DEF SettleClaim
  <2>2. c \in Claim
    BY <1>2, OutcomesTyped DEF SettleClaim
  <2> QED
    BY <1>2, <2>1, <2>2, MovedWriteInv DEF SettleClaim, Is
<1>3. ASSUME ActivateToComplete(p) PROVE ClaimInv'
  <2>1. PICK n \in Nat : n = Read.attempt + 1
    BY TargetTyped DEF Claim
  <2>2. [Read EXCEPT !.status = "active", !.attempt = n] \in Claim
    BY TargetTyped DEF Claim
  <2>3. Write(p, "activating", [Read EXCEPT !.status = "active", !.attempt = n])
    BY <1>3, <2>1 DEF ActivateToComplete
  <2>4. [Read EXCEPT !.status = "active", !.attempt = n].origin = job[p].issue
    BY <1>3, TargetTyped DEF ActivateToComplete, Claim
  <2> QED
    BY <1>3, <2>2, <2>3, <2>4, MovedWriteInv DEF ActivateToComplete, Answered, Is
<1>4. ASSUME Complete(p) PROVE ClaimInv'
  <2>1. [Read EXCEPT !.status = "completed"] \in Claim
    BY TargetTyped DEF Claim
  <2> QED
    BY <1>4, <2>1, MovedWriteInv DEF Complete, Answered, Is
<1> QED
  BY <1>1, <1>2, <1>3, <1>4, ClearLeaseInv, RefuseLeaseInv, EnterLeaseInv,
     LeaveInstructionInv, OrphanExitsInv, OnFileInv, ActivateInv, StartWorkInv, LeaveActiveInv
  DEF ClaimStep

-----------------------------------------------------------------------------
(* Crashes *)

LEMMA FileCrashMove ==
  ASSUME File!FileCrash
  PROVE  FileMove /\ UNCHANGED <<dir, disk>>
BY DEF FileMove, File!FileNext, File!FileCrash

LEMMA CrashClaimInv ==
  ASSUME ClaimInv, NEW p \in Proc, CrashClaim(p)
  PROVE  ClaimInv'
<1>1. CASE Busy(p)
  <2>1. phase[p] = "holding"
    BY <1>1, JobOf DEF Busy, AtPhase
  <2> QED
    BY <1>1, <2>1, LeaseMoves, EndsInv, FileCrashMove DEF CrashClaim, ClaimInv
<1>2. CASE ~Busy(p)
  BY <1>2, LeaseMoves, EndsInv, FileKeptMove DEF CrashClaim, ClaimInv, FileKept
<1> QED
  BY <1>1, <1>2

LEMMA LosePowerInv ==
  ASSUME ClaimInv, LosePower
  PROVE  ClaimInv'
<1>1. LeaseInv'
  BY LeaseStepInv DEF ClaimInv, LosePower, LeaseNext
<1>2. File!FileInv'
  BY FileStepKeeps DEF ClaimInv, LosePower, FileMove, File!FileNext
<1>3. \A p \in Proc : job'[p] = NoJob /\ phase'[p] = "out"
  BY DEF LosePower, LeasePowerLoss
<1>4. JobTyped'
  BY <1>3, NoJobTyped DEF JobTyped, LosePower
<1>5. Coupled' /\ Activated'
  BY <1>3, NoJobTyped DEF Coupled, AtPhase, Activated, OwnClaim
<1> QED
  BY <1>1, <1>2, <1>4, <1>5 DEF ClaimInv
=============================================================================

------------------------------ MODULE QueueClaim ------------------------------
(***************************************************************************)
(* The repository-wide claim ledger of the agent orchestrator: a process   *)
(* works on an issue under that issue's lease, and on an instruction under *)
(* the instruction's lease and an active record in its durable claim file. *)
(* One instruction is followed, whose control several issues may carry.    *)
(*                                                                         *)
(* The instruction's lease is FileLease and its claim file DurableFile;    *)
(* the lease of an issue is the same code and appears as its holder only.  *)
(* The token, the pid, the digests and the times of a record are left out, *)
(* so a backoff may always be found running or over; the origin's url,     *)
(* records written before failure histories existed, and the inspection of *)
(* claims for a supersession are not modelled.                             *)
(***************************************************************************)
EXTENDS Naturals, FileLease

CONSTANTS
  Issue,
  NoIssue,        \* the origin of the missing record
  FailureLimit,   \* watcherV2MaximumClaimFailures
  MaxAttempts     \* bound: how often the instruction is claimed

ASSUME NoIssueDiffers == NoIssue \notin Issue

VARIABLES
  dir, disk, op,  \* the claim file
  issueHolder,    \* whose lease an issue is under
  job             \* what a process is doing

claimVars == <<marker, guard, phase, dir, disk, op, issueHolder, job>>

Claim == [status: {"missing", "active", "released", "retryable_error", "quarantined", "completed"},
          attempt: Nat,
          retry: BOOLEAN,      \* holds the one retry authorization there is
          failures: Nat,       \* the length of failureHistory
          origin: Issue \cup {NoIssue}]

NoClaim == [status |-> "missing", attempt |-> 0, retry |-> FALSE, failures |-> 0,
            origin |-> NoIssue]

-----------------------------------------------------------------------------
(* validQueueTransaction *)

FirstClaim(s) == s.status = "active" /\ s.attempt = 1 /\ s.failures = 0

Reclaim(c, s) ==
  /\ s.status = "active"
  /\ s.attempt = c.attempt + 1
  /\ IF c.status = "completed" THEN ~c.retry /\ s.retry ELSE s.retry = c.retry

Quarantine(c, s) ==
  /\ s.status = "quarantined"
  /\ c.status \in {"active", "retryable_error", "released"}
  /\ s.attempt = c.attempt

\* A retry that did not finish gives the completed record back.
Restore(c, s) ==
  /\ c.status = "active"
  /\ s.status = "completed"
  /\ c.retry
  /\ ~s.retry
  /\ s.attempt + 1 = c.attempt

Settle(c, s) ==
  /\ c.status = "active"
  /\ s.status \in {"released", "retryable_error", "completed"}
  /\ s.attempt = c.attempt
  /\ s.retry = c.retry

validQueueTransaction(c, s) ==
  IF c.status = "missing"
    THEN FirstClaim(s)
    ELSE /\ s.origin = c.origin
         /\ s.failures >= c.failures
         /\ Reclaim(c, s) \/ Quarantine(c, s) \/ Restore(c, s) \/ Settle(c, s)

File == INSTANCE DurableFile WITH
          Value <- Claim, First <- NoClaim, Lawful <- validQueueTransaction

-----------------------------------------------------------------------------
NoJob == [at |-> "idle", kind |-> "claim", issue |-> NoIssue, retry |-> FALSE,
          base |-> NoClaim, result |-> "none"]

JobAt == {"idle", "fetched", "issued", "selecting", "claiming", "reading", "activating",
          "working", "completing", "settling", "leaving"}

Results == {"none", "completed", "deferred", "shutdown", "error", "permanent", "commit_pending"}

Job == [at: JobAt, kind: {"claim", "complete"}, issue: Issue \cup {NoIssue},
        retry: BOOLEAN, base: Claim, result: Results]

ClaimTypeOK ==
  /\ LeaseTypeOK
  /\ File!FileTypeOK
  /\ issueHolder \in [Issue -> Proc \cup {NoOne}]
  /\ job \in [Proc -> Job]

ClaimInit ==
  /\ LeaseInit
  /\ File!FileInit
  /\ issueHolder = [i \in Issue |-> NoOne]
  /\ job = [p \in Proc |-> NoJob]

Is(p, at) == job[p].at = at
Moves(p, at) == job' = [job EXCEPT ![p].at = at]

\* Another step than the file's, the lease's or a cycle's.
FileKept == UNCHANGED <<dir, disk, op>>
LeaseKept == UNCHANGED leaseVars

-----------------------------------------------------------------------------
(* withIssueClaim *)

TakeIssue(p, i, at) ==
  /\ issueHolder[i] = NoOne
  /\ issueHolder' = [issueHolder EXCEPT ![i] = p]
  /\ job' = [job EXCEPT ![p] = [NoJob EXCEPT !.at = at, !.issue = i]]

ReleaseIssue(p) ==
  /\ issueHolder' = [i \in Issue |-> IF issueHolder[i] = p THEN NoOne ELSE issueHolder[i]]
  /\ job' = [job EXCEPT ![p] = NoJob]

-----------------------------------------------------------------------------
(* The instruction's lease, for withClaim and for the completion of a claim *)

Ask(p, kind, retry) ==
  /\ TakeGuard(p)
  /\ job' = [job EXCEPT ![p].at = "claiming", ![p].kind = kind, ![p].retry = retry]

ClearLease(p) ==
  /\ Is(p, "claiming")
  /\ Clear(p)
  /\ FileKept
  /\ UNCHANGED <<issueHolder, job>>

\* instruction_busy or instruction_lease_owner_ambiguous: the cycle ends.
RefuseLease(p) ==
  /\ Is(p, "claiming")
  /\ Refuse(p)
  /\ ReleaseIssue(p)
  /\ FileKept

FailLease(p) ==
  /\ Is(p, "claiming")
  /\ AbandonEntry(p)
  /\ ReleaseIssue(p)
  /\ FileKept

EnterLease(p) ==
  /\ Is(p, "claiming")
  /\ Enter(p)
  /\ File!Start("read", NoClaim)
  /\ Moves(p, "reading")
  /\ UNCHANGED issueHolder

\* The lease is released whatever happened; an error ends the cycle with it.
StopHolding(p) ==
  /\ Deactivate(p)
  /\ UNCHANGED issueHolder

LeaveInstruction(p) ==
  /\ Is(p, "leaving")
  /\ Leave(p)
  /\ IF job[p].kind = "complete" /\ job[p].result = "none"
       THEN Moves(p, "selecting") /\ UNCHANGED issueHolder
       ELSE ReleaseIssue(p)
  /\ FileKept

-----------------------------------------------------------------------------
(* The claim file, one operation at a time *)

Busy(p) == job[p].at \in {"reading", "activating", "completing", "settling"}

StepFile(p) ==
  /\ Busy(p)
  /\ File!FileStep
  /\ LeaseKept
  /\ UNCHANGED <<issueHolder, job>>

FailFile(p) ==
  /\ Busy(p)
  /\ File!FileFault
  /\ LeaseKept
  /\ UNCHANGED <<issueHolder, job>>

Answered(p, at) == Is(p, at) /\ op.step = "done"

Read == dir.target

Write(p, at, c) ==
  /\ File!Start("write", c)
  /\ Moves(p, at)
  /\ LeaseKept
  /\ UNCHANGED issueHolder

Stop(p, result) ==
  /\ File!Finish
  /\ job' = [job EXCEPT ![p].at = "leaving", ![p].result = result]
  /\ StopHolding(p)

\* An error of the file passes through; after the callback it is the last word.
FileError(p) ==
  /\ Busy(p)
  /\ op.step \in {"failed", "pending"}
  /\ Stop(p, "error")

-----------------------------------------------------------------------------
(* withClaim *)

Refused(p) ==
  LET c == Read IN
  \/ c # NoClaim /\ c.origin # job[p].issue              \* duplicate_instruction_origin
  \/ c.status = "completed" /\ (job[p].retry => c.retry) \* already_consumed
  \/ c.retry /\ ~job[p].retry                            \* retry_authorization_conflict
  \/ c.status = "quarantined"

RefuseClaim(p) ==
  /\ Answered(p, "reading")
  /\ job[p].kind = "claim"
  /\ \/ Refused(p)
     \/ Read.status = "retryable_error"                   \* its backoff runs
     \/ Read.attempt = MaxAttempts
  /\ Stop(p, "deferred")

Activate(p) ==
  /\ Answered(p, "reading")
  /\ job[p].kind = "claim"
  /\ ~Refused(p)
  /\ Read.attempt < MaxAttempts
  /\ File!Start("write", [Read EXCEPT !.status = "active", !.attempt = @ + 1,
                                     !.retry = job[p].retry, !.origin = job[p].issue])
  /\ job' = [job EXCEPT ![p].at = "activating", ![p].base = Read]
  /\ LeaseKept
  /\ UNCHANGED issueHolder

\* Mutant: a commit that is pending counts as done.
StartWorkPending(p) ==
  /\ Is(p, "activating")
  /\ op.step \in {"done", "pending"}
  /\ job[p].kind = "claim"
  /\ File!Finish
  /\ Moves(p, "working")
  /\ LeaseKept
  /\ UNCHANGED issueHolder
StartWork(p) ==
  /\ Answered(p, "activating")
  /\ job[p].kind = "claim"
  /\ File!Finish
  /\ Moves(p, "working")
  /\ LeaseKept
  /\ UNCHANGED issueHolder

\* watcherV2QueueFailureDecision: failures older than a day no longer count.
FailedStatus(c, result) ==
  IF result = "permanent" THEN {"quarantined"}
  ELSE IF c.failures + 1 >= FailureLimit THEN {"quarantined", "retryable_error"}
  ELSE {"retryable_error"}

\* Mutant: every value the callback returns completes the claim.
OutcomesCompleted(p) == {[Read EXCEPT !.status = "completed"]}
Outcomes(p) ==
  LET c == Read
      result == job[p].result
  IN CASE result = "completed" -> {[c EXCEPT !.status = "completed"]}
       [] result = "deferred" ->
            {IF job[p].base.status = "completed" /\ job[p].retry
               THEN job[p].base
               ELSE [c EXCEPT !.status = "released"]}
       [] result = "shutdown" -> {[c EXCEPT !.status = "released"]}
       [] result \in {"error", "permanent"} ->
            {[c EXCEPT !.status = s, !.failures = @ + 1] : s \in FailedStatus(c, result)}

\* The callback has returned or thrown.
SettleClaim(p) ==
  /\ Is(p, "working")
  /\ job[p].result \notin {"none", "commit_pending"}
  /\ \E c \in Outcomes(p) : Write(p, "settling", c)

\* A task state whose commit is pending leaves the claim active.
LeaveActive(p) ==
  /\ Is(p, "working")
  /\ job[p].result = "commit_pending"
  /\ Moves(p, "leaving")
  /\ StopHolding(p)
  /\ FileKept

Settled(p) ==
  /\ Answered(p, "settling")
  /\ Stop(p, job[p].result)

-----------------------------------------------------------------------------
(* completeClaimFromDurableTerminalResult *)

NothingToComplete(p) ==
  /\ Answered(p, "reading")
  /\ job[p].kind = "complete"
  /\ Read = NoClaim \/ (Read.origin = job[p].issue /\ Read.status = "completed")
  /\ Stop(p, "none")

ActivateToComplete(p) ==
  /\ Answered(p, "reading")
  /\ job[p].kind = "complete"
  /\ Read.origin = job[p].issue
  /\ Read.status # "completed"
  /\ Write(p, "activating", [Read EXCEPT !.status = "active", !.attempt = @ + 1])

Complete(p) ==
  /\ Answered(p, "activating")
  /\ job[p].kind = "complete"
  /\ Write(p, "completing", [Read EXCEPT !.status = "completed"])

Completed(p) ==
  /\ Answered(p, "completing")
  /\ Stop(p, "none")

-----------------------------------------------------------------------------
(* Crashes *)

\* The process dies with its leases; its claim file stays as it is.
CrashClaim(p) ==
  /\ ~Is(p, "idle")
  /\ LeaseCrash(p)
  /\ IF Busy(p) THEN File!FileCrash ELSE FileKept
  /\ ReleaseIssue(p)

LosePower ==
  /\ LeasePowerLoss
  /\ File!FilePowerLoss
  /\ issueHolder' = [i \in Issue |-> NoOne]
  /\ job' = [p \in Proc |-> NoJob]

OrphanExits(p) ==
  /\ HelperExits(p)
  /\ FileKept
  /\ UNCHANGED <<issueHolder, job>>

ClaimStep(p) ==
  \/ ClearLease(p) \/ RefuseLease(p) \/ EnterLease(p) \/ LeaveInstruction(p) \/ OrphanExits(p)
  \/ StepFile(p) \/ FileError(p)
  \/ RefuseClaim(p) \/ Activate(p) \/ StartWork(p) \/ SettleClaim(p) \/ LeaveActive(p)
  \/ Settled(p)
  \/ NothingToComplete(p) \/ ActivateToComplete(p) \/ Complete(p) \/ Completed(p)
=============================================================================

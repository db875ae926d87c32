------------------------------ MODULE TaskRunner ------------------------------
(***************************************************************************)
(* What the watcher does with an instruction: it reads an issue, claims    *)
(* the instruction found there (QueueClaim), and under the claim starts a  *)
(* turn at the app server, waits for it, writes a result packet, posts it  *)
(* as a comment and records the run.  Every step first saves the state of  *)
(* the task, and a process that takes the work over starts from that state.*)
(*                                                                         *)
(* A save is the durable replacement of DurableFile, in one step: done,    *)
(* failed, or left pending.  A post is sent through the app server, which  *)
(* forgets it when it times out: given up by its caller, or left by one    *)
(* that died, it may still land at any time.  Owner gates, checkpoints,    *)
(* supersession, closeout, quarantine records, notifications, pickup       *)
(* comments, several controls on an issue, and the number of retries of a  *)
(* turn are left out; so is the early return on an unchanged issue, a      *)
(* cycle not taken.  The lease of an issue is modelled by its holder       *)
(* alone: it is FileLease again, for which QueueClaim shows what it takes. *)
(***************************************************************************)
EXTENDS QueueClaim, Sequences

CONSTANTS
  Leased,      \* issues that are read under their lease: issueReadMustBeLeased
  MaxTurns,    \* max_turns
  MaxFaults    \* bound: crashes, failures, shutdowns and posts given up

ASSUME LeasedAreIssues == Leased \subseteq Issue
ASSUME BoundsAreNatural == MaxTurns \in Nat /\ MaxFaults \in Nat

VARIABLES
  task,     \* the saved state of an issue's task
  server,   \* the status at the app server of the turn the task names
  posted,   \* the result packets among an issue's comments
  late,     \* how often a packet was sent by a caller that no longer waits, to land yet
  landed,   \* history: which comments came of those
  mem,      \* what a process remembers of its cycle
  faults

vars == <<claimVars, task, server, posted, late, landed, mem, faults>>

Final == {"settled", "terminal"}     \* terminal: a failure or an interruption for good
Packet == [life: 1..2, outcome: Final]

TaskPhases == {"none", "selected", "thread_ready", "turn_started", "turn_completed",
            "owner_stopped", "result_pending"}
Task == [phase: TaskPhases,
         outcome: Final \cup {"none", "retry"},   \* of its turn, or of its packet
         runs: Seq(Final),
         retry: BOOLEAN,                          \* in retryInstructionIds
         turns: 0..MaxTurns,
         observed: Nat]                           \* lastObservedIssueUpdatedAt

NewTask == [phase |-> "none", outcome |-> "none", runs |-> <<>>, retry |-> FALSE,
            turns |-> 0, observed |-> 0]

Stages == {"load", "thread", "recover", "turn", "note", "await", "pack", "publish",
           "sent", "record", "observe"}
NoMem == [seen |-> 0, stage |-> "load"]

TypeOK ==
  /\ ClaimTypeOK
  /\ task \in [Issue -> Task]
  /\ server \in [Issue -> {"none", "running", "completed", "failed", "interrupted"}]
  /\ posted \in [Issue -> Seq(Packet)]
  /\ late \in [Issue -> [Packet -> Nat]]
  /\ landed \in [Issue -> SUBSET Nat]
  /\ mem \in [Proc -> [seen: Nat, stage: Stages]]
  /\ faults \in 0..MaxFaults

Init ==
  /\ ClaimInit
  /\ task = [i \in Issue |-> NewTask]
  /\ server = [i \in Issue |-> "none"]
  /\ posted = [i \in Issue |-> <<>>]
  /\ late = [i \in Issue |-> [k \in Packet |-> 0]]
  /\ landed = [i \in Issue |-> {}]
  /\ mem = [p \in Proc |-> NoMem]
  /\ faults = 0

-----------------------------------------------------------------------------
IssueOf(p) == job[p].issue
TaskOf(p) == task[IssueOf(p)]
ThisPacket(p) == [life |-> Len(TaskOf(p).runs) + 1, outcome |-> TaskOf(p).outcome]
Comments(p) == SubSeq(posted[IssueOf(p)], 1, mem[p].seen)

Fault == faults < MaxFaults /\ faults' = faults + 1
NoFault == UNCHANGED faults

\* A cycle ends where its lease on the issue does.
Forget == mem' = [p \in Proc |-> IF job'[p].at = "idle" THEN NoMem ELSE mem[p]]

\* Whoever waits for the answer to a post and stops waiting leaves the post
\* behind: AppServer.request drops the entry and cancels nothing.
GivesUp(p, i, packet) ==
  /\ mem[p].stage = "sent" /\ mem'[p].stage # "sent"
  /\ IssueOf(p) = i /\ ThisPacket(p) = packet

LeaveSent ==
  late' = [i \in Issue |-> [k \in Packet |->
             IF \E p \in Proc : GivesUp(p, i, k) THEN late[i][k] + 1 ELSE late[i][k]]]

-----------------------------------------------------------------------------
(* runRepositoryIssue up to the claim *)

\* preClaimTask: the version of an issue is the number of its comments.
Fetch(p, i) ==
  /\ Is(p, "idle")
  /\ i \notin Leased
  /\ job' = [job EXCEPT ![p].at = "fetched", ![p].issue = i]
  /\ mem' = [mem EXCEPT ![p].seen = Len(posted[i])]
  /\ LeaseKept /\ FileKept /\ NoFault
  /\ UNCHANGED <<issueHolder, task, server, posted, late, landed>>

OpenIssue(p, i) ==
  /\ \/ i \in Leased /\ Is(p, "idle") /\ mem' = [mem EXCEPT ![p].seen = Len(posted[i])]
     \/ Is(p, "fetched") /\ IssueOf(p) = i /\ UNCHANGED mem
  /\ TakeIssue(p, i, "issued")
  /\ LeaseKept /\ FileKept /\ NoFault
  /\ UNCHANGED <<task, server, posted, late, landed>>

\* Another process has the issue or the instruction's guard, the observation is
\* stale, or terminalDurableResultRun finds two runs.
EndCycle(p) ==
  /\ \/ Is(p, "fetched") /\ issueHolder[IssueOf(p)] # NoOne
     \/ Is(p, "issued") /\ mem[p].seen < TaskOf(p).observed
     \/ Is(p, "issued") /\ TaskOf(p).phase = "none" /\ Len(TaskOf(p).runs) > 1
     \/ job[p].at \in {"issued", "selecting"} /\ guard # NoOne
  /\ ReleaseIssue(p)
  /\ Forget
  /\ LeaseKept /\ FileKept /\ NoFault
  /\ UNCHANGED <<task, server, posted, late, landed>>

Current(p) == Is(p, "issued") /\ mem[p].seen >= TaskOf(p).observed
TerminalRun(p) == TaskOf(p).phase = "none" /\ TaskOf(p).runs = <<"terminal">>
Ready(p) ==
  \/ Is(p, "selecting")
  \/ Current(p) /\ (TaskOf(p).phase # "none" \/ TaskOf(p).runs \in {<<>>, <<"settled">>})

\* reconcileTerminalFailureQueueCompletion
AskToComplete(p) ==
  /\ Current(p)
  /\ TerminalRun(p)
  /\ Ask(p, "complete", FALSE)
  /\ FileKept /\ NoFault
  /\ UNCHANGED <<issueHolder, task, server, posted, late, landed, mem>>

\* durableTaskInstructionDecision: an instruction begun is taken up again; one
\* that ran, or whose result is among the comments, needs a retry.
Selected(p) ==
  \/ TaskOf(p).phase # "none"
  \/ TaskOf(p).retry
  \/ TaskOf(p).runs = <<>> /\ Comments(p) = <<>>

AskToClaim(p) ==
  /\ Ready(p)
  /\ Selected(p)
  /\ Ask(p, "claim", TaskOf(p).retry)
  /\ FileKept /\ NoFault
  /\ UNCHANGED <<issueHolder, task, server, posted, late, landed, mem>>

NothingSelected(p) ==
  /\ Ready(p)
  /\ ~Selected(p)
  /\ task' = [task EXCEPT ![IssueOf(p)].observed = mem[p].seen]
  /\ ReleaseIssue(p)
  /\ Forget
  /\ LeaseKept /\ FileKept /\ NoFault
  /\ UNCHANGED <<server, posted, late, landed>>

-----------------------------------------------------------------------------
(* The callback: runOnce and the observation that follows it *)

At(p, stage) == Is(p, "working") /\ job[p].result = "none" /\ mem[p].stage = stage

ClaimKept == LeaseKept /\ FileKept /\ UNCHANGED issueHolder

Move(p, stage) == mem' = [mem EXCEPT ![p].stage = stage] /\ UNCHANGED job

Return(p, result) ==
  /\ job' = [job EXCEPT ![p].result = result]
  /\ mem' = [mem EXCEPT ![p].stage = "load"]

\* A save that fails ends the callback; one left pending may or may not last.
Save(p, new, next) ==
  LET saved == [task EXCEPT ![IssueOf(p)] = new] IN
  /\ \/ task' = saved /\ next /\ NoFault
     \/ task' = task /\ Return(p, "error") /\ Fault
     \/ task' \in {task, saved} /\ Return(p, "commit_pending") /\ Fault
  /\ ClaimKept

SaveAndMove(p, new, stage) == Save(p, new, Move(p, stage)) /\ UNCHANGED <<server, posted, late, landed>>

\* beginInstruction
Begin(p) ==
  /\ At(p, "load")
  /\ TaskOf(p).phase = "none"
  /\ SaveAndMove(p, [TaskOf(p) EXCEPT !.phase = "selected", !.retry = FALSE], "thread")

Resume(p) ==
  /\ At(p, "load")
  /\ TaskOf(p).phase # "none"
  /\ Move(p, CASE TaskOf(p).phase = "result_pending" -> "publish"
               [] TaskOf(p).phase = "owner_stopped" -> "pack"
               [] TaskOf(p).phase = "turn_started" -> "recover"
               [] OTHER -> "thread")
  /\ ClaimKept /\ NoFault
  /\ UNCHANGED <<task, server, posted, late, landed>>

\* ensureTaskThread, and for a turn that failed prepareAppServerFailureRetry
Thread(p) ==
  /\ At(p, "thread")
  /\ \/ /\ TaskOf(p).phase \in {"selected", "thread_ready"} \/ TaskOf(p).outcome = "retry"
        /\ SaveAndMove(p, [TaskOf(p) EXCEPT !.phase = "thread_ready", !.outcome = "none"], "turn")
     \/ /\ TaskOf(p).phase = "turn_completed"      \* for good, or after the last retry
        /\ Move(p, "pack")
        /\ ClaimKept /\ NoFault
        /\ UNCHANGED <<task, server, posted, late, landed>>

TurnCompleted(p, outcome) == [TaskOf(p) EXCEPT !.phase = "turn_completed", !.outcome = outcome]

\* recordCompletedTurnResult
SaveResult(p, outcome) ==
  SaveAndMove(p, TurnCompleted(p, outcome), IF outcome = "retry" THEN "thread" ELSE "pack")

\* Mutant: max_turns is not asked.
StartTurnAnyway(p) ==
  /\ At(p, "turn")
  /\ Move(p, "note")
  /\ ClaimKept /\ NoFault
  /\ UNCHANGED <<task, server, posted, late, landed>>
StartTurn(p) ==
  /\ At(p, "turn")
  /\ TaskOf(p).turns < MaxTurns
  /\ Move(p, "note")
  /\ ClaimKept /\ NoFault
  /\ UNCHANGED <<task, server, posted, late, landed>>

NoTurnLeft(p) ==
  /\ At(p, "turn")
  /\ TaskOf(p).turns = MaxTurns
  /\ SaveResult(p, "settled")

\* onTurnStarted: the task names the turn.
NoteTurn(p) ==
  /\ At(p, "note")
  /\ Save(p, [TaskOf(p) EXCEPT !.phase = "turn_started", !.turns = @ + 1], Move(p, "await"))
  /\ server' = [server EXCEPT ![IssueOf(p)] =
                  IF task'[IssueOf(p)] = TaskOf(p) THEN @ ELSE "running"]
  /\ UNCHANGED <<posted, late, landed>>

TurnEnds(i) ==
  /\ server[i] = "running"
  /\ \E status \in {"completed", "failed", "interrupted"} :
       server' = [server EXCEPT ![i] = status]
  /\ UNCHANGED <<claimVars, task, posted, late, landed, mem, faults>>

ServerSays(p, status) == server[IssueOf(p)] = status

Await(p) ==
  /\ At(p, "await")
  /\ \/ ServerSays(p, "completed") /\ SaveResult(p, "settled")
     \/ ServerSays(p, "failed") /\ \E outcome \in {"retry", "terminal"} : SaveResult(p, outcome)
     \/ ServerSays(p, "interrupted") /\ SaveResult(p, "settled")      \* timed out, or too often
     \/ /\ ServerSays(p, "interrupted")
        /\ Move(p, "turn")
        /\ ClaimKept /\ NoFault
        /\ UNCHANGED <<task, server, posted, late, landed>>

OwnerStop(p) ==
  /\ At(p, "await")
  /\ ServerSays(p, "running")
  /\ SaveAndMove(p, [TaskOf(p) EXCEPT !.phase = "owner_stopped", !.outcome = "settled"], "pack")

\* Mutant: the status of a turn left behind is not asked.
RecoverAtOnce(p) ==
  /\ At(p, "recover")
  /\ SaveAndMove(p, [TaskOf(p) EXCEPT !.phase = "thread_ready"], "turn")
\* A turn that was started by a process that died.
Recover(p) ==
  /\ At(p, "recover")
  /\ \/ ServerSays(p, "completed") /\ SaveResult(p, "settled")
     \/ ServerSays(p, "failed") /\ \E outcome \in {"retry", "terminal"} : SaveResult(p, outcome)
     \/ /\ ServerSays(p, "interrupted")
        /\ SaveAndMove(p, [TaskOf(p) EXCEPT !.phase = "thread_ready"], "turn")
     \/ ServerSays(p, "interrupted") /\ SaveResult(p, "terminal")     \* amid a command
     \/ /\ ServerSays(p, "running")
        /\ \E result \in {"deferred", "error"} : Return(p, result)    \* young, or timed out
        /\ ClaimKept /\ NoFault
        /\ UNCHANGED <<task, server, posted, late, landed>>

\* #packetFromWorkspace, and the first save of #completeInstruction
Pack(p) ==
  /\ At(p, "pack")
  /\ SaveAndMove(p, [TaskOf(p) EXCEPT !.phase = "result_pending",
                                      !.outcome = IF @ = "terminal" THEN @ ELSE "settled"],
                 "publish")

\* agentResultPublicationDecision
\* Mutants: the comments are not looked at; any result is taken for this packet.
NeverPublished(p) == TRUE
AnyPublished(p) == Comments(p) # <<>>
Unpublished(p) == Comments(p) = <<>>
Published(p) == Comments(p) = <<ThisPacket(p)>>

Post(p) ==
  /\ At(p, "publish")
  /\ Unpublished(p)
  /\ Move(p, "sent")
  /\ ClaimKept /\ NoFault
  /\ UNCHANGED <<task, server, posted, late, landed>>

\* The comment is there; that its answer is lost is Fail.
Land(p) ==
  /\ At(p, "sent")
  /\ posted' = [posted EXCEPT ![IssueOf(p)] = Append(@, ThisPacket(p))]
  /\ Move(p, "record")
  /\ ClaimKept /\ NoFault
  /\ UNCHANGED <<task, server, late, landed>>

LandLate(i) ==
  /\ \E packet \in Packet :
       /\ late[i][packet] > 0
       /\ late' = [late EXCEPT ![i][packet] = @ - 1]
       /\ posted' = [posted EXCEPT ![i] = Append(@, packet)]
  /\ landed' = [landed EXCEPT ![i] = @ \cup {Len(posted[i]) + 1}]
  /\ UNCHANGED <<claimVars, task, server, mem, faults>>

PostedBefore(p) ==
  /\ At(p, "publish")
  /\ ~Unpublished(p)
  /\ IF Published(p) THEN Move(p, "record") ELSE Return(p, "error")
  /\ ClaimKept /\ NoFault
  /\ UNCHANGED <<task, server, posted, late, landed>>

Record(p) ==
  /\ At(p, "record")
  /\ Save(p, [TaskOf(p) EXCEPT !.phase = "none", !.outcome = "none",
                               !.runs = Append(@, TaskOf(p).outcome)],
          Move(p, "observe"))
  /\ server' = [server EXCEPT ![IssueOf(p)] = IF task'[IssueOf(p)] = TaskOf(p) THEN @ ELSE "none"]
  /\ UNCHANGED <<posted, late, landed>>

Observe(p) ==
  /\ At(p, "observe")
  /\ Save(p, [TaskOf(p) EXCEPT !.observed = mem[p].seen], Return(p, "completed"))
  /\ UNCHANGED <<server, posted, late, landed>>

\* The watcher is told to stop: before the work, before a turn, or during one.
Shutdown(p) ==
  /\ At(p, "load") \/ At(p, "turn") \/ At(p, "await")
  /\ Return(p, "shutdown")
  /\ ClaimKept /\ Fault
  /\ UNCHANGED <<task, server, posted, late, landed>>

\* GitHub, the workspace or the app server fails, or a post times out.
Fail(p) ==
  /\ Is(p, "working")
  /\ job[p].result = "none"
  /\ \E result \in {"error", "permanent"} : Return(p, result)
  /\ LeaveSent
  /\ ClaimKept /\ Fault
  /\ UNCHANGED <<task, server, posted, landed>>

-----------------------------------------------------------------------------
(* Around the watcher *)

\* Somebody marks an instruction that ran for one retry, and no program does.
AllowRetry(i) ==
  /\ task[i].phase = "none"
  /\ Len(task[i].runs) = 1
  /\ issueHolder[i] = NoOne
  /\ task' = [task EXCEPT ![i].retry = TRUE]
  /\ UNCHANGED <<claimVars, server, posted, late, landed, mem, faults>>

ClaimWork(p) ==
  /\ ClaimStep(p)
  /\ Forget /\ NoFault
  /\ UNCHANGED <<task, server, posted, late, landed>>

ClaimFault(p) ==
  /\ FailLease(p) \/ FailFile(p) \/ CrashClaim(p)
  /\ Forget /\ LeaveSent /\ Fault
  /\ UNCHANGED <<task, server, posted, landed>>

PowerFault ==
  /\ LosePower
  /\ Forget /\ LeaveSent /\ Fault
  /\ UNCHANGED <<task, server, posted, landed>>

Work(p) ==
  \/ Begin(p) \/ Resume(p) \/ Thread(p) \/ StartTurn(p) \/ NoTurnLeft(p) \/ NoteTurn(p)
  \/ Await(p) \/ OwnerStop(p) \/ Recover(p) \/ Pack(p) \/ Post(p) \/ Land(p)
  \/ PostedBefore(p) \/ Record(p) \/ Observe(p) \/ Shutdown(p) \/ Fail(p)

Next ==
  \/ \E p \in Proc, i \in Issue : Fetch(p, i) \/ OpenIssue(p, i)
  \/ \E p \in Proc :
       \/ EndCycle(p) \/ AskToComplete(p) \/ AskToClaim(p) \/ NothingSelected(p)
       \/ Work(p) \/ ClaimWork(p) \/ ClaimFault(p)
  \/ \E i \in Issue : TurnEnds(i) \/ AllowRetry(i) \/ LandLate(i)
  \/ PowerFault

Spec == Init /\ [][Next]_vars
-----------------------------------------------------------------------------
(* Properties *)

\* Whatever the directory holds after a loss of power, an instruction that was
\* begun under one issue is claimed for it: withClaim and durableAtomicWriteFile.
OneOrigin ==
  \A i \in Issue :
    task[i].phase # "none" \/ task[i].runs # <<>> \/ posted[i] # <<>>
      => \A d \in disk : File!Logical(d).origin = i

\* A process in the callback of withClaim has its own active record behind it,
\* for good: nobody claims the instruction next to it.
WorkIsClaimed ==
  \A p \in Proc : Is(p, "working") =>
    File!Lasting = [job[p].base EXCEPT !.status = "active", !.attempt = @ + 1,
                                       !.retry = job[p].retry, !.origin = IssueOf(p)]

\* The claim file is one record that only moves along validQueueTransaction, and
\* that no crash takes back (the refinement of AtomicRecord by DurableFile).
KeepsLedger == File!KeepsRecord

\* A claim is completed for an instruction that ran.
CompletedRan ==
  File!Lasting.status = "completed" => task[File!Lasting.origin].runs # <<>>

\* A packet is not posted twice, posts left aside that landed when their caller
\* had given them up.
PostedOnceOn(i) ==
  \A a, b \in DOMAIN posted[i] \ landed[i] : posted[i][a] = posted[i][b] => a = b

\* Of the posts that landed while somebody waited for them, answered or not, a
\* packet has one, through crashes, takeovers and posts that land in between,
\* on the issues that are read under their lease: #completeInstruction.
LeasedPostedOnce == \A i \in Leased : PostedOnceOn(i)

\* CONTROL_PLANE.md says it of every issue.
ResultPostedOnce == \A i \in Issue : PostedOnceOn(i)

\* And it says it of every post: a result is not among the comments twice, not
\* even under the lease.
NoResultTwice ==
  \A i \in Leased : \A a, b \in DOMAIN posted[i] : posted[i][a] = posted[i][b] => a = b

\* What the task records of a run is what was published of it.
RunsPublished ==
  \A i \in Issue : \A n \in DOMAIN task[i].runs :
    \E m \in DOMAIN posted[i] : posted[i][m] = [life |-> n, outcome |-> task[i].runs[n]]

\* No turn is started while the one its task names still runs, by whichever
\* process started that: the recovery of a turn in runOnce.
NoTurnOverlap ==
  [][\A p \in Proc : At(p, "turn") /\ At(p, "note")' => ~ServerSays(p, "running")]_vars
=============================================================================

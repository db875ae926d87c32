-------------------------- MODULE TaskRunner_proofs --------------------------
(***************************************************************************)
(* The whole of the watcher: what its specification keeps, for every set   *)
(* of processes and issues and through any number of faults.               *)
(***************************************************************************)
EXTENDS TaskRunner, QueueClaim_proofs, TLAPS

-----------------------------------------------------------------------------
(* The inductive invariant *)

Outcome == Final \cup {"none", "retry"}
TaskShape == [phase: TaskPhases, outcome: Outcome, runs: Seq(Outcome), retry: BOOLEAN,
              turns: Nat, observed: Nat]
PacketShape == [life: Nat, outcome: Outcome]
TurnStatus == {"none", "running", "completed", "failed", "interrupted"}

\* TypeOK without its bounds.
Shaped ==
  /\ issueHolder \in [Issue -> Proc \cup {NoOne}]
  /\ task \in [Issue -> TaskShape]
  /\ server \in [Issue -> TurnStatus]
  /\ posted \in [Issue -> Seq(PacketShape)]
  /\ late \in [Issue -> [Packet -> Nat]]
  /\ landed \in [Issue -> SUBSET Nat]
  /\ mem \in [Proc -> [seen: Nat, stage: Stages]]

\* The records of an instruction that was begun for an issue.
Originated(i) == {c \in Claim : c.status # "missing" /\ c.origin = i}

\* Packets sent for the issue that are to land yet, with nobody waiting for them.
Adrift(i) == \E packet \in Packet : late[i][packet] > 0

Begun(i) ==
  task[i].phase # "none" \/ task[i].runs # <<>> \/ posted[i] # <<>> \/ Adrift(i)

Packeted(i, n, outcome) ==
  \E m \in DOMAIN posted[i] : posted[i][m] = [life |-> n, outcome |-> outcome]

\* The phases in which the turn a task names has ended, or was never started.
QuietPhases == {"none", "selected", "thread_ready", "turn_completed"}

IssueInv(i) ==
  /\ task[i].phase \in QuietPhases => server[i] # "running"
  /\ i \in Leased => \A a, b \in DOMAIN posted[i] \ landed[i] : a = b
  /\ \A n \in DOMAIN task[i].runs : Packeted(i, n, task[i].runs[n])
  /\ Begun(i) => \A d \in disk : File!Logical(d) \in Originated(i)

\* No post of the process has landed yet, nor has it left its cycle.
Unspent(p) ==
  /\ job[p].at # "idle"
  /\ job[p].result = "none"
  /\ mem[p].stage \notin {"record", "observe"}

\* What the process has not seen of the comments landed late.
NothingNew(p) ==
  \A n \in DOMAIN posted[IssueOf(p)] : n > mem[p].seen => n \in landed[IssueOf(p)]

ProcInv(p) ==
  /\ job[p].at \notin {"idle", "fetched"} => issueHolder[IssueOf(p)] = p
  /\ job[p].at = "fetched" => IssueOf(p) \notin Leased
  /\ job[p].at \in {"issued", "selecting", "claiming", "reading", "activating", "completing"}
       => job[p].result = "none"
  /\ mem[p].stage # "load" => job[p].at = "working" /\ job[p].result = "none"
  /\ mem[p].stage \in {"thread", "turn", "note"} => server[IssueOf(p)] # "running"
  /\ mem[p].stage = "record" =>
       Packeted(IssueOf(p), ThisPacket(p).life, ThisPacket(p).outcome)
  /\ job[p].at # "idle" => mem[p].seen <= Len(posted[IssueOf(p)])
  /\ mem[p].stage = "sent" => mem[p].seen = 0
  /\ Unspent(p) /\ IssueOf(p) \in Leased => NothingNew(p)

RunnerInv ==
  /\ ClaimInv
  /\ Shaped
  /\ \A i \in Issue : IssueInv(i)
  /\ \A p \in Proc : ProcInv(p)

-----------------------------------------------------------------------------
(* Before the claim *)

LEMMA FetchInv ==
  ASSUME ClaimInv, NEW p \in Proc, NEW i \in Issue, Fetch(p, i)
  PROVE  ClaimInv'
<1>1. PICK j : j = [job[p] EXCEPT !.at = "fetched", !.issue = i]
  OBVIOUS
<1>2. j \in Job /\ j.at = "fetched" /\ j.issue = i
  BY <1>1, JobOf DEF Job, JobAt
<1>3. job' = [job EXCEPT ![p] = j]
  BY <1>1 DEF Fetch
<1> QED
  BY <1>2, <1>3, JobOf, PlainStep, FileKeptMove
  DEF Fetch, LeaseKept, FileKept, leaseVars, AtPhase, Is

LEMMA OpenIssueInv ==
  ASSUME ClaimInv, NEW p \in Proc, NEW i \in Issue, OpenIssue(p, i)
  PROVE  ClaimInv'
<1>1. PICK j : j = [NoJob EXCEPT !.at = "issued", !.issue = i]
  OBVIOUS
<1>2. j \in Job /\ j.at = "issued" /\ j.issue = i
  BY <1>1, NoJobTyped DEF Job, JobAt
<1>3. job' = [job EXCEPT ![p] = j]
  BY <1>1 DEF OpenIssue, TakeIssue
<1> QED
  BY <1>2, <1>3, JobOf, PlainStep, FileKeptMove
  DEF OpenIssue, LeaseKept, FileKept, leaseVars, AtPhase, Is

-----------------------------------------------------------------------------
(* The callback *)

\* Working on the task touches neither the lease nor the claim file, and of what
\* the process is doing only the result.
LEMMA WorkKeeps ==
  ASSUME JobTyped, NEW p \in Proc, Work(p)
  PROVE  /\ ClaimKept
         /\ job[p].at = "working"
         /\ job' = job \/ \E result \in Results : job' = [job EXCEPT ![p].result = result]
<1>1. ASSUME NEW new, NEW stage, SaveAndMove(p, new, stage)
      PROVE  ClaimKept
             /\ (job' = job \/ \E result \in Results : job' = [job EXCEPT ![p].result = result])
  BY <1>1 DEF SaveAndMove, Save, Move, Return, Results
<1>2. ASSUME NEW outcome, SaveResult(p, outcome)
      PROVE  ClaimKept
             /\ (job' = job \/ \E result \in Results : job' = [job EXCEPT ![p].result = result])
  BY <1>1, <1>2 DEF SaveResult
<1>3. CASE Begin(p) \/ Resume(p) \/ Thread(p) \/ StartTurn(p) \/ NoTurnLeft(p)
  BY <1>1, <1>2, <1>3 DEF Begin, Resume, Thread, StartTurn, NoTurnLeft, At, Is, Move
<1>4. CASE NoteTurn(p) \/ Record(p) \/ Observe(p)
  BY <1>4 DEF NoteTurn, Record, Observe, At, Is, Save, Move, Return, Results
<1>5. CASE Await(p) \/ OwnerStop(p) \/ Recover(p) \/ Pack(p)
  BY <1>1, <1>2, <1>5
  DEF Await, OwnerStop, Recover, Pack, At, Is, Move, Return, Results
<1>6. CASE Post(p) \/ Land(p) \/ PostedBefore(p) \/ Shutdown(p) \/ Fail(p)
  BY <1>6 DEF Post, Land, PostedBefore, Shutdown, Fail, At, Is, Move, Return, Results
<1> QED
  BY <1>3, <1>4, <1>5, <1>6 DEF Work

LEMMA WorkInv ==
  ASSUME ClaimInv, NEW p \in Proc, Work(p)
  PROVE  ClaimInv'
<1>1. job[p] \in Job /\ job[p].at = "working" /\ job[p].issue \in Issue
      /\ phase[p] = "holding" /\ ClaimKept
  BY JobOf, WorkKeeps DEF ClaimInv, AtPhase
<1>2. PICK result \in Results : job' = [job EXCEPT ![p].result = result]
  <2>1. job = [job EXCEPT ![p].result = job[p].result]
    BY <1>1 DEF ClaimInv, JobTyped, Job
  <2> QED
    BY <1>1, <2>1, WorkKeeps DEF ClaimInv, Job
<1>3. PICK j : j = [job[p] EXCEPT !.result = result]
  OBVIOUS
<1>4. j \in Job /\ j.at = "working" /\ j.issue \in Issue /\ OwnRecord(j) = OwnRecord(job[p])
  BY <1>1, <1>3 DEF Job, OwnRecord
<1>5. job' = [job EXCEPT ![p] = j]
  BY <1>2, <1>3
<1>6. OwnClaim(j)'
  <2>1. File!Agreed /\ File!Lasting = OwnRecord(j) /\ Read = OwnRecord(j)
    BY <1>1, <1>4, JobOf DEF OwnClaim
  <2>2. UNCHANGED <<dir, disk>>
    BY <1>1 DEF ClaimKept, FileKept
  <2> QED
    BY <1>4, <2>1, <2>2, QuietLasting DEF OwnClaim, OwnRecord
<1> QED
  BY <1>1, <1>4, <1>5, <1>6, ProcessStep, FileKeptMove
  DEF ClaimKept, LeaseKept, FileKept, leaseVars, AtPhase

-----------------------------------------------------------------------------
(* Lemmas about the parts *)

LEMMA TaskOfShaped ==
  ASSUME Shaped, NEW p \in Proc, job[p].issue \in Issue
  PROVE  /\ TaskOf(p) \in TaskShape
         /\ server[IssueOf(p)] \in TurnStatus
         /\ posted[IssueOf(p)] \in Seq(PacketShape)
         /\ mem[p] \in [seen: Nat, stage: Stages]
BY DEF Shaped, TaskOf, IssueOf

\* A lawful successor of a record of the issue is one.
LEMMA OriginatedClosed ==
  ASSUME NEW i \in Issue, NEW c \in Originated(i), NEW s \in Claim,
         validQueueTransaction(c, s)
  PROVE  s \in Originated(i)
BY DEF Originated, validQueueTransaction, Reclaim, Quarantine, Restore, Settle

LEMMA OriginKept ==
  ASSUME ClaimInv, FileMove, NEW i \in Issue,
         \A d \in disk : File!Logical(d) \in Originated(i)
  PROVE  \A d \in disk' : File!Logical(d) \in Originated(i)
<1>1. \A d : File!Logical(d) = Proved!Logical(d)
  BY DEF File!Logical, Proved!Logical
<1>2. Proved!FileInv /\ [Proved!FileNext]_(Proved!fileVars)
  BY SameInv, SameNext DEF FileMove, ClaimInv
<1>3. PICK S : S = Originated(i)
  OBVIOUS
<1>4. \A v \in S, w \in Claim : validQueueTransaction(v, w) => w \in S
  BY <1>3, OriginatedClosed
<1>5. \A d \in disk : Proved!Logical(d) \in S
  BY <1>1, <1>3
<1>6. \A d \in disk' : Proved!Logical(d) \in S
  BY <1>2, <1>4, <1>5, NoClaimTyped, Proved!ClosedKept
<1> QED
  BY <1>1, <1>3, <1>6

\* Under the callback the claim file speaks of the issue it was claimed for.
LEMMA WorkingOrigin ==
  ASSUME ClaimInv, NEW p \in Proc, job[p].at = "working"
  PROVE  \A d \in disk : File!Logical(d) \in Originated(IssueOf(p))
<1>1. File!Agreed /\ File!Lasting = OwnRecord(job[p])
  BY JobOf DEF OwnClaim
<1>2. \A d \in disk : File!Logical(d) = OwnRecord(job[p])
  BY <1>1 DEF File!Agreed, File!Lasting
<1>3. OwnRecord(job[p]).status = "active" /\ OwnRecord(job[p]).origin = IssueOf(p)
  BY JobOf DEF OwnRecord, Job, Claim, IssueOf
<1>4. OwnRecord(job[p]) \in Claim
  <2>1. Proved!Lasting \in Claim
    BY SameInv, Proved!LastingTyped DEF ClaimInv
  <2> QED
    BY <1>1, <2>1, SameLasting
<1> QED
  BY <1>2, <1>3, <1>4 DEF Originated

\* A post is left behind by a process under the callback, so the claim file
\* speaks of its issue.
LEMMA LeftBehind ==
  ASSUME RunnerInv, late' = late \/ LeaveSent
  PROVE  /\ late' \in [Issue -> [Packet -> Nat]]
         /\ \A i \in Issue : Adrift(i)' =>
              Adrift(i) \/ \A d \in disk : File!Logical(d) \in Originated(i)
<1>1. late \in [Issue -> [Packet -> Nat]]
  BY DEF RunnerInv, Shaped
<1>2. CASE late' = late
  BY <1>1, <1>2 DEF Adrift
<1>3. CASE LeaveSent
  <2>1. late' \in [Issue -> [Packet -> Nat]]
    BY <1>1, <1>3 DEF LeaveSent
  <2>2. ASSUME NEW i \in Issue, NEW k \in Packet, late'[i][k] > 0, ~(late[i][k] > 0)
        PROVE  \A d \in disk : File!Logical(d) \in Originated(i)
    <3>1. PICK p \in Proc : GivesUp(p, i, k)
      BY <1>3, <2>2 DEF LeaveSent
    <3>2. job[p].at = "working" /\ IssueOf(p) = i
      BY <3>1 DEF GivesUp, RunnerInv, ProcInv
    <3> QED
      BY <3>2, WorkingOrigin DEF RunnerInv
  <2> QED
    BY <2>1, <2>2 DEF Adrift
<1> QED
  BY <1>2, <1>3

-----------------------------------------------------------------------------
(* A step under the callback, of process p on the task of its issue *)

LEMMA OtherIssue ==
  ASSUME RunnerInv, NEW p \in Proc, job[p].at = "working",
         NEW q \in Proc, q # p, job[q].at \notin {"idle", "fetched"}
  PROVE  IssueOf(q) # IssueOf(p)
BY DEF RunnerInv, ProcInv

\* Only the task, the turn and the comments of that issue change, and nothing of
\* what another process remembers.
Local(p) ==
  /\ \A i \in Issue : Len(posted'[i]) >= Len(posted[i])
  /\ \A i \in Issue : i # IssueOf(p) =>
       task'[i] = task[i] /\ server'[i] = server[i] /\ posted'[i] = posted[i]
  /\ \A q \in Proc : q # p => mem'[q] = mem[q] /\ job'[q] = job[q]
  /\ late' = late \/ LeaveSent
  /\ landed' = landed

LEMMA WorkStep ==
  ASSUME RunnerInv, NEW p \in Proc, Work(p), Shaped', Local(p),
         NEW i \in Issue, i = IssueOf(p), IssueInv(i)', ProcInv(p)'
  PROVE  RunnerInv'
<1>1. ClaimInv'
  BY WorkInv DEF RunnerInv
<1>2. job[p].at = "working" /\ ClaimKept /\ job'[p].issue = job[p].issue
      /\ job[p].issue \in Issue
  BY WorkKeeps, JobOf DEF RunnerInv, ClaimInv, JobTyped, Job
<1>3. ASSUME NEW k \in Issue, k # i PROVE IssueInv(k)'
  <2>1. /\ task'[k] = task[k] /\ server'[k] = server[k] /\ posted'[k] = posted[k]
        /\ landed' = landed /\ disk' = disk /\ IssueInv(k)
    BY <1>2, <1>3 DEF Local, RunnerInv, ClaimKept, FileKept
  <2>2. Begun(k)' => Begun(k) \/ \A d \in disk : File!Logical(d) \in Originated(k)
    BY <2>1, LeftBehind DEF Local, Begun
  <2>3. Begun(k)' => \A d \in disk : File!Logical(d) \in Originated(k)
    BY <2>1, <2>2 DEF IssueInv
  <2> QED
    BY <2>1, <2>3 DEF IssueInv, Packeted
<1>4. ASSUME NEW q \in Proc, q # p PROVE ProcInv(q)'
  <2>1. mem'[q] = mem[q] /\ job'[q] = job[q] /\ issueHolder' = issueHolder /\ ProcInv(q)
        /\ (job[q].at # "idle" => IssueOf(q) \in Issue)
    BY <1>2, <1>4, JobOf DEF Local, RunnerInv, ClaimKept, IssueOf
  <2>2. CASE job[q].at \in {"idle", "fetched"}
    <3>1. job[q].at = "fetched" => /\ Len(posted'[IssueOf(q)]) >= Len(posted[IssueOf(q)])
                                   /\ Len(posted'[IssueOf(q)]) \in Nat
                                   /\ Len(posted[IssueOf(q)]) \in Nat
                                   /\ mem[q].seen \in Nat
      BY <2>1, <2>2 DEF Local, RunnerInv, Shaped
    <3>2. job[q].at = "fetched" => mem[q].seen <= Len(posted'[IssueOf(q)])
      BY <2>1, <3>1 DEF ProcInv
    <3>3. job[q].at = "fetched" => IssueOf(q) \notin Leased /\ IssueOf(q)' = IssueOf(q)
      BY <2>1 DEF ProcInv, IssueOf
    <3> QED
      BY <2>1, <2>2, <3>2, <3>3 DEF ProcInv, Unspent, IssueOf
  <2>3. CASE job[q].at \notin {"idle", "fetched"}
    <3>1. /\ task'[IssueOf(q)] = task[IssueOf(q)]
          /\ server'[IssueOf(q)] = server[IssueOf(q)]
          /\ posted'[IssueOf(q)] = posted[IssueOf(q)]
      BY <1>2, <1>4, <2>1, <2>3, OtherIssue DEF Local
    <3>2. landed' = landed
      BY DEF Local
    <3> QED
      BY <2>1, <3>1, <3>2
      DEF ProcInv, Unspent, NothingNew, IssueOf, ThisPacket, TaskOf, Packeted
  <2> QED
    BY <2>2, <2>3
<1>5. \A k \in Issue : IssueInv(k)'
  BY <1>3
<1>6. \A q \in Proc : ProcInv(q)'
  BY <1>4
<1> QED
  BY <1>1, <1>5, <1>6 DEF RunnerInv

LEMMA Working ==
  ASSUME RunnerInv, NEW p \in Proc, job[p].at = "working"
  PROVE  /\ IssueOf(p) \in Issue
         /\ TaskOf(p) \in TaskShape
         /\ task[IssueOf(p)] = TaskOf(p)
         /\ server[IssueOf(p)] \in TurnStatus
         /\ posted[IssueOf(p)] \in Seq(PacketShape)
         /\ mem[p] \in [seen: Nat, stage: Stages]
         /\ IssueInv(IssueOf(p)) /\ ProcInv(p) /\ Shaped
         /\ job \in [Proc -> Job]
         /\ \A d \in disk : File!Logical(d) \in Originated(IssueOf(p))
BY TaskOfShaped, WorkingOrigin, JobOf
DEF RunnerInv, ClaimInv, JobTyped, Shaped, TaskOf, IssueOf

LEMMA MoveOf ==
  ASSUME RunnerInv, NEW p \in Proc, NEW stage \in Stages, Move(p, stage)
  PROVE  /\ job' = job
         /\ mem' \in [Proc -> [seen: Nat, stage: Stages]]
         /\ mem'[p].stage = stage
         /\ mem'[p].seen = mem[p].seen
         /\ \A q \in Proc : q # p => mem'[q] = mem[q]
BY DEF RunnerInv, Shaped, Move

LEMMA ReturnOf ==
  ASSUME RunnerInv, NEW p \in Proc, NEW result, Return(p, result)
  PROVE  /\ job'[p].at = job[p].at
         /\ job'[p].issue = job[p].issue
         /\ job'[p].result = result
         /\ mem' \in [Proc -> [seen: Nat, stage: Stages]]
         /\ mem'[p].stage = "load"
         /\ mem'[p].seen = mem[p].seen
         /\ \A q \in Proc : q # p => mem'[q] = mem[q] /\ job'[q] = job[q]
<1>1. job \in [Proc -> Job] /\ mem \in [Proc -> [seen: Nat, stage: Stages]]
  BY DEF RunnerInv, ClaimInv, JobTyped, Shaped
<1>2. "load" \in Stages
  BY DEF Stages
<1>3. job'[p] = [job[p] EXCEPT !.result = result] /\ job[p] \in Job
  BY <1>1 DEF Return
<1>4. mem'[p] = [mem[p] EXCEPT !.stage = "load"] /\ mem[p] \in [seen: Nat, stage: Stages]
  BY <1>1 DEF Return
<1>5. job'[p].at = job[p].at /\ job'[p].issue = job[p].issue /\ job'[p].result = result
  BY <1>3 DEF Job
<1> QED
  BY <1>1, <1>2, <1>4, <1>5 DEF Return

\* A step that saves the task, or not, and goes on to a stage or returns.
LEMMA TaskStep ==
  ASSUME RunnerInv, NEW p \in Proc, Work(p),
         job[p].at = "working", job[p].result = "none",
         mem[p].stage \notin {"record", "observe"},
         NEW i \in Issue, i = IssueOf(p),
         NEW new \in TaskShape, new.runs = task[i].runs,
         new.phase \in QuietPhases => server[i] # "running",
         task' = task \/ task' = [task EXCEPT ![i] = new],
         UNCHANGED <<server, posted, late, landed>>,
         \/ \E stage \in Stages : /\ Move(p, stage)
                                  /\ stage \notin {"record", "observe"}
                                  /\ stage = "sent" => mem[p].seen = 0
                                  /\ stage \in {"thread", "turn", "note"} =>
                                       server[i] # "running"
         \/ \E result \in Results : Return(p, result) /\ result # "none"
  PROVE  RunnerInv'
<1>1. ClaimKept
  BY WorkKeeps DEF RunnerInv, ClaimInv
<1>2. /\ job'[p].at = "working" /\ IssueOf(p)' = i /\ issueHolder' = issueHolder
      /\ mem' \in [Proc -> [seen: Nat, stage: Stages]]
      /\ mem'[p].seen = mem[p].seen
      /\ \A q \in Proc : q # p => mem'[q] = mem[q] /\ job'[q] = job[q]
      /\ mem'[p].stage \notin {"record", "observe"}
      /\ mem'[p].stage \in {"thread", "turn", "note"} => server[i] # "running"
      /\ mem'[p].stage # "load" => job'[p].result = "none"
      /\ mem'[p].stage = "sent" => mem[p].seen = 0
  BY <1>1, MoveOf, ReturnOf DEF ClaimKept, IssueOf
<1>3. Shaped'
  BY <1>2, Working DEF Shaped
<1>4. Local(p)
  <2>1. \A k \in Issue : Len(posted[k]) \in Nat /\ posted'[k] = posted[k]
    BY Working DEF Shaped
  <2> QED
    BY <1>2, <2>1, Working DEF Local, Shaped
<1>5. task'[i].runs = task[i].runs
      /\ (task'[i].phase \in QuietPhases => server[i] # "running")
  BY Working DEF Shaped, IssueInv
<1>6. IssueInv(i)'
  BY <1>1, <1>5, Working DEF IssueInv, Packeted, ClaimKept, FileKept
<1>7. ProcInv(p)'
  <2>1. issueHolder[i] = p /\ (i \in Leased => NothingNew(p))
         /\ mem[p].seen <= Len(posted[i])
    BY Working DEF ProcInv, Unspent
  <2>2. NothingNew(p) <=> NothingNew(p)'
    BY <1>2 DEF NothingNew
  <2> QED
    BY <1>2, <2>1, <2>2 DEF ProcInv, Unspent
<1> QED
  BY <1>3, <1>4, <1>6, <1>7, WorkStep

LEMMA SaveStep ==
  ASSUME RunnerInv, NEW p \in Proc, Work(p),
         job[p].at = "working", job[p].result = "none",
         mem[p].stage \notin {"record", "observe"},
         NEW i \in Issue, i = IssueOf(p),
         NEW new \in TaskShape, new.runs = task[i].runs,
         new.phase \in QuietPhases => server[i] # "running",
         NEW stage \in Stages \ {"sent", "record", "observe"},
         stage \in {"thread", "turn", "note"} => server[i] # "running",
         SaveAndMove(p, new, stage)
  PROVE  RunnerInv'
<1>1. /\ task' = task \/ task' = [task EXCEPT ![i] = new]
      /\ UNCHANGED <<server, posted, late, landed>>
      /\ \/ Move(p, stage)
         \/ Return(p, "error") \/ Return(p, "commit_pending")
  BY DEF SaveAndMove, Save
<1>2. "error" \in Results /\ "commit_pending" \in Results
  BY DEF Results
<1> QED
  BY <1>1, <1>2, TaskStep

LEMMA ResultSaved ==
  ASSUME RunnerInv, NEW p \in Proc, Work(p),
         job[p].at = "working", job[p].result = "none",
         mem[p].stage \notin {"record", "observe"},
         server[IssueOf(p)] # "running",
         NEW outcome \in {"settled", "terminal", "retry"}, SaveResult(p, outcome)
  PROVE  RunnerInv'
<1>1. PICK new : new = TurnCompleted(p, outcome)
  OBVIOUS
<1>2. PICK stage : stage = IF outcome = "retry" THEN "thread" ELSE "pack"
  OBVIOUS
<1>3. new \in TaskShape /\ new.runs = TaskOf(p).runs
  BY <1>1, Working DEF TurnCompleted, TaskShape, TaskPhases, Outcome, Final
<1>4. stage \in Stages \ {"sent", "record", "observe"} /\ SaveAndMove(p, new, stage)
  BY <1>1, <1>2 DEF SaveResult, Stages
<1>5. PICK i \in Issue : i = IssueOf(p) /\ task[i] = TaskOf(p)
  BY Working
<1> QED
  BY <1>3, <1>4, <1>5, SaveStep

LEMMA GoesOn ==
  ASSUME RunnerInv, NEW p \in Proc, Work(p),
         job[p].at = "working", job[p].result = "none",
         mem[p].stage \notin {"record", "observe"},
         UNCHANGED <<task, server, posted, late, landed>>,
         \/ \E stage \in Stages : /\ Move(p, stage)
                                  /\ stage \notin {"record", "observe"}
                                  /\ stage = "sent" => mem[p].seen = 0
                                  /\ stage \in {"thread", "turn", "note"} =>
                                       server[IssueOf(p)] # "running"
         \/ \E result \in Results : Return(p, result) /\ result # "none"
  PROVE  RunnerInv'
<1>1. PICK i \in Issue : i = IssueOf(p) /\ task[i] = TaskOf(p) /\ TaskOf(p) \in TaskShape
                         /\ IssueInv(i)
  BY Working
<1>2. PICK new : new = task[i]
  OBVIOUS
<1>3. new \in TaskShape /\ new.runs = task[i].runs
      /\ (new.phase \in QuietPhases => server[i] # "running")
  BY <1>1, <1>2 DEF IssueInv
<1> QED
  BY <1>1, <1>3, TaskStep

-----------------------------------------------------------------------------
(* The actions under the callback *)

LEMMA BeginInv ==
  ASSUME RunnerInv, NEW p \in Proc, Begin(p)
  PROVE  RunnerInv'
<1>1. Work(p) /\ job[p].at = "working" /\ job[p].result = "none" /\ mem[p].stage = "load"
  BY DEF Begin, Work, At, Is
<1>2. PICK new : new = [TaskOf(p) EXCEPT !.phase = "selected", !.retry = FALSE]
  OBVIOUS
<1>3. new \in TaskShape /\ new.runs = TaskOf(p).runs /\ new.phase = "selected"
  BY <1>1, <1>2, Working DEF TaskShape, TaskPhases
<1>4. SaveAndMove(p, new, "thread") /\ "thread" \in Stages \ {"sent", "record", "observe"}
  BY <1>2 DEF Begin, Stages
<1>5. PICK i \in Issue : i = IssueOf(p) /\ task[i] = TaskOf(p) /\ IssueInv(i)
  BY <1>1, Working
<1>6. server[i] # "running"
  BY <1>5 DEF IssueInv, Begin, QuietPhases
<1> QED
  BY <1>1, <1>3, <1>4, <1>5, <1>6, SaveStep

LEMMA ResumeInv ==
  ASSUME RunnerInv, NEW p \in Proc, Resume(p)
  PROVE  RunnerInv'
<1>1. Work(p) /\ job[p].at = "working" /\ job[p].result = "none" /\ mem[p].stage = "load"
  BY DEF Resume, Work, At, Is
<1>2. PICK stage : stage = CASE TaskOf(p).phase = "result_pending" -> "publish"
                             [] TaskOf(p).phase = "owner_stopped" -> "pack"
                             [] TaskOf(p).phase = "turn_started" -> "recover"
                             [] OTHER -> "thread"
  OBVIOUS
<1>3. Move(p, stage) /\ UNCHANGED <<task, server, posted, late, landed>>
  BY <1>2 DEF Resume
<1>4. TaskOf(p).phase \in TaskPhases /\ TaskOf(p) = task[IssueOf(p)] /\ IssueInv(IssueOf(p))
  BY <1>1, Working DEF TaskShape
<1>5. stage = "thread" => server[IssueOf(p)] # "running"
  BY <1>2, <1>4 DEF IssueInv, QuietPhases, TaskPhases, Resume
<1>6. stage \in {"publish", "pack", "recover", "thread"}
  BY <1>2
<1> QED
  BY <1>1, <1>3, <1>5, <1>6, GoesOn DEF Stages

LEMMA ThreadInv ==
  ASSUME RunnerInv, NEW p \in Proc, Thread(p)
  PROVE  RunnerInv'
<1>1. Work(p) /\ job[p].at = "working" /\ job[p].result = "none" /\ mem[p].stage = "thread"
  BY DEF Thread, Work, At, Is
<1>2. server[IssueOf(p)] # "running"
  BY <1>1, Working DEF ProcInv
<1>3. PICK new : new = [TaskOf(p) EXCEPT !.phase = "thread_ready", !.outcome = "none"]
  OBVIOUS
<1>4. new \in TaskShape /\ new.runs = TaskOf(p).runs
  BY <1>1, <1>3, Working DEF TaskShape, TaskPhases, Outcome
<1>5. PICK i \in Issue : i = IssueOf(p) /\ task[i] = TaskOf(p)
  BY <1>1, Working
<1>6. "turn" \in Stages \ {"sent", "record", "observe"} /\ "pack" \in Stages
  BY DEF Stages
<1>7. CASE SaveAndMove(p, new, "turn")
  BY <1>1, <1>2, <1>4, <1>5, <1>6, <1>7, SaveStep
<1>8. CASE Move(p, "pack") /\ UNCHANGED <<task, server, posted, late, landed>>
  BY <1>1, <1>6, <1>8, GoesOn
<1> QED
  BY <1>3, <1>7, <1>8 DEF Thread

LEMMA TurnInv ==
  ASSUME RunnerInv, NEW p \in Proc, StartTurn(p) \/ NoTurnLeft(p)
  PROVE  RunnerInv'
<1>1. Work(p) /\ job[p].at = "working" /\ job[p].result = "none" /\ mem[p].stage = "turn"
  BY DEF StartTurn, NoTurnLeft, Work, At, Is
<1>2. server[IssueOf(p)] # "running" /\ "note" \in Stages
  BY <1>1, Working DEF ProcInv, Stages
<1>3. CASE StartTurn(p)
  BY <1>1, <1>2, <1>3, GoesOn DEF StartTurn
<1>4. CASE NoTurnLeft(p)
  BY <1>1, <1>2, <1>4, ResultSaved DEF NoTurnLeft
<1> QED
  BY <1>3, <1>4

LEMMA AwaitInv ==
  ASSUME RunnerInv, NEW p \in Proc, Await(p)
  PROVE  RunnerInv'
<1>1. Work(p) /\ job[p].at = "working" /\ job[p].result = "none" /\ mem[p].stage = "await"
  BY DEF Await, Work, At, Is
<1>2. server[IssueOf(p)] # "running" /\ "turn" \in Stages
  BY DEF Await, ServerSays, Stages
<1>3. CASE \E outcome \in {"settled", "terminal", "retry"} : SaveResult(p, outcome)
  BY <1>1, <1>2, <1>3, ResultSaved
<1>4. CASE Move(p, "turn") /\ UNCHANGED <<task, server, posted, late, landed>>
  BY <1>1, <1>2, <1>4, GoesOn
<1> QED
  BY <1>3, <1>4 DEF Await

LEMMA OwnerStopInv ==
  ASSUME RunnerInv, NEW p \in Proc, OwnerStop(p)
  PROVE  RunnerInv'
<1>1. Work(p) /\ job[p].at = "working" /\ job[p].result = "none" /\ mem[p].stage = "await"
  BY DEF OwnerStop, Work, At, Is
<1>2. PICK new : new = [TaskOf(p) EXCEPT !.phase = "owner_stopped", !.outcome = "settled"]
  OBVIOUS
<1>3. new \in TaskShape /\ new.runs = TaskOf(p).runs /\ new.phase = "owner_stopped"
  BY <1>1, <1>2, Working DEF TaskShape, TaskPhases, Outcome, Final
<1>4. SaveAndMove(p, new, "pack") /\ "pack" \in Stages \ {"sent", "record", "observe"}
  BY <1>2 DEF OwnerStop, Stages
<1>5. PICK i \in Issue : i = IssueOf(p) /\ task[i] = TaskOf(p)
  BY <1>1, Working
<1> QED
  BY <1>1, <1>3, <1>4, <1>5, SaveStep DEF QuietPhases

LEMMA RecoverInv ==
  ASSUME RunnerInv, NEW p \in Proc, Recover(p)
  PROVE  RunnerInv'
<1>1. Work(p) /\ job[p].at = "working" /\ job[p].result = "none" /\ mem[p].stage = "recover"
  BY DEF Recover, Work, At, Is
<1>2. CASE /\ server[IssueOf(p)] # "running"
           /\ \E outcome \in {"settled", "terminal", "retry"} : SaveResult(p, outcome)
  BY <1>1, <1>2, ResultSaved
<1>3. PICK new : new = [TaskOf(p) EXCEPT !.phase = "thread_ready"]
  OBVIOUS
<1>4. CASE server[IssueOf(p)] # "running" /\ SaveAndMove(p, new, "turn")
  <2>1. new \in TaskShape /\ new.runs = TaskOf(p).runs
    BY <1>1, <1>3, Working DEF TaskShape, TaskPhases
  <2>2. "turn" \in Stages \ {"sent", "record", "observe"}
    BY DEF Stages
  <2>3. PICK i \in Issue : i = IssueOf(p) /\ task[i] = TaskOf(p)
    BY <1>1, Working
  <2> QED
    BY <1>1, <1>4, <2>1, <2>2, <2>3, SaveStep
<1>5. CASE UNCHANGED <<task, server, posted, late, landed>>
           /\ \E result \in {"deferred", "error"} : Return(p, result)
  BY <1>1, <1>5, GoesOn DEF Results
<1> QED
  BY <1>2, <1>3, <1>4, <1>5 DEF Recover, ServerSays

LEMMA PackInv ==
  ASSUME RunnerInv, NEW p \in Proc, Pack(p)
  PROVE  RunnerInv'
<1>1. Work(p) /\ job[p].at = "working" /\ job[p].result = "none" /\ mem[p].stage = "pack"
  BY DEF Pack, Work, At, Is
<1>2. PICK outcome : outcome = IF TaskOf(p).outcome = "terminal"
                                 THEN TaskOf(p).outcome ELSE "settled"
  OBVIOUS
<1>3. PICK new : new = [TaskOf(p) EXCEPT !.phase = "result_pending", !.outcome = outcome]
  OBVIOUS
<1>4. new \in TaskShape /\ new.runs = TaskOf(p).runs /\ new.phase = "result_pending"
  BY <1>1, <1>2, <1>3, Working DEF TaskShape, TaskPhases, Outcome, Final
<1>5. SaveAndMove(p, new, "publish") /\ "publish" \in Stages \ {"sent", "record", "observe"}
  BY <1>2, <1>3 DEF Pack, Stages
<1>6. PICK i \in Issue : i = IssueOf(p) /\ task[i] = TaskOf(p)
  BY <1>1, Working
<1> QED
  BY <1>1, <1>4, <1>5, <1>6, SaveStep DEF QuietPhases

\* A callback that returned says nothing of its task any more.
LEMMA Returned ==
  ASSUME RunnerInv, NEW p \in Proc, Work(p), job[p].at = "working",
         NEW result, result # "none", Return(p, result),
         \A i \in Issue : Len(posted'[i]) >= Len(posted[i]) /\ Len(posted'[i]) \in Nat
  PROVE  ProcInv(p)'
<1>1. ClaimKept /\ ProcInv(p) /\ IssueOf(p) \in Issue /\ mem[p].seen \in Nat
      /\ Len(posted[IssueOf(p)]) \in Nat
  BY WorkKeeps, Working DEF RunnerInv, ClaimInv
<1>2. job'[p].at = "working" /\ IssueOf(p)' = IssueOf(p) /\ job'[p].result # "none"
      /\ mem'[p].stage = "load" /\ mem'[p].seen = mem[p].seen
      /\ issueHolder' = issueHolder
  BY <1>1, ReturnOf DEF IssueOf, ClaimKept
<1>3. issueHolder[IssueOf(p)] = p /\ mem[p].seen <= Len(posted'[IssueOf(p)])
  BY <1>1 DEF ProcInv
<1> QED
  BY <1>2, <1>3 DEF ProcInv, Unspent

LEMMA StopsInv ==
  ASSUME RunnerInv, NEW p \in Proc, Shutdown(p) \/ Fail(p)
  PROVE  RunnerInv'
<1>1. Work(p) /\ job[p].at = "working"
  BY DEF Shutdown, Fail, Work, At, Is
<1>2. PICK result \in {"shutdown", "error", "permanent"} : Return(p, result)
  BY DEF Shutdown, Fail
<1>3. PICK i \in Issue : i = IssueOf(p) /\ IssueInv(i)
  BY <1>1, Working
<1>4. UNCHANGED <<task, server, posted, landed>> /\ ClaimKept
      /\ (late' = late \/ LeaveSent)
  BY DEF Shutdown, Fail
<1>5. \A k \in Issue : Len(posted[k]) \in Nat
  BY <1>1, Working DEF Shaped
<1>6. ProcInv(p)'
  BY <1>1, <1>2, <1>4, <1>5, Returned
<1>7. Shaped' /\ Local(p)
  BY <1>1, <1>2, <1>4, <1>5, ReturnOf, LeftBehind, Working DEF Shaped, Local, ClaimKept
<1>8. IssueInv(i)'
  BY <1>1, <1>3, <1>4, Working DEF IssueInv, Packeted, ClaimKept, FileKept
<1> QED
  BY <1>1, <1>3, <1>6, <1>7, <1>8, WorkStep

LEMMA NoteTurnInv ==
  ASSUME RunnerInv, NEW p \in Proc, NoteTurn(p)
  PROVE  RunnerInv'
<1>1. Work(p) /\ job[p].at = "working" /\ job[p].result = "none" /\ mem[p].stage = "note"
  BY DEF NoteTurn, Work, At, Is
<1>2. PICK i \in Issue : i = IssueOf(p) /\ task[i] = TaskOf(p) /\ TaskOf(p) \in TaskShape
                         /\ IssueInv(i) /\ ProcInv(p)
  BY <1>1, Working
<1>3. PICK n \in Nat : n = TaskOf(p).turns + 1
  BY <1>2 DEF TaskShape
<1>4. PICK new : new = [TaskOf(p) EXCEPT !.phase = "turn_started", !.turns = n]
  OBVIOUS
<1>5. new \in TaskShape /\ new.runs = TaskOf(p).runs /\ new.phase = "turn_started"
  BY <1>2, <1>4 DEF TaskShape, TaskPhases
<1>6. /\ task' = task \/ task' = [task EXCEPT ![i] = new]
      /\ Move(p, "await") \/ Return(p, "error") \/ Return(p, "commit_pending")
      /\ ClaimKept /\ UNCHANGED <<posted, late, landed>>
      /\ server' = [server EXCEPT ![i] = IF task'[i] = TaskOf(p) THEN @ ELSE "running"]
  BY <1>2, <1>3, <1>4 DEF NoteTurn, Save
<1>7. /\ job'[p].at = "working" /\ IssueOf(p)' = i
      /\ mem' \in [Proc -> [seen: Nat, stage: Stages]]
      /\ mem'[p].seen = mem[p].seen
      /\ \A q \in Proc : q # p => mem'[q] = mem[q] /\ job'[q] = job[q]
      /\ mem'[p].stage \in {"await", "load"}
      /\ mem'[p].stage # "load" => job'[p].result = "none"
  BY <1>1, <1>2, <1>6, MoveOf, ReturnOf DEF IssueOf, Stages
<1>8. Shaped'
  BY <1>1, <1>5, <1>6, <1>7, Working DEF Shaped, ClaimKept, TurnStatus
<1>9. \A k \in Issue : Len(posted[k]) \in Nat
  BY <1>1, Working DEF Shaped
<1>10. Local(p)
  BY <1>1, <1>2, <1>6, <1>7, <1>9, Working DEF Local, Shaped
<1>11. task'[i].runs = task[i].runs
       /\ (task'[i].phase \in QuietPhases => server'[i] # "running")
  BY <1>1, <1>2, <1>5, <1>6, Working DEF Shaped, IssueInv, QuietPhases
<1>12. IssueInv(i)'
  BY <1>1, <1>2, <1>6, <1>11, Working DEF IssueInv, Packeted, ClaimKept, FileKept
<1>13. ProcInv(p)'
  <2>1. NothingNew(p) <=> NothingNew(p)'
    BY <1>2, <1>6, <1>7 DEF NothingNew
  <2> QED
    BY <1>1, <1>2, <1>6, <1>7, <2>1 DEF ProcInv, Unspent, ClaimKept
<1> QED
  BY <1>1, <1>2, <1>8, <1>10, <1>12, <1>13, WorkStep

LEMMA PostInv ==
  ASSUME RunnerInv, NEW p \in Proc, Post(p)
  PROVE  RunnerInv'
<1>1. Work(p) /\ job[p].at = "working" /\ job[p].result = "none" /\ mem[p].stage = "publish"
  BY DEF Post, Work, At, Is
<1>2. Move(p, "sent") /\ UNCHANGED <<task, server, posted, late, landed>>
      /\ SubSeq(posted[IssueOf(p)], 1, mem[p].seen) = <<>>
  BY DEF Post, Unpublished, Comments
<1>3. posted[IssueOf(p)] \in Seq(PacketShape) /\ mem[p].seen \in Nat
      /\ mem[p].seen <= Len(posted[IssueOf(p)])
  BY <1>1, Working DEF ProcInv
<1>4. Len(SubSeq(posted[IssueOf(p)], 1, mem[p].seen)) = mem[p].seen
  BY <1>3
<1>5. mem[p].seen = 0
  BY <1>2, <1>4
<1> QED
  BY <1>1, <1>2, <1>5, GoesOn DEF Stages

\* Under the lease nobody else waits for a post, so a comment that is not seen
\* is one that landed late.
LEMMA LandInv ==
  ASSUME RunnerInv, NEW p \in Proc, Land(p)
  PROVE  RunnerInv'
<1>1. Work(p) /\ job[p].at = "working" /\ job[p].result = "none" /\ mem[p].stage = "sent"
  BY DEF Land, Work, At, Is
<1>2. PICK i \in Issue : i = IssueOf(p) /\ task[i] = TaskOf(p) /\ TaskOf(p) \in TaskShape
                         /\ IssueInv(i) /\ ProcInv(p)
  BY <1>1, Working
<1>3. PICK packet : packet = ThisPacket(p)
  OBVIOUS
<1>4. packet \in PacketShape /\ packet = [life |-> packet.life, outcome |-> packet.outcome]
  BY <1>2, <1>3 DEF ThisPacket, PacketShape, TaskShape
<1>5. /\ Move(p, "record")
      /\ ClaimKept /\ UNCHANGED <<task, server, late, landed>>
      /\ posted' = [posted EXCEPT ![i] = Append(posted[i], packet)]
  BY <1>2, <1>3 DEF Land
<1>6. /\ job' = job /\ IssueOf(p)' = i
      /\ mem' \in [Proc -> [seen: Nat, stage: Stages]]
      /\ mem'[p].seen = mem[p].seen
      /\ \A q \in Proc : q # p => mem'[q] = mem[q]
      /\ mem'[p].stage = "record"
  BY <1>1, <1>2, <1>5, MoveOf DEF IssueOf, Stages
<1>7. /\ posted[i] \in Seq(PacketShape)
      /\ posted'[i] = Append(posted[i], packet)
      /\ posted'[i] \in Seq(PacketShape)
      /\ Len(posted[i]) \in Nat
      /\ Len(posted'[i]) = Len(posted[i]) + 1
      /\ \A m \in DOMAIN posted[i] : m \in DOMAIN posted'[i] /\ posted'[i][m] = posted[i][m]
      /\ Len(posted'[i]) \in DOMAIN posted'[i]
      /\ posted'[i][Len(posted'[i])] = packet
  BY <1>1, <1>2, <1>4, <1>5, Working DEF Shaped
<1>8. Shaped'
  BY <1>1, <1>5, <1>6, <1>7, Working DEF Shaped, ClaimKept
<1>9. \A k \in Issue : Len(posted[k]) \in Nat
  BY <1>1, Working DEF Shaped
<1>10. \A k \in Issue : k # i => posted'[k] = posted[k]
  BY <1>1, <1>5, Working DEF Shaped
<1>11. \A k \in Issue : Len(posted'[k]) >= Len(posted[k])
  BY <1>7, <1>9, <1>10
<1>12. Local(p)
  BY <1>2, <1>5, <1>6, <1>10, <1>11 DEF Local
<1>13. i \in Leased => \A a, b \in DOMAIN posted'[i] \ landed'[i] : a = b
  <2>1. SUFFICES ASSUME i \in Leased, NEW a \in DOMAIN posted'[i], a \notin landed[i]
                 PROVE  a = Len(posted'[i])
    BY <1>5
  <2>2. mem[p].seen = 0 /\ NothingNew(p)
    BY <1>1, <1>2, <2>1 DEF ProcInv, Unspent
  <2>3. a \in 1..(Len(posted[i]) + 1) /\ DOMAIN posted[i] = 1..Len(posted[i])
    BY <1>7
  <2>4. a \notin DOMAIN posted[i]
    BY <1>2, <2>1, <2>2, <2>3 DEF NothingNew
  <2> QED
    BY <1>7, <2>3, <2>4
<1>14. IssueInv(i)'
  <2>1. task' = task /\ server' = server /\ disk' = disk
    BY <1>5 DEF ClaimKept, FileKept
  <2>2. \A n \in DOMAIN task[i].runs : \E m \in DOMAIN posted'[i] :
          posted'[i][m] = [life |-> n, outcome |-> task[i].runs[n]]
    BY <1>2, <1>7 DEF IssueInv, Packeted
  <2>3. Begun(i)' => \A d \in disk' : File!Logical(d) \in Originated(i)
    BY <1>1, <1>2, <2>1, Working
  <2> QED
    BY <1>2, <1>13, <2>1, <2>2, <2>3 DEF IssueInv, Packeted
<1>15. Packeted(IssueOf(p), ThisPacket(p).life, ThisPacket(p).outcome)'
  <2>1. ThisPacket(p)' = packet
    BY <1>2, <1>3, <1>5, <1>6 DEF ThisPacket, TaskOf
  <2> QED
    BY <1>4, <1>6, <1>7, <2>1 DEF Packeted
<1>16. ProcInv(p)'
  <2>1. issueHolder'[i] = p /\ mem[p].seen \in Nat /\ mem[p].seen <= Len(posted[i])
    BY <1>1, <1>2, <1>5, Working DEF ProcInv, ClaimKept
  <2>2. mem'[p].seen <= Len(posted'[i])
    BY <1>6, <1>7, <2>1
  <2> QED
    BY <1>1, <1>6, <1>15, <2>1, <2>2 DEF ProcInv, Unspent
<1> QED
  BY <1>1, <1>2, <1>8, <1>12, <1>14, <1>16, WorkStep

\* A result found among the comments is the packet, and was published.
LEMMA PostedBeforeInv ==
  ASSUME RunnerInv, NEW p \in Proc, PostedBefore(p)
  PROVE  RunnerInv'
<1>1. Work(p) /\ job[p].at = "working" /\ job[p].result = "none" /\ mem[p].stage = "publish"
  BY DEF PostedBefore, Work, At, Is
<1>2. PICK i \in Issue : i = IssueOf(p) /\ task[i] = TaskOf(p) /\ IssueInv(i) /\ ProcInv(p)
                         /\ posted[i] \in Seq(PacketShape) /\ mem[p].seen \in Nat
  BY <1>1, Working
<1>3. CASE ~Published(p)
  <2>1. Return(p, "error") /\ UNCHANGED <<task, server, posted, late, landed>>
    BY <1>3 DEF PostedBefore
  <2> QED
    BY <1>1, <2>1, GoesOn DEF Results
<1>4. CASE Published(p)
  <2>1. Move(p, "record") /\ UNCHANGED <<task, server, posted, late, landed>> /\ ClaimKept
    BY <1>4 DEF PostedBefore
  <2>2. /\ job' = job
        /\ mem' \in [Proc -> [seen: Nat, stage: Stages]]
        /\ mem'[p].stage = "record" /\ mem'[p].seen = mem[p].seen
        /\ \A q \in Proc : q # p => mem'[q] = mem[q]
    BY <2>1, MoveOf DEF Stages
  <2>3. \A k \in Issue : Len(posted[k]) \in Nat
    BY <1>1, Working DEF Shaped
  <2>4. Shaped' /\ Local(p)
    BY <1>1, <2>1, <2>2, <2>3, Working DEF Shaped, Local, ClaimKept
  <2>5. IssueInv(i)'
    BY <1>2, <2>1 DEF IssueInv, Begun, Adrift, Packeted, ClaimKept, FileKept
  <2>6. Packeted(i, ThisPacket(p).life, ThisPacket(p).outcome)
    <3>1. SubSeq(posted[i], 1, mem[p].seen) = <<ThisPacket(p)>> /\ mem[p].seen <= Len(posted[i])
      BY <1>1, <1>2, <1>4 DEF Published, Comments, ProcInv
    <3>2. Len(SubSeq(posted[i], 1, mem[p].seen)) = mem[p].seen
      BY <1>2, <3>1
    <3>3. Len(<<ThisPacket(p)>>) = 1 /\ <<ThisPacket(p)>>[1] = ThisPacket(p)
      OBVIOUS
    <3>4. mem[p].seen = 1
      BY <3>1, <3>2, <3>3
    <3>5. SubSeq(posted[i], 1, 1)[1] = ThisPacket(p)
      BY <3>1, <3>3, <3>4
    <3>6. Len(posted[i]) \in Nat /\ DOMAIN posted[i] = 1..Len(posted[i])
      BY <1>2
    <3>7. 1 \in DOMAIN posted[i]
      BY <3>1, <3>4, <3>6
    <3>8. SubSeq(posted[i], 1, 1)[1] = posted[i][1]
      BY <1>2, <3>6, <3>7
    <3> QED
      BY <3>5, <3>7, <3>8 DEF Packeted, ThisPacket
  <2>7. ProcInv(p)'
    <3>1. IssueOf(p)' = i /\ ThisPacket(p)' = ThisPacket(p) /\ issueHolder'[i] = p
          /\ mem[p].seen <= Len(posted[i]) /\ posted' = posted
      BY <1>1, <1>2, <2>1, <2>2 DEF IssueOf, ThisPacket, TaskOf, ClaimKept, ProcInv
    <3> QED
      BY <1>1, <2>2, <2>6, <3>1 DEF ProcInv, Unspent, Packeted
  <2> QED
    BY <1>1, <1>2, <2>4, <2>5, <2>7, WorkStep
<1> QED
  BY <1>3, <1>4

LEMMA RecordInv ==
  ASSUME RunnerInv, NEW p \in Proc, Record(p)
  PROVE  RunnerInv'
<1>1. Work(p) /\ job[p].at = "working" /\ job[p].result = "none" /\ mem[p].stage = "record"
  BY DEF Record, Work, At, Is
<1>2. PICK i \in Issue : i = IssueOf(p) /\ task[i] = TaskOf(p) /\ TaskOf(p) \in TaskShape
                         /\ IssueInv(i) /\ ProcInv(p) /\ server[i] \in TurnStatus
  BY <1>1, Working
<1>3. PICK runs : runs = Append(TaskOf(p).runs, TaskOf(p).outcome)
  OBVIOUS
<1>4. /\ runs \in Seq(Outcome)
      /\ Len(runs) = Len(TaskOf(p).runs) + 1 /\ Len(TaskOf(p).runs) \in Nat
      /\ \A n \in DOMAIN runs : \/ n \in DOMAIN TaskOf(p).runs /\ runs[n] = TaskOf(p).runs[n]
                                \/ n = Len(TaskOf(p).runs) + 1 /\ runs[n] = TaskOf(p).outcome
  BY <1>2, <1>3 DEF TaskShape
<1>5. PICK new : new = [TaskOf(p) EXCEPT !.phase = "none", !.outcome = "none", !.runs = runs]
  OBVIOUS
<1>6. new \in TaskShape /\ new.runs = runs
  BY <1>2, <1>4, <1>5 DEF TaskShape, TaskPhases, Outcome
<1>7. /\ task' = task \/ task' = [task EXCEPT ![i] = new]
      /\ Move(p, "observe") \/ Return(p, "error") \/ Return(p, "commit_pending")
      /\ ClaimKept /\ UNCHANGED <<posted, late, landed>>
      /\ server' = [server EXCEPT ![i] = IF task'[i] = TaskOf(p) THEN @ ELSE "none"]
  BY <1>2, <1>3, <1>5 DEF Record, Save
<1>8. /\ job'[p].at = "working" /\ IssueOf(p)' = i
      /\ mem' \in [Proc -> [seen: Nat, stage: Stages]]
      /\ mem'[p].seen = mem[p].seen
      /\ \A q \in Proc : q # p => mem'[q] = mem[q] /\ job'[q] = job[q]
      /\ mem'[p].stage \in {"observe", "load"}
      /\ mem'[p].stage = "observe" => job'[p].result = "none"
      /\ mem'[p].stage = "load" => job'[p].result # "none"
  BY <1>1, <1>2, <1>7, MoveOf, ReturnOf DEF IssueOf, Stages
<1>9. Shaped'
  BY <1>1, <1>2, <1>6, <1>7, <1>8, Working DEF Shaped, ClaimKept, TurnStatus
<1>10. \A k \in Issue : Len(posted[k]) \in Nat
  BY <1>1, Working DEF Shaped
<1>11. Local(p)
  BY <1>1, <1>2, <1>7, <1>8, <1>10, Working DEF Local, Shaped
<1>12. \A n \in DOMAIN runs : Packeted(i, n, runs[n])
  BY <1>1, <1>2, <1>4 DEF IssueInv, ProcInv, ThisPacket
<1>13. IssueInv(i)'
  <2>1. task'[i] = TaskOf(p) \/ task'[i] = new
    BY <1>1, <1>2, <1>7, Working DEF Shaped
  <2>2. \A n \in DOMAIN task'[i].runs : \E m \in DOMAIN posted[i] :
          posted[i][m] = [life |-> n, outcome |-> task'[i].runs[n]]
    BY <1>2, <1>6, <1>12, <2>1 DEF IssueInv, Packeted
  <2>3. task'[i].phase \in QuietPhases => server'[i] # "running"
    BY <1>1, <1>2, <1>7, Working DEF Shaped, IssueInv
  <2>4. posted' = posted /\ landed' = landed /\ disk' = disk
    BY <1>7 DEF ClaimKept, FileKept
  <2> QED
    BY <1>1, <1>2, <2>2, <2>3, <2>4, Working DEF IssueInv, Packeted
<1>14. ProcInv(p)'
  <2>1. issueHolder'[i] = p /\ mem[p].seen <= Len(posted'[i])
    BY <1>1, <1>2, <1>7 DEF ProcInv, ClaimKept
  <2> QED
    BY <1>8, <2>1 DEF ProcInv, Unspent
<1> QED
  BY <1>1, <1>2, <1>9, <1>11, <1>13, <1>14, WorkStep

LEMMA ObserveInv ==
  ASSUME RunnerInv, NEW p \in Proc, Observe(p)
  PROVE  RunnerInv'
<1>1. Work(p) /\ job[p].at = "working" /\ mem[p].stage = "observe"
  BY DEF Observe, Work, At, Is
<1>2. PICK i \in Issue : i = IssueOf(p) /\ task[i] = TaskOf(p) /\ TaskOf(p) \in TaskShape
                         /\ IssueInv(i) /\ mem[p].seen \in Nat
  BY <1>1, Working
<1>3. PICK new : new = [TaskOf(p) EXCEPT !.observed = mem[p].seen]
  OBVIOUS
<1>4. new \in TaskShape /\ new.runs = TaskOf(p).runs /\ new.phase = TaskOf(p).phase
  BY <1>2, <1>3 DEF TaskShape
<1>5. /\ task' = task \/ task' = [task EXCEPT ![i] = new]
      /\ \E result \in {"completed", "error", "commit_pending"} : Return(p, result)
      /\ ClaimKept /\ UNCHANGED <<server, posted, late, landed>>
  BY <1>2, <1>3 DEF Observe, Save
<1>6. \A k \in Issue : Len(posted[k]) \in Nat
  BY <1>1, Working DEF Shaped
<1>7. ProcInv(p)'
  BY <1>1, <1>5, <1>6, Returned
<1>8. Shaped' /\ Local(p)
  <2>1. PICK result : Return(p, result)
    BY <1>5
  <2>2. /\ mem' \in [Proc -> [seen: Nat, stage: Stages]]
        /\ \A q \in Proc : q # p => mem'[q] = mem[q] /\ job'[q] = job[q]
    BY <2>1, ReturnOf
  <2>3. /\ task' \in [Issue -> TaskShape]
        /\ \A k \in Issue : k # i => task'[k] = task[k]
    BY <1>1, <1>2, <1>4, <1>5, Working DEF Shaped
  <2>4. Shaped'
    BY <1>1, <1>5, <2>2, <2>3, Working DEF Shaped, ClaimKept
  <2> QED
    BY <1>2, <1>5, <1>6, <2>2, <2>3, <2>4 DEF Local
<1>9. task'[i].runs = task[i].runs /\ task'[i].phase = task[i].phase
  BY <1>1, <1>2, <1>4, <1>5, Working DEF Shaped
<1>10. IssueInv(i)'
  BY <1>1, <1>2, <1>5, <1>9, Working DEF IssueInv, Packeted, ClaimKept, FileKept
<1> QED
  BY <1>1, <1>2, <1>7, <1>8, <1>10, WorkStep

LEMMA CallbackInv ==
  ASSUME RunnerInv, NEW p \in Proc, Work(p)
  PROVE  RunnerInv'
BY BeginInv, ResumeInv, ThreadInv, TurnInv, NoteTurnInv, AwaitInv, OwnerStopInv, RecoverInv,
   PackInv, PostInv, LandInv, PostedBeforeInv, RecordInv, ObserveInv, StopsInv
DEF Work
-----------------------------------------------------------------------------
(* The claim ledger under the watcher *)

\* Every step leaves the claim file alone, or takes a step of its operation.
LEMMA ClaimFileMove ==
  ASSUME ClaimInv, NEW p \in Proc, ClaimStep(p) \/ FailLease(p) \/ FailFile(p) \/ CrashClaim(p)
  PROVE  FileMove
<1>1. ASSUME File!FileStep \/ File!FileFault \/ File!Finish \/ File!FileCrash PROVE FileMove
  BY <1>1 DEF FileMove, File!FileNext
<1>2. ASSUME FileKept PROVE FileMove
  BY <1>2, FileKeptMove DEF FileKept
<1>3. ASSUME NEW at, NEW c \in Claim, Write(p, at, c) PROVE FileMove
  BY <1>3, StartMove DEF Write
<1>4. CASE ClearLease(p) \/ RefuseLease(p) \/ LeaveInstruction(p) \/ OrphanExits(p)
           \/ LeaveActive(p) \/ FailLease(p)
  BY <1>2, <1>4 DEF ClearLease, RefuseLease, LeaveInstruction, OrphanExits, LeaveActive, FailLease
<1>5. CASE StepFile(p) \/ FailFile(p) \/ CrashClaim(p)
  BY <1>1, <1>2, <1>5 DEF StepFile, FailFile, CrashClaim
<1>6. CASE FileError(p) \/ RefuseClaim(p) \/ StartWork(p) \/ Settled(p)
           \/ NothingToComplete(p) \/ Completed(p)
  BY <1>1, <1>6
  DEF FileError, RefuseClaim, StartWork, Settled, NothingToComplete, Completed, Stop
<1>7. CASE EnterLease(p)
  BY <1>7, StartMove, NoClaimTyped DEF EnterLease
<1>8. Read \in Claim
  BY TargetTyped
<1>9. PICK n \in Nat : n = Read.attempt + 1
  BY <1>8 DEF Claim
<1>10. CASE Activate(p)
  <2>1. job[p].retry \in BOOLEAN /\ job[p].issue \in Issue
    BY <1>10, JobOf DEF Activate, Answered, Is, Job
  <2>2. [Read EXCEPT !.status = "active", !.attempt = n, !.retry = job[p].retry,
                     !.origin = job[p].issue] \in Claim
    BY <1>8, <2>1 DEF Claim
  <2>3. File!Start("write", [Read EXCEPT !.status = "active", !.attempt = n,
                                         !.retry = job[p].retry, !.origin = job[p].issue])
    BY <1>9, <1>10 DEF Activate
  <2> QED
    BY <2>2, <2>3, StartMove
<1>11. CASE SettleClaim(p)
  BY <1>3, <1>11, OutcomesTyped DEF SettleClaim
<1>12. CASE ActivateToComplete(p)
  <2>1. [Read EXCEPT !.status = "active", !.attempt = n] \in Claim
    BY <1>8 DEF Claim
  <2> QED
    BY <1>3, <1>9, <1>12, <2>1 DEF ActivateToComplete
<1>13. CASE Complete(p)
  <2>1. [Read EXCEPT !.status = "completed"] \in Claim
    BY <1>8 DEF Claim
  <2> QED
    BY <1>3, <1>13, <2>1 DEF Complete
<1> QED
  BY <1>4, <1>5, <1>6, <1>7, <1>10, <1>11, <1>12, <1>13 DEF ClaimStep

\* A step of the ledger ends the cycle of its process, or goes on with the issue
\* and with what is remembered of it.
Onward(p) ==
  /\ UNCHANGED issueHolder
  /\ job[p].at \notin {"idle", "fetched"}
  /\ \E j \in Job :
       /\ job' = [job EXCEPT ![p] = j]
       /\ j.at \notin {"idle", "fetched"}
       /\ j.issue = job[p].issue
       /\ j.result = "none" => job[p].result = "none"
       /\ j.at \in {"issued", "selecting", "claiming", "reading", "activating", "completing"}
            => j.result = "none"
  /\ job[p].at = "working" => job[p].result # "none"

LEMMA ClaimStepJob ==
  ASSUME ClaimInv, NEW p \in Proc, ProcInv(p), ClaimStep(p) \/ FailLease(p) \/ FailFile(p)
  PROVE  ReleaseIssue(p) \/ Onward(p) \/ UNCHANGED <<issueHolder, job>>
<1>1. job[p] \in Job /\ job \in [Proc -> Job]
  BY JobOf DEF ClaimInv, JobTyped
<1>2. ASSUME NEW result \in Results, Stop(p, result),
             job[p].at \in {"reading", "activating", "completing", "settling"},
             result = "none" => job[p].result = "none"
      PROVE  Onward(p)
  <2>1. PICK j : j = [job[p] EXCEPT !.at = "leaving", !.result = result]
    OBVIOUS
  <2>2. j \in Job /\ j.at = "leaving" /\ j.issue = job[p].issue /\ j.result = result
    BY <1>1, <2>1 DEF Job, JobAt
  <2>3. job' = [job EXCEPT ![p] = j] /\ UNCHANGED issueHolder
    BY <1>1, <1>2, <2>1 DEF Stop, StopHolding, Job
  <2> QED
    BY <1>2, <2>2, <2>3 DEF Onward
<1>3. ASSUME NEW at \in JobAt \ {"idle", "fetched"}, Moves(p, at), UNCHANGED issueHolder,
             job[p].at \notin {"idle", "fetched"},
             at \in {"issued", "selecting", "claiming", "reading", "activating", "completing"}
               => job[p].result = "none",
             job[p].at = "working" => job[p].result # "none"
      PROVE  Onward(p)
  <2>1. PICK j : j = [job[p] EXCEPT !.at = at]
    OBVIOUS
  <2>2. j \in Job /\ j.at = at /\ j.issue = job[p].issue /\ j.result = job[p].result
    BY <1>1, <2>1 DEF Job
  <2>3. job' = [job EXCEPT ![p] = j]
    BY <1>3, <2>1 DEF Moves
  <2> QED
    BY <1>3, <2>2, <2>3 DEF Onward
<1>4. CASE ClearLease(p) \/ OrphanExits(p) \/ StepFile(p) \/ FailFile(p)
  BY <1>4 DEF ClearLease, OrphanExits, StepFile, FailFile
<1>5. CASE RefuseLease(p) \/ FailLease(p)
  BY <1>5 DEF RefuseLease, FailLease
<1>6. CASE FileError(p) \/ RefuseClaim(p)
  BY <1>2, <1>6 DEF FileError, RefuseClaim, Busy, Answered, Is, Results
<1>7. CASE NothingToComplete(p) \/ Completed(p)
  BY <1>2, <1>7 DEF NothingToComplete, Completed, Answered, Is, Results, ProcInv
<1>8. CASE Settled(p)
  BY <1>1, <1>2, <1>8 DEF Settled, Answered, Is, Job
<1>9. CASE EnterLease(p) \/ StartWork(p)
  BY <1>3, <1>9 DEF EnterLease, StartWork, Answered, Is, JobAt, ProcInv
<1>10. CASE LeaveInstruction(p)
  BY <1>3, <1>10 DEF LeaveInstruction, Is, JobAt
<1>11. CASE LeaveActive(p)
  BY <1>3, <1>11 DEF LeaveActive, StopHolding, Is, JobAt
<1>12. CASE SettleClaim(p)
  BY <1>3, <1>12 DEF SettleClaim, Write, Is, JobAt
<1>13. CASE ActivateToComplete(p) \/ Complete(p)
  BY <1>3, <1>13 DEF ActivateToComplete, Complete, Write, Answered, Is, JobAt, ProcInv
<1>14. CASE Activate(p)
  <2>1. PICK j : j = [job[p] EXCEPT !.at = "activating", !.base = Read]
    OBVIOUS
  <2>2. j \in Job /\ j.at = "activating" /\ j.issue = job[p].issue /\ j.result = job[p].result
    BY <1>1, <2>1, TargetTyped DEF Job, JobAt
  <2>3. job' = [job EXCEPT ![p] = j] /\ UNCHANGED issueHolder
    BY <1>1, <1>14, <2>1 DEF Activate, Job
  <2> QED
    BY <1>14, <2>2, <2>3 DEF Onward, Activate, Answered, Is, ProcInv
<1> QED
  BY <1>4, <1>5, <1>6, <1>7, <1>8, <1>9, <1>10, <1>11, <1>12, <1>13, <1>14 DEF ClaimStep

-----------------------------------------------------------------------------
(* Steps outside the callback *)

\* What is owed to a process that has no part in a step.
Bystander(q) ==
  /\ job'[q] = job[q]
  /\ mem'[q] = mem[q] \/ (job[q].at = "idle" /\ mem'[q] = NoMem)
  /\ job[q].at # "idle" /\ issueHolder[IssueOf(q)] = q => issueHolder'[IssueOf(q)] = q

\* Outside the callback a task changes in nothing but what its issue was seen at
\* and whether it may be retried.
LEMMA OutsideStep ==
  ASSUME RunnerInv, ClaimInv', Shaped', FileMove, UNCHANGED <<server, posted, landed>>,
         late' = late \/ LeaveSent,
         \A i \in Issue : /\ task'[i].phase = task[i].phase
                          /\ task'[i].runs = task[i].runs
                          /\ task'[i].outcome = task[i].outcome,
         \A q \in Proc : Bystander(q) \/ ProcInv(q)'
  PROVE  RunnerInv'
<1>1. ASSUME NEW i \in Issue PROVE IssueInv(i)'
  <2>1. IssueInv(i)
        /\ (Begun(i)' => Begun(i) \/ \A d \in disk : File!Logical(d) \in Originated(i))
    BY LeftBehind DEF RunnerInv, Begun
  <2>2. Begun(i)' => \A d \in disk' : File!Logical(d) \in Originated(i)
    BY <2>1, OriginKept DEF RunnerInv, IssueInv
  <2>3. \A n \in DOMAIN task'[i].runs : \E m \in DOMAIN posted[i] :
          posted[i][m] = [life |-> n, outcome |-> task'[i].runs[n]]
    BY <2>1 DEF IssueInv, Packeted
  <2> QED
    BY <2>1, <2>2, <2>3 DEF IssueInv, Packeted
<1>2. ASSUME NEW q \in Proc, Bystander(q) PROVE ProcInv(q)'
  <2>1. ProcInv(q) /\ (job[q].at # "idle" => IssueOf(q) \in Issue)
    BY JobOf DEF RunnerInv, IssueOf
  <2>2. CASE job[q].at = "idle"
    BY <1>2, <2>1, <2>2 DEF Bystander, ProcInv, Unspent, NoMem
  <2>3. CASE job[q].at # "idle"
    <3>1. IssueOf(q)' = IssueOf(q) /\ ThisPacket(q)' = ThisPacket(q)
          /\ mem'[q] = mem[q] /\ job'[q] = job[q]
          /\ (issueHolder[IssueOf(q)] = q => issueHolder'[IssueOf(q)] = q)
      BY <1>2, <2>1, <2>3 DEF Bystander, IssueOf, ThisPacket, TaskOf
    <3>2. NothingNew(q) <=> NothingNew(q)'
      BY <3>1 DEF NothingNew
    <3> QED
      BY <2>1, <3>1, <3>2 DEF ProcInv, Unspent, Packeted
  <2> QED
    BY <2>2, <2>3
<1>3. \A q \in Proc : ProcInv(q)'
  BY <1>2
<1> QED
  BY <1>1, <1>3 DEF RunnerInv

LEMMA ForgetTyped ==
  ASSUME Shaped, Forget
  PROVE  /\ mem' \in [Proc -> [seen: Nat, stage: Stages]]
         /\ \A q \in Proc : mem'[q] = IF job'[q].at = "idle" THEN NoMem ELSE mem[q]
BY DEF Shaped, Forget, NoMem, Stages

\* A cycle that ends gives its issue back and nobody else's.
LEMMA Ended ==
  ASSUME RunnerInv, NEW p \in Proc, ReleaseIssue(p), Forget
  PROVE  /\ issueHolder' \in [Issue -> Proc \cup {NoOne}]
         /\ mem' \in [Proc -> [seen: Nat, stage: Stages]]
         /\ \A q \in Proc : Bystander(q) \/ ProcInv(q)'
<1>1. job \in [Proc -> Job] /\ Shaped
  BY DEF RunnerInv, ClaimInv, JobTyped
<1>2. issueHolder' \in [Issue -> Proc \cup {NoOne}]
  BY <1>1 DEF ReleaseIssue, Shaped
<1>3. ASSUME NEW q \in Proc, q # p PROVE Bystander(q)
  <2>1. job'[q] = job[q] /\ (job[q].at # "idle" => IssueOf(q) \in Issue)
    BY <1>1, <1>3, JobOf DEF ReleaseIssue, RunnerInv, IssueOf
  <2>2. mem'[q] = mem[q] \/ (job[q].at = "idle" /\ mem'[q] = NoMem)
    BY <1>1, <2>1, ForgetTyped
  <2>3. job[q].at # "idle" /\ issueHolder[IssueOf(q)] = q => issueHolder'[IssueOf(q)] = q
    BY <1>3, <2>1 DEF ReleaseIssue
  <2> QED
    BY <2>1, <2>2, <2>3 DEF Bystander
<1>4. ProcInv(p)'
  <2>1. job'[p].at = "idle" /\ mem'[p] = NoMem
    BY <1>1, ForgetTyped, NoJobTyped DEF ReleaseIssue
  <2> QED
    BY <2>1 DEF ProcInv, Unspent, NoMem
<1> QED
  BY <1>1, <1>2, <1>3, <1>4, ForgetTyped

LEMMA FetchRuns ==
  ASSUME RunnerInv, NEW p \in Proc, NEW i \in Issue, Fetch(p, i)
  PROVE  RunnerInv'
<1>1. ClaimInv' /\ FileMove
  BY FetchInv, FileKeptMove DEF RunnerInv, Fetch, FileKept
<1>2. job \in [Proc -> Job] /\ Shaped /\ job[p] \in Job /\ job[p].at = "idle" /\ ProcInv(p)
      /\ Len(posted[i]) \in Nat
  BY DEF RunnerInv, ClaimInv, JobTyped, Shaped, Fetch, Is
<1>3. Shaped'
  BY <1>2 DEF Fetch, Shaped
<1>4. job'[p] = [job[p] EXCEPT !.at = "fetched", !.issue = i] /\ mem'[p] = [mem[p] EXCEPT !.seen = Len(posted[i])]
  BY <1>2 DEF Fetch, Shaped
<1>5. job'[p].at = "fetched" /\ IssueOf(p)' = i /\ mem'[p].seen = Len(posted[i])
      /\ mem'[p].stage = mem[p].stage
  BY <1>2, <1>4 DEF Job, IssueOf, Shaped
<1>6. ProcInv(p)'
  BY <1>2, <1>5 DEF ProcInv, Unspent, Fetch
<1>7. \A q \in Proc : q # p => Bystander(q)
  BY <1>2 DEF Fetch, Bystander, Shaped
<1> QED
  BY <1>1, <1>3, <1>6, <1>7, OutsideStep DEF Fetch

LEMMA OpenIssueRuns ==
  ASSUME RunnerInv, NEW p \in Proc, NEW i \in Issue, OpenIssue(p, i)
  PROVE  RunnerInv'
<1>1. ClaimInv' /\ FileMove
  BY OpenIssueInv, FileKeptMove DEF RunnerInv, OpenIssue, FileKept
<1>2. job \in [Proc -> Job] /\ Shaped /\ job[p] \in Job /\ job[p].at \in {"idle", "fetched"}
      /\ ProcInv(p) /\ Len(posted[i]) \in Nat /\ issueHolder[i] = NoOne
      /\ mem[p] \in [seen: Nat, stage: Stages]
  BY DEF RunnerInv, ClaimInv, JobTyped, Shaped, OpenIssue, TakeIssue, Is
<1>3. issueHolder' \in [Issue -> Proc \cup {NoOne}] /\ issueHolder'[i] = p
      /\ \A k \in Issue : k # i => issueHolder'[k] = issueHolder[k]
  BY <1>2 DEF OpenIssue, TakeIssue, Shaped
<1>4. /\ mem' \in [Proc -> [seen: Nat, stage: Stages]]
      /\ mem'[p].stage = mem[p].stage
      /\ \A q \in Proc : q # p => mem'[q] = mem[q]
      /\ \/ i \in Leased /\ mem'[p].seen = Len(posted[i])
         \/ job[p].at = "fetched" /\ IssueOf(p) = i /\ mem'[p].seen = mem[p].seen
  <2>1. CASE i \in Leased /\ mem' = [mem EXCEPT ![p].seen = Len(posted[i])]
    <3>1. PICK m : m = [mem[p] EXCEPT !.seen = Len(posted[i])]
      OBVIOUS
    <3>2. m \in [seen: Nat, stage: Stages] /\ m.stage = mem[p].stage /\ m.seen = Len(posted[i])
      BY <1>2, <3>1
    <3>3. mem' = [mem EXCEPT ![p] = m] /\ mem \in [Proc -> [seen: Nat, stage: Stages]]
      BY <1>2, <2>1, <3>1 DEF Shaped
    <3>4. mem'[p] = m /\ mem' \in [Proc -> [seen: Nat, stage: Stages]]
          /\ \A q \in Proc : q # p => mem'[q] = mem[q]
      BY <3>2, <3>3
    <3> QED
      BY <2>1, <3>2, <3>4
  <2>2. CASE job[p].at = "fetched" /\ IssueOf(p) = i /\ UNCHANGED mem
    BY <1>2, <2>2 DEF Shaped
  <2> QED
    BY <2>1, <2>2 DEF OpenIssue, Is
<1>5. Shaped'
  BY <1>2, <1>3, <1>4 DEF OpenIssue, Shaped
<1>6. job'[p] = [NoJob EXCEPT !.at = "issued", !.issue = i]
  BY <1>2 DEF OpenIssue, TakeIssue
<1>7. job'[p].at = "issued" /\ IssueOf(p)' = i /\ job'[p].result = "none"
  BY <1>6 DEF IssueOf, NoJob
<1>8. ProcInv(p)'
  <2>1. i \in Leased => NothingNew(p)'
    <3>1. posted' = posted /\ DOMAIN posted[i] = 1..Len(posted[i])
      BY <1>2 DEF OpenIssue, Shaped
    <3>2. i \in Leased => mem'[p].seen = Len(posted[i])
      BY <1>2, <1>4 DEF ProcInv
    <3> QED
      BY <1>2, <1>7, <3>1, <3>2 DEF NothingNew
  <2> QED
    BY <1>2, <1>3, <1>4, <1>7, <2>1 DEF ProcInv, Unspent, OpenIssue
<1>9. ASSUME NEW q \in Proc, q # p PROVE Bystander(q)
  <2>1. job'[q] = job[q] /\ mem'[q] = mem[q] /\ (job[q].at # "idle" => IssueOf(q) \in Issue)
    BY <1>2, <1>4, <1>9, JobOf DEF OpenIssue, TakeIssue, RunnerInv, IssueOf
  <2>2. issueHolder[i] # q
    BY <1>2, OwnersDiffer
  <2> QED
    BY <1>3, <2>1, <2>2 DEF Bystander
<1> QED
  BY <1>1, <1>5, <1>8, <1>9, OutsideStep DEF OpenIssue

LEMMA EndCycleRuns ==
  ASSUME RunnerInv, NEW p \in Proc, EndCycle(p) \/ NothingSelected(p)
  PROVE  RunnerInv'
<1>1. ReleaseIssue(p) /\ Forget /\ LeaseKept /\ FileKept
      /\ UNCHANGED <<server, posted, late, landed>>
      /\ job[p].at \in {"fetched", "issued", "selecting"}
  BY DEF EndCycle, NothingSelected, Ready, Current, Is
<1>2. ClaimInv' /\ FileMove
  BY <1>1, QuietEndInv, FileKeptMove DEF RunnerInv, FileKept
<1>3. IssueOf(p) \in Issue /\ Shaped /\ mem[p].seen \in Nat
  BY <1>1, JobOf DEF RunnerInv, Shaped, IssueOf
<1>4. /\ task' \in [Issue -> TaskShape]
      /\ \A i \in Issue : /\ task'[i].phase = task[i].phase
                          /\ task'[i].runs = task[i].runs
                          /\ task'[i].outcome = task[i].outcome
  <2>1. CASE task' = task
    BY <1>3, <2>1 DEF Shaped
  <2>2. CASE task' = [task EXCEPT ![IssueOf(p)].observed = mem[p].seen]
    <3>1. PICK i \in Issue : i = IssueOf(p)
      BY <1>3
    <3>2. PICK new : new = [task[i] EXCEPT !.observed = mem[p].seen]
      OBVIOUS
    <3>3. task \in [Issue -> TaskShape] /\ task[i] \in TaskShape
      BY <1>3, <3>1 DEF Shaped
    <3>4. /\ new \in TaskShape
          /\ new.phase = task[i].phase
          /\ new.runs = task[i].runs
          /\ new.outcome = task[i].outcome
      BY <1>3, <3>2, <3>3 DEF TaskShape
    <3>5. task' = [task EXCEPT ![i] = new]
      BY <2>2, <3>1, <3>2, <3>3
    <3> QED
      BY <3>3, <3>4, <3>5
  <2> QED
    BY <2>1, <2>2 DEF EndCycle, NothingSelected
<1>5. Shaped'
  BY <1>1, <1>3, <1>4, Ended DEF Shaped
<1> QED
  BY <1>1, <1>2, <1>4, <1>5, Ended, OutsideStep

LEMMA AskRuns ==
  ASSUME RunnerInv, NEW p \in Proc, AskToComplete(p) \/ AskToClaim(p)
  PROVE  RunnerInv'
<1>1. job[p].at \in {"issued", "selecting"} /\ FileKept
      /\ UNCHANGED <<issueHolder, task, server, posted, late, landed, mem>>
  BY DEF AskToComplete, AskToClaim, Ready, Current, Is
<1>2. job \in [Proc -> Job] /\ Shaped /\ job[p] \in Job /\ IssueOf(p) \in Issue /\ ProcInv(p)
  BY <1>1, JobOf DEF RunnerInv, ClaimInv, JobTyped, IssueOf
<1>3. PICK kind \in {"claim", "complete"}, retry \in BOOLEAN : Ask(p, kind, retry)
  <2>1. TaskOf(p).retry \in BOOLEAN
    BY <1>2 DEF Shaped, TaskOf, TaskShape
  <2> QED
    BY <2>1 DEF AskToComplete, AskToClaim
<1>4. ClaimInv' /\ FileMove
  BY <1>1, <1>3, AskInv, FileKeptMove DEF RunnerInv, FileKept
<1>5. PICK j : j = [job[p] EXCEPT !.at = "claiming", !.kind = kind, !.retry = retry]
  OBVIOUS
<1>6. j.at = "claiming" /\ j.issue = job[p].issue /\ j.result = job[p].result
  BY <1>2, <1>5 DEF Job
<1>7. job' = [job EXCEPT ![p] = j]
  BY <1>2, <1>3, <1>5 DEF Ask, Job
<1>8. ProcInv(p)'
  <2>1. job'[p] = j /\ IssueOf(p)' = IssueOf(p)
    BY <1>2, <1>6, <1>7 DEF IssueOf
  <2>2. NothingNew(p) <=> NothingNew(p)'
    BY <1>1, <2>1 DEF NothingNew
  <2> QED
    BY <1>1, <1>2, <1>6, <2>1, <2>2 DEF ProcInv, Unspent
<1>9. \A q \in Proc : q # p => Bystander(q)
  BY <1>1, <1>2, <1>7 DEF Bystander
<1>10. Shaped'
  BY <1>1, <1>2 DEF Shaped
<1> QED
  BY <1>1, <1>4, <1>8, <1>9, <1>10, OutsideStep

LEMMA LedgerRuns ==
  ASSUME RunnerInv, NEW p \in Proc, ClaimWork(p) \/ ClaimFault(p)
  PROVE  RunnerInv'
<1>1. Forget /\ UNCHANGED <<task, server, posted, landed>>
      /\ late' \in [Issue -> [Packet -> Nat]] /\ (late' = late \/ LeaveSent)
  BY LeftBehind DEF ClaimWork, ClaimFault
<1>2. ClaimInv' /\ FileMove
  BY ClaimStepInv, RefuseLeaseInv, OnFileInv, CrashClaimInv, ClaimFileMove
  DEF RunnerInv, ClaimWork, ClaimFault
<1>3. job \in [Proc -> Job] /\ Shaped /\ ProcInv(p)
  BY DEF RunnerInv, ClaimInv, JobTyped
<1>4. ReleaseIssue(p) \/ Onward(p) \/ UNCHANGED <<issueHolder, job>>
  BY <1>3, ClaimStepJob DEF RunnerInv, ClaimWork, ClaimFault, CrashClaim
<1>5. CASE ReleaseIssue(p)
  <2>1. Shaped'
    BY <1>1, <1>3, <1>5, Ended DEF Shaped
  <2> QED
    BY <1>1, <1>2, <1>5, <2>1, Ended, OutsideStep
<1>6. CASE UNCHANGED <<issueHolder, job>>
  <2>1. Shaped'
    BY <1>1, <1>3, <1>6, ForgetTyped DEF Shaped
  <2>2. \A q \in Proc : Bystander(q)
    BY <1>1, <1>3, <1>6, ForgetTyped DEF Bystander
  <2> QED
    BY <1>1, <1>2, <2>1, <2>2, OutsideStep
<1>7. CASE Onward(p)
  <2>1. PICK j \in Job :
          /\ job' = [job EXCEPT ![p] = j]
          /\ j.at \notin {"idle", "fetched"}
          /\ j.issue = job[p].issue
          /\ j.result = "none" => job[p].result = "none"
          /\ j.at \in {"issued", "selecting", "claiming", "reading", "activating", "completing"}
               => j.result = "none"
    BY <1>7 DEF Onward
  <2>2. /\ issueHolder' = issueHolder
        /\ job[p].at \notin {"idle", "fetched"}
        /\ job[p].at = "working" => job[p].result # "none"
    BY <1>7 DEF Onward
  <2>3. job'[p] = j /\ IssueOf(p)' = IssueOf(p) /\ mem'[p] = mem[p]
    BY <1>1, <1>3, <2>1, ForgetTyped DEF IssueOf
  <2>4. ProcInv(p)'
    <3>1. NothingNew(p) <=> NothingNew(p)'
      BY <1>1, <2>3 DEF NothingNew
    <3> QED
      BY <1>1, <1>3, <2>1, <2>2, <2>3, <3>1 DEF ProcInv, Unspent
  <2>5. \A q \in Proc : q # p => Bystander(q)
    BY <1>1, <1>3, <2>1, <2>2, ForgetTyped DEF Bystander
  <2>6. Shaped'
    BY <1>1, <1>3, <2>2, ForgetTyped DEF Shaped
  <2> QED
    BY <1>1, <1>2, <2>4, <2>5, <2>6, OutsideStep
<1> QED
  BY <1>4, <1>5, <1>6, <1>7

LEMMA PowerRuns ==
  ASSUME RunnerInv, PowerFault
  PROVE  RunnerInv'
<1>1. ClaimInv' /\ FileMove
  BY LosePowerInv DEF RunnerInv, PowerFault, LosePower, FileMove, File!FileNext
<1>2. /\ issueHolder' \in [Issue -> Proc \cup {NoOne}]
      /\ \A q \in Proc : job'[q] = NoJob
      /\ Forget /\ UNCHANGED <<task, server, posted, landed>>
      /\ late' \in [Issue -> [Packet -> Nat]] /\ (late' = late \/ LeaveSent)
  BY LeftBehind DEF PowerFault, LosePower
<1>3. Shaped'
  BY <1>2, ForgetTyped DEF RunnerInv, Shaped
<1>4. \A q \in Proc : mem'[q] = NoMem
  BY <1>2, ForgetTyped, NoJobTyped DEF RunnerInv
<1>5. \A q \in Proc : ProcInv(q)'
  BY <1>2, <1>4, NoJobTyped DEF ProcInv, Unspent, NoMem
<1> QED
  BY <1>1, <1>2, <1>3, <1>5, OutsideStep

\* Nothing of the ledger changes.
LEMMA ClaimInvQuiet ==
  ASSUME ClaimInv, UNCHANGED claimVars
  PROVE  ClaimInv'
<1>1. LeaseInv'
  BY LeaseStepInv DEF ClaimInv, claimVars, leaseVars
<1>2. File!FileInv'
  BY FileStepKeeps, FileKeptMove DEF ClaimInv, claimVars
<1>3. Activated'
  <2> SUFFICES ASSUME NEW q \in Proc PROVE OwnClaim(job[q])'
    BY DEF Activated
  <2>1. PICK j : j = job[q]
    OBVIOUS
  <2>2. OwnClaim(j)'
    BY <2>1, OwnClaimKept, JobOf DEF claimVars
  <2> QED
    BY <2>1, <2>2 DEF OwnClaim, OwnRecord, claimVars
<1> QED
  BY <1>1, <1>2, <1>3 DEF ClaimInv, JobTyped, Coupled, claimVars

LEMMA AllowRetryRuns ==
  ASSUME RunnerInv, NEW i \in Issue, AllowRetry(i)
  PROVE  RunnerInv'
<1>1. ClaimInv' /\ FileMove /\ Shaped
  BY ClaimInvQuiet, FileKeptMove DEF RunnerInv, AllowRetry, claimVars
<1>2. task' \in [Issue -> TaskShape]
      /\ \A k \in Issue : task'[k] = task[k] \/ task'[k] = [task[k] EXCEPT !.retry = TRUE]
  BY <1>1 DEF AllowRetry, Shaped, TaskShape
<1>3. Shaped' /\ \A k \in Issue : /\ task'[k].phase = task[k].phase
                                  /\ task'[k].runs = task[k].runs
                                  /\ task'[k].outcome = task[k].outcome
  BY <1>1, <1>2 DEF AllowRetry, claimVars, Shaped, TaskShape
<1>4. \A q \in Proc : Bystander(q)
  BY DEF AllowRetry, claimVars, Bystander
<1> QED
  BY <1>1, <1>3, <1>4, OutsideStep DEF AllowRetry

LEMMA TurnEndsRuns ==
  ASSUME RunnerInv, NEW i \in Issue, TurnEnds(i)
  PROVE  RunnerInv'
<1>1. /\ ClaimInv' /\ Shaped
      /\ UNCHANGED <<issueHolder, job, disk, dir, task, posted, late, landed, mem>>
  BY ClaimInvQuiet DEF RunnerInv, TurnEnds, claimVars
<1>2. PICK status \in {"completed", "failed", "interrupted"} :
        server' = [server EXCEPT ![i] = status]
  BY DEF TurnEnds
<1>3. Shaped' /\ \A k \in Issue : server[k] # "running" => server'[k] # "running"
  BY <1>1, <1>2 DEF Shaped, TurnStatus
<1>4. ASSUME NEW k \in Issue PROVE IssueInv(k)'
  BY <1>1, <1>3 DEF RunnerInv, IssueInv, Begun, Adrift, Packeted
<1>5. ASSUME NEW q \in Proc PROVE ProcInv(q)'
  <2>1. ProcInv(q) /\ (job[q].at # "idle" => IssueOf(q) \in Issue)
    BY JobOf DEF RunnerInv, IssueOf
  <2> QED
    BY <1>1, <1>3, <2>1
    DEF ProcInv, Unspent, NothingNew, IssueOf, ThisPacket, TaskOf, Packeted
<1>6. (\A k \in Issue : IssueInv(k)') /\ (\A q \in Proc : ProcInv(q)')
  BY <1>4, <1>5
<1> QED
  BY <1>1, <1>3, <1>6 DEF RunnerInv

\* A post that nobody waits for any more lands: whoever reads the comments meanwhile
\* has not seen it, and the packets published before are still there.
LEMMA LandLateRuns ==
  ASSUME RunnerInv, NEW i \in Issue, LandLate(i)
  PROVE  RunnerInv'
<1>1. /\ ClaimInv' /\ Shaped
      /\ UNCHANGED <<issueHolder, job, disk, dir, task, server, mem>>
  BY ClaimInvQuiet DEF RunnerInv, LandLate, claimVars
<1>2. PICK packet \in Packet :
        /\ late[i][packet] > 0
        /\ late' = [late EXCEPT ![i][packet] = @ - 1]
        /\ posted' = [posted EXCEPT ![i] = Append(@, packet)]
  BY DEF LandLate
<1>3. landed' = [landed EXCEPT ![i] = @ \cup {Len(posted[i]) + 1}]
  BY DEF LandLate
<1>4. packet \in PacketShape
  BY DEF Packet, PacketShape, Outcome
<1>5. /\ posted[i] \in Seq(PacketShape)
      /\ posted'[i] = Append(posted[i], packet)
      /\ posted' \in [Issue -> Seq(PacketShape)]
      /\ Len(posted[i]) \in Nat
      /\ Len(posted'[i]) = Len(posted[i]) + 1
      /\ DOMAIN posted[i] = 1..Len(posted[i]) /\ DOMAIN posted'[i] = 1..(Len(posted[i]) + 1)
      /\ \A m \in DOMAIN posted[i] : posted'[i][m] = posted[i][m]
      /\ \A k \in Issue : k # i => posted'[k] = posted[k]
  BY <1>1, <1>2, <1>4 DEF Shaped
<1>6. /\ landed' \in [Issue -> SUBSET Nat]
      /\ landed'[i] = landed[i] \cup {Len(posted[i]) + 1}
      /\ \A k \in Issue : k # i => landed'[k] = landed[k]
  BY <1>1, <1>3, <1>5 DEF Shaped
<1>7. /\ late' \in [Issue -> [Packet -> Nat]]
      /\ \A k \in Issue : k # i => late'[k] = late[k]
  BY <1>1, <1>2 DEF Shaped
<1>8. Shaped'
  BY <1>1, <1>5, <1>6, <1>7 DEF Shaped
<1>9. ASSUME NEW k \in Issue, NEW n, NEW outcome, Packeted(k, n, outcome)
      PROVE  Packeted(k, n, outcome)'
  <2>1. PICK m \in DOMAIN posted[k] : posted[k][m] = [life |-> n, outcome |-> outcome]
    BY <1>9 DEF Packeted
  <2>2. m \in DOMAIN posted'[k] /\ posted'[k][m] = posted[k][m]
    <3>1. CASE k = i
      BY <1>5, <2>1, <3>1
    <3>2. CASE k # i
      BY <1>5, <2>1, <3>2
    <3> QED
      BY <3>1, <3>2
  <2> QED
    BY <2>1, <2>2 DEF Packeted
<1>10. ASSUME NEW k \in Issue PROVE IssueInv(k)'
  <2>1. IssueInv(k) /\ task' = task /\ server' = server /\ disk' = disk
    BY <1>1 DEF RunnerInv
  <2>2. Begun(k)' => Begun(k)
    BY <1>2, <1>5, <1>7, <2>1 DEF Begun, Adrift
  <2>3. k \in Leased => \A a, b \in DOMAIN posted'[k] \ landed'[k] : a = b
    <3>1. DOMAIN posted'[k] \ landed'[k] \subseteq DOMAIN posted[k] \ landed[k]
      BY <1>5, <1>6
    <3> QED
      BY <2>1, <3>1 DEF IssueInv
  <2>4. \A n \in DOMAIN task[k].runs : Packeted(k, n, task[k].runs[n])'
    BY <1>9, <2>1 DEF IssueInv
  <2> QED
    BY <2>1, <2>2, <2>3, <2>4 DEF IssueInv, Packeted
<1>11. ASSUME NEW q \in Proc PROVE ProcInv(q)'
  <2>1. ProcInv(q) /\ (job[q].at # "idle" => IssueOf(q) \in Issue)
        /\ IssueOf(q)' = IssueOf(q) /\ ThisPacket(q)' = ThisPacket(q)
        /\ mem[q].seen \in Nat
    BY <1>1, JobOf DEF RunnerInv, Shaped, IssueOf, ThisPacket, TaskOf
  <2>2. mem[q].stage = "record" =>
          Packeted(IssueOf(q), ThisPacket(q).life, ThisPacket(q).outcome)'
    <3>1. mem[q].stage = "record" => IssueOf(q) \in Issue
      BY <2>1 DEF ProcInv
    <3> QED
      BY <1>9, <2>1, <3>1 DEF ProcInv
  <2>3. job[q].at # "idle" => mem[q].seen <= Len(posted'[IssueOf(q)])
    <3>1. ASSUME NEW k \in Issue
          PROVE  /\ Len(posted'[k]) >= Len(posted[k])
                 /\ Len(posted'[k]) \in Nat /\ Len(posted[k]) \in Nat
      <4>1. posted[k] \in Seq(PacketShape)
        BY <1>1 DEF Shaped
      <4>2. CASE k = i
        BY <1>5, <4>2
      <4>3. CASE k # i
        BY <1>5, <4>1, <4>3
      <4> QED
        BY <4>2, <4>3
    <3> QED
      BY <2>1, <3>1 DEF ProcInv
  <2>4. job[q].at # "idle" /\ NothingNew(q) => NothingNew(q)'
    BY <1>1, <1>5, <1>6, <2>1 DEF NothingNew
  <2> QED
    BY <1>1, <2>1, <2>2, <2>3, <2>4 DEF ProcInv, Unspent, Packeted
<1>12. (\A k \in Issue : IssueInv(k)') /\ (\A q \in Proc : ProcInv(q)')
  BY <1>10, <1>11
<1> QED
  BY <1>1, <1>2, <1>8, <1>12 DEF RunnerInv

-----------------------------------------------------------------------------
(* The whole watcher *)

LEMMA RunnerInitInv ==
  ASSUME Init
  PROVE  RunnerInv
<1>1. LeaseInv
  BY LeaseInitInv DEF Init, ClaimInit
<1>2. File!FileInv
  <2>1. Proved!FileInit
    BY DEF Init, ClaimInit, File!FileInit, File!Empty, File!Rest, File!Void,
           Proved!FileInit, Proved!Empty, Proved!Rest, Proved!Void
  <2> QED
    BY <2>1, NoClaimTyped, Proved!FileInitInv, SameInv
<1>3. ClaimInv
  BY <1>1, <1>2, NoJobTyped
  DEF Init, ClaimInit, LeaseInit, ClaimInv, JobTyped, Coupled, AtPhase, Activated, OwnClaim
<1>4. NewTask \in TaskShape /\ NewTask.runs = <<>> /\ NewTask.phase = "none"
  BY DEF NewTask, TaskShape, TaskPhases, Outcome
<1>5. NoMem \in [seen: Nat, stage: Stages] /\ NoMem.stage = "load"
  BY DEF NoMem, Stages
<1>6. Shaped
  BY <1>4, <1>5 DEF Init, ClaimInit, Shaped, TurnStatus
<1>7. \A i \in Issue : IssueInv(i)
  BY <1>4 DEF Init, IssueInv, Begun, Adrift
<1>8. \A p \in Proc : ProcInv(p)
  BY <1>5, NoJobTyped DEF Init, ClaimInit, ProcInv, Unspent
<1> QED
  BY <1>3, <1>6, <1>7, <1>8 DEF RunnerInv

LEMMA RunnerStepInv ==
  ASSUME RunnerInv, [Next]_vars
  PROVE  RunnerInv'
<1>1. ASSUME NEW p \in Proc, NEW i \in Issue, Fetch(p, i) \/ OpenIssue(p, i)
      PROVE  RunnerInv'
  BY <1>1, FetchRuns, OpenIssueRuns
<1>2. ASSUME NEW p \in Proc, EndCycle(p) \/ NothingSelected(p) \/ AskToComplete(p) \/ AskToClaim(p)
      PROVE  RunnerInv'
  BY <1>2, EndCycleRuns, AskRuns
<1>3. ASSUME NEW p \in Proc, Work(p) PROVE RunnerInv'
  BY <1>3, CallbackInv
<1>4. ASSUME NEW p \in Proc, ClaimWork(p) \/ ClaimFault(p) PROVE RunnerInv'
  BY <1>4, LedgerRuns
<1>5. ASSUME NEW i \in Issue, TurnEnds(i) \/ AllowRetry(i) \/ LandLate(i) PROVE RunnerInv'
  BY <1>5, TurnEndsRuns, AllowRetryRuns, LandLateRuns
<1>6. CASE PowerFault
  BY <1>6, PowerRuns
<1>7. CASE UNCHANGED vars
  <2>1. ClaimInv'
    BY <1>7, ClaimInvQuiet DEF RunnerInv, vars
  <2> QED
    BY <1>7, <2>1
    DEF vars, claimVars, RunnerInv, Shaped, IssueInv, Begun, Adrift, Packeted, ProcInv,
        Unspent, NothingNew, IssueOf, ThisPacket, TaskOf
<1> QED
  BY <1>1, <1>2, <1>3, <1>4, <1>5, <1>6, <1>7 DEF Next

\* The watcher keeps its invariant, whatever crashes, fails or is lost.
THEOREM RunnerAlways == Spec => []RunnerInv
<1>1. Init => RunnerInv
  BY RunnerInitInv
<1>2. RunnerInv /\ [Next]_vars => RunnerInv'
  BY RunnerStepInv
<1> QED
  BY <1>1, <1>2, PTL DEF Spec

\* Two processes never work under an instruction's lease at once: the composed
\* watcher, acquireCrashSafeFileLease and releaseCrashSafeFileLease.
THEOREM RunnerExcludes == Spec => []OneHolder
<1>1. RunnerInv => OneHolder
  BY LeaseInvExcludes DEF RunnerInv, ClaimInv
<1> QED
  BY <1>1, RunnerAlways, PTL

\* An instruction that was begun under an issue is claimed for it in every state
\* of the directory that a loss of power may leave.
THEOREM RunnerOneOrigin == Spec => []OneOrigin
<1>1. RunnerInv => OneOrigin
  BY DEF RunnerInv, IssueInv, Begun, Originated, OneOrigin
<1> QED
  BY <1>1, RunnerAlways, PTL

\* The callback of withClaim runs with its own active record behind it.
THEOREM RunnerWorksClaimed == Spec => []WorkIsClaimed
<1>1. RunnerInv => WorkIsClaimed
  BY JobOf DEF RunnerInv, WorkIsClaimed, OwnClaim, OwnRecord, IssueOf, Is
<1> QED
  BY <1>1, RunnerAlways, PTL

\* On an issue that is read under its lease at most one post of a packet lands while
\* its caller waits, answered or not, whatever crashes and takes over and whatever
\* was left behind and lands in between: #completeInstruction.  It says nothing of
\* the posts left behind, for which NoResultTwice fails.
THEOREM RunnerPostsOnce == Spec => []LeasedPostedOnce
<1>1. RunnerInv => LeasedPostedOnce
  BY LeasedAreIssues DEF RunnerInv, IssueInv, LeasedPostedOnce, PostedOnceOn
<1> QED
  BY <1>1, RunnerAlways, PTL

\* What a task records of its runs was published: #completeInstruction posts
\* before it records.
THEOREM RunnerPublishes == Spec => []RunsPublished
<1>1. RunnerInv => RunsPublished
  BY DEF RunnerInv, IssueInv, Packeted, RunsPublished
<1> QED
  BY <1>1, RunnerAlways, PTL

\* No turn is started next to one that runs: the recovery of runOnce.
THEOREM RunnerNoOverlap == Spec => NoTurnOverlap
<1>1. RunnerInv => (\A p \in Proc : At(p, "turn") /\ At(p, "note")' => ~ServerSays(p, "running"))
  BY DEF RunnerInv, ProcInv, At, ServerSays
<1> QED
  BY <1>1, RunnerAlways, PTL DEF NoTurnOverlap

LEMMA RunnerFileMove ==
  ASSUME RunnerInv, [Next]_vars
  PROVE  FileMove
<1>1. ASSUME FileKept PROVE FileMove
  BY <1>1, FileKeptMove DEF FileKept
<1>2. ASSUME NEW p \in Proc, Work(p) PROVE FileKept
  BY <1>2, WorkKeeps DEF RunnerInv, ClaimInv, ClaimKept
<1>3. ASSUME NEW p \in Proc, ClaimWork(p) \/ ClaimFault(p) PROVE FileMove
  BY <1>3, ClaimFileMove DEF RunnerInv, ClaimWork, ClaimFault
<1>4. ASSUME NEW p \in Proc, EndCycle(p) \/ NothingSelected(p) \/ AskToComplete(p) \/ AskToClaim(p)
      PROVE  FileKept
  BY <1>4 DEF EndCycle, NothingSelected, AskToComplete, AskToClaim
<1>5. ASSUME NEW p \in Proc, NEW i \in Issue, Fetch(p, i) \/ OpenIssue(p, i) PROVE FileKept
  BY <1>5 DEF Fetch, OpenIssue
<1>6. ASSUME NEW i \in Issue, TurnEnds(i) \/ AllowRetry(i) \/ LandLate(i) PROVE FileKept
  BY <1>6 DEF TurnEnds, AllowRetry, LandLate, claimVars, FileKept
<1>7. ASSUME PowerFault PROVE FileMove
  BY <1>7 DEF PowerFault, LosePower, FileMove, File!FileNext
<1>8. ASSUME UNCHANGED vars PROVE FileKept
  BY <1>8 DEF vars, claimVars, FileKept
<1> QED
  BY <1>1, <1>2, <1>3, <1>4, <1>5, <1>6, <1>7, <1>8 DEF Next

\* Under the watcher too the claim file is one record, replaced along
\* validQueueTransaction and taken back by no crash.
THEOREM RunnerKeepsLedger == Spec => KeepsLedger
<1>1. Init => File!Record!Init
  BY DEF Init, ClaimInit, File!FileInit, File!Empty, File!Record!Init, File!Lasting,
         File!Agreed, File!Logical
<1>2. RunnerInv /\ [Next]_vars => [File!Record!Replace]_(File!Lasting)
  BY RunnerFileMove, FileStepKeeps DEF RunnerInv, ClaimInv, LedgerMove
<1> QED
  BY <1>1, <1>2, RunnerAlways, PTL DEF Spec, KeepsLedger, File!KeepsRecord, File!Record!Spec

-----------------------------------------------------------------------------
(* What is recorded of the runs: a second invariant, on top of the first *)

Ran(i) == task[i].runs # <<>>

\* The claims that are completed for an issue whose instruction ran, or not yet.
Earned == {c \in Claim : c.status = "completed" => c.origin \in Issue /\ Ran(c.origin)}

\* A claim that is asked to be completed, a callback that recorded its run and one
\* that says so speak of an instruction that ran.
JobEarned(p) ==
  /\ job[p].base \in Earned
  /\ job[p].kind = "complete" /\ job[p].at \in {"claiming", "reading", "activating"}
       => Ran(IssueOf(p))
  /\ job[p].at = "working" /\ (job[p].result = "completed" \/ mem[p].stage = "observe")
       => Ran(IssueOf(p))

\* A packet is made of a second run at the latest.
TaskBound(i) ==
  /\ task[i].runs \in Seq(Final)
  /\ task[i].turns <= MaxTurns
  /\ task[i].phase = "result_pending" => task[i].outcome \in Final
  /\ task[i].phase # "none" => Len(task[i].runs) <= 1
  /\ posted[i] \in Seq(Packet)

\* The process is on its way to a run that it has not recorded.
Unrecorded(p) ==
  \/ job[p].at \in {"selecting", "claiming", "reading", "activating", "completing"}
  \/ job[p].at = "working" /\ job[p].result = "none" /\ mem[p].stage # "observe"
  \/ job[p].at = "leaving" /\ job[p].result = "none" /\ job[p].kind = "complete"

ProcBound(p) ==
  /\ Unrecorded(p) => Len(TaskOf(p).runs) <= 1
  /\ mem[p].stage = "note" => TaskOf(p).turns < MaxTurns
  /\ mem[p].stage \in {"publish", "sent", "record"} => TaskOf(p).phase = "result_pending"
  /\ job[p].at = "settling" => job[p].result # "none"

RunsInv ==
  /\ Proved!ValuesIn(Earned)
  /\ \A i \in Issue : TaskBound(i)
  /\ \A p \in Proc : JobEarned(p) /\ ProcBound(p)
  /\ faults \in 0..MaxFaults

-----------------------------------------------------------------------------
(* What a step under the callback makes of the task *)

\* The task t of a process at stage s becomes u.
Turned(t, u, s) ==
  /\ \/ u.runs = t.runs
     \/ s = "record" /\ u.phase = "none" /\ u.runs = Append(t.runs, t.outcome)
  /\ u.turns = t.turns \/ (s = "note" /\ u.turns = t.turns + 1)
  /\ \/ u.phase = t.phase /\ u.outcome = t.outcome
     \/ s # "observe" /\ (u.phase = "result_pending" => u.outcome \in Final)

\* The process goes on from stage s to stage r, or returns a result.
Reached(t, u, s, r) ==
  /\ r = "note" => u.turns < MaxTurns
  /\ r \in {"publish", "sent", "record"} =>
       u.phase = "result_pending" \/ (s \in {"publish", "sent"} /\ u.phase = t.phase)
  /\ r = "observe" => s = "record" /\ u.runs # <<>>
  /\ r = "observe" \/ (s \notin {"record", "observe"} /\ u.runs = t.runs)

Returning(t, u, s, result) ==
  /\ result # "none"
  /\ result = "completed" => s = "observe" /\ u.runs = t.runs

WorkEffect(p) ==
  LET i == IssueOf(p)
  IN  /\ Turned(task[i], task'[i], mem[p].stage)
      /\ \/ job' = job /\ Reached(task[i], task'[i], mem[p].stage, mem'[p].stage)
         \/ /\ mem'[p].stage = "load"
            /\ Returning(task[i], task'[i], mem[p].stage, job'[p].result)
      /\ \/ posted' = posted
         \/ /\ mem[p].stage = "sent" /\ task'[i] = task[i]
            /\ posted' = [posted EXCEPT ![i] = Append(@, ThisPacket(p))]
      /\ \A k \in Issue : k # i => task'[k] = task[k]
      /\ \A q \in Proc : q # p => mem'[q] = mem[q] /\ job'[q] = job[q]
      /\ \E result \in Results : job' = [job EXCEPT ![p].result = result]
      /\ job[p].at = "working" /\ job[p].result = "none"
      /\ faults' \in 0..MaxFaults

LEMMA StaysTurned == \A t, s : Turned(t, t, s)
BY DEF Turned

\* The step saves a task, or fails to, and goes on to a stage.
LEMMA SaveEffect ==
  ASSUME RunnerInv, RunsInv, NEW p \in Proc, Work(p),
         job[p].at = "working", job[p].result = "none",
         NEW i \in Issue, i = IssueOf(p),
         NEW new \in TaskShape, NEW stage \in Stages,
         Turned(task[i], new, mem[p].stage), Reached(task[i], new, mem[p].stage, stage),
         task' = task \/ task' = [task EXCEPT ![i] = new],
         posted' = posted,
         faults' = faults \/ Fault,
         \/ Move(p, stage) /\ task'[i] = new
         \/ Return(p, "error") \/ Return(p, "commit_pending")
  PROVE  WorkEffect(p)
<1>1. task \in [Issue -> TaskShape] /\ faults \in 0..MaxFaults /\ MaxFaults \in Nat
  BY Working, BoundsAreNatural DEF Shaped, RunsInv
<1>2. task'[i] \in {task[i], new} /\ (\A k \in Issue : k # i => task'[k] = task[k])
  BY <1>1
<1>3. Turned(task[i], task'[i], mem[p].stage)
  BY <1>2, StaysTurned
<1>4. faults' \in 0..MaxFaults
  BY <1>1 DEF Fault
<1>5. \E result \in Results : job' = [job EXCEPT ![p].result = result]
  <2>1. job = [job EXCEPT ![p].result = job[p].result] /\ job[p].result \in Results
    BY Working DEF Job
  <2> QED
    BY <2>1 DEF Move, Return, Results
<1>6. CASE Move(p, stage) /\ task'[i] = new
  <2>1. job' = job /\ mem'[p].stage = stage /\ \A q \in Proc : q # p => mem'[q] = mem[q]
    BY <1>6, MoveOf
  <2> QED
    BY <1>2, <1>3, <1>4, <1>5, <1>6, <2>1 DEF WorkEffect
<1>7. ASSUME NEW result \in {"error", "commit_pending"}, Return(p, result)
      PROVE  WorkEffect(p)
  <2>1. /\ mem'[p].stage = "load" /\ job'[p].result = result
        /\ \A q \in Proc : q # p => mem'[q] = mem[q] /\ job'[q] = job[q]
    BY <1>7, ReturnOf
  <2>2. Returning(task[i], task'[i], mem[p].stage, job'[p].result)
    BY <1>7, <2>1 DEF Returning
  <2> QED
    BY <1>2, <1>3, <1>4, <1>5, <2>1, <2>2 DEF WorkEffect
<1> QED
  BY <1>6, <1>7

LEMMA SavedEffect ==
  ASSUME RunnerInv, RunsInv, NEW p \in Proc, Work(p),
         job[p].at = "working", job[p].result = "none",
         NEW i \in Issue, i = IssueOf(p),
         NEW new \in TaskShape, NEW stage \in Stages,
         Turned(task[i], new, mem[p].stage), Reached(task[i], new, mem[p].stage, stage),
         SaveAndMove(p, new, stage)
  PROVE  WorkEffect(p)
<1>1. task'[i] = new \/ task' # [task EXCEPT ![i] = new]
  BY Working DEF Shaped
<1>2. /\ task' = task \/ task' = [task EXCEPT ![i] = new]
      /\ posted' = posted
      /\ faults' = faults \/ Fault
      /\ \/ Move(p, stage) /\ task'[i] = new
         \/ Return(p, "error") \/ Return(p, "commit_pending")
  BY <1>1 DEF SaveAndMove, Save, NoFault
<1> QED
  BY <1>2, SaveEffect

\* The step leaves the task alone and goes on, or returns something else than done.
LEMMA GoesOnEffect ==
  ASSUME RunnerInv, RunsInv, NEW p \in Proc, Work(p),
         job[p].at = "working", job[p].result = "none",
         NEW i \in Issue, i = IssueOf(p), UNCHANGED <<task, posted>>,
         faults' = faults \/ Fault,
         \/ \E stage \in Stages :
              Move(p, stage) /\ Reached(task[i], task[i], mem[p].stage, stage)
         \/ \E result \in Results \ {"none", "completed"} : Return(p, result)
  PROVE  WorkEffect(p)
<1>1. faults' \in 0..MaxFaults
  BY BoundsAreNatural DEF Fault, RunsInv
<1>2. Turned(task[i], task'[i], mem[p].stage)
  BY StaysTurned
<1>3. CASE \E stage \in Stages : Move(p, stage) /\ Reached(task[i], task[i], mem[p].stage, stage)
  <2>1. PICK stage \in Stages : Move(p, stage) /\ Reached(task[i], task[i], mem[p].stage, stage)
    BY <1>3
  <2>2. job' = job /\ mem'[p].stage = stage /\ \A q \in Proc : q # p => mem'[q] = mem[q]
    BY <2>1, MoveOf
  <2>3. job = [job EXCEPT ![p].result = job[p].result] /\ job[p].result \in Results
    BY Working DEF Job
  <2> QED
    BY <1>1, <1>2, <2>1, <2>2, <2>3 DEF WorkEffect
<1>4. CASE \E result \in Results \ {"none", "completed"} : Return(p, result)
  <2>1. PICK result \in Results \ {"none", "completed"} : Return(p, result)
    BY <1>4
  <2>2. /\ mem'[p].stage = "load" /\ job'[p].result = result
        /\ \A q \in Proc : q # p => mem'[q] = mem[q] /\ job'[q] = job[q]
    BY <2>1, ReturnOf
  <2>3. Returning(task[i], task'[i], mem[p].stage, job'[p].result)
    BY <2>1, <2>2 DEF Returning
  <2> QED
    BY <1>1, <1>2, <2>1, <2>2, <2>3 DEF WorkEffect, Return
<1> QED
  BY <1>3, <1>4

\* Saving the result of a turn.
LEMMA ResultEffect ==
  ASSUME RunnerInv, RunsInv, NEW p \in Proc, Work(p),
         job[p].at = "working", job[p].result = "none",
         mem[p].stage \in {"turn", "await", "recover"},
         NEW outcome \in {"settled", "terminal", "retry"}, SaveResult(p, outcome)
  PROVE  WorkEffect(p)
<1>1. PICK new : new = TurnCompleted(p, outcome)
  OBVIOUS
<1>2. PICK stage : stage = IF outcome = "retry" THEN "thread" ELSE "pack"
  OBVIOUS
<1>3. /\ new \in TaskShape /\ new.phase = "turn_completed"
      /\ new.runs = TaskOf(p).runs /\ new.turns = TaskOf(p).turns
  BY <1>1, Working DEF TurnCompleted, TaskShape, TaskPhases, Outcome, Final
<1>4. stage \in {"thread", "pack"} /\ SaveAndMove(p, new, stage)
  BY <1>1, <1>2 DEF SaveResult
<1>5. PICK i \in Issue : i = IssueOf(p) /\ task[i] = TaskOf(p)
  BY Working
<1>6. Turned(task[i], new, mem[p].stage) /\ Reached(task[i], new, mem[p].stage, stage)
  BY <1>3, <1>4, <1>5 DEF Turned, Reached
<1> QED
  BY <1>3, <1>4, <1>5, <1>6, SavedEffect DEF Stages

LEMMA EarlyEffect ==
  ASSUME RunnerInv, RunsInv, NEW p \in Proc, Begin(p) \/ Resume(p) \/ Thread(p)
  PROVE  WorkEffect(p)
<1>1. Work(p) /\ job[p].at = "working" /\ job[p].result = "none"
      /\ mem[p].stage \in {"load", "thread"}
  BY DEF Begin, Resume, Thread, Work, At, Is
<1>2. PICK i \in Issue : i = IssueOf(p) /\ task[i] = TaskOf(p) /\ task[i] \in TaskShape
  BY <1>1, Working
<1>3. CASE Begin(p)
  <2>1. PICK new : new = [TaskOf(p) EXCEPT !.phase = "selected", !.retry = FALSE]
    OBVIOUS
  <2>2. /\ new \in TaskShape /\ new.phase = "selected"
        /\ new.runs = task[i].runs /\ new.turns = task[i].turns
    BY <1>2, <2>1 DEF TaskShape, TaskPhases
  <2>3. Turned(task[i], new, mem[p].stage) /\ Reached(task[i], new, mem[p].stage, "thread")
    BY <1>1, <2>2 DEF Turned, Reached
  <2>4. SaveAndMove(p, new, "thread") /\ "thread" \in Stages
    BY <1>3, <2>1 DEF Begin, Stages
  <2> QED
    BY <1>1, <1>2, <2>2, <2>3, <2>4, SavedEffect
<1>4. CASE Resume(p)
  <2>1. PICK stage : stage = CASE TaskOf(p).phase = "result_pending" -> "publish"
                               [] TaskOf(p).phase = "owner_stopped" -> "pack"
                               [] TaskOf(p).phase = "turn_started" -> "recover"
                               [] OTHER -> "thread"
    OBVIOUS
  <2>2. Move(p, stage) /\ UNCHANGED <<task, posted>> /\ faults' = faults
    BY <1>4, <2>1 DEF Resume, NoFault
  <2>3. stage \in {"publish", "pack", "recover", "thread"}
        /\ (stage = "publish" => task[i].phase = "result_pending")
    BY <1>2, <2>1
  <2>4. Reached(task[i], task[i], mem[p].stage, stage)
    BY <1>1, <2>3 DEF Reached
  <2> QED
    BY <1>1, <1>2, <2>2, <2>3, <2>4, GoesOnEffect DEF Stages
<1>5. CASE Thread(p)
  <2>1. PICK new : new = [TaskOf(p) EXCEPT !.phase = "thread_ready", !.outcome = "none"]
    OBVIOUS
  <2>2. /\ new \in TaskShape /\ new.phase = "thread_ready"
        /\ new.runs = task[i].runs /\ new.turns = task[i].turns
    BY <1>2, <2>1 DEF TaskShape, TaskPhases, Outcome
  <2>3. Turned(task[i], new, mem[p].stage) /\ Reached(task[i], new, mem[p].stage, "turn")
        /\ Reached(task[i], task[i], mem[p].stage, "pack")
    BY <1>1, <2>2 DEF Turned, Reached
  <2>4. \/ SaveAndMove(p, new, "turn")
        \/ Move(p, "pack") /\ UNCHANGED <<task, posted>> /\ faults' = faults
    BY <1>5, <2>1 DEF Thread, NoFault
  <2> QED
    BY <1>1, <1>2, <2>2, <2>3, <2>4, SavedEffect, GoesOnEffect DEF Stages
<1> QED
  BY <1>3, <1>4, <1>5

\* A turn is started while one is left, and its note counts it.
LEMMA TurnEffect ==
  ASSUME RunnerInv, RunsInv, NEW p \in Proc, StartTurn(p) \/ NoTurnLeft(p) \/ NoteTurn(p)
  PROVE  WorkEffect(p)
<1>1. Work(p) /\ job[p].at = "working" /\ job[p].result = "none"
      /\ mem[p].stage \in {"turn", "note"}
  BY DEF StartTurn, NoTurnLeft, NoteTurn, Work, At, Is
<1>2. PICK i \in Issue : i = IssueOf(p) /\ task[i] = TaskOf(p) /\ task[i] \in TaskShape
  BY <1>1, Working
<1>3. CASE StartTurn(p)
  <2>1. Reached(task[i], task[i], mem[p].stage, "note") /\ Move(p, "note")
        /\ UNCHANGED <<task, posted>> /\ faults' = faults
    BY <1>1, <1>2, <1>3 DEF StartTurn, Reached, NoFault
  <2> QED
    BY <1>1, <1>2, <2>1, GoesOnEffect DEF Stages
<1>4. CASE NoTurnLeft(p)
  BY <1>1, <1>4, ResultEffect DEF NoTurnLeft, At
<1>5. CASE NoteTurn(p)
  <2>1. PICK n \in Nat : n = TaskOf(p).turns + 1
    BY <1>2 DEF TaskShape
  <2>2. PICK new : new = [TaskOf(p) EXCEPT !.phase = "turn_started", !.turns = n]
    OBVIOUS
  <2>3. /\ new \in TaskShape /\ new.phase = "turn_started"
        /\ new.runs = task[i].runs /\ new.turns = task[i].turns + 1
    BY <1>2, <2>1, <2>2 DEF TaskShape, TaskPhases
  <2>4. mem[p].stage = "note"
    BY <1>5 DEF NoteTurn, At
  <2>5. Turned(task[i], new, mem[p].stage) /\ Reached(task[i], new, mem[p].stage, "await")
    BY <2>3, <2>4 DEF Turned, Reached
  <2>6. task'[i] = new \/ task' # [task EXCEPT ![i] = new]
    BY <1>1, Working DEF Shaped
  <2>7. Save(p, new, Move(p, "await")) /\ posted' = posted
    BY <1>5, <2>1, <2>2 DEF NoteTurn
  <2>8. /\ task' = task \/ task' = [task EXCEPT ![i] = new]
        /\ faults' = faults \/ Fault
        /\ \/ Move(p, "await") /\ task'[i] = new
           \/ Return(p, "error") \/ Return(p, "commit_pending")
    BY <1>2, <2>6, <2>7 DEF Save, NoFault
  <2> QED
    BY <1>1, <1>2, <2>3, <2>5, <2>7, <2>8, SaveEffect DEF Stages
<1> QED
  BY <1>3, <1>4, <1>5

LEMMA WaitEffect ==
  ASSUME RunnerInv, RunsInv, NEW p \in Proc, Await(p) \/ OwnerStop(p) \/ Recover(p)
  PROVE  WorkEffect(p)
<1>1. Work(p) /\ job[p].at = "working" /\ job[p].result = "none"
      /\ mem[p].stage \in {"await", "recover"}
  BY DEF Await, OwnerStop, Recover, Work, At, Is
<1>2. PICK i \in Issue : i = IssueOf(p) /\ task[i] = TaskOf(p) /\ task[i] \in TaskShape
  BY <1>1, Working
<1>3. ASSUME NEW outcome \in {"settled", "terminal", "retry"}, SaveResult(p, outcome)
      PROVE  WorkEffect(p)
  BY <1>1, <1>3, ResultEffect
<1>4. CASE Await(p)
  <2>1. \/ \E outcome \in {"settled", "terminal", "retry"} : SaveResult(p, outcome)
        \/ Move(p, "turn") /\ UNCHANGED <<task, posted>> /\ faults' = faults
    BY <1>4 DEF Await, NoFault
  <2>2. Reached(task[i], task[i], mem[p].stage, "turn")
    BY <1>1 DEF Reached
  <2> QED
    BY <1>1, <1>2, <1>3, <2>1, <2>2, GoesOnEffect DEF Stages
<1>5. CASE OwnerStop(p)
  <2>1. PICK new : new = [TaskOf(p) EXCEPT !.phase = "owner_stopped", !.outcome = "settled"]
    OBVIOUS
  <2>2. /\ new \in TaskShape /\ new.phase = "owner_stopped"
        /\ new.runs = task[i].runs /\ new.turns = task[i].turns
    BY <1>2, <2>1 DEF TaskShape, TaskPhases, Outcome, Final
  <2>3. Turned(task[i], new, mem[p].stage) /\ Reached(task[i], new, mem[p].stage, "pack")
    BY <1>1, <2>2 DEF Turned, Reached
  <2>4. SaveAndMove(p, new, "pack")
    BY <1>5, <2>1 DEF OwnerStop
  <2> QED
    BY <1>1, <1>2, <2>2, <2>3, <2>4, SavedEffect DEF Stages
<1>6. CASE Recover(p)
  <2>1. PICK new : new = [TaskOf(p) EXCEPT !.phase = "thread_ready"]
    OBVIOUS
  <2>2. /\ new \in TaskShape /\ new.phase = "thread_ready"
        /\ new.runs = task[i].runs /\ new.turns = task[i].turns
    BY <1>2, <2>1 DEF TaskShape, TaskPhases
  <2>3. Turned(task[i], new, mem[p].stage) /\ Reached(task[i], new, mem[p].stage, "turn")
    BY <1>1, <2>2 DEF Turned, Reached
  <2>4. \/ \E outcome \in {"settled", "terminal", "retry"} : SaveResult(p, outcome)
        \/ SaveAndMove(p, new, "turn")
        \/ /\ \E result \in {"deferred", "error"} : Return(p, result)
           /\ UNCHANGED <<task, posted>> /\ faults' = faults
    BY <1>6, <2>1 DEF Recover, NoFault
  <2>5. {"deferred", "error"} \subseteq Results \ {"none", "completed"}
    BY DEF Results
  <2>6. CASE SaveAndMove(p, new, "turn")
    BY <1>1, <1>2, <2>2, <2>3, <2>6, SavedEffect DEF Stages
  <2> QED
    BY <1>1, <1>2, <1>3, <2>4, <2>5, <2>6, GoesOnEffect
<1> QED
  BY <1>4, <1>5, <1>6

\* A packet is made of a result for good, posted and then recorded.
LEMMA PublicationEffect ==
  ASSUME RunnerInv, RunsInv, NEW p \in Proc, Pack(p) \/ Post(p) \/ Land(p) \/ PostedBefore(p)
  PROVE  WorkEffect(p)
<1>1. Work(p) /\ job[p].at = "working" /\ job[p].result = "none"
      /\ mem[p].stage \in {"pack", "publish", "sent"}
  BY DEF Pack, Post, Land, PostedBefore, Work, At, Is
<1>2. PICK i \in Issue : i = IssueOf(p) /\ task[i] = TaskOf(p) /\ task[i] \in TaskShape
  BY <1>1, Working
<1>3. CASE Pack(p)
  <2>1. PICK outcome : outcome = IF TaskOf(p).outcome = "terminal"
                                   THEN TaskOf(p).outcome ELSE "settled"
    OBVIOUS
  <2>2. PICK new : new = [TaskOf(p) EXCEPT !.phase = "result_pending", !.outcome = outcome]
    OBVIOUS
  <2>3. /\ new \in TaskShape /\ new.phase = "result_pending" /\ new.outcome \in Final
        /\ new.runs = task[i].runs /\ new.turns = task[i].turns
    BY <1>2, <2>1, <2>2 DEF TaskShape, TaskPhases, Outcome, Final
  <2>4. mem[p].stage = "pack" /\ SaveAndMove(p, new, "publish")
    BY <1>3, <2>1, <2>2 DEF Pack, At
  <2>5. Turned(task[i], new, mem[p].stage) /\ Reached(task[i], new, mem[p].stage, "publish")
    BY <2>3, <2>4 DEF Turned, Reached
  <2> QED
    BY <1>1, <1>2, <2>3, <2>4, <2>5, SavedEffect DEF Stages
<1>4. /\ Reached(task[i], task[i], "publish", "record")
      /\ Reached(task[i], task[i], "publish", "sent")
      /\ Reached(task[i], task[i], "sent", "record")
  BY DEF Reached
<1>5. CASE Land(p)
  <2>1. /\ mem[p].stage = "sent" /\ task' = task /\ faults' = faults
        /\ posted' = [posted EXCEPT ![IssueOf(p)] = Append(@, ThisPacket(p))]
        /\ Move(p, "record")
    BY <1>5 DEF Land, At, NoFault
  <2>2. Turned(task[i], task'[i], mem[p].stage) /\ faults' \in 0..MaxFaults
    BY <2>1, StaysTurned DEF RunsInv
  <2>3. job' = job /\ mem'[p].stage = "record" /\ \A q \in Proc : q # p => mem'[q] = mem[q]
    BY <2>1, MoveOf DEF Stages
  <2>4. job = [job EXCEPT ![p].result = job[p].result] /\ job[p].result \in Results
    BY <1>1, Working DEF Job
  <2> QED
    BY <1>1, <1>2, <1>4, <2>1, <2>2, <2>3, <2>4 DEF WorkEffect
<1>6. CASE PostedBefore(p)
  <2>1. /\ mem[p].stage = "publish" /\ UNCHANGED <<task, posted>> /\ faults' = faults
        /\ Move(p, "record") \/ Return(p, "error")
    BY <1>6 DEF PostedBefore, At, NoFault
  <2>2. "error" \in Results \ {"none", "completed"} /\ "record" \in Stages
    BY DEF Results, Stages
  <2> QED
    BY <1>1, <1>2, <1>4, <2>1, <2>2, GoesOnEffect
<1>7. CASE Post(p)
  <2>1. /\ mem[p].stage = "publish" /\ UNCHANGED <<task, posted>> /\ faults' = faults
        /\ Move(p, "sent")
    BY <1>7 DEF Post, At, NoFault
  <2> QED
    BY <1>1, <1>2, <1>4, <2>1, GoesOnEffect DEF Stages
<1> QED
  BY <1>3, <1>5, <1>6, <1>7

LEMMA RecordEffect ==
  ASSUME RunnerInv, RunsInv, NEW p \in Proc, Record(p)
  PROVE  WorkEffect(p)
<1>1. Work(p) /\ job[p].at = "working" /\ job[p].result = "none" /\ mem[p].stage = "record"
  BY DEF Record, Work, At, Is
<1>2. PICK i \in Issue : i = IssueOf(p) /\ task[i] = TaskOf(p) /\ task[i] \in TaskShape
  BY <1>1, Working
<1>3. PICK runs : runs = Append(TaskOf(p).runs, TaskOf(p).outcome)
  OBVIOUS
<1>4. runs \in Seq(Outcome) /\ runs # <<>>
  <2>1. TaskOf(p).runs \in Seq(Outcome) /\ TaskOf(p).outcome \in Outcome
    BY <1>2 DEF TaskShape
  <2>2. runs \in Seq(Outcome) /\ Len(runs) = Len(TaskOf(p).runs) + 1
        /\ Len(TaskOf(p).runs) \in Nat
    BY <1>3, <2>1
  <2> QED
    BY <2>2
<1>5. PICK new : new = [TaskOf(p) EXCEPT !.phase = "none", !.outcome = "none", !.runs = runs]
  OBVIOUS
<1>6. new \in TaskShape /\ new.runs = runs /\ new.phase = "none" /\ new.turns = task[i].turns
  BY <1>2, <1>4, <1>5 DEF TaskShape, TaskPhases, Outcome
<1>7. Turned(task[i], new, mem[p].stage) /\ Reached(task[i], new, mem[p].stage, "observe")
  BY <1>1, <1>2, <1>3, <1>4, <1>6 DEF Turned, Reached
<1>8. task'[i] = new \/ task' # [task EXCEPT ![i] = new]
  BY <1>1, Working DEF Shaped
<1>9. Save(p, new, Move(p, "observe")) /\ posted' = posted
  BY <1>3, <1>5 DEF Record
<1>10. /\ task' = task \/ task' = [task EXCEPT ![i] = new]
       /\ faults' = faults \/ Fault
       /\ \/ Move(p, "observe") /\ task'[i] = new
          \/ Return(p, "error") \/ Return(p, "commit_pending")
  BY <1>2, <1>8, <1>9 DEF Save, NoFault
<1> QED
  BY <1>1, <1>2, <1>6, <1>7, <1>9, <1>10, SaveEffect DEF Stages

LEMMA ObserveEffect ==
  ASSUME RunnerInv, RunsInv, NEW p \in Proc, Observe(p)
  PROVE  WorkEffect(p)
<1>1. Work(p) /\ job[p].at = "working" /\ job[p].result = "none" /\ mem[p].stage = "observe"
  BY DEF Observe, Work, At, Is
<1>2. PICK i \in Issue : i = IssueOf(p) /\ task[i] = TaskOf(p) /\ task[i] \in TaskShape
                         /\ mem[p].seen \in Nat
  BY <1>1, Working
<1>3. PICK new : new = [TaskOf(p) EXCEPT !.observed = mem[p].seen]
  OBVIOUS
<1>4. /\ new.runs = task[i].runs /\ new.phase = task[i].phase
      /\ new.outcome = task[i].outcome /\ new.turns = task[i].turns
  BY <1>2, <1>3 DEF TaskShape
<1>5. /\ task' = task \/ task' = [task EXCEPT ![i] = new]
      /\ \E result \in {"completed", "error", "commit_pending"} : Return(p, result)
      /\ faults' = faults \/ Fault
      /\ posted' = posted
  BY <1>2, <1>3 DEF Observe, Save, NoFault
<1>6. PICK result \in {"completed", "error", "commit_pending"} : Return(p, result)
  BY <1>5
<1>7. /\ mem'[p].stage = "load" /\ job'[p].result = result
      /\ \A q \in Proc : q # p => mem'[q] = mem[q] /\ job'[q] = job[q]
  BY <1>6, ReturnOf
<1>8. task'[i] \in {task[i], new} /\ \A k \in Issue : k # i => task'[k] = task[k]
  BY <1>1, <1>5, Working DEF Shaped
<1>9. Turned(task[i], task'[i], mem[p].stage)
      /\ Returning(task[i], task'[i], mem[p].stage, job'[p].result)
  BY <1>1, <1>4, <1>7, <1>8 DEF Turned, Returning
<1>10. faults' \in 0..MaxFaults
  BY <1>5, BoundsAreNatural DEF Fault, RunsInv
<1>11. \E r \in Results : job' = [job EXCEPT ![p].result = r]
  BY <1>6 DEF Return, Results
<1> QED
  BY <1>1, <1>2, <1>5, <1>7, <1>8, <1>9, <1>10, <1>11 DEF WorkEffect

LEMMA StopsEffect ==
  ASSUME RunnerInv, RunsInv, NEW p \in Proc, Shutdown(p) \/ Fail(p)
  PROVE  WorkEffect(p)
<1>1. Work(p) /\ job[p].at = "working" /\ job[p].result = "none"
  BY DEF Shutdown, Fail, Work, At, Is
<1>2. PICK result \in {"shutdown", "error", "permanent"} : Return(p, result)
  BY DEF Shutdown, Fail
<1>3. UNCHANGED <<task, posted>> /\ Fault
  BY DEF Shutdown, Fail
<1>4. result \in Results \ {"none", "completed"}
  BY <1>2 DEF Results
<1>5. PICK i \in Issue : i = IssueOf(p)
  BY <1>1, Working
<1> QED
  BY <1>1, <1>2, <1>3, <1>4, <1>5, GoesOnEffect

LEMMA WorkHasEffect ==
  ASSUME RunnerInv, RunsInv, NEW p \in Proc, Work(p)
  PROVE  WorkEffect(p)
BY EarlyEffect, TurnEffect, WaitEffect, PublicationEffect, RecordEffect, ObserveEffect, StopsEffect
DEF Work

-----------------------------------------------------------------------------
(* A step under the callback keeps the second invariant *)

\* Runs are added and never taken away, so a completed claim stays earned.
LEMMA EarnedGrows ==
  ASSUME \A i \in Issue : Ran(i) => Ran(i)'
  PROVE  Earned \subseteq Earned'
BY DEF Earned

LEMMA AppendedIsFull ==
  ASSUME NEW S, NEW seq \in Seq(S), NEW e \in S
  PROVE  Append(seq, e) # <<>>
<1>1. Len(Append(seq, e)) = Len(seq) + 1 /\ Len(seq) \in Nat /\ Len(<<>>) = 0
  OBVIOUS
<1> QED
  BY <1>1

LEMMA ValuesGrow ==
  ASSUME Proved!ValuesIn(Earned), Earned \subseteq Earned', UNCHANGED <<disk, op>>
  PROVE  Proved!ValuesIn(Earned)'
BY DEF Proved!ValuesIn, Proved!HoldsOnly

\* What the step does of the task of its issue.
LEMMA WorkBounds ==
  ASSUME RunnerInv, RunsInv, NEW p \in Proc, WorkEffect(p), NEW i \in Issue, i = IssueOf(p)
  PROVE  TaskBound(i)'
<1>1. TaskBound(i) /\ ProcBound(p) /\ job[p].at = "working" /\ job[p].result = "none"
      /\ MaxTurns \in Nat
  BY BoundsAreNatural DEF RunsInv, WorkEffect
<1>2. task[i] = TaskOf(p) /\ task[i] \in TaskShape /\ posted \in [Issue -> Seq(PacketShape)]
  BY <1>1, Working DEF Shaped
<1>3. PICK t : t = task[i]
  OBVIOUS
<1>4. PICK u : u = task'[i]
  OBVIOUS
<1>5. Turned(t, u, mem[p].stage)
  BY <1>3, <1>4 DEF WorkEffect
<1>6. mem[p].stage # "observe" => Len(t.runs) <= 1
  BY <1>1, <1>2, <1>3 DEF ProcBound, Unrecorded
<1>7. /\ t.runs \in Seq(Final)
      /\ mem[p].stage \in {"publish", "sent", "record"} => t.outcome \in Final
  BY <1>1, <1>2, <1>3 DEF TaskBound, ProcBound
<1>8. u.runs \in Seq(Final)
  BY <1>5, <1>7 DEF Turned
<1>9. u.turns <= MaxTurns
  <2>1. t.turns \in Nat /\ t.turns <= MaxTurns
    BY <1>1, <1>2, <1>3 DEF TaskBound, TaskShape
  <2>2. mem[p].stage = "note" => t.turns < MaxTurns
    BY <1>1, <1>2, <1>3 DEF ProcBound
  <2> QED
    BY <1>1, <1>5, <2>1, <2>2 DEF Turned
<1>10. u.phase = "result_pending" => u.outcome \in Final
  BY <1>1, <1>3, <1>5 DEF Turned, TaskBound
<1>11. u.phase # "none" => Len(u.runs) <= 1
  BY <1>1, <1>3, <1>5, <1>6 DEF Turned, TaskBound
<1>12. posted'[i] \in Seq(Packet)
  <2>1. posted[i] \in Seq(Packet)
    BY <1>1 DEF TaskBound
  <2>2. CASE mem[p].stage = "sent"
    <3>1. Len(t.runs) \in Nat /\ Len(t.runs) <= 1 /\ t.outcome \in Final
      BY <1>6, <1>7, <2>2
    <3>2. ThisPacket(p) \in Packet
      BY <1>2, <1>3, <3>1 DEF ThisPacket, Packet
    <3>3. posted'[i] = posted[i] \/ posted'[i] = Append(posted[i], ThisPacket(p))
      BY <1>2 DEF WorkEffect
    <3> QED
      BY <2>1, <3>2, <3>3
  <2> QED
    BY <2>1, <2>2 DEF WorkEffect
<1> QED
  BY <1>4, <1>8, <1>9, <1>10, <1>11, <1>12 DEF TaskBound

LEMMA WorkerBound ==
  ASSUME RunnerInv, RunsInv, NEW p \in Proc, WorkEffect(p)
  PROVE  JobEarned(p)' /\ ProcBound(p)'
<1>1. /\ ProcBound(p) /\ JobEarned(p) /\ ProcInv(p)
      /\ job[p].at = "working" /\ job[p].result = "none" /\ job[p] \in Job
  BY JobOf DEF RunsInv, RunnerInv, WorkEffect
<1>2. PICK i \in Issue : i = IssueOf(p) /\ task[i] = TaskOf(p) /\ task[i] \in TaskShape
  BY <1>1, Working
<1>3. PICK result \in Results : job' = [job EXCEPT ![p].result = result]
  BY DEF WorkEffect
<1>4. /\ job'[p].at = "working" /\ job'[p].result = result
      /\ job'[p].base = job[p].base /\ IssueOf(p)' = i
  BY <1>1, <1>2, <1>3, Working DEF IssueOf, Job
<1>5. PICK t : t = task[i]
  OBVIOUS
<1>6. PICK u : u = task'[i]
  OBVIOUS
<1>7. PICK s : s = mem[p].stage
  OBVIOUS
<1>8. PICK r : r = mem'[p].stage
  OBVIOUS
<1>9. /\ Turned(t, u, s)
      /\ \/ result = "none" /\ Reached(t, u, s, r)
         \/ r = "load" /\ Returning(t, u, s, result)
  BY <1>1, <1>2, <1>4, <1>5, <1>6, <1>7, <1>8 DEF WorkEffect
<1>10. TaskOf(p)' = u
  BY <1>4, <1>6 DEF TaskOf
<1>11. s # "observe" => Len(t.runs) <= 1
  BY <1>1, <1>2, <1>5, <1>7 DEF ProcBound, Unrecorded
<1>12. s \in {"publish", "sent"} => t.phase = "result_pending"
  BY <1>1, <1>2, <1>5, <1>7 DEF ProcBound
<1>13. ProcBound(p)'
  <2>1. Unrecorded(p)' => Len(u.runs) <= 1
    BY <1>4, <1>8, <1>9, <1>11 DEF Unrecorded, Reached, Returning
  <2>2. r = "note" => u.turns < MaxTurns
    BY <1>9 DEF Reached
  <2>3. r \in {"publish", "sent", "record"} => u.phase = "result_pending"
    BY <1>9, <1>12 DEF Reached
  <2> QED
    BY <1>4, <1>8, <1>10, <2>1, <2>2, <2>3 DEF ProcBound
<1>14. \A k \in Issue : Ran(k) => Ran(k)'
  <2>1. t.runs # <<>> => u.runs # <<>>
    <3>1. t.runs \in Seq(Outcome) /\ t.outcome \in Outcome
      BY <1>2, <1>5 DEF TaskShape
    <3>2. Append(t.runs, t.outcome) # <<>>
      BY <3>1, AppendedIsFull
    <3> QED
      BY <1>9, <3>2 DEF Turned
  <2> QED
    BY <1>2, <1>5, <1>6, <2>1 DEF Ran, WorkEffect
<1>15. JobEarned(p)'
  <2>1. job'[p].base \in Earned'
    BY <1>1, <1>4, <1>14, EarnedGrows DEF JobEarned
  <2>2. result = "completed" \/ r = "observe" => u.runs # <<>>
    <3>1. s = "observe" => t.runs # <<>>
      BY <1>1, <1>2, <1>5, <1>7 DEF JobEarned, Ran
    <3> QED
      BY <1>9, <3>1 DEF Reached, Returning
  <2>3. Ran(IssueOf(p))' <=> u.runs # <<>>
    BY <1>4, <1>6 DEF Ran
  <2> QED
    BY <1>4, <1>8, <2>1, <2>2, <2>3 DEF JobEarned
<1> QED
  BY <1>13, <1>15

LEMMA WorkRuns ==
  ASSUME RunnerInv, RunsInv, NEW p \in Proc, Work(p)
  PROVE  RunsInv'
<1>1. WorkEffect(p) /\ ClaimKept
  BY WorkHasEffect, WorkKeeps DEF RunnerInv, ClaimInv
<1>2. job[p].at = "working"
  BY <1>1 DEF WorkEffect
<1>3. PICK i \in Issue : i = IssueOf(p) /\ task[i] \in TaskShape
  BY <1>2, Working
<1>4. ASSUME NEW k \in Issue PROVE TaskBound(k)'
  <2>1. CASE k = i
    BY <1>1, <1>3, <2>1, WorkBounds
  <2>2. CASE k # i
    <3>1. posted'[k] = posted[k] /\ task'[k] = task[k] /\ TaskBound(k)
      BY <1>1, <1>2, <1>3, <2>2, Working DEF WorkEffect, RunsInv, Shaped
    <3> QED
      BY <3>1 DEF TaskBound
  <2> QED
    BY <2>1, <2>2
<1>5. \A k \in Issue : Ran(k) => Ran(k)'
  <2>1. Turned(task[i], task'[i], mem[p].stage)
    BY <1>1, <1>3 DEF WorkEffect
  <2>2. task[i].runs \in Seq(Outcome) /\ task[i].outcome \in Outcome
    BY <1>3 DEF TaskShape
  <2>3. Append(task[i].runs, task[i].outcome) # <<>>
    BY <2>2, AppendedIsFull
  <2> QED
    BY <1>1, <1>3, <2>1, <2>3 DEF Ran, WorkEffect, Turned
<1>6. Earned \subseteq Earned'
  BY <1>5, EarnedGrows
<1>7. Proved!ValuesIn(Earned)'
  BY <1>1, <1>6, ValuesGrow DEF ClaimKept, FileKept, RunsInv
<1>8. ASSUME NEW q \in Proc, q # p PROVE JobEarned(q)' /\ ProcBound(q)'
  <2>1. /\ mem'[q] = mem[q] /\ job'[q] = job[q] /\ ProcInv(q)
        /\ JobEarned(q) /\ ProcBound(q)
        /\ job[q].at # "idle" => IssueOf(q) \in Issue
    BY <1>1, <1>8, JobOf DEF WorkEffect, RunnerInv, RunsInv, IssueOf
  <2>2. CASE job[q].at \in {"idle", "fetched"}
    BY <1>6, <2>1, <2>2 DEF JobEarned, ProcBound, Unrecorded, ProcInv
  <2>3. CASE job[q].at \notin {"idle", "fetched"}
    <3>1. task'[IssueOf(q)] = task[IssueOf(q)] /\ IssueOf(q)' = IssueOf(q)
      BY <1>1, <1>2, <1>8, <2>1, <2>3, OtherIssue DEF WorkEffect, IssueOf
    <3>2. TaskOf(q)' = TaskOf(q) /\ (Ran(IssueOf(q)) <=> Ran(IssueOf(q))')
      BY <3>1 DEF TaskOf, Ran
    <3> QED
      BY <1>6, <2>1, <3>2 DEF JobEarned, ProcBound, Unrecorded
  <2> QED
    BY <2>2, <2>3
<1>9. \A q \in Proc : JobEarned(q)' /\ ProcBound(q)'
  BY <1>1, <1>8, WorkerBound
<1>10. faults' \in 0..MaxFaults
  BY <1>1 DEF WorkEffect
<1> QED
  BY <1>4, <1>7, <1>9, <1>10 DEF RunsInv

-----------------------------------------------------------------------------
(* A step outside the callback keeps the second invariant *)

\* What such a step leaves of every task.
TasksQuiet ==
  \A i \in Issue : /\ task'[i].phase = task[i].phase
                   /\ task'[i].runs = task[i].runs
                   /\ task'[i].outcome = task[i].outcome
                   /\ task'[i].turns = task[i].turns

\* What it makes of a process: nothing, a cycle that ends or begins, ...
Untouched(q) ==
  /\ job'[q] = job[q]
  /\ mem'[q].stage = mem[q].stage \/ (job[q].at = "idle" /\ mem'[q].stage = "load")

Restarted(q) ==
  /\ job'[q].at \in {"idle", "fetched", "issued"}
  /\ job'[q].base \in {NoClaim, job[q].base}
  /\ mem'[q].stage = "load"

\* ... a request for the claim, ...
Asked(q) ==
  /\ job'[q].at = "claiming"
  /\ job'[q].base = job[q].base
  /\ job'[q].issue = job[q].issue
  /\ mem'[q].stage = "load"
  /\ IssueOf(q) \in Issue
  /\ Len(TaskOf(q).runs) <= 1
  /\ job'[q].kind = "complete" => Ran(IssueOf(q))

\* ... or a step with it.
Advanced(q) ==
  /\ job[q].at # "idle"
  /\ job'[q].at \notin {"idle", "claiming"}
  /\ job'[q].issue = job[q].issue
  /\ job'[q].kind = job[q].kind
  /\ job'[q].base \in {job[q].base, Read}
  /\ mem'[q].stage = mem[q].stage
  /\ job'[q].at \in {"reading", "activating", "completing", "working"} =>
       job[q].at \in {"claiming", "reading", "activating"} /\ job'[q].result = "none"
  /\ job'[q].at = "selecting" => Unrecorded(q)
  /\ job'[q].at = "leaving" /\ job'[q].kind = "complete" /\ job'[q].result = "none"
       => Unrecorded(q)
  /\ job'[q].at = "settling" => job'[q].result # "none"

Stepped(q) == Untouched(q) \/ Restarted(q) \/ Asked(q) \/ Advanced(q)

LEMMA SteppedBound ==
  ASSUME RunnerInv, RunsInv, RunnerInv', TasksQuiet, Earned' = Earned,
         NEW q \in Proc, Stepped(q)
  PROVE  JobEarned(q)' /\ ProcBound(q)'
<1>1. JobEarned(q) /\ ProcBound(q) /\ ProcInv(q) /\ ProcInv(q)'
      /\ (job[q].at # "idle" => IssueOf(q) \in Issue)
  BY JobOf DEF RunsInv, RunnerInv, IssueOf
<1>2. Read \in Earned
  <2>1. dir \in disk
    BY DEF RunnerInv, ClaimInv, File!FileInv
  <2> QED
    BY <2>1 DEF RunsInv, Proved!ValuesIn, Proved!HoldsOnly, Read
<1>3. NoClaim \in Earned
  BY NoClaimTyped DEF Earned, NoClaim
<1>4. ASSUME job'[q].issue = job[q].issue, job[q].at # "idle"
      PROVE  /\ IssueOf(q)' = IssueOf(q)
             /\ TaskOf(q)'.runs = TaskOf(q).runs
             /\ TaskOf(q)'.turns = TaskOf(q).turns
             /\ TaskOf(q)'.phase = TaskOf(q).phase
             /\ Ran(IssueOf(q))' <=> Ran(IssueOf(q))
  BY <1>1, <1>4 DEF TasksQuiet, TaskOf, IssueOf, Ran
<1>5. CASE Untouched(q)
  <2>1. CASE job[q].at = "idle"
    BY <1>1, <1>5, <2>1 DEF Untouched, JobEarned, ProcBound, ProcInv, Unrecorded
  <2>2. CASE job[q].at # "idle"
    <3>1. mem'[q].stage = mem[q].stage /\ job'[q] = job[q]
      BY <1>5, <2>2 DEF Untouched
    <3> QED
      BY <1>1, <1>4, <2>2, <3>1 DEF JobEarned, ProcBound, Unrecorded
  <2> QED
    BY <2>1, <2>2
<1>6. CASE Restarted(q)
  BY <1>1, <1>3, <1>6 DEF Restarted, JobEarned, ProcBound, Unrecorded
<1>7. CASE Asked(q)
  <2>1. IssueOf(q)' = IssueOf(q) /\ TaskOf(q)'.runs = TaskOf(q).runs
        /\ (Ran(IssueOf(q))' <=> Ran(IssueOf(q)))
    BY <1>7 DEF Asked, TasksQuiet, TaskOf, IssueOf, Ran
  <2> QED
    BY <1>1, <1>7, <2>1 DEF Asked, JobEarned, ProcBound, Unrecorded
<1>8. CASE Advanced(q)
  <2>1. /\ IssueOf(q)' = IssueOf(q)
        /\ TaskOf(q)'.runs = TaskOf(q).runs
        /\ TaskOf(q)'.turns = TaskOf(q).turns
        /\ TaskOf(q)'.phase = TaskOf(q).phase
        /\ Ran(IssueOf(q))' <=> Ran(IssueOf(q))
    BY <1>4, <1>8 DEF Advanced
  <2>2. job'[q].at = "working" => mem'[q].stage = "load"
    BY <1>1, <1>8 DEF Advanced, ProcInv
  <2>3. Unrecorded(q)' => Unrecorded(q)
    BY <1>8 DEF Advanced, Unrecorded
  <2>4. JobEarned(q)'
    BY <1>1, <1>2, <1>8, <2>1, <2>2 DEF Advanced, JobEarned
  <2> QED
    BY <1>1, <1>8, <2>1, <2>3, <2>4 DEF Advanced, ProcBound
<1> QED
  BY <1>5, <1>6, <1>7, <1>8 DEF Stepped

LEMMA OutsideRuns ==
  ASSUME RunnerInv, RunsInv, RunnerInv', FileMove, TasksQuiet,
         posted' = posted \/ \A i \in Issue : posted'[i] \in Seq(Packet),
         op'.value \in Earned \/ op'.value = op.value,
         faults' = faults \/ Fault,
         \A q \in Proc : Stepped(q)
  PROVE  RunsInv'
<1>1. Earned' = Earned
  BY DEF Earned, Ran, TasksQuiet
<1>2. Proved!ValuesIn(Earned)'
  <2>1. PICK S : S = Earned
    OBVIOUS
  <2>2. Proved!FileInv /\ [Proved!FileNext]_(Proved!fileVars)
    BY SameInv, SameNext DEF FileMove, RunnerInv, ClaimInv
  <2>3. Proved!ValuesIn(S) /\ (op'.value \in S \/ op'.value = op.value)
    BY <2>1 DEF RunsInv
  <2>4. NoClaim \in S
    BY <2>1, NoClaimTyped DEF Earned, NoClaim
  <2>5. Proved!ValuesIn(S)'
    BY <2>2, <2>3, <2>4, Proved!ValuesKept
  <2> QED
    BY <1>1, <2>1, <2>5 DEF Proved!ValuesIn, Proved!HoldsOnly
<1>3. ASSUME NEW i \in Issue PROVE TaskBound(i)'
  BY DEF TasksQuiet, TaskBound, RunsInv
<1>4. \A q \in Proc : JobEarned(q)' /\ ProcBound(q)'
  BY <1>1, SteppedBound
<1>5. faults' \in 0..MaxFaults
  BY BoundsAreNatural DEF Fault, RunsInv
<1> QED
  BY <1>2, <1>3, <1>4, <1>5 DEF RunsInv

-----------------------------------------------------------------------------
(* The actions outside the callback *)

LEMMA FetchStepped ==
  ASSUME RunnerInv, RunsInv, RunnerInv', NEW p \in Proc, NEW i \in Issue,
         Fetch(p, i) \/ OpenIssue(p, i)
  PROVE  RunsInv'
<1>1. job \in [Proc -> Job] /\ Shaped /\ job[p].at \in {"idle", "fetched"} /\ ProcInv(p)
  BY DEF RunnerInv, ClaimInv, JobTyped, Fetch, OpenIssue, Is
<1>2. mem[p].stage = "load"
  BY <1>1 DEF ProcInv
<1>3. /\ mem'[p].stage = mem[p].stage
      /\ \A q \in Proc : q # p => mem'[q] = mem[q]
  BY <1>1 DEF Fetch, OpenIssue, Shaped
<1>4. \A q \in Proc : q # p => job'[q] = job[q]
  BY <1>1 DEF Fetch, OpenIssue, TakeIssue
<1>5. job'[p].at \in {"fetched", "issued"} /\ job'[p].base \in {NoClaim, job[p].base}
  <2>1. CASE Fetch(p, i)
    <3>1. job'[p] = [job[p] EXCEPT !.at = "fetched", !.issue = i] /\ job[p] \in Job
      BY <1>1, <2>1 DEF Fetch
    <3> QED
      BY <3>1 DEF Job
  <2>2. CASE OpenIssue(p, i)
    <3>1. job'[p] = [NoJob EXCEPT !.at = "issued", !.issue = i]
      BY <1>1, <2>2 DEF OpenIssue, TakeIssue
    <3> QED
      BY <3>1 DEF NoJob
  <2> QED
    BY <2>1, <2>2
<1>6. \A q \in Proc : Stepped(q)
  BY <1>2, <1>3, <1>4, <1>5 DEF Stepped, Untouched, Restarted
<1>7. FileKept /\ UNCHANGED <<task, posted, faults>>
  BY DEF Fetch, OpenIssue, NoFault
<1> QED
  BY <1>6, <1>7, OutsideRuns, FileKeptMove DEF FileKept, TasksQuiet

\* Of a process without a part in the step.
LEMMA Bystands ==
  ASSUME RunnerInv, NEW q \in Proc, job'[q] = job[q], Forget
  PROVE  Untouched(q)
BY ForgetTyped DEF RunnerInv, Untouched, NoMem

\* A cycle that ends.
LEMMA EndStepped ==
  ASSUME RunnerInv, NEW p \in Proc, ReleaseIssue(p), Forget
  PROVE  \A q \in Proc : Stepped(q)
<1>1. job \in [Proc -> Job] /\ Shaped
  BY DEF RunnerInv, ClaimInv, JobTyped
<1>2. job'[p] = NoJob /\ \A q \in Proc : q # p => job'[q] = job[q]
  BY <1>1 DEF ReleaseIssue
<1>3. mem'[p] = NoMem
  BY <1>1, <1>2, NoJobTyped, ForgetTyped
<1>4. Restarted(p)
  BY <1>2, <1>3 DEF Restarted, NoJob, NoMem
<1> QED
  BY <1>2, <1>4, Bystands DEF Stepped

LEMMA EndCycleStepped ==
  ASSUME RunnerInv, RunsInv, RunnerInv', NEW p \in Proc, EndCycle(p) \/ NothingSelected(p)
  PROVE  RunsInv'
<1>1. ReleaseIssue(p) /\ Forget /\ FileKept /\ UNCHANGED <<posted, faults>>
      /\ job[p].at \in {"fetched", "issued", "selecting"}
  BY DEF EndCycle, NothingSelected, Ready, Current, Is, NoFault
<1>2. Shaped /\ IssueOf(p) \in Issue /\ mem[p].seen \in Nat
  BY <1>1, JobOf DEF RunnerInv, IssueOf, Shaped
<1>3. TasksQuiet
  <2>1. CASE task' = task
    BY <2>1 DEF TasksQuiet
  <2>2. CASE task' = [task EXCEPT ![IssueOf(p)].observed = mem[p].seen]
    BY <1>2, <2>2 DEF TasksQuiet, Shaped, TaskShape
  <2> QED
    BY <2>1, <2>2 DEF EndCycle, NothingSelected
<1> QED
  BY <1>1, <1>3, EndStepped, OutsideRuns, FileKeptMove DEF FileKept

\* A claim is asked for with at most one run behind it, and its completion with one.
LEMMA AskStepped ==
  ASSUME RunnerInv, RunsInv, RunnerInv', NEW p \in Proc, AskToComplete(p) \/ AskToClaim(p)
  PROVE  RunsInv'
<1>1. job[p].at \in {"issued", "selecting"} /\ FileKept
      /\ UNCHANGED <<task, posted, mem, faults>>
  BY DEF AskToComplete, AskToClaim, Ready, Current, Is, NoFault
<1>2. job \in [Proc -> Job] /\ Shaped /\ job[p] \in Job /\ IssueOf(p) \in Issue
      /\ ProcInv(p) /\ ProcBound(p) /\ TaskBound(IssueOf(p))
  BY <1>1, JobOf DEF RunnerInv, RunsInv, ClaimInv, JobTyped, IssueOf
<1>3. PICK kind \in {"claim", "complete"}, retry \in BOOLEAN :
           Ask(p, kind, retry) /\ (kind = "complete" => AskToComplete(p))
  <2>1. TaskOf(p).retry \in BOOLEAN
    BY <1>2 DEF TaskOf, Shaped, TaskShape
  <2>2. CASE AskToComplete(p)
    BY <2>2 DEF AskToComplete
  <2>3. CASE AskToClaim(p)
    BY <2>1, <2>3 DEF AskToClaim
  <2> QED
    BY <2>2, <2>3
<1>4. /\ job'[p].at = "claiming" /\ job'[p].kind = kind
      /\ job'[p].base = job[p].base /\ job'[p].issue = job[p].issue
      /\ \A q \in Proc : q # p => job'[q] = job[q]
  BY <1>2, <1>3 DEF Ask, Job
<1>5. mem'[p].stage = "load"
  BY <1>1, <1>2 DEF ProcInv
<1>6. AskToComplete(p) => TaskOf(p).runs = <<"terminal">>
  BY DEF AskToComplete, TerminalRun
<1>7. AskToClaim(p) => Len(TaskOf(p).runs) <= 1
  <2> SUFFICES ASSUME AskToClaim(p) PROVE Len(TaskOf(p).runs) <= 1
    OBVIOUS
  <2>1. CASE Is(p, "selecting")
    BY <1>2, <2>1 DEF ProcBound, Unrecorded, Is
  <2>2. CASE TaskOf(p).phase # "none"
    BY <1>2, <2>2 DEF TaskBound, TaskOf
  <2>3. CASE TaskOf(p).runs \in {<<>>, <<"settled">>}
    <3>1. Len(<<>>) <= 1 /\ Len(<<"settled">>) <= 1
      OBVIOUS
    <3> QED
      BY <2>3, <3>1
  <2> QED
    BY <2>1, <2>2, <2>3 DEF AskToClaim, Ready
<1>8. Asked(p)
  <2>1. Len(TaskOf(p).runs) <= 1
    <3>1. Len(<<"terminal">>) <= 1
      OBVIOUS
    <3> QED
      BY <1>6, <1>7, <3>1
  <2>2. kind = "complete" => Ran(IssueOf(p))
    <3>1. <<"terminal">> # <<>>
      OBVIOUS
    <3>2. kind = "complete" => task[IssueOf(p)].runs = <<"terminal">>
      BY <1>3, <1>6 DEF TaskOf
    <3> QED
      BY <3>1, <3>2 DEF Ran
  <2> QED
    BY <1>2, <1>4, <1>5, <2>1, <2>2 DEF Asked
<1>9. \A q \in Proc : q # p => Untouched(q)
  BY <1>1, <1>4 DEF Untouched
<1>10. \A q \in Proc : Stepped(q)
  BY <1>8, <1>9 DEF Stepped
<1> QED
  BY <1>1, <1>10, OutsideRuns, FileKeptMove DEF FileKept, TasksQuiet

LEMMA AroundStepped ==
  ASSUME RunnerInv, RunsInv, RunnerInv', NEW i \in Issue,
         TurnEnds(i) \/ AllowRetry(i) \/ LandLate(i)
  PROVE  RunsInv'
<1>1. UNCHANGED <<dir, disk, op, job, mem, faults>>
  BY DEF TurnEnds, AllowRetry, LandLate, claimVars
<1>2. \A q \in Proc : Stepped(q)
  BY <1>1 DEF Stepped, Untouched
<1>3. TasksQuiet
  <2>1. CASE task' = task
    BY <2>1 DEF TasksQuiet
  <2>2. CASE task' = [task EXCEPT ![i].retry = TRUE]
    BY <2>2 DEF TasksQuiet, RunnerInv, Shaped, TaskShape
  <2> QED
    BY <2>1, <2>2 DEF TurnEnds, AllowRetry, LandLate
<1>4. posted' = posted \/ \A k \in Issue : posted'[k] \in Seq(Packet)
  <2>1. CASE LandLate(i)
    <3>1. PICK packet \in Packet : posted' = [posted EXCEPT ![i] = Append(@, packet)]
      BY <2>1 DEF LandLate
    <3>2. \A k \in Issue : posted[k] \in Seq(Packet)
      BY DEF RunsInv, TaskBound
    <3>3. \A k \in Issue : posted'[k] = posted[k] \/ posted'[k] = Append(posted[k], packet)
      BY <3>1 DEF RunnerInv, Shaped
    <3>4. ASSUME NEW k \in Issue PROVE posted'[k] \in Seq(Packet)
      <4>1. posted[k] \in Seq(Packet) /\ Append(posted[k], packet) \in Seq(Packet)
        BY <3>2
      <4> QED
        BY <3>3, <4>1
    <3> QED
      BY <3>4
  <2>2. CASE TurnEnds(i) \/ AllowRetry(i)
    BY <2>2 DEF TurnEnds, AllowRetry
  <2> QED
    BY <2>1, <2>2
<1> QED
  BY <1>1, <1>2, <1>3, <1>4, OutsideRuns, FileKeptMove

LEMMA PowerStepped ==
  ASSUME RunnerInv, RunsInv, RunnerInv', PowerFault
  PROVE  RunsInv'
<1>1. /\ \A q \in Proc : job'[q] = NoJob
      /\ Forget /\ UNCHANGED <<task, posted>> /\ Fault
      /\ File!FilePowerLoss
  BY DEF PowerFault, LosePower
<1>2. \A q \in Proc : mem'[q] = NoMem
  BY <1>1, ForgetTyped, NoJobTyped DEF RunnerInv
<1>3. \A q \in Proc : Stepped(q)
  BY <1>1, <1>2 DEF Stepped, Restarted, NoJob, NoMem
<1>4. op'.value \in Earned
  BY <1>1, NoClaimTyped DEF File!FilePowerLoss, File!Rest, Earned, NoClaim
<1>5. FileMove
  BY <1>1 DEF FileMove, File!FileNext
<1> QED
  BY <1>1, <1>3, <1>4, <1>5, OutsideRuns DEF TasksQuiet

-----------------------------------------------------------------------------
(* The claim ledger *)

LEMMA OpenEarned ==
  ASSUME NEW c \in Claim, c.status # "completed"
  PROVE  c \in Earned
BY DEF Earned

\* The claim of a callback that returned is completed for a run that it recorded, or
\* given back as it was completed before.
LEMMA OutcomesEarned ==
  ASSUME RunnerInv, RunsInv, NEW p \in Proc, job[p].at = "working",
         job[p].result \notin {"none", "commit_pending"}
  PROVE  Outcomes(p) \subseteq Earned
<1> SUFFICES ASSUME NEW c \in Outcomes(p) PROVE c \in Earned
  OBVIOUS
<1>1. c \in Claim
  BY OutcomesTyped DEF RunnerInv
<1>2. /\ job[p] \in Job /\ job[p].issue \in Issue
      /\ Read = OwnRecord(job[p]) /\ Read \in Claim /\ JobEarned(p)
  BY JobOf, TargetTyped DEF RunnerInv, RunsInv, OwnClaim
<1>3. Read.origin = IssueOf(p)
  BY <1>2 DEF OwnRecord, Job, Claim, IssueOf
<1>4. CASE job[p].result = "completed"
  <2>1. c = [Read EXCEPT !.status = "completed"]
    BY <1>4 DEF Outcomes
  <2>2. c.origin = IssueOf(p) /\ Ran(IssueOf(p)) /\ IssueOf(p) \in Issue
    BY <1>2, <1>3, <1>4, <2>1 DEF JobEarned, Claim, IssueOf
  <2> QED
    BY <1>1, <2>2 DEF Earned
<1>5. CASE job[p].result = "deferred"
  <2>1. c = job[p].base \/ c = [Read EXCEPT !.status = "released"]
    BY <1>5 DEF Outcomes
  <2>2. c = [Read EXCEPT !.status = "released"] => c.status # "completed"
    BY <1>2 DEF Claim
  <2> QED
    BY <1>1, <1>2, <2>1, <2>2, OpenEarned DEF JobEarned
<1>6. CASE job[p].result = "shutdown"
  <2>1. c = [Read EXCEPT !.status = "released"]
    BY <1>6 DEF Outcomes
  <2>2. c.status # "completed"
    BY <1>2, <2>1 DEF Claim
  <2> QED
    BY <1>1, <2>2, OpenEarned
<1>7. CASE job[p].result \in {"error", "permanent"}
  <2>1. Outcomes(p) = {[Read EXCEPT !.status = s, !.failures = @ + 1] :
                         s \in FailedStatus(Read, job[p].result)}
    BY <1>7 DEF Outcomes
  <2>2. PICK s \in FailedStatus(Read, job[p].result) :
          c = [Read EXCEPT !.status = s, !.failures = @ + 1]
    BY <2>1, Zenon
  <2>3. s \in {"quarantined", "retryable_error"}
    BY DEF FailedStatus
  <2>4. c.status = s
    BY <1>2, <2>2 DEF Claim
  <2> QED
    BY <1>1, <2>3, <2>4, OpenEarned
<1>8. job[p].result \in Results
  BY <1>2 DEF Job
<1> QED
  BY <1>4, <1>5, <1>6, <1>7, <1>8 DEF Results

\* A step of the ledger writes no other claim than that.
LEMMA LedgerEarned ==
  ASSUME RunnerInv, RunsInv, NEW p \in Proc,
         ClaimStep(p) \/ FailLease(p) \/ FailFile(p) \/ CrashClaim(p)
  PROVE  op'.value \in Earned \/ op'.value = op.value
<1>1. NoClaim \in Earned
  BY NoClaimTyped DEF Earned, NoClaim
<1>2. job[p] \in Job /\ Read \in Claim /\ (job[p].at # "idle" => job[p].issue \in Issue)
      /\ JobEarned(p)
  BY JobOf, TargetTyped DEF RunnerInv, RunsInv
<1>3. ASSUME File!Finish \/ File!FileCrash PROVE op'.value \in Earned
  BY <1>1, <1>3 DEF File!Finish, File!FileCrash, File!Rest
<1>4. ASSUME NEW goal, NEW c, File!Start(goal, c) PROVE op'.value = c
  BY <1>4 DEF File!Start
<1>5. PICK n \in Nat : n = Read.attempt + 1
  BY <1>2 DEF Claim
<1>6. CASE ClearLease(p) \/ RefuseLease(p) \/ LeaveInstruction(p) \/ OrphanExits(p)
           \/ LeaveActive(p) \/ FailLease(p)
  BY <1>6
  DEF ClearLease, RefuseLease, LeaveInstruction, OrphanExits, LeaveActive, FailLease, FileKept
<1>7. CASE EnterLease(p)
  BY <1>1, <1>4, <1>7 DEF EnterLease
<1>8. CASE StepFile(p) \/ FailFile(p)
  BY <1>8, FileStepOp DEF StepFile, FailFile, RunnerInv, ClaimInv
<1>9. CASE CrashClaim(p)
  BY <1>3, <1>9 DEF CrashClaim, FileKept
<1>10. CASE FileError(p) \/ RefuseClaim(p) \/ StartWork(p) \/ Settled(p)
            \/ NothingToComplete(p) \/ Completed(p)
  BY <1>3, <1>10
  DEF FileError, RefuseClaim, StartWork, Settled, NothingToComplete, Completed, Stop
<1>11. CASE Activate(p)
  <2>1. PICK c : c = [Read EXCEPT !.status = "active", !.attempt = n, !.retry = job[p].retry,
                                 !.origin = job[p].issue]
    OBVIOUS
  <2>2. job[p].retry \in BOOLEAN /\ job[p].issue \in Issue
    BY <1>2, <1>11 DEF Activate, Answered, Is, Job
  <2>3. c \in Claim /\ c.status = "active"
    BY <1>2, <2>1, <2>2 DEF Claim
  <2>4. File!Start("write", c)
    BY <1>5, <1>11, <2>1 DEF Activate
  <2> QED
    BY <1>4, <2>3, <2>4, OpenEarned
<1>12. CASE SettleClaim(p)
  BY <1>4, <1>12, OutcomesEarned DEF SettleClaim, Is, Write
<1>13. CASE ActivateToComplete(p)
  <2>1. PICK c : c = [Read EXCEPT !.status = "active", !.attempt = n]
    OBVIOUS
  <2>2. c \in Claim /\ c.status = "active"
    BY <1>2, <2>1 DEF Claim
  <2>3. File!Start("write", c)
    BY <1>5, <1>13, <2>1 DEF ActivateToComplete, Write
  <2> QED
    BY <1>4, <2>2, <2>3, OpenEarned
<1>14. CASE Complete(p)
  <2>1. PICK c : c = [Read EXCEPT !.status = "completed"]
    OBVIOUS
  <2>2. job[p].at = "activating" /\ job[p].kind = "complete" /\ op.step = "done"
    BY <1>14 DEF Complete, Answered, Is
  <2>3. Read = op.value /\ op.value.origin = job[p].issue
    BY <2>2, JobOf, FileDone DEF RunnerInv, ClaimInv, OwnClaim, Read
  <2>4. c \in Claim /\ c.origin = job[p].issue
    BY <1>2, <2>1, <2>3 DEF Claim
  <2>5. Ran(job[p].issue) /\ job[p].issue \in Issue
    BY <1>2, <2>2 DEF JobEarned, IssueOf
  <2>6. File!Start("write", c)
    BY <1>14, <2>1 DEF Complete, Write
  <2> QED
    BY <1>4, <2>4, <2>5, <2>6 DEF Earned
<1> QED
  BY <1>6, <1>7, <1>8, <1>9, <1>10, <1>11, <1>12, <1>13, <1>14 DEF ClaimStep

LEMMA LedgerStepped ==
  ASSUME RunnerInv, RunsInv, NEW p \in Proc, Forget,
         ClaimStep(p) \/ FailLease(p) \/ FailFile(p) \/ CrashClaim(p)
  PROVE  \A q \in Proc : Stepped(q)
<1>1. job \in [Proc -> Job] /\ job[p] \in Job /\ ProcInv(p) /\ ProcBound(p) /\ Shaped
  BY DEF RunnerInv, RunsInv, ClaimInv, JobTyped
<1>2. ASSUME NEW q \in Proc, job'[q] = job[q] PROVE Stepped(q)
  BY <1>2, Bystands DEF Stepped
<1>3. ASSUME Advanced(p), NEW j, job' = [job EXCEPT ![p] = j]
      PROVE  \A q \in Proc : Stepped(q)
  BY <1>1, <1>2, <1>3 DEF Stepped
<1>4. ASSUME job'[p].at # "idle" PROVE mem'[p].stage = mem[p].stage
  BY <1>1, <1>4, ForgetTyped
<1>5. ASSUME NEW result, Stop(p, result),
             job[p].at \in {"reading", "activating", "completing", "settling"},
             result = "none" => job[p].at \in {"reading", "completing"}
      PROVE  \A q \in Proc : Stepped(q)
  <2>1. PICK j : j = [job[p] EXCEPT !.at = "leaving", !.result = result]
    OBVIOUS
  <2>2. /\ j.at = "leaving" /\ j.result = result /\ j.issue = job[p].issue
        /\ j.kind = job[p].kind /\ j.base = job[p].base
    BY <1>1, <2>1 DEF Job
  <2>3. job' = [job EXCEPT ![p] = j]
    BY <1>1, <1>5, <2>1 DEF Stop, Job
  <2>4. job'[p] = j
    BY <1>1, <2>3
  <2>5. Advanced(p)
    BY <1>4, <1>5, <2>2, <2>4 DEF Advanced, Unrecorded
  <2> QED
    BY <1>3, <2>3, <2>5
<1>6. ASSUME NEW at \in JobAt \ {"idle", "claiming", "leaving"}, Moves(p, at),
             job[p].at # "idle",
             at \in {"reading", "activating", "completing", "working"} =>
               job[p].at \in {"claiming", "reading", "activating"},
             at = "selecting" => Unrecorded(p),
             at = "settling" => job[p].result # "none"
      PROVE  \A q \in Proc : Stepped(q)
  <2>1. PICK j : j = [job[p] EXCEPT !.at = at]
    OBVIOUS
  <2>2. /\ j.at = at /\ j.result = job[p].result /\ j.issue = job[p].issue
        /\ j.kind = job[p].kind /\ j.base = job[p].base
    BY <1>1, <2>1 DEF Job
  <2>3. job' = [job EXCEPT ![p] = j]
    BY <1>6, <2>1 DEF Moves
  <2>4. job'[p] = j
    BY <1>1, <2>3
  <2>5. job[p].at \in {"claiming", "reading", "activating"} => job[p].result = "none"
    BY <1>1 DEF ProcInv
  <2>6. Advanced(p)
    BY <1>4, <1>6, <2>2, <2>4, <2>5 DEF Advanced
  <2> QED
    BY <1>3, <2>3, <2>6
<1>7. CASE ClearLease(p) \/ OrphanExits(p) \/ StepFile(p) \/ FailFile(p)
  BY <1>2, <1>7 DEF ClearLease, OrphanExits, StepFile, FailFile
<1>8. CASE RefuseLease(p) \/ FailLease(p) \/ CrashClaim(p)
  BY <1>8, EndStepped DEF RefuseLease, FailLease, CrashClaim
<1>9. CASE FileError(p) \/ RefuseClaim(p)
  BY <1>5, <1>9 DEF FileError, RefuseClaim, Busy, Answered, Is
<1>10. CASE NothingToComplete(p) \/ Completed(p)
  BY <1>5, <1>10 DEF NothingToComplete, Completed, Answered, Is
<1>11. CASE Settled(p)
  BY <1>1, <1>5, <1>11 DEF Settled, Answered, Is, ProcBound
<1>12. CASE EnterLease(p) \/ StartWork(p)
  BY <1>6, <1>12 DEF EnterLease, StartWork, Answered, Is, JobAt
<1>13. CASE LeaveInstruction(p)
  <2>1. CASE ReleaseIssue(p)
    BY <2>1, EndStepped
  <2>2. CASE Moves(p, "selecting") /\ job[p].kind = "complete" /\ job[p].result = "none"
    BY <1>6, <1>13, <2>2 DEF LeaveInstruction, Is, JobAt, Unrecorded
  <2> QED
    BY <1>13, <2>1, <2>2 DEF LeaveInstruction
<1>14. CASE LeaveActive(p)
  <2>1. PICK j : j = [job[p] EXCEPT !.at = "leaving"]
    OBVIOUS
  <2>2. /\ j.at = "leaving" /\ j.result = "commit_pending" /\ j.issue = job[p].issue
        /\ j.kind = job[p].kind /\ j.base = job[p].base
    BY <1>1, <1>14, <2>1 DEF Job, LeaveActive
  <2>3. job' = [job EXCEPT ![p] = j]
    BY <1>14, <2>1 DEF LeaveActive, Moves
  <2>4. job'[p] = j
    BY <1>1, <2>3
  <2>5. Advanced(p)
    BY <1>4, <1>14, <2>2, <2>4 DEF Advanced, LeaveActive, Is
  <2> QED
    BY <1>3, <2>3, <2>5
<1>15. CASE SettleClaim(p)
  BY <1>6, <1>15 DEF SettleClaim, Write, Is, JobAt
<1>16. CASE ActivateToComplete(p) \/ Complete(p)
  BY <1>6, <1>16 DEF ActivateToComplete, Complete, Write, Answered, Is, JobAt
<1>17. CASE Activate(p)
  <2>1. PICK j : j = [job[p] EXCEPT !.at = "activating", !.base = Read]
    OBVIOUS
  <2>2. /\ j.at = "activating" /\ j.result = job[p].result /\ j.issue = job[p].issue
        /\ j.kind = job[p].kind /\ j.base = Read
    BY <1>1, <2>1 DEF Job
  <2>3. job' = [job EXCEPT ![p] = j]
    BY <1>1, <1>17, <2>1 DEF Activate, Job
  <2>4. job'[p] = j /\ job[p].at = "reading" /\ job[p].result = "none"
    BY <1>1, <1>17, <2>3 DEF Activate, Answered, Is, ProcInv
  <2>5. Advanced(p)
    BY <1>4, <2>2, <2>4 DEF Advanced
  <2> QED
    BY <1>3, <2>3, <2>5
<1> QED
  BY <1>7, <1>8, <1>9, <1>10, <1>11, <1>12, <1>13, <1>14, <1>15, <1>16, <1>17 DEF ClaimStep

LEMMA LedgerKeepsRuns ==
  ASSUME RunnerInv, RunsInv, RunnerInv', NEW p \in Proc, ClaimWork(p) \/ ClaimFault(p)
  PROVE  RunsInv'
<1>1. Forget /\ UNCHANGED <<task, posted>> /\ (faults' = faults \/ Fault)
  BY DEF ClaimWork, ClaimFault, NoFault
<1>2. ClaimStep(p) \/ FailLease(p) \/ FailFile(p) \/ CrashClaim(p)
  BY DEF ClaimWork, ClaimFault
<1>3. FileMove
  BY <1>2, ClaimFileMove DEF RunnerInv
<1> QED
  BY <1>1, <1>2, <1>3, LedgerEarned, LedgerStepped, OutsideRuns DEF TasksQuiet

-----------------------------------------------------------------------------
(* The second invariant holds always *)

LEMMA RunsInit ==
  ASSUME Init
  PROVE  RunsInv
<1>1. NoClaim \in Earned
  BY NoClaimTyped DEF Earned, NoClaim
<1>2. Proved!ValuesIn(Earned)
  BY <1>1
  DEF Init, ClaimInit, File!FileInit, File!Empty, File!Rest, File!Void,
      Proved!ValuesIn, Proved!HoldsOnly
<1>3. \A i \in Issue : TaskBound(i)
  <2> SUFFICES ASSUME NEW i \in Issue PROVE TaskBound(i)
    OBVIOUS
  <2>1. task[i].runs = <<>> /\ task[i].turns = 0 /\ task[i].phase = "none" /\ posted[i] = <<>>
    BY DEF Init, NewTask
  <2>2. <<>> \in Seq(Final) /\ <<>> \in Seq(Packet)
    OBVIOUS
  <2> QED
    BY <2>1, <2>2, BoundsAreNatural DEF TaskBound
<1>4. \A p \in Proc : JobEarned(p) /\ ProcBound(p)
  BY <1>1 DEF Init, ClaimInit, NoJob, NoMem, JobEarned, ProcBound, Unrecorded
<1> QED
  BY <1>2, <1>3, <1>4, BoundsAreNatural DEF Init, RunsInv

LEMMA RunsStep ==
  ASSUME RunnerInv, RunsInv, RunnerInv', [Next]_vars
  PROVE  RunsInv'
<1>1. ASSUME NEW p \in Proc, NEW i \in Issue, Fetch(p, i) \/ OpenIssue(p, i) PROVE RunsInv'
  BY <1>1, FetchStepped
<1>2. ASSUME NEW p \in Proc, EndCycle(p) \/ NothingSelected(p) \/ AskToComplete(p) \/ AskToClaim(p)
      PROVE  RunsInv'
  BY <1>2, EndCycleStepped, AskStepped
<1>3. ASSUME NEW p \in Proc, Work(p) PROVE RunsInv'
  BY <1>3, WorkRuns
<1>4. ASSUME NEW p \in Proc, ClaimWork(p) \/ ClaimFault(p) PROVE RunsInv'
  BY <1>4, LedgerKeepsRuns
<1>5. ASSUME NEW i \in Issue, TurnEnds(i) \/ AllowRetry(i) \/ LandLate(i) PROVE RunsInv'
  BY <1>5, AroundStepped
<1>6. CASE PowerFault
  BY <1>6, PowerStepped
<1>7. CASE UNCHANGED vars
  <2>1. UNCHANGED <<dir, disk, op, job, task, posted, mem, faults>>
    BY <1>7 DEF vars, claimVars
  <2>2. \A q \in Proc : Stepped(q)
    BY <2>1 DEF Stepped, Untouched
  <2> QED
    BY <2>1, <2>2, OutsideRuns, FileKeptMove DEF TasksQuiet
<1> QED
  BY <1>1, <1>2, <1>3, <1>4, <1>5, <1>6, <1>7 DEF Next

\* What is recorded of the runs, and what the claim file says of them, agree always.
THEOREM RunsAlways == Spec => []RunsInv
<1>1. Init => RunsInv
  BY RunsInit
<1>2. RunnerInv /\ RunnerInv' /\ RunsInv /\ [Next]_vars => RunsInv'
  BY RunsStep
<1> QED
  BY <1>1, <1>2, RunnerAlways, PTL DEF Spec

\* Every variable stays within its type: a packet is of the first or the second run,
\* no more turns are counted than may be started, and only a run that ended for good
\* is recorded.
THEOREM RunnerTypes == Spec => []TypeOK
<1>1. ASSUME RunnerInv, RunsInv PROVE TypeOK
  <2>1. ClaimTypeOK
    BY <1>1 DEF RunnerInv, ClaimInv, LeaseInv, File!FileInv, JobTyped, Shaped, ClaimTypeOK
  <2>2. task \in [Issue -> Task]
    <3>1. ASSUME NEW i \in Issue PROVE task[i] \in Task
      <4>1. task[i] \in TaskShape /\ TaskBound(i) /\ MaxTurns \in Nat
        BY <1>1, BoundsAreNatural DEF RunnerInv, Shaped, RunsInv
      <4>2. task[i].turns \in 0..MaxTurns /\ task[i].runs \in Seq(Final)
        BY <4>1 DEF TaskShape, TaskBound
      <4> QED
        BY <4>1, <4>2 DEF TaskShape, Task, Outcome
    <3> QED
      BY <1>1, <3>1 DEF RunnerInv, Shaped
  <2>3. posted \in [Issue -> Seq(Packet)]
    BY <1>1 DEF RunnerInv, Shaped, RunsInv, TaskBound
  <2> QED
    BY <1>1, <2>1, <2>2, <2>3 DEF RunnerInv, RunsInv, Shaped, TurnStatus, TypeOK
<1> QED
  BY <1>1, RunnerAlways, RunsAlways, PTL

\* A claim that is completed, in the record that lasts, is completed for an
\* instruction that ran: runOnce and reconcileTerminalFailureQueueCompletion.
THEOREM RunnerCompletesRan == Spec => []CompletedRan
<1>1. ASSUME RunnerInv, RunsInv PROVE CompletedRan
  <2>1. dir \in disk
    BY <1>1 DEF RunnerInv, ClaimInv, File!FileInv
  <2>2. File!Lasting \in Earned
    BY <1>1, <2>1
    DEF RunsInv, Proved!ValuesIn, Proved!HoldsOnly, File!Lasting, File!Logical
  <2> QED
    BY <2>2 DEF Earned, CompletedRan, Ran
<1> QED
  BY <1>1, RunnerAlways, RunsAlways, PTL
=============================================================================

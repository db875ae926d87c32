----------------------- MODULE BackgroundResearch_proofs -----------------------
(***************************************************************************)
(* Theorems about BackgroundResearch for any jobs, calls, reconcilers,     *)
(* webhook calls, faults and bounds.                                       *)
(***************************************************************************)
EXTENDS BackgroundResearch, FiniteSetTheorems, TLAPS

-----------------------------------------------------------------------------
(* Type correctness *)

JobRow == [status : JobStatus, cancelling : BOOLEAN, invoked : BOOLEAN, published : Nat]
OperationRow ==
  [state : OperationStates, response : Calls \cup {None}, failures : 0..FailureCap,
   lease : Workers \cup Calls \cup {None}, expired : BOOLEAN,
   code : TerminalCodes \cup {"none"}, old : BOOLEAN]
EventRow == [state : EventStates, aged : BOOLEAN]
ClientRow ==
  [pc : {"prepared", "waiting", "reading", "failing", "done"}, sent : BOOLEAN,
   answer : Answers \cup {"none"}]
CallRow ==
  [pc : {"idle", "begin", "start", "post", "attach", "mark", "reject", "rejectFinalize", "gone"},
   job : Jobs \cup {None}, posted : BOOLEAN, tries : 0..AttachAttempts,
   verdict : {"uncertain", "definitive"}]
WorkerRow ==
  [pc : {"idle", "inbox", "store", "insert", "lookup", "claim", "decide", "conclude",
         "remark", "retryEvent"},
   job : Jobs \cup {None}, response : Calls \cup {None}, failures : 0..FailureCap,
   event : Calls \cup {None}, classified : {"none", "duplicate", "received", "unmatched_pending"},
   plan : Plans]
ProviderStates == {"none", "running"} \cup EndStates

LEMMA TypeOKMeaning ==
  TypeOK <=> /\ job \in [Jobs -> JobRow]
             /\ operation \in [Jobs -> OperationRow]
             /\ inbox \in [Calls -> EventRow]
             /\ provider \in [Calls -> ProviderStates]
             /\ client \in [Jobs -> ClientRow]
             /\ call \in [Calls -> CallRow]
             /\ worker \in [Workers -> WorkerRow]
             /\ faults \in 0..MaxFaults
BY DEF TypeOK, JobRow, OperationRow, EventRow, ClientRow, CallRow, WorkerRow, ProviderStates

\* Plans, taken apart once and for all.
LEMMA PlanFacts ==
  /\ NoPlan \in Plans /\ NoPlan.do = "none"
  /\ CountFailure \in Plans /\ CountFailure.do = "countFailure"
  /\ ResetFailures \in Plans /\ ResetFailures.do = "resetFailures"
  /\ \A s, c : /\ Finish(s, c).do = "finish"
               /\ Finish(s, c).status = s
               /\ Finish(s, c).code = c
  /\ \A s \in EndStates, c \in TerminalCodes : Finish(s, c) \in Plans
  /\ \A p \in Plans : p.do = "finish" => p.status \in EndStates /\ p.code \in TerminalCodes
<1>1. NoPlan.do = "none" /\ CountFailure.do = "countFailure" /\ ResetFailures.do = "resetFailures"
  BY DEF NoPlan, CountFailure, ResetFailures
<1>2. \A s, c : /\ Finish(s, c).do = "finish"
                /\ Finish(s, c).status = s
                /\ Finish(s, c).code = c
  BY DEF Finish
<1>3. NoPlan \in Plans /\ CountFailure \in Plans /\ ResetFailures \in Plans
  BY DEF Plans
<1>4. \A s \in EndStates, c \in TerminalCodes : Finish(s, c) \in Plans
  BY DEF Plans
<1>5. ASSUME NEW p \in Plans, p.do = "finish"
      PROVE  p.status \in EndStates /\ p.code \in TerminalCodes
  <2>1. p \in {NoPlan, CountFailure, ResetFailures}
        \/ \E s \in EndStates, c \in TerminalCodes : p = Finish(s, c)
    BY DEF Plans
  <2>2. p \notin {NoPlan, CountFailure, ResetFailures}
    BY <1>1, <1>5
  <2>3. PICK s \in EndStates, c \in TerminalCodes : p = Finish(s, c)
    BY <2>1, <2>2
  <2> QED BY <1>2, <2>3
<1> QED BY <1>1, <1>2, <1>3, <1>4, <1>5

-----------------------------------------------------------------------------
(* The inductive invariant                                                 *)

\* A call was delivered by a browser that had started its job, posts once, and
\* attaches only a response the provider has created.
CallOrder(c) ==
  /\ call[c].pc = "idle" => call[c].job = None /\ ~call[c].posted /\ call[c].tries = 0
  /\ call[c].pc # "idle" => call[c].job \in Jobs /\ client[call[c].job].sent
  /\ call[c].pc \in {"begin", "start", "post"} => ~call[c].posted /\ call[c].tries = 0
  /\ ~call[c].posted => provider[c] = "none"
  /\ call[c].pc \in {"reject", "rejectFinalize"} => call[c].posted /\ provider[c] = "none"
  /\ call[c].pc = "attach" => /\ call[c].posted /\ provider[c] # "none"
                              /\ call[c].tries < AttachAttempts

ClientOrder(j) == client[j].pc = "prepared" => ~client[j].sent

\* A call that may post, or has.
Submitting(c) == call[c].pc = "post" \/ call[c].posted
OneSubmitter(j) ==
  \A c, d \in Calls : call[c].job = j /\ call[d].job = j /\ Submitting(c) /\ Submitting(d)
                        => c = d
SubmissionKnown(j) ==
  \A c \in Calls : call[c].job = j /\ Submitting(c)
                     => operation[j].state \notin {"none", "intent_created"}

\* An operation has the response of a call of its own that the provider
\* answered; one that grew old has no call left; one that ended without a
\* response gets none; and only an ended one has published.
OperationOrder(j) ==
  /\ Exists(j) => client[j].sent
  /\ operation[j].response # None =>
       /\ call[operation[j].response].job = j /\ call[operation[j].response].posted
       /\ provider[operation[j].response] # "none"
  /\ operation[j].old => /\ Exists(j) /\ operation[j].response = None
                         /\ \A c \in Calls : call[c].job = j => ~InFlight(c)
  /\ Terminal(operation[j]) => operation[j].lease = None /\ operation[j].state \in EndStates
  /\ Terminal(operation[j]) /\ operation[j].response = None =>
       \A c \in Calls : call[c].job = j => call[c].pc \notin {"post", "attach"}
  /\ ~Terminal(operation[j]) => job[j].published = 0

Outcome(j) == Terminal(operation[j]) =>
  /\ (job[j].published = 1) <=> (operation[j].state = "completed")
  /\ IF operation[j].code = "PROVIDER_RESULT_DISCARDED_AFTER_CANCELLATION"
     THEN ~JobRuns(j)
     ELSE job[j].status = JobOutcome(operation[j].state)
  /\ operation[j].code \in {"PROVIDER_SUBMISSION_REJECTED", "BACKGROUND_SUBMISSION_AMBIGUOUS"}
       => operation[j].response = None
  /\ operation[j].code = "PROVIDER_SUBMISSION_REJECTED"
       => \A c \in Calls : call[c].job = j => provider[c] = "none"

\* An event tells of a response that has ended, and is closed for a cause.
EndedFor(r) == \E j \in Jobs : operation[j].response = r /\ Terminal(operation[j])
EventOrder(r) ==
  /\ inbox[r].state # "none" => provider[r] \in EndStates
  /\ inbox[r].state \in {"processed", "duplicate"} => EndedFor(r)
  /\ inbox[r].state = "permanently_rejected" => inbox[r].aged

\* What a worker remembers of its operation and its event stays true, and it
\* ends an operation only for a reason that lasts.
WorkerOrder(w) ==
  /\ worker[w].pc \in {"inbox", "claim", "decide", "conclude", "remark"} => worker[w].job \in Jobs
  /\ worker[w].response # None =>
       worker[w].job \in Jobs /\ operation[worker[w].job].response = worker[w].response
  /\ worker[w].event # None => provider[worker[w].event] \in EndStates
  /\ worker[w].pc = "insert" /\ worker[w].classified = "duplicate" => EndedFor(worker[w].event)
  /\ worker[w].plan.do = "finish" =>
       /\ worker[w].pc = "conclude"
       /\ worker[w].plan.status = "completed" =>
            worker[w].response # None /\ provider[worker[w].response] = "completed"
       /\ worker[w].plan.code \notin {"PROVIDER_RESULT_DISCARDED_AFTER_CANCELLATION",
                                      "PROVIDER_SUBMISSION_REJECTED"}
       /\ worker[w].plan.code = "BACKGROUND_SUBMISSION_AMBIGUOUS" => worker[w].response = None
       /\ worker[w].response = None => operation[worker[w].job].old

ResearchInv ==
  /\ TypeOK
  /\ \A c \in Calls : CallOrder(c)
  /\ \A j \in Jobs : /\ ClientOrder(j) /\ OneSubmitter(j) /\ SubmissionKnown(j)
                     /\ OperationOrder(j) /\ Outcome(j)
  /\ \A r \in Calls : EventOrder(r)
  /\ \A w \in Workers : WorkerOrder(w)

-----------------------------------------------------------------------------
(* Type correctness of a step *)

LEMMA FaultTyped ==
  ASSUME TypeOK, (\E how \in Replies : Charge(how)) \/ Fault \/ UNCHANGED faults
  PROVE  faults' \in 0..MaxFaults
BY ResearchAssumption DEF TypeOK, Charge, Fault

LEMMA RestTyped ==
  ASSUME TypeOK, NEW w \in Workers, Rest(w)
  PROVE  worker' \in [Workers -> WorkerRow]
<1>1. IdleWorker \in WorkerRow
  BY PlanFacts, ResearchAssumption DEF IdleWorker, WorkerRow
<1> QED BY <1>1, TypeOKMeaning DEF Rest

LEMMA StepTyped ==
  ASSUME TypeOK, NEW w \in Workers, NEW pc \in {"remark", "decide"}, Step(w, pc)
  PROVE  worker' \in [Workers -> WorkerRow]
<1>1. worker \in [Workers -> WorkerRow]
  BY TypeOKMeaning
<1>2. [worker[w] EXCEPT !.pc = pc] \in WorkerRow
  BY <1>1 DEF WorkerRow
<1> QED BY <1>1, <1>2 DEF Step

LEMMA ThrowTyped ==
  ASSUME TypeOK, NEW w \in Workers, Throw(w)
  PROVE  worker' \in [Workers -> WorkerRow]
<1>1. worker \in [Workers -> WorkerRow] /\ NoPlan \in Plans
  BY TypeOKMeaning, PlanFacts
<1>2. [worker[w] EXCEPT !.pc = "retryEvent", !.plan = NoPlan] \in WorkerRow
  BY <1>1 DEF WorkerRow
<1>3. CASE w \in Hooks
  BY <1>1, <1>2, <1>3 DEF Throw
<1>4. CASE w \notin Hooks
  BY <1>4, RestTyped DEF Throw
<1> QED BY <1>3, <1>4

LEMMA HoldingTyped ==
  ASSUME TypeOK, NEW w \in Workers, NEW pc \in {"inbox", "claim"}, NEW j \in Jobs,
         Holding(w, pc, j)
  PROVE  worker' \in [Workers -> WorkerRow]
<1>1. worker \in [Workers -> WorkerRow] /\ operation[j] \in OperationRow
  BY TypeOKMeaning
<1>2. operation[j].response \in Calls \cup {None} /\ operation[j].failures \in 0..FailureCap
  BY <1>1 DEF OperationRow
<1>3. [worker[w] EXCEPT !.pc = pc, !.job = j, !.response = operation[j].response,
                        !.failures = operation[j].failures] \in WorkerRow
  BY <1>1, <1>2 DEF WorkerRow
<1> QED BY <1>1, <1>3 DEF Holding, Snapshot

LEMMA PlanTyped ==
  ASSUME TypeOK, NEW w \in Workers, NEW plan \in Plans,
         \/ worker' = [worker EXCEPT ![w].pc = "conclude", ![w].plan = plan]
         \/ worker' = [worker EXCEPT ![w].plan = plan]
  PROVE  worker' \in [Workers -> WorkerRow]
<1>1. worker \in [Workers -> WorkerRow]
  BY TypeOKMeaning
<1>2. /\ [worker[w] EXCEPT !.pc = "conclude", !.plan = plan] \in WorkerRow
      /\ [worker[w] EXCEPT !.plan = plan] \in WorkerRow
  BY <1>1 DEF WorkerRow
<1> QED BY <1>1, <1>2

LEMMA RespondTyped ==
  ASSUME TypeOK, NEW c \in Calls, NEW answer \in Answers, Respond(c, answer)
  PROVE  call' \in [Calls -> CallRow] /\ client' \in [Jobs -> ClientRow]
<1>1. call \in [Calls -> CallRow] /\ client \in [Jobs -> ClientRow]
  BY TypeOKMeaning
<1>2. call' \in [Calls -> CallRow]
  <2>1. [call[c] EXCEPT !.pc = "gone"] \in CallRow
    BY <1>1 DEF CallRow
  <2> QED BY <1>1, <2>1 DEF Respond
<1>3. client' \in [Jobs -> ClientRow]
  <2>1. ASSUME NEW j \in Jobs
        PROVE  [client[j] EXCEPT !.answer = IF @ = "none" THEN answer ELSE @] \in ClientRow
    BY <1>1 DEF ClientRow
  <2> QED BY <1>1, <2>1 DEF Respond
<1> QED BY <1>2, <1>3

LEMMA GotoTyped ==
  ASSUME TypeOK, NEW c \in Calls, NEW pc \in {"start", "post", "mark", "rejectFinalize"},
         Goto(c, pc)
  PROVE  call' \in [Calls -> CallRow] /\ client' \in [Jobs -> ClientRow]
<1>1. call \in [Calls -> CallRow] /\ client \in [Jobs -> ClientRow]
  BY TypeOKMeaning
<1>2. [call[c] EXCEPT !.pc = pc] \in CallRow
  BY <1>1 DEF CallRow
<1> QED BY <1>1, <1>2 DEF Goto

LEMMA FinalizeTyped ==
  ASSUME TypeOK, NEW j \in Jobs, NEW event, NEW status \in EndStates,
         NEW code \in TerminalCodes, Finalize(j, event, status, code)
  PROVE  /\ operation' \in [Jobs -> OperationRow]
         /\ job' \in [Jobs -> JobRow]
         /\ inbox' \in [Calls -> EventRow]
<1>1. /\ operation \in [Jobs -> OperationRow] /\ job \in [Jobs -> JobRow]
      /\ inbox \in [Calls -> EventRow]
  BY TypeOKMeaning
<1>2. FinalizedOperation(j, status, code) \in OperationRow
  <2>1. operation[j] \in OperationRow
    BY <1>1
  <2> QED BY <2>1 DEF FinalizedOperation, Released, OperationRow, OperationStates, EndStates, TerminalCodes
<1>3. FinalizedJob(j, status) \in JobRow
  <2>1. job[j] \in JobRow
    BY <1>1
  <2>2. JobOutcome(status) \in JobStatus
    BY DEF JobOutcome, JobStatus
  <2>3. job[j].published + (IF status = "completed" THEN 1 ELSE 0) \in Nat
    BY <2>1 DEF JobRow
  <2>4. [job[j] EXCEPT !.status = JobOutcome(status),
                       !.published = @ + (IF status = "completed" THEN 1 ELSE 0)] \in JobRow
    BY <2>1, <2>2, <2>3 DEF JobRow
  <2> QED BY <2>1, <2>4 DEF FinalizedJob
<1>4. ASSUME NEW r \in Calls
      PROVE  FinalizedInbox(j, event)[r] \in EventRow
  <2>1. inbox[r] \in EventRow
    BY <1>1
  <2> QED BY <2>1 DEF FinalizedInbox, GuardedEvent, EventRow, EventStates
<1>5. FinalizedInbox(j, event) \in [Calls -> EventRow]
  <2>1. \E g : FinalizedInbox(j, event) = [r \in Calls |-> g[r]]
    BY <1>4 DEF FinalizedInbox
  <2> QED BY <1>4, <2>1
<1> QED BY <1>1, <1>2, <1>3, <1>5 DEF Finalize

\* The parts of the state a step may leave alone, in type.
LEMMA BrowserTyped ==
  ASSUME ResearchInv, NEW j \in Jobs, ClientStep(j) \/ LoseAnswer(j) \/ CancelJob(j)
  PROVE  TypeOK'
<1>0. TypeOK /\ client \in [Jobs -> ClientRow] /\ job \in [Jobs -> JobRow]
  BY TypeOKMeaning DEF ResearchInv
<1>1. CASE SetRunning(j)
  <2>1. faults' \in 0..MaxFaults
    BY <1>0, <1>1, FaultTyped DEF SetRunning
  <2>2. [job[j] EXCEPT !.status = "running"] \in JobRow
    BY <1>0 DEF JobRow, JobStatus
  <2>3. job' \in [Jobs -> JobRow]
    BY <1>0, <1>1, <2>2 DEF SetRunning
  <2>4. client' \in [Jobs -> ClientRow]
    <3>1. ASSUME NEW how
          PROVE  [client[j] EXCEPT !.pc = IF how = "ok" THEN "waiting" ELSE "failing",
                                   !.sent = how = "ok"] \in ClientRow
      BY <1>0 DEF ClientRow
    <3> QED BY <1>0, <1>1, <3>1 DEF SetRunning
  <2> QED BY <1>0, <1>1, <2>1, <2>3, <2>4, TypeOKMeaning DEF SetRunning, TypeOK, JobRow, ClientRow
<1>2. CASE ReceiveAnswer(j)
  <2>1. client' \in [Jobs -> ClientRow]
    BY <1>0, <1>2 DEF ReceiveAnswer, ClientRow, Answers
  <2> QED BY <1>0, <1>2, <2>1 DEF ReceiveAnswer, TypeOK, ClientRow
<1>3. CASE ReadJob(j)
  <2>1. client' \in [Jobs -> ClientRow]
    BY <1>0, <1>3 DEF ReadJob, ClientRow
  <2>2. faults' \in 0..MaxFaults
    BY <1>0, <1>3, FaultTyped DEF ReadJob
  <2> QED BY <1>0, <1>3, <2>1, <2>2 DEF ReadJob, TypeOK, ClientRow
<1>4. CASE FailJob(j)
  <2>1. client' \in [Jobs -> ClientRow]
    BY <1>0, <1>4 DEF FailJob, ClientRow
  <2>2. [job[j] EXCEPT !.status = "failed"] \in JobRow
    BY <1>0 DEF JobRow, JobStatus
  <2>3. job' \in [Jobs -> JobRow]
    BY <1>0, <1>4, <2>2 DEF FailJob
  <2> QED BY <1>0, <1>4, <2>1, <2>3 DEF FailJob, TypeOK, ClientRow, JobRow
<1>5. CASE LoseAnswer(j)
  <2>1. client' \in [Jobs -> ClientRow]
    BY <1>0, <1>5 DEF LoseAnswer, ClientRow
  <2>2. faults' \in 0..MaxFaults
    BY <1>0, <1>5, FaultTyped DEF LoseAnswer
  <2> QED BY <1>0, <1>5, <2>1, <2>2 DEF LoseAnswer, TypeOK, ClientRow
<1>6. CASE CancelJob(j)
  <2>1. [job[j] EXCEPT !.status = "cancelled", !.cancelling = TRUE] \in JobRow
    BY <1>0 DEF JobRow, JobStatus
  <2>2. job' \in [Jobs -> JobRow]
    BY <1>0, <1>6, <2>1 DEF CancelJob
  <2> QED BY <1>0, <1>6, <2>2 DEF CancelJob, TypeOK, JobRow
<1> QED BY <1>1, <1>2, <1>3, <1>4, <1>5, <1>6 DEF ClientStep

\* The typing of the operation row, one field at a time.
LEMMA OperationTyped ==
  ASSUME TypeOK, NEW j \in Jobs, NEW row \in OperationRow,
         operation' = [operation EXCEPT ![j] = row] \/ operation' = operation
  PROVE  operation' \in [Jobs -> OperationRow]
BY TypeOKMeaning

LEMMA CallTyped ==
  ASSUME ResearchInv, NEW c \in Calls, CallStep(c) \/ CallCrash(c)
  PROVE  TypeOK'
<1>0. /\ TypeOK /\ call \in [Calls -> CallRow] /\ client \in [Jobs -> ClientRow]
      /\ operation \in [Jobs -> OperationRow] /\ job \in [Jobs -> JobRow]
      /\ inbox \in [Calls -> EventRow] /\ provider \in [Calls -> ProviderStates]
      /\ CallOrder(c)
  BY TypeOKMeaning DEF ResearchInv
<1> DEFINE k == call[c].job
<1>a. call[c].pc # "idle" => k \in Jobs
  BY <1>0 DEF CallOrder
<1>b. call[c].verdict \in Answers /\ {"accepted", "definitive", "uncertain"} \subseteq Answers
  BY <1>0 DEF CallRow, Answers
<1>1. CASE Begin(c)
  <2>1. k \in Jobs
    BY <1>1, <1>a DEF Begin
  <2>2. PICK how \in Replies, limited \in BOOLEAN :
             /\ Charge(how)
             /\ IF ~Exists(k) /\ GateOpen(k) /\ ~limited /\ how # "failed"
                THEN /\ operation' = [operation EXCEPT ![k].state = "intent_created"]
                     /\ job' = [job EXCEPT ![k].invoked = TRUE]
                ELSE UNCHANGED <<operation, job>>
             /\ IF how # "ok" \/ operation'[k].state = "none" THEN Respond(c, "definitive")
                ELSE IF operation'[k].state = "intent_created" THEN Goto(c, "start")
                ELSE Respond(c, "accepted")
    BY <1>1 DEF Begin
  <2>3. operation' \in [Jobs -> OperationRow] /\ job' \in [Jobs -> JobRow]
    <3>1. [operation[k] EXCEPT !.state = "intent_created"] \in OperationRow
      BY <1>0, <2>1 DEF OperationRow, OperationStates
    <3>2. [job[k] EXCEPT !.invoked = TRUE] \in JobRow
      BY <1>0, <2>1 DEF JobRow
    <3> QED BY <1>0, <2>2, <3>1, <3>2
  <2>4. call' \in [Calls -> CallRow] /\ client' \in [Jobs -> ClientRow]
    BY <1>0, <1>b, <2>2, RespondTyped, GotoTyped
  <2>5. faults' \in 0..MaxFaults
    BY <1>0, <2>2, FaultTyped
  <2> QED BY <1>0, <1>1, <2>3, <2>4, <2>5, TypeOKMeaning
          DEF Begin, TypeOK, JobRow, OperationRow, CallRow, ClientRow
<1>2. CASE Start(c)
  <2>1. k \in Jobs
    BY <1>2, <1>a DEF Start
  <2>2. operation' \in [Jobs -> OperationRow]
    <3>1. [operation[k] EXCEPT !.state = "submitting"] \in OperationRow
      BY <1>0, <2>1 DEF OperationRow, OperationStates
    <3> QED BY <1>0, <1>2, <3>1 DEF Start
  <2>3. Goto(c, "post") \/ Respond(c, "accepted") \/ Goto(c, "mark")
    BY <1>2 DEF Start
  <2>4. call' \in [Calls -> CallRow] /\ client' \in [Jobs -> ClientRow]
    BY <1>0, <1>b, <2>3, RespondTyped, GotoTyped
  <2>5. faults' \in 0..MaxFaults
    BY <1>0, <1>2, FaultTyped DEF Start
  <2> QED BY <1>0, <1>2, <2>2, <2>4, <2>5
          DEF Start, TypeOK, OperationRow, CallRow, ClientRow
<1>3. CASE Post(c)
  <2>1. call' \in [Calls -> CallRow]
    BY <1>0, <1>3 DEF Post, CallRow
  <2>2. provider' \in [Calls -> ProviderStates]
    BY <1>0, <1>3 DEF Post, ProviderStates
  <2> QED BY <1>0, <1>3, <2>1, <2>2 DEF Post, TypeOK, CallRow, ProviderStates
<1>4. CASE Attach(c)
  <2>1. k \in Jobs
    BY <1>4, <1>a DEF Attach
  <2>2. operation' \in [Jobs -> OperationRow] /\ inbox' \in [Calls -> EventRow]
    <3>0. /\ operation[k] \in OperationRow /\ c \in Calls \cup {None}
          /\ "provider_in_progress" \in OperationStates
      BY <1>0, <2>1 DEF OperationStates
    <3>1. [operation[k] EXCEPT !.response = c, !.state = "provider_in_progress"] \in OperationRow
      BY <3>0 DEF OperationRow
    <3>2. [inbox[c] EXCEPT !.state = WokenState(inbox[c])] \in EventRow
      BY <1>0 DEF EventRow, EventStates, WokenState
    <3> QED BY <1>0, <1>4, <3>1, <3>2 DEF Attach
  <2>3. call' \in [Calls -> CallRow] /\ client' \in [Jobs -> ClientRow]
    <3>1. CASE Respond(c, "accepted")
      BY <1>0, <1>b, <3>1, RespondTyped
    <3>2. CASE /\ call' = [call EXCEPT
                            ![c].tries = @ + 1,
                            ![c].pc = IF call[c].tries + 1 = AttachAttempts
                                      THEN "mark" ELSE "attach"]
               /\ UNCHANGED client
      <4>1. call[c].tries < AttachAttempts /\ call[c].tries \in 0..AttachAttempts
        BY <1>0, <1>4 DEF Attach, CallOrder, CallRow
      <4>2. call[c].tries + 1 \in 0..AttachAttempts
        BY <4>1, ResearchAssumption
      <4>3. [call[c] EXCEPT !.tries = call[c].tries + 1,
                            !.pc = IF call[c].tries + 1 = AttachAttempts
                                   THEN "mark" ELSE "attach"] \in CallRow
        BY <1>0, <4>2 DEF CallRow
      <4> QED BY <1>0, <3>2, <4>3
    <3> QED BY <1>4, <3>1, <3>2 DEF Attach
  <2>4. faults' \in 0..MaxFaults
    BY <1>0, <1>4, FaultTyped DEF Attach
  <2> QED BY <1>0, <1>4, <2>2, <2>3, <2>4
          DEF Attach, TypeOK, OperationRow, EventRow, CallRow, ClientRow
<1>5. CASE MarkAmbiguous(c)
  <2>1. k \in Jobs
    BY <1>5, <1>a DEF MarkAmbiguous
  <2>2. operation' \in [Jobs -> OperationRow]
    <3>1. [operation[k] EXCEPT !.state = "submission_ambiguous"] \in OperationRow
      BY <1>0, <2>1 DEF OperationRow, OperationStates
    <3> QED BY <1>0, <1>5, <3>1 DEF MarkAmbiguous
  <2>3. call' \in [Calls -> CallRow] /\ client' \in [Jobs -> ClientRow]
    BY <1>0, <1>5, <1>b, RespondTyped DEF MarkAmbiguous
  <2>4. faults' \in 0..MaxFaults
    BY <1>0, <1>5, FaultTyped DEF MarkAmbiguous, Replies
  <2> QED BY <1>0, <1>5, <2>2, <2>3, <2>4
          DEF MarkAmbiguous, TypeOK, OperationRow, CallRow, ClientRow
<1>6. CASE RejectClaim(c)
  <2>1. k \in Jobs
    BY <1>6, <1>a DEF RejectClaim
  <2>2. operation' \in [Jobs -> OperationRow]
    <3>0. operation[k] \in OperationRow /\ c \in Workers \cup Calls \cup {None}
      BY <1>0, <2>1
    <3>1. Leased(operation[k], c) \in OperationRow
      BY <3>0 DEF Leased, OperationRow
    <3> QED BY <1>0, <1>6, <3>1 DEF RejectClaim
  <2>3. call' \in [Calls -> CallRow] /\ client' \in [Jobs -> ClientRow]
    <3>1. Goto(c, "rejectFinalize") \/ Respond(c, "uncertain")
      BY <1>6 DEF RejectClaim
    <3> QED BY <1>0, <1>b, <3>1, RespondTyped, GotoTyped
  <2>4. faults' \in 0..MaxFaults
    BY <1>0, <1>6, FaultTyped DEF RejectClaim
  <2> QED BY <1>0, <1>6, <2>2, <2>3, <2>4
          DEF RejectClaim, TypeOK, OperationRow, CallRow, ClientRow
<1>7. CASE RejectFinalize(c)
  <2>1. k \in Jobs
    BY <1>7, <1>a DEF RejectFinalize
  <2>2. /\ operation' \in [Jobs -> OperationRow]
        /\ job' \in [Jobs -> JobRow] /\ inbox' \in [Calls -> EventRow]
    <3>1. Finalize(k, None, "failed", "PROVIDER_SUBMISSION_REJECTED")
          \/ UNCHANGED <<job, operation, inbox>>
      BY <1>7 DEF RejectFinalize
    <3> QED BY <1>0, <2>1, <3>1, FinalizeTyped DEF EndStates, TerminalCodes
  <2>3. call' \in [Calls -> CallRow] /\ client' \in [Jobs -> ClientRow]
    BY <1>0, <1>b, <1>7, RespondTyped DEF RejectFinalize
  <2>4. faults' \in 0..MaxFaults
    BY <1>0, <1>7, FaultTyped DEF RejectFinalize, Replies
  <2> QED BY <1>0, <1>7, <2>2, <2>3, <2>4
          DEF RejectFinalize, TypeOK, OperationRow, JobRow, EventRow, CallRow, ClientRow
<1>8. CASE CallCrash(c)
  <2>1. call' \in [Calls -> CallRow] /\ client' \in [Jobs -> ClientRow]
    BY <1>0, <1>b, <1>8, RespondTyped DEF CallCrash
  <2>2. faults' \in 0..MaxFaults
    BY <1>0, <1>8, FaultTyped DEF CallCrash
  <2> QED BY <1>0, <1>8, <2>1, <2>2 DEF CallCrash, TypeOK, CallRow, ClientRow
<1> QED BY <1>1, <1>2, <1>3, <1>4, <1>5, <1>6, <1>7, <1>8 DEF CallStep

\* A decision is one of the plans: an event a worker holds and a response it
\* asks about have a status.
LEMMA PlansMade ==
  ASSUME ResearchInv, NEW w \in Workers
  PROVE  /\ worker[w].event # None /\ provider[worker[w].event] # "completed"
              => Finish(provider[worker[w].event], CodeOf(provider[worker[w].event])) \in Plans
         /\ worker[w].response # None => RetrievalPlans(w) \subseteq Plans
<1>0. /\ worker \in [Workers -> WorkerRow] /\ provider \in [Calls -> ProviderStates]
      /\ WorkerOrder(w) /\ \A j \in Jobs : OperationOrder(j)
  BY TypeOKMeaning DEF ResearchInv
<1>1. ASSUME NEW s \in EndStates, s # "completed"
      PROVE  CodeOf(s) \in TerminalCodes
  BY <1>1 DEF EndStates, CodeOf, TerminalCodes
<1>2. ASSUME worker[w].event # None, provider[worker[w].event] # "completed"
      PROVE  Finish(provider[worker[w].event], CodeOf(provider[worker[w].event])) \in Plans
  <2>1. provider[worker[w].event] \in EndStates
    BY <1>0, <1>2 DEF WorkerOrder
  <2> QED BY <1>1, <1>2, <2>1, PlanFacts
<1>3. ASSUME worker[w].response # None
      PROVE  RetrievalPlans(w) \subseteq Plans
  <2>1. /\ worker[w].response \in Calls
        /\ provider[worker[w].response] # "none"
    BY <1>0, <1>3 DEF WorkerRow, WorkerOrder, OperationOrder
  <2> DEFINE s == provider[worker[w].response]
  <2>2. s = "running" \/ s \in EndStates
    BY <1>0, <2>1 DEF ProviderStates
  <2>3. /\ Finish("failed", "BACKGROUND_RESPONSE_RETENTION_EXHAUSTED") \in Plans
        /\ Finish("failed", "PROVIDER_RETRIEVAL_REJECTED") \in Plans
        /\ Finish("completed", "PROVIDER_COMPLETED") \in Plans
        /\ Finish("failed", "PROVIDER_INVALID_RESPONSE") \in Plans
    <3>1. {"failed", "completed"} \subseteq EndStates
      BY DEF EndStates
    <3>2. {"BACKGROUND_RESPONSE_RETENTION_EXHAUSTED", "PROVIDER_RETRIEVAL_REJECTED",
           "PROVIDER_COMPLETED", "PROVIDER_INVALID_RESPONSE"} \subseteq TerminalCodes
      BY DEF TerminalCodes
    <3> QED BY <3>1, <3>2, PlanFacts
  <2>4. s \in EndStates /\ s # "completed" => Finish(s, CodeOf(s)) \in Plans
    BY <1>1, PlanFacts
  <2>5. RetrievalPlans(w) \subseteq
          {CountFailure, Finish("failed", "BACKGROUND_RESPONSE_RETENTION_EXHAUSTED"),
           Finish("failed", "PROVIDER_RETRIEVAL_REJECTED")}
          \cup (CASE s = "running" -> {ResetFailures}
                  [] s = "completed" -> {Finish("completed", "PROVIDER_COMPLETED"),
                                         Finish("failed", "PROVIDER_INVALID_RESPONSE")}
                  [] OTHER -> {Finish(s, CodeOf(s))})
    BY DEF RetrievalPlans
  <2> HIDE DEF s
  <2>6. CASE s = "running"
    BY <2>3, <2>5, <2>6, PlanFacts
  <2>7. CASE s = "completed"
    BY <2>3, <2>5, <2>7, PlanFacts
  <2>8. CASE s \in EndStates /\ s # "completed"
    <3>1. s # "running"
      BY <2>8 DEF EndStates
    <3> QED BY <2>3, <2>4, <2>5, <2>8, <3>1, PlanFacts
  <2> QED BY <2>2, <2>6, <2>7, <2>8
<1> QED BY <1>2, <1>3

LEMMA WorkerTyped ==
  ASSUME ResearchInv, NEW w \in Workers, WorkerStep(w) \/ WorkerCrash(w)
  PROVE  TypeOK'
<1>0. /\ TypeOK /\ worker \in [Workers -> WorkerRow]
      /\ operation \in [Jobs -> OperationRow] /\ job \in [Jobs -> JobRow]
      /\ inbox \in [Calls -> EventRow] /\ WorkerOrder(w)
  BY TypeOKMeaning DEF ResearchInv
<1> DEFINE k == worker[w].job
<1>a. worker[w].pc \in {"claim", "conclude"} => k \in Jobs
  BY <1>0 DEF WorkerOrder
<1>b. /\ Rest(w) \/ Throw(w) => worker' \in [Workers -> WorkerRow]
      /\ \A pc \in {"remark", "decide"} : Step(w, pc) => worker' \in [Workers -> WorkerRow]
  BY <1>0, RestTyped, ThrowTyped, StepTyped
<1>1. CASE ReadInbox(w)
  <2>1. faults' \in 0..MaxFaults
    BY <1>0, <1>1, FaultTyped DEF ReadInbox, Replies
  <2>2. worker' \in [Workers -> WorkerRow]
    <3>1. ASSUME NEW e \in Calls \cup {None}
          PROVE  [worker[w] EXCEPT !.pc = "claim", !.event = e] \in WorkerRow
      BY <1>0 DEF WorkerRow
    <3>2. \E e \in Calls \cup {None} :
            worker' = [worker EXCEPT ![w].pc = "claim", ![w].event = e]
      <4>1. worker[w].response \in Calls \cup {None} /\ None \in Calls \cup {None}
        BY <1>0 DEF WorkerRow
      <4> QED BY <4>1, <1>1, Zenon DEF ReadInbox
    <3> QED BY <1>0, <3>1, <3>2
  <2> QED BY <1>0, <1>1, <2>1, <2>2, TypeOKMeaning DEF ReadInbox, TypeOK, WorkerRow
<1>2. CASE StoreRead(w)
  <2>1. worker' \in [Workers -> WorkerRow]
    <3>1. EventClass(worker[w].event) \in {"duplicate", "received", "unmatched_pending"}
      BY DEF EventClass
    <3>2. [worker[w] EXCEPT !.pc = "insert", !.classified = EventClass(worker[w].event)]
            \in WorkerRow
      BY <1>0, <3>1 DEF WorkerRow
    <3> QED BY <1>0, <1>2, <3>2 DEF StoreRead
  <2> QED BY <1>0, <1>2, <2>1 DEF StoreRead, TypeOK, WorkerRow
<1>3. CASE StoreInsert(w)
  <2>1. faults' \in 0..MaxFaults
    BY <1>0, <1>3, FaultTyped DEF StoreInsert
  <2>2. inbox' \in [Calls -> EventRow]
    <3>1. worker[w].classified \in EventStates
      BY <1>0 DEF WorkerRow, EventStates
    <3>2. ASSUME NEW r \in Calls
          PROVE  [inbox[r] EXCEPT !.state = worker[w].classified] \in EventRow
      BY <1>0, <3>1 DEF EventRow
    <3> QED BY <1>0, <1>3, <3>2 DEF StoreInsert
  <2>3. worker' \in [Workers -> WorkerRow]
    <3>1. [worker[w] EXCEPT !.pc = "lookup", !.classified = "none"] \in WorkerRow
      BY <1>0 DEF WorkerRow
    <3> QED BY <1>0, <1>b, <1>3, <3>1 DEF StoreInsert
  <2> QED BY <1>0, <1>3, <2>1, <2>2, <2>3 DEF StoreInsert, TypeOK, WorkerRow, EventRow
<1>4. CASE Lookup(w)
  <2>1. faults' \in 0..MaxFaults
    BY <1>0, <1>4, FaultTyped DEF Lookup
  <2>2. worker' \in [Workers -> WorkerRow]
    <3>1. Rest(w) \/ \E j \in Jobs : Holding(w, "claim", j)
      BY <1>4 DEF Lookup, Attached
    <3> QED BY <1>0, <1>b, <3>1, HoldingTyped
  <2> QED BY <1>0, <1>4, <2>1, <2>2 DEF Lookup, TypeOK, WorkerRow
<1>5. CASE Claim(w)
  <2>1. faults' \in 0..MaxFaults
    BY <1>0, <1>5, FaultTyped DEF Claim
  <2>2. operation' \in [Jobs -> OperationRow]
    <3>0. k \in Jobs /\ w \in Workers \cup Calls \cup {None}
      BY <1>a, <1>5 DEF Claim
    <3>1. Leased(operation[k], w) \in OperationRow
      <4>1. operation[k] \in OperationRow
        BY <1>0, <3>0
      <4> QED BY <3>0, <4>1 DEF Leased, OperationRow
    <3> QED BY <1>0, <1>5, <3>1 DEF Claim
  <2>3. worker' \in [Workers -> WorkerRow]
    <3>1. Throw(w) \/ Step(w, "decide") \/ Rest(w)
      BY <1>5 DEF Claim
    <3> QED BY <1>b, <3>1
  <2> QED BY <1>0, <1>5, <2>1, <2>2, <2>3 DEF Claim, TypeOK, WorkerRow, OperationRow
<1>6. CASE Decide(w)
  <2>1. faults' \in 0..MaxFaults
    BY <1>0, <1>6, FaultTyped DEF Decide
  <2>2. \E plan \in Plans :
          worker' = [worker EXCEPT ![w].pc = "conclude", ![w].plan = plan]
    <3>1. /\ Finish("failed", "BACKGROUND_SUBMISSION_AMBIGUOUS") \in Plans
          /\ ResetFailures \in Plans /\ CountFailure \in Plans
      <4>1. "failed" \in EndStates /\ "BACKGROUND_SUBMISSION_AMBIGUOUS" \in TerminalCodes
        BY DEF EndStates, TerminalCodes
      <4> QED BY <4>1, PlanFacts
    <3> QED BY <1>6, <3>1, PlansMade DEF Decide
  <2>3. worker' \in [Workers -> WorkerRow]
    BY <1>0, <2>2, PlanTyped
  <2> QED BY <1>0, <1>6, <2>1, <2>3 DEF Decide, TypeOK, WorkerRow
<1>7. CASE Reschedule(w)
  <2>1. faults' \in 0..MaxFaults
    BY <1>0, <1>7, FaultTyped DEF Reschedule
  <2>2. operation' \in [Jobs -> OperationRow]
    <3>0. k \in Jobs
      BY <1>a, <1>7 DEF Reschedule
    <3> DEFINE counted == worker[w].plan = CountFailure
    <3>1. Rescheduled(operation[k], counted) \in OperationRow
      <4>1. operation[k] \in OperationRow
        BY <1>0, <3>0
      <4>2. (IF ~counted THEN 0 ELSE IF operation[k].failures < FailureCap
                                     THEN operation[k].failures + 1
                                     ELSE operation[k].failures) \in 0..FailureCap
        BY <4>1, ResearchAssumption DEF OperationRow
      <4>3. (IF operation[k].response = None THEN operation[k].state
             ELSE "provider_in_progress") \in OperationStates
        BY <4>1 DEF OperationRow, OperationStates
      <4> QED BY <4>1, <4>2, <4>3 DEF Rescheduled, Released, OperationRow
    <3> QED BY <1>0, <1>7, <3>1 DEF Reschedule
  <2>3. worker' \in [Workers -> WorkerRow]
    <3>1. Throw(w) \/ Step(w, "remark") \/ Rest(w)
      BY <1>7 DEF Reschedule
    <3> QED BY <1>b, <3>1
  <2> QED BY <1>0, <1>7, <2>1, <2>2, <2>3 DEF Reschedule, TypeOK, WorkerRow, OperationRow
<1>8. CASE Conclude(w)
  <2>1. faults' \in 0..MaxFaults
    BY <1>0, <1>8, FaultTyped DEF Conclude
  <2>2. /\ operation' \in [Jobs -> OperationRow]
        /\ job' \in [Jobs -> JobRow] /\ inbox' \in [Calls -> EventRow]
    <3>1. Finalize(k, worker[w].event, worker[w].plan.status, worker[w].plan.code)
          \/ UNCHANGED <<job, operation, inbox>>
      BY <1>8 DEF Conclude
    <3>2. worker[w].plan \in Plans /\ k \in Jobs /\ worker[w].plan.do = "finish"
      BY <1>0, <1>a, <1>8 DEF Conclude, WorkerRow
    <3>3. worker[w].plan.status \in EndStates /\ worker[w].plan.code \in TerminalCodes
      BY <3>2, PlanFacts
    <3> QED BY <1>0, <3>1, <3>2, <3>3, FinalizeTyped
  <2>3. worker' \in [Workers -> WorkerRow]
    <3>1. Throw(w) \/ Rest(w) \/ worker' = [worker EXCEPT ![w].plan = CountFailure]
      BY <1>8 DEF Conclude, Refinish
    <3> QED BY <1>0, <1>b, <3>1, PlanTyped, PlanFacts
  <2> QED BY <1>0, <1>8, <2>1, <2>2, <2>3
          DEF Conclude, TypeOK, WorkerRow, OperationRow, JobRow, EventRow
<1>9. CASE RetryEvent(w)
  <2>1. faults' \in 0..MaxFaults
    BY <1>0, <1>9, FaultTyped DEF RetryEvent, Replies
  <2>2. inbox' \in [Calls -> EventRow]
    <3>1. ASSUME NEW r \in Calls
          PROVE  RetriedEvent(inbox[r]) \in EventRow
      BY <1>0 DEF RetriedEvent, GuardedEvent, EventRow, EventStates
    <3> QED BY <1>0, <1>9, <3>1 DEF RetryEvent
  <2>3. worker' \in [Workers -> WorkerRow]
    <3>1. Throw(w) \/ Rest(w)
      BY <1>9 DEF RetryEvent
    <3> QED BY <1>b, <3>1
  <2> QED BY <1>0, <1>9, <2>1, <2>2, <2>3 DEF RetryEvent, TypeOK, WorkerRow, EventRow
<1>10. CASE WorkerCrash(w)
  <2>1. faults' \in 0..MaxFaults /\ worker' \in [Workers -> WorkerRow]
    BY <1>0, <1>b, <1>10, FaultTyped DEF WorkerCrash
  <2> QED BY <1>0, <1>10, <2>1 DEF WorkerCrash, TypeOK, WorkerRow
<1> QED BY <1>1, <1>2, <1>3, <1>4, <1>5, <1>6, <1>7, <1>8, <1>9, <1>10 DEF WorkerStep

LEMMA TypesKept ==
  ASSUME ResearchInv, [Next]_vars
  PROVE  TypeOK'
<1>0. /\ TypeOK /\ call \in [Calls -> CallRow] /\ worker \in [Workers -> WorkerRow]
      /\ operation \in [Jobs -> OperationRow] /\ inbox \in [Calls -> EventRow]
      /\ provider \in [Calls -> ProviderStates]
  BY TypeOKMeaning DEF ResearchInv
<1>1. ASSUME NEW c \in Calls, NEW j \in Jobs, Deliver(c, j)
      PROVE  TypeOK'
  <2>1. [call[c] EXCEPT !.pc = "begin", !.job = j] \in CallRow
    BY <1>0 DEF CallRow
  <2>2. call' \in [Calls -> CallRow] /\ faults' \in 0..MaxFaults
    BY <1>0, <1>1, <2>1, FaultTyped DEF Deliver
  <2> QED BY <1>0, <1>1, <2>2 DEF Deliver, TypeOK, CallRow
<1>2. ASSUME NEW w \in Workers, NEW j \in Jobs, ReadDue(w, j)
      PROVE  TypeOK'
  <2>1. worker' \in [Workers -> WorkerRow]
    BY <1>0, <1>2, HoldingTyped DEF ReadDue
  <2> QED BY <1>0, <1>2, <2>1 DEF ReadDue, TypeOK, WorkerRow
<1>3. ASSUME NEW w \in Workers, NEW r \in Calls, Receive(w, r)
      PROVE  TypeOK'
  <2>1. [worker[w] EXCEPT !.pc = "store", !.event = r] \in WorkerRow
    <3>1. worker[w] \in WorkerRow /\ r \in Calls \cup {None}
      BY <1>0
    <3> QED BY <3>1 DEF WorkerRow
  <2>2. worker' \in [Workers -> WorkerRow]
    BY <1>0, <1>3, <2>1 DEF Receive
  <2> QED BY <1>0, <1>3, <2>2 DEF Receive, TypeOK, WorkerRow
<1>4. ASSUME NEW r \in Calls, ExpireUnmatched(r) \/ AgeEvent(r)
      PROVE  TypeOK'
  <2>1. /\ [inbox[r] EXCEPT !.state = "permanently_rejected"] \in EventRow
        /\ [inbox[r] EXCEPT !.aged = TRUE] \in EventRow
    BY <1>0 DEF EventRow, EventStates
  <2>2. inbox' \in [Calls -> EventRow]
    BY <1>0, <1>4, <2>1 DEF ExpireUnmatched, AgeEvent
  <2> QED BY <1>0, <1>4, <2>2 DEF ExpireUnmatched, AgeEvent, TypeOK, EventRow
<1>5. ASSUME NEW r \in Calls, ProviderEnd(r)
      PROVE  TypeOK'
  <2>1. ProviderEnds \subseteq ProviderStates
    BY ResearchAssumption DEF ProviderStates, EndStates
  <2>2. provider' \in [Calls -> ProviderStates]
    BY <1>0, <1>5, <2>1 DEF ProviderEnd
  <2> QED BY <1>0, <1>5, <2>2 DEF ProviderEnd, TypeOK, ProviderStates
<1>6. ASSUME NEW j \in Jobs, LeaseExpires(j) \/ GrowOld(j)
      PROVE  TypeOK'
  <2>1. /\ [operation[j] EXCEPT !.expired = TRUE] \in OperationRow
        /\ [operation[j] EXCEPT !.old = TRUE] \in OperationRow
    BY <1>0 DEF OperationRow
  <2>2. operation' \in [Jobs -> OperationRow]
    BY <1>0, <1>6, <2>1 DEF LeaseExpires, GrowOld
  <2>3. faults' \in 0..MaxFaults
    BY <1>0, <1>6, FaultTyped DEF LeaseExpires, GrowOld
  <2> QED BY <1>0, <1>6, <2>2, <2>3 DEF LeaseExpires, GrowOld, TypeOK, OperationRow
<1>7. CASE UNCHANGED vars
  BY <1>0, <1>7 DEF vars, TypeOK
<1>8. CASE Next
  BY <1>1, <1>2, <1>3, <1>4, <1>5, <1>6, <1>8, BrowserTyped, CallTyped, WorkerTyped DEF Next
<1> QED BY <1>7, <1>8

-----------------------------------------------------------------------------
(* What a step can do, to one row at a time                                *)

\* A browser does not take back what it sent, and starts its job once.
ClientEffect ==
  \A j \in Jobs : /\ client[j].sent => client'[j].sent
                  /\ client'[j].pc = "prepared" => client'[j].sent = client[j].sent
                                                   /\ client[j].pc = "prepared"

Delivered(c) ==
  /\ call[c].pc = "idle" /\ call'[c].pc = "begin"
  /\ call'[c].job \in Jobs /\ client[call'[c].job].sent /\ ~operation[call'[c].job].old
  /\ call'[c].posted = call[c].posted /\ call'[c].tries = call[c].tries
  /\ provider'[c] = provider[c]
Walked(c) ==
  /\ InFlight(c)
  /\ call'[c].pc \in {"start", "post", "attach", "mark", "rejectFinalize", "gone"}
  /\ call'[c].pc = "start" => call[c].pc = "begin" /\ call'[c].tries = call[c].tries
  /\ call'[c].pc = "post" =>
       /\ call[c].pc = "start" /\ call'[c].tries = call[c].tries
       /\ operation[call[c].job].state = "intent_created"
       /\ operation'[call[c].job].state = "submitting"
  /\ call'[c].pc = "attach" => call[c].pc = "attach" /\ call'[c].tries < AttachAttempts
  /\ call'[c].pc = "rejectFinalize" => call[c].pc = "reject"
  /\ call'[c].job = call[c].job /\ call'[c].posted = call[c].posted
  /\ provider'[c] = provider[c]
Posted(c) ==
  /\ call[c].pc = "post" /\ call'[c].pc \in {"attach", "reject", "mark"}
  /\ call'[c].job = call[c].job /\ call'[c].posted /\ call'[c].tries = call[c].tries
  /\ provider'[c] \in {provider[c], "none", "running"}
  /\ call'[c].pc = "attach" => provider'[c] = "running"
  /\ call'[c].pc = "reject" => provider'[c] = provider[c]

\* At most one call moves, or the provider ends what it had accepted.
CallEffect ==
  \/ /\ call' = call
     /\ \A c \in Calls : \/ provider'[c] = provider[c]
                         \/ provider[c] = "running" /\ provider'[c] \in EndStates
  \/ \E c \in Calls : /\ Delivered(c) \/ Walked(c) \/ Posted(c)
                      /\ \A d \in Calls \ {c} : call'[d] = call[d] /\ provider'[d] = provider[d]

\* How the row of an operation may change short of its end.
Carried(j) ==
  \/ operation'[j] = operation[j]
  \/ /\ operation[j].state = "none" /\ client[j].sent
     /\ operation'[j].state # "none" /\ operation'[j].code = operation[j].code
     /\ operation'[j].response = operation[j].response /\ operation'[j].old = operation[j].old
  \/ /\ ~Terminal(operation[j]) /\ operation'[j].code = operation[j].code
     /\ operation'[j].response = operation[j].response /\ operation'[j].old = operation[j].old
     /\ \/ operation'[j].state = operation[j].state
        \/ client[j].sent /\ operation'[j].state \notin {"none", "intent_created"}
  \/ /\ \E c \in Calls : /\ call[c].job = j /\ call[c].pc = "attach"
                         /\ operation[j].response = None /\ operation'[j].response = c
     /\ operation'[j].code = operation[j].code /\ operation'[j].old = operation[j].old
     /\ operation'[j].state \notin {"none", "intent_created"}
  \/ /\ Exists(j) /\ ~Terminal(operation[j]) /\ operation[j].response = None
     /\ call' = call /\ \A c \in Calls : call[c].job = j => ~InFlight(c)
     /\ operation'[j] = [operation[j] EXCEPT !.old = TRUE]

\* How the row of a job may change while its operation does not end.
JobCarried(j) ==
  /\ job'[j].published = job[j].published
  /\ \/ job'[j].status = job[j].status /\ job'[j].cancelling = job[j].cancelling
     \/ client[j].pc = "prepared"
     \/ job[j].status \in {"queued", "running"} /\ job'[j].status \in {"failed", "cancelled"}

\* How an operation ends, and for what.
LastingCause(j, status, code) ==
  /\ status = "completed" => /\ operation[j].response # None
                             /\ provider[operation[j].response] = "completed"
  /\ code # "PROVIDER_RESULT_DISCARDED_AFTER_CANCELLATION"
  /\ code \in {"PROVIDER_SUBMISSION_REJECTED", "BACKGROUND_SUBMISSION_AMBIGUOUS"}
       => operation[j].response = None
  /\ code = "PROVIDER_SUBMISSION_REJECTED"
       => \A c \in Calls : call[c].job = j => provider[c] = "none"
  /\ operation[j].response = None
       => \A c \in Calls : call[c].job = j => call[c].pc \notin {"post", "attach"}
EndedNow(j) ==
  \E status \in EndStates, code \in TerminalCodes :
    /\ Exists(j) /\ ~Terminal(operation[j]) /\ LastingCause(j, status, code)
    /\ operation'[j] = FinalizedOperation(j, status, code)
    /\ job'[j] = FinalizedJob(j, status)
    /\ provider' = provider

OperationEffect == \A j \in Jobs : EndedNow(j) \/ (Carried(j) /\ JobCarried(j))

\* How the row of an event may change.
EventMoves(r) ==
  \/ inbox'[r] = inbox[r]
  \/ /\ inbox[r].state = "none" /\ provider[r] \in EndStates
     /\ inbox'[r].state # "permanently_rejected" /\ inbox'[r].state # "processed"
     /\ inbox'[r].state = "duplicate" => EndedFor(r)
  \/ /\ inbox[r].state \notin {"none"} \cup ClosedEvents
     /\ inbox'[r].state \in {"received", "unmatched_pending", "transient_failure"}
  \/ /\ inbox[r].state \notin {"none"} \cup ClosedEvents
     /\ inbox'[r].state = "permanently_rejected" /\ inbox'[r].aged
  \/ /\ inbox[r].state \notin {"none"} \cup ClosedEvents
     /\ inbox'[r].state \in {"processed", "duplicate"}
     /\ \E j \in Jobs : operation[j].response = r /\ EndedNow(j)
InboxEffect == \A r \in Calls : EventMoves(r)

Effects == ClientEffect /\ CallEffect /\ OperationEffect /\ InboxEffect

\* Rows nothing touches.
LEMMA RowsStay ==
  /\ UNCHANGED client => ClientEffect
  /\ UNCHANGED <<call, provider>> => CallEffect
  /\ UNCHANGED <<operation, job>> => OperationEffect
  /\ UNCHANGED inbox => InboxEffect
BY DEF ClientEffect, CallEffect, OperationEffect, Carried, JobCarried, InboxEffect, EventMoves

\* The end of one operation, with its job and its event.
LEMMA FinalizeEffect ==
  ASSUME ResearchInv, NEW j \in Jobs, NEW event, NEW status \in EndStates,
         NEW code \in TerminalCodes, Finalize(j, event, status, code), provider' = provider,
         Exists(j), ~Terminal(operation[j]), LastingCause(j, status, code)
  PROVE  OperationEffect /\ InboxEffect
<1>0. /\ operation \in [Jobs -> OperationRow] /\ job \in [Jobs -> JobRow]
      /\ inbox \in [Calls -> EventRow]
  BY TypeOKMeaning DEF ResearchInv
<1>1. EndedNow(j)
  BY <1>0 DEF EndedNow, Finalize
<1>2. ASSUME NEW i \in Jobs, i # j
      PROVE  Carried(i) /\ JobCarried(i)
  <2>1. operation'[i] = operation[i] /\ job'[i] = job[i]
    BY <1>0, <1>2 DEF Finalize
  <2> QED BY <2>1 DEF Carried, JobCarried
<1>3. ASSUME NEW r \in Calls
      PROVE  EventMoves(r)
  <2>1. inbox'[r] = IF r = operation[j].response
                       /\ inbox[r].state \notin {"none", "processed", "duplicate"}
                    THEN GuardedEvent(inbox[r], [inbox[r] EXCEPT
                           !.state = IF r = event THEN "processed" ELSE "duplicate"])
                    ELSE inbox[r]
    BY DEF Finalize, FinalizedInbox
  <2>2. CASE r = operation[j].response /\ inbox[r].state \notin {"none"} \cup ClosedEvents
    <3>1. inbox'[r] = [inbox[r] EXCEPT
                         !.state = IF r = event THEN "processed" ELSE "duplicate"]
      BY <2>1, <2>2 DEF GuardedEvent, ClosedEvents
    <3>2. inbox'[r].state \in {"processed", "duplicate"}
      BY <1>0, <3>1 DEF EventRow
    <3> QED BY <1>1, <2>2, <3>2 DEF EventMoves
  <2>3. CASE ~(r = operation[j].response /\ inbox[r].state \notin {"none"} \cup ClosedEvents)
    <3>1. inbox'[r] = inbox[r]
      BY <2>1, <2>3 DEF GuardedEvent, ClosedEvents
    <3> QED BY <3>1 DEF EventMoves
  <2> QED BY <2>2, <2>3
<1> QED BY <1>1, <1>2, <1>3 DEF OperationEffect, InboxEffect

\* A call that answers its browser is gone.
LEMMA RespondEffect ==
  ASSUME ResearchInv, NEW c \in Calls, NEW answer, InFlight(c), Respond(c, answer),
         provider' = provider
  PROVE  ClientEffect /\ CallEffect
<1>0. call \in [Calls -> CallRow] /\ client \in [Jobs -> ClientRow]
  BY TypeOKMeaning DEF ResearchInv
<1>1. ClientEffect
  <2>1. ASSUME NEW j \in Jobs
        PROVE  client'[j].sent = client[j].sent /\ client'[j].pc = client[j].pc
    BY <1>0 DEF Respond, ClientRow
  <2> QED BY <2>1 DEF ClientEffect
<1>2. Walked(c)
  BY <1>0 DEF Respond, Walked, CallRow
<1>3. \A d \in Calls \ {c} : call'[d] = call[d] /\ provider'[d] = provider[d]
  BY <1>0 DEF Respond
<1> QED BY <1>1, <1>2, <1>3 DEF CallEffect

LEMMA WalkEffect ==
  ASSUME ResearchInv, NEW c \in Calls, NEW pc \in {"start", "post", "mark", "rejectFinalize"},
         Goto(c, pc), InFlight(c), provider' = provider,
         pc = "start" => call[c].pc = "begin",
         pc = "post" => /\ call[c].pc = "start"
                        /\ operation[call[c].job].state = "intent_created"
                        /\ operation'[call[c].job].state = "submitting",
         pc = "rejectFinalize" => call[c].pc = "reject"
  PROVE  ClientEffect /\ CallEffect
<1>0. call \in [Calls -> CallRow]
  BY TypeOKMeaning DEF ResearchInv
<1>1. Walked(c)
  BY <1>0 DEF Goto, Walked, CallRow
<1>2. \A d \in Calls \ {c} : call'[d] = call[d] /\ provider'[d] = provider[d]
  BY <1>0 DEF Goto
<1> QED BY <1>1, <1>2, RowsStay DEF CallEffect, Goto

\* One operation carried on, its job's status and every other row left alone.
LEMMA CarryEffect ==
  ASSUME ResearchInv, NEW j \in Jobs, NEW row, operation' = [operation EXCEPT ![j] = row],
         Carried(j), \A i \in Jobs : JobCarried(i)
  PROVE  OperationEffect
<1>0. operation \in [Jobs -> OperationRow]
  BY TypeOKMeaning DEF ResearchInv
<1>1. ASSUME NEW i \in Jobs, i # j
      PROVE  Carried(i)
  <2>1. operation'[i] = operation[i]
    BY <1>0, <1>1
  <2> QED BY <2>1 DEF Carried
<1> QED BY <1>1 DEF OperationEffect

LEMMA BrowserEffects ==
  ASSUME ResearchInv, NEW j \in Jobs, ClientStep(j) \/ LoseAnswer(j) \/ CancelJob(j)
  PROVE  Effects
<1>0. /\ client \in [Jobs -> ClientRow] /\ job \in [Jobs -> JobRow] /\ ClientOrder(j)
  BY TypeOKMeaning DEF ResearchInv
<1>1. CallEffect /\ InboxEffect
  BY RowsStay DEF ClientStep, SetRunning, ReceiveAnswer, ReadJob, FailJob, LoseAnswer, CancelJob
<1>2. operation' = operation
  BY DEF ClientStep, SetRunning, ReceiveAnswer, ReadJob, FailJob, LoseAnswer, CancelJob
<1>3. CASE SetRunning(j)
  <2>1. ClientEffect
    BY <1>0, <1>3 DEF SetRunning, ClientEffect, ClientOrder, ClientRow
  <2>2. ASSUME NEW i \in Jobs
        PROVE  JobCarried(i)
    BY <1>0, <1>3 DEF SetRunning, JobCarried, JobRow
  <2> QED BY <1>1, <1>2, <2>1, <2>2 DEF Effects, OperationEffect, Carried
<1>4. CASE ReceiveAnswer(j) \/ ReadJob(j) \/ LoseAnswer(j)
  <2>1. job' = job
    BY <1>4 DEF ReceiveAnswer, ReadJob, LoseAnswer
  <2>2. ClientEffect
    <3>1. PICK pc : pc # "prepared" /\ client' = [client EXCEPT ![j].pc = pc]
      <4>1. CASE ReceiveAnswer(j)
        <5>1. client[j].answer \in Answers
          BY <1>0, <4>1 DEF ReceiveAnswer, ClientRow
        <5> QED BY <4>1, <5>1 DEF ReceiveAnswer, Answers
      <4>2. CASE ReadJob(j)
        BY <4>2 DEF ReadJob
      <4>3. CASE LoseAnswer(j)
        BY <4>3 DEF LoseAnswer
      <4> QED BY <1>4, <4>1, <4>2, <4>3
    <3> QED BY <1>0, <3>1 DEF ClientEffect, ClientRow
  <2> QED BY <1>1, <1>2, <2>1, <2>2, RowsStay DEF Effects
<1>5. CASE FailJob(j)
  <2>1. ClientEffect
    BY <1>0, <1>5 DEF FailJob, ClientEffect, ClientRow
  <2>2. ASSUME NEW i \in Jobs
        PROVE  JobCarried(i)
    BY <1>0, <1>5 DEF FailJob, JobCarried, JobRow
  <2> QED BY <1>1, <1>2, <2>1, <2>2 DEF Effects, OperationEffect, Carried
<1>6. CASE CancelJob(j)
  <2>1. ClientEffect
    BY <1>6, RowsStay DEF CancelJob
  <2>2. ASSUME NEW i \in Jobs
        PROVE  JobCarried(i)
    BY <1>0, <1>6 DEF CancelJob, JobCarried, JobRow
  <2> QED BY <1>1, <1>2, <2>1, <2>2 DEF Effects, OperationEffect, Carried
<1> QED BY <1>3, <1>4, <1>5, <1>6 DEF ClientStep

LEMMA CallEffects ==
  ASSUME ResearchInv, NEW c \in Calls, CallStep(c) \/ CallCrash(c)
  PROVE  Effects
<1>0. /\ call \in [Calls -> CallRow] /\ operation \in [Jobs -> OperationRow]
      /\ job \in [Jobs -> JobRow] /\ inbox \in [Calls -> EventRow]
      /\ CallOrder(c) /\ \A j \in Jobs : OperationOrder(j) /\ OneSubmitter(j) /\ SubmissionKnown(j)
      /\ \A d \in Calls : CallOrder(d)
  BY TypeOKMeaning DEF ResearchInv
<1> DEFINE k == call[c].job
<1>a. InFlight(c) => k \in Jobs /\ client[k].sent
  BY <1>0 DEF CallOrder, InFlight
<1>b. job' = job => \A i \in Jobs : JobCarried(i)
  BY DEF JobCarried
<1>1. CASE Begin(c)
  <2>1. k \in Jobs /\ client[k].sent /\ InFlight(c) /\ provider' = provider /\ inbox' = inbox
    BY <1>1, <1>a DEF Begin, InFlight
  <2>2. PICK how \in Replies, limited \in BOOLEAN :
             /\ Charge(how)
             /\ IF ~Exists(k) /\ GateOpen(k) /\ ~limited /\ how # "failed"
                THEN /\ operation' = [operation EXCEPT ![k].state = "intent_created"]
                     /\ job' = [job EXCEPT ![k].invoked = TRUE]
                ELSE UNCHANGED <<operation, job>>
             /\ IF how # "ok" \/ operation'[k].state = "none" THEN Respond(c, "definitive")
                ELSE IF operation'[k].state = "intent_created" THEN Goto(c, "start")
                ELSE Respond(c, "accepted")
    BY <1>1 DEF Begin
  <2>3. OperationEffect
    <3>1. CASE UNCHANGED <<operation, job>>
      BY <3>1, RowsStay
    <3>2. CASE /\ ~Exists(k) /\ operation' = [operation EXCEPT ![k].state = "intent_created"]
               /\ job' = [job EXCEPT ![k].invoked = TRUE]
      <4>1. \A i \in Jobs : JobCarried(i)
        BY <1>0, <3>2 DEF JobCarried, JobRow
      <4>2. Carried(k)
        BY <1>0, <2>1, <3>2 DEF Carried, OperationRow, Exists
      <4> QED BY <3>2, <4>1, <4>2, <2>1, CarryEffect
    <3> QED BY <2>2, <3>1, <3>2
  <2>4. ClientEffect /\ CallEffect
    <3>1. CASE Goto(c, "start")
      <4>1. call[c].pc = "begin"
        BY <1>1 DEF Begin
      <4> QED BY <2>1, <3>1, <4>1, WalkEffect
    <3>2. CASE \E answer : Respond(c, answer)
      BY <2>1, <3>2, RespondEffect
    <3> QED BY <2>2, <3>1, <3>2
  <2> QED BY <2>1, <2>3, <2>4, RowsStay DEF Effects
<1>2. CASE Start(c)
  <2>1. /\ k \in Jobs /\ client[k].sent /\ InFlight(c) /\ provider' = provider
        /\ inbox' = inbox /\ job' = job /\ call[c].pc = "start"
    BY <1>2, <1>a DEF Start, InFlight
  <2>2. CASE operation' = operation
    <3>1. Goto(c, "mark") \/ Respond(c, "accepted")
      <4>1. operation[k] \in OperationRow
        BY <1>0, <2>1
      <4>2. Startable(operation[k]) => operation'[k] # [operation[k] EXCEPT !.state = "submitting"]
        BY <2>2, <4>1 DEF Startable, OperationRow
      <4>3. ~(JobRuns(k) /\ Startable(operation[k]))
            \/ ~(operation' = [operation EXCEPT ![k].state = "submitting"])
        BY <1>0, <2>1, <4>2
      <4> QED BY <1>2, <4>3 DEF Start
    <3>2. ClientEffect /\ CallEffect
      BY <2>1, <3>1, WalkEffect, RespondEffect
    <3> QED BY <2>1, <2>2, <3>2, RowsStay DEF Effects
  <2>3. CASE /\ Startable(operation[k])
             /\ operation' = [operation EXCEPT ![k].state = "submitting"]
    <3>1. operation[k].state = "intent_created" /\ operation'[k].state = "submitting"
      BY <1>0, <2>1, <2>3 DEF Startable, OperationRow
    <3>2. Goto(c, "post") \/ Goto(c, "mark") \/ Respond(c, "accepted")
      BY <1>2 DEF Start
    <3>3. ClientEffect /\ CallEffect
      BY <2>1, <3>1, <3>2, WalkEffect, RespondEffect
    <3>4. Carried(k)
      <4>1. ~Terminal(operation[k])
        BY <1>0, <2>1, <3>1 DEF OperationOrder, EndStates
      <4> QED BY <1>0, <2>1, <2>3, <3>1, <4>1 DEF Carried, OperationRow
    <3>5. OperationEffect
      BY <1>b, <2>1, <2>3, <3>4, CarryEffect
    <3> QED BY <2>1, <3>3, <3>5, RowsStay DEF Effects
  <2> QED BY <1>2, <2>2, <2>3 DEF Start
<1>3. CASE Post(c)
  <2>1. UNCHANGED <<job, operation, inbox, client>>
    BY <1>3 DEF Post
  <2>2. Posted(c)
    BY <1>0, <1>3 DEF Post, Posted, CallRow, TypeOK, ResearchInv
  <2>3. \A d \in Calls \ {c} : call'[d] = call[d] /\ provider'[d] = provider[d]
    BY <1>0, <1>3 DEF Post, TypeOK, ResearchInv
  <2> QED BY <2>1, <2>2, <2>3, RowsStay DEF Effects, CallEffect
<1>4. CASE Attach(c)
  <2>1. /\ k \in Jobs /\ client[k].sent /\ InFlight(c) /\ provider' = provider
        /\ job' = job /\ call[c].pc = "attach"
    BY <1>4, <1>a DEF Attach, InFlight
  <2>2. OperationEffect /\ InboxEffect
    <3>1. CASE UNCHANGED <<operation, inbox>>
      BY <2>1, <3>1, RowsStay
    <3>2. CASE /\ operation[k].response = None
               /\ operation' = [operation EXCEPT ![k].response = c,
                                                 ![k].state = "provider_in_progress"]
               /\ inbox' = IF inbox[c].state = "unmatched_pending"
                           THEN [inbox EXCEPT ![c].state = WokenState(inbox[c])]
                           ELSE inbox
      <4>1. Carried(k)
        BY <1>0, <2>1, <3>2 DEF Carried, OperationRow
      <4>2. OperationEffect
        BY <1>b, <2>1, <3>2, <4>1, CarryEffect
      <4>3. ASSUME NEW r \in Calls
            PROVE  EventMoves(r)
        <5>1. inbox'[r] = inbox[r]
              \/ (inbox[r].state = "unmatched_pending"
                  /\ inbox'[r] = [inbox[r] EXCEPT !.state = WokenState(inbox[r])])
          BY <1>0, <3>2
        <5> QED BY <1>0, <5>1 DEF EventMoves, WokenState, EventRow, ClosedEvents
      <4> QED BY <4>2, <4>3 DEF InboxEffect
    <3> QED BY <1>4, <3>1, <3>2 DEF Attach
  <2>3. ClientEffect /\ CallEffect
    <3>1. CASE Respond(c, "accepted")
      BY <2>1, <3>1, RespondEffect
    <3>2. CASE /\ call' = [call EXCEPT
                            ![c].tries = @ + 1,
                            ![c].pc = IF call[c].tries + 1 = AttachAttempts
                                      THEN "mark" ELSE "attach"]
               /\ UNCHANGED client
      <4>1. call[c].tries < AttachAttempts /\ call[c].tries \in Nat
        BY <1>0, <2>1, ResearchAssumption DEF CallOrder, CallRow
      <4>2. /\ call'[c].tries = call[c].tries + 1
            /\ call'[c].pc = IF call[c].tries + 1 = AttachAttempts THEN "mark" ELSE "attach"
            /\ call'[c].job = call[c].job /\ call'[c].posted = call[c].posted
        BY <1>0, <3>2 DEF CallRow
      <4>3. Walked(c)
        BY <2>1, <4>1, <4>2, ResearchAssumption DEF Walked
      <4>4. \A d \in Calls \ {c} : call'[d] = call[d] /\ provider'[d] = provider[d]
        BY <1>0, <2>1, <3>2
      <4> QED BY <3>2, <4>3, <4>4, RowsStay DEF CallEffect
    <3> QED BY <1>4, <3>1, <3>2 DEF Attach
  <2> QED BY <2>2, <2>3 DEF Effects
<1>5. CASE MarkAmbiguous(c)
  <2>1. /\ k \in Jobs /\ client[k].sent /\ InFlight(c) /\ provider' = provider
        /\ job' = job /\ inbox' = inbox
    BY <1>5, <1>a DEF MarkAmbiguous, InFlight
  <2>2. ClientEffect /\ CallEffect
    BY <1>5, <2>1, RespondEffect DEF MarkAmbiguous
  <2>3. OperationEffect
    <3>1. CASE operation' = operation
      BY <2>1, <3>1, RowsStay
    <3>2. CASE /\ Markable(operation[k])
               /\ operation' = [operation EXCEPT ![k].state = "submission_ambiguous"]
      <4>1. Carried(k)
        BY <1>0, <2>1, <3>2 DEF Carried, Markable, OperationRow
      <4> QED BY <1>b, <2>1, <3>2, <4>1, CarryEffect
    <3> QED BY <1>5, <3>1, <3>2 DEF MarkAmbiguous
  <2> QED BY <2>1, <2>2, <2>3, RowsStay DEF Effects
<1>6. CASE RejectClaim(c)
  <2>1. /\ k \in Jobs /\ client[k].sent /\ InFlight(c) /\ provider' = provider
        /\ job' = job /\ inbox' = inbox /\ call[c].pc = "reject"
    BY <1>6, <1>a DEF RejectClaim, InFlight
  <2>2. ClientEffect /\ CallEffect
    <3>1. Goto(c, "rejectFinalize") \/ Respond(c, "uncertain")
      BY <1>6 DEF RejectClaim
    <3> QED BY <2>1, <3>1, WalkEffect, RespondEffect
  <2>3. OperationEffect
    <3>1. CASE operation' = operation
      BY <2>1, <3>1, RowsStay
    <3>2. CASE /\ Claimable(operation[k], c)
               /\ operation' = [operation EXCEPT ![k] = Leased(@, c)]
      <4>1. Carried(k)
        BY <1>0, <2>1, <3>2 DEF Carried, Claimable, Leased, OperationRow
      <4> QED BY <1>b, <2>1, <3>2, <4>1, CarryEffect
    <3> QED BY <1>6, <3>1, <3>2 DEF RejectClaim
  <2> QED BY <2>1, <2>2, <2>3, RowsStay DEF Effects
<1>7. CASE RejectFinalize(c)
  <2>1. /\ k \in Jobs /\ InFlight(c) /\ provider' = provider
        /\ call[c].pc = "rejectFinalize" /\ call[c].posted /\ provider[c] = "none"
    BY <1>0, <1>7, <1>a DEF RejectFinalize, InFlight, CallOrder
  <2>2. ClientEffect /\ CallEffect
    BY <1>7, <2>1, RespondEffect DEF RejectFinalize
  <2>3. OperationEffect /\ InboxEffect
    <3>1. CASE UNCHANGED <<job, operation, inbox>>
      BY <3>1, RowsStay
    <3>2. CASE /\ HoldsLease(k, c)
               /\ Finalize(k, None, "failed", "PROVIDER_SUBMISSION_REJECTED")
      <4>1. \A d \in Calls : call[d].job = k /\ Submitting(d) => d = c
        BY <1>0, <2>1 DEF OneSubmitter, Submitting
      <4>2. operation[k].response = None
        <5>1. SUFFICES ASSUME operation[k].response # None
                       PROVE  FALSE
          OBVIOUS
        <5> DEFINE d == operation[k].response
        <5>2. d \in Calls /\ call[d].job = k /\ call[d].posted /\ provider[d] # "none"
          BY <1>0, <2>1, <5>1 DEF OperationOrder, OperationRow
        <5> QED BY <2>1, <4>1, <5>2 DEF Submitting
      <4>3. \A d \in Calls : call[d].job = k =>
              provider[d] = "none" /\ call[d].pc \notin {"post", "attach"}
        BY <1>0, <2>1, <4>1 DEF CallOrder, Submitting
      <4>4. LastingCause(k, "failed", "PROVIDER_SUBMISSION_REJECTED") /\ Exists(k)
        BY <1>0, <2>1, <4>2, <4>3 DEF LastingCause, SubmissionKnown, Submitting, Exists
      <4>5. "failed" \in EndStates /\ "PROVIDER_SUBMISSION_REJECTED" \in TerminalCodes
        BY DEF EndStates, TerminalCodes
      <4> QED BY <2>1, <3>2, <4>4, <4>5, FinalizeEffect DEF HoldsLease
    <3> QED BY <1>7, <3>1, <3>2 DEF RejectFinalize
  <2> QED BY <2>2, <2>3 DEF Effects
<1>8. CASE CallCrash(c)
  <2>1. ClientEffect /\ CallEffect
    BY <1>8, RespondEffect DEF CallCrash
  <2> QED BY <1>8, <2>1, RowsStay DEF Effects, CallCrash
<1> QED BY <1>1, <1>2, <1>3, <1>4, <1>5, <1>6, <1>7, <1>8 DEF CallStep

LEMMA WorkerEffects ==
  ASSUME ResearchInv, NEW w \in Workers, WorkerStep(w) \/ WorkerCrash(w)
  PROVE  Effects
<1>0. /\ worker \in [Workers -> WorkerRow] /\ operation \in [Jobs -> OperationRow]
      /\ job \in [Jobs -> JobRow] /\ inbox \in [Calls -> EventRow]
      /\ WorkerOrder(w) /\ \A j \in Jobs : OperationOrder(j) /\ SubmissionKnown(j)
  BY TypeOKMeaning DEF ResearchInv
<1> DEFINE k == worker[w].job
<1>a. UNCHANGED <<call, client, provider>>
  BY DEF WorkerStep, WorkerCrash, ReadInbox, StoreRead, StoreInsert, Lookup, Claim, Decide,
         Reschedule, Conclude, RetryEvent
<1>b. ClientEffect /\ CallEffect
  BY <1>a, RowsStay
<1>c. job' = job => \A i \in Jobs : JobCarried(i)
  BY DEF JobCarried
<1>1. CASE ReadInbox(w) \/ StoreRead(w) \/ Lookup(w) \/ Decide(w) \/ WorkerCrash(w)
  <2>1. UNCHANGED <<job, operation, inbox>>
    BY <1>1 DEF ReadInbox, StoreRead, Lookup, Decide, WorkerCrash
  <2> QED BY <1>b, <2>1, RowsStay DEF Effects
<1>2. CASE StoreInsert(w)
  <2>1. UNCHANGED <<job, operation>> /\ worker[w].pc = "insert"
    BY <1>2 DEF StoreInsert
  <2>2. ASSUME NEW r \in Calls
        PROVE  EventMoves(r)
    <3>1. CASE inbox'[r] = inbox[r]
      BY <3>1 DEF EventMoves
    <3>2. CASE /\ r = worker[w].event /\ inbox[r].state = "none"
               /\ inbox'[r] = [inbox[r] EXCEPT !.state = worker[w].classified]
      <4>1. provider[r] \in EndStates
        BY <1>0, <3>2, ResearchAssumption DEF WorkerOrder
      <4>2. inbox'[r].state = worker[w].classified
        BY <1>0, <3>2 DEF EventRow
      <4>3. worker[w].classified \in {"none", "duplicate", "received", "unmatched_pending"}
        BY <1>0 DEF WorkerRow
      <4>4. worker[w].classified = "duplicate" => EndedFor(r)
        BY <1>0, <2>1, <3>2 DEF WorkerOrder
      <4> QED BY <3>2, <4>1, <4>2, <4>3, <4>4 DEF EventMoves
    <3> QED BY <1>0, <1>2, <3>1, <3>2 DEF StoreInsert
  <2> QED BY <1>b, <2>1, <2>2, RowsStay DEF Effects, InboxEffect
<1>3. CASE Claim(w)
  <2>1. job' = job /\ inbox' = inbox /\ k \in Jobs
    BY <1>0, <1>3 DEF Claim, WorkerOrder
  <2>2. OperationEffect
    <3>1. CASE operation' = operation
      BY <2>1, <3>1, RowsStay
    <3>2. CASE /\ Claimable(operation[k], w)
               /\ operation' = [operation EXCEPT ![k] = Leased(@, w)]
      <4>1. Carried(k)
        BY <1>0, <2>1, <3>2 DEF Carried, Claimable, Leased, OperationRow
      <4> QED BY <1>c, <2>1, <3>2, <4>1, CarryEffect
    <3> QED BY <1>3, <3>1, <3>2 DEF Claim
  <2> QED BY <1>b, <2>1, <2>2, RowsStay DEF Effects
<1>4. CASE Reschedule(w)
  <2>1. job' = job /\ inbox' = inbox /\ k \in Jobs
    BY <1>0, <1>4 DEF Reschedule, WorkerOrder
  <2>2. OperationEffect
    <3>1. CASE operation' = operation
      BY <2>1, <3>1, RowsStay
    <3>2. CASE /\ HoldsLease(k, w)
               /\ operation' = [operation EXCEPT ![k] =
                                  Rescheduled(@, worker[w].plan = CountFailure)]
      <4>1. operation[k] \in OperationRow
        BY <1>0, <2>1
      <4>2. /\ operation'[k].code = operation[k].code /\ operation'[k].old = operation[k].old
            /\ operation'[k].response = operation[k].response
            /\ operation'[k].state = IF operation[k].response = None THEN operation[k].state
                                     ELSE "provider_in_progress"
        BY <1>0, <2>1, <3>2, <4>1 DEF Rescheduled, Released, OperationRow
      <4>3. operation[k].response # None => client[k].sent
        <5>1. SUFFICES ASSUME operation[k].response # None
                       PROVE  client[k].sent
          OBVIOUS
        <5> DEFINE r == operation[k].response
        <5>2. r \in Calls /\ call[r].job = k /\ call[r].posted
          BY <1>0, <2>1, <4>1, <5>1 DEF OperationOrder, OperationRow
        <5>3. operation[k].state # "none"
          BY <1>0, <2>1, <5>2 DEF SubmissionKnown, Submitting
        <5> QED BY <1>0, <2>1, <5>3 DEF OperationOrder, Exists
      <4>4. Carried(k)
        BY <3>2, <4>2, <4>3 DEF Carried, HoldsLease
      <4> QED BY <1>c, <2>1, <3>2, <4>4, CarryEffect
    <3> QED BY <1>4, <3>1, <3>2 DEF Reschedule
  <2> QED BY <1>b, <2>1, <2>2, RowsStay DEF Effects
<1>5. CASE Conclude(w)
  <2>1. k \in Jobs /\ worker[w].plan.do = "finish" /\ worker[w].plan \in Plans
    BY <1>0, <1>5 DEF Conclude, WorkerOrder, WorkerRow
  <2> DEFINE status == worker[w].plan.status
             code == worker[w].plan.code
  <2>2. status \in EndStates /\ code \in TerminalCodes
    BY <2>1, PlanFacts
  <2>3. OperationEffect /\ InboxEffect
    <3>1. CASE UNCHANGED <<job, operation, inbox>>
      BY <3>1, RowsStay
    <3>2. CASE HoldsLease(k, w) /\ Finalize(k, worker[w].event, status, code)
      <4>1. worker[w].response # None => operation[k].response = worker[w].response
        BY <1>0 DEF WorkerOrder
      <4>2. worker[w].response = None =>
              /\ operation[k].response = None
              /\ \A c \in Calls : call[c].job = k => ~InFlight(c)
        BY <1>0, <2>1 DEF WorkerOrder, OperationOrder
      <4>3. LastingCause(k, status, code)
        BY <1>0, <2>1, <4>1, <4>2 DEF LastingCause, WorkerOrder, InFlight
      <4>4. Exists(k)
        <5>1. CASE worker[w].response # None
          <6> DEFINE r == operation[k].response
          <6>1. r \in Calls /\ call[r].job = k /\ call[r].posted
            BY <1>0, <2>1, <4>1, <5>1 DEF OperationOrder, OperationRow
          <6> QED BY <1>0, <2>1, <6>1 DEF SubmissionKnown, Submitting, Exists
        <5>2. CASE worker[w].response = None
          BY <1>0, <2>1, <5>2 DEF WorkerOrder, OperationOrder
        <5> QED BY <5>1, <5>2
      <4> QED BY <1>a, <2>1, <2>2, <3>2, <4>3, <4>4, FinalizeEffect DEF HoldsLease
    <3> QED BY <1>5, <3>1, <3>2 DEF Conclude
  <2> QED BY <1>b, <2>3 DEF Effects
<1>6. CASE RetryEvent(w)
  <2>1. UNCHANGED <<job, operation>>
    BY <1>6 DEF RetryEvent
  <2>2. ASSUME NEW r \in Calls
        PROVE  EventMoves(r)
    <3>1. inbox'[r] = inbox[r] \/ inbox'[r] = RetriedEvent(inbox[r])
      BY <1>0, <1>6 DEF RetryEvent
    <3>2. CASE inbox'[r] = inbox[r]
      BY <3>2 DEF EventMoves
    <3>3. CASE inbox'[r] # inbox[r]
      <4>1. /\ inbox[r].state \in {"received", "transient_failure"}
            /\ inbox'[r] = [inbox[r] EXCEPT !.state = "transient_failure"]
        BY <3>1, <3>3 DEF RetriedEvent, GuardedEvent, ClosedEvents
      <4>2. inbox'[r].state = "transient_failure"
        BY <1>0, <4>1 DEF EventRow
      <4> QED BY <4>1, <4>2 DEF EventMoves, ClosedEvents
    <3> QED BY <3>2, <3>3
  <2> QED BY <1>b, <2>1, <2>2, RowsStay DEF Effects, InboxEffect
<1> QED BY <1>1, <1>2, <1>3, <1>4, <1>5, <1>6 DEF WorkerStep

LEMMA StepEffects ==
  ASSUME ResearchInv, [Next]_vars
  PROVE  Effects
<1>0. /\ call \in [Calls -> CallRow] /\ operation \in [Jobs -> OperationRow]
      /\ inbox \in [Calls -> EventRow] /\ provider \in [Calls -> ProviderStates]
      /\ \A j \in Jobs : OperationOrder(j)
  BY TypeOKMeaning DEF ResearchInv
<1>a. job' = job => \A i \in Jobs : JobCarried(i)
  BY DEF JobCarried
<1>1. ASSUME NEW c \in Calls, NEW j \in Jobs, Deliver(c, j)
      PROVE  Effects
  <2>1. Delivered(c)
    BY <1>0, <1>1 DEF Deliver, Delivered, CallRow
  <2>2. \A d \in Calls \ {c} : call'[d] = call[d] /\ provider'[d] = provider[d]
    BY <1>0, <1>1 DEF Deliver
  <2> QED BY <1>1, <2>1, <2>2, RowsStay DEF Deliver, Effects, CallEffect
<1>2. ASSUME NEW w \in Workers, NEW j \in Jobs, ReadDue(w, j)
      PROVE  Effects
  BY <1>2, RowsStay DEF ReadDue, Effects
<1>3. ASSUME NEW w \in Workers, NEW r \in Calls, Receive(w, r)
      PROVE  Effects
  BY <1>3, RowsStay DEF Receive, Effects
<1>4. ASSUME NEW r \in Calls, ExpireUnmatched(r) \/ AgeEvent(r)
      PROVE  Effects
  <2>1. UNCHANGED <<job, operation, provider, client, call>>
    BY <1>4 DEF ExpireUnmatched, AgeEvent
  <2>2. ASSUME NEW e \in Calls
        PROVE  EventMoves(e)
    <3>1. CASE e # r
      BY <1>0, <1>4, <3>1 DEF ExpireUnmatched, AgeEvent, EventMoves
    <3>2. CASE e = r
      BY <1>0, <1>4, <3>2 DEF ExpireUnmatched, AgeEvent, EventMoves, EventRow, ClosedEvents
    <3> QED BY <3>1, <3>2
  <2> QED BY <2>1, <2>2, RowsStay DEF Effects, InboxEffect
<1>5. ASSUME NEW r \in Calls, ProviderEnd(r)
      PROVE  Effects
  <2>1. ProviderEnds \subseteq EndStates
    BY ResearchAssumption DEF EndStates
  <2>2. CallEffect
    BY <1>0, <1>5, <2>1 DEF ProviderEnd, CallEffect
  <2> QED BY <1>5, <2>2, RowsStay DEF ProviderEnd, Effects
<1>6. ASSUME NEW j \in Jobs, LeaseExpires(j)
      PROVE  Effects
  <2>1. UNCHANGED <<job, inbox, provider, client, call>>
    BY <1>6 DEF LeaseExpires
  <2>2. ~Terminal(operation[j])
    BY <1>0, <1>6 DEF LeaseExpires, OperationOrder
  <2>3. Carried(j)
    BY <1>0, <1>6, <2>2 DEF LeaseExpires, Carried, OperationRow
  <2>4. OperationEffect
    BY <1>6, <1>a, <2>1, <2>3, CarryEffect DEF LeaseExpires
  <2> QED BY <2>1, <2>4, RowsStay DEF Effects
<1>7. ASSUME NEW j \in Jobs, GrowOld(j)
      PROVE  Effects
  <2>1. UNCHANGED <<job, inbox, provider, client, call>>
    BY <1>7 DEF GrowOld
  <2>2. Carried(j)
    BY <1>0, <1>7 DEF GrowOld, Carried
  <2>3. OperationEffect
    BY <1>7, <1>a, <2>1, <2>2, CarryEffect DEF GrowOld
  <2> QED BY <2>1, <2>3, RowsStay DEF Effects
<1>8. CASE UNCHANGED vars
  BY <1>8, RowsStay DEF vars, Effects
<1>9. CASE Next
  BY <1>1, <1>2, <1>3, <1>4, <1>5, <1>6, <1>7, <1>9, BrowserEffects, CallEffects, WorkerEffects
  DEF Next
<1> QED BY <1>8, <1>9

-----------------------------------------------------------------------------
(* What lasts                                                              *)

\* Facts a step never takes back.
Lasting ==
  /\ \A j \in Jobs : client[j].sent => client'[j].sent
  /\ \A c \in Calls : /\ provider[c] # "none" => provider'[c] # "none"
                      /\ provider[c] \in EndStates => provider'[c] = provider[c]
                      /\ call[c].posted => call'[c].posted /\ call'[c].job = call[c].job
  /\ \A j \in Jobs : /\ Terminal(operation[j]) => operation'[j] = operation[j]
                     /\ operation[j].response # None
                          => operation'[j].response = operation[j].response
                     /\ operation[j].old => operation'[j].old
                     /\ operation[j].state \notin {"none", "intent_created"}
                          => operation'[j].state \notin {"none", "intent_created"}
                     /\ Exists(j) => operation'[j].state # "none"
  /\ \A r \in Calls : EndedFor(r) => EndedFor(r)'

LEMMA StepsLast ==
  ASSUME ResearchInv, Effects
  PROVE  Lasting
<1>0. /\ \A c \in Calls : CallOrder(c)
      /\ \A j \in Jobs : OperationOrder(j)
      /\ operation \in [Jobs -> OperationRow]
  BY TypeOKMeaning DEF ResearchInv
<1>1. \A j \in Jobs : client[j].sent => client'[j].sent
  BY DEF Effects, ClientEffect
<1>2. ASSUME NEW c \in Calls
      PROVE  /\ provider[c] # "none" => provider'[c] # "none"
             /\ provider[c] \in EndStates => provider'[c] = provider[c]
             /\ call[c].posted => call'[c].posted /\ call'[c].job = call[c].job
  <2>1. \/ call'[c] = call[c] /\ provider'[c] = provider[c]
        \/ call'[c] = call[c] /\ provider[c] = "running" /\ provider'[c] \in EndStates
        \/ Delivered(c) \/ Walked(c) \/ Posted(c)
    BY DEF Effects, CallEffect
  <2>2. CASE call'[c] = call[c] /\ provider'[c] = provider[c]
    BY <2>2
  <2>3. CASE call'[c] = call[c] /\ provider[c] = "running" /\ provider'[c] \in EndStates
    BY <2>3 DEF EndStates
  <2>4. CASE Delivered(c)
    BY <1>0, <2>4 DEF Delivered, CallOrder
  <2>5. CASE Walked(c)
    BY <2>5 DEF Walked
  <2>6. CASE Posted(c)
    BY <1>0, <2>6 DEF Posted, CallOrder, EndStates
  <2> QED BY <2>1, <2>2, <2>3, <2>4, <2>5, <2>6
<1>3. ASSUME NEW j \in Jobs
      PROVE  /\ Terminal(operation[j]) => operation'[j] = operation[j]
             /\ operation[j].response # None
                  => operation'[j].response = operation[j].response
             /\ operation[j].old => operation'[j].old
             /\ operation[j].state \notin {"none", "intent_created"}
                  => operation'[j].state \notin {"none", "intent_created"}
             /\ Exists(j) => operation'[j].state # "none"
  <2>1. EndedNow(j) \/ Carried(j)
    BY DEF Effects, OperationEffect
  <2>2. CASE EndedNow(j)
    <3>1. PICK status \in EndStates, code \in TerminalCodes :
            ~Terminal(operation[j]) /\ operation'[j] = FinalizedOperation(j, status, code)
      BY <2>2 DEF EndedNow
    <3>2. /\ operation'[j].response = operation[j].response
          /\ operation'[j].old = operation[j].old
          /\ operation'[j].state \in EndStates
      BY <1>0, <3>1 DEF FinalizedOperation, Released, OperationRow, EndStates
    <3> QED BY <3>1, <3>2 DEF EndStates
  <2>3. CASE Carried(j)
    <3>1. operation[j] \in OperationRow
      BY <1>0
    <3>2. Terminal(operation[j]) => operation[j].state \in EndStates
      BY <1>0 DEF OperationOrder
    <3>3. Terminal(operation[j]) => operation[j].state # "none"
      BY <3>2 DEF EndStates
    <3>4. operation[j].response = None /\ Terminal(operation[j])
            => \A c \in Calls : call[c].job = j => call[c].pc # "attach"
      BY <1>0 DEF OperationOrder
    <3> QED BY <2>3, <3>1, <3>3, <3>4 DEF Carried, Exists, OperationRow
  <2> QED BY <2>1, <2>2, <2>3
<1>4. ASSUME NEW r \in Calls, EndedFor(r)
      PROVE  EndedFor(r)'
  <2>1. PICK j \in Jobs : operation[j].response = r /\ Terminal(operation[j])
    BY <1>4 DEF EndedFor
  <2>2. operation'[j] = operation[j]
    BY <1>3, <2>1
  <2> QED BY <2>1, <2>2 DEF EndedFor
<1> QED BY <1>1, <1>2, <1>3, <1>4 DEF Lasting

-----------------------------------------------------------------------------
(* The invariant, part by part                                             *)

LEMMA ClientsOrdered ==
  ASSUME ResearchInv, Effects
  PROVE  \A j \in Jobs : ClientOrder(j)'
BY DEF ResearchInv, Effects, ClientEffect, ClientOrder

LEMMA CallsOrdered ==
  ASSUME ResearchInv, Effects
  PROVE  \A c \in Calls : CallOrder(c)'
<1>0. /\ \A c \in Calls : CallOrder(c)
      /\ \A j \in Jobs : client[j].sent => client'[j].sent
  BY StepsLast DEF ResearchInv, Lasting
<1> SUFFICES ASSUME NEW c \in Calls
             PROVE  CallOrder(c)'
  OBVIOUS
<1>1. CallOrder(c)
  BY <1>0
<1>2. \/ call'[c] = call[c] /\ provider'[c] = provider[c]
      \/ call'[c] = call[c] /\ provider[c] = "running" /\ provider'[c] \in EndStates
      \/ Delivered(c) \/ Walked(c) \/ Posted(c)
  BY DEF Effects, CallEffect
<1>3. CASE call'[c] = call[c] /\ provider'[c] = provider[c]
  BY <1>0, <1>1, <1>3 DEF CallOrder
<1>4. CASE call'[c] = call[c] /\ provider[c] = "running" /\ provider'[c] \in EndStates
  BY <1>0, <1>1, <1>4 DEF CallOrder, EndStates
<1>5. CASE Delivered(c)
  BY <1>0, <1>1, <1>5 DEF Delivered, CallOrder
<1>6. CASE Walked(c)
  BY <1>0, <1>1, <1>6 DEF Walked, CallOrder, InFlight
<1>7. CASE Posted(c)
  BY <1>0, <1>1, <1>7, ResearchAssumption DEF Posted, CallOrder
<1> QED BY <1>2, <1>3, <1>4, <1>5, <1>6, <1>7

\* A call that newly submits turned an intent into its submission.
NewlySubmits(c) ==
  /\ operation[call[c].job].state = "intent_created"
  /\ operation'[call[c].job].state = "submitting"
LEMMA Submissions ==
  ASSUME ResearchInv, Effects, NEW c \in Calls, Submitting(c)'
  PROVE  /\ call'[c].job = call[c].job /\ call[c].job \in Jobs
         /\ Submitting(c) \/ (NewlySubmits(c) /\ \A d \in Calls \ {c} : call'[d] = call[d])
<1>1. CallOrder(c)
  BY DEF ResearchInv
<1>2. CASE call'[c] = call[c]
  BY <1>1, <1>2 DEF Submitting, CallOrder
<1>3. CASE call'[c] # call[c]
  <2>1. /\ Delivered(c) \/ Walked(c) \/ Posted(c)
        /\ \A d \in Calls \ {c} : call'[d] = call[d]
    BY <1>3 DEF Effects, CallEffect
  <2>2. CASE Delivered(c)
    BY <1>1, <2>2 DEF Delivered, CallOrder, Submitting
  <2>3. CASE Walked(c)
    <3>1. call[c].pc # "idle"
      BY <2>3 DEF Walked, InFlight
    <3>2. Submitting(c) \/ NewlySubmits(c)
      BY <2>3 DEF Walked, Submitting, NewlySubmits
    <3> QED BY <1>1, <2>1, <2>3, <3>1, <3>2 DEF Walked, CallOrder
  <2>4. CASE Posted(c)
    BY <1>1, <2>4 DEF Posted, CallOrder, Submitting
  <2> QED BY <2>1, <2>2, <2>3, <2>4
<1> QED BY <1>2, <1>3

LEMMA SubmissionsOrdered ==
  ASSUME ResearchInv, Effects
  PROVE  \A j \in Jobs : OneSubmitter(j)' /\ SubmissionKnown(j)'
<1>0. \A j \in Jobs : OneSubmitter(j) /\ SubmissionKnown(j)
  BY DEF ResearchInv
<1> SUFFICES ASSUME NEW j \in Jobs
             PROVE  OneSubmitter(j)' /\ SubmissionKnown(j)'
  OBVIOUS
<1>1. ASSUME NEW c \in Calls, call'[c].job = j, Submitting(c)'
      PROVE  operation'[j].state \notin {"none", "intent_created"}
  <2>1. call[c].job = j /\ (Submitting(c) \/ NewlySubmits(c))
    BY <1>1, Submissions
  <2>2. CASE NewlySubmits(c)
    BY <2>1, <2>2 DEF NewlySubmits
  <2>3. CASE Submitting(c)
    BY <1>0, <2>1, <2>3, StepsLast DEF SubmissionKnown, Lasting
  <2> QED BY <2>1, <2>2, <2>3
<1>2. ASSUME NEW c \in Calls, NEW d \in Calls, call'[c].job = j, call'[d].job = j,
             Submitting(c)', Submitting(d)', Submitting(c)
      PROVE  c = d
  <2>1. call[c].job = j /\ call[d].job = j
    BY <1>2, Submissions
  <2>2. operation[j].state \notin {"none", "intent_created"}
    BY <1>0, <1>2, <2>1 DEF SubmissionKnown
  <2>3. Submitting(d)
    BY <1>2, <2>1, <2>2, Submissions DEF NewlySubmits
  <2> QED BY <1>0, <1>2, <2>1, <2>3 DEF OneSubmitter
<1>3. ASSUME NEW c \in Calls, NEW d \in Calls, call'[c].job = j, call'[d].job = j,
             Submitting(c)', Submitting(d)', ~Submitting(c), ~Submitting(d), c # d
      PROVE  FALSE
  <2>1. call'[d] = call[d]
    BY <1>3, Submissions
  <2> QED BY <1>3, <2>1 DEF Submitting
<1>4. OneSubmitter(j)'
  BY <1>2, <1>3 DEF OneSubmitter
<1>5. SubmissionKnown(j)'
  BY <1>1 DEF SubmissionKnown
<1> QED BY <1>4, <1>5

LEMMA OperationsOrdered ==
  ASSUME ResearchInv, TypeOK', Effects
  PROVE  \A j \in Jobs : OperationOrder(j)'
<1> SUFFICES ASSUME NEW j \in Jobs
             PROVE  OperationOrder(j)'
  OBVIOUS
<1>0. /\ \A c \in Calls : CallOrder(c)
      /\ OperationOrder(j) /\ OneSubmitter(j) /\ SubmissionKnown(j)
      /\ operation[j] \in OperationRow /\ operation'[j] \in OperationRow
      /\ job[j] \in JobRow
      /\ Lasting
  BY TypeOKMeaning, StepsLast DEF ResearchInv, TypeOK, OperationRow
<1>a. EndedNow(j) \/ (Carried(j) /\ JobCarried(j))
  BY DEF Effects, OperationEffect
<1>b. ASSUME EndedNow(j)
      PROVE  \E status \in EndStates, code \in TerminalCodes :
               /\ LastingCause(j, status, code)
               /\ operation'[j].state \in EndStates /\ operation'[j].lease = None
               /\ operation'[j].response = operation[j].response
               /\ operation'[j].old = operation[j].old
               /\ operation'[j].code # "none"
  <2>1. PICK status \in EndStates, code \in TerminalCodes :
          LastingCause(j, status, code) /\ operation'[j] = FinalizedOperation(j, status, code)
    BY <1>b DEF EndedNow
  <2>2. /\ operation'[j].state \in EndStates /\ operation'[j].lease = None
        /\ operation'[j].response = operation[j].response
        /\ operation'[j].old = operation[j].old
        /\ operation'[j].code # "none"
    BY <1>0, <2>1 DEF FinalizedOperation, Released, OperationRow, EndStates, TerminalCodes
  <2> QED BY <2>1, <2>2
<1>1. operation'[j].state # "none" => client'[j].sent
  <2>1. operation'[j].state # "none" => client[j].sent
    <3>1. CASE Exists(j)
      BY <1>0, <3>1 DEF OperationOrder
    <3>2. CASE ~Exists(j) /\ Carried(j)
      <4>1. ASSUME NEW c \in Calls, call[c].job = j, call[c].pc = "attach"
            PROVE  FALSE
        BY <1>0, <3>2, <4>1 DEF CallOrder, SubmissionKnown, Submitting, Exists
      <4> QED BY <3>2, <4>1 DEF Carried, Exists, OperationRow
    <3>3. CASE ~Exists(j) /\ EndedNow(j)
      BY <3>3 DEF EndedNow
    <3> QED BY <1>a, <3>1, <3>2, <3>3
  <2> QED BY <1>0, <2>1 DEF Lasting
<1>2. operation'[j].response # None =>
        /\ call'[operation'[j].response].job = j /\ call'[operation'[j].response].posted
        /\ provider'[operation'[j].response] # "none"
  <2>1. SUFFICES ASSUME operation'[j].response # None
                 PROVE  \E c \in Calls : /\ operation'[j].response = c /\ call[c].job = j
                                         /\ call[c].posted /\ provider[c] # "none"
    BY <1>0 DEF Lasting
  <2>2. CASE operation[j].response # None
    BY <1>0, <2>2 DEF Lasting, OperationOrder, OperationRow
  <2>3. CASE operation[j].response = None
    <3>1. PICK c \in Calls : /\ call[c].job = j /\ call[c].pc = "attach"
                             /\ operation'[j].response = c
      <4>1. ~EndedNow(j)
        BY <1>b, <2>1, <2>3
      <4> QED BY <1>0, <1>a, <2>1, <2>3, <4>1 DEF Carried, OperationRow
    <3> QED BY <1>0, <3>1 DEF CallOrder
  <2> QED BY <2>2, <2>3
<1>3. operation'[j].old => /\ operation'[j].state # "none" /\ operation'[j].response = None
                           /\ \A c \in Calls : call'[c].job = j => call'[c].pc \in {"idle", "gone"}
  <2>1. CASE operation[j].old
    <3>1. operation'[j].state # "none"
      BY <1>0, <2>1 DEF OperationOrder, Lasting
    <3>2. ASSUME NEW c \in Calls, call[c].job = j
          PROVE  call[c].pc \in {"idle", "gone"}
      BY <1>0, <2>1, <3>2 DEF OperationOrder, InFlight
    <3>3. operation'[j].response = None
      <4>1. CASE EndedNow(j)
        BY <1>0, <1>b, <2>1, <4>1 DEF OperationOrder
      <4>2. CASE Carried(j)
        BY <1>0, <2>1, <3>2, <4>2 DEF OperationOrder, Carried, OperationRow
      <4> QED BY <1>a, <4>1, <4>2
    <3>4. ASSUME NEW c \in Calls, call'[c].job = j
          PROVE  call'[c].pc \in {"idle", "gone"}
      <4>1. call'[c] = call[c] \/ Delivered(c) \/ Walked(c) \/ Posted(c)
        BY DEF Effects, CallEffect
      <4>2. CASE call'[c] = call[c]
        BY <3>2, <3>4, <4>2
      <4>3. ~Delivered(c)
        BY <2>1, <3>4 DEF Delivered
      <4>4. ~Walked(c) /\ ~Posted(c)
        BY <3>2, <3>4 DEF Walked, Posted, InFlight
      <4> QED BY <4>1, <4>2, <4>3, <4>4
    <3> QED BY <3>1, <3>3, <3>4
  <2>2. CASE ~operation[j].old /\ operation'[j].old
    <3>1. /\ Exists(j) /\ operation[j].response = None /\ call' = call
          /\ \A c \in Calls : call[c].job = j => ~InFlight(c)
          /\ operation'[j] = [operation[j] EXCEPT !.old = TRUE]
      <4>1. ~EndedNow(j)
        BY <1>b, <2>2
      <4> QED BY <1>0, <1>a, <2>2, <4>1 DEF Carried, OperationRow
    <3> QED BY <1>0, <3>1 DEF InFlight, Exists, OperationRow
  <2> QED BY <2>1, <2>2
<1>4. operation'[j].code # "none" => operation'[j].lease = None /\ operation'[j].state \in EndStates
  <2>1. CASE EndedNow(j)
    BY <1>b, <2>1
  <2>2. CASE Terminal(operation[j])
    BY <1>0, <2>2 DEF OperationOrder, Lasting
  <2>3. CASE ~Terminal(operation[j]) /\ Carried(j)
    BY <1>0, <2>3 DEF Carried, Terminal, OperationRow
  <2> QED BY <1>a, <2>1, <2>2, <2>3
<1>5. ASSUME operation'[j].code # "none", operation'[j].response = None,
             NEW c \in Calls, call'[c].job = j, call'[c].pc \in {"post", "attach"}
      PROVE  FALSE
  <2>1. Submitting(c)'
    <3>1. call'[c].pc = "attach" => call'[c].posted
      BY CallsOrdered DEF CallOrder
    <3> QED BY <1>5, <3>1 DEF Submitting
  <2>2. call[c].job = j /\ (Submitting(c) \/ NewlySubmits(c))
    BY <1>5, <2>1, Submissions
  <2>3. operation'[j].state \in EndStates
    BY <1>4, <1>5
  <2>4. call[c].pc \in {"post", "attach"}
    <3>1. \/ call'[c] = call[c] \/ Delivered(c) \/ Walked(c) \/ Posted(c)
      BY DEF Effects, CallEffect
    <3>2. Walked(c) /\ call'[c].pc = "post" => operation'[j].state = "submitting"
      BY <2>2 DEF Walked
    <3>3. ~(Walked(c) /\ call'[c].pc = "post")
      BY <2>3, <3>2 DEF EndStates
    <3> QED BY <1>5, <3>1, <3>3 DEF Delivered, Walked, Posted
  <2>5. operation[j].response = None
    BY <1>0, <1>5 DEF Lasting
  <2>6. CASE EndedNow(j)
    <3>1. PICK status \in EndStates, code \in TerminalCodes : LastingCause(j, status, code)
      BY <1>b, <2>6
    <3> QED BY <2>2, <2>4, <2>5, <3>1 DEF LastingCause
  <2>7. CASE Terminal(operation[j])
    BY <1>0, <2>2, <2>4, <2>5, <2>7 DEF OperationOrder
  <2>8. CASE ~Terminal(operation[j]) /\ Carried(j)
    BY <1>0, <1>5, <2>8 DEF Carried, Terminal, OperationRow
  <2> QED BY <1>a, <2>6, <2>7, <2>8
<1>6. operation'[j].code = "none" => job'[j].published = 0
  <2>1. CASE EndedNow(j)
    BY <1>b, <2>1
  <2>2. CASE Terminal(operation[j])
    BY <1>0, <2>2 DEF Lasting, Terminal
  <2>3. CASE ~Terminal(operation[j]) /\ JobCarried(j)
    BY <1>0, <2>3 DEF OperationOrder, JobCarried
  <2> QED BY <1>a, <2>1, <2>2, <2>3
<1> QED BY <1>1, <1>2, <1>3, <1>4, <1>5, <1>6 DEF OperationOrder, Exists, Terminal, InFlight

LEMMA OutcomesKept ==
  ASSUME ResearchInv, TypeOK', Effects
  PROVE  \A j \in Jobs : Outcome(j)'
<1> SUFFICES ASSUME NEW j \in Jobs, operation'[j].code # "none"
             PROVE  /\ (job'[j].published = 1) <=> (operation'[j].state = "completed")
                    /\ IF operation'[j].code = "PROVIDER_RESULT_DISCARDED_AFTER_CANCELLATION"
                       THEN ~(job'[j].status = "running" /\ ~job'[j].cancelling)
                       ELSE job'[j].status = JobOutcome(operation'[j].state)
                    /\ operation'[j].code \in {"PROVIDER_SUBMISSION_REJECTED",
                                               "BACKGROUND_SUBMISSION_AMBIGUOUS"}
                         => operation'[j].response = None
                    /\ operation'[j].code = "PROVIDER_SUBMISSION_REJECTED"
                         => \A c \in Calls : call'[c].job = j => provider'[c] = "none"
  BY Zenon DEF Outcome, Terminal, JobRuns
<1>0. /\ \A c \in Calls : CallOrder(c)
      /\ OperationOrder(j) /\ Outcome(j) /\ ClientOrder(j)
      /\ operation[j] \in OperationRow /\ job[j] \in JobRow
      /\ Lasting
  BY TypeOKMeaning, StepsLast DEF ResearchInv
<1>a. EndedNow(j) \/ (Carried(j) /\ JobCarried(j))
  BY DEF Effects, OperationEffect
\* No call of an operation that ended without a response reaches the provider.
<1>b. ASSUME NEW c \in Calls, call'[c].job = j,
             \A d \in Calls : call[d].job = j => provider[d] = "none" /\ call[d].pc # "post"
      PROVE  provider'[c] = "none"
  <2>1. \/ call'[c] = call[c] /\ provider'[c] = provider[c]
        \/ call'[c] = call[c] /\ provider[c] = "running" /\ provider'[c] \in EndStates
        \/ Delivered(c) \/ Walked(c) \/ Posted(c)
    BY DEF Effects, CallEffect
  <2>2. CASE Delivered(c)
    BY <1>0, <2>2 DEF Delivered, CallOrder
  <2>3. CASE ~Delivered(c)
    <3>1. call[c].job = j
      BY <1>b, <2>1, <2>3 DEF Walked, Posted
    <3> QED BY <1>b, <2>1, <2>3, <3>1 DEF Walked, Posted
  <2> QED BY <2>2, <2>3
<1>1. CASE Terminal(operation[j])
  <2>1. operation'[j] = operation[j]
    BY <1>0, <1>1 DEF Lasting
  <2>2. JobCarried(j)
    BY <1>a, <1>1 DEF EndedNow
  <2>3. client[j].pc # "prepared"
    BY <1>0, <1>1 DEF OperationOrder, ClientOrder, Exists, EndStates
  <2>4. job'[j].published = job[j].published
        /\ \/ job'[j].status = job[j].status /\ job'[j].cancelling = job[j].cancelling
           \/ job[j].status \in {"queued", "running"} /\ job'[j].status \in {"failed", "cancelled"}
    BY <2>2, <2>3 DEF JobCarried
  <2>5. JobOutcome(operation[j].state) \in {"completed", "cancelled", "failed"}
    BY DEF JobOutcome
  <2>6. IF operation[j].code = "PROVIDER_RESULT_DISCARDED_AFTER_CANCELLATION"
        THEN ~(job'[j].status = "running" /\ ~job'[j].cancelling)
        ELSE job'[j].status = JobOutcome(operation[j].state)
    BY <1>0, <1>1, <2>4, <2>5 DEF Outcome, JobRuns
  <2>7. operation[j].code = "PROVIDER_SUBMISSION_REJECTED"
          => \A c \in Calls : call'[c].job = j => provider'[c] = "none"
    <3>1. SUFFICES ASSUME operation[j].code = "PROVIDER_SUBMISSION_REJECTED"
                   PROVE  \A d \in Calls : call[d].job = j
                            => provider[d] = "none" /\ call[d].pc # "post"
      BY <1>b
    <3>2. operation[j].response = None
      BY <1>0, <1>1, <3>1 DEF Outcome
    <3> QED BY <1>0, <1>1, <3>1, <3>2 DEF Outcome, OperationOrder
  <2> QED BY <1>0, <1>1, <2>1, <2>4, <2>6, <2>7 DEF Outcome
<1>2. CASE ~Terminal(operation[j])
  <2>1. EndedNow(j)
    <3>1. SUFFICES ASSUME Carried(j) PROVE FALSE
      BY <1>a
    <3> QED BY <1>0, <1>2, <3>1 DEF Carried, Terminal, OperationRow
  <2>2. PICK status \in EndStates, code \in TerminalCodes :
          /\ LastingCause(j, status, code)
          /\ operation'[j] = FinalizedOperation(j, status, code)
          /\ job'[j] = FinalizedJob(j, status) /\ provider' = provider
    BY <2>1 DEF EndedNow
  <2>3. job[j].published = 0
    BY <1>0, <1>2 DEF OperationOrder
  <2>4. operation'[j].response = operation[j].response
    BY <1>0, <2>2 DEF FinalizedOperation, Released, OperationRow
  <2>5. CASE AcceptsResult(j)
    <3>1. /\ operation'[j].state = status /\ operation'[j].code = code
          /\ job'[j].status = JobOutcome(status)
          /\ job'[j].published = IF status = "completed" THEN 1 ELSE 0
      BY <1>0, <2>2, <2>3, <2>5 DEF FinalizedOperation, FinalizedJob, Released, OperationRow, JobRow
    <3>2. code = "PROVIDER_SUBMISSION_REJECTED"
            => \A c \in Calls : call'[c].job = j => provider'[c] = "none"
      <4>1. SUFFICES ASSUME code = "PROVIDER_SUBMISSION_REJECTED"
                     PROVE  \A d \in Calls : call[d].job = j
                              => provider[d] = "none" /\ call[d].pc # "post"
        BY <1>b
      <4> QED BY <2>2, <4>1 DEF LastingCause
    <3> QED BY <2>2, <2>4, <3>1, <3>2 DEF LastingCause
  <2>6. CASE ~AcceptsResult(j)
    <3>1. /\ operation'[j].state = "cancelled"
          /\ operation'[j].code = "PROVIDER_RESULT_DISCARDED_AFTER_CANCELLATION"
          /\ job'[j] = job[j]
      BY <1>0, <2>2, <2>6 DEF FinalizedOperation, FinalizedJob, Released, OperationRow
    <3> QED BY <2>3, <2>6, <3>1 DEF AcceptsResult, JobRuns
  <2> QED BY <2>5, <2>6
<1> QED BY <1>1, <1>2

LEMMA EventsOrdered ==
  ASSUME ResearchInv, TypeOK', Effects
  PROVE  \A r \in Calls : EventOrder(r)'
<1> SUFFICES ASSUME NEW r \in Calls
             PROVE  EventOrder(r)'
  OBVIOUS
<1>0. EventOrder(r) /\ Lasting /\ EventMoves(r) /\ inbox[r] \in EventRow
  BY TypeOKMeaning, StepsLast DEF ResearchInv, Effects, InboxEffect
<1>1. ASSUME NEW j \in Jobs, operation[j].response = r, EndedNow(j)
      PROVE  EndedFor(r)'
  <2>1. PICK status \in EndStates, code \in TerminalCodes :
          operation'[j] = FinalizedOperation(j, status, code)
    BY <1>1 DEF EndedNow
  <2>2. operation[j] \in OperationRow
    BY TypeOKMeaning DEF ResearchInv
  <2>3. operation'[j].response = r /\ operation'[j].code # "none"
    BY <1>1, <2>1, <2>2 DEF FinalizedOperation, Released, OperationRow, TerminalCodes
  <2> QED BY <2>3 DEF EndedFor, Terminal
<1>2. inbox'[r].state # "none" => provider'[r] \in EndStates
  BY <1>0 DEF EventOrder, EventMoves, Lasting
<1>3. inbox'[r].state \in {"processed", "duplicate"} => EndedFor(r)'
  BY <1>0, <1>1 DEF EventOrder, EventMoves, Lasting
<1>4. inbox'[r].state = "permanently_rejected" => inbox'[r].aged
  BY <1>0 DEF EventOrder, EventMoves
<1> QED BY <1>2, <1>3, <1>4 DEF EventOrder

-----------------------------------------------------------------------------
(* Workers                                                                 *)

\* What a worker that stays where it is remembers stays true.
LEMMA MemoryLasts ==
  ASSUME ResearchInv, Lasting, NEW w \in Workers, worker'[w] = worker[w]
  PROVE  WorkerOrder(w)'
<1>0. /\ WorkerOrder(w) /\ worker[w] \in WorkerRow
  BY TypeOKMeaning DEF ResearchInv
<1>1. worker[w].response # None =>
        worker[w].job \in Jobs /\ operation'[worker[w].job].response = worker[w].response
  BY <1>0 DEF WorkerOrder, Lasting
<1>2. worker[w].event # None => provider'[worker[w].event] \in EndStates
  BY <1>0 DEF WorkerOrder, WorkerRow, Lasting
<1>3. worker[w].pc = "insert" /\ worker[w].classified = "duplicate"
        => EndedFor(worker[w].event)'
  <2>1. SUFFICES ASSUME EndedFor(worker[w].event)
                 PROVE  EndedFor(worker[w].event)'
    BY <1>0 DEF WorkerOrder
  <2>2. PICK j \in Jobs : operation[j].response = worker[w].event /\ Terminal(operation[j])
    BY <2>1 DEF EndedFor
  <2>3. operation'[j] = operation[j]
    BY <2>2 DEF Lasting
  <2> QED BY <2>2, <2>3 DEF EndedFor
<1>4. worker[w].plan.do = "finish" =>
        /\ worker[w].plan.status = "completed" =>
             worker[w].response # None /\ provider'[worker[w].response] = "completed"
        /\ worker[w].response = None => operation'[worker[w].job].old
  BY <1>0 DEF WorkerOrder, WorkerRow, Lasting, EndStates
<1> QED BY <1>0, <1>1, <1>2, <1>3, <1>4 DEF WorkerOrder

LEMMA IdleOrdered ==
  ASSUME NEW w \in Workers, worker'[w] = IdleWorker
  PROVE  WorkerOrder(w)'
<1>1. IdleWorker.plan.do # "finish"
  BY PlanFacts DEF IdleWorker
<1> QED BY <1>1 DEF WorkerOrder, IdleWorker

\* A worker that only moves on, with a plan that ends nothing.
LEMMA MovedOrdered ==
  ASSUME ResearchInv, Lasting, NEW w \in Workers, NEW pc, NEW plan,
         worker'[w] = [worker[w] EXCEPT !.pc = pc, !.plan = plan],
         pc # "insert", plan.do # "finish",
         pc \in {"inbox", "claim", "decide", "conclude", "remark"} => worker[w].job \in Jobs
  PROVE  WorkerOrder(w)'
<1>0. WorkerOrder(w) /\ worker[w] \in WorkerRow
  BY TypeOKMeaning DEF ResearchInv
<1>1. /\ worker'[w].pc = pc /\ worker'[w].plan = plan
      /\ worker'[w].job = worker[w].job /\ worker'[w].response = worker[w].response
      /\ worker'[w].event = worker[w].event
  BY <1>0 DEF WorkerRow
<1>2. worker[w].response # None =>
        worker[w].job \in Jobs /\ operation'[worker[w].job].response = worker[w].response
  BY <1>0 DEF WorkerOrder, Lasting
<1>3. worker[w].event # None => provider'[worker[w].event] \in EndStates
  BY <1>0 DEF WorkerOrder, WorkerRow, Lasting
<1> QED BY <1>0, <1>1, <1>2, <1>3 DEF WorkerOrder

LEMMA ThrowOrdered ==
  ASSUME ResearchInv, Lasting, NEW w \in Workers, Throw(w) \/ Rest(w)
  PROVE  \A v \in Workers : WorkerOrder(v)'
<1>0. worker \in [Workers -> WorkerRow]
  BY TypeOKMeaning DEF ResearchInv
<1>1. ASSUME NEW v \in Workers, v # w
      PROVE  WorkerOrder(v)'
  <2>1. worker'[v] = worker[v]
    BY <1>0, <1>1 DEF Throw, Rest
  <2> QED BY <2>1, MemoryLasts
<1>2. WorkerOrder(w)'
  <2>1. CASE Rest(w) \/ w \notin Hooks
    <3>1. worker'[w] = IdleWorker
      BY <1>0, <2>1 DEF Throw, Rest
    <3> QED BY <3>1, IdleOrdered
  <2>2. CASE Throw(w) /\ w \in Hooks
    <3>1. worker'[w] = [worker[w] EXCEPT !.pc = "retryEvent", !.plan = NoPlan]
      BY <1>0, <2>2 DEF Throw
    <3>2. NoPlan.do # "finish"
      BY PlanFacts
    <3> QED BY <3>1, <3>2, MovedOrdered
  <2> QED BY <2>1, <2>2
<1> QED BY <1>1, <1>2

LEMMA SteppedOrdered ==
  ASSUME ResearchInv, Lasting, NEW w \in Workers, NEW pc, Step(w, pc), pc # "insert",
         worker[w].pc # "conclude" \/ worker[w].plan.do # "finish",
         pc \in {"inbox", "claim", "decide", "conclude", "remark"} => worker[w].job \in Jobs
  PROVE  \A v \in Workers : WorkerOrder(v)'
<1>0. worker \in [Workers -> WorkerRow] /\ WorkerOrder(w)
  BY TypeOKMeaning DEF ResearchInv
<1>1. ASSUME NEW v \in Workers, v # w
      PROVE  WorkerOrder(v)'
  <2>1. worker'[v] = worker[v]
    BY <1>0, <1>1 DEF Step
  <2> QED BY <2>1, MemoryLasts
<1>2. WorkerOrder(w)'
  <2>1. worker[w].plan.do # "finish"
    BY <1>0 DEF WorkerOrder
  <2>2. worker'[w] = [worker[w] EXCEPT !.pc = pc, !.plan = worker[w].plan]
    BY <1>0 DEF Step, WorkerRow
  <2> QED BY <2>1, <2>2, MovedOrdered
<1> QED BY <1>1, <1>2

\* A worker takes up an operation with its response as it is.
LEMMA HoldingOrdered ==
  ASSUME ResearchInv, Lasting, NEW w \in Workers, NEW pc \in {"inbox", "claim"},
         NEW j \in Jobs, Holding(w, pc, j), worker[w].pc \in {"idle", "lookup"}
  PROVE  \A v \in Workers : WorkerOrder(v)'
<1>0. worker \in [Workers -> WorkerRow] /\ WorkerOrder(w)
  BY TypeOKMeaning DEF ResearchInv
<1>1. ASSUME NEW v \in Workers, v # w
      PROVE  WorkerOrder(v)'
  <2>1. worker'[v] = worker[v]
    BY <1>0, <1>1 DEF Holding
  <2> QED BY <2>1, MemoryLasts
<1>2. WorkerOrder(w)'
  <2>1. /\ worker'[w].pc = pc /\ worker'[w].job = j
        /\ worker'[w].response = operation[j].response
        /\ worker'[w].event = worker[w].event /\ worker'[w].plan = worker[w].plan
    BY <1>0 DEF Holding, Snapshot, WorkerRow
  <2>2. worker[w].plan.do # "finish"
    BY <1>0 DEF WorkerOrder
  <2>3. operation[j].response # None => operation'[j].response = operation[j].response
    BY DEF Lasting
  <2>4. worker[w].event # None => provider'[worker[w].event] \in EndStates
    BY <1>0 DEF WorkerOrder, WorkerRow, Lasting
  <2> QED BY <2>1, <2>2, <2>3, <2>4 DEF WorkerOrder
<1> QED BY <1>1, <1>2

\* The plan a worker forms has a cause that lasts.
LEMMA PlanCauses ==
  ASSUME ResearchInv, NEW w \in Workers, NEW plan, plan.do = "finish",
         \/ /\ worker[w].response = None
            /\ plan = IF operation[worker[w].job].old
                      THEN Finish("failed", "BACKGROUND_SUBMISSION_AMBIGUOUS")
                      ELSE ResetFailures
         \/ /\ worker[w].response # None /\ worker[w].event # None
            /\ provider[worker[w].event] # "completed"
            /\ plan = Finish(provider[worker[w].event], CodeOf(provider[worker[w].event]))
         \/ worker[w].response # None /\ plan \in RetrievalPlans(w)
         \/ worker[w].response # None /\ plan = CountFailure
  PROVE  /\ plan.status = "completed" =>
              worker[w].response # None /\ provider[worker[w].response] = "completed"
         /\ plan.code \notin {"PROVIDER_RESULT_DISCARDED_AFTER_CANCELLATION",
                              "PROVIDER_SUBMISSION_REJECTED"}
         /\ plan.code = "BACKGROUND_SUBMISSION_AMBIGUOUS" => worker[w].response = None
         /\ worker[w].response = None => operation[worker[w].job].old
<1>0. /\ WorkerOrder(w) /\ worker[w] \in WorkerRow /\ provider \in [Calls -> ProviderStates]
      /\ \A j \in Jobs : OperationOrder(j)
  BY TypeOKMeaning DEF ResearchInv
<1>a. \A s, c : Finish(s, c).status = s /\ Finish(s, c).code = c
  BY PlanFacts
<1>b. ResetFailures.do # "finish" /\ CountFailure.do # "finish"
  BY PlanFacts
<1>c. ASSUME NEW s \in EndStates, s # "completed"
      PROVE  CodeOf(s) \in {"PROVIDER_FAILED", "PROVIDER_INCOMPLETE", "PROVIDER_CANCELLED"}
  BY <1>c DEF EndStates, CodeOf
<1>1. CASE worker[w].response = None
  BY <1>1, <1>a, <1>b
<1>2. CASE /\ worker[w].response # None /\ worker[w].event # None
           /\ provider[worker[w].event] # "completed"
           /\ plan = Finish(provider[worker[w].event], CodeOf(provider[worker[w].event]))
  <2>1. provider[worker[w].event] \in EndStates
    BY <1>0, <1>2 DEF WorkerOrder
  <2> QED BY <1>2, <1>a, <1>c, <2>1
<1>3. CASE worker[w].response # None /\ plan \in RetrievalPlans(w)
  <2> DEFINE s == provider[worker[w].response]
  <2>1. s = "running" \/ s \in EndStates
    BY <1>0, <1>3 DEF WorkerRow, WorkerOrder, OperationOrder, ProviderStates
  <2>2. \/ plan = CountFailure
        \/ plan = Finish("failed", "BACKGROUND_RESPONSE_RETENTION_EXHAUSTED")
        \/ plan = Finish("failed", "PROVIDER_RETRIEVAL_REJECTED")
        \/ s = "running" /\ plan = ResetFailures
        \/ s = "completed" /\ plan = Finish("completed", "PROVIDER_COMPLETED")
        \/ s = "completed" /\ plan = Finish("failed", "PROVIDER_INVALID_RESPONSE")
        \/ s # "running" /\ s # "completed" /\ plan = Finish(s, CodeOf(s))
    <3> HIDE DEF s
    <3>1. plan \in {IF RetrievalExhausted(worker[w].failures)
                    THEN Finish("failed", "BACKGROUND_RESPONSE_RETENTION_EXHAUSTED")
                    ELSE CountFailure,
                    Finish("failed", "PROVIDER_RETRIEVAL_REJECTED")}
                   \cup (CASE s = "running" -> {ResetFailures}
                           [] s = "completed" -> {Finish("completed", "PROVIDER_COMPLETED"),
                                                  Finish("failed", "PROVIDER_INVALID_RESPONSE")}
                           [] OTHER -> {Finish(s, CodeOf(s))})
      BY <1>3 DEF RetrievalPlans, s
    <3>2. CASE s = "running"
      BY <3>1, <3>2
    <3>3. CASE s = "completed"
      BY <3>1, <3>3
    <3>4. CASE s # "running" /\ s # "completed"
      BY <3>1, <3>4
    <3> QED BY <3>2, <3>3, <3>4
  <2> HIDE DEF s
  <2>3. s = "completed" => provider[worker[w].response] = "completed"
    BY DEF s
  <2> QED BY <1>3, <1>a, <1>b, <1>c, <2>1, <2>2, <2>3
<1>4. CASE worker[w].response # None /\ plan = CountFailure
  BY <1>4, <1>b
<1> QED BY <1>1, <1>2, <1>3, <1>4

LEMMA DecidedOrdered ==
  ASSUME ResearchInv, Lasting, NEW w \in Workers, Decide(w)
  PROVE  \A v \in Workers : WorkerOrder(v)'
<1>0. worker \in [Workers -> WorkerRow] /\ WorkerOrder(w)
  BY TypeOKMeaning DEF ResearchInv
<1>1. PICK plan :
        /\ worker' = [worker EXCEPT ![w].pc = "conclude", ![w].plan = plan]
        /\ \/ /\ worker[w].response = None
              /\ plan = IF operation[worker[w].job].old
                        THEN Finish("failed", "BACKGROUND_SUBMISSION_AMBIGUOUS")
                        ELSE ResetFailures
           \/ /\ worker[w].response # None /\ worker[w].event # None
              /\ provider[worker[w].event] # "completed"
              /\ plan = Finish(provider[worker[w].event], CodeOf(provider[worker[w].event]))
           \/ worker[w].response # None /\ plan \in RetrievalPlans(w)
           \/ worker[w].response # None /\ plan = CountFailure
  BY DEF Decide
<1>2. ASSUME NEW v \in Workers, v # w
      PROVE  WorkerOrder(v)'
  <2>1. worker'[v] = worker[v]
    BY <1>0, <1>1, <1>2
  <2> QED BY <2>1, MemoryLasts
<1>3. worker[w].job \in Jobs
  BY <1>0 DEF Decide, WorkerOrder
<1>4. worker'[w] = [worker[w] EXCEPT !.pc = "conclude", !.plan = plan]
  BY <1>0, <1>1
<1>5. CASE plan.do # "finish"
  <2>1. WorkerOrder(w)'
    BY <1>3, <1>4, <1>5, MovedOrdered
  <2> QED BY <1>2, <2>1
<1>6. CASE plan.do = "finish"
  <2>1. /\ plan.status = "completed" =>
              worker[w].response # None /\ provider[worker[w].response] = "completed"
        /\ plan.code \notin {"PROVIDER_RESULT_DISCARDED_AFTER_CANCELLATION",
                             "PROVIDER_SUBMISSION_REJECTED"}
        /\ plan.code = "BACKGROUND_SUBMISSION_AMBIGUOUS" => worker[w].response = None
        /\ worker[w].response = None => operation[worker[w].job].old
    BY <1>1, <1>6, PlanCauses
  <2>2. worker[w].response # None =>
          /\ operation'[worker[w].job].response = worker[w].response
          /\ worker[w].response \in Calls
    BY <1>0 DEF WorkerOrder, WorkerRow, Lasting
  <2>3. worker[w].event # None => provider'[worker[w].event] \in EndStates
    BY <1>0 DEF WorkerOrder, WorkerRow, Lasting
  <2>4. plan.status = "completed" => provider'[worker[w].response] = "completed"
    BY <2>1, <2>2 DEF Lasting, EndStates
  <2>5. worker[w].response = None => operation'[worker[w].job].old
    BY <1>3, <2>1 DEF Lasting
  <2>6. /\ worker'[w].pc = "conclude" /\ worker'[w].plan = plan
        /\ worker'[w].job = worker[w].job /\ worker'[w].response = worker[w].response
        /\ worker'[w].event = worker[w].event
    BY <1>0, <1>4 DEF WorkerRow
  <2>7. WorkerOrder(w)'
    BY <1>3, <2>1, <2>2, <2>3, <2>4, <2>5, <2>6 DEF WorkerOrder
  <2> QED BY <1>2, <2>7
<1> QED BY <1>5, <1>6

LEMMA WorkersOrdered ==
  ASSUME ResearchInv, [Next]_vars, Effects
  PROVE  \A v \in Workers : WorkerOrder(v)'
<1>0. /\ worker \in [Workers -> WorkerRow] /\ Lasting /\ inbox \in [Calls -> EventRow]
      /\ \A w \in Workers : WorkerOrder(w)
      /\ \A r \in Calls : EventOrder(r)
  BY StepsLast, TypeOKMeaning DEF ResearchInv
<1>1. CASE worker' = worker
  BY <1>0, <1>1, MemoryLasts
<1>2. ASSUME NEW w \in Workers, NEW j \in Jobs, ReadDue(w, j)
      PROVE  \A v \in Workers : WorkerOrder(v)'
  BY <1>0, <1>2, HoldingOrdered DEF ReadDue
<1>3. ASSUME NEW w \in Workers, NEW r \in Calls, Receive(w, r)
      PROVE  \A v \in Workers : WorkerOrder(v)'
  <2>1. ASSUME NEW v \in Workers, v # w
        PROVE  WorkerOrder(v)'
    <3>1. worker'[v] = worker[v]
      BY <1>0, <1>3, <2>1 DEF Receive
    <3> QED BY <1>0, <3>1, MemoryLasts
  <2>2. /\ worker'[w].pc = "store" /\ worker'[w].event = r
        /\ worker'[w].plan = worker[w].plan /\ worker'[w].job = worker[w].job
        /\ worker'[w].response = worker[w].response
    BY <1>0, <1>3 DEF Receive, WorkerRow
  <2>3. worker[w].plan.do # "finish" /\ WorkerOrder(w)
    BY <1>0, <1>3 DEF Receive, WorkerOrder
  <2>4. provider'[r] \in EndStates
    BY <1>3 DEF Receive
  <2>5. worker[w].response # None =>
          worker[w].job \in Jobs /\ operation'[worker[w].job].response = worker[w].response
    BY <1>0, <2>3 DEF WorkerOrder, Lasting
  <2>6. WorkerOrder(w)'
    BY <2>2, <2>3, <2>4, <2>5 DEF WorkerOrder
  <2> QED BY <2>1, <2>6
<1>4. ASSUME NEW w \in Workers, ReadInbox(w)
      PROVE  \A v \in Workers : WorkerOrder(v)'
  <2>1. ASSUME NEW v \in Workers, v # w
        PROVE  WorkerOrder(v)'
    <3>1. worker'[v] = worker[v]
      BY <1>0, <1>4, <2>1 DEF ReadInbox
    <3> QED BY <1>0, <3>1, MemoryLasts
  <2>2. PICK e : /\ worker' = [worker EXCEPT ![w].pc = "claim", ![w].event = e]
                 /\ e # None => /\ e = worker[w].response
                                /\ inbox[e].state \in {"received", "unmatched_pending",
                                                       "transient_failure"}
    BY <1>4 DEF ReadInbox
  <2>3. worker[w].plan.do # "finish" /\ WorkerOrder(w) /\ worker[w].job \in Jobs
    BY <1>0, <1>4 DEF ReadInbox, WorkerOrder
  <2>4. e # None => provider'[e] \in EndStates
    <3>1. e # None => e \in Calls
      BY <1>0, <2>2 DEF WorkerRow
    <3> QED BY <1>0, <2>2, <3>1 DEF EventOrder, Lasting
  <2>5. worker[w].response # None => operation'[worker[w].job].response = worker[w].response
    BY <1>0, <2>3 DEF WorkerOrder, Lasting
  <2>6. /\ worker'[w].pc = "claim" /\ worker'[w].event = e
        /\ worker'[w].plan = worker[w].plan /\ worker'[w].job = worker[w].job
        /\ worker'[w].response = worker[w].response
    BY <1>0, <2>2 DEF WorkerRow
  <2>7. WorkerOrder(w)'
    BY <2>3, <2>4, <2>5, <2>6 DEF WorkerOrder
  <2> QED BY <2>1, <2>7
<1>5. ASSUME NEW w \in Workers, StoreRead(w)
      PROVE  \A v \in Workers : WorkerOrder(v)'
  <2>1. ASSUME NEW v \in Workers, v # w
        PROVE  WorkerOrder(v)'
    <3>1. worker'[v] = worker[v]
      BY <1>0, <1>5, <2>1 DEF StoreRead
    <3> QED BY <1>0, <3>1, MemoryLasts
  <2>2. /\ worker'[w].pc = "insert" /\ worker'[w].classified = EventClass(worker[w].event)
        /\ worker'[w].event = worker[w].event
        /\ worker'[w].plan = worker[w].plan /\ worker'[w].job = worker[w].job
        /\ worker'[w].response = worker[w].response
    BY <1>0, <1>5 DEF StoreRead, WorkerRow
  <2>3. worker[w].plan.do # "finish" /\ WorkerOrder(w)
    BY <1>0, <1>5 DEF StoreRead, WorkerOrder
  <2>4. UNCHANGED <<operation, provider>>
    BY <1>5 DEF StoreRead
  <2>5. EventClass(worker[w].event) = "duplicate" => EndedFor(worker[w].event)
    BY DEF EventClass, Attached, EndedFor
  <2>6. WorkerOrder(w)'
    BY <2>2, <2>3, <2>4, <2>5 DEF WorkerOrder, EndedFor
  <2> QED BY <2>1, <2>6
<1>6. ASSUME NEW w \in Workers, StoreInsert(w)
      PROVE  \A v \in Workers : WorkerOrder(v)'
  <2>1. CASE Rest(w)
    BY <1>0, <2>1, ThrowOrdered
  <2>2. CASE worker' = [worker EXCEPT ![w].pc = "lookup", ![w].classified = "none"]
    <3>1. ASSUME NEW v \in Workers, v # w
          PROVE  WorkerOrder(v)'
      <4>1. worker'[v] = worker[v]
        BY <1>0, <2>2, <3>1
      <4> QED BY <1>0, <4>1, MemoryLasts
    <3>2. /\ worker'[w].pc = "lookup" /\ worker'[w].event = worker[w].event
          /\ worker'[w].plan = worker[w].plan /\ worker'[w].job = worker[w].job
          /\ worker'[w].response = worker[w].response
      BY <1>0, <2>2 DEF WorkerRow
    <3>3. worker[w].plan.do # "finish" /\ WorkerOrder(w) /\ UNCHANGED <<operation, provider>>
      BY <1>0, <1>6 DEF StoreInsert, WorkerOrder
    <3>4. WorkerOrder(w)'
      BY <3>2, <3>3 DEF WorkerOrder
    <3> QED BY <3>1, <3>4
  <2> QED BY <1>6, <2>1, <2>2 DEF StoreInsert
<1>7. ASSUME NEW w \in Workers, Lookup(w)
      PROVE  \A v \in Workers : WorkerOrder(v)'
  <2>1. Rest(w) \/ \E j \in Jobs : Holding(w, "claim", j)
    BY <1>7 DEF Lookup, Attached
  <2> QED BY <1>0, <1>7, <2>1, ThrowOrdered, HoldingOrdered DEF Lookup
<1>8. ASSUME NEW w \in Workers, Claim(w)
      PROVE  \A v \in Workers : WorkerOrder(v)'
  <2>1. worker[w].pc = "claim" /\ worker[w].job \in Jobs
    BY <1>0, <1>8 DEF Claim, WorkerOrder
  <2>2. Throw(w) \/ Rest(w) \/ Step(w, "decide")
    BY <1>8 DEF Claim
  <2> QED BY <1>0, <2>1, <2>2, ThrowOrdered, SteppedOrdered
<1>9. ASSUME NEW w \in Workers, Reschedule(w)
      PROVE  \A v \in Workers : WorkerOrder(v)'
  <2>1. worker[w].pc = "conclude" /\ worker[w].job \in Jobs /\ worker[w].plan.do # "finish"
    BY <1>0, <1>9, PlanFacts DEF Reschedule, WorkerOrder
  <2>2. Throw(w) \/ Rest(w) \/ Step(w, "remark")
    BY <1>9 DEF Reschedule
  <2> QED BY <1>0, <2>1, <2>2, ThrowOrdered, SteppedOrdered
<1>10. ASSUME NEW w \in Workers, Conclude(w)
      PROVE  \A v \in Workers : WorkerOrder(v)'
  <2>1. Throw(w) \/ Rest(w) \/ worker' = [worker EXCEPT ![w].plan = CountFailure]
    BY <1>10 DEF Conclude, Refinish
  <2>2. CASE worker' = [worker EXCEPT ![w].plan = CountFailure]
    <3>1. ASSUME NEW v \in Workers, v # w
          PROVE  WorkerOrder(v)'
      <4>1. worker'[v] = worker[v]
        BY <1>0, <2>2, <3>1
      <4> QED BY <1>0, <4>1, MemoryLasts
    <3>2. worker[w].pc = "conclude" /\ worker[w].job \in Jobs
      BY <1>0, <1>10 DEF Conclude, WorkerOrder
    <3>3. worker'[w] = [worker[w] EXCEPT !.pc = worker[w].pc, !.plan = CountFailure]
      BY <1>0, <2>2 DEF WorkerRow
    <3>4. CountFailure.do # "finish"
      BY PlanFacts
    <3>5. WorkerOrder(w)'
      BY <1>0, <3>2, <3>3, <3>4, MovedOrdered
    <3> QED BY <3>1, <3>5
  <2> QED BY <1>0, <2>1, <2>2, ThrowOrdered
<1>11. ASSUME NEW w \in Workers, RetryEvent(w) \/ WorkerCrash(w)
      PROVE  \A v \in Workers : WorkerOrder(v)'
  <2>1. Throw(w) \/ Rest(w)
    BY <1>11 DEF RetryEvent, WorkerCrash
  <2> QED BY <1>0, <2>1, ThrowOrdered
<1>12. ASSUME NEW w \in Workers, Decide(w)
      PROVE  \A v \in Workers : WorkerOrder(v)'
  BY <1>0, <1>12, DecidedOrdered
<1>13. CASE Next
  <2>1. ASSUME NEW w \in Workers, WorkerStep(w) \/ WorkerCrash(w)
        PROVE  \A v \in Workers : WorkerOrder(v)'
    BY <1>4, <1>5, <1>6, <1>7, <1>8, <1>9, <1>10, <1>11, <1>12, <2>1 DEF WorkerStep
  <2>2. CASE \E j \in Jobs : \/ ClientStep(j) \/ LoseAnswer(j) \/ CancelJob(j)
                             \/ LeaseExpires(j) \/ GrowOld(j)
    BY <1>1, <2>2 DEF ClientStep, SetRunning, ReceiveAnswer, ReadJob, FailJob, LoseAnswer,
                      CancelJob, LeaseExpires, GrowOld
  <2>3. CASE \E c \in Calls : \/ CallStep(c) \/ CallCrash(c) \/ (\E j \in Jobs : Deliver(c, j))
    BY <1>1, <2>3 DEF CallStep, CallCrash, Begin, Start, Post, Attach, MarkAmbiguous,
                      RejectClaim, RejectFinalize, Deliver
  <2>4. CASE \E r \in Calls : ExpireUnmatched(r) \/ AgeEvent(r) \/ ProviderEnd(r)
    BY <1>1, <2>4 DEF ExpireUnmatched, AgeEvent, ProviderEnd
  <2> QED BY <1>2, <1>3, <1>13, <2>1, <2>2, <2>3, <2>4 DEF Next
<1>14. CASE UNCHANGED vars
  BY <1>1, <1>14 DEF vars
<1> QED BY <1>13, <1>14

-----------------------------------------------------------------------------
(* The theorems                                                            *)

LEMMA ResearchInit == Init => ResearchInv
<1> SUFFICES ASSUME Init
             PROVE  ResearchInv
  OBVIOUS
<1>1. TypeOK
  <2>1. IdleWorker \in WorkerRow
    BY PlanFacts, ResearchAssumption DEF IdleWorker, WorkerRow
  <2>2. NewJob \in JobRow /\ NoOperation \in OperationRow
    BY ResearchAssumption
    DEF NewJob, JobRow, JobStatus, NoOperation, OperationRow, OperationStates
  <2>3. [state |-> "none", aged |-> FALSE] \in EventRow
    BY DEF EventRow, EventStates
  <2>4. [pc |-> "prepared", sent |-> FALSE, answer |-> "none"] \in ClientRow
    BY DEF ClientRow
  <2>5. [pc |-> "idle", job |-> None, posted |-> FALSE, tries |-> 0, verdict |-> "uncertain"]
          \in CallRow
    BY ResearchAssumption DEF CallRow
  <2>6. "none" \in ProviderStates /\ 0 \in 0..MaxFaults
    BY ResearchAssumption DEF ProviderStates
  <2> QED BY <2>1, <2>2, <2>3, <2>4, <2>5, <2>6, TypeOKMeaning DEF Init
<1>2. \A c \in Calls : CallOrder(c)
  BY DEF Init, CallOrder
<1>3. ASSUME NEW j \in Jobs
      PROVE  /\ ClientOrder(j) /\ OneSubmitter(j) /\ SubmissionKnown(j)
             /\ OperationOrder(j) /\ Outcome(j)
  <2>1. ClientOrder(j) /\ OneSubmitter(j) /\ SubmissionKnown(j)
    BY DEF Init, ClientOrder, OneSubmitter, SubmissionKnown, Submitting
  <2>2. OperationOrder(j) /\ Outcome(j)
    BY DEF Init, OperationOrder, Outcome, NoOperation, NewJob, Exists, Terminal
  <2> QED BY <2>1, <2>2
<1>4. \A r \in Calls : EventOrder(r)
  BY DEF Init, EventOrder
<1>5. \A w \in Workers : WorkerOrder(w)
  BY PlanFacts DEF Init, WorkerOrder, IdleWorker
<1> QED BY <1>1, <1>2, <1>3, <1>4, <1>5 DEF ResearchInv

LEMMA ResearchStep == ResearchInv /\ [Next]_vars => ResearchInv'
<1> SUFFICES ASSUME ResearchInv, [Next]_vars
             PROVE  ResearchInv'
  OBVIOUS
<1>1. TypeOK' /\ Effects
  BY TypesKept, StepEffects
<1>2. /\ \A c \in Calls : CallOrder(c)'
      /\ \A j \in Jobs : /\ ClientOrder(j)' /\ OneSubmitter(j)' /\ SubmissionKnown(j)'
                         /\ OperationOrder(j)' /\ Outcome(j)'
      /\ \A r \in Calls : EventOrder(r)'
      /\ \A w \in Workers : WorkerOrder(w)'
  BY <1>1, CallsOrdered, ClientsOrdered, SubmissionsOrdered, OperationsOrdered, OutcomesKept,
     EventsOrdered, WorkersOrdered
<1> QED BY <1>1, <1>2 DEF ResearchInv

LEMMA ResearchInvariant == Spec => []ResearchInv
BY ResearchInit, ResearchStep, PTL DEF Spec

\* Rows, program counters and counters of the durable research stay within
\* their ranges, the worker's plans and the event states included.
THEOREM ResearchTypes == Spec => []TypeOK
<1>1. ResearchInv => TypeOK
  BY DEF ResearchInv
<1> QED BY <1>1, ResearchInvariant, PTL

\* However often a request is delivered, calls crash or a submission stays
\* ambiguous, a job is posted to the provider at most once.
THEOREM PostedOnce == Spec => []AtMostOnePosting
<1>1. ResearchInv => AtMostOnePosting
  <2> SUFFICES ASSUME ResearchInv, NEW j \in Jobs
               PROVE  Cardinality({c \in Calls : call[c].job = j /\ call[c].posted}) <= 1
    BY DEF AtMostOnePosting
  <2> DEFINE S == {c \in Calls : call[c].job = j /\ call[c].posted}
  <2>1. \A c, d \in S : c = d
    BY DEF ResearchInv, OneSubmitter, Submitting
  <2>2. CASE S = {}
    <3>1. Cardinality(S) = 0
      BY <2>2, FS_EmptySet
    <3> QED BY <3>1
  <2>3. CASE S # {}
    <3>1. PICK c : c \in S
      BY <2>3
    <3>2. S = {c}
      BY <2>1, <3>1
    <3>3. Cardinality(S) = 1
      BY <3>2, FS_Singleton
    <3> QED BY <3>3
  <2> QED BY <2>2, <2>3
<1> QED BY <1>1, ResearchInvariant, PTL

\* An event of the inbox is closed as processed or duplicate only for an
\* operation that has ended, and rejected only after its fifteen minutes,
\* whatever the two steps of its insertion are interleaved with.
THEOREM EventsHaveCause == Spec => []EventsClosedForCause
<1>1. ResearchInv => EventsClosedForCause
  BY DEF ResearchInv, EventOrder, EventsClosedForCause, EndedFor, Attached
<1> QED BY <1>1, ResearchInvariant, PTL

\* Once an operation has ended, the owner's job tells its outcome, or the
\* result was discarded because the job was no longer the operation's; and
\* what its terminal code says of the submission is what happened.
THEOREM OutcomesAgree == Spec => []OutcomeAgrees
<1>1. ResearchInv => OutcomeAgrees
  BY DEF ResearchInv, Outcome, OutcomeAgrees
<1> QED BY <1>1, ResearchInvariant, PTL

\* Candidates appear once, by the end of an operation that had not ended, for
\* a running job nobody cancelled, from a response the provider completed.
THEOREM PublicationsLawful == Spec => PublicationLawful
<1>1. ResearchInv /\ [Next]_vars =>
        [\A j \in Jobs : job'[j].published # job[j].published =>
            /\ job[j].published = 0 /\ JobRuns(j)
            /\ ~Terminal(operation[j])
            /\ operation[j].response # None
            /\ provider[operation[j].response] = "completed"]_vars
  <2> SUFFICES ASSUME ResearchInv, [Next]_vars, NEW j \in Jobs,
                      job'[j].published # job[j].published
               PROVE  /\ job[j].published = 0 /\ JobRuns(j)
                      /\ ~Terminal(operation[j])
                      /\ operation[j].response # None
                      /\ provider[operation[j].response] = "completed"
    OBVIOUS
  <2>0. job[j] \in JobRow /\ OperationOrder(j)
    BY TypeOKMeaning DEF ResearchInv
  <2>1. EndedNow(j)
    BY StepEffects DEF Effects, OperationEffect, JobCarried
  <2>2. PICK status \in EndStates, code \in TerminalCodes :
          /\ ~Terminal(operation[j]) /\ LastingCause(j, status, code)
          /\ job'[j] = FinalizedJob(j, status)
    BY <2>1 DEF EndedNow
  <2>3. JobRuns(j) /\ status = "completed"
    BY <2>0, <2>2 DEF FinalizedJob, AcceptsResult, JobRow
  <2> QED BY <2>0, <2>2, <2>3 DEF LastingCause, OperationOrder
<1> QED BY <1>1, ResearchInvariant, PTL DEF Spec, PublicationLawful

\* Nothing changes an operation that has ended or an event that is closed: no
\* late worker, second call, late mark or repeated webhook.
THEOREM EndingsStay == Spec => EndingsFixed
<1>1. ResearchInv /\ [Next]_vars =>
        [/\ \A j \in Jobs : Terminal(operation[j]) => operation'[j] = operation[j]
         /\ \A r \in Calls : inbox[r].state \in ClosedEvents => inbox'[r] = inbox[r]]_vars
  <2> SUFFICES ASSUME ResearchInv, [Next]_vars
               PROVE  /\ \A j \in Jobs : Terminal(operation[j]) => operation'[j] = operation[j]
                      /\ \A r \in Calls : inbox[r].state \in ClosedEvents => inbox'[r] = inbox[r]
    OBVIOUS
  <2>1. Effects
    BY StepEffects
  <2>2. \A j \in Jobs : Terminal(operation[j]) => operation'[j] = operation[j]
    BY <2>1, StepsLast DEF Lasting
  <2>3. ASSUME NEW r \in Calls, inbox[r].state \in ClosedEvents
        PROVE  inbox'[r] = inbox[r]
    BY <2>1, <2>3 DEF Effects, InboxEffect, EventMoves, ClosedEvents
  <2> QED BY <2>2, <2>3
<1> QED BY <1>1, ResearchInvariant, PTL DEF Spec, EndingsFixed
===============================================================================

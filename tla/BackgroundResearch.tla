-------------------------- MODULE BackgroundResearch --------------------------
(***************************************************************************)
(* Durable background research: a job of the procurement workspace is      *)
(* submitted once to an external provider, which answers minutes later.    *)
(* Five kinds of process share one job row, one operation row and a        *)
(* webhook inbox:                                                          *)
(*   - the browser that created the job and waits for an acknowledgement   *)
(*     (assistedResearchActions.ts, liveProcurementProvider.ts);           *)
(*   - calls of the submission function (procurement-live-research);       *)
(*   - calls of the webhook function (procurement-live-research-webhook);  *)
(*   - runs of the reconciler (procurement-live-research-reconcile);       *)
(*   - the provider itself, which is external.                             *)
(* A database function is one transaction, hence one action; whatever      *)
(* happens between two database functions of a process may be interleaved  *)
(* with every other process.  A response of the provider is named by the   *)
(* submission call that created it, and so is its single webhook event.    *)
(***************************************************************************)
EXTENDS Naturals, FiniteSets

CONSTANTS
    Jobs,                  \* procurement_research_jobs rows
    Calls,                 \* deliveries of the submission request
    Reconcilers,           \* reconciler runs that may overlap
    Hooks,                 \* webhook calls that may overlap
    None,                  \* SQL null: no response, lease, event or job
    ProviderEnds,          \* terminal statuses the provider may report
    MaxRetrievalFailures,  \* BACKGROUND_MAX_CONSECUTIVE_RETRIEVAL_FAILURES
    FailureCap,            \* 100 in the code: least(count + 1, 100)
    AttachAttempts,        \* 3 in the code
    MaxFaults              \* bound on crashes, lost replies and stalls

Workers == Reconcilers \cup Hooks

ASSUME ResearchAssumption ==
    /\ MaxRetrievalFailures \in Nat \ {0}
    /\ FailureCap \in Nat \ {0}
    /\ AttachAttempts \in Nat \ {0}
    /\ MaxFaults \in Nat
    /\ ProviderEnds \subseteq {"completed", "failed", "incomplete", "cancelled"}
    /\ None \notin Jobs \cup Calls \cup Workers
    /\ Reconcilers \cap Hooks = {} /\ Workers \cap Calls = {}

VARIABLES
    job,        \* the owner's workflow row
    operation,  \* procurement_background_operations, one row per job
    inbox,      \* procurement_background_webhook_inbox, one row per event
    provider,   \* the provider's own record of each response
    client,     \* the browser that started each job
    call,       \* submission calls
    worker,     \* webhook calls and reconciler runs
    faults      \* faults spent so far

vars == <<job, operation, inbox, provider, client, call, worker, faults>>

-----------------------------------------------------------------------------
\* 'partial' differs from 'completed' in the label alone and is left out.
JobStatus == {"queued", "running", "completed", "failed", "cancelled"}
EndStates == {"completed", "failed", "incomplete", "cancelled"}
OperationStates == {"none", "intent_created", "submitting",
                    "submission_ambiguous", "provider_in_progress"} \cup EndStates
EventStates == {"none", "received", "unmatched_pending", "transient_failure",
                "processed", "duplicate", "permanently_rejected"}
ClosedEvents == {"processed", "duplicate", "permanently_rejected"}
TerminalCodes == {"PROVIDER_COMPLETED", "PROVIDER_FAILED", "PROVIDER_INCOMPLETE",
                  "PROVIDER_CANCELLED", "PROVIDER_SUBMISSION_REJECTED",
                  "PROVIDER_RETRIEVAL_REJECTED", "PROVIDER_INVALID_RESPONSE",
                  "BACKGROUND_SUBMISSION_AMBIGUOUS",
                  "BACKGROUND_RESPONSE_RETENTION_EXHAUSTED",
                  "PROVIDER_RESULT_DISCARDED_AFTER_CANCELLATION"}
Answers == {"accepted", "definitive", "uncertain"}

\* What a worker intends after it looked at the provider.
NoPlan == [do |-> "none", status |-> "none", code |-> "none"]
Finish(status, code) == [do |-> "finish", status |-> status, code |-> code]
CountFailure == [NoPlan EXCEPT !.do = "countFailure"]
ResetFailures == [NoPlan EXCEPT !.do = "resetFailures"]
Plans == {NoPlan, CountFailure, ResetFailures}
           \cup {Finish(s, c) : s \in EndStates, c \in TerminalCodes}

NewJob == [status |-> "queued", cancelling |-> FALSE, invoked |-> FALSE,
           published |-> 0]
NoOperation == [state |-> "none", response |-> None, failures |-> 0,
                lease |-> None, expired |-> FALSE, code |-> "none", old |-> FALSE]
IdleWorker == [pc |-> "idle", job |-> None, response |-> None, failures |-> 0,
               event |-> None, classified |-> "none", plan |-> NoPlan]

\* Rows, program counters and counters stay within their ranges.
TypeOK ==
    /\ job \in [Jobs -> [status : JobStatus, cancelling : BOOLEAN,
                         invoked : BOOLEAN, published : Nat]]
    /\ operation \in
         [Jobs -> [state : OperationStates, response : Calls \cup {None},
                   failures : 0..FailureCap, lease : Workers \cup Calls \cup {None},
                   expired : BOOLEAN, code : TerminalCodes \cup {"none"},
                   old : BOOLEAN]]
    /\ inbox \in [Calls -> [state : EventStates, aged : BOOLEAN]]
    /\ provider \in [Calls -> {"none", "running"} \cup EndStates]
    /\ client \in [Jobs -> [pc : {"prepared", "waiting", "reading", "failing", "done"},
                            sent : BOOLEAN, answer : Answers \cup {"none"}]]
    /\ call \in [Calls -> [pc : {"idle", "begin", "start", "post", "attach", "mark",
                                 "reject", "rejectFinalize", "gone"},
                           job : Jobs \cup {None}, posted : BOOLEAN,
                           tries : 0..AttachAttempts,
                           verdict : {"uncertain", "definitive"}]]
    /\ worker \in
         [Workers -> [pc : {"idle", "inbox", "store", "insert", "lookup", "claim",
                            "decide", "conclude", "remark", "retryEvent"},
                      job : Jobs \cup {None}, response : Calls \cup {None},
                      failures : 0..FailureCap, event : Calls \cup {None},
                      classified : {"none", "duplicate", "received",
                                    "unmatched_pending"},
                      plan : Plans]]
    /\ faults \in 0..MaxFaults

Init ==
    /\ job = [j \in Jobs |-> NewJob]
    /\ operation = [j \in Jobs |-> NoOperation]
    /\ inbox = [r \in Calls |-> [state |-> "none", aged |-> FALSE]]
    /\ provider = [r \in Calls |-> "none"]
    /\ client = [j \in Jobs |-> [pc |-> "prepared", sent |-> FALSE, answer |-> "none"]]
    /\ call = [c \in Calls |-> [pc |-> "idle", job |-> None, posted |-> FALSE,
                                tries |-> 0, verdict |-> "uncertain"]]
    /\ worker = [w \in Workers |-> IdleWorker]
    /\ faults = 0

\* A fault uses up part of the bound.
Fault == faults < MaxFaults /\ faults' = faults + 1
\* How a remote procedure call may end for its caller: answered, refused
\* before it took effect, or carried out with its answer lost.
Replies == {"ok", "failed", "unanswered"}
Charge(how) == IF how = "ok" THEN UNCHANGED faults ELSE Fault

-----------------------------------------------------------------------------
(* The database functions, on the rows they lock.                          *)

Exists(j) == operation[j].state # "none"
Terminal(o) == o.code # "none"
Attached(r) == {j \in Jobs : operation[j].response = r}

\* One provider gate per job.
GateOpen(j) == job[j].status = "running" /\ ~job[j].invoked

\* Mutants: a call that joins a submission under way posts as well; an
\* ambiguous submission is tried again.
StartableTwice(o) == o.state \in {"intent_created", "submitting"}
StartableAgain(o) == o.state \in {"intent_created", "submission_ambiguous"}
\* A submission starts from an intent and from nothing else.
Startable(o) == o.state = "intent_created"

JobRuns(j) == job[j].status = "running" /\ ~job[j].cancelling

\* Mutant: a lease nobody gave back is never taken over.
ClaimableFree(o, owner) ==
    o.state # "none" /\ ~Terminal(o) /\ (o.lease = None \/ o.lease = owner)
\* A lease can be taken when it is free, run out, or already the taker's.
Claimable(o, owner) ==
    /\ o.state # "none"
    /\ ~Terminal(o)
    /\ o.lease = None \/ o.expired \/ o.lease = owner

Leased(o, owner) == [o EXCEPT !.lease = owner, !.expired = FALSE]
Released(o) == [o EXCEPT !.lease = None, !.expired = FALSE]

\* Mutant: no trigger.
UnguardedEvent(old, new) == new
\* The row trigger of the inbox: a closed event keeps its state.
GuardedEvent(old, new) == IF old.state \in ClosedEvents THEN old ELSE new

\* Attachment wakes an event that came early, unless it has waited too long.
WokenState(e) == IF e.aged THEN "permanently_rejected" ELSE "received"

\* Mutant: any operation of the response makes the event a duplicate.
ClassOnceAttached(r) == IF Attached(r) # {} THEN "duplicate" ELSE "unmatched_pending"
\* The state a new event is stored in, from the rows its statement sees.
EventClass(r) ==
    IF \E j \in Attached(r) : Terminal(operation[j]) THEN "duplicate"
    ELSE IF Attached(r) # {} THEN "received" ELSE "unmatched_pending"

\* A failed retrieval is the last one when the worker's copy of the counter
\* leaves no further attempt.
RetrievalExhausted(failures) == failures + 1 >= MaxRetrievalFailures

\* Mutant: only a cancellation keeps a result out.
AcceptsUncancelled(j) == ~job[j].cancelling
\* Only a running job without a cancellation request accepts a result.
AcceptsResult(j) == JobRuns(j)

\* finalize_procurement_background_operation once its guards have passed.
FinalizedOperation(j, status, code) ==
    IF AcceptsResult(j)
    THEN [Released(operation[j]) EXCEPT !.state = status, !.code = code]
    ELSE [Released(operation[j]) EXCEPT
            !.state = "cancelled",
            !.code = "PROVIDER_RESULT_DISCARDED_AFTER_CANCELLATION"]
JobOutcome(status) ==
    CASE status = "completed" -> "completed"
      [] status = "cancelled" -> "cancelled"
      [] OTHER -> "failed"
\* Mutant: the job is written before the cancellation is looked at.
JobAlwaysFinalized(j, status) ==
    [job[j] EXCEPT !.status = JobOutcome(status),
                   !.published = @ + (IF status = "completed" THEN 1 ELSE 0)]
FinalizedJob(j, status) ==
    IF AcceptsResult(j)
    THEN [job[j] EXCEPT !.status = JobOutcome(status),
                        !.published = @ + (IF status = "completed" THEN 1 ELSE 0)]
    ELSE job[j]
FinalizedInbox(j, event) ==
    [r \in Calls |->
        IF r = operation[j].response /\ inbox[r].state \notin {"none", "processed", "duplicate"}
        THEN GuardedEvent(inbox[r],
               [inbox[r] EXCEPT !.state = IF r = event THEN "processed" ELSE "duplicate"])
        ELSE inbox[r]]

\* The finalizer refuses a row that has ended and a worker without the lease.
HoldsLease(j, owner) == ~Terminal(operation[j]) /\ operation[j].lease = owner

Finalize(j, event, status, code) ==
    /\ operation' = [operation EXCEPT ![j] = FinalizedOperation(j, status, code)]
    /\ job' = [job EXCEPT ![j] = FinalizedJob(j, status)]
    /\ inbox' = FinalizedInbox(j, event)

\* Mutant: the counter grows without bound.
RescheduledUncapped(o, counted) ==
    [Released(o) EXCEPT
        !.failures = IF counted THEN @ + 1 ELSE 0,
        !.state = IF o.response = None THEN @ ELSE "provider_in_progress"]
\* reschedule_procurement_background_operation: counts a failure or resets
\* the counter, and gives up the lease.
Rescheduled(o, counted) ==
    [Released(o) EXCEPT
        !.failures = IF ~counted THEN 0
                     ELSE IF @ < FailureCap THEN @ + 1 ELSE @,
        !.state = IF o.response = None THEN @ ELSE "provider_in_progress"]

\* mark_procurement_background_webhook_retry
RetriedEvent(e) ==
    IF e.state \in {"received", "transient_failure"}
    THEN GuardedEvent(e, [e EXCEPT !.state = "transient_failure"]) ELSE e

-----------------------------------------------------------------------------
(* The browser: runResearch, discoverOffers and the cancel button.         *)

\* The update that starts the job names the row alone, not its status; when
\* it fails the browser goes on to report the job as failed.
SetRunning(j) ==
    /\ client[j].pc = "prepared"
    /\ \E how \in Replies :
         /\ Charge(how)
         /\ job' = IF how = "failed" THEN job ELSE [job EXCEPT ![j].status = "running"]
         /\ client' = [client EXCEPT
                         ![j].pc = IF how = "ok" THEN "waiting" ELSE "failing",
                         ![j].sent = how = "ok"]
    /\ UNCHANGED <<operation, inbox, provider, call, worker>>

ReceiveAnswer(j) ==
    /\ client[j].pc = "waiting"
    /\ client[j].answer # "none"
    /\ client' = [client EXCEPT ![j].pc =
                    CASE client[j].answer = "accepted" -> "done"
                      [] client[j].answer = "definitive" -> "failing"
                      [] client[j].answer = "uncertain" -> "reading"]
    /\ UNCHANGED <<job, operation, inbox, provider, call, worker, faults>>

\* The HTTP answer never arrives, whatever the function has done or will do.
LoseAnswer(j) ==
    /\ client[j].pc = "waiting"
    /\ Fault
    /\ client' = [client EXCEPT ![j].pc = "reading"]
    /\ UNCHANGED <<job, operation, inbox, provider, call, worker>>

\* Without a definitive answer the browser looks at the job; a read that
\* fails counts like a job that was not invoked.
ReadJob(j) ==
    /\ client[j].pc = "reading"
    /\ \/ /\ UNCHANGED faults
          /\ client' = [client EXCEPT ![j].pc =
                 IF job[j].status = "running" /\ job[j].invoked THEN "done" ELSE "failing"]
       \/ /\ Fault
          /\ client' = [client EXCEPT ![j].pc = "failing"]
    /\ UNCHANGED <<job, operation, inbox, provider, call, worker>>

\* failResearchJob: conditional on the job still running, on nothing else.
FailJob(j) ==
    /\ client[j].pc = "failing"
    /\ job' = IF job[j].status = "running"
              THEN [job EXCEPT ![j].status = "failed"] ELSE job
    /\ client' = [client EXCEPT ![j].pc = "done"]
    /\ UNCHANGED <<operation, inbox, provider, call, worker, faults>>

\* cancelResearchJob, from any tab of the owner.
CancelJob(j) ==
    /\ job[j].status \in {"queued", "running"}
    /\ job' = [job EXCEPT ![j].status = "cancelled", ![j].cancelling = TRUE]
    /\ UNCHANGED <<operation, inbox, provider, client, call, worker, faults>>

-----------------------------------------------------------------------------
(* A call of the submission function.                                      *)

Goto(c, pc) == call' = [call EXCEPT ![c].pc = pc] /\ UNCHANGED client

Respond(c, answer) ==
    /\ call' = [call EXCEPT ![c].pc = "gone"]
    /\ client' = [client EXCEPT ![call[c].job].answer = IF @ = "none" THEN answer ELSE @]

InFlight(c) == call[c].pc \notin {"idle", "gone"}

\* The request reaches the function; a second delivery is a fault of the
\* network.  No request is delivered half an hour late.
Deliver(c, j) ==
    /\ call[c].pc = "idle"
    /\ client[j].sent
    /\ ~operation[j].old
    /\ IF \E d \in Calls : call[d].job = j THEN Fault ELSE UNCHANGED faults
    /\ call' = [call EXCEPT ![c].pc = "begin", ![c].job = j]
    /\ UNCHANGED <<job, operation, inbox, provider, client, worker>>

\* begin_procurement_background_submission: an existing operation answers
\* for itself, otherwise the gate is consumed and the intent stored, unless
\* the owner's other jobs have used up the daily limit.
Begin(c) ==
    LET j == call[c].job
    IN  /\ call[c].pc = "begin"
        /\ \E how \in Replies, limited \in BOOLEAN :
             /\ Charge(how)
             /\ IF ~Exists(j) /\ GateOpen(j) /\ ~limited /\ how # "failed"
                THEN /\ operation' = [operation EXCEPT ![j].state = "intent_created"]
                     /\ job' = [job EXCEPT ![j].invoked = TRUE]
                ELSE UNCHANGED <<operation, job>>
             /\ IF how # "ok" \/ operation'[j].state = "none" THEN Respond(c, "definitive")
                ELSE IF operation'[j].state = "intent_created" THEN Goto(c, "start")
                ELSE Respond(c, "accepted")
        /\ UNCHANGED <<inbox, provider, worker>>

\* start_procurement_background_submission: of several calls that found the
\* intent one turns it into a submission; a call that finds the submission
\* under way answers, any other goes to the error path.
Start(c) ==
    LET j == call[c].job
        starts == JobRuns(j) /\ Startable(operation[j])
    IN  /\ call[c].pc = "start"
        /\ \E how \in Replies :
             /\ Charge(how)
             /\ operation' = IF starts /\ how # "failed"
                             THEN [operation EXCEPT ![j].state = "submitting"]
                             ELSE operation
             /\ CASE how = "ok" /\ starts -> Goto(c, "post")
                  [] how = "ok" /\ ~starts /\ JobRuns(j)
                       /\ operation[j].state = "submitting" -> Respond(c, "accepted")
                  [] OTHER -> Goto(c, "mark")
        /\ UNCHANGED <<job, inbox, provider, worker>>

\* The one request to the provider: it creates a response, or refuses for
\* good, or leaves the caller without an answer, or asks it to come later.
Post(c) ==
    /\ call[c].pc = "post"
    /\ \/ /\ provider' = [provider EXCEPT ![c] = "running"]
          /\ call' = [call EXCEPT ![c].pc = "attach", ![c].posted = TRUE]
       \/ /\ provider' = provider
          /\ call' = [call EXCEPT ![c].pc = "reject", ![c].posted = TRUE]
       \/ /\ \E s \in {"none", "running"} : provider' = [provider EXCEPT ![c] = s]
          /\ call' = [call EXCEPT ![c].pc = "mark", ![c].posted = TRUE]
       \/ /\ provider' = provider
          /\ call' = [call EXCEPT ![c].pc = "mark", ![c].posted = TRUE,
                                  ![c].verdict = "definitive"]
    /\ UNCHANGED <<job, operation, inbox, client, worker, faults>>

\* attach_procurement_background_operation with its retries and the
\* acknowledgement that follows it.
Attach(c) ==
    LET j == call[c].job
        fresh == operation[j].response = None
    IN  /\ call[c].pc = "attach"
        /\ \E how \in Replies :
             /\ Charge(how)
             /\ IF fresh /\ how # "failed"
                THEN /\ operation' = [operation EXCEPT ![j].response = c,
                                                      ![j].state = "provider_in_progress"]
                     /\ inbox' = IF inbox[c].state = "unmatched_pending"
                                 THEN [inbox EXCEPT ![c].state = WokenState(inbox[c])]
                                 ELSE inbox
                ELSE UNCHANGED <<operation, inbox>>
             /\ IF how = "ok" /\ operation'[j].response = c THEN Respond(c, "accepted")
                ELSE /\ call' = [call EXCEPT
                                   ![c].tries = @ + 1,
                                   ![c].pc = IF call[c].tries + 1 = AttachAttempts
                                             THEN "mark" ELSE "attach"]
                     /\ UNCHANGED client
        /\ UNCHANGED <<job, provider, worker>>

\* Mutant: only an attachment keeps the mark away.
MarkableUnattached(o) == o.response = None
\* mark_procurement_background_submission_ambiguous leaves an attached or
\* ended operation alone; its own failure is ignored by the function.
Markable(o) == o.response = None /\ ~Terminal(o)
MarkAmbiguous(c) ==
    LET j == call[c].job
    IN  /\ call[c].pc = "mark"
        /\ \E how \in {"ok", "failed"} :
             /\ Charge(how)
             /\ operation' = IF how = "ok" /\ Markable(operation[j])
                             THEN [operation EXCEPT ![j].state = "submission_ambiguous"]
                             ELSE operation
        /\ Respond(c, call[c].verdict)
        /\ UNCHANGED <<job, inbox, provider, worker>>

\* A submission the provider refused for good ends the operation at once,
\* if the call can take the lease.
RejectClaim(c) ==
    LET j == call[c].job
    IN  /\ call[c].pc = "reject"
        /\ \E how \in Replies :
             /\ Charge(how)
             /\ operation' = IF how # "failed" /\ Claimable(operation[j], c)
                             THEN [operation EXCEPT ![j] = Leased(@, c)] ELSE operation
             /\ IF how = "ok" /\ Claimable(operation[j], c)
                THEN Goto(c, "rejectFinalize") ELSE Respond(c, "uncertain")
        /\ UNCHANGED <<job, inbox, provider, worker>>
RejectFinalize(c) ==
    LET j == call[c].job
    IN  /\ call[c].pc = "rejectFinalize"
        /\ \E how \in {"ok", "failed"} :
             /\ Charge(how)
             /\ IF how = "ok" /\ HoldsLease(j, c)
                THEN Finalize(j, None, "failed", "PROVIDER_SUBMISSION_REJECTED")
                ELSE UNCHANGED <<job, operation, inbox>>
        /\ Respond(c, "uncertain")
        /\ UNCHANGED <<provider, worker>>

\* A call that dies leaves its gateway to answer, and any lease behind.
CallCrash(c) ==
    /\ InFlight(c)
    /\ Fault
    /\ Respond(c, "uncertain")
    /\ UNCHANGED <<job, operation, inbox, provider, worker>>

-----------------------------------------------------------------------------
(* Webhook calls and reconciler runs.  Both end in the same processor.     *)

Rest(w) == worker' = [worker EXCEPT ![w] = IdleWorker]
Step(w, pc) == worker' = [worker EXCEPT ![w].pc = pc]

\* A worker identity is drawn afresh for every processing; the slot of an
\* ended worker is taken again only when no unexpired lease bears its name.
FreshName(w) == \A j \in Jobs : operation[j].lease = w => operation[j].expired

\* The processor works on the row its caller read before.
Snapshot(j) == [job |-> j, response |-> operation[j].response,
                failures |-> operation[j].failures]
Holding(w, pc, j) ==
    worker' = [worker EXCEPT ![w].pc = pc, ![w].job = j,
                             ![w].response = Snapshot(j).response,
                             ![w].failures = Snapshot(j).failures]

\* The reconciler reads a batch of due operations at once; how long a later
\* member of the batch waits for its turn is left open.
ReadDue(w, j) ==
    /\ w \in Reconcilers
    /\ worker[w].pc = "idle" /\ FreshName(w)
    /\ Exists(j) /\ ~Terminal(operation[j])
    /\ Holding(w, "inbox", j)
    /\ UNCHANGED <<job, operation, inbox, provider, client, call, faults>>

\* Then, one operation at a time, the oldest open event of its response.
ReadInbox(w) ==
    LET r == worker[w].response
        open == r # None /\ inbox[r].state \in {"received", "unmatched_pending",
                                                "transient_failure"}
    IN  /\ worker[w].pc = "inbox"
        /\ \E how \in {"ok", "failed"} :
             /\ Charge(how)
             /\ worker' = [worker EXCEPT ![w].pc = "claim",
                             ![w].event = IF open /\ how = "ok" THEN r ELSE None]
        /\ UNCHANGED <<job, operation, inbox, provider, client, call>>

\* The provider reports the end of a response, possibly many times.
Receive(w, r) ==
    /\ w \in Hooks
    /\ worker[w].pc = "idle" /\ FreshName(w)
    /\ provider[r] \in EndStates
    /\ worker' = [worker EXCEPT ![w].pc = "store", ![w].event = r]
    /\ UNCHANGED <<job, operation, inbox, provider, client, call, faults>>

\* store_procurement_background_webhook is one INSERT, yet its subqueries
\* see the rows committed when it starts and its own row is seen by others
\* when it commits: two steps.
StoreRead(w) ==
    /\ worker[w].pc = "store"
    /\ worker' = [worker EXCEPT ![w].pc = "insert",
                                ![w].classified = EventClass(worker[w].event)]
    /\ UNCHANGED <<job, operation, inbox, provider, client, call, faults>>
StoreInsert(w) ==
    LET r == worker[w].event
    IN  /\ worker[w].pc = "insert"
        /\ \E how \in Replies :
             /\ Charge(how)
             /\ inbox' = IF how # "failed" /\ inbox[r].state = "none"
                         THEN [inbox EXCEPT ![r].state = worker[w].classified] ELSE inbox
             /\ IF how = "ok"
                THEN worker' = [worker EXCEPT ![w].pc = "lookup",
                                              ![w].classified = "none"]
                ELSE Rest(w)
        /\ UNCHANGED <<job, operation, provider, client, call>>

\* The webhook looks for the operation of the response after the event is
\* durable; without one it answers and leaves the event to others.
Lookup(w) ==
    /\ worker[w].pc = "lookup"
    /\ \/ /\ \E j \in Attached(worker[w].event) : Holding(w, "claim", j)
          /\ UNCHANGED faults
       \/ /\ Attached(worker[w].event) = {}
          /\ Rest(w)
          /\ UNCHANGED faults
       \/ Fault /\ Rest(w)
    /\ UNCHANGED <<job, operation, inbox, provider, client, call>>

\* An exception in the processor: the webhook reports its event for retry,
\* the reconciler goes on to the next operation.
Throw(w) ==
    IF w \in Hooks
    THEN worker' = [worker EXCEPT ![w].pc = "retryEvent", ![w].plan = NoPlan]
    ELSE Rest(w)

\* claim_procurement_background_operation; the loser is busy.
Claim(w) ==
    LET j == worker[w].job
    IN  /\ worker[w].pc = "claim"
        /\ \E how \in Replies :
             /\ Charge(how)
             /\ operation' = IF how # "failed" /\ Claimable(operation[j], w)
                             THEN [operation EXCEPT ![j] = Leased(@, w)] ELSE operation
             /\ CASE how # "ok" -> Throw(w)
                  [] how = "ok" /\ Claimable(operation[j], w) -> Step(w, "decide")
                  [] OTHER -> Rest(w)
        /\ UNCHANGED <<job, inbox, provider, client, call>>

CodeOf(status) == CASE status = "failed" -> "PROVIDER_FAILED"
                    [] status = "incomplete" -> "PROVIDER_INCOMPLETE"
                    [] status = "cancelled" -> "PROVIDER_CANCELLED"

\* What retrieving a response may lead to: no usable answer, a refusal, or
\* the provider's status at that moment, whose completed output may be
\* malformed.
RetrievalPlans(w) ==
    {IF RetrievalExhausted(worker[w].failures)
     THEN Finish("failed", "BACKGROUND_RESPONSE_RETENTION_EXHAUSTED") ELSE CountFailure,
     Finish("failed", "PROVIDER_RETRIEVAL_REJECTED")}
    \cup LET status == provider[worker[w].response]
         IN  CASE status = "running" -> {ResetFailures}
               [] status = "completed" -> {Finish("completed", "PROVIDER_COMPLETED"),
                                           Finish("failed", "PROVIDER_INVALID_RESPONSE")}
               [] OTHER -> {Finish(status, CodeOf(status))}

\* The processor between claim and effect: the age test, a terminal event
\* taken at its word, or one retrieval.  A stored result whose request can
\* not be read is a fault, and a counted failure.
Decide(w) ==
    LET r == worker[w].response
        e == worker[w].event
        Intend(plan) == worker' = [worker EXCEPT ![w].pc = "conclude", ![w].plan = plan]
    IN  /\ worker[w].pc = "decide"
        /\ \/ /\ r = None
              /\ Intend(IF operation[worker[w].job].old
                        THEN Finish("failed", "BACKGROUND_SUBMISSION_AMBIGUOUS")
                        ELSE ResetFailures)
              /\ UNCHANGED faults
           \/ /\ r # None /\ e # None /\ provider[e] # "completed"
              /\ Intend(Finish(provider[e], CodeOf(provider[e])))
              /\ UNCHANGED faults
           \/ /\ r # None /\ (e # None => provider[e] = "completed")
              /\ \E plan \in RetrievalPlans(w) : Intend(plan)
              /\ UNCHANGED faults
           \/ /\ r # None /\ (e # None => provider[e] = "completed")
              /\ provider[r] = "completed"
              /\ Intend(CountFailure)
              /\ Fault
        /\ UNCHANGED <<job, operation, inbox, provider, client, call>>

\* A worker that reschedules without the lease changes nothing and still
\* marks its event.
Reschedule(w) ==
    LET j == worker[w].job
    IN  /\ worker[w].pc = "conclude"
        /\ worker[w].plan \in {CountFailure, ResetFailures}
        /\ \E how \in Replies :
             /\ Charge(how)
             /\ operation' = IF how # "failed" /\ HoldsLease(j, w)
                             THEN [operation EXCEPT ![j] =
                                     Rescheduled(@, worker[w].plan = CountFailure)]
                             ELSE operation
             /\ CASE how # "ok" -> Throw(w)
                  [] how = "ok" /\ worker[w].event # None -> Step(w, "remark")
                  [] OTHER -> Rest(w)
        /\ UNCHANGED <<job, inbox, provider, client, call>>

\* A finalizer that raises: a completed result falls back on rescheduling.
Refinish(w) ==
    IF worker[w].plan.status = "completed"
    THEN worker' = [worker EXCEPT ![w].plan = CountFailure]
    ELSE Throw(w)
Conclude(w) ==
    LET j == worker[w].job
        plan == worker[w].plan
    IN  /\ worker[w].pc = "conclude"
        /\ plan.do = "finish"
        /\ \E how \in Replies :
             /\ Charge(how)
             /\ IF how # "failed" /\ HoldsLease(j, w)
                THEN Finalize(j, worker[w].event, plan.status, plan.code)
                ELSE UNCHANGED <<job, operation, inbox>>
             /\ IF how = "ok" /\ (HoldsLease(j, w) \/ Terminal(operation[j]))
                THEN Rest(w) ELSE Refinish(w)
        /\ UNCHANGED <<provider, client, call>>

\* Both ways of marking the event of a worker for retry.
RetryEvent(w) ==
    /\ worker[w].pc \in {"remark", "retryEvent"}
    /\ \E how \in {"ok", "failed"} :
         /\ Charge(how)
         /\ inbox' = IF how = "ok"
                     THEN [inbox EXCEPT ![worker[w].event] = RetriedEvent(@)] ELSE inbox
         /\ IF how = "failed" /\ worker[w].pc = "remark" THEN Throw(w) ELSE Rest(w)
    /\ UNCHANGED <<job, operation, provider, client, call>>

WorkerCrash(w) ==
    /\ worker[w].pc # "idle"
    /\ Fault
    /\ Rest(w)
    /\ UNCHANGED <<job, operation, inbox, provider, client, call>>

\* Mutant: the sweep looks for events of attached operations.
SweepMatched(r) ==
    /\ inbox[r].state = "unmatched_pending" /\ inbox[r].aged
    /\ Attached(r) # {}
    /\ inbox' = [inbox EXCEPT ![r].state = "permanently_rejected"]
    /\ UNCHANGED <<job, operation, provider, client, call, worker, faults>>
\* expire_procurement_unmatched_webhooks, run first by every reconciler.
ExpireUnmatched(r) ==
    /\ inbox[r].state = "unmatched_pending" /\ inbox[r].aged
    /\ Attached(r) = {}
    /\ inbox' = [inbox EXCEPT ![r].state = "permanently_rejected"]
    /\ UNCHANGED <<job, operation, provider, client, call, worker, faults>>

-----------------------------------------------------------------------------
(* Time and the provider.                                                  *)

\* The lease outlives a retrieval, so it runs out under a live worker only
\* if that worker stalls.
Lives(owner) ==
    IF owner \in Workers THEN worker[owner].pc \in {"decide", "conclude"}
    ELSE InFlight(owner)
LeaseExpires(j) ==
    /\ operation[j].lease # None /\ ~operation[j].expired
    /\ operation' = [operation EXCEPT ![j].expired = TRUE]
    /\ IF Lives(operation[j].lease) THEN Fault ELSE UNCHANGED faults
    /\ UNCHANGED <<job, inbox, provider, client, call, worker>>

\* Thirty minutes after the intent.  Only an unattached operation looks at
\* its age, and no call of a function lives that long.
GrowOld(j) ==
    /\ Exists(j) /\ ~Terminal(operation[j])
    /\ operation[j].response = None /\ ~operation[j].old
    /\ \A c \in Calls : call[c].job = j => ~InFlight(c)
    /\ operation' = [operation EXCEPT ![j].old = TRUE]
    /\ UNCHANGED <<job, inbox, provider, client, call, worker, faults>>

\* Fifteen minutes after an event was stored.
AgeEvent(r) ==
    /\ inbox[r].state = "unmatched_pending" /\ ~inbox[r].aged
    /\ inbox' = [inbox EXCEPT ![r].aged = TRUE]
    /\ UNCHANGED <<job, operation, provider, client, call, worker, faults>>

ProviderEnd(r) ==
    /\ provider[r] = "running"
    /\ \E s \in ProviderEnds : provider' = [provider EXCEPT ![r] = s]
    /\ UNCHANGED <<job, operation, inbox, client, call, worker, faults>>

-----------------------------------------------------------------------------
ClientStep(j) == SetRunning(j) \/ ReceiveAnswer(j) \/ ReadJob(j) \/ FailJob(j)
CallStep(c) == \/ Begin(c) \/ Start(c) \/ Post(c) \/ Attach(c)
               \/ MarkAmbiguous(c) \/ RejectClaim(c) \/ RejectFinalize(c)
WorkerStep(w) == \/ ReadInbox(w) \/ StoreRead(w) \/ StoreInsert(w) \/ Lookup(w)
                 \/ Claim(w) \/ Decide(w) \/ Reschedule(w) \/ Conclude(w)
                 \/ RetryEvent(w)

Next ==
    \/ \E j \in Jobs : ClientStep(j) \/ LoseAnswer(j) \/ CancelJob(j)
    \/ \E c \in Calls, j \in Jobs : Deliver(c, j)
    \/ \E c \in Calls : CallStep(c) \/ CallCrash(c)
    \/ \E w \in Workers, j \in Jobs : ReadDue(w, j)
    \/ \E w \in Workers, r \in Calls : Receive(w, r)
    \/ \E w \in Workers : WorkerStep(w) \/ WorkerCrash(w)
    \/ \E r \in Calls : ExpireUnmatched(r) \/ AgeEvent(r) \/ ProviderEnd(r)
    \/ \E j \in Jobs : LeaseExpires(j) \/ GrowOld(j)

\* The functions run to their end unless they crash; the scheduler runs the
\* reconciler for ever; time passes; the provider ends what it accepted.
\* Nothing makes the browser, the owner or the webhooks act.
Fairness ==
    /\ \A c \in Calls : WF_vars(CallStep(c))
    /\ \A w \in Workers : WF_vars(WorkerStep(w))
    /\ \A j \in Jobs : WF_vars(\E w \in Reconcilers : ReadDue(w, j))
    /\ \A r \in Calls : WF_vars(ExpireUnmatched(r)) /\ WF_vars(AgeEvent(r))
                        /\ WF_vars(ProviderEnd(r))
    /\ \A j \in Jobs : WF_vars(LeaseExpires(j)) /\ WF_vars(GrowOld(j))

Spec == Init /\ [][Next]_vars
FairSpec == Spec /\ Fairness

-----------------------------------------------------------------------------
(* Safety.                                                                 *)

\* A job is posted to the provider at most once, however often the request
\* is delivered, the calls crash or the submission stays ambiguous.
AtMostOnePosting ==
    \A j \in Jobs : Cardinality({c \in Calls : call[c].job = j /\ call[c].posted}) <= 1

\* Candidates are published once, for an operation that has not ended, by a
\* running job nobody cancelled, from a response the provider completed.
PublicationLawful ==
    [][\A j \in Jobs : job'[j].published # job[j].published =>
          /\ job[j].published = 0 /\ JobRuns(j)
          /\ ~Terminal(operation[j])
          /\ operation[j].response # None
          /\ provider[operation[j].response] = "completed"]_vars

\* An ended operation and a closed event never change again: a late worker, a
\* second call, a late mark of ambiguity and a repeated webhook all leave them
\* as they are.
EndingsFixed ==
    [][ /\ \A j \in Jobs : Terminal(operation[j]) => operation'[j] = operation[j]
        /\ \A r \in Calls : inbox[r].state \in ClosedEvents => inbox'[r] = inbox[r]]_vars

\* An event is dropped as processed or duplicate only when its operation has
\* ended, and rejected only after its fifteen minutes.
EventsClosedForCause ==
    \A r \in Calls :
        /\ inbox[r].state \in {"processed", "duplicate"}
             => \E j \in Attached(r) : Terminal(operation[j])
        /\ inbox[r].state = "permanently_rejected" => inbox[r].aged

\* The owner's job and the internal operation tell the same story once the
\* operation has ended: the job has the operation's outcome, or the result
\* was discarded because the job was no longer the operation's to end.  And
\* what the row records did happen: a rejection or an ambiguity is of a
\* submission without response, a rejected one never reached the provider.
OutcomeAgrees ==
    \A j \in Jobs : Terminal(operation[j]) =>
        /\ (job[j].published = 1) <=> (operation[j].state = "completed")
        /\ IF operation[j].code = "PROVIDER_RESULT_DISCARDED_AFTER_CANCELLATION"
           THEN ~JobRuns(j)
           ELSE job[j].status = JobOutcome(operation[j].state)
        /\ operation[j].code \in {"PROVIDER_SUBMISSION_REJECTED",
                                  "BACKGROUND_SUBMISSION_AMBIGUOUS"}
             => operation[j].response = None
        /\ operation[j].code = "PROVIDER_SUBMISSION_REJECTED"
             => \A c \in Calls : call[c].job = j => provider[c] = "none"

-----------------------------------------------------------------------------
(* Statements of the repository the code does not keep.                    *)

\* No step of the browser ends the running job of an attached operation: a
\* job fails by its operation's own end or not at all (the decision record,
\* invariant 8).
AcceptedWorkSurvivesBrowser ==
    [][\A j \in Jobs :
          operation[j].response # None /\ ~Terminal(operation[j])
          /\ job[j].status = "running" /\ job'[j].status = "failed"
            => Terminal(operation'[j])]_vars

\* An operation is given up for failed retrievals only after as many
\* consecutive ones as the budget has; a successful poll resets the count.
BudgetSpentBeforeExpiry ==
    \A j \in Jobs : operation[j].code = "BACKGROUND_RESPONSE_RETENTION_EXHAUSTED"
                      => operation[j].failures + 1 >= MaxRetrievalFailures

-----------------------------------------------------------------------------
(* Liveness, under Fairness.                                               *)

\* Every stored intent ends, whatever crashed, was lost or stayed ambiguous.
OperationsEnd == \A j \in Jobs : Exists(j) ~> Terminal(operation[j])

\* An event no operation claims does not stay in the inbox's queue.
UnmatchedEventsExpire ==
    \A r \in Calls :
        (inbox[r].state = "unmatched_pending" /\ Attached(r) = {})
            ~> (inbox[r].state # "unmatched_pending")

=============================================================================

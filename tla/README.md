# Koalafrog HQ: verification project

TLA+ models of the parts of Koalafrog HQ in which several callers change shared
rows, TLC configurations that check them on small instances, and theorems about
them whose proofs TLAPS checks for every value of the constants.

The models are written from the SQL functions and the TypeScript that call them.
Source paths below start at `src/`, the root of the repository; a migration is
named by its timestamp, as in `…28150000` for
`src/supabase/migrations/20260728150000_production_inventory_consumption_reconciliation.sql`.

1. [The system](#1-the-system)
2. [What is modelled, and how it corresponds to the code](#2-what-is-modelled)
3. [The runs](#3-the-runs)
4. [The theorems](#4-the-theorems)
5. [Where code and documents disagree](#5-where-code-and-documents-disagree)
6. [What is not modelled](#6-what-is-not-modelled)
7. [Plan](#7-plan)

---

## 1. The system

Koalafrog HQ runs a small cosmetics manufacturer: a React client, a Supabase
Postgres database whose PL/pgSQL functions are the authority over every stock
and quality record, three Edge Functions and a scheduled job around an external
research provider, and a local orchestrator that runs coding agents. The
operational chain is

    procurement -> receiving and quarantine -> quality release -> raw-material lots
      -> production (reserve, weigh, consume, reconcile) -> production output
      -> packaging run -> finished goods lot (quarantine) -> quality release
      -> active finished goods inventory -> traceability -> recall readiness

Each arrow is a hand-over through rows: the next component reads, and locks,
rows the previous one wrote. The client is never trusted with a quantity; every
command carries an idempotency key and, mostly, the revision its author read.

### 1.1 Components

| Component | State it keeps | Operations | What makes it correct |
|---|---|---|---|
| **Production inventory control** (`…28140000`, `…28150000`, `…28160000`) | reservations, allocations, weighings, consumptions, waste, returns, reconciliations, the movement ledger, status and revision of a batch | reserve, release, plan weighing, weigh, consume, return, reconcile, complete, abort | no quantity promised twice; reservation, allocation, records and ledger agree; a batch that ended holds nothing; closed rows stay |
| **Procurement background research** (`20260723213000`, `20260724064750`, `20260724124819`, `20260816042422`, the three functions under `src/supabase/functions/procurement-live-research*`) | job, operation, webhook inbox, leases | begin intent, start submission, attach, mark ambiguous, reject; claim, reschedule, finalize; store, classify and close an event; expire | the provider is asked once; the result is published once, by an operation still open; everything ends; what ended stays |
| **Production output and yield** (`…28154754`) | output, its measurement and components, the stage | create, measure, record a component, reconcile, complete | unapproved variance never completes; a completed output is fixed |
| **Packaging runs** (`…28170000`) | run, bulk allocation, component reservations, uses, waste, reconciliation | create, allocate, transfer and release bulk, reserve (alone or all together), release, use, waste, reconcile, complete | runs do not share one unit of bulk or of a component; a completed run took its plan and holds nothing; completed history is fixed |
| Receiving, quarantine and release of raw material (`…28100000`, `…28110000`, `…28120000`) | shipments, receipts, inspections, controlled lots | confirm, receive, inspect, release, commit to inventory | a quantity enters inventory once, and only released |
| Purchase planning and orders (`20260727131021` to `…28080000`) | plan, approval, draft order | plan, approve, hand over | an order follows an approved plan |
| **Finished goods lots, inspection and release** (`…28203257`, `20260729043721`) | reconciliation of a run, lots, quarantine with its revision, inspections, deviations, decisions | reconcile packed units, create lot, inspect, open and resolve a deviation, hold, reject, release | lots of a run never exceed what was accepted; every piece is held, undecided, rejected or released, once; nothing leaves quarantine while something speaks against it |
| **Active finished goods inventory** (`20260729054425`) | movements and overlays of a released tranche, operations | transfer, hold and block and their ends, pending damage, four write-offs, correction | stock, write-offs and corrections make up what was released; pieces lie where the locations say |
| Recall readiness (`20260729094510`) | cases, scope, containment | open, contain, close | a closed case is contained |
| Traceability (`20260729065048`) | none of its own | queries | - |
| Platform authority and workspace persistence (`20260729083226`, `src/src/features/formulas/state/FormulaDataContext.tsx`) | receipts of commands, manual movements, batch rows the client saves | append movement, save rows | no movement takes a lot below zero |
| **Agent orchestrator control plane** (`src/tools/orchestrator/src`: `durable-filesystem.mjs`, `queue-claim-store.mjs`, `state-store.mjs`, `repository-runner.mjs`, `orchestrator.mjs`, `control-plane.mjs`) | lease files, the claim file of an instruction, the saved task of an issue, the comments of an issue | take and leave a lease, replace a file durably, claim, settle and complete, begin, run turns, publish, record, retry | one worker an instruction at a time; claim files only move lawfully and survive crashes; a result is posted once and recorded as posted |
| Orchestrator git boundary, app server, launch daemon | child processes | run git, run an agent | - |
| Beard studio and photo analysis | one row a session | analyse, render | - |
| Formulas, products, lab, costing, compliance and other editors | rows of one user | edit | arithmetic under unit test |
| Import, migration and backup scripts | - | one-off data movement | - |

### 1.2 How they interact

* **Shared ledger.** `inventory_movements` is append-only. The balance of a lot is
  a sum over it, computed by controlled consumption, by the older
  `commit_*_consumption` functions, by manual movements and by packaging alike.
  Only the controlled commands look at reservations.
* **Row locks.** A function locks the rows it decides on with `for update`. Two
  functions that take the same pair in opposite orders exist (section 7).
* **Triggers.** Completion and abort of a batch are client updates of one row;
  `production_control_parent_guard_v1` decides whether they pass and cancels what
  the batch still holds. A completed packaging run refuses every later update of
  its row, and that is what stops most late commands.
* **Provider.** The research job is posted once; the answer comes minutes later
  through a webhook, a poll, both, or never. Webhook and reconciler run the same
  processor under a lease kept in the operation's row.
* **Release.** One decision closes a part of a quarantine row and opens a tranche of
  stock with its first movement, in one transaction; from then on the two go separate ways.
* **Files.** Watchers share nothing but a directory: leases are files with an owner, records are
  replaced by a journal, a rename and directory syncs, and whoever finds a journal finishes it.
* **GitHub.** An issue is read, sometimes before its lease is taken, and its comments are the only
  evidence that a result was posted.
* **Browser.** It creates the job, calls the function, and if the answer is lost
  decides from one read of the job whether to fail it.

### 1.3 Where it is hard

The hazards, each at its line, are the `hazards` of `PROJECT.json`. In groups:

* *Two commands after the last quantity.* Availability and capacity are sums over
  rows another transaction may be inserting (reservations, bulk allocations).
* *Stored conclusions.* A reconciliation is computed once, stored, and read much
  later by completion; other commands go on changing what it was computed from.
* *Rows kept in step by hand.* Five handlers write an allocation beside a
  reservation; two counters tell the bulk a run took; one consumption writes up
  to two movements, two records, two counters and two statuses.
* *Late commands* against a batch that ended, a run that completed, an operation
  that was finalized.
* *Read, then wait, then write.* A research worker reads the operation, claims it,
  waits for the provider and concludes; its lease may run out meanwhile.
* *Lost replies* of a posting, of an attachment, of a finalization: each is
  answered by a retry, a fallback or an expiry, and each of these races with the
  original.
* *Early and late webhooks*, before the attachment or after the end.
* *Decisions on what was read.* People inspect and decide from a page; only the revision of the quarantine
  ties a decision to it, and inspections and deviations do not move that revision.
* *Death between two file operations*, of a process or of the machine: a lease marker, a journal, a temporary file or an
  active claim is left behind and the next process must tell it from one that lives.
* *Work taken over*: a turn that still runs at the app server, a packet that was posted but whose answer was lost, a claim
  that was settled by a cycle nobody remembers.
* *Things that must end*: every stored intent, every event without an operation.

---

## 2. What is modelled

| Module | Models | Uses |
|---|---|---|
| `StockPromise` | the abstract promise of the stock of lots, raw material or components: what may be promised, drawn, given up and broken | |
| `RawMaterialControl` | production inventory control, with the lifecycle of a batch and the movements that share its ledger; implements `StockPromise` | `StockPromise` |
| `RawMaterialControl_proofs` | its theorems | `SumTheorems`, `TLAPS` |
| `BackgroundResearch` | the submission, the processor, the inbox, the browser | |
| `BackgroundResearch_proofs` | its theorems | `TLAPS` |
| `ProductionOutput` | the output stage | |
| `PackagingRun` | packaging runs, composed with the output they draw on; implements `StockPromise` | `ProductionOutput`, `StockPromise` |
| `PackagingRun_proofs` | theorems about both | `SumTheorems`, `TLAPS` |
| `FinishedGoods` | lots of a completed run, quarantine, inspection, decisions | |
| `ActiveInventory` | the stock of released tranches, composed with the releases that open it | `FinishedGoods` |
| `FinishedGoods_proofs` | theorems about both | `SumTheorems`, `TLAPS` |
| `SumTheorems` | lemmas on sums over finite sets of rows, of no model in particular | `TLAPS` |
| `FileLease` | the crash-safe lease file of `durable-filesystem.mjs` | |
| `AtomicRecord` | the abstract record: one value that changes in single lawful steps | |
| `DurableFile` | the durable replacement of a file and its recovery; implements `AtomicRecord` | `AtomicRecord` |
| `QueueClaim` | the claim of an instruction: lease, claim file, settling, completion | `FileLease`, `DurableFile`, `AtomicRecord` |
| `TaskRunner` | the watcher's cycle over an issue, on top of the claim | `QueueClaim` |
| `DurableFile_proofs`, `QueueClaim_proofs`, `TaskRunner_proofs` | theorems about the file, about lease and claim, and about the whole | `TLAPS` |
| `MCRawMaterial`, `MCResearch`, `MCPackaging`, `MCFinished`, `MCOrchestrator` | the small instances TLC checks | |

`PROJECT.json` maps each definition to its lines. Operators marked `MUTANT` are
plausible mistakes in the code (a status not looked at, a counter not updated);
nothing of the model uses them. Each stands beside the definition it would
replace, and replacing it breaks the property that watches over it.

### 2.1 RawMaterialControl

**State.** `batch` (status, revision, yield recorded), `lot` (active, released),
`ledger` (the sum of the controlled movements and of the others), `reservation`
(the `inventory_reservations` row with the status of its
`batch_material_lot_allocations` row), `weighing`, `use` (the consumption and waste
rows one command wrote), `recorded` (keys of releases, returns and
reconciliations), `reconciliation` (one a requirement).

**Actions.** One for each function: `Reserve`, `Release`, `PlanWeighing`, `Weigh`,
`Consume`, `ReturnStaged` and `ReturnConsumed` (the two branches of
`return_batch_material`, which touch different rows), `Reconcile`; the client's updates of the batch with
the trigger's part: `RecordYield`, `Advance`, `Complete`, `Abort`; and what happens
around: `CommitUnreserved`, `AppendMovement`, `SetLotActive`, `LapseRelease`.
`ControlledSpec` leaves these last four out: it is the world in which everyone
uses the controlled commands.

**Why one command is one action.** Each function is one transaction and locks
what it decides on: reserving locks batch and line, then the lot; consuming and
returning lock the reservation, its allocation, the lot (and the batch); release
locks reservation and allocation; weighing locks the reservation, then the lot.
Two places read without a lock:

* Weighing reads the batch's status unlocked. An abort has to wait for the
  reservation row it holds, and completion requires that no reservation of the batch is
  open, so the serial order weigh-then-end is the one that shows.
* `Reconcile` locks batch and line, but sums five tables in separate statements,
  each with its own snapshot. A torn sum needs a command to run between the
  statements; such a command needs an open reservation, so a non-zero remaining
  quantity is read and the row is recorded with `settled = FALSE`, which
  completion never accepts. The model has the state of one instant instead.

Completion readiness is one statement with one snapshot, and the update of the
batch row it guards is conditional on the row's `updated_at`, which every
reservation changes.

**What is not a step.** A rejected command changes no row. A retry under a recorded
key finds its row and returns it. Two commands under one key race on a unique
index and one fails. The revision a caller expects is any revision the row ever
had: the guard decides.

**Abstractions.** Quantities are whole units of the lot's unit (conversion is
arithmetic under unit test). The ledger is a sum. Events, costs, reasons' texts and
actors are left out; a reason is `missing`, `given` or `approved`.

### 2.2 BackgroundResearch

**Processes.** `client[j]`, the browser of a job; `call[c]`, a delivery of the
submission request, with a program counter at each database call (`begin`,
`start`, `post`, `attach`, `mark`, `reject`, ...); `worker[w]`, a webhook call or a
reconciler run (`inbox`, `store`, `insert`, `lookup`, `claim`, `decide`, `conclude`,
`remark`, `retryEvent`); the provider; the owner, who may cancel at any moment.

**Rows.** `job`, `operation` (state, response, consecutive retrieval failures, lease,
code, whether it is past its thirty minutes), `inbox` (state, whether its fifteen
minutes passed).

**One database function is one action**, as it is one transaction; between two of a
process any other process may run. That a function was carried out and that its
caller knows are two things: the outcome of each call is `ok`, `failed` (nothing
happened) or `unanswered` (it happened, the caller does not know). Whatever is not
`ok`, and any crash, stall or redelivery, spends one of `MaxFaults` faults. Failed retrievals
are not faults: the code has its own budget for them.

**Abstractions.** A response of the provider and its one webhook event are named by
the call that created it. Due times are left out: a worker may look at an
operation at any time, a superset of the schedule. The daily limit refuses or not. `partial` is merged with
`completed`. The content of prompt and result, diagnostics and
lifecycle labels are left out. A worker that starts again has a fresh identity (`FreshName`),
as the code draws a UUID.

**Timing assumption.** No Edge Function call is delivered, or is still running, thirty minutes
after the intent it is about (`GrowOld` and `Deliver`). The platform ends calls within minutes.
A lease runs out under a worker that is still alive only if it stalled, so that costs a fault.

### 2.3 ProductionOutput and PackagingRun

**State.** `output` (status, measured quantity, components, variance approved), `stage`;
`run` (status, transferred), `bulk` (the allocation), `reservation`, `balance` of a
component lot, `accounted` (the sum the latest reconciliation accounted for).

**Actions.** `CreateOutput`, `Measure`, `RecordComponent`, `ReconcileOutput`,
`CompleteStage`; `CreateRun`, `AllocateBulk`, `ReleaseBulk`, `TransferBulk`, `Reserve`,
`ReserveAll`, `ReleaseReservation`, `UseComponents`, `ReconcileRun`, `CompleteRun`; and
`OtherMovement`, the manual and older movements of the same lots.

**Atomicity.** Every function locks the row it decides on: output functions the output,
`AllocateBulk` run and output, `Reserve` run and lot, uses and releases the reservation, the run
and the lot, completion the run, the output and the reservations. Most functions do not test
whether the run is completed; they update its row, and
the row's trigger refuses. In the model that is the guard `Writable`.

`ReserveAll` is the atomic request: it locks one run, and its candidates are
requirements, whose run is compared by revision alone. So a candidate may belong to
another run, and the model lets it. Two candidates stand for any number: the second already
sees what the first one wrote.

**Abstractions.** Labels the code never decides on are merged: planned, reserved, in progress and
reconciled runs are `open`; active and partly transferred allocations are `open`; active and partly used
reservations are `open`. `cancelled` is written by no function and left out. The component
`transferred` of the output equation stands with `bulk_waste`, on the same side. A
zero component is an absent one. The reconciliation's split is its sum. Whether a lot
is active and a specification approved is asked once, at the reservation, and free.

### 2.4 FinishedGoods and ActiveInventory

**State.** `packed` (completed packaging runs), `accepted` (of a run's latest reconciliation), `lot` (quantity, whether its
expiry date lies ahead), `quarantine` (released, rejected, held, remaining, revision), `passed` and `blocking` (what the release
readiness computes from inspections and deviations), `seen` (the quarantine rows as each person read them last), `tranche` (the quantity a
release opened). For the stock: `home`, `at` (balance by location), `onHand`, `overlay` (held, damaged), `writeOff` (each negative movement and how much of
it was corrected).

**Actions.** `FinishPacking` stands for the completion `PackagingRun` models. `ReconcilePacked`, `CreateLot`, `Inspect`, `OpenDeviation`,
`ResolveDeviation` are one function each; `Hold`, `Reject`, `Release` the three decisions of `record_finished_goods_disposition_v1`; `Read` is
a person's reading of the quality workspace, `Expire` the date. `Transfer`, `RestrictStock`, `LiftHold`, `WriteOffDamage`, `WriteOffOther`, `Correct` are the
branches of `record_finished_goods_inventory_operation_v1`; `ReleaseToStock` is `Release` with the tranche and opening movement it inserts.

**Atomicity.** Reconciliation and creation lock the run; inspections, deviations and decisions lock the quarantine row; an inventory
operation locks the tranche before it computes its snapshot and demands the current revision (the number of operations), so the model leaves that
revision out: what is decided is decided on the tranche as it is. The quarantine's revision stays, since decisions move it and inspections do not.

**Abstractions.** Any outcome but a pass with its evidence blocks alike, so `passed` is a set of checks. `block` is `hold` by another name; loss,
destruction and negative adjustment differ in name only. Genealogy is present (the creation writes it). The reconciliation's other parts (rejected, damaged, samples) feed nothing and are left out.
A correction counts at the source location the request happens to carry, as the snapshot does (section 5).

### 2.5 The orchestrator: FileLease, DurableFile, QueueClaim, TaskRunner

**FileLease.** The steps of `acquireCrashSafeFileLease` and its release: take the advisory guard of a helper process, clear the markers of owners that
are gone, refuse or write one's own, leave. A process may die at any step, its helper may outlive it, the machine may lose power and keep the
markers. `Removable` is `leaseOwnerDecision`: only a marker whose owner is provably gone may go. That a helper dies between the check that it still holds and the
unlink that follows is not modelled.

**DurableFile.** A directory with the file, its temporary, the journal's candidate and the journal, each entry as a reader sees it and as a loss of power
might leave it. Every publish, link, rename, sync and unlink of `durableAtomicWriteFile` and `recoverDurableFileReplace` is a step that may fail or be the last one.
Names and contents are values; `AtomicRecord` is what callers may rely on: one value, changed once, lawfully, and told only after it lasts.

**QueueClaim.** `job[p]` is where a process is in `withClaim` or `completeClaimFromDurableTerminalResult`: taking the issue, the instruction's lease, reading and recovering the claim file, activating
the record, working, settling. The record's law is `validQueueTransaction`, branch by branch. The lease of the *issue* is modelled by its holder alone (it is the lease
of `FileLease` again), the lease of the *instruction* in full. Back-off may always be running or over.

**TaskRunner.** `task[i]` is the saved state of an issue's task (phase, outcome, recorded runs, retry mark, turns, last observation), `server` the app server's view of the turn,
`posted` the packets among the comments, `late` the packets sent by a caller that no longer waits, which may land yet, `mem` what a process remembers of its cycle. The actions follow `runRepositoryIssue` and `runOnce`: `Fetch`, `OpenIssue`, `AskToComplete`, `AskToClaim`,
`Begin`, `Thread`, `StartTurn`, `NoteTurn`, `Await`, `Recover`, `Pack`, `Post`, `Land`, `LandLate`, `PostedBefore`, `Record`, `Observe`, `Fail`, and the retry somebody allows by hand (`AllowRetry`). A save of the task is one
step (done, failed or left pending). A post is two: `Post` hands the request to the child process that carries it out (`app-server.mjs:739-762`), `Land` adds the comment while the
caller waits. Nothing cancels a request that was sent: a caller that reaches its 120 seconds only forgets it, one that dies leaves it with the child or with GitHub. So whoever fails, stops
or dies between the two leaves the packet in `late`, and `LandLate` may add it at any time, or never; `landed` tells these comments apart. One instruction; it may be carried by two issues.

---

## 3. The runs

Passing runs finish within about three minutes each; sizes are distinct states.

| Run | Instance | States | Question |
|---|---|---|---|
| `raw_flow` | `Spec`; one batch, one line, one lot of 2; 2 reservations, 2 weighings, 2 consumptions, 1 release, 1 return, 1 reconciliation; unreserved movements and lot edits beside them | 657,100 | do rows, allocations, ledger and batch state stay consistent, and does every step keep the promises of `StockPromise`? |
| `raw_stale` | `ControlledSpec`; the same batch and lot, three weighings, one reconciliation | violation | finding 1 |
| `research_flow` | one job, two submission calls, one reconciler, one webhook call, two faults | 1,771,613 | one posting, lawful publication, endings that stay |
| `research_live` | `FairSpec`; one job, one call, one reconciler, one webhook call, one fault | 177,840 | does everything end? |
| `research_browser` | one call, one fault | violation | finding 2 |
| `research_budget` | two reconcilers, no fault | violation | finding 3 |
| `packaging_flow` | one output, two runs (plans 2 and 1) sharing it, one lot of two components, one needed by each run, two reservations | 908,283 | no sharing of bulk or components, completed history fixed |
| `packaging_stale` | the same | violation | finding 4 |
| `finished_flow` | one run, two lots of it, two releases of the first; two people, one check, one deviation; two locations, two write-offs a tranche | 754,626 | is every piece accounted for from the packaging run to its write-off? |
| `orchestrator_flow` | two processes, one instruction two issues carry, one of them read under its lease; one fault | 614,098 | one worker, lawful claim file, results posted and recorded once, through any one fault |
| `orchestrator_publication` | the same instance | violation | finding 5 |
| `orchestrator_late` | the same instance | violation | finding 6 |

### 3.1 What they show

**raw_flow.** `ReservationEquation`: consumed, wasted, released and remaining add up and a row is
closed exactly when empty. `AllocationFollowsReservation`: the allocation ends as the
reservation does, though a partial release changes only one of them.
`LedgerMatchesRecords`: the movements, the consumption and waste rows and the
counters tell one story, lot by lot, and physical returns, allowed in any batch state,
never bring back more than was drawn. `ClosedBatchHoldsNoStock`. `ClosedReservationFrozen`.
`SettledVarianceFixed`: once a requirement holds nothing, its unexplained variance moves
only if something new is reserved. This is the part of "a reconciliation stays true" that the code does
keep; finding 1 is the rest.

`KeepsStockPromises`: with lots as stocks and what reservations still hold as promises, the whole model
implements `StockPromise`. Of two reservations after the last quantity one wins; no command promises more than is there; consumption, waste,
release, return and cancellation never leave a promise without its stock; only a movement from outside the controlled commands may, since
the older paths do not look at reservations. `BalanceNeverNegative` holds beside all of them.

**research_flow.** `AtMostOnePosting`: however often the request is delivered, whichever call crashes.
`PublicationLawful`: a result is published once, from a response the provider completed, by an
operation not ended, for a job still running. `OutcomeAgrees`: the owner's job and
the internal operation tell one story at the end, and the recorded code is true: a rejection is of a submission
with no response, an ambiguity of one never attached. `EndingsFixed`: late workers, second calls and repeated
events change nothing of an operation that ended or an event that was closed. `EventsClosedForCause`: an event is dropped
only when its operation ended, or rejected only after its grace period.

**research_live.** `OperationsEnd`: every stored intent reaches a terminal state, also when a
crash leaves it submitting, ambiguous or leased. `UnmatchedEventsExpire`.

**packaging_flow.** `BulkWithinRetained`, `KeepsComponentPromises`: two runs after the last bulk or
the last component, one loses, in the atomic request too; with component reservations as promises, packaging implements `StockPromise`. `VarianceApproved`:
no output completes with variance nobody approved, however often its stage is reopened.
`CompletedRunAccounts`, `CompletedRunPacked`: a completed run took its plan, its two counters agree, it
holds nothing, and packed what it needs in productive use (waste does not count). `CompletedOutputFixed`, `CompletedHistoryFixed`.

**finished_flow.** `GoodsAccounted`: lots never hold more than the run accepted, also when two are made at once or the reconciliation is corrected in between, and
tranches make up what was released. `QuarantineEquation`: holds, rejections and releases that follow each other on the same pieces, the held ones
taken first, keep every piece in one place. `DecidedOnCurrent`: whoever decides has read the row as it is. `StockAccounted`: locations make up the stock, stock and net write-offs make up what was released,
no order of partial corrections makes stock, and nothing is restricted that was never released or was written off as damaged.

**orchestrator_flow.** `OneHolder`: a lease has one holder. `WorkIsClaimed`: whoever is at work has its own active record lastingly behind it. `OneOrigin`: an instruction begun
under one issue is not claimed for another, in any state a loss of power could leave. `KeepsLedger`: the claim file implements a record that only moves along
`validQueueTransaction`. `CompletedRan`: a completed claim has a recorded run of the instruction. `LeasedPostedOnce`: on an issue read under its lease, of the posts
of a packet that land while their caller waits there is one, through crashes, takeovers and posts given up that land in between (finding 6 is about those). `RunsPublished`: what is recorded was
published with the same outcome. `NoTurnOverlap`: no turn starts while the one the task names runs.

### 3.2 Bounds, and why they are enough

* *Quantities up to 2, lots of 2, tolerance 0.* One unit distinguishes nothing partial;
  two let a reservation be partly consumed, partly released, and let two owners compete for the last unit. Zero tolerance makes
  every variance one outside tolerance.
* *Keys.* A key is one command that succeeds. Two reservations, two weighings and two
  consumptions let each pair of commands meet in both orders on the same and on different rows. `raw_stale` takes a third
  weighing because its violation needs a planned and two actual ones.
* *MaxBalance 1* keeps manual adjustments from raising a lot without end; they may bring it back to one unit after it was emptied.
* *One batch.* Its two reservations compete for the lot as those of two batches would: what is available is computed lot by lot and never looks at the batch. The theorems hold for any
  number of batches.
* *One job, two calls.* Jobs share only the daily limit, which refuses freely. Two calls are the least that can post twice.
* *One reconciler and one webhook call* in `research_flow` are two workers on one operation. A second
  reconciler is what `research_budget` adds. Each starts over as often as it likes.
* *MaxRetrievalFailures 2* (the code's constant is 4), *FailureCap 2* (100), *AttachAttempts 1* (3): the least at
  which the first and the last attempt differ, or one suffices to fail.
* *MaxFaults 2* lets a second fault hit the recovery from the first. `research_live` has one: its state graph is
  searched for cycles, and a fault is a finite disturbance anyway.
* *ProviderEnds* are `completed` and `cancelled`: one to publish, one to fail on. The others take the second's path.
* *Two packaging runs with plans 2 and 1* over a retained quantity of at most 2 cannot both be allocated in full.
* *Two lots of one run, two releases of the first* are what two conversions and two partial decisions need; quantities up to 2 let a release take
  part of what is held. Two write-offs a tranche let a correction meet the wrong basis. Two people are the least who can decide on one reading.
* *Two processes, two issues, one fault*: a second process finds what the first left. One fault is a crash, a loss of power, a failed or pending write, a post given up or
  a shutdown at any step; the theorems of section 4.6 hold for any number.

Symmetry is declared over idempotency keys, submission calls, people, tranches, locations and write-offs, which no action tells apart, in runs with safety properties only.

Deadlock checking is off for the material, research and finished goods runs: keys and faults run out, operators and browsers need not act, and a finished system stops. It is on in
the orchestrator runs, where a watcher can always read the issue once more.

### 3.3 Fairness

`FairSpec` of `BackgroundResearch` assumes weak fairness of

* the steps of a submission call and of a worker: a running call goes on or is ended by its platform (that it dies is a fault,
  after which nothing is owed);
* a reconciler run that reads what is due and expires unmatched events: the reconciler is made to be called every minute
  by one cron job, whatever became of earlier runs (`src/docs/adr/PROCUREMENT_BACKGROUND_RESEARCH_DURABILITY.md`, "Scheduler").
  The runbook says that job is installed at deployment, not by a migration: without it nothing ends
  an operation whose webhook is lost, and the liveness results do not apply;
* lease expiry, the thirty minutes and the fifteen: time passes;
* the provider ending what it accepted (external).

Nothing is assumed of the browser, of the owner or of webhooks: work ends when no webhook ever comes.

The material models state no liveness. Their steps are decisions of people, none of whom has to act: a batch
or a quarantine may wait for ever. Nor does the orchestrator: a retry interrupted after it was begun is refused ever after (section 5), an
instruction whose turns are spent waits for a person, and a watcher owes no further cycle. What may block a *database* command, a cycle of row locks, is below their grain (section 7).

---

## 4. The theorems

All proofs are complete, down to the last leaf, and hold for any sets of batches, requirements, lots,
outputs, runs, keys, tranches, jobs, calls, workers, persons, processes and issues, and any bounds. Every safety property of a passing run, invariant, action
property or refinement, is a theorem. The constants' assumptions are the only hypotheses, and TLC evaluates them on every run:

* a requirement belongs to a batch and has a set of lots, a run has an output and a positive plan, a requirement a run, a lot a run, a tranche a
  lot; opening quantities, tolerances and bounds are natural (`RequirementAssumption`, `QuantityAssumption`, `OutputAssumption`, `PackagingAssumption`, `GoodsAssumption`,
  `BoundsAreNatural`, ...);
* the sets of rows that are summed over are finite: the keys of reservations, weighings and uses (`KeyAssumption`), runs, lots and tranches, locations and write-offs
  (`StockAssumption`). Tables are. Batches, requirements, outputs, calls, processes and the like may be infinitely many.

| Theorem | States | Property also checked by |
|---|---|---|
| `RawMaterialControl_proofs!TypeCorrect` | `Spec => []TypeOK` | `raw_flow` |
| `ReservationsAddUp` | `Spec => []ReservationEquation` | `raw_flow` |
| `AllocationsAgree` | `Spec => []AllocationFollowsReservation` | `raw_flow` |
| `EndedBatchesHoldNothing` | `Spec => []ClosedBatchHoldsNoStock` | `raw_flow` |
| `ClosedReservationsStay` | `Spec => ClosedReservationFrozen` | `raw_flow` |
| `BalancesStayNatural` | `Spec => []BalanceNeverNegative` | `raw_flow` |
| `LedgerAgrees` | `Spec => []LedgerMatchesRecords` | `raw_flow` |
| `SettledVarianceStays` | `Spec => SettledVarianceFixed` | `raw_flow` |
| `StockPromisesKept` | `Spec => KeepsStockPromises` | `raw_flow` |
| `ControlledPromisesBacked` | `ControlledSpec => []PromisesBacked` | |
| `BackgroundResearch_proofs!ResearchTypes` | `Spec => []TypeOK` | `research_flow` |
| `PostedOnce` | `Spec => []AtMostOnePosting` | `research_flow` |
| `PublicationsLawful` | `Spec => PublicationLawful` | `research_flow` |
| `OutcomesAgree` | `Spec => []OutcomeAgrees` | `research_flow` |
| `EndingsStay` | `Spec => EndingsFixed` | `research_flow` |
| `EventsHaveCause` | `Spec => []EventsClosedForCause` | `research_flow` |
| `PackagingRun_proofs!PackagingTyped` | `Spec => []TypeOK` | `packaging_flow` |
| `CompletedOutputsStay` | `Spec => CompletedOutputFixed` | `packaging_flow` |
| `VarianceStaysApproved` | `Spec => []VarianceApproved` | `packaging_flow` |
| `CompletedRunsStay` | `Spec => CompletedHistoryFixed` | `packaging_flow` |
| `CompletedRunsAccount` | `Spec => []CompletedRunAccounts` | `packaging_flow` |
| `BulkStaysWithin` | `Spec => []BulkWithinRetained` | `packaging_flow` |
| `ComponentPromisesKept` | `Spec => KeepsComponentPromises` | `packaging_flow` |
| `CompletedRunsPacked` | `Spec => []CompletedRunPacked` | `packaging_flow` |
| `FinishedGoods_proofs!GoodsAlways` | `Spec => []GoodsInv` | |
| `QuarantineAddsUp` | `Spec => []QuarantineEquation` | `finished_flow` |
| `DecisionsAreCurrent` | `Spec => DecidedOnCurrent` | `finished_flow` |
| `GoodsAreAccounted` | `Spec => []GoodsAccounted` | `finished_flow` |
| `StockTypes` | `Spec => []TypeOK` | `finished_flow` |
| `StockIsAccounted` | `Spec => []StockAccounted` | `finished_flow` |
| `QueueClaim_proofs!LeaseExcludes` | `LeaseSpec => []OneHolder` | `orchestrator_flow` |
| `DurableFile_proofs!AnswersAreLasting` | what the file answers with lasts | |
| `FileImplementsRecord` | the durable file implements `AtomicRecord` | |
| `TaskRunner_proofs!RunnerAlways` | `Spec => []RunnerInv` | |
| `RunnerExcludes` | `Spec => []OneHolder` | `orchestrator_flow` |
| `RunnerOneOrigin` | `Spec => []OneOrigin` | `orchestrator_flow` |
| `RunnerWorksClaimed` | `Spec => []WorkIsClaimed` | `orchestrator_flow` |
| `RunnerPostsOnce` | `Spec => []LeasedPostedOnce` | `orchestrator_flow` |
| `RunnerPublishes` | `Spec => []RunsPublished` | `orchestrator_flow` |
| `RunnerNoOverlap` | `Spec => NoTurnOverlap` | `orchestrator_flow` |
| `RunnerKeepsLedger` | `Spec => KeepsLedger` | `orchestrator_flow` |
| `RunsAlways` | `Spec => []RunsInv` | |
| `RunnerTypes` | `Spec => []TypeOK` | `orchestrator_flow` |
| `RunnerCompletesRan` | `Spec => []CompletedRan` | `orchestrator_flow` |

### 4.1 Sums over rows

Half of the properties compare a column with a sum over a table. The models write such a sum with `SumFunctionOnSet` of the library, whose value is the fixed point
of an iteration over the set. `SumTheorems` derives from that definition what the proofs use:

* `SumIsTotal`: the sum of a finite set satisfies the equation it is defined by. A function with that equation on all subsets exists (`TotalsExist`, by
  induction on cardinality, as a set of natural numbers without a least element is empty), and two of them agree.
* `SumTake`: the sum does not depend on the element taken out first. From it `SumAdd`, `SumSame`, `SumUpdate`, `SumChange`, `SumMonotone`, `SumSubset`, `SumUnion` and `SumGrow`: what a
  sum is after one row is added, changed or closed.

Induction over sets is one lemma, `SubsetInduction`: a *set* of subsets to which T belongs whenever every T less one element does has every subset. A set as a parameter, where
the library's induction theorems have an operator, is something the provers can instantiate.

### 4.2 Raw material

The inductive invariant is

    IInv == TypeOK /\ RowsOK /\ ClosedBatchHoldsNoStock

`RowsOK` says of every row what `ReservationEquation` and `AllocationFollowsReservation` say together. Each
needs the other parts:

* The parts of a row add up in the naturals only if the quantity taken is at most the remaining one, which the
  guards say, and if quantities are natural, which `TypeOK` says.
* An abort closes the rows `OpenReservations` finds by status; that these are all the rows with a remaining
  quantity is the equivalence *remaining = 0 iff closed* of `RowsOK`. Without it `ClosedBatchHoldsNoStock` is not inductive.
* A batch that ended is entered by no reservation (the status guard of `Reserve`) and left by none of its
  transitions, so the invariant survives the commands that remain allowed after the end: releases and returns.

The proof writes what each command does to a row as an operator (`Released`, `Consumed`, `ReturnedStaged`,
`Cancelled`) with one lemma on its type and one on the equation; `StepCases` reduces `Next` to the steps that
touch batches or reservations. `ClosedReservationsStay` follows from the same invariant: a command needs a
positive quantity in the row, a closed row has none. Physical returns write the lot's ledger and never the reservation.

`BalancesStayNatural` has an induction of its own: consumption and waste check the movement
balance in the transaction that moves it, so do the older commitments and manual movements, returns only add. It holds for
`Spec`, movements that ignore reservations included.

Sums have an invariant of their own on top of the types:

    Linked         == weighings and uses name a reservation that exists; a use gave back no more than it drew productively
    RecordsAgree(l) == the lot's controlled movements are the sum over its uses; the uses' sum is the sum of the counters of
                       the reservations on the lot
    LedgerInv      == TypeOK /\ Linked /\ \A l \in Lot : RecordsAgree(l)

`LedgerCases` reduces a step to a reservation made, a use written, a return or none of them, each an effect on the tables; a use belongs to one lot only through its reservation,
which is why `Linked` is needed. `SettledVarianceStays` rests on the same cases: a weighing or a use needs an open reservation of its requirement, a late
return changes what came back after consumption, which the variance does not count.

`StockPromisesKept` is the refinement of `StockPromise`, under the mapping lot to stock and the sum of what open reservations hold to promise (the mapping is a sum, so `MakePromises`,
`UsePromise` and `GiveUp` come down to `SumGrow`, `SumChange` and `SumMonotone`). `ReservePromises` is its heart: `Available` as the code computes it is stock less promise, so a promise is covered when it is made.
`ConsumePromises` shows that stock leaves with exactly the promise it was held under; a return or a movement that ignores reservations is a `Move`, the only step that
may leave a promise without its stock. An abort may give up promises on every lot at once. `ControlledPromisesBacked` is the converse: with controlled commands only (`ControlledCases`), a movement
without a promise is a return, which brings stock back (`BringsBack`), so no promise is ever broken and a reservation can always be consumed.

### 4.3 Background research

    CallOrder(c)      a call posts only once, and only for a job whose browser had sent; it attaches only what the provider created
    OneSubmitter(j)   of the calls of a job one at most is at, or past, its posting
    SubmissionKnown(j) and then the operation has left intent_created
    OperationOrder(j) an operation has the response of a call of its own; an old one has no call in flight; one that ended without response gets
                      none, holds no lease, and only an ended one has published
    Outcome(j)        OutcomeAgrees, for one job
    EventOrder(r)     an event tells of a response that ended, and is closed for a cause
    WorkerOrder(w)    what a worker remembers stays true, and what it means to conclude with was true when it decided and still is
    ResearchInv       == TypeOK and these, for all

`PostedOnce` is the compare-and-set of `start`: it leaves `intent_created`, so a second call cannot pass while a first has, and `SubmissionKnown` says the state does not come
back. `OutcomesAgree` is not inductive alone: a worker that decided before the row changed may conclude after it. What saves it is that each of its
reasons *lasts*: a response once attached is never replaced, a provider's end is final, an operation without a response that grew old has no call left that could attach one. `WorkerOrder` and
`OperationOrder` say just that; that no call outlives the thirty minutes (the timing assumption of 2.2) enters here and nowhere else. `EndingsStay` needs that every
function tests the state it finds, not the one its caller read. Each action has a lemma on types, one on the order of calls and operations and one on outcomes.

### 4.4 Output and packaging

    AllocationOK(p)  == the run's counter and the allocation's agree, and the allocation's status tells
                        how much of it was transferred
    CompletionOK(p)  == a completed run has a transferred allocation and no open reservation
    IInv             == TypeOK /\ \A p \in Run : AllocationOK(p) /\ CompletionOK(p)

Completion reads a *status* and its own *counter* and never compares the allocation with the plan unless the allocation is still
open. What rules out that it completes on an allocation released before anything was transferred is the
link between the two: released means nothing transferred, the counters agree, and completion requires a positive counter.
So `AllocationOK`, of which no code path is reminded, is what the proof of `CompletedRunsAccount` rests on.

`CompletedRunsStay` comes from two lemmas about every step. `ReservationSteps`: it changes only reservations whose run is open,
never the requirement a row belongs to, and adds rows of open runs only, the atomic
request over several runs included. `RunSteps`: it changes a run, its bulk or its reconciliation only if the run is open or new.
`CompletedOutputsStay` and `VarianceStaysApproved` are about output commands; the composition is an interleaving in which packaging
leaves outputs alone, so one lemma (`OutputScope`) carries them over.

*Bulk*: `RunsBacked` (a run with an allocation exists, and a run's output is completed, hence fixed by the lemma before) and `BulkCovered` (the plans of the runs that draw on an output sum to at most what it
retained). An allocation adds one run to the sum and checks it; every other step leaves the set of drawing runs or shrinks it. *Components*: packaging implements `StockPromise` as raw
material does. A row's rewriting moves only its own share of the sum (`RewritePromises`). A new
promise is covered although no row is compared with the others, since `Reserve` checks the whole sum. The atomic request writes two rows, and the second check must see the first row:
the proof takes them one after the other, and makes one `MakePromises` of both. `UsesWithin` (no row uses more than it reserved) is what keeps an open row's part of the sum from going negative. *Packed*: completion compares sums of uses with
needs; that they stay is `CompletedRunsStay` and `SumSame`.

### 4.5 Quarantine and stock

    ReadingsTrue == a lot not made yet has an empty quarantine; nobody has read a later revision than the row
                    has, nor another row under the revision it has
    GoodsInv     == GoodsTypeOK /\ QuarantineEquation /\ ReadingsTrue

`QuarantineEquation` needs the types and the guards only, but it needs `HeldAfter`: the held quantity must shrink with what is
taken, or it outgrows what remains. `DecidedOnCurrent` needs `ReadingsTrue`, which is inductive because every write of the row takes a fresh
revision and creation starts at one, above the zero of whoever has read nothing. `StepsOfGoods` reduces a step of the composition to a step of the goods, a
release or one that leaves them alone; `DecisionKeeps` is the one lemma behind the three decisions.

*Accounted*: a creation adds one lot to its run's sum under the check, a reconciliation writes `accepted` only while the run has no lots (`RunsCovered`); a release adds its quantity to both sides of
`ReleasesAddUp`. *Stock*:

    CorrectedWithin == no write-off was corrected by more than its amount
    StockInv        == GoodsInv /\ TypeOK /\ StockAccounted /\ CorrectedWithin

The parts need each other: that the stock of a tranche stays natural follows from no guard, as a write-off is compared with one location only, but from the
equation *stock = sum of the locations*, and the reverse needs the types of all locations. A correction adds to stock and location and takes as much from what its write-off still owes, which must not go below zero.

### 4.6 The orchestrator

    LeaseInv   == the guard and the marker belong to whom the phases say
    FileInv    == what is on the disk, as seen and as it may survive, agrees with the step each process is at
    ClaimInv   == LeaseInv /\ FileInv /\ JobTyped /\ Coupled /\ Activated
    RunnerInv  == ClaimInv /\ Shaped /\ (\A i : IssueInv(i)) /\ (\A p : ProcInv(p))

The lease excludes because a marker is removed only when its owner is provably gone and only under the guard. The file
implements its record because at any moment all the directories a loss of power could leave agree on the value (`Agreed`), or they are the two sides of one
lawful write that nobody has been told about. On top of both, `Coupled` ties where a process is in its claim to how far it is with the lease, so only the holder
writes, and `Activated` says that its record lasts before the callback runs. `IssueInv` and `ProcInv` carry this to the comments: on an issue read under its lease the
comments a process has read are all there are, but for those that landed late, until it posts, so a packet that is there when the lease is taken is found. That is the step which fails for the
other issues (finding 5). A post under way counts as a sign that the instruction was begun (`Begun`, `Adrift`): its late landing needs no process and no lease, so the claim file must speak of its issue already when it
is sent (`LeftBehind`). `RunnerPostsOnce` is about posts that land while their caller waits; for late ones it is false, and finding 6 shows it. `Originated` is closed under
`validQueueTransaction`, which is why a crash or another issue cannot take a begun instruction over.

`CompletedRan` and the bounds of `TypeOK` (at most two runs of an instruction, turns within the budget) take a second invariant on top:

    Earned        the claims that are not completed, or whose instruction ran
    RunsInv    == every value the file, its journal or its temporary may turn out to hold is in Earned
                  /\ (\A i : TaskBound(i)) /\ (\A p : JobEarned(p) /\ ProcBound(p)) /\ faults within their bound

A completed record is written by one cycle and believed by the next, after any crash, so it is not enough that the *current* record is earned: so must be what a journal would restore
(`ValuesKept` of `DurableFile_proofs`: a file holds only values that were there or that somebody asked to write) and the record a deferred retry gives back (`JobEarned` of its base). That the task's `runs` only grow
makes `Earned` only grow. `ProcBound` says that a process on its way to a run has at most one behind it; it was found not inductive for a process that settles until it said that whoever settles has a
result. Steps are described by what they make of a task and a stage (`Turned`, `Reached`, `Stepped`), so that each action is looked at once.

Three facts are carried between instances: `DurableFile` is instantiated by `QueueClaim` for the claim file and by the proofs once more, and `SameInv`, `SameLasting`, `SameNext` identify the two.

### 4.7 Left to the model checker

* *Liveness and `ENABLED`*: `OperationsEnd`, `UnmatchedEventsExpire` of `research_live`. Fairness speaks of `ENABLED`, which the provers cannot expand.
* *Recursion over data*: no module declares a `RECURSIVE` operator, and the one iteration used, the library's sum, is dealt with in 4.1.
* *The runs that end in a violation*, which refute what a document says (section 5).

---

## 5. Where code and documents disagree

Each is a run that ends in a counterexample. The statement is the document's, the behaviour the code's.

1. **A batch completes with a variance nobody reviewed** (`raw_stale`, `CompletedVarianceReviewed`).
   `src/docs/PRODUCTION_INVENTORY_CONTROL.md:51`: "Variance outside tolerance requires a reason and approval
   state." Completion (`…28160000:85-126`) reads the recorded reconciliation, which nothing clears. In the trace
   a requirement is reconciled before anything is reserved for it, with no variance and nothing remaining; then its material is reserved, weighed twice and one of the
   weighings consumed: the weighed sum has moved, the row still says reconciled.
2. **A browser ends accepted work** (`research_browser`, `AcceptedWorkSurvivesBrowser`).
   `src/docs/adr/PROCUREMENT_BACKGROUND_RESEARCH_DURABILITY.md:24`: "The browser cannot terminalize an accepted
   operation because an HTTP response was lost." The browser decides from one read of the job
   (`src/src/features/procurement/services/liveProcurementProvider.ts:32-38`); if that read fails, or comes before the gate is consumed,
   it fails the job, and the provider's result is discarded later.
3. **A budget that was reset is spent** (`research_budget`, `BudgetSpentBeforeExpiry`). The decision record, lines 99-100: only consecutive failures end
   an operation, "A successful `queued` or `in_progress` poll resets that failure budget." The processor compares the count its caller read before the
   claim (`src/supabase/functions/_shared/procurementBackgroundProcessor.ts:51`); two overlapping reconciler runs end an operation right after a reset.
4. **A packaging run completes on a reconciliation made before its last transfer** (`packaging_stale`, `CompletedRunReconciled`).
   `src/docs/PACKAGING_RUN_PLANNING_AND_CONTROL.md:72` and `:76` against `…28170000:863-873`, which looks only at the latest
   reconciliation's state, always `reconciled`.
5. **A result is posted twice** (`orchestrator_publication`, `ResultPostedOnce`).
   `src/docs/agent-orchestration/CONTROL_PLANE.md:479-481`: a persisted `result_pending` packet or an existing result "is never posted twice." An issue that is
   not read under its lease is read first and leased later (`src/tools/orchestrator/src/repository-runner.mjs:1258-1265`); the comments fetched then are what
   `#completeInstruction` searches (`orchestrator.mjs:1803`). A watcher that fetched them, waited while another posted and died, then takes over, posts again. For issues
   read under their lease this cannot happen (`RunnerPostsOnce`).
6. **A post given up lands after the next one** (`orchestrator_late`, `NoResultTwice`). The same sentence, on an issue read under its lease. A post is a request to a child process; when its
   caller's 120 seconds are over the entry is forgotten and the caller told of a timeout (`src/tools/orchestrator/src/app-server.mjs:739-762`), when the caller dies nobody waits. Neither
   cancels the request. The next holder of the lease reads the comments, does not find the packet, posts it, and the first request lands as well. The packet carries no
   key by which GitHub could refuse the second.

Findings 1 and 4 are one pattern, a stored conclusion read after what it was computed from changed. The code
avoids it in one place: a new *measurement* sets an output back to `measured`.

### 5.1 Observed in the code, without a run

Seen while modelling; none is stated as a property here, some because no document contradicts them.

* *Output.* `src/docs/PRODUCTION_OUTPUT_AND_YIELD_RECONCILIATION.md:57` gives an equation for an output; a component recorded
  after the reconciliation (`…28154754:361-368`) leaves it `reconciled`, and the readiness of the stage does not evaluate the equation again.
* *Packed total.* The reconciliation of a packaging run splits a total that is never compared with the units the run packed (`…28203257:247-289`).
* *Restricted stock.* Loss, destruction and adjustment compare with the stock, not with what is held or pending as damaged (`20260729054425:251-252`), so more may be restricted
  than is there. Pending damage ends only by its write-off, which needs a location balance, so it may stay for ever.
* *Corrections* must name a destination (`20260729054425:267`), but the snapshot counts them at the source the request carries (`:148-163`).
* *Recall readiness* (`20260729094510`): a closed or cancelled case takes new revisions, a new scope and an approval, though `src/docs/RECALL_READINESS_V1.md` draws no
  way out of either; a retry meets the revision check before the lookup of its key, so its recorded answer cannot be reached; `request_revision` takes no lock on the case;
  an approval counts an earlier approving review although later ones reject.
* *Interrupted retries.* `beginInstruction` takes the retry mark off the task while the claim keeps the authorization: a retry interrupted after that is refused as
  `retry_authorization_conflict` ever after. One that finishes finds its first packet among the comments and is rejected as a binding error. A crash between the
  active record and `beginInstruction` lets the old terminal run complete the retry's claim.
* *Two terminal runs.* A second recorded run of an instruction makes `terminalDurableResultRun` refuse it as ambiguous.
* *Turns.* A process that dies after the app server accepted a turn and before its id is saved leaves a turn nobody knows; the next one starts another
  (`src/tools/orchestrator/README.md:51-53` says the same instruction cannot be started twice). A crash loop is never counted as a failure.
* *Work without its record.* If the completing write of a claim fails for good after the run was recorded, the record stays active or retryable while the task has consumed
  the instruction; the next cycle completes it from the task.
* *Leases.* `inspectInstructionClaims` recovers claim files without their lease; a release that finds the guard busy leaves a marker that others report as ambiguous while its owner
  lives (`durable-filesystem.mjs:2913`). A quarantine reopened may be saved without its event (`repository-runner.mjs:1625-1631`).

---

## 6. What is not modelled

* *Not yet*: recall readiness, the chain from receipt to released raw material, purchase plans and approval (section 7); in the control
  plane, owner gates, checkpoints, supersession, terminal closeout, quarantine records, pickup comments and issues with several controls.
* *Nothing to check*: traceability and other read-only queries; beard studio and photo analysis (one request, one row);
  single-user editors and arithmetic on formulas, costs and compliance (covered by unit tests); import and backup scripts.
* *Most lines of the repository* carry no shared state: the generated database types (20,000 lines), pages, forms and editors of one user, the checking of
  inputs, paths and options around git, the app server and launchd, and the parsing and wording of comments. What those modules contribute to the behaviour here, a turn
  that starts, ends or still runs, a request carried out, late or not at all, appears as an action.
* *Abstracted inside the modelled components*: units and conversion, costs, event logs, authentication and row-level
  security, texts, prompt and result of the research, due times and back-off.
* *Known and left to no property*, each with its reason in `PROJECT.json`: lock-order cycles between commands;
  retries whose payload differs from the recorded one; the sum of consumptions citing one
  weighing; released reservations that count against a requirement's capacity, and an allocation that cannot be made
  twice, so that a run may be unable to complete; units mixed in sums; a component recorded after an output's reconciliation; an interrupted retry of an instruction; a queued job cancelled and then set running.

---

## 7. Plan

Done of the first plan: `StockPromise`, the finished goods chain up to active inventory, the claim of an instruction, and a theorem for every safety property that is checked. In order, what is left:

1. **`RecallReadiness`** (`20260729094510`) on top of `ActiveInventory`: revisions of a case, the generated scope, reviews, approval and closing. Promise: what is
   approved is the scope that was reviewed.
2. **`ResearchPromise`**: asked once, ended once, published at most once, as an abstract specification `BackgroundResearch` refines; the theorems of 4.3 are its steps.
3. **`MaterialTransactions`**: reserve, consume, weigh, release, abort and complete statement by statement with row locks, refining `RawMaterialControl`, so that the atomicity
   argument of 2.1 is checked and no longer only argued; its lock-wait cycles (reserve: batch then lot; consume: lot then batch; abort: batch then
   reservations) with the detector's abort, and liveness: a command that is retried gets through.
4. **`CommandRetry`**: a session that repeats a command under its key after a lost reply, or with another payload:
   what "Idempotency keys reject payload changes" promises against what consume (`…28150000:307-313`) and release (`…28140000:499-502`) do.
5. **Quarantine records and owner gates** of the control plane on top of `TaskRunner`: reopening, its event, and the answer of an owner that comes late.
6. **`Receiving`**: from receipt to released lot (`…28110000`, `…28120000`); promise: a received quantity enters inventory once.

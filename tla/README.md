# A verification project for nats-demo

nats-demo shows how NATS Core and JetStream behave under failure. A job service
takes jobs over HTTP and publishes them; a processor service executes them with a
pool of pull workers that can be scaled, crashed, stalled and restarted; a control
service watches, replays and repairs; a dashboard polls and commands all three.
This directory holds TLA+ models of that system, the TLC runs that check them on
small instances, and proofs, checked by TLAPS, of what holds for instances of
every size.

Paths are relative to `src/backend/`, with `P/` for `services/cmd/processor-service/`
and `F/` for `src/frontend/src/`.

## 1. Inventory

| Component | State | Operations | Must hold |
|---|---|---|---|
| Worker pool (`P/worker.go`, `P/control.go`, `P/http_server.go`) | goroutines and contexts, `workerCancels`, `activeGoroutines`, `goroutineStatus`, `processingEnabled`, `jsConsumer` | `jsPullLoop`, crash, supervisor, `ScaleWorkers`, `startWorkers`, `processor.state.set`, PUT workers and state, POST restart | every worker can be stopped, crashed workers return, none outlives its cancellation, the dashboard is right |
| Job delivery (`P/worker.go` `handleJetStreamMsg`) | stream JOBS, durable consumer, armed scenario, each worker's message | publish, fetch, ACK, NAK, TERM, late ACK, dead-letter, redelivery, restart | one outcome per job, one worker in time, no job lost |
| Dead letters (`control/api/http/control_handler.go`, `control/internal/natsclient/client.go`, `F/components/DLQPanel.tsx`) | stream JOBS_DLQ, its deduplication window, runs in progress | capture, setup, cleanup, list, purge, reprocess, and the panel that polls and commands them | a dead letter is republished or still there, never neither |
| Queue group (`P/queue_group.go`, `P/control.go`, `F/components/QueueGroupPanel.tsx`) | subscriptions, size, distribution | reconfigure, reset, deliver, send a batch | members are the configured ones, no message lost or handled twice while nobody resizes |
| Processor panel (`F/components/CoreFlow/CoreFlowProcessor.tsx`) | two copies of the pull loop's state, three busy flags | poll, toggle, scale, scenarios, revive | it shows the processor, its copies agree |
| Status bar (`F/App.tsx`, `F/api/demoApi.ts`, `F/components/StatusPanel.tsx`) | services, stream info, flags | refresh with fallback, toggle, reset | it shows the platform, the buttons come back |
| Activity feed and log (`F/App.tsx`, `F/components/ActivityPanel.tsx`, `control/internal/activity`) | bounded list, filters, refresh flags | poll, refresh, clear, submit, replay, filter, cap | the latest entries are shown, no dead ends |
| Job inspector (`F/components/JobInspectorPanel.tsx`) | selected job, details, error | open, switch, close | details belong to the selection unless selections overlap |
| Publish form (`F/components/CoreFlow/CoreFlowPublisher.tsx`) | fields, log, burst in progress | send, burst, edit, leave | receipts are true, bursts are in order, prompt retries are suppressed |
| Validation (`P/validation.go`, `services/internal/messaging/publisher.go`, `RequestReplyPanel.tsx`, `JobPanel.tsx`) | pending request, timeline | request, reply, timeout | the result is of the last request |
| Retry and deduplication lab (`DelayedRetryPanel.tsx`, `DeduplicationPanel.tsx`, `services/internal/jobs`) | busy flags, scheduled timers | send, schedule, edit | one id stored once, scheduled jobs published |
| Replay (`ReplayPanel.tsx`, `ReplayJobs`) | ephemeral consumers, form | start, consume, tear down | a range is replayed in order and completely |
| Out-of-order batch (`P/worker.go` `handleOutOfOrderBatch`) | three messages and their AckWait timers | ACK 1, hold 2 with heartbeats, ACK 3 | not modelled, see section 7 |
| Core NATS processing and routing (`P/worker.go` `buildCoreJobHandler`, `services/internal/messaging`) | attempts per job id | handle, subscribe, unsubscribe | not modelled, see section 7 |
| Telemetry, configuration, observers, static screens, deployment | - | - | not modelled: no state the program acts on |

The parts interact over the broker (`jobs.submitted`, `jobs.dlq`, `jobs.validate`,
`processor.state.set`, `queuegroup.config.set`, ...), over HTTP, and, inside the
processor, through `App`'s fields under `mu`, `scenarioMu` and `queueMu`. In the
dashboard they interact through React state: `App` owns the flags and lists, the
panels own their forms, and every handler is a chain of awaited requests between
whose steps any other handler, poll or timer may run.

Hard behaviours: supervisors that act 5.5 seconds later on what they remember;
flags read, then used after a blocking call; AckWait (5s) racing handlers of 1s and
7s; processes that die between COMPLETED and ACK; a reprocessing loop over a stream
that changes under it; streams that are deleted and recreated; requests that time
out although the other side carries them out; answers that overtake each other;
flags shared by several handlers; handlers that outlive their component; lists at
their caps. `PROJECT.json` lists every hazard at its line with the properties aimed
at it.

## 2. Modules of the backend

### WorkerPool

One id per run of `jsPullLoop`. `st[g]` is where the goroutine is: at the top of its
loop (`polling`), blocked in `Fetch` (`fetching`), with messages (`busy`), between the
two critical sections of a failed fetch (`rebinding`), gone with its supervisor
asleep (`reviving`), or gone. `workerCancels` is the slice of that name, each cancel
function represented by the goroutine it cancels. `cancelled` is the set of running
goroutines whose context is done.

| Action | Code |
|---|---|
| `ObserveCancel`, `StartFetch`, `FetchMessage`, `FetchTimeout`, `FetchError`, `Rebind`, `Finish` | the branches of `jsPullLoop`; the toggle and the handle are read before `Fetch`, never after |
| `Crash`, `Respawn` | `crash_before_ack` and its supervisor, with the slot rule by name |
| `ScaleWorkers` | PUT `/processor/workers`, one critical section |
| `StateSet`, `StateSetBind`, `startWorkers`, `StateSetCancel`, `unsubscribeJetStream` | the `processor.state.set` callback, one action per critical section (`ctl` is its program counter) |
| `HttpState`, `HttpRestart` | PUT `/processor/state`, POST `/processor/restart` |

`Spec` lets the operator do anything at any time. `SettledSpec` is the same pool
under an operator who waits until nothing is in flight, scales an enabled pool and
starts a stopped one, and leaves the two direct HTTP endpoints alone: it separates
what the code promises under that discipline from what breaks without it.

Not told apart: why `Fetch` fails, how many messages a `busy` worker has, and
`Ordering = "ordered"`, which only pins the size to 1.

### JobDelivery and JobContract

`JobDelivery` follows messages from `PublishJobSubmitted` to their settlement.
`msgState` is the broker's view: `ready` for delivery, `out` with AckWait running, or how
the message was settled. `pc[w]` is the stage of `handleJetStreamMsg` worker `w` is in,
with an action per step that another actor can observe: the second of processing,
the read of the armed scenario, each scenario's answer, the publish to JOBS_DLQ and
the ACK after it, COMPLETED and the ACK after it. `seen` and `seenOnce` are what the
handler read under `scenarioMu`; `Disarm` uses them later, as the code does.

The broker is not part of the repository. `Settle`, `Nak` and `Expire` are its side,
as the code relies on it: an ACK or TERM settles any unsettled message, even one
that was redelivered meanwhile; a NAK makes it ready; AckWait expires only while no
prompt handler has the message. "Prompt" is the one use of time: stages that last
about a second are shorter than AckWait; the 7s of `exceed_ack_wait` and a publish
that may take its 5s timeout are not.

`JobContract` is the abstract specification: a job is `absent`, then `owed`, then has
one final outcome for ever, and every owed job gets one. `JobDelivery` implements it
under the mapping `Contract` (`ready` and `out` are `owed`). The contract knows the
outcome `dropped`, a dead letter that could not be published, which the code
really produces (section 5).

### DeadLetters

The stream JOBS_DLQ as messages with sequence numbers, its last sequence and the
message ids in its deduplication window. `Capture` is the processor giving a job
up; its message id is made of job and attempt, so that a second failure of a
reprocessed job with the same attempt is dropped while the window remembers the first
(the window passes at any time). `SetupDLQ`, `CleanupDLQ`, `PurgeDLQ` are the operator's. Reprocessing is a loop of
broker calls, and `run[r]` is where run `r` is in it: `ReprocessDLQ` reads the range
once, then each number is passed over (`Skip`), unreadable (`ReadFails`), deleted as a
duplicate (`DropDuplicate`), or taken, republished and deleted (`Take`, `Republish`,
`DeleteLetter`), and each of these calls may fail. Everything else may happen between
two calls. Two history variables serve the properties: `owed`, the jobs that were
captured and since then neither republished nor discarded, and `disturbed`, that a
run overlapped another one or a deletion of the stream.

Not told apart: the content of messages, list pages, and invalid entries
(`control_handler.go:789-793`, deleted unread), which the processor does not produce.

### QueueGroup, ValidateJob, RetryLab, ReplayForm

These join a service with the panel that drives it.

* `QueueGroup`: the responder of `queuegroup.config.set` in three steps (record the size,
  `DropSubscriptions`, subscribe anew), messages buffered per subscription, batches of
  job-service, loss of the processor's connection; the panel with its poll and its
  three commands. Each of its requests may fail, a submit at any time, and every
  handler's failure path is an action. A subscription that fails inside the responder is
  not modelled.
* `ValidateJob`: `ValidateJob`/`RequestJobValidation` with their timeout, the responder in the
  processor that stays silent while processing is off, replies that come too late, other
  NATS errors, which the service announces as a timeout and answers otherwise;
  the Request/Reply panel, which draws its job ids, and the validation of the job form,
  which keeps the id in its field.
* `RetryLab`: the three cards and the test bench over `Service.Submit` and its
  schedules, which only a timer of the process remembers; restarts of job-service
  and failures of NATS. A card draws one of 900 random numbers for its next id
  (`DelayedRetryPanel.tsx:57`); in the model the next id is a new one.
* `ReplayForm`: the checks of form and service, the ephemeral consumer and its timer,
  over a stream that grows and is deleted and recreated.

## 3. Modules of the dashboard

All of them have the same form. A handler of the component, up to its first `await`,
is one action (named as in the code); each request it waits for is then served or
lost (`Serve...`, `Lose...`, or `Request`), and each continuation after an `await` is an
action again. So a stale closure value is a field of the request in flight, and a
`finally` is part of every continuation that ends the handler. `Progress(h)` is any of
these for handler `h`. Buttons and inputs are definitions over the state
(`SendButton`, `ToggleButton`, ...), and the user's actions have their `enabled` as guard.

| Module | Code | Left out |
|---|---|---|
| `DLQPanel` (extends `DeadLetters`) | polls every 3s, six commands, each of which may fail; the poll's two GETs are served one by one and shown together; broker calls that fail inside a reprocessing run | alerts; the 10s timeout of the request is the loss of the call |
| `ProcessorPanel` | polls of :8082 every 1.5s, toggle, scale, nine scenario cards, revive | metrics and texts |
| `StatusBar` | `refreshStatus` with the fallback to :8082, `handleToggleProcessor`, `handleResetStream`, each served by the service that it goes to (the reset by job-service) | the activity refresh after a reset, which `ActivityFeed` has in its own form; a toggle that timed out and is carried out later is one of the foreign changes (`Change`) |
| `ActivityFeed` | `refreshActivity`, `refreshAddressing`, clear, submit, replay | - |
| `ActivityView` | categories, filters, options derived from the entries, cap, expansion, over entries in the order of `GetActivities` (time of the day in seconds, job id, weight of the status) | search in fields other than the job id |
| `JobInspector` | `handleSelectJob` with its fallback on the activities, also while another job is shown or loading, since the panel in front does not take the focus from the job ids below it; `close` | layout |
| `PublishForm` | single sends, bursts, message ids and the time for which the stream remembers them, the log, leaving the screen | type, source and headers of a job |

Three wrappers instantiate these modules. `MCProcessorPanels`, `MCDashboard` and
`MCForms` hold the variables of several modules and a `screen` that is chosen in the
initial state: a behaviour is one of one module, and the modules' checks share a
run. Their bounds and sets are CONSTANTS, to which the `.cfg` of the run gives small
values and over which the proofs are general; an ASSUME collects the assumptions of
the modules. They do not model interaction between the screens; where screens do interact,
through `App`'s `isSubmitting` and lists, each module has the shared flag in its own
state.

## 4. Runs

Every property of a passing run has a mutant in the model, a plausible slip in the
code at that point (listed in `PROJECT.json`), that TLC finds violated.

| Run | Instance | Shows |
|---|---|---|
| `WorkerPool_safety` | 4 ids, clamp 2, all interfaces, symmetry | types; slots bounded and distinct under every schedule |
| `WorkerPool_live` | 3 ids, clamp 2, workers and state.set | cancelled workers end; a disabled pool goes quiet; crashed workers return |
| `WorkerPool_settled` | 4 ids, clamp 2, settled operator | slot i is processor-i or its revival; no orphan; dashboard right; a failure it shows clears |
| `JobDelivery_healthy` | 1 message, 2 workers, every scenario, DLQ outages, restarts | one prompt handler per job; jobs with attempts to spare are executed; `JobContract` is implemented, its liveness included |
| `JobDelivery_once` | 2 messages, 2 workers, crashes armed, DLQ outages | without a stall no job is completed twice |
| `DeadLetters_runs` | 2 jobs, 2 runs, 3 failures, 1 failing call, 1 deletion | a captured job is never lost by a run; an undisturbed run leaves nothing behind |
| `DLQPanel` | 1 job, 1 run, up to 3 failed jobs, 2 failing broker calls, 1 deletion, 2 commands, 1 outage, 1 poll beside the fetches of the commands | the panel settles: buttons are back whatever call fails, it shows the queue |
| `ProcessorPanels` | 2 commands, 1 foreign change or 2 messages, 1 outage | both copies of the pull loop's state agree; group members are the configured ones; both panels settle: they show the processor and their buttons are back, after failing requests too |
| `Dashboard` | five screens, 1 to 3 clicks each, outages and changes | the ten properties of the five modules, `ScreensSettle` for all of them |
| `Forms` | three screens, 1 or 2 requests each, faults, a reset | verdicts, replays and stored ids are right; all forms settle |
| `WorkerPool_orphan` (violation) | as `WorkerPool_safety` | finding 1 |
| `DeadLetters_lost` (violation) | 1 job, 2 attempts, 2 runs, 1 failing call | finding 2 |

**Findings.** (1) A rebuild while a worker is crashed: its supervisor overwrites the
cancel function of the new worker of that name, which nobody can stop any more
(`P/worker.go:693`). (2) Two reprocessing runs overlap and a publish fails: the failed
job counts as seen, so that run deletes a later dead letter of it as a duplicate
while the other run deletes the entry that was kept; the job is nowhere
(`control_handler.go:796`, `:835`).

**Bounds.** `MaxWorkers` is 5 in the code; with 2 there is a head and a tail, a slot to
lose and one to keep, and two crashes at once. Goroutine ids are reused once nobody
refers to them; `CanCrash` and `Fresh` keep one id in reserve for every pending
revival, so that a supervisor is never blocked by the bound. One message and two
workers give every race of redelivery, a stalled and a prompt handler of the same
message; the second message of `JobDelivery_once` keeps a worker busy. `MaxAttempts = 2`
separates first, retry and last attempt; `Cap` and the count of completions saturate
one above what is compared. Three dead letters of two jobs give a job with two
letters and another one between or behind them, which is what deduplication within
a run needs; two runs give every overlap. In the panels two commands of which one may
be in flight when the other is given, one poll, and one outage give every order of
two answers; a third answer adds another of the same kind. Clicks and edits are
counted (`MaxClicks`, `MaxEdits`, ...): the counters bound the user, never a handler.
Three selections in the inspector let two loads be overtaken; the publish form has two
sends or bursts and one edit, which is what a message id for a retry needs (a second edit
may give a job another message id, and the property then says nothing). `DLQPanel` joins
two kinds of behaviour: one command over a queue in which broker calls fail and jobs
of other panels are given up, or two commands on one letter without such faults. The
four panel runs have 0.28 to 0.51 million states each and take from one to four minutes.

**Deadlock** is checked in every run but `ProcessorPanels`, `Dashboard` and `Forms`. There
screens whose refreshing is not periodic (the publish form, the inspector, the lab)
stop once the user's clicks are used up and every handler has ended, which is the
intended end of a behaviour; that no handler is left waiting there is what the
settling properties say.

**Fairness.** Backend: `WF(Worker(g))`, the Go scheduler runs every goroutine and `Fetch`
returns within its 500ms; `WF(Respawn)`, timers fire; `WF(Responder)`, a NATS callback runs
to its end (bind has a 5s timeout); `WF(Expire)`, the broker's timer; `SF(Pull of m)`, with
workers that keep fetching the broker hands out a ready message eventually, since it
redelivers in stream order and does not pass one message over for ever. Dashboard:
`WF(Tick)`, `setInterval` fires while the component is mounted; `WF(Progress(h))` for each
handler `h` (in the inspector for each load, as selections may overlap), a request is answered or fails (connections and the services' own
timeouts end it) and a settled promise is resumed. Nothing forces users, other
operators, crashes, restarts, outages, or the end of an outage: the properties have
"if the service is up" in them where they need it. `HealthyJobsComplete`, the liveness
half of the contract and `FailureClears` assume that restarts, or crashes, stop at some
point; both are premises of the property, not of the specification.

## 5. Where the code and what is said of it differ, without a run

The models contain the code's behaviour in each of these; no property depends on
the sentence.

| Sentence | Code |
|---|---|
| `docs/demo.md:37`: workers retire cleanly on scale-in | the supervisor of a crashed worker starts it after the scale-in and appends a slot (`P/worker.go:695`) |
| `docs/demo.md:41`: a terminated message is routed to dead letter handling | it is terminated and published nowhere (`P/worker.go:802`) |
| `README.md:31`: repeated failures route to `JOBS_DLQ` | a failed publish to JOBS_DLQ is logged and the original acknowledged (`P/worker.go:867`), `JobContract`'s outcome `dropped` |
| `P/http_server.go:275`: restart "respawns worker goroutines" | it sets two fields and starts nothing (`P/http_server.go:285`) |
| `docs/FUNCTIONAL_TESTING_GUIDE.md:132-137` and `DeduplicationPanel.tsx:42-45`: submitting the same job id again shows `DEDUPLICATED` | neither form nor service turns the job id into a message id (`DeduplicationPanel.tsx:28-37`, `publisher.go:46`), so that both copies are stored; `RetryLab` stores them |
| `F/components/ActivityPanel.tsx:423`: "Showing latest N of M" | `GetActivities` sorts by the text HH:MM:SS, then by job id upwards, then by a weight of the status (`control/internal/activity/tracker.go:213`), so that the cap may hide the newer of two entries of one second, and after midnight the newer ones altogether |

Two behaviours that no sentence rules out, and that the properties leave room for:

* **Job inspector.** Nothing cancels a load. A job id below the inspector keeps the
  keyboard focus, so that a second job can be selected while the first is loading; when
  the first answer comes last, its details stand under the id of the second
  (`F/App.tsx:274`). `overtaken` records exactly that, and `DetailMatchesSelection` is
  about all other states.
* **Publish form.** The stream compares message ids for two minutes, and its reset
  forgets them (`services/internal/natsclient/streams.go:17`, `:21`, `:43`). A retry
  after that is stored a second time: `Forget` is the end of the window or a reset, and
  `RetryIsSuppressed` is about the ids that are remembered. A reset also empties the
  stream under the receipts of the log, which stay: `ReceiptsAreStored` is about what the
  stream has stored, not what it still holds.

## 6. Proofs

Every invariant and every action property that a run checks is a theorem, for every
value of the constants. What is assumed of constants is an ASSUME that TLC evaluates
in every run: those of `WorkerPool`, `JobDelivery` and `DeadLetters`, and
`PanelsAssumption` and `FormsAssumption` of the wrappers, which collect those of the
panels (bounds are naturals, sets are finite where a size is taken, `None` is not a
value). One theorem has a hypothesis of its own, `HandlersAreInTime` of
`NoJobIsExecutedTwice` (below). The theorems of the panels are about the wrappers'
specifications and properties, the very ones that the runs check.

| Module | Theorem: property |
|---|---|
| `WorkerPoolProofs` | of `Spec`, `TypeCorrect`: `TypeOK`, `PoolStaysBounded`: `PoolBounded`, `SlotsStayDistinct`: `SlotsOwnDistinctWorkers`; of `SettledSpec`, `SlotsStayNamed`: `SlotsMatchNames`, `NoWorkerIsOrphaned`: `NoOrphan`, `DashboardStaysRight`: `DashboardIsRight` |
| `JobDeliveryProofs` | `TypeCorrect`: `TypeOK`, `OnePromptHandlerAtATime`: `OnePromptHandler`, `NoJobIsExecutedTwice`: `NoDuplicateExecution`; `ContractIsKept`: the safety part of `JobContract` |
| `DeadLettersProofs` | `TypeCorrect`: `QueueTypeOK`, `NothingIsLost`: `NeverLost`, `RunsLeaveNothing`: `PassedIsGone` |
| `ProcessorPanelProofs` | `CopiesStayTogether`: `CopiesAgree` |
| `QueueGroupProofs` | `MembersStayMatched`: `MembersMatchCount`; `HandledAtMostOnce`, which no run states; `TypeCorrect`: `TypeOK` of both panels |
| `PublishFormProofs` | `SubmitsDoNotOverlap`: `OneSubmitAtATime`, `ReceiptsStayTrue`: `ReceiptsAreStored`, `BurstsStayInOrder`: `BurstInOrder`, `RetriesAreSuppressed`: `RetryIsSuppressed` |
| `DashboardProofs` | `DetailFollowsSelection`: `DetailMatchesSelection`, `InspectorCloses`: `CloseDismisses`, `ButtonsComeBack`: `BusyMeansInFlight`, `NoDeadEnds`: `EmptyMeansFiltered`, `TypeCorrect`: `TypeOK` of the five screens |
| `FormsProofs` | `ResultsBelongToRequests`: `ResultIsOfLastRequest`, `IdsAreUsedOnce`: `StoredOnceWithoutFaults`, `ServiceNeverRefuses`: `FormRefusesFirst`, `ReplaysStayFaithful`: `ReplayIsFaithful`, `TypeCorrect`: `TypeOK` of the three screens |

In a wrapper a property of one screen follows from an invariant `screen = "..." => Inv`
with the module's own `Inv`: the screen never changes, and a step on another one
leaves the module's variables alone. Types hold on every screen at once, so there
the invariants of all modules are joined. The two panels of `MCProcessorPanels` share
`up`, `outages` and `clicks`: a step on one panel leaves the other's variables alone
but for these, whose ranges the first panel's types give (`PanelsInv`).

**Worker pool.** For any operator the inductive invariant adds `NamesAreValid`: a
goroutine that has not ended has a name in `1 .. MaxWorkers`. Without it the bound is
not inductive: a revival whose name lies outside the slots appends, and only the
name bounds the length it appends to. Distinctness needs that ids are taken from
`Unused`, that is, no slot refers to them. For the settled operator `SInv` adds three
facts. A worker whose context is done is at the top of its loop (`CancelledPoll`);
every other worker, and every crashed one, has a slot (`OthersAreSlotted`); and between
the critical sections of `processor.state.set` the pool is as the callback left it
(`PhasesAgree`), since no other command comes while one is at work. A revival then
finds its own name in its slot and replaces exactly the entry it left. That the
reported count is right needs the cardinality of the entries of a sequence without
repetitions (`EntriesCount`).

**Job delivery.** The inductive invariant adds `HandlersHaveMessages`. `OnePromptHandler`
itself carries the argument: a prompt handler's message is not `ready`, so it cannot be
pulled; it can become ready only by its own NAK or by AckWait, which leaves prompt
handlers alone; an answer from a stalled handler settles, and never returns, a message.
`NoJobIsExecutedTwice` has the hypothesis `HandlersAreInTime`: `exceed_ack_wait` is never
armed or sent, and the processor is not killed; with either, a job really is completed
twice. Crashes, retries, dead letters and a publish to JOBS_DLQ that outlasts AckWait
remain. Its invariant says that a completed job is neither `ready` nor in the hands of
another prompt handler, and while it is still unsettled its handler is the one about
to acknowledge it (`CompletedIsKept`).

**Dead letters.** `NeverLost` alone is not inductive, because a run deletes messages whose
job is still owed: it must be known that another one remains. The invariant says so
of a run: of every owed job it has come across, a message lies behind it, beyond its
range, or is the one it is publishing (`Secures`). With it go that the message under its
number is of its job until it is deleted (`Holds`), that it stays in the range that it
read (`InRange`, so that captures do not get in its way), that nothing it was asked for
is behind it while no call fails (`Clears`), and that numbers are unique and at most
`lastSeq`. All of this is required only while at most one run is active and no
deletion came between (`Calm`). A run's first position is the least number of the
stream, which exists because `<` is well founded on the naturals (`LeastNumber`).

**Processor panel.** The copies part only when a toggle was answered, and until the
status that it then asks for, or any other one, arrives or fails (`PartedByToggle`); the
toggle's flag is up for all of that time (`ToggleIsFlagged`).

**Queue group.** `MembersMatchCount` is inductive as it stands. The types are not: that a
worker's count stays below `MaxSent` needs that what it has counted and what it still
holds were sent before (`CountsAreSent`), and this needs `HandledAtMostOnce`'s invariant
that a message is buffered, or counted, once.

**Publish form.** One submit at a time (`SubmitInv`) is the base: the form may be left and
opened again in the middle of a burst, and only App's `isSubmitting` keeps the new form
from sending. A receipt is true because an answered handler's job is in the stream,
itself or by its message id, and the stream only grows (`AnsweredIsHeld`). A burst is in
order because the handler's job always has its predecessor in the stream
(`HasPredecessor`). `RetryIsSuppressed` needs the most: the broker keeps message ids
distinct, among the messages it remembers the ids of (`MsgIdsDiffer`), and no job id ever comes back with another message id
(`OneMsgIdEach`), which holds because the fields move on after a success only, so that
with one edit a message id in its field is never for a job id behind one that was
sent (`AfterOneEdit`). A second edit can break that, hence the exception in the property.

**Status bar, feed, log, inspector.** The flags of the status bar are inductive with the kinds
of answers a request may have (`StatusIsAnswered`). In the feed one flag is raised by two
handlers and lowered by each, and the addressing flag is up only for a handler that
waits for the addressing events and is not the poll (`FeedFlags`): with "some handler"
in its place the invariant is not inductive. In the log a list without active filters is
never empty, since then every entry is selected, whatever the options are (`NoDeadEnds`;
what `filter` leaves of the entries is modelled as the set of their indices, in the same
order). In the inspector every load is of a job that the activities had, so that none
ends with an error (`LoadsListed`): `isLoading` falls with details. The last load is the
one of the selected job, and while no other has ended after it, the spinner is up exactly
for as long as it is in flight (`DetailFollows`).

**Validation, lab, replay.** `ResultIsOfLastRequest` needs that the two forms never have
the same request (`RequestsDiffer`), that only the form that waits announces an end of
its request (`EndsOnce`), and that the panel shows its last one (`LastIsShown`). In the
lab an id is unused until the card that drew it sends it, and the card sends no other
before that one has ended (`IdsAreDrawn`, `IdsAreFresh`, the second only without
faults, since a restart or a lost answer lets a card send an id again; that the numbers
drawn are different is the model's, as above). A replay
forwards a prefix of its range because the stream only grows at its end or is
emptied, and the consumer of an emptied stream gets nothing more (`ReplaysForward`);
that its range is valid is `RequestIsValid`.

**Only model-checked.** The liveness properties, as fairness and ENABLED are out of the
prover's reach: `CancelledWorkersStop`, `DisabledPoolGoesQuiet`, `CrashedWorkerReturns`,
`FailureClears`, `HealthyJobsComplete`, the liveness half of `ImplementsContract`, and
`PanelSettles`, `PanelsSettle`, `ScreensSettle` and `FormsSettle`.

## 7. Not modelled

* The out-of-order ACK batch: whether its heartbeats keep the held message is
  arithmetic on sleeps against AckWait, and needs a clock.
* Core NATS processing and the choice of path by header, body and subscription;
  `JobDelivery` has only the discard of messages meant for Core NATS.
* What a stream reset does to messages in the hands of workers; resets appear as a
  replay, the status bar and the publish form see them.
* The event observers, the advisory listener and the lifecycle grouping of the
  tracker: they format and forward.
* Texts, layout, tabs and static screens of the dashboard; telemetry,
  configuration and deployment: no state the program acts on. The control service's
  unused copies of the job and messaging packages.

Limits of what is modelled:

* `WorkerPool_live` and `WorkerPool_settled` are without PUT `/processor/state` and POST
  `/processor/restart`, which set `processingEnabled` and the reported fields and start
  or stop nothing. `WorkerPool_safety` has them. With them the reported fields may
  contradict the pool, so `DashboardIsRight` is about operators who use
  `processor.state.set`.
* An armed scenario that two handlers read before one of them disarms it strikes twice,
  and a scenario armed in between is wiped out (`P/worker.go:626`). `JobDelivery` has both;
  they are promised nowhere, and no property excludes them.
* Ids that the code draws at random are different in the models: the base of a
  burst, the job ids of the retry lab and of the Request/Reply panel. A repeated number
  would be suppressed as a duplicate (a burst) or stored twice (the lab).
* `ValidateJob`'s timeline assumes that its polls succeed and that the feed does not
  drop the request's entries at its cap.

Next: the routing of a job with its Core NATS side; a reset under workers with messages
in hand.

## 8. Running it

    tlc -workers 2 -config MCWorkerPool_safety.cfg MCWorkerPool
    tlc -workers 2 -config MCDLQPanel.cfg DLQPanel
    tlapm DeadLettersProofs.tla

A module of proofs takes tlapm up to some minutes when nothing is remembered of it.

----------------------------- MODULE WorkerPool -----------------------------
(***************************************************************************)
(* The pool of JetStream pull workers of processor-service: the goroutines *)
(* running jsPullLoop, the slice workerCancels that owns their cancel      *)
(* functions, the status fields the dashboard polls, the supervisors that  *)
(* revive crashed workers after 5.5s, and the three operator interfaces    *)
(* that change the pool (PUT /processor/workers, the NATS responder        *)
(* processor.state.set, and the direct HTTP endpoints).                    *)
(*                                                                         *)
(* A goroutine id stands for one run of jsPullLoop. An id whose goroutine  *)
(* has ended and that no slot refers to any more is used again.            *)
(***************************************************************************)
EXTENDS Naturals, Sequences, FiniteSets

CONSTANTS Goroutine,   \* ids of worker goroutines
          MaxWorkers,  \* upper clamp of ScaleWorkers (5 in the code)
          Interfaces   \* the operator interfaces in use

ASSUME PoolAssumption == /\ MaxWorkers \in Nat \ {0}
                         /\ IsFiniteSet(Goroutine)
                         /\ Interfaces \subseteq {"workers", "state.set", "http"}

VARIABLES
  st,                \* what each goroutine is doing
  name,              \* i for "processor-i", 0 for an id not in use
  cancelled,         \* goroutines whose context is cancelled
  workerCancels,     \* slot -> the goroutine whose cancel function it holds
  workers,           \* consumerConfig.Workers
  activeGoroutines,  \* the count the dashboard shows
  goroutineStatus,   \* the status the dashboard shows
  crashedWorker,     \* name of the last crashed worker, 0 for ""
  processingEnabled, \* the pull loop toggle
  jsBound,           \* jsConsumer # nil
  ctl                \* where the processor.state.set callback is

poolVars   == <<st, name, cancelled, workerCancels>>
statusVars == <<activeGoroutines, goroutineStatus, crashedWorker>>
vars == <<st, name, cancelled, workerCancels, workers, activeGoroutines,
          goroutineStatus, crashedWorker, processingEnabled, jsBound, ctl>>

Name     == 1 .. MaxWorkers
Running  == {"polling", "fetching", "busy", "rebinding"}
State    == Running \cup {"reviving", "dead"}
CtlState == {"idle", "bind", "start", "cancel", "unbind"}

Slots     == 1 .. Len(workerCancels)
Slotted   == {workerCancels[i] : i \in Slots}
Live      == {g \in Goroutine : st[g] \in Running}
Reviving  == {g \in Goroutine : st[g] = "reviving"}
Unused    == {g \in Goroutine : st[g] = "dead"} \ Slotted

TypeOK ==
  /\ st \in [Goroutine -> State]
  /\ name \in [Goroutine -> 0 .. MaxWorkers]
  /\ cancelled \in SUBSET Goroutine
  /\ workerCancels \in Seq(Goroutine)
  /\ workers \in Name
  /\ activeGoroutines \in Nat
  /\ goroutineStatus \in {"RUNNING", "DEGRADED", "CRASHED", "PAUSED"}
  /\ crashedWorker \in 0 .. MaxWorkers
  /\ processingEnabled \in BOOLEAN
  /\ jsBound \in BOOLEAN
  /\ ctl \in CtlState

\* After Init and Run: one worker is polling; the first bind may have failed.
Init ==
  /\ \E g \in Goroutine :
       /\ st = [h \in Goroutine |-> IF h = g THEN "polling" ELSE "dead"]
       /\ name = [h \in Goroutine |-> IF h = g THEN 1 ELSE 0]
       /\ workerCancels = <<g>>
  /\ cancelled = {}
  /\ workers = 1
  /\ activeGoroutines = 1
  /\ goroutineStatus = "RUNNING"
  /\ crashedWorker = 0
  /\ processingEnabled = TRUE
  /\ jsBound \in BOOLEAN
  /\ ctl = "idle"

-----------------------------------------------------------------------------
(* One worker: jsPullLoop.                                                 *)

Goto(g, s) == st' = [st EXCEPT ![g] = s]

\* The goroutine returns; an ended goroutine has no name and no context.
End(g, s) ==
  /\ st' = [st EXCEPT ![g] = s]
  /\ name' = [name EXCEPT ![g] = IF s = "dead" THEN 0 ELSE @]
  /\ cancelled' = cancelled \ {g}

\* Mutant: the context is looked at in the idle branch only.
ObserveCancelWhenIdle(g) ==
  /\ st[g] = "polling" /\ g \in cancelled /\ ~processingEnabled
  /\ End(g, "dead")
  /\ UNCHANGED <<workerCancels, workers, statusVars, processingEnabled, jsBound, ctl>>

\* Top of the loop: a cancelled context ends the goroutine.
ObserveCancel(g) ==
  /\ st[g] = "polling" /\ g \in cancelled
  /\ End(g, "dead")
  /\ UNCHANGED <<workerCancels, workers, statusVars, processingEnabled, jsBound, ctl>>

\* Mutant: only the consumer handle is looked at.
StartFetchWhenBound(g) ==
  /\ st[g] = "polling" /\ g \notin cancelled
  /\ jsBound
  /\ Goto(g, "fetching")
  /\ UNCHANGED <<name, cancelled, workerCancels, workers, statusVars,
                 processingEnabled, jsBound, ctl>>

\* Top of the loop: enabled and bound, the worker keeps the consumer handle it
\* read and blocks in Fetch. (Otherwise it sleeps 200ms and looks again.)
StartFetch(g) ==
  /\ st[g] = "polling" /\ g \notin cancelled
  /\ processingEnabled /\ jsBound
  /\ Goto(g, "fetching")
  /\ UNCHANGED <<name, cancelled, workerCancels, workers, statusVars,
                 processingEnabled, jsBound, ctl>>

\* Fetch returns a message; neither the context nor the toggle is read again.
FetchMessage(g) ==
  /\ st[g] = "fetching"
  /\ Goto(g, "busy")
  /\ UNCHANGED <<name, cancelled, workerCancels, workers, statusVars,
                 processingEnabled, jsBound, ctl>>

FetchTimeout(g) ==
  /\ st[g] = "fetching"
  /\ Goto(g, "polling")
  /\ UNCHANGED <<name, cancelled, workerCancels, workers, statusVars,
                 processingEnabled, jsBound, ctl>>

\* Any other error of Fetch: drop the handle, whoever bound it, and bind again
\* in a second critical section.
FetchError(g) ==
  /\ st[g] = "fetching"
  /\ Goto(g, "rebinding")
  /\ jsBound' = FALSE
  /\ UNCHANGED <<name, cancelled, workerCancels, workers, statusVars,
                 processingEnabled, ctl>>

\* subscribeJetStream: a no-op when bound, else it may fail on the broker.
subscribeJetStream == jsBound' \in {TRUE, jsBound}

Rebind(g) ==
  /\ st[g] = "rebinding"
  /\ Goto(g, "polling")
  /\ subscribeJetStream
  /\ UNCHANGED <<name, cancelled, workerCancels, workers, statusVars,
                 processingEnabled, ctl>>

\* handleJetStreamMsg ends in any way but a crash.
Finish(g) ==
  /\ st[g] = "busy"
  /\ Goto(g, "polling")
  /\ UNCHANGED <<name, cancelled, workerCancels, workers, statusVars,
                 processingEnabled, jsBound, ctl>>

\* Bound: a crash happens only while an id is left for every revival.
CanCrash == Cardinality(Reviving) < Cardinality(Unused)

\* Mutants: the decrement is not guarded; there is none.
CountOutUnguarded(n) ==
  /\ activeGoroutines' = activeGoroutines - 1
  /\ crashedWorker' = n
  /\ goroutineStatus' = IF activeGoroutines' > 0 THEN "DEGRADED" ELSE "CRASHED"

CountOutForgotten(n) ==
  /\ crashedWorker' = n
  /\ goroutineStatus' = IF activeGoroutines > 0 THEN "DEGRADED" ELSE "CRASHED"
  /\ UNCHANGED activeGoroutines

CountOut(n) ==
  /\ activeGoroutines' = IF activeGoroutines > 0 THEN activeGoroutines - 1 ELSE 0
  /\ crashedWorker' = n
  /\ goroutineStatus' = IF activeGoroutines' > 0 THEN "DEGRADED" ELSE "CRASHED"

\* crash_before_ack: the worker counts itself out, names itself as crashed and
\* leaves a supervisor behind; its slot keeps the cancel of a dead goroutine.
Crash(g) ==
  /\ st[g] = "busy" /\ CanCrash
  /\ End(g, "reviving")
  /\ CountOut(name[g])
  /\ UNCHANGED <<workerCancels, workers, processingEnabled, jsBound, ctl>>

Worker(g) ==
  \/ ObserveCancel(g)
  \/ StartFetch(g)
  \/ FetchMessage(g)
  \/ FetchTimeout(g)
  \/ FetchError(g)
  \/ Rebind(g)
  \/ Finish(g)
  \/ Crash(g)

-----------------------------------------------------------------------------
(* Spawning, scaling and cancelling.                                       *)

\* Ids for n new goroutines, leaving one for every pending revival.
Fresh(n) ==
  {ids \in [1 .. n -> Unused] :
     /\ \A i, j \in 1 .. n : ids[i] = ids[j] => i = j
     /\ Cardinality(Reviving) + n <= Cardinality(Unused)}

\* Mutants: every revival appends; a revival also appends; a revival waits for
\* its slot to exist.
ReinstateAtTail(n, new) == workerCancels' = Append(workerCancels, new)

ReinstateTwice(n, new) ==
  workerCancels' = IF n \in Slots
                   THEN Append([workerCancels EXCEPT ![n] = new], new)
                   ELSE Append(workerCancels, new)

ReinstateInSlot(n, new) ==
  n \in Slots /\ workerCancels' = [workerCancels EXCEPT ![n] = new]

\* The new cancel function goes into the slot the name points to, whatever that
\* slot holds by now, or to the tail when the pool is shorter than that.
Reinstate(n, new) ==
  workerCancels' = IF n \in Slots
                   THEN [workerCancels EXCEPT ![n] = new]
                   ELSE Append(workerCancels, new)

\* Mutant: the failure clears only above the size of the pool.
CountInAbove ==
  /\ activeGoroutines' = activeGoroutines + 1
  /\ IF activeGoroutines' > Len(workerCancels)
     THEN goroutineStatus' = "RUNNING" /\ crashedWorker' = 0
     ELSE UNCHANGED <<goroutineStatus, crashedWorker>>

CountIn ==
  /\ activeGoroutines' = activeGoroutines + 1
  /\ IF activeGoroutines' >= Len(workerCancels)
     THEN goroutineStatus' = "RUNNING" /\ crashedWorker' = 0
     ELSE UNCHANGED <<goroutineStatus, crashedWorker>>

\* The supervisor of the crash of g, 5.5s later, puts a new goroutine of the
\* same name in its place.
Respawn(g) ==
  /\ st[g] = "reviving"
  /\ \E new \in Unused :
       /\ st' = [st EXCEPT ![g] = "dead", ![new] = "polling"]
       /\ name' = [name EXCEPT ![g] = 0, ![new] = name[g]]
       /\ Reinstate(name[g], new)
  /\ CountIn
  /\ UNCHANGED <<cancelled, workers, processingEnabled, jsBound, ctl>>

\* New goroutines take the names base+1, base+2, ... and begin to poll.
Spawn(ids, base) ==
  /\ st' = [g \in Goroutine |->
              IF \E i \in DOMAIN ids : ids[i] = g THEN "polling" ELSE st[g]]
  /\ name' = [g \in Goroutine |->
              IF \E i \in DOMAIN ids : ids[i] = g
              THEN base + (CHOOSE i \in DOMAIN ids : ids[i] = g) ELSE name[g]]

\* Only a context somebody still runs under is worth remembering.
Cancel(S) == cancelled' = cancelled \cup (S \cap Live)

\* Every slot now runs: the tail of ScaleWorkers and startWorkers.
AllRunning(n) ==
  /\ activeGoroutines' = n
  /\ goroutineStatus' = "RUNNING"
  /\ crashedWorker' = 0

\* ScaleWorkers(n), n already clamped to 1..MaxWorkers.
ScaleUp(n) ==
  /\ n > Len(workerCancels)
  /\ \E ids \in Fresh(n - Len(workerCancels)) :
       /\ Spawn(ids, Len(workerCancels))
       /\ workerCancels' = workerCancels \o ids
  /\ UNCHANGED cancelled

\* Mutant: the slots are cut off, their workers are not cancelled.
ScaleDownSilently(n) ==
  /\ n <= Len(workerCancels)
  /\ workerCancels' = SubSeq(workerCancels, 1, n)
  /\ UNCHANGED <<st, name, cancelled>>

ScaleDown(n) ==
  /\ n <= Len(workerCancels)
  /\ Cancel({workerCancels[i] : i \in (n + 1) .. Len(workerCancels)})
  /\ workerCancels' = SubSeq(workerCancels, 1, n)
  /\ UNCHANGED <<st, name>>

ScaleWorkers(n) ==
  /\ ScaleUp(n) \/ ScaleDown(n)
  /\ workers' = n
  /\ AllRunning(n)
  /\ UNCHANGED <<processingEnabled, jsBound, ctl>>

-----------------------------------------------------------------------------
(* processor.state.set over NATS: one callback at a time, but every helper *)
(* it calls takes the lock afresh.                                         *)

StateSet(enabled) ==
  /\ ctl = "idle"
  /\ processingEnabled' = enabled
  /\ ctl' = IF enabled THEN "bind" ELSE "cancel"
  /\ UNCHANGED <<poolVars, workers, statusVars, jsBound>>

StateSetBind ==
  /\ ctl = "bind"
  /\ subscribeJetStream
  /\ ctl' = "start"
  /\ UNCHANGED <<poolVars, workers, statusVars, processingEnabled>>

\* startWorkers: cancel the whole pool and spawn the configured number anew.
startWorkers ==
  /\ ctl = "start"
  /\ \E ids \in Fresh(workers) : Spawn(ids, 0) /\ workerCancels' = ids
  /\ Cancel(Slotted)
  /\ AllRunning(workers)
  /\ ctl' = "idle"
  /\ UNCHANGED <<workers, processingEnabled, jsBound>>

StateSetCancel ==
  /\ ctl = "cancel"
  /\ Cancel(Slotted)
  /\ workerCancels' = <<>>
  /\ ctl' = "unbind"
  /\ UNCHANGED <<st, name, workers, statusVars, processingEnabled, jsBound>>

unsubscribeJetStream ==
  /\ ctl = "unbind"
  /\ jsBound' = FALSE
  /\ ctl' = "idle"
  /\ UNCHANGED <<poolVars, workers, statusVars, processingEnabled>>

Responder == StateSetBind \/ startWorkers \/ StateSetCancel \/ unsubscribeJetStream

-----------------------------------------------------------------------------
(* The direct HTTP endpoints: flags and counters only.                     *)

\* PUT /processor/state
HttpState(enabled) ==
  /\ processingEnabled' = enabled
  /\ goroutineStatus' = IF enabled THEN "RUNNING" ELSE "PAUSED"
  /\ activeGoroutines' = IF enabled THEN 1 ELSE 0
  /\ UNCHANGED <<poolVars, workers, crashedWorker, jsBound, ctl>>

\* POST /processor/restart
HttpRestart ==
  /\ goroutineStatus' = "RUNNING"
  /\ activeGoroutines' = 1
  /\ UNCHANGED <<poolVars, workers, crashedWorker, processingEnabled, jsBound, ctl>>

-----------------------------------------------------------------------------
Operator ==
  \/ "workers" \in Interfaces /\ \E n \in Name : ScaleWorkers(n)
  \/ "state.set" \in Interfaces /\ \E enabled \in BOOLEAN : StateSet(enabled)
  \/ "http" \in Interfaces /\ \E enabled \in BOOLEAN : HttpState(enabled)
  \/ "http" \in Interfaces /\ HttpRestart

Internal == (\E g \in Goroutine : Worker(g) \/ Respawn(g)) \/ Responder

Next == Internal \/ Operator

\* Goroutines are scheduled, timers fire and callbacks run to their end; nobody
\* has to operate the dashboard.
Fairness ==
  /\ \A g \in Goroutine : WF_vars(Worker(g)) /\ WF_vars(Respawn(g))
  /\ WF_vars(Responder)

Spec == Init /\ [][Next]_vars /\ Fairness

(* The same pool under an operator who acts only on a settled pool: no      *)
(* message in hand, no revival pending, no callback running; who scales     *)
(* an enabled pool and starts a stopped one; and who leaves the direct HTTP *)
(* endpoints alone.                                                         *)
Settled ==
  /\ ctl = "idle"
  /\ Reviving = {}
  /\ \A g \in Live : st[g] = "polling"

SettledOperator ==
  /\ Settled
  /\ \/ processingEnabled /\ workerCancels # <<>> /\ \E n \in Name : ScaleWorkers(n)
     \/ processingEnabled /\ StateSet(FALSE)
     \/ ~processingEnabled /\ StateSet(TRUE)

SettledNext == Internal \/ SettledOperator

SettledSpec == Init /\ [][SettledNext]_vars /\ Fairness

-----------------------------------------------------------------------------
(* Properties of every schedule.                                           *)

\* The pool never owns more cancel functions than the clamp of ScaleWorkers,
\* although a supervisor that fires after a scale-down appends a slot without
\* looking at the configured size (worker.go ScaleWorkers, supervisor).
PoolBounded == Len(workerCancels) <= MaxWorkers

\* No two slots cancel the same goroutine: scaling down by k stops k workers
\* whatever revivals and rebuilds came before (worker.go ScaleWorkers,
\* startWorkers, supervisor).
SlotsOwnDistinctWorkers ==
  \A i, j \in Slots : workerCancels[i] = workerCancels[j] => i = j

\* A worker whose context was cancelled ends, even when it was blocked in Fetch
\* or held a message at that time (worker.go jsPullLoop).
CancelledWorkersStop == \A g \in Goroutine : g \in cancelled ~> g \notin cancelled

\* Once the toggle stays off the pool goes quiet: messages in hand are finished
\* and no worker fetches again, whatever the operator scales or revives
\* meanwhile (worker.go jsPullLoop, http_server.go /processor/state).
DisabledPoolGoesQuiet ==
  <>[]~processingEnabled =>
    <>[](\A g \in Goroutine : st[g] \in {"polling", "reviving", "dead"})

\* Every crash is followed by a running worker of the same name, even when the
\* pool was scaled down, rebuilt or stopped during the 5.5s (worker.go
\* supervisor goroutine).
CrashedWorkerReturns ==
  \A n \in Name : (\E g \in Reviving : name[g] = n) ~> (\E g \in Live : name[g] = n)

-----------------------------------------------------------------------------
(* Properties of a pool operated when it is settled.                       *)

\* Slot i belongs to processor-i, uncancelled, and if that worker is down then
\* its supervisor is still to come: no crash costs the pool a worker for good
\* (worker.go ScaleWorkers, startWorkers, supervisor).
SlotsMatchNames ==
  \A i \in Slots : LET g == workerCancels[i] IN
    g \in (Live \cup Reviving) \ cancelled /\ name[g] = i

\* Every running worker that was not told to stop can be told to: its cancel
\* function is in a slot (worker.go workerCancels).
NoOrphan == Live \ cancelled \subseteq Slotted

\* The dashboard is right about a pool that is up: its size, the number of
\* workers alive, and RUNNING exactly when none is down (http_server.go
\* /processor/status).
DashboardIsRight ==
  workerCancels # <<>> =>
    /\ Len(workerCancels) = workers
    /\ activeGoroutines = Cardinality(Slotted \cap Live)
    /\ (goroutineStatus = "RUNNING") = (Slotted \subseteq Live)

\* If workers stop crashing, a reported failure clears by itself, however many
\* were down at once (worker.go supervisor goroutine).
FailureClears ==
  <>[][\A g \in Goroutine : ~Crash(g)]_vars =>
    (goroutineStatus \in {"DEGRADED", "CRASHED"} ~> goroutineStatus = "RUNNING")

=============================================================================

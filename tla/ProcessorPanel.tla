--------------------------- MODULE ProcessorPanel ---------------------------
(* The processor panel of the dashboard (CoreFlowProcessor.tsx): it polls     *)
(* processor-service on :8082 every 1.5 s, toggles its pull loop, scales its  *)
(* worker pool, arms its failure scenarios and revives a crashed goroutine.   *)
(* Every handler is a sequence of awaited HTTP calls; between two of them     *)
(* any other handler, poll or server step may run.                            *)
EXTENDS Naturals

CONSTANTS
  Poll,        \* polls that may be in flight at the same time
  Restart,     \* clicks on Revive that may be in flight at the same time
  Sizes,       \* the pool sizes that have a button
  Scenario,    \* the scenarios that have a card
  MaxClicks,   \* bound: commands the user gives
  MaxForeign,  \* bound: changes of the processor by anybody else
  MaxOutages,  \* bound: times that :8082 becomes unreachable
  NoStatus     \* directStatus before the first answer (null)

VARIABLES
  \* processor-service
  proc,              \* what GET /processor/status returns
  up,                \* :8082 is reachable
  foreign, outages,  \* bounded: foreign changes, outages so far
  \* the panel
  directStatus, isProcessing, isConnected,
  isToggling, isScaling, isSettingScenario,
  clicks,            \* bounded: commands given so far
  \* its handlers
  await,             \* the call each handler waits for: none, its command, or the status
  call               \* what is known of that call

server == <<proc, up, foreign, outages>>
shown == <<directStatus, isProcessing, isConnected>>
flags == <<isToggling, isScaling, isSettingScenario>>
vars == <<server, shown, flags, clicks, await, call>>

Command == {"toggle", "scale", "scenario"}
Handler == Command \cup Restart \cup Poll
Goroutines == {"RUNNING", "PAUSED", "DEGRADED", "CRASHED"}
Status == [processing: BOOLEAN, workers: Sizes, scenario: Scenario \cup {"normal"},
           goroutines: Goroutines]

\* A call is sent with its body; then it is answered, or it fails.
Body == [enabled: BOOLEAN] \cup [workers: Sizes] \cup [scenario: Scenario \cup {"normal"}]
          \cup [empty: {TRUE}]
NoBody == [empty |-> TRUE]
Call == [at: {"none", "failed"}] \cup [at: {"sent"}, body: Body] \cup [at: {"answered"}, status: Status]
Idle == [at |-> "none"]
Sent(body) == [at |-> "sent", body |-> body]
Failed == [at |-> "failed"]
Answered(status) == [at |-> "answered", status |-> status]

-----------------------------------------------------------------------------
(* What the panel shows. *)

workerCount == IF directStatus = NoStatus THEN 1 ELSE directStatus.workers
activeScenario == IF directStatus = NoStatus THEN "normal" ELSE directStatus.scenario
goroutineStatus == IF directStatus # NoStatus THEN directStatus.goroutines
                   ELSE IF isProcessing THEN "RUNNING" ELSE "PAUSED"

\* The dot beside "Worker Daemon".
DaemonDot == CASE ~isConnected -> "red" [] isConnected /\ isProcessing -> "green"
               [] OTHER -> "amber"

\* ON and OFF are disabled while a toggle runs and while :8082 does not answer;
\* the one that is already lit does nothing.
PullLoopButton(on) == ~isToggling /\ isConnected /\ isProcessing # on

\* Revive is shown when the goroutines are down, and is never disabled.
ReviveButton == goroutineStatus \in {"CRASHED", "DEGRADED"}

\* The card of a scenario arms it, and disarms it when it is the active one.
Card(sc) == [armed |-> activeScenario = sc, disabled |-> isSettingScenario,
             sends |-> IF activeScenario = sc THEN "normal" ELSE sc]
OutOfOrderCard == Card("out_of_order_ack")
CrashCard == Card("crash_before_ack")
ExceedCard == Card("exceed_ack_wait")
NakCard == Card("nak_message")
TermCard == Card("term_message")

PartA == {"out_of_order_ack"}
PartB == {"crash_before_ack", "exceed_ack_wait", "nak_message", "term_message"}
CardOf(sc) == CASE sc = "out_of_order_ack" -> OutOfOrderCard
                [] sc = "crash_before_ack" -> CrashCard
                [] sc = "exceed_ack_wait" -> ExceedCard
                [] sc = "nak_message" -> NakCard
                [] sc = "term_message" -> TermCard
\* The dots on the two tabs of the lab. The lab and its tabs only bring a card
\* into view, with clicks that send nothing: every card counts as in view.
TabDot == [partA |-> activeScenario \in PartA, partB |-> activeScenario \in PartB]

\* "Reset to Normal Mode" is there while a scenario is armed.
ResetShown == activeScenario # "normal"

\* Handlers are told apart by their names; a pool starts with one worker and a
\* button for it; the lab has a card for every scenario.
PanelAssumption ==
  /\ Command \cap (Restart \cup Poll) = {} /\ Restart \cap Poll = {}
  /\ 1 \in Sizes
  /\ Scenario \subseteq PartA \cup PartB
  /\ {MaxClicks, MaxForeign, MaxOutages} \subseteq Nat

-----------------------------------------------------------------------------
Init ==
  /\ proc \in {p \in Status : p.scenario = "normal" /\ p.workers = 1
                               /\ p.goroutines = IF p.processing THEN "RUNNING" ELSE "PAUSED"}
  /\ up = TRUE /\ foreign = 0 /\ outages = 0
  /\ directStatus = NoStatus /\ isProcessing = TRUE /\ isConnected = TRUE
  /\ isToggling = FALSE /\ isScaling = FALSE /\ isSettingScenario = FALSE
  /\ clicks = 0
  /\ await = [h \in Handler |-> "none"]
  /\ call = [h \in Handler |-> Idle]

Await(h, what, c) == await' = [await EXCEPT ![h] = what] /\ call' = [call EXCEPT ![h] = c]

\* refreshDirectData, up to its await.
refreshDirectData(h) == Await(h, "status", Sent(NoBody))

\* The interval fires whether or not an earlier poll has returned.
Tick == \E p \in Poll : /\ await[p] = "none"
                        /\ refreshDirectData(p)
                        /\ UNCHANGED <<server, shown, flags, clicks>>

\* A click sends the command of a handler.
Give(h, body) == /\ clicks < MaxClicks
                /\ clicks' = clicks + 1
                /\ Await(h, "command", Sent(body))
                /\ UNCHANGED <<server, shown>>

\* handleToggle, from a click on ON or OFF.
handleToggle == /\ \E on \in BOOLEAN : PullLoopButton(on)
                /\ Give("toggle", [enabled |-> ~isProcessing])
                /\ isToggling' = TRUE
                /\ UNCHANGED <<isScaling, isSettingScenario>>

\* handleScaleWorkers(n): the buttons are disabled while it runs.
handleScaleWorkers(n) == /\ ~isScaling
                         /\ n # workerCount
                         /\ Give("scale", [workers |-> n])
                         /\ isScaling' = TRUE
                         /\ UNCHANGED <<isToggling, isSettingScenario>>

\* handleSetScenario(sc).
handleSetScenario(sc) == /\ Give("scenario", [scenario |-> sc])
                         /\ isSettingScenario' = TRUE
                         /\ UNCHANGED <<isToggling, isScaling>>

ClickCard(sc) == /\ ~CardOf(sc).disabled
                 /\ handleSetScenario(CardOf(sc).sends)

ClickReset == ResetShown /\ ~isSettingScenario /\ handleSetScenario("normal")

\* handleRestart: nothing keeps the user from clicking Revive again.
handleRestart == /\ ReviveButton
                 /\ \E r \in Restart : await[r] = "none" /\ Give(r, NoBody)
                 /\ UNCHANGED flags

-----------------------------------------------------------------------------
(* processor-service. *)

\* PUT /processor/state, /workers and /scenario, POST /processor/restart.
PutState(on) == [proc EXCEPT !.processing = on, !.goroutines = IF on THEN "RUNNING" ELSE "PAUSED"]
PutWorkers(n) == [proc EXCEPT !.workers = n]
PutScenario(sc) == [proc EXCEPT !.scenario = sc]
PostRestart == [proc EXCEPT !.goroutines = "RUNNING"]

Effect(h, body) == CASE h = "toggle" -> PutState(body.enabled)
                     [] h = "scale" -> PutWorkers(body.workers)
                     [] h = "scenario" -> PutScenario(body.scenario)
                     [] h \in Restart -> PostRestart

\* A request that reaches :8082 takes effect there and is answered.
Serve(h) ==
  /\ up /\ call[h].at = "sent"
  /\ proc' = IF await[h] = "command" THEN Effect(h, call[h].body) ELSE proc
  /\ call' = [call EXCEPT ![h] = Answered(proc')]
  /\ UNCHANGED <<up, foreign, outages, shown, flags, clicks, await>>

\* While :8082 is unreachable a request, or the answer to one, is lost: fetch rejects.
Lose(h) == /\ ~up /\ call[h].at \in {"sent", "answered"}
           /\ call' = [call EXCEPT ![h] = Failed]
           /\ UNCHANGED <<server, shown, flags, clicks, await>>

GoDown == up /\ outages < MaxOutages /\ up' = FALSE /\ outages' = outages + 1
            /\ UNCHANGED <<proc, foreign, shown, flags, clicks, await, call>>
ComeBack == ~up /\ up' = TRUE
            /\ UNCHANGED <<proc, foreign, outages, shown, flags, clicks, await, call>>

\* A worker crashes, a supervisor revives it, a scenario is used up, the status
\* bar or another browser turns the pull loop.
Foreign ==
  /\ foreign < MaxForeign
  /\ foreign' = foreign + 1
  /\ \/ proc.scenario # "normal" /\ proc' = [proc EXCEPT !.scenario = "normal"]
     \/ /\ proc.scenario = "crash_before_ack"
        /\ proc' = [proc EXCEPT !.scenario = "normal",
                      !.goroutines = IF proc.workers > 1 THEN "DEGRADED" ELSE "CRASHED"]
     \/ proc.goroutines \in {"DEGRADED", "CRASHED"} /\ proc' = PostRestart
     \/ proc' = PutState(~proc.processing)
  /\ UNCHANGED <<up, outages, shown, flags, clicks, await, call>>

-----------------------------------------------------------------------------
(* The continuations. *)

\* The handler has come to its end: `finally' lowers its flag.
Lower(h) == /\ isToggling' = IF h = "toggle" THEN FALSE ELSE isToggling
            /\ isScaling' = IF h = "scale" THEN FALSE ELSE isScaling
            /\ isSettingScenario' = IF h = "scenario" THEN FALSE ELSE isSettingScenario

\* The command was answered: the handler goes on to refresh the status. Only
\* handleToggle uses the answer.
CommandDone(h) == /\ await[h] = "command" /\ call[h].at = "answered"
                  /\ isProcessing' = IF h = "toggle" THEN call[h].status.processing ELSE isProcessing
                  /\ refreshDirectData(h)
                  /\ UNCHANGED <<server, directStatus, isConnected, flags, clicks>>

\* The command failed: the catch clause only logs it.
CommandFailed(h) == /\ await[h] = "command" /\ call[h].at = "failed"
                    /\ Await(h, "none", Idle)
                    /\ Lower(h)
                    /\ UNCHANGED <<server, shown, clicks>>

\* refreshDirectData, from its await on.
StatusDone(h) == /\ await[h] = "status" /\ call[h].at = "answered"
                 /\ directStatus' = call[h].status
                 /\ isProcessing' = call[h].status.processing
                 /\ isConnected' = TRUE
                 /\ Await(h, "none", Idle)
                 /\ Lower(h)
                 /\ UNCHANGED <<server, clicks>>

\* Mutant of StatusFailed: the panel does not notice.
StatusFailedUnnoticed(h) == /\ await[h] = "status" /\ call[h].at = "failed"
                            /\ Await(h, "none", Idle)
                            /\ Lower(h)
                            /\ UNCHANGED <<server, shown, clicks>>

StatusFailed(h) == /\ await[h] = "status" /\ call[h].at = "failed"
                   /\ isConnected' = FALSE
                   /\ Await(h, "none", Idle)
                   /\ Lower(h)
                   /\ UNCHANGED <<server, directStatus, isProcessing, clicks>>

Progress(h) == \/ Serve(h) \/ Lose(h)
               \/ CommandDone(h) \/ CommandFailed(h) \/ StatusDone(h) \/ StatusFailed(h)

User == \/ handleToggle \/ ClickReset \/ handleRestart
        \/ \E n \in Sizes : handleScaleWorkers(n)
        \/ \E sc \in Scenario : ClickCard(sc)

Next == \/ Tick \/ User \/ GoDown \/ ComeBack \/ Foreign
        \/ \E h \in Handler : Progress(h)

\* The interval keeps firing, calls end and promises are resumed. Users are free.
Fairness == WF_vars(Tick) /\ \A h \in Handler : WF_vars(Progress(h))

Spec == Init /\ [][Next]_vars /\ Fairness

-----------------------------------------------------------------------------
TypeOK ==
  /\ proc \in Status /\ up \in BOOLEAN
  /\ foreign \in 0..MaxForeign /\ outages \in 0..MaxOutages /\ clicks \in 0..MaxClicks
  /\ directStatus \in Status \cup {NoStatus}
  /\ {isProcessing, isConnected, isToggling, isScaling, isSettingScenario} \subseteq BOOLEAN
  /\ await \in [Handler -> {"none", "command", "status"}]
  /\ call \in [Handler -> Call]

(* The two copies of the pull loop's state that the panel keeps, isProcessing  *)
(* and directStatus.processing, agree unless a toggle is still running or the  *)
(* panel has lost the processor: the switch, the dot and the goroutine line    *)
(* never contradict each other in front of the user for good.                  *)
CopiesAgree ==
  \/ directStatus = NoStatus
  \/ isProcessing = directStatus.processing
  \/ isToggling \/ ~isConnected

(* When the processor stays reachable the panel ends up showing its state,     *)
(* whatever polls, commands and foreign changes overlapped before.             *)
ShowsProcessor == isConnected /\ directStatus = proc /\ isProcessing = proc.processing

(* Whatever fails, every command ends and its button is free again.            *)
ButtonsFree == ~isToggling /\ ~isScaling /\ ~isSettingScenario

=============================================================================

---------------------------- MODULE JobDelivery ----------------------------
(***************************************************************************)
(* One job message of stream JOBS on its way through the durable consumer  *)
(* "job-processor" (AckExplicit, AckWait 5s, unlimited redelivery) and the *)
(* competing workers of processor-service: jsPullLoop fetching one message *)
(* at a time and handleJetStreamMsg with its failure scenarios, from the   *)
(* delivery to the ACK, NAK, TERM or dead letter.                          *)
(*                                                                         *)
(* The broker is outside src/; its side (delivery counts, AckWait, what an *)
(* ACK, NAK or TERM does to a message) is modelled as the code and its     *)
(* comments rely on it.  Which goroutines exist and when they may pull is  *)
(* module WorkerPool; here a worker that crashed is "down" until its       *)
(* supervisor puts a successor in its place.                               *)
(***************************************************************************)
EXTENDS Naturals, FiniteSets

CONSTANTS Msg,          \* messages published to jobs.submitted
          NoMsg,        \* no message
          Worker,       \* pull workers of the pool
          Payload,      \* the payloads jobs are submitted with
          Armable,      \* scenarios the operator arms
          MaxAttempts,  \* max_delivery_attempts (3 unless the payload says more)
          Faults        \* {"restart"}: the processor may be killed;
                        \* {"dlq"}: JOBS_DLQ may be missing or failing

Scenario == {"normal", "crash_before_ack", "exceed_ack_wait", "nak_message",
             "term_message"}

\* scenario: an override of the armed one, "" for none; fails: how many attempts
\* simulate_failure makes fail; valid: it unmarshals, and neither its header nor
\* its body says CORE.
ASSUME DeliveryAssumption ==
  /\ NoMsg \notin Msg
  /\ MaxAttempts \in Nat \ {0}
  /\ Payload \subseteq [scenario : Scenario \cup {""}, fails : Nat, valid : BOOLEAN]
  /\ Armable \subseteq Scenario
  /\ Faults \subseteq {"restart", "dlq"}

VARIABLES
  \* the broker
  msgState,    \* "absent", "ready", "out" (AckWait running) or how it was settled
  delivered,   \* NumDelivered
  payload,     \* what each message carries
  dlqUp,       \* stream JOBS_DLQ exists and takes messages
  dlq,         \* messages that were ever stored in JOBS_DLQ
  \* processor-service
  scenario,    \* activeScenario
  once,        \* scenarioOnce
  pc,          \* where each worker is
  msg,         \* the message it handles
  attempt,     \* attemptCount of that delivery
  seen,        \* the scenario it decided on
  seenOnce,    \* the scenarioOnce it read with it
  \* history
  completed    \* COMPLETED events per message, up to 2

brokerVars   == <<msgState, delivered, payload>>
dlqVars      == <<dlqUp, dlq>>
scenarioVars == <<scenario, once>>
workerVars   == <<pc, msg, attempt, seen, seenOnce>>
vars == <<msgState, delivered, payload, dlqUp, dlq, scenario, once, pc, msg,
          attempt, seen, seenOnce, completed>>

Settlement == {"executed", "deadlettered", "terminated", "discarded", "dropped"}
Unsettled  == {"ready", "out"}

\* Stages of a handler that sleeps about a second and settles its message well
\* within AckWait, and those that may outlast it: the 7s of exceed_ack_wait and
\* the publish to JOBS_DLQ with its 5s default timeout.
Prompt  == {"received", "processing", "decided", "nak", "term", "retry", "success", "ack"}
Stalled == {"slow", "deadletter", "dlqack_dead", "dlqack_dropped"}
Stage   == Prompt \cup Stalled

\* NumDelivered is compared with 1, with the failures a payload asks for and
\* with MaxAttempts; beyond all of these the count need not be told apart.
Cap == 1 + MaxAttempts
NoPayload == [scenario |-> "", fails |-> 0, valid |-> TRUE]

TypeOK ==
  /\ msgState \in [Msg -> {"absent"} \cup Unsettled \cup Settlement]
  /\ delivered \in [Msg -> 0 .. Cap]
  /\ payload \in [Msg -> Payload \cup {NoPayload}]
  /\ dlqUp \in BOOLEAN
  /\ dlq \in SUBSET Msg
  /\ scenario \in Scenario
  /\ once \in BOOLEAN
  /\ pc \in [Worker -> {"idle", "down"} \cup Stage]
  /\ msg \in [Worker -> Msg \cup {NoMsg}]
  /\ attempt \in [Worker -> 0 .. Cap]
  /\ seen \in [Worker -> Scenario]
  /\ seenOnce \in [Worker -> BOOLEAN]
  /\ completed \in [Msg -> 0 .. 2]

Init ==
  /\ msgState = [m \in Msg |-> "absent"]
  /\ delivered = [m \in Msg |-> 0]
  /\ payload = [m \in Msg |-> NoPayload]
  /\ dlqUp = ("dlq" \notin Faults)
  /\ dlq = {}
  /\ scenario = "normal"
  /\ once = TRUE
  /\ pc = [w \in Worker |-> "idle"]
  /\ msg = [w \in Worker |-> NoMsg]
  /\ attempt = [w \in Worker |-> 0]
  /\ seen = [w \in Worker |-> "normal"]
  /\ seenOnce = [w \in Worker |-> TRUE]
  /\ completed = [m \in Msg |-> 0]

-----------------------------------------------------------------------------
(* The broker's side.                                                      *)

\* An ACK or TERM settles a message that is not settled yet, even one whose
\* AckWait passed and that waits for redelivery or is with another worker.
Settle(m, how) ==
  msgState' = [msgState EXCEPT ![m] = IF @ \in Unsettled THEN how ELSE @]

\* A NAK makes an unsettled message ready for redelivery at once.
Nak(m) == msgState' = [msgState EXCEPT ![m] = IF @ \in Unsettled THEN "ready" ELSE @]

\* PublishJobSubmitted: stored in JOBS (a duplicate changes nothing).
Publish(m) ==
  /\ msgState[m] = "absent"
  /\ msgState' = [msgState EXCEPT ![m] = "ready"]
  /\ \E p \in Payload : payload' = [payload EXCEPT ![m] = p]
  /\ UNCHANGED <<delivered, dlqVars, scenarioVars, workerVars, completed>>

\* AckWait passes only when no prompt handler has the message: its worker died
\* or stalls, or it was negatively acknowledged with a delay.
Expire(m) ==
  /\ msgState[m] = "out"
  /\ \A w \in Worker : msg[w] = m => pc[w] \notin Prompt
  /\ msgState' = [msgState EXCEPT ![m] = "ready"]
  /\ UNCHANGED <<delivered, payload, dlqVars, scenarioVars, workerVars, completed>>

\* SetupDLQ and CleanupDLQ of the control service, or an outage of the stream.
ToggleDLQ ==
  /\ "dlq" \in Faults
  /\ dlqUp' = ~dlqUp
  /\ UNCHANGED <<brokerVars, dlq, scenarioVars, workerVars, completed>>

-----------------------------------------------------------------------------
(* One worker.                                                             *)

Goto(w, s) == pc' = [pc EXCEPT ![w] = s]

\* The handler returns: the worker forgets its message.
Leave(w, s) ==
  /\ pc' = [pc EXCEPT ![w] = s]
  /\ msg' = [msg EXCEPT ![w] = NoMsg]
  /\ attempt' = [attempt EXCEPT ![w] = 0]
  /\ seen' = [seen EXCEPT ![w] = "normal"]
  /\ seenOnce' = [seenOnce EXCEPT ![w] = TRUE]

\* jsConsumer.Fetch(1) returns a message.
Pull(w, m) ==
  /\ pc[w] = "idle"
  /\ msgState[m] = "ready"
  /\ msgState' = [msgState EXCEPT ![m] = "out"]
  /\ delivered' = [delivered EXCEPT ![m] = IF @ < Cap THEN @ + 1 ELSE @]
  /\ Goto(w, "received")
  /\ msg' = [msg EXCEPT ![w] = m]
  /\ attempt' = [attempt EXCEPT ![w] = delivered'[m]]
  /\ UNCHANGED <<payload, dlqVars, scenarioVars, seen, seenOnce, completed>>

\* A message that does not unmarshal or is meant for Core NATS is acknowledged
\* unprocessed.
Discard(w) ==
  /\ pc[w] = "received" /\ ~payload[msg[w]].valid
  /\ Settle(msg[w], "discarded")
  /\ Leave(w, "idle")
  /\ UNCHANGED <<delivered, payload, dlqVars, scenarioVars, completed>>

\* PROCESSING is recorded and the worker sleeps for a second.
Process(w) ==
  /\ pc[w] = "received" /\ payload[msg[w]].valid
  /\ Goto(w, "processing")
  /\ UNCHANGED <<brokerVars, dlqVars, scenarioVars, msg, attempt, seen, seenOnce, completed>>

\* Mutant: an empty override counts as one.
ReadScenarioUnchecked(w) ==
  /\ pc[w] = "processing"
  /\ Goto(w, "decided")
  /\ seen' = [seen EXCEPT ![w] = payload[msg[w]].scenario]
  /\ seenOnce' = [seenOnce EXCEPT ![w] = once]
  /\ UNCHANGED <<brokerVars, dlqVars, scenarioVars, msg, attempt, completed>>

\* The armed scenario is read under the lock, then the payload overrides it.
ReadScenario(w) ==
  /\ pc[w] = "processing"
  /\ Goto(w, "decided")
  /\ LET override == payload[msg[w]].scenario IN
       seen' = [seen EXCEPT ![w] = IF override # "" THEN override ELSE scenario]
  /\ seenOnce' = [seenOnce EXCEPT ![w] = once]
  /\ UNCHANGED <<brokerVars, dlqVars, scenarioVars, msg, attempt, completed>>

\* A scenario that strikes disarms itself if it was armed for once, by now
\* whatever is armed.
Disarm(w) ==
  /\ scenario' = IF seenOnce[w] THEN "normal" ELSE scenario
  /\ UNCHANGED once

Fails(w) == attempt[w] <= payload[msg[w]].fails

\* The scenarios that strike the first delivery only.
FirstAttempt(w, s) == seen[w] = s /\ attempt[w] = 1

Strikes(w) == \/ seen[w] = "term_message"
              \/ \E s \in {"crash_before_ack", "exceed_ack_wait", "nak_message"} :
                   FirstAttempt(w, s)

\* crash_before_ack: the goroutine ends without an answer to the broker.
CrashBeforeAck(w) ==
  /\ pc[w] = "decided" /\ FirstAttempt(w, "crash_before_ack")
  /\ Disarm(w)
  /\ Leave(w, "down")
  /\ UNCHANGED <<brokerVars, dlqVars, completed>>

\* Every other branch goes on with an answer: the late ACK after 7s, a NAK, a
\* TERM, the dead letter, a retry or the COMPLETED path.
ScenarioBranch(w) ==
  /\ pc[w] = "decided"
  /\ \/ FirstAttempt(w, "exceed_ack_wait") /\ Goto(w, "slow")
     \/ FirstAttempt(w, "nak_message") /\ Goto(w, "nak")
     \/ seen[w] = "term_message" /\ Goto(w, "term")
  /\ Disarm(w)
  /\ UNCHANGED <<brokerVars, dlqVars, msg, attempt, seen, seenOnce, completed>>

\* Mutant: one attempt short.
OutcomeBranchEarly(w) ==
  /\ pc[w] = "decided" /\ ~Strikes(w)
  /\ \/ Fails(w) /\ attempt[w] + 1 >= MaxAttempts /\ Goto(w, "deadletter")
     \/ Fails(w) /\ attempt[w] + 1 < MaxAttempts /\ Goto(w, "retry")
     \/ ~Fails(w) /\ Goto(w, "success")
  /\ UNCHANGED <<brokerVars, dlqVars, scenarioVars, msg, attempt, seen, seenOnce, completed>>

OutcomeBranch(w) ==
  /\ pc[w] = "decided" /\ ~Strikes(w)
  /\ \/ Fails(w) /\ attempt[w] >= MaxAttempts /\ Goto(w, "deadletter")
     \/ Fails(w) /\ attempt[w] < MaxAttempts /\ Goto(w, "retry")
     \/ ~Fails(w) /\ Goto(w, "success")
  /\ UNCHANGED <<brokerVars, dlqVars, scenarioVars, msg, attempt, seen, seenOnce, completed>>

CountCompletion(w) ==
  completed' = [completed EXCEPT ![msg[w]] = IF @ < 2 THEN @ + 1 ELSE @]

\* Mutant: the slow handler gives the message back.
LateNak(w) ==
  /\ pc[w] = "slow"
  /\ Nak(msg[w])
  /\ CountCompletion(w)
  /\ Leave(w, "idle")
  /\ UNCHANGED <<delivered, payload, dlqVars, scenarioVars>>

\* exceed_ack_wait, 7s later: ACK, then COMPLETED, whoever has the message now.
LateAck(w) ==
  /\ pc[w] = "slow"
  /\ Settle(msg[w], "executed")
  /\ CountCompletion(w)
  /\ Leave(w, "idle")
  /\ UNCHANGED <<delivered, payload, dlqVars, scenarioVars>>

SendNak(w) ==
  /\ pc[w] = "nak"
  /\ Nak(msg[w])
  /\ Leave(w, "idle")
  /\ UNCHANGED <<delivered, payload, dlqVars, scenarioVars, completed>>

SendTerm(w) ==
  /\ pc[w] = "term"
  /\ Settle(msg[w], "terminated")
  /\ Leave(w, "idle")
  /\ UNCHANGED <<delivered, payload, dlqVars, scenarioVars, completed>>

\* simulate_failure below MaxAttempts: a plain NAK, or one with a delay, which
\* restarts the broker's timer instead.
Retry(w) ==
  /\ pc[w] = "retry"
  /\ Nak(msg[w]) \/ UNCHANGED msgState
  /\ Leave(w, "idle")
  /\ UNCHANGED <<delivered, payload, dlqVars, scenarioVars, completed>>

\* The last attempt is published to jobs.dlq.  The publish fails when there is
\* no stream to take it; the error is logged and the handler goes on.
PublishDLQ(w) ==
  /\ pc[w] = "deadletter"
  /\ \/ dlqUp /\ dlq' = dlq \cup {msg[w]} /\ Goto(w, "dlqack_dead")
     \/ ~dlqUp /\ UNCHANGED dlq /\ Goto(w, "dlqack_dropped")
  /\ UNCHANGED <<brokerVars, dlqUp, scenarioVars, msg, attempt, seen, seenOnce, completed>>

\* Mutant: the original is acknowledged only if the publish failed.
AckUnlessDeadLettered(w) ==
  /\ \/ pc[w] = "dlqack_dead" /\ UNCHANGED msgState
     \/ pc[w] = "dlqack_dropped" /\ Settle(msg[w], "dropped")
  /\ Leave(w, "idle")
  /\ UNCHANGED <<delivered, payload, dlqVars, scenarioVars, completed>>

AckDeadLetter(w) ==
  /\ \/ pc[w] = "dlqack_dead" /\ Settle(msg[w], "deadlettered")
     \/ pc[w] = "dlqack_dropped" /\ Settle(msg[w], "dropped")
  /\ Leave(w, "idle")
  /\ UNCHANGED <<delivered, payload, dlqVars, scenarioVars, completed>>

\* COMPLETED is recorded before the ACK is sent.
Complete(w) ==
  /\ pc[w] = "success"
  /\ CountCompletion(w)
  /\ Goto(w, "ack")
  /\ UNCHANGED <<brokerVars, dlqVars, scenarioVars, msg, attempt, seen, seenOnce>>

\* Mutant: a completed message is handed back.
NakCompleted(w) ==
  /\ pc[w] = "ack"
  /\ Nak(msg[w])
  /\ Leave(w, "idle")
  /\ UNCHANGED <<delivered, payload, dlqVars, scenarioVars, completed>>

SendAck(w) ==
  /\ pc[w] = "ack"
  /\ Settle(msg[w], "executed")
  /\ Leave(w, "idle")
  /\ UNCHANGED <<delivered, payload, dlqVars, scenarioVars, completed>>

Handle(w) ==
  \/ Discard(w)        \/ Process(w)   \/ ReadScenario(w) \/ CrashBeforeAck(w)
  \/ ScenarioBranch(w) \/ OutcomeBranch(w)
  \/ LateAck(w)        \/ SendNak(w)   \/ SendTerm(w)     \/ Retry(w)
  \/ PublishDLQ(w)     \/ AckDeadLetter(w)
  \/ Complete(w)       \/ SendAck(w)

\* The supervisor revives the worker 5.5s after the crash.
Respawn(w) ==
  /\ pc[w] = "down"
  /\ Goto(w, "idle")
  /\ UNCHANGED <<brokerVars, dlqVars, scenarioVars, msg, attempt, seen, seenOnce, completed>>

-----------------------------------------------------------------------------
(* The operator and the processor's process.                               *)

\* PUT /processor/scenario
Arm(s, o) ==
  /\ scenario' = s
  /\ once' = o
  /\ UNCHANGED <<brokerVars, dlqVars, workerVars, completed>>

\* The process dies and starts again: its memory is new, the broker's is not.
Restart ==
  /\ "restart" \in Faults
  /\ scenario' = "normal" /\ once' = TRUE
  /\ pc' = [w \in Worker |-> "idle"]
  /\ msg' = [w \in Worker |-> NoMsg]
  /\ attempt' = [w \in Worker |-> 0]
  /\ seen' = [w \in Worker |-> "normal"]
  /\ seenOnce' = [w \in Worker |-> TRUE]
  /\ UNCHANGED <<brokerVars, dlqVars, completed>>

Next ==
  \/ \E m \in Msg : Publish(m) \/ Expire(m)
  \/ ToggleDLQ
  \/ \E w \in Worker : (\E m \in Msg : Pull(w, m)) \/ Handle(w) \/ Respawn(w)
  \/ \E s \in Armable, o \in BOOLEAN : Arm(s, o)
  \/ Restart

\* Handlers run to their end and supervisors fire; the broker's timers fire, and
\* it hands every ready message to some idle worker sooner or later.
Fairness ==
  /\ \A w \in Worker : WF_vars(Handle(w)) /\ WF_vars(Respawn(w))
  /\ \A m \in Msg : WF_vars(Expire(m)) /\ SF_vars(\E w \in Worker : Pull(w, m))

Spec == Init /\ [][Next]_vars /\ Fairness

-----------------------------------------------------------------------------
(* Properties.                                                             *)

\* A message is with at most one prompt handler, and that handler has its
\* latest delivery: crashes, restarts, NAKs and the late ACK of a stalled
\* handler never put a second worker on a job somebody works on in time
\* (worker.go jsPullLoop, handleJetStreamMsg; the 5s AckWait of
\* subscribeJetStream).
OnePromptHandler ==
  \A v \in Worker : pc[v] \in Prompt =>
    /\ msgState[msg[v]] # "ready" /\ attempt[v] = delivered[msg[v]]
    /\ \A w \in Worker \ {v} : pc[w] \in Prompt => msg[w] # msg[v]

\* A job is completed at most once, as long as no handler outlasts AckWait
\* (docs/consumer_testing.md:18: each message is delivered to exactly one worker,
\* no message duplication occurs; worker.go handleJetStreamMsg).
NoDuplicateExecution == \A m \in Msg : completed[m] <= 1

\* The outcome the contract sees: what settled the message, whoever still has
\* it in hand.
Contract == INSTANCE JobContract WITH
  outcome <- [m \in Msg |-> IF msgState[m] \in Unsettled THEN "owed" ELSE msgState[m]]

\* Every published message has one outcome, whatever crashes and however late the
\* ACKs come, and gets it unless the processor keeps being restarted (worker.go
\* handleJetStreamMsg).
ImplementsContract ==
  Contract!Safety /\ (<>[][~Restart]_vars => Contract!Liveness)

\* A job that fails fewer times than it may be attempted is executed in the end,
\* unless it is terminated: no crash, stall, NAK or restart of the processor
\* loses it or uses its attempts up (worker.go handleJetStreamMsg).
Healthy(m) == msgState[m] # "absent" /\ payload[m].valid /\ payload[m].fails < MaxAttempts
HealthyJobsComplete ==
  <>[][~Restart]_vars =>
    \A m \in Msg : Healthy(m) ~> msgState[m] \in {"executed", "terminated"}

=============================================================================

----------------------------- MODULE QueueGroup -----------------------------
(* The Core NATS queue group of processor-service (queue_group.go and the     *)
(* queue responders of control.go), and the panel of the dashboard that       *)
(* resizes it, resets its counters, sends it messages and polls its status    *)
(* (QueueGroupPanel.tsx, through demo-control-service and job-service).       *)
EXTENDS Integers, Functions

CONSTANTS
  MaxWorkers,  \* the largest group (5 in the code)
  MaxSent,     \* bound: messages published
  MaxClicks,   \* bound: commands the user gives
  MaxOutages,  \* bound: times that the processor loses its NATS connection
  NoStatus     \* the panel's status before the first answer (null)

VARIABLES
  \* processor-service
  queueWorkersCount,  \* the configured size
  queueSubs,          \* the workers that are subscribed
  queueDistribution,  \* messages counted per worker
  setting,            \* where the responder of queuegroup.config.set is, and whether it ever ran
  up, outages,        \* the processor is connected; bounded: outages so far
  \* messages
  sent,               \* messages published so far
  batch,              \* messages that job-service has still to publish
  pending,            \* <<worker, message>>: buffered in a subscription
  counted,            \* how often each message has been handled
  \* the panel
  status, workers, isUpdatingWorkers, isResetting, isSending, clicks,
  await, call         \* what each of its handlers waits for, and what is known of it

group == <<queueWorkersCount, queueSubs, queueDistribution, setting>>
link == <<up, outages>>
messages == <<sent, batch, pending, counted>>
shown == <<status, workers>>
flags == <<isUpdatingWorkers, isResetting, isSending>>
panel == <<shown, flags, clicks>>
vars == <<group, link, messages, panel, await, call>>

Worker == 1..MaxWorkers
Msg == 1..MaxSent
Handler == {"poll", "workers", "reset", "send"}
Status == [workers: Worker, distribution: [Worker -> 0..MaxSent]]
Call == [at: {"none", "failed", "done"}] \cup [at: {"sent", "served"}, n: 0..(MaxWorkers + MaxSent)]
          \cup [at: {"answered"}, status: Status]
Idle == [at |-> "none"]
Sent(n) == [at |-> "sent", n |-> n]
Failed == [at |-> "failed"]
Done == [at |-> "done"]
Answered(s) == [at |-> "answered", status |-> s]

GroupAssumption == MaxWorkers \in Nat \ {0} /\ {MaxSent, MaxClicks, MaxOutages} \subseteq Nat

\* Workers that the map does not name have counted nothing.
Zero == [w \in Worker |-> 0]

\* The answer of the status, reset and config responders.
QueueGroupStatus == [workers |-> queueWorkersCount, distribution |-> queueDistribution]

\* What GetQueueGroupStatus answers, with 200 OK, when the processor does not.
DefaultStatus == [workers |-> 1, distribution |-> Zero]

-----------------------------------------------------------------------------
(* What the panel shows. *)

distribution == IF status = NoStatus THEN Zero ELSE status.distribution
totalDelivered == SumFunction(distribution)
maxWorkersToDisplay == IF workers < 2 /\ MaxWorkers > 1 THEN 2 ELSE workers
WorkerButton(n) == [lit |-> workers = n, disabled |-> isUpdatingWorkers]
ResetButton == [disabled |-> isResetting \/ totalDelivered = 0]
SendButton == [disabled |-> isSending]
Bars == [w \in 1..maxWorkersToDisplay |-> [count |-> distribution[w], offline |-> w > workers]]

-----------------------------------------------------------------------------
Init ==
  /\ queueWorkersCount = 1 /\ queueSubs = {1} /\ queueDistribution = Zero
  /\ setting = [at |-> "idle", resized |-> FALSE]
  /\ up = TRUE /\ outages = 0
  /\ sent = 0 /\ batch = 0 /\ pending = {} /\ counted = [m \in Msg |-> 0]
  /\ status = NoStatus /\ workers = 1
  /\ isUpdatingWorkers = FALSE /\ isResetting = FALSE /\ isSending = FALSE
  /\ clicks = 0
  /\ await = [h \in Handler |-> "none"] /\ call = [h \in Handler |-> Idle]

Await(h, what, c) == await' = [await EXCEPT ![h] = what] /\ call' = [call EXCEPT ![h] = c]

(* The handlers of the panel, up to their first await. *)

\* fetchStatus, every 2 s.
fetchStatus(h) == Await(h, "status", Sent(0))

Tick == /\ await["poll"] = "none"
        /\ fetchStatus("poll")
        /\ UNCHANGED <<group, link, messages, panel>>

Give(h, n) == /\ clicks < MaxClicks
              /\ clicks' = clicks + 1
              /\ Await(h, "command", Sent(n))
              /\ UNCHANGED <<group, link, messages, shown>>

handleWorkersChange(n) == /\ ~WorkerButton(n).disabled
                          /\ n # workers
                          /\ Give("workers", n)
                          /\ isUpdatingWorkers' = TRUE
                          /\ UNCHANGED <<isResetting, isSending>>

handleResetDistribution == /\ ~ResetButton.disabled
                           /\ Give("reset", 0)
                           /\ isResetting' = TRUE
                           /\ UNCHANGED <<isUpdatingWorkers, isSending>>

handleSendMessages(n) == /\ ~SendButton.disabled
                         /\ Give("send", n)
                         /\ isSending' = TRUE
                         /\ UNCHANGED <<isUpdatingWorkers, isResetting>>

-----------------------------------------------------------------------------
(* The services. *)

Answer(h, s) == call' = [call EXCEPT ![h] = Answered(s)] /\ UNCHANGED await

\* The responders of status and reset take queueMu: they wait for a reconfiguration
\* that holds it.
MutexFree == setting.at \in {"idle", "recorded"}

\* GetQueueGroupStatus: the processor's answer, or the default one.
ServeStatus(h) ==
  /\ await[h] = "status" /\ call[h].at = "sent"
  /\ \/ up /\ MutexFree /\ Answer(h, QueueGroupStatus)
     \/ ~up /\ Answer(h, DefaultStatus)
  /\ UNCHANGED <<group, link, messages, panel>>

\* Mutant of ServeReset: the map is dropped, not replaced.
ServeResetToNil ==
  /\ await["reset"] = "command" /\ call["reset"].at = "sent"
  /\ up /\ MutexFree
  /\ queueDistribution' = [w \in {} |-> 0]
  /\ Answer("reset", [QueueGroupStatus EXCEPT !.distribution = Zero])
  /\ UNCHANGED <<queueWorkersCount, queueSubs, setting, link, messages, panel>>

\* PostQueueGroupReset: a fresh map.
ServeReset ==
  /\ await["reset"] = "command" /\ call["reset"].at = "sent"
  /\ up /\ MutexFree
  /\ queueDistribution' = Zero
  /\ Answer("reset", [QueueGroupStatus EXCEPT !.distribution = Zero])
  /\ UNCHANGED <<queueWorkersCount, queueSubs, setting, link, messages, panel>>

\* PutQueueGroupConfig: the responder records the size ...
RecordCount ==
  /\ await["workers"] = "command" /\ call["workers"].at = "sent"
  /\ up /\ setting.at = "idle"
  /\ queueWorkersCount' = call["workers"].n
  /\ setting' = [at |-> "recorded", resized |-> TRUE]
  /\ call' = [call EXCEPT !["workers"].at = "served"]
  /\ UNCHANGED <<queueSubs, queueDistribution, link, messages, panel, await>>

\* Mutant of DropSubscriptions: what is buffered stays.
DropSubscriptionsDraining ==
  /\ setting.at = "recorded"
  /\ queueSubs' = {}
  /\ setting' = [setting EXCEPT !.at = "subscribing"]
  /\ UNCHANGED <<queueWorkersCount, queueDistribution, link, messages, panel, await, call>>

\* ... subscribeQueueGroup takes queueMu and ends all subscriptions, and with
\* them what they have buffered ...
DropSubscriptions ==
  /\ setting.at = "recorded"
  /\ queueSubs' = {} /\ pending' = {}
  /\ setting' = [setting EXCEPT !.at = "subscribing"]
  /\ UNCHANGED <<queueWorkersCount, queueDistribution, link, sent, batch, counted, panel, await, call>>

\* ... makes the new ones, processor-1 first ...
Subscribe ==
  /\ setting.at = "subscribing"
  /\ queueSubs # 1..queueWorkersCount
  /\ \E w \in Worker : /\ w \notin queueSubs /\ \A v \in 1..(w - 1) : v \in queueSubs
                       /\ queueSubs' = queueSubs \cup {w}
  /\ UNCHANGED <<queueWorkersCount, queueDistribution, setting, link, messages, panel, await, call>>

\* ... and answers, when the request still waits.
AnswerConfig ==
  /\ setting.at = "subscribing" /\ queueSubs = 1..queueWorkersCount
  /\ setting' = [setting EXCEPT !.at = "idle"]
  /\ IF call["workers"].at = "served" THEN Answer("workers", QueueGroupStatus)
     ELSE UNCHANGED <<await, call>>
  /\ UNCHANGED <<queueWorkersCount, queueSubs, queueDistribution, link, messages, panel>>

\* SubmitQueueJobs publishes its batch one by one ...
StartBatch ==
  /\ await["send"] = "command" /\ call["send"].at = "sent"
  /\ batch' = call["send"].n
  /\ call' = [call EXCEPT !["send"].at = "served"]
  /\ UNCHANGED <<group, link, sent, pending, counted, panel, await>>

\* ... the broker hands each message to one member of the group that it knows,
\* to none when there is none ...
Deliver(m) == IF up /\ queueSubs # {}
              THEN \E w \in queueSubs : pending' = pending \cup {<<w, m>>}
              ELSE UNCHANGED pending

Publish ==
  /\ batch > 0 /\ sent < MaxSent
  /\ sent' = sent + 1 /\ batch' = batch - 1
  /\ Deliver(sent')
  /\ UNCHANGED <<group, link, counted, panel, await, call>>

\* ... and answers with the ids of the batch.
AnswerBatch ==
  /\ call["send"].at = "served"
  /\ batch = 0 \/ sent = MaxSent
  /\ batch' = 0
  /\ call' = [call EXCEPT !["send"] = Done]
  /\ UNCHANGED <<group, link, sent, pending, counted, panel, await>>

\* handleQueueMessage: a worker takes the next message of its subscription and
\* counts it, under queueMu.
handleQueueMessage ==
  /\ MutexFree
  /\ \E p \in pending :
       /\ \A q \in pending : q[1] = p[1] => p[2] <= q[2]
       /\ pending' = pending \ {p}
       /\ queueDistribution' = [queueDistribution EXCEPT ![p[1]] = @ + 1]
       /\ counted' = [counted EXCEPT ![p[2]] = @ + 1]
  /\ UNCHANGED <<queueWorkersCount, queueSubs, setting, link, sent, batch, panel, await, call>>

\* job-service does not take the batch, fails to publish the rest of it, or its
\* answer is lost.
SubmitFails ==
  /\ await["send"] = "command" /\ call["send"].at \in {"sent", "served", "done"}
  /\ batch' = 0
  /\ call' = [call EXCEPT !["send"] = Failed]
  /\ UNCHANGED <<group, link, sent, pending, counted, panel, await>>

\* The control service gives up on a responder that cannot answer, or is away
\* itself, and with it the status. A request that the processor has received is
\* still carried out.
Timeout(h) ==
  /\ await[h] = "status" \/ h \in {"workers", "reset"}
  /\ ~up /\ call[h].at \in {"sent", "served"}
  /\ call' = [call EXCEPT ![h] = Failed]
  /\ UNCHANGED <<group, link, messages, panel, await>>

Disconnect == up /\ outages < MaxOutages /\ up' = FALSE /\ outages' = outages + 1
                /\ UNCHANGED <<group, messages, panel, await, call>>
\* The client library subscribes again by itself.
Reconnect == ~up /\ up' = TRUE
               /\ UNCHANGED <<outages, group, messages, panel, await, call>>

-----------------------------------------------------------------------------
(* The handlers, from an await on. *)

\* fetchStatus: the answer replaces what is shown; in handleSendMessages it also
\* ends the handler.
StatusDone(h) == /\ await[h] = "status" /\ call[h].at = "answered"
                 /\ status' = call[h].status
                 /\ workers' = call[h].status.workers
                 /\ isSending' = IF h = "send" THEN FALSE ELSE isSending
                 /\ Await(h, "none", Idle)
                 /\ UNCHANGED <<group, link, messages, isUpdatingWorkers, isResetting, clicks>>

\* fetchStatus keeps a failure to itself: nothing changes, and handleSendMessages
\* ends all the same.
StatusFailed(h) == /\ await[h] = "status" /\ call[h].at = "failed"
                   /\ isSending' = IF h = "send" THEN FALSE ELSE isSending
                   /\ Await(h, "none", Idle)
                   /\ UNCHANGED <<group, link, messages, shown, isUpdatingWorkers, isResetting, clicks>>

WorkersDone == /\ await["workers"] = "command" /\ call["workers"].at \in {"answered", "failed"}
               /\ IF call["workers"].at = "answered"
                  THEN status' = call["workers"].status /\ workers' = status'.workers
                  ELSE UNCHANGED shown
               /\ isUpdatingWorkers' = FALSE
               /\ Await("workers", "none", Idle)
               /\ UNCHANGED <<group, link, messages, isResetting, isSending, clicks>>

\* A reset shows the answer's counters, and leaves the lit size alone.
ResetDone == /\ await["reset"] = "command" /\ call["reset"].at \in {"answered", "failed"}
             /\ IF call["reset"].at = "answered" THEN status' = call["reset"].status
                                                 ELSE UNCHANGED status
             /\ isResetting' = FALSE
             /\ Await("reset", "none", Idle)
             /\ UNCHANGED <<group, link, messages, workers, isUpdatingWorkers, isSending, clicks>>

SendDone == /\ await["send"] = "command" /\ call["send"] = Done
            /\ fetchStatus("send")
            /\ UNCHANGED <<group, link, messages, panel>>

\* Mutant of SendFailed: the button is only given back by the refresh.
SendFailedBusy == /\ await["send"] = "command" /\ call["send"].at = "failed"
                  /\ Await("send", "none", Idle)
                  /\ UNCHANGED <<group, link, messages, panel>>

\* A submit that failed is not followed by a refresh.
SendFailed == /\ await["send"] = "command" /\ call["send"].at = "failed"
              /\ isSending' = FALSE
              /\ Await("send", "none", Idle)
              /\ UNCHANGED <<group, link, messages, shown, isUpdatingWorkers, isResetting, clicks>>

-----------------------------------------------------------------------------
User == \/ \E n \in Worker : handleWorkersChange(n)
        \/ handleResetDistribution
        \/ \E n \in 1..(MaxSent - sent) : handleSendMessages(n)

Reconfigure == RecordCount \/ DropSubscriptions \/ Subscribe \/ AnswerConfig
Submit == StartBatch \/ Publish \/ AnswerBatch \/ SubmitFails

Progress(h) == \/ ServeStatus(h) \/ Timeout(h) \/ StatusDone(h) \/ StatusFailed(h)
               \/ h = "workers" /\ (Reconfigure \/ WorkersDone)
               \/ h = "reset" /\ (ServeReset \/ ResetDone)
               \/ h = "send" /\ (Submit \/ SendDone \/ SendFailed)

Next == \/ User \/ Tick \/ handleQueueMessage \/ Disconnect \/ Reconnect
        \/ \E h \in Handler : Progress(h)

\* The services run, requests end, the interval fires. Users and outages are free.
Fairness == /\ WF_vars(Tick) /\ WF_vars(handleQueueMessage)
            /\ \A h \in Handler : WF_vars(Progress(h))

Spec == Init /\ [][Next]_vars /\ Fairness

-----------------------------------------------------------------------------
TypeOK ==
  /\ queueWorkersCount \in Worker /\ queueSubs \subseteq Worker
  /\ queueDistribution \in [Worker -> 0..MaxSent]
  /\ setting \in [at: {"idle", "recorded", "subscribing"}, resized: BOOLEAN]
  /\ up \in BOOLEAN /\ outages \in 0..MaxOutages
  /\ sent \in 0..MaxSent /\ batch \in 0..MaxSent /\ pending \subseteq Worker \X Msg
  /\ counted \in [Msg -> Nat]
  /\ status \in Status \cup {NoStatus} /\ workers \in Worker
  /\ {isUpdatingWorkers, isResetting, isSending} \subseteq BOOLEAN /\ clicks \in 0..MaxClicks
  /\ await \in [Handler -> {"none", "command", "status"}] /\ call \in [Handler -> Call]

(* The members of the group are the configured ones, and only they hold        *)
(* messages, whenever no reconfiguration is running: a resize that times out   *)
(* at the dashboard, or that starts after one that did, leaves no worker       *)
(* behind and none out.                                                        *)
MembersMatchCount ==
  /\ setting.at = "idle" => queueSubs = 1..queueWorkersCount
  /\ \A p \in pending : p[1] \in queueSubs

(* In a group that nobody resizes and that stays connected every message is    *)
(* handled, once: resets, polls and other messages never cost one.             *)
AllHandled == \A m \in Msg : sent >= m => counted[m] = 1

(* A panel that reaches the processor ends up showing the group as it is, the  *)
(* default answer of an outage and late answers notwithstanding.               *)
ShowsGroup == status = QueueGroupStatus /\ workers = queueWorkersCount

(* Whatever fails, every command ends and its button is free again.            *)
ButtonsFree == ~isUpdatingWorkers /\ ~isResetting /\ ~isSending

=============================================================================

-------------------------- MODULE QueueGroupProofs --------------------------
(***************************************************************************)
(* Theorems of QueueGroup as MCProcessorPanels runs it, for groups of any  *)
(* size and any number of messages, commands and outages; and the types of *)
(* both screens of MCProcessorPanels.                                      *)
(***************************************************************************)
EXTENDS ProcessorPanelProofs, Integers, FiniteSetTheorems, TLAPS

-----------------------------------------------------------------------------
(* The members of the group.                                               *)

LEMMA InitMembers == Queue!Init => Queue!MembersMatchCount
BY DEF Queue!Init, Queue!MembersMatchCount

\* Only the reconfiguration changes the members, and only a delivery to one of
\* them adds a message.
LEMMA NextMembers == Queue!MembersMatchCount /\ [Queue!Next]_(Queue!vars) => Queue!MembersMatchCount'
<1> SUFFICES ASSUME Queue!MembersMatchCount, [Queue!Next]_(Queue!vars) PROVE Queue!MembersMatchCount'
  OBVIOUS
<1>1. CASE Queue!RecordCount
  BY <1>1 DEF Queue!RecordCount, Queue!messages, Queue!MembersMatchCount
<1>2. CASE Queue!DropSubscriptions
  BY <1>2 DEF Queue!DropSubscriptions, Queue!MembersMatchCount
<1>3. CASE Queue!Subscribe
  BY <1>3 DEF Queue!Subscribe, Queue!messages, Queue!MembersMatchCount
<1>4. CASE Queue!AnswerConfig
  BY <1>4 DEF Queue!AnswerConfig, Queue!messages, Queue!MembersMatchCount
<1>5. CASE Queue!Publish
  BY <1>5 DEF Queue!Publish, Queue!Deliver, Queue!group, Queue!MembersMatchCount
<1>6. CASE Queue!handleQueueMessage
  BY <1>6 DEF Queue!handleQueueMessage, Queue!MembersMatchCount
<1>7. CASE Queue!ServeReset
  BY <1>7 DEF Queue!ServeReset, Queue!messages, Queue!MembersMatchCount
<1>8. CASE UNCHANGED <<queueSubs, queueWorkersCount, setting, pending>>
  BY <1>8 DEF Queue!MembersMatchCount
<1>9. CASE \/ Queue!User \/ Queue!Tick \/ Queue!Disconnect \/ Queue!Reconnect \/ Queue!StartBatch \/ Queue!AnswerBatch
           \/ \E h \in Queue!Handler : \/ Queue!ServeStatus(h) \/ Queue!Timeout(h)
                                      \/ Queue!StatusDone(h) \/ Queue!StatusFailed(h)
           \/ Queue!SubmitFails \/ Queue!WorkersDone \/ Queue!ResetDone
           \/ Queue!SendDone \/ Queue!SendFailed \/ UNCHANGED Queue!vars
  <2>1. UNCHANGED <<queueSubs, queueWorkersCount, setting, pending>>
    BY <1>9 DEF Queue!User, Queue!handleWorkersChange, Queue!handleResetDistribution,
      Queue!handleSendMessages, Queue!Give, Queue!Tick, Queue!Disconnect, Queue!Reconnect,
      Queue!StartBatch, Queue!AnswerBatch, Queue!SubmitFails, Queue!ServeStatus, Queue!Timeout,
      Queue!StatusDone, Queue!StatusFailed, Queue!WorkersDone, Queue!ResetDone, Queue!SendDone,
      Queue!SendFailed, Queue!vars, Queue!group, Queue!messages
  <2> QED
    BY <1>8, <2>1
<1> QED
  BY <1>1, <1>2, <1>3, <1>4, <1>5, <1>6, <1>7, <1>9
  DEF Queue!Next, Queue!Progress, Queue!Reconfigure, Queue!Submit

\* Outside of a reconfiguration the subscribed workers are the configured ones,
\* and only subscribed workers hold messages: however resizes, their timeouts,
\* resets and deliveries overlap, none is left behind and none is left out
\* (queue_group.go subscribeQueueGroup, control.go queuegroup.config.set).
THEOREM MembersStayMatched == Spec => []MembersMatchCount
<1>1. Init => MembersMatchCount
  BY InitMembers DEF Init, MembersMatchCount
<1>2. MembersMatchCount /\ [Next]_vars => MembersMatchCount'
  <2> SUFFICES ASSUME MembersMatchCount, [Next]_vars PROVE MembersMatchCount'
    OBVIOUS
  <2>1. CASE OnProcessor(Processor!Next)
    BY <2>1 DEF OnProcessor, MembersMatchCount
  <2>2. CASE OnQueue(Queue!Next)
    BY <2>2, NextMembers DEF OnQueue, MembersMatchCount
  <2>3. CASE UNCHANGED vars
    BY <2>3 DEF vars, queueOnly, MembersMatchCount, Queue!MembersMatchCount
  <2> QED
    BY <2>1, <2>2, <2>3 DEF Next
<1> QED
  BY <1>1, <1>2, PTL DEF Spec

-----------------------------------------------------------------------------
(* Every message is handled at most once.                                  *)

\* A message is in one subscription or counted once, and only after it was sent.
AtMostOnce ==
  /\ sent \in Nat
  /\ counted \in [Queue!Msg -> 0..1]
  /\ \A p \in pending : p[2] \in Queue!Msg /\ p[2] <= sent /\ counted[p[2]] = 0
  /\ \A p, q \in pending : p[2] = q[2] => p = q
  /\ \A m \in Queue!Msg : m > sent => counted[m] = 0

LEMMA InitAtMostOnce == Queue!Init => AtMostOnce
BY DEF Queue!Init, AtMostOnce

LEMMA NextAtMostOnce == Queue!GroupAssumption /\ AtMostOnce /\ [Queue!Next]_(Queue!vars) => AtMostOnce'
<1> SUFFICES ASSUME Queue!GroupAssumption, AtMostOnce, [Queue!Next]_(Queue!vars) PROVE AtMostOnce'
  OBVIOUS
<1>1. CASE Queue!Publish
  <2>1. /\ sent < MaxSent /\ sent' = sent + 1 /\ counted' = counted
        /\ pending' = pending \/ \E w \in queueSubs : pending' = pending \cup {<<w, sent'>>}
    BY <1>1 DEF Queue!Publish, Queue!Deliver
  <2>2. MaxSent \in Nat
    BY DEF Queue!GroupAssumption
  <2>3. sent' \in Queue!Msg /\ sent' \in Nat /\ counted[sent'] = 0
    BY <2>1, <2>2 DEF AtMostOnce, Queue!Msg
  <2>4. \A p \in pending : p[2] \in Queue!Msg /\ p[2] <= sent' /\ p[2] # sent'
    BY <2>1 DEF AtMostOnce, Queue!Msg
  <2>5. \A m \in Queue!Msg : m > sent' => m > sent
    BY <2>1 DEF AtMostOnce, Queue!Msg
  <2> QED
    BY <2>1, <2>3, <2>4, <2>5 DEF AtMostOnce
<1>2. CASE Queue!handleQueueMessage
  <2>1. PICK p \in pending : /\ pending' = pending \ {p}
                             /\ counted' = [counted EXCEPT ![p[2]] = @ + 1]
    BY <1>2 DEF Queue!handleQueueMessage
  <2>2. sent' = sent /\ p[2] \in Queue!Msg /\ counted[p[2]] = 0 /\ p[2] <= sent
    BY <1>2 DEF Queue!handleQueueMessage, AtMostOnce
  <2>3. counted' \in [Queue!Msg -> 0..1]
    BY <2>1, <2>2 DEF AtMostOnce
  <2>4. \A q \in pending' : q \in pending /\ q[2] # p[2] /\ counted'[q[2]] = counted[q[2]]
    BY <2>1, <2>2 DEF AtMostOnce
  <2>5. \A m \in Queue!Msg : m > sent' => counted'[m] = 0
    BY <2>1, <2>2 DEF AtMostOnce, Queue!Msg
  <2> QED
    BY <2>1, <2>2, <2>3, <2>4, <2>5 DEF AtMostOnce
<1>3. CASE Queue!DropSubscriptions
  BY <1>3 DEF Queue!DropSubscriptions, AtMostOnce
<1>4. CASE UNCHANGED <<sent, pending, counted>>
  BY <1>4 DEF AtMostOnce
<1>5. CASE \/ Queue!User \/ Queue!Tick \/ Queue!Disconnect \/ Queue!Reconnect \/ Queue!StartBatch \/ Queue!AnswerBatch
           \/ Queue!RecordCount \/ Queue!Subscribe \/ Queue!AnswerConfig \/ Queue!ServeReset
           \/ \E h \in Queue!Handler : \/ Queue!ServeStatus(h) \/ Queue!Timeout(h)
                                      \/ Queue!StatusDone(h) \/ Queue!StatusFailed(h)
           \/ Queue!SubmitFails \/ Queue!WorkersDone \/ Queue!ResetDone
           \/ Queue!SendDone \/ Queue!SendFailed \/ UNCHANGED Queue!vars
  <2>1. UNCHANGED <<sent, pending, counted>>
    BY <1>5 DEF Queue!User, Queue!handleWorkersChange, Queue!handleResetDistribution,
      Queue!handleSendMessages, Queue!Give, Queue!Tick, Queue!Disconnect, Queue!Reconnect,
      Queue!StartBatch, Queue!AnswerBatch, Queue!RecordCount, Queue!Subscribe,
      Queue!AnswerConfig, Queue!ServeReset, Queue!SubmitFails, Queue!ServeStatus, Queue!Timeout,
      Queue!StatusDone, Queue!StatusFailed, Queue!WorkersDone, Queue!ResetDone, Queue!SendDone,
      Queue!SendFailed, Queue!vars, Queue!messages
  <2> QED
    BY <1>4, <2>1
<1> QED
  BY <1>1, <1>2, <1>3, <1>5 DEF Queue!Next, Queue!Progress, Queue!Reconfigure, Queue!Submit

\* No message is handled twice, whatever the group is resized to while it is
\* buffered (queue_group.go handleQueueMessage, subscribeQueueGroup).
THEOREM HandledAtMostOnce == Spec => [](\A m \in Queue!Msg : counted[m] <= 1)
<1>1. Init => AtMostOnce
  BY InitAtMostOnce DEF Init
<1>2. AtMostOnce /\ [Next]_vars => AtMostOnce'
  <2> SUFFICES ASSUME AtMostOnce, [Next]_vars PROVE AtMostOnce'
    OBVIOUS
  <2>1. CASE OnQueue(Queue!Next)
    BY <2>1, NextAtMostOnce, PanelsAssumption DEF OnQueue
  <2>2. CASE OnProcessor(Processor!Next) \/ UNCHANGED vars
    BY <2>2 DEF OnProcessor, vars, queueOnly, AtMostOnce
  <2> QED
    BY <2>1, <2>2 DEF Next
<1>3. AtMostOnce => \A m \in Queue!Msg : counted[m] <= 1
  BY DEF AtMostOnce
<1> QED
  BY <1>1, <1>2, <1>3, PTL DEF Spec

-----------------------------------------------------------------------------
(* Types.                                                                  *)

PendingOf(w) == {p \in pending : p[1] = w}

\* What a worker has counted or holds was sent before.
CountsAreSent ==
  \A w \in Queue!Worker : /\ IsFiniteSet(PendingOf(w))
                          /\ queueDistribution[w] + Cardinality(PendingOf(w)) <= sent

\* A command carries a size, or a number of messages that are still to be sent.
GroupCallsFit ==
  /\ await["workers"] = "command" /\ call["workers"].at = "sent" => call["workers"].n \in Queue!Worker
  /\ await["send"] = "command" /\ call["send"].at = "sent" => call["send"].n \in 0..MaxSent

GroupInv == Queue!TypeOK /\ CountsAreSent /\ GroupCallsFit

USE DEF Queue!Handler

LEMMA GroupBounds ==
  ASSUME Queue!GroupAssumption
  PROVE  /\ MaxWorkers \in Nat /\ MaxSent \in Nat /\ MaxClicks \in Nat /\ MaxOutages \in Nat
         /\ 1 \in Queue!Worker /\ Queue!Zero \in [Queue!Worker -> 0..MaxSent]
BY DEF Queue!GroupAssumption, Queue!Worker, Queue!Zero

LEMMA GroupCallTypes ==
  /\ Queue!Idle \in Queue!Call /\ Queue!Failed \in Queue!Call /\ Queue!Done \in Queue!Call
  /\ \A n \in 0..(MaxWorkers + MaxSent) : Queue!Sent(n) \in Queue!Call /\ [Queue!Sent(n) EXCEPT !.at = "served"] \in Queue!Call
  /\ \A s \in Queue!Status : Queue!Answered(s) \in Queue!Call
BY DEF Queue!Idle, Queue!Failed, Queue!Done, Queue!Sent, Queue!Answered, Queue!Call

\* The calls of a handler that was sent a command, and of one that was answered.
LEMMA CallsInHand ==
  ASSUME NEW c \in Queue!Call
  PROVE  /\ c.at = "sent" => [c EXCEPT !.at = "served"] \in Queue!Call
         /\ c.at = "answered" => c.status \in Queue!Status
<1>1. CASE c \in [at: {"none", "failed", "done"}]
  BY <1>1
<1>2. CASE c \in [at: {"sent", "served"}, n: 0..(MaxWorkers + MaxSent)]
  BY <1>2 DEF Queue!Call
<1>3. CASE c \in [at: {"answered"}, status: Queue!Status]
  BY <1>3
<1> QED
  BY <1>1, <1>2, <1>3 DEF Queue!Call

LEMMA GroupStatusTypes ==
  ASSUME Queue!GroupAssumption, Queue!TypeOK
  PROVE  /\ Queue!QueueGroupStatus \in Queue!Status /\ Queue!DefaultStatus \in Queue!Status
         /\ [Queue!QueueGroupStatus EXCEPT !.distribution = Queue!Zero] \in Queue!Status
BY GroupBounds DEF Queue!TypeOK, Queue!QueueGroupStatus, Queue!DefaultStatus, Queue!Status

LEMMA GroupInitTypes == Queue!GroupAssumption /\ Queue!Init => GroupInv
<1> SUFFICES ASSUME Queue!GroupAssumption, Queue!Init PROVE GroupInv
  OBVIOUS
<1>1. CountsAreSent
  <2>1. \A w \in Queue!Worker : PendingOf(w) = {} /\ queueDistribution[w] = 0 /\ sent = 0
    BY DEF Queue!Init, PendingOf, Queue!Zero
  <2> QED
    BY <2>1, FS_EmptySet DEF CountsAreSent
<1>2. GroupCallsFit
  BY DEF Queue!Init, GroupCallsFit
<1>3. call \in [Queue!Handler -> Queue!Call] /\ await \in [Queue!Handler -> {"none", "command", "status"}]
  BY GroupCallTypes DEF Queue!Init
<1>4. /\ queueWorkersCount \in Queue!Worker /\ queueSubs \subseteq Queue!Worker /\ workers \in Queue!Worker
      /\ queueDistribution \in [Queue!Worker -> 0..MaxSent]
      /\ pending \subseteq Queue!Worker \X Queue!Msg /\ counted \in [Queue!Msg -> Nat]
  BY GroupBounds DEF Queue!Init
<1>5. outages \in 0..MaxOutages /\ sent \in 0..MaxSent /\ batch \in 0..MaxSent /\ clicks \in 0..MaxClicks
  BY GroupBounds DEF Queue!Init
<1>6. /\ setting \in [at: {"idle", "recorded", "subscribing"}, resized: BOOLEAN]
      /\ up \in BOOLEAN /\ status = NoStatus
      /\ {isUpdatingWorkers, isResetting, isSending} \subseteq BOOLEAN
  BY DEF Queue!Init
<1> QED
  BY <1>1, <1>2, <1>3, <1>4, <1>5, <1>6 DEF GroupInv, Queue!TypeOK

\* A handler that comes to an await keeps the types if its call has one.
LEMMA GroupAwaitTypes ==
  ASSUME GroupInv, NEW h \in Queue!Handler, NEW what \in {"none", "command", "status"},
         NEW c \in Queue!Call, Queue!Await(h, what, c),
         what = "command" /\ h = "workers" => c.n \in Queue!Worker,
         what = "command" /\ h = "send" => c.n \in 0..MaxSent
  PROVE  /\ await' \in [Queue!Handler -> {"none", "command", "status"}]
         /\ call' \in [Queue!Handler -> Queue!Call]
         /\ GroupCallsFit'
<1>1. /\ await' \in [Queue!Handler -> {"none", "command", "status"}]
      /\ call' \in [Queue!Handler -> Queue!Call]
  BY DEF Queue!Await, GroupInv, Queue!TypeOK
<1>2. /\ await'[h] = what /\ call'[h] = c
      /\ \A k \in Queue!Handler : k # h => await'[k] = await[k] /\ call'[k] = call[k]
  BY DEF Queue!Await, GroupInv, Queue!TypeOK
<1>3. GroupCallsFit'
  BY <1>2 DEF GroupInv, GroupCallsFit
<1> QED
  BY <1>1, <1>3

\* A call that a service moves on keeps its type and is sent no more.
LEMMA MovedOn ==
  ASSUME GroupInv, NEW h \in Queue!Handler, NEW c \in Queue!Call, c.at # "sent",
         call' = [call EXCEPT ![h] = c], await' = await
  PROVE  /\ await' \in [Queue!Handler -> {"none", "command", "status"}]
         /\ call' \in [Queue!Handler -> Queue!Call]
         /\ GroupCallsFit'
<1>1. /\ call' \in [Queue!Handler -> Queue!Call]
      /\ await' \in [Queue!Handler -> {"none", "command", "status"}]
  BY DEF GroupInv, Queue!TypeOK
<1>2. call'[h] = c /\ \A k \in Queue!Handler : k # h => call'[k] = call[k]
  BY DEF GroupInv, Queue!TypeOK
<1>3. GroupCallsFit'
  BY <1>2 DEF GroupInv, GroupCallsFit
<1> QED
  BY <1>1, <1>3

\* A step that leaves the counters and the messages alone keeps the counts.
LEMMA CountsKept ==
  ASSUME CountsAreSent, UNCHANGED <<queueDistribution, pending, sent>>
  PROVE  CountsAreSent'
BY DEF CountsAreSent, PendingOf

LEMMA GroupUserTypes ==
  ASSUME Queue!GroupAssumption, GroupInv, Queue!Tick \/ Queue!User
  PROVE  GroupInv'
<1>1. UNCHANGED <<Queue!group, Queue!link, Queue!messages, Queue!shown>>
  BY DEF Queue!Tick, Queue!User, Queue!handleWorkersChange, Queue!handleResetDistribution,
    Queue!handleSendMessages, Queue!Give, Queue!panel
<1>2. clicks' \in 0..MaxClicks
  <2>1. clicks' = clicks \/ (clicks < MaxClicks /\ clicks' = clicks + 1)
    BY DEF Queue!Tick, Queue!User, Queue!handleWorkersChange, Queue!handleResetDistribution,
      Queue!handleSendMessages, Queue!Give, Queue!panel
  <2>2. clicks \in 0..MaxClicks
    BY DEF GroupInv, Queue!TypeOK
  <2> QED
    BY <2>1, <2>2, GroupBounds
<1>3. {isUpdatingWorkers', isResetting', isSending'} \subseteq BOOLEAN
  BY DEF Queue!Tick, Queue!User, Queue!handleWorkersChange, Queue!handleResetDistribution,
    Queue!handleSendMessages, Queue!flags, Queue!panel, GroupInv, Queue!TypeOK
<1>4. /\ await' \in [Queue!Handler -> {"none", "command", "status"}]
      /\ call' \in [Queue!Handler -> Queue!Call]
      /\ GroupCallsFit'
  <2>1. 0 \in 0..(MaxWorkers + MaxSent) /\ Queue!Sent(0) \in Queue!Call
    <3>1. 0 \in 0..(MaxWorkers + MaxSent)
      BY GroupBounds
    <3> QED
      BY <3>1, GroupCallTypes
  <2>2. CASE Queue!Tick
    BY <2>1, <2>2, GroupAwaitTypes DEF Queue!Tick, Queue!fetchStatus
  <2>3. CASE \E n \in Queue!Worker : Queue!handleWorkersChange(n)
    <3>1. PICK n \in Queue!Worker : Queue!Await("workers", "command", Queue!Sent(n))
      BY <2>3 DEF Queue!handleWorkersChange, Queue!Give
    <3>2. n \in 0..(MaxWorkers + MaxSent)
      BY GroupBounds DEF Queue!Worker
    <3>3. Queue!Sent(n) \in Queue!Call /\ Queue!Sent(n).n = n
      BY <3>2, GroupCallTypes DEF Queue!Sent
    <3> QED
      BY <3>1, <3>3, GroupAwaitTypes
  <2>4. CASE Queue!handleResetDistribution
    BY <2>1, <2>4, GroupAwaitTypes DEF Queue!handleResetDistribution, Queue!Give
  <2>5. CASE \E n \in 1..(MaxSent - sent) : Queue!handleSendMessages(n)
    <3>1. PICK n \in 1..(MaxSent - sent) : Queue!Await("send", "command", Queue!Sent(n))
      BY <2>5 DEF Queue!handleSendMessages, Queue!Give
    <3>2. n \in 0..(MaxWorkers + MaxSent) /\ n \in 0..MaxSent
      BY GroupBounds DEF GroupInv, Queue!TypeOK
    <3>3. Queue!Sent(n) \in Queue!Call /\ Queue!Sent(n).n = n
      BY <3>2, GroupCallTypes DEF Queue!Sent
    <3> QED
      BY <3>1, <3>2, <3>3, GroupAwaitTypes
  <2> QED
    BY <2>2, <2>3, <2>4, <2>5 DEF Queue!User
<1>5. CountsAreSent'
  BY <1>1, CountsKept DEF GroupInv, Queue!group, Queue!messages
<1>6. Queue!TypeOK'
  BY <1>1, <1>2, <1>3, <1>4 DEF GroupInv, Queue!TypeOK, Queue!group, Queue!link, Queue!messages,
    Queue!shown
<1> QED
  BY <1>4, <1>5, <1>6 DEF GroupInv

\* The steps of the services that answer, and those that move a batch on.
LEMMA AnswerTypes ==
  ASSUME Queue!GroupAssumption, GroupInv, NEW h \in Queue!Handler,
         \/ Queue!ServeStatus(h) \/ Queue!Timeout(h)
         \/ Queue!StartBatch \/ Queue!AnswerBatch \/ Queue!SubmitFails
  PROVE  GroupInv'
<1>1. UNCHANGED <<Queue!group, Queue!link, sent, pending, counted, Queue!panel>>
  BY DEF Queue!ServeStatus, Queue!Timeout, Queue!StartBatch, Queue!AnswerBatch,
    Queue!SubmitFails, Queue!messages
<1>2. batch' \in 0..MaxSent
  BY GroupBounds DEF Queue!ServeStatus, Queue!Timeout, Queue!StartBatch, Queue!AnswerBatch,
    Queue!SubmitFails, Queue!messages, GroupInv, Queue!TypeOK, GroupCallsFit
<1>3. PICK k \in Queue!Handler, c \in Queue!Call :
           c.at # "sent" /\ call' = [call EXCEPT ![k] = c] /\ await' = await
  <2>1. CASE Queue!ServeStatus(h)
    <3>1. PICK s \in Queue!Status : call' = [call EXCEPT ![h] = Queue!Answered(s)] /\ await' = await
      BY <2>1, GroupStatusTypes DEF Queue!ServeStatus, Queue!Answer, GroupInv
    <3>2. Queue!Answered(s) \in Queue!Call /\ Queue!Answered(s).at # "sent"
      BY GroupCallTypes DEF Queue!Answered
    <3> QED
      BY <3>1, <3>2
  <2>2. CASE Queue!Timeout(h)
    <3>1. Queue!Failed \in Queue!Call /\ Queue!Failed.at # "sent"
      BY GroupCallTypes DEF Queue!Failed
    <3> QED
      BY <2>2, <3>1 DEF Queue!Timeout
  <2>3. CASE Queue!StartBatch
    <3> DEFINE c == [call["send"] EXCEPT !.at = "served"]
    <3>1. call["send"] \in Queue!Call
      BY DEF GroupInv, Queue!TypeOK
    <3>2. c \in Queue!Call
      BY <2>3, <3>1, CallsInHand DEF Queue!StartBatch
    <3>3. c.at # "sent"
      BY <2>3, <3>1 DEF Queue!StartBatch, Queue!Call
    <3>4. call' = [call EXCEPT !["send"] = c] /\ await' = await
      BY <2>3 DEF Queue!StartBatch
    <3> HIDE DEF c
    <3> QED
      BY <3>2, <3>3, <3>4
  <2>4. CASE Queue!AnswerBatch
    <3>1. Queue!Done \in Queue!Call /\ Queue!Done.at # "sent"
      BY GroupCallTypes DEF Queue!Done
    <3> QED
      BY <2>4, <3>1 DEF Queue!AnswerBatch
  <2>5. CASE Queue!SubmitFails
    <3>1. Queue!Failed \in Queue!Call /\ Queue!Failed.at # "sent"
      BY GroupCallTypes DEF Queue!Failed
    <3> QED
      BY <2>5, <3>1 DEF Queue!SubmitFails
  <2> QED
    BY <2>1, <2>2, <2>3, <2>4, <2>5
<1>4. /\ await' \in [Queue!Handler -> {"none", "command", "status"}]
      /\ call' \in [Queue!Handler -> Queue!Call]
      /\ GroupCallsFit'
  BY <1>3, MovedOn
<1>5. CountsAreSent'
  BY <1>1, CountsKept DEF GroupInv, Queue!group
<1>6. Queue!TypeOK'
  BY <1>1, <1>2, <1>4 DEF GroupInv, Queue!TypeOK, Queue!group, Queue!link, Queue!panel,
    Queue!shown, Queue!flags
<1> QED
  BY <1>4, <1>5, <1>6 DEF GroupInv

\* A reconfiguration keeps the counters; what it drops was held by a worker.
LEMMA ReconfigureTypes ==
  ASSUME Queue!GroupAssumption, GroupInv, Queue!Reconfigure
  PROVE  GroupInv'
<1>1. UNCHANGED <<queueDistribution, Queue!link, sent, batch, counted, Queue!panel>>
  BY DEF Queue!Reconfigure, Queue!RecordCount, Queue!DropSubscriptions, Queue!Subscribe,
    Queue!AnswerConfig, Queue!messages
<1>2. queueWorkersCount' \in Queue!Worker
  BY DEF Queue!Reconfigure, Queue!RecordCount, Queue!DropSubscriptions, Queue!Subscribe,
    Queue!AnswerConfig, GroupInv, Queue!TypeOK, GroupCallsFit
<1>3. queueSubs' \subseteq Queue!Worker /\ pending' \subseteq pending
  BY DEF Queue!Reconfigure, Queue!RecordCount, Queue!DropSubscriptions, Queue!Subscribe,
    Queue!AnswerConfig, Queue!messages, GroupInv, Queue!TypeOK
<1>4. setting' \in [at: {"idle", "recorded", "subscribing"}, resized: BOOLEAN]
  <2>1. setting \in [at: {"idle", "recorded", "subscribing"}, resized: BOOLEAN]
    BY DEF GroupInv, Queue!TypeOK
  <2>2. \/ setting' = setting \/ setting' = [at |-> "recorded", resized |-> TRUE]
        \/ \E a \in {"idle", "subscribing"} : setting' = [setting EXCEPT !.at = a]
    BY DEF Queue!Reconfigure, Queue!RecordCount, Queue!DropSubscriptions, Queue!Subscribe,
      Queue!AnswerConfig
  <2>3. \A a \in {"idle", "subscribing"} :
           [setting EXCEPT !.at = a] \in [at: {"idle", "recorded", "subscribing"}, resized: BOOLEAN]
    <3> TAKE a \in {"idle", "subscribing"}
    <3>1. PICK r \in BOOLEAN : setting.resized = r /\ DOMAIN setting = {"at", "resized"}
      BY <2>1
    <3>2. [setting EXCEPT !.at = a] = [at |-> a, resized |-> r]
      BY <2>1, <3>1
    <3> QED
      BY <3>2
  <2>4. [at |-> "recorded", resized |-> TRUE]
           \in [at: {"idle", "recorded", "subscribing"}, resized: BOOLEAN]
    OBVIOUS
  <2> QED
    BY <2>1, <2>2, <2>3, <2>4, Zenon
<1>5. /\ await' \in [Queue!Handler -> {"none", "command", "status"}]
      /\ call' \in [Queue!Handler -> Queue!Call]
      /\ GroupCallsFit'
  <2>1. CASE Queue!RecordCount
    <3> DEFINE c == [call["workers"] EXCEPT !.at = "served"]
    <3>1. call["workers"] \in Queue!Call
      BY DEF GroupInv, Queue!TypeOK
    <3>2. c \in Queue!Call
      BY <2>1, <3>1, CallsInHand DEF Queue!RecordCount
    <3>3. c.at # "sent"
      BY <2>1, <3>1 DEF Queue!RecordCount, Queue!Call
    <3>4. call' = [call EXCEPT !["workers"] = c] /\ await' = await
      BY <2>1 DEF Queue!RecordCount
    <3> HIDE DEF c
    <3> QED
      BY <3>2, <3>3, <3>4, MovedOn
  <2>2. CASE Queue!AnswerConfig /\ call["workers"].at = "served"
    <3>1. call' = [call EXCEPT !["workers"] = Queue!Answered(Queue!QueueGroupStatus)] /\ await' = await
      BY <2>2 DEF Queue!AnswerConfig, Queue!Answer
    <3>2. Queue!Answered(Queue!QueueGroupStatus) \in Queue!Call /\ Queue!Answered(Queue!QueueGroupStatus).at # "sent"
      BY GroupStatusTypes, GroupCallTypes DEF Queue!Answered, GroupInv
    <3> QED
      BY <3>1, <3>2, MovedOn
  <2>3. CASE UNCHANGED <<await, call>>
    BY <2>3 DEF GroupInv, Queue!TypeOK, GroupCallsFit
  <2> QED
    BY <2>1, <2>2, <2>3 DEF Queue!Reconfigure, Queue!DropSubscriptions, Queue!Subscribe,
      Queue!AnswerConfig
<1>6. CountsAreSent'
  <2> SUFFICES ASSUME NEW w \in Queue!Worker
               PROVE  /\ IsFiniteSet(PendingOf(w)')
                      /\ queueDistribution'[w] + Cardinality(PendingOf(w)') <= sent'
    BY DEF CountsAreSent
  <2>1. /\ IsFiniteSet(PendingOf(w))
        /\ queueDistribution[w] + Cardinality(PendingOf(w)) <= sent
        /\ PendingOf(w)' \in SUBSET PendingOf(w)
    BY <1>3 DEF GroupInv, CountsAreSent, PendingOf
  <2>2. /\ IsFiniteSet(PendingOf(w)') /\ Cardinality(PendingOf(w)') <= Cardinality(PendingOf(w))
        /\ Cardinality(PendingOf(w)') \in Nat /\ Cardinality(PendingOf(w)) \in Nat
    BY <2>1, FS_Subset, FS_CardinalityType
  <2>3. queueDistribution'[w] = queueDistribution[w] /\ queueDistribution[w] \in Nat /\ sent \in Nat
        /\ sent' = sent
    BY <1>1, GroupBounds DEF GroupInv, Queue!TypeOK
  <2> QED
    BY <2>1, <2>2, <2>3
<1>7. Queue!TypeOK'
  <2>1. pending' \subseteq Queue!Worker \X Queue!Msg
    BY <1>3 DEF GroupInv, Queue!TypeOK
  <2> QED
    BY <1>1, <1>2, <1>3, <1>4, <1>5, <2>1 DEF GroupInv, Queue!TypeOK, Queue!link, Queue!panel,
      Queue!shown, Queue!flags
<1> QED
  BY <1>5, <1>6, <1>7 DEF GroupInv

\* A published message adds at most one to what a worker holds.
LEMMA PublishTypes ==
  ASSUME Queue!GroupAssumption, GroupInv, Queue!Publish
  PROVE  GroupInv'
<1>1. /\ sent < MaxSent /\ sent' = sent + 1 /\ batch > 0 /\ batch' = batch - 1
      /\ UNCHANGED <<Queue!group, Queue!link, counted, Queue!panel, await, call>>
  BY DEF Queue!Publish
<1>2. \E w \in Queue!Worker : pending' = pending \/ pending' = pending \cup {<<w, sent'>>}
  BY GroupBounds DEF Queue!Publish, Queue!Deliver, GroupInv, Queue!TypeOK
<1>3. sent' \in 0..MaxSent /\ batch' \in 0..MaxSent /\ sent' \in Queue!Msg
  BY <1>1, GroupBounds DEF GroupInv, Queue!TypeOK, Queue!Msg
<1>4. pending' \subseteq Queue!Worker \X Queue!Msg
  BY <1>2, <1>3 DEF GroupInv, Queue!TypeOK
<1>5. CountsAreSent'
  <2> SUFFICES ASSUME NEW w \in Queue!Worker
               PROVE  /\ IsFiniteSet(PendingOf(w)')
                      /\ queueDistribution'[w] + Cardinality(PendingOf(w)') <= sent'
    BY DEF CountsAreSent
  <2>1. /\ IsFiniteSet(PendingOf(w)) /\ Cardinality(PendingOf(w)) \in Nat
        /\ queueDistribution[w] + Cardinality(PendingOf(w)) <= sent
    BY FS_CardinalityType DEF GroupInv, CountsAreSent
  <2>2. PICK x : PendingOf(w)' = PendingOf(w) \/ PendingOf(w)' = PendingOf(w) \cup {x}
    BY <1>2 DEF PendingOf
  <2>3. /\ IsFiniteSet(PendingOf(w)') /\ Cardinality(PendingOf(w)') \in Nat
        /\ Cardinality(PendingOf(w)') <= Cardinality(PendingOf(w)) + 1
    <3>1. CASE PendingOf(w)' = PendingOf(w)
      BY <2>1, <3>1
    <3>2. CASE PendingOf(w)' = PendingOf(w) \cup {x}
      <4>1. /\ IsFiniteSet(PendingOf(w)')
            /\ Cardinality(PendingOf(w)') \in {Cardinality(PendingOf(w)), Cardinality(PendingOf(w)) + 1}
        BY <2>1, <3>2, FS_AddElement
      <4> QED
        BY <2>1, <4>1
    <3> QED
      BY <2>2, <3>1, <3>2
  <2>4. queueDistribution'[w] = queueDistribution[w] /\ queueDistribution[w] \in Nat /\ sent \in Nat
    BY <1>1, GroupBounds DEF Queue!group, GroupInv, Queue!TypeOK
  <2> QED
    BY <1>1, <2>1, <2>3, <2>4
<1>6. GroupCallsFit'
  BY <1>1 DEF GroupInv, GroupCallsFit
<1>7. Queue!TypeOK'
  BY <1>1, <1>3, <1>4 DEF GroupInv, Queue!TypeOK, Queue!group, Queue!link, Queue!panel,
    Queue!shown, Queue!flags
<1> QED
  BY <1>5, <1>6, <1>7 DEF GroupInv

\* A handled message moves from what a worker holds to what it has counted.
LEMMA MessageTypes ==
  ASSUME Queue!GroupAssumption, GroupInv, Queue!handleQueueMessage
  PROVE  GroupInv'
<1>1. PICK p \in pending : /\ pending' = pending \ {p}
                           /\ queueDistribution' = [queueDistribution EXCEPT ![p[1]] = @ + 1]
                           /\ counted' = [counted EXCEPT ![p[2]] = @ + 1]
  BY DEF Queue!handleQueueMessage
<1>2. /\ p[1] \in Queue!Worker /\ p[2] \in Queue!Msg
      /\ UNCHANGED <<queueWorkersCount, queueSubs, setting, Queue!link, sent, batch, Queue!panel, await, call>>
  BY DEF Queue!handleQueueMessage, GroupInv, Queue!TypeOK
<1>3. counted' \in [Queue!Msg -> Nat]
  BY <1>1, <1>2 DEF GroupInv, Queue!TypeOK
<1>4. ASSUME NEW w \in Queue!Worker
      PROVE  /\ IsFiniteSet(PendingOf(w)')
             /\ queueDistribution'[w] + Cardinality(PendingOf(w)') <= sent'
             /\ queueDistribution'[w] \in 0..MaxSent
  <2>1. /\ IsFiniteSet(PendingOf(w)) /\ Cardinality(PendingOf(w)) \in Nat
        /\ queueDistribution[w] + Cardinality(PendingOf(w)) <= sent
    BY FS_CardinalityType DEF GroupInv, CountsAreSent
  <2>2. queueDistribution[w] \in 0..MaxSent /\ sent \in 0..MaxSent
    BY DEF GroupInv, Queue!TypeOK
  <2>3. CASE w = p[1]
    <3>1. PendingOf(w)' = PendingOf(w) \ {p} /\ p \in PendingOf(w)
      BY <1>1, <2>3 DEF PendingOf
    <3>2. /\ IsFiniteSet(PendingOf(w)')
          /\ Cardinality(PendingOf(w)') = Cardinality(PendingOf(w)) - 1
      BY <2>1, <3>1, FS_RemoveElement
    <3>3. Cardinality(PendingOf(w)') \in Nat
      BY <3>2, FS_CardinalityType
    <3>4. queueDistribution'[w] = queueDistribution[w] + 1
      BY <1>1, <2>3 DEF GroupInv, Queue!TypeOK
    <3> QED
      BY <1>2, <2>1, <2>2, <3>2, <3>3, <3>4, GroupBounds
  <2>4. CASE w # p[1]
    <3>1. PendingOf(w)' = PendingOf(w) /\ queueDistribution'[w] = queueDistribution[w]
      BY <1>1, <2>4 DEF PendingOf, GroupInv, Queue!TypeOK
    <3> QED
      BY <1>2, <2>1, <2>2, <3>1
  <2> QED
    BY <2>3, <2>4
<1>5. queueDistribution' \in [Queue!Worker -> 0..MaxSent]
  BY <1>1, <1>4 DEF GroupInv, Queue!TypeOK
<1>6. CountsAreSent'
  BY <1>4 DEF CountsAreSent
<1>7. GroupCallsFit'
  BY <1>2 DEF GroupInv, GroupCallsFit
<1>8. Queue!TypeOK'
  BY <1>1, <1>2, <1>3, <1>5 DEF GroupInv, Queue!TypeOK, Queue!link, Queue!panel, Queue!shown,
    Queue!flags
<1> QED
  BY <1>6, <1>7, <1>8 DEF GroupInv

LEMMA ResetTypes ==
  ASSUME Queue!GroupAssumption, GroupInv, Queue!ServeReset
  PROVE  GroupInv'
<1>1. /\ queueDistribution' = Queue!Zero
      /\ UNCHANGED <<queueWorkersCount, queueSubs, setting, Queue!link, Queue!messages, Queue!panel>>
  BY DEF Queue!ServeReset
<1>2. /\ await' \in [Queue!Handler -> {"none", "command", "status"}]
      /\ call' \in [Queue!Handler -> Queue!Call]
      /\ GroupCallsFit'
  <2> DEFINE c == Queue!Answered([Queue!QueueGroupStatus EXCEPT !.distribution = Queue!Zero])
  <2>1. call' = [call EXCEPT !["reset"] = c] /\ await' = await
    BY DEF Queue!ServeReset, Queue!Answer
  <2>2. c \in Queue!Call
    BY GroupStatusTypes, GroupCallTypes DEF GroupInv
  <2>3. c.at # "sent"
    BY DEF Queue!Answered
  <2> HIDE DEF c
  <2> QED
    BY <2>1, <2>2, <2>3, MovedOn
<1>3. CountsAreSent'
  <2> SUFFICES ASSUME NEW w \in Queue!Worker
               PROVE  /\ IsFiniteSet(PendingOf(w)')
                      /\ queueDistribution'[w] + Cardinality(PendingOf(w)') <= sent'
    BY DEF CountsAreSent
  <2>1. /\ IsFiniteSet(PendingOf(w)) /\ Cardinality(PendingOf(w)) \in Nat
        /\ queueDistribution[w] + Cardinality(PendingOf(w)) <= sent
    BY FS_CardinalityType DEF GroupInv, CountsAreSent
  <2>2. PendingOf(w)' = PendingOf(w) /\ sent' = sent
    BY <1>1 DEF PendingOf, Queue!messages
  <2>3. queueDistribution[w] \in Nat /\ queueDistribution'[w] = 0 /\ sent \in Nat
    BY <1>1, GroupBounds DEF GroupInv, Queue!TypeOK, Queue!Zero
  <2> QED
    BY <2>1, <2>2, <2>3
<1>4. Queue!TypeOK'
  BY <1>1, <1>2, GroupBounds DEF GroupInv, Queue!TypeOK, Queue!link, Queue!messages,
    Queue!panel, Queue!shown, Queue!flags
<1> QED
  BY <1>2, <1>3, <1>4 DEF GroupInv

\* The handlers of the panel, from an await on.
LEMMA DoneTypes ==
  ASSUME Queue!GroupAssumption, GroupInv, NEW h \in Queue!Handler,
         \/ Queue!StatusDone(h) \/ Queue!StatusFailed(h) \/ Queue!WorkersDone
         \/ Queue!ResetDone \/ Queue!SendDone \/ Queue!SendFailed
  PROVE  GroupInv'
<1>1. UNCHANGED <<Queue!group, Queue!link, Queue!messages, clicks>>
  BY DEF Queue!StatusDone, Queue!StatusFailed, Queue!WorkersDone, Queue!ResetDone,
    Queue!SendDone, Queue!SendFailed, Queue!panel
<1>2. \A k \in Queue!Handler : call[k].at = "answered" =>
         call[k].status \in Queue!Status /\ call[k].status.workers \in Queue!Worker
  <2>1. \A k \in Queue!Handler : call[k].at = "answered" => call[k].status \in Queue!Status
    BY CallsInHand DEF GroupInv, Queue!TypeOK
  <2> QED
    BY <2>1 DEF Queue!Status
<1>3. status' \in Queue!Status \cup {NoStatus} /\ workers' \in Queue!Worker
  BY <1>2 DEF Queue!StatusDone, Queue!StatusFailed, Queue!WorkersDone, Queue!ResetDone,
    Queue!SendDone, Queue!SendFailed, Queue!shown, Queue!panel, GroupInv, Queue!TypeOK
<1>4. {isUpdatingWorkers', isResetting', isSending'} \subseteq BOOLEAN
  <2>1. isUpdatingWorkers \in BOOLEAN /\ isResetting \in BOOLEAN /\ isSending \in BOOLEAN
    BY DEF GroupInv, Queue!TypeOK
  <2>2. isUpdatingWorkers' \in {FALSE, isUpdatingWorkers} /\ isResetting' \in {FALSE, isResetting}
        /\ isSending' \in {FALSE, isSending}
    BY DEF Queue!StatusDone, Queue!StatusFailed, Queue!WorkersDone, Queue!ResetDone,
      Queue!SendDone, Queue!SendFailed, Queue!panel, Queue!flags
  <2> QED
    BY <2>1, <2>2
<1>5. /\ await' \in [Queue!Handler -> {"none", "command", "status"}]
      /\ call' \in [Queue!Handler -> Queue!Call]
      /\ GroupCallsFit'
  <2>1. 0 \in 0..(MaxWorkers + MaxSent)
    BY GroupBounds
  <2>2. Queue!Sent(0) \in Queue!Call /\ Queue!Idle \in Queue!Call
    BY <2>1, GroupCallTypes
  <2>3. PICK k \in Queue!Handler, what \in {"none", "status"}, c \in {Queue!Idle, Queue!Sent(0)} : Queue!Await(k, what, c)
    BY DEF Queue!StatusDone, Queue!StatusFailed, Queue!WorkersDone, Queue!ResetDone,
      Queue!SendDone, Queue!SendFailed, Queue!fetchStatus
  <2> QED
    BY <2>2, <2>3, GroupAwaitTypes
<1>6. CountsAreSent'
  BY <1>1, CountsKept DEF GroupInv, Queue!group, Queue!messages
<1>7. Queue!TypeOK'
  BY <1>1, <1>3, <1>4, <1>5 DEF GroupInv, Queue!TypeOK, Queue!group, Queue!link, Queue!messages
<1> QED
  BY <1>5, <1>6, <1>7 DEF GroupInv

LEMMA GroupNextTypes == Queue!GroupAssumption /\ GroupInv /\ [Queue!Next]_(Queue!vars) => GroupInv'
<1> SUFFICES ASSUME Queue!GroupAssumption, GroupInv, [Queue!Next]_(Queue!vars) PROVE GroupInv'
  OBVIOUS
<1>1. CASE Queue!Disconnect \/ Queue!Reconnect
  <2>1. up' \in BOOLEAN
    BY <1>1 DEF Queue!Disconnect, Queue!Reconnect
  <2>2. outages' = outages \/ (outages < MaxOutages /\ outages' = outages + 1)
    BY <1>1 DEF Queue!Disconnect, Queue!Reconnect
  <2>3. outages' \in 0..MaxOutages
    BY <2>2, GroupBounds DEF GroupInv, Queue!TypeOK
  <2>4. UNCHANGED <<Queue!group, Queue!messages, Queue!panel, await, call>>
    BY <1>1 DEF Queue!Disconnect, Queue!Reconnect
  <2>5. CountsAreSent'
    BY <2>4, CountsKept DEF GroupInv, Queue!group, Queue!messages
  <2> QED
    BY <2>1, <2>3, <2>4, <2>5 DEF GroupInv, Queue!TypeOK, GroupCallsFit, Queue!group,
      Queue!messages, Queue!panel, Queue!shown, Queue!flags
<1>2. CASE UNCHANGED Queue!vars
  <2>1. CountsAreSent'
    BY <1>2, CountsKept DEF GroupInv, Queue!vars, Queue!group, Queue!messages
  <2> QED
    BY <1>2, <2>1 DEF Queue!vars, GroupInv, Queue!TypeOK, GroupCallsFit, Queue!group,
      Queue!link, Queue!messages, Queue!panel, Queue!shown, Queue!flags
<1>3. ASSUME NEW h \in Queue!Handler, Queue!Progress(h) PROVE GroupInv'
  BY <1>3, AnswerTypes, ReconfigureTypes, PublishTypes, ResetTypes, DoneTypes
  DEF Queue!Progress, Queue!Submit
<1> QED
  BY <1>1, <1>2, <1>3, GroupUserTypes, MessageTypes DEF Queue!Next

-----------------------------------------------------------------------------
(* Both screens: the connection and the clicks are theirs together.        *)

PanelsInv == PanelInv /\ GroupInv

LEMMA ProcessorScreenTypes ==
  ASSUME PanelsInv, OnProcessor(Processor!Next)
  PROVE  PanelsInv'
<1>1. PanelInv' /\ UNCHANGED queueOnly
  BY NextTypes, PanelsAssumption DEF PanelsInv, OnProcessor
<1>2. up' \in BOOLEAN /\ outages' \in 0..MaxOutages /\ clicks' \in 0..MaxClicks
  BY <1>1 DEF PanelInv, Processor!TypeOK
<1>3. Queue!TypeOK'
  BY <1>1, <1>2 DEF queueOnly, PanelsInv, GroupInv, Queue!TypeOK
<1>4. CountsAreSent' /\ GroupCallsFit'
  BY <1>1, CountsKept DEF queueOnly, PanelsInv, GroupInv, GroupCallsFit
<1> QED
  BY <1>1, <1>3, <1>4 DEF PanelsInv, GroupInv

LEMMA QueueScreenTypes ==
  ASSUME PanelsInv, OnQueue(Queue!Next)
  PROVE  PanelsInv'
<1>1. GroupInv' /\ UNCHANGED processorOnly
  BY GroupNextTypes, PanelsAssumption DEF PanelsInv, OnQueue
<1>2. up' \in BOOLEAN /\ outages' \in 0..MaxOutages /\ clicks' \in 0..MaxClicks
  BY <1>1 DEF GroupInv, Queue!TypeOK
<1>3. Processor!TypeOK' /\ CallsFit'
  BY <1>1, <1>2 DEF processorOnly, PanelsInv, PanelInv, Processor!TypeOK, CallsFit
<1> QED
  BY <1>1, <1>3 DEF PanelsInv, PanelInv

\* The variables of both panels keep their types: the processor only ever gets
\* the bodies of the commands that its buttons stand for (CoreFlowProcessor.tsx),
\* no worker counts more messages than were sent, and the group only takes sizes
\* that have a button (queue_group.go, QueueGroupPanel.tsx).
THEOREM TypeCorrect == Spec => []TypeOK
<1>1. Init => PanelsInv
  BY InitTypes, GroupInitTypes, PanelsAssumption DEF Init, PanelsInv
<1>2. PanelsInv /\ [Next]_vars => PanelsInv'
  <2> SUFFICES ASSUME PanelsInv, [Next]_vars PROVE PanelsInv'
    OBVIOUS
  <2>1. CASE UNCHANGED vars
    <3>1. Processor!TypeOK' /\ CallsFit'
      BY <2>1 DEF vars, shared, processorOnly, PanelsInv, PanelInv, Processor!TypeOK, CallsFit
    <3>2. Queue!TypeOK'
      BY <2>1 DEF vars, shared, queueOnly, PanelsInv, GroupInv, Queue!TypeOK
    <3>3. CountsAreSent' /\ GroupCallsFit'
      BY <2>1, CountsKept DEF vars, queueOnly, PanelsInv, GroupInv, GroupCallsFit
    <3> QED
      BY <3>1, <3>2, <3>3 DEF PanelsInv, PanelInv, GroupInv
  <2> QED
    BY <2>1, ProcessorScreenTypes, QueueScreenTypes DEF Next
<1>3. PanelsInv => TypeOK
  BY DEF PanelsInv, PanelInv, GroupInv, TypeOK
<1> QED
  BY <1>1, <1>2, <1>3, PTL DEF Spec

=============================================================================

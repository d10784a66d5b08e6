------------------------- MODULE JobDeliveryProofs -------------------------
(***************************************************************************)
(* Theorems of JobDelivery, for any number of messages and workers, any    *)
(* payloads, any armed scenarios and any number of attempts.               *)
(***************************************************************************)
EXTENDS JobDelivery, TLAPS

\* A handler has a message, one that was published.
HandlersHaveMessages ==
  \A w \in Worker : pc[w] \in Stage => msg[w] \in Msg /\ msgState[msg[w]] # "absent"

IInv == TypeOK /\ HandlersHaveMessages /\ OnePromptHandler

-----------------------------------------------------------------------------
LEMMA ZeroWithinCap == Cap \in Nat /\ 0 \in 0 .. Cap
<1>1. MaxAttempts \in Nat
  BY DeliveryAssumption
<1> QED
  BY <1>1 DEF Cap

LEMMA InitIInv == Init => IInv
<1> SUFFICES ASSUME Init PROVE IInv
  OBVIOUS
<1>1. TypeOK
  BY ZeroWithinCap DEF Init, TypeOK, Scenario, Unsettled
<1>2. \A w \in Worker : pc[w] \notin Stage
  BY DEF Init, Stage, Prompt, Stalled
<1>3. HandlersHaveMessages /\ OnePromptHandler
  BY <1>2 DEF HandlersHaveMessages, OnePromptHandler, Stage
<1> QED
  BY <1>1, <1>3 DEF IInv

\* The answers of a handler keep the states of messages in their type and return
\* no message to the broker but the one they name, none at all unless they NAK.
Answers(m) == UNCHANGED msgState \/ \E how \in Settlement : Settle(m, how)

LEMMA AnswerTypes ==
  ASSUME IInv, NEW m \in Msg, Answers(m) \/ Nak(m)
  PROVE  /\ msgState' \in [Msg -> {"absent"} \cup Unsettled \cup Settlement]
         /\ \A k \in Msg : msgState'[k] = "ready" => msgState[k] = "ready" \/ k = m
         /\ \A k \in Msg : msgState'[k] = "absent" => msgState[k] = "absent"
  BY DEF Answers, IInv, TypeOK, Nak, Settle, Unsettled, Settlement

LEMMA AnswersReturnNone ==
  ASSUME IInv, NEW m \in Msg, Answers(m)
  PROVE  \A k \in Msg : msgState'[k] = "ready" => msgState[k] = "ready"
  BY DEF Answers, IInv, TypeOK, Settle, Unsettled, Settlement

\* A handler that goes on keeps its message and never becomes prompt again once
\* it stalls.
LEMMA HandlerGoesOn ==
  ASSUME IInv, NEW w \in Worker, NEW s \in Stage,
         pc[w] \in Stage, s \in Prompt => pc[w] \in Prompt, Goto(w, s),
         UNCHANGED <<msgState, delivered, msg, attempt>>
  PROVE  /\ pc' \in [Worker -> {"idle", "down"} \cup Stage]
         /\ HandlersHaveMessages'
         /\ OnePromptHandler'
<1>1. pc' \in [Worker -> {"idle", "down"} \cup Stage]
  BY DEF Goto, IInv, TypeOK
<1>2. \A v \in Worker : /\ pc'[v] \in Stage => pc[v] \in Stage
                        /\ pc'[v] \in Prompt => pc[v] \in Prompt
  BY DEF Goto, IInv, TypeOK
<1>3. HandlersHaveMessages'
  BY <1>2 DEF IInv, HandlersHaveMessages
<1>4. OnePromptHandler'
  BY <1>2 DEF IInv, OnePromptHandler
<1> QED
  BY <1>1, <1>3, <1>4

\* A handler that returns leaves the messages of the others alone, and returns
\* its own to the broker only if no prompt handler has it.
LEMMA HandlerReturns ==
  ASSUME IInv, NEW w \in Worker, NEW s \in {"idle", "down"},
         pc[w] \in Stage, Leave(w, s),
         Answers(msg[w]) \/ (Nak(msg[w]) /\ pc[w] \in Prompt),
         UNCHANGED delivered
  PROVE  /\ msgState' \in [Msg -> {"absent"} \cup Unsettled \cup Settlement]
         /\ pc' \in [Worker -> {"idle", "down"} \cup Stage]
         /\ msg' \in [Worker -> Msg \cup {NoMsg}]
         /\ attempt' \in [Worker -> 0 .. Cap]
         /\ seen' \in [Worker -> Scenario]
         /\ seenOnce' \in [Worker -> BOOLEAN]
         /\ HandlersHaveMessages'
         /\ OnePromptHandler'
<1>1. msg[w] \in Msg
  BY DEF IInv, HandlersHaveMessages
<1>2. /\ msgState' \in [Msg -> {"absent"} \cup Unsettled \cup Settlement]
      /\ \A k \in Msg : msgState'[k] = "ready" => msgState[k] = "ready" \/ k = msg[w]
      /\ \A k \in Msg : msgState'[k] = "absent" => msgState[k] = "absent"
  BY <1>1, AnswerTypes
<1>3. /\ pc' \in [Worker -> {"idle", "down"} \cup Stage]
      /\ msg' \in [Worker -> Msg \cup {NoMsg}]
  BY DEF Leave, IInv, TypeOK
<1>4. attempt' \in [Worker -> 0 .. Cap]
  BY ZeroWithinCap DEF Leave, IInv, TypeOK
<1>5. seen' \in [Worker -> Scenario] /\ seenOnce' \in [Worker -> BOOLEAN]
  BY DEF Leave, IInv, TypeOK, Scenario
<1>6. \A v \in Worker : pc'[v] \in Stage =>
         v # w /\ pc'[v] = pc[v] /\ msg'[v] = msg[v] /\ attempt'[v] = attempt[v]
  BY DEF Leave, IInv, TypeOK, Stage, Prompt, Stalled
<1>7. HandlersHaveMessages'
  BY <1>2, <1>6 DEF IInv, HandlersHaveMessages
<1>8. OnePromptHandler'
  <2> SUFFICES ASSUME NEW v \in Worker, pc'[v] \in Prompt
               PROVE  /\ msgState'[msg'[v]] # "ready" /\ attempt'[v] = delivered'[msg'[v]]
                      /\ \A u \in Worker \ {v} : pc'[u] \in Prompt => msg'[u] # msg'[v]
    BY DEF OnePromptHandler
  <2>1. v # w /\ pc[v] \in Prompt /\ msg'[v] = msg[v] /\ attempt'[v] = attempt[v] /\ msg[v] \in Msg
    BY <1>6 DEF Stage, IInv, HandlersHaveMessages
  <2>2. msgState[msg[v]] # "ready" /\ attempt[v] = delivered[msg[v]]
    BY <2>1 DEF IInv, OnePromptHandler
  <2>3. pc[w] \in Prompt => msg[w] # msg[v]
    BY <2>1 DEF IInv, OnePromptHandler
  <2>4. msgState'[msg[v]] # "ready"
    <3>1. CASE Nak(msg[w]) /\ pc[w] \in Prompt
      BY <1>2, <2>1, <2>2, <2>3, <3>1
    <3>2. CASE Answers(msg[w])
      BY <1>1, <2>1, <2>2, <3>2, AnswersReturnNone
    <3> QED
      BY <3>1, <3>2
  <2>5. \A u \in Worker \ {v} : pc'[u] \in Prompt => msg'[u] # msg[v]
    BY <1>6, <2>1 DEF IInv, OnePromptHandler, Stage
  <2> QED
    BY <2>1, <2>2, <2>4, <2>5
<1> QED
  BY <1>2, <1>3, <1>4, <1>5, <1>7, <1>8

-----------------------------------------------------------------------------
\* The handler of one worker.
LEMMA HandlePreserves ==
  ASSUME IInv, NEW w \in Worker, Handle(w)
  PROVE  IInv'
<1>1. payload' = payload /\ dlqUp' = dlqUp /\ once' = once
  BY DEF Handle, Discard, CrashBeforeAck, LateAck, SendNak, SendTerm, Retry, AckDeadLetter,
         SendAck, Process, ReadScenario, ScenarioBranch, OutcomeBranch, PublishDLQ, Complete,
         Disarm, brokerVars, dlqVars, scenarioVars
<1>2. scenario' \in Scenario
  BY DEF Handle, Discard, CrashBeforeAck, LateAck, SendNak, SendTerm, Retry, AckDeadLetter,
         SendAck, Process, ReadScenario, ScenarioBranch, OutcomeBranch, PublishDLQ, Complete,
         Disarm, scenarioVars, IInv, TypeOK, Scenario
<1>3. ASSUME Discard(w) \/ CrashBeforeAck(w) \/ LateAck(w) \/ SendNak(w) \/ SendTerm(w)
             \/ Retry(w) \/ AckDeadLetter(w) \/ SendAck(w)
      PROVE  IInv'
  <2>1. PICK s \in {"idle", "down"} :
             /\ Leave(w, s) /\ pc[w] \in Stage /\ UNCHANGED <<delivered, dlq>>
             /\ Answers(msg[w]) \/ (Nak(msg[w]) /\ pc[w] \in Prompt)
    BY <1>3 DEF Discard, CrashBeforeAck, LateAck, SendNak, SendTerm, Retry, AckDeadLetter,
                SendAck, Stage, Prompt, Stalled, Settlement, brokerVars, dlqVars, Answers
  <2>2. completed' \in [Msg -> 0 .. 2]
    BY <1>3 DEF Discard, CrashBeforeAck, LateAck, SendNak, SendTerm, Retry, AckDeadLetter,
                SendAck, CountCompletion, IInv, TypeOK
  <2> QED
    BY <1>1, <1>2, <2>1, <2>2, HandlerReturns DEF IInv, TypeOK
<1>4. ASSUME Process(w) \/ ReadScenario(w) \/ ScenarioBranch(w) \/ OutcomeBranch(w)
             \/ PublishDLQ(w) \/ Complete(w)
      PROVE  IInv'
  <2>1. PICK s \in Stage :
             /\ Goto(w, s) /\ pc[w] \in Stage /\ (s \in Prompt => pc[w] \in Prompt)
             /\ UNCHANGED <<msgState, delivered, msg, attempt>>
    BY <1>4 DEF Process, ReadScenario, ScenarioBranch, OutcomeBranch, PublishDLQ, Complete,
                Stage, Prompt, Stalled, brokerVars
  <2>2. msg[w] \in Msg
    BY <2>1 DEF IInv, HandlersHaveMessages
  <2>3. completed' \in [Msg -> 0 .. 2]
    <3>1. CASE Complete(w)
      BY <2>2, <3>1 DEF Complete, CountCompletion, IInv, TypeOK
    <3>2. CASE UNCHANGED completed
      BY <3>2 DEF IInv, TypeOK
    <3> QED
      BY <1>4, <3>1, <3>2 DEF Process, ReadScenario, ScenarioBranch, OutcomeBranch, PublishDLQ
  <2>4. dlq' \in SUBSET Msg
    BY <1>4, <2>2 DEF Process, ReadScenario, ScenarioBranch, OutcomeBranch, PublishDLQ, Complete,
                dlqVars, IInv, TypeOK
  <2>5. payload[msg[w]].scenario \in Scenario \cup {""}
    <3>1. payload[msg[w]] \in Payload \/ payload[msg[w]] = NoPayload
      BY <2>2 DEF IInv, TypeOK
    <3>2. \A p \in Payload : p.scenario \in Scenario \cup {""}
      BY DeliveryAssumption
    <3>3. NoPayload.scenario = ""
      BY DEF NoPayload
    <3> QED
      BY <3>1, <3>2, <3>3
  <2>6. seen' \in [Worker -> Scenario] /\ seenOnce' \in [Worker -> BOOLEAN]
    BY <1>4, <2>5 DEF Process, ReadScenario, ScenarioBranch, OutcomeBranch, PublishDLQ, Complete,
                IInv, TypeOK
  <2> QED
    BY <1>1, <1>2, <2>1, <2>3, <2>4, <2>6, HandlerGoesOn DEF IInv, TypeOK
<1> QED
  BY <1>3, <1>4 DEF Handle

-----------------------------------------------------------------------------
\* A delivery puts a message that no prompt handler has into the hands of one.
LEMMA PullPreserves ==
  ASSUME IInv, NEW w \in Worker, NEW m \in Msg, Pull(w, m)
  PROVE  IInv'
<1>1. /\ msgState' \in [Msg -> {"absent"} \cup Unsettled \cup Settlement]
      /\ delivered' \in [Msg -> 0 .. Cap]
  BY ZeroWithinCap DEF Pull, IInv, TypeOK, Unsettled
<1>2. pc' = [pc EXCEPT ![w] = "received"] /\ msg' = [msg EXCEPT ![w] = m]
  BY DEF Pull, Goto
<1>3. attempt' = [attempt EXCEPT ![w] = delivered'[m]]
  BY DEF Pull
<1>4. /\ pc' \in [Worker -> {"idle", "down"} \cup Stage]
      /\ msg' \in [Worker -> Msg \cup {NoMsg}]
      /\ attempt' \in [Worker -> 0 .. Cap]
  BY <1>1, <1>2, <1>3 DEF IInv, TypeOK, Stage, Prompt
<1>5. TypeOK'
  BY <1>1, <1>4 DEF Pull, IInv, TypeOK, dlqVars, scenarioVars
<1>6. \A v \in Worker \ {w} : /\ pc'[v] = pc[v] /\ msg'[v] = msg[v] /\ attempt'[v] = attempt[v]
                              /\ pc[v] \in Prompt => msg[v] # m /\ msg[v] \in Msg
  BY <1>2, <1>3 DEF Pull, IInv, TypeOK, OnePromptHandler, HandlersHaveMessages, Stage
<1>7. \A k \in Msg \ {m} : msgState'[k] = msgState[k] /\ delivered'[k] = delivered[k]
  BY DEF Pull, IInv, TypeOK
<1>8. msgState'[m] = "out" /\ pc'[w] = "received" /\ msg'[w] = m /\ attempt'[w] = delivered'[m]
  BY <1>2, <1>3 DEF Pull, IInv, TypeOK
<1>9. HandlersHaveMessages'
  BY <1>6, <1>7, <1>8 DEF IInv, HandlersHaveMessages
<1>10. OnePromptHandler'
  BY <1>6, <1>7, <1>8 DEF IInv, OnePromptHandler
<1> QED
  BY <1>5, <1>9, <1>10 DEF IInv

\* The other steps leave the handlers alone or end them all.
LEMMA RestPreserves ==
  ASSUME IInv,
         \/ \E m \in Msg : Publish(m) \/ Expire(m)
         \/ ToggleDLQ \/ Restart
         \/ \E w \in Worker : Respawn(w)
         \/ \E s \in Armable, o \in BOOLEAN : Arm(s, o)
  PROVE  IInv'
<1>1. ASSUME NEW m \in Msg, Publish(m) PROVE IInv'
  <2>1. /\ msgState' = [msgState EXCEPT ![m] = "ready"] /\ msgState[m] = "absent"
        /\ UNCHANGED <<delivered, pc, msg, attempt>>
    BY <1>1 DEF Publish, workerVars
  <2>2. payload' \in [Msg -> Payload \cup {NoPayload}]
    BY <1>1 DEF Publish, IInv, TypeOK
  <2>3. TypeOK'
    BY <1>1, <2>1, <2>2 DEF Publish, IInv, TypeOK, Unsettled, dlqVars, scenarioVars, workerVars
  <2>4. \A v \in Worker : pc[v] \in Stage =>
          /\ msg[v] \in Msg /\ msg[v] # m
          /\ msgState[msg[v]] # "absent" /\ msgState'[msg[v]] = msgState[msg[v]]
    BY <2>1 DEF IInv, TypeOK, HandlersHaveMessages
  <2>5. HandlersHaveMessages'
    BY <2>1, <2>4 DEF HandlersHaveMessages
  <2>6. OnePromptHandler'
    BY <2>1, <2>4 DEF IInv, OnePromptHandler, Stage
  <2> QED
    BY <2>3, <2>5, <2>6 DEF IInv
<1>2. ASSUME NEW m \in Msg, Expire(m) PROVE IInv'
  <2>1. /\ msgState' = [msgState EXCEPT ![m] = "ready"] /\ msgState[m] = "out"
        /\ UNCHANGED <<delivered, pc, msg, attempt>>
    BY <1>2 DEF Expire, workerVars
  <2>2. TypeOK'
    BY <1>2, <2>1 DEF Expire, IInv, TypeOK, Unsettled, dlqVars, scenarioVars, workerVars
  <2>3. HandlersHaveMessages'
    BY <2>1 DEF IInv, TypeOK, HandlersHaveMessages
  <2>4. \A v \in Worker : pc[v] \in Prompt => msg[v] # m /\ msg[v] \in Msg
    BY <1>2 DEF Expire, IInv, HandlersHaveMessages, Stage
  <2>5. OnePromptHandler'
    BY <2>1, <2>4 DEF IInv, TypeOK, OnePromptHandler
  <2> QED
    BY <2>2, <2>3, <2>5 DEF IInv
<1>3. ASSUME ToggleDLQ \/ \E s \in Armable, o \in BOOLEAN : Arm(s, o) PROVE IInv'
  <2>1. UNCHANGED <<msgState, delivered, payload, dlq, workerVars, completed>>
    BY <1>3 DEF ToggleDLQ, Arm, brokerVars, dlqVars
  <2>2. dlqUp' \in BOOLEAN
    BY <1>3 DEF ToggleDLQ, Arm, dlqVars, IInv, TypeOK
  <2>3. scenario' \in Scenario /\ once' \in BOOLEAN
    BY <1>3, DeliveryAssumption DEF ToggleDLQ, Arm, scenarioVars, IInv, TypeOK
  <2> QED
    BY <2>1, <2>2, <2>3 DEF IInv, TypeOK, HandlersHaveMessages, OnePromptHandler, workerVars
<1>4. ASSUME NEW w \in Worker, Respawn(w) PROVE IInv'
  <2>1. /\ pc' = [pc EXCEPT ![w] = "idle"]
        /\ UNCHANGED <<msgState, delivered, msg, attempt>>
    BY <1>4 DEF Respawn, Goto, brokerVars
  <2>2. TypeOK'
    BY <1>4, <2>1 DEF Respawn, IInv, TypeOK, brokerVars, dlqVars, scenarioVars
  <2>3. \A v \in Worker : pc'[v] \in Stage => pc'[v] = pc[v]
    BY <2>1 DEF IInv, TypeOK, Stage, Prompt, Stalled
  <2>4. HandlersHaveMessages'
    BY <2>1, <2>3 DEF IInv, HandlersHaveMessages
  <2>5. OnePromptHandler'
    BY <2>1, <2>3 DEF IInv, OnePromptHandler, Stage
  <2> QED
    BY <2>2, <2>4, <2>5 DEF IInv
<1>5. ASSUME Restart PROVE IInv'
  <2>1. TypeOK'
    BY <1>5, ZeroWithinCap DEF Restart, IInv, TypeOK, Scenario, brokerVars, dlqVars
  <2>2. \A w \in Worker : pc'[w] \notin Stage
    BY <1>5 DEF Restart, Stage, Prompt, Stalled
  <2> QED
    BY <2>1, <2>2 DEF IInv, HandlersHaveMessages, OnePromptHandler, Stage
<1> QED
  BY <1>1, <1>2, <1>3, <1>4, <1>5

-----------------------------------------------------------------------------
LEMMA NextIInv == IInv /\ [Next]_vars => IInv'
<1> SUFFICES ASSUME IInv, [Next]_vars PROVE IInv'
  OBVIOUS
<1>1. ASSUME NEW w \in Worker, NEW m \in Msg, Pull(w, m) PROVE IInv'
  BY <1>1, PullPreserves
<1>2. ASSUME NEW w \in Worker, Handle(w) PROVE IInv'
  BY <1>2, HandlePreserves
<1>3. ASSUME \/ \E m \in Msg : Publish(m) \/ Expire(m)
             \/ ToggleDLQ \/ Restart
             \/ \E w \in Worker : Respawn(w)
             \/ \E s \in Armable, o \in BOOLEAN : Arm(s, o)
      PROVE  IInv'
  BY <1>3, RestPreserves
<1>4. ASSUME UNCHANGED vars PROVE IInv'
  BY <1>4 DEF vars, IInv, TypeOK, HandlersHaveMessages, OnePromptHandler
<1> QED
  BY <1>1, <1>2, <1>3, <1>4 DEF Next

\* The variables of the delivery keep their types (worker.go jsPullLoop,
\* handleJetStreamMsg).
THEOREM TypeCorrect == Spec => []TypeOK
<1>1. IInv => TypeOK
  BY DEF IInv
<1> QED
  BY <1>1, InitIInv, NextIInv, PTL DEF Spec

\* Whatever crashes, stalls, restarts or is negatively acknowledged, no two
\* prompt handlers ever work on the same job (worker.go jsPullLoop,
\* handleJetStreamMsg; the AckWait of subscribeJetStream).
THEOREM OnePromptHandlerAtATime == Spec => []OnePromptHandler
<1>1. IInv => OnePromptHandler
  BY DEF IInv
<1> QED
  BY <1>1, InitIInv, NextIInv, PTL DEF Spec

\* Handlers answer for the message they have.
LEMMA HandleAnswers ==
  ASSUME IInv, NEW w \in Worker, Handle(w)
  PROVE  msg[w] \in Msg /\ (Answers(msg[w]) \/ Nak(msg[w]))
<1>1. pc[w] \in Stage
  BY DEF Handle, Discard, Process, ReadScenario, CrashBeforeAck, ScenarioBranch,
         OutcomeBranch, LateAck, SendNak, SendTerm, Retry, PublishDLQ, AckDeadLetter,
         Complete, SendAck, Stage, Prompt, Stalled
<1>2. Answers(msg[w]) \/ Nak(msg[w])
  BY DEF Handle, Discard, Process, ReadScenario, CrashBeforeAck, ScenarioBranch,
         OutcomeBranch, LateAck, SendNak, SendTerm, Retry, PublishDLQ, AckDeadLetter,
         Complete, SendAck, Answers, Settlement, brokerVars
<1> QED
  BY <1>1, <1>2 DEF IInv, HandlersHaveMessages

-----------------------------------------------------------------------------
(* The safety part of the contract.                                        *)

Outcome == [m \in Msg |-> IF msgState[m] \in Unsettled THEN "owed" ELSE msgState[m]]

\* An answer to the broker resolves the message it names or changes no outcome.
LEMMA AnswersResolve ==
  ASSUME IInv, NEW m \in Msg, Answers(m) \/ Nak(m)
  PROVE  Contract!Resolve(m) \/ Outcome' = Outcome
<1>1. CASE msgState[m] \in Unsettled /\ \E how \in Settlement : Settle(m, how)
  <2>1. PICK how \in Settlement : msgState' = [msgState EXCEPT ![m] = how]
    BY <1>1 DEF Settle
  <2>2. Outcome' = [Outcome EXCEPT ![m] = how]
    BY <2>1 DEF Outcome, IInv, TypeOK, Unsettled, Settlement
  <2> QED
    BY <1>1, <2>2 DEF Contract!Resolve, Contract!Final, Settlement, Outcome
<1>2. CASE ~(msgState[m] \in Unsettled /\ \E how \in Settlement : Settle(m, how))
  <2>1. \A k \in Msg : msgState'[k] = msgState[k] \/ {msgState'[k], msgState[k]} \subseteq Unsettled
    BY <1>2 DEF Answers, Settle, Nak, IInv, TypeOK, Unsettled, Settlement
  <2> QED
    BY <2>1 DEF Outcome
<1> QED
  BY <1>1, <1>2

LEMMA NextContract == IInv /\ [Next]_vars => [Contract!Next]_Outcome
<1> SUFFICES ASSUME IInv, [Next]_vars PROVE Contract!Next \/ Outcome' = Outcome
  OBVIOUS
<1>1. ASSUME NEW w \in Worker, NEW m \in Msg, Pull(w, m) PROVE Outcome' = Outcome
  BY <1>1 DEF Pull, Outcome, Unsettled, IInv, TypeOK
<1>2. ASSUME NEW w \in Worker, Handle(w) PROVE Contract!Next \/ Outcome' = Outcome
  BY <1>2, HandleAnswers, AnswersResolve DEF Contract!Next
<1>3. ASSUME NEW m \in Msg, Publish(m) PROVE Contract!Next
  <2>1. Outcome' = [Outcome EXCEPT ![m] = "owed"] /\ Outcome[m] = "absent"
    BY <1>3 DEF Publish, Outcome, Unsettled, IInv, TypeOK
  <2> QED
    BY <2>1 DEF Contract!Next, Contract!Submit, Outcome
<1>4. ASSUME NEW m \in Msg, Expire(m) PROVE Outcome' = Outcome
  BY <1>4 DEF Expire, Outcome, Unsettled, IInv, TypeOK
<1>5. ASSUME \/ ToggleDLQ \/ Restart
             \/ \E w \in Worker : Respawn(w)
             \/ \E s \in Armable, o \in BOOLEAN : Arm(s, o)
             \/ UNCHANGED vars
      PROVE  Outcome' = Outcome
  BY <1>5 DEF ToggleDLQ, Restart, Respawn, Arm, brokerVars, vars, Outcome
<1> QED
  BY <1>1, <1>2, <1>3, <1>4, <1>5 DEF Next

\* The delivery implements the safety part of the contract: a job is owed from
\* its submission on, and no crash, late ACK or restart changes its final
\* outcome (worker.go handleJetStreamMsg).
THEOREM ContractIsKept == Spec => Contract!Safety
<1>1. Init => Contract!Init
  BY DEF Init, Contract!Init, Unsettled
<1> QED
  BY <1>1, InitIInv, NextIInv, NextContract, PTL DEF Spec, Contract!Safety, Outcome

-----------------------------------------------------------------------------
(* No duplicate execution.                                                 *)

\* No handler outlasts AckWait before it has decided: nobody asks for the 7s
\* sleep, and the processor is not killed.
HandlersAreInTime ==
  /\ "restart" \notin Faults
  /\ "exceed_ack_wait" \notin Armable
  /\ \A p \in Payload : p.scenario # "exceed_ack_wait"

NoneIsSlow ==
  /\ scenario # "exceed_ack_wait"
  /\ \A w \in Worker : seen[w] # "exceed_ack_wait" /\ pc[w] # "slow"

\* A completed job is with the broker no more, or with the handler about to
\* acknowledge it, and no other prompt handler has it.
CompletedIsKept ==
  \A m \in Msg : completed[m] # 0 =>
    /\ completed[m] = 1
    /\ msgState[m] \notin {"ready", "absent"}
    /\ \A w \in Worker : msg[w] = m /\ pc[w] \in Prompt => pc[w] = "ack"
    /\ msgState[m] = "out" => \E w \in Worker : msg[w] = m /\ pc[w] = "ack"

OnceInv == NoneIsSlow /\ CompletedIsKept

LEMMA InitOnce == Init => OnceInv
BY DEF Init, OnceInv, NoneIsSlow, CompletedIsKept

LEMMA NoneBecomesSlow ==
  ASSUME HandlersAreInTime, IInv, NoneIsSlow, Next
  PROVE  NoneIsSlow'
<1>1. ASSUME NEW w \in Worker, ReadScenario(w) PROVE NoneIsSlow'
  <2>1. msg[w] \in Msg /\ UNCHANGED scenario
    BY <1>1 DEF ReadScenario, IInv, HandlersHaveMessages, Stage, Prompt, scenarioVars
  <2>2. payload[msg[w]].scenario # "exceed_ack_wait"
    <3>1. payload[msg[w]] \in Payload \/ payload[msg[w]] = NoPayload
      BY <2>1 DEF IInv, TypeOK
    <3>2. NoPayload.scenario = ""
      BY DEF NoPayload
    <3> QED
      BY <3>1, <3>2 DEF HandlersAreInTime
  <2>3. \A v \in Worker : seen'[v] # "exceed_ack_wait"
    BY <1>1, <2>2 DEF ReadScenario, NoneIsSlow, IInv, TypeOK
  <2>4. \A v \in Worker : pc'[v] # "slow"
    BY <1>1 DEF ReadScenario, Goto, NoneIsSlow, IInv, TypeOK
  <2> QED
    BY <2>1, <2>3, <2>4 DEF NoneIsSlow
<1>2. ASSUME NEW w \in Worker, Handle(w), ~ReadScenario(w) PROVE NoneIsSlow'
  <2>1. scenario' # "exceed_ack_wait"
    BY <1>2 DEF Handle, Discard, CrashBeforeAck, LateAck, SendNak, SendTerm, Retry,
       AckDeadLetter, SendAck, Process, ScenarioBranch, OutcomeBranch, PublishDLQ, Complete,
       Disarm, scenarioVars, NoneIsSlow
  <2>2. seen' = seen \/ seen' = [seen EXCEPT ![w] = "normal"]
    BY <1>2 DEF Handle, Discard, CrashBeforeAck, LateAck, SendNak, SendTerm, Retry,
       AckDeadLetter, SendAck, Process, ScenarioBranch, OutcomeBranch, PublishDLQ, Complete,
       Leave
  <2>3. \E s \in ({"idle", "down"} \cup Stage) \ {"slow"} : pc' = [pc EXCEPT ![w] = s]
    BY <1>2 DEF Handle, Discard, CrashBeforeAck, LateAck, SendNak, SendTerm, Retry,
       AckDeadLetter, SendAck, Process, ScenarioBranch, OutcomeBranch, PublishDLQ, Complete,
       Leave, Goto, FirstAttempt, NoneIsSlow, Stage, Prompt, Stalled
  <2> QED
    BY <2>1, <2>2, <2>3 DEF NoneIsSlow, IInv, TypeOK
<1>3. ASSUME NEW w \in Worker, NEW m \in Msg, Pull(w, m) PROVE NoneIsSlow'
  BY <1>3 DEF Pull, Goto, scenarioVars, NoneIsSlow, IInv, TypeOK
<1>4. ASSUME NEW w \in Worker, Respawn(w) PROVE NoneIsSlow'
  BY <1>4 DEF Respawn, Goto, scenarioVars, NoneIsSlow, IInv, TypeOK
<1>5. ASSUME NEW s \in Armable, NEW o \in BOOLEAN, Arm(s, o) PROVE NoneIsSlow'
  BY <1>5 DEF Arm, workerVars, HandlersAreInTime, NoneIsSlow
<1>6. ASSUME ToggleDLQ \/ \E m \in Msg : Publish(m) \/ Expire(m) PROVE NoneIsSlow'
  BY <1>6 DEF ToggleDLQ, Publish, Expire, scenarioVars, workerVars, NoneIsSlow
<1>7. ~Restart
  BY DEF Restart, HandlersAreInTime
<1> QED
  BY <1>1, <1>2, <1>3, <1>4, <1>5, <1>6, <1>7 DEF Next

\* A handler that leaves its message or goes on with it before COMPLETED has one
\* that is not completed; the one that acknowledges it settles it.
LEMMA HandleKeepsCompleted ==
  ASSUME IInv, OnceInv, NEW w \in Worker, Handle(w)
  PROVE  CompletedIsKept'
<1> DEFINE m == msg[w]
<1>1. m \in Msg /\ msgState[m] # "absent" /\ pc[w] \in Stage
  <2>1. pc[w] \in Stage
    BY DEF Handle, Discard, Process, ReadScenario, CrashBeforeAck, ScenarioBranch,
           OutcomeBranch, LateAck, SendNak, SendTerm, Retry, PublishDLQ, AckDeadLetter,
           Complete, SendAck, Stage, Prompt, Stalled
  <2> QED
    BY <2>1 DEF IInv, HandlersHaveMessages
<1>2. ~LateAck(w)
  BY DEF LateAck, OnceInv, NoneIsSlow
<1>3. pc[w] \in Prompt \ {"ack"} => completed[m] = 0
  BY <1>1 DEF OnceInv, CompletedIsKept
<1>4. \A k \in Msg : completed[k] # 0 =>
        /\ completed[k] = 1 /\ msgState[k] \notin {"ready", "absent"}
        /\ \A v \in Worker : msg[v] = k /\ pc[v] \in Prompt => pc[v] = "ack"
        /\ msgState[k] = "out" => \E v \in Worker : msg[v] = k /\ pc[v] = "ack"
  BY DEF OnceInv, CompletedIsKept
<1>5. pc[w] \in Prompt =>
        /\ msgState[m] # "ready"
        /\ \A v \in Worker \ {w} : pc[v] \in Prompt => msg[v] # m
  BY DEF IInv, OnePromptHandler
<1> HIDE DEF m
<1>6. CASE Complete(w)
  <2>1. /\ pc[w] = "success" /\ pc' = [pc EXCEPT ![w] = "ack"] /\ UNCHANGED <<msg, msgState>>
        /\ completed' = [completed EXCEPT ![m] = 1]
    BY <1>1, <1>3, <1>6 DEF Complete, CountCompletion, Goto, brokerVars, Prompt, m, IInv, TypeOK
  <2>2. pc[w] \in Prompt /\ "ack" \in Prompt
    BY <2>1 DEF Prompt
  <2> SUFFICES ASSUME NEW k \in Msg, completed'[k] # 0
               PROVE  /\ completed'[k] = 1
                      /\ msgState'[k] \notin {"ready", "absent"}
                      /\ \A v \in Worker : msg'[v] = k /\ pc'[v] \in Prompt => pc'[v] = "ack"
                      /\ msgState'[k] = "out" => \E v \in Worker : msg'[v] = k /\ pc'[v] = "ack"
    BY DEF CompletedIsKept
  <2>3. CASE k = m
    BY <1>1, <1>5, <2>1, <2>2, <2>3 DEF IInv, TypeOK, m
  <2>4. CASE k # m
    <3>1. completed'[k] = completed[k] /\ completed[k] # 0
      BY <2>1, <2>4 DEF IInv, TypeOK
    <3>2. \A v \in Worker : msg[v] = k => pc'[v] = pc[v]
      BY <2>1, <2>4 DEF m, IInv, TypeOK
    <3> QED
      BY <1>4, <2>1, <3>1, <3>2
  <2> QED
    BY <2>3, <2>4
<1>7. CASE Process(w) \/ ReadScenario(w) \/ ScenarioBranch(w) \/ OutcomeBranch(w) \/ PublishDLQ(w)
  <2>1. PICK s \in Stage : /\ pc' = [pc EXCEPT ![w] = s]
                           /\ UNCHANGED <<msg, msgState, completed>>
                           /\ pc[w] # "ack" /\ (s \in Prompt => pc[w] \in Prompt)
    BY <1>7 DEF Process, ReadScenario, ScenarioBranch, OutcomeBranch, PublishDLQ, Goto,
                brokerVars, Stage, Prompt, Stalled
  <2> SUFFICES ASSUME NEW k \in Msg, completed[k] # 0
               PROVE  /\ \A v \in Worker : msg[v] = k /\ pc'[v] \in Prompt => pc'[v] = "ack"
                      /\ msgState[k] = "out" => \E v \in Worker : msg[v] = k /\ pc'[v] = "ack"
    BY <1>4, <2>1 DEF CompletedIsKept
  <2>2. \A v \in Worker : v # w => pc'[v] = pc[v]
    BY <2>1 DEF IInv, TypeOK
  <2>3. pc'[w] = s
    BY <2>1 DEF IInv, TypeOK
  <2>4. m = k => pc[w] \notin Prompt
    BY <1>3, <2>1
  <2> QED
    BY <1>4, <2>1, <2>2, <2>3, <2>4 DEF m
<1>8. CASE Discard(w) \/ CrashBeforeAck(w) \/ SendNak(w) \/ SendTerm(w) \/ Retry(w)
           \/ AckDeadLetter(w) \/ SendAck(w)
  <2>1. PICK s \in {"idle", "down"} : /\ pc' = [pc EXCEPT ![w] = s]
                                      /\ msg' = [msg EXCEPT ![w] = NoMsg]
                                      /\ completed' = completed
    BY <1>8 DEF Discard, CrashBeforeAck, SendNak, SendTerm, Retry, AckDeadLetter, SendAck, Leave
  <2>2. \A k \in Msg \ {m} : msgState'[k] = msgState[k]
    BY <1>8 DEF Discard, CrashBeforeAck, SendNak, SendTerm, Retry, AckDeadLetter, SendAck,
                Settle, Nak, brokerVars, m, IInv, TypeOK
  <2>3. completed[m] # 0 => msgState'[m] \notin {"ready", "absent", "out"}
    <3>1. CASE pc[w] \in Prompt \ {"ack"}
      BY <1>3, <3>1
    <3>2. CASE pc[w] \notin Prompt \ {"ack"}
      <4>1. \E how \in Settlement : Settle(m, how)
        BY <1>8, <3>2 DEF Discard, CrashBeforeAck, SendNak, SendTerm, Retry, AckDeadLetter,
                          SendAck, Prompt, Settlement, m
      <4> QED
        BY <1>1, <1>4, <4>1 DEF Settle, Settlement, Unsettled, IInv, TypeOK
    <3> QED
      BY <3>1, <3>2
  <2>4. \A v \in Worker : v # w => pc'[v] = pc[v] /\ msg'[v] = msg[v]
    BY <2>1 DEF IInv, TypeOK
  <2>5. pc'[w] \notin Prompt
    BY <2>1 DEF IInv, TypeOK, Prompt
  <2> SUFFICES ASSUME NEW k \in Msg, completed[k] # 0
               PROVE  /\ completed[k] = 1
                      /\ msgState'[k] \notin {"ready", "absent"}
                      /\ \A v \in Worker : msg'[v] = k /\ pc'[v] \in Prompt => pc'[v] = "ack"
                      /\ msgState'[k] = "out" => \E v \in Worker : msg'[v] = k /\ pc'[v] = "ack"
    BY <2>1 DEF CompletedIsKept
  <2>6. CASE k = m
    BY <1>4, <2>3, <2>4, <2>5, <2>6
  <2>7. CASE k # m
    <3>1. msg[w] # k /\ msgState'[k] = msgState[k]
      BY <2>2, <2>7 DEF m
    <3> QED
      BY <1>4, <2>4, <2>5, <3>1
  <2> QED
    BY <2>6, <2>7
<1> QED
  BY <1>2, <1>6, <1>7, <1>8 DEF Handle

LEMMA NextOnce == HandlersAreInTime /\ IInv /\ OnceInv /\ [Next]_vars => OnceInv'
<1> SUFFICES ASSUME HandlersAreInTime, IInv, OnceInv, [Next]_vars PROVE OnceInv'
  OBVIOUS
<1>1. CASE UNCHANGED vars
  BY <1>1 DEF vars, OnceInv, NoneIsSlow, CompletedIsKept
<1>2. CASE Next
  <2>1. NoneIsSlow'
    BY <1>2, NoneBecomesSlow DEF OnceInv
  <2>2. ASSUME NEW w \in Worker, Handle(w) PROVE CompletedIsKept'
    BY <2>2, HandleKeepsCompleted
  <2>3. ASSUME NEW w \in Worker, NEW m \in Msg, Pull(w, m) PROVE CompletedIsKept'
    <3>1. completed[m] = 0
      BY <2>3 DEF Pull, OnceInv, CompletedIsKept
    <3>2. /\ msgState' = [msgState EXCEPT ![m] = "out"]
          /\ pc[w] = "idle" /\ pc' = [pc EXCEPT ![w] = "received"]
          /\ msg' = [msg EXCEPT ![w] = m] /\ completed' = completed
      BY <2>3 DEF Pull, Goto
    <3> SUFFICES ASSUME NEW k \in Msg, completed[k] # 0, k # m
                 PROVE  /\ completed[k] = 1
                        /\ msgState'[k] \notin {"ready", "absent"}
                        /\ \A v \in Worker : msg'[v] = k /\ pc'[v] \in Prompt => pc'[v] = "ack"
                        /\ msgState'[k] = "out" =>
                             \E v \in Worker : msg'[v] = k /\ pc'[v] = "ack"
      BY <3>1, <3>2 DEF CompletedIsKept
    <3>3. msgState'[k] = msgState[k] /\ msg'[w] = m
      BY <3>2 DEF IInv, TypeOK
    <3>4. \A v \in Worker : v # w => pc'[v] = pc[v] /\ msg'[v] = msg[v]
      BY <3>2 DEF IInv, TypeOK
    <3> QED
      BY <3>2, <3>3, <3>4 DEF OnceInv, CompletedIsKept
  <2>4. ASSUME NEW m \in Msg, Expire(m) PROVE CompletedIsKept'
    <3>1. completed[m] = 0
      BY <2>4 DEF Expire, OnceInv, CompletedIsKept, Prompt
    <3> QED
      BY <2>4, <3>1 DEF Expire, workerVars, OnceInv, CompletedIsKept, IInv, TypeOK
  <2>5. ASSUME NEW m \in Msg, Publish(m) PROVE CompletedIsKept'
    <3>1. completed[m] = 0
      BY <2>5 DEF Publish, OnceInv, CompletedIsKept
    <3> QED
      BY <2>5, <3>1 DEF Publish, workerVars, OnceInv, CompletedIsKept, IInv, TypeOK
  <2>6. ASSUME NEW w \in Worker, Respawn(w) PROVE CompletedIsKept'
    <3>1. /\ pc[w] = "down" /\ pc' = [pc EXCEPT ![w] = "idle"]
          /\ UNCHANGED <<msgState, msg, completed>>
      BY <2>6 DEF Respawn, Goto, brokerVars
    <3>2. \A v \in Worker : /\ pc'[v] \in Prompt => pc'[v] = pc[v]
                            /\ pc[v] = "ack" => pc'[v] = "ack"
      BY <3>1 DEF IInv, TypeOK, Prompt
    <3> QED
      BY <3>1, <3>2 DEF OnceInv, CompletedIsKept
  <2>7. ASSUME ToggleDLQ \/ \E s \in Armable, o \in BOOLEAN : Arm(s, o) PROVE CompletedIsKept'
    BY <2>7 DEF ToggleDLQ, Arm, brokerVars, workerVars, OnceInv, CompletedIsKept
  <2>8. ~Restart
    BY DEF Restart, HandlersAreInTime
  <2> QED
    BY <1>2, <2>1, <2>2, <2>3, <2>4, <2>5, <2>6, <2>7, <2>8 DEF Next, OnceInv
<1> QED
  BY <1>1, <1>2

\* A job is completed at most once when no handler sleeps through AckWait and the
\* processor is not killed, however often workers crash, jobs fail, are retried
\* or dead-lettered, and although the wait for JOBS_DLQ may outlast AckWait
\* (docs/consumer_testing.md:18; worker.go handleJetStreamMsg).
THEOREM NoJobIsExecutedTwice ==
  ASSUME HandlersAreInTime
  PROVE  Spec => []NoDuplicateExecution
<1>1. IInv /\ OnceInv => NoDuplicateExecution
  BY DEF IInv, TypeOK, OnceInv, CompletedIsKept, NoDuplicateExecution
<1>2. Init => IInv /\ OnceInv
  BY InitIInv, InitOnce
<1>3. IInv /\ OnceInv /\ [Next]_vars => (IInv /\ OnceInv)'
  BY NextIInv, NextOnce
<1> QED
  BY <1>1, <1>2, <1>3, PTL DEF Spec

=============================================================================

------------------------ MODULE ProcessorPanelProofs ------------------------
(***************************************************************************)
(* Theorems of ProcessorPanel as MCProcessorPanels runs it, for any number *)
(* of polls and clicks in flight, any pool sizes and any scenarios of the  *)
(* lab. The panel's types are those of both screens: see QueueGroupProofs. *)
(***************************************************************************)
EXTENDS MCProcessorPanels, TLAPS

-----------------------------------------------------------------------------
(* The panel's two copies of the pull loop's state.                        *)

\* The toggle's flag is up from its click to its end.
ToggleIsFlagged ==
  /\ isToggling \in BOOLEAN
  /\ procAwait \in [Processor!Handler -> {"none", "command", "status"}]
  /\ procAwait["toggle"] # "none" => isToggling

\* The copies part only when a toggle was answered, and until the status it then
\* asks for, or another one, arrives or fails.
PartedByToggle ==
  \/ directStatus = NoStatus
  \/ isProcessing = directStatus.processing
  \/ procAwait["toggle"] = "status"
  \/ isConnected = FALSE

AgreeInv == ToggleIsFlagged /\ PartedByToggle

LEMMA InitAgree == Processor!Init => AgreeInv
BY DEF Processor!Init, AgreeInv, ToggleIsFlagged, PartedByToggle, Processor!Handler,
  Processor!Command

\* A handler that comes to another await leaves the toggle where it is.
LEMMA OthersAwait ==
  ASSUME AgreeInv, NEW h \in Processor!Handler \ {"toggle"},
         NEW what \in {"none", "command", "status"}, procAwait' = [procAwait EXCEPT ![h] = what],
         isToggling' = isToggling
  PROVE  ToggleIsFlagged' /\ procAwait'["toggle"] = procAwait["toggle"]
BY DEF AgreeInv, ToggleIsFlagged, Processor!Handler, Processor!Command

LEMMA UserAgree ==
  ASSUME Processor!PanelAssumption, AgreeInv, Processor!Tick \/ Processor!User
  PROVE  AgreeInv'
<1>1. UNCHANGED Processor!shown
  BY DEF Processor!Tick, Processor!User, Processor!handleToggle, Processor!ClickReset,
    Processor!handleRestart, Processor!handleScaleWorkers, Processor!ClickCard,
    Processor!handleSetScenario, Processor!Give
<1>2. CASE Processor!handleToggle
  <2>1. /\ isToggling' = TRUE /\ isToggling = FALSE
        /\ procAwait' = [procAwait EXCEPT !["toggle"] = "command"]
    BY <1>2 DEF Processor!handleToggle, Processor!PullLoopButton, Processor!Give,
      Processor!Await, AgreeInv, ToggleIsFlagged
  <2>2. ToggleIsFlagged'
    BY <2>1 DEF AgreeInv, ToggleIsFlagged
  <2>3. procAwait["toggle"] # "status"
    BY <2>1 DEF AgreeInv, ToggleIsFlagged
  <2>4. PartedByToggle'
    BY <1>1, <2>3 DEF AgreeInv, PartedByToggle, Processor!shown
  <2> QED
    BY <2>2, <2>4 DEF AgreeInv
<1>3. CASE ~Processor!handleToggle
  <2>1. "toggle" \notin Poll \cup Restart
    BY DEF Processor!PanelAssumption, Processor!Command
  <2>2. PICK h \in Processor!Handler \ {"toggle"}, what \in {"none", "command", "status"} :
             procAwait' = [procAwait EXCEPT ![h] = what]
    BY <1>3, <2>1 DEF Processor!Tick, Processor!User, Processor!ClickReset,
      Processor!handleRestart, Processor!handleScaleWorkers, Processor!ClickCard,
      Processor!handleSetScenario, Processor!Give, Processor!refreshDirectData, Processor!Await,
      Processor!Handler, Processor!Command
  <2>3. isToggling' = isToggling
    BY <1>3 DEF Processor!Tick, Processor!User, Processor!ClickReset, Processor!handleRestart,
      Processor!handleScaleWorkers, Processor!ClickCard, Processor!handleSetScenario,
      Processor!flags
  <2>4. ToggleIsFlagged' /\ procAwait'["toggle"] = procAwait["toggle"]
    BY <2>2, <2>3, OthersAwait
  <2> QED
    BY <1>1, <2>4 DEF AgreeInv, PartedByToggle, Processor!shown
<1> QED
  BY <1>2, <1>3

\* An answered toggle parts the copies while it asks for the status; a status
\* joins them; a handler that ends without one leaves the toggle's copies
\* together, or knows that it has lost the processor.
LEMMA ProgressAgree ==
  ASSUME Processor!PanelAssumption, AgreeInv, NEW h \in Processor!Handler, Processor!Progress(h)
  PROVE  AgreeInv'
<1>1. CASE Processor!Serve(h) \/ Processor!Lose(h)
  BY <1>1 DEF Processor!Serve, Processor!Lose, Processor!server, Processor!shown,
    Processor!flags, AgreeInv, ToggleIsFlagged, PartedByToggle
<1>2. CASE Processor!CommandDone(h)
  <2>1. /\ procAwait[h] = "command" /\ procAwait' = [procAwait EXCEPT ![h] = "status"]
        /\ UNCHANGED <<directStatus, isConnected, isToggling>>
        /\ h # "toggle" => isProcessing' = isProcessing
    BY <1>2 DEF Processor!CommandDone, Processor!refreshDirectData, Processor!Await,
      Processor!flags
  <2>2. ToggleIsFlagged'
    BY <2>1 DEF AgreeInv, ToggleIsFlagged
  <2>3. CASE h = "toggle"
    <3>1. procAwait'["toggle"] = "status"
      BY <2>1, <2>3 DEF AgreeInv, ToggleIsFlagged
    <3> QED
      BY <2>2, <3>1 DEF AgreeInv, PartedByToggle
  <2>4. CASE h # "toggle"
    <3>1. procAwait'["toggle"] = procAwait["toggle"]
      BY <2>1, <2>4 DEF AgreeInv, ToggleIsFlagged
    <3> QED
      BY <2>1, <2>2, <2>4, <3>1 DEF AgreeInv, PartedByToggle
  <2> QED
    BY <2>3, <2>4
<1>3. CASE Processor!CommandFailed(h) \/ Processor!StatusDone(h) \/ Processor!StatusFailed(h)
  <2>1. /\ procAwait' = [procAwait EXCEPT ![h] = "none"]
        /\ isToggling' = IF h = "toggle" THEN FALSE ELSE isToggling
    BY <1>3 DEF Processor!CommandFailed, Processor!StatusDone, Processor!StatusFailed,
      Processor!Await, Processor!Lower
  <2>2. ToggleIsFlagged'
    <3>1. CASE h = "toggle"
      BY <2>1, <3>1 DEF AgreeInv, ToggleIsFlagged
    <3>2. CASE h # "toggle"
      <4>1. isToggling' = isToggling
        BY <2>1, <3>2
      <4> QED
        BY <2>1, <3>2, <4>1, OthersAwait
    <3> QED
      BY <3>1, <3>2
  <2>3. CASE Processor!CommandFailed(h)
    <3>1. procAwait[h] = "command" /\ UNCHANGED Processor!shown
      BY <2>3 DEF Processor!CommandFailed
    <3>2. procAwait["toggle"] = "status" => procAwait'["toggle"] = "status"
      BY <2>1, <3>1 DEF AgreeInv, ToggleIsFlagged
    <3> QED
      BY <2>2, <3>1, <3>2 DEF AgreeInv, PartedByToggle, Processor!shown
  <2>4. CASE Processor!StatusDone(h)
    BY <2>2, <2>4 DEF Processor!StatusDone, AgreeInv, PartedByToggle
  <2>5. CASE Processor!StatusFailed(h)
    BY <2>2, <2>5 DEF Processor!StatusFailed, AgreeInv, PartedByToggle
  <2> QED
    BY <1>3, <2>3, <2>4, <2>5
<1> QED
  BY <1>1, <1>2, <1>3 DEF Processor!Progress

LEMMA NextAgree == Processor!PanelAssumption /\ AgreeInv /\ [Processor!Next]_(Processor!vars) => AgreeInv'
<1> SUFFICES ASSUME Processor!PanelAssumption, AgreeInv, [Processor!Next]_(Processor!vars) PROVE AgreeInv'
  OBVIOUS
<1>1. CASE Processor!Tick \/ Processor!User
  BY <1>1, UserAgree
<1>2. CASE \E h \in Processor!Handler : Processor!Progress(h)
  BY <1>2, ProgressAgree
<1>3. CASE Processor!GoDown \/ Processor!ComeBack \/ Processor!Foreign \/ UNCHANGED Processor!vars
  BY <1>3 DEF Processor!GoDown, Processor!ComeBack, Processor!Foreign, Processor!vars,
    Processor!server, Processor!shown, Processor!flags, AgreeInv, ToggleIsFlagged,
    PartedByToggle
<1> QED
  BY <1>1, <1>2, <1>3 DEF Processor!Next

\* The panel never shows two different states of the pull loop, unless a toggle
\* is still running or the processor is lost, whichever polls, commands, outages
\* and changes by others overlap (CoreFlowProcessor.tsx handleToggle,
\* refreshDirectData).
THEOREM CopiesStayTogether == Spec => []CopiesAgree
<1> DEFINE Inv == screen = "processor" => AgreeInv
<1>1. Init => Inv
  BY InitAgree DEF Init
<1>2. Inv /\ [Next]_vars => Inv'
  <2> SUFFICES ASSUME Inv, [Next]_vars PROVE Inv'
    OBVIOUS
  <2>1. CASE OnProcessor(Processor!Next)
    BY <2>1, NextAgree, PanelsAssumption DEF OnProcessor
  <2>2. CASE OnQueue(Queue!Next)
    BY <2>2 DEF OnQueue
  <2>3. CASE UNCHANGED vars
    BY <2>3 DEF vars, processorOnly, AgreeInv, ToggleIsFlagged, PartedByToggle
  <2> QED
    BY <2>1, <2>2, <2>3 DEF Next
<1>3. Inv => CopiesAgree
  BY DEF AgreeInv, ToggleIsFlagged, PartedByToggle, CopiesAgree, Processor!CopiesAgree
<1> QED
  BY <1>1, <1>2, <1>3, PTL DEF Spec

-----------------------------------------------------------------------------
(* Types.                                                                  *)

\* A command travels with the body of its handler; polls send none.
CallsFit ==
  \A h \in Processor!Handler : procAwait[h] = "command" /\ procCall[h].at = "sent" =>
    /\ h \in Processor!Command \cup Restart
    /\ h = "toggle" => procCall[h].body \in [enabled: BOOLEAN]
    /\ h = "scale" => procCall[h].body \in [workers: Sizes]
    /\ h = "scenario" => procCall[h].body \in [scenario: Scenario \cup {"normal"}]

PanelInv == Processor!TypeOK /\ CallsFit

LEMMA CallTypes ==
  /\ Processor!Idle \in Processor!Call /\ Processor!Failed \in Processor!Call /\ Processor!Sent(Processor!NoBody) \in Processor!Call
  /\ \A b \in Processor!Body : Processor!Sent(b) \in Processor!Call
  /\ \A s \in Processor!Status : Processor!Answered(s) \in Processor!Call
BY DEF Processor!Idle, Processor!Failed, Processor!Sent, Processor!Answered, Processor!NoBody,
  Processor!Call, Processor!Body

LEMMA AnswersAreStatuses ==
  ASSUME NEW c \in Processor!Call, c.at = "answered"
  PROVE  c.status \in Processor!Status
<1>1. PICK s \in Processor!Status : c = [at |-> "answered", status |-> s]
  BY DEF Processor!Call
<1> QED
  BY <1>1

\* The processor's status keeps its type through every request and every change
\* by others.
LEMMA StatusTypes ==
  ASSUME proc \in Processor!Status, 1 \in Sizes
  PROVE  /\ \A on \in BOOLEAN : Processor!PutState(on) \in Processor!Status
         /\ \A n \in Sizes : Processor!PutWorkers(n) \in Processor!Status
         /\ \A sc \in Scenario \cup {"normal"} : Processor!PutScenario(sc) \in Processor!Status
         /\ Processor!PostRestart \in Processor!Status
         /\ proc.processing \in BOOLEAN
<1>1. \A on \in BOOLEAN : Processor!PutState(on) \in Processor!Status
  BY DEF Processor!PutState, Processor!Status, Processor!Goroutines
<1>2. \A n \in Sizes : Processor!PutWorkers(n) \in Processor!Status
  BY DEF Processor!PutWorkers, Processor!Status
<1>3. \A sc \in Scenario \cup {"normal"} : Processor!PutScenario(sc) \in Processor!Status
  BY DEF Processor!PutScenario, Processor!Status
<1>4. Processor!PostRestart \in Processor!Status /\ proc.processing \in BOOLEAN
  BY DEF Processor!PostRestart, Processor!Status, Processor!Goroutines
<1> QED
  BY <1>1, <1>2, <1>3, <1>4

LEMMA Bounds ==
  ASSUME Processor!PanelAssumption
  PROVE  MaxClicks \in Nat /\ MaxForeign \in Nat /\ MaxOutages \in Nat /\ 1 \in Sizes
BY DEF Processor!PanelAssumption

LEMMA InitTypes == Processor!PanelAssumption /\ Processor!Init => PanelInv
<1> SUFFICES ASSUME Processor!PanelAssumption, Processor!Init PROVE PanelInv
  OBVIOUS
<1>1. CallsFit
  BY DEF Processor!Init, CallsFit
<1>2. procCall \in [Processor!Handler -> Processor!Call] /\ procAwait \in [Processor!Handler -> {"none", "command", "status"}]
  BY CallTypes DEF Processor!Init
<1>3. proc \in Processor!Status
  BY DEF Processor!Init
<1>4. foreign \in 0..MaxForeign /\ outages \in 0..MaxOutages /\ clicks \in 0..MaxClicks
  BY Bounds DEF Processor!Init
<1>5. /\ up \in BOOLEAN /\ directStatus = NoStatus
      /\ {isProcessing, isConnected, isToggling, isScaling, isSettingScenario} \subseteq BOOLEAN
  BY DEF Processor!Init
<1> QED
  BY <1>1, <1>2, <1>3, <1>4, <1>5 DEF PanelInv, Processor!TypeOK

\* A handler that comes to an await keeps the types if its call has one.
LEMMA AwaitTypes ==
  ASSUME PanelInv, NEW h \in Processor!Handler, NEW what \in {"none", "command", "status"},
         NEW c \in Processor!Call, Processor!Await(h, what, c),
         what = "command" =>
            /\ h \in Processor!Command \cup Restart
            /\ h = "toggle" => c.body \in [enabled: BOOLEAN]
            /\ h = "scale" => c.body \in [workers: Sizes]
            /\ h = "scenario" => c.body \in [scenario: Scenario \cup {"normal"}]
  PROVE  /\ procAwait' \in [Processor!Handler -> {"none", "command", "status"}]
         /\ procCall' \in [Processor!Handler -> Processor!Call]
         /\ CallsFit'
<1>1. /\ procAwait' \in [Processor!Handler -> {"none", "command", "status"}]
      /\ procCall' \in [Processor!Handler -> Processor!Call]
  BY DEF Processor!Await, PanelInv, Processor!TypeOK
<1>2. /\ procAwait'[h] = what /\ procCall'[h] = c
      /\ \A k \in Processor!Handler : k # h => procAwait'[k] = procAwait[k] /\ procCall'[k] = procCall[k]
  BY DEF Processor!Await, PanelInv, Processor!TypeOK
<1>3. CallsFit'
  BY <1>2 DEF PanelInv, CallsFit
<1> QED
  BY <1>1, <1>3

LEMMA UserTypes ==
  ASSUME Processor!PanelAssumption, PanelInv, Processor!Tick \/ Processor!User
  PROVE  PanelInv'
<1>1. UNCHANGED <<Processor!server, Processor!shown>>
  BY DEF Processor!Tick, Processor!User, Processor!handleToggle, Processor!ClickReset,
    Processor!handleRestart, Processor!handleScaleWorkers, Processor!ClickCard,
    Processor!handleSetScenario, Processor!Give
<1>2. clicks' \in 0..MaxClicks
  <2>1. clicks' = clicks \/ (clicks < MaxClicks /\ clicks' = clicks + 1)
    BY DEF Processor!Tick, Processor!User, Processor!handleToggle, Processor!ClickReset,
      Processor!handleRestart, Processor!handleScaleWorkers, Processor!ClickCard,
      Processor!handleSetScenario, Processor!Give
  <2>2. clicks \in 0..MaxClicks
    BY DEF PanelInv, Processor!TypeOK
  <2> QED
    BY <2>1, <2>2, Bounds
<1>3. isToggling' \in BOOLEAN /\ isScaling' \in BOOLEAN /\ isSettingScenario' \in BOOLEAN
  BY DEF Processor!Tick, Processor!User, Processor!handleToggle, Processor!ClickReset,
    Processor!handleRestart, Processor!handleScaleWorkers, Processor!ClickCard,
    Processor!handleSetScenario, Processor!flags, PanelInv, Processor!TypeOK
<1>4. /\ procAwait' \in [Processor!Handler -> {"none", "command", "status"}]
      /\ procCall' \in [Processor!Handler -> Processor!Call]
      /\ CallsFit'
  <2> DEFINE Goal == /\ procAwait' \in [Processor!Handler -> {"none", "command", "status"}]
                     /\ procCall' \in [Processor!Handler -> Processor!Call]
                     /\ CallsFit'
  <2> USE DEF Processor!Handler
  <2>1. ASSUME Processor!Tick PROVE Goal
    BY <2>1, CallTypes, AwaitTypes DEF Processor!Tick, Processor!refreshDirectData
  <2>2. ASSUME Processor!handleToggle PROVE Goal
    <3> DEFINE b == [enabled |-> ~isProcessing]
    <3>1. Processor!Await("toggle", "command", Processor!Sent(b))
      BY <2>2 DEF Processor!handleToggle, Processor!Give
    <3>2. b \in [enabled: BOOLEAN] /\ b \in Processor!Body
      BY DEF Processor!Body
    <3>3. Processor!Sent(b).body = b
      BY DEF Processor!Sent
    <3> HIDE DEF b
    <3> QED
      BY <3>1, <3>2, <3>3, CallTypes, AwaitTypes DEF Processor!Command
  <2>3. ASSUME NEW n \in Sizes, Processor!handleScaleWorkers(n) PROVE Goal
    <3> DEFINE b == [workers |-> n]
    <3>1. Processor!Await("scale", "command", Processor!Sent(b))
      BY <2>3 DEF Processor!handleScaleWorkers, Processor!Give
    <3>2. b \in [workers: Sizes] /\ b \in Processor!Body
      BY DEF Processor!Body
    <3>3. Processor!Sent(b).body = b
      BY DEF Processor!Sent
    <3> HIDE DEF b
    <3> QED
      BY <3>1, <3>2, <3>3, CallTypes, AwaitTypes DEF Processor!Command
  <2>4. ASSUME NEW sc \in Scenario \cup {"normal"}, Processor!handleSetScenario(sc) PROVE Goal
    <3> DEFINE b == [scenario |-> sc]
    <3>1. Processor!Await("scenario", "command", Processor!Sent(b))
      BY <2>4 DEF Processor!handleSetScenario, Processor!Give
    <3>2. b \in [scenario: Scenario \cup {"normal"}] /\ b \in Processor!Body
      BY DEF Processor!Body
    <3>3. Processor!Sent(b).body = b
      BY DEF Processor!Sent
    <3> HIDE DEF b
    <3> QED
      BY <3>1, <3>2, <3>3, CallTypes, AwaitTypes DEF Processor!Command
  <2>5. ASSUME Processor!handleRestart PROVE Goal
    <3>1. PICK r \in Restart : Processor!Await(r, "command", Processor!Sent(Processor!NoBody))
      BY <2>5 DEF Processor!handleRestart, Processor!Give
    <3>2. r \notin Processor!Command
      BY DEF Processor!PanelAssumption
    <3> QED
      BY <3>1, <3>2, CallTypes, AwaitTypes DEF Processor!Command
  <2>6. ASSUME NEW sc \in Scenario PROVE Processor!CardOf(sc).sends \in Scenario \cup {"normal"}
    BY DEF Processor!PanelAssumption, Processor!CardOf, Processor!OutOfOrderCard,
      Processor!CrashCard, Processor!ExceedCard, Processor!NakCard, Processor!TermCard,
      Processor!Card, Processor!PartA, Processor!PartB
  <2> QED
    BY <2>1, <2>2, <2>3, <2>4, <2>5, <2>6 DEF Processor!User, Processor!ClickCard,
      Processor!ClickReset
<1> QED
  BY <1>1, <1>2, <1>3, <1>4 DEF PanelInv, Processor!TypeOK, Processor!server, Processor!shown

LEMMA ProgressTypes ==
  ASSUME Processor!PanelAssumption, PanelInv, NEW h \in Processor!Handler, Processor!Progress(h)
  PROVE  PanelInv'
<1>1. procCall[h] \in Processor!Call /\ 1 \in Sizes
  BY DEF PanelInv, Processor!TypeOK, Processor!PanelAssumption
<1>2. CASE Processor!Serve(h)
  <2>1. proc' \in Processor!Status
    <3>1. CASE procAwait[h] # "command"
      BY <1>2, <3>1 DEF Processor!Serve, PanelInv, Processor!TypeOK
    <3>2. CASE procAwait[h] = "command"
      <4> DEFINE b == procCall[h].body
      <4>1. /\ h \in Processor!Command \cup Restart
            /\ h = "toggle" => b \in [enabled: BOOLEAN]
            /\ h = "scale" => b \in [workers: Sizes]
            /\ h = "scenario" => b \in [scenario: Scenario \cup {"normal"}]
        BY <1>2, <3>2 DEF Processor!Serve, PanelInv, CallsFit
      <4>2. proc' = Processor!Effect(h, b)
        BY <1>2, <3>2 DEF Processor!Serve
      <4> HIDE DEF b
      <4>3. /\ \A on \in BOOLEAN : Processor!PutState(on) \in Processor!Status
            /\ \A n \in Sizes : Processor!PutWorkers(n) \in Processor!Status
            /\ \A sc \in Scenario \cup {"normal"} : Processor!PutScenario(sc) \in Processor!Status
            /\ Processor!PostRestart \in Processor!Status
        BY <1>1, StatusTypes DEF PanelInv, Processor!TypeOK
      <4>4. CASE h = "toggle"
        BY <4>1, <4>2, <4>3, <4>4 DEF Processor!Effect
      <4>5. CASE h = "scale"
        BY <4>1, <4>2, <4>3, <4>5 DEF Processor!Effect
      <4>6. CASE h = "scenario"
        BY <4>1, <4>2, <4>3, <4>6 DEF Processor!Effect
      <4>7. CASE h \in Restart
        <5>1. h \notin Processor!Command
          BY <4>7 DEF Processor!PanelAssumption
        <5> QED
          BY <4>2, <4>3, <4>7, <5>1 DEF Processor!Effect, Processor!Command
      <4> QED
        BY <4>1, <4>4, <4>5, <4>6, <4>7 DEF Processor!Command
    <3> QED
      BY <3>1, <3>2
  <2>2. procCall' = [procCall EXCEPT ![h] = Processor!Answered(proc')] /\ Processor!Answered(proc').at = "answered"
    BY <1>2 DEF Processor!Serve, Processor!Answered
  <2>3. Processor!Answered(proc') \in Processor!Call
    BY <2>1, CallTypes
  <2>4. procCall' \in [Processor!Handler -> Processor!Call]
    BY <2>2, <2>3 DEF PanelInv, Processor!TypeOK
  <2>5. CallsFit'
    BY <1>2, <2>2 DEF Processor!Serve, PanelInv, Processor!TypeOK, CallsFit
  <2> QED
    BY <1>2, <2>1, <2>4, <2>5 DEF Processor!Serve, PanelInv, Processor!TypeOK, Processor!shown,
      Processor!flags
<1>3. CASE Processor!Lose(h)
  <2>1. procCall' = [procCall EXCEPT ![h] = Processor!Failed] /\ Processor!Failed.at = "failed" /\ Processor!Failed \in Processor!Call
    BY <1>3, CallTypes DEF Processor!Lose, Processor!Failed
  <2>2. procCall' \in [Processor!Handler -> Processor!Call]
    BY <2>1 DEF PanelInv, Processor!TypeOK
  <2>3. CallsFit'
    BY <1>3, <2>1 DEF Processor!Lose, PanelInv, Processor!TypeOK, CallsFit
  <2> QED
    BY <1>3, <2>2, <2>3 DEF Processor!Lose, PanelInv, Processor!TypeOK, Processor!server,
      Processor!shown, Processor!flags
<1>4. CASE Processor!CommandDone(h) \/ Processor!CommandFailed(h) \/ Processor!StatusDone(h) \/ Processor!StatusFailed(h)
  <2>1. procCall[h].at = "answered" => procCall[h].status \in Processor!Status /\ procCall[h].status.processing \in BOOLEAN
    <3>1. procCall[h].at = "answered" => procCall[h].status \in Processor!Status
      BY <1>1, AnswersAreStatuses
    <3> QED
      BY <3>1 DEF Processor!Status
  <2>2. /\ directStatus' \in Processor!Status \cup {NoStatus}
        /\ isConnected' \in BOOLEAN
        /\ UNCHANGED <<Processor!server, clicks>>
    BY <1>4, <2>1 DEF Processor!CommandDone, Processor!CommandFailed, Processor!StatusDone,
      Processor!StatusFailed, Processor!shown, PanelInv, Processor!TypeOK
  <2>3. isProcessing' \in BOOLEAN
    <3>1. isProcessing \in BOOLEAN
      BY DEF PanelInv, Processor!TypeOK
    <3> QED
      BY <1>4, <2>1, <3>1 DEF Processor!CommandDone, Processor!CommandFailed,
        Processor!StatusDone, Processor!StatusFailed, Processor!shown
  <2>4. isToggling' \in BOOLEAN /\ isScaling' \in BOOLEAN /\ isSettingScenario' \in BOOLEAN
    <3>1. isToggling \in BOOLEAN /\ isScaling \in BOOLEAN /\ isSettingScenario \in BOOLEAN
      BY DEF PanelInv, Processor!TypeOK
    <3>2. Processor!Lower(h) \/ UNCHANGED Processor!flags
      BY <1>4 DEF Processor!CommandDone, Processor!CommandFailed, Processor!StatusDone,
        Processor!StatusFailed
    <3> QED
      BY <3>1, <3>2 DEF Processor!Lower, Processor!flags
  <2>5. PICK what \in {"none", "status"}, c \in Processor!Call : Processor!Await(h, what, c)
    BY <1>4, CallTypes DEF Processor!CommandDone, Processor!CommandFailed, Processor!StatusDone,
      Processor!StatusFailed, Processor!refreshDirectData
  <2>6. /\ procAwait' \in [Processor!Handler -> {"none", "command", "status"}]
        /\ procCall' \in [Processor!Handler -> Processor!Call]
        /\ CallsFit'
    BY <2>5, AwaitTypes
  <2> QED
    BY <2>2, <2>3, <2>4, <2>6 DEF PanelInv, Processor!TypeOK, Processor!server
<1> QED
  BY <1>2, <1>3, <1>4 DEF Processor!Progress

LEMMA NextTypes == Processor!PanelAssumption /\ PanelInv /\ [Processor!Next]_(Processor!vars) => PanelInv'
<1> SUFFICES ASSUME Processor!PanelAssumption, PanelInv, [Processor!Next]_(Processor!vars) PROVE PanelInv'
  OBVIOUS
<1>1. CASE Processor!Tick \/ Processor!User
  BY <1>1, UserTypes
<1>2. CASE \E h \in Processor!Handler : Processor!Progress(h)
  BY <1>2, ProgressTypes
<1>3. CASE Processor!GoDown \/ Processor!ComeBack \/ UNCHANGED Processor!vars
  <2>1. up \in BOOLEAN /\ outages \in 0..MaxOutages
    BY DEF PanelInv, Processor!TypeOK
  <2>2. up' \in BOOLEAN
    BY <1>3, <2>1 DEF Processor!GoDown, Processor!ComeBack, Processor!vars, Processor!server
  <2>3. outages' = outages \/ (outages < MaxOutages /\ outages' = outages + 1)
    BY <1>3 DEF Processor!GoDown, Processor!ComeBack, Processor!vars, Processor!server
  <2>4. outages' \in 0..MaxOutages
    BY <2>1, <2>3, Bounds
  <2>5. UNCHANGED <<proc, foreign, Processor!shown, Processor!flags, clicks, procAwait, procCall>>
    BY <1>3 DEF Processor!GoDown, Processor!ComeBack, Processor!vars, Processor!server
  <2> QED
    BY <2>2, <2>4, <2>5 DEF Processor!shown, Processor!flags, PanelInv, Processor!TypeOK, CallsFit
<1>4. CASE Processor!Foreign
  <2>1. proc' \in Processor!Status
    <3> /\ proc \in Processor!Status /\ 1 \in Sizes
      BY DEF PanelInv, Processor!TypeOK, Processor!PanelAssumption
    <3>1. Processor!PutState(~proc.processing) \in Processor!Status /\ Processor!PostRestart \in Processor!Status
      BY StatusTypes
    <3>2. [proc EXCEPT !.scenario = "normal"] \in Processor!Status
      BY DEF Processor!Status
    <3>3. [proc EXCEPT !.scenario = "normal",
              !.goroutines = IF proc.workers > 1 THEN "DEGRADED" ELSE "CRASHED"] \in Processor!Status
      BY DEF Processor!Status, Processor!Goroutines
    <3> QED
      BY <1>4, <3>1, <3>2, <3>3 DEF Processor!Foreign
  <2>2. foreign' \in 0..MaxForeign
    BY <1>4, Bounds DEF Processor!Foreign, PanelInv, Processor!TypeOK
  <2> QED
    BY <1>4, <2>1, <2>2 DEF Processor!Foreign, PanelInv, Processor!TypeOK, CallsFit,
      Processor!shown, Processor!flags
<1> QED
  BY <1>1, <1>2, <1>3, <1>4 DEF Processor!Next

=============================================================================

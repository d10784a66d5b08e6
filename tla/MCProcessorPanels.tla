-------------------------- MODULE MCProcessorPanels --------------------------
(* The panels of the processor and of the queue groups side by side: one of    *)
(* them per behaviour, chosen in the initial state. The variables of the other *)
(* keep their initial values.                                                  *)
EXTENDS Naturals

CONSTANTS
  Poll, Restart, Sizes, Scenario, MaxForeign,  \* ProcessorPanel
  MaxWorkers, MaxSent,                         \* QueueGroup
  MaxClicks, MaxOutages, NoStatus              \* both

VARIABLES
  screen,
  \* shared
  up, outages, clicks,
  \* ProcessorPanel
  proc, foreign, directStatus, isProcessing, isConnected, isToggling, isScaling, isSettingScenario,
  procAwait, procCall,
  \* QueueGroup
  queueWorkersCount, queueSubs, queueDistribution, setting, sent, batch, pending, counted,
  status, workers, isUpdatingWorkers, isResetting, isSending, await, call

Processor == INSTANCE ProcessorPanel WITH await <- procAwait, call <- procCall
Queue == INSTANCE QueueGroup

ASSUME PanelsAssumption == Processor!PanelAssumption /\ Queue!GroupAssumption

shared == <<up, outages, clicks>>
processorOnly == <<proc, foreign, directStatus, isProcessing, isConnected, isToggling, isScaling,
                   isSettingScenario, procAwait, procCall>>
queueOnly == <<queueWorkersCount, queueSubs, queueDistribution, setting, sent, batch, pending,
               counted, status, workers, isUpdatingWorkers, isResetting, isSending, await, call>>
vars == <<screen, shared, processorOnly, queueOnly>>

Init == /\ screen \in {"processor", "queue"}
        /\ Processor!Init /\ Queue!Init
        /\ screen # "processor" => proc.processing

OnProcessor(A) == screen = "processor" /\ A /\ UNCHANGED <<screen, queueOnly>>
OnQueue(A) == screen = "queue" /\ A /\ UNCHANGED <<screen, processorOnly>>

Next == OnProcessor(Processor!Next) \/ OnQueue(Queue!Next)

\* The fairness of each module: as the screen never changes, one condition serves
\* a handler of each.
Fairness ==
  /\ WF_vars(OnProcessor(Processor!Tick) \/ OnQueue(Queue!Tick))
  /\ WF_vars(OnProcessor(Processor!Progress("toggle")) \/ OnQueue(Queue!Progress("workers")))
  /\ WF_vars(OnProcessor(Processor!Progress("scale")) \/ OnQueue(Queue!Progress("reset")))
  /\ WF_vars(OnProcessor(Processor!Progress("scenario")) \/ OnQueue(Queue!Progress("send")))
  /\ WF_vars(OnQueue(Queue!Progress("poll")))
  /\ WF_vars(OnQueue(Queue!handleQueueMessage))
  /\ \A h \in Poll \cup Restart : WF_vars(OnProcessor(Processor!Progress(h)))

Spec == Init /\ [][Next]_vars /\ Fairness

-----------------------------------------------------------------------------
(* The properties of the two modules, each over its own screen.                *)

(* Every variable of the two panels has its type.                              *)
TypeOK == Processor!TypeOK /\ Queue!TypeOK

(* ProcessorPanel: its two copies of the pull loop's state never contradict    *)
(* each other for good.                                                        *)
CopiesAgree == screen = "processor" => Processor!CopiesAgree
(* QueueGroup: outside of a reconfiguration the members are the configured     *)
(* ones, and only members hold messages.                                       *)
MembersMatchCount == screen = "queue" => Queue!MembersMatchCount
(* The panels settle once the user stops: their buttons are back, also when a  *)
(* service never is, they show what a connected processor has, and a group     *)
(* that was never resized nor cut off has handled every message once.          *)
PanelsSettle ==
  <>[](/\ Processor!ButtonsFree /\ Queue!ButtonsFree
       /\ screen = "processor" /\ up => Processor!ShowsProcessor
       /\ screen = "queue" /\ up => Queue!ShowsGroup
       /\ screen = "queue" /\ outages = 0 /\ ~setting.resized => Queue!AllHandled)

=============================================================================

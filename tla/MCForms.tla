------------------------------- MODULE MCForms -------------------------------
(* The forms that ask the services for something side by side: validation, the *)
(* retry lab and replay, one per behaviour, chosen in the initial state. The   *)
(* variables of the others keep their initial values.                          *)
EXTENDS Naturals

CONSTANTS
  MaxRequests, MaxChanges,             \* ValidateJob
  MaxNo, MaxClicks, MaxFaults,         \* RetryLab
  MaxMessages, MaxReplays, MaxResets,  \* ReplayForm
  None                                 \* all of them

VARIABLES
  screen,
  validateServer, validatePanel, validateFlight,
  labServer, labPanel, labFlight,
  replayServer, replayPanel, replayFlight

Validate == INSTANCE ValidateJob WITH
  server <- validateServer, panel <- validatePanel, flight <- validateFlight
Lab == INSTANCE RetryLab WITH
  server <- labServer, panel <- labPanel, flight <- labFlight
Replay == INSTANCE ReplayForm WITH
  server <- replayServer, panel <- replayPanel, flight <- replayFlight

ASSUME FormsAssumption == /\ Validate!ValidateAssumption /\ Lab!LabAssumption
                          /\ Replay!ReplayAssumption

validateVars == <<validateServer, validatePanel, validateFlight>>
labVars == <<labServer, labPanel, labFlight>>
replayVars == <<replayServer, replayPanel, replayFlight>>
vars == <<screen, validateVars, labVars, replayVars>>

Init == /\ screen \in {"validate", "lab", "replay"}
        /\ Validate!Init /\ Lab!Init /\ Replay!Init

OnValidate(A) == screen = "validate" /\ A /\ UNCHANGED <<screen, labVars, replayVars>>
OnLab(A) == screen = "lab" /\ A /\ UNCHANGED <<screen, validateVars, replayVars>>
OnReplay(A) == screen = "replay" /\ A /\ UNCHANGED <<screen, validateVars, labVars>>

Next == \/ OnValidate(Validate!Next)
        \/ OnLab(Lab!Next)
        \/ OnReplay(Replay!Next)

\* The fairness of each module: as the screen never changes, one condition serves
\* a handler of each.
Fairness ==
  /\ WF_vars(\/ OnValidate(Validate!Tick)
             \/ OnLab(Lab!TimerFires)
             \/ OnReplay(Replay!Tick))
  /\ WF_vars(\/ OnValidate(Validate!Progress("request-reply"))
             \/ OnLab(Lab!Progress("nak"))
             \/ OnReplay(Replay!Request))
  /\ WF_vars(\/ OnValidate(Validate!Progress("job"))
             \/ OnLab(Lab!Progress("ackwait"))
             \/ OnReplay(Replay!Consume))
  /\ WF_vars(\/ OnLab(Lab!Progress("schedule")))
  /\ WF_vars(\/ OnLab(Lab!Progress("dedup")))

Spec == Init /\ [][Next]_vars /\ Fairness

-----------------------------------------------------------------------------
(* The properties of the modules, each over its own screen.                    *)

(* Every variable of the panels has its type.                                  *)
TypeOK == Validate!TypeOK /\ Lab!TypeOK /\ Replay!TypeOK

(* ValidateJob: the result shown is the outcome of the request sent last.      *)
ResultIsOfLastRequest == screen = "validate" => Validate!ResultIsOfLastRequest
(* RetryLab: without a fault, and as long as the random ids differ, the lab    *)
(* never stores one id twice.                                                  *)
StoredOnceWithoutFaults == screen = "lab" => Lab!StoredOnceWithoutFaults
(* ReplayForm: the service never turns down what the form lets pass.           *)
FormRefusesFirst == screen = "replay" => Replay!FormRefusesFirst
(* ReplayForm: a replay forwards its range in order, once, and of one stream.  *)
ReplayIsFaithful == screen = "replay" => Replay!ReplayIsFaithful

(* The forms settle once the user stops: validation comes back with the whole  *)
(* timeline, the lab is free again, scheduled jobs are published unless there  *)
(* was a fault, and a replay that is not torn down replays all of its range.   *)
FormsSettle ==
  <>[](/\ screen = "validate" => Validate!Settled
       /\ screen = "lab" => Lab!Free
       /\ screen = "lab" /\ labServer.faults = 0 => Lab!AcceptedAreStored
       /\ screen = "replay" => Replay!StartButton.enabled /\ Replay!AllReplayed)

=============================================================================

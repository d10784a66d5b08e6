----------------------------- MODULE MCDashboard -----------------------------
(* The dashboard around the panels side by side: status bar, activity feed,    *)
(* activity log, job inspector and publish form, one per behaviour, chosen in  *)
(* the initial state. The variables of the others keep their initial values.   *)
EXTENDS Naturals

CONSTANTS
  StatusClicks, MaxChanges,                                 \* StatusBar
  FeedClicks, FeedEvents,                                   \* ActivityFeed
  Entry, Caps, FeedCap, LogEvents, LogClicks,               \* ActivityView
  InspectorJob, InspectorClicks,                            \* JobInspector
  MaxNo, BatchSizes, LogCap, FormClicks, MaxEdits, MaxSwitches,  \* PublishForm
  MaxOutages,                                               \* ActivityFeed, PublishForm
  None                                                      \* all but PublishForm

VARIABLES
  screen,
  statusServer, statusPanel, statusFlight,
  feedServer, feedPanel, feedFlight,
  logServer, logPanel, logFlight,
  inspectorServer, inspectorPanel, inspectorFlight, inspectorOvertaken,
  \* PublishForm
  up, outages, stored, forgotten, isSubmitting, mounted, jobId, natsMsgId, payloadOk, jsonError,
  publishedHistory, isBatchPublishing, thread, clicks, edits, switches

\* Entries for TLC: two of one job and one second, a submit that the service tags as
\* business and an ACK, and the completion of another one, before or after midnight.
Entries ==
  {[at |-> 1, job |-> 1, event |-> "SUBMITTED", mode |-> "CORE", worker |-> None, category |-> "BUSINESS"],
   [at |-> 1, job |-> 1, event |-> "ACKED", mode |-> "JETSTREAM", worker |-> "w1", category |-> None],
   [at |-> 0, job |-> 2, event |-> "COMPLETED", mode |-> "CORE", worker |-> "w2", category |-> None]}

Status == INSTANCE StatusBar WITH
  MaxClicks <- StatusClicks,
  server <- statusServer, panel <- statusPanel, flight <- statusFlight
Feed == INSTANCE ActivityFeed WITH
  MaxClicks <- FeedClicks, MaxEvents <- FeedEvents,
  server <- feedServer, panel <- feedPanel, flight <- feedFlight
Log == INSTANCE ActivityView WITH
  MaxEvents <- LogEvents, MaxClicks <- LogClicks,
  server <- logServer, panel <- logPanel, flight <- logFlight
Inspector == INSTANCE JobInspector WITH
  Job <- InspectorJob, MaxClicks <- InspectorClicks,
  server <- inspectorServer, panel <- inspectorPanel, flight <- inspectorFlight,
  overtaken <- inspectorOvertaken
Form == INSTANCE PublishForm WITH MaxClicks <- FormClicks

ASSUME PanelsAssumption == /\ Status!StatusAssumption /\ Feed!FeedAssumption
                           /\ Log!LogAssumption /\ Inspector!InspectorAssumption
                           /\ Form!FormAssumption

statusVars == <<statusServer, statusPanel, statusFlight>>
feedVars == <<feedServer, feedPanel, feedFlight>>
logVars == <<logServer, logPanel, logFlight>>
inspectorVars == <<inspectorServer, inspectorPanel, inspectorFlight, inspectorOvertaken>>
formVars == <<up, outages, stored, forgotten, isSubmitting, mounted, jobId, natsMsgId, payloadOk,
              jsonError, publishedHistory, isBatchPublishing, thread, clicks, edits, switches>>
vars == <<screen, statusVars, feedVars, logVars, inspectorVars, formVars>>

Init == /\ screen \in {"status", "feed", "log", "inspector", "form"}
        /\ Status!Init /\ Feed!Init /\ Log!Init /\ Inspector!Init /\ Form!Init

OnStatus(A) == screen = "status" /\ A /\ UNCHANGED <<screen, feedVars, logVars, inspectorVars, formVars>>
OnFeed(A) == screen = "feed" /\ A /\ UNCHANGED <<screen, statusVars, logVars, inspectorVars, formVars>>
OnLog(A) == screen = "log" /\ A /\ UNCHANGED <<screen, statusVars, feedVars, inspectorVars, formVars>>
OnInspector(A) == screen = "inspector" /\ A /\ UNCHANGED <<screen, statusVars, feedVars, logVars, formVars>>
OnForm(A) == screen = "form" /\ A /\ UNCHANGED <<screen, statusVars, feedVars, logVars, inspectorVars>>

Next == \/ OnStatus(Status!Next)
        \/ OnFeed(Feed!Next)
        \/ OnLog(Log!Next)
        \/ OnInspector(Inspector!Next)
        \/ OnForm(Form!Next)

Transport(t) == Form!Serve(t) \/ Form!Lose(t)

\* The fairness of each module: as the screen never changes, one condition serves
\* a handler of each.
Fairness ==
  /\ WF_vars(\/ OnStatus(Status!Tick)
             \/ OnFeed(Feed!Tick)
             \/ OnLog(Log!Refresh)
             \/ OnForm(Form!Resume))
  /\ WF_vars(\/ OnStatus(Status!Progress("poll"))
             \/ OnFeed(Feed!Progress("poll"))
             \/ OnForm(Transport("send")))
  /\ WF_vars(\/ OnStatus(Status!Progress("refresh"))
             \/ OnFeed(Feed!Progress("refresh"))
             \/ OnForm(Transport("batch")))
  /\ WF_vars(\/ OnStatus(Status!Progress("toggle"))
             \/ OnFeed(Feed!Progress("replay"))
             \/ OnForm(Transport("old")))
  /\ WF_vars(\/ OnStatus(Status!Progress("reset"))
             \/ OnFeed(Feed!Progress("addressing")))
  /\ WF_vars(OnFeed(Feed!Progress("clear")))
  /\ WF_vars(OnFeed(Feed!Progress("submit")))
  /\ \A l \in Inspector!Load : WF_vars(OnInspector(Inspector!Progress(l)))

Spec == Init /\ [][Next]_vars /\ Fairness

-----------------------------------------------------------------------------
(* The properties of the modules, each over its own screen.                    *)

(* Every variable of the panels has its type.                                  *)
TypeOK == Status!TypeOK /\ Feed!TypeOK /\ Log!TypeOK /\ Inspector!TypeOK /\ Form!TypeOK

(* StatusBar, ActivityFeed: a button says that something runs only while it    *)
(* does, on every path out of the requests that share its flag.                *)
BusyMeansInFlight == /\ screen = "status" => Status!BusyMeansInFlight
                     /\ screen = "feed" => Feed!BusyMeansInFlight
(* ActivityView: an empty list over a filled feed always offers to clear the   *)
(* filters.                                                                    *)
EmptyMeansFiltered == screen = "log" => Log!EmptyMeansFiltered
(* JobInspector: it shows the job that was selected, unless the answer of an   *)
(* earlier selection comes after its own.                                      *)
DetailMatchesSelection == screen = "inspector" => Inspector!DetailMatchesSelection
(* JobInspector: a closed inspector disappears (JobInspectorPanel.tsx:20).     *)
CloseDismisses == screen = "inspector" => Inspector!CloseDismisses
(* PublishForm: submits never overlap, across unmounted forms too.             *)
OneSubmitAtATime == screen = "form" => Form!OneSubmitAtATime
(* PublishForm: what the log marks as published was stored.                    *)
ReceiptsAreStored == screen = "form" => Form!ReceiptsAreStored
(* PublishForm: a burst is stored in order and without a hole.                 *)
BurstInOrder == screen = "form" => Form!BurstInOrder
(* PublishForm: within the duplicate window a job with a message id is stored  *)
(* once across retries.                                                        *)
RetryIsSuppressed == screen = "form" => Form!RetryIsSuppressed

(* The screens settle once the user stops: the status bar shows the platform   *)
(* and the feed its events whenever the control service can be reached, the    *)
(* log without filters shows the latest seconds of the day, the inspector has  *)
(* details and PublishForm is free.                                            *)
ScreensSettle ==
  <>[](/\ screen = "status" /\ statusServer.control => Status!ShowsTruth
       /\ screen = "feed" /\ feedServer.up => Feed!ShowsFeed
       /\ screen = "log" => Log!ShowsLatest
       /\ screen = "inspector" => Inspector!ShowsDetails
       /\ screen = "form" => Form!Free)

=============================================================================

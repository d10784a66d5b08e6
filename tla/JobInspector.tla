---------------------------- MODULE JobInspector -----------------------------
(* The details of a job, opened from the activities of the dashboard:          *)
(* handleSelectJob of App.tsx and JobInspectorPanel.tsx. The panel lies over   *)
(* the whole window, but the activities below keep the focus: the keyboard     *)
(* selects another job while one is shown, or loads.                           *)
EXTENDS Naturals

CONSTANTS
  Job,         \* job ids
  MaxClicks,   \* bound: selections
  None         \* null

VARIABLES
  server, panel,
  flight,     \* the load that each selection started
  overtaken   \* history: since the last selection a load of an earlier one has ended last
vars == <<server, panel, flight, overtaken>>

Load == 1..MaxClicks
Detail == [job: Job, from: {"service", "activities"}]
Waiting == [job: Job, call: {"sent", "answered", "failed"}, listed: BOOLEAN]

\* The theorems hold for any jobs and any number of clicks: null is none of the rest.
InspectorAssumption == MaxClicks \in Nat /\ None \notin Job /\ None \notin Detail /\ None \notin Waiting

-----------------------------------------------------------------------------
\* The inspector is in front while any of the three is there; its body shows one
\* of a spinner, an error, an empty note and the details.
Shown == panel.selectedJobId # None \/ panel.isLoading \/ panel.inspectorError
Body == CASE panel.isLoading -> "loading"
          [] ~panel.isLoading /\ panel.inspectorError -> "error"
          [] ~panel.isLoading /\ ~panel.inspectorError /\ panel.detail = None -> "empty"
          [] OTHER -> "details"

\* How a status is shown in the header and in each line of the history.
getBadgeClass(status) ==
  CASE status \in {"SUBMITTED", "PUBLISHED", "SAGA_STARTED", "STARTED", "OP1_PENDING", "OP2_PENDING"}
         -> "badge-submitted"
    [] status \in {"PROCESSING", "OP1_COMPLETED", "OP2_COMPLETED", "COMPENSATING"} -> "badge-processing"
    [] status \in {"COMPLETED", "ACKED", "COMPENSATED", "SAGA_COMPLETED"} -> "badge-completed"
    [] status \in {"FAILED", "COMPENSATION_FAILED", "SAGA_FAILED"} -> "badge-failed"
    [] status = "DLQ_PUBLISHED" -> "badge-dlq"
    [] OTHER -> ""

Init ==
  /\ server = [known |-> {}, up |-> TRUE]
  /\ panel = [selectedJobId |-> None, detail |-> None, isLoading |-> FALSE,
              inspectorError |-> FALSE, activities |-> {}, clicks |-> 0]
  /\ flight = [l \in Load |-> None] /\ overtaken = FALSE

\* A load will use the activities of the moment of the selection.
StartLoad(j) ==
  /\ flight' = [flight EXCEPT ![panel.clicks + 1] = [job |-> j, call |-> "sent",
                                                     listed |-> j \in panel.activities]]
  /\ overtaken' = FALSE
  /\ UNCHANGED server

\* Mutant of handleSelectJob: the details stay until the new ones are there.
handleSelectJobOver(j) ==
  /\ panel.clicks < MaxClicks /\ j \in panel.activities
  /\ panel' = [panel EXCEPT !.selectedJobId = j, !.isLoading = TRUE, !.inspectorError = FALSE,
                            !.clicks = @ + 1]
  /\ StartLoad(j)

\* A job id in the activities is activated, whatever the inspector shows or loads.
handleSelectJob(j) ==
  /\ panel.clicks < MaxClicks /\ j \in panel.activities
  /\ panel' = [panel EXCEPT !.selectedJobId = j, !.isLoading = TRUE, !.inspectorError = FALSE,
                            !.detail = None, !.clicks = @ + 1]
  /\ StartLoad(j)

\* The Escape key, the Close button and a click beside the card.
onClose == /\ Shown
           /\ panel' = [panel EXCEPT !.selectedJobId = None]
           /\ UNCHANGED <<server, flight, overtaken>>

\* The polls bring an activity, or an emptied list.
refreshActivity == /\ \E shown \in SUBSET Job : panel' = [panel EXCEPT !.activities = shown]
                   /\ UNCHANGED <<server, flight, overtaken>>

\* job-service stores a job, or restarts and forgets all of them.
Store == \/ \E j \in Job : /\ server' = [server EXCEPT !.known = @ \cup {j}]
                           /\ UNCHANGED <<panel, flight, overtaken>>
         \/ /\ server' = [server EXCEPT !.up = ~@, !.known = {}]
            /\ UNCHANGED <<panel, flight, overtaken>>

\* GET /jobs/{id}.
ServeDetail(l) ==
  /\ flight[l] # None /\ flight[l].call = "sent"
  /\ flight' = [flight EXCEPT ![l].call =
       IF server.up /\ flight[l].job \in server.known THEN "answered" ELSE "failed"]
  /\ UNCHANGED <<server, panel, overtaken>>

\* The end of a load, whichever job is selected by then.
EndLoad(l) == /\ flight' = [flight EXCEPT ![l] = None]
              /\ overtaken' = (l # panel.clicks)
              /\ UNCHANGED server

\* Mutant of DetailFailed: it looks the job up in what is listed by then.
DetailFailedLate(l) ==
  /\ flight[l] # None /\ flight[l].call = "failed"
  /\ panel' = IF flight[l].job \in panel.activities
              THEN [panel EXCEPT !.isLoading = FALSE,
                                 !.detail = [job |-> flight[l].job, from |-> "activities"]]
              ELSE [panel EXCEPT !.isLoading = FALSE, !.inspectorError = TRUE]
  /\ EndLoad(l)

\* The details, or what the activities tell of the job, or an error.
DetailDone(l) ==
  /\ flight[l] # None /\ flight[l].call = "answered"
  /\ panel' = [panel EXCEPT !.isLoading = FALSE, !.detail = [job |-> flight[l].job, from |-> "service"]]
  /\ EndLoad(l)
DetailFailed(l) ==
  /\ flight[l] # None /\ flight[l].call = "failed"
  /\ panel' = IF flight[l].listed
              THEN [panel EXCEPT !.isLoading = FALSE,
                                 !.detail = [job |-> flight[l].job, from |-> "activities"]]
              ELSE [panel EXCEPT !.isLoading = FALSE, !.inspectorError = TRUE]
  /\ EndLoad(l)

Progress(l) == ServeDetail(l) \/ DetailDone(l) \/ DetailFailed(l)

Next == \/ onClose \/ refreshActivity \/ Store
        \/ \E j \in Job : handleSelectJob(j)
        \/ \E l \in Load : Progress(l)

Fairness == \A l \in Load : WF_vars(Progress(l))

Spec == Init /\ [][Next]_vars /\ Fairness

-----------------------------------------------------------------------------
TypeOK ==
  /\ server.known \subseteq Job /\ server.up \in BOOLEAN
  /\ panel.selectedJobId \in Job \cup {None} /\ panel.detail \in Detail \cup {None}
  /\ panel.isLoading \in BOOLEAN /\ panel.inspectorError \in BOOLEAN
  /\ panel.activities \subseteq Job /\ panel.clicks \in 0..MaxClicks /\ overtaken \in BOOLEAN

(* While no load of an earlier selection ends after it, the selected job gets  *)
(* a spinner for as long as its own load takes, and then its own details:      *)
(* nothing cancels a load when its job is closed or another one is selected.   *)
(* When one does, the inspector shows that other job.                          *)
DetailMatchesSelection ==
  ~overtaken =>
    /\ panel.isLoading <=> panel.clicks \in Load /\ flight[panel.clicks] # None
    /\ panel.detail # None /\ panel.selectedJobId # None => panel.detail.job = panel.selectedJobId
    /\ panel.selectedJobId # None => (panel.detail = None <=> panel.isLoading)

(* JobInspectorPanel.tsx:20 "Close modal on Escape key press": a closed        *)
(* inspector disappears, at the latest when the load in progress has ended. An *)
(* error would keep it open for good, and only the fallback on the activities  *)
(* of the moment of the click keeps that from happening.                       *)
CloseDismisses == panel.selectedJobId = None /\ ~panel.isLoading => ~Shown

(* No spinner and no empty note stays, however selections overlap.             *)
ShowsDetails == ~panel.isLoading /\ (panel.selectedJobId # None => Body = "details")

=============================================================================

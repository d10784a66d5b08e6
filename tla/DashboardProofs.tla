--------------------------- MODULE DashboardProofs ---------------------------
(***************************************************************************)
(* Theorems of the panels of the dashboard that MCDashboard checks one     *)
(* beside the other, for any number of clicks, events, changes and         *)
(* outages. The publish form has its proofs in PublishFormProofs.          *)
(***************************************************************************)
EXTENDS PublishFormProofs

-----------------------------------------------------------------------------
(* JobInspector.                                                           *)

InspectorTypes ==
  /\ inspectorServer \in [known: SUBSET InspectorJob, up: BOOLEAN]
  /\ inspectorPanel \in [selectedJobId: InspectorJob \cup {None}, detail: Inspector!Detail \cup {None},
                         isLoading: BOOLEAN, inspectorError: BOOLEAN, activities: SUBSET InspectorJob,
                         clicks: 0..InspectorClicks]
  /\ inspectorFlight \in [Inspector!Load -> Inspector!Waiting \cup {None}]
  /\ inspectorOvertaken \in BOOLEAN

LoadsLast == inspectorPanel.clicks \in Inspector!Load /\ inspectorFlight[inspectorPanel.clicks] # None
\* Every load is one of the selections so far, of a job that the activities had:
\* none ends with an error.
LoadsListed ==
  /\ \A l \in Inspector!Load :
       inspectorFlight[l] # None => l <= inspectorPanel.clicks /\ inspectorFlight[l].listed
  /\ ~inspectorPanel.inspectorError
\* The last load is the one of the job selected, whatever the earlier ones do; until
\* one of those ends after it, it decides what is shown.
DetailFollows ==
  /\ LoadsLast /\ inspectorPanel.selectedJobId # None =>
       inspectorFlight[inspectorPanel.clicks].job = inspectorPanel.selectedJobId
  /\ ~inspectorOvertaken =>
       /\ inspectorPanel.isLoading <=> LoadsLast
       /\ inspectorPanel.isLoading => inspectorPanel.detail = None
       /\ ~inspectorPanel.isLoading /\ inspectorPanel.selectedJobId # None =>
            inspectorPanel.detail # None /\ inspectorPanel.detail.job = inspectorPanel.selectedJobId
InspectorInv == InspectorTypes /\ LoadsListed /\ DetailFollows

LEMMA InspectorInit == ASSUME Inspector!InspectorAssumption, Inspector!Init PROVE InspectorInv
<1>1. InspectorTypes
  <2>1. inspectorFlight \in [Inspector!Load -> Inspector!Waiting \cup {None}]
    BY DEF Inspector!Init
  <2>2. inspectorOvertaken \in BOOLEAN /\ inspectorServer \in [known: SUBSET InspectorJob, up: BOOLEAN]
    BY DEF Inspector!Init
  <2>3. inspectorPanel \in [selectedJobId: InspectorJob \cup {None}, detail: Inspector!Detail \cup {None},
                            isLoading: BOOLEAN, inspectorError: BOOLEAN, activities: SUBSET InspectorJob,
                            clicks: 0..InspectorClicks]
    BY DEF Inspector!InspectorAssumption, Inspector!Init
  <2> QED
    BY <2>1, <2>2, <2>3 DEF InspectorTypes
<1>2. LoadsListed /\ DetailFollows
  BY DEF Inspector!Init, LoadsListed, DetailFollows, LoadsLast
<1> QED
  BY <1>1, <1>2 DEF InspectorInv

\* A selection starts the load that is the last one from then on.
LEMMA InspectorOpens ==
  ASSUME Inspector!InspectorAssumption, InspectorInv, NEW j \in InspectorJob, Inspector!handleSelectJob(j)
  PROVE  InspectorInv'
<1> DEFINE n == inspectorPanel.clicks + 1
           call == [job |-> j, call |-> "sent", listed |-> TRUE]
<1>1. /\ inspectorPanel.clicks \in 0..InspectorClicks /\ n \in Inspector!Load /\ n \in 0..InspectorClicks
      /\ inspectorServer' = inspectorServer /\ inspectorOvertaken' = FALSE
  BY DEF Inspector!handleSelectJob, Inspector!StartLoad, Inspector!Load, InspectorInv, InspectorTypes,
    Inspector!InspectorAssumption
<1>2. inspectorFlight' = [inspectorFlight EXCEPT ![n] = call]
  BY DEF Inspector!handleSelectJob, Inspector!StartLoad
<1>3. call \in Inspector!Waiting /\ call # None /\ call.job = j /\ call.listed = TRUE
  <2>1. call \in Inspector!Waiting
    BY DEF Inspector!Waiting
  <2> QED
    BY <2>1 DEF Inspector!InspectorAssumption
<1>4. inspectorPanel' = [inspectorPanel EXCEPT !.selectedJobId = j, !.isLoading = TRUE,
                          !.inspectorError = FALSE, !.detail = None, !.clicks = n]
  BY DEF Inspector!handleSelectJob
<1> HIDE DEF call
<1>5. /\ inspectorPanel' \in [selectedJobId: InspectorJob \cup {None}, detail: Inspector!Detail \cup {None},
                              isLoading: BOOLEAN, inspectorError: BOOLEAN, activities: SUBSET InspectorJob,
                              clicks: 0..InspectorClicks]
      /\ inspectorPanel'.selectedJobId = j /\ inspectorPanel'.isLoading = TRUE
      /\ inspectorPanel'.inspectorError = FALSE /\ inspectorPanel'.detail = None
      /\ inspectorPanel'.clicks = n
  BY <1>1, <1>4 DEF InspectorInv, InspectorTypes
<1>6. /\ inspectorFlight' \in [Inspector!Load -> Inspector!Waiting \cup {None}]
      /\ inspectorFlight'[n] = call
      /\ \A m \in Inspector!Load \ {n} : inspectorFlight'[m] = inspectorFlight[m]
  BY <1>1, <1>2, <1>3 DEF InspectorInv, InspectorTypes
<1>7. InspectorTypes'
  BY <1>1, <1>5, <1>6 DEF InspectorInv, InspectorTypes
<1>8. LoadsListed'
  <2>1. \A m \in Inspector!Load : m <= inspectorPanel.clicks => m <= n
    BY <1>1 DEF Inspector!Load
  <2> QED
    BY <1>1, <1>3, <1>5, <1>6, <2>1 DEF InspectorInv, LoadsListed
<1>9. DetailFollows'
  BY <1>1, <1>3, <1>5, <1>6 DEF DetailFollows, LoadsLast
<1> QED
  BY <1>7, <1>8, <1>9 DEF InspectorInv

\* A load comes back with the job it was sent for.
LEMMA InspectorProgress ==
  ASSUME Inspector!InspectorAssumption, InspectorInv, NEW l \in Inspector!Load, Inspector!Progress(l)
  PROVE  InspectorInv'
<1>1. /\ inspectorFlight[l] # None /\ inspectorFlight[l] \in Inspector!Waiting /\ inspectorFlight[l].listed
      /\ ~inspectorPanel.inspectorError
  BY DEF Inspector!Progress, Inspector!ServeDetail, Inspector!DetailDone, Inspector!DetailFailed,
     InspectorInv, InspectorTypes, LoadsListed
<1>2. CASE Inspector!ServeDetail(l)
  <2>1. PICK how \in {"answered", "failed"} : inspectorFlight' = [inspectorFlight EXCEPT ![l].call = how]
    BY <1>2 DEF Inspector!ServeDetail
  <2> DEFINE call == [inspectorFlight[l] EXCEPT !.call = how]
  <2>2. call \in Inspector!Waiting /\ call # None /\ call.job = inspectorFlight[l].job /\ call.listed
    BY <1>1 DEF Inspector!Waiting, Inspector!InspectorAssumption
  <2>3. inspectorFlight' = [inspectorFlight EXCEPT ![l] = call]
    BY <2>1
  <2> HIDE DEF call
  <2>4. /\ inspectorFlight' \in [Inspector!Load -> Inspector!Waiting \cup {None}]
        /\ inspectorFlight'[l] = call
        /\ \A m \in Inspector!Load \ {l} : inspectorFlight'[m] = inspectorFlight[m]
    BY <2>2, <2>3 DEF InspectorInv, InspectorTypes
  <2>5. UNCHANGED <<inspectorPanel, inspectorServer, inspectorOvertaken>>
    BY <1>2 DEF Inspector!ServeDetail
  <2>6. InspectorTypes'
    BY <2>4, <2>5 DEF InspectorInv, InspectorTypes
  <2>7. LoadsListed'
    BY <1>1, <2>2, <2>4, <2>5 DEF InspectorInv, LoadsListed
  <2>8. LoadsLast' <=> LoadsLast
    BY <1>1, <2>2, <2>4, <2>5 DEF LoadsLast
  <2>9. \A m \in Inspector!Load : inspectorFlight'[m].job = inspectorFlight[m].job
    BY <2>2, <2>4
  <2>10. DetailFollows'
    BY <2>5, <2>8, <2>9 DEF InspectorInv, DetailFollows, LoadsLast
  <2> QED
    BY <2>6, <2>7, <2>10 DEF InspectorInv
<1>3. CASE Inspector!DetailDone(l) \/ Inspector!DetailFailed(l)
  <2>1. PICK from \in {"service", "activities"} :
             inspectorPanel' = [inspectorPanel EXCEPT !.isLoading = FALSE,
                                                      !.detail = [job |-> inspectorFlight[l].job, from |-> from]]
    BY <1>1, <1>3 DEF Inspector!DetailDone, Inspector!DetailFailed
  <2> DEFINE detail == [job |-> inspectorFlight[l].job, from |-> from]
  <2>2. detail \in Inspector!Detail /\ detail # None /\ detail.job = inspectorFlight[l].job
    BY <1>1 DEF Inspector!Detail, Inspector!Waiting, Inspector!InspectorAssumption
  <2>3. inspectorPanel' = [inspectorPanel EXCEPT !.isLoading = FALSE, !.detail = detail]
    BY <2>1
  <2> HIDE DEF detail
  <2>4. /\ inspectorFlight' = [inspectorFlight EXCEPT ![l] = None] /\ inspectorServer' = inspectorServer
        /\ inspectorOvertaken' = (l # inspectorPanel.clicks)
    BY <1>3 DEF Inspector!DetailDone, Inspector!DetailFailed, Inspector!EndLoad
  <2>5. /\ inspectorFlight' \in [Inspector!Load -> Inspector!Waiting \cup {None}]
        /\ inspectorFlight'[l] = None
        /\ \A m \in Inspector!Load \ {l} : inspectorFlight'[m] = inspectorFlight[m]
    BY <2>4 DEF InspectorInv, InspectorTypes
  <2>6. /\ inspectorPanel'.isLoading = FALSE /\ inspectorPanel'.detail = detail
        /\ inspectorPanel'.selectedJobId = inspectorPanel.selectedJobId /\ ~inspectorPanel'.inspectorError
        /\ inspectorPanel'.clicks = inspectorPanel.clicks
    BY <1>1, <2>3 DEF InspectorInv, InspectorTypes
  <2>7. InspectorTypes'
    <3>1. inspectorPanel' \in [selectedJobId: InspectorJob \cup {None}, detail: Inspector!Detail \cup {None},
                               isLoading: BOOLEAN, inspectorError: BOOLEAN, activities: SUBSET InspectorJob,
                               clicks: 0..InspectorClicks]
      BY <2>2, <2>3 DEF InspectorInv, InspectorTypes
    <3>2. inspectorServer' \in [known: SUBSET InspectorJob, up: BOOLEAN]
      BY <2>4 DEF InspectorInv, InspectorTypes
    <3>3. inspectorOvertaken' \in BOOLEAN
      BY <2>4
    <3> QED
      BY <2>5, <3>1, <3>2, <3>3 DEF InspectorTypes
  <2>8. LoadsListed'
    BY <2>5, <2>6 DEF InspectorInv, LoadsListed
  <2>9. CASE l = inspectorPanel.clicks
    <3>1. ~LoadsLast'
      BY <2>5, <2>6, <2>9 DEF LoadsLast
    <3>2. inspectorPanel.selectedJobId # None => detail.job = inspectorPanel.selectedJobId
      BY <1>1, <2>2, <2>9 DEF InspectorInv, DetailFollows, LoadsLast
    <3> QED
      BY <2>2, <2>6, <2>7, <2>8, <3>1, <3>2 DEF InspectorInv, DetailFollows
  <2>10. CASE l # inspectorPanel.clicks
    <3>1. inspectorOvertaken' = TRUE
      BY <2>4, <2>10
    <3>2. LoadsLast' => LoadsLast /\ inspectorFlight'[inspectorPanel.clicks] = inspectorFlight[inspectorPanel.clicks]
      BY <2>5, <2>6, <2>10 DEF LoadsLast
    <3>3. DetailFollows'
      BY <2>6, <3>1, <3>2 DEF InspectorInv, DetailFollows
    <3> QED
      BY <2>7, <2>8, <3>3 DEF InspectorInv
  <2> QED
    BY <2>9, <2>10
<1> QED
  BY <1>2, <1>3 DEF Inspector!Progress

\* Closing, the polls and the service leave the loads and the details alone.
LEMMA InspectorOthers ==
  ASSUME InspectorInv, Inspector!onClose \/ Inspector!refreshActivity \/ Inspector!Store
  PROVE  InspectorInv'
<1>1. CASE Inspector!onClose
  <2>1. InspectorTypes'
    BY <1>1 DEF Inspector!onClose, InspectorInv, InspectorTypes
  <2>2. LoadsListed' /\ DetailFollows'
    BY <1>1 DEF Inspector!onClose, InspectorInv, InspectorTypes, LoadsListed, DetailFollows, LoadsLast
  <2> QED
    BY <2>1, <2>2 DEF InspectorInv
<1>2. CASE Inspector!refreshActivity
  <2>1. InspectorTypes'
    BY <1>2 DEF Inspector!refreshActivity, InspectorInv, InspectorTypes
  <2>2. LoadsListed' /\ DetailFollows'
    BY <1>2 DEF Inspector!refreshActivity, InspectorInv, InspectorTypes, LoadsListed, DetailFollows, LoadsLast
  <2> QED
    BY <2>1, <2>2 DEF InspectorInv
<1>3. CASE Inspector!Store
  <2>1. InspectorTypes'
    <3>1. UNCHANGED <<inspectorPanel, inspectorFlight, inspectorOvertaken>>
      BY <1>3 DEF Inspector!Store
    <3>2. CASE \E j \in InspectorJob : inspectorServer' = [inspectorServer EXCEPT !.known = @ \cup {j}]
      BY <3>1, <3>2 DEF InspectorInv, InspectorTypes
    <3>3. CASE inspectorServer' = [inspectorServer EXCEPT !.up = ~@, !.known = {}]
      <4>1. (~inspectorServer.up) \in BOOLEAN
        BY Zenon
      <4>2. PICK b \in BOOLEAN : inspectorServer' = [inspectorServer EXCEPT !.up = b, !.known = {}]
        BY <3>3, <4>1
      <4> QED
        BY <3>1, <4>2 DEF InspectorInv, InspectorTypes
    <3> QED
      BY <1>3, <3>2, <3>3 DEF Inspector!Store
  <2>2. LoadsListed' /\ DetailFollows'
    BY <1>3 DEF Inspector!Store, InspectorInv, LoadsListed, DetailFollows, LoadsLast
  <2> QED
    BY <2>1, <2>2 DEF InspectorInv
<1> QED
  BY <1>1, <1>2, <1>3

LEMMA InspectorNext ==
  ASSUME Inspector!InspectorAssumption, InspectorInv, [Inspector!Next]_(Inspector!vars)
  PROVE  InspectorInv'
<1>1. CASE UNCHANGED Inspector!vars
  BY <1>1 DEF Inspector!vars, InspectorInv, InspectorTypes, LoadsListed, DetailFollows, LoadsLast
<1> QED
  BY <1>1, InspectorOpens, InspectorProgress, InspectorOthers DEF Inspector!Next

LEMMA InspectorInvariant == Spec => []InspectorInv
<1>1. Init => InspectorInv
  BY PanelsAssumption, InspectorInit DEF Init
<1>2. InspectorInv /\ [Next]_vars => InspectorInv'
  <2>1. [Next]_vars => [Inspector!Next]_(Inspector!vars)
    BY DEF Next, OnStatus, OnFeed, OnLog, OnInspector, OnForm, vars, inspectorVars, Inspector!vars
  <2> QED
    BY <2>1, PanelsAssumption, InspectorNext
<1> QED
  BY <1>1, <1>2, PTL DEF Spec

(* The selected job gets its own details, unless the load of an earlier        *)
(* selection, which nothing cancels, ends after its own (App.tsx              *)
(* handleSelectJob): however many loads overlap, an earlier answer that comes  *)
(* first does not last.                                                        *)
THEOREM DetailFollowsSelection == Spec => []DetailMatchesSelection
<1>1. InspectorInv => DetailMatchesSelection
  BY DEF InspectorInv, InspectorTypes, LoadsListed, DetailFollows, LoadsLast, Inspector!DetailMatchesSelection,
    DetailMatchesSelection
<1> QED
  BY <1>1, InspectorInvariant, PTL

(* A closed inspector disappears, at the latest with the end of its load, as   *)
(* no load ends with an error (JobInspectorPanel.tsx onClose).                 *)
THEOREM InspectorCloses == Spec => []CloseDismisses
<1>1. InspectorInv => CloseDismisses
  BY DEF InspectorInv, LoadsListed, Inspector!CloseDismisses, Inspector!Shown, CloseDismisses
<1> QED
  BY <1>1, InspectorInvariant, PTL

LEMMA InspectorTypesHold == InspectorInv => Inspector!TypeOK
BY DEF InspectorInv, InspectorTypes, Inspector!TypeOK

-----------------------------------------------------------------------------
(* StatusBar.                                                              *)

StatusServer == [control: BOOLEAN, nats: BOOLEAN, processor: Status!Processor, stream: Nat,
                 changes: Nat]
StatusPanel == [services: Status!Services, jetstreamInfo: Nat \cup {None}, consumer: BOOLEAN,
                dlq: BOOLEAN, queue: BOOLEAN, isRefreshingStatus: BOOLEAN,
                isResettingStream: BOOLEAN, error: BOOLEAN, success: BOOLEAN, clicks: 0..StatusClicks]
StatusFlight == [Status!Handler -> Status!Waiting \cup {None}]
\* Only a request for the status is answered with one.
StatusIsAnswered ==
  \A h \in Status!Handler :
    statusFlight[h] # None /\ statusFlight[h].at = "status" /\ statusFlight[h].call = "answered"
      => statusFlight[h].value \in Status!Answer
StatusInv == /\ statusServer \in StatusServer /\ statusPanel \in StatusPanel /\ statusFlight \in StatusFlight
             /\ StatusIsAnswered /\ Status!BusyMeansInFlight

LEMMA StatusInit == ASSUME Status!StatusAssumption, Status!Init PROVE StatusInv
<1>1. Status!DEFAULT_SERVICES \in Status!Services
  BY DEF Status!DEFAULT_SERVICES, Status!Services
<1>2. statusServer \in StatusServer /\ statusFlight \in StatusFlight
  BY DEF Status!Init, StatusServer, StatusFlight, Status!Processor
<1>3. statusPanel \in StatusPanel
  BY <1>1 DEF Status!Init, StatusPanel, Status!StatusAssumption
<1>4. StatusIsAnswered /\ Status!BusyMeansInFlight
  BY DEF Status!Init, StatusIsAnswered, Status!BusyMeansInFlight, Status!Handler
<1> QED
  BY <1>2, <1>3, <1>4 DEF StatusInv

\* A handler that waits for another request, or for its first one, which raises
\* its flag.
LEMMA StatusWaits ==
  ASSUME Status!StatusAssumption, StatusInv, NEW h \in Status!Handler,
         NEW step \in Status!Commands \cup {"status", "consumer", "dlq", "queue"},
         Status!Wait(h, step), statusServer' = statusServer, statusPanel' \in StatusPanel,
         statusPanel'.isRefreshingStatus => statusPanel.isRefreshingStatus \/ h = "refresh",
         statusPanel'.isResettingStream <=> statusPanel.isResettingStream \/ h = "reset"
  PROVE  StatusInv'
<1> DEFINE call == [at |-> step, call |-> "sent", value |-> None]
<1>1. call \in Status!Waiting /\ call # None /\ call.call = "sent"
  <2>1. call \in Status!Waiting
    BY DEF Status!Waiting
  <2> QED
    BY <2>1 DEF Status!StatusAssumption
<1>2. statusFlight' = [statusFlight EXCEPT ![h] = call]
  BY DEF Status!Wait
<1> HIDE DEF call
<1>3. /\ statusFlight' \in StatusFlight /\ statusFlight'[h] = call
      /\ \A g \in Status!Handler \ {h} : statusFlight'[g] = statusFlight[g]
  BY <1>1, <1>2 DEF StatusInv, StatusFlight
<1>4. StatusIsAnswered'
  BY <1>1, <1>3 DEF StatusInv, StatusIsAnswered
<1>5. Status!BusyMeansInFlight'
  BY <1>1, <1>3 DEF StatusInv, Status!BusyMeansInFlight, Status!Handler
<1> QED
  BY <1>3, <1>4, <1>5 DEF StatusInv

\* A handler that ends lowers its flag.
LEMMA StatusEnds ==
  ASSUME StatusInv, NEW h \in Status!Handler, NEW shown \in StatusPanel,
         shown.isRefreshingStatus = statusPanel.isRefreshingStatus,
         shown.isResettingStream = statusPanel.isResettingStream,
         Status!End(h), statusServer' = statusServer, statusPanel' = Status!Lowered(h, shown)
  PROVE  StatusInv'
<1> DEFINE a == shown.isRefreshingStatus /\ h # "refresh"
           b == shown.isResettingStream /\ h # "reset"
<1>1. a \in BOOLEAN /\ b \in BOOLEAN
  BY Zenon
<1>2. statusPanel' = [shown EXCEPT !.isRefreshingStatus = a, !.isResettingStream = b]
  BY DEF Status!Lowered
<1>3. (a => statusPanel.isRefreshingStatus /\ h # "refresh") /\ (b <=> statusPanel.isResettingStream /\ h # "reset")
  OBVIOUS
<1> HIDE DEF a, b
<1>4. statusPanel' \in StatusPanel /\ statusPanel'.isRefreshingStatus = a /\ statusPanel'.isResettingStream = b
  BY <1>1, <1>2 DEF StatusPanel
<1>5. /\ statusFlight' \in StatusFlight /\ statusFlight'[h] = None
      /\ \A g \in Status!Handler \ {h} : statusFlight'[g] = statusFlight[g]
  BY DEF Status!End, StatusInv, StatusFlight
<1>6. StatusIsAnswered'
  BY <1>5 DEF StatusInv, StatusIsAnswered
<1>7. Status!BusyMeansInFlight'
  BY <1>3, <1>4, <1>5 DEF StatusInv, Status!BusyMeansInFlight, Status!Handler
<1> QED
  BY <1>4, <1>5, <1>6, <1>7 DEF StatusInv

\* A request comes back, with the status when it asked for it.
LEMMA StatusReplies ==
  ASSUME Status!StatusAssumption, StatusInv, NEW h \in Status!Handler, statusFlight[h] # None,
         NEW how \in {"answered", "failed"}, NEW value \in Status!Answer \cup {None},
         statusFlight[h].at = "status" /\ how = "answered" => value \in Status!Answer,
         statusFlight' = [statusFlight EXCEPT ![h].call = how, ![h].value = value],
         statusServer' \in StatusServer, statusPanel' = statusPanel
  PROVE  StatusInv'
<1> DEFINE call == [statusFlight[h] EXCEPT !.call = how, !.value = value]
<1>1. statusFlight[h] \in Status!Waiting
  BY DEF StatusInv, StatusFlight
<1>2. /\ call \in Status!Waiting /\ call.at = statusFlight[h].at /\ call.call = how
      /\ call.value = value
  BY <1>1 DEF Status!Waiting
<1>3. call # None
  BY <1>2 DEF Status!StatusAssumption
<1>4. statusFlight' = [statusFlight EXCEPT ![h] = call]
  BY DEF StatusInv, StatusFlight
<1> HIDE DEF call
<1>5. /\ statusFlight' \in StatusFlight /\ statusFlight'[h] = call
      /\ \A g \in Status!Handler \ {h} : statusFlight'[g] = statusFlight[g]
  BY <1>2, <1>4 DEF StatusInv, StatusFlight
<1>6. StatusIsAnswered'
  BY <1>2, <1>5 DEF StatusInv, StatusIsAnswered
<1>7. Status!BusyMeansInFlight'
  BY <1>3, <1>5 DEF StatusInv, Status!BusyMeansInFlight, Status!Handler
<1> QED
  BY <1>5, <1>6, <1>7 DEF StatusInv

\* What demo-control-service reports, and what :8082 makes of it.
LEMMA StatusIsReported ==
  ASSUME statusServer \in StatusServer
  PROVE  /\ Status!Reported \in Status!Answer
         /\ \A a \in Status!Answer : /\ a.jetstream \in Nat \cup {None}
                                     /\ Status!Direct(a).services \in Status!Services
<1> DEFINE told == [nats: {"connected", "disconnected"}, processor: Status!Processor,
                    control: {"active"}]
<1>1. told \subseteq {s \in Status!Services : s.control = "active"}
  BY DEF Status!Services
<1>2. {s \in Status!Services : s.control = "active"} \subseteq told
  BY DEF Status!Services
<1>3. statusServer.processor \in Status!Processor /\ "disconnected" \in Status!Processor
      /\ statusServer.stream \in Nat
  BY DEF StatusServer, Status!Processor
<1>4. Status!Reported \in Status!Answer
  <2>1. Status!Reported.services \in told /\ Status!Reported.jetstream \in Nat \cup {None}
    BY <1>3 DEF Status!Reported
  <2>2. Status!Reported = [services |-> Status!Reported.services,
                           jetstream |-> Status!Reported.jetstream]
    BY DEF Status!Reported
  <2> QED
    BY <1>1, <2>1, <2>2 DEF Status!Answer
<1>5. ASSUME NEW a \in Status!Answer
      PROVE  a.jetstream \in Nat \cup {None} /\ Status!Direct(a).services \in Status!Services
  <2>1. a.jetstream \in Nat \cup {None} /\ a.services \in told /\ a.services \in Status!Services
    BY <1>2 DEF Status!Answer
  <2>2. CASE a.services.processor # "disconnected"
    BY <2>1, <2>2 DEF Status!Direct
  <2>3. CASE a.services.processor = "disconnected"
    <3> DEFINE services == [a.services EXCEPT !.processor = statusServer.processor]
    <3>1. services \in told
      BY <1>3, <2>1
    <3>2. services \in Status!Services
      BY <1>1, <3>1
    <3>3. Status!Direct(a) = [a EXCEPT !.services = services]
      BY <2>3 DEF Status!Direct, Status!Answer
    <3> HIDE DEF services
    <3> QED
      BY <2>1, <3>2, <3>3 DEF Status!Answer
  <2> QED
    BY <2>1, <2>2, <2>3
<1> QED
  BY <1>4, <1>5

LEMMA StatusServes ==
  ASSUME Status!StatusAssumption, StatusInv, NEW h \in Status!Handler,
         Status!ServeStatus(h) \/ Status!ServeCommand(h)
  PROVE  StatusInv'
<1>1. CASE Status!ServeStatus(h)
  <2>1. statusFlight[h] # None /\ statusServer' = statusServer /\ statusPanel' = statusPanel
    BY <1>1 DEF Status!ServeStatus, Status!Waits
  <2>2. CASE statusServer.control
    BY <1>1, <2>1, <2>2, StatusIsReported, StatusReplies
    DEF Status!ServeStatus, Status!Reply, StatusInv
  <2>3. CASE ~statusServer.control
    BY <1>1, <2>1, <2>3, StatusReplies DEF Status!ServeStatus, Status!Reply, StatusInv
  <2> QED
    BY <2>2, <2>3
<1>2. CASE Status!ServeCommand(h)
  <2>1. statusFlight[h] # None /\ statusFlight[h].at # "status" /\ statusPanel' = statusPanel
    BY <1>2 DEF Status!ServeCommand, Status!Waits, Status!Commands
  <2>2. statusServer' \in StatusServer
    <3>1. statusServer \in StatusServer
      BY DEF StatusInv
    <3>2. \/ statusServer' = statusServer
          \/ statusServer' = [statusServer EXCEPT !.stream = @ + 1]
          \/ \E p \in {"active", "stopped"} : statusServer' = [statusServer EXCEPT !.processor = p]
      BY <1>2 DEF Status!ServeCommand
    <3> QED
      BY <3>1, <3>2 DEF StatusServer, Status!Processor
  <2>3. PICK how \in {"answered", "failed"} :
             statusFlight' = [statusFlight EXCEPT ![h].call = how, ![h].value = None]
    BY <1>2 DEF Status!ServeCommand, Status!Reply
  <2> QED
    BY <2>1, <2>2, <2>3, StatusReplies
<1> QED
  BY <1>1, <1>2

\* The interval and the user.
LEMMA StatusStarts ==
  ASSUME Status!StatusAssumption, StatusInv,
         \/ Status!Tick \/ Status!refreshStatus
         \/ Status!handleToggleProcessor \/ Status!handleResetStream
  PROVE  StatusInv'
<1>1. statusPanel \in StatusPanel
  BY DEF StatusInv
<1>2. CASE Status!Tick
  BY <1>1, <1>2, StatusWaits DEF Status!Tick, Status!Handler
<1>3. ASSUME statusPanel.clicks < StatusClicks
      PROVE  statusPanel.clicks + 1 \in 0..StatusClicks
  BY <1>1, <1>3 DEF StatusPanel, Status!StatusAssumption
<1>4. CASE Status!refreshStatus
  <2>1. /\ statusPanel.clicks + 1 \in 0..StatusClicks /\ statusServer' = statusServer /\ Status!Wait("refresh", "status")
        /\ statusPanel' = [statusPanel EXCEPT !.isRefreshingStatus = TRUE, !.clicks = statusPanel.clicks + 1,
                                              !.error = FALSE]
    BY <1>1, <1>3, <1>4 DEF Status!refreshStatus, Status!Give, StatusPanel
  <2>2. statusPanel' \in StatusPanel /\ statusPanel'.isResettingStream = statusPanel.isResettingStream
    BY <1>1, <2>1 DEF StatusPanel
  <2> QED
    BY <2>1, <2>2, StatusWaits DEF Status!Handler
<1>5. CASE Status!handleToggleProcessor
  <2>1. /\ statusPanel.clicks + 1 \in 0..StatusClicks /\ statusServer' = statusServer
        /\ \E step \in {"start", "stop"} : Status!Wait("toggle", step)
        /\ statusPanel' = [statusPanel EXCEPT !.success = FALSE, !.clicks = statusPanel.clicks + 1, !.error = FALSE]
    BY <1>1, <1>3, <1>5 DEF Status!handleToggleProcessor, Status!Give, StatusPanel
  <2>2. /\ statusPanel' \in StatusPanel /\ statusPanel'.isResettingStream = statusPanel.isResettingStream
        /\ statusPanel'.isRefreshingStatus = statusPanel.isRefreshingStatus
    BY <1>1, <2>1 DEF StatusPanel
  <2> QED
    BY <2>1, <2>2, StatusWaits DEF Status!Handler, Status!Commands
<1>6. CASE Status!handleResetStream
  <2>1. /\ statusPanel.clicks + 1 \in 0..StatusClicks /\ statusServer' = statusServer /\ Status!Wait("reset", "recreate")
        /\ statusPanel' = [statusPanel EXCEPT !.isResettingStream = TRUE, !.clicks = statusPanel.clicks + 1,
                                              !.error = FALSE]
    BY <1>1, <1>3, <1>6 DEF Status!handleResetStream, Status!Give, StatusPanel
  <2>2. /\ statusPanel' \in StatusPanel /\ statusPanel'.isResettingStream = TRUE
        /\ statusPanel'.isRefreshingStatus = statusPanel.isRefreshingStatus
    BY <1>1, <2>1 DEF StatusPanel
  <2> QED
    BY <2>1, <2>2, StatusWaits DEF Status!Handler, Status!Commands
<1> QED
  BY <1>2, <1>4, <1>5, <1>6

\* A handler that goes on with its next request.
LEMMA StatusGoesOn ==
  ASSUME Status!StatusAssumption, StatusInv, NEW h \in Status!Handler, statusFlight[h] # None,
         NEW step \in {"status", "consumer", "dlq", "queue"}, Status!Wait(h, step),
         statusServer' = statusServer, statusPanel' \in StatusPanel,
         statusPanel'.isRefreshingStatus = statusPanel.isRefreshingStatus,
         statusPanel'.isResettingStream = statusPanel.isResettingStream
  PROVE  StatusInv'
<1>1. statusPanel.isResettingStream <=> statusPanel.isResettingStream \/ h = "reset"
  BY DEF StatusInv, Status!BusyMeansInFlight
<1> QED
  BY <1>1, StatusWaits

LEMMA StatusReturns ==
  ASSUME Status!StatusAssumption, StatusInv, NEW h \in Status!Handler,
         \/ Status!StatusDone(h) \/ Status!StatusFailed(h) \/ Status!Quiet(h)
         \/ Status!CommandDone(h) \/ Status!CommandFailed(h)
  PROVE  StatusInv'
<1>1. statusPanel \in StatusPanel /\ statusServer \in StatusServer
  BY DEF StatusInv
<1>2. CASE Status!StatusDone(h)
  <2>1. /\ statusFlight[h] # None /\ statusFlight[h].value \in Status!Answer
        /\ Status!Wait(h, "consumer") /\ statusServer' = statusServer
    BY <1>2 DEF Status!StatusDone, Status!Returns, StatusInv, StatusIsAnswered
  <2>2. PICK services \in Status!Services, stream \in Nat \cup {None} :
             statusPanel' = [statusPanel EXCEPT !.services = services, !.jetstreamInfo = stream]
    BY <1>1, <1>2, <2>1, StatusIsReported DEF Status!StatusDone
  <2>3. /\ statusPanel' \in StatusPanel
        /\ statusPanel'.isRefreshingStatus = statusPanel.isRefreshingStatus
        /\ statusPanel'.isResettingStream = statusPanel.isResettingStream
    BY <1>1, <2>2 DEF StatusPanel
  <2> QED
    BY <2>1, <2>3, StatusGoesOn
<1>3. CASE Status!StatusFailed(h)
  <2> DEFINE e == statusPanel.error \/ h = "refresh"
             shown == [statusPanel EXCEPT !.services = Status!Unreachable, !.jetstreamInfo = None,
                                          !.dlq = FALSE, !.queue = FALSE, !.error = e]
  <2>1. e \in BOOLEAN /\ Status!Unreachable \in Status!Services
    <3>1. e \in BOOLEAN
      BY Zenon
    <3> QED
      BY <3>1 DEF Status!Unreachable, Status!Services
  <2>2. statusPanel' = Status!Lowered(h, shown) /\ Status!End(h) /\ statusServer' = statusServer
    BY <1>1, <1>3 DEF Status!StatusFailed, StatusPanel
  <2> HIDE DEF e
  <2>3. /\ shown \in StatusPanel
        /\ shown.isRefreshingStatus = statusPanel.isRefreshingStatus
        /\ shown.isResettingStream = statusPanel.isResettingStream
    BY <1>1, <2>1 DEF StatusPanel
  <2> HIDE DEF shown
  <2> QED
    BY <2>2, <2>3, StatusEnds
<1>4. CASE Status!Quiet(h)
  <2>1. PICK step \in {"consumer", "dlq", "queue"} :
             /\ Status!Waits(h, step)
             /\ LET shown == [statusPanel EXCEPT !.consumer = @ \/ (statusServer.control /\ step = "consumer"),
                                                 !.dlq = @ \/ (statusServer.control /\ step = "dlq"),
                                                 !.queue = @ \/ (statusServer.control /\ step = "queue")]
                IN CASE step = "consumer" -> statusPanel' = shown /\ Status!Wait(h, "dlq")
                     [] step = "dlq" -> statusPanel' = shown /\ Status!Wait(h, "queue")
                     [] step = "queue" -> statusPanel' = Status!Lowered(h, shown) /\ Status!End(h)
    BY <1>4 DEF Status!Quiet
  <2> DEFINE c == statusPanel.consumer \/ (statusServer.control /\ step = "consumer")
             d == statusPanel.dlq \/ (statusServer.control /\ step = "dlq")
             q == statusPanel.queue \/ (statusServer.control /\ step = "queue")
             shown == [statusPanel EXCEPT !.consumer = c, !.dlq = d, !.queue = q]
  <2>2. c \in BOOLEAN /\ d \in BOOLEAN /\ q \in BOOLEAN
    BY Zenon
  <2>3. \/ statusPanel' = shown /\ (Status!Wait(h, "dlq") \/ Status!Wait(h, "queue"))
        \/ statusPanel' = Status!Lowered(h, shown) /\ Status!End(h)
    BY <1>1, <2>1 DEF StatusPanel
  <2>4. statusFlight[h] # None /\ statusServer' = statusServer
    BY <1>4, <2>1 DEF Status!Quiet, Status!Waits
  <2> HIDE DEF c, d, q
  <2>5. /\ shown \in StatusPanel
        /\ shown.isRefreshingStatus = statusPanel.isRefreshingStatus
        /\ shown.isResettingStream = statusPanel.isResettingStream
    BY <1>1, <2>2 DEF StatusPanel
  <2> HIDE DEF shown
  <2> QED
    BY <2>3, <2>4, <2>5, StatusGoesOn, StatusEnds
<1>5. CASE Status!CommandDone(h)
  <2>1. /\ statusFlight[h] # None /\ Status!Wait(h, "status") /\ statusServer' = statusServer
        /\ statusPanel' = [statusPanel EXCEPT !.success = TRUE]
    BY <1>5 DEF Status!CommandDone, Status!Returns
  <2>2. /\ statusPanel' \in StatusPanel
        /\ statusPanel'.isRefreshingStatus = statusPanel.isRefreshingStatus
        /\ statusPanel'.isResettingStream = statusPanel.isResettingStream
    BY <1>1, <2>1 DEF StatusPanel
  <2> QED
    BY <2>1, <2>2, StatusGoesOn
<1>6. CASE Status!CommandFailed(h)
  <2> DEFINE shown == [statusPanel EXCEPT !.error = TRUE]
  <2>1. statusPanel' = Status!Lowered(h, shown) /\ Status!End(h) /\ statusServer' = statusServer
    BY <1>6 DEF Status!CommandFailed
  <2>2. /\ shown \in StatusPanel
        /\ shown.isRefreshingStatus = statusPanel.isRefreshingStatus
        /\ shown.isResettingStream = statusPanel.isResettingStream
    BY <1>1 DEF StatusPanel
  <2> HIDE DEF shown
  <2> QED
    BY <2>1, <2>2, StatusEnds
<1> QED
  BY <1>2, <1>3, <1>4, <1>5, <1>6

LEMMA StatusNext ==
  ASSUME Status!StatusAssumption, StatusInv, [Status!Next]_(Status!vars)
  PROVE  StatusInv'
<1>1. CASE Status!Change
  <2>1. UNCHANGED <<statusPanel, statusFlight>>
    BY <1>1 DEF Status!Change
  <2>2. statusServer' \in StatusServer
    <3>1. statusServer \in StatusServer
      BY DEF StatusInv
    <3>2. (~statusServer.nats) \in BOOLEAN /\ statusServer.changes + 1 \in Nat
      <4>1. (~statusServer.nats) \in BOOLEAN
        BY Zenon
      <4> QED
        BY <3>1, <4>1 DEF StatusServer
    <3>3. PICK n \in BOOLEAN, changes \in Nat :
            \/ \E p \in Status!Processor : statusServer' = [statusServer EXCEPT !.processor = p, !.changes = changes]
            \/ statusServer' = [statusServer EXCEPT !.nats = n, !.changes = changes]
            \/ statusServer' = [statusServer EXCEPT !.control = FALSE, !.changes = changes]
            \/ statusServer' = [statusServer EXCEPT !.control = TRUE]
      BY <1>1, <3>2, Zenon DEF Status!Change
    <3> QED
      BY <3>1, <3>3 DEF StatusServer
  <2> QED
    BY <2>1, <2>2 DEF StatusInv, StatusIsAnswered, Status!BusyMeansInFlight
<1>2. CASE UNCHANGED Status!vars
  BY <1>2 DEF Status!vars, StatusInv, StatusIsAnswered, Status!BusyMeansInFlight
<1> QED
  BY <1>1, <1>2, StatusStarts, StatusServes, StatusReturns DEF Status!Next, Status!Progress

LEMMA StatusInvariant == Spec => []StatusInv
<1>1. Init => StatusInv
  BY PanelsAssumption, StatusInit DEF Init
<1>2. StatusInv /\ [Next]_vars => StatusInv'
  <2>1. [Next]_vars => [Status!Next]_(Status!vars)
    BY DEF Next, OnStatus, OnFeed, OnLog, OnInspector, OnForm, vars, statusVars, Status!vars
  <2> QED
    BY <2>1, PanelsAssumption, StatusNext
<1> QED
  BY <1>1, <1>2, PTL DEF Spec

LEMMA StatusTypesHold == StatusInv => Status!TypeOK
<1> SUFFICES ASSUME StatusInv PROVE Status!TypeOK
  OBVIOUS
<1>1. statusServer \in StatusServer /\ statusPanel \in StatusPanel /\ statusFlight \in StatusFlight
  BY DEF StatusInv
<1>2. \A h \in Status!Handler :
        statusFlight[h] # None => statusFlight[h].call \in {"sent", "answered", "failed"}
  BY <1>1 DEF StatusFlight, Status!Waiting
<1> QED
  BY <1>1, <1>2 DEF Status!TypeOK, StatusServer, StatusPanel

-----------------------------------------------------------------------------
(* ActivityFeed.                                                           *)

FeedServer == [up: BOOLEAN, heard: 0..FeedEvents, feed: SUBSET Feed!Event, outages: Int]
FeedPanel == [activities: SUBSET (Feed!Event \cup {Feed!Local}), addressingEvents: 0..FeedEvents,
              subscriptions: BOOLEAN, error: BOOLEAN, success: BOOLEAN, isSubmitting: BOOLEAN,
              isRefreshingActivity: BOOLEAN, isRefreshingAddressing: BOOLEAN,
              obsView: {"activity", "addressing"}, isExpanded: BOOLEAN, clicks: 0..FeedClicks]
FeedFlight == [Feed!Handler -> Feed!Waiting \cup {None}]
FeedTypes == feedServer \in FeedServer /\ feedPanel \in FeedPanel /\ feedFlight \in FeedFlight

\* What a request is answered with depends on what it asked for.
FeedIsAnswered ==
  \A h \in Feed!Handler : feedFlight[h] # None /\ feedFlight[h].call = "answered" =>
    /\ feedFlight[h].at = "activity" => feedFlight[h].value \in SUBSET Feed!Event
    /\ feedFlight[h].at = "addressing" => feedFlight[h].value \in 0..FeedEvents
\* A submit posts. The addressing flag is up for a handler that waits for the
\* addressing events, not just for any.
FeedFlags ==
  /\ feedFlight["submit"] # None => feedFlight["submit"].at = "post"
  /\ feedPanel.isSubmitting <=> feedFlight["submit"] # None
  /\ feedPanel.isRefreshingActivity => feedFlight["refresh"] # None \/ feedFlight["replay"] # None
  /\ feedPanel.isRefreshingAddressing =>
       \E h \in Feed!Handler \ {"poll"} : feedFlight[h] # None /\ feedFlight[h].at = "addressing"
FeedInv == FeedTypes /\ FeedIsAnswered /\ FeedFlags

LEMMA FeedBounds ==
  ASSUME Feed!FeedAssumption
  PROVE  /\ FeedClicks \in Nat /\ FeedEvents \in Nat /\ MaxOutages \in Nat
         /\ 0 \in 0..FeedEvents /\ 0 \in 0..FeedClicks
<1>1. FeedClicks \in Nat /\ FeedEvents \in Nat /\ MaxOutages \in Nat
  BY DEF Feed!FeedAssumption
<1> QED
  BY <1>1

LEMMA FeedInit == ASSUME Feed!FeedAssumption, Feed!Init PROVE FeedInv
<1>1. feedServer \in FeedServer /\ feedFlight \in FeedFlight
  BY FeedBounds DEF Feed!Init, FeedServer, FeedFlight
<1>2. feedPanel \in FeedPanel
  BY FeedBounds DEF Feed!Init, FeedPanel
<1>3. FeedIsAnswered /\ FeedFlags
  BY DEF Feed!Init, FeedIsAnswered, FeedFlags, Feed!Handler, Feed!Refresher
<1> QED
  BY <1>1, <1>2, <1>3 DEF FeedInv, FeedTypes

\* A handler that waits for its first or its next request.
LEMMA FeedWaits ==
  ASSUME Feed!FeedAssumption, FeedInv, NEW h \in Feed!Handler,
         NEW step \in {"activity", "addressing", "delete", "post"},
         h = "submit" => step = "post",
         feedFlight[h] = None \/ feedFlight[h].at # "addressing",
         Feed!Wait(h, step), feedServer' = feedServer, feedPanel' \in FeedPanel,
         feedPanel'.isRefreshingActivity => feedPanel.isRefreshingActivity \/ h \in {"refresh", "replay"},
         feedPanel'.isRefreshingAddressing => feedPanel.isRefreshingAddressing
                                            \/ (h # "poll" /\ step = "addressing"),
         feedPanel'.isSubmitting <=> feedPanel.isSubmitting \/ h = "submit"
  PROVE  FeedInv'
<1> DEFINE call == [at |-> step, call |-> "sent", value |-> None]
<1>1. call \in Feed!Waiting /\ call # None /\ call.call = "sent" /\ call.at = step
  <2>1. call \in Feed!Waiting
    BY DEF Feed!Waiting
  <2> QED
    BY <2>1 DEF Feed!FeedAssumption
<1>2. feedFlight' = [feedFlight EXCEPT ![h] = call]
  BY DEF Feed!Wait, Feed!Send
<1> HIDE DEF call
<1>3. /\ feedFlight' \in FeedFlight /\ feedFlight'[h] = call
      /\ \A g \in Feed!Handler \ {h} : feedFlight'[g] = feedFlight[g]
  BY <1>1, <1>2 DEF FeedInv, FeedTypes, FeedFlight
<1>4. FeedIsAnswered'
  BY <1>1, <1>3 DEF FeedInv, FeedIsAnswered
<1>5. FeedFlags'
  <2>1. \/ ~feedPanel'.isRefreshingAddressing
        \/ h # "poll" /\ step = "addressing"
        \/ \E g \in Feed!Handler \ {"poll", h} : feedFlight[g] # None /\ feedFlight[g].at = "addressing"
    BY DEF FeedInv, FeedFlags
  <2>2. feedPanel'.isRefreshingAddressing =>
          \E g \in Feed!Handler \ {"poll"} : feedFlight'[g] # None /\ feedFlight'[g].at = "addressing"
    BY <1>1, <1>3, <2>1
  <2>3. /\ feedFlight'["submit"] # None => feedFlight'["submit"].at = "post"
        /\ feedPanel'.isSubmitting <=> feedFlight'["submit"] # None
        /\ feedPanel'.isRefreshingActivity => feedFlight'["refresh"] # None \/ feedFlight'["replay"] # None
    BY <1>1, <1>3 DEF FeedInv, FeedFlags, Feed!Handler, Feed!Refresher
  <2> QED
    BY <2>2, <2>3 DEF FeedFlags
<1> QED
  BY <1>3, <1>4, <1>5 DEF FeedInv, FeedTypes

\* A handler that ends lowers the flags that it may have raised.
LEMMA FeedEnds ==
  ASSUME FeedInv, NEW h \in Feed!Handler, Feed!End(h), feedServer' = feedServer, feedPanel' \in FeedPanel,
         feedPanel'.isRefreshingActivity => feedPanel.isRefreshingActivity /\ h \notin {"refresh", "replay"},
         feedPanel'.isRefreshingAddressing => feedPanel.isRefreshingAddressing
                                            /\ (h = "poll" \/ feedFlight[h].at # "addressing"),
         feedPanel'.isSubmitting <=> feedPanel.isSubmitting /\ h # "submit"
  PROVE  FeedInv'
<1>1. /\ feedFlight' \in FeedFlight /\ feedFlight'[h] = None
      /\ \A g \in Feed!Handler \ {h} : feedFlight'[g] = feedFlight[g]
  BY DEF Feed!End, FeedInv, FeedTypes, FeedFlight
<1>2. FeedIsAnswered'
  BY <1>1 DEF FeedInv, FeedIsAnswered
<1>3. FeedFlags'
  BY <1>1 DEF FeedInv, FeedFlags, Feed!Handler, Feed!Refresher
<1> QED
  BY <1>1, <1>2, <1>3 DEF FeedInv, FeedTypes

\* A step that leaves the requests and the flags alone.
LEMMA FeedRests ==
  ASSUME FeedInv, feedFlight' = feedFlight, feedServer' \in FeedServer, feedPanel' \in FeedPanel,
         feedPanel'.isRefreshingActivity = feedPanel.isRefreshingActivity,
         feedPanel'.isRefreshingAddressing = feedPanel.isRefreshingAddressing,
         feedPanel'.isSubmitting = feedPanel.isSubmitting
  PROVE  FeedInv'
BY DEF FeedInv, FeedTypes, FeedIsAnswered, FeedFlags

\* The flags that a refresh raises and lowers.
LEMMA FeedRaises ==
  ASSUME NEW shown \in FeedPanel, NEW h
  PROVE  /\ Feed!Raised(h, shown) \in FeedPanel
         /\ Feed!Raised(h, shown).isRefreshingActivity <=> shown.isRefreshingActivity \/ h # "poll"
         /\ Feed!Raised(h, shown).isRefreshingAddressing = shown.isRefreshingAddressing
         /\ Feed!Raised(h, shown).isSubmitting = shown.isSubmitting
         /\ Feed!Raised(h, shown).clicks = shown.clicks
<1> DEFINE b == shown.isRefreshingActivity \/ ~(h = "poll")
<1>1. b \in BOOLEAN
  BY Zenon
<1>2. Feed!Raised(h, shown) = [shown EXCEPT !.error = FALSE, !.isRefreshingActivity = b]
  BY DEF Feed!Raised, Feed!Silent, FeedPanel
<1>3. b <=> shown.isRefreshingActivity \/ h # "poll"
  OBVIOUS
<1> HIDE DEF b
<1> QED
  BY <1>1, <1>2, <1>3 DEF FeedPanel

LEMMA FeedRaisesAddressing ==
  ASSUME NEW shown \in FeedPanel, NEW h
  PROVE  /\ Feed!RaisedAddressing(h, shown) \in FeedPanel
         /\ Feed!RaisedAddressing(h, shown).isRefreshingAddressing
              <=> shown.isRefreshingAddressing \/ h # "poll"
         /\ Feed!RaisedAddressing(h, shown).isRefreshingActivity = shown.isRefreshingActivity
         /\ Feed!RaisedAddressing(h, shown).isSubmitting = shown.isSubmitting
         /\ Feed!RaisedAddressing(h, shown).clicks = shown.clicks
<1> DEFINE b == shown.isRefreshingAddressing \/ ~(h = "poll")
<1>1. b \in BOOLEAN
  BY Zenon
<1>2. Feed!RaisedAddressing(h, shown) = [shown EXCEPT !.isRefreshingAddressing = b]
  BY DEF Feed!RaisedAddressing, Feed!Silent
<1>3. b <=> shown.isRefreshingAddressing \/ h # "poll"
  OBVIOUS
<1> HIDE DEF b
<1> QED
  BY <1>1, <1>2, <1>3 DEF FeedPanel

LEMMA FeedLowers ==
  ASSUME NEW shown \in FeedPanel, NEW h
  PROVE  /\ Feed!LoweredActivity(h, shown) \in FeedPanel
         /\ Feed!LoweredActivity(h, shown).isRefreshingActivity
              <=> shown.isRefreshingActivity /\ h = "poll"
         /\ Feed!LoweredActivity(h, shown).isRefreshingAddressing = shown.isRefreshingAddressing
         /\ Feed!LoweredActivity(h, shown).isSubmitting = shown.isSubmitting
<1> DEFINE b == shown.isRefreshingActivity /\ h = "poll"
<1>1. b \in BOOLEAN
  BY Zenon
<1>2. Feed!LoweredActivity(h, shown) = [shown EXCEPT !.isRefreshingActivity = b]
  BY DEF Feed!LoweredActivity, Feed!Silent
<1>3. b <=> shown.isRefreshingActivity /\ h = "poll"
  OBVIOUS
<1> HIDE DEF b
<1> QED
  BY <1>1, <1>2, <1>3 DEF FeedPanel

\* The interval and the user. A click counts.
LEMMA FeedCommands ==
  ASSUME Feed!FeedAssumption, NEW shown \in FeedPanel, shown.clicks < FeedClicks
  PROVE  /\ [shown EXCEPT !.clicks = @ + 1] \in FeedPanel
         /\ [shown EXCEPT !.clicks = @ + 1].isRefreshingActivity = shown.isRefreshingActivity
         /\ [shown EXCEPT !.clicks = @ + 1].isRefreshingAddressing = shown.isRefreshingAddressing
         /\ [shown EXCEPT !.clicks = @ + 1].isSubmitting = shown.isSubmitting
<1> DEFINE n == shown.clicks + 1
<1>1. n \in 0..FeedClicks
  BY FeedBounds DEF FeedPanel
<1> HIDE DEF n
<1>2. /\ [shown EXCEPT !.clicks = n] \in FeedPanel
      /\ [shown EXCEPT !.clicks = n].isRefreshingActivity = shown.isRefreshingActivity
      /\ [shown EXCEPT !.clicks = n].isRefreshingAddressing = shown.isRefreshingAddressing
      /\ [shown EXCEPT !.clicks = n].isSubmitting = shown.isSubmitting
  BY <1>1 DEF FeedPanel
<1>3. [shown EXCEPT !.clicks = @ + 1] = [shown EXCEPT !.clicks = n]
  BY DEF n
<1> QED
  BY <1>2, <1>3

LEMMA FeedStarts ==
  ASSUME Feed!FeedAssumption, FeedInv,
         \/ Feed!Tick \/ Feed!ClickRefresh \/ Feed!handleTriggerReplay \/ Feed!refreshAddressing
         \/ Feed!handleClearActivity \/ Feed!handleJobSubmit
  PROVE  FeedInv'
<1>1. feedPanel \in FeedPanel
  BY DEF FeedInv, FeedTypes
<1>2. CASE Feed!Tick
  <2>1. /\ feedFlight["poll"] = None /\ feedPanel' = Feed!Raised("poll", feedPanel)
        /\ Feed!Wait("poll", "activity") /\ feedServer' = feedServer
    BY <1>2 DEF Feed!Tick, Feed!refreshActivity
  <2> QED
    BY <1>1, <2>1, FeedRaises, FeedWaits DEF Feed!Handler, Feed!Refresher
<1>3. CASE Feed!ClickRefresh \/ Feed!handleTriggerReplay
  <2>1. PICK h \in {"refresh", "replay"} : Feed!Give(h, "activity", Feed!Raised(h, feedPanel))
    BY <1>3 DEF Feed!ClickRefresh, Feed!handleTriggerReplay
  <2> DEFINE shown == Feed!Raised(h, feedPanel)
  <2>2. /\ shown \in FeedPanel /\ shown.clicks = feedPanel.clicks
        /\ shown.isRefreshingAddressing = feedPanel.isRefreshingAddressing
        /\ shown.isSubmitting = feedPanel.isSubmitting
    BY <1>1, FeedRaises
  <2> HIDE DEF shown
  <2>3. /\ feedPanel.clicks < FeedClicks /\ feedFlight[h] = None /\ feedPanel' = [shown EXCEPT !.clicks = @ + 1]
        /\ Feed!Wait(h, "activity") /\ feedServer' = feedServer
    BY <2>1 DEF Feed!Give, shown
  <2>4. /\ feedPanel' \in FeedPanel /\ feedPanel'.isRefreshingAddressing = feedPanel.isRefreshingAddressing
        /\ feedPanel'.isSubmitting = feedPanel.isSubmitting
    BY <2>2, <2>3, FeedCommands
  <2> QED
    BY <2>3, <2>4, FeedWaits DEF Feed!Handler, Feed!Refresher
<1>4. CASE Feed!refreshAddressing
  <2> DEFINE shown == Feed!RaisedAddressing("addressing", feedPanel)
  <2>1. /\ shown \in FeedPanel /\ shown.clicks = feedPanel.clicks
        /\ shown.isRefreshingActivity = feedPanel.isRefreshingActivity
        /\ shown.isSubmitting = feedPanel.isSubmitting
    BY <1>1, FeedRaisesAddressing
  <2> HIDE DEF shown
  <2>2. /\ feedPanel.clicks < FeedClicks /\ feedFlight["addressing"] = None
        /\ feedPanel' = [shown EXCEPT !.clicks = @ + 1]
        /\ Feed!Wait("addressing", "addressing") /\ feedServer' = feedServer
    BY <1>4 DEF Feed!refreshAddressing, Feed!Give, shown
  <2>3. /\ feedPanel' \in FeedPanel /\ feedPanel'.isRefreshingActivity = feedPanel.isRefreshingActivity
        /\ feedPanel'.isSubmitting = feedPanel.isSubmitting
    BY <2>1, <2>2, FeedCommands
  <2> QED
    BY <2>2, <2>3, FeedWaits DEF Feed!Handler, Feed!Refresher
<1>5. CASE Feed!handleClearActivity
  <2>1. /\ feedPanel.clicks < FeedClicks /\ feedFlight["clear"] = None /\ feedServer' = feedServer
        /\ feedPanel' = [feedPanel EXCEPT !.clicks = @ + 1] /\ Feed!Wait("clear", "delete")
    BY <1>5 DEF Feed!handleClearActivity, Feed!Give
  <2> QED
    BY <1>1, <2>1, FeedCommands, FeedWaits DEF Feed!Handler, Feed!Refresher
<1>6. CASE Feed!handleJobSubmit
  <2> DEFINE shown == [feedPanel EXCEPT !.isSubmitting = TRUE, !.error = FALSE, !.success = FALSE]
  <2>1. /\ shown \in FeedPanel /\ shown.clicks = feedPanel.clicks
        /\ shown.isRefreshingActivity = feedPanel.isRefreshingActivity
        /\ shown.isRefreshingAddressing = feedPanel.isRefreshingAddressing
        /\ shown.isSubmitting = TRUE
    BY <1>1 DEF FeedPanel
  <2>2. Feed!Give("submit", "post", shown)
    BY <1>6 DEF Feed!handleJobSubmit
  <2> HIDE DEF shown
  <2>3. /\ feedPanel.clicks < FeedClicks /\ feedFlight["submit"] = None /\ feedServer' = feedServer
        /\ feedPanel' = [shown EXCEPT !.clicks = @ + 1] /\ Feed!Wait("submit", "post")
    BY <2>2 DEF Feed!Give
  <2>4. /\ feedPanel' \in FeedPanel /\ feedPanel'.isSubmitting = TRUE
        /\ feedPanel'.isRefreshingActivity = feedPanel.isRefreshingActivity
        /\ feedPanel'.isRefreshingAddressing = feedPanel.isRefreshingAddressing
    BY <2>1, <2>3, FeedCommands
  <2> QED
    BY <2>3, <2>4, FeedWaits DEF Feed!Handler, Feed!Refresher
<1> QED
  BY <1>2, <1>3, <1>4, <1>5, <1>6

LEMMA FeedShows ==
  ASSUME Feed!FeedAssumption, FeedInv,
         \/ Feed!toggleExpanded \/ Feed!closeAlert \/ Feed!loadSubscriptions
         \/ \E v \in {"activity", "addressing"} : Feed!setObsView(v)
  PROVE  FeedInv'
<1>1. feedPanel \in FeedPanel /\ feedServer \in FeedServer
  BY DEF FeedInv, FeedTypes
<1>2. feedServer' = feedServer /\ feedFlight' = feedFlight
  BY DEF Feed!toggleExpanded, Feed!closeAlert, Feed!loadSubscriptions, Feed!setObsView
<1>3. ASSUME NEW shown \in FeedPanel, feedPanel' = shown,
             shown.isRefreshingActivity = feedPanel.isRefreshingActivity,
             shown.isRefreshingAddressing = feedPanel.isRefreshingAddressing,
             shown.isSubmitting = feedPanel.isSubmitting
      PROVE  FeedInv'
  BY <1>1, <1>2, <1>3, FeedRests
<1>4. CASE Feed!toggleExpanded
  <2> DEFINE b == ~feedPanel.isExpanded
             shown == [feedPanel EXCEPT !.isExpanded = b]
  <2>1. b \in BOOLEAN
    BY Zenon
  <2>2. feedPanel' = [shown EXCEPT !.clicks = @ + 1] /\ feedPanel.clicks < FeedClicks
    BY <1>1, <1>4 DEF Feed!toggleExpanded, FeedPanel
  <2> HIDE DEF b
  <2>3. /\ shown \in FeedPanel /\ shown.clicks = feedPanel.clicks
        /\ shown.isRefreshingActivity = feedPanel.isRefreshingActivity
        /\ shown.isRefreshingAddressing = feedPanel.isRefreshingAddressing
        /\ shown.isSubmitting = feedPanel.isSubmitting
    BY <1>1, <2>1 DEF FeedPanel
  <2> HIDE DEF shown
  <2> QED
    BY <1>3, <2>2, <2>3, FeedCommands
<1>5. CASE \E v \in {"activity", "addressing"} : Feed!setObsView(v)
  <2>1. PICK v \in {"activity", "addressing"} : Feed!setObsView(v)
    BY <1>5
  <2> DEFINE shown == [feedPanel EXCEPT !.obsView = v, !.isExpanded = TRUE]
  <2>2. feedPanel' = [shown EXCEPT !.clicks = @ + 1] /\ feedPanel.clicks < FeedClicks
    BY <1>1, <2>1 DEF Feed!setObsView, FeedPanel
  <2>3. /\ shown \in FeedPanel /\ shown.clicks = feedPanel.clicks
        /\ shown.isRefreshingActivity = feedPanel.isRefreshingActivity
        /\ shown.isRefreshingAddressing = feedPanel.isRefreshingAddressing
        /\ shown.isSubmitting = feedPanel.isSubmitting
    BY <1>1 DEF FeedPanel
  <2> HIDE DEF shown
  <2> QED
    BY <1>3, <2>2, <2>3, FeedCommands
<1>6. CASE Feed!closeAlert \/ Feed!loadSubscriptions
  <2>1. \/ feedPanel' = [feedPanel EXCEPT !.error = FALSE]
        \/ feedPanel' = [feedPanel EXCEPT !.success = FALSE]
        \/ feedPanel' = [feedPanel EXCEPT !.subscriptions = TRUE]
    BY <1>6 DEF Feed!closeAlert, Feed!loadSubscriptions
  <2>2. /\ feedPanel' \in FeedPanel
        /\ feedPanel'.isRefreshingActivity = feedPanel.isRefreshingActivity
        /\ feedPanel'.isRefreshingAddressing = feedPanel.isRefreshingAddressing
        /\ feedPanel'.isSubmitting = feedPanel.isSubmitting
    BY <1>1, <2>1 DEF FeedPanel
  <2> QED
    BY <1>1, <1>2, <2>2, FeedRests
<1> QED
  BY <1>4, <1>5, <1>6

\* The services.
LEMMA FeedServes ==
  ASSUME Feed!FeedAssumption, FeedInv, NEW h \in Feed!Handler, Feed!Serve(h)
  PROVE  FeedInv'
<1>1. /\ feedPanel' = feedPanel /\ feedFlight[h] # None /\ feedFlight[h] \in Feed!Waiting
      /\ feedServer \in FeedServer
  BY DEF Feed!Serve, FeedInv, FeedTypes, FeedFlight
<1>2. feedServer.feed \in SUBSET Feed!Event /\ feedServer.heard \in 0..FeedEvents
  BY <1>1 DEF FeedServer
<1>3. feedServer' \in FeedServer
  BY <1>1 DEF Feed!Serve, FeedServer
<1>4. PICK call \in Feed!Waiting :
        /\ feedFlight' = [feedFlight EXCEPT ![h] = call]
        /\ call.at = feedFlight[h].at
        /\ call.call = "answered" =>
             /\ call.at = "activity" => call.value \in SUBSET Feed!Event
             /\ call.at = "addressing" => call.value \in 0..FeedEvents
  <2>1. CASE ~feedServer.up
    <3> DEFINE call == [feedFlight[h] EXCEPT !.call = "failed"]
    <3>1. call \in Feed!Waiting /\ call.at = feedFlight[h].at /\ call.call = "failed"
      BY <1>1 DEF Feed!Waiting
    <3>2. feedFlight' = [feedFlight EXCEPT ![h] = call]
      BY <2>1 DEF Feed!Serve
    <3> QED
      BY <3>1, <3>2
  <2>2. CASE feedServer.up
    <3> DEFINE value == CASE feedFlight[h].at = "activity" -> feedServer.feed
                          [] feedFlight[h].at = "addressing" -> feedServer.heard
                          [] OTHER -> None
    <3>1. /\ value \in (SUBSET Feed!Event) \cup (0..FeedEvents) \cup {None}
          /\ feedFlight[h].at = "activity" => value = feedServer.feed
          /\ feedFlight[h].at = "addressing" => value = feedServer.heard
      BY <1>2
    <3>2. feedFlight' = [feedFlight EXCEPT ![h].call = "answered", ![h].value = value]
      BY <2>2 DEF Feed!Serve
    <3> HIDE DEF value
    <3> DEFINE call == [feedFlight[h] EXCEPT !.call = "answered", !.value = value]
    <3>3. call \in Feed!Waiting /\ call.at = feedFlight[h].at /\ call.value = value
      BY <1>1, <3>1 DEF Feed!Waiting
    <3>4. feedFlight' = [feedFlight EXCEPT ![h] = call]
      BY <3>2 DEF FeedInv, FeedTypes, FeedFlight
    <3> HIDE DEF call
    <3> QED
      BY <1>2, <3>1, <3>3, <3>4
  <2> QED
    BY <2>1, <2>2
<1>5. call # None
  BY DEF Feed!FeedAssumption
<1>6. /\ feedFlight' \in FeedFlight /\ feedFlight'[h] = call
      /\ \A g \in Feed!Handler \ {h} : feedFlight'[g] = feedFlight[g]
  BY <1>4 DEF FeedInv, FeedTypes, FeedFlight
<1>7. FeedIsAnswered'
  BY <1>4, <1>6 DEF FeedInv, FeedIsAnswered
<1>8. FeedFlags'
  <2>1. \A g \in Feed!Handler : /\ feedFlight'[g] # None <=> feedFlight[g] # None
                                /\ feedFlight'[g] # None => feedFlight'[g].at = feedFlight[g].at
    BY <1>1, <1>4, <1>5, <1>6
  <2>2. "submit" \in Feed!Handler /\ "refresh" \in Feed!Handler /\ "replay" \in Feed!Handler
    BY DEF Feed!Handler, Feed!Refresher
  <2> QED
    BY <1>1, <2>1, <2>2 DEF FeedInv, FeedFlags
<1> QED
  BY <1>1, <1>3, <1>6, <1>7, <1>8 DEF FeedInv, FeedTypes

LEMMA FeedChanges ==
  ASSUME Feed!FeedAssumption, FeedInv, Feed!Hear \/ Feed!Outage
  PROVE  FeedInv'
<1>1. feedServer \in FeedServer /\ feedPanel \in FeedPanel /\ feedPanel' = feedPanel /\ feedFlight' = feedFlight
  BY DEF FeedInv, FeedTypes, Feed!Hear, Feed!Outage
<1>2. CASE Feed!Hear
  <2> DEFINE n == feedServer.heard + 1
             feed == feedServer.feed \cup {n}
  <2>1. n \in 0..FeedEvents /\ n \in Feed!Event
    BY <1>1, <1>2, FeedBounds DEF Feed!Hear, FeedServer, Feed!Event
  <2>2. feed \in SUBSET Feed!Event
    BY <1>1, <2>1 DEF FeedServer
  <2>3. feedServer' = [feedServer EXCEPT !.heard = n, !.feed = feed]
    BY <1>2 DEF Feed!Hear
  <2> HIDE DEF n, feed
  <2>4. feedServer' \in FeedServer
    BY <1>1, <2>1, <2>2, <2>3 DEF FeedServer
  <2> QED
    BY <1>1, <2>4, FeedRests
<1>3. CASE Feed!Outage
  <2> DEFINE back == ~feedServer.up
             n == IF feedServer.up THEN feedServer.outages + 1 ELSE feedServer.outages
  <2>1. back \in BOOLEAN
    BY Zenon
  <2>2. n \in Int
    BY <1>1 DEF FeedServer
  <2>3. feedServer' = [feedServer EXCEPT !.up = back, !.outages = n]
    BY <1>3 DEF Feed!Outage
  <2> HIDE DEF back, n
  <2>4. feedServer' \in FeedServer
    BY <1>1, <2>1, <2>2, <2>3 DEF FeedServer
  <2> QED
    BY <1>1, <2>4, FeedRests
<1> QED
  BY <1>2, <1>3

\* The handlers, from an await on.
LEMMA FeedReturns ==
  ASSUME Feed!FeedAssumption, FeedInv, NEW h \in Feed!Handler,
         \/ Feed!ActivityDone(h) \/ Feed!ActivityFailed(h) \/ Feed!AddressingDone(h)
         \/ (h = "clear" /\ Feed!ClearDone) \/ (h = "submit" /\ Feed!SubmitDone)
  PROVE  FeedInv'
<1>1. feedPanel \in FeedPanel /\ feedFlight[h] # None /\ (h = "submit" => feedFlight[h].at = "post")
  BY DEF FeedInv, FeedTypes, FeedFlags, Feed!ActivityDone, Feed!ActivityFailed,
     Feed!AddressingDone, Feed!ClearDone, Feed!SubmitDone, Feed!Returns
<1>2. feedServer' = feedServer
  BY DEF Feed!ActivityDone, Feed!ActivityFailed, Feed!AddressingDone, Feed!ClearDone,
     Feed!SubmitDone
<1>3. CASE Feed!ActivityDone(h)
  <2> DEFINE shown == [feedPanel EXCEPT !.activities = feedFlight[h].value]
  <2>1. feedFlight[h].at = "activity" /\ feedFlight[h].value \in SUBSET Feed!Event /\ h # "submit"
    BY <1>1, <1>3 DEF Feed!ActivityDone, Feed!Returns, FeedInv, FeedIsAnswered
  <2>2. /\ shown \in FeedPanel
        /\ shown.isRefreshingActivity = feedPanel.isRefreshingActivity
        /\ shown.isRefreshingAddressing = feedPanel.isRefreshingAddressing
        /\ shown.isSubmitting = feedPanel.isSubmitting
    BY <1>1, <2>1 DEF FeedPanel
  <2>3. feedPanel' = Feed!RaisedAddressing(h, shown) /\ Feed!Wait(h, "addressing")
    BY <1>3 DEF Feed!ActivityDone
  <2> HIDE DEF shown
  <2> QED
    BY <1>2, <2>1, <2>2, <2>3, FeedRaisesAddressing, FeedWaits
<1>4. CASE Feed!ActivityFailed(h)
  <2> DEFINE e == feedPanel.error \/ ~Feed!Silent(h)
             shown == [feedPanel EXCEPT !.error = e]
  <2>1. e \in BOOLEAN
    BY Zenon
  <2>2. /\ feedPanel' = Feed!LoweredActivity(h, shown) /\ Feed!End(h)
        /\ feedFlight[h].at = "activity"
    BY <1>4 DEF Feed!ActivityFailed, Feed!Returns
  <2> HIDE DEF e
  <2>3. /\ shown \in FeedPanel
        /\ shown.isRefreshingActivity = feedPanel.isRefreshingActivity
        /\ shown.isRefreshingAddressing = feedPanel.isRefreshingAddressing
        /\ shown.isSubmitting = feedPanel.isSubmitting
    BY <1>1, <2>1 DEF FeedPanel
  <2> HIDE DEF shown
  <2> QED
    BY <1>1, <1>2, <2>2, <2>3, FeedLowers, FeedEnds
<1>5. CASE Feed!AddressingDone(h)
  <2> DEFINE e == feedPanel.error \/ ~Feed!Silent(h)
             b == feedPanel.isRefreshingAddressing /\ Feed!Silent(h)
             shown == IF feedFlight[h].call = "answered"
                      THEN [feedPanel EXCEPT !.addressingEvents = feedFlight[h].value]
                      ELSE [feedPanel EXCEPT !.error = e]
             lowered == [shown EXCEPT !.isRefreshingAddressing = b]
  <2>1. e \in BOOLEAN /\ b \in BOOLEAN
    BY Zenon
  <2>2. b => feedPanel.isRefreshingAddressing /\ h = "poll"
    BY DEF Feed!Silent
  <2>3. /\ feedFlight[h].at = "addressing" /\ Feed!End(h)
        /\ feedFlight[h].call = "answered" => feedFlight[h].value \in 0..FeedEvents
    BY <1>5 DEF Feed!AddressingDone, Feed!Returns, FeedInv, FeedIsAnswered
  <2>4. shown.isRefreshingAddressing = feedPanel.isRefreshingAddressing
    BY <1>1 DEF FeedPanel
  <2>5. feedPanel' = IF h \in Feed!Refresher THEN Feed!LoweredActivity(h, lowered) ELSE lowered
    BY <1>5, <2>4 DEF Feed!AddressingDone
  <2> HIDE DEF e, b
  <2>6. /\ shown \in FeedPanel
        /\ shown.isRefreshingActivity = feedPanel.isRefreshingActivity
        /\ shown.isSubmitting = feedPanel.isSubmitting
    BY <1>1, <2>1, <2>3 DEF FeedPanel
  <2> HIDE DEF shown
  <2>7. /\ lowered \in FeedPanel /\ lowered.isRefreshingAddressing = b
        /\ lowered.isRefreshingActivity = feedPanel.isRefreshingActivity
        /\ lowered.isSubmitting = feedPanel.isSubmitting
    BY <2>1, <2>6 DEF FeedPanel
  <2> HIDE DEF lowered
  <2>8. h # "submit"
    BY <1>1, <2>3
  <2>9. CASE h \in Feed!Refresher
    BY <1>2, <2>2, <2>3, <2>5, <2>7, <2>8, <2>9, FeedLowers, FeedEnds
  <2>10. CASE h \notin Feed!Refresher
    BY <1>2, <2>2, <2>3, <2>5, <2>7, <2>8, <2>10, FeedEnds DEF Feed!Refresher
  <2> QED
    BY <2>9, <2>10
<1>6. CASE h = "clear" /\ Feed!ClearDone
  <2>1. /\ Feed!End(h) /\ feedFlight[h].at = "delete"
        /\ \/ feedPanel' = [feedPanel EXCEPT !.activities = {}]
           \/ feedPanel' = [feedPanel EXCEPT !.error = TRUE]
    BY <1>6 DEF Feed!ClearDone, Feed!Returns
  <2>2. /\ feedPanel' \in FeedPanel
        /\ feedPanel'.isRefreshingActivity = feedPanel.isRefreshingActivity
        /\ feedPanel'.isRefreshingAddressing = feedPanel.isRefreshingAddressing
        /\ feedPanel'.isSubmitting = feedPanel.isSubmitting
    BY <1>1, <2>1 DEF FeedPanel
  <2> QED
    BY <1>2, <1>6, <2>1, <2>2, FeedEnds
<1>7. CASE h = "submit" /\ Feed!SubmitDone
  <2> DEFINE activities == feedPanel.activities \cup {Feed!Local}
  <2>1. /\ Feed!End(h) /\ feedFlight[h].at = "post"
        /\ \/ feedPanel' = [feedPanel EXCEPT !.success = TRUE, !.activities = activities,
                                             !.isSubmitting = FALSE]
           \/ feedPanel' = [feedPanel EXCEPT !.error = TRUE, !.isSubmitting = FALSE]
    BY <1>7 DEF Feed!SubmitDone, Feed!Returns
  <2>2. activities \in SUBSET (Feed!Event \cup {Feed!Local})
    BY <1>1 DEF FeedPanel
  <2> HIDE DEF activities
  <2>3. /\ feedPanel' \in FeedPanel /\ feedPanel'.isSubmitting = FALSE
        /\ feedPanel'.isRefreshingActivity = feedPanel.isRefreshingActivity
        /\ feedPanel'.isRefreshingAddressing = feedPanel.isRefreshingAddressing
    BY <1>1, <2>1, <2>2 DEF FeedPanel
  <2> QED
    BY <1>2, <1>7, <2>1, <2>3, FeedEnds
<1> QED
  BY <1>3, <1>4, <1>5, <1>6, <1>7

LEMMA FeedNext ==
  ASSUME Feed!FeedAssumption, FeedInv, [Feed!Next]_(Feed!vars)
  PROVE  FeedInv'
<1>1. CASE UNCHANGED Feed!vars
  BY <1>1 DEF Feed!vars, FeedInv, FeedTypes, FeedIsAnswered, FeedFlags
<1> QED
  BY <1>1, FeedStarts, FeedShows, FeedServes, FeedChanges, FeedReturns
  DEF Feed!Next, Feed!User, Feed!Progress

LEMMA FeedInvariant == Spec => []FeedInv
<1>1. Init => FeedInv
  BY PanelsAssumption, FeedInit DEF Init
<1>2. FeedInv /\ [Next]_vars => FeedInv'
  <2>1. [Next]_vars => [Feed!Next]_(Feed!vars)
    BY DEF Next, OnStatus, OnFeed, OnLog, OnInspector, OnForm, vars, feedVars, Feed!vars
  <2> QED
    BY <2>1, PanelsAssumption, FeedNext
<1> QED
  BY <1>1, <1>2, PTL DEF Spec

LEMMA FeedTypesHold == FeedInv => Feed!TypeOK
BY DEF FeedInv, FeedTypes, FeedServer, FeedPanel, Feed!TypeOK

(* A button that says that something runs does so only while it runs, on every *)
(* path out of the chains of requests of the status bar (App.tsx               *)
(* refreshStatus, handleResetStream) and of the activity feed, where a         *)
(* replay's timers and the button share one flag and each of them lowers it    *)
(* (App.tsx refreshActivity, refreshAddressing, handleJobSubmit).              *)
THEOREM ButtonsComeBack == Spec => []BusyMeansInFlight
<1>1. StatusInv => Status!BusyMeansInFlight
  BY DEF StatusInv
<1>2. FeedInv => Feed!BusyMeansInFlight
  BY DEF FeedInv, FeedFlags, Feed!BusyMeansInFlight, Feed!Handler, Feed!Refresher, Feed!Silent
<1>3. StatusInv /\ FeedInv => BusyMeansInFlight
  BY <1>1, <1>2 DEF BusyMeansInFlight
<1> QED
  BY <1>3, StatusInvariant, FeedInvariant, PTL

-----------------------------------------------------------------------------
(* ActivityView.                                                           *)

LogServer == [feed: Seq(Entry), heard: 0..LogEvents]
LogPanel == [activities: Seq(Entry), category: Log!Categories, search: Log!Job \cup {None},
             event: {Log!ALL} \cup {e.event : e \in Entry}, mode: Log!modeOptions,
             worker: {Log!ALL} \cup {e.worker : e \in Entry}, cap: Caps \cup {0},
             expanded: SUBSET Log!Job, clicks: 0..LogClicks]
LogInv == logServer \in LogServer /\ Len(logServer.feed) <= FeedCap /\ logPanel \in LogPanel

LEMMA LogBounds ==
  ASSUME Log!LogAssumption
  PROVE  FeedCap \in Nat /\ LogEvents \in Nat /\ LogClicks \in Nat
BY DEF Log!LogAssumption

LEMMA LogInit == ASSUME Log!LogAssumption, Log!Init PROVE LogInv
<1>1. logServer.feed = <<>> /\ logServer \in LogServer
  BY LogBounds DEF Log!Init, LogServer
<1>2. logPanel \in LogPanel
  BY LogBounds DEF Log!Init, LogPanel, Log!Categories, Log!ALL, Log!modeOptions
<1> QED
  BY <1>1, <1>2, LogBounds DEF LogInv

\* The tracker hears of an event and drops what exceeds its cap.
LEMMA LogHears == ASSUME Log!LogAssumption, LogInv, Log!Hear PROVE LogInv'
<1> DEFINE feed == logServer.feed
           n == IF Len(feed) < FeedCap THEN Len(feed) + 1 ELSE FeedCap
<1>1. PICK e \in Entry : logServer' = [feed |-> SubSeq(<<e>> \o feed, 1, n), heard |-> logServer.heard + 1]
  BY DEF Log!Hear
<1>2. feed \in Seq(Entry) /\ Len(feed) \in Nat /\ Len(feed) <= FeedCap /\ FeedCap \in Nat
  BY LogBounds DEF LogInv, LogServer
<1>3. <<e>> \o feed \in Seq(Entry) /\ Len(<<e>> \o feed) = Len(feed) + 1
  BY <1>2
<1>4. n \in 0..(Len(feed) + 1) /\ n <= FeedCap
  BY <1>2
<1>5. SubSeq(<<e>> \o feed, 1, n) \in Seq(Entry) /\ Len(SubSeq(<<e>> \o feed, 1, n)) = n
  BY <1>2, <1>3, <1>4
<1>6. logServer.heard + 1 \in 0..LogEvents
  BY LogBounds DEF Log!Hear, LogInv, LogServer
<1>7. logServer' \in LogServer /\ Len(logServer'.feed) <= FeedCap
  BY <1>1, <1>4, <1>5, <1>6 DEF LogServer
<1> QED
  BY <1>7 DEF Log!Hear, LogInv

\* A click changes what is shown by a value that the panel offers.
LEMMA LogClicked ==
  ASSUME Log!LogAssumption, LogInv, NEW shown \in LogPanel, shown.clicks = logPanel.clicks,
         Log!Click(shown)
  PROVE  LogInv'
<1>1. shown.clicks + 1 \in 0..LogClicks
  BY LogBounds DEF Log!Click, LogInv, LogPanel
<1>2. logPanel' \in LogPanel /\ logServer' = logServer
  BY <1>1 DEF Log!Click, LogPanel
<1> QED
  BY <1>2 DEF LogInv

\* What the log lists are entries, and the options come from them.
LEMMA ListedAreEntries ==
  ASSUME LogInv
  PROVE  /\ \A i \in DOMAIN logPanel.activities : logPanel.activities[i] \in Entry
         /\ Log!ToSet(logPanel.activities) \subseteq Entry
<1>1. logPanel.activities \in Seq(Entry)
  BY DEF LogInv, LogPanel
<1> QED
  BY <1>1 DEF Log!ToSet

LEMMA LogFilters ==
  ASSUME Log!LogAssumption, LogInv,
         Log!setMessageCategory \/ Log!setSearchQuery \/ Log!setFilters \/ Log!setEventLimit
  PROVE  LogInv'
<1>1. logPanel \in LogPanel
  BY DEF LogInv
<1>2. CASE Log!setMessageCategory
  <2>1. PICK c \in Log!Categories : Log!Click([logPanel EXCEPT !.category = c])
    BY <1>2 DEF Log!setMessageCategory
  <2> QED
    BY <1>1, <2>1, LogClicked DEF LogPanel
<1>3. CASE Log!setSearchQuery
  <2>1. PICK q \in Log!Job \cup {None} : Log!Click([logPanel EXCEPT !.search = q])
    BY <1>3 DEF Log!setSearchQuery
  <2> QED
    BY <1>1, <2>1, LogClicked DEF LogPanel
<1>4. CASE \E e \in Log!eventOptions : Log!Click([logPanel EXCEPT !.event = e])
  <2>1. PICK e \in Log!eventOptions : Log!Click([logPanel EXCEPT !.event = e])
    BY <1>4
  <2>2. e \in {Log!ALL} \cup {a.event : a \in Entry}
    BY ListedAreEntries DEF Log!eventOptions
  <2> QED
    BY <1>1, <2>1, <2>2, LogClicked DEF LogPanel
<1>5. CASE \E m \in Log!modeOptions : Log!Click([logPanel EXCEPT !.mode = m])
  <2>1. PICK m \in Log!modeOptions : Log!Click([logPanel EXCEPT !.mode = m])
    BY <1>5
  <2> QED
    BY <1>1, <2>1, LogClicked DEF LogPanel
<1>6. CASE \E w \in Log!workerOptions : Log!Click([logPanel EXCEPT !.worker = w])
  <2>1. PICK w \in Log!workerOptions : Log!Click([logPanel EXCEPT !.worker = w])
    BY <1>6
  <2>2. w \in {Log!ALL} \cup {a.worker : a \in Entry}
    BY ListedAreEntries DEF Log!workerOptions
  <2> QED
    BY <1>1, <2>1, <2>2, LogClicked DEF LogPanel
<1>7. CASE Log!setEventLimit
  <2>1. PICK n \in Caps \cup {0} : Log!Click([logPanel EXCEPT !.cap = n])
    BY <1>7 DEF Log!setEventLimit
  <2> QED
    BY <1>1, <2>1, LogClicked DEF LogPanel
<1> QED
  BY <1>2, <1>3, <1>4, <1>5, <1>6, <1>7 DEF Log!setFilters

\* A function of the numbers up to n is a sequence.
LEMMA NumberedIsSeq == ASSUME NEW S, NEW n \in Nat, NEW f \in [1..n -> S] PROVE f \in Seq(S)
OBVIOUS

LEMMA LogNext == ASSUME Log!LogAssumption, LogInv, [Log!Next]_(Log!vars) PROVE LogInv'
<1>1. logPanel \in LogPanel /\ logServer \in LogServer /\ Len(logServer.feed) <= FeedCap
  BY DEF LogInv
<1>2. CASE Log!Refresh
  <2>1. PICK order \in [DOMAIN logServer.feed -> DOMAIN logServer.feed] :
             logPanel' = [logPanel EXCEPT !.activities =
                            [p \in DOMAIN logServer.feed |-> logServer.feed[order[p]]]]
    BY <1>2 DEF Log!Refresh
  <2> DEFINE list == [p \in DOMAIN logServer.feed |-> logServer.feed[order[p]]]
  <2>2. logServer.feed \in Seq(Entry)
    BY <1>1 DEF LogServer
  <2>3. \A p \in 1..Len(logServer.feed) : order[p] \in 1..Len(logServer.feed) /\ list[p] \in Entry
    BY <2>2
  <2>4. list \in Seq(Entry)
    <3>1. list \in [1..Len(logServer.feed) -> Entry] /\ Len(logServer.feed) \in Nat
      BY <2>2, <2>3
    <3> HIDE DEF list
    <3> QED
      BY <3>1, NumberedIsSeq
  <2> HIDE DEF list
  <2>5. logPanel' \in LogPanel /\ logServer' = logServer
    BY <1>1, <1>2, <2>1, <2>4 DEF Log!Refresh, LogPanel, list
  <2> QED
    BY <1>1, <2>5 DEF LogInv
<1>3. CASE Log!handleClearFilters
  <2> DEFINE shown == [logPanel EXCEPT !.category = Log!ALL, !.search = None, !.event = Log!ALL,
                                       !.mode = Log!ALL, !.worker = Log!ALL]
  <2>1. shown \in LogPanel /\ shown.clicks = logPanel.clicks
    BY <1>1 DEF LogPanel, Log!Categories, Log!modeOptions, Log!ALL
  <2>2. Log!Click(shown)
    BY <1>3 DEF Log!handleClearFilters
  <2> QED
    BY <2>1, <2>2, LogClicked
<1>4. CASE Log!toggleJourney
  <2>1. PICK i \in Log!displayedActivities :
          LET job == logPanel.activities[i].job
          IN Log!Click([logPanel EXCEPT !.expanded = (@ \ {job}) \cup ({job} \ @)])
    BY <1>4 DEF Log!toggleJourney
  <2> DEFINE job == logPanel.activities[i].job
             shown == [logPanel EXCEPT !.expanded = (@ \ {job}) \cup ({job} \ @)]
  <2>2. job \in Log!Job
    BY ListedAreEntries DEF Log!displayedActivities, Log!filteredActivities, Log!Job
  <2>3. shown \in LogPanel /\ shown.clicks = logPanel.clicks
    BY <1>1, <2>2 DEF LogPanel
  <2> QED
    BY <2>1, <2>3, LogClicked
<1>5. CASE Log!onClearActivity
  <2>0. /\ logServer' = [logServer EXCEPT !.feed = <<>>]
        /\ logPanel' = [logPanel EXCEPT !.activities = <<>>, !.clicks = logPanel.clicks + 1]
        /\ logPanel.clicks < LogClicks /\ <<>> \in Seq(Entry) /\ Len(<<>>) = 0
    BY <1>5 DEF Log!onClearActivity
  <2>1. logServer' \in LogServer /\ logServer'.feed = <<>>
    BY <1>1, <2>0 DEF LogServer
  <2>2. logPanel' \in LogPanel
    <3>1. logPanel.clicks + 1 \in 0..LogClicks
      BY <1>1, <2>0, LogBounds DEF LogPanel
    <3>2. PICK n \in 0..LogClicks, none \in Seq(Entry) :
            logPanel' = [logPanel EXCEPT !.activities = none, !.clicks = n]
      BY <2>0, <3>1
    <3> QED
      BY <1>1, <3>2 DEF LogPanel
  <2> QED
    BY <2>0, <2>1, <2>2, LogBounds DEF LogInv
<1>6. CASE UNCHANGED Log!vars
  BY <1>6 DEF Log!vars, LogInv
<1> QED
  BY <1>2, <1>3, <1>4, <1>5, <1>6, LogHears, LogFilters DEF Log!Next

LEMMA LogInvariant == Spec => []LogInv
<1>1. Init => LogInv
  BY PanelsAssumption, LogInit DEF Init
<1>2. LogInv /\ [Next]_vars => LogInv'
  <2>1. [Next]_vars => [Log!Next]_(Log!vars)
    BY DEF Next, OnStatus, OnFeed, OnLog, OnInspector, OnForm, vars, logVars, Log!vars
  <2> QED
    BY <2>1, PanelsAssumption, LogNext
<1> QED
  BY <1>1, <1>2, PTL DEF Spec

(* A list that filters have emptied always offers to clear them: a filter      *)
(* whose option the feed has dropped counts as active, so that without active  *)
(* filters every entry is selected (ActivityPanel.tsx hasActiveFilters).       *)
THEOREM NoDeadEnds == Spec => []EmptyMeansFiltered
<1>1. ASSUME LogInv, ~Log!hasActiveFilters, logPanel.activities # <<>>
      PROVE  Log!filteredActivities # {}
  <2>1. /\ logPanel.search = None /\ logPanel.event = Log!ALL /\ logPanel.mode = Log!ALL
        /\ logPanel.worker = Log!ALL /\ logPanel.category = Log!ALL
    BY <1>1 DEF Log!hasActiveFilters
  <2>2. Log!Selected(logPanel.activities[1])
    BY <2>1 DEF Log!Selected, Log!ALL
  <2>3. 1 \in DOMAIN logPanel.activities
    <3>1. logPanel.activities \in Seq(Entry)
      BY <1>1 DEF LogInv, LogPanel
    <3> QED
      BY <1>1, <3>1
  <2> QED
    BY <2>2, <2>3 DEF Log!filteredActivities
<1>2. LogInv => EmptyMeansFiltered
  BY <1>1 DEF EmptyMeansFiltered, Log!EmptyMeansFiltered, Log!Body, Log!FilterBar
<1> QED
  BY <1>2, LogInvariant, PTL

LEMMA LogTypesHold == LogInv => Log!TypeOK
BY DEF LogInv, LogServer, LogPanel, Log!TypeOK

-----------------------------------------------------------------------------
(* Every variable of the dashboard has its type: what the status bar shows is  *)
(* one of the combinations that the fallback to :8082 can make, an answer to   *)
(* one request of the feed is never taken for that of another, the log lists   *)
(* entries, and the ids of a burst stay in their range (demoApi.ts             *)
(* getServiceStatus, App.tsx refreshActivity, ActivityPanel.tsx,               *)
(* JobInspectorPanel.tsx, CoreFlowPublisher.tsx).                              *)
THEOREM TypeCorrect == Spec => []TypeOK
<1>1. StatusInv /\ FeedInv /\ LogInv /\ InspectorInv /\ Form!TypeOK => TypeOK
  BY StatusTypesHold, FeedTypesHold, LogTypesHold, InspectorTypesHold DEF TypeOK
<1> QED
  BY <1>1, StatusInvariant, FeedInvariant, LogInvariant, InspectorInvariant, FormTypes, PTL
=============================================================================

---------------------------- MODULE ActivityView -----------------------------
(* The activity log of the dashboard (ActivityPanel.tsx): categories, filters  *)
(* whose options come from the entries themselves, the cap, and the rows of    *)
(* its three tables, over a feed that grows, loses its oldest entries and is   *)
(* cleared. The search stands for every field that it looks at by the job id.  *)
EXTENDS Integers, Sequences, FiniteSets, SequencesExt

CONSTANTS
  Entry,       \* what can happen to a job: records of the fields below
  Caps,        \* the caps that the panel offers, besides 0 for none
  FeedCap,     \* entries that demo-control-service keeps
  MaxEvents,   \* bound: events that it hears of
  MaxClicks,   \* bound: what the user does
  None         \* null

LogAssumption == {FeedCap, MaxEvents, MaxClicks} \subseteq Nat

VARIABLES server, panel, flight
vars == <<server, panel, flight>>

\* An entry has at, the time of the day in seconds, job, a number in the order of the
\* ids, event, mode, worker (or None) and category, None when the service does not say.
Job == {e.job : e \in Entry}
ALL == "ALL"
Categories == {"ALL", "BUSINESS", "LIFECYCLE"}
lifecycleEvents == {"RECEIVED", "DELIVERED", "REQUEST_RECEIVED", "PROCESSING", "ACKED", "STORED",
                    "DEDUPLICATED", "NAK_WITH_DELAY", "ACK_TIMEOUT_SIMULATED", "DLQ_PUBLISHED",
                    "REPLAYED", "NO CONSUMER", "NO_ACTIVE_CONSUMER", "REQUEST_TIMEOUT"}

-----------------------------------------------------------------------------
(* What the panel derives from its entries and its state. *)

isLifecycleActivity(act) ==
  act.category = "LIFECYCLE" \/ (act.category = None /\ act.event \in lifecycleEvents)

isBusinessActivity(act) ==
  act.category = "BUSINESS" \/ (act.category = None /\ ~isLifecycleActivity(act))

businessCount == Cardinality({i \in DOMAIN panel.activities : isBusinessActivity(panel.activities[i])})
lifecycleCount == Len(panel.activities) - businessCount

\* The colour of an event.
getBadgeClass(event) ==
  CASE event \in {"PUBLISHED", "SUBMITTED", "REQUEST_SENT"} -> "badge-submitted"
    [] event \in {"RECEIVED", "DELIVERED", "REQUEST_RECEIVED"} -> "badge-delivered"
    [] event \in {"PROCESSING", "REPLY_SENT"} -> "badge-processing"
    [] event \in {"COMPLETED", "ACKED", "REPLY_RECEIVED"} -> "badge-completed"
    [] event \in {"FAILED", "NO CONSUMER", "NO_ACTIVE_CONSUMER", "REQUEST_TIMEOUT"} -> "badge-failed"
    [] event \in {"DLQ_PUBLISHED", "DLQ"} -> "badge-dlq"
    [] OTHER -> "other"

getJobTimeline(job) ==
  LET OfJob(a) == a.job = job /\ isLifecycleActivity(a)
  IN Reverse(SelectSeq(panel.activities, OfJob))

eventOptions == {ALL} \cup {a.event : a \in ToSet(panel.activities)}
workerOptions == {ALL} \cup ({a.worker : a \in ToSet(panel.activities)} \ {None})
modeOptions == {ALL, "CORE", "JETSTREAM"}

Selected(act) ==
  /\ panel.category = "BUSINESS" => isBusinessActivity(act)
  /\ panel.category = "LIFECYCLE" => ~isBusinessActivity(act)
  /\ panel.event \in {ALL, act.event}
  /\ panel.mode \in {ALL, act.mode}
  /\ panel.worker \in {ALL, act.worker}
  /\ panel.search = None \/ panel.search = act.job

\* The indices of what filter() and slice() leave of the entries, in the same order.
filteredActivities == {i \in DOMAIN panel.activities : Selected(panel.activities[i])}
displayedActivities ==
  {i \in filteredActivities :
     panel.cap = 0 \/ Cardinality({k \in filteredActivities : k <= i}) <= panel.cap}

\* Mutant of hasActiveFilters: an option that is gone does not count.
hasOfferedFilters ==
  \/ panel.search # None \/ panel.mode # ALL \/ panel.category # ALL
  \/ panel.event \in eventOptions \ {ALL}
  \/ panel.worker \in workerOptions \ {ALL}
hasActiveFilters ==
  panel.search # None \/ {panel.event, panel.mode, panel.worker, panel.category} # {ALL}

-----------------------------------------------------------------------------
(* What it shows. *)

Header == [events |-> Len(panel.activities), clear |-> panel.activities # <<>>]
Switcher == [all |-> Len(panel.activities), business |-> businessCount, lifecycle |-> lifecycleCount]
SearchBox == [clearable |-> panel.search # None]
FilterBar == [clear |-> hasActiveFilters,
              showing |-> Cardinality(displayedActivities),
              of |-> Cardinality(filteredActivities)]

\* The list, or what takes its place; the last one offers to clear the filters.
Body == IF panel.activities = <<>> THEN "nothing yet"
        ELSE IF filteredActivities = {} THEN "no match" ELSE "list"

\* The rows of the three tables. A business message unfolds into its journey.
BusinessRow(act) == [job |-> act.job, badge |-> getBadgeClass(act.event), mode |-> act.mode,
                     journey |-> IF act.job \in panel.expanded THEN getJobTimeline(act.job) ELSE <<>>]
LifecycleRow(act) == [job |-> act.job, badge |-> getBadgeClass(act.event), worker |-> act.worker]
AllRow(act) == [job |-> act.job, badge |-> getBadgeClass(act.event), mode |-> act.mode,
                worker |-> act.worker,
                tag |-> IF isBusinessActivity(act) THEN "NATS MSG" ELSE "TELEMETRY"]
Table ==
  LET Rows(Row(_)) == [i \in displayedActivities |-> Row(panel.activities[i])]
  IN CASE panel.category = "BUSINESS" -> Rows(BusinessRow)
       [] panel.category = "LIFECYCLE" -> Rows(LifecycleRow)
       [] OTHER -> Rows(AllRow)

-----------------------------------------------------------------------------
Init ==
  /\ server = [feed |-> <<>>, heard |-> 0]
  /\ panel = [activities |-> <<>>, category |-> ALL, search |-> None, event |-> ALL, mode |-> ALL,
              worker |-> ALL, cap |-> 0, expanded |-> {}, clicks |-> 0]
  /\ flight = None

getStatusWeight(status) ==
  CASE status \in {"SCHEDULED", "PUBLISHED", "STORED", "REQUEST_SENT", "DEDUPLICATED", "REPROCESSED"} -> 1
    [] status \in {"RECEIVED", "DELIVERED", "REQUEST_RECEIVED", "REDELIVERED"} -> 2
    [] status \in {"PROCESSING", "REPLY_SENT", "NAK_WITH_DELAY", "ACK_TIMEOUT_SIMULATED"} -> 3
    [] status \in {"COMPLETED", "FAILED", "ACKED", "NO CONSUMER", "REPLY_RECEIVED", "REQUEST_TIMEOUT",
                   "REPLAYED", "DLQ_PUBLISHED"} -> 4
    [] OTHER -> 0
Precedes(a, b) ==
  \/ a.at > b.at
  \/ a.at = b.at /\ a.job < b.job
  \/ a.at = b.at /\ a.job = b.job /\ getStatusWeight(a.event) > getStatusWeight(b.event)
\* The order of the answer of demo-control-service: where its places are in the feed,
\* whose first entry is the last that it heard of.
InOrder(order) ==
  \A p, q \in DOMAIN order : p < q =>
    LET a == server.feed[order[p]]
        b == server.feed[order[q]]
    IN Precedes(a, b) \/ (~Precedes(b, a) /\ order[p] < order[q])

\* demo-control-service hears of an event, and forgets its oldest one.
Hear == /\ server.heard < MaxEvents
        /\ \E e \in Entry :
             server' = [feed |-> SubSeq(<<e>> \o server.feed, 1,
                                  IF Len(server.feed) < FeedCap THEN Len(server.feed) + 1 ELSE FeedCap),
                        heard |-> server.heard + 1]
        /\ UNCHANGED <<panel, flight>>

\* The panel is given the feed, sorted by GetActivities.
Refresh == /\ \E order \in [DOMAIN server.feed -> DOMAIN server.feed] :
                /\ InOrder(order)
                /\ panel' = [panel EXCEPT !.activities =
                                [p \in DOMAIN server.feed |-> server.feed[order[p]]]]
           /\ UNCHANGED <<server, flight>>

Click(shown) == /\ panel.clicks < MaxClicks
                /\ panel' = [shown EXCEPT !.clicks = @ + 1]
                /\ UNCHANGED <<server, flight>>

setMessageCategory == \E c \in Categories : Click([panel EXCEPT !.category = c])
setSearchQuery == \E q \in Job \cup {None} : Click([panel EXCEPT !.search = q])
\* Only what the panel lists can be selected; it stays selected when it is gone.
setFilters == \/ \E e \in eventOptions : Click([panel EXCEPT !.event = e])
              \/ \E m \in modeOptions : Click([panel EXCEPT !.mode = m])
              \/ \E w \in workerOptions : Click([panel EXCEPT !.worker = w])
setEventLimit == \E n \in Caps \cup {0} : Click([panel EXCEPT !.cap = n])

\* The button is there while a filter is active; the one for no match always is.
handleClearFilters ==
  /\ hasActiveFilters \/ Body = "no match"
  /\ Click([panel EXCEPT !.category = ALL, !.search = None, !.event = ALL, !.mode = ALL, !.worker = ALL])

toggleJourney ==
  /\ panel.category = "BUSINESS"
  /\ \E i \in displayedActivities :
       LET job == panel.activities[i].job
       IN Click([panel EXCEPT !.expanded = (@ \ {job}) \cup ({job} \ @)])

onClearActivity == /\ Header.clear /\ panel.clicks < MaxClicks
                   /\ server' = [server EXCEPT !.feed = <<>>]
                   /\ panel' = [panel EXCEPT !.activities = <<>>, !.clicks = @ + 1]
                   /\ UNCHANGED flight

Next == \/ Hear \/ Refresh \/ setMessageCategory \/ setSearchQuery \/ setFilters \/ setEventLimit
        \/ handleClearFilters \/ toggleJourney \/ onClearActivity

\* The interval refreshes. Users and events are free.
Fairness == WF_vars(Refresh)

Spec == Init /\ [][Next]_vars /\ Fairness

-----------------------------------------------------------------------------
TypeOK ==
  /\ server.heard \in 0..MaxEvents /\ server.feed \in Seq(Entry) /\ Len(server.feed) <= FeedCap
  /\ panel.activities \in Seq(Entry) /\ panel.category \in Categories
  /\ panel.search \in Job \cup {None} /\ panel.mode \in modeOptions
  /\ panel.cap \in Caps \cup {0} /\ panel.expanded \subseteq Job /\ panel.clicks \in 0..MaxClicks

(* An empty list is never a dead end: when entries exist and none is shown, a  *)
(* filter counts as active, so that the panel offers to clear it, also when    *)
(* the feed has dropped the very option that is selected.                      *)
EmptyMeansFiltered == Body = "no match" => FilterBar.clear

(* Without filters the panel ends up with all entries of the feed, shows as    *)
(* many as the cap allows, and the cap never hides a later second of the day   *)
(* than one that it shows. Of two entries of one second it may hide the newer, *)
(* and after midnight it hides the newer ones.                                 *)
ShowsLatest ==
  ~hasActiveFilters =>
    LET listed == DOMAIN panel.activities
    IN /\ Len(panel.activities) = Len(server.feed) /\ ToSet(panel.activities) = ToSet(server.feed)
       /\ panel.cap = 0 \/ Len(server.feed) <= panel.cap => displayedActivities = listed
       /\ panel.cap # 0 /\ Len(server.feed) > panel.cap => Cardinality(displayedActivities) = panel.cap
       /\ \A i \in displayedActivities, k \in listed \ displayedActivities :
            panel.activities[i].at >= panel.activities[k].at

=============================================================================

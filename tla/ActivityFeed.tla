---------------------------- MODULE ActivityFeed -----------------------------
(* The activity feed of the dashboard: refreshActivity, refreshAddressing,     *)
(* handleClearActivity, handleJobSubmit and handleTriggerReplay of App.tsx,    *)
(* and the panel that switches between activities and addressing events.       *)
(* A submitted job is shown at once; the feed of demo-control-service, which   *)
(* hears of it later, replaces what is shown again and again.                  *)
EXTENDS Integers

CONSTANTS
  MaxClicks,   \* bound: commands the user gives
  MaxEvents,   \* bound: events that the control service hears of
  MaxOutages,  \* bound: times that the services become unreachable
  None         \* null

VARIABLES server, panel, flight
vars == <<server, panel, flight>>

\* An entry made by the dashboard itself is 0, one of the feed is its number.
Event == 1..MaxEvents
Local == 0
Refresher == {"poll", "refresh", "replay"}
Handler == Refresher \cup {"addressing", "clear", "submit"}
Silent(h) == h = "poll"
Waiting == [at: {"activity", "addressing", "delete", "post"}, call: {"sent", "answered", "failed"},
            value: (SUBSET Event) \cup (0..MaxEvents) \cup {None}]

\* The theorems hold for any number of clicks, events and outages: null is no request.
FeedAssumption == {MaxClicks, MaxEvents, MaxOutages} \subseteq Nat /\ None \notin Waiting

-----------------------------------------------------------------------------
(* What the panel shows. *)

ObsBadge == [activity |-> panel.activities, addressing |-> panel.subscriptions]
ShownView == [view |-> panel.obsView, open |-> panel.isExpanded]
RefreshButtons == [activity |-> ~panel.isRefreshingActivity, addressing |-> ~panel.isRefreshingAddressing]
SubmitButton == [enabled |-> ~panel.isSubmitting]

Init ==
  /\ server = [up |-> TRUE, heard |-> 0, feed |-> {}, outages |-> 0]
  /\ panel = [activities |-> {}, addressingEvents |-> 0, subscriptions |-> FALSE,
              error |-> FALSE, success |-> FALSE, isSubmitting |-> FALSE,
              isRefreshingActivity |-> FALSE, isRefreshingAddressing |-> FALSE,
              obsView |-> "activity", isExpanded |-> FALSE, clicks |-> 0]
  /\ flight = [h \in Handler |-> None]

Send(step) == [at |-> step, call |-> "sent", value |-> None]
Wait(h, step) == flight' = [flight EXCEPT ![h] = Send(step)]
End(h) == flight' = [flight EXCEPT ![h] = None]
Returns(h, step, how) == flight[h] # None /\ flight[h].at = step /\ flight[h].call = how

\* What a refresh of the activities or the addressing events does before its await.
Raised(h, shown) == [shown EXCEPT !.error = FALSE, !.isRefreshingActivity = @ \/ ~Silent(h)]
RaisedAddressing(h, shown) == [shown EXCEPT !.isRefreshingAddressing = @ \/ ~Silent(h)]

-----------------------------------------------------------------------------
(* The handlers, up to their first await. *)

\* refreshActivity from the interval, the Refresh button or a timer of a replay.
refreshActivity(h) == /\ flight[h] = None
                      /\ panel' = Raised(h, panel)
                      /\ Wait(h, "activity")
                      /\ UNCHANGED server

Tick == refreshActivity("poll")

Give(h, step, shown) == /\ panel.clicks < MaxClicks /\ flight[h] = None
                        /\ panel' = [shown EXCEPT !.clicks = @ + 1]
                        /\ Wait(h, step)
                        /\ UNCHANGED server

ClickRefresh == RefreshButtons.activity /\ Give("refresh", "activity", Raised("refresh", panel))
handleTriggerReplay == Give("replay", "activity", Raised("replay", panel))
refreshAddressing == /\ RefreshButtons.addressing
                     /\ Give("addressing", "addressing", RaisedAddressing("addressing", panel))
handleClearActivity == Give("clear", "delete", panel)
handleJobSubmit == /\ SubmitButton.enabled
                   /\ Give("submit", "post", [panel EXCEPT !.isSubmitting = TRUE, !.error = FALSE,
                                                           !.success = FALSE])

\* Choosing a view opens the panel; the other button opens and closes it.
setObsView(v) == /\ panel.clicks < MaxClicks /\ panel.obsView # v
                 /\ panel' = [panel EXCEPT !.obsView = v, !.isExpanded = TRUE, !.clicks = @ + 1]
                 /\ UNCHANGED <<server, flight>>
toggleExpanded == /\ panel.clicks < MaxClicks
                  /\ panel' = [panel EXCEPT !.isExpanded = ~@, !.clicks = @ + 1]
                  /\ UNCHANGED <<server, flight>>

\* The list of subscriptions is loaded once, and a failure is only logged.
loadSubscriptions == /\ ~panel.subscriptions /\ server.up
                     /\ panel' = [panel EXCEPT !.subscriptions = TRUE]
                     /\ UNCHANGED <<server, flight>>

\* An alert is closed, also by the user.
closeAlert == /\ panel.error \/ panel.success
              /\ panel' = [panel EXCEPT !.error = FALSE] \/ panel' = [panel EXCEPT !.success = FALSE]
              /\ UNCHANGED <<server, flight>>

-----------------------------------------------------------------------------
(* The services. *)

\* The control service hears of an event.
Hear == /\ server.heard < MaxEvents
        /\ server' = [server EXCEPT !.heard = @ + 1, !.feed = @ \cup {server.heard + 1}]
        /\ UNCHANGED <<panel, flight>>

\* GET /activities, GET /messaging/activity, DELETE /activities, POST /jobs.
Serve(h) ==
  /\ flight[h] # None /\ flight[h].call = "sent"
  /\ flight' = IF ~server.up THEN [flight EXCEPT ![h].call = "failed"]
               ELSE [flight EXCEPT ![h].call = "answered",
                       ![h].value = CASE flight[h].at = "activity" -> server.feed
                                      [] flight[h].at = "addressing" -> server.heard
                                      [] OTHER -> None]
  /\ server' = IF server.up /\ flight[h].at = "delete" THEN [server EXCEPT !.feed = {}] ELSE server
  /\ UNCHANGED panel

Outage == /\ server.up => server.outages < MaxOutages
          /\ server' = [server EXCEPT !.up = ~@, !.outages = IF server.up THEN @ + 1 ELSE @]
          /\ UNCHANGED <<panel, flight>>

-----------------------------------------------------------------------------
(* The handlers, from an await on. *)

LoweredActivity(h, shown) == [shown EXCEPT !.isRefreshingActivity = @ /\ Silent(h)]

\* Mutant of ActivityDone: the answer is merged into what is shown.
ActivityMerged(h) ==
  /\ Returns(h, "activity", "answered")
  /\ panel' = RaisedAddressing(h, [panel EXCEPT !.activities = @ \cup flight[h].value])
  /\ Wait(h, "addressing")
  /\ UNCHANGED server

\* The activities are replaced; the addressing events follow.
ActivityDone(h) == /\ Returns(h, "activity", "answered")
                   /\ panel' = RaisedAddressing(h, [panel EXCEPT !.activities = flight[h].value])
                   /\ Wait(h, "addressing")
                   /\ UNCHANGED server

\* A silent refresh fails in silence.
ActivityFailed(h) == /\ Returns(h, "activity", "failed")
                     /\ panel' = LoweredActivity(h, [panel EXCEPT !.error = @ \/ ~Silent(h)])
                     /\ End(h)
                     /\ UNCHANGED server

\* Mutant of AddressingDone: only success lowers the flags.
AddressingDoneOnly(h) ==
  /\ Returns(h, "addressing", "answered") \/ Returns(h, "addressing", "failed")
  /\ panel' = IF flight[h].call = "failed" THEN panel
              ELSE LoweredActivity(h, [panel EXCEPT !.addressingEvents = flight[h].value,
                                                    !.isRefreshingAddressing = @ /\ Silent(h)])
  /\ End(h)
  /\ UNCHANGED server

\* refreshAddressing comes back, and with it the refresh that it is part of.
AddressingDone(h) ==
  /\ Returns(h, "addressing", "answered") \/ Returns(h, "addressing", "failed")
  /\ LET shown == IF flight[h].call = "answered"
                  THEN [panel EXCEPT !.addressingEvents = flight[h].value]
                  ELSE [panel EXCEPT !.error = @ \/ ~Silent(h)]
         lowered == [shown EXCEPT !.isRefreshingAddressing = @ /\ Silent(h)]
     IN panel' = IF h \in Refresher THEN LoweredActivity(h, lowered) ELSE lowered
  /\ End(h)
  /\ UNCHANGED server

ClearDone == /\ Returns("clear", "delete", "answered") \/ Returns("clear", "delete", "failed")
             /\ panel' = IF flight["clear"].call = "answered" THEN [panel EXCEPT !.activities = {}]
                                                              ELSE [panel EXCEPT !.error = TRUE]
             /\ End("clear")
             /\ UNCHANGED server

\* A submitted job is put in front of what is shown.
SubmitDone == /\ Returns("submit", "post", "answered") \/ Returns("submit", "post", "failed")
              /\ panel' = IF flight["submit"].call = "answered"
                          THEN [panel EXCEPT !.success = TRUE, !.activities = @ \cup {Local},
                                             !.isSubmitting = FALSE]
                          ELSE [panel EXCEPT !.error = TRUE, !.isSubmitting = FALSE]
              /\ End("submit")
              /\ UNCHANGED server

Progress(h) == \/ Serve(h) \/ ActivityDone(h) \/ ActivityFailed(h) \/ AddressingDone(h)
               \/ h = "clear" /\ ClearDone
               \/ h = "submit" /\ SubmitDone

User == \/ ClickRefresh \/ handleTriggerReplay \/ refreshAddressing \/ handleClearActivity
        \/ handleJobSubmit \/ toggleExpanded \/ closeAlert
        \/ \E v \in {"activity", "addressing"} : setObsView(v)

Next == \/ Tick \/ User \/ loadSubscriptions \/ Hear \/ Outage
        \/ \E h \in Handler : Progress(h)

\* The interval fires and requests come back. Users, events and outages are free.
Fairness == WF_vars(Tick) /\ \A h \in Handler : WF_vars(Progress(h))

Spec == Init /\ [][Next]_vars /\ Fairness

-----------------------------------------------------------------------------
TypeOK ==
  /\ server.heard \in 0..MaxEvents /\ server.feed \subseteq Event /\ server.up \in BOOLEAN
  /\ panel.activities \subseteq Event \cup {Local} /\ panel.addressingEvents \in 0..MaxEvents
  /\ panel.obsView \in {"activity", "addressing"} /\ panel.clicks \in 0..MaxClicks
  /\ \A f \in {"subscriptions", "error", "success", "isSubmitting", "isRefreshingActivity",
               "isRefreshingAddressing", "isExpanded"} : panel[f] \in BOOLEAN

(* The buttons come back: while one says that something runs, something does,  *)
(* although a replay's timers and the button share one flag and each of them   *)
(* lowers it.                                                                  *)
BusyMeansInFlight ==
  /\ panel.isRefreshingActivity => \E h \in Refresher : ~Silent(h) /\ flight[h] # None
  /\ panel.isRefreshingAddressing => \E h \in Handler : ~Silent(h) /\ flight[h] # None
  /\ panel.isSubmitting <=> flight["submit"] # None

(* When the services stay reachable the dashboard ends up showing the feed:    *)
(* entries of its own, answers from before a clearing and refreshes that       *)
(* overtook each other do not stay.                                            *)
ShowsFeed == panel.activities = server.feed /\ panel.addressingEvents = server.heard

=============================================================================

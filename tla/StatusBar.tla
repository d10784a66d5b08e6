------------------------------ MODULE StatusBar ------------------------------
(* The platform status of the dashboard: refreshStatus, handleToggleProcessor  *)
(* and handleResetStream of App.tsx, the translation of GET /status with its   *)
(* fallback to :8082 in demoApi.ts, and the bar that shows it all.             *)
(* A refresh is a chain of awaited requests, several chains run at once.       *)
EXTENDS Naturals

CONSTANTS
  MaxClicks,   \* bound: commands the user gives
  MaxChanges,  \* bound: changes of NATS, of the processor and of the reachability of :8080
  None         \* null

VARIABLES
  server,      \* the services
  panel,       \* the state that the dashboard keeps
  flight       \* what each of its handlers waits for
vars == <<server, panel, flight>>

Commands == {"start", "stop", "recreate"}
Handler == {"poll", "refresh", "toggle", "reset"}
Processor == {"active", "stopped", "disconnected"}
Services == [nats: {"connected", "disconnected"}, processor: Processor, control: {"active"}]
               \cup {[nats |-> s, processor |-> s, control |-> "unknown"] : s \in {"unknown", "disconnected"}}

\* services before the first answer, and after a failure: the latter names no
\* demo-control-service.
DEFAULT_SERVICES == [nats |-> "unknown", processor |-> "unknown", control |-> "unknown"]
Unreachable == [nats |-> "disconnected", processor |-> "disconnected", control |-> "unknown"]

\* What GET /status tells, and what a handler waits for.
Answer == [services: {s \in Services : s.control = "active"}, jetstream: Nat \cup {None}]
Waiting == [at: Commands \cup {"status", "consumer", "dlq", "queue"},
            call: {"sent", "answered", "failed"}, value: Answer \cup {None}]

\* The theorems hold for any number of clicks and changes: null is none of the rest.
StatusAssumption == MaxClicks \in Nat /\ None \notin Answer /\ None \notin Waiting

-----------------------------------------------------------------------------
(* What the bar and the header show. *)

isProcessing == panel.services.processor = "active"
isNatsConnected == panel.services.nats = "connected"
isProcessorOnline == panel.services.processor \notin {"disconnected", "unknown"}
StatusRow == [nats |-> isNatsConnected, jetStream |-> isNatsConnected,
              control |-> panel.services.control = "active", processor |-> isProcessorOnline,
              processing |-> isProcessing]
ToggleButton == [enabled |-> isProcessorOnline, on |-> isProcessing]
RefreshButton == [enabled |-> ~panel.isRefreshingStatus]
\* The header counts a server that it has not heard of as connected.
natsConnected == panel.services.nats # "disconnected"
systemOk == ~panel.error /\ {panel.services.nats, panel.services.processor} \cap {"disconnected"} = {}

-----------------------------------------------------------------------------
Init ==
  /\ server = [control |-> TRUE, nats |-> TRUE, processor |-> "active", stream |-> 1, changes |-> 0]
  /\ panel = [services |-> DEFAULT_SERVICES, jetstreamInfo |-> None, consumer |-> FALSE,
              dlq |-> FALSE, queue |-> FALSE, isRefreshingStatus |-> FALSE,
              isResettingStream |-> FALSE, error |-> FALSE, success |-> FALSE, clicks |-> 0]
  /\ flight = [h \in Handler |-> None]

Wait(h, step) == flight' = [flight EXCEPT ![h] = [at |-> step, call |-> "sent", value |-> None]]

\* refreshStatus, up to its first await; the interval calls it silently.
Tick == /\ flight["poll"] = None
        /\ Wait("poll", "status")
        /\ UNCHANGED <<server, panel>>

Give(h, step, shown) == /\ panel.clicks < MaxClicks
                        /\ flight[h] = None
                        /\ Wait(h, step)
                        /\ panel' = [shown EXCEPT !.clicks = @ + 1, !.error = FALSE]
                        /\ UNCHANGED server

refreshStatus == /\ RefreshButton.enabled
                 /\ Give("refresh", "status", [panel EXCEPT !.isRefreshingStatus = TRUE])

\* The toggle asks for the opposite of what is shown.
handleToggleProcessor ==
  /\ ToggleButton.enabled
  /\ Give("toggle", IF ToggleButton.on THEN "stop" ELSE "start", [panel EXCEPT !.success = FALSE])

handleResetStream ==
  /\ ~panel.isResettingStream
  /\ Give("reset", "recreate", [panel EXCEPT !.isResettingStream = TRUE])

-----------------------------------------------------------------------------
(* The services. *)

\* GET /status of demo-control-service, which asks the processor through NATS ...
Reported == [services |-> [nats |-> IF server.nats THEN "connected" ELSE "disconnected",
                           processor |-> IF server.nats THEN server.processor ELSE "disconnected",
                           control |-> "active"],
             jetstream |-> IF server.nats THEN server.stream ELSE None]
\* ... so that the dashboard asks :8082 itself about one that is reported offline.
Direct(reported) == IF reported.services.processor # "disconnected" THEN reported
                    ELSE [reported EXCEPT !.services.processor = server.processor]

\* A request reaches its service and is answered, or fails.
Waits(h, step) == flight[h] # None /\ flight[h].at = step /\ flight[h].call = "sent"
Reply(h, ok, value) ==
  flight' = [flight EXCEPT ![h].call = IF ok THEN "answered" ELSE "failed", ![h].value = value]

ServeStatus(h) == /\ Waits(h, "status")
                  /\ Reply(h, server.control, IF server.control THEN Reported ELSE None)
                  /\ UNCHANGED <<server, panel>>

\* demo-control-service asks the processor to start or stop. A request of it that times
\* out and is carried out later is a failure here and a Change. job-service resets the
\* stream; it may be down at any time.
Able(h) == /\ server.nats
           /\ h = "toggle" => server.control /\ server.processor # "disconnected"

\* The first sequence number tells one stream from the next.
ServeCommand(h) ==
  /\ \E step \in Commands : Waits(h, step)
  /\ \E done \in {Able(h), Able(h) /\ h # "reset"} :
        /\ server' = IF ~done THEN server
                     ELSE IF h = "reset" THEN [server EXCEPT !.stream = @ + 1]
                     ELSE [server EXCEPT !.processor = IF flight[h].at = "start" THEN "active" ELSE "stopped"]
        /\ Reply(h, done, None)
  /\ UNCHANGED panel

\* Anybody: NATS or demo-control-service goes away or returns, the processor too.
Change == /\ \/ server.changes < MaxChanges
             \/ ~server.control
          /\ \/ server.control /\ \E p \in Processor \ {server.processor} :
                  server' = [server EXCEPT !.processor = p, !.changes = @ + 1]
             \/ server.control /\ server' = [server EXCEPT !.nats = ~@, !.changes = @ + 1]
             \/ server.control /\ server' = [server EXCEPT !.control = FALSE, !.changes = @ + 1]
             \/ ~server.control /\ server' = [server EXCEPT !.control = TRUE]
          /\ UNCHANGED <<panel, flight>>

-----------------------------------------------------------------------------
(* The handlers, from an await on. *)

Returns(h, step, how) == flight[h] # None /\ flight[h].at = step /\ flight[h].call = how
End(h) == flight' = [flight EXCEPT ![h] = None]
Lowered(h, shown) ==
  [shown EXCEPT !.isRefreshingStatus = @ /\ h # "refresh", !.isResettingStream = @ /\ h # "reset"]

\* getServiceStatus answers, with the fallback when it is needed.
StatusDone(h) ==
  /\ Returns(h, "status", "answered")
  /\ panel' = [panel EXCEPT !.services = Direct(flight[h].value).services,
                            !.jetstreamInfo = flight[h].value.jetstream]
  /\ Wait(h, "consumer")
  /\ UNCHANGED server

\* Mutant of StatusFailed: the chain waits for ever.
StatusFailedRetried(h) ==
  /\ Returns(h, "status", "failed")
  /\ flight' = [flight EXCEPT ![h].call = "retry"]
  /\ UNCHANGED <<server, panel>>

\* getServiceStatus fails: the services count as disconnected; consumerStatus stays.
StatusFailed(h) ==
  /\ Returns(h, "status", "failed")
  /\ panel' = Lowered(h, [panel EXCEPT !.services = Unreachable, !.jetstreamInfo = None,
                            !.dlq = FALSE, !.queue = FALSE, !.error = @ \/ h = "refresh"])
  /\ End(h)
  /\ UNCHANGED server

\* The three quiet requests behind it, one after the other; each may fail alone.
Quiet(h) ==
  /\ \E step \in {"consumer", "dlq", "queue"} :
       /\ Waits(h, step)
       /\ LET shown == [panel EXCEPT !.consumer = @ \/ (server.control /\ step = "consumer"),
                                     !.dlq = @ \/ (server.control /\ step = "dlq"),
                                     !.queue = @ \/ (server.control /\ step = "queue")]
          IN CASE step = "consumer" -> panel' = shown /\ Wait(h, "dlq")
               [] step = "dlq" -> panel' = shown /\ Wait(h, "queue")
               [] step = "queue" -> panel' = Lowered(h, shown) /\ End(h)
  /\ UNCHANGED server

\* A command is followed by a silent refresh; a failed one only by an alert.
CommandDone(h) == /\ \E step \in Commands : Returns(h, step, "answered")
                  /\ panel' = [panel EXCEPT !.success = TRUE]
                  /\ Wait(h, "status")
                  /\ UNCHANGED server
CommandFailed(h) == /\ \E step \in Commands : Returns(h, step, "failed")
                    /\ panel' = Lowered(h, [panel EXCEPT !.error = TRUE])
                    /\ End(h)
                    /\ UNCHANGED server

Progress(h) == \/ ServeStatus(h) \/ ServeCommand(h) \/ StatusDone(h) \/ StatusFailed(h)
               \/ Quiet(h) \/ CommandDone(h) \/ CommandFailed(h)

Next == \/ Tick \/ refreshStatus \/ handleToggleProcessor \/ handleResetStream \/ Change
        \/ \E h \in Handler : Progress(h)

\* The interval fires and requests come back. Users and the services are free.
Fairness == WF_vars(Tick) /\ \A h \in Handler : WF_vars(Progress(h))

Spec == Init /\ [][Next]_vars /\ Fairness

-----------------------------------------------------------------------------
TypeOK ==
  /\ server.control \in BOOLEAN /\ server.nats \in BOOLEAN /\ server.processor \in Processor
  /\ panel.services \in Services /\ panel.jetstreamInfo \in Nat \cup {None}
  /\ panel.clicks \in 0..MaxClicks
  /\ \A f \in {"consumer", "dlq", "queue", "isRefreshingStatus", "isResettingStream", "error", "success"} :
       panel[f] \in BOOLEAN
  /\ \A h \in Handler : flight[h] # None => flight[h].call \in {"sent", "answered", "failed"}

(* The buttons come back: a button that says that something runs does so only  *)
(* while it runs, on every path out of the chains of requests.                 *)
BusyMeansInFlight == /\ panel.isRefreshingStatus => flight["refresh"] # None
                     /\ panel.isResettingStream <=> flight["reset"] # None

(* When demo-control-service stays reachable the bar ends up showing NATS, the *)
(* processor and the stream as they are, also when NATS is down and only :8082 *)
(* knows about the processor, and whatever refreshes overtook each other.      *)
Truth == [Reported.services EXCEPT !.processor = server.processor]
ShowsTruth == panel.services = Truth /\ panel.jetstreamInfo = Reported.jetstream

=============================================================================

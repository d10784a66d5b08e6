----------------------------- MODULE ValidateJob -----------------------------
(* Validation by request and reply: the Request / Reply panel and the job form *)
(* of the dashboard, ValidateJob and RequestJobValidation of job-service with  *)
(* their timeout, and the handler of jobs.validate in processor-service, which *)
(* stays silent while processing is off and may answer too late.               *)
EXTENDS Integers

CONSTANTS
  MaxRequests,  \* bound: jobs that the user sends from either form
  MaxChanges,   \* bound: times that processing or job-service is switched
  None          \* null

VARIABLES
  server,       \* job-service, processor-service and the subject between them
  panel,        \* the state of the two forms and of App
  flight        \* what each form waits for
vars == <<server, panel, flight>>

\* A request is named by its number: the Request / Reply panel draws an id for every
\* one, at random among 900, taken as new. The job form keeps its id until a submit;
\* that it is an id of the panel's is left out.
Request == 1..MaxRequests
\* What a job looks like: complete, of an unknown type, without an id, not JSON.
Look == {"complete", "unknown-type", "no id", "not JSON"}
Form == {"request-reply", "job"}
Verdict == {"SUCCESS", "INVALID", "TIMEOUT"}
RR_EVENTS == {"REQUEST_SENT", "REQUEST_RECEIVED", "REPLY_SENT", "REPLY_RECEIVED", "REQUEST_TIMEOUT"}
Waiting == [at: {"sent", "submit", "asked", "answered"}, request: Request, look: Look,
            answer: Verdict \cup {"accepted", "failed", None}]

\* The theorems hold for any number of requests and changes: null is nothing else.
ValidateAssumption == {MaxRequests, MaxChanges} \subseteq Nat
                      /\ None \notin Request /\ None \notin Verdict /\ None \notin Waiting

-----------------------------------------------------------------------------
(* What the panels show. *)

timelineEvents == IF panel.lastJob = None THEN {} ELSE panel.activities[panel.lastJob]
SendButton == [enabled |-> ~panel.isSending]
FormButtons == [enabled |-> ~panel.isSubmitting /\ ~panel.isValidating]

Init ==
  /\ server = [up |-> TRUE, processing |-> TRUE, changes |-> 0, last |-> 0,
               events |-> [r \in Request |-> {}], inbox |-> {}, replies |-> {}]
  /\ panel = [activities |-> [r \in Request |-> {}],
              isSending |-> FALSE, jsonError |-> FALSE, result |-> None, lastJob |-> None,
              isSubmitting |-> FALSE, isValidating |-> FALSE, formError |-> FALSE,
              success |-> FALSE, error |-> FALSE]
  /\ flight = [f \in Form |-> None]

-----------------------------------------------------------------------------
(* The forms, up to their await. *)

Post(form, at, look) ==
  /\ server.last < MaxRequests
  /\ server' = [server EXCEPT !.last = @ + 1]
  /\ flight' = [flight EXCEPT ![form] = [at |-> at, request |-> server.last + 1, look |-> look,
                                         answer |-> None]]

\* handleSend: the previous result goes, and text that does not parse stops it there.
SendUnparsed == /\ SendButton.enabled
                /\ panel' = [panel EXCEPT !.jsonError = TRUE, !.result = None]
                /\ UNCHANGED <<server, flight>>
handleSend(look) ==
  /\ SendButton.enabled /\ look # "not JSON"
  /\ Post("request-reply", "sent", look)
  /\ panel' = [panel EXCEPT !.jsonError = FALSE, !.result = None, !.isSending = TRUE,
                            !.lastJob = server.last + 1]

\* handleValidate of the job form sends a blank id too; handleSubmit refuses it.
handleValidate(look) ==
  /\ FormButtons.enabled
  /\ IF look = "not JSON"
     THEN panel' = [panel EXCEPT !.formError = TRUE] /\ UNCHANGED <<server, flight>>
     ELSE /\ Post("job", "sent", look)
          /\ panel' = [panel EXCEPT !.formError = FALSE, !.isValidating = TRUE, !.error = FALSE,
                                    !.success = FALSE]
handleSubmit(look) ==
  /\ FormButtons.enabled
  /\ IF look \in {"not JSON", "no id"}
     THEN panel' = [panel EXCEPT !.formError = TRUE] /\ UNCHANGED <<server, flight>>
     ELSE /\ Post("job", "submit", look)
          /\ panel' = [panel EXCEPT !.formError = FALSE, !.isSubmitting = TRUE, !.error = FALSE,
                                    !.success = FALSE]

-----------------------------------------------------------------------------
(* job-service. *)

At(form, step) == flight[form] # None /\ flight[form].at = step
Answer(form, answer) == flight' = [flight EXCEPT ![form].at = "answered", ![form].answer = answer]
Heard(events, r, e) == [events EXCEPT ![r] = @ \cup {e}]

\* A request that job-service refuses fails, and one that loses its connection.
Refuse(form) ==
  /\ \/ At(form, "sent") /\ flight[form].look = "no id"
     \/ \E step \in {"sent", "asked", "submit"} : At(form, step) /\ ~server.up
  /\ Answer(form, "failed")
  /\ UNCHANGED <<server, panel>>

SubmitJob(form) == /\ At(form, "submit") /\ server.up
                   /\ Answer(form, "accepted")
                   /\ UNCHANGED <<server, panel>>

\* RequestJobValidation announces the request and sends it.
RequestJobValidation(form) ==
  /\ At(form, "sent") /\ server.up /\ flight[form].look # "no id"
  /\ LET r == flight[form].request
     IN server' = [server EXCEPT !.events = Heard(@, r, "REQUEST_SENT"),
                                 !.inbox = @ \cup {[request |-> r, look |-> flight[form].look]}]
  /\ flight' = [flight EXCEPT ![form].at = "asked"]
  /\ UNCHANGED panel

\* Two seconds have passed, or nobody listens. Another error of the request is
\* announced as a timeout too, but the form gets a failure.
RequestTimesOut(form) ==
  /\ At(form, "asked")
  /\ server' = [server EXCEPT !.events = Heard(@, flight[form].request, "REQUEST_TIMEOUT")]
  /\ \E answer \in {"TIMEOUT", "failed"} : Answer(form, answer)
  /\ UNCHANGED panel

\* Mutant of ReplyArrives: a reply to an earlier request is taken as well.
AnyReplyArrives(form) ==
  /\ At(form, "asked")
  /\ \E reply \in server.replies :
       /\ server' = [server EXCEPT !.events = Heard(@, flight[form].request, "REPLY_RECEIVED"),
                                   !.replies = @ \ {reply}]
       /\ Answer(form, reply.verdict)
  /\ UNCHANGED panel

\* The reply to the request, in its own inbox, arrives in time.
ReplyArrives(form) ==
  /\ At(form, "asked")
  /\ \E reply \in server.replies :
       /\ reply.request = flight[form].request
       /\ server' = [server EXCEPT !.events = Heard(@, reply.request, "REPLY_RECEIVED"),
                                   !.replies = @ \ {reply}]
       /\ Answer(form, reply.verdict)
  /\ UNCHANGED panel

-----------------------------------------------------------------------------
(* processor-service. *)

Validated(look) == IF look = "unknown-type" THEN "INVALID" ELSE "SUCCESS"

\* The handler of jobs.validate: while processing is off the request is dropped.
validationHandler ==
  /\ \E m \in server.inbox :
       server' = IF ~server.processing THEN [server EXCEPT !.inbox = @ \ {m}]
                 ELSE [server EXCEPT
                         !.inbox = @ \ {m},
                         !.events = Heard(Heard(@, m.request, "REQUEST_RECEIVED"), m.request, "REPLY_SENT"),
                         !.replies = @ \cup {[request |-> m.request, verdict |-> Validated(m.look)]}]
  /\ UNCHANGED <<panel, flight>>

\* Processing is switched, or job-service goes away or returns.
Change == /\ server.changes < MaxChanges
          /\ \/ server' = [server EXCEPT !.processing = ~@, !.changes = @ + 1]
             \/ server' = [server EXCEPT !.up = ~@, !.changes = @ + 1]
          /\ UNCHANGED <<panel, flight>>

-----------------------------------------------------------------------------
(* The forms, from their await on. *)

Done(form) == flight' = [flight EXCEPT ![form] = None]

\* Mutant of SendReturns: only an answer lowers the flag.
SendReturnsOnly ==
  /\ At("request-reply", "answered")
  /\ panel' = IF flight["request-reply"].answer = "failed" THEN [panel EXCEPT !.jsonError = TRUE]
              ELSE [panel EXCEPT !.isSending = FALSE, !.result = flight["request-reply"].answer,
                                 !.activities = server.events]
  /\ Done("request-reply")
  /\ UNCHANGED server

\* handleSend: the result is shown and the activities are refreshed.
SendReturns ==
  /\ At("request-reply", "answered")
  /\ LET answer == flight["request-reply"].answer
     IN panel' = IF answer = "failed" THEN [panel EXCEPT !.isSending = FALSE, !.jsonError = TRUE]
                 ELSE [panel EXCEPT !.isSending = FALSE, !.result = answer,
                                    !.activities = server.events]
  /\ Done("request-reply")
  /\ UNCHANGED server

\* handleJobValidate and handleJobSubmit of App, which rethrow to the form.
FormReturns ==
  /\ At("job", "answered")
  /\ LET answer == flight["job"].answer
     IN panel' = [panel EXCEPT !.isValidating = FALSE, !.isSubmitting = FALSE,
                               !.formError = answer = "failed",
                               !.success = answer \in {"SUCCESS", "accepted"},
                               !.error = answer \notin {"SUCCESS", "accepted"}]
  /\ Done("job")
  /\ UNCHANGED server

\* The interval brings the activities as they are.
Tick == panel' = [panel EXCEPT !.activities = server.events] /\ UNCHANGED <<server, flight>>

Progress(form) == \/ Refuse(form) \/ SubmitJob(form) \/ RequestJobValidation(form)
                  \/ RequestTimesOut(form) \/ ReplyArrives(form)
                  \/ form = "request-reply" /\ SendReturns
                  \/ form = "job" /\ FormReturns

Next == \/ SendUnparsed \/ validationHandler \/ Change \/ Tick
        \/ \E look \in Look : handleSend(look) \/ handleValidate(look) \/ handleSubmit(look)
        \/ \E form \in Form : Progress(form)

\* Requests end, at the latest by their timeout. The processor owes nothing.
Fairness == WF_vars(Tick) /\ \A form \in Form : WF_vars(Progress(form))

Spec == Init /\ [][Next]_vars /\ Fairness

-----------------------------------------------------------------------------
TypeOK ==
  /\ server.last \in 0..MaxRequests /\ server.changes \in 0..MaxChanges
  /\ \A r \in Request : server.events[r] \subseteq RR_EVENTS /\ panel.activities[r] \subseteq RR_EVENTS
  /\ panel.result \in Verdict \cup {None} /\ panel.lastJob \in Request \cup {None}
  /\ \A form \in Form : flight[form] # None =>
       /\ flight[form].at \in {"sent", "submit", "asked", "answered"}
       /\ flight[form].request \in Request /\ flight[form].look \in Look

(* The result on the screen is the outcome of the request that was sent last,  *)
(* whatever replies came too late: a verdict only after its reply was received *)
(* and no timeout announced, TIMEOUT only the other way round.                 *)
ResultIsOfLastRequest ==
  panel.result # None =>
    LET events == server.events[panel.lastJob]
    IN IF panel.result = "TIMEOUT"
       THEN "REQUEST_TIMEOUT" \in events /\ "REPLY_RECEIVED" \notin events
       ELSE {"REPLY_SENT", "REPLY_RECEIVED"} \subseteq events /\ "REQUEST_TIMEOUT" \notin events

(* The forms come back, and the timeline ends up as the services told it, with *)
(* the late answers of the processor after a timeout.                          *)
Settled == /\ SendButton.enabled /\ FormButtons.enabled
           /\ panel.lastJob # None => timelineEvents = server.events[panel.lastJob]

=============================================================================

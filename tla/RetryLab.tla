------------------------------ MODULE RetryLab -------------------------------
(* The lab for delayed and retried deliveries and the deduplication test bench *)
(* of the dashboard, with what they ask of job-service: submits that store a   *)
(* job in JOBS, and schedules kept by a timer of the process that only logs a  *)
(* failure. None of these forms sets msg_id, so the broker cannot recognize a  *)
(* job that is submitted again. Left out: ids that the user types.             *)
EXTENDS Integers, Sequences, SequencesExt

CONSTANTS
  MaxNo,      \* bound: largest id that the user gives a field
  MaxClicks,  \* bound: jobs that the user sends or schedules
  MaxFaults,  \* bound: restarts of job-service and failures of NATS
  None        \* null

VARIABLES
  server,     \* job-service and the stream
  panel,      \* the state of the forms and App's isSubmitting
  flight      \* what each form waits for
vars == <<server, panel, flight>>

\* The three cards of the lab, and the test bench.
Card == {"nak", "ackwait", "schedule", "dedup"}
Submits == Card \ {"schedule"}
Blank == 0
Id == 0..(MaxNo + MaxClicks)
Status == {"none", "done", "duplicate", "error"}
Waiting == [job: Card \X Id, again: BOOLEAN, call: {"sent", "answered", "failed"}]

\* The theorems hold for any bounds: a field starts with the id 1, null is no request.
LabAssumption == MaxNo \in Nat \ {0} /\ {MaxClicks, MaxFaults} \subseteq Nat /\ None \notin Waiting

-----------------------------------------------------------------------------
(* What the forms show. *)

CardButton(c) == [enabled |-> ~panel.busy[c] /\ ~panel.isSubmitting, busy |-> panel.busy[c]]
PublishButtons == [enabled |-> ~panel.isSubmitting]
Enabled(c) == IF c = "dedup" THEN PublishButtons.enabled ELSE CardButton(c).enabled

Init ==
  /\ server = [nats |-> TRUE, faults |-> 0, stream |-> <<>>, scheduled |-> {}]
  /\ panel = [id |-> [c \in Card |-> 1], busy |-> [c \in Card |-> FALSE],
              status |-> [c \in Card |-> "none"], isSubmitting |-> FALSE, accepted |-> {},
              drawn |-> [c \in Card |-> 1], clicks |-> 0]
  /\ flight = [c \in Card |-> None]

-----------------------------------------------------------------------------
(* The forms, up to their await. A blank id ends a handler at once. *)

Job(c, no) == <<c, no>>

Send(c, again) ==
  /\ panel.clicks < MaxClicks
  /\ Enabled(c) /\ panel.id[c] # Blank
  /\ flight' = [flight EXCEPT ![c] = [job |-> Job(c, panel.id[c]), again |-> again, call |-> "sent"]]
  /\ panel' = [panel EXCEPT !.busy[c] = c # "dedup", !.status[c] = "none", !.clicks = @ + 1,
                            !.isSubmitting = @ \/ c \in Submits]
  /\ UNCHANGED server

handleTriggerNak == Send("nak", FALSE)
handleTriggerAckWait == Send("ackwait", FALSE)
handleTriggerSchedule == Send("schedule", FALSE)
\* Publish (1st) and Publish Duplicate send the same job.
handlePublish(isDuplicateAttempt) == Send("dedup", isDuplicateAttempt)

handlePublishBlank == /\ Enabled("dedup") /\ panel.id["dedup"] = Blank
                      /\ panel' = [panel EXCEPT !.status["dedup"] = "error"]
                      /\ UNCHANGED <<server, flight>>

\* The user empties a field, or gives it an id that is not in use. The test bench
\* locks its field during a submit.
EditId(c) ==
  /\ c = "dedup" => PublishButtons.enabled
  /\ \/ panel' = [panel EXCEPT !.id[c] = Blank]
     \/ /\ panel.id[c] = Blank /\ panel.drawn[c] < MaxNo
        /\ panel' = [panel EXCEPT !.id[c] = panel.drawn[c] + 1, !.drawn[c] = @ + 1]
  /\ UNCHANGED <<server, flight>>

-----------------------------------------------------------------------------
(* job-service. *)

Reply(c, how) == flight' = [flight EXCEPT ![c].call = how]

\* POST /jobs: the job is stored, or NATS fails.
SubmitJob(c) ==
  /\ c \in Submits /\ flight[c] # None /\ flight[c].call = "sent"
  /\ IF server.nats
     THEN /\ server' = [server EXCEPT !.stream = Append(@, flight[c].job)]
          /\ Reply(c, "answered")
     ELSE Reply(c, "failed") /\ UNCHANGED server
  /\ UNCHANGED panel

\* POST /jobs/schedule: it needs no NATS, a timer keeps the job.
ScheduleJob ==
  /\ flight["schedule"] # None /\ flight["schedule"].call = "sent"
  /\ server' = [server EXCEPT !.scheduled = @ \cup {flight["schedule"].job}]
  /\ Reply("schedule", "answered")
  /\ UNCHANGED panel

\* A timer fires: the error of the submit goes nowhere.
TimerFires ==
  /\ \E job \in server.scheduled :
       server' = [server EXCEPT !.scheduled = @ \ {job},
                                !.stream = IF server.nats THEN Append(@, job) ELSE @]
  /\ UNCHANGED <<panel, flight>>

\* job-service restarts: requests fail, whatever came of them, and timers are lost.
Restart == /\ server.faults < MaxFaults
           /\ server' = [server EXCEPT !.faults = @ + 1, !.scheduled = {}]
           /\ flight' = [c \in Card |-> IF flight[c] = None THEN None
                                        ELSE [flight[c] EXCEPT !.call = "failed"]]
           /\ UNCHANGED panel
NatsFails == /\ server.nats /\ server.faults < MaxFaults
             /\ server' = [server EXCEPT !.faults = @ + 1, !.nats = FALSE]
             /\ UNCHANGED <<panel, flight>>
NatsReturns == /\ ~server.nats
               /\ server' = [server EXCEPT !.nats = TRUE]
               /\ UNCHANGED <<panel, flight>>

-----------------------------------------------------------------------------
(* The forms, from their await on. *)

Lowered(c, shown) == [shown EXCEPT !.busy[c] = FALSE, !.isSubmitting = @ /\ c \notin Submits]
End(c) == flight' = [flight EXCEPT ![c] = None]

\* Mutant of SendDone: the id stays.
SendDoneKeepingId(c) ==
  /\ flight[c] # None /\ flight[c].call = "answered"
  /\ panel' = Lowered(c, [panel EXCEPT
                !.status[c] = IF flight[c].again THEN "duplicate" ELSE "done",
                !.accepted = IF c = "schedule" THEN @ \cup {flight[c].job} ELSE @])
  /\ End(c)
  /\ UNCHANGED server

\* A success draws a new id for the card, at random among 900, taken as one that was
\* not used before; the test bench keeps its own, to be sent again.
SendDone(c) ==
  /\ flight[c] # None /\ flight[c].call = "answered"
  /\ panel' = Lowered(c, [panel EXCEPT
                !.status[c] = IF flight[c].again THEN "duplicate" ELSE "done",
                !.accepted = IF c = "schedule" THEN @ \cup {flight[c].job} ELSE @,
                !.id[c] = IF c = "dedup" THEN @ ELSE panel.drawn[c] + 1,
                !.drawn[c] = IF c = "dedup" THEN @ ELSE @ + 1])
  /\ End(c)
  /\ UNCHANGED server

\* A failure leaves the id in its field, so that the user can try again.
SendFailed(c) == /\ flight[c] # None /\ flight[c].call = "failed"
                 /\ panel' = Lowered(c, [panel EXCEPT !.status[c] = "error"])
                 /\ End(c)
                 /\ UNCHANGED server

Progress(c) == \/ SubmitJob(c) \/ SendDone(c) \/ SendFailed(c)
               \/ c = "schedule" /\ ScheduleJob

User == \/ handleTriggerNak \/ handleTriggerAckWait \/ handleTriggerSchedule
        \/ \E again \in BOOLEAN : handlePublish(again)
        \/ handlePublishBlank \/ \E c \in Card : EditId(c)

Next == User \/ TimerFires \/ Restart \/ NatsFails \/ NatsReturns \/ \E c \in Card : Progress(c)

\* Requests end, timers fire. Users and faults are free.
Fairness == WF_vars(TimerFires) /\ \A c \in Card : WF_vars(Progress(c))

Spec == Init /\ [][Next]_vars /\ Fairness

-----------------------------------------------------------------------------
TypeOK ==
  /\ server.nats \in BOOLEAN /\ server.faults \in 0..MaxFaults
  /\ server.stream \in Seq(Card \X Id) /\ server.scheduled \subseteq Card \X Id
  /\ \A c \in Card : /\ panel.id[c] \in Id /\ panel.drawn[c] \in Id
                     /\ panel.busy[c] \in BOOLEAN /\ panel.status[c] \in Status
  /\ panel.isSubmitting \in BOOLEAN /\ panel.clicks \in 0..MaxClicks

(* Without a fault, and as long as the random ids differ, a card of the lab    *)
(* never stores one id twice, although the broker would not notice.            *)
Copies(job) == {i \in 1..Len(server.stream) : server.stream[i] = job}
StoredOnceWithoutFaults ==
  server.faults = 0 =>
    \A i, k \in 1..Len(server.stream) :
      (server.stream[i] = server.stream[k] /\ server.stream[i][1] # "dedup") => i = k

(* What the lab reported as scheduled is published in the end, unless there    *)
(* was a fault: only the process remembers it, and only the log hears of a     *)
(* failed publish.                                                             *)
AcceptedAreStored == panel.accepted \subseteq ToSet(server.stream)

(* The cards and App's flag, which they share with the other forms, come back. *)
Free == ~panel.isSubmitting /\ \A c \in Card : ~panel.busy[c]

=============================================================================

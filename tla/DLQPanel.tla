------------------------------ MODULE DLQPanel -------------------------------
(* The dead letter panel of the dashboard (DLQPanel.tsx) on top of the queue   *)
(* it administers. The panel polls two endpoints every 3 s and after each      *)
(* command; its commands are single requests, but reprocessing runs inside     *)
(* its request for as long as the queue has messages.                          *)
EXTENDS DeadLetters

CONSTANTS
  Fetcher,      \* polls, refreshes and delayed fetches in flight at the same time
  MaxClicks,    \* bound: commands the user gives
  MaxOutages,   \* bound: times that demo-control-service is cut off
  NoStatus      \* dlqStatus before the first answer (null)

ASSUME PanelAssumption == /\ Fetcher \cap {"setup", "cleanup", "send", "reprocess", "purge"} = {}
                          /\ {MaxClicks, MaxOutages} \subseteq Nat

VARIABLES
  up, outages,  \* demo-control-service is reachable and connected; bounded: outages so far
  doomed,       \* <<job, attempts>> of failing jobs that the processor has not given up yet
  dlqStatus, dlqMessages,
  flag,         \* isSettingUp, isCleaningUp, isSubmitting, isReprocessing, isPurging
  isLoadingDLQ,
  clicks,       \* bounded: commands given so far
  call,         \* the command that each handler waits for
  fetch         \* the two requests that each handler waits for

link == <<up, outages>>
shown == <<dlqStatus, dlqMessages>>
form == <<flag, clicks>>
vars == <<queueVars, link, doomed, shown, form, isLoadingDLQ, call, fetch>>

Command == {"setup", "cleanup", "send", "reprocess", "purge"}
Handler == Command \cup Fetcher
None == [at |-> "none"]
Sent == [at |-> "sent"]
Failed == [at |-> "failed"]
Parts == {"status", "messages"}

-----------------------------------------------------------------------------
(* What the panel shows. *)

initialized == dlqStatus # NoStatus /\ dlqStatus.initialized
storedCount == IF dlqStatus = NoStatus THEN 0 ELSE dlqStatus.messages
pendingCount == IF dlqStatus = NoStatus THEN 0 ELSE dlqStatus.pending

\* The capability controls, the form, the operator's actions and the rows.
CapabilityControls == [ready |-> initialized,
                       setup |-> ~(flag["setup"] \/ initialized),
                       cleanup |-> ~flag["cleanup"] /\ initialized]
Resources == [stored |-> storedCount, alarming |-> storedCount > 0,
              pending |-> pendingCount, waiting |-> pendingCount > 0]
SimulationForm == [attempts |-> ~flag["send"], send |-> ~flag["send"]]
OperatorActions == [reprocess |-> ~flag["reprocess"] /\ storedCount # 0,
                    purge |-> ~flag["purge"] /\ storedCount # 0]
Rows == [letters |-> dlqMessages, reprocess |-> ~flag["reprocess"]]
RefreshButton == [enabled |-> ~isLoadingDLQ]

-----------------------------------------------------------------------------
(* The control service's answers. *)

GetDLQStatus ==
  IF up THEN [initialized |-> exists, messages |-> Cardinality(letters),
              pending |-> Cardinality(letters)]
        ELSE [initialized |-> FALSE, messages |-> 0, pending |-> 0]
GetDLQMessages == IF up THEN letters ELSE {}

\* One letter, from a job that failed among n jobs, of which f broker calls failed.
OneLetter(n, f) == \E j \in Job, a \in Attempt :
  /\ exists = TRUE /\ letters = {[seq |-> 1, job |-> j, attempt |-> a]} /\ lastSeq = 1
  /\ known = {<<j, a>>} /\ owed = {j} /\ failures = n
  /\ run = [r \in Run |-> Idle] /\ faults = f /\ cleanups = 0 /\ disturbed = FALSE

\* The panel is opened when there is no letter, or one. The bounds are those of two
\* kinds of behaviour: one command less than MaxClicks, while broker calls fail and
\* failing jobs of other panels may add letters; or MaxClicks commands on one letter.
PanelInit ==
  /\ \/ /\ QueueInit \/ OneLetter(1, 0)
        /\ clicks = MaxClicks - 1 /\ doomed \in SUBSET (Job \X Attempt)
     \/ OneLetter(MaxFailures, MaxFaults) /\ clicks = 0 /\ doomed = {}
  /\ up = TRUE /\ outages = 0
  /\ dlqStatus = NoStatus /\ dlqMessages = {}
  /\ flag = [c \in Command |-> FALSE] /\ isLoadingDLQ = FALSE
  /\ call = [c \in Command |-> None] /\ fetch = [h \in Handler |-> None]

-----------------------------------------------------------------------------
(* The handlers, up to their first await. *)

\* fetchDLQData sends both requests at once.
fetchDLQData(h) == /\ isLoadingDLQ' = TRUE
                   /\ fetch' = [fetch EXCEPT ![h] = [at |-> "sent", got |-> {}, status |-> NoStatus,
                                                      messages |-> {}]]

\* The interval, whatever else is in flight. The two timers that follow a failing
\* job bring fetches at other moments of the same kind ...
Tick == \E f \in Fetcher :
          /\ fetch[f] = None /\ fetchDLQData(f)
          /\ UNCHANGED <<queueVars, link, doomed, shown, form, call>>
\* ... and so does the Refresh button, while it is enabled.
ClickRefresh == RefreshButton.enabled /\ Tick

Give(c, request) == /\ clicks < MaxClicks
                    /\ clicks' = clicks + 1
                    /\ flag' = [flag EXCEPT ![c] = TRUE]
                    /\ call' = [call EXCEPT ![c] = request]
                    /\ UNCHANGED <<queueVars, link, doomed, shown, isLoadingDLQ, fetch>>

handleSetupPrerequisites == CapabilityControls.setup /\ Give("setup", Sent)
handleCleanupPrerequisites == CapabilityControls.cleanup /\ Give("cleanup", Sent)
handlePurge == OperatorActions.purge /\ Give("purge", Sent)

\* The job id is random, so that it may be one of an earlier job; the attempts
\* are what the user typed since the last job.
handleSendFailingJob ==
  /\ SimulationForm.attempts /\ SimulationForm.send
  /\ \E j \in Job, n \in Attempt : Give("send", [at |-> "sent", job |-> j, attempts |-> n])

handleReprocessAll ==
  OperatorActions.reprocess /\ Give("reprocess", [at |-> "sent", only |-> All])

\* The button in a row, as of the last fetch.
handleReprocessSingle ==
  /\ Rows.reprocess
  /\ \E m \in Rows.letters : Give("reprocess", [at |-> "sent", only |-> m.job])

-----------------------------------------------------------------------------
(* The services. *)

panel == <<link, shown, form, isLoadingDLQ, fetch>>
Answer(c, what) == call' = [call EXCEPT ![c] = what]
Done == [at |-> "done"]

\* Setup, cleanup and purge; the last two need the stream.
Serve(c) ==
  /\ up /\ call[c] = Sent
  /\ \/ c = "setup" /\ SetupDLQ /\ Answer(c, Done)
     \/ c = "cleanup" /\ CleanupDLQ /\ Answer(c, Done)
     \/ c = "purge" /\ PurgeDLQ /\ Answer(c, Done)
     \/ c \in {"cleanup", "purge"} /\ ~exists /\ Answer(c, Failed) /\ UNCHANGED queueVars
  /\ UNCHANGED <<doomed, panel>>

\* Reprocessing occupies its request until the run has finished.
ServeReprocess ==
  /\ up /\ call["reprocess"].at = "sent"
  /\ \/ \E r \in Run : /\ ReprocessDLQ(r, call["reprocess"].only)
                       /\ Answer("reprocess", [at |-> "running", run |-> r])
     \/ exists /\ letters = {} /\ Answer("reprocess", Done) /\ UNCHANGED queueVars
     \/ ~exists /\ Answer("reprocess", Failed) /\ UNCHANGED queueVars
  /\ UNCHANGED <<doomed, panel>>

Reprocessing(r) ==
  /\ RunStep(r)
  /\ IF call["reprocess"] = [at |-> "running", run |-> r] /\ run'[r] = Idle
     THEN Answer("reprocess", Done)
     ELSE UNCHANGED call
  /\ UNCHANGED <<doomed, panel>>

\* job-service takes the failing job ...
ServeSend == /\ call["send"].at = "sent"
             /\ doomed' = doomed \cup {<<call["send"].job, call["send"].attempts>>}
             /\ Answer("send", Done)
             /\ UNCHANGED <<queueVars, panel>>

\* ... and the processor gives it up after its attempts.
GiveUp == \E d \in doomed : /\ Capture(d[1], d[2])
                            /\ doomed' = doomed \ {d}
                            /\ UNCHANGED <<panel, call>>

\* The two GETs are served one by one, an outage of NATS with 200 as well.
ServeFetch(h, part) ==
  /\ fetch[h].at = "sent" /\ part \notin fetch[h].got
  /\ fetch' = [fetch EXCEPT ![h] =
       [@ EXCEPT !.got = @ \cup {part},
                 !.status = IF part = "status" THEN GetDLQStatus ELSE @,
                 !.messages = IF part = "messages" THEN GetDLQMessages ELSE @]]
  /\ UNCHANGED <<queueVars, doomed, link, shown, form, isLoadingDLQ, call>>

\* While the control service is cut off a request fails, and with it the wait for
\* a run that goes on. The submit goes to job-service, which refuses it, or loses
\* its answer to a job that it took, at any time.
LoseCall(c) == /\ up => c = "send"
               /\ call[c].at \in {"sent", "running", "done"}
               /\ Answer(c, Failed)
               /\ UNCHANGED <<queueVars, doomed, panel>>

LoseFetch(h) == /\ ~up
                /\ fetch[h].at = "sent" /\ fetch[h].got # Parts
                /\ fetch' = [fetch EXCEPT ![h] = Failed]
                /\ UNCHANGED <<queueVars, doomed, link, shown, form, isLoadingDLQ, call>>

CutOff == up /\ outages < MaxOutages /\ up' = FALSE /\ outages' = outages + 1
            /\ UNCHANGED <<queueVars, doomed, shown, form, isLoadingDLQ, call, fetch>>
ComeBack == ~up /\ up' = TRUE
            /\ UNCHANGED <<queueVars, doomed, outages, shown, form, isLoadingDLQ, call, fetch>>

-----------------------------------------------------------------------------
(* The handlers, from an await on. *)

Lower(h) == flag' = [c \in Command |-> flag[c] /\ c # h]

\* A command succeeded: the panel fetches at once and, only then, lowers the flag.
CommandDone(c) == /\ c # "send" /\ call[c].at = "done"
                  /\ fetchDLQData(c)
                  /\ Answer(c, None)
                  /\ UNCHANGED <<queueVars, link, doomed, shown, form>>

\* After a failing job the timers fetch.
SendDone == /\ call["send"].at = "done"
            /\ Lower("send") /\ Answer("send", None)
            /\ UNCHANGED <<queueVars, link, doomed, shown, clicks, isLoadingDLQ, fetch>>

\* A command failed: an alert, and nothing else.
CommandFailed(c) == /\ call[c].at = "failed"
                    /\ Lower(c) /\ Answer(c, None)
                    /\ UNCHANGED <<queueVars, link, doomed, shown, clicks,
                                   isLoadingDLQ, fetch>>

\* Both answers are there: they are shown together.
FetchDone(h) == /\ fetch[h].at = "sent" /\ fetch[h].got = Parts
                /\ dlqStatus' = fetch[h].status
                /\ dlqMessages' = fetch[h].messages
                /\ isLoadingDLQ' = FALSE
                /\ Lower(h)
                /\ fetch' = [fetch EXCEPT ![h] = None]
                /\ UNCHANGED <<queueVars, link, doomed, clicks, call>>

\* Mutant of FetchFailed: the flag stays up.
FetchFailedUncaught(h) == /\ fetch[h] = Failed
                          /\ isLoadingDLQ' = FALSE
                          /\ fetch' = [fetch EXCEPT ![h] = None]
                          /\ UNCHANGED <<queueVars, link, doomed, shown, form, call>>

\* One of them failed, and with it Promise.all: what is shown stays, and nobody is told.
FetchFailed(h) == /\ fetch[h] = Failed
                  /\ isLoadingDLQ' = FALSE
                  /\ Lower(h)
                  /\ fetch' = [fetch EXCEPT ![h] = None]
                  /\ UNCHANGED <<queueVars, link, doomed, shown, clicks, call>>

Resume(h) == \/ FetchDone(h) \/ FetchFailed(h)
             \/ h \in Command /\ (CommandDone(h) \/ CommandFailed(h))
             \/ h = "send" /\ SendDone

-----------------------------------------------------------------------------
User == \/ handleSetupPrerequisites \/ handleCleanupPrerequisites \/ handlePurge
        \/ handleSendFailingJob \/ handleReprocessAll \/ handleReprocessSingle
        \/ ClickRefresh

\* A handler gets on: its requests are served or lost, and its awaits end.
Progress(h) == \/ Resume(h) \/ LoseFetch(h) \/ \E part \in Parts : ServeFetch(h, part)
               \/ h \in Command /\ (LoseCall(h) \/ Serve(h))
               \/ h = "reprocess" /\ ServeReprocess
               \/ h = "send" /\ ServeSend

PanelNext == \/ User \/ Tick \/ GiveUp \/ CutOff \/ ComeBack
             \/ \E r \in Run : Reprocessing(r)
             \/ \E h \in Handler : Progress(h)

\* The interval fires, requests are answered, runs get on and promises are
\* resumed. The user, the processor and outages are free.
Fairness == /\ WF_vars(Tick)
            /\ \A r \in Run : WF_vars(Reprocessing(r))
            /\ \A h \in Handler : WF_vars(Progress(h))

PanelSpec == PanelInit /\ [][PanelNext]_vars /\ Fairness

-----------------------------------------------------------------------------
(* Once the user gives no more commands the panel settles: every button is     *)
(* enabled again, however long a reprocessing run is, whichever of its broker  *)
(* calls fail, and whether the request of a command (the submit of a failing   *)
(* job included) is answered, refused or lost; and with the control service    *)
(* connected the panel shows the dead letter queue as it is: answers of        *)
(* overlapping fetches that come in the wrong order, and the empty answers of  *)
(* an outage, do not stay.                                                     *)
ShowsQueue == dlqStatus = GetDLQStatus /\ dlqMessages = letters
PanelSettles == <>[]((\A c \in Command : ~flag[c]) /\ (up => ShowsQueue))

=============================================================================

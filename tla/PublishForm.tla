---------------------------- MODULE PublishForm -----------------------------
(* The publish form of the dashboard (CoreFlowPublisher.tsx) on top of the    *)
(* App's handleJobSubmit: single sends with an auto-incremented job id,       *)
(* bursts of jobs, and the log of receipts. The form is unmounted when the    *)
(* user changes the view; what it was sending goes on without it.             *)
(* Left out: fields that travel with the job and decide nothing (type,        *)
(* source, content type, custom headers).                                     *)
EXTENDS Integers, Sequences, SequencesExt

CONSTANTS
  MaxNo,        \* bound: largest numeric suffix of an id
  BatchSizes,   \* the sizes that have a burst button
  LogCap,       \* receipts that the log keeps (8 in the code)
  MaxClicks, MaxEdits, MaxOutages, MaxSwitches  \* bounds on what users and network do

VARIABLES
  stored,             \* what the JOBS stream has stored, in that order; what a reset removed stays in
  forgotten,          \* the first so many of them no longer count as duplicates
  up, outages,        \* job-service can be reached; bounded: outages
  isSubmitting,       \* state of App: a submit is under way
  mounted,            \* the form is on the screen
  jobId, natsMsgId,   \* numeric suffixes in the two fields, Blank when empty
  payloadOk,          \* the payload field holds JSON
  jsonError,          \* the error under the form
  publishedHistory,   \* receipts, newest first
  isBatchPublishing,
  thread,             \* the handlers in progress
  clicks, edits, switches  \* bounded

\* The theorems hold for any bounds and burst sizes under these conditions.
FormAssumption ==
  /\ {MaxNo, LogCap, MaxClicks, MaxEdits, MaxOutages, MaxSwitches} \subseteq Nat /\ MaxNo > 0
  /\ BatchSizes \subseteq 1..(MaxNo + 1)

net == <<stored, forgotten, up, outages>>
fields == <<jobId, natsMsgId, payloadOk>>
form == <<mounted, fields, jsonError, publishedHistory, isBatchPublishing>>
bounds == <<clicks, edits, switches>>
vars == <<net, isSubmitting, form, thread, bounds>>

Blank == 0
\* A name without a number at its end.
Named == MaxNo + 1
Field == 0..(MaxNo + 1)

\* A job of a burst carries the number of the burst, a single one 0. A message
\* id is built like a job id; a single job may have none.
Id == (0..MaxClicks) \X Field
NoMsgId == <<0, Blank>>
Job == [id: Id, msgId: Id]

\* The handlers: a send and a burst of the mounted form, and one of a form that is gone.
Thread == {"send", "batch", "old"}
NoJob == [id |-> NoMsgId, msgId |-> NoMsgId]
Rest == [at |-> "idle", kind |-> "send", job |-> NoJob, size |-> 0]

-----------------------------------------------------------------------------
\* Mutant of SendButton: it looks only at a burst.
SendButtonLit == [disabled |-> isBatchPublishing, busy |-> isSubmitting]

\* Publish, Batch (3) and Batch (6).
SendButton == [disabled |-> isSubmitting \/ isBatchPublishing, busy |-> isSubmitting]
BatchButton == [disabled |-> isSubmitting \/ isBatchPublishing, busy |-> isBatchPublishing]

Fresh == /\ jobId' \in 1..MaxNo /\ natsMsgId' = Blank /\ payloadOk' = TRUE
         /\ jsonError' = "none" /\ publishedHistory' = <<>> /\ isBatchPublishing' = FALSE

Init == /\ stored = <<>> /\ forgotten = 0 /\ up = TRUE /\ outages = 0
        /\ isSubmitting = FALSE /\ mounted = TRUE
        /\ jobId = 1 /\ natsMsgId = Blank /\ payloadOk = TRUE
        /\ jsonError = "none" /\ publishedHistory = <<>> /\ isBatchPublishing = FALSE
        /\ thread = [t \in Thread |-> Rest]
        /\ clicks = 0 /\ edits = 0 /\ switches = 0

\* handleJobSubmit of App, up to its await: submitJob posts the job.
handleJobSubmit(t, kind, job, size) ==
  /\ isSubmitting' = TRUE
  /\ thread' = [thread EXCEPT ![t] = [at |-> "sent", kind |-> kind, job |-> job, size |-> size]]

Click == mounted /\ clicks < MaxClicks /\ clicks' = clicks + 1 /\ UNCHANGED <<edits, switches>>

\* handleSend: an empty job id and a broken payload stop it.
SendRejected ==
  /\ Click /\ ~SendButton.disabled
  /\ jobId = Blank \/ ~payloadOk
  /\ jsonError' = IF jobId = Blank THEN "job_id is required" ELSE "Invalid JSON"
  /\ UNCHANGED <<net, isSubmitting, mounted, fields, publishedHistory, isBatchPublishing, thread>>

handleSend ==
  /\ Click /\ ~SendButton.disabled
  /\ jobId # Blank /\ payloadOk
  /\ MaxNo \notin {jobId, natsMsgId}     \* bound: the next numbers exist
  /\ jsonError' = "none"
  /\ handleJobSubmit("send", "send", [id |-> <<0, jobId>>, msgId |-> <<0, natsMsgId>>], 1)
  /\ UNCHANGED <<net, mounted, fields, publishedHistory, isBatchPublishing>>

\* handleBatchPublish draws a base for the ids of the burst and posts its jobs one by one.
BatchJob(base, i) == [id |-> <<base, i>>, msgId |-> <<base, i>>]

BatchRejected == /\ Click /\ ~BatchButton.disabled
                 /\ ~payloadOk
                 /\ jsonError' = "Batch publish failed"
                 /\ UNCHANGED <<net, isSubmitting, mounted, fields, publishedHistory,
                                isBatchPublishing, thread>>

handleBatchPublish(n) ==
  /\ Click /\ ~BatchButton.disabled
  /\ payloadOk
  /\ jsonError' = "none" /\ isBatchPublishing' = TRUE
  /\ handleJobSubmit("batch", "batch", BatchJob(clicks', 1), n)
  /\ UNCHANGED <<net, mounted, fields, publishedHistory>>

-----------------------------------------------------------------------------
(* The fields stay editable while a job is under way. *)

Edit == /\ mounted /\ edits < MaxEdits /\ edits' = edits + 1
        /\ UNCHANGED <<clicks, switches, net, isSubmitting, mounted, publishedHistory,
                       isBatchPublishing, thread>>

\* Typing an id, or regenJobId.
EditJobId == Edit /\ jobId' \in Field /\ UNCHANGED <<natsMsgId, payloadOk, jsonError>>
\* Typing one, or regenNatsMsgId.
EditMsgId == Edit /\ natsMsgId' \in Field /\ UNCHANGED <<jobId, payloadOk, jsonError>>
EditPayload == Edit /\ payloadOk' \in BOOLEAN /\ UNCHANGED <<jobId, natsMsgId, jsonError>>
formatPayloadJson == Edit /\ jsonError' = (IF payloadOk THEN "none" ELSE "Invalid JSON")
                          /\ UNCHANGED fields
resetToDefaultPayload == Edit /\ payloadOk' = TRUE /\ jsonError' = "none"
                              /\ UNCHANGED <<jobId, natsMsgId>>

\* The other view: the form and its state are gone, its handler is not.
Leave == /\ mounted /\ switches < MaxSwitches
         /\ switches' = switches + 1
         /\ mounted' = FALSE
         /\ LET active == {t \in {"send", "batch"} : thread[t] # Rest}
            IN  IF active = {} THEN UNCHANGED thread
                ELSE \E t \in active : /\ thread["old"] = Rest
                                       /\ thread' = [thread EXCEPT ![t] = Rest, !["old"] = thread[t]]
         /\ UNCHANGED <<net, isSubmitting, fields, jsonError, publishedHistory,
                        isBatchPublishing, clicks, edits>>
Return == /\ ~mounted /\ mounted' = TRUE
          /\ Fresh
          /\ UNCHANGED <<net, isSubmitting, thread, bounds>>

-----------------------------------------------------------------------------
(* job-service and the broker: the stream drops a message id that it knows. *)

Remembered == (forgotten + 1)..Len(stored)
Known(msgId) == msgId # NoMsgId /\ \E i \in Remembered : stored[i].msgId = msgId

\* The duplicate window (2 minutes) passes over the oldest ids, or a reset of the
\* stream drops all of them.
Forget == /\ forgotten' \in Remembered
          /\ UNCHANGED <<stored, up, outages, isSubmitting, form, thread, bounds>>

Store(job) == stored' = IF Known(job.msgId) THEN stored ELSE Append(stored, job)

Serve(t) == /\ up /\ thread[t].at = "sent"
            /\ Store(thread[t].job)
            /\ thread' = [thread EXCEPT ![t].at = "answered"]
            /\ UNCHANGED <<forgotten, up, outages, isSubmitting, form, bounds>>

\* During an outage the request or its answer is lost: the submit fails, the job
\* may be stored.
Lose(t) == /\ ~up /\ thread[t].at \in {"sent", "answered"}
           /\ thread' = [thread EXCEPT ![t].at = "failed"]
           /\ UNCHANGED <<net, isSubmitting, form, bounds>>

GoDown == up /\ outages < MaxOutages /\ up' = FALSE /\ outages' = outages + 1
            /\ UNCHANGED <<stored, forgotten, isSubmitting, form, thread, bounds>>
ComeBack == /\ ~up /\ up' = TRUE
            /\ UNCHANGED <<stored, forgotten, outages, isSubmitting, form, thread, bounds>>

-----------------------------------------------------------------------------
(* The handlers, from their await on. *)

Log(job) == publishedHistory' = SubSeq(<<job>> \o publishedHistory, 1,
                                       IF Len(publishedHistory) < LogCap THEN Len(publishedHistory) + 1
                                       ELSE LogCap)

\* The id that follows one: a random number takes the place of a name.
Following(no) == IF no = Named THEN 1..MaxNo ELSE {no + 1}

\* A send has succeeded: the fields move on from the ids that it sent, and
\* whatever was typed meanwhile is overwritten.
AfterSend(job) ==
  /\ jobId' \in Following(job.id[2])
  /\ IF job.msgId = NoMsgId THEN UNCHANGED natsMsgId
     ELSE IF job.id[2] = Named THEN natsMsgId' = jobId'
     ELSE IF job.msgId[2] = Named THEN natsMsgId' = jobId'
     ELSE natsMsgId' \in Following(job.msgId[2])

SendDone ==
  /\ thread["send"].at = "answered"
  /\ Log(thread["send"].job)
  /\ AfterSend(thread["send"].job)
  /\ isSubmitting' = FALSE
  /\ thread' = [thread EXCEPT !["send"] = Rest]
  /\ UNCHANGED <<net, mounted, payloadOk, jsonError, isBatchPublishing, bounds>>

\* The next job of a burst, or its end.
BatchDone ==
  /\ thread["batch"].at = "answered"
  /\ LET now == thread["batch"] IN
     /\ Log(now.job)
     /\ IF now.job.id[2] < now.size
        THEN /\ handleJobSubmit("batch", "batch", BatchJob(now.job.id[1], now.job.id[2] + 1), now.size)
             /\ UNCHANGED isBatchPublishing
        ELSE /\ isSubmitting' = FALSE /\ isBatchPublishing' = FALSE
             /\ thread' = [thread EXCEPT !["batch"] = Rest]
  /\ UNCHANGED <<net, mounted, fields, jsonError, bounds>>

\* Mutants of Failure: the burst goes on with its next job; the job is logged; the
\* message id moves on.
FailureSkipping(t) ==
  /\ t # "old" /\ thread[t].at = "failed"
  /\ LET now == thread[t] IN
     IF now.job.id[2] < now.size
     THEN /\ handleJobSubmit(t, "batch", BatchJob(now.job.id[1], now.job.id[2] + 1), now.size)
          /\ UNCHANGED isBatchPublishing
     ELSE /\ isSubmitting' = FALSE /\ isBatchPublishing' = FALSE
          /\ thread' = [thread EXCEPT ![t] = Rest]
  /\ jsonError' = "Publish failed"
  /\ UNCHANGED <<net, mounted, fields, publishedHistory, bounds>>
FailureWith(t, msgId, logged) ==
  /\ t # "old" /\ thread[t].at = "failed"
  /\ isSubmitting' = FALSE /\ jsonError' = "Publish failed"
  /\ isBatchPublishing' = IF t = "batch" THEN FALSE ELSE isBatchPublishing
  /\ IF logged THEN Log(thread[t].job) ELSE UNCHANGED publishedHistory
  /\ natsMsgId' \in msgId
  /\ thread' = [thread EXCEPT ![t] = Rest]
  /\ UNCHANGED <<net, mounted, jobId, payloadOk, bounds>>
FailureLogged(t) == FailureWith(t, {natsMsgId}, TRUE)
FailureAdvancing(t) == FailureWith(t, Following(thread[t].job.msgId[2]), FALSE)

\* handleJobSubmit rethrows: the handler ends with an error under the form.
Failure(t) ==
  /\ t # "old" /\ thread[t].at = "failed"
  /\ isSubmitting' = FALSE
  /\ jsonError' = "Publish failed"
  /\ isBatchPublishing' = IF t = "batch" THEN FALSE ELSE isBatchPublishing
  /\ thread' = [thread EXCEPT ![t] = Rest]
  /\ UNCHANGED <<net, mounted, fields, publishedHistory, bounds>>

\* The handler of a form that is gone: only App's state and the burst go on.
OldResumes ==
  /\ LET now == thread["old"] IN
     /\ now.at \in {"answered", "failed"}
     /\ IF now.at = "answered" /\ now.kind = "batch" /\ now.job.id[2] < now.size
        THEN handleJobSubmit("old", "batch", BatchJob(now.job.id[1], now.job.id[2] + 1), now.size)
        ELSE isSubmitting' = FALSE /\ thread' = [thread EXCEPT !["old"] = Rest]
  /\ UNCHANGED <<net, form, bounds>>

Resume == SendDone \/ BatchDone \/ OldResumes \/ \E t \in Thread : Failure(t)

-----------------------------------------------------------------------------
User == \/ handleSend \/ SendRejected \/ BatchRejected
        \/ \E n \in BatchSizes : handleBatchPublish(n)
        \/ EditJobId \/ EditMsgId \/ EditPayload \/ formatPayloadJson \/ resetToDefaultPayload
        \/ Leave \/ Return

Next == \/ User \/ Forget \/ GoDown \/ ComeBack \/ Resume
        \/ \E t \in Thread : Serve(t) \/ Lose(t)

\* Requests end and promises are resumed.
Fairness == WF_vars(Resume) /\ \A t \in Thread : WF_vars(Serve(t) \/ Lose(t))

Spec == Init /\ [][Next]_vars /\ Fairness

-----------------------------------------------------------------------------
TypeOK ==
  /\ stored \in Seq(Job) /\ forgotten \in 0..Len(stored) /\ up \in BOOLEAN /\ outages \in 0..MaxOutages
  /\ {isSubmitting, mounted, payloadOk, isBatchPublishing} \subseteq BOOLEAN
  /\ jobId \in Field /\ natsMsgId \in Field
  /\ jsonError \in {"none", "job_id is required", "Invalid JSON", "Batch publish failed", "Publish failed"}
  /\ publishedHistory \in Seq(Job) /\ Len(publishedHistory) <= LogCap
  /\ thread \in [Thread -> [at: {"idle", "sent", "answered", "failed"}, kind: {"send", "batch"},
                            job: Job, size: {0, 1} \cup BatchSizes]]
  /\ clicks \in 0..MaxClicks /\ edits \in 0..MaxEdits /\ switches \in 0..MaxSwitches

(* Submits never overlap, and App's flag is up exactly while one is under way, *)
(* also when a burst outlives the form that started it.                        *)
InFlight == {t \in Thread : thread[t].at # "idle"}
OneSubmitAtATime == /\ \A s, t \in InFlight : s = t
                    /\ isSubmitting <=> InFlight # {}

(* A receipt marked [OK] is for a job that the stream stored, or for one that  *)
(* it dropped as a duplicate of a job it had stored: a publish that failed     *)
(* never shows as published. (A reset later removes the job; the receipt stays.) *)
ReceiptsAreStored ==
  \A r \in ToSet(publishedHistory) :
    \E i \in 1..Len(stored) :
      stored[i] = r \/ (r.msgId # NoMsgId /\ stored[i].msgId = r.msgId)

(* The jobs of a burst reach the stream in their order and without a hole,     *)
(* wherever the burst stops.                                                   *)
BurstInOrder ==
  \A i \in 1..Len(stored) :
    (stored[i].id[1] > 0 /\ stored[i].id[2] > 1)
      => \E k \in 1..(i - 1) : stored[k].id = <<stored[i].id[1], stored[i].id[2] - 1>>

(* Within the duplicate window and between resets, a job sent with a message   *)
(* id is stored once although the answer was lost and the user published it    *)
(* again: the ids of the form move on after a success only. A retry after the  *)
(* window is stored again. (It takes two edits to give the same job another    *)
(* message id.)                                                                *)
RetryIsSuppressed ==
  \A i, k \in Remembered :
    (stored[i].id = stored[k].id /\ stored[i].msgId # NoMsgId /\ stored[k].msgId # NoMsgId)
      => i = k \/ edits >= 2

(* The form does not stay busy: every submit and burst ends.                   *)
Free == ~isSubmitting /\ (mounted => ~isBatchPublishing)

=============================================================================

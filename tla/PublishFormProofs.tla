-------------------------- MODULE PublishFormProofs --------------------------
(***************************************************************************)
(* Theorems of PublishForm, for any burst sizes, any length of the log and *)
(* any number of clicks, edits, outages and changes of the view.           *)
(***************************************************************************)
EXTENDS MCDashboard, Integers, Sequences, TLAPS

-----------------------------------------------------------------------------
(* Types.                                                                  *)

Call == [at: {"idle", "sent", "answered", "failed"}, kind: {"send", "batch"},
         job: Form!Job, size: {0, 1} \cup BatchSizes]

\* TypeOK in parts: the Booleans, the numbers, and the jobs.
FlagsFit == /\ up \in BOOLEAN /\ isSubmitting \in BOOLEAN /\ mounted \in BOOLEAN
            /\ payloadOk \in BOOLEAN /\ isBatchPublishing \in BOOLEAN
ErrorFits == jsonError \in {"none", "job_id is required", "Invalid JSON",
                            "Batch publish failed", "Publish failed"}
NumbersFit == /\ outages \in 0..MaxOutages /\ clicks \in 0..FormClicks
              /\ edits \in 0..MaxEdits /\ switches \in 0..MaxSwitches
FieldsFit == jobId \in Form!Field /\ natsMsgId \in Form!Field
StreamFits == stored \in Seq(Form!Job) /\ forgotten \in 0..Len(stored)
LogFits == publishedHistory \in Seq(Form!Job) /\ Len(publishedHistory) <= LogCap
CallsFit == thread \in [Form!Thread -> Call]

LEMMA Bounds ==
  ASSUME Form!FormAssumption
  PROVE  /\ MaxNo \in Nat \ {0} /\ LogCap \in Nat /\ FormClicks \in Nat
         /\ MaxEdits \in Nat /\ MaxOutages \in Nat /\ MaxSwitches \in Nat
         /\ \A n \in {0, 1} \cup BatchSizes : n \in 0..(MaxNo + 1)
BY DEF Form!FormAssumption

LEMMA TypeParts ==
  Form!TypeOK <=> /\ FlagsFit /\ ErrorFits /\ NumbersFit /\ FieldsFit
                  /\ StreamFits /\ LogFits /\ CallsFit
<1>1. ({isSubmitting, mounted, payloadOk, isBatchPublishing} \subseteq BOOLEAN)
      <=> /\ isSubmitting \in BOOLEAN /\ mounted \in BOOLEAN
          /\ payloadOk \in BOOLEAN /\ isBatchPublishing \in BOOLEAN
  BY Zenon
<1> QED
  BY <1>1, Zenon DEF Form!TypeOK, FlagsFit, ErrorFits, NumbersFit, FieldsFit, StreamFits, LogFits,
     CallsFit, Call

LEMMA RestFits ==
  ASSUME Form!FormAssumption
  PROVE  Form!NoJob \in Form!Job /\ Form!Rest \in Call /\ Form!Rest.at = "idle"
<1>1. Form!NoMsgId \in Form!Id
  BY Bounds DEF Form!NoMsgId, Form!Id, Form!Field, Form!Blank
<1>2. Form!NoJob \in Form!Job
  BY <1>1 DEF Form!NoJob, Form!Job
<1> QED
  BY <1>2 DEF Form!Rest, Call

\* The job that follows one of a burst.
LEMMA NextJobFits ==
  ASSUME Form!FormAssumption, NEW c \in Call, c.job.id[2] < c.size
  PROVE  /\ Form!BatchJob(c.job.id[1], c.job.id[2] + 1) \in Form!Job
         /\ [at |-> "sent", kind |-> "batch", job |-> Form!BatchJob(c.job.id[1], c.job.id[2] + 1),
             size |-> c.size] \in Call
<1>1. c.job \in Form!Job /\ c.size \in {0, 1} \cup BatchSizes
  BY DEF Call
<1>2. c.job.id \in Form!Id
  BY <1>1 DEF Form!Job
<1>3. c.job.id[1] \in 0..FormClicks /\ c.job.id[2] \in 0..(MaxNo + 1)
  BY <1>2 DEF Form!Id, Form!Field
<1>4. c.job.id[2] + 1 \in 0..(MaxNo + 1)
  <2>1. c.size \in 0..(MaxNo + 1) /\ MaxNo \in Nat
    BY <1>1, Bounds
  <2> QED
    BY <1>3, <2>1
<1>5. <<c.job.id[1], c.job.id[2] + 1>> \in Form!Id
  BY <1>3, <1>4 DEF Form!Id, Form!Field
<1>6. Form!BatchJob(c.job.id[1], c.job.id[2] + 1) \in Form!Job
  BY <1>5 DEF Form!BatchJob, Form!Job
<1> QED
  BY <1>1, <1>6 DEF Call

LEMMA InitType == ASSUME Form!FormAssumption, Form!Init PROVE Form!TypeOK
<1>1. FlagsFit /\ ErrorFits
  BY DEF Form!Init, FlagsFit, ErrorFits
<1>2. NumbersFit /\ FieldsFit /\ StreamFits /\ LogFits
  BY Bounds DEF Form!Init, NumbersFit, FieldsFit, Form!Field, Form!Blank, StreamFits, LogFits
<1>3. CallsFit
  BY RestFits DEF Form!Init, CallsFit
<1> QED
  BY <1>1, <1>2, <1>3, TypeParts

\* What a step does to the Booleans and the error.
LEMMA NextFlags == ASSUME Form!TypeOK, Form!Next PROVE FlagsFit' /\ ErrorFits'
<1>1. FlagsFit /\ ErrorFits
  BY TypeParts
<1>3. CASE Form!User
  BY <1>1, <1>3, Zenon DEF Form!User, Form!handleSend, Form!SendRejected, Form!BatchRejected,
    Form!handleBatchPublish, Form!EditJobId, Form!EditMsgId, Form!EditPayload,
    Form!formatPayloadJson, Form!resetToDefaultPayload, Form!Edit, Form!Click, Form!Leave,
    Form!Return, Form!Fresh, Form!handleJobSubmit, FlagsFit, ErrorFits, Form!net, Form!fields
<1>4. CASE Form!Forget \/ Form!GoDown \/ Form!ComeBack \/ \E t \in Form!Thread : Form!Serve(t) \/ Form!Lose(t)
  BY <1>1, <1>4, Zenon DEF Form!Forget, Form!GoDown, Form!ComeBack, Form!Serve, Form!Lose,
    FlagsFit, ErrorFits, Form!net, Form!form, Form!fields
<1>5. CASE Form!Resume
  BY <1>1, <1>5, Zenon DEF Form!Resume, Form!SendDone, Form!BatchDone, Form!OldResumes,
    Form!Failure, Form!handleJobSubmit, FlagsFit, ErrorFits, Form!net, Form!form, Form!fields
<1> QED
  BY <1>3, <1>4, <1>5 DEF Form!Next

\* What a step does to the fields.
LEMMA FollowingFits ==
  ASSUME Form!FormAssumption, NEW no \in Form!Field, NEW next \in Form!Following(no)
  PROVE  next \in Form!Field
BY Bounds DEF Form!Following, Form!Field, Form!Named

LEMMA AfterSendFits ==
  ASSUME Form!FormAssumption, Form!TypeOK, NEW job \in Form!Job, Form!AfterSend(job)
  PROVE  FieldsFit'
<1>1. FieldsFit
  BY TypeParts
<1>2. job.id[2] \in Form!Field /\ job.msgId[2] \in Form!Field
  <2>1. job.id \in Form!Id /\ job.msgId \in Form!Id
    BY DEF Form!Job
  <2> QED
    BY <2>1 DEF Form!Id
<1>3. jobId' \in Form!Field
  BY <1>2, FollowingFits DEF Form!AfterSend
<1>4. natsMsgId' \in Form!Field
  BY <1>1, <1>2, <1>3, FollowingFits DEF Form!AfterSend, FieldsFit
<1> QED
  BY <1>3, <1>4 DEF FieldsFit

LEMMA NextFields == ASSUME Form!FormAssumption, Form!TypeOK, Form!Next PROVE FieldsFit'
<1>1. FieldsFit /\ CallsFit
  BY TypeParts
<1>2. UNCHANGED <<jobId, natsMsgId>> => FieldsFit'
  BY <1>1 DEF FieldsFit
<1>3. CASE Form!EditJobId \/ Form!EditMsgId
  BY <1>1, <1>3 DEF Form!EditJobId, Form!EditMsgId, FieldsFit
<1>4. CASE Form!Return
  BY <1>4, Bounds DEF Form!Return, Form!Fresh, FieldsFit, Form!Field, Form!Blank
<1>5. CASE Form!SendDone
  <2>1. thread["send"].job \in Form!Job
    BY <1>1 DEF CallsFit, Call, Form!Thread
  <2> QED
    BY <1>5, <2>1, AfterSendFits DEF Form!SendDone
<1>6. CASE ~(Form!EditJobId \/ Form!EditMsgId \/ Form!Return \/ Form!SendDone)
  BY <1>2, <1>6 DEF Form!Next, Form!User, Form!Resume, Form!handleSend, Form!SendRejected,
    Form!BatchRejected, Form!handleBatchPublish, Form!EditPayload, Form!formatPayloadJson,
    Form!resetToDefaultPayload, Form!Leave, Form!Forget, Form!GoDown, Form!ComeBack, Form!Serve,
    Form!Lose, Form!BatchDone, Form!OldResumes, Form!Failure, Form!form, Form!fields
<1> QED
  BY <1>3, <1>4, <1>5, <1>6

\* What a step does to the counters.
LEMMA NextNumbers == ASSUME Form!FormAssumption, Form!TypeOK, Form!Next PROVE NumbersFit'
<1>1. NumbersFit
  BY TypeParts
<1>2. UNCHANGED <<outages, clicks, edits, switches>> => NumbersFit'
  BY <1>1 DEF NumbersFit
<1>3. CASE Form!Click /\ UNCHANGED Form!net
  BY <1>1, <1>3, Bounds DEF Form!Click, NumbersFit, Form!net
<1>4. CASE Form!Edit
  BY <1>1, <1>4, Bounds DEF Form!Edit, NumbersFit, Form!net
<1>5. CASE Form!Leave \/ Form!GoDown
  BY <1>1, <1>5, Bounds DEF Form!Leave, Form!Forget, Form!GoDown, NumbersFit, Form!net,
    Form!form, Form!bounds
<1>6. CASE Form!User /\ ~Form!Leave
  BY <1>2, <1>3, <1>4, <1>6 DEF Form!User, Form!handleSend, Form!SendRejected,
    Form!BatchRejected, Form!handleBatchPublish, Form!EditJobId, Form!EditMsgId,
    Form!EditPayload, Form!formatPayloadJson, Form!resetToDefaultPayload, Form!Return, Form!net,
    Form!bounds
<1>7. CASE ~Form!User /\ ~Form!GoDown
  BY <1>2, <1>7 DEF Form!Next, Form!Resume, Form!Forget, Form!ComeBack, Form!Serve, Form!Lose,
    Form!SendDone, Form!BatchDone, Form!OldResumes, Form!Failure, Form!net, Form!bounds
<1> QED
  BY <1>5, <1>6, <1>7

\* What a step does to the handlers: one is started or goes on with a job, one
\* gets its answer, one ends, or one outlives its form.
Started(t, c) == thread' = [thread EXCEPT ![t] = c]
Answered(t, what) == thread' = [thread EXCEPT ![t].at = what]
Outlived(t) == thread' = [thread EXCEPT ![t] = Form!Rest, !["old"] = thread[t]]

LEMMA NextCalls == ASSUME Form!FormAssumption, Form!TypeOK, Form!Next PROVE CallsFit'
<1>1. CallsFit /\ FieldsFit /\ NumbersFit /\ \A t \in Form!Thread : thread[t] \in Call
  BY TypeParts DEF CallsFit
<1>2. ASSUME NEW t \in Form!Thread, NEW c \in Call, Started(t, c)
      PROVE  CallsFit'
  BY <1>1, <1>2 DEF CallsFit, Started
<1>3. ASSUME NEW t \in Form!Thread, NEW what \in {"answered", "failed"}, Answered(t, what)
      PROVE  CallsFit'
  <2>1. [thread[t] EXCEPT !.at = what] \in Call
    BY <1>1 DEF Call
  <2>2. Started(t, [thread[t] EXCEPT !.at = what])
    BY <1>3 DEF Answered, Started
  <2> QED
    BY <1>2, <2>1, <2>2
<1>4. CASE Form!handleSend
  <2>1. /\ <<0, jobId>> \in Form!Id /\ <<0, natsMsgId>> \in Form!Id
    BY <1>1, Bounds DEF FieldsFit, Form!Id
  <2> DEFINE c == [at |-> "sent", kind |-> "send", size |-> 1,
                   job |-> [id |-> <<0, jobId>>, msgId |-> <<0, natsMsgId>>]]
  <2>2. c \in Call
    BY <2>1 DEF Call, Form!Job
  <2>3. Started("send", c)
    BY <1>4 DEF Form!handleSend, Form!handleJobSubmit, Started
  <2> QED
    BY <1>2, <2>2, <2>3 DEF Form!Thread
<1>5. ASSUME NEW n \in BatchSizes, Form!handleBatchPublish(n)
      PROVE  CallsFit'
  <2>1. clicks' \in 0..FormClicks
    BY <1>1, <1>5, Bounds DEF Form!handleBatchPublish, Form!Click, NumbersFit
  <2>2. <<clicks', 1>> \in Form!Id
    BY <2>1, Bounds DEF Form!Id, Form!Field
  <2>3. Form!BatchJob(clicks', 1) \in Form!Job
    BY <2>2 DEF Form!BatchJob, Form!Job
  <2> DEFINE c == [at |-> "sent", kind |-> "batch", job |-> Form!BatchJob(clicks', 1), size |-> n]
  <2>4. c \in Call
    BY <2>3 DEF Call
  <2>5. Started("batch", c)
    BY <1>5 DEF Form!handleBatchPublish, Form!handleJobSubmit, Started
  <2> HIDE DEF c
  <2> QED
    BY <1>2, <2>4, <2>5 DEF Form!Thread
<1>6. CASE Form!Leave
  <2>1. CASE UNCHANGED thread
    BY <1>1, <2>1 DEF CallsFit
  <2>2. CASE \E t \in Form!Thread : Outlived(t)
    BY <1>1, <2>2, RestFits DEF CallsFit, Outlived
  <2> QED
    BY <1>6, <2>1, <2>2 DEF Form!Leave, Outlived, Form!Thread
<1>7. CASE \E t \in Form!Thread : Form!Serve(t) \/ Form!Lose(t)
  BY <1>3, <1>7 DEF Form!Serve, Form!Lose, Answered
<1>8. CASE Form!SendDone \/ (\E t \in Form!Thread : Form!Failure(t))
  BY <1>2, <1>8, RestFits DEF Form!SendDone, Form!Failure, Started, Form!Thread
<1>9. CASE Form!BatchDone \/ Form!OldResumes
  <2>1. PICK t \in Form!Thread :
             \/ Started(t, Form!Rest)
             \/ /\ thread[t].job.id[2] < thread[t].size
                /\ Started(t, [at |-> "sent", kind |-> "batch", size |-> thread[t].size,
                               job |-> Form!BatchJob(thread[t].job.id[1], thread[t].job.id[2] + 1)])
    BY <1>9 DEF Form!BatchDone, Form!OldResumes, Form!handleJobSubmit, Started, Form!Thread
  <2> QED
    BY <1>1, <1>2, <2>1, RestFits, NextJobFits
<1>10. CASE UNCHANGED thread
  BY <1>1, <1>10 DEF CallsFit
<1> QED
  BY <1>4, <1>5, <1>6, <1>7, <1>8, <1>9, <1>10 DEF Form!Next, Form!User, Form!Resume,
    Form!SendRejected, Form!BatchRejected, Form!EditJobId, Form!EditMsgId, Form!EditPayload,
    Form!formatPayloadJson, Form!resetToDefaultPayload, Form!Edit, Form!Return, Form!Forget,
    Form!GoDown, Form!ComeBack

\* What a step does to the stream and to the log.
LEMMA NextStream == ASSUME Form!TypeOK, Form!Next PROVE StreamFits'
<1>1. StreamFits /\ CallsFit
  BY TypeParts
<1>2. CASE \E t \in Form!Thread : Form!Serve(t)
  <2>1. PICK t \in Form!Thread : Form!Store(thread[t].job) /\ forgotten' = forgotten
    BY <1>2 DEF Form!Serve
  <2>2. thread[t].job \in Form!Job
    BY <1>1 DEF CallsFit, Call
  <2>3. stored \in Seq(Form!Job) /\ Len(stored) \in Nat /\ forgotten \in 0..Len(stored)
    BY <1>1 DEF StreamFits
  <2>4. CASE stored' = stored
    BY <2>1, <2>3, <2>4 DEF StreamFits
  <2>5. CASE stored' = Append(stored, thread[t].job)
    <3>1. stored' \in Seq(Form!Job) /\ Len(stored') = Len(stored) + 1
      BY <2>2, <2>3, <2>5
    <3> QED
      BY <2>1, <2>3, <3>1 DEF StreamFits
  <2> QED
    BY <2>1, <2>4, <2>5 DEF Form!Store
<1>3. CASE Form!Forget
  <2>1. stored' = stored /\ forgotten' \in (forgotten + 1)..Len(stored)
    BY <1>3 DEF Form!Forget, Form!Remembered
  <2> QED
    BY <1>1, <2>1 DEF StreamFits
<1>4. CASE ~(Form!Forget \/ \E t \in Form!Thread : Form!Serve(t))
  BY <1>1, <1>4 DEF Form!Next, Form!User, Form!Resume, Form!handleSend, Form!SendRejected,
    Form!BatchRejected, Form!handleBatchPublish, Form!EditJobId, Form!EditMsgId,
    Form!EditPayload, Form!formatPayloadJson, Form!resetToDefaultPayload, Form!Edit, Form!Leave,
    Form!Return, Form!GoDown, Form!ComeBack, Form!Lose, Form!SendDone, Form!BatchDone,
    Form!OldResumes, Form!Failure, Form!net, StreamFits
<1> QED
  BY <1>2, <1>3, <1>4

\* The log's new receipt, and that it keeps only old ones behind it.
LEMMA LogKeeps ==
  ASSUME Form!FormAssumption, Form!TypeOK, NEW job \in Form!Job, Form!Log(job)
  PROVE  /\ LogFits'
         /\ \A i \in 1..Len(publishedHistory') :
               \/ publishedHistory'[i] = job
               \/ \E k \in 1..Len(publishedHistory) : publishedHistory'[i] = publishedHistory[k]
<1> DEFINE h == publishedHistory
           n == IF Len(h) < LogCap THEN Len(h) + 1 ELSE LogCap
<1>1. h \in Seq(Form!Job) /\ Len(h) \in Nat /\ Len(h) <= LogCap /\ LogCap \in Nat
  BY TypeParts, Bounds DEF LogFits
<1>2. n \in Nat /\ n <= Len(h) + 1 /\ n <= LogCap
  BY <1>1
<1>3. publishedHistory' = SubSeq(<<job>> \o h, 1, n)
  BY DEF Form!Log
<1> HIDE DEF h, n
<1>4. /\ <<job>> \o h \in Seq(Form!Job) /\ Len(<<job>> \o h) = Len(h) + 1
      /\ \A i \in 1..(Len(h) + 1) : (<<job>> \o h)[i] = IF i = 1 THEN job ELSE h[i - 1]
  BY <1>1
<1>5. /\ publishedHistory' \in Seq(Form!Job) /\ Len(publishedHistory') = n
      /\ \A i \in 1..n : publishedHistory'[i] = (<<job>> \o h)[i]
  BY <1>1, <1>2, <1>3, <1>4
<1>6. ASSUME NEW i \in 1..n
      PROVE  publishedHistory'[i] = job \/ \E k \in 1..Len(h) : publishedHistory'[i] = h[k]
  <2>1. i \in 1..(Len(h) + 1) /\ (i = 1 \/ i - 1 \in 1..Len(h))
    BY <1>1, <1>2
  <2> QED
    BY <1>4, <1>5, <2>1
<1> QED
  BY <1>1, <1>2, <1>5, <1>6 DEF LogFits, h

LEMMA NextLog == ASSUME Form!FormAssumption, Form!TypeOK, Form!Next PROVE LogFits'
<1>1. LogFits /\ CallsFit
  BY TypeParts
<1>2. ASSUME NEW t \in Form!Thread, Form!Log(thread[t].job)
      PROVE  LogFits'
  <2>1. thread[t].job \in Form!Job
    BY <1>1 DEF CallsFit, Call
  <2> QED
    BY <1>2, <2>1, LogKeeps
<1>3. CASE Form!SendDone \/ Form!BatchDone
  BY <1>2, <1>3 DEF Form!SendDone, Form!BatchDone, Form!Thread
<1>4. CASE Form!Return
  BY <1>4, Bounds DEF Form!Return, Form!Fresh, LogFits
<1>5. CASE ~Form!SendDone /\ ~Form!BatchDone /\ ~Form!Return
  BY <1>1, <1>5 DEF Form!Next, Form!User, Form!Resume, Form!handleSend, Form!SendRejected,
    Form!BatchRejected, Form!handleBatchPublish, Form!EditJobId, Form!EditMsgId,
    Form!EditPayload, Form!formatPayloadJson, Form!resetToDefaultPayload, Form!Edit, Form!Leave,
    Form!Forget, Form!GoDown, Form!ComeBack, Form!Serve, Form!Lose, Form!OldResumes,
    Form!Failure, Form!form, LogFits
<1> QED
  BY <1>3, <1>4, <1>5

LEMMA NextType == ASSUME Form!FormAssumption, Form!TypeOK, [Form!Next]_(Form!vars) PROVE Form!TypeOK'
<1>1. CASE Form!Next
  <2>1. /\ FlagsFit' /\ ErrorFits' /\ NumbersFit' /\ FieldsFit'
        /\ StreamFits' /\ LogFits' /\ CallsFit'
    BY <1>1, NextFlags, NextNumbers, NextFields, NextStream, NextLog, NextCalls
  <2> QED
    BY <2>1, TypeParts, PTL
<1>2. CASE UNCHANGED Form!vars
  BY <1>2 DEF Form!vars, Form!net, Form!form, Form!fields, Form!bounds, Form!TypeOK
<1> QED
  BY <1>1, <1>2

\* Only the screen of the form changes it.
LEMMA FormSteps == [Next]_vars => [Form!Next]_(Form!vars)
BY DEF Next, OnStatus, OnFeed, OnLog, OnInspector, OnForm, vars, formVars, Form!vars, Form!net,
       Form!form, Form!fields, Form!bounds

\* The ids of a burst and the numbers that the fields move on to stay in their
\* range, and the log keeps at most its cap.
LEMMA FormTypes == Spec => []Form!TypeOK
<1>1. Init => Form!TypeOK
  BY PanelsAssumption, InitType DEF Init
<1>2. Form!TypeOK /\ [Next]_vars => Form!TypeOK'
  BY PanelsAssumption, FormSteps, NextType
<1> QED
  BY <1>1, <1>2, PTL DEF Spec

-----------------------------------------------------------------------------
(* Submits do not overlap.                                                  *)

\* A handler is idle exactly when it rests, and a form that is gone runs none.
HandlersRest == /\ \A t \in Form!Thread : thread[t].at = "idle" => thread[t] = Form!Rest
                /\ ~mounted => thread["send"] = Form!Rest /\ thread["batch"] = Form!Rest
SubmitInv == HandlersRest /\ Form!OneSubmitAtATime

LEMMA InitSubmit == Form!Init => SubmitInv
BY DEF Form!Init, SubmitInv, HandlersRest, Form!OneSubmitAtATime, Form!InFlight, Form!Rest

\* A handler that starts, or sends its next job, where no other one runs.
LEMMA StartedSubmit ==
  ASSUME CallsFit, SubmitInv, NEW t \in Form!Thread, NEW c, c.at = "sent", Started(t, c),
         Form!InFlight \subseteq {t}, isSubmitting', mounted' = mounted, mounted \/ t = "old"
  PROVE  SubmitInv'
<1>1. thread'[t] = c /\ \A s \in Form!Thread \ {t} : thread'[s] = thread[s]
  BY DEF CallsFit, Started
<1>2. Form!InFlight' = {t}
  BY <1>1 DEF Form!InFlight
<1>3. HandlersRest'
  BY <1>1 DEF HandlersRest, SubmitInv, Form!Thread
<1> QED
  BY <1>2, <1>3 DEF SubmitInv, Form!OneSubmitAtATime

\* The handler that ends is the one that ran.
LEMMA EndedSubmit ==
  ASSUME CallsFit, SubmitInv, NEW t \in Form!Thread, thread[t].at # "idle", Started(t, Form!Rest),
         isSubmitting' = FALSE, mounted' = mounted
  PROVE  SubmitInv'
<1>1. thread'[t] = Form!Rest /\ \A s \in Form!Thread \ {t} : thread'[s] = thread[s]
  BY DEF CallsFit, Started
<1>2. Form!Rest.at = "idle"
  BY DEF Form!Rest
<1>3. Form!InFlight = {t}
  BY DEF SubmitInv, Form!OneSubmitAtATime, Form!InFlight
<1>4. Form!InFlight' = {}
  BY <1>1, <1>2, <1>3 DEF Form!InFlight
<1>5. HandlersRest'
  BY <1>1 DEF HandlersRest, SubmitInv, Form!Thread
<1> QED
  BY <1>4, <1>5 DEF SubmitInv, Form!OneSubmitAtATime

LEMMA AnsweredSubmit ==
  ASSUME CallsFit, SubmitInv, NEW t \in Form!Thread, thread[t].at # "idle",
         NEW what \in {"answered", "failed"}, Answered(t, what),
         isSubmitting' = isSubmitting, mounted' = mounted
  PROVE  SubmitInv'
<1>1. /\ thread'[t].at = what
      /\ \A s \in Form!Thread \ {t} : thread'[s] = thread[s]
  <2>1. [thread[t] EXCEPT !.at = what].at = what
    BY DEF CallsFit, Call
  <2> QED
    BY <2>1 DEF CallsFit, Answered
<1>2. Form!InFlight' = Form!InFlight
  BY <1>1 DEF Form!InFlight
<1>3. HandlersRest'
  <2>1. ~mounted => t = "old"
    BY DEF SubmitInv, HandlersRest, Form!Thread, Form!Rest
  <2> QED
    BY <1>1, <2>1 DEF HandlersRest, SubmitInv, Form!Thread
<1> QED
  BY <1>2, <1>3 DEF SubmitInv, Form!OneSubmitAtATime

\* The form goes, its handler stays.
LEMMA LeaveSubmit ==
  ASSUME CallsFit, SubmitInv, Form!Leave
  PROVE  SubmitInv'
<1>1. mounted' = FALSE /\ isSubmitting' = isSubmitting
  BY DEF Form!Leave
<1>2. CASE thread["send"] = Form!Rest /\ thread["batch"] = Form!Rest
  <2>1. thread' = thread
    BY <1>2 DEF Form!Leave
  <2>2. HandlersRest'
    BY <1>1, <1>2, <2>1 DEF HandlersRest, SubmitInv
  <2>3. Form!InFlight' = Form!InFlight
    BY <2>1 DEF Form!InFlight
  <2> QED
    BY <1>1, <2>2, <2>3 DEF SubmitInv, Form!OneSubmitAtATime
<1>3. CASE thread["send"] # Form!Rest \/ thread["batch"] # Form!Rest
  <2>1. PICK t \in {"send", "batch"} : thread[t] # Form!Rest /\ thread["old"] = Form!Rest /\ Outlived(t)
    BY <1>3 DEF Form!Leave, Outlived
  <2>2. Form!Rest.at = "idle"
    BY DEF Form!Rest
  <2>3. t \in Form!InFlight /\ Form!InFlight = {t}
    BY <2>1 DEF SubmitInv, HandlersRest, Form!OneSubmitAtATime, Form!InFlight, Form!Thread
  <2>4. thread["send"] = Form!Rest \/ thread["batch"] = Form!Rest
    BY <2>3 DEF SubmitInv, HandlersRest, Form!InFlight, Form!Thread
  <2>5. /\ thread'["old"] = thread[t] /\ thread'["send"] = Form!Rest /\ thread'["batch"] = Form!Rest
    BY <2>1, <2>4 DEF CallsFit, Outlived, Form!Thread
  <2>6. Form!InFlight' = {"old"}
    BY <2>2, <2>3, <2>5 DEF Form!InFlight, Form!Thread
  <2>7. HandlersRest'
    BY <2>2, <2>3, <2>5 DEF HandlersRest, Form!InFlight, Form!Thread
  <2> QED
    BY <1>1, <2>3, <2>6, <2>7 DEF SubmitInv, Form!OneSubmitAtATime
<1> QED
  BY <1>2, <1>3

LEMMA NextSubmit == ASSUME Form!TypeOK, SubmitInv, [Form!Next]_(Form!vars) PROVE SubmitInv'
<1>1. CallsFit
  BY TypeParts
<1>2. CASE Form!handleSend \/ \E n \in BatchSizes : Form!handleBatchPublish(n)
  <2>1. ~isSubmitting /\ isSubmitting' /\ mounted /\ mounted' = mounted
    BY <1>2 DEF Form!handleSend, Form!handleBatchPublish, Form!SendButton, Form!BatchButton,
      Form!Click, Form!handleJobSubmit
  <2>2. Form!InFlight = {}
    BY <2>1 DEF SubmitInv, Form!OneSubmitAtATime
  <2>3. PICK t \in Form!Thread : \E kind, job, size :
             Started(t, [at |-> "sent", kind |-> kind, job |-> job, size |-> size])
    BY <1>2 DEF Form!handleSend, Form!handleBatchPublish, Form!handleJobSubmit, Started,
      Form!Thread
  <2> QED
    BY <1>1, <2>1, <2>2, <2>3, StartedSubmit
<1>3. CASE Form!Leave
  BY <1>1, <1>3, LeaveSubmit
<1>4. CASE Form!Return
  <2>1. thread' = thread /\ isSubmitting' = isSubmitting /\ mounted' = TRUE
    BY <1>4 DEF Form!Return
  <2>2. HandlersRest' /\ Form!InFlight' = Form!InFlight
    BY <2>1 DEF SubmitInv, HandlersRest, Form!InFlight
  <2> QED
    BY <2>1, <2>2 DEF SubmitInv, Form!OneSubmitAtATime
<1>5. CASE \E t \in Form!Thread : Form!Serve(t) \/ Form!Lose(t)
  <2>1. PICK t \in Form!Thread, what \in {"answered", "failed"} :
             Answered(t, what) /\ thread[t].at # "idle"
    BY <1>5 DEF Form!Serve, Form!Lose, Answered
  <2>2. isSubmitting' = isSubmitting /\ mounted' = mounted
    BY <1>5 DEF Form!Serve, Form!Lose, Form!form
  <2> QED
    BY <1>1, <2>1, <2>2, AnsweredSubmit
<1>6. CASE Form!Resume
  <2>1. PICK t \in Form!Thread :
             /\ thread[t].at # "idle"
             /\ \/ isSubmitting' = FALSE /\ Started(t, Form!Rest)
                \/ /\ isSubmitting' = TRUE
                   /\ \E kind, job, size :
                        Started(t, [at |-> "sent", kind |-> kind, job |-> job, size |-> size])
    <3>1. CASE Form!SendDone
      BY <3>1 DEF Form!SendDone, Started, Form!Thread
    <3>2. CASE Form!BatchDone
      BY <3>2 DEF Form!BatchDone, Form!handleJobSubmit, Started, Form!Thread
    <3>3. CASE Form!OldResumes
      BY <3>3 DEF Form!OldResumes, Form!handleJobSubmit, Started, Form!Thread
    <3>4. CASE \E t \in Form!Thread : Form!Failure(t)
      BY <3>4 DEF Form!Failure, Started
    <3> QED
      BY <1>6, <3>1, <3>2, <3>3, <3>4 DEF Form!Resume
  <2>2. mounted' = mounted
    BY <1>6 DEF Form!Resume, Form!SendDone, Form!BatchDone, Form!OldResumes, Form!Failure,
      Form!form
  <2>3. Form!InFlight \subseteq {t} /\ (mounted \/ t = "old")
    BY <2>1 DEF SubmitInv, HandlersRest, Form!OneSubmitAtATime, Form!InFlight, Form!Thread,
      Form!Rest
  <2> QED
    BY <1>1, <2>1, <2>2, <2>3, StartedSubmit, EndedSubmit
<1>7. CASE UNCHANGED <<thread, isSubmitting, mounted>>
  BY <1>7 DEF SubmitInv, HandlersRest, Form!OneSubmitAtATime, Form!InFlight
<1> QED
  BY <1>2, <1>3, <1>4, <1>5, <1>6, <1>7 DEF Form!Next, Form!User, Form!SendRejected,
    Form!BatchRejected, Form!EditJobId, Form!EditMsgId, Form!EditPayload,
    Form!formatPayloadJson, Form!resetToDefaultPayload, Form!Edit, Form!Forget, Form!GoDown,
    Form!ComeBack, Form!form, Form!vars

(* Submits never overlap and App's isSubmitting is up exactly while one is     *)
(* under way, also when a burst outlives the form that started it              *)
(* (CoreFlowPublisher.tsx handleSend, handleBatchPublish; App.tsx              *)
(* handleJobSubmit).                                                           *)
THEOREM SubmitsDoNotOverlap == Spec => []OneSubmitAtATime
<1>1. Init => SubmitInv
  BY PanelsAssumption, InitSubmit DEF Init
<1>2. Form!TypeOK /\ SubmitInv /\ [Next]_vars => SubmitInv'
  BY PanelsAssumption, FormSteps, NextSubmit
<1>3. SubmitInv => OneSubmitAtATime
  BY DEF SubmitInv, OneSubmitAtATime
<1> QED
  BY <1>1, <1>2, <1>3, FormTypes, PTL DEF Spec
-----------------------------------------------------------------------------
(* What a step does to one handler and to the stream.                       *)

\* It rests, or goes on with the job of one: itself, or one of the form that is gone.
Keeps(t) == \/ thread'[t] = Form!Rest
            \/ \E s \in Form!Thread : (s = t \/ t = "old") /\ thread'[t] = thread[s]
\* Its request ends.
Ends(t) == /\ thread[t].at # "idle"
           /\ thread'[t].job = thread[t].job /\ thread'[t].kind = thread[t].kind
           /\ thread'[t].at = "failed" \/ (thread'[t].at = "answered" /\ Form!Serve(t))
Sends(t, kind, job) == /\ thread'[t].at = "sent" /\ thread'[t].kind = kind
                       /\ thread'[t].job = job
BeginsSend(t) == /\ t = "send" /\ Form!handleSend
                 /\ Sends(t, "send", [id |-> <<0, jobId>>, msgId |-> <<0, natsMsgId>>])
BeginsBurst(t) == t = "batch" /\ clicks' \in Nat \ {0} /\ Sends(t, "batch", Form!BatchJob(clicks', 1))
Continues(t) == /\ thread[t].at = "answered" /\ (t = "batch" \/ thread[t].kind = "batch")
                /\ Sends(t, "batch", Form!BatchJob(thread[t].job.id[1], thread[t].job.id[2] + 1))

LEMMA HandlerStep ==
  ASSUME Form!FormAssumption, Form!TypeOK, [Form!Next]_(Form!vars), NEW u \in Form!Thread
  PROVE  Keeps(u) \/ Ends(u) \/ BeginsSend(u) \/ BeginsBurst(u) \/ Continues(u)
<1>1. CallsFit /\ NumbersFit /\ \A t \in Form!Thread : thread[t] \in Call
  BY TypeParts DEF CallsFit
<1>2. ASSUME NEW t \in Form!Thread, NEW c, Started(t, c)
      PROVE  thread'[t] = c /\ (u # t => Keeps(u))
  BY <1>1, <1>2 DEF CallsFit, Started, Keeps
<1>3. CASE Form!handleSend
  <2> DEFINE job == [id |-> <<0, jobId>>, msgId |-> <<0, natsMsgId>>]
             c == [at |-> "sent", kind |-> "send", job |-> job, size |-> 1]
  <2>1. Started("send", c)
    BY <1>3 DEF Form!handleSend, Form!handleJobSubmit, Started
  <2>2. c.at = "sent" /\ c.kind = "send" /\ c.job = job
    OBVIOUS
  <2> HIDE DEF c
  <2>3. thread'["send"] = c /\ (u # "send" => Keeps(u))
    BY <1>2, <2>1 DEF Form!Thread
  <2> QED
    BY <1>3, <2>2, <2>3 DEF BeginsSend, Sends
<1>4. ASSUME NEW n \in BatchSizes, Form!handleBatchPublish(n)
      PROVE  Keeps(u) \/ BeginsBurst(u)
  <2> DEFINE c == [at |-> "sent", kind |-> "batch", job |-> Form!BatchJob(clicks', 1), size |-> n]
  <2>1. Started("batch", c)
    BY <1>4 DEF Form!handleBatchPublish, Form!handleJobSubmit, Started
  <2>2. clicks' \in Nat \ {0}
    BY <1>1, <1>4, Bounds DEF Form!handleBatchPublish, Form!Click, NumbersFit
  <2>3. c.at = "sent" /\ c.kind = "batch" /\ c.job = Form!BatchJob(clicks', 1)
    OBVIOUS
  <2> HIDE DEF c
  <2>4. thread'["batch"] = c /\ (u # "batch" => Keeps(u))
    BY <1>2, <2>1 DEF Form!Thread
  <2> QED
    BY <2>2, <2>3, <2>4 DEF BeginsBurst, Sends
<1>5. CASE Form!Leave
  <2>1. CASE thread' = thread
    BY <2>1 DEF Keeps
  <2>2. ASSUME NEW t \in {"send", "batch"}, Outlived(t)
        PROVE  Keeps(u)
    BY <1>1, <2>2 DEF CallsFit, Outlived, Keeps, Form!Thread
  <2> QED
    BY <1>5, <2>1, <2>2 DEF Form!Leave, Outlived
<1>6. ASSUME NEW t \in Form!Thread, Form!Serve(t) \/ Form!Lose(t)
      PROVE  Keeps(u) \/ Ends(u)
  <2>1. PICK what \in {"answered", "failed"} :
             /\ thread[t].at # "idle" /\ Answered(t, what)
             /\ what = "answered" => Form!Serve(t)
    BY <1>6 DEF Form!Serve, Form!Lose, Answered
  <2> DEFINE c == [thread[t] EXCEPT !.at = what]
  <2>2. c.at = what /\ c.job = thread[t].job /\ c.kind = thread[t].kind
    BY <1>1 DEF Call
  <2>3. Started(t, c)
    BY <2>1 DEF Answered, Started
  <2> HIDE DEF c
  <2>4. thread'[t] = c /\ (u # t => Keeps(u))
    BY <1>2, <2>3
  <2> QED
    BY <2>1, <2>2, <2>4 DEF Ends
<1>7. CASE Form!SendDone \/ \E t \in Form!Thread : Form!Failure(t)
  <2>1. PICK t \in Form!Thread : Started(t, Form!Rest)
    BY <1>7 DEF Form!SendDone, Form!Failure, Started, Form!Thread
  <2> QED
    BY <1>2, <2>1 DEF Keeps
<1>8. CASE Form!BatchDone \/ Form!OldResumes
  <2>1. PICK t \in Form!Thread :
             \/ Started(t, Form!Rest)
             \/ /\ thread[t].at = "answered" /\ (t = "batch" \/ thread[t].kind = "batch")
                /\ Started(t, [at |-> "sent", kind |-> "batch", size |-> thread[t].size,
                               job |-> Form!BatchJob(thread[t].job.id[1], thread[t].job.id[2] + 1)])
    BY <1>8 DEF Form!BatchDone, Form!OldResumes, Form!handleJobSubmit, Started, Form!Thread
  <2> DEFINE c == [at |-> "sent", kind |-> "batch", size |-> thread[t].size,
                   job |-> Form!BatchJob(thread[t].job.id[1], thread[t].job.id[2] + 1)]
  <2>2. /\ c.at = "sent" /\ c.kind = "batch"
        /\ c.job = Form!BatchJob(thread[t].job.id[1], thread[t].job.id[2] + 1)
    OBVIOUS
  <2>3. \/ Started(t, Form!Rest)
        \/ thread[t].at = "answered" /\ (t = "batch" \/ thread[t].kind = "batch") /\ Started(t, c)
    BY <2>1
  <2> HIDE DEF c
  <2> QED
    BY <1>2, <2>2, <2>3 DEF Keeps, Continues, Sends
<1>9. CASE UNCHANGED thread
  BY <1>9 DEF Keeps
<1> QED
  BY <1>3, <1>4, <1>5, <1>6, <1>7, <1>8, <1>9 DEF Form!Next, Form!User, Form!Resume,
    Form!SendRejected, Form!BatchRejected, Form!EditJobId, Form!EditMsgId, Form!EditPayload,
    Form!formatPayloadJson, Form!resetToDefaultPayload, Form!Edit, Form!Return, Form!Forget,
    Form!GoDown, Form!ComeBack, Form!vars

LEMMA StreamStep ==
  ASSUME Form!TypeOK, [Form!Next]_(Form!vars)
  PROVE  \/ stored' = stored
         \/ \E t \in Form!Thread : /\ thread[t].at # "idle" /\ ~Form!Known(thread[t].job.msgId)
                                   /\ stored' = Append(stored, thread[t].job)
<1>1. CASE \E t \in Form!Thread : Form!Serve(t)
  BY <1>1 DEF Form!Serve, Form!Store
<1>2. CASE ~\E t \in Form!Thread : Form!Serve(t)
  BY <1>2 DEF Form!Next, Form!User, Form!Resume, Form!handleSend, Form!SendRejected,
    Form!BatchRejected, Form!handleBatchPublish, Form!EditJobId, Form!EditMsgId,
    Form!EditPayload, Form!formatPayloadJson, Form!resetToDefaultPayload, Form!Edit, Form!Leave,
    Form!Return, Form!Forget, Form!GoDown, Form!ComeBack, Form!Lose, Form!SendDone,
    Form!BatchDone, Form!OldResumes, Form!Failure, Form!net, Form!vars
<1> QED
  BY <1>1, <1>2

LEMMA StreamGrows ==
  ASSUME Form!TypeOK, [Form!Next]_(Form!vars)
  PROVE  /\ Len(stored) \in Nat /\ Len(stored') \in Nat /\ Len(stored) <= Len(stored')
         /\ \A i \in 1..Len(stored) : i \in 1..Len(stored') /\ stored'[i] = stored[i]
<1>1. StreamFits /\ CallsFit
  BY TypeParts
<1>2. \A t \in Form!Thread : thread[t].job \in Form!Job
  BY <1>1 DEF CallsFit, Call
<1> QED
  BY <1>1, <1>2, StreamStep DEF StreamFits

LEMMA ForgetsOnly ==
  ASSUME Form!TypeOK, [Form!Next]_(Form!vars)
  PROVE  forgotten \in Nat /\ forgotten' \in Nat /\ forgotten <= forgotten'
<1>1. forgotten \in Nat /\ Len(stored) \in Nat
  BY TypeParts DEF StreamFits
<1>2. CASE Form!Forget
  BY <1>1, <1>2 DEF Form!Forget, Form!Remembered
<1>3. CASE ~Form!Forget
  <2>1. forgotten' = forgotten
    BY <1>3 DEF Form!Next, Form!User, Form!Resume, Form!handleSend, Form!SendRejected,
      Form!BatchRejected, Form!handleBatchPublish, Form!EditJobId, Form!EditMsgId,
      Form!EditPayload, Form!formatPayloadJson, Form!resetToDefaultPayload, Form!Edit,
      Form!Leave, Form!Return, Form!GoDown, Form!ComeBack, Form!Serve, Form!Lose, Form!SendDone,
      Form!BatchDone, Form!OldResumes, Form!Failure, Form!net, Form!vars
  <2> QED
    BY <1>1, <2>1
<1> QED
  BY <1>2, <1>3

-----------------------------------------------------------------------------
(* Receipts.                                                                *)

\* The stream has stored a job, or its message id.
Held(job) == \E i \in 1..Len(stored) :
               stored[i] = job \/ (job.msgId # Form!NoMsgId /\ stored[i].msgId = job.msgId)
AnsweredIsHeld == \A t \in Form!Thread : thread[t].at = "answered" => Held(thread[t].job)
ReceiptInv == AnsweredIsHeld /\ Form!ReceiptsAreStored

LEMMA HeldLasts ==
  ASSUME Form!TypeOK, [Form!Next]_(Form!vars), NEW job, Held(job)
  PROVE  Held(job)'
BY StreamGrows DEF Held

LEMMA InitReceipts == Form!Init => ReceiptInv
BY DEF Form!Init, ReceiptInv, AnsweredIsHeld, Form!ReceiptsAreStored, Form!ToSet, Form!Rest

\* What was answered is held: the answer comes with the job, and the job lasts.
LEMMA ServeHolds ==
  ASSUME Form!TypeOK, NEW t \in Form!Thread, Form!Serve(t)
  PROVE  Held(thread[t].job)'
<1> DEFINE job == thread[t].job
<1>1. StreamFits /\ job \in Form!Job /\ job' = thread'[t].job /\ thread'[t].job = job
  <2>1. StreamFits /\ CallsFit
    BY TypeParts
  <2>2. [thread[t] EXCEPT !.at = "answered"].job = job /\ job \in Form!Job
    BY <2>1 DEF CallsFit, Call
  <2> QED
    BY <2>1, <2>2 DEF Form!Serve, CallsFit
<1>2. Form!Store(job)
  BY DEF Form!Serve
<1> HIDE DEF job
<1>3. CASE Form!Known(job.msgId)
  <2>1. stored' = stored
    BY <1>2, <1>3 DEF Form!Store
  <2> QED
    BY <1>1, <1>3, <2>1 DEF Held, Form!Known, Form!Remembered, StreamFits, job
<1>4. CASE ~Form!Known(job.msgId)
  <2>1. stored' = Append(stored, job)
    BY <1>2, <1>4 DEF Form!Store
  <2>2. Len(stored) + 1 \in 1..Len(stored') /\ stored'[Len(stored) + 1] = job
    BY <1>1, <2>1 DEF StreamFits
  <2> QED
    BY <1>1, <2>2 DEF Held, job
<1> QED
  BY <1>3, <1>4

LEMMA NextAnswered ==
  ASSUME Form!FormAssumption, Form!TypeOK, ReceiptInv, [Form!Next]_(Form!vars)
  PROVE  AnsweredIsHeld'
<1> SUFFICES ASSUME NEW u \in Form!Thread, thread'[u].at = "answered"
             PROVE  Held(thread[u].job)'
  BY DEF AnsweredIsHeld
<1>1. CASE Keeps(u)
  <2>1. PICK s \in Form!Thread : thread'[u] = thread[s]
    BY <1>1 DEF Keeps, Form!Rest
  <2>2. Held(thread[s].job)
    BY <2>1 DEF ReceiptInv, AnsweredIsHeld
  <2> DEFINE job == thread[s].job
  <2>3. Held(job)
    BY <2>2
  <2>4. thread'[u].job = job
    BY <2>1
  <2> HIDE DEF job
  <2> QED
    BY <2>3, <2>4, StreamGrows DEF Held
<1>2. CASE Ends(u)
  BY <1>2, ServeHolds DEF Ends
<1>3. CASE BeginsSend(u) \/ BeginsBurst(u) \/ Continues(u)
  BY <1>3 DEF BeginsSend, BeginsBurst, Continues, Sends
<1> QED
  BY <1>1, <1>2, <1>3, HandlerStep

LEMMA NextReceipts ==
  ASSUME Form!FormAssumption, Form!TypeOK, ReceiptInv, [Form!Next]_(Form!vars)
  PROVE  ReceiptInv'
<1>1. AnsweredIsHeld'
  BY NextAnswered
<1>2. ASSUME NEW i \in 1..Len(publishedHistory), NEW k, publishedHistory'[k] = publishedHistory[i]
      PROVE  Held(publishedHistory[k])'
  <2>1. Held(publishedHistory[i])
    BY DEF ReceiptInv, Form!ReceiptsAreStored, Form!ToSet, Held
  <2> QED
    BY <1>2, <2>1, StreamGrows DEF Held
<1>3. ASSUME NEW k \in 1..Len(publishedHistory')
      PROVE  Held(publishedHistory[k])'
  <2>1. CASE Form!SendDone \/ Form!BatchDone
    <3>1. PICK t \in Form!Thread : thread[t].at = "answered" /\ Form!Log(thread[t].job)
      BY <2>1 DEF Form!SendDone, Form!BatchDone, Form!Thread
    <3>2. thread[t].job \in Form!Job
      BY TypeParts DEF CallsFit, Call
    <3>3. CASE publishedHistory'[k] = thread[t].job
      <4>1. Held(thread[t].job)
        BY <3>1 DEF ReceiptInv, AnsweredIsHeld
      <4> QED
        BY <3>3, <4>1, StreamGrows DEF Held
    <3> QED
      BY <1>2, <1>3, <3>1, <3>2, <3>3, LogKeeps
  <2>2. CASE Form!Return
    BY <1>3, <2>2 DEF Form!Return, Form!Fresh
  <2>3. CASE ~Form!SendDone /\ ~Form!BatchDone /\ ~Form!Return
    <3>1. publishedHistory' = publishedHistory
      BY <2>3 DEF Form!Next, Form!User, Form!Resume, Form!handleSend, Form!SendRejected,
        Form!BatchRejected, Form!handleBatchPublish, Form!EditJobId, Form!EditMsgId,
        Form!EditPayload, Form!formatPayloadJson, Form!resetToDefaultPayload, Form!Edit,
        Form!Leave, Form!Forget, Form!GoDown, Form!ComeBack, Form!Serve, Form!Lose,
        Form!OldResumes, Form!Failure, Form!form, Form!vars
    <3> QED
      BY <1>2, <1>3, <3>1
  <2> QED
    BY <2>1, <2>2, <2>3
<1>4. Form!ReceiptsAreStored'
  <2>1. Form!TypeOK'
    BY NextType
  <2>2. LogFits'
    BY <2>1, TypeParts, PTL
  <2> QED
    BY <1>3, <2>2 DEF Form!ReceiptsAreStored, Form!ToSet, Held, LogFits
<1> QED
  BY <1>1, <1>4 DEF ReceiptInv

(* The log never marks a job as published that the stream has not stored,      *)
(* itself or by its message id, whatever answers were lost                     *)
(* (CoreFlowPublisher.tsx: the receipts of handleSend and handleBatchPublish). *)
THEOREM ReceiptsStayTrue == Spec => []ReceiptsAreStored
<1>1. Init => ReceiptInv
  BY PanelsAssumption, InitReceipts DEF Init
<1>2. Form!TypeOK /\ ReceiptInv /\ [Next]_vars => ReceiptInv'
  BY PanelsAssumption, FormSteps, NextReceipts
<1>3. ReceiptInv => ReceiptsAreStored
  BY DEF ReceiptInv, ReceiptsAreStored
<1> QED
  BY <1>1, <1>2, <1>3, FormTypes, PTL DEF Spec
-----------------------------------------------------------------------------
(* Bursts.                                                                  *)

\* A job of a burst has its id as its message id, and no other job has that one.
Burst(job) == job.id[1] > 0
WellMade(job) == /\ Burst(job) => job.msgId = job.id
                 /\ ~Burst(job) => job.msgId[1] = 0
HasPredecessor(job) ==
  Burst(job) /\ job.id[2] > 1 => \E k \in 1..Len(stored) : stored[k].id = <<job.id[1], job.id[2] - 1>>
BurstInv ==
  /\ \A i \in 1..Len(stored) : WellMade(stored[i])
  /\ \A t \in Form!Thread : WellMade(thread[t].job) /\ HasPredecessor(thread[t].job)
  /\ \A t \in Form!Thread : thread[t].kind = "batch" => Burst(thread[t].job)
  /\ thread["batch"].at # "idle" => thread["batch"].kind = "batch"
  /\ Form!BurstInOrder

LEMMA InitBurst == Form!Init => BurstInv
<1> SUFFICES ASSUME Form!Init PROVE BurstInv
  OBVIOUS
<1>1. stored = <<>> /\ \A t \in Form!Thread : thread[t] = Form!Rest
  BY DEF Form!Init
<1>2. Form!Rest.job = Form!NoJob /\ Form!Rest.kind = "send" /\ Form!Rest.at = "idle"
  BY DEF Form!Rest
<1>3. Form!NoJob.id[1] = 0 /\ Form!NoJob.msgId[1] = 0
  BY DEF Form!NoJob, Form!NoMsgId
<1>4. WellMade(Form!NoJob) /\ HasPredecessor(Form!NoJob)
  BY <1>3 DEF WellMade, HasPredecessor, Burst
<1>5. Form!BurstInOrder /\ \A i \in 1..Len(stored) : WellMade(stored[i])
  BY <1>1 DEF Form!BurstInOrder
<1> QED
  BY <1>1, <1>2, <1>4, <1>5 DEF BurstInv, Form!Thread

LEMMA IdsArePairs ==
  ASSUME Form!TypeOK
  PROVE  /\ \A t \in Form!Thread : /\ thread[t].job \in Form!Job
                                   /\ thread[t].job.id \in Form!Id /\ thread[t].job.msgId \in Form!Id
         /\ \A i \in 1..Len(stored) : stored[i] \in Form!Job
         /\ jobId \in Form!Field /\ natsMsgId \in Form!Field
<1>1. CallsFit /\ StreamFits /\ FieldsFit
  BY TypeParts
<1>2. \A t \in Form!Thread : thread[t].job \in Form!Job
  BY <1>1 DEF CallsFit, Call
<1>3. \A t \in Form!Thread : thread[t].job.id \in Form!Id /\ thread[t].job.msgId \in Form!Id
  BY <1>2 DEF Form!Job
<1>4. \A i \in 1..Len(stored) : stored[i] \in Form!Job
  BY <1>1 DEF StreamFits
<1> QED
  BY <1>1, <1>2, <1>3, <1>4 DEF FieldsFit

\* A job of a burst that was answered is in the stream under its own id.
LEMMA BurstIsHeld ==
  ASSUME Form!FormAssumption, Form!TypeOK, BurstInv, NEW job \in Form!Job, WellMade(job), Burst(job), Held(job)
  PROVE  \E k \in 1..Len(stored) : stored[k].id = job.id
<1>1. CASE \E k \in 1..Len(stored) : stored[k] = job
  BY <1>1
<1>2. CASE \E k \in 1..Len(stored) : stored[k].msgId = job.msgId
  <2>1. PICK k \in 1..Len(stored) : stored[k].msgId = job.msgId
    BY <1>2
  <2>2. job.msgId = job.id /\ job.id[1] > 0
    BY DEF WellMade, Burst
  <2>3. job.id[1] \in Nat
    BY Bounds DEF Form!Job, Form!Id
  <2>4. stored[k].id = stored[k].msgId
    BY <2>1, <2>2, <2>3 DEF BurstInv, WellMade
  <2> QED
    BY <2>1, <2>2, <2>4
<1> QED
  BY <1>1, <1>2 DEF Held

LEMMA NextHandlers ==
  ASSUME Form!FormAssumption, Form!TypeOK, ReceiptInv, BurstInv, [Form!Next]_(Form!vars), NEW u \in Form!Thread
  PROVE  /\ WellMade(thread[u].job)' /\ HasPredecessor(thread[u].job)'
         /\ thread'[u].kind = "batch" => Burst(thread[u].job)'
         /\ u = "batch" /\ thread'[u].at # "idle" => thread'[u].kind = "batch"
<1>1. CASE Keeps(u)
  <2>1. CASE thread'[u] = Form!Rest
    BY <2>1 DEF Form!Rest, Form!NoJob, Form!NoMsgId, WellMade, HasPredecessor, Burst
  <2>2. CASE \E s \in Form!Thread : (s = u \/ u = "old") /\ thread'[u] = thread[s]
    <3>1. PICK s \in Form!Thread : (s = u \/ u = "old") /\ thread'[u] = thread[s]
      BY <2>2
    <3>2. HasPredecessor(thread[s].job) /\ WellMade(thread[s].job)
      BY DEF BurstInv
    <3>3. HasPredecessor(thread[u].job)'
      BY <3>1, <3>2, StreamGrows DEF HasPredecessor, Burst
    <3>4. /\ WellMade(thread[u].job)'
          /\ thread'[u].kind = "batch" => Burst(thread[u].job)'
          /\ u = "batch" /\ thread'[u].at # "idle" => thread'[u].kind = "batch"
      BY <3>1, <3>2 DEF BurstInv, WellMade, Burst
    <3> QED
      BY <3>3, <3>4
  <2> QED
    BY <1>1, <2>1, <2>2 DEF Keeps
<1>2. CASE Ends(u)
  <2>1. HasPredecessor(thread[u].job) /\ WellMade(thread[u].job)
    BY DEF BurstInv
  <2>2. HasPredecessor(thread[u].job)'
    BY <1>2, <2>1, StreamGrows DEF Ends, HasPredecessor, Burst
  <2> QED
    BY <1>2, <2>1, <2>2 DEF Ends, BurstInv, WellMade, Burst
<1>3. CASE BeginsSend(u)
  BY <1>3 DEF BeginsSend, Sends, WellMade, HasPredecessor, Burst
<1>4. CASE BeginsBurst(u)
  BY <1>4 DEF BeginsBurst, Sends, Form!BatchJob, WellMade, HasPredecessor, Burst
<1>5. CASE Continues(u)
  <2> DEFINE job == thread[u].job
  <2>1. job \in Form!Job /\ job.id \in Form!Id /\ WellMade(job) /\ Burst(job) /\ Held(job)
    BY <1>5, IdsArePairs DEF Continues, BurstInv, ReceiptInv, AnsweredIsHeld
  <2>2. thread'[u].job = Form!BatchJob(job.id[1], job.id[2] + 1) /\ thread'[u].kind = "batch"
    BY <1>5 DEF Continues, Sends
  <2> HIDE DEF job
  <2>3. PICK k \in 1..Len(stored) : stored[k].id = job.id
    BY <2>1, BurstIsHeld
  <2>4. job.id[2] \in Nat /\ job.id = <<job.id[1], job.id[2]>>
    BY <2>1, Bounds DEF Form!Id, Form!Field
  <2>5. stored[k].id = <<job.id[1], (job.id[2] + 1) - 1>>
    BY <2>3, <2>4
  <2>6. k \in 1..Len(stored') /\ stored'[k] = stored[k]
    BY <2>3, StreamGrows
  <2> QED
    BY <2>1, <2>2, <2>5, <2>6 DEF Form!BatchJob, WellMade, HasPredecessor, Burst
<1> QED
  BY <1>1, <1>2, <1>3, <1>4, <1>5, HandlerStep

LEMMA NextBurst ==
  ASSUME Form!FormAssumption, Form!TypeOK, ReceiptInv, BurstInv, [Form!Next]_(Form!vars)
  PROVE  BurstInv'
<1>1. ASSUME NEW i \in 1..Len(stored')
      PROVE  /\ WellMade(stored[i])'
             /\ (stored'[i].id[1] > 0 /\ stored'[i].id[2] > 1)
                   => \E k \in 1..(i - 1) : stored'[k].id = <<stored'[i].id[1], stored'[i].id[2] - 1>>
  <2>1. Len(stored) \in Nat
    BY StreamGrows
  <2>2. CASE i \in 1..Len(stored)
    <3>1. stored'[i] = stored[i] /\ \A k \in 1..(i - 1) : stored'[k] = stored[k]
      BY <2>1, <2>2, StreamGrows
    <3> QED
      BY <2>2, <3>1 DEF BurstInv, Form!BurstInOrder, WellMade, Burst
  <2>3. CASE i \notin 1..Len(stored)
    <3>1. PICK t \in Form!Thread : stored' = Append(stored, thread[t].job)
      BY <2>3, StreamStep
    <3> DEFINE job == thread[t].job
    <3>2. WellMade(job) /\ HasPredecessor(job) /\ job \in Form!Job
      BY IdsArePairs DEF BurstInv
    <3>3. i = Len(stored) + 1 /\ stored'[i] = job
      BY <2>1, <2>3, <3>1, TypeParts, IdsArePairs DEF StreamFits
    <3> HIDE DEF job
    <3>4. \A k \in 1..Len(stored) : k \in 1..(i - 1) /\ stored'[k] = stored[k]
      BY <2>1, <3>3, StreamGrows
    <3> QED
      BY <3>2, <3>3, <3>4 DEF WellMade, HasPredecessor, Burst
  <2> QED
    BY <2>2, <2>3
<1>2. Form!BurstInOrder' /\ \A i \in 1..Len(stored') : WellMade(stored[i])'
  BY <1>1 DEF Form!BurstInOrder
<1>3. /\ \A t \in Form!Thread : WellMade(thread[t].job)' /\ HasPredecessor(thread[t].job)'
      /\ \A t \in Form!Thread : thread'[t].kind = "batch" => Burst(thread[t].job)'
      /\ thread'["batch"].at # "idle" => thread'["batch"].kind = "batch"
  BY NextHandlers DEF Form!Thread
<1> QED
  BY <1>2, <1>3 DEF BurstInv

(* The jobs of a burst reach the stream in their order and without a hole,     *)
(* wherever it stops: a job is sent only after the one before it was answered  *)
(* (CoreFlowPublisher.tsx: the loop of handleBatchPublish).                    *)
THEOREM BurstsStayInOrder == Spec => []BurstInOrder
<1>1. Init => ReceiptInv /\ BurstInv
  BY PanelsAssumption, InitReceipts, InitBurst DEF Init
<1>2. Form!TypeOK /\ ReceiptInv /\ [Next]_vars => ReceiptInv'
  BY PanelsAssumption, FormSteps, NextReceipts
<1>3. Form!TypeOK /\ ReceiptInv /\ BurstInv /\ [Next]_vars => BurstInv'
  BY PanelsAssumption, FormSteps, NextBurst
<1>4. BurstInv => BurstInOrder
  BY DEF BurstInv, BurstInOrder
<1> QED
  BY <1>1, <1>2, <1>3, <1>4, FormTypes, PTL DEF Spec
-----------------------------------------------------------------------------
(* Jobs with a message id.                                                  *)

\* Jobs with a message id that the stream holds or a handler sends.
Tagged == {job \in Form!Job : /\ job.msgId # Form!NoMsgId
                              /\ \/ \E i \in 1..Len(stored) : stored[i] = job
                                 \/ \E t \in Form!Thread : thread[t].job = job}
TaggedSingle == {job \in Tagged : ~Burst(job)}
MsgIdsDiffer == \A i, k \in Form!Remembered :
                  stored[i].msgId = stored[k].msgId /\ stored[i].msgId # Form!NoMsgId => i = k
OneMsgIdEach == \A a, b \in Tagged : a.id = b.id => a.msgId = b.msgId
\* Before the first edit the fields count up and no job has a message id.
BeforeEdits == edits = 0 => /\ natsMsgId = Form!Blank /\ jobId \in 1..MaxNo
                            /\ TaggedSingle = {}
\* After one edit, a message id in its field is for a job id that is not behind
\* any that was sent with one.
AfterOneEdit == natsMsgId # Form!Blank =>
  /\ jobId \in 1..MaxNo
  /\ \A job \in TaggedSingle :
        /\ job.id[2] <= jobId
        /\ job.id[2] = jobId => job.msgId = <<0, natsMsgId>>
\* The fields still hold what is being sent.
SendIsShown ==
  LET now == thread["send"] IN
  now.at # "idle" =>
    /\ now.kind = "send" /\ now.job.id[1] = 0 /\ now.job.id[2] # MaxNo
    /\ now.job.msgId # Form!NoMsgId => natsMsgId # Form!Blank /\ now.job.msgId = <<0, natsMsgId>>
    /\ edits = 0 \/ natsMsgId # Form!Blank => now.job.id[2] = jobId
RetryInv == /\ MsgIdsDiffer
            /\ edits < 2 => OneMsgIdEach /\ BeforeEdits /\ AfterOneEdit /\ SendIsShown

LEMMA InitRetry == ASSUME Form!FormAssumption, Form!Init PROVE RetryInv
<1>1. stored = <<>> /\ forgotten = 0 /\ edits = 0 /\ jobId = 1 /\ natsMsgId = Form!Blank
      /\ \A t \in Form!Thread : thread[t] = Form!Rest
  BY DEF Form!Init
<1>2. Form!Rest.job.msgId = Form!NoMsgId /\ Form!Rest.at = "idle"
  BY DEF Form!Rest, Form!NoJob
<1>3. Tagged = {}
  BY <1>1, <1>2 DEF Tagged
<1>4. MsgIdsDiffer /\ OneMsgIdEach /\ AfterOneEdit
  <2>1. Form!Remembered = {}
    BY <1>1 DEF Form!Remembered
  <2> QED
    BY <1>1, <1>3, <2>1 DEF MsgIdsDiffer, OneMsgIdEach, AfterOneEdit
<1>5. BeforeEdits
  BY <1>1, <1>3, Bounds DEF BeforeEdits, TaggedSingle
<1>6. SendIsShown
  BY <1>1, <1>2 DEF SendIsShown, Form!Thread
<1> QED
  BY <1>4, <1>5, <1>6 DEF RetryInv

\* The stream drops a message id that it remembers, and forgets the oldest first.
LEMMA NextMsgIds ==
  ASSUME Form!TypeOK, MsgIdsDiffer, [Form!Next]_(Form!vars)
  PROVE  MsgIdsDiffer'
<1>1. /\ Len(stored) \in Nat /\ Len(stored') \in Nat /\ forgotten \in Nat /\ forgotten' \in Nat
      /\ forgotten <= forgotten'
  BY StreamGrows, ForgetsOnly
<1>2. CASE stored' = stored
  <2>1. Form!Remembered' \subseteq Form!Remembered
    BY <1>1, <1>2 DEF Form!Remembered
  <2> QED
    BY <1>2, <2>1 DEF MsgIdsDiffer
<1>3. ASSUME NEW t \in Form!Thread, ~Form!Known(thread[t].job.msgId), stored' = Append(stored, thread[t].job)
      PROVE  MsgIdsDiffer'
  <2> DEFINE job == thread[t].job
  <2>1. /\ job \in Form!Job /\ stored \in Seq(Form!Job) /\ stored' = Append(stored, job)
        /\ job.msgId # Form!NoMsgId => \A i \in Form!Remembered : stored[i].msgId # job.msgId
    BY <1>3, IdsArePairs, TypeParts DEF StreamFits, Form!Known
  <2> HIDE DEF job
  <2>2. /\ stored'[Len(stored) + 1] = job
        /\ \A i \in Form!Remembered : stored'[i] = stored[i]
        /\ Form!Remembered' \subseteq Form!Remembered \cup {Len(stored) + 1}
    BY <1>1, <2>1 DEF Form!Remembered
  <2>3. ASSUME NEW i \in Form!Remembered', NEW k \in Form!Remembered',
               stored'[i].msgId = stored'[k].msgId, stored'[i].msgId # Form!NoMsgId
        PROVE  i = k
    <3>1. CASE i \in Form!Remembered /\ k \in Form!Remembered
      BY <2>2, <2>3, <3>1 DEF MsgIdsDiffer
    <3>2. CASE i = Len(stored) + 1 /\ k \in Form!Remembered
      BY <2>1, <2>2, <2>3, <3>2
    <3>3. CASE k = Len(stored) + 1 /\ i \in Form!Remembered
      BY <2>1, <2>2, <2>3, <3>3
    <3> QED
      BY <2>2, <3>1, <3>2, <3>3
  <2> QED
    BY <2>3 DEF MsgIdsDiffer
<1> QED
  BY <1>2, <1>3, StreamStep

\* Only a burst and a send add a job with a message id.
LEMMA TaggedGrows ==
  ASSUME Form!FormAssumption, Form!TypeOK, BurstInv, [Form!Next]_(Form!vars), NEW job \in Tagged'
  PROVE  \/ job \in Tagged
         \/ Burst(job)
         \/ /\ BeginsSend("send") /\ natsMsgId # Form!Blank
            /\ job = [id |-> <<0, jobId>>, msgId |-> <<0, natsMsgId>>]
<1>1. job \in Form!Job /\ job.msgId # Form!NoMsgId
  BY DEF Tagged
<1>2. ASSUME NEW i \in 1..Len(stored'), stored'[i] = job
      PROVE  job \in Tagged
  <2>1. CASE i \in 1..Len(stored)
    BY <1>1, <1>2, <2>1, StreamGrows DEF Tagged
  <2>2. CASE i \notin 1..Len(stored)
    <3>1. PICK t \in Form!Thread : stored' = Append(stored, thread[t].job)
      BY <2>2, StreamStep
    <3>2. stored \in Seq(Form!Job) /\ thread[t].job \in Form!Job
      BY IdsArePairs, TypeParts DEF StreamFits
    <3>3. job = thread[t].job
      BY <1>2, <2>2, <3>1, <3>2
    <3> QED
      BY <1>1, <3>3 DEF Tagged
  <2> QED
    BY <2>1, <2>2
<1>3. ASSUME NEW u \in Form!Thread, thread'[u].job = job
      PROVE  \/ job \in Tagged
             \/ Burst(job)
             \/ /\ BeginsSend("send") /\ natsMsgId # Form!Blank
                /\ job = [id |-> <<0, jobId>>, msgId |-> <<0, natsMsgId>>]
  <2>1. CASE Keeps(u)
    <3>1. thread'[u] # Form!Rest
      BY <1>1, <1>3 DEF Form!Rest, Form!NoJob
    <3> QED
      BY <1>1, <1>3, <2>1, <3>1 DEF Keeps, Tagged
  <2>2. CASE Ends(u)
    BY <1>1, <1>3, <2>2 DEF Ends, Tagged
  <2>3. CASE BeginsSend(u)
    BY <1>1, <1>3, <2>3 DEF BeginsSend, Sends, Form!NoMsgId
  <2>4. CASE BeginsBurst(u)
    BY <1>3, <2>4 DEF BeginsBurst, Sends, Form!BatchJob, Burst
  <2>5. CASE Continues(u)
    <3>1. Burst(thread[u].job)
      BY <2>5 DEF Continues, BurstInv
    <3> QED
      BY <1>3, <2>5, <3>1 DEF Continues, Sends, Form!BatchJob, Burst
  <2> QED
    BY <2>1, <2>2, <2>3, <2>4, <2>5, HandlerStep
<1> QED
  BY <1>2, <1>3 DEF Tagged

LEMMA TaggedAreWellMade ==
  ASSUME BurstInv, NEW job \in Tagged
  PROVE  WellMade(job) /\ job \in Form!Job
BY DEF BurstInv, Tagged

LEMMA NextOneMsgId ==
  ASSUME Form!FormAssumption, Form!TypeOK, ReceiptInv, BurstInv, [Form!Next]_(Form!vars), OneMsgIdEach, AfterOneEdit
  PROVE  OneMsgIdEach'
<1> SUFFICES ASSUME NEW a \in Tagged', NEW b \in Tagged', a.id = b.id
             PROVE  a.msgId = b.msgId
  BY DEF OneMsgIdEach
<1>1. WellMade(a) /\ WellMade(b)
  <2>1. BurstInv'
    BY NextBurst
  <2> QED
    BY <2>1 DEF BurstInv, Tagged
<1>2. CASE Burst(a) \/ Burst(b)
  BY <1>1, <1>2 DEF Burst, WellMade
<1>3. ASSUME ~Burst(a), ~Burst(b), NEW c \in Tagged, ~Burst(c), natsMsgId # Form!Blank,
             c.id = <<0, jobId>>
      PROVE  c.msgId = <<0, natsMsgId>>
  BY <1>3 DEF AfterOneEdit, TaggedSingle
<1>4. CASE ~Burst(a) /\ ~Burst(b)
  <2> DEFINE new == [id |-> <<0, jobId>>, msgId |-> <<0, natsMsgId>>]
  <2>1. /\ a \in Tagged \/ (natsMsgId # Form!Blank /\ a = new)
        /\ b \in Tagged \/ (natsMsgId # Form!Blank /\ b = new)
    BY <1>4, TaggedGrows
  <2>2. new.id = <<0, jobId>> /\ new.msgId = <<0, natsMsgId>>
    OBVIOUS
  <2> HIDE DEF new
  <2> QED
    BY <1>3, <1>4, <2>1, <2>2 DEF OneMsgIdEach
<1> QED
  BY <1>2, <1>4

\* How the fields and the count of edits change.
LEMMA FieldStep ==
  ASSUME Form!TypeOK, [Form!Next]_(Form!vars)
  PROVE  /\ edits \in Nat /\ (edits' = edits \/ edits' = edits + 1)
         /\ \/ UNCHANGED <<jobId, natsMsgId>>
            \/ (Form!EditJobId \/ Form!EditMsgId) /\ edits' = edits + 1 /\ UNCHANGED <<thread, stored>>
            \/ Form!Return /\ UNCHANGED <<thread, stored>>
            \/ Form!SendDone
<1>1. edits \in Nat
  BY TypeParts DEF NumbersFit
<1>2. edits' = edits \/ edits' = edits + 1
  BY DEF Form!Next, Form!User, Form!Resume, Form!handleSend, Form!SendRejected,
    Form!BatchRejected, Form!handleBatchPublish, Form!EditJobId, Form!EditMsgId,
    Form!EditPayload, Form!formatPayloadJson, Form!resetToDefaultPayload, Form!Edit, Form!Click,
    Form!Leave, Form!Return, Form!Forget, Form!GoDown, Form!ComeBack, Form!Serve, Form!Lose,
    Form!SendDone, Form!BatchDone, Form!OldResumes, Form!Failure, Form!bounds, Form!vars
<1>3. CASE Form!EditJobId \/ Form!EditMsgId
  BY <1>1, <1>3 DEF Form!EditJobId, Form!EditMsgId, Form!Edit, Form!net
<1>4. CASE Form!Return
  BY <1>1, <1>2, <1>4 DEF Form!Return, Form!net
<1>5. CASE ~(Form!EditJobId \/ Form!EditMsgId \/ Form!Return \/ Form!SendDone)
  <2>1. UNCHANGED <<jobId, natsMsgId>>
    BY <1>5 DEF Form!Next, Form!User, Form!Resume, Form!handleSend, Form!SendRejected,
      Form!BatchRejected, Form!handleBatchPublish, Form!EditPayload, Form!formatPayloadJson,
      Form!resetToDefaultPayload, Form!Leave, Form!Forget, Form!GoDown, Form!ComeBack,
      Form!Serve, Form!Lose, Form!BatchDone, Form!OldResumes, Form!Failure, Form!form,
      Form!fields, Form!vars
  <2> QED
    BY <1>1, <1>2, <2>1
<1> QED
  BY <1>1, <1>2, <1>3, <1>4, <1>5

\* What is being sent counts up from the fields, as long as they show it.
LEMMA SentIsShown ==
  ASSUME Form!TypeOK, SendIsShown, BeforeEdits, Form!SendDone, edits = 0 \/ natsMsgId # Form!Blank
  PROVE  /\ thread["send"].job.id[2] = jobId /\ jobId # MaxNo
         /\ edits = 0 => thread["send"].job.msgId = Form!NoMsgId
BY DEF SendIsShown, BeforeEdits, Form!SendDone

LEMMA NextBeforeEdits ==
  ASSUME Form!FormAssumption, Form!TypeOK, BurstInv, BeforeEdits, SendIsShown, [Form!Next]_(Form!vars)
  PROVE  BeforeEdits'
<1> SUFFICES ASSUME edits' = 0
             PROVE  natsMsgId' = Form!Blank /\ jobId' \in 1..MaxNo /\ TaggedSingle' = {}
  BY DEF BeforeEdits
<1>1. edits = 0 /\ natsMsgId = Form!Blank /\ jobId \in 1..MaxNo /\ TaggedSingle = {}
  BY FieldStep DEF BeforeEdits
<1>2. TaggedSingle' = {}
  BY <1>1, TaggedGrows DEF TaggedSingle, Burst
<1>3. natsMsgId' = Form!Blank /\ jobId' \in 1..MaxNo
  <2>1. CASE UNCHANGED <<jobId, natsMsgId>>
    BY <1>1, <2>1
  <2>2. CASE Form!Return
    BY <2>2 DEF Form!Return, Form!Fresh
  <2>3. CASE Form!SendDone
    <3>1. thread["send"].job.id[2] = jobId /\ jobId # MaxNo /\ thread["send"].job.msgId = Form!NoMsgId
      BY <1>1, <2>3, SentIsShown
    <3>2. jobId # Form!Named /\ jobId + 1 \in 1..MaxNo
      BY <1>1, <3>1, Bounds DEF Form!Named
    <3>3. jobId' \in Form!Following(jobId) /\ natsMsgId' = natsMsgId
      BY <2>3, <3>1 DEF Form!SendDone, Form!AfterSend
    <3> QED
      BY <1>1, <3>2, <3>3 DEF Form!Following
  <2> QED
    BY <1>1, <2>1, <2>2, <2>3, FieldStep
<1> QED
  BY <1>2, <1>3

\* No other job counts as a new one in a step that changes the fields.
LEMMA FieldsChangeAlone ==
  ASSUME Form!FormAssumption, Form!TypeOK, BurstInv, [Form!Next]_(Form!vars),
         ((Form!EditJobId \/ Form!EditMsgId \/ Form!Return) /\ UNCHANGED <<thread, stored>>) \/ Form!SendDone
  PROVE  TaggedSingle' \subseteq TaggedSingle
<1>1. CASE UNCHANGED <<thread, stored>>
  BY <1>1 DEF TaggedSingle, Tagged
<1>2. CASE Form!SendDone
  <2>1. thread'["send"] = Form!Rest
    BY <1>2, TypeParts DEF Form!SendDone, CallsFit, Form!Thread
  <2>2. ~BeginsSend("send")
    BY <2>1 DEF BeginsSend, Sends, Form!Rest
  <2> QED
    BY <2>2, TaggedGrows DEF TaggedSingle, Burst
<1> QED
  BY <1>1, <1>2

LEMMA NextAfterOneEdit ==
  ASSUME Form!FormAssumption, Form!TypeOK, BurstInv, BeforeEdits, AfterOneEdit, SendIsShown, [Form!Next]_(Form!vars),
         edits' < 2
  PROVE  AfterOneEdit'
<1> SUFFICES ASSUME natsMsgId' # Form!Blank
             PROVE  /\ jobId' \in 1..MaxNo
                    /\ \A job \in TaggedSingle' :
                          /\ job.id[2] <= jobId'
                          /\ job.id[2] = jobId' => job.msgId = <<0, natsMsgId'>>
  BY DEF AfterOneEdit
<1>0. MaxNo \in Nat /\ \A job \in TaggedSingle : job.id[2] \in Nat
  BY Bounds DEF TaggedSingle, Tagged, Form!Job, Form!Id, Form!Field
<1>1. CASE UNCHANGED <<jobId, natsMsgId>>
  <2>1. ASSUME NEW job \in TaggedSingle', job \notin TaggedSingle
        PROVE  job.id[2] = jobId /\ job.msgId = <<0, natsMsgId>>
    <3>1. job = [id |-> <<0, jobId>>, msgId |-> <<0, natsMsgId>>]
      BY <2>1, TaggedGrows DEF TaggedSingle, Burst
    <3> QED
      BY <3>1
  <2>2. jobId \in 1..MaxNo /\ jobId' = jobId /\ natsMsgId' = natsMsgId
    BY <1>1 DEF AfterOneEdit
  <2> QED
    BY <1>0, <2>1, <2>2 DEF AfterOneEdit
<1>2. CASE (Form!EditJobId \/ Form!EditMsgId) /\ edits' = edits + 1 /\ UNCHANGED <<thread, stored>>
  <2>1. edits = 0
    BY <1>2, FieldStep
  <2>2. natsMsgId = Form!Blank /\ jobId \in 1..MaxNo /\ TaggedSingle = {}
    BY <2>1 DEF BeforeEdits
  <2>3. jobId' = jobId
    BY <1>2, <2>2 DEF Form!EditJobId, Form!EditMsgId
  <2> QED
    BY <1>2, <2>2, <2>3, FieldsChangeAlone
<1>3. CASE Form!Return
  BY <1>3 DEF Form!Return, Form!Fresh
<1>4. CASE Form!SendDone
  <2>1. natsMsgId # Form!Blank
    <3>1. CASE thread["send"].job.msgId = Form!NoMsgId
      BY <1>4, <3>1 DEF Form!SendDone, Form!AfterSend
    <3>2. CASE thread["send"].job.msgId # Form!NoMsgId
      BY <1>4, <3>2 DEF Form!SendDone, SendIsShown
    <3> QED
      BY <3>1, <3>2
  <2>2. jobId \in 1..MaxNo /\ thread["send"].job.id[2] = jobId /\ jobId # MaxNo
    BY <1>4, <2>1, SentIsShown DEF AfterOneEdit
  <2>3. jobId' \in Form!Following(jobId)
    BY <1>4, <2>2 DEF Form!SendDone, Form!AfterSend
  <2>4. jobId' = jobId + 1 /\ jobId' \in 1..MaxNo
    BY <1>0, <2>2, <2>3 DEF Form!Following, Form!Named
  <2>5. \A job \in TaggedSingle' : job \in TaggedSingle /\ job.id[2] < jobId'
    BY <1>0, <1>4, <2>1, <2>4, FieldsChangeAlone DEF AfterOneEdit
  <2> QED
    BY <1>0, <2>4, <2>5
<1> QED
  BY <1>1, <1>2, <1>3, <1>4, FieldStep

LEMMA NextSendIsShown ==
  ASSUME Form!FormAssumption, Form!TypeOK, SubmitInv, BeforeEdits, SendIsShown, [Form!Next]_(Form!vars), edits' < 2
  PROVE  SendIsShown'
<1> DEFINE now == thread["send"]
<1> SUFFICES ASSUME thread'["send"].at # "idle"
             PROVE  /\ thread'["send"].kind = "send" /\ thread'["send"].job.id[1] = 0
                    /\ thread'["send"].job.id[2] # MaxNo
                    /\ thread'["send"].job.msgId # Form!NoMsgId
                         => natsMsgId' # Form!Blank /\ thread'["send"].job.msgId = <<0, natsMsgId'>>
                    /\ edits' = 0 \/ natsMsgId' # Form!Blank => thread'["send"].job.id[2] = jobId'
  BY DEF SendIsShown
<1>1. CASE BeginsSend("send")
  <2>1. /\ thread'["send"].kind = "send"
        /\ thread'["send"].job = [id |-> <<0, jobId>>, msgId |-> <<0, natsMsgId>>]
    BY <1>1 DEF BeginsSend, Sends
  <2>2. jobId # MaxNo /\ jobId' = jobId /\ natsMsgId' = natsMsgId
    BY <1>1 DEF BeginsSend, Form!handleSend, Form!fields
  <2> QED
    BY <2>1, <2>2 DEF Form!NoMsgId
<1>2. CASE ~BeginsSend("send")
  <2>1. /\ now.at # "idle" /\ thread'["send"].job = now.job /\ thread'["send"].kind = now.kind
    <3>1. Keeps("send") \/ Ends("send") \/ Continues("send")
      BY <1>2, HandlerStep DEF Form!Thread, BeginsBurst
    <3>2. CASE Keeps("send")
      BY <3>2 DEF Keeps, Form!Rest
    <3>3. CASE Ends("send")
      BY <3>3 DEF Ends
    <3>4. CASE Continues("send")
      BY <3>4 DEF Continues, SendIsShown
    <3> QED
      BY <3>1, <3>2, <3>3, <3>4
  <2>2. /\ now.kind = "send" /\ now.job.id[1] = 0 /\ now.job.id[2] # MaxNo
        /\ now.job.msgId # Form!NoMsgId => natsMsgId # Form!Blank /\ now.job.msgId = <<0, natsMsgId>>
        /\ edits = 0 \/ natsMsgId # Form!Blank => now.job.id[2] = jobId
    BY <2>1 DEF SendIsShown
  <2> HIDE DEF now
  <2>3. CASE UNCHANGED <<jobId, natsMsgId>>
    BY <2>1, <2>2, <2>3, FieldStep
  <2>4. CASE (Form!EditJobId \/ Form!EditMsgId) /\ edits' = edits + 1
    <3>1. edits = 0 /\ edits' # 0
      BY <2>4, FieldStep
    <3>2. natsMsgId = Form!Blank /\ now.job.msgId = Form!NoMsgId /\ now.job.id[2] = jobId
      BY <2>2, <3>1 DEF BeforeEdits
    <3> QED
      BY <2>1, <2>2, <2>4, <3>1, <3>2 DEF Form!EditJobId, Form!EditMsgId
  <2>5. CASE Form!Return
    BY <2>1, <2>5 DEF Form!Return, SubmitInv, HandlersRest, Form!Rest, now
  <2>6. CASE Form!SendDone
    <3>1. thread'["send"] = Form!Rest
      BY <2>6, TypeParts DEF Form!SendDone, CallsFit, Form!Thread
    <3> QED
      BY <3>1 DEF Form!Rest
  <2> QED
    BY <2>3, <2>4, <2>5, <2>6, FieldStep
<1> QED
  BY <1>1, <1>2

LEMMA NextRetry ==
  ASSUME Form!FormAssumption, Form!TypeOK, SubmitInv, ReceiptInv, BurstInv, RetryInv, [Form!Next]_(Form!vars)
  PROVE  RetryInv'
<1>1. MsgIdsDiffer'
  BY NextMsgIds DEF RetryInv
<1>2. ASSUME edits' < 2
      PROVE  OneMsgIdEach' /\ BeforeEdits' /\ AfterOneEdit' /\ SendIsShown'
  <2>1. edits < 2
    BY <1>2, FieldStep
  <2>2. OneMsgIdEach /\ BeforeEdits /\ AfterOneEdit /\ SendIsShown
    BY <2>1 DEF RetryInv
  <2> QED
    BY <1>2, <2>2, NextOneMsgId, NextBeforeEdits, NextAfterOneEdit, NextSendIsShown
<1> QED
  BY <1>1, <1>2 DEF RetryInv

LEMMA RetryIsEnough == ASSUME Form!TypeOK, RetryInv PROVE Form!RetryIsSuppressed
<1> SUFFICES ASSUME NEW i \in Form!Remembered, NEW k \in Form!Remembered,
                    stored[i].id = stored[k].id,
                    stored[i].msgId # Form!NoMsgId, stored[k].msgId # Form!NoMsgId, ~(edits >= 2)
             PROVE  i = k
  BY DEF Form!RetryIsSuppressed
<1>1. edits < 2
  BY TypeParts DEF NumbersFit
<1>2. stored[i] \in Tagged /\ stored[k] \in Tagged
  <2>1. Form!Remembered \subseteq 1..Len(stored)
    BY TypeParts DEF StreamFits, Form!Remembered
  <2> QED
    BY <2>1, IdsArePairs DEF Tagged
<1>3. stored[i].msgId = stored[k].msgId
  BY <1>1, <1>2 DEF RetryInv, OneMsgIdEach
<1> QED
  BY <1>3 DEF RetryInv, MsgIdsDiffer

(* Within the duplicate window and between resets of the stream, a job sent    *)
(* with a message id is stored once although the answer was lost and the user  *)
(* published it again: until a second edit the fields offer a failed job again *)
(* with the message id that it had, and no job id comes back with another one  *)
(* (CoreFlowPublisher.tsx: handleSend moves the ids on after a success only;   *)
(* streams.go:17: the window of 2 minutes).                                    *)
THEOREM RetriesAreSuppressed == Spec => []RetryIsSuppressed
<1>1. Init => SubmitInv /\ ReceiptInv /\ BurstInv /\ RetryInv
  BY PanelsAssumption, InitSubmit, InitReceipts, InitBurst, InitRetry DEF Init
<1>2. Form!TypeOK /\ SubmitInv /\ ReceiptInv /\ BurstInv /\ RetryInv /\ [Next]_vars
        => SubmitInv' /\ ReceiptInv' /\ BurstInv' /\ RetryInv'
  BY PanelsAssumption, FormSteps, NextSubmit, NextReceipts, NextBurst, NextRetry
<1>3. Form!TypeOK /\ RetryInv => RetryIsSuppressed
  BY RetryIsEnough DEF RetryIsSuppressed
<1> QED
  BY <1>1, <1>2, <1>3, FormTypes, PTL DEF Spec
=============================================================================

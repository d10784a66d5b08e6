----------------------------- MODULE FormsProofs ------------------------------
(***************************************************************************)
(* Theorems of the forms that MCForms checks one beside the other:         *)
(* validation by request and reply, the retry lab and replay, for any      *)
(* number of requests, faults and messages.                                *)
(***************************************************************************)
EXTENDS MCForms, Integers, Sequences, SequenceTheorems, TLAPS

-----------------------------------------------------------------------------
(* ValidateJob.                                                            *)

ValidateServer == [up: BOOLEAN, processing: BOOLEAN, changes: 0..MaxChanges, last: 0..MaxRequests,
                   events: [Validate!Request -> SUBSET Validate!RR_EVENTS],
                   inbox: SUBSET [request: Validate!Request, look: Validate!Look],
                   replies: SUBSET [request: Validate!Request, verdict: {"SUCCESS", "INVALID"}]]
ValidatePanel == [activities: [Validate!Request -> SUBSET Validate!RR_EVENTS],
                  isSending: BOOLEAN, jsonError: BOOLEAN, result: Validate!Verdict \cup {None},
                  lastJob: Validate!Request \cup {None}, isSubmitting: BOOLEAN,
                  isValidating: BOOLEAN, formError: BOOLEAN, success: BOOLEAN, error: BOOLEAN]
ValidateTypes == /\ validateServer \in ValidateServer /\ validatePanel \in ValidatePanel
                 /\ validateFlight \in [Validate!Form -> Validate!Waiting \cup {None}]

\* What the events of a request say, once it ended in that way.
Announced(events, how) ==
  CASE how = "TIMEOUT" -> "REQUEST_TIMEOUT" \in events /\ "REPLY_RECEIVED" \notin events
    [] how \in {"SUCCESS", "INVALID"} -> /\ {"REPLY_SENT", "REPLY_RECEIVED"} \subseteq events
                                         /\ "REQUEST_TIMEOUT" \notin events
    [] OTHER -> TRUE
Open(events) == "REPLY_RECEIVED" \notin events /\ "REQUEST_TIMEOUT" \notin events

\* A request is sent once, by one form.
RequestsDiffer ==
  /\ \A f \in Validate!Form : validateFlight[f] # None => validateFlight[f].request <= validateServer.last
  /\ validateFlight["request-reply"] # None /\ validateFlight["job"] # None =>
       validateFlight["request-reply"].request # validateFlight["job"].request
\* Only the form that waits ends its request: nobody announced an end of one that is
\* under way, or that was not sent yet.
EndsOnce ==
  /\ \A r \in Validate!Request : r > validateServer.last => Open(validateServer.events[r])
  /\ \A f \in Validate!Form : validateFlight[f] # None /\ validateFlight[f].at \in {"sent", "asked"} =>
       Open(validateServer.events[validateFlight[f].request])
  /\ \A f \in Validate!Form : validateFlight[f] # None /\ validateFlight[f].at = "answered" =>
       Announced(validateServer.events[validateFlight[f].request], validateFlight[f].answer)
  /\ \A reply \in validateServer.replies : "REPLY_SENT" \in validateServer.events[reply.request]
\* The request of the panel is its last one, and no other form has it.
LastIsShown ==
  /\ validatePanel.lastJob # None => validatePanel.lastJob <= validateServer.last
  /\ validatePanel.lastJob # None /\ validateFlight["job"] # None => validateFlight["job"].request # validatePanel.lastJob
  /\ validateFlight["request-reply"] # None =>
       /\ validatePanel.lastJob = validateFlight["request-reply"].request /\ validatePanel.result = None
       /\ validateFlight["request-reply"].at # "submit"
       /\ validateFlight["request-reply"].at = "answered" => validateFlight["request-reply"].answer # "accepted"
  /\ validatePanel.result # None => /\ validatePanel.lastJob # None
                                    /\ Announced(validateServer.events[validatePanel.lastJob], validatePanel.result)
ValidateInv == ValidateTypes /\ RequestsDiffer /\ EndsOnce /\ LastIsShown

LEMMA ValidateBounds ==
  ASSUME Validate!ValidateAssumption
  PROVE  /\ MaxRequests \in Nat /\ MaxChanges \in Nat
         /\ \A r \in Validate!Request : r \in Nat /\ r >= 1 /\ r <= MaxRequests /\ r # None
         /\ \A v \in Validate!Verdict : v # None
         /\ \A w \in Validate!Waiting : w # None
<1>1. MaxRequests \in Nat /\ MaxChanges \in Nat
  BY DEF Validate!ValidateAssumption
<1> QED
  BY <1>1 DEF Validate!ValidateAssumption, Validate!Request

LEMMA ValidateInit ==
  ASSUME Validate!ValidateAssumption, Validate!Init
  PROVE  ValidateInv
<1>1. validateServer \in ValidateServer
  BY ValidateBounds DEF Validate!Init, ValidateServer
<1>2. validatePanel \in ValidatePanel /\ validateFlight \in [Validate!Form -> Validate!Waiting \cup {None}]
  BY DEF Validate!Init, ValidatePanel
<1>3. \A f \in Validate!Form : validateFlight[f] = None
  BY DEF Validate!Init
<1>4. {"request-reply", "job"} = Validate!Form
  BY DEF Validate!Form
<1>5. \A r \in Validate!Request : validateServer.events[r] = {}
  BY DEF Validate!Init
<1>6. validateServer.replies = {} /\ validatePanel.lastJob = None /\ validatePanel.result = None
  BY DEF Validate!Init
<1>7. RequestsDiffer
  BY <1>3, <1>4 DEF RequestsDiffer
<1>8. EndsOnce
  BY <1>3, <1>5, <1>6 DEF EndsOnce, Open
<1>9. LastIsShown
  BY <1>3, <1>4, <1>6 DEF LastIsShown
<1> QED
  BY <1>1, <1>2, <1>7, <1>8, <1>9 DEF ValidateInv, ValidateTypes

\* A step that no form takes part in announces no end.
LEMMA ValidateRests ==
  ASSUME Validate!ValidateAssumption, ValidateInv, validateFlight' = validateFlight,
         validateServer' \in ValidateServer, validateServer'.last = validateServer.last,
         \A r \in Validate!Request :
           /\ validateServer.events[r] \subseteq validateServer'.events[r]
           /\ "REPLY_RECEIVED" \in validateServer'.events[r] => "REPLY_RECEIVED" \in validateServer.events[r]
           /\ "REQUEST_TIMEOUT" \in validateServer'.events[r] => "REQUEST_TIMEOUT" \in validateServer.events[r],
         \A reply \in validateServer'.replies : "REPLY_SENT" \in validateServer'.events[reply.request],
         validatePanel' \in ValidatePanel, validatePanel'.lastJob = validatePanel.lastJob,
         validatePanel'.result = validatePanel.result \/ validatePanel'.result = None
  PROVE  ValidateInv'
<1>1. /\ validateServer \in ValidateServer /\ validatePanel \in ValidatePanel
      /\ validateFlight \in [Validate!Form -> Validate!Waiting \cup {None}]
  BY DEF ValidateInv, ValidateTypes
<1>2. /\ \A r \in Validate!Request : Open(validateServer.events[r]) => Open(validateServer'.events[r])
      /\ \A r \in Validate!Request : \A how :
           Announced(validateServer.events[r], how) => Announced(validateServer'.events[r], how)
  BY DEF Open, Announced
<1>3. \A f \in Validate!Form : validateFlight[f] # None => validateFlight[f].request \in Validate!Request
  BY <1>1 DEF Validate!Waiting
<1>4. RequestsDiffer'
  BY DEF ValidateInv, RequestsDiffer
<1>5. EndsOnce'
  BY <1>2, <1>3 DEF ValidateInv, EndsOnce
<1>6. LastIsShown'
  <2>1. validatePanel.lastJob # None => validatePanel.lastJob \in Validate!Request
    BY <1>1 DEF ValidatePanel
  <2> QED
    BY <1>2, <2>1 DEF ValidateInv, LastIsShown
<1> QED
  BY <1>1, <1>4, <1>5, <1>6 DEF ValidateInv, ValidateTypes

\* A form that waits goes on with its own request.
LEMMA ValidateMoves ==
  ASSUME Validate!ValidateAssumption, ValidateInv,
         NEW f \in Validate!Form, NEW call \in Validate!Waiting,
         validateFlight[f] # None, validateFlight' = [validateFlight EXCEPT ![f] = call], validatePanel' = validatePanel,
         call.request = validateFlight[f].request,
         f = "request-reply" => call.at # "submit",
         f = "request-reply" /\ call.at = "answered" => call.answer # "accepted",
         validateServer' \in ValidateServer, validateServer'.last = validateServer.last,
         \A r \in Validate!Request : r # call.request => validateServer'.events[r] = validateServer.events[r],
         \A reply \in validateServer'.replies : "REPLY_SENT" \in validateServer'.events[reply.request],
         call.at \in {"sent", "asked"} => Open(validateServer'.events[call.request]),
         call.at = "answered" => Announced(validateServer'.events[call.request], call.answer)
  PROVE  ValidateInv'
<1>1. /\ validateServer \in ValidateServer /\ validatePanel \in ValidatePanel
      /\ validateFlight \in [Validate!Form -> Validate!Waiting \cup {None}]
  BY DEF ValidateInv, ValidateTypes
<1>2. call # None
  BY ValidateBounds
<1>3. /\ validateFlight' \in [Validate!Form -> Validate!Waiting \cup {None}] /\ validateFlight'[f] = call
      /\ \A g \in Validate!Form \ {f} : validateFlight'[g] = validateFlight[g]
  BY <1>1
<1>4. Validate!Form = {"request-reply", "job"}
  BY DEF Validate!Form
<1>5. \A g \in Validate!Form : validateFlight[g] # None => validateFlight[g].request \in Validate!Request
  BY <1>1 DEF Validate!Waiting
<1>6. \A g \in Validate!Form \ {f} : validateFlight[g] # None => validateFlight[g].request # call.request
  BY <1>4 DEF ValidateInv, RequestsDiffer
<1>7. \A g \in Validate!Form : validateFlight'[g] # None => validateFlight[g] # None /\ validateFlight'[g].request = validateFlight[g].request
  BY <1>3
<1>8. RequestsDiffer'
  BY <1>4, <1>7 DEF ValidateInv, RequestsDiffer
<1>9. EndsOnce'
  <2>1. \A r \in Validate!Request : r > validateServer'.last => Open(validateServer'.events[r])
    <3>1. call.request <= validateServer.last /\ call.request \in Nat /\ validateServer.last \in Nat
      BY <1>1, <1>5, ValidateBounds DEF ValidateInv, RequestsDiffer, ValidateServer
    <3> QED
      BY <3>1, ValidateBounds DEF ValidateInv, EndsOnce
  <2>2. \A g \in Validate!Form \ {f} : validateFlight[g] # None =>
          validateServer'.events[validateFlight[g].request] = validateServer.events[validateFlight[g].request]
    BY <1>5, <1>6
  <2>3. \A g \in Validate!Form : validateFlight'[g] # None /\ validateFlight'[g].at \in {"sent", "asked"} =>
          Open(validateServer'.events[validateFlight'[g].request])
    BY <1>3, <2>2 DEF ValidateInv, EndsOnce
  <2>4. \A g \in Validate!Form : validateFlight'[g] # None /\ validateFlight'[g].at = "answered" =>
          Announced(validateServer'.events[validateFlight'[g].request], validateFlight'[g].answer)
    BY <1>3, <2>2 DEF ValidateInv, EndsOnce
  <2> QED
    BY <2>1, <2>3, <2>4 DEF EndsOnce
<1>10. LastIsShown'
  <2>1. validatePanel.result # None => validateServer'.events[validatePanel.lastJob] = validateServer.events[validatePanel.lastJob]
    <3>1. SUFFICES ASSUME validatePanel.result # None
                   PROVE  validateServer'.events[validatePanel.lastJob] = validateServer.events[validatePanel.lastJob]
      OBVIOUS
    <3>2. validatePanel.lastJob \in Validate!Request /\ f = "job"
      BY <1>1, <1>4, <3>1 DEF ValidateInv, LastIsShown, ValidatePanel
    <3>3. call.request # validatePanel.lastJob
      BY <3>2, ValidateBounds DEF ValidateInv, LastIsShown
    <3> QED
      BY <3>2, <3>3
  <2> QED
    BY <1>2, <1>3, <1>4, <1>7, <2>1 DEF ValidateInv, LastIsShown
<1> QED
  BY <1>1, <1>3, <1>8, <1>9, <1>10 DEF ValidateInv, ValidateTypes

\* A form sends a request of its own.
LEMMA ValidatePosts ==
  ASSUME Validate!ValidateAssumption, ValidateInv,
         NEW f \in Validate!Form, NEW step \in {"sent", "submit"}, NEW look \in Validate!Look,
         Validate!Post(f, step, look), validatePanel' \in ValidatePanel,
         f = "job" => validatePanel'.lastJob = validatePanel.lastJob /\ validatePanel'.result = validatePanel.result,
         f = "request-reply" => /\ step = "sent" /\ validatePanel'.lastJob = validateServer.last + 1
                                /\ validatePanel'.result = None
  PROVE  ValidateInv'
<1> DEFINE n == validateServer.last + 1
           call == [at |-> step, request |-> n, look |-> look, answer |-> None]
<1>1. /\ validateServer \in ValidateServer /\ validatePanel \in ValidatePanel
      /\ validateFlight \in [Validate!Form -> Validate!Waiting \cup {None}]
  BY DEF ValidateInv, ValidateTypes
<1>2. /\ validateServer.last \in Nat /\ n \in 0..MaxRequests /\ n \in Validate!Request
      /\ \A r \in Validate!Request : r <= validateServer.last => r # n
  BY <1>1, ValidateBounds DEF Validate!Post, ValidateServer, Validate!Request
<1>3. /\ validateServer' \in ValidateServer /\ validateServer'.last = n
      /\ validateServer'.events = validateServer.events /\ validateServer'.replies = validateServer.replies
  BY <1>1, <1>2 DEF Validate!Post, ValidateServer
<1>4. call \in Validate!Waiting /\ call # None /\ call.request = n /\ call.at = step
  <2>1. call \in Validate!Waiting
    BY <1>2 DEF Validate!Waiting
  <2> QED
    BY <2>1, ValidateBounds
<1>5. validateFlight' = [validateFlight EXCEPT ![f] = call]
  BY DEF Validate!Post
<1>6. n = validateServer.last + 1 /\ n # None
  BY <1>2, ValidateBounds
<1> HIDE DEF n, call
<1>7. /\ validateFlight' \in [Validate!Form -> Validate!Waiting \cup {None}] /\ validateFlight'[f] = call
      /\ \A g \in Validate!Form \ {f} : validateFlight'[g] = validateFlight[g]
  BY <1>1, <1>4, <1>5
<1>8. Validate!Form = {"request-reply", "job"}
  BY DEF Validate!Form
<1>9. \A g \in Validate!Form : validateFlight[g] # None =>
        /\ validateFlight[g].request \in Validate!Request /\ validateFlight[g].request <= validateServer.last
  BY <1>1 DEF Validate!Waiting, ValidateInv, RequestsDiffer
<1>10. \A r \in Validate!Request : r \in Nat
  BY ValidateBounds
<1>11. RequestsDiffer'
  <2>1. \A g \in Validate!Form : validateFlight'[g] # None => validateFlight'[g].request <= validateServer'.last
    <3>1. \A r \in Validate!Request : r <= validateServer.last => r <= n
      BY <1>2, <1>6, <1>10
    <3>2. n <= n
      BY <1>2, <1>6
    <3> QED
      BY <1>3, <1>4, <1>7, <1>9, <3>1, <3>2
  <2>2. \A g \in Validate!Form \ {f} : validateFlight[g] # None => validateFlight[g].request # n
    BY <1>2, <1>9
  <2> QED
    BY <1>4, <1>7, <1>8, <2>1, <2>2 DEF RequestsDiffer
<1>12. EndsOnce'
  <2>1. \A r \in Validate!Request : r > validateServer'.last => Open(validateServer'.events[r])
    <3>1. \A r \in Validate!Request : r > n => r > validateServer.last
      BY <1>2, <1>6, <1>10
    <3> QED
      BY <1>3, <3>1 DEF ValidateInv, EndsOnce
  <2>2. Open(validateServer'.events[n])
    BY <1>2, <1>3, <1>6 DEF ValidateInv, EndsOnce
  <2> QED
    BY <1>3, <1>4, <1>7, <2>1, <2>2 DEF ValidateInv, EndsOnce
<1>13. LastIsShown'
  <2>1. validatePanel.lastJob # None => /\ validatePanel.lastJob \in Validate!Request
                                        /\ validatePanel.lastJob <= validateServer.last
    BY <1>1 DEF ValidatePanel, ValidateInv, LastIsShown
  <2>2. CASE f = "job"
    <3>1. validatePanel.lastJob # None => /\ validatePanel.lastJob <= validateServer'.last
                                          /\ validatePanel.lastJob # n
      <4>1. validatePanel.lastJob # None => /\ validatePanel.lastJob \in Nat
                                            /\ validatePanel.lastJob # n
        BY <1>2, <2>1, ValidateBounds
      <4>2. validateServer.last <= n /\ validateServer'.last = n /\ n \in Nat
        BY <1>2, <1>3
      <4> QED
        BY <1>2, <2>1, <4>1, <4>2
    <3>2. "request-reply" \in Validate!Form \ {f} /\ validateFlight'["job"] = call
      BY <1>7, <1>8, <2>2
    <3> QED
      BY <1>3, <1>4, <1>7, <2>2, <3>1, <3>2 DEF ValidateInv, LastIsShown
  <2>3. CASE f = "request-reply"
    <3>1. validatePanel'.lastJob = n /\ validatePanel'.result = None /\ n <= validateServer'.last
      BY <1>2, <1>3, <1>6, <2>3
    <3>2. "job" \in Validate!Form \ {f} /\ validateFlight'["request-reply"] = call
      BY <1>7, <1>8, <2>3
    <3>3. validateFlight'["job"] # None => validateFlight'["job"].request # n
      BY <1>2, <1>7, <1>9, <3>2
    <3> QED
      BY <1>4, <2>3, <3>1, <3>2, <3>3 DEF LastIsShown
  <2> QED
    BY <1>8, <2>2, <2>3
<1> QED
  BY <1>3, <1>7, <1>11, <1>12, <1>13 DEF ValidateInv, ValidateTypes

\* A form that comes back shows how its request ended; the job form shows no result.
LEMMA ValidateReturns ==
  ASSUME Validate!ValidateAssumption, ValidateInv, NEW f \in Validate!Form,
         validateFlight[f] # None, validateFlight[f].at = "answered", Validate!Done(f), validateServer' = validateServer,
         validatePanel' \in ValidatePanel, validatePanel'.lastJob = validatePanel.lastJob,
         \/ validatePanel'.result = validatePanel.result
         \/ f = "request-reply" /\ validatePanel'.result = validateFlight[f].answer
  PROVE  ValidateInv'
<1>1. /\ validateServer \in ValidateServer /\ validatePanel \in ValidatePanel
      /\ validateFlight \in [Validate!Form -> Validate!Waiting \cup {None}]
  BY DEF ValidateInv, ValidateTypes
<1>2. /\ validateFlight' \in [Validate!Form -> Validate!Waiting \cup {None}] /\ validateFlight'[f] = None
      /\ \A g \in Validate!Form \ {f} : validateFlight'[g] = validateFlight[g]
  BY <1>1 DEF Validate!Done
<1>3. Validate!Form = {"request-reply", "job"}
  BY DEF Validate!Form
<1>4. RequestsDiffer' /\ EndsOnce'
  BY <1>2, <1>3 DEF ValidateInv, RequestsDiffer, EndsOnce
<1>5. LastIsShown'
  <2>1. CASE validatePanel'.result = validatePanel.result
    BY <1>2, <1>3, <2>1 DEF ValidateInv, LastIsShown
  <2>2. CASE f = "request-reply" /\ validatePanel'.result = validateFlight[f].answer
    <3>1. validatePanel.lastJob = validateFlight[f].request /\ validatePanel.lastJob # None
      BY <1>1, <2>2, ValidateBounds DEF ValidateInv, LastIsShown, Validate!Waiting
    <3>2. Announced(validateServer.events[validatePanel.lastJob], validatePanel'.result)
      BY <2>2, <3>1 DEF ValidateInv, EndsOnce
    <3> QED
      BY <1>2, <1>3, <2>2, <3>1, <3>2 DEF ValidateInv, LastIsShown
  <2> QED
    BY <2>1, <2>2
<1> QED
  BY <1>1, <1>2, <1>4, <1>5 DEF ValidateInv, ValidateTypes

\* The forms, up to their await.
LEMMA ValidateUser ==
  ASSUME Validate!ValidateAssumption, ValidateInv, NEW look \in Validate!Look,
         \/ Validate!SendUnparsed \/ Validate!handleSend(look)
         \/ Validate!handleValidate(look) \/ Validate!handleSubmit(look)
  PROVE  ValidateInv'
<1>1. validatePanel \in ValidatePanel /\ validateServer \in ValidateServer
  BY DEF ValidateInv, ValidateTypes
<1>2. Validate!Form = {"request-reply", "job"}
  BY DEF Validate!Form
<1>3. \A reply \in validateServer.replies : "REPLY_SENT" \in validateServer.events[reply.request]
  BY DEF ValidateInv, EndsOnce
<1>4. CASE Validate!SendUnparsed
  <2>1. validatePanel' = [validatePanel EXCEPT !.jsonError = TRUE, !.result = None]
        /\ validateFlight' = validateFlight /\ validateServer' = validateServer
    BY <1>4 DEF Validate!SendUnparsed
  <2>2. validatePanel' \in ValidatePanel /\ validatePanel'.lastJob = validatePanel.lastJob /\ validatePanel'.result = None
    BY <1>1, <2>1 DEF ValidatePanel
  <2> QED
    BY <1>1, <1>3, <2>1, <2>2, ValidateRests
<1>5. CASE Validate!handleSend(look)
  <2> DEFINE n == validateServer.last + 1
  <2>1. Validate!Post("request-reply", "sent", look)
        /\ validatePanel' = [validatePanel EXCEPT !.jsonError = FALSE, !.result = None, !.isSending = TRUE,
                                                  !.lastJob = n]
    BY <1>5 DEF Validate!handleSend
  <2>2. n \in Validate!Request
    BY <1>1, <2>1, ValidateBounds DEF Validate!Post, ValidateServer, Validate!Request
  <2>3. n = validateServer.last + 1
    OBVIOUS
  <2> HIDE DEF n
  <2>4. validatePanel' \in ValidatePanel /\ validatePanel'.lastJob = n /\ validatePanel'.result = None
    BY <1>1, <2>1, <2>2 DEF ValidatePanel
  <2> QED
    BY <1>2, <2>1, <2>3, <2>4, ValidatePosts
<1>6. CASE Validate!handleValidate(look) \/ Validate!handleSubmit(look)
  <2>1. \/ validatePanel' = [validatePanel EXCEPT !.formError = TRUE] /\ validateServer' = validateServer /\ validateFlight' = validateFlight
        \/ \E step \in {"sent", "submit"} :
             /\ Validate!Post("job", step, look)
             /\ \/ validatePanel' = [validatePanel EXCEPT !.formError = FALSE, !.isValidating = TRUE,
                                                          !.error = FALSE, !.success = FALSE]
                \/ validatePanel' = [validatePanel EXCEPT !.formError = FALSE, !.isSubmitting = TRUE,
                                                          !.error = FALSE, !.success = FALSE]
    BY <1>6 DEF Validate!handleValidate, Validate!handleSubmit
  <2>2. validatePanel' \in ValidatePanel /\ validatePanel'.lastJob = validatePanel.lastJob /\ validatePanel'.result = validatePanel.result
    BY <1>1, <2>1 DEF ValidatePanel
  <2>3. CASE validateServer' = validateServer /\ validateFlight' = validateFlight
    BY <1>1, <1>3, <2>2, <2>3, ValidateRests
  <2>4. CASE \E step \in {"sent", "submit"} : Validate!Post("job", step, look)
    <3>1. PICK step \in {"sent", "submit"} : Validate!Post("job", step, look)
      BY <2>4
    <3> QED
      BY <1>2, <2>2, <3>1, ValidatePosts
  <2> QED
    BY <2>1, <2>3, <2>4
<1> QED
  BY <1>4, <1>5, <1>6

\* The processor, the interval, and what switches.
LEMMA ValidateServes ==
  ASSUME Validate!ValidateAssumption, ValidateInv,
         Validate!validationHandler \/ Validate!Change \/ Validate!Tick
  PROVE  ValidateInv'
<1>1. validatePanel \in ValidatePanel /\ validateServer \in ValidateServer /\ validateFlight' = validateFlight
  BY DEF ValidateInv, ValidateTypes, Validate!validationHandler, Validate!Change, Validate!Tick
<1>2. \A reply \in validateServer.replies : "REPLY_SENT" \in validateServer.events[reply.request]
  BY DEF ValidateInv, EndsOnce
<1>3. CASE Validate!validationHandler
  <2>1. PICK m \in validateServer.inbox :
          validateServer' = IF ~validateServer.processing THEN [validateServer EXCEPT !.inbox = @ \ {m}]
                            ELSE [validateServer EXCEPT
                                    !.inbox = @ \ {m},
                                    !.events = Validate!Heard(Validate!Heard(@, m.request, "REQUEST_RECEIVED"),
                                                              m.request, "REPLY_SENT"),
                                    !.replies = @ \cup {[request |-> m.request,
                                                         verdict |-> Validate!Validated(m.look)]}]
    BY <1>3 DEF Validate!validationHandler
  <2>2. validatePanel' = validatePanel /\ m.request \in Validate!Request
    BY <1>1, <1>3 DEF Validate!validationHandler, ValidateServer
  <2>3. CASE ~validateServer.processing
    <3>1. /\ validateServer' \in ValidateServer /\ validateServer'.events = validateServer.events
          /\ validateServer'.last = validateServer.last /\ validateServer'.replies = validateServer.replies
      BY <1>1, <2>1, <2>3 DEF ValidateServer
    <3> QED
      BY <1>1, <1>2, <2>2, <3>1, ValidateRests
  <2>4. CASE validateServer.processing
    <3> DEFINE events == Validate!Heard(Validate!Heard(validateServer.events, m.request, "REQUEST_RECEIVED"),
                                        m.request, "REPLY_SENT")
               reply == [request |-> m.request, verdict |-> Validate!Validated(m.look)]
               inbox == validateServer.inbox \ {m}
               replies == validateServer.replies \cup {reply}
    <3>1. /\ events \in [Validate!Request -> SUBSET Validate!RR_EVENTS]
          /\ "REPLY_SENT" \in events[m.request]
          /\ \A r \in Validate!Request :
               /\ validateServer.events[r] \subseteq events[r]
               /\ events[r] \subseteq validateServer.events[r] \cup {"REQUEST_RECEIVED", "REPLY_SENT"}
      BY <1>1, <2>2 DEF ValidateServer, Validate!Heard, Validate!RR_EVENTS
    <3>2. reply \in [request: Validate!Request, verdict: {"SUCCESS", "INVALID"}]
      BY <2>2 DEF Validate!Validated
    <3>3. inbox \subseteq validateServer.inbox
      OBVIOUS
    <3>4. validateServer' = [validateServer EXCEPT !.inbox = inbox, !.events = events, !.replies = replies]
      BY <2>1, <2>4
    <3>5. reply.request = m.request /\ replies = validateServer.replies \cup {reply}
      OBVIOUS
    <3> HIDE DEF events, reply, inbox, replies
    <3>6. /\ validateServer' \in ValidateServer /\ validateServer'.last = validateServer.last
          /\ validateServer'.events = events /\ validateServer'.replies = replies
      BY <1>1, <3>1, <3>2, <3>3, <3>4, <3>5 DEF ValidateServer
    <3>7. \A answer \in replies : "REPLY_SENT" \in events[answer.request]
      BY <1>1, <1>2, <3>1, <3>5 DEF ValidateServer
    <3> QED
      BY <1>1, <2>2, <3>1, <3>6, <3>7, ValidateRests
  <2> QED
    BY <2>3, <2>4
<1>4. CASE Validate!Change
  <2>1. validatePanel' = validatePanel /\ validateServer.changes < MaxChanges
    BY <1>4 DEF Validate!Change
  <2> DEFINE n == validateServer.changes + 1
  <2>2. n \in 0..MaxChanges
    BY <1>1, <2>1, ValidateBounds DEF ValidateServer
  <2>3. PICK b \in BOOLEAN : \/ validateServer' = [validateServer EXCEPT !.processing = b, !.changes = n]
                             \/ validateServer' = [validateServer EXCEPT !.up = b, !.changes = n]
    <3>1. (~validateServer.processing) \in BOOLEAN /\ (~validateServer.up) \in BOOLEAN
      BY Zenon
    <3> QED
      BY <1>4, <3>1 DEF Validate!Change
  <2> HIDE DEF n
  <2>4. /\ validateServer' \in ValidateServer /\ validateServer'.events = validateServer.events
        /\ validateServer'.last = validateServer.last /\ validateServer'.replies = validateServer.replies
    BY <1>1, <2>2, <2>3 DEF ValidateServer
  <2> QED
    BY <1>1, <1>2, <2>1, <2>4, ValidateRests
<1>5. CASE Validate!Tick
  <2>1. validatePanel' = [validatePanel EXCEPT !.activities = validateServer.events] /\ validateServer' = validateServer
    BY <1>5 DEF Validate!Tick
  <2>2. validatePanel' \in ValidatePanel /\ validatePanel'.lastJob = validatePanel.lastJob /\ validatePanel'.result = validatePanel.result
    BY <1>1, <2>1 DEF ValidatePanel, ValidateServer
  <2> QED
    BY <1>1, <1>2, <2>1, <2>2, ValidateRests
<1> QED
  BY <1>3, <1>4, <1>5

\* job-service refuses, accepts, announces or ends a request.
LEMMA ValidateAnswers ==
  ASSUME Validate!ValidateAssumption, ValidateInv, NEW f \in Validate!Form,
         \/ Validate!Refuse(f) \/ Validate!SubmitJob(f) \/ Validate!RequestJobValidation(f)
         \/ Validate!RequestTimesOut(f) \/ Validate!ReplyArrives(f)
  PROVE  ValidateInv'
<1>1. /\ validateServer \in ValidateServer /\ validatePanel' = validatePanel
      /\ validateFlight[f] # None /\ validateFlight[f] \in Validate!Waiting /\ validateFlight[f].request \in Validate!Request
  BY DEF ValidateInv, ValidateTypes, Validate!Refuse, Validate!SubmitJob, Validate!At,
         Validate!RequestJobValidation, Validate!RequestTimesOut, Validate!ReplyArrives,
         Validate!Waiting
<1>2. \A reply \in validateServer.replies : "REPLY_SENT" \in validateServer.events[reply.request]
  BY DEF ValidateInv, EndsOnce
<1>3. f = "request-reply" => validateFlight[f].at # "submit"
  BY <1>1 DEF ValidateInv, LastIsShown
<1> DEFINE r == validateFlight[f].request
\* An answer of any kind.
<1>4. ASSUME NEW answer \in Validate!Verdict \cup {"accepted", "failed"},
             Validate!Answer(f, answer), f = "request-reply" => answer # "accepted",
             validateServer' \in ValidateServer, validateServer'.last = validateServer.last,
             validateServer'.replies \subseteq validateServer.replies,
             NEW events \in SUBSET Validate!RR_EVENTS, Announced(events, answer),
             validateServer.events[r] \subseteq events,
             validateServer'.events = [validateServer.events EXCEPT ![r] = events]
      PROVE  ValidateInv'
  <2> DEFINE call == [validateFlight[f] EXCEPT !.at = "answered", !.answer = answer]
  <2>1. call \in Validate!Waiting /\ call.request = r /\ call.at = "answered" /\ call.answer = answer
    BY <1>1 DEF Validate!Waiting
  <2>2. validateFlight' = [validateFlight EXCEPT ![f] = call]
    BY <1>4 DEF Validate!Answer, ValidateInv, ValidateTypes
  <2> HIDE DEF call
  <2>3. /\ \A q \in Validate!Request : q # r => validateServer'.events[q] = validateServer.events[q]
        /\ \A q \in Validate!Request : validateServer.events[q] \subseteq validateServer'.events[q]
        /\ validateServer'.events[r] = events
    BY <1>1, <1>4 DEF ValidateServer
  <2>4. \A reply \in validateServer'.replies : "REPLY_SENT" \in validateServer'.events[reply.request]
    BY <1>1, <1>2, <1>4, <2>3 DEF ValidateServer
  <2> QED
    BY <1>1, <1>4, <2>1, <2>2, <2>3, <2>4, ValidateMoves
<1>5. CASE Validate!Refuse(f) \/ Validate!SubmitJob(f)
  <2>1. PICK answer \in {"accepted", "failed"} :
          /\ Validate!Answer(f, answer) /\ validateServer' = validateServer
          /\ f = "request-reply" => answer # "accepted"
    BY <1>3, <1>5 DEF Validate!Refuse, Validate!SubmitJob, Validate!At
  <2>2. Announced(validateServer.events[r], answer)
    BY <2>1 DEF Announced
  <2>3. validateServer.events[r] \in SUBSET Validate!RR_EVENTS
        /\ validateServer'.events = [validateServer.events EXCEPT ![r] = validateServer.events[r]]
    BY <1>1, <2>1 DEF ValidateServer
  <2> QED
    BY <1>1, <1>4, <2>1, <2>2, <2>3
<1>6. CASE Validate!RequestJobValidation(f)
  <2> DEFINE events == validateServer.events[r] \cup {"REQUEST_SENT"}
             heard == [validateServer.events EXCEPT ![r] = events]
             inbox == validateServer.inbox \cup {[request |-> r, look |-> validateFlight[f].look]}
             call == [validateFlight[f] EXCEPT !.at = "asked"]
  <2>1. call \in Validate!Waiting /\ call.request = r /\ call.at = "asked"
    BY <1>1 DEF Validate!Waiting
  <2>2. validateFlight' = [validateFlight EXCEPT ![f] = call]
    BY <1>6 DEF Validate!RequestJobValidation, ValidateInv, ValidateTypes
  <2>3. validateServer' = [validateServer EXCEPT !.events = heard, !.inbox = inbox]
    BY <1>6 DEF Validate!RequestJobValidation, Validate!Heard
  <2>4. /\ heard \in [Validate!Request -> SUBSET Validate!RR_EVENTS]
        /\ inbox \in SUBSET [request: Validate!Request, look: Validate!Look]
    BY <1>1 DEF ValidateServer, Validate!RR_EVENTS, Validate!Waiting
  <2>5. /\ heard[r] = events
        /\ \A q \in Validate!Request : q # r => heard[q] = validateServer.events[q]
        /\ \A q \in Validate!Request : validateServer.events[q] \subseteq heard[q]
    BY <1>1 DEF ValidateServer
  <2>6. Open(events)
    BY <1>1, <1>6 DEF Validate!RequestJobValidation, Validate!At, ValidateInv, EndsOnce, Open
  <2> HIDE DEF events, heard, inbox, call
  <2>7. /\ validateServer' \in ValidateServer /\ validateServer'.last = validateServer.last
        /\ validateServer'.events = heard /\ validateServer'.replies = validateServer.replies
    BY <1>1, <2>3, <2>4 DEF ValidateServer
  <2>8. \A reply \in validateServer'.replies : "REPLY_SENT" \in validateServer'.events[reply.request]
    BY <1>1, <1>2, <2>5, <2>7 DEF ValidateServer
  <2> QED
    BY <1>1, <2>1, <2>2, <2>5, <2>6, <2>7, <2>8, ValidateMoves
<1>7. CASE Validate!RequestTimesOut(f) \/ Validate!ReplyArrives(f)
  <2>1. Open(validateServer.events[r])
    BY <1>1, <1>7 DEF Validate!RequestTimesOut, Validate!ReplyArrives, Validate!At, ValidateInv,
      EndsOnce
  <2>2. PICK answer \in Validate!Verdict \cup {"failed"}, e \in {"REQUEST_TIMEOUT", "REPLY_RECEIVED"},
             replies \in SUBSET validateServer.replies :
          /\ validateServer' = [validateServer EXCEPT !.events = Validate!Heard(@, r, e), !.replies = replies]
          /\ Validate!Answer(f, answer)
          /\ Announced(validateServer.events[r] \cup {e}, answer)
    <3>1. CASE Validate!RequestTimesOut(f)
      <4>1. \A how \in {"TIMEOUT", "failed"} :
               Announced(validateServer.events[r] \cup {"REQUEST_TIMEOUT"}, how)
        BY <2>1 DEF Announced, Open
      <4>2. validateServer' = [validateServer EXCEPT !.events = Validate!Heard(@, r, "REQUEST_TIMEOUT"),
                                                     !.replies = validateServer.replies]
        BY <1>1, <3>1 DEF Validate!RequestTimesOut, ValidateServer
      <4>3. PICK how \in {"TIMEOUT", "failed"} : Validate!Answer(f, how)
        BY <3>1 DEF Validate!RequestTimesOut
      <4>4. how \in Validate!Verdict \cup {"failed"}
        BY DEF Validate!Verdict
      <4> QED
        BY <4>1, <4>2, <4>3, <4>4
    <3>2. CASE Validate!ReplyArrives(f)
      <4>1. PICK reply \in validateServer.replies :
              /\ reply.request = r
              /\ validateServer' = [validateServer EXCEPT !.events = Validate!Heard(@, reply.request, "REPLY_RECEIVED"),
                                                          !.replies = @ \ {reply}]
              /\ Validate!Answer(f, reply.verdict)
        BY <3>2 DEF Validate!ReplyArrives
      <4>2. reply.verdict \in {"SUCCESS", "INVALID"}
        BY <1>1 DEF ValidateServer
      <4>3. Announced(validateServer.events[r] \cup {"REPLY_RECEIVED"}, reply.verdict)
        BY <1>2, <2>1, <4>1, <4>2 DEF Announced, Open
      <4>4. validateServer.replies \ {reply} \in SUBSET validateServer.replies
        OBVIOUS
      <4>5. validateServer' = [validateServer EXCEPT !.events = Validate!Heard(@, r, "REPLY_RECEIVED"),
                                                     !.replies = validateServer.replies \ {reply}]
        BY <4>1
      <4>6. reply.verdict \in Validate!Verdict
        BY <4>2 DEF Validate!Verdict
      <4> QED
        BY <4>1, <4>3, <4>4, <4>5, <4>6
    <3> QED
      BY <1>7, <3>1, <3>2
  <2> DEFINE events == validateServer.events[r] \cup {e}
             heard == [validateServer.events EXCEPT ![r] = events]
  <2>3. events \in SUBSET Validate!RR_EVENTS /\ validateServer.events[r] \subseteq events
        /\ heard \in [Validate!Request -> SUBSET Validate!RR_EVENTS]
    BY <1>1 DEF ValidateServer, Validate!RR_EVENTS
  <2>4. validateServer' = [validateServer EXCEPT !.events = heard, !.replies = replies]
    BY <2>2 DEF Validate!Heard
  <2>5. Announced(events, answer) /\ heard = [validateServer.events EXCEPT ![r] = events]
    BY <2>2
  <2> HIDE DEF events, heard
  <2>6. /\ validateServer' \in ValidateServer /\ validateServer'.last = validateServer.last
        /\ validateServer'.events = heard /\ validateServer'.replies = replies
    BY <1>1, <2>3, <2>4 DEF ValidateServer
  <2>7. answer # "accepted"
    BY DEF Validate!Verdict
  <2> QED
    BY <1>4, <2>2, <2>3, <2>5, <2>6, <2>7
<1> QED
  BY <1>5, <1>6, <1>7

LEMMA ValidateNext ==
  ASSUME Validate!ValidateAssumption, ValidateInv, [Validate!Next]_Validate!vars
  PROVE  ValidateInv'
<1>1. /\ validateServer \in ValidateServer /\ validatePanel \in ValidatePanel
      /\ validateFlight \in [Validate!Form -> Validate!Waiting \cup {None}]
  BY DEF ValidateInv, ValidateTypes
<1>2. CASE \E look \in Validate!Look : \/ Validate!SendUnparsed \/ Validate!handleSend(look)
                                       \/ Validate!handleValidate(look) \/ Validate!handleSubmit(look)
  BY <1>2, ValidateUser
<1>3. CASE Validate!validationHandler \/ Validate!Change \/ Validate!Tick
  BY <1>3, ValidateServes
<1>4. CASE \E f \in Validate!Form : Validate!Progress(f)
  <2>1. PICK f \in Validate!Form : Validate!Progress(f)
    BY <1>4
  <2>2. CASE \/ Validate!Refuse(f) \/ Validate!SubmitJob(f) \/ Validate!RequestJobValidation(f)
             \/ Validate!RequestTimesOut(f) \/ Validate!ReplyArrives(f)
    BY <2>2, ValidateAnswers
  <2>3. CASE f = "request-reply" /\ Validate!SendReturns
    <3> DEFINE answer == validateFlight[f].answer
    <3>1. validateFlight[f] # None /\ validateFlight[f].at = "answered" /\ Validate!Done(f) /\ validateServer' = validateServer
      BY <2>3 DEF Validate!SendReturns, Validate!At
    <3>2. \/ answer = "failed" /\ validatePanel' = [validatePanel EXCEPT !.isSending = FALSE, !.jsonError = TRUE]
          \/ answer # "failed" /\ validatePanel' = [validatePanel EXCEPT !.isSending = FALSE, !.result = answer,
                                                                         !.activities = validateServer.events]
      BY <2>3 DEF Validate!SendReturns
    <3>3. answer # "failed" => answer \in Validate!Verdict \cup {None}
      BY <1>1, <2>3, <3>1 DEF ValidateInv, LastIsShown, Validate!Waiting
    <3>4. validatePanel.lastJob = validatePanel'.lastJob /\ validatePanel' \in ValidatePanel
          /\ (validatePanel'.result = validatePanel.result \/ validatePanel'.result = answer)
      BY <1>1, <3>2, <3>3 DEF ValidatePanel, ValidateServer
    <3> QED
      BY <2>3, <3>1, <3>4, ValidateReturns
  <2>4. CASE f = "job" /\ Validate!FormReturns
    <3> DEFINE b == validateFlight["job"].answer = "failed"
               c == validateFlight["job"].answer \in {"SUCCESS", "accepted"}
               d == validateFlight["job"].answer \notin {"SUCCESS", "accepted"}
    <3>1. validateFlight[f] # None /\ validateFlight[f].at = "answered" /\ Validate!Done(f) /\ validateServer' = validateServer
      BY <2>4 DEF Validate!FormReturns, Validate!At
    <3>2. validatePanel' = [validatePanel EXCEPT !.isValidating = FALSE, !.isSubmitting = FALSE,
                                                 !.formError = b, !.success = c, !.error = d]
      BY <2>4 DEF Validate!FormReturns
    <3>3. b \in BOOLEAN /\ c \in BOOLEAN /\ d \in BOOLEAN
      OBVIOUS
    <3> HIDE DEF b, c, d
    <3>4. validatePanel' \in ValidatePanel /\ validatePanel'.lastJob = validatePanel.lastJob /\ validatePanel'.result = validatePanel.result
      BY <1>1, <3>2, <3>3 DEF ValidatePanel
    <3> QED
      BY <3>1, <3>4, ValidateReturns
  <2> QED
    BY <2>1, <2>2, <2>3, <2>4 DEF Validate!Progress
<1>5. CASE UNCHANGED Validate!vars
  BY <1>5 DEF Validate!vars, ValidateInv, ValidateTypes, RequestsDiffer, EndsOnce, LastIsShown
<1>6. CASE Validate!SendUnparsed
  BY <1>6, ValidateUser DEF Validate!Look
<1> QED
  BY <1>2, <1>3, <1>4, <1>5, <1>6 DEF Validate!Next

LEMMA ValidateInvariant == Spec => []ValidateInv
<1>1. Init => ValidateInv
  BY FormsAssumption, ValidateInit DEF Init
<1>2. ValidateInv /\ [Next]_vars => ValidateInv'
  <2>1. [Next]_vars => [Validate!Next]_(Validate!vars)
    BY DEF Next, OnValidate, OnLab, OnReplay, vars, validateVars, labVars, replayVars,
      Validate!vars
  <2> QED
    BY <2>1, FormsAssumption, ValidateNext
<1> QED
  BY <1>1, <1>2, PTL DEF Spec

(* The result that the Request / Reply panel shows is the outcome of the       *)
(* request it sent last (handleSend of the panel, RequestJobValidation): a     *)
(* verdict only when its reply was received and no timeout announced, TIMEOUT  *)
(* only the other way round, whatever the other form asks meanwhile and        *)
(* however late replies come.                                                  *)
THEOREM ResultsBelongToRequests == Spec => []ResultIsOfLastRequest
<1>1. ValidateInv => ResultIsOfLastRequest
  BY DEF ValidateInv, ValidateTypes, LastIsShown, ValidatePanel, Announced, Validate!Verdict,
         Validate!ResultIsOfLastRequest, ResultIsOfLastRequest
<1> QED
  BY <1>1, ValidateInvariant, PTL

LEMMA ValidateTypesHold == ValidateInv => Validate!TypeOK
BY DEF ValidateInv, ValidateTypes, ValidateServer, ValidatePanel, Validate!Waiting,
  Validate!TypeOK

-----------------------------------------------------------------------------
(* RetryLab.                                                               *)

Jobs == Lab!Card \X Lab!Id
LabCards == Lab!Card \ {"dedup"}

LabServer == [nats: BOOLEAN, faults: 0..MaxFaults, stream: Seq(Jobs), scheduled: SUBSET Jobs]
LabPanel == [id: [Lab!Card -> Lab!Id], busy: [Lab!Card -> BOOLEAN],
             status: [Lab!Card -> Lab!Status], isSubmitting: BOOLEAN, accepted: SUBSET Jobs,
             drawn: [Lab!Card -> Lab!Id], clicks: 0..MaxClicks]
LabTypes == /\ labServer \in LabServer /\ labPanel \in LabPanel
            /\ labFlight \in [Lab!Card -> Lab!Waiting \cup {None}]

Stored(s, job) == \E i \in 1..Len(s.stream) : s.stream[i] = job
Taken(s, job) == job \in s.scheduled \/ Stored(s, job)

\* Ids are drawn in order: no job has an id that its card did not draw yet.
IdsAreDrawn ==
  /\ \A c \in Lab!Card : labPanel.id[c] \in {Lab!Blank, labPanel.drawn[c]}
  /\ \A c \in Lab!Card : labPanel.drawn[c] <= MaxNo + labPanel.clicks
  /\ \A c \in Lab!Card : labFlight[c] # None =>
       /\ labFlight[c].job[1] = c /\ labFlight[c].job[2] <= labPanel.drawn[c]
       /\ labPanel.drawn[c] < MaxNo + labPanel.clicks /\ labPanel.clicks >= 1
       /\ c \in LabCards => labPanel.busy[c]
  /\ \A job \in labServer.scheduled : job[1] = "schedule"
  /\ \A job \in Jobs : Taken(labServer, job) => job[2] <= labPanel.drawn[job[1]]
\* As long as nothing went wrong, a card of the lab has taken neither the id in its
\* field nor that of a request which was not served yet.
IdsAreFresh ==
  /\ labServer.nats /\ \A c \in Lab!Card : labFlight[c] # None => labFlight[c].call # "failed"
  /\ \A c \in LabCards : labFlight[c] = None => ~Taken(labServer, <<c, labPanel.drawn[c]>>)
  /\ \A c \in LabCards : labFlight[c] # None /\ labFlight[c].call = "sent" => ~Taken(labServer, labFlight[c].job)
  /\ \A job \in labServer.scheduled : ~Stored(labServer, job)
  /\ \A i, k \in 1..Len(labServer.stream) :
       (labServer.stream[i] = labServer.stream[k] /\ labServer.stream[i][1] # "dedup") => i = k
LabInv == LabTypes /\ IdsAreDrawn /\ (labServer.faults = 0 => IdsAreFresh)

LEMMA LabBounds ==
  ASSUME Lab!LabAssumption
  PROVE  /\ MaxNo \in Nat /\ MaxNo >= 1 /\ MaxClicks \in Nat /\ MaxFaults \in Nat
         /\ \A w \in Lab!Waiting : w # None
         /\ \A n \in Lab!Id : n \in Nat
         /\ \A n \in Nat : n <= MaxNo + MaxClicks => n \in Lab!Id
<1>1. MaxNo \in Nat /\ MaxNo >= 1 /\ MaxClicks \in Nat /\ MaxFaults \in Nat
  BY DEF Lab!LabAssumption
<1> QED
  BY <1>1 DEF Lab!LabAssumption, Lab!Id

\* One more job in the stream.
LEMMA LabAppends ==
  ASSUME labServer.stream \in Seq(Jobs), NEW x \in Jobs, labServer'.stream = Append(labServer.stream, x)
  PROVE  /\ labServer'.stream \in Seq(Jobs)
         /\ \A job : Stored(labServer', job) <=> Stored(labServer, job) \/ job = x
         /\ (/\ x[1] = "dedup" \/ ~Stored(labServer, x)
             /\ \A i, k \in 1..Len(labServer.stream) :
                  (labServer.stream[i] = labServer.stream[k] /\ labServer.stream[i][1] # "dedup") => i = k)
            => \A i, k \in 1..Len(labServer'.stream) :
                 (labServer'.stream[i] = labServer'.stream[k] /\ labServer'.stream[i][1] # "dedup") => i = k
<1> DEFINE n == Len(labServer.stream)
<1>1. /\ labServer'.stream \in Seq(Jobs) /\ n \in Nat /\ Len(labServer'.stream) = n + 1
      /\ labServer'.stream[n + 1] = x
      /\ \A i \in 1..n : labServer'.stream[i] = labServer.stream[i]
  OBVIOUS
<1>2. \A i \in 1..Len(labServer'.stream) : i \in 1..n \/ i = n + 1
  BY <1>1
<1>3. \A job : Stored(labServer', job) <=> Stored(labServer, job) \/ job = x
  <2>1. 1..n \subseteq 1..Len(labServer'.stream) /\ n + 1 \in 1..Len(labServer'.stream)
    BY <1>1
  <2> QED
    BY <1>1, <1>2, <2>1 DEF Stored
<1>4. ASSUME x[1] = "dedup" \/ ~Stored(labServer, x),
             \A i, k \in 1..Len(labServer.stream) :
               (labServer.stream[i] = labServer.stream[k] /\ labServer.stream[i][1] # "dedup") => i = k,
             NEW i \in 1..Len(labServer'.stream), NEW k \in 1..Len(labServer'.stream),
             labServer'.stream[i] = labServer'.stream[k], labServer'.stream[i][1] # "dedup"
      PROVE  i = k
  <2>1. CASE i \in 1..n /\ k \in 1..n
    BY <1>1, <1>4, <2>1
  <2>2. CASE i \in 1..n /\ k = n + 1
    BY <1>1, <1>4, <2>2 DEF Stored
  <2>3. CASE i = n + 1 /\ k \in 1..n
    BY <1>1, <1>4, <2>3 DEF Stored
  <2> QED
    BY <1>2, <2>1, <2>2, <2>3
<1> QED
  BY <1>1, <1>3, <1>4

LEMMA LabInit == ASSUME Lab!LabAssumption, Lab!Init PROVE LabInv
<1>1. 1 \in Lab!Id /\ 0 \in 0..MaxFaults /\ 0 \in 0..MaxClicks
  BY LabBounds
<1>2. labServer.stream = << >> /\ labServer.scheduled = {} /\ labServer.nats = TRUE
      /\ \A c \in Lab!Card : labFlight[c] = None /\ labPanel.id[c] = 1 /\ labPanel.drawn[c] = 1
  BY DEF Lab!Init
<1>3. labServer \in LabServer /\ labFlight \in [Lab!Card -> Lab!Waiting \cup {None}]
  BY <1>1 DEF Lab!Init, LabServer
<1>4. labPanel \in LabPanel
  BY <1>1 DEF Lab!Init, LabPanel, Lab!Status
<1>5. \A job : ~Taken(labServer, job)
  BY <1>2 DEF Taken, Stored
<1>6. IdsAreDrawn
  <2>1. 1 <= MaxNo + labPanel.clicks
    BY LabBounds DEF Lab!Init
  <2> QED
    BY <1>2, <1>5, <2>1 DEF IdsAreDrawn
<1>7. IdsAreFresh
  BY <1>2, <1>5 DEF IdsAreFresh, LabCards, Stored
<1> QED
  BY <1>3, <1>4, <1>6, <1>7 DEF LabInv, LabTypes

\* A step of the forms that sends nothing draws at most the next id of a card.
LEMMA LabEdits ==
  ASSUME Lab!LabAssumption, LabInv, labServer' = labServer, labFlight' = labFlight, labPanel' \in LabPanel,
         labPanel'.busy = labPanel.busy, labPanel'.clicks = labPanel.clicks,
         \A c \in Lab!Card :
           /\ labPanel'.id[c] \in {Lab!Blank, labPanel'.drawn[c]}
           /\ \/ labPanel'.drawn[c] = labPanel.drawn[c]
              \/ labPanel'.drawn[c] = labPanel.drawn[c] + 1 /\ labPanel.drawn[c] < MaxNo
  PROVE  LabInv'
<1>1. /\ labServer \in LabServer /\ labPanel \in LabPanel
      /\ labFlight \in [Lab!Card -> Lab!Waiting \cup {None}]
  BY DEF LabInv, LabTypes
<1>2. \A c \in Lab!Card : labPanel.drawn[c] \in Nat /\ labPanel'.drawn[c] \in Nat
  BY <1>1, LabBounds DEF LabPanel
<1>3. labPanel.clicks \in Nat
  BY <1>1 DEF LabPanel
<1>4. \A job \in Jobs : job[1] \in Lab!Card /\ job[2] \in Nat
  BY LabBounds DEF Jobs
<1>5. \A job : Taken(labServer', job) <=> Taken(labServer, job)
  BY DEF Taken, Stored
<1>6. \A c \in Lab!Card : labFlight[c] # None => labFlight[c].job \in Jobs
  BY <1>1 DEF Lab!Waiting, Jobs
<1>7. IdsAreDrawn'
  <2>1. \A c \in Lab!Card : labPanel.drawn[c] <= labPanel'.drawn[c] /\ labPanel'.drawn[c] \in Nat
    BY <1>2
  <2>2. \A job \in Jobs : Taken(labServer', job) => job[2] <= labPanel'.drawn[job[1]]
    BY <1>2, <1>4, <1>5, <2>1 DEF LabInv, IdsAreDrawn
  <2>3. \A c \in Lab!Card : labPanel'.drawn[c] <= MaxNo + labPanel'.clicks
    BY <1>2, <1>3, LabBounds DEF LabInv, IdsAreDrawn
  <2>4. \A c \in Lab!Card : labFlight[c] # None =>
          labFlight[c].job[2] <= labPanel'.drawn[c] /\ labPanel'.drawn[c] < MaxNo + labPanel'.clicks
    <3>1. SUFFICES ASSUME NEW c \in Lab!Card, labFlight[c] # None
                   PROVE  /\ labFlight[c].job[2] <= labPanel'.drawn[c]
                          /\ labPanel'.drawn[c] < MaxNo + labPanel'.clicks
      OBVIOUS
    <3>2. /\ labFlight[c].job[2] <= labPanel.drawn[c] /\ labFlight[c].job[2] \in Nat
          /\ labPanel.drawn[c] < MaxNo + labPanel.clicks /\ labPanel.clicks >= 1
      BY <1>4, <1>6, <3>1 DEF LabInv, IdsAreDrawn
    <3> QED
      BY <1>2, <1>3, <3>2, LabBounds
  <2> QED
    BY <2>2, <2>3, <2>4 DEF LabInv, IdsAreDrawn
<1>8. ASSUME labServer.faults = 0
      PROVE  IdsAreFresh'
  <2>1. IdsAreFresh
    BY <1>8 DEF LabInv
  <2>2. \A c \in LabCards : labFlight[c] = None => ~Taken(labServer, <<c, labPanel'.drawn[c]>>)
    <3>1. SUFFICES ASSUME NEW c \in LabCards, labFlight[c] = None,
                          Taken(labServer, <<c, labPanel'.drawn[c]>>), labPanel'.drawn[c] # labPanel.drawn[c]
                   PROVE  FALSE
      BY <2>1 DEF IdsAreFresh, LabCards
    <3>2. c \in Lab!Card /\ labPanel'.drawn[c] \in Lab!Id
      BY <3>1 DEF LabCards, LabPanel
    <3>3. <<c, labPanel'.drawn[c]>> \in Jobs
      BY <3>2 DEF Jobs
    <3>4. labPanel'.drawn[c] <= labPanel.drawn[c]
      BY <3>1, <3>3 DEF LabInv, IdsAreDrawn
    <3> QED
      BY <1>2, <3>1, <3>2, <3>4
  <2>3. \A job \in labServer.scheduled : ~Stored(labServer', job)
    BY <2>1 DEF IdsAreFresh, Stored
  <2> QED
    BY <1>5, <2>1, <2>2, <2>3 DEF IdsAreFresh
<1> QED
  BY <1>1, <1>7, <1>8 DEF LabInv, LabTypes

LEMMA LabSends ==
  ASSUME Lab!LabAssumption, LabInv, NEW c \in Lab!Card, NEW again \in BOOLEAN, Lab!Send(c, again)
  PROVE  LabInv'
<1> DEFINE n == labPanel.drawn[c]
           call == [job |-> <<c, labPanel.id[c]>>, again |-> again, call |-> "sent"]
<1>1. /\ labServer \in LabServer /\ labPanel \in LabPanel
      /\ labFlight \in [Lab!Card -> Lab!Waiting \cup {None}]
  BY DEF LabInv, LabTypes
<1>2. /\ labPanel.id[c] = n /\ n \in Lab!Id /\ n \in Nat
      /\ labPanel.clicks \in Nat /\ labPanel.clicks + 1 \in 0..MaxClicks
  BY <1>1, LabBounds DEF Lab!Send, LabInv, IdsAreDrawn, LabPanel
<1>3. /\ call \in Lab!Waiting /\ call # None /\ call.job = <<c, n>> /\ call.call = "sent"
      /\ <<c, n>> \in Jobs
  <2>1. <<c, n>> \in Jobs /\ call = [job |-> <<c, n>>, again |-> again, call |-> "sent"]
    BY <1>2 DEF Jobs
  <2>2. call \in Lab!Waiting
    BY <2>1 DEF Lab!Waiting, Jobs
  <2> QED
    BY <2>1, <2>2, LabBounds
<1>4. labFlight' = [labFlight EXCEPT ![c] = call] /\ labServer' = labServer
  BY DEF Lab!Send, Lab!Job
<1>5. n = labPanel.drawn[c]
  OBVIOUS
<1>6. c \in LabCards => labFlight[c] = None
  BY DEF LabCards, Lab!Send, Lab!Enabled, Lab!CardButton, LabInv, IdsAreDrawn
<1> HIDE DEF n, call
<1>7. /\ labFlight' \in [Lab!Card -> Lab!Waiting \cup {None}] /\ labFlight'[c] = call
      /\ \A d \in Lab!Card \ {c} : labFlight'[d] = labFlight[d]
  BY <1>1, <1>3, <1>4
<1>8. /\ labPanel' \in LabPanel /\ labPanel'.id = labPanel.id /\ labPanel'.drawn = labPanel.drawn
      /\ labPanel'.clicks = labPanel.clicks + 1
      /\ c \in LabCards => labPanel'.busy[c]
      /\ \A d \in Lab!Card \ {c} : labPanel'.busy[d] = labPanel.busy[d]
  <2> DEFINE a == c # "dedup"
             b == labPanel.isSubmitting \/ c \in Lab!Submits
             k == labPanel.clicks + 1
  <2>1. labPanel' = [labPanel EXCEPT !.busy[c] = a, !.status[c] = "none", !.clicks = k, !.isSubmitting = b]
    BY DEF Lab!Send
  <2>2. a \in BOOLEAN /\ b \in BOOLEAN /\ k \in 0..MaxClicks /\ (c \in LabCards => a)
    BY <1>2 DEF LabCards
  <2>3. k = labPanel.clicks + 1
    OBVIOUS
  <2> HIDE DEF a, b, k
  <2> QED
    BY <1>1, <2>1, <2>2, <2>3 DEF LabPanel, Lab!Status, LabCards
<1>9. \A job : Taken(labServer', job) <=> Taken(labServer, job)
  BY <1>4 DEF Taken, Stored
<1>10. IdsAreDrawn'
  <2>1. \A d \in Lab!Card : labPanel.drawn[d] \in Nat
    BY <1>1, LabBounds DEF LabPanel
  <2>2. \A d \in Lab!Card : /\ labPanel'.drawn[d] <= MaxNo + labPanel'.clicks
                            /\ labPanel'.drawn[d] < MaxNo + labPanel'.clicks
                            /\ labPanel'.clicks >= 1
    BY <1>2, <1>8, <2>1, LabBounds DEF LabInv, IdsAreDrawn
  <2>3. \A d \in Lab!Card : labFlight'[d] # None =>
          /\ labFlight'[d].job[1] = d /\ labFlight'[d].job[2] <= labPanel'.drawn[d]
          /\ d \in LabCards => labPanel'.busy[d]
    BY <1>2, <1>3, <1>5, <1>7, <1>8 DEF LabInv, IdsAreDrawn
  <2> QED
    BY <1>4, <1>8, <1>9, <2>2, <2>3 DEF LabInv, IdsAreDrawn
<1>11. ASSUME labServer.faults = 0
       PROVE  IdsAreFresh'
  <2>1. IdsAreFresh
    BY <1>11 DEF LabInv
  <2>2. c \in LabCards => ~Taken(labServer, <<c, n>>)
    BY <1>5, <1>6, <2>1 DEF IdsAreFresh
  <2>3. \A job \in labServer'.scheduled : ~Stored(labServer', job)
    BY <1>4, <2>1 DEF IdsAreFresh, Stored
  <2>4. \A d \in Lab!Card : labFlight'[d] # None => labFlight'[d].call # "failed"
    BY <1>3, <1>7, <2>1 DEF IdsAreFresh
  <2>5. \A d \in LabCards : /\ labFlight'[d] = None => ~Taken(labServer', <<d, labPanel'.drawn[d]>>)
                            /\ labFlight'[d] # None /\ labFlight'[d].call = "sent"
                                => ~Taken(labServer', labFlight'[d].job)
    <3>1. \A d \in LabCards : d \in Lab!Card /\ (d = c \/ d \in Lab!Card \ {c})
      BY DEF LabCards
    <3> QED
      BY <1>3, <1>7, <1>8, <1>9, <2>1, <2>2, <3>1 DEF IdsAreFresh
  <2>6. /\ labServer'.nats
        /\ \A i, k \in 1..Len(labServer'.stream) :
             (labServer'.stream[i] = labServer'.stream[k] /\ labServer'.stream[i][1] # "dedup") => i = k
    BY <1>4, <2>1 DEF IdsAreFresh
  <2> QED
    BY <2>3, <2>4, <2>5, <2>6 DEF IdsAreFresh
<1> QED
  BY <1>1, <1>4, <1>7, <1>8, <1>10, <1>11 DEF LabInv, LabTypes

\* A request is answered, and its job taken or not.
LEMMA LabAnswers ==
  ASSUME Lab!LabAssumption, LabInv, NEW c \in Lab!Card, labFlight[c] # None, labFlight[c].call = "sent",
         NEW how \in {"answered", "failed"}, Lab!Reply(c, how), labPanel' = labPanel,
         labServer' \in LabServer, labServer'.nats = labServer.nats, labServer'.faults = labServer.faults,
         \A job : Taken(labServer', job) <=> Taken(labServer, job) \/ (how = "answered" /\ job = labFlight[c].job),
         \A job \in labServer'.scheduled : job[1] = "schedule",
         labServer.nats => how = "answered",
         labServer.faults = 0 =>
           /\ \A job \in labServer'.scheduled : ~Stored(labServer', job)
           /\ \A i, k \in 1..Len(labServer'.stream) :
                (labServer'.stream[i] = labServer'.stream[k] /\ labServer'.stream[i][1] # "dedup") => i = k
  PROVE  LabInv'
<1> DEFINE call == [labFlight[c] EXCEPT !.call = how]
<1>1. /\ labServer \in LabServer /\ labPanel \in LabPanel
      /\ labFlight \in [Lab!Card -> Lab!Waiting \cup {None}] /\ labFlight[c] \in Lab!Waiting
  BY DEF LabInv, LabTypes
<1>2. call \in Lab!Waiting /\ call # None /\ call.job = labFlight[c].job /\ call.call = how
  <2>1. call \in Lab!Waiting /\ call.job = labFlight[c].job /\ call.call = how
    BY <1>1 DEF Lab!Waiting
  <2> QED
    BY <2>1, LabBounds
<1>3. labFlight' = [labFlight EXCEPT ![c] = call]
  BY DEF Lab!Reply
<1> HIDE DEF call
<1>4. /\ labFlight' \in [Lab!Card -> Lab!Waiting \cup {None}] /\ labFlight'[c] = call
      /\ \A d \in Lab!Card \ {c} : labFlight'[d] = labFlight[d]
  BY <1>1, <1>2, <1>3
<1>5. /\ labFlight[c].job[1] = c /\ labFlight[c].job[2] <= labPanel.drawn[c]
  BY DEF LabInv, IdsAreDrawn
<1>6. IdsAreDrawn'
  <2>1. \A d \in Lab!Card : labFlight'[d] # None => labFlight[d] # None /\ labFlight'[d].job = labFlight[d].job
    BY <1>2, <1>4
  <2> QED
    BY <1>5, <2>1 DEF LabInv, IdsAreDrawn
<1>7. ASSUME labServer.faults = 0
      PROVE  IdsAreFresh'
  <2>1. IdsAreFresh /\ how = "answered"
    BY <1>7 DEF LabInv, IdsAreFresh
  <2>2. \A d \in Lab!Card : labFlight'[d] # None => labFlight'[d].call # "failed"
    BY <1>2, <1>4, <2>1 DEF IdsAreFresh
  <2>3. \A d \in LabCards : d \in Lab!Card /\ (d = c \/ d \in Lab!Card \ {c})
    BY DEF LabCards
  <2>4. ASSUME NEW d \in LabCards, labFlight'[d] = None
        PROVE  ~Taken(labServer', <<d, labPanel'.drawn[d]>>)
    <3>1. d # c /\ labFlight[d] = None
      BY <1>2, <1>4, <2>3, <2>4
    <3>2. <<d, labPanel.drawn[d]>> # labFlight[c].job
      BY <1>5, <3>1
    <3> QED
      BY <2>1, <2>4, <3>1, <3>2 DEF IdsAreFresh
  <2>5. ASSUME NEW d \in LabCards, labFlight'[d] # None, labFlight'[d].call = "sent"
        PROVE  ~Taken(labServer', labFlight'[d].job)
    <3>1. d # c /\ labFlight'[d] = labFlight[d]
      BY <1>2, <1>4, <2>1, <2>3, <2>5
    <3>2. labFlight[d].job[1] = d
      BY <2>3, <2>5, <3>1 DEF LabInv, IdsAreDrawn
    <3>3. labFlight[d].job # labFlight[c].job
      BY <1>5, <3>1, <3>2
    <3> QED
      BY <2>1, <2>5, <3>1, <3>3 DEF IdsAreFresh
  <2>6. labServer'.nats
    BY <2>1 DEF IdsAreFresh
  <2> QED
    BY <1>7, <2>2, <2>4, <2>5, <2>6 DEF IdsAreFresh
<1> QED
  BY <1>1, <1>4, <1>6, <1>7 DEF LabInv, LabTypes

\* job-service serves a request.
LEMMA LabServes ==
  ASSUME Lab!LabAssumption, LabInv, NEW c \in Lab!Card,
         Lab!SubmitJob(c) \/ (c = "schedule" /\ Lab!ScheduleJob)
  PROVE  LabInv'
<1> DEFINE x == labFlight[c].job
<1>1. labServer \in LabServer /\ labPanel' = labPanel
      /\ labFlight[c] # None /\ labFlight[c].call = "sent" /\ labFlight[c] \in Lab!Waiting
  BY DEF LabInv, LabTypes, Lab!SubmitJob, Lab!ScheduleJob
<1>2. x \in Jobs /\ x[1] = c /\ labServer.stream \in Seq(Jobs)
  BY <1>1 DEF Lab!Waiting, Jobs, LabInv, IdsAreDrawn, LabServer
<1>3. \A job \in labServer.scheduled : job[1] = "schedule"
  BY DEF LabInv, IdsAreDrawn
<1>4. labServer.faults = 0 /\ c \in LabCards => ~Taken(labServer, x)
  BY <1>1 DEF LabInv, IdsAreFresh
<1>5. labServer.faults = 0 =>
        /\ \A job \in labServer.scheduled : ~Stored(labServer, job)
        /\ \A i, k \in 1..Len(labServer.stream) :
             (labServer.stream[i] = labServer.stream[k] /\ labServer.stream[i][1] # "dedup") => i = k
  BY DEF LabInv, IdsAreFresh
<1>6. x = labFlight[c].job
  OBVIOUS
<1> HIDE DEF x
<1>7. CASE Lab!SubmitJob(c) /\ labServer.nats
  <2>1. /\ c # "schedule" /\ Lab!Reply(c, "answered")
        /\ labServer' = [labServer EXCEPT !.stream = Append(labServer.stream, x)]
    BY <1>6, <1>7 DEF Lab!SubmitJob, Lab!Submits
  <2>2. /\ labServer'.nats = labServer.nats /\ labServer'.faults = labServer.faults
        /\ labServer'.scheduled = labServer.scheduled /\ labServer'.stream = Append(labServer.stream, x)
    BY <1>1, <2>1 DEF LabServer
  <2>3. /\ labServer'.stream \in Seq(Jobs)
        /\ \A job : Stored(labServer', job) <=> Stored(labServer, job) \/ job = x
        /\ (/\ x[1] = "dedup" \/ ~Stored(labServer, x)
            /\ \A i, k \in 1..Len(labServer.stream) :
                 (labServer.stream[i] = labServer.stream[k] /\ labServer.stream[i][1] # "dedup") => i = k)
           => \A i, k \in 1..Len(labServer'.stream) :
                (labServer'.stream[i] = labServer'.stream[k] /\ labServer'.stream[i][1] # "dedup") => i = k
    BY <1>2, <2>2, LabAppends
  <2>4. labServer' \in LabServer
    BY <1>1, <2>1, <2>2, <2>3 DEF LabServer
  <2>5. \A job : Taken(labServer', job) <=> Taken(labServer, job) \/ job = x
    BY <2>2, <2>3 DEF Taken
  <2>6. labServer.faults = 0 => \A job \in labServer'.scheduled : ~Stored(labServer', job)
    BY <1>2, <1>3, <1>5, <2>1, <2>2, <2>3
  <2>7. x[1] = "dedup" \/ c \in LabCards
    BY <1>2 DEF LabCards
  <2>8. labServer.faults = 0 =>
          \A i, k \in 1..Len(labServer'.stream) :
            (labServer'.stream[i] = labServer'.stream[k] /\ labServer'.stream[i][1] # "dedup") => i = k
    BY <1>4, <1>5, <2>3, <2>7 DEF Taken
  <2> QED
    BY <1>1, <1>3, <1>6, <2>1, <2>2, <2>4, <2>5, <2>6, <2>8, LabAnswers
<1>8. CASE Lab!SubmitJob(c) /\ ~labServer.nats
  <2>1. Lab!Reply(c, "failed") /\ labServer' = labServer
    BY <1>8 DEF Lab!SubmitJob
  <2>2. \A job : Taken(labServer', job) <=> Taken(labServer, job)
    BY <2>1
  <2> QED
    BY <1>1, <1>3, <1>5, <1>8, <2>1, <2>2, LabAnswers
<1>9. CASE c = "schedule" /\ Lab!ScheduleJob
  <2> DEFINE scheduled == labServer.scheduled \cup {x}
  <2>1. Lab!Reply(c, "answered") /\ labServer' = [labServer EXCEPT !.scheduled = scheduled]
    BY <1>6, <1>9 DEF Lab!ScheduleJob
  <2>2. /\ labServer' \in LabServer /\ labServer'.nats = labServer.nats /\ labServer'.faults = labServer.faults
        /\ labServer'.stream = labServer.stream /\ labServer'.scheduled = scheduled
    BY <1>1, <1>2, <2>1 DEF LabServer
  <2>3. \A job : Stored(labServer', job) <=> Stored(labServer, job)
    BY <2>2 DEF Stored
  <2>4. \A job : Taken(labServer', job) <=> Taken(labServer, job) \/ job = x
    BY <2>2, <2>3 DEF Taken
  <2>5. \A job \in labServer'.scheduled : job[1] = "schedule"
    BY <1>2, <1>3, <1>9, <2>2
  <2>6. c \in LabCards
    BY <1>9 DEF LabCards
  <2>7. labServer.faults = 0 => \A job \in labServer'.scheduled : ~Stored(labServer', job)
    BY <1>4, <1>5, <2>2, <2>3, <2>6 DEF Taken
  <2>8. labServer.faults = 0 =>
          \A i, k \in 1..Len(labServer'.stream) :
            (labServer'.stream[i] = labServer'.stream[k] /\ labServer'.stream[i][1] # "dedup") => i = k
    BY <1>5, <2>2
  <2> QED
    BY <1>1, <1>6, <2>1, <2>2, <2>4, <2>5, <2>7, <2>8, LabAnswers
<1> QED
  BY <1>7, <1>8, <1>9

\* A timer fires.
LEMMA LabFires ==
  ASSUME Lab!LabAssumption, LabInv, Lab!TimerFires
  PROVE  LabInv'
<1>1. /\ labServer \in LabServer /\ labPanel \in LabPanel /\ labPanel' = labPanel /\ labFlight' = labFlight
      /\ labFlight \in [Lab!Card -> Lab!Waiting \cup {None}] /\ labServer.stream \in Seq(Jobs)
  BY DEF LabInv, LabTypes, Lab!TimerFires, LabServer
<1>2. PICK x \in labServer.scheduled :
        labServer' = [labServer EXCEPT !.scheduled = @ \ {x},
                                       !.stream = IF labServer.nats THEN Append(@, x) ELSE @]
  BY DEF Lab!TimerFires
<1>3. x \in Jobs /\ x[1] = "schedule" /\ Taken(labServer, x)
  BY <1>1 DEF LabServer, LabInv, IdsAreDrawn, Taken
<1>4. /\ labServer'.nats = labServer.nats /\ labServer'.faults = labServer.faults
      /\ labServer'.scheduled = labServer.scheduled \ {x}
      /\ labServer.nats => labServer'.stream = Append(labServer.stream, x)
      /\ ~labServer.nats => labServer'.stream = labServer.stream
  BY <1>1, <1>2 DEF LabServer
<1>5. labServer'.stream \in Seq(Jobs) /\ \A job : Stored(labServer', job) => Stored(labServer, job) \/ job = x
  <2>1. CASE labServer.nats
    BY <1>1, <1>3, <1>4, <2>1, LabAppends
  <2>2. CASE ~labServer.nats
    BY <1>1, <1>4, <2>2 DEF Stored
  <2> QED
    BY <2>1, <2>2
<1>6. labServer' \in LabServer
  <2> DEFINE scheduled == labServer.scheduled \ {x}
             stream == IF labServer.nats THEN Append(labServer.stream, x) ELSE labServer.stream
  <2>1. labServer' = [labServer EXCEPT !.scheduled = scheduled, !.stream = stream]
    BY <1>2
  <2>2. scheduled \in SUBSET Jobs /\ stream \in Seq(Jobs)
    BY <1>1, <1>3 DEF LabServer
  <2> HIDE DEF scheduled, stream
  <2> QED
    BY <1>1, <2>1, <2>2 DEF LabServer
<1>7. \A job : Taken(labServer', job) => Taken(labServer, job)
  BY <1>3, <1>4, <1>5 DEF Taken
<1>8. IdsAreDrawn'
  BY <1>1, <1>4, <1>7 DEF LabInv, IdsAreDrawn
<1>9. ASSUME labServer.faults = 0
      PROVE  IdsAreFresh'
  <2>1. IdsAreFresh
    BY <1>9 DEF LabInv
  <2>2. labServer.nats
    BY <2>1 DEF IdsAreFresh
  <2>3. ~Stored(labServer, x)
    BY <2>1 DEF IdsAreFresh
  <2>4. \A i, k \in 1..Len(labServer'.stream) :
          (labServer'.stream[i] = labServer'.stream[k] /\ labServer'.stream[i][1] # "dedup") => i = k
    BY <1>1, <1>3, <1>4, <2>1, <2>2, <2>3, LabAppends DEF IdsAreFresh
  <2>5. \A job \in labServer'.scheduled : ~Stored(labServer', job)
    BY <1>4, <1>5, <2>1 DEF IdsAreFresh
  <2>6. labServer'.nats
    BY <1>4, <2>2
  <2>7. /\ \A c \in Lab!Card : labFlight'[c] # None => labFlight'[c].call # "failed"
        /\ \A c \in LabCards : labFlight'[c] = None => ~Taken(labServer', <<c, labPanel'.drawn[c]>>)
        /\ \A c \in LabCards : labFlight'[c] # None /\ labFlight'[c].call = "sent"
                                 => ~Taken(labServer', labFlight'[c].job)
    BY <1>1, <1>7, <2>1 DEF IdsAreFresh
  <2> QED
    BY <2>4, <2>5, <2>6, <2>7 DEF IdsAreFresh
<1> QED
  BY <1>1, <1>4, <1>6, <1>8, <1>9 DEF LabInv, LabTypes

\* Something goes wrong, or is well again.
LEMMA LabFaults ==
  ASSUME Lab!LabAssumption, LabInv, Lab!Restart \/ Lab!NatsFails \/ Lab!NatsReturns
  PROVE  LabInv'
<1>1. /\ labServer \in LabServer /\ labPanel \in LabPanel /\ labPanel' = labPanel
      /\ labFlight \in [Lab!Card -> Lab!Waiting \cup {None}]
  BY DEF LabInv, LabTypes, Lab!Restart, Lab!NatsFails, Lab!NatsReturns
<1>2. /\ labServer' \in LabServer /\ labServer'.stream = labServer.stream
      /\ labServer'.scheduled \subseteq labServer.scheduled
      /\ labServer'.faults = 0 => labServer.faults = 0 /\ labServer'.nats
  <2>1. CASE Lab!Restart \/ Lab!NatsFails
    <3> DEFINE n == labServer.faults + 1
    <3>1. n \in 0..MaxFaults /\ n # 0
      BY <1>1, <2>1, LabBounds DEF Lab!Restart, Lab!NatsFails, LabServer
    <3>2. \/ labServer' = [labServer EXCEPT !.faults = n, !.scheduled = {}]
          \/ labServer' = [labServer EXCEPT !.faults = n, !.nats = FALSE]
      BY <2>1 DEF Lab!Restart, Lab!NatsFails
    <3> HIDE DEF n
    <3>3. labServer' \in LabServer
      BY <1>1, <3>1, <3>2 DEF LabServer
    <3>4. labServer'.stream = labServer.stream /\ labServer'.scheduled \subseteq labServer.scheduled
          /\ labServer'.faults # 0
      BY <1>1, <3>1, <3>2 DEF LabServer
    <3> QED
      BY <3>3, <3>4
  <2>2. CASE Lab!NatsReturns
    <3>1. labServer' = [labServer EXCEPT !.nats = TRUE] /\ ~labServer.nats
      BY <2>2 DEF Lab!NatsReturns
    <3>2. labServer.faults # 0
      BY <3>1 DEF LabInv, IdsAreFresh
    <3>3. labServer' \in LabServer /\ labServer'.faults = labServer.faults
          /\ labServer'.scheduled = labServer.scheduled /\ labServer'.stream = labServer.stream
      BY <1>1, <3>1 DEF LabServer
    <3> QED
      BY <3>2, <3>3
  <2> QED
    BY <2>1, <2>2
<1>3. /\ labFlight' \in [Lab!Card -> Lab!Waiting \cup {None}]
      /\ \A c \in Lab!Card : labFlight'[c] # None => labFlight[c] # None /\ labFlight'[c].job = labFlight[c].job
      /\ labServer'.faults = 0 => labFlight' = labFlight
  <2>1. CASE Lab!Restart
    <3> DEFINE Failed(c) == IF labFlight[c] = None THEN None ELSE [labFlight[c] EXCEPT !.call = "failed"]
    <3>1. \A c \in Lab!Card : /\ Failed(c) \in Lab!Waiting \cup {None}
                              /\ Failed(c) # None => labFlight[c] # None /\ Failed(c).job = labFlight[c].job
      BY <1>1 DEF Lab!Waiting
    <3>2. labFlight' = [c \in Lab!Card |-> Failed(c)]
      BY <2>1 DEF Lab!Restart
    <3>3. labServer'.faults # 0
      <4>1. labServer.faults \in Nat /\ labServer'.faults = labServer.faults + 1
        BY <1>1, <2>1, LabBounds DEF Lab!Restart, LabServer
      <4> QED
        BY <4>1
    <3> HIDE DEF Failed
    <3> QED
      BY <3>1, <3>2, <3>3
  <2>2. CASE Lab!NatsFails \/ Lab!NatsReturns
    BY <1>1, <2>2 DEF Lab!NatsFails, Lab!NatsReturns
  <2> QED
    BY <2>1, <2>2
<1>4. \A job : Taken(labServer', job) => Taken(labServer, job)
  BY <1>2 DEF Taken, Stored
<1>5. IdsAreDrawn'
  BY <1>1, <1>2, <1>3, <1>4 DEF LabInv, IdsAreDrawn
<1>6. ASSUME labServer'.faults = 0
      PROVE  IdsAreFresh'
  <2>1. IdsAreFresh /\ labFlight' = labFlight /\ labServer'.nats
    BY <1>2, <1>3, <1>6 DEF LabInv
  <2>2. /\ \A c \in Lab!Card : labFlight'[c] # None => labFlight'[c].call # "failed"
        /\ \A c \in LabCards : labFlight'[c] = None => ~Taken(labServer', <<c, labPanel'.drawn[c]>>)
        /\ \A c \in LabCards : labFlight'[c] # None /\ labFlight'[c].call = "sent"
                                 => ~Taken(labServer', labFlight'[c].job)
    BY <1>1, <1>4, <2>1 DEF IdsAreFresh
  <2>3. /\ \A job \in labServer'.scheduled : ~Stored(labServer', job)
        /\ \A i, k \in 1..Len(labServer'.stream) :
             (labServer'.stream[i] = labServer'.stream[k] /\ labServer'.stream[i][1] # "dedup") => i = k
    BY <1>2, <2>1 DEF IdsAreFresh, Stored
  <2> QED
    BY <2>1, <2>2, <2>3 DEF IdsAreFresh
<1> QED
  BY <1>1, <1>2, <1>3, <1>5, <1>6 DEF LabInv, LabTypes

\* A form comes back: a card of the lab draws a new id after a success.
LEMMA LabReturns ==
  ASSUME Lab!LabAssumption, LabInv, NEW c \in Lab!Card, Lab!SendDone(c) \/ Lab!SendFailed(c)
  PROVE  LabInv'
<1>1. /\ labServer \in LabServer /\ labPanel \in LabPanel /\ labServer' = labServer
      /\ labFlight \in [Lab!Card -> Lab!Waiting \cup {None}] /\ labFlight[c] \in Lab!Waiting
      /\ labFlight[c] # None
  BY DEF LabInv, LabTypes, Lab!SendDone, Lab!SendFailed
<1>2. /\ labFlight' \in [Lab!Card -> Lab!Waiting \cup {None}] /\ labFlight'[c] = None
      /\ \A d \in Lab!Card \ {c} : labFlight'[d] = labFlight[d]
  BY <1>1 DEF Lab!SendDone, Lab!SendFailed, Lab!End
<1>3. /\ labPanel.drawn[c] \in Nat /\ labPanel.clicks \in Nat /\ labPanel.clicks <= MaxClicks
      /\ labPanel.drawn[c] < MaxNo + labPanel.clicks /\ labFlight[c].job \in Jobs
  BY <1>1, LabBounds DEF LabInv, IdsAreDrawn, LabPanel, Lab!Waiting, Jobs
<1>4. /\ labPanel' \in LabPanel /\ labPanel'.clicks = labPanel.clicks
      /\ \A d \in Lab!Card \ {c} : /\ labPanel'.id[d] = labPanel.id[d] /\ labPanel'.busy[d] = labPanel.busy[d]
                                   /\ labPanel'.drawn[d] = labPanel.drawn[d]
      /\ \/ labPanel'.id[c] = labPanel.id[c] /\ labPanel'.drawn[c] = labPanel.drawn[c]
         \/ labPanel'.id[c] = labPanel.drawn[c] + 1 /\ labPanel'.drawn[c] = labPanel.drawn[c] + 1
      /\ c \in LabCards /\ labFlight[c].call # "failed" => labPanel'.drawn[c] = labPanel.drawn[c] + 1
  <2> DEFINE n == labPanel.drawn[c] + 1
             b == labPanel.isSubmitting /\ c \notin Lab!Submits
             accepted == labPanel.accepted \cup {labFlight[c].job}
  <2>1. n \in Lab!Id /\ b \in BOOLEAN /\ accepted \in SUBSET Jobs
    <3>1. b \in BOOLEAN
      OBVIOUS
    <3> QED
      BY <1>1, <1>3, <3>1, LabBounds DEF LabPanel
  <2>2. n = labPanel.drawn[c] + 1 /\ labPanel.id[c] \in Lab!Id /\ labPanel.drawn[c] \in Lab!Id
    BY <1>1 DEF LabPanel
  <2>3. CASE Lab!SendDone(c)
    <3> DEFINE how == IF labFlight[c].again THEN "duplicate" ELSE "done"
               done == IF c = "schedule" THEN accepted ELSE labPanel.accepted
               id == IF c = "dedup" THEN labPanel.id[c] ELSE n
               drawn == IF c = "dedup" THEN labPanel.drawn[c] ELSE n
    <3>1. how \in Lab!Status /\ done \in SUBSET Jobs /\ id \in Lab!Id /\ drawn \in Lab!Id
      BY <1>1, <2>1, <2>2 DEF Lab!Status, LabPanel
    <3>2. labPanel' = [labPanel EXCEPT !.status[c] = how, !.accepted = done, !.id[c] = id,
                                       !.drawn[c] = drawn, !.busy[c] = FALSE, !.isSubmitting = b]
      BY <1>1, <2>3 DEF Lab!SendDone, Lab!Lowered, LabPanel
    <3>3. /\ \/ id = labPanel.id[c] /\ drawn = labPanel.drawn[c]
             \/ id = n /\ drawn = n
          /\ c \in LabCards => drawn = n
      BY DEF LabCards
    <3> HIDE DEF how, done, id, drawn, n, b
    <3>4. labPanel' \in LabPanel
      BY <1>1, <2>1, <3>1, <3>2 DEF LabPanel
    <3>5. /\ labPanel'.clicks = labPanel.clicks /\ labPanel'.id[c] = id /\ labPanel'.drawn[c] = drawn
          /\ \A d \in Lab!Card \ {c} : /\ labPanel'.id[d] = labPanel.id[d]
                                       /\ labPanel'.busy[d] = labPanel.busy[d]
                                       /\ labPanel'.drawn[d] = labPanel.drawn[d]
      BY <1>1, <3>2 DEF LabPanel
    <3> QED
      BY <2>2, <3>3, <3>4, <3>5
  <2>4. CASE Lab!SendFailed(c)
    <3>1. labPanel' = [labPanel EXCEPT !.status[c] = "error", !.busy[c] = FALSE, !.isSubmitting = b]
      BY <1>1, <2>4 DEF Lab!SendFailed, Lab!Lowered, LabPanel
    <3>2. "error" \in Lab!Status /\ labFlight[c].call = "failed"
      BY <2>4 DEF Lab!Status, Lab!SendFailed
    <3> HIDE DEF n, b
    <3>3. labPanel' \in LabPanel
      BY <1>1, <2>1, <3>1, <3>2 DEF LabPanel
    <3>4. /\ labPanel'.clicks = labPanel.clicks /\ labPanel'.id = labPanel.id /\ labPanel'.drawn = labPanel.drawn
          /\ \A d \in Lab!Card \ {c} : labPanel'.busy[d] = labPanel.busy[d]
      BY <1>1, <3>1 DEF LabPanel
    <3> QED
      BY <3>2, <3>3, <3>4
  <2> QED
    BY <2>3, <2>4
<1>5. \A job : Taken(labServer', job) <=> Taken(labServer, job)
  BY <1>1
<1>6. \A d \in Lab!Card : d = c \/ d \in Lab!Card \ {c}
  OBVIOUS
<1>7. IdsAreDrawn'
  <2>1. \A d \in Lab!Card : labPanel'.id[d] \in {Lab!Blank, labPanel'.drawn[d]}
    BY <1>4, <1>6 DEF LabInv, IdsAreDrawn
  <2>2. \A d \in Lab!Card : labPanel'.drawn[d] <= MaxNo + labPanel'.clicks
    BY <1>3, <1>4, <1>6, LabBounds DEF LabInv, IdsAreDrawn
  <2>3. \A d \in Lab!Card : labFlight'[d] # None =>
          /\ labFlight'[d].job[1] = d /\ labFlight'[d].job[2] <= labPanel'.drawn[d]
          /\ labPanel'.drawn[d] < MaxNo + labPanel'.clicks /\ labPanel'.clicks >= 1
          /\ d \in LabCards => labPanel'.busy[d]
    BY <1>2, <1>4, <1>6 DEF LabInv, IdsAreDrawn
  <2>4. \A job \in labServer'.scheduled : job[1] = "schedule"
    BY <1>1 DEF LabInv, IdsAreDrawn
  <2>5. \A job \in Jobs : Taken(labServer', job) => job[2] <= labPanel'.drawn[job[1]]
    <3>1. SUFFICES ASSUME NEW job \in Jobs, Taken(labServer, job)
                   PROVE  job[2] <= labPanel'.drawn[job[1]]
      BY <1>5
    <3>2. job[1] \in Lab!Card /\ job[2] \in Nat /\ job[2] <= labPanel.drawn[job[1]]
      BY <3>1, LabBounds DEF Jobs, LabInv, IdsAreDrawn
    <3>3. CASE job[1] = c
      BY <1>3, <1>4, <3>2, <3>3
    <3>4. CASE job[1] \in Lab!Card \ {c}
      BY <1>4, <3>2, <3>4
    <3> QED
      BY <3>2, <3>3, <3>4
  <2> QED
    BY <2>1, <2>2, <2>3, <2>4, <2>5 DEF IdsAreDrawn
<1>8. ASSUME labServer.faults = 0
      PROVE  IdsAreFresh'
  <2>1. IdsAreFresh /\ labFlight[c].call # "failed"
    BY <1>1, <1>8 DEF LabInv, IdsAreFresh
  <2>2. c \in LabCards => ~Taken(labServer', <<c, labPanel'.drawn[c]>>)
    <3>1. SUFFICES ASSUME c \in LabCards, Taken(labServer, <<c, labPanel.drawn[c] + 1>>)
                   PROVE  FALSE
      BY <1>4, <1>5, <2>1
    <3>2. labPanel.drawn[c] + 1 \in Lab!Id
      BY <1>3, LabBounds
    <3>3. <<c, labPanel.drawn[c] + 1>> \in Jobs
      BY <3>2 DEF Jobs
    <3>4. labPanel.drawn[c] + 1 <= labPanel.drawn[c]
      BY <3>1, <3>3 DEF LabInv, IdsAreDrawn
    <3> QED
      BY <1>3, <3>4
  <2>3. \A d \in LabCards : d \in Lab!Card
    BY DEF LabCards
  <2>4. /\ \A d \in LabCards : labFlight'[d] = None => ~Taken(labServer', <<d, labPanel'.drawn[d]>>)
        /\ \A d \in LabCards : labFlight'[d] # None /\ labFlight'[d].call = "sent"
                                 => ~Taken(labServer', labFlight'[d].job)
    BY <1>2, <1>4, <1>5, <1>6, <2>1, <2>2, <2>3 DEF IdsAreFresh
  <2>5. \A d \in Lab!Card : labFlight'[d] # None => labFlight'[d].call # "failed"
    BY <1>2, <1>6, <2>1 DEF IdsAreFresh
  <2>6. /\ labServer'.nats
        /\ \A job \in labServer'.scheduled : ~Stored(labServer', job)
        /\ \A i, k \in 1..Len(labServer'.stream) :
             (labServer'.stream[i] = labServer'.stream[k] /\ labServer'.stream[i][1] # "dedup") => i = k
    BY <1>1, <2>1 DEF IdsAreFresh
  <2> QED
    BY <2>4, <2>5, <2>6 DEF IdsAreFresh
<1> QED
  BY <1>1, <1>2, <1>4, <1>7, <1>8 DEF LabInv, LabTypes

\* The user, up to an await.
LEMMA LabUser ==
  ASSUME Lab!LabAssumption, LabInv, Lab!User
  PROVE  LabInv'
<1>1. labPanel \in LabPanel
  BY DEF LabInv, LabTypes
<1>2. {"nak", "ackwait", "schedule", "dedup"} = Lab!Card
  BY DEF Lab!Card
<1>3. CASE \E c \in Lab!Card, again \in BOOLEAN : Lab!Send(c, again)
  BY <1>3, LabSends
<1>4. CASE Lab!handlePublishBlank
  <2>1. labPanel' = [labPanel EXCEPT !.status["dedup"] = "error"] /\ labServer' = labServer /\ labFlight' = labFlight
    BY <1>4 DEF Lab!handlePublishBlank
  <2>2. /\ labPanel' \in LabPanel /\ labPanel'.busy = labPanel.busy /\ labPanel'.clicks = labPanel.clicks
        /\ labPanel'.id = labPanel.id /\ labPanel'.drawn = labPanel.drawn
    BY <1>1, <2>1 DEF LabPanel, Lab!Status
  <2> QED
    BY <2>1, <2>2, LabEdits DEF LabInv, IdsAreDrawn
<1>5. CASE \E c \in Lab!Card : Lab!EditId(c)
  <2>1. PICK c \in Lab!Card : Lab!EditId(c)
    BY <1>5
  <2>2. labServer' = labServer /\ labFlight' = labFlight
    BY <2>1 DEF Lab!EditId
  <2> DEFINE n == labPanel.drawn[c] + 1
  <2>3. CASE labPanel' = [labPanel EXCEPT !.id[c] = Lab!Blank]
    <3>1. Lab!Blank \in Lab!Id
      BY LabBounds DEF Lab!Blank
    <3>2. /\ labPanel' \in LabPanel /\ labPanel'.busy = labPanel.busy /\ labPanel'.clicks = labPanel.clicks
          /\ labPanel'.drawn = labPanel.drawn /\ labPanel'.id[c] = Lab!Blank
          /\ \A d \in Lab!Card \ {c} : labPanel'.id[d] = labPanel.id[d]
      BY <1>1, <2>3, <3>1 DEF LabPanel
    <3> QED
      BY <2>2, <3>2, LabEdits DEF LabInv, IdsAreDrawn
  <2>4. CASE labPanel.drawn[c] < MaxNo /\ labPanel' = [labPanel EXCEPT !.id[c] = n, !.drawn[c] = n]
    <3>1. n \in Lab!Id
      BY <1>1, <2>4, LabBounds DEF LabPanel
    <3>2. n = labPanel.drawn[c] + 1
      OBVIOUS
    <3> HIDE DEF n
    <3>3. /\ labPanel' \in LabPanel /\ labPanel'.busy = labPanel.busy /\ labPanel'.clicks = labPanel.clicks
          /\ labPanel'.drawn[c] = n /\ labPanel'.id[c] = n
          /\ \A d \in Lab!Card \ {c} : /\ labPanel'.id[d] = labPanel.id[d]
                                       /\ labPanel'.drawn[d] = labPanel.drawn[d]
      BY <1>1, <2>4, <3>1 DEF LabPanel
    <3> QED
      BY <2>2, <2>4, <3>2, <3>3, LabEdits DEF LabInv, IdsAreDrawn
  <2> QED
    BY <1>1, <2>1, <2>3, <2>4 DEF Lab!EditId, LabPanel
<1> QED
  BY <1>2, <1>3, <1>4, <1>5 DEF Lab!User, Lab!handleTriggerNak, Lab!handleTriggerAckWait,
     Lab!handleTriggerSchedule, Lab!handlePublish

LEMMA LabNext ==
  ASSUME Lab!LabAssumption, LabInv, [Lab!Next]_Lab!vars
  PROVE  LabInv'
<1>1. CASE \E c \in Lab!Card : Lab!Progress(c)
  <2>1. PICK c \in Lab!Card : Lab!Progress(c)
    BY <1>1
  <2> QED
    BY <2>1, LabServes, LabReturns DEF Lab!Progress
<1>2. CASE UNCHANGED Lab!vars
  <2>1. labServer' = labServer /\ labPanel' = labPanel /\ labFlight' = labFlight
    BY <1>2 DEF Lab!vars
  <2>2. labPanel \in LabPanel
    BY DEF LabInv, LabTypes
  <2> QED
    BY <2>1, <2>2, LabEdits DEF LabInv, IdsAreDrawn
<1> QED
  BY <1>1, <1>2, LabUser, LabFires, LabFaults DEF Lab!Next

LEMMA LabInvariant == Spec => []LabInv
<1>1. Init => LabInv
  BY FormsAssumption, LabInit DEF Init
<1>2. LabInv /\ [Next]_vars => LabInv'
  <2>1. [Next]_vars => [Lab!Next]_(Lab!vars)
    BY DEF Next, OnValidate, OnLab, OnReplay, vars, validateVars, labVars, replayVars, Lab!vars
  <2> QED
    BY <2>1, FormsAssumption, LabNext
<1> QED
  BY <1>1, <1>2, PTL DEF Spec

(* As long as job-service was not restarted and NATS did not fail, a card of   *)
(* the lab (DelayedRetryPanel.tsx) never stores one id twice, although it sets *)
(* no message id that the broker could compare: a card that has a request      *)
(* under way sends no other, and a success draws a new id. The ids are random  *)
(* numbers of 900 values; the model takes them as different.                   *)
THEOREM IdsAreUsedOnce == Spec => []StoredOnceWithoutFaults
<1>1. LabInv => StoredOnceWithoutFaults
  BY DEF LabInv, IdsAreFresh, Lab!StoredOnceWithoutFaults, StoredOnceWithoutFaults
<1> QED
  BY <1>1, LabInvariant, PTL

LEMMA LabTypesHold == LabInv => Lab!TypeOK
BY DEF LabInv, LabTypes, LabServer, LabPanel, Jobs, Lab!TypeOK

-----------------------------------------------------------------------------
(* ReplayForm.                                                             *)

ReplayRecord == [kind: Replay!Kind, start: Replay!Value, end: Replay!Value, run: 0..MaxResets,
                 base: Replay!Value, open: BOOLEAN, next: 1..(MaxMessages + 1),
                 replayed: Seq(1..MaxMessages)]
ReplayServer == [up: BOOLEAN, exists: BOOLEAN, run: 0..MaxResets, base: Replay!Value,
                 last: Replay!Value, replays: Seq(ReplayRecord)]
ReplayPanel == [replayFrom: Replay!Kind, start: Replay!Field, end: Replay!Field,
                isLoading: BOOLEAN, result: (1..MaxReplays) \cup {None}, error: BOOLEAN,
                totalMsgs: Replay!Value, clicks: 0..MaxReplays]
ReplayTypes == /\ replayServer \in ReplayServer /\ replayPanel \in ReplayPanel
               /\ replayFlight \in Replay!Waiting \cup {None}

\* The stream is within its bounds, and deleted only when it may come back.
StreamIsBounded == /\ replayServer.base + replayServer.last <= MaxMessages
                   /\ ~replayServer.exists => replayServer.run < MaxResets

\* A request is one that the form lets pass, and it still has its place.
RequestIsValid ==
  /\ replayFlight # None =>
       /\ replayPanel.isLoading /\ replayFlight.call # "invalid"
       /\ replayFlight.kind = "sequence" => 1 <= replayFlight.start /\ replayFlight.start <= replayFlight.end
       /\ replayFlight.kind = "time" => replayFlight.start < replayFlight.end
       /\ replayFlight.call = "sent" => Len(replayServer.replays) < replayPanel.clicks
  /\ Len(replayServer.replays) <= replayPanel.clicks

\* A replay forwards what its consumer delivers until the end of its range is passed,
\* which then stays passed.
Forwards(replay) ==
  LET first == Replay!First(replay.kind, replay.start, replay.base)
  IN /\ first \in Nat /\ 1 <= first /\ first <= replay.next
     /\ Len(replay.replayed) <= replay.next - first
     /\ ~Replay!Beyond(replay, replay.next) => Len(replay.replayed) = replay.next - first
     /\ \A k \in 1..Len(replay.replayed) :
          replay.replayed[k] = first + k - 1 /\ ~Replay!Beyond(replay, first + k - 1)
ReplaysForward == \A i \in 1..Len(replayServer.replays) : Forwards(replayServer.replays[i])
ReplayInv == ReplayTypes /\ StreamIsBounded /\ RequestIsValid /\ ReplaysForward

LEMMA ReplayBounds ==
  ASSUME Replay!ReplayAssumption
  PROVE  /\ MaxMessages \in Nat /\ MaxMessages >= 1 /\ MaxReplays \in Nat /\ MaxResets \in Nat
         /\ \A n : n \in Replay!Value <=> n \in Nat /\ n <= MaxMessages
         /\ \A w \in Replay!Waiting : w # None
<1>1. MaxMessages \in Nat /\ MaxMessages >= 1 /\ MaxReplays \in Nat /\ MaxResets \in Nat
  BY DEF Replay!ReplayAssumption
<1> QED
  BY <1>1 DEF Replay!ReplayAssumption, Replay!Value

LEMMA MaxOfTwo ==
  ASSUME NEW n \in Int
  PROVE  Replay!Max({1, n}) \in {1, n} /\ Replay!Max({1, n}) >= 1
<1>1. \E x \in {1, n} : \A y \in {1, n} : x >= y
  <2>1. CASE n >= 1
    BY <2>1
  <2>2. CASE 1 >= n
    BY <2>2
  <2> QED
    BY <2>1, <2>2
<1> QED
  BY <1>1 DEF Replay!Max

\* The first message of a replay, which may be one that was not published yet.
LEMMA FirstIsInRange ==
  ASSUME Replay!ReplayAssumption, NEW kind \in Replay!Kind, NEW start \in Replay!Value,
         NEW base \in Replay!Value, kind = "sequence" => 1 <= start
  PROVE  Replay!First(kind, start, base) \in 1..(MaxMessages + 1)
<1>1. start \in Nat /\ base \in Nat /\ start <= MaxMessages /\ MaxMessages \in Nat
  BY ReplayBounds
<1>2. CASE kind = "sequence"
  BY <1>1, <1>2 DEF Replay!First
<1>3. CASE kind # "sequence"
  <2>1. start - base \in Int /\ start - base <= MaxMessages
    BY <1>1
  <2>2. Replay!First(kind, start, base) = Replay!Max({1, start - base})
    BY <1>3 DEF Replay!First
  <2> QED
    BY <1>1, <2>1, <2>2, MaxOfTwo
<1> QED
  BY <1>2, <1>3

LEMMA ReplayInit == ASSUME Replay!ReplayAssumption, Replay!Init PROVE ReplayInv
<1>1. 0 \in Replay!Value /\ MaxMessages \in Replay!Value /\ 0 \in 0..MaxResets /\ 0 \in 0..MaxReplays
  BY ReplayBounds
<1>2. replayServer \in ReplayServer
  BY <1>1 DEF Replay!Init, ReplayServer
<1>3. replayPanel \in ReplayPanel
  <2>1. 1 \in Replay!Field
    BY ReplayBounds DEF Replay!Field
  <2> QED
    BY <1>1, <2>1 DEF Replay!Init, ReplayPanel, Replay!Kind, Replay!Field
<1>4. StreamIsBounded /\ RequestIsValid /\ ReplaysForward
  BY ReplayBounds DEF Replay!Init, StreamIsBounded, RequestIsValid, ReplaysForward
<1> QED
  BY <1>2, <1>3, <1>4 DEF Replay!Init, ReplayInv, ReplayTypes

\* The fields, and the stream as App knows it.
LEMMA ReplayEdits ==
  ASSUME Replay!ReplayAssumption, ReplayInv,
         \/ Replay!EditField \/ Replay!setReplayFrom \/ Replay!handleSubmitRefused \/ Replay!Tick
  PROVE  ReplayInv'
<1>1. replayServer \in ReplayServer /\ replayPanel \in ReplayPanel /\ replayServer' = replayServer /\ replayFlight' = replayFlight
  BY DEF ReplayInv, ReplayTypes, Replay!EditField, Replay!setReplayFrom,
         Replay!handleSubmitRefused, Replay!Tick
<1>2. replayServer.last \in Replay!Value
  BY <1>1 DEF ReplayServer
<1>3. /\ replayPanel' \in ReplayPanel /\ replayPanel'.isLoading = replayPanel.isLoading
      /\ replayPanel'.clicks = replayPanel.clicks
  <2>1. CASE Replay!EditField
    BY <1>1, <2>1 DEF Replay!EditField, ReplayPanel
  <2>2. CASE Replay!setReplayFrom
    BY <1>1, <2>2 DEF Replay!setReplayFrom, ReplayPanel
  <2>3. CASE Replay!handleSubmitRefused
    BY <1>1, <2>3 DEF Replay!handleSubmitRefused, ReplayPanel
  <2>4. CASE Replay!Tick
    BY <1>1, <1>2, <2>4 DEF Replay!Tick, ReplayPanel
  <2> QED
    BY <2>1, <2>2, <2>3, <2>4
<1>4. StreamIsBounded' /\ ReplaysForward' /\ ReplayTypes'
  BY <1>1, <1>3 DEF ReplayInv, ReplayTypes, StreamIsBounded, ReplaysForward
<1>5. RequestIsValid'
  BY <1>1, <1>3 DEF ReplayInv, RequestIsValid
<1> QED
  BY <1>4, <1>5 DEF ReplayInv

\* A replay is asked for: the form is idle, and its values are in order.
LEMMA ReplaySubmits ==
  ASSUME Replay!ReplayAssumption, ReplayInv, Replay!handleSubmit
  PROVE  ReplayInv'
<1> DEFINE n == replayPanel.clicks + 1
           call == [kind |-> replayPanel.replayFrom, start |-> replayPanel.start, end |-> replayPanel.end,
                    call |-> "sent", consumer |-> None]
<1>1. replayServer \in ReplayServer /\ replayPanel \in ReplayPanel /\ replayServer' = replayServer
  BY DEF ReplayInv, ReplayTypes, Replay!handleSubmit
<1>2. /\ ~Replay!Refused /\ replayPanel.clicks < MaxReplays /\ replayFlight' = call
      /\ replayPanel' = [replayPanel EXCEPT !.isLoading = TRUE, !.error = FALSE, !.result = None, !.clicks = n]
  BY DEF Replay!handleSubmit
<1>3. replayPanel.start \in Replay!Value /\ replayPanel.end \in Replay!Value /\ replayPanel.replayFrom \in Replay!Kind
  BY <1>1, <1>2 DEF Replay!Refused, Replay!Field, ReplayPanel
<1>4. replayPanel.start \in Nat /\ replayPanel.end \in Nat
  BY <1>3, ReplayBounds
<1>5. /\ replayPanel.replayFrom = "sequence" => 1 <= replayPanel.start /\ replayPanel.start <= replayPanel.end
      /\ replayPanel.replayFrom = "time" => replayPanel.start < replayPanel.end
  BY <1>2, <1>4 DEF Replay!Refused
<1>6. n \in 0..MaxReplays /\ replayPanel.clicks \in Nat /\ n = replayPanel.clicks + 1
  BY <1>1, <1>2, ReplayBounds DEF ReplayPanel
<1>7. call \in Replay!Waiting
  BY <1>3 DEF Replay!Waiting
<1> HIDE DEF n
<1>8. replayPanel' \in ReplayPanel /\ replayPanel'.isLoading /\ replayPanel'.clicks = n
  <2>1. replayPanel' \in ReplayPanel /\ replayPanel'.clicks = n
    BY <1>1, <1>2, <1>6 DEF ReplayPanel
  <2>2. replayPanel'.isLoading
    BY <1>1, <1>2 DEF ReplayPanel
  <2> QED
    BY <2>1, <2>2
<1>9. Len(replayServer.replays) \in Nat /\ Len(replayServer.replays) <= replayPanel.clicks
  BY <1>1 DEF ReplayServer, ReplayInv, RequestIsValid
<1>10. RequestIsValid'
  <2>1. Len(replayServer.replays) < n /\ Len(replayServer.replays) <= n
    BY <1>6, <1>9
  <2>2. /\ replayFlight'.call = "sent" /\ replayFlight'.kind = replayPanel.replayFrom
        /\ replayFlight'.start = replayPanel.start /\ replayFlight'.end = replayPanel.end
    BY <1>2
  <2> QED
    BY <1>1, <1>5, <1>8, <2>1, <2>2 DEF RequestIsValid
<1>11. StreamIsBounded' /\ ReplaysForward' /\ ReplayTypes'
  BY <1>1, <1>2, <1>7, <1>8 DEF ReplayInv, ReplayTypes, StreamIsBounded, ReplaysForward
<1> QED
  BY <1>10, <1>11 DEF ReplayInv

\* The form comes back.
LEMMA ReplayReturns ==
  ASSUME Replay!ReplayAssumption, ReplayInv, Replay!SubmitReturns
  PROVE  ReplayInv'
<1>1. /\ replayServer \in ReplayServer /\ replayPanel \in ReplayPanel /\ replayServer' = replayServer
      /\ replayFlight \in Replay!Waiting /\ replayFlight' = None
  BY DEF ReplayInv, ReplayTypes, Replay!SubmitReturns
<1> DEFINE b == replayFlight.call # "accepted"
<1>2. replayPanel' = [replayPanel EXCEPT !.isLoading = FALSE, !.error = b, !.result = replayFlight.consumer]
  BY DEF Replay!SubmitReturns
<1>3. b \in BOOLEAN /\ replayFlight.consumer \in (1..MaxReplays) \cup {None}
  <2>1. b \in BOOLEAN
    OBVIOUS
  <2> QED
    BY <1>1, <2>1 DEF Replay!Waiting
<1> HIDE DEF b
<1>4. replayPanel' \in ReplayPanel /\ replayPanel'.clicks = replayPanel.clicks
  BY <1>1, <1>2, <1>3 DEF ReplayPanel
<1> QED
  BY <1>1, <1>4 DEF ReplayInv, ReplayTypes, RequestIsValid, StreamIsBounded, ReplaysForward

\* The service answers a request: it never turns down what the form lets pass.
LEMMA ReplayFails ==
  ASSUME Replay!ReplayAssumption, ReplayInv, Replay!ReplayJobsFails
  PROVE  ReplayInv'
<1>1. /\ replayServer' = replayServer /\ replayPanel' = replayPanel /\ replayFlight # None /\ replayFlight \in Replay!Waiting
  BY DEF ReplayInv, ReplayTypes, Replay!ReplayJobsFails
<1>2. ~Replay!Invalid
  <2>1. replayFlight.start \in Nat /\ replayFlight.end \in Nat /\ replayFlight.kind \in {"sequence", "time"}
    BY <1>1, ReplayBounds DEF Replay!Waiting, Replay!Kind
  <2> QED
    BY <1>1, <2>1 DEF Replay!Invalid, ReplayInv, RequestIsValid
<1>3. replayFlight' = [replayFlight EXCEPT !.call = "failed", !.consumer = None]
  BY <1>2 DEF Replay!ReplayJobsFails, Replay!Answer
<1>4. /\ replayFlight' \in Replay!Waiting /\ replayFlight'.kind = replayFlight.kind /\ replayFlight'.start = replayFlight.start
      /\ replayFlight'.end = replayFlight.end /\ replayFlight'.call = "failed"
  BY <1>1, <1>3 DEF Replay!Waiting
<1> QED
  BY <1>1, <1>4 DEF ReplayInv, ReplayTypes, RequestIsValid, StreamIsBounded, ReplaysForward

\* The stream grows or goes, the service is reached or not: no replay changes.
LEMMA StreamChanges ==
  ASSUME Replay!ReplayAssumption, ReplayInv,
         \/ Replay!Publish \/ Replay!DeleteStream \/ Replay!EnsureJobsStream
         \/ Replay!Outage \/ Replay!Recover
  PROVE  ReplayInv'
<1>1. replayServer \in ReplayServer /\ replayPanel' = replayPanel /\ replayFlight' = replayFlight
  BY DEF ReplayInv, ReplayTypes, Replay!Publish, Replay!DeleteStream, Replay!EnsureJobsStream,
         Replay!Outage, Replay!Recover
<1>2. /\ replayServer.base \in Nat /\ replayServer.last \in Nat /\ replayServer.run \in Nat
      /\ replayServer.base + replayServer.last <= MaxMessages /\ replayServer.run <= MaxResets
      /\ MaxMessages \in Nat /\ MaxResets \in Nat
  BY <1>1, ReplayBounds DEF ReplayServer, ReplayInv, StreamIsBounded
<1>3. replayServer' \in ReplayServer /\ replayServer'.replays = replayServer.replays /\ StreamIsBounded'
  <2>1. CASE Replay!Publish
    <3> DEFINE n == replayServer.last + 1
    <3>1. /\ replayServer' = [replayServer EXCEPT !.last = n] /\ replayServer.exists
          /\ replayServer.base + replayServer.last < MaxMessages
      BY <2>1 DEF Replay!Publish
    <3>2. n \in Replay!Value /\ replayServer.base + n <= MaxMessages
      BY <1>2, <3>1, ReplayBounds
    <3> HIDE DEF n
    <3>3. /\ replayServer' \in ReplayServer /\ replayServer'.replays = replayServer.replays
          /\ replayServer'.base = replayServer.base /\ replayServer'.last = n
          /\ replayServer'.exists = replayServer.exists /\ replayServer'.run = replayServer.run
      BY <1>1, <3>1, <3>2 DEF ReplayServer
    <3> QED
      BY <3>2, <3>3 DEF ReplayInv, StreamIsBounded
  <2>2. CASE Replay!DeleteStream
    <3> DEFINE n == replayServer.base + replayServer.last
    <3>1. /\ replayServer' = [replayServer EXCEPT !.exists = FALSE, !.base = n, !.last = 0]
          /\ replayServer.run < MaxResets
      BY <2>2 DEF Replay!DeleteStream
    <3>2. n \in Replay!Value /\ 0 \in Replay!Value /\ n + 0 <= MaxMessages
      BY <1>2, ReplayBounds
    <3> HIDE DEF n
    <3>3. /\ replayServer' \in ReplayServer /\ replayServer'.replays = replayServer.replays
          /\ replayServer'.base = n /\ replayServer'.last = 0 /\ replayServer'.run = replayServer.run
      BY <1>1, <3>1, <3>2 DEF ReplayServer
    <3> QED
      BY <3>1, <3>2, <3>3 DEF StreamIsBounded
  <2>3. CASE Replay!EnsureJobsStream
    <3> DEFINE n == replayServer.run + 1
    <3>1. replayServer' = [replayServer EXCEPT !.exists = TRUE, !.run = n] /\ ~replayServer.exists
      BY <2>3 DEF Replay!EnsureJobsStream
    <3>2. n \in 0..MaxResets
      BY <1>2, <3>1 DEF ReplayInv, StreamIsBounded
    <3> HIDE DEF n
    <3>3. /\ replayServer' \in ReplayServer /\ replayServer'.replays = replayServer.replays
          /\ replayServer'.base = replayServer.base /\ replayServer'.last = replayServer.last
      BY <1>1, <3>1, <3>2 DEF ReplayServer
    <3>4. replayServer'.exists
      BY <1>1, <3>1 DEF ReplayServer
    <3> QED
      BY <1>2, <3>3, <3>4 DEF StreamIsBounded
  <2>4. CASE Replay!Outage \/ Replay!Recover
    <3>1. PICK b \in BOOLEAN : replayServer' = [replayServer EXCEPT !.up = b]
      BY <2>4 DEF Replay!Outage, Replay!Recover
    <3>2. /\ replayServer' \in ReplayServer /\ replayServer'.replays = replayServer.replays
          /\ replayServer'.base = replayServer.base /\ replayServer'.last = replayServer.last
          /\ replayServer'.exists = replayServer.exists /\ replayServer'.run = replayServer.run
      BY <1>1, <3>1 DEF ReplayServer
    <3> QED
      BY <3>2 DEF ReplayInv, StreamIsBounded
  <2> QED
    BY <2>1, <2>2, <2>3, <2>4
<1>4. RequestIsValid' /\ ReplaysForward' /\ ReplayTypes'
  BY <1>1, <1>3 DEF ReplayInv, ReplayTypes, RequestIsValid, ReplaysForward
<1> QED
  BY <1>3, <1>4 DEF ReplayInv

\* A replay begins.
LEMMA ReplayStarts ==
  ASSUME Replay!ReplayAssumption, ReplayInv, Replay!ReplayJobs
  PROVE  ReplayInv'
<1> DEFINE first == Replay!First(replayFlight.kind, replayFlight.start, replayServer.base)
           r == [kind |-> replayFlight.kind, start |-> replayFlight.start, end |-> replayFlight.end,
                 run |-> replayServer.run, base |-> replayServer.base, open |-> TRUE,
                 next |-> first, replayed |-> << >>]
           n == Len(replayServer.replays) + 1
<1>1. /\ replayServer \in ReplayServer /\ replayPanel \in ReplayPanel /\ replayPanel' = replayPanel
      /\ replayFlight # None /\ replayFlight \in Replay!Waiting
  BY DEF ReplayInv, ReplayTypes, Replay!ReplayJobs
<1>2. /\ replayServer' = [replayServer EXCEPT !.replays = Append(replayServer.replays, r)]
      /\ replayFlight' = [replayFlight EXCEPT !.call = "accepted", !.consumer = n]
      /\ replayFlight.call = "sent"
  BY DEF Replay!ReplayJobs, Replay!Answer
<1>3. /\ replayFlight.kind \in Replay!Kind /\ replayFlight.start \in Replay!Value /\ replayFlight.end \in Replay!Value
      /\ replayServer.base \in Replay!Value /\ replayServer.replays \in Seq(ReplayRecord)
  BY <1>1 DEF Replay!Waiting, ReplayServer
<1>4. first \in 1..(MaxMessages + 1)
  BY <1>1, <1>3, FirstIsInRange DEF ReplayInv, RequestIsValid
<1>5. r \in ReplayRecord
  BY <1>1, <1>3, <1>4 DEF ReplayRecord, ReplayServer
<1>6. Forwards(r)
  <2>1. /\ Replay!First(r.kind, r.start, r.base) = first /\ r.next = first /\ r.replayed = << >>
    OBVIOUS
  <2> HIDE DEF first, r
  <2>2. first \in Nat /\ 1 <= first /\ first - first = 0
    BY <1>4
  <2> QED
    BY <2>1, <2>2 DEF Forwards
<1>7. /\ n \in 1..MaxReplays /\ n <= replayPanel.clicks
  <2>1. Len(replayServer.replays) \in Nat /\ replayPanel.clicks \in 0..MaxReplays
    BY <1>1, <1>3 DEF ReplayPanel
  <2>2. Len(replayServer.replays) < replayPanel.clicks
    BY <1>1, <1>2 DEF ReplayInv, RequestIsValid
  <2> QED
    BY <2>1, <2>2, ReplayBounds
<1> HIDE DEF first, r
<1>8. /\ replayServer' \in ReplayServer /\ replayServer'.replays = Append(replayServer.replays, r)
      /\ replayServer'.base = replayServer.base /\ replayServer'.last = replayServer.last
      /\ replayServer'.exists = replayServer.exists /\ replayServer'.run = replayServer.run
  <2> DEFINE replays == Append(replayServer.replays, r)
  <2>1. replays \in Seq(ReplayRecord) /\ replayServer' = [replayServer EXCEPT !.replays = replays]
    BY <1>2, <1>3, <1>5
  <2> HIDE DEF replays
  <2>2. /\ replayServer' \in ReplayServer /\ replayServer'.replays = replays
        /\ replayServer'.base = replayServer.base /\ replayServer'.last = replayServer.last
        /\ replayServer'.exists = replayServer.exists /\ replayServer'.run = replayServer.run
    BY <1>1, <2>1 DEF ReplayServer
  <2> QED
    BY <2>2 DEF replays
<1>9. ReplaysForward'
  <2>1. /\ Len(replayServer.replays) \in Nat /\ Len(replayServer'.replays) = n /\ replayServer'.replays[n] = r
        /\ \A i \in 1..Len(replayServer.replays) : replayServer'.replays[i] = replayServer.replays[i]
    BY <1>3, <1>5, <1>8
  <2>2. \A i \in 1..n : i \in 1..Len(replayServer.replays) \/ i = n
    BY <2>1
  <2> QED
    BY <1>6, <2>1, <2>2 DEF ReplayInv, ReplaysForward
<1>10. Len(replayServer'.replays) = n
  BY <1>3, <1>5, <1>8
<1> HIDE DEF n
<1>11. /\ replayFlight' \in Replay!Waiting /\ replayFlight'.kind = replayFlight.kind /\ replayFlight'.start = replayFlight.start
       /\ replayFlight'.end = replayFlight.end /\ replayFlight'.call = "accepted"
  BY <1>1, <1>2, <1>7 DEF Replay!Waiting
<1>12. RequestIsValid'
  BY <1>1, <1>7, <1>10, <1>11 DEF ReplayInv, RequestIsValid
<1>13. StreamIsBounded' /\ ReplayTypes'
  BY <1>1, <1>8, <1>11 DEF ReplayInv, ReplayTypes, StreamIsBounded
<1> QED
  BY <1>9, <1>12, <1>13 DEF ReplayInv

\* One replay changes, and still forwards.
LEMMA OneReplayChanges ==
  ASSUME Replay!ReplayAssumption, ReplayInv, NEW i \in 1..Len(replayServer.replays),
         NEW r \in ReplayRecord, Forwards(r), replayPanel' = replayPanel, replayFlight' = replayFlight,
         replayServer' = [replayServer EXCEPT !.replays = [replayServer.replays EXCEPT ![i] = r]]
  PROVE  ReplayInv'
<1> DEFINE replays == [replayServer.replays EXCEPT ![i] = r]
<1>1. replayServer \in ReplayServer /\ replayServer.replays \in Seq(ReplayRecord)
  BY DEF ReplayInv, ReplayTypes, ReplayServer
<1>2. /\ replays \in Seq(ReplayRecord) /\ Len(replays) = Len(replayServer.replays)
      /\ \A k \in 1..Len(replayServer.replays) : replays[k] = IF k = i THEN r ELSE replayServer.replays[k]
  <2>1. replays \in Seq(ReplayRecord)
    BY <1>1, ExceptSeq
  <2>2. Len(replays) = Len(replayServer.replays)
    BY <1>1, ExceptSeq
  <2>3. \A k \in 1..Len(replayServer.replays) : replays[k] = IF k = i THEN r ELSE replayServer.replays[k]
    BY <1>1
  <2> QED
    BY <2>1, <2>2, <2>3
<1> HIDE DEF replays
<1>3. /\ replayServer' \in ReplayServer /\ replayServer'.replays = replays
      /\ replayServer'.base = replayServer.base /\ replayServer'.last = replayServer.last
      /\ replayServer'.exists = replayServer.exists /\ replayServer'.run = replayServer.run
  <2>1. replayServer' = [replayServer EXCEPT !.replays = replays]
    BY DEF replays
  <2> QED
    BY <1>1, <1>2, <2>1 DEF ReplayServer
<1>4. ReplaysForward'
  BY <1>2, <1>3 DEF ReplayInv, ReplaysForward
<1>5. RequestIsValid' /\ StreamIsBounded' /\ ReplayTypes'
  BY <1>2, <1>3 DEF ReplayInv, ReplayTypes, RequestIsValid, StreamIsBounded
<1> QED
  BY <1>4, <1>5 DEF ReplayInv

\* What lies beyond the end of a range stays beyond it.
LEMMA BeyondStays ==
  ASSUME NEW r \in ReplayRecord, NEW k \in Nat, NEW m \in Nat, k <= m,
         Replay!ReplayAssumption, Replay!Beyond(r, k)
  PROVE  Replay!Beyond(r, m)
<1>1. r.end \in Nat /\ r.base \in Nat
  BY ReplayBounds DEF ReplayRecord
<1> QED
  BY <1>1 DEF Replay!Beyond

\* The consumer of a replay delivers its next message.
LEMMA ReplayConsumes ==
  ASSUME Replay!ReplayAssumption, ReplayInv, NEW i \in DOMAIN replayServer.replays, Replay!ConsumeNext(i)
  PROVE  ReplayInv'
<1> DEFINE replay == replayServer.replays[i]
           first == Replay!First(replay.kind, replay.start, replay.base)
           n == replay.next + 1
           replayed == IF Replay!Beyond(replay, replay.next) THEN replay.replayed
                       ELSE Append(replay.replayed, replay.next)
           r == [replay EXCEPT !.next = n, !.replayed = replayed]
<1>1. /\ replayServer \in ReplayServer /\ replayServer.replays \in Seq(ReplayRecord)
      /\ replayPanel' = replayPanel /\ replayFlight' = replayFlight /\ i \in 1..Len(replayServer.replays)
  BY DEF ReplayInv, ReplayTypes, ReplayServer, Replay!ConsumeNext
<1>2. replay \in ReplayRecord /\ Forwards(replay)
  BY <1>1 DEF ReplayInv, ReplaysForward
<1>3. replayServer' = [replayServer EXCEPT !.replays = [replayServer.replays EXCEPT ![i] = r]]
  BY <1>1, <1>2 DEF Replay!ConsumeNext, ReplayServer, ReplayRecord
<1>4. /\ replay.next \in 1..MaxMessages /\ replay.replayed \in Seq(1..MaxMessages)
      /\ n = replay.next + 1
  <2>1. replay.next <= replayServer.last
    BY DEF Replay!ConsumeNext, Replay!Delivers
  <2>2. replayServer.last \in Nat /\ replayServer.last <= MaxMessages /\ MaxMessages \in Nat
    BY <1>1, ReplayBounds DEF ReplayServer
  <2>3. replay.next \in 1..(MaxMessages + 1) /\ replay.replayed \in Seq(1..MaxMessages)
    BY <1>2 DEF ReplayRecord
  <2> QED
    BY <2>1, <2>2, <2>3
<1>5. n \in 1..(MaxMessages + 1) /\ n \in Nat /\ replayed \in Seq(1..MaxMessages) /\ MaxMessages \in Nat
  <2>1. MaxMessages \in Nat /\ n \in 1..(MaxMessages + 1) /\ n \in Nat
    BY <1>4, ReplayBounds
  <2>2. Append(replay.replayed, replay.next) \in Seq(1..MaxMessages)
    <3> HIDE DEF replay
    <3> QED
      BY <1>4
  <2>3. replayed \in Seq(1..MaxMessages)
    BY <1>4, <2>2
  <2> QED
    BY <2>1, <2>3
<1>6. /\ Replay!Beyond(replay, replay.next) => replayed = replay.replayed
      /\ ~Replay!Beyond(replay, replay.next) => replayed = Append(replay.replayed, replay.next)
  OBVIOUS
<1>7. /\ first \in Nat /\ 1 <= first /\ first <= replay.next
      /\ Len(replay.replayed) <= replay.next - first
      /\ ~Replay!Beyond(replay, replay.next) => Len(replay.replayed) = replay.next - first
      /\ \A k \in 1..Len(replay.replayed) :
           replay.replayed[k] = first + k - 1 /\ ~Replay!Beyond(replay, first + k - 1)
  BY <1>2 DEF Forwards
<1>8. r \in ReplayRecord
  <2> HIDE DEF replay, n, replayed
  <2> QED
    BY <1>2, <1>5 DEF ReplayRecord
<1>9. /\ r.next = n /\ r.replayed = replayed
      /\ r.kind = replay.kind /\ r.start = replay.start /\ r.base = replay.base /\ r.end = replay.end
  <2> HIDE DEF replay, n, replayed
  <2> QED
    BY <1>2 DEF ReplayRecord
<1>10. Replay!First(r.kind, r.start, r.base) = first
       /\ \A k : Replay!Beyond(r, k) <=> Replay!Beyond(replay, k)
  BY <1>9 DEF Replay!Beyond
<1> HIDE DEF r, replayed, n, replay, first
<1>11. /\ first <= n
       /\ Len(replayed) <= n - first
       /\ ~Replay!Beyond(replay, n) => Len(replayed) = n - first
       /\ \A k \in 1..Len(replayed) :
            replayed[k] = first + k - 1 /\ ~Replay!Beyond(replay, first + k - 1)
  <2>1. replay.next \in Nat /\ Len(replay.replayed) \in Nat
    BY <1>4
  <2>2. CASE Replay!Beyond(replay, replay.next)
    <3>1. Replay!Beyond(replay, n)
      BY <1>2, <1>4, <1>5, <2>1, <2>2, BeyondStays
    <3> QED
      BY <1>4, <1>6, <1>7, <2>1, <2>2, <3>1
  <2>3. CASE ~Replay!Beyond(replay, replay.next)
    <3> DEFINE m == Len(replay.replayed)
    <3>1. replayed = Append(replay.replayed, replay.next) /\ m = replay.next - first /\ m \in Nat
      BY <1>6, <1>7, <2>1, <2>3
    <3>2. /\ Len(replayed) = m + 1 /\ replayed[m + 1] = replay.next
          /\ \A k \in 1..m : replayed[k] = replay.replayed[k]
      BY <1>4, <3>1
    <3> HIDE DEF m
    <3>3. /\ m + 1 = n - first /\ first + (m + 1) - 1 = replay.next /\ first <= n
      <4>1. first \in Nat /\ first <= replay.next /\ replay.next \in Nat /\ n = replay.next + 1
        BY <1>4, <1>7, <2>1
      <4>2. m = replay.next - first
        BY <3>1
      <4> QED
        BY <4>1, <4>2
    <3>4. \A k \in 1..(m + 1) : k \in 1..m \/ k = m + 1
      BY <3>1
    <3>5. \A k \in 1..m : replay.replayed[k] = first + k - 1 /\ ~Replay!Beyond(replay, first + k - 1)
      BY <1>7 DEF m
    <3>6. \A k \in 1..Len(replayed) :
            replayed[k] = first + k - 1 /\ ~Replay!Beyond(replay, first + k - 1)
      BY <2>3, <3>2, <3>3, <3>4, <3>5
    <3>7. Len(replayed) <= n - first /\ Len(replayed) = n - first
      BY <1>5, <1>7, <3>1, <3>2, <3>3
    <3> QED
      BY <3>3, <3>6, <3>7
  <2> QED
    BY <2>2, <2>3
<1>12. Forwards(r)
  BY <1>7, <1>9, <1>10, <1>11 DEF Forwards
<1> QED
  BY <1>1, <1>3, <1>8, <1>12, OneReplayChanges

\* A timer ends a replay.
LEMMA ReplayEnds ==
  ASSUME Replay!ReplayAssumption, ReplayInv, NEW i \in DOMAIN replayServer.replays, Replay!TearDown(i)
  PROVE  ReplayInv'
<1> DEFINE replay == replayServer.replays[i]
           r == [replay EXCEPT !.open = FALSE]
<1>1. /\ replayServer \in ReplayServer /\ replayServer.replays \in Seq(ReplayRecord)
      /\ replayPanel' = replayPanel /\ replayFlight' = replayFlight /\ i \in 1..Len(replayServer.replays)
  BY DEF ReplayInv, ReplayTypes, ReplayServer, Replay!TearDown
<1>2. replay \in ReplayRecord /\ Forwards(replay)
  BY <1>1 DEF ReplayInv, ReplaysForward
<1>3. replayServer' = [replayServer EXCEPT !.replays = [replayServer.replays EXCEPT ![i] = r]]
  BY <1>1 DEF Replay!TearDown
<1> HIDE DEF replay
<1>4. /\ r \in ReplayRecord /\ r.kind = replay.kind /\ r.start = replay.start /\ r.base = replay.base
      /\ r.end = replay.end /\ r.next = replay.next /\ r.replayed = replay.replayed
  BY <1>2 DEF ReplayRecord
<1> HIDE DEF r
<1>5. \A k : Replay!Beyond(r, k) <=> Replay!Beyond(replay, k)
  BY <1>4 DEF Replay!Beyond
<1>6. Forwards(r)
  BY <1>2, <1>4, <1>5 DEF Forwards
<1> QED
  BY <1>1, <1>3, <1>4, <1>6, OneReplayChanges

LEMMA ReplayNext ==
  ASSUME Replay!ReplayAssumption, ReplayInv, [Replay!Next]_Replay!vars
  PROVE  ReplayInv'
<1>1. CASE UNCHANGED Replay!vars
  <2>1. replayServer' = replayServer /\ replayPanel' = replayPanel /\ replayFlight' = replayFlight
    BY <1>1 DEF Replay!vars
  <2> QED
    BY <2>1 DEF ReplayInv, ReplayTypes, StreamIsBounded, RequestIsValid, ReplaysForward
<1>2. CASE \/ Replay!EditField \/ Replay!setReplayFrom \/ Replay!handleSubmitRefused \/ Replay!Tick
  BY <1>2, ReplayEdits
<1>3. CASE Replay!handleSubmit \/ Replay!Request
  BY <1>3, ReplaySubmits, ReplayStarts, ReplayFails, ReplayReturns DEF Replay!Request
<1>4. CASE \/ Replay!Consume \/ \E i \in DOMAIN replayServer.replays : Replay!TearDown(i)
  BY <1>4, ReplayConsumes, ReplayEnds DEF Replay!Consume
<1>5. CASE \/ Replay!Publish \/ Replay!DeleteStream \/ Replay!EnsureJobsStream
           \/ Replay!Outage \/ Replay!Recover
  BY <1>5, StreamChanges
<1> QED
  BY <1>1, <1>2, <1>3, <1>4, <1>5 DEF Replay!Next

LEMMA ReplayInvariant == Spec => []ReplayInv
<1>1. Init => ReplayInv
  BY FormsAssumption, ReplayInit DEF Init
<1>2. ReplayInv /\ [Next]_vars => ReplayInv'
  <2>1. [Next]_vars => [Replay!Next]_(Replay!vars)
    BY DEF Next, OnValidate, OnLab, OnReplay, vars, validateVars, labVars, replayVars, Replay!vars
  <2> QED
    BY <2>1, FormsAssumption, ReplayNext
<1> QED
  BY <1>1, <1>2, PTL DEF Spec

(* ReplayJobs of demo-control-service repeats the checks of the form           *)
(* (ReplayPanel.tsx): no request of the form is turned down for its values.    *)
THEOREM ServiceNeverRefuses == Spec => []FormRefusesFirst
<1>1. ReplayInv => FormRefusesFirst
  BY DEF ReplayInv, RequestIsValid, Replay!FormRefusesFirst, FormRefusesFirst
<1> QED
  BY <1>1, ReplayInvariant, PTL

LEMMA ElementsAreThere ==
  ASSUME NEW S, NEW seq \in Seq(S)
  PROVE  /\ \A m \in 1..Len(seq) : seq[m] \in S /\ m \in Nat /\ m >= 1
         /\ Replay!ToSet(seq) \subseteq S
<1>1. Len(seq) \in Nat /\ DOMAIN seq = 1..Len(seq)
  OBVIOUS
<1>2. \A m \in 1..Len(seq) : seq[m] \in S
  OBVIOUS
<1>3. \A m \in 1..Len(seq) : m \in Nat /\ m >= 1
  BY <1>1
<1> QED
  BY <1>1, <1>2, <1>3 DEF Replay!ToSet

\* What a replay forwarded is the beginning of its range.
LEMMA ForwardsFaithfully ==
  ASSUME Replay!ReplayAssumption, NEW r \in ReplayRecord, Forwards(r),
         NEW k \in 1..Len(r.replayed)
  PROVE  /\ r.replayed[k] \in Replay!InRange(r)
         /\ k = 1 => r.replayed[k] = Replay!Min(Replay!InRange(r))
         /\ k > 1 => r.replayed[k] = r.replayed[k - 1] + 1
<1> DEFINE first == Replay!First(r.kind, r.start, r.base)
<1>1. /\ first \in Nat /\ r.replayed \in Seq(1..MaxMessages)
      /\ \A n \in 1..Len(r.replayed) :
           r.replayed[n] = first + n - 1 /\ ~Replay!Beyond(r, first + n - 1)
  BY DEF Forwards, ReplayRecord
<1>2. \A n : n \in Replay!InRange(r) <=> n \in 1..MaxMessages /\ n >= first /\ ~Replay!Beyond(r, n)
  BY DEF Replay!InRange
<1> HIDE DEF first
<1>3. \A n \in 1..Len(r.replayed) : r.replayed[n] \in Replay!InRange(r)
  <2>1. SUFFICES ASSUME NEW n \in 1..Len(r.replayed)
                 PROVE  r.replayed[n] \in Replay!InRange(r)
    OBVIOUS
  <2>2. r.replayed[n] \in 1..MaxMessages /\ r.replayed[n] = first + n - 1 /\ n \in Nat /\ n >= 1
    <3>1. r.replayed[n] = first + n - 1
      BY <1>1
    <3>2. r.replayed[n] \in 1..MaxMessages /\ n \in Nat /\ n >= 1
      BY <1>1, ElementsAreThere
    <3> QED
      BY <3>1, <3>2
  <2>3. first + n - 1 >= first
    BY <1>1, <2>2
  <2> QED
    BY <1>1, <1>2, <2>2, <2>3
<1>4. ASSUME k = 1
      PROVE  r.replayed[k] = Replay!Min(Replay!InRange(r))
  <2>1. first \in Replay!InRange(r) /\ r.replayed[k] = first
    <3>1. r.replayed[k] = first
      BY <1>1, <1>4
    <3> QED
      BY <1>3, <3>1
  <2>2. \A y \in Replay!InRange(r) : y \in Nat /\ first <= y
    BY <1>1, <1>2, ReplayBounds
  <2>3. \A x \in Replay!InRange(r) : (\A y \in Replay!InRange(r) : x <= y) => x = first
    BY <1>1, <2>1, <2>2
  <2> DEFINE Least(x) == \A y \in Replay!InRange(r) : x <= y
  <2>4. Replay!Min(Replay!InRange(r)) = CHOOSE x \in Replay!InRange(r) : Least(x)
    BY DEF Replay!Min
  <2>5. Least(first) /\ \A x \in Replay!InRange(r) : Least(x) => x = first
    BY <2>2, <2>3
  <2> HIDE DEF Least
  <2>6. (CHOOSE x \in Replay!InRange(r) : Least(x)) = first
    BY <2>1, <2>5
  <2> QED
    BY <2>1, <2>4, <2>6
<1>5. ASSUME k > 1
      PROVE  r.replayed[k] = r.replayed[k - 1] + 1
  <2>1. Len(r.replayed) \in Nat
    BY <1>1
  <2>2. k \in Nat /\ k - 1 \in 1..Len(r.replayed)
    BY <1>5, <2>1
  <2>3. r.replayed[k] = first + k - 1 /\ r.replayed[k - 1] = first + (k - 1) - 1
    BY <1>1, <2>2
  <2>4. first + k - 1 = first + (k - 1) - 1 + 1
    BY <1>1, <2>2
  <2> QED
    BY <2>3, <2>4
<1> QED
  BY <1>3, <1>4, <1>5

(* What a replay forwards (the consume callback of ReplayJobs) is the          *)
(* beginning of its range, one message after the other, none twice or left     *)
(* out, whether the stream grows or is deleted and recreated meanwhile.        *)
THEOREM ReplaysStayFaithful == Spec => []ReplayIsFaithful
<1>1. ReplayInv => ReplayIsFaithful
  <2>1. SUFFICES ASSUME ReplayInv, NEW i \in DOMAIN replayServer.replays,
                        NEW k \in 1..Len(replayServer.replays[i].replayed)
                 PROVE  /\ replayServer.replays[i].replayed[k] \in Replay!InRange(replayServer.replays[i])
                        /\ k = 1 => replayServer.replays[i].replayed[k]
                                      = Replay!Min(Replay!InRange(replayServer.replays[i]))
                        /\ k > 1 => replayServer.replays[i].replayed[k]
                                      = replayServer.replays[i].replayed[k - 1] + 1
    BY DEF Replay!ReplayIsFaithful, ReplayIsFaithful
  <2>2. replayServer.replays[i] \in ReplayRecord /\ Forwards(replayServer.replays[i])
    BY <2>1 DEF ReplayInv, ReplayTypes, ReplayServer, ReplaysForward
  <2> QED
    BY <2>2, FormsAssumption, ForwardsFaithfully
<1> QED
  BY <1>1, ReplayInvariant, PTL

LEMMA ReplayTypesHold == ReplayInv => Replay!TypeOK
<1>1. SUFFICES ASSUME ReplayInv
               PROVE  Replay!TypeOK
  OBVIOUS
<1>2. replayServer \in ReplayServer /\ replayPanel \in ReplayPanel
  BY <1>1 DEF ReplayInv, ReplayTypes
<1>3. replayServer.base + replayServer.last \in Replay!Value /\ replayServer.run \in 0..MaxResets
  BY <1>1, <1>2, FormsAssumption, ReplayBounds DEF ReplayServer, ReplayInv, StreamIsBounded
<1>4. \A i \in DOMAIN replayServer.replays :
        /\ replayServer.replays[i].kind \in Replay!Kind
        /\ replayServer.replays[i].next \in 1..(MaxMessages + 1)
        /\ Replay!ToSet(replayServer.replays[i].replayed) \subseteq 1..MaxMessages
  <2>1. SUFFICES ASSUME NEW i \in DOMAIN replayServer.replays
                 PROVE  /\ replayServer.replays[i].kind \in Replay!Kind
                        /\ replayServer.replays[i].next \in 1..(MaxMessages + 1)
                        /\ Replay!ToSet(replayServer.replays[i].replayed) \subseteq 1..MaxMessages
    OBVIOUS
  <2>2. replayServer.replays[i] \in ReplayRecord
    BY <1>2 DEF ReplayServer
  <2>3. replayServer.replays[i].replayed \in Seq(1..MaxMessages)
    BY <2>2 DEF ReplayRecord
  <2>4. Replay!ToSet(replayServer.replays[i].replayed) \subseteq 1..MaxMessages
    BY <2>3, ElementsAreThere
  <2> QED
    BY <2>2, <2>4 DEF ReplayRecord
<1>5. /\ replayPanel.replayFrom \in Replay!Kind /\ replayPanel.clicks \in 0..MaxReplays
      /\ replayPanel.isLoading \in BOOLEAN /\ replayPanel.error \in BOOLEAN
      /\ replayPanel.totalMsgs \in Replay!Value /\ replayPanel.result \in (1..MaxReplays) \cup {None}
  BY <1>2 DEF ReplayPanel
<1> QED
  BY <1>3, <1>4, <1>5 DEF Replay!TypeOK

-----------------------------------------------------------------------------
(* Every variable has its type, whatever the users, the faults and the resets  *)
(* do: requests and replays carry what the forms let pass, answers are of the  *)
(* kind that was asked for, and every id is one that its card drew             *)
(* (RequestReplyPanel.tsx, JobPanel.tsx, DelayedRetryPanel.tsx,                *)
(* DeduplicationPanel.tsx, ReplayPanel.tsx and the services they call).        *)
THEOREM TypeCorrect == Spec => []TypeOK
<1>1. ValidateInv /\ LabInv /\ ReplayInv => TypeOK
  BY ValidateTypesHold, LabTypesHold, ReplayTypesHold DEF TypeOK
<1> QED
  BY <1>1, ValidateInvariant, LabInvariant, ReplayInvariant, PTL
=============================================================================

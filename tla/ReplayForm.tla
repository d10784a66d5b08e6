----------------------------- MODULE ReplayForm ------------------------------
(* Replay of the stream JOBS: the form of the dashboard (ReplayPanel.tsx),     *)
(* ReplayJobs of demo-control-service, which creates an ephemeral consumer and *)
(* forwards what it delivers until a timer ends it, and a stream that grows    *)
(* and is deleted and recreated meanwhile. Several replays run at once.        *)
EXTENDS Integers, Sequences, SequencesExt, FiniteSetsExt

CONSTANTS
  MaxMessages,  \* bound: messages published to JOBS
  MaxReplays,   \* bound: replays that the user asks for
  MaxResets,    \* bound: resets of the stream
  None          \* null

VARIABLES
  server,       \* demo-control-service, the stream and its ephemeral consumers
  panel,        \* the state of the form, and the stream as App knows it
  flight        \* the request under way
vars == <<server, panel, flight>>

\* A field holds a number, or text that is none. A point in time is the number of
\* messages published before it.
Value == 0..MaxMessages
NaN == -1
Field == Value \cup {NaN}
Kind == {"sequence", "time"}
Waiting == [kind: Kind, start: Value, end: Value,
            call: {"sent", "accepted", "failed", "invalid"}, consumer: (1..MaxReplays) \cup {None}]

\* The theorems hold for any number of messages, replays and resets: the first field
\* starts with the message 1, null is no request and no consumer.
ReplayAssumption == /\ MaxMessages \in Nat \ {0} /\ {MaxReplays, MaxResets} \subseteq Nat
                    /\ None \notin Waiting /\ None \notin 1..MaxReplays

-----------------------------------------------------------------------------
(* What the form shows. *)

StreamBox == [empty |-> panel.totalMsgs = 0, lastSeq |-> panel.totalMsgs]
Inputs == [enabled |-> ~panel.isLoading]
StartButton == [enabled |-> ~panel.isLoading]

Init ==
  /\ server = [up |-> TRUE, exists |-> TRUE, run |-> 0, base |-> 0, last |-> 0, replays |-> <<>>]
  /\ panel = [replayFrom |-> "sequence", start |-> 1, end |-> MaxMessages,
              isLoading |-> FALSE, result |-> None, error |-> FALSE, totalMsgs |-> 0, clicks |-> 0]
  /\ flight = None

-----------------------------------------------------------------------------
(* The form. *)

\* One of the fields, or the choice of sequence or time, which clears the error.
\* Left out: the replay mode, which sets the pace and how long the timer runs.
Edits == Inputs.enabled /\ panel.clicks < MaxReplays     \* bound: before another replay
EditField == /\ Edits
             /\ \E v \in Field : \/ panel' = [panel EXCEPT !.start = v]
                               \/ panel' = [panel EXCEPT !.end = v]
             /\ UNCHANGED <<server, flight>>
setReplayFrom == /\ Edits
                 /\ \E k \in Kind : panel' = [panel EXCEPT !.replayFrom = k, !.error = FALSE]
                 /\ UNCHANGED <<server, flight>>

\* Mutants of Refused: the order of the two fields, or their lower end, is not looked at.
RefusedUnordered == \/ NaN \in {panel.start, panel.end}
                    \/ panel.replayFrom = "sequence" /\ panel.start < 1
RefusedFromBelow == \/ NaN \in {panel.start, panel.end}
                    \/ panel.replayFrom = "sequence" /\ panel.end < panel.start
                    \/ panel.replayFrom = "time" /\ panel.start >= panel.end

\* What the form refuses by itself.
Refused == \/ NaN \in {panel.start, panel.end}
           \/ panel.replayFrom = "sequence" /\ (panel.start < 1 \/ panel.end < panel.start)
           \/ panel.replayFrom = "time" /\ panel.start >= panel.end

handleSubmitRefused == /\ StartButton.enabled /\ Refused
                       /\ panel' = [panel EXCEPT !.error = TRUE, !.result = None]
                       /\ UNCHANGED <<server, flight>>

handleSubmit == /\ StartButton.enabled /\ ~Refused
                /\ panel.clicks < MaxReplays
                /\ flight' = [kind |-> panel.replayFrom, start |-> panel.start, end |-> panel.end,
                              call |-> "sent", consumer |-> None]
                /\ panel' = [panel EXCEPT !.isLoading = TRUE, !.error = FALSE, !.result = None,
                                          !.clicks = @ + 1]
                /\ UNCHANGED server

SubmitReturns ==
  /\ flight # None /\ flight.call # "sent"
  /\ panel' = [panel EXCEPT !.isLoading = FALSE, !.error = flight.call # "accepted",
                            !.result = flight.consumer]
  /\ flight' = None
  /\ UNCHANGED server

\* App brings the stream as it is.
Tick == /\ panel' = [panel EXCEPT !.totalMsgs = server.last]
        /\ UNCHANGED <<server, flight>>

-----------------------------------------------------------------------------
(* ReplayJobs. *)

Answer(call, consumer) == flight' = [flight EXCEPT !.call = call, !.consumer = consumer]

\* The service repeats the checks of the form, for requests that come without it.
Invalid == IF flight.kind = "sequence" THEN flight.end < flight.start
                                       ELSE flight.start >= flight.end

\* The first sequence number that the consumer delivers. Sequence numbers start
\* again with every stream, time does not.
First(kind, start, base) == IF kind = "sequence" THEN start ELSE Max({1, start - base})

ReplayJobsFails ==
  /\ flight # None /\ flight.call = "sent"
  /\ \/ Invalid /\ server.up /\ Answer("invalid", None)
     \/ ~Invalid /\ ~(server.up /\ server.exists) /\ Answer("failed", None)
     \/ ~server.up /\ Answer("failed", None)
  /\ UNCHANGED <<server, panel>>

ReplayJobs ==
  /\ flight # None /\ flight.call = "sent" /\ ~Invalid
  /\ server.up /\ server.exists
  /\ server' = [server EXCEPT !.replays = Append(@,
                  [kind |-> flight.kind, start |-> flight.start, end |-> flight.end,
                   run |-> server.run, base |-> server.base, open |-> TRUE,
                   next |-> First(flight.kind, flight.start, server.base), replayed |-> <<>>])]
  /\ Answer("accepted", Len(server.replays) + 1)
  /\ UNCHANGED panel

\* The end of the range is a sequence number or a time.
Beyond(replay, seq) == IF replay.kind = "sequence" THEN seq > replay.end
                                                   ELSE replay.base + seq > replay.end

Delivers(i) == /\ server.replays[i].open
               /\ server.exists /\ server.replays[i].run = server.run
               /\ server.replays[i].next <= server.last

\* Mutant of ConsumeNext: the end of the range is not looked at.
ConsumeNextUnbounded(i) ==
  /\ Delivers(i)
  /\ server' = [server EXCEPT !.replays[i].next = @ + 1,
                              !.replays[i].replayed = Append(@, server.replays[i].next)]
  /\ UNCHANGED <<panel, flight>>

\* The consumer delivers its next message: one in the range becomes a REPLAYED event.
ConsumeNext(i) ==
  /\ Delivers(i)
  /\ LET replay == server.replays[i]
     IN server' = [server EXCEPT !.replays[i].next = @ + 1,
                     !.replays[i].replayed = IF Beyond(replay, replay.next) THEN @
                                             ELSE Append(@, replay.next)]
  /\ UNCHANGED <<panel, flight>>

\* After 30 or 60 seconds the consumer is deleted, wherever it is.
TearDown(i) == /\ server.replays[i].open
               /\ server' = [server EXCEPT !.replays[i].open = FALSE]
               /\ UNCHANGED <<panel, flight>>

-----------------------------------------------------------------------------
(* The stream, and the service that is reached or not. *)

Publish == /\ server.exists /\ server.base + server.last < MaxMessages
           /\ server' = [server EXCEPT !.last = @ + 1]
           /\ UNCHANGED <<panel, flight>>

\* ResetJobsStream deletes the stream with its consumers, then makes it again.
DeleteStream == /\ server.exists /\ server.run < MaxResets
                /\ server' = [server EXCEPT !.exists = FALSE, !.base = @ + server.last, !.last = 0]
                /\ UNCHANGED <<panel, flight>>
EnsureJobsStream == /\ ~server.exists
                    /\ server' = [server EXCEPT !.exists = TRUE, !.run = @ + 1]
                    /\ UNCHANGED <<panel, flight>>

Outage == /\ server.up /\ flight # None
          /\ server' = [server EXCEPT !.up = FALSE]
          /\ UNCHANGED <<panel, flight>>
Recover == /\ ~server.up
           /\ server' = [server EXCEPT !.up = TRUE]
           /\ UNCHANGED <<panel, flight>>

Request == ReplayJobs \/ ReplayJobsFails \/ SubmitReturns
Consume == \E i \in DOMAIN server.replays : ConsumeNext(i)

Next == \/ EditField \/ setReplayFrom \/ handleSubmitRefused \/ handleSubmit \/ Tick \/ Request
        \/ Consume \/ \E i \in DOMAIN server.replays : TearDown(i)
        \/ Publish \/ DeleteStream \/ EnsureJobsStream \/ Outage \/ Recover

\* Requests end, open consumers deliver, the stream is looked at again.
Fairness == WF_vars(Tick) /\ WF_vars(Request) /\ WF_vars(Consume)

Spec == Init /\ [][Next]_vars /\ Fairness

-----------------------------------------------------------------------------
TypeOK ==
  /\ server.base + server.last \in Value /\ server.run \in 0..MaxResets
  /\ \A i \in DOMAIN server.replays :
       /\ server.replays[i].kind \in Kind /\ server.replays[i].next \in 1..(MaxMessages + 1)
       /\ ToSet(server.replays[i].replayed) \subseteq 1..MaxMessages
  /\ panel.replayFrom \in Kind /\ panel.clicks \in 0..MaxReplays
  /\ {panel.isLoading, panel.error} \subseteq BOOLEAN /\ panel.totalMsgs \in Value
  /\ panel.result \in 1..MaxReplays \cup {None}

(* A replay forwards the messages of its range one after the other and none    *)
(* twice or left out, whatever happens to the stream while it runs: it ends    *)
(* early, but it never mixes in messages of the stream that replaces it.       *)
InRange(replay) == {s \in 1..MaxMessages : s >= First(replay.kind, replay.start, replay.base)
                                           /\ ~Beyond(replay, s)}
ReplayIsFaithful ==
  \A i \in DOMAIN server.replays :
    LET replay == server.replays[i]
    IN \A k \in 1..Len(replay.replayed) :
         /\ replay.replayed[k] \in InRange(replay)
         /\ k = 1 => replay.replayed[k] = Min(InRange(replay))
         /\ k > 1 => replay.replayed[k] = replay.replayed[k - 1] + 1

(* The form and the service agree on what they refuse: no request of the form  *)
(* is turned down for its values.                                              *)
FormRefusesFirst == flight # None => flight.call # "invalid"

(* A replay that is not torn down replays all that the stream holds of its     *)
(* range, what is published meanwhile included, and the form comes back.       *)
AllReplayed ==
  \A i \in DOMAIN server.replays :
    LET replay == server.replays[i]
    IN (replay.open /\ server.exists /\ replay.run = server.run)
         => InRange(replay) \cap 1..server.last \subseteq ToSet(replay.replayed)

=============================================================================

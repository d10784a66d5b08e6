---------------------------- MODULE DeadLetters -----------------------------
(* The dead letter queue: the stream JOBS_DLQ, the processor that puts failed *)
(* jobs into it, and the operations of demo-control-service on it, of which   *)
(* reprocessing (ReprocessDLQ) is a loop of broker calls: it reads, publishes *)
(* and deletes one message after the other while the stream goes on changing. *)
EXTENDS Integers, FiniteSets

CONSTANTS
  Job,           \* job ids
  Attempt,       \* numbers of attempts after which jobs are dead-lettered
  Run,           \* reprocessing runs that may be in progress at the same time
  MaxFailures,   \* bound: jobs that fail for good
  MaxFaults,     \* bound: broker calls that fail
  MaxCleanups,   \* bound: deletions of the stream
  All            \* reprocess without a job id

ASSUME QueueAssumption ==
  /\ All \notin Job
  /\ {MaxFailures, MaxFaults, MaxCleanups} \subseteq Nat

VARIABLES
  exists,     \* the stream JOBS_DLQ exists
  letters,    \* its messages
  lastSeq,    \* its last sequence number
  known,      \* the message ids that it has stored
  run,        \* the reprocessing runs
  failures, faults, cleanups,  \* bounded: failed jobs, failed calls, deletions so far
  owed,       \* history: captured, and since then neither republished nor discarded
  disturbed   \* history: a run overlapped another one, or a deletion of the stream

bounds == <<failures, faults, cleanups>>
stream == <<exists, letters, lastSeq, known>>
history == <<owed, disturbed>>
queueVars == <<stream, run, bounds, history>>

Letter == [seq: Nat \ {0}, job: Job, attempt: Attempt]
Idle == [at |-> "idle"]
Runs == [at: {"idle"}]
          \cup [at: {"scan"}, next: Nat, last: Nat, only: Job \cup {All}, seen: SUBSET Job]
          \cup [at: {"publish", "delete"}, next: Nat, last: Nat, only: Job \cup {All},
                seen: SUBSET Job, job: Job]

Seqs == {m.seq : m \in letters}
Active == {r \in Run : run[r].at # "idle"}
First == CHOOSE s \in Seqs : \A t \in Seqs : s <= t

-----------------------------------------------------------------------------
QueueInit ==
  /\ exists \in BOOLEAN /\ letters = {} /\ lastSeq = 0 /\ known = {}
  /\ run = [r \in Run |-> Idle]
  /\ failures = 0 /\ faults = 0 /\ cleanups = 0
  /\ owed = {} /\ disturbed = FALSE

\* Mutant of Capture: the first letter of the stream gets the number 0.
CaptureFromZero(j, a) ==
  /\ failures < MaxFailures
  /\ failures' = failures + 1
  /\ exists /\ <<j, a>> \notin known
  /\ lastSeq' = lastSeq + 1
  /\ letters' = letters \cup {[seq |-> lastSeq, job |-> j, attempt |-> a]}
  /\ known' = known \cup {<<j, a>>} /\ owed' = owed \cup {j}
  /\ UNCHANGED <<exists, run, faults, cleanups, disturbed>>

\* The processor gives up on a job and publishes it to JOBS_DLQ with the message
\* id dlq-<job>-<attempts>. The stream drops an id that it stored less than two
\* minutes ago; without a stream the publish fails. The processor acknowledges
\* the original either way.
Capture(j, a) ==
  /\ failures < MaxFailures
  /\ failures' = failures + 1
  /\ \/ /\ exists
        /\ lastSeq' = lastSeq + 1
        /\ letters' = letters \cup {[seq |-> lastSeq + 1, job |-> j, attempt |-> a]}
        /\ known' = known \cup {<<j, a>>}
        /\ owed' = owed \cup {j}
     \/ /\ exists => <<j, a>> \in known
        /\ UNCHANGED <<lastSeq, letters, known, owed>>
  /\ UNCHANGED <<exists, run, faults, cleanups, disturbed>>

\* SetupDLQ: EnsureDLQStream creates the stream or leaves it as it is.
SetupDLQ == exists' = TRUE /\ UNCHANGED <<letters, lastSeq, known, run, bounds, history>>

\* CleanupDLQ deletes the stream, with its sequence and its window.
CleanupDLQ ==
  /\ exists /\ cleanups < MaxCleanups
  /\ cleanups' = cleanups + 1
  /\ exists' = FALSE /\ letters' = {} /\ lastSeq' = 0 /\ known' = {}
  /\ owed' = {}
  /\ disturbed' = (disturbed \/ Active # {})
  /\ UNCHANGED <<run, failures, faults>>

\* PurgeDLQ removes the messages; the sequence goes on.
PurgeDLQ ==
  /\ exists
  /\ letters' = {} /\ owed' = {}
  /\ UNCHANGED <<exists, lastSeq, known, run, bounds, disturbed>>

-----------------------------------------------------------------------------
(* ReprocessDLQ, for one job or for all. *)

\* It reads the range of the stream once; without messages it answers at once.
ReprocessDLQ(r, only) ==
  /\ exists /\ letters # {} /\ run[r] = Idle
  /\ run' = [run EXCEPT ![r] = [at |-> "scan", next |-> First, last |-> lastSeq,
                                only |-> only, seen |-> {}]]
  /\ disturbed' = (disturbed \/ Active # {})
  /\ UNCHANGED <<stream, bounds, owed>>

\* The run goes on behind sequence number s.
GoOn(r, s, seen) ==
  run' = [run EXCEPT ![r] = [at |-> "scan", next |-> s + 1, last |-> @.last,
                             only |-> @.only, seen |-> seen]]

Here(r) == {m \in letters : m.seq = run[r].next}
Delete(s) == letters' = {m \in letters : m.seq # s}

\* A message that is gone, or of another job, is passed over ...
Skip(r) ==
  /\ run[r].at = "scan" /\ run[r].next <= run[r].last
  /\ \A m \in Here(r) : run[r].only \notin {All, m.job}
  /\ GoOn(r, run[r].next, run[r].seen)
  /\ UNCHANGED <<stream, bounds, history>>

\* ... and so is one that cannot be read ...
ReadFails(r) ==
  /\ run[r].at = "scan" /\ run[r].next <= run[r].last /\ faults < MaxFaults
  /\ faults' = faults + 1
  /\ GoOn(r, run[r].next, run[r].seen)
  /\ UNCHANGED <<stream, failures, cleanups, history>>

\* ... one whose job this run has already come across is deleted ...
DropDuplicate(r) ==
  /\ run[r].at = "scan" /\ run[r].next <= run[r].last
  /\ \E m \in Here(r) : run[r].only \in {All, m.job} /\ m.job \in run[r].seen
  /\ Delete(run[r].next)
  /\ GoOn(r, run[r].next, run[r].seen)
  /\ UNCHANGED <<exists, lastSeq, known, bounds, history>>

\* ... any other is to be published; its job counts as seen from now on.
Take(r) ==
  /\ run[r].at = "scan" /\ run[r].next <= run[r].last
  /\ \E m \in Here(r) :
       /\ run[r].only \in {All, m.job} /\ m.job \notin run[r].seen
       /\ run' = [run EXCEPT ![r] = [at |-> "publish", next |-> @.next, last |-> @.last,
                                     only |-> @.only, seen |-> @.seen \cup {m.job}, job |-> m.job]]
  /\ UNCHANGED <<stream, bounds, history>>

\* Mutant of Republish: the message is left in the stream.
RepublishAndKeep(r) ==
  /\ run[r].at = "publish"
  /\ GoOn(r, run[r].next, run[r].seen)
  /\ owed' = owed \ {run[r].job}
  /\ UNCHANGED <<stream, bounds, disturbed>>

\* The job goes back to jobs.submitted, under a message id of its own each time.
Republish(r) ==
  /\ run[r].at = "publish"
  /\ run' = [run EXCEPT ![r].at = "delete"]
  /\ owed' = owed \ {run[r].job}
  /\ UNCHANGED <<stream, bounds, disturbed>>

\* Mutant of RepublishFails: the message is deleted all the same.
RepublishFailsUnseen(r) ==
  /\ run[r].at = "publish" /\ faults < MaxFaults
  /\ faults' = faults + 1
  /\ run' = [run EXCEPT ![r].at = "delete"]
  /\ UNCHANGED <<stream, failures, cleanups, history>>

\* The publish fails: the message stays where it is.
RepublishFails(r) ==
  /\ run[r].at = "publish" /\ faults < MaxFaults
  /\ faults' = faults + 1
  /\ GoOn(r, run[r].next, run[r].seen)
  /\ UNCHANGED <<stream, failures, cleanups, history>>

\* The message is deleted, by its number ...
DeleteLetter(r) ==
  /\ run[r].at = "delete"
  /\ Delete(run[r].next)
  /\ GoOn(r, run[r].next, run[r].seen)
  /\ UNCHANGED <<exists, lastSeq, known, bounds, history>>

\* ... and if that fails it stays, and nobody is told.
DeleteFails(r) ==
  /\ run[r].at = "delete" /\ faults < MaxFaults
  /\ faults' = faults + 1
  /\ GoOn(r, run[r].next, run[r].seen)
  /\ UNCHANGED <<stream, failures, cleanups, history>>

Finish(r) ==
  /\ run[r].at = "scan" /\ run[r].next > run[r].last
  /\ run' = [run EXCEPT ![r] = Idle]
  /\ UNCHANGED <<stream, bounds, history>>

RunStep(r) == \/ Skip(r) \/ ReadFails(r) \/ DropDuplicate(r) \/ Take(r) \/ Republish(r) \/ RepublishFails(r)
              \/ DeleteLetter(r) \/ DeleteFails(r) \/ Finish(r)

-----------------------------------------------------------------------------
QueueNext ==
  \/ \E j \in Job, a \in Attempt : Capture(j, a)
  \/ SetupDLQ \/ CleanupDLQ \/ PurgeDLQ
  \/ \E r \in Run : RunStep(r) \/ \E only \in Job \cup {All} : ReprocessDLQ(r, only)

QueueSpec == QueueInit /\ [][QueueNext]_queueVars

-----------------------------------------------------------------------------
QueueTypeOK ==
  /\ exists \in BOOLEAN /\ letters \subseteq Letter /\ lastSeq \in Nat
  /\ known \subseteq Job \X Attempt
  /\ run \in [Run -> Runs]
  /\ failures \in 0..MaxFailures /\ faults \in 0..MaxFaults /\ cleanups \in 0..MaxCleanups
  /\ owed \subseteq Job  /\ disturbed \in BOOLEAN

(* A job in the dead letter queue is not lost: until it is republished or the  *)
(* operator discards it, a message of it stays in the stream, however often    *)
(* publishing and deleting fail on the way. It holds as long as reprocessing   *)
(* runs do not overlap each other or a deletion of the stream.                 *)
NeverLost == disturbed \/ \A j \in owed : \E m \in letters : m.job = j

(* A run leaves nothing behind: while no call fails and nothing overlaps it,   *)
(* every message that it was asked for and has passed is gone, so that a       *)
(* finished run means an empty queue but for what arrived since it began.      *)
PassedIsGone ==
  faults > 0 \/ disturbed \/
  \A r \in Active, m \in letters : m.seq < run[r].next => run[r].only \notin {All, m.job}

(* docs/DEVELOPER_GUIDE.md:206 says that reprocessing "deduplicates in-flight  *)
(* entries, republishes to `jobs.submitted`, deletes the message from          *)
(* `JOBS_DLQ`": what it deletes has been republished, without any proviso.     *)
DeletedMeansRepublished == \A j \in owed : \E m \in letters : m.job = j

=============================================================================

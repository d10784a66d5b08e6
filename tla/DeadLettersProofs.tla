-------------------------- MODULE DeadLettersProofs -------------------------
(***************************************************************************)
(* Theorems of DeadLetters, for any jobs, attempts and reprocessing runs,  *)
(* and for any number of failed jobs, failed calls and deletions.          *)
(***************************************************************************)
EXTENDS DeadLetters, WellFoundedInduction, TLAPS

\* The broker numbers its messages.
Unique == \A m, n \in letters : m.seq = n.seq => m = n
Numbered == \A m \in letters : m.seq <= lastSeq

\* Of a job that run r has come across and that is still owed, a message is left
\* where r does not get to any more, or it is the one that r is publishing.
Kept(r, j) ==
  \E m \in letters :
    /\ m.job = j
    /\ \/ m.seq < run[r].next \/ m.seq > run[r].last
       \/ run[r].at = "publish" /\ m.seq = run[r].next
Secures(r) == \A j \in run[r].seen \cap owed : Kept(r, j)

\* A run stays in the range that it read at its start.
InRange(r) == run[r].last <= lastSeq /\ run[r].next <= run[r].last + 1

\* While it publishes and deletes, the message under its number is of its job.
Holds(r) ==
  run[r].at # "scan" => /\ run[r].next <= run[r].last
                        /\ run[r].job \in run[r].seen
                        /\ \A m \in letters : m.seq = run[r].next => m.job = run[r].job

\* Nothing it was asked for stays behind it, as long as no call fails.
Clears(r) ==
  faults = 0 => \A m \in letters : m.seq < run[r].next => run[r].only \notin {All, m.job}

RunOK(r) == InRange(r) /\ Holds(r) /\ Secures(r) /\ Clears(r)

\* Unless runs were disturbed, at most one is active, and it works correctly.
Calm == disturbed \/ \A r \in Active : RunOK(r) /\ \A s \in Active : s = r

IInv == QueueTypeOK /\ Unique /\ Numbered /\ Calm /\ NeverLost

USE QueueAssumption

-----------------------------------------------------------------------------
\* A set of sequence numbers has a least one, where a run begins.
LEMMA LeastNumber ==
  ASSUME NEW S \in SUBSET Nat, S # {}
  PROVE  \E s \in S : \A t \in S : s <= t
<1> DEFINE R == OpToRel(<, Nat)
<1>1. IsWellFoundedOn(R, Nat)
  BY NatLessThanWellFounded
<1>2. \A s, t \in S : t < s => <<t, s>> \in R
  BY DEF OpToRel
<1> HIDE DEF R
<1>3. PICK s \in S : \A t \in S : ~(<<t, s>> \in R)
  BY <1>1, WFMin
<1>4. \A t \in S : ~(t < s)
  BY <1>2, <1>3, Zenon
<1>5. \A t \in S : t \in Nat /\ s \in Nat
  OBVIOUS
<1> QED
  BY <1>4, <1>5

LEMMA FirstIsLeast ==
  ASSUME QueueTypeOK, letters # {}
  PROVE  First \in Seqs /\ First \in Nat /\ \A m \in letters : First <= m.seq
<1>1. Seqs \in SUBSET Nat /\ Seqs # {}
  BY DEF QueueTypeOK, Letter, Seqs
<1>2. \E s \in Seqs : \A t \in Seqs : s <= t
  BY <1>1, LeastNumber
<1>3. First \in Seqs /\ \A t \in Seqs : First <= t
  BY <1>2 DEF First
<1> QED
  BY <1>1, <1>3 DEF Seqs

\* The fields of a run that is active.
LEMMA Fields ==
  ASSUME QueueTypeOK, NEW r \in Run, run[r].at # "idle"
  PROVE  /\ run[r].next \in Nat /\ run[r].last \in Nat
         /\ run[r].only \in Job \cup {All} /\ run[r].seen \in SUBSET Job
         /\ run[r].at \in {"scan", "publish", "delete"}
         /\ run[r].at # "scan" => run[r].job \in Job
BY DEF QueueTypeOK, Runs

-----------------------------------------------------------------------------
\* The queue is empty at first, and nothing is owed.
LEMMA InitIInv == QueueInit => IInv
<1> SUFFICES ASSUME QueueInit PROVE IInv
  OBVIOUS
<1>1. QueueTypeOK
  <2>1. MaxFailures \in Nat /\ MaxFaults \in Nat /\ MaxCleanups \in Nat
    OBVIOUS
  <2>2. Idle \in Runs
    BY DEF Idle, Runs
  <2>3. run \in [Run -> Runs]
    BY <2>2 DEF QueueInit
  <2>4. failures \in 0..MaxFailures /\ faults \in 0..MaxFaults /\ cleanups \in 0..MaxCleanups
    BY <2>1 DEF QueueInit
  <2>5. exists \in BOOLEAN /\ disturbed \in BOOLEAN
    BY DEF QueueInit
  <2>6. letters \subseteq Letter /\ lastSeq \in Nat /\ known \subseteq Job \X Attempt /\ owed \subseteq Job
    BY DEF QueueInit
  <2> QED
    BY <2>3, <2>4, <2>5, <2>6 DEF QueueTypeOK
<1>2. Active = {}
  BY DEF QueueInit, Active, Idle
<1> QED
  BY <1>1, <1>2 DEF QueueInit, IInv, Unique, Numbered, Calm, NeverLost


-----------------------------------------------------------------------------
\* What is the same for all steps of a run: the others do not move, so that only
\* the run itself can spoil Calm, and no message is added.
LEMMA RunKeepsCalm ==
  ASSUME IInv, NEW r \in Run, run[r].at # "idle",
         \A s \in Run : s # r => run'[s] = run[s],
         disturbed' = disturbed,
         (~disturbed /\ RunOK(r)) => (run'[r].at = "idle" \/ RunOK(r)')
  PROVE  Calm'
<1> SUFFICES ASSUME ~disturbed
             PROVE  \A s \in Active' : RunOK(s)' /\ \A t \in Active' : t = s
  BY DEF Calm
<1>1. \A s \in Active : s = r /\ RunOK(s)
  BY DEF IInv, Calm, Active
<1>2. \A s \in Active' : s = r
  BY <1>1 DEF Active
<1>3. r \in Active' => RunOK(r)'
  BY <1>1 DEF Active
<1> QED
  BY <1>2, <1>3

LEMMA NothingAdded ==
  ASSUME IInv, letters' \subseteq letters, UNCHANGED lastSeq
  PROVE  Unique' /\ Numbered'
BY DEF IInv, Unique, Numbered

\* A run that passes over a number, with the queue as it was.
LEMMA GoOnTyped ==
  ASSUME QueueTypeOK, NEW r \in Run, run[r].at # "idle",
         NEW s \in Nat, NEW seen \in SUBSET Job, GoOn(r, s, seen)
  PROVE  /\ run' \in [Run -> Runs]
         /\ run'[r].at = "scan" /\ run'[r].next = s + 1 /\ run'[r].last = run[r].last
         /\ run'[r].only = run[r].only /\ run'[r].seen = seen
         /\ \A t \in Run : t # r => run'[t] = run[t]
<1> DEFINE new == [at |-> "scan", next |-> s + 1, last |-> run[r].last,
                   only |-> run[r].only, seen |-> seen]
<1>1. new \in Runs
  BY Fields DEF Runs
<1>2. run' = [run EXCEPT ![r] = new] /\ run \in [Run -> Runs]
  BY DEF GoOn, QueueTypeOK
<1> QED
  BY <1>1, <1>2


LEMMA RunStepTyped ==
  ASSUME QueueTypeOK, run' \in [Run -> Runs], letters' \subseteq letters, owed' \subseteq owed,
         faults' \in 0..MaxFaults,
         UNCHANGED <<exists, lastSeq, known, failures, cleanups, disturbed>>
  PROVE  QueueTypeOK'
BY DEF QueueTypeOK

-----------------------------------------------------------------------------
\* The steps of a run.
LEMMA SkipKeeps ==
  ASSUME IInv, NEW r \in Run, Skip(r)
  PROVE  IInv'
<1>1. /\ QueueTypeOK
      /\ run[r].at = "scan" /\ run[r].next \in Nat /\ run[r].last \in Nat
      /\ run[r].seen \in SUBSET Job /\ run[r].next <= run[r].last
  BY Fields DEF IInv, Skip
<1>2. /\ run' \in [Run -> Runs]
      /\ run'[r].at = "scan" /\ run'[r].next = run[r].next + 1 /\ run'[r].last = run[r].last
      /\ run'[r].only = run[r].only /\ run'[r].seen = run[r].seen
      /\ \A t \in Run : t # r => run'[t] = run[t]
  BY <1>1, GoOnTyped DEF Skip
<1>3. UNCHANGED <<exists, letters, lastSeq, known, failures, faults, cleanups, owed, disturbed>>
  BY DEF Skip, stream, bounds, history
<1>4. \A m \in letters : m.seq \in Nat
  BY <1>1 DEF QueueTypeOK, Letter
<1>5. QueueTypeOK'
  BY <1>1, <1>2, <1>3, RunStepTyped DEF QueueTypeOK
<1>6. ASSUME ~disturbed, RunOK(r) PROVE RunOK(r)'
  <2>1. InRange(r)' /\ Holds(r)'
    BY <1>1, <1>2, <1>3, <1>6 DEF RunOK, InRange, Holds
  <2>2. Secures(r)'
    BY <1>1, <1>2, <1>3, <1>4, <1>6 DEF RunOK, Secures, Kept
  <2>3. Clears(r)'
    BY <1>1, <1>2, <1>3, <1>4, <1>6 DEF RunOK, Clears, Skip, Here
  <2> QED
    BY <2>1, <2>2, <2>3 DEF RunOK
<1>7. Calm'
  BY <1>1, <1>2, <1>3, <1>6, RunKeepsCalm
<1>8. NeverLost'
  BY <1>3 DEF IInv, NeverLost
<1> QED
  BY <1>3, <1>5, <1>7, <1>8, NothingAdded DEF IInv


\* A call that fails ends Clears, and leaves the queue as it is.
LEMMA FailedCallKeeps ==
  ASSUME IInv, NEW r \in Run, ReadFails(r) \/ RepublishFails(r) \/ DeleteFails(r)
  PROVE  IInv'
<1>1. /\ QueueTypeOK
      /\ run[r].at \in {"scan", "publish", "delete"}
      /\ run[r].next \in Nat /\ run[r].last \in Nat /\ run[r].seen \in SUBSET Job
      /\ run[r].at = "scan" => run[r].next <= run[r].last
  BY Fields DEF IInv, ReadFails, RepublishFails, DeleteFails
<1>2. GoOn(r, run[r].next, run[r].seen)
  BY DEF ReadFails, RepublishFails, DeleteFails
<1>3. /\ run' \in [Run -> Runs]
      /\ run'[r].at = "scan" /\ run'[r].next = run[r].next + 1 /\ run'[r].last = run[r].last
      /\ run'[r].only = run[r].only /\ run'[r].seen = run[r].seen
      /\ \A t \in Run : t # r => run'[t] = run[t]
  BY <1>1, <1>2, GoOnTyped
<1>4. UNCHANGED <<exists, letters, lastSeq, known, failures, cleanups, owed, disturbed>>
  BY DEF ReadFails, RepublishFails, DeleteFails, stream, history
<1>5. faults' = faults + 1 /\ faults < MaxFaults
  BY DEF ReadFails, RepublishFails, DeleteFails
<1>6. \A m \in letters : m.seq \in Nat
  BY <1>1 DEF QueueTypeOK, Letter
<1>7. faults \in Nat /\ faults' \in 0..MaxFaults
  BY <1>1, <1>5 DEF QueueTypeOK
<1>8. QueueTypeOK'
  BY <1>1, <1>3, <1>4, <1>7, RunStepTyped
<1>9. ASSUME ~disturbed, RunOK(r) PROVE RunOK(r)'
  <2>1. InRange(r)' /\ Holds(r)'
    BY <1>1, <1>3, <1>4, <1>9 DEF RunOK, InRange, Holds
  <2>2. Secures(r)'
    BY <1>1, <1>3, <1>4, <1>6, <1>9 DEF RunOK, Secures, Kept
  <2>3. Clears(r)'
    BY <1>5, <1>7 DEF Clears
  <2> QED
    BY <2>1, <2>2, <2>3 DEF RunOK
<1>10. Calm'
  BY <1>1, <1>3, <1>4, <1>9, RunKeepsCalm
<1>11. NeverLost'
  BY <1>4 DEF IInv, NeverLost
<1> QED
  BY <1>4, <1>8, <1>10, <1>11, NothingAdded DEF IInv

\* A duplicate is deleted; of its job another message was secured before.
LEMMA DropDuplicateKeeps ==
  ASSUME IInv, NEW r \in Run, DropDuplicate(r)
  PROVE  IInv'
<1>1. /\ QueueTypeOK
      /\ run[r].at = "scan" /\ run[r].next \in Nat /\ run[r].last \in Nat
      /\ run[r].seen \in SUBSET Job /\ run[r].next <= run[r].last
  BY Fields DEF IInv, DropDuplicate
<1>2. /\ run' \in [Run -> Runs]
      /\ run'[r].at = "scan" /\ run'[r].next = run[r].next + 1 /\ run'[r].last = run[r].last
      /\ run'[r].only = run[r].only /\ run'[r].seen = run[r].seen
      /\ \A t \in Run : t # r => run'[t] = run[t]
  BY <1>1, GoOnTyped DEF DropDuplicate
<1>3. UNCHANGED <<exists, lastSeq, known, failures, faults, cleanups, owed, disturbed>>
  BY DEF DropDuplicate, bounds, history
<1>4. letters' = {m \in letters : m.seq # run[r].next}
  BY DEF DropDuplicate, Delete
<1>5. PICK d \in letters : d.seq = run[r].next /\ d.job \in run[r].seen
  BY DEF DropDuplicate, Here
<1>6. \A m \in letters : m.seq \in Nat
  BY <1>1 DEF QueueTypeOK, Letter
<1>7. QueueTypeOK'
  BY <1>1, <1>2, <1>3, <1>4, RunStepTyped DEF QueueTypeOK
<1>8. ASSUME ~disturbed, RunOK(r) PROVE RunOK(r)'
  <2>1. InRange(r)' /\ Holds(r)'
    BY <1>1, <1>2, <1>3, <1>8 DEF RunOK, InRange, Holds
  <2>2. Secures(r)'
    BY <1>1, <1>2, <1>3, <1>4, <1>6, <1>8 DEF RunOK, Secures, Kept
  <2>3. Clears(r)'
    BY <1>1, <1>2, <1>3, <1>4, <1>6, <1>8 DEF RunOK, Clears
  <2> QED
    BY <2>1, <2>2, <2>3 DEF RunOK
<1>9. Calm'
  BY <1>1, <1>2, <1>3, <1>8, RunKeepsCalm
<1>10. NeverLost'
  <2> SUFFICES ASSUME ~disturbed, NEW j \in owed PROVE \E m \in letters' : m.job = j
    BY <1>3 DEF NeverLost
  <2>1. CASE j \in run[r].seen
    <3>1. Kept(r, j)
      BY <2>1, <1>1 DEF IInv, Calm, Active, RunOK, Secures
    <3> QED
      BY <3>1, <1>1, <1>4, <1>6 DEF Kept
  <2>2. CASE j \notin run[r].seen
    <3>1. PICK m \in letters : m.job = j
      BY DEF IInv, NeverLost
    <3>2. m.seq # run[r].next
      BY <3>1, <2>2, <1>5 DEF IInv, Unique
    <3> QED
      BY <3>1, <3>2, <1>4
  <2> QED
    BY <2>1, <2>2
<1> QED
  BY <1>3, <1>4, <1>7, <1>9, <1>10, NothingAdded DEF IInv


\* The message that a run takes secures its own job until it is published.
LEMMA TakeKeeps ==
  ASSUME IInv, NEW r \in Run, Take(r)
  PROVE  IInv'
<1>1. /\ QueueTypeOK
      /\ run[r].at = "scan" /\ run[r].next \in Nat /\ run[r].last \in Nat
      /\ run[r].only \in Job \cup {All}
      /\ run[r].seen \in SUBSET Job /\ run[r].next <= run[r].last
  BY Fields DEF IInv, Take
<1>2. PICK d \in letters :
         /\ d.seq = run[r].next
         /\ run' = [run EXCEPT ![r] = [at |-> "publish", next |-> @.next, last |-> @.last,
                                       only |-> @.only, seen |-> @.seen \cup {d.job}, job |-> d.job]]
  BY DEF Take, Here
<1>3. d.job \in Job /\ \A m \in letters : m.seq \in Nat
  BY <1>1 DEF QueueTypeOK, Letter
<1>4. /\ run' \in [Run -> Runs]
      /\ run'[r].at = "publish" /\ run'[r].next = run[r].next /\ run'[r].last = run[r].last
      /\ run'[r].only = run[r].only /\ run'[r].seen = run[r].seen \cup {d.job}
      /\ run'[r].job = d.job
      /\ \A t \in Run : t # r => run'[t] = run[t]
  <2> DEFINE new == [at |-> "publish", next |-> run[r].next, last |-> run[r].last,
                     only |-> run[r].only, seen |-> run[r].seen \cup {d.job}, job |-> d.job]
  <2>1. new \in Runs
    BY <1>1, <1>3 DEF Runs
  <2>2. run' = [run EXCEPT ![r] = new] /\ run \in [Run -> Runs]
    BY <1>1, <1>2 DEF QueueTypeOK
  <2> QED
    BY <2>1, <2>2
<1>5. UNCHANGED <<exists, letters, lastSeq, known, failures, faults, cleanups, owed, disturbed>>
  BY DEF Take, stream, bounds, history
<1>6. QueueTypeOK'
  BY <1>1, <1>4, <1>5, RunStepTyped DEF QueueTypeOK
<1>7. ASSUME ~disturbed, RunOK(r) PROVE RunOK(r)'
  <2>1. InRange(r)'
    BY <1>1, <1>4, <1>5, <1>7 DEF RunOK, InRange
  <2>2. Holds(r)'
    BY <1>1, <1>2, <1>4, <1>5 DEF IInv, Unique, Holds
  <2>3. Secures(r)'
    BY <1>1, <1>2, <1>3, <1>4, <1>5, <1>7 DEF RunOK, Secures, Kept
  <2>4. Clears(r)'
    BY <1>1, <1>4, <1>5, <1>7 DEF RunOK, Clears
  <2> QED
    BY <2>1, <2>2, <2>3, <2>4 DEF RunOK
<1>8. Calm'
  BY <1>1, <1>4, <1>5, <1>7, RunKeepsCalm
<1>9. NeverLost'
  BY <1>5 DEF IInv, NeverLost
<1> QED
  BY <1>5, <1>6, <1>8, <1>9, NothingAdded DEF IInv

\* What is republished is owed no more, so that its message may go.
LEMMA RepublishKeeps ==
  ASSUME IInv, NEW r \in Run, Republish(r)
  PROVE  IInv'
<1>1. /\ QueueTypeOK
      /\ run[r].at = "publish" /\ run[r].next \in Nat /\ run[r].last \in Nat
      /\ run[r].only \in Job \cup {All} /\ run[r].seen \in SUBSET Job /\ run[r].job \in Job
  BY Fields DEF IInv, Republish
<1>2. /\ run' \in [Run -> Runs]
      /\ run'[r].at = "delete" /\ run'[r].next = run[r].next /\ run'[r].last = run[r].last
      /\ run'[r].only = run[r].only /\ run'[r].seen = run[r].seen
      /\ run'[r].job = run[r].job
      /\ \A t \in Run : t # r => run'[t] = run[t]
  <2> DEFINE new == [run[r] EXCEPT !.at = "delete"]
  <2>1. run[r] \in [at: {"publish", "delete"}, next: Nat, last: Nat, only: Job \cup {All},
                    seen: SUBSET Job, job: Job]
    BY <1>1 DEF QueueTypeOK, Runs
  <2>2. new \in Runs /\ new.at = "delete" /\ new.next = run[r].next /\ new.last = run[r].last
        /\ new.only = run[r].only /\ new.seen = run[r].seen /\ new.job = run[r].job
    BY <2>1 DEF Runs
  <2>3. run' = [run EXCEPT ![r] = new] /\ run \in [Run -> Runs]
    BY <1>1 DEF Republish, QueueTypeOK
  <2> QED
    BY <2>2, <2>3
<1>3. /\ UNCHANGED <<exists, letters, lastSeq, known, failures, faults, cleanups, disturbed>>
      /\ owed' = owed \ {run[r].job}
  BY DEF Republish, stream, bounds
<1>4. \A m \in letters : m.seq \in Nat
  BY <1>1 DEF QueueTypeOK, Letter
<1>5. QueueTypeOK'
  BY <1>1, <1>2, <1>3, RunStepTyped DEF QueueTypeOK
<1>6. ASSUME ~disturbed, RunOK(r) PROVE RunOK(r)'
  <2>1. InRange(r)' /\ Holds(r)'
    BY <1>1, <1>2, <1>3, <1>6 DEF RunOK, InRange, Holds
  <2>2. Secures(r)'
    BY <1>1, <1>2, <1>3, <1>4, <1>6 DEF RunOK, Secures, Kept, Holds
  <2>3. Clears(r)'
    BY <1>1, <1>2, <1>3, <1>6 DEF RunOK, Clears
  <2> QED
    BY <2>1, <2>2, <2>3 DEF RunOK
<1>7. Calm'
  BY <1>1, <1>2, <1>3, <1>6, RunKeepsCalm
<1>8. NeverLost'
  BY <1>3 DEF IInv, NeverLost
<1> QED
  BY <1>3, <1>5, <1>7, <1>8, NothingAdded DEF IInv

\* The message is deleted: it is of the job that the run has just republished.
LEMMA DeleteLetterKeeps ==
  ASSUME IInv, NEW r \in Run, DeleteLetter(r)
  PROVE  IInv'
<1>1. /\ QueueTypeOK
      /\ run[r].at = "delete" /\ run[r].next \in Nat /\ run[r].last \in Nat
      /\ run[r].seen \in SUBSET Job
  BY Fields DEF IInv, DeleteLetter
<1>2. /\ run' \in [Run -> Runs]
      /\ run'[r].at = "scan" /\ run'[r].next = run[r].next + 1 /\ run'[r].last = run[r].last
      /\ run'[r].only = run[r].only /\ run'[r].seen = run[r].seen
      /\ \A t \in Run : t # r => run'[t] = run[t]
  BY <1>1, GoOnTyped DEF DeleteLetter
<1>3. UNCHANGED <<exists, lastSeq, known, failures, faults, cleanups, owed, disturbed>>
  BY DEF DeleteLetter, bounds, history
<1>4. letters' = {m \in letters : m.seq # run[r].next}
  BY DEF DeleteLetter, Delete
<1>5. \A m \in letters : m.seq \in Nat
  BY <1>1 DEF QueueTypeOK, Letter
<1>6. QueueTypeOK'
  BY <1>1, <1>2, <1>3, <1>4, RunStepTyped DEF QueueTypeOK
<1>7. ASSUME ~disturbed, RunOK(r) PROVE RunOK(r)'
  <2>1. InRange(r)' /\ Holds(r)'
    BY <1>1, <1>2, <1>3, <1>7 DEF RunOK, InRange, Holds
  <2>2. Secures(r)'
    BY <1>1, <1>2, <1>3, <1>4, <1>5, <1>7 DEF RunOK, Secures, Kept, Holds
  <2>3. Clears(r)'
    BY <1>1, <1>2, <1>3, <1>4, <1>5, <1>7 DEF RunOK, Clears
  <2> QED
    BY <2>1, <2>2, <2>3 DEF RunOK
<1>8. Calm'
  BY <1>1, <1>2, <1>3, <1>7, RunKeepsCalm
<1>9. NeverLost'
  <2> SUFFICES ASSUME ~disturbed, NEW j \in owed PROVE \E m \in letters' : m.job = j
    BY <1>3 DEF NeverLost
  <2>1. RunOK(r)
    BY <1>1 DEF IInv, Calm, Active
  <2>2. CASE j \in run[r].seen
    BY <2>1, <2>2, <1>1, <1>4, <1>5 DEF RunOK, Holds, Secures, Kept
  <2>3. CASE j \notin run[r].seen
    BY <2>1, <2>3, <1>1, <1>4 DEF IInv, NeverLost, RunOK, Holds
  <2> QED
    BY <2>2, <2>3
<1> QED
  BY <1>3, <1>4, <1>6, <1>8, <1>9, NothingAdded DEF IInv

\* A run that ends is active no more.
LEMMA FinishKeeps ==
  ASSUME IInv, NEW r \in Run, Finish(r)
  PROVE  IInv'
<1>1. QueueTypeOK /\ run[r].at = "scan" /\ Idle \in Runs
  BY DEF IInv, Finish, Idle, Runs
<1>2. run' = [run EXCEPT ![r] = Idle]
  BY DEF Finish
<1>3. /\ run' \in [Run -> Runs] /\ run'[r].at = "idle"
      /\ \A t \in Run : t # r => run'[t] = run[t]
  BY <1>1, <1>2 DEF QueueTypeOK, Idle
<1>4. UNCHANGED <<exists, letters, lastSeq, known, failures, faults, cleanups, owed, disturbed>>
  BY DEF Finish, stream, bounds, history
<1>5. QueueTypeOK'
  BY <1>1, <1>3, <1>4, RunStepTyped DEF QueueTypeOK
<1>6. Calm'
  BY <1>1, <1>3, <1>4, RunKeepsCalm
<1>7. NeverLost'
  BY <1>4 DEF IInv, NeverLost
<1> QED
  BY <1>4, <1>5, <1>6, <1>7, NothingAdded DEF IInv


-----------------------------------------------------------------------------
\* The steps of the processor and of the operator. A job that is captured gets
\* the next number, which no run in progress gets to.
LEMMA CaptureKeeps ==
  ASSUME IInv, NEW j \in Job, NEW a \in Attempt, Capture(j, a)
  PROVE  IInv'
<1>1. QueueTypeOK /\ lastSeq \in Nat /\ failures \in Nat /\ MaxFailures \in Nat
  BY DEF IInv, QueueTypeOK
<1>2. /\ UNCHANGED <<exists, run, faults, cleanups, disturbed>>
      /\ failures' = failures + 1 /\ failures < MaxFailures
  BY DEF Capture
<1>3. failures' \in 0..MaxFailures
  BY <1>1, <1>2
<1>4. CASE UNCHANGED <<lastSeq, letters, known, owed>>
  <2>1. QueueTypeOK'
    BY <1>1, <1>2, <1>3, <1>4 DEF QueueTypeOK
  <2>2. Active' = Active /\ \A r \in Run : RunOK(r) => RunOK(r)'
    BY <1>2, <1>4 DEF Active, RunOK, InRange, Holds, Secures, Kept, Clears
  <2>3. Calm'
    BY <2>2, <1>2 DEF IInv, Calm, Active
  <2> QED
    BY <2>1, <2>3, <1>2, <1>4 DEF IInv, Unique, Numbered, NeverLost
<1>5. CASE /\ lastSeq' = lastSeq + 1
           /\ letters' = letters \cup {[seq |-> lastSeq + 1, job |-> j, attempt |-> a]}
           /\ known' = known \cup {<<j, a>>}
           /\ owed' = owed \cup {j}
  <2> DEFINE new == [seq |-> lastSeq + 1, job |-> j, attempt |-> a]
  <2>1. new \in Letter /\ new.seq = lastSeq + 1 /\ new.job = j /\ letters' = letters \cup {new}
    BY <1>1, <1>5 DEF Letter
  <2> HIDE DEF new
  <2>2. \A m \in letters : m.seq \in Nat /\ m.seq <= lastSeq
    BY <1>1 DEF QueueTypeOK, Letter, IInv, Numbered
  <2>3. QueueTypeOK'
    <3>1. letters' \subseteq Letter /\ lastSeq' \in Nat
      BY <1>1, <1>5, <2>1 DEF QueueTypeOK
    <3>2. known' \subseteq Job \X Attempt /\ owed' \subseteq Job
      BY <1>1, <1>5 DEF QueueTypeOK
    <3> QED
      BY <3>1, <3>2, <1>1, <1>2, <1>3 DEF QueueTypeOK
  <2>4. Unique' /\ Numbered'
    BY <1>1, <1>5, <2>1, <2>2 DEF IInv, Unique, Numbered
  <2>5. ASSUME NEW r \in Active, RunOK(r) PROVE RunOK(r)'
    <3>1. run[r].next \in Nat /\ run[r].last \in Nat
      BY <1>1, Fields DEF Active
    <3>2. run[r].last <= lastSeq /\ run[r].next <= run[r].last + 1
      BY <2>5 DEF RunOK, InRange
    <3>3. InRange(r)'
      BY <1>1, <1>2, <1>5, <3>1, <3>2 DEF InRange
    <3>4. Holds(r)'
      BY <1>1, <1>2, <2>1, <2>2, <2>5, <3>1, <3>2 DEF RunOK, Holds
    <3>5. Secures(r)'
      <4> SUFFICES ASSUME NEW i \in run[r].seen, i \in owed \cup {j}
                   PROVE  Kept(r, i)'
        BY <1>2, <1>5 DEF Secures
      <4>1. CASE i = j
        BY <4>1, <1>1, <1>2, <2>1, <3>1, <3>2 DEF Kept
      <4>2. CASE i # j
        BY <4>2, <1>2, <2>1, <2>5 DEF RunOK, Secures, Kept
      <4> QED
        BY <4>1, <4>2
    <3>6. Clears(r)'
      BY <1>1, <1>2, <2>1, <2>2, <2>5, <3>1, <3>2 DEF RunOK, Clears
    <3> QED
      BY <3>3, <3>4, <3>5, <3>6 DEF RunOK
  <2>6. Calm'
    BY <2>5, <1>2 DEF IInv, Calm, Active
  <2>7. NeverLost'
    BY <1>2, <1>5, <2>1 DEF IInv, NeverLost
  <2> QED
    BY <2>3, <2>4, <2>6, <2>7 DEF IInv
<1> QED
  BY <1>4, <1>5 DEF Capture

\* The stream is there or not: no run depends on it.
LEMMA SetupKeeps ==
  ASSUME IInv, SetupDLQ
  PROVE  IInv'
<1>1. /\ UNCHANGED <<letters, lastSeq, known, run, failures, faults, cleanups, owed, disturbed>>
      /\ exists' = TRUE
  BY DEF SetupDLQ, bounds, history
<1>2. QueueTypeOK'
  BY <1>1 DEF IInv, QueueTypeOK
<1>3. Active' = Active /\ \A r \in Run : RunOK(r) => RunOK(r)'
  BY <1>1 DEF Active, RunOK, InRange, Holds, Secures, Kept, Clears
<1>4. Calm'
  BY <1>1, <1>3 DEF IInv, Calm, Active
<1> QED
  BY <1>1, <1>2, <1>4 DEF IInv, Unique, Numbered, NeverLost

\* The stream begins anew; nothing is owed, and a run in progress is disturbed.
LEMMA CleanupKeeps ==
  ASSUME IInv, CleanupDLQ
  PROVE  IInv'
<1>1. /\ exists' = FALSE /\ letters' = {} /\ lastSeq' = 0 /\ known' = {} /\ owed' = {}
      /\ UNCHANGED <<run, failures, faults>>
      /\ disturbed' = (disturbed \/ Active # {})
      /\ cleanups' = cleanups + 1 /\ cleanups < MaxCleanups
  BY DEF CleanupDLQ
<1>2. cleanups' \in 0..MaxCleanups
  BY <1>1 DEF IInv, QueueTypeOK
<1>3. QueueTypeOK'
  <2>1. letters' \subseteq Letter /\ lastSeq' \in Nat /\ known' \subseteq Job \X Attempt
        /\ owed' \subseteq Job
    BY <1>1
  <2>2. exists' \in BOOLEAN /\ disturbed' \in BOOLEAN
    BY <1>1, Zenon DEF IInv, QueueTypeOK
  <2>3. run' \in [Run -> Runs] /\ failures' \in 0..MaxFailures /\ faults' \in 0..MaxFaults
    BY <1>1 DEF IInv, QueueTypeOK
  <2> QED
    BY <2>1, <2>2, <2>3, <1>2 DEF QueueTypeOK
<1>4. Calm'
  <2>1. Active' = Active
    BY <1>1 DEF Active
  <2> QED
    BY <2>1, <1>1 DEF Calm
<1> QED
  BY <1>1, <1>3, <1>4 DEF IInv, Unique, Numbered, NeverLost

\* Without messages nothing is left behind, and nothing is owed.
LEMMA PurgeKeeps ==
  ASSUME IInv, PurgeDLQ
  PROVE  IInv'
<1>1. /\ letters' = {} /\ owed' = {}
      /\ UNCHANGED <<exists, lastSeq, known, run, failures, faults, cleanups, disturbed>>
  BY DEF PurgeDLQ, bounds
<1>2. QueueTypeOK'
  BY <1>1 DEF IInv, QueueTypeOK
<1>3. Active' = Active /\ \A r \in Run : RunOK(r) => RunOK(r)'
  BY <1>1 DEF Active, RunOK, InRange, Holds, Secures, Kept, Clears
<1>4. Calm'
  BY <1>1, <1>3 DEF IInv, Calm, Active
<1> QED
  BY <1>1, <1>2, <1>4 DEF IInv, Unique, Numbered, NeverLost

\* A run begins at the first message, so that nothing is behind it. If another
\* one is in progress both are disturbed.
LEMMA ReprocessKeeps ==
  ASSUME IInv, NEW r \in Run, NEW only \in Job \cup {All}, ReprocessDLQ(r, only)
  PROVE  IInv'
<1> DEFINE new == [at |-> "scan", next |-> First, last |-> lastSeq, only |-> only, seen |-> {}]
<1>1. /\ QueueTypeOK /\ lastSeq \in Nat /\ run \in [Run -> Runs] /\ letters # {}
      /\ run' = [run EXCEPT ![r] = new]
      /\ disturbed' = (disturbed \/ Active # {})
      /\ UNCHANGED <<exists, letters, lastSeq, known, failures, faults, cleanups, owed>>
  BY DEF IInv, QueueTypeOK, ReprocessDLQ, stream, bounds
<1>2. First \in Nat /\ \A m \in letters : First <= m.seq /\ m.seq \in Nat /\ m.seq <= lastSeq
  BY <1>1, FirstIsLeast DEF IInv, Numbered, QueueTypeOK, Letter
<1>3. First <= lastSeq
  BY <1>1, <1>2
<1>4. new \in Runs
  BY <1>1, <1>2 DEF Runs
<1>5. run' \in [Run -> Runs] /\ run'[r] = new /\ \A s \in Run : s # r => run'[s] = run[s]
  BY <1>1, <1>4
<1>6. QueueTypeOK'
  <2>1. disturbed' \in BOOLEAN
    BY <1>1, Zenon DEF QueueTypeOK
  <2> QED
    BY <2>1, <1>1, <1>5 DEF QueueTypeOK
<1>7. RunOK(r)'
  <2>1. /\ run'[r].at = "scan" /\ run'[r].next = First /\ run'[r].last = lastSeq
        /\ run'[r].only = only /\ run'[r].seen = {}
    BY <1>5
  <2>2. InRange(r)' /\ Holds(r)' /\ Secures(r)'
    BY <2>1, <1>1, <1>2, <1>3 DEF InRange, Holds, Secures
  <2>3. Clears(r)'
    BY <2>1, <1>1, <1>2 DEF Clears
  <2> QED
    BY <2>2, <2>3 DEF RunOK
<1>8. Calm'
  <2> SUFFICES ASSUME ~disturbed, Active = {}
               PROVE  \A s \in Active' : RunOK(s)' /\ \A t \in Active' : t = s
    BY <1>1 DEF Calm
  <2>1. \A s \in Active' : s = r
    BY <1>5 DEF Active
  <2> QED
    BY <2>1, <1>7
<1>9. NeverLost'
  BY <1>1 DEF IInv, NeverLost
<1> QED
  BY <1>1, <1>6, <1>8, <1>9, NothingAdded DEF IInv

-----------------------------------------------------------------------------
LEMMA NextIInv == IInv /\ [QueueNext]_queueVars => IInv'
<1> SUFFICES ASSUME IInv, [QueueNext]_queueVars PROVE IInv'
  OBVIOUS
<1>1. ASSUME NEW r \in Run, RunStep(r) PROVE IInv'
  BY <1>1, SkipKeeps, FailedCallKeeps, DropDuplicateKeeps, TakeKeeps, RepublishKeeps,
     DeleteLetterKeeps, FinishKeeps DEF RunStep
<1>2. ASSUME NEW r \in Run, NEW only \in Job \cup {All}, ReprocessDLQ(r, only) PROVE IInv'
  BY <1>2, ReprocessKeeps
<1>3. ASSUME NEW j \in Job, NEW a \in Attempt, Capture(j, a) PROVE IInv'
  BY <1>3, CaptureKeeps
<1>4. CASE SetupDLQ \/ CleanupDLQ \/ PurgeDLQ
  BY <1>4, SetupKeeps, CleanupKeeps, PurgeKeeps
<1>5. CASE UNCHANGED queueVars
  BY <1>5 DEF queueVars, stream, bounds, history, IInv, QueueTypeOK, Unique, Numbered, Calm,
     NeverLost, Active, RunOK, InRange, Holds, Secures, Kept, Clears
<1> QED
  BY <1>1, <1>2, <1>3, <1>4, <1>5, Zenon DEF QueueNext

LEMMA QueueInvariant == QueueSpec => []IInv
BY InitIInv, NextIInv, PTL DEF QueueSpec

-----------------------------------------------------------------------------
(* The queue, its sequence numbers and the positions of the runs have their    *)
(* types in every reachable state (control_handler.go:687-863).                *)
THEOREM TypeCorrect == QueueSpec => []QueueTypeOK
<1>1. IInv => QueueTypeOK
  BY DEF IInv
<1> QED
  BY <1>1, QueueInvariant, PTL

(* However many jobs fail, however often reads, publishes and deletes fail,    *)
(* and whatever is captured, purged and set up in between: a job that was      *)
(* captured and neither republished nor discarded has a message in the queue,  *)
(* unless two runs overlapped or the stream was deleted under one.             *)
THEOREM NothingIsLost == QueueSpec => []NeverLost
<1>1. IInv => NeverLost
  BY DEF IInv
<1> QED
  BY <1>1, QueueInvariant, PTL

(* While no call fails and nothing overlaps it, a run leaves no message behind *)
(* that it was asked for, although others arrive while it is on its way.       *)
THEOREM RunsLeaveNothing == QueueSpec => []PassedIsGone
<1>1. ASSUME IInv PROVE PassedIsGone
  <2> SUFFICES ASSUME ~(faults > 0), ~disturbed, NEW r \in Active, NEW m \in letters,
                      m.seq < run[r].next
               PROVE  run[r].only \notin {All, m.job}
    BY DEF PassedIsGone
  <2>1. faults = 0
    BY <1>1 DEF IInv, QueueTypeOK
  <2> QED
    BY <2>1, <1>1 DEF IInv, Calm, RunOK, Clears
<1>2. IInv => PassedIsGone
  BY <1>1
<1> QED
  BY <1>2, QueueInvariant, PTL

=============================================================================

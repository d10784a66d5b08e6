-------------------------- MODULE WorkerPoolProofs --------------------------
(***************************************************************************)
(* Theorems of WorkerPool, for every set of goroutine ids and every clamp: *)
(* first those of every schedule (Spec, inductive invariant IInv), then    *)
(* those of a pool operated when it is settled (SettledSpec, inductive     *)
(* invariant IInv /\ SInv).                                                *)
(***************************************************************************)
EXTENDS WorkerPool, FiniteSetTheorems, TLAPS

\* A goroutine that has not ended has one of the names of the pool, so that a
\* revival finds a slot of the pool or the place right behind it.
NamesAreValid == \A g \in Goroutine : st[g] # "dead" => name[g] \in Name

IInv == TypeOK /\ PoolBounded /\ SlotsOwnDistinctWorkers /\ NamesAreValid

USE PoolAssumption

-----------------------------------------------------------------------------
\* The initial pool has one worker, processor-1.
LEMMA InitIInv == Init => IInv
<1> SUFFICES ASSUME Init PROVE IInv
  OBVIOUS
<1> PICK g \in Goroutine :
         /\ st = [h \in Goroutine |-> IF h = g THEN "polling" ELSE "dead"]
         /\ name = [h \in Goroutine |-> IF h = g THEN 1 ELSE 0]
         /\ workerCancels = <<g>>
  BY DEF Init
<1>1. TypeOK
  BY DEF Init, TypeOK, State, Running, Name, CtlState
<1>2. PoolBounded /\ SlotsOwnDistinctWorkers
  BY DEF PoolBounded, SlotsOwnDistinctWorkers, Slots
<1>3. NamesAreValid
  BY DEF NamesAreValid, Name
<1> QED
  BY <1>1, <1>2, <1>3 DEF IInv

-----------------------------------------------------------------------------
\* The steps of a worker that do not end it touch no name, no slot and no
\* context.
LEMMA WorkerMoves ==
  ASSUME IInv, NEW g \in Goroutine,
         \/ StartFetch(g) \/ FetchMessage(g) \/ FetchTimeout(g)
         \/ FetchError(g) \/ Rebind(g) \/ Finish(g)
  PROVE  IInv'
<1>1. PICK s \in Running : /\ st' = [st EXCEPT ![g] = s] /\ st[g] # "dead"
                           /\ jsBound' \in BOOLEAN
                           /\ UNCHANGED <<name, cancelled, workerCancels, workers,
                                          statusVars, processingEnabled, ctl>>
  BY DEF StartFetch, FetchMessage, FetchTimeout, FetchError, Rebind, Finish, Goto,
         subscribeJetStream, Running, IInv, TypeOK
<1>2. TypeOK'
  BY <1>1 DEF IInv, TypeOK, State, statusVars
<1>3. (PoolBounded /\ SlotsOwnDistinctWorkers)'
  BY <1>1 DEF IInv, PoolBounded, SlotsOwnDistinctWorkers, Slots
<1>4. NamesAreValid'
  BY <1>1 DEF IInv, TypeOK, NamesAreValid
<1> QED
  BY <1>2, <1>3, <1>4 DEF IInv

\* A worker that ends loses its name unless a supervisor keeps it.
LEMMA WorkerEnds ==
  ASSUME IInv, NEW g \in Goroutine, ObserveCancel(g) \/ Crash(g)
  PROVE  IInv'
<1>1. PICK s \in {"dead", "reviving"} : End(g, s) /\ st[g] # "dead" /\ UNCHANGED workerCancels
  BY DEF ObserveCancel, Crash
<1>2. /\ name[g] \in Name
      /\ activeGoroutines' \in Nat
      /\ goroutineStatus' \in {"RUNNING", "DEGRADED", "CRASHED", "PAUSED"}
      /\ crashedWorker' \in 0 .. MaxWorkers
      /\ UNCHANGED <<workers, processingEnabled, jsBound, ctl>>
  BY <1>1 DEF ObserveCancel, Crash, CountOut, statusVars, IInv, TypeOK, NamesAreValid, Name
<1>3. TypeOK'
  BY <1>1, <1>2 DEF End, IInv, TypeOK, State, Name
<1>4. (PoolBounded /\ SlotsOwnDistinctWorkers)'
  BY <1>1 DEF IInv, PoolBounded, SlotsOwnDistinctWorkers, Slots
<1>5. NamesAreValid'
  BY <1>1, <1>2 DEF End, IInv, TypeOK, NamesAreValid, Name
<1> QED
  BY <1>3, <1>4, <1>5 DEF IInv

\* A revival reuses the slot of its name or adds the slot right behind the tail.
LEMMA RespawnPreserves ==
  ASSUME IInv, NEW g \in Goroutine, Respawn(g)
  PROVE  IInv'
<1> PICK new \in Unused :
         /\ st' = [st EXCEPT ![g] = "dead", ![new] = "polling"]
         /\ name' = [name EXCEPT ![g] = 0, ![new] = name[g]]
         /\ Reinstate(name[g], new)
  BY DEF Respawn
<1>1. new \in Goroutine /\ new # g /\ st[new] = "dead"
  BY DEF Unused, Respawn
<1>2. \A i \in Slots : workerCancels[i] # new
  BY DEF Unused, Slotted
<1>3. name[g] \in Name
  BY DEF IInv, NamesAreValid, Respawn
<1>4. TypeOK'
  <2>1. workerCancels' \in Seq(Goroutine)
    BY <1>1, <1>3 DEF Reinstate, Slots, Name, IInv, TypeOK
  <2>2. /\ activeGoroutines' \in Nat
        /\ goroutineStatus' \in {"RUNNING", "DEGRADED", "CRASHED", "PAUSED"}
        /\ crashedWorker' \in 0 .. MaxWorkers
    BY DEF Respawn, CountIn, IInv, TypeOK
  <2>3. st' \in [Goroutine -> State]
    BY <1>1 DEF IInv, TypeOK, State, Running
  <2>4. name' \in [Goroutine -> 0 .. MaxWorkers]
    BY <1>1, <1>3 DEF IInv, TypeOK, Name
  <2> QED
    BY <2>1, <2>2, <2>3, <2>4 DEF Respawn, IInv, TypeOK
<1>5. PoolBounded'
  BY <1>1, <1>3 DEF Reinstate, Slots, Name, IInv, TypeOK, PoolBounded
<1>6. SlotsOwnDistinctWorkers'
  BY <1>1, <1>2, <1>3 DEF Reinstate, Slots, Name, IInv, TypeOK, SlotsOwnDistinctWorkers
<1>7. NamesAreValid'
  BY <1>1, <1>3 DEF IInv, TypeOK, NamesAreValid, Name
<1> QED
  BY <1>4, <1>5, <1>6, <1>7 DEF IInv

-----------------------------------------------------------------------------
\* A function on 1 .. k is a sequence of length k.
LEMMA FunctionIsSeq ==
  ASSUME NEW S, NEW k \in Nat, NEW f \in [1 .. k -> S]
  PROVE  f \in Seq(S) /\ Len(f) = k
OBVIOUS

\* Spawned goroutines poll under consecutive names; the others are untouched.
LEMMA SpawnTypes ==
  ASSUME IInv, NEW n \in Nat, NEW base \in Nat, n + base <= MaxWorkers,
         NEW ids \in Fresh(n), Spawn(ids, base)
  PROVE  /\ st' \in [Goroutine -> State]
         /\ name' \in [Goroutine -> 0 .. MaxWorkers]
         /\ NamesAreValid'
<1>1. ids \in [1 .. n -> Goroutine]
  BY DEF Fresh, Unused
<1>2. st' \in [Goroutine -> State]
  BY DEF Spawn, IInv, TypeOK, State, Running
<1>3. ASSUME NEW g \in Goroutine
      PROVE  /\ name'[g] \in 0 .. MaxWorkers
             /\ st'[g] # "dead" => name'[g] \in Name
  <2>1. CASE \E i \in DOMAIN ids : ids[i] = g
    <3>1. (CHOOSE i \in DOMAIN ids : ids[i] = g) \in 1 .. n
      BY <1>1, <2>1
    <3>2. name'[g] = base + (CHOOSE i \in DOMAIN ids : ids[i] = g)
      BY <2>1 DEF Spawn
    <3> QED
      BY <3>1, <3>2 DEF Name
  <2>2. CASE ~\E i \in DOMAIN ids : ids[i] = g
    <3>1. name'[g] = name[g] /\ st'[g] = st[g]
      BY <2>2 DEF Spawn
    <3> QED
      BY <3>1 DEF IInv, TypeOK, NamesAreValid
  <2> QED
    BY <2>1, <2>2
<1>4. name' \in [Goroutine -> 0 .. MaxWorkers]
  BY <1>3 DEF Spawn
<1> QED
  BY <1>2, <1>3, <1>4 DEF NamesAreValid

\* Scaling up appends goroutines no slot refers to yet.
LEMMA ScaleUpPreserves ==
  ASSUME IInv, NEW n \in Name, ScaleUp(n)
  PROVE  /\ st' \in [Goroutine -> State]
         /\ name' \in [Goroutine -> 0 .. MaxWorkers]
         /\ cancelled' \in SUBSET Goroutine
         /\ workerCancels' \in Seq(Goroutine)
         /\ (PoolBounded /\ SlotsOwnDistinctWorkers /\ NamesAreValid)'
<1> DEFINE len == Len(workerCancels)
           add == n - len
<1>1. len \in Nat /\ n \in Nat /\ n > len /\ n <= MaxWorkers /\ add \in Nat
  BY DEF ScaleUp, Name, IInv, TypeOK
<1> PICK ids \in Fresh(add) : Spawn(ids, len) /\ workerCancels' = workerCancels \o ids
  BY DEF ScaleUp
<1>2. /\ ids \in [1 .. add -> Goroutine]
      /\ \A i, j \in 1 .. add : ids[i] = ids[j] => i = j
      /\ \A i \in Slots, j \in 1 .. add : workerCancels[i] # ids[j]
  BY DEF Fresh, Unused, Slotted
<1>3. /\ st' \in [Goroutine -> State]
      /\ name' \in [Goroutine -> 0 .. MaxWorkers]
      /\ NamesAreValid'
  <2>1. add + len <= MaxWorkers
    BY <1>1
  <2> QED
    BY <1>1, <2>1, SpawnTypes
<1>4. ids \in Seq(Goroutine) /\ Len(ids) = add
  BY <1>1, <1>2, FunctionIsSeq
<1>5. workerCancels' \in Seq(Goroutine) /\ Len(workerCancels') = n
  BY <1>1, <1>4 DEF IInv, TypeOK
<1>6. \A k \in 1 .. n : workerCancels'[k] = IF k <= len THEN workerCancels[k] ELSE ids[k - len]
  BY <1>1, <1>4 DEF IInv, TypeOK
<1>7. SlotsOwnDistinctWorkers'
  <2> SUFFICES ASSUME NEW i \in 1 .. n, NEW j \in 1 .. n, workerCancels'[i] = workerCancels'[j]
               PROVE  i = j
    BY <1>5 DEF SlotsOwnDistinctWorkers, Slots
  <2>1. CASE i <= len /\ j <= len
    BY <1>1, <1>6, <2>1 DEF IInv, SlotsOwnDistinctWorkers, Slots
  <2>2. CASE i > len /\ j > len
    <3>1. i - len \in 1 .. add /\ j - len \in 1 .. add
      BY <1>1, <2>2
    <3> QED
      BY <1>1, <1>2, <1>6, <2>2, <3>1
  <2>3. CASE i <= len /\ j > len
    <3>1. i \in Slots /\ j - len \in 1 .. add
      BY <1>1, <2>3 DEF Slots
    <3> QED
      BY <1>1, <1>2, <1>6, <2>3, <3>1
  <2>4. CASE i > len /\ j <= len
    <3>1. j \in Slots /\ i - len \in 1 .. add
      BY <1>1, <2>4 DEF Slots
    <3> QED
      BY <1>1, <1>2, <1>6, <2>4, <3>1
  <2> QED
    BY <1>1, <2>1, <2>2, <2>3, <2>4
<1>8. PoolBounded'
  BY <1>1, <1>5 DEF PoolBounded
<1>9. cancelled' \in SUBSET Goroutine
  BY DEF ScaleUp, IInv, TypeOK
<1> QED
  BY <1>3, <1>5, <1>7, <1>8, <1>9

\* Scaling down keeps a prefix of the slots.
LEMMA ScaleDownPreserves ==
  ASSUME IInv, NEW n \in Name, ScaleDown(n)
  PROVE  /\ st' \in [Goroutine -> State]
         /\ name' \in [Goroutine -> 0 .. MaxWorkers]
         /\ cancelled' \in SUBSET Goroutine
         /\ workerCancels' \in Seq(Goroutine)
         /\ (PoolBounded /\ SlotsOwnDistinctWorkers /\ NamesAreValid)'
<1>1. n \in Nat /\ n <= Len(workerCancels) /\ workerCancels \in Seq(Goroutine)
  BY DEF ScaleDown, Name, IInv, TypeOK
<1>2. /\ workerCancels' \in Seq(Goroutine) /\ Len(workerCancels') = n
      /\ \A i \in 1 .. n : workerCancels'[i] = workerCancels[i]
  BY <1>1 DEF ScaleDown
<1>3. SlotsOwnDistinctWorkers'
  BY <1>1, <1>2 DEF IInv, SlotsOwnDistinctWorkers, Slots
<1>4. PoolBounded'
  BY <1>1, <1>2 DEF PoolBounded, Name
<1>5. cancelled' \in SUBSET Goroutine
  BY DEF ScaleDown, Cancel, Live, IInv, TypeOK
<1>6. NamesAreValid'
  BY DEF ScaleDown, IInv, NamesAreValid
<1>7. st' \in [Goroutine -> State] /\ name' \in [Goroutine -> 0 .. MaxWorkers]
  BY DEF ScaleDown, IInv, TypeOK
<1> QED
  BY <1>2, <1>3, <1>4, <1>5, <1>6, <1>7

LEMMA ScaleWorkersPreserves ==
  ASSUME IInv, NEW n \in Name, ScaleWorkers(n)
  PROVE  IInv'
<1>1. /\ st' \in [Goroutine -> State]
      /\ name' \in [Goroutine -> 0 .. MaxWorkers]
      /\ cancelled' \in SUBSET Goroutine
      /\ workerCancels' \in Seq(Goroutine)
      /\ (PoolBounded /\ SlotsOwnDistinctWorkers /\ NamesAreValid)'
  BY ScaleUpPreserves, ScaleDownPreserves DEF ScaleWorkers
<1>2. TypeOK'
  BY <1>1 DEF ScaleWorkers, AllRunning, IInv, TypeOK, Name
<1> QED
  BY <1>1, <1>2 DEF IInv

\* Rebuilding the pool replaces every slot by a fresh goroutine.
LEMMA StartWorkersPreserves ==
  ASSUME IInv, startWorkers
  PROVE  IInv'
<1> PICK ids \in Fresh(workers) : Spawn(ids, 0) /\ workerCancels' = ids
  BY DEF startWorkers
<1>1. workers \in Nat /\ workers + 0 <= MaxWorkers /\ 0 \in Nat
  BY DEF IInv, TypeOK, Name
<1>2. ids \in [1 .. workers -> Goroutine] /\ \A i, j \in 1 .. workers : ids[i] = ids[j] => i = j
  BY DEF Fresh, Unused
<1>3. /\ st' \in [Goroutine -> State]
      /\ name' \in [Goroutine -> 0 .. MaxWorkers]
      /\ NamesAreValid'
  BY <1>1, SpawnTypes
<1>4. workerCancels' \in Seq(Goroutine) /\ Len(workerCancels') = workers
  BY <1>1, <1>2
<1>5. PoolBounded' /\ SlotsOwnDistinctWorkers'
  BY <1>1, <1>2, <1>4 DEF PoolBounded, SlotsOwnDistinctWorkers, Slots
<1>6. cancelled' \in SUBSET Goroutine
  BY DEF startWorkers, Cancel, Live, IInv, TypeOK
<1>7. TypeOK'
  BY <1>1, <1>3, <1>4, <1>6 DEF startWorkers, AllRunning, IInv, TypeOK, CtlState
<1> QED
  BY <1>3, <1>5, <1>7 DEF IInv

\* The other steps of the responder and of the HTTP endpoints at most empty the
\* slots and cancel the workers in them.
LEMMA ControlPreserves ==
  ASSUME IInv,
         \/ \E enabled \in BOOLEAN : StateSet(enabled) \/ HttpState(enabled)
         \/ HttpRestart \/ StateSetBind \/ StateSetCancel \/ unsubscribeJetStream
  PROVE  IInv'
<1>1. UNCHANGED <<st, name>> /\ (workerCancels' = workerCancels \/ workerCancels' = <<>>)
  BY DEF StateSet, HttpState, HttpRestart, StateSetBind, StateSetCancel,
         unsubscribeJetStream, poolVars
<1>2. NamesAreValid'
  BY <1>1 DEF IInv, NamesAreValid
<1>3. (PoolBounded /\ SlotsOwnDistinctWorkers)'
  BY <1>1 DEF IInv, PoolBounded, SlotsOwnDistinctWorkers, Slots
<1>4. workerCancels' \in Seq(Goroutine)
  <2>1. workerCancels \in Seq(Goroutine) /\ <<>> \in Seq(Goroutine)
    BY DEF IInv, TypeOK
  <2> QED
    BY <1>1, <2>1
<1>5. cancelled' \in SUBSET Goroutine
  BY DEF StateSet, HttpState, HttpRestart, StateSetBind, StateSetCancel,
         unsubscribeJetStream, Cancel, Live, poolVars, IInv, TypeOK
<1>6. ASSUME \E enabled \in BOOLEAN : StateSet(enabled) \/ HttpState(enabled) PROVE TypeOK'
  BY <1>1, <1>4, <1>5, <1>6
  DEF StateSet, HttpState, poolVars, statusVars, IInv, TypeOK, CtlState
<1>7. ASSUME HttpRestart \/ StateSetCancel PROVE TypeOK'
  BY <1>1, <1>4, <1>5, <1>7
  DEF HttpRestart, StateSetCancel, statusVars, IInv, TypeOK, CtlState
<1>8. ASSUME StateSetBind \/ unsubscribeJetStream PROVE TypeOK'
  BY <1>1, <1>4, <1>5, <1>8
  DEF StateSetBind, unsubscribeJetStream, subscribeJetStream, statusVars, IInv, TypeOK, CtlState
<1>9. TypeOK'
  BY <1>6, <1>7, <1>8
<1> QED
  BY <1>2, <1>3, <1>9 DEF IInv

-----------------------------------------------------------------------------
LEMMA NextIInv == IInv /\ [Next]_vars => IInv'
<1> SUFFICES ASSUME IInv, [Next]_vars PROVE IInv'
  OBVIOUS
<1>1. ASSUME NEW g \in Goroutine, Worker(g) PROVE IInv'
  BY <1>1, WorkerMoves, WorkerEnds DEF Worker
<1>2. ASSUME NEW g \in Goroutine, Respawn(g) PROVE IInv'
  BY <1>2, RespawnPreserves
<1>3. ASSUME Responder PROVE IInv'
  BY <1>3, StartWorkersPreserves, ControlPreserves DEF Responder
<1>4. ASSUME Operator PROVE IInv'
  BY <1>4, ScaleWorkersPreserves, ControlPreserves DEF Operator
<1>5. ASSUME UNCHANGED vars PROVE IInv'
  BY <1>5 DEF vars, IInv, TypeOK, PoolBounded, SlotsOwnDistinctWorkers, Slots, NamesAreValid
<1> QED
  BY <1>1, <1>2, <1>3, <1>4, <1>5 DEF Next, Internal

\* The variables of the pool keep their types, whatever the operator does while
\* workers crash and supervisors fire (worker.go, control.go, http_server.go).
THEOREM TypeCorrect == Spec => []TypeOK
<1>1. IInv => TypeOK
  BY DEF IInv
<1> QED
  BY <1>1, InitIInv, NextIInv, PTL DEF Spec

\* workerCancels never outgrows the clamp of ScaleWorkers, late revivals that
\* append to it included (worker.go ScaleWorkers, supervisor).
THEOREM PoolStaysBounded == Spec => []PoolBounded
<1>1. IInv => PoolBounded
  BY DEF IInv
<1> QED
  BY <1>1, InitIInv, NextIInv, PTL DEF Spec

\* No two slots ever cancel the same worker (worker.go ScaleWorkers,
\* startWorkers, supervisor).
THEOREM SlotsStayDistinct == Spec => []SlotsOwnDistinctWorkers
<1>1. IInv => SlotsOwnDistinctWorkers
  BY DEF IInv
<1> QED
  BY <1>1, InitIInv, NextIInv, PTL DEF Spec

-----------------------------------------------------------------------------
(* The pool operated when it is settled.                                   *)

\* A context is cancelled only while its worker polls, and then the worker ends.
CancelledPoll == \A g \in cancelled : st[g] = "polling"

\* A worker that runs on, or that is down and will return, has a slot.
OthersAreSlotted == (Live \ cancelled) \cup Reviving \subseteq Slotted

\* Between its critical sections the callback of processor.state.set finds the
\* pool as it left it: nobody else resizes it, and a disabled pool never fetches.
PhasesAgree ==
  /\ ctl = "idle" => (processingEnabled <=> workerCancels # <<>>)
  /\ ctl \in {"bind", "start"} => processingEnabled /\ workerCancels = <<>>
  /\ ctl = "cancel" => ~processingEnabled /\ Reviving = {} /\ \A g \in Live : st[g] = "polling"
  /\ ctl = "unbind" => ~processingEnabled /\ workerCancels = <<>>

SInv == /\ CancelledPoll /\ OthersAreSlotted /\ PhasesAgree
        /\ SlotsMatchNames /\ DashboardIsRight

\* The entries of a sequence without repetitions are as many as its length.
LEMMA EntriesCount ==
  ASSUME NEW S, NEW s \in Seq(S), \A i, j \in 1 .. Len(s) : s[i] = s[j] => i = j
  PROVE  /\ IsFiniteSet({s[i] : i \in 1 .. Len(s)})
         /\ Cardinality({s[i] : i \in 1 .. Len(s)}) = Len(s)
<1> DEFINE R == {s[i] : i \in 1 .. Len(s)}
<1>1. Len(s) \in Nat /\ s \in [1 .. Len(s) -> R]
  OBVIOUS
<1>2. s \in Bijection(1 .. Len(s), R)
  BY <1>1 DEF Bijection, Injection, Surjection, IsInjective
<1>3. ExistsBijection(1 .. Len(s), R)
  BY <1>2 DEF ExistsBijection
<1> HIDE DEF R
<1>4. IsFiniteSet(R)
  BY <1>1, <1>3, FS_NatBijection
<1>5. Cardinality(R) = Len(s)
  BY <1>1, <1>3, FS_CountingElements
<1> QED
  BY <1>4, <1>5 DEF R

\* A pool has as many workers in its slots as it has slots.
LEMMA SlotsCount ==
  ASSUME IInv
  PROVE  IsFiniteSet(Slotted) /\ Cardinality(Slotted) = Len(workerCancels)
BY EntriesCount DEF IInv, TypeOK, SlotsOwnDistinctWorkers, Slotted, Slots

\* The same after a step.
LEMMA SlotsCountNext ==
  ASSUME IInv'
  PROVE  IsFiniteSet(Slotted') /\ Cardinality(Slotted') = Len(workerCancels')
BY EntriesCount DEF IInv, TypeOK, SlotsOwnDistinctWorkers, Slotted, Slots

LEMMA InitSInv == Init => SInv
<1> SUFFICES ASSUME Init PROVE SInv
  OBVIOUS
<1> PICK g \in Goroutine :
         /\ st = [h \in Goroutine |-> IF h = g THEN "polling" ELSE "dead"]
         /\ name = [h \in Goroutine |-> IF h = g THEN 1 ELSE 0]
         /\ workerCancels = <<g>>
  BY DEF Init
<1>1. Slots = {1} /\ Slotted = {g} /\ Live = {g} /\ Reviving = {}
  BY DEF Slots, Slotted, Live, Reviving, Running
<1>2. CancelledPoll /\ OthersAreSlotted /\ SlotsMatchNames
  BY <1>1 DEF Init, CancelledPoll, OthersAreSlotted, SlotsMatchNames
<1>3. PhasesAgree
  BY DEF Init, PhasesAgree
<1>4. DashboardIsRight
  <2>1. Slotted \cap Live = {g} /\ Cardinality({g}) = 1
    BY <1>1, FS_Singleton
  <2>2. Len(workerCancels) = 1
    OBVIOUS
  <2> QED
    BY <1>1, <2>1, <2>2 DEF Init, DashboardIsRight
<1> QED
  BY <1>2, <1>3, <1>4 DEF SInv

\* The steps of a worker that do not end it leave the workers alive and their
\* contexts alone; a disabled pool takes none of them.
LEMMA WorkerMovesSettled ==
  ASSUME IInv, SInv, NEW g \in Goroutine,
         \/ StartFetch(g) \/ FetchMessage(g) \/ FetchTimeout(g)
         \/ FetchError(g) \/ Rebind(g) \/ Finish(g)
  PROVE  SInv'
<1>1. PICK s \in Running : /\ st' = [st EXCEPT ![g] = s] /\ st[g] \in Running
                           /\ UNCHANGED <<name, cancelled, workerCancels, workers,
                                          statusVars, processingEnabled, ctl>>
  BY DEF StartFetch, FetchMessage, FetchTimeout, FetchError, Rebind, Finish, Goto, Running
<1>2. g \notin cancelled
  BY DEF StartFetch, FetchMessage, FetchTimeout, FetchError, Rebind, Finish, SInv, CancelledPoll
<1>3. ctl # "cancel"
  <2> SUFFICES ASSUME ctl = "cancel" PROVE FALSE
    OBVIOUS
  <2>1. st[g] = "polling" /\ ~processingEnabled
    BY <1>1 DEF SInv, PhasesAgree, Live
  <2> QED
    BY <2>1 DEF StartFetch, FetchMessage, FetchTimeout, FetchError, Rebind, Finish
<1>4. UNCHANGED <<Live, Reviving, Slotted, Slots>>
  BY <1>1 DEF Live, Reviving, Slotted, Slots, IInv, TypeOK, Running
<1>5. CancelledPoll'
  BY <1>1, <1>2 DEF SInv, CancelledPoll, IInv, TypeOK
<1>6. (OthersAreSlotted /\ SlotsMatchNames /\ DashboardIsRight)'
  BY <1>1, <1>4 DEF SInv, OthersAreSlotted, SlotsMatchNames, DashboardIsRight, statusVars
<1>7. PhasesAgree'
  BY <1>1, <1>3 DEF SInv, PhasesAgree
<1> QED
  BY <1>5, <1>6, <1>7 DEF SInv

\* Only a worker without a slot was cancelled: its end is not noticed.
LEMMA ObserveCancelSettled ==
  ASSUME IInv, SInv, NEW g \in Goroutine, ObserveCancel(g)
  PROVE  SInv'
<1>1. /\ st' = [st EXCEPT ![g] = "dead"] /\ st[g] = "polling" /\ g \in cancelled
      /\ name' = [name EXCEPT ![g] = 0] /\ cancelled' = cancelled \ {g}
      /\ UNCHANGED <<workerCancels, workers, statusVars, processingEnabled, ctl>>
  BY DEF ObserveCancel, End
<1>2. UNCHANGED <<Slots, Slotted>> /\ g \notin Slotted
  BY <1>1 DEF SInv, SlotsMatchNames, Slotted, Slots
<1>3. Live' = Live \ {g} /\ Reviving' = Reviving
  BY <1>1 DEF Live, Reviving, Running, IInv, TypeOK
<1>4. CancelledPoll'
  BY <1>1 DEF SInv, CancelledPoll, IInv, TypeOK
<1>5. OthersAreSlotted'
  BY <1>1, <1>2, <1>3 DEF SInv, OthersAreSlotted
<1>6. SlotsMatchNames'
  <2> SUFFICES ASSUME NEW i \in Slots
               PROVE  /\ workerCancels[i] \in (Live' \cup Reviving') \ cancelled'
                      /\ name'[workerCancels[i]] = i
    BY <1>1, <1>2 DEF SlotsMatchNames
  <2>1. workerCancels[i] \in (Live \cup Reviving) \ cancelled /\ name[workerCancels[i]] = i
    BY DEF SInv, SlotsMatchNames
  <2>2. workerCancels[i] \in Goroutine /\ workerCancels[i] # g
    BY <1>1, <2>1 DEF Live, Reviving
  <2> QED
    BY <1>1, <1>3, <2>1, <2>2 DEF IInv, TypeOK
<1>7. DashboardIsRight'
  <2>1. (Slotted \cap Live)' = Slotted \cap Live /\ (Slotted \subseteq Live)' = (Slotted \subseteq Live)
    BY <1>2, <1>3
  <2> QED
    BY <1>1, <2>1 DEF SInv, DashboardIsRight, statusVars
<1>8. PhasesAgree'
  BY <1>1, <1>3 DEF SInv, PhasesAgree
<1> QED
  BY <1>4, <1>5, <1>6, <1>7, <1>8 DEF SInv

\* A crashed worker was running and in its slot: the count it takes itself out
\* of is positive, and exactly one less than before is alive.
LEMMA CrashSettled ==
  ASSUME IInv, SInv, NEW g \in Goroutine, Crash(g)
  PROVE  SInv'
<1>1. /\ st' = [st EXCEPT ![g] = "reviving"] /\ st[g] = "busy" /\ g \in Live
      /\ name' = name /\ cancelled' = cancelled \ {g}
      /\ UNCHANGED <<workerCancels, workers, processingEnabled, ctl>>
  BY DEF Crash, End, Live, Running, IInv, TypeOK
<1>2. g \notin cancelled /\ cancelled' = cancelled
  BY <1>1 DEF SInv, CancelledPoll
<1>3. g \in Slotted
  BY <1>1, <1>2 DEF SInv, OthersAreSlotted
<1>4. UNCHANGED <<Slots, Slotted>>
  BY <1>1 DEF Slotted, Slots
<1>5. Live' = Live \ {g} /\ Reviving' = Reviving \cup {g}
  BY <1>1 DEF Live, Reviving, Running, IInv, TypeOK
<1>6. CancelledPoll'
  BY <1>1, <1>2 DEF SInv, CancelledPoll, IInv, TypeOK
<1>7. OthersAreSlotted'
  BY <1>2, <1>3, <1>4, <1>5 DEF SInv, OthersAreSlotted
<1>8. SlotsMatchNames'
  BY <1>1, <1>2, <1>4, <1>5 DEF SInv, SlotsMatchNames
<1>9. DashboardIsRight'
  <2>1. workerCancels # <<>>
    BY <1>3 DEF Slotted, Slots
  <2>2. /\ Len(workerCancels) = workers
        /\ activeGoroutines = Cardinality(Slotted \cap Live)
    BY <2>1 DEF SInv, DashboardIsRight
  <2>3. IsFiniteSet(Slotted \cap Live)
    <3>1. IsFiniteSet(Slotted) /\ Slotted \cap Live \in SUBSET Slotted
      BY SlotsCount
    <3> QED
      BY <3>1, FS_Subset
  <2>4. /\ (Slotted \cap Live)' = (Slotted \cap Live) \ {g}
        /\ g \in Slotted \cap Live
    BY <1>1, <1>3, <1>4, <1>5
  <2>5. /\ Cardinality((Slotted \cap Live)') = Cardinality(Slotted \cap Live) - 1
        /\ Cardinality(Slotted \cap Live) \in Nat
        /\ Cardinality((Slotted \cap Live)') \in Nat
    <3>1. /\ Cardinality((Slotted \cap Live) \ {g}) = Cardinality(Slotted \cap Live) - 1
          /\ IsFiniteSet((Slotted \cap Live) \ {g})
      BY <2>3, <2>4, FS_RemoveElement
    <3> QED
      BY <2>3, <2>4, <3>1, FS_CardinalityType
  <2>6. activeGoroutines' = Cardinality((Slotted \cap Live)')
    BY <2>2, <2>5 DEF Crash, CountOut
  <2>7. goroutineStatus' # "RUNNING" /\ ~(Slotted \subseteq Live)'
    BY <1>3, <1>4, <1>5 DEF Crash, CountOut
  <2> QED
    BY <1>1, <2>2, <2>6, <2>7 DEF DashboardIsRight
<1>10. PhasesAgree'
  <2>1. ctl # "cancel"
    BY <1>1 DEF SInv, PhasesAgree
  <2> QED
    BY <1>1, <2>1 DEF SInv, PhasesAgree
<1> QED
  BY <1>6, <1>7, <1>8, <1>9, <1>10 DEF SInv

\* A revival takes the slot its name points to, which still holds the crashed
\* worker: the pool keeps its size and one more of it is alive.
LEMMA RespawnSettled ==
  ASSUME IInv, SInv, NEW g \in Goroutine, Respawn(g)
  PROVE  SInv'
<1> PICK new \in Unused :
         /\ st' = [st EXCEPT ![g] = "dead", ![new] = "polling"]
         /\ name' = [name EXCEPT ![g] = 0, ![new] = name[g]]
         /\ Reinstate(name[g], new)
  BY DEF Respawn
<1> DEFINE n == name[g]
<1>1. /\ st[g] = "reviving" /\ g \in Reviving
      /\ new \in Goroutine /\ new # g /\ st[new] = "dead" /\ new \notin Slotted
      /\ UNCHANGED <<cancelled, workers, processingEnabled, ctl>>
  BY DEF Respawn, Unused, Reviving
<1>2. g \notin cancelled /\ new \notin cancelled
  BY <1>1 DEF SInv, CancelledPoll
<1>3. n \in Slots /\ workerCancels[n] = g
  <2>1. PICK i \in Slots : workerCancels[i] = g
    BY <1>1 DEF SInv, OthersAreSlotted, Slotted
  <2>2. name[g] = i
    BY <2>1 DEF SInv, SlotsMatchNames
  <2> QED
    BY <2>1, <2>2
<1>4. \A i \in Slots : workerCancels[i] = g => i = n
  BY <1>3 DEF IInv, SlotsOwnDistinctWorkers
<1>5. workerCancels' = [workerCancels EXCEPT ![n] = new]
  BY <1>3 DEF Reinstate
<1>6. /\ Len(workerCancels') = Len(workerCancels) /\ Slots' = Slots
      /\ \A i \in Slots : workerCancels'[i] = IF i = n THEN new ELSE workerCancels[i]
  BY <1>5, <1>3 DEF Slots, IInv, TypeOK
<1> HIDE DEF n
<1>7. Slotted' = (Slotted \ {g}) \cup {new}
  BY <1>3, <1>4, <1>6 DEF Slotted
<1>8. Live' = Live \cup {new} /\ Reviving' = Reviving \ {g} /\ g \notin Live
  BY <1>1 DEF Live, Reviving, Running, IInv, TypeOK
<1>9. CancelledPoll'
  BY <1>1, <1>2 DEF SInv, CancelledPoll, IInv, TypeOK
<1>10. OthersAreSlotted'
  BY <1>1, <1>7, <1>8 DEF SInv, OthersAreSlotted
<1>11. SlotsMatchNames'
  <2> SUFFICES ASSUME NEW i \in Slots
               PROVE  /\ workerCancels'[i] \in (Live' \cup Reviving') \ cancelled'
                      /\ name'[workerCancels'[i]] = i
    BY <1>6 DEF SlotsMatchNames
  <2>1. CASE i = n
    BY <1>1, <1>2, <1>6, <1>8, <2>1 DEF n, IInv, TypeOK
  <2>2. CASE i # n
    <3>1. /\ workerCancels[i] \in (Live \cup Reviving) \ cancelled
          /\ name[workerCancels[i]] = i
          /\ workerCancels[i] # g /\ workerCancels[i] # new
      BY <1>1, <1>4, <2>2 DEF SInv, SlotsMatchNames, Slotted
    <3>2. workerCancels[i] \in Goroutine
      BY <3>1 DEF Live, Reviving
    <3> QED
      BY <1>1, <1>6, <1>8, <2>2, <3>1, <3>2 DEF IInv, TypeOK
  <2> QED
    BY <2>1, <2>2
<1>12. DashboardIsRight'
  <2>1. workerCancels # <<>> /\ Len(workerCancels) = workers
        /\ activeGoroutines = Cardinality(Slotted \cap Live)
        /\ goroutineStatus # "RUNNING"
    <3>1. workerCancels # <<>> /\ ~(Slotted \subseteq Live)
      BY <1>3, <1>8 DEF Slotted, Slots
    <3> QED
      BY <3>1 DEF SInv, DashboardIsRight
  <2>2. IsFiniteSet(Slotted \cap Live) /\ Cardinality(Slotted \cap Live) \in Nat
    <3>1. IsFiniteSet(Slotted) /\ Slotted \cap Live \in SUBSET Slotted
      BY SlotsCount
    <3> QED
      BY <3>1, FS_Subset, FS_CardinalityType
  <2>3. (Slotted \cap Live)' = (Slotted \cap Live) \cup {new} /\ new \notin Slotted \cap Live
    BY <1>1, <1>7, <1>8
  <2>4. Cardinality((Slotted \cap Live)') = Cardinality(Slotted \cap Live) + 1
    BY <2>2, <2>3, FS_AddElement
  <2>5. activeGoroutines' = Cardinality((Slotted \cap Live)')
    BY <2>1, <2>4 DEF Respawn, CountIn
  <2>6. IInv'
    BY RespawnPreserves
  <2>7. activeGoroutines' <= Len(workerCancels')
        /\ (activeGoroutines' = Len(workerCancels') => (Slotted \subseteq Live)')
        /\ ((Slotted \subseteq Live)' => activeGoroutines' = Len(workerCancels'))
    <3>1. IsFiniteSet(Slotted') /\ Cardinality(Slotted') = Len(workerCancels')
      BY <2>6, SlotsCountNext
    <3>2. (Slotted \cap Live)' \in SUBSET Slotted'
      OBVIOUS
    <3>3. /\ Cardinality((Slotted \cap Live)') <= Cardinality(Slotted')
          /\ Cardinality(Slotted') = Cardinality((Slotted \cap Live)')
               => Slotted' = (Slotted \cap Live)'
      BY <3>1, <3>2, FS_Subset
    <3>4. (Slotted \subseteq Live)' <=> Slotted' = (Slotted \cap Live)'
      OBVIOUS
    <3> QED
      BY <2>5, <3>1, <3>3, <3>4
  <2>8. activeGoroutines' \in Nat /\ Len(workerCancels') \in Nat
    BY <2>6 DEF IInv, TypeOK
  <2>9. (goroutineStatus' = "RUNNING") <=> activeGoroutines' >= Len(workerCancels')
    BY <1>6, <2>1 DEF Respawn, CountIn
  <2>10. (goroutineStatus' = "RUNNING") = (Slotted \subseteq Live)'
    BY <2>7, <2>8, <2>9
  <2> QED
    BY <1>1, <1>6, <2>1, <2>5, <2>10 DEF DashboardIsRight
<1>13. PhasesAgree'
  <2>1. ctl # "cancel" /\ workerCancels # <<>> /\ workerCancels' # <<>>
    BY <1>1, <1>3, <1>6 DEF SInv, PhasesAgree, Slots, IInv, TypeOK
  <2> QED
    BY <1>1, <2>1 DEF SInv, PhasesAgree
<1> QED
  BY <1>9, <1>10, <1>11, <1>12, <1>13 DEF SInv

\* On a settled pool every slot holds a live worker that polls, and it is
\* enabled while it has slots.
LEMMA SettledSlots ==
  ASSUME IInv, SInv, Settled
  PROVE  /\ Reviving = {} /\ Slotted \subseteq Live
         /\ \A g \in Goroutine : st[g] \in {"polling", "dead"}
         /\ \A g \in Live : st[g] = "polling"
         /\ Live \ cancelled \subseteq Slotted
<1>1. Reviving = {} /\ \A g \in Live : st[g] = "polling"
  BY DEF Settled
<1>2. Slotted \subseteq Live
  BY <1>1 DEF SInv, SlotsMatchNames, Slotted
<1>3. \A g \in Goroutine : st[g] \in {"polling", "dead"}
  BY <1>1 DEF Live, Reviving, IInv, TypeOK, State
<1>4. Live \ cancelled \subseteq Slotted
  BY DEF SInv, OthersAreSlotted
<1> QED
  BY <1>1, <1>2, <1>3, <1>4

\* A pool whose n slots all hold live workers has n of them alive.
LEMMA AllRunningIsRight ==
  ASSUME IInv', Slotted' \subseteq Live', NEW n \in Nat, AllRunning(n),
         workers' = n, Len(workerCancels') = n
  PROVE  DashboardIsRight'
<1>1. Cardinality(Slotted') = n /\ (Slotted \cap Live)' = Slotted'
  BY SlotsCountNext
<1> QED
  BY <1>1 DEF DashboardIsRight, AllRunning

\* A new goroutine polls under its name, the others are as before.
LEMMA SpawnedRun ==
  ASSUME IInv, NEW n \in Nat, NEW base \in Nat, NEW ids \in Fresh(n), Spawn(ids, base)
  PROVE  /\ \A i \in 1 .. n : /\ ids[i] \in Goroutine /\ st[ids[i]] = "dead"
                              /\ ids[i] \notin Slotted
                              /\ st'[ids[i]] = "polling" /\ name'[ids[i]] = base + i
         /\ \A g \in Goroutine : (\A i \in 1 .. n : ids[i] # g) =>
               st'[g] = st[g] /\ name'[g] = name[g]
         /\ Live' = Live \cup {ids[i] : i \in 1 .. n}
         /\ Reviving' = Reviving
<1>1. /\ ids \in [1 .. n -> Unused] /\ DOMAIN ids = 1 .. n
      /\ \A i, j \in 1 .. n : ids[i] = ids[j] => i = j
  BY DEF Fresh
<1>2. \A i \in 1 .. n : ids[i] \in Goroutine /\ st[ids[i]] = "dead" /\ ids[i] \notin Slotted
  BY <1>1 DEF Unused
<1>3. ASSUME NEW i \in 1 .. n
      PROVE  st'[ids[i]] = "polling" /\ name'[ids[i]] = base + i
  <2>1. (CHOOSE j \in 1 .. n : ids[j] = ids[i]) = i
    BY <1>1
  <2> QED
    BY <1>1, <1>2, <2>1 DEF Spawn
<1>4. \A g \in Goroutine : (\A i \in 1 .. n : ids[i] # g) => st'[g] = st[g] /\ name'[g] = name[g]
  BY <1>1 DEF Spawn
<1>5. Live' = Live \cup {ids[i] : i \in 1 .. n}
  BY <1>2, <1>3, <1>4 DEF Live, Running
<1>6. Reviving' = Reviving
  BY <1>2, <1>3, <1>4 DEF Reviving
<1> QED
  BY <1>2, <1>3, <1>4, <1>5, <1>6

\* A settled pool scaled up keeps its workers and gets live ones behind them.
LEMMA ScaleUpSettled ==
  ASSUME IInv, SInv, Settled, processingEnabled, workerCancels # <<>>,
         NEW n \in Name, ScaleWorkers(n), ScaleUp(n)
  PROVE  SInv'
<1> DEFINE len == Len(workerCancels)
           add == n - len
<1>1. len \in Nat /\ n \in Nat /\ n > len /\ add \in Nat /\ workerCancels \in Seq(Goroutine)
  BY DEF ScaleUp, Name, IInv, TypeOK
<1> PICK ids \in Fresh(add) : Spawn(ids, len) /\ workerCancels' = workerCancels \o ids
  BY DEF ScaleUp
<1>2. /\ Reviving = {} /\ Slotted \subseteq Live
      /\ \A g \in Live : st[g] = "polling"
      /\ Live \ cancelled \subseteq Slotted
  BY SettledSlots
<1>3. /\ \A i \in 1 .. add : /\ ids[i] \in Goroutine /\ st[ids[i]] = "dead"
                             /\ ids[i] \notin Slotted
                             /\ st'[ids[i]] = "polling" /\ name'[ids[i]] = len + i
      /\ \A g \in Goroutine : (\A i \in 1 .. add : ids[i] # g) =>
               st'[g] = st[g] /\ name'[g] = name[g]
      /\ Live' = Live \cup {ids[i] : i \in 1 .. add}
      /\ Reviving' = {}
  BY <1>1, <1>2, SpawnedRun
<1>4. Len(workerCancels') = n
      /\ \A k \in 1 .. n : workerCancels'[k] = IF k <= len THEN workerCancels[k] ELSE ids[k - len]
  <2>1. ids \in [1 .. add -> Goroutine]
    BY DEF Fresh, Unused
  <2>2. ids \in Seq(Goroutine) /\ Len(ids) = add
    BY <1>1, <2>1, FunctionIsSeq
  <2> QED
    BY <1>1, <2>2
<1>5. UNCHANGED <<cancelled, processingEnabled, ctl>>
  BY DEF ScaleUp, ScaleWorkers
<1> HIDE DEF add
<1>6. /\ \A i \in 1 .. len : workerCancels[i] \in Live \ cancelled /\ name[workerCancels[i]] = i
      /\ \A i \in 1 .. len : workerCancels[i] \in Slotted
  BY <1>2 DEF SInv, SlotsMatchNames, Slots, Slotted
<1>7. \A k \in 1 .. n : k > len => k - len \in 1 .. add
  BY <1>1 DEF add
<1>8. SlotsMatchNames'
  <2> SUFFICES ASSUME NEW k \in 1 .. n
               PROVE  workerCancels'[k] \in Live' \ cancelled' /\ name'[workerCancels'[k]] = k
    BY <1>3, <1>4 DEF SlotsMatchNames, Slots
  <2> k \in Nat /\ len \in Nat
    BY <1>1
  <2> HIDE DEF len
  <2>1. CASE k <= len
    <3>1. k \in 1 .. len /\ workerCancels'[k] = workerCancels[k] /\ workerCancels[k] \in Goroutine
      BY <1>1, <1>4, <2>1 DEF len
    <3>2. \A i \in 1 .. add : ids[i] # workerCancels[k]
      BY <1>3, <1>6, <3>1
    <3> QED
      BY <1>3, <1>5, <1>6, <3>1, <3>2
  <2>2. CASE k > len
    <3> DEFINE i == k - len
    <3>1. len + i = k
      OBVIOUS
    <3>2. i \in 1 .. add /\ workerCancels'[k] = ids[i]
      BY <1>4, <1>7, <2>2
    <3> HIDE DEF i
    <3>3. ids[i] \notin cancelled
      BY <1>3, <3>2 DEF SInv, CancelledPoll
    <3> QED
      BY <1>3, <1>5, <3>1, <3>2, <3>3
  <2>3. k <= len \/ k > len
    OBVIOUS
  <2> QED
    BY <2>1, <2>2, <2>3
<1>9. Slotted' = Slotted \cup {ids[i] : i \in 1 .. add}
  <2>1. \A k \in 1 .. len : k \in 1 .. n /\ workerCancels'[k] = workerCancels[k]
    BY <1>1, <1>4
  <2>2. \A i \in 1 .. add : len + i \in 1 .. n /\ workerCancels'[len + i] = ids[i]
    BY <1>1, <1>4 DEF add
  <2>3. \A k \in 1 .. n : \/ k \in 1 .. len /\ workerCancels'[k] = workerCancels[k]
                          \/ k - len \in 1 .. add /\ workerCancels'[k] = ids[k - len]
    BY <1>1, <1>4, <1>7
  <2>4. Slots' = 1 .. n /\ Slots = 1 .. len
    BY <1>4 DEF Slots
  <2> HIDE DEF len
  <2>5. Slotted = {workerCancels[k] : k \in 1 .. len} /\ Slotted' = {workerCancels'[k] : k \in 1 .. n}
    BY <2>4 DEF Slotted
  <2>6. Slotted' \subseteq Slotted \cup {ids[i] : i \in 1 .. add}
    BY <2>3, <2>5
  <2>7. Slotted \cup {ids[i] : i \in 1 .. add} \subseteq Slotted'
    BY <2>1, <2>2, <2>5
  <2> QED
    BY <2>6, <2>7
<1>10. OthersAreSlotted'
  BY <1>2, <1>3, <1>5, <1>9 DEF OthersAreSlotted
<1>11. CancelledPoll'
  BY <1>3, <1>5 DEF SInv, CancelledPoll, IInv, TypeOK
<1>12. DashboardIsRight'
  <2>1. IInv'
    BY ScaleWorkersPreserves
  <2>2. Slotted' \subseteq Live'
    BY <1>2, <1>3, <1>9
  <2>3. workers' = n /\ AllRunning(n)
    BY DEF ScaleWorkers
  <2> QED
    BY <1>1, <1>4, <2>1, <2>2, <2>3, AllRunningIsRight
<1>13. PhasesAgree'
  <2>1. workerCancels' # <<>>
    BY <1>1, <1>4
  <2> QED
    BY <1>5, <2>1 DEF Settled, PhasesAgree
<1> QED
  BY <1>8, <1>10, <1>11, <1>12, <1>13 DEF SInv

\* A settled pool scaled down cancels workers that poll, and only those that
\* lose their slot.
LEMMA ScaleDownSettled ==
  ASSUME IInv, SInv, Settled, processingEnabled, workerCancels # <<>>,
         NEW n \in Name, ScaleWorkers(n), ScaleDown(n)
  PROVE  SInv'
<1> DEFINE len == Len(workerCancels)
           Cut == {workerCancels[i] : i \in (n + 1) .. len}
<1>1. len \in Nat /\ n \in Nat /\ n >= 1 /\ n <= len /\ workerCancels \in Seq(Goroutine)
  BY DEF ScaleDown, Name, IInv, TypeOK
<1>2. /\ Reviving = {} /\ Slotted \subseteq Live
      /\ \A g \in Live : st[g] = "polling"
      /\ Live \ cancelled \subseteq Slotted
  BY SettledSlots
<1>3. /\ Len(workerCancels') = n
      /\ \A i \in 1 .. n : workerCancels'[i] = workerCancels[i]
  BY <1>1 DEF ScaleDown
<1>4. cancelled' = cancelled \cup (Cut \cap Live)
      /\ UNCHANGED <<st, name, processingEnabled, ctl>>
  BY DEF ScaleDown, ScaleWorkers, Cancel
<1>5. UNCHANGED <<Live, Reviving>>
  BY <1>4 DEF Live, Reviving
<1>6. \A i \in 1 .. n : workerCancels[i] \notin Cut
  <2> SUFFICES ASSUME NEW i \in 1 .. n, NEW j \in (n + 1) .. len, workerCancels[i] = workerCancels[j]
               PROVE  FALSE
    OBVIOUS
  <2>1. i \in Slots /\ j \in Slots
    BY <1>1 DEF Slots
  <2>2. i = j
    BY <2>1 DEF IInv, SlotsOwnDistinctWorkers
  <2> QED
    BY <1>1, <2>2
<1>7. \A i \in 1 .. n : i \in Slots /\ i \in 1 .. len
  BY <1>1 DEF Slots
<1>8. SlotsMatchNames'
  BY <1>3, <1>4, <1>5, <1>6, <1>7 DEF SInv, SlotsMatchNames, Slots
<1>9. Slotted' = {workerCancels[i] : i \in 1 .. n} /\ Slotted = Slotted' \cup Cut
  <2>1. Slots' = 1 .. n /\ Slots = (1 .. n) \cup ((n + 1) .. len)
    BY <1>1, <1>3 DEF Slots
  <2>2. Slotted' = {workerCancels[i] : i \in 1 .. n}
    BY <1>3, <2>1 DEF Slotted
  <2>3. Slotted = {workerCancels[i] : i \in 1 .. n} \cup Cut
    BY <2>1 DEF Slotted
  <2> QED
    BY <2>2, <2>3
<1> HIDE DEF Cut
<1>10. OthersAreSlotted'
  BY <1>2, <1>4, <1>5, <1>9 DEF OthersAreSlotted
<1>11. CancelledPoll'
  BY <1>2, <1>4 DEF SInv, CancelledPoll
<1>12. DashboardIsRight'
  <2>1. IInv'
    BY ScaleWorkersPreserves
  <2>2. Slotted' \subseteq Live'
    BY <1>2, <1>5, <1>9
  <2>3. workers' = n /\ AllRunning(n)
    BY DEF ScaleWorkers
  <2> QED
    BY <1>1, <1>3, <2>1, <2>2, <2>3, AllRunningIsRight
<1>13. PhasesAgree'
  <2>1. workerCancels' # <<>>
    BY <1>1, <1>3
  <2> QED
    BY <1>4, <2>1 DEF Settled, PhasesAgree
<1> QED
  BY <1>8, <1>10, <1>11, <1>12, <1>13 DEF SInv

\* A rebuild finds an empty pool whose last workers are stopping.
LEMMA StartWorkersSettled ==
  ASSUME IInv, SInv, startWorkers
  PROVE  SInv'
<1> PICK ids \in Fresh(workers) : Spawn(ids, 0) /\ workerCancels' = ids
  BY DEF startWorkers
<1>1. workers \in Nat /\ workers >= 1 /\ 0 \in Nat
  BY DEF IInv, TypeOK, Name
<1>2. processingEnabled /\ workerCancels = <<>> /\ Slots = {} /\ Slotted = {}
  BY DEF startWorkers, SInv, PhasesAgree, Slots, Slotted
<1>3. /\ \A i \in 1 .. workers : /\ ids[i] \in Goroutine /\ st[ids[i]] = "dead"
                                 /\ st'[ids[i]] = "polling" /\ name'[ids[i]] = 0 + i
      /\ \A g \in Goroutine : (\A i \in 1 .. workers : ids[i] # g) =>
               st'[g] = st[g] /\ name'[g] = name[g]
      /\ Live' = Live \cup {ids[i] : i \in 1 .. workers}
      /\ Reviving' = Reviving
  BY <1>1, SpawnedRun
<1>4. ids \in [1 .. workers -> Goroutine] /\ Len(ids) = workers
  <2>1. ids \in [1 .. workers -> Goroutine]
    BY DEF Fresh, Unused
  <2> QED
    BY <1>1, <2>1, FunctionIsSeq
<1>5. Slots' = 1 .. workers /\ Slotted' = {ids[i] : i \in 1 .. workers}
  BY <1>4 DEF Slots, Slotted
<1>6. cancelled' = cancelled
      /\ workers' = workers /\ AllRunning(workers) /\ ctl' = "idle"
      /\ processingEnabled' = processingEnabled
  BY <1>2 DEF startWorkers, Cancel
<1>7. \A i \in 1 .. workers : ids[i] \notin cancelled
  BY <1>3 DEF SInv, CancelledPoll
<1>8. Live \subseteq cancelled /\ Reviving = {}
  BY <1>2 DEF SInv, OthersAreSlotted
<1>9. OthersAreSlotted'
  BY <1>3, <1>5, <1>6, <1>8 DEF OthersAreSlotted
<1>10. CancelledPoll'
  BY <1>3, <1>6, <1>7 DEF SInv, CancelledPoll, IInv, TypeOK
<1>11. SlotsMatchNames'
  <2>1. \A i \in 1 .. workers : 0 + i = i
    OBVIOUS
  <2> QED
    BY <1>3, <1>5, <1>6, <1>7, <2>1 DEF SlotsMatchNames
<1>12. DashboardIsRight'
  <2>1. IInv' /\ Slotted' \subseteq Live' /\ Len(workerCancels') = workers
    BY <1>3, <1>4, <1>5, StartWorkersPreserves
  <2> QED
    BY <1>1, <1>6, <2>1, AllRunningIsRight
<1>13. PhasesAgree'
  <2>1. workerCancels' # <<>>
    BY <1>1, <1>4
  <2> QED
    BY <1>2, <1>6, <2>1 DEF PhasesAgree
<1> QED
  BY <1>9, <1>10, <1>11, <1>12, <1>13 DEF SInv

\* The toggle moves on a settled pool only; a stop cancels workers that poll.
LEMMA ControlSettled ==
  ASSUME IInv, SInv,
         \/ Settled /\ processingEnabled /\ StateSet(FALSE)
         \/ Settled /\ ~processingEnabled /\ StateSet(TRUE)
         \/ StateSetBind \/ StateSetCancel \/ unsubscribeJetStream
  PROVE  SInv'
<1>1. CASE StateSetCancel
  <2>1. /\ workerCancels' = <<>> /\ ctl' = "unbind"
        /\ cancelled' = cancelled \cup (Slotted \cap Live)
        /\ UNCHANGED <<st, name, processingEnabled>>
    BY <1>1 DEF StateSetCancel, Cancel
  <2>2. ~processingEnabled /\ Reviving = {} /\ \A g \in Live : st[g] = "polling"
    BY <1>1 DEF StateSetCancel, SInv, PhasesAgree
  <2>3. Slots' = {} /\ UNCHANGED <<Live, Reviving>>
    BY <2>1 DEF Slots, Live, Reviving
  <2>4. (SlotsMatchNames /\ DashboardIsRight)'
    BY <2>1, <2>3 DEF SlotsMatchNames, DashboardIsRight
  <2>5. CancelledPoll'
    BY <2>1, <2>2 DEF SInv, CancelledPoll
  <2>6. OthersAreSlotted'
    BY <2>1, <2>2, <2>3 DEF SInv, OthersAreSlotted
  <2>7. PhasesAgree'
    BY <2>1, <2>2 DEF PhasesAgree
  <2> QED
    BY <2>4, <2>5, <2>6, <2>7 DEF SInv
<1>2. CASE ~StateSetCancel
  <2>1. UNCHANGED <<poolVars, workers, statusVars>>
    BY <1>2 DEF StateSet, StateSetBind, unsubscribeJetStream
  <2>2. UNCHANGED <<Live, Reviving, Slots, Slotted>>
    BY <2>1 DEF poolVars, Live, Reviving, Slots, Slotted
  <2>3. (CancelledPoll /\ OthersAreSlotted /\ SlotsMatchNames /\ DashboardIsRight)'
    BY <2>1, <2>2
    DEF SInv, CancelledPoll, OthersAreSlotted, SlotsMatchNames, DashboardIsRight,
        poolVars, statusVars
  <2>4. PhasesAgree'
    BY <1>2, <2>1, <2>2
    DEF StateSet, StateSetBind, unsubscribeJetStream, Settled, SInv, PhasesAgree, poolVars
  <2> QED
    BY <2>3, <2>4 DEF SInv
<1> QED
  BY <1>1, <1>2

LEMMA SettledNextInv == IInv /\ SInv /\ [SettledNext]_vars => (IInv /\ SInv)'
<1> SUFFICES ASSUME IInv, SInv, [SettledNext]_vars PROVE IInv' /\ SInv'
  OBVIOUS
<1>1. ASSUME NEW g \in Goroutine, Worker(g) PROVE IInv' /\ SInv'
  BY <1>1, WorkerMoves, WorkerEnds, WorkerMovesSettled, ObserveCancelSettled, CrashSettled
  DEF Worker
<1>2. ASSUME NEW g \in Goroutine, Respawn(g) PROVE IInv' /\ SInv'
  BY <1>2, RespawnPreserves, RespawnSettled
<1>3. ASSUME Responder PROVE IInv' /\ SInv'
  BY <1>3, StartWorkersPreserves, ControlPreserves, StartWorkersSettled, ControlSettled
  DEF Responder
<1>4. ASSUME SettledOperator PROVE IInv' /\ SInv'
  <2>1. CASE /\ Settled /\ processingEnabled /\ workerCancels # <<>>
             /\ \E n \in Name : ScaleWorkers(n)
    BY <2>1, ScaleWorkersPreserves, ScaleUpSettled, ScaleDownSettled DEF ScaleWorkers
  <2>2. CASE \/ Settled /\ processingEnabled /\ StateSet(FALSE)
             \/ Settled /\ ~processingEnabled /\ StateSet(TRUE)
    BY <2>2, ControlPreserves, ControlSettled
  <2> QED
    BY <1>4, <2>1, <2>2 DEF SettledOperator
<1>5. ASSUME UNCHANGED vars PROVE IInv' /\ SInv'
  <2>1. IInv'
    BY <1>5, NextIInv
  <2>2. UNCHANGED <<Live, Reviving, Slots, Slotted>>
    BY <1>5 DEF vars, Live, Reviving, Slots, Slotted
  <2>3. SInv'
    BY <1>5, <2>2
    DEF vars, SInv, CancelledPoll, OthersAreSlotted, PhasesAgree, SlotsMatchNames,
        DashboardIsRight
  <2> QED
    BY <2>1, <2>3
<1> QED
  BY <1>1, <1>2, <1>3, <1>4, <1>5 DEF SettledNext, Internal

\* Slot i belongs to processor-i, running or about to return: no crash, scaling
\* or rebuild of a settled pool costs it a worker (worker.go ScaleWorkers,
\* startWorkers, supervisor).
THEOREM SlotsStayNamed == SettledSpec => []SlotsMatchNames
<1>1. Init => IInv /\ SInv
  BY InitIInv, InitSInv
<1>2. IInv /\ SInv => SlotsMatchNames
  BY DEF SInv
<1> QED
  BY <1>1, <1>2, SettledNextInv, PTL DEF SettledSpec

\* A worker that nobody told to stop can be told to: its cancel function is in a
\* slot of a pool that is only operated when settled (worker.go workerCancels).
THEOREM NoWorkerIsOrphaned == SettledSpec => []NoOrphan
<1>1. Init => IInv /\ SInv
  BY InitIInv, InitSInv
<1>2. IInv /\ SInv => NoOrphan
  BY DEF SInv, OthersAreSlotted, NoOrphan
<1> QED
  BY <1>1, <1>2, SettledNextInv, PTL DEF SettledSpec

\* The size, the count and the status shown for a pool that is up are those of
\* its workers, through every crash and revival (worker.go supervisor,
\* http_server.go /processor/status).
THEOREM DashboardStaysRight == SettledSpec => []DashboardIsRight
<1>1. Init => IInv /\ SInv
  BY InitIInv, InitSInv
<1>2. IInv /\ SInv => DashboardIsRight
  BY DEF SInv
<1> QED
  BY <1>1, <1>2, SettledNextInv, PTL DEF SettledSpec

=============================================================================

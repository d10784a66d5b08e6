---------------------------- MODULE JobContract ----------------------------
(***************************************************************************)
(* What the JetStream path promises a submitted job: from its submission   *)
(* until exactly one final outcome, which never changes, the job is owed   *)
(* to its submitter.  A job whose outcome is "dropped" left the stream     *)
(* without having been executed, terminated, discarded or dead-lettered.   *)
(***************************************************************************)
CONSTANT Msg

VARIABLE outcome   \* job message -> "absent", "owed" or its final outcome

Final == {"executed", "deadlettered", "terminated", "discarded", "dropped"}

Init == outcome = [m \in Msg |-> "absent"]

Submit(m) ==
  /\ outcome[m] = "absent"
  /\ outcome' = [outcome EXCEPT ![m] = "owed"]

Resolve(m) ==
  /\ outcome[m] = "owed"
  /\ \E o \in Final : outcome' = [outcome EXCEPT ![m] = o]

Next == \E m \in Msg : Submit(m) \/ Resolve(m)

Safety == Init /\ [][Next]_outcome

\* Every submitted job is resolved.
Liveness == \A m \in Msg : WF_outcome(Resolve(m))

Spec == Safety /\ Liveness

=============================================================================

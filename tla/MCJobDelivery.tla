--------------------------- MODULE MCJobDelivery ---------------------------
(* JobDelivery on one or two messages and two workers, for TLC. *)
EXTENDS JobDelivery

Job(s, n) == [scenario |-> s, fails |-> n, valid |-> TRUE]
NotForUs == [scenario |-> "", fails |-> 0, valid |-> FALSE]

\* A plain job, one that fails once and one that fails as often as it is tried,
\* and a message for Core NATS.
Jobs == {Job("", 0), Job("", 1), Job("", Cap), NotForUs}

\* The same jobs, and one that brings its own scenario.
Mixed == (Jobs \ {NotForUs}) \cup {Job("exceed_ack_wait", 1)}

\* What the operator arms: everything, or crashes.
Lab == Scenario
Crashes == {"crash_before_ack"}

=============================================================================

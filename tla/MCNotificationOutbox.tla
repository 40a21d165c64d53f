-------------------------- MODULE MCNotificationOutbox --------------------------
(* Bounds for model checking NotificationOutbox. *)
EXTENDS NotificationOutbox, TLC

\* Rows, replicas and operators are interchangeable; used where no liveness
\* property is checked.
Symmetry ==
  Permutations(Rows) \cup Permutations(Replicas) \cup Permutations(Admins)

=============================================================================

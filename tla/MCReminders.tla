------------------------------- MODULE MCReminders -------------------------------
(* Bounds for model checking Reminders: two replicas and a user's request over  *)
(* two contracts, so that runs follow and overlap each other.                   *)
EXTENDS Reminders, TLC

\* Contracts and replicas are interchangeable; no liveness is checked.
Symmetry == Permutations(Contracts) \cup Permutations(Schedulers)

=============================================================================

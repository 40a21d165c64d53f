---------------------------- MODULE MCWebhookIntake ----------------------------
(* Bounds for model checking WebhookIntake. *)
EXTENDS WebhookIntake, TLC

\* Messages and requests are interchangeable; used where no liveness property
\* is checked.
Symmetry == Permutations(Messages) \cup Permutations(Handlers)

=============================================================================

----------------------------- MODULE MCPaymentLedger -----------------------------
(* Bounds for model checking PaymentLedger. *)
EXTENDS PaymentLedger, TLC

CONSTANTS c1, c2

TwoContracts == <<c1, c2>>
OneContract  == <<c1>>

\* Three units settle c1 and two settle c2. With a daily amount of two, four is split
\* over both, three does not divide, and either overpays a contract referred to.
Totals == [c \in Contracts |-> IF c = c1 THEN 3 ELSE 2]
Dailies == [c \in Contracts |-> 2]

\* Runs and reviewers are interchangeable; no liveness property is checked.
Symmetry == Permutations(Runs) \cup Permutations(Reviewers)

=============================================================================

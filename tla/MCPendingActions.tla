---------------------------- MODULE MCPendingActions ----------------------------
(* Bounds for model checking PendingActions: two proposals, two users and two  *)
(* requests that take turns, so that answers overlap, repeat and come late.    *)
EXTENDS PendingActions, TLC

=============================================================================

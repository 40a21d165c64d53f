------------------------------ MODULE OutboxPromise ------------------------------
(***************************************************************************)
(* What the notification outbox owes the rest of the system, with nothing  *)
(* about workers, locks or retries: a message handed in is owed until it is *)
(* done or given up on, it is done only once the provider has taken it, and *)
(* only an operator reopens or drops one that was given up.                *)
(***************************************************************************)
EXTENDS Naturals

CONSTANT Messages

VARIABLES
  phase,      \* where the message stands
  delivered   \* how many times the provider has taken it

vars == <<phase, delivered>>

Phases == {"none", "owed", "done", "dead", "dropped"}

Init ==
  /\ phase     = [m \in Messages |-> "none"]
  /\ delivered = [m \in Messages |-> 0]

Move(m, from, to) == phase[m] = from /\ phase' = [phase EXCEPT ![m] = to]

Submit(m)  == Move(m, "none", "owed") /\ UNCHANGED delivered

\* At least once: a message may be delivered again while it is owed.
Deliver(m) ==
  /\ phase[m] = "owed"
  /\ delivered' = [delivered EXCEPT ![m] = @ + 1]
  /\ UNCHANGED phase

Settle(m)  == delivered[m] > 0 /\ Move(m, "owed", "done") /\ UNCHANGED delivered
GiveUp(m)  == Move(m, "owed", "dead") /\ UNCHANGED delivered
Reopen(m)  == Move(m, "dead", "owed") /\ UNCHANGED delivered
Drop(m)    == Move(m, "dead", "dropped") /\ UNCHANGED delivered

Next ==
  \E m \in Messages :
     \/ Submit(m) \/ Deliver(m) \/ Settle(m)
     \/ GiveUp(m) \/ Reopen(m) \/ Drop(m)

Spec == Init /\ [][Next]_vars

\* An owed message does not stay owed.
FairSpec == Spec /\ \A m \in Messages : WF_vars(Settle(m) \/ GiveUp(m))

=============================================================================

----------------------------- MODULE AllocationRules -----------------------------
(***************************************************************************)
(* What PaymentAllocationService promises, without its loop: how much of a *)
(* payment each contract of a customer gets. Amounts are cents; contracts  *)
(* come in the order the query returned them; owed is the remaining amount *)
(* of each and daily its daily_amount.                                     *)
(***************************************************************************)
EXTENDS Lists, FiniteSetsExt

\* max(total_amount - paid, 0)
Floored(total, paid) == IF paid < total THEN total - paid ELSE 0

\* Numeric(10, 2): what the database keeps of an amount entered in tenths of a
\* cent (schemas ask for more than zero before this, never after).
Stored(tenths) == (tenths + 5) \div 10

\* Contracts that still owe money, in order.
Eligible(order, owed) == Kept(order, {i \in DOMAIN order : owed[order[i]] > 0})

\* Of a list of shares, those that are not empty.
NotEmpty(list) == Kept(list, {i \in DOMAIN list : list[i].amount > 0})

Lesser(x, y) == IF x < y THEN x ELSE y

\* Money handed out before the turn of the i-th contract in round k, when the
\* j-th contract of the list gets units[j] daily units in all.
GivenBefore(units, list, daily, i, k) ==
  MapThenSumSet(LAMBDA j : Lesser(units[j], IF j < i THEN k ELSE k - 1) * daily[list[j]],
                DOMAIN list)

\* The contracts take turns, in order; each takes one daily unit a round as long
\* as what is left reaches for it.
InTurns(units, amount, list, daily) ==
  \A i \in DOMAIN list, k \in 1..(amount + 1) :
    (k <= units[i]) <=> (GivenBefore(units, list, daily, i, k) + daily[list[i]] <= amount)

\* The turns come to an end: they would not with a daily amount of nothing.
TurnsEnd(amount, list, daily) ==
  \E units \in [DOMAIN list -> 0..amount] : InTurns(units, amount, list, daily)

UnitsFor(amount, list, daily) ==
  CHOOSE units \in [DOMAIN list -> 0..amount] : InTurns(units, amount, list, daily)

NeedsApproval == [allocations |-> <<>>, requires_approval |-> TRUE]

Allocated(list) == [allocations |-> list, requires_approval |-> FALSE]

Single(c, amount) == Allocated(<<[contract |-> c, amount |-> amount]>>)

\* The split over two or more contracts: only when the turns use up the amount.
InTurnsOrApproval(amount, list, daily) ==
  LET units == UnitsFor(amount, list, daily)
      share == [i \in DOMAIN list |->
                  [contract |-> list[i], amount |-> units[i] * daily[list[i]]]]
  IN IF MapThenSumSet(LAMBDA i : share[i].amount, DOMAIN list) = amount
     THEN Allocated(NotEmpty(share))
     ELSE NeedsApproval

\* PaymentAllocationService.allocate without an explicit reference.
AllocateOver(amount, list, daily) ==
  IF list = <<>> THEN NeedsApproval
  ELSE IF Len(list) = 1 THEN Single(list[1], amount)
  ELSE InTurnsOrApproval(amount, list, daily)

\* Whether it returns at all.
AllocationEnds(amount, list, daily) == Len(list) > 1 => TurnsEnd(amount, list, daily)

=============================================================================

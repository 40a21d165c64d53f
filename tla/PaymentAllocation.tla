---------------------------- MODULE PaymentAllocation ----------------------------
(***************************************************************************)
(* services/payment_allocation_service.allocate, step by step: the rules   *)
(* in their order, then the round-robin loop with one step per turn. What  *)
(* the loop computes is stated without a loop in AllocationRules.          *)
(*                                                                         *)
(* A contract's daily amount is entered in tenths of a cent here, so that  *)
(* the rounding of Numeric(10, 2) between ContractCreate and the loop is   *)
(* part of the model.                                                      *)
(***************************************************************************)
EXTENDS AllocationRules

CONSTANTS
  Order,     \* the customer's contracts, as the query returns them
  NoRef,     \* resolved_contract_id is None
  Amounts,   \* amounts a message may name, in cents; 0 for None or not positive
  Owed,      \* remaining amounts a contract may have
  Entered    \* daily amounts ContractCreate accepts, in tenths of a cent

Contracts == {Order[i] : i \in DOMAIN Order}

ASSUME AllocationAssumption ==
  /\ Order \in Seq(Contracts)
  /\ \A i, j \in DOMAIN Order : Order[i] = Order[j] => i = j
  /\ NoRef \notin Contracts
  /\ Amounts \subseteq Nat /\ Owed \subseteq Nat
  /\ Entered \subseteq Nat \ {0}

VARIABLES
  \* the inputs
  amount, resolved, owed, daily,
  pc,          \* "rules", "turns", "done"
  eligible,    \* contracts the loop goes round
  turn,        \* position in that list
  left,        \* `remaining` of the loop
  totals,      \* units given so far, as money
  progressed,  \* the pass gave something
  result

inputs == <<amount, resolved, owed, daily>>
vars   == <<inputs, pc, eligible, turn, left, totals, progressed, result>>

Shares  == [contract : Contracts, amount : Nat]
Nothing == [allocations |-> <<>>, requires_approval |-> FALSE]

TypeOK ==
  /\ amount \in Amounts
  /\ resolved \in Contracts \cup {NoRef}
  /\ owed \in [Contracts -> Owed]
  /\ daily \in [Contracts -> Nat]
  /\ pc \in {"rules", "turns", "done"}
  /\ eligible \in Seq(Contracts)
  /\ turn \in 1..(Len(eligible) + 1)
  /\ left \in 0..amount
  /\ totals \in [Contracts -> Nat]
  /\ progressed \in BOOLEAN
  /\ result.allocations \in Seq(Shares) /\ result.requires_approval \in BOOLEAN

Init ==
  /\ amount \in Amounts
  /\ resolved \in Contracts \cup {NoRef}
  /\ owed \in [Contracts -> Owed]
  /\ \E entered \in [Contracts -> Entered] : daily = [c \in Contracts |-> Stored(entered[c])]
  /\ pc = "rules" /\ eligible = <<>> /\ turn = 1 /\ left = amount
  /\ totals = [c \in Contracts |-> 0]
  /\ progressed = FALSE
  /\ result = Nothing

Return(answer) ==
  /\ pc' = "done"
  /\ result' = answer
  /\ UNCHANGED <<inputs, eligible, turn, left, totals, progressed>>

\* Rule 1: the resolver selected a contract; nothing else is looked at.
ByReference ==
  /\ pc = "rules" /\ resolved # NoRef
  /\ Return(Single(resolved, amount))

\* The guard, and rules 3 and 7: nothing to allocate, or nobody who owes.
Refuse ==
  /\ pc = "rules" /\ resolved = NoRef
  /\ amount = 0 \/ Eligible(Order, owed) = <<>>
  /\ Return(NeedsApproval)

\* Rule 2: one contract still owes.
ToTheOnlyOne ==
  /\ pc = "rules" /\ resolved = NoRef /\ amount > 0
  /\ Len(Eligible(Order, owed)) = 1
  /\ Return(Single(Eligible(Order, owed)[1], amount))

\* Rule 4: _round_robin begins.
StartTurns ==
  /\ pc = "rules" /\ resolved = NoRef /\ amount > 0
  /\ Len(Eligible(Order, owed)) > 1
  /\ eligible' = Eligible(Order, owed)
  /\ pc' = "turns"
  /\ UNCHANGED <<inputs, turn, left, totals, progressed, result>>

\* A mutation of TakeTurn: the last unit is handed out even when less is left.
TakeTurnShort ==
  /\ pc = "turns" /\ left > 0 /\ turn <= Len(eligible)
  /\ LET c == eligible[turn] IN
       /\ totals' = [totals EXCEPT ![c] = @ + daily[c]]
       /\ left'   = IF left >= daily[c] THEN left - daily[c] ELSE 0
       /\ progressed' = TRUE
  /\ turn' = turn + 1
  /\ UNCHANGED <<inputs, pc, eligible, result>>

\* The body of the for loop for one contract.
TakeTurn ==
  /\ pc = "turns" /\ left > 0 /\ turn <= Len(eligible)
  /\ LET c == eligible[turn] IN
       \/ /\ left >= daily[c]
          /\ totals' = [totals EXCEPT ![c] = @ + daily[c]]
          /\ left' = left - daily[c]
          /\ progressed' = TRUE
       \/ /\ left < daily[c]
          /\ UNCHANGED <<totals, left, progressed>>
  /\ turn' = turn + 1
  /\ UNCHANGED <<inputs, pc, eligible, result>>

\* A mutation of NextPass: `progressed` is not consulted.
NextPassAlways ==
  /\ pc = "turns" /\ left > 0 /\ turn > Len(eligible)
  /\ turn' = 1 /\ progressed' = FALSE
  /\ UNCHANGED <<inputs, pc, eligible, left, totals, result>>

\* A pass that gave something, with money left: once more.
NextPass ==
  /\ pc = "turns" /\ left > 0 /\ turn > Len(eligible) /\ progressed
  /\ turn' = 1 /\ progressed' = FALSE
  /\ UNCHANGED <<inputs, pc, eligible, left, totals, result>>

\* A mutation of Uneven: the remainder goes to the first contract.
UnevenToTheFirst ==
  /\ pc = "turns" /\ left > 0 /\ turn > Len(eligible) /\ ~progressed
  /\ Return(Allocated([i \in DOMAIN eligible |->
       [contract |-> eligible[i],
        amount   |-> totals[eligible[i]] + (IF i = 1 THEN left ELSE 0)]]))

\* Rule 6: a pass that gave nothing, with money left.
Uneven ==
  /\ pc = "turns" /\ left > 0 /\ turn > Len(eligible) /\ ~progressed
  /\ Return(NeedsApproval)

\* The money is used up.
Finish ==
  /\ pc = "turns" /\ left = 0
  /\ Return(Allocated(NotEmpty(
       [i \in DOMAIN eligible |-> [contract |-> eligible[i], amount |-> totals[eligible[i]]]])))

\* The answer is with the caller and nothing more happens here.
Returned == pc = "done" /\ UNCHANGED vars

Next == \/ ByReference \/ Refuse \/ ToTheOnlyOne \/ StartTurns
        \/ TakeTurn \/ NextPass \/ Uneven \/ Finish \/ Returned

\* allocate runs in one thread without waiting for anything.
Spec == Init /\ [][Next]_vars /\ WF_vars(Next)

-----------------------------------------------------------------------------
(* Properties *)

GivenOut == MapThenSumSet(LAMBDA c : totals[c], Contracts)

\* No cent is lost or invented, in the middle of the loop or in its answer: what
\* is left plus what the contracts got is the payment, and an answer that
\* allocates hands out the whole amount.
NoCentLost ==
  /\ left + GivenOut = amount
  /\ (pc = "done" /\ ~result.requires_approval) =>
       amount = MapThenSumSet(LAMBDA i : result.allocations[i].amount,
                              DOMAIN result.allocations)

\* The loop of _round_robin computes the split that AllocationRules states without
\* a loop, for every list of contracts, remaining and daily amounts.
ComputesTheRule ==
  (pc = "done" /\ resolved = NoRef /\ amount > 0) =>
    result = AllocateOver(amount, Eligible(Order, owed), daily)

\* allocate returns (its docstring names the dict it returns, in every case).
Returns == <>(pc = "done")

=============================================================================

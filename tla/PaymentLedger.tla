------------------------------ MODULE PaymentLedger ------------------------------
(***************************************************************************)
(* The payments of one customer's contracts: the payment runs that add to  *)
(* them (the nodes of PaymentWorkflow from detection to the reminder       *)
(* decision) and the reviewers who approve or reject them                  *)
(* (PaymentApprovalService, reached by the API and by the assistant).      *)
(*                                                                         *)
(* Runs and reviewers have a database session each. Every query sees what   *)
(* is committed at that moment and every repository call commits, so a     *)
(* node that reads one contract after the other, or writes one payment     *)
(* after the other, is one action per read or write here.                  *)
(***************************************************************************)
EXTENDS AllocationRules

CONSTANTS
  Order,       \* the customer's contracts, as the query returns them
  Total,       \* total_amount of each
  Daily,       \* daily_amount of each
  NoRef,       \* contract_id is None
  Amounts,     \* amounts a message may name
  NoAmount,    \* the detector found none
  Runs,        \* payment runs that can be in progress together
  Reviewers,   \* review requests that can be in progress together
  MaxReviews,  \* bound: reviews begun
  MaxFaults    \* bound: errors and crashes

Contracts == {Order[i] : i \in DOMAIN Order}

ASSUME LedgerAssumption ==
  /\ Order \in Seq(Contracts) /\ Order # <<>>
  /\ \A i, j \in DOMAIN Order : Order[i] = Order[j] => i = j
  /\ Total \in [Contracts -> Nat] /\ Daily \in [Contracts -> Nat]
  /\ NoRef \notin Contracts
  /\ Amounts \subseteq Nat \ {0} /\ NoAmount \notin Nat
  /\ MaxReviews \in Nat /\ MaxFaults \in Nat

VARIABLES
  \* a run's AgentState
  pc,
  amount,      \* payment_detection.amount
  contract,    \* contract_id after the resolver
  needs,       \* requires_approval
  listed,      \* contracts found to owe money so far
  shares,      \* payment_allocations
  next,        \* position in the list the current node goes through
  held,        \* a balance the current node has read and not used yet
  remaining,   \* remaining_amount
  decision,
  \* a review request
  review,
  \* the database
  payments,    \* rows in the order of their ids
  receipts,    \* rows in the order of their ids
  audits,      \* PAYMENT_APPROVED and PAYMENT_REJECTED rows in order
  reviews, faults

state  == <<amount, contract, needs, listed, shares, remaining, decision>>
run    == <<pc, next, held, state>>
tables == <<payments, receipts, audits>>
vars   == <<run, review, tables, reviews, faults>>

Statuses  == {"PENDING", "APPROVED", "REJECTED"}
Verdicts  == {"APPROVED", "REJECTED"}
Decisions == {"none", "WAIT_FOR_APPROVAL", "CONTRACT_COMPLETED", "NO_REMINDER"}
Nodes     == {"understand", "eligible", "approval", "create", "balance", "receipt", "decide",
              "done", "failed"}

Payment == [contract : Contracts, amount : Nat, status : Statuses, approval_status : Statuses,
            requires_manual_review : BOOLEAN, run : Runs]
Receipt == [contract : Contracts, amount : Nat, payment : Nat, previous : Nat, new : Nat]
Audit   == [payment : Nat, verdict : Verdicts]
Share   == [contract : Contracts, amount : Nat]
Idle    == [at |-> "idle"]
Loaded  == [at : {"loaded"}, payment : Nat, verdict : Verdicts, status : Statuses,
            approval_status : Statuses]

TypeOK ==
  /\ pc \in [Runs -> Nodes] /\ next \in [Runs -> Nat]
  /\ held \in [Runs -> Nat \cup {NoAmount}]
  /\ amount \in [Runs -> Amounts \cup {NoAmount}]
  /\ contract \in [Runs -> Contracts \cup {NoRef}]
  /\ needs \in [Runs -> BOOLEAN]
  /\ listed \in [Runs -> Seq(Contracts)]
  /\ shares \in [Runs -> Seq(Share)]
  /\ remaining \in [Runs -> Nat \cup {NoAmount}]
  /\ decision \in [Runs -> Decisions]
  /\ review \in [Reviewers -> {Idle} \cup Loaded]
  /\ payments \in Seq(Payment) /\ receipts \in Seq(Receipt) /\ audits \in Seq(Audit)
  /\ reviews \in Nat /\ faults \in Nat

Init ==
  /\ pc = [r \in Runs |-> "understand"] /\ next = [r \in Runs |-> 1]
  /\ held = [r \in Runs |-> NoAmount]
  /\ amount = [r \in Runs |-> NoAmount]
  /\ contract = [r \in Runs |-> NoRef]
  /\ needs = [r \in Runs |-> FALSE]
  /\ listed = [r \in Runs |-> <<>>]
  /\ shares = [r \in Runs |-> <<>>]
  /\ remaining = [r \in Runs |-> NoAmount]
  /\ decision = [r \in Runs |-> "none"]
  /\ review = [v \in Reviewers |-> Idle]
  /\ payments = <<>> /\ receipts = <<>> /\ audits = <<>>
  /\ reviews = 0 /\ faults = 0

-----------------------------------------------------------------------------
(* PaymentService: the money of a contract *)

SumOf(rows, Counts(_)) == MapThenSumSet(LAMBDA i : rows[i].amount, {i \in DOMAIN rows : Counts(rows[i])})

\* calculate_total_paid: what the balance is computed from.
TotalPaid(c) == SumOf(payments, LAMBDA p : p.contract = c /\ p.status = "APPROVED")

\* calculate_remaining_amount
Remaining(c) == Floored(Total[c], TotalPaid(c))

-----------------------------------------------------------------------------
(* The nodes of a run *)

\* A node's variables end with it, those of a loop with each turn.
Goto(r, node) ==
  /\ pc' = [pc EXCEPT ![r] = node]
  /\ next' = [next EXCEPT ![r] = 1]
  /\ held' = [held EXCEPT ![r] = NoAmount]

Onward(r) ==
  /\ next' = [next EXCEPT ![r] = @ + 1]
  /\ held' = [held EXCEPT ![r] = NoAmount]
  /\ UNCHANGED pc

\* The loop over shares goes on, or gives way to the next node.
OnwardOr(r, node) == IF next[r] < Len(shares[r]) THEN Onward(r) ELSE Goto(r, node)

\* PaymentDetectionNode, ConfidenceCheckerNode and ContractResolverNode. The
\* message refers to one contract, to none, or to several or an unknown one.
Understand(r) ==
  /\ pc[r] = "understand"
  /\ \E a \in Amounts \cup {NoAmount}, confident \in BOOLEAN,
        reference \in Contracts \cup {"none", "unclear"} :
       /\ amount' = [amount EXCEPT ![r] = a]
       /\ contract' = [contract EXCEPT ![r] =
            IF reference \in Contracts THEN reference
            ELSE IF reference = "none" /\ Len(Order) = 1 THEN Order[1] ELSE NoRef]
       /\ needs' = [needs EXCEPT ![r] = ~confident \/ reference = "unclear"]
  /\ Goto(r, "eligible")
  /\ UNCHANGED <<listed, shares, remaining, decision, review, tables, reviews, faults>>

Allocates(r) == amount[r] # NoAmount /\ ~needs[r]

\* PaymentAllocationNode when there is nothing to allocate.
SkipAllocation(r) ==
  /\ pc[r] = "eligible" /\ ~Allocates(r)
  /\ Goto(r, "approval")
  /\ UNCHANGED <<state, review, tables, reviews, faults>>

\* Rule 1 of allocate: no balance is looked at.
AllocateByReference(r) ==
  /\ pc[r] = "eligible" /\ Allocates(r) /\ contract[r] # NoRef
  /\ shares' = [shares EXCEPT ![r] = Single(contract[r], amount[r]).allocations]
  /\ Goto(r, "approval")
  /\ UNCHANGED <<amount, contract, needs, listed, remaining, decision, review, tables, reviews, faults>>

\* One turn of the loop of _eligible: the balance of one contract.
ReadOwed(r) ==
  /\ pc[r] = "eligible" /\ Allocates(r) /\ contract[r] = NoRef
  /\ next[r] <= Len(Order)
  /\ listed' = IF Remaining(Order[next[r]]) > 0
               THEN [listed EXCEPT ![r] = Append(@, Order[next[r]])] ELSE listed
  /\ Onward(r)
  /\ UNCHANGED <<amount, contract, needs, shares, remaining, decision, review, tables, reviews, faults>>

\* A mutation of AllocateAutomatically: the answer's requires_approval is lost.
AllocateUnasked(r) ==
  /\ pc[r] = "eligible" /\ Allocates(r) /\ contract[r] = NoRef
  /\ next[r] > Len(Order)
  /\ shares' = [shares EXCEPT ![r] = AllocateOver(amount[r], listed[r], Daily).allocations]
  /\ Goto(r, "approval")
  /\ UNCHANGED <<amount, contract, needs, listed, remaining, decision, review, tables, reviews, faults>>

\* Rules 2, 4 and 6 on the list that was read. A run whose loop does not end stays here.
AllocateAutomatically(r) ==
  /\ pc[r] = "eligible" /\ Allocates(r) /\ contract[r] = NoRef
  /\ next[r] > Len(Order)
  /\ AllocationEnds(amount[r], listed[r], Daily)
  /\ LET answer == AllocateOver(amount[r], listed[r], Daily) IN
       /\ shares' = [shares EXCEPT ![r] = answer.allocations]
       /\ needs'  = [needs EXCEPT ![r] = answer.requires_approval]
  /\ Goto(r, "approval")
  /\ UNCHANGED <<amount, contract, listed, remaining, decision, review, tables, reviews, faults>>

NewPayment(r, c, money, status, manual) ==
  [contract |-> c, amount |-> money, status |-> status, approval_status |-> status,
   requires_manual_review |-> manual, run |-> r]

\* A mutation of FileForReview: the payment counts at once.
FileAsPaid(r) ==
  /\ pc[r] = "approval"
  /\ payments' = IF needs[r] /\ contract[r] # NoRef /\ amount[r] # NoAmount
                 THEN Append(payments, NewPayment(r, contract[r], amount[r], "APPROVED", TRUE))
                 ELSE payments
  /\ Goto(r, "create")
  /\ UNCHANGED <<state, review, receipts, audits, reviews, faults>>

\* ApprovalCreationNode: a PENDING payment for a human, if there is a contract
\* to attach it to and an amount.
FileForReview(r) ==
  /\ pc[r] = "approval"
  /\ payments' = IF needs[r] /\ contract[r] # NoRef /\ amount[r] # NoAmount
                 THEN Append(payments, NewPayment(r, contract[r], amount[r], "PENDING", TRUE))
                 ELSE payments
  /\ Goto(r, "create")
  /\ UNCHANGED <<state, review, receipts, audits, reviews, faults>>

\* PaymentCreationNode and, with it, the first test of BalanceUpdateNode: without
\* a payment_id there is no balance to read.
CreateNothing(r) ==
  /\ pc[r] = "create" /\ (needs[r] \/ shares[r] = <<>>)
  /\ Goto(r, "decide")
  /\ UNCHANGED <<state, review, tables, reviews, faults>>

\* A mutation of CreatePayment: every contract is credited with the whole amount.
CreateWholePayment(r) ==
  /\ pc[r] = "create" /\ ~needs[r] /\ shares[r] # <<>>
  /\ LET share == shares[r][next[r]] IN
       payments' = Append(payments, NewPayment(r, share.contract, amount[r], "APPROVED", FALSE))
  /\ OnwardOr(r, "balance")
  /\ UNCHANGED <<state, review, receipts, audits, reviews, faults>>

\* PaymentCreationNode: one commit per allocation.
CreatePayment(r) ==
  /\ pc[r] = "create" /\ ~needs[r] /\ shares[r] # <<>>
  /\ LET share == shares[r][next[r]] IN
       payments' = Append(payments, NewPayment(r, share.contract, share.amount, "APPROVED", FALSE))
  /\ OnwardOr(r, "balance")
  /\ UNCHANGED <<state, review, receipts, audits, reviews, faults>>

\* A mutation of ReadBalance: the last contract's balance stands for all.
ReadLastBalance(r) ==
  /\ pc[r] = "balance"
  /\ remaining' = [remaining EXCEPT ![r] = Remaining(shares[r][next[r]].contract)]
  /\ OnwardOr(r, "receipt")
  /\ UNCHANGED <<amount, contract, needs, listed, shares, decision, review, tables, reviews, faults>>

\* BalanceUpdateNode: what is left of every contract that got a share, added up.
ReadBalance(r) ==
  /\ pc[r] = "balance"
  /\ LET left == Remaining(shares[r][next[r]].contract) IN
       remaining' = [remaining EXCEPT ![r] = IF next[r] = 1 THEN left ELSE @ + left]
  /\ OnwardOr(r, "receipt")
  /\ UNCHANGED <<amount, contract, needs, listed, shares, decision, review, tables, reviews, faults>>

\* The payment a run's share was stored as.
PaymentOf(r, share) ==
  CHOOSE i \in DOMAIN payments : payments[i].run = r /\ payments[i].contract = share.contract

\* A mutation of ReadNewBalance: the balance of the whole run is used.
ReadRunBalance(r) ==
  /\ pc[r] = "receipt" /\ held[r] = NoAmount
  /\ held' = [held EXCEPT ![r] = remaining[r]]
  /\ UNCHANGED <<pc, next, state, review, tables, reviews, faults>>

\* PaymentReceiptService: the balance of a share's contract as it is now ...
ReadNewBalance(r) ==
  /\ pc[r] = "receipt" /\ held[r] = NoAmount
  /\ held' = [held EXCEPT ![r] = Remaining(shares[r][next[r]].contract)]
  /\ UNCHANGED <<pc, next, state, review, tables, reviews, faults>>

\* ... is taken for the new one, and the amount on top of it for the previous one;
\* the insert commits.
WriteReceipt(r) ==
  /\ pc[r] = "receipt" /\ held[r] # NoAmount
  /\ LET share == shares[r][next[r]]
     IN receipts' = Append(receipts,
          [contract |-> share.contract, amount |-> share.amount, payment |-> PaymentOf(r, share),
           previous |-> held[r] + share.amount, new |-> held[r]])
  /\ OnwardOr(r, "decide")
  /\ UNCHANGED <<state, review, payments, audits, reviews, faults>>

\* ReminderDecisionNode; the reply follows from what the run has found out.
Decide(r) ==
  /\ pc[r] = "decide"
  /\ decision' = [decision EXCEPT ![r] = IF needs[r] THEN "WAIT_FOR_APPROVAL"
                                         ELSE IF remaining[r] = 0 THEN "CONTRACT_COMPLETED"
                                         ELSE "NO_REMINDER"]
  /\ Goto(r, "done")
  /\ UNCHANGED <<amount, contract, needs, listed, shares, remaining, review, tables, reviews, faults>>

-----------------------------------------------------------------------------
(* ResponseGenerationNode: what the reply of a run says of money *)

\* "I've recorded your payment of ...": over several contracts with the share of each, and
\* to one of several with its code.
Received(r) ==
  [recorded  |-> amount[r],
   split     |-> IF Len(shares[r]) > 1 THEN shares[r] ELSE <<>>,
   to        |-> IF Len(shares[r]) = 1 /\ Len(Order) > 1 THEN shares[r][1].contract ELSE NoRef,
   remaining |-> remaining[r]]

\* "Updated balances": a line for each receipt of the run.
UpdatedBalances(r) == {i \in DOMAIN receipts : payments[receipts[i].payment].run = r}

Reply(r) ==
  CASE decision[r] = "WAIT_FOR_APPROVAL"  -> [says |-> "pending approval"]
    [] decision[r] = "CONTRACT_COMPLETED" -> [says |-> "fully paid"]
    [] decision[r] = "NO_REMINDER"        -> [says |-> "received", of |-> Received(r),
                                              balances |-> UpdatedBalances(r)]
    [] OTHER                              -> [says |-> "nothing"]

-----------------------------------------------------------------------------
\* An error or a crash between two commits; nothing is undone.
Fail(r) ==
  /\ pc[r] \notin {"done", "failed"}
  /\ faults < MaxFaults /\ faults' = faults + 1
  /\ Goto(r, "failed")
  /\ UNCHANGED <<state, review, tables, reviews>>

-----------------------------------------------------------------------------
(* approve_payment and reject_payment *)

\* get_by_id: any payment of the owner, whatever its status.
Load(v) ==
  /\ review[v] = Idle /\ reviews < MaxReviews /\ reviews' = reviews + 1
  /\ \E i \in DOMAIN payments, verdict \in Verdicts :
       review' = [review EXCEPT ![v] =
         [at |-> "loaded", payment |-> i, verdict |-> verdict, status |-> payments[i].status,
          approval_status |-> payments[i].approval_status]]
  /\ UNCHANGED <<run, tables, faults>>

\* The ORM's UPDATE has the columns whose value differs from the one loaded.
Assign(current, loaded, value) == IF loaded = value THEN current ELSE value

\* A mutation of Save: a rejection leaves the flag the balance is computed from.
SaveHalf(v) ==
  /\ review[v] # Idle
  /\ LET this == review[v] IN
       /\ payments' = [payments EXCEPT
            ![this.payment].status =
               IF this.verdict = "REJECTED" THEN @ ELSE Assign(@, this.status, this.verdict),
            ![this.payment].approval_status = Assign(@, this.approval_status, this.verdict)]
       /\ audits' = Append(audits, [payment |-> this.payment, verdict |-> this.verdict])
  /\ review' = [review EXCEPT ![v] = Idle]
  /\ UNCHANGED <<run, receipts, reviews, faults>>

\* Both flags are set; the commit of the audit row writes them with it.
Save(v) ==
  /\ review[v] # Idle
  /\ LET this == review[v] IN
       /\ payments' = [payments EXCEPT
            ![this.payment].status = Assign(@, this.status, this.verdict),
            ![this.payment].approval_status = Assign(@, this.approval_status, this.verdict)]
       /\ audits' = Append(audits, [payment |-> this.payment, verdict |-> this.verdict])
  /\ review' = [review EXCEPT ![v] = Idle]
  /\ UNCHANGED <<run, receipts, reviews, faults>>

\* The request dies before its commit.
Drop(v) ==
  /\ review[v] # Idle
  /\ faults < MaxFaults /\ faults' = faults + 1
  /\ review' = [review EXCEPT ![v] = Idle]
  /\ UNCHANGED <<run, tables, reviews>>

RunStep(r) ==
  \/ Understand(r) \/ SkipAllocation(r) \/ AllocateByReference(r) \/ ReadOwed(r)
  \/ AllocateAutomatically(r) \/ FileForReview(r) \/ CreateNothing(r) \/ CreatePayment(r)
  \/ ReadBalance(r) \/ ReadNewBalance(r) \/ WriteReceipt(r)
  \/ Decide(r) \/ Fail(r)

Next ==
  \/ \E r \in Runs : RunStep(r)
  \/ \E v \in Reviewers : Load(v) \/ Save(v) \/ Drop(v)

Spec == Init /\ [][Next]_vars

-----------------------------------------------------------------------------
(* Properties *)

AuditedAs(i, verdict) == \E k \in DOMAIN audits : audits[k] = [payment |-> i, verdict |-> verdict]

\* The two flags of a payment, which different totals are computed from, never
\* disagree, however the reviews of several people interleave; and a payment
\* that is PENDING is in the review queue, so no money is stuck outside it.
FlagsAgree ==
  \A i \in DOMAIN payments :
    /\ payments[i].status = payments[i].approval_status
    /\ payments[i].status = "PENDING" => payments[i].requires_manual_review

\* A payment made for manual review counts as paid only after somebody approved
\* it, a payment is REJECTED only if somebody rejected it, and one that is
\* still PENDING was never reviewed.
NoUnreviewedMoney ==
  \A i \in DOMAIN payments : LET p == payments[i] IN
    /\ p.status = "APPROVED" /\ p.requires_manual_review => AuditedAs(i, "APPROVED")
    /\ p.status = "REJECTED" => AuditedAs(i, "REJECTED")
    /\ p.status = "PENDING" => \A verdict \in Verdicts : ~AuditedAs(i, verdict)

PutDownBy(r) == SumOf(payments, LAMBDA p : p.run = r)

\* A run puts down the amount of its message once it is past the creation of
\* payments, over however many contracts it is split, and never more than that,
\* wherever it fails; one that needs approval puts down at most one payment.
EachRunPaysItsAmount ==
  \A r \in Runs :
    /\ amount[r] = NoAmount => PutDownBy(r) = 0
    /\ amount[r] # NoAmount => PutDownBy(r) <= amount[r]
    /\ (pc[r] \in {"balance", "receipt"} \/ remaining[r] # NoAmount) => PutDownBy(r) = amount[r]

\* "Your contract has been fully paid" is only said when every contract the
\* payment went to owes nothing, unless a payment to it was rejected since.
CompletedIsEarned ==
  \A r \in Runs : decision[r] = "CONTRACT_COMPLETED" =>
    /\ shares[r] # <<>>
    /\ \A i \in DOMAIN shares[r] : LET c == shares[r][i].contract IN
         \/ Remaining(c) = 0
         \/ \E p \in DOMAIN payments : payments[p].contract = c /\ AuditedAs(p, "REJECTED")

\* What the payments of S have paid of a contract.
PaidBy(c, S) ==
  MapThenSumSet(LAMBDA i : payments[i].amount,
    {i \in S : payments[i].contract = c /\ payments[i].status = "APPROVED"})

\* No review of a payment of the contract has ended, or none in a rejection.
Unreviewed(c) == \A k \in DOMAIN audits : payments[audits[k].payment].contract # c
Unrejected(c) ==
  \A k \in DOMAIN audits :
     payments[audits[k].payment].contract = c => audits[k].verdict = "APPROVED"

\* A receipt's balances are those around its payment at one moment: of the contract's
\* payments some first ones count, its own among them, whatever other runs commit
\* between the reading of the balance and the receipt; unless a review changed what
\* counts, or the contract is overpaid. And a receipt is only ever stale in one
\* direction: more is owed than it says only after a rejection.
ReceiptsAddUp ==
  \A k \in DOMAIN receipts :
    LET this == receipts[k]
        c    == this.contract
    IN /\ Unreviewed(c) =>
            \E n \in this.payment .. Len(payments) :
              /\ this.new = Floored(Total[c], PaidBy(c, 1..n))
              /\ PaidBy(c, 1..n) <= Total[c] =>
                   this.previous = Floored(Total[c], PaidBy(c, (1..n) \ {this.payment}))
       /\ Unrejected(c) => Remaining(c) <= this.new

\* A run is alone if no other run and no review has touched the payments.
Alone(r) == audits = <<>> /\ \A i \in DOMAIN payments : payments[i].run = r

\* The payment of a run that went to a contract, whole.
PutDownFor(r, share) ==
  \E i \in DOMAIN payments : /\ payments[i].run = r /\ payments[i].contract = share.contract
                             /\ payments[i].amount = share.amount

\* What the sender is told is so. "I've recorded your payment of ..." means that all of the
\* amount is put down: at the contract it names, or split as it says, to the last cent; every
\* contract it went to has its line among the updated balances, and unless somebody else
\* paid or reviewed meanwhile those lines add up to the remaining balance it states.
\* A payment "pending approval" is there, whole and once, when its contract is known.
RepliesAreTrue ==
  \A r \in Runs : amount[r] # NoAmount =>
    LET reply == Reply(r) IN
    /\ reply.says = "received" =>
         LET said  == reply.of
             lines == reply.balances
         IN /\ PutDownBy(r) = said.recorded
            /\ said.to # NoRef =>
                 PutDownFor(r, [contract |-> said.to, amount |-> said.recorded])
            /\ said.split # <<>> =>
                 /\ MapThenSumSet(LAMBDA i : said.split[i].amount, DOMAIN said.split) = said.recorded
                 /\ \A i \in DOMAIN said.split : PutDownFor(r, said.split[i])
            /\ \A i \in DOMAIN payments : payments[i].run = r =>
                 Cardinality({k \in lines : receipts[k].payment = i}) = 1
            /\ Alone(r) => MapThenSumSet(LAMBDA k : receipts[k].new, lines) = said.remaining
    /\ reply.says = "pending approval" /\ contract[r] # NoRef =>
         \E i \in DOMAIN payments :
           /\ payments[i].run = r /\ payments[i].requires_manual_review
           /\ payments[i].amount = amount[r] /\ PutDownBy(r) = amount[r]

=============================================================================

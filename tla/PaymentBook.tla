----------------------------- MODULE PaymentBook -----------------------------
(***************************************************************************)
(* The contracts and their payments as the reports, the insights and the    *)
(* advisor read them, and what the insight services compute from them       *)
(* (app/services/insights/, services/contract_reporting_service.py,         *)
(* services/payment_service.py).                                            *)
(*                                                                         *)
(* Every operator takes the table t or the whole book b it is asked of, so *)
(* that two states of the database can be compared. Money is in cents, a    *)
(* ratio in ten-thousandths: the code rounds to four places. The payment    *)
(* workflow, the reviewers (PaymentLedger), those who create contracts      *)
(* (Accounts, PendingActions) and the calendar are the environment here. No  *)
(* code sets contract.status, which stays ACTIVE; nothing calls             *)
(* ContractService.delete_contract.                                         *)
(***************************************************************************)
EXTENDS Naturals, Sequences, FiniteSets, FiniteSetsExt

CONSTANTS
  Contracts,      \* ids
  ContractOwner,  \* user_id
  Total, Daily,   \* total_amount, daily_amount
  Start,          \* start_date
  LateContracts,  \* those that are created while others read
  FirstDay,
  PaymentRow,     \* contract, amount and day of each payment, by id
  Tables,         \* the tables a behaviour may begin with
  MaxChanges      \* bound: payments, reviews, new contracts and midnights after that

ASSUME BookAssumption ==
  /\ Contracts \subseteq Nat /\ IsFiniteSet(Contracts)
  /\ DOMAIN ContractOwner = Contracts
  /\ Total \in [Contracts -> Nat] /\ Daily \in [Contracts -> Nat]
  /\ Start \in [Contracts -> Nat] /\ FirstDay \in Nat
  /\ LateContracts \subseteq Contracts
  /\ PaymentRow \in Seq([contract : Contracts, amount : Nat, day : Nat])
  /\ MaxChanges \in Nat

Payments == DOMAIN PaymentRow

ApprovalStatuses == {"ABSENT", "PENDING", "APPROVED", "REJECTED"}

\* Ids grow with the insertions, and a payment has a contract.
ASSUME TablesAssumption ==
  \A b \in Tables :
    /\ b \in [Payments -> ApprovalStatuses]
    /\ \A p, q \in Payments : q < p /\ b[p] # "ABSENT" => b[q] # "ABSENT"
    /\ \A p \in Payments : PaymentRow[p].contract \in LateContracts => b[p] = "ABSENT"

VARIABLES
  payment,   \* status and approval_status of each row, which agree (PaymentLedger);
             \* "ABSENT" before it is inserted
  opened,    \* the contracts there are
  today,     \* date.today()
  changes

bookVars == <<payment, opened, today, changes>>

Books == [payment : [Payments -> ApprovalStatuses], opened : SUBSET Contracts, today : Nat]

\* What the figures depend on, now.
Book == [payment |-> payment, opened |-> opened, today |-> today]

BookTypeOK == Book \in Books /\ changes \in Nat

BookInit ==
  /\ payment \in Tables
  /\ opened = Contracts \ LateContracts /\ today = FirstDay
  /\ changes = 0

-----------------------------------------------------------------------------
(* The environment *)

\* A payment is stored APPROVED, or PENDING when a
\* human must look at it.
InsertPayment(p, st) ==
  /\ payment[p] = "ABSENT" /\ st \in {"APPROVED", "PENDING"}
  /\ PaymentRow[p].contract \in opened
  /\ \A q \in Payments : q < p => payment[q] # "ABSENT"
  /\ payment' = [payment EXCEPT ![p] = st]

ReviewPayment(p, st) ==
  /\ payment[p] # "ABSENT" /\ st \in {"APPROVED", "REJECTED"} /\ payment[p] # st
  /\ payment' = [payment EXCEPT ![p] = st]

Changing == changes < MaxChanges /\ changes' = changes + 1

ChangePayments ==
  /\ Changing
  /\ \E p \in Payments, st \in ApprovalStatuses :
        InsertPayment(p, st) \/ ReviewPayment(p, st)
  /\ UNCHANGED <<opened, today>>

\* A contract may have begun before it is entered, never later (ContractCreate).
OpenContract(c) ==
  /\ Changing
  /\ c \notin opened /\ Start[c] <= today
  /\ opened' = opened \cup {c}
  /\ UNCHANGED <<payment, today>>

\* Midnight.
TurnDay ==
  /\ Changing
  /\ today' = today + 1
  /\ UNCHANGED <<payment, opened>>

-----------------------------------------------------------------------------
(* The insights *)

\* Of those in the set k.
ContractsOf(k, u) == {c \in k : ContractOwner[c] = u}

Approved(t, u) ==
  {p \in Payments : t[p] = "APPROVED" /\ ContractOwner[PaymentRow[p].contract] = u}

\* A mutation of Paid: a payment counts before it is confirmed.
PaidUnconfirmed(t, c) ==
  MapThenSumSet(LAMBDA p : PaymentRow[p].amount,
          {p \in Payments : t[p] \in {"APPROVED", "PENDING"} /\ PaymentRow[p].contract = c})

Paid(t, c) ==
  MapThenSumSet(LAMBDA p : PaymentRow[p].amount,
          {p \in Payments : t[p] = "APPROVED" /\ PaymentRow[p].contract = c})

Remaining(t, c) == IF Paid(t, c) < Total[c] THEN Total[c] - Paid(t, c) ELSE 0

Smaller(a, b) == IF a < b THEN a ELSE b

\* max(today - start_date, 0), with the day the caller has read.
DaysElapsed(c, day) == IF Start[c] < day THEN day - Start[c] ELSE 0

ExpectedByNow(c, day) == Smaller(Daily[c] * DaysElapsed(c, day), Total[c])

IsBehind(c, day, paid, remaining) == remaining > 0 /\ paid < ExpectedByNow(c, day)

\* 0 < remaining <= 10% of the total.
IsNearCompletion(c, remaining) ==
  remaining > 0 /\ Total[c] > 0 /\ 10 * remaining <= Total[c]

\* Rounded to four places; 0 when there is nothing to divide by.
Ratio(n, d) == IF d = 0 THEN 0 ELSE (20000 * n + d) \div (2 * d)

\* Of the contracts listed.
Value(k, u) == MapThenSumSet(LAMBDA c : Total[c], ContractsOf(k, u))

\* Of the part of the value that is not owed any more.
CollectionRate(value, owed) == Ratio(value - owed, value)

IsLow(value, rate) == value > 0 /\ rate < 3000

IsStrong(rate) == rate >= 9000

Days(t, u) == {PaymentRow[p].day : p \in Approved(t, u)}

SpanDays(t, u) ==
  IF Days(t, u) = {} THEN 0 ELSE Max(Days(t, u)) - Min(Days(t, u)) + 1

Consistency(t, u) == Ratio(Cardinality(Days(t, u)), SpanDays(t, u))

IsInconsistent(t, u) == SpanDays(t, u) > 0 /\ Consistency(t, u) < 3000

-----------------------------------------------------------------------------
(* The same, as one would define them over one state of the database *)

Owed(b, u) == MapThenSumSet(LAMBDA c : Remaining(b.payment, c), ContractsOf(b.opened, u))

Behind(b, u) ==
  {c \in ContractsOf(b.opened, u) :
     IsBehind(c, b.today, Paid(b.payment, c), Remaining(b.payment, c))}

NearCompletion(b, u) ==
  {c \in ContractsOf(b.opened, u) : IsNearCompletion(c, Remaining(b.payment, c))}

=============================================================================

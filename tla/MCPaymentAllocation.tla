--------------------------- MODULE MCPaymentAllocation ---------------------------
(* Bounds for model checking PaymentAllocation. *)
EXTENDS PaymentAllocation

CONSTANTS c1, c2, c3

ThreeContracts == <<c1, c2, c3>>
TwoContracts   == <<c1, c2>>

\* Amounts up to twelve cents: several passes of every contract, and remainders.
SmallAmounts == 0..12

\* Daily amounts of 1, 2, 3 and 5 cents; 14 tenths are stored as 1 cent.
WholeCents == {14, 20, 30, 50}

\* 4 tenths of a cent pass ContractCreate's gt=0 and are stored as nothing.
FractionsToo == {4, 20}

=============================================================================

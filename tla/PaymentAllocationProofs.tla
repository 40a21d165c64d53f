------------------------- MODULE PaymentAllocationProofs -------------------------
(***************************************************************************)
(* Proofs about PaymentAllocation, for every list of contracts, every        *)
(* amount and every daily amount.                                          *)
(*                                                                         *)
(* No cent is lost: what is left and what the contracts of the loop have got  *)
(* add up to the payment (CentsInv). The other contracts have got nothing, so *)
(* the shares of the loop's contracts, with the empty ones left out, are all   *)
(* that was given.                                                         *)
(*                                                                         *)
(* The loop computes the rule: up to the turn that comes next, a contract has *)
(* had its m-th unit exactly when InTurns says so (SoFar). For the turns after *)
(* the last one InTurns denies everything, so the units given are a solution   *)
(* of it, and it has only one (TurnsUnique).                                *)
(***************************************************************************)
EXTENDS PaymentAllocation, MoneyTheorems

\* The contracts of the customer are finitely many.
LEMMA ContractsFinite == IsFiniteSet(Contracts)
<1> DEFINE places == 1..Len(Order)
<1>1. DOMAIN Order = places /\ Len(Order) \in Nat
  BY AllocationAssumption
<1>2. IsFiniteSet(places)
  BY <1>1, FS_Interval
<1>3. Order \in [places -> Contracts] /\ \A c \in Contracts : \E i \in places : Order[i] = c
  BY <1>1, AllocationAssumption DEF Contracts
<1>4. Order \in Surjection(places, Contracts)
  BY <1>3 DEF Surjection
<1> QED
  BY <1>2, <1>4, FS_Surjection

\* The contracts that still owe are some of the customer's, each once.
LEMMA EligibleOnce ==
  /\ Eligible(Order, owed) \in Seq(Contracts)
  /\ \A i, j \in DOMAIN Eligible(Order, owed) :
       Eligible(Order, owed)[i] = Eligible(Order, owed)[j] => i = j
<1> DEFINE owing == {i \in DOMAIN Order : owed[Order[i]] > 0}
           list == Kept(Order, owing)
<1>1. Order \in Seq(Contracts) /\ DOMAIN Order \subseteq Nat
  BY AllocationAssumption
<1>2. owing \cap DOMAIN Order = owing /\ owing \in SUBSET Nat
  BY <1>1
<1>3. list \in Seq(Contracts) /\ \E at : Numbers(at, list, Order, owing)
  BY <1>1, <1>2, KeptIs
<1>4. PICK at : Numbers(at, list, Order, owing)
  BY <1>3
<1>5. DOMAIN list = 1..Len(list) /\ Len(list) \in Nat
  BY <1>3
<1>6. owing \subseteq DOMAIN Order
  OBVIOUS
<1>7. Eligible(Order, owed) = list
  BY DEF Eligible
<1> HIDE DEF list, owing
<1>8. \A i \in DOMAIN list : list[i] = Order[at[i]] /\ at[i] \in DOMAIN Order
  BY <1>4, <1>5, <1>6 DEF Numbers
<1>9. \A i, j \in DOMAIN list : at[i] = at[j] => i = j
  BY <1>2, <1>4, <1>5, NumbersOnce
<1>10. \A i, j \in DOMAIN list : list[i] = list[j] => i = j
  BY <1>8, <1>9, AllocationAssumption
<1> QED
  BY <1>3, <1>7, <1>10

-----------------------------------------------------------------------------
(* No cent is lost *)

\* The loop goes round the contracts that owe, of which there are two or more; before it
\* nothing has been given.
Course ==
  /\ pc = "rules" => eligible = <<>> /\ turn = 1 /\ left = amount /\ ~progressed
  /\ pc = "turns" => /\ resolved = NoRef /\ amount > 0
                     /\ eligible = Eligible(Order, owed) /\ Len(eligible) > 1
  /\ \A i, j \in DOMAIN eligible : eligible[i] = eligible[j] => i = j

Cents ==
  /\ left + SumOver(totals, Contracts) = amount
  /\ \A c \in Contracts : (\A i \in DOMAIN eligible : eligible[i] # c) => totals[c] = 0

\* Shares of different contracts that are all of the amount, or the request for approval.
Answered == pc = "done" => AllocatesAll(result, amount, Contracts)

CentsInv == TypeOK /\ Course /\ Cents /\ Answered

\* The sum that NoCentLost speaks of.
LEMMA GivenOutIsSum == ASSUME TypeOK PROVE GivenOut = SumOver(totals, Contracts)
  BY DEF GivenOut, SumOver, MapThenSumSet, MapThenFoldSet

\* Daily amounts of zero cents are possible, negative ones are not.
LEMMA StoredNat == ASSUME NEW tenths \in Nat PROVE Stored(tenths) \in Nat
  BY DEF Stored

\* In the beginning nothing is given.
LEMMA CentsInit == Init => CentsInv
<1> SUFFICES ASSUME Init PROVE CentsInv
  OBVIOUS
<1> USE AllocationAssumption
<1>1. PICK entered \in [Contracts -> Entered] :
        daily = [c \in Contracts |-> Stored(entered[c])]
  BY DEF Init
<1>2. daily \in [Contracts -> Nat]
  BY <1>1, StoredNat
<1>3. totals \in [Contracts -> Nat] /\ \A c \in Contracts : totals[c] = 0
  BY DEF Init
<1>4. SumOver(totals, Contracts) = 0
  BY <1>3, ContractsFinite, SumOfZeros
<1>5. amount \in Nat /\ left = amount
  BY DEF Init
<1>6. TypeOK
  <2>1. eligible \in Seq(Contracts) /\ turn \in 1..(Len(eligible) + 1)
    BY DEF Init
  <2>2. result.allocations \in Seq(Shares) /\ result.requires_approval \in BOOLEAN
    BY DEF Init, Nothing
  <2>3. /\ amount \in Amounts /\ resolved \in Contracts \cup {NoRef}
        /\ owed \in [Contracts -> Owed] /\ pc = "rules" /\ progressed = FALSE
    BY DEF Init
  <2>4. left \in 0..amount
    BY <1>5
  <2> QED
    BY <1>2, <1>3, <2>1, <2>2, <2>3, <2>4 DEF TypeOK
<1>7. Course
  BY DEF Init, Course
<1>8. Cents
  BY <1>3, <1>4, <1>5 DEF Cents
<1> QED
  BY <1>6, <1>7, <1>8 DEF CentsInv, Answered, Init

\* An answer that allocates all of the amount may be returned.
LEMMA CentsReturn ==
  ASSUME CentsInv, NEW answer, AllocatesAll(answer, amount, Contracts), Return(answer)
  PROVE  CentsInv'
<1>1. /\ pc' = "done" /\ result' = answer
      /\ UNCHANGED <<amount, resolved, owed, daily, eligible, turn, left, totals, progressed>>
  BY DEF Return, inputs
<1>2. answer.allocations \in Seq(Shares) /\ answer.requires_approval \in BOOLEAN
  BY DEF AllocatesAll, Shares, ShareOf
<1>3. TypeOK'
  BY <1>1, <1>2 DEF CentsInv, TypeOK
<1>4. Course'
  BY <1>1 DEF CentsInv, Course
<1>5. Cents'
  BY <1>1 DEF CentsInv, Cents
<1>6. Answered'
  BY <1>1 DEF Answered
<1> QED
  BY <1>3, <1>4, <1>5, <1>6 DEF CentsInv

\* The loop begins with the contracts that owe.
LEMMA CentsStart == ASSUME CentsInv, StartTurns PROVE CentsInv'
<1>1. /\ pc = "rules" /\ resolved = NoRef /\ amount > 0
      /\ Len(Eligible(Order, owed)) > 1
      /\ eligible' = Eligible(Order, owed) /\ pc' = "turns"
      /\ UNCHANGED <<amount, resolved, owed, daily, turn, left, totals, progressed, result>>
  BY DEF StartTurns, inputs
<1>2. PICK list : list = Eligible(Order, owed)
  OBVIOUS
<1>3. list \in Seq(Contracts) /\ \A i, j \in DOMAIN list : list[i] = list[j] => i = j
  BY <1>2, EligibleOnce
<1>4. eligible' = list /\ list = Eligible(Order, owed)'
  BY <1>1, <1>2 DEF Eligible
<1>5. eligible = <<>> /\ turn = 1
  BY <1>1 DEF CentsInv, Course
<1>6. \A c \in Contracts : totals[c] = 0
  BY <1>5 DEF CentsInv, Cents
<1>7. TypeOK'
  <2>1. turn' \in 1..(Len(list) + 1)
    BY <1>1, <1>3, <1>5
  <2> QED
    BY <1>1, <1>3, <1>4, <2>1 DEF CentsInv, TypeOK
<1>8. Course'
  BY <1>1, <1>2, <1>3, <1>4 DEF Course
<1>9. Cents'
  BY <1>1, <1>6 DEF CentsInv, Cents
<1> QED
  BY <1>1, <1>7, <1>8, <1>9 DEF CentsInv, Answered

\* What a turn gives is taken from what is left.
LEMMA CentsTurn == ASSUME CentsInv, TakeTurn PROVE CentsInv'
<1> DEFINE c == eligible[turn]
<1>1. /\ pc = "turns" /\ left > 0 /\ turn <= Len(eligible) /\ turn' = turn + 1
      /\ UNCHANGED <<amount, resolved, owed, daily, pc, eligible, result>>
  BY DEF TakeTurn, inputs
<1>2. /\ eligible \in Seq(Contracts) /\ DOMAIN eligible = 1..Len(eligible)
      /\ Len(eligible) \in Nat /\ turn \in 1..(Len(eligible) + 1)
  BY DEF CentsInv, TypeOK
<1>3. turn \in DOMAIN eligible /\ c \in Contracts
  BY <1>1, <1>2
<1>4. turn' \in 1..(Len(eligible') + 1)
  BY <1>1, <1>2
<1>5. totals \in [Contracts -> Nat] /\ daily[c] \in Nat /\ left \in Nat /\ amount \in Nat
      /\ left <= amount
  BY <1>3, AllocationAssumption DEF CentsInv, TypeOK
<1>6. CASE left < daily[c] /\ UNCHANGED <<totals, left, progressed>>
  BY <1>1, <1>4, <1>6 DEF CentsInv, TypeOK, Course, Cents, Answered, Eligible
<1>7. CASE /\ left >= daily[c]
           /\ totals' = [totals EXCEPT ![c] = @ + daily[c]]
           /\ left' = left - daily[c] /\ progressed' = TRUE
  <2>1. PICK d : d = daily[c]
    OBVIOUS
  <2>2. /\ totals' \in [Contracts -> Nat] /\ totals'[c] = totals[c] + d
        /\ \A e \in Contracts \ {c} : totals'[e] = totals[e]
    BY <1>3, <1>5, <1>7, <2>1
  <2>3. left' = left - d /\ left' \in 0..amount /\ d \in Nat
    BY <1>5, <1>7, <2>1
  <2>4. SumOver(totals', Contracts) = SumOver(totals, Contracts) + d
    <3>1. PICK new : new = totals'
      OBVIOUS
    <3>2. \A e \in Contracts : totals[e] \in Int /\ new[e] \in Int
      BY <1>5, <2>2, <3>1
    <3>3. \A e \in Contracts \ {c} : new[e] = totals[e]
      BY <2>2, <3>1
    <3>4. SumOver(new, Contracts) = SumOver(totals, Contracts) + (new[c] - totals[c])
      BY ONLY <1>3, <3>2, <3>3, ContractsFinite, SumChangesAt
    <3>5. new[c] - totals[c] = d
      BY <1>3, <1>5, <2>2, <2>3, <3>1
    <3> QED
      BY <3>1, <3>4, <3>5
  <2>5. SumOver(totals, Contracts) \in Int
    BY <1>5, ContractsFinite, SumType
  <2>6. Cents'
    <3>1. left' + SumOver(totals', Contracts) = amount'
      BY <1>1, <1>5, <2>3, <2>4, <2>5 DEF CentsInv, Cents
    <3>2. ASSUME NEW e \in Contracts, \A i \in DOMAIN eligible : eligible[i] # e
          PROVE  totals'[e] = 0
      BY <1>3, <2>2, <3>2 DEF CentsInv, Cents
    <3> QED
      BY <1>1, <3>1, <3>2 DEF Cents
  <2>7. TypeOK'
    BY <1>1, <1>4, <1>7, <2>2, <2>3 DEF CentsInv, TypeOK
  <2> QED
    BY <1>1, <2>6, <2>7 DEF CentsInv, Course, Answered, Eligible
<1> QED
  BY <1>6, <1>7 DEF TakeTurn

\* The shares of the loop.
SharesOf == [i \in DOMAIN eligible |-> [contract |-> eligible[i], amount |-> totals[eligible[i]]]]

\* They are shares of different contracts that add up to what was given.
LEMMA SharesAreGiven ==
  ASSUME CentsInv
  PROVE  /\ SharesOf \in Seq(Shares) /\ Distinct(SharesOf)
         /\ Whole(SharesOf) = SumOver(totals, Contracts)
<1>1. /\ eligible \in Seq(Contracts) /\ DOMAIN eligible = 1..Len(eligible)
      /\ Len(eligible) \in Nat /\ totals \in [Contracts -> Nat]
      /\ \A i, j \in DOMAIN eligible : eligible[i] = eligible[j] => i = j
  BY DEF CentsInv, TypeOK, Course
<1>2. \A i \in DOMAIN eligible : eligible[i] \in Contracts /\ totals[eligible[i]] \in Nat
  BY <1>1
<1>3. SharesOf \in [1..Len(eligible) -> Shares]
  BY <1>1, <1>2 DEF Shares, SharesOf
<1>4. SharesOf \in Seq(Shares) /\ DOMAIN SharesOf = DOMAIN eligible
  BY <1>1, <1>3
<1>5. Distinct(SharesOf)
  BY <1>1 DEF Distinct, SharesOf
<1> DEFINE T == 1..Len(eligible)
           S == {eligible[i] : i \in T}
<1>6. /\ IsFiniteSet(T) /\ S \subseteq Contracts /\ eligible \in [T -> S]
      /\ \A e \in S : \E i \in T : eligible[i] = e
      /\ \A i, j \in T : eligible[i] = eligible[j] => i = j
  <2>1. IsFiniteSet(T)
    BY <1>1, FS_Interval
  <2> QED
    BY <1>1, <2>1
<1>7. \A e \in Contracts \ S : totals[e] = 0
  BY <1>1 DEF CentsInv, Cents
<1>8. AmountsOf(SharesOf) = [i \in T |-> totals[eligible[i]]] /\ DOMAIN SharesOf = T
  BY <1>1 DEF AmountsOf, SharesOf
<1> HIDE DEF T, S
<1>9. \A e \in Contracts : totals[e] \in Int
  BY <1>1
<1>10. SumOver([i \in T |-> totals[eligible[i]]], T) = SumOver(totals, S)
  <2>1. \A e \in S : totals[e] \in Int
    BY <1>6, <1>9
  <2> QED
    BY ONLY <2>1, <1>6, SumReindexed
<1>11. SumOver(totals, Contracts) = SumOver(totals, S)
  BY <1>6, <1>7, <1>9, ContractsFinite, SumWithoutZeros
<1> QED
  BY <1>4, <1>5, <1>8, <1>10, <1>11 DEF Whole

\* The money is used up: the shares that are not empty are all of it.
LEMMA CentsFinish == ASSUME CentsInv, Finish PROVE CentsInv'
<1>1. pc = "turns" /\ left = 0 /\ Return(Allocated(NotEmpty(SharesOf)))
  BY DEF Finish, SharesOf
<1>2. PICK list : list = SharesOf
  OBVIOUS
<1>3. /\ list \in Seq(ShareOf(Contracts)) /\ Distinct(list)
      /\ Whole(list) = SumOver(totals, Contracts)
  BY <1>2, SharesAreGiven DEF Shares, ShareOf
<1>4. /\ NotEmpty(list) \in Seq(ShareOf(Contracts)) /\ Distinct(NotEmpty(list))
      /\ Whole(NotEmpty(list)) = Whole(list)
  BY <1>3, NotEmptyIsWhole
<1>5. SumOver(totals, Contracts) = amount /\ amount > 0
  <2>1. SumOver(totals, Contracts) \in Int
    BY ContractsFinite, SumType DEF CentsInv, TypeOK
  <2> QED
    BY <2>1, <1>1 DEF CentsInv, Cents, Course
<1>6. NotEmpty(list) # <<>>
  <2>1. NotEmpty(list) = <<>> => Whole(NotEmpty(list)) = 0
    BY SumOfNone DEF Whole
  <2> QED
    BY <2>1, <1>3, <1>4, <1>5
<1>7. PICK some : some = NotEmpty(list)
  OBVIOUS
<1>8. AllocatesAll(Allocated(some), amount, Contracts)
  BY <1>3, <1>4, <1>5, <1>6, <1>7 DEF AllocatesAll, Allocated
<1> QED
  BY <1>1, <1>2, <1>7, <1>8, CentsReturn

\* By the steps of the algorithm.
LEMMA CentsNext == CentsInv /\ [Next]_vars => CentsInv'
<1> SUFFICES ASSUME CentsInv, [Next]_vars PROVE CentsInv'
  OBVIOUS
<1>1. amount \in Nat /\ resolved \in Contracts \cup {NoRef}
  BY AllocationAssumption DEF CentsInv, TypeOK
<1>2. CASE ByReference
  <2>1. resolved \in Contracts
    BY <1>1, <1>2 DEF ByReference
  <2>2. AllocatesAll(Single(resolved, amount), amount, Contracts)
    BY <1>1, <2>1, SingleAllocatesAll
  <2> QED
    BY <1>2, <2>2, CentsReturn DEF ByReference
<1>3. CASE Refuse \/ Uneven
  BY <1>3, RefusalAllocatesAll, CentsReturn DEF Refuse, Uneven
<1>4. CASE ToTheOnlyOne
  <2>1. PICK list : list = Eligible(Order, owed)
    OBVIOUS
  <2>2. list \in Seq(Contracts) /\ Len(list) = 1
    BY <1>4, <2>1, EligibleOnce DEF ToTheOnlyOne
  <2>3. list[1] \in Contracts
    BY <2>2
  <2>4. AllocatesAll(Single(list[1], amount), amount, Contracts)
    BY <1>1, <2>3, SingleAllocatesAll
  <2> QED
    BY <1>4, <2>1, <2>4, CentsReturn DEF ToTheOnlyOne
<1>5. CASE NextPass
  <2>1. /\ pc = "turns" /\ turn' = 1 /\ progressed' = FALSE
        /\ UNCHANGED <<amount, resolved, owed, daily, pc, eligible, left, totals, result>>
    BY <1>5 DEF NextPass, inputs
  <2>2. turn' \in 1..(Len(eligible') + 1)
    <3>1. Len(eligible) \in Nat
      BY DEF CentsInv, TypeOK
    <3> QED
      BY <2>1, <3>1
  <2>3. TypeOK'
    BY <2>1, <2>2 DEF CentsInv, TypeOK
  <2>4. Course'
    BY <2>1 DEF CentsInv, Course, Eligible
  <2> QED
    BY <2>1, <2>3, <2>4 DEF CentsInv, Cents, Answered
<1>6. CASE UNCHANGED vars
  BY <1>6 DEF vars, inputs, CentsInv, TypeOK, Course, Cents, Answered, Eligible
<1> QED
  BY <1>2, <1>3, <1>4, <1>5, <1>6, CentsStart, CentsTurn, CentsFinish DEF Next, Returned

\* Every variable has its type; in particular what is left never goes below zero.
THEOREM AllocationIsTyped == Spec => []TypeOK
<1>1. CentsInv => TypeOK
  BY DEF CentsInv
<1> QED
  BY <1>1, CentsInit, CentsNext, PTL DEF Spec

\* No cent of a payment is lost or invented by allocate, in the middle of its loop or in
\* its answer, however many contracts there are and whatever they owe.
THEOREM NoCentIsLost == Spec => []NoCentLost
<1>1. CentsInv => NoCentLost
  <2> SUFFICES ASSUME CentsInv PROVE NoCentLost
    OBVIOUS
  <2>1. left + GivenOut = amount
    BY GivenOutIsSum DEF CentsInv, Cents
  <2>2. ASSUME pc = "done", ~result.requires_approval
        PROVE  amount = MapThenSumSet(LAMBDA i : result.allocations[i].amount,
                                      DOMAIN result.allocations)
    <3>1. Whole(result.allocations) = amount
      BY <2>2 DEF CentsInv, Answered, AllocatesAll
    <3>2. PICK list : list = result.allocations
      OBVIOUS
    <3>3. MapThenSumSet(LAMBDA i : list[i].amount, DOMAIN list)
            = SumOver([i \in DOMAIN list |-> list[i].amount], DOMAIN list)
      BY SumOfField
    <3> QED
      BY <3>1, <3>2, <3>3 DEF Whole, AmountsOf
  <2> QED
    BY <2>1, <2>2 DEF NoCentLost
<1> QED
  BY <1>1, CentsInit, CentsNext, PTL DEF Spec

-----------------------------------------------------------------------------
(* What the turns give is told by InTurns *)

\* How many units the j-th contract can have had before the turn of the i-th in round k.
Bound(j, i, k) == IF j < i THEN k ELSE k - 1

Cut(units, list, rate, i, k) ==
  [j \in DOMAIN list |-> Lesser(units[j], Bound(j, i, k)) * rate[list[j]]]

\* The sum that GivenBefore speaks of.
LEMMA GivenBeforeIs ==
  ASSUME NEW units, NEW list, NEW rate, NEW i, NEW k
  PROVE  GivenBefore(units, list, rate, i, k) = SumOver(Cut(units, list, rate, i, k), DOMAIN list)
BY Zenon DEF GivenBefore, SumOver, MapThenSumSet, MapThenFoldSet, Cut, Bound

\* Only the units of the turns before count.
LEMMA SameGiven ==
  ASSUME NEW u, NEW v, NEW list, NEW rate, NEW i, NEW k,
         \A j \in DOMAIN list : Lesser(u[j], Bound(j, i, k)) = Lesser(v[j], Bound(j, i, k))
  PROVE  GivenBefore(u, list, rate, i, k) = GivenBefore(v, list, rate, i, k)
<1>1. Cut(u, list, rate, i, k) = Cut(v, list, rate, i, k)
  BY DEF Cut
<1> QED
  BY <1>1, GivenBeforeIs

\* InTurns determines the units: at the first turn where two solutions differ, the turns
\* before it have given the same.
LEMMA TurnsUnique ==
  ASSUME NEW C, NEW list \in Seq(C), NEW rate, NEW all \in Nat,
         NEW u \in [DOMAIN list -> 0..all], InTurns(u, all, list, rate),
         NEW v \in [DOMAIN list -> 0..all], InTurns(v, all, list, rate)
  PROVE  u = v
<1> DEFINE Differ(i, k) == ~((k <= u[i]) <=> (k <= v[i]))
           rounds == {k \in 1..(all + 1) : \E i \in DOMAIN list : Differ(i, k)}
<1>1. DOMAIN list \subseteq Nat /\ \A i \in DOMAIN list : u[i] \in 0..all /\ v[i] \in 0..all
  OBVIOUS
<1>2. ASSUME NEW i \in DOMAIN list, NEW n \in Nat, \A k \in 1..n : ~Differ(i, k)
      PROVE  Lesser(u[i], n) = Lesser(v[i], n)
  <2>1. u[i] \in Nat /\ v[i] \in Nat
    BY <1>1
  <2>2. u[i] < v[i] => n <= u[i]
    <3>1. u[i] < v[i] => u[i] + 1 \in Nat /\ 1 <= u[i] + 1 /\ Differ(i, u[i] + 1)
      BY <2>1
    <3>2. u[i] < v[i] => u[i] + 1 \notin 1..n
      BY <1>2, <3>1
    <3> HIDE DEF Differ
    <3> QED
      BY <2>1, <3>1, <3>2
  <2>3. v[i] < u[i] => n <= v[i]
    <3>1. v[i] < u[i] => v[i] + 1 \in Nat /\ 1 <= v[i] + 1 /\ Differ(i, v[i] + 1)
      BY <2>1
    <3>2. v[i] < u[i] => v[i] + 1 \notin 1..n
      BY <1>2, <3>1
    <3> HIDE DEF Differ
    <3> QED
      BY <2>1, <3>1, <3>2
  <2> QED
    BY <2>1, <2>2, <2>3 DEF Lesser
<1>3. rounds = {}
  <2> SUFFICES ASSUME rounds # {} PROVE FALSE
    OBVIOUS
  <2>1. rounds \subseteq Nat
    OBVIOUS
  <2>2. PICK k \in rounds : \A m \in rounds : k <= m
    BY <2>1, LeastNumber
  <2> DEFINE places == {i \in DOMAIN list : Differ(i, k)}
  <2>3. places \subseteq Nat /\ places # {}
    BY <1>1
  <2>4. PICK i \in places : \A j \in places : i <= j
    BY <2>3, LeastNumber
  <2>5. k \in 1..(all + 1) /\ i \in DOMAIN list /\ Differ(i, k) /\ i \in Nat
    BY <1>1
  <2>6. ASSUME NEW j \in DOMAIN list
        PROVE  Lesser(u[j], Bound(j, i, k)) = Lesser(v[j], Bound(j, i, k))
    <3>1. j \in Nat /\ Bound(j, i, k) \in Nat
      BY <1>1, <2>5 DEF Bound
    <3>2. ASSUME NEW m \in 1..Bound(j, i, k) PROVE ~Differ(j, m)
      <4>1. m \in 1..(all + 1) /\ m <= k
        <5>1. Bound(j, i, k) <= k /\ k \in Nat /\ k <= all + 1
          BY <2>5 DEF Bound
        <5>2. m \in Nat /\ 1 <= m /\ m <= Bound(j, i, k)
          BY <3>1
        <5>3. all \in Nat
          OBVIOUS
        <5> QED
          BY ONLY <5>1, <5>2, <5>3, <3>1
      <4>2. CASE m = k
        <5>1. j < i
          BY <4>2, <2>5, <3>1 DEF Bound
        <5>2. j \notin places
          BY <5>1, <3>1, <2>4, <2>5
        <5> QED
          BY <5>2, <4>2
      <4>3. CASE m # k
        <5>1. ~(k <= m)
          BY <4>1, <4>3, <2>5
        <5>2. m \notin rounds
          BY <5>1, <2>2
        <5> HIDE DEF Differ
        <5> QED
          BY <5>2, <4>1
      <4> QED
        BY <4>2, <4>3
    <3> HIDE DEF Differ
    <3> QED
      BY <3>1, <3>2, <1>2
  <2>7. GivenBefore(u, list, rate, i, k) = GivenBefore(v, list, rate, i, k)
    BY <2>6, SameGiven
  <2>8. /\ k <= u[i] <=> GivenBefore(u, list, rate, i, k) + rate[list[i]] <= all
        /\ k <= v[i] <=> GivenBefore(v, list, rate, i, k) + rate[list[i]] <= all
    BY <2>5 DEF InTurns
  <2> QED
    BY <2>5, <2>7, <2>8
<1>4. ASSUME NEW i \in DOMAIN list PROVE u[i] = v[i]
  <2>1. \A k \in 1..(all + 1) : k <= u[i] <=> k <= v[i]
    BY <1>3
  <2>2. u[i] \in 0..all /\ v[i] \in 0..all
    BY <1>1
  <2>3. u[i] # v[i] => \E k \in 1..(all + 1) : ~(k <= u[i] <=> k <= v[i])
    <3>1. u[i] < v[i] => u[i] + 1 \in 1..(all + 1) /\ ~(u[i] + 1 <= u[i]) /\ u[i] + 1 <= v[i]
      BY <2>2
    <3>2. v[i] < u[i] => v[i] + 1 \in 1..(all + 1) /\ ~(v[i] + 1 <= v[i]) /\ v[i] + 1 <= u[i]
      BY <2>2
    <3>3. u[i] # v[i] => u[i] < v[i] \/ v[i] < u[i]
      BY <2>2
    <3> QED
      BY <3>1, <3>2, <3>3
  <2> QED
    BY <2>1, <2>3
<1> QED
  BY <1>4

-----------------------------------------------------------------------------
(* The loop computes the rule *)

Positive == \A c \in Contracts : daily[c] > 0

\* The rounds in which the i-th contract has had its turn, in the k-th pass.
Rounds(i, k) == IF i < turn THEN k ELSE k - 1

\* What InTurns says, of the turns so far.
TurnsRight(units, k) ==
  \A i \in DOMAIN eligible : \A m \in 1..Rounds(i, k) :
    (m <= units[i]) <=>
      (GivenBefore(units, eligible, daily, i, m) + daily[eligible[i]] <= amount)

\* The k-th pass is going on, and a contract that got nothing in one of its rounds will
\* get nothing more.
SoFar(units, k) ==
  /\ units \in [DOMAIN eligible -> Nat] /\ k \in Nat \ {0}
  /\ \A i \in DOMAIN eligible : totals[eligible[i]] = units[i] * daily[eligible[i]]
  /\ \A i \in DOMAIN eligible : units[i] <= Rounds(i, k)
  /\ \A i \in DOMAIN eligible : units[i] < Rounds(i, k) => left < daily[eligible[i]]
  /\ ~progressed => \A i \in DOMAIN eligible : units[i] <= k - 1
  /\ TurnsRight(units, k)

RuleInv ==
  /\ CentsInv /\ Positive
  /\ pc = "turns" => \E units, k : SoFar(units, k)
  /\ ComputesTheRule

\* The types that the arithmetic below needs.
LEMMA LoopTypes ==
  ASSUME CentsInv
  PROVE  /\ eligible \in Seq(Contracts) /\ DOMAIN eligible = 1..Len(eligible)
         /\ Len(eligible) \in Nat /\ turn \in 1..(Len(eligible) + 1)
         /\ amount \in Nat /\ left \in 0..amount
         /\ daily \in [Contracts -> Nat] /\ totals \in [Contracts -> Nat]
         /\ \A i \in DOMAIN eligible :
              i \in Nat /\ eligible[i] \in Contracts /\ daily[eligible[i]] \in Nat
<1>1. /\ eligible \in Seq(Contracts) /\ turn \in 1..(Len(eligible) + 1)
      /\ amount \in Amounts /\ left \in 0..amount
      /\ daily \in [Contracts -> Nat] /\ totals \in [Contracts -> Nat]
  BY DEF CentsInv, TypeOK
<1>2. DOMAIN eligible = 1..Len(eligible) /\ Len(eligible) \in Nat /\ amount \in Nat
  BY <1>1, AllocationAssumption
<1> QED
  BY <1>1, <1>2

\* What the contracts of the loop have is what is gone.
LEMMA GivenIsGone ==
  ASSUME CentsInv
  PROVE  SumOver([j \in DOMAIN eligible |-> totals[eligible[j]]], DOMAIN eligible) = amount - left
<1>1. Whole(SharesOf) = SumOver(totals, Contracts)
  BY SharesAreGiven
<1>2. DOMAIN SharesOf = DOMAIN eligible
      /\ AmountsOf(SharesOf) = [j \in DOMAIN eligible |-> totals[eligible[j]]]
  BY DEF SharesOf, AmountsOf
<1>3. SumOver(totals, Contracts) \in Int /\ left \in Int /\ amount \in Int
  BY ContractsFinite, SumType, AllocationAssumption DEF CentsInv, TypeOK
<1> QED
  BY <1>1, <1>2, <1>3 DEF CentsInv, Cents, Whole

\* Before a turn that is still to come, all that is gone has been given.
LEMMA GivenBeforeTheRest ==
  ASSUME CentsInv, NEW units, NEW k, SoFar(units, k),
         NEW i \in DOMAIN eligible, NEW m \in Nat, m > Rounds(i, k)
  PROVE  GivenBefore(units, eligible, daily, i, m) = amount - left
<1>1. DOMAIN eligible \subseteq Nat /\ turn \in Nat /\ k \in Nat
  BY LoopTypes DEF SoFar
<1>2. ASSUME NEW j \in DOMAIN eligible
      PROVE  Lesser(units[j], Bound(j, i, m)) = units[j]
  <2>1. units[j] \in Nat /\ units[j] <= Rounds(j, k)
    BY DEF SoFar
  <2>2. j \in Nat /\ i \in Nat
    BY <1>1
  <2>3. Rounds(j, k) <= Bound(j, i, m)
    BY <1>1, <2>2 DEF Rounds, Bound
  <2> QED
    BY <1>1, <2>1, <2>2, <2>3 DEF Lesser, Rounds, Bound
<1>3. \A j \in DOMAIN eligible : totals[eligible[j]] = units[j] * daily[eligible[j]]
  BY DEF SoFar
<1>4. Cut(units, eligible, daily, i, m) = [j \in DOMAIN eligible |-> totals[eligible[j]]]
  BY <1>2, <1>3 DEF Cut
<1> QED
  BY <1>4, GivenBeforeIs, GivenIsGone

\* When nobody can have a unit more, the units are those of the rule.
LEMMA UnitsAreTheRule ==
  ASSUME CentsInv, Positive, NEW units, NEW k, SoFar(units, k),
         \A i \in DOMAIN eligible : left < daily[eligible[i]]
  PROVE  units = UnitsFor(amount, eligible, daily)
<1>1. /\ eligible \in Seq(Contracts) /\ amount \in Nat /\ left \in 0..amount
      /\ daily \in [Contracts -> Nat] /\ totals \in [Contracts -> Nat]
      /\ turn \in Nat /\ k \in Nat \ {0} /\ DOMAIN eligible \subseteq Nat
  BY LoopTypes DEF SoFar
<1>2. \A i \in DOMAIN eligible : eligible[i] \in Contracts
  BY <1>1
<1>3. units \in [DOMAIN eligible -> 0..amount]
  <2> SUFFICES ASSUME NEW i \in DOMAIN eligible PROVE units[i] \in 0..amount
    BY DEF SoFar
  <2>1. PICK c \in Contracts : c = eligible[i]
    BY <1>2
  <2>2. totals[c] <= SumOver(totals, Contracts)
    <3>1. \A e \in Contracts : totals[e] \in Nat
      BY <1>1
    <3>2. SumOver(totals, Contracts) = totals[c] + SumOver(totals, Contracts \ {c})
      BY <3>1, ContractsFinite, SumTakes
    <3>3. SumOver(totals, Contracts \ {c}) \in Nat
      BY <3>1, ContractsFinite, FS_RemoveElement, SumNat
    <3> QED
      BY <3>1, <3>2, <3>3
  <2>3. SumOver(totals, Contracts) <= amount
    <3>1. SumOver(totals, Contracts) \in Int
      BY <1>1, ContractsFinite, SumType
    <3> QED
      BY <1>1, <3>1 DEF CentsInv, Cents
  <2>4. units[i] \in Nat /\ totals[c] = units[i] * daily[c] /\ daily[c] \in Nat /\ daily[c] > 0
    BY <1>1, <2>1 DEF SoFar, Positive
  <2>5. units[i] <= units[i] * daily[c]
    <3>1. \A x, y \in Nat : y > 0 => x <= x * y
      <4> SUFFICES ASSUME NEW x \in Nat, NEW y \in Nat, y > 0 PROVE x <= x * y
        OBVIOUS
      <4>1. PICK z \in Nat : y = z + 1
        BY y - 1 \in Nat
      <4>2. x * (z + 1) = x * z + x /\ x * z \in Nat
        OBVIOUS
      <4> QED
        BY <4>1, <4>2
    <3> QED
      BY <3>1, <2>4
  <2>6. SumOver(totals, Contracts) \in Int /\ totals[c] \in Nat
    BY <1>1, ContractsFinite, SumType
  <2>7. totals[c] <= amount
    BY <1>1, <2>2, <2>3, <2>6
  <2>8. units[i] <= totals[c]
    BY <2>4, <2>5
  <2>9. \A x, y \in Nat : x <= y /\ y <= amount => x \in 0..amount
    BY <1>1
  <2> QED
    BY ONLY <2>4, <2>6, <2>7, <2>8, <2>9
<1>4. InTurns(units, amount, eligible, daily)
  <2> SUFFICES ASSUME NEW i \in DOMAIN eligible, NEW m \in 1..(amount + 1)
               PROVE  (m <= units[i]) <=>
                        (GivenBefore(units, eligible, daily, i, m) + daily[eligible[i]] <= amount)
    BY DEF InTurns
  <2>1. Rounds(i, k) \in Nat /\ units[i] \in Nat /\ units[i] <= Rounds(i, k)
    BY <1>1, <1>3 DEF Rounds, SoFar
  <2>2. CASE m <= Rounds(i, k)
    BY <2>1, <2>2 DEF SoFar, TurnsRight
  <2>3. CASE m > Rounds(i, k)
    <3>1. GivenBefore(units, eligible, daily, i, m) = amount - left
      BY <2>3, GivenBeforeTheRest
    <3>2. PICK d \in Nat : d = daily[eligible[i]] /\ left < d
      BY <1>1, <1>2
    <3>3. ~((amount - left) + d <= amount)
      BY <1>1, <3>2
    <3>4. ~(m <= units[i])
      BY <2>1, <2>3
    <3> QED
      BY <3>1, <3>2, <3>3, <3>4
  <2> QED
    BY <2>1, <2>2, <2>3
<1>5. PICK v : v = UnitsFor(amount, eligible, daily)
  OBVIOUS
<1>6. v \in [DOMAIN eligible -> 0..amount] /\ InTurns(v, amount, eligible, daily)
  BY <1>3, <1>4, <1>5 DEF UnitsFor
<1> QED
  BY <1>1, <1>3, <1>4, <1>5, <1>6, TurnsUnique

\* So the rule gives what the loop has given when that is everything, and asks for approval
\* when something is left.
LEMMA LoopIsTheRule ==
  ASSUME CentsInv, Positive, pc = "turns", NEW units, NEW k, SoFar(units, k),
         \A i \in DOMAIN eligible : left < daily[eligible[i]]
  PROVE  AllocateOver(amount, Eligible(Order, owed), daily)
           = IF left = 0 THEN Allocated(NotEmpty(SharesOf)) ELSE NeedsApproval
<1>1. PICK list : list = eligible
  OBVIOUS
<1>2. /\ list \in Seq(Contracts) /\ Len(list) > 1 /\ Eligible(Order, owed) = list
      /\ left \in Int /\ amount \in Int
  BY <1>1, AllocationAssumption DEF CentsInv, TypeOK, Course
<1>3. list # <<>> /\ Len(list) # 1
  <2>1. \A n \in Nat : n > 1 => n # 0 /\ n # 1
    OBVIOUS
  <2>2. Len(list) \in Nat /\ Len(<<>>) = 0
    BY <1>2
  <2> QED
    BY <2>1, <2>2, <1>2
<1>4. AllocateOver(amount, list, daily) = InTurnsOrApproval(amount, list, daily)
  BY <1>3 DEF AllocateOver
<1>5. UnitsFor(amount, list, daily) = units
  BY <1>1, UnitsAreTheRule
<1> DEFINE share == [i \in DOMAIN list |->
                       [contract |-> list[i], amount |-> units[i] * daily[list[i]]]]
<1>6. InTurnsOrApproval(amount, list, daily) =
        IF MapThenSumSet(LAMBDA i : share[i].amount, DOMAIN list) = amount
        THEN Allocated(NotEmpty(share)) ELSE NeedsApproval
  BY <1>5 DEF InTurnsOrApproval
<1>7. share = SharesOf
  BY <1>1 DEF SoFar, SharesOf
<1>8. [i \in DOMAIN list |-> share[i].amount] = [i \in DOMAIN list |-> totals[list[i]]]
  BY <1>1 DEF SoFar
<1> HIDE DEF share
<1>9. MapThenSumSet(LAMBDA i : share[i].amount, DOMAIN list) = amount - left
  <2>1. MapThenSumSet(LAMBDA i : share[i].amount, DOMAIN list)
          = SumOver([i \in DOMAIN list |-> share[i].amount], DOMAIN list)
    BY SumOfField
  <2> QED
    BY <2>1, <1>1, <1>8, GivenIsGone
<1>10. amount - left = amount <=> left = 0
  BY <1>2
<1> QED
  BY <1>2, <1>4, <1>6, <1>7, <1>9, <1>10

\* The first pass begins: nobody has anything.
LEMMA SoFarStart ==
  ASSUME CentsInv, StartTurns
  PROVE  \E units, k : SoFar(units, k)'
<1>1. /\ eligible' = Eligible(Order, owed) /\ pc = "rules"
      /\ UNCHANGED <<amount, daily, turn, left, totals, progressed>>
  BY DEF StartTurns, inputs
<1>2. PICK list : list = Eligible(Order, owed)
  OBVIOUS
<1>3. list \in Seq(Contracts)
  BY <1>2, EligibleOnce
<1>4. /\ eligible = <<>> /\ turn = 1 /\ daily \in [Contracts -> Nat]
      /\ \A c \in Contracts : totals[c] = 0
  BY <1>1 DEF CentsInv, Course, Cents, TypeOK
<1>5. \A i \in DOMAIN list : i \in Nat /\ ~(i < 1) /\ list[i] \in Contracts
  BY <1>3
<1> DEFINE units == [i \in DOMAIN list |-> 0]
<1>6. eligible' = list /\ turn' = 1 /\ daily' = daily /\ totals' = totals
  BY <1>1, <1>2, <1>4
<1>7. \A i \in DOMAIN list : Rounds(i, 1)' = 0
  BY <1>5, <1>6 DEF Rounds
<1>8. \A i \in DOMAIN list : totals[list[i]] = 0 /\ 0 = units[i] * daily[list[i]]
  <2>1. \A x \in Nat : 0 * x = 0
    OBVIOUS
  <2> QED
    BY <2>1, <1>4, <1>5
<1>9. units \in [DOMAIN list -> Nat] /\ \A i \in DOMAIN list : units[i] = 0
  OBVIOUS
<1> HIDE DEF units
<1>10. TurnsRight(units, 1)'
  <2>1. 1..0 = {}
    OBVIOUS
  <2> QED
    BY <2>1, <1>6, <1>7 DEF TurnsRight
<1>11. SoFar(units, 1)'
  BY <1>6, <1>7, <1>8, <1>9, <1>10 DEF SoFar
<1> QED
  BY <1>11

\* The next pass begins as the one before it has ended.
LEMMA SoFarPass ==
  ASSUME CentsInv, NextPass, NEW units, NEW k, SoFar(units, k)
  PROVE  SoFar(units, k + 1)'
<1>1. /\ turn > Len(eligible) /\ turn' = 1
      /\ UNCHANGED <<amount, daily, eligible, left, totals>>
  BY DEF NextPass, inputs
<1>2. \A i \in DOMAIN eligible : Rounds(i, k) = k /\ Rounds(i, k + 1)' = k
  BY <1>1, LoopTypes DEF Rounds, SoFar
<1>3. k + 1 \in Nat \ {0} /\ (k + 1) - 1 = k
  BY DEF SoFar
<1>4. TurnsRight(units, k + 1)'
  BY <1>1, <1>2 DEF SoFar, TurnsRight
<1> QED
  BY <1>1, <1>2, <1>3, <1>4 DEF SoFar

\* A turn in which what is left does not reach for a unit.
LEMMA SoFarWithout ==
  ASSUME CentsInv, TakeTurn, left < daily[eligible[turn]], NEW units, NEW k, SoFar(units, k)
  PROVE  SoFar(units, k)'
<1>1. PICK t \in DOMAIN eligible : t = turn
  BY LoopTypes DEF TakeTurn
<1>2. turn' = t + 1 /\ UNCHANGED <<amount, daily, eligible>>
  BY <1>1 DEF TakeTurn, inputs
<1>3. PICK d \in Nat : d = daily[eligible[t]]
  BY LoopTypes
<1>4. left \in Nat /\ amount \in Nat /\ left < d
  BY <1>1, <1>3, LoopTypes
<1>5. UNCHANGED <<totals, left, progressed>>
  BY <1>1, <1>3, <1>4 DEF TakeTurn
<1>6. k \in Nat /\ k \in Nat \ {0} /\ \A i \in DOMAIN eligible : i \in Nat /\ units[i] \in Nat
  BY LoopTypes DEF SoFar
<1>7. /\ \A i \in DOMAIN eligible : i # t => Rounds(i, k)' = Rounds(i, k)
      /\ Rounds(t, k) = k - 1 /\ Rounds(t, k)' = k
  BY <1>1, <1>2, <1>6 DEF Rounds
<1>8. units[t] <= k - 1
  BY <1>7 DEF SoFar
<1>9. ASSUME NEW i \in DOMAIN eligible
      PROVE  /\ units[i] <= Rounds(i, k)'
             /\ units[i] < Rounds(i, k)' => left < daily[eligible[i]]
  <2>1. CASE i = t
    BY <2>1, <1>3, <1>4, <1>6, <1>7, <1>8
  <2>2. CASE i # t
    BY <2>2, <1>7 DEF SoFar
  <2> QED
    BY <2>1, <2>2
<1>10. ASSUME NEW i \in DOMAIN eligible, NEW m \in 1..(Rounds(i, k)')
       PROVE  (m <= units[i]) <=>
                (GivenBefore(units, eligible, daily, i, m) + daily[eligible[i]] <= amount)
  <2>1. CASE m \in 1..Rounds(i, k)
    BY <2>1 DEF SoFar, TurnsRight
  <2>2. CASE m \notin 1..Rounds(i, k)
    <3>1. i = t /\ m = k
      BY <2>2, <1>6, <1>7
    <3>2. GivenBefore(units, eligible, daily, t, k) = amount - left
      BY <1>6, <1>7, GivenBeforeTheRest
    <3>3. ~(k <= units[t]) /\ ~((amount - left) + d <= amount)
      BY <1>4, <1>6, <1>8
    <3> QED
      BY <3>1, <3>2, <3>3, <1>3
  <2> QED
    BY <2>1, <2>2
<1>11. TurnsRight(units, k)'
  BY <1>2, <1>10 DEF TurnsRight
<1>12. units \in [DOMAIN eligible' -> Nat]
  BY <1>2 DEF SoFar
<1>13. /\ \A i \in DOMAIN eligible' : totals'[eligible'[i]] = units[i] * daily'[eligible'[i]]
       /\ ~progressed' => \A i \in DOMAIN eligible' : units[i] <= k - 1
  BY <1>2, <1>5 DEF SoFar
<1>14. \A i \in DOMAIN eligible' : /\ units[i] <= Rounds(i, k)'
                                   /\ units[i] < Rounds(i, k)' => left' < daily'[eligible'[i]]
  BY <1>2, <1>5, <1>9
<1> QED
  BY <1>6, <1>11, <1>12, <1>13, <1>14 DEF SoFar

\* A turn in which a unit is given: the contract has had one in every round before.
LEMMA SoFarWith ==
  ASSUME CentsInv, Positive, TakeTurn, ~(left < daily[eligible[turn]]),
         NEW units, NEW k, SoFar(units, k)
  PROVE  \E more : SoFar(more, k)'
<1>1. PICK t \in DOMAIN eligible : t = turn
  BY LoopTypes DEF TakeTurn
<1>2. turn' = t + 1 /\ UNCHANGED <<amount, daily, eligible>>
  BY <1>1 DEF TakeTurn, inputs
<1>3. PICK c \in Contracts : c = eligible[t]
  BY LoopTypes
<1>4. PICK d \in Nat : d = daily[c] /\ d > 0
  BY <1>3, LoopTypes DEF Positive
<1>5. left \in Nat /\ amount \in Nat /\ ~(left < d) /\ totals \in [Contracts -> Nat]
  BY <1>1, <1>3, <1>4, LoopTypes
<1>6. /\ totals' = [totals EXCEPT ![c] = @ + d]
      /\ left' = left - d /\ progressed' = TRUE
  BY <1>1, <1>3, <1>4, <1>5 DEF TakeTurn
<1>7. k \in Nat /\ k \in Nat \ {0} /\ \A i \in DOMAIN eligible : i \in Nat /\ units[i] \in Nat
  BY LoopTypes DEF SoFar
<1>8. /\ \A i \in DOMAIN eligible : i # t => Rounds(i, k)' = Rounds(i, k)
      /\ Rounds(t, k) = k - 1 /\ Rounds(t, k)' = k
  BY <1>1, <1>2, <1>7 DEF Rounds
<1>9. units[t] = k - 1
  <2>1. units[t] <= k - 1
    BY <1>8 DEF SoFar
  <2>2. units[t] < k - 1 => left < d
    BY <1>3, <1>4, <1>8 DEF SoFar
  <2> QED
    BY <2>1, <2>2, <1>5, <1>7
<1>10. PICK more : more = [units EXCEPT ![t] = k]
  OBVIOUS
<1>11. /\ more \in [DOMAIN eligible -> Nat] /\ more[t] = k
       /\ \A i \in DOMAIN eligible : i # t => more[i] = units[i]
  BY <1>7, <1>10 DEF SoFar
<1>12. ASSUME NEW i \in DOMAIN eligible
       PROVE  totals'[eligible[i]] = more[i] * daily[eligible[i]]
  <2>1. CASE i = t
    <3>1. totals[c] = (k - 1) * d /\ totals'[c] = totals[c] + d
      BY <1>3, <1>4, <1>5, <1>6, <1>9 DEF SoFar
    <3>2. \A x, y \in Nat : x > 0 => (x - 1) * y + y = x * y
      <4> SUFFICES ASSUME NEW x \in Nat, NEW y \in Nat, x > 0 PROVE (x - 1) * y + y = x * y
        OBVIOUS
      <4>1. PICK z \in Nat : x = z + 1
        BY x - 1 \in Nat
      <4>2. (z + 1) * y = z * y + y /\ (z + 1) - 1 = z
        OBVIOUS
      <4> QED
        BY <4>1, <4>2
    <3>3. (k - 1) * d + d = k * d
      BY <3>2, <1>7
    <3> QED
      BY <2>1, <3>1, <3>3, <1>3, <1>4, <1>11
  <2>2. CASE i # t
    <3>1. eligible[i] # c /\ eligible[i] \in Contracts
      BY <2>2, <1>3, LoopTypes DEF CentsInv, Course
    <3>2. totals'[eligible[i]] = totals[eligible[i]]
      BY <3>1, <1>5, <1>6
    <3> QED
      BY <2>2, <3>2, <1>11 DEF SoFar
  <2> QED
    BY <2>1, <2>2
<1>13. ASSUME NEW i \in DOMAIN eligible
       PROVE  /\ more[i] <= Rounds(i, k)'
              /\ more[i] < Rounds(i, k)' => left' < daily[eligible[i]]
  <2>1. CASE i = t
    BY <2>1, <1>7, <1>8, <1>11
  <2>2. CASE i # t
    <3>1. /\ more[i] <= Rounds(i, k)'
          /\ more[i] < Rounds(i, k)' => left < daily[eligible[i]]
      BY <2>2, <1>8, <1>11 DEF SoFar
    <3>2. PICK e \in Nat : e = daily[eligible[i]]
      BY LoopTypes
    <3>3. left < e => left - d < e
      BY <1>5, <3>2
    <3> QED
      BY <3>1, <3>2, <3>3, <1>6
  <2> QED
    BY <2>1, <2>2
<1>14. ASSUME NEW i \in DOMAIN eligible, NEW m \in 1..(Rounds(i, k)')
       PROVE  (m <= more[i]) <=>
                (GivenBefore(more, eligible, daily, i, m) + daily[eligible[i]] <= amount)
  <2>1. m \in Nat /\ (m <= k - 1 \/ (m = k /\ i <= t))
    <3>1. Rounds(i, k)' = IF i < t + 1 THEN k ELSE k - 1
      BY <1>2 DEF Rounds
    <3>2. i \in Nat /\ t \in Nat
      BY <1>7
    <3> QED
      BY <3>1, <3>2, <1>7
  <2>2. ASSUME NEW j \in DOMAIN eligible
        PROVE  Lesser(more[j], Bound(j, i, m)) = Lesser(units[j], Bound(j, i, m))
    <3>1. CASE j = t
      <4>1. Bound(t, i, m) <= k - 1 /\ Bound(t, i, m) \in Int
        BY <2>1, <1>7 DEF Bound
      <4> QED
        BY <3>1, <4>1, <1>7, <1>9, <1>11 DEF Lesser
    <3>2. CASE j # t
      BY <3>2, <1>11
    <3> QED
      BY <3>1, <3>2
  <2>3. GivenBefore(more, eligible, daily, i, m) = GivenBefore(units, eligible, daily, i, m)
    BY <2>2, SameGiven
  <2>4. CASE i # t
    <3>1. m \in 1..Rounds(i, k)
      BY <2>4, <1>8
    <3> QED
      BY <2>3, <2>4, <3>1, <1>11 DEF SoFar, TurnsRight
  <2>5. CASE i = t /\ m <= k - 1
    <3>1. m \in 1..Rounds(i, k)
      BY <2>1, <2>5, <1>7, <1>8
    <3>2. m <= units[i] /\ m <= more[i]
      BY <2>1, <2>5, <1>7, <1>9, <1>11
    <3> QED
      BY <2>3, <3>1, <3>2 DEF SoFar, TurnsRight
  <2>6. CASE i = t /\ m = k
    <3>1. GivenBefore(units, eligible, daily, t, k) = amount - left
      BY <1>7, <1>8, GivenBeforeTheRest
    <3>2. k <= more[t] /\ (amount - left) + d <= amount
      BY <1>5, <1>7, <1>11
    <3> QED
      BY <2>3, <2>6, <3>1, <3>2, <1>3, <1>4
  <2> QED
    BY <2>1, <2>4, <2>5, <2>6
<1>15. TurnsRight(more, k)'
  BY <1>2, <1>14 DEF TurnsRight
<1>16. /\ more \in [DOMAIN eligible' -> Nat]
       /\ \A i \in DOMAIN eligible' : totals'[eligible'[i]] = more[i] * daily'[eligible'[i]]
  BY <1>2, <1>11, <1>12
<1>17. \A i \in DOMAIN eligible' : /\ more[i] <= Rounds(i, k)'
                                   /\ more[i] < Rounds(i, k)' => left' < daily'[eligible'[i]]
  BY <1>2, <1>13
<1>18. SoFar(more, k)'
  BY <1>6, <1>7, <1>15, <1>16, <1>17 DEF SoFar
<1> QED
  BY <1>18

-----------------------------------------------------------------------------
\* The answers that the rules give without the loop are those of the rule.
LEMMA RulesAreTheRule ==
  ASSUME CentsInv, Refuse \/ ToTheOnlyOne
  PROVE  ComputesTheRule'
<1>1. /\ resolved = NoRef
      /\ UNCHANGED <<amount, resolved, owed, daily>>
  BY DEF Refuse, ToTheOnlyOne, Return, inputs
<1>2. PICK list : list = Eligible(Order, owed)
  OBVIOUS
<1>3. list = Eligible(Order, owed)' /\ Len(<<>>) = 0
  BY <1>1, <1>2 DEF Eligible
<1>4. CASE Refuse
  <2>1. (amount = 0 \/ list = <<>>) /\ result' = NeedsApproval
    BY <1>2, <1>4 DEF Refuse, Return
  <2> QED
    BY <1>1, <1>3, <2>1 DEF ComputesTheRule, AllocateOver
<1>5. CASE ToTheOnlyOne
  <2>1. Len(list) = 1 /\ result' = Single(list[1], amount)
    BY <1>2, <1>5 DEF ToTheOnlyOne, Return
  <2>2. list # <<>>
    BY <1>3, <2>1
  <2> QED
    BY <1>1, <1>3, <2>1, <2>2 DEF ComputesTheRule, AllocateOver
<1> QED
  BY <1>4, <1>5

\* The loop's answer is that of the rule: nothing is left, or a whole pass gave nothing.
LEMMA LoopAnswersTheRule ==
  ASSUME RuleInv, Finish \/ Uneven
  PROVE  ComputesTheRule'
<1>1. /\ pc = "turns" /\ CentsInv /\ Positive
      /\ UNCHANGED <<amount, resolved, owed, daily>>
  BY DEF Finish, Uneven, Return, RuleInv, inputs
<1>2. PICK units, k : SoFar(units, k)
  BY <1>1 DEF RuleInv
<1>3. \A i \in DOMAIN eligible : left < daily[eligible[i]]
  <2>1. CASE left = 0
    BY <2>1, <1>1, LoopTypes DEF Positive
  <2>2. CASE Uneven
    <3>1. \A i \in DOMAIN eligible : Rounds(i, k) = k
      BY <1>1, <2>2, LoopTypes DEF Uneven, Rounds
    <3>2. \A i \in DOMAIN eligible : units[i] \in Nat /\ units[i] <= k - 1
      BY <1>2, <2>2 DEF Uneven, SoFar
    <3>3. k \in Nat
      BY <1>2 DEF SoFar
    <3>4. \A i \in DOMAIN eligible : units[i] < Rounds(i, k)
      BY <3>1, <3>2, <3>3
    <3> QED
      BY <3>4, <1>2 DEF SoFar
  <2> QED
    BY <2>1, <2>2 DEF Finish
<1>4. AllocateOver(amount, Eligible(Order, owed), daily)
        = IF left = 0 THEN Allocated(NotEmpty(SharesOf)) ELSE NeedsApproval
  BY <1>1, <1>2, <1>3, LoopIsTheRule
<1>5. result' = IF left = 0 THEN Allocated(NotEmpty(SharesOf)) ELSE NeedsApproval
  <2>1. CASE Finish
    BY <2>1 DEF Finish, Return, SharesOf
  <2>2. CASE Uneven
    <3>1. left # 0
      BY <1>1, <2>2, LoopTypes DEF Uneven
    <3> QED
      BY <3>1, <2>2 DEF Uneven, Return
  <2> QED
    BY <2>1, <2>2
<1>6. AllocateOver(amount, Eligible(Order, owed), daily)'
        = AllocateOver(amount, Eligible(Order, owed), daily)
  BY <1>1 DEF Eligible
<1> QED
  BY <1>4, <1>5, <1>6 DEF ComputesTheRule

\* By the steps of the algorithm.
LEMMA RuleNext == RuleInv /\ [Next]_vars => RuleInv'
<1> SUFFICES ASSUME RuleInv, [Next]_vars PROVE RuleInv'
  OBVIOUS
<1>1. CentsInv /\ CentsInv' /\ Positive
  BY CentsNext DEF RuleInv
<1>2. UNCHANGED inputs
  BY DEF Next, ByReference, Refuse, ToTheOnlyOne, StartTurns, TakeTurn, NextPass, Uneven,
         Finish, Return, Returned, vars, inputs
<1>3. Positive'
  BY <1>1, <1>2 DEF Positive, inputs
<1>4. CASE ByReference
  <2>1. pc' = "done" /\ resolved' # NoRef
    BY <1>4 DEF ByReference, Return, inputs
  <2> QED
    BY <2>1, <1>1, <1>3 DEF RuleInv, ComputesTheRule
<1>5. CASE Refuse \/ ToTheOnlyOne
  BY <1>1, <1>3, <1>5, RulesAreTheRule DEF RuleInv, Refuse, ToTheOnlyOne, Return
<1>6. CASE Finish \/ Uneven
  BY <1>1, <1>3, <1>6, LoopAnswersTheRule DEF RuleInv, Finish, Uneven, Return
<1>7. CASE StartTurns \/ TakeTurn \/ NextPass
  <2>1. pc' = "turns"
    BY <1>7 DEF StartTurns, TakeTurn, NextPass
  <2>2. \E units, k : SoFar(units, k)'
    <3>1. CASE StartTurns
      BY <3>1, <1>1, SoFarStart
    <3>2. CASE ~StartTurns
      <4>1. pc = "turns"
        BY <1>7, <3>2 DEF TakeTurn, NextPass
      <4>2. PICK units, k : SoFar(units, k)
        BY <4>1 DEF RuleInv
      <4> QED
        BY <1>1, <1>7, <3>2, <4>2, SoFarWith, SoFarWithout, SoFarPass
    <3> QED
      BY <3>1, <3>2
  <2> QED
    BY <2>1, <2>2, <1>1, <1>3 DEF RuleInv, ComputesTheRule
<1>8. CASE UNCHANGED vars
  BY <1>1, <1>3, <1>8 DEF RuleInv, vars, inputs, ComputesTheRule, Eligible, SoFar, Rounds, TurnsRight
<1> QED
  BY <1>4, <1>5, <1>6, <1>7, <1>8 DEF Next, Returned

\* The loop of _round_robin, which knows what is left and whether the pass has given
\* something, answers what AllocationRules says without a loop, for every list of
\* contracts. The daily amounts must not be stored as nothing: the rule says nothing then,
\* and the loop need not end (the run AllocationReturnsClaim).
THEOREM LoopComputesTheRule ==
  ASSUME \A tenths \in Entered : Stored(tenths) > 0
  PROVE  Spec => []ComputesTheRule
<1>1. Init => RuleInv
  <2> SUFFICES ASSUME Init PROVE RuleInv
    OBVIOUS
  <2>1. PICK entered \in [Contracts -> Entered] :
          daily = [c \in Contracts |-> Stored(entered[c])]
    BY DEF Init
  <2>2. Positive
    BY <2>1 DEF Positive
  <2>3. pc = "rules"
    BY DEF Init
  <2> QED
    BY <2>2, <2>3, CentsInit DEF RuleInv, ComputesTheRule
<1>2. RuleInv => ComputesTheRule
  BY DEF RuleInv
<1> QED
  BY <1>1, <1>2, RuleNext, PTL DEF Spec

=============================================================================

--------------------------- MODULE PaymentLedgerProofs ---------------------------
(***************************************************************************)
(* The properties of PaymentLedger for any number of runs, reviewers,      *)
(* contracts, amounts and faults.                                          *)
(*                                                                         *)
(* None is inductive. LedgerInv adds to them what the runs and reviewers   *)
(* know of the tables:                                                     *)
(*   ReviewInv   a loaded review has two flags that agree, and a payment   *)
(*               loaded as reviewed is still reviewed; audit rows name     *)
(*               payments that exist;                                      *)
(*   RunsInv     the shares of a run are of different contracts and add up *)
(*               to its amount, and its payments are its first shares, one *)
(*               each, as far as its node has come;                        *)
(*   ReceiptsInv the same of its receipts;                                 *)
(*   AloneInv    the remaining amount is what the contracts read so far    *)
(*               owe, as long as nobody else touches the payments;         *)
(*   SettledInv  a remaining amount of nothing was nothing of every        *)
(*               contract read, and only a rejection makes one owe again.  *)
(*   SnapshotInv (at the end) a balance that is held or stored is one the  *)
(*               contract had at or after the payment, unless reviewed.    *)
(* The sums over payments are taken apart with the lemmas of MoneyTheorems. *)
(***************************************************************************)
EXTENDS PaymentLedger, MoneyTheorems

Money == <<payments, audits, review>>

IsASeq(s) == \E S : s \in Seq(S)

\* What EXCEPT needs to know of a row.
IsRow(p) ==
  p = [contract |-> p.contract, amount |-> p.amount, status |-> p.status,
       approval_status |-> p.approval_status,
       requires_manual_review |-> p.requires_manual_review, run |-> p.run]

Rows ==
  /\ IsASeq(payments)
  /\ audits \in Seq(Audit)
  /\ \A i \in DOMAIN payments :
       /\ IsRow(payments[i])
       /\ payments[i].status \in Statuses
       /\ payments[i].requires_manual_review \in BOOLEAN
  /\ \A k \in DOMAIN audits : audits[k].payment \in DOMAIN payments

LoadedSound ==
  \A v \in Reviewers : review[v] # Idle =>
    /\ review[v] \in Loaded
    /\ review[v].payment \in DOMAIN payments
    /\ review[v].status = review[v].approval_status
    /\ review[v].status # "PENDING" => payments[review[v].payment].status # "PENDING"

ReviewInv ==
  /\ review \in [Reviewers -> {Idle} \cup Loaded]
  /\ Rows /\ LoadedSound /\ FlagsAgree /\ NoUnreviewedMoney

\* Append without knowing the type of the elements.
LEMMA AppendAny ==
  ASSUME NEW s, IsASeq(s), NEW e
  PROVE  /\ IsASeq(Append(s, e))
         /\ DOMAIN s = 1..Len(s) /\ Len(s) \in Nat
         /\ DOMAIN Append(s, e) = DOMAIN s \cup {Len(s) + 1}
         /\ \A i \in DOMAIN s : Append(s, e)[i] = s[i]
         /\ Append(s, e)[Len(s) + 1] = e
         /\ Len(s) + 1 \notin DOMAIN s
  <1>1. PICK S : s \in Seq(S)
    BY DEF IsASeq
  <1> DEFINE T == S \cup {e}
  <1>2. s \in Seq(T) /\ e \in T
    BY <1>1
  <1> HIDE DEF T
  <1>3. Append(s, e) \in Seq(T)
    BY <1>2
  <1> QED
    BY <1>2, <1>3 DEF IsASeq

\* The same for a row that is changed in place.
LEMMA ExceptAny ==
  ASSUME NEW s, IsASeq(s), NEW i \in DOMAIN s, NEW e
  PROVE  /\ IsASeq([s EXCEPT ![i] = e])
         /\ DOMAIN [s EXCEPT ![i] = e] = DOMAIN s
         /\ [s EXCEPT ![i] = e][i] = e
         /\ \A j \in DOMAIN s : j # i => [s EXCEPT ![i] = e][j] = s[j]
  <1>1. PICK S : s \in Seq(S)
    BY DEF IsASeq
  <1> DEFINE T == S \cup {e}
  <1>2. s \in Seq(T) /\ e \in T
    BY <1>1
  <1> HIDE DEF T
  <1>3. [s EXCEPT ![i] = e] \in Seq(T)
    BY <1>2
  <1> QED
    BY <1>2, <1>3 DEF IsASeq

\* Nothing is there to begin with.
LEMMA ReviewInvInit == Init => ReviewInv
  <1> SUFFICES ASSUME Init PROVE ReviewInv
    OBVIOUS
  <1>1. payments = <<>> /\ audits = <<>> /\ review = [v \in Reviewers |-> Idle]
    BY DEF Init
  <1>2. <<>> \in Seq({}) /\ <<>> \in Seq(Audit) /\ DOMAIN <<>> = {}
    OBVIOUS
  <1>3. Rows
    BY <1>1, <1>2 DEF Rows, IsASeq
  <1> QED
    BY <1>1, <1>2, <1>3 DEF ReviewInv, LoadedSound, FlagsAgree, NoUnreviewedMoney

\* Steps that touch neither payments, audit rows nor reviews.
LEMMA ReviewInvSame ==
  ASSUME ReviewInv, UNCHANGED Money
  PROVE  ReviewInv'
  BY DEF ReviewInv, Money, Rows, LoadedSound, FlagsAgree, NoUnreviewedMoney, AuditedAs

\* A new payment: PENDING and for manual review, or APPROVED and not.
LEMMA ReviewInvAppend ==
  ASSUME ReviewInv, NEW r, NEW c, NEW money, NEW manual \in BOOLEAN, NEW status \in Statuses,
         status = (IF manual THEN "PENDING" ELSE "APPROVED"),
         payments' = Append(payments, NewPayment(r, c, money, status, manual)),
         UNCHANGED <<audits, review>>
  PROVE  ReviewInv'
  <1> DEFINE row == NewPayment(r, c, money, status, manual)
             n   == Len(payments) + 1
  <1>1. /\ IsRow(row) /\ row.status = status /\ row.approval_status = status
        /\ row.requires_manual_review = manual
    BY DEF NewPayment, IsRow
  <1>2. IsASeq(payments)
    BY DEF ReviewInv, Rows
  <1> HIDE DEF row
  <1>3. /\ IsASeq(payments')
        /\ DOMAIN payments' = DOMAIN payments \cup {n}
        /\ \A i \in DOMAIN payments : payments'[i] = payments[i]
        /\ payments'[n] = row /\ n \notin DOMAIN payments
    BY <1>2, AppendAny DEF row
  <1> HIDE DEF n
  <1>4. Rows'
    BY <1>1, <1>3 DEF ReviewInv, Rows
  <1>5. LoadedSound'
    BY <1>3 DEF ReviewInv, LoadedSound
  <1>6. FlagsAgree'
    BY <1>1, <1>3 DEF ReviewInv, FlagsAgree
  <1>7. \A verdict \in Verdicts : ~AuditedAs(n, verdict)
    BY <1>3 DEF ReviewInv, Rows, AuditedAs
  <1>8. NoUnreviewedMoney'
    BY <1>1, <1>3, <1>7 DEF ReviewInv, NoUnreviewedMoney, AuditedAs, Statuses
  <1> QED
    BY <1>4, <1>5, <1>6, <1>8 DEF ReviewInv

\* A review knows the two flags it has loaded.
LEMMA ReviewInvLoad ==
  ASSUME ReviewInv, NEW v \in Reviewers, Load(v)
  PROVE  ReviewInv'
  <1>1. PICK i \in DOMAIN payments, verdict \in Verdicts :
          review' = [review EXCEPT ![v] =
            [at |-> "loaded", payment |-> i, verdict |-> verdict, status |-> payments[i].status,
             approval_status |-> payments[i].approval_status]]
    BY DEF Load
  <1>2. UNCHANGED <<payments, audits>>
    BY DEF Load, tables
  <1>3. i \in Nat
    BY AppendAny DEF ReviewInv, Rows
  <1>4. /\ payments[i].status \in Statuses
        /\ payments[i].status = payments[i].approval_status
    BY DEF ReviewInv, Rows, FlagsAgree
  <1>5. /\ review' \in [Reviewers -> {Idle} \cup Loaded]
        /\ \A w \in Reviewers \ {v} : review'[w] = review[w]
    BY <1>1, <1>3, <1>4 DEF ReviewInv, Loaded
  <1>6. /\ review'[v] \in Loaded /\ review'[v].payment = i
        /\ review'[v].status = payments[i].status
        /\ review'[v].approval_status = payments[i].approval_status
    BY <1>1, <1>3, <1>4 DEF ReviewInv, Loaded
  <1>7. LoadedSound'
    BY <1>2, <1>4, <1>5, <1>6 DEF ReviewInv, LoadedSound
  <1> QED
    BY <1>2, <1>5, <1>7 DEF ReviewInv, Rows, FlagsAgree, NoUnreviewedMoney, AuditedAs

\* The UPDATE of both flags of a row.
LEMMA FlagsWritten ==
  ASSUME NEW p, IsRow(p), NEW flag
  PROVE  LET q == [p EXCEPT !.status = flag, !.approval_status = flag] IN
         /\ IsRow(q) /\ q.status = flag /\ q.approval_status = flag
         /\ q.requires_manual_review = p.requires_manual_review
         /\ q.contract = p.contract /\ q.amount = p.amount /\ q.run = p.run
  <1> DEFINE one == [p EXCEPT !.status = flag]
             two == [one EXCEPT !.approval_status = flag]
             whole == [contract |-> p.contract, amount |-> p.amount, status |-> flag,
                       approval_status |-> flag,
                       requires_manual_review |-> p.requires_manual_review, run |-> p.run]
  <1>1. PICK a, b, c, d, e, f :
          p = [contract |-> a, amount |-> b, status |-> c, approval_status |-> d,
               requires_manual_review |-> e, run |-> f]
    BY DEF IsRow
  <1>2. two = whole
    <2>1. one = [contract |-> a, amount |-> b, status |-> flag, approval_status |-> d,
                 requires_manual_review |-> e, run |-> f]
      BY <1>1
    <2> HIDE DEF one
    <2>2. two = [contract |-> a, amount |-> b, status |-> flag, approval_status |-> flag,
                 requires_manual_review |-> e, run |-> f]
      BY <2>1
    <2>3. p.contract = a /\ p.amount = b /\ p.requires_manual_review = e /\ p.run = f
      BY <1>1
    <2> QED
      BY <2>2, <2>3
  <1>3. whole.status = flag /\ whole.approval_status = flag /\ IsRow(whole)
        /\ whole.requires_manual_review = p.requires_manual_review
        /\ whole.contract = p.contract /\ whole.amount = p.amount /\ whole.run = p.run
    BY DEF IsRow
  <1> HIDE DEF whole
  <1> QED
    BY <1>2, <1>3

\* What Save does to the row, its neighbours and the log.
SavesRow(v, i, flag) ==
  /\ i = review[v].payment /\ i \in DOMAIN payments
  /\ flag \in Verdicts
  /\ flag = review[v].verdict \/ (flag = payments[i].status /\ review[v].status = review[v].verdict)
  /\ IsASeq(payments') /\ DOMAIN payments' = DOMAIN payments
  /\ \A j \in DOMAIN payments : j # i => payments'[j] = payments[j]
  /\ IsRow(payments'[i])
  /\ payments'[i].status = flag /\ payments'[i].approval_status = flag
  /\ payments'[i].requires_manual_review = payments[i].requires_manual_review
  /\ payments'[i].contract = payments[i].contract /\ payments'[i].amount = payments[i].amount
  /\ payments'[i].run = payments[i].run
  /\ audits' = Append(audits, [payment |-> i, verdict |-> review[v].verdict])
  /\ [payment |-> i, verdict |-> review[v].verdict] \in Audit
  /\ review' = [review EXCEPT ![v] = Idle]

\* One flag decides both columns, and it is a verdict.
LEMMA SaveIs ==
  ASSUME ReviewInv, NEW v \in Reviewers, Save(v)
  PROVE  \E i, flag : SavesRow(v, i, flag)
  <1>1. PICK this, old : this = review[v] /\ old = payments[this.payment]
    OBVIOUS
  <1> DEFINE i    == this.payment
             flag == Assign(old.status, this.status, this.verdict)
             new  == [old EXCEPT !.status = flag, !.approval_status = flag]
             note == [payment |-> i, verdict |-> this.verdict]
  <1>2. /\ this \in Loaded /\ i \in DOMAIN payments
        /\ this.status = this.approval_status /\ this.verdict \in Verdicts
        /\ this.status # "PENDING" => old.status # "PENDING"
    BY <1>1 DEF Save, ReviewInv, LoadedSound, Loaded
  <1>3. IsRow(old) /\ old.status \in Statuses /\ old.status = old.approval_status
    BY <1>1, <1>2 DEF ReviewInv, Rows, FlagsAgree
  <1> HIDE DEF flag
  <1>4. /\ IsRow(new) /\ new.status = flag /\ new.approval_status = flag
        /\ new.requires_manual_review = old.requires_manual_review
        /\ new.contract = old.contract /\ new.amount = old.amount /\ new.run = old.run
    <2> HIDE DEF i
    <2> QED
      BY ONLY <1>3, FlagsWritten, Zenon
  <1>5. /\ flag \in Statuses
        /\ flag = this.verdict \/ (flag = old.status /\ this.status = this.verdict)
    BY <1>2, <1>3 DEF flag, Assign, Verdicts, Statuses
  <1>6. flag \in Verdicts
    BY <1>2, <1>5 DEF Verdicts, Statuses
  <1>7. payments' = [payments EXCEPT ![i] = new]
    BY <1>1, <1>2, <1>3 DEF Save, flag
  <1>8. audits' = Append(audits, note) /\ review' = [review EXCEPT ![v] = Idle]
    BY <1>1 DEF Save
  <1>9. note \in Audit
    BY <1>2 DEF Audit, Loaded
  <1>10. IsASeq(payments)
    BY DEF ReviewInv, Rows
  <1> HIDE DEF new
  <1>11. /\ IsASeq(payments') /\ DOMAIN payments' = DOMAIN payments
         /\ payments'[i] = new
         /\ \A j \in DOMAIN payments : j # i => payments'[j] = payments[j]
    BY <1>2, <1>7, <1>10, ExceptAny
  <1>12. SavesRow(v, i, flag)
    BY <1>1, <1>2, <1>4, <1>5, <1>6, <1>8, <1>9, <1>11 DEF SavesRow
  <1> QED
    BY <1>12

\* The row is reviewed, its neighbours are as they were and the log says so.
LEMMA ReviewInvSave ==
  ASSUME ReviewInv, NEW v \in Reviewers, Save(v)
  PROVE  ReviewInv'
  <1>1. PICK i, flag : SavesRow(v, i, flag)
    BY SaveIs
  <1>2. PICK this, old, new, note :
          /\ this = review[v] /\ old = payments[i] /\ new = payments'[i]
          /\ note = [payment |-> i, verdict |-> this.verdict]
    OBVIOUS
  <1>3. /\ this \in Loaded /\ i \in DOMAIN payments /\ i = this.payment
        /\ this.status = this.approval_status /\ this.verdict \in Verdicts
        /\ this.status # "PENDING" => old.status # "PENDING"
    BY <1>1, <1>2 DEF Save, SavesRow, ReviewInv, LoadedSound, Loaded
  <1>4. IsRow(old) /\ old.status \in Statuses /\ old.status = old.approval_status
    BY <1>2, <1>3 DEF ReviewInv, Rows, FlagsAgree
  <1>5. /\ IsRow(new) /\ new.status = flag /\ new.approval_status = flag
        /\ new.requires_manual_review = old.requires_manual_review
    BY <1>1, <1>2 DEF SavesRow
  <1>6. /\ flag \in Statuses
        /\ flag = this.verdict \/ (flag = old.status /\ this.status = this.verdict)
    BY <1>1, <1>2 DEF SavesRow, Verdicts, Statuses
  <1>7. flag # "PENDING"
    BY <1>1 DEF SavesRow, Verdicts
  <1>8. /\ audits' = Append(audits, note) /\ review' = [review EXCEPT ![v] = Idle]
        /\ note \in Audit
    BY <1>1, <1>2 DEF SavesRow
  <1>9. /\ IsASeq(payments') /\ DOMAIN payments' = DOMAIN payments
        /\ payments'[i] = new
        /\ \A j \in DOMAIN payments : j # i => payments'[j] = payments[j]
    BY <1>1, <1>2 DEF SavesRow
  <1>10. /\ audits' \in Seq(Audit)
         /\ DOMAIN audits' = DOMAIN audits \cup {Len(audits) + 1}
         /\ \A k \in DOMAIN audits : audits'[k] = audits[k]
         /\ audits'[Len(audits) + 1] = note
    BY <1>8 DEF ReviewInv, Rows
  <1>11. note.payment = i /\ note.verdict = this.verdict
    BY <1>2
  <1>12. \A j, verdict : AuditedAs(j, verdict)' <=>
           (AuditedAs(j, verdict) \/ note = [payment |-> j, verdict |-> verdict])
    BY <1>10 DEF AuditedAs
  <1>13. Rows'
    BY <1>2, <1>3, <1>5, <1>6, <1>9, <1>10, <1>11 DEF ReviewInv, Rows
  <1>14. /\ review' \in [Reviewers -> {Idle} \cup Loaded]
         /\ review'[v] = Idle /\ \A w \in Reviewers \ {v} : review'[w] = review[w]
    BY <1>8 DEF ReviewInv
  <1>15. LoadedSound'
    <2> SUFFICES ASSUME NEW w \in Reviewers, review'[w] # Idle
                 PROVE  /\ review'[w] \in Loaded
                        /\ review'[w].payment \in DOMAIN payments'
                        /\ review'[w].status = review'[w].approval_status
                        /\ review'[w].status # "PENDING" =>
                             payments'[review'[w].payment].status # "PENDING"
      BY DEF LoadedSound
    <2>1. review'[w] = review[w]
      BY <1>14
    <2>2. CASE review[w].payment = i
      BY <2>1, <2>2, <1>5, <1>7, <1>9 DEF ReviewInv, LoadedSound
    <2>3. CASE review[w].payment # i
      BY <2>1, <2>3, <1>9 DEF ReviewInv, LoadedSound
    <2> QED
      BY <2>2, <2>3
  <1>16. FlagsAgree'
    BY <1>5, <1>7, <1>9 DEF ReviewInv, FlagsAgree
  <1>17. NoUnreviewedMoney'
    <2> SUFFICES ASSUME NEW j \in DOMAIN payments
                 PROVE  /\ payments'[j].status = "APPROVED" /\ payments'[j].requires_manual_review
                             => AuditedAs(j, "APPROVED")'
                        /\ payments'[j].status = "REJECTED" => AuditedAs(j, "REJECTED")'
                        /\ payments'[j].status = "PENDING" =>
                             \A verdict \in Verdicts : ~AuditedAs(j, verdict)'
      BY <1>9 DEF NoUnreviewedMoney
    <2>1. CASE j # i
      BY <2>1, <1>9, <1>11, <1>12 DEF ReviewInv, NoUnreviewedMoney
    <2>2. CASE j = i
      <3>1. AuditedAs(i, this.verdict)'
        BY <1>12, <1>2
      <3>2. CASE flag = this.verdict
        BY <2>2, <3>1, <3>2, <1>5, <1>7, <1>9
      <3>3. CASE flag = old.status
        <4>1. /\ old.status = "APPROVED" /\ old.requires_manual_review => AuditedAs(i, "APPROVED")
              /\ old.status = "REJECTED" => AuditedAs(i, "REJECTED")
          BY <1>2, <1>3 DEF ReviewInv, NoUnreviewedMoney
        <4>2. \A verdict : AuditedAs(i, verdict) => AuditedAs(i, verdict)'
          BY <1>12
        <4>3. /\ payments'[i].status = old.status /\ old.status # "PENDING"
              /\ payments'[i].requires_manual_review = old.requires_manual_review
          BY <3>3, <1>5, <1>7, <1>9
        <4> QED
          BY <2>2, <4>1, <4>2, <4>3
      <3> QED
        BY <3>2, <3>3, <1>6
    <2> QED
      BY <2>1, <2>2
  <1> QED
    BY <1>13, <1>14, <1>15, <1>16, <1>17 DEF ReviewInv

\* A review that dies leaves nothing.
LEMMA ReviewInvDrop ==
  ASSUME ReviewInv, NEW v \in Reviewers, Drop(v)
  PROVE  ReviewInv'
  <1>1. review' = [review EXCEPT ![v] = Idle] /\ UNCHANGED <<payments, audits>>
    BY DEF Drop, tables
  <1> QED
    BY <1>1 DEF ReviewInv, Rows, LoadedSound, FlagsAgree, NoUnreviewedMoney, AuditedAs

\* By the steps of runs and reviewers.
LEMMA ReviewInvNext == ReviewInv /\ [Next]_vars => ReviewInv'
  <1> SUFFICES ASSUME ReviewInv, [Next]_vars PROVE ReviewInv'
    OBVIOUS
  <1>1. CASE UNCHANGED vars
    BY <1>1, ReviewInvSame DEF vars, tables, Money
  <1>2. ASSUME NEW r \in Runs,
               \/ Understand(r) \/ SkipAllocation(r) \/ AllocateByReference(r) \/ ReadOwed(r)
               \/ AllocateAutomatically(r) \/ CreateNothing(r) \/ ReadBalance(r)
               \/ ReadNewBalance(r) \/ WriteReceipt(r) \/ Decide(r) \/ Fail(r)
        PROVE  ReviewInv'
    <2>1. UNCHANGED Money
      BY <1>2 DEF Money, tables, Understand, SkipAllocation, AllocateByReference, ReadOwed,
           AllocateAutomatically, CreateNothing, ReadBalance, ReadNewBalance, WriteReceipt, Decide, Fail
    <2> QED
      BY <2>1, ReviewInvSame
  <1>3. ASSUME NEW r \in Runs, FileForReview(r)
        PROVE  ReviewInv'
    <2>1. UNCHANGED <<audits, review>>
      BY <1>3 DEF FileForReview
    <2>2. CASE UNCHANGED payments
      BY <2>1, <2>2, ReviewInvSame DEF Money
    <2>3. CASE payments' = Append(payments, NewPayment(r, contract[r], amount[r], "PENDING", TRUE))
      BY <2>1, <2>3, ReviewInvAppend DEF Statuses
    <2> QED
      BY <1>3, <2>2, <2>3 DEF FileForReview
  <1>4. ASSUME NEW r \in Runs, CreatePayment(r)
        PROVE  ReviewInv'
    <2> DEFINE share == shares[r][next[r]]
    <2>1. /\ payments' = Append(payments,
                NewPayment(r, share.contract, share.amount, "APPROVED", FALSE))
          /\ UNCHANGED <<audits, review>>
      BY <1>4 DEF CreatePayment
    <2> HIDE DEF share
    <2> QED
      BY <2>1, ReviewInvAppend DEF Statuses
  <1>5. ASSUME NEW v \in Reviewers, Load(v) \/ Save(v) \/ Drop(v)
        PROVE  ReviewInv'
    BY <1>5, ReviewInvLoad, ReviewInvSave, ReviewInvDrop
  <1> QED
    BY <1>1, <1>2, <1>3, <1>4, <1>5 DEF Next, RunStep

\* Every payment's two flags agree and nothing PENDING is outside the review
\* queue, for any number of runs, reviewers and contracts.
THEOREM FlagsNeverDiverge == Spec => []FlagsAgree
  <1>1. ReviewInv => FlagsAgree
    BY DEF ReviewInv
  <1> QED
    BY <1>1, ReviewInvInit, ReviewInvNext, PTL DEF Spec

\* No payment made for manual review counts as paid, and none is rejected,
\* without the audit row of somebody who decided so.
THEOREM MoneyIsReviewed == Spec => []NoUnreviewedMoney
  <1>1. ReviewInv => NoUnreviewedMoney
    BY DEF ReviewInv
  <1> QED
    BY <1>1, ReviewInvInit, ReviewInvNext, PTL DEF Spec

-----------------------------------------------------------------------------
(***************************************************************************)
(* What the runs put down.                                                 *)
(***************************************************************************)

\* Payment i is the j-th share of run r.
IsShare(i, r, j) ==
  /\ payments[i].run = r
  /\ payments[i].contract = shares[r][j].contract
  /\ payments[i].amount = shares[r][j].amount

\* The payments of a run are its first n shares, each once.
Booked(r, n) ==
  /\ \A j \in 1..n : \E i \in DOMAIN payments : IsShare(i, r, j)
  /\ \A i \in DOMAIN payments : payments[i].run = r => \E j \in 1..n : IsShare(i, r, j)
  /\ \A i, k \in DOMAIN payments :
       payments[i].run = r /\ payments[k].run = r
         /\ payments[i].contract = payments[k].contract => i = k

\* Its only payment, if it has one, is the whole amount and waits for a human.
OneForReview(r) ==
  \A i \in DOMAIN payments : payments[i].run = r =>
    /\ amount[r] # NoAmount /\ payments[i].amount = amount[r]
    /\ payments[i].requires_manual_review
    /\ \A k \in DOMAIN payments : payments[k].run = r => i = k

NoneOf(r) == \A i \in DOMAIN payments : payments[i].run # r

\* The state of a run and what it has put down.
StateOf(r) ==
  /\ next[r] # 0
  /\ held[r] # NoAmount => pc[r] = "receipt"
  /\ shares[r] # <<>> => ~needs[r] /\ amount[r] # NoAmount
  /\ Distinct(shares[r])
  /\ shares[r] # <<>> => Whole(shares[r]) = amount[r]
  /\ pc[r] = "understand" => amount[r] = NoAmount /\ next[r] = 1
  /\ pc[r] \in {"understand", "eligible"} => shares[r] = <<>>
  /\ pc[r] \in {"approval", "create", "balance", "receipt", "decide", "done"} /\ Allocates(r) =>
       shares[r] # <<>>
  /\ pc[r] \in {"understand", "eligible", "approval", "create"} => remaining[r] = NoAmount
  /\ pc[r] = "create" => next[r] = 1 \/ next[r] \in 2..Len(shares[r])
  /\ pc[r] \in {"balance", "receipt"} => shares[r] # <<>> /\ next[r] \in 1..Len(shares[r])
  /\ pc[r] = "balance" => (next[r] = 1 <=> remaining[r] = NoAmount)
  /\ pc[r] \in {"receipt", "decide", "done"} => (remaining[r] # NoAmount <=> shares[r] # <<>>)
  /\ remaining[r] # NoAmount => shares[r] # <<>>
  /\ pc[r] # "done" => decision[r] = "none"
  /\ pc[r] = "done" => decision[r] = IF needs[r] THEN "WAIT_FOR_APPROVAL"
                                     ELSE IF remaining[r] = 0 THEN "CONTRACT_COMPLETED"
                                     ELSE "NO_REMINDER"

PaymentsOf(r) ==
  /\ pc[r] \in {"understand", "eligible", "approval"} => NoneOf(r)
  /\ pc[r] = "create" /\ ~needs[r] => Booked(r, next[r] - 1)
  /\ pc[r] \in {"balance", "receipt", "decide", "done"} /\ ~needs[r] => Booked(r, Len(shares[r]))
  /\ remaining[r] # NoAmount => Booked(r, Len(shares[r]))
  /\ pc[r] \in {"create", "decide", "done"} /\ needs[r] =>
       /\ OneForReview(r)
       /\ contract[r] # NoRef /\ amount[r] # NoAmount => ~NoneOf(r)
  /\ pc[r] = "failed" => \/ needs[r] /\ OneForReview(r)
                         \/ ~needs[r] /\ \E n \in 0..Len(shares[r]) : Booked(r, n)

\* The contracts read so far are different ones that come earlier in Order.
ListedSound(r) ==
  /\ \A i \in DOMAIN listed[r] : \E p \in DOMAIN Order : p < next[r] /\ listed[r][i] = Order[p]
  /\ \A i, j \in DOMAIN listed[r] : listed[r][i] = listed[r][j] => i = j

RunsInv == \A r \in Runs : /\ StateOf(r) /\ PaymentsOf(r)
                           /\ pc[r] \in {"understand", "eligible"} => ListedSound(r)

\* The receipts of run r are for its first n shares, one each.
Written(r, n) ==
  /\ \A j \in 1..n : \E k \in DOMAIN receipts : IsShare(receipts[k].payment, r, j)
  /\ \A k \in UpdatedBalances(r) : \E j \in 1..n : IsShare(receipts[k].payment, r, j)
  /\ \A k, l \in UpdatedBalances(r) : receipts[k].payment = receipts[l].payment => k = l

ReceiptsInv ==
  /\ \A k \in DOMAIN receipts :
       receipts[k].payment \in DOMAIN payments
         /\ receipts[k].contract = payments[receipts[k].payment].contract
  /\ \A r \in Runs :
       /\ pc[r] \notin {"receipt", "decide", "done", "failed"} => Written(r, 0)
       /\ pc[r] = "receipt" => Written(r, next[r] - 1)
       /\ pc[r] \in {"decide", "done"} /\ shares[r] # <<>> => Written(r, Len(shares[r]))

\* The approved payments of a contract among some rows, what they add up to and what it
\* leaves to pay: TotalPaid and Remaining of a table that is a parameter.
ApprovedIn(rows, c) == {i \in DOMAIN rows : rows[i].contract = c /\ rows[i].status = "APPROVED"}
PaidIn(rows, c) == SumOver([i \in ApprovedIn(rows, c) |-> rows[i].amount], ApprovedIn(rows, c))
Balance(rows, c) == Floored(Total[c], PaidIn(rows, c))

\* What the contracts of the first n shares of a list owe.
OwedByFirst(rows, list, n) == SumOver([j \in 1..n |-> Balance(rows, list[j].contract)], 1..n)

AloneInv ==
  \A r \in Runs : Alone(r) =>
    /\ pc[r] = "balance" /\ next[r] > 1 =>
         remaining[r] = OwedByFirst(payments, shares[r], next[r] - 1)
    /\ pc[r] \in {"receipt", "decide", "done"} /\ shares[r] # <<>> =>
         remaining[r] = OwedByFirst(payments, shares[r], Len(shares[r]))
    /\ held[r] # NoAmount => held[r] = Balance(payments, shares[r][next[r]].contract)
    /\ \A k \in UpdatedBalances(r) : receipts[k].new = Balance(payments, receipts[k].contract)

\* A contract owes nothing, or has lost a payment to a rejection.
Settled(rows, log, c) ==
  \/ Balance(rows, c) = 0
  \/ \E p \in DOMAIN rows : rows[p].contract = c
       /\ \E k \in DOMAIN log : log[k] = [payment |-> p, verdict |-> "REJECTED"]

SettledInv ==
  \A r \in Runs : remaining[r] = 0 =>
    /\ pc[r] = "balance" =>
         \A j \in 1..(next[r] - 1) : Settled(payments, audits, shares[r][j].contract)
    /\ pc[r] \in {"receipt", "decide", "done"} =>
         \A j \in DOMAIN shares[r] : Settled(payments, audits, shares[r][j].contract)

LedgerInv == ReviewInv /\ TypeOK /\ RunsInv /\ ReceiptsInv /\ AloneInv /\ SettledInv

-----------------------------------------------------------------------------
(* Types *)

\* What is known of one run.
LEMMA RunType ==
  ASSUME TypeOK, NEW r \in Runs
  PROVE  /\ pc[r] \in Nodes /\ next[r] \in Nat /\ amount[r] \in Amounts \cup {NoAmount}
         /\ contract[r] \in Contracts \cup {NoRef} /\ needs[r] \in BOOLEAN
         /\ listed[r] \in Seq(Contracts) /\ shares[r] \in Seq(Share)
         /\ remaining[r] \in Nat \cup {NoAmount} /\ decision[r] \in Decisions
         /\ amount[r] # NoAmount => amount[r] \in Nat \ {0}
         /\ Len(shares[r]) \in Nat /\ DOMAIN shares[r] = 1..Len(shares[r])
         /\ \A j \in 1..Len(shares[r]) :
              shares[r][j].contract \in Contracts /\ shares[r][j].amount \in Nat
<1>1. shares[r] \in Seq(Share) /\ amount[r] \in Amounts \cup {NoAmount}
  BY DEF TypeOK
<1>2. \A j \in 1..Len(shares[r]) : shares[r][j] \in Share
  BY <1>1
<1>3. \A j \in 1..Len(shares[r]) : shares[r][j].contract \in Contracts /\ shares[r][j].amount \in Nat
  BY <1>2 DEF Share
<1>4. amount[r] # NoAmount => amount[r] \in Nat \ {0}
  BY <1>1, LedgerAssumption
<1>5. Len(shares[r]) \in Nat /\ DOMAIN shares[r] = 1..Len(shares[r])
  BY <1>1
<1> QED
  BY <1>1, <1>3, <1>4, <1>5 DEF TypeOK

\* And of a payment.
LEMMA PaymentType ==
  ASSUME TypeOK
  PROVE  /\ Len(payments) \in Nat /\ DOMAIN payments = 1..Len(payments)
         /\ IsFiniteSet(DOMAIN payments)
         /\ \A i \in DOMAIN payments : /\ payments[i] \in Payment /\ payments[i].amount \in Nat
                                       /\ payments[i].contract \in Contracts
                                       /\ payments[i].run \in Runs
<1>1. payments \in Seq(Payment)
  BY DEF TypeOK
<1>2. \A i \in DOMAIN payments : payments[i] \in Payment
  BY <1>1
<1>3. Len(payments) \in Nat /\ DOMAIN payments = 1..Len(payments)
  BY <1>1
<1>4. IsFiniteSet(DOMAIN payments)
  BY <1>3, FS_Interval
<1> QED
  BY <1>2, <1>3, <1>4 DEF Payment

\* What some payments add up to is a natural number.
LEMMA SomeType ==
  ASSUME TypeOK, NEW S \in SUBSET DOMAIN payments
  PROVE  /\ IsFiniteSet(S)
         /\ SumOver([i \in S |-> payments[i].amount], S) \in Nat
<1>1. IsFiniteSet(S)
  BY PaymentType, FS_Subset
<1>2. \A i \in S : [j \in S |-> payments[j].amount][i] \in Nat
  BY PaymentType
<1> QED
  BY <1>1, <1>2, SumNat

\* The total paid and the balance, now and after a step.
LEMMA TotalPaidIs ==
  ASSUME NEW c
  PROVE  /\ TotalPaid(c) = PaidIn(payments, c) /\ TotalPaid(c)' = PaidIn(payments', c)
         /\ Remaining(c) = Balance(payments, c) /\ Remaining(c)' = Balance(payments', c)
<1>1. TotalPaid(c) = PaidIn(payments, c)
  BY ZenonT(60) DEF TotalPaid, SumOf, MapThenSumSet, MapThenFoldSet, SumOver, PaidIn, ApprovedIn
<1>2. TotalPaid(c)' = PaidIn(payments', c)
  BY ZenonT(60) DEF TotalPaid, SumOf, MapThenSumSet, MapThenFoldSet, SumOver, PaidIn, ApprovedIn
<1> QED
  BY <1>1, <1>2 DEF Remaining, Balance

\* A contract's balance.
LEMMA RemainingType ==
  ASSUME TypeOK, NEW c \in Contracts
  PROVE  /\ TotalPaid(c) \in Nat /\ Remaining(c) \in Nat
         /\ Remaining(c) = 0 <=> Total[c] <= TotalPaid(c)
         /\ TotalPaid(c) <= Total[c] => Remaining(c) = Total[c] - TotalPaid(c)
<1>1. TotalPaid(c) \in Nat
  <2>1. ApprovedIn(payments, c) \in SUBSET DOMAIN payments
    BY DEF ApprovedIn
  <2> QED
    BY <2>1, TotalPaidIs, SomeType DEF PaidIn
<1>2. Total[c] \in Nat
  BY LedgerAssumption
<1> QED
  BY <1>1, <1>2 DEF Remaining, Floored

\* The same payments, with the same contracts, amounts and status, leave the same balance.
LEMMA RemainingSame == ASSUME payments' = payments, NEW c PROVE Remaining(c)' = Remaining(c)
<1>1. TotalPaid(c)' = TotalPaid(c)
  BY TotalPaidIs
<1> QED
  BY <1>1 DEF Remaining

\* The payment of the share whose receipt is next.
LEMMA PaymentOfIs ==
  ASSUME TypeOK, RunsInv, NEW r \in Runs, pc[r] = "receipt"
  PROVE  /\ PaymentOf(r, shares[r][next[r]]) \in DOMAIN payments
         /\ IsShare(PaymentOf(r, shares[r][next[r]]), r, next[r])
<1> DEFINE share == shares[r][next[r]]
<1>1. next[r] \in 1..Len(shares[r]) /\ Booked(r, Len(shares[r]))
  BY DEF RunsInv, StateOf, PaymentsOf
<1>2. PICK i \in DOMAIN payments : IsShare(i, r, next[r])
  BY <1>1 DEF Booked
<1>3. /\ PaymentOf(r, share) \in DOMAIN payments
      /\ payments[PaymentOf(r, share)].run = r
      /\ payments[PaymentOf(r, share)].contract = share.contract
  <2> DEFINE Its(k) == payments[k].run = r /\ payments[k].contract = share.contract
  <2>1. Its(i)
    BY <1>2 DEF IsShare
  <2>2. PaymentOf(r, share) = CHOOSE k \in DOMAIN payments : Its(k)
    BY DEF PaymentOf
  <2> HIDE DEF Its
  <2>3. PaymentOf(r, share) \in DOMAIN payments /\ Its(PaymentOf(r, share))
    BY <2>1, <2>2
  <2> QED
    BY <2>3 DEF Its
<1>4. PaymentOf(r, share) = i
  BY <1>1, <1>2, <1>3 DEF Booked, IsShare
<1> QED
  BY <1>2, <1>4

\* Where a run goes.
LEMMA GotoIs ==
  ASSUME TypeOK, NEW r \in Runs, NEW node \in Nodes, Goto(r, node)
  PROVE  /\ pc' \in [Runs -> Nodes] /\ next' \in [Runs -> Nat]
         /\ held' \in [Runs -> Nat \cup {NoAmount}]
         /\ pc'[r] = node /\ next'[r] = 1 /\ held'[r] = NoAmount
         /\ \A s \in Runs \ {r} : pc'[s] = pc[s] /\ next'[s] = next[s] /\ held'[s] = held[s]
BY DEF TypeOK, Goto

\* To the next position of a list.
LEMMA OnwardIs ==
  ASSUME TypeOK, NEW r \in Runs, Onward(r)
  PROVE  /\ pc' = pc /\ next' \in [Runs -> Nat] /\ held' \in [Runs -> Nat \cup {NoAmount}]
         /\ next'[r] = next[r] + 1 /\ held'[r] = NoAmount
         /\ \A s \in Runs \ {r} : next'[s] = next[s] /\ held'[s] = held[s]
BY DEF TypeOK, Onward

\* In a loop over shares.
LEMMA OnwardOrIs ==
  ASSUME TypeOK, NEW r \in Runs, NEW node \in Nodes, OnwardOr(r, node)
  PROVE  /\ pc' \in [Runs -> Nodes] /\ next' \in [Runs -> Nat]
         /\ held' \in [Runs -> Nat \cup {NoAmount}] /\ held'[r] = NoAmount
         /\ \A s \in Runs \ {r} : pc'[s] = pc[s] /\ next'[s] = next[s] /\ held'[s] = held[s]
         /\ \/ next[r] < Len(shares[r]) /\ pc'[r] = pc[r] /\ next'[r] = next[r] + 1
            \/ ~(next[r] < Len(shares[r])) /\ pc'[r] = node /\ next'[r] = 1
<1>1. pc \in [Runs -> Nodes]
  BY DEF TypeOK
<1> QED
  BY <1>1, GotoIs, OnwardIs DEF OnwardOr

\* Rows are added at the end.
LEMMA AppendTyped ==
  ASSUME NEW S, NEW s \in Seq(S), NEW e \in S
  PROVE  /\ Append(s, e) \in Seq(S) /\ DOMAIN s = 1..Len(s) /\ Len(s) \in Nat
         /\ Len(Append(s, e)) = Len(s) + 1
         /\ DOMAIN Append(s, e) = DOMAIN s \cup {Len(s) + 1} /\ Len(s) + 1 \notin DOMAIN s
         /\ \A i \in DOMAIN s : Append(s, e)[i] = s[i]
         /\ Append(s, e)[Len(s) + 1] = e
OBVIOUS

\* The contracts that were read are different ones, so what allocate answers is whole.
LEMMA AnswerIs ==
  ASSUME TypeOK, RunsInv, NEW r \in Runs, AllocateAutomatically(r)
  PROVE  AllocatesAll(AllocateOver(amount[r], listed[r], Daily), amount[r], Contracts)
<1>1. listed[r] \in Seq(Contracts) /\ amount[r] \in Nat \ {0}
  BY RunType DEF AllocateAutomatically, Allocates
<1>2. \A i, j \in DOMAIN listed[r] : listed[r][i] = listed[r][j] => i = j
  BY DEF RunsInv, ListedSound, AllocateAutomatically
<1>3. Daily \in [Contracts -> Nat]
  BY LedgerAssumption
<1>4. AllocationEnds(amount[r], listed[r], Daily)
  BY DEF AllocateAutomatically
<1> QED
  BY <1>1, <1>2, <1>3, <1>4, AllocateOverAllocatesAll

\* What the steps of a run within the run do to types.
LEMMA RunTypes ==
  ASSUME TypeOK, NEW r \in Runs,
         \/ Understand(r) \/ SkipAllocation(r) \/ AllocateByReference(r) \/ ReadOwed(r)
         \/ AllocateAutomatically(r) \/ CreateNothing(r) \/ ReadBalance(r)
         \/ ReadNewBalance(r) \/ Decide(r) \/ Fail(r),
         RunsInv
  PROVE  TypeOK'
<1>1. /\ review \in [Reviewers -> {Idle} \cup Loaded]
      /\ payments \in Seq(Payment) /\ receipts \in Seq(Receipt) /\ audits \in Seq(Audit)
      /\ reviews \in Nat /\ faults \in Nat
      /\ amount \in [Runs -> Amounts \cup {NoAmount}]
      /\ contract \in [Runs -> Contracts \cup {NoRef}]
      /\ needs \in [Runs -> BOOLEAN]
      /\ listed \in [Runs -> Seq(Contracts)]
      /\ shares \in [Runs -> Seq(Share)]
      /\ remaining \in [Runs -> Nat \cup {NoAmount}]
      /\ decision \in [Runs -> Decisions]
  BY DEF TypeOK
<1>2. CASE Understand(r)
  <2>1. Goto(r, "eligible") /\ UNCHANGED <<listed, shares, remaining, decision, review, tables, reviews, faults>>
    BY <1>2 DEF Understand
  <2>2. PICK a \in Amounts \cup {NoAmount}, confident \in BOOLEAN,
             reference \in Contracts \cup {"none", "unclear"} :
       /\ amount' = [amount EXCEPT ![r] = a]
       /\ contract' = [contract EXCEPT ![r] =
            IF reference \in Contracts THEN reference
            ELSE IF reference = "none" /\ Len(Order) = 1 THEN Order[1] ELSE NoRef]
       /\ needs' = [needs EXCEPT ![r] = ~confident \/ reference = "unclear"]
    BY <1>2 DEF Understand
  <2>3. amount' \in [Runs -> Amounts \cup {NoAmount}] /\ needs' \in [Runs -> BOOLEAN]
    BY <1>1, <2>2
  <2>4. Len(Order) = 1 => Order[1] \in Contracts
    BY LedgerAssumption
  <2>5. contract' \in [Runs -> Contracts \cup {NoRef}]
    BY <1>1, <2>2, <2>4
  <2>6. /\ pc' \in [Runs -> Nodes] /\ next' \in [Runs -> Nat]
        /\ held' \in [Runs -> Nat \cup {NoAmount}]
    BY <2>1, GotoIs DEF Nodes
  <2> QED
    BY <1>1, <2>1, <2>3, <2>5, <2>6 DEF TypeOK, tables
<1>3. CASE SkipAllocation(r) \/ CreateNothing(r) \/ Fail(r)
  <2>1. \E node \in Nodes : Goto(r, node)
    BY <1>3 DEF SkipAllocation, CreateNothing, Fail, Nodes
  <2>2. UNCHANGED <<state, review, tables, reviews>>
    BY <1>3 DEF SkipAllocation, CreateNothing, Fail
  <2>3. faults' \in Nat
    BY <1>1, <1>3 DEF SkipAllocation, CreateNothing, Fail
  <2>4. /\ pc' \in [Runs -> Nodes] /\ next' \in [Runs -> Nat]
        /\ held' \in [Runs -> Nat \cup {NoAmount}]
    BY <2>1, GotoIs
  <2> QED
    BY <1>1, <2>2, <2>3, <2>4 DEF TypeOK, tables, state
<1>4. CASE AllocateByReference(r)
  <2>1. contract[r] \in Contracts /\ amount[r] \in Nat \ {0}
    BY <1>4, RunType DEF AllocateByReference, Allocates
  <2>2. Single(contract[r], amount[r]).allocations \in Seq(Share)
    BY <2>1, SingleAllocatesAll DEF AllocatesAll, Share, ShareOf
  <2>3. shares' \in [Runs -> Seq(Share)]
    BY <1>1, <1>4, <2>2 DEF AllocateByReference
  <2>4. /\ pc' \in [Runs -> Nodes] /\ next' \in [Runs -> Nat]
        /\ held' \in [Runs -> Nat \cup {NoAmount}]
    BY <1>4, GotoIs DEF AllocateByReference, Nodes
  <2> QED
    BY <1>1, <1>4, <2>3, <2>4 DEF TypeOK, tables, AllocateByReference
<1>5. CASE ReadOwed(r)
  <2>1. next[r] \in 1..Len(Order) \/ next[r] = 0
    BY <1>5, RunType DEF ReadOwed
  <2>2. next[r] # 0
    BY DEF RunsInv, StateOf
  <2>3. Order[next[r]] \in Contracts
    BY <2>1, <2>2, LedgerAssumption
  <2>4. Append(listed[r], Order[next[r]]) \in Seq(Contracts)
    BY <2>3, RunType
  <2>5. listed' \in [Runs -> Seq(Contracts)]
    BY <1>1, <1>5, <2>4 DEF ReadOwed
  <2>6. /\ pc' = pc /\ next' \in [Runs -> Nat]
        /\ held' \in [Runs -> Nat \cup {NoAmount}]
    BY <1>5, OnwardIs DEF ReadOwed
  <2> QED
    BY <1>1, <1>5, <2>5, <2>6 DEF TypeOK, tables, ReadOwed
<1>6. CASE AllocateAutomatically(r)
  <2>1. PICK answer : answer = AllocateOver(amount[r], listed[r], Daily)
    OBVIOUS
  <2>2. AllocatesAll(answer, amount[r], Contracts)
    BY <1>6, <2>1, AnswerIs
  <2>3. answer.allocations \in Seq(Share) /\ answer.requires_approval \in BOOLEAN
    BY <2>2 DEF AllocatesAll, Share, ShareOf
  <2>4. /\ shares' = [shares EXCEPT ![r] = answer.allocations]
        /\ needs' = [needs EXCEPT ![r] = answer.requires_approval]
    BY <1>6, <2>1 DEF AllocateAutomatically
  <2>5. shares' \in [Runs -> Seq(Share)] /\ needs' \in [Runs -> BOOLEAN]
    BY <1>1, <2>3, <2>4
  <2>6. /\ pc' \in [Runs -> Nodes] /\ next' \in [Runs -> Nat]
        /\ held' \in [Runs -> Nat \cup {NoAmount}]
    BY <1>6, GotoIs DEF AllocateAutomatically, Nodes
  <2> QED
    BY <1>1, <1>6, <2>5, <2>6 DEF TypeOK, tables, AllocateAutomatically
<1>7. CASE ReadBalance(r)
  <2>1. shares[r][next[r]].contract \in Contracts
    BY <1>7, RunType DEF RunsInv, StateOf, ReadBalance
  <2>2. Remaining(shares[r][next[r]].contract) \in Nat
    BY <2>1, RemainingType
  <2>3. next[r] # 1 => remaining[r] \in Nat
    BY <1>7, RunType DEF RunsInv, StateOf, ReadBalance
  <2>4. remaining' \in [Runs -> Nat \cup {NoAmount}]
    BY <1>1, <1>7, <2>2, <2>3 DEF ReadBalance
  <2>5. /\ pc' \in [Runs -> Nodes] /\ next' \in [Runs -> Nat]
        /\ held' \in [Runs -> Nat \cup {NoAmount}]
    BY <1>7, OnwardOrIs DEF ReadBalance, Nodes
  <2> QED
    BY <1>1, <1>7, <2>4, <2>5 DEF TypeOK, tables, ReadBalance
<1>8. CASE Decide(r)
  <2>1. decision' \in [Runs -> Decisions]
    BY <1>1, <1>8 DEF Decide, Decisions
  <2>2. /\ pc' \in [Runs -> Nodes] /\ next' \in [Runs -> Nat]
        /\ held' \in [Runs -> Nat \cup {NoAmount}]
    BY <1>8, GotoIs DEF Decide, Nodes
  <2> QED
    BY <1>1, <1>8, <2>1, <2>2 DEF TypeOK, tables, Decide
<1>9. CASE ReadNewBalance(r)
  <2>1. shares[r][next[r]].contract \in Contracts
    BY <1>9, RunType DEF RunsInv, StateOf, ReadNewBalance
  <2>2. Remaining(shares[r][next[r]].contract) \in Nat
    BY <2>1, RemainingType
  <2>3. held' \in [Runs -> Nat \cup {NoAmount}]
    BY <1>9, <2>2 DEF ReadNewBalance, TypeOK
  <2> QED
    BY <1>9, <2>3 DEF TypeOK, tables, state, ReadNewBalance
<1> QED
  BY <1>2, <1>3, <1>4, <1>5, <1>6, <1>7, <1>8, <1>9

\* The steps of a run that add rows.
LEMMA RowTypes ==
  ASSUME TypeOK, RunsInv, NEW r \in Runs, FileForReview(r) \/ CreatePayment(r) \/ WriteReceipt(r)
  PROVE  TypeOK'
<1>1. /\ payments \in Seq(Payment) /\ receipts \in Seq(Receipt)
  BY DEF TypeOK
<1>2. CASE FileForReview(r)
  <2>1. contract[r] # NoRef /\ amount[r] # NoAmount =>
          NewPayment(r, contract[r], amount[r], "PENDING", TRUE) \in Payment
    BY RunType DEF NewPayment, Payment, Statuses
  <2>2. payments' \in Seq(Payment)
    BY <1>1, <1>2, <2>1, AppendTyped DEF FileForReview
  <2>3. /\ pc' \in [Runs -> Nodes] /\ next' \in [Runs -> Nat]
        /\ held' \in [Runs -> Nat \cup {NoAmount}]
    BY <1>2, GotoIs DEF FileForReview, Nodes
  <2> QED
    BY <1>2, <2>2, <2>3 DEF TypeOK, state, FileForReview
<1>3. CASE CreatePayment(r)
  <2> DEFINE share == shares[r][next[r]]
  <2>1. next[r] \in 1..Len(shares[r])
    BY <1>3, RunType DEF RunsInv, StateOf, CreatePayment
  <2>2. share.contract \in Contracts /\ share.amount \in Nat
    BY <2>1, RunType
  <2>3. NewPayment(r, share.contract, share.amount, "APPROVED", FALSE) \in Payment
    BY <2>2 DEF NewPayment, Payment, Statuses
  <2>4. payments' \in Seq(Payment)
    BY <1>1, <1>3, <2>3, AppendTyped DEF CreatePayment
  <2>5. /\ pc' \in [Runs -> Nodes] /\ next' \in [Runs -> Nat]
        /\ held' \in [Runs -> Nat \cup {NoAmount}]
    BY <1>3, OnwardOrIs DEF CreatePayment, Nodes
  <2> QED
    BY <1>3, <2>4, <2>5 DEF TypeOK, state, CreatePayment
<1>4. CASE WriteReceipt(r)
  <2> DEFINE share == shares[r][next[r]]
             row == [contract |-> share.contract, amount |-> share.amount,
                     payment |-> PaymentOf(r, share),
                     previous |-> held[r] + share.amount, new |-> held[r]]
  <2>1. next[r] \in 1..Len(shares[r]) /\ pc[r] = "receipt"
    BY <1>4, RunType DEF RunsInv, StateOf, WriteReceipt
  <2>2. share.contract \in Contracts /\ share.amount \in Nat
    BY <2>1, RunType
  <2>3. PaymentOf(r, share) \in Nat
    BY <2>1, PaymentOfIs, PaymentType
  <2>4. held[r] \in Nat
    BY <1>4 DEF TypeOK, WriteReceipt
  <2>5. receipts' = Append(receipts, row)
    BY <1>4 DEF WriteReceipt
  <2>6. row \in Receipt
    <3>1. held[r] + share.amount \in Nat
      BY <2>2, <2>4
    <3> HIDE DEF share
    <3> QED
      BY <2>2, <2>3, <2>4, <3>1 DEF Receipt
  <2> HIDE DEF row
  <2>7. receipts' \in Seq(Receipt)
    BY <1>1, <2>5, <2>6, AppendTyped
  <2>8. /\ pc' \in [Runs -> Nodes] /\ next' \in [Runs -> Nat]
        /\ held' \in [Runs -> Nat \cup {NoAmount}]
    BY <1>4, OnwardOrIs DEF WriteReceipt, Nodes
  <2> QED
    BY <1>4, <2>7, <2>8 DEF TypeOK, state, WriteReceipt
<1> QED
  BY <1>2, <1>3, <1>4

\* A row is a payment because its columns have their types.
LEMMA RowIsPayment ==
  ASSUME NEW p, IsRow(p), p.contract \in Contracts, p.amount \in Nat, p.status \in Statuses,
         p.approval_status \in Statuses, p.requires_manual_review \in BOOLEAN, p.run \in Runs
  PROVE  p \in Payment
BY DEF IsRow, Payment

\* The steps of a reviewer.
LEMMA ReviewTypes ==
  ASSUME TypeOK, ReviewInv, NEW v \in Reviewers, Load(v) \/ Save(v) \/ Drop(v), ReviewInv'
  PROVE  TypeOK'
<1>1. review' \in [Reviewers -> {Idle} \cup Loaded]
  BY DEF ReviewInv
<1>2. CASE Load(v)
  BY <1>1, <1>2 DEF TypeOK, Load, run, state, tables
<1>3. CASE Drop(v)
  BY <1>1, <1>3 DEF TypeOK, Drop, run, state, tables
<1>4. CASE Save(v)
  <2>1. PICK i, flag : SavesRow(v, i, flag)
    BY <1>4, SaveIs
  <2>2. /\ IsASeq(payments') /\ DOMAIN payments' = DOMAIN payments
        /\ \A j \in DOMAIN payments : j # i => payments'[j] = payments[j]
        /\ i \in DOMAIN payments
    BY <2>1 DEF SavesRow
  <2>3. payments'[i] \in Payment
    <3>1. payments[i] \in Payment
      BY <2>2, PaymentType
    <3>2. /\ payments[i].contract \in Contracts /\ payments[i].amount \in Nat
          /\ payments[i].requires_manual_review \in BOOLEAN /\ payments[i].run \in Runs
      BY <3>1 DEF Payment
    <3> QED
      BY <2>1, <3>2, RowIsPayment DEF SavesRow, Verdicts, Statuses
  <2>4. \A j \in DOMAIN payments' : payments'[j] \in Payment
    BY <2>2, <2>3, PaymentType
  <2>5. payments' \in Seq(Payment)
    <3>1. PICK S : payments' \in Seq(S)
      BY <2>2 DEF IsASeq
    <3> QED
      BY <3>1, <2>4
  <2>6. audits' \in Seq(Audit)
    <3>1. audits \in Seq(Audit)
      BY DEF TypeOK
    <3> QED
      BY <3>1, <2>1, AppendTyped DEF SavesRow
  <2> QED
    BY <1>1, <1>4, <2>5, <2>6 DEF TypeOK, Save, run, state
<1> QED
  BY <1>2, <1>3, <1>4

-----------------------------------------------------------------------------
(* What the runs put down stays as it is *)

\* A step leaves the state of run s alone,
StateKept(s) ==
  /\ pc'[s] = pc[s] /\ next'[s] = next[s] /\ held'[s] = held[s] /\ amount'[s] = amount[s]
  /\ contract'[s] = contract[s] /\ needs'[s] = needs[s] /\ listed'[s] = listed[s]
  /\ shares'[s] = shares[s] /\ remaining'[s] = remaining[s] /\ decision'[s] = decision[s]

\* every payment what it is but for its flags,
RowsKept ==
  \A i \in DOMAIN payments :
    /\ i \in DOMAIN payments'
    /\ payments'[i].run = payments[i].run /\ payments'[i].contract = payments[i].contract
    /\ payments'[i].amount = payments[i].amount
    /\ payments'[i].requires_manual_review = payments[i].requires_manual_review

\* and adds none of run s.
NoneAdded(s) == \A i \in DOMAIN payments' \ DOMAIN payments : payments'[i].run # s

\* The shares booked stay booked.
LEMMA BookedKept ==
  ASSUME NEW s, RowsKept, NoneAdded(s), shares'[s] = shares[s], NEW n, Booked(s, n)
  PROVE  Booked(s, n)'
<1>1. \A j : \A i \in DOMAIN payments : IsShare(i, s, j)' <=> IsShare(i, s, j)
  BY DEF IsShare, RowsKept
<1>2. \A i \in DOMAIN payments' : payments'[i].run = s => i \in DOMAIN payments /\ payments[i].run = s
  BY DEF RowsKept, NoneAdded
<1>3. \A j \in 1..n : \E i \in DOMAIN payments' : IsShare(i, s, j)'
  BY <1>1 DEF Booked, RowsKept
<1>4. \A i \in DOMAIN payments' : payments'[i].run = s => \E j \in 1..n : IsShare(i, s, j)'
  BY <1>1, <1>2 DEF Booked
<1>5. \A i, k \in DOMAIN payments' :
        payments'[i].run = s /\ payments'[k].run = s
          /\ payments'[i].contract = payments'[k].contract => i = k
  BY <1>2 DEF Booked, RowsKept
<1> QED
  BY <1>3, <1>4, <1>5 DEF Booked

\* So does the payment for review, or that there is none.
LEMMA ReviewKept ==
  ASSUME NEW s, RowsKept, NoneAdded(s), amount'[s] = amount[s]
  PROVE  /\ OneForReview(s) => OneForReview(s)'
         /\ NoneOf(s) <=> NoneOf(s)'
<1>1. \A i \in DOMAIN payments' : payments'[i].run = s => i \in DOMAIN payments /\ payments[i].run = s
  BY DEF RowsKept, NoneAdded
<1> QED
  BY <1>1 DEF OneForReview, NoneOf, RowsKept

\* What is known of a run that a step leaves alone.
LEMMA StateStays == ASSUME NEW s, StateKept(s), StateOf(s) PROVE StateOf(s)'
<1>1. Distinct(shares[s])' /\ Whole(shares[s])' = Whole(shares[s])
  BY DEF StateOf, StateKept, Distinct, Whole, AmountsOf
<1>2. Allocates(s)' <=> Allocates(s)
  BY DEF StateKept, Allocates
<1> QED
  BY <1>1, <1>2 DEF StateOf, StateKept

\* What it has put down, if nobody adds to it.
LEMMA PaymentsStay ==
  ASSUME NEW s, StateKept(s), RowsKept, NoneAdded(s), PaymentsOf(s)
  PROVE  PaymentsOf(s)'
<1>1. \A n : Booked(s, n) => Booked(s, n)'
  BY BookedKept DEF StateKept
<1>2. (OneForReview(s) => OneForReview(s)') /\ (NoneOf(s) <=> NoneOf(s)')
  BY ReviewKept DEF StateKept
<1> QED
  BY <1>1, <1>2 DEF PaymentsOf, StateKept

\* What RunsInv says of run s.
RunInv(s) == /\ StateOf(s) /\ PaymentsOf(s)
             /\ pc[s] \in {"understand", "eligible"} => ListedSound(s)

\* Both together.
LEMMA RunStays ==
  ASSUME NEW s \in Runs, RunsInv, StateKept(s), RowsKept, NoneAdded(s)
  PROVE  RunInv(s)'
<1>1. StateOf(s)' /\ PaymentsOf(s)'
  BY StateStays, PaymentsStay DEF RunsInv
<1>2. pc'[s] \in {"understand", "eligible"} => ListedSound(s)'
  BY DEF RunsInv, StateKept, ListedSound
<1> QED
  BY <1>1, <1>2 DEF RunInv

\* Payments that nobody touches.
LEMMA RowsStay == ASSUME payments' = payments PROVE RowsKept /\ \A s : NoneAdded(s)
BY DEF RowsKept, NoneAdded

\* A run moves itself only.
LEMMA OthersStay ==
  ASSUME TypeOK, NEW r \in Runs, RunStep(r), NEW s \in Runs \ {r}
  PROVE  StateKept(s)
<1>1. /\ amount \in [Runs -> Amounts \cup {NoAmount}]
      /\ contract \in [Runs -> Contracts \cup {NoRef}]
      /\ needs \in [Runs -> BOOLEAN] /\ listed \in [Runs -> Seq(Contracts)]
      /\ shares \in [Runs -> Seq(Share)] /\ remaining \in [Runs -> Nat \cup {NoAmount}]
      /\ decision \in [Runs -> Decisions]
  BY DEF TypeOK
<1>2. \A node \in Nodes : Goto(r, node) => pc'[s] = pc[s] /\ next'[s] = next[s] /\ held'[s] = held[s]
  BY GotoIs
<1>3. \A node \in Nodes : OnwardOr(r, node) => pc'[s] = pc[s] /\ next'[s] = next[s] /\ held'[s] = held[s]
  BY OnwardOrIs
<1>4. CASE Understand(r)
  BY <1>1, <1>2, <1>4 DEF Understand, StateKept, Nodes
<1>5. CASE SkipAllocation(r) \/ CreateNothing(r) \/ FileForReview(r)
  BY <1>2, <1>5 DEF SkipAllocation, CreateNothing, FileForReview, StateKept, Nodes, state
<1>6. CASE AllocateByReference(r)
  BY <1>1, <1>2, <1>6 DEF AllocateByReference, StateKept, Nodes
<1>7. CASE ReadOwed(r)
  BY <1>1, <1>7, OnwardIs DEF ReadOwed, StateKept
<1>8. CASE AllocateAutomatically(r)
  BY <1>1, <1>2, <1>8 DEF AllocateAutomatically, StateKept, Nodes
<1>9. CASE CreatePayment(r) \/ WriteReceipt(r)
  BY <1>3, <1>9 DEF CreatePayment, WriteReceipt, StateKept, Nodes, state
<1>10. CASE ReadBalance(r)
  BY <1>1, <1>3, <1>10 DEF ReadBalance, StateKept, Nodes
<1>11. CASE Decide(r)
  BY <1>1, <1>2, <1>11 DEF Decide, StateKept, Nodes
<1>12. CASE Fail(r)
  BY <1>2, <1>12 DEF Fail, StateKept, Nodes, state
<1>13. CASE ReadNewBalance(r)
  BY <1>13 DEF ReadNewBalance, StateKept, state, TypeOK
<1> QED
  BY <1>4, <1>5, <1>6, <1>7, <1>8, <1>9, <1>10, <1>11, <1>12, <1>13 DEF RunStep

\* The message is understood; nothing is put down yet.
LEMMA UnderstandKeeps ==
  ASSUME TypeOK, RunsInv, NEW r \in Runs, Understand(r) PROVE RunInv(r)'
<1>1. /\ pc'[r] = "eligible" /\ next'[r] = 1 /\ held'[r] = NoAmount /\ pc[r] = "understand"
      /\ listed' = listed /\ shares' = shares /\ remaining' = remaining /\ decision' = decision
      /\ payments' = payments
  BY GotoIs DEF Understand, Nodes, tables
<1>2. /\ shares[r] = <<>> /\ remaining[r] = NoAmount /\ decision[r] = "none" /\ NoneOf(r)
      /\ ListedSound(r)
  BY <1>1 DEF RunsInv, StateOf, PaymentsOf
<1>3. StateOf(r)'
  BY <1>1, <1>2 DEF StateOf, Distinct
<1>4. NoneOf(r)'
  BY <1>1, <1>2 DEF NoneOf
<1>5. PaymentsOf(r)'
  BY <1>1, <1>2, <1>4 DEF PaymentsOf
<1>6. ListedSound(r)'
  <2>1. next[r] = 1
    BY <1>1 DEF RunsInv, StateOf
  <2> QED
    BY <1>1, <1>2, <2>1 DEF ListedSound
<1> QED
  BY <1>3, <1>5, <1>6 DEF RunInv

\* One contract more is read.
LEMMA ReadOwedKeeps ==
  ASSUME TypeOK, RunsInv, NEW r \in Runs, ReadOwed(r) PROVE RunInv(r)'
<1>1. /\ pc'[r] = "eligible" /\ next'[r] = next[r] + 1 /\ held'[r] = NoAmount /\ pc[r] = "eligible"
      /\ shares' = shares /\ remaining' = remaining /\ decision' = decision
      /\ amount' = amount /\ needs' = needs /\ contract' = contract
      /\ payments' = payments
  BY OnwardIs DEF ReadOwed, tables
<1>2. /\ shares[r] = <<>> /\ remaining[r] = NoAmount /\ decision[r] = "none" /\ NoneOf(r)
      /\ ListedSound(r) /\ next[r] # 0
  BY <1>1 DEF RunsInv, StateOf, PaymentsOf
<1>3. next[r] \in DOMAIN Order /\ next[r] \in Nat
  <2>1. next[r] \in Nat /\ next[r] # 0 /\ next[r] <= Len(Order)
    BY <1>2, RunType DEF ReadOwed
  <2>2. DOMAIN Order = 1..Len(Order) /\ Len(Order) \in Nat
    BY LedgerAssumption
  <2> QED
    BY <2>1, <2>2
<1>4. StateOf(r)'
  BY <1>1, <1>2, <1>3 DEF StateOf, Distinct
<1>5. PaymentsOf(r)'
  BY <1>1, <1>2 DEF PaymentsOf, NoneOf
<1>6. ListedSound(r)'
  <2>1. CASE listed'[r] = listed[r]
    BY <1>1, <1>2, <1>3, <2>1, LedgerAssumption DEF ListedSound
  <2>2. CASE listed'[r] = Append(listed[r], Order[next[r]])
    <3>1. listed[r] \in Seq(Contracts) /\ Order[next[r]] \in Contracts
      BY <1>3, RunType, LedgerAssumption
    <3>2. PICK old, n : old = listed[r] /\ n = Len(old)
      OBVIOUS
    <3>3. /\ DOMAIN listed'[r] = DOMAIN old \cup {n + 1} /\ n + 1 \notin DOMAIN old
          /\ \A i \in DOMAIN old : listed'[r][i] = old[i]
          /\ listed'[r][n + 1] = Order[next[r]]
      BY <2>2, <3>1, <3>2, AppendTyped
    <3>4. \A i \in DOMAIN old : \E p \in DOMAIN Order : p < next[r] /\ old[i] = Order[p]
      BY <1>2, <3>2 DEF ListedSound
    <3>5. DOMAIN Order \subseteq Nat
      BY LedgerAssumption
    <3>6. \A i \in DOMAIN listed'[r] : \E p \in DOMAIN Order : p < next[r] + 1 /\ listed'[r][i] = Order[p]
      BY <1>3, <3>3, <3>4, <3>5
    <3>7. \A i \in DOMAIN old : old[i] # Order[next[r]]
      BY <1>3, <3>4, <3>5, LedgerAssumption
    <3>8. \A i, k \in DOMAIN listed'[r] : listed'[r][i] = listed'[r][k] => i = k
      BY <1>2, <3>2, <3>3, <3>7 DEF ListedSound
    <3> QED
      BY <1>1, <3>6, <3>8 DEF ListedSound
  <2>3. listed \in [Runs -> Seq(Contracts)]
    BY DEF TypeOK
  <2> QED
    BY <2>1, <2>2, <2>3 DEF ReadOwed
<1> QED
  BY <1>4, <1>5, <1>6 DEF RunInv

\* The shares are settled: the whole amount to different contracts, or none.
LEMMA AllocateKeeps ==
  ASSUME TypeOK, RunsInv, NEW r \in Runs,
         SkipAllocation(r) \/ AllocateByReference(r) \/ AllocateAutomatically(r)
  PROVE  RunInv(r)'
<1>1. /\ pc'[r] = "approval" /\ next'[r] = 1 /\ held'[r] = NoAmount /\ pc[r] = "eligible"
      /\ amount' = amount /\ remaining' = remaining /\ decision' = decision
      /\ payments' = payments
  BY GotoIs DEF SkipAllocation, AllocateByReference, AllocateAutomatically, Nodes, tables, state
<1>2. /\ shares[r] = <<>> /\ remaining[r] = NoAmount /\ decision[r] = "none" /\ NoneOf(r)
  BY <1>1 DEF RunsInv, StateOf, PaymentsOf
<1>3. /\ shares'[r] # <<>> => ~needs'[r] /\ amount'[r] # NoAmount /\ Whole(shares'[r]) = amount[r]
      /\ Distinct(shares'[r])
      /\ Allocates(r)' => shares'[r] # <<>>
  <2>1. CASE SkipAllocation(r)
    BY <1>2, <2>1 DEF SkipAllocation, state, Distinct, Allocates
  <2>2. CASE AllocateByReference(r)
    <3>1. contract[r] \in Contracts /\ amount[r] \in Nat \ {0} /\ ~needs[r] /\ amount[r] # NoAmount
      BY <2>2, RunType DEF AllocateByReference, Allocates
    <3>2. PICK answer : answer = Single(contract[r], amount[r])
      OBVIOUS
    <3>3. AllocatesAll(answer, amount[r], Contracts) /\ ~answer.requires_approval
      BY <3>1, <3>2, SingleAllocatesAll DEF Single, Allocated
    <3>4. shares'[r] = answer.allocations /\ needs' = needs
      BY <2>2, <3>2 DEF AllocateByReference, TypeOK
    <3> QED
      BY <1>1, <3>1, <3>3, <3>4 DEF AllocatesAll
  <2>3. CASE AllocateAutomatically(r)
    <3>1. PICK answer : answer = AllocateOver(amount[r], listed[r], Daily)
      OBVIOUS
    <3>2. AllocatesAll(answer, amount[r], Contracts) /\ amount[r] # NoAmount
      BY <2>3, <3>1, AnswerIs DEF AllocateAutomatically, Allocates
    <3>3. shares'[r] = answer.allocations /\ needs'[r] = answer.requires_approval
      BY <2>3, <3>1 DEF AllocateAutomatically, TypeOK
    <3> QED
      BY <1>1, <3>2, <3>3 DEF AllocatesAll, Allocates
  <2> QED
    BY <2>1, <2>2, <2>3
<1>4. Distinct(shares[r])' /\ Whole(shares[r])' = Whole(shares'[r])
  BY <1>3 DEF Distinct, Whole, AmountsOf
<1>5. StateOf(r)'
  BY <1>1, <1>2, <1>3, <1>4 DEF StateOf
<1>6. PaymentsOf(r)'
  BY <1>1, <1>2 DEF PaymentsOf, NoneOf
<1> QED
  BY <1>1, <1>5, <1>6 DEF RunInv

\* A payment for review, or none.
LEMMA FileKeeps ==
  ASSUME TypeOK, RunsInv, NEW r \in Runs, FileForReview(r) PROVE RunInv(r)'
<1>1. /\ pc'[r] = "create" /\ next'[r] = 1 /\ held'[r] = NoAmount
      /\ pc[r] = "approval" /\ state' = state
  BY GotoIs DEF FileForReview, Nodes
<1>2. NoneOf(r) /\ StateOf(r) /\ remaining[r] = NoAmount /\ decision[r] = "none"
  BY <1>1 DEF RunsInv, StateOf, PaymentsOf
<1>3. Distinct(shares[r])' /\ Whole(shares[r])' = Whole(shares[r]) /\ (Allocates(r)' <=> Allocates(r))
  BY <1>1, <1>2 DEF StateOf, Distinct, Whole, AmountsOf, Allocates, state
<1>4. StateOf(r)'
  BY <1>1, <1>2, <1>3 DEF StateOf, state
<1>5. CASE needs[r] /\ contract[r] # NoRef /\ amount[r] # NoAmount
  <2> DEFINE row == NewPayment(r, contract[r], amount[r], "PENDING", TRUE)
             n == Len(payments) + 1
  <2>1. payments' = Append(payments, row)
    BY <1>5 DEF FileForReview
  <2>2. row.run = r /\ row.amount = amount[r] /\ row.requires_manual_review
    BY DEF NewPayment
  <2>3. row \in Payment
    BY <1>5, RunType DEF NewPayment, Payment, Statuses
  <2> HIDE DEF row
  <2>4. /\ DOMAIN payments' = DOMAIN payments \cup {n}
        /\ \A i \in DOMAIN payments : payments'[i] = payments[i]
        /\ payments'[n] = row
    BY <2>1, <2>3, AppendTyped DEF TypeOK
  <2> HIDE DEF n
  <2>5. OneForReview(r)' /\ ~NoneOf(r)'
    BY <1>1, <1>2, <1>5, <2>2, <2>4 DEF OneForReview, NoneOf, state
  <2> QED
    BY <1>1, <1>2, <1>4, <1>5, <2>5 DEF RunInv, PaymentsOf, state
<1>6. CASE ~(needs[r] /\ contract[r] # NoRef /\ amount[r] # NoAmount)
  <2>1. payments' = payments
    BY <1>6 DEF FileForReview
  <2>2. Booked(r, 0)' /\ OneForReview(r)'
    BY <1>2, <2>1 DEF NoneOf, Booked, OneForReview
  <2> QED
    BY <1>1, <1>2, <1>4, <1>6, <2>2 DEF RunInv, PaymentsOf, state
<1> QED
  BY <1>5, <1>6

\* One share more is booked.
LEMMA BookedOneMore ==
  ASSUME TypeOK, NEW r \in Runs, NEW n \in Nat, n + 1 \in 1..Len(shares[r]), Booked(r, n),
         Distinct(shares[r]), NEW row \in Payment, row.run = r,
         row.contract = shares[r][n + 1].contract, row.amount = shares[r][n + 1].amount,
         payments' = Append(payments, row), shares' = shares
  PROVE  Booked(r, n + 1)'
<1>1. PICK new : new = Len(payments) + 1
  OBVIOUS
<1>2. /\ DOMAIN payments' = DOMAIN payments \cup {new} /\ new \notin DOMAIN payments
      /\ \A i \in DOMAIN payments : payments'[i] = payments[i]
      /\ payments'[new] = row
  BY <1>1, AppendTyped DEF TypeOK
<1>3. \A j : \A i \in DOMAIN payments : IsShare(i, r, j)' <=> IsShare(i, r, j)
  BY <1>2 DEF IsShare
<1>4. IsShare(new, r, n + 1)'
  BY <1>2 DEF IsShare
<1>5. 1..(n + 1) = (1..n) \cup {n + 1}
  OBVIOUS
<1>6. \A j \in 1..(n + 1) : \E i \in DOMAIN payments' : IsShare(i, r, j)'
  BY <1>2, <1>3, <1>4, <1>5 DEF Booked
<1>7. \A i \in DOMAIN payments' : payments'[i].run = r => \E j \in 1..(n + 1) : IsShare(i, r, j)'
  BY <1>2, <1>3, <1>4, <1>5 DEF Booked
<1>8. \A i \in DOMAIN payments : payments[i].run = r => payments[i].contract # row.contract
  <2> SUFFICES ASSUME NEW i \in DOMAIN payments, payments[i].run = r,
                      payments[i].contract = row.contract
               PROVE  FALSE
    OBVIOUS
  <2>1. PICK j \in 1..n : shares[r][j].contract = row.contract
    BY DEF Booked, IsShare
  <2>2. j \in DOMAIN shares[r] /\ n + 1 \in DOMAIN shares[r] /\ j # n + 1
    BY RunType
  <2> QED
    BY <2>1, <2>2 DEF Distinct
<1>9. \A i, k \in DOMAIN payments' :
        payments'[i].run = r /\ payments'[k].run = r
          /\ payments'[i].contract = payments'[k].contract => i = k
  BY <1>2, <1>8 DEF Booked
<1> QED
  BY <1>6, <1>7, <1>9 DEF Booked

\* A payment for one share.
LEMMA CreateKeeps ==
  ASSUME TypeOK, RunsInv, NEW r \in Runs, CreatePayment(r) PROVE RunInv(r)'
<1> DEFINE share == shares[r][next[r]]
           row == NewPayment(r, share.contract, share.amount, "APPROVED", FALSE)
<1>1. /\ pc[r] = "create" /\ state' = state /\ ~needs[r] /\ shares[r] # <<>>
      /\ payments' = Append(payments, row) /\ held'[r] = NoAmount
      /\ \/ next[r] < Len(shares[r]) /\ pc'[r] = pc[r] /\ next'[r] = next[r] + 1
         \/ ~(next[r] < Len(shares[r])) /\ pc'[r] = "balance" /\ next'[r] = 1
  BY OnwardOrIs DEF CreatePayment, Nodes
<1>2. /\ StateOf(r) /\ remaining[r] = NoAmount /\ decision[r] = "none"
      /\ Booked(r, next[r] - 1)
  BY <1>1 DEF RunsInv, StateOf, PaymentsOf
<1>3. next[r] \in 1..Len(shares[r]) /\ next[r] - 1 \in Nat /\ Len(shares[r]) \in Nat
  BY <1>1, <1>2, RunType DEF StateOf
<1>4. share.contract \in Contracts /\ share.amount \in Nat
  BY <1>3, RunType
<1>5. /\ row \in Payment /\ row.run = r
      /\ row.contract = share.contract /\ row.amount = share.amount
  BY <1>4 DEF NewPayment, Payment, Statuses
<1> HIDE DEF row
<1>6. PICK m \in Nat : m = next[r]
  BY <1>3
<1>7. Booked(r, m)'
  <2>1. PICK n \in Nat : n = m - 1
    BY <1>3, <1>6
  <2>2. m = n + 1 /\ shares' = shares /\ Booked(r, n)
    BY <1>1, <1>2, <1>3, <1>6, <2>1 DEF state
  <2>3. m \in 1..Len(shares[r]) /\ share = shares[r][m]
    BY <1>3, <1>6
  <2> HIDE DEF share
  <2> QED
    BY <1>1, <1>2, <1>5, <2>2, <2>3, BookedOneMore DEF StateOf
<1>8. StateOf(r)'
  <2>1. Distinct(shares[r])' /\ Whole(shares[r])' = Whole(shares[r]) /\ (Allocates(r)' <=> Allocates(r))
    BY <1>1, <1>2 DEF StateOf, Distinct, Whole, AmountsOf, Allocates, state
  <2> QED
    BY <1>1, <1>2, <1>3, <2>1 DEF StateOf, state
<1>9. PaymentsOf(r)'
  <2>1. CASE next[r] < Len(shares[r])
    <3>1. pc'[r] = "create" /\ next'[r] - 1 = m
      BY <1>1, <1>3, <1>6, <2>1
    <3> QED
      BY <1>1, <1>2, <1>7, <3>1 DEF PaymentsOf, state
  <2>2. CASE ~(next[r] < Len(shares[r]))
    <3>1. pc'[r] = "balance" /\ Len(shares'[r]) = m
      BY <1>1, <1>3, <1>6, <2>2 DEF state
    <3> QED
      BY <1>1, <1>2, <1>7, <3>1 DEF PaymentsOf, state
  <2> QED
    BY <2>1, <2>2
<1> QED
  BY <1>1, <1>8, <1>9 DEF RunInv

\* The nodes that only read, and the end of a run.
LEMMA OnlyReadsKeeps ==
  ASSUME TypeOK, RunsInv, NEW r \in Runs,
         \/ CreateNothing(r) \/ ReadBalance(r) \/ ReadNewBalance(r) \/ WriteReceipt(r)
         \/ Decide(r) \/ Fail(r)
  PROVE  RunInv(r)'
<1>1. /\ payments' = payments /\ shares' = shares /\ amount' = amount /\ needs' = needs
      /\ contract' = contract
  BY DEF CreateNothing, ReadBalance, ReadNewBalance, WriteReceipt, Decide, Fail, state, tables
<1>2. StateOf(r) /\ PaymentsOf(r)
  BY DEF RunsInv
<1>3. /\ \A n : Booked(r, n) => Booked(r, n)'
      /\ OneForReview(r) => OneForReview(r)'
      /\ NoneOf(r) <=> NoneOf(r)'
  BY <1>1, RowsStay, BookedKept, ReviewKept
<1>4. Distinct(shares[r])' /\ Whole(shares[r])' = Whole(shares[r]) /\ (Allocates(r)' <=> Allocates(r))
  BY <1>1, <1>2 DEF StateOf, Distinct, Whole, AmountsOf, Allocates
<1>5. CASE CreateNothing(r)
  <2>1. /\ pc[r] = "create" /\ pc'[r] = "decide" /\ next'[r] = 1 /\ state' = state
        /\ held'[r] = NoAmount
        /\ needs[r] \/ shares[r] = <<>>
    BY <1>5, GotoIs DEF CreateNothing, Nodes
  <2>2. StateOf(r)'
    BY <1>1, <1>2, <1>4, <2>1 DEF StateOf, state
  <2>3. ~needs[r] => Booked(r, Len(shares[r]))
    <3>1. shares[r] = <<>> => next[r] = 1
      BY <1>2, <2>1, RunType DEF StateOf
    <3>2. shares[r] = <<>> => Len(shares[r]) = next[r] - 1
      BY <3>1
    <3> QED
      BY <1>2, <2>1, <3>2 DEF PaymentsOf
  <2>4. PaymentsOf(r)'
    BY <1>1, <1>2, <1>3, <2>1, <2>3 DEF StateOf, PaymentsOf, state
  <2> QED
    BY <2>1, <2>2, <2>4 DEF RunInv
<1>6. CASE ReadBalance(r)
  <2>1. /\ pc[r] = "balance" /\ decision' = decision /\ held'[r] = NoAmount
        /\ \/ next[r] < Len(shares[r]) /\ pc'[r] = pc[r] /\ next'[r] = next[r] + 1
           \/ ~(next[r] < Len(shares[r])) /\ pc'[r] = "receipt" /\ next'[r] = 1
    BY <1>6, OnwardOrIs DEF ReadBalance, Nodes
  <2>2. TypeOK'
    BY <1>6, RunTypes
  <2>3. next[r] \in 1..Len(shares[r]) /\ Len(shares[r]) \in Nat /\ shares[r] # <<>>
    BY <1>2, <2>1, RunType DEF StateOf
  <2>4. remaining'[r] # NoAmount
    <3>1. Remaining(shares[r][next[r]].contract) \in Nat
      BY <2>3, RunType, RemainingType
    <3>2. next[r] # 1 => remaining[r] \in Nat
      BY <1>2, <2>1, RunType DEF StateOf
    <3>3. remaining'[r] \in Nat
      BY <1>6, <3>1, <3>2 DEF ReadBalance, TypeOK
    <3> QED
      BY <3>3, LedgerAssumption
  <2>5. StateOf(r)'
    BY <1>1, <1>2, <1>4, <2>1, <2>3, <2>4 DEF StateOf
  <2>6. PaymentsOf(r)'
    BY <1>1, <1>2, <1>3, <2>1, <2>3 DEF StateOf, PaymentsOf
  <2> QED
    BY <2>1, <2>5, <2>6 DEF RunInv
<1>7. CASE WriteReceipt(r)
  <2>1. /\ pc[r] = "receipt" /\ state' = state /\ held'[r] = NoAmount
        /\ \/ next[r] < Len(shares[r]) /\ pc'[r] = pc[r] /\ next'[r] = next[r] + 1
           \/ ~(next[r] < Len(shares[r])) /\ pc'[r] = "decide" /\ next'[r] = 1
    BY <1>7, OnwardOrIs DEF WriteReceipt, Nodes
  <2>2. next[r] \in 1..Len(shares[r]) /\ Len(shares[r]) \in Nat /\ shares[r] # <<>>
    BY <1>2, <2>1, RunType DEF StateOf
  <2>3. StateOf(r)'
    BY <1>1, <1>2, <1>4, <2>1, <2>2 DEF StateOf, state
  <2>4. PaymentsOf(r)'
    BY <1>1, <1>2, <1>3, <2>1, <2>2 DEF StateOf, PaymentsOf, state
  <2> QED
    BY <2>1, <2>3, <2>4 DEF RunInv
<1>8. CASE Decide(r)
  <2>1. /\ pc[r] = "decide" /\ pc'[r] = "done" /\ next'[r] = 1 /\ remaining' = remaining
        /\ held'[r] = NoAmount
        /\ decision'[r] = IF needs[r] THEN "WAIT_FOR_APPROVAL"
                          ELSE IF remaining[r] = 0 THEN "CONTRACT_COMPLETED" ELSE "NO_REMINDER"
    BY <1>8, GotoIs DEF Decide, Nodes, TypeOK
  <2>2. StateOf(r)'
    BY <1>1, <1>2, <1>4, <2>1 DEF StateOf
  <2>3. PaymentsOf(r)'
    BY <1>1, <1>2, <1>3, <2>1 DEF StateOf, PaymentsOf
  <2> QED
    BY <2>1, <2>2, <2>3 DEF RunInv
<1>9. CASE Fail(r)
  <2>1. /\ pc[r] \notin {"done", "failed"} /\ pc'[r] = "failed" /\ next'[r] = 1 /\ state' = state
        /\ held'[r] = NoAmount
    BY <1>9, GotoIs DEF Fail, Nodes
  <2>2. StateOf(r)'
    BY <1>1, <1>2, <1>4, <2>1 DEF StateOf, state
  <2>3. (needs[r] /\ OneForReview(r)) \/ (~needs[r] /\ \E n \in 0..Len(shares[r]) : Booked(r, n))
    <3>1. 0 \in 0..Len(shares[r]) /\ Len(shares[r]) \in 0..Len(shares[r])
      BY RunType
    <3>2. NoneOf(r) => OneForReview(r) /\ Booked(r, 0)
      BY DEF NoneOf, OneForReview, Booked
    <3>3. pc[r] = "create" => next[r] - 1 \in 0..Len(shares[r])
      BY <1>2, RunType DEF StateOf
    <3>4. pc[r] \in {"understand", "eligible", "approval", "create", "balance", "receipt", "decide"}
      BY <2>1, RunType DEF Nodes
    <3>5. pc[r] \in {"balance", "receipt"} => ~needs[r]
      BY <1>2 DEF StateOf
    <3>6. needs[r] \in BOOLEAN
      BY RunType
    <3> QED
      BY <1>2, <3>1, <3>2, <3>3, <3>4, <3>5, <3>6 DEF PaymentsOf
  <2>4. PaymentsOf(r)'
    BY <1>1, <1>2, <1>3, <2>1, <2>3 DEF PaymentsOf, state
  <2> QED
    BY <2>1, <2>2, <2>4 DEF RunInv
<1>10. CASE ReadNewBalance(r)
  <2>1. /\ pc[r] = "receipt" /\ state' = state /\ pc' = pc /\ next' = next
    BY <1>10 DEF ReadNewBalance
  <2>2. StateOf(r)'
    BY <1>1, <1>2, <1>4, <2>1 DEF StateOf, state
  <2>3. PaymentsOf(r)'
    BY <1>1, <1>2, <1>3, <2>1 DEF PaymentsOf, state
  <2> QED
    BY <2>1, <2>2, <2>3 DEF RunInv
<1> QED
  BY <1>5, <1>6, <1>7, <1>8, <1>9, <1>10

\* A run adds payments of its own only, and changes none.
LEMMA RunRows ==
  ASSUME TypeOK, RunsInv, NEW r \in Runs, RunStep(r)
  PROVE  RowsKept /\ \A s \in Runs \ {r} : NoneAdded(s)
<1>1. CASE payments' = payments
  BY <1>1, RowsStay
<1>2. ASSUME NEW row \in Payment, row.run = r, payments' = Append(payments, row)
      PROVE  RowsKept /\ \A s \in Runs \ {r} : NoneAdded(s)
  <2>1. PICK n : n = Len(payments) + 1
    OBVIOUS
  <2>2. /\ DOMAIN payments' = DOMAIN payments \cup {n}
        /\ \A i \in DOMAIN payments : payments'[i] = payments[i]
        /\ payments'[n] = row
    BY <1>2, <2>1, AppendTyped DEF TypeOK
  <2> QED
    BY <1>2, <2>2 DEF RowsKept, NoneAdded
<1>3. CASE CreatePayment(r)
  <2> DEFINE share == shares[r][next[r]]
             row == NewPayment(r, share.contract, share.amount, "APPROVED", FALSE)
  <2>1. next[r] \in 1..Len(shares[r])
    BY <1>3, RunType DEF RunsInv, StateOf, CreatePayment
  <2>2. share.contract \in Contracts /\ share.amount \in Nat
    BY <2>1, RunType
  <2>3. row \in Payment /\ row.run = r
    BY <2>2 DEF NewPayment, Payment, Statuses
  <2>4. payments' = Append(payments, row)
    BY <1>3 DEF CreatePayment
  <2> HIDE DEF row
  <2> QED
    BY <2>3, <2>4, <1>2
<1>4. CASE FileForReview(r)
  <2> DEFINE row == NewPayment(r, contract[r], amount[r], "PENDING", TRUE)
  <2>1. CASE needs[r] /\ contract[r] # NoRef /\ amount[r] # NoAmount
    <3>1. row \in Payment /\ row.run = r
      BY <2>1, RunType DEF NewPayment, Payment, Statuses
    <3>2. payments' = Append(payments, row)
      BY <1>4, <2>1 DEF FileForReview
    <3> HIDE DEF row
    <3> QED
      BY <3>1, <3>2, <1>2
  <2>2. CASE ~(needs[r] /\ contract[r] # NoRef /\ amount[r] # NoAmount)
    BY <1>4, <2>2, <1>1 DEF FileForReview
  <2> QED
    BY <2>1, <2>2
<1> QED
  BY <1>1, <1>3, <1>4 DEF RunStep, Understand, SkipAllocation, AllocateByReference, ReadOwed,
     AllocateAutomatically, CreateNothing, ReadBalance, ReadNewBalance, WriteReceipt, Decide, Fail, tables

\* A reviewer adds none and changes flags only.
LEMMA ReviewRows ==
  ASSUME ReviewInv, NEW v \in Reviewers, Load(v) \/ Save(v) \/ Drop(v)
  PROVE  RowsKept /\ \A s \in Runs : StateKept(s) /\ NoneAdded(s)
<1>1. \A s \in Runs : StateKept(s)
  BY DEF StateKept, Load, Save, Drop, run, state
<1>2. CASE Load(v) \/ Drop(v)
  BY <1>1, <1>2, RowsStay DEF Load, Drop, tables
<1>3. CASE Save(v)
  <2>1. PICK i, flag : SavesRow(v, i, flag)
    BY <1>3, SaveIs
  <2> QED
    BY <1>1, <2>1 DEF SavesRow, RowsKept, NoneAdded
<1> QED
  BY <1>2, <1>3

\* The step of a run keeps what is known of it,
LEMMA RunInvNext ==
  ASSUME TypeOK, RunsInv, NEW r \in Runs, RunStep(r)
  PROVE  RunInv(r)'
BY UnderstandKeeps, AllocateKeeps, ReadOwedKeeps, FileKeeps, CreateKeeps, OnlyReadsKeeps DEF RunStep

\* and of every other run; so does a reviewer's.
LEMMA RunsInvNext ==
  ASSUME TypeOK, ReviewInv, RunsInv, Next
  PROVE  RunsInv'
<1>1. ASSUME NEW r \in Runs, RunStep(r), NEW s \in Runs PROVE RunInv(s)'
  <2>1. CASE s = r
    BY <1>1, <2>1, RunInvNext
  <2>2. CASE s # r
    BY <1>1, <2>2, OthersStay, RunRows, RunStays
  <2> QED
    BY <2>1, <2>2
<1>2. ASSUME NEW v \in Reviewers, Load(v) \/ Save(v) \/ Drop(v), NEW s \in Runs PROVE RunInv(s)'
  BY <1>2, ReviewRows, RunStays
<1>3. \A s \in Runs : RunInv(s)'
  BY <1>1, <1>2 DEF Next
<1> QED
  BY <1>3 DEF RunsInv, RunInv

\* And every variable keeps its type.
LEMMA LedgerTypesNext ==
  ASSUME TypeOK, ReviewInv, RunsInv, Next
  PROVE  TypeOK'
<1>1. ReviewInv'
  BY ReviewInvNext
<1>2. ASSUME NEW r \in Runs, RunStep(r) PROVE TypeOK'
  BY <1>2, RunTypes, RowTypes DEF RunStep
<1>3. ASSUME NEW v \in Reviewers, Load(v) \/ Save(v) \/ Drop(v) PROVE TypeOK'
  BY <1>1, <1>3, ReviewTypes
<1> QED
  BY <1>2, <1>3 DEF Next

-----------------------------------------------------------------------------
(* Receipts *)

\* A step keeps the receipts that are there and adds none for a payment of run s.
ReceiptsKept(s) ==
  /\ \A k \in DOMAIN receipts : k \in DOMAIN receipts' /\ receipts'[k] = receipts[k]
  /\ \A k \in DOMAIN receipts' \ DOMAIN receipts : payments'[receipts'[k].payment].run # s

\* Receipts are for payments.
ReceiptsFit ==
  \A k \in DOMAIN receipts :
    /\ receipts[k].payment \in DOMAIN payments
    /\ receipts[k].contract = payments[receipts[k].payment].contract

\* The receipts of a run stay what they are if a step adds none for it.
LEMMA WrittenKept ==
  ASSUME NEW s, RowsKept, ReceiptsFit, ReceiptsKept(s),
         NEW n, shares'[s] = shares[s] \/ n = 0, Written(s, n)
  PROVE  Written(s, n)'
<1>1. \A k \in DOMAIN receipts, j \in 1..n :
        IsShare(receipts[k].payment, s, j) <=> IsShare(receipts[k].payment, s, j)'
  <2>1. CASE n = 0
    BY <2>1
  <2>2. CASE shares'[s] = shares[s]
    <3> SUFFICES ASSUME NEW k \in DOMAIN receipts, NEW j \in 1..n
                 PROVE  IsShare(receipts[k].payment, s, j) <=> IsShare(receipts[k].payment, s, j)'
      OBVIOUS
    <3>1. PICK i \in DOMAIN payments : i = receipts[k].payment /\ receipts'[k].payment = i
      BY DEF ReceiptsFit, ReceiptsKept
    <3>2. IsShare(i, s, j) <=> IsShare(i, s, j)'
      BY <2>2 DEF IsShare, RowsKept
    <3> QED
      BY <3>1, <3>2 DEF IsShare
  <2> QED
    BY <2>1, <2>2
<1>2. UpdatedBalances(s)' = UpdatedBalances(s)
  BY DEF UpdatedBalances, RowsKept, ReceiptsFit, ReceiptsKept
<1>3. \A k \in UpdatedBalances(s) : k \in DOMAIN receipts /\ receipts'[k] = receipts[k]
  BY DEF UpdatedBalances, ReceiptsKept
<1>4. \A j \in 1..n : \E k \in DOMAIN receipts' : IsShare(receipts[k].payment, s, j)'
  BY <1>1 DEF Written, ReceiptsKept
<1>5. \A k \in UpdatedBalances(s)' : \E j \in 1..n : IsShare(receipts[k].payment, s, j)'
  BY <1>1, <1>2, <1>3 DEF Written
<1>6. \A k, l \in UpdatedBalances(s)' : receipts'[k].payment = receipts'[l].payment => k = l
  BY <1>2, <1>3 DEF Written
<1> QED
  BY <1>4, <1>5, <1>6 DEF Written

\* No step but WriteReceipt adds a receipt.
LEMMA ReceiptsStay ==
  ASSUME receipts' = receipts
  PROVE  \A s : ReceiptsKept(s)
BY DEF ReceiptsKept

\* Nor do they come to be for other payments.
LEMMA ReceiptsFitKept ==
  ASSUME RowsKept, ReceiptsFit, receipts' = receipts
  PROVE  ReceiptsFit'
BY DEF ReceiptsFit, RowsKept

\* What ReceiptsInv says of run s.
ReceiptsOf(s) ==
  /\ pc[s] \notin {"receipt", "decide", "done", "failed"} => Written(s, 0)
  /\ pc[s] = "receipt" => Written(s, next[s] - 1)
  /\ pc[s] \in {"decide", "done"} /\ shares[s] # <<>> => Written(s, Len(shares[s]))

\* Steps of others.
LEMMA ReceiptsOfOthers ==
  ASSUME NEW s, StateKept(s), RowsKept, ReceiptsFit, ReceiptsKept(s), ReceiptsOf(s)
  PROVE  ReceiptsOf(s)'
<1>1. \A n : Written(s, n) => Written(s, n)'
  BY WrittenKept DEF StateKept
<1> QED
  BY <1>1 DEF ReceiptsOf, StateKept

\* The steps of a run before and after its receipts.
LEMMA ReceiptsOfRun ==
  ASSUME TypeOK, RunsInv, NEW r \in Runs, RunStep(r), ~WriteReceipt(r), ReceiptsFit, ReceiptsOf(r)
  PROVE  ReceiptsFit' /\ ReceiptsOf(r)' /\ receipts' = receipts
<1>1. receipts' = receipts
  BY DEF RunStep, Understand, SkipAllocation, AllocateByReference, ReadOwed,
     AllocateAutomatically, FileForReview, CreateNothing, CreatePayment, ReadBalance, ReadNewBalance, Decide, Fail,
     tables
<1>2. RowsKept
  BY RunRows
<1>3. ReceiptsFit' /\ ReceiptsKept(r)
  BY <1>1, <1>2, ReceiptsStay, ReceiptsFitKept
<1>4. Written(r, 0) => Written(r, 0)'
  BY <1>2, <1>3, WrittenKept
<1>5. \A node \in Nodes : Goto(r, node) => pc'[r] = node /\ next'[r] = 1
  BY GotoIs
<1>6. \A node \in Nodes : OnwardOr(r, node) =>
        \/ pc'[r] = pc[r]
        \/ pc'[r] = node /\ next'[r] = 1
  BY OnwardOrIs
<1>7. CASE \/ Understand(r) \/ SkipAllocation(r) \/ AllocateByReference(r) \/ ReadOwed(r)
           \/ AllocateAutomatically(r) \/ FileForReview(r) \/ CreatePayment(r)
  <2>1. pc[r] \in {"understand", "eligible", "approval", "create"}
    BY <1>7 DEF Understand, SkipAllocation, AllocateByReference, ReadOwed,
       AllocateAutomatically, FileForReview, CreatePayment
  <2>2. pc'[r] \in {"eligible", "approval", "create", "balance"}
    BY <1>5, <1>6, <1>7, OnwardIs DEF Understand, SkipAllocation, AllocateByReference, ReadOwed,
       AllocateAutomatically, FileForReview, CreatePayment, Nodes
  <2> QED
    BY <1>1, <1>3, <1>4, <2>1, <2>2 DEF ReceiptsOf
<1>8. CASE CreateNothing(r)
  <2>1. pc'[r] = "decide" /\ pc[r] = "create" /\ shares' = shares
    BY <1>5, <1>8 DEF CreateNothing, Nodes, state
  <2>2. shares[r] = <<>>
    BY <1>8 DEF CreateNothing, RunsInv, StateOf
  <2> QED
    BY <1>1, <1>3, <2>1, <2>2 DEF ReceiptsOf
<1>9. CASE ReadBalance(r)
  <2>1. /\ pc[r] = "balance" /\ shares' = shares
        /\ pc'[r] = "balance" \/ (pc'[r] = "receipt" /\ next'[r] - 1 = 0)
    BY <1>6, <1>9 DEF ReadBalance, Nodes
  <2> QED
    BY <1>1, <1>3, <1>4, <2>1 DEF ReceiptsOf
<1>10. CASE Decide(r) \/ Fail(r)
  <2>1. /\ shares' = shares
        /\ pc'[r] = "failed" \/ (pc[r] = "decide" /\ pc'[r] = "done")
    BY <1>5, <1>10 DEF Decide, Fail, Nodes, state
  <2>2. \A n : Written(r, n) => Written(r, n)'
    BY <1>2, <1>3, <2>1, WrittenKept
  <2> QED
    BY <1>1, <1>3, <2>1, <2>2 DEF ReceiptsOf
<1>11. CASE ReadNewBalance(r)
  <2>1. shares' = shares /\ pc' = pc /\ next' = next
    BY <1>11 DEF ReadNewBalance, state
  <2>2. \A n : Written(r, n) => Written(r, n)'
    BY <1>2, <1>3, <2>1, WrittenKept
  <2> QED
    BY <1>1, <1>3, <2>1, <2>2 DEF ReceiptsOf
<1> QED
  BY <1>7, <1>8, <1>9, <1>10, <1>11 DEF RunStep

\* What WriteReceipt adds.
AddsReceipt(r, i, k) ==
  /\ i \in DOMAIN payments /\ IsShare(i, r, next[r])
  /\ next[r] \in 1..Len(shares[r])
  /\ DOMAIN receipts' = DOMAIN receipts \cup {k} /\ k \notin DOMAIN receipts
  /\ \A l \in DOMAIN receipts : receipts'[l] = receipts[l]
  /\ receipts'[k].payment = i /\ receipts'[k].contract = payments[i].contract
  /\ receipts'[k].new = held[r] /\ held[r] # NoAmount
  /\ receipts'[k].previous = held[r] + payments[i].amount
  /\ k = Len(receipts') /\ Len(receipts') > Len(receipts)

\* The receipt is for the share's own payment and has the balance that was read.
LEMMA WriteReceiptIs ==
  ASSUME TypeOK, RunsInv, NEW r \in Runs, WriteReceipt(r)
  PROVE  \E i, k : AddsReceipt(r, i, k)
<1>1. PICK share : share = shares[r][next[r]]
  OBVIOUS
<1>2. PICK i : i = PaymentOf(r, share)
  OBVIOUS
<1>3. next[r] \in 1..Len(shares[r]) /\ pc[r] = "receipt"
  BY DEF RunsInv, StateOf, WriteReceipt
<1>4. i \in DOMAIN payments /\ IsShare(i, r, next[r])
  BY <1>1, <1>2, <1>3, PaymentOfIs
<1>5. payments[i].contract = share.contract /\ payments[i].amount = share.amount
  BY <1>1, <1>4 DEF IsShare
<1> DEFINE row == [contract |-> share.contract, amount |-> share.amount, payment |-> i,
                   previous |-> held[r] + share.amount, new |-> held[r]]
<1>6. receipts' = Append(receipts, row)
  BY <1>1, <1>2 DEF WriteReceipt
<1>7. /\ row.payment = i /\ row.contract = share.contract
      /\ row.new = held[r] /\ row.previous = held[r] + share.amount
  OBVIOUS
<1> HIDE DEF row
<1>8. PICK k : k = Len(receipts) + 1
  OBVIOUS
<1>9. receipts \in Seq(Receipt)
  BY DEF TypeOK
<1>10. \E S : receipts \in Seq(S) /\ row \in S
  <2>1. receipts \in Seq(Receipt \cup {row})
    BY <1>9
  <2> QED
    BY <2>1
<1>11. /\ DOMAIN receipts' = DOMAIN receipts \cup {k} /\ k \notin DOMAIN receipts
       /\ \A l \in DOMAIN receipts : receipts'[l] = receipts[l]
       /\ receipts'[k] = row /\ Len(receipts') = k /\ Len(receipts) \in Nat
  BY <1>6, <1>8, <1>10, AppendTyped
<1>12. held[r] # NoAmount
  BY DEF WriteReceipt
<1>13. AddsReceipt(r, i, k)
  BY <1>12, <1>3, <1>4, <1>5, <1>7, <1>8, <1>11 DEF AddsReceipt
<1> QED
  BY <1>13

\* It is the run's first for that share, so each share has one.
LEMMA WriteReceiptKeeps ==
  ASSUME TypeOK, RunsInv, NEW r \in Runs, WriteReceipt(r), ReceiptsFit, ReceiptsOf(r)
  PROVE  ReceiptsFit' /\ ReceiptsOf(r)' /\ \A s \in Runs \ {r} : ReceiptsKept(s)
<1>1. PICK i, k : AddsReceipt(r, i, k)
  BY WriteReceiptIs
<1>2. payments' = payments /\ shares' = shares /\ pc[r] = "receipt"
  BY DEF WriteReceipt, state
<1>3. ReceiptsFit'
  BY <1>1, <1>2 DEF ReceiptsFit, AddsReceipt
<1>4. payments[i].run = r
  BY <1>1 DEF AddsReceipt, IsShare
<1>5. \A s \in Runs \ {r} : ReceiptsKept(s)
  BY <1>1, <1>2, <1>4 DEF ReceiptsKept, AddsReceipt
<1>6. Written(r, next[r] - 1)
  BY <1>2 DEF ReceiptsOf
<1>7. PICK n \in Nat : n = next[r] /\ n \in 1..Len(shares[r])
  BY <1>1, RunType DEF AddsReceipt
<1>8. \A p, j : IsShare(p, r, j)' <=> IsShare(p, r, j)
  BY <1>2 DEF IsShare
<1>9. UpdatedBalances(r)' = UpdatedBalances(r) \cup {k}
  BY <1>1, <1>2, <1>4 DEF UpdatedBalances, AddsReceipt
<1>10. \A l \in UpdatedBalances(r) : l \in DOMAIN receipts /\ receipts'[l] = receipts[l]
  BY <1>1 DEF UpdatedBalances, AddsReceipt
<1>11. 1..n = (1..(n - 1)) \cup {n} /\ n \notin 1..(n - 1)
  BY <1>7
<1>12. IsShare(i, r, n) /\ receipts'[k].payment = i
  BY <1>1, <1>7 DEF AddsReceipt
<1>13. \A l \in UpdatedBalances(r) : receipts[l].payment # i
  <2> SUFFICES ASSUME NEW l \in UpdatedBalances(r), receipts[l].payment = i PROVE FALSE
    OBVIOUS
  <2>1. PICK j \in 1..(n - 1) : IsShare(i, r, j)
    BY <1>6, <1>7 DEF Written
  <2>2. shares[r][j].contract = shares[r][n].contract
    BY <2>1, <1>12 DEF IsShare
  <2>3. j \in DOMAIN shares[r] /\ n \in DOMAIN shares[r] /\ j # n
    BY <1>7, RunType
  <2> QED
    BY <2>2, <2>3 DEF RunsInv, StateOf, Distinct
<1>14. Written(r, n)'
  <2>1. \A j \in 1..n : \E l \in DOMAIN receipts' : IsShare(receipts[l].payment, r, j)'
    <3>1. \A j \in 1..(n - 1) : \E l \in DOMAIN receipts : IsShare(receipts[l].payment, r, j)
      BY <1>6, <1>7 DEF Written
    <3>2. k \in DOMAIN receipts' /\ DOMAIN receipts \subseteq DOMAIN receipts'
      BY <1>1 DEF AddsReceipt
    <3>3. IsShare(receipts[k].payment, r, n)'
      BY <1>2, <1>12 DEF IsShare
    <3>4. ASSUME NEW j \in 1..(n - 1) PROVE \E l \in DOMAIN receipts' : IsShare(receipts[l].payment, r, j)'
      <4>1. PICK l \in DOMAIN receipts : IsShare(receipts[l].payment, r, j)
        BY <3>1
      <4>2. receipts'[l] = receipts[l]
        BY <1>1 DEF AddsReceipt
      <4>3. IsShare(receipts[l].payment, r, j)'
        BY <1>2, <4>1, <4>2 DEF IsShare
      <4> QED
        BY <3>2, <4>3
    <3> QED
      BY <1>11, <3>2, <3>3, <3>4
  <2>2. \A l \in UpdatedBalances(r)' : \E j \in 1..n : IsShare(receipts[l].payment, r, j)'
    <3>1. \A l \in UpdatedBalances(r) : \E j \in 1..(n - 1) : IsShare(receipts[l].payment, r, j)
      BY <1>6, <1>7 DEF Written
    <3> QED
      BY <1>2, <1>9, <1>10, <1>11, <1>12, <3>1 DEF IsShare
  <2>3. \A l, m \in UpdatedBalances(r)' : receipts'[l].payment = receipts'[m].payment => l = m
    <3>1. \A l, m \in UpdatedBalances(r) : receipts[l].payment = receipts[m].payment => l = m
      BY <1>6 DEF Written
    <3> QED
      BY <1>9, <1>10, <1>12, <1>13, <3>1
  <2> QED
    BY <2>1, <2>2, <2>3 DEF Written
<1>15. ReceiptsOf(r)'
  <2>1. \/ next[r] < Len(shares[r]) /\ pc'[r] = pc[r] /\ next'[r] = next[r] + 1
        \/ ~(next[r] < Len(shares[r])) /\ pc'[r] = "decide" /\ next'[r] = 1
    BY OnwardOrIs DEF WriteReceipt, Nodes
  <2>2. Len(shares[r]) \in Nat
    BY RunType
  <2>3. CASE next[r] < Len(shares[r])
    <3>1. pc'[r] = "receipt" /\ next'[r] - 1 = n
      BY <2>1, <2>3, <1>2, <1>7
    <3> QED
      BY <1>14, <3>1 DEF ReceiptsOf
  <2>4. CASE ~(next[r] < Len(shares[r]))
    <3>1. pc'[r] = "decide" /\ Len(shares'[r]) = n
      BY <2>1, <2>2, <2>4, <1>2, <1>7
    <3> QED
      BY <1>14, <3>1 DEF ReceiptsOf
  <2> QED
    BY <2>3, <2>4
<1> QED
  BY <1>3, <1>5, <1>15

\* By the steps.
LEMMA ReceiptsInvNext ==
  ASSUME TypeOK, ReviewInv, RunsInv, ReceiptsInv, Next
  PROVE  ReceiptsInv'
<1>1. ReceiptsFit /\ \A s \in Runs : ReceiptsOf(s)
  BY DEF ReceiptsInv, ReceiptsFit, ReceiptsOf
<1>2. ASSUME NEW r \in Runs, RunStep(r), ~WriteReceipt(r)
      PROVE  ReceiptsFit' /\ \A s \in Runs : ReceiptsOf(s)'
  <2>1. ReceiptsFit' /\ ReceiptsOf(r)' /\ receipts' = receipts
    BY <1>1, <1>2, ReceiptsOfRun
  <2>2. RowsKept /\ \A s \in Runs \ {r} : StateKept(s)
    BY <1>2, RunRows, OthersStay
  <2>3. \A s \in Runs \ {r} : ReceiptsOf(s)'
    BY <1>1, <2>1, <2>2, ReceiptsStay, ReceiptsOfOthers
  <2> QED
    BY <2>1, <2>3
<1>3. ASSUME NEW r \in Runs, WriteReceipt(r)
      PROVE  ReceiptsFit' /\ \A s \in Runs : ReceiptsOf(s)'
  <2>1. ReceiptsFit' /\ ReceiptsOf(r)' /\ \A s \in Runs \ {r} : ReceiptsKept(s)
    BY <1>1, <1>3, WriteReceiptKeeps
  <2>2. RowsKept /\ \A s \in Runs \ {r} : StateKept(s)
    BY <1>3, RunRows, OthersStay DEF RunStep
  <2>3. \A s \in Runs \ {r} : ReceiptsOf(s)'
    BY <1>1, <2>1, <2>2, ReceiptsOfOthers
  <2> QED
    BY <2>1, <2>3
<1>4. ASSUME NEW v \in Reviewers, Load(v) \/ Save(v) \/ Drop(v)
      PROVE  ReceiptsFit' /\ \A s \in Runs : ReceiptsOf(s)'
  <2>1. RowsKept /\ \A s \in Runs : StateKept(s)
    BY <1>4, ReviewRows
  <2>2. receipts' = receipts
    BY <1>4 DEF Load, Save, Drop, tables
  <2> QED
    BY <1>1, <2>1, <2>2, ReceiptsStay, ReceiptsFitKept, ReceiptsOfOthers
<1> QED
  BY <1>2, <1>3, <1>4 DEF Next, ReceiptsInv, ReceiptsFit, ReceiptsOf

-----------------------------------------------------------------------------
(* A run that nobody else meddles with *)

\* Where a step of run r adds a payment, one of them is its own.
LEMMA AddsOwn ==
  ASSUME TypeOK, RunsInv, NEW r \in Runs, RunStep(r), payments' # payments
  PROVE  \E n \in DOMAIN payments' : payments'[n].run = r
<1>1. PICK row : payments' = Append(payments, row) /\ row.run = r
  <2>1. CASE FileForReview(r)
    <3> DEFINE row == NewPayment(r, contract[r], amount[r], "PENDING", TRUE)
    <3>1. payments' = Append(payments, row)
      BY <2>1 DEF FileForReview
    <3>2. row.run = r
      BY DEF NewPayment
    <3> HIDE DEF row
    <3> QED
      BY <3>1, <3>2
  <2>2. CASE CreatePayment(r)
    <3> DEFINE share == shares[r][next[r]]
               row == NewPayment(r, share.contract, share.amount, "APPROVED", FALSE)
    <3>1. payments' = Append(payments, row)
      BY <2>2 DEF CreatePayment
    <3>2. row.run = r
      BY DEF NewPayment
    <3> HIDE DEF row
    <3> QED
      BY <3>1, <3>2
  <2> QED
    BY <2>1, <2>2 DEF RunStep, Understand, SkipAllocation, AllocateByReference, ReadOwed,
       AllocateAutomatically, CreateNothing, ReadBalance, ReadNewBalance, WriteReceipt, Decide, Fail, tables
<1>2. IsASeq(payments)
  BY DEF TypeOK, IsASeq
<1>3. Len(payments) + 1 \in DOMAIN payments' /\ payments'[Len(payments) + 1] = row
  BY <1>1, <1>2, AppendAny
<1> QED
  BY <1>1, <1>3

\* What AloneInv says of run s when it is alone.
AloneOf(s) ==
  /\ pc[s] = "balance" /\ next[s] > 1 =>
       remaining[s] = OwedByFirst(payments, shares[s], next[s] - 1)
  /\ pc[s] \in {"receipt", "decide", "done"} /\ shares[s] # <<>> =>
       remaining[s] = OwedByFirst(payments, shares[s], Len(shares[s]))
  /\ held[s] # NoAmount => held[s] = Balance(payments, shares[s][next[s]].contract)
  /\ \A k \in UpdatedBalances(s) : receipts[k].new = Balance(payments, receipts[k].contract)

\* The receipts of a run are the same ones if a step adds none.
LEMMA LinesKept ==
  ASSUME NEW s, RowsKept, ReceiptsFit, ReceiptsKept(s)
  PROVE  /\ UpdatedBalances(s)' = UpdatedBalances(s)
         /\ \A k \in UpdatedBalances(s) : k \in DOMAIN receipts /\ receipts'[k] = receipts[k]
BY DEF UpdatedBalances, RowsKept, ReceiptsFit, ReceiptsKept

\* A step that leaves the payments and a run alone.
LEMMA AloneOfOthers ==
  ASSUME NEW s, StateKept(s), payments' = payments, ReceiptsFit, ReceiptsKept(s), AloneOf(s)
  PROVE  AloneOf(s)'
<1>1. /\ UpdatedBalances(s)' = UpdatedBalances(s)
      /\ \A k \in UpdatedBalances(s) : receipts'[k] = receipts[k]
  BY RowsStay, LinesKept
<1> QED
  BY <1>1 DEF AloneOf, StateKept

\* One more contract is added up.
LEMMA OwedByOneMore ==
  ASSUME NEW rows, NEW list, NEW n \in Nat, n > 0,
         \A j \in 1..n : Balance(rows, list[j].contract) \in Nat
  PROVE  /\ n = 1 => OwedByFirst(rows, list, n) = Balance(rows, list[n].contract)
         /\ OwedByFirst(rows, list, n)
              = OwedByFirst(rows, list, n - 1) + Balance(rows, list[n].contract)
<1> DEFINE f == [j \in 1..n |-> Balance(rows, list[j].contract)]
           g == [j \in 1..(n - 1) |-> Balance(rows, list[j].contract)]
<1>1. 1..n = (1..(n - 1)) \cup {n} /\ n \notin 1..(n - 1) /\ n \in 1..n
  OBVIOUS
<1>2. IsFiniteSet(1..(n - 1))
  BY FS_Interval
<1>3. \A j \in 1..n : f[j] \in Int
  OBVIOUS
<1>4. \A j \in 1..(n - 1) : f[j] = g[j]
  BY <1>1
<1>5. f[n] = Balance(rows, list[n].contract)
  BY <1>1
<1> HIDE DEF f, g
<1>6. SumOver(f, 1..n) = SumOver(f, 1..(n - 1)) + f[n]
  BY <1>1, <1>2, <1>3, SumAdds
<1>7. SumOver(f, 1..(n - 1)) = SumOver(g, 1..(n - 1))
  BY <1>2, <1>4, SumAgrees
<1>8. n = 1 => SumOver(f, 1..n) = f[n]
  <2>1. n = 1 => 1..n = {n}
    OBVIOUS
  <2>2. SumOver(f, {n}) = f[n]
    BY <1>1, <1>3, SumOfOne
  <2> QED
    BY <2>1, <2>2
<1> QED
  BY <1>5, <1>6, <1>7, <1>8 DEF OwedByFirst, f, g

\* The steps of the run itself.
LEMMA AloneOfRun ==
  ASSUME TypeOK, RunsInv, RunsInv', ReceiptsInv, ReceiptsInv', NEW r \in Runs, RunStep(r),
         Alone(r) => AloneOf(r), Alone(r)'
  PROVE  AloneOf(r)'
<1>1. ReceiptsFit /\ ReceiptsOf(r) /\ ReceiptsOf(r)' /\ StateOf(r) /\ StateOf(r)'
  BY DEF ReceiptsInv, ReceiptsFit, ReceiptsOf, RunsInv
<1>2. pc'[r] \notin {"receipt", "decide", "done", "failed"} => UpdatedBalances(r)' = {}
  <2>1. SUFFICES ASSUME pc'[r] \notin {"receipt", "decide", "done", "failed"}
                 PROVE  UpdatedBalances(r)' = {}
    OBVIOUS
  <2>2. Written(r, 0)'
    BY <1>1, <2>1 DEF ReceiptsOf
  <2>3. 1..0 = {}
    OBVIOUS
  <2> QED
    BY <2>2, <2>3 DEF Written
<1>3. \A node \in Nodes : Goto(r, node) => pc'[r] = node /\ next'[r] = 1 /\ held'[r] = NoAmount
  BY GotoIs
<1>4. \A node \in Nodes : OnwardOr(r, node) => held'[r] = NoAmount /\
        (\/ next[r] < Len(shares[r]) /\ pc'[r] = pc[r] /\ next'[r] = next[r] + 1
         \/ ~(next[r] < Len(shares[r])) /\ pc'[r] = node /\ next'[r] = 1)
  BY OnwardOrIs
<1>5. audits' = audits
  BY DEF RunStep, Understand, SkipAllocation, AllocateByReference, ReadOwed, FileForReview,
     AllocateAutomatically, CreateNothing, CreatePayment, ReadBalance, ReadNewBalance, WriteReceipt, Decide, Fail,
     tables
<1>6. payments' = payments => Alone(r)
  BY <1>5 DEF Alone
<1>7. CASE \/ Understand(r) \/ SkipAllocation(r) \/ AllocateByReference(r) \/ ReadOwed(r)
           \/ AllocateAutomatically(r) \/ FileForReview(r) \/ CreatePayment(r)
  <2>1. /\ pc'[r] \in {"eligible", "approval", "create", "balance"}
        /\ pc'[r] = "balance" => next'[r] = 1
        /\ held'[r] = NoAmount
    BY <1>3, <1>4, <1>7, OnwardIs DEF Understand, SkipAllocation, AllocateByReference, ReadOwed,
       AllocateAutomatically, FileForReview, CreatePayment, Nodes
  <2> QED
    BY <1>2, <2>1 DEF AloneOf
<1>8. CASE CreateNothing(r)
  <2>1. /\ pc'[r] = "decide" /\ state' = state /\ payments' = payments /\ receipts' = receipts
        /\ held'[r] = NoAmount
    BY <1>3, <1>8 DEF CreateNothing, Nodes, tables
  <2>2. shares'[r] = <<>>
    BY <1>1, <1>8, <2>1 DEF CreateNothing, StateOf, state
  <2>3. UpdatedBalances(r)' = UpdatedBalances(r)
    BY <2>1 DEF UpdatedBalances
  <2> QED
    BY <1>6, <2>1, <2>2, <2>3 DEF AloneOf
<1>9. CASE ReadBalance(r)
  <2> DEFINE n == next[r]
             c == shares[r][n].contract
  <2>1. /\ pc[r] = "balance" /\ payments' = payments /\ receipts' = receipts /\ shares' = shares
        /\ held'[r] = NoAmount
        /\ \/ n < Len(shares[r]) /\ pc'[r] = "balance" /\ next'[r] = n + 1
           \/ ~(n < Len(shares[r])) /\ pc'[r] = "receipt" /\ next'[r] = 1
    BY <1>4, <1>9 DEF ReadBalance, Nodes, tables
  <2>2. n \in 1..Len(shares[r]) /\ Len(shares[r]) \in Nat /\ n \in Nat /\ n > 0
    BY <1>1, <2>1, RunType DEF StateOf
  <2>3. \A j \in 1..n : Balance(payments, shares[r][j].contract) \in Nat
    <3>1. \A j \in 1..n : shares[r][j].contract \in Contracts
      BY <2>2, RunType
    <3> QED
      BY <3>1, RemainingType, TotalPaidIs
  <2>4. remaining'[r] = IF n = 1 THEN Balance(payments, c) ELSE remaining[r] + Balance(payments, c)
    BY <1>9, TotalPaidIs DEF ReadBalance, TypeOK
  <2>5. n > 1 => remaining[r] = OwedByFirst(payments, shares[r], n - 1)
    BY <1>6, <2>1 DEF AloneOf
  <2>6. remaining'[r] = OwedByFirst(payments, shares[r], n)
    <3>1. PICK list, m : list = shares[r] /\ m = n
      OBVIOUS
    <3>2. /\ m = 1 => OwedByFirst(payments, list, m) = Balance(payments, list[m].contract)
          /\ OwedByFirst(payments, list, m)
               = OwedByFirst(payments, list, m - 1) + Balance(payments, list[m].contract)
      BY <2>2, <2>3, <3>1, OwedByOneMore
    <3>3. m = 1 \/ m > 1
      BY <2>2, <3>1
    <3> QED
      BY <2>4, <2>5, <3>1, <3>2, <3>3
  <2>7. UpdatedBalances(r) = {} /\ UpdatedBalances(r)' = {}
    <3>1. Written(r, 0)
      BY <1>1, <2>1 DEF ReceiptsOf
    <3>2. UpdatedBalances(r)' = UpdatedBalances(r)
      BY <2>1 DEF UpdatedBalances
    <3>3. 1..0 = {}
      OBVIOUS
    <3> QED
      BY <3>1, <3>2, <3>3 DEF Written
  <2>8. CASE n < Len(shares[r])
    <3>1. pc'[r] = "balance" /\ next'[r] - 1 = n
      BY <2>1, <2>2, <2>8
    <3> QED
      BY <2>1, <2>6, <2>7, <3>1 DEF AloneOf
  <2>9. CASE ~(n < Len(shares[r]))
    <3>1. pc'[r] = "receipt" /\ Len(shares'[r]) = n
      BY <2>1, <2>2, <2>9
    <3> QED
      BY <2>1, <2>6, <2>7, <3>1 DEF AloneOf
  <2> QED
    BY <2>8, <2>9
<1>10. CASE WriteReceipt(r)
  <2>1. /\ pc[r] = "receipt" /\ payments' = payments /\ shares' = shares /\ remaining' = remaining
        /\ pc'[r] \in {"receipt", "decide"} /\ held'[r] = NoAmount
    BY <1>4, <1>10 DEF WriteReceipt, Nodes, state
  <2>2. PICK i, k : AddsReceipt(r, i, k)
    BY <1>10, WriteReceiptIs
  <2>3. /\ UpdatedBalances(r)' = UpdatedBalances(r) \cup {k}
        /\ \A l \in UpdatedBalances(r) : receipts'[l] = receipts[l]
    <3>1. payments[i].run = r
      BY <2>2 DEF AddsReceipt, IsShare
    <3>2. /\ DOMAIN receipts' = DOMAIN receipts \cup {k} /\ receipts'[k].payment = i
          /\ \A l \in DOMAIN receipts : receipts'[l] = receipts[l]
          /\ k \notin DOMAIN receipts
      BY <2>2 DEF AddsReceipt
    <3> QED
      BY <2>1, <3>1, <3>2 DEF UpdatedBalances
  <2>5. AloneOf(r) /\ shares[r] # <<>>
    BY <1>1, <1>6, <2>1 DEF StateOf
  <2>4. receipts'[k].new = Balance(payments, receipts'[k].contract)
    BY <2>2, <2>5 DEF AddsReceipt, AloneOf, IsShare
  <2>6. remaining[r] = OwedByFirst(payments, shares[r], Len(shares[r]))
    BY <2>1, <2>5 DEF AloneOf
  <2>7. \A l \in UpdatedBalances(r)' : receipts'[l].new = Balance(payments, receipts'[l].contract)
    BY <2>3, <2>4, <2>5 DEF AloneOf
  <2> QED
    BY <2>1, <2>6, <2>7 DEF AloneOf
<1>11. CASE Decide(r) \/ Fail(r)
  <2>1. /\ payments' = payments /\ receipts' = receipts /\ shares' = shares /\ remaining' = remaining
        /\ pc'[r] = "failed" \/ (pc[r] = "decide" /\ pc'[r] = "done")
        /\ held'[r] = NoAmount
    BY <1>3, <1>11 DEF Decide, Fail, Nodes, state, tables
  <2>2. UpdatedBalances(r)' = UpdatedBalances(r)
    BY <2>1 DEF UpdatedBalances
  <2> QED
    BY <1>6, <2>1, <2>2 DEF AloneOf
<1>12. CASE ReadNewBalance(r)
  <2>1. /\ payments' = payments /\ receipts' = receipts /\ shares' = shares /\ remaining' = remaining
        /\ pc' = pc /\ next' = next
    BY <1>12 DEF ReadNewBalance, state, tables
  <2>2. UpdatedBalances(r)' = UpdatedBalances(r)
    BY <2>1 DEF UpdatedBalances
  <2>3. held'[r] = Balance(payments, shares[r][next[r]].contract)
    BY <1>12, TotalPaidIs DEF ReadNewBalance, TypeOK
  <2> QED
    BY <1>6, <2>1, <2>2, <2>3 DEF AloneOf
<1> QED
  BY <1>7, <1>8, <1>9, <1>10, <1>11, <1>12 DEF RunStep

\* What a run has read and written is still so while it is alone.
LEMMA AloneInvNext ==
  ASSUME TypeOK, ReviewInv, RunsInv, RunsInv', ReceiptsInv, ReceiptsInv', AloneInv, Next
  PROVE  AloneInv'
<1>1. ReceiptsFit /\ \A s \in Runs : Alone(s) => AloneOf(s)
  BY DEF AloneInv, AloneOf, ReceiptsInv, ReceiptsFit
<1>2. ASSUME NEW r \in Runs, RunStep(r), NEW s \in Runs, Alone(s)' PROVE AloneOf(s)'
  <2>1. CASE s = r
    BY <1>1, <1>2, <2>1, AloneOfRun
  <2>2. CASE s # r
    <3>1. payments' = payments
      BY <1>2, <2>2, AddsOwn DEF Alone
    <3>2. audits' = audits
      BY <1>2 DEF RunStep, Understand, SkipAllocation, AllocateByReference, ReadOwed, FileForReview,
         AllocateAutomatically, CreateNothing, CreatePayment, ReadBalance, ReadNewBalance, WriteReceipt, Decide,
         Fail, tables
    <3>3. Alone(s)
      BY <1>2, <3>1, <3>2 DEF Alone
    <3>4. StateKept(s)
      BY <1>2, <2>2, OthersStay
    <3>5. ReceiptsKept(s)
      <4>1. CASE WriteReceipt(r)
        BY <1>1, <4>1, <2>2, WriteReceiptKeeps DEF ReceiptsInv, ReceiptsOf
      <4>2. CASE ~WriteReceipt(r)
        BY <1>1, <1>2, <4>2, ReceiptsOfRun, ReceiptsStay DEF ReceiptsInv, ReceiptsOf
      <4> QED
        BY <4>1, <4>2
    <3> QED
      BY <1>1, <3>1, <3>3, <3>4, <3>5, AloneOfOthers
  <2> QED
    BY <2>1, <2>2
<1>3. ASSUME NEW v \in Reviewers, Load(v) \/ Save(v) \/ Drop(v), NEW s \in Runs, Alone(s)'
      PROVE  AloneOf(s)'
  <2>1. CASE Save(v)
    <3>1. PICK i, flag : SavesRow(v, i, flag)
      BY <2>1, SaveIs
    <3>2. audits' # <<>>
      <4>1. IsASeq(audits)
        BY DEF ReviewInv, Rows, IsASeq
      <4>2. PICK e : audits' = Append(audits, e)
        BY <3>1 DEF SavesRow
      <4>3. Len(audits) + 1 \in DOMAIN audits'
        BY <4>1, <4>2, AppendAny
      <4> QED
        BY <4>3
    <3> QED
      BY <1>3, <3>2 DEF Alone
  <2>2. CASE Load(v) \/ Drop(v)
    <3>1. payments' = payments /\ receipts' = receipts /\ audits' = audits
      BY <2>2 DEF Load, Drop, tables
    <3>2. Alone(s) /\ StateKept(s) /\ ReceiptsKept(s)
      BY <1>3, <3>1, ReviewRows, ReceiptsStay DEF Alone
    <3> QED
      BY <1>1, <3>1, <3>2, AloneOfOthers
  <2> QED
    BY <1>3, <2>1, <2>2
<1> QED
  BY <1>2, <1>3 DEF Next, AloneInv, AloneOf

-----------------------------------------------------------------------------
(* Contracts that were found to owe nothing *)

\* More approved payments leave less to pay, and nothing where nothing was left.
LEMMA BalanceFalls ==
  ASSUME NEW rows \in Seq(Payment), NEW more \in Seq(Payment), NEW c \in Contracts,
         ApprovedIn(rows, c) \subseteq ApprovedIn(more, c),
         \A i \in ApprovedIn(rows, c) : more[i].amount = rows[i].amount
  PROVE  /\ Balance(rows, c) \in Nat /\ Balance(more, c) \in Nat
         /\ Balance(more, c) <= Balance(rows, c)
<1> DEFINE S == ApprovedIn(rows, c)
           T == ApprovedIn(more, c)
           f == [i \in S |-> rows[i].amount]
           g == [i \in T |-> more[i].amount]
<1>1. IsFiniteSet(S) /\ IsFiniteSet(T)
  <2>1. Len(rows) \in Nat /\ DOMAIN rows = 1..Len(rows) /\ Len(more) \in Nat /\ DOMAIN more = 1..Len(more)
    OBVIOUS
  <2>2. S \subseteq 1..Len(rows) /\ T \subseteq 1..Len(more)
    BY <2>1 DEF ApprovedIn
  <2> QED
    <3>1. IsFiniteSet(1..Len(rows)) /\ IsFiniteSet(1..Len(more))
      BY <2>1, FS_Interval
    <3> HIDE DEF S, T
    <3> QED
      BY <2>2, <3>1, FS_Subset
<1>2. \A i \in T : g[i] \in Nat
  <2>1. \A i \in T : more[i] \in Payment
    BY DEF ApprovedIn
  <2> QED
    BY <2>1 DEF Payment
<1>3. \A i \in S : f[i] = g[i]
  OBVIOUS
<1>4. \A i \in S : f[i] \in Nat
  BY <1>2, <1>3
<1>5. S \in SUBSET T
  OBVIOUS
<1>6. PaidIn(rows, c) = SumOver(f, S) /\ PaidIn(more, c) = SumOver(g, T)
  BY DEF PaidIn
<1> HIDE DEF S, T, f, g
<1>7. SumOver(f, S) = SumOver(g, S)
  BY <1>1, <1>3, SumAgrees
<1>8. SumOver(g, S) <= SumOver(g, T)
  BY <1>1, <1>2, <1>5, SumGrows
<1>9. SumOver(f, S) \in Nat /\ SumOver(g, T) \in Nat
  BY <1>1, <1>2, <1>4, SumNat
<1>10. Total[c] \in Nat
  BY LedgerAssumption
<1> QED
  BY <1>6, <1>7, <1>8, <1>9, <1>10 DEF Balance, Floored

\* A step keeps contracts settled if it unapproves no payment but by a rejection.
LEMMA SettledKept ==
  ASSUME TypeOK, TypeOK', RowsKept, NEW c \in Contracts,
         \A k \in DOMAIN audits : k \in DOMAIN audits' /\ audits'[k] = audits[k],
         \/ ApprovedIn(payments, c) \subseteq ApprovedIn(payments', c)
         \/ Settled(payments', audits', c),
         Settled(payments, audits, c)
  PROVE  Settled(payments', audits', c)
<1>1. CASE Balance(payments, c) = 0 /\ ApprovedIn(payments, c) \subseteq ApprovedIn(payments', c)
  <2>1. payments \in Seq(Payment) /\ payments' \in Seq(Payment)
    BY DEF TypeOK
  <2>2. \A i \in ApprovedIn(payments, c) : payments'[i].amount = payments[i].amount
    BY DEF ApprovedIn, RowsKept
  <2> QED
    <3>1. /\ Balance(payments', c) \in Nat /\ Balance(payments', c) <= Balance(payments, c)
      BY <1>1, <2>1, <2>2, BalanceFalls
    <3> QED
      BY <1>1, <3>1 DEF Settled
<1>2. CASE Balance(payments, c) # 0
  BY <1>2 DEF Settled, RowsKept
<1> QED
  BY <1>1, <1>2

\* No step makes a settled contract owe money again, but by a rejection.
LEMMA SettledStays ==
  ASSUME TypeOK, TypeOK', ReviewInv, RunsInv, Next, NEW c \in Contracts,
         Settled(payments, audits, c)
  PROVE  Settled(payments', audits', c)
<1>1. ASSUME NEW r \in Runs, RunStep(r) PROVE Settled(payments', audits', c)
  <2>1. RowsKept
    BY <1>1, RunRows
  <2>2. audits' = audits
    BY <1>1 DEF RunStep, Understand, SkipAllocation, AllocateByReference, ReadOwed, FileForReview,
       AllocateAutomatically, CreateNothing, CreatePayment, ReadBalance, ReadNewBalance, WriteReceipt, Decide,
       Fail, tables
  <2>3. \A i \in DOMAIN payments : i \in DOMAIN payments' /\ payments'[i] = payments[i]
    <3>1. CASE payments' = payments
      BY <3>1
    <3>2. ASSUME NEW row, payments' = Append(payments, row)
          PROVE  \A i \in DOMAIN payments : i \in DOMAIN payments' /\ payments'[i] = payments[i]
      <4>1. IsASeq(payments)
        BY DEF ReviewInv, Rows
      <4> QED
        BY <3>2, <4>1, AppendAny
    <3> QED
      BY <1>1, <3>1, <3>2 DEF RunStep, Understand, SkipAllocation, AllocateByReference, ReadOwed,
         FileForReview, AllocateAutomatically, CreateNothing, CreatePayment, ReadBalance, ReadNewBalance,
         WriteReceipt, Decide, Fail, tables
  <2>4. ApprovedIn(payments, c) \subseteq ApprovedIn(payments', c)
    BY <2>3 DEF ApprovedIn
  <2> QED
    BY <2>1, <2>2, <2>4, SettledKept
<1>2. ASSUME NEW v \in Reviewers, Load(v) \/ Drop(v) PROVE Settled(payments', audits', c)
  BY <1>2 DEF Load, Drop, tables
<1>3. ASSUME NEW v \in Reviewers, Save(v) PROVE Settled(payments', audits', c)
  <2>1. PICK i, flag : SavesRow(v, i, flag)
    BY <1>3, SaveIs
  <2>2. RowsKept
    BY <1>3, ReviewRows
  <2>3. PICK note : /\ note = [payment |-> i, verdict |-> review[v].verdict]
                    /\ audits' = Append(audits, note)
    BY <2>1 DEF SavesRow
  <2>4. IsASeq(audits)
    BY DEF ReviewInv, Rows, IsASeq
  <2>5. /\ \A k \in DOMAIN audits : k \in DOMAIN audits' /\ audits'[k] = audits[k]
        /\ \E k \in DOMAIN audits' : audits'[k] = note
    BY <2>3, <2>4, AppendAny
  <2>6. CASE payments[i].contract = c /\ flag = "REJECTED" /\ review[v].verdict = "REJECTED"
    <3>1. i \in DOMAIN payments' /\ payments'[i].contract = c
      BY <2>1, <2>6 DEF SavesRow
    <3> QED
      BY <2>3, <2>5, <2>6, <3>1 DEF Settled
  <2>7. CASE ~(payments[i].contract = c /\ flag = "REJECTED" /\ review[v].verdict = "REJECTED")
    <3>1. ASSUME NEW p \in ApprovedIn(payments, c) PROVE p \in ApprovedIn(payments', c)
      <4>1. p \in DOMAIN payments /\ payments[p].contract = c /\ payments[p].status = "APPROVED"
        BY DEF ApprovedIn
      <4>2. p \in DOMAIN payments' /\ payments'[p].contract = c
        BY <4>1, <2>2 DEF RowsKept
      <4>3. CASE p = i
        <5>1. flag = "APPROVED"
          BY <2>1, <2>7, <4>1, <4>3 DEF SavesRow, Verdicts
        <5> QED
          BY <2>1, <4>2, <4>3, <5>1 DEF SavesRow, ApprovedIn
      <4>4. CASE p # i
        BY <2>1, <4>1, <4>2, <4>4 DEF SavesRow, ApprovedIn
      <4> QED
        BY <4>3, <4>4
    <3> QED
      BY <2>2, <2>5, <3>1, SettledKept
  <2> QED
    BY <2>6, <2>7
<1> QED
  BY <1>1, <1>2, <1>3 DEF Next

\* What SettledInv says of run s.
SettledOf(s) ==
  remaining[s] = 0 =>
    /\ pc[s] = "balance" =>
         \A j \in 1..(next[s] - 1) : Settled(payments, audits, shares[s][j].contract)
    /\ pc[s] \in {"receipt", "decide", "done"} =>
         \A j \in DOMAIN shares[s] : Settled(payments, audits, shares[s][j].contract)

\* The steps of the run itself.
LEMMA SettledOfRun ==
  ASSUME TypeOK, TypeOK', ReviewInv, RunsInv, RunsInv', Next, NEW r \in Runs, RunStep(r),
         SettledOf(r)
  PROVE  SettledOf(r)'
<1>1. StateOf(r) /\ StateOf(r)' /\ NoAmount \notin Nat
  BY LedgerAssumption DEF RunsInv
<1>2. \A c \in Contracts : Settled(payments, audits, c) => Settled(payments', audits', c)
  BY SettledStays
<1>3. \A node \in Nodes : Goto(r, node) => pc'[r] = node /\ next'[r] = 1
  BY GotoIs
<1>4. \A node \in Nodes : OnwardOr(r, node) =>
        \/ next[r] < Len(shares[r]) /\ pc'[r] = pc[r] /\ next'[r] = next[r] + 1
        \/ ~(next[r] < Len(shares[r])) /\ pc'[r] = node /\ next'[r] = 1
  BY OnwardOrIs
<1>5. CASE \/ Understand(r) \/ SkipAllocation(r) \/ AllocateByReference(r) \/ ReadOwed(r)
           \/ AllocateAutomatically(r) \/ FileForReview(r) \/ CreatePayment(r)
  <2>1. /\ pc'[r] \in {"eligible", "approval", "create", "balance"}
        /\ pc'[r] = "balance" => next'[r] = 1
    BY <1>3, <1>4, <1>5, OnwardIs DEF Understand, SkipAllocation, AllocateByReference, ReadOwed,
       AllocateAutomatically, FileForReview, CreatePayment, Nodes
  <2> QED
    BY <1>1, <2>1 DEF StateOf, SettledOf
<1>6. CASE CreateNothing(r)
  <2>1. remaining'[r] = remaining[r] /\ pc[r] = "create"
    BY <1>6 DEF CreateNothing, state
  <2> QED
    BY <1>1, <2>1 DEF StateOf, SettledOf
<1>7. CASE ReadBalance(r)
  <2>1. PICK n, list : n = next[r] /\ list = shares[r]
    OBVIOUS
  <2>2. /\ pc[r] = "balance" /\ shares' = shares
        /\ \/ n < Len(list) /\ pc'[r] = "balance" /\ next'[r] = n + 1
           \/ ~(n < Len(list)) /\ pc'[r] = "receipt" /\ next'[r] = 1
    BY <1>4, <1>7, <2>1 DEF ReadBalance, Nodes
  <2>3. /\ n \in 1..Len(list) /\ Len(list) \in Nat /\ n \in Nat /\ DOMAIN list = 1..Len(list)
        /\ \A j \in 1..n : list[j].contract \in Contracts
    BY <1>1, <2>1, <2>2, RunType DEF StateOf
  <2>4. PICK c \in Contracts : c = list[n].contract
    BY <2>3
  <2>5. /\ remaining'[r] = IF n = 1 THEN Balance(payments, c) ELSE remaining[r] + Balance(payments, c)
        /\ payments' = payments /\ audits' = audits
    BY <1>7, <2>1, <2>4, TotalPaidIs DEF ReadBalance, TypeOK, tables
  <2>6. Balance(payments, c) \in Nat
    BY RemainingType, TotalPaidIs
  <2>7. n # 1 => remaining[r] \in Nat
    BY <1>1, <2>1, <2>2, RunType DEF StateOf
  <2>8. remaining'[r] = 0 => \A j \in 1..n : Settled(payments, audits, list[j].contract)
    <3> SUFFICES ASSUME remaining'[r] = 0, NEW j \in 1..n
                 PROVE  Settled(payments, audits, list[j].contract)
      OBVIOUS
    <3>1. Balance(payments, c) = 0 /\ (n # 1 => remaining[r] = 0)
      BY <2>5, <2>6, <2>7
    <3>2. CASE j = n
      BY <2>4, <3>1, <3>2 DEF Settled
    <3>3. CASE j # n
      <4>1. j \in 1..(n - 1) /\ n # 1
        BY <2>3, <3>3
      <4> QED
        BY <2>1, <2>2, <3>1, <4>1 DEF SettledOf
    <3> QED
      BY <3>2, <3>3
  <2>9. CASE n < Len(list)
    <3>1. pc'[r] = "balance" /\ next'[r] - 1 = n
      BY <2>2, <2>3, <2>9
    <3> QED
      BY <2>1, <2>2, <2>5, <2>8, <3>1 DEF SettledOf
  <2>10. CASE ~(n < Len(list))
    <3>1. pc'[r] = "receipt" /\ DOMAIN list = 1..n
      BY <2>2, <2>3, <2>10
    <3> QED
      BY <2>1, <2>2, <2>5, <2>8, <3>1 DEF SettledOf
  <2> QED
    BY <2>9, <2>10
<1>8. CASE ReadNewBalance(r) \/ WriteReceipt(r) \/ Decide(r) \/ Fail(r)
  <2>1. /\ shares' = shares /\ remaining' = remaining /\ payments' = payments /\ audits' = audits
        /\ \/ pc'[r] = "failed"
           \/ pc[r] \in {"receipt", "decide"} /\ pc'[r] \in {"receipt", "decide", "done"}
    BY <1>3, <1>4, <1>8 DEF ReadNewBalance, WriteReceipt, Decide, Fail, Nodes, state, tables
  <2> QED
    BY <2>1 DEF SettledOf
<1> QED
  BY <1>5, <1>6, <1>7, <1>8 DEF RunStep

\* The contracts of a run whose remaining amount is nothing stay settled.
LEMMA SettledInvNext ==
  ASSUME TypeOK, TypeOK', ReviewInv, RunsInv, RunsInv', SettledInv, Next
  PROVE  SettledInv'
<1>1. \A s \in Runs : SettledOf(s)
  BY DEF SettledInv, SettledOf
<1>2. ASSUME NEW s \in Runs, StateKept(s) PROVE SettledOf(s)'
  <2>1. \A c \in Contracts : Settled(payments, audits, c) => Settled(payments', audits', c)
    BY SettledStays
  <2>2. /\ pc[s] = "balance" => next[s] - 1 \in 0..Len(shares[s])
        /\ DOMAIN shares[s] = 1..Len(shares[s]) /\ Len(shares[s]) \in Nat
        /\ \A j \in 1..Len(shares[s]) : shares[s][j].contract \in Contracts
    BY RunType DEF RunsInv, StateOf
  <2>3. pc[s] = "balance" => \A j \in 1..(next[s] - 1) : shares[s][j].contract \in Contracts
    BY <2>2
  <2> QED
    BY <1>1, <1>2, <2>1, <2>2, <2>3 DEF SettledOf, StateKept
<1>3. ASSUME NEW r \in Runs, RunStep(r), NEW s \in Runs PROVE SettledOf(s)'
  <2>1. CASE s = r
    BY <1>1, <1>3, <2>1, SettledOfRun
  <2>2. CASE s # r
    BY <1>2, <1>3, <2>2, OthersStay
  <2> QED
    BY <2>1, <2>2
<1>4. ASSUME NEW v \in Reviewers, Load(v) \/ Save(v) \/ Drop(v), NEW s \in Runs PROVE SettledOf(s)'
  BY <1>2, <1>4, ReviewRows
<1> QED
  BY <1>3, <1>4 DEF Next, SettledInv, SettledOf

-----------------------------------------------------------------------------
(* The whole invariant *)

\* Nothing is put down to begin with.
LEMMA LedgerInvInit == Init => LedgerInv
<1> SUFFICES ASSUME Init PROVE LedgerInv
  OBVIOUS
<1>1. ReviewInv
  BY ReviewInvInit
<1>2. \A r \in Runs :
        /\ pc[r] = "understand" /\ next[r] = 1 /\ amount[r] = NoAmount /\ shares[r] = <<>>
        /\ listed[r] = <<>> /\ remaining[r] = NoAmount /\ decision[r] = "none"
        /\ held[r] = NoAmount
  BY DEF Init
<1>3. payments = <<>> /\ receipts = <<>> /\ audits = <<>> /\ DOMAIN <<>> = {}
  BY DEF Init
<1>4. TypeOK
  <2>1. <<>> \in Seq(Contracts) /\ <<>> \in Seq(Share) /\ <<>> \in Seq(Payment)
        /\ <<>> \in Seq(Receipt) /\ <<>> \in Seq(Audit)
    OBVIOUS
  <2> QED
    BY <2>1 DEF Init, TypeOK, Nodes, Decisions
<1>5. \A r \in Runs : UpdatedBalances(r) = {}
  BY <1>3 DEF UpdatedBalances
<1>6. RunsInv
  <2>1. Distinct(<<>>)
    BY <1>3 DEF Distinct
  <2> QED
    BY <1>2, <1>3, <2>1 DEF RunsInv, StateOf, PaymentsOf, NoneOf, ListedSound
<1>7. ReceiptsInv
  <2>1. 1..0 = {}
    OBVIOUS
  <2> QED
    BY <1>2, <1>3, <1>5, <2>1 DEF ReceiptsInv, Written
<1>8. AloneInv
  BY <1>2, <1>5 DEF AloneInv
<1>9. SettledInv
  BY <1>2 DEF SettledInv
<1> QED
  BY <1>1, <1>4, <1>6, <1>7, <1>8, <1>9 DEF LedgerInv

\* The parts, each from those before it.
LEMMA LedgerInvNext == LedgerInv /\ [Next]_vars => LedgerInv'
<1> SUFFICES ASSUME LedgerInv, [Next]_vars PROVE LedgerInv'
  OBVIOUS
<1> USE DEF LedgerInv
<1>1. CASE UNCHANGED vars
  <2>1. /\ pc' = pc /\ next' = next /\ held' = held
        /\ amount' = amount /\ contract' = contract /\ needs' = needs
        /\ listed' = listed /\ shares' = shares /\ remaining' = remaining /\ decision' = decision
        /\ payments' = payments /\ receipts' = receipts /\ audits' = audits /\ review' = review
        /\ reviews' = reviews /\ faults' = faults
    BY <1>1 DEF vars, run, state, tables
  <2>2. ReviewInv'
    BY ReviewInvNext
  <2>3. TypeOK'
    BY <2>1 DEF TypeOK
  <2>4. \A s \in Runs : StateKept(s) /\ RowsKept /\ NoneAdded(s) /\ ReceiptsKept(s)
    BY <2>1, RowsStay, ReceiptsStay DEF StateKept
  <2>5. RunsInv'
    <3>1. \A s \in Runs : RunInv(s)'
      BY <2>4, RunStays
    <3> QED
      BY <3>1 DEF RunsInv, RunInv
  <2>6. ReceiptsFit /\ \A s \in Runs : ReceiptsOf(s)
    BY DEF ReceiptsInv, ReceiptsFit, ReceiptsOf
  <2>7. ReceiptsInv'
    <3>1. \A s \in Runs : ReceiptsOf(s)'
      BY <2>4, <2>6, ReceiptsOfOthers
    <3>2. ReceiptsFit'
      BY <2>1, <2>6, RowsStay, ReceiptsFitKept
    <3> QED
      BY <3>1, <3>2 DEF ReceiptsInv, ReceiptsFit, ReceiptsOf
  <2>8. AloneInv'
    <3>1. \A s \in Runs : Alone(s)' => Alone(s)
      BY <2>1 DEF Alone
    <3>2. \A s \in Runs : Alone(s) => AloneOf(s)
      BY DEF AloneInv, AloneOf
    <3>3. \A s \in Runs : Alone(s)' => AloneOf(s)'
      BY <2>1, <2>4, <2>6, <3>1, <3>2, AloneOfOthers
    <3> QED
      BY <3>3 DEF AloneInv, AloneOf
  <2>9. SettledInv'
    BY <2>1 DEF SettledInv
  <2> QED
    BY <2>2, <2>3, <2>5, <2>7, <2>8, <2>9
<1>2. CASE Next
  <2>1. ReviewInv' /\ TypeOK' /\ RunsInv' /\ ReceiptsInv'
    BY <1>2, ReviewInvNext, LedgerTypesNext, RunsInvNext, ReceiptsInvNext
  <2>2. AloneInv'
    BY <1>2, <2>1, AloneInvNext
  <2>3. SettledInv'
    BY <1>2, <2>1, SettledInvNext
  <2> QED
    BY <2>1, <2>2, <2>3
<1> QED
  BY <1>1, <1>2

\* So the invariant holds in every state.
LEMMA LedgerAlways == Spec => []LedgerInv
BY LedgerInvInit, LedgerInvNext, PTL DEF Spec

-----------------------------------------------------------------------------
(* What a run puts down *)

\* The payments of a run.
Own(r) == {i \in DOMAIN payments : payments[i].run = r}

\* What they add up to, as a sum of a function.
LEMMA PutDownIs ==
  ASSUME TypeOK, NEW r \in Runs
  PROVE  /\ IsFiniteSet(Own(r)) /\ PutDownBy(r) = SumOver([i \in Own(r) |-> payments[i].amount], Own(r))
         /\ \A i \in Own(r) : payments[i].amount \in Nat
         /\ Own(r) = {} => PutDownBy(r) = 0
         /\ \A i \in Own(r) : Own(r) = {i} => PutDownBy(r) = payments[i].amount
<1> DEFINE f == [i \in Own(r) |-> payments[i].amount]
<1>1. PutDownBy(r) = SumOver(f, Own(r))
  BY ZenonT(60) DEF PutDownBy, SumOf, Own, SumOver, MapThenSumSet, MapThenFoldSet
<1>2. Own(r) \in SUBSET DOMAIN payments
  BY DEF Own
<1>3. IsFiniteSet(Own(r))
  BY <1>2, SomeType
<1>4. \A i \in Own(r) : payments[i].amount \in Nat /\ f[i] = payments[i].amount
  BY <1>2, PaymentType
<1> HIDE DEF f
<1>5. Own(r) = {} => SumOver(f, Own(r)) = 0
  BY SumOfNone
<1>6. \A i \in Own(r) : Own(r) = {i} => SumOver(f, Own(r)) = payments[i].amount
  BY <1>4, SumOfOne
<1> QED
  BY <1>1, <1>3, <1>4, <1>5, <1>6 DEF f

\* The payments for the first n shares add up to what the shares do.
LEMMA BookedAddsUp ==
  ASSUME TypeOK, NEW r \in Runs, StateOf(r), NEW n \in 0..Len(shares[r]), Booked(r, n)
  PROVE  PutDownBy(r) = SumOver(AmountsOf(shares[r]), 1..n)
<1> DEFINE list == shares[r]
           f == [i \in Own(r) |-> payments[i].amount]
           at == [j \in 1..n |-> CHOOSE i \in DOMAIN payments : IsShare(i, r, j)]
<1>1. /\ n \in Nat /\ 1..n \subseteq 1..Len(list) /\ DOMAIN list = 1..Len(list)
      /\ \A j \in 1..Len(list) : list[j].amount \in Nat
  BY RunType
<1>2. IsFiniteSet(1..n)
  BY <1>1, FS_Interval
<1>3. \A j \in 1..n : at[j] \in DOMAIN payments /\ IsShare(at[j], r, j)
  BY DEF Booked
<1>4. at \in [1..n -> Own(r)]
  BY <1>3 DEF Own, IsShare
<1>5. \A i \in Own(r) : f[i] = payments[i].amount
  OBVIOUS
<1>6. \A j \in 1..n : f[at[j]] = AmountsOf(list)[j]
  BY <1>1, <1>3, <1>4, <1>5 DEF IsShare, AmountsOf
<1>7. \A j, k \in 1..n : at[j] = at[k] => j = k
  <2> HIDE DEF at
  <2> SUFFICES ASSUME NEW j \in 1..n, NEW k \in 1..n, at[j] = at[k] PROVE j = k
    OBVIOUS
  <2>1. list[j].contract = list[k].contract
    BY <1>3 DEF IsShare
  <2> QED
    BY <1>1, <2>1 DEF StateOf, Distinct
<1>8. \A i \in Own(r) : \E j \in 1..n : at[j] = i
  <2> HIDE DEF at
  <2> SUFFICES ASSUME NEW i \in Own(r) PROVE \E j \in 1..n : at[j] = i
    OBVIOUS
  <2>1. i \in DOMAIN payments /\ payments[i].run = r
    BY DEF Own
  <2>2. PICK j \in 1..n : IsShare(i, r, j)
    BY <2>1 DEF Booked
  <2>3. at[j] = i
    BY <1>3, <2>1, <2>2 DEF Booked, IsShare
  <2> QED
    BY <2>3
<1>9. \A i \in Own(r) : f[i] \in Int
  <2>1. \A i \in Own(r) : payments[i].amount \in Nat
    BY PutDownIs
  <2> HIDE DEF f
  <2> QED
    BY <1>5, <2>1
<1> HIDE DEF at, f
<1>10. SumOver([j \in 1..n |-> f[at[j]]], 1..n) = SumOver(f, Own(r))
  BY <1>2, <1>4, <1>7, <1>8, <1>9, SumReindexed
<1> DEFINE g == [j \in 1..n |-> f[at[j]]]
<1>11. \A j \in 1..n : g[j] = AmountsOf(list)[j]
  BY <1>6
<1> HIDE DEF g
<1>12. SumOver(g, 1..n) = SumOver(AmountsOf(list), 1..n)
  BY <1>2, <1>11, SumAgrees
<1>13. PutDownBy(r) = SumOver(f, Own(r))
  BY PutDownIs DEF f
<1> QED
  BY <1>10, <1>12, <1>13 DEF g

\* The payment for review is all a run puts down.
LEMMA OneAddsUp ==
  ASSUME TypeOK, NEW r \in Runs, OneForReview(r)
  PROVE  /\ amount[r] = NoAmount => PutDownBy(r) = 0
         /\ PutDownBy(r) = 0 \/ PutDownBy(r) = amount[r]
         /\ ~NoneOf(r) => PutDownBy(r) = amount[r]
<1>1. CASE Own(r) = {}
  BY <1>1, PutDownIs DEF Own, NoneOf
<1>2. CASE Own(r) # {}
  <2>1. PICK i \in Own(r) : TRUE
    BY <1>2
  <2>2. /\ i \in DOMAIN payments /\ payments[i].run = r
        /\ amount[r] # NoAmount /\ payments[i].amount = amount[r]
        /\ Own(r) = {i}
    BY <2>1 DEF Own, OneForReview
  <2> QED
    BY <2>2, PutDownIs
<1> QED
  BY <1>1, <1>2

\* The three parts of EachRunPaysItsAmount.
LEMMA RunPaysItsAmount ==
  ASSUME TypeOK, RunsInv, NEW r \in Runs
  PROVE  /\ amount[r] = NoAmount => PutDownBy(r) = 0
         /\ amount[r] # NoAmount => PutDownBy(r) <= amount[r]
         /\ (pc[r] \in {"balance", "receipt"} \/ remaining[r] # NoAmount) =>
              PutDownBy(r) = amount[r] /\ Booked(r, Len(shares[r])) /\ shares[r] # <<>>
<1>1. /\ StateOf(r) /\ PaymentsOf(r) /\ needs[r] \in BOOLEAN /\ pc[r] \in Nodes
      /\ amount[r] # NoAmount => amount[r] \in Nat \ {0}
      /\ Len(shares[r]) \in Nat /\ DOMAIN shares[r] = 1..Len(shares[r])
  BY RunType DEF RunsInv
<1>2. ASSUME NEW n \in 0..Len(shares[r]), Booked(r, n)
      PROVE  /\ shares[r] # <<>> => PutDownBy(r) <= amount[r]
             /\ n = Len(shares[r]) /\ shares[r] # <<>> => PutDownBy(r) = amount[r]
             /\ shares[r] = <<>> => PutDownBy(r) = 0
  <2>1. PutDownBy(r) = SumOver(AmountsOf(shares[r]), 1..n)
    BY <1>1, <1>2, BookedAddsUp
  <2>2. PICK f, N : f = AmountsOf(shares[r]) /\ N = Len(shares[r])
    OBVIOUS
  <2>3. /\ IsFiniteSet(1..N) /\ 1..n \in SUBSET (1..N) /\ IsFiniteSet(1..n)
        /\ \A j \in 1..N : f[j] \in Nat
    <3>1. \A j \in 1..N : f[j] = shares[r][j].amount
      BY <1>1, <2>2 DEF AmountsOf
    <3>2. n \in Nat /\ N \in Nat /\ n <= N
      BY <1>1, <2>2
    <3>3. IsFiniteSet(1..N) /\ IsFiniteSet(1..n)
      BY <3>2, FS_Interval
    <3>4. \A j \in 1..n : j \in 1..N
      BY <3>2
    <3> QED
      BY <2>2, <3>1, <3>3, <3>4, RunType
  <2>4. SumOver(f, 1..n) <= SumOver(f, 1..N)
    BY <2>3, SumGrows
  <2>5. SumOver(f, 1..n) \in Nat
    BY <2>3, SumNat
  <2>6. shares[r] # <<>> => SumOver(f, 1..N) = amount[r]
    BY <1>1, <2>2 DEF StateOf, Whole
  <2>7. shares[r] = <<>> => n = 0
    BY <1>1
  <2>8. n = 0 => SumOver(f, 1..n) = 0
    <3>1. n = 0 => 1..n = {}
      OBVIOUS
    <3> QED
      BY <3>1, SumOfNone
  <2> QED
    BY <2>1, <2>2, <2>4, <2>5, <2>6, <2>7, <2>8
<1>3. ASSUME NEW n \in 0..Len(shares[r]), Booked(r, n)
      PROVE  /\ amount[r] = NoAmount => PutDownBy(r) = 0
             /\ amount[r] # NoAmount => PutDownBy(r) <= amount[r]
  <2>1. amount[r] = NoAmount => shares[r] = <<>>
    BY <1>1 DEF StateOf
  <2> QED
    BY <1>1, <1>2, <1>3, <2>1
<1>4. ASSUME OneForReview(r)
      PROVE  /\ amount[r] = NoAmount => PutDownBy(r) = 0
             /\ amount[r] # NoAmount => PutDownBy(r) <= amount[r]
  BY <1>1, <1>4, OneAddsUp
<1>5. OneForReview(r) \/ \E n \in 0..Len(shares[r]) : Booked(r, n)
  <2>1. NoneOf(r) => OneForReview(r)
    BY DEF NoneOf, OneForReview
  <2>2. Len(shares[r]) \in 0..Len(shares[r])
    BY <1>1
  <2>3. pc[r] = "create" => next[r] - 1 \in 0..Len(shares[r])
    BY <1>1, RunType DEF StateOf
  <2>4. pc[r] \in {"balance", "receipt"} => ~needs[r]
    BY <1>1 DEF StateOf
  <2> QED
    BY <1>1, <2>1, <2>2, <2>3, <2>4 DEF PaymentsOf, Nodes
<1>6. ASSUME pc[r] \in {"balance", "receipt"} \/ remaining[r] # NoAmount
      PROVE  PutDownBy(r) = amount[r] /\ Booked(r, Len(shares[r])) /\ shares[r] # <<>>
  <2>1. shares[r] # <<>> /\ Booked(r, Len(shares[r]))
    BY <1>1, <1>6 DEF StateOf, PaymentsOf
  <2>2. Len(shares[r]) \in 0..Len(shares[r])
    BY <1>1
  <2> QED
    BY <1>2, <2>1, <2>2
<1> QED
  BY <1>3, <1>4, <1>5, <1>6

-----------------------------------------------------------------------------
(* What a run says *)

\* Every payment of a run has one line among its updated balances.
LEMMA OneLineEach ==
  ASSUME ReceiptsFit, NEW r \in Runs, Booked(r, Len(shares[r])), Written(r, Len(shares[r])),
         NEW i \in Own(r)
  PROVE  Cardinality({k \in UpdatedBalances(r) : receipts[k].payment = i}) = 1
<1>1. i \in DOMAIN payments /\ payments[i].run = r
  BY DEF Own
<1>2. PICK j \in 1..Len(shares[r]) : IsShare(i, r, j)
  BY <1>1 DEF Booked
<1>3. PICK k \in DOMAIN receipts : IsShare(receipts[k].payment, r, j)
  BY DEF Written
<1>4. receipts[k].payment = i
  BY <1>1, <1>2, <1>3 DEF Booked, IsShare, ReceiptsFit
<1>5. k \in UpdatedBalances(r)
  BY <1>1, <1>4 DEF UpdatedBalances
<1>6. {l \in UpdatedBalances(r) : receipts[l].payment = i} = {k}
  BY <1>4, <1>5 DEF Written
<1> QED
  BY <1>6, FS_Singleton

\* The new balances of some receipts, as a sum of a function.
LEMMA SumOfNew ==
  ASSUME NEW g, NEW S
  PROVE  MapThenSumSet(LAMBDA i : g[i].new, S) = SumOver([i \in S |-> g[i].new], S)
BY DEF SumOver, MapThenSumSet, MapThenFoldSet

\* The lines add up to what the contracts of the run owe.
LEMMA LinesAddUp ==
  ASSUME TypeOK, ReceiptsFit, NEW r \in Runs, StateOf(r), Booked(r, Len(shares[r])),
         Written(r, Len(shares[r])),
         \A k \in UpdatedBalances(r) : receipts[k].new = Balance(payments, receipts[k].contract)
  PROVE  MapThenSumSet(LAMBDA k : receipts[k].new, UpdatedBalances(r))
           = OwedByFirst(payments, shares[r], Len(shares[r]))
<1> DEFINE lines == UpdatedBalances(r)
           list  == shares[r]
           n     == Len(list)
           f     == [j \in 1..n |-> Balance(payments, list[j].contract)]
           at    == [k \in lines |-> CHOOSE j \in 1..n : IsShare(receipts[k].payment, r, j)]
           g     == [k \in lines |-> receipts[k].new]
           h     == [k \in lines |-> f[at[k]]]
<1>1. /\ n \in Nat /\ DOMAIN list = 1..n
      /\ \A j \in 1..n : list[j].contract \in Contracts
  BY RunType
<1>2. IsFiniteSet(lines)
  <2>1. receipts \in Seq(Receipt)
    BY DEF TypeOK
  <2>2. Len(receipts) \in Nat /\ DOMAIN receipts = 1..Len(receipts)
    BY <2>1
  <2>3. IsFiniteSet(DOMAIN receipts)
    BY <2>2, FS_Interval
  <2>4. lines \subseteq DOMAIN receipts
    BY DEF UpdatedBalances
  <2> HIDE DEF lines
  <2> QED
    BY <2>3, <2>4, FS_Subset
<1>3. \A k \in lines : at[k] \in 1..n /\ IsShare(receipts[k].payment, r, at[k])
  BY DEF Written
<1>4. \A k \in lines : k \in DOMAIN receipts /\ receipts[k].payment \in DOMAIN payments
  BY DEF UpdatedBalances, ReceiptsFit
<1>5. \A j \in 1..n : f[j] \in Int
  BY <1>1, RemainingType, TotalPaidIs
<1>6. at \in [lines -> 1..n]
  BY <1>3
<1>7. \A k \in lines : g[k] = h[k]
  <2> SUFFICES ASSUME NEW k \in lines PROVE g[k] = h[k]
    OBVIOUS
  <2>1. PICK j \in 1..n : j = at[k] /\ IsShare(receipts[k].payment, r, j)
    BY <1>3
  <2>2. receipts[k].contract = list[j].contract
    BY <1>4, <2>1 DEF ReceiptsFit, IsShare
  <2>3. receipts[k].new = f[j]
    BY <2>1, <2>2
  <2> HIDE DEF at, f
  <2> QED
    BY <2>1, <2>3
<1>8. \A k, l \in lines : at[k] = at[l] => k = l
  <2> HIDE DEF at
  <2> SUFFICES ASSUME NEW k \in lines, NEW l \in lines, at[k] = at[l] PROVE k = l
    OBVIOUS
  <2>1. receipts[k].payment = receipts[l].payment
    <3>1. PICK j, p, q :
            /\ p \in DOMAIN payments /\ q \in DOMAIN payments
            /\ p = receipts[k].payment /\ q = receipts[l].payment
            /\ IsShare(p, r, j) /\ IsShare(q, r, j)
      BY <1>3, <1>4
    <3>2. p = q
      BY <3>1 DEF Booked, IsShare
    <3> QED
      BY <3>1, <3>2
  <2> QED
    BY <2>1 DEF Written
<1>9. \A j \in 1..n : \E k \in lines : at[k] = j
  <2> HIDE DEF at
  <2> SUFFICES ASSUME NEW j \in 1..n PROVE \E k \in lines : at[k] = j
    OBVIOUS
  <2>1. PICK k \in DOMAIN receipts : IsShare(receipts[k].payment, r, j)
    BY DEF Written
  <2>2. k \in lines
    BY <2>1 DEF UpdatedBalances, IsShare
  <2>3. list[at[k]].contract = list[j].contract
    BY <1>3, <2>1, <2>2 DEF IsShare
  <2>4. at[k] = j
    BY <1>1, <1>6, <2>2, <2>3 DEF StateOf, Distinct
  <2> QED
    BY <2>2, <2>4
<1>10. MapThenSumSet(LAMBDA k : receipts[k].new, lines) = SumOver(g, lines)
  BY SumOfNew
<1> HIDE DEF lines, f, at, g, n
<1>11. SumOver(h, lines) = SumOver(f, 1..n)
  <2> DEFINE all == 1..n
  <2>1. /\ at \in [lines -> all] /\ \A j \in all : f[j] \in Int
        /\ \A j \in all : \E k \in lines : at[k] = j
    BY <1>5, <1>6, <1>9
  <2> HIDE DEF all
  <2>2. SumOver([k \in lines |-> f[at[k]]], lines) = SumOver(f, all)
    BY ONLY <1>2, <1>8, <2>1, SumReindexed
  <2> QED
    BY <2>2 DEF all
<1> HIDE DEF h
<1>12. SumOver(g, lines) = SumOver(h, lines)
  BY <1>2, <1>7, SumAgrees
<1> QED
  BY <1>10, <1>11, <1>12 DEF OwedByFirst, f, lines, n

\* What a run knows when it says that a payment was received.
LEMMA ReceivedMeans ==
  ASSUME LedgerInv, NEW r \in Runs, amount[r] # NoAmount, Reply(r).says = "received"
  PROVE  /\ pc[r] = "done" /\ shares[r] # <<>> /\ PutDownBy(r) = amount[r]
         /\ Booked(r, Len(shares[r])) /\ Written(r, Len(shares[r]))
         /\ Reply(r).of = Received(r) /\ Reply(r).balances = UpdatedBalances(r)
<1>1. StateOf(r) /\ needs[r] \in BOOLEAN
  BY RunType DEF LedgerInv, RunsInv
<1>2. /\ decision[r] = "NO_REMINDER"
      /\ Reply(r).of = Received(r) /\ Reply(r).balances = UpdatedBalances(r)
  BY DEF Reply
<1>3. pc[r] = "done" /\ ~needs[r]
  BY <1>1, <1>2 DEF StateOf
<1>4. shares[r] # <<>> /\ remaining[r] # NoAmount
  BY <1>1, <1>3 DEF StateOf, Allocates
<1>5. PutDownBy(r) = amount[r] /\ Booked(r, Len(shares[r]))
  BY <1>4, RunPaysItsAmount DEF LedgerInv
<1>6. Written(r, Len(shares[r]))
  BY <1>3, <1>4 DEF LedgerInv, ReceiptsInv
<1> QED
  BY <1>2, <1>3, <1>4, <1>5, <1>6

\* Each share of a run is a payment.
LEMMA SharesArePutDown ==
  ASSUME TypeOK, NEW r \in Runs, Booked(r, Len(shares[r])), NEW j \in DOMAIN shares[r]
  PROVE  PutDownFor(r, shares[r][j])
<1>1. j \in 1..Len(shares[r])
  BY RunType
<1>2. PICK i \in DOMAIN payments : IsShare(i, r, j)
  BY <1>1 DEF Booked
<1> QED
  BY <1>2 DEF PutDownFor, IsShare

-----------------------------------------------------------------------------
(* The theorems *)

\* Every variable of the ledger has its type: the receipts name payments by their number,
\* the balances are never below nothing, the split is into amounts of contracts of the
\* customer, whatever runs and reviewers do at the same time.
THEOREM LedgerIsTyped == Spec => []TypeOK
<1>1. LedgerInv => TypeOK
  BY DEF LedgerInv
<1> QED
  BY <1>1, LedgerAlways, PTL

\* What a run puts down (the rows PaymentCreationNode and ApprovalCreationNode commit one by
\* one) is never more than the amount of its message, and all of it once it is past the
\* creation of payments: for any split, any failure and any runs beside it.
THEOREM RunsPutDownTheirAmount == Spec => []EachRunPaysItsAmount
<1>1. LedgerInv => EachRunPaysItsAmount
  BY RunPaysItsAmount DEF LedgerInv, EachRunPaysItsAmount
<1> QED
  BY <1>1, LedgerAlways, PTL

\* ReminderDecisionNode says "fully paid" of an added-up balance of nothing: every contract
\* of the split then owes nothing, and only a rejection can change that later.
THEOREM FullyPaidIsTrue == Spec => []CompletedIsEarned
<1>1. LedgerInv => CompletedIsEarned
  <2> SUFFICES ASSUME LedgerInv, NEW r \in Runs, decision[r] = "CONTRACT_COMPLETED"
               PROVE  /\ shares[r] # <<>>
                      /\ \A i \in DOMAIN shares[r] : LET c == shares[r][i].contract IN
                           \/ Remaining(c) = 0
                           \/ \E p \in DOMAIN payments :
                                payments[p].contract = c /\ AuditedAs(p, "REJECTED")
    BY DEF CompletedIsEarned
  <2>1. StateOf(r)
    BY DEF LedgerInv, RunsInv
  <2>2. pc[r] = "done" /\ remaining[r] = 0
    BY <2>1 DEF StateOf
  <2>3. shares[r] # <<>>
    BY <2>1, <2>2, LedgerAssumption DEF StateOf
  <2>4. \A i \in DOMAIN shares[r] : Settled(payments, audits, shares[r][i].contract)
    BY <2>2 DEF LedgerInv, SettledInv
  <2>5. \A c : Settled(payments, audits, c) =>
          \/ Remaining(c) = 0
          \/ \E p \in DOMAIN payments : payments[p].contract = c /\ AuditedAs(p, "REJECTED")
    BY TotalPaidIs DEF Settled, AuditedAs
  <2> QED
    BY <2>3, <2>4, <2>5
<1> QED
  BY <1>1, LedgerAlways, PTL

\* What ResponseGenerationNode tells the sender of money is so: the amount it has recorded
\* and the split it states are the rows of the database, the updated balances have one line
\* for each of them and add up to the remaining balance, and what is pending approval is
\* there to be approved.
THEOREM RepliesAreSo == Spec => []RepliesAreTrue
<1>1. ASSUME LedgerInv, NEW r \in Runs, amount[r] # NoAmount, Reply(r).says = "received"
      PROVE  LET said  == Reply(r).of
                 lines == Reply(r).balances
             IN /\ PutDownBy(r) = said.recorded
                /\ said.to # NoRef =>
                     PutDownFor(r, [contract |-> said.to, amount |-> said.recorded])
                /\ said.split # <<>> =>
                     /\ MapThenSumSet(LAMBDA i : said.split[i].amount, DOMAIN said.split)
                          = said.recorded
                     /\ \A i \in DOMAIN said.split : PutDownFor(r, said.split[i])
                /\ \A i \in DOMAIN payments : payments[i].run = r =>
                     Cardinality({k \in lines : receipts[k].payment = i}) = 1
                /\ Alone(r) => MapThenSumSet(LAMBDA k : receipts[k].new, lines) = said.remaining
  <2> DEFINE said  == Reply(r).of
             lines == Reply(r).balances
             list  == shares[r]
  <2>1. /\ pc[r] = "done" /\ list # <<>> /\ PutDownBy(r) = amount[r]
        /\ Booked(r, Len(list)) /\ Written(r, Len(list))
        /\ said = Received(r) /\ lines = UpdatedBalances(r)
    BY <1>1, ReceivedMeans
  <2>2. /\ TypeOK /\ ReceiptsFit /\ StateOf(r)
        /\ Len(list) \in Nat /\ DOMAIN list = 1..Len(list)
        /\ \A j \in 1..Len(list) : list[j].amount \in Nat
    BY <1>1, RunType DEF LedgerInv, ReceiptsInv, ReceiptsFit, RunsInv
  <2>3. /\ said.recorded = amount[r] /\ said.remaining = remaining[r]
        /\ said.split = IF Len(list) > 1 THEN list ELSE <<>>
        /\ said.to = IF Len(list) = 1 /\ Len(Order) > 1 THEN list[1].contract ELSE NoRef
    BY <2>1 DEF Received
  <2> HIDE DEF said, lines
  <2>4. Whole(list) = amount[r]
    BY <2>1, <2>2 DEF StateOf
  <2>5. said.to # NoRef => PutDownFor(r, [contract |-> said.to, amount |-> said.recorded])
    <3> SUFFICES ASSUME said.to # NoRef
                 PROVE  PutDownFor(r, [contract |-> said.to, amount |-> said.recorded])
      OBVIOUS
    <3>1. Len(list) = 1 /\ said.to = list[1].contract
      BY <2>3
    <3>2. DOMAIN list = {1}
      BY <2>2, <3>1
    <3>3. AmountsOf(list)[1] = list[1].amount
      BY <3>2 DEF AmountsOf
    <3>4. list[1].amount = amount[r]
      <4>1. Whole(list) = SumOver(AmountsOf(list), {1})
        BY <3>2 DEF Whole
      <4>2. AmountsOf(list)[1] \in Int
        BY <2>2, <3>1, <3>3
      <4> QED
        BY <2>4, <3>3, <4>1, <4>2, SumOfOne
    <3>5. PutDownFor(r, list[1])
      BY <2>1, <2>2, <3>2, SharesArePutDown
    <3> QED
      BY <2>3, <3>1, <3>4, <3>5 DEF PutDownFor
  <2>6. said.split # <<>> =>
          /\ MapThenSumSet(LAMBDA i : said.split[i].amount, DOMAIN said.split) = said.recorded
          /\ \A i \in DOMAIN said.split : PutDownFor(r, said.split[i])
    <3>1. said.split # <<>> => said.split = list
      BY <2>3
    <3>2. MapThenSumSet(LAMBDA i : said.split[i].amount, DOMAIN said.split) = Whole(said.split)
      BY SumOfField DEF Whole, AmountsOf
    <3>3. \A i \in DOMAIN list : PutDownFor(r, list[i])
      BY <2>1, <2>2, SharesArePutDown
    <3> QED
      BY <2>3, <2>4, <3>1, <3>2, <3>3
  <2>7. \A i \in DOMAIN payments : payments[i].run = r =>
          Cardinality({k \in lines : receipts[k].payment = i}) = 1
    BY <2>1, <2>2, OneLineEach DEF Own
  <2>8. Alone(r) => MapThenSumSet(LAMBDA k : receipts[k].new, lines) = said.remaining
    <3> SUFFICES ASSUME Alone(r)
                 PROVE  MapThenSumSet(LAMBDA k : receipts[k].new, lines) = said.remaining
      OBVIOUS
    <3>1. /\ remaining[r] = OwedByFirst(payments, list, Len(list))
          /\ \A k \in UpdatedBalances(r) : receipts[k].new = Balance(payments, receipts[k].contract)
      BY <1>1, <2>1 DEF LedgerInv, AloneInv
    <3>2. MapThenSumSet(LAMBDA k : receipts[k].new, UpdatedBalances(r))
            = OwedByFirst(payments, list, Len(list))
      BY <2>1, <2>2, <3>1, LinesAddUp
    <3> QED
      BY <2>1, <2>3, <3>1, <3>2
  <2> QED
    BY <2>1, <2>3, <2>5, <2>6, <2>7, <2>8 DEF said, lines
<1>2. ASSUME LedgerInv, NEW r \in Runs, amount[r] # NoAmount,
             Reply(r).says = "pending approval", contract[r] # NoRef
      PROVE  \E i \in DOMAIN payments :
               /\ payments[i].run = r /\ payments[i].requires_manual_review
               /\ payments[i].amount = amount[r] /\ PutDownBy(r) = amount[r]
  <2>1. decision[r] = "WAIT_FOR_APPROVAL"
    BY <1>2 DEF Reply
  <2>2. pc[r] = "done" /\ needs[r]
    BY <1>2, <2>1 DEF LedgerInv, RunsInv, StateOf
  <2>3. OneForReview(r) /\ ~NoneOf(r)
    BY <1>2, <2>2 DEF LedgerInv, RunsInv, PaymentsOf
  <2>4. PICK i \in DOMAIN payments : payments[i].run = r
    BY <2>3 DEF NoneOf
  <2>5. PutDownBy(r) = amount[r]
    BY <1>2, <2>3, OneAddsUp DEF LedgerInv
  <2> QED
    BY <2>3, <2>4, <2>5 DEF OneForReview
<1>3. LedgerInv => RepliesAreTrue
  BY <1>1, <1>2 DEF RepliesAreTrue
<1> QED
  BY <1>3, LedgerAlways, PTL

-----------------------------------------------------------------------------
(***************************************************************************)
(* What receipts say. A balance is read in one step and stored in another, *)
(* and others pay and review in between; the invariant says of a balance   *)
(* that is held what the property says of a receipt.                       *)
(***************************************************************************)

\* What some payments of a table have paid of a contract: PaidBy of a table that is a
\* parameter.
Among(rows, c, S) == {i \in S : rows[i].contract = c /\ rows[i].status = "APPROVED"}
PaidAmong(rows, c, S) == SumOver([i \in Among(rows, c, S) |-> rows[i].amount], Among(rows, c, S))

UnreviewedIn(rows, log, c) == \A k \in DOMAIN log : rows[log[k].payment].contract # c
UnrejectedIn(rows, log, c) ==
  \A k \in DOMAIN log : rows[log[k].payment].contract = c => log[k].verdict = "APPROVED"

\* A balance is one that contract c had at or after its payment i.
Snapshot(rows, log, c, i, new) ==
  /\ i \in DOMAIN rows /\ rows[i].contract = c
  /\ UnreviewedIn(rows, log, c) =>
       /\ rows[i].status = "APPROVED"
       /\ \E n \in i..Len(rows) : new = Floored(Total[c], PaidAmong(rows, c, 1..n))
  /\ UnrejectedIn(rows, log, c) => Balance(rows, c) <= new

SnapshotInv ==
  /\ \A k \in DOMAIN receipts :
       /\ Snapshot(payments, audits, receipts[k].contract, receipts[k].payment, receipts[k].new)
       /\ receipts[k].previous = receipts[k].new + payments[receipts[k].payment].amount
  /\ \A r \in Runs : held[r] # NoAmount =>
       \A i \in DOMAIN payments : IsShare(i, r, next[r]) =>
         Snapshot(payments, audits, payments[i].contract, i, held[r])
  /\ \A i \in DOMAIN payments : payments[i].requires_manual_review => needs[payments[i].run]

\* PaidBy is the parameterised one, and all payments together are the total.
LEMMA PaidByIs ==
  ASSUME NEW c
  PROVE  /\ \A S : PaidBy(c, S) = PaidAmong(payments, c, S)
         /\ PaidIn(payments, c) = PaidAmong(payments, c, DOMAIN payments)
<1>1. ASSUME NEW S PROVE PaidBy(c, S) = PaidAmong(payments, c, S)
  BY SumOfField DEF PaidBy, PaidAmong, Among
<1>2. ApprovedIn(payments, c) = Among(payments, c, DOMAIN payments)
  BY DEF ApprovedIn, Among
<1> QED
  BY <1>1, <1>2 DEF PaidIn, PaidAmong

\* A payment more is a later one: what the first ones paid stays, and less is owed.
LEMMA SnapshotAppended ==
  ASSUME NEW rows \in Seq(Payment), NEW row \in Payment, NEW log,
         \A k \in DOMAIN log : log[k].payment \in DOMAIN rows,
         NEW c \in Contracts, NEW i, NEW new \in Nat, Snapshot(rows, log, c, i, new)
  PROVE  Snapshot(Append(rows, row), log, c, i, new)
<1> DEFINE more == Append(rows, row)
<1>1. /\ more \in Seq(Payment) /\ DOMAIN rows = 1..Len(rows) /\ Len(rows) \in Nat
      /\ Len(more) = Len(rows) + 1 /\ DOMAIN rows \subseteq DOMAIN more
      /\ \A j \in DOMAIN rows : more[j] = rows[j]
  BY AppendTyped
<1> HIDE DEF more
<1>2. (UnreviewedIn(more, log, c) <=> UnreviewedIn(rows, log, c))
      /\ (UnrejectedIn(more, log, c) <=> UnrejectedIn(rows, log, c))
  BY <1>1 DEF UnreviewedIn, UnrejectedIn
<1>3. ASSUME NEW n \in i..Len(rows)
      PROVE  n \in i..Len(more) /\ PaidAmong(more, c, 1..n) = PaidAmong(rows, c, 1..n)
  <2>1. i \in 1..Len(rows)
    BY <1>1 DEF Snapshot
  <2>2. 1..n \subseteq DOMAIN rows
    BY <1>1, <2>1
  <2>3. Among(more, c, 1..n) = Among(rows, c, 1..n)
    BY <1>1, <2>2 DEF Among
  <2>4. \A j \in Among(rows, c, 1..n) : more[j].amount = rows[j].amount
    BY <1>1, <2>2 DEF Among
  <2>5. [j \in Among(rows, c, 1..n) |-> more[j].amount] = [j \in Among(rows, c, 1..n) |-> rows[j].amount]
    BY <2>4
  <2>6. n \in i..Len(more)
    BY <1>1, <2>1
  <2> QED
    BY <2>3, <2>5, <2>6 DEF PaidAmong
<1>4. /\ Balance(rows, c) \in Nat /\ Balance(more, c) \in Nat /\ Balance(more, c) <= Balance(rows, c)
  <2>1. ApprovedIn(rows, c) \subseteq ApprovedIn(more, c)
    BY <1>1 DEF ApprovedIn
  <2>2. \A j \in ApprovedIn(rows, c) : more[j].amount = rows[j].amount
    BY <1>1 DEF ApprovedIn
  <2> QED
    BY <1>1, <2>1, <2>2, BalanceFalls
<1>5. UnrejectedIn(more, log, c) => Balance(more, c) <= new
  BY <1>2, <1>4 DEF Snapshot
<1> QED
  BY <1>1, <1>2, <1>3, <1>5 DEF Snapshot, more

\* A review of another contract changes nothing, and an approval leaves less to pay.
LEMMA SnapshotReviewed ==
  ASSUME TypeOK, TypeOK', ReviewInv, NEW v \in Reviewers, Save(v), NEW c \in Contracts, NEW i,
         NEW new \in Nat, Snapshot(payments, audits, c, i, new)
  PROVE  Snapshot(payments', audits', c, i, new)
<1>1. PICK e, flag : SavesRow(v, e, flag)
  BY SaveIs
<1>2. /\ e \in DOMAIN payments /\ DOMAIN payments' = DOMAIN payments
      /\ \A j \in DOMAIN payments : j # e => payments'[j] = payments[j]
      /\ payments'[e].contract = payments[e].contract /\ payments'[e].amount = payments[e].amount
      /\ payments'[e].status = flag /\ flag \in Verdicts
      /\ flag = review[v].verdict \/ flag = payments[e].status
  BY <1>1 DEF SavesRow
<1>3. PICK note : /\ note = [payment |-> e, verdict |-> review[v].verdict]
                  /\ audits' = Append(audits, note)
  BY <1>1 DEF SavesRow
<1>4. PICK last : last = Len(audits) + 1
  OBVIOUS
<1>5. /\ DOMAIN audits' = DOMAIN audits \cup {last}
      /\ \A k \in DOMAIN audits : audits'[k] = audits[k]
      /\ audits'[last] = note
  <2>1. IsASeq(audits)
    BY DEF ReviewInv, Rows, IsASeq
  <2> QED
    BY <1>3, <1>4, <2>1, AppendAny
<1>6. \A j \in DOMAIN payments :
        payments'[j].contract = payments[j].contract /\ payments'[j].amount = payments[j].amount
  BY <1>2
<1>7. \A k \in DOMAIN audits : audits[k].payment \in DOMAIN payments
  BY DEF ReviewInv, Rows
<1>8. UnreviewedIn(payments', audits', c) =>
        UnreviewedIn(payments, audits, c) /\ payments[e].contract # c
  <2> SUFFICES ASSUME UnreviewedIn(payments', audits', c)
               PROVE  UnreviewedIn(payments, audits, c) /\ payments[e].contract # c
    OBVIOUS
  <2>1. payments'[e].contract # c
    BY <1>3, <1>5 DEF UnreviewedIn
  <2>2. \A k \in DOMAIN audits : payments'[audits[k].payment].contract # c
    BY <1>5 DEF UnreviewedIn
  <2> QED
    BY <1>2, <1>6, <1>7, <2>1, <2>2 DEF UnreviewedIn
<1>9. UnrejectedIn(payments', audits', c) =>
        /\ UnrejectedIn(payments, audits, c)
        /\ payments[e].contract = c => review[v].verdict = "APPROVED"
  <2> SUFFICES ASSUME UnrejectedIn(payments', audits', c)
               PROVE  /\ UnrejectedIn(payments, audits, c)
                      /\ payments[e].contract = c => review[v].verdict = "APPROVED"
    OBVIOUS
  <2>1. payments'[e].contract = c => review[v].verdict = "APPROVED"
    BY <1>3, <1>5 DEF UnrejectedIn
  <2>2. \A k \in DOMAIN audits :
          payments'[audits[k].payment].contract = c => audits[k].verdict = "APPROVED"
    BY <1>5 DEF UnrejectedIn
  <2> QED
    BY <1>2, <1>6, <1>7, <2>1, <2>2 DEF UnrejectedIn
<1>10. /\ payments \in Seq(Payment) /\ payments' \in Seq(Payment)
       /\ Len(payments) \in Nat /\ DOMAIN payments = 1..Len(payments) /\ Len(payments') = Len(payments)
  <2>1. payments \in Seq(Payment) /\ payments' \in Seq(Payment)
    BY DEF TypeOK
  <2>2. /\ Len(payments) \in Nat /\ DOMAIN payments = 1..Len(payments)
        /\ Len(payments') \in Nat /\ DOMAIN payments' = 1..Len(payments')
    BY <2>1
  <2> QED
    BY <1>2, <2>1, <2>2
<1>11. i \in DOMAIN payments' /\ payments'[i].contract = c
  BY <1>2, <1>6 DEF Snapshot
<1>12. ASSUME UnreviewedIn(payments', audits', c)
       PROVE  /\ payments'[i].status = "APPROVED"
              /\ \E n \in i..Len(payments') : new = Floored(Total[c], PaidAmong(payments', c, 1..n))
  <2>1. UnreviewedIn(payments, audits, c) /\ payments[e].contract # c
    BY <1>8, <1>12
  <2>2. \A j \in DOMAIN payments : payments[j].contract = c => payments'[j] = payments[j]
    BY <1>2, <2>1
  <2>3. payments'[i].status = "APPROVED"
    BY <2>1, <2>2 DEF Snapshot
  <2>4. PICK n \in i..Len(payments) : new = Floored(Total[c], PaidAmong(payments, c, 1..n))
    BY <2>1 DEF Snapshot
  <2>5. 1..n \subseteq DOMAIN payments
    BY <1>10, <2>4 DEF Snapshot
  <2>6. Among(payments', c, 1..n) = Among(payments, c, 1..n)
    BY <1>6, <2>2, <2>5 DEF Among
  <2>7. [j \in Among(payments, c, 1..n) |-> payments'[j].amount]
          = [j \in Among(payments, c, 1..n) |-> payments[j].amount]
    BY <1>6, <2>5 DEF Among
  <2>8. PaidAmong(payments', c, 1..n) = PaidAmong(payments, c, 1..n)
    BY <2>6, <2>7 DEF PaidAmong
  <2> QED
    BY <1>10, <2>3, <2>4, <2>8
<1>13. ASSUME UnrejectedIn(payments', audits', c) PROVE Balance(payments', c) <= new
  <2>1. UnrejectedIn(payments, audits, c) /\ (payments[e].contract = c => review[v].verdict = "APPROVED")
    BY <1>9, <1>13
  <2>2. ASSUME NEW j \in ApprovedIn(payments, c) PROVE j \in ApprovedIn(payments', c)
    BY <1>2, <1>6, <2>1 DEF ApprovedIn
  <2>3. \A j \in ApprovedIn(payments, c) : payments'[j].amount = payments[j].amount
    BY <1>6 DEF ApprovedIn
  <2>4. ApprovedIn(payments, c) \subseteq ApprovedIn(payments', c)
    BY <2>2
  <2>5. /\ Balance(payments, c) \in Nat /\ Balance(payments', c) \in Nat
        /\ Balance(payments', c) <= Balance(payments, c)
    BY <1>10, <2>3, <2>4, BalanceFalls
  <2>6. Balance(payments, c) <= new
    BY <2>1 DEF Snapshot
  <2> QED
    BY <2>5, <2>6
<1> QED
  BY <1>11, <1>12, <1>13 DEF Snapshot

\* The step of a run changes no row and no review; it adds at most a payment, which is for
\* manual review only if the run needs one.
LEMMA RunAdds ==
  ASSUME TypeOK, TypeOK', RunsInv, NEW r \in Runs, RunStep(r)
  PROVE  /\ audits' = audits
         /\ \/ payments' = payments
            \/ \E row \in Payment : /\ payments' = Append(payments, row) /\ row.run = r
                                    /\ row.requires_manual_review => needs'[r]
<1>1. audits' = audits
  BY DEF RunStep, Understand, SkipAllocation, AllocateByReference, ReadOwed, FileForReview,
     AllocateAutomatically, CreateNothing, CreatePayment, ReadBalance, ReadNewBalance, WriteReceipt,
     Decide, Fail, tables
<1>2. ASSUME NEW row, payments' = Append(payments, row) PROVE row \in Payment
  <2>1. IsASeq(payments) /\ \A j \in DOMAIN payments' : payments'[j] \in Payment
    BY DEF TypeOK, IsASeq
  <2>2. Len(payments) + 1 \in DOMAIN payments' /\ payments'[Len(payments) + 1] = row
    BY <1>2, <2>1, AppendAny
  <2> QED
    BY <2>1, <2>2
<1>3. CASE FileForReview(r)
  <2> DEFINE row == NewPayment(r, contract[r], amount[r], "PENDING", TRUE)
  <2>1. CASE needs[r] /\ contract[r] # NoRef /\ amount[r] # NoAmount
    <3>1. payments' = Append(payments, row) /\ needs' = needs
      BY <1>3, <2>1 DEF FileForReview, state
    <3>2. row.run = r
      BY DEF NewPayment
    <3> HIDE DEF row
    <3>3. row \in Payment
      BY <3>1, <1>2
    <3> QED
      BY <1>1, <2>1, <3>1, <3>2, <3>3
  <2>2. CASE ~(needs[r] /\ contract[r] # NoRef /\ amount[r] # NoAmount)
    BY <1>1, <1>3, <2>2 DEF FileForReview
  <2> QED
    BY <2>1, <2>2
<1>4. CASE CreatePayment(r)
  <2> DEFINE share == shares[r][next[r]]
             row == NewPayment(r, share.contract, share.amount, "APPROVED", FALSE)
  <2>1. payments' = Append(payments, row)
    BY <1>4 DEF CreatePayment
  <2>2. row.run = r /\ ~row.requires_manual_review
    BY DEF NewPayment
  <2> HIDE DEF row
  <2>3. row \in Payment
    BY <2>1, <1>2
  <2> QED
    BY <1>1, <2>1, <2>2, <2>3
<1> QED
  BY <1>1, <1>3, <1>4 DEF RunStep, Understand, SkipAllocation, AllocateByReference, ReadOwed,
     AllocateAutomatically, CreateNothing, ReadBalance, ReadNewBalance, WriteReceipt, Decide, Fail,
     tables

\* Once a run has put something down, whether it needs a review is decided; and a balance is
\* held only after it was read.
LEMMA RunDecided ==
  ASSUME TypeOK, RunsInv, NEW r \in Runs, RunStep(r)
  PROVE  /\ ~NoneOf(r) => needs'[r] = needs[r]
         /\ ~ReadNewBalance(r) => held'[r] = NoAmount
<1>1. ~NoneOf(r) => needs'[r] = needs[r]
  <2>1. CASE Understand(r) \/ AllocateAutomatically(r)
    <3>1. pc[r] \in {"understand", "eligible"}
      BY <2>1 DEF Understand, AllocateAutomatically
    <3> QED
      BY <3>1 DEF RunsInv, PaymentsOf
  <2>2. CASE ~(Understand(r) \/ AllocateAutomatically(r))
    BY <2>2 DEF RunStep, SkipAllocation, AllocateByReference, ReadOwed, FileForReview, CreateNothing,
       CreatePayment, ReadBalance, ReadNewBalance, WriteReceipt, Decide, Fail, state
  <2> QED
    BY <2>1, <2>2
<1>2. ASSUME ~ReadNewBalance(r) PROVE held'[r] = NoAmount
  <2>1. \A node \in Nodes : Goto(r, node) \/ OnwardOr(r, node) => held'[r] = NoAmount
    BY GotoIs, OnwardOrIs
  <2>2. Onward(r) => held'[r] = NoAmount
    BY OnwardIs
  <2> QED
    BY <1>2, <2>1, <2>2 DEF RunStep, Understand, SkipAllocation, AllocateByReference, ReadOwed,
       FileForReview, AllocateAutomatically, CreateNothing, CreatePayment, ReadBalance, WriteReceipt,
       Decide, Fail, Nodes
<1> QED
  BY <1>1, <1>2

\* What is so of a balance stays so.
LEMMA SnapshotKept ==
  ASSUME LedgerInv, LedgerInv', Next, NEW c \in Contracts, NEW i, NEW new \in Nat,
         Snapshot(payments, audits, c, i, new)
  PROVE  Snapshot(payments', audits', c, i, new)
<1>1. TypeOK /\ TypeOK' /\ ReviewInv /\ RunsInv
  BY DEF LedgerInv
<1>2. ASSUME NEW r \in Runs, RunStep(r) PROVE Snapshot(payments', audits', c, i, new)
  <2>1. audits' = audits
    BY <1>1, <1>2, RunAdds
  <2>2. CASE payments' = payments
    BY <2>1, <2>2
  <2>3. CASE \E row \in Payment : payments' = Append(payments, row)
    <3>1. PICK row \in Payment : payments' = Append(payments, row)
      BY <2>3
    <3>2. payments \in Seq(Payment)
      BY <1>1 DEF TypeOK
    <3>3. \A k \in DOMAIN audits : audits[k].payment \in DOMAIN payments
      BY <1>1 DEF ReviewInv, Rows
    <3>4. Snapshot(Append(payments, row), audits, c, i, new)
      BY <3>2, <3>3, SnapshotAppended
    <3> QED
      BY <2>1, <3>1, <3>4
  <2> QED
    BY <1>1, <1>2, <2>2, <2>3, RunAdds
<1>3. ASSUME NEW v \in Reviewers, Load(v) \/ Drop(v) PROVE Snapshot(payments', audits', c, i, new)
  BY <1>3 DEF Load, Drop, tables
<1>4. ASSUME NEW v \in Reviewers, Save(v) PROVE Snapshot(payments', audits', c, i, new)
  BY <1>1, <1>4, SnapshotReviewed
<1> QED
  BY <1>2, <1>3, <1>4 DEF Next

\* A balance that was just read is one that the contract has now, and all payments count.
LEMMA SnapshotTaken ==
  ASSUME LedgerInv, SnapshotInv, NEW r \in Runs, ReadNewBalance(r), NEW i \in DOMAIN payments,
         IsShare(i, r, next[r])
  PROVE  /\ held'[r] = Balance(payments, payments[i].contract)
         /\ Snapshot(payments, audits, payments[i].contract, i, held'[r])
<1>1. TypeOK /\ ReviewInv /\ RunsInv
  BY DEF LedgerInv
<1>2. PICK c : c = payments[i].contract
  OBVIOUS
<1>3. held'[r] = Balance(payments, c)
  BY <1>1, <1>2, TotalPaidIs DEF ReadNewBalance, TypeOK, IsShare
<1>4. /\ Len(payments) \in Nat /\ DOMAIN payments = 1..Len(payments) /\ c \in Contracts
  BY <1>1, <1>2, PaymentType
<1>5. Balance(payments, c) \in Nat
  BY <1>1, <1>4, RemainingType, TotalPaidIs
<1>6. Balance(payments, c) = Floored(Total[c], PaidAmong(payments, c, 1..Len(payments)))
  BY <1>4, PaidByIs DEF Balance
<1>7. Len(payments) \in i..Len(payments)
  BY <1>4
<1>8. ~payments[i].requires_manual_review
  <2>1. ~needs[r]
    BY <1>1 DEF RunsInv, StateOf, ReadNewBalance
  <2> QED
    BY <2>1 DEF SnapshotInv, IsShare
<1>9. UnreviewedIn(payments, audits, c) => payments[i].status = "APPROVED"
  <2>1. /\ payments[i].status \in Statuses
        /\ payments[i].status = "PENDING" => payments[i].requires_manual_review
        /\ payments[i].status = "REJECTED" => AuditedAs(i, "REJECTED")
    BY <1>1 DEF ReviewInv, Rows, FlagsAgree, NoUnreviewedMoney
  <2>2. UnreviewedIn(payments, audits, c) => ~AuditedAs(i, "REJECTED")
    BY <1>2 DEF UnreviewedIn, AuditedAs
  <2> QED
    BY <1>8, <2>1, <2>2 DEF Statuses
<1>10. Balance(payments, c) <= held'[r]
  BY <1>3, <1>5
<1> QED
  BY <1>2, <1>3, <1>6, <1>7, <1>9, <1>10 DEF Snapshot

\* By the steps: receipts that are there,
LEMMA ReceiptsTell ==
  ASSUME LedgerInv, LedgerInv', SnapshotInv, Next, NEW k \in DOMAIN receipts'
  PROVE  /\ Snapshot(payments', audits', receipts'[k].contract, receipts'[k].payment, receipts'[k].new)
         /\ receipts'[k].previous = receipts'[k].new + payments'[receipts'[k].payment].amount
<1>1. /\ TypeOK /\ TypeOK' /\ ReviewInv /\ RunsInv /\ ReceiptsFit
  BY DEF LedgerInv, ReceiptsInv, ReceiptsFit
<1>2. RowsKept
  BY <1>1, RunRows, ReviewRows DEF Next
<1>3. ASSUME k \in DOMAIN receipts, receipts'[k] = receipts[k]
      PROVE  /\ Snapshot(payments', audits', receipts'[k].contract, receipts'[k].payment,
                         receipts'[k].new)
             /\ receipts'[k].previous = receipts'[k].new + payments'[receipts'[k].payment].amount
  <2>1. receipts[k] \in Receipt
    BY <1>1, <1>3 DEF TypeOK
  <2>2. receipts[k].contract \in Contracts /\ receipts[k].new \in Nat
    BY <2>1 DEF Receipt
  <2>3. Snapshot(payments', audits', receipts[k].contract, receipts[k].payment, receipts[k].new)
    BY <1>3, <2>2, SnapshotKept DEF SnapshotInv
  <2>4. payments'[receipts[k].payment].amount = payments[receipts[k].payment].amount
    BY <1>1, <1>2, <1>3 DEF ReceiptsFit, RowsKept
  <2> QED
    BY <1>3, <2>3, <2>4 DEF SnapshotInv
<1>4. ASSUME NEW r \in Runs, WriteReceipt(r), ~(k \in DOMAIN receipts /\ receipts'[k] = receipts[k])
      PROVE  /\ Snapshot(payments', audits', receipts'[k].contract, receipts'[k].payment,
                         receipts'[k].new)
             /\ receipts'[k].previous = receipts'[k].new + payments'[receipts'[k].payment].amount
  <2>1. PICK i, l : AddsReceipt(r, i, l)
    BY <1>1, <1>4, WriteReceiptIs
  <2>2. l = k /\ payments' = payments /\ audits' = audits
    BY <1>4, <2>1 DEF AddsReceipt, WriteReceipt
  <2>3. Snapshot(payments, audits, payments[i].contract, i, held[r])
    BY <2>1 DEF AddsReceipt, SnapshotInv
  <2> QED
    BY <2>1, <2>2, <2>3 DEF AddsReceipt
<1>5. (\A r \in Runs : ~WriteReceipt(r)) => receipts' = receipts
  BY DEF Next, RunStep, Understand, SkipAllocation, AllocateByReference, ReadOwed, FileForReview,
     AllocateAutomatically, CreateNothing, CreatePayment, ReadBalance, ReadNewBalance, Decide, Fail,
     Load, Save, Drop, tables
<1> QED
  BY <1>3, <1>4, <1>5

\* balances that are held,
LEMMA BalancesTell ==
  ASSUME LedgerInv, LedgerInv', SnapshotInv, Next, NEW s \in Runs, held'[s] # NoAmount,
         NEW i \in DOMAIN payments', IsShare(i, s, next[s])'
  PROVE  Snapshot(payments', audits', payments'[i].contract, i, held'[s])
<1>1. TypeOK /\ TypeOK' /\ ReviewInv /\ RunsInv
  BY DEF LedgerInv
<1>2. payments'[i].contract \in Contracts /\ held'[s] \in Nat
  <2>1. payments'[i] \in Payment
    BY <1>1 DEF TypeOK
  <2> QED
    BY <1>1, <2>1 DEF Payment, TypeOK
<1>3. ASSUME StateKept(s), RowsKept, NoneAdded(s)
      PROVE  Snapshot(payments', audits', payments'[i].contract, i, held'[s])
  <2>1. payments'[i].run = s
    BY DEF IsShare
  <2>2. i \in DOMAIN payments
    BY <1>3, <2>1 DEF NoneAdded
  <2>3. IsShare(i, s, next[s]) /\ payments'[i].contract = payments[i].contract
    BY <1>3, <2>2 DEF IsShare, RowsKept, StateKept
  <2>4. Snapshot(payments, audits, payments[i].contract, i, held[s])
    BY <1>3, <2>2, <2>3 DEF SnapshotInv, StateKept
  <2>5. held'[s] = held[s]
    BY <1>3 DEF StateKept
  <2> QED
    BY <1>2, <2>3, <2>4, <2>5, SnapshotKept
<1>4. ASSUME NEW r \in Runs, RunStep(r)
      PROVE  Snapshot(payments', audits', payments'[i].contract, i, held'[s])
  <2>1. CASE s # r
    BY <1>1, <1>3, <1>4, <2>1, OthersStay, RunRows
  <2>2. CASE s = r
    <3>1. ReadNewBalance(r)
      BY <1>1, <1>4, <2>2, RunDecided
    <3>2. payments' = payments /\ audits' = audits /\ shares' = shares /\ next' = next
      BY <3>1 DEF ReadNewBalance, state, tables
    <3>3. i \in DOMAIN payments /\ IsShare(i, r, next[r])
      BY <2>2, <3>2 DEF IsShare
    <3>4. Snapshot(payments, audits, payments[i].contract, i, held'[r])
      BY <3>1, <3>3, SnapshotTaken
    <3> QED
      BY <2>2, <3>2, <3>4
  <2> QED
    BY <2>1, <2>2
<1>5. ASSUME NEW v \in Reviewers, Load(v) \/ Save(v) \/ Drop(v)
      PROVE  Snapshot(payments', audits', payments'[i].contract, i, held'[s])
  BY <1>1, <1>3, <1>5, ReviewRows
<1> QED
  BY <1>4, <1>5 DEF Next

\* and who needs a review.
LEMMA ManualTell ==
  ASSUME LedgerInv, LedgerInv', SnapshotInv, Next, NEW i \in DOMAIN payments',
         payments'[i].requires_manual_review
  PROVE  needs'[payments'[i].run]
<1>1. TypeOK /\ TypeOK' /\ ReviewInv /\ RunsInv
  BY DEF LedgerInv
<1>2. RowsKept
  BY <1>1, RunRows, ReviewRows DEF Next
<1>3. ASSUME NEW r \in Runs, RunStep(r) PROVE needs'[payments'[i].run]
  <2>1. CASE i \in DOMAIN payments
    <3>1. PICK q \in Runs : q = payments[i].run /\ q = payments'[i].run /\ needs[q]
      BY <1>1, <1>2, <2>1, PaymentType DEF RowsKept, SnapshotInv
    <3>2. ~NoneOf(q)
      BY <2>1, <3>1 DEF NoneOf
    <3>3. needs'[q] = needs[q]
      BY <1>1, <1>3, <3>2, RunDecided, OthersStay DEF StateKept
    <3> QED
      BY <3>1, <3>3
  <2>2. CASE i \notin DOMAIN payments
    <3>1. PICK row \in Payment : /\ payments' = Append(payments, row) /\ row.run = r
                                 /\ row.requires_manual_review => needs'[r]
      BY <1>1, <1>3, <2>2, RunAdds
    <3>2. payments \in Seq(Payment)
      BY <1>1 DEF TypeOK
    <3>3. payments'[i] = row
      BY <2>2, <3>1, <3>2, AppendTyped
    <3> QED
      BY <3>1, <3>3
  <2> QED
    BY <2>1, <2>2
<1>4. ASSUME NEW v \in Reviewers, Load(v) \/ Save(v) \/ Drop(v) PROVE needs'[payments'[i].run]
  <2>1. i \in DOMAIN payments
    <3>1. CASE Save(v)
      BY <1>1, <3>1, SaveIs DEF SavesRow
    <3>2. CASE ~Save(v)
      BY <1>4, <3>2 DEF Load, Drop, tables
    <3> QED
      BY <3>1, <3>2
  <2>2. needs' = needs
    BY <1>4 DEF Load, Save, Drop, run, state
  <2> QED
    BY <1>2, <2>1, <2>2 DEF RowsKept, SnapshotInv
<1> QED
  BY <1>3, <1>4 DEF Next

\* So the invariant holds in every state.
LEMMA SnapshotAlways == Spec => [](LedgerInv /\ SnapshotInv)
<1>1. Init => SnapshotInv
  <2>1. DOMAIN <<>> = {}
    OBVIOUS
  <2> QED
    BY <2>1 DEF Init, SnapshotInv
<1>2. ASSUME LedgerInv, LedgerInv', SnapshotInv, [Next]_vars PROVE SnapshotInv'
  <2>1. CASE Next
    BY <1>2, <2>1, ReceiptsTell, BalancesTell, ManualTell DEF SnapshotInv
  <2>2. CASE UNCHANGED vars
    <3>1. /\ payments' = payments /\ audits' = audits /\ receipts' = receipts /\ held' = held
          /\ next' = next /\ shares' = shares /\ needs' = needs
      BY <2>2 DEF vars, run, state, tables
    <3> QED
      BY <1>2, <3>1 DEF SnapshotInv, IsShare
  <2> QED
    BY <1>2, <2>1, <2>2
<1> QED
  BY <1>1, <1>2, LedgerInvInit, LedgerInvNext, PTL DEF Spec

\* PaymentReceiptService takes the balance it has read for the one after its payment, and the
\* one before to be that much higher: so it was at one moment since the payment, whatever
\* other runs commit between the payment, the reading and the receipt; unless the contract is
\* overpaid or somebody reviewed one of its payments, and then it is only after a rejection
\* that more is owed than the receipt says.
THEOREM ReceiptsAreRight == Spec => []ReceiptsAddUp
<1>1. ASSUME LedgerInv, SnapshotInv, NEW k \in DOMAIN receipts
      PROVE  LET this == receipts[k]
                 c    == this.contract
             IN /\ Unreviewed(c) =>
                     \E n \in this.payment .. Len(payments) :
                       /\ this.new = Floored(Total[c], PaidBy(c, 1..n))
                       /\ PaidBy(c, 1..n) <= Total[c] =>
                            this.previous = Floored(Total[c], PaidBy(c, (1..n) \ {this.payment}))
                /\ Unrejected(c) => Remaining(c) <= this.new
  <2>1. PICK c, i, new, own : /\ c = receipts[k].contract /\ i = receipts[k].payment
                              /\ new = receipts[k].new /\ own = payments[i].amount
    OBVIOUS
  <2>2. /\ Snapshot(payments, audits, c, i, new)
        /\ receipts[k].previous = new + own
    BY <1>1, <2>1 DEF SnapshotInv
  <2>3. /\ Unreviewed(c) = UnreviewedIn(payments, audits, c)
        /\ Unrejected(c) = UnrejectedIn(payments, audits, c)
        /\ Remaining(c) = Balance(payments, c)
    BY TotalPaidIs DEF Unreviewed, UnreviewedIn, Unrejected, UnrejectedIn
  <2>4. TypeOK
    BY <1>1 DEF LedgerInv
  <2>5. /\ c \in Contracts /\ i \in DOMAIN payments /\ payments[i].contract = c /\ own \in Nat
        /\ Len(payments) \in Nat /\ DOMAIN payments = 1..Len(payments) /\ Total[c] \in Nat
    BY <2>1, <2>2, <2>4, PaymentType, LedgerAssumption DEF Snapshot
  <2>6. ASSUME Unreviewed(c)
        PROVE  \E n \in i..Len(payments) :
                 /\ new = Floored(Total[c], PaidBy(c, 1..n))
                 /\ PaidBy(c, 1..n) <= Total[c] =>
                      receipts[k].previous = Floored(Total[c], PaidBy(c, (1..n) \ {i}))
    <3>1. PICK n \in i..Len(payments) : new = Floored(Total[c], PaidAmong(payments, c, 1..n))
      BY <2>2, <2>3, <2>6 DEF Snapshot
    <3> DEFINE S == Among(payments, c, 1..n)
               T == Among(payments, c, (1..n) \ {i})
               f == [j \in S |-> payments[j].amount]
               g == [j \in T |-> payments[j].amount]
    <3>2. payments[i].status = "APPROVED"
      BY <2>2, <2>3, <2>6 DEF Snapshot
    <3>3. i \in S /\ S \ {i} = T /\ S \in SUBSET DOMAIN payments /\ T \in SUBSET DOMAIN payments
      BY <2>5, <3>1, <3>2 DEF Among
    <3>4. IsFiniteSet(S) /\ IsFiniteSet(T)
      BY <2>4, <3>3, SomeType
    <3>5. /\ \A j \in S : f[j] \in Nat
          /\ \A j \in T : f[j] = g[j] /\ g[j] \in Nat
          /\ f[i] = own
      BY <2>1, <2>4, <3>3, PaymentType
    <3>6. PaidBy(c, 1..n) = SumOver(f, S) /\ PaidBy(c, (1..n) \ {i}) = SumOver(g, T)
      BY PaidByIs DEF PaidAmong
    <3> HIDE DEF S, T, f, g
    <3>7. SumOver(f, S) = f[i] + SumOver(f, S \ {i})
      BY <3>3, <3>4, <3>5, SumTakes
    <3>8. SumOver(f, T) = SumOver(g, T) /\ SumOver(g, T) \in Nat
      BY <3>4, <3>5, SumAgrees, SumNat
    <3>9. PICK paid, rest : paid = PaidBy(c, 1..n) /\ rest = PaidBy(c, (1..n) \ {i})
      OBVIOUS
    <3>10. paid = own + rest /\ rest \in Nat /\ paid \in Nat
      <4>1. SumOver(f, S) = own + SumOver(f, T)
        BY <3>3, <3>5, <3>7
      <4>2. paid = own + rest
        BY <3>6, <3>8, <3>9, <4>1
      <4>3. rest \in Nat
        BY <3>6, <3>8, <3>9
      <4> QED
        BY <2>5, <4>2, <4>3
    <3>11. new = Floored(Total[c], paid)
      BY <3>1, <3>9, PaidByIs
    <3>12. paid <= Total[c] => new + own = Floored(Total[c], rest)
      BY <2>5, <3>10, <3>11 DEF Floored
    <3> QED
      BY <2>2, <3>9, <3>11, <3>12
  <2>7. Unrejected(c) => Remaining(c) <= new
    BY <2>2, <2>3 DEF Snapshot
  <2> QED
    BY <2>1, <2>6, <2>7
<1>2. LedgerInv /\ SnapshotInv => ReceiptsAddUp
  BY <1>1 DEF ReceiptsAddUp
<1> QED
  BY <1>2, SnapshotAlways, PTL

=============================================================================

-------------------------------- MODULE ReportPages --------------------------------
(***************************************************************************)
(* A client that walks through a paginated list of payments: the payment     *)
(* history of a contract (api/reports/contracts.py) and the approval queue  *)
(* of a user (api/approval.py), on repositories/pagination.py.              *)
(*                                                                         *)
(* Each page is a request. The server counts the matching rows, then reads    *)
(* the rows of the page by offset, in two statements; the client asks for    *)
(* the next page until it has read the last one of the count it was just     *)
(* given. Payments are made and reviewed between any two statements.         *)
(***************************************************************************)
EXTENDS PaymentBook, Lists, SequencesExt

CONSTANTS
  Lists,       \* what may be listed: a set of contracts and the statuses wanted
  PageSize
  
ASSUME PagesAssumption ==
  /\ \A list \in Lists : list.of \subseteq Contracts /\ list.statuses \subseteq
                                                      {"PENDING", "APPROVED", "REJECTED"}
  /\ PageSize \in Nat \ {0}

VARIABLES
  reading,   \* where the walk is
  list,      \* what is listed, and newest first or oldest first
  page,      \* the page asked for, from 1
  counted,   \* the count of the page being answered
  got,       \* the rows the client has been given
  \* what happened
  first,     \* the matching rows when the walk began
  left,      \* rows that have left the list since
  joined,    \* a row has come into the list ahead of one the client was given
  squeezed   \* one has come in ahead of another after the last count

pageVars == <<reading, list, page, counted, got, first, left, joined, squeezed>>

Orders == {"asc", "desc"}

NoList == [of |-> {}, statuses |-> {}, order |-> "desc"]

\* What a request asks for.
Listing(l, o) == [of |-> l.of, statuses |-> l.statuses, order |-> o]

PagesTypeOK ==
  /\ reading \in {"idle", "count", "rows", "end"}
  /\ list \in {NoList} \cup {Listing(l, o) : l \in Lists, o \in Orders}
  /\ page \in Nat /\ counted \in Nat
  /\ got \in Seq(Payments)
  /\ first \subseteq Payments /\ left \subseteq Payments
  /\ joined \in BOOLEAN /\ squeezed \in BOOLEAN

PagesInit ==
  /\ reading = "idle" /\ list = NoList /\ page = 0 /\ counted = 0 /\ got = <<>>
  /\ first = {} /\ left = {} /\ joined = FALSE /\ squeezed = FALSE

-----------------------------------------------------------------------------
(* One page *)

\* The filters of the query.
Matches(b, l) == {p \in Payments : b[p] \in l.statuses /\ PaymentRow[p].contract \in l.of}

Matching(b) == Matches(b, list)

\* p comes before q in the list.
Ahead(p, q) == IF list.order = "asc" THEN p < q ELSE p > q

\* apply_ordering, by id.
InOrder(b) ==
  LET oldestFirst == Kept([p \in Payments |-> p], Matching(b))
  IN IF list.order = "asc" THEN oldestFirst ELSE Reverse(oldestFirst)

\* A mutation of PageOf: pages counted from 0.
PageOfZero(seq, n) == SubSeq(seq, n * PageSize + 1, Smaller((n + 1) * PageSize, Len(seq)))

\* OFFSET and LIMIT.
PageOf(seq, n) == SubSeq(seq, (n - 1) * PageSize + 1, Smaller(n * PageSize, Len(seq)))

\* ceil(total / page_size)
TotalPages == (counted + PageSize - 1) \div PageSize

BeginWalk ==
  /\ reading = "idle"
  /\ \E l \in Lists, o \in Orders : list' = Listing(l, o) /\ first' = Matches(payment, l)
  /\ reading' = "count" /\ page' = 1
  /\ UNCHANGED <<counted, got, left, joined, squeezed>>

CountRows ==
  /\ reading = "count"
  /\ counted' = Cardinality(Matching(payment))
  /\ reading' = "rows"
  /\ UNCHANGED <<list, page, got, first, left, joined, squeezed>>

FetchRows ==
  /\ reading = "rows"
  /\ got' = got \o PageOf(InOrder(payment), page)
  /\ IF page < TotalPages
       THEN reading' = "count" /\ page' = page + 1
       ELSE reading' = "end" /\ UNCHANGED page
  /\ UNCHANGED <<list, counted, first, left, joined, squeezed>>

\* The client forgets the walk, to begin another one.
EndWalk ==
  /\ reading = "end"
  /\ reading' = "idle" /\ list' = NoList /\ page' = 0 /\ counted' = 0 /\ got' = <<>>
  /\ first' = {} /\ left' = {} /\ joined' = FALSE /\ squeezed' = FALSE

-----------------------------------------------------------------------------
\* p has come into the list ahead of one of rows.
JoinsAhead(p, rows) ==
  p \in Matching(payment') \ Matching(payment) /\ \E q \in rows : Ahead(p, q)

\* A payment is made or reviewed during the walk. A new contract or another day changes no
\* row of the list.
BookTurns ==
  /\ ChangePayments
  /\ left' = left \cup (Matching(payment) \ Matching(payment'))
  /\ joined' = (joined \/ \E p \in Payments : JoinsAhead(p, ToSet(got)))
  /\ squeezed' = \/ squeezed
                  \/ /\ reading = "rows" /\ page >= TotalPages
                     /\ \E p \in Payments : JoinsAhead(p, Matching(payment))
  /\ UNCHANGED <<reading, list, page, counted, got, first>>

PagesNext ==
  \/ (BeginWalk \/ CountRows \/ FetchRows \/ EndWalk) /\ UNCHANGED bookVars
  \/ BookTurns

-----------------------------------------------------------------------------
(* Properties *)

\* A walk that has come to its end has shown every row the list had when it began, in
\* its order, if none has left the list meanwhile (each row that leaves moves the next
\* page's first row to a page already read) and none has pushed the others on between
\* the last count and the rows of that page. A row is shown twice only if another one came in
\* ahead of it, as every new payment does in a list that is newest first.
WalkIsComplete ==
  reading = "end" =>
    /\ left = {} /\ ~squeezed => first \subseteq ToSet(got)
    /\ ~joined => IsInjective(got)

=============================================================================

---------------------------- MODULE ProactiveAnalysis ----------------------------
(***************************************************************************)
(* The analysis of a user's finances: the scheduler's job                   *)
(* (scheduler.run_proactive_financial_analysis) and the advisor's answer    *)
(* over HTTP (RecommendationService.generate_personalized_recommendations). *)
(*                                                                         *)
(* Both put a picture together from many queries, each of which sees the    *)
(* database as it is when the query runs. Every figure lists the user's     *)
(* contracts anew: the collection rate asks for the balance of each; the    *)
(* overdue contracts are those of today's date, taken again, by what is     *)
(* paid and then what remains of each, two queries; those near completion   *)
(* by the balances again. The regularity is read from all payments. The      *)
(* advisor then asks for the first three once more for its suggestions.     *)
(* Meanwhile payments come in, contracts are created, the day turns.        *)
(*                                                                         *)
(* The job does so for one user after the other on one session, under an    *)
(* advisory lock of its own (the lock itself is in NotificationOutbox), and  *)
(* remembers the risks it finds. After a statement that failed, the session  *)
(* refuses every other one: nobody rolls it back.                           *)
(***************************************************************************)
EXTENDS FinancialMemory, PaymentBook, Lists, SequencesExt

CONSTANTS
  Replicas,      \* each runs the job on its interval
  Advisors,      \* HTTP requests for advice
  Nobody,
  MaxAnalyses,   \* bound: jobs begun and questions asked
  MaxFaults,     \* bound: errors and crashes
  MaxJobChanges  \* bound: changes of the book while a job is in view

Analysts == Replicas \cup Advisors

ASSUME AnalysisAssumption ==
  /\ Replicas \cap Advisors = {}
  /\ Analysts \subseteq Writers
  /\ Nobody \notin Replicas \cup Users
  /\ \A c \in Contracts : ContractOwner[c] \in Users
  /\ IsFiniteSet(Users)
  /\ MaxAnalyses \in Nat /\ MaxFaults \in Nat /\ MaxJobChanges \in Nat

VARIABLES
  jobLock,    \* the replica that holds PROACTIVE_ANALYSIS_LOCK_ID
  at,         \* what the analyst does next
  subject,    \* the user being analysed
  waiting,    \* users the job has still to look at
  unread,     \* listed contracts the current query has still to be asked of
  paidSeen,   \* a contract whose total paid is read, and what remains not yet
  pass,       \* 1: the analysis, 2: the advisor's suggestions
  worth,      \* per pass: total_contract_value, of the contracts listed for the balances
  owed,       \* per pass: total_remaining_amount, of the same
  day,        \* the date of the current query for the overdue contracts
  behind,     \* per pass: overdue contracts
  near,       \* per pass: contracts near completion
  irregular,  \* the payments are inconsistent
  poisoned,   \* a statement of the job's session has failed
  expired,    \* a commit has expired the users the job has loaded
  \* what happened
  before,     \* the book when the analysis of the user began
  since,      \* which way what is owed has moved since then
  logged,     \* users with an audit row of this run
  struck,     \* users whose own analysis met a fault
  found,      \* the risks of the users of this run
  dropped,    \* the lock has gone away under a job
  asked, slips

pictureVars  == <<unread, paidSeen, pass, worth, owed, day, behind, near, irregular>>
sessionVars  == <<poisoned, expired>>
historyVars  == <<before, since, logged, struck, found, dropped>>
analysisVars == <<jobLock, at, subject, waiting, pictureVars, sessionVars, historyVars,
                  asked, slips>>

Steps == {"idle", "list", "next", "balance", "overdue", "near", "pattern", "again", "audit",
          "remember"}

NoBook == [payment |-> [p \in Payments |-> "ABSENT"], opened |-> {}, today |-> 0]

AnalysisTypeOK ==
  /\ jobLock \in Replicas \cup {Nobody}
  /\ at \in [Analysts -> Steps]
  /\ subject \in [Analysts -> Users \cup {Nobody}]
  /\ waiting \in [Analysts -> SUBSET Users]
  /\ unread \in [Analysts -> SUBSET Contracts]
  /\ paidSeen \in [Analysts -> Seq(Contracts \X Nat)]
  /\ pass \in [Analysts -> 1..2]
  /\ \A figure \in {worth, owed} : figure \in [Analysts -> [1..2 -> Nat]]
  /\ day \in [Analysts -> Nat]
  /\ behind \in [Analysts -> [1..2 -> SUBSET Contracts]]
  /\ near \in [Analysts -> [1..2 -> SUBSET Contracts]]
  /\ \A flag \in {irregular, poisoned, expired} : flag \in [Analysts -> BOOLEAN]
  /\ dropped \in BOOLEAN
  /\ before \in [Analysts -> Books]
  /\ since \in [Analysts -> SUBSET {"falls", "rises"}]
  /\ \A users \in {logged, struck} : users \in [Analysts -> SUBSET Users]
  /\ found \in [Analysts -> SUBSET Facts]
  /\ asked \in Nat /\ slips \in Nat

AnalysisInit ==
  /\ jobLock = Nobody
  /\ at = [a \in Analysts |-> "idle"]
  /\ subject = [a \in Analysts |-> Nobody]
  /\ waiting = [a \in Analysts |-> Users]
  /\ unread = [a \in Analysts |-> {}]
  /\ paidSeen = [a \in Analysts |-> <<>>]
  /\ pass = [a \in Analysts |-> 1]
  /\ worth = [a \in Analysts |-> <<0, 0>>]
  /\ owed = [a \in Analysts |-> <<0, 0>>]
  /\ day = [a \in Analysts |-> 0]
  /\ behind = [a \in Analysts |-> <<{}, {}>>]
  /\ near = [a \in Analysts |-> <<{}, {}>>]
  /\ irregular = [a \in Analysts |-> FALSE]
  /\ poisoned = [a \in Analysts |-> FALSE]
  /\ expired = [a \in Analysts |-> FALSE]
  /\ before = [a \in Analysts |-> NoBook]
  /\ since = [a \in Analysts |-> {}]
  /\ logged = [a \in Analysts |-> {}]
  /\ struck = [a \in Analysts |-> {}]
  /\ found = [a \in Analysts |-> {}]
  /\ dropped = FALSE /\ asked = 0 /\ slips = 0

-----------------------------------------------------------------------------
(* The queries, one action each *)

GoTo(a, step) == at' = [at EXCEPT ![a] = step]

\* Of user u, as they are when they are listed.
Listed(u) == ContractsOf(opened, u)

\* The contracts are listed for the balances, and their value with them.
ListForBalances(a, u, i) ==
  /\ unread' = [unread EXCEPT ![a] = Listed(u)]
  /\ worth' = [worth EXCEPT ![a][i] = Value(opened, u)]

\* The analysis of user u begins with an empty picture.
BeginPicture(a, u) ==
  /\ subject' = [subject EXCEPT ![a] = u]
  /\ GoTo(a, "balance")
  /\ ListForBalances(a, u, 1)
  /\ pass' = [pass EXCEPT ![a] = 1]
  /\ before' = [before EXCEPT ![a] = Book]
  /\ since' = [since EXCEPT ![a] = {}]

\* The picture is used, or thrown away.
DropPicture(a) ==
  /\ subject' = [subject EXCEPT ![a] = Nobody]
  /\ unread' = [unread EXCEPT ![a] = {}]
  /\ paidSeen' = [paidSeen EXCEPT ![a] = <<>>]
  /\ pass' = [pass EXCEPT ![a] = 1]
  /\ worth' = [worth EXCEPT ![a] = <<0, 0>>]
  /\ owed' = [owed EXCEPT ![a] = <<0, 0>>]
  /\ day' = [day EXCEPT ![a] = 0]
  /\ behind' = [behind EXCEPT ![a] = <<{}, {}>>]
  /\ near' = [near EXCEPT ![a] = <<{}, {}>>]
  /\ irregular' = [irregular EXCEPT ![a] = FALSE]
  /\ before' = [before EXCEPT ![a] = NoBook]
  /\ since' = [since EXCEPT ![a] = {}]

ReadDone(a, c) == unread' = [unread EXCEPT ![a] = @ \ {c}]

\* The rows come in any order: no query has an ORDER BY.
ReadBalance(a) ==
  /\ at[a] = "balance"
  /\ \E c \in unread[a] :
        /\ owed' = [owed EXCEPT ![a][pass[a]] = @ + Remaining(payment, c)]
        /\ ReadDone(a, c)
  /\ UNCHANGED <<jobLock, at, subject, waiting, paidSeen, pass, worth, day, behind, near,
                 irregular, sessionVars, historyVars, asked, slips>>

ReadPaid(a) ==
  /\ at[a] = "overdue" /\ paidSeen[a] = <<>>
  /\ \E c \in unread[a] :
        paidSeen' = [paidSeen EXCEPT ![a] = <<<<c, Paid(payment, c)>>>>]
  /\ UNCHANGED <<jobLock, at, subject, waiting, unread, pass, worth, owed, day, behind,
                 near, irregular, sessionVars, historyVars, asked, slips>>

ReadLeft(a) ==
  /\ at[a] = "overdue" /\ paidSeen[a] # <<>>
  /\ LET c == paidSeen[a][1][1]  paid == paidSeen[a][1][2]
     IN /\ behind' = [behind EXCEPT ![a][pass[a]] =
                         @ \cup {d \in {c} : IsBehind(d, day[a], paid, Remaining(payment, d))}]
        /\ ReadDone(a, c)
  /\ paidSeen' = [paidSeen EXCEPT ![a] = <<>>]
  /\ UNCHANGED <<jobLock, at, subject, waiting, pass, worth, owed, day, near, irregular,
                 sessionVars, historyVars, asked, slips>>

ReadNear(a) ==
  /\ at[a] = "near"
  /\ \E c \in unread[a] :
        /\ near' = [near EXCEPT ![a][pass[a]] =
                       @ \cup {d \in {c} : IsNearCompletion(d, Remaining(payment, d))}]
        /\ ReadDone(a, c)
  /\ UNCHANGED <<jobLock, at, subject, waiting, paidSeen, pass, worth, owed, day, behind,
                 irregular, sessionVars, historyVars, asked, slips>>

\* All that were listed are read: the next figure lists the contracts anew. _analyze takes
\* the date and then the list, which is one step here: a contract created in between is as
\* one created before, a midnight in between as one after, and nothing is due yet by the old
\* date of a contract that begins on the new day.
NextFigure(a) ==
  /\ at[a] \in {"balance", "overdue", "near"} /\ unread[a] = {}
  /\ GoTo(a, CASE at[a] = "balance" -> "overdue"
               [] at[a] = "overdue" -> "near"
               [] at[a] = "near"    -> IF pass[a] = 1 THEN "pattern" ELSE "audit")
  /\ unread' = [unread EXCEPT ![a] = IF at[a] = "near" THEN {} ELSE Listed(subject[a])]
  /\ day' = [day EXCEPT ![a] = IF at[a] = "balance" THEN today ELSE 0]
  /\ UNCHANGED <<jobLock, subject, waiting, paidSeen, pass, worth, owed, behind, near,
                 irregular, sessionVars, historyVars, asked, slips>>

\* The last query of the analysis.
ReadPattern(a) ==
  /\ at[a] = "pattern"
  /\ irregular' = [irregular EXCEPT ![a] = IsInconsistent(payment, subject[a])]
  /\ GoTo(a, IF a \in Advisors THEN "again" ELSE "audit")
  /\ UNCHANGED <<jobLock, subject, waiting, unread, paidSeen, pass, worth, owed, day,
                 behind, near, sessionVars, historyVars, asked, slips>>

\* The advisor goes on to its suggestions.
BeginAgain(a) ==
  /\ at[a] = "again" /\ GoTo(a, "balance")
  /\ pass' = [pass EXCEPT ![a] = 2]
  /\ ListForBalances(a, subject[a], 2)
  /\ UNCHANGED <<jobLock, subject, waiting, paidSeen, owed, day, behind, near, irregular,
                 sessionVars, historyVars, asked, slips>>

Read(a) ==
  \/ ReadBalance(a) \/ ReadPaid(a) \/ ReadLeft(a) \/ ReadNear(a) \/ NextFigure(a)
  \/ ReadPattern(a) \/ BeginAgain(a)

-----------------------------------------------------------------------------
(* What is found *)

Rate(a, i) == CollectionRate(worth[a][i], owed[a][i])

Signal(u, text, n) == <<[user |-> u, type |-> "RISK_SIGNAL", text |-> <<text, n>>]>>

\* In the order of the list. The percentage has one decimal.
Risks(a) ==
  LET u == subject[a]
  IN Unless(Signal(u, "BEHIND", Cardinality(behind[a][1])), behind[a][1] = {})
     \o Unless(Signal(u, "LOW_COLLECTION", (Rate(a, 1) + 5) \div 10), ~IsLow(worth[a][1], Rate(a, 1)))
     \o Unless(Signal(u, "INCONSISTENT", 0), ~irregular[a])

\* A third one counts the COMPLETED contracts, and there are none: nothing sets the status.
Positives(a) ==
  [near   |-> near[a][1],
   strong |-> worth[a][1] > 0 /\ IsStrong(Rate(a, 1))]

\* generate(): on the figures of the second pass. Of a long list, three lines are written.
\* Left out: the line about one contract that holds most of the capital.
Suggestions(a) ==
  [overdue |-> behind[a][2],
   near    |-> near[a][2],
   health  |-> IF IsStrong(Rate(a, 2)) THEN "performing well"
               ELSE IF Rate(a, 2) < 5000 /\ worth[a][2] > 0 THEN "follow up"
               ELSE "nothing"]

-----------------------------------------------------------------------------
(* The job, by replica *)

\* A mutation of StartJob: the lock is not taken.
StartJobUnlocked(a) ==
  /\ at[a] = "idle"
  /\ asked < MaxAnalyses /\ asked' = asked + 1
  /\ GoTo(a, "list")
  /\ UNCHANGED <<jobLock, subject, waiting, pictureVars, sessionVars, historyVars, slips,
                 memoryVars>>

\* The lock is taken. A job that finds it taken does nothing.
StartJob(a) ==
  /\ at[a] = "idle" /\ jobLock = Nobody
  /\ asked < MaxAnalyses /\ asked' = asked + 1
  /\ jobLock' = a /\ GoTo(a, "list")
  /\ UNCHANGED <<subject, waiting, pictureVars, sessionVars, historyVars, slips, memoryVars>>

ListUsers(a) ==
  /\ at[a] = "list"
  /\ GoTo(a, "next")
  /\ UNCHANGED <<jobLock, subject, waiting, pictureVars, sessionVars, historyVars, asked, slips,
                 memoryVars>>

TakeUser(a, u) ==
  /\ at[a] = "next" /\ u \in waiting[a]
  /\ waiting' = [waiting EXCEPT ![a] = @ \ {u}]

AnalyzeUser(a) ==
  /\ ~poisoned[a]
  /\ \E u \in waiting[a] : TakeUser(a, u) /\ BeginPicture(a, u)
  /\ UNCHANGED <<jobLock, paidSeen, owed, day, behind, near, irregular, sessionVars, logged,
                 struck, found, dropped, asked, slips, memoryVars>>

\* The session refuses the first query; the user's id is still at hand to be logged.
RefuseUser(a) ==
  /\ poisoned[a] /\ ~expired[a]
  /\ \E u \in waiting[a] : TakeUser(a, u)
  /\ UNCHANGED <<jobLock, at, subject, pictureVars, sessionVars, historyVars, asked, slips,
                 memoryVars>>

ReleaseJobLock(a) == jobLock' = IF jobLock = a THEN Nobody ELSE jobLock

\* The next run has a session of its own, and a list of its own.
CloseSession(a) ==
  /\ waiting' = [waiting EXCEPT ![a] = Users]
  /\ poisoned' = [poisoned EXCEPT ![a] = FALSE]
  /\ expired' = [expired EXCEPT ![a] = FALSE]
  /\ logged' = [logged EXCEPT ![a] = {}]
  /\ struck' = [struck EXCEPT ![a] = {}]
  /\ found' = [found EXCEPT ![a] = {}]

\* The list is through, or the session refuses even to read the next user's id again:
\* in the loop, and once more in the handler that logs it, so that the exception
\* leaves the loop.
EndJob(a) ==
  /\ at[a] = "next"
  /\ waiting[a] = {} \/ (poisoned[a] /\ expired[a])
  /\ GoTo(a, "idle") /\ ReleaseJobLock(a) /\ CloseSession(a)
  /\ UNCHANGED <<subject, pictureVars, before, since, dropped, asked, slips, memoryVars>>

RecordAnalysis(a) ==
  /\ at[a] = "audit"
  /\ logged' = [logged EXCEPT ![a] = @ \cup {subject[a]}]
  /\ found' = [found EXCEPT ![a] = @ \cup ToSet(Risks(a))]
  /\ expired' = [expired EXCEPT ![a] = TRUE]
  /\ Want(a, Risks(a))
  /\ GoTo(a, "remember")
  /\ UNCHANGED <<jobLock, subject, waiting, pictureVars, poisoned, before, since, struck,
                 dropped, asked, slips>>

RememberRisk(a) ==
  /\ at[a] = "remember" /\ Remember(a)
  /\ UNCHANGED analysisVars

UserDone(a) ==
  /\ at[a] = "remember" /\ todo[a] = <<>>
  /\ GoTo(a, "next") /\ DropPicture(a)
  /\ UNCHANGED <<jobLock, waiting, sessionVars, logged, struck, found, dropped, asked, slips,
                 memoryVars>>

\* A commit comes next: of the audit row, of a memory or of its audit row.
Committing(a) == at[a] = "audit" \/ (at[a] = "remember" /\ recall[a] # "read")

Slip == slips < MaxFaults /\ slips' = slips + 1

\* A mutation of UserFails: the loop is given up.
UserFailsForAll(a) ==
  /\ at[a] \notin {"idle", "list", "next"} /\ Slip
  /\ struck' = [struck EXCEPT ![a] = @ \cup {subject[a]}]
  /\ GoTo(a, "next") /\ DropPicture(a) /\ Forget(a)
  /\ waiting' = [waiting EXCEPT ![a] = {}]
  /\ UNCHANGED <<jobLock, sessionVars, logged, found, dropped, asked>>

\* An exception that leaves the session usable: the next user's turn.
UserFails(a) ==
  /\ at[a] \notin {"idle", "list", "next"} /\ Slip
  /\ struck' = [struck EXCEPT ![a] = @ \cup {subject[a]}]
  /\ GoTo(a, "next") /\ DropPicture(a) /\ Forget(a)
  /\ UNCHANGED <<jobLock, waiting, sessionVars, logged, found, dropped, asked>>

\* A statement fails. A failed commit has expired the user whose id the handler
\* logs: the handler raises, and the job is over.
StatementFails(a) ==
  /\ at[a] \notin {"idle", "list", "next"} /\ Slip
  /\ poisoned' = [poisoned EXCEPT ![a] = TRUE]
  /\ expired' = [expired EXCEPT ![a] = @ \/ Committing(a)]
  /\ struck' = [struck EXCEPT ![a] = @ \cup {subject[a]}]
  /\ GoTo(a, "next") /\ DropPicture(a) /\ Forget(a)
  /\ UNCHANGED <<jobLock, waiting, logged, found, dropped, asked>>

\* The users cannot be listed, or the process dies: the lock goes with its session.
JobStops(a) ==
  /\ at[a] # "idle" /\ Slip
  /\ GoTo(a, "idle") /\ ReleaseJobLock(a) /\ DropPicture(a) /\ Forget(a)
  /\ CloseSession(a)
  /\ UNCHANGED <<dropped, asked>>

Job(a) ==
  \/ StartJob(a) \/ ListUsers(a) \/ AnalyzeUser(a) \/ RefuseUser(a) \/ EndJob(a)
  \/ RecordAnalysis(a) \/ RememberRisk(a) \/ UserDone(a)

\* The connection under the lock goes away; the job goes on, on its own.
LockDrops(a) ==
  /\ jobLock = a /\ Slip
  /\ jobLock' = Nobody /\ dropped' = TRUE
  /\ UNCHANGED <<at, subject, waiting, pictureVars, sessionVars, before, since, logged,
                 struck, found, asked, memoryVars>>

JobFault(a) == UserFails(a) \/ StatementFails(a) \/ JobStops(a) \/ LockDrops(a)

-----------------------------------------------------------------------------
(* The advisor, by request *)

AskAdvice(a) ==
  /\ at[a] = "idle"
  /\ asked < MaxAnalyses /\ asked' = asked + 1
  /\ \E u \in Users : BeginPicture(a, u)
  /\ UNCHANGED <<jobLock, waiting, paidSeen, owed, day, behind, near, irregular, sessionVars,
                 logged, struck, found, dropped, slips>>

\* AI_RECOMMENDATION_GENERATED is recorded, and the answer goes out.
Advise(a) ==
  /\ at[a] = "audit"
  /\ GoTo(a, "idle") /\ DropPicture(a)
  /\ UNCHANGED <<jobLock, waiting, sessionVars, logged, struck, found, dropped, asked, slips>>

\* Whatever fails, the request ends in an error.
AdviceFails(a) ==
  /\ at[a] # "idle" /\ Slip
  /\ GoTo(a, "idle") /\ DropPicture(a)
  /\ UNCHANGED <<jobLock, waiting, sessionVars, logged, struck, found, dropped, asked>>

Advice(a) == AskAdvice(a) \/ Advise(a) \/ AdviceFails(a)

-----------------------------------------------------------------------------
Confirms(p) == payment[p] # "APPROVED" /\ payment'[p] = "APPROVED"
Withdraws(p) == payment[p] = "APPROVED" /\ payment'[p] # "APPROVED"

\* Which way a change moves what user u owes, or owes by today.
Falls(u) == \E p \in Payments : Confirms(p)
Rises(u) ==
  \/ \E p \in Payments : Withdraws(p)
  \/ ContractsOf(opened' \ opened, u) # {}
  \/ today' # today

\* The book changes while analysts read: a payment is made or reviewed, a contract is
\* created, the day turns.
BookMoves ==
  /\ ChangePayments \/ (\E c \in Contracts : OpenContract(c)) \/ TurnDay
  /\ since' = [a \in Analysts |->
        IF subject[a] = Nobody THEN since[a]
        ELSE since[a] \cup {way \in {"falls", "rises"} :
                             \/ way = "falls" /\ Falls(subject[a])
                             \/ way = "rises" /\ Rises(subject[a])}]
  /\ UNCHANGED <<jobLock, at, subject, waiting, pictureVars, sessionVars, before, logged,
                 struck, found, dropped, asked, slips>>

JobsNext ==
  \/ \E a \in Replicas : (Job(a) \/ JobFault(a)) /\ UNCHANGED bookVars
  \/ \E a \in Replicas : Read(a) /\ UNCHANGED <<memoryVars, bookVars>>
  \/ changes < MaxJobChanges /\ BookMoves /\ UNCHANGED memoryVars

AdviceNext ==
  \/ \E a \in Advisors : (Read(a) \/ Advice(a)) /\ UNCHANGED <<memoryVars, bookVars>>
  \/ BookMoves /\ UNCHANGED memoryVars

-----------------------------------------------------------------------------
(* Properties *)

\* The advisor's answer does not contradict itself: what it suggests, and what it calls a
\* risk or a positive.
AdviceAgrees(a) ==
  LET says == Suggestions(a)
      risk(name) == \E f \in ToSet(Risks(a)) : f.text[1] = name
  IN /\ since[a] = {} =>
          /\ says.near = Positives(a).near
          /\ says.health = "performing well" <=> Positives(a).strong
     /\ "rises" \notin since[a] =>
          /\ says.overdue # {} => risk("BEHIND")
          /\ ~(says.health = "follow up" /\ Positives(a).strong)
     /\ "falls" \notin since[a] => (risk("BEHIND") => says.overdue # {})
     /\ ~(risk("LOW_COLLECTION") /\ Positives(a).strong)

\* What book b, then figures (j before k), then book c say of user u: each calls at most those
\* overdue that the one before it does, and less is owed each time.
Sinks(b, a, j, k, c) ==
  LET u == subject[a]
  IN /\ Behind(c, u) \subseteq behind[a][k]
     /\ behind[a][k] \subseteq behind[a][j]
     /\ behind[a][j] \subseteq Behind(b, u)
     /\ Owed(c, u) <= owed[a][k]
     /\ owed[a][k] <= owed[a][j]
     /\ owed[a][j] <= Owed(b, u)

\* The figures of one analysis come from different moments. If nothing moved
\* meanwhile they are those of the book. If payments were only confirmed, every figure lies
\* between that of the beginning and that of the end, the later the lower; if
\* payments were only withdrawn, contracts created and days begun, the later the higher.
\* What the advisor answers then agrees with itself as far as that goes.
ReportsBracketed ==
  \A a \in Analysts :
    at[a] = "audit" =>
      LET u == subject[a]  last == pass[a]
      IN /\ a \in Advisors => AdviceAgrees(a)
         /\ since[a] = {} =>
              /\ \A i \in 1..last : near[a][i] = NearCompletion(before[a], u)
              /\ irregular[a] = IsInconsistent(before[a].payment, u)
         /\ "rises" \notin since[a] => Sinks(before[a], a, 1, last, Book)
         /\ "falls" \notin since[a] => Sinks(Book, a, last, 1, before[a])

\* While no lock is lost under a job, a risk is remembered once, though every run finds
\* it again and remember() alone would let two runs store it.
RisksOnce ==
  \A i, j \in DOMAIN memories :
    i # j /\ memories[i] = memories[j] /\ memories[i].type = "RISK_SIGNAL" => dropped

\* One user's failure takes nothing from another: once the job has dealt with a user
\* whose own analysis met no fault, the analysis is on record and every risk of
\* it remembered, as long as no failed statement has spoilt the session.
FailuresIsolated ==
  \A a \in Replicas, u \in Users :
    at[a] = "next" /\ u \notin waiting[a] \cup struck[a] =>
      \/ poisoned[a] /\ u \notin logged[a]
      \/ u \in logged[a] /\ \A f \in found[a] : f.user = u => Remembered(f)

=============================================================================

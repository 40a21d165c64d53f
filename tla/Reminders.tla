-------------------------------- MODULE Reminders --------------------------------
(***************************************************************************)
(* A day of payment reminders: the scheduled run of each replica under its *)
(* advisory lock (scheduler.send_daily_reminders), the "send reminders"    *)
(* requests of users, which take no lock (ActionExecutor._send_reminders), *)
(* the workflow both run for one contract after the other, the reminder log *)
(* that should keep a contract from being reminded twice, the payments and  *)
(* reviews that go on meanwhile, and faults. The lock is held on a           *)
(* connection of its own, which may go away under a run (the lock service    *)
(* itself is in NotificationOutbox).                                       *)
(*                                                                         *)
(* The contracts due are one list, read at the start; every repository call *)
(* commits on its own. All workflow calls of a runner share one session, and *)
(* once a commit has failed on it nothing rolls it back: every later call   *)
(* of that runner raises. Contracts here are ACTIVE and have started.       *)
(***************************************************************************)
EXTENDS Naturals, FiniteSets

CONSTANTS
  Contracts,
  Schedulers,    \* replicas: the scheduled run of each
  Manuals,       \* "send reminders" requests
  NoContract, NoRunner,
  Modes,         \* values of NOTIFICATION_MODE = "outbox" to consider
  MaxFaults,     \* bound: errors, crashes, connections and answers lost on the way
  MaxPayments,   \* bound: payments and rejections during the day
  MaxRunners     \* bound: runs and requests of the day

Runners == Schedulers \cup Manuals

ASSUME RemindersAssumption ==
  /\ NoContract \notin Contracts
  /\ NoRunner \notin Runners
  /\ Schedulers \cap Manuals = {}
  /\ Modes \subseteq BOOLEAN
  /\ MaxFaults \in Nat /\ MaxPayments \in Nat /\ MaxRunners \in Nat

VARIABLES
  outboxMode,  \* the setting: never changes
  \* the database, for today
  owes,        \* the remaining amount is not zero
  paidToday,   \* a payment with today's payment_date, whatever its status
  logged,      \* a reminder_logs row of today
  run,         \* status of each scheduled run's scheduler_runs row
  sent,        \* contracts with a scheduler_events row SENT, per runner
  failed,      \* contracts with one FAILED
  open,        \* agent_runs rows left RUNNING, by runner and contract
  \* the runners
  holder,      \* who holds SCHEDULER_LOCK_ID
  pc,
  due,         \* the list the runner read
  todo,        \* what is left of it
  cur,         \* the contract in hand
  poisoned,    \* the session refuses everything after a failed commit
  \* what happened
  messages,    \* reminders handed to the provider or the outbox today
  raced,       \* contracts two runners had on their lists together
  unlogged,    \* contracts reminded by a call whose outcome was lost
  late,        \* contracts paid while they were on a list
  crashed,     \* runners that died
  dropped,     \* runs whose lock went away under them
  unwritten,   \* runs whose last status could not be written
  faults, payments

dayVars   == <<outboxMode, owes, paidToday, payments>>
runVars   == <<run, sent, failed>>
ghostVars == <<messages, raced, unlogged, late, crashed, dropped, unwritten>>
vars      == <<dayVars, logged, runVars, open, holder, pc, due, todo, cur, poisoned,
               ghostVars, faults>>

Steps == {"idle", "start", "select", "next", "work", "log", "close", "event", "error",
          "unlock", "done"}

TypeOK ==
  /\ outboxMode \in BOOLEAN
  /\ owes \in [Contracts -> BOOLEAN] /\ paidToday \in [Contracts -> BOOLEAN]
  /\ logged   \in [Contracts -> BOOLEAN]
  /\ run      \in [Runners -> {"none", "RUNNING", "COMPLETED", "FAILED"}]
  /\ sent     \in [Runners -> SUBSET Contracts]
  /\ failed   \in [Runners -> SUBSET Contracts]
  /\ open     \subseteq Runners \X Contracts
  /\ holder   \in Schedulers \cup {NoRunner}
  /\ pc       \in [Runners -> Steps]
  /\ due      \in [Runners -> SUBSET Contracts]
  /\ todo     \in [Runners -> SUBSET Contracts]
  /\ cur      \in [Runners -> Contracts \cup {NoContract}]
  /\ poisoned \in [Runners -> BOOLEAN]
  /\ messages \in [Contracts -> Nat]
  /\ raced \subseteq Contracts /\ unlogged \subseteq Contracts
  /\ late \subseteq Contracts
  /\ crashed \subseteq Runners
  /\ dropped \subseteq Schedulers /\ unwritten \subseteq Schedulers
  /\ faults \in Nat /\ payments \in Nat

Init ==
  /\ outboxMode \in Modes
  /\ owes     \in [Contracts -> BOOLEAN]
  /\ paidToday = [c \in Contracts |-> FALSE]
  /\ logged   = [c \in Contracts |-> FALSE]
  /\ run      = [r \in Runners |-> "none"]
  /\ sent     = [r \in Runners |-> {}]
  /\ failed   = [r \in Runners |-> {}]
  /\ open     = {}
  /\ holder   = NoRunner
  /\ pc       = [r \in Runners |-> "idle"]
  /\ due      = [r \in Runners |-> {}]
  /\ todo     = [r \in Runners |-> {}]
  /\ cur      = [r \in Runners |-> NoContract]
  /\ poisoned = [r \in Runners |-> FALSE]
  /\ messages = [c \in Contracts |-> 0]
  /\ raced = {} /\ unlogged = {} /\ late = {} /\ crashed = {}
  /\ dropped = {} /\ unwritten = {}
  /\ faults = 0 /\ payments = 0

-----------------------------------------------------------------------------
(* The rules, and the lists made from them *)

\* A mutation of ShouldSend: the rule on today's payments is gone.
ShouldSendPaid(c) == owes[c] /\ ~logged[c]

\* A mutation of ShouldSend: the rule on the reminder log is gone.
ShouldSendAgain(c) == owes[c] /\ ~paidToday[c]

ShouldSend(c) == owes[c] /\ ~paidToday[c] /\ ~logged[c]

OnAList(c) == \E r \in Runners : c \in todo[r] \/ cur[r] = c

GoTo(r, step) == pc' = [pc EXCEPT ![r] = step]

OneMore(r) == pc[r] = "idle" /\ Cardinality({q \in Runners : pc[q] # "idle"}) < MaxRunners

\* Each scheduler fires once a day; another replica's may hold the lock.
Fire(r) ==
  /\ r \in Schedulers
  /\ OneMore(r) /\ holder = NoRunner
  /\ holder' = r
  /\ GoTo(r, "start")
  /\ UNCHANGED <<dayVars, logged, runVars, open, due, todo, cur, poisoned,
                 ghostVars, faults>>

\* "scheduler_skipped_locked"
Skip(r) ==
  /\ r \in Schedulers
  /\ OneMore(r) /\ holder # NoRunner
  /\ GoTo(r, "done")
  /\ UNCHANGED <<dayVars, logged, runVars, open, holder, due, todo, cur, poisoned,
                 ghostVars, faults>>

\* The run goes on record.
StartRun(r) ==
  /\ pc[r] = "start"
  /\ run' = [run EXCEPT ![r] = "RUNNING"]
  /\ GoTo(r, "select")
  /\ UNCHANGED <<dayVars, logged, sent, failed, open, holder, due, todo, cur, poisoned,
                 ghostVars, faults>>

\* It cannot be recorded, so it does not take place.
StartFails(r) ==
  /\ pc[r] = "start" /\ faults < MaxFaults
  /\ faults' = faults + 1
  /\ GoTo(r, "unlock")
  /\ UNCHANGED <<dayVars, logged, runVars, open, holder, due, todo, cur, poisoned,
                 ghostVars>>

Ask(r) ==
  /\ r \in Manuals
  /\ OneMore(r)
  /\ GoTo(r, "select")
  /\ UNCHANGED <<dayVars, logged, runVars, open, holder, due, todo, cur, poisoned,
                 ghostVars, faults>>

\* A user's request is for the user's own contracts, here any of them.
Select(r) ==
  \E mine \in IF r \in Manuals THEN SUBSET Contracts ELSE {Contracts} :
    LET list == {c \in mine : ShouldSend(c)}
    IN /\ pc[r] = "select"
       /\ due'  = [due EXCEPT ![r] = list]
       /\ todo' = [todo EXCEPT ![r] = list]
       /\ raced' = raced \cup {c \in list : OnAList(c)}
       /\ GoTo(r, "next")
       /\ UNCHANGED <<dayVars, logged, runVars, open, holder, cur, poisoned,
                      messages, unlogged, late, crashed, dropped, unwritten, faults>>

-----------------------------------------------------------------------------
(* One contract *)

\* The balance is read again, which chooses the words of the message, and the
\* agent_runs row is created and set RUNNING.
Begin(r, c) ==
  /\ pc[r] = "next" /\ c \in todo[r]
  /\ cur'  = [cur EXCEPT ![r] = c]
  /\ todo' = [todo EXCEPT ![r] = @ \ {c}]
  /\ IF poisoned[r] THEN open' = open /\ GoTo(r, "error")
                    ELSE open' = open \cup {<<r, c>>} /\ GoTo(r, "work")
  /\ UNCHANGED <<dayVars, logged, runVars, holder, due, poisoned, ghostVars, faults>>

HandOver(c) == messages' = [messages EXCEPT ![c] = @ + 1]

Working(r) == pc[r] = "work"

\* Direct mode: the provider takes the message.
Accepted(r) ==
  /\ Working(r) /\ ~outboxMode
  /\ HandOver(cur[r])
  /\ GoTo(r, "log")
  /\ UNCHANGED <<dayVars, logged, runVars, open, holder, due, todo, cur, poisoned,
                 raced, unlogged, late, crashed, dropped, unwritten, faults>>

\* The provider does not, send() is False: nothing is logged, and all goes on.
Refused(r) ==
  /\ Working(r) /\ ~outboxMode
  /\ GoTo(r, "close")
  /\ UNCHANGED <<dayVars, logged, runVars, open, holder, due, todo, cur, poisoned,
                 ghostVars, faults>>

\* The provider takes it and its answer is lost: the client tries again, or its
\* retries are spent and send() is False.
AnswerLost(r) ==
  /\ Working(r) /\ ~outboxMode /\ faults < MaxFaults
  /\ faults' = faults + 1
  /\ HandOver(cur[r])
  /\ unlogged' = unlogged \cup {cur[r]}
  /\ \E step \in {"work", "close"} : GoTo(r, step)
  /\ UNCHANGED <<dayVars, logged, runVars, open, holder, due, todo, cur, poisoned,
                 raced, late, crashed, dropped, unwritten>>

\* Outbox mode: a row, and no reminder log.
Queued(r) ==
  /\ Working(r) /\ outboxMode
  /\ HandOver(cur[r])
  /\ GoTo(r, "close")
  /\ UNCHANGED <<dayVars, logged, runVars, open, holder, due, todo, cur, poisoned,
                 raced, unlogged, late, crashed, dropped, unwritten, faults>>

WriteLog(r) ==
  /\ pc[r] = "log"
  /\ logged' = [logged EXCEPT ![cur[r]] = TRUE]
  /\ GoTo(r, "close")
  /\ UNCHANGED <<dayVars, runVars, open, holder, due, todo, cur, poisoned,
                 ghostVars, faults>>

Drop(r) == cur' = [cur EXCEPT ![r] = NoContract]

\* The agent run is COMPLETED.
Close(r) ==
  /\ pc[r] = "close"
  /\ open' = open \ {<<r, cur[r]>>}
  /\ IF r \in Schedulers THEN GoTo(r, "event") /\ cur' = cur
                         ELSE GoTo(r, "next") /\ Drop(r)
  /\ UNCHANGED <<dayVars, logged, runVars, holder, due, todo, poisoned, ghostVars, faults>>

\* A node raises: the executor and then the service mark the run FAILED, unless
\* it was a commit that failed; then their own statements raise as well.
Raise(r, commitFails) ==
  /\ pc[r] \in {"work", "log", "close"} /\ faults < MaxFaults
  /\ faults' = faults + 1
  /\ poisoned' = [poisoned EXCEPT ![r] = commitFails]
  /\ open' = IF commitFails THEN open ELSE open \ {<<r, cur[r]>>}
  /\ unlogged' = unlogged \cup {c \in Contracts : c = cur[r] /\ pc[r] = "log"}
  /\ GoTo(r, "error")
  /\ UNCHANGED <<dayVars, logged, runVars, holder, due, todo, cur, messages, raced, late,
                 crashed, dropped, unwritten>>

-----------------------------------------------------------------------------
(* The loops around it *)

WriteSent(r) ==
  /\ pc[r] = "event"
  /\ sent' = [sent EXCEPT ![r] = @ \cup {cur[r]}]
  /\ Drop(r) /\ GoTo(r, "next")
  /\ UNCHANGED <<dayVars, logged, run, failed, open, holder, due, todo, poisoned,
                 ghostVars, faults>>

\* A mutation of WriteFailed: the failure is logged to the console alone.
WriteNothing(r) ==
  /\ pc[r] = "error" /\ r \in Schedulers
  /\ Drop(r) /\ GoTo(r, "next")
  /\ UNCHANGED <<dayVars, logged, runVars, open, holder, due, todo, poisoned,
                 ghostVars, faults>>

WriteFailed(r) ==
  /\ pc[r] = "error" /\ r \in Schedulers
  /\ failed' = [failed EXCEPT ![r] = @ \cup {cur[r]}]
  /\ Drop(r) /\ GoTo(r, "next")
  /\ UNCHANGED <<dayVars, logged, run, sent, open, holder, due, todo, poisoned,
                 ghostVars, faults>>

Free(r) == holder' = IF holder = r THEN NoRunner ELSE holder

\* Nothing of the runner is left in memory.
Leave(r, step) ==
  /\ todo' = [todo EXCEPT ![r] = {}]
  /\ Drop(r) /\ GoTo(r, step)

\* A mutation of RunFails: the exception passes the release by.
RunFailsAtOnce(r) ==
  /\ pc[r] \in {"select", "event", "error"} /\ r \in Schedulers
  /\ run' = [run EXCEPT ![r] = "FAILED"]
  /\ Leave(r, "done")
  /\ UNCHANGED <<dayVars, logged, sent, failed, open, holder, due, poisoned, ghostVars, faults>>

\* The contracts cannot be read, or an event not written: the text of the
\* exception is longer than the column, or its commit fails. The run is FAILED
\* and the rest is dropped.
RunFails(r) ==
  /\ pc[r] \in {"select", "event", "error"} /\ r \in Schedulers
  /\ run' = [run EXCEPT ![r] = "FAILED"]
  /\ Leave(r, "unlock")
  /\ UNCHANGED <<dayVars, logged, sent, failed, open, holder, due, poisoned, ghostVars, faults>>

Finishing(r) == pc[r] = "next" /\ todo[r] = {}

Finish(r) ==
  /\ Finishing(r) /\ r \in Schedulers
  /\ run' = [run EXCEPT ![r] = "COMPLETED"]
  /\ GoTo(r, "unlock")
  /\ UNCHANGED <<dayVars, logged, sent, failed, open, holder, due, todo, cur, poisoned,
                 ghostVars, faults>>

\* Neither COMPLETED nor FAILED can be written.
StatusLost(r) ==
  /\ Finishing(r) \/ pc[r] \in {"select", "event", "error"}
  /\ r \in Schedulers /\ faults < MaxFaults
  /\ faults' = faults + 1
  /\ unwritten' = unwritten \cup {r}
  /\ Leave(r, "unlock")
  /\ UNCHANGED <<dayVars, logged, runVars, open, holder, due, poisoned, messages, raced,
                 unlogged, late, crashed, dropped>>

\* However the run has ended. On a connection that is lost nothing is left to release.
Release(r) ==
  /\ pc[r] = "unlock"
  /\ Free(r) /\ GoTo(r, "done")
  /\ UNCHANGED <<dayVars, logged, runVars, open, due, todo, cur, poisoned, ghostVars, faults>>

\* A user's request has no try around one contract: it ends with the first error.
RequestFails(r) ==
  /\ pc[r] \in {"select", "error"} /\ r \in Manuals
  /\ Leave(r, "done")
  /\ UNCHANGED <<dayVars, logged, runVars, open, holder, due, poisoned, ghostVars, faults>>

\* The user is told how many were sent.
RequestEnds(r) ==
  /\ Finishing(r) /\ r \in Manuals
  /\ GoTo(r, "done")
  /\ UNCHANGED <<dayVars, logged, runVars, open, holder, due, todo, cur, poisoned,
                 ghostVars, faults>>

\* The connection under the lock goes away; the run, on its other connections,
\* does not notice.
LockDrops(r) ==
  /\ holder = r /\ faults < MaxFaults
  /\ faults' = faults + 1
  /\ holder' = NoRunner /\ dropped' = dropped \cup {r}
  /\ UNCHANGED <<dayVars, logged, runVars, open, pc, due, todo, cur, poisoned, messages,
                 raced, unlogged, late, crashed, unwritten>>

\* The process dies, and with it the connection that holds the lock.
Crash(r) ==
  /\ pc[r] \notin {"idle", "done"} /\ faults < MaxFaults
  /\ faults' = faults + 1
  /\ crashed' = crashed \cup {r}
  /\ unlogged' = unlogged \cup {c \in Contracts : c = cur[r] /\ pc[r] = "log"}
  /\ Leave(r, "done") /\ Free(r)
  /\ UNCHANGED <<dayVars, logged, runVars, open, due, poisoned, messages, raced, late, dropped,
                 unwritten>>

-----------------------------------------------------------------------------
(* The customers and the reviewers *)

\* A payment of today is stored; it may settle the contract.
Pay(c) ==
  /\ payments < MaxPayments
  /\ payments' = payments + 1
  /\ paidToday' = [paidToday EXCEPT ![c] = TRUE]
  /\ \E b \in BOOLEAN : owes' = [owes EXCEPT ![c] = @ /\ b]
  /\ late' = late \cup {d \in {c} : OnAList(d)}
  /\ UNCHANGED <<outboxMode, logged, runVars, open, holder, pc, due, todo, cur, poisoned,
                 messages, raced, unlogged, crashed, dropped, unwritten, faults>>

\* A payment is rejected: its amount is owed again.
Reject(c) ==
  /\ payments < MaxPayments
  /\ payments' = payments + 1
  /\ owes' = [owes EXCEPT ![c] = TRUE]
  /\ UNCHANGED <<outboxMode, paidToday, logged, runVars, open, holder, pc, due, todo, cur, poisoned,
                 ghostVars, faults>>

-----------------------------------------------------------------------------
RunnerStep(r) ==
  \/ Select(r) \/ \E c \in Contracts : Begin(r, c)
  \/ Accepted(r) \/ Refused(r) \/ Queued(r) \/ WriteLog(r) \/ Close(r)
  \/ WriteSent(r) \/ WriteFailed(r) \/ RunFails(r) \/ Finish(r) \/ Release(r)
  \/ RequestFails(r) \/ RequestEnds(r)

Fault(r) ==
  \/ AnswerLost(r) \/ (\E b \in BOOLEAN : Raise(r, b))
  \/ StartFails(r) \/ StatusLost(r) \/ LockDrops(r) \/ Crash(r)

Next ==
  \/ \E r \in Runners : \/ Fire(r) \/ Skip(r) \/ StartRun(r) \/ Ask(r)
                        \/ RunnerStep(r) \/ Fault(r)
  \/ \E c \in Contracts : Pay(c) \/ Reject(c)

Spec == Init /\ [][Next]_vars

-----------------------------------------------------------------------------
(* Properties *)

\* Between the row that says RUNNING and the one that says how it ended.
AtWork(r) == pc[r] \notin {"idle", "start", "unlock", "done"}

\* The reminder log tells the truth in direct mode: unless two runners had the
\* contract on their lists together, or the outcome of a call was lost, it says
\* "reminded today" exactly when one reminder went out. So runs that follow each
\* other, whether replicas' or users', never remind a contract twice
\* (ReminderPolicyService, NotificationNode._maybe_log_reminder).
LogTellsTheTruth ==
  ~outboxMode => \A c \in Contracts \ (raced \cup unlogged) :
     messages[c] = IF logged[c] \/ (\E r \in Runners : cur[r] = c /\ pc[r] = "log")
                   THEN 1 ELSE 0

\* A scheduled run forgets nobody: while it is RUNNING every contract of its
\* list is still to do, in hand, or has one event; when it is COMPLETED they all
\* have one, so total_contracts is successful_count plus failed_count.
NobodyForgotten ==
  \A r \in Schedulers :
     /\ sent[r] \cap failed[r] = {}
     /\ run[r] = "RUNNING" /\ r \notin crashed \cup unwritten =>
          due[r] = todo[r] \cup sent[r] \cup failed[r] \cup ({cur[r]} \ {NoContract})
     /\ run[r] = "COMPLETED" => due[r] = sent[r] \cup failed[r]

\* An agent run that stays RUNNING has a cause: its runner is at it, died, or
\* could not write any more after a failed commit.
OpenRunsAccounted ==
  \A r \in Runners, c \in Contracts :
     <<r, c>> \in open => \/ cur[r] = c /\ pc[r] \in {"work", "log", "close"}
                          \/ r \in crashed \/ poisoned[r]

\* One replica sends the reminders at a time: a run that is recorded as RUNNING holds the
\* lock, unless its connection went away under it, it died, or its end could not be
\* recorded; so two runs are at work together only after a lost connection. And a run that
\* has ended, however it did, or has died keeps nobody from the lock.
LockWhileRunning ==
  \A r \in Schedulers :
     /\ run[r] = "RUNNING" => holder = r \/ r \in dropped \cup crashed \cup unwritten
     /\ \A s \in Schedulers \ {r} :
          AtWork(r) /\ AtWork(s) => {r, s} \cap dropped # {}
     /\ holder = r => pc[r] # "done" /\ r \notin crashed

\* The list is read once and worked off later, in template mode with words that
\* ask for money in any case. A customer who has paid today, or owes nothing any
\* more, is still reminded only if the payment came while the contract was on a
\* list: never by a run that begins after it.
PaidIsLeftAlone ==
  [][\A c \in Contracts :
       messages'[c] > messages[c] /\ (paidToday[c] \/ ~owes[c]) => c \in late]_vars

-----------------------------------------------------------------------------
(* A claim of the documentation that the code does not keep *)

\* docs/whatsapp-integration.md: no contract is reminded twice in a day; asked
\* here only where no two runners overlap and no outcome is lost.
RemindedOnce == \A c \in Contracts \ (raced \cup unlogged) : messages[c] <= 1

=============================================================================

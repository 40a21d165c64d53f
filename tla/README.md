# A TLA+ model of the payment reminder agent

The repository is a FastAPI service that keeps instalment contracts, reads
customers' WhatsApp messages with a language model, records the payments they
report, answers them, and reminds those who owe. It runs in several replicas on
one PostgreSQL database. What is hard in it is not arithmetic but time: every
repository call commits on its own, nothing is read with a lock, four background
jobs run in every replica and are kept apart by advisory locks, and two outside
parties (Meta's webhook delivery and the WhatsApp Cloud API) repeat, lose and
delay what they are given.

All paths below are relative to `src/app/` unless they begin with another name.

## 1. Inventory

| Part | State | Operations | Interacts with |
|---|---|---|---|
| Webhook intake (`api/whatsapp.py`) | `processed_messages` | `receive_webhook`: duplicate test, contract lookup, routing, processed row | starts an agent run or the assistant; answers Meta |
| Agent runs (`services/agent_execution_service.py`, `agents/workflow_executor.py`) | `agent_runs`, `agent_events` | create, RUNNING, COMPLETED, FAILED | wraps the nodes of both workflows |
| Payment workflow (`agents/payment_workflow.py` and its nodes) | `AgentState` in memory; `payments` | detect, check confidence, resolve contract, allocate, file for approval, create payments, read balance, receipt, decide, answer, notify | reads balances other runs and reviewers move |
| Payment allocation (`services/payment_allocation_service.py`) | none | `allocate`: rules 1-7 and the round-robin loop | called by the workflow |
| Receipts (`services/payment_receipt_service.py`) | `payment_receipts` | one receipt per share, with balances | reads balances |
| Payment approval (`services/payment_approval_service.py`) | two flags of `payments`, `audit_logs` | approve, reject | API, assistant |
| Notification outbox (`workers/notification_worker.py` and its repository) | `notification_outbox`, an advisory lock | enqueue, recover, fetch, mark, retry, fail; operators' retry and discard | workflows write it, a job per replica drains it |
| Daily reminders (`scheduler.py`, `services/reminder_*`) | `reminder_logs`, `scheduler_runs`, `scheduler_events`, an advisory lock | lock, select, remind each, record, finish | payments decide who is due; outbox or provider delivers |
| Assistant actions (`ai/actions/`) | `pending_actions` | propose, confirm, cancel, expire | executes contract creation, approval, reminders |
| Assistant turns (`ai/assistant/`) | none | `chat`: conversation, history, shortcut, WhatsApp guard, intent, proposal or confirmation, tools, audit, storage, extraction | HTTP, webhook; actions, memory |
| Conversation memory (`services/conversation_memory_service.py`) | `conversations`, their messages | get-or-create, store, recent messages | intake, assistant turns |
| Financial memory (`services/ai_memory/`) | `financial_memories`, `audit_logs` | `remember`, extraction | assistant turns, proactive job |
| Proactive analysis and advisor (`scheduler.py`, `services/proactive/`, `services/insights/`) | an advisory lock, `audit_logs` | analyse every user, advise one | reads contracts and balances, writes memories |
| Users, login, tokens (`services/auth_service.py`, `core/security.py`, `api/deps.py`) | `users`, `audit_logs`; tokens held by clients | register, login, identify | every HTTP request |
| Contracts (`services/contract_service.py`, `api/contracts.py`) | `contracts`, `audit_logs` | create, show | owner test of every report |
| Report and approval pages (`api/reports/`, `api/approval.py`, `repositories/pagination.py`) | none | count and slice | reads `payments` |
| Rate limiter (`core/rate_limit.py`) | buckets in the process | `allow` | login, registration, webhook |
| Dashboards, audit and metrics, configuration, migrations | counters, the schema | reads, wiring | see section 8 |

The behaviours that are hard, part by part, are the `hazards` of
`PROJECT.json`, each at its line with the properties that would catch it. What
makes a part correct is stated as the properties of section 3.

What the modules take as given about the platform, from `db/session.py`,
`container.py` and the repositories: sessions neither flush nor commit by
themselves; each `create` and `update` of a repository commits; the database
is READ COMMITTED; an `UPDATE` goes by id and carries the columns whose value
differs from the one loaded; after a failed flush a session refuses all
statements until a rollback, which no code issues; each HTTP dependency has a
session of its own, whereas the services of one workflow share one.

## 2. Modules

| Module | Models | Detail |
|---|---|---|
| `OutboxPromise` | what the outbox owes the rest | abstract specification |
| `NotificationOutbox` | outbox rows, the job of each replica, the lock, operators | implements `OutboxPromise` |
| `WebhookIntake` | `receive_webhook`, the run it starts, Meta | one action per commit |
| `AllocationRules` | the split of a payment, without a loop | reference definition |
| `PaymentAllocation` | `allocate` turn by turn | computes `AllocationRules` |
| `PaymentLedger` | the nodes of several runs with amounts, reviewers, receipts | uses `AllocationRules` |
| `PendingActions` | proposals, YES and NO, the cleanup job | |
| `Reminders` | a day of reminders, from replicas and users | |
| `Accounts` | users, login and tokens, contracts | scene of `Api` |
| `FinancialMemory` | `remember`, from any number of callers | used by the two below |
| `AssistantTurn` | turns of the assistant over HTTP and WhatsApp, their conversations | scene of `Api`, extends `FinancialMemory` |
| `Lists` | lists that keep some elements of another | used by the rules, the turns, the analysis and the pages |
| `PaymentBook` | the payments as reports and insights read them, and what they compute | operators over a table |
| `ProactiveAnalysis` | the analysis job of each replica and the advisor's request | two scenes of `Api`, extends `FinancialMemory` and `PaymentBook` |
| `ReportPages` | a client that pages through payments | scene of `Api`, extends `PaymentBook` |
| `RateLimit` | `allow()` on several threads | scene of `Api` |
| `Api` | the six scenes side by side | composition |
| `MC*` | model values, sequences and symmetry for TLC | |
| `*Proofs`, `MoneyTheorems` | theorems and lemmas, with proofs | section 6 |

An action is what happens between two points where another actor can come
between: usually one commit, or one read whose result is used later. Several
actors are sets of ids (`Replicas`, `Handlers`, `Runs`, `Reviewers`, `Requests`,
`Schedulers`), each with a program counter. A crash drops the program counter
and keeps the tables. Names follow the code; ghost variables, listed last in each
`VARIABLES`, count what happened for the properties and guard nothing. The
definitions marked "A mutation of" are plausible bugs, used only to see that each
property notices one.

**NotificationOutbox.** `status`, `attempts`, `rank` and `stale` are the row: `rank` orders
the due rows by `available_at`, `stale` says that `updated_at` is older than the processing
timeout. The code takes `now` first and writes it as `available_at` in a later commit; so
whoever has taken it (an insertion, a recovery, an operator's retry) has a place of its own
in that order (`Places`) until the commit, and the row comes in there (`DueSince`). An
insertion is `BeginInsert` and `CreatePending`; a job walks `Acquire`, `BeginRecovery`,
`RecoverScan`, `RecoverCommit`, `FetchBatch`, then for each row `MarkProcessing`, some
`RetryAttempt` and one `Send`, and one of `MarkSent`, `IncrementRetry`, `MarkFailed`;
`EndOfBatch` gives the lock back. `RetryAttempt` is a request of the WhatsApp client that it
repeats (`RetryPolicy.run`), `Send` the last one, whose answer `send()` returns; each
chooses what the provider did and, separately, what the client hears. So one `send()` may
deliver more than once, which `calls` and `attempts` do not count and `DuplicatesHaveACause`
does. `AdminOpen` reads and decides (`Decide`), `AdminRetry` and `AdminDiscard` write.
`LockDrop` is the loss of the lock's own connection, `TimeoutElapses` and `BackoffElapses`
are time. `LockMayDrop` and `Punctual` switch the two disturbances under which fewer things
hold.

**WebhookIntake.** A request walks `CheckDuplicate`, `LookUp`, `OpenConversation`, `Route`,
then either the assistant's turn (`AssistantThinks`, `StoreQuestion`, `StoreResponse`,
`RecordResponse`, `DeliverReply`) or `CreateRun`, `LaunchRun`, `Decide`, `CommitPayment`
once per share, `Notify`, `CompleteRun`, `StoreUserMessage`, `StoreAssistantMessage`, and in
both cases `MarkProcessed`. `Raise` (an exception inside the try block), `ErrorOutsideTry`,
`CommitFails` and `Crash` may strike at each of them, and differ in what becomes of the run
and of the answer. `cut` counts the turns of the assistant that were cut off behind their
question, `talks` those that were delivered. Meta delivers until it hears 200 (`Deliver`)
and sometimes once more (`DeliverAgain`). `OutboxHandlers` are the requests handled by a
replica that runs in outbox mode, where a reply without a recipient fails the run.

**PaymentAllocation** and **AllocationRules.** `TakeTurn` is one turn of the
inner loop, `NextPass` the outer one; `AllocateOver` states the same split by a
condition on how many daily amounts each contract takes. `PaymentLedger` uses the
latter, as the former is shown to compute it.

**PaymentLedger.** Each run is the chain of nodes from `Understand` to `Decide`; balances
are sums over `payments`, computed when they are read (`ReadOwed`, `ReadBalance`,
`ReadNewBalance`). What a receipt will say is held in memory (`held`) from the reading of
the balance to the commit (`WriteReceipt`), while others pay and review. A review is `Load`,
then `Save`, which writes the columns that differ from what was loaded (`Assign`), then the
audit row in the same commit. `Reply` is what the sender is told: what was received, and the
balances of the receipts, or that it waits, or that nothing was understood.

**PendingActions.** Rows are numbered in the order of `created_at`. A word
(`Say`) picks the newest confirmable action of its user (`Pick`); YES walks
`LogConfirmed`, `Execute`, `Record`, `LogExecuted`; NO is `Cancel`. The cleanup
is `ExpireScan` and one `ExpireOne` per row of its snapshot.

**Reminders.** One day. `Fire` takes the lock, `StartRun` records the run, `Select` applies
the policy to all contracts, then for each: `Begin`, `Accepted`, `Refused`,
`AnswerLost` or `Queued`, `WriteLog`, `Close`, `WriteSent` or `WriteFailed`. `Finish` and
`RunFails` write how the run ended, and `Release` gives the lock back. `Raise`
fails one contract and may poison the shared session; `StartFails` and `StatusLost` are writes
of the run's row that fail, `LockDrops` is the loss of the lock's connection under a run that
goes on, `Crash` the end of the process. A user's request walks the same steps without
lock, run or events, to `RequestEnds` or `RequestFails`.

**Accounts.** A registration is `FindEmail`, then `InsertUser` against a UNIQUE column;
a login is `Authenticate`, then an audit row and, if it succeeded, a token. Other
requests show a token (`GetCurrentUser`, any that was ever given out, or none), and then
create a contract (`CreateContract`, `AuditContract`) or read one (`ShowContract`).
`CallFails` ends a request anywhere with 500. `made`, `hit`, `clashed` and `known` record
what the answers are compared with.

**FinancialMemory.** A caller has a sequence of facts (`todo`); for the first of them it
looks, inserts and audits, in three statements (`SkipKnown` or `Recall`, `Insert`,
`LogMemory`). It has no actors of its own: turns and jobs fill `todo` (`Want`) and may be
stopped at any point (`Forget`).

**AssistantTurn.** A turn's `stage` follows `AssistantService.chat`, from `Arrive` to
`AuditResponse`, and `SendReply` over WhatsApp. The intent is chosen by the environment
(`Detect`). What the guard refuses is on record first (`Deny`), and told later
(`AnswerDenied`). `actions` are the proposals, by the turn that made them, `pending` those that
are open; a confirmation is `TakeLatest` or `NothingPending`, then `Execute` or
`ExecuteRefused`, which leaves the row as it is, then `Settle`; the whole of a row's life is in
`PendingActions`. `TurnFails` is an exception that reaches the caller, `ExecutionFails` and
`ExtractionFails` are those that are swallowed, and `SpoiltFails` what the spoilt session does
to the turn after them.

**PaymentBook, ProactiveAnalysis, ReportPages.** The book is the payments (`payment`), the
contracts there are (`opened`) and the date (`today`); between any two queries a payment is
made or reviewed (`ChangePayments`), a contract is created (`OpenContract`), the day turns
(`TurnDay`). An analysis is one query per action (`ReadBalance`, `ReadPaid`, `ReadLeft`,
`ReadNear`, `ReadPattern`); each figure lists the contracts anew, and the overdue ones take
the date anew (`NextFigure`, `BeginAgain`). What it finds is computed from what was read
(`Risks`, `Positives`, `Suggestions`). `before` is the book an analysis begins with, and
`since` says in which direction anything has moved from there. The job walks `StartJob`,
`ListUsers`, `AnalyzeUser`, `RecordAnalysis`, `RememberRisk`, `UserDone`, `EndJob` on one
session; `UserFails`, `StatementFails`, `JobStops` and `LockDrops` disturb it. A client's
page is `CountRows`, then `FetchRows`.

**RateLimit.** `allow()` is `Enter`, `SeeBucket`, `SeeOldest`, `PopOldest`, `CheckLimit`,
`AppendMoment`; `Restart` empties the buckets. The clock counts ticks, and the window is a
number of them.

**Api** puts them together. They share the memories and the payments, and no row
that one of them writes is written by another, so that a behaviour shows one *scene* (accounts,
a talk, the jobs, an advisor, a list, the limiter) whose actors interleave; the product of two
scenes would show nothing that each does not show alone, and multiply the states.

## 3. Runs and what they show

| Run | Asks | Properties |
|---|---|---|
| `outbox_safety` | lock and timeout behave | `DeliveredByOne`, `DuplicatesHaveACause`, `RetryBudget`, `NoQueueJumping`, `KeepsPromise` |
| `outbox_adverse` | lock lost, workers late, faults anywhere | `EventuallySettled`, `LockFreedAgain` |
| `intake` | duplicates, retries, overlaps, errors; does Meta get its 200 | `SecondWorkHasACause`, `HistoryOnlyAfterSuccess`, `OpenRunsAccounted`, `EventuallySettled` |
| `allocation_rounds` | loop against rule | `NoCentLost`, `ComputesTheRule`, `Returns` |
| `ledger_safety` | money, receipts, reviews, replies | `FlagsAgree`, `NoUnreviewedMoney`, `EachRunPaysItsAmount`, `CompletedIsEarned`, `RepliesAreTrue`, `ReceiptsAddUp` |
| `actions` | human in the loop | `StatusTellsTheTruth`, `AuditBracketsEffects`, `ContractOnce`, `NoExecutionWithoutConsent`, `EventuallyClosed` |
| `reminders` | a day of reminders | `LogTellsTheTruth`, `NobodyForgotten`, `LockWhileRunning`, `PaidIsLeftAlone` |
| `api` | accounts and contracts | `AnswersAreTrue` |
| | talks | `OneConversation`, `HistoryIsWhole`, `OnlyTheAppWrites`, `RepliesAreOnRecord`, `RememberedOnce` |
| | jobs and advisor | `ReportsBracketed`, `RisksOnce`, `FailuresIsolated`, `RememberedOnce` |
| | lists; the limiter | `WalkIsComplete`; `WindowHolds` |

Four runs check a sentence of the repository that the code does not keep, and end
in a counterexample: `intake_retry_claim`, `allocation_returns_claim`,
`actions_once_claim`, `reminders_once_claim` (section 7).

The bounds, and why they are enough:

- *Actors.* Two of each kind. Every race in this code is between two parties: one
  between the other's read and write. The theorems cover any number.
- *Rows and messages.* Two, so that one can overtake or disturb another; three
  contracts for the allocation, so that a turn passes a contract in the middle.
- *Retries.* `MaxRetries` is 2: a first attempt, a retry, a failure. `BatchSize`
  is 2 for safety and 1 where starvation matters. `SendRetries` is 1 for safety, and 0
  in `outbox_adverse`, whose questions do not depend on it (a repeated request only
  changes the number of deliveries).
- *Amounts.* Cents, up to 12 against daily amounts up to 5 in the allocation:
  exact, short and indivisible splits occur. In the ledger the totals are 3 and 2
  and the payments 3 and 4: settled, overpaid, split and refused cases occur.
- *Faults.* `MaxFaults` is 1 or 2: one fault at each possible step, and in
  `outbox_safety` and `intake` a second one during the recovery from the first, in `reminders`
  one under each of two runs (a lost lock and what happens beside it). In `api` the same bounds
  are `MaxErrors`, `MaxFailures` and `MaxFaults`, one each.
- *Runs of a day.* Any two (`MaxRunners`) of the two replicas' and the user's: they follow or
  overlap each other.
- *Repeats.* One early repetition by Meta, one operator's requeue, two reviews, two
  words of users, one payment in the day. They bound what the environment
  starts, never what the code does about it.

`CHECK_DEADLOCK FALSE` stands where the bounded environment really stops: no
more messages, words, runs or reviews to come.

`intake` and `outbox_adverse` use one message or row: what they ask is asked of each
message by itself, and a second one only multiplies the states. In `intake` one of the two
requests is in outbox mode. `outbox_adverse` has one operator, since two make liveness
checking too slow; the race of two operators is described in section 7.

In `api` the scenes add up instead of multiplying. `account` has three requests, of two users
and a stranger, with one reference code, so that two register the same e-mail or create the same
contract while a third looks on; the clock moves once, past the tokens' lifetime (`MaxHour`).
`talk` has two turns of one user at a time (`MaxTogether`) on either channel, of which only
those over HTTP say something worth remembering (two writers of one memory need no more), and a
history of one message (`HistoryLimit`), so that the limit bites. `analyse` has two replicas,
two jobs (`MaxAnalyses`) and two users, one without contracts and one with two and a third that
is entered late (`LateContracts`), with one change of the book (`MaxJobChanges`), and begins,
like `advise`, with one table (`AnalysedTables`); `advise` and `list` have two changes
(`MaxChanges`), on pages of one row and from three tables. The table, the days and
the amounts are chosen so that a contract is overdue, one is overpaid, the payments are
irregular, a midnight makes another one overdue, and one confirmation or rejection, or the late
contract, moves each of these. `limit` has three requests of
two addresses with a limit of one, and a clock that passes a window (`MaxClock`).

Symmetry is used only where no liveness property is checked, and in `api` only over the turns
and the replicas: symmetry over the callers too makes normalising the states slower than
exploring them.

## 4. Fairness

- `NotificationOutbox`: weak fairness of each step of a job that has begun, of
  *some* replica acquiring a free lock (the interval trigger fires in each replica
  for ever), of an operator's write once the row is read, and of time passing. There
  is none for faults, for creating rows, or for operators beginning anything.
- `WebhookIntake`: weak fairness of each step of a request that has begun (it may
  crash instead), and of Meta's delivery of a message it has no 200 for, which is
  the platform's contract and what the code relies on.
- `PaymentAllocation`: its steps are one thread's loop.
- `Api` states none: what is asked of its scenes is safety, and the only loops of their
  actors are over finite lists.
- `PendingActions`: the clock, the cleanup job's interval trigger, and a request
  that has begun. Users are not obliged to say anything.

## 5. Properties worth a word

`DuplicatesHaveACause` counts: deliveries the provider accepted are one if the row
is recorded as sent, plus those whose outcome the outbox never learnt. So at-least-
once degenerates to a duplicate for that reason and no other.

`NoQueueJumping` is why a batch limit starves nobody: whatever rejoins the
queue goes behind the rows that were due when it took the time. A row that became due
between that moment and the commit may be passed, once, and by nothing else.

`SecondWorkHasACause` is what the intake really ensures in place of "exactly once":
attempts at a message never exceed one, plus attempts that left no row, plus
those that overlapped. `HistoryOnlyAfterSuccess` accounts for what a conversation keeps: each
question is that of a completed run or a delivered turn of the assistant, or of a turn that is
at it or was cut off behind it. The comment in `receive_webhook` promises more (section 7).

`ReceiptsAddUp` and `CompletedIsEarned` relate what a run says to what the table
holds while other runs pay and reviewers reject in between. `RepliesAreTrue` and
`EachRunPaysItsAmount` relate what the sender is told to what was stored: the amounts
and balances named are those of the run's own payments and receipts, a manual review is
announced when there is one to wait for, "fully paid" when it was so.

`OutboxPromise` makes SENT and DISCARDED final, so that `KeepsPromise` includes that a
settled row stays settled (theorem `SettledStays`).

`ReceiptsAddUp` does not ask for the balances of the moment of the commit, which a receipt
cannot promise: they are those around its payment when some first payments, its own among
them, had been committed, as long as nobody reviews; and more is owed than a receipt says only
after a rejection.

`AnswersAreTrue` compares each answer of the account requests with the tables at every
later state, through crossings, expired tokens, and errors between two commits: what has been
answered stays true.

`OneConversation` and `RememberedOnce` have the same shape: a table that is read before
it is written and has no constraint keeps its rows apart unless two writers had both found
nothing. `OnlyTheAppWrites` follows the guard of WhatsApp through failures and through turns of
the same user over HTTP: a turn on record as denied ends with a denial or fails, and what it
asked for has no effect; an action is proposed and executed over HTTP only, by one user; and
"executed" is said when the effects are there and the action closed.
`HistoryIsWhole` and `RepliesAreOnRecord` then say what the model is shown and what a
failed turn leaves behind.

`ReportsBracketed` is what a report of many queries can promise without a transaction: exact
if nothing moved; between the first and the last state, the later the lower, if payments were
only confirmed; the same the other way round if payments were only withdrawn, contracts created
and days begun; and an advisor who does not contradict himself as far as that goes
(`AdviceAgrees`).
`RisksOnce` shows that the job's lock makes up for the missing constraint, `FailuresIsolated`
that one user's failure takes nothing from another while the session is usable.

`WalkIsComplete` names the only ways to pass over a row or see one twice. `WindowHolds`
holds for the addresses whose requests come one at a time, the only ones for which the
limiter without a lock is exact.

`LockWhileRunning` is what the scheduler's lock gives: it is not that no two runs overlap, since
the lock may be lost under a run that goes on, but that they overlap for no other reason, and
that no run which ended or died keeps the next one out.

`StatusTellsTheTruth` and `LogTellsTheTruth` have the same shape: outside the
overlaps and lost outcomes that are named, a durable flag says exactly what
happened in the world, so no later actor that reads the flag repeats it.

## 6. What is proved

Every safety property that a run checks, invariants and action properties alike, is a theorem.
TLAPS checks them for every value of the constants that satisfies the named
assumption of the module (`OutboxAssumption`, `IntakeAssumption`, `AllocationAssumption`,
`LedgerAssumption`, `ActionsAssumption`, `RemindersAssumption`, `TurnAssumption`,
`AccountsAssumption`, `BookAssumption`, `TablesAssumption`, `AnalysisAssumption`,
`PagesAssumption`, `LimiterAssumption`): the ids outside their sets, bounds that are naturals;
the handlers of the intake and the requests of the actions are finitely many, for they are
counted, and so are the users of an analysis, whose list a job reads; there is at least one
replica, a page has at least one row, a window of the limiter at least one tick; a customer's
contracts come from a query, each once (`LedgerAssumption`, `AllocationAssumption`); a
payment of the book is a row with a contract, an amount and a day (`BookAssumption`).
`FinancialMemory` needs none.

| Module | Theorem | Argument |
|---|---|---|
| `NotificationOutboxProofs` | `TypeCorrect` | `TypeInv`, inductive, one step per action |
| | `ExclusiveDelivery` | assumes the lock safe and deliveries punctual. `OneWriterInv`: only the holder of the lock is in a job, and a row that is being delivered is neither stale nor FAILED, so that recovery and operators cannot reach it |
| | `SettledStays` | from the same invariant, with one operator at a time |
| | `DuplicatesAccounted` | a ledger invariant: accepted = lost + recorded + the one now in hand |
| | `BudgetKept` | `BudgetInv` ties calls, `attempt_count` and faults per status: a row abandoned in PROCESSING has cost a fault that pays for the attempt recovery adds, and the copy of `attempt_count` a worker or a recovery holds is fresh |
| | `FirstDueFirstServed` | whoever takes the time gets a place behind all there are, a row comes in at the place of the time it was given, and leaving keeps the order of the rest; so a row is passed only from a place that was taken before it became due |
| | `OutboxKeepsPromise` | refinement: under `OneWriterInv` each action maps to a step of `OutboxPromise` or a stutter |
| `WebhookIntakeProofs` | `RetriesAccounted` | the attempts at a message are the finished ones, those that left no row, and the set of handlers now at work, whose cardinality is tied to the overlaps |
| | `NothingLostSilently`, `ProcessedOnlyAfterSuccess` | `ReasonInv`: a request about to answer 200 has its reason already |
| | `HistoryFollowsSuccess`, `OpenRunsFollowed` | `HistoryInv`: each counter runs ahead of the next by the number of requests on their way from the one write to the other, counted by cardinality, and of turns cut off there |
| `PaymentAllocationProofs` | `AllocationIsTyped`, `NoCentIsLost` | `CentsInv`: what is left and what the contracts of the loop have got add up to the payment, and the others have got nothing |
| | `LoopComputesTheRule` | assumes that no daily amount is stored as zero, where the loop need not end and the rule says nothing. `SoFar`: up to the next turn a contract has had its m-th unit exactly when the rule says so; when the loop ends that is a solution of the rule, and there is only one (`TurnsUnique`) |
| `PaymentLedgerProofs` | `FlagsNeverDiverge`, `MoneyIsReviewed` | `ReviewInv` says, for each review in progress, what its loaded copy may still differ in: both flags move together, and a difference has an audit row |
| | `LedgerIsTyped` | `TypeOK` is inductive only with the shape of a run's state (`RunsInv`) |
| | `RunsPutDownTheirAmount` | `RunsInv`: the shares of a run are of different contracts and add up to its amount, since the rule loses no cent; its payments are its first shares, one each, as far as the node has come |
| | `FullyPaidIsTrue` | `SettledInv`: an added-up balance of nothing was nothing for each contract read so far, and only a rejection, which leaves an audit row, makes one owe again |
| | `RepliesAreSo` | `ReceiptsInv`, the same as `RunsInv` for the receipts, and `AloneInv`: while nobody else touches the payments, the remaining amount is what the contracts read so far owe |
| | `ReceiptsAreRight` | `SnapshotInv`: what a run holds for its next receipt, and what each receipt says, is the sum over the first payments there were when it was read, its own among them; payments are only appended, and without a rejection none stops to count |
| `PendingActionsProofs` | `TypeCorrect`, `TruthfulStatus`, `ContractsOnce` | `Discipline`: an action that is neither raced nor broken is held by one request at most, still PENDING while it is held before its effect |
| | `AuditFollowsEffects` | the same counting: between a confirmation, its execution and the row that reports it there are as many requests as the counters differ by |
| | `ConsentIsSpentOnce` | the executions of a user's actions, and the requests that still hold his YES, are together no more than the times he said it |
| `RemindersProofs` | `TypeCorrect`, `TruthfulLog` | `Discipline`: an unraced contract is on one list at most, and is unlogged as long as it is on one |
| | `LockFollowsRun` | `Locked`: from `Fire` to `Release` a run holds the lock or has lost it, and nobody else's run holds it; with `Bookkept`, which ties the run's row to its step |
| | `PaidLeftAlone` | whoever is paid and still on a list was put there before, and is counted |
| | `OpenRuns` | the open agent runs are those in hand and those a fault abandoned |
| | `EveryoneAccountedFor` | `Bookkept`: every contract of a run's list is in one place, still to do, in hand, or behind exactly one event |
| `ApiProofs` | `AnswersStayTrue` | rows are only added, never under an e-mail or a code that is taken; what a caller knows at each stage stays true, and two that both found an e-mail free have crossed |
| | `NoDuplicateMemories` | a caller that has found its fact missing, and did not cross another, is the only one about to insert it, and nobody has inserted it since |
| | `ConversationsOpenedOnce` | the same, for turns that are about to open a conversation |
| | `WhatsAppOnlyReads` | `GuardInv`: the stages that propose, confirm or execute are reached over HTTP only; a turn in hand of an action is of the user who proposed it; a denied turn is on its way to the answer, has it, or failed |
| | `AnswersAreOnRecord` | `RecordInv`: which messages of a turn are there, stage by stage; they are written by its own two steps, one after the other, in a row with its key |
| | `HistoriesAreWhole` | `HistoryInv`: a turn that is over has both messages, all in the one conversation of its key; the last messages of a conversation hold a message, or are the limit and all later |
| | `LimiterIsExact` | `LimiterInv`: with requests of an address one at a time, its bucket holds one moment for each request let through, and who is not in it is too old for all that are inside or will be |
| | `ReportsAreBracketed` | `PictureInv`: what an analyst has read so far is one record (`Picture`), drawn from books between the first and the present (`Drawn`); books are ordered by what is owed and overdue in them (`Below`), a confirmation goes down in that order, a withdrawal, a new contract and a midnight go up, and each query keeps the picture between the two, whichever contracts it has listed and read |
| | `RisksAreRememberedOnce` | two callers cross at a risk only if two jobs are at work, and then the lock was lost under one (`Alone`) |
| | `FailuresStayIsolated` | `RunInv`: what a job has dealt with is one record against what is remembered; a fact leaves a caller's list only when it is stored (`Logs`), and stays |
| | `WalksAreComplete` | `PageInv`: a row's position is the number of rows ahead of it (`Rank`), a page holds the rows whose number lies between its ends; without a departure no number falls, and only a row that joins ahead raises one |

None of the properties is inductive by itself: each speaks of what is durable,
and the strengthening says what every actor in the middle of an operation still
holds in memory. The strengthenings were checked with TLC before they were proved, on the
instances of the runs.

`MoneyTheorems` has the lemmas the others rest on: sums over finite sets (`SumOver`,
which is what `MapThenSumSet` computes), that a sum changes with one element, is monotonic, and
moves along a bijection; lists of shares; and lists with some elements kept. Both are
recursive definitions. The theorems of the library on induction take the predicate as a parameter,
which is beyond the provers here, so each statement about all finite sets or all lengths is
proved of the smallest one that would break it, which exists because the order is well
founded. The prover cannot unfold `SelectSeq` and `SetToSortSeq`; the models keep elements of
a list with `Kept` of `Lists`, a recursive function, instead.

Three things in the models were found by these proofs, and mended to follow the code:
`AllocateAutomatically` of `PaymentLedger` is not taken if the round-robin loop would not end
(`AllocationEnds`), where it used to go on with a split the rule leaves open; the cases of
`BookMoves` overlapped, so that which was taken was open too; and a listing is a record of
its own (`Listing`).

Type invariants: those of the outbox, the allocation, the ledger, the actions and the reminders
are theorems; those of `FinancialMemory`, `Accounts`, the turns, the limiter, the analyses and
the pages are part of the inductive invariants of their theorems as far as those need them.

Only model-checked: the liveness properties (`EventuallySettled` of outbox and intake,
`LockFreedAgain`, `Returns`, `EventuallyClosed`), since the prover has no rule for fairness
here. That `LoopComputesTheRule` needs its assumption is shown by
the run `allocation_returns_claim`.

## 7. What the code does not give

Each of these was met as a counterexample to a sentence in the repository. The first
four are runs of the project.

- A payment is recorded twice when an attempt dies between its first payment and the
  processed row, or when two deliveries overlap (`api/whatsapp.py:177`,
  `agents/payment_creation_node.py:54`; `docs/ARCHITECTURE.md:156-157`).
  `intake_retry_claim`.
- `allocate` does not return when a contract's daily amount is stored as 0.00, which a
  valid 0.004 is (`services/payment_allocation_service.py:84`). `allocation_returns_claim`.
- Two confirmations that overlap execute an action twice
  (`ai/actions/action_service.py:179`). `actions_once_claim`.
- In outbox mode no reminder is ever logged, so a second run of the day reminds again
  (`agents/notification_node.py:98`). `reminders_once_claim`.
- Outbox: a crash after a send gives one attempt more than the maximum
  (`workers/notification_worker.py:144`, `README.md:391`); `attempt_count` never
  includes the last attempt (`models/notification_outbox.py:47`); a retry that read
  FAILED before another operator's discard revives the DISCARDED row
  (`repositories/notification_outbox_repository.py:134`); losing only the lock's
  connection lets two replicas drain together (`scheduler.py:224`).
- Intake: the second of two overlapping deliveries is answered 500
  (`api/whatsapp.py:230`, `:236`); a caught error is answered 200, so Meta does not
  retry although `:231` counts on it; after a failed commit the run stays RUNNING
  (`services/agent_execution_service.py:61-65`); a payment that waits for approval has
  no recipient for its reply, which in outbox mode fails the run
  (`agents/notification_node.py:99`); two first messages handled together leave two
  ACTIVE conversations (`services/conversation_memory_service.py:38`).
- Intake, history: the assistant stores a question before its answer, and both before the
  reply is sent: a turn that fails in between is acknowledged as an error and leaves messages
  in the conversation, although "a failed run leaves no conversation messages behind"
  (`api/whatsapp.py:200-201`, `ai/assistant/assistant_service.py:138-154`).
- Outbox, order: a row that becomes due between the `now` of a recovery, retry or insertion
  and its commit is passed by that row (`repositories/notification_outbox_repository.py:102`).
- Ledger: a receipt's balances are those of the moment they were read, not of its commit
  (`services/payment_receipt_service.py:53`, `:62`); the receipt of an overpayment has a wrong
  previous balance (`services/payment_receipt_service.py:49-61`); a rejected payment can be
  approved
  (`services/payment_approval_service.py:74`, `:112-113`); an approval that loaded
  APPROVED before a rejection commits changes nothing and says it did; a contract
  settled by another run in between is paid again
  (`services/payment_allocation_service.py:35-36`); a confident detection without an
  amount is answered "I've recorded your payment"
  (`agents/response_generation_node.py:114`), and an uncertain one without a single
  contract is announced as pending and stored nowhere (`README.md:231`).
- Reminders: a failed commit makes every later contract of the run fail
  (`scheduler.py:123`); a SENT event is written although `send()` answered False
  (`scheduler.py:148`); a contract paid after the list was read is still reminded; when only the
  lock's connection is lost, two replicas remind at a time (`scheduler.py:65`).
- Accounts: of two registrations that cross, the second is answered 500 and not
  `EMAIL_ALREADY_REGISTERED` (`services/auth_service.py:27`); a contract whose audit row
  fails is answered 500 although it is stored, and the retry is answered 409
  (`services/contract_service.py:38`).
- Memories: two writers of one fact store it twice
  (`services/ai_memory/financial_memory_service.py:40-41`); when the extraction fails on a
  commit, which the turn means to survive, its `ASSISTANT_RESPONSE` audit row fails on the
  same session (`ai/assistant/assistant_service.py:253-257`).
- Proactive job: a failed commit expires the loaded users, so that the handler's own use of
  `user.id` raises and the job ends, although one user's failure must not stop the rest
  (`scheduler.py:309`, `:329`); after a rejection between two queries a report may miss an
  overdue contract; a contract created, or a midnight, between two figures is in the later ones
  only (`services/contract_reporting_service.py:43`,
  `services/insights/contract_insight_service.py:43`).
- Pages: deciding on pending payments while paging through them passes over rows
  (`repositories/pagination.py:44`). Limiter: threads may let one request too many through,
  or pop an empty bucket (`core/rate_limit.py:38`).
- Seen, and not in a model: of a webhook payload with several messages only the first is
  read and the rest is acknowledged (`api/whatsapp.py`, `_extract_message`); no code sets
  `contract.status`, so nothing that waits for a completed contract ever happens.

The passing properties state what holds beside these: the exceptions they name are
these cases and no others.

## 8. What is not modelled

The language model, its prompts and the wording of answers: its verdict is an input. Dashboards,
analytics and system reports, and the insights that neither the job nor the advisor asks
for, which only read. Configuration, logging, metrics, alerts and migrations; `AgentEvent`
rows, which follow the program counter of their run; the parsing and the signature of a webhook
payload (a delivery carries one message). Code that nothing calls: `update_summary`,
`close_conversation`, `delete_contract`, `ContractUpdate`.

Simplifications that the modules rely on:

- The clock is one day in `Reminders`: the code compares `date.today()` with a date taken from
  a database timestamp and schedules in a third time zone, which a model of one day cannot show.
- The contracts of one phone belong to one lender, so a chat is a user and a channel.
- The messages that the payment workflow stores in a conversation are in `WebhookIntake`, and
  those of turns in `AssistantTurn`.
- A pending action is a row with all its steps in `PendingActions`; `AssistantTurn` knows who
  proposed it and whether it is open.
- The advisor's line about one contract that holds most of the capital is left out.
- Digests of passwords and tokens are told apart by what they are made from; a token that was
  not given out is no token. `is_active` is never read by the code.
- A ratio is an integer in ten-thousandths, as the code rounds it; the limiter's window is a
  number of ticks.
- `contract.status` and, in `Reminders`, `start_date` are left out because no code changes them.

## 9. Plan

In this order, each with its module, run and, where it says so, proofs:

1. Lemmas for termination: `Returns` is liveness, but that a turn of the loop, or a pass
   without one, brings the loop nearer to its end is an action property with a measure.
2. An abstract specification of the intake (a message is owed, then settled, with
   at-least-once effects) that `WebhookIntake` implements, and of `Reminders`
   together with the outbox (a reminder is due, queued, delivered).
3. The contract resolver's rules, and webhook payloads with several messages.

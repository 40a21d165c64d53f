----------------------------- MODULE WebhookIntake -----------------------------
(***************************************************************************)
(* The intake of WhatsApp messages: api/whatsapp.receive_webhook, the      *)
(* AgentRun it starts (AgentExecutionService, PaymentWorkflow,             *)
(* WorkflowExecutor), the payments that run commits one by one, and the    *)
(* processed_messages row that makes a delivery a duplicate.               *)
(*                                                                         *)
(* Meta delivers a message again until an answer of 200 reaches it, and    *)
(* sometimes for no reason at all. Handlers run in a thread pool and on     *)
(* several replicas, so two deliveries of one message may be handled       *)
(* together. Each repository call commits on its own. What the message      *)
(* says, and how the amount is split, is a choice of the language model     *)
(* here; the arithmetic is in PaymentAllocation and PaymentLedger.         *)
(***************************************************************************)
EXTENDS Naturals, FiniteSets

CONSTANTS
  Messages,        \* WhatsApp message ids, all from one phone number
  Handlers,        \* webhook requests that can be in progress together
  NoMessage,
  OutboxHandlers,  \* those of a replica whose NOTIFICATION_MODE is "outbox"
  MaxAllocations,  \* contracts one payment can be split over
  MaxFaults,       \* bound: crashes, raised errors, answers lost on the way
  MaxRepeats       \* bound: deliveries Meta repeats before it has a reason to

ASSUME IntakeAssumption ==
  /\ NoMessage \notin Messages
  /\ IsFiniteSet(Handlers)
  /\ OutboxHandlers \subseteq Handlers
  /\ MaxAllocations \in Nat \ {0}
  /\ MaxFaults \in Nat /\ MaxRepeats \in Nat

VARIABLES
  meta,           \* what Meta knows: "new", "owed" (no 200 yet), "acked"
  \* one webhook request each
  pc,
  job,            \* the message it handles
  found,          \* get_active_by_whatsapp_chat_id returned a conversation
  path,           \* what the workflow decided to do with the payment
  left,           \* payments of the run still to be committed
  paid,           \* the run has committed a payment
  code,           \* the HTTP status to answer with
  \* the database
  processed,      \* message ids in processed_messages
  conversations,  \* ACTIVE conversations of the phone number
  runs,           \* AgentRun rows per message and status
  stored,         \* user messages persisted in the conversation
  answers,        \* assistant messages persisted in the conversation
  \* what happened, for the properties
  work,           \* requests that went past the duplicate test
  paidRuns,       \* runs that committed at least one payment
  handled,        \* requests that came to the end of the try block
  talks,          \* assistant turns among them
  cut,            \* assistant turns that ended between their history and their reply
  replied,        \* replies addressed to the sender
  undone,         \* requests that ended after the test and left no row
  abandoned,      \* runs a crash or a failed commit left as they were
  overlaps,       \* requests that passed the test beside another one
  caught,         \* messages with an error answered as {"status": "error"}
  strangers,      \* messages answered as {"status": "unknown_contract"}
  faults, repeats

slots   == <<pc, job, found, path, left, paid, code>>
rows    == <<processed, conversations, runs, stored, answers>>
ledger  == <<work, paidRuns, handled, talks, cut, replied, undone, abandoned, overlaps,
             caught, strangers>>
bounds  == <<faults, repeats>>
vars    == <<meta, slots, rows, ledger, bounds>>

Steps == {"idle", "check", "lookup", "open", "route",
          "assist", "question", "response", "record", "deliver",
          "create", "launch", "detect", "pay", "notify", "complete", "store", "reply",
          "mark", "answer"}
Paths == {"none", "credit", "review", "nothing"}
RunStatuses == {"PENDING", "RUNNING", "COMPLETED", "FAILED"}

TypeOK ==
  /\ meta \in [Messages -> {"new", "owed", "acked"}]
  /\ pc    \in [Handlers -> Steps]
  /\ job   \in [Handlers -> Messages \cup {NoMessage}]
  /\ found \in [Handlers -> BOOLEAN]
  /\ path  \in [Handlers -> Paths]
  /\ left  \in [Handlers -> 0..MaxAllocations]
  /\ paid  \in [Handlers -> BOOLEAN]
  /\ code  \in [Handlers -> {0, 200, 500}]
  /\ processed \in SUBSET Messages
  /\ conversations \in Nat
  /\ runs \in [Messages -> [RunStatuses -> Nat]]
  /\ \A count \in {stored, answers, work, paidRuns, handled, talks, cut, replied, undone,
                   abandoned, overlaps} :
       count \in [Messages -> Nat]
  /\ caught \in SUBSET Messages /\ strangers \in SUBSET Messages
  /\ faults \in Nat /\ repeats \in Nat

Zero == [m \in Messages |-> 0]

Init ==
  /\ meta  = [m \in Messages |-> "new"]
  /\ pc    = [h \in Handlers |-> "idle"]
  /\ job   = [h \in Handlers |-> NoMessage]
  /\ found = [h \in Handlers |-> FALSE]
  /\ path  = [h \in Handlers |-> "none"]
  /\ left  = [h \in Handlers |-> 0]
  /\ paid  = [h \in Handlers |-> FALSE]
  /\ code  = [h \in Handlers |-> 0]
  /\ processed = {} /\ conversations = 0
  /\ runs  = [m \in Messages |-> [s \in RunStatuses |-> 0]]
  /\ stored = Zero /\ answers = Zero /\ work = Zero /\ paidRuns = Zero /\ handled = Zero
  /\ talks = Zero /\ cut = Zero /\ replied = Zero /\ undone = Zero
  /\ abandoned = Zero /\ overlaps = Zero
  /\ caught = {} /\ strangers = {}
  /\ faults = 0 /\ repeats = 0

Goto(h, step) == pc' = [pc EXCEPT ![h] = step]

Bump(count, m) == [count EXCEPT ![m] = @ + 1]

AnswerWith(h, status) ==
  /\ Goto(h, "answer")
  /\ code' = [code EXCEPT ![h] = status]

\* The request is over and its sessions are closed.
Release(h) ==
  /\ Goto(h, "idle")
  /\ job'   = [job EXCEPT ![h] = NoMessage]
  /\ found' = [found EXCEPT ![h] = FALSE]
  /\ path'  = [path EXCEPT ![h] = "none"]
  /\ left'  = [left EXCEPT ![h] = 0]
  /\ paid'  = [paid EXCEPT ![h] = FALSE]
  /\ code'  = [code EXCEPT ![h] = 0]

\* The steps between the duplicate test and the processed_messages row.
Working(h) == pc[h] \notin {"idle", "check", "answer"}

\* The steps inside the try block of receive_webhook.
Trying(h) == pc[h] \in {"route", "assist", "question", "response", "record", "deliver",
                        "create", "launch", "detect", "pay", "notify", "complete",
                        "store", "reply"}

\* The assistant has stored the question and the reply is not sent.
Talking(h) == pc[h] \in {"response", "record", "deliver"}

\* The request's run is one of the rows counted as PENDING or RUNNING.
RunOpen(h) == pc[h] \in {"launch", "detect", "pay", "notify", "complete"}

\* The run's row moves from one status to another.
MoveRun(m, from, to) ==
  runs' = [runs EXCEPT ![m][from] = @ - 1, ![m][to] = @ + 1]

-----------------------------------------------------------------------------
(* Meta *)

\* A customer writes; Meta owes the delivery from now on.
Write(m) ==
  /\ meta[m] = "new"
  /\ meta' = [meta EXCEPT ![m] = "owed"]
  /\ UNCHANGED <<slots, rows, ledger, bounds>>

InFlight(m) == \E h \in Handlers : job[h] = m

Begin(h, m) ==
  /\ pc[h] = "idle"
  /\ Goto(h, "check")
  /\ job' = [job EXCEPT ![h] = m]
  /\ UNCHANGED <<meta, found, path, left, paid, code, rows, ledger>>

\* A delivery of a message Meta has no 200 for.
Deliver(m) ==
  /\ meta[m] = "owed" /\ ~InFlight(m)
  /\ \E h \in Handlers : Begin(h, m)
  /\ UNCHANGED bounds

\* A delivery Meta repeats while it may still get an answer, or after it did.
DeliverAgain(m) ==
  /\ meta[m] = "acked" \/ InFlight(m)
  /\ repeats < MaxRepeats /\ repeats' = repeats + 1
  /\ \E h \in Handlers : Begin(h, m)
  /\ UNCHANGED faults

Answer(h) ==
  /\ pc[h] = "answer"
  /\ meta' = IF code[h] = 200 THEN [meta EXCEPT ![job[h]] = "acked"] ELSE meta
  /\ Release(h)
  /\ UNCHANGED <<rows, ledger, bounds>>

-----------------------------------------------------------------------------
(* receive_webhook, up to the try block *)

\* A mutation of CheckDuplicate: the processed_messages row is not looked for.
CheckNothing(h) ==
  /\ pc[h] = "check"
  /\ Goto(h, "lookup")
  /\ work' = Bump(work, job[h])
  /\ overlaps' = IF \E g \in Handlers \ {h} : job[g] = job[h] /\ Working(g)
                 THEN Bump(overlaps, job[h]) ELSE overlaps
  /\ UNCHANGED <<meta, job, found, path, left, paid, code, rows, paidRuns, talks, cut,
                 handled, replied, abandoned, undone, caught, strangers, bounds>>

\* A mutation of CheckDuplicate: a duplicate is answered as a conflict.
CheckConflict(h) ==
  /\ pc[h] = "check"
  /\ \/ job[h] \in processed /\ AnswerWith(h, 500) /\ UNCHANGED <<work, overlaps>>
     \/ /\ job[h] \notin processed
        /\ Goto(h, "lookup")
        /\ work' = Bump(work, job[h])
        /\ UNCHANGED <<code, overlaps>>
  /\ UNCHANGED <<meta, job, found, path, left, paid, rows, paidRuns, talks, cut,
                 handled, replied, abandoned, undone, caught, strangers, bounds>>

\* processed_message_repository.exists
CheckDuplicate(h) ==
  /\ pc[h] = "check"
  /\ \/ /\ job[h] \in processed
        /\ AnswerWith(h, 200)
        /\ UNCHANGED <<work, overlaps>>
     \/ /\ job[h] \notin processed
        /\ Goto(h, "lookup")
        /\ work' = Bump(work, job[h])
        /\ overlaps' = IF \E g \in Handlers \ {h} : job[g] = job[h] /\ Working(g)
                       THEN Bump(overlaps, job[h]) ELSE overlaps
        /\ UNCHANGED code
  /\ UNCHANGED <<meta, job, found, path, left, paid, rows, paidRuns, talks, cut,
                 handled, replied, abandoned, undone, caught, strangers, bounds>>

\* The active contracts of the phone number: none answers the message for good.
\* Then the first half of get_or_create_conversation.
LookUp(h) ==
  /\ pc[h] = "lookup"
  /\ \/ /\ AnswerWith(h, 200)
        /\ strangers' = strangers \cup {job[h]}
        /\ undone' = Bump(undone, job[h])
        /\ UNCHANGED found
     \/ /\ found' = [found EXCEPT ![h] = conversations > 0]
        /\ Goto(h, "open")
        /\ UNCHANGED <<code, strangers, undone>>
  /\ UNCHANGED <<meta, job, path, left, paid, rows, work, talks, cut, paidRuns, handled,
                 replied, abandoned, overlaps, caught, bounds>>

\* The second half: a conversation is created when none was found.
OpenConversation(h) ==
  /\ pc[h] = "open"
  /\ conversations' = IF found[h] THEN conversations ELSE conversations + 1
  /\ Goto(h, "route")
  /\ UNCHANGED <<meta, job, found, path, left, paid, code, processed, runs, stored, answers, ledger, bounds>>

\* message_router.is_payment, an answer of the language model.
Route(h) ==
  /\ pc[h] = "route"
  /\ \E branch \in {"create", "assist"} : Goto(h, branch)
  /\ UNCHANGED <<meta, job, found, path, left, paid, code, rows, ledger, bounds>>

\* AssistantService.chat, up to the audit row of the query: the answer is known.
AssistantThinks(h) ==
  /\ pc[h] = "assist"
  /\ Goto(h, "question")
  /\ UNCHANGED <<meta, job, found, path, left, paid, code, rows, ledger, bounds>>

\* The assistant stores the turn itself, one commit for the question ...
StoreQuestion(h) ==
  /\ pc[h] = "question"
  /\ stored' = Bump(stored, job[h])
  /\ Goto(h, "response")
  /\ UNCHANGED <<meta, job, found, path, left, paid, code, processed, conversations, runs,
                 answers, ledger, bounds>>

\* ... and one for its answer.
StoreResponse(h) ==
  /\ pc[h] = "response"
  /\ answers' = Bump(answers, job[h])
  /\ Goto(h, "record")
  /\ UNCHANGED <<meta, job, found, path, left, paid, code, processed, conversations, runs,
                 stored, ledger, bounds>>

\* The extraction of memories and the audit row of the response.
RecordResponse(h) ==
  /\ pc[h] = "record"
  /\ Goto(h, "deliver")
  /\ UNCHANGED <<meta, job, found, path, left, paid, code, rows, ledger, bounds>>

\* Back in _run_assistant: the reply is sent and the answer of send() ignored.
DeliverReply(h) ==
  /\ pc[h] = "deliver"
  /\ replied' = Bump(replied, job[h])
  /\ handled' = Bump(handled, job[h])
  /\ talks'   = Bump(talks, job[h])
  /\ Goto(h, "mark")
  /\ UNCHANGED <<meta, job, found, path, left, paid, code, rows, work, paidRuns, cut,
                 abandoned, undone, overlaps, caught, strangers, bounds>>

-----------------------------------------------------------------------------
(* The payment run: AgentExecutionService.execute and PaymentWorkflow.process *)

CreateRun(h) ==
  /\ pc[h] = "create"
  /\ runs' = [runs EXCEPT ![job[h]]["PENDING"] = @ + 1]
  /\ Goto(h, "launch")
  /\ UNCHANGED <<meta, job, found, path, left, paid, code, processed, conversations,
                 stored, answers, ledger, bounds>>

\* A mutation of LaunchRun: the message is stored before the run.
LaunchRunStoring(h) ==
  /\ pc[h] = "launch"
  /\ MoveRun(job[h], "PENDING", "RUNNING")
  /\ stored' = Bump(stored, job[h])
  /\ Goto(h, "detect")
  /\ UNCHANGED <<meta, job, found, path, left, paid, code, processed, conversations,
                 answers, ledger, bounds>>

LaunchRun(h) ==
  /\ pc[h] = "launch"
  /\ MoveRun(job[h], "PENDING", "RUNNING")
  /\ Goto(h, "detect")
  /\ UNCHANGED <<meta, job, found, path, left, paid, code, processed, conversations,
                 stored, answers, ledger, bounds>>

\* PaymentDetectionNode to PaymentAllocationNode. Confidence, amount and
\* references lead to payments credited at once, to one PENDING payment for a
\* human, or to none at all (no amount, or no single contract to attach it to).
Decide(h) ==
  /\ pc[h] = "detect"
  /\ \E p \in {"credit", "review", "nothing"}, n \in 0..MaxAllocations :
       /\ p = "credit"  => n > 0
       /\ p = "review"  => n = 1
       /\ p = "nothing" => n = 0
       /\ path' = [path EXCEPT ![h] = p]
       /\ left' = [left EXCEPT ![h] = n]
       /\ Goto(h, IF n = 0 THEN "notify" ELSE "pay")
  /\ UNCHANGED <<meta, job, found, paid, code, rows, ledger, bounds>>

\* ApprovalCreationNode or PaymentCreationNode: one commit per payment. The
\* balance, receipt, decision and response nodes follow the last one.
CommitPayment(h) ==
  /\ pc[h] = "pay"
  /\ left' = [left EXCEPT ![h] = @ - 1]
  /\ paid' = [paid EXCEPT ![h] = TRUE]
  /\ paidRuns' = IF paid[h] THEN paidRuns ELSE Bump(paidRuns, job[h])
  /\ Goto(h, IF left[h] = 1 THEN "notify" ELSE "pay")
  /\ UNCHANGED <<meta, job, found, path, code, rows, work, talks, cut, handled, replied,
                 abandoned, undone, overlaps, caught, strangers, bounds>>

\* BalanceUpdateNode sets whatsapp_chat_id, and only when a payment_id is set.
KnowsRecipient(h) == path[h] = "credit"

\* NotificationNode. In direct mode a reply without recipient is refused by the
\* provider and the run goes on; in outbox mode the row's recipient is NOT NULL
\* and the commit fails (RecipientMissing).
Notify(h) ==
  /\ pc[h] = "notify"
  /\ KnowsRecipient(h) \/ h \notin OutboxHandlers
  /\ replied' = IF KnowsRecipient(h) THEN Bump(replied, job[h]) ELSE replied
  /\ Goto(h, "complete")
  /\ UNCHANGED <<meta, job, found, path, left, paid, code, rows, work, talks, cut,
                 paidRuns, handled, abandoned, undone, overlaps, caught, strangers,
                 bounds>>

\* mark_run_completed
CompleteRun(h) ==
  /\ pc[h] = "complete"
  /\ MoveRun(job[h], "RUNNING", "COMPLETED")
  /\ Goto(h, "store")
  /\ UNCHANGED <<meta, job, found, path, left, paid, code, processed, conversations,
                 stored, answers, ledger, bounds>>

StoreUserMessage(h) ==
  /\ pc[h] = "store"
  /\ stored' = Bump(stored, job[h])
  /\ Goto(h, "reply")
  /\ UNCHANGED <<meta, job, found, path, left, paid, code, processed, conversations, runs,
                 answers, ledger, bounds>>

StoreAssistantMessage(h) ==
  /\ pc[h] = "reply"
  /\ answers' = Bump(answers, job[h])
  /\ handled' = Bump(handled, job[h])
  /\ Goto(h, "mark")
  /\ UNCHANGED <<meta, job, found, path, left, paid, code, processed, conversations,
                 runs, stored, work, talks, cut, paidRuns, replied, abandoned, undone,
                 overlaps, caught, strangers, bounds>>

\* processed_message_repository.create, after the try block: message_id is
\* UNIQUE, and the second of two inserts is an unhandled IntegrityError.
MarkProcessed(h) ==
  /\ pc[h] = "mark"
  /\ processed' = processed \cup {job[h]}
  /\ AnswerWith(h, IF job[h] \in processed THEN 500 ELSE 200)
  /\ UNCHANGED <<meta, job, found, path, left, paid, conversations, runs, stored, answers,
                 ledger, bounds>>

-----------------------------------------------------------------------------
(* Errors and crashes *)

Fault == faults < MaxFaults /\ faults' = faults + 1

\* The run, if there is one, keeps the status it has.
Abandon(h) ==
  abandoned' = IF RunOpen(h) THEN Bump(abandoned, job[h]) ELSE abandoned

\* A turn of the assistant that stored its question and does not come to its reply.
CutTurn(h) == cut' = IF Talking(h) THEN Bump(cut, job[h]) ELSE cut

\* The except branch of receive_webhook: {"status": "error"}, with a 200.
Catch(h) ==
  /\ AnswerWith(h, 200)
  /\ caught' = caught \cup {job[h]}
  /\ undone' = Bump(undone, job[h])
  /\ CutTurn(h)
  /\ UNCHANGED <<meta, job, found, path, left, paid, processed, conversations, stored,
                 answers, work, paidRuns, handled, talks, replied, overlaps, strangers,
                 repeats>>

\* A mutation of Raise: the run is left as it is.
RaiseUnmarked(h) ==
  /\ pc[h] \in {"route", "assist", "record", "deliver", "detect", "pay", "notify"}
  /\ Fault
  /\ UNCHANGED <<runs, abandoned>>
  /\ Catch(h)

\* An exception while the session still works (the language model, a bug in a
\* node): WorkflowExecutor and AgentExecutionService mark the run FAILED.
Raise(h) ==
  /\ pc[h] \in {"route", "assist", "record", "deliver", "detect", "pay", "notify"}
  /\ Fault
  /\ IF RunOpen(h) THEN MoveRun(job[h], "RUNNING", "FAILED") ELSE UNCHANGED runs
  /\ UNCHANGED abandoned
  /\ Catch(h)

\* A failed commit. The run's session refuses every later statement until a
\* rollback nobody calls, so neither except branch can mark the run FAILED.
CommitFails(h) ==
  /\ Trying(h)
  /\ Fault
  /\ Abandon(h)
  /\ UNCHANGED runs
  /\ Catch(h)

\* The same, without any fault: a queued reply that has no recipient.
RecipientMissing(h) ==
  /\ pc[h] = "notify"
  /\ h \in OutboxHandlers /\ ~KnowsRecipient(h)
  /\ Abandon(h)
  /\ UNCHANGED <<runs, faults>>
  /\ Catch(h)

\* An error before or after the try block is a 500.
ErrorOutsideTry(h) ==
  /\ pc[h] \in {"check", "lookup", "open", "mark"}
  /\ Fault
  /\ AnswerWith(h, 500)
  /\ undone' = IF Working(h) THEN Bump(undone, job[h]) ELSE undone
  /\ UNCHANGED <<meta, job, found, path, left, paid, rows, work, talks, cut, paidRuns,
                 handled, replied, abandoned, overlaps, caught, strangers, repeats>>

\* The replica dies, or the answer does not reach Meta in time.
Crash(h) ==
  /\ pc[h] # "idle"
  /\ Fault
  /\ undone' = IF Working(h) THEN Bump(undone, job[h]) ELSE undone
  /\ Abandon(h)
  /\ CutTurn(h)
  /\ Release(h)
  /\ UNCHANGED <<meta, rows, work, paidRuns, handled, talks, replied, overlaps, caught,
                 strangers, repeats>>

-----------------------------------------------------------------------------
Step(h) ==
  \/ CheckDuplicate(h) \/ LookUp(h) \/ OpenConversation(h) \/ Route(h)
  \/ AssistantThinks(h) \/ StoreQuestion(h) \/ StoreResponse(h)
  \/ RecordResponse(h) \/ DeliverReply(h)
  \/ CreateRun(h) \/ LaunchRun(h) \/ Decide(h) \/ CommitPayment(h)
  \/ Notify(h) \/ RecipientMissing(h) \/ CompleteRun(h)
  \/ StoreUserMessage(h) \/ StoreAssistantMessage(h)
  \/ MarkProcessed(h) \/ Answer(h)

Next ==
  \/ \E m \in Messages : Write(m) \/ Deliver(m) \/ DeliverAgain(m)
  \/ \E h \in Handlers : Step(h)
  \/ \E h \in Handlers : Raise(h) \/ CommitFails(h) \/ ErrorOutsideTry(h) \/ Crash(h)

Spec == Init /\ [][Next]_vars

\* A request that runs goes on, and Meta does not stop delivering a message it
\* has no 200 for.
Fairness ==
  /\ \A h \in Handlers : WF_vars(Step(h))
  /\ \A m \in Messages : WF_vars(Deliver(m))

FairSpec == Spec /\ Fairness

-----------------------------------------------------------------------------
(* Properties *)

\* A message is worked on a second time only because an earlier attempt ended
\* without its processed_messages row, or was still in progress; so the money
\* is recorded twice for no other reason. (receive_webhook: the duplicate test
\* at the start against the row written at the end.)
SecondWorkHasACause ==
  \A m \in Messages :
     /\ work[m] <= 1 + undone[m] + overlaps[m]
     /\ paidRuns[m] <= work[m]

\* A message counts as processed only when some attempt came to the end of the
\* workflow or of the assistant's turn, its history with it: "Only mark
\* processed after a successful run".
ProcessedMeansHandled ==
  \A m \in processed : handled[m] > 0 /\ answers[m] > 0

\* Meta is told 200 only when the message is processed, its error was caught, or
\* nobody knows the sender: no crash, retry or duplicate loses a message silently.
AcknowledgedForAReason ==
  \A m \in Messages :
     meta[m] = "acked" => m \in processed \cup caught \cup strangers

\* The assistant's turns that have stored the question of m and not delivered.
Turns(m) == {h \in Handlers : job[h] = m /\ Talking(h)}

\* What a conversation keeps of a message comes from runs that completed, from
\* turns of the assistant that were delivered, are in progress, or were cut off
\* between their history and their reply: a failed run never stores anything. No
\* answer is stored without its question, no attempt counts as handled without an
\* answer in the history, and none replies to its sender twice.
HistoryOnlyAfterSuccess ==
  \A m \in Messages :
     /\ answers[m] <= stored[m]
     /\ stored[m] <= runs[m]["COMPLETED"] + talks[m] + cut[m] + Cardinality(Turns(m))
     /\ handled[m] <= answers[m]
     /\ replied[m] <= work[m]

Open(m) == runs[m]["PENDING"] + runs[m]["RUNNING"]
LiveRuns(m) == {h \in Handlers : job[h] = m /\ RunOpen(h)}

\* Every run that is not COMPLETED or FAILED is being worked on, or was abandoned
\* by a crash or a failed commit: an exception alone always closes its run,
\* whichever of the two except branches gets there first.
OpenRunsAccounted ==
  \A m \in Messages : Open(m) = Cardinality(LiveRuns(m)) + abandoned[m]

\* Meta is answered with a 200 in the end, however many crashes and lost
\* answers, and then the message is processed unless an error was caught or
\* the sender unknown.
EventuallySettled ==
  \A m \in Messages :
     meta[m] = "owed" ~> /\ meta[m] = "acked"
                         /\ m \in processed \cup caught \cup strangers

-----------------------------------------------------------------------------
(* A claim of the documentation that the code does not keep *)

\* README: a ProcessedMessage row prevents re-processing a Meta retry.
\* docs/ARCHITECTURE.md: Meta's retry can safely reprocess a failed run.
PaidOnce == \A m \in Messages : paidRuns[m] <= 1

=============================================================================

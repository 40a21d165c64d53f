--------------------------- MODULE NotificationOutbox ---------------------------
(***************************************************************************)
(* The notification outbox and the job that drains it: rows written by the *)
(* reminder workflow, one drain job per API replica                        *)
(* (scheduler.process_notification_outbox, NotificationWorker), the        *)
(* PostgreSQL advisory lock that should let one of them run, the operators' *)
(* retry and discard endpoints, crashes, and time.                         *)
(*                                                                         *)
(* A repository call reads a row, then writes it by id with no test on     *)
(* what the row holds at that moment (`UPDATE ... WHERE id`), so a read and *)
(* the write that relies on it are two steps wherever another actor can    *)
(* come between.                                                           *)
(***************************************************************************)
EXTENDS Naturals, FiniteSets

CONSTANTS
  Rows,          \* ids of outbox rows
  Replicas,      \* API processes, each with its own scheduler thread
  Admins,        \* operator requests that can be in flight together
  NoRow, NoReplica,
  MaxRetries,    \* NOTIFICATION_MAX_RETRIES
  BatchSize,     \* NOTIFICATION_WORKER_BATCH_SIZE
  SendRetries,   \* WHATSAPP_MAX_RETRIES: further attempts inside one send()
  LockMayDrop,   \* the connection holding the advisory lock may be lost alone
  Punctual,      \* a live delivery always ends within the processing timeout
  MaxFaults,     \* bound: crashes, database errors and lock losses of the worker
  MaxRequeues    \* bound: operator retries of FAILED rows

ASSUME OutboxAssumption ==
  /\ NoRow \notin Rows
  /\ NoReplica \notin Replicas /\ Replicas # {}
  /\ Rows \cap (Replicas \cup Admins) = {} /\ Replicas \cap Admins = {}
  /\ MaxRetries \in Nat \ {0}
  /\ BatchSize \in Nat \ {0}
  /\ SendRetries \in Nat
  /\ LockMayDrop \in BOOLEAN /\ Punctual \in BOOLEAN
  /\ MaxFaults \in Nat /\ MaxRequeues \in Nat

VARIABLES
  \* notification_outbox
  status,     \* the row's status; "ABSENT" until it is created
  attempts,   \* attempt_count
  rank,       \* order of the times up to now (Places): 0 = none, higher = earlier
  stale,      \* updated_at is older than the processing timeout
  \* one drain job per replica
  holder,     \* who holds NOTIFICATION_WORKER_LOCK_ID
  pc,
  stuck,      \* rows older than the recovery's cutoff, then those its query found
  batch,      \* rank at fetch time of the rows still to process, 0 otherwise
  cur,        \* the row in hand
  seen,       \* attempt_count as the job's session last loaded it
  ok,         \* what send() returned
  \* operators
  admin,
  \* what the provider saw, and the bounds
  accepted,   \* deliveries the provider accepted
  lost,       \* accepted deliveries the outbox never learnt of
  tries,      \* failed attempts of the send() in progress
  calls,      \* send() calls since the row was created or last requeued
  faults, requeues

rowVars    == <<status, attempts, rank, stale>>
jobVars    == <<pc, stuck, batch, cur, seen, ok>>
ledgerVars == <<accepted, lost, tries, calls>>
bounds     == <<faults, requeues>>
vars       == <<rowVars, holder, jobVars, admin, ledgerVars, bounds>>

Statuses == {"ABSENT", "PENDING", "PROCESSING", "SENT", "FAILED", "DISCARDED"}
Steps    == {"idle", "recover", "requeue", "fetch", "pick", "send", "record"}
Idle     == [op |-> "none", row |-> NoRow]

\* A time is read before the commit that writes it. Besides the available_at of
\* a row, the order holds the transaction start of a row being inserted, the
\* `now` of a recovery in progress and that of an operator's retry.
Places == Rows \cup Replicas \cup Admins

TypeOK ==
  /\ status   \in [Rows -> Statuses]
  /\ attempts \in [Rows -> Nat]
  /\ rank     \in [Places -> Nat]
  /\ stale    \in [Rows -> BOOLEAN]
  /\ holder   \in Replicas \cup {NoReplica}
  /\ pc       \in [Replicas -> Steps]
  /\ stuck    \in [Replicas -> SUBSET Rows]
  /\ batch    \in [Replicas -> [Rows -> Nat]]
  /\ cur      \in [Replicas -> Rows \cup {NoRow}]
  /\ seen     \in [Replicas -> [Rows -> Nat]]
  /\ ok       \in [Replicas -> BOOLEAN]
  /\ admin    \in [Admins -> {Idle} \cup [op : {"retry", "discard"}, row : Rows]]
  /\ accepted \in [Rows -> Nat]
  /\ lost     \in [Rows -> Nat]
  /\ tries    \in [Replicas -> Nat]
  /\ calls    \in [Rows -> Nat]
  /\ faults \in Nat /\ requeues \in Nat

Init ==
  /\ status   = [m \in Rows |-> "ABSENT"]
  /\ attempts = [m \in Rows |-> 0]
  /\ rank     = [k \in Places |-> 0]
  /\ stale    = [m \in Rows |-> FALSE]
  /\ holder   = NoReplica
  /\ pc       = [w \in Replicas |-> "idle"]
  /\ stuck    = [w \in Replicas |-> {}]
  /\ batch    = [w \in Replicas |-> [m \in Rows |-> 0]]
  /\ cur      = [w \in Replicas |-> NoRow]
  /\ seen     = [w \in Replicas |-> [m \in Rows |-> 0]]
  /\ ok       = [w \in Replicas |-> FALSE]
  /\ admin    = [a \in Admins |-> Idle]
  /\ accepted = [m \in Rows |-> 0]
  /\ lost     = [m \in Rows |-> 0]
  /\ tries    = [w \in Replicas |-> 0]
  /\ calls    = [m \in Rows |-> 0]
  /\ faults = 0 /\ requeues = 0

-----------------------------------------------------------------------------
(* The order of available_at *)

DueRows == {m \in Rows : status[m] = "PENDING" /\ rank[m] > 0}

\* A mutation of JoinDue: available_at keeps its old value, before all others.
JoinDueUnmoved(ms) ==
  [k \in Places |-> IF k \in ms THEN 1 + Cardinality(DueRows) ELSE rank[k]]

\* The time is now, later than every other.
JoinDue(ms) ==
  [k \in Places |-> IF k \in ms THEN 1 ELSE IF rank[k] > 0 THEN rank[k] + 1 ELSE 0]

\* The place is given up; ranks close up behind it.
LeaveDue(m) ==
  [k \in Places |->
     CASE k = m -> 0
       [] k # m /\ rank[m] > 0 /\ rank[k] > rank[m]
            /\ (\A j \in Places \ {m} : rank[j] # rank[m]) -> rank[k] - 1
       [] OTHER -> rank[k]]

\* The commit: the rows are due since the time that s read.
DueSince(s, ms) ==
  [k \in Places |-> IF k \in ms THEN rank[s] ELSE IF k = s THEN 0 ELSE rank[k]]

\* ORDER BY available_at ASC LIMIT BatchSize over the due PENDING rows.
OldestDue(S) ==
  /\ S \subseteq DueRows
  /\ \/ S = DueRows /\ Cardinality(S) <= BatchSize
     \/ Cardinality(S) = BatchSize
  /\ \A m \in S, k \in DueRows \ S : rank[m] >= rank[k]

\* Some row has been in the batch longest; ties are broken either way.
NextInBatch(w, m) ==
  /\ batch[w][m] > 0
  /\ \A k \in Rows : batch[w][k] <= batch[w][m]

\* An update of the row by id, whatever it holds now.
Write(m, st, n) ==
  /\ status'   = [status EXCEPT ![m] = st]
  /\ attempts' = [attempts EXCEPT ![m] = n]
  /\ stale'    = [stale EXCEPT ![m] = FALSE]

-----------------------------------------------------------------------------
(* The reminder workflow *)

\* available_at defaults to the database's now(), the start of the transaction
\* that inserts the row ...
BeginInsert(m) ==
  /\ status[m] = "ABSENT" /\ rank[m] = 0
  /\ rank' = JoinDue({m})
  /\ UNCHANGED <<status, attempts, stale, holder, jobVars, admin, ledgerVars, bounds>>

\* ... and its commit, after which the row is PENDING and due.
CreatePending(m) ==
  /\ status[m] = "ABSENT" /\ rank[m] > 0
  /\ Write(m, "PENDING", 0)
  /\ UNCHANGED <<rank, holder, jobVars, admin, ledgerVars, bounds>>

-----------------------------------------------------------------------------
(* The drain job *)

InJob(w) == pc[w] # "idle"
InHand(m) == \E w \in Replicas : cur[w] = m

Goto(w, step) == pc' = [pc EXCEPT ![w] = step]

\* Leaving the job, by its end or by a crash. Unlocking through a connection
\* that no longer holds the lock frees nothing.
Leave(w) ==
  /\ Goto(w, "idle")
  /\ rank' = LeaveDue(w)
  /\ holder' = IF holder = w THEN NoReplica ELSE holder
  /\ stuck'  = [stuck EXCEPT ![w] = {}]
  /\ batch'  = [batch EXCEPT ![w] = [m \in Rows |-> 0]]
  /\ cur'    = [cur EXCEPT ![w] = NoRow]
  /\ seen'   = [seen EXCEPT ![w] = [m \in Rows |-> 0]]
  /\ ok'     = [ok EXCEPT ![w] = FALSE]

\* The cutoff and `now` of the recovery, taken before its query.
BeginRecovery(w) ==
  /\ Goto(w, "recover")
  /\ rank'  = JoinDue({w})
  /\ stuck' = [stuck EXCEPT ![w] = {m \in Rows : status[m] = "PROCESSING" /\ stale[m]}]

\* A mutation of Acquire: the answer of pg_try_advisory_lock is not looked at.
AcquireAlways(w) ==
  /\ pc[w] = "idle"
  /\ holder' = w
  /\ BeginRecovery(w)
  /\ UNCHANGED <<status, attempts, stale, batch, cur, seen, ok, admin, ledgerVars, bounds>>

\* The tick of one replica's scheduler. A replica that does not get the lock
\* skips the run, which changes nothing. max_instances=1: not while InJob(w).
Acquire(w) ==
  /\ pc[w] = "idle"
  /\ holder = NoReplica
  /\ holder' = w
  /\ BeginRecovery(w)
  /\ UNCHANGED <<status, attempts, stale, batch, cur, seen, ok, admin, ledgerVars, bounds>>

\* A mutation of RecoverScan: abandoned rows are not looked for.
RecoverScanNone(w) ==
  /\ pc[w] = "recover"
  /\ stuck' = [stuck EXCEPT ![w] = {}]
  /\ rank' = LeaveDue(w)
  /\ Goto(w, "fetch")
  /\ seen' = [seen EXCEPT ![w] = attempts]
  /\ UNCHANGED <<status, attempts, stale, holder, batch, cur, ok, admin, ledgerVars, bounds>>

\* recover_stuck_processing, the query: of the rows older than the cutoff,
\* those no late worker has written since ...
RecoverScan(w) ==
  /\ pc[w] = "recover"
  /\ LET found == {m \in stuck[w] : status[m] = "PROCESSING" /\ stale[m]}
     IN /\ stuck' = [stuck EXCEPT ![w] = found]
        /\ rank'  = IF found = {} THEN LeaveDue(w) ELSE rank
        /\ Goto(w, IF found = {} THEN "fetch" ELSE "requeue")
  /\ seen' = [seen EXCEPT ![w] = attempts]
  /\ UNCHANGED <<status, attempts, stale, holder, batch, cur, ok, admin, ledgerVars, bounds>>

\* A mutation of RecoverCommit: an abandoned attempt is not counted.
RecoverUncounted(w) ==
  /\ pc[w] = "requeue"
  /\ status' = [m \in Rows |-> IF m \in stuck[w] THEN "PENDING" ELSE status[m]]
  /\ stale'  = [m \in Rows |-> stale[m] /\ m \notin stuck[w]]
  /\ rank'   = DueSince(w, stuck[w])
  /\ stuck'  = [stuck EXCEPT ![w] = {}]
  /\ Goto(w, "fetch")
  /\ UNCHANGED <<attempts, holder, batch, cur, seen, ok, admin, ledgerVars, bounds>>

\* ... and the one commit that requeues every row it returned, due since the
\* `now` read before the query, the abandoned attempt counted against it. No
\* test of the retry budget.
RecoverCommit(w) ==
  /\ pc[w] = "requeue"
  /\ status'   = [m \in Rows |-> IF m \in stuck[w] THEN "PENDING" ELSE status[m]]
  /\ attempts' = [m \in Rows |-> IF m \in stuck[w] THEN seen[w][m] + 1 ELSE attempts[m]]
  /\ stale'    = [m \in Rows |-> stale[m] /\ m \notin stuck[w]]
  /\ rank'     = DueSince(w, stuck[w])
  /\ stuck'    = [stuck EXCEPT ![w] = {}]
  /\ Goto(w, "fetch")
  /\ UNCHANGED <<holder, batch, cur, seen, ok, admin, ledgerVars, bounds>>

\* get_pending: the batch is a snapshot; the rows may change before their turn.
FetchBatch(w) ==
  /\ pc[w] = "fetch"
  /\ \E S \in SUBSET DueRows :
       /\ OldestDue(S)
       /\ batch' = [batch EXCEPT ![w] = [m \in Rows |-> IF m \in S THEN rank[m] ELSE 0]]
  /\ Goto(w, "pick")
  /\ UNCHANGED <<rowVars, holder, stuck, cur, seen, ok, admin, ledgerVars, bounds>>

\* mark_processing writes PROCESSING whatever the row's status has become, then
\* refreshes the object. A row the session finds PROCESSING already is left
\* as it is, updated_at included, unless the object was loaded before that.
MarkProcessing(w) ==
  /\ pc[w] = "pick"
  /\ \E m \in Rows :
       /\ NextInBatch(w, m)
       /\ status' = [status EXCEPT ![m] = "PROCESSING"]
       /\ \E touched \in BOOLEAN :
            /\ status[m] # "PROCESSING" => touched
            /\ stale' = [stale EXCEPT ![m] = @ /\ ~touched]
       /\ rank'  = LeaveDue(m)
       /\ batch' = [batch EXCEPT ![w][m] = 0]
       /\ cur'   = [cur EXCEPT ![w] = m]
       /\ seen'  = [seen EXCEPT ![w][m] = attempts[m]]
  /\ Goto(w, "send")
  /\ UNCHANGED <<attempts, holder, stuck, ok, admin, ledgerVars, bounds>>

\* One HTTP request: the provider may take the message (`taken`) and the answer
\* still be lost or an error, so a False answer does not mean "not delivered".
Attempt(m, taken, answer) ==
  /\ answer => taken
  /\ accepted' = [accepted EXCEPT ![m] = IF taken THEN @ + 1 ELSE @]
  /\ lost'     = [lost EXCEPT ![m] = IF taken /\ ~answer THEN @ + 1 ELSE @]

\* A timeout, a connection error, 429 or 5xx: send() backs off and tries again,
\* whether or not the provider took the message.
RetryAttempt(w) ==
  /\ pc[w] = "send"
  /\ tries[w] < SendRetries
  /\ \E taken \in BOOLEAN : Attempt(cur[w], taken, FALSE)
  /\ tries' = [tries EXCEPT ![w] = @ + 1]
  /\ UNCHANGED <<rowVars, holder, jobVars, admin, calls, bounds>>

\* The last attempt of notification_service.send and what it returns: a success,
\* an error that is not retried, or the retries are spent.
Send(w) ==
  /\ pc[w] = "send"
  /\ \E taken, answer \in BOOLEAN :
       /\ Attempt(cur[w], taken, answer)
       /\ ok' = [ok EXCEPT ![w] = answer]
  /\ tries' = [tries EXCEPT ![w] = 0]
  /\ calls' = [calls EXCEPT ![cur[w]] = @ + 1]
  /\ Goto(w, "record")
  /\ UNCHANGED <<rowVars, holder, stuck, batch, cur, seen, admin, bounds>>

NextMessage(w) ==
  /\ Goto(w, "pick")
  /\ cur' = [cur EXCEPT ![w] = NoRow]
  /\ ok'  = [ok EXCEPT ![w] = FALSE]

\* A mutation of MarkSent: the answer of send() is not looked at.
MarkSentAlways(w) ==
  /\ pc[w] = "record"
  /\ Write(cur[w], "SENT", attempts[cur[w]])
  /\ rank' = LeaveDue(cur[w])
  /\ NextMessage(w)
  /\ UNCHANGED <<holder, stuck, batch, seen, admin, ledgerVars, bounds>>

\* A mutation of MarkSent: a success falls through to the retry.
MarkSentRetried(w) ==
  /\ pc[w] = "record" /\ ok[w]
  /\ Write(cur[w], "PENDING", seen[w][cur[w]] + 1)
  /\ rank' = LeaveDue(cur[w])
  /\ NextMessage(w)
  /\ UNCHANGED <<holder, stuck, batch, seen, admin, ledgerVars, bounds>>

MarkSent(w) ==
  /\ pc[w] = "record" /\ ok[w]
  /\ Write(cur[w], "SENT", attempts[cur[w]])
  /\ rank' = LeaveDue(cur[w])
  /\ NextMessage(w)
  /\ UNCHANGED <<holder, stuck, batch, seen, admin, ledgerVars, bounds>>

AttemptsMade(w) == seen[w][cur[w]] + 1

\* The budget is spent. attempt_count is not written.
MarkFailed(w) ==
  /\ pc[w] = "record" /\ ~ok[w]
  /\ AttemptsMade(w) >= MaxRetries
  /\ Write(cur[w], "FAILED", attempts[cur[w]])
  /\ rank' = LeaveDue(cur[w])
  /\ NextMessage(w)
  /\ UNCHANGED <<holder, stuck, batch, seen, admin, ledgerVars, bounds>>

\* Back to PENDING with available_at in the future.
IncrementRetry(w) ==
  /\ pc[w] = "record" /\ ~ok[w]
  /\ AttemptsMade(w) < MaxRetries
  /\ Write(cur[w], "PENDING", AttemptsMade(w))
  /\ rank' = LeaveDue(cur[w])
  /\ NextMessage(w)
  /\ UNCHANGED <<holder, stuck, batch, seen, admin, ledgerVars, bounds>>

\* A mutation of EndOfBatch: the run drains batch after batch.
EndOfBatchLoop(w) ==
  /\ pc[w] = "pick"
  /\ \A m \in Rows : batch[w][m] = 0
  /\ Goto(w, "fetch")
  /\ UNCHANGED <<rowVars, holder, stuck, batch, cur, seen, ok, admin, ledgerVars, bounds>>

EndOfBatch(w) ==
  /\ pc[w] = "pick"
  /\ \A m \in Rows : batch[w][m] = 0
  /\ Leave(w)
  /\ UNCHANGED <<status, attempts, stale, admin, ledgerVars, bounds>>

-----------------------------------------------------------------------------
(* Faults *)

\* What the provider took and the worker will now never record.
LoseOutcome(w) ==
  /\ lost'  = [m \in Rows |-> IF m = cur[w] /\ ok[w] THEN lost[m] + 1 ELSE lost[m]]
  /\ tries' = [tries EXCEPT ![w] = 0]

Fault == faults < MaxFaults /\ faults' = faults + 1

\* The connection under the lock goes away; the job, on its other connection,
\* does not notice.
LockDrop ==
  /\ LockMayDrop
  /\ holder # NoReplica
  /\ Fault
  /\ holder' = NoReplica
  /\ UNCHANGED <<rowVars, jobVars, admin, ledgerVars, requeues>>

\* The process dies and restarts with an idle scheduler; the server frees the
\* lock of its closed connection.
Crash(w) ==
  /\ InJob(w)
  /\ Fault
  /\ LoseOutcome(w)
  /\ Leave(w)
  /\ UNCHANGED <<status, attempts, stale, admin, accepted, calls, requeues>>

\* An exception in recovery or in the fetch ends the run; `finally` unlocks.
JobError(w) ==
  /\ pc[w] \in {"recover", "requeue", "fetch"}
  /\ Fault
  /\ Leave(w)
  /\ UNCHANGED <<status, attempts, stale, admin, ledgerVars, requeues>>

\* An exception in _process_one abandons the row and the batch goes on.
MessageError(w) ==
  /\ Fault
  /\ \/ /\ pc[w] = "pick"
        /\ \E m \in Rows : NextInBatch(w, m) /\ batch' = [batch EXCEPT ![w][m] = 0]
     \/ pc[w] \in {"send", "record"} /\ UNCHANGED batch
  /\ LoseOutcome(w)
  /\ NextMessage(w)
  /\ UNCHANGED <<rowVars, holder, stuck, seen, admin, accepted, calls, requeues>>

-----------------------------------------------------------------------------
(* Operators: POST /admin/notifications/{id}/retry and /discard *)

\* The decision taken on the row as read; a retry reads its `now` there too.
Decide(a, o, m) ==
  /\ admin' = [admin EXCEPT ![a] = [op |-> o, row |-> m]]
  /\ \/ o = "retry" /\ requeues' = requeues + 1 /\ rank' = JoinDue({a})
     \/ o # "retry" /\ UNCHANGED <<requeues, rank>>

\* A mutation of AdminOpen: any row may be requeued or discarded.
AdminOpenAny(a) ==
  /\ admin[a] = Idle
  /\ \E m \in Rows, o \in {"retry", "discard"} :
       /\ status[m] # "ABSENT"
       /\ o = "retry" => requeues < MaxRequeues
       /\ Decide(a, o, m)
  /\ UNCHANGED <<status, attempts, stale, holder, jobVars, ledgerVars, faults>>

\* The request reads the row and finds it FAILED ...
AdminOpen(a) ==
  /\ admin[a] = Idle
  /\ \E m \in Rows, o \in {"retry", "discard"} :
       /\ status[m] = "FAILED"
       /\ o = "retry" => requeues < MaxRequeues
       /\ Decide(a, o, m)
  /\ UNCHANGED <<status, attempts, stale, holder, jobVars, ledgerVars, faults>>

\* ... and commits what it decided, whatever the row holds by then.
AdminRetry(a) ==
  LET m == admin[a].row
  IN /\ admin[a].op = "retry"
     /\ Write(m, "PENDING", 0)
     /\ rank'  = DueSince(a, {m})
     /\ admin' = [admin EXCEPT ![a] = Idle]
     /\ calls' = [calls EXCEPT ![m] = 0]
     /\ UNCHANGED <<holder, jobVars, accepted, lost, tries, bounds>>

AdminDiscard(a) ==
  LET m == admin[a].row
  IN /\ admin[a].op = "discard"
     /\ Write(m, "DISCARDED", attempts[m])
     /\ rank'  = LeaveDue(m)
     /\ admin' = [admin EXCEPT ![a] = Idle]
     /\ UNCHANGED <<holder, jobVars, ledgerVars, bounds>>

-----------------------------------------------------------------------------
(* Time *)

\* A backoff ends: available_at <= now.
BackoffElapses(m) ==
  /\ status[m] = "PENDING" /\ rank[m] = 0
  /\ rank' = JoinDue({m})
  /\ UNCHANGED <<status, attempts, stale, holder, jobVars, admin, ledgerVars, bounds>>

\* The processing timeout passes. A delivery lasts at most WHATSAPP_MAX_RETRIES
\* + 1 requests of WHATSAPP_TIMEOUT_SECONDS and their backoffs, under a minute
\* by default, against 15 minutes: Punctual.
TimeoutElapses(m) ==
  /\ status[m] = "PROCESSING" /\ ~stale[m]
  /\ Punctual => ~InHand(m)
  /\ stale' = [stale EXCEPT ![m] = TRUE]
  /\ UNCHANGED <<status, attempts, rank, holder, jobVars, admin, ledgerVars, bounds>>

-----------------------------------------------------------------------------
JobStep(w) ==
  \/ RecoverScan(w) \/ RecoverCommit(w) \/ FetchBatch(w)
  \/ MarkProcessing(w) \/ RetryAttempt(w) \/ Send(w)
  \/ MarkSent(w) \/ MarkFailed(w) \/ IncrementRetry(w)
  \/ EndOfBatch(w)

Environment ==
  \/ LockDrop
  \/ \E w \in Replicas : Crash(w) \/ JobError(w) \/ MessageError(w)
  \/ \E a \in Admins : AdminOpen(a) \/ AdminRetry(a) \/ AdminDiscard(a)

Next ==
  \/ \E m \in Rows :
       BeginInsert(m) \/ CreatePending(m) \/ BackoffElapses(m) \/ TimeoutElapses(m)
  \/ \E w \in Replicas : Acquire(w) \/ JobStep(w)
  \/ Environment

Spec == Init /\ [][Next]_vars

\* Each scheduler keeps ticking (interval trigger), a run that has started goes
\* on unless it fails, an operator's commit goes through, and time passes.
\* Nothing obliges an operator to act, a row to be created or a fault to occur.
Fairness ==
  /\ WF_vars(\E w \in Replicas : Acquire(w))
  /\ \A w \in Replicas : WF_vars(JobStep(w))
  /\ \A a \in Admins : WF_vars(AdminRetry(a) \/ AdminDiscard(a))
  /\ \A m \in Rows : WF_vars(BackoffElapses(m)) /\ WF_vars(TimeoutElapses(m))

FairSpec == Spec /\ Fairness

-----------------------------------------------------------------------------
(* Properties *)

Delivering(w, m) == cur[w] = m /\ pc[w] \in {"send", "record"}

\* A row a worker is delivering is PROCESSING, counts as fresh, and no other
\* worker has it in hand or in its batch, nor is about to requeue it: what the
\* lock, the recovery timeout and the batch snapshot achieve together
\* (process_notification_outbox, NotificationWorker.process_batch).
DeliveredByOne ==
  \A w \in Replicas, m \in Rows :
     Delivering(w, m) =>
       /\ status[m] = "PROCESSING" /\ ~stale[m]
       /\ \A v \in Replicas \ {w} :
            cur[v] # m /\ batch[v][m] = 0 /\ m \notin stuck[v]

\* Every delivery the provider took is either the one recorded as SENT (or
\* about to be), or one whose answer was lost. So a customer gets a message
\* twice only after a lost answer or a fault, never through the retry,
\* recovery, batch or operator logic itself.
DuplicatesHaveACause ==
  \A m \in Rows :
     accepted[m] = lost[m] + IF \/ status[m] = "SENT"
                                \/ \E w \in Replicas : Delivering(w, m) /\ ok[w]
                             THEN 1 ELSE 0

\* However a row came back to PENDING (retry, recovery after a crash, operator),
\* no send() call escapes attempt_count by more than the one in progress or the
\* last one; each fault costs at most one call over NOTIFICATION_MAX_RETRIES.
RetryBudget ==
  \A m \in Rows :
     /\ calls[m] <= attempts[m] + (IF status[m] = "PENDING" THEN 0 ELSE 1)
     /\ calls[m] <= MaxRetries + faults

\* SENT is the end of a row; so is DISCARDED as long as operators act one at a
\* time. No late write of a worker, recovery or operator brings it back.
SettledForGood ==
  [][\A m \in Rows : status[m] \in {"SENT", "DISCARDED"} => status'[m] = status[m]]_vars

Ahead(m) == {k \in DueRows : rank[k] > rank[m]}

\* Whoever has read the time that k will be due since, and not committed it.
ReadFor(k) ==
  {s \in Places :
     \/ s = k /\ status[k] = "ABSENT"
     \/ s \in Replicas /\ k \in stuck[s]
     \/ s \in Admins /\ admin[s] = [op |-> "retry", row |-> k]}

\* A due row that stays due is not passed by a row that rejoins the queue: a
\* backoff that ends, a recovered row, an operator's requeue and a new row all
\* go behind it, so the batch limit cannot starve it. The one exception is a
\* row whose insertion, recovery or requeue had read its time before this row
\* became due (notification_outbox_repository.py:102, :114, :139).
NoQueueJumping ==
  [][\A m \in Rows :
       m \in DueRows /\ m \in DueRows' =>
         \A k \in Ahead(m)' \ Ahead(m) : \E s \in ReadFor(k) : rank[s] > rank[m]]_vars

\* Every message is settled: with finitely many faults and operator requeues,
\* a row does not stay PENDING or PROCESSING for ever, through backoffs, crashes
\* with the lock held, abandoned rows and a batch limit.
EventuallySettled ==
  \A m \in Rows :
     status[m] \in {"PENDING", "PROCESSING"}
       ~> status[m] \in {"SENT", "FAILED", "DISCARDED"}

\* The lock of a run that ended, failed or crashed is free again for the next.
LockFreedAgain == \A w \in Replicas : holder = w ~> holder # w

Phase(m) ==
  CASE status[m] = "ABSENT"                    -> "none"
    [] status[m] \in {"PENDING", "PROCESSING"} -> "owed"
    [] status[m] = "SENT"                      -> "done"
    [] status[m] = "FAILED"                    -> "dead"
    [] OTHER                                   -> "dropped"

Promise == INSTANCE OutboxPromise WITH
             Messages <- Rows,
             phase <- [m \in Rows |-> Phase(m)],
             delivered <- accepted

\* The outbox keeps the promise of OutboxPromise: at-least-once delivery, and
\* no status change but those (the lifecycle of the NotificationOutbox model).
KeepsPromise == Promise!Spec

=============================================================================

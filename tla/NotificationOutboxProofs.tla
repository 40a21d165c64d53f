------------------------- MODULE NotificationOutboxProofs -------------------------
(***************************************************************************)
(* Proofs about NotificationOutbox, for any sets of rows, replicas and      *)
(* operators and any retry budget and batch size.                          *)
(***************************************************************************)
EXTENDS NotificationOutbox, TLAPS

(***************************************************************************)
(* Type correctness: in every state reachable under any disturbance, ranks *)
(* and counters are natural numbers and statuses are those of the model.   *)
(***************************************************************************)

\* A row, replica or operator is a place of its own.
LEMMA PlacesApart ==
  /\ Rows \subseteq Places /\ Replicas \subseteq Places /\ Admins \subseteq Places
  /\ \A w \in Replicas : w \notin Rows /\ w \notin Admins
  /\ \A a \in Admins : a \notin Rows
BY OutboxAssumption, Zenon DEF Places

\* A time that is read gets a rank.
LEMMA JoinDueType ==
  ASSUME TypeOK, NEW ms \in SUBSET Places
  PROVE  JoinDue(ms) \in [Places -> Nat]
BY DEF TypeOK, JoinDue

\* The commit that writes a time keeps the ranks numbers.
LEMMA DueSinceType ==
  ASSUME TypeOK, NEW s \in Places, NEW ms
  PROVE  DueSince(s, ms) \in [Places -> Nat]
BY DEF TypeOK, DueSince

\* When a place is given up the ranks stay numbers.
LEMMA LeaveDueType ==
  ASSUME TypeOK, NEW m \in Places
  PROVE  LeaveDue(m) \in [Places -> Nat]
<1>1. SUFFICES ASSUME NEW k \in Places
               PROVE  LeaveDue(m)[k] \in Nat
  BY DEF LeaveDue
<1>2. rank[m] \in Nat /\ rank[k] \in Nat
  BY DEF TypeOK
<1>3. CASE k = m
  BY <1>3 DEF LeaveDue
<1>4. CASE k # m /\ rank[m] > 0 /\ rank[k] > rank[m]
            /\ (\A j \in Places \ {m} : rank[j] # rank[m])
  <2>1. LeaveDue(m)[k] = rank[k] - 1
    BY <1>4 DEF LeaveDue
  <2>2. rank[k] - 1 \in Nat
    BY <1>2, <1>4
  <2>. QED  BY <2>1, <2>2
<1>5. CASE k # m /\ ~(rank[m] > 0 /\ rank[k] > rank[m]
            /\ (\A j \in Places \ {m} : rank[j] # rank[m]))
  <2>1. LeaveDue(m)[k] = rank[k]
    BY <1>5 DEF LeaveDue
  <2>. QED  BY <2>1, <1>2
<1>. QED  BY <1>3, <1>4, <1>5

\* A lost outcome is counted.
LEMMA LoseOutcomeType ==
  ASSUME TypeOK, NEW w \in Replicas, LoseOutcome(w)
  PROVE  lost' \in [Rows -> Nat] /\ tries' \in [Replicas -> Nat]
<1>1. tries' \in [Replicas -> Nat]
  BY DEF TypeOK, LoseOutcome
<1>2. \A m \in Rows : lost[m] \in Nat /\ lost[m] + 1 \in Nat
  BY DEF TypeOK
<1>3. lost' = [m \in Rows |-> IF m = cur[w] /\ ok[w] THEN lost[m] + 1 ELSE lost[m]]
  BY DEF LoseOutcome
<1>4. lost' \in [Rows -> Nat]
  BY <1>2, <1>3, Zenon
<1>. QED  BY <1>1, <1>4

\* A request to the provider keeps the types.
LEMMA AttemptType ==
  ASSUME TypeOK, NEW m \in Rows, NEW taken \in BOOLEAN, NEW answer \in BOOLEAN,
         Attempt(m, taken, answer)
  PROVE  accepted' \in [Rows -> Nat] /\ lost' \in [Rows -> Nat]
BY DEF TypeOK, Attempt

\* A worker that is sending or recording has a row in hand.
HasRow == \A w \in Replicas : pc[w] \in {"send", "record"} => cur[w] \in Rows

TypeInv == TypeOK /\ HasRow

\* The types hold at first.
LEMMA TypeInvInit == Init => TypeInv
BY OutboxAssumption DEF Init, TypeInv, TypeOK, HasRow, Statuses, Steps, Idle

\* Every step keeps the types.
LEMMA TypeInvNext == TypeInv /\ [Next]_vars => TypeInv'
<1>. SUFFICES ASSUME TypeInv, [Next]_vars
              PROVE  TypeInv'
  OBVIOUS
<1>. USE DEF TypeInv, TypeOK, HasRow, Statuses, Steps, rowVars, jobVars, ledgerVars, bounds
<1>1. ASSUME NEW m \in Rows, CreatePending(m)
      PROVE  TypeInv'
  BY <1>1 DEF CreatePending, Write
<1>23. ASSUME NEW m \in Rows, BeginInsert(m)
       PROVE  TypeInv'
  <2>1. rank' \in [Places -> Nat]
    BY <1>23, JoinDueType, PlacesApart DEF BeginInsert
  <2>. QED  BY <1>23, <2>1 DEF BeginInsert
<1>2. ASSUME NEW m \in Rows, BackoffElapses(m)
      PROVE  TypeInv'
  <2>1. rank' \in [Places -> Nat]
    BY <1>2, JoinDueType, PlacesApart DEF BackoffElapses
  <2>. QED  BY <1>2, <2>1 DEF BackoffElapses
<1>3. ASSUME NEW m \in Rows, TimeoutElapses(m)
      PROVE  TypeInv'
  BY <1>3 DEF TimeoutElapses
<1>4. ASSUME NEW w \in Replicas, Acquire(w)
      PROVE  TypeInv'
  <2>1. rank' \in [Places -> Nat]
    <3>1. {w} \in SUBSET Places /\ rank' = JoinDue({w})
      BY <1>4, PlacesApart DEF Acquire, BeginRecovery
    <3>. QED  BY <3>1, JoinDueType
  <2>2. stuck' \in [Replicas -> SUBSET Rows]
    BY <1>4 DEF Acquire, BeginRecovery
  <2>. QED  BY <1>4, <2>1, <2>2 DEF Acquire, BeginRecovery, Goto
<1>5. ASSUME NEW w \in Replicas, RecoverScan(w)
      PROVE  TypeInv'
  <2>1. rank' \in [Places -> Nat]
    BY <1>5, LeaveDueType, PlacesApart DEF RecoverScan
  <2>2. stuck' \in [Replicas -> SUBSET Rows]
    BY <1>5 DEF RecoverScan
  <2>. QED  BY <1>5, <2>1, <2>2 DEF RecoverScan, Goto
<1>6. ASSUME NEW w \in Replicas, RecoverCommit(w)
      PROVE  TypeInv'
  <2>1. rank' \in [Places -> Nat]
    BY <1>6, DueSinceType, PlacesApart DEF RecoverCommit
  <2>2. status' \in [Rows -> Statuses] /\ attempts' \in [Rows -> Nat] /\ stale' \in [Rows -> BOOLEAN]
    BY <1>6 DEF RecoverCommit
  <2>. QED  BY <1>6, <2>1, <2>2 DEF RecoverCommit, Goto
<1>7. ASSUME NEW w \in Replicas, FetchBatch(w)
      PROVE  TypeInv'
  <2>1. PICK S \in SUBSET DueRows :
          batch' = [batch EXCEPT ![w] = [m \in Rows |-> IF m \in S THEN rank[m] ELSE 0]]
    BY <1>7 DEF FetchBatch
  <2>2. batch' \in [Replicas -> [Rows -> Nat]]
    BY <2>1, PlacesApart
  <2>. QED  BY <1>7, <2>2 DEF FetchBatch, Goto
<1>8. ASSUME NEW w \in Replicas, MarkProcessing(w)
      PROVE  TypeInv'
  <2>1. PICK m \in Rows :
          /\ status' = [status EXCEPT ![m] = "PROCESSING"]
          /\ \E touched \in BOOLEAN : stale' = [stale EXCEPT ![m] = @ /\ ~touched]
          /\ rank'  = LeaveDue(m)
          /\ batch' = [batch EXCEPT ![w][m] = 0]
          /\ cur'   = [cur EXCEPT ![w] = m]
          /\ seen'  = [seen EXCEPT ![w][m] = attempts[m]]
    BY <1>8 DEF MarkProcessing
  <2>2. rank' \in [Places -> Nat]
    BY <2>1, LeaveDueType, PlacesApart
  <2>3. stale' \in [Rows -> BOOLEAN]
    BY <2>1
  <2>4. batch' \in [Replicas -> [Rows -> Nat]] /\ seen' \in [Replicas -> [Rows -> Nat]]
    BY <2>1
  <2>. QED  BY <1>8, <2>1, <2>2, <2>3, <2>4 DEF MarkProcessing, Goto
<1>9. ASSUME NEW w \in Replicas, Send(w)
      PROVE  TypeInv'
  <2>1. cur[w] \in Rows
    BY <1>9 DEF Send
  <2>2. accepted' \in [Rows -> Nat] /\ lost' \in [Rows -> Nat]
    BY <1>9, <2>1, AttemptType DEF Send
  <2>3. ok' \in [Replicas -> BOOLEAN]
    BY <1>9 DEF Send
  <2>4. /\ tries' \in [Replicas -> Nat] /\ calls' \in [Rows -> Nat]
        /\ pc' = [pc EXCEPT ![w] = "record"]
        /\ UNCHANGED <<rowVars, holder, stuck, batch, cur, seen, admin, bounds>>
    BY <1>9, <2>1 DEF Send, Goto
  <2>. QED  BY <2>1, <2>2, <2>3, <2>4
<1>10. ASSUME NEW w \in Replicas, RetryAttempt(w)
       PROVE  TypeInv'
  <2>1. cur[w] \in Rows
    BY <1>10 DEF RetryAttempt
  <2>2. accepted' \in [Rows -> Nat] /\ lost' \in [Rows -> Nat]
    BY <1>10, <2>1, AttemptType DEF RetryAttempt
  <2>. QED  BY <1>10, <2>2 DEF RetryAttempt
<1>11. ASSUME NEW w \in Replicas, MarkSent(w)
       PROVE  TypeInv'
  <2>1. cur[w] \in Rows
    BY <1>11 DEF MarkSent
  <2>2. rank' \in [Places -> Nat]
    BY <1>11, <2>1, LeaveDueType, PlacesApart DEF MarkSent
  <2>. QED  BY <1>11, <2>1, <2>2 DEF MarkSent, Write, NextMessage, Goto
<1>12. ASSUME NEW w \in Replicas, MarkFailed(w)
       PROVE  TypeInv'
  <2>1. cur[w] \in Rows
    BY <1>12 DEF MarkFailed
  <2>2. rank' \in [Places -> Nat]
    BY <1>12, <2>1, LeaveDueType, PlacesApart DEF MarkFailed
  <2>. QED  BY <1>12, <2>1, <2>2 DEF MarkFailed, Write, NextMessage, Goto
<1>13. ASSUME NEW w \in Replicas, IncrementRetry(w)
       PROVE  TypeInv'
  <2>1. cur[w] \in Rows
    BY <1>13 DEF IncrementRetry
  <2>2. rank' \in [Places -> Nat]
    BY <1>13, <2>1, LeaveDueType, PlacesApart DEF IncrementRetry
  <2>3. AttemptsMade(w) \in Nat
    BY <2>1 DEF AttemptsMade
  <2>. QED  BY <1>13, <2>1, <2>2, <2>3 DEF IncrementRetry, Write, NextMessage, Goto
<1>14. ASSUME NEW w \in Replicas, EndOfBatch(w)
       PROVE  TypeInv'
  BY <1>14, LeaveDueType, PlacesApart DEF EndOfBatch, Leave, Goto
<1>15. ASSUME NEW w \in Replicas, Crash(w)
       PROVE  TypeInv'
  BY <1>15, LoseOutcomeType, LeaveDueType, PlacesApart DEF Crash, Leave, Goto, Fault
<1>16. ASSUME NEW w \in Replicas, JobError(w)
       PROVE  TypeInv'
  BY <1>16, LeaveDueType, PlacesApart DEF JobError, Leave, Goto, Fault
<1>17. ASSUME NEW w \in Replicas, MessageError(w)
       PROVE  TypeInv'
  <2>1. lost' \in [Rows -> Nat] /\ tries' \in [Replicas -> Nat]
    BY <1>17, LoseOutcomeType DEF MessageError
  <2>2. batch' \in [Replicas -> [Rows -> Nat]]
    <3>1. CASE \E m \in Rows : batch' = [batch EXCEPT ![w][m] = 0]
      BY <3>1
    <3>2. CASE UNCHANGED batch
      BY <3>2
    <3>. QED  BY <1>17, <3>1, <3>2 DEF MessageError
  <2>3. pc' = [pc EXCEPT ![w] = "pick"] /\ cur' = [cur EXCEPT ![w] = NoRow]
        /\ ok' = [ok EXCEPT ![w] = FALSE] /\ faults' = faults + 1
    BY <1>17 DEF MessageError, NextMessage, Goto, Fault
  <2>4. UNCHANGED <<rowVars, holder, stuck, seen, admin, accepted, calls, requeues>>
    BY <1>17 DEF MessageError
  <2>. QED  BY <2>1, <2>2, <2>3, <2>4
<1>18. CASE LockDrop
  BY <1>18 DEF LockDrop, Fault
<1>19. ASSUME NEW a \in Admins, AdminOpen(a)
       PROVE  TypeInv'
  <2>1. rank' \in [Places -> Nat] /\ requeues' \in Nat
    BY <1>19, JoinDueType, PlacesApart DEF AdminOpen, Decide
  <2>2. admin' \in [Admins -> {Idle} \cup [op : {"retry", "discard"}, row : Rows]]
    BY <1>19 DEF AdminOpen, Decide
  <2>. QED  BY <1>19, <2>1, <2>2 DEF AdminOpen
<1>20. ASSUME NEW a \in Admins, AdminRetry(a)
       PROVE  TypeInv'
  <2>1. admin[a].row \in Rows
    BY <1>20 DEF AdminRetry, Idle
  <2>2. rank' \in [Places -> Nat]
    BY <1>20, DueSinceType, PlacesApart DEF AdminRetry
  <2>3. admin' \in [Admins -> {Idle} \cup [op : {"retry", "discard"}, row : Rows]]
    BY <1>20 DEF AdminRetry
  <2>. QED  BY <1>20, <2>1, <2>2, <2>3 DEF AdminRetry, Write
<1>21. ASSUME NEW a \in Admins, AdminDiscard(a)
       PROVE  TypeInv'
  <2>1. admin[a].row \in Rows
    BY <1>21 DEF AdminDiscard, Idle
  <2>2. rank' \in [Places -> Nat]
    BY <1>21, <2>1, LeaveDueType, PlacesApart DEF AdminDiscard
  <2>3. admin' \in [Admins -> {Idle} \cup [op : {"retry", "discard"}, row : Rows]]
    BY <1>21 DEF AdminDiscard
  <2>. QED  BY <1>21, <2>1, <2>2, <2>3 DEF AdminDiscard, Write
<1>22. CASE UNCHANGED vars
  BY <1>22 DEF vars
<1>. QED
  BY <1>1, <1>2, <1>3, <1>4, <1>5, <1>6, <1>7, <1>8, <1>9, <1>11, <1>14, <1>17, <1>18,
     <1>19, <1>20, <1>22, <1>12, <1>13, <1>15, <1>16, <1>21, <1>10,
     <1>23 DEF Next, JobStep, Environment

\* The type invariant, whatever the lock, the clock and the operators do.
THEOREM TypeCorrect == Spec => []TypeOK
<1>1. Spec => []TypeInv
  BY TypeInvInit, TypeInvNext, PTL DEF Spec
<1>2. TypeInv => TypeOK
  BY DEF TypeInv
<1>. QED  BY <1>1, <1>2, PTL

-----------------------------------------------------------------------------
(***************************************************************************)
(* With the lock connection safe, deliveries shorter than the processing    *)
(* timeout and operators acting one at a time, a row is written by one      *)
(* actor at a time. This is the inductive invariant behind every result     *)
(* below: DeliveredByOne alone is not inductive, since it says nothing of   *)
(* the rows waiting in a batch, the abandoned ones and those an operator    *)
(* has read.                                                               *)
(***************************************************************************)

Undisturbed ==
  /\ ~LockMayDrop
  /\ Punctual
  /\ \A a, b \in Admins : a = b

\* The job runs exactly while its replica holds the lock.
LockInv == \A w \in Replicas : InJob(w) <=> holder = w

\* A row is in hand exactly while it is sent and its outcome recorded.
HandInv ==
  \A w \in Replicas :
     /\ cur[w] # NoRow <=> pc[w] \in {"send", "record"}
     /\ ok[w] => pc[w] = "record"
     /\ stuck[w] # {} => pc[w] \in {"recover", "requeue"}
     /\ \A m \in Rows : batch[w][m] > 0 => pc[w] \in {"pick", "send", "record"}

\* What each actor knows of a row still holds when it writes.
ViewInv ==
  /\ \A m \in Rows : stale[m] => status[m] = "PROCESSING"
  /\ \A w \in Replicas, m \in Rows :
       /\ cur[w] = m => status[m] = "PROCESSING" /\ ~stale[m]
       /\ batch[w][m] > 0 => status[m] = "PENDING"
       /\ m \in stuck[w] => status[m] = "PROCESSING" /\ stale[m]
  /\ \A a \in Admins : admin[a] # Idle => status[admin[a].row] = "FAILED"

OneWriterInv == TypeInv /\ LockInv /\ HandInv /\ ViewInv

\* At first nobody holds the lock, and nothing is being delivered.
LEMMA OneWriterInit == Init => OneWriterInv
BY TypeInvInit, OutboxAssumption
   DEF Init, OneWriterInv, LockInv, HandInv, ViewInv, InJob, Idle

\* Every step leaves a row in delivery to one writer.
LEMMA OneWriterNext ==
  ASSUME Undisturbed
  PROVE  OneWriterInv /\ [Next]_vars => OneWriterInv'
<1>. SUFFICES ASSUME OneWriterInv, [Next]_vars
              PROVE  LockInv' /\ HandInv' /\ ViewInv'
  BY TypeInvNext DEF OneWriterInv
<1>. USE OutboxAssumption
     DEF OneWriterInv, TypeInv, TypeOK, HasRow, LockInv, HandInv, ViewInv, InJob, Idle
<1>1. ASSUME NEW m \in Rows, CreatePending(m)
      PROVE  LockInv' /\ HandInv' /\ ViewInv'
  <2>1. LockInv'
    BY <1>1 DEF CreatePending, Write, rowVars, jobVars
  <2>2. HandInv'
    BY <1>1 DEF CreatePending, Write, rowVars, jobVars
  <2>3. ViewInv'
    BY <1>1 DEF CreatePending, Write, rowVars, jobVars
  <2>. QED  BY <2>1, <2>2, <2>3
<1>2. ASSUME NEW m \in Rows, BeginInsert(m) \/ BackoffElapses(m)
      PROVE  LockInv' /\ HandInv' /\ ViewInv'
  <2>1. LockInv'
    BY <1>2 DEF BeginInsert, BackoffElapses, jobVars
  <2>2. HandInv'
    BY <1>2 DEF BeginInsert, BackoffElapses, jobVars
  <2>3. ViewInv'
    BY <1>2 DEF BeginInsert, BackoffElapses, jobVars
  <2>. QED  BY <2>1, <2>2, <2>3
<1>3. ASSUME NEW m \in Rows, TimeoutElapses(m)
      PROVE  LockInv' /\ HandInv' /\ ViewInv'
  <2>1. LockInv'
    BY <1>3 DEF TimeoutElapses, jobVars, InHand, Undisturbed
  <2>2. HandInv'
    BY <1>3 DEF TimeoutElapses, jobVars, InHand, Undisturbed
  <2>3. ViewInv'
    BY <1>3 DEF TimeoutElapses, jobVars, InHand, Undisturbed
  <2>. QED  BY <2>1, <2>2, <2>3
<1>4. ASSUME NEW w \in Replicas, Acquire(w)
      PROVE  LockInv' /\ HandInv' /\ ViewInv'
  <2>1. /\ pc[w] = "idle" /\ pc' = [pc EXCEPT ![w] = "recover"]
        /\ holder = NoReplica /\ holder' = w
        /\ stuck' = [stuck EXCEPT ![w] = {m \in Rows : status[m] = "PROCESSING" /\ stale[m]}]
        /\ UNCHANGED <<status, stale, batch, cur, ok, admin>>
    BY <1>4 DEF Acquire, BeginRecovery, Goto
  <2>2. LockInv'
    BY <2>1
  <2>3. HandInv'
    BY <2>1
  <2>4. ViewInv'
    BY <2>1
  <2>. QED  BY <2>2, <2>3, <2>4
<1>5. ASSUME NEW w \in Replicas, RecoverScan(w)
      PROVE  LockInv' /\ HandInv' /\ ViewInv'
  <2>1. LockInv'
    BY <1>5 DEF RecoverScan, Goto, rowVars
  <2>2. HandInv'
    BY <1>5 DEF RecoverScan, Goto, rowVars
  <2>3. ViewInv'
    BY <1>5 DEF RecoverScan, Goto, rowVars
  <2>. QED  BY <2>1, <2>2, <2>3
<1>6. ASSUME NEW w \in Replicas, RecoverCommit(w)
      PROVE  LockInv' /\ HandInv' /\ ViewInv'
  <2>1. LockInv'
    BY <1>6 DEF RecoverCommit, Goto
  <2>2. HandInv'
    BY <1>6 DEF RecoverCommit, Goto
  <2>3. ViewInv'
    <3>1. pc[w] = "requeue" /\ cur[w] = NoRow /\ \A m \in Rows : ~(batch[w][m] > 0)
      BY <1>6 DEF RecoverCommit
    <3>2. \A v \in Replicas \ {w} :
            cur[v] = NoRow /\ stuck[v] = {} /\ \A m \in Rows : ~(batch[v][m] > 0)
      <4>1. \A v \in Replicas \ {w} : pc[v] = "idle"
        BY <3>1
      <4>. QED  BY <4>1
    <3>3. stuck' = [stuck EXCEPT ![w] = {}] /\ UNCHANGED <<cur, batch, admin>>
      BY <1>6 DEF RecoverCommit
    <3>4. \A m \in Rows : m \notin stuck[w] => status'[m] = status[m] /\ (stale'[m] <=> stale[m])
      BY <1>6, Zenon DEF RecoverCommit
    <3>5. \A m \in Rows : m \in stuck[w] => ~stale'[m] /\ status[m] = "PROCESSING"
      BY <1>6, Zenon DEF RecoverCommit
    <3>6. \A v \in Replicas : stuck'[v] = {} /\ cur'[v] = NoRow
      BY <3>1, <3>2, <3>3
    <3>7. \A v \in Replicas, m \in Rows : ~(batch'[v][m] > 0)
      BY <3>1, <3>2, <3>3
    <3>8. \A m \in Rows : stale'[m] => status'[m] = "PROCESSING"
      BY <3>4, <3>5
    <3>9. \A a \in Admins : admin'[a] # Idle => status'[admin'[a].row] = "FAILED"
      BY <3>3, <3>4, <3>5
    <3>. QED  BY <3>6, <3>7, <3>8, <3>9
  <2>. QED  BY <2>1, <2>2, <2>3
<1>7. ASSUME NEW w \in Replicas, FetchBatch(w)
      PROVE  LockInv' /\ HandInv' /\ ViewInv'
  <2>1. LockInv'
    BY <1>7 DEF FetchBatch, Goto, rowVars, OldestDue, DueRows
  <2>2. HandInv'
    BY <1>7 DEF FetchBatch, Goto, rowVars, OldestDue, DueRows
  <2>3. ViewInv'
    BY <1>7 DEF FetchBatch, Goto, rowVars, OldestDue, DueRows
  <2>. QED  BY <2>1, <2>2, <2>3
<1>8. ASSUME NEW w \in Replicas, MarkProcessing(w)
      PROVE  LockInv' /\ HandInv' /\ ViewInv'
  <2>1. LockInv'
    BY <1>8 DEF MarkProcessing, Goto, NextInBatch
  <2>2. HandInv'
    BY <1>8 DEF MarkProcessing, Goto, NextInBatch
  <2>3. ViewInv'
    <3>1. PICK r \in Rows :
            /\ NextInBatch(w, r)
            /\ status' = [status EXCEPT ![r] = "PROCESSING"]
            /\ \E touched \in BOOLEAN :
                 /\ status[r] # "PROCESSING" => touched
                 /\ stale' = [stale EXCEPT ![r] = @ /\ ~touched]
            /\ batch' = [batch EXCEPT ![w][r] = 0]
            /\ cur'   = [cur EXCEPT ![w] = r]
      BY <1>8 DEF MarkProcessing
    <3>2. pc[w] = "pick" /\ status[r] = "PENDING" /\ UNCHANGED <<stuck, admin>>
      BY <1>8, <3>1 DEF MarkProcessing, NextInBatch
    <3>3. stale' = [stale EXCEPT ![r] = FALSE]
      BY <3>1, <3>2
    <3>4. \A v \in Replicas : v # w => pc[v] = "idle"
      BY <3>2
    <3>5. ASSUME NEW v \in Replicas, NEW m \in Rows
          PROVE  /\ cur'[v] = m => status'[m] = "PROCESSING" /\ ~stale'[m]
                 /\ batch'[v][m] > 0 => status'[m] = "PENDING"
                 /\ m \in stuck'[v] => status'[m] = "PROCESSING" /\ stale'[m]
      <4>1. CASE v = w
        <5>1. cur'[v] = r /\ stuck'[v] = {}
          BY <4>1, <3>1, <3>2
        <5>2. batch'[v][m] > 0 => m # r /\ batch[v][m] > 0
          BY <4>1, <3>1
        <5>. QED  BY <5>1, <5>2, <3>1, <3>3
      <4>2. CASE v # w
        <5>1. cur[v] = NoRow /\ stuck[v] = {} /\ ~(batch[v][m] > 0)
          BY <4>2, <3>4
        <5>2. cur'[v] = cur[v] /\ stuck'[v] = stuck[v] /\ batch'[v] = batch[v]
          BY <4>2, <3>1, <3>2
        <5>. QED  BY <5>1, <5>2
      <4>. QED  BY <4>1, <4>2
    <3>6. \A m \in Rows : stale'[m] => status'[m] = "PROCESSING"
      BY <3>1, <3>3
    <3>7. \A a \in Admins : admin'[a] # Idle => status'[admin'[a].row] = "FAILED"
      BY <3>1, <3>2
    <3>. QED  BY <3>5, <3>6, <3>7
  <2>. QED  BY <2>1, <2>2, <2>3
<1>9. ASSUME NEW w \in Replicas, Send(w)
      PROVE  LockInv' /\ HandInv' /\ ViewInv'
  <2>1. LockInv'
    BY <1>9 DEF Send, Goto, rowVars
  <2>2. HandInv'
    BY <1>9 DEF Send, Goto, rowVars
  <2>3. ViewInv'
    BY <1>9 DEF Send, Goto, rowVars
  <2>. QED  BY <2>1, <2>2, <2>3
<1>10. ASSUME NEW w \in Replicas, RetryAttempt(w)
      PROVE  LockInv' /\ HandInv' /\ ViewInv'
  BY <1>10 DEF RetryAttempt, rowVars, jobVars
\* One row, in hand until now, is written; no other row and no other replica matters.
<1>11. ASSUME NEW w \in Replicas, MarkSent(w) \/ MarkFailed(w) \/ IncrementRetry(w)
      PROVE  LockInv' /\ HandInv' /\ ViewInv'
  <2>1. /\ pc[w] = "record" /\ pc' = [pc EXCEPT ![w] = "pick"]
        /\ cur' = [cur EXCEPT ![w] = NoRow] /\ ok' = [ok EXCEPT ![w] = FALSE]
        /\ UNCHANGED <<holder, stuck, batch, admin>>
    BY <1>11 DEF MarkSent, MarkFailed, IncrementRetry, NextMessage, Goto
  <2>2. LockInv'
    BY <2>1
  <2>3. HandInv'
    BY <2>1
  <2>4. ViewInv'
    <3>1. PICK st \in {"SENT", "FAILED", "PENDING"} :
            /\ status' = [status EXCEPT ![cur[w]] = st]
            /\ stale' = [stale EXCEPT ![cur[w]] = FALSE]
      BY <1>11 DEF MarkSent, MarkFailed, IncrementRetry, Write
    <3>2. cur[w] \in Rows /\ status[cur[w]] = "PROCESSING"
      BY <2>1
    <3>3. \A v \in Replicas \ {w} : pc[v] = "idle"
      BY <2>1
    <3>4. \A v \in Replicas \ {w} :
            cur[v] = NoRow /\ stuck[v] = {} /\ \A m \in Rows : ~(batch[v][m] > 0)
      BY <3>3
    <3>5. stuck[w] = {} /\ ~(batch[w][cur[w]] > 0)
      BY <2>1, <3>2
    <3>6. \A m \in Rows : IF m = cur[w] THEN status'[m] = st /\ ~stale'[m]
                         ELSE status'[m] = status[m] /\ stale'[m] = stale[m]
      BY <3>1, <3>2
    <3>7. \A v \in Replicas : cur'[v] = NoRow /\ stuck'[v] = {}
      BY <2>1, <3>4, <3>5
    <3>8. \A v \in Replicas, m \in Rows : batch'[v][m] > 0 => status'[m] = "PENDING"
      BY <2>1, <3>4, <3>5, <3>6
    <3>9. \A a \in Admins : admin'[a] # Idle => status'[admin'[a].row] = "FAILED"
      BY <2>1, <3>2, <3>6
    <3>10. \A m \in Rows : stale'[m] => status'[m] = "PROCESSING"
      BY <3>6
    <3>. QED  BY <3>7, <3>8, <3>9, <3>10
  <2>. QED  BY <2>2, <2>3, <2>4
<1>12. ASSUME NEW w \in Replicas, EndOfBatch(w)
      PROVE  LockInv' /\ HandInv' /\ ViewInv'
  <2>1. LockInv'
    BY <1>12 DEF EndOfBatch, Leave, Goto, rowVars
  <2>2. HandInv'
    BY <1>12 DEF EndOfBatch, Leave, Goto, rowVars
  <2>3. ViewInv'
    BY <1>12 DEF EndOfBatch, Leave, Goto, rowVars
  <2>. QED  BY <2>1, <2>2, <2>3
<1>13. ASSUME NEW w \in Replicas, Crash(w)
      PROVE  LockInv' /\ HandInv' /\ ViewInv'
  <2>1. LockInv'
    BY <1>13 DEF Crash, Leave, Goto, rowVars
  <2>2. HandInv'
    BY <1>13 DEF Crash, Leave, Goto, rowVars
  <2>3. ViewInv'
    BY <1>13 DEF Crash, Leave, Goto, rowVars
  <2>. QED  BY <2>1, <2>2, <2>3
<1>14. ASSUME NEW w \in Replicas, JobError(w)
      PROVE  LockInv' /\ HandInv' /\ ViewInv'
  <2>1. LockInv'
    BY <1>14 DEF JobError, Leave, Goto, rowVars
  <2>2. HandInv'
    BY <1>14 DEF JobError, Leave, Goto, rowVars
  <2>3. ViewInv'
    BY <1>14 DEF JobError, Leave, Goto, rowVars
  <2>. QED  BY <2>1, <2>2, <2>3
<1>15. ASSUME NEW w \in Replicas, MessageError(w)
      PROVE  LockInv' /\ HandInv' /\ ViewInv'
  <2>1. /\ pc[w] \in {"pick", "send", "record"} /\ pc' = [pc EXCEPT ![w] = "pick"]
        /\ cur' = [cur EXCEPT ![w] = NoRow] /\ ok' = [ok EXCEPT ![w] = FALSE]
        /\ UNCHANGED <<status, stale, holder, stuck, admin>>
    BY <1>15 DEF MessageError, NextMessage, Goto, rowVars
  <2>2. \A v \in Replicas, m \in Rows : batch'[v][m] > 0 => batch[v][m] > 0
    <3>1. CASE \E r \in Rows : batch' = [batch EXCEPT ![w][r] = 0]
      BY <3>1
    <3>2. CASE UNCHANGED batch
      BY <3>2
    <3>. QED  BY <1>15, <3>1, <3>2 DEF MessageError
  <2>3. LockInv'
    BY <2>1
  <2>4. HandInv'
    BY <2>1, <2>2
  <2>5. ViewInv'
    BY <2>1, <2>2
  <2>. QED  BY <2>3, <2>4, <2>5
<1>16. ASSUME NEW a \in Admins, AdminOpen(a)
      PROVE  LockInv' /\ HandInv' /\ ViewInv'
  <2>1. LockInv'
    BY <1>16 DEF AdminOpen, Decide, jobVars, Undisturbed
  <2>2. HandInv'
    BY <1>16 DEF AdminOpen, Decide, jobVars, Undisturbed
  <2>3. ViewInv'
    BY <1>16 DEF AdminOpen, Decide, jobVars, Undisturbed
  <2>. QED  BY <2>1, <2>2, <2>3
<1>17. ASSUME NEW a \in Admins, AdminRetry(a)
      PROVE  LockInv' /\ HandInv' /\ ViewInv'
  <2>1. LockInv'
    BY <1>17 DEF AdminRetry, Write, jobVars, Undisturbed
  <2>2. HandInv'
    BY <1>17 DEF AdminRetry, Write, jobVars, Undisturbed
  <2>3. ViewInv'
    BY <1>17 DEF AdminRetry, Write, jobVars, Undisturbed
  <2>. QED  BY <2>1, <2>2, <2>3
<1>18. ASSUME NEW a \in Admins, AdminDiscard(a)
      PROVE  LockInv' /\ HandInv' /\ ViewInv'
  <2>1. LockInv'
    BY <1>18 DEF AdminDiscard, Write, jobVars, Undisturbed
  <2>2. HandInv'
    BY <1>18 DEF AdminDiscard, Write, jobVars, Undisturbed
  <2>3. ViewInv'
    BY <1>18 DEF AdminDiscard, Write, jobVars, Undisturbed
  <2>. QED  BY <2>1, <2>2, <2>3
<1>19. CASE LockDrop
  BY <1>19 DEF LockDrop, Undisturbed
<1>20. CASE UNCHANGED vars
  BY <1>20 DEF vars, rowVars, jobVars
<1>. QED
  BY <1>1, <1>2, <1>3, <1>4, <1>5, <1>6, <1>7, <1>8, <1>9, <1>11, <1>12, <1>13, <1>14, <1>15, <1>16, <1>17, <1>18, <1>19, <1>20, <1>10
  DEF Next, JobStep, Environment

\* One writer at a time, in every reachable state.
LEMMA OneWriter ==
  ASSUME Undisturbed
  PROVE  Spec => []OneWriterInv
<1>1. OneWriterInv /\ [Next]_vars => OneWriterInv'
  BY OneWriterNext
<1>. QED  BY OneWriterInit, <1>1, PTL DEF Spec

\* While a worker delivers a row, the row is its alone: no second delivery,
\* recovery or batch can reach it.
THEOREM ExclusiveDelivery ==
  ASSUME Undisturbed
  PROVE  Spec => []DeliveredByOne
<1>1. OneWriterInv => DeliveredByOne
  <2>. SUFFICES ASSUME OneWriterInv,
                       NEW w \in Replicas, NEW m \in Rows, Delivering(w, m)
                PROVE  /\ status[m] = "PROCESSING" /\ ~stale[m]
                       /\ \A v \in Replicas \ {w} :
                            cur[v] # m /\ batch[v][m] = 0 /\ m \notin stuck[v]
    BY DEF DeliveredByOne
  <2>1. status[m] = "PROCESSING" /\ ~stale[m]
    BY DEF OneWriterInv, ViewInv, Delivering
  <2>2. ASSUME NEW v \in Replicas \ {w}
        PROVE  cur[v] # m /\ batch[v][m] = 0 /\ m \notin stuck[v]
    <3>1. pc[v] = "idle"
      BY DEF OneWriterInv, LockInv, InJob, Delivering
    <3>2. cur[v] = NoRow /\ stuck[v] = {} /\ ~(batch[v][m] > 0)
      BY <3>1 DEF OneWriterInv, HandInv
    <3>3. batch[v][m] \in Nat
      BY DEF OneWriterInv, TypeInv, TypeOK
    <3>. QED  BY <3>2, <3>3, OutboxAssumption
  <2>. QED  BY <2>1, <2>2
<1>. QED  BY OneWriter, <1>1, PTL

\* A settled row stays settled.
THEOREM SettledStays ==
  ASSUME Undisturbed
  PROVE  Spec => SettledForGood
<1>1. OneWriterInv /\ [Next]_vars =>
        [\A m \in Rows : status[m] \in {"SENT", "DISCARDED"} => status'[m] = status[m]]_vars
  <2>. SUFFICES ASSUME OneWriterInv, Next,
                       NEW m \in Rows, status[m] \in {"SENT", "DISCARDED"}
                PROVE  status'[m] = status[m]
    OBVIOUS
  <2>. USE DEF OneWriterInv, TypeInv, TypeOK
  <2>1. ASSUME NEW k \in Rows,
               BeginInsert(k) \/ CreatePending(k) \/ BackoffElapses(k) \/ TimeoutElapses(k)
        PROVE  status'[m] = status[m]
    BY <2>1 DEF BeginInsert, CreatePending, Write, BackoffElapses, TimeoutElapses
  <2>2. ASSUME NEW w \in Replicas, RecoverCommit(w)
        PROVE  status'[m] = status[m]
    <3>1. m \notin stuck[w]
      BY DEF ViewInv
    <3>. QED  BY <2>2, <3>1 DEF RecoverCommit
  <2>3. ASSUME NEW w \in Replicas, MarkProcessing(w)
        PROVE  status'[m] = status[m]
    <3>1. ~(batch[w][m] > 0)
      BY DEF ViewInv
    <3>. QED  BY <2>3, <3>1 DEF MarkProcessing, NextInBatch
  <2>4. ASSUME NEW w \in Replicas, MarkSent(w) \/ MarkFailed(w) \/ IncrementRetry(w)
        PROVE  status'[m] = status[m]
    <3>1. cur[w] # m
      BY DEF ViewInv
    <3>. QED  BY <2>4, <3>1 DEF MarkSent, MarkFailed, IncrementRetry, Write
  <2>5. ASSUME NEW w \in Replicas,
               \/ Acquire(w) \/ RecoverScan(w) \/ FetchBatch(w) \/ RetryAttempt(w) \/ Send(w)
               \/ EndOfBatch(w) \/ Crash(w) \/ JobError(w) \/ MessageError(w)
        PROVE  status'[m] = status[m]
    BY <2>5 DEF Acquire, RecoverScan, FetchBatch, RetryAttempt, Send, EndOfBatch, Crash, JobError,
                MessageError, rowVars
  <2>6. ASSUME NEW a \in Admins, AdminRetry(a) \/ AdminDiscard(a)
        PROVE  status'[m] = status[m]
    <3>1. admin[a] # Idle
      BY <2>6 DEF AdminRetry, AdminDiscard, Idle
    <3>2. admin[a].row # m
      BY <3>1 DEF ViewInv
    <3>. QED  BY <2>6, <3>2 DEF AdminRetry, AdminDiscard, Write
  <2>7. ASSUME NEW a \in Admins, AdminOpen(a)
        PROVE  status'[m] = status[m]
    BY <2>7 DEF AdminOpen, rowVars
  <2>8. CASE LockDrop
    BY <2>8 DEF LockDrop, rowVars
  <2>. QED
    BY <2>1, <2>2, <2>3, <2>4, <2>5, <2>6, <2>7, <2>8 DEF Next, JobStep, Environment
<1>. QED  BY OneWriter, <1>1, PTL DEF Spec, SettledForGood

-----------------------------------------------------------------------------
(***************************************************************************)
(* The ledger of deliveries.                                               *)
(***************************************************************************)

\* A delivery the outbox knows of or is about to record.
Known(m) ==
  \/ status[m] = "SENT"
  \/ \E w \in Replicas : Delivering(w, m) /\ ok[w]

\* Every step keeps the account of the deliveries.
LEMMA LedgerNext ==
  ASSUME OneWriterInv, OneWriterInv', DuplicatesHaveACause, [Next]_vars
  PROVE  DuplicatesHaveACause'
<1>. USE DEF OneWriterInv, TypeInv, TypeOK
<1>. SUFFICES ASSUME NEW m \in Rows
              PROVE  accepted'[m] = lost'[m] + IF Known(m)' THEN 1 ELSE 0
  BY DEF DuplicatesHaveACause, Known
<1>1. accepted[m] = lost[m] + IF Known(m) THEN 1 ELSE 0
  BY DEF DuplicatesHaveACause, Known
<1>2. accepted[m] \in Nat /\ lost[m] \in Nat
  OBVIOUS
<1>3. ASSUME accepted'[m] = accepted[m], lost'[m] = lost[m], Known(m)' <=> Known(m)
      PROVE  accepted'[m] = lost'[m] + IF Known(m)' THEN 1 ELSE 0
  BY <1>1, <1>3
\* Nobody else has in hand what w has, nor anything at all when the row is not in hand.
<1>4. ASSUME NEW w \in Replicas, InJob(w)
      PROVE  \A v \in Replicas \ {w} : ~InJob(v)
  BY <1>4 DEF LockInv
<1>5. ASSUME NEW w \in Replicas, Send(w)
      PROVE  accepted'[m] = lost'[m] + IF Known(m)' THEN 1 ELSE 0
  <2>1. cur[w] \in Rows /\ pc[w] = "send" /\ ~ok[w] /\ status[cur[w]] = "PROCESSING"
    BY <1>5 DEF Send, HandInv, ViewInv, HasRow
  <2>2. UNCHANGED <<status, cur>> /\ pc' = [pc EXCEPT ![w] = "record"]
    BY <1>5 DEF Send, Goto, rowVars
  <2>3. \A v \in Replicas \ {w} : ~Delivering(v, m) /\ ~Delivering(v, m)'
    BY <1>4, <2>1, <2>2 DEF InJob, Delivering
  <2>4. CASE m # cur[w]
    <3>1. accepted'[m] = accepted[m] /\ lost'[m] = lost[m]
      BY <1>5, <2>1, <2>4 DEF Send, Attempt
    <3>2. ~Delivering(w, m) /\ ~Delivering(w, m)'
      BY <2>2, <2>4 DEF Delivering
    <3>3. Known(m)' <=> Known(m)
      BY <2>2, <2>3, <3>2 DEF Known
    <3>. QED  BY <1>3, <3>1, <3>3
  <2>5. CASE m = cur[w]
    <3>1. ~Known(m)
      BY <2>1, <2>3, <2>5 DEF Known
    <3>2. Known(m)' <=> ok'[w]
      BY <2>1, <2>2, <2>3, <2>5 DEF Known, Delivering
    <3>3. PICK taken \in BOOLEAN, answer \in BOOLEAN :
            /\ answer => taken
            /\ ok'       = [ok EXCEPT ![w] = answer]
            /\ accepted' = [accepted EXCEPT ![cur[w]] = IF taken THEN @ + 1 ELSE @]
            /\ lost'     = [lost EXCEPT ![cur[w]] = IF taken /\ ~answer THEN @ + 1 ELSE @]
      BY <1>5 DEF Send, Attempt
    <3>4. ok'[w] = answer
      BY <3>3
    <3>5. accepted'[m] = (IF taken THEN accepted[m] + 1 ELSE accepted[m])
          /\ lost'[m] = (IF taken /\ ~answer THEN lost[m] + 1 ELSE lost[m])
      BY <3>3, <2>5
    <3>6. accepted[m] = lost[m]
      BY <1>1, <1>2, <3>1
    <3>7. CASE answer
      BY <3>7, <3>2, <3>3, <3>4, <3>5, <3>6, <1>2
    <3>8. CASE ~answer
      BY <3>8, <3>2, <3>4, <3>5, <3>6, <1>2
    <3>. QED  BY <3>7, <3>8
  <2>. QED  BY <2>4, <2>5
\* A failed attempt adds as much to what was accepted as to what was lost.
<1>6. ASSUME NEW w \in Replicas, RetryAttempt(w)
      PROVE  accepted'[m] = lost'[m] + IF Known(m)' THEN 1 ELSE 0
  <2>1. PICK taken \in BOOLEAN :
          /\ accepted' = [accepted EXCEPT ![cur[w]] = IF taken THEN @ + 1 ELSE @]
          /\ lost'     = [lost EXCEPT ![cur[w]] = IF taken THEN @ + 1 ELSE @]
    BY <1>6 DEF RetryAttempt, Attempt
  <2>2. Known(m)' <=> Known(m)
    BY <1>6 DEF RetryAttempt, rowVars, jobVars, Known, Delivering
  <2>3. \/ accepted'[m] = accepted[m] + 1 /\ lost'[m] = lost[m] + 1
        \/ accepted'[m] = accepted[m] /\ lost'[m] = lost[m]
    BY <2>1
  <2>. QED  BY <1>1, <1>2, <2>2, <2>3
<1>7. ASSUME NEW w \in Replicas, MarkSent(w)
      PROVE  accepted'[m] = lost'[m] + IF Known(m)' THEN 1 ELSE 0
  <2>1. accepted' = accepted /\ lost' = lost
    BY <1>7 DEF MarkSent, ledgerVars
  <2>2. cur[w] \in Rows /\ pc[w] = "record" /\ ok[w]
        /\ status' = [status EXCEPT ![cur[w]] = "SENT"]
        /\ cur' = [cur EXCEPT ![w] = NoRow] /\ pc' = [pc EXCEPT ![w] = "pick"]
    BY <1>7 DEF MarkSent, HasRow, Write, NextMessage, Goto
  <2>3. \A v \in Replicas \ {w} : ~Delivering(v, m) /\ ~Delivering(v, m)'
    BY <1>4, <2>2 DEF InJob, Delivering
  <2>4. ~Delivering(w, m)'
    BY <2>2 DEF Delivering
  <2>5. Known(m)' <=> Known(m)
    <3>1. CASE m = cur[w]
      BY <3>1, <2>2 DEF Known, Delivering
    <3>2. CASE m # cur[w]
      BY <3>2, <2>2, <2>3, <2>4 DEF Known, Delivering
    <3>. QED  BY <3>1, <3>2
  <2>. QED  BY <1>3, <2>1, <2>5
<1>8. ASSUME NEW w \in Replicas, MarkFailed(w) \/ IncrementRetry(w)
      PROVE  accepted'[m] = lost'[m] + IF Known(m)' THEN 1 ELSE 0
  <2>1. accepted' = accepted /\ lost' = lost
    BY <1>8 DEF MarkFailed, IncrementRetry, ledgerVars
  <2>2. cur[w] \in Rows /\ pc[w] = "record" /\ ~ok[w] /\ status[cur[w]] = "PROCESSING"
    BY <1>8 DEF MarkFailed, IncrementRetry, HasRow, ViewInv
  <2>3. status'[cur[w]] # "SENT" /\ \A k \in Rows \ {cur[w]} : status'[k] = status[k]
    BY <1>8, <2>2 DEF MarkFailed, IncrementRetry, Write
  <2>4. cur' = [cur EXCEPT ![w] = NoRow] /\ pc' = [pc EXCEPT ![w] = "pick"]
    BY <1>8 DEF MarkFailed, IncrementRetry, NextMessage, Goto
  <2>5. \A v \in Replicas \ {w} : ~Delivering(v, m) /\ ~Delivering(v, m)'
    BY <1>4, <2>2, <2>4 DEF InJob, Delivering
  <2>6. ~Delivering(w, m)'
    BY <2>4 DEF Delivering
  <2>7. Known(m)' <=> Known(m)
    <3>1. CASE m = cur[w]
      BY <3>1, <2>2, <2>5, <2>6, <2>3 DEF Known
    <3>2. CASE m # cur[w]
      BY <3>2, <2>2, <2>5, <2>6, <2>3 DEF Known, Delivering
    <3>. QED  BY <3>1, <3>2
  <2>. QED  BY <1>3, <2>1, <2>7
<1>9. ASSUME NEW w \in Replicas, Crash(w) \/ MessageError(w)
      PROVE  accepted'[m] = lost'[m] + IF Known(m)' THEN 1 ELSE 0
  <2>1. accepted' = accepted /\ status' = status /\ LoseOutcome(w) /\ InJob(w)
    BY <1>9 DEF Crash, MessageError, rowVars, InJob
  <2>2. cur' = [cur EXCEPT ![w] = NoRow] /\ pc'[w] \in {"idle", "pick"}
        /\ \A v \in Replicas \ {w} : pc'[v] = pc[v]
    BY <1>9 DEF Crash, MessageError, Leave, NextMessage, Goto
  <2>3. \A v \in Replicas \ {w} : ~Delivering(v, m) /\ ~Delivering(v, m)'
    BY <1>4, <2>1, <2>2 DEF InJob, Delivering
  <2>4. ~Delivering(w, m)'
    BY <2>2 DEF Delivering
  <2>5. CASE m = cur[w] /\ ok[w]
    <3>1. Delivering(w, m) /\ status[m] = "PROCESSING"
      BY <2>5 DEF HandInv, ViewInv, Delivering
    <3>2. Known(m) /\ ~Known(m)'
      BY <2>1, <2>3, <2>4, <2>5, <3>1 DEF Known
    <3>3. lost'[m] = lost[m] + 1
      BY <2>1, <2>5, Zenon DEF LoseOutcome
    <3>. QED  BY <1>1, <1>2, <2>1, <3>2, <3>3
  <2>6. CASE ~(m = cur[w] /\ ok[w])
    <3>1. lost'[m] = lost[m]
      BY <2>1, <2>6, Zenon DEF LoseOutcome
    <3>2. Known(m)' <=> Known(m)
      BY <2>1, <2>3, <2>4, <2>6 DEF Known, Delivering
    <3>. QED  BY <1>3, <2>1, <3>1, <3>2
  <2>. QED  BY <2>5, <2>6
<1>10. ASSUME NEW w \in Replicas, MarkProcessing(w)
       PROVE  accepted'[m] = lost'[m] + IF Known(m)' THEN 1 ELSE 0
  <2>1. accepted' = accepted /\ lost' = lost /\ ok' = ok /\ pc[w] = "pick"
        /\ pc' = [pc EXCEPT ![w] = "send"]
    BY <1>10 DEF MarkProcessing, ledgerVars, Goto
  <2>2. PICK r \in Rows : /\ NextInBatch(w, r)
                          /\ status' = [status EXCEPT ![r] = "PROCESSING"]
                          /\ cur' = [cur EXCEPT ![w] = r]
    BY <1>10 DEF MarkProcessing
  <2>3. status[r] = "PENDING" /\ ~ok[w]
    BY <2>1, <2>2 DEF NextInBatch, ViewInv, HandInv
  <2>4. \A v \in Replicas \ {w} : ~Delivering(v, m) /\ ~Delivering(v, m)'
    BY <1>4, <2>1, <2>2 DEF InJob, Delivering
  <2>5. status'[m] = "SENT" <=> status[m] = "SENT"
    BY <2>2, <2>3
  <2>6. Known(m)' <=> Known(m)
    BY <2>1, <2>3, <2>4, <2>5 DEF Known
  <2>. QED  BY <1>3, <2>1, <2>6
<1>11. ASSUME NEW w \in Replicas,
              \/ Acquire(w) \/ RecoverScan(w) \/ FetchBatch(w)
              \/ EndOfBatch(w) \/ JobError(w)
       PROVE  accepted'[m] = lost'[m] + IF Known(m)' THEN 1 ELSE 0
  <2>1. accepted' = accepted /\ lost' = lost /\ status' = status
    BY <1>11 DEF Acquire, RecoverScan, FetchBatch, EndOfBatch, JobError, ledgerVars, rowVars
  <2>2. pc[w] \notin {"send", "record"} /\ pc'[w] \notin {"send", "record"}
    BY <1>11 DEF Acquire, BeginRecovery, RecoverScan, FetchBatch, EndOfBatch, JobError, Leave, Goto
  <2>3. \A v \in Replicas \ {w} : pc'[v] = pc[v] /\ cur'[v] = cur[v] /\ (ok'[v] <=> ok[v])
    BY <1>11 DEF Acquire, BeginRecovery, RecoverScan, FetchBatch, EndOfBatch, JobError, Leave, Goto
  <2>4. Known(m)' <=> Known(m)
    BY <2>1, <2>2, <2>3 DEF Known, Delivering
  <2>. QED  BY <1>3, <2>1, <2>4
<1>12. ASSUME NEW w \in Replicas, RecoverCommit(w)
       PROVE  accepted'[m] = lost'[m] + IF Known(m)' THEN 1 ELSE 0
  <2>1. accepted' = accepted /\ lost' = lost /\ ok' = ok /\ cur' = cur
        /\ pc[w] = "requeue" /\ pc' = [pc EXCEPT ![w] = "fetch"]
    BY <1>12 DEF RecoverCommit, ledgerVars, Goto
  <2>2. status'[m] = "SENT" <=> status[m] = "SENT"
    BY <1>12 DEF RecoverCommit, ViewInv
  <2>3. \A v \in Replicas : Delivering(v, m)' <=> Delivering(v, m)
    BY <2>1 DEF Delivering
  <2>4. Known(m)' <=> Known(m)
    BY <2>1, <2>2, <2>3 DEF Known
  <2>. QED  BY <1>3, <2>1, <2>4
<1>13. ASSUME NEW a \in Admins, AdminRetry(a) \/ AdminDiscard(a)
       PROVE  accepted'[m] = lost'[m] + IF Known(m)' THEN 1 ELSE 0
  <2>1. accepted' = accepted /\ lost' = lost /\ UNCHANGED <<pc, cur, ok>>
    BY <1>13 DEF AdminRetry, AdminDiscard, ledgerVars, jobVars
  <2>2. admin[a] # Idle
    BY <1>13 DEF AdminRetry, AdminDiscard, Idle
  <2>3. status[admin[a].row] = "FAILED"
    BY <2>2 DEF ViewInv
  <2>4. status'[m] = "SENT" <=> status[m] = "SENT"
    BY <1>13, <2>3 DEF AdminRetry, AdminDiscard, Write
  <2>5. Known(m)' <=> Known(m)
    BY <2>1, <2>4 DEF Known, Delivering
  <2>. QED  BY <1>3, <2>1, <2>5
<1>14. ASSUME \/ \E k \in Rows :
                   BeginInsert(k) \/ CreatePending(k) \/ BackoffElapses(k) \/ TimeoutElapses(k)
              \/ \E a \in Admins : AdminOpen(a)
              \/ LockDrop
              \/ UNCHANGED vars
       PROVE  accepted'[m] = lost'[m] + IF Known(m)' THEN 1 ELSE 0
  <2>1. accepted' = accepted /\ lost' = lost /\ UNCHANGED <<pc, cur, ok>>
    BY <1>14 DEF BeginInsert, CreatePending, BackoffElapses, TimeoutElapses, AdminOpen, LockDrop,
                 ledgerVars, jobVars, vars
  <2>2. status'[m] = "SENT" <=> status[m] = "SENT"
    BY <1>14 DEF BeginInsert, CreatePending, Write, BackoffElapses, TimeoutElapses, AdminOpen, LockDrop,
                 rowVars, vars
  <2>3. Known(m)' <=> Known(m)
    BY <2>1, <2>2 DEF Known, Delivering
  <2>. QED  BY <1>3, <2>1, <2>3
<1>. QED
  BY <1>5, <1>7, <1>8, <1>9, <1>10, <1>11, <1>12, <1>13, <1>14, <1>6 DEF Next, JobStep, Environment

\* Every delivery beyond the first has a lost answer or a fault behind it.
THEOREM DuplicatesAccounted ==
  ASSUME Undisturbed
  PROVE  Spec => []DuplicatesHaveACause
<1>1. Init => DuplicatesHaveACause
  BY DEF Init, DuplicatesHaveACause
<1>2. OneWriterInv /\ OneWriterInv' /\ DuplicatesHaveACause /\ [Next]_vars => DuplicatesHaveACause'
  BY LedgerNext
<1>. QED  BY OneWriter, <1>1, <1>2, PTL DEF Spec

-----------------------------------------------------------------------------
(* The retry budget *)

\* What each row's attempt_count must still cover, and what a worker or a recovery
\* remembers of it. A row that is abandoned in PROCESSING has cost a fault already.
RowBudget(m) ==
  /\ calls[m] <= MaxRetries + faults
  /\ status[m] = "ABSENT" => calls[m] = 0
  /\ status[m] = "PENDING" => calls[m] <= attempts[m]
  /\ status[m] \notin {"ABSENT", "PENDING"} => calls[m] <= attempts[m] + 1
  /\ status[m] \in {"PENDING", "PROCESSING"} => attempts[m] + 1 <= MaxRetries + faults
  /\ status[m] = "PROCESSING" /\ ~InHand(m) => attempts[m] + 2 <= MaxRetries + faults

CopyFresh(w, m) ==
  /\ Delivering(w, m) \/ (m \in stuck[w] /\ pc[w] = "requeue") => seen[w][m] = attempts[m]
  /\ Delivering(w, m) /\ pc[w] = "send" => calls[m] <= attempts[m]

BudgetInv ==
  /\ \A m \in Rows : RowBudget(m)
  /\ \A w \in Replicas, m \in Rows : CopyFresh(w, m)

\* Nothing was called and nothing is held at the start.
LEMMA BudgetInit == Init => BudgetInv
BY OutboxAssumption DEF Init, BudgetInv, RowBudget, CopyFresh, Delivering, InHand

\* A step that leaves a row, what is known of it and who holds it as they are.
LEMMA RowUntouched ==
  ASSUME TypeOK, TypeOK', BudgetInv, NEW m \in Rows, faults' >= faults,
         status'[m] = status[m], attempts'[m] = attempts[m], calls'[m] = calls[m],
         InHand(m) => InHand(m)'
  PROVE  RowBudget(m)'
BY OutboxAssumption DEF BudgetInv, RowBudget, TypeOK

\* A row that was never called has its whole budget.
LEMMA FreshRow ==
  ASSUME NEW m \in Rows, faults \in Nat, faults' = faults,
         status'[m] = "PENDING", attempts'[m] = 0, calls'[m] = 0
  PROVE  RowBudget(m)'
<1>1. MaxRetries \in Nat /\ MaxRetries >= 1
  BY OutboxAssumption
<1>2. 0 <= MaxRetries + faults /\ 0 + 1 <= MaxRetries + faults
  BY <1>1
<1>. QED  BY <1>2 DEF RowBudget

\* Copies of a row that none of the writes of a step touches.
LEMMA CopyKept ==
  ASSUME TypeOK, BudgetInv, NEW w \in Replicas, NEW m \in Rows,
         attempts'[m] = attempts[m], calls'[m] = calls[m], seen'[w][m] = seen[w][m],
         cur'[w] = m => cur[w] = m /\ pc'[w] = pc[w],
         m \in stuck'[w] /\ pc'[w] = "requeue" => m \in stuck[w] /\ pc[w] = "requeue"
  PROVE  CopyFresh(w, m)'
BY DEF BudgetInv, CopyFresh, Delivering

\* One step per action; only a call, a requeue and an abandoned row move the budget.
LEMMA BudgetNext ==
  ASSUME OneWriterInv, OneWriterInv', BudgetInv, [Next]_vars
  PROVE  BudgetInv'
<1>. USE DEF OneWriterInv, TypeInv
<1>. SUFFICES ASSUME NEW m \in Rows, NEW v \in Replicas
              PROVE  RowBudget(m)' /\ CopyFresh(v, m)'
  BY OutboxAssumption DEF BudgetInv
<1>1. /\ calls[m] \in Nat /\ attempts[m] \in Nat /\ faults \in Nat /\ faults' \in Nat
      /\ calls'[m] \in Nat /\ attempts'[m] \in Nat /\ seen[v][m] \in Nat
      /\ MaxRetries \in Nat /\ MaxRetries >= 1
  BY OutboxAssumption DEF TypeOK
<1>2. RowBudget(m) /\ CopyFresh(v, m)
  BY DEF BudgetInv
<1>3. ASSUME NEW w \in Replicas, InJob(w)
      PROVE  \A u \in Replicas \ {w} : ~InJob(u) /\ cur[u] = NoRow /\ stuck[u] = {}
  BY <1>3, OutboxAssumption DEF LockInv, HandInv, InJob
<1>4. ASSUME NEW k \in Rows, CreatePending(k)
      PROVE  RowBudget(m)' /\ CopyFresh(v, m)'
  <2>1. /\ UNCHANGED <<calls, faults, cur, pc, stuck, seen>> /\ status[k] = "ABSENT"
        /\ status' = [status EXCEPT ![k] = "PENDING"]
        /\ attempts' = [attempts EXCEPT ![k] = 0]
    BY <1>4 DEF CreatePending, Write, jobVars, ledgerVars, bounds
  <2>2. CASE m = k
    <3>1. cur[v] # m /\ m \notin stuck[v]
      BY <2>1, <2>2 DEF ViewInv
    <3>2. status'[m] = "PENDING" /\ attempts'[m] = 0 /\ calls'[m] = 0
      BY <2>1, <2>2, <1>2 DEF RowBudget, TypeOK
    <3>3. RowBudget(m)'
      BY <2>1, <3>2, <1>1, FreshRow
    <3>. QED  BY <2>1, <3>1, <3>3 DEF CopyFresh, Delivering
  <2>3. CASE m # k
    <3>1. status'[m] = status[m] /\ attempts'[m] = attempts[m]
      BY <2>1, <2>3 DEF TypeOK
    <3>2. RowBudget(m)'
      BY <2>1, <3>1, <1>1, RowUntouched DEF InHand
    <3>. QED  BY <2>1, <3>1, <3>2, CopyKept
  <2>. QED  BY <2>2, <2>3
\* Steps after which every row, its budget and its holder are as before.
<1>5. ASSUME \/ \E k \in Rows : BeginInsert(k) \/ BackoffElapses(k) \/ TimeoutElapses(k)
             \/ \E a \in Admins : AdminOpen(a)
             \/ LockDrop
             \/ \E w \in Replicas : RetryAttempt(w)
             \/ UNCHANGED vars
      PROVE  RowBudget(m)' /\ CopyFresh(v, m)'
  <2>1. /\ UNCHANGED <<status, attempts, calls, cur, pc, stuck, seen>>
        /\ faults' = faults \/ faults' = faults + 1
    BY <1>5 DEF BeginInsert, BackoffElapses, TimeoutElapses, AdminOpen, LockDrop, RetryAttempt, Fault,
                rowVars, jobVars, ledgerVars, bounds, vars
  <2>2. RowBudget(m)'
    BY <2>1, <1>1, RowUntouched DEF InHand
  <2>. QED  BY <2>1, <2>2, CopyKept
<1>6. ASSUME NEW w \in Replicas, Acquire(w) \/ FetchBatch(w) \/ EndOfBatch(w) \/ JobError(w)
      PROVE  RowBudget(m)' /\ CopyFresh(v, m)'
  <2>1. /\ UNCHANGED <<status, attempts, calls>>
        /\ faults' = faults \/ faults' = faults + 1
        /\ pc[w] \notin {"send", "record"} /\ pc'[w] \notin {"send", "record", "requeue"}
    BY <1>6 DEF Acquire, BeginRecovery, FetchBatch, EndOfBatch, JobError, Leave, Goto, Fault, TypeOK,
                rowVars, ledgerVars, bounds
  <2>2. cur[w] = NoRow /\ cur'[w] = NoRow
    <3>1. cur[w] = NoRow
      BY <2>1 DEF HandInv
    <3>2. cur'[w] \in {cur[w], NoRow}
      BY <1>6 DEF Acquire, FetchBatch, EndOfBatch, JobError, Leave, TypeOK
    <3>. QED  BY <3>1, <3>2
  <2>3. \A u \in Replicas \ {w} : /\ cur'[u] = cur[u] /\ stuck'[u] = stuck[u]
                                 /\ seen'[u] = seen[u] /\ pc'[u] = pc[u]
    BY <1>6 DEF Acquire, BeginRecovery, FetchBatch, EndOfBatch, JobError, Leave, Goto, TypeOK
  <2>4. \A u \in Replicas : cur'[u] = cur[u]
    BY <2>2, <2>3
  <2>5. RowBudget(m)'
    BY <2>1, <2>4, <1>1, RowUntouched DEF InHand
  <2>6. CASE v = w
    BY <2>1, <2>5, <2>6 DEF CopyFresh, Delivering
  <2>7. CASE v # w
    BY <2>1, <2>3, <2>5, <2>7, CopyKept
  <2>. QED  BY <2>6, <2>7
<1>7. ASSUME NEW w \in Replicas, RecoverScan(w)
      PROVE  RowBudget(m)' /\ CopyFresh(v, m)'
  <2>1. /\ UNCHANGED <<status, attempts, calls, faults, cur>> /\ pc[w] = "recover"
        /\ seen' = [seen EXCEPT ![w] = attempts]
        /\ \A u \in Replicas \ {w} : /\ stuck'[u] = stuck[u] /\ pc'[u] = pc[u]
                                     /\ seen'[u] = seen[u]
    BY <1>7 DEF RecoverScan, Goto, rowVars, ledgerVars, bounds, TypeOK
  <2>2. RowBudget(m)'
    BY <2>1, <1>1, RowUntouched DEF InHand
  <2>3. CASE v = w
    <3>1. seen'[v][m] = attempts'[m]
      BY <2>1, <2>3 DEF TypeOK
    <3>2. ~Delivering(v, m)'
      BY <2>1, <2>3, OutboxAssumption DEF Delivering, HandInv
    <3>. QED  BY <2>2, <3>1, <3>2 DEF CopyFresh
  <2>4. CASE v # w
    BY <2>1, <2>2, <2>4, CopyKept DEF TypeOK
  <2>. QED  BY <2>3, <2>4
<1>8. ASSUME NEW w \in Replicas, RecoverCommit(w)
      PROVE  RowBudget(m)' /\ CopyFresh(v, m)'
  <2>1. /\ UNCHANGED <<calls, faults, cur, seen>> /\ pc[w] = "requeue"
        /\ stuck' = [stuck EXCEPT ![w] = {}]
        /\ pc' = [pc EXCEPT ![w] = "fetch"]
    BY <1>8 DEF RecoverCommit, Goto, ledgerVars, bounds
  <2>2. /\ m \in stuck[w] => status'[m] = "PENDING" /\ attempts'[m] = seen[w][m] + 1
        /\ m \notin stuck[w] => status'[m] = status[m] /\ attempts'[m] = attempts[m]
    BY <1>8, Zenon DEF RecoverCommit
  <2>3. \A u \in Replicas : cur[u] = NoRow /\ stuck'[u] = {}
    <3>1. \A u \in Replicas \ {w} : cur[u] = NoRow /\ stuck[u] = {}
      BY <2>1, <1>3 DEF InJob
    <3>. QED  BY <2>1, <3>1 DEF HandInv, TypeOK
  <2>4. CopyFresh(v, m)'
    BY <2>1, <2>3, OutboxAssumption DEF CopyFresh, Delivering
  <2>5. CASE m \in stuck[w]
    <3>1. status[m] = "PROCESSING" /\ seen[w][m] = attempts[m] /\ ~InHand(m)
      BY <2>1, <2>3, <2>5, OutboxAssumption DEF ViewInv, BudgetInv, CopyFresh, InHand
    <3>2. calls[m] <= attempts[m] + 1 /\ attempts[m] + 2 <= MaxRetries + faults
      BY <3>1, <1>2 DEF RowBudget
    <3>3. status'[m] = "PENDING" /\ attempts'[m] = attempts[m] + 1
          /\ calls'[m] = calls[m] /\ faults' = faults
      BY <2>1, <2>2, <2>5, <3>1
    <3>4. calls[m] <= MaxRetries + faults
      BY <1>2 DEF RowBudget
    <3>. QED  BY <2>4, <3>2, <3>3, <3>4, <1>1 DEF RowBudget
  <2>6. CASE m \notin stuck[w]
    BY <2>1, <2>2, <2>4, <2>6, <1>1, RowUntouched DEF InHand
  <2>. QED  BY <2>5, <2>6
<1>9. ASSUME NEW w \in Replicas, MarkProcessing(w)
      PROVE  RowBudget(m)' /\ CopyFresh(v, m)'
  <2>1. PICK r \in Rows : /\ NextInBatch(w, r)
                          /\ status' = [status EXCEPT ![r] = "PROCESSING"]
                          /\ cur' = [cur EXCEPT ![w] = r]
                          /\ seen' = [seen EXCEPT ![w][r] = attempts[r]]
    BY <1>9 DEF MarkProcessing
  <2>2. /\ UNCHANGED <<attempts, calls, faults, stuck>> /\ pc[w] = "pick"
        /\ pc' = [pc EXCEPT ![w] = "send"]
    BY <1>9 DEF MarkProcessing, Goto, ledgerVars, bounds
  <2>3. status[r] = "PENDING" /\ cur[w] = NoRow /\ stuck[w] = {}
    BY <2>1, <2>2 DEF NextInBatch, ViewInv, HandInv
  <2>4. CASE m = r
    <3>1. status'[m] = "PROCESSING" /\ InHand(m)'
      BY <2>1, <2>4 DEF InHand, TypeOK
    <3>2. calls[m] <= attempts[m] /\ attempts[m] + 1 <= MaxRetries + faults
          /\ calls[m] <= MaxRetries + faults
      BY <2>3, <2>4, <1>2 DEF RowBudget
    <3>3. RowBudget(m)'
      BY <2>2, <3>1, <3>2, <1>1 DEF RowBudget
    <3>4. CASE v = w
      <4>1. seen'[v][m] = attempts'[m]
        BY <2>1, <2>2, <2>4, <3>4 DEF TypeOK
      <4>. QED  BY <2>2, <3>2, <3>3, <4>1 DEF CopyFresh
    <3>5. CASE v # w
      <4>1. cur'[v] = NoRow /\ stuck'[v] = {}
        BY <2>1, <2>2, <3>5, <1>3 DEF InJob
      <4>. QED  BY <3>3, <4>1, OutboxAssumption DEF CopyFresh, Delivering
    <3>. QED  BY <3>4, <3>5
  <2>5. CASE m # r
    <3>1. status'[m] = status[m] /\ (InHand(m) => InHand(m)')
      BY <2>1, <2>3, <2>5, OutboxAssumption DEF InHand, TypeOK
    <3>2. RowBudget(m)'
      BY <2>2, <3>1, <1>1, RowUntouched
    <3>3. CopyFresh(v, m)'
      <4>1. seen'[v][m] = seen[v][m]
        BY <2>1, <2>5 DEF TypeOK
      <4>2. cur'[v] = m => cur[v] = m /\ pc'[v] = pc[v]
        BY <2>1, <2>2, <2>3, <2>5, OutboxAssumption DEF TypeOK
      <4>. QED  BY <2>2, <4>1, <4>2, CopyKept
    <3>. QED  BY <3>2, <3>3
  <2>. QED  BY <2>4, <2>5
\* A call more, and a row whose budget was not spent yet.
<1>10. ASSUME NEW w \in Replicas, Send(w)
       PROVE  RowBudget(m)' /\ CopyFresh(v, m)'
  <2>1. /\ UNCHANGED <<status, attempts, faults, stuck, cur, seen>> /\ pc[w] = "send"
        /\ pc' = [pc EXCEPT ![w] = "record"]
        /\ calls' = [calls EXCEPT ![cur[w]] = @ + 1]
    BY <1>10 DEF Send, Goto, rowVars, bounds
  <2>2. cur[w] \in Rows /\ status[cur[w]] = "PROCESSING"
    BY <2>1 DEF HasRow, ViewInv
  <2>3. CASE m = cur[w]
    <3>1. calls'[m] = calls[m] + 1
      BY <2>1, <2>3 DEF TypeOK
    <3>2. calls[m] <= attempts[m] /\ InHand(m)
      BY <2>1, <2>3 DEF BudgetInv, CopyFresh, Delivering, InHand
    <3>3. attempts[m] + 1 <= MaxRetries + faults
      BY <2>2, <2>3, <1>2 DEF RowBudget
    <3>4. RowBudget(m)'
      BY <2>1, <2>2, <2>3, <3>1, <3>2, <3>3, <1>1 DEF RowBudget, InHand
    <3>5. CopyFresh(v, m)'
      <4>1. CASE v = w
        BY <2>1, <2>3, <4>1, <1>2 DEF CopyFresh, Delivering, TypeOK
      <4>2. CASE v # w
        <5>1. cur'[v] = NoRow /\ stuck'[v] = {}
          BY <2>1, <4>2, <1>3 DEF InJob
        <5>. QED  BY <5>1, OutboxAssumption DEF CopyFresh, Delivering
      <4>. QED  BY <4>1, <4>2
    <3>. QED  BY <3>4, <3>5
  <2>4. CASE m # cur[w]
    <3>1. calls'[m] = calls[m]
      BY <2>1, <2>2, <2>4 DEF TypeOK
    <3>2. RowBudget(m)'
      BY <2>1, <3>1, <1>1, RowUntouched DEF InHand
    <3>. QED  BY <2>1, <2>4, <3>1, <3>2, CopyKept DEF TypeOK
  <2>. QED  BY <2>3, <2>4
<1>11. ASSUME NEW w \in Replicas, MarkSent(w) \/ MarkFailed(w) \/ IncrementRetry(w)
       PROVE  RowBudget(m)' /\ CopyFresh(v, m)'
  <2>1. /\ UNCHANGED <<calls, faults, stuck, seen>> /\ pc[w] = "record"
        /\ pc' = [pc EXCEPT ![w] = "pick"] /\ cur' = [cur EXCEPT ![w] = NoRow]
    BY <1>11 DEF MarkSent, MarkFailed, IncrementRetry, NextMessage, Goto, ledgerVars, bounds
  <2>2. cur[w] \in Rows /\ status[cur[w]] = "PROCESSING" /\ stuck[w] = {}
    BY <2>1 DEF HasRow, ViewInv, HandInv
  <2>3. \A u \in Replicas : cur'[u] = NoRow /\ stuck'[u] = {}
    <3>1. \A u \in Replicas \ {w} : cur[u] = NoRow /\ stuck[u] = {}
      BY <2>1, <1>3 DEF InJob
    <3>. QED  BY <2>1, <2>2, <3>1 DEF TypeOK
  <2>4. CopyFresh(v, m)'
    BY <2>3, OutboxAssumption DEF CopyFresh, Delivering
  <2>5. CASE m = cur[w]
    <3>1. /\ calls[m] <= attempts[m] + 1 /\ calls[m] <= MaxRetries + faults
          /\ seen[w][m] = attempts[m]
      BY <2>1, <2>2, <2>5 DEF BudgetInv, RowBudget, CopyFresh, Delivering
    <3>2. \/ status'[m] \in {"SENT", "FAILED"} /\ attempts'[m] = attempts[m]
          \/ /\ status'[m] = "PENDING" /\ attempts'[m] = attempts[m] + 1
             /\ attempts[m] + 1 < MaxRetries
      BY <1>11, <2>5, <3>1 DEF MarkSent, MarkFailed, IncrementRetry, AttemptsMade, Write, TypeOK
    <3>3. RowBudget(m)'
      BY <2>1, <3>1, <3>2, <1>1 DEF RowBudget
    <3>. QED  BY <2>4, <3>3
  <2>6. CASE m # cur[w]
    <3>1. status'[m] = status[m] /\ attempts'[m] = attempts[m]
      BY <1>11, <2>2, <2>6 DEF MarkSent, MarkFailed, IncrementRetry, Write, TypeOK
    <3>2. InHand(m) => InHand(m)'
      <4>1. ~InHand(m)
        BY <2>1, <2>6, <1>3, OutboxAssumption DEF InHand, InJob
      <4>. QED  BY <4>1
    <3>. QED  BY <2>1, <2>4, <3>1, <3>2, <1>1, RowUntouched
  <2>. QED  BY <2>5, <2>6
\* The row in hand is abandoned, and the fault pays for the attempt that
\* recovery will count against it.
<1>12. ASSUME NEW w \in Replicas, Crash(w) \/ MessageError(w)
       PROVE  RowBudget(m)' /\ CopyFresh(v, m)'
  <2>1. /\ UNCHANGED <<status, attempts, calls>> /\ faults' = faults + 1
        /\ cur' = [cur EXCEPT ![w] = NoRow] /\ InJob(w)
        /\ \A u \in Replicas \ {w} : /\ stuck'[u] = stuck[u] /\ seen'[u] = seen[u]
                                     /\ pc'[u] = pc[u]
        /\ pc'[w] # "requeue"
    BY <1>12 DEF Crash, MessageError, Leave, NextMessage, Goto, Fault, rowVars, InJob, TypeOK
  <2>2. RowBudget(m)'
    <3>1. /\ calls[m] <= MaxRetries + faults
          /\ status[m] = "PROCESSING" => attempts[m] + 1 <= MaxRetries + faults
      BY <1>2 DEF RowBudget
    <3>. QED  BY <2>1, <3>1, <1>2, <1>1 DEF RowBudget
  <2>3. CASE v = w
    <3>1. ~Delivering(v, m)'
      BY <2>1, <2>3, OutboxAssumption DEF Delivering, TypeOK
    <3>. QED  BY <2>1, <2>2, <2>3, <3>1, <1>2 DEF CopyFresh
  <2>4. CASE v # w
    BY <2>1, <2>2, <2>4, CopyKept DEF TypeOK
  <2>. QED  BY <2>3, <2>4
<1>13. ASSUME NEW a \in Admins, AdminRetry(a) \/ AdminDiscard(a)
       PROVE  RowBudget(m)' /\ CopyFresh(v, m)'
  <2>1. admin[a] # Idle /\ admin[a].row \in Rows /\ UNCHANGED <<faults, cur, pc, stuck, seen>>
    BY <1>13 DEF AdminRetry, AdminDiscard, Idle, TypeOK, jobVars, ledgerVars, bounds
  <2>2. status[admin[a].row] = "FAILED"
    BY <2>1 DEF ViewInv
  <2>3. CASE m = admin[a].row
    <3>1. cur[v] # m /\ m \notin stuck[v]
      BY <2>2, <2>3 DEF ViewInv
    <3>2. CopyFresh(v, m)'
      BY <2>1, <3>1 DEF CopyFresh, Delivering
    <3>3. \/ status'[m] = "PENDING" /\ attempts'[m] = 0 /\ calls'[m] = 0
          \/ status'[m] = "DISCARDED" /\ attempts'[m] = attempts[m] /\ calls'[m] = calls[m]
      BY <1>13, <2>3 DEF AdminRetry, AdminDiscard, Write, TypeOK, ledgerVars
    <3>4. calls[m] <= attempts[m] + 1 /\ calls[m] <= MaxRetries + faults
      BY <2>2, <2>3, <1>2 DEF RowBudget
    <3>5. RowBudget(m)'
      BY <2>1, <3>3, <3>4, <1>1 DEF RowBudget
    <3>. QED  BY <3>2, <3>5
  <2>4. CASE m # admin[a].row
    <3>1. status'[m] = status[m] /\ attempts'[m] = attempts[m] /\ calls'[m] = calls[m]
      BY <1>13, <2>1, <2>4 DEF AdminRetry, AdminDiscard, Write, TypeOK, ledgerVars
    <3>2. RowBudget(m)'
      BY <2>1, <3>1, <1>1, RowUntouched DEF InHand
    <3>. QED  BY <2>1, <3>1, <3>2, CopyKept
  <2>. QED  BY <2>3, <2>4
<1>. QED
  BY <1>4, <1>5, <1>6, <1>7, <1>8, <1>9, <1>10, <1>11, <1>12, <1>13 DEF Next, JobStep, Environment

\* No send() call escapes the retry budget by more than the faults cost, however
\* often a row was retried, recovered or requeued.
THEOREM BudgetKept ==
  ASSUME Undisturbed
  PROVE  Spec => []RetryBudget
<1>1. OneWriterInv /\ OneWriterInv' /\ BudgetInv /\ [Next]_vars => BudgetInv'
  BY BudgetNext
<1>2. OneWriterInv /\ BudgetInv => RetryBudget
  <2>. SUFFICES ASSUME OneWriterInv, BudgetInv, NEW m \in Rows
                PROVE  /\ calls[m] <= attempts[m] + (IF status[m] = "PENDING" THEN 0 ELSE 1)
                       /\ calls[m] <= MaxRetries + faults
    BY DEF RetryBudget
  <2>1. calls[m] \in Nat /\ attempts[m] \in Nat
    BY DEF OneWriterInv, TypeInv, TypeOK
  <2>. QED  BY <2>1 DEF BudgetInv, RowBudget
<1>. QED  BY OneWriter, BudgetInit, <1>1, <1>2, PTL DEF Spec

-----------------------------------------------------------------------------
(* The order of the queue *)

\* A place that is given up does not change the order of those that stay.
LEMMA LeaveDueOrder ==
  ASSUME TypeOK, NEW r \in Places, NEW m \in Rows, NEW k \in Rows, rank' = LeaveDue(r),
         rank'[m] > 0, rank'[k] > rank'[m]
  PROVE  rank[k] > rank[m] /\ m # r /\ k # r
<1>1. rank[m] \in Nat /\ rank[k] \in Nat /\ rank[r] \in Nat
  BY PlacesApart DEF TypeOK
<1>2. m # r /\ k # r
  BY <1>1, PlacesApart DEF LeaveDue
<1>3. DEFINE Closes == rank[r] > 0 /\ \A j \in Places \ {r} : rank[j] # rank[r]
<1>4. /\ rank'[m] = IF Closes /\ rank[m] > rank[r] THEN rank[m] - 1 ELSE rank[m]
      /\ rank'[k] = IF Closes /\ rank[k] > rank[r] THEN rank[k] - 1 ELSE rank[k]
  BY <1>2, PlacesApart DEF LeaveDue
<1>. HIDE DEF Closes
<1>. QED  BY <1>1, <1>2, <1>4

\* A time that is read now is behind those that were read before.
LEMMA JoinDueOrder ==
  ASSUME TypeOK, NEW S \in SUBSET Places, NEW m \in Rows, NEW k \in Rows,
         rank' = JoinDue(S), rank[m] > 0, m \notin S, rank'[k] > rank'[m]
  PROVE  rank[k] > rank[m] /\ k \notin S
<1>1. rank[m] \in Nat /\ rank[k] \in Nat
  BY PlacesApart DEF TypeOK
<1>2. rank'[m] = rank[m] + 1
  BY PlacesApart DEF JoinDue
<1>3. rank'[k] = IF k \in S THEN 1 ELSE IF rank[k] > 0 THEN rank[k] + 1 ELSE 0
  BY PlacesApart DEF JoinDue
<1>. QED  BY <1>1, <1>2, <1>3

\* A commit moves the rows it writes to the place of the time that was read.
LEMMA DueSinceOrder ==
  ASSUME TypeOK, NEW s \in Places \ Rows, NEW S \in SUBSET Rows, NEW m \in Rows, NEW k \in Rows,
         rank' = DueSince(s, S), m \notin S, rank'[k] > rank'[m]
  PROVE  IF k \in S THEN rank[s] > rank[m] ELSE rank[k] > rank[m]
<1>1. rank'[m] = rank[m] /\ rank'[k] = IF k \in S THEN rank[s] ELSE rank[k]
  BY PlacesApart DEF DueSince
<1>. QED  BY <1>1

\* What lets k be ahead of m after a step.
Passes(k, m) ==
  \/ k \in DueRows /\ rank[k] > rank[m]
  \/ \E s \in ReadFor(k) : rank[s] > rank[m]

\* No due row is passed by another, whatever leaves or rejoins the queue, but
\* for one whose time had been read before this one became due.
THEOREM FirstDueFirstServed ==
  ASSUME Undisturbed
  PROVE  Spec => NoQueueJumping
<1>1. ASSUME OneWriterInv, OneWriterInv', [Next]_vars, NEW m \in Rows, NEW k \in Rows,
             m \in DueRows, m \in DueRows', k \in DueRows', rank'[k] > rank'[m]
      PROVE  Passes(k, m)
  <2>. USE <1>1 DEF OneWriterInv, TypeInv
  <2>1. /\ status[m] = "PENDING" /\ rank[m] > 0 /\ rank'[m] > 0 /\ status'[k] = "PENDING"
        /\ rank[m] \in Nat /\ rank[k] \in Nat
    BY PlacesApart DEF DueRows, TypeOK
  <2>2. ASSUME status'[k] = status[k], rank[k] > rank[m]
        PROVE  Passes(k, m)
    <3>1. rank[k] > 0 /\ status[k] = "PENDING"
      BY <2>2, <2>1
    <3>. QED  BY <2>2, <3>1 DEF DueRows, Passes
  <2>3. ASSUME NEW r \in Rows, CreatePending(r)
        PROVE  Passes(k, m)
    <3>1. status[r] = "ABSENT" /\ rank' = rank /\ status' = [status EXCEPT ![r] = "PENDING"]
      BY <2>3 DEF CreatePending, Write
    <3>2. CASE k = r
      BY <3>1, <3>2, PlacesApart DEF Passes, ReadFor
    <3>3. CASE k # r
      BY <2>2, <3>1, <3>3 DEF TypeOK
    <3>. QED  BY <3>2, <3>3
  <2>4. ASSUME NEW S \in SUBSET Places, rank' = JoinDue(S), m \notin S, status' = status
        PROVE  Passes(k, m)
    <3>1. rank[k] > rank[m]
      BY <2>1, <2>4, JoinDueOrder
    <3>. QED  BY <2>2, <2>4, <3>1
  <2>5. ASSUME NEW r \in Rows, BeginInsert(r) \/ BackoffElapses(r)
        PROVE  Passes(k, m)
    <3>1. rank[r] = 0 /\ rank' = JoinDue({r}) /\ status' = status
      BY <2>5 DEF BackoffElapses, BeginInsert
    <3>. QED  BY <2>4, <2>1, <3>1, PlacesApart
  <2>6. ASSUME NEW r \in Places, rank' = LeaveDue(r), \A j \in Rows \ {r} : status'[j] = status[j]
        PROVE  Passes(k, m)
    <3>1. rank[k] > rank[m] /\ k # r
      BY <2>1, <2>6, LeaveDueOrder
    <3>. QED  BY <2>2, <2>6, <3>1
  <2>7. ASSUME NEW w \in Replicas, Acquire(w)
        PROVE  Passes(k, m)
    <3>1. rank' = JoinDue({w}) /\ status' = status /\ m \notin {w}
      BY <2>7, PlacesApart DEF Acquire, BeginRecovery
    <3>. QED  BY <2>4, <3>1, PlacesApart
  <2>8. ASSUME NEW w \in Replicas, RecoverScan(w)
        PROVE  Passes(k, m)
    <3>1. status' = status /\ rank' \in {rank, LeaveDue(w)}
      BY <2>8 DEF RecoverScan
    <3>. QED  BY <2>2, <2>6, <3>1, PlacesApart
  <2>9. ASSUME NEW w \in Replicas, RecoverCommit(w)
        PROVE  Passes(k, m)
    <3>1. rank' = DueSince(w, stuck[w]) /\ stuck[w] \subseteq Rows /\ m \notin stuck[w]
      BY <2>9, <2>1 DEF RecoverCommit, ViewInv, TypeOK
    <3>2. IF k \in stuck[w] THEN rank[w] > rank[m] ELSE rank[k] > rank[m]
      BY <3>1, DueSinceOrder, PlacesApart
    <3>3. k \notin stuck[w] => status'[k] = status[k]
      BY <2>9, Zenon DEF RecoverCommit
    <3>4. CASE k \in stuck[w]
      BY <3>2, <3>4, PlacesApart DEF Passes, ReadFor
    <3>. QED  BY <2>2, <3>2, <3>3, <3>4
  <2>10. ASSUME NEW w \in Replicas, MarkProcessing(w)
         PROVE  Passes(k, m)
    <3>1. PICK r \in Rows : rank' = LeaveDue(r) /\ status' = [status EXCEPT ![r] = "PROCESSING"]
      BY <2>10 DEF MarkProcessing
    <3>. QED  BY <2>6, <3>1, PlacesApart DEF TypeOK
  <2>11. ASSUME NEW w \in Replicas, MarkSent(w) \/ MarkFailed(w) \/ IncrementRetry(w)
         PROVE  Passes(k, m)
    <3>1. cur[w] \in Rows /\ rank' = LeaveDue(cur[w])
      BY <2>11 DEF MarkSent, MarkFailed, IncrementRetry, HasRow
    <3>2. \A j \in Rows \ {cur[w]} : status'[j] = status[j]
      BY <2>11 DEF MarkSent, MarkFailed, IncrementRetry, Write, TypeOK
    <3>. QED  BY <2>6, <3>1, <3>2, PlacesApart
  <2>12. ASSUME NEW w \in Replicas, EndOfBatch(w) \/ Crash(w) \/ JobError(w)
         PROVE  Passes(k, m)
    <3>1. rank' = LeaveDue(w) /\ status' = status
      BY <2>12 DEF EndOfBatch, Crash, JobError, Leave
    <3>. QED  BY <2>6, <3>1, PlacesApart
  <2>13. ASSUME NEW a \in Admins, AdminOpen(a)
         PROVE  Passes(k, m)
    <3>1. status' = status /\ (rank' = rank \/ rank' = JoinDue({a})) /\ m \notin {a}
      BY <2>13, PlacesApart DEF AdminOpen, Decide
    <3>. QED  BY <2>2, <2>4, <3>1, PlacesApart
  <2>14. ASSUME NEW a \in Admins, AdminRetry(a) \/ AdminDiscard(a)
         PROVE  Passes(k, m)
    <3>1. admin[a] # Idle /\ admin[a].row \in Rows
      BY <2>14 DEF AdminRetry, AdminDiscard, Idle, TypeOK
    <3>2. status[admin[a].row] = "FAILED"
      BY <3>1 DEF ViewInv
    <3>3. \A j \in Rows \ {admin[a].row} : status'[j] = status[j]
      BY <2>14 DEF AdminRetry, AdminDiscard, Write, TypeOK
    <3>4. CASE AdminRetry(a)
      <4>1. rank' = DueSince(a, {admin[a].row}) /\ admin[a] = [op |-> "retry", row |-> admin[a].row]
        BY <3>4, <3>1 DEF AdminRetry, TypeOK
      <4>2. IF k = admin[a].row THEN rank[a] > rank[m] ELSE rank[k] > rank[m]
        BY <2>1, <3>1, <3>2, <4>1, DueSinceOrder, PlacesApart
      <4>3. CASE k = admin[a].row
        BY <4>1, <4>2, <4>3, PlacesApart DEF Passes, ReadFor
      <4>. QED  BY <2>2, <3>3, <4>2, <4>3
    <3>5. CASE AdminDiscard(a)
      <4>1. rank' = LeaveDue(admin[a].row)
        BY <3>5 DEF AdminDiscard
      <4>. QED  BY <2>6, <3>1, <3>3, <4>1, PlacesApart
    <3>. QED  BY <2>14, <3>4, <3>5
  <2>15. ASSUME UNCHANGED <<rank, status>>
         PROVE  Passes(k, m)
    BY <2>2, <2>15
  <2>16. ASSUME \/ \E r \in Rows : TimeoutElapses(r)
                \/ \E w \in Replicas :
                     FetchBatch(w) \/ RetryAttempt(w) \/ Send(w) \/ MessageError(w)
                \/ LockDrop
                \/ UNCHANGED vars
         PROVE  UNCHANGED <<rank, status>>
    BY <2>16 DEF TimeoutElapses, FetchBatch, RetryAttempt, Send, MessageError, LockDrop, rowVars, vars
  <2>. QED
    BY <2>3, <2>5, <2>7, <2>8, <2>9, <2>10, <2>11, <2>12, <2>13, <2>14, <2>15, <2>16
       DEF Next, JobStep, Environment
<1>2. OneWriterInv /\ OneWriterInv' /\ [Next]_vars
        => [\A m \in Rows :
              m \in DueRows /\ m \in DueRows' =>
                \A k \in Ahead(m)' \ Ahead(m) : \E s \in ReadFor(k) : rank[s] > rank[m]]_vars
  BY <1>1 DEF Ahead, DueRows, Passes
<1>. QED  BY OneWriter, <1>2, PTL DEF Spec, NoQueueJumping

-----------------------------------------------------------------------------
(***************************************************************************)
(* The outbox implements OutboxPromise.                                    *)
(***************************************************************************)

\* A step that leaves one row's phase or count different, and takes the step of
\* the promise that allows it, is a step of the promise.
LEMMA PhaseStep ==
  ASSUME TypeOK, NEW r \in Rows, NEW st \in Statuses,
         status' = [status EXCEPT ![r] = st], UNCHANGED accepted,
         \/ status[r] = "ABSENT" /\ st = "PENDING"
         \/ status[r] = "PROCESSING" /\ st = "SENT" /\ accepted[r] > 0
         \/ status[r] = "PROCESSING" /\ st = "FAILED"
         \/ status[r] = "FAILED" /\ st \in {"PENDING", "DISCARDED"}
  PROVE  Promise!Next
<1>. DEFINE ph == [m \in Rows |-> Phase(m)]
<1>1. \A m \in Rows \ {r} : Phase(m)' = Phase(m)
  BY DEF Phase, TypeOK
<1>2. status'[r] = st
  BY DEF TypeOK
<1>3. ASSUME NEW to, Phase(r)' = to
      PROVE  ph' = [ph EXCEPT ![r] = to]
  BY <1>1, <1>3
<1>4. CASE status[r] = "ABSENT" /\ st = "PENDING"
  <2>1. Phase(r) = "none" /\ Phase(r)' = "owed"
    BY <1>2, <1>4 DEF Phase
  <2>2. Promise!Submit(r)
    BY <2>1, <1>3 DEF Promise!Submit, Promise!Move
  <2>. QED  BY <2>2 DEF Promise!Next
<1>5. CASE status[r] = "PROCESSING" /\ st = "SENT" /\ accepted[r] > 0
  <2>1. Phase(r) = "owed" /\ Phase(r)' = "done"
    BY <1>2, <1>5 DEF Phase
  <2>2. Promise!Settle(r)
    BY <2>1, <1>3, <1>5 DEF Promise!Settle, Promise!Move
  <2>. QED  BY <2>2 DEF Promise!Next
<1>6. CASE status[r] = "PROCESSING" /\ st = "FAILED"
  <2>1. Phase(r) = "owed" /\ Phase(r)' = "dead"
    BY <1>2, <1>6 DEF Phase
  <2>2. Promise!GiveUp(r)
    BY <2>1, <1>3 DEF Promise!GiveUp, Promise!Move
  <2>. QED  BY <2>2 DEF Promise!Next
<1>7. CASE status[r] = "FAILED" /\ st = "PENDING"
  <2>1. Phase(r) = "dead" /\ Phase(r)' = "owed"
    BY <1>2, <1>7 DEF Phase
  <2>2. Promise!Reopen(r)
    BY <2>1, <1>3 DEF Promise!Reopen, Promise!Move
  <2>. QED  BY <2>2 DEF Promise!Next
<1>8. CASE status[r] = "FAILED" /\ st = "DISCARDED"
  <2>1. Phase(r) = "dead" /\ Phase(r)' = "dropped"
    BY <1>2, <1>8 DEF Phase
  <2>2. Promise!Drop(r)
    BY <2>1, <1>3 DEF Promise!Drop, Promise!Move
  <2>. QED  BY <2>2 DEF Promise!Next
<1>. QED  BY <1>4, <1>5, <1>6, <1>7, <1>8

\* A step inside one phase changes nothing the promise sees.
LEMMA PhaseStutter ==
  ASSUME UNCHANGED accepted, \A m \in Rows : Phase(m)' = Phase(m)
  PROVE  UNCHANGED Promise!vars
BY DEF Promise!vars

\* The first states of the outbox are first states of the promise.
LEMMA PromiseInit == Init => Promise!Init
BY DEF Init, Promise!Init, Phase

\* Every step of the outbox is a step of the promise, or changes nothing it can see.
LEMMA PromiseNext ==
  ASSUME OneWriterInv, DuplicatesHaveACause, [Next]_vars
  PROVE  [Promise!Next]_(Promise!vars)
<1>. USE DEF OneWriterInv, TypeInv
<1>1. ASSUME NEW k \in Rows, CreatePending(k)
      PROVE  Promise!Next
  <2>1. status[k] = "ABSENT" /\ status' = [status EXCEPT ![k] = "PENDING"] /\ UNCHANGED accepted
    BY <1>1 DEF CreatePending, Write, ledgerVars
  <2>. QED  BY <2>1, PhaseStep DEF Statuses
<1>2. ASSUME NEW w \in Replicas, RecoverCommit(w)
      PROVE  UNCHANGED Promise!vars
  <2>1. \A m \in Rows : Phase(m)' = Phase(m)
    BY <1>2 DEF RecoverCommit, ViewInv, Phase
  <2>. QED  BY <1>2, <2>1, PhaseStutter DEF RecoverCommit, ledgerVars
<1>3. ASSUME NEW w \in Replicas, MarkProcessing(w)
      PROVE  UNCHANGED Promise!vars
  <2>1. PICK r \in Rows : NextInBatch(w, r) /\ status' = [status EXCEPT ![r] = "PROCESSING"]
    BY <1>3 DEF MarkProcessing
  <2>2. status[r] = "PENDING"
    BY <2>1 DEF NextInBatch, ViewInv
  <2>3. \A m \in Rows : Phase(m)' = Phase(m)
    BY <2>1, <2>2 DEF Phase, TypeOK
  <2>. QED  BY <1>3, <2>3, PhaseStutter DEF MarkProcessing, ledgerVars
<1>4. ASSUME NEW w \in Replicas, RetryAttempt(w) \/ Send(w)
      PROVE  Promise!Next \/ UNCHANGED Promise!vars
  <2>1. cur[w] \in Rows /\ status[cur[w]] = "PROCESSING" /\ UNCHANGED status
    BY <1>4 DEF RetryAttempt, Send, HasRow, ViewInv, rowVars
  <2>2. \A m \in Rows : Phase(m)' = Phase(m)
    BY <2>1 DEF Phase
  <2>3. Phase(cur[w]) = "owed"
    BY <2>1 DEF Phase
  <2>4. \/ accepted' = [accepted EXCEPT ![cur[w]] = @ + 1]
        \/ accepted' = [accepted EXCEPT ![cur[w]] = @]
    BY <1>4 DEF RetryAttempt, Send, Attempt
  <2>5. CASE accepted' = [accepted EXCEPT ![cur[w]] = @ + 1]
    <3>1. [m \in Rows |-> Phase(m)]' = [m \in Rows |-> Phase(m)]
      BY <2>2
    <3>2. Promise!Deliver(cur[w])
      BY <2>1, <2>3, <2>5, <3>1 DEF Promise!Deliver
    <3>. QED  BY <2>1, <3>2 DEF Promise!Next
  <2>6. CASE accepted' = [accepted EXCEPT ![cur[w]] = @]
    <3>1. accepted' = accepted
      BY <2>6 DEF TypeOK
    <3>. QED  BY <2>2, <3>1, PhaseStutter
  <2>. QED  BY <2>4, <2>5, <2>6
<1>5. ASSUME NEW w \in Replicas, MarkSent(w)
      PROVE  Promise!Next
  <2>1. /\ cur[w] \in Rows /\ status[cur[w]] = "PROCESSING" /\ UNCHANGED accepted
        /\ status' = [status EXCEPT ![cur[w]] = "SENT"]
        /\ Delivering(w, cur[w]) /\ ok[w]
    BY <1>5 DEF MarkSent, Write, HasRow, ViewInv, ledgerVars, Delivering
  <2>2. accepted[cur[w]] = lost[cur[w]] + 1
    BY <2>1 DEF DuplicatesHaveACause
  <2>3. accepted[cur[w]] > 0
    BY <2>1, <2>2 DEF TypeOK
  <2>. QED  BY <2>1, <2>3, PhaseStep DEF Statuses
<1>6. ASSUME NEW w \in Replicas, MarkFailed(w)
      PROVE  Promise!Next
  <2>1. /\ cur[w] \in Rows /\ status[cur[w]] = "PROCESSING" /\ UNCHANGED accepted
        /\ status' = [status EXCEPT ![cur[w]] = "FAILED"]
    BY <1>6 DEF MarkFailed, Write, HasRow, ViewInv, ledgerVars
  <2>. QED  BY <2>1, PhaseStep DEF Statuses
<1>7. ASSUME NEW w \in Replicas, IncrementRetry(w)
      PROVE  UNCHANGED Promise!vars
  <2>1. /\ cur[w] \in Rows /\ status[cur[w]] = "PROCESSING" /\ UNCHANGED accepted
        /\ status' = [status EXCEPT ![cur[w]] = "PENDING"]
    BY <1>7 DEF IncrementRetry, Write, HasRow, ViewInv, ledgerVars
  <2>2. \A m \in Rows : Phase(m)' = Phase(m)
    BY <2>1 DEF Phase, TypeOK
  <2>. QED  BY <2>1, <2>2, PhaseStutter
<1>8. ASSUME NEW a \in Admins, AdminRetry(a) \/ AdminDiscard(a)
      PROVE  Promise!Next
  <2>1. admin[a] # Idle /\ admin[a].row \in Rows /\ UNCHANGED accepted
    BY <1>8 DEF AdminRetry, AdminDiscard, Idle, TypeOK, ledgerVars
  <2>2. status[admin[a].row] = "FAILED"
    BY <2>1 DEF ViewInv
  <2>3. \/ status' = [status EXCEPT ![admin[a].row] = "PENDING"]
        \/ status' = [status EXCEPT ![admin[a].row] = "DISCARDED"]
    BY <1>8 DEF AdminRetry, AdminDiscard, Write
  <2>. QED  BY <2>1, <2>2, <2>3, PhaseStep DEF Statuses
<1>9. ASSUME \/ \E k \in Rows : BeginInsert(k) \/ BackoffElapses(k) \/ TimeoutElapses(k)
             \/ \E a \in Admins : AdminOpen(a)
             \/ \E w \in Replicas :
                  \/ Acquire(w) \/ RecoverScan(w) \/ FetchBatch(w) \/ EndOfBatch(w)
                  \/ Crash(w) \/ JobError(w) \/ MessageError(w)
             \/ LockDrop
             \/ UNCHANGED vars
      PROVE  UNCHANGED Promise!vars
  <2>1. UNCHANGED <<status, accepted>>
    BY <1>9 DEF BeginInsert, BackoffElapses, TimeoutElapses, AdminOpen, Acquire, RecoverScan, FetchBatch,
                EndOfBatch, Crash, JobError, MessageError, LockDrop, rowVars, ledgerVars, vars
  <2>2. \A m \in Rows : Phase(m)' = Phase(m)
    BY <2>1 DEF Phase
  <2>. QED  BY <2>1, <2>2, PhaseStutter
<1>. QED
  BY <1>1, <1>2, <1>3, <1>4, <1>5, <1>6, <1>7, <1>8, <1>9 DEF Next, JobStep, Environment

\* The outbox keeps its promise of at-least-once delivery and one-way statuses.
THEOREM OutboxKeepsPromise ==
  ASSUME Undisturbed
  PROVE  Spec => KeepsPromise
<1>1. OneWriterInv /\ DuplicatesHaveACause /\ [Next]_vars => [Promise!Next]_(Promise!vars)
  BY PromiseNext
<1>. QED
  BY OneWriter, DuplicatesAccounted, PromiseInit, <1>1, PTL DEF Spec, KeepsPromise, Promise!Spec

=============================================================================

-------------------------- MODULE WebhookIntakeProofs --------------------------
(***************************************************************************)
(* That a message is worked on, and paid for, a second time only after an  *)
(* attempt that left no row or beside one in progress, and that the history *)
(* and the open runs follow the work: for any number of messages, requests, *)
(* faults and repeated deliveries.                                         *)
(***************************************************************************)
EXTENDS WebhookIntake, FiniteSetTheorems, TLAPS

\* What the argument needs of the types. The counters of runs are not among
\* them: their type rests on how many requests have a run open.
Shape ==
  /\ pc   \in [Handlers -> Steps]
  /\ job  \in [Handlers -> Messages \cup {NoMessage}]
  /\ paid \in [Handlers -> BOOLEAN]
  /\ processed \in SUBSET Messages
  /\ work \in [Messages -> Nat] /\ undone \in [Messages -> Nat]
  /\ overlaps \in [Messages -> Nat] /\ paidRuns \in [Messages -> Nat]
  /\ \A h \in Handlers : pc[h] # "idle" => job[h] \in Messages

\* Some request works on the message now, or its row is there.
Taken(m) == m \in processed \/ \E h \in Handlers : job[h] = m /\ Working(h)

\* The invariant behind the first half: one unexcused attempt at most, and that
\* one only while the message is taken.
WorkCounted ==
  \A m \in Messages :
     work[m] <= undone[m] + overlaps[m] + (IF Taken(m) THEN 1 ELSE 0)

\* Requests past the test that have committed no payment yet.
Unpaid(m) == {h \in Handlers : job[h] = m /\ Working(h) /\ ~paid[h]}

\* The invariant behind the second half: each of them is an attempt that is
\* counted and not a paid run.
PaidCounted ==
  \A m \in Messages : paidRuns[m] + Cardinality(Unpaid(m)) <= work[m]

IntakeInv == Shape /\ WorkCounted /\ PaidCounted

-----------------------------------------------------------------------------
\* The initial state satisfies the invariant: nobody works on anything.
LEMMA InitIntake == Init => IntakeInv
<1> SUFFICES ASSUME Init PROVE IntakeInv
  OBVIOUS
<1>1. Shape
  BY DEF Init, Shape, Steps, Zero
<1>2. WorkCounted
  BY DEF Init, WorkCounted, Zero
<1>3. PaidCounted
  <2>1. \A m \in Messages : Unpaid(m) = {}
    BY DEF Init, Unpaid, Working
  <2>2. Cardinality({}) = 0
    BY FS_EmptySet
  <2>3. \A m \in Messages : paidRuns[m] = 0 /\ work[m] = 0
    BY DEF Init, Zero
  <2> QED
    BY <2>1, <2>2, <2>3 DEF PaidCounted
<1> QED
  BY <1>1, <1>2, <1>3 DEF IntakeInv

\* The shape is kept by every step.
LEMMA NextShape == Shape /\ [Next]_vars => Shape'
<1> SUFFICES ASSUME Shape, [Next]_vars PROVE Shape'
  OBVIOUS
<1> USE DEF Shape, Steps
<1>1. ASSUME NEW m \in Messages, Write(m) PROVE Shape'
  BY <1>1 DEF Write, slots, rows, ledger, bounds
<1>2. ASSUME NEW m \in Messages, NEW h \in Handlers, Begin(h, m) PROVE Shape'
  BY <1>2 DEF Begin, Goto, rows, ledger
<1>3. ASSUME NEW h \in Handlers, Answer(h) PROVE Shape'
  BY <1>3 DEF Answer, Release, Goto, rows, ledger, bounds
<1>4. ASSUME NEW h \in Handlers, CheckDuplicate(h) PROVE Shape'
  BY <1>4 DEF CheckDuplicate, AnswerWith, Goto, Bump, rows, bounds
<1>5. ASSUME NEW h \in Handlers, LookUp(h) PROVE Shape'
  BY <1>5 DEF LookUp, AnswerWith, Goto, Bump, rows, bounds
<1>6. ASSUME NEW h \in Handlers, OpenConversation(h) PROVE Shape'
  BY <1>6 DEF OpenConversation, Goto, ledger, bounds
<1>7. ASSUME NEW h \in Handlers, Route(h) PROVE Shape'
  BY <1>7 DEF Route, Goto, rows, ledger, bounds
<1>8. ASSUME NEW h \in Handlers,
             AssistantThinks(h) \/ StoreQuestion(h) \/ StoreResponse(h)
               \/ RecordResponse(h) \/ DeliverReply(h)
      PROVE Shape'
  BY <1>8 DEF AssistantThinks, StoreQuestion, StoreResponse, RecordResponse, DeliverReply,
     Goto, rows, ledger, bounds
<1>9. ASSUME NEW h \in Handlers, CreateRun(h) \/ LaunchRun(h) PROVE Shape'
  BY <1>9 DEF CreateRun, LaunchRun, Goto, ledger, bounds
<1>10. ASSUME NEW h \in Handlers, Decide(h) PROVE Shape'
  BY <1>10 DEF Decide, Goto, rows, ledger, bounds
<1>11. ASSUME NEW h \in Handlers, CommitPayment(h) PROVE Shape'
  BY <1>11 DEF CommitPayment, Goto, Bump, rows, bounds
<1>12. ASSUME NEW h \in Handlers, Notify(h) PROVE Shape'
  BY <1>12 DEF Notify, Goto, rows, bounds
<1>13. ASSUME NEW h \in Handlers, CompleteRun(h) PROVE Shape'
  BY <1>13 DEF CompleteRun, Goto, ledger, bounds
<1>14. ASSUME NEW h \in Handlers, StoreUserMessage(h) \/ StoreAssistantMessage(h)
       PROVE Shape'
  BY <1>14 DEF StoreUserMessage, StoreAssistantMessage, Goto, ledger, bounds
<1>15. ASSUME NEW h \in Handlers, MarkProcessed(h) PROVE Shape'
  BY <1>15 DEF MarkProcessed, AnswerWith, Goto, ledger, bounds
<1>16. ASSUME NEW h \in Handlers, pc[h] # "idle", Catch(h) PROVE Shape'
  BY <1>16 DEF Catch, AnswerWith, Goto, Bump
<1>17. ASSUME NEW h \in Handlers, ErrorOutsideTry(h) PROVE Shape'
  BY <1>17 DEF ErrorOutsideTry, AnswerWith, Goto, Bump, rows
<1>18. ASSUME NEW h \in Handlers, Crash(h) PROVE Shape'
  BY <1>18 DEF Crash, Release, Goto, Bump, rows
<1>19. CASE UNCHANGED vars
  BY <1>19 DEF vars, slots, rows, ledger, bounds
<1> QED
  <2>1. CASE \E m \in Messages : Write(m) \/ Deliver(m) \/ DeliverAgain(m)
    BY <2>1, <1>1, <1>2 DEF Deliver, DeliverAgain
  <2>2. CASE \E h \in Handlers : Step(h)
    BY <2>2, <1>3, <1>4, <1>5, <1>6, <1>7, <1>8, <1>9, <1>10, <1>11, <1>12, <1>13,
       <1>14, <1>15, <1>16 DEF Step, RecipientMissing
  <2>3. CASE \E h \in Handlers : Raise(h) \/ CommitFails(h) \/ ErrorOutsideTry(h) \/ Crash(h)
    BY <2>3, <1>16, <1>17, <1>18 DEF Raise, CommitFails, Trying
  <2> QED
    BY <1>19, <2>1, <2>2, <2>3 DEF Next

-----------------------------------------------------------------------------
(* The first half: attempts *)

\* A step that keeps the three counters and leaves every taken message taken.
LEMMA WorkKept ==
  ASSUME Shape, WorkCounted,
         UNCHANGED <<work, undone, overlaps>>,
         \A m \in Messages : Taken(m) => Taken(m)'
  PROVE  WorkCounted'
BY DEF Shape, WorkCounted

\* A step that ends an attempt without a row.
LEMMA WorkEnded ==
  ASSUME Shape, WorkCounted, UNCHANGED <<work, overlaps>>, NEW n \in Messages,
         undone' = Bump(undone, n),
         \A m \in Messages \ {n} : Taken(m) => Taken(m)'
  PROVE  WorkCounted'
<1> SUFFICES ASSUME NEW m \in Messages
             PROVE  work'[m] <= undone'[m] + overlaps'[m] + (IF Taken(m)' THEN 1 ELSE 0)
  BY DEF WorkCounted
<1>1. CASE m = n
  <2>1. undone'[m] = undone[m] + 1
    BY <1>1 DEF Bump, Shape
  <2> QED
    BY <2>1 DEF Shape, WorkCounted
<1>2. CASE m # n
  <2>1. undone'[m] = undone[m]
    BY <1>2 DEF Bump, Shape
  <2> QED
    BY <1>2, <2>1 DEF Shape, WorkCounted
<1> QED
  BY <1>1, <1>2

\* A step of one request that goes on working keeps every message taken.
LEMMA StillTaken ==
  ASSUME Shape, NEW h \in Handlers, Working(h) => Working(h)',
         job' = job, processed \subseteq processed',
         \A g \in Handlers \ {h} : pc'[g] = pc[g]
  PROVE  \A m \in Messages : Taken(m) => Taken(m)'
BY DEF Taken, Working

\* A step that ends one request's work keeps every other message taken.
LEMMA OthersTaken ==
  ASSUME Shape, NEW h \in Handlers, processed \subseteq processed',
         \A g \in Handlers \ {h} : pc'[g] = pc[g] /\ job'[g] = job[g]
  PROVE  \A m \in Messages \ {job[h]} : Taken(m) => Taken(m)'
BY DEF Taken, Working

\* Every step keeps the attempts accounted for.
LEMMA NextWork == IntakeInv /\ [Next]_vars => WorkCounted'
<1> SUFFICES ASSUME Shape, WorkCounted, [Next]_vars PROVE WorkCounted'
  BY DEF IntakeInv
<1>1. ASSUME NEW m \in Messages, Write(m) PROVE WorkCounted'
  <2>1. \A k \in Messages : Taken(k) => Taken(k)'
    BY <1>1 DEF Write, slots, rows, Taken, Working
  <2> QED
    BY <1>1, <2>1, WorkKept DEF Write, ledger
<1>2. ASSUME NEW m \in Messages, NEW h \in Handlers, Begin(h, m) PROVE WorkCounted'
  <2>1. \A k \in Messages : Taken(k) => Taken(k)'
    BY <1>2 DEF Begin, Goto, rows, Taken, Working, Shape
  <2> QED
    BY <1>2, <2>1, WorkKept DEF Begin, ledger
<1>3. ASSUME NEW h \in Handlers, Answer(h) PROVE WorkCounted'
  <2>1. \A k \in Messages : Taken(k) => Taken(k)'
    BY <1>3 DEF Answer, Release, Goto, rows, Taken, Working, Shape
  <2> QED
    BY <1>3, <2>1, WorkKept DEF Answer, ledger
<1>4. ASSUME NEW h \in Handlers, CheckDuplicate(h) PROVE WorkCounted'
  <2>1. job' = job /\ processed' = processed /\ undone' = undone /\ job[h] \in Messages
    BY <1>4 DEF CheckDuplicate, rows, Shape
  <2>2. \A k \in Messages : Taken(k) => Taken(k)'
    BY <1>4, <2>1 DEF CheckDuplicate, AnswerWith, Goto, Taken, Working, Shape
  <2>3. CASE job[h] \in processed
    BY <1>4, <2>1, <2>2, <2>3, WorkKept DEF CheckDuplicate
  <2>4. CASE job[h] \notin processed
    <3>1. Taken(job[h])'
      BY <1>4, <2>1, <2>4 DEF CheckDuplicate, Goto, Taken, Working, Shape
    <3>2. work' = Bump(work, job[h])
      BY <1>4, <2>4 DEF CheckDuplicate
    <3>3. CASE \E g \in Handlers \ {h} : job[g] = job[h] /\ Working(g)
      <4>1. overlaps' = Bump(overlaps, job[h])
        BY <1>4, <2>4, <3>3 DEF CheckDuplicate
      <4> QED
        BY <2>1, <2>2, <3>1, <3>2, <4>1 DEF Bump, WorkCounted, Shape
    <3>4. CASE ~\E g \in Handlers \ {h} : job[g] = job[h] /\ Working(g)
      <4>1. overlaps' = overlaps
        BY <1>4, <2>4, <3>4 DEF CheckDuplicate
      <4>2. ~Taken(job[h])
        BY <1>4, <2>4, <3>4 DEF CheckDuplicate, Taken, Working
      <4> QED
        BY <2>1, <2>2, <3>1, <3>2, <4>1, <4>2 DEF Bump, WorkCounted, Shape
    <3> QED
      BY <3>3, <3>4
  <2> QED
    BY <2>3, <2>4
<1>5. ASSUME NEW h \in Handlers, LookUp(h) PROVE WorkCounted'
  <2>1. job[h] \in Messages /\ job' = job /\ processed' = processed /\ Working(h)
        /\ \A g \in Handlers \ {h} : pc'[g] = pc[g]
    BY <1>5 DEF LookUp, AnswerWith, Goto, rows, Shape, Working
  <2>2. CASE undone' = Bump(undone, job[h])
    BY <1>5, <2>1, <2>2, OthersTaken, WorkEnded DEF LookUp
  <2>3. CASE pc'[h] = "open" /\ undone' = undone
    <3>1. Working(h)'
      BY <2>3 DEF Working
    <3> QED
      BY <1>5, <2>1, <2>3, <3>1, StillTaken, WorkKept DEF LookUp
  <2> QED
    BY <1>5, <2>2, <2>3 DEF LookUp, Goto, Shape
<1>6. ASSUME NEW h \in Handlers,
             OpenConversation(h) \/ Route(h)
               \/ AssistantThinks(h) \/ StoreQuestion(h) \/ StoreResponse(h)
               \/ RecordResponse(h) \/ DeliverReply(h)
               \/ CreateRun(h) \/ LaunchRun(h) \/ Decide(h) \/ CommitPayment(h)
               \/ Notify(h) \/ CompleteRun(h)
               \/ StoreUserMessage(h) \/ StoreAssistantMessage(h)
      PROVE WorkCounted'
  <2>1. UNCHANGED <<work, undone, overlaps, job, processed>>
    BY <1>6 DEF OpenConversation, Route, AssistantThinks, StoreQuestion, StoreResponse,
       RecordResponse, DeliverReply, CreateRun, LaunchRun, Decide,
       CommitPayment, Notify, CompleteRun, StoreUserMessage, StoreAssistantMessage,
       ledger, rows
  <2>2. /\ \A g \in Handlers \ {h} : pc'[g] = pc[g]
        /\ pc'[h] \notin {"idle", "check", "answer"}
    BY <1>6 DEF OpenConversation, Route, AssistantThinks, StoreQuestion, StoreResponse,
       RecordResponse, DeliverReply, CreateRun, LaunchRun, Decide,
       CommitPayment, Notify, CompleteRun, StoreUserMessage, StoreAssistantMessage,
       Goto, Shape
  <2> QED
    BY <2>1, <2>2, StillTaken, WorkKept DEF Working
<1>7. ASSUME NEW h \in Handlers, MarkProcessed(h) PROVE WorkCounted'
  <2>1. \A k \in Messages : Taken(k) => Taken(k)'
    BY <1>7 DEF MarkProcessed, AnswerWith, Goto, Taken, Working, Shape
  <2> QED
    BY <1>7, <2>1, WorkKept DEF MarkProcessed, ledger
<1>8. ASSUME NEW h \in Handlers, pc[h] # "idle", Catch(h) PROVE WorkCounted'
  BY <1>8, OthersTaken, WorkEnded DEF Catch, AnswerWith, Goto, Shape
<1>9. ASSUME NEW h \in Handlers, ErrorOutsideTry(h) \/ Crash(h) PROVE WorkCounted'
  <2>1. /\ job[h] \in Messages /\ processed' = processed
        /\ UNCHANGED <<work, overlaps>>
        /\ undone' = IF Working(h) THEN Bump(undone, job[h]) ELSE undone
        /\ \A g \in Handlers \ {h} : pc'[g] = pc[g] /\ job'[g] = job[g]
    BY <1>9 DEF ErrorOutsideTry, Crash, AnswerWith, Release, Goto, rows, Shape
  <2>2. CASE Working(h)
    BY <2>1, <2>2, OthersTaken, WorkEnded
  <2>3. CASE ~Working(h)
    <3>1. \A m \in Messages : Taken(m) => Taken(m)'
      BY <2>1, <2>3 DEF Taken, Working
    <3> QED
      BY <2>1, <2>3, <3>1, WorkKept
  <2> QED
    BY <2>2, <2>3
<1>10. CASE UNCHANGED vars
  BY <1>10, WorkKept DEF vars, slots, rows, ledger, Taken, Working
<1> QED
  <2>1. CASE \E m \in Messages : Write(m) \/ Deliver(m) \/ DeliverAgain(m)
    BY <2>1, <1>1, <1>2 DEF Deliver, DeliverAgain
  <2>2. CASE \E h \in Handlers : Step(h)
    BY <2>2, <1>3, <1>4, <1>5, <1>6, <1>7, <1>8 DEF Step, RecipientMissing
  <2>3. CASE \E h \in Handlers : Raise(h) \/ CommitFails(h) \/ ErrorOutsideTry(h) \/ Crash(h)
    BY <2>3, <1>8, <1>9 DEF Raise, CommitFails, Trying
  <2> QED
    BY <1>10, <2>1, <2>2, <2>3 DEF Next

-----------------------------------------------------------------------------
(* The second half: payments *)

\* The unpaid attempts are finitely many.
LEMMA UnpaidFinite == \A m \in Messages : IsFiniteSet(Unpaid(m))
<1> TAKE m \in Messages
<1>1. Unpaid(m) \subseteq Handlers
  BY DEF Unpaid
<1> QED
  BY <1>1, FS_Subset, IntakeAssumption

\* A step that pays nobody and adds no unpaid attempt.
LEMMA PaidKept ==
  ASSUME Shape, PaidCounted, UNCHANGED paidRuns, Shape',
         \A m \in Messages : work'[m] >= work[m],
         \A m \in Messages : Unpaid(m)' \subseteq Unpaid(m)
  PROVE  PaidCounted'
<1> SUFFICES ASSUME NEW m \in Messages
             PROVE  paidRuns'[m] + Cardinality(Unpaid(m)') <= work'[m]
  BY DEF PaidCounted
<1>1. /\ IsFiniteSet(Unpaid(m)) /\ Unpaid(m)' \subseteq Unpaid(m)
      /\ work'[m] >= work[m] /\ paidRuns'[m] = paidRuns[m]
  BY UnpaidFinite
<1>2. /\ Cardinality(Unpaid(m)') <= Cardinality(Unpaid(m))
      /\ Cardinality(Unpaid(m)') \in Nat /\ Cardinality(Unpaid(m)) \in Nat
  BY <1>1, FS_Subset, FS_CardinalityType
<1>3. paidRuns[m] + Cardinality(Unpaid(m)) <= work[m]
  BY DEF PaidCounted
<1>4. work[m] \in Nat /\ work'[m] \in Nat /\ paidRuns[m] \in Nat
  BY DEF Shape
<1> QED
  BY <1>1, <1>2, <1>3, <1>4

\* An attempt that is past the test for the first time.
LEMMA PaidBegun ==
  ASSUME Shape, PaidCounted, UNCHANGED paidRuns, NEW h \in Handlers, NEW n \in Messages,
         work' = Bump(work, n),
         \A m \in Messages \ {n} : Unpaid(m)' \subseteq Unpaid(m),
         Unpaid(n)' \subseteq Unpaid(n) \cup {h}
  PROVE  PaidCounted'
<1> SUFFICES ASSUME NEW m \in Messages
             PROVE  paidRuns'[m] + Cardinality(Unpaid(m)') <= work'[m]
  BY DEF PaidCounted
<1> DEFINE Grown == Unpaid(m) \cup {h}
<1>1. /\ IsFiniteSet(Unpaid(m)) /\ Cardinality(Unpaid(m)) \in Nat
      /\ paidRuns[m] + Cardinality(Unpaid(m)) <= work[m]
      /\ work[m] \in Nat /\ paidRuns[m] \in Nat /\ paidRuns'[m] = paidRuns[m]
  BY UnpaidFinite, FS_CardinalityType DEF PaidCounted, Shape
<1>2. CASE m = n
  <2>1. /\ IsFiniteSet(Grown)
        /\ \/ Cardinality(Grown) = Cardinality(Unpaid(m))
           \/ Cardinality(Grown) = Cardinality(Unpaid(m)) + 1
    BY <1>1, FS_AddElement, Zenon
  <2>2. IsFiniteSet(Grown) /\ Cardinality(Grown) <= Cardinality(Unpaid(m)) + 1
    BY <1>1, <2>1
  <2>3. /\ Cardinality(Unpaid(m)') <= Cardinality(Grown)
        /\ Cardinality(Unpaid(m)') \in Nat /\ Cardinality(Grown) \in Nat
    BY <1>2, <2>2, FS_Subset, FS_CardinalityType
  <2>4. work'[m] = work[m] + 1
    BY <1>2 DEF Bump, Shape
  <2> QED
    BY <1>1, <2>2, <2>3, <2>4
<1>3. CASE m # n
  <2>1. /\ Cardinality(Unpaid(m)') <= Cardinality(Unpaid(m))
        /\ Cardinality(Unpaid(m)') \in Nat
    BY <1>1, <1>3, FS_Subset, FS_CardinalityType
  <2>2. work'[m] = work[m]
    BY <1>3 DEF Bump, Shape
  <2> QED
    BY <1>1, <2>1, <2>2
<1> QED
  BY <1>2, <1>3

\* A first payment: the attempt leaves the unpaid and joins the paid runs.
LEMMA FirstPayment ==
  ASSUME Shape, PaidCounted, UNCHANGED work, NEW h \in Handlers, NEW n \in Messages,
         paidRuns' = Bump(paidRuns, n),
         \A m \in Messages \ {n} : Unpaid(m)' \subseteq Unpaid(m),
         h \in Unpaid(n),
         Unpaid(n)' \subseteq Unpaid(n) \ {h}
  PROVE  PaidCounted'
<1> SUFFICES ASSUME NEW m \in Messages
             PROVE  paidRuns'[m] + Cardinality(Unpaid(m)') <= work'[m]
  BY DEF PaidCounted
<1> DEFINE Rest == Unpaid(m) \ {h}
<1>1. /\ IsFiniteSet(Unpaid(m)) /\ Cardinality(Unpaid(m)) \in Nat
      /\ paidRuns[m] + Cardinality(Unpaid(m)) <= work[m]
      /\ work[m] \in Nat /\ paidRuns[m] \in Nat /\ work'[m] = work[m]
  BY UnpaidFinite, FS_CardinalityType DEF PaidCounted, Shape
<1>2. CASE m = n
  <2>1. IsFiniteSet(Rest) /\ Cardinality(Rest) = Cardinality(Unpaid(m)) - 1
    BY <1>1, <1>2, FS_RemoveElement
  <2>2. /\ Cardinality(Unpaid(m)') <= Cardinality(Rest)
        /\ Cardinality(Unpaid(m)') \in Nat /\ Cardinality(Rest) \in Nat
    BY <1>2, <2>1, FS_Subset, FS_CardinalityType
  <2>3. paidRuns'[m] = paidRuns[m] + 1
    BY <1>2 DEF Bump, Shape
  <2> QED
    BY <1>1, <2>1, <2>2, <2>3
<1>3. CASE m # n
  <2>1. /\ Cardinality(Unpaid(m)') <= Cardinality(Unpaid(m))
        /\ Cardinality(Unpaid(m)') \in Nat
    BY <1>1, <1>3, FS_Subset, FS_CardinalityType
  <2>2. paidRuns'[m] = paidRuns[m]
    BY <1>3 DEF Bump, Shape
  <2> QED
    BY <1>1, <2>1, <2>2
<1> QED
  BY <1>2, <1>3

\* Every step keeps the handlers that have paid nothing beside the paid runs.
LEMMA NextPaid == IntakeInv /\ [Next]_vars => PaidCounted'
<1> SUFFICES ASSUME Shape, PaidCounted, [Next]_vars PROVE PaidCounted'
  BY DEF IntakeInv
<1>1. Shape'
  BY NextShape
<1>2. \A m \in Messages : work[m] \in Nat
  BY DEF Shape
<1>3. ASSUME NEW m \in Messages, Write(m) PROVE PaidCounted'
  <2>1. \A k \in Messages : Unpaid(k)' \subseteq Unpaid(k)
    BY <1>3 DEF Write, slots, Unpaid, Working
  <2> QED
    BY <1>3, <2>1, <1>1, <1>2, PaidKept DEF Write, ledger
<1>4. ASSUME NEW m \in Messages, NEW h \in Handlers, Begin(h, m) PROVE PaidCounted'
  <2>1. \A k \in Messages : Unpaid(k)' \subseteq Unpaid(k)
    BY <1>4 DEF Begin, Goto, Unpaid, Working, Shape
  <2> QED
    BY <1>4, <2>1, <1>1, <1>2, PaidKept DEF Begin, ledger
<1>5. ASSUME NEW h \in Handlers, Answer(h) PROVE PaidCounted'
  <2>1. \A k \in Messages : Unpaid(k)' \subseteq Unpaid(k)
    BY <1>5 DEF Answer, Release, Goto, Unpaid, Working, Shape
  <2> QED
    BY <1>5, <2>1, <1>1, <1>2, PaidKept DEF Answer, ledger
<1>6. ASSUME NEW h \in Handlers, CheckDuplicate(h) PROVE PaidCounted'
  <2>1. job' = job /\ paid' = paid /\ paidRuns' = paidRuns /\ job[h] \in Messages
    BY <1>6 DEF CheckDuplicate, Shape
  <2>2. CASE job[h] \in processed
    <3>1. \A k \in Messages : Unpaid(k)' \subseteq Unpaid(k)
      BY <1>6, <2>1, <2>2 DEF CheckDuplicate, AnswerWith, Goto, Unpaid, Working, Shape
    <3> QED
      BY <1>6, <2>1, <2>2, <3>1, <1>1, <1>2, PaidKept DEF CheckDuplicate
  <2>3. CASE job[h] \notin processed
    <3>1. work' = Bump(work, job[h])
      BY <1>6, <2>3 DEF CheckDuplicate
    <3>2. \A k \in Messages : Unpaid(k)' \subseteq Unpaid(k) \cup {h}
      BY <1>6, <2>1, <2>3 DEF CheckDuplicate, Goto, Unpaid, Working, Shape
    <3>3. \A k \in Messages \ {job[h]} : Unpaid(k)' \subseteq Unpaid(k)
      BY <2>1, <3>2 DEF Unpaid
    <3> QED
      BY <2>1, <3>1, <3>2, <3>3, PaidBegun
  <2> QED
    BY <2>2, <2>3
<1>7. ASSUME NEW h \in Handlers,
             LookUp(h) \/ OpenConversation(h) \/ Route(h)
               \/ AssistantThinks(h) \/ StoreQuestion(h) \/ StoreResponse(h)
               \/ RecordResponse(h) \/ DeliverReply(h)
               \/ CreateRun(h) \/ LaunchRun(h) \/ Decide(h)
               \/ Notify(h) \/ CompleteRun(h)
               \/ StoreUserMessage(h) \/ StoreAssistantMessage(h) \/ MarkProcessed(h)
      PROVE PaidCounted'
  <2>1. UNCHANGED <<work, paidRuns, job, paid>> /\ Working(h)
    BY <1>7 DEF LookUp, OpenConversation, Route, AssistantThinks, StoreQuestion, StoreResponse,
       RecordResponse, DeliverReply, CreateRun, LaunchRun,
       Decide, Notify, CompleteRun, StoreUserMessage, StoreAssistantMessage,
       MarkProcessed, ledger, rows, Working
  <2>2. \A g \in Handlers \ {h} : pc'[g] = pc[g]
    BY <1>7 DEF LookUp, OpenConversation, Route, AssistantThinks, StoreQuestion, StoreResponse,
       RecordResponse, DeliverReply, CreateRun, LaunchRun,
       Decide, Notify, CompleteRun, StoreUserMessage, StoreAssistantMessage,
       MarkProcessed, AnswerWith, Goto, Shape
  <2>3. \A k \in Messages : Unpaid(k)' \subseteq Unpaid(k)
    BY <2>1, <2>2 DEF Unpaid, Working
  <2> QED
    BY <2>1, <2>3, <1>1, <1>2, PaidKept
<1>8. ASSUME NEW h \in Handlers, CommitPayment(h) PROVE PaidCounted'
  <2>1. /\ job' = job /\ work' = work /\ job[h] \in Messages
        /\ paid' = [paid EXCEPT ![h] = TRUE]
        /\ Working(h) /\ \A g \in Handlers \ {h} : pc'[g] = pc[g]
    BY <1>8 DEF CommitPayment, Goto, Working, Shape
  <2>2. \A k \in Messages : Unpaid(k)' \subseteq Unpaid(k) \ {h}
    BY <2>1 DEF Unpaid, Working, Shape
  <2>3. CASE paid[h]
    BY <1>8, <2>1, <2>2, <2>3, <1>1, <1>2, PaidKept DEF CommitPayment
  <2>4. CASE ~paid[h]
    <3>1. paidRuns' = Bump(paidRuns, job[h])
      BY <1>8, <2>4 DEF CommitPayment
    <3>2. h \in Unpaid(job[h])
      BY <2>1, <2>4 DEF Unpaid
    <3> QED
      BY <2>1, <2>2, <3>1, <3>2, FirstPayment
  <2> QED
    BY <2>3, <2>4
<1>9. ASSUME NEW h \in Handlers, pc[h] # "idle", Catch(h) PROVE PaidCounted'
  <2>1. \A k \in Messages : Unpaid(k)' \subseteq Unpaid(k)
    BY <1>9 DEF Catch, AnswerWith, Goto, Unpaid, Working, Shape
  <2> QED
    BY <1>9, <2>1, <1>1, <1>2, PaidKept DEF Catch
<1>10. ASSUME NEW h \in Handlers, ErrorOutsideTry(h) \/ Crash(h) PROVE PaidCounted'
  <2>1. /\ UNCHANGED <<work, paidRuns>>
        /\ ~Working(h)' /\ \A g \in Handlers \ {h} : pc'[g] = pc[g] /\ job'[g] = job[g]
                                                   /\ paid'[g] = paid[g]
    BY <1>10 DEF ErrorOutsideTry, Crash, AnswerWith, Release, Goto, Working, Shape
  <2>2. \A k \in Messages : Unpaid(k)' \subseteq Unpaid(k)
    BY <2>1 DEF Unpaid, Working
  <2> QED
    BY <2>1, <2>2, <1>1, <1>2, PaidKept
<1>11. CASE UNCHANGED vars
  <2>1. \A k \in Messages : Unpaid(k)' \subseteq Unpaid(k)
    BY <1>11 DEF vars, slots, Unpaid, Working
  <2> QED
    BY <1>11, <2>1, <1>1, <1>2, PaidKept DEF vars, ledger
<1> QED
  <2>1. CASE \E m \in Messages : Write(m) \/ Deliver(m) \/ DeliverAgain(m)
    BY <2>1, <1>3, <1>4 DEF Deliver, DeliverAgain
  <2>2. CASE \E h \in Handlers : Step(h)
    BY <2>2, <1>5, <1>6, <1>7, <1>8, <1>9 DEF Step, RecipientMissing
  <2>3. CASE \E h \in Handlers : Raise(h) \/ CommitFails(h) \/ ErrorOutsideTry(h) \/ Crash(h)
    BY <2>3, <1>9, <1>10 DEF Raise, CommitFails, Trying
  <2> QED
    BY <1>11, <2>1, <2>2, <2>3 DEF Next

-----------------------------------------------------------------------------
\* No attempt, and no run that records money, escapes the account of the
\* attempts that ended without a row or overlapped another: the duplicate test
\* of receive_webhook is as good as the row written at the end allows.
THEOREM RetriesAccounted == Spec => []SecondWorkHasACause
<1>1. Init => IntakeInv
  BY InitIntake
<1>2. IntakeInv /\ [Next]_vars => IntakeInv'
  BY NextShape, NextWork, NextPaid DEF IntakeInv
<1>3. IntakeInv => SecondWorkHasACause
  <2> SUFFICES ASSUME IntakeInv, NEW m \in Messages
               PROVE  /\ work[m] <= 1 + undone[m] + overlaps[m]
                      /\ paidRuns[m] <= work[m]
    BY DEF SecondWorkHasACause
  <2>1. /\ work[m] \in Nat /\ undone[m] \in Nat /\ overlaps[m] \in Nat
        /\ paidRuns[m] \in Nat
    BY DEF IntakeInv, Shape
  <2>2. work[m] <= 1 + undone[m] + overlaps[m]
    BY <2>1 DEF IntakeInv, WorkCounted
  <2>3. Cardinality(Unpaid(m)) \in Nat
    BY UnpaidFinite, FS_CardinalityType
  <2>4. paidRuns[m] + Cardinality(Unpaid(m)) <= work[m]
    BY DEF IntakeInv, PaidCounted
  <2> QED
    BY <2>1, <2>2, <2>3, <2>4
<1> QED
  BY <1>1, <1>2, <1>3, PTL DEF Spec

-----------------------------------------------------------------------------
(* What a 200 and a processed_messages row stand for *)

Excused == processed \cup caught \cup strangers

\* A request about to answer 200, or about to write the row, has the reason in
\* hand already.
ReasonInv ==
  /\ meta \in [Messages -> {"new", "owed", "acked"}]
  /\ code \in [Handlers -> {0, 200, 500}]
  /\ handled \in [Messages -> Nat] /\ answers \in [Messages -> Nat]
  /\ \A h \in Handlers : pc[h] = "answer" /\ code[h] = 200 => job[h] \in Excused
  /\ \A h \in Handlers : pc[h] = "mark" => handled[job[h]] > 0 /\ answers[job[h]] > 0
  /\ \A h \in Handlers : pc[h] \in {"record", "deliver"} => answers[job[h]] > 0
  /\ \A m \in processed : handled[m] > 0 /\ answers[m] > 0
  /\ \A m \in Messages : meta[m] = "acked" => m \in Excused

\* At first nobody is about to answer.
LEMMA InitReason == Init => ReasonInv
BY DEF Init, ReasonInv, Zero

\* Every step keeps the reasons.
LEMMA NextReason == Shape /\ ReasonInv /\ [Next]_vars => ReasonInv'
<1> SUFFICES ASSUME Shape, ReasonInv, [Next]_vars PROVE ReasonInv'
  OBVIOUS
<1> USE DEF Shape, ReasonInv, Excused
<1>1. ASSUME NEW m \in Messages, Write(m) PROVE ReasonInv'
  BY <1>1 DEF Write, slots, rows, ledger
<1>2. ASSUME NEW m \in Messages, NEW h \in Handlers, Begin(h, m) PROVE ReasonInv'
  BY <1>2 DEF Begin, Goto, rows, ledger
<1>3. ASSUME NEW h \in Handlers, Answer(h) PROVE ReasonInv'
  <2>1. /\ UNCHANGED <<processed, answers, handled, caught, strangers>>
        /\ pc' = [pc EXCEPT ![h] = "idle"]
        /\ job' = [job EXCEPT ![h] = NoMessage]
        /\ code' = [code EXCEPT ![h] = 0]
        /\ meta' = IF code[h] = 200 THEN [meta EXCEPT ![job[h]] = "acked"] ELSE meta
        /\ pc[h] = "answer"
    BY <1>3 DEF Answer, Release, Goto, rows, ledger
  <2>2. job[h] \in Messages
    BY <2>1
  <2>3. \A m \in Messages : meta'[m] = "acked" => m \in Excused
    BY <2>1, <2>2
  <2> QED
    BY <2>1, <2>2, <2>3
<1>4. ASSUME NEW h \in Handlers, CheckDuplicate(h) PROVE ReasonInv'
  BY <1>4 DEF CheckDuplicate, AnswerWith, Goto, rows
<1>5. ASSUME NEW h \in Handlers, LookUp(h) PROVE ReasonInv'
  BY <1>5 DEF LookUp, AnswerWith, Goto, rows
<1>6. ASSUME NEW h \in Handlers,
             StoreResponse(h) \/ DeliverReply(h) \/ StoreAssistantMessage(h)
      PROVE ReasonInv'
  <2>1. CASE StoreResponse(h)
    BY <2>1 DEF StoreResponse, Goto, Bump, ledger
  <2>2. CASE DeliverReply(h)
    BY <2>2 DEF DeliverReply, Goto, Bump, rows
  <2>3. CASE StoreAssistantMessage(h)
    BY <2>3 DEF StoreAssistantMessage, Goto, Bump
  <2> QED
    BY <1>6, <2>1, <2>2, <2>3
<1>7. ASSUME NEW h \in Handlers,
             OpenConversation(h) \/ Route(h) \/ CreateRun(h) \/ LaunchRun(h) \/ Decide(h)
               \/ CommitPayment(h) \/ Notify(h) \/ CompleteRun(h) \/ StoreUserMessage(h)
               \/ AssistantThinks(h) \/ StoreQuestion(h) \/ RecordResponse(h)
      PROVE ReasonInv'
  <2>1. UNCHANGED <<meta, job, code, processed, answers, handled, caught, strangers>>
    BY <1>7 DEF OpenConversation, Route, CreateRun, LaunchRun, Decide, CommitPayment,
       Notify, CompleteRun, StoreUserMessage, AssistantThinks, StoreQuestion,
       RecordResponse, ledger, rows
  <2>2. /\ \A g \in Handlers \ {h} : pc'[g] = pc[g]
        /\ pc'[h] \notin {"answer", "mark"}
        /\ pc'[h] \in {"record", "deliver"} => pc[h] \in {"record", "deliver"}
    BY <1>7 DEF OpenConversation, Route, CreateRun, LaunchRun, Decide, CommitPayment,
       Notify, CompleteRun, StoreUserMessage, AssistantThinks, StoreQuestion,
       RecordResponse, Goto
  <2> QED
    BY <2>1, <2>2
<1>8. ASSUME NEW h \in Handlers, MarkProcessed(h) PROVE ReasonInv'
  BY <1>8 DEF MarkProcessed, AnswerWith, Goto, ledger
<1>9. ASSUME NEW h \in Handlers, pc[h] # "idle", Catch(h) PROVE ReasonInv'
  BY <1>9 DEF Catch, AnswerWith, Goto
<1>10. ASSUME NEW h \in Handlers, ErrorOutsideTry(h) PROVE ReasonInv'
  BY <1>10 DEF ErrorOutsideTry, AnswerWith, Goto, rows
<1>11. ASSUME NEW h \in Handlers, Crash(h) PROVE ReasonInv'
  BY <1>11 DEF Crash, Release, Goto, rows
<1>12. CASE UNCHANGED vars
  BY <1>12 DEF vars, slots, rows, ledger
<1> QED
  <2>1. CASE \E m \in Messages : Write(m) \/ Deliver(m) \/ DeliverAgain(m)
    BY <2>1, <1>1, <1>2 DEF Deliver, DeliverAgain
  <2>2. CASE \E h \in Handlers : Step(h)
    BY <2>2, <1>3, <1>4, <1>5, <1>6, <1>7, <1>8, <1>9 DEF Step, RecipientMissing
  <2>3. CASE \E h \in Handlers : Raise(h) \/ CommitFails(h) \/ ErrorOutsideTry(h) \/ Crash(h)
    BY <2>3, <1>9, <1>10, <1>11 DEF Raise, CommitFails, Trying
  <2> QED
    BY <1>12, <2>1, <2>2, <2>3 DEF Next

\* Meta hears 200 about a message only once it is processed, its error was
\* caught, or its sender is unknown, through every crash, retry and overlap.
THEOREM NothingLostSilently == Spec => []AcknowledgedForAReason
<1>1. Init => Shape /\ ReasonInv
  BY InitIntake, InitReason DEF IntakeInv
<1>2. Shape /\ ReasonInv /\ [Next]_vars => (Shape /\ ReasonInv)'
  BY NextShape, NextReason
<1>3. ReasonInv => AcknowledgedForAReason
  BY DEF ReasonInv, AcknowledgedForAReason, Excused
<1> QED
  BY <1>1, <1>2, <1>3, PTL DEF Spec

\* A processed_messages row exists only for a message some attempt finished,
\* its reply in the conversation.
THEOREM ProcessedOnlyAfterSuccess == Spec => []ProcessedMeansHandled
<1>1. Init => Shape /\ ReasonInv
  BY InitIntake, InitReason DEF IntakeInv
<1>2. Shape /\ ReasonInv /\ [Next]_vars => (Shape /\ ReasonInv)'
  BY NextShape, NextReason
<1>3. ReasonInv => ProcessedMeansHandled
  BY DEF ReasonInv, ProcessedMeansHandled
<1> QED
  BY <1>1, <1>2, <1>3, PTL DEF Spec

-----------------------------------------------------------------------------
(* The history and the runs *)

\* Requests on a message that are at one of the steps of P, and how many.
At(P, m) == {h \in Handlers : job[h] = m /\ pc[h] \in P}
Load(P, m) == Cardinality(At(P, m))

Storing   == {"store"}
Replying  == {"reply", "response"}
Speaking  == {"response", "record", "deliver"}
Answered  == {"record", "deliver"}
Unreplied == {"lookup", "open", "route", "assist", "question", "response", "record",
              "deliver", "create", "launch", "detect", "pay", "notify"}
RunSteps  == {"launch", "detect", "pay", "notify", "complete"}

\* What a step of h adds to the requests at a step of P.
Delta(h, P) ==
  IF pc'[h] \in P /\ pc[h] \notin P THEN 1
  ELSE IF pc[h] \in P /\ pc'[h] \notin P THEN -1 ELSE 0

\* Each counter runs ahead of the next by the requests on their way from the one
\* to the other; the open runs are those of the requests in a run and the
\* abandoned ones.
HistoryInv ==
  \A m \in Messages :
     /\ answers[m] + Load(Replying, m) <= stored[m]
     /\ stored[m] + Load(Storing, m) <=
          runs[m]["COMPLETED"] + talks[m] + cut[m] + Load(Speaking, m)
     /\ handled[m] + Load(Answered, m) <= answers[m]
     /\ replied[m] + Load(Unreplied, m) <= work[m]
     /\ runs[m]["PENDING"] + runs[m]["RUNNING"] = Load(RunSteps, m) + abandoned[m]

\* The counters of runs are integers here: that they are natural follows.
CounterShape ==
  /\ stored \in [Messages -> Nat] /\ answers \in [Messages -> Nat]
  /\ handled \in [Messages -> Nat] /\ replied \in [Messages -> Nat]
  /\ talks \in [Messages -> Nat] /\ cut \in [Messages -> Nat]
  /\ abandoned \in [Messages -> Nat]
  /\ runs \in [Messages -> [RunStatuses -> Int]]

\* A load counts a set of requests, of which there are finitely many.
LEMMA LoadNat == ASSUME NEW P, NEW m PROVE Load(P, m) \in Nat /\ IsFiniteSet(At(P, m))
<1>1. At(P, m) \subseteq Handlers
  BY DEF At
<1>2. IsFiniteSet(At(P, m))
  BY <1>1, IntakeAssumption, FS_Subset
<1> QED
  BY <1>2, FS_CardinalityType DEF Load

\* One request moves, and every load moves by what it enters or leaves.
LEMMA LoadStep ==
  ASSUME NEW h \in Handlers, NEW m \in Messages, NEW P,
         \A g \in Handlers \ {h} : pc'[g] = pc[g] /\ job'[g] = job[g],
         job'[h] = job[h] \/ (pc[h] \notin P /\ pc'[h] \notin P)
           \/ (job'[h] \notin Messages /\ pc'[h] \notin P)
  PROVE  Load(P, m)' = Load(P, m) + (IF m = job[h] THEN Delta(h, P) ELSE 0)
<1>1. IsFiniteSet(At(P, m)) /\ Cardinality(At(P, m)) \in Nat
  BY LoadNat DEF Load
<1>2. CASE m = job[h] /\ Delta(h, P) = 1 /\ pc[h] \notin P /\ pc'[h] \in P
  <2>1. At(P, m)' = At(P, m) \cup {h} /\ h \notin At(P, m)
    BY <1>2 DEF At
  <2>2. Cardinality(At(P, m) \cup {h}) = Cardinality(At(P, m)) + 1
    BY <1>1, <2>1, FS_AddElement
  <2> QED
    BY <1>2, <2>1, <2>2 DEF Load
<1>3. CASE m = job[h] /\ Delta(h, P) = -1 /\ pc[h] \in P /\ pc'[h] \notin P
  <2>1. At(P, m)' = At(P, m) \ {h} /\ h \in At(P, m)
    BY <1>3 DEF At
  <2>2. Cardinality(At(P, m) \ {h}) = Cardinality(At(P, m)) - 1
    BY <1>1, <2>1, FS_RemoveElement
  <2> QED
    BY <1>1, <1>3, <2>1, <2>2 DEF Load
<1>4. CASE m = job[h] /\ Delta(h, P) = 0 /\ (pc[h] \in P <=> pc'[h] \in P)
  <2>1. At(P, m)' = At(P, m)
    BY <1>4 DEF At
  <2> QED
    BY <1>1, <1>4, <2>1 DEF Load
<1>5. CASE m # job[h]
  <2>1. At(P, m)' = At(P, m)
    BY <1>5 DEF At
  <2> QED
    BY <1>1, <1>5, <2>1 DEF Load
<1> QED
  BY <1>2, <1>3, <1>4, <1>5 DEF Delta

\* The same for the six loads of the invariant, for a request that works on a
\* message and keeps it, or lets go of it.
LEMMA LoadsStep ==
  ASSUME NEW h \in Handlers, NEW m \in Messages,
         \A g \in Handlers \ {h} : pc'[g] = pc[g] /\ job'[g] = job[g],
         job'[h] = job[h] \/ (job'[h] \notin Messages /\ pc'[h] = "idle")
  PROVE  /\ Load(Replying, m)' = Load(Replying, m) + (IF m = job[h] THEN Delta(h, Replying) ELSE 0)
         /\ Load(Storing, m)' = Load(Storing, m) + (IF m = job[h] THEN Delta(h, Storing) ELSE 0)
         /\ Load(Unreplied, m)' = Load(Unreplied, m) + (IF m = job[h] THEN Delta(h, Unreplied) ELSE 0)
         /\ Load(RunSteps, m)' = Load(RunSteps, m) + (IF m = job[h] THEN Delta(h, RunSteps) ELSE 0)
         /\ Load(Speaking, m)' = Load(Speaking, m) + (IF m = job[h] THEN Delta(h, Speaking) ELSE 0)
         /\ Load(Answered, m)' = Load(Answered, m) + (IF m = job[h] THEN Delta(h, Answered) ELSE 0)
<1>1. \A P \in {Replying, Storing, Unreplied, RunSteps, Speaking, Answered} : "idle" \notin P
  BY DEF Replying, Storing, Unreplied, RunSteps, Speaking, Answered
<1>2. Load(Replying, m)' = Load(Replying, m) + (IF m = job[h] THEN Delta(h, Replying) ELSE 0)
  BY <1>1, LoadStep
<1>3. Load(Storing, m)' = Load(Storing, m) + (IF m = job[h] THEN Delta(h, Storing) ELSE 0)
  BY <1>1, LoadStep
<1>4. Load(Unreplied, m)' = Load(Unreplied, m) + (IF m = job[h] THEN Delta(h, Unreplied) ELSE 0)
  BY <1>1, LoadStep
<1>5. Load(RunSteps, m)' = Load(RunSteps, m) + (IF m = job[h] THEN Delta(h, RunSteps) ELSE 0)
  BY <1>1, LoadStep
<1>6. Load(Speaking, m)' = Load(Speaking, m) + (IF m = job[h] THEN Delta(h, Speaking) ELSE 0)
  BY <1>1, LoadStep
<1>7. Load(Answered, m)' = Load(Answered, m) + (IF m = job[h] THEN Delta(h, Answered) ELSE 0)
  BY <1>1, LoadStep
<1> QED
  BY <1>2, <1>3, <1>4, <1>5, <1>6, <1>7

\* Nobody is at any step at the start.
LEMMA InitHistory == Init => CounterShape /\ HistoryInv
<1> SUFFICES ASSUME Init PROVE CounterShape /\ HistoryInv
  OBVIOUS
<1>1. CounterShape
  BY DEF Init, CounterShape, Zero, RunStatuses
<1>2. \A P, m : "idle" \notin P => Load(P, m) = 0
  <2> SUFFICES ASSUME NEW P, NEW m, "idle" \notin P PROVE Load(P, m) = 0
    OBVIOUS
  <2>1. At(P, m) = {}
    BY DEF Init, At
  <2> QED
    BY <2>1, FS_EmptySet DEF Load
<1>3. \A m \in Messages : Load(Replying, m) = 0 /\ Load(Storing, m) = 0
                         /\ Load(Unreplied, m) = 0 /\ Load(RunSteps, m) = 0
                         /\ Load(Speaking, m) = 0 /\ Load(Answered, m) = 0
  BY <1>2 DEF Replying, Storing, Unreplied, RunSteps, Speaking, Answered
<1> QED
  BY <1>1, <1>3 DEF Init, HistoryInv, Zero, RunStatuses

\* Counting one more keeps a counter one.
LEMMA BumpCounts ==
  ASSUME NEW count \in [Messages -> Nat], NEW m \in Messages, NEW next,
         next = count \/ next = Bump(count, m)
  PROVE  next \in [Messages -> Nat]
BY DEF Bump

\* Every counter is only ever bumped; a run only changes its status.
LEMMA NextCounters == Shape /\ CounterShape /\ [Next]_vars => CounterShape'
<1> SUFFICES ASSUME Shape, CounterShape, [Next]_vars PROVE CounterShape'
  OBVIOUS
<1> USE DEF Shape, CounterShape, RunStatuses
<1>1. ASSUME NEW m \in Messages, Write(m) PROVE CounterShape'
  BY <1>1 DEF Write, rows, ledger
<1>2. ASSUME NEW m \in Messages, NEW h \in Handlers, Begin(h, m) PROVE CounterShape'
  BY <1>2 DEF Begin, rows, ledger
<1>3. ASSUME NEW h \in Handlers,
             Answer(h) \/ CheckDuplicate(h) \/ LookUp(h) \/ OpenConversation(h) \/ Route(h)
               \/ Decide(h) \/ CommitPayment(h) \/ MarkProcessed(h)
      PROVE CounterShape'
  BY <1>3 DEF Answer, CheckDuplicate, LookUp, OpenConversation, Route, Decide, CommitPayment,
     MarkProcessed, rows, ledger
<1>4. ASSUME NEW h \in Handlers,
             AssistantThinks(h) \/ StoreQuestion(h) \/ StoreResponse(h)
               \/ RecordResponse(h) \/ DeliverReply(h)
               \/ Notify(h)
      PROVE CounterShape'
  <2>1. CASE AssistantThinks(h) \/ StoreQuestion(h) \/ StoreResponse(h)
            \/ RecordResponse(h) \/ DeliverReply(h)
    <3>1. /\ UNCHANGED <<runs, cut, abandoned>> /\ job[h] \in Messages
          /\ stored' = stored \/ stored' = Bump(stored, job[h])
          /\ answers' = answers \/ answers' = Bump(answers, job[h])
          /\ replied' = replied \/ replied' = Bump(replied, job[h])
          /\ handled' = handled \/ handled' = Bump(handled, job[h])
          /\ talks' = talks \/ talks' = Bump(talks, job[h])
      BY <2>1 DEF AssistantThinks, StoreQuestion, StoreResponse, RecordResponse,
         DeliverReply, rows, ledger
    <3>2. /\ stored' \in [Messages -> Nat] /\ answers' \in [Messages -> Nat]
          /\ replied' \in [Messages -> Nat] /\ handled' \in [Messages -> Nat]
          /\ talks' \in [Messages -> Nat]
      BY ONLY CounterShape, <3>1, BumpCounts DEF CounterShape
    <3> QED
      BY <3>1, <3>2
  <2>2. CASE Notify(h)
    <3>1. replied' = replied \/ replied' = Bump(replied, job[h])
      BY <2>2 DEF Notify
    <3> QED
      BY <2>2, <3>1 DEF Notify, Bump, rows
  <2> QED
    BY <1>4, <2>1, <2>2
<1>5. ASSUME NEW h \in Handlers, CreateRun(h) \/ LaunchRun(h) \/ CompleteRun(h)
      PROVE CounterShape'
  <2>1. UNCHANGED <<stored, answers, handled, talks, cut, replied, abandoned>>
        /\ job[h] \in Messages
    BY <1>5 DEF CreateRun, LaunchRun, CompleteRun, ledger
  <2>2. runs' \in [Messages -> [{"PENDING", "RUNNING", "COMPLETED", "FAILED"} -> Int]]
    <3>1. CASE CreateRun(h)
      BY <2>1, <3>1 DEF CreateRun
    <3>2. CASE LaunchRun(h)
      BY <2>1, <3>2 DEF LaunchRun, MoveRun
    <3>3. CASE CompleteRun(h)
      BY <2>1, <3>3 DEF CompleteRun, MoveRun
    <3> QED
      BY <1>5, <3>1, <3>2, <3>3
  <2> QED
    BY <2>1, <2>2
<1>6. ASSUME NEW h \in Handlers, StoreUserMessage(h) \/ StoreAssistantMessage(h)
      PROVE CounterShape'
  <2>1. /\ UNCHANGED <<runs, talks, cut, replied, abandoned>> /\ job[h] \in Messages
        /\ stored' = stored \/ stored' = Bump(stored, job[h])
        /\ answers' = answers \/ answers' = Bump(answers, job[h])
        /\ handled' = handled \/ handled' = Bump(handled, job[h])
    BY <1>6 DEF StoreUserMessage, StoreAssistantMessage, ledger
  <2>2. /\ stored' \in [Messages -> Nat] /\ answers' \in [Messages -> Nat]
        /\ handled' \in [Messages -> Nat]
    BY ONLY CounterShape, <2>1, BumpCounts DEF CounterShape
  <2> QED
    BY <2>1, <2>2
<1>7. ASSUME NEW h \in Handlers, Raise(h) PROVE CounterShape'
  <2>1. /\ UNCHANGED <<stored, answers, handled, talks, replied, abandoned>>
        /\ job[h] \in Messages
        /\ cut' = cut \/ cut' = Bump(cut, job[h])
    BY <1>7 DEF Raise, Catch, CutTurn
  <2>2. runs' \in [Messages -> [{"PENDING", "RUNNING", "COMPLETED", "FAILED"} -> Int]]
    <3>1. \/ runs' = runs
          \/ runs' = [runs EXCEPT ![job[h]]["RUNNING"] = @ - 1, ![job[h]]["FAILED"] = @ + 1]
      BY <1>7 DEF Raise, MoveRun
    <3> QED
      BY <2>1, <3>1
  <2>3. cut' \in [Messages -> Nat]
    BY ONLY CounterShape, <2>1, BumpCounts DEF CounterShape
  <2> QED
    BY <2>1, <2>2, <2>3
<1>8. ASSUME NEW h \in Handlers, CommitFails(h) \/ RecipientMissing(h) \/ Crash(h)
      PROVE CounterShape'
  <2>1. UNCHANGED <<stored, answers, handled, talks, replied, runs>>
    BY <1>8 DEF CommitFails, RecipientMissing, Crash, Catch, rows
  <2>2. /\ abandoned' = abandoned \/ abandoned' = Bump(abandoned, job[h])
        /\ cut' = cut \/ cut' = Bump(cut, job[h])
        /\ job[h] \in Messages
    BY <1>8 DEF CommitFails, RecipientMissing, Crash, Abandon, Catch, CutTurn, Trying
  <2> QED
    <3>1. abandoned' \in [Messages -> Nat] /\ cut' \in [Messages -> Nat]
      BY ONLY CounterShape, <2>2, BumpCounts DEF CounterShape
    <3> QED
      BY <2>1, <3>1
<1>9. ASSUME NEW h \in Handlers, ErrorOutsideTry(h) PROVE CounterShape'
  BY <1>9 DEF ErrorOutsideTry, rows
<1>10. CASE UNCHANGED vars
  BY <1>10 DEF vars, rows, ledger
<1> QED
  BY <1>1, <1>2, <1>3, <1>4, <1>5, <1>6, <1>7, <1>8, <1>9, <1>10 DEF Next, Step, Deliver,
     DeliverAgain

\* One step per action on the message it works on; the other messages keep theirs.
LEMMA NextHistory == Shape /\ CounterShape /\ HistoryInv /\ [Next]_vars => HistoryInv'
<1> DEFINE Good(m) ==
      /\ answers[m] + Load(Replying, m) <= stored[m]
      /\ stored[m] + Load(Storing, m) <=
           runs[m]["COMPLETED"] + talks[m] + cut[m] + Load(Speaking, m)
      /\ handled[m] + Load(Answered, m) <= answers[m]
      /\ replied[m] + Load(Unreplied, m) <= work[m]
      /\ runs[m]["PENDING"] + runs[m]["RUNNING"] = Load(RunSteps, m) + abandoned[m]
<1> SUFFICES ASSUME Shape, CounterShape, HistoryInv, [Next]_vars, NEW m \in Messages
             PROVE  Good(m)'
  BY DEF HistoryInv
<1>1. Good(m)
  BY DEF HistoryInv
<1>2. /\ stored[m] \in Nat /\ answers[m] \in Nat /\ handled[m] \in Nat /\ replied[m] \in Nat
      /\ talks[m] \in Nat /\ cut[m] \in Nat
      /\ abandoned[m] \in Nat /\ work[m] \in Nat
      /\ runs[m]["COMPLETED"] \in Int /\ runs[m]["PENDING"] \in Int /\ runs[m]["RUNNING"] \in Int
      /\ Load(Replying, m) \in Nat /\ Load(Storing, m) \in Nat
      /\ Load(Unreplied, m) \in Nat /\ Load(RunSteps, m) \in Nat
      /\ Load(Speaking, m) \in Nat /\ Load(Answered, m) \in Nat
  BY LoadNat DEF Shape, CounterShape, RunStatuses
<1>3. ASSUME NEW h \in Handlers, pc[h] # "idle", m # job[h],
             \A g \in Handlers \ {h} : pc'[g] = pc[g] /\ job'[g] = job[g],
             job'[h] = job[h] \/ (job'[h] \notin Messages /\ pc'[h] = "idle"),
             stored'[m] = stored[m], answers'[m] = answers[m], handled'[m] = handled[m],
             replied'[m] = replied[m], abandoned'[m] = abandoned[m], work'[m] = work[m],
             talks'[m] = talks[m], cut'[m] = cut[m], runs'[m] = runs[m]
      PROVE  Good(m)'
  BY <1>1, <1>2, <1>3, LoadsStep
<1> HIDE DEF Good
\* A step that changes neither counters nor loads.
<1>4. ASSUME \A g \in Handlers :
             \A P \in {Replying, Storing, Unreplied, RunSteps, Speaking, Answered} :
               pc'[g] \in P \/ pc[g] \in P => pc'[g] = pc[g] /\ job'[g] = job[g],
             stored'[m] = stored[m], answers'[m] = answers[m], handled'[m] = handled[m],
             replied'[m] = replied[m], abandoned'[m] = abandoned[m], work'[m] >= work[m],
             talks'[m] = talks[m], cut'[m] = cut[m],
             work'[m] \in Nat, runs'[m] = runs[m]
      PROVE  Good(m)'
  <2>1. /\ At(Replying, m)' = At(Replying, m) /\ At(Storing, m)' = At(Storing, m)
        /\ At(Unreplied, m)' = At(Unreplied, m) /\ At(RunSteps, m)' = At(RunSteps, m)
        /\ At(Speaking, m)' = At(Speaking, m) /\ At(Answered, m)' = At(Answered, m)
    BY <1>4 DEF At
  <2> QED
    BY <1>1, <1>2, <1>4, <2>1 DEF Good, Load
<1>5. ASSUME NEW n \in Messages, Write(n) PROVE Good(m)'
  BY <1>5, <1>2, <1>4 DEF Write, slots, rows, ledger
<1>6. ASSUME NEW n \in Messages, NEW h \in Handlers, Begin(h, n) PROVE Good(m)'
  <2>1. /\ pc[h] = "idle" /\ pc'[h] = "check" /\ UNCHANGED <<rows, ledger>>
        /\ \A g \in Handlers \ {h} : pc'[g] = pc[g] /\ job'[g] = job[g]
    BY <1>6 DEF Begin, Goto, Shape
  <2> QED
    BY <2>1, <1>2, <1>4 DEF rows, ledger, Replying, Storing, Unreplied, RunSteps,
       Speaking, Answered
<1>7. ASSUME NEW h \in Handlers, Answer(h) \/ MarkProcessed(h) PROVE Good(m)'
  <2>1. /\ pc[h] \in {"answer", "mark"} /\ pc'[h] \in {"idle", "answer"}
        /\ UNCHANGED <<runs, stored, answers, ledger>>
        /\ \A g \in Handlers \ {h} : pc'[g] = pc[g] /\ job'[g] = job[g]
    BY <1>7 DEF Answer, MarkProcessed, AnswerWith, Release, Goto, Shape, rows
  <2> QED
    BY <2>1, <1>2, <1>4 DEF ledger, Replying, Storing, Unreplied, RunSteps, Speaking,
       Answered
\* The steps of one request on its message.
<1>8. ASSUME NEW h \in Handlers,
             CheckDuplicate(h) \/ LookUp(h) \/ OpenConversation(h) \/ Route(h)
               \/ AssistantThinks(h) \/ StoreQuestion(h) \/ StoreResponse(h)
               \/ RecordResponse(h) \/ DeliverReply(h)
               \/ CreateRun(h) \/ LaunchRun(h) \/ Decide(h)
               \/ CommitPayment(h) \/ Notify(h) \/ RecipientMissing(h) \/ CompleteRun(h)
               \/ StoreUserMessage(h) \/ StoreAssistantMessage(h)
               \/ Raise(h) \/ CommitFails(h) \/ ErrorOutsideTry(h) \/ Crash(h)
      PROVE Good(m)'
  <2> DEFINE n == job[h]
  <2>1. /\ pc[h] # "idle" /\ n \in Messages
        /\ \A g \in Handlers \ {h} : pc'[g] = pc[g] /\ job'[g] = job[g]
        /\ job'[h] = job[h] \/ (job'[h] = NoMessage /\ pc'[h] = "idle")
    BY <1>8 DEF CheckDuplicate, LookUp, OpenConversation, Route, AssistantThinks, StoreQuestion, StoreResponse,
       RecordResponse, DeliverReply, CreateRun,
       LaunchRun, Decide, CommitPayment, Notify, RecipientMissing, CompleteRun, StoreUserMessage,
       StoreAssistantMessage, Raise, CommitFails, ErrorOutsideTry, Crash, Catch, AnswerWith,
       Release, Trying, Goto, Shape
  <2>2. m = n =>
          /\ Load(Replying, m)' = Load(Replying, m) + Delta(h, Replying)
          /\ Load(Storing, m)' = Load(Storing, m) + Delta(h, Storing)
          /\ Load(Unreplied, m)' = Load(Unreplied, m) + Delta(h, Unreplied)
          /\ Load(RunSteps, m)' = Load(RunSteps, m) + Delta(h, RunSteps)
          /\ Load(Speaking, m)' = Load(Speaking, m) + Delta(h, Speaking)
          /\ Load(Answered, m)' = Load(Answered, m) + Delta(h, Answered)
    BY <2>1, LoadsStep, IntakeAssumption
  <2>3. CASE m # n
    <3>1. /\ stored'[m] = stored[m] /\ answers'[m] = answers[m] /\ handled'[m] = handled[m]
          /\ replied'[m] = replied[m] /\ abandoned'[m] = abandoned[m] /\ work'[m] = work[m]
          /\ talks'[m] = talks[m] /\ cut'[m] = cut[m]
      BY <1>8, <2>1, <2>3 DEF CheckDuplicate, LookUp, OpenConversation, Route, AssistantThinks, StoreQuestion, StoreResponse,
       RecordResponse, DeliverReply, CreateRun, LaunchRun, Decide, CommitPayment, Notify, RecipientMissing, CompleteRun,
         StoreUserMessage, StoreAssistantMessage, Raise, CommitFails, ErrorOutsideTry, Crash,
         Catch, CutTurn, Abandon, Bump, rows, ledger, Shape, CounterShape
    <3>2. runs'[m] = runs[m]
      BY <1>8, <2>1, <2>3 DEF CheckDuplicate, LookUp, OpenConversation, Route, AssistantThinks, StoreQuestion, StoreResponse,
       RecordResponse, DeliverReply, CreateRun, LaunchRun, Decide, CommitPayment, Notify, RecipientMissing, CompleteRun,
         StoreUserMessage, StoreAssistantMessage, Raise, CommitFails, ErrorOutsideTry, Crash,
         Catch, MoveRun, rows, CounterShape
    <3> QED
      BY <1>3, <2>1, <2>3, <3>1, <3>2, IntakeAssumption
  <2>4. CASE m = n
    <3>1. CASE CheckDuplicate(h) \/ LookUp(h)
      <4>1. /\ UNCHANGED <<runs, stored, answers, handled, talks, cut, replied, abandoned>>
            /\ \/ pc[h] = "check" /\ pc'[h] = "answer" /\ work' = work
               \/ pc[h] = "check" /\ pc'[h] = "lookup" /\ work'[m] = work[m] + 1
               \/ pc[h] = "lookup" /\ pc'[h] \in {"open", "answer"} /\ work' = work
        BY <2>1, <2>4, <3>1 DEF CheckDuplicate, LookUp, AnswerWith, Goto, rows, Bump, Shape
      <4> QED
        BY <1>1, <1>2, <2>2, <2>4, <4>1 DEF Good, Delta, Replying, Storing, Unreplied,
           RunSteps, Speaking, Answered
    <3>2. CASE OpenConversation(h) \/ Route(h) \/ Decide(h) \/ CommitPayment(h)
      <4>1. /\ UNCHANGED <<runs, stored, answers, handled, talks, cut, replied, abandoned, work>>
            /\ \/ pc[h] = "open" /\ pc'[h] = "route"
               \/ pc[h] = "route" /\ pc'[h] \in {"create", "assist"}
               \/ pc[h] \in {"detect", "pay"} /\ pc'[h] \in {"pay", "notify"}
        BY <2>1, <2>4, <3>2 DEF OpenConversation, Route, Decide, CommitPayment, Goto, Shape,
           rows, ledger
      <4> QED
        BY <1>1, <1>2, <2>2, <2>4, <4>1 DEF Good, Delta, Replying, Storing, Unreplied,
           RunSteps, Speaking, Answered
    <3>3. CASE AssistantThinks(h) \/ StoreQuestion(h) \/ StoreResponse(h)
                 \/ RecordResponse(h) \/ DeliverReply(h)
      <4>1. CASE AssistantThinks(h) \/ RecordResponse(h)
        <5>1. /\ UNCHANGED <<runs, stored, answers, ledger>>
              /\ \/ pc[h] = "assist" /\ pc'[h] = "question"
                 \/ pc[h] = "record" /\ pc'[h] = "deliver"
          BY <2>1, <4>1 DEF AssistantThinks, RecordResponse, Goto, Shape, rows
        <5> QED
          BY <1>1, <1>2, <2>2, <2>4, <5>1 DEF Good, Delta, Replying, Storing, Unreplied,
             RunSteps, Speaking, Answered, ledger
      <4>2. CASE StoreQuestion(h)
        <5>1. /\ UNCHANGED <<runs, answers, ledger>> /\ stored'[m] = stored[m] + 1
              /\ pc[h] = "question" /\ pc'[h] = "response"
          BY <2>1, <2>4, <4>2 DEF StoreQuestion, Goto, Bump, Shape, CounterShape
        <5> QED
          BY <1>1, <1>2, <2>2, <2>4, <5>1 DEF Good, Delta, Replying, Storing, Unreplied,
             RunSteps, Speaking, Answered, ledger
      <4>3. CASE StoreResponse(h)
        <5>1. /\ UNCHANGED <<runs, stored, ledger>> /\ answers'[m] = answers[m] + 1
              /\ pc[h] = "response" /\ pc'[h] = "record"
          BY <2>1, <2>4, <4>3 DEF StoreResponse, Goto, Bump, Shape, CounterShape
        <5> QED
          BY <1>1, <1>2, <2>2, <2>4, <5>1 DEF Good, Delta, Replying, Storing, Unreplied,
             RunSteps, Speaking, Answered, ledger
      <4>4. CASE DeliverReply(h)
        <5>1. /\ UNCHANGED <<runs, stored, answers, cut, abandoned, work>>
              /\ replied'[m] = replied[m] + 1 /\ handled'[m] = handled[m] + 1
              /\ talks'[m] = talks[m] + 1
              /\ pc[h] = "deliver" /\ pc'[h] = "mark"
          BY <2>1, <2>4, <4>4 DEF DeliverReply, Goto, Bump, Shape, CounterShape, rows
        <5> QED
          BY <1>1, <1>2, <2>2, <2>4, <5>1 DEF Good, Delta, Replying, Storing, Unreplied,
             RunSteps, Speaking, Answered
      <4> QED
        BY <3>3, <4>1, <4>2, <4>3, <4>4
    <3>4. CASE CreateRun(h) \/ LaunchRun(h) \/ CompleteRun(h)
      <4>1. UNCHANGED <<stored, answers, handled, talks, cut, replied, abandoned, work>>
        BY <3>4 DEF CreateRun, LaunchRun, CompleteRun, ledger
      <4>2. \/ /\ pc[h] = "create" /\ pc'[h] = "launch"
               /\ runs' = [runs EXCEPT ![n]["PENDING"] = @ + 1]
            \/ /\ pc[h] = "launch" /\ pc'[h] = "detect"
               /\ runs' = [runs EXCEPT ![n]["PENDING"] = @ - 1, ![n]["RUNNING"] = @ + 1]
            \/ /\ pc[h] = "complete" /\ pc'[h] = "store"
               /\ runs' = [runs EXCEPT ![n]["RUNNING"] = @ - 1, ![n]["COMPLETED"] = @ + 1]
        BY <3>4 DEF CreateRun, LaunchRun, CompleteRun, MoveRun, Goto, Shape
      <4>3. \/ /\ pc[h] = "create" /\ pc'[h] = "launch"
               /\ runs'[m]["PENDING"] = runs[m]["PENDING"] + 1
               /\ runs'[m]["RUNNING"] = runs[m]["RUNNING"]
               /\ runs'[m]["COMPLETED"] = runs[m]["COMPLETED"]
            \/ /\ pc[h] = "launch" /\ pc'[h] = "detect"
               /\ runs'[m]["PENDING"] = runs[m]["PENDING"] - 1
               /\ runs'[m]["RUNNING"] = runs[m]["RUNNING"] + 1
               /\ runs'[m]["COMPLETED"] = runs[m]["COMPLETED"]
            \/ /\ pc[h] = "complete" /\ pc'[h] = "store"
               /\ runs'[m]["PENDING"] = runs[m]["PENDING"]
               /\ runs'[m]["RUNNING"] = runs[m]["RUNNING"] - 1
               /\ runs'[m]["COMPLETED"] = runs[m]["COMPLETED"] + 1
        BY <2>4, <4>2 DEF RunStatuses, CounterShape
      <4>4. /\ Load(RunSteps, m)' =
                 Load(RunSteps, m) + (IF pc[h] = "create" THEN 1
                                      ELSE IF pc[h] = "launch" THEN 0 ELSE -1)
            /\ Load(Storing, m)' = Load(Storing, m) + (IF pc[h] = "complete" THEN 1 ELSE 0)
            /\ Load(Replying, m)' = Load(Replying, m) /\ Load(Unreplied, m)' <= Load(Unreplied, m)
            /\ Load(Unreplied, m)' \in Int
            /\ Load(Speaking, m)' = Load(Speaking, m) /\ Load(Answered, m)' = Load(Answered, m)
        BY <1>2, <2>2, <2>4, <4>3 DEF Delta, Replying, Storing, Unreplied, RunSteps,
           Speaking, Answered
      <4> QED
        BY <1>1, <1>2, <4>1, <4>3, <4>4 DEF Good
    <3>5. CASE Notify(h)
      <4>1. /\ UNCHANGED <<runs, stored, answers, handled, talks, cut, abandoned, work>>
            /\ pc[h] = "notify" /\ pc'[h] = "complete"
            /\ replied'[m] \in {replied[m], replied[m] + 1}
        BY <2>1, <2>4, <3>5 DEF Notify, Goto, rows, Bump, Shape, CounterShape
      <4> QED
        BY <1>1, <1>2, <2>2, <2>4, <4>1 DEF Good, Delta, Replying, Storing, Unreplied,
           RunSteps, Speaking, Answered
    <3>6. CASE StoreUserMessage(h) \/ StoreAssistantMessage(h)
      <4>1. /\ UNCHANGED <<runs, talks, cut, replied, abandoned, work>>
            /\ \/ /\ pc[h] = "store" /\ pc'[h] = "reply" /\ UNCHANGED <<answers, handled>>
                  /\ stored'[m] = stored[m] + 1
               \/ /\ pc[h] = "reply" /\ pc'[h] = "mark" /\ UNCHANGED stored
                  /\ answers'[m] = answers[m] + 1 /\ handled'[m] = handled[m] + 1
        BY <2>1, <2>4, <3>6 DEF StoreUserMessage, StoreAssistantMessage, Goto, ledger, Bump,
           Shape, CounterShape
      <4> QED
        BY <1>1, <1>2, <2>2, <2>4, <4>1 DEF Good, Delta, Replying, Storing, Unreplied,
           RunSteps, Speaking, Answered
    \* An error closes the run it finds open, or leaves it abandoned.
    <3>7. CASE Raise(h)
      <4>6. cut'[m] = IF Talking(h) THEN cut[m] + 1 ELSE cut[m]
        BY <2>1, <2>4, <3>7 DEF Raise, Catch, CutTurn, Bump, CounterShape
      <4>1. /\ UNCHANGED <<stored, answers, handled, talks, replied, abandoned, work>>
            /\ pc[h] \in {"route", "assist", "record", "deliver", "detect", "pay", "notify"}
            /\ pc'[h] = "answer"
        BY <3>7 DEF Raise, Catch, AnswerWith, Goto, Shape
      <4>2. /\ runs'[m]["PENDING"] = runs[m]["PENDING"]
            /\ runs'[m]["COMPLETED"] = runs[m]["COMPLETED"]
            /\ runs'[m]["RUNNING"] = IF RunOpen(h) THEN runs[m]["RUNNING"] - 1
                                                   ELSE runs[m]["RUNNING"]
        BY <2>4, <3>7 DEF Raise, MoveRun, RunStatuses, CounterShape
      <4>3. /\ Load(RunSteps, m)' = Load(RunSteps, m) - (IF RunOpen(h) THEN 1 ELSE 0)
            /\ Load(Replying, m)' <= Load(Replying, m) /\ Load(Storing, m)' <= Load(Storing, m)
            /\ Load(Unreplied, m)' <= Load(Unreplied, m)
            /\ Load(Answered, m)' <= Load(Answered, m)
            /\ cut'[m] + Load(Speaking, m)' = cut[m] + Load(Speaking, m)
            /\ Load(Replying, m)' \in Int /\ Load(Storing, m)' \in Int
            /\ Load(Unreplied, m)' \in Int /\ Load(Answered, m)' \in Int
            /\ Load(Speaking, m)' \in Int /\ cut'[m] \in Int
        BY <1>2, <2>2, <2>4, <4>1, <4>6 DEF RunOpen, Talking, Delta, Replying, Storing,
           Unreplied, RunSteps, Speaking, Answered
      <4>4. CASE RunOpen(h)
        <5>1. /\ runs'[m]["RUNNING"] = runs[m]["RUNNING"] - 1
              /\ Load(RunSteps, m)' = Load(RunSteps, m) - 1
          BY <4>2, <4>3, <4>4
        <5>2. /\ runs'[m]["PENDING"] + runs'[m]["RUNNING"] = Load(RunSteps, m)' + abandoned'[m]
              /\ runs'[m]["COMPLETED"] = runs[m]["COMPLETED"]
          <6>1. runs[m]["PENDING"] + runs[m]["RUNNING"] = Load(RunSteps, m) + abandoned[m]
            BY <1>1 DEF Good
          <6> QED
            <7>1. abandoned'[m] = abandoned[m]
              BY <4>1
            <7> QED
              BY <1>2, <4>2, <5>1, <6>1, <7>1
        <5>3. /\ Load(Replying, m)' <= Load(Replying, m) /\ Load(Storing, m)' <= Load(Storing, m)
              /\ Load(Unreplied, m)' <= Load(Unreplied, m)
              /\ Load(Answered, m)' <= Load(Answered, m)
              /\ cut'[m] + Load(Speaking, m)' = cut[m] + Load(Speaking, m)
              /\ Load(Replying, m)' \in Int /\ Load(Storing, m)' \in Int
              /\ Load(Unreplied, m)' \in Int /\ Load(Answered, m)' \in Int
              /\ Load(Speaking, m)' \in Int /\ cut'[m] \in Int
          BY <4>3
        <5> QED
          BY <1>1, <1>2, <4>1, <5>2, <5>3 DEF Good
      <4>5. CASE ~RunOpen(h)
        <5>1. /\ runs'[m]["RUNNING"] = runs[m]["RUNNING"]
              /\ Load(RunSteps, m)' = Load(RunSteps, m)
          BY <1>2, <4>2, <4>3, <4>5
        <5> QED
          BY <1>1, <1>2, <4>1, <4>2, <4>3, <5>1 DEF Good
      <4> QED
        BY <4>4, <4>5
    <3>8. CASE CommitFails(h) \/ RecipientMissing(h) \/ Crash(h)
      <4>6. cut'[m] = IF Talking(h) THEN cut[m] + 1 ELSE cut[m]
        BY <2>1, <2>4, <3>8 DEF CommitFails, RecipientMissing, Crash, Catch, CutTurn, Bump,
           CounterShape
      <4>1. /\ UNCHANGED <<runs, stored, answers, handled, talks, replied, work>>
            /\ pc'[h] \in {"answer", "idle"}
        BY <3>8 DEF CommitFails, RecipientMissing, Crash, Catch, AnswerWith, Release, Goto, rows,
           Shape
      <4>2. abandoned'[m] = IF RunOpen(h) THEN abandoned[m] + 1 ELSE abandoned[m]
        BY <2>1, <2>4, <3>8 DEF CommitFails, RecipientMissing, Crash, Abandon, Bump, CounterShape
      <4>3. /\ Load(RunSteps, m)' = Load(RunSteps, m) - (IF RunOpen(h) THEN 1 ELSE 0)
            /\ Load(Replying, m)' <= Load(Replying, m) /\ Load(Storing, m)' <= Load(Storing, m)
            /\ Load(Unreplied, m)' <= Load(Unreplied, m)
            /\ Load(Answered, m)' <= Load(Answered, m)
            /\ cut'[m] + Load(Speaking, m)' = cut[m] + Load(Speaking, m)
            /\ Load(Replying, m)' \in Int /\ Load(Storing, m)' \in Int
            /\ Load(Unreplied, m)' \in Int /\ Load(Answered, m)' \in Int
            /\ Load(Speaking, m)' \in Int /\ cut'[m] \in Int
        BY <1>2, <2>2, <2>4, <4>1, <4>6 DEF RunOpen, Talking, Delta, Replying, Storing,
           Unreplied, RunSteps, Speaking, Answered
      <4>4. runs'[m]["PENDING"] + runs'[m]["RUNNING"] = Load(RunSteps, m)' + abandoned'[m]
        <5>1. /\ runs[m]["PENDING"] + runs[m]["RUNNING"] = Load(RunSteps, m) + abandoned[m]
              /\ runs' = runs
          BY <1>1, <4>1 DEF Good
        <5>2. Load(RunSteps, m)' = Load(RunSteps, m) - (IF RunOpen(h) THEN 1 ELSE 0)
          BY <4>3
        <5>3. Load(RunSteps, m)' + abandoned'[m] = Load(RunSteps, m) + abandoned[m]
          BY <1>2, <4>2, <5>2
        <5> QED
          BY <5>1, <5>3
      <4> QED
        BY <1>1, <1>2, <4>1, <4>3, <4>4 DEF Good
    <3>9. CASE ErrorOutsideTry(h)
      <4>1. /\ UNCHANGED <<runs, stored, answers, handled, talks, cut, replied, abandoned, work>>
            /\ pc[h] \in {"check", "lookup", "open", "mark"} /\ pc'[h] = "answer"
        BY <3>9 DEF ErrorOutsideTry, AnswerWith, Goto, rows, Shape
      <4> QED
        BY <1>1, <1>2, <2>2, <2>4, <4>1 DEF Good, Delta, Replying, Storing, Unreplied,
           RunSteps, Speaking, Answered
    <3> QED
      BY <1>8, <3>1, <3>2, <3>3, <3>4, <3>5, <3>6, <3>7, <3>8, <3>9
  <2> QED
    BY <2>3, <2>4
<1>9. CASE UNCHANGED vars
  BY <1>9, <1>2, <1>4 DEF vars, slots, rows, ledger
<1> QED
  BY <1>5, <1>6, <1>7, <1>8, <1>9 DEF Next, Step, Deliver, DeliverAgain

\* What a conversation keeps never runs ahead of the runs that completed and the
\* turns of the assistant, those under way or cut off before their reply among them;
\* no answer runs ahead of its question, nor the replies ahead of the attempts.
THEOREM HistoryFollowsSuccess == Spec => []HistoryOnlyAfterSuccess
<1>1. Init => Shape /\ CounterShape /\ HistoryInv
  BY InitIntake, InitHistory DEF IntakeInv
<1>2. Shape /\ CounterShape /\ HistoryInv /\ [Next]_vars => (Shape /\ CounterShape /\ HistoryInv)'
  BY NextShape, NextCounters, NextHistory
<1>3. Shape /\ CounterShape /\ HistoryInv => HistoryOnlyAfterSuccess
  <2> SUFFICES ASSUME Shape, CounterShape, HistoryInv, NEW m \in Messages
               PROVE  /\ answers[m] <= stored[m] /\ handled[m] <= answers[m]
                      /\ stored[m] <= runs[m]["COMPLETED"] + talks[m] + cut[m]
                                        + Cardinality(Turns(m))
                      /\ replied[m] <= work[m]
    BY DEF HistoryOnlyAfterSuccess
  <2>1. /\ Load(Replying, m) \in Nat /\ Load(Storing, m) \in Nat
        /\ Load(Unreplied, m) \in Nat /\ Load(Answered, m) \in Nat
        /\ Load(Speaking, m) \in Nat
    BY LoadNat
  <2>2. Load(Speaking, m) = Cardinality(Turns(m))
    BY DEF Load, At, Turns, Talking, Speaking
  <2> QED
    BY <2>1, <2>2 DEF HistoryInv, Shape, CounterShape, RunStatuses
<1> QED
  BY <1>1, <1>2, <1>3, PTL DEF Spec

\* Every run that is neither COMPLETED nor FAILED is being worked on or was
\* abandoned by a crash or a failed commit.
THEOREM OpenRunsFollowed == Spec => []OpenRunsAccounted
<1>1. Init => Shape /\ CounterShape /\ HistoryInv
  BY InitIntake, InitHistory DEF IntakeInv
<1>2. Shape /\ CounterShape /\ HistoryInv /\ [Next]_vars => (Shape /\ CounterShape /\ HistoryInv)'
  BY NextShape, NextCounters, NextHistory
<1>3. HistoryInv => OpenRunsAccounted
  <2>1. \A m \in Messages : LiveRuns(m) = At(RunSteps, m)
    BY DEF LiveRuns, RunOpen, At, RunSteps
  <2> QED
    BY <2>1 DEF HistoryInv, OpenRunsAccounted, Open, Load
<1> QED
  BY <1>1, <1>2, <1>3, PTL DEF Spec

=============================================================================

-------------------------- MODULE PendingActionsProofs --------------------------
(***************************************************************************)
(* Proofs about PendingActions, for any number of users, requests, actions, *)
(* answers and faults.                                                     *)
(*                                                                         *)
(* The argument: an action that was never held by two at once is held by   *)
(* its only holder from the read to the last write, so what the holder read *)
(* (PENDING_CONFIRMATION) is still so when it writes.                       *)
(***************************************************************************)
EXTENDS PendingActions, MoneyTheorems, TLAPS

\* A request has an action in hand from Pick to its end.
HandsOn ==
  \A q \in Requests : got[q] = NoAction <=> pc[q] \in {"idle", "read"}

\* Without a race nobody shares an action.
NotShared ==
  \A a \in Actions \ raced :
     \A q \in Requests : got[q] = a =>
        /\ a \notin due
        /\ \A p \in Requests : got[p] = a => p = q

\* Without a race the status is still the one read, or the one written.
AsRead ==
  \A a \in Actions \ raced :
     /\ a \in due => status[a] = "PENDING_CONFIRMATION"
     /\ \A q \in Requests : got[q] = a =>
          status[a] = IF pc[q] = "logdone" THEN "EXECUTED" ELSE "PENDING_CONFIRMATION"

\* What nobody proposed, nobody holds or executes.
OnlyProposed ==
  \A a \in Actions : status[a] = "ABSENT" =>
     effects[a] = 0 /\ a \notin due /\ \A q \in Requests : got[q] # a

\* One more execution, or one more audit row, of an action.
LEMMA OneMore ==
  ASSUME NEW f \in [Actions -> Nat], NEW a
  PROVE  [f EXCEPT ![a] = f[a] + 1] \in [Actions -> Nat]
<1>1. ASSUME NEW b \in Actions PROVE [f EXCEPT ![a] = f[a] + 1][b] \in Nat
  <2>1. CASE a = b
    BY <2>1
  <2>2. CASE a # b
    BY <2>2
  <2> QED
    BY <2>1, <2>2
<1> QED
  BY <1>1

\* Every variable keeps its type.
THEOREM TypeCorrect == Spec => []TypeOK
<1>1. Init => TypeOK
  BY ActionsAssumption DEF Init, TypeOK, Statuses, Steps, Kinds, Actions, NoAction
<1>2. TypeOK /\ [Next]_vars => TypeOK'
  <2> SUFFICES ASSUME TypeOK, [Next]_vars PROVE TypeOK'
    OBVIOUS
  <2> USE ActionsAssumption DEF TypeOK, Statuses, Steps, Kinds, rowVars, askVars, ledgerVars, bounds
  <2>1. CASE UNCHANGED vars
    BY <2>1 DEF vars
  <2>2. CASE \E u \in Users, a \in Actions, k \in Kinds : Propose(u, a, k)
    BY <2>2 DEF Propose, SetStatus
  <2>3. CASE \E u \in Users, q \in Requests, w \in {"YES", "NO"} : Say(q, u, w)
    <3>1. PICK u \in Users, q \in Requests, w \in {"YES", "NO"} : Say(q, u, w)
      BY <2>3
    <3>2. consents' \in [Users -> Nat]
      BY <3>1 DEF Say
    <3> QED
      BY <3>1, <3>2 DEF Say
  <2>4. CASE \E a \in Actions : Lapse(a)
    BY <2>4 DEF Lapse
  <2>5. ASSUME NEW q \in Requests, RequestStep(q) PROVE TypeOK'
    <3>1. CASE \E a \in Actions : Pick(q, a)
      <4>1. PICK a \in Actions : Pick(q, a)
        BY <3>1
      <4>2. raced' \subseteq Actions
        BY <4>1 DEF Pick, Take
      <4> QED
        BY <4>1, <4>2 DEF Pick, Take
    <3>2. CASE PickNothing(q) \/ ExecuteRefused(q)
      BY <3>2 DEF PickNothing, ExecuteRefused, Leave
    <3>3. CASE LogConfirmed(q)
      <4>1. confirmed' \in [Actions -> Nat]
        BY <3>3, OneMore DEF LogConfirmed
      <4> QED
        BY <3>3, <4>1 DEF LogConfirmed
    <3>4. CASE Execute(q)
      <4>1. effects' \in [Actions -> Nat]
        BY <3>4, OneMore DEF Execute
      <4> QED
        BY <3>4, <4>1 DEF Execute
    <3>5. CASE Record(q)
      BY <3>5 DEF Record, SetStatus
    <3>6. CASE LogExecuted(q)
      <4>1. executed' \in [Actions -> Nat]
        BY <3>6, OneMore DEF LogExecuted
      <4> QED
        BY <3>6, <4>1 DEF LogExecuted, Leave
    <3>7. CASE Cancel(q)
      BY <3>7 DEF Cancel, SetStatus, Leave
    <3> QED
      BY <2>5, <3>1, <3>2, <3>3, <3>4, <3>5, <3>6, <3>7 DEF RequestStep
  <2>6. CASE \E q \in Requests : Die(q)
    BY <2>6 DEF Die, Leave
  <2>7. CASE Cleanup
    BY <2>7 DEF Cleanup, ExpireScan, ExpireOne, Expired, SetStatus
  <2>8. CASE CleanupDies
    BY <2>8 DEF CleanupDies
  <2> QED
    BY <2>1, <2>2, <2>3, <2>4, <2>5, <2>6, <2>7, <2>8 DEF Next
<1> QED
  BY <1>1, <1>2, PTL DEF Spec

-----------------------------------------------------------------------------

Discipline == HandsOn /\ NotShared /\ AsRead /\ OnlyProposed /\ StatusTellsTheTruth

\* At first no request holds an action.
LEMMA DisciplineInit == Init => Discipline
  BY DEF Init, Discipline, HandsOn, NotShared, AsRead, OnlyProposed,
         StatusTellsTheTruth, BeingRecorded, NoAction, Actions

\* Taking an action: either somebody has it, and it is raced from now on, or
\* the request is its only holder and has just read it.
LEMMA PickKeeps ==
  ASSUME TypeOK, Discipline, NEW q \in Requests, NEW a \in Actions, Pick(q, a)
  PROVE  Discipline'
<1> USE DEF TypeOK, Discipline, rowVars, BeingRecorded
<1>1. a # NoAction /\ got[q] = NoAction /\ status[a] = "PENDING_CONFIRMATION"
  BY DEF Pick, IsLatest, Confirmable, HandsOn, Actions, NoAction
<1>2. /\ pc' \in [Requests -> Steps] /\ pc'[q] \in {"log", "cancel"}
      /\ \A p \in Requests \ {q} : pc'[p] = pc[p]
      /\ got'[q] = a /\ \A p \in Requests \ {q} : got'[p] = got[p]
  BY DEF Pick, Take, Steps
<1>3. /\ raced \subseteq raced' /\ (Held(a) => a \in raced')
      /\ status' = status /\ effects' = effects /\ due' = due /\ broken' = broken
  BY DEF Pick, Take
<1>4. HandsOn'
  BY <1>1, <1>2 DEF HandsOn
<1>5. NotShared'
  BY <1>2, <1>3 DEF NotShared, Held
<1>6. AsRead'
  BY <1>1, <1>2, <1>3 DEF AsRead
<1>7. OnlyProposed'
  BY <1>1, <1>2, <1>3 DEF OnlyProposed
<1>8. StatusTellsTheTruth'
  BY <1>1, <1>2, <1>3 DEF StatusTellsTheTruth, HandsOn, Held
<1> QED
  BY <1>4, <1>5, <1>6, <1>7, <1>8

\* A request that goes on or ends without touching the rows.
LEMMA WalkKeeps ==
  ASSUME TypeOK, Discipline, NEW q \in Requests,
         \/ LogConfirmed(q) \/ PickNothing(q) \/ ExecuteRefused(q)
         \/ LogExecuted(q) \/ Die(q)
  PROVE  Discipline'
<1> USE DEF TypeOK, Discipline, BeingRecorded
<1>1. /\ \A p \in Requests \ {q} : pc'[p] = pc[p] /\ got'[p] = got[p]
      /\ \/ pc'[q] = "idle" /\ got'[q] = NoAction
         \/ pc[q] = "log" /\ pc'[q] = "execute" /\ got'[q] = got[q]
  BY DEF LogConfirmed, PickNothing, ExecuteRefused, LogExecuted, Die, Leave
<1>2. status' = status /\ effects' = effects /\ due' = due /\ raced' = raced
  BY DEF LogConfirmed, PickNothing, ExecuteRefused, LogExecuted, Die, rowVars, ledgerVars
<1>3. /\ broken \subseteq broken'
      /\ pc[q] = "record" => got[q] \in broken'
  BY DEF LogConfirmed, PickNothing, ExecuteRefused, LogExecuted, Die, ledgerVars, HandsOn, NoAction
<1>4. NoAction \notin Actions
  BY ActionsAssumption DEF NoAction, Actions
<1>5. HandsOn'
  BY <1>1, <1>4 DEF HandsOn
<1>6. NotShared'
  BY <1>1, <1>2, <1>4 DEF NotShared
<1>7. AsRead'
  BY <1>1, <1>2, <1>4 DEF AsRead
<1>8. OnlyProposed'
  BY <1>1, <1>2, <1>4 DEF OnlyProposed
<1>9. StatusTellsTheTruth'
  BY <1>1, <1>2, <1>3, <1>4 DEF StatusTellsTheTruth
<1> QED
  BY <1>5, <1>6, <1>7, <1>8, <1>9

\* The effect: only a PENDING_CONFIRMATION action that nobody recorded is
\* executed by its only holder.
LEMMA ExecuteKeeps ==
  ASSUME TypeOK, Discipline, NEW q \in Requests, Execute(q)
  PROVE  Discipline'
<1> USE DEF TypeOK, Discipline, BeingRecorded
<1>1. got[q] \in Actions /\ pc[q] = "execute"
  BY DEF Execute, HandsOn
<1>2. PICK a \in Actions : a = got[q]
  BY <1>1
<1>3. /\ \A p \in Requests \ {q} : pc'[p] = pc[p]
      /\ pc'[q] = "record" /\ got' = got
  BY DEF Execute
<1>4. status' = status /\ due' = due /\ raced' = raced /\ broken' = broken
  BY DEF Execute, rowVars
<1>5. /\ effects'[a] = effects[a] + 1
      /\ \A b \in Actions \ {a} : effects'[b] = effects[b]
  BY <1>2 DEF Execute
<1>6. HandsOn'
  BY <1>1, <1>3 DEF HandsOn
<1>7. NotShared'
  BY <1>3, <1>4 DEF NotShared
<1>8. AsRead'
  BY <1>1, <1>3, <1>4 DEF AsRead
<1>9. OnlyProposed'
  BY <1>2, <1>3, <1>4, <1>5 DEF OnlyProposed
<1>10. StatusTellsTheTruth'
  <2>1. ASSUME NEW b \in Actions \ (raced' \cup broken'), b # a
        PROVE  effects'[b] = IF status'[b] = "EXECUTED" \/ BeingRecorded(b)' THEN 1 ELSE 0
    BY <2>1, <1>2, <1>3, <1>4, <1>5 DEF StatusTellsTheTruth
  <2>2. ASSUME a \notin raced \cup broken PROVE effects[a] = 0
    <3>1. status[a] = "PENDING_CONFIRMATION"
      BY <2>2, <1>1, <1>2 DEF AsRead
    <3>2. ~BeingRecorded(a)
      BY <2>2, <1>1, <1>2 DEF NotShared
    <3> QED
      BY <2>2, <3>1, <3>2 DEF StatusTellsTheTruth
  <2>3. BeingRecorded(a)'
    BY <1>2, <1>3
  <2> QED
    BY <2>1, <2>2, <2>3, <1>4, <1>5 DEF StatusTellsTheTruth
<1> QED
  BY <1>6, <1>7, <1>8, <1>9, <1>10

\* The last write of a request: EXECUTED or CANCELLED, over what it read.
LEMMA WriteKeeps ==
  ASSUME TypeOK, Discipline, NEW q \in Requests, Record(q) \/ Cancel(q)
  PROVE  Discipline'
<1> USE DEF TypeOK, Discipline, BeingRecorded
<1>1. got[q] \in Actions /\ NoAction \notin Actions
  <2>1. pc[q] \in {"record", "cancel"}
    BY DEF Record, Cancel
  <2>2. got[q] # NoAction
    BY <2>1 DEF HandsOn
  <2>3. NoAction \notin Actions
    BY ActionsAssumption DEF NoAction, Actions
  <2> QED
    BY <2>2, <2>3
<1>2. PICK a \in Actions : a = got[q]
  BY <1>1
<1>3. /\ \A p \in Requests \ {q} : pc'[p] = pc[p] /\ got'[p] = got[p]
      /\ \/ /\ pc[q] = "record" /\ pc'[q] = "logdone" /\ got'[q] = a
            /\ status'[a] = "EXECUTED"
         \/ /\ pc[q] = "cancel" /\ pc'[q] = "idle" /\ got'[q] = NoAction
            /\ status'[a] = "CANCELLED"
  BY <1>2 DEF Record, Cancel, SetStatus, Leave
<1>4. \A b \in Actions \ {a} : status'[b] = status[b]
  BY <1>2 DEF Record, Cancel, SetStatus
<1>5. effects' = effects /\ due' = due /\ raced' = raced /\ broken' = broken
  BY DEF Record, Cancel, ledgerVars
<1>6. HandsOn'
  BY <1>1, <1>3 DEF HandsOn
<1>7. NotShared'
  BY <1>1, <1>2, <1>3, <1>5 DEF NotShared
<1>8. AsRead'
  <2>1. ASSUME NEW b \in Actions \ raced', b # a
        PROVE  /\ b \in due' => status'[b] = "PENDING_CONFIRMATION"
               /\ \A p \in Requests : got'[p] = b =>
                    status'[b] = IF pc'[p] = "logdone" THEN "EXECUTED" ELSE "PENDING_CONFIRMATION"
    BY <2>1, <1>1, <1>2, <1>3, <1>4, <1>5 DEF AsRead
  <2>2. ASSUME a \notin raced
        PROVE  /\ a \notin due'
               /\ \A p \in Requests : got'[p] = a =>
                    status'[a] = IF pc'[p] = "logdone" THEN "EXECUTED" ELSE "PENDING_CONFIRMATION"
    BY <2>2, <1>1, <1>2, <1>3, <1>5 DEF NotShared
  <2> QED
    BY <2>1, <2>2, <1>5 DEF AsRead
<1>9. OnlyProposed'
  BY <1>1, <1>2, <1>3, <1>4, <1>5 DEF OnlyProposed
<1>10. StatusTellsTheTruth'
  <2>1. ASSUME NEW b \in Actions \ (raced' \cup broken'), b # a
        PROVE  effects'[b] = IF status'[b] = "EXECUTED" \/ BeingRecorded(b)' THEN 1 ELSE 0
    BY <2>1, <1>1, <1>2, <1>3, <1>4, <1>5 DEF StatusTellsTheTruth
  <2>2. ASSUME a \notin raced \cup broken
        PROVE  effects'[a] = IF status'[a] = "EXECUTED" \/ BeingRecorded(a)' THEN 1 ELSE 0
    <3>1. \A p \in Requests : got[p] = a => p = q
      BY <2>2, <1>2 DEF NotShared
    <3>2. status[a] = "PENDING_CONFIRMATION"
      BY <2>2, <1>2, <1>3 DEF AsRead
    <3>3. effects[a] = IF pc[q] = "record" THEN 1 ELSE 0
      BY <2>2, <3>1, <3>2, <1>2 DEF StatusTellsTheTruth
    <3>4. ~BeingRecorded(a)'
      BY <3>1, <1>1, <1>2, <1>3
    <3> QED
      BY <3>3, <3>4, <1>3, <1>5
  <2> QED
    BY <2>1, <2>2, <1>5 DEF StatusTellsTheTruth
<1> QED
  BY <1>6, <1>7, <1>8, <1>9, <1>10

\* The cleanup: like a request, it holds what it has read until it writes it.
LEMMA CleanupKeeps ==
  ASSUME TypeOK, Discipline, Cleanup \/ CleanupDies
  PROVE  Discipline'
<1> USE DEF TypeOK, Discipline, BeingRecorded, askVars
<1>1. CASE ExpireScan
  <2>1. /\ status' = status /\ effects' = effects /\ broken' = broken
        /\ pc' = pc /\ got' = got /\ raced \subseteq raced'
        /\ \A a \in due' : status[a] = "PENDING_CONFIRMATION"
        /\ \A a \in due' : (\E q \in Requests : got[q] = a) => a \in raced'
    BY <1>1 DEF ExpireScan, rowVars, Expired, Held
  <2> QED
    BY <2>1 DEF HandsOn, NotShared, AsRead, OnlyProposed, StatusTellsTheTruth
<1>2. ASSUME NEW a \in Actions, ExpireOne(a) PROVE Discipline'
  <2>1. /\ a \in due /\ due' = due \ {a} /\ status'[a] = "EXPIRED"
        /\ \A b \in Actions \ {a} : status'[b] = status[b]
    BY <1>2 DEF ExpireOne, SetStatus
  <2>2. /\ effects' = effects /\ broken' = broken /\ pc' = pc /\ got' = got
        /\ raced' = raced
    BY <1>2 DEF ExpireOne, ledgerVars
  <2>3. a \notin raced => \A q \in Requests : got[q] # a
    BY <2>1 DEF NotShared
  <2> QED
    BY <2>1, <2>2, <2>3 DEF HandsOn, NotShared, AsRead, OnlyProposed, StatusTellsTheTruth
<1>3. CASE CleanupDies
  <2>1. /\ due' = {} /\ status' = status /\ effects' = effects /\ broken' = broken
        /\ pc' = pc /\ got' = got /\ raced' = raced
    BY <1>3 DEF CleanupDies, rowVars, ledgerVars
  <2> QED
    BY <2>1 DEF HandsOn, NotShared, AsRead, OnlyProposed, StatusTellsTheTruth
<1> QED
  BY <1>1, <1>2, <1>3 DEF Cleanup

\* New rows, words and the passing of time.
LEMMA OthersKeep ==
  ASSUME TypeOK, Discipline,
         \/ UNCHANGED vars
         \/ \E u \in Users, a \in Actions, k \in Kinds : Propose(u, a, k)
         \/ \E u \in Users, q \in Requests, w \in {"YES", "NO"} : Say(q, u, w)
         \/ \E a \in Actions : Lapse(a)
  PROVE  Discipline'
<1> USE DEF TypeOK, Discipline, BeingRecorded
<1>1. CASE UNCHANGED vars
  BY <1>1 DEF vars, rowVars, askVars, ledgerVars, HandsOn, NotShared, AsRead,
              OnlyProposed, StatusTellsTheTruth
<1>2. ASSUME NEW u \in Users, NEW a \in Actions, NEW k \in Kinds, Propose(u, a, k)
      PROVE  Discipline'
  <2>1. /\ status[a] = "ABSENT" /\ status'[a] = "PENDING_CONFIRMATION"
        /\ \A b \in Actions \ {a} : status'[b] = status[b]
    BY <1>2 DEF Propose, SetStatus
  <2>2. /\ effects' = effects /\ broken' = broken /\ pc' = pc /\ got' = got
        /\ raced' = raced /\ due' = due
    BY <1>2 DEF Propose, askVars, ledgerVars
  <2> QED
    BY <2>1, <2>2 DEF HandsOn, NotShared, AsRead, OnlyProposed, StatusTellsTheTruth
<1>3. ASSUME NEW u \in Users, NEW q \in Requests, NEW w \in {"YES", "NO"}, Say(q, u, w)
      PROVE  Discipline'
  <2>1. /\ pc[q] = "idle" /\ pc'[q] = "read"
        /\ \A p \in Requests \ {q} : pc'[p] = pc[p]
    BY <1>3 DEF Say
  <2>2. /\ effects' = effects /\ broken' = broken /\ status' = status /\ got' = got
        /\ raced' = raced /\ due' = due
    BY <1>3 DEF Say, rowVars, ledgerVars
  <2> QED
    BY <2>1, <2>2 DEF HandsOn, NotShared, AsRead, OnlyProposed, StatusTellsTheTruth
<1>4. ASSUME NEW a \in Actions, Lapse(a) PROVE Discipline'
  BY <1>4 DEF Lapse, askVars, ledgerVars, HandsOn, NotShared, AsRead, OnlyProposed,
              StatusTellsTheTruth
<1> QED
  BY <1>1, <1>2, <1>3, <1>4

\* Every step keeps the discipline.
LEMMA DisciplineNext == TypeOK /\ Discipline /\ [Next]_vars => Discipline'
<1> SUFFICES ASSUME TypeOK, Discipline, [Next]_vars PROVE Discipline'
  OBVIOUS
<1>1. ASSUME NEW q \in Requests, RequestStep(q) PROVE Discipline'
  BY <1>1, PickKeeps, WalkKeeps, ExecuteKeeps, WriteKeeps DEF RequestStep
<1>2. ASSUME NEW q \in Requests, Die(q) PROVE Discipline'
  BY <1>2, WalkKeeps
<1> QED
  BY <1>1, <1>2, CleanupKeeps, OthersKeep DEF Next

\* The statuses tell the truth about what was executed, for any number of
\* users, requests and answers, wherever no two overlapped on an action and
\* none died between its effect and its status.
THEOREM TruthfulStatus == Spec => []StatusTellsTheTruth
<1>1. Discipline => StatusTellsTheTruth
  BY DEF Discipline
<1> QED
  BY DisciplineInit, DisciplineNext, <1>1, TypeCorrect, PTL DEF Spec

\* A proposed contract is created at most once, with overlaps and faults too.
THEOREM ContractsOnce == Spec => []ContractOnce
<1>1. Init => Discipline /\ ContractOnce
  BY DisciplineInit DEF Init, ContractOnce
<1>2. TypeOK /\ Discipline /\ ContractOnce /\ [Next]_vars => Discipline' /\ ContractOnce'
  <2> SUFFICES ASSUME TypeOK, Discipline, ContractOnce, [Next]_vars
               PROVE  Discipline' /\ ContractOnce'
    OBVIOUS
  <2>1. Discipline'
    BY DisciplineNext
  <2>2. ASSUME NEW q \in Requests, Execute(q) PROVE ContractOnce'
    <3>1. \A b \in Actions : effects'[b] = IF b = got[q] THEN effects[b] + 1 ELSE effects[b]
      BY <2>2 DEF Execute, TypeOK
    <3>2. kind' = kind
      BY <2>2 DEF Execute, rowVars
    <3>3. kind[got[q]] = "CREATE" => ~(effects[got[q]] > 0)
      BY <2>2 DEF Execute, CodeIsTaken
    <3> QED
      BY <3>1, <3>2, <3>3 DEF ContractOnce, TypeOK
  <2>3. ASSUME NEW u \in Users, NEW a \in Actions, NEW k \in Kinds, Propose(u, a, k)
        PROVE  ContractOnce'
    <3>1. effects[a] = 0
      BY <2>3 DEF Propose, Discipline, OnlyProposed
    <3>2. effects' = effects /\ \A b \in Actions \ {a} : kind'[b] = kind[b]
      BY <2>3 DEF Propose, ledgerVars, TypeOK
    <3> QED
      BY <3>1, <3>2 DEF ContractOnce
  <2>4. ASSUME effects' = effects, kind' = kind PROVE ContractOnce'
    BY <2>4 DEF ContractOnce
  <2>5. \/ \E q \in Requests : Execute(q)
        \/ \E u \in Users, a \in Actions, k \in Kinds : Propose(u, a, k)
        \/ effects' = effects /\ kind' = kind
    BY DEF Next, vars, RequestStep, Pick, PickNothing, LogConfirmed, ExecuteRefused, Record,
           LogExecuted, Cancel, Say, Lapse, Die, Cleanup, ExpireScan, ExpireOne, CleanupDies,
           rowVars, ledgerVars
  <2> QED
    BY <2>1, <2>2, <2>3, <2>4, <2>5
<1> QED
  BY <1>1, <1>2, TypeCorrect, PTL DEF Spec

-----------------------------------------------------------------------------
(* The audit trail *)

\* Requests that hold an action at one of the steps of P, and how many.
At(P, a) == {q \in Requests : got[q] = a /\ pc[q] \in P}
Load(P, a) == Cardinality(At(P, a))

ToExecute == {"execute"}
ToLog     == {"record", "logdone"}

\* A load counts a set of requests, of which there are finitely many.
LEMMA LoadNat == ASSUME NEW P, NEW a PROVE Load(P, a) \in Nat /\ IsFiniteSet(At(P, a))
<1>1. At(P, a) \subseteq Requests
  BY DEF At
<1>2. IsFiniteSet(At(P, a))
  BY <1>1, ActionsAssumption, FS_Subset
<1> QED
  BY <1>2, FS_CardinalityType DEF Load

\* A request comes to a step of P.
LEMMA LoadUp ==
  ASSUME NEW P, NEW a, NEW q \in Requests, pc[q] \notin P, pc'[q] \in P, got'[q] = a,
         \A p \in Requests \ {q} : pc'[p] = pc[p] /\ got'[p] = got[p]
  PROVE  Load(P, a)' = Load(P, a) + 1
<1>1. At(P, a)' = At(P, a) \cup {q} /\ q \notin At(P, a)
  BY DEF At
<1>2. Cardinality(At(P, a) \cup {q}) = Cardinality(At(P, a)) + 1
  BY <1>1, LoadNat, FS_AddElement
<1> QED
  BY <1>1, <1>2 DEF Load

\* It leaves the steps of P.
LEMMA LoadDown ==
  ASSUME NEW P, NEW a, NEW q \in Requests, pc[q] \in P, pc'[q] \notin P, got[q] = a,
         \A p \in Requests \ {q} : pc'[p] = pc[p] /\ got'[p] = got[p]
  PROVE  Load(P, a)' = Load(P, a) - 1
<1>1. At(P, a)' = At(P, a) \ {q} /\ q \in At(P, a)
  BY DEF At
<1>2. Cardinality(At(P, a) \ {q}) = Cardinality(At(P, a)) - 1
  BY <1>1, LoadNat, FS_RemoveElement
<1> QED
  BY <1>1, <1>2 DEF Load

\* Nobody comes.
LEMMA LoadLess ==
  ASSUME NEW P, NEW a,
         \A p \in Requests : pc'[p] \in P /\ got'[p] = a => pc[p] \in P /\ got[p] = a
  PROVE  Load(P, a)' <= Load(P, a) /\ Load(P, a)' \in Nat
<1>1. At(P, a)' \subseteq At(P, a)
  BY DEF At
<1> QED
  BY <1>1, LoadNat, FS_Subset, FS_CardinalityType DEF Load

\* Each write runs ahead of the next by the requests between the two.
AuditInv ==
  \A a \in Actions :
     /\ effects[a] + Load(ToExecute, a) <= confirmed[a]
     /\ executed[a] + Load(ToLog, a) <= effects[a]

\* Nobody holds an action at the start.
LEMMA AuditInit == Init => AuditInv
<1> SUFFICES ASSUME Init, NEW a \in Actions
             PROVE  /\ effects[a] + Load(ToExecute, a) <= confirmed[a]
                    /\ executed[a] + Load(ToLog, a) <= effects[a]
  BY DEF AuditInv
<1>1. At(ToExecute, a) = {} /\ At(ToLog, a) = {}
  BY DEF Init, At, ToExecute, ToLog
<1> QED
  BY <1>1, FS_EmptySet DEF Init, Load

\* One step per write of the trail or of the execution; the others only let go.
LEMMA AuditNext == TypeOK /\ HandsOn /\ AuditInv /\ [Next]_vars => AuditInv'
<1> SUFFICES ASSUME TypeOK, HandsOn, AuditInv, [Next]_vars, NEW a \in Actions
             PROVE  /\ effects'[a] + Load(ToExecute, a)' <= confirmed'[a]
                    /\ executed'[a] + Load(ToLog, a)' <= effects'[a]
  BY DEF AuditInv
<1> DEFINE Bracketed == /\ effects'[a] + Load(ToExecute, a)' <= confirmed'[a]
                        /\ executed'[a] + Load(ToLog, a)' <= effects'[a]
<1>1. /\ effects[a] + Load(ToExecute, a) <= confirmed[a]
      /\ executed[a] + Load(ToLog, a) <= effects[a]
      /\ effects[a] \in Nat /\ confirmed[a] \in Nat /\ executed[a] \in Nat
      /\ Load(ToExecute, a) \in Nat /\ Load(ToLog, a) \in Nat
  BY LoadNat DEF AuditInv, TypeOK
\* Nothing new is executed or confirmed, and nobody comes to the steps that count.
<1>2. ASSUME effects'[a] = effects[a], confirmed'[a] = confirmed[a], executed'[a] = executed[a],
             \A p \in Requests :
                pc'[p] \in ToExecute \cup ToLog /\ got'[p] = a =>
                   pc[p] = pc'[p] /\ got[p] = a
      PROVE  Bracketed
  <2>1. /\ Load(ToExecute, a)' <= Load(ToExecute, a) /\ Load(ToExecute, a)' \in Nat
        /\ Load(ToLog, a)' <= Load(ToLog, a) /\ Load(ToLog, a)' \in Nat
    BY <1>2, LoadLess
  <2> QED
    BY <1>1, <1>2, <2>1
<1>3. ASSUME NEW q \in Requests, got'[q] = got[q], got[q] # a,
             \A p \in Requests \ {q} : pc'[p] = pc[p] /\ got'[p] = got[p],
             effects'[a] = effects[a], confirmed'[a] = confirmed[a], executed'[a] = executed[a]
      PROVE  Bracketed
  BY <1>2, <1>3
<1> USE DEF TypeOK, ToExecute, ToLog
<1>4. ASSUME NEW q \in Requests, LogConfirmed(q) PROVE Bracketed
  <2>1. /\ pc[q] = "log" /\ pc'[q] = "execute" /\ got' = got
        /\ \A p \in Requests \ {q} : pc'[p] = pc[p]
        /\ effects' = effects /\ executed' = executed
        /\ confirmed' = [confirmed EXCEPT ![got[q]] = @ + 1]
    BY <1>4 DEF LogConfirmed, Steps
  <2>2. CASE got[q] = a
    <3>1. confirmed'[a] = confirmed[a] + 1
      BY <2>1, <2>2
    <3>2. Load(ToExecute, a)' = Load(ToExecute, a) + 1
      BY <2>1, <2>2, LoadUp
    <3>3. Load(ToLog, a)' <= Load(ToLog, a) /\ Load(ToLog, a)' \in Nat
      BY <2>1, LoadLess
    <3> QED
      BY <1>1, <2>1, <3>1, <3>2, <3>3
  <2>3. CASE got[q] # a
    BY <1>3, <2>1, <2>3
  <2> QED
    BY <2>2, <2>3
<1>5. ASSUME NEW q \in Requests, Execute(q) PROVE Bracketed
  <2>1. /\ pc[q] = "execute" /\ pc'[q] = "record" /\ got' = got
        /\ \A p \in Requests \ {q} : pc'[p] = pc[p]
        /\ confirmed' = confirmed /\ executed' = executed
        /\ effects' = [effects EXCEPT ![got[q]] = @ + 1]
    BY <1>5 DEF Execute, Steps
  <2>2. CASE got[q] = a
    <3>1. effects'[a] = effects[a] + 1
      BY <2>1, <2>2
    <3>2. Load(ToExecute, a)' = Load(ToExecute, a) - 1
      BY <2>1, <2>2, LoadDown
    <3>3. Load(ToLog, a)' = Load(ToLog, a) + 1
      BY <2>1, <2>2, LoadUp
    <3> QED
      BY <1>1, <2>1, <3>1, <3>2, <3>3
  <2>3. CASE got[q] # a
    BY <1>3, <2>1, <2>3
  <2> QED
    BY <2>2, <2>3
<1>6. ASSUME NEW q \in Requests, LogExecuted(q) PROVE Bracketed
  <2>1. /\ pc[q] = "logdone" /\ pc'[q] = "idle" /\ got'[q] = NoAction
        /\ \A p \in Requests \ {q} : pc'[p] = pc[p] /\ got'[p] = got[p]
        /\ effects' = effects /\ confirmed' = confirmed
        /\ executed' = [executed EXCEPT ![got[q]] = @ + 1]
    BY <1>6 DEF LogExecuted, Leave, Steps
  <2>2. CASE got[q] = a
    <3>1. executed'[a] = executed[a] + 1
      BY <2>1, <2>2
    <3>2. Load(ToExecute, a)' <= Load(ToExecute, a) /\ Load(ToExecute, a)' \in Nat
      BY <2>1, LoadLess
    <3>3. Load(ToLog, a)' = Load(ToLog, a) - 1
      BY <2>1, <2>2, LoadDown
    <3> QED
      BY <1>1, <2>1, <3>1, <3>2, <3>3
  <2>3. CASE got[q] # a
    BY <1>2, <2>1, <2>3
  <2> QED
    BY <2>2, <2>3
\* From record to logdone the request stays among those that count.
<1>7. ASSUME NEW q \in Requests, Record(q) PROVE Bracketed
  <2>1. /\ pc[q] = "record" /\ pc'[q] = "logdone" /\ got' = got
        /\ \A p \in Requests \ {q} : pc'[p] = pc[p]
        /\ UNCHANGED <<effects, confirmed, executed>>
    BY <1>7 DEF Record, ledgerVars, Steps
  <2>2. Load(ToExecute, a)' <= Load(ToExecute, a) /\ Load(ToExecute, a)' \in Nat
        /\ Load(ToLog, a)' <= Load(ToLog, a) /\ Load(ToLog, a)' \in Nat
    BY <2>1, LoadLess
  <2> QED
    BY <1>1, <2>1, <2>2
<1>8. ASSUME NEW q \in Requests,
             \/ \E b \in Actions : Pick(q, b)
             \/ PickNothing(q) \/ ExecuteRefused(q) \/ Cancel(q) \/ Die(q)
             \/ \E u \in Users, w \in {"YES", "NO"} : Say(q, u, w)
      PROVE  Bracketed
  <2>1. /\ pc'[q] \in {"idle", "read", "log", "cancel"}
        /\ \A p \in Requests \ {q} : pc'[p] = pc[p] /\ got'[p] = got[p]
        /\ UNCHANGED <<effects, confirmed, executed>>
    BY <1>8 DEF Pick, Take, PickNothing, ExecuteRefused, Cancel, Die, Say, Leave, ledgerVars, Steps
  <2> QED
    BY <1>2, <2>1
<1>9. ASSUME \/ UNCHANGED vars \/ Cleanup \/ CleanupDies
             \/ \E u \in Users, b \in Actions, k \in Kinds : Propose(u, b, k)
             \/ \E b \in Actions : Lapse(b)
      PROVE  Bracketed
  <2>1. UNCHANGED <<pc, got, effects, confirmed, executed>>
    BY <1>9 DEF vars, Cleanup, ExpireScan, ExpireOne, CleanupDies, Propose, Lapse, askVars, ledgerVars
  <2> QED
    BY <1>2, <2>1
<1> QED
  BY <1>4, <1>5, <1>6, <1>7, <1>8, <1>9 DEF Next, RequestStep

\* No execution without a confirmation on record before it, and none on record
\* that was not carried out, with overlaps and faults too.
THEOREM AuditFollowsEffects == Spec => []AuditBracketsEffects
<1>1. Init => Discipline /\ AuditInv
  BY DisciplineInit, AuditInit
<1>2. TypeOK /\ Discipline /\ AuditInv /\ [Next]_vars => Discipline' /\ AuditInv'
  BY DisciplineNext, AuditNext DEF Discipline
<1>3. AuditInv => AuditBracketsEffects
  <2>1. \A a \in Actions :
           /\ At(ToExecute, a) = {q \in Requests : got[q] = a /\ pc[q] = "execute"}
           /\ At(ToLog, a) = {q \in Requests : got[q] = a /\ pc[q] \in {"record", "logdone"}}
    BY DEF At, ToExecute, ToLog
  <2> QED
    BY <2>1 DEF AuditInv, AuditBracketsEffects, Load
<1> QED
  BY <1>1, <1>2, <1>3, TypeCorrect, PTL DEF Spec

-----------------------------------------------------------------------------
(* Consent *)

\* The actions of a user, the executions they add up to, and the words of the user
\* that may still execute one.
OwnActions(u) == {a \in Actions : owner[a] = u}
Spent(u)      == SumOver(effects, OwnActions(u))
Spendable(u)  == {q \in Requests : /\ user[q] = u /\ word[q] = "YES"
                                   /\ pc[q] \in {"read", "log", "execute"}}
Covered(u)    == Spent(u) + Cardinality(Spendable(u)) <= consents[u]

\* A request acts on an action of its own user, and only on a YES.
OwnHands ==
  \A q \in Requests :
    /\ got[q] # NoAction => owner[got[q]] = user[q]
    /\ pc[q] \in {"log", "execute"} => word[q] = "YES"

\* What a user spent is a number.
LEMMA SpentNat ==
  ASSUME TypeOK, NEW u
  PROVE  /\ IsFiniteSet(OwnActions(u)) /\ \A a \in OwnActions(u) : effects[a] \in Nat
         /\ Spent(u) \in Nat
<1>1. IsFiniteSet(Actions)
  BY ActionsAssumption, FS_Interval DEF Actions
<1>2. IsFiniteSet(OwnActions(u)) /\ \A a \in OwnActions(u) : effects[a] \in Nat
  BY <1>1, FS_Subset DEF OwnActions, TypeOK
<1> QED
  BY <1>2, SumNat DEF Spent

\* The words that may still be spent are finitely many.
LEMMA SpendableNat ==
  ASSUME NEW u
  PROVE  IsFiniteSet(Spendable(u)) /\ Cardinality(Spendable(u)) \in Nat
<1>1. Spendable(u) \subseteq Requests
  BY DEF Spendable
<1> QED
  BY <1>1, ActionsAssumption, FS_Subset, FS_CardinalityType

\* A step that executes nothing, gives no action to another user, and leaves no more
\* words to spend, keeps what is covered.
LEMMA NothingSpent ==
  ASSUME TypeOK, NEW u \in Users, Covered(u),
         effects' = effects, consents'[u] = consents[u],
         \A a \in Actions : owner'[a] = u /\ owner[a] # u => effects[a] = 0,
         \A a \in Actions : owner'[a] # u /\ owner[a] = u => effects[a] = 0,
         Spendable(u)' \subseteq Spendable(u)
  PROVE  Covered(u)'
<1> DEFINE both == OwnActions(u) \cap {a \in Actions : owner'[a] = u}
<1>1. IsFiniteSet(both) /\ both \subseteq OwnActions(u)
  BY SpentNat, FS_Subset
<1>2. \A a \in Actions : effects[a] \in Int
  BY DEF TypeOK
<1>3. Spent(u) = SumOver(effects, both)
  BY <1>1, <1>2, SpentNat, SumWithoutZeros DEF Spent, OwnActions
<1>4. Spent(u)' = SumOver(effects, both)
  <2> DEFINE own == {a \in Actions : owner'[a] = u}
  <2>1. IsFiniteSet(own)
    <3>1. IsFiniteSet(Actions)
      BY ActionsAssumption, FS_Interval DEF Actions
    <3> QED
      BY <3>1, FS_Subset
  <2>2. both \subseteq own /\ \A a \in own \ both : effects[a] = 0
    BY DEF OwnActions
  <2>3. SumOver(effects, own) = SumOver(effects, both)
    <3> HIDE DEF both
    <3> QED
      BY <1>2, <2>1, <2>2, SumWithoutZeros
  <2>4. Spent(u)' = SumOver(effects, own)
    BY DEF Spent, OwnActions
  <2> QED
    BY <2>3, <2>4
<1>5. Cardinality(Spendable(u)') <= Cardinality(Spendable(u)) /\ Cardinality(Spendable(u)') \in Nat
  BY SpendableNat, FS_Subset, FS_CardinalityType
<1>6. Spent(u) \in Nat /\ Cardinality(Spendable(u)) \in Nat /\ consents[u] \in Nat
  BY SpentNat, SpendableNat DEF TypeOK
<1> QED
  BY <1>3, <1>4, <1>5, <1>6 DEF Covered

\* No user has more executions and words in flight than words said.
ConsentInv == OwnHands /\ \A u \in Users : Covered(u)

\* At the start nothing is spent, and no word is in flight.
LEMMA ConsentInit == Init => ConsentInv
<1> SUFFICES ASSUME Init PROVE ConsentInv
  OBVIOUS
<1>1. OwnHands
  BY DEF Init, OwnHands
<1>2. ASSUME NEW u \in Users PROVE Covered(u)
  <2>1. OwnActions(u) = {} /\ Spendable(u) = {}
    BY ActionsAssumption DEF Init, OwnActions, Spendable
  <2> QED
    BY <2>1, SumOfNone, FS_EmptySet DEF Init, Covered, Spent
<1> QED
  BY <1>1, <1>2 DEF ConsentInv

\* A request says a word, takes an action, gives up, or dies.
LEMMA HandsKept ==
  ASSUME TypeOK, Discipline, ConsentInv, [Next]_vars
  PROVE  OwnHands'
<1> USE DEF TypeOK, OwnHands, Discipline, ConsentInv
<1>1. ASSUME NEW q \in Requests, NEW a \in Actions, Pick(q, a) PROVE OwnHands'
  BY <1>1 DEF Pick, Take, IsLatest, Confirmable, rowVars
<1>2. ASSUME NEW q \in Requests,
             \/ PickNothing(q) \/ ExecuteRefused(q) \/ LogExecuted(q) \/ Cancel(q) \/ Die(q)
      PROVE  OwnHands'
  <2>1. /\ pc' = [pc EXCEPT ![q] = "idle"] /\ got' = [got EXCEPT ![q] = NoAction]
        /\ user' = [user EXCEPT ![q] = Nobody] /\ word' = [word EXCEPT ![q] = "YES"]
        /\ owner' = owner
    BY <1>2 DEF PickNothing, ExecuteRefused, LogExecuted, Cancel, Die, Leave, rowVars
  <2> QED
    BY <2>1
<1>3. ASSUME NEW q \in Requests, LogConfirmed(q) \/ Execute(q) \/ Record(q) PROVE OwnHands'
  BY <1>3 DEF LogConfirmed, Execute, Record, rowVars
<1>4. ASSUME NEW u \in Users, NEW q \in Requests, NEW w \in {"YES", "NO"}, Say(q, u, w)
      PROVE  OwnHands'
  <2>1. got[q] = NoAction
    BY <1>4 DEF Say, HandsOn
  <2> QED
    BY <1>4, <2>1 DEF Say, rowVars
<1>5. ASSUME NEW u \in Users, NEW a \in Actions, NEW k \in Kinds, Propose(u, a, k)
      PROVE  OwnHands'
  <2>1. \A q \in Requests : got[q] # a
    BY <1>5 DEF Propose, OnlyProposed
  <2> QED
    BY <1>5, <2>1 DEF Propose, askVars
<1>6. ASSUME \/ UNCHANGED vars \/ Cleanup \/ CleanupDies \/ \E b \in Actions : Lapse(b)
      PROVE  OwnHands'
  BY <1>6 DEF vars, Cleanup, ExpireScan, ExpireOne, CleanupDies, Lapse, askVars, rowVars
<1> QED
  BY <1>1, <1>2, <1>3, <1>4, <1>5, <1>6 DEF Next, RequestStep

\* Every execution takes a word out of flight.
LEMMA ConsentNext == TypeOK /\ Discipline /\ ConsentInv /\ [Next]_vars => ConsentInv'
<1> SUFFICES ASSUME TypeOK, Discipline, ConsentInv, [Next]_vars, NEW u \in Users
             PROVE  Covered(u)'
  BY HandsKept DEF ConsentInv
<1>1. /\ Spent(u) \in Nat /\ Cardinality(Spendable(u)) \in Nat /\ consents[u] \in Nat
      /\ Covered(u)
  BY SpentNat, SpendableNat DEF ConsentInv, TypeOK
\* The word: one more to spend, and one more said.
<1>2. ASSUME NEW v \in Users, NEW q \in Requests, NEW w \in {"YES", "NO"}, Say(q, v, w)
      PROVE  Covered(u)'
  <2>1. /\ pc[q] = "idle" /\ effects' = effects /\ owner' = owner
        /\ pc' = [pc EXCEPT ![q] = "read"] /\ user' = [user EXCEPT ![q] = v]
        /\ word' = [word EXCEPT ![q] = w]
        /\ consents' = [consents EXCEPT ![v] = @ + IF w = "YES" THEN 1 ELSE 0]
    BY <1>2 DEF Say, rowVars, ledgerVars
  <2>2. CASE v = u /\ w = "YES"
    <3>1. Spendable(u)' = Spendable(u) \cup {q} /\ q \notin Spendable(u)
      BY <2>1, <2>2 DEF Spendable, Steps, TypeOK
    <3>2. Cardinality(Spendable(u)') = Cardinality(Spendable(u)) + 1
      BY <3>1, SpendableNat, FS_AddElement
    <3>3. Spent(u)' = Spent(u)
      BY <2>1 DEF Spent, OwnActions
    <3>4. consents'[u] = consents[u] + 1
      BY <2>1, <2>2 DEF TypeOK
    <3> QED
      BY <1>1, <3>2, <3>3, <3>4 DEF Covered
  <2>3. CASE v # u \/ w = "NO"
    <3>1. Spendable(u)' \subseteq Spendable(u)
      BY <2>1, <2>3 DEF Spendable, TypeOK
    <3>2. consents'[u] = consents[u]
      BY <2>1, <2>3 DEF TypeOK
    <3> QED
      BY <1>1, <2>1, <3>1, <3>2, NothingSpent
  <2> QED
    BY <2>2, <2>3
\* The execution: one less to spend, and one more spent.
<1>3. ASSUME NEW q \in Requests, Execute(q) PROVE Covered(u)'
  <2>1. /\ pc[q] = "execute" /\ got' = got /\ owner' = owner /\ user' = user /\ word' = word
        /\ pc' = [pc EXCEPT ![q] = "record"] /\ consents' = consents
        /\ effects' = [effects EXCEPT ![got[q]] = @ + 1]
    BY <1>3 DEF Execute, rowVars, bounds
  <2>2. PICK a \in Actions : a = got[q]
    BY <2>1 DEF Discipline, HandsOn, TypeOK
  <2>3. owner[a] = user[q] /\ word[q] = "YES"
    BY <2>1, <2>2, ActionsAssumption DEF ConsentInv, OwnHands, NoAction, Actions
  <2>4. CASE owner[a] = u
    <3>1. Spendable(u)' = Spendable(u) \ {q} /\ q \in Spendable(u)
      BY <2>1, <2>3, <2>4 DEF Spendable, Steps, TypeOK
    <3>2. Cardinality(Spendable(u)') = Cardinality(Spendable(u)) - 1
      BY <3>1, SpendableNat, FS_RemoveElement
    <3>3. Spent(u)' = Spent(u) + 1
      <4>1. a \in OwnActions(u) /\ OwnActions(u)' = OwnActions(u)
        BY <2>1, <2>4 DEF OwnActions
      <4>2. /\ effects'[a] = effects[a] + 1
            /\ \A b \in Actions \ {a} : effects'[b] = effects[b]
        BY <2>1, <2>2 DEF TypeOK
      <4>3. /\ \A b \in OwnActions(u) : effects[b] \in Int /\ effects'[b] \in Int
            /\ \A b \in OwnActions(u) \ {a} : effects'[b] = effects[b]
        BY <1>1, <4>2 DEF OwnActions, TypeOK
      <4>4. SumOver(effects', OwnActions(u)) =
              SumOver(effects, OwnActions(u)) + (effects'[a] - effects[a])
        BY <4>1, <4>3, SpentNat, SumChangesAt
      <4>5. effects[a] \in Nat
        BY DEF TypeOK
      <4> QED
        BY <1>1, <4>1, <4>2, <4>4, <4>5 DEF Spent
    <3> QED
      BY <1>1, <2>1, <3>2, <3>3 DEF Covered
  <2>5. CASE owner[a] # u
    <3>1. Spendable(u)' \subseteq Spendable(u)
      BY <2>1 DEF Spendable, TypeOK
    <3>2. Spent(u)' = Spent(u)
      <4>1. OwnActions(u)' = OwnActions(u) /\ \A b \in OwnActions(u) : effects'[b] = effects[b]
        BY <2>1, <2>2, <2>5 DEF OwnActions, TypeOK
      <4> QED
        BY <4>1, SpentNat, SumAgrees DEF Spent
    <3>3. Cardinality(Spendable(u)') <= Cardinality(Spendable(u))
          /\ Cardinality(Spendable(u)') \in Nat
      BY <3>1, SpendableNat, FS_Subset, FS_CardinalityType
    <3> QED
      BY <1>1, <2>1, <3>2, <3>3 DEF Covered
  <2> QED
    BY <2>4, <2>5
\* A new row has not been executed.
<1>4. ASSUME NEW v \in Users, NEW a \in Actions, NEW k \in Kinds, Propose(v, a, k)
      PROVE  Covered(u)'
  <2>1. effects[a] = 0
    BY <1>4 DEF Propose, Discipline, OnlyProposed
  <2>2. /\ effects' = effects /\ consents' = consents
        /\ \A b \in Actions \ {a} : owner'[b] = owner[b]
        /\ Spendable(u)' \subseteq Spendable(u)
    BY <1>4 DEF Propose, askVars, ledgerVars, bounds, Spendable, TypeOK
  <2> QED
    BY <1>1, <2>1, <2>2, NothingSpent
\* The others spend nothing.
<1>5. ASSUME NEW q \in Requests,
             \/ \E b \in Actions : Pick(q, b)
             \/ PickNothing(q) \/ LogConfirmed(q) \/ ExecuteRefused(q) \/ Record(q)
             \/ LogExecuted(q) \/ Cancel(q) \/ Die(q)
      PROVE  Covered(u)'
  <2>1. /\ effects' = effects /\ consents' = consents /\ owner' = owner
        /\ \A p \in Requests \ {q} : pc'[p] = pc[p] /\ user'[p] = user[p] /\ word'[p] = word[p]
    BY <1>5 DEF Pick, Take, PickNothing, LogConfirmed, ExecuteRefused, Record, LogExecuted,
                Cancel, Die, Leave, rowVars, ledgerVars, bounds, TypeOK
  <2>2. \/ pc'[q] \notin {"read", "log", "execute"}
        \/ pc[q] \in {"read", "log"} /\ user' = user /\ word' = word
    BY <1>5 DEF Pick, Take, PickNothing, LogConfirmed, ExecuteRefused, Record, LogExecuted,
                Cancel, Die, Leave, TypeOK
  <2>3. Spendable(u)' \subseteq Spendable(u)
    BY <2>1, <2>2 DEF Spendable, TypeOK
  <2> QED
    BY <1>1, <2>1, <2>3, NothingSpent
<1>6. ASSUME \/ UNCHANGED vars \/ Cleanup \/ CleanupDies \/ \E b \in Actions : Lapse(b)
      PROVE  Covered(u)'
  <2>1. UNCHANGED <<effects, consents, owner, pc, user, word>>
    BY <1>6 DEF vars, Cleanup, ExpireScan, ExpireOne, CleanupDies, Lapse, askVars, rowVars,
                ledgerVars, bounds
  <2>2. Spendable(u)' \subseteq Spendable(u)
    BY <2>1 DEF Spendable
  <2> QED
    BY <1>1, <2>1, <2>2, NothingSpent
<1> QED
  BY <1>2, <1>3, <1>4, <1>5, <1>6 DEF Next, RequestStep

\* Whatever users say at the same time, and whatever dies: nobody's action is executed
\* on another's word, and no word is good for two executions.
THEOREM ConsentIsSpentOnce == Spec => []NoExecutionWithoutConsent
<1>1. Init => Discipline /\ ConsentInv
  BY DisciplineInit, ConsentInit
<1>2. TypeOK /\ Discipline /\ ConsentInv /\ [Next]_vars => Discipline' /\ ConsentInv'
  BY DisciplineNext, ConsentNext
<1>3. TypeOK /\ ConsentInv => NoExecutionWithoutConsent
  <2> SUFFICES ASSUME TypeOK, ConsentInv, NEW u \in Users
               PROVE  MapThenSumSet(LAMBDA a : effects[a], {a \in Actions : owner[a] = u})
                        <= consents[u]
    BY DEF NoExecutionWithoutConsent
  <2>1. Spent(u) <= consents[u]
    BY SpentNat, SpendableNat DEF ConsentInv, Covered, TypeOK
  <2> QED
    BY <2>1 DEF Spent, SumOver, OwnActions
<1> QED
  BY <1>1, <1>2, <1>3, TypeCorrect, PTL DEF Spec

=============================================================================

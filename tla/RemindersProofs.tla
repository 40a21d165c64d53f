----------------------------- MODULE RemindersProofs -----------------------------
(***************************************************************************)
(* Proofs about Reminders, for any number of contracts, replicas, requests, *)
(* payments and faults.                                                    *)
(*                                                                         *)
(* The argument: a contract two runners never had on their lists together  *)
(* belongs to one runner from the list to the log; that runner found no     *)
(* reminder of today when it made the list, so there is none when it sends. *)
(***************************************************************************)
EXTENDS Reminders, TLAPS

\* One more message, one more row: functions keep their type.
LEMMA OneMoreMessage ==
  ASSUME NEW f \in [Contracts -> Nat], NEW c
  PROVE  [f EXCEPT ![c] = f[c] + 1] \in [Contracts -> Nat]
<1>1. ASSUME NEW b \in Contracts PROVE [f EXCEPT ![c] = f[c] + 1][b] \in Nat
  <2>1. CASE c = b
    BY <2>1
  <2>2. CASE c # b
    BY <2>2
  <2> QED
    BY <2>1, <2>2
<1> QED
  BY <1>1

\* A contract in hand is a contract; nobody who is not at work has one.
InHand ==
  \A r \in Runners :
     /\ cur[r] \in Contracts <=> pc[r] \in {"work", "log", "close", "event", "error"}
     /\ pc[r] \in {"idle", "start", "select", "unlock", "done"} => todo[r] = {}

\* Every variable keeps its type.
THEOREM TypeCorrect == Spec => [](TypeOK /\ InHand)
<1>1. Init => TypeOK /\ InHand
  BY RemindersAssumption DEF Init, TypeOK, InHand, Steps, Runners
<1>2. TypeOK /\ InHand /\ [Next]_vars => TypeOK' /\ InHand'
  <2> SUFFICES ASSUME TypeOK, InHand, [Next]_vars PROVE TypeOK' /\ InHand'
    OBVIOUS
  <2> USE RemindersAssumption DEF TypeOK, InHand, Steps, dayVars, runVars, ghostVars, GoTo
  <2>1. CASE UNCHANGED vars
    BY <2>1 DEF vars
  <2>2. ASSUME NEW r \in Runners,
               Fire(r) \/ Skip(r) \/ StartRun(r) \/ StartFails(r) \/ Ask(r)
        PROVE  TypeOK' /\ InHand'
    BY <2>2 DEF Fire, Skip, StartRun, StartFails, Ask, OneMore
  <2>3. ASSUME NEW r \in Runners, Select(r) PROVE TypeOK' /\ InHand'
    <3>1. PICK mine \in IF r \in Manuals THEN SUBSET Contracts ELSE {Contracts} :
            /\ pc[r] = "select"
            /\ due'  = [due EXCEPT ![r] = {c \in mine : ShouldSend(c)}]
            /\ todo' = [todo EXCEPT ![r] = {c \in mine : ShouldSend(c)}]
            /\ raced' = raced \cup {c \in {d \in mine : ShouldSend(d)} : OnAList(c)}
            /\ pc' = [pc EXCEPT ![r] = "next"]
            /\ UNCHANGED <<dayVars, logged, runVars, open, holder, cur, poisoned,
                           messages, unlogged, late, crashed, dropped, unwritten,
                           faults>>
      BY <2>3 DEF Select
    <3>2. mine \subseteq Contracts
      OBVIOUS
    <3>3. PICK list \in SUBSET Contracts : list = {c \in mine : ShouldSend(c)}
      BY <3>2
    <3>4. raced' \subseteq Contracts
      BY <3>1, <3>2
    <3>5. TypeOK'
      BY <3>1, <3>3, <3>4
    <3>6. InHand'
      BY <3>1, <3>3
    <3> QED
      BY <3>5, <3>6
  <2>4. ASSUME NEW r \in Runners, NEW c \in Contracts, Begin(r, c)
        PROVE  TypeOK' /\ InHand'
    BY <2>4 DEF Begin
  <2>5. ASSUME NEW r \in Runners, Accepted(r) \/ AnswerLost(r) \/ Queued(r)
        PROVE  TypeOK' /\ InHand'
    <3>1. messages' \in [Contracts -> Nat]
      BY <2>5, OneMoreMessage DEF Accepted, AnswerLost, Queued, HandOver
    <3>2. cur[r] \in Contracts
      BY <2>5 DEF Accepted, AnswerLost, Queued, Working
    <3>3. CASE Accepted(r)
      BY <3>3, <3>1 DEF Accepted, Working
    <3>4. CASE AnswerLost(r)
      BY <3>4, <3>1, <3>2 DEF AnswerLost, Working
    <3>5. CASE Queued(r)
      BY <3>5, <3>1 DEF Queued, Working
    <3> QED
      BY <2>5, <3>3, <3>4, <3>5
  <2>6. ASSUME NEW r \in Runners, Refused(r) \/ WriteLog(r) PROVE TypeOK' /\ InHand'
    <3>1. CASE Refused(r)
      <4>1. cur[r] \in Contracts
        BY <3>1 DEF Refused, Working
      <4> QED
        BY <3>1, <4>1 DEF Refused, Working
    <3>2. CASE WriteLog(r)
      BY <3>2 DEF WriteLog
    <3> QED
      BY <2>6, <3>1, <3>2
  <2>7. ASSUME NEW r \in Runners, Close(r) \/ WriteSent(r) \/ WriteFailed(r)
        PROVE  TypeOK' /\ InHand'
    <3>1. CASE Close(r)
      <4>1. TypeOK'
        BY <3>1 DEF Close, Drop
      <4>2. InHand'
        BY <3>1 DEF Close, Drop
      <4> QED
        BY <4>1, <4>2
    <3>2. cur[r] \in Contracts /\ pc[r] \in {"event", "error"} =>
            (sent[r] \cup {cur[r]}) \in SUBSET Contracts /\ (failed[r] \cup {cur[r]}) \in SUBSET Contracts
      OBVIOUS
    <3>3. CASE WriteSent(r)
      <4>1. sent' \in [Runners -> SUBSET Contracts]
        BY <3>2, <3>3 DEF WriteSent
      <4> QED
        BY <3>3, <4>1 DEF WriteSent, Drop
    <3>4. CASE WriteFailed(r)
      <4>1. failed' \in [Runners -> SUBSET Contracts]
        BY <3>2, <3>4 DEF WriteFailed
      <4> QED
        BY <3>4, <4>1 DEF WriteFailed, Drop
    <3> QED
      BY <2>7, <3>1, <3>3, <3>4
  <2>8. ASSUME NEW r \in Runners,
               \/ RunFails(r) \/ Finish(r) \/ StatusLost(r) \/ Release(r)
               \/ RequestFails(r) \/ RequestEnds(r) \/ LockDrops(r) \/ Crash(r)
        PROVE  TypeOK' /\ InHand'
    <3>1. CASE RunFails(r)
      BY <3>1 DEF RunFails, Leave, Drop, Runners
    <3>6. CASE Finish(r) \/ RequestEnds(r)
      BY <3>6 DEF Finish, RequestEnds, Finishing
    <3>7. CASE RequestFails(r)
      BY <3>7 DEF RequestFails, Leave, Drop
    <3>2. CASE StatusLost(r)
      BY <3>2 DEF StatusLost, Finishing, Leave, Drop
    <3>3. CASE Release(r)
      BY <3>3 DEF Release, Free
    <3>4. CASE LockDrops(r)
      <4>1. r \in Schedulers
        BY <3>4 DEF LockDrops, Runners
      <4> QED
        BY <3>4, <4>1 DEF LockDrops
    <3>5. CASE Crash(r)
      BY <3>5 DEF Crash, Leave, Drop, Free
    <3> QED
      BY <2>8, <3>1, <3>2, <3>3, <3>4, <3>5, <3>6, <3>7
  <2>9. ASSUME NEW r \in Runners, NEW b \in BOOLEAN, Raise(r, b) PROVE TypeOK' /\ InHand'
    BY <2>9 DEF Raise
  <2>10. ASSUME NEW c \in Contracts, Pay(c) \/ Reject(c) PROVE TypeOK' /\ InHand'
    <3>1. CASE Pay(c)
      <4>1. PICK b \in BOOLEAN : owes' = [owes EXCEPT ![c] = owes[c] /\ b]
        BY <3>1 DEF Pay
      <4>2. (owes[c] /\ b) \in BOOLEAN
        BY Zenon
      <4>3. owes' \in [Contracts -> BOOLEAN]
        BY <4>1, <4>2
      <4> QED
        BY <3>1, <4>3 DEF Pay
    <3>2. CASE Reject(c)
      BY <3>2 DEF Reject
    <3> QED
      BY <2>10, <3>1, <3>2
  <2> HIDE DEF TypeOK, InHand
  <2> QED
    BY <2>1, <2>2, <2>3, <2>4, <2>5, <2>6, <2>7, <2>8, <2>9, <2>10 DEF Next, RunnerStep, Fault
<1> QED
  BY <1>1, <1>2, PTL DEF Spec

-----------------------------------------------------------------------------

Has(r, c) == c \in todo[r] \/ cur[r] = c

\* Without a race a contract is one runner's.
Alone ==
  \A c \in Contracts \ raced : \A r, s \in Runners : Has(r, c) /\ Has(s, c) => r = s

\* The contract in hand has left the list.
TakenOff == \A r \in Runners : cur[r] \notin todo[r]

\* Until the message is out, what the list was made from still holds.
FoundUnlogged ==
  \A c \in Contracts \ raced : \A r \in Runners :
     c \in todo[r] \/ (cur[r] = c /\ pc[r] = "work") => ~logged[c]

Discipline == Alone /\ TakenOff /\ FoundUnlogged /\ LogTellsTheTruth

\* At first no contract is on a list.
LEMMA DisciplineInit == Init => Discipline
  BY RemindersAssumption
  DEF Init, Discipline, Alone, TakenOff, FoundUnlogged, LogTellsTheTruth, Has

\* A runner that goes on or ends without a message, a log or a new list.
LEMMA WalkKeeps ==
  ASSUME TypeOK, InHand, Discipline, NEW r \in Runners,
         \/ Fire(r) \/ Skip(r) \/ StartRun(r) \/ StartFails(r) \/ Ask(r) \/ Refused(r)
         \/ Close(r) \/ WriteSent(r) \/ WriteFailed(r) \/ RunFails(r) \/ Finish(r)
         \/ StatusLost(r) \/ Release(r) \/ RequestFails(r) \/ RequestEnds(r) \/ Crash(r)
         \/ \E b \in BOOLEAN : Raise(r, b)
  PROVE  Discipline'
<1>1. /\ \A s \in Runners \ {r} : pc'[s] = pc[s] /\ cur'[s] = cur[s] /\ todo'[s] = todo[s]
      /\ todo'[r] = todo[r] \/ todo'[r] = {}
      /\ cur'[r] = cur[r] \/ cur'[r] = NoContract
      /\ pc'[r] \notin {"work", "log"}
  BY DEF TypeOK, Fire, Skip, StartRun, StartFails, Ask, Refused, Close, WriteSent, WriteFailed,
         RunFails, Finish, StatusLost, Release, RequestFails, RequestEnds, Crash, Raise, GoTo,
         Drop, Leave
<1>2. /\ logged' = logged /\ messages' = messages /\ raced' = raced
      /\ outboxMode' = outboxMode
  BY DEF Fire, Skip, StartRun, StartFails, Ask, Refused, Close, WriteSent, WriteFailed,
         RunFails, Finish,
         StatusLost, Release, RequestFails, RequestEnds, Crash, Raise, dayVars, ghostVars
<1>3. unlogged \subseteq unlogged' /\ (pc[r] = "log" => cur[r] \in unlogged')
  <2>1. CASE Crash(r) \/ \E b \in BOOLEAN : Raise(r, b)
    BY <2>1 DEF Crash, Raise, InHand
  <2>2. CASE ~(Crash(r) \/ \E b \in BOOLEAN : Raise(r, b))
    BY <2>2 DEF Fire, Skip, StartRun, StartFails, Ask, OneMore, Refused, Working, Close,
                WriteSent, WriteFailed, RunFails, Finish, Finishing, StatusLost, Release,
                RequestFails, RequestEnds, ghostVars
  <2> QED
    BY <2>1, <2>2
<1>4. NoContract \notin Contracts /\ \A s \in Runners : todo[s] \subseteq Contracts
  BY RemindersAssumption DEF TypeOK
<1> USE <1>1, <1>2, <1>4 DEF Discipline
<1>5. Alone'
  BY DEF Alone, Has
<1>6. TakenOff'
  BY DEF TakenOff
<1>7. FoundUnlogged'
  BY DEF FoundUnlogged
<1>8. LogTellsTheTruth'
  BY <1>3 DEF LogTellsTheTruth
<1> QED
  BY <1>5, <1>6, <1>7, <1>8

\* A new list: what is on another list is raced, the rest has no log of today.
LEMMA SelectKeeps ==
  ASSUME TypeOK, InHand, Discipline, NEW r \in Runners, Select(r)
  PROVE  Discipline'
<1>1. PICK mine \in IF r \in Manuals THEN SUBSET Contracts ELSE {Contracts} :
        /\ pc[r] = "select"
        /\ todo' = [todo EXCEPT ![r] = {c \in mine : ShouldSend(c)}]
        /\ raced' = raced \cup {c \in {d \in mine : ShouldSend(d)} : OnAList(c)}
        /\ pc' = [pc EXCEPT ![r] = "next"]
        /\ UNCHANGED <<dayVars, logged, cur, messages, unlogged>>
  BY DEF Select, GoTo
<1>2. PICK list \in SUBSET Contracts : list = {c \in mine : ShouldSend(c)}
  OBVIOUS
<1>3. /\ \A s \in Runners \ {r} : pc'[s] = pc[s] /\ todo'[s] = todo[s]
      /\ todo'[r] = list /\ pc[r] = "select" /\ pc'[r] = "next"
      /\ cur' = cur /\ cur[r] \notin Contracts
      /\ logged' = logged /\ messages' = messages /\ unlogged' = unlogged
      /\ outboxMode' = outboxMode
  BY <1>1, <1>2 DEF TypeOK, InHand, dayVars
<1>4. /\ raced \subseteq raced'
      /\ \A c \in list : (\E s \in Runners : Has(s, c)) => c \in raced'
  BY <1>1, <1>2 DEF OnAList, Has
<1>5. \A c \in list : ~logged[c]
  BY <1>2 DEF ShouldSend
<1> USE <1>3, <1>4 DEF Discipline
<1>6. Alone'
  BY DEF Alone, Has
<1>7. TakenOff'
  BY DEF TakenOff
<1>8. FoundUnlogged'
  BY <1>5 DEF FoundUnlogged
<1>9. LogTellsTheTruth'
  BY DEF LogTellsTheTruth
<1> QED
  BY <1>6, <1>7, <1>8, <1>9

\* From the list into the hand.
LEMMA BeginKeeps ==
  ASSUME TypeOK, InHand, Discipline, NEW r \in Runners, NEW c \in Contracts, Begin(r, c)
  PROVE  Discipline'
<1>1. /\ \A s \in Runners \ {r} : pc'[s] = pc[s] /\ cur'[s] = cur[s] /\ todo'[s] = todo[s]
      /\ c \in todo[r] /\ todo'[r] = todo[r] \ {c} /\ cur'[r] = c
      /\ pc[r] = "next" /\ pc'[r] \in {"work", "error"}
  BY DEF Begin, TypeOK, GoTo
<1>2. /\ logged' = logged /\ messages' = messages /\ raced' = raced
      /\ unlogged' = unlogged /\ outboxMode' = outboxMode
  BY DEF Begin, dayVars, ghostVars
<1> USE <1>1, <1>2 DEF Discipline
<1>3. Alone'
  BY DEF Alone, Has
<1>4. TakenOff'
  BY DEF TakenOff
<1>5. FoundUnlogged'
  BY DEF FoundUnlogged
<1>6. LogTellsTheTruth'
  BY DEF LogTellsTheTruth
<1> QED
  BY <1>3, <1>4, <1>5, <1>6

\* The message: no other runner can have sent one for an unraced contract.
LEMMA SendKeeps ==
  ASSUME TypeOK, InHand, Discipline, NEW r \in Runners,
         Accepted(r) \/ AnswerLost(r) \/ Queued(r)
  PROVE  Discipline'
<1>1. pc[r] = "work" /\ cur[r] \in Contracts
  BY DEF Accepted, AnswerLost, Queued, Working, InHand
<1>2. PICK c \in Contracts : c = cur[r]
  BY <1>1
<1>3. /\ \A s \in Runners \ {r} : pc'[s] = pc[s]
      /\ cur' = cur /\ todo' = todo
      /\ logged' = logged /\ raced' = raced /\ outboxMode' = outboxMode
      /\ unlogged \subseteq unlogged'
  BY DEF Accepted, AnswerLost, Queued, GoTo, TypeOK, dayVars
<1>4. \/ pc'[r] = "log" /\ unlogged' = unlogged
      \/ pc'[r] \in {"work", "close"} /\ c \in unlogged'
      \/ pc'[r] = "close" /\ outboxMode
  BY <1>2 DEF Accepted, AnswerLost, Queued, GoTo, TypeOK
<1>5. /\ messages'[c] = messages[c] + 1
      /\ \A d \in Contracts \ {c} : messages'[d] = messages[d]
  BY <1>2 DEF Accepted, AnswerLost, Queued, HandOver, TypeOK
<1> USE DEF Discipline
<1>6. Alone'
  BY <1>3 DEF Alone, Has
<1>7. TakenOff'
  BY <1>3 DEF TakenOff
<1>8. FoundUnlogged'
  BY <1>1, <1>3, <1>4 DEF FoundUnlogged
<1>9. LogTellsTheTruth'
  <2>1. ASSUME ~outboxMode, NEW d \in Contracts \ (raced' \cup unlogged'), d # c
        PROVE  messages'[d] = IF logged'[d] \/ (\E s \in Runners : cur'[s] = d /\ pc'[s] = "log")
                              THEN 1 ELSE 0
    BY <2>1, <1>1, <1>2, <1>3, <1>5 DEF LogTellsTheTruth
  <2>2. ASSUME ~outboxMode, c \notin raced' \cup unlogged'
        PROVE  messages'[c] = 1 /\ pc'[r] = "log"
    <3>1. ~logged[c]
      BY <2>2, <1>1, <1>2, <1>3 DEF FoundUnlogged
    <3>2. ~ \E s \in Runners : cur[s] = c /\ pc[s] = "log"
      BY <2>2, <1>1, <1>2, <1>3 DEF Alone, Has
    <3>3. messages[c] = 0
      BY <2>2, <1>3, <3>1, <3>2 DEF LogTellsTheTruth
    <3> QED
      BY <2>2, <3>3, <1>4, <1>5
  <2> QED
    BY <2>1, <2>2, <1>2, <1>3 DEF LogTellsTheTruth
<1> QED
  BY <1>6, <1>7, <1>8, <1>9

\* The log: nobody else is about to rely on its absence.
LEMMA LogKeeps ==
  ASSUME TypeOK, InHand, Discipline, NEW r \in Runners, WriteLog(r)
  PROVE  Discipline'
<1>1. pc[r] = "log" /\ cur[r] \in Contracts
  BY DEF WriteLog, InHand
<1>2. PICK c \in Contracts : c = cur[r]
  BY <1>1
<1>3. /\ \A s \in Runners \ {r} : pc'[s] = pc[s]
      /\ pc'[r] = "close" /\ cur' = cur /\ todo' = todo
      /\ messages' = messages /\ raced' = raced /\ outboxMode' = outboxMode
      /\ unlogged' = unlogged
  BY DEF WriteLog, GoTo, TypeOK, dayVars, ghostVars
<1>4. logged'[c] /\ \A d \in Contracts \ {c} : logged'[d] = logged[d]
  BY <1>2 DEF WriteLog, TypeOK
<1> USE DEF Discipline
<1>5. Alone'
  BY <1>3 DEF Alone, Has
<1>6. TakenOff'
  BY <1>3 DEF TakenOff
<1>7. FoundUnlogged'
  <2>1. \A s \in Runners : c \notin raced /\ Has(s, c) => s = r /\ c \notin todo[s]
    BY <1>2 DEF Alone, TakenOff, Has
  <2> QED
    BY <2>1, <1>3, <1>4 DEF FoundUnlogged, Has
<1>8. LogTellsTheTruth'
  BY <1>1, <1>2, <1>3, <1>4 DEF LogTellsTheTruth
<1> QED
  BY <1>5, <1>6, <1>7, <1>8

\* Every step keeps an unraced contract on one list at most.
LEMMA DisciplineStep ==
  ASSUME TypeOK, InHand, Discipline, [Next]_vars
  PROVE  Discipline'
<1>1. ASSUME NEW r \in Runners,
             \/ Fire(r) \/ Skip(r) \/ StartRun(r) \/ Ask(r) \/ RunnerStep(r)
             \/ AnswerLost(r) \/ (\E b \in BOOLEAN : Raise(r, b))
             \/ StartFails(r) \/ StatusLost(r) \/ Crash(r)
      PROVE  Discipline'
  BY <1>1, WalkKeeps, SelectKeeps, BeginKeeps, SendKeeps, LogKeeps DEF RunnerStep
<1>2. ASSUME (\E c \in Contracts : Pay(c) \/ Reject(c)) \/ (\E r \in Runners : LockDrops(r))
      PROVE  Discipline'
  BY <1>2 DEF Pay, Reject, LockDrops, dayVars, ghostVars, Discipline, Alone, TakenOff, FoundUnlogged,
              LogTellsTheTruth, Has
<1>3. CASE UNCHANGED vars
  BY <1>3 DEF vars, dayVars, ghostVars, Discipline, Alone, TakenOff, FoundUnlogged,
              LogTellsTheTruth, Has
<1> QED
  BY <1>1, <1>2, <1>3 DEF Next, Fault

\* In direct mode the log of a contract says exactly whether it was reminded
\* today, for any number of runs, wherever no two runners had it on their lists
\* together and no outcome was lost.
THEOREM TruthfulLog == Spec => []LogTellsTheTruth
<1>1. Init => Discipline
  BY DisciplineInit
<1>2. TypeOK /\ InHand /\ Discipline /\ [Next]_vars => Discipline'
  BY DisciplineStep
<1>3. Discipline => LogTellsTheTruth
  BY DEF Discipline
<1> QED
  BY <1>1, <1>2, <1>3, TypeCorrect, PTL DEF Spec

-----------------------------------------------------------------------------

\* A runner may still remind c.
MayRemind(r, c) == c \in todo[r] \/ (cur[r] = c /\ pc[r] = "work")

\* What was paid, or owes nothing, is on a list only if it was paid there.
PaidOnTheList ==
  \A r \in Runners, c \in Contracts :
     MayRemind(r, c) /\ (paidToday[c] \/ ~owes[c]) => c \in late

\* Every step counts who is paid while on a list.
LEMMA PaidOnTheListNext ==
  ASSUME TypeOK, InHand, PaidOnTheList, [Next]_vars
  PROVE  PaidOnTheList'
<1>1. ASSUME NEW r \in Runners, Select(r) PROVE PaidOnTheList'
  <2>1. PICK mine \in IF r \in Manuals THEN SUBSET Contracts ELSE {Contracts} :
          /\ pc[r] = "select"
          /\ todo' = [todo EXCEPT ![r] = {c \in mine : ShouldSend(c)}]
          /\ pc' = [pc EXCEPT ![r] = "next"]
          /\ UNCHANGED <<dayVars, cur, late>>
    BY <1>1 DEF Select, GoTo
  <2>2. /\ \A s \in Runners \ {r} : pc'[s] = pc[s] /\ todo'[s] = todo[s]
        /\ \A c \in todo'[r] : owes[c] /\ ~paidToday[c]
        /\ pc'[r] = "next" /\ cur' = cur /\ late' = late
        /\ owes' = owes /\ paidToday' = paidToday
    BY <2>1 DEF TypeOK, dayVars, ShouldSend
  <2> QED
    BY <2>2 DEF PaidOnTheList, MayRemind
<1>2. ASSUME NEW r \in Runners, NEW c \in Contracts, Begin(r, c) PROVE PaidOnTheList'
  <2>1. /\ \A s \in Runners \ {r} : pc'[s] = pc[s] /\ cur'[s] = cur[s] /\ todo'[s] = todo[s]
        /\ c \in todo[r] /\ todo'[r] \subseteq todo[r] /\ cur'[r] = c
        /\ owes' = owes /\ paidToday' = paidToday /\ late' = late
    BY <1>2 DEF Begin, TypeOK, GoTo, dayVars, ghostVars
  <2> QED
    BY <2>1 DEF PaidOnTheList, MayRemind
<1>3. ASSUME NEW r \in Runners,
             \/ Fire(r) \/ Skip(r) \/ StartRun(r) \/ Ask(r) \/ Accepted(r) \/ Refused(r)
             \/ Queued(r) \/ WriteLog(r) \/ Close(r) \/ WriteSent(r) \/ WriteFailed(r)
             \/ RunFails(r) \/ Finish(r) \/ Release(r) \/ RequestFails(r) \/ RequestEnds(r)
             \/ Fault(r)
      PROVE  PaidOnTheList'
  <2>1. /\ \A s \in Runners \ {r} : pc'[s] = pc[s] /\ cur'[s] = cur[s] /\ todo'[s] = todo[s]
        /\ todo'[r] \subseteq todo[r]
        /\ pc'[r] = "work" => pc[r] = "work" /\ cur'[r] = cur[r]
    BY <1>3 DEF TypeOK, Fire, Skip, StartRun, StartFails, Ask, Accepted, Refused, AnswerLost,
                Queued, WriteLog, Close, WriteSent, WriteFailed, RunFails, Finish, StatusLost,
                Release, RequestFails, RequestEnds, LockDrops, Crash, Raise, Fault, Working,
                GoTo, Drop, Leave
  <2>2. owes' = owes /\ paidToday' = paidToday /\ late' = late
    BY <1>3 DEF Fire, Skip, StartRun, StartFails, Ask, Accepted, Refused, AnswerLost, Queued,
                WriteLog, Close, WriteSent, WriteFailed, RunFails, Finish, StatusLost, Release,
                RequestFails, RequestEnds, LockDrops, Crash, Raise, Fault, dayVars, ghostVars
  <2> QED
    BY <2>1, <2>2 DEF PaidOnTheList, MayRemind
<1>4. ASSUME NEW c \in Contracts, Pay(c) PROVE PaidOnTheList'
  <2>1. /\ \A d \in Contracts \ {c} : owes'[d] = owes[d] /\ paidToday'[d] = paidToday[d]
        /\ pc' = pc /\ todo' = todo /\ cur' = cur /\ late \subseteq late'
    BY <1>4 DEF Pay, TypeOK
  <2>2. OnAList(c) => c \in late'
    BY <1>4 DEF Pay
  <2> QED
    BY <2>1, <2>2 DEF PaidOnTheList, MayRemind, OnAList
<1>5. ASSUME NEW c \in Contracts, Reject(c) PROVE PaidOnTheList'
  <2>1. /\ \A d \in Contracts : owes[d] => owes'[d]
        /\ paidToday' = paidToday
        /\ pc' = pc /\ todo' = todo /\ cur' = cur /\ late' = late
    BY <1>5 DEF Reject, TypeOK, ghostVars
  <2> QED
    BY <2>1 DEF PaidOnTheList, MayRemind
<1>6. CASE UNCHANGED vars
  BY <1>6 DEF vars, dayVars, ghostVars, PaidOnTheList, MayRemind
<1> QED
  BY <1>1, <1>2, <1>3, <1>4, <1>5, <1>6 DEF Next, RunnerStep

\* However many runs, requests, payments and faults a day has: who has paid is
\* reminded only by a run whose list was read before.
THEOREM PaidLeftAlone == Spec => PaidIsLeftAlone
<1>1. Init => PaidOnTheList
  BY RemindersAssumption DEF Init, PaidOnTheList, MayRemind
<1>2. TypeOK /\ InHand /\ PaidOnTheList /\ [Next]_vars => PaidOnTheList'
  BY PaidOnTheListNext
<1>3. TypeOK /\ InHand /\ PaidOnTheList /\ [Next]_vars =>
        [\A c \in Contracts :
           messages'[c] > messages[c] /\ (paidToday[c] \/ ~owes[c]) => c \in late]_vars
  <2> SUFFICES ASSUME TypeOK, InHand, PaidOnTheList, Next, NEW c \in Contracts,
                      messages'[c] > messages[c], paidToday[c] \/ ~owes[c]
               PROVE  c \in late
    OBVIOUS
  <2>1. messages' # messages
    BY DEF TypeOK
  <2>2. PICK r \in Runners : Accepted(r) \/ AnswerLost(r) \/ Queued(r)
    BY <2>1 DEF Next, RunnerStep, Fault, Fire, Skip, StartRun, StartFails, Ask, Select, Begin,
                Refused, WriteLog, Close, WriteSent, WriteFailed, RunFails, Finish, StatusLost,
                Release, RequestFails, RequestEnds, LockDrops, Crash, Raise, Pay, Reject,
                ghostVars
  <2>3. pc[r] = "work" /\ messages' = [messages EXCEPT ![cur[r]] = messages[cur[r]] + 1]
    BY <2>2 DEF Accepted, AnswerLost, Queued, Working, HandOver
  <2>4. cur[r] = c
    BY <2>3 DEF TypeOK
  <2> QED
    BY <2>3, <2>4 DEF PaidOnTheList, MayRemind
<1> QED
  BY <1>1, <1>2, <1>3, TypeCorrect, PTL DEF Spec, PaidIsLeftAlone

-----------------------------------------------------------------------------

\* Only a session that still works begins an agent run.
Usable == \A r \in Runners : pc[r] \in {"work", "log", "close"} => ~poisoned[r]

\* An agent run is left RUNNING only by a runner that is at it, has died, or whose
\* session refuses what would close it.
THEOREM OpenRuns == Spec => []OpenRunsAccounted
<1>1. Init => OpenRunsAccounted /\ Usable
  BY DEF Init, OpenRunsAccounted, Usable
<1>2. TypeOK /\ InHand /\ OpenRunsAccounted /\ Usable /\ [Next]_vars
        => OpenRunsAccounted' /\ Usable'
  <2> SUFFICES ASSUME TypeOK, InHand, OpenRunsAccounted, Usable, [Next]_vars
               PROVE  OpenRunsAccounted' /\ Usable'
    OBVIOUS
  <2>1. ASSUME NEW r \in Runners,
               \/ Fire(r) \/ Skip(r) \/ StartRun(r) \/ StartFails(r) \/ Ask(r) \/ Select(r)
               \/ WriteSent(r) \/ WriteFailed(r) \/ RunFails(r) \/ Finish(r) \/ StatusLost(r)
               \/ Release(r) \/ RequestFails(r) \/ RequestEnds(r) \/ Crash(r)
        PROVE  OpenRunsAccounted' /\ Usable'
    <3>1. /\ \A s \in Runners \ {r} : pc'[s] = pc[s] /\ cur'[s] = cur[s]
          /\ pc[r] \in {"work", "log", "close"} => r \in crashed'
          /\ pc'[r] \notin {"work", "log", "close"}
          /\ crashed \subseteq crashed' /\ poisoned' = poisoned /\ open' = open
      BY <2>1 DEF TypeOK, Fire, Skip, StartRun, StartFails, Ask, OneMore, Select, WriteSent,
                  WriteFailed, RunFails, Finish, Finishing, StatusLost, Release, RequestFails,
                  RequestEnds, Crash, GoTo, Drop, Leave, ghostVars
    <3> QED
      BY <3>1 DEF OpenRunsAccounted, Usable
  <2>2. ASSUME NEW r \in Runners,
               \/ Accepted(r) \/ Refused(r) \/ AnswerLost(r) \/ Queued(r) \/ WriteLog(r)
        PROVE  OpenRunsAccounted' /\ Usable'
    <3>1. /\ \A s \in Runners \ {r} : pc'[s] = pc[s]
          /\ pc[r] = "work" \/ pc[r] = "log"
          /\ pc'[r] \in {"work", "log", "close"} /\ cur' = cur
          /\ crashed' = crashed /\ poisoned' = poisoned /\ open' = open
      BY <2>2 DEF TypeOK, Accepted, Refused, AnswerLost, Queued, WriteLog, Working, GoTo,
                  ghostVars
    <3> QED
      BY <3>1 DEF OpenRunsAccounted, Usable
  <2>3. ASSUME NEW r \in Runners, NEW c \in Contracts, Begin(r, c) PROVE OpenRunsAccounted' /\ Usable'
    <3>1. /\ \A s \in Runners \ {r} : pc'[s] = pc[s] /\ cur'[s] = cur[s]
          /\ pc[r] = "next" /\ crashed' = crashed /\ poisoned' = poisoned
          /\ \/ poisoned[r] /\ open' = open /\ pc'[r] = "error"
             \/ ~poisoned[r] /\ open' = open \cup {<<r, c>>} /\ pc'[r] = "work" /\ cur'[r] = c
      BY <2>3 DEF Begin, TypeOK, GoTo, ghostVars
    <3> QED
      BY <3>1 DEF OpenRunsAccounted, Usable
  <2>4. ASSUME NEW r \in Runners, Close(r) PROVE OpenRunsAccounted' /\ Usable'
    <3>1. /\ \A s \in Runners \ {r} : pc'[s] = pc[s] /\ cur'[s] = cur[s]
          /\ open' = open \ {<<r, cur[r]>>} /\ crashed' = crashed /\ poisoned' = poisoned
          /\ pc'[r] \in {"event", "next"}
      BY <2>4 DEF Close, TypeOK, GoTo, Drop, ghostVars
    <3> QED
      BY <3>1 DEF OpenRunsAccounted, Usable
  <2>5. ASSUME NEW r \in Runners, NEW b \in BOOLEAN, Raise(r, b) PROVE OpenRunsAccounted' /\ Usable'
    <3>1. /\ \A s \in Runners \ {r} : pc'[s] = pc[s] /\ poisoned'[s] = poisoned[s]
          /\ cur' = cur /\ crashed' = crashed /\ pc'[r] = "error"
          /\ poisoned'[r] = b
          /\ b => open' = open
          /\ ~b => open' = open \ {<<r, cur[r]>>}
      BY <2>5 DEF Raise, TypeOK, GoTo
    <3>2. ~poisoned[r]
      BY <2>5 DEF Raise, Usable
    <3> QED
      BY <3>1, <3>2 DEF OpenRunsAccounted, Usable
  <2>6. CASE \/ (\E c \in Contracts : Pay(c) \/ Reject(c)) \/ UNCHANGED vars
             \/ (\E r \in Runners : LockDrops(r))
    BY <2>6 DEF Pay, Reject, LockDrops, vars, ghostVars, OpenRunsAccounted, Usable
  <2> QED
    BY <2>1, <2>2, <2>3, <2>4, <2>5, <2>6 DEF Next, RunnerStep, Fault
<1> QED
  BY <1>1, <1>2, TypeCorrect, PTL DEF Spec

-----------------------------------------------------------------------------

\* What a scheduled run has on its list is in one place: still to do, in hand, or in one of
\* the two kinds of event.
OnePlace(r) ==
  /\ sent[r] \cap failed[r] = {}
  /\ todo[r] \cap (sent[r] \cup failed[r]) = {}
  /\ cur[r] \notin todo[r] \cup sent[r] \cup failed[r]

Listed(r) == due[r] = todo[r] \cup sent[r] \cup failed[r] \cup ({cur[r]} \ {NoContract})

Bookkept ==
  \A r \in Schedulers :
     /\ OnePlace(r)
     /\ pc[r] \in {"idle", "start", "select"} => due[r] = {} /\ sent[r] = {} /\ failed[r] = {}
     /\ pc[r] \in {"idle", "start"} => run[r] = "none"
     /\ AtWork(r) => run[r] = "RUNNING" /\ Listed(r)
     /\ run[r] = "RUNNING" => AtWork(r) \/ r \in crashed \cup unwritten
     /\ run[r] = "COMPLETED" =>
          pc[r] \in {"unlock", "done"} /\ due[r] = sent[r] \cup failed[r]

\* Every step keeps a contract of a run in one place.
LEMMA BookkeptNext ==
  ASSUME TypeOK, InHand, Bookkept, [Next]_vars
  PROVE  Bookkept'
<1> USE RemindersAssumption DEF Bookkept, OnePlace, Listed, AtWork
<1>1. ASSUME NEW r \in Runners,
             Fire(r) \/ Skip(r) \/ StartRun(r) \/ StartFails(r) \/ Ask(r)
      PROVE  Bookkept'
  BY <1>1 DEF TypeOK, InHand, Fire, Skip, StartRun, StartFails, Ask, OneMore, GoTo, runVars,
              ghostVars, Runners
<1>2. ASSUME NEW r \in Runners, Select(r) PROVE Bookkept'
  <2>1. PICK list \in SUBSET Contracts :
          /\ pc[r] = "select" /\ pc' = [pc EXCEPT ![r] = "next"]
          /\ due' = [due EXCEPT ![r] = list] /\ todo' = [todo EXCEPT ![r] = list]
    <3>1. PICK mine \in SUBSET Contracts :
            /\ pc[r] = "select" /\ pc' = [pc EXCEPT ![r] = "next"]
            /\ due' = [due EXCEPT ![r] = {c \in mine : ShouldSend(c)}]
            /\ todo' = [todo EXCEPT ![r] = {c \in mine : ShouldSend(c)}]
      BY ONLY <1>2 DEF Select, GoTo
    <3> QED
      BY ONLY <3>1
  <2>2. UNCHANGED <<runVars, cur, crashed, unwritten>> /\ cur[r] = NoContract
    BY <1>2, <2>1 DEF Select, TypeOK, InHand
  <2> QED
    BY <2>1, <2>2 DEF TypeOK, runVars, Runners
<1>3. ASSUME NEW r \in Runners, NEW c \in Contracts, Begin(r, c) PROVE Bookkept'
  <2>1. cur[r] = NoContract
    BY <1>3 DEF Begin, TypeOK, InHand
  <2> QED
    BY <1>3, <2>1 DEF Begin, TypeOK, GoTo, runVars, ghostVars, Runners
<1>4. ASSUME NEW r \in Runners,
             \/ Accepted(r) \/ Refused(r) \/ AnswerLost(r) \/ Queued(r) \/ WriteLog(r)
             \/ \E b \in BOOLEAN : Raise(r, b)
      PROVE  Bookkept'
  <2>1. /\ \A s \in Runners \ {r} : pc'[s] = pc[s]
        /\ {pc[r], pc'[r]} \cap {"idle", "start", "select", "unlock", "done"} = {}
        /\ UNCHANGED <<runVars, due, todo, cur, crashed, unwritten>>
    BY <1>4 DEF Accepted, Refused, AnswerLost, Queued, WriteLog, Raise, Working, GoTo, TypeOK,
                ghostVars
  <2> QED
    BY <2>1 DEF runVars, Runners
<1>5. ASSUME NEW r \in Runners, Close(r) PROVE Bookkept'
  BY <1>5 DEF Close, Drop, GoTo, TypeOK, runVars, ghostVars, Runners
<1>6. ASSUME NEW r \in Runners, WriteSent(r) \/ WriteFailed(r) PROVE Bookkept'
  <2>1. cur[r] \in Contracts /\ pc[r] \notin {"idle", "start", "select", "unlock", "done"}
    BY <1>6 DEF WriteSent, WriteFailed, InHand
  <2> QED
    BY <1>6, <2>1 DEF WriteSent, WriteFailed, Drop, GoTo, TypeOK, ghostVars, Runners
<1>7. ASSUME NEW r \in Runners,
             RunFails(r) \/ StatusLost(r) \/ RequestFails(r) \/ Release(r) \/ Crash(r)
      PROVE  Bookkept'
  BY <1>7 DEF RunFails, StatusLost, Finishing, RequestFails, Release, Crash, Leave, Drop, GoTo,
              TypeOK, runVars, ghostVars, Runners
<1>8. ASSUME NEW r \in Runners, Finish(r) \/ RequestEnds(r) PROVE Bookkept'
  <2>1. cur[r] = NoContract
    BY <1>8 DEF Finish, RequestEnds, Finishing, TypeOK, InHand
  <2> QED
    BY <1>8, <2>1 DEF Finish, RequestEnds, Finishing, GoTo, TypeOK, runVars, ghostVars, Runners
<1>9. CASE UNCHANGED <<runVars, pc, due, todo, cur, crashed, unwritten>>
  BY <1>9 DEF runVars
<1>10. (\E c \in Contracts : Pay(c) \/ Reject(c)) \/ (\E r \in Runners : LockDrops(r)) =>
         UNCHANGED <<runVars, pc, due, todo, cur, crashed, unwritten>>
  BY DEF Pay, Reject, LockDrops, ghostVars
<1>11. UNCHANGED vars => UNCHANGED <<runVars, pc, due, todo, cur, crashed, unwritten>>
  BY DEF vars, ghostVars
<1> QED
  BY <1>1, <1>2, <1>3, <1>4, <1>5, <1>6, <1>7, <1>8, <1>9, <1>10, <1>11
     DEF Next, RunnerStep, Fault

\* The events of a run account for every contract of its list, whatever fails or dies on the
\* way: total_contracts is successful_count plus failed_count when it is COMPLETED.
THEOREM EveryoneAccountedFor == Spec => []NobodyForgotten
<1>1. Init => Bookkept
  BY RemindersAssumption DEF Init, Bookkept, OnePlace, Listed, AtWork, Runners
<1>2. TypeOK /\ InHand /\ Bookkept /\ [Next]_vars => Bookkept'
  BY BookkeptNext
<1>3. Bookkept => NobodyForgotten
  <2> SUFFICES ASSUME Bookkept, NEW r \in Schedulers
               PROVE  /\ sent[r] \cap failed[r] = {}
                      /\ run[r] = "RUNNING" /\ r \notin crashed \cup unwritten => Listed(r)
                      /\ run[r] = "COMPLETED" => due[r] = sent[r] \cup failed[r]
    BY DEF NobodyForgotten, Listed
  <2> QED
    BY DEF Bookkept, OnePlace
<1> QED
  BY <1>1, <1>2, <1>3, TypeCorrect, PTL DEF Spec

-----------------------------------------------------------------------------

\* A run between taking the lock and releasing it has the lock, or has lost it; nobody else
\* has it.
Locked ==
  \A r \in Schedulers :
     /\ pc[r] \notin {"idle", "done"} => holder = r \/ r \in dropped
     /\ holder = r => pc[r] \notin {"idle", "done"}
     /\ r \in crashed => pc[r] = "done"

\* Every step leaves the lock with a run that is at it.
LEMMA LockedNext ==
  ASSUME TypeOK, InHand, Locked, [Next]_vars
  PROVE  Locked'
<1> USE RemindersAssumption
<1>1. ASSUME NEW r \in Runners, Fire(r) PROVE Locked'
  <2>1. /\ r \in Schedulers /\ holder = NoRunner /\ holder' = r /\ pc[r] = "idle"
        /\ pc'[r] = "start" /\ \A s \in Runners \ {r} : pc'[s] = pc[s]
        /\ crashed' = crashed /\ dropped' = dropped
    BY <1>1 DEF Fire, OneMore, GoTo, TypeOK, ghostVars
  <2> QED
    BY <2>1 DEF Locked, Runners
<1>2. ASSUME NEW r \in Runners, Skip(r) \/ Ask(r) PROVE Locked'
  <2>1. /\ holder' = holder /\ crashed' = crashed /\ dropped' = dropped /\ pc[r] = "idle"
        /\ \A s \in Runners \ {r} : pc'[s] = pc[s]
        /\ pc'[r] = "done" \/ r \in Manuals
    BY <1>2 DEF Skip, Ask, OneMore, GoTo, TypeOK, ghostVars
  <2> QED
    BY <2>1 DEF Locked, Runners
<1>3. ASSUME NEW r \in Runners,
             \/ StartRun(r) \/ StartFails(r) \/ Select(r) \/ (\E c \in Contracts : Begin(r, c))
             \/ Accepted(r) \/ AnswerLost(r) \/ Queued(r) \/ Refused(r) \/ WriteLog(r)
             \/ Close(r) \/ WriteSent(r) \/ WriteFailed(r) \/ (\E b \in BOOLEAN : Raise(r, b))
             \/ RunFails(r) \/ Finish(r) \/ StatusLost(r)
      PROVE  Locked'
  <2>1. /\ pc[r] \notin {"idle", "done"} /\ pc'[r] \notin {"idle", "done"}
        /\ \A s \in Runners \ {r} : pc'[s] = pc[s]
    BY <1>3 DEF StartRun, StartFails, Select, Begin, Accepted, AnswerLost, Queued, Refused,
                WriteLog, Close, WriteSent, WriteFailed, Raise, RunFails, Finish, StatusLost,
                Finishing, Leave, Working, GoTo, TypeOK
  <2>2. holder' = holder /\ crashed' = crashed /\ dropped' = dropped
    BY <1>3 DEF StartRun, StartFails, Select, Begin, Accepted, AnswerLost, Queued, Refused,
                WriteLog, Close, WriteSent, WriteFailed, Raise, RunFails, Finish, StatusLost,
                ghostVars
  <2> QED
    BY <2>1, <2>2 DEF Locked, Runners
<1>4. ASSUME NEW r \in Runners, RequestFails(r) \/ RequestEnds(r) PROVE Locked'
  <2>1. /\ r \notin Schedulers /\ holder' = holder /\ crashed' = crashed /\ dropped' = dropped
        /\ \A s \in Runners \ {r} : pc'[s] = pc[s]
    BY <1>4 DEF RequestFails, RequestEnds, Leave, GoTo, TypeOK, ghostVars
  <2> QED
    BY <2>1 DEF Locked, Runners
<1>5. ASSUME NEW r \in Runners, Release(r) \/ Crash(r) PROVE Locked'
  <2>1. /\ pc'[r] = "done" /\ \A s \in Runners \ {r} : pc'[s] = pc[s]
        /\ Free(r) /\ crashed' \subseteq crashed \cup {r} /\ dropped' = dropped
    BY <1>5 DEF Release, Crash, Leave, GoTo, TypeOK, ghostVars
  <2> QED
    BY <2>1 DEF Locked, Free, Runners
<1>6. ASSUME NEW r \in Runners, LockDrops(r) PROVE Locked'
  <2>1. /\ holder = r /\ holder' = NoRunner /\ dropped' = dropped \cup {r}
        /\ pc' = pc /\ crashed' = crashed
    BY <1>6 DEF LockDrops
  <2> QED
    BY <2>1 DEF Locked, Runners
<1>7. CASE UNCHANGED <<holder, crashed, dropped, pc>>
  BY <1>7 DEF Locked
<1>8. (\E c \in Contracts : Pay(c) \/ Reject(c)) \/ UNCHANGED vars
        => UNCHANGED <<holder, crashed, dropped, pc>>
  BY DEF Pay, Reject, vars, ghostVars
<1> QED
  BY <1>1, <1>2, <1>3, <1>4, <1>5, <1>6, <1>7, <1>8 DEF Next, RunnerStep, Fault

\* For any number of replicas, requests and faults: a run recorded as RUNNING has the lock, or
\* lost its connection, died or could not record its end; two runs are at work together only
\* after a lost connection; and no run that ended or died keeps the lock.
THEOREM LockFollowsRun == Spec => []LockWhileRunning
<1>1. Init => Locked /\ Bookkept
  BY RemindersAssumption
  DEF Init, Locked, Bookkept, OnePlace, Listed, AtWork, Runners
<1>2. TypeOK /\ InHand /\ Locked /\ Bookkept /\ [Next]_vars => Locked' /\ Bookkept'
  BY LockedNext, BookkeptNext
<1>3. Locked /\ Bookkept => LockWhileRunning
  <2> SUFFICES ASSUME Locked, Bookkept, NEW r \in Schedulers
               PROVE  /\ run[r] = "RUNNING" =>
                           holder = r \/ r \in dropped \cup crashed \cup unwritten
                      /\ \A s \in Schedulers \ {r} :
                           AtWork(r) /\ AtWork(s) => {r, s} \cap dropped # {}
                      /\ holder = r => pc[r] # "done" /\ r \notin crashed
    BY DEF LockWhileRunning
  <2>1. \A s \in Schedulers : AtWork(s) => holder = s \/ s \in dropped
    BY DEF Locked, AtWork
  <2>2. run[r] = "RUNNING" => AtWork(r) \/ r \in crashed \cup unwritten
    BY DEF Bookkept
  <2>3. holder = r => pc[r] # "done" /\ r \notin crashed
    BY DEF Locked
  <2> QED
    BY <2>1, <2>2, <2>3
<1> QED
  BY <1>1, <1>2, <1>3, TypeCorrect, PTL DEF Spec

=============================================================================

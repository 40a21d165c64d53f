----------------------------- MODULE PendingActions -----------------------------
(***************************************************************************)
(* Write actions proposed by the assistant and executed after the user's   *)
(* confirmation (app/ai/actions/): pending_actions rows, the chat requests  *)
(* that propose, confirm and cancel them, the cleanup job that expires      *)
(* them, and crashes.                                                      *)
(*                                                                         *)
(* A request reads the newest confirmable row, and commits its audit rows,  *)
(* the effect and the row's new status one after the other; set_status      *)
(* updates by id, whatever the row holds by then. Requests run in a thread  *)
(* pool, each with its own session.                                        *)
(*                                                                         *)
(* `Execute' stands for one call of a domain service (a contract created, a *)
(* payment approved or rejected, a round of reminders). The cleanup's       *)
(* advisory lock leaves one cleanup at a time; NotificationOutbox models    *)
(* the lock itself.                                                        *)
(***************************************************************************)
EXTENDS Naturals, FiniteSets, FiniteSetsExt

CONSTANTS
  Users,
  Requests,     \* chat requests that can be in flight together
  Nobody,
  MaxActions,   \* bound: proposals
  MaxWords,     \* bound: answers YES or NO
  MaxFaults     \* bound: requests and cleanups that die half-way

ASSUME ActionsAssumption ==
  /\ Nobody \notin Users
  /\ IsFiniteSet(Requests)
  /\ MaxActions \in Nat /\ MaxWords \in Nat /\ MaxFaults \in Nat

\* Ids in the order of created_at.
Actions  == 1..MaxActions
NoAction == 0

VARIABLES
  \* pending_actions
  status,     \* "ABSENT" until proposed
  owner,      \* user_id
  kind,       \* action_type, as far as confirming it depends on it
  late,       \* expires_at <= now
  \* chat requests
  pc, user, word,
  got,        \* the row in hand
  \* the cleanup's snapshot of expired rows still to write
  due,
  \* what happened
  effects,    \* times the action was executed
  confirmed,  \* AI_ACTION_CONFIRMED audit rows
  executed,   \* AI_ACTION_EXECUTED audit rows
  raced,      \* actions two requests, or a request and the cleanup, held at once
  broken,     \* actions whose request died after the effect, before the status
  consents,   \* YESes of each user
  words, faults

rowVars    == <<status, owner, kind, late>>
askVars    == <<pc, user, word, got>>
ledgerVars == <<effects, confirmed, executed, raced, broken>>
bounds     == <<consents, words, faults>>
vars       == <<rowVars, askVars, due, ledgerVars, bounds>>

Statuses == {"ABSENT", "PENDING_CONFIRMATION", "EXECUTED", "CANCELLED", "EXPIRED"}
Steps    == {"idle", "read", "log", "execute", "record", "logdone", "cancel"}

\* CREATE: create a contract, whose reference_code is chosen when proposed and
\* UNIQUE. OTHER: approve or reject a payment, send the due reminders.
Kinds == {"CREATE", "OTHER"}

TypeOK ==
  /\ status \in [Actions -> Statuses]
  /\ owner  \in [Actions -> Users \cup {Nobody}]
  /\ kind   \in [Actions -> Kinds]
  /\ late   \in [Actions -> BOOLEAN]
  /\ pc     \in [Requests -> Steps]
  /\ user   \in [Requests -> Users \cup {Nobody}]
  /\ word   \in [Requests -> {"YES", "NO"}]
  /\ got    \in [Requests -> Actions \cup {NoAction}]
  /\ due    \subseteq Actions
  /\ effects   \in [Actions -> Nat]
  /\ confirmed \in [Actions -> Nat]
  /\ executed  \in [Actions -> Nat]
  /\ raced \subseteq Actions /\ broken \subseteq Actions
  /\ consents \in [Users -> Nat]
  /\ words \in Nat /\ faults \in Nat

Init ==
  /\ status = [a \in Actions |-> "ABSENT"]
  /\ owner  = [a \in Actions |-> Nobody]
  /\ kind   = [a \in Actions |-> "OTHER"]
  /\ late   = [a \in Actions |-> FALSE]
  /\ pc     = [q \in Requests |-> "idle"]
  /\ user   = [q \in Requests |-> Nobody]
  /\ word   = [q \in Requests |-> "YES"]
  /\ got    = [q \in Requests |-> NoAction]
  /\ due    = {}
  /\ effects   = [a \in Actions |-> 0]
  /\ confirmed = [a \in Actions |-> 0]
  /\ executed  = [a \in Actions |-> 0]
  /\ raced = {} /\ broken = {}
  /\ consents = [u \in Users |-> 0]
  /\ words = 0 /\ faults = 0

-----------------------------------------------------------------------------
(* The repository *)

Confirmable(u) ==
  {a \in Actions : owner[a] = u /\ status[a] = "PENDING_CONFIRMATION" /\ ~late[a]}

\* Mutations of IsLatest: no filter on the status, none on the user.
IsLatestOfAll(u, a) ==
  LET all == {b \in Actions : owner[b] = u /\ status[b] # "ABSENT" /\ ~late[b]}
  IN  a \in all /\ \A b \in all : b <= a

IsLatestOfAnybody(u, a) ==
  LET all == UNION {Confirmable(v) : v \in Users}
  IN  a \in all /\ \A b \in all : b <= a

\* ORDER BY created_at DESC, first row.
IsLatest(u, a) == a \in Confirmable(u) /\ \A b \in Confirmable(u) : b <= a

Expired == {a \in Actions : status[a] = "PENDING_CONFIRMATION" /\ late[a]}

SetStatus(a, st) == status' = [status EXCEPT ![a] = st]

-----------------------------------------------------------------------------
(* Proposing *)

\* The row in every detail; what the proposal is checked for is left to the
\* caller. A request of a channel that may not write is denied before this.
Propose(u, a, k) ==
  /\ status[a] = "ABSENT"
  /\ \A b \in Actions : b < a => status[b] # "ABSENT"
  /\ SetStatus(a, "PENDING_CONFIRMATION")
  /\ owner' = [owner EXCEPT ![a] = u]
  /\ kind'  = [kind EXCEPT ![a] = k]
  /\ UNCHANGED <<late, askVars, due, ledgerVars, bounds>>

\* PENDING_ACTION_TIMEOUT_MINUTES pass.
Lapse(a) ==
  /\ status[a] # "ABSENT" /\ ~late[a]
  /\ late' = [late EXCEPT ![a] = TRUE]
  /\ UNCHANGED <<status, owner, kind, askVars, due, ledgerVars, bounds>>

-----------------------------------------------------------------------------
(* A chat request that says YES or NO *)

\* A YES over WhatsApp is denied, a NO is not: both words here are allowed ones.
\* _confirmation_shortcut tests that there is something pending; the answer is
\* read again by Pick, and a bare word, or one the LLM takes for an answer, gets
\* there without the test.
Say(q, u, w) ==
  /\ pc[q] = "idle" /\ words < MaxWords
  /\ words' = words + 1
  /\ consents' = [consents EXCEPT ![u] = @ + IF w = "YES" THEN 1 ELSE 0]
  /\ pc'    = [pc EXCEPT ![q] = "read"]
  /\ user'  = [user EXCEPT ![q] = u]
  /\ word'  = [word EXCEPT ![q] = w]
  /\ UNCHANGED <<rowVars, got, due, ledgerVars, faults>>

Held(a) == a \in due \/ \E q \in Requests : got[q] = a

Take(q, a, step) ==
  /\ got'   = [got EXCEPT ![q] = a]
  /\ pc'    = [pc EXCEPT ![q] = step]
  /\ raced' = raced \cup {b \in {a} : Held(b)}

Leave(q) ==
  /\ pc'  = [pc EXCEPT ![q] = "idle"]
  /\ got' = [got EXCEPT ![q] = NoAction]
  /\ user' = [user EXCEPT ![q] = Nobody]
  /\ word' = [word EXCEPT ![q] = "YES"]

\* The newest confirmable action of the user, which need not be the one the
\* user was asked about.
Pick(q, a) ==
  /\ pc[q] = "read"
  /\ IsLatest(user[q], a)
  /\ Take(q, a, IF word[q] = "YES" THEN "log" ELSE "cancel")
  /\ UNCHANGED <<rowVars, user, word, due, effects, confirmed, executed, broken,
                 bounds>>

\* "There's nothing to confirm."
PickNothing(q) ==
  /\ pc[q] = "read"
  /\ Confirmable(user[q]) = {}
  /\ Leave(q)
  /\ UNCHANGED <<rowVars, due, ledgerVars, bounds>>

\* A mutation of LogConfirmed: the confirmation is not audited.
LogNothing(q) ==
  /\ pc[q] = "log"
  /\ pc' = [pc EXCEPT ![q] = "execute"]
  /\ UNCHANGED <<rowVars, user, word, got, due, ledgerVars, bounds>>

LogConfirmed(q) ==
  /\ pc[q] = "log"
  /\ confirmed' = [confirmed EXCEPT ![got[q]] = @ + 1]
  /\ pc' = [pc EXCEPT ![q] = "execute"]
  /\ UNCHANGED <<rowVars, user, word, got, due, effects, executed, raced, broken,
                 bounds>>

\* A mutation of CodeIsTaken: the reference code is chosen when executing.
CodeIsNew(a) == FALSE

\* Its contract exists: reference_code is UNIQUE.
CodeIsTaken(a) == kind[a] = "CREATE" /\ effects[a] > 0

Execute(q) ==
  /\ pc[q] = "execute"
  /\ ~CodeIsTaken(got[q])
  /\ effects' = [effects EXCEPT ![got[q]] = @ + 1]
  /\ pc' = [pc EXCEPT ![q] = "record"]
  /\ UNCHANGED <<rowVars, user, word, got, due, confirmed, executed, raced, broken,
                 bounds>>

\* The domain service refuses (the payment is gone, or not the user's), or
\* raises on the second contract: the row stays as it is and can be confirmed
\* again.
ExecuteRefused(q) ==
  /\ pc[q] = "execute"
  /\ kind[got[q]] = "OTHER" \/ CodeIsTaken(got[q])
  /\ Leave(q)
  /\ UNCHANGED <<rowVars, due, ledgerVars, bounds>>

Record(q) ==
  /\ pc[q] = "record"
  /\ SetStatus(got[q], "EXECUTED")
  /\ pc' = [pc EXCEPT ![q] = "logdone"]
  /\ UNCHANGED <<owner, kind, late, user, word, got, due, ledgerVars, bounds>>

LogExecuted(q) ==
  /\ pc[q] = "logdone"
  /\ executed' = [executed EXCEPT ![got[q]] = @ + 1]
  /\ Leave(q)
  /\ UNCHANGED <<rowVars, due, effects, confirmed, raced, broken,
                 bounds>>

Cancel(q) ==
  /\ pc[q] = "cancel"
  /\ SetStatus(got[q], "CANCELLED")
  /\ Leave(q)
  /\ UNCHANGED <<owner, kind, late, due, ledgerVars, bounds>>

-----------------------------------------------------------------------------
(* The cleanup job *)

\* One query; the loop then writes row by row.
ExpireScan ==
  /\ due = {} /\ Expired # {}
  /\ due'   = Expired
  /\ raced' = raced \cup {a \in Expired : Held(a)}
  /\ UNCHANGED <<rowVars, askVars, effects, confirmed, executed, broken, bounds>>

\* A mutation of ExpireOne: the row is audited, its status left as it is.
ExpireNone(a) ==
  /\ a \in due
  /\ due' = due \ {a}
  /\ UNCHANGED <<rowVars, askVars, ledgerVars, bounds>>

ExpireOne(a) ==
  /\ a \in due
  /\ SetStatus(a, "EXPIRED")
  /\ due' = due \ {a}
  /\ UNCHANGED <<owner, kind, late, askVars, ledgerVars, bounds>>

-----------------------------------------------------------------------------
(* Faults *)

\* The process dies, or a commit of the request fails. After the effect and
\* before set_status, the row still says that nothing was done.
Die(q) ==
  /\ pc[q] # "idle" /\ faults < MaxFaults
  /\ faults' = faults + 1
  /\ broken' = broken \cup {a \in Actions : a = got[q] /\ pc[q] = "record"}
  /\ Leave(q)
  /\ UNCHANGED <<rowVars, due, effects, confirmed, executed, raced,
                 consents, words>>

\* The cleanup dies, or fails on a row and gives up the others.
CleanupDies ==
  /\ due # {} /\ faults < MaxFaults
  /\ faults' = faults + 1
  /\ due' = {}
  /\ UNCHANGED <<rowVars, askVars, ledgerVars, consents, words>>

-----------------------------------------------------------------------------
RequestStep(q) ==
  \/ \E a \in Actions : Pick(q, a)
  \/ PickNothing(q) \/ LogConfirmed(q)
  \/ Execute(q) \/ ExecuteRefused(q) \/ Record(q) \/ LogExecuted(q)
  \/ Cancel(q)

Cleanup == ExpireScan \/ \E a \in Actions : ExpireOne(a)

Next ==
  \/ \E u \in Users : \/ \E a \in Actions, k \in Kinds : Propose(u, a, k)
                      \/ \E q \in Requests, w \in {"YES", "NO"} : Say(q, u, w)
  \/ \E a \in Actions : Lapse(a)
  \/ \E q \in Requests : RequestStep(q) \/ Die(q)
  \/ Cleanup \/ CleanupDies

Spec == Init /\ [][Next]_vars

\* Time passes, the cleanup ticks and goes on, and a request that has started
\* goes on unless it dies. Nobody is obliged to propose or to answer.
Fairness ==
  /\ \A a \in Actions : WF_vars(Lapse(a))
  /\ WF_vars(Cleanup)
  /\ \A q \in Requests : WF_vars(RequestStep(q))

FairSpec == Spec /\ Fairness

-----------------------------------------------------------------------------
(* Properties *)

\* Executed, its status about to be written.
BeingRecorded(a) == \E q \in Requests : got[q] = a /\ pc[q] = "record"

\* Unless two held it at once, or a request died between effect and status, an
\* action's status says what was done: EXECUTED means executed once, any other
\* status means not at all. So YES after YES, NO after YES, YES after the
\* deadline and a refused execution tried again are all harmless as long as they
\* are one after the other (confirm_and_execute, cancel_latest, expire_stale).
StatusTellsTheTruth ==
  \A a \in Actions \ (raced \cup broken) :
     effects[a] = IF status[a] = "EXECUTED" \/ BeingRecorded(a) THEN 1 ELSE 0

\* With overlaps and crashes, the audit trail still brackets what was done: no
\* execution without a confirmation logged before it, none logged that was not
\* carried out. Executions of an action never exceed the YESes that reached it.
AuditBracketsEffects ==
  \A a \in Actions :
     /\ effects[a] + Cardinality({q \in Requests : got[q] = a /\ pc[q] = "execute"})
          <= confirmed[a]
     /\ executed[a] + Cardinality({q \in Requests : got[q] = a /\ pc[q] \in {"record", "logdone"}})
          <= effects[a]

\* Whatever overlaps or dies, a proposed contract is created at most once: the
\* reference code is fixed in the proposal, and UNIQUE.
ContractOnce == \A a \in Actions : kind[a] = "CREATE" => effects[a] <= 1

\* Every execution spends a YES of the action's own user: whatever users do at
\* the same time, nobody's action is executed on another's word, and no word is
\* good for two executions.
NoExecutionWithoutConsent ==
  \A u \in Users :
     MapThenSumSet(LAMBDA a : effects[a], {a \in Actions : owner[a] = u}) <= consents[u]

\* No proposal waits for ever: answered or not, and however requests and
\* cleanups die, it leaves PENDING_CONFIRMATION.
EventuallyClosed ==
  \A a \in Actions :
     status[a] = "PENDING_CONFIRMATION" ~> status[a] \in {"EXECUTED", "CANCELLED", "EXPIRED"}

-----------------------------------------------------------------------------
(* A claim of the documentation that the code does not keep *)

\* README and models/pending_action.py: a confirmed action is executed exactly
\* once; executed actions are never re-run.
ExecutedOnce == \A a \in Actions : effects[a] <= 1

=============================================================================

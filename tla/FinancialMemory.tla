----------------------------- MODULE FinancialMemory -----------------------------
(***************************************************************************)
(* What the assistant remembers about a user                               *)
(* (app/services/ai_memory/, repositories/financial_memory_repository.py): *)
(* rows of financial_memories, written by chat turns and by the analysis    *)
(* job.                                                                     *)
(*                                                                         *)
(* remember() reads all rows of the user, inserts the fact when it is not   *)
(* among them, and writes an audit row: three statements, each on its own,  *)
(* and no constraint on the table.                                          *)
(***************************************************************************)
EXTENDS Naturals, Sequences

CONSTANTS
  Users,
  Writers     \* callers of remember() that may be in it together

VARIABLES
  memories,   \* rows, by created_at
  todo,       \* the facts a caller has still to remember, in its order
  recall,     \* where it is with the first of them
  memoryLog,  \* AI_MEMORY_CREATED audit rows
  crossed     \* facts that two callers were about to insert together

memoryVars == <<memories, todo, recall, memoryLog, crossed>>

MemoryTypes == {"PREFERENCE", "FINANCIAL_PATTERN", "IMPORTANT_CONTEXT", "RISK_SIGNAL",
                "USER_GOAL"}

\* The text of a memory: what a user wrote (the number tells two texts apart), or
\* the sentence of the analysis with the number in it.
Texts == {"SAID", "BEHIND", "LOW_COLLECTION", "INCONSISTENT"} \X Nat

Facts == [user : Users, type : MemoryTypes, text : Texts]

MemoryTypeOK ==
  /\ memories  \in Seq(Facts)
  /\ todo      \in [Writers -> Seq(Facts)]
  /\ recall    \in [Writers -> {"read", "insert", "audit"}]
  /\ memoryLog \in Seq(Facts)
  /\ crossed   \subseteq Facts

MemoryInit ==
  /\ memories = <<>>
  /\ todo   = [w \in Writers |-> <<>>]
  /\ recall = [w \in Writers |-> "read"]
  /\ memoryLog = <<>>
  /\ crossed = {}

-----------------------------------------------------------------------------
Remembered(f) == \E i \in DOMAIN memories : memories[i] = f

\* w has read that nobody remembers f, and has not inserted it yet.
AboutToInsert(w, f) == recall[w] = "insert" /\ Head(todo[w]) = f

NextFact(w) == todo' = [todo EXCEPT ![w] = Tail(@)]

\* The facts of one turn, or of one user's analysis.
Want(w, facts) ==
  /\ todo[w] = <<>>
  /\ todo' = [todo EXCEPT ![w] = facts]
  /\ UNCHANGED <<memories, recall, memoryLog, crossed>>

\* A duplicate of the same user and type is skipped.
SkipKnown(w) ==
  /\ todo[w] # <<>> /\ recall[w] = "read"
  /\ Remembered(Head(todo[w]))
  /\ NextFact(w)
  /\ UNCHANGED <<memories, recall, memoryLog, crossed>>

\* A mutation of Recall: the rows are not looked at.
RecallNothing(w) ==
  /\ todo[w] # <<>> /\ recall[w] = "read"
  /\ recall' = [recall EXCEPT ![w] = "insert"]
  /\ UNCHANGED <<memories, todo, memoryLog, crossed>>

Recall(w) ==
  /\ todo[w] # <<>> /\ recall[w] = "read"
  /\ ~Remembered(Head(todo[w]))
  /\ recall' = [recall EXCEPT ![w] = "insert"]
  /\ crossed' = crossed \cup {f \in {Head(todo[w])} :
                                 \E v \in Writers \ {w} : AboutToInsert(v, f)}
  /\ UNCHANGED <<memories, todo, memoryLog>>

Insert(w) ==
  /\ recall[w] = "insert"
  /\ memories' = Append(memories, Head(todo[w]))
  /\ recall' = [recall EXCEPT ![w] = "audit"]
  /\ UNCHANGED <<todo, memoryLog, crossed>>

LogMemory(w) ==
  /\ recall[w] = "audit"
  /\ memoryLog' = Append(memoryLog, Head(todo[w]))
  /\ recall' = [recall EXCEPT ![w] = "read"]
  /\ NextFact(w)
  /\ UNCHANGED <<memories, crossed>>

\* The caller's exception handler, or its death: the rest is not remembered.
Forget(w) ==
  /\ todo' = [todo EXCEPT ![w] = <<>>]
  /\ recall' = [recall EXCEPT ![w] = "read"]
  /\ UNCHANGED <<memories, memoryLog, crossed>>

Remember(w) == SkipKnown(w) \/ Recall(w) \/ Insert(w) \/ LogMemory(w)

\* What callers can do to the memory, whoever they are.
MemoryNext ==
  \E w \in Writers : \/ \E facts \in Seq(Facts) : Want(w, facts)
                     \/ Remember(w) \/ Forget(w)

MemorySpec == MemoryInit /\ [][MemoryNext]_memoryVars

-----------------------------------------------------------------------------
(* Properties *)

\* A fact is stored twice for a user only if two callers had both found it missing
\* before either stored it: remember() without a constraint behind it still
\* removes the duplicates of one chat after another, and of every run of the job.
RememberedOnce ==
  \A i, j \in DOMAIN memories :
     i # j /\ memories[i] = memories[j] => memories[i] \in crossed

=============================================================================

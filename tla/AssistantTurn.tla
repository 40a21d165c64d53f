------------------------------- MODULE AssistantTurn -------------------------------
(***************************************************************************)
(* One turn of the assistant (app/ai/assistant/assistant_service.py,       *)
(* AssistantService.chat), from the request that brings a message to the    *)
(* answer: over HTTP (api/assistant.py), or from the WhatsApp webhook      *)
(* (api/whatsapp.py, _run_assistant), where a guard refuses what writes.     *)
(*                                                                         *)
(* Turns run side by side. They share the conversations, whose rows and      *)
(* messages (services/conversation_memory_service.py) are read and written  *)
(* in statements of their own, the pending actions of their user (in        *)
(* PendingActions in full, here only which are open), and what the          *)
(* assistant remembers (FinancialMemory). The language model is the         *)
(* environment: it names any intent.                                        *)
(***************************************************************************)
EXTENDS FinancialMemory, Lists, FiniteSets, SequencesExt

CONSTANTS
  Turns,          \* messages that reach the assistant
  Sayings,        \* what they may be
  HistoryLimit,   \* _HISTORY_LIMIT
  MaxTogether,    \* bound: turns under way at a time
  MaxFailures     \* bound: exceptions in turns

Channels == {"http", "whatsapp"}
Words    == {"yes", "no", "text"}
Cues     == {"goal", "pattern"}

\* The number of a text tells two messages apart.
ASSUME TurnAssumption ==
  /\ Turns \subseteq Writers
  /\ \A saying \in Sayings :
        /\ saying \in [channel : Channels, user : Users, word : Words, cues : SUBSET Cues,
                      text : Nat]
        /\ saying.word # "text" => saying.cues = {}
  /\ HistoryLimit \in Nat \ {0}
  /\ MaxTogether \in Nat /\ MaxFailures \in Nat

VARIABLES
  stage,          \* what a turn does next
  turn,           \* its channel, its user, and its message
  conversations,  \* the key of each row, by id; all ACTIVE
  conversation,   \* the row a turn works with
  history,        \* the messages it has read
  messages,       \* rows of conversation_messages, by id
  actions,        \* rows of pending_actions, by id: the turn that proposed each
  pending,        \* those PENDING_CONFIRMATION, and not late
  inHand,         \* the action a turn confirms or cancels, 0 for none
  reply,          \* what the answer is
  spoilt,         \* turns whose session refuses every statement
  failures,
  \* what happened
  split,          \* keys that two requests were about to open together
  earlier,        \* turns that were over when a turn began
  executed,       \* a turn, and the action whose effects it had
  blocked,        \* WHATSAPP_ACTION_BLOCKED audit rows
  queried, answered,   \* ASSISTANT_QUERY and ASSISTANT_RESPONSE audit rows
  sent            \* turns whose reply the customer has been sent

actionVars == <<actions, pending, inHand, executed>>
keptVars == <<conversations, messages, actionVars>>
turnLogs == <<split, earlier, blocked, queried, answered, sent>>
turnVars == <<stage, turn, keptVars, conversation, history, reply, spoilt, failures, turnLogs>>

Stages == {"away", "greet", "greet-open", "find", "open", "history", "shortcut", "detect",
           "deny", "propose", "confirm", "execute", "settle", "cancel", "close", "gather",
           "query", "user", "assistant", "extract", "remember", "response", "send", "over",
           "failed"}

\* Over WhatsApp the conversation is the phone's, which the webhook and the payment
\* workflow use too; over HTTP it is the user's.
Key(t) == <<turn[t].channel, turn[t].user>>

Replies == {"none", "answer", "denied", "asked", "proposed", "refused", "executed",
            "cancelled", "nothing", "unsupported"}

NoSaying == [channel |-> "none"]

TurnTypeOK ==
  /\ stage \in [Turns -> Stages]
  /\ turn \in [Turns -> Sayings \cup {NoSaying}]
  /\ conversations \in Seq(Channels \X Users)
  /\ conversation \in [Turns -> Nat]
  /\ messages \in Seq([conversation : Nat, turn : Turns, role : {"USER", "ASSISTANT"}])
  /\ \A t \in Turns : \A i \in DOMAIN history[t] : history[t][i] \in DOMAIN messages
  /\ actions \in Seq(Turns) /\ pending \subseteq DOMAIN actions
  /\ inHand \in [Turns -> {0} \cup DOMAIN actions]
  /\ executed \subseteq Turns \X DOMAIN actions
  /\ reply \in [Turns -> Replies]
  /\ split \subseteq Channels \X Users
  /\ earlier \in [Turns -> SUBSET Turns]
  /\ \A some \in {spoilt, blocked, queried, answered, sent} : some \subseteq Turns
  /\ failures \in Nat

TurnInit ==
  /\ stage = [t \in Turns |-> "away"]
  /\ turn = [t \in Turns |-> NoSaying]
  /\ conversations = <<>> /\ messages = <<>>
  /\ conversation = [t \in Turns |-> 0]
  /\ history = [t \in Turns |-> <<>>]
  /\ actions = <<>> /\ pending = {} /\ inHand = [t \in Turns |-> 0] /\ executed = {}
  /\ reply = [t \in Turns |-> "none"]
  /\ spoilt = {} /\ failures = 0
  /\ split = {} /\ earlier = [t \in Turns |-> {}]
  /\ blocked = {} /\ queried = {} /\ answered = {} /\ sent = {}

-----------------------------------------------------------------------------
Under(t) == stage[t] \notin {"away", "over", "failed"}

Overs == {t \in Turns : stage[t] = "over"}

GoOn(t, next) == stage' = [stage EXCEPT ![t] = next]

\* The webhook looks the conversation up first, then chat() does, on a session of
\* its own.
Arrive(t) ==
  /\ stage[t] = "away"
  /\ Cardinality({s \in Turns : Under(s)}) < MaxTogether
  /\ \E saying \in Sayings :
        /\ turn' = [turn EXCEPT ![t] = saying]
        /\ GoOn(t, IF saying.channel = "whatsapp" THEN "greet" ELSE "find")
  /\ earlier' = [earlier EXCEPT ![t] = Overs]
  /\ UNCHANGED <<keptVars, conversation, history, reply, spoilt, failures, split, blocked,
                 queried, answered, sent, memoryVars>>

-----------------------------------------------------------------------------
(* The conversation *)

Rows(key) == {i \in DOMAIN conversations : conversations[i] = key}

Looking(t) == stage[t] \in {"greet", "find"}
Opening(t) == stage[t] \in {"greet-open", "open"}

AfterConversation(t) ==
  IF stage[t] \in {"greet", "greet-open"} THEN "find" ELSE "history"

\* Any of the key's ACTIVE rows: .first() without an ORDER BY.
FindConversation(t) ==
  /\ Looking(t)
  /\ \E i \in Rows(Key(t)) : conversation' = [conversation EXCEPT ![t] = i]
  /\ GoOn(t, AfterConversation(t))
  /\ UNCHANGED <<turn, keptVars, history, reply, spoilt, failures, turnLogs, memoryVars>>

\* A mutation of NoConversation: the key is not looked for.
NoConversationAsked(t) ==
  /\ Looking(t)
  /\ GoOn(t, IF stage[t] = "greet" THEN "greet-open" ELSE "open")
  /\ UNCHANGED <<turn, keptVars, conversation, history, reply, spoilt, failures, turnLogs,
                 memoryVars>>

NoConversation(t) ==
  /\ Looking(t) /\ Rows(Key(t)) = {}
  /\ GoOn(t, IF stage[t] = "greet" THEN "greet-open" ELSE "open")
  /\ split' = split \cup {key \in {Key(t)} :
                            \E s \in Turns \ {t} : Opening(s) /\ Key(s) = key}
  /\ UNCHANGED <<turn, keptVars, conversation, history, reply, spoilt, failures, earlier,
                 blocked, queried, answered, sent, memoryVars>>

OpenConversation(t) ==
  /\ Opening(t)
  /\ conversations' = Append(conversations, Key(t))
  /\ conversation' = [conversation EXCEPT ![t] = Len(conversations) + 1]
  /\ GoOn(t, AfterConversation(t))
  /\ UNCHANGED <<turn, messages, actionVars, history, reply, spoilt, failures, turnLogs,
                 memoryVars>>

\* The messages of a conversation, by id.
Messages(c) ==
  Kept([i \in DOMAIN messages |-> i], {i \in DOMAIN messages : messages[i].conversation = c})

Smallest(m, n) == IF m < n THEN m ELSE n

\* A mutation of Recent: the oldest messages.
RecentOldest(seq) == SubSeq(seq, 1, Smallest(HistoryLimit, Len(seq)))

Recent(seq) == SubSeq(seq, Len(seq) + 1 - Smallest(HistoryLimit, Len(seq)), Len(seq))

\* The last messages, oldest first; then the memories of the user.
ReadHistory(t) ==
  /\ stage[t] = "history"
  /\ history' = [history EXCEPT ![t] = Recent(Messages(conversation[t]))]
  /\ GoOn(t, "shortcut")
  /\ UNCHANGED <<turn, keptVars, conversation, reply, spoilt, failures, turnLogs, memoryVars>>

-----------------------------------------------------------------------------
(* What to do with the message *)

Intents == {"READ", "WRITE", "CONFIRM", "CANCEL", "UNSUPPORTED"}

\* Confirming would execute a write.
BlockedIntents == {"WRITE", "CONFIRM", "UNSUPPORTED"}

\* A mutation of Blocked: what executes a write is not a write.
BlockedWrites(t, intent) ==
  turn[t].channel = "whatsapp" /\ intent \in BlockedIntents \ {"CONFIRM"}

Blocked(t, intent) == turn[t].channel = "whatsapp" /\ intent \in BlockedIntents

Answer(t, what) == reply' = [reply EXCEPT ![t] = what]

\* The guard records what it refuses, on a session of its own.
Deny(t) == blocked' = blocked \cup {t} /\ GoOn(t, "deny")

\* The open actions of a user, and the newest of them.
Open(u) == {i \in pending : turn[actions[i]].user = u}

IsLatest(u, i) == i \in Open(u) /\ \A j \in Open(u) : j <= i

\* A bare yes or no is about the pending action, if there is one; a no over WhatsApp
\* is not guarded.
Shortcut(t) ==
  /\ stage[t] = "shortcut"
  /\ LET word == turn[t].word
         open == Open(turn[t].user) # {}
     IN \/ word = "yes" /\ Blocked(t, "CONFIRM") /\ Deny(t)
        \/ /\ word = "yes" /\ ~Blocked(t, "CONFIRM") /\ open
           /\ GoOn(t, "confirm") /\ UNCHANGED blocked
        \/ word = "no" /\ open /\ GoOn(t, "cancel") /\ UNCHANGED blocked
        \/ /\ word = "text" \/ ~open
           /\ ~(word = "yes" /\ Blocked(t, "CONFIRM"))
           /\ GoOn(t, "detect") /\ UNCHANGED blocked
  /\ UNCHANGED <<turn, keptVars, conversation, history, reply, spoilt, failures, split,
                 earlier, queried, answered, sent, memoryVars>>

\* Editing and deleting contracts is unsupported.
Detect(t) ==
  /\ stage[t] = "detect"
  /\ \E intent \in Intents :
        \/ Blocked(t, intent) /\ Deny(t) /\ UNCHANGED reply
        \/ /\ ~Blocked(t, intent) /\ intent # "UNSUPPORTED"
           /\ GoOn(t, CASE intent = "READ" -> "gather"  [] intent = "WRITE"  -> "propose"
                        [] intent = "CONFIRM" -> "confirm" [] intent = "CANCEL" -> "cancel")
           /\ UNCHANGED <<reply, blocked>>
        \/ /\ ~Blocked(t, intent) /\ intent = "UNSUPPORTED"
           /\ Answer(t, "unsupported") /\ GoOn(t, "query") /\ UNCHANGED blocked
  /\ UNCHANGED <<turn, keptVars, conversation, history, spoilt, failures, split, earlier,
                 queried, answered, sent, memoryVars>>

ButAnswer == <<turn, keptVars, conversation, history, spoilt, failures, turnLogs, memoryVars>>

AnswerDenied(t) ==
  /\ stage[t] = "deny"
  /\ Answer(t, "denied") /\ GoOn(t, "query") /\ UNCHANGED ButAnswer

\* The tools read, and the model phrases the answer.
Gather(t) ==
  /\ stage[t] = "gather"
  /\ Answer(t, "answer") /\ GoOn(t, "query") /\ UNCHANGED ButAnswer

ButActions == <<turn, conversations, messages, conversation, history, turnLogs, memoryVars>>

\* A contract is proposed when the conversation has named all its fields; until then
\* the next one is asked for. Parameters that do not fit are refused.
Propose(t) ==
  /\ stage[t] = "propose" /\ GoOn(t, "query")
  /\ \/ \E what \in {"asked", "refused"} : Answer(t, what) /\ UNCHANGED <<actions, pending>>
     \/ /\ Answer(t, "proposed") /\ actions' = Append(actions, t)
        /\ pending' = pending \cup {Len(actions) + 1}
  /\ UNCHANGED <<inHand, executed, spoilt, failures, ButActions>>

\* The latest pending action, which need not be the one the shortcut saw.
TakeLatest(t) ==
  /\ stage[t] \in {"confirm", "cancel"}
  /\ \E i \in pending : IsLatest(turn[t].user, i) /\ inHand' = [inHand EXCEPT ![t] = i]
  /\ GoOn(t, IF stage[t] = "confirm" THEN "execute" ELSE "close")
  /\ UNCHANGED <<actions, pending, executed, reply, spoilt, failures, ButActions>>

NothingPending(t) ==
  /\ stage[t] \in {"confirm", "cancel"} /\ Open(turn[t].user) = {}
  /\ Answer(t, "nothing") /\ GoOn(t, "query") /\ UNCHANGED ButAnswer

Execute(t) ==
  /\ stage[t] = "execute" /\ GoOn(t, "settle")
  /\ executed' = executed \cup {<<t, inHand[t]>>}
  /\ UNCHANGED <<actions, pending, inHand, reply, spoilt, failures, ButActions>>

\* The service finds nothing to approve or reject: the row stays as it is.
ExecuteRefused(t) ==
  /\ stage[t] = "execute" /\ Answer(t, "refused") /\ GoOn(t, "query")
  /\ UNCHANGED ButAnswer

\* EXECUTED or CANCELLED, whatever the row says by now.
Settle(t) ==
  /\ stage[t] \in {"settle", "close"} /\ GoOn(t, "query")
  /\ Answer(t, IF stage[t] = "settle" THEN "executed" ELSE "cancelled")
  /\ pending' = pending \ {inHand[t]}
  /\ UNCHANGED <<actions, inHand, executed, spoilt, failures, ButActions>>

-----------------------------------------------------------------------------
(* The record of the turn *)

AuditQuery(t) ==
  /\ stage[t] = "query" /\ t \notin spoilt /\ GoOn(t, "user")
  /\ queried' = queried \cup {t}
  /\ UNCHANGED <<turn, keptVars, conversation, history, reply, spoilt, failures, split,
                 earlier, blocked, answered, sent, memoryVars>>

\* A mutation of Say: the conversation is looked up once more.
SayAnew(t, role) ==
  messages' = Append(messages, [conversation |-> Max(Rows(Key(t))), turn |-> t, role |-> role])

Say(t, role) ==
  messages' = Append(messages, [conversation |-> conversation[t], turn |-> t, role |-> role])

StoreUserMessage(t) ==
  /\ stage[t] = "user" /\ GoOn(t, "assistant") /\ Say(t, "USER")
  /\ UNCHANGED <<turn, conversations, actionVars, conversation, history, reply, spoilt,
                 failures, turnLogs, memoryVars>>

StoreAssistantMessage(t) ==
  /\ stage[t] = "assistant" /\ GoOn(t, "extract") /\ Say(t, "ASSISTANT")
  /\ UNCHANGED <<turn, conversations, actionVars, conversation, history, reply, spoilt,
                 failures, turnLogs, memoryVars>>

Fact(t, type) == [user |-> turn[t].user, type |-> type, text |-> <<"SAID", turn[t].text>>]

\* A goal first, then a pattern; a plain question, or what looks like a secret, is
\* nothing to remember.
Extracted(t) ==
  Unless(<<Fact(t, "USER_GOAL")>>, "goal" \notin turn[t].cues)
  \o Unless(<<Fact(t, "FINANCIAL_PATTERN")>>, "pattern" \notin turn[t].cues)

ExtractMemories(t) ==
  /\ stage[t] = "extract" /\ GoOn(t, "remember")
  /\ Want(t, Extracted(t))
  /\ UNCHANGED <<turn, keptVars, conversation, history, reply, spoilt, failures, turnLogs>>

RememberSaid(t) ==
  /\ stage[t] = "remember" /\ Remember(t)
  /\ UNCHANGED turnVars

AllRemembered(t) ==
  /\ stage[t] = "remember" /\ todo[t] = <<>> /\ GoOn(t, "response")
  /\ UNCHANGED <<turn, keptVars, conversation, history, reply, spoilt, failures, turnLogs,
                 memoryVars>>

AuditResponse(t) ==
  /\ stage[t] = "response" /\ t \notin spoilt
  /\ GoOn(t, IF turn[t].channel = "whatsapp" THEN "send" ELSE "over")
  /\ answered' = answered \cup {t}
  /\ UNCHANGED <<turn, keptVars, conversation, history, reply, spoilt, failures, split,
                 earlier, blocked, queried, sent, memoryVars>>

\* The webhook delivers the reply.
SendReply(t) ==
  /\ stage[t] = "send" /\ GoOn(t, "over")
  /\ sent' = sent \cup {t}
  /\ UNCHANGED <<turn, keptVars, conversation, history, reply, spoilt, failures, split,
                 earlier, blocked, queried, answered, memoryVars>>

-----------------------------------------------------------------------------
(* What goes wrong *)

Fails == failures < MaxFailures /\ failures' = failures + 1

\* An exception ends the turn: 500 over HTTP, an unprocessed message over WhatsApp
\* (its redelivery is another turn).
TurnFails(t) ==
  /\ Under(t) /\ stage[t] # "remember" /\ Fails
  /\ GoOn(t, "failed") /\ Answer(t, "none")
  /\ UNCHANGED <<turn, keptVars, conversation, history, spoilt, turnLogs, memoryVars>>

\* One in the execution is swallowed, before its effects or after them; the row stays
\* as it is. A failed statement leaves the session spoilt.
ExecutionFails(t) ==
  /\ stage[t] = "execute" /\ Fails
  /\ Answer(t, "refused") /\ GoOn(t, "query")
  /\ executed' \in {executed, executed \cup {<<t, inHand[t]>>}}
  /\ spoilt' \in {spoilt, spoilt \cup {t}}
  /\ UNCHANGED <<actions, pending, inHand, ButActions>>

\* So is one in the extraction.
ExtractionFails(t) ==
  /\ stage[t] = "remember" /\ todo[t] # <<>> /\ Fails
  /\ Forget(t) /\ GoOn(t, "response")
  /\ spoilt' \in {spoilt, spoilt \cup {t}}
  /\ UNCHANGED <<turn, keptVars, conversation, history, reply, turnLogs>>

\* The next audit row cannot be recorded on it: the turn fails after all.
SpoiltFails(t) ==
  /\ stage[t] \in {"query", "response"} /\ t \in spoilt
  /\ GoOn(t, "failed") /\ Answer(t, "none")
  /\ UNCHANGED ButAnswer

\* Nobody has confirmed it in time: it is not looked at any more, and the cleanup
\* job will expire it.
ExpirePending(i) ==
  /\ i \in pending /\ pending' = pending \ {i}
  /\ UNCHANGED <<stage, actions, inHand, executed, reply, spoilt, failures, ButActions>>

Turn(t) ==
  \/ Arrive(t)
  \/ FindConversation(t) \/ NoConversation(t) \/ OpenConversation(t) \/ ReadHistory(t)
  \/ Shortcut(t) \/ Detect(t) \/ AnswerDenied(t) \/ Gather(t) \/ Propose(t)
  \/ TakeLatest(t) \/ NothingPending(t) \/ Execute(t) \/ ExecuteRefused(t) \/ Settle(t)
  \/ AuditQuery(t) \/ StoreUserMessage(t) \/ StoreAssistantMessage(t)
  \/ ExtractMemories(t) \/ RememberSaid(t) \/ AllRemembered(t)
  \/ AuditResponse(t) \/ SendReply(t)
  \/ TurnFails(t) \/ ExecutionFails(t) \/ ExtractionFails(t) \/ SpoiltFails(t)

TurnNext == (\E t \in Turns : Turn(t)) \/ (\E i \in pending : ExpirePending(i))

-----------------------------------------------------------------------------
(* Properties *)

\* get_or_create without a constraint: a user has one ACTIVE conversation per
\* channel, unless two requests had both found none before either opened it.
OneConversation ==
  \A i, j \in DOMAIN conversations :
     i # j /\ conversations[i] = conversations[j] => conversations[i] \in split

HasSaid(t, role, i) == messages[i].turn = t /\ messages[i].role = role

\* A turn works with every turn of its conversation that was over before it began,
\* question before answer, back to as far as the limit of the history reaches.
HistoryIsWhole ==
  \A t \in Turns : \A s \in earlier[t] :
    /\ stage[t] \notin {"greet", "greet-open", "find", "open", "history", "failed"}
    /\ Key(s) = Key(t) /\ Key(t) \notin split
    => \E i, j \in DOMAIN messages :
         /\ HasSaid(s, "USER", i) /\ HasSaid(s, "ASSISTANT", j) /\ i < j
         /\ \A k \in {i, j} :
              \/ Contains(history[t], k)
              \/ Len(history[t]) = HistoryLimit /\ \A n \in DOMAIN history[t] : history[t][n] > k

\* A denial is told only when it is on record, and a turn on record as denied is not
\* answered otherwise: it is told so, or fails and tells nothing.
DenialsOnRecord(t) ==
  /\ reply[t] = "denied" => t \in blocked
  /\ t \in blocked => /\ stage[t] = "over" => reply[t] = "denied"
                      /\ ~\E i \in DOMAIN actions : actions[i] = t \/ <<t, i>> \in executed

\* Whatever a user has left pending over HTTP, nothing said over WhatsApp proposes
\* an action or has its effects, even when turns of both channels overlap: an action
\* is executed by an HTTP turn of the user who proposed it there. Who is told that it
\* was executed has had the effects, and the action is not open any more.
OnlyTheAppWrites ==
  \A t \in Turns :
    /\ DenialsOnRecord(t)
    /\ \A i \in DOMAIN actions :
          /\ actions[i] = t => turn[t].channel = "http"
          /\ <<t, i>> \in executed =>
                turn[t].channel = "http" /\ turn[actions[i]].user = turn[t].user
    /\ reply[t] = "executed" => <<t, inHand[t]>> \in executed /\ inHand[t] \notin pending

\* What the customer is sent, and what the API answers, is in one conversation
\* behind the question it answers, once, and both audit rows are written. A turn that
\* failed has left the question without the answer, both, or nothing.
RepliesAreOnRecord ==
  \A t \in Turns :
    LET asked  == {i \in DOMAIN messages : HasSaid(t, "USER", i)}
        given  == {i \in DOMAIN messages : HasSaid(t, "ASSISTANT", i)}
    IN /\ \A i \in asked, j \in given :
             i < j /\ messages[i].conversation = messages[j].conversation
       /\ Cardinality(given) <= Cardinality(asked) /\ Cardinality(asked) <= 1
       /\ t \in sent \/ stage[t] = "over" =>
             given # {} /\ t \in queried \cap answered

=============================================================================

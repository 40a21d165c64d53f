---------------------------------- MODULE Accounts ----------------------------------
(***************************************************************************)
(* Users and the contracts they own: registration and login                  *)
(* (api/auth.py, AuthService), the token a request is let in with            *)
(* (api/deps.py, core/security.py), and the creation and the reading of      *)
(* contracts (api/contracts.py, ContractService, require_owned_contract).    *)
(*                                                                         *)
(* Every request has a session of its own. A registration looks the e-mail   *)
(* up before it inserts; a contract is inserted at once, and the UNIQUE       *)
(* reference code tells a clash. The audit row is a commit of its own, behind *)
(* the row it speaks of.                                                   *)
(***************************************************************************)
EXTENDS Integers, Sequences, FiniteSets

CONSTANTS
  Callers,      \* requests
  Emails, Passwords, Codes,
  Asks,         \* what the requests may ask
  Salts,
  Registered,   \* the users there are at the start, logged in a moment ago
  NoDate,       \* end_date is None
  Today,
  Lifetime,     \* JWT_EXPIRE_MINUTES, in hours
  MaxHour,      \* bound
  MaxErrors     \* bound: requests that an error or a crash ends

Forms ==
  [code : Codes, total : Int, daily : Int, start : Int, end : Int \cup {NoDate}]

Asking(what) == {a \in Asks : a.what = what}

ASSUME AccountsAssumption ==
  /\ \A a \in Asking("register") \cup Asking("login") : a.email \in Emails /\ a.password \in Passwords
  /\ \A a \in Asking("create") : a.form \in Forms
  /\ \A a \in Asking("show") : a.contract \in Nat \ {0}
  /\ Asks = UNION {Asking(what) : what \in {"register", "login", "create", "show"}}
  /\ Registered \in Seq(Emails \X Passwords \X Salts)
  /\ Salts # {} /\ NoDate \notin Int /\ Today \in Int
  /\ Lifetime \in Nat \ {0} /\ MaxHour \in Nat /\ MaxErrors \in Nat

VARIABLES
  hour,
  userRows,      \* users, by id
  contractRows,  \* contracts, by id; all ACTIVE
  auditRows,     \* audit_logs, by id
  tokens,        \* what logins have answered
  moment,        \* what a request does next
  ask,           \* what it asks
  caller,        \* the user it found or is let in as; 0: none
  answer,        \* the response
  \* what happened
  made,          \* the row a request has written; 0: none
  hit,           \* requests an error or a crash has ended
  clashed,       \* e-mails two registrations had both found free
  known          \* how many users there were when a request came in

rowsVars     == <<userRows, contractRows, auditRows>>
accountsVars == <<hour, rowsVars, tokens, moment, ask, caller, answer, made, hit, clashed, known>>

Moments == {"waiting", "email", "user", "credentials", "accept", "reject", "identify", "contract",
            "record", "show", "answered"}

\* 201 and 200, and the errors: 401, 404, 409, 422, 500.
Responses == {"none", "created", "welcome", "shown",
              "unauthorized", "missing", "conflict", "invalid", "error"}

UserRow     == [email : Emails, hashed_password : Salts \X Passwords]
ContractRow == [user_id : Nat, reference_code : Codes, total : Int, daily : Int, start : Int,
                end : Int \cup {NoDate}]
AuditRow    == [action : {"USER_LOGIN", "USER_LOGIN_FAILED", "CONTRACT_CREATED"},
                user_id : Nat, about : Nat \cup Emails]
NoToken     == [sub |-> 0, exp |-> 0]

-----------------------------------------------------------------------------
(* Passwords and tokens *)

\* A digest is told apart by its salt and its password, and by nothing else.
HashPassword(password, salt) == <<salt, password>>

VerifyPassword(password, hashed) == hashed = HashPassword(password, hashed[1])

CreateToken(user) == [sub |-> user, exp |-> hour + Lifetime]

\* The user id; 0 for a token that is missing or has expired.
DecodeToken(token) == IF hour < token.exp THEN token.sub ELSE 0

AccountsTypeOK ==
  /\ hour \in Nat
  /\ userRows \in Seq(UserRow) /\ contractRows \in Seq(ContractRow) /\ auditRows \in Seq(AuditRow)
  /\ tokens \subseteq [sub : Nat, exp : Nat]
  /\ moment \in [Callers -> Moments] /\ answer \in [Callers -> Responses]
  /\ ask \in [Callers -> Asks \cup {NoToken}]
  /\ caller \in [Callers -> Nat] /\ made \in [Callers -> Nat] /\ known \in [Callers -> Nat]
  /\ hit \subseteq Callers /\ clashed \subseteq Emails

AccountsInit ==
  /\ hour = 0
  /\ userRows = [i \in DOMAIN Registered |->
                   [email |-> Registered[i][1],
                    hashed_password |-> HashPassword(Registered[i][2], Registered[i][3])]]
  /\ tokens = {CreateToken(i) : i \in DOMAIN Registered}
  /\ contractRows = <<>> /\ auditRows = <<>>
  /\ moment = [c \in Callers |-> "waiting"] /\ ask = [c \in Callers |-> NoToken]
  /\ caller = [c \in Callers |-> 0] /\ answer = [c \in Callers |-> "none"]
  /\ made = [c \in Callers |-> 0] /\ known = [c \in Callers |-> 0]
  /\ hit = {} /\ clashed = {}

-----------------------------------------------------------------------------
Proceed(c, next) == moment' = [moment EXCEPT ![c] = next] /\ UNCHANGED answer

Respond(c, response) ==
  /\ moment' = [moment EXCEPT ![c] = "answered"]
  /\ answer' = [answer EXCEPT ![c] = response]

Log(action, user, about) ==
  auditRows' = Append(auditRows, [action |-> action, user_id |-> user, about |-> about])

\* get_by_email
ByEmail(email) == {i \in DOMAIN userRows : userRows[i].email = email}

\* The rows the UNIQUE reference_code of a new one would clash with.
ByCode(code) == {i \in DOMAIN contractRows : contractRows[i].reference_code = code}

Ask(c) ==
  /\ moment[c] = "waiting"
  /\ \E a \in Asks :
        /\ ask' = [ask EXCEPT ![c] = a]
        /\ Proceed(c, CASE a.what = "register" -> "email" [] a.what = "login" -> "credentials"
                        [] OTHER -> "identify")
  /\ known' = [known EXCEPT ![c] = Len(userRows)]
  /\ UNCHANGED <<hour, rowsVars, tokens, caller, made, hit, clashed>>

-----------------------------------------------------------------------------
(* AuthService *)

\* The test before the insert.
FindEmail(c) ==
  /\ moment[c] = "email"
  /\ LET email == ask[c].email IN
       \/ ByEmail(email) # {} /\ Respond(c, "conflict") /\ UNCHANGED clashed
       \/ /\ ByEmail(email) = {} /\ Proceed(c, "user")
          /\ clashed' = clashed \cup {e \in {email} :
                          \E d \in Callers \ {c} : moment[d] = "user" /\ ask[d].email = e}
  /\ UNCHANGED <<hour, rowsVars, tokens, ask, caller, made, hit, known>>

\* A mutation of InsertUser: the column is not UNIQUE.
InsertUserAlways(c) ==
  /\ moment[c] = "user"
  /\ \E salt \in Salts :
       userRows' = Append(userRows, [email |-> ask[c].email,
                                     hashed_password |-> HashPassword(ask[c].password, salt)])
  /\ made' = [made EXCEPT ![c] = Len(userRows) + 1]
  /\ Respond(c, "created")
  /\ UNCHANGED <<hour, contractRows, auditRows, tokens, ask, caller, hit, clashed, known>>

\* email is UNIQUE: the second of two insertions is an error nobody catches.
InsertUser(c) ==
  /\ moment[c] = "user"
  /\ LET email == ask[c].email IN
       \/ /\ ByEmail(email) = {}
          /\ \E salt \in Salts :
               userRows' = Append(userRows, [email |-> email,
                                 hashed_password |-> HashPassword(ask[c].password, salt)])
          /\ made' = [made EXCEPT ![c] = Len(userRows) + 1]
          /\ Respond(c, "created")
       \/ ByEmail(email) # {} /\ Respond(c, "error") /\ UNCHANGED <<userRows, made>>
  /\ UNCHANGED <<hour, contractRows, auditRows, tokens, ask, caller, hit, clashed, known>>

\* The user is read once; the password is compared with what was read.
Authenticate(c) ==
  /\ moment[c] = "credentials"
  /\ LET found == ByEmail(ask[c].email)
         fits  == {i \in found : VerifyPassword(ask[c].password, userRows[i].hashed_password)}
     IN \/ fits # {} /\ Proceed(c, "accept") /\ \E i \in fits : caller' = [caller EXCEPT ![c] = i]
        \/ /\ fits = {} /\ Proceed(c, "reject")
           /\ \E i \in IF found = {} THEN {0} ELSE found : caller' = [caller EXCEPT ![c] = i]
  /\ UNCHANGED <<hour, rowsVars, tokens, ask, made, hit, clashed, known>>

\* The audit row, then the token.
AuditLogin(c) ==
  /\ moment[c] = "accept"
  /\ Log("USER_LOGIN", caller[c], caller[c])
  /\ tokens' = tokens \cup {CreateToken(caller[c])}
  /\ Respond(c, "welcome")
  /\ UNCHANGED <<hour, userRows, contractRows, ask, caller, made, hit, clashed, known>>

AuditLoginFailed(c) ==
  /\ moment[c] = "reject"
  /\ Log("USER_LOGIN_FAILED", caller[c], ask[c].email)
  /\ Respond(c, "unauthorized")
  /\ UNCHANGED <<hour, userRows, contractRows, tokens, ask, caller, made, hit, clashed, known>>

-----------------------------------------------------------------------------
(* Contracts *)

\* The validators of ContractCreate.
Fits(form) ==
  /\ form.total > 0 /\ form.daily > 0 /\ form.daily <= form.total
  /\ form.start <= Today
  /\ form.end # NoDate => form.end > form.start

\* get_current_user, with any token that was ever given out or with none; then the
\* body of the request is validated.
GetCurrentUser(c) ==
  /\ moment[c] = "identify"
  /\ \E token \in tokens \cup {NoToken} :
       LET user == DecodeToken(token)
           fits == ask[c].what = "create" => Fits(ask[c].form)
       IN \/ user \notin DOMAIN userRows /\ Respond(c, "unauthorized") /\ UNCHANGED caller
          \/ user \in DOMAIN userRows /\ ~fits /\ Respond(c, "invalid") /\ UNCHANGED caller
          \/ /\ user \in DOMAIN userRows /\ fits
             /\ Proceed(c, IF ask[c].what = "create" THEN "contract" ELSE "show")
             /\ caller' = [caller EXCEPT ![c] = user]
  /\ UNCHANGED <<hour, rowsVars, tokens, ask, made, hit, clashed, known>>

\* The owner comes from the token.
CreateContract(c) ==
  /\ moment[c] = "contract"
  /\ LET form == ask[c].form IN
       \/ /\ ByCode(form.code) = {}
          /\ contractRows' = Append(contractRows,
               [user_id |-> caller[c], reference_code |-> form.code, total |-> form.total,
                daily |-> form.daily, start |-> form.start, end |-> form.end])
          /\ made' = [made EXCEPT ![c] = Len(contractRows) + 1]
          /\ Proceed(c, "record")
       \/ ByCode(form.code) # {} /\ Respond(c, "conflict") /\ UNCHANGED <<contractRows, made>>
  /\ UNCHANGED <<hour, userRows, auditRows, tokens, ask, caller, hit, clashed, known>>

AuditContract(c) ==
  /\ moment[c] = "record"
  /\ Log("CONTRACT_CREATED", caller[c], made[c])
  /\ Respond(c, "created")
  /\ UNCHANGED <<hour, userRows, contractRows, tokens, ask, caller, made, hit, clashed, known>>

\* get_by_id_for_user
Owned(user) == {i \in DOMAIN contractRows : contractRows[i].user_id = user}

\* require_owned_contract: another user's contract is not told from a missing one.
ShowContract(c) ==
  /\ moment[c] = "show"
  /\ Respond(c, IF ask[c].contract \in Owned(caller[c]) THEN "shown" ELSE "missing")
  /\ UNCHANGED <<hour, rowsVars, tokens, ask, caller, made, hit, clashed, known>>

-----------------------------------------------------------------------------
\* An exception or a crash before, between or behind the commits: what is committed stays,
\* and the answer that was to be given is not.
CallFails(c) ==
  /\ moment[c] # "waiting" /\ c \notin hit
  /\ Cardinality(hit) < MaxErrors /\ hit' = hit \cup {c}
  /\ Respond(c, "error")
  /\ UNCHANGED <<hour, rowsVars, tokens, ask, caller, made, clashed, known>>

HourPasses ==
  /\ hour < MaxHour /\ hour' = hour + 1
  /\ UNCHANGED <<rowsVars, tokens, moment, ask, caller, answer, made, hit, clashed, known>>

Call(c) ==
  \/ Ask(c) \/ FindEmail(c) \/ InsertUser(c) \/ Authenticate(c) \/ AuditLogin(c)
  \/ AuditLoginFailed(c) \/ GetCurrentUser(c) \/ CreateContract(c) \/ AuditContract(c)
  \/ ShowContract(c) \/ CallFails(c)

AccountsNext == (\E c \in Callers : Call(c)) \/ HourPasses

-----------------------------------------------------------------------------
(* Properties *)

Logged(action, user, about) ==
  \E k \in DOMAIN auditRows :
     auditRows[k] = [action |-> action, user_id |-> user, about |-> about]

HasCredentials(i, a) ==
  userRows[i].email = a.email /\ VerifyPassword(a.password, userRows[i].hashed_password)

RegistrationIsTrue(c) ==
  LET a == ask[c] IN
  /\ answer[c] = "created" => ByEmail(a.email) = {made[c]} /\ HasCredentials(made[c], a)
  /\ answer[c] = "conflict" => made[c] = 0 /\ ByEmail(a.email) # {}
  /\ answer[c] = "error" /\ c \notin hit => made[c] = 0 /\ a.email \in clashed

LoginIsTrue(c) ==
  LET a == ask[c] IN
  /\ answer[c] = "welcome" => HasCredentials(caller[c], a) /\ Logged("USER_LOGIN", caller[c], caller[c])
  /\ answer[c] = "unauthorized" =>
       /\ \A i \in 1..known[c] : ~HasCredentials(i, a)
       /\ Logged("USER_LOGIN_FAILED", caller[c], a.email)
  /\ answer[c] = "error" => c \in hit

CreationIsTrue(c) ==
  LET a == ask[c] IN
  /\ answer[c] = "created" =>
       /\ ByCode(a.form.code) = {made[c]} /\ made[c] \in Owned(caller[c])
       /\ Logged("CONTRACT_CREATED", caller[c], made[c])
  /\ answer[c] = "conflict" =>
       made[c] = 0 /\ \E d \in Callers \ {c} : made[d] \in ByCode(a.form.code)
  /\ answer[c] = "error" => c \in hit

\* However requests cross, fail between two commits, or outlive a token, each is told what
\* became of it: a registration or a contract that is "created" is the only row of its e-mail or
\* code, and its caller's; a conflict is with somebody else's row and has written nothing; a
\* login is refused only if nobody had its credentials when it came in, and no outcome
\* of a login, and no contract, stays without its audit row, unless an error or a
\* crash came in between. A registration ends in an error by itself only if it
\* crossed another one.
AnswersAreTrue ==
  /\ \A c \in Callers :
       /\ ask[c] \in Asking("register") => RegistrationIsTrue(c)
       /\ ask[c] \in Asking("login")    => LoginIsTrue(c)
       /\ ask[c] \in Asking("create")   => CreationIsTrue(c)
       /\ ask[c] \in Asking("show") /\ answer[c] = "shown" => ask[c].contract \in Owned(caller[c])
  /\ \A i \in DOMAIN contractRows :
       \/ Logged("CONTRACT_CREATED", contractRows[i].user_id, i)
       \/ \E c \in Callers : /\ ask[c] \in Asking("create") /\ made[c] = i
                             /\ moment[c] = "record" \/ c \in hit

=============================================================================

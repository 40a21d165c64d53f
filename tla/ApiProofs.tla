-------------------------------- MODULE ApiProofs --------------------------------
(***************************************************************************)
(* Proofs about the scenes of Api, for any number of requests, turns,        *)
(* analysts, users, contracts, payments, messages and failures: the accounts,*)
(* the memory shared by chats and jobs, the turns of the assistant, the      *)
(* limiter, the figures of an analysis, the runs of the job, and the walks    *)
(* through a list.                                                         *)
(***************************************************************************)
EXTENDS Api, MoneyTheorems, SequenceTheorems, TLAPS

-----------------------------------------------------------------------------
(***************************************************************************)
(* The accounts.                                                           *)
(*                                                                         *)
(* The argument: rows are only ever added, and never under an e-mail or a     *)
(* code that has one, so that what a request was told stays true. What it is   *)
(* told is true at that moment because of what it knows at the stage before    *)
(* (Knows). A registration that finds its e-mail taken after it had found it    *)
(* free has crossed another one (Crossing), and a code that is taken was taken *)
(* by a request (ContractsMade).                                            *)
(***************************************************************************)

\* What a stage belongs to.
Suits(c) ==
  /\ moment[c] \in {"email", "user"} => ask[c] \in Asking("register")
  /\ moment[c] \in {"credentials", "accept", "reject"} => ask[c] \in Asking("login")
  /\ moment[c] \in {"contract", "record"} => ask[c] \in Asking("create")
  /\ moment[c] = "show" => ask[c] \in Asking("show")
  /\ moment[c] = "identify" => ask[c] \in Asking("create") \cup Asking("show")
  /\ answer[c] = "none" <=> moment[c] # "answered"

KnowsRegistration(c) ==
  /\ RegistrationIsTrue(c)
  /\ made[c] # 0 => moment[c] = "answered"
  /\ moment[c] = "user" /\ ByEmail(ask[c].email) # {} => ask[c].email \in clashed

KnowsLogin(c) ==
  /\ LoginIsTrue(c)
  /\ moment[c] = "accept" \/ answer[c] = "welcome" =>
       caller[c] \in DOMAIN userRows /\ HasCredentials(caller[c], ask[c])
  /\ moment[c] = "reject" => \A i \in 1..known[c] : ~HasCredentials(i, ask[c])
  /\ known[c] <= Len(userRows)

KnowsCreation(c) ==
  /\ CreationIsTrue(c)
  /\ made[c] # 0 => /\ moment[c] \in {"record", "answered"}
                    /\ ByCode(ask[c].form.code) = {made[c]} /\ made[c] \in Owned(caller[c])
  /\ moment[c] = "record" => made[c] # 0

\* What a request knows at its stage, and was told.
Knows(c) ==
  /\ Suits(c)
  /\ moment[c] = "waiting" => made[c] = 0
  /\ moment[c] # "waiting" =>
       /\ ask[c] \in Asking("register") => KnowsRegistration(c)
       /\ ask[c] \in Asking("login")    => KnowsLogin(c)
       /\ ask[c] \in Asking("create")   => KnowsCreation(c)
       /\ ask[c] \in Asking("show") /\ answer[c] = "shown" => ask[c].contract \in Owned(caller[c])

\* Two registrations of one e-mail that both found it free have crossed.
Crossing ==
  \A c, d \in Callers :
    c # d /\ moment[c] = "user" /\ moment[d] = "user" /\ ask[c].email = ask[d].email
      => ask[c].email \in clashed

\* Every contract was created by a request, and has its audit row or awaits it.
ContractsMade ==
  \A i \in DOMAIN contractRows :
    \E c \in Callers :
      /\ moment[c] # "waiting" /\ ask[c] \in Asking("create") /\ made[c] = i
      /\ \/ Logged("CONTRACT_CREATED", contractRows[i].user_id, i)
         \/ moment[c] = "record" \/ c \in hit

AccountsInv ==
  /\ AccountsTypeOK
  /\ \A c \in Callers : Knows(c)
  /\ Crossing
  /\ ContractsMade

\* The invariant has the property as a part.
LEMMA InvEnough == AccountsInv => AnswersAreTrue
<1> SUFFICES ASSUME AccountsInv PROVE AnswersAreTrue
  OBVIOUS
<1>1. ASSUME NEW c \in Callers
      PROVE  /\ ask[c] \in Asking("register") => RegistrationIsTrue(c)
             /\ ask[c] \in Asking("login")    => LoginIsTrue(c)
             /\ ask[c] \in Asking("create")   => CreationIsTrue(c)
             /\ ask[c] \in Asking("show") /\ answer[c] = "shown" =>
                  ask[c].contract \in Owned(caller[c])
  <2>1. Knows(c)
    BY DEF AccountsInv
  <2>2. CASE moment[c] = "waiting"
    <3>1. answer[c] = "none"
      BY <2>1, <2>2 DEF Knows, Suits
    <3> QED
      BY <3>1 DEF RegistrationIsTrue, LoginIsTrue, CreationIsTrue
  <2>3. CASE moment[c] # "waiting"
    BY <2>1, <2>3 DEF Knows, KnowsRegistration, KnowsLogin, KnowsCreation
  <2> QED
    BY <2>2, <2>3
<1>2. ASSUME NEW i \in DOMAIN contractRows
      PROVE  \/ Logged("CONTRACT_CREATED", contractRows[i].user_id, i)
             \/ \E c \in Callers : /\ ask[c] \in Asking("create") /\ made[c] = i
                                   /\ moment[c] = "record" \/ c \in hit
  BY DEF AccountsInv, ContractsMade
<1> QED
  BY <1>1, <1>2 DEF AnswersAreTrue

-----------------------------------------------------------------------------
(* Rows are only added, and never a second of an e-mail or a code; a request makes one. *)

Added ==
  /\ Len(userRows) <= Len(userRows')
  /\ \A i \in DOMAIN userRows : i \in DOMAIN userRows' /\ userRows'[i] = userRows[i]
  /\ \A i \in DOMAIN userRows' \ DOMAIN userRows : ByEmail(userRows'[i].email) = {}
  /\ \A i \in DOMAIN contractRows :
       i \in DOMAIN contractRows' /\ contractRows'[i] = contractRows[i]
  /\ \A i \in DOMAIN contractRows' \ DOMAIN contractRows :
       ByCode(contractRows'[i].reference_code) = {}
  /\ \A k \in DOMAIN auditRows : k \in DOMAIN auditRows' /\ auditRows'[k] = auditRows[k]
  /\ \A c \in Callers : made[c] # 0 => made'[c] = made[c]
  /\ clashed \subseteq clashed'

\* A request that another one's step leaves alone.
Spared(d) ==
  /\ moment'[d] = moment[d] /\ answer'[d] = answer[d] /\ ask'[d] = ask[d]
  /\ caller'[d] = caller[d] /\ made'[d] = made[d] /\ known'[d] = known[d]
  /\ d \in hit => d \in hit'
  /\ d \in hit' => d \in hit

\* An appended row.
LEMMA AppendRow ==
  ASSUME NEW S, NEW s \in Seq(S), NEW e \in S
  PROVE  /\ Append(s, e) \in Seq(S) /\ Len(Append(s, e)) = Len(s) + 1
         /\ DOMAIN Append(s, e) = DOMAIN s \cup {Len(s) + 1}
         /\ Len(s) + 1 \notin DOMAIN s
         /\ \A i \in DOMAIN s : Append(s, e)[i] = s[i]
         /\ Append(s, e)[Len(s) + 1] = e
  OBVIOUS

\* What is on record stays on record.
LEMMA AddedKeeps ==
  ASSUME Added, AccountsTypeOK
  PROVE  /\ \A e : ByEmail(e) # {} => ByEmail(e)' = ByEmail(e)
         /\ \A e : ByCode(e) # {} => ByCode(e)' = ByCode(e)
         /\ \A a, u, b : Logged(a, u, b) => Logged(a, u, b)'
         /\ \A u : Owned(u) \subseteq Owned(u)'
<1>1. \A e : ByEmail(e) # {} => ByEmail(e)' = ByEmail(e)
  <2> TAKE e
  <2> HAVE ByEmail(e) # {}
  <2>1. \A i : i \in ByEmail(e) => i \in ByEmail(e)'
    BY DEF Added, ByEmail
  <2>2. ASSUME NEW i, i \in ByEmail(e)' PROVE i \in ByEmail(e)
    <3>1. i \in DOMAIN userRows' /\ userRows'[i].email = e
      BY <2>2 DEF ByEmail
    <3>2. i \in DOMAIN userRows
      BY <3>1 DEF Added
    <3> QED
      BY <3>1, <3>2 DEF Added, ByEmail
  <2> QED
    BY <2>1, <2>2
<1>2. \A e : ByCode(e) # {} => ByCode(e)' = ByCode(e)
  <2> TAKE e
  <2> HAVE ByCode(e) # {}
  <2>1. \A i : i \in ByCode(e) => i \in ByCode(e)'
    BY DEF Added, ByCode
  <2>2. ASSUME NEW i, i \in ByCode(e)' PROVE i \in ByCode(e)
    <3>1. i \in DOMAIN contractRows' /\ contractRows'[i].reference_code = e
      BY <2>2 DEF ByCode
    <3>2. i \in DOMAIN contractRows
      BY <3>1 DEF Added
    <3> QED
      BY <3>1, <3>2 DEF Added, ByCode
  <2> QED
    BY <2>1, <2>2
<1>3. \A a, u, b : Logged(a, u, b) => Logged(a, u, b)'
  BY DEF Added, Logged
<1>4. \A u : Owned(u) \subseteq Owned(u)'
  BY DEF Added, Owned
<1> QED
  BY <1>1, <1>2, <1>3, <1>4

\* Unless somebody registers the e-mail it has found free.
LEMMA OthersKnow ==
  ASSUME AccountsTypeOK, Added, NEW d \in Callers, Spared(d), Knows(d),
         moment[d] = "user" =>
           ByEmail(ask[d].email)' = ByEmail(ask[d].email) \/ ask[d].email \in clashed'
  PROVE  Knows(d)'
<1> USE DEF Spared
<1>1. Suits(d)'
  BY DEF Knows, Suits, Asking
<1>2. CASE moment[d] = "waiting"
  BY <1>1, <1>2 DEF Knows
<1>3. CASE moment[d] # "waiting"
  <2>1. ASSUME ask[d] \in Asking("register") PROVE KnowsRegistration(d)'
    <3>1. KnowsRegistration(d)
      BY <1>3, <2>1 DEF Knows
    <3>2. RegistrationIsTrue(d)'
      <4>1. ASSUME answer[d] = "created"
            PROVE  ByEmail(ask[d].email)' = {made[d]} /\ HasCredentials(made[d], ask[d])'
        <5>1. ByEmail(ask[d].email) = {made[d]} /\ HasCredentials(made[d], ask[d])
          BY <3>1, <4>1 DEF KnowsRegistration, RegistrationIsTrue
        <5>2. made[d] \in DOMAIN userRows
          BY <5>1 DEF ByEmail
        <5> QED
          BY <5>1, <5>2, AddedKeeps DEF Added, HasCredentials, VerifyPassword, HashPassword
      <4>2. ASSUME answer[d] = "conflict" PROVE made[d] = 0 /\ ByEmail(ask[d].email)' # {}
        <5>1. made[d] = 0 /\ ByEmail(ask[d].email) # {}
          BY <3>1, <4>2 DEF KnowsRegistration, RegistrationIsTrue
        <5> QED
          BY <5>1, AddedKeeps
      <4>3. ASSUME answer[d] = "error", d \notin hit'
            PROVE  made[d] = 0 /\ ask[d].email \in clashed'
        BY <3>1, <4>3 DEF KnowsRegistration, RegistrationIsTrue, Added
      <4> QED
        BY <4>1, <4>2, <4>3 DEF RegistrationIsTrue
    <3>3. moment[d] = "user" /\ ByEmail(ask[d].email)' # {} => ask[d].email \in clashed'
      BY <3>1 DEF KnowsRegistration, Added
    <3> QED
      BY <3>1, <3>2, <3>3 DEF KnowsRegistration
  <2>2. ASSUME ask[d] \in Asking("login") PROVE KnowsLogin(d)'
    <3>1. KnowsLogin(d)
      BY <1>3, <2>2 DEF Knows
    <3>2. \A i \in DOMAIN userRows : HasCredentials(i, ask[d])' <=> HasCredentials(i, ask[d])
      BY DEF Added, HasCredentials, VerifyPassword, HashPassword
    <3>3. 1..known[d] \subseteq DOMAIN userRows
      BY <3>1 DEF KnowsLogin, AccountsTypeOK
    <3>4. LoginIsTrue(d)'
      <4>1. ASSUME answer[d] = "welcome"
            PROVE  /\ HasCredentials(caller[d], ask[d])'
                   /\ Logged("USER_LOGIN", caller[d], caller[d])'
        BY <3>1, <3>2, <4>1, AddedKeeps DEF KnowsLogin, LoginIsTrue
      <4>2. ASSUME answer[d] = "unauthorized"
            PROVE  /\ \A i \in 1..known[d] : ~HasCredentials(i, ask[d])'
                   /\ Logged("USER_LOGIN_FAILED", caller[d], ask[d].email)'
        BY <3>1, <3>2, <3>3, <4>2, AddedKeeps DEF KnowsLogin, LoginIsTrue
      <4>3. answer[d] = "error" => d \in hit'
        BY <3>1 DEF KnowsLogin, LoginIsTrue
      <4> QED
        BY <4>1, <4>2, <4>3 DEF LoginIsTrue
    <3>5. moment[d] = "accept" \/ answer[d] = "welcome" =>
            caller[d] \in DOMAIN userRows' /\ HasCredentials(caller[d], ask[d])'
      BY <3>1, <3>2 DEF KnowsLogin, Added
    <3>6. moment[d] = "reject" => \A i \in 1..known[d] : ~HasCredentials(i, ask[d])'
      BY <3>1, <3>2, <3>3 DEF KnowsLogin
    <3>7. known[d] <= Len(userRows')
      BY <3>1 DEF KnowsLogin, Added, AccountsTypeOK
    <3> QED
      BY <3>4, <3>5, <3>6, <3>7 DEF KnowsLogin
  <2>3. ASSUME ask[d] \in Asking("create") PROVE KnowsCreation(d)'
    <3>1. KnowsCreation(d)
      BY <1>3, <2>3 DEF Knows
    <3>2. made[d] # 0 => ByCode(ask[d].form.code)' = {made[d]} /\ made[d] \in Owned(caller[d])'
      BY <3>1, AddedKeeps DEF KnowsCreation
    <3>3. CreationIsTrue(d)'
      <4>1. ASSUME answer[d] = "created"
            PROVE  /\ ByCode(ask[d].form.code)' = {made[d]} /\ made[d] \in Owned(caller[d])'
                   /\ Logged("CONTRACT_CREATED", caller[d], made[d])'
        <5>1. /\ ByCode(ask[d].form.code) = {made[d]} /\ made[d] \in Owned(caller[d])
              /\ Logged("CONTRACT_CREATED", caller[d], made[d])
          BY <3>1, <4>1 DEF KnowsCreation, CreationIsTrue
        <5> QED
          BY <5>1, AddedKeeps
      <4>2. ASSUME answer[d] = "conflict"
            PROVE  /\ made[d] = 0
                   /\ \E e \in Callers \ {d} : made'[e] \in ByCode(ask[d].form.code)'
        <5>1. PICK e \in Callers \ {d} : made[e] \in ByCode(ask[d].form.code)
          BY <3>1, <4>2 DEF KnowsCreation, CreationIsTrue
        <5>2. made[e] # 0
          BY <5>1 DEF ByCode, AccountsTypeOK
        <5>3. made'[e] = made[e]
          BY <5>2 DEF Added
        <5>4. ByCode(ask[d].form.code)' = ByCode(ask[d].form.code)
          BY <5>1, AddedKeeps
        <5>5. made[d] = 0
          BY <3>1, <4>2 DEF KnowsCreation, CreationIsTrue
        <5> QED
          BY <5>1, <5>3, <5>4, <5>5
      <4>3. answer[d] = "error" => d \in hit'
        BY <3>1 DEF KnowsCreation, CreationIsTrue
      <4> QED
        BY <4>1, <4>2, <4>3 DEF CreationIsTrue
    <3> QED
      BY <3>1, <3>2, <3>3 DEF KnowsCreation
  <2>4. ask[d] \in Asking("show") /\ answer[d] = "shown" =>
          ask[d].contract \in Owned(caller[d])'
    BY <1>3, AddedKeeps DEF Knows
  <2>5. \A w : Asking(w)' = Asking(w)
    BY DEF Asking
  <2> QED
    BY <1>1, <1>3, <2>1, <2>2, <2>3, <2>4, <2>5 DEF Knows
<1> QED
  BY <1>2, <1>3

-----------------------------------------------------------------------------
(* Steps *)

\* A step that brings no caller to the insertion of a user leaves the crossings true.
LEMMA CrossingKeeps ==
  ASSUME Crossing, clashed \subseteq clashed', NEW c \in Callers,
         \A d \in Callers \ {c} : Spared(d),
         moment'[c] # "user"
  PROVE  Crossing'
  BY DEF Crossing, Spared

\* A step that stores no contract leaves each stored one with its audit row or its request.
LEMMA MadeKeeps ==
  ASSUME AccountsTypeOK, ContractsMade, Added, NEW c \in Callers,
         \A d \in Callers \ {c} : Spared(d),
         Knows(c), contractRows' = contractRows, hit \subseteq hit',
         moment[c] # "waiting" => moment'[c] # "waiting" /\ ask'[c] = ask[c],
         moment[c] = "record" =>
           \/ moment'[c] = "record" \/ c \in hit'
           \/ caller'[c] = caller[c] /\ Logged("CONTRACT_CREATED", caller[c], made[c])'
  PROVE  ContractsMade'
<1> SUFFICES ASSUME NEW i \in DOMAIN contractRows
             PROVE  \E d \in Callers :
                      /\ moment'[d] # "waiting" /\ ask'[d] \in Asking("create") /\ made'[d] = i
                      /\ \/ Logged("CONTRACT_CREATED", contractRows[i].user_id, i)'
                         \/ moment'[d] = "record" \/ d \in hit'
  BY DEF ContractsMade, Asking
<1>1. PICK d \in Callers :
        /\ moment[d] # "waiting" /\ ask[d] \in Asking("create") /\ made[d] = i
        /\ \/ Logged("CONTRACT_CREATED", contractRows[i].user_id, i)
           \/ moment[d] = "record" \/ d \in hit
  BY DEF ContractsMade
<1>2. made'[d] = i
  <2>1. made[d] # 0
    BY <1>1 DEF AccountsTypeOK
  <2> QED
    BY <1>1, <2>1 DEF Added
<1>3. moment'[d] # "waiting" /\ ask'[d] = ask[d]
  BY <1>1 DEF Spared
<1>4. Logged("CONTRACT_CREATED", contractRows[i].user_id, i) =>
        Logged("CONTRACT_CREATED", contractRows[i].user_id, i)'
  BY AddedKeeps
<1>5. CASE moment[d] = "record" /\ d = c
  <2>1. made[c] \in Owned(caller[c])
    BY <1>1, <1>5 DEF Knows, KnowsCreation
  <2>2. contractRows[i].user_id = caller[c]
    BY <1>1, <1>5, <2>1 DEF Owned
  <2>3. CASE moment'[c] = "record" \/ c \in hit'
    BY <1>1, <1>2, <1>3, <1>5, <2>3
  <2>4. CASE caller'[c] = caller[c] /\ Logged("CONTRACT_CREATED", caller[c], made[c])'
    <3>1. Logged("CONTRACT_CREATED", contractRows[i].user_id, i)'
      BY <1>2, <1>5, <2>2, <2>4
    <3> QED
      BY <1>1, <1>2, <1>3, <3>1
  <2> QED
    BY <1>5, <2>3, <2>4
<1>6. CASE ~(moment[d] = "record" /\ d = c)
  BY <1>1, <1>2, <1>3, <1>4, <1>6 DEF Spared
<1> QED
  BY <1>5, <1>6

\* A step of c that stores no user and no contract.
LEMMA QuietKeeps ==
  ASSUME AccountsInv, AccountsTypeOK', Added, NEW c \in Callers,
         UNCHANGED <<userRows, contractRows>>, hit \subseteq hit',
         \A d \in Callers \ {c} : Spared(d),
         Knows(c)', Crossing',
         moment[c] # "waiting" => moment'[c] # "waiting" /\ ask'[c] = ask[c],
         moment[c] = "record" =>
           \/ c \in hit'
           \/ caller'[c] = caller[c] /\ Logged("CONTRACT_CREATED", caller[c], made[c])'
  PROVE  AccountsInv'
<1>1. \A d \in Callers : ByEmail(ask[d].email)' = ByEmail(ask'[d].email)
  BY DEF ByEmail
<1>2. ASSUME NEW d \in Callers \ {c} PROVE Knows(d)'
  <2>1. ByEmail(ask[d].email)' = ByEmail(ask[d].email)
    BY <1>2, <1>1 DEF Spared
  <2> QED
    BY <1>2, <2>1, OthersKnow DEF AccountsInv
<1>3. ContractsMade'
  BY MadeKeeps DEF AccountsInv
<1> QED
  BY <1>2, <1>3 DEF AccountsInv

\* A step that writes no row adds none.
LEMMA NothingAdded ==
  ASSUME AccountsTypeOK, UNCHANGED <<rowsVars, made>>, clashed \subseteq clashed'
  PROVE  Added
  BY DEF Added, AccountsTypeOK, rowsVars

\* An audit row.
LEMMA LogAdds ==
  ASSUME AccountsTypeOK, NEW action, NEW user, NEW about,
         [action |-> action, user_id |-> user, about |-> about] \in AuditRow,
         Log(action, user, about), UNCHANGED <<userRows, contractRows, made, clashed>>
  PROVE  Added /\ Logged(action, user, about)' /\ auditRows' \in Seq(AuditRow)
<1> DEFINE row == [action |-> action, user_id |-> user, about |-> about]
<1>1. auditRows \in Seq(AuditRow) /\ auditRows' = Append(auditRows, row)
  BY DEF AccountsTypeOK, Log
<1>2. /\ auditRows' \in Seq(AuditRow)
      /\ DOMAIN auditRows' = DOMAIN auditRows \cup {Len(auditRows) + 1}
      /\ \A k \in DOMAIN auditRows : auditRows'[k] = auditRows[k]
      /\ auditRows'[Len(auditRows) + 1] = row
  BY <1>1, AppendRow
<1>3. Added
  BY <1>2 DEF Added, AccountsTypeOK
<1>4. Logged(action, user, about)'
  BY <1>2 DEF Logged
<1> QED
  BY <1>2, <1>3, <1>4

\* A request begins.
LEMMA AskKeeps ==
  ASSUME AccountsInv, NEW c \in Callers, Ask(c)
  PROVE  AccountsInv'
<1>1. PICK a \in Asks :
        /\ ask' = [ask EXCEPT ![c] = a]
        /\ Proceed(c, CASE a.what = "register" -> "email" [] a.what = "login" -> "credentials"
                        [] OTHER -> "identify")
  BY DEF Ask
<1>2. a.what \in {"register", "login", "create", "show"} /\ a \in Asking(a.what)
  BY AccountsAssumption DEF Asking
<1>3. /\ moment'[c] \in {"email", "credentials", "identify"}
      /\ moment'[c] = "email" <=> a.what = "register"
      /\ moment'[c] = "credentials" <=> a.what = "login"
      /\ ask'[c] = a /\ answer'[c] = answer[c]
  BY <1>1, <1>2 DEF AccountsInv, AccountsTypeOK, Proceed
<1>4. moment[c] = "waiting" /\ answer[c] = "none" /\ made[c] = 0
  BY DEF Ask, AccountsInv, Knows, Suits
<1>5. AccountsTypeOK'
  BY <1>1, <1>3 DEF Ask, AccountsInv, AccountsTypeOK, Proceed, Moments, rowsVars
<1>6. known'[c] = Len(userRows)
  BY DEF Ask, AccountsInv, AccountsTypeOK
<1>7. Knows(c)'
  <2>1. made'[c] = 0 /\ answer'[c] = "none"
    BY <1>3, <1>4 DEF Ask
  <2>2. Suits(c)'
    BY <1>2, <1>3, <2>1 DEF Suits, Asking
  <2>3. KnowsRegistration(c)' /\ KnowsCreation(c)'
    BY <1>3, <2>1 DEF KnowsRegistration, KnowsCreation, RegistrationIsTrue, CreationIsTrue
  <2>4. KnowsLogin(c)'
    BY <1>3, <1>6, <2>1 DEF KnowsLogin, LoginIsTrue, Ask, rowsVars, AccountsInv, AccountsTypeOK
  <2> QED
    BY <1>3, <2>1, <2>2, <2>3, <2>4 DEF Knows
<1>8. \A d \in Callers \ {c} : Spared(d)
  BY <1>1 DEF Spared, Ask, Proceed, AccountsInv, AccountsTypeOK
<1>9. Crossing'
  BY <1>3, <1>8, CrossingKeeps DEF Ask, AccountsInv
<1> QED
  <2>1. Added
    BY NothingAdded DEF Ask, AccountsInv
  <2> QED
    BY <2>1, <1>4, <1>5, <1>7, <1>8, <1>9, QuietKeeps DEF Ask, rowsVars

\* A registration looks for its e-mail.
LEMMA FindEmailKeeps ==
  ASSUME AccountsInv, NEW c \in Callers, FindEmail(c)
  PROVE  AccountsInv'
<1>1. moment[c] = "email" /\ answer[c] = "none" /\ made[c] = 0 /\ ask[c] \in Asking("register")
  <2>1. Knows(c)
    BY DEF AccountsInv
  <2> QED
    BY <2>1 DEF FindEmail, Knows, Suits, KnowsRegistration
<1>2. AccountsTypeOK'
  <2>1. ask[c].email \in Emails
    BY <1>1, AccountsAssumption
  <2>2. clashed' \subseteq Emails
    BY <2>1 DEF FindEmail, AccountsInv, AccountsTypeOK
  <2> QED
    BY <2>2 DEF FindEmail, AccountsInv, AccountsTypeOK, Proceed, Respond, Moments, Responses,
                rowsVars
<1>3. \A d \in Callers \ {c} : Spared(d)
  BY DEF Spared, FindEmail, Proceed, Respond, AccountsInv, AccountsTypeOK
<1>4. Knows(c)'
  <2>1. ask'[c] = ask[c] /\ made'[c] = 0 /\ ask[c].what = "register"
    BY <1>1 DEF FindEmail, Asking
  <2>2. \/ ByEmail(ask[c].email) # {} /\ moment'[c] = "answered" /\ answer'[c] = "conflict"
        \/ ByEmail(ask[c].email) = {} /\ moment'[c] = "user" /\ answer'[c] = "none"
    BY <1>1 DEF FindEmail, Proceed, Respond, AccountsInv, AccountsTypeOK
  <2>3. Suits(c)'
    BY <1>1, <2>1, <2>2 DEF Suits, Asking
  <2>4. ByEmail(ask[c].email)' = ByEmail(ask[c].email)
    BY <2>1 DEF FindEmail, ByEmail, rowsVars
  <2>5. KnowsRegistration(c)'
    BY <2>1, <2>2, <2>4 DEF KnowsRegistration, RegistrationIsTrue
  <2> QED
    BY <2>1, <2>2, <2>3, <2>5 DEF Knows, Asking
<1>5. Crossing'
  <2> SUFFICES ASSUME NEW d \in Callers, NEW e \in Callers, d # e,
                      moment'[d] = "user", moment'[e] = "user", ask'[d].email = ask'[e].email
               PROVE  ask'[d].email \in clashed'
    BY DEF Crossing
  <2>1. CASE c \notin {d, e}
    BY <1>3, <2>1 DEF Spared, FindEmail, AccountsInv, Crossing
  <2>2. CASE c \in {d, e}
    <3>1. ByEmail(ask[c].email) = {}
      BY <1>1, <2>2 DEF FindEmail, Respond, AccountsInv, AccountsTypeOK
    <3>2. PICK f \in Callers \ {c} : moment[f] = "user" /\ ask[f].email = ask[c].email
      BY <1>3, <2>2 DEF Spared, FindEmail
    <3>3. ask[c].email \in clashed'
      BY <3>1, <3>2 DEF FindEmail
    <3> QED
      BY <2>2, <3>3 DEF FindEmail
  <2> QED
    BY <2>1, <2>2
<1>6. clashed \subseteq clashed' /\ moment'[c] # "waiting"
  BY DEF FindEmail, Proceed, Respond, AccountsInv, AccountsTypeOK
<1> QED
  <2>1. Added
    BY <1>6, NothingAdded DEF FindEmail, AccountsInv
  <2> QED
    BY <2>1, <1>1, <1>2, <1>3, <1>4, <1>5, <1>6, QuietKeeps DEF FindEmail, rowsVars

\* The user, or 0: what was read when nothing was found.
LEMMA AuthenticateKeeps ==
  ASSUME AccountsInv, NEW c \in Callers, Authenticate(c)
  PROVE  AccountsInv'
<1> DEFINE holders == ByEmail(ask[c].email)
           fits  == {i \in holders : VerifyPassword(ask[c].password, userRows[i].hashed_password)}
<1>1. /\ moment[c] = "credentials" /\ answer[c] = "none"
      /\ ask[c] \in Asking("login") /\ known[c] <= Len(userRows)
  <2>1. Knows(c)
    BY DEF AccountsInv
  <2>2. moment[c] = "credentials" /\ answer[c] = "none" /\ ask[c] \in Asking("login")
    BY <2>1 DEF Authenticate, Knows, Suits
  <2>3. KnowsLogin(c)
    BY <2>1, <2>2 DEF Knows
  <2> QED
    BY <2>2, <2>3 DEF KnowsLogin
<1>2. PICK i \in Nat :
        /\ caller' = [caller EXCEPT ![c] = i] /\ UNCHANGED answer
        /\ \/ moment' = [moment EXCEPT ![c] = "accept"] /\ i \in fits
           \/ moment' = [moment EXCEPT ![c] = "reject"] /\ fits = {}
  <2>1. holders \subseteq Nat /\ fits \subseteq holders
    BY DEF ByEmail, AccountsInv, AccountsTypeOK
  <2>2. CASE /\ fits # {} /\ Proceed(c, "accept")
             /\ \E i \in fits : caller' = [caller EXCEPT ![c] = i]
    BY <2>1, <2>2 DEF Proceed
  <2>3. CASE /\ fits = {} /\ Proceed(c, "reject")
             /\ \E i \in IF holders = {} THEN {0} ELSE holders : caller' = [caller EXCEPT ![c] = i]
    BY <2>1, <2>3 DEF Proceed
  <2> QED
    BY <2>2, <2>3 DEF Authenticate
<1>3. AccountsTypeOK'
  BY <1>2 DEF Authenticate, AccountsInv, AccountsTypeOK, Moments, rowsVars
<1>4. \A d \in Callers \ {c} : Spared(d)
  BY <1>2 DEF Spared, Authenticate, AccountsInv, AccountsTypeOK
<1>5. Knows(c)'
  <2>1. /\ ask'[c] = ask[c] /\ ask[c].what = "login" /\ answer'[c] = "none"
        /\ moment'[c] \in {"accept", "reject"} /\ caller'[c] = i
    BY <1>1, <1>2 DEF Authenticate, Asking, AccountsInv, AccountsTypeOK
  <2>2. Suits(c)'
    BY <1>1, <2>1 DEF Suits, Asking
  <2>3. ASSUME moment'[c] = "accept"
        PROVE  i \in DOMAIN userRows /\ HasCredentials(i, ask[c])
    BY <1>2, <2>3 DEF ByEmail, HasCredentials, AccountsInv, AccountsTypeOK
  <2>4. ASSUME moment'[c] = "reject", NEW j \in 1..known[c]
        PROVE  ~HasCredentials(j, ask[c])
    <3>1. fits = {}
      BY <1>2, <2>4 DEF AccountsInv, AccountsTypeOK
    <3>2. j \in DOMAIN userRows
      BY <1>1 DEF AccountsInv, AccountsTypeOK
    <3> QED
      BY <3>1, <3>2 DEF ByEmail, HasCredentials
  <2>5. KnowsLogin(c)'
    BY <1>1, <2>1, <2>3, <2>4
       DEF KnowsLogin, LoginIsTrue, Authenticate, rowsVars, HasCredentials, VerifyPassword,
           HashPassword
  <2> QED
    BY <2>1, <2>2, <2>5 DEF Knows, Asking
<1>6. Crossing' /\ Added
  <2>1. moment'[c] # "user" /\ clashed' = clashed
    BY <1>2 DEF Authenticate, AccountsInv, AccountsTypeOK
  <2> QED
    BY <1>4, <2>1, CrossingKeeps, NothingAdded DEF Authenticate, AccountsInv
<1>7. moment'[c] # "waiting"
  BY <1>2 DEF AccountsInv, AccountsTypeOK
<1> QED
  BY <1>1, <1>3, <1>4, <1>5, <1>6, <1>7, QuietKeeps DEF Authenticate, rowsVars

\* A login is put on record and answered with a token.
LEMMA AuditLoginKeeps ==
  ASSUME AccountsInv, NEW c \in Callers, AuditLogin(c)
  PROVE  AccountsInv'
<1>1. /\ moment[c] = "accept" /\ ask[c] \in Asking("login") /\ known[c] <= Len(userRows)
      /\ caller[c] \in DOMAIN userRows /\ HasCredentials(caller[c], ask[c])
  <2>1. Knows(c)
    BY DEF AccountsInv
  <2>2. moment[c] = "accept" /\ ask[c] \in Asking("login")
    BY <2>1 DEF AuditLogin, Knows, Suits
  <2>3. KnowsLogin(c)
    BY <2>1, <2>2 DEF Knows
  <2> QED
    BY <2>2, <2>3 DEF KnowsLogin
<1>2. /\ Added /\ Logged("USER_LOGIN", caller[c], caller[c])'
      /\ auditRows' \in Seq(AuditRow)
  <2>1. [action |-> "USER_LOGIN", user_id |-> caller[c], about |-> caller[c]] \in AuditRow
    BY DEF AuditRow, AccountsInv, AccountsTypeOK
  <2> QED
    BY <2>1, LogAdds DEF AuditLogin, AccountsInv
<1>3. AccountsTypeOK'
  <2>1. CreateToken(caller[c]) \in [sub : Nat, exp : Nat]
    BY AccountsAssumption DEF CreateToken, AccountsInv, AccountsTypeOK
  <2> QED
    BY <1>2, <2>1 DEF AuditLogin, Respond, AccountsInv, AccountsTypeOK, Moments, Responses
<1>4. \A d \in Callers \ {c} : Spared(d)
  BY DEF Spared, AuditLogin, Respond, AccountsInv, AccountsTypeOK
<1>5. /\ moment'[c] = "answered" /\ answer'[c] = "welcome" /\ ask'[c] = ask[c]
      /\ caller'[c] = caller[c] /\ known'[c] = known[c] /\ userRows' = userRows
  BY DEF AuditLogin, Respond, AccountsInv, AccountsTypeOK
<1>6. Knows(c)'
  <2>1. HasCredentials(caller[c], ask[c])'
    BY <1>1, <1>5 DEF HasCredentials, VerifyPassword, HashPassword
  <2>2. LoginIsTrue(c)'
    BY <1>2, <1>5, <2>1 DEF LoginIsTrue
  <2>3. KnowsLogin(c)'
    BY <1>1, <1>5, <2>1, <2>2 DEF KnowsLogin
  <2>4. Suits(c)'
    BY <1>5 DEF Suits
  <2> QED
    BY <1>1, <1>5, <2>3, <2>4 DEF Knows, Asking
<1>7. Crossing'
  BY <1>4, <1>5, CrossingKeeps DEF AuditLogin, AccountsInv
<1> QED
  BY <1>1, <1>2, <1>3, <1>4, <1>5, <1>6, <1>7, QuietKeeps DEF AuditLogin

\* A failed login is put on record and refused.
LEMMA AuditLoginFailedKeeps ==
  ASSUME AccountsInv, NEW c \in Callers, AuditLoginFailed(c)
  PROVE  AccountsInv'
<1>1. /\ moment[c] = "reject" /\ ask[c] \in Asking("login") /\ known[c] <= Len(userRows)
      /\ \A i \in 1..known[c] : ~HasCredentials(i, ask[c])
  <2>1. Knows(c)
    BY DEF AccountsInv
  <2>2. moment[c] = "reject" /\ ask[c] \in Asking("login")
    BY <2>1 DEF AuditLoginFailed, Knows, Suits
  <2>3. KnowsLogin(c)
    BY <2>1, <2>2 DEF Knows
  <2> QED
    BY <2>2, <2>3 DEF KnowsLogin
<1>2. /\ Added /\ Logged("USER_LOGIN_FAILED", caller[c], ask[c].email)'
      /\ auditRows' \in Seq(AuditRow)
  <2>1. ask[c].email \in Emails
    BY <1>1, AccountsAssumption
  <2>2. [action |-> "USER_LOGIN_FAILED", user_id |-> caller[c], about |-> ask[c].email]
          \in AuditRow
    BY <2>1 DEF AuditRow, AccountsInv, AccountsTypeOK
  <2> QED
    BY <2>2, LogAdds DEF AuditLoginFailed, AccountsInv
<1>3. AccountsTypeOK'
  BY <1>2 DEF AuditLoginFailed, Respond, AccountsInv, AccountsTypeOK, Moments, Responses
<1>4. \A d \in Callers \ {c} : Spared(d)
  BY DEF Spared, AuditLoginFailed, Respond, AccountsInv, AccountsTypeOK
<1>5. /\ moment'[c] = "answered" /\ answer'[c] = "unauthorized" /\ ask'[c] = ask[c]
      /\ caller'[c] = caller[c] /\ known'[c] = known[c] /\ userRows' = userRows
  BY DEF AuditLoginFailed, Respond, AccountsInv, AccountsTypeOK
<1>6. Knows(c)'
  <2>1. \A i \in 1..known[c] : ~HasCredentials(i, ask[c])'
    BY <1>1, <1>5 DEF HasCredentials, VerifyPassword, HashPassword
  <2>2. LoginIsTrue(c)'
    BY <1>2, <1>5, <2>1 DEF LoginIsTrue
  <2>3. KnowsLogin(c)'
    BY <1>1, <1>5, <2>2 DEF KnowsLogin
  <2>4. Suits(c)'
    BY <1>5 DEF Suits
  <2> QED
    BY <1>1, <1>5, <2>3, <2>4 DEF Knows, Asking
<1>7. Crossing'
  BY <1>4, <1>5, CrossingKeeps DEF AuditLoginFailed, AccountsInv
<1> QED
  BY <1>1, <1>2, <1>3, <1>4, <1>5, <1>6, <1>7, QuietKeeps DEF AuditLoginFailed

\* The column is UNIQUE: a row is inserted under a free e-mail only.
LEMMA InsertUserKeeps ==
  ASSUME AccountsInv, NEW c \in Callers, InsertUser(c)
  PROVE  AccountsInv'
<1> DEFINE email == ask[c].email
<1>1. /\ moment[c] = "user" /\ answer[c] = "none" /\ made[c] = 0
      /\ ask[c] \in Asking("register") /\ (ByEmail(email) # {} => email \in clashed)
  <2>1. Knows(c)
    BY DEF AccountsInv
  <2>2. moment[c] = "user" /\ answer[c] = "none" /\ ask[c] \in Asking("register")
    BY <2>1 DEF InsertUser, Knows, Suits
  <2>3. KnowsRegistration(c)
    BY <2>1, <2>2 DEF Knows
  <2> QED
    BY <2>2, <2>3 DEF KnowsRegistration
<1>2. \A d \in Callers \ {c} : Spared(d)
  BY DEF Spared, InsertUser, Respond, AccountsInv, AccountsTypeOK
<1>3. moment'[c] = "answered" /\ ask'[c] = ask[c]
  BY DEF InsertUser, Respond, AccountsInv, AccountsTypeOK
<1>4. CASE ByEmail(email) # {}
  <2>1. answer'[c] = "error" /\ UNCHANGED <<userRows, made>>
    BY <1>4 DEF InsertUser, Respond, AccountsInv, AccountsTypeOK
  <2>2. AccountsTypeOK'
    BY <2>1 DEF InsertUser, Respond, AccountsInv, AccountsTypeOK, Moments, Responses
  <2>3. Added
    BY <2>1, NothingAdded DEF InsertUser, AccountsInv, rowsVars
  <2>4. Knows(c)'
    <3>1. Suits(c)'
      BY <1>3, <2>1 DEF Suits
    <3>2. KnowsRegistration(c)'
      BY <1>1, <1>3, <1>4, <2>1 DEF KnowsRegistration, RegistrationIsTrue, InsertUser
    <3> QED
      BY <1>1, <1>3, <3>1, <3>2 DEF Knows, Asking
  <2>5. Crossing'
    BY <1>2, <1>3, CrossingKeeps DEF InsertUser, AccountsInv
  <2> QED
    BY <1>1, <1>2, <1>3, <2>1, <2>2, <2>3, <2>4, <2>5, QuietKeeps DEF InsertUser
<1>5. CASE ByEmail(email) = {}
  <2>1. PICK salt \in Salts :
          userRows' = Append(userRows, [email |-> email,
                        hashed_password |-> HashPassword(ask[c].password, salt)])
    BY <1>5 DEF InsertUser
  <2> DEFINE row == [email |-> email, hashed_password |-> HashPassword(ask[c].password, salt)]
             new == Len(userRows) + 1
  <2>2. made' = [made EXCEPT ![c] = new] /\ answer'[c] = "created"
    BY <1>5 DEF InsertUser, Respond, AccountsInv, AccountsTypeOK
  <2>3. row \in UserRow
    <3>1. email \in Emails /\ ask[c].password \in Passwords
      BY <1>1, AccountsAssumption
    <3> QED
      BY <3>1 DEF UserRow, HashPassword
  <2>4. userRows \in Seq(UserRow)
    BY DEF AccountsInv, AccountsTypeOK
  <2>5. /\ userRows' \in Seq(UserRow) /\ Len(userRows') = new
        /\ DOMAIN userRows' = DOMAIN userRows \cup {new} /\ new \notin DOMAIN userRows
        /\ \A i \in DOMAIN userRows : userRows'[i] = userRows[i]
        /\ userRows'[new] = row
    BY <2>1, <2>3, <2>4, AppendRow
  <2>6. new \in Nat \ {0}
    BY <2>4
  <2>7. AccountsTypeOK'
    <3>1. /\ moment' = [moment EXCEPT ![c] = "answered"]
          /\ answer' = [answer EXCEPT ![c] = "created"]
          /\ UNCHANGED <<hour, contractRows, auditRows, tokens, ask, caller, hit, clashed, known>>
      BY <1>5 DEF InsertUser, Respond
    <3> QED
      BY <2>2, <2>5, <2>6, <3>1 DEF AccountsInv, AccountsTypeOK, Moments, Responses
  <2>8. Added
    <3>1. \A d \in Callers : made[d] # 0 => made'[d] = made[d]
      BY <1>1, <2>2 DEF AccountsInv, AccountsTypeOK
    <3>2. Len(userRows) <= Len(userRows')
      BY <2>4, <2>5
    <3>3. \A i \in DOMAIN userRows : i \in DOMAIN userRows' /\ userRows'[i] = userRows[i]
      BY <2>5
    <3>4. \A i \in DOMAIN userRows' \ DOMAIN userRows : ByEmail(userRows'[i].email) = {}
      BY <1>5, <2>5
    <3> QED
      BY <3>1, <3>2, <3>3, <3>4 DEF Added, InsertUser
  <2>9. ByEmail(email)' = {new}
    BY <1>3, <1>5, <2>5 DEF ByEmail
  <2>10. Knows(c)'
    <3>1. Suits(c)'
      BY <1>3, <2>2 DEF Suits
    <3>2. made'[c] = new
      BY <2>2 DEF AccountsInv, AccountsTypeOK
    <3>3. HasCredentials(made[c], ask[c])'
      <4>1. /\ userRows'[new].email = email
            /\ userRows'[new].hashed_password = <<salt, ask[c].password>>
        BY <2>5 DEF HashPassword
      <4>2. VerifyPassword(ask[c].password, <<salt, ask[c].password>>)
        BY DEF VerifyPassword, HashPassword
      <4> QED
        BY <1>3, <3>2, <4>1, <4>2 DEF HasCredentials, VerifyPassword, HashPassword
    <3>4. KnowsRegistration(c)'
      BY <1>3, <2>2, <2>9, <3>2, <3>3 DEF KnowsRegistration, RegistrationIsTrue
    <3> QED
      BY <1>1, <1>3, <3>1, <3>4 DEF Knows, Asking
  <2>11. ASSUME NEW d \in Callers \ {c} PROVE Knows(d)'
    <3>1. ASSUME moment[d] = "user"
          PROVE  ByEmail(ask[d].email)' = ByEmail(ask[d].email) \/ ask[d].email \in clashed'
      <4>1. CASE ask[d].email = email
        BY <1>1, <3>1, <4>1 DEF AccountsInv, Crossing, InsertUser
      <4>2. CASE ask[d].email # email
        BY <1>2, <2>5, <2>11, <4>2 DEF ByEmail, Spared
      <4> QED
        BY <4>1, <4>2
    <3> QED
      BY <1>2, <2>8, <2>11, <3>1, OthersKnow DEF AccountsInv
  <2>12. Crossing'
    BY <1>2, <1>3, CrossingKeeps DEF InsertUser, AccountsInv
  <2>13. ContractsMade'
    BY <1>1, <1>2, <1>3, <2>8, MadeKeeps DEF InsertUser, AccountsInv
  <2> QED
    BY <2>7, <2>10, <2>11, <2>12, <2>13 DEF AccountsInv
<1> QED
  BY <1>4, <1>5

\* A token is shown.
LEMMA GetCurrentUserKeeps ==
  ASSUME AccountsInv, NEW c \in Callers, GetCurrentUser(c)
  PROVE  AccountsInv'
<1>1. /\ moment[c] = "identify" /\ answer[c] = "none"
      /\ ask[c] \in Asking("create") \cup Asking("show")
      /\ ask[c] \in Asking("create") => made[c] = 0
  <2>1. Knows(c)
    BY DEF AccountsInv
  <2>2. /\ moment[c] = "identify" /\ answer[c] = "none"
        /\ ask[c] \in Asking("create") \cup Asking("show")
    BY <2>1 DEF GetCurrentUser, Knows, Suits
  <2> QED
    BY <2>1, <2>2 DEF Knows, KnowsCreation
<1>2. PICK token \in tokens \cup {NoToken} :
        LET user == DecodeToken(token) IN
        \/ user \notin DOMAIN userRows /\ Respond(c, "unauthorized") /\ UNCHANGED caller
        \/ user \in DOMAIN userRows /\ Respond(c, "invalid") /\ UNCHANGED caller
        \/ /\ user \in DOMAIN userRows
           /\ Proceed(c, IF ask[c].what = "create" THEN "contract" ELSE "show")
           /\ caller' = [caller EXCEPT ![c] = user]
  BY DEF GetCurrentUser
<1>3. /\ \/ moment'[c] = "answered" /\ answer'[c] \in {"unauthorized", "invalid"}
         \/ /\ moment'[c] = IF ask[c].what = "create" THEN "contract" ELSE "show"
            /\ answer'[c] = "none"
      /\ ask'[c] = ask[c] /\ made'[c] = made[c]
  BY <1>1, <1>2 DEF GetCurrentUser, Proceed, Respond, AccountsInv, AccountsTypeOK
<1>4. AccountsTypeOK'
  <2>1. DOMAIN userRows \subseteq Nat
    BY DEF AccountsInv, AccountsTypeOK
  <2>2. caller' \in [Callers -> Nat]
    BY <1>2, <2>1 DEF AccountsInv, AccountsTypeOK
  <2>3. moment' \in [Callers -> Moments] /\ answer' \in [Callers -> Responses]
    BY <1>2 DEF AccountsInv, AccountsTypeOK, Proceed, Respond, Moments, Responses
  <2> QED
    BY <2>2, <2>3 DEF GetCurrentUser, AccountsInv, AccountsTypeOK, rowsVars
<1>5. \A d \in Callers \ {c} : Spared(d)
  BY <1>2 DEF Spared, GetCurrentUser, Proceed, Respond, AccountsInv, AccountsTypeOK
<1>6. Knows(c)'
  <2>1. Suits(c)'
    BY <1>1, <1>3 DEF Suits, Asking
  <2>2. ask[c] \in Asking("create") => KnowsCreation(c)'
    BY <1>1, <1>3 DEF KnowsCreation, CreationIsTrue, Asking
  <2> QED
    BY <1>1, <1>3, <2>1, <2>2 DEF Knows, Asking
<1>7. Crossing' /\ Added
  <2>1. moment'[c] # "user"
    BY <1>3
  <2> QED
    BY <1>5, <2>1, CrossingKeeps, NothingAdded DEF GetCurrentUser, AccountsInv
<1> QED
  BY <1>1, <1>3, <1>4, <1>5, <1>6, <1>7, QuietKeeps DEF GetCurrentUser, rowsVars

\* The reference code is UNIQUE.
LEMMA CreateContractKeeps ==
  ASSUME AccountsInv, NEW c \in Callers, CreateContract(c)
  PROVE  AccountsInv'
<1> DEFINE form == ask[c].form
<1>1. /\ moment[c] = "contract" /\ answer[c] = "none" /\ made[c] = 0
      /\ ask[c] \in Asking("create")
  <2>1. Knows(c)
    BY DEF AccountsInv
  <2>2. moment[c] = "contract" /\ answer[c] = "none" /\ ask[c] \in Asking("create")
    BY <2>1 DEF CreateContract, Knows, Suits
  <2> QED
    BY <2>1, <2>2 DEF Knows, KnowsCreation
<1>2. \A d \in Callers \ {c} : Spared(d)
  BY DEF Spared, CreateContract, Proceed, Respond, AccountsInv, AccountsTypeOK
<1>3. ask'[c] = ask[c] /\ caller'[c] = caller[c] /\ userRows' = userRows
  BY DEF CreateContract
<1>4. CASE ByCode(form.code) # {}
  <2>1. answer'[c] = "conflict" /\ moment'[c] = "answered" /\ UNCHANGED <<contractRows, made>>
    BY <1>4 DEF CreateContract, Respond, AccountsInv, AccountsTypeOK
  <2>2. AccountsTypeOK'
    BY <1>4 DEF CreateContract, Respond, AccountsInv, AccountsTypeOK, Moments, Responses
  <2>3. Added
    BY <2>1, NothingAdded DEF CreateContract, AccountsInv, rowsVars
  <2>4. Knows(c)'
    <3>1. Suits(c)'
      BY <2>1 DEF Suits
    <3>2. PICK i \in DOMAIN contractRows : i \in ByCode(form.code)
      BY <1>4 DEF ByCode
    <3>3. PICK d \in Callers : made[d] = i
      BY <3>2 DEF AccountsInv, ContractsMade
    <3>4. d # c
      BY <1>1, <3>2, <3>3 DEF AccountsInv, AccountsTypeOK
    <3>5. made'[d] = i /\ i \in ByCode(form.code)'
      BY <1>3, <2>1, <3>2, <3>3 DEF ByCode
    <3>6. CreationIsTrue(c)'
      BY <1>1, <1>3, <2>1, <3>4, <3>5 DEF CreationIsTrue
    <3>7. KnowsCreation(c)'
      BY <1>1, <2>1, <3>6 DEF KnowsCreation
    <3> QED
      BY <1>1, <1>3, <2>1, <3>1, <3>7 DEF Knows, Asking
  <2>5. Crossing'
    BY <1>2, <2>1, CrossingKeeps DEF CreateContract, AccountsInv
  <2> QED
    BY <1>1, <1>2, <1>3, <2>1, <2>2, <2>3, <2>4, <2>5, QuietKeeps DEF CreateContract
<1>5. CASE ByCode(form.code) = {}
  <2> DEFINE row == [user_id |-> caller[c], reference_code |-> form.code, total |-> form.total,
                     daily |-> form.daily, start |-> form.start, end |-> form.end]
             new == Len(contractRows) + 1
  <2>1. /\ contractRows' = Append(contractRows, row)
        /\ made' = [made EXCEPT ![c] = new]
        /\ moment'[c] = "record" /\ answer'[c] = "none"
    BY <1>1, <1>5 DEF CreateContract, Proceed, AccountsInv, AccountsTypeOK
  <2>2. row \in ContractRow
    <3>1. form \in Forms
      BY <1>1, AccountsAssumption
    <3> QED
      BY <3>1 DEF Forms, ContractRow, AccountsInv, AccountsTypeOK
  <2>3. contractRows \in Seq(ContractRow)
    BY DEF AccountsInv, AccountsTypeOK
  <2>4. /\ contractRows' \in Seq(ContractRow)
        /\ DOMAIN contractRows' = DOMAIN contractRows \cup {new} /\ new \notin DOMAIN contractRows
        /\ \A i \in DOMAIN contractRows : contractRows'[i] = contractRows[i]
        /\ contractRows'[new] = row
    BY <2>1, <2>2, <2>3, AppendRow
  <2>5. new \in Nat \ {0}
    BY <2>3
  <2>6. AccountsTypeOK'
    <3>1. moment' \in [Callers -> Moments] /\ answer' \in [Callers -> Responses]
      BY DEF CreateContract, Proceed, Respond, AccountsInv, AccountsTypeOK, Moments, Responses
    <3>2. made' \in [Callers -> Nat]
      BY <2>1, <2>5 DEF AccountsInv, AccountsTypeOK
    <3> QED
      BY <2>4, <3>1, <3>2 DEF CreateContract, AccountsInv, AccountsTypeOK
  <2>7. Added
    <3>1. \A d \in Callers : made[d] # 0 => made'[d] = made[d]
      BY <1>1, <2>1 DEF AccountsInv, AccountsTypeOK
    <3>2. \A i \in DOMAIN contractRows :
            i \in DOMAIN contractRows' /\ contractRows'[i] = contractRows[i]
      BY <2>4
    <3>3. \A i \in DOMAIN contractRows' \ DOMAIN contractRows :
            ByCode(contractRows'[i].reference_code) = {}
      BY <1>5, <2>4
    <3>4. Len(userRows) <= Len(userRows')
      BY <1>3 DEF AccountsInv, AccountsTypeOK
    <3> QED
      BY <1>3, <3>1, <3>2, <3>3, <3>4 DEF Added, CreateContract
  <2>8. ByCode(form.code)' = {new} /\ new \in Owned(caller[c])'
    BY <1>3, <1>5, <2>4 DEF ByCode, Owned
  <2>9. made'[c] = new
    BY <2>1 DEF AccountsInv, AccountsTypeOK
  <2>10. Knows(c)'
    <3>1. Suits(c)'
      BY <1>1, <1>3, <2>1 DEF Suits, Asking
    <3>2. KnowsCreation(c)'
      BY <2>1, <2>5, <2>8, <2>9 DEF KnowsCreation, CreationIsTrue
    <3> QED
      BY <1>1, <1>3, <2>1, <3>1, <3>2 DEF Knows, Asking
  <2>11. ASSUME NEW d \in Callers \ {c} PROVE Knows(d)'
    <3>1. ByEmail(ask[d].email)' = ByEmail(ask[d].email)
      BY <1>2, <1>3, <2>11 DEF ByEmail, Spared
    <3> QED
      BY <1>2, <2>7, <2>11, <3>1, OthersKnow DEF AccountsInv
  <2>12. Crossing'
    BY <1>2, <2>1, CrossingKeeps DEF CreateContract, AccountsInv
  <2>13. ContractsMade'
    <3> SUFFICES ASSUME NEW i \in DOMAIN contractRows'
                 PROVE  \E d \in Callers :
                          /\ moment'[d] # "waiting" /\ ask'[d] \in Asking("create")
                          /\ made'[d] = i
                          /\ \/ Logged("CONTRACT_CREATED", contractRows[i].user_id, i)'
                             \/ moment'[d] = "record" \/ d \in hit'
      BY DEF ContractsMade, Asking
    <3>1. CASE i = new
      BY <1>1, <1>3, <2>1, <2>9, <3>1
    <3>2. CASE i \in DOMAIN contractRows
      <4>1. PICK d \in Callers :
              /\ moment[d] # "waiting" /\ ask[d] \in Asking("create") /\ made[d] = i
              /\ \/ Logged("CONTRACT_CREATED", contractRows[i].user_id, i)
                 \/ moment[d] = "record" \/ d \in hit
        BY <3>2 DEF AccountsInv, ContractsMade
      <4>2. d # c
        BY <1>1, <3>2, <4>1 DEF AccountsInv, AccountsTypeOK
      <4>3. Logged("CONTRACT_CREATED", contractRows[i].user_id, i) =>
              Logged("CONTRACT_CREATED", contractRows[i].user_id, i)'
        BY <2>4, <3>2 DEF Logged, CreateContract
      <4> QED
        BY <1>2, <4>1, <4>2, <4>3 DEF Spared
    <3> QED
      BY <2>4, <3>1, <3>2
  <2> QED
    BY <2>6, <2>10, <2>11, <2>12, <2>13 DEF AccountsInv
<1> QED
  BY <1>4, <1>5

\* The audit row of a contract.
LEMMA AuditContractKeeps ==
  ASSUME AccountsInv, NEW c \in Callers, AuditContract(c)
  PROVE  AccountsInv'
<1>1. /\ moment[c] = "record" /\ ask[c] \in Asking("create") /\ made[c] # 0
      /\ ByCode(ask[c].form.code) = {made[c]} /\ made[c] \in Owned(caller[c])
  <2>1. Knows(c)
    BY DEF AccountsInv
  <2>2. moment[c] = "record" /\ ask[c] \in Asking("create")
    BY <2>1 DEF AuditContract, Knows, Suits
  <2> QED
    BY <2>1, <2>2 DEF Knows, KnowsCreation
<1>2. /\ Added /\ Logged("CONTRACT_CREATED", caller[c], made[c])'
      /\ auditRows' \in Seq(AuditRow)
  <2>1. [action |-> "CONTRACT_CREATED", user_id |-> caller[c], about |-> made[c]] \in AuditRow
    BY DEF AuditRow, AccountsInv, AccountsTypeOK
  <2> QED
    BY <2>1, LogAdds DEF AuditContract, AccountsInv
<1>3. AccountsTypeOK'
  BY <1>2 DEF AuditContract, Respond, AccountsInv, AccountsTypeOK, Moments, Responses
<1>4. \A d \in Callers \ {c} : Spared(d)
  BY DEF Spared, AuditContract, Respond, AccountsInv, AccountsTypeOK
<1>5. /\ moment'[c] = "answered" /\ answer'[c] = "created" /\ ask'[c] = ask[c]
      /\ caller'[c] = caller[c] /\ made'[c] = made[c]
  BY DEF AuditContract, Respond, AccountsInv, AccountsTypeOK
<1>6. Knows(c)'
  <2>1. ByCode(ask[c].form.code)' = {made[c]} /\ made[c] \in Owned(caller[c])'
    BY <1>1, <1>5 DEF AuditContract, ByCode, Owned
  <2>2. Suits(c)'
    BY <1>5 DEF Suits
  <2>3. KnowsCreation(c)'
    BY <1>1, <1>2, <1>5, <2>1 DEF KnowsCreation, CreationIsTrue
  <2> QED
    BY <1>1, <1>5, <2>2, <2>3 DEF Knows, Asking
<1>7. Crossing'
  BY <1>4, <1>5, CrossingKeeps DEF AuditContract, AccountsInv
<1> QED
  BY <1>1, <1>2, <1>3, <1>4, <1>5, <1>6, <1>7, QuietKeeps DEF AuditContract

\* A contract is read by its owner, or refused.
LEMMA ShowContractKeeps ==
  ASSUME AccountsInv, NEW c \in Callers, ShowContract(c)
  PROVE  AccountsInv'
<1>1. moment[c] = "show" /\ ask[c] \in Asking("show")
  BY DEF ShowContract, AccountsInv, Knows, Suits
<1>2. AccountsTypeOK'
  BY DEF ShowContract, Respond, AccountsInv, AccountsTypeOK, Moments, Responses, rowsVars
<1>3. \A d \in Callers \ {c} : Spared(d)
  BY DEF Spared, ShowContract, Respond, AccountsInv, AccountsTypeOK
<1>4. /\ moment'[c] = "answered" /\ ask'[c] = ask[c] /\ caller'[c] = caller[c]
      /\ answer'[c] = IF ask[c].contract \in Owned(caller[c]) THEN "shown" ELSE "missing"
  BY DEF ShowContract, Respond, AccountsInv, AccountsTypeOK
<1>5. Knows(c)'
  <2>1. Suits(c)'
    BY <1>4 DEF Suits
  <2>2. Owned(caller[c])' = Owned(caller[c])
    BY DEF ShowContract, Owned, rowsVars
  <2> QED
    BY <1>1, <1>4, <2>1, <2>2 DEF Knows, Asking
<1>6. Crossing' /\ Added
  BY <1>3, <1>4, CrossingKeeps, NothingAdded DEF ShowContract, AccountsInv
<1> QED
  BY <1>1, <1>2, <1>3, <1>4, <1>5, <1>6, QuietKeeps DEF ShowContract, rowsVars

\* A request that is hit is answered 500, and its rows stay.
LEMMA CallFailsKeeps ==
  ASSUME AccountsInv, NEW c \in Callers, CallFails(c)
  PROVE  AccountsInv'
<1>1. AccountsTypeOK'
  BY DEF CallFails, Respond, AccountsInv, AccountsTypeOK, Moments, Responses, rowsVars
<1>2. \A d \in Callers \ {c} : Spared(d)
  BY DEF Spared, CallFails, Respond, AccountsInv, AccountsTypeOK
<1>3. /\ moment[c] # "waiting" /\ moment'[c] = "answered" /\ answer'[c] = "error" /\ c \in hit'
      /\ ask'[c] = ask[c] /\ caller'[c] = caller[c] /\ made'[c] = made[c] /\ known'[c] = known[c]
      /\ UNCHANGED <<userRows, contractRows, clashed>> /\ hit \subseteq hit'
  BY DEF CallFails, Respond, AccountsInv, AccountsTypeOK, rowsVars
<1>4. Knows(c)'
  <2>1. Knows(c)
    BY DEF AccountsInv
  <2>2. Suits(c)'
    BY <1>3 DEF Suits
  <2>3. KnowsRegistration(c)'
    BY <1>3 DEF KnowsRegistration, RegistrationIsTrue
  <2>4. ask[c] \in Asking("login") => KnowsLogin(c)'
    BY <1>3, <2>1 DEF Knows, KnowsLogin, LoginIsTrue
  <2>5. ask[c] \in Asking("create") => KnowsCreation(c)'
    <3>1. /\ ByCode(ask[c].form.code)' = ByCode(ask[c].form.code)
          /\ Owned(caller[c])' = Owned(caller[c])
      BY <1>3 DEF ByCode, Owned
    <3> QED
      BY <1>3, <2>1, <3>1 DEF Knows, KnowsCreation, CreationIsTrue
  <2> QED
    BY <1>3, <2>2, <2>3, <2>4, <2>5 DEF Knows, Asking
<1>5. Crossing' /\ Added
  BY <1>2, <1>3, CrossingKeeps, NothingAdded DEF CallFails, AccountsInv
<1> QED
  BY <1>1, <1>2, <1>3, <1>4, <1>5, QuietKeeps

\* Time passes.
LEMMA HourKeeps ==
  ASSUME AccountsInv, HourPasses \/ UNCHANGED accountsVars
  PROVE  AccountsInv'
<1>1. UNCHANGED <<userRows, contractRows, auditRows, tokens, moment, ask, caller, answer, made,
                  hit, clashed, known>>
  BY DEF HourPasses, accountsVars, rowsVars
<1>2. AccountsTypeOK'
  BY <1>1 DEF HourPasses, accountsVars, AccountsInv, AccountsTypeOK
<1>3. Added
  BY <1>1, NothingAdded DEF AccountsInv, rowsVars
<1>4. ASSUME NEW c \in Callers PROVE Knows(c)'
  <2>1. Spared(c) /\ ByEmail(ask[c].email)' = ByEmail(ask[c].email)
    BY <1>1 DEF Spared, ByEmail
  <2> QED
    BY <1>3, <2>1, OthersKnow DEF AccountsInv
<1>5. Crossing'
  BY <1>1 DEF Crossing, AccountsInv
<1>6. ContractsMade'
  BY <1>1 DEF ContractsMade, Logged, Asking, AccountsInv
<1> QED
  BY <1>2, <1>4, <1>5, <1>6 DEF AccountsInv

\* No request has been made yet.
LEMMA AccountsInvInit == AccountsInit => AccountsInv
<1> SUFFICES ASSUME AccountsInit PROVE AccountsInv
  OBVIOUS
<1>1. AccountsTypeOK
  <2>1. Registered \in Seq(Emails \X Passwords \X Salts)
    BY AccountsAssumption
  <2>2. \A i \in DOMAIN Registered :
          Registered[i][1] \in Emails /\ Registered[i][2] \in Passwords /\ Registered[i][3] \in Salts
    BY <2>1
  <2>3. DOMAIN Registered = 1..Len(Registered) /\ Len(Registered) \in Nat
    BY <2>1
  <2>4. \A i \in DOMAIN Registered :
          [email |-> Registered[i][1],
           hashed_password |-> HashPassword(Registered[i][2], Registered[i][3])] \in UserRow
    BY <2>2 DEF UserRow, HashPassword
  <2>5. userRows \in Seq(UserRow)
    BY <2>3, <2>4 DEF AccountsInit
  <2>6. \A i \in DOMAIN Registered : CreateToken(i) \in [sub : Nat, exp : Nat]
    BY <2>3, AccountsAssumption DEF CreateToken, AccountsInit
  <2> QED
    BY <2>5, <2>6 DEF AccountsInit, AccountsTypeOK, Moments, Responses
<1>2. ASSUME NEW c \in Callers PROVE Knows(c)
  BY DEF Knows, Suits, AccountsInit
<1>3. Crossing /\ ContractsMade
  BY DEF Crossing, ContractsMade, AccountsInit
<1> QED
  BY <1>1, <1>2, <1>3 DEF AccountsInv

\* Every step of a behaviour keeps the invariant of the accounts.
LEMMA AccountsInvNext == AccountsInv /\ [ApiNext]_apiVars => AccountsInv'
<1> SUFFICES ASSUME AccountsInv, [ApiNext]_apiVars PROVE AccountsInv'
  OBVIOUS
<1>1. CASE UNCHANGED accountsVars
  BY <1>1, HourKeeps
<1>2. CASE AccountsNext
  <2>1. CASE HourPasses
    BY <2>1, HourKeeps
  <2>2. ASSUME NEW c \in Callers, Call(c) PROVE AccountsInv'
    BY <2>2, AskKeeps, FindEmailKeeps, InsertUserKeeps, AuthenticateKeeps, AuditLoginKeeps,
       AuditLoginFailedKeeps, GetCurrentUserKeeps, CreateContractKeeps, AuditContractKeeps,
       ShowContractKeeps, CallFailsKeeps DEF Call
  <2> QED
    BY <1>2, <2>1, <2>2 DEF AccountsNext
<1> QED
  BY <1>1, <1>2
     DEF ApiNext, apiVars, CallAccounts, Talk, Analyse, ListPayments, LimitRequests

-----------------------------------------------------------------------------
\* Every request about an account or a contract is told what became of it, and this stays
\* true: the answers of api/auth.py and api/contracts.py against the tables, for any number
\* of requests that cross, fail between two commits, or outlive a token.
THEOREM AnswersStayTrue == ApiSpec => []AnswersAreTrue
<1>1. ApiInit => AccountsInv
  BY AccountsInvInit DEF ApiInit
<1>2. AccountsInv /\ [ApiNext]_apiVars => AccountsInv'
  BY AccountsInvNext
<1>3. AccountsInv => AnswersAreTrue
  BY InvEnough
<1> QED
  BY <1>1, <1>2, <1>3, PTL DEF ApiSpec

-----------------------------------------------------------------------------
(***************************************************************************)
(* The memory.                                                             *)
(*                                                                         *)
(* The argument: a caller that has found its fact missing, and did not cross  *)
(* another at it, is the only one about to insert it, and nobody has          *)
(* inserted it since.                                                      *)
(***************************************************************************)

\* A caller past the look has a fact in hand.
HasFact == \A w \in Writers : recall[w] # "read" => todo[w] # <<>>

\* What is about to be inserted, and was not crossed, is missing still and is about
\* to be inserted by one caller.
FoundMissing ==
  \A w \in Writers : \A f \in Facts \ crossed :
     AboutToInsert(w, f) =>
       ~Remembered(f) /\ \A v \in Writers \ {w} : ~AboutToInsert(v, f)

MemoryInv == MemoryTypeOK /\ HasFact /\ FoundMissing /\ RememberedOnce

\* Nothing has been remembered yet.
LEMMA MemoryInvInit == MemoryInit => MemoryInv
  BY DEF MemoryInit, MemoryInv, MemoryTypeOK, HasFact, FoundMissing, RememberedOnce,
         AboutToInsert

\* A fact in hand is the first of a sequence of facts.
LEMMA FactInHand ==
  ASSUME MemoryTypeOK, NEW w \in Writers, todo[w] # <<>>
  PROVE  Head(todo[w]) \in Facts /\ Tail(todo[w]) \in Seq(Facts)
<1>1. todo[w] \in Seq(Facts)
  BY DEF MemoryTypeOK
<1> QED
  BY <1>1

\* A caller that neither looks nor inserts.
LEMMA OthersKeep ==
  ASSUME MemoryInv, NEW w \in Writers,
         \/ \E facts \in Seq(Facts) : Want(w, facts)
         \/ SkipKnown(w) \/ LogMemory(w) \/ Forget(w)
  PROVE  MemoryInv'
<1> USE DEF MemoryInv
<1>1. /\ memories' = memories /\ crossed' = crossed
      /\ \A v \in Writers \ {w} : todo'[v] = todo[v] /\ recall'[v] = recall[v]
      /\ recall'[w] = "read"
  BY DEF MemoryTypeOK, HasFact, Want, SkipKnown, LogMemory, Forget, NextFact
<1>2. MemoryTypeOK'
  <2>1. ASSUME NEW facts \in Seq(Facts), Want(w, facts) PROVE MemoryTypeOK'
    BY <2>1 DEF MemoryTypeOK, Want
  <2>2. ASSUME SkipKnown(w) \/ LogMemory(w) PROVE MemoryTypeOK'
    <3>1. Head(todo[w]) \in Facts /\ Tail(todo[w]) \in Seq(Facts)
      BY <2>2, FactInHand DEF SkipKnown, LogMemory, HasFact
    <3>2. todo' \in [Writers -> Seq(Facts)]
      BY <2>2, <3>1 DEF MemoryTypeOK, SkipKnown, LogMemory, NextFact
    <3>3. memoryLog' \in Seq(Facts)
      <4>1. memoryLog \in Seq(Facts)
        BY DEF MemoryTypeOK
      <4>2. Append(memoryLog, Head(todo[w])) \in Seq(Facts)
        BY <3>1, <4>1
      <4> QED
        BY <2>2, <4>1, <4>2 DEF SkipKnown, LogMemory
    <3>4. recall' \in [Writers -> {"read", "insert", "audit"}]
      BY <2>2 DEF MemoryTypeOK, SkipKnown, LogMemory
    <3> QED
      BY <3>2, <3>3, <3>4, <1>1 DEF MemoryTypeOK
  <2>3. ASSUME Forget(w) PROVE MemoryTypeOK'
    BY <2>3 DEF MemoryTypeOK, Forget
  <2> QED
    BY <2>1, <2>2, <2>3
<1>3. HasFact'
  BY <1>1 DEF HasFact
<1>4. FoundMissing'
  BY <1>1 DEF FoundMissing, AboutToInsert, Remembered
<1>5. RememberedOnce'
  BY <1>1 DEF RememberedOnce
<1> QED
  BY <1>2, <1>3, <1>4, <1>5

\* The look: whoever else is about to insert the fact has been crossed by now.
LEMMA RecallKeeps ==
  ASSUME MemoryInv, NEW w \in Writers, Recall(w)
  PROVE  MemoryInv'
<1> USE DEF MemoryInv
<1>1. PICK f \in Facts : f = Head(todo[w])
  BY FactInHand DEF Recall
<1>2. /\ memories' = memories /\ todo' = todo /\ memoryLog' = memoryLog
      /\ \A v \in Writers \ {w} : recall'[v] = recall[v]
      /\ recall'[w] = "insert" /\ recall[w] = "read" /\ todo[w] # <<>>
      /\ ~Remembered(f)
      /\ crossed \subseteq crossed' /\ crossed' \subseteq Facts
      /\ (\E v \in Writers \ {w} : AboutToInsert(v, f)) => f \in crossed'
  BY <1>1 DEF Recall, MemoryTypeOK
<1>3. MemoryTypeOK'
  BY <1>2 DEF MemoryTypeOK, Recall
<1>4. HasFact'
  BY <1>2 DEF HasFact
<1>5. FoundMissing'
  <2> SUFFICES ASSUME NEW v \in Writers, NEW g \in Facts \ crossed', AboutToInsert(v, g)'
               PROVE  ~Remembered(g)' /\ \A x \in Writers \ {v} : ~AboutToInsert(x, g)'
    BY DEF FoundMissing
  <2>1. CASE v = w
    <3>1. g = f
      BY <1>1, <1>2, <2>1 DEF AboutToInsert
    <3> QED
      BY <3>1, <2>1, <1>2 DEF AboutToInsert, Remembered
  <2>2. CASE v # w
    <3>1. AboutToInsert(v, g)
      BY <2>2, <1>2 DEF AboutToInsert
    <3>2. g # f
      BY <3>1, <2>2, <1>2
    <3> QED
      BY <3>1, <3>2, <2>2, <1>1, <1>2 DEF FoundMissing, AboutToInsert, Remembered
  <2> QED
    BY <2>1, <2>2
<1>6. RememberedOnce'
  BY <1>2 DEF RememberedOnce
<1> QED
  BY <1>3, <1>4, <1>5, <1>6

\* The insertion: a row of a fact that was not crossed is its first.
LEMMA InsertKeeps ==
  ASSUME MemoryInv, NEW w \in Writers, Insert(w)
  PROVE  MemoryInv'
<1> USE DEF MemoryInv
<1>1. PICK f \in Facts : f = Head(todo[w])
  BY FactInHand DEF Insert, HasFact
<1>2. /\ todo' = todo /\ memoryLog' = memoryLog /\ crossed' = crossed
      /\ \A v \in Writers \ {w} : recall'[v] = recall[v]
      /\ recall'[w] = "audit" /\ todo[w] # <<>> /\ AboutToInsert(w, f)
  BY <1>1 DEF Insert, MemoryTypeOK, HasFact, AboutToInsert
<1>3. /\ memories' \in Seq(Facts) /\ Len(memories') = Len(memories) + 1
      /\ DOMAIN memories = 1..Len(memories) /\ DOMAIN memories' = 1..Len(memories')
      /\ \A i \in DOMAIN memories : memories'[i] = memories[i]
      /\ memories'[Len(memories')] = f
  BY <1>1 DEF Insert, MemoryTypeOK
<1>4. MemoryTypeOK'
  BY <1>2, <1>3 DEF MemoryTypeOK, Insert
<1>5. HasFact'
  BY <1>2 DEF HasFact
<1>6. FoundMissing'
  <2> SUFFICES ASSUME NEW v \in Writers, NEW g \in Facts \ crossed, AboutToInsert(v, g)'
               PROVE  ~Remembered(g)' /\ \A x \in Writers \ {v} : ~AboutToInsert(x, g)'
    BY <1>2 DEF FoundMissing
  <2>1. v # w /\ AboutToInsert(v, g)
    BY <1>2 DEF AboutToInsert
  <2>2. g # f
    BY <2>1, <1>2 DEF FoundMissing
  <2>3. ~Remembered(g)'
    BY <2>1, <2>2, <1>3 DEF FoundMissing, Remembered
  <2> QED
    BY <2>1, <2>3, <1>2 DEF FoundMissing, AboutToInsert
<1>7. RememberedOnce'
  <2>1. f \in crossed \/ ~Remembered(f)
    BY <1>2 DEF FoundMissing
  <2> QED
    BY <2>1, <1>2, <1>3 DEF RememberedOnce, Remembered
<1> QED
  BY <1>4, <1>5, <1>6, <1>7

\* For any number of chats and jobs that remember side by side: a fact is stored
\* twice only if two of them had found it missing before either stored it.
THEOREM NoDuplicateMemories == MemorySpec => []RememberedOnce
<1>1. MemoryInit => MemoryInv
  BY MemoryInvInit
<1>2. MemoryInv /\ [MemoryNext]_memoryVars => MemoryInv'
  <2> SUFFICES ASSUME MemoryInv, [MemoryNext]_memoryVars PROVE MemoryInv'
    OBVIOUS
  <2>1. CASE MemoryNext
    BY <2>1, OthersKeep, RecallKeeps, InsertKeeps DEF MemoryNext, Remember
  <2>2. CASE UNCHANGED memoryVars
    BY <2>2 DEF memoryVars, MemoryInv, MemoryTypeOK, HasFact, FoundMissing, RememberedOnce,
                AboutToInsert, Remembered
  <2> QED
    BY <2>1, <2>2
<1>3. MemoryInv => RememberedOnce
  BY DEF MemoryInv
<1> QED
  BY <1>1, <1>2, <1>3, PTL DEF MemorySpec

-----------------------------------------------------------------------------
(* The turns *)

\* A turn that has begun keeps the message it began with.
Begun ==
  /\ stage \in [Turns -> Stages]
  /\ turn \in [Turns -> Sayings \cup {NoSaying}]
  /\ \A t \in Turns : stage[t] # "away" => turn[t] \in Sayings
  /\ conversations \in Seq(Channels \X Users)

\* A turn that has arrived belongs to a channel and a user.
LEMMA KeyType ==
  ASSUME Begun, NEW t \in Turns, stage[t] # "away"
  PROVE  Key(t) \in Channels \X Users /\ turn[t].channel \in Channels
<1>1. turn[t] \in Sayings
  BY DEF Begun
<1>2. turn[t].channel \in Channels /\ turn[t].user \in Users
  BY <1>1, TurnAssumption
<1> QED
  BY <1>2 DEF Key

\* The steps of a turn about actions.
Acting(t) ==
  \/ Propose(t) \/ TakeLatest(t) \/ NothingPending(t) \/ Execute(t) \/ ExecuteRefused(t)
  \/ Settle(t) \/ ExecutionFails(t)

\* The steps of a turn that neither begin it nor touch conversations.
Quiet(t) ==
  \/ ReadHistory(t) \/ Shortcut(t) \/ Detect(t) \/ AnswerDenied(t) \/ Gather(t)
  \/ Acting(t) \/ AuditQuery(t) \/ StoreUserMessage(t) \/ StoreAssistantMessage(t)
  \/ ExtractMemories(t) \/ RememberSaid(t) \/ AllRemembered(t) \/ AuditResponse(t)
  \/ SendReply(t) \/ TurnFails(t) \/ ExtractionFails(t) \/ SpoiltFails(t)

BeforeHistory == {"away", "greet", "greet-open", "find", "open", "history"}

\* What they have in common.
LEMMA QuietSteps ==
  ASSUME Begun, NEW t \in Turns, Quiet(t)
  PROVE  /\ turn' = turn /\ conversations' = conversations /\ split' = split
         /\ stage' \in [Turns -> Stages]
         /\ \A s \in Turns \ {t} : stage'[s] = stage[s]
         /\ stage[t] # "away" /\ stage'[t] \notin BeforeHistory
<1> USE DEF Begun, GoOn, BeforeHistory, Stages
<1>1. CASE Shortcut(t)
  BY <1>1 DEF Shortcut, Deny, keptVars
<1>2. CASE Detect(t)
  BY <1>2 DEF Detect, Deny, keptVars, Intents
<1>3. CASE AnswerDenied(t) \/ Gather(t) \/ ReadHistory(t) \/ AuditQuery(t) \/ AllRemembered(t)
  BY <1>3 DEF AnswerDenied, Gather, ButAnswer, ReadHistory, AuditQuery, AllRemembered, keptVars,
              turnLogs
<1>4. CASE Acting(t)
  BY <1>4 DEF Acting, Propose, TakeLatest, NothingPending, Execute, ExecuteRefused, Settle,
              ExecutionFails, ButAnswer, ButActions, keptVars, turnLogs
<1>5. CASE StoreUserMessage(t) \/ StoreAssistantMessage(t)
  BY <1>5 DEF StoreUserMessage, StoreAssistantMessage, turnLogs
<1>6. CASE ExtractMemories(t) \/ RememberSaid(t)
  BY <1>6 DEF ExtractMemories, RememberSaid, turnVars, keptVars, turnLogs
<1>7. CASE AuditResponse(t) \/ SendReply(t)
  BY <1>7 DEF AuditResponse, SendReply, keptVars
<1>8. CASE TurnFails(t) \/ ExtractionFails(t) \/ SpoiltFails(t)
  BY <1>8 DEF TurnFails, ExtractionFails, SpoiltFails, ButAnswer, Under, keptVars, turnLogs
<1> QED
  BY <1>1, <1>2, <1>3, <1>4, <1>5, <1>6, <1>7, <1>8 DEF Quiet

\* The steps of a turn, by what they may change.
LEMMA TurnCases ==
  ASSUME NEW t \in Turns, Turn(t)
  PROVE  \/ Arrive(t) \/ FindConversation(t) \/ NoConversation(t) \/ OpenConversation(t)
         \/ Quiet(t)
  BY DEF Turn, Quiet, Acting

\* A turn that has arrived is one of the sayings.
LEMMA BegunNext == ASSUME Begun, [ApiNext]_apiVars PROVE Begun'
<1>1. ASSUME NEW t \in Turns, Arrive(t) PROVE Begun'
  <2>1. PICK saying \in Sayings :
          /\ turn' = [turn EXCEPT ![t] = saying]
          /\ stage' = [stage EXCEPT ![t] = IF saying.channel = "whatsapp" THEN "greet"
                                                                          ELSE "find"]
          /\ conversations' = conversations
    BY <1>1 DEF Arrive, GoOn, keptVars
  <2> QED
    BY <2>1 DEF Begun, Stages
<1>2. ASSUME NEW t \in Turns, FindConversation(t) \/ NoConversation(t) PROVE Begun'
  BY <1>2 DEF FindConversation, NoConversation, Looking, AfterConversation, GoOn, Begun, Stages,
              keptVars
<1>3. ASSUME NEW t \in Turns, OpenConversation(t) PROVE Begun'
  <2>1. stage[t] # "away" /\ Key(t) \in Channels \X Users
    BY <1>3, KeyType DEF OpenConversation, Opening
  <2>2. conversations' \in Seq(Channels \X Users)
    BY <1>3, <2>1 DEF OpenConversation, Begun
  <2> QED
    BY <1>3, <2>1, <2>2 DEF OpenConversation, AfterConversation, GoOn, Begun, Stages
<1>4. ASSUME NEW t \in Turns, Quiet(t) PROVE Begun'
  BY <1>4, QuietSteps DEF Begun
<1>5. (\E i \in pending : ExpirePending(i)) => UNCHANGED <<stage, turn, conversations>>
  BY DEF ExpirePending, ButActions
<1>6. UNCHANGED turnVars => UNCHANGED <<stage, turn, conversations>>
  BY DEF turnVars, keptVars
<1>7. UNCHANGED <<stage, turn, conversations>> => Begun'
  BY DEF Begun
<1>8. CASE Talk
  BY <1>8, <1>1, <1>2, <1>3, <1>4, <1>5, <1>7, TurnCases DEF Talk, TurnNext
<1>9. CASE CallAccounts \/ Analyse \/ ListPayments \/ LimitRequests \/ UNCHANGED apiVars
  BY <1>9, <1>6, <1>7 DEF CallAccounts, Analyse, ListPayments, LimitRequests, apiVars
<1> QED
  BY <1>8, <1>9 DEF ApiNext

-----------------------------------------------------------------------------
(* Conversations *)

\* A turn that is about to open a conversation, and did not cross another at it, is
\* the only one, and the conversation is still missing.
FoundNone ==
  \A t \in Turns :
    Opening(t) /\ Key(t) \notin split =>
      /\ Rows(Key(t)) = {}
      /\ \A s \in Turns \ {t} : Opening(s) => Key(s) # Key(t)

\* Every step keeps the conversations apart, and knows who has found none.
LEMMA ConversationsNext ==
  ASSUME Begun, FoundNone, OneConversation, [ApiNext]_apiVars
  PROVE  FoundNone' /\ OneConversation'
<1>1. ASSUME NEW t \in Turns, Arrive(t) PROVE FoundNone' /\ OneConversation'
  <2>1. /\ conversations' = conversations /\ split' = split
        /\ \A s \in Turns \ {t} : stage'[s] = stage[s] /\ turn'[s] = turn[s]
        /\ stage'[t] \in {"greet", "find"}
    BY <1>1 DEF Arrive, GoOn, keptVars, Begun
  <2> QED
    BY <2>1 DEF FoundNone, OneConversation, Opening, Key, Rows
<1>2. ASSUME NEW t \in Turns, FindConversation(t) PROVE FoundNone' /\ OneConversation'
  <2>1. /\ conversations' = conversations /\ split' = split /\ turn' = turn
        /\ \A s \in Turns \ {t} : stage'[s] = stage[s]
        /\ stage'[t] \in {"find", "history"}
    BY <1>2 DEF FindConversation, Looking, AfterConversation, GoOn, keptVars, turnLogs, Begun
  <2> QED
    BY <2>1 DEF FoundNone, OneConversation, Opening, Key, Rows
<1>3. ASSUME NEW t \in Turns, NoConversation(t) PROVE FoundNone' /\ OneConversation'
  <2>1. /\ conversations' = conversations /\ turn' = turn
        /\ \A s \in Turns \ {t} : stage'[s] = stage[s]
        /\ split \subseteq split' /\ Rows(Key(t)) = {}
        /\ (\E s \in Turns \ {t} : Opening(s) /\ Key(s) = Key(t)) => Key(t) \in split'
    BY <1>3 DEF NoConversation, GoOn, keptVars, Begun
  <2>2. FoundNone'
    <3> SUFFICES ASSUME NEW s \in Turns, Opening(s)', Key(s) \notin split'
                 PROVE  /\ Rows(Key(s)) = {}
                        /\ \A r \in Turns \ {s} : Opening(r)' => Key(r) # Key(s)
      BY <2>1 DEF FoundNone, Key, Rows
    <3>1. CASE s = t
      BY <3>1, <2>1 DEF Opening
    <3>2. CASE s # t
      BY <3>2, <2>1 DEF Opening, FoundNone
    <3> QED
      BY <3>1, <3>2
  <2>3. OneConversation'
    BY <2>1 DEF OneConversation
  <2> QED
    BY <2>2, <2>3
<1>4. ASSUME NEW t \in Turns, OpenConversation(t) PROVE FoundNone' /\ OneConversation'
  <2>1. /\ turn' = turn /\ split' = split /\ Opening(t)
        /\ \A s \in Turns \ {t} : stage'[s] = stage[s]
        /\ stage'[t] \in {"find", "history"}
    BY <1>4 DEF OpenConversation, AfterConversation, GoOn, turnLogs, Begun
  <2>2. stage[t] # "away"
    BY <2>1 DEF Opening
  <2>3. PICK key \in Channels \X Users : key = Key(t)
    BY <2>2, KeyType
  <2>4. /\ DOMAIN conversations = 1..Len(conversations) /\ Len(conversations) \in Nat
        /\ DOMAIN conversations' = 1..(Len(conversations) + 1)
        /\ \A i \in DOMAIN conversations : conversations'[i] = conversations[i]
        /\ conversations'[Len(conversations) + 1] = key
    BY <1>4, <2>3 DEF OpenConversation, Begun
  <2>5. FoundNone'
    <3> SUFFICES ASSUME NEW s \in Turns, Opening(s)', Key(s) \notin split
                 PROVE  /\ Rows(Key(s))' = {}
                        /\ \A r \in Turns \ {s} : Opening(r)' => Key(r) # Key(s)
      BY <2>1 DEF FoundNone, Key
    <3>1. s # t /\ Opening(s)
      BY <2>1 DEF Opening
    <3>2. Key(s) # key /\ Rows(Key(s)) = {}
      BY <3>1, <2>1, <2>3 DEF FoundNone
    <3>3. Rows(Key(s))' = {}
      BY <3>2, <2>1, <2>4 DEF Rows, Key
    <3> QED
      BY <3>1, <3>3, <2>1 DEF FoundNone, Opening
  <2>6. OneConversation'
    <3>1. key \in split \/ \A i \in DOMAIN conversations : conversations[i] # key
      BY <2>1, <2>3 DEF FoundNone, Rows
    <3> QED
      BY <3>1, <2>1, <2>4 DEF OneConversation
  <2> QED
    BY <2>5, <2>6
<1>5. ASSUME NEW t \in Turns, Quiet(t) PROVE FoundNone' /\ OneConversation'
  <2>1. /\ turn' = turn /\ conversations' = conversations /\ split' = split
        /\ \A s \in Turns \ {t} : stage'[s] = stage[s]
        /\ stage'[t] \notin BeforeHistory
    BY <1>5, QuietSteps
  <2> QED
    BY <2>1 DEF FoundNone, OneConversation, Opening, Key, Rows, BeforeHistory
<1>6. (\E i \in pending : ExpirePending(i)) => UNCHANGED <<stage, turn, conversations, split>>
  BY DEF ExpirePending, ButActions, turnLogs
<1>7. UNCHANGED turnVars => UNCHANGED <<stage, turn, conversations, split>>
  BY DEF turnVars, keptVars, turnLogs
<1>8. UNCHANGED <<stage, turn, conversations, split>> => FoundNone' /\ OneConversation'
  BY DEF FoundNone, OneConversation, Opening, Key, Rows
<1>9. CASE Talk
  BY <1>9, <1>1, <1>2, <1>3, <1>4, <1>5, <1>6, <1>8, TurnCases DEF Talk, TurnNext
<1>10. CASE CallAccounts \/ Analyse \/ ListPayments \/ LimitRequests \/ UNCHANGED apiVars
  BY <1>10, <1>7, <1>8 DEF CallAccounts, Analyse, ListPayments, LimitRequests, apiVars
<1> QED
  BY <1>9, <1>10 DEF ApiNext

\* For any number of messages that come in side by side: a user has two conversations
\* on a channel only if two requests had both found none before either opened it.
THEOREM ConversationsOpenedOnce == ApiSpec => []OneConversation
<1>1. ApiInit => Begun /\ FoundNone /\ OneConversation
  BY DEF ApiInit, TurnInit, Begun, Stages, FoundNone, OneConversation, Opening, Rows
<1>2. Begun /\ FoundNone /\ OneConversation /\ [ApiNext]_apiVars
        => Begun' /\ FoundNone' /\ OneConversation'
  BY BegunNext, ConversationsNext
<1> QED
  BY <1>1, <1>2, PTL DEF ApiSpec

-----------------------------------------------------------------------------
(* The guard *)

\* Stages in which the answer is still open, and those of a turn that writes.
Undecided ==
  BeforeHistory \cup {"shortcut", "detect", "deny", "propose", "confirm", "execute", "settle",
                      "cancel", "close", "gather"}

Writing == {"propose", "confirm", "execute", "settle"}

ActionsTyped ==
  /\ reply \in [Turns -> Replies]
  /\ actions \in Seq(Turns) /\ pending \subseteq DOMAIN actions
  /\ inHand \in [Turns -> {0} \cup DOMAIN actions]
  /\ executed \subseteq Turns \X DOMAIN actions

\* What a turn has written, or is about to, it does over HTTP, with an action of its user.
Written(t) ==
  /\ stage[t] \in Writing => turn[t].channel = "http"
  /\ stage[t] \in {"execute", "settle", "close"} => inHand[t] # 0
  /\ stage[t] = "settle" => <<t, inHand[t]>> \in executed
  /\ \A i \in DOMAIN actions :
       /\ actions[i] = t => stage[t] # "away" /\ turn[t].channel = "http"
       /\ <<t, i>> \in executed => turn[t].channel = "http" /\ inHand[t] = i
       /\ inHand[t] = i =>
            stage[t] \notin BeforeHistory /\ turn[actions[i]].user = turn[t].user
       /\ inHand[t] = i => stage[t] \notin {"shortcut", "detect", "confirm", "cancel"}

\* Only the guard says "denied", to a turn it has on record; who is told "executed" is
\* told so behind the effects and the status.
Told(t) ==
  /\ stage[t] \in Undecided \cup {"failed"} => reply[t] = "none"
  /\ reply[t] = "denied" => t \in blocked
  /\ stage[t] = "deny" => t \in blocked
  /\ t \in blocked => /\ turn[t].channel = "whatsapp"
                      /\ stage[t] \notin Undecided \ {"deny"}
                      /\ stage[t] \notin {"deny", "failed"} => reply[t] = "denied"
  /\ reply[t] = "executed" => <<t, inHand[t]>> \in executed /\ inHand[t] \notin pending

Guarded(t) == Written(t) /\ Told(t)

GuardInv == ActionsTyped /\ \A t \in Turns : Guarded(t)

\* The guard of each turn gives the property.
LEMMA GuardEnough == ASSUME GuardInv PROVE OnlyTheAppWrites
<1> SUFFICES ASSUME NEW t \in Turns
             PROVE  /\ DenialsOnRecord(t)
                    /\ \A i \in DOMAIN actions :
                         /\ actions[i] = t => turn[t].channel = "http"
                         /\ <<t, i>> \in executed =>
                              turn[t].channel = "http" /\ turn[actions[i]].user = turn[t].user
                    /\ reply[t] = "executed" =>
                         <<t, inHand[t]>> \in executed /\ inHand[t] \notin pending
  BY DEF OnlyTheAppWrites
<1>1. Written(t) /\ Told(t)
  BY DEF GuardInv, Guarded
<1>2. DenialsOnRecord(t)
  BY <1>1 DEF Written, Told, DenialsOnRecord
<1> QED
  BY <1>1, <1>2 DEF Written, Told

\* The rows of pending_actions are only added to, by the turn that moves.
Adds(t) ==
  /\ \/ actions' = actions /\ pending' \subseteq pending
     \/ actions' = Append(actions, t) /\ pending' = pending \cup {Len(actions) + 1}
  /\ executed \subseteq executed' /\ executed' \subseteq executed \cup {<<t, inHand[t]>>}

\* What that means for the rows that were there.
LEMMA RowsStay ==
  ASSUME ActionsTyped, NEW t \in Turns, Adds(t)
  PROVE  /\ actions' \in Seq(Turns)
         /\ \A i \in DOMAIN actions : i \in DOMAIN actions' /\ actions'[i] = actions[i]
         /\ \A i \in DOMAIN actions' \ DOMAIN actions :
              /\ i = Len(actions) + 1 /\ i # 0
              /\ i \in pending' /\ actions' = Append(actions, t) /\ actions'[i] = t
         /\ \A i \in DOMAIN actions : i \in pending' => i \in pending
         /\ pending' \subseteq DOMAIN actions' /\ 0 \notin DOMAIN actions'
<1>1. PICK n \in Nat : n = Len(actions) /\ DOMAIN actions = 1..n
  BY DEF ActionsTyped
<1>2. CASE actions' = actions /\ pending' \subseteq pending
  BY <1>1, <1>2 DEF ActionsTyped
<1>3. CASE actions' = Append(actions, t) /\ pending' = pending \cup {Len(actions) + 1}
  <2>1. /\ actions' \in Seq(Turns) /\ DOMAIN actions' = 1..(n + 1) /\ actions'[n + 1] = t
        /\ \A i \in 1..n : actions'[i] = actions[i]
    BY <1>1, <1>3 DEF ActionsTyped
  <2> QED
    BY <1>1, <1>3, <2>1 DEF ActionsTyped
<1> QED
  BY <1>2, <1>3 DEF Adds

\* The turns that do not move.
LEMMA OthersGuarded ==
  ASSUME GuardInv, NEW t \in Turns, NEW s \in Turns \ {t}, Adds(t),
         turn' = turn \/ stage[t] = "away",
         \A r \in Turns \ {t} : stage'[r] = stage[r] /\ turn'[r] = turn[r],
         inHand'[s] = inHand[s], reply'[s] = reply[s], s \in blocked' <=> s \in blocked
  PROVE  Guarded(s)'
<1>1. Written(s) /\ Told(s) /\ ActionsTyped
  BY DEF GuardInv, Guarded
<1>2. /\ \A i \in DOMAIN actions : i \in DOMAIN actions' /\ actions'[i] = actions[i]
      /\ \A i \in DOMAIN actions' \ DOMAIN actions : actions'[i] = t
      /\ \A i \in DOMAIN actions : i \in pending' => i \in pending
  BY <1>1, RowsStay
<1>3. \A i \in DOMAIN actions : turn'[actions[i]] = turn[actions[i]]
  <2> SUFFICES ASSUME NEW i \in DOMAIN actions PROVE turn'[actions[i]] = turn[actions[i]]
    OBVIOUS
  <2>1. actions[i] \in Turns
    BY DEF GuardInv, ActionsTyped
  <2>2. Written(actions[i])
    BY <2>1 DEF GuardInv, Guarded
  <2>3. stage[actions[i]] # "away"
    BY <2>2 DEF Written
  <2> QED
    BY <2>1, <2>3
<1>4. \A i : <<s, i>> \in executed' <=> <<s, i>> \in executed
  BY DEF Adds
<1>5. inHand[s] \in {0} \cup DOMAIN actions /\ executed \subseteq Turns \X DOMAIN actions
  BY <1>1 DEF ActionsTyped
<1>6. Written(s)'
  <2>1. \A i \in DOMAIN actions' : inHand[s] = i => i \in DOMAIN actions
    BY <1>1, <1>5, RowsStay
  <2>2. \A i : <<s, i>> \in executed' => i \in DOMAIN actions
    BY <1>4, <1>5
  <2> QED
    BY <1>1, <1>2, <1>3, <1>4, <2>1, <2>2 DEF Written
<1>7. Told(s)'
  BY <1>1, <1>2, <1>4, <1>5 DEF Told
<1> QED
  BY <1>6, <1>7 DEF Guarded

\* The steps that leave the actions alone, and the answer, unless they fail.
Recording(t) ==
  \/ FindConversation(t) \/ NoConversation(t) \/ OpenConversation(t) \/ ReadHistory(t)
  \/ AuditQuery(t) \/ StoreUserMessage(t) \/ StoreAssistantMessage(t) \/ ExtractMemories(t)
  \/ RememberSaid(t) \/ AllRemembered(t) \/ AuditResponse(t) \/ SendReply(t)
  \/ TurnFails(t) \/ ExtractionFails(t) \/ SpoiltFails(t)

\* A step that leaves the answer alone denies and proposes nothing.
LEMMA RecordingKeeps ==
  ASSUME Begun, GuardInv, NEW t \in Turns, Recording(t)
  PROVE  GuardInv'
<1> USE DEF Begun, GoOn, Undecided, Writing, BeforeHistory, Answer
<1>1. /\ turn' = turn /\ blocked' = blocked /\ UNCHANGED actionVars
      /\ \A s \in Turns \ {t} : stage'[s] = stage[s]
      /\ \/ stage[t] \in BeforeHistory \ {"away"}
            /\ stage'[t] \in (BeforeHistory \ {"away"}) \cup {"shortcut"}
            /\ reply' = reply
         \/ /\ stage[t] \notin Undecided \cup {"failed"}
            /\ stage'[t] \notin Undecided \cup {"failed"}
            /\ reply' = reply
         \/ /\ stage[t] \notin {"away", "failed"} /\ stage'[t] = "failed"
            /\ reply' = [reply EXCEPT ![t] = "none"]
  <2>1. CASE FindConversation(t) \/ NoConversation(t) \/ OpenConversation(t) \/ ReadHistory(t)
    BY <2>1 DEF FindConversation, NoConversation, OpenConversation, ReadHistory, Looking, Opening,
                AfterConversation, keptVars, turnLogs
  <2>2. CASE AuditQuery(t) \/ StoreUserMessage(t) \/ StoreAssistantMessage(t)
    BY <2>2 DEF AuditQuery, StoreUserMessage, StoreAssistantMessage, keptVars, turnLogs
  <2>3. CASE ExtractMemories(t) \/ RememberSaid(t) \/ AllRemembered(t)
    BY <2>3 DEF ExtractMemories, RememberSaid, AllRemembered, turnVars, keptVars, turnLogs
  <2>4. CASE AuditResponse(t) \/ SendReply(t)
    BY <2>4 DEF AuditResponse, SendReply, keptVars
  <2>5. CASE TurnFails(t) \/ ExtractionFails(t) \/ SpoiltFails(t)
    BY <2>5 DEF TurnFails, ExtractionFails, SpoiltFails, ButAnswer, Under, keptVars, turnLogs
  <2> QED
    BY <2>1, <2>2, <2>3, <2>4, <2>5 DEF Recording
<1>2. UNCHANGED <<actions, pending, inHand, executed>>
  BY <1>1 DEF actionVars
<1>3. ActionsTyped /\ Written(t) /\ Told(t) /\ reply \in [Turns -> Replies]
  BY DEF GuardInv, Guarded, ActionsTyped
<1>4. ActionsTyped'
  BY <1>1, <1>2, <1>3 DEF ActionsTyped, Replies
<1>5. \A s \in Turns \ {t} : Guarded(s)'
  BY <1>1, <1>2, <1>3, OthersGuarded DEF Adds
<1>6. Written(t)'
  BY <1>1, <1>2, <1>3 DEF Written
<1>7. Told(t)'
  BY <1>1, <1>2, <1>3 DEF Told
<1> QED
  BY <1>4, <1>5, <1>6, <1>7 DEF GuardInv, Guarded

\* The shortcut and the intent: what is refused is recorded, and what goes on to
\* propose or to confirm came over HTTP.
LEMMA DecidingKeeps ==
  ASSUME Begun, GuardInv, NEW t \in Turns,
         Shortcut(t) \/ Detect(t) \/ AnswerDenied(t) \/ Gather(t)
  PROVE  GuardInv'
<1> USE DEF Begun, GoOn, Undecided, Writing, BeforeHistory
<1>1. /\ turn' = turn /\ UNCHANGED <<actions, pending, inHand, executed>>
      /\ \A s \in Turns \ {t} : stage'[s] = stage[s]
      /\ stage[t] \in {"shortcut", "detect", "deny", "gather"}
  BY DEF Shortcut, Detect, AnswerDenied, Gather, ButAnswer, Deny, Intents, keptVars, actionVars
<1>2. stage[t] # "away" /\ turn[t].channel \in Channels
  BY <1>1, KeyType
<1>3. \/ /\ stage[t] \in {"shortcut", "detect"} /\ stage'[t] = "deny"
         /\ blocked' = blocked \cup {t} /\ reply' = reply /\ turn[t].channel = "whatsapp"
      \/ /\ stage[t] = "deny" /\ stage'[t] = "query" /\ blocked' = blocked
         /\ reply' = [reply EXCEPT ![t] = "denied"]
      \/ /\ stage[t] \in {"detect", "gather"} /\ stage'[t] = "query" /\ blocked' = blocked
         /\ \E what \in {"answer", "unsupported"} : reply' = [reply EXCEPT ![t] = what]
      \/ /\ stage[t] \in {"shortcut", "detect"}
         /\ stage'[t] \in {"detect", "gather", "propose", "confirm", "cancel"}
         /\ blocked' = blocked /\ reply' = reply
         /\ stage'[t] \in {"propose", "confirm"} => turn[t].channel # "whatsapp"
  <2>1. CASE Shortcut(t)
    BY <2>1 DEF Shortcut, Deny, Blocked, BlockedIntents
  <2>2. CASE Detect(t)
    BY <2>2 DEF Detect, Deny, Blocked, BlockedIntents, Intents, Answer
  <2>3. CASE AnswerDenied(t) \/ Gather(t)
    BY <2>3 DEF AnswerDenied, Gather, ButAnswer, Answer, turnLogs
  <2> QED
    BY <2>1, <2>2, <2>3
<1>4. ActionsTyped /\ Written(t) /\ Told(t) /\ reply \in [Turns -> Replies]
  BY DEF GuardInv, Guarded, ActionsTyped
<1>5. ActionsTyped'
  BY <1>1, <1>3, <1>4 DEF ActionsTyped, Replies
<1>6. \A s \in Turns \ {t} : Guarded(s)'
  <2>1. \A s \in Turns \ {t} : reply'[s] = reply[s] /\ (s \in blocked' <=> s \in blocked)
    BY <1>3, <1>4
  <2> QED
    BY <1>1, <2>1, OthersGuarded DEF Adds
<1>7. Written(t)'
  BY <1>1, <1>2, <1>3, <1>4 DEF Written, Channels
<1>8. Told(t)'
  BY <1>1, <1>3, <1>4 DEF Told
<1> QED
  BY <1>5, <1>6, <1>7, <1>8 DEF GuardInv, Guarded

\* What proposes, confirms or cancels.
LEMMA ActingKeeps ==
  ASSUME Begun, GuardInv, NEW t \in Turns, Acting(t)
  PROVE  GuardInv'
<1> USE DEF GoOn, Undecided, Writing, BeforeHistory
<1>1. /\ turn' = turn /\ blocked' = blocked
      /\ \A s \in Turns \ {t} : stage'[s] = stage[s] /\ inHand'[s] = inHand[s]
      /\ stage[t] \in {"propose", "confirm", "execute", "settle", "cancel", "close"}
  BY DEF Acting, Propose, TakeLatest, NothingPending, Execute, ExecuteRefused, Settle,
         ExecutionFails, ButAnswer, ButActions, keptVars, actionVars, turnLogs, Begun, GuardInv,
         ActionsTyped
<1>2. /\ ActionsTyped /\ Written(t) /\ Told(t) /\ reply \in [Turns -> Replies]
      /\ inHand \in [Turns -> {0} \cup DOMAIN actions] /\ stage \in [Turns -> Stages]
      /\ executed \subseteq Turns \X DOMAIN actions
  BY DEF GuardInv, Guarded, ActionsTyped, Begun
<1>3. t \notin blocked
  BY <1>1, <1>2 DEF Told
<1>4. /\ stage[t] \in {"execute", "settle"} => <<t, inHand[t]>> \in Turns \X DOMAIN actions
      /\ stage[t] = "close" => inHand[t] \in DOMAIN actions
  BY <1>1, <1>2 DEF Written
<1>5. Adds(t)
  BY DEF Adds, Acting, Propose, TakeLatest, NothingPending, Execute, ExecuteRefused, Settle,
         ExecutionFails, ButAnswer, ButActions, keptVars, actionVars
<1>6. \/ reply' = reply
      \/ \E what \in Replies \ {"denied"} : reply' = [reply EXCEPT ![t] = what]
  BY DEF Acting, Propose, TakeLatest, NothingPending, Execute, ExecuteRefused, Settle,
         ExecutionFails, ButAnswer, ButActions, Answer, Replies
<1>7. \A s \in Turns \ {t} : Guarded(s)'
  <2>1. \A s \in Turns \ {t} : reply'[s] = reply[s]
    BY <1>2, <1>6
  <2> QED
    BY <1>1, <1>5, <2>1, OthersGuarded
<1>8. /\ actions' \in Seq(Turns)
      /\ \A i \in DOMAIN actions : i \in DOMAIN actions' /\ actions'[i] = actions[i]
      /\ \A i \in DOMAIN actions' \ DOMAIN actions :
           i # 0 /\ actions' = Append(actions, t) /\ actions'[i] = t
      /\ pending' \subseteq DOMAIN actions'
  BY <1>2, <1>5, RowsStay
<1>9. reply' \in [Turns -> Replies]
  BY <1>2, <1>6
<1>10. CASE Propose(t)
  <2>1. /\ stage[t] = "propose" /\ stage'[t] = "query" /\ UNCHANGED <<inHand, executed>>
        /\ reply'[t] \in {"asked", "refused", "proposed"}
    BY <1>2, <1>10 DEF Propose, Answer
  <2>2. ActionsTyped'
    BY <1>2, <1>8, <1>9, <2>1 DEF ActionsTyped
  <2>3. Written(t)'
    BY <1>1, <1>2, <1>8, <2>1 DEF Written
  <2>4. Told(t)'
    BY <1>1, <1>3, <2>1 DEF Told
  <2> QED
    BY <1>7, <2>2, <2>3, <2>4 DEF GuardInv, Guarded
<1>11. CASE TakeLatest(t)
  <2>1. PICK i \in pending : IsLatest(turn[t].user, i) /\ inHand' = [inHand EXCEPT ![t] = i]
    BY <1>11 DEF TakeLatest
  <2>2. /\ stage[t] \in {"confirm", "cancel"}
        /\ stage'[t] = IF stage[t] = "confirm" THEN "execute" ELSE "close"
        /\ UNCHANGED <<actions, pending, executed, reply>>
    BY <1>2, <1>11 DEF TakeLatest
  <2>3. i \in DOMAIN actions /\ turn[actions[i]].user = turn[t].user
    BY <1>2, <2>1 DEF IsLatest, Open, ActionsTyped
  <2>4. ActionsTyped'
    BY <1>2, <2>1, <2>2, <2>3 DEF ActionsTyped
  <2>5. inHand'[t] = i /\ i # 0
    BY <1>2, <2>1, <2>3 DEF ActionsTyped
  <2>6. \A j : <<t, j>> \notin executed
    BY <1>2, <2>2 DEF Written
  <2>7. Written(t)'
    BY <1>1, <1>2, <2>2, <2>3, <2>5, <2>6 DEF Written
  <2>8. Told(t)'
    BY <1>1, <1>2, <1>3, <2>2 DEF Told
  <2> QED
    BY <1>7, <2>4, <2>7, <2>8 DEF GuardInv, Guarded
<1>12. CASE NothingPending(t) \/ ExecuteRefused(t)
  <2>1. /\ stage'[t] = "query" /\ UNCHANGED <<actions, pending, inHand, executed>>
        /\ reply'[t] \in {"nothing", "refused"}
    BY <1>2, <1>12 DEF NothingPending, ExecuteRefused, Answer, ButAnswer, keptVars, actionVars
  <2>2. ActionsTyped' /\ Written(t)'
    BY <1>1, <1>2, <1>9, <2>1 DEF ActionsTyped, Written
  <2>3. Told(t)'
    BY <1>1, <1>3, <2>1 DEF Told
  <2> QED
    BY <1>7, <2>2, <2>3 DEF GuardInv, Guarded
<1>13. CASE Execute(t) \/ ExecutionFails(t)
  <2>1. /\ stage[t] = "execute" /\ UNCHANGED <<actions, pending, inHand>>
        /\ \/ stage'[t] = "settle" /\ reply' = reply /\ <<t, inHand[t]>> \in executed'
           \/ stage'[t] = "query" /\ reply'[t] = "refused"
        /\ executed' \subseteq executed \cup {<<t, inHand[t]>>}
    BY <1>2, <1>13 DEF Execute, ExecutionFails, Answer
  <2>2. inHand[t] \in DOMAIN actions
    BY <1>4, <2>1
  <2>3. ActionsTyped'
    BY <1>2, <1>9, <2>1, <2>2 DEF ActionsTyped
  <2>4. Written(t)'
    BY <1>1, <1>2, <2>1 DEF Written
  <2>5. Told(t)'
    BY <1>1, <1>2, <1>3, <2>1 DEF Told
  <2> QED
    BY <1>7, <2>3, <2>4, <2>5 DEF GuardInv, Guarded
<1>14. CASE Settle(t)
  <2>1. /\ stage[t] \in {"settle", "close"} /\ stage'[t] = "query"
        /\ UNCHANGED <<actions, inHand, executed>> /\ pending' = pending \ {inHand[t]}
        /\ reply'[t] = IF stage[t] = "settle" THEN "executed" ELSE "cancelled"
    BY <1>2, <1>14 DEF Settle, Answer
  <2>2. ActionsTyped' /\ Written(t)'
    BY <1>1, <1>2, <1>9, <2>1 DEF ActionsTyped, Written
  <2>3. Told(t)'
    BY <1>1, <1>2, <1>3, <2>1 DEF Written, Told
  <2> QED
    BY <1>7, <2>2, <2>3 DEF GuardInv, Guarded
<1> QED
  BY <1>10, <1>11, <1>12, <1>13, <1>14 DEF Acting

\* Every step keeps the guard of the channel.
LEMMA GuardNext == ASSUME Begun, GuardInv, [ApiNext]_apiVars PROVE GuardInv'
<1>1. ASSUME NEW t \in Turns, Arrive(t) PROVE GuardInv'
  <2>1. /\ \A s \in Turns \ {t} : stage'[s] = stage[s] /\ turn'[s] = turn[s]
        /\ stage[t] = "away" /\ stage'[t] \in {"greet", "find"}
        /\ reply' = reply /\ blocked' = blocked
        /\ UNCHANGED <<actions, pending, inHand, executed>>
    BY <1>1 DEF Arrive, GoOn, Begun, keptVars, actionVars
  <2>2. ActionsTyped /\ Written(t) /\ Told(t)
    BY DEF GuardInv, Guarded
  <2>3. ActionsTyped'
    BY <2>1, <2>2 DEF ActionsTyped
  <2>4. \A s \in Turns \ {t} : Guarded(s)'
    BY <2>1, OthersGuarded DEF Adds
  <2>5. \A i \in DOMAIN actions : actions[i] # t /\ inHand[t] # i /\ <<t, i>> \notin executed
    BY <2>1, <2>2 DEF Written, BeforeHistory
  <2>6. Written(t)'
    BY <2>1, <2>5 DEF Written, Writing
  <2>7. Told(t)'
    BY <2>1, <2>2 DEF Told, Undecided, BeforeHistory
  <2> QED
    BY <2>3, <2>4, <2>6, <2>7 DEF GuardInv, Guarded
<1>2. ASSUME NEW t \in Turns, Turn(t) PROVE GuardInv'
  BY <1>1, <1>2, RecordingKeeps, DecidingKeeps, ActingKeeps DEF Turn, Recording, Acting
<1>3. ASSUME NEW i \in pending, ExpirePending(i) PROVE GuardInv'
  BY <1>3 DEF ExpirePending, ButActions, turnLogs, GuardInv, ActionsTyped, Guarded, Written, Told
<1>4. UNCHANGED turnVars => GuardInv'
  BY DEF turnVars, keptVars, actionVars, turnLogs, GuardInv, ActionsTyped, Guarded, Written, Told
<1>5. CASE Talk
  BY <1>5, <1>2, <1>3 DEF Talk, TurnNext
<1>6. CASE CallAccounts \/ Analyse \/ ListPayments \/ LimitRequests \/ UNCHANGED apiVars
  BY <1>6, <1>4 DEF CallAccounts, Analyse, ListPayments, LimitRequests, apiVars
<1> QED
  BY <1>5, <1>6 DEF ApiNext

\* Whatever is said over WhatsApp, in whatever order beside whatever else, and whatever
\* the language model takes it for: it proposes and executes nothing; a denial told is on record, and
\* a turn on record as denied is answered so or fails; what a user confirms over HTTP is
\* an action of that user.
THEOREM WhatsAppOnlyReads == ApiSpec => []OnlyTheAppWrites
<1>1. ApiInit => Begun /\ GuardInv
  BY DEF ApiInit, TurnInit, Begun, Stages, GuardInv, ActionsTyped, Guarded, Written, Told,
         Writing, Replies
<1>2. Begun /\ GuardInv /\ [ApiNext]_apiVars => Begun' /\ GuardInv'
  BY BegunNext, GuardNext
<1>3. GuardInv => OnlyTheAppWrites
  BY GuardEnough
<1> QED
  BY <1>1, <1>2, <1>3, PTL DEF ApiSpec

-----------------------------------------------------------------------------
(***************************************************************************)
(* The record of the turns, and the histories.                              *)
(*                                                                         *)
(* The argument: the messages of a turn are written by its own two steps, one  *)
(* after the other, in a row that carries its key (Recorded says which of     *)
(* them are there, stage by stage). A turn that was over when another began    *)
(* has both; they are in the one conversation of the key, and the last        *)
(* messages of a conversation hold a message or are all later (RecentHolds).  *)
(***************************************************************************)

\* The messages of a turn.
Asked(t) == {i \in DOMAIN messages : HasSaid(t, "USER", i)}
Given(t) == {i \in DOMAIN messages : HasSaid(t, "ASSISTANT", i)}

Answered == {"extract", "remember", "response", "send", "over"}

MessageRows == [conversation : Nat, turn : Turns, role : {"USER", "ASSISTANT"}]

MessagesTyped ==
  /\ messages \in Seq(MessageRows)
  /\ conversation \in [Turns -> Nat]
  /\ earlier \in [Turns -> SUBSET Turns]

\* What is said is said once, the question first, in a conversation of the turn's key.
SaidOnce(t) ==
  /\ \A i, j \in Asked(t) : i = j
  /\ \A i, j \in Given(t) : i = j
  /\ Given(t) # {} => Asked(t) # {}
  /\ \A i \in Asked(t), j \in Given(t) : i < j /\ messages[i].conversation = messages[j].conversation
  /\ \A i \in Asked(t) \cup Given(t) : messages[i].conversation \in Rows(Key(t))

\* What has been said, where a turn is.
SaidSoFar(t) ==
  /\ stage[t] \notin Answered \cup {"assistant", "failed"} => Asked(t) = {}
  /\ stage[t] \notin Answered \cup {"failed"} => Given(t) = {}
  /\ stage[t] = "assistant" =>
       Asked(t) # {} /\ \A i \in Asked(t) : messages[i].conversation = conversation[t]
  /\ stage[t] \in Answered => Given(t) # {}

\* What else is on record.
Audited(t) ==
  /\ stage[t] \in Answered \cup {"user", "assistant"} => t \in queried
  /\ stage[t] \in {"send", "over"} => t \in answered
  /\ t \in sent => stage[t] = "over"

\* Where it works, and what it has seen over.
Works(t) ==
  /\ stage[t] \notin (BeforeHistory \ {"history"}) \cup {"failed"} => conversation[t] \in Rows(Key(t))
  /\ earlier[t] \subseteq Overs
  /\ stage[t] = "away" => earlier[t] = {}

Recorded(t) == SaidOnce(t) /\ SaidSoFar(t) /\ Audited(t) /\ Works(t)

RecordInv == MessagesTyped /\ \A t \in Turns : Recorded(t)

\* A set without two different elements counts none or one.
LEMMA AtMostOne ==
  ASSUME NEW S, \A i, j \in S : i = j
  PROVE  \/ S = {} /\ Cardinality(S) = 0
         \/ S # {} /\ Cardinality(S) = 1
<1>1. CASE S = {}
  <2>1. Cardinality({}) = 0
    BY FS_EmptySet
  <2> QED
    BY ONLY <1>1, <2>1
<1>2. CASE S # {}
  <2>1. PICK x \in S : S = {x}
    BY <1>2
  <2>2. Cardinality({x}) = 1
    BY FS_Singleton
  <2> QED
    BY <1>2, <2>1, <2>2
<1> QED
  BY <1>1, <1>2

\* The record of the stages gives the property.
LEMMA RecordsEnough == ASSUME RecordInv PROVE RepliesAreOnRecord
<1> SUFFICES ASSUME NEW t \in Turns
             PROVE  /\ \A i \in Asked(t), j \in Given(t) :
                          i < j /\ messages[i].conversation = messages[j].conversation
                    /\ Cardinality(Given(t)) <= Cardinality(Asked(t)) /\ Cardinality(Asked(t)) <= 1
                    /\ t \in sent \/ stage[t] = "over" => Given(t) # {} /\ t \in queried \cap answered
  BY DEF RepliesAreOnRecord, Asked, Given
<1>1. Recorded(t)
  BY DEF RecordInv
<1>2. (\A i, j \in Asked(t) : i = j) /\ \A i, j \in Given(t) : i = j
  BY <1>1 DEF Recorded, SaidOnce
<1>3. \/ Asked(t) = {} /\ Cardinality(Asked(t)) = 0
      \/ Asked(t) # {} /\ Cardinality(Asked(t)) = 1
  BY ONLY <1>2, AtMostOne
<1>4. \/ Given(t) = {} /\ Cardinality(Given(t)) = 0
      \/ Given(t) # {} /\ Cardinality(Given(t)) = 1
  BY ONLY <1>2, AtMostOne
<1> QED
  BY <1>1, <1>3, <1>4 DEF Recorded, SaidOnce, SaidSoFar, Audited, Answered

-----------------------------------------------------------------------------
\* A turn that says nothing, in a step of its own or of another: the conversations are at
\* most added to, and it goes on, or has failed, with what it has to show.
LEMMA NothingSaid ==
  ASSUME RecordInv, NEW t \in Turns,
         messages' = messages, turn'[t] = turn[t],
         \A i \in DOMAIN conversations : i \in DOMAIN conversations' /\ conversations'[i] = conversations[i],
         \/ stage'[t] = stage[t] /\ conversation'[t] = conversation[t]
         \/ stage'[t] = "failed"
         \/ /\ stage[t] \notin Answered \cup {"assistant", "failed"}
            /\ stage'[t] \notin Answered \cup {"assistant", "away"}
         \/ stage[t] \in Answered /\ stage'[t] \in Answered
  PROVE  SaidOnce(t)' /\ SaidSoFar(t)'
<1>1. Asked(t)' = Asked(t) /\ Given(t)' = Given(t)
  BY DEF Asked, Given, HasSaid
<1>2. SaidOnce(t) /\ SaidSoFar(t)
  BY DEF RecordInv, Recorded
<1>3. \A i \in Rows(Key(t)) : i \in Rows(Key(t))'
  BY DEF Rows, Key
<1>4. SaidOnce(t)'
  BY <1>1, <1>2, <1>3 DEF SaidOnce
<1>5. SaidSoFar(t)'
  BY <1>1, <1>2 DEF SaidSoFar, Answered
<1> QED
  BY <1>4, <1>5

\* The steps after the conversation is found that say nothing.
Silent(t) ==
  \/ ReadHistory(t) \/ Shortcut(t) \/ Detect(t) \/ AnswerDenied(t) \/ Gather(t) \/ Acting(t)
  \/ AuditQuery(t)
  \/ ExtractMemories(t) \/ RememberSaid(t) \/ AllRemembered(t) \/ AuditResponse(t)
  \/ SendReply(t) \/ TurnFails(t) \/ ExtractionFails(t) \/ SpoiltFails(t)

\* A step that writes no message does not pass the stages that do.
LEMMA SilentSteps ==
  ASSUME Begun, RecordInv, NEW t \in Turns, Silent(t)
  PROVE  /\ UNCHANGED <<messages, conversation, earlier>>
         /\ \/ stage'[t] = stage[t] \/ stage'[t] = "failed"
            \/ /\ stage[t] \notin Answered \cup {"assistant", "failed"}
               /\ stage'[t] \notin Answered \cup {"assistant", "away"}
            \/ stage[t] \in Answered /\ stage'[t] \in Answered
         /\ stage[t] # "over"
         /\ stage[t] \notin (BeforeHistory \ {"history"}) \cup {"failed"} \/ stage'[t] = "failed"
         /\ Audited(t)'
         /\ \A s \in Turns \ {t} : /\ s \in queried' <=> s \in queried
                                   /\ s \in answered' <=> s \in answered
                                   /\ s \in sent' <=> s \in sent
<1>1. Audited(t) /\ stage \in [Turns -> Stages]
  BY DEF RecordInv, Recorded, Begun
<1> USE DEF GoOn, Answered, BeforeHistory, Audited
<1>2. CASE Shortcut(t) \/ AnswerDenied(t) \/ Gather(t) \/ ReadHistory(t) \/ AuditQuery(t)
  BY <1>1, <1>2 DEF Shortcut, AnswerDenied, Gather, ButAnswer, ReadHistory, AuditQuery, Deny, keptVars, turnLogs
<1>3. CASE Detect(t)
  BY <1>1, <1>3 DEF Detect, Deny, Intents, keptVars
<1>4. CASE Acting(t)
  BY <1>1, <1>4 DEF Acting, Propose, TakeLatest, NothingPending, Execute, ExecuteRefused, Settle,
                    ExecutionFails, ButAnswer, ButActions, keptVars, turnLogs
<1>5. CASE ExtractMemories(t) \/ RememberSaid(t) \/ AllRemembered(t)
  BY <1>1, <1>5 DEF ExtractMemories, RememberSaid, AllRemembered, turnVars, keptVars, turnLogs
<1>6. CASE AuditResponse(t) \/ SendReply(t)
  BY <1>1, <1>6 DEF AuditResponse, SendReply, keptVars
<1>7. CASE TurnFails(t) \/ ExtractionFails(t) \/ SpoiltFails(t)
  BY <1>1, <1>7 DEF TurnFails, ExtractionFails, SpoiltFails, ButAnswer, Under, keptVars, turnLogs
<1> QED
  BY <1>2, <1>3, <1>4, <1>5, <1>6, <1>7 DEF Silent

\* The turns that do not move.
LEMMA OthersRecorded ==
  ASSUME Begun, RecordInv, NEW t \in Turns, NEW s \in Turns \ {t},
         messages' = messages, turn'[s] = turn[s], conversation'[s] = conversation[s],
         stage'[s] = stage[s], earlier'[s] = earlier[s],
         stage \in [Turns -> Stages], stage' \in [Turns -> Stages], stage[t] # "over",
         \A r \in Turns \ {t} : stage'[r] = stage[r],
         s \in queried' <=> s \in queried, s \in answered' <=> s \in answered,
         s \in sent' <=> s \in sent,
         \A i \in DOMAIN conversations : i \in DOMAIN conversations' /\ conversations'[i] = conversations[i]
  PROVE  Recorded(s)'
<1>1. Recorded(s)
  BY DEF RecordInv
<1>2. SaidOnce(s)' /\ SaidSoFar(s)'
  BY NothingSaid
<1>3. Audited(s)'
  BY <1>1 DEF Recorded, Audited
<1>4. Works(s)'
  BY <1>1 DEF Recorded, Works, Overs, Rows, Key
<1> QED
  BY <1>2, <1>3, <1>4 DEF Recorded

\* So it leaves the record as it was.
LEMMA SilentRecorded ==
  ASSUME Begun, RecordInv, NEW t \in Turns, Silent(t)
  PROVE  RecordInv'
<1>1. /\ turn' = turn /\ conversations' = conversations
      /\ stage' \in [Turns -> Stages] /\ stage \in [Turns -> Stages]
      /\ \A s \in Turns \ {t} : stage'[s] = stage[s]
      /\ stage'[t] # "away"
  BY QuietSteps DEF Silent, Quiet, BeforeHistory, Begun
<1>2. /\ UNCHANGED <<messages, conversation, earlier>>
      /\ \/ stage'[t] = stage[t] \/ stage'[t] = "failed"
         \/ /\ stage[t] \notin Answered \cup {"assistant", "failed"}
            /\ stage'[t] \notin Answered \cup {"assistant", "away"}
         \/ stage[t] \in Answered /\ stage'[t] \in Answered
      /\ stage[t] # "over"
      /\ stage[t] \notin (BeforeHistory \ {"history"}) \cup {"failed"} \/ stage'[t] = "failed"
      /\ Audited(t)'
      /\ \A s \in Turns \ {t} : /\ s \in queried' <=> s \in queried
                                /\ s \in answered' <=> s \in answered
                                /\ s \in sent' <=> s \in sent
  BY SilentSteps
<1>3. ASSUME NEW s \in Turns \ {t} PROVE Recorded(s)'
  BY <1>1, <1>2, OthersRecorded
<1>4. Recorded(t)'
  <2>1. SaidOnce(t)' /\ SaidSoFar(t)'
    BY <1>1, <1>2, NothingSaid
  <2>2. Works(t)'
    <3>1. Works(t)
      BY DEF RecordInv, Recorded
    <3>2. Rows(Key(t))' = Rows(Key(t)) /\ Overs \subseteq Overs'
      BY <1>1, <1>2 DEF Rows, Key, Overs
    <3> QED
      BY <1>1, <1>2, <3>1, <3>2 DEF Works
  <2> QED
    BY <1>2, <2>1, <2>2 DEF Recorded
<1>5. MessagesTyped'
  BY <1>2 DEF RecordInv, MessagesTyped
<1> QED
  BY <1>3, <1>4, <1>5 DEF RecordInv

\* A turn that begins has said nothing, and looks back at those that are over.
LEMMA ArrivalRecorded ==
  ASSUME Begun, RecordInv, NEW t \in Turns, Arrive(t)
  PROVE  RecordInv'
<1>1. /\ UNCHANGED <<conversations, messages, conversation, queried, answered, sent>>
      /\ stage[t] = "away" /\ stage' \in [Turns -> Stages] /\ stage \in [Turns -> Stages]
      /\ stage'[t] \in {"greet", "find"}
      /\ \A s \in Turns \ {t} : stage'[s] = stage[s] /\ turn'[s] = turn[s] /\ earlier'[s] = earlier[s]
      /\ earlier'[t] = Overs /\ earlier' \in [Turns -> SUBSET Turns]
  BY DEF Arrive, GoOn, keptVars, Begun, Stages, RecordInv, MessagesTyped, Overs
<1>2. ASSUME NEW s \in Turns \ {t} PROVE Recorded(s)'
  BY <1>1, OthersRecorded
<1>3. Recorded(t)'
  <2>1. Recorded(t)
    BY DEF RecordInv
  <2>2. Asked(t)' = {} /\ Given(t)' = {}
    BY <1>1, <2>1 DEF Asked, Given, HasSaid, Recorded, SaidSoFar, Answered
  <2>3. SaidOnce(t)' /\ SaidSoFar(t)'
    BY <1>1, <2>2 DEF SaidOnce, SaidSoFar, Answered
  <2>4. Audited(t)' /\ Works(t)'
    BY <1>1, <2>1 DEF Recorded, Audited, Answered, Works, Overs, BeforeHistory
  <2> QED
    BY <2>3, <2>4 DEF Recorded
<1>4. MessagesTyped'
  BY <1>1 DEF RecordInv, MessagesTyped
<1> QED
  BY <1>2, <1>3, <1>4 DEF RecordInv

\* The steps that look for a conversation or open it.
LEMMA LookingRecorded ==
  ASSUME Begun, RecordInv, NEW t \in Turns,
         FindConversation(t) \/ NoConversation(t) \/ OpenConversation(t)
  PROVE  RecordInv'
<1>1. /\ UNCHANGED <<turn, messages, queried, answered, sent, earlier>>
      /\ stage[t] \in {"greet", "greet-open", "find", "open"}
      /\ stage' \in [Turns -> Stages] /\ stage \in [Turns -> Stages]
      /\ stage'[t] \in {"greet-open", "find", "open", "history"}
      /\ \A s \in Turns \ {t} : stage'[s] = stage[s] /\ conversation'[s] = conversation[s]
  BY DEF FindConversation, NoConversation, OpenConversation, Looking, Opening, AfterConversation,
         GoOn, keptVars, turnLogs, Begun, Stages, RecordInv, MessagesTyped
<1>2. /\ DOMAIN conversations = 1..Len(conversations) /\ Len(conversations) \in Nat
      /\ conversation \in [Turns -> Nat]
  BY DEF Begun, RecordInv, MessagesTyped
<1>3. \A i \in DOMAIN conversations : i \in DOMAIN conversations' /\ conversations'[i] = conversations[i]
  <2>1. CASE OpenConversation(t)
    BY <1>2, <2>1 DEF OpenConversation, Begun
  <2>2. CASE FindConversation(t) \/ NoConversation(t)
    BY <2>2 DEF FindConversation, NoConversation, keptVars
  <2> QED
    BY <2>1, <2>2
<1>4. /\ conversation' \in [Turns -> Nat]
      /\ stage'[t] = "history" => conversation'[t] \in Rows(Key(t))'
  <2>1. CASE FindConversation(t)
    BY <1>2, <2>1 DEF FindConversation, keptVars, Rows, Key
  <2>2. CASE NoConversation(t)
    BY <1>2, <2>2 DEF NoConversation, Looking, GoOn, Begun
  <2>3. CASE OpenConversation(t)
    <3>1. PICK n \in Nat : n = Len(conversations)
      BY <1>2
    <3>2. n + 1 \in DOMAIN conversations' /\ conversations'[n + 1] = Key(t)
      BY <1>2, <2>3, <3>1 DEF OpenConversation, Begun
    <3>3. conversation' = [conversation EXCEPT ![t] = n + 1]
      BY <2>3, <3>1 DEF OpenConversation
    <3>4. Key(t)' = Key(t)
      BY <1>1 DEF Key
    <3> QED
      BY <1>2, <3>2, <3>3, <3>4 DEF Rows
  <2> QED
    BY <2>1, <2>2, <2>3
<1>5. ASSUME NEW s \in Turns \ {t} PROVE Recorded(s)'
  BY <1>1, <1>3, OthersRecorded
<1>6. Recorded(t)'
  <2>1. Recorded(t)
    BY DEF RecordInv
  <2>2. SaidOnce(t)' /\ SaidSoFar(t)'
    BY <1>1, <1>3, NothingSaid DEF Answered
  <2>3. Audited(t)'
    BY <1>1, <2>1 DEF Recorded, Audited, Answered
  <2>4. Works(t)'
    <3>1. Overs' = Overs
      BY <1>1 DEF Overs
    <3> QED
      BY <1>1, <1>4, <2>1, <3>1 DEF Recorded, Works, BeforeHistory
  <2> QED
    BY <2>2, <2>3, <2>4 DEF Recorded
<1>7. MessagesTyped'
  BY <1>1, <1>4 DEF RecordInv, MessagesTyped
<1> QED
  BY <1>5, <1>6, <1>7 DEF RecordInv

\* A turn says its part: once, behind what it said before, in the conversation it works with.
LEMMA SayingRecorded ==
  ASSUME Begun, RecordInv, NEW t \in Turns, StoreUserMessage(t) \/ StoreAssistantMessage(t)
  PROVE  RecordInv'
<1>1. PICK role \in {"USER", "ASSISTANT"} :
        /\ stage[t] = IF role = "USER" THEN "user" ELSE "assistant"
        /\ stage' = [stage EXCEPT ![t] = IF role = "USER" THEN "assistant" ELSE "extract"]
        /\ Say(t, role)
        /\ UNCHANGED <<turn, conversations, conversation, queried, answered, sent, earlier>>
  BY DEF StoreUserMessage, StoreAssistantMessage, GoOn, turnLogs
<1>2. /\ stage \in [Turns -> Stages] /\ stage' \in [Turns -> Stages]
      /\ \A s \in Turns \ {t} : stage'[s] = stage[s]
      /\ stage'[t] = IF role = "USER" THEN "assistant" ELSE "extract"
  BY <1>1 DEF Begun, Stages
<1>3. PICK row \in MessageRows :
        row = [conversation |-> conversation[t], turn |-> t, role |-> role]
  BY DEF MessageRows, RecordInv, MessagesTyped
<1>4. row.conversation = conversation[t] /\ row.turn = t /\ row.role = role
  BY <1>3
<1>5. PICK n \in Nat : n = Len(messages) /\ DOMAIN messages = 1..n
  BY DEF RecordInv, MessagesTyped
<1>6. /\ messages' \in Seq(MessageRows) /\ DOMAIN messages' = 1..(n + 1) /\ messages'[n + 1] = row
      /\ \A i \in 1..n : messages'[i] = messages[i]
  <2>1. messages \in Seq(MessageRows) /\ messages' = Append(messages, row)
    BY <1>1, <1>3 DEF Say, RecordInv, MessagesTyped
  <2> QED
    BY <1>5, <2>1
<1>7. \A s \in Turns \ {t} : Asked(s)' = Asked(s) /\ Given(s)' = Given(s)
  BY <1>4, <1>5, <1>6 DEF Asked, Given, HasSaid
<1>8. /\ Asked(t)' = IF role = "USER" THEN Asked(t) \cup {n + 1} ELSE Asked(t)
      /\ Given(t)' = IF role = "USER" THEN Given(t) ELSE Given(t) \cup {n + 1}
  <2>1. \A i \in 1..(n + 1) : i \in 1..n \/ i = n + 1
    OBVIOUS
  <2> QED
    BY <1>4, <1>5, <1>6, <2>1 DEF Asked, Given, HasSaid
<1>9. \A s \in Turns : Asked(s) \subseteq 1..n /\ Given(s) \subseteq 1..n
  BY <1>5 DEF Asked, Given
<1>10. \A s \in Turns : Rows(Key(s))' = Rows(Key(s))
  BY <1>1 DEF Rows, Key
<1>11. ASSUME NEW s \in Turns \ {t} PROVE Recorded(s)'
  <2>1. Recorded(s)
    BY DEF RecordInv
  <2>2. SaidOnce(s)' /\ SaidSoFar(s)'
    BY <1>1, <1>2, <1>6, <1>7, <1>9, <1>10, <2>1 DEF Recorded, SaidOnce, SaidSoFar
  <2>3. Audited(s)' /\ Works(s)'
    <3>1. Overs' = Overs
      BY <1>1, <1>2 DEF Overs
    <3> QED
      BY <1>1, <1>2, <1>10, <2>1, <3>1 DEF Recorded, Audited, Works
  <2> QED
    BY <2>2, <2>3 DEF Recorded
<1>12. Recorded(t)'
  <2>1. Recorded(t)
    BY DEF RecordInv
  <2>2. Overs' = Overs
    BY <1>1, <1>2 DEF Overs
  <2>3. Audited(t)' /\ Works(t)'
    BY <1>1, <1>2, <1>10, <2>1, <2>2 DEF Recorded, Audited, Works, Answered, BeforeHistory
  <2>4. conversation[t] \in Rows(Key(t))
    BY <1>1, <2>1 DEF Recorded, Works, BeforeHistory
  <2>5. CASE role = "USER"
    <3>1. Asked(t) = {} /\ Given(t) = {}
      BY <1>1, <2>1, <2>5 DEF Recorded, SaidSoFar, Answered
    <3>2. Asked(t)' = {n + 1} /\ Given(t)' = {}
      BY <1>8, <2>5, <3>1
    <3> QED
      BY <1>1, <1>2, <1>4, <1>6, <1>10, <2>3, <2>4, <2>5, <3>2
         DEF Recorded, SaidOnce, SaidSoFar, Answered
  <2>6. CASE role # "USER"
    <3>1. Given(t) = {} /\ Asked(t) # {} /\ \A i \in Asked(t) : messages[i].conversation = conversation[t]
      BY <1>1, <2>1, <2>6 DEF Recorded, SaidSoFar, Answered
    <3>2. Asked(t)' = Asked(t) /\ Given(t)' = {n + 1}
      BY <1>8, <2>6, <3>1
    <3>3. \A i \in Asked(t) : i < n + 1 /\ messages'[i].conversation = conversation[t]
      BY <1>6, <1>9, <3>1
    <3>4. SaidOnce(t)'
      BY <1>4, <1>6, <1>10, <2>1, <2>4, <3>1, <3>2, <3>3 DEF Recorded, SaidOnce
    <3>5. SaidSoFar(t)'
      BY <1>2, <2>6, <3>2 DEF SaidSoFar, Answered
    <3> QED
      BY <2>3, <3>4, <3>5 DEF Recorded
  <2> QED
    BY <2>5, <2>6
<1>13. MessagesTyped'
  BY <1>1, <1>6 DEF RecordInv, MessagesTyped
<1> QED
  BY <1>11, <1>12, <1>13 DEF RecordInv

\* Every step keeps the record of the turns.
LEMMA RecordNext == ASSUME Begun, RecordInv, [ApiNext]_apiVars PROVE RecordInv'
<1>1. ASSUME NEW t \in Turns, Turn(t) PROVE RecordInv'
  BY <1>1, ArrivalRecorded, LookingRecorded, SayingRecorded, SilentRecorded DEF Turn, Silent, Acting
<1>2. ASSUME \/ \E i \in pending : ExpirePending(i)
             \/ UNCHANGED turnVars
      PROVE  RecordInv'
  <2>1. UNCHANGED <<stage, turn, conversations, messages, conversation, earlier, queried, answered, sent>>
    BY <1>2 DEF ExpirePending, ButActions, turnVars, keptVars, turnLogs
  <2>2. ASSUME NEW s \in Turns PROVE Recorded(s)'
    <3>1. Recorded(s)
      BY DEF RecordInv
    <3>2. SaidOnce(s)' /\ SaidSoFar(s)'
      BY <2>1, NothingSaid
    <3>3. Audited(s)' /\ Works(s)'
      BY <2>1, <3>1 DEF Recorded, Audited, Works, Overs, Rows, Key
    <3> QED
      BY <3>2, <3>3 DEF Recorded
  <2> QED
    BY <2>1, <2>2 DEF RecordInv, MessagesTyped
<1>3. CASE Talk
  BY <1>1, <1>2, <1>3 DEF Talk, TurnNext
<1>4. CASE CallAccounts \/ Analyse \/ ListPayments \/ LimitRequests \/ UNCHANGED apiVars
  BY <1>2, <1>4 DEF CallAccounts, Analyse, ListPayments, LimitRequests, apiVars
<1> QED
  BY <1>3, <1>4 DEF ApiNext

\* Before the first turn there is no message.
LEMMA RecordInit == ASSUME ApiInit PROVE RecordInv
BY DEF ApiInit, TurnInit, RecordInv, MessagesTyped, Recorded, SaidOnce, SaidSoFar, Audited, Works,
       Asked, Given, HasSaid, Answered, BeforeHistory, Overs

\* Every answer is on record behind its question.
THEOREM AnswersAreOnRecord == ApiSpec => []RepliesAreOnRecord
<1>1. ApiInit => Begun /\ RecordInv
  BY RecordInit DEF ApiInit, TurnInit, Begun, Stages
<1>2. Begun /\ RecordInv /\ [ApiNext]_apiVars => Begun' /\ RecordInv'
  BY BegunNext, RecordNext
<1>3. RecordInv => RepliesAreOnRecord
  BY RecordsEnough
<1> QED
  BY <1>1, <1>2, <1>3, PTL DEF ApiSpec

-----------------------------------------------------------------------------
\* The last messages of a conversation hold a message of it, or are as many as the limit and
\* all later than it.
LEMMA RecentHolds ==
  ASSUME MessagesTyped, NEW c, NEW p \in DOMAIN messages, messages[p].conversation = c
  PROVE  LET recent == Recent(Messages(c))
         IN  \/ Contains(recent, p)
             \/ Len(recent) = HistoryLimit /\ \A n \in DOMAIN recent : recent[n] > p
<1> DEFINE ids == [i \in DOMAIN messages |-> i]
           those == {i \in DOMAIN messages : messages[i].conversation = c}
<1>1. ids \in Seq(Nat) /\ those \subseteq DOMAIN ids /\ \A i \in DOMAIN ids : ids[i] = i
  <2>1. DOMAIN messages = 1..Len(messages) /\ Len(messages) \in Nat
    BY DEF MessagesTyped
  <2> QED
    BY <2>1
<1>2. PICK m \in Seq(Nat) :
        m = Messages(c) /\ \E where : Numbers(where, m, ids, those)
  <2>1. Messages(c) = Kept(ids, those) /\ those \cap DOMAIN ids = those
    BY <1>1 DEF Messages
  <2> HIDE DEF ids, those
  <2>2. /\ Kept(ids, those) \in Seq(Nat)
        /\ \E where : Numbers(where, Kept(ids, those), ids, those \cap DOMAIN ids)
    BY <1>1, KeptIs
  <2> QED
    BY <2>1, <2>2
<1>3. PICK l \in Nat : l = Len(m) /\ DOMAIN m = 1..l
  OBVIOUS
<1>0. PICK where : Numbers(where, m, ids, those)
  BY <1>2
<1>4. /\ \A i \in 1..l : m[i] = where[i] /\ where[i] \in Nat
      /\ \A i, j \in 1..l : i < j => where[i] < where[j]
  <2>1. those \subseteq Nat
    BY DEF MessagesTyped
  <2> HIDE DEF ids, those
  <2>2. /\ \A i \in 1..l : where[i] \in those /\ m[i] = ids[where[i]]
        /\ \A i, j \in 1..l : i < j => where[i] < where[j]
    BY <1>0, <1>3 DEF Numbers
  <2> QED
    BY <1>1, <2>1, <2>2
<1>5. PICK q \in 1..l : where[q] = p
  <2>1. p \in those
    OBVIOUS
  <2> HIDE DEF those
  <2> QED
    BY <1>0, <1>3, <2>1 DEF Numbers
<1>6. PICK w \in Nat : w = Smallest(HistoryLimit, l) /\ w <= l /\ (w = HistoryLimit \/ w = l)
  BY TurnAssumption DEF Smallest, TurnAssumption
<1>7. PICK recent \in Seq(Nat) :
        /\ recent = Recent(Messages(c)) /\ Len(recent) = w
        /\ \A n \in 1..w : recent[n] = m[(l - w) + n]
  <2>1. PICK r : r = SubSeq(m, l + 1 - w, l) /\ r = Recent(Messages(c))
    BY <1>2, <1>3, <1>6 DEF Recent
  <2>2. l + 1 - w \in Int /\ l \in Int /\ \A i \in (l + 1 - w)..l : m[i] \in Nat
    <3>1. \A i \in (l + 1 - w)..l : i \in 1..l
      BY <1>6
    <3>2. \A i \in 1..l : m[i] \in Nat
      BY <1>3
    <3> QED
      BY <3>1, <3>2
  <2>3. /\ r \in Seq(Nat) /\ Len(r) = IF l + 1 - w <= l THEN l - (l + 1 - w) + 1 ELSE 0
        /\ \A i \in 1..(l - (l + 1 - w) + 1) : r[i] = m[(l + 1 - w) + i - 1]
    BY <2>1, <2>2, SubSeqProperties
  <2>4. Len(r) = w
    BY <2>3, <1>6
  <2>5. \A n \in 1..w : n \in 1..(l - (l + 1 - w) + 1) /\ (l + 1 - w) + n - 1 = (l - w) + n
    OBVIOUS
  <2> QED
    BY <2>1, <2>3, <2>4, <2>5
<1>8. CASE q > l - w
  <2>1. q - (l - w) \in 1..w /\ (l - w) + (q - (l - w)) = q
    BY <1>6, <1>8
  <2>2. recent[q - (l - w)] = p
    BY <1>4, <1>5, <1>7, <2>1
  <2> QED
    BY <1>7, <2>1, <2>2 DEF Contains
<1>9. CASE ~(q > l - w)
  <2>1. w = HistoryLimit
    BY <1>6, <1>9
  <2>2. ASSUME NEW n \in 1..w PROVE recent[n] > p
    <3>1. (l - w) + n \in 1..l /\ q < (l - w) + n
      BY <1>6, <1>9
    <3>2. where[q] < where[(l - w) + n] /\ recent[n] = where[(l - w) + n]
      BY <1>4, <1>7, <3>1
    <3>3. where[q] \in Nat /\ where[(l - w) + n] \in Nat
      BY <1>4, <3>1
    <3> QED
      BY <1>5, <3>2, <3>3
  <2>3. DOMAIN recent = 1..w
    BY <1>7
  <2> QED
    BY <1>7, <2>1, <2>2, <2>3
<1> QED
  BY <1>8, <1>9

\* Turns that have read their history.
Informed(t) == stage[t] \notin BeforeHistory \cup {"failed"}

\* The messages of a turn that another has to know.
KnowsOf(t, s) ==
  \E i, j \in DOMAIN messages :
    /\ HasSaid(s, "USER", i) /\ HasSaid(s, "ASSISTANT", j) /\ i < j
    /\ \A k \in {i, j} :
         \/ Contains(history[t], k)
         \/ Len(history[t]) = HistoryLimit /\ \A n \in DOMAIN history[t] : history[t][n] > k

HistoryInv == history = [t \in Turns |-> history[t]] /\ HistoryIsWhole

\* The property in the words of the proof: who is informed knows of the turns before.
LEMMA WholeIs ==
  ASSUME RecordInv
  PROVE  HistoryIsWhole <=>
           \A t \in Turns : \A s \in earlier[t] :
             Informed(t) /\ Key(s) = Key(t) /\ Key(t) \notin split => KnowsOf(t, s)
<1>1. \A t \in Turns : stage[t] = "away" => earlier[t] = {}
  BY DEF RecordInv, Recorded, Works
<1> QED
  BY <1>1 DEF HistoryIsWhole, Informed, KnowsOf, BeforeHistory

\* A turn that was over has said its part, in the one conversation of its key.
LEMMA HistoryRead ==
  ASSUME Begun, OneConversation, RecordInv, HistoryInv, NEW t \in Turns, ReadHistory(t),
         NEW s \in earlier[t], Key(s) = Key(t), Key(t) \notin split
  PROVE  KnowsOf(t, s)'
<1>1. /\ Recorded(t) /\ s \in Turns /\ Recorded(s) /\ stage[s] = "over" /\ MessagesTyped
  BY DEF RecordInv, Recorded, Works, Overs
<1>2. PICK c : c = conversation[t]
  OBVIOUS
<1>3. /\ stage[t] = "history" /\ messages' = messages
      /\ history' = [history EXCEPT ![t] = Recent(Messages(c))]
  BY <1>2 DEF ReadHistory, keptVars
<1>4. PICK recent : recent = Recent(Messages(c))
  OBVIOUS
<1>5. history'[t] = recent
  BY <1>3, <1>4 DEF HistoryInv
<1>6. c \in Rows(Key(t)) /\ \A i \in Rows(Key(t)) : i = c
  BY <1>1, <1>2, <1>3 DEF Recorded, Works, BeforeHistory, OneConversation, Rows
<1>7. PICK i \in Asked(s), j \in Given(s) : i < j
  BY <1>1 DEF Recorded, SaidOnce, SaidSoFar, Answered
<1>8. messages[i].conversation = c /\ messages[j].conversation = c
  BY <1>1, <1>6 DEF Recorded, SaidOnce
<1>9. i \in DOMAIN messages /\ j \in DOMAIN messages /\ HasSaid(s, "USER", i) /\ HasSaid(s, "ASSISTANT", j)
  BY DEF Asked, Given
<1>10. \A k \in {i, j} :
          \/ Contains(recent, k)
          \/ Len(recent) = HistoryLimit /\ \A n \in DOMAIN recent : recent[n] > k
  BY <1>1, <1>4, <1>8, <1>9, RecentHolds
<1> QED
  BY <1>3, <1>5, <1>7, <1>9, <1>10 DEF KnowsOf, HasSaid

\* What any other step leaves of it.
LEMMA HistoryKept ==
  ASSUME NEW t \in Turns, NEW s \in Turns, KnowsOf(t, s), history'[t] = history[t],
         \A i \in DOMAIN messages : i \in DOMAIN messages' /\ messages'[i] = messages[i]
  PROVE  KnowsOf(t, s)'
BY DEF KnowsOf, HasSaid

\* The steps of a turn as the others see them.
LEMMA TurnSteps ==
  ASSUME Begun, RecordInv, HistoryInv, NEW r \in Turns, Turn(r)
  PROVE  /\ split \subseteq split'
         /\ history' = [t \in Turns |-> history'[t]]
         /\ \A i \in DOMAIN messages : i \in DOMAIN messages' /\ messages'[i] = messages[i]
         /\ \A t \in Turns \ {r} : /\ stage'[t] = stage[t] /\ history'[t] = history[t]
                                   /\ earlier'[t] = earlier[t] /\ turn'[t] = turn[t]
         /\ stage[r] # "over"
         /\ \/ ~Informed(r)'
            \/ /\ Informed(r) \/ ReadHistory(r)
               /\ earlier'[r] = earlier[r] /\ turn'[r] = turn[r] /\ split' = split
               /\ ReadHistory(r) \/ history'[r] = history[r]
<1> DEFINE Shown ==
      /\ split \subseteq split'
      /\ history' = [t \in Turns |-> history'[t]]
      /\ \A i \in DOMAIN messages : i \in DOMAIN messages' /\ messages'[i] = messages[i]
      /\ \A t \in Turns \ {r} : /\ stage'[t] = stage[t] /\ history'[t] = history[t]
                                /\ earlier'[t] = earlier[t] /\ turn'[t] = turn[t]
      /\ stage[r] # "over"
      /\ \/ ~Informed(r)'
         \/ /\ Informed(r) \/ ReadHistory(r)
            /\ earlier'[r] = earlier[r] /\ turn'[r] = turn[r] /\ split' = split
            /\ ReadHistory(r) \/ history'[r] = history[r]
<1> SUFFICES Shown
  OBVIOUS
<1>1. stage \in [Turns -> Stages] /\ history = [t \in Turns |-> history[t]]
  BY DEF Begun, HistoryInv
<1>2. CASE Arrive(r)
  BY <1>1, <1>2 DEF Arrive, GoOn, keptVars, Informed, BeforeHistory, RecordInv, MessagesTyped, Begun
<1>3. CASE FindConversation(r) \/ NoConversation(r) \/ OpenConversation(r)
  BY <1>1, <1>3 DEF FindConversation, NoConversation, OpenConversation, Looking, Opening,
                    AfterConversation, GoOn, keptVars, turnLogs, Informed, BeforeHistory
<1>4. CASE StoreUserMessage(r) \/ StoreAssistantMessage(r)
  <2>1. \A i \in DOMAIN messages : i \in DOMAIN messages' /\ messages'[i] = messages[i]
    <3>1. messages \in Seq(MessageRows) /\ \E row : messages' = Append(messages, row)
      BY <1>4 DEF StoreUserMessage, StoreAssistantMessage, Say, RecordInv, MessagesTyped
    <3> QED
      BY <3>1
  <2> QED
    BY <1>1, <1>4, <2>1 DEF StoreUserMessage, StoreAssistantMessage, GoOn, turnLogs, Informed, BeforeHistory
<1>5. CASE Silent(r)
  <2>1. /\ UNCHANGED <<messages, earlier, turn, split>> /\ stage[r] # "over"
        /\ \A t \in Turns \ {r} : stage'[t] = stage[t]
        /\ stage[r] \notin (BeforeHistory \ {"history"}) \cup {"failed"} \/ stage'[r] = "failed"
    BY <1>5, SilentSteps, QuietSteps DEF Silent, Quiet
  <2>2. CASE ReadHistory(r)
    BY <1>1, <2>1, <2>2 DEF ReadHistory
  <2>3. CASE ~ReadHistory(r)
    <3>1. history' = history /\ (stage[r] # "history" \/ stage'[r] = "failed")
      <4>1. CASE Shortcut(r) \/ Detect(r) \/ AnswerDenied(r) \/ Gather(r) \/ AuditQuery(r)
        BY <4>1 DEF Shortcut, Detect, AnswerDenied, Gather, AuditQuery, ButAnswer
      <4>2. CASE Acting(r)
        BY <4>2 DEF Acting, Propose, TakeLatest, NothingPending, Execute, ExecuteRefused, Settle,
                    ExecutionFails, ButAnswer, ButActions
      <4>3. CASE ExtractMemories(r) \/ RememberSaid(r) \/ AllRemembered(r)
        BY <4>3 DEF ExtractMemories, RememberSaid, AllRemembered, turnVars
      <4>4. CASE AuditResponse(r) \/ SendReply(r)
        BY <4>4 DEF AuditResponse, SendReply
      <4>5. CASE TurnFails(r) \/ ExtractionFails(r) \/ SpoiltFails(r)
        BY <1>1, <4>5 DEF TurnFails, ExtractionFails, SpoiltFails, ButAnswer, GoOn
      <4> QED
        BY <1>5, <2>3, <4>1, <4>2, <4>3, <4>4, <4>5 DEF Silent
    <3> QED
      BY <1>1, <2>1, <3>1 DEF Informed, BeforeHistory
  <2> QED
    BY <2>2, <2>3
<1> HIDE DEF Shown
<1> QED
  BY <1>2, <1>3, <1>4, <1>5 DEF Turn, Silent, Acting

\* Every step keeps the histories whole.
LEMMA HistoryNext ==
  ASSUME Begun, OneConversation, RecordInv, RecordInv', HistoryInv, [ApiNext]_apiVars
  PROVE  HistoryInv'
<1>1. ASSUME NEW r \in Turns, Turn(r) PROVE HistoryInv'
  <2>1. /\ split \subseteq split'
        /\ history' = [t \in Turns |-> history'[t]]
        /\ \A i \in DOMAIN messages : i \in DOMAIN messages' /\ messages'[i] = messages[i]
        /\ \A t \in Turns \ {r} : /\ stage'[t] = stage[t] /\ history'[t] = history[t]
                                  /\ earlier'[t] = earlier[t] /\ turn'[t] = turn[t]
        /\ stage[r] # "over"
        /\ \/ ~Informed(r)'
           \/ /\ Informed(r) \/ ReadHistory(r)
              /\ earlier'[r] = earlier[r] /\ turn'[r] = turn[r] /\ split' = split
              /\ ReadHistory(r) \/ history'[r] = history[r]
    BY <1>1, TurnSteps
  <2>2. ASSUME NEW t \in Turns, NEW s \in earlier'[t], Informed(t)', Key(s)' = Key(t)',
               Key(t)' \notin split'
        PROVE  KnowsOf(t, s)'
    <3>1. earlier'[t] = earlier[t] /\ turn'[t] = turn[t]
      BY <2>1, <2>2
    <3>2. s \in Turns \ {r} /\ turn'[s] = turn[s]
      BY <2>1, <2>2, <3>1 DEF RecordInv, Recorded, Works, Overs
    <3>3. Key(s) = Key(t) /\ Key(t) \notin split
      BY <2>1, <2>2, <3>1, <3>2 DEF Key
    <3>4. CASE ReadHistory(t)
      BY <3>1, <3>3, <3>4, HistoryRead
    <3>5. CASE ~ReadHistory(t)
      <4>1. Informed(t) /\ history'[t] = history[t]
        BY <2>1, <2>2, <3>5 DEF Informed
      <4>2. KnowsOf(t, s)
        BY <2>2, <3>1, <3>3, <4>1, WholeIs DEF HistoryInv
      <4> QED
        BY <2>1, <3>2, <4>1, <4>2, HistoryKept
    <3> QED
      BY <3>4, <3>5
  <2>3. HistoryIsWhole'
    <3>1. \A t \in Turns : stage'[t] = "away" => earlier'[t] = {}
      BY DEF RecordInv, Recorded, Works
    <3> QED
      BY <2>2, <3>1 DEF HistoryIsWhole, Informed, KnowsOf, BeforeHistory
  <2> QED
    BY <2>1, <2>3 DEF HistoryInv
<1>2. ASSUME \/ \E i \in pending : ExpirePending(i)
             \/ UNCHANGED turnVars
      PROVE  HistoryInv'
  <2>1. UNCHANGED <<stage, turn, messages, history, earlier, split>>
    BY <1>2 DEF ExpirePending, ButActions, turnVars, keptVars, turnLogs
  <2> QED
    BY <2>1 DEF HistoryInv, HistoryIsWhole, HasSaid, Key
<1>3. CASE Talk
  BY <1>1, <1>2, <1>3 DEF Talk, TurnNext
<1>4. CASE CallAccounts \/ Analyse \/ ListPayments \/ LimitRequests \/ UNCHANGED apiVars
  BY <1>2, <1>4 DEF CallAccounts, Analyse, ListPayments, LimitRequests, apiVars
<1> QED
  BY <1>3, <1>4 DEF ApiNext

\* Every turn of a conversation knows those that were over before it.
THEOREM HistoriesAreWhole == ApiSpec => []HistoryIsWhole
<1>1. ApiInit => Begun /\ FoundNone /\ OneConversation /\ RecordInv /\ HistoryInv
  <2> SUFFICES ASSUME ApiInit PROVE Begun /\ FoundNone /\ OneConversation /\ RecordInv /\ HistoryInv
    OBVIOUS
  <2>1. Begun /\ FoundNone /\ OneConversation
    BY DEF ApiInit, TurnInit, Begun, Stages, FoundNone, OneConversation, Opening, Rows
  <2>2. history = [t \in Turns |-> history[t]] /\ \A t \in Turns : earlier[t] = {}
    BY DEF ApiInit, TurnInit
  <2> QED
    BY <2>1, <2>2, RecordInit DEF HistoryInv, HistoryIsWhole
<1>2. Begun /\ FoundNone /\ OneConversation /\ RecordInv /\ HistoryInv /\ [ApiNext]_apiVars
        => Begun' /\ FoundNone' /\ OneConversation' /\ RecordInv' /\ HistoryInv'
  BY BegunNext, ConversationsNext, RecordNext, HistoryNext
<1>3. HistoryInv => HistoryIsWhole
  BY DEF HistoryInv
<1> QED
  BY <1>1, <1>2, <1>3, PTL DEF ApiSpec

-----------------------------------------------------------------------------
(***************************************************************************)
(* The limiter.                                                            *)
(*                                                                         *)
(* The argument: while the requests of an address come one at a time, each    *)
(* moment of its bucket is that of one request let through (Keeps), and who   *)
(* is not in the bucket is too old for whoever is inside, and for whoever will be. *)
(* So the bucket of a request that has dropped what is stale counts its window. *)
(***************************************************************************)

Of(k) == {q \in Requests : doing[q] = "accepted" /\ from[q] = k}

Ins(k) == {q \in Requests : doing[q] \in Inside /\ from[q] = k}

\* A list of its moments names the requests whose moments a bucket keeps.
Keeps(k, who) ==
  /\ who \in [DOMAIN bucket[k] -> Of(k)]
  /\ \A i \in DOMAIN bucket[k] : now[who[i]] = bucket[k][i]
  /\ \A i, j \in DOMAIN bucket[k] : who[i] = who[j] => i = j
  /\ \A q \in Of(k) : (\A i \in DOMAIN bucket[k] : who[i] # q) =>
       now[q] <= clock - Window /\ \A r \in Ins(k) : Stale(r, now[q])

\* What a request knows where it is.
Knowing(r, k) ==
  /\ \A q \in Requests : from[q] = k /\ doing[q] \in {"accepted", "refused"} => now[q] <= now[r]
  /\ doing[r] \in {"peek", "pop"} => bucket[k] # <<>>
  /\ doing[r] = "pop" => Stale(r, bucket[k][1])
  /\ doing[r] \in {"check", "append"} => \A i \in DOMAIN bucket[k] : ~Stale(r, bucket[k][i])
  /\ doing[r] = "append" => Len(bucket[k]) < Limit

InTurn(k) ==
  /\ \A q, r \in Ins(k) : q = r
  /\ \E who : Keeps(k, who)
  /\ Len(bucket[k]) <= Limit
  /\ \A i, j \in DOMAIN bucket[k] : i <= j => bucket[k][i] <= bucket[k][j]
  /\ \A r \in Ins(k) : Knowing(r, k)

LimiterInv ==
  /\ LimiterTypeOK
  /\ \A r \in Requests : now[r] <= clock /\ (doing[r] # "waiting" => from[r] \in Addresses)
  /\ \A k \in Addresses \ raced : InTurn(k)
  /\ WindowHolds

\* How many requests a part of a bucket stands for.
LEMMA Counted ==
  ASSUME NEW n \in Nat, NEW who, NEW T, \A x \in T : \E i \in 1..n : who[i] = x
  PROVE  IsFiniteSet(T) /\ Cardinality(T) \in Nat /\ Cardinality(T) <= n
<1>1. IsFiniteSet(1..n) /\ Cardinality(1..n) = n
  BY FS_Interval
<1> DEFINE part == {i \in 1..n : who[i] \in T}
           f == [i \in part |-> who[i]]
<1>2. IsFiniteSet(part) /\ Cardinality(part) <= n
  BY <1>1, FS_Subset
<1>3. f \in Surjection(part, T)
  BY DEF Surjection
<1>4. IsFiniteSet(T) /\ Cardinality(T) <= Cardinality(part)
  BY <1>2, <1>3, FS_Surjection
<1>5. Cardinality(T) \in Nat /\ Cardinality(part) \in Nat
  BY <1>2, <1>4, FS_CardinalityType
<1> QED
  BY <1>2, <1>4, <1>5

\* A list that names the members of a set, each once, is as long as the set is large.
LEMMA CountedOnce ==
  ASSUME NEW n \in Nat, NEW who, NEW T,
         \A i \in 1..n : who[i] \in T, \A i, j \in 1..n : who[i] = who[j] => i = j,
         \A x \in T : \E i \in 1..n : who[i] = x
  PROVE  Cardinality(T) = n
<1>1. IsFiniteSet(1..n) /\ Cardinality(1..n) = n
  BY FS_Interval
<1> DEFINE f == [i \in 1..n |-> who[i]]
<1>2. f \in [1..n -> T] /\ \A x \in T : \E i \in 1..n : f[i] = x
  OBVIOUS
<1>3. f \in Surjection(1..n, T)
  BY <1>2 DEF Surjection
<1>4. f \in Injection(1..n, T)
  BY <1>2 DEF Injection, IsInjective
<1> HIDE DEF f
<1>5. Cardinality(T) = Cardinality(1..n)
  BY <1>1, <1>3, <1>4, FS_Surjection
<1> QED
  BY <1>1, <1>5

\* A step that leaves the requests of an address, and its bucket, alone.
LEMMA Untouched ==
  ASSUME LimiterTypeOK, NEW k \in Addresses, InTurn(k),
         clock' \in Nat, clock <= clock', bucket'[k] = bucket[k],
         \A q \in Requests : from'[q] = k <=> from[q] = k,
         \A q \in Requests : from[q] = k => doing'[q] = doing[q] /\ now'[q] = now[q]
  PROVE  InTurn(k)'
<1> USE DEF LimiterTypeOK, LimiterAssumption
<1>1. Of(k)' = Of(k) /\ Ins(k)' = Ins(k)
  BY DEF Of, Ins
<1>2. PICK who : Keeps(k, who)
  BY DEF InTurn
<1>3. Keeps(k, who)'
  BY <1>1, <1>2, LimiterAssumption DEF Keeps, Stale, Of, Ins
<1>4. \A r \in Ins(k) : Knowing(r, k)'
  BY DEF InTurn, Knowing, Stale, Ins
<1> QED
  BY <1>1, <1>3, <1>4 DEF InTurn

\* Where a request that moves on is the only one inside.
LEMMA OnlyOneInside ==
  ASSUME LimiterTypeOK, NEW k \in Addresses, InTurn(k), NEW r \in Ins(k)
  PROVE  Ins(k) = {r} /\ Knowing(r, k)
BY DEF InTurn

\* A request enters: the clock is past every moment taken so far.
LEMMA EnterInTurn ==
  ASSUME LimiterInv, NEW r \in Requests, Enter(r), NEW k \in Addresses \ raced'
  PROVE  InTurn(k)'
<1> USE DEF LimiterInv, LimiterTypeOK
<1>1. PICK j \in Addresses :
        /\ from' = [from EXCEPT ![r] = j]
        /\ raced' = raced \cup {a \in {j} : \E q \in Requests : doing[q] \in Inside /\ from[q] = a}
  BY DEF Enter
<1>2. /\ doing[r] = "waiting" /\ doing' = [doing EXCEPT ![r] = "purge"]
      /\ now' = [now EXCEPT ![r] = clock] /\ clock' = clock /\ bucket' = bucket
  BY DEF Enter, Go
<1>3. InTurn(k) /\ k \notin raced
  BY <1>1
<1>4. Of(k)' = Of(k)
  BY <1>1, <1>2 DEF Of
<1>5. PICK who : Keeps(k, who)
  BY <1>3 DEF InTurn
<1>6. CASE j = k
  <2>1. Ins(k) = {}
    BY <1>1, <1>6 DEF Ins
  <2>2. Ins(k)' = {r}
    BY <2>1, <1>1, <1>2, <1>6 DEF Ins, Inside
  <2>3. Keeps(k, who)'
    <3>1. \A q \in Of(k) : q # r /\ now'[q] = now[q]
      BY <1>2 DEF Of
    <3> QED
      BY <1>2, <1>4, <1>5, <2>2, <3>1 DEF Keeps, Stale
  <2>4. Knowing(r, k)'
    BY <1>1, <1>2 DEF Knowing, Inside
  <2> QED
    BY <1>2, <1>3, <2>2, <2>3, <2>4 DEF InTurn
<1>7. CASE j # k
  <2>1. Ins(k)' = Ins(k)
    BY <1>1, <1>2, <1>7 DEF Ins, Inside
  <2>2. Keeps(k, who)'
    BY <1>2, <1>4, <1>5, <2>1 DEF Keeps, Stale, Of, Ins, Inside
  <2>3. \A q \in Ins(k) : Knowing(q, k)'
    <3> SUFFICES ASSUME NEW q \in Ins(k) PROVE Knowing(q, k)'
      OBVIOUS
    <3>1. q # r /\ Knowing(q, k)
      BY <1>2, <1>3 DEF InTurn, Ins, Inside
    <3> QED
      BY <1>1, <1>2, <1>7, <3>1 DEF Knowing, Stale
  <2> QED
    BY <1>2, <1>3, <2>1, <2>2, <2>3 DEF InTurn
<1> QED
  BY <1>6, <1>7

\* A request looks at its bucket and moves on.
Looks(r) == SeeBucket(r) \/ SeeOldest(r) \/ CheckLimit(r)

\* A request that tests and pops in its turn meets no empty bucket.
LEMMA LookInTurn ==
  ASSUME LimiterInv, NEW r \in Requests, Looks(r), NEW k \in Addresses \ raced, from[r] = k
  PROVE  InTurn(k)' /\ doing'[r] # "error"
<1> USE DEF LimiterInv, LimiterTypeOK
<1>1. PICK next : doing' = [doing EXCEPT ![r] = next]
  BY DEF Looks, SeeBucket, SeeOldest, CheckLimit, Go
<1>2. /\ doing[r] \in {"purge", "peek", "check"}
      /\ UNCHANGED <<clock, bucket, from, now, raced>>
  BY DEF Looks, SeeBucket, SeeOldest, CheckLimit
<1>3. r \in Ins(k) /\ InTurn(k)
  BY <1>2 DEF Ins, Inside
<1>4. Ins(k) = {r} /\ Knowing(r, k)
  BY <1>3, OnlyOneInside
<1>5. next \in {"peek", "pop", "check", "append", "refused"}
  BY <1>1, <1>4 DEF Looks, SeeBucket, SeeOldest, CheckLimit, Go, Knowing, Bucket
<1>6. Of(k)' = Of(k) /\ Ins(k)' \subseteq {r}
  BY <1>1, <1>2, <1>4, <1>5 DEF Of, Ins, Inside
<1>7. PICK who : Keeps(k, who)
  BY <1>3 DEF InTurn
<1>8. Keeps(k, who)'
  BY <1>2, <1>4, <1>6, <1>7 DEF Keeps, Stale
<1>9. ASSUME r \in Ins(k)' PROVE Knowing(r, k)'
  <2>1. next # "refused"
    BY <1>1, <1>9 DEF Ins, Inside
  <2>2. \A q \in Requests : from'[q] = k /\ doing'[q] \in {"accepted", "refused"} => now'[q] <= now'[r]
    BY <1>1, <1>2, <1>4, <1>5, <2>1 DEF Knowing
  <2>3. bucket[k] \in Seq(Nat) /\ Len(bucket[k]) \in Nat /\ DOMAIN bucket[k] = 1..Len(bucket[k])
    OBVIOUS
  <2>4. /\ next \in {"peek", "pop"} => bucket[k] # <<>>
        /\ next = "pop" => Stale(r, bucket[k][1])
    BY <1>1, <1>2, <2>3 DEF Looks, SeeBucket, SeeOldest, CheckLimit, Go, Bucket
  <2>5. next = "check" => \A i \in DOMAIN bucket[k] : ~Stale(r, bucket[k][i])
    <3>1. next = "check" => \/ bucket[k] = <<>>
                            \/ bucket[k] # <<>> /\ ~Stale(r, bucket[k][1])
      BY <1>1, <1>2, <2>3 DEF Looks, SeeBucket, SeeOldest, CheckLimit, Go, Bucket
    <3>2. \A i \in DOMAIN bucket[k] : bucket[k][1] <= bucket[k][i] /\ bucket[k][i] \in Nat
                                        /\ bucket[k][1] \in Nat
      BY <1>3, <2>3 DEF InTurn
    <3> QED
      BY <3>1, <3>2, LimiterAssumption DEF Stale, LimiterAssumption
  <2>6. next = "append" => /\ Len(bucket[k]) < Limit
                           /\ \A i \in DOMAIN bucket[k] : ~Stale(r, bucket[k][i])
    <3>1. next = "append" => doing[r] = "check" /\ ~(Len(bucket[k]) >= Limit)
      BY <1>1, <1>2 DEF Looks, SeeBucket, SeeOldest, CheckLimit, Go, Bucket
    <3> QED
      BY <1>4, <2>3, <3>1, LimiterAssumption DEF Knowing, LimiterAssumption
  <2> QED
    BY <1>1, <1>2, <1>5, <2>1, <2>2, <2>4, <2>5, <2>6 DEF Knowing, Stale
<1>10. InTurn(k)'
  BY <1>2, <1>3, <1>6, <1>8, <1>9 DEF InTurn
<1> QED
  BY <1>1, <1>5, <1>10

\* The oldest moment goes: it is too old for every request to come.
LEMMA PopInTurn ==
  ASSUME LimiterInv, NEW r \in Requests, PopOldest(r), NEW k \in Addresses \ raced, from[r] = k
  PROVE  InTurn(k)' /\ doing'[r] # "error" /\ bucket' = [bucket EXCEPT ![k] = Tail(@)]
<1>0. /\ LimiterTypeOK /\ InTurn(k) /\ Window \in Nat /\ Limit \in Nat /\ clock \in Nat
      /\ \A q \in Requests : now[q] \in Nat /\ now[q] <= clock
  BY LimiterAssumption DEF LimiterInv, LimiterTypeOK, LimiterAssumption
<1>1. doing[r] = "pop" /\ UNCHANGED <<clock, from, now, raced>>
  BY DEF PopOldest
<1>3. r \in Ins(k) /\ Ins(k) = {r} /\ Knowing(r, k)
  BY <1>0, <1>1, OnlyOneInside DEF Ins, Inside
<1>4. PICK b \in Seq(Nat) : b = bucket[k]
  BY <1>0 DEF LimiterTypeOK
<1>5. /\ b # <<>> /\ Stale(r, b[1])
      /\ doing' = [doing EXCEPT ![r] = "purge"] /\ bucket' = [bucket EXCEPT ![k] = Tail(@)]
      /\ bucket'[k] = Tail(b) /\ doing'[r] = "purge"
  BY <1>0, <1>1, <1>3, <1>4 DEF Knowing, PopOldest, Go, Bucket, LimiterTypeOK
<1>6. PICK n \in Nat : n + 1 = Len(b)
  <2>0. b # <<>>
    BY <1>5
  <2>1. Len(b) \in Nat /\ Len(b) > 0
    BY ONLY <2>0, b \in Seq(Nat)
  <2>2. Len(b) - 1 \in Nat /\ (Len(b) - 1) + 1 = Len(b)
    BY <2>1
  <2> QED
    BY <2>2
<1>7. PICK c \in Seq(Nat) : c = bucket'[k] /\ c = Tail(b)
  <2>1. b # <<>> /\ bucket'[k] = Tail(b)
    BY <1>5
  <2>2. Tail(b) \in Seq(Nat)
    BY ONLY <2>1, b \in Seq(Nat)
  <2> QED
    BY <2>1, <2>2
<1>8. /\ DOMAIN b = 1..(n + 1) /\ Len(c) = n /\ DOMAIN c = 1..n
      /\ \A i \in 1..n : c[i] = b[i + 1]
  BY <1>5, <1>6, <1>7
<1>9. Of(k)' = Of(k) /\ Ins(k)' = {r}
  BY <1>0, <1>1, <1>3, <1>5 DEF Of, Ins, Inside, LimiterTypeOK
<1>10. PICK who : Keeps(k, who)
  BY <1>0 DEF InTurn
<1>11. /\ \A i \in 1..(n + 1) : who[i] \in Of(k) /\ now[who[i]] = b[i]
       /\ \A i, j \in 1..(n + 1) : who[i] = who[j] => i = j
       /\ \A q \in Of(k) : (\A i \in 1..(n + 1) : who[i] # q) =>
            now[q] <= clock - Window /\ Stale(r, now[q])
  BY <1>3, <1>4, <1>8, <1>10 DEF Keeps
<1>12. PICK listed : listed = [i \in 1..n |-> who[i + 1]]
  OBVIOUS
<1>13. \A i \in 1..n : i + 1 \in 1..(n + 1) /\ listed[i] = who[i + 1]
  BY <1>12
<1>14. ASSUME NEW q \in Of(k), \A i \in 1..n : listed[i] # q
       PROVE  now[q] <= clock - Window /\ Stale(r, now[q])
  <2>1. CASE q = who[1]
    <3>1. 1 \in 1..(n + 1)
      OBVIOUS
    <3>2. now[q] <= now[r] - Window
      BY <1>5, <1>11, <2>1, <3>1 DEF Stale
    <3>3. q \in Requests
      BY DEF Of
    <3>4. now[r] <= clock /\ now[r] \in Nat /\ now[q] \in Nat
      BY <1>0, <3>3
    <3> QED
      BY <1>0, <3>2, <3>4 DEF Stale
  <2>2. CASE q # who[1]
    <3>1. ASSUME NEW i \in 1..(n + 1), who[i] = q PROVE FALSE
      <4>1. i - 1 \in 1..n /\ (i - 1) + 1 = i
        BY <2>2, <3>1
      <4> QED
        BY <1>13, <1>14, <3>1, <4>1
    <3> QED
      BY <1>11, <3>1
  <2> QED
    BY <2>1, <2>2
<1>15. Keeps(k, listed)'
  <2>1. listed \in [1..n -> Of(k)]
    BY <1>11, <1>12, <1>13
  <2>2. ASSUME NEW i \in 1..n PROVE now[listed[i]] = c[i]
    <3>1. listed[i] = who[i + 1] /\ c[i] = b[i + 1] /\ now[who[i + 1]] = b[i + 1]
      BY <1>8, <1>11, <1>13
    <3> QED
      BY <3>1
  <2>3. \A i, j \in 1..n : listed[i] = listed[j] => i = j
    BY <1>11, <1>13
  <2> QED
    BY <1>1, <1>7, <1>8, <1>9, <1>14, <2>1, <2>2, <2>3 DEF Keeps, Stale
<1>16. Knowing(r, k)'
  BY <1>1, <1>3, <1>5 DEF Knowing
<1>17. \A i, j \in 1..n : i <= j => c[i] <= c[j]
  <2>1. \A i, j \in 1..(n + 1) : i <= j => b[i] <= b[j]
    BY <1>0, <1>4, <1>8 DEF InTurn
  <2> QED
    BY <1>8, <2>1
<1>18. Len(c) <= Limit
  BY <1>0, <1>4, <1>6, <1>8 DEF InTurn
<1> QED
  BY <1>5, <1>7, <1>8, <1>9, <1>15, <1>16, <1>17, <1>18 DEF InTurn

\* A request is let through, at the end of its bucket.
LEMMA AppendInTurn ==
  ASSUME LimiterInv, NEW r \in Requests, AppendMoment(r), NEW k \in Addresses \ raced, from[r] = k
  PROVE  InTurn(k)'
<1>0. /\ LimiterTypeOK /\ InTurn(k) /\ Window \in Nat /\ Limit \in Nat /\ clock \in Nat
      /\ \A q \in Requests : now[q] \in Nat /\ now[q] <= clock
  BY LimiterAssumption DEF LimiterInv, LimiterTypeOK, LimiterAssumption
<1>1. /\ doing[r] = "append" /\ UNCHANGED <<clock, from, now, raced>>
      /\ doing' = [doing EXCEPT ![r] = "accepted"]
      /\ bucket' = [bucket EXCEPT ![k] = Append(@, now[r])]
  BY DEF AppendMoment, Go
<1>3. r \in Ins(k) /\ Ins(k) = {r} /\ Knowing(r, k)
  BY <1>0, <1>1, OnlyOneInside DEF Ins, Inside
<1>4. PICK b \in Seq(Nat) : b = bucket[k]
  BY <1>0 DEF LimiterTypeOK
<1>5. PICK x \in Nat : x = now[r]
  BY <1>0
<1>6. PICK c \in Seq(Nat) : c = bucket'[k] /\ c = Append(b, x)
  <2>1. Append(b, x) \in Seq(Nat)
    OBVIOUS
  <2>2. bucket'[k] = Append(b, x)
    BY <1>0, <1>1, <1>4, <1>5 DEF LimiterTypeOK
  <2> QED
    BY <2>1, <2>2
<1>7. PICK n \in Nat : n = Len(b)
  OBVIOUS
<1>8. /\ DOMAIN b = 1..n /\ Len(c) = n + 1 /\ DOMAIN c = 1..(n + 1) /\ c[n + 1] = x
      /\ \A i \in 1..n : c[i] = b[i] /\ b[i] \in Nat
  BY <1>6, <1>7
<1>9. Of(k)' = Of(k) \cup {r} /\ r \notin Of(k) /\ Ins(k)' = {}
  BY <1>0, <1>1, <1>3 DEF Of, Ins, Inside, LimiterTypeOK
<1>10. PICK who : Keeps(k, who)
  BY <1>0 DEF InTurn
<1>11. /\ \A i \in 1..n : who[i] \in Of(k) /\ now[who[i]] = b[i]
       /\ \A i, j \in 1..n : who[i] = who[j] => i = j
       /\ \A q \in Of(k) : (\A i \in 1..n : who[i] # q) => now[q] <= clock - Window
  BY <1>4, <1>8, <1>10 DEF Keeps
<1>12. PICK listed : listed = [i \in 1..(n + 1) |-> IF i = n + 1 THEN r ELSE who[i]]
  OBVIOUS
<1>13. (\A i \in 1..n : i \in 1..(n + 1) /\ listed[i] = who[i]) /\ listed[n + 1] = r
  BY <1>12
<1>14. \A i \in 1..(n + 1) : i \in 1..n \/ i = n + 1
  OBVIOUS
<1>15. Keeps(k, listed)'
  <2>1. listed \in [1..(n + 1) -> Of(k) \cup {r}]
    BY <1>11, <1>12, <1>13, <1>14
  <2>2. \A i \in 1..(n + 1) : now[listed[i]] = c[i]
    BY <1>5, <1>8, <1>11, <1>13, <1>14
  <2>3. \A i, j \in 1..(n + 1) : listed[i] = listed[j] => i = j
    BY <1>9, <1>11, <1>13, <1>14
  <2>4. ASSUME NEW q \in Of(k) \cup {r}, \A i \in 1..(n + 1) : listed[i] # q
        PROVE  now[q] <= clock - Window
    <3>0. n + 1 \in 1..(n + 1)
      OBVIOUS
    <3>1. q # r /\ \A i \in 1..n : who[i] # q
      BY <2>4, <1>13, <3>0
    <3> QED
      BY <3>1, <1>11
  <2> QED
    BY <1>1, <1>6, <1>8, <1>9, <2>1, <2>2, <2>3, <2>4 DEF Keeps
<1>16. Len(c) <= Limit
  BY <1>0, <1>1, <1>3, <1>4, <1>7, <1>8 DEF Knowing
<1>17. \A i, j \in 1..(n + 1) : i <= j => c[i] <= c[j]
  <2>1. \A i \in 1..n : b[i] <= x
    <3>1. \A q \in Of(k) : now[q] <= x
      BY <1>3, <1>5 DEF Knowing, Of
    <3> QED
      BY <1>11, <3>1
  <2>2. \A i, j \in 1..n : i <= j => b[i] <= b[j]
    BY <1>0, <1>4, <1>8 DEF InTurn
  <2> QED
    BY <1>8, <2>1, <2>2
<1> QED
  BY <1>6, <1>8, <1>9, <1>15, <1>16, <1>17 DEF InTurn

-----------------------------------------------------------------------------
\* What one request was told.
Holds(r) ==
  from[r] \notin raced =>
    /\ doing[r] # "error"
    /\ doing[r] = "accepted" => Cardinality(LetThrough(r)) <= Limit
    /\ doing[r] = "refused" => Cardinality(LetThrough(r)) = Limit

\* Who was let through is not changed by a step that accepts nobody.
LEMMA WindowsKept ==
  ASSUME LimiterTypeOK, NEW r \in Requests, Holds(r),
         from[r] \notin raced' => from[r] \notin raced,
         doing'[r] = doing[r], from'[r] = from[r], now'[r] = now[r],
         \A q \in Requests : doing'[q] = "accepted" <=> doing[q] = "accepted",
         \A q \in Requests : doing[q] = "accepted" => from'[q] = from[q] /\ now'[q] = now[q]
  PROVE  Holds(r)'
<1>1. LetThrough(r)' = LetThrough(r)
  BY DEF LetThrough, Stale
<1> QED
  BY <1>1 DEF Holds

\* A request is refused where its bucket is full of moments of its window.
LEMMA RefusedWhenFull ==
  ASSUME LimiterInv, NEW r \in Requests, Looks(r), NEW k \in Addresses \ raced, from[r] = k,
         doing'[r] = "refused"
  PROVE  Cardinality(LetThrough(r))' = Limit
<1>0. /\ LimiterTypeOK /\ InTurn(k) /\ Window \in Nat /\ Limit \in Nat
      /\ \A q \in Requests : now[q] \in Nat /\ now[q] <= clock
  BY LimiterAssumption DEF LimiterInv, LimiterTypeOK, LimiterAssumption
<1>1. /\ doing[r] = "check" /\ ~(Len(bucket[k]) < Limit)
      /\ UNCHANGED <<clock, bucket, from, now, raced>>
      /\ \A q \in Requests \ {r} : doing'[q] = doing[q]
  BY <1>0 DEF Looks, SeeBucket, SeeOldest, CheckLimit, Go, Bucket, LimiterTypeOK
<1>2. r \in Ins(k) /\ Knowing(r, k)
  BY <1>0, <1>1, OnlyOneInside DEF Ins, Inside
<1>3. PICK n \in Nat : n = Len(bucket[k]) /\ DOMAIN bucket[k] = 1..n
  BY <1>0 DEF LimiterTypeOK
<1>4. n = Limit
  BY <1>0, <1>1, <1>3 DEF InTurn
<1>5. PICK who : Keeps(k, who)
  BY <1>0 DEF InTurn
<1>6. PICK T : T = LetThrough(r)'
  OBVIOUS
<1>7. T = {q \in Of(k) : now[q] <= now[r] /\ ~Stale(r, now[q])}
  BY <1>1, <1>6 DEF LetThrough, Of, Stale
<1>8. \A i \in 1..n : who[i] \in T
  <2>1. \A i \in 1..n : who[i] \in Of(k) /\ now[who[i]] = bucket[k][i]
    BY <1>3, <1>5 DEF Keeps
  <2>2. \A i \in 1..n : ~Stale(r, bucket[k][i])
    BY <1>1, <1>2, <1>3 DEF Knowing
  <2>3. \A q \in Of(k) : now[q] <= now[r]
    BY <1>2 DEF Knowing, Of
  <2> QED
    BY <1>7, <2>1, <2>2, <2>3
<1>9. \A q \in T : \E i \in 1..n : who[i] = q
  BY <1>2, <1>3, <1>5, <1>7 DEF Keeps
<1>10. \A i, j \in 1..n : who[i] = who[j] => i = j
  BY <1>3, <1>5 DEF Keeps
<1>11. Cardinality(T) = n
  BY <1>8, <1>9, <1>10, CountedOnce
<1> QED
  BY <1>4, <1>6, <1>11

\* A request let through is one more in its own window and in those of its moment; and
\* there was room for it: so those that were refused were at an earlier moment.
LEMMA AppendHolds ==
  ASSUME LimiterInv, NEW r \in Requests, AppendMoment(r), NEW q \in Requests
  PROVE  Holds(q)'
<1>0. /\ LimiterTypeOK /\ Window \in Nat \ {0} /\ Limit \in Nat /\ Holds(q)
      /\ \A p \in Requests : now[p] \in Nat /\ now[p] <= clock
  BY LimiterAssumption DEF LimiterInv, LimiterTypeOK, LimiterAssumption, WindowHolds, Holds
<1>1. /\ doing[r] = "append" /\ UNCHANGED <<clock, from, now, raced>>
      /\ doing' = [doing EXCEPT ![r] = "accepted"]
  BY DEF AppendMoment, Go
<1>2. PICK k \in Addresses : k = from[r]
  BY <1>1 DEF LimiterInv
<1>3. SUFFICES ASSUME from[q] \notin raced, doing'[q] \in {"accepted", "refused"}
               PROVE  Holds(q)'
  BY <1>0, <1>1 DEF Holds, LimiterTypeOK
<1>4. CASE from[q] # k
  <2>1. LetThrough(q)' = LetThrough(q)
    BY <1>0, <1>1, <1>2, <1>4 DEF LetThrough, Stale, LimiterTypeOK
  <2>2. doing'[q] = doing[q]
    BY <1>0, <1>1, <1>2, <1>4 DEF LimiterTypeOK
  <2> QED
    BY <1>0, <1>1, <2>1, <2>2 DEF Holds
<1>5. CASE from[q] = k
  <2>1. InTurn(k)
    BY <1>3, <1>5 DEF LimiterInv
  <2>2. r \in Ins(k) /\ Knowing(r, k)
    BY <1>0, <1>1, <1>2, <2>1, OnlyOneInside DEF Ins, Inside
  <2>3. PICK n \in Nat : n = Len(bucket[k]) /\ DOMAIN bucket[k] = 1..n /\ n + 1 <= Limit
    <3>1. Len(bucket[k]) \in Nat /\ DOMAIN bucket[k] = 1..Len(bucket[k])
      BY <1>0 DEF LimiterTypeOK
    <3>2. Len(bucket[k]) < Limit
      BY <1>1, <2>2 DEF Knowing
    <3> QED
      BY <1>0, <3>1, <3>2
  <2>4. PICK who : Keeps(k, who)
    BY <2>1 DEF InTurn
  <2>5. now[q] <= now[r]
    BY <1>0, <1>1, <1>3, <1>5, <2>2 DEF Knowing, LimiterTypeOK
  <2>6. PICK T : T = LetThrough(q)'
    OBVIOUS
  <2>7. CASE now[q] = now[r]
    <3>1. T \subseteq {p \in Of(k) : ~Stale(r, now[p])} \cup {r}
      BY <1>0, <1>1, <1>5, <2>6, <2>7 DEF LetThrough, Of, Stale, LimiterTypeOK
    <3>2. \A p \in T \ {r} : \E i \in 1..n : who[i] = p
      BY <2>2, <2>3, <2>4, <3>1 DEF Keeps
    <3>3. Cardinality(T) \in Nat /\ Cardinality(T) <= n + 1
      <4>1. PICK all : all = [i \in 1..(n + 1) |-> IF i = n + 1 THEN r ELSE who[i]]
        OBVIOUS
      <4>2. (\A i \in 1..n : i \in 1..(n + 1) /\ all[i] = who[i]) /\ n + 1 \in 1..(n + 1)
              /\ all[n + 1] = r
        BY <4>1
      <4>3. \A p \in T : \E i \in 1..(n + 1) : all[i] = p
        BY <3>2, <4>2
      <4>4. n + 1 \in Nat
        OBVIOUS
      <4> QED
        BY <4>3, <4>4, Counted
    <3>4. doing'[q] # "refused"
      <4> SUFFICES ASSUME doing'[q] = "refused" PROVE FALSE
        OBVIOUS
      <4>1. q # r /\ doing[q] = "refused"
        BY <1>0, <1>1 DEF LimiterTypeOK
      <4>2. Cardinality(LetThrough(q)) = Limit
        BY <1>0, <1>3, <4>1 DEF Holds
      <4>3. \A p \in LetThrough(q) : p \in Of(k) /\ ~Stale(r, now[p])
        BY <1>5, <2>7 DEF LetThrough, Of, Stale
      <4>4. \A p \in LetThrough(q) : \E i \in 1..n : who[i] = p
        BY <2>2, <2>3, <2>4, <4>3 DEF Keeps
      <4>5. Cardinality(LetThrough(q)) \in Nat /\ Cardinality(LetThrough(q)) <= n
        BY <4>4, Counted
      <4> QED
        BY <1>0, <2>3, <4>2, <4>5
    <3>5. Cardinality(T) <= Limit
      BY <1>0, <2>3, <3>3
    <3> QED
      BY <1>3, <2>6, <3>4, <3>5 DEF Holds
  <2>8. CASE now[q] # now[r]
    <3>1. q # r /\ ~(now[r] <= now[q])
      BY <1>0, <2>5, <2>8
    <3>2. LetThrough(q)' = LetThrough(q)
      BY <1>0, <1>1, <3>1 DEF LetThrough, Stale, LimiterTypeOK
    <3>3. doing'[q] = doing[q]
      BY <1>0, <1>1, <3>1 DEF LimiterTypeOK
    <3> QED
      BY <1>0, <1>1, <3>2, <3>3 DEF Holds
  <2> QED
    BY <2>7, <2>8
<1> QED
  BY <1>4, <1>5

\* The limiter keeps its types.
LEMMA LimiterTyped ==
  ASSUME LimiterTypeOK, \A r \in Requests : doing[r] # "waiting" => from[r] \in Addresses,
         LimiterNext
  PROVE  LimiterTypeOK'
<1>1. ASSUME NEW r \in Requests, Allow(r) PROVE LimiterTypeOK'
  <2>1. CASE Enter(r)
    BY <2>1 DEF Enter, Go, LimiterTypeOK, Inside
  <2>2. CASE Looks(r)
    BY <2>2 DEF Looks, SeeBucket, SeeOldest, CheckLimit, Go, LimiterTypeOK, Inside
  <2>3. CASE PopOldest(r) \/ AppendMoment(r)
    <3>1. PICK k \in Addresses : k = from[r]
      BY <2>3 DEF PopOldest, AppendMoment
    <3>2. bucket[k] \in Seq(Nat) /\ now[r] \in Nat
      BY DEF LimiterTypeOK
    <3>3. Append(bucket[k], now[r]) \in Seq(Nat) /\ (bucket[k] # <<>> => Tail(bucket[k]) \in Seq(Nat))
      BY <3>2
    <3>4. bucket' \in [Addresses -> Seq(Nat)]
      BY <2>3, <3>1, <3>3 DEF PopOldest, AppendMoment, Bucket, LimiterTypeOK
    <3> QED
      BY <2>3, <3>4 DEF PopOldest, AppendMoment, Go, LimiterTypeOK, Inside
  <2> QED
    BY <1>1, <2>1, <2>2, <2>3 DEF Allow, Looks
<1>2. CASE Tick
  BY <1>2 DEF Tick, LimiterTypeOK
<1>3. CASE Restart
  BY <1>3 DEF Restart, LimiterTypeOK
<1> QED
  BY <1>1, <1>2, <1>3 DEF LimiterNext

\* Each statement of allow() keeps the buckets exact.
LEMMA AllowKeeps ==
  ASSUME LimiterInv, NEW r \in Requests, Allow(r)
  PROVE  LimiterInv'
<1>0. /\ LimiterTypeOK /\ WindowHolds
      /\ \A q \in Requests : now[q] \in Nat /\ now[q] <= clock
      /\ \A q \in Requests : doing[q] # "waiting" => from[q] \in Addresses
      /\ \A k \in Addresses \ raced : InTurn(k)
      /\ \A q \in Requests : Holds(q)
  BY DEF LimiterInv, LimiterTypeOK, WindowHolds, Holds
<1>1. LimiterTypeOK'
  BY <1>0, LimiterTyped DEF LimiterNext
<1>2. CASE Enter(r)
  <2>1. /\ doing' = [doing EXCEPT ![r] = "purge"] /\ now' = [now EXCEPT ![r] = clock]
        /\ doing[r] = "waiting" /\ clock' = clock
        /\ \E k \in Addresses : from' = [from EXCEPT ![r] = k]
        /\ raced \subseteq raced'
    BY <1>2 DEF Enter, Go
  <2>2. \A k \in Addresses \ raced' : InTurn(k)'
    BY <1>2, EnterInTurn
  <2>3. ASSUME NEW q \in Requests PROVE Holds(q)'
    <3>1. CASE q = r
      BY <1>0, <2>1, <3>1 DEF Holds, LimiterTypeOK
    <3>2. CASE q # r
      BY <1>0, <2>1, <3>2, WindowsKept DEF LimiterTypeOK
    <3> QED
      BY <3>1, <3>2
  <2> QED
    BY <1>0, <1>1, <2>1, <2>2, <2>3 DEF LimiterInv, LimiterTypeOK, WindowHolds, Holds
<1>3. ASSUME ~Enter(r)
      PROVE  /\ UNCHANGED <<clock, from, now, raced>> /\ from[r] \in Addresses
             /\ \A q \in Requests \ {r} : doing'[q] = doing[q]
             /\ \A k \in Addresses \ {from[r]} : bucket'[k] = bucket[k]
             /\ doing[r] \in Inside
  BY <1>0, <1>3 DEF Allow, SeeBucket, SeeOldest, CheckLimit, PopOldest, AppendMoment, Go,
                    LimiterTypeOK, Inside
<1>4. ASSUME ~Enter(r), NEW k \in Addresses \ raced, k # from[r] PROVE InTurn(k)'
  BY <1>0, <1>3, <1>4, Untouched DEF LimiterTypeOK
<1>5. ASSUME ~Enter(r), \A k \in Addresses \ raced : from[r] = k => InTurn(k)',
             \A q \in Requests : Holds(q)'
      PROVE  LimiterInv'
  <2>1. \A k \in Addresses \ raced' : InTurn(k)'
    BY <1>3, <1>4, <1>5
  <2>2. \A q \in Requests : now'[q] <= clock' /\ (doing'[q] # "waiting" => from'[q] \in Addresses)
    BY <1>0, <1>3, <1>5
  <2> QED
    BY <1>1, <1>5, <2>1, <2>2 DEF LimiterInv, WindowHolds, Holds
<1>6. CASE Looks(r)
  <2>1. ~Enter(r)
    BY <1>6 DEF Looks, SeeBucket, SeeOldest, CheckLimit, Enter
  <2>2. \A k \in Addresses \ raced : from[r] = k => InTurn(k)'
    BY <1>6, LookInTurn
  <2>3. ASSUME NEW q \in Requests PROVE Holds(q)'
    <3>1. doing[r] # "accepted" /\ doing'[r] # "accepted"
      BY <1>0, <1>6 DEF Looks, SeeBucket, SeeOldest, CheckLimit, Go, LimiterTypeOK
    <3>2. CASE q = r
      BY <1>3, <1>6, <2>1, <3>1, <3>2, LookInTurn, RefusedWhenFull DEF Holds
    <3>3. CASE q # r
      BY <1>0, <1>3, <2>1, <3>1, <3>3, WindowsKept
    <3> QED
      BY <3>2, <3>3
  <2> QED
    BY <1>5, <2>1, <2>2, <2>3
<1>7. CASE PopOldest(r)
  <2>1. ~Enter(r)
    BY <1>7 DEF PopOldest, Enter
  <2>2. \A k \in Addresses \ raced : from[r] = k => InTurn(k)' /\ doing'[r] # "error"
    BY <1>7, PopInTurn
  <2>3. ASSUME NEW q \in Requests PROVE Holds(q)'
    <3>1. doing[r] # "accepted" /\ doing'[r] \notin {"accepted", "refused"}
      BY <1>0, <1>7 DEF PopOldest, Go, LimiterTypeOK
    <3>2. CASE q = r
      BY <1>3, <2>1, <2>2, <3>1, <3>2 DEF Holds
    <3>3. CASE q # r
      BY <1>0, <1>3, <2>1, <3>1, <3>3, WindowsKept
    <3> QED
      BY <3>2, <3>3
  <2> QED
    BY <1>5, <2>1, <2>2, <2>3
<1>8. CASE AppendMoment(r)
  <2>1. ~Enter(r)
    BY <1>8 DEF AppendMoment, Enter
  <2>2. \A k \in Addresses \ raced : from[r] = k => InTurn(k)'
    BY <1>8, AppendInTurn
  <2>3. \A q \in Requests : Holds(q)'
    BY <1>8, AppendHolds
  <2> QED
    BY <1>5, <2>1, <2>2, <2>3
<1> QED
  BY <1>2, <1>6, <1>7, <1>8 DEF Allow, Looks

\* Every step of a behaviour keeps the invariant of the limiter.
LEMMA LimiterInvNext == ASSUME LimiterInv, [ApiNext]_apiVars PROVE LimiterInv'
<1>0. /\ LimiterTypeOK /\ WindowHolds
      /\ \A q \in Requests : now[q] \in Nat /\ now[q] <= clock
      /\ \A q \in Requests : doing[q] # "waiting" => from[q] \in Addresses
      /\ \A k \in Addresses \ raced : InTurn(k)
      /\ \A q \in Requests : Holds(q)
  BY DEF LimiterInv, LimiterTypeOK, WindowHolds, Holds
<1>1. CASE Tick
  <2>1. clock' = clock + 1 /\ UNCHANGED <<bucket, doing, from, now, raced>> /\ clock \in Nat
    BY <1>0, <1>1 DEF Tick, LimiterTypeOK
  <2>2. \A k \in Addresses \ raced' : InTurn(k)'
    BY <1>0, <2>1, Untouched
  <2>3. WindowHolds'
    BY <1>0, <2>1 DEF WindowHolds, LetThrough, Stale
  <2>4. LimiterTypeOK'
    BY <1>0, <2>1 DEF LimiterTypeOK
  <2> QED
    BY <1>0, <2>1, <2>2, <2>3, <2>4 DEF LimiterInv
<1>2. CASE Restart
  <2>1. /\ \A q \in Requests : doing'[q] \in {"waiting", "forgotten"}
        /\ \A q \in Requests : doing'[q] # "waiting" => from'[q] \in Addresses
        /\ UNCHANGED <<clock, from, now>>
        /\ \A k \in Addresses : bucket'[k] = <<>>
    BY <1>0, <1>2 DEF Restart
  <2>2. LimiterTypeOK'
    BY <1>0, <1>2 DEF Restart, LimiterTypeOK
  <2>3. WindowHolds'
    BY <2>1 DEF WindowHolds
  <2>4. ASSUME NEW k \in Addresses PROVE InTurn(k)'
    <3>1. Ins(k)' = {} /\ Of(k)' = {} /\ bucket'[k] = <<>> /\ DOMAIN bucket'[k] = {}
      BY <2>1 DEF Ins, Of, Inside
    <3>2. PICK none : none = [i \in {} |-> i]
      OBVIOUS
    <3>3. Keeps(k, none)'
      BY <3>1, <3>2 DEF Keeps
    <3> QED
      BY <3>1, <3>3, LimiterAssumption DEF InTurn, LimiterAssumption
  <2> QED
    BY <1>0, <2>1, <2>2, <2>3, <2>4 DEF LimiterInv
<1>3. ASSUME UNCHANGED limiterVars PROVE LimiterInv'
  <2>1. UNCHANGED <<clock, bucket, doing, from, now, raced>> /\ clock \in Nat
    BY <1>0, <1>3 DEF limiterVars, LimiterTypeOK
  <2>2. \A k \in Addresses \ raced' : InTurn(k)'
    BY <1>0, <2>1, Untouched
  <2>3. WindowHolds'
    BY <1>0, <2>1 DEF WindowHolds, LetThrough, Stale
  <2>4. LimiterTypeOK'
    BY <1>0, <2>1 DEF LimiterTypeOK
  <2> QED
    BY <1>0, <2>1, <2>2, <2>3, <2>4 DEF LimiterInv
<1>4. CASE LimitRequests
  BY <1>1, <1>2, <1>4, AllowKeeps DEF LimitRequests, LimiterNext
<1>5. CASE CallAccounts \/ Talk \/ Analyse \/ ListPayments \/ UNCHANGED apiVars
  BY <1>3, <1>5 DEF CallAccounts, Talk, Analyse, ListPayments, apiVars
<1> QED
  BY <1>4, <1>5 DEF ApiNext

\* For any number of requests, addresses, limit and window: as long as those of an address
\* come one at a time, none is let through in a window that is full, and none refused in one
\* that is not.
THEOREM LimiterIsExact == ApiSpec => []WindowHolds
<1>1. ApiInit => LimiterInv
  <2> SUFFICES ASSUME ApiInit PROVE LimiterInv
    OBVIOUS
  <2>1. /\ clock = 0 /\ bucket = [k \in Addresses |-> <<>>]
        /\ doing = [r \in Requests |-> "waiting"] /\ from = [r \in Requests |-> Nowhere]
        /\ now = [r \in Requests |-> 0] /\ raced = {}
    BY DEF ApiInit, LimiterInit
  <2>2. ASSUME NEW k \in Addresses PROVE InTurn(k)
    <3>1. Ins(k) = {} /\ Of(k) = {} /\ bucket[k] = <<>> /\ DOMAIN bucket[k] = {}
      BY <2>1 DEF Ins, Of, Inside
    <3>2. PICK none : none = [i \in {} |-> i]
      OBVIOUS
    <3>3. Keeps(k, none)
      BY <3>1, <3>2 DEF Keeps
    <3> QED
      BY <3>1, <3>3, LimiterAssumption DEF InTurn, LimiterAssumption
  <2> QED
    BY <2>1, <2>2 DEF LimiterInv, LimiterTypeOK, WindowHolds, Inside
<1>2. LimiterInv /\ [ApiNext]_apiVars => LimiterInv'
  BY LimiterInvNext
<1>3. LimiterInv => WindowHolds
  BY DEF LimiterInv
<1> QED
  BY <1>1, <1>2, <1>3, PTL DEF ApiSpec

-----------------------------------------------------------------------------
(***************************************************************************)
(* The analyses.                                                           *)
(*                                                                         *)
(* The argument: what an analyst has put together so far is a picture, one    *)
(* record, and every query takes a picture to the next. While payments are     *)
(* only confirmed a picture lies between the book of its beginning and the     *)
(* present one, and sinks (Sinking): a contract is paid more then, so that what *)
(* remains of it, its being overdue and the sum of what is owed can only go     *)
(* down, whichever contracts have been read (Weighed, Judged). While payments   *)
(* are only withdrawn, contracts created and days begun it lies between them   *)
(* the other way round (Rising): more is due of a contract on a later day, and  *)
(* what is listed later holds what was listed before. While nothing moves      *)
(* both hold, and the rest of the picture is that of the book (Unmoved).       *)
(***************************************************************************)

\* The payments of a contract that count.
Counting(b, c) == {p \in Payments : b[p] = "APPROVED" /\ PaymentRow[p].contract = c}

Amount == [p \in Payments |-> PaymentRow[p].amount]

\* The book is finite.
LEMMA BookFacts ==
  /\ IsFiniteSet(Contracts) /\ IsFiniteSet(Payments) /\ Payments \subseteq Nat
  /\ \A p \in Payments : Amount[p] \in Nat /\ PaymentRow[p].day \in Nat
  /\ \A u : \A k \in SUBSET Contracts :
       ContractsOf(k, u) \in SUBSET Contracts /\ IsFiniteSet(ContractsOf(k, u))
  /\ \A b, c : Counting(b, c) \subseteq Payments /\ IsFiniteSet(Counting(b, c))
<1>1. PaymentRow \in Seq([contract : Contracts, amount : Nat, day : Nat]) /\ IsFiniteSet(Contracts)
  BY BookAssumption
<1>2. PICK n \in Nat : Payments = 1..n
  BY <1>1 DEF Payments
<1>3. IsFiniteSet(Payments)
  BY <1>2, FS_Interval
<1>4. ASSUME NEW p \in Payments PROVE PaymentRow[p].amount \in Nat /\ PaymentRow[p].day \in Nat
  <2>1. PaymentRow[p] \in [contract : Contracts, amount : Nat, day : Nat]
    <3>1. PICK R : R = [contract : Contracts, amount : Nat, day : Nat]
      OBVIOUS
    <3>2. PICK rows \in Seq(R) : rows = PaymentRow
      BY <1>1, <3>1
    <3>3. p \in DOMAIN rows
      BY <3>2 DEF Payments
    <3>4. rows[p] \in R
      BY <3>3
    <3> QED
      BY <3>1, <3>2, <3>4
  <2> QED
    BY <2>1
<1>5. \A u : \A k \in SUBSET Contracts :
        ContractsOf(k, u) \in SUBSET Contracts /\ IsFiniteSet(ContractsOf(k, u))
  BY <1>1, FS_Subset DEF ContractsOf
<1>6. \A b, c : Counting(b, c) \subseteq Payments /\ IsFiniteSet(Counting(b, c))
  BY <1>3, FS_Subset DEF Counting
<1> QED
  BY <1>1, <1>2, <1>3, <1>4, <1>5, <1>6 DEF Amount

\* What was paid is the sum of the payments that count.
LEMMA PaidIs ==
  ASSUME NEW b, NEW c
  PROVE  Paid(b, c) = SumOver(Amount, Counting(b, c)) /\ Paid(b, c) \in Nat
<1>1. MapThenSumSet(LAMBDA p : PaymentRow[p].amount, Counting(b, c))
        = SumOver([p \in Counting(b, c) |-> PaymentRow[p].amount], Counting(b, c))
  BY SumOfField
<1>2. SumOver([p \in Counting(b, c) |-> PaymentRow[p].amount], Counting(b, c))
        = SumOver(Amount, Counting(b, c))
  BY BookFacts, SumAgrees DEF Amount
<1>3. SumOver(Amount, Counting(b, c)) \in Nat
  BY BookFacts, SumNat
<1> QED
  BY <1>1, <1>2, <1>3 DEF Paid, Counting

\* What is confirmed in one table is confirmed in the other.
Grows(b, d) == \A p \in Payments : b[p] = "APPROVED" => d[p] = "APPROVED"

\* With more payments confirmed a contract has paid more and owes less.
LEMMA PaidGrows ==
  ASSUME NEW b, NEW d, Grows(b, d), NEW c \in Contracts
  PROVE  /\ Paid(b, c) <= Paid(d, c)
         /\ Remaining(d, c) <= Remaining(b, c)
<1>1. Counting(b, c) \subseteq Counting(d, c)
  BY DEF Counting, Grows
<1>2. SumOver(Amount, Counting(b, c)) <= SumOver(Amount, Counting(d, c))
  BY <1>1, BookFacts, SumGrows
<1>3. Paid(b, c) <= Paid(d, c) /\ Paid(b, c) \in Nat /\ Paid(d, c) \in Nat
  BY <1>2, PaidIs
<1>4. Total[c] \in Nat
  BY BookAssumption
<1> QED
  BY <1>3, <1>4 DEF Remaining

\* What remains of a contract is part of its total.
LEMMA RemainingIs ==
  ASSUME NEW b, NEW c \in Contracts
  PROVE  Remaining(b, c) \in Nat /\ Remaining(b, c) <= Total[c] /\ Total[c] \in Nat
<1>1. Paid(b, c) \in Nat /\ Total[c] \in Nat
  BY PaidIs, BookAssumption
<1> QED
  BY <1>1 DEF Remaining

\* What is expected by now is an amount, and grows with the days.
LEMMA ExpectedIs ==
  ASSUME NEW c \in Contracts, NEW d \in Nat
  PROVE  /\ ExpectedByNow(c, d) \in Nat
         /\ \A e \in Nat : d <= e => ExpectedByNow(c, d) <= ExpectedByNow(c, e)
<1>1. Daily[c] \in Nat /\ Start[c] \in Nat /\ Total[c] \in Nat
  BY BookAssumption
<1>2. \A x, y, z \in Nat : x * y \in Nat /\ (y <= z => x * y <= x * z)
  <2>1. ASSUME NEW x \in Nat, NEW y \in Nat, NEW z \in Nat, y <= z PROVE x * y <= x * z
    <3>1. PICK more \in Nat : z = y + more
      <4>1. z - y \in Nat /\ z = y + (z - y)
        BY <2>1
      <4> QED
        BY <4>1
    <3>2. x * (y + more) = x * y + x * more /\ x * y \in Nat /\ x * more \in Nat
      OBVIOUS
    <3> QED
      BY <3>1, <3>2
  <2>2. \A x, y \in Nat : x * y \in Nat
    OBVIOUS
  <2> QED
    BY <2>1, <2>2
<1>3. ASSUME NEW e \in Nat PROVE DaysElapsed(c, e) \in Nat /\ Daily[c] * DaysElapsed(c, e) \in Nat
  <2>1. DaysElapsed(c, e) \in Nat
    BY <1>1 DEF DaysElapsed
  <2> QED
    BY <1>1, <1>2, <2>1
<1>4. ASSUME NEW e \in Nat, d <= e
      PROVE  Daily[c] * DaysElapsed(c, d) <= Daily[c] * DaysElapsed(c, e)
  <2>1. DaysElapsed(c, d) <= DaysElapsed(c, e)
    BY <1>1, <1>4 DEF DaysElapsed
  <2> QED
    BY <1>1, <1>2, <1>3, <2>1
<1> HIDE DEF DaysElapsed
<1>5. ASSUME NEW e \in Nat, d <= e PROVE ExpectedByNow(c, d) <= ExpectedByNow(c, e)
  <2>1. PICK x, y \in Nat : /\ x = Daily[c] * DaysElapsed(c, d)
                            /\ y = Daily[c] * DaysElapsed(c, e) /\ x <= y
    BY <1>3, <1>4, <1>5
  <2> QED
    BY <1>1, <2>1 DEF ExpectedByNow, Smaller
<1>6. ExpectedByNow(c, d) \in Nat
  BY <1>1, <1>3 DEF ExpectedByNow, Smaller
<1> QED
  BY <1>5, <1>6

\* What remains of contracts.
Balances(b) == [c \in Contracts |-> Remaining(b, c)]

Due(b, S) == SumOver(Balances(b), S)

\* What a user owes is what his contracts owe.
LEMMA OwedIs ==
  ASSUME NEW b \in Books, NEW u
  PROVE  Owed(b, u) = Due(b.payment, ContractsOf(b.opened, u))
<1> DEFINE S == ContractsOf(b.opened, u)
<1>1. Owed(b, u) = SumOver([c \in S |-> Remaining(b.payment, c)], S)
  BY DEF Owed, SumOver, MapThenSumSet, MapThenFoldSet
<1>2. S \in SUBSET Contracts /\ IsFiniteSet(S)
  BY BookFacts DEF Books
<1> HIDE DEF S
<1>3. SumOver([c \in S |-> Remaining(b.payment, c)], S) = Due(b.payment, S)
  BY <1>2, SumAgrees DEF Due, Balances
<1> QED
  BY <1>1, <1>3 DEF S

\* What some contracts owe, with one of them apart.
LEMMA DueIs ==
  ASSUME NEW b, NEW S \in SUBSET Contracts
  PROVE  /\ IsFiniteSet(S) /\ Due(b, S) \in Nat
         /\ \A c \in S : Due(b, S) = Due(b, S \ {c}) + Remaining(b, c)
<1>1. IsFiniteSet(S) /\ \A c \in S : Balances(b)[c] \in Nat /\ Balances(b)[c] = Remaining(b, c)
  BY BookFacts, FS_Subset, RemainingIs DEF Balances
<1>2. Due(b, S) \in Nat
  BY <1>1, SumNat DEF Due
<1>3. \A T \in SUBSET S : Due(b, T) \in Nat
  BY <1>1, FS_Subset, SumNat DEF Due
<1>4. ASSUME NEW c \in S PROVE Due(b, S) = Due(b, S \ {c}) + Remaining(b, c)
  <2>1. Due(b, S) = Remaining(b, c) + Due(b, S \ {c})
    BY <1>1, SumTakes DEF Due
  <2>2. Due(b, S \ {c}) \in Nat /\ Remaining(b, c) \in Nat
    BY <1>1, <1>3
  <2> QED
    BY <2>1, <2>2
<1> QED
  BY <1>1, <1>2, <1>4

\* With more payments confirmed fewer contracts owe less together.
LEMMA DueShrinks ==
  ASSUME NEW b, NEW d, Grows(b, d), NEW S \in SUBSET Contracts, NEW T \in SUBSET S
  PROVE  Due(d, T) <= Due(b, S)
<1>1. IsFiniteSet(S) /\ IsFiniteSet(T) /\ T \in SUBSET Contracts
  BY BookFacts, FS_Subset
<1>2. \A c \in S : /\ Balances(b)[c] \in Nat /\ Balances(d)[c] \in Nat
                   /\ Balances(d)[c] <= Balances(b)[c]
  BY PaidGrows, RemainingIs DEF Balances
<1>3. SumOver(Balances(d), T) <= SumOver(Balances(b), T)
  BY <1>1, <1>2, SumAtMost
<1>4. SumOver(Balances(b), T) <= SumOver(Balances(b), S)
  BY <1>1, <1>2, SumGrows
<1>5. Due(d, T) \in Nat /\ Due(b, T) \in Nat /\ Due(b, S) \in Nat
  BY <1>1, DueIs
<1> QED
  BY <1>3, <1>4, <1>5 DEF Due

\* Two tables that confirm the same have the same figures.
LEMMA DueSame ==
  ASSUME NEW b, NEW d, Grows(b, d), Grows(d, b)
  PROVE  /\ \A c \in Contracts : Paid(b, c) = Paid(d, c) /\ Remaining(b, c) = Remaining(d, c)
         /\ Balances(b) = Balances(d)
<1>1. ASSUME NEW c \in Contracts PROVE Counting(b, c) = Counting(d, c)
  BY DEF Counting, Grows
<1>2. \A c \in Contracts : Paid(b, c) = Paid(d, c)
  BY <1>1, PaidIs
<1> QED
  BY <1>2 DEF Remaining, Balances

\* The value of a user.
LEMMA ValueIs ==
  ASSUME NEW k \in SUBSET Contracts, NEW u
  PROVE  Value(k, u) = SumOver(Total, ContractsOf(k, u)) /\ Value(k, u) \in Nat
<1>1. PICK S \in SUBSET Contracts : S = ContractsOf(k, u) /\ IsFiniteSet(S)
  BY BookFacts
<1>2. \A c \in S : Total[c] \in Nat
  BY BookAssumption
<1>3. SumOver(Total, S) \in Nat
  BY <1>1, <1>2, SumNat
<1> QED
  BY <1>1, <1>3 DEF Value, SumOver

\* A ratio is a number.
LEMMA RatioIs ==
  ASSUME NEW n \in Nat, NEW d \in Nat
  PROVE  Ratio(n, d) \in Nat
<1>1. CASE d = 0
  BY <1>1 DEF Ratio
<1>2. CASE d # 0
  <2>1. 20000 * n + d \in Nat /\ 2 * d \in Nat \ {0}
    BY <1>2
  <2>2. \A x \in Nat, y \in Nat \ {0} : x \div y \in Nat
    OBVIOUS
  <2> QED
    BY <1>2, <2>1, <2>2 DEF Ratio
<1> QED
  BY <1>1, <1>2

\* A ratio grows with its numerator.
LEMMA RatioGrows ==
  ASSUME NEW m \in Nat, NEW n \in Nat, m <= n, NEW d \in Nat
  PROVE  Ratio(m, d) <= Ratio(n, d)
<1>1. CASE d = 0
  BY <1>1 DEF Ratio
<1>2. CASE d # 0
  <2>1. \A x, z \in Nat, y \in Nat \ {0} : x <= z => x \div y <= z \div y
    <3> SUFFICES ASSUME NEW x \in Nat, NEW z \in Nat, NEW y \in Nat \ {0}, x <= z
                 PROVE  x \div y <= z \div y
      OBVIOUS
    <3>1. /\ x \div y \in Int /\ z \div y \in Int
          /\ y * (x \div y) <= x /\ x < y * (x \div y) + y
          /\ y * (z \div y) <= z /\ z < y * (z \div y) + y
      OBVIOUS
    <3> QED
      BY <3>1
  <2>2. /\ 20000 * m + d \in Nat /\ 20000 * n + d \in Nat /\ 2 * d \in Nat \ {0}
        /\ 20000 * m + d <= 20000 * n + d
    BY <1>2
  <2> QED
    BY <1>2, <2>1, <2>2 DEF Ratio
<1> QED
  BY <1>1, <1>2

-----------------------------------------------------------------------------
\* Book c says no more of user u than book b does: no other contract, no later day, and
\* every payment confirmed in b.
Below(c, b, u) ==
  /\ ContractsOf(c.opened, u) \subseteq ContractsOf(b.opened, u)
  /\ c.today <= b.today
  /\ Grows(b.payment, c.payment)

\* The contracts of user u and the day are the same.
Still(b, c, u) ==
  /\ ContractsOf(c.opened, u) = ContractsOf(b.opened, u)
  /\ c.today = b.today

\* The picture an analyst puts together, as one record: what it says is then a statement about
\* a picture and a book, and a query a step from one picture to another.
Pictures ==
  [at : Steps, user : Users \cup {Nobody}, unread : SUBSET Contracts,
   paid : Seq(Contracts \X Nat), pass : 1..2, worth : [1..2 -> Nat], owed : [1..2 -> Nat],
   day : Nat, behind : [1..2 -> SUBSET Contracts], near : [1..2 -> SUBSET Contracts],
   irregular : BOOLEAN, before : Books, since : SUBSET {"falls", "rises"}, passes : 1..2]

Picture(a) ==
  [at |-> at[a], user |-> subject[a], unread |-> unread[a], paid |-> paidSeen[a],
   pass |-> pass[a], worth |-> worth[a], owed |-> owed[a], day |-> day[a],
   behind |-> behind[a], near |-> near[a], irregular |-> irregular[a],
   before |-> before[a], since |-> since[a],
   passes |-> IF a \in Advisors THEN 2 ELSE 1]

Mine(s, P) == ContractsOf(P.opened, s.user)
Busy(s) == s.at \notin {"idle", "list", "next"}
Drawing(s) == Busy(s) /\ s.at # "remember"

\* The contracts whose balance is still to be read in this pass, and the others.
ToWeigh(s) == IF s.at = "balance" THEN s.unread ELSE {}
Weighed(s, P) == Mine(s, P) \ ToWeigh(s)

\* Those that have been judged overdue or not, nearly complete or not.
Judged(s, P) ==
  IF s.at = "balance" THEN {}
  ELSE IF s.at = "overdue" THEN Mine(s, P) \ s.unread ELSE Mine(s, P)

Gauged(s, P) ==
  IF s.at \in {"balance", "overdue"} THEN {}
  ELSE IF s.at = "near" THEN Mine(s, P) \ s.unread ELSE Mine(s, P)

\* What the contracts already weighed owe now, what those to be weighed do, and what all
\* of them did at first.
Owes(s, P) == Due(P.payment, Weighed(s, P))
Left(s, P) == Due(P.payment, ToWeigh(s))
AtFirst(s) == Due(s.before.payment, ContractsOf(s.before.opened, s.user))

\* No picture is left over from the analysis before.
Blank(s) ==
  ~Busy(s) =>
    /\ s.user = Nobody /\ s.paid = <<>>
    /\ \A i \in 1..2 : s.owed[i] = 0 /\ s.behind[i] = {} /\ s.near[i] = {}

\* Whatever happens to the book, what is owed is at most the value of the contracts listed.
Bounded(s, P) ==
  Busy(s) =>
    /\ s.user \in Users
    /\ s.unread \subseteq Mine(s, P)
    /\ s.owed[1] <= s.worth[1]
    /\ s.at = "balance" /\ s.pass = 1 =>
         s.owed[1] + SumOver(Total, s.unread) <= s.worth[1]

\* Where the analysis is.
Staged(s) ==
  Drawing(s) =>
    /\ s.paid # <<>> => s.at = "overdue" /\ s.paid[1] \in s.unread \X Nat
    /\ s.pass = 1 => s.owed[2] = 0 /\ s.behind[2] = {} /\ s.near[2] = {}
    /\ s.pass <= s.passes
    /\ s.at \in {"audit", "pattern", "again"} => s.unread = {}
    /\ s.at \in {"pattern", "again"} => s.pass = 1
    /\ s.at = "again" => s.passes = 2
    /\ s.at = "audit" => s.pass = s.passes

\* Nothing moved: what is read is what the book held at the beginning.
Unmoved(s, P) ==
  Drawing(s) /\ s.since = {} =>
    /\ Still(s.before, P, s.user)
    /\ Grows(s.before.payment, P.payment) /\ Grows(P.payment, s.before.payment)
    /\ s.near[s.pass] = NearCompletion(s.before, s.user) \cap Gauged(s, P)
    /\ s.pass = 2 => s.near[1] = NearCompletion(s.before, s.user)
    /\ s.pass = 2 \/ s.at \in {"again", "audit"} =>
         s.irregular = IsInconsistent(s.before.payment, s.user)

\* Payments were only confirmed: the balances, the amount paid that was seen last, and the
\* overdue contracts lie between the beginning and now.
SumsSink(s, P) ==
  /\ Owes(s, P) <= s.owed[s.pass]
  /\ s.pass = 1 => s.owed[1] + Left(s, P) <= AtFirst(s)
  /\ s.pass = 2 => s.owed[1] <= AtFirst(s) /\ s.owed[2] + Left(s, P) <= s.owed[1]

SeenSinks(s, P, c, x) ==
  /\ Paid(s.before.payment, c) <= x /\ x <= Paid(P.payment, c)
  /\ s.pass = 2 /\ IsBehind(c, P.today, x, Remaining(P.payment, c)) => c \in s.behind[1]

SetsSink(s, P) ==
  /\ Behind(P, s.user) \cap Judged(s, P) \subseteq s.behind[s.pass]
  /\ s.behind[1] \subseteq Behind(s.before, s.user)
  /\ s.pass = 2 => Behind(P, s.user) \subseteq s.behind[1] /\ s.behind[2] \subseteq s.behind[1]

Sinking(s, P) ==
  Drawing(s) /\ "rises" \notin s.since =>
    /\ Below(P, s.before, s.user) /\ Still(s.before, P, s.user)
    /\ \A i \in 1..s.pass : s.worth[i] = SumOver(Total, Mine(s, P))
    /\ s.at = "overdue" => s.day = P.today
    /\ s.paid # <<>> => SeenSinks(s, P, s.paid[1][1], s.paid[1][2])
    /\ SumsSink(s, P) /\ SetsSink(s, P)

\* Payments were only withdrawn, contracts created and days begun: the same the other way
\* round.
SumsRise(s, P) ==
  /\ s.owed[s.pass] <= Owes(s, P)
  /\ s.pass = 1 => AtFirst(s) <= s.owed[1] + Left(s, P)
  /\ s.pass = 2 => AtFirst(s) <= s.owed[1] /\ s.owed[1] <= s.owed[2] + Left(s, P)

DayRises(s, P) ==
  /\ s.before.today <= s.day /\ s.day <= P.today
  /\ s.pass = 2 => \A c \in s.behind[1] : Paid(P.payment, c) < ExpectedByNow(c, s.day)

SeenRises(s, P, c, x) ==
  /\ Paid(P.payment, c) <= x /\ x <= Paid(s.before.payment, c)
  /\ s.pass = 2 /\ c \in s.behind[1] => x < ExpectedByNow(c, s.day)

SetsRise(s, P) ==
  /\ s.behind[s.pass] \subseteq Behind(P, s.user)
  /\ s.pass = 1 => Behind(s.before, s.user) \cap Judged(s, P) \subseteq s.behind[1]
  /\ s.pass = 2 => /\ Behind(s.before, s.user) \subseteq s.behind[1]
                   /\ s.behind[1] \subseteq Behind(P, s.user)
                   /\ s.behind[1] \cap Judged(s, P) \subseteq s.behind[2]

Rising(s, P) ==
  Drawing(s) /\ "falls" \notin s.since =>
    /\ Below(s.before, P, s.user)
    /\ s.at = "overdue" => DayRises(s, P)
    /\ s.paid # <<>> => SeenRises(s, P, s.paid[1][1], s.paid[1][2])
    /\ SumsRise(s, P) /\ SetsRise(s, P)

Drawn(s, P) ==
  Blank(s) /\ Bounded(s, P) /\ Staged(s) /\ Unmoved(s, P) /\ Sinking(s, P) /\ Rising(s, P)

-----------------------------------------------------------------------------
\* What a picture consists of.
LEMMA PictureFacts ==
  ASSUME NEW s \in Pictures, NEW P \in Books
  PROVE  /\ s.at \in Steps /\ s.unread \in SUBSET Contracts /\ s.pass \in 1..2
         /\ \A i \in 1..2 : /\ s.owed[i] \in Nat /\ s.worth[i] \in Nat
                            /\ s.behind[i] \subseteq Contracts /\ s.near[i] \subseteq Contracts
         /\ s.passes \in 1..2 /\ s.before \in Books /\ s.day \in Nat
         /\ P.opened \in SUBSET Contracts /\ P.today \in Nat
         /\ s.before.opened \in SUBSET Contracts /\ s.before.today \in Nat
         /\ Mine(s, P) \in SUBSET Contracts
         /\ Owes(s, P) \in Nat /\ Left(s, P) \in Nat /\ AtFirst(s) \in Nat
<1>1. /\ s.at \in Steps /\ s.unread \in SUBSET Contracts /\ s.pass \in 1..2
      /\ \A i \in 1..2 : /\ s.owed[i] \in Nat /\ s.worth[i] \in Nat
                         /\ s.behind[i] \subseteq Contracts /\ s.near[i] \subseteq Contracts
      /\ s.passes \in 1..2 /\ s.before \in Books /\ s.day \in Nat
  BY DEF Pictures
<1>2. /\ P.opened \in SUBSET Contracts /\ P.today \in Nat
      /\ s.before.opened \in SUBSET Contracts /\ s.before.today \in Nat
  BY <1>1 DEF Books
<1>3. Mine(s, P) \in SUBSET Contracts /\ ContractsOf(s.before.opened, s.user) \in SUBSET Contracts
  BY <1>2, BookFacts DEF Mine
<1>4. ToWeigh(s) \in SUBSET Contracts /\ Weighed(s, P) \in SUBSET Contracts
  BY <1>1, <1>3 DEF ToWeigh, Weighed
<1>5. Owes(s, P) \in Nat /\ Left(s, P) \in Nat /\ AtFirst(s) \in Nat
  BY <1>3, <1>4, DueIs DEF Owes, Left, AtFirst
<1> QED
  BY <1>1, <1>2, <1>3, <1>5

\* A book that says no more calls no more contracts overdue.
LEMMA BehindShrinks ==
  ASSUME NEW c \in Books, NEW b \in Books, NEW u, Below(c, b, u)
  PROVE  Behind(c, u) \subseteq Behind(b, u)
<1> SUFFICES ASSUME NEW e \in Behind(c, u) PROVE e \in Behind(b, u)
  OBVIOUS
<1>1. c.opened \in SUBSET Contracts /\ c.today \in Nat /\ b.today \in Nat
  BY DEF Books
<1>2. /\ e \in ContractsOf(c.opened, u)
      /\ IsBehind(e, c.today, Paid(c.payment, e), Remaining(c.payment, e))
  BY DEF Behind
<1>3. e \in Contracts /\ e \in ContractsOf(b.opened, u)
  BY <1>1, <1>2, BookFacts DEF Below
<1>4. /\ Paid(b.payment, e) <= Paid(c.payment, e)
      /\ Remaining(c.payment, e) <= Remaining(b.payment, e)
      /\ Paid(b.payment, e) \in Nat /\ Paid(c.payment, e) \in Nat
      /\ Remaining(b.payment, e) \in Nat /\ Remaining(c.payment, e) \in Nat
  BY <1>3, PaidGrows, PaidIs, RemainingIs DEF Below
<1>5. /\ ExpectedByNow(e, c.today) \in Nat /\ ExpectedByNow(e, b.today) \in Nat
      /\ ExpectedByNow(e, c.today) <= ExpectedByNow(e, b.today)
  BY <1>1, <1>3, ExpectedIs DEF Below
<1>6. IsBehind(e, b.today, Paid(b.payment, e), Remaining(b.payment, e))
  BY <1>2, <1>4, <1>5 DEF IsBehind
<1> QED
  BY <1>3, <1>6 DEF Behind

\* One more balance read: its remaining amount joins the sum.
LEMMA BalanceRead ==
  ASSUME NEW s \in Pictures, NEW P \in Books, Drawn(s, P), s.at = "balance", NEW c \in s.unread,
         NEW t,
         t = [s EXCEPT !.owed = [s.owed EXCEPT ![s.pass] =
                                    s.owed[s.pass] + Remaining(P.payment, c)],
                       !.unread = s.unread \ {c}]
  PROVE  Drawn(t, P)
<1> DEFINE toRead == s.unread
           mine == Mine(s, P)
           r == Remaining(P.payment, c)
<1>1. /\ t.at = "balance" /\ t.user = s.user /\ t.paid = s.paid /\ t.pass = s.pass
      /\ t.behind = s.behind /\ t.near = s.near /\ t.irregular = s.irregular
      /\ t.before = s.before /\ t.since = s.since /\ t.passes = s.passes
      /\ t.worth = s.worth /\ t.day = s.day
      /\ t.unread = toRead \ {c} /\ Mine(t, P) = mine
      /\ t.owed = [s.owed EXCEPT ![s.pass] = s.owed[s.pass] + r]
  BY DEF Pictures, Mine
<1>2. Busy(s) /\ Drawing(s) /\ Busy(t) /\ Drawing(t)
  BY <1>1 DEF Busy, Drawing
<1>3. /\ c \in Contracts /\ toRead \in SUBSET mine /\ s.user \in Users
      /\ mine \in SUBSET Contracts
  BY <1>2, PictureFacts DEF Drawn, Bounded
<1>4. r \in Nat /\ Total[c] \in Nat /\ r <= Total[c]
  BY <1>3, RemainingIs
<1>5. \A i \in 1..2 : t.owed[i] = IF i = s.pass THEN s.owed[i] + r ELSE s.owed[i]
  BY <1>1 DEF Pictures
<1>6. /\ ToWeigh(s) = toRead /\ ToWeigh(t) = toRead \ {c}
      /\ Weighed(s, P) = mine \ toRead /\ Weighed(t, P) = mine \ (toRead \ {c})
      /\ Judged(s, P) = {} /\ Judged(t, P) = {} /\ Gauged(s, P) = {} /\ Gauged(t, P) = {}
  BY <1>1 DEF ToWeigh, Weighed, Judged, Gauged
<1>7. /\ Owes(t, P) = Owes(s, P) + r /\ Left(s, P) = Left(t, P) + r
      /\ Owes(s, P) \in Nat /\ Left(t, P) \in Nat /\ AtFirst(t) = AtFirst(s)
  <2>1. (mine \ (toRead \ {c})) \ {c} = mine \ toRead /\ c \in mine \ (toRead \ {c}) /\ c \in toRead
    BY <1>3
  <2>2. /\ Due(P.payment, mine \ (toRead \ {c})) = Due(P.payment, mine \ toRead) + r
        /\ Due(P.payment, toRead) = Due(P.payment, toRead \ {c}) + r
        /\ Due(P.payment, mine \ toRead) \in Nat /\ Due(P.payment, toRead \ {c}) \in Nat
    BY <1>3, <2>1, DueIs
  <2> QED
    BY <1>1, <1>6, <2>2 DEF Owes, Left, AtFirst
<1>8. Blank(t)
  BY <1>2 DEF Blank
<1>9. Bounded(t, P)
  <2>1. SumOver(Total, toRead) = Total[c] + SumOver(Total, toRead \ {c}) /\ SumOver(Total, toRead \ {c}) \in Nat
    <3>1. IsFiniteSet(toRead) /\ \A x \in toRead : Total[x] \in Nat
      BY <1>3, BookFacts, FS_Subset, BookAssumption
    <3>2. IsFiniteSet(toRead \ {c})
      BY <3>1, FS_Subset
    <3> QED
      BY <3>1, <3>2, SumTakes, SumNat
  <2> HIDE DEF toRead, mine, r
  <2>2. Bounded(s, P)
    BY DEF Drawn
  <2>3. s.pass \in 1..2 /\ \A i \in 1..2 : s.owed[i] \in Nat /\ s.worth[i] \in Nat
    BY PictureFacts
  <2>4. s.pass = 1 => s.owed[1] + SumOver(Total, toRead) <= s.worth[1]
    BY <1>2, <2>2 DEF Bounded, toRead
  <2>5. t.owed[1] <= t.worth[1] /\
          (t.pass = 1 => t.owed[1] + SumOver(Total, t.unread) <= t.worth[1])
    <3>1. CASE s.pass = 1
      BY <1>1, <1>4, <1>5, <2>1, <2>3, <2>4, <3>1
    <3>2. CASE s.pass = 2
      BY <1>1, <1>2, <1>5, <2>2, <2>3, <3>2 DEF Bounded
    <3> QED
      BY <2>3, <3>1, <3>2
  <2> QED
    BY <1>1, <1>2, <1>3, <2>2, <2>5 DEF Bounded, toRead, mine
<1>10. Staged(t)
  BY <1>1, <1>2, <1>5 DEF Drawn, Staged
<1>11. Unmoved(t, P)
  BY <1>1, <1>2, <1>6 DEF Drawn, Unmoved
<1>12. s.pass \in 1..2 /\ (\A i \in 1..2 : s.owed[i] \in Nat) /\ AtFirst(s) \in Nat
  BY PictureFacts
<1>13. t.owed[s.pass] = s.owed[s.pass] + r /\ (s.pass = 2 => t.owed[1] = s.owed[1])
  BY <1>5, <1>12
<1>14. s.paid = <<>>
  BY <1>2 DEF Drawn, Staged
<1>15. Sinking(t, P)
  <2> SUFFICES ASSUME "rises" \notin s.since PROVE Sinking(t, P)
    BY <1>1 DEF Sinking
  <2>1. SumsSink(s, P)
    BY <1>2 DEF Drawn, Sinking
  <2>2. SumsSink(t, P)
    <3> HIDE DEF r, toRead, mine
    <3> QED
      BY <1>1, <1>4, <1>7, <1>12, <1>13, <2>1 DEF SumsSink
  <2>3. SetsSink(t, P)
    BY <1>1, <1>2, <1>6 DEF Drawn, Sinking, SetsSink
  <2> QED
    BY <1>1, <1>2, <1>14, <2>2, <2>3 DEF Drawn, Sinking
<1>16. Rising(t, P)
  <2> SUFFICES ASSUME "falls" \notin s.since PROVE Rising(t, P)
    BY <1>1 DEF Rising
  <2>1. SumsRise(s, P)
    BY <1>2 DEF Drawn, Rising
  <2>2. SumsRise(t, P)
    <3> HIDE DEF r, toRead, mine
    <3> QED
      BY <1>1, <1>4, <1>7, <1>12, <1>13, <2>1 DEF SumsRise
  <2>3. SetsRise(t, P)
    BY <1>1, <1>2, <1>6 DEF Drawn, Rising, SetsRise
  <2> QED
    BY <1>1, <1>2, <1>14, <2>2, <2>3 DEF Drawn, Rising
<1> QED
  BY <1>8, <1>9, <1>10, <1>11, <1>15, <1>16 DEF Drawn

\* What a contract has paid is read, the first of the two queries about it.
LEMMA PaidRead ==
  ASSUME NEW s \in Pictures, NEW P \in Books, Drawn(s, P), s.at = "overdue", s.paid = <<>>,
         NEW c \in s.unread, NEW t,
         t = [s EXCEPT !.paid = <<<<c, Paid(P.payment, c)>>>>]
  PROVE  Drawn(t, P)
<1> DEFINE x == Paid(P.payment, c)
<1>1. /\ t.at = s.at /\ t.user = s.user /\ t.pass = s.pass /\ t.owed = s.owed
      /\ t.behind = s.behind /\ t.near = s.near /\ t.irregular = s.irregular
      /\ t.before = s.before /\ t.since = s.since /\ t.passes = s.passes
      /\ t.worth = s.worth /\ t.day = s.day
      /\ t.unread = s.unread /\ Mine(t, P) = Mine(s, P)
      /\ t.paid # <<>> /\ t.paid[1] = <<c, x>>
      /\ t.paid[1][1] = c /\ t.paid[1][2] = x
  BY DEF Pictures, Mine
<1>2. /\ Busy(s) /\ Drawing(s) /\ Busy(t) /\ Drawing(t)
      /\ ToWeigh(t) = ToWeigh(s) /\ Weighed(t, P) = Weighed(s, P)
      /\ Judged(t, P) = Judged(s, P) /\ Gauged(t, P) = Gauged(s, P)
  BY <1>1 DEF Busy, Drawing, ToWeigh, Weighed, Judged, Gauged
<1>3. Owes(t, P) = Owes(s, P) /\ Left(t, P) = Left(s, P) /\ AtFirst(t) = AtFirst(s)
  BY <1>1, <1>2 DEF Owes, Left, AtFirst
<1>4. c \in Contracts /\ c \in Mine(s, P) /\ x \in Nat
  BY <1>2, PictureFacts, PaidIs DEF Drawn, Bounded
<1>5. Blank(t) /\ Bounded(t, P)
  BY <1>1, <1>2 DEF Blank, Drawn, Bounded
<1>6. Staged(t)
  BY <1>1, <1>2, <1>4 DEF Drawn, Staged
<1>7. Unmoved(t, P)
  BY <1>1, <1>2 DEF Drawn, Unmoved
<1>8. IsBehind(c, P.today, x, Remaining(P.payment, c)) => c \in Behind(P, s.user)
  BY <1>4 DEF Behind, Mine
<1>9. Sinking(t, P)
  <2> SUFFICES ASSUME "rises" \notin s.since PROVE Sinking(t, P)
    BY <1>1 DEF Sinking
  <2>1. Below(P, s.before, s.user) /\ SumsSink(s, P) /\ SetsSink(s, P)
    BY <1>2 DEF Drawn, Sinking
  <2>2. Paid(s.before.payment, c) <= x
    BY <1>4, <2>1, PaidGrows DEF Below
  <2>3. SeenSinks(t, P, c, x)
    BY <1>1, <1>4, <1>8, <2>1, <2>2 DEF SeenSinks, SetsSink
  <2>4. SumsSink(t, P) /\ SetsSink(t, P)
    BY <1>1, <1>2, <1>3, <2>1 DEF SumsSink, SetsSink
  <2> HIDE DEF x
  <2> QED
    BY <1>1, <1>2, <2>3, <2>4 DEF Drawn, Sinking
<1>10. Rising(t, P)
  <2> SUFFICES ASSUME "falls" \notin s.since PROVE Rising(t, P)
    BY <1>1 DEF Rising
  <2>1. Below(s.before, P, s.user) /\ SumsRise(s, P) /\ SetsRise(s, P) /\ DayRises(s, P)
    BY <1>2 DEF Drawn, Rising
  <2>2. x <= Paid(s.before.payment, c)
    BY <1>4, <2>1, PaidGrows DEF Below
  <2>3. SeenRises(t, P, c, x)
    BY <1>1, <1>4, <2>1, <2>2 DEF SeenRises, DayRises
  <2>4. SumsRise(t, P) /\ SetsRise(t, P) /\ DayRises(t, P)
    BY <1>1, <1>2, <1>3, <2>1 DEF SumsRise, SetsRise, DayRises
  <2> HIDE DEF x
  <2> QED
    BY <1>1, <1>2, <2>1, <2>3, <2>4 DEF Rising
<1> QED
  BY <1>5, <1>6, <1>7, <1>9, <1>10 DEF Drawn

\* What remains of it is read, and it is judged.
LEMMA LeftRead ==
  ASSUME NEW s \in Pictures, NEW P \in Books, Drawn(s, P), s.at = "overdue", s.paid # <<>>,
         NEW c, NEW x, c = s.paid[1][1], x = s.paid[1][2], NEW late,
         late \subseteq {c}, c \in late <=> IsBehind(c, s.day, x, Remaining(P.payment, c)), NEW t,
         t = [s EXCEPT !.behind = [s.behind EXCEPT ![s.pass] = s.behind[s.pass] \cup late],
                       !.unread = s.unread \ {c}, !.paid = <<>>]
  PROVE  Drawn(t, P)
<1>1. /\ t.at = s.at /\ t.user = s.user /\ t.pass = s.pass /\ t.owed = s.owed
      /\ t.behind = [s.behind EXCEPT ![s.pass] = s.behind[s.pass] \cup late]
      /\ t.near = s.near /\ t.irregular = s.irregular
      /\ t.before = s.before /\ t.since = s.since /\ t.passes = s.passes
      /\ t.worth = s.worth /\ t.day = s.day
      /\ t.unread = s.unread \ {c} /\ Mine(t, P) = Mine(s, P) /\ t.paid = <<>>
  BY DEF Pictures, Mine
<1>2. Busy(s) /\ Drawing(s) /\ Busy(t) /\ Drawing(t)
  BY <1>1 DEF Busy, Drawing
<1>3. /\ s.paid[1] \in s.unread \X Nat /\ s.unread \subseteq Mine(s, P)
      /\ Mine(s, P) \subseteq Contracts /\ s.pass \in 1..2
  BY <1>2, PictureFacts DEF Drawn, Bounded, Staged
<1>4. c \in s.unread /\ x \in Nat /\ c \in Contracts /\ c \in Mine(s, P)
  BY <1>3
<1>5. /\ \A i \in 1..2 : t.behind[i] = IF i = s.pass THEN s.behind[i] \cup late ELSE s.behind[i]
      /\ s.pass = 2 => t.behind[1] = s.behind[1]
      /\ t.behind[s.pass] = s.behind[s.pass] \cup late
  <2>1. DOMAIN s.behind = 1..2
    BY DEF Pictures
  <2>2. \A i \in 1..2 : t.behind[i] = IF i = s.pass THEN s.behind[i] \cup late ELSE s.behind[i]
    <3>1. t.behind = [s.behind EXCEPT ![s.pass] = s.behind[s.pass] \cup late]
      BY <1>1
    <3> QED
      BY ONLY <2>1, <3>1
  <2> QED
    BY <1>3, <2>2
<1>6. /\ ToWeigh(s) = {} /\ ToWeigh(t) = {} /\ Weighed(t, P) = Weighed(s, P)
      /\ Judged(t, P) = Judged(s, P) \cup {c} /\ Gauged(s, P) = {} /\ Gauged(t, P) = {}
  BY <1>1, <1>3, <1>4 DEF ToWeigh, Weighed, Judged, Gauged
<1>7. Owes(t, P) = Owes(s, P) /\ Left(t, P) = Left(s, P) /\ AtFirst(t) = AtFirst(s)
  BY <1>1, <1>6 DEF Owes, Left, AtFirst
<1>8. late \subseteq {c} /\ (c \in late <=> IsBehind(c, s.day, x, Remaining(P.payment, c)))
  OBVIOUS
<1>9. /\ Remaining(P.payment, c) \in Nat /\ Remaining(s.before.payment, c) \in Nat
      /\ Paid(P.payment, c) \in Nat /\ Paid(s.before.payment, c) \in Nat
      /\ s.day \in Nat /\ P.today \in Nat /\ s.before.today \in Nat
      /\ \A d \in Nat : ExpectedByNow(c, d) \in Nat
  BY <1>4, RemainingIs, PaidIs, ExpectedIs, PictureFacts
<1>10. Blank(t) /\ Bounded(t, P)
  BY <1>1, <1>2 DEF Blank, Drawn, Bounded
<1>11. Staged(t)
  BY <1>1, <1>2, <1>3, <1>5 DEF Drawn, Staged
<1>12. Unmoved(t, P)
  BY <1>1, <1>2, <1>6 DEF Drawn, Unmoved
<1>13. Sinking(t, P)
  <2> SUFFICES ASSUME "rises" \notin s.since PROVE Sinking(t, P)
    BY <1>1 DEF Sinking
  <2>1. /\ Below(P, s.before, s.user) /\ Still(s.before, P, s.user) /\ s.day = P.today
        /\ SeenSinks(s, P, c, x) /\ SumsSink(s, P) /\ SetsSink(s, P)
    BY <1>2 DEF Drawn, Sinking
  <2>2. c \in Behind(P, s.user) => c \in late
    <3>1. c \in Behind(P, s.user) => IsBehind(c, P.today, Paid(P.payment, c), Remaining(P.payment, c))
      BY DEF Behind
    <3>2. x <= Paid(P.payment, c)
      BY <2>1 DEF SeenSinks
    <3> QED
      BY <1>4, <1>8, <1>9, <2>1, <3>1, <3>2 DEF IsBehind
  <2>3. c \in late => c \in Behind(s.before, s.user)
    <3>1. Remaining(P.payment, c) <= Remaining(s.before.payment, c)
      BY <1>4, <2>1, PaidGrows DEF Below
    <3>2. Paid(s.before.payment, c) <= x /\ s.day = s.before.today
      BY <2>1 DEF SeenSinks, Still
    <3>3. c \in late => IsBehind(c, s.before.today, Paid(s.before.payment, c), Remaining(s.before.payment, c))
      BY <1>4, <1>8, <1>9, <3>1, <3>2 DEF IsBehind
    <3>4. c \in ContractsOf(s.before.opened, s.user)
      BY <1>4, <2>1 DEF Still, Mine
    <3> QED
      BY <3>3, <3>4 DEF Behind
  <2>4. s.pass = 2 /\ c \in late => c \in s.behind[1]
    BY <1>8, <2>1 DEF SeenSinks
  <2>5. SumsSink(t, P)
    BY <1>1, <1>7, <2>1 DEF SumsSink
  <2>6. SetsSink(t, P)
    <3>1. /\ Behind(P, s.user) \cap Judged(s, P) \subseteq s.behind[s.pass]
          /\ s.behind[1] \subseteq Behind(s.before, s.user)
          /\ s.pass = 2 => Behind(P, s.user) \subseteq s.behind[1] /\ s.behind[2] \subseteq s.behind[1]
      BY <2>1 DEF SetsSink
    <3>2. Behind(P, s.user) \cap Judged(t, P) \subseteq t.behind[s.pass]
      BY <1>5, <1>6, <2>2, <3>1
    <3>3. t.behind[1] \subseteq Behind(s.before, s.user)
      BY <1>3, <1>5, <1>8, <2>3, <3>1
    <3>4. s.pass = 2 => Behind(P, s.user) \subseteq t.behind[1] /\ t.behind[2] \subseteq t.behind[1]
      BY <1>3, <1>5, <1>8, <2>4, <3>1
    <3> QED
      BY <1>1, <3>2, <3>3, <3>4 DEF SetsSink
  <2> QED
    BY <1>1, <1>2, <2>1, <2>5, <2>6 DEF Drawn, Sinking
<1>14. Rising(t, P)
  <2> SUFFICES ASSUME "falls" \notin s.since PROVE Rising(t, P)
    BY <1>1 DEF Rising
  <2>1. /\ Below(s.before, P, s.user) /\ DayRises(s, P) /\ SeenRises(s, P, c, x)
        /\ SumsRise(s, P) /\ SetsRise(s, P)
    BY <1>2 DEF Drawn, Rising
  <2>2. /\ Paid(P.payment, c) <= x /\ x <= Paid(s.before.payment, c)
        /\ s.before.today <= s.day /\ s.day <= P.today
        /\ Remaining(s.before.payment, c) <= Remaining(P.payment, c)
    BY <1>4, <2>1, PaidGrows DEF SeenRises, DayRises, Below
  <2>3. /\ ExpectedByNow(c, s.before.today) <= ExpectedByNow(c, s.day)
        /\ ExpectedByNow(c, s.day) <= ExpectedByNow(c, P.today)
    BY <1>4, <1>9, <2>2, ExpectedIs
  <2>4. c \in late => c \in Behind(P, s.user)
    <3>1. c \in late => IsBehind(c, P.today, Paid(P.payment, c), Remaining(P.payment, c))
      BY <1>4, <1>8, <1>9, <2>2, <2>3 DEF IsBehind
    <3> QED
      BY <1>4, <3>1 DEF Behind, Mine
  <2>5. c \in Behind(s.before, s.user) => c \in late
    <3>1. c \in Behind(s.before, s.user) =>
            IsBehind(c, s.before.today, Paid(s.before.payment, c), Remaining(s.before.payment, c))
      BY DEF Behind
    <3> QED
      BY <1>4, <1>8, <1>9, <2>2, <2>3, <3>1 DEF IsBehind
  <2>6. s.pass = 2 /\ c \in s.behind[1] => c \in late
    <3>1. s.pass = 2 /\ c \in s.behind[1] => x < ExpectedByNow(c, s.day)
      BY <2>1 DEF SeenRises
    <3>2. s.pass = 2 /\ c \in s.behind[1] => Remaining(P.payment, c) > 0
      BY <2>1 DEF SetsRise, Behind, IsBehind
    <3> QED
      BY <1>8, <3>1, <3>2 DEF IsBehind
  <2>7. SumsRise(t, P) /\ DayRises(t, P)
    BY <1>1, <1>5, <1>7, <2>1 DEF SumsRise, DayRises
  <2>8. SetsRise(t, P)
    <3>1. /\ s.behind[s.pass] \subseteq Behind(P, s.user)
          /\ s.pass = 1 => Behind(s.before, s.user) \cap Judged(s, P) \subseteq s.behind[1]
          /\ s.pass = 2 => /\ Behind(s.before, s.user) \subseteq s.behind[1]
                           /\ s.behind[1] \subseteq Behind(P, s.user)
                           /\ s.behind[1] \cap Judged(s, P) \subseteq s.behind[2]
      BY <2>1 DEF SetsRise
    <3>2. t.behind[s.pass] \subseteq Behind(P, s.user)
      BY <1>5, <1>8, <2>4, <3>1
    <3>3. s.pass = 1 => Behind(s.before, s.user) \cap Judged(t, P) \subseteq t.behind[1]
      BY <1>5, <1>6, <2>5, <3>1
    <3>4. s.pass = 2 => /\ Behind(s.before, s.user) \subseteq t.behind[1]
                        /\ t.behind[1] \subseteq Behind(P, s.user)
                        /\ t.behind[1] \cap Judged(t, P) \subseteq t.behind[2]
      BY <1>5, <1>6, <2>6, <3>1
    <3> QED
      BY <1>1, <3>2, <3>3, <3>4 DEF SetsRise
  <2> QED
    BY <1>1, <1>2, <2>1, <2>7, <2>8 DEF Rising
<1> QED
  BY <1>10, <1>11, <1>12, <1>13, <1>14 DEF Drawn

\* One more contract is tested for being nearly complete.
LEMMA NearRead ==
  ASSUME NEW s \in Pictures, NEW P \in Books, Drawn(s, P), s.at = "near", NEW c \in s.unread,
         NEW close, close = {d \in {c} : IsNearCompletion(d, Remaining(P.payment, d))}, NEW t,
         t = [s EXCEPT !.near = [s.near EXCEPT ![s.pass] = s.near[s.pass] \cup close],
                       !.unread = s.unread \ {c}]
  PROVE  Drawn(t, P)
<1>1. /\ t.at = s.at /\ t.user = s.user /\ t.pass = s.pass /\ t.owed = s.owed
      /\ t.near = [s.near EXCEPT ![s.pass] = s.near[s.pass] \cup close]
      /\ t.behind = s.behind /\ t.irregular = s.irregular
      /\ t.before = s.before /\ t.since = s.since /\ t.passes = s.passes
      /\ t.worth = s.worth /\ t.day = s.day
      /\ t.unread = s.unread \ {c} /\ Mine(t, P) = Mine(s, P) /\ t.paid = s.paid
  BY DEF Pictures, Mine
<1>2. Busy(s) /\ Drawing(s) /\ Busy(t) /\ Drawing(t)
  BY <1>1 DEF Busy, Drawing
<1>3. /\ s.paid = <<>> /\ s.unread \subseteq Mine(s, P) /\ c \in Mine(s, P)
      /\ Mine(s, P) \subseteq Contracts /\ s.pass \in 1..2
  BY <1>2, PictureFacts DEF Drawn, Bounded, Staged
<1>4. /\ \A i \in 1..2 : t.near[i] = IF i = s.pass THEN s.near[i] \cup close ELSE s.near[i]
      /\ s.pass = 2 => t.near[1] = s.near[1]
      /\ t.near[s.pass] = s.near[s.pass] \cup close
  <2>1. DOMAIN s.near = 1..2
    BY DEF Pictures
  <2>2. \A i \in 1..2 : t.near[i] = IF i = s.pass THEN s.near[i] \cup close ELSE s.near[i]
    BY <1>1, <2>1
  <2> QED
    BY <1>3, <2>2
<1>5. /\ ToWeigh(s) = {} /\ ToWeigh(t) = {} /\ Weighed(t, P) = Weighed(s, P)
      /\ Judged(t, P) = Judged(s, P) /\ Gauged(t, P) = Gauged(s, P) \cup {c}
  BY <1>1, <1>3 DEF ToWeigh, Weighed, Judged, Gauged
<1>6. Owes(t, P) = Owes(s, P) /\ Left(t, P) = Left(s, P) /\ AtFirst(t) = AtFirst(s)
  BY <1>1, <1>5 DEF Owes, Left, AtFirst
<1>7. Blank(t) /\ Bounded(t, P)
  BY <1>1, <1>2, <1>3 DEF Blank, Drawn, Bounded
<1>8. Staged(t)
  BY <1>1, <1>2, <1>3, <1>4 DEF Drawn, Staged
<1>9. Unmoved(t, P)
  <2> SUFFICES ASSUME s.since = {}
               PROVE  t.near[s.pass] = NearCompletion(s.before, s.user) \cap Gauged(t, P)
    BY <1>1, <1>2, <1>3, <1>4, <1>5 DEF Drawn, Unmoved
  <2>1. Remaining(P.payment, c) = Remaining(s.before.payment, c)
    BY <1>2, <1>3, DueSame DEF Drawn, Unmoved
  <2>2. close \subseteq {c} /\ (c \in close <=> c \in NearCompletion(s.before, s.user))
    <3>1. c \in ContractsOf(s.before.opened, s.user)
      BY <1>2, <1>3 DEF Drawn, Unmoved, Still, Mine
    <3> QED
      BY <2>1, <3>1 DEF NearCompletion
  <2>3. s.near[s.pass] = NearCompletion(s.before, s.user) \cap Gauged(s, P)
    BY <1>2 DEF Drawn, Unmoved
  <2> QED
    BY <1>4, <1>5, <2>2, <2>3
<1>10. Sinking(t, P)
  BY <1>1, <1>2, <1>3, <1>5, <1>6 DEF Drawn, Sinking, SumsSink, SetsSink
<1>11. Rising(t, P)
  BY <1>1, <1>2, <1>3, <1>5, <1>6 DEF Drawn, Rising, SumsRise, SetsRise
<1> QED
  BY <1>7, <1>8, <1>9, <1>10, <1>11 DEF Drawn

\* The last contract of a figure has been read, and the next figure lists the contracts anew.
LEMMA FigureDone ==
  ASSUME NEW s \in Pictures, NEW P \in Books, Drawn(s, P),
         s.at \in {"balance", "overdue", "near"}, s.unread = {}, NEW next, NEW t,
         \/ s.at = "balance" /\ next = "overdue"
         \/ s.at = "overdue" /\ next = "near"
         \/ s.at = "near" /\ next = IF s.pass = 1 THEN "pattern" ELSE "audit",
         t = [s EXCEPT !.at = next, !.unread = IF s.at = "near" THEN {} ELSE Mine(s, P),
                       !.day = IF s.at = "balance" THEN P.today ELSE 0]
  PROVE  Drawn(t, P)
<1>1. /\ t.at = next /\ t.user = s.user /\ t.pass = s.pass /\ t.owed = s.owed
      /\ t.near = s.near /\ t.behind = s.behind /\ t.irregular = s.irregular
      /\ t.before = s.before /\ t.since = s.since /\ t.passes = s.passes
      /\ t.worth = s.worth /\ t.day = (IF s.at = "balance" THEN P.today ELSE 0)
      /\ t.unread = (IF s.at = "near" THEN {} ELSE Mine(s, P)) /\ Mine(t, P) = Mine(s, P)
      /\ t.paid = s.paid
  BY DEF Pictures, Mine
<1>2. Busy(s) /\ Drawing(s) /\ Busy(t) /\ Drawing(t)
  BY <1>1 DEF Busy, Drawing
<1>3. s.paid = <<>> /\ s.pass \in 1..2
  BY <1>2, PictureFacts DEF Drawn, Staged
<1>4. /\ ToWeigh(s) = {} /\ ToWeigh(t) = {} /\ Weighed(t, P) = Weighed(s, P)
      /\ Judged(t, P) = Judged(s, P) /\ Gauged(t, P) = Gauged(s, P)
  BY <1>1 DEF ToWeigh, Weighed, Judged, Gauged
<1>5. Owes(t, P) = Owes(s, P) /\ Left(t, P) = Left(s, P) /\ AtFirst(t) = AtFirst(s)
  BY <1>1, <1>4 DEF Owes, Left, AtFirst
<1>6. Blank(t) /\ Bounded(t, P)
  BY <1>1, <1>2 DEF Blank, Drawn, Bounded
<1>7. Staged(t)
  BY <1>1, <1>2, <1>3, PictureFacts DEF Drawn, Staged
<1>8. Unmoved(t, P)
  BY <1>1, <1>2, <1>3, <1>4 DEF Drawn, Unmoved
<1>9. t.at = "overdue" => t.day = P.today
  BY <1>1
<1>10. Sinking(t, P)
  BY <1>1, <1>2, <1>3, <1>4, <1>5, <1>9 DEF Drawn, Sinking, SumsSink, SetsSink
<1>11. Rising(t, P)
  <2> SUFFICES ASSUME "falls" \notin s.since PROVE Rising(t, P)
    BY <1>1 DEF Rising
  <2>1. Below(s.before, P, s.user) /\ SumsRise(s, P) /\ SetsRise(s, P)
    BY <1>2 DEF Drawn, Rising
  <2>2. SumsRise(t, P) /\ SetsRise(t, P)
    BY <1>1, <1>4, <1>5, <2>1 DEF SumsRise, SetsRise
  <2>3. t.at = "overdue" => DayRises(t, P)
    <3> SUFFICES ASSUME t.at = "overdue" PROVE DayRises(t, P)
      OBVIOUS
    <3>1. s.before.today <= P.today /\ P.today \in Nat /\ P.today <= P.today
      BY <2>1, PictureFacts DEF Below
    <3>2. s.pass = 2 => s.behind[1] \subseteq Behind(P, s.user)
      BY <2>1 DEF SetsRise
    <3>3. \A c \in Behind(P, s.user) : Paid(P.payment, c) < ExpectedByNow(c, P.today)
      BY DEF Behind, IsBehind
    <3> QED
      BY <1>1, <1>9, <3>1, <3>2, <3>3 DEF DayRises
  <2> QED
    BY <1>1, <1>2, <1>3, <2>1, <2>2, <2>3 DEF Rising
<1> QED
  BY <1>6, <1>7, <1>8, <1>10, <1>11 DEF Drawn

\* The regularity of the payments depends on those that count.
LEMMA SameRegularity ==
  ASSUME NEW b, NEW d, Grows(b, d), Grows(d, b), NEW u
  PROVE  IsInconsistent(b, u) = IsInconsistent(d, u)
<1>1. Approved(b, u) = Approved(d, u)
  BY DEF Approved, Grows
<1>2. Days(b, u) = Days(d, u)
  BY <1>1 DEF Days
<1>3. SpanDays(b, u) = SpanDays(d, u) /\ Consistency(b, u) = Consistency(d, u)
  BY <1>2 DEF SpanDays, Consistency
<1> QED
  BY <1>3 DEF IsInconsistent

\* The days of payment are read, the last query of the analysis.
LEMMA PatternRead ==
  ASSUME NEW s \in Pictures, NEW P \in Books, Drawn(s, P), s.at = "pattern", NEW t,
         t = [s EXCEPT !.irregular = IsInconsistent(P.payment, s.user),
                       !.at = IF s.passes = 2 THEN "again" ELSE "audit"]
  PROVE  Drawn(t, P)
<1>1. /\ t.user = s.user /\ t.owed = s.owed /\ t.near = s.near /\ t.behind = s.behind
      /\ t.irregular = IsInconsistent(P.payment, s.user) /\ t.before = s.before
      /\ t.since = s.since /\ t.passes = s.passes /\ Mine(t, P) = Mine(s, P) /\ t.paid = s.paid
      /\ t.pass = s.pass /\ t.unread = s.unread /\ t.worth = s.worth /\ t.day = s.day
      /\ t.at = IF s.passes = 2 THEN "again" ELSE "audit"
  BY DEF Pictures, Mine
<1>2. Busy(s) /\ Drawing(s) /\ Busy(t) /\ Drawing(t)
  BY <1>1 DEF Busy, Drawing
<1>3. s.paid = <<>> /\ s.pass = 1 /\ s.unread = {}
  BY <1>2 DEF Drawn, Staged
<1>4. /\ ToWeigh(s) = {} /\ ToWeigh(t) = {} /\ Weighed(t, P) = Weighed(s, P)
      /\ Judged(t, P) = Judged(s, P) /\ Gauged(t, P) = Gauged(s, P)
  BY <1>1 DEF ToWeigh, Weighed, Judged, Gauged
<1>5. Owes(t, P) = Owes(s, P) /\ Left(t, P) = Left(s, P) /\ AtFirst(t) = AtFirst(s)
  BY <1>1, <1>4 DEF Owes, Left, AtFirst
<1>6. Blank(t) /\ Bounded(t, P)
  BY <1>1, <1>2 DEF Blank, Drawn, Bounded
<1>7. Staged(t)
  BY <1>1, <1>2, <1>3, PictureFacts DEF Drawn, Staged
<1>8. Unmoved(t, P)
  <2> SUFFICES ASSUME s.since = {} PROVE Unmoved(t, P)
    BY <1>1 DEF Unmoved
  <2>1. /\ Still(s.before, P, s.user)
        /\ Grows(s.before.payment, P.payment) /\ Grows(P.payment, s.before.payment)
        /\ s.near[s.pass] = NearCompletion(s.before, s.user) \cap Gauged(s, P)
    BY <1>2 DEF Drawn, Unmoved
  <2>2. IsInconsistent(P.payment, s.user) = IsInconsistent(s.before.payment, s.user)
    BY <2>1, SameRegularity
  <2> QED
    BY <1>1, <1>3, <1>4, <2>1, <2>2 DEF Unmoved
<1>9. Sinking(t, P)
  BY <1>1, <1>2, <1>3, <1>4, <1>5 DEF Drawn, Sinking, SumsSink, SetsSink
<1>10. Rising(t, P)
  BY <1>1, <1>2, <1>3, <1>4, <1>5 DEF Drawn, Rising, SumsRise, SetsRise
<1> QED
  BY <1>6, <1>7, <1>8, <1>9, <1>10 DEF Drawn

\* An advisor begins again from the balances.
LEMMA AgainBegun ==
  ASSUME NEW s \in Pictures, NEW P \in Books, Drawn(s, P), s.at = "again", NEW t,
         t = [s EXCEPT !.at = "balance", !.pass = 2, !.unread = Mine(s, P),
                       !.worth = [s.worth EXCEPT ![2] = Value(P.opened, s.user)]]
  PROVE  Drawn(t, P)
<1>1. /\ t.user = s.user /\ t.owed = s.owed /\ t.near = s.near /\ t.behind = s.behind
      /\ t.irregular = s.irregular /\ t.before = s.before /\ t.since = s.since
      /\ t.passes = s.passes /\ Mine(t, P) = Mine(s, P) /\ t.paid = s.paid
      /\ t.at = "balance" /\ t.pass = 2 /\ t.unread = Mine(s, P) /\ t.day = s.day
      /\ t.worth = [s.worth EXCEPT ![2] = Value(P.opened, s.user)]
  BY DEF Pictures, Mine
<1>2. Busy(s) /\ Drawing(s) /\ Busy(t) /\ Drawing(t)
  BY <1>1 DEF Busy, Drawing
<1>3. /\ s.paid = <<>> /\ s.pass = 1 /\ s.passes = 2 /\ s.unread = {}
      /\ s.owed[2] = 0 /\ s.behind[2] = {} /\ s.near[2] = {}
  BY <1>2 DEF Drawn, Staged
<1>4. /\ t.worth[1] = s.worth[1] /\ t.worth[2] = SumOver(Total, Mine(s, P))
  <2>1. DOMAIN s.worth = 1..2
    BY DEF Pictures
  <2>2. Value(P.opened, s.user) = SumOver(Total, Mine(s, P))
    BY PictureFacts, ValueIs DEF Mine
  <2> QED
    BY <1>1, <2>1, <2>2
<1>5. /\ ToWeigh(s) = {} /\ Weighed(s, P) = Mine(s, P)
      /\ Judged(s, P) = Mine(s, P) /\ Gauged(s, P) = Mine(s, P)
      /\ ToWeigh(t) = Mine(s, P) /\ Weighed(t, P) = {}
      /\ Judged(t, P) = {} /\ Gauged(t, P) = {}
  BY <1>1 DEF ToWeigh, Weighed, Judged, Gauged
<1>6. /\ Owes(t, P) = 0 /\ Left(t, P) = Owes(s, P) /\ Left(s, P) = 0 /\ AtFirst(t) = AtFirst(s)
      /\ Owes(s, P) \in Nat /\ AtFirst(s) \in Nat /\ \A i \in 1..2 : s.owed[i] \in Nat
  <2>1. \A b : Due(b, {}) = 0
    BY SumOfNone DEF Due
  <2>2. Owes(t, P) = 0 /\ Left(t, P) = Owes(s, P) /\ Left(s, P) = 0 /\ AtFirst(t) = AtFirst(s)
    BY <1>1, <1>5, <2>1 DEF Owes, Left, AtFirst
  <2> QED
    BY <2>2, PictureFacts
<1>7. Blank(t)
  BY <1>2 DEF Blank
<1>8. Bounded(t, P)
  BY <1>1, <1>2, <1>4 DEF Drawn, Bounded
<1>9. Staged(t)
  BY <1>1, <1>2, <1>3, PictureFacts DEF Drawn, Staged
<1>10. Behind(P, s.user) \subseteq Mine(s, P)
  BY DEF Behind, Mine
<1>11. Unmoved(t, P)
  <2> SUFFICES ASSUME s.since = {} PROVE Unmoved(t, P)
    BY <1>1 DEF Unmoved
  <2>1. /\ Still(s.before, P, s.user)
        /\ Grows(s.before.payment, P.payment) /\ Grows(P.payment, s.before.payment)
        /\ s.near[1] = NearCompletion(s.before, s.user) \cap Mine(s, P)
        /\ s.irregular = IsInconsistent(s.before.payment, s.user)
    BY <1>2, <1>3, <1>5 DEF Drawn, Unmoved
  <2>2. NearCompletion(s.before, s.user) \subseteq Mine(s, P)
    BY <2>1 DEF NearCompletion, Mine, Still
  <2>3. \A S : S \cap {} = {}
    OBVIOUS
  <2>4. s.near[1] = NearCompletion(s.before, s.user)
    BY <2>1, <2>2
  <2> QED
    BY <1>1, <1>3, <1>5, <2>1, <2>3, <2>4 DEF Unmoved
<1>12. Sinking(t, P)
  <2> SUFFICES ASSUME "rises" \notin s.since PROVE Sinking(t, P)
    BY <1>1 DEF Sinking
  <2>1. /\ Below(P, s.before, s.user) /\ Still(s.before, P, s.user)
        /\ s.worth[1] = SumOver(Total, Mine(s, P)) /\ SumsSink(s, P) /\ SetsSink(s, P)
    BY <1>2, <1>3 DEF Drawn, Sinking
  <2>2. SumsSink(t, P)
    BY <1>1, <1>3, <1>6, <2>1 DEF SumsSink
  <2>3. SetsSink(t, P)
    BY <1>1, <1>3, <1>5, <1>10, <2>1 DEF SetsSink
  <2>4. \A i \in 1..t.pass : t.worth[i] = SumOver(Total, Mine(t, P))
    BY <1>1, <1>4, <2>1
  <2> QED
    BY <1>1, <1>3, <2>1, <2>2, <2>3, <2>4 DEF Sinking
<1>13. Rising(t, P)
  <2> SUFFICES ASSUME "falls" \notin s.since PROVE Rising(t, P)
    BY <1>1 DEF Rising
  <2>1. Below(s.before, P, s.user) /\ SumsRise(s, P) /\ SetsRise(s, P)
    BY <1>2 DEF Drawn, Rising
  <2>2. SumsRise(t, P)
    BY <1>1, <1>3, <1>6, <2>1 DEF SumsRise
  <2>3. SetsRise(t, P)
    <3>1. Behind(s.before, s.user) \subseteq Mine(s, P)
      BY <2>1 DEF Behind, Mine, Below
    <3> QED
      BY <1>1, <1>3, <1>5, <2>1, <3>1 DEF SetsRise
  <2> QED
    BY <1>1, <1>3, <2>1, <2>2, <2>3 DEF Rising
<1> QED
  BY <1>7, <1>8, <1>9, <1>11, <1>12, <1>13 DEF Drawn

\* A book says as much of a user as itself.
LEMMA BelowItself ==
  ASSUME NEW b \in Books, NEW u
  PROVE  Below(b, b, u) /\ Still(b, b, u)
<1>1. b.today \in Nat
  BY DEF Books
<1> QED
  BY <1>1 DEF Below, Still, Grows

\* An analysis begins.
LEMMA PictureBegun ==
  ASSUME NEW s \in Pictures, NEW P \in Books, Drawn(s, P), ~Busy(s), NEW u \in Users, NEW t,
         t = [s EXCEPT !.user = u, !.at = "balance", !.unread = ContractsOf(P.opened, u),
                       !.pass = 1, !.worth = [s.worth EXCEPT ![1] = Value(P.opened, u)],
                       !.before = P, !.since = {}]
  PROVE  Drawn(t, P)
<1> DEFINE mine == ContractsOf(P.opened, u)
<1>1. /\ t.user = u /\ t.owed = s.owed /\ t.near = s.near /\ t.behind = s.behind
      /\ t.before = P /\ t.since = {} /\ Mine(t, P) = mine /\ t.paid = s.paid
      /\ t.worth = [s.worth EXCEPT ![1] = Value(P.opened, u)]
      /\ t.at = "balance" /\ t.pass = 1 /\ t.unread = mine /\ t.passes = s.passes
  BY DEF Pictures, Mine
<1>2. Busy(t) /\ Drawing(t)
  BY <1>1 DEF Busy, Drawing
<1>3. s.paid = <<>> /\ \A i \in 1..2 : s.owed[i] = 0 /\ s.behind[i] = {} /\ s.near[i] = {}
  BY DEF Drawn, Blank
<1>4. ToWeigh(t) = mine /\ Weighed(t, P) = {} /\ Judged(t, P) = {} /\ Gauged(t, P) = {}
  BY <1>1 DEF ToWeigh, Weighed, Judged, Gauged
<1>5. Owes(t, P) = 0 /\ Left(t, P) = AtFirst(t) /\ AtFirst(t) \in Nat
  <2>1. Due(P.payment, {}) = 0
    BY SumOfNone DEF Due
  <2>2. P.opened \in SUBSET Contracts
    BY DEF Books
  <2>3. Due(P.payment, mine) \in Nat
    BY <2>2, BookFacts, DueIs
  <2> QED
    BY <1>1, <1>4, <2>1, <2>3 DEF Owes, Left, AtFirst
<1>6. t.worth[1] = SumOver(Total, mine) /\ SumOver(Total, mine) \in Nat
  <2>1. DOMAIN s.worth = 1..2 /\ P.opened \in SUBSET Contracts
    BY DEF Pictures, Books
  <2>2. Value(P.opened, u) = SumOver(Total, mine) /\ Value(P.opened, u) \in Nat
    BY <2>1, ValueIs
  <2> QED
    BY <1>1, <2>1, <2>2
<1>7. t.owed[1] = 0 /\ t.owed[2] = 0 /\ t.behind[1] = {} /\ t.behind[2] = {}
      /\ t.near[1] = {} /\ t.near[2] = {} /\ t.paid = <<>>
  BY <1>1, <1>3
<1>8. Blank(t)
  BY <1>2 DEF Blank
<1> HIDE DEF mine
<1>9. Bounded(t, P)
  BY <1>1, <1>6, <1>7 DEF Bounded
<1>10. Staged(t)
  BY <1>1, <1>7, PictureFacts DEF Staged
<1>11. Below(P, P, u) /\ Still(P, P, u) /\ Grows(P.payment, P.payment)
  BY BelowItself DEF Below
<1>12. \A S : S \cap {} = {}
  OBVIOUS
<1>13. Unmoved(t, P)
  BY ONLY <1>1, <1>4, <1>7, <1>11, <1>12 DEF Unmoved
<1>14. SumsSink(t, P) /\ SumsRise(t, P)
  BY ONLY <1>1, <1>5, <1>7 DEF SumsSink, SumsRise
<1>15. SetsSink(t, P) /\ SetsRise(t, P)
  BY ONLY <1>1, <1>4, <1>7, <1>12 DEF SetsSink, SetsRise
<1>16. \A i \in 1..t.pass : t.worth[i] = SumOver(Total, mine)
  BY <1>1, <1>6
<1>17. Sinking(t, P) /\ Rising(t, P)
  BY ONLY <1>1, <1>7, <1>11, <1>14, <1>15, <1>16 DEF Sinking, Rising
<1> QED
  BY <1>8, <1>9, <1>10, <1>13, <1>17 DEF Drawn

\* An analysis is dropped.
LEMMA PictureDropped ==
  ASSUME NEW t, NEW P, t.at \in {"idle", "next"}, t.user = Nobody, t.paid = <<>>,
         t.owed = <<0, 0>>, t.behind = <<{}, {}>>, t.near = <<{}, {}>>
  PROVE  Drawn(t, P)
BY DEF Drawn, Blank, Bounded, Staged, Unmoved, Sinking, Rising, Busy, Drawing

\* An analysis is complete, and its risks are remembered.
LEMMA PictureUsed ==
  ASSUME NEW s \in Pictures, NEW P, Drawn(s, P), s.at = "audit", NEW t,
         t = [s EXCEPT !.at = "remember"]
  PROVE  Drawn(t, P)
<1>1. /\ t.user = s.user /\ t.owed = s.owed /\ t.worth = s.worth
      /\ Mine(t, P) = Mine(s, P) /\ t.at = "remember" /\ t.pass = s.pass /\ t.unread = s.unread
  BY DEF Pictures, Mine
<1>2. Busy(t) /\ ~Drawing(t) /\ Busy(s)
  BY <1>1 DEF Busy, Drawing
<1> QED
  BY <1>1, <1>2 DEF Drawn, Blank, Bounded, Staged, Unmoved, Sinking, Rising

\* Nothing is drawn between two analyses.
LEMMA PictureWaits ==
  ASSUME NEW s \in Pictures, NEW P, Drawn(s, P), ~Busy(s), NEW t,
         NEW step \in {"idle", "list", "next"}, t = [s EXCEPT !.at = step]
  PROVE  Drawn(t, P)
<1>1. /\ t.user = s.user /\ t.owed = s.owed /\ t.behind = s.behind /\ t.near = s.near
      /\ t.at = step /\ t.paid = s.paid
  BY DEF Pictures
<1>2. ~Busy(t) /\ ~Drawing(t)
  BY <1>1 DEF Busy, Drawing
<1> QED
  BY <1>1, <1>2 DEF Drawn, Blank, Bounded, Staged, Unmoved, Sinking, Rising

\* The same way twice is the same way.
LEMMA BelowBelow ==
  ASSUME NEW b \in Books, NEW c \in Books, NEW d \in Books, NEW u,
         Below(b, c, u), Below(c, d, u)
  PROVE  Below(b, d, u)
<1>1. b.today \in Nat /\ c.today \in Nat /\ d.today \in Nat
  BY DEF Books
<1>2. b.today <= d.today
  BY <1>1 DEF Below
<1> QED
  BY <1>2 DEF Below, Grows

\* The book moves under a picture.
LEMMA BookMoved ==
  ASSUME NEW s \in Pictures, NEW P \in Books, NEW Q \in Books, Drawn(s, P), NEW t, NEW after,
         t = [s EXCEPT !.since = after], s.since \subseteq after,
         P.opened \subseteq Q.opened,
         Drawing(s) /\ "rises" \notin after => Below(Q, P, s.user) /\ Still(P, Q, s.user),
         Drawing(s) /\ "falls" \notin after => Below(P, Q, s.user)
  PROVE  Drawn(t, Q)
<1>1. /\ t.at = s.at /\ t.user = s.user /\ t.owed = s.owed /\ t.near = s.near
      /\ t.behind = s.behind /\ t.unread = s.unread /\ t.pass = s.pass
      /\ t.irregular = s.irregular /\ t.before = s.before /\ t.since = after
      /\ t.passes = s.passes /\ t.paid = s.paid /\ t.worth = s.worth /\ t.day = s.day
      /\ Mine(t, Q) = Mine(s, Q)
  BY DEF Pictures, Mine
<1>2. /\ Busy(t) = Busy(s) /\ Drawing(t) = Drawing(s) /\ (Drawing(s) => Busy(s))
      /\ ToWeigh(t) = ToWeigh(s) /\ AtFirst(t) = AtFirst(s)
      /\ Weighed(t, Q) = Mine(s, Q) \ ToWeigh(s)
      /\ Judged(t, Q) = Judged(s, Q) /\ Gauged(t, Q) = Gauged(s, Q)
  BY <1>1 DEF Busy, Drawing, ToWeigh, AtFirst, Weighed, Judged, Gauged
<1>3. /\ Mine(s, P) \subseteq Mine(s, Q) /\ Mine(s, Q) \in SUBSET Contracts
      /\ ToWeigh(s) \in SUBSET Contracts
  <2>1. Q.opened \in SUBSET Contracts /\ s.unread \in SUBSET Contracts
    BY PictureFacts
  <2> QED
    BY <2>1, BookFacts DEF Mine, ContractsOf, ToWeigh
<1>4. Blank(t) /\ Bounded(t, Q) /\ Staged(t)
  BY <1>1, <1>2, <1>3 DEF Drawn, Blank, Bounded, Staged
<1>5. Drawing(s) /\ Still(P, Q, s.user) =>
        Judged(t, Q) = Judged(s, P) /\ Gauged(t, Q) = Gauged(s, P) /\ Mine(s, Q) = Mine(s, P)
  BY <1>2 DEF Still, Mine, Judged, Gauged
<1>6. Unmoved(t, Q)
  <2> SUFFICES ASSUME Drawing(s), after = {} PROVE Unmoved(t, Q)
    BY <1>1, <1>2 DEF Unmoved
  <2>1. /\ s.since = {} /\ Still(P, Q, s.user)
        /\ Grows(P.payment, Q.payment) /\ Grows(Q.payment, P.payment)
    BY DEF Below
  <2>2. /\ Still(s.before, P, s.user) /\ Grows(s.before.payment, P.payment)
        /\ Grows(P.payment, s.before.payment)
    BY <2>1 DEF Drawn, Unmoved
  <2>3. /\ Still(s.before, Q, s.user) /\ Grows(s.before.payment, Q.payment)
        /\ Grows(Q.payment, s.before.payment)
    BY <2>1, <2>2 DEF Still, Grows
  <2> QED
    BY <1>1, <1>2, <1>5, <2>1, <2>3 DEF Drawn, Unmoved
<1>7. /\ s.pass \in 1..2 /\ \A i \in 1..2 : s.owed[i] \in Nat
      /\ AtFirst(s) \in Nat /\ Owes(s, P) \in Nat /\ Left(s, P) \in Nat
      /\ Owes(t, Q) \in Nat /\ Left(t, Q) \in Nat /\ s.before \in Books
      /\ s.day \in Nat /\ P.today \in Nat /\ Q.today \in Nat
      /\ s.behind[1] \subseteq Contracts
  <2>1. Owes(t, Q) \in Nat /\ Left(t, Q) \in Nat
    BY <1>2, <1>3, DueIs DEF Owes, Left
  <2> QED
    BY <2>1, PictureFacts
<1>8. ASSUME Drawing(s), s.paid # <<>>
      PROVE  /\ s.paid[1][1] \in Contracts /\ s.paid[1][2] \in Nat
             /\ \A b : Remaining(b, s.paid[1][1]) \in Nat /\ Paid(b, s.paid[1][1]) \in Nat
  <2>1. s.paid[1] \in s.unread \X Nat /\ s.unread \subseteq Contracts
    BY <1>8, PictureFacts DEF Drawn, Staged
  <2> QED
    BY <2>1, RemainingIs, PaidIs
<1>9. Sinking(t, Q)
  <2> SUFFICES ASSUME Drawing(s), "rises" \notin after PROVE Sinking(t, Q)
    BY <1>1, <1>2 DEF Sinking
  <2>1. /\ Below(Q, P, s.user) /\ Still(P, Q, s.user) /\ "rises" \notin s.since
        /\ Below(P, s.before, s.user) /\ Still(s.before, P, s.user)
        /\ \A i \in 1..s.pass : s.worth[i] = SumOver(Total, Mine(s, P))
        /\ s.at = "overdue" => s.day = P.today
        /\ s.paid # <<>> => SeenSinks(s, P, s.paid[1][1], s.paid[1][2])
        /\ SumsSink(s, P) /\ SetsSink(s, P)
    BY DEF Drawn, Sinking
  <2>2. Below(Q, s.before, s.user) /\ Still(s.before, Q, s.user) /\ Q.today = P.today
    BY <1>7, <2>1, BelowBelow DEF Still
  <2>3. /\ Judged(t, Q) = Judged(s, P) /\ Mine(s, Q) = Mine(s, P)
        /\ Weighed(t, Q) = Weighed(s, P)
    BY <1>2, <1>5, <2>1 DEF Weighed
  <2>4. Owes(t, Q) <= Owes(s, P) /\ Left(t, Q) <= Left(s, P)
    <3>1. Weighed(s, P) \in SUBSET Contracts
      BY <1>3, <2>3 DEF Weighed
    <3>2. Grows(P.payment, Q.payment)
      BY <2>1 DEF Below
    <3> QED
      BY <1>2, <1>3, <2>3, <3>1, <3>2, DueShrinks DEF Owes, Left
  <2>5. SumsSink(t, Q)
    <3>1. /\ t.owed = s.owed /\ t.pass = s.pass /\ AtFirst(t) = AtFirst(s)
      BY <1>1, <1>2
    <3>2. SumsSink(s, P)
      BY <2>1
    <3> QED
      BY ONLY <1>7, <2>4, <3>1, <3>2 DEF SumsSink
  <2>6. Behind(Q, s.user) \subseteq Behind(P, s.user)
    BY <2>1, BehindShrinks
  <2>7. SetsSink(t, Q)
    BY <1>1, <2>1, <2>3, <2>6 DEF SetsSink
  <2>8. ASSUME s.paid # <<>> PROVE SeenSinks(t, Q, s.paid[1][1], s.paid[1][2])
    <3>1. PICK c \in Contracts, x \in Nat : c = s.paid[1][1] /\ x = s.paid[1][2]
      BY <1>8, <2>8
    <3>2. SeenSinks(s, P, c, x)
      BY <2>1, <2>8, <3>1
    <3>3. /\ Paid(P.payment, c) <= Paid(Q.payment, c)
          /\ Remaining(Q.payment, c) <= Remaining(P.payment, c)
      BY <2>1, PaidGrows DEF Below
    <3>4. /\ Paid(P.payment, c) \in Nat /\ Paid(Q.payment, c) \in Nat
          /\ Remaining(P.payment, c) \in Nat /\ Remaining(Q.payment, c) \in Nat
      BY PaidIs, RemainingIs
    <3>5. x <= Paid(Q.payment, c)
      BY <3>2, <3>3, <3>4 DEF SeenSinks
    <3>6. IsBehind(c, Q.today, x, Remaining(Q.payment, c))
            => IsBehind(c, P.today, x, Remaining(P.payment, c))
      BY <2>2, <3>3, <3>4 DEF IsBehind
    <3> QED
      BY <1>1, <3>1, <3>2, <3>5, <3>6 DEF SeenSinks
  <2> QED
    BY <1>1, <2>1, <2>2, <2>3, <2>5, <2>7, <2>8 DEF Sinking
<1>10. Rising(t, Q)
  <2> SUFFICES ASSUME Drawing(s), "falls" \notin after PROVE Rising(t, Q)
    BY <1>1, <1>2 DEF Rising
  <2>1. /\ Below(P, Q, s.user) /\ "falls" \notin s.since /\ Below(s.before, P, s.user)
        /\ s.at = "overdue" => DayRises(s, P)
        /\ s.paid # <<>> => SeenRises(s, P, s.paid[1][1], s.paid[1][2])
        /\ SumsRise(s, P) /\ SetsRise(s, P)
    BY DEF Drawn, Rising
  <2>2. Below(s.before, Q, s.user) /\ P.today <= Q.today /\ Grows(Q.payment, P.payment)
    BY <1>7, <2>1, BelowBelow DEF Below
  <2>3. /\ \A c \in Contracts : /\ Paid(Q.payment, c) <= Paid(P.payment, c)
                                /\ Paid(P.payment, c) \in Nat /\ Paid(Q.payment, c) \in Nat
    BY <2>2, PaidGrows, PaidIs
  <2>4. Owes(s, P) <= Owes(t, Q) /\ Left(s, P) <= Left(t, Q)
    <3>1. PICK more \in SUBSET Contracts : \E less \in SUBSET more :
            more = Weighed(t, Q) /\ less = Weighed(s, P)
      BY <1>2, <1>3 DEF Weighed
    <3>2. Due(P.payment, Weighed(s, P)) <= Due(Q.payment, more)
      BY <2>2, <3>1, DueShrinks
    <3>3. Due(P.payment, ToWeigh(s)) <= Due(Q.payment, ToWeigh(s))
      BY <1>3, <2>2, DueShrinks
    <3> QED
      BY <1>2, <3>1, <3>2, <3>3 DEF Owes, Left
  <2>5. SumsRise(t, Q)
    <3>1. /\ t.owed = s.owed /\ t.pass = s.pass /\ AtFirst(t) = AtFirst(s)
      BY <1>1, <1>2
    <3>2. SumsRise(s, P)
      BY <2>1
    <3> QED
      BY ONLY <1>7, <2>4, <3>1, <3>2 DEF SumsRise
  <2>6. s.at = "overdue" => DayRises(t, Q)
    <3> SUFFICES ASSUME s.at = "overdue" PROVE DayRises(t, Q)
      OBVIOUS
    <3>1. DayRises(s, P)
      BY <2>1
    <3>2. s.before.today <= s.day /\ s.day <= Q.today
      BY <1>7, <2>2, <3>1 DEF DayRises
    <3>3. ASSUME s.pass = 2, NEW c \in s.behind[1]
          PROVE  Paid(Q.payment, c) < ExpectedByNow(c, s.day)
      <4>1. c \in Contracts
        BY <1>7
      <4>2. Paid(P.payment, c) < ExpectedByNow(c, s.day) /\ ExpectedByNow(c, s.day) \in Nat
        BY <1>7, <3>1, <3>3, <4>1, ExpectedIs DEF DayRises
      <4> QED
        BY <2>3, <4>1, <4>2
    <3> QED
      BY <1>1, <3>2, <3>3 DEF DayRises
  <2>7. ASSUME s.paid # <<>> PROVE SeenRises(t, Q, s.paid[1][1], s.paid[1][2])
    <3>1. PICK c \in Contracts, x \in Nat : c = s.paid[1][1] /\ x = s.paid[1][2]
      BY <1>8, <2>7
    <3>2. SeenRises(s, P, c, x)
      BY <2>1, <2>7, <3>1
    <3>3. Paid(Q.payment, c) <= x
      BY <2>3, <3>2 DEF SeenRises
    <3> QED
      BY <1>1, <3>1, <3>2, <3>3 DEF SeenRises
  <2>8. Behind(P, s.user) \subseteq Behind(Q, s.user)
    BY <2>1, BehindShrinks
  <2>9. /\ Behind(s.before, s.user) \subseteq Mine(s, P) /\ Behind(P, s.user) \subseteq Mine(s, P)
    BY <2>1 DEF Behind, Mine, Below
  <2>10. Mine(s, P) \cap Judged(t, Q) \subseteq Judged(s, P)
    BY <1>2 DEF Judged
  <2>11. SetsRise(t, Q)
    BY <1>1, <2>1, <2>8, <2>9, <2>10 DEF SetsRise
  <2> QED
    BY <1>1, <2>2, <2>5, <2>6, <2>7, <2>11 DEF Rising
<1> QED
  BY <1>4, <1>6, <1>9, <1>10 DEF Drawn

-----------------------------------------------------------------------------
PicturesTyped ==
  /\ at \in [Analysts -> Steps]
  /\ subject \in [Analysts -> Users \cup {Nobody}]
  /\ unread \in [Analysts -> SUBSET Contracts]
  /\ paidSeen \in [Analysts -> Seq(Contracts \X Nat)]
  /\ pass \in [Analysts -> 1..2]
  /\ worth \in [Analysts -> [1..2 -> Nat]]
  /\ owed \in [Analysts -> [1..2 -> Nat]]
  /\ day \in [Analysts -> Nat]
  /\ behind \in [Analysts -> [1..2 -> SUBSET Contracts]]
  /\ near \in [Analysts -> [1..2 -> SUBSET Contracts]]
  /\ irregular \in [Analysts -> BOOLEAN]
  /\ before \in [Analysts -> Books]
  /\ since \in [Analysts -> SUBSET {"falls", "rises"}]
  /\ Book \in Books

PictureInv ==
  /\ PicturesTyped
  /\ \A a \in Analysts : Drawn(Picture(a), Book)
  /\ scene \notin {"analyse", "advise"} => \A a \in Analysts : at[a] = "idle"

\* What an analyst has read is a picture.
LEMMA PicturesAre == ASSUME PicturesTyped, NEW a \in Analysts PROVE Picture(a) \in Pictures
BY DEF PicturesTyped, Picture, Pictures

\* The same after a step.
LEMMA PicturesWillBe == ASSUME PicturesTyped', NEW a \in Analysts PROVE Picture(a)' \in Pictures
BY DEF PicturesTyped, Picture, Pictures

\* One analyst's step: the others keep their pictures.
LEMMA OnePicture ==
  ASSUME PictureInv, NEW a \in Analysts, PicturesTyped', Book' = Book, scene' = scene,
         scene \in {"analyse", "advise"},
         \A b \in Analysts \ {a} : Picture(b)' = Picture(b),
         Drawn(Picture(a)', Book)
  PROVE  PictureInv'
BY DEF PictureInv

\* The query steps.
Analysing == scene \in {"analyse", "advise"} /\ UNCHANGED <<scene, payment, opened, today>>

\* The book stays.
LEMMA SameBook ==
  ASSUME UNCHANGED <<payment, opened, today>>
  PROVE  Book' = Book
BY DEF Book

\* A query changes nothing in it.
LEMMA BookKept == ASSUME Analysing PROVE Book' = Book
BY SameBook DEF Analysing

\* What it consists of.
LEMMA BookIs == Book.payment = payment /\ Book.opened = opened /\ Book.today = today
BY DEF Book

\* The query for a balance.
LEMMA ReadBalanceDraws ==
  ASSUME PictureInv, Analysing, NEW a \in Analysts, ReadBalance(a)
  PROVE  PictureInv'
<1>1. PICK c \in unread[a] :
        /\ owed' = [owed EXCEPT ![a][pass[a]] = @ + Remaining(payment, c)]
        /\ unread' = [unread EXCEPT ![a] = @ \ {c}]
        /\ UNCHANGED <<at, subject, worth, day, paidSeen, pass, behind, near, irregular, before, since>>
        /\ at[a] = "balance"
  BY DEF ReadBalance, ReadDone, historyVars
<1>2. /\ PicturesTyped /\ Drawn(Picture(a), Book) /\ Picture(a) \in Pictures
      /\ Book \in Books
  BY PicturesAre DEF PictureInv, PicturesTyped
<1>3. PICK r \in Nat : r = Remaining(payment, c)
  BY <1>2, RemainingIs DEF PicturesTyped
<1>4. PICK i \in 1..2 : i = pass[a]
  BY <1>2 DEF PicturesTyped
<1>5. PICK v \in [1..2 -> Nat] : v = [owed[a] EXCEPT ![i] = owed[a][i] + r] /\ owed' = [owed EXCEPT ![a] = v]
  <2>1. PICK o \in [1..2 -> Nat] : o = owed[a]
    BY <1>2 DEF PicturesTyped
  <2>2. [o EXCEPT ![i] = o[i] + r] \in [1..2 -> Nat]
    OBVIOUS
  <2>3. owed' = [owed EXCEPT ![a] = [o EXCEPT ![i] = o[i] + r]]
    BY <1>1, <1>2, <1>3, <1>4, <2>1 DEF PicturesTyped
  <2> QED
    BY <2>1, <2>2, <2>3
<1>6. PicturesTyped'
  <2>1. owed' \in [Analysts -> [1..2 -> Nat]]
    BY <1>2, <1>5 DEF PicturesTyped
  <2>2. unread' \in [Analysts -> SUBSET Contracts]
    BY <1>1, <1>2 DEF PicturesTyped
  <2>3. Book' \in Books
    BY <1>2, BookKept
  <2> QED
    BY <1>1, <1>2, <1>5, <2>1, <2>2, <2>3 DEF PicturesTyped
<1>7. \A b \in Analysts \ {a} : Picture(b)' = Picture(b)
  BY <1>1, <1>2, <1>5 DEF PicturesTyped, Picture
<1>8. Drawn(Picture(a)', Book)
  <2>1. PICK s \in Pictures : s = Picture(a)
    BY <1>2
  <2>2. PICK t \in Pictures : t = Picture(a)'
    BY <1>6, PicturesWillBe
  <2>3. /\ s.at = "balance" /\ c \in s.unread /\ s.unread = unread[a]
        /\ v = [s.owed EXCEPT ![s.pass] = s.owed[s.pass] + Remaining(Book.payment, c)]
    BY <1>1, <1>3, <1>4, <1>5, <2>1, BookIs DEF Picture
  <2>4. owed'[a] = v /\ unread'[a] = unread[a] \ {c}
    BY <1>1, <1>2, <1>5 DEF PicturesTyped
  <2>5. /\ t.at = s.at /\ t.user = s.user /\ t.paid = s.paid /\ t.pass = s.pass
        /\ t.behind = s.behind /\ t.near = s.near /\ t.irregular = s.irregular
        /\ t.before = s.before /\ t.since = s.since /\ t.passes = s.passes
        /\ t.worth = s.worth /\ t.day = s.day
        /\ t.owed = v /\ t.unread = s.unread \ {c}
    BY <1>1, <2>1, <2>2, <2>4 DEF Picture
  <2>6. t = [s EXCEPT !.owed = v, !.unread = s.unread \ {c}]
    BY <2>5 DEF Pictures
  <2> QED
    BY <1>2, <2>1, <2>2, <2>3, <2>6, BalanceRead
<1> QED
  BY <1>6, <1>7, <1>8, OnePicture, BookKept DEF Analysing

\* The query for what a contract has paid.
LEMMA ReadPaidDraws ==
  ASSUME PictureInv, Analysing, NEW a \in Analysts, ReadPaid(a)
  PROVE  PictureInv'
<1>1. PICK c \in unread[a] :
        /\ paidSeen' = [paidSeen EXCEPT ![a] = <<<<c, Paid(payment, c)>>>>]
        /\ UNCHANGED <<at, subject, worth, day, unread, owed, pass, behind, near, irregular, before, since>>
        /\ at[a] = "overdue" /\ paidSeen[a] = <<>>
  BY DEF ReadPaid, historyVars
<1>2. PicturesTyped /\ Drawn(Picture(a), Book) /\ Book \in Books
  BY DEF PictureInv, PicturesTyped
<1>3. PICK v \in Seq(Contracts \X Nat) : v = <<<<c, Paid(payment, c)>>>>
  <2>1. PICK p \in Contracts \X Nat : p = <<c, Paid(payment, c)>>
    BY <1>2, PaidIs DEF PicturesTyped
  <2>2. PICK R : R = Contracts \X Nat
    OBVIOUS
  <2>3. p \in R
    BY <2>1, <2>2
  <2>4. <<p>> \in Seq(R)
    BY <2>3
  <2> QED
    BY <2>1, <2>2, <2>4
<1>4. PicturesTyped'
  BY <1>1, <1>2, <1>3, BookKept DEF PicturesTyped
<1>5. \A b \in Analysts \ {a} : Picture(b)' = Picture(b)
  BY <1>1, <1>2 DEF PicturesTyped, Picture
<1>6. Drawn(Picture(a)', Book)
  <2>1. PICK s \in Pictures : s = Picture(a)
    BY <1>2, PicturesAre
  <2>2. PICK t \in Pictures : t = Picture(a)'
    BY <1>4, PicturesWillBe
  <2>3. s.at = "overdue" /\ s.paid = <<>> /\ c \in s.unread
    BY <1>1, <2>1 DEF Picture
  <2>4. paidSeen'[a] = v
    BY <1>1, <1>2, <1>3 DEF PicturesTyped
  <2>5. /\ t.at = s.at /\ t.user = s.user /\ t.paid = v /\ t.pass = s.pass
        /\ t.behind = s.behind /\ t.near = s.near /\ t.irregular = s.irregular
        /\ t.before = s.before /\ t.since = s.since /\ t.passes = s.passes
        /\ t.worth = s.worth /\ t.day = s.day
        /\ t.owed = s.owed /\ t.unread = s.unread
    BY <1>1, <2>1, <2>2, <2>4 DEF Picture
  <2>6. t = [s EXCEPT !.paid = v]
    BY <2>5 DEF Pictures
  <2> QED
    BY <1>2, <1>3, <2>1, <2>2, <2>3, <2>6, BookIs, PaidRead
<1> QED
  BY <1>4, <1>5, <1>6, OnePicture, BookKept DEF Analysing

\* The query for what remains of it.
LEMMA ReadLeftDraws ==
  ASSUME PictureInv, Analysing, NEW a \in Analysts, ReadLeft(a)
  PROVE  PictureInv'
<1>1. /\ behind' = [behind EXCEPT ![a][pass[a]] =
             @ \cup {d \in {paidSeen[a][1][1]} :
                        IsBehind(d, day[a], paidSeen[a][1][2], Remaining(payment, d))}]
      /\ unread' = [unread EXCEPT ![a] = @ \ {paidSeen[a][1][1]}]
      /\ paidSeen' = [paidSeen EXCEPT ![a] = <<>>]
      /\ UNCHANGED <<at, subject, worth, day, owed, pass, near, irregular, before, since>>
      /\ at[a] = "overdue" /\ paidSeen[a] # <<>>
  BY DEF ReadLeft, ReadDone, historyVars
<1>2. PicturesTyped /\ Drawn(Picture(a), Book) /\ Book \in Books
  BY DEF PictureInv, PicturesTyped
<1>3. PICK s \in Pictures : s = Picture(a)
  BY <1>2, PicturesAre
<1>4. /\ s.at = "overdue" /\ s.paid = paidSeen[a] /\ s.unread = unread[a] /\ s.behind = behind[a]
      /\ s.day = day[a]
  BY <1>1, <1>3 DEF Picture
<1>5. PICK c \in Contracts, x \in Nat : c = s.paid[1][1] /\ x = s.paid[1][2]
  <2>1. Busy(s) /\ Drawing(s)
    BY <1>4 DEF Busy, Drawing
  <2>2. s.paid[1] \in s.unread \X Nat /\ s.unread \subseteq Contracts
    BY <1>1, <1>2, <1>3, <1>4, <2>1, PictureFacts DEF Drawn, Staged
  <2> QED
    BY <2>2
<1>6. PICK late \in SUBSET Contracts : late = {d \in {c} : IsBehind(d, s.day, x, Remaining(payment, d))}
  OBVIOUS
<1>7. PICK i \in 1..2 : i = pass[a]
  BY <1>2 DEF PicturesTyped
<1>8. late \subseteq {c} /\ (c \in late <=> IsBehind(c, s.day, x, Remaining(Book.payment, c)))
  BY <1>6, BookIs
<1>9. PICK v \in [1..2 -> SUBSET Contracts] :
        v = [behind[a] EXCEPT ![i] = behind[a][i] \cup late] /\ behind' = [behind EXCEPT ![a] = v]
  <2>1. PICK o \in [1..2 -> SUBSET Contracts] : o = behind[a]
    BY <1>2 DEF PicturesTyped
  <2>2. [o EXCEPT ![i] = o[i] \cup late] \in [1..2 -> SUBSET Contracts]
    OBVIOUS
  <2>3. behind' = [behind EXCEPT ![a][i] = @ \cup late]
    BY <1>1, <1>4, <1>5, <1>6, <1>7
  <2>4. behind' = [behind EXCEPT ![a] = [o EXCEPT ![i] = o[i] \cup late]]
    BY <1>2, <2>1, <2>3 DEF PicturesTyped
  <2> QED
    BY <2>1, <2>2, <2>4
<1>10. unread' = [unread EXCEPT ![a] = unread[a] \ {c}]
  BY <1>1, <1>2, <1>4, <1>5 DEF PicturesTyped
<1>11. PicturesTyped'
  <2>1. behind' \in [Analysts -> [1..2 -> SUBSET Contracts]]
    BY <1>2, <1>9 DEF PicturesTyped
  <2>2. unread' \in [Analysts -> SUBSET Contracts]
    BY <1>2, <1>10 DEF PicturesTyped
  <2>3. Book' \in Books
    BY <1>2, BookKept
  <2>4. paidSeen' \in [Analysts -> Seq(Contracts \X Nat)]
    BY <1>1, <1>2 DEF PicturesTyped
  <2>5. UNCHANGED <<at, subject, worth, day, owed, pass, near, irregular, before, since>>
    BY <1>1
  <2> QED
    BY <1>2, <2>1, <2>2, <2>3, <2>4, <2>5 DEF PicturesTyped
<1>12. \A b \in Analysts \ {a} : Picture(b)' = Picture(b)
  BY <1>1, <1>2, <1>9, <1>10 DEF PicturesTyped, Picture
<1>13. Drawn(Picture(a)', Book)
  <2>2. PICK t \in Pictures : t = Picture(a)'
    BY <1>11, PicturesWillBe
  <2>3. v = [s.behind EXCEPT ![s.pass] = s.behind[s.pass] \cup late]
    BY <1>3, <1>4, <1>7, <1>9 DEF Picture
  <2>4. behind'[a] = v /\ unread'[a] = s.unread \ {c} /\ paidSeen'[a] = <<>>
    BY <1>1, <1>2, <1>4, <1>9, <1>10 DEF PicturesTyped
  <2>5. /\ t.at = s.at /\ t.user = s.user /\ t.paid = <<>> /\ t.pass = s.pass
        /\ t.behind = v /\ t.near = s.near /\ t.irregular = s.irregular
        /\ t.before = s.before /\ t.since = s.since /\ t.passes = s.passes
        /\ t.worth = s.worth /\ t.day = s.day
        /\ t.owed = s.owed /\ t.unread = s.unread \ {c}
    BY <1>1, <1>3, <2>2, <2>4 DEF Picture
  <2>6. t = [s EXCEPT !.behind = v, !.unread = s.unread \ {c}, !.paid = <<>>]
    BY <2>5 DEF Pictures
  <2> QED
    <3>1. Drawn(s, Book) /\ s.paid # <<>> /\ Book \in Books
      BY <1>1, <1>2, <1>3, <1>4
    <3>2. t = [s EXCEPT !.behind = [s.behind EXCEPT ![s.pass] = s.behind[s.pass] \cup late],
                        !.unread = s.unread \ {c}, !.paid = <<>>]
      BY <2>3, <2>6
    <3>3. Drawn(t, Book)
      BY ONLY s \in Pictures, <1>4, <1>5, <1>8, <3>1, <3>2, LeftRead
    <3> QED
      BY <2>2, <3>3
<1> QED
  BY <1>11, <1>12, <1>13, OnePicture, BookKept DEF Analysing

\* The query for the contracts nearly complete.
LEMMA ReadNearDraws ==
  ASSUME PictureInv, Analysing, NEW a \in Analysts, ReadNear(a)
  PROVE  PictureInv'
<1>1. PICK c \in unread[a] :
        /\ near' = [near EXCEPT ![a][pass[a]] =
                       @ \cup {d \in {c} : IsNearCompletion(d, Remaining(payment, d))}]
        /\ unread' = [unread EXCEPT ![a] = @ \ {c}]
        /\ UNCHANGED <<at, subject, worth, day, paidSeen, pass, behind, owed, irregular, before, since>>
        /\ at[a] = "near"
  BY DEF ReadNear, ReadDone, historyVars
<1>2. PicturesTyped /\ Drawn(Picture(a), Book) /\ Book \in Books
  BY DEF PictureInv, PicturesTyped
<1>3. PICK close \in SUBSET Contracts :
        close = {d \in {c} : IsNearCompletion(d, Remaining(payment, d))}
  BY <1>2 DEF PicturesTyped
<1>4. PICK i \in 1..2 : i = pass[a]
  BY <1>2 DEF PicturesTyped
<1>5. PICK v \in [1..2 -> SUBSET Contracts] :
        v = [near[a] EXCEPT ![i] = near[a][i] \cup close] /\ near' = [near EXCEPT ![a] = v]
  <2>1. PICK o \in [1..2 -> SUBSET Contracts] : o = near[a]
    BY <1>2 DEF PicturesTyped
  <2>2. [o EXCEPT ![i] = o[i] \cup close] \in [1..2 -> SUBSET Contracts]
    OBVIOUS
  <2>3. near' = [near EXCEPT ![a][i] = @ \cup close]
    BY <1>1, <1>3, <1>4
  <2>4. near' = [near EXCEPT ![a] = [o EXCEPT ![i] = o[i] \cup close]]
    BY <1>2, <2>1, <2>3 DEF PicturesTyped
  <2> QED
    BY <2>1, <2>2, <2>4
<1>6. PicturesTyped'
  BY <1>1, <1>2, <1>5, BookKept DEF PicturesTyped
<1>7. \A b \in Analysts \ {a} : Picture(b)' = Picture(b)
  BY <1>1, <1>2, <1>5 DEF PicturesTyped, Picture
<1>8. Drawn(Picture(a)', Book)
  <2>1. PICK s \in Pictures : s = Picture(a)
    BY <1>2, PicturesAre
  <2>2. PICK t \in Pictures : t = Picture(a)'
    BY <1>6, PicturesWillBe
  <2>3. /\ s.at = "near" /\ c \in s.unread /\ s.unread = unread[a]
        /\ v = [s.near EXCEPT ![s.pass] = s.near[s.pass] \cup close]
    BY <1>1, <1>4, <1>5, <2>1 DEF Picture
  <2>4. near'[a] = v /\ unread'[a] = unread[a] \ {c}
    BY <1>1, <1>2, <1>5 DEF PicturesTyped
  <2>5. /\ t.at = s.at /\ t.user = s.user /\ t.paid = s.paid /\ t.pass = s.pass
        /\ t.behind = s.behind /\ t.near = v /\ t.irregular = s.irregular
        /\ t.before = s.before /\ t.since = s.since /\ t.passes = s.passes
        /\ t.worth = s.worth /\ t.day = s.day
        /\ t.owed = s.owed /\ t.unread = s.unread \ {c}
    BY <1>1, <2>1, <2>2, <2>3, <2>4 DEF Picture
  <2>6. t = [s EXCEPT !.near = v, !.unread = s.unread \ {c}]
    BY <2>5 DEF Pictures
  <2> QED
    <3>1. /\ Drawn(s, Book) /\ Book \in Books
          /\ close = {d \in {c} : IsNearCompletion(d, Remaining(Book.payment, d))}
      BY <1>2, <1>3, <2>1, BookIs
    <3>2. t = [s EXCEPT !.near = [s.near EXCEPT ![s.pass] = s.near[s.pass] \cup close],
                        !.unread = s.unread \ {c}]
      BY <2>3, <2>6
    <3>3. Drawn(t, Book)
      BY ONLY s \in Pictures, <2>3, <3>1, <3>2, NearRead
    <3> QED
      BY <2>2, <3>3
<1> QED
  BY <1>6, <1>7, <1>8, OnePicture, BookKept DEF Analysing

\* From one figure to the next.
LEMMA NextFigureDraws ==
  ASSUME PictureInv, Analysing, NEW a \in Analysts, NextFigure(a)
  PROVE  PictureInv'
<1>1. PICK next \in Steps :
        /\ \/ at[a] = "balance" /\ next = "overdue"
           \/ at[a] = "overdue" /\ next = "near"
           \/ at[a] = "near" /\ next = IF pass[a] = 1 THEN "pattern" ELSE "audit"
        /\ at' = [at EXCEPT ![a] = next]
        /\ at[a] \in {"balance", "overdue", "near"} /\ unread[a] = {}
  <2>1. CASE at[a] = "balance"
    BY <2>1 DEF NextFigure, GoTo, Steps
  <2>2. CASE at[a] = "overdue"
    BY <2>2 DEF NextFigure, GoTo, Steps
  <2>3. CASE at[a] = "near"
    BY <2>3 DEF NextFigure, GoTo, Steps
  <2> QED
    BY <2>1, <2>2, <2>3 DEF NextFigure
<1>2. /\ unread' = [unread EXCEPT ![a] = IF at[a] = "near" THEN {} ELSE Listed(subject[a])]
      /\ day' = [day EXCEPT ![a] = IF at[a] = "balance" THEN today ELSE 0]
      /\ UNCHANGED <<subject, worth, paidSeen, pass, behind, near, owed, irregular, before, since>>
  BY DEF NextFigure, historyVars
<1>3. PicturesTyped /\ Drawn(Picture(a), Book) /\ Book \in Books
  BY DEF PictureInv, PicturesTyped
<1>4. PICK v \in SUBSET Contracts, e \in Nat :
        /\ v = IF at[a] = "near" THEN {} ELSE Listed(subject[a])
        /\ e = IF at[a] = "balance" THEN today ELSE 0
  <2>1. opened \in SUBSET Contracts /\ today \in Nat
    BY <1>3, BookIs DEF Books
  <2> QED
    BY <2>1, BookFacts DEF Listed
<1>5. PicturesTyped'
  BY <1>1, <1>2, <1>3, <1>4, BookKept DEF PicturesTyped
<1>6. \A b \in Analysts \ {a} : Picture(b)' = Picture(b)
  BY <1>1, <1>2, <1>3, <1>4 DEF PicturesTyped, Picture
<1>7. Drawn(Picture(a)', Book)
  <2>1. PICK s \in Pictures : s = Picture(a)
    BY <1>3, PicturesAre
  <2>2. PICK t \in Pictures : t = Picture(a)'
    BY <1>5, PicturesWillBe
  <2>3. /\ s.at = at[a] /\ s.pass = pass[a] /\ s.unread = {}
        /\ v = IF s.at = "near" THEN {} ELSE Mine(s, Book)
        /\ e = IF s.at = "balance" THEN Book.today ELSE 0
    BY <1>1, <1>4, <2>1, BookIs DEF Picture, Mine, Listed
  <2>4. at'[a] = next /\ unread'[a] = v /\ day'[a] = e
    BY <1>1, <1>2, <1>3, <1>4 DEF PicturesTyped
  <2>5. /\ t.at = next /\ t.user = s.user /\ t.paid = s.paid /\ t.pass = s.pass
        /\ t.behind = s.behind /\ t.near = s.near /\ t.irregular = s.irregular
        /\ t.before = s.before /\ t.since = s.since /\ t.passes = s.passes
        /\ t.worth = s.worth /\ t.day = e
        /\ t.owed = s.owed /\ t.unread = v
    BY <1>2, <2>1, <2>2, <2>3, <2>4 DEF Picture
  <2>6. t = [s EXCEPT !.at = next, !.unread = v, !.day = e]
    BY <2>5 DEF Pictures
  <2> QED
    <3>1. Book \in Books /\ Drawn(s, Book) /\ s.unread = {} /\ s.at \in {"balance", "overdue", "near"}
      BY <1>1, <1>3, <2>1, <2>3
    <3>2. t = [s EXCEPT !.at = next, !.unread = IF s.at = "near" THEN {} ELSE Mine(s, Book),
                        !.day = IF s.at = "balance" THEN Book.today ELSE 0]
      BY <2>3, <2>6
    <3>3. \/ s.at = "balance" /\ next = "overdue"
          \/ s.at = "overdue" /\ next = "near"
          \/ s.at = "near" /\ next = IF s.pass = 1 THEN "pattern" ELSE "audit"
      BY <1>1, <2>3
    <3>4. Drawn(t, Book)
      BY ONLY s \in Pictures, <3>1, <3>2, <3>3, FigureDone
    <3> QED
      BY <2>2, <3>4
<1> QED
  BY <1>5, <1>6, <1>7, OnePicture, BookKept DEF Analysing

\* The query for the days of payment.
LEMMA ReadPatternDraws ==
  ASSUME PictureInv, Analysing, NEW a \in Analysts, ReadPattern(a)
  PROVE  PictureInv'
<1>1. PictureInv /\ PicturesTyped /\ Drawn(Picture(a), Book) /\ Book \in Books
  BY DEF PictureInv, PicturesTyped
<1>2. PICK odd \in BOOLEAN : odd = IsInconsistent(payment, subject[a])
  <2>1. IsInconsistent(payment, subject[a]) \in BOOLEAN
    BY DEF IsInconsistent
  <2> QED
    BY <2>1
<1>3. PICK step \in Steps :
        at' = [at EXCEPT ![a] = step] /\ step = IF a \in Advisors THEN "again" ELSE "audit"
  BY DEF ReadPattern, GoTo, Steps
<1>4. /\ irregular' = [irregular EXCEPT ![a] = odd] /\ at[a] = "pattern"
      /\ UNCHANGED <<subject, unread, worth, day, pass, paidSeen, behind, near, owed, before, since>>
  BY <1>2 DEF ReadPattern, historyVars
<1>5. PicturesTyped'
  BY <1>1, <1>3, <1>4, BookKept DEF PicturesTyped
<1>6. \A b \in Analysts \ {a} : Picture(b)' = Picture(b)
  BY <1>1, <1>3, <1>4 DEF PicturesTyped, Picture
<1>7. Drawn(Picture(a)', Book)
  <2>1. PICK s \in Pictures : s = Picture(a)
    BY <1>1, PicturesAre
  <2>2. PICK t \in Pictures : t = Picture(a)'
    BY <1>5, PicturesWillBe
  <2>3. /\ s.at = "pattern" /\ s.user = subject[a]
        /\ s.passes = IF a \in Advisors THEN 2 ELSE 1
    BY <1>4, <2>1 DEF Picture
  <2>4. at'[a] = step /\ irregular'[a] = odd
    BY <1>1, <1>3, <1>4 DEF PicturesTyped
  <2>5. /\ t.at = step /\ t.user = s.user /\ t.paid = s.paid /\ t.pass = s.pass
        /\ t.behind = s.behind /\ t.near = s.near /\ t.irregular = odd
        /\ t.before = s.before /\ t.since = s.since /\ t.passes = s.passes
        /\ t.worth = s.worth /\ t.day = s.day
        /\ t.owed = s.owed /\ t.unread = s.unread
    BY <1>4, <2>1, <2>2, <2>3, <2>4 DEF Picture
  <2>6. t = [s EXCEPT !.irregular = odd, !.at = step]
    BY <2>5 DEF Pictures
  <2>7. /\ Drawn(s, Book) /\ odd = IsInconsistent(Book.payment, s.user) /\ Book \in Books
        /\ step = IF s.passes = 2 THEN "again" ELSE "audit"
    BY <1>1, <1>2, <1>3, <2>1, <2>3, BookIs
  <2>8. Drawn(t, Book)
    BY ONLY s \in Pictures, <2>3, <2>6, <2>7, PatternRead
  <2> QED
    BY <2>2, <2>8
<1> QED
  BY <1>1, <1>5, <1>6, <1>7, OnePicture, BookKept DEF Analysing

\* An advisor goes on to its suggestions.
LEMMA BeginAgainDraws ==
  ASSUME PictureInv, Analysing, NEW a \in Analysts, BeginAgain(a)
  PROVE  PictureInv'
<1>1. PictureInv /\ PicturesTyped /\ Drawn(Picture(a), Book) /\ Book \in Books
  BY DEF PictureInv, PicturesTyped
<1>2. opened \in SUBSET Contracts
  BY <1>1, BookIs DEF Books
<1>3. PICK v \in SUBSET Contracts, n \in Nat :
        v = Listed(subject[a]) /\ n = Value(opened, subject[a])
  BY <1>2, BookFacts, ValueIs DEF Listed
<1>4. PICK w \in [1..2 -> Nat] :
        w = [worth[a] EXCEPT ![2] = n] /\ worth' = [worth EXCEPT ![a] = w]
  <2>1. PICK o \in [1..2 -> Nat] : o = worth[a]
    BY <1>1 DEF PicturesTyped
  <2>2. [o EXCEPT ![2] = n] \in [1..2 -> Nat]
    OBVIOUS
  <2>3. worth' = [worth EXCEPT ![a][2] = n]
    BY <1>3 DEF BeginAgain, ListForBalances
  <2>4. worth' = [worth EXCEPT ![a] = [o EXCEPT ![2] = n]]
    BY <1>1, <2>1, <2>3 DEF PicturesTyped
  <2> QED
    BY <2>1, <2>2, <2>4
<1>5. /\ at' = [at EXCEPT ![a] = "balance"] /\ at[a] = "again"
      /\ pass' = [pass EXCEPT ![a] = 2] /\ unread' = [unread EXCEPT ![a] = v]
      /\ UNCHANGED <<subject, day, paidSeen, behind, near, owed, irregular, before, since>>
  BY <1>3 DEF BeginAgain, ListForBalances, GoTo, historyVars
<1>6. PicturesTyped'
  <2>1. worth' \in [Analysts -> [1..2 -> Nat]]
    BY <1>1, <1>4 DEF PicturesTyped
  <2>2. unread' \in [Analysts -> SUBSET Contracts] /\ pass' \in [Analysts -> 1..2] /\ at' \in [Analysts -> Steps]
    BY <1>1, <1>5 DEF PicturesTyped, Steps
  <2>3. Book' \in Books
    BY <1>1, BookKept
  <2> QED
    BY <1>1, <1>4, <1>5, <2>1, <2>2, <2>3 DEF PicturesTyped, Steps
<1>7. \A b \in Analysts \ {a} : Picture(b)' = Picture(b)
  BY <1>1, <1>4, <1>5 DEF PicturesTyped, Picture
<1>8. Drawn(Picture(a)', Book)
  <2>1. PICK s \in Pictures : s = Picture(a)
    BY <1>1, PicturesAre
  <2>2. PICK t \in Pictures : t = Picture(a)'
    BY <1>6, PicturesWillBe
  <2>3. /\ s.at = "again" /\ v = Mine(s, Book)
        /\ w = [s.worth EXCEPT ![2] = Value(Book.opened, s.user)]
    BY <1>3, <1>4, <1>5, <2>1, BookIs DEF Picture, Mine, Listed
  <2>4. at'[a] = "balance" /\ unread'[a] = v /\ pass'[a] = 2 /\ worth'[a] = w
    BY <1>1, <1>4, <1>5 DEF PicturesTyped
  <2>5. /\ t.at = "balance" /\ t.user = s.user /\ t.paid = s.paid /\ t.pass = 2
        /\ t.behind = s.behind /\ t.near = s.near /\ t.irregular = s.irregular
        /\ t.before = s.before /\ t.since = s.since /\ t.passes = s.passes
        /\ t.worth = w /\ t.day = s.day /\ t.owed = s.owed /\ t.unread = v
    BY <1>5, <2>1, <2>2, <2>4 DEF Picture
  <2>6. t = [s EXCEPT !.at = "balance", !.pass = 2, !.unread = v, !.worth = w]
    BY <2>5 DEF Pictures
  <2>7. Drawn(s, Book) /\ Book \in Books
    BY <1>1, <2>1
  <2>8. Drawn(t, Book)
    BY ONLY s \in Pictures, <2>3, <2>6, <2>7, AgainBegun
  <2> QED
    BY <2>2, <2>8
<1> QED
  BY <1>1, <1>6, <1>7, <1>8, OnePicture, BookKept DEF Analysing

\* The job or a request turns to a user.
LEMMA BeginPictureDraws ==
  ASSUME PictureInv, Analysing, NEW a \in Analysts, NEW u \in Users, BeginPicture(a, u),
         at[a] \in {"idle", "next"}, UNCHANGED <<paidSeen, owed, day, behind, near, irregular>>
  PROVE  PictureInv'
<1>1. PicturesTyped /\ Drawn(Picture(a), Book) /\ Book \in Books
  BY DEF PictureInv, PicturesTyped
<1>2. PICK v \in SUBSET Contracts, n \in Nat :
        v = ContractsOf(opened, u) /\ n = Value(opened, u)
  <2>1. opened \in SUBSET Contracts
    BY <1>1, BookIs DEF Books
  <2> QED
    BY <2>1, BookFacts, ValueIs
<1>3. /\ subject' = [subject EXCEPT ![a] = u] /\ at' = [at EXCEPT ![a] = "balance"]
      /\ unread' = [unread EXCEPT ![a] = v] /\ pass' = [pass EXCEPT ![a] = 1]
      /\ before' = [before EXCEPT ![a] = Book] /\ since' = [since EXCEPT ![a] = {}]
  BY <1>2 DEF BeginPicture, ListForBalances, Listed, GoTo
<1>4. PICK w \in [1..2 -> Nat] :
        w = [worth[a] EXCEPT ![1] = n] /\ worth' = [worth EXCEPT ![a] = w]
  <2>1. PICK o \in [1..2 -> Nat] : o = worth[a]
    BY <1>1 DEF PicturesTyped
  <2>2. [o EXCEPT ![1] = n] \in [1..2 -> Nat]
    OBVIOUS
  <2>3. worth' = [worth EXCEPT ![a][1] = n]
    BY <1>2 DEF BeginPicture, ListForBalances
  <2>4. worth' = [worth EXCEPT ![a] = [o EXCEPT ![1] = n]]
    BY <1>1, <2>1, <2>3 DEF PicturesTyped
  <2> QED
    BY <2>1, <2>2, <2>4
<1>5. PicturesTyped'
  <2>1. worth' \in [Analysts -> [1..2 -> Nat]]
    BY <1>1, <1>4 DEF PicturesTyped
  <2>2. unread' \in [Analysts -> SUBSET Contracts] /\ pass' \in [Analysts -> 1..2] /\ at' \in [Analysts -> Steps]
    BY <1>3, <1>1 DEF PicturesTyped, Steps
  <2>3. Book' \in Books
    BY <1>1, BookKept
  <2> QED
    BY <1>1, <1>3, <1>4, <2>1, <2>2, <2>3 DEF PicturesTyped, Steps
<1>6. \A b \in Analysts \ {a} : Picture(b)' = Picture(b)
  BY <1>1, <1>3, <1>4 DEF PicturesTyped, Picture
<1>7. Drawn(Picture(a)', Book)
  <2>1. PICK s \in Pictures : s = Picture(a)
    BY <1>1, PicturesAre
  <2>2. PICK t \in Pictures : t = Picture(a)'
    BY <1>5, PicturesWillBe
  <2>3. PICK P \in Books : P = Book
    BY <1>1
  <2>4. /\ at'[a] = "balance" /\ unread'[a] = v /\ pass'[a] = 1 /\ subject'[a] = u
        /\ before'[a] = P /\ since'[a] = {} /\ worth'[a] = w
    BY <1>1, <1>3, <1>4, <2>3 DEF PicturesTyped
  <2>5. /\ t.at = "balance" /\ t.user = u /\ t.paid = s.paid /\ t.pass = 1
        /\ t.behind = s.behind /\ t.near = s.near /\ t.irregular = s.irregular
        /\ t.before = P /\ t.since = {} /\ t.passes = s.passes
        /\ t.worth = w /\ t.day = s.day
        /\ t.owed = s.owed /\ t.unread = v
    BY <2>1, <2>2, <2>4 DEF Picture
  <2>6. t = [s EXCEPT !.user = u, !.at = "balance", !.unread = v, !.pass = 1, !.worth = w,
                      !.before = P, !.since = {}]
    BY <2>5 DEF Pictures
  <2>7. /\ v = ContractsOf(P.opened, u)
        /\ w = [s.worth EXCEPT ![1] = Value(P.opened, u)]
    BY <1>2, <1>4, <2>1, <2>3, BookIs DEF Picture
  <2>8. Drawn(s, P) /\ ~Busy(s)
    BY <1>1, <2>1, <2>3 DEF Picture, Busy
  <2>9. Drawn(t, P)
    BY ONLY u \in Users, s \in Pictures, P \in Books, <2>6, <2>7, <2>8, PictureBegun
  <2> QED
    BY <2>2, <2>3, <2>9
<1> QED
  BY <1>5, <1>6, <1>7, OnePicture, BookKept DEF Analysing

\* The job or a request lets go of its user.
LEMMA DropPictureDraws ==
  ASSUME PictureInv, Analysing, NEW a \in Analysts, DropPicture(a),
         NEW step \in {"idle", "next"}, GoTo(a, step)
  PROVE  PictureInv'
<1>1. /\ subject' = [subject EXCEPT ![a] = Nobody] /\ unread' = [unread EXCEPT ![a] = {}]
      /\ paidSeen' = [paidSeen EXCEPT ![a] = <<>>] /\ pass' = [pass EXCEPT ![a] = 1]
      /\ worth' = [worth EXCEPT ![a] = <<0, 0>>]
      /\ owed' = [owed EXCEPT ![a] = <<0, 0>>]
      /\ day' = [day EXCEPT ![a] = 0]
      /\ behind' = [behind EXCEPT ![a] = <<{}, {}>>]
      /\ near' = [near EXCEPT ![a] = <<{}, {}>>]
      /\ irregular' = [irregular EXCEPT ![a] = FALSE]
      /\ before' = [before EXCEPT ![a] = NoBook]
      /\ since' = [since EXCEPT ![a] = {}]
      /\ at' = [at EXCEPT ![a] = step]
  BY DEF DropPicture, GoTo
<1>2. PicturesTyped
  BY DEF PictureInv
<1>3. /\ <<0, 0>> \in [1..2 -> Nat] /\ <<{}, {}>> \in [1..2 -> SUBSET Contracts]
      /\ NoBook \in Books /\ <<>> \in Seq(Contracts \X Nat)
      /\ step \in Steps
  BY DEF NoBook, Books, ApprovalStatuses, Steps
<1>4. PicturesTyped'
  <2> HIDE DEF NoBook
  <2> QED
    BY <1>1, <1>2, <1>3, BookKept DEF PicturesTyped
<1>5. \A b \in Analysts \ {a} : Picture(b)' = Picture(b)
  BY <1>1, <1>2 DEF PicturesTyped, Picture
<1>6. Drawn(Picture(a)', Book)
  <2>1. PICK t \in Pictures : t = Picture(a)'
    BY <1>4, PicturesWillBe
  <2>2. /\ t.at = step /\ t.user = Nobody /\ t.paid = <<>> /\ t.owed = <<0, 0>>
        /\ t.behind = <<{}, {}>> /\ t.near = <<{}, {}>>
    <3>1. /\ at'[a] = step /\ subject'[a] = Nobody /\ paidSeen'[a] = <<>>
          /\ owed'[a] = <<0, 0>> /\ behind'[a] = <<{}, {}>> /\ near'[a] = <<{}, {}>>
      BY <1>1, <1>2 DEF PicturesTyped
    <3> QED
      BY <2>1, <3>1 DEF Picture
  <2>3. Drawn(t, Book)
    BY <2>2, PictureDropped
  <2> QED
    BY <2>1, <2>3
<1> QED
  BY <1>4, <1>5, <1>6, OnePicture, BookKept DEF Analysing

\* A step that only moves the analyst on.
LEMMA MovesOnDraws ==
  ASSUME PictureInv, Analysing, NEW a \in Analysts, NEW step, GoTo(a, step),
         UNCHANGED <<subject, pictureVars, before, since>>,
         \/ at[a] \in {"idle", "list", "next"} /\ step \in {"idle", "list", "next"}
         \/ at[a] = "audit" /\ step = "remember"
  PROVE  PictureInv'
<1>1. /\ at' = [at EXCEPT ![a] = step] /\ step \in Steps
      /\ UNCHANGED <<subject, worth, day, unread, paidSeen, pass, owed, behind, near, irregular, before, since>>
  BY DEF GoTo, pictureVars, Steps
<1>2. PicturesTyped /\ Drawn(Picture(a), Book) /\ Book \in Books
  BY DEF PictureInv, PicturesTyped
<1>3. PicturesTyped'
  BY <1>1, <1>2, BookKept DEF PicturesTyped
<1>4. \A b \in Analysts \ {a} : Picture(b)' = Picture(b)
  BY <1>1, <1>2 DEF PicturesTyped, Picture
<1>5. Drawn(Picture(a)', Book)
  <2>1. PICK s \in Pictures : s = Picture(a)
    BY <1>2, PicturesAre
  <2>2. PICK t \in Pictures : t = Picture(a)'
    BY <1>3, PicturesWillBe
  <2>3. at'[a] = step
    BY <1>1, <1>2 DEF PicturesTyped
  <2>4. /\ t.at = step /\ t.user = s.user /\ t.paid = s.paid /\ t.pass = s.pass
        /\ t.behind = s.behind /\ t.near = s.near /\ t.irregular = s.irregular
        /\ t.before = s.before /\ t.since = s.since /\ t.passes = s.passes
        /\ t.worth = s.worth /\ t.day = s.day
        /\ t.owed = s.owed /\ t.unread = s.unread
    BY <1>1, <2>1, <2>2, <2>3 DEF Picture
  <2>5. t = [s EXCEPT !.at = step]
    BY <2>4 DEF Pictures
  <2>6. s.at = at[a] /\ Drawn(s, Book)
    BY <1>2, <2>1 DEF Picture
  <2>7. CASE at[a] \in {"idle", "list", "next"} /\ step \in {"idle", "list", "next"}
    <3>1. ~Busy(s)
      BY <2>6, <2>7 DEF Busy
    <3>2. Drawn(t, Book)
      BY <2>5, <2>6, <2>7, <3>1, PictureWaits
    <3> QED
      BY <2>2, <3>2
  <2>8. CASE at[a] = "audit" /\ step = "remember"
    <3>1. Drawn(t, Book)
      BY <2>5, <2>6, <2>8, PictureUsed
    <3> QED
      BY <2>2, <3>1
  <2> QED
    BY <2>7, <2>8
<1> QED
  BY <1>3, <1>4, <1>5, OnePicture, BookKept DEF Analysing

\* A step that reads nothing.
LEMMA NothingDrawn ==
  ASSUME PictureInv, UNCHANGED <<at, subject, pictureVars, before, since, scene, payment, opened, today>>
  PROVE  PictureInv'
<1>1. PicturesTyped'
  BY SameBook DEF PictureInv, PicturesTyped, pictureVars
<1>2. \A a \in Analysts : Picture(a)' = Picture(a)
  BY DEF Picture, pictureVars
<1> QED
  BY <1>1, <1>2, SameBook DEF PictureInv

\* A book stays a book.
LEMMA BookTyped ==
  ASSUME Book \in Books,
         ChangePayments \/ (\E c \in Contracts : OpenContract(c)) \/ TurnDay
  PROVE  Book' \in Books /\ opened \subseteq opened'
<1>1. payment \in [Payments -> ApprovalStatuses] /\ opened \in SUBSET Contracts /\ today \in Nat
  BY BookIs DEF Books
<1>2. CASE ChangePayments
  BY <1>1, <1>2 DEF ChangePayments, InsertPayment, ReviewPayment, Book, Books
<1>3. CASE (\E c \in Contracts : OpenContract(c)) \/ TurnDay
  BY <1>1, <1>3 DEF OpenContract, TurnDay, Book, Books
<1> QED
  BY <1>2, <1>3

\* The book moves, seen from one picture.
LEMMA BookMovesBelow ==
  ASSUME PictureInv, NEW a \in Analysts, PicturesTyped', opened \subseteq opened',
         UNCHANGED <<at, subject, pictureVars, before>>,
         NEW after, since'[a] = after, since[a] \subseteq after,
         Drawing(Picture(a)) /\ "rises" \notin after =>
           Below(Book', Book, subject[a]) /\ Still(Book, Book', subject[a]),
         Drawing(Picture(a)) /\ "falls" \notin after => Below(Book, Book', subject[a])
  PROVE  Drawn(Picture(a), Book)'
<1>1. PICK s \in Pictures : s = Picture(a)
  BY PicturesAre DEF PictureInv
<1>2. PICK t \in Pictures : t = Picture(a)'
  BY PicturesWillBe
<1>3. /\ t.at = s.at /\ t.user = s.user /\ t.paid = s.paid /\ t.pass = s.pass
      /\ t.behind = s.behind /\ t.near = s.near /\ t.irregular = s.irregular
      /\ t.before = s.before /\ t.since = after /\ t.passes = s.passes
      /\ t.worth = s.worth /\ t.day = s.day
      /\ t.owed = s.owed /\ t.unread = s.unread
  BY <1>1, <1>2 DEF Picture, pictureVars
<1>4. t = [s EXCEPT !.since = after]
  BY <1>3 DEF Pictures
<1>5. PICK P \in Books, Q \in Books : P = Book /\ Q = Book'
  BY DEF PictureInv, PicturesTyped
<1>6. s.since \subseteq after /\ Drawn(s, P) /\ P.opened \subseteq Q.opened
  BY <1>1, <1>5, BookIs DEF PictureInv, Picture, Book
<1>7. /\ Drawing(s) /\ "rises" \notin after => Below(Q, P, s.user) /\ Still(P, Q, s.user)
      /\ Drawing(s) /\ "falls" \notin after => Below(P, Q, s.user)
  BY <1>1, <1>5 DEF Picture
<1>8. Drawn(t, Q)
  BY ONLY s \in Pictures, P \in Books, Q \in Books, <1>4, <1>6, <1>7, BookMoved
<1> QED
  BY <1>2, <1>5, <1>8

\* Which way the book moves for a user.
LEMMA MovesBy ==
  ASSUME Book \in Books, NEW u,
         ChangePayments \/ (\E c \in Contracts : OpenContract(c)) \/ TurnDay
  PROVE  /\ ~Rises(u) => Below(Book', Book, u) /\ Still(Book, Book', u)
         /\ ~Falls(u) => Below(Book, Book', u)
<1>1. PICK P \in Books, Q \in Books :
        /\ P.payment = payment /\ P.opened = opened /\ P.today = today /\ P = Book
        /\ Q.payment = payment' /\ Q.opened = opened' /\ Q.today = today' /\ Q = Book'
        /\ opened \subseteq opened'
  BY BookTyped DEF Book
<1>2. P.today \in Nat /\ Q.today \in Nat /\ (today' = today \/ today' = today + 1)
  BY <1>1 DEF Books, ChangePayments, OpenContract, TurnDay
<1>3. ASSUME ~Rises(u) PROVE Below(Q, P, u) /\ Still(P, Q, u)
  <2>1. Grows(payment, payment')
    BY <1>3 DEF Rises, Withdraws, Grows
  <2>2. ContractsOf(opened', u) = ContractsOf(opened, u) /\ today' = today
    BY <1>1, <1>3 DEF Rises, ContractsOf
  <2> QED
    BY <1>1, <1>2, <2>1, <2>2 DEF Below, Still
<1>4. ASSUME ~Falls(u) PROVE Below(P, Q, u)
  <2>1. Grows(payment', payment)
    BY <1>4 DEF Falls, Confirms, Grows
  <2>2. ContractsOf(opened, u) \subseteq ContractsOf(opened', u)
    BY <1>1 DEF ContractsOf
  <2>3. P.today <= Q.today
    BY <1>1, <1>2
  <2> QED
    BY <1>1, <2>1, <2>2, <2>3 DEF Below
<1> QED
  BY <1>1, <1>3, <1>4

\* The book moves, seen from every picture.
LEMMA BookMovesDraws ==
  ASSUME PictureInv, BookMoves, scene' = scene
  PROVE  PictureInv'
<1>1. /\ UNCHANGED <<at, subject, pictureVars, before>>
      /\ ChangePayments \/ (\E c \in Contracts : OpenContract(c)) \/ TurnDay
      /\ since' = [a \in Analysts |->
            IF subject[a] = Nobody THEN since[a]
            ELSE since[a] \cup {way \in {"falls", "rises"} :
                                 \/ way = "falls" /\ Falls(subject[a])
                                 \/ way = "rises" /\ Rises(subject[a])}]
  BY DEF BookMoves
<1>2. PicturesTyped /\ Book \in Books
  BY DEF PictureInv, PicturesTyped
<1>3. ASSUME NEW a \in Analysts
      PROVE  /\ since'[a] \in SUBSET {"falls", "rises"} /\ since[a] \subseteq since'[a]
             /\ subject[a] # Nobody =>
                  /\ "rises" \notin since'[a] => ~Rises(subject[a])
                  /\ "falls" \notin since'[a] => ~Falls(subject[a])
  <2>1. since[a] \in SUBSET {"falls", "rises"}
    BY <1>2 DEF PicturesTyped
  <2>2. CASE subject[a] = Nobody
    <3>1. since'[a] = since[a]
      BY <1>1, <2>2
    <3> QED
      BY <2>1, <2>2, <3>1
  <2>3. CASE subject[a] # Nobody
    <3>1. since'[a] = since[a] \cup {way \in {"falls", "rises"} :
                                       \/ way = "falls" /\ Falls(subject[a])
                                       \/ way = "rises" /\ Rises(subject[a])}
      BY <1>1, <2>3
    <3> QED
      BY <2>1, <3>1
  <2> QED
    BY <2>2, <2>3
<1>4. PicturesTyped' /\ opened \subseteq opened'
  <2>1. since' \in [Analysts -> SUBSET {"falls", "rises"}]
    <3>1. \A a \in Analysts : since'[a] \in SUBSET {"falls", "rises"}
      BY <1>3
    <3>2. since' = [a \in Analysts |-> since'[a]]
      BY <1>1
    <3> QED
      BY <3>1, <3>2
  <2>2. Book' \in Books /\ opened \subseteq opened'
    BY <1>1, <1>2, BookTyped
  <2> QED
    BY <1>1, <1>2, <2>1, <2>2 DEF PicturesTyped, pictureVars
<1>5. ASSUME NEW a \in Analysts PROVE Drawn(Picture(a), Book)'
  <2>1. Drawing(Picture(a)) => subject[a] # Nobody
    <3>1. Bounded(Picture(a), Book) /\ Picture(a).user = subject[a]
      BY DEF PictureInv, Drawn, Picture
    <3>2. Nobody \notin Users
      BY AnalysisAssumption
    <3> QED
      BY <3>1, <3>2 DEF Drawing, Bounded
  <2>2. PICK after : after = since'[a]
    OBVIOUS
  <2>3. /\ ~Rises(subject[a]) =>
             Below(Book', Book, subject[a]) /\ Still(Book, Book', subject[a])
        /\ ~Falls(subject[a]) => Below(Book, Book', subject[a])
    BY <1>1, <1>2, MovesBy
  <2> QED
    BY <1>1, <1>3, <1>4, <2>1, <2>2, <2>3, BookMovesBelow
<1> QED
  BY <1>1, <1>4, <1>5 DEF PictureInv

\* Payments change while nobody analyses.
LEMMA BookMovesUnseen ==
  ASSUME PictureInv, ChangePayments, UNCHANGED <<analysisVars, scene>>,
         scene \notin {"analyse", "advise"}
  PROVE  PictureInv'
<1>1. UNCHANGED <<at, subject, pictureVars, before, since>>
  BY DEF analysisVars, historyVars
<1>2. PicturesTyped' /\ opened \subseteq opened'
  <2>1. Book' \in Books /\ opened \subseteq opened'
    BY BookTyped DEF PictureInv, PicturesTyped
  <2> QED
    BY <1>1, <2>1 DEF PictureInv, PicturesTyped, pictureVars
<1>3. ASSUME NEW a \in Analysts PROVE Drawn(Picture(a), Book)'
  <2>1. ~Drawing(Picture(a))
    BY DEF PictureInv, Picture, Drawing, Busy
  <2>2. PICK after : after = since'[a]
    OBVIOUS
  <2>3. since[a] \subseteq after
    BY <1>1, <2>2
  <2> QED
    BY <1>1, <1>2, <2>1, <2>2, <2>3, BookMovesBelow
<1> QED
  BY <1>1, <1>2, <1>3 DEF PictureInv

\* The users a job has still to look at are users.
WaitingTyped == waiting \in [Analysts -> SUBSET Users]

\* The users still to be analysed are users.
LEMMA WaitingNext == ASSUME WaitingTyped, [ApiNext]_apiVars PROVE WaitingTyped'
<1>1. ASSUME NEW a \in Replicas, Job(a) \/ JobFault(a) PROVE WaitingTyped'
  <2>1. \/ waiting' = waiting \/ waiting' = [waiting EXCEPT ![a] = Users]
        \/ \E u \in waiting[a] : waiting' = [waiting EXCEPT ![a] = @ \ {u}]
    <3>1. CASE StartJob(a) \/ ListUsers(a) \/ RecordAnalysis(a) \/ RememberRisk(a) \/ UserDone(a)
               \/ UserFails(a) \/ StatementFails(a) \/ LockDrops(a)
      BY <3>1 DEF StartJob, ListUsers, RecordAnalysis, RememberRisk, UserDone, UserFails,
                  StatementFails, LockDrops, analysisVars
    <3>2. CASE AnalyzeUser(a) \/ RefuseUser(a)
      BY <3>2 DEF AnalyzeUser, RefuseUser, TakeUser
    <3>3. CASE EndJob(a) \/ JobStops(a)
      BY <3>3 DEF EndJob, JobStops, CloseSession
    <3> QED
      BY <1>1, <3>1, <3>2, <3>3 DEF Job, JobFault
  <2> QED
    BY <2>1 DEF WaitingTyped
<1>2. ASSUME NEW a \in Analysts, Read(a) PROVE waiting' = waiting
  BY <1>2 DEF Read, ReadBalance, ReadPaid, ReadLeft, ReadNear, NextFigure, ReadPattern,
           BeginAgain
<1>3. ASSUME NEW a \in Advisors, Advice(a) PROVE waiting' = waiting
  BY <1>3 DEF Advice, AskAdvice, Advise, AdviceFails
<1>4. BookMoves => waiting' = waiting
  BY DEF BookMoves
<1>5. CASE Analyse
  BY <1>1, <1>2, <1>3, <1>4, <1>5 DEF Analyse, JobsNext, AdviceNext, Analysts, WaitingTyped
<1>6. CASE CallAccounts \/ Talk \/ ListPayments \/ LimitRequests \/ UNCHANGED apiVars
  BY <1>6 DEF CallAccounts, Talk, ListPayments, LimitRequests, apiVars, analysisVars, WaitingTyped
<1> QED
  BY <1>5, <1>6 DEF ApiNext

\* Every step of a behaviour keeps the pictures between the tables.
LEMMA PictureNext ==
  ASSUME PictureInv, WaitingTyped, [ApiNext]_apiVars
  PROVE  PictureInv'
<1>1. ASSUME Analysing, NEW a \in Analysts, Read(a) PROVE PictureInv'
  BY <1>1, ReadBalanceDraws, ReadPaidDraws, ReadLeftDraws, ReadNearDraws, NextFigureDraws,
     ReadPatternDraws, BeginAgainDraws DEF Read
<1>2. ASSUME Analysing, NEW a \in Replicas, Job(a) \/ JobFault(a) PROVE PictureInv'
  <2>1. a \in Analysts
    BY DEF Analysts
  <2>2. CASE StartJob(a)
    BY <1>2, <2>1, <2>2, MovesOnDraws DEF StartJob, historyVars
  <2>3. CASE ListUsers(a)
    BY <1>2, <2>1, <2>3, MovesOnDraws DEF ListUsers, historyVars
  <2>4. CASE AnalyzeUser(a)
    <3>1. PICK u \in waiting[a] : TakeUser(a, u) /\ BeginPicture(a, u)
      BY <2>4 DEF AnalyzeUser
    <3>2. u \in Users
      BY <2>1, <3>1 DEF WaitingTyped
    <3> QED
      BY <1>2, <2>1, <2>4, <3>1, <3>2, BeginPictureDraws DEF AnalyzeUser, TakeUser
  <2>5. CASE RefuseUser(a)
    BY <1>2, <2>5, NothingDrawn DEF RefuseUser, historyVars, Analysing
  <2>6. CASE EndJob(a)
    BY <1>2, <2>1, <2>6, MovesOnDraws DEF EndJob
  <2>7. CASE RecordAnalysis(a)
    BY <1>2, <2>1, <2>7, MovesOnDraws DEF RecordAnalysis
  <2>8. CASE RememberRisk(a)
    BY <1>2, <2>8, NothingDrawn DEF RememberRisk, analysisVars, historyVars, Analysing
  <2>9. CASE UserDone(a)
    BY <1>2, <2>1, <2>9, DropPictureDraws DEF UserDone
  <2>10. CASE UserFails(a)
    BY <1>2, <2>1, <2>10, DropPictureDraws DEF UserFails
  <2>11. CASE StatementFails(a)
    BY <1>2, <2>1, <2>11, DropPictureDraws DEF StatementFails
  <2>12. CASE JobStops(a)
    BY <1>2, <2>1, <2>12, DropPictureDraws DEF JobStops
  <2>13. CASE LockDrops(a)
    BY <1>2, <2>13, NothingDrawn DEF LockDrops, Analysing
  <2> QED
    BY <1>2, <2>2, <2>3, <2>4, <2>5, <2>6, <2>7, <2>8, <2>9, <2>10, <2>11, <2>12, <2>13
       DEF Job, JobFault
<1>3. ASSUME Analysing, NEW a \in Advisors, Advice(a) PROVE PictureInv'
  <2>1. a \in Analysts
    BY DEF Analysts
  <2>2. CASE AskAdvice(a)
    BY <1>3, <2>1, <2>2, BeginPictureDraws DEF AskAdvice
  <2>3. CASE Advise(a) \/ AdviceFails(a)
    BY <1>3, <2>1, <2>3, DropPictureDraws DEF Advise, AdviceFails
  <2> QED
    BY <1>3, <2>2, <2>3 DEF Advice
<1>4. CASE Analyse /\ scene' = scene
  <2>1. CASE BookMoves
    BY <1>4, <2>1, BookMovesDraws
  <2>2. CASE ~BookMoves
    <3>1. Analysing
      BY <1>4, <2>2 DEF Analyse, JobsNext, AdviceNext, Analysing, bookVars
    <3> QED
      BY <1>1, <1>2, <1>3, <1>4, <2>2, <3>1 DEF Analyse, JobsNext, AdviceNext, Analysts
  <2> QED
    BY <2>1, <2>2
<1>5. CASE ListPayments /\ scene' = scene
  <2>1. scene = "list" /\ UNCHANGED <<analysisVars, scene>>
    BY <1>5 DEF ListPayments
  <2>2. ChangePayments \/ UNCHANGED bookVars
    BY <1>5 DEF ListPayments, PagesNext, BookTurns
  <2>3. UNCHANGED <<at, subject, pictureVars, before, since, scene>>
    BY <2>1 DEF analysisVars, historyVars
  <2>4. CASE ChangePayments
    BY <2>1, <2>4, BookMovesUnseen
  <2>5. CASE UNCHANGED bookVars
    BY <2>3, <2>5, NothingDrawn DEF bookVars
  <2> QED
    BY <2>2, <2>4, <2>5
<1>6. CASE (CallAccounts \/ Talk \/ LimitRequests \/ UNCHANGED apiVars) /\ scene' = scene
  <2>1. UNCHANGED <<analysisVars, bookVars>>
    BY <1>6 DEF CallAccounts, Talk, LimitRequests, apiVars
  <2> QED
    BY <1>6, <2>1, NothingDrawn DEF analysisVars, historyVars, bookVars
<1> QED
  BY <1>4, <1>5, <1>6 DEF ApiNext, apiVars

\* Nothing has been read yet.
LEMMA PictureInit == ASSUME ApiInit PROVE PictureInv
<1>1. AnalysisInit /\ Book \in Books
  <2>1. /\ payment \in [Payments -> ApprovalStatuses] /\ opened \in SUBSET Contracts
        /\ today \in Nat
    BY TablesAssumption, BookAssumption DEF ApiInit, BookInit
  <2> QED
    BY <2>1 DEF ApiInit, Book, Books
<1>2. /\ <<0, 0>> \in [1..2 -> Nat] /\ <<{}, {}>> \in [1..2 -> SUBSET Contracts]
      /\ NoBook \in Books /\ <<>> \in Seq(Contracts \X Nat)
  BY DEF NoBook, Books, ApprovalStatuses
<1>3. PicturesTyped
  <2> HIDE DEF NoBook
  <2> QED
    BY <1>1, <1>2 DEF AnalysisInit, PicturesTyped, Steps
<1>4. ASSUME NEW a \in Analysts PROVE Drawn(Picture(a), Book)
  <2>1. PICK s : s = Picture(a)
    OBVIOUS
  <2>2. /\ s.at = "idle" /\ s.user = Nobody /\ s.paid = <<>> /\ s.owed = <<0, 0>>
        /\ s.behind = <<{}, {}>> /\ s.near = <<{}, {}>>
    BY <1>1, <2>1 DEF Picture, AnalysisInit
  <2>3. Drawn(s, Book)
    BY <2>2, PictureDropped
  <2> QED
    BY <2>1, <2>3
<1> QED
  BY <1>1, <1>3, <1>4 DEF PictureInv, AnalysisInit

-----------------------------------------------------------------------------
\* What the list of risks holds.
LEMMA ToSetOf ==
  ASSUME NEW S, NEW r \in Seq(S), NEW s \in Seq(S)
  PROVE  r \o s \in Seq(S) /\ ToSet(r \o s) = ToSet(r) \cup ToSet(s)
<1>1. PICK m, n \in Nat : m = Len(r) /\ n = Len(s) /\ DOMAIN r = 1..m /\ DOMAIN s = 1..n
  OBVIOUS
<1>2. /\ r \o s \in Seq(S) /\ DOMAIN (r \o s) = 1..(m + n)
      /\ \A i \in 1..m : (r \o s)[i] = r[i]
      /\ \A i \in 1..n : (r \o s)[m + i] = s[i]
  BY <1>1
<1>3. ASSUME NEW x \in ToSet(r \o s) PROVE x \in ToSet(r) \cup ToSet(s)
  <2>1. PICK i \in 1..(m + n) : (r \o s)[i] = x
    BY <1>2 DEF ToSet
  <2>2. CASE i <= m
    BY <1>1, <1>2, <2>1, <2>2 DEF ToSet
  <2>3. CASE i > m
    <3>1. PICK j \in 1..n : i = m + j
      <4>1. i - m \in 1..n /\ i = m + (i - m)
        BY <1>1, <2>3
      <4> QED
        BY <4>1
    <3> QED
      BY <1>1, <1>2, <2>1, <3>1 DEF ToSet
  <2> QED
    BY <1>1, <2>2, <2>3
<1>4. ToSet(r) \subseteq ToSet(r \o s)
  <2>1. \A i \in 1..m : i \in 1..(m + n)
    BY <1>1
  <2> QED
    BY <1>1, <1>2, <2>1 DEF ToSet
<1>5. ToSet(s) \subseteq ToSet(r \o s)
  <2> SUFFICES ASSUME NEW i \in 1..n PROVE s[i] \in ToSet(r \o s)
    BY <1>1 DEF ToSet
  <2>1. PICK j \in 1..(m + n) : j = m + i
    BY <1>1
  <2>2. (r \o s)[j] = s[i]
    BY <1>2, <2>1
  <2> QED
    BY <1>2, <2>2 DEF ToSet
<1> QED
  BY <1>2, <1>3, <1>4, <1>5

\* A part of a list that is there on a condition.
LEMMA PartIs ==
  ASSUME NEW S, NEW x \in S, NEW part, part = <<x>>, NEW P
  PROVE  /\ Unless(part, P) \in Seq(S)
         /\ P => ToSet(Unless(part, P)) = {}
         /\ ~P => ToSet(Unless(part, P)) = {x}
<1>1. CASE P
  BY <1>1 DEF Unless, ToSet
<1>2. CASE ~P
  BY <1>2 DEF Unless, ToSet
<1> QED
  BY <1>1, <1>2

\* The collection rate of a picture is a number.
LEMMA RateIs ==
  ASSUME NEW s \in Pictures, NEW P \in Books, Bounded(s, P), Busy(s)
  PROVE  CollectionRate(s.worth[1], s.owed[1]) \in Nat
<1>1. s.owed[1] \in Nat /\ s.worth[1] \in Nat /\ s.owed[1] <= s.worth[1]
  BY PictureFacts DEF Bounded
<1>2. s.worth[1] - s.owed[1] \in Nat
  BY <1>1
<1> QED
  BY <1>1, <1>2, RatioIs DEF CollectionRate

\* The list of risks at the end of an analysis.
LEMMA RisksAre ==
  ASSUME PictureInv, NEW a \in Analysts, at[a] = "audit"
  PROVE  /\ Risks(a) \in Seq(Facts)
         /\ \A f \in ToSet(Risks(a)) : f \in Facts /\ f.user = subject[a] /\ f.type = "RISK_SIGNAL"
         /\ (\E f \in ToSet(Risks(a)) : f.text[1] = "BEHIND") <=> behind[a][1] # {}
         /\ (\E f \in ToSet(Risks(a)) : f.text[1] = "LOW_COLLECTION")
              <=> IsLow(worth[a][1], Rate(a, 1))
<1>1. PICK s \in Pictures : s = Picture(a) /\ Bounded(s, Book) /\ Busy(s)
  BY PicturesAre DEF PictureInv, Drawn, Picture, Busy
<1>2. /\ s.user = subject[a] /\ s.owed[1] = owed[a][1] /\ s.behind[1] = behind[a][1]
      /\ s.worth[1] = worth[a][1] /\ Book \in Books
  BY <1>1 DEF Picture, PictureInv, PicturesTyped
<1>3. PICK u \in Users : u = subject[a]
  BY <1>1, <1>2 DEF Bounded
<1>4. PICK n \in Nat : n = Cardinality(behind[a][1])
  <2>1. IsFiniteSet(behind[a][1])
    BY <1>1, <1>2, PictureFacts, BookFacts, FS_Subset
  <2> QED
    BY <2>1, FS_CardinalityType
<1>5. PICK rate \in Nat : rate = Rate(a, 1)
  BY <1>1, <1>2, RateIs DEF Rate
<1>6. PICK percent \in Nat : percent = (rate + 5) \div 10
  BY <1>5
<1>7. PICK b, l, i \in Facts :
        /\ b = [user |-> u, type |-> "RISK_SIGNAL", text |-> <<"BEHIND", n>>]
        /\ l = [user |-> u, type |-> "RISK_SIGNAL", text |-> <<"LOW_COLLECTION", percent>>]
        /\ i = [user |-> u, type |-> "RISK_SIGNAL", text |-> <<"INCONSISTENT", 0>>]
  BY DEF Facts, MemoryTypes, Texts
<1>8. PICK x \in Seq(Facts) :
        /\ x = Unless(Signal(u, "BEHIND", Cardinality(behind[a][1])), behind[a][1] = {})
        /\ behind[a][1] = {} => ToSet(x) = {}
        /\ behind[a][1] # {} => ToSet(x) = {b}
  <2>1. Signal(u, "BEHIND", Cardinality(behind[a][1])) = <<b>>
    BY <1>4, <1>7 DEF Signal
  <2> QED
    BY <2>1, PartIs
<1>9. PICK y \in Seq(Facts) :
        /\ y = Unless(Signal(u, "LOW_COLLECTION", (Rate(a, 1) + 5) \div 10),
                      ~IsLow(worth[a][1], Rate(a, 1)))
        /\ ~IsLow(worth[a][1], Rate(a, 1)) => ToSet(y) = {}
        /\ IsLow(worth[a][1], Rate(a, 1)) => ToSet(y) = {l}
  <2>1. Signal(u, "LOW_COLLECTION", (Rate(a, 1) + 5) \div 10) = <<l>>
    BY <1>5, <1>6, <1>7 DEF Signal
  <2> QED
    BY <2>1, PartIs
<1>10. PICK z \in Seq(Facts) :
        /\ z = Unless(Signal(u, "INCONSISTENT", 0), ~irregular[a])
        /\ ToSet(z) \subseteq {i}
  <2>1. Signal(u, "INCONSISTENT", 0) = <<i>>
    BY <1>7 DEF Signal
  <2> QED
    BY <2>1, PartIs
<1>11. x \o y \in Seq(Facts) /\ ToSet(x \o y) = ToSet(x) \cup ToSet(y)
  BY ToSetOf
<1>12. /\ Risks(a) = (x \o y) \o z /\ Risks(a) \in Seq(Facts)
       /\ ToSet(Risks(a)) = (ToSet(x) \cup ToSet(y)) \cup ToSet(z)
  <2>1. Risks(a) = (x \o y) \o z
    BY <1>3, <1>8, <1>9, <1>10 DEF Risks
  <2>2. PICK xy \in Seq(Facts) : xy = x \o y
    BY <1>11
  <2>3. xy \o z \in Seq(Facts) /\ ToSet(xy \o z) = ToSet(xy) \cup ToSet(z)
    BY ToSetOf
  <2> QED
    BY <1>11, <2>1, <2>2, <2>3
<1>13. PICK all, early, second :
         /\ all = ToSet(Risks(a)) /\ early = ToSet(x) /\ second = ToSet(y)
         /\ all \subseteq early \cup second \cup {i} /\ early \cup second \subseteq all
         /\ early \subseteq {b} /\ second \subseteq {l}
  BY <1>8, <1>9, <1>10, <1>12
<1>14. /\ b.user = u /\ l.user = u /\ i.user = u
       /\ b.type = "RISK_SIGNAL" /\ l.type = "RISK_SIGNAL" /\ i.type = "RISK_SIGNAL"
       /\ b.text[1] = "BEHIND" /\ l.text[1] = "LOW_COLLECTION" /\ i.text[1] = "INCONSISTENT"
  BY <1>7
<1>15. (\E f \in all : f.text[1] = "BEHIND") <=> early # {}
  BY <1>13, <1>14
<1>16. (\E f \in all : f.text[1] = "LOW_COLLECTION") <=> second # {}
  BY <1>13, <1>14
<1>17. \A f \in ToSet(Risks(a)) : f \in Facts /\ f.user = subject[a] /\ f.type = "RISK_SIGNAL"
  BY <1>3, <1>13, <1>14
<1>18. (\E f \in ToSet(Risks(a)) : f.text[1] = "BEHIND") <=> behind[a][1] # {}
  <2>1. early # {} <=> behind[a][1] # {}
    BY <1>8, <1>13
  <2>2. all = ToSet(Risks(a))
    BY <1>13
  <2> QED
    BY ONLY <1>15, <2>1, <2>2
<1>19. (\E f \in ToSet(Risks(a)) : f.text[1] = "LOW_COLLECTION")
          <=> IsLow(worth[a][1], Rate(a, 1))
  <2>1. second # {} <=> IsLow(worth[a][1], Rate(a, 1))
    BY <1>3, <1>9, <1>13
  <2>2. all = ToSet(Risks(a))
    BY <1>13
  <2> QED
    BY ONLY <1>16, <2>1, <2>2
<1> QED
  BY <1>12, <1>17, <1>18, <1>19

\* What a complete picture says of the book at the beginning and at the end.
LEMMA PictureEnds ==
  ASSUME NEW s \in Pictures, NEW P \in Books, Drawn(s, P), s.at = "audit"
  PROVE  /\ s.since = {} =>
              /\ \A i \in 1..s.pass : s.near[i] = NearCompletion(s.before, s.user)
              /\ s.irregular = IsInconsistent(s.before.payment, s.user)
         /\ "rises" \notin s.since =>
              /\ \A i \in 1..s.pass : s.worth[i] = SumOver(Total, Mine(s, P))
              /\ Behind(P, s.user) \subseteq s.behind[s.pass]
              /\ s.behind[s.pass] \subseteq s.behind[1]
              /\ s.behind[1] \subseteq Behind(s.before, s.user)
              /\ Owed(P, s.user) <= s.owed[s.pass]
              /\ s.owed[s.pass] <= s.owed[1]
              /\ s.owed[1] <= Owed(s.before, s.user)
         /\ "falls" \notin s.since =>
              /\ Behind(s.before, s.user) \subseteq s.behind[1]
              /\ s.behind[1] \subseteq s.behind[s.pass]
              /\ s.behind[s.pass] \subseteq Behind(P, s.user)
              /\ Owed(s.before, s.user) <= s.owed[1]
              /\ s.owed[1] <= s.owed[s.pass]
              /\ s.owed[s.pass] <= Owed(P, s.user)
<1>1. Drawing(s) /\ Busy(s)
  BY DEF Drawing, Busy
<1>2. /\ ToWeigh(s) = {} /\ Weighed(s, P) = Mine(s, P)
      /\ Judged(s, P) = Mine(s, P) /\ Gauged(s, P) = Mine(s, P)
  BY DEF ToWeigh, Weighed, Judged, Gauged
<1>3. /\ s.pass \in 1..2 /\ s.before \in Books
      /\ Owes(s, P) \in Nat /\ AtFirst(s) \in Nat /\ \A i \in 1..2 : s.owed[i] \in Nat
  BY PictureFacts
<1>4. Owed(P, s.user) = Owes(s, P) /\ Owed(s.before, s.user) = AtFirst(s) /\ Left(s, P) = 0
  <2>1. Due(P.payment, {}) = 0
    BY SumOfNone DEF Due
  <2> QED
    BY <1>2, <1>3, <2>1, OwedIs DEF Owes, Left, AtFirst, Mine
<1>5. /\ Behind(P, s.user) \subseteq Mine(s, P)
      /\ Behind(s.before, s.user) \subseteq ContractsOf(s.before.opened, s.user)
      /\ NearCompletion(s.before, s.user) \subseteq ContractsOf(s.before.opened, s.user)
  BY DEF Behind, NearCompletion, Mine
<1>6. ASSUME s.since = {}
      PROVE  /\ \A i \in 1..s.pass : s.near[i] = NearCompletion(s.before, s.user)
             /\ s.irregular = IsInconsistent(s.before.payment, s.user)
  <2>1. /\ Still(s.before, P, s.user)
        /\ s.near[s.pass] = NearCompletion(s.before, s.user) \cap Mine(s, P)
        /\ s.pass = 2 => s.near[1] = NearCompletion(s.before, s.user)
        /\ s.irregular = IsInconsistent(s.before.payment, s.user)
    BY <1>1, <1>2, <1>6 DEF Drawn, Unmoved
  <2>2. NearCompletion(s.before, s.user) \subseteq Mine(s, P)
    BY <1>5, <2>1 DEF Still, Mine
  <2>3. s.near[s.pass] = NearCompletion(s.before, s.user)
    BY <2>1, <2>2
  <2>4. \A i \in 1..s.pass : i = s.pass \/ (i = 1 /\ s.pass = 2)
    BY <1>3
  <2> QED
    BY <2>1, <2>3, <2>4
<1>7. ASSUME "rises" \notin s.since
      PROVE  /\ \A i \in 1..s.pass : s.worth[i] = SumOver(Total, Mine(s, P))
             /\ Behind(P, s.user) \subseteq s.behind[s.pass]
             /\ s.behind[s.pass] \subseteq s.behind[1]
             /\ s.behind[1] \subseteq Behind(s.before, s.user)
             /\ Owed(P, s.user) <= s.owed[s.pass]
             /\ s.owed[s.pass] <= s.owed[1]
             /\ s.owed[1] <= Owed(s.before, s.user)
  <2>1. /\ \A i \in 1..s.pass : s.worth[i] = SumOver(Total, Mine(s, P))
        /\ SumsSink(s, P) /\ SetsSink(s, P)
    BY <1>1, <1>7 DEF Drawn, Sinking
  <2>2. /\ Owed(P, s.user) <= s.owed[s.pass] /\ s.owed[s.pass] <= s.owed[1]
        /\ s.owed[1] <= Owed(s.before, s.user)
    BY <1>3, <1>4, <2>1 DEF SumsSink
  <2>3. /\ Behind(P, s.user) \subseteq s.behind[s.pass]
        /\ s.behind[s.pass] \subseteq s.behind[1]
        /\ s.behind[1] \subseteq Behind(s.before, s.user)
    BY <1>2, <1>3, <1>5, <2>1 DEF SetsSink
  <2> QED
    BY <2>1, <2>2, <2>3
<1>8. ASSUME "falls" \notin s.since
      PROVE  /\ Behind(s.before, s.user) \subseteq s.behind[1]
             /\ s.behind[1] \subseteq s.behind[s.pass]
             /\ s.behind[s.pass] \subseteq Behind(P, s.user)
             /\ Owed(s.before, s.user) <= s.owed[1]
             /\ s.owed[1] <= s.owed[s.pass]
             /\ s.owed[s.pass] <= Owed(P, s.user)
  <2>1. Below(s.before, P, s.user) /\ SumsRise(s, P) /\ SetsRise(s, P)
    BY <1>1, <1>8 DEF Drawn, Rising
  <2>2. /\ Owed(s.before, s.user) <= s.owed[1] /\ s.owed[1] <= s.owed[s.pass]
        /\ s.owed[s.pass] <= Owed(P, s.user)
    BY <1>3, <1>4, <2>1 DEF SumsRise
  <2>3. Behind(s.before, s.user) \subseteq Mine(s, P)
    BY <1>5, <2>1 DEF Below, Mine
  <2>4. /\ Behind(s.before, s.user) \subseteq s.behind[1]
        /\ s.behind[1] \subseteq s.behind[s.pass]
        /\ s.behind[s.pass] \subseteq Behind(P, s.user)
    BY <1>2, <1>3, <1>5, <2>1, <2>3 DEF SetsRise
  <2> QED
    BY <2>2, <2>4
<1> QED
  BY <1>6, <1>7, <1>8

\* What the advisor answers agrees with itself.
LEMMA AdviceIsConsistent ==
  ASSUME PictureInv, NEW a \in Advisors, at[a] = "audit"
  PROVE  AdviceAgrees(a)
<1>1. a \in Analysts
  BY DEF Analysts
<1>2. PICK s \in Pictures, P \in Books : s = Picture(a) /\ P = Book /\ Drawn(s, P)
  BY <1>1, PicturesAre DEF PictureInv, PicturesTyped
<1>3. /\ s.at = "audit" /\ s.user = subject[a] /\ s.owed = owed[a] /\ s.behind = behind[a]
      /\ s.near = near[a] /\ s.since = since[a] /\ s.passes = 2 /\ s.worth = worth[a]
  BY <1>2 DEF Picture
<1>4. Drawing(s) /\ Busy(s) /\ s.pass = 2
  <2>1. Drawing(s) /\ Busy(s)
    BY <1>3 DEF Drawing, Busy
  <2> QED
    BY <1>2, <1>3, <2>1 DEF Drawn, Staged
<1>5. PICK v, w, p, q \in Nat :
        /\ v = s.worth[1] /\ w = s.worth[2] /\ p = s.owed[1] /\ q = s.owed[2]
        /\ p <= v
        /\ "rises" \notin s.since => v = w /\ q <= p
        /\ s.since = {} => p = q
  <2>1. /\ s.worth[1] \in Nat /\ s.worth[2] \in Nat
        /\ s.owed[1] \in Nat /\ s.owed[2] \in Nat
    BY PictureFacts
  <2>2. s.owed[1] <= s.worth[1]
    BY <1>2, <1>4 DEF Drawn, Bounded
  <2>3. "rises" \notin s.since => s.worth[1] = s.worth[2] /\ s.owed[2] <= s.owed[1]
    BY <1>2, <1>3, <1>4, PictureEnds
  <2>4. s.since = {} => s.owed[1] <= s.owed[2] /\ s.owed[2] <= s.owed[1]
    BY <1>2, <1>3, <1>4, PictureEnds
  <2> QED
    BY <2>1, <2>2, <2>3, <2>4
<1>6. PICK early : early = Rate(a, 1) /\ early = Ratio(v - p, v) /\ early \in Nat
  <2>1. v - p \in Nat
    BY <1>5
  <2> QED
    BY <1>3, <1>5, <2>1, RatioIs DEF Rate, CollectionRate
<1>7. PICK second : second = Rate(a, 2) /\ second = Ratio(w - q, w)
  BY <1>3, <1>5 DEF Rate, CollectionRate
<1>8. v = 0 => early = 0
  BY <1>6 DEF Ratio
<1>9. "rises" \notin s.since => second \in Nat /\ early <= second
  <2> SUFFICES ASSUME "rises" \notin s.since PROVE second \in Nat /\ early <= second
    OBVIOUS
  <2>1. v - p \in Nat /\ v - q \in Nat /\ v - p <= v - q /\ v = w
    BY <1>5
  <2> QED
    BY <1>6, <1>7, <2>1, RatioIs, RatioGrows
<1>10. s.since = {} => s.near[1] = s.near[2]
  BY <1>2, <1>3, <1>4, PictureEnds
<1>11. s.since = {} => early = second
  BY <1>5, <1>6, <1>7
<1>12. "rises" \notin s.since => s.behind[2] \subseteq s.behind[1]
  BY <1>2, <1>3, <1>4, PictureEnds
<1>13. "falls" \notin s.since => s.behind[1] \subseteq s.behind[2]
  BY <1>2, <1>3, <1>4, PictureEnds
<1>14. /\ (\E f \in ToSet(Risks(a)) : f.text[1] = "BEHIND") <=> s.behind[1] # {}
       /\ (\E f \in ToSet(Risks(a)) : f.text[1] = "LOW_COLLECTION") <=> IsLow(v, early)
  BY <1>1, <1>3, <1>5, <1>6, RisksAre
<1>15. Positives(a).near = s.near[1]
  BY <1>3 DEF Positives
<1>16. Positives(a).strong <=> (v > 0 /\ IsStrong(early))
  <2>1. Positives(a).strong = (worth[a][1] > 0 /\ IsStrong(Rate(a, 1)))
    BY Zenon DEF Positives
  <2>2. worth[a][1] = v /\ Rate(a, 1) = early
    BY <1>3, <1>5, <1>6
  <2> QED
    BY <2>1, <2>2, Zenon
<1>17. Suggestions(a).overdue = s.behind[2] /\ Suggestions(a).near = s.near[2]
  BY <1>3 DEF Suggestions
<1> DEFINE IsWeak(rate) == rate < 5000
<1>18. PICK advice : advice = Suggestions(a).health
  OBVIOUS
<1> HIDE DEF IsWeak
<1>19. /\ Suggestions(a).health = "performing well" <=> IsStrong(Rate(a, 2))
       /\ Suggestions(a).health = "follow up" => IsWeak(Rate(a, 2))
  <2>1. Suggestions(a).health =
          IF IsStrong(Rate(a, 2)) THEN "performing well"
          ELSE IF IsWeak(Rate(a, 2)) /\ worth[a][2] > 0 THEN "follow up" ELSE "nothing"
    BY SMT DEF Suggestions, IsWeak
  <2>2. /\ "performing well" # "follow up" /\ "performing well" # "nothing"
        /\ "follow up" # "nothing"
    OBVIOUS
  <2> QED
    BY <2>1, <2>2, Zenon
<1>20. (advice = "performing well" <=> IsStrong(second)) /\ (advice = "follow up" => IsWeak(second))
  <2>1. Rate(a, 2) = second
    BY <1>7
  <2> QED
    BY <1>18, <1>19, <2>1
<1>21. s.since = {} => (IsStrong(second) <=> (v > 0 /\ IsStrong(early)))
  BY <1>5, <1>6, <1>8, <1>11 DEF IsStrong
<1>22. "rises" \notin s.since => ~(IsWeak(second) /\ IsStrong(early))
  BY <1>6, <1>9 DEF IsStrong, IsWeak
<1>23. ~(IsLow(v, early) /\ IsStrong(early))
  BY <1>6 DEF IsStrong, IsLow
<1>24. since[a] = {} => (advice = "performing well" <=> Positives(a).strong)
  BY <1>3, <1>16, <1>20, <1>21, Zenon
<1>25. "rises" \notin since[a] => ~(advice = "follow up" /\ Positives(a).strong)
  BY <1>3, <1>16, <1>20, <1>22, Zenon
<1>26. ~((\E f \in ToSet(Risks(a)) : f.text[1] = "LOW_COLLECTION") /\ Positives(a).strong)
  BY <1>14, <1>16, <1>23, Zenon
<1>27. since[a] = {} => Suggestions(a).near = Positives(a).near
  BY <1>3, <1>10, <1>15, <1>17
<1>28. "rises" \notin since[a] =>
         (Suggestions(a).overdue # {} => \E f \in ToSet(Risks(a)) : f.text[1] = "BEHIND")
  BY <1>3, <1>12, <1>14, <1>17
<1>29. "falls" \notin since[a] =>
         ((\E f \in ToSet(Risks(a)) : f.text[1] = "BEHIND") => Suggestions(a).overdue # {})
  BY <1>3, <1>14, <1>17, <1>13
<1>30. advice = Suggestions(a).health
  BY <1>18
<1> QED
  BY <1>24, <1>25, <1>26, <1>27, <1>28, <1>29, <1>30, Zenon DEF AdviceAgrees

\* A complete picture gives the property.
LEMMA PicturesEnough == ASSUME PictureInv PROVE ReportsBracketed
<1> SUFFICES ASSUME NEW a \in Analysts, at[a] = "audit"
             PROVE  /\ a \in Advisors => AdviceAgrees(a)
                    /\ since[a] = {} =>
                         /\ \A i \in 1..pass[a] :
                              near[a][i] = NearCompletion(before[a], subject[a])
                         /\ irregular[a] = IsInconsistent(before[a].payment, subject[a])
                    /\ "rises" \notin since[a] => Sinks(before[a], a, 1, pass[a], Book)
                    /\ "falls" \notin since[a] => Sinks(Book, a, pass[a], 1, before[a])
  BY DEF ReportsBracketed
<1>1. PICK s \in Pictures, P \in Books : s = Picture(a) /\ P = Book /\ Drawn(s, P)
  BY PicturesAre DEF PictureInv, PicturesTyped
<1>2. /\ s.at = "audit" /\ s.user = subject[a] /\ s.owed = owed[a] /\ s.behind = behind[a]
      /\ s.near = near[a] /\ s.since = since[a] /\ s.pass = pass[a] /\ s.before = before[a]
      /\ s.irregular = irregular[a]
  BY <1>1 DEF Picture
<1>3. a \in Advisors => AdviceAgrees(a)
  BY AdviceIsConsistent
<1>4. since[a] = {} =>
        /\ \A i \in 1..pass[a] : near[a][i] = NearCompletion(before[a], subject[a])
        /\ irregular[a] = IsInconsistent(before[a].payment, subject[a])
  BY <1>1, <1>2, PictureEnds
<1>5. "rises" \notin since[a] => Sinks(before[a], a, 1, pass[a], Book)
  BY <1>1, <1>2, PictureEnds DEF Sinks
<1>6. "falls" \notin since[a] => Sinks(Book, a, pass[a], 1, before[a])
  BY <1>1, <1>2, PictureEnds DEF Sinks
<1> QED
  BY <1>3, <1>4, <1>5, <1>6

\* Whatever is confirmed, rejected or paid while figures are read, whatever contracts are
\* created and days begun, and for any number of contracts, payments, jobs and requests: the
\* figures of an analysis lie between those of the book when it began and those of the book
\* when it ends, as long as what is owed has moved one way only; and the advisor's answer
\* agrees with itself as far as that goes.
THEOREM ReportsAreBracketed == ApiSpec => []ReportsBracketed
<1>1. ApiInit => PictureInv /\ WaitingTyped
  BY PictureInit DEF ApiInit, AnalysisInit, WaitingTyped
<1>2. PictureInv /\ WaitingTyped /\ [ApiNext]_apiVars => PictureInv' /\ WaitingTyped'
  BY PictureNext, WaitingNext
<1>3. PictureInv => ReportsBracketed
  BY PicturesEnough
<1> QED
  BY <1>1, <1>2, <1>3, PTL DEF ApiSpec

-----------------------------------------------------------------------------
(***************************************************************************)
(* The job.                                                                *)
(*                                                                         *)
(* The argument: what a run of the job has dealt with so far is one record    *)
(* (Run), against what is remembered (Known). A fact leaves the list of a      *)
(* caller only when it is remembered (Logs), and what is remembered stays.    *)
(* Two callers cross at a risk only if two jobs are at work, and then the      *)
(* lock was lost under one (Alone).                                         *)
(***************************************************************************)

Known == ToSet(memories)

\* What is being recorded has been inserted.
Logs == \A w \in Writers : recall[w] = "audit" => Head(todo[w]) \in Known

\* Only a job at work remembers risks.
RisksOfJobs ==
  \A w \in Writers : \A f \in ToSet(todo[w]) :
     f.type = "RISK_SIGNAL" => scene = "analyse" /\ w \in Replicas /\ at[w] = "remember"

\* A job at work holds the lock, and no two jobs have crossed, until a lock is lost.
Alone ==
  ~dropped =>
    /\ \A a \in Replicas : at[a] # "idle" => jobLock = a
    /\ \A f \in crossed : f.type # "RISK_SIGNAL"

\* The first element and the others.
LEMMA HeadAndTail ==
  ASSUME NEW S, NEW s \in Seq(S), s # <<>>
  PROVE  /\ Head(s) \in ToSet(s) /\ Tail(s) \in Seq(S)
         /\ ToSet(Tail(s)) \subseteq ToSet(s)
         /\ ToSet(s) \subseteq ToSet(Tail(s)) \cup {Head(s)}
<1>1. PICK n \in Nat : n = Len(s) /\ DOMAIN s = 1..n
  OBVIOUS
<1>2. n >= 1 /\ Head(s) = s[1]
  BY <1>1
<1>3. /\ Tail(s) \in Seq(S) /\ DOMAIN Tail(s) = 1..(n - 1)
      /\ \A i \in 1..(n - 1) : Tail(s)[i] = s[i + 1]
  BY <1>1, <1>2
<1>4. Head(s) \in ToSet(s)
  BY <1>1, <1>2 DEF ToSet
<1>5. ToSet(Tail(s)) \subseteq ToSet(s)
  <2> SUFFICES ASSUME NEW i \in 1..(n - 1) PROVE s[i + 1] \in ToSet(s)
    BY <1>3 DEF ToSet
  <2>1. PICK j \in 1..n : j = i + 1
    OBVIOUS
  <2> QED
    BY <1>1, <2>1 DEF ToSet
<1>6. ToSet(s) \subseteq ToSet(Tail(s)) \cup {Head(s)}
  <2> SUFFICES ASSUME NEW i \in 1..n PROVE s[i] \in ToSet(Tail(s)) \cup {s[1]}
    BY <1>1, <1>2 DEF ToSet
  <2>1. CASE i = 1
    BY <2>1
  <2>2. CASE i # 1
    <3>1. PICK j \in 1..(n - 1) : i = j + 1
      <4>1. i - 1 \in 1..(n - 1) /\ i = (i - 1) + 1
        BY <2>2
      <4> QED
        BY <4>1
    <3>2. Tail(s)[j] = s[i]
      BY <1>3, <3>1
    <3> QED
      BY <1>3, <3>1, <3>2 DEF ToSet
  <2> QED
    BY <2>1, <2>2
<1> QED
  BY <1>3, <1>4, <1>5, <1>6

\* What is remembered, as a set.
LEMMA KnownIs == \A f : Remembered(f) <=> f \in Known
BY DEF Remembered, Known, ToSet

\* What is remembered stays, and a fact leaves the list when it is remembered.
LEMMA RememberMoves ==
  ASSUME MemoryInv, Logs, NEW w \in Writers, Remember(w)
  PROVE  /\ MemoryInv' /\ Logs' /\ Known \subseteq Known'
         /\ \A v \in Writers \ {w} : todo'[v] = todo[v]
         /\ ToSet(todo'[w]) \subseteq ToSet(todo[w])
         /\ ToSet(todo[w]) \subseteq ToSet(todo'[w]) \cup Known'
         /\ \A f \in crossed' \ crossed :
               /\ f \in ToSet(todo[w])
               /\ \E v \in Writers \ {w} : f \in ToSet(todo[v])
<1> USE DEF MemoryInv
<1>1. MemoryInv'
  BY OthersKeep, RecallKeeps, InsertKeeps DEF Remember
<1>2. PICK listed \in Seq(Facts) : listed = todo[w] /\ listed # <<>>
  BY DEF MemoryTypeOK, Remember, SkipKnown, Recall, Insert, LogMemory, HasFact
<1>3. PICK f \in Facts, rest \in Seq(Facts) :
        /\ f = Head(todo[w]) /\ rest = Tail(todo[w])
        /\ f \in ToSet(todo[w]) /\ ToSet(rest) \subseteq ToSet(todo[w])
        /\ ToSet(todo[w]) \subseteq ToSet(rest) \cup {f}
  <2>1. Head(listed) \in Facts /\ Tail(listed) \in Seq(Facts)
    BY <1>2
  <2> QED
    BY <1>2, <2>1, HeadAndTail
<1>4. CASE SkipKnown(w)
  <2>1. /\ f \in Known /\ todo' = [todo EXCEPT ![w] = rest] /\ recall[w] = "read"
        /\ memories' = memories /\ recall' = recall /\ crossed' = crossed
    BY <1>3, <1>4, KnownIs DEF SkipKnown, NextFact
  <2>2. todo'[w] = rest /\ \A v \in Writers \ {w} : todo'[v] = todo[v]
    BY <2>1 DEF MemoryTypeOK
  <2>3. Known' = Known
    BY <2>1 DEF Known
  <2>4. Logs'
    BY <2>1, <2>2, <2>3 DEF Logs
  <2> QED
    BY <1>1, <1>3, <2>1, <2>2, <2>3, <2>4
<1>5. CASE LogMemory(w)
  <2>1. /\ todo' = [todo EXCEPT ![w] = rest] /\ recall[w] = "audit"
        /\ memories' = memories /\ recall' = [recall EXCEPT ![w] = "read"] /\ crossed' = crossed
    BY <1>3, <1>5 DEF LogMemory, NextFact
  <2>2. /\ todo'[w] = rest /\ recall'[w] = "read"
        /\ \A v \in Writers \ {w} : todo'[v] = todo[v] /\ recall'[v] = recall[v]
    BY <2>1 DEF MemoryTypeOK
  <2>3. Known' = Known /\ f \in Known
    BY <1>3, <2>1 DEF Known, Logs
  <2>4. Logs'
    BY <2>2, <2>3 DEF Logs
  <2> QED
    BY <1>1, <1>3, <2>1, <2>2, <2>3, <2>4
<1>6. CASE Recall(w)
  <2>1. /\ todo' = todo /\ memories' = memories /\ recall' = [recall EXCEPT ![w] = "insert"]
        /\ crossed' = crossed \cup {g \in {f} : \E v \in Writers \ {w} : AboutToInsert(v, g)}
    BY <1>3, <1>6 DEF Recall
  <2>2. recall'[w] = "insert" /\ \A v \in Writers \ {w} : recall'[v] = recall[v]
    BY <2>1 DEF MemoryTypeOK
  <2>3. Known' = Known
    BY <2>1 DEF Known
  <2>4. Logs'
    BY <2>1, <2>2, <2>3 DEF Logs
  <2>5. ASSUME NEW v \in Writers, AboutToInsert(v, f) PROVE f \in ToSet(todo[v])
    <3>1. PICK other \in Seq(Facts) : other = todo[v] /\ other # <<>> /\ Head(other) = f
      BY <2>5 DEF AboutToInsert, HasFact, MemoryTypeOK
    <3> QED
      BY <3>1, HeadAndTail
  <2> QED
    BY <1>1, <1>3, <2>1, <2>3, <2>4, <2>5
<1>7. CASE Insert(w)
  <2>1. /\ todo' = todo /\ memories' = Append(memories, f) /\ crossed' = crossed
        /\ recall' = [recall EXCEPT ![w] = "audit"]
    BY <1>3, <1>7 DEF Insert
  <2>2. recall'[w] = "audit" /\ \A v \in Writers \ {w} : recall'[v] = recall[v]
    BY <2>1 DEF MemoryTypeOK
  <2>3. Known' = Known \cup {f}
    <3>1. PICK m \in Seq(Facts) : m = memories
      BY DEF MemoryTypeOK
    <3>2. PICK n \in Nat : n = Len(m) /\ DOMAIN m = 1..n
      OBVIOUS
    <3>3. /\ DOMAIN Append(m, f) = 1..(n + 1) /\ Append(m, f)[n + 1] = f
          /\ \A i \in 1..n : Append(m, f)[i] = m[i]
      BY <3>2
    <3>4. ToSet(Append(m, f)) = {Append(m, f)[i] : i \in 1..(n + 1)}
      BY <3>3 DEF ToSet
    <3>5. {Append(m, f)[i] : i \in 1..(n + 1)} = {m[i] : i \in 1..n} \cup {f}
      BY <3>2, <3>3
    <3>6. Known' = ToSet(Append(m, f))
      BY <2>1, <3>1 DEF Known
    <3>7. Known = {m[i] : i \in 1..n}
      BY <3>1, <3>2 DEF Known, ToSet
    <3> QED
      BY <3>4, <3>5, <3>6, <3>7
  <2>4. Logs'
    BY <1>3, <2>1, <2>2, <2>3 DEF Logs
  <2> QED
    BY <1>1, <1>3, <2>1, <2>3, <2>4
<1> QED
  BY <1>4, <1>5, <1>6, <1>7 DEF Remember

\* A list begun, or given up.
LEMMA OtherMoves ==
  ASSUME MemoryInv, Logs, NEW w \in Writers, NEW facts \in Seq(Facts),
         Want(w, facts) \/ (facts = <<>> /\ Forget(w))
  PROVE  /\ MemoryInv' /\ Logs' /\ Known' = Known /\ crossed' = crossed
         /\ \A v \in Writers \ {w} : todo'[v] = todo[v]
         /\ todo'[w] = facts
<1> USE DEF MemoryInv
<1>1. MemoryInv'
  BY OthersKeep
<1>2. /\ memories' = memories /\ crossed' = crossed /\ todo' = [todo EXCEPT ![w] = facts]
      /\ recall' = recall \/ recall' = [recall EXCEPT ![w] = "read"]
  BY DEF Want, Forget
<1>3. \A v \in Writers \ {w} : todo'[v] = todo[v] /\ recall'[v] = recall[v]
  BY <1>2 DEF MemoryTypeOK
<1>4. todo'[w] = facts /\ recall'[w] # "audit"
  <2>1. recall[w] = "audit" => todo[w] # <<>>
    BY DEF HasFact
  <2> QED
    BY <1>2, <2>1 DEF MemoryTypeOK, Want, Forget
<1> QED
  BY <1>1, <1>2, <1>3, <1>4 DEF Logs, Known

-----------------------------------------------------------------------------
\* The run of a job, as one record: what it has dealt with is then a statement about the run
\* and what is remembered.
Runs ==
  [at : Steps, user : Users \cup {Nobody}, waiting : SUBSET Users, logged : SUBSET Users,
   struck : SUBSET Users, found : SUBSET Facts, wanted : SUBSET Facts,
   session : {"usable", "poisoned"}]

Run(a) ==
  [at |-> at[a], user |-> subject[a], waiting |-> waiting[a], logged |-> logged[a],
   struck |-> struck[a], found |-> found[a], wanted |-> ToSet(todo[a]),
   session |-> IF poisoned[a] THEN "poisoned" ELSE "usable"]

FoundFor(r, u) == {f \in r.found : f.user = u}

\* The users that a run is through with, and what it owes to the others.
Sound(r, K) ==
  /\ r.at \in {"idle", "list"} => r.waiting = Users
  /\ r.waiting \cap r.logged = {}
  /\ \A f \in r.found : f.user \in r.logged
  /\ r.at \notin {"idle", "list", "next"} => r.user \in Users \ r.waiting
  /\ r.at \notin {"idle", "list", "next", "remember"} => r.user \notin r.logged
  /\ r.at = "remember" => r.user \in r.logged /\ FoundFor(r, r.user) \subseteq K \cup r.wanted
  /\ \A u \in Users \ (r.waiting \cup r.struck) :
       u # r.user \/ r.at = "next" =>
         IF u \in r.logged THEN FoundFor(r, u) \subseteq K ELSE r.session = "poisoned"

\* More is remembered, or a fact of the list is.
LEMMA RunWaits ==
  ASSUME NEW r \in Runs, NEW K, NEW L, Sound(r, K), K \subseteq L, NEW W \in SUBSET Facts,
         r.at = "remember" => r.wanted \subseteq W \cup L
  PROVE  Sound([r EXCEPT !.wanted = W], L)
BY DEF Sound, FoundFor, Runs

\* A step between two queries, or one that ends the list.
LEMMA RunMoves ==
  ASSUME NEW r \in Runs, NEW K, Sound(r, K), NEW step \in Steps,
         \/ r.at = "idle" /\ step = "list"
         \/ r.at = "list" /\ step = "next"
         \/ {r.at, step} \cap {"idle", "list", "next", "remember"} = {}
  PROVE  Sound([r EXCEPT !.at = step], K)
BY DEF Sound, FoundFor, Runs

\* A user is taken from the list, to be analysed or to be refused.
LEMMA RunTakes ==
  ASSUME NEW r, NEW K, Sound(r, K), r.at = "next", NEW u \in r.waiting, u \in Users,
         NEW s, s.waiting = r.waiting \ {u}, s.logged = r.logged, s.struck = r.struck,
         s.found = r.found, s.session = r.session,
         \/ s.at = "balance" /\ s.user = u
         \/ s.at = "next" /\ s.user = r.user /\ r.session = "poisoned"
  PROVE  Sound(s, K)
BY DEF Sound, FoundFor

\* The audit row is written, and the list of risks begins.
LEMMA RunRecords ==
  ASSUME NEW r, NEW K, Sound(r, K), r.at = "audit",
         NEW R, \A f \in R : f.user = r.user,
         NEW s, s.at = "remember", s.user = r.user, s.waiting = r.waiting,
         s.logged = r.logged \cup {r.user}, s.found = r.found \cup R, s.struck = r.struck,
         s.wanted = R, s.session = r.session
  PROVE  Sound(s, K)
BY DEF Sound, FoundFor

\* A user is done, or has failed.
LEMMA RunLeaves ==
  ASSUME NEW r, NEW K, Sound(r, K), r.at \notin {"idle", "list", "next"},
         NEW s, s.at = "next", s.user = Nobody, s.waiting = r.waiting, s.logged = r.logged,
         s.found = r.found,
         \/ r.at = "remember" /\ r.wanted = {} /\ s.struck = r.struck /\ s.session = r.session
         \/ s.struck = r.struck \cup {r.user} /\ s.session \in {r.session, "poisoned"}
  PROVE  Sound(s, K)
BY AnalysisAssumption DEF Sound, FoundFor

\* The next run begins anew.
LEMMA RunEnds ==
  ASSUME NEW r, NEW K, r.at = "idle", r.waiting = Users, r.logged = {}, r.found = {}
  PROVE  Sound(r, K)
BY DEF Sound, FoundFor

-----------------------------------------------------------------------------
RunsTyped ==
  /\ poisoned \in [Analysts -> BOOLEAN]
  /\ logged \in [Analysts -> SUBSET Users]
  /\ struck \in [Analysts -> SUBSET Users]
  /\ found \in [Analysts -> SUBSET Facts]

RunInv ==
  /\ MemoryInv /\ Logs /\ RisksOfJobs /\ Alone /\ RunsTyped
  /\ \A a \in Replicas : Sound(Run(a), Known)

\* The run of a replica is a run.
LEMMA RunsAre ==
  ASSUME PictureInv, WaitingTyped, RunInv, NEW a \in Replicas
  PROVE  Run(a) \in Runs /\ Sound(Run(a), Known) /\ a \in Analysts /\ a \in Writers
<1>1. a \in Analysts /\ a \in Writers
  BY AnalysisAssumption DEF Analysts
<1>2. ToSet(todo[a]) \subseteq Facts
  BY <1>1 DEF RunInv, MemoryInv, MemoryTypeOK, ToSet
<1> QED
  BY <1>1, <1>2 DEF RunInv, RunsTyped, PictureInv, PicturesTyped, WaitingTyped, Run, Runs

\* Whose analysis is under way is a user.
LEMMA SubjectIs ==
  ASSUME PictureInv, NEW a \in Analysts, at[a] \notin {"idle", "list", "next"}
  PROVE  subject[a] \in Users
<1>1. PICK s : s = Picture(a) /\ Bounded(s, Book)
  BY DEF PictureInv, Drawn
<1>2. Busy(s) /\ s.user = subject[a]
  BY <1>1 DEF Picture, Busy
<1> QED
  BY <1>1, <1>2 DEF Bounded

\* The lists of a run hold users and facts.
LEMMA RunsTypedNext ==
  ASSUME PictureInv, RunsTyped, [ApiNext]_apiVars
  PROVE  RunsTyped'
<1>1. ASSUME NEW a \in Replicas, Job(a) \/ JobFault(a) PROVE RunsTyped'
  <2>1. a \in Analysts
    BY DEF Analysts
  <2>2. CASE StartJob(a) \/ ListUsers(a) \/ AnalyzeUser(a) \/ RefuseUser(a) \/ RememberRisk(a)
             \/ UserDone(a) \/ LockDrops(a)
    BY <2>2 DEF StartJob, ListUsers, AnalyzeUser, RefuseUser, RememberRisk, UserDone, LockDrops,
                analysisVars, sessionVars, historyVars, RunsTyped
  <2>3. CASE EndJob(a) \/ JobStops(a)
    <3>1. CloseSession(a)
      BY <2>3 DEF EndJob, JobStops
    <3> QED
      BY <2>1, <3>1 DEF CloseSession, RunsTyped
  <2>4. CASE RecordAnalysis(a)
    <3>1. subject[a] \in Users /\ ToSet(Risks(a)) \subseteq Facts
      BY <2>1, <2>4, SubjectIs, RisksAre DEF RecordAnalysis
    <3>2. PICK R \in SUBSET Facts : R = ToSet(Risks(a))
      BY <3>1
    <3> QED
      BY <2>1, <2>4, <3>1, <3>2 DEF RecordAnalysis, RunsTyped
  <2>5. CASE UserFails(a) \/ StatementFails(a)
    <3>1. subject[a] \in Users
      BY <2>1, <2>5, SubjectIs DEF UserFails, StatementFails
    <3>2. struck' = [struck EXCEPT ![a] = @ \cup {subject[a]}] /\ UNCHANGED <<logged, found>>
      BY <2>5 DEF UserFails, StatementFails
    <3>3. poisoned' = poisoned \/ poisoned' = [poisoned EXCEPT ![a] = TRUE]
      BY <2>5 DEF UserFails, StatementFails, sessionVars
    <3>4. poisoned' \in [Analysts -> BOOLEAN]
      BY <2>1, <3>3 DEF RunsTyped
    <3>5. struck' \in [Analysts -> SUBSET Users]
      BY <2>1, <3>1, <3>2 DEF RunsTyped
    <3> QED
      BY <3>2, <3>4, <3>5 DEF RunsTyped
  <2> QED
    BY <1>1, <2>2, <2>3, <2>4, <2>5 DEF Job, JobFault
<1>2. ASSUME NEW a \in Analysts, Read(a) PROVE RunsTyped'
  BY <1>2 DEF Read, ReadBalance, ReadPaid, ReadLeft, ReadNear, NextFigure, ReadPattern,
              BeginAgain, historyVars, sessionVars, RunsTyped
<1>3. ASSUME NEW a \in Advisors, Advice(a) PROVE RunsTyped'
  BY <1>3 DEF Advice, AskAdvice, Advise, AdviceFails, sessionVars, RunsTyped
<1>4. BookMoves => RunsTyped'
  BY DEF BookMoves, sessionVars, RunsTyped
<1>5. CASE Analyse
  BY <1>1, <1>2, <1>3, <1>4, <1>5 DEF Analyse, JobsNext, AdviceNext, Analysts
<1>6. CASE CallAccounts \/ Talk \/ ListPayments \/ LimitRequests \/ UNCHANGED apiVars
  BY <1>6 DEF CallAccounts, Talk, ListPayments, LimitRequests, apiVars, analysisVars,
              historyVars, sessionVars, RunsTyped
<1> QED
  BY <1>5, <1>6 DEF ApiNext

-----------------------------------------------------------------------------
\* The lock stays with the job at work, or goes to one that begins when nobody is.
LEMMA AloneStays ==
  ASSUME Alone, NEW a \in Replicas, dropped' = dropped,
         \A b \in Replicas \ {a} : at'[b] = at[b],
         \/ jobLock' = jobLock /\ (at'[a] # "idle" => at[a] # "idle")
         \/ jobLock = Nobody /\ jobLock' = a
         \/ at'[a] = "idle" /\ ReleaseJobLock(a),
         \A f \in crossed' \ crossed : f.type # "RISK_SIGNAL"
  PROVE  Alone'
<1>1. Nobody \notin Replicas
  BY AnalysisAssumption
<1> QED
  BY <1>1 DEF Alone, ReleaseJobLock

\* One job's step: the others keep their runs.
LEMMA OneRun ==
  ASSUME PictureInv, WaitingTyped, RunInv, MemoryInv', Logs', RunsTyped', Alone',
         scene' = scene, scene = "analyse", NEW a \in Replicas, Known \subseteq Known',
         \A v \in Writers \ {a} : todo'[v] = todo[v],
         \A b \in Replicas \ {a} : at'[b] = at[b] /\ Run(b)' = Run(b),
         \A f \in ToSet(todo'[a]) : f.type = "RISK_SIGNAL" => at'[a] = "remember",
         Sound(Run(a)', Known')
  PROVE  RunInv'
<1>1. RisksOfJobs'
  BY DEF RunInv, RisksOfJobs
<1>2. ASSUME NEW b \in Replicas \ {a} PROVE Sound(Run(b)', Known')
  <2>1. PICK r \in Runs : r = Run(b) /\ Sound(r, Known)
    BY RunsAre
  <2>2. [r EXCEPT !.wanted = r.wanted] = r /\ r.wanted \in SUBSET Facts
    BY <2>1 DEF Runs
  <2>3. PICK L : L = Known'
    OBVIOUS
  <2>4. Sound(r, L)
    BY <2>1, <2>2, <2>3, RunWaits
  <2> QED
    BY <1>2, <2>1, <2>3, <2>4
<1> QED
  BY <1>1, <1>2 DEF RunInv

\* Nothing that a run is about changes, except that others remember more.
LEMMA NothingRun ==
  ASSUME PictureInv, WaitingTyped, RunInv, MemoryInv', Logs', RunsTyped', RisksOfJobs', Alone',
         Known \subseteq Known',
         \A a \in Replicas : /\ Run(a)' = [Run(a) EXCEPT !.wanted = ToSet(todo[a])']
                             /\ ToSet(todo[a])' \subseteq Facts
                             /\ at[a] = "remember" =>
                                  ToSet(todo[a]) \subseteq ToSet(todo[a])' \cup Known'
  PROVE  RunInv'
<1>1. ASSUME NEW a \in Replicas PROVE Sound(Run(a)', Known')
  <2>1. PICK r \in Runs : r = Run(a) /\ Sound(r, Known)
    BY RunsAre
  <2>2. r.at = at[a] /\ r.wanted = ToSet(todo[a])
    BY <2>1 DEF Run
  <2>3. PICK L : L = Known'
    OBVIOUS
  <2>4. PICK W \in SUBSET Facts : W = ToSet(todo[a])'
    OBVIOUS
  <2>5. Sound([r EXCEPT !.wanted = W], L)
    BY <2>1, <2>2, <2>3, <2>4, RunWaits
  <2> QED
    BY <2>1, <2>3, <2>4, <2>5
<1> QED
  BY <1>1 DEF RunInv

-----------------------------------------------------------------------------
\* What the steps of a job have in common.
JobStep(a) ==
  /\ PictureInv /\ WaitingTyped /\ RunInv
  /\ PictureInv' /\ WaitingTyped' /\ RunsTyped'
  /\ scene' = scene /\ scene = "analyse" /\ a \in Replicas

\* What another replica's run is made of.
LEMMA OtherRun ==
  ASSUME NEW b, at'[b] = at[b], subject'[b] = subject[b], waiting'[b] = waiting[b],
         logged'[b] = logged[b], struck'[b] = struck[b], found'[b] = found[b],
         todo'[b] = todo[b], poisoned'[b] = poisoned[b]
  PROVE  Run(b)' = Run(b)
BY DEF Run

\* A job that begins, or goes on to its users.
LEMMA BeginRuns ==
  ASSUME NEW a, JobStep(a), StartJob(a) \/ ListUsers(a)
  PROVE  RunInv'
<1> USE DEF JobStep
<1>1. /\ a \in Replicas /\ a \in Analysts /\ a \in Writers
      /\ Run(a) \in Runs /\ Sound(Run(a), Known)
  BY RunsAre
<1>2. PICK step \in Steps :
        /\ step # "idle" /\ step # "remember" /\ at[a] # "remember"
        /\ at' = [at EXCEPT ![a] = step]
        /\ \/ at[a] = "idle" /\ step = "list" /\ jobLock = Nobody /\ jobLock' = a
           \/ at[a] = "list" /\ step = "next" /\ jobLock' = jobLock
        /\ UNCHANGED <<subject, waiting, logged, struck, found, poisoned, dropped, memoryVars>>
  <2>1. CASE StartJob(a)
    <3>1. "list" \in Steps
      BY DEF Steps
    <3> QED
      BY <2>1, <3>1 DEF StartJob, GoTo, sessionVars, historyVars
  <2>2. CASE ListUsers(a)
    <3>1. "next" \in Steps
      BY DEF Steps
    <3> QED
      BY <2>2, <3>1 DEF ListUsers, GoTo, sessionVars, historyVars
  <2> QED
    BY <2>1, <2>2
<1>3. at'[a] = step /\ \A b \in Replicas \ {a} : at'[b] = at[b]
  BY <1>1, <1>2 DEF PictureInv, PicturesTyped, Analysts
<1>4. MemoryInv' /\ Logs' /\ Known' = Known /\ crossed' = crossed /\ todo' = todo
  BY <1>2 DEF memoryVars, RunInv, MemoryInv, MemoryTypeOK, HasFact, FoundMissing,
              RememberedOnce, AboutToInsert, Remembered, Logs, Known
<1>5. Alone'
  BY <1>2, <1>3, <1>4, AloneStays DEF RunInv
<1>6. PICK r \in Runs : r = Run(a) /\ Sound(r, Known)
  BY <1>1
<1>7. Sound([r EXCEPT !.at = step], Known)
  <2>1. r.at = at[a]
    BY <1>6 DEF Run
  <2> QED
    BY <1>2, <1>6, <2>1, RunMoves
<1>8. Run(a)' = [r EXCEPT !.at = step]
  BY <1>2, <1>3, <1>4, <1>6 DEF Run
<1>9. \A b \in Replicas \ {a} : Run(b)' = Run(b)
  BY <1>2, <1>3, <1>4, OtherRun
<1>10. \A f \in ToSet(todo'[a]) : f.type # "RISK_SIGNAL"
  BY <1>1, <1>2, <1>4 DEF RunInv, RisksOfJobs
<1> QED
  BY <1>3, <1>4, <1>5, <1>7, <1>8, <1>9, <1>10, OneRun

\* The next user is taken from the list.
LEMMA TakeRuns ==
  ASSUME NEW a, JobStep(a), AnalyzeUser(a) \/ RefuseUser(a)
  PROVE  RunInv'
<1> USE DEF JobStep
<1>1. /\ a \in Replicas /\ a \in Analysts /\ a \in Writers
      /\ Run(a) \in Runs /\ Sound(Run(a), Known)
  BY RunsAre
<1>2. PICK u \in waiting[a] :
        /\ at[a] = "next" /\ waiting' = [waiting EXCEPT ![a] = waiting[a] \ {u}]
        /\ \/ at' = [at EXCEPT ![a] = "balance"] /\ subject' = [subject EXCEPT ![a] = u]
           \/ poisoned[a] /\ at' = at /\ subject' = subject
        /\ UNCHANGED <<jobLock, logged, struck, found, poisoned, dropped, memoryVars>>
  <2>1. CASE AnalyzeUser(a)
    BY <2>1 DEF AnalyzeUser, TakeUser, BeginPicture, GoTo, sessionVars
  <2>2. CASE RefuseUser(a)
    BY <2>2 DEF RefuseUser, TakeUser, sessionVars, historyVars
  <2> QED
    BY <2>1, <2>2
<1>3. PICK rest \in SUBSET Users : rest = waiting[a] \ {u} /\ waiting' = [waiting EXCEPT ![a] = rest]
  BY <1>1, <1>2 DEF WaitingTyped
<1>4. /\ \/ at'[a] = "balance" /\ subject'[a] = u
         \/ poisoned[a] /\ at'[a] = "next" /\ subject'[a] = subject[a]
      /\ \A b \in Replicas \ {a} : at'[b] = at[b] /\ subject'[b] = subject[b]
  BY <1>1, <1>2 DEF PictureInv, PicturesTyped, Analysts
<1>5. waiting'[a] = rest /\ \A b \in Replicas \ {a} : waiting'[b] = waiting[b]
  BY <1>1, <1>3 DEF WaitingTyped, Analysts
<1>6. MemoryInv' /\ Logs' /\ Known' = Known /\ crossed' = crossed /\ todo' = todo
  BY <1>2 DEF memoryVars, RunInv, MemoryInv, MemoryTypeOK, HasFact, FoundMissing,
              RememberedOnce, AboutToInsert, Remembered, Logs, Known
<1>7. Alone'
  BY <1>2, <1>4, <1>6, AloneStays DEF RunInv
<1>8. PICK r \in Runs : r = Run(a) /\ Sound(r, Known)
  BY <1>1
<1>9. /\ r.at = "next" /\ r.waiting = waiting[a] /\ u \in r.waiting
      /\ poisoned[a] => r.session = "poisoned"
  BY <1>2, <1>8 DEF Run
<1>10. PICK s : s = Run(a)'
  OBVIOUS
<1>11. /\ s.waiting = r.waiting \ {u} /\ s.logged = r.logged /\ s.struck = r.struck
       /\ s.found = r.found /\ s.session = r.session
       /\ \/ s.at = "balance" /\ s.user = u
          \/ s.at = "next" /\ s.user = r.user /\ r.session = "poisoned"
  BY <1>2, <1>3, <1>4, <1>5, <1>8, <1>9, <1>10 DEF Run
<1>12. u \in Users
  BY <1>8, <1>9 DEF Runs
<1>13. Sound(Run(a)', Known)
  <2>1. Sound(s, Known)
    BY <1>8, <1>9, <1>11, <1>12, RunTakes
  <2> QED
    BY <1>10, <2>1
<1>14. \A b \in Replicas \ {a} : Run(b)' = Run(b)
  BY <1>2, <1>4, <1>5, <1>6, OtherRun
<1>15. \A f \in ToSet(todo'[a]) : f.type # "RISK_SIGNAL"
  BY <1>1, <1>2, <1>6 DEF RunInv, RisksOfJobs
<1> QED
  BY <1>4, <1>6, <1>7, <1>13, <1>14, <1>15, OneRun

\* The queries are no concern of the run's.
LEMMA ReadRuns ==
  ASSUME NEW a, JobStep(a), Read(a), UNCHANGED memoryVars
  PROVE  RunInv'
<1> USE DEF JobStep
<1>1. /\ a \in Replicas /\ a \in Analysts /\ a \in Writers
      /\ Run(a) \in Runs /\ Sound(Run(a), Known)
  BY RunsAre
<1>2. PICK step \in Steps :
        /\ {at[a], step} \cap {"idle", "list", "next", "remember"} = {}
        /\ at' = [at EXCEPT ![a] = step]
        /\ UNCHANGED <<jobLock, subject, waiting, logged, struck, found, poisoned, dropped>>
  <2>1. at \in [Analysts -> Steps]
    BY DEF PictureInv, PicturesTyped
  <2>2. CASE ReadBalance(a) \/ ReadPaid(a) \/ ReadLeft(a) \/ ReadNear(a)
    <3>1. at[a] \in Steps /\ at' = [at EXCEPT ![a] = at[a]]
      BY <1>1, <2>1, <2>2 DEF ReadBalance, ReadPaid, ReadLeft, ReadNear
    <3>2. {at[a], at[a]} \cap {"idle", "list", "next", "remember"} = {}
      BY <2>2 DEF ReadBalance, ReadPaid, ReadLeft, ReadNear
    <3>3. UNCHANGED <<jobLock, subject, waiting, logged, struck, found, poisoned, dropped>>
      BY <2>2 DEF ReadBalance, ReadPaid, ReadLeft, ReadNear, sessionVars, historyVars
    <3> QED
      BY <3>1, <3>2, <3>3
  <2>3. CASE NextFigure(a)
    <3>1. PICK step : /\ step \in {"overdue", "near", "pattern", "audit"}
                      /\ at' = [at EXCEPT ![a] = step]
      BY <2>3 DEF NextFigure, GoTo
    <3>2. at[a] \in {"balance", "overdue", "near"}
      BY <2>3 DEF NextFigure
    <3>3. UNCHANGED <<jobLock, subject, waiting, logged, struck, found, poisoned, dropped>>
      BY <2>3 DEF NextFigure, sessionVars, historyVars
    <3>4. step \in Steps /\ {at[a], step} \cap {"idle", "list", "next", "remember"} = {}
      BY <3>1, <3>2 DEF Steps
    <3> QED
      BY <3>1, <3>3, <3>4
  <2>4. CASE ReadPattern(a)
    <3>1. PICK step : step \in {"again", "audit"} /\ at' = [at EXCEPT ![a] = step]
      BY <2>4 DEF ReadPattern, GoTo
    <3>2. at[a] = "pattern"
      BY <2>4 DEF ReadPattern
    <3>3. UNCHANGED <<jobLock, subject, waiting, logged, struck, found, poisoned, dropped>>
      BY <2>4 DEF ReadPattern, sessionVars, historyVars
    <3>4. step \in Steps /\ {at[a], step} \cap {"idle", "list", "next", "remember"} = {}
      BY <3>1, <3>2 DEF Steps
    <3> QED
      BY <3>1, <3>3, <3>4
  <2>5. CASE BeginAgain(a)
    <3>1. at[a] = "again" /\ at' = [at EXCEPT ![a] = "balance"]
      BY <2>5 DEF BeginAgain, GoTo
    <3>2. UNCHANGED <<jobLock, subject, waiting, logged, struck, found, poisoned, dropped>>
      BY <2>5 DEF BeginAgain, sessionVars, historyVars
    <3>3. "balance" \in Steps
      BY DEF Steps
    <3> QED
      BY <3>1, <3>2, <3>3
  <2> QED
    BY <2>2, <2>3, <2>4, <2>5 DEF Read
<1>3. at'[a] = step /\ \A b \in Replicas \ {a} : at'[b] = at[b]
  BY <1>1, <1>2 DEF PictureInv, PicturesTyped, Analysts
<1>4. MemoryInv' /\ Logs' /\ Known' = Known /\ crossed' = crossed /\ todo' = todo
  BY DEF memoryVars, RunInv, MemoryInv, MemoryTypeOK, HasFact, FoundMissing,
         RememberedOnce, AboutToInsert, Remembered, Logs, Known
<1>5. Alone'
  BY <1>2, <1>3, <1>4, AloneStays DEF RunInv
<1>6. PICK r \in Runs : r = Run(a) /\ Sound(r, Known)
  BY <1>1
<1>7. Sound([r EXCEPT !.at = step], Known)
  <2>1. r.at = at[a]
    BY <1>6 DEF Run
  <2> QED
    BY <1>2, <1>6, <2>1, RunMoves
<1>8. Run(a)' = [r EXCEPT !.at = step]
  BY <1>2, <1>3, <1>4, <1>6 DEF Run
<1>9. \A b \in Replicas \ {a} : Run(b)' = Run(b)
  BY <1>2, <1>3, <1>4, OtherRun
<1>10. \A f \in ToSet(todo'[a]) : f.type # "RISK_SIGNAL"
  BY <1>1, <1>2, <1>4 DEF RunInv, RisksOfJobs
<1> QED
  BY <1>3, <1>4, <1>5, <1>7, <1>8, <1>9, <1>10, OneRun

\* The list is through, or the job is over: the next run begins anew.
LEMMA EndRuns ==
  ASSUME NEW a, JobStep(a), EndJob(a) \/ JobStops(a)
  PROVE  RunInv'
<1> USE DEF JobStep
<1>1. /\ a \in Replicas /\ a \in Analysts /\ a \in Writers
      /\ Run(a) \in Runs /\ Sound(Run(a), Known)
  BY RunsAre
<1>2. /\ at' = [at EXCEPT ![a] = "idle"] /\ ReleaseJobLock(a) /\ CloseSession(a)
      /\ dropped' = dropped
      /\ \/ at[a] = "next" /\ UNCHANGED <<subject, memoryVars>>
         \/ DropPicture(a) /\ Forget(a)
  <2>1. CASE EndJob(a)
    BY <2>1 DEF EndJob, GoTo
  <2>2. CASE JobStops(a)
    BY <2>2 DEF JobStops, GoTo
  <2> QED
    BY <2>1, <2>2
<1>3. /\ subject' = subject \/ subject' = [subject EXCEPT ![a] = Nobody]
      /\ waiting' = [waiting EXCEPT ![a] = Users]
      /\ poisoned' = [poisoned EXCEPT ![a] = FALSE]
      /\ logged' = [logged EXCEPT ![a] = {}]
      /\ struck' = [struck EXCEPT ![a] = {}]
      /\ found' = [found EXCEPT ![a] = {}]
  BY <1>2 DEF DropPicture, CloseSession
<1>4. /\ at'[a] = "idle" /\ waiting'[a] = Users /\ logged'[a] = {} /\ found'[a] = {}
      /\ \A b \in Replicas \ {a} : /\ at'[b] = at[b] /\ subject'[b] = subject[b]
                                   /\ waiting'[b] = waiting[b]
  BY <1>1, <1>2, <1>3 DEF PictureInv, PicturesTyped, WaitingTyped, RunInv, RunsTyped, Analysts
<1>5. \A b \in Replicas \ {a} : /\ logged'[b] = logged[b] /\ struck'[b] = struck[b]
                                /\ found'[b] = found[b] /\ poisoned'[b] = poisoned[b]
  BY <1>1, <1>3 DEF RunInv, RunsTyped, Analysts
<1>6. /\ MemoryInv' /\ Logs' /\ Known' = Known /\ crossed' = crossed
      /\ \A v \in Writers \ {a} : todo'[v] = todo[v]
      /\ \A f \in ToSet(todo'[a]) : f.type # "RISK_SIGNAL"
  <2>1. CASE at[a] = "next" /\ UNCHANGED <<subject, memoryVars>>
    <3>1. MemoryInv' /\ Logs' /\ Known' = Known /\ crossed' = crossed /\ todo' = todo
      BY <2>1 DEF memoryVars, RunInv, MemoryInv, MemoryTypeOK, HasFact, FoundMissing,
                  RememberedOnce, AboutToInsert, Remembered, Logs, Known
    <3>2. \A f \in ToSet(todo'[a]) : f.type # "RISK_SIGNAL"
      BY <1>1, <2>1, <3>1 DEF RunInv, RisksOfJobs
    <3> QED
      BY <3>1, <3>2
  <2>2. CASE Forget(a)
    <3>1. PICK none \in Seq(Facts) : none = <<>>
      <4>1. <<>> \in Seq(Facts)
        OBVIOUS
      <4> QED
        BY <4>1
    <3>2. ToSet(none) = {}
      BY <3>1 DEF ToSet
    <3> QED
      BY <1>1, <2>2, <3>1, <3>2, OtherMoves DEF RunInv
  <2> QED
    BY <1>2, <2>1, <2>2
<1>7. Alone'
  BY <1>2, <1>4, <1>6, AloneStays DEF RunInv
<1>8. Sound(Run(a)', Known')
  <2>1. PICK r \in Runs : r = Run(a)'
    <3>1. ToSet(todo'[a]) \subseteq Facts
      BY <1>1, <1>6 DEF MemoryInv, MemoryTypeOK, ToSet
    <3> QED
      BY <1>1, <3>1 DEF PictureInv, PicturesTyped, WaitingTyped, RunsTyped, Run, Runs
  <2>2. r.at = "idle" /\ r.waiting = Users /\ r.logged = {} /\ r.found = {}
    BY <1>4, <2>1 DEF Run
  <2>3. Sound(r, Known)
    BY <2>2, RunEnds
  <2> QED
    BY <1>6, <2>1, <2>3
<1>9. \A b \in Replicas \ {a} : Run(b)' = Run(b)
  <2> SUFFICES ASSUME NEW b \in Replicas \ {a} PROVE Run(b)' = Run(b)
    OBVIOUS
  <2>1. b \in Writers
    BY AnalysisAssumption DEF Analysts
  <2> QED
    BY <1>4, <1>5, <1>6, <2>1, OtherRun
<1> QED
  BY <1>1, <1>4, <1>6, <1>7, <1>8, <1>9, OneRun

\* The analysis goes on record, and its risks are to be remembered.
LEMMA RecordRuns ==
  ASSUME NEW a, JobStep(a), RecordAnalysis(a)
  PROVE  RunInv'
<1> USE DEF JobStep
<1>1. /\ a \in Replicas /\ a \in Analysts /\ a \in Writers
      /\ Run(a) \in Runs /\ Sound(Run(a), Known)
  BY RunsAre
<1>2. PICK listed \in Seq(Facts) : listed = Risks(a) /\ \A f \in ToSet(listed) : f.user = subject[a]
  BY <1>1, RisksAre DEF RecordAnalysis
<1>3. PICK R \in SUBSET Facts : R = ToSet(listed)
  <2>1. ToSet(listed) \subseteq Facts
    BY <1>2 DEF ToSet
  <2> QED
    BY <2>1
<1>4. /\ at[a] = "audit" /\ at' = [at EXCEPT ![a] = "remember"]
      /\ logged' = [logged EXCEPT ![a] = logged[a] \cup {subject[a]}]
      /\ found' = [found EXCEPT ![a] = found[a] \cup R]
      /\ Want(a, listed)
      /\ UNCHANGED <<jobLock, subject, waiting, poisoned, struck, dropped>>
  BY <1>2, <1>3 DEF RecordAnalysis, GoTo
<1>5. /\ MemoryInv' /\ Logs' /\ Known' = Known /\ crossed' = crossed /\ todo'[a] = listed
      /\ \A v \in Writers \ {a} : todo'[v] = todo[v]
  BY <1>1, <1>4, OtherMoves DEF RunInv
<1>6. at'[a] = "remember" /\ \A b \in Replicas \ {a} : at'[b] = at[b]
  BY <1>1, <1>4 DEF PictureInv, PicturesTyped, Analysts
<1>7. /\ logged'[a] = logged[a] \cup {subject[a]} /\ found'[a] = found[a] \cup R
      /\ \A b \in Replicas \ {a} : logged'[b] = logged[b] /\ found'[b] = found[b]
  BY <1>1, <1>4 DEF RunInv, RunsTyped, Analysts
<1>8. Alone'
  BY <1>4, <1>5, <1>6, AloneStays DEF RunInv
<1>9. PICK r \in Runs : r = Run(a) /\ Sound(r, Known)
  BY <1>1
<1>10. /\ r.at = "audit" /\ r.user = subject[a] /\ r.logged = logged[a] /\ r.found = found[a]
       /\ \A f \in R : f.user = r.user
  BY <1>2, <1>3, <1>4, <1>9 DEF Run
<1>11. PICK s : s = Run(a)'
  OBVIOUS
<1>12. Sound(Run(a)', Known)
  <2>1. /\ s.at = "remember" /\ s.user = r.user /\ s.waiting = r.waiting
        /\ s.logged = r.logged \cup {r.user} /\ s.found = r.found \cup R
        /\ s.struck = r.struck /\ s.wanted = R /\ s.session = r.session
    BY <1>3, <1>4, <1>5, <1>6, <1>7, <1>9, <1>10, <1>11 DEF Run
  <2>2. Sound(s, Known)
    BY <1>9, <1>10, <2>1, RunRecords
  <2> QED
    BY <1>11, <2>2
<1>13. \A b \in Replicas \ {a} : Run(b)' = Run(b)
  <2> SUFFICES ASSUME NEW b \in Replicas \ {a} PROVE Run(b)' = Run(b)
    OBVIOUS
  <2>1. b \in Writers
    BY AnalysisAssumption DEF Analysts
  <2> QED
    BY <1>4, <1>5, <1>6, <1>7, <2>1, OtherRun
<1> QED
  BY <1>1, <1>5, <1>6, <1>8, <1>12, <1>13, OneRun

\* A risk is looked for, inserted, or recorded.
LEMMA RememberRuns ==
  ASSUME NEW a, JobStep(a), RememberRisk(a)
  PROVE  RunInv'
<1> USE DEF JobStep
<1>1. /\ a \in Replicas /\ a \in Analysts /\ a \in Writers
      /\ Run(a) \in Runs /\ Sound(Run(a), Known)
  BY RunsAre
<1>2. /\ at[a] = "remember" /\ Remember(a)
      /\ UNCHANGED <<jobLock, at, subject, waiting, poisoned, logged, struck, found, dropped>>
  BY DEF RememberRisk, analysisVars, sessionVars, historyVars
<1>3. /\ MemoryInv' /\ Logs' /\ Known \subseteq Known'
      /\ \A v \in Writers \ {a} : todo'[v] = todo[v]
      /\ ToSet(todo'[a]) \subseteq ToSet(todo[a])
      /\ ToSet(todo[a]) \subseteq ToSet(todo'[a]) \cup Known'
      /\ \A f \in crossed' \ crossed :
            f \in ToSet(todo[a]) /\ \E v \in Writers \ {a} : f \in ToSet(todo[v])
  BY <1>1, <1>2, RememberMoves DEF RunInv
<1>4. Alone'
  <2>1. SUFFICES ASSUME ~dropped PROVE Alone'
    BY <1>2 DEF Alone
  <2>2. ASSUME NEW f \in crossed' \ crossed PROVE f.type # "RISK_SIGNAL"
    <3>1. SUFFICES ASSUME f.type = "RISK_SIGNAL" PROVE FALSE
      OBVIOUS
    <3>2. PICK v \in Writers \ {a} : f \in ToSet(todo[v])
      BY <1>3, <2>2
    <3>3. v \in Replicas /\ at[v] = "remember"
      BY <3>1, <3>2 DEF RunInv, RisksOfJobs
    <3>4. jobLock = v /\ jobLock = a
      BY <1>1, <1>2, <2>1, <3>3 DEF RunInv, Alone
    <3> QED
      BY <3>2, <3>4
  <2> QED
    BY <1>1, <1>2, <2>2, AloneStays DEF RunInv
<1>5. PICK r \in Runs : r = Run(a) /\ Sound(r, Known)
  BY <1>1
<1>6. PICK W \in SUBSET Facts : W = ToSet(todo'[a])
  <2>1. ToSet(todo'[a]) \subseteq Facts
    BY <1>1, <1>3 DEF MemoryInv, MemoryTypeOK, ToSet
  <2> QED
    BY <2>1
<1>7. PICK L : L = Known'
  OBVIOUS
<1>8. Sound([r EXCEPT !.wanted = W], L)
  <2>1. r.wanted \subseteq W \cup L
    BY <1>3, <1>5, <1>6, <1>7 DEF Run
  <2> QED
    BY <1>3, <1>5, <1>7, <2>1, RunWaits
<1>9. Run(a)' = [r EXCEPT !.wanted = W]
  BY <1>2, <1>5, <1>6 DEF Run
<1>10. \A b \in Replicas \ {a} : Run(b)' = Run(b)
  <2> SUFFICES ASSUME NEW b \in Replicas \ {a} PROVE Run(b)' = Run(b)
    OBVIOUS
  <2>1. b \in Writers
    BY AnalysisAssumption DEF Analysts
  <2> QED
    BY <1>2, <1>3, <2>1, OtherRun
<1> QED
  BY <1>1, <1>2, <1>3, <1>4, <1>7, <1>8, <1>9, <1>10, OneRun

\* A user is done, or has failed.
LEMMA LeaveRuns ==
  ASSUME NEW a, JobStep(a), UserDone(a) \/ UserFails(a) \/ StatementFails(a)
  PROVE  RunInv'
<1> USE DEF JobStep
<1>1. /\ a \in Replicas /\ a \in Analysts /\ a \in Writers
      /\ Run(a) \in Runs /\ Sound(Run(a), Known)
  BY RunsAre
<1>2. /\ at[a] \notin {"idle", "list", "next"} /\ at' = [at EXCEPT ![a] = "next"]
      /\ subject' = [subject EXCEPT ![a] = Nobody]
      /\ UNCHANGED <<jobLock, waiting, logged, found, dropped>>
      /\ \/ /\ at[a] = "remember" /\ todo[a] = <<>> /\ UNCHANGED memoryVars
            /\ struck' = struck /\ poisoned' = poisoned
         \/ /\ Forget(a) /\ struck' = [struck EXCEPT ![a] = struck[a] \cup {subject[a]}]
            /\ poisoned' \in {poisoned, [poisoned EXCEPT ![a] = TRUE]}
  <2>1. CASE UserDone(a)
    BY <2>1 DEF UserDone, GoTo, DropPicture, sessionVars
  <2>2. CASE UserFails(a)
    BY <2>2 DEF UserFails, GoTo, DropPicture, sessionVars
  <2>3. CASE StatementFails(a)
    BY <2>3 DEF StatementFails, GoTo, DropPicture
  <2> QED
    BY <2>1, <2>2, <2>3
<1>3. /\ at'[a] = "next" /\ subject'[a] = Nobody
      /\ \A b \in Replicas \ {a} : at'[b] = at[b] /\ subject'[b] = subject[b]
  BY <1>1, <1>2 DEF PictureInv, PicturesTyped, Analysts
<1>4. PICK none \in Seq(Facts) : none = <<>> /\ ToSet(none) = {}
  <2>1. <<>> \in Seq(Facts) /\ ToSet(<<>>) = {}
    BY DEF ToSet
  <2> QED
    BY <2>1
<1>5. /\ MemoryInv' /\ Logs' /\ Known' = Known /\ crossed' = crossed /\ todo'[a] = none
      /\ \A v \in Writers \ {a} : todo'[v] = todo[v]
  <2>1. CASE todo[a] = <<>> /\ UNCHANGED memoryVars
    BY <1>4, <2>1 DEF memoryVars, RunInv, MemoryInv, MemoryTypeOK, HasFact, FoundMissing,
                      RememberedOnce, AboutToInsert, Remembered, Logs, Known
  <2>2. CASE Forget(a)
    BY <1>1, <1>4, <2>2, OtherMoves DEF RunInv
  <2> QED
    BY <1>2, <2>1, <2>2
<1>6. Alone'
  BY <1>2, <1>3, <1>5, AloneStays DEF RunInv
<1>7. PICK r \in Runs : r = Run(a) /\ Sound(r, Known)
  BY <1>1
<1>8. PICK s : s = Run(a)'
  OBVIOUS
<1>9. /\ r.at = at[a] /\ r.user = subject[a] /\ r.waiting = waiting[a] /\ r.logged = logged[a]
      /\ r.found = found[a] /\ r.struck = struck[a] /\ r.wanted = ToSet(todo[a])
  BY <1>7 DEF Run
<1>10. /\ s.at = "next" /\ s.user = Nobody /\ s.waiting = waiting[a] /\ s.logged = logged[a]
       /\ s.found = found[a] /\ s.struck = struck'[a]
  BY <1>2, <1>3, <1>8 DEF Run
<1>11. ASSUME todo[a] = <<>>, at[a] = "remember", struck' = struck, poisoned' = poisoned
       PROVE  Sound(s, Known)
  <2>1. r.wanted = {} /\ s.session = r.session
    BY <1>4, <1>7, <1>8, <1>9, <1>11 DEF Run
  <2> QED
    BY <1>2, <1>7, <1>9, <1>10, <1>11, <2>1, RunLeaves
<1>12. ASSUME struck' = [struck EXCEPT ![a] = struck[a] \cup {subject[a]}],
              poisoned' \in {poisoned, [poisoned EXCEPT ![a] = TRUE]}
       PROVE  Sound(s, Known)
  <2>1. struck'[a] = r.struck \cup {r.user}
    BY <1>1, <1>9, <1>12 DEF RunInv, RunsTyped
  <2>2. poisoned'[a] = poisoned[a] \/ poisoned'[a] = TRUE
    BY <1>1, <1>12 DEF RunInv, RunsTyped
  <2>3. s.session \in {r.session, "poisoned"}
    BY <1>7, <1>8, <2>2 DEF Run
  <2>4. /\ r.at \notin {"idle", "list", "next"} /\ s.waiting = r.waiting
        /\ s.logged = r.logged /\ s.found = r.found /\ s.struck = r.struck \cup {r.user}
    BY <1>2, <1>9, <1>10, <2>1
  <2> QED
    BY <1>7, <1>10, <2>3, <2>4, RunLeaves
<1>13. \A b \in Replicas \ {a} : struck'[b] = struck[b] /\ poisoned'[b] = poisoned[b]
  BY <1>1, <1>2 DEF RunInv, RunsTyped, Analysts
<1>14. \A b \in Replicas \ {a} : Run(b)' = Run(b)
  <2> SUFFICES ASSUME NEW b \in Replicas \ {a} PROVE Run(b)' = Run(b)
    OBVIOUS
  <2>1. b \in Writers
    BY AnalysisAssumption DEF Analysts
  <2> QED
    BY <1>2, <1>3, <1>5, <1>13, <2>1, OtherRun
<1>15. Sound(Run(a)', Known')
  BY <1>2, <1>5, <1>8, <1>11, <1>12
<1> QED
  BY <1>1, <1>3, <1>4, <1>5, <1>6, <1>14, <1>15, OneRun

-----------------------------------------------------------------------------
\* Steps that no run is about.
LEMMA StillRuns ==
  ASSUME PictureInv, WaitingTyped, RunInv, RunsTyped', UNCHANGED memoryVars, scene' = scene,
         \A a \in Replicas : Run(a)' = Run(a),
         \A a \in Replicas : at'[a] = at[a],
         dropped' = TRUE \/ (dropped' = dropped /\ jobLock' = jobLock)
  PROVE  RunInv'
<1>1. MemoryInv' /\ Logs' /\ Known' = Known /\ crossed' = crossed /\ todo' = todo
  BY DEF memoryVars, RunInv, MemoryInv, MemoryTypeOK, HasFact, FoundMissing,
         RememberedOnce, AboutToInsert, Remembered, Logs, Known
<1>2. RisksOfJobs'
  BY <1>1 DEF RunInv, RisksOfJobs
<1>3. Alone'
  BY <1>1 DEF RunInv, Alone
<1> QED
  BY <1>1, <1>2, <1>3 DEF RunInv

\* While people talk no job is at work, and nothing they say is a risk.
LEMMA TalkRuns ==
  ASSUME PictureInv, WaitingTyped, RunInv, RunsTyped', PictureInv',
         scene = "talk", scene' = scene, UNCHANGED analysisVars, NEW w \in Writers,
         \/ Remember(w) \/ Forget(w)
         \/ \E facts \in Seq(Facts) :
              Want(w, facts) /\ \A f \in ToSet(facts) : f.type # "RISK_SIGNAL"
  PROVE  RunInv'
<1> USE DEF RunInv
<1> DEFINE Moved == /\ MemoryInv' /\ Logs' /\ Known \subseteq Known'
                    /\ \A v \in Writers \ {w} : todo'[v] = todo[v]
                    /\ \A f \in ToSet(todo'[w]) : f.type # "RISK_SIGNAL"
                    /\ \A f \in crossed' \ crossed : f.type # "RISK_SIGNAL"
<1>1. Moved
  <2>1. \A f \in ToSet(todo[w]) : f.type # "RISK_SIGNAL"
    BY DEF RisksOfJobs
  <2>2. CASE Remember(w)
    BY <2>1, <2>2, RememberMoves
  <2>3. ASSUME NEW facts \in Seq(Facts), Want(w, facts) \/ (facts = <<>> /\ Forget(w)),
               \A f \in ToSet(facts) : f.type # "RISK_SIGNAL"
        PROVE  Moved
    BY <2>3, OtherMoves
  <2>4. CASE Forget(w)
    <3>1. <<>> \in Seq(Facts) /\ ToSet(<<>>) = {}
      BY DEF ToSet
    <3> HIDE DEF Moved
    <3> QED
      BY <2>3, <2>4, <3>1
  <2> HIDE DEF Moved
  <2> QED
    BY <2>2, <2>3, <2>4
<1>2. RisksOfJobs'
  BY <1>1 DEF RisksOfJobs
<1>3. Alone'
  BY <1>1 DEF Alone, analysisVars, historyVars
<1>4. ASSUME NEW a \in Replicas PROVE Sound(Run(a)', Known')
  <2>1. PICK r \in Runs : r = Run(a) /\ Sound(r, Known)
    BY RunsAre
  <2>2. r.at = "idle"
    BY <2>1 DEF Run, PictureInv, Analysts
  <2>3. PICK s : s = Run(a)'
    OBVIOUS
  <2>4. /\ s.at = r.at /\ s.user = r.user /\ s.waiting = r.waiting /\ s.logged = r.logged
        /\ s.found = r.found
    BY <2>1, <2>3 DEF Run, analysisVars, historyVars
  <2>5. PICK L : L = Known' /\ Known \subseteq L
    BY <1>1
  <2>6. Sound(s, L)
    BY <2>1, <2>2, <2>4, <2>5 DEF Sound, FoundFor
  <2> QED
    BY <2>3, <2>5, <2>6
<1> QED
  BY <1>1, <1>2, <1>3, <1>4

\* What a message tells is no risk.
LEMMA ExtractedIs ==
  ASSUME NEW t \in Turns, turn[t] \in Sayings
  PROVE  Extracted(t) \in Seq(Facts) /\ \A f \in ToSet(Extracted(t)) : f.type # "RISK_SIGNAL"
<1>1. PICK u \in Users, n \in Nat : u = turn[t].user /\ n = turn[t].text
  BY TurnAssumption
<1>2. PICK g, p \in Facts :
        /\ g = Fact(t, "USER_GOAL") /\ g.type = "USER_GOAL"
        /\ p = Fact(t, "FINANCIAL_PATTERN") /\ p.type = "FINANCIAL_PATTERN"
  <2>1. PICK g, p \in Facts :
          /\ g = [user |-> u, type |-> "USER_GOAL", text |-> <<"SAID", n>>]
          /\ p = [user |-> u, type |-> "FINANCIAL_PATTERN", text |-> <<"SAID", n>>]
    BY DEF Facts, MemoryTypes, Texts
  <2> QED
    BY <1>1, <2>1 DEF Fact
<1>3. PICK x \in Seq(Facts) :
        /\ x = Unless(<<Fact(t, "USER_GOAL")>>, "goal" \notin turn[t].cues)
        /\ ToSet(x) \subseteq {g}
  <2>1. <<Fact(t, "USER_GOAL")>> = <<g>>
    BY <1>2
  <2> QED
    BY <2>1, PartIs
<1>4. PICK y \in Seq(Facts) :
        /\ y = Unless(<<Fact(t, "FINANCIAL_PATTERN")>>, "pattern" \notin turn[t].cues)
        /\ ToSet(y) \subseteq {p}
  <2>1. <<Fact(t, "FINANCIAL_PATTERN")>> = <<p>>
    BY <1>2
  <2> QED
    BY <2>1, PartIs
<1>5. x \o y \in Seq(Facts) /\ ToSet(x \o y) = ToSet(x) \cup ToSet(y)
  BY ToSetOf
<1> QED
  BY <1>2, <1>3, <1>4, <1>5 DEF Extracted

-----------------------------------------------------------------------------
\* Every step of a behaviour keeps the records of the runs.
LEMMA RunNext ==
  ASSUME PictureInv, WaitingTyped, Begun, RunInv, PictureInv', WaitingTyped', [ApiNext]_apiVars
  PROVE  RunInv'
<1>1. RunsTyped' /\ scene' = scene
  BY RunsTypedNext DEF RunInv, ApiNext, apiVars
<1>2. CASE scene = "analyse" /\ Analyse
  <2>1. ASSUME NEW a \in Replicas, Job(a) \/ JobFault(a) PROVE RunInv'
    <3>1. JobStep(a)
      BY <1>1, <1>2 DEF JobStep
    <3>2. CASE LockDrops(a)
      <4>1. /\ dropped' = TRUE /\ UNCHANGED memoryVars
            /\ UNCHANGED <<at, subject, waiting, logged, struck, found, poisoned>>
        BY <3>2 DEF LockDrops, sessionVars
      <4>2. \A b \in Replicas : Run(b)' = Run(b)
        BY <4>1 DEF Run, memoryVars
      <4>3. \A b \in Replicas : at'[b] = at[b]
        BY <4>1
      <4> QED
        BY <1>1, <4>1, <4>2, <4>3, StillRuns
    <3> QED
      BY <2>1, <3>1, <3>2, BeginRuns, TakeRuns, EndRuns, RecordRuns, RememberRuns, LeaveRuns
         DEF Job, JobFault
  <2>2. ASSUME NEW a \in Replicas, Read(a), UNCHANGED memoryVars PROVE RunInv'
    <3>1. JobStep(a)
      BY <1>1, <1>2 DEF JobStep
    <3> QED
      BY <2>2, <3>1, ReadRuns
  <2>3. CASE BookMoves /\ UNCHANGED memoryVars
    <3>1. \A b \in Replicas : Run(b)' = Run(b)
      BY <2>3 DEF BookMoves, Run, memoryVars, sessionVars
    <3> QED
      BY <1>1, <2>3, <3>1, StillRuns DEF BookMoves
  <2> QED
    BY <1>2, <2>1, <2>2, <2>3 DEF Analyse, JobsNext, AdviceNext
<1>3. CASE scene = "advise" /\ Analyse
  <2>1. ASSUME NEW a \in Advisors, Read(a) \/ Advice(a), UNCHANGED memoryVars PROVE RunInv'
    <3>1. PICK step \in Steps, u \in Users \cup {Nobody} :
            /\ at' = [at EXCEPT ![a] = step] /\ subject' = [subject EXCEPT ![a] = u]
            /\ UNCHANGED <<jobLock, waiting, logged, struck, found, poisoned, dropped>>
      <4>1. /\ at[a] \in Steps /\ at' \in [Analysts -> Steps] /\ a \in Analysts
            /\ subject[a] \in Users \cup {Nobody} /\ subject' \in [Analysts -> Users \cup {Nobody}]
            /\ at \in [Analysts -> Steps] /\ subject \in [Analysts -> Users \cup {Nobody}]
        BY DEF PictureInv, PicturesTyped, Analysts
      <4>2. at' = at \/ \E step : at' = [at EXCEPT ![a] = step]
        BY <2>1 DEF Read, ReadBalance, ReadPaid, ReadLeft, ReadNear, NextFigure, ReadPattern,
                    BeginAgain, Advice, AskAdvice, Advise, AdviceFails, BeginPicture, GoTo
      <4>3. subject' = subject \/ \E u : subject' = [subject EXCEPT ![a] = u]
        BY <2>1 DEF Read, ReadBalance, ReadPaid, ReadLeft, ReadNear, NextFigure, ReadPattern,
                    BeginAgain, Advice, AskAdvice, Advise, AdviceFails, BeginPicture, DropPicture
      <4>4. UNCHANGED <<jobLock, waiting, logged, struck, found, poisoned, dropped>>
        BY <2>1 DEF Read, ReadBalance, ReadPaid, ReadLeft, ReadNear, NextFigure, ReadPattern,
                    BeginAgain, Advice, AskAdvice, Advise, AdviceFails, sessionVars, historyVars
      <4>5. at' = [at EXCEPT ![a] = at'[a]]
        BY <4>1, <4>2
      <4>6. subject' = [subject EXCEPT ![a] = subject'[a]]
        BY <4>1, <4>3
      <4>7. at'[a] \in Steps /\ subject'[a] \in Users \cup {Nobody}
        BY <4>1
      <4> QED
        BY <4>4, <4>5, <4>6, <4>7
    <3>2. ASSUME NEW b \in Replicas PROVE at'[b] = at[b] /\ Run(b)' = Run(b)
      <4>1. b \in Analysts /\ b # a
        BY AnalysisAssumption DEF Analysts
      <4>2. at'[b] = at[b] /\ subject'[b] = subject[b]
        BY <3>1, <4>1 DEF PictureInv, PicturesTyped
      <4> QED
        BY <2>1, <3>1, <4>2 DEF Run, memoryVars
    <3> QED
      BY <1>1, <2>1, <3>1, <3>2, StillRuns
  <2>2. CASE BookMoves /\ UNCHANGED memoryVars
    <3>1. \A b \in Replicas : Run(b)' = Run(b)
      BY <2>2 DEF BookMoves, Run, memoryVars, sessionVars
    <3> QED
      BY <1>1, <2>2, <3>1, StillRuns DEF BookMoves
  <2> QED
    BY <1>3, <2>1, <2>2 DEF Analyse, AdviceNext
<1>4. CASE Talk /\ ~UNCHANGED memoryVars
  <2>1. PICK t \in Turns : ExtractMemories(t) \/ RememberSaid(t) \/ ExtractionFails(t)
    BY <1>4 DEF Talk, TurnNext, Turn, Arrive, FindConversation, NoConversation, OpenConversation,
                ReadHistory, Shortcut, Detect, AnswerDenied, Gather, Propose, TakeLatest,
                NothingPending, Execute, ExecuteRefused, Settle, ExecutionFails, ButAnswer,
                ButActions, AuditQuery, StoreUserMessage, StoreAssistantMessage, AllRemembered,
                AuditResponse, SendReply, TurnFails, SpoiltFails, ExpirePending
  <2>2. t \in Writers
    BY TurnAssumption
  <2>3. scene = "talk" /\ UNCHANGED analysisVars
    BY <1>4 DEF Talk
  <2>4. CASE ExtractMemories(t)
    <3>1. turn[t] \in Sayings
      BY <2>4 DEF ExtractMemories, Begun
    <3> QED
      BY <1>1, <2>2, <2>3, <2>4, <3>1, ExtractedIs, TalkRuns DEF ExtractMemories
  <2>5. CASE RememberSaid(t) \/ ExtractionFails(t)
    BY <1>1, <2>2, <2>3, <2>5, TalkRuns DEF RememberSaid, ExtractionFails
  <2> QED
    BY <2>1, <2>4, <2>5
<1>5. CASE UNCHANGED <<memoryVars, analysisVars>>
  <2>1. /\ UNCHANGED <<at, subject, waiting, logged, struck, found, poisoned, dropped, jobLock, todo>>
        /\ UNCHANGED memoryVars
    BY <1>5 DEF analysisVars, sessionVars, historyVars, memoryVars
  <2>2. \A a \in Replicas : Run(a)' = Run(a) /\ at'[a] = at[a]
    BY <2>1 DEF Run
  <2> QED
    BY <1>1, <2>1, <2>2, StillRuns
<1>6. CASE CallAccounts \/ ListPayments \/ LimitRequests \/ UNCHANGED apiVars
  BY <1>5, <1>6 DEF CallAccounts, ListPayments, LimitRequests, apiVars
<1>7. CASE Talk /\ UNCHANGED memoryVars
  BY <1>5, <1>7 DEF Talk
<1> QED
  BY <1>2, <1>3, <1>4, <1>6, <1>7 DEF ApiNext, Analyse

\* No run has begun.
LEMMA RunInit == ASSUME ApiInit PROVE RunInv
<1>1. MemoryInit /\ AnalysisInit
  BY DEF ApiInit
<1>2. Known = {} /\ \A w \in Writers : ToSet(todo[w]) = {} /\ recall[w] = "read"
  BY <1>1 DEF MemoryInit, Known, ToSet
<1>3. RunsTyped
  BY <1>1 DEF AnalysisInit, RunsTyped
<1>4. ASSUME NEW a \in Replicas PROVE Sound(Run(a), Known)
  <2>1. PICK r : r = Run(a)
    OBVIOUS
  <2>2. r.at = "idle" /\ r.waiting = Users /\ r.logged = {} /\ r.found = {}
    BY <1>1, <2>1 DEF AnalysisInit, Run, Analysts
  <2> QED
    BY <2>1, <2>2, RunEnds
<1>5. Alone
  BY <1>1 DEF MemoryInit, AnalysisInit, Alone, Analysts
<1> QED
  BY <1>1, <1>2, <1>3, <1>4, <1>5, MemoryInvInit DEF RunInv, Logs, RisksOfJobs

\* The other parts hold in the beginning too.
LEMMA RunsBegin == ASSUME ApiInit PROVE WaitingTyped /\ Begun
<1>1. AnalysisInit /\ TurnInit
  BY DEF ApiInit
<1>2. WaitingTyped
  BY <1>1 DEF AnalysisInit, WaitingTyped
<1>3. Begun
  BY <1>1 DEF TurnInit, Begun, Stages
<1> QED
  BY <1>2, <1>3

\* A risk stored twice was crossed.
LEMMA RisksOnceEnough == ASSUME RunInv PROVE RisksOnce
<1>1. RememberedOnce /\ MemoryTypeOK /\ Alone
  BY DEF RunInv, MemoryInv
<1> QED
  BY <1>1 DEF RememberedOnce, Alone, RisksOnce

\* What a run is through with at its next user.
LEMMA RunsEnough == ASSUME PictureInv, WaitingTyped, RunInv PROVE FailuresIsolated
<1> SUFFICES ASSUME NEW a \in Replicas, NEW u \in Users, at[a] = "next",
                    u \notin waiting[a] \cup struck[a]
             PROVE  \/ poisoned[a] /\ u \notin logged[a]
                    \/ u \in logged[a] /\ \A f \in found[a] : f.user = u => Remembered(f)
  BY DEF FailuresIsolated
<1>1. PICK r \in Runs : r = Run(a) /\ Sound(r, Known)
  BY RunsAre
<1>2. /\ r.at = "next" /\ r.waiting = waiting[a] /\ r.struck = struck[a]
      /\ r.logged = logged[a] /\ r.found = found[a]
  BY <1>1 DEF Run
<1>3. IF u \in r.logged THEN FoundFor(r, u) \subseteq Known ELSE r.session = "poisoned"
  BY <1>1, <1>2 DEF Sound
<1>4. r.session = "poisoned" => poisoned[a]
  BY <1>1 DEF Run
<1> QED
  BY <1>2, <1>3, <1>4, KnownIs DEF FoundFor

\* Whatever runs of the job begin, fail and stop on any number of replicas, with any number of
\* users: a risk is remembered twice only after a lock was lost under a job.
THEOREM RisksAreRememberedOnce == ApiSpec => []RisksOnce
<1>1. ApiInit => PictureInv /\ WaitingTyped /\ Begun /\ RunInv
  BY PictureInit, RunInit, RunsBegin
<1>2. PictureInv /\ WaitingTyped /\ Begun /\ RunInv /\ [ApiNext]_apiVars
        => PictureInv' /\ WaitingTyped' /\ Begun' /\ RunInv'
  BY PictureNext, WaitingNext, BegunNext, RunNext
<1>3. RunInv => RisksOnce
  BY RisksOnceEnough
<1> QED
  BY <1>1, <1>2, <1>3, PTL DEF ApiSpec

\* For any number of users, and wherever a fault strikes: a user whose own analysis met none
\* is analysed, logged and remembered, or is refused by a session that a fault has poisoned.
THEOREM FailuresStayIsolated == ApiSpec => []FailuresIsolated
<1>1. ApiInit => PictureInv /\ WaitingTyped /\ Begun /\ RunInv
  BY PictureInit, RunInit, RunsBegin
<1>2. PictureInv /\ WaitingTyped /\ Begun /\ RunInv /\ [ApiNext]_apiVars
        => PictureInv' /\ WaitingTyped' /\ Begun' /\ RunInv'
  BY PictureNext, WaitingNext, BegunNext, RunNext
<1>3. PictureInv /\ WaitingTyped /\ RunInv => FailuresIsolated
  BY RunsEnough
<1> QED
  BY <1>1, <1>2, <1>3, PTL DEF ApiSpec

-----------------------------------------------------------------------------
(***************************************************************************)
(* The walks.                                                              *)
(*                                                                         *)
(* The argument: the position of a row in the list is the number of rows       *)
(* ahead of it (RankIs). A page holds the rows whose number lies between its    *)
(* ends. A row that joins the list can only raise the number of another, and    *)
(* only from ahead of it, and while none leaves none gets a smaller number.    *)
(***************************************************************************)

\* The rows of S ahead of q, in an order.
Before(S, o, q) == {x \in S : IF o = "asc" THEN x < q ELSE x > q}

Rank(S, o, q) == Cardinality(Before(S, o, q))

\* A list in its order.
Ordered(s, S, o) ==
  /\ DOMAIN s = 1..Cardinality(S)
  /\ \A i \in DOMAIN s : s[i] \in S
  /\ \A p \in S : \E i \in DOMAIN s : s[i] = p
  /\ \A i, j \in DOMAIN s : i < j => IF o = "asc" THEN s[i] < s[j] ELSE s[i] > s[j]

\* The rows ahead can be counted, and more rows are no fewer ahead.
LEMMA RankType ==
  ASSUME NEW S, IsFiniteSet(S), NEW o, NEW q
  PROVE  /\ IsFiniteSet(Before(S, o, q)) /\ Rank(S, o, q) \in Nat
         /\ \A T : Before(S, o, q) \subseteq Before(T, o, q) /\ IsFiniteSet(T)
              => Rank(S, o, q) <= Rank(T, o, q)
<1>1. \A T : IsFiniteSet(T) => IsFiniteSet(Before(T, o, q))
  <2> TAKE T
  <2> HAVE IsFiniteSet(T)
  <2>1. Before(T, o, q) \subseteq T
    BY DEF Before
  <2> QED
    BY <2>1, FS_Subset
<1>2. Rank(S, o, q) \in Nat
  BY <1>1, FS_CardinalityType DEF Rank
<1>3. ASSUME NEW T, Before(S, o, q) \subseteq Before(T, o, q), IsFiniteSet(T)
      PROVE  Rank(S, o, q) <= Rank(T, o, q)
  BY <1>1, <1>3, FS_Subset DEF Rank
<1> QED
  BY <1>1, <1>2, <1>3

\* The position of a row is the number of rows ahead of it.
LEMMA RankIs ==
  ASSUME NEW S \in SUBSET Nat, IsFiniteSet(S), NEW o, NEW s, Ordered(s, S, o)
  PROVE  \A i \in 1..Cardinality(S) : Rank(S, o, s[i]) = i - 1
<1>1. PICK n \in Nat : n = Cardinality(S) /\ DOMAIN s = 1..n
  BY FS_CardinalityType DEF Ordered
<1>2. /\ \A i \in 1..n : s[i] \in S /\ s[i] \in Nat
      /\ \A p \in S : \E i \in 1..n : s[i] = p
      /\ \A i, j \in 1..n : i < j => IF o = "asc" THEN s[i] < s[j] ELSE s[i] > s[j]
  BY <1>1 DEF Ordered
<1>3. ASSUME NEW i \in 1..n PROVE Rank(S, o, s[i]) = i - 1
  <2> DEFINE f == [j \in 1..(i - 1) |-> s[j]]
             B == Before(S, o, s[i])
  <2>1. \A j \in 1..(i - 1) : j \in 1..n /\ j < i /\ f[j] = s[j]
    OBVIOUS
  <2>2. \A j \in 1..n : s[j] \in B <=> j < i
    <3> SUFFICES ASSUME NEW j \in 1..n PROVE s[j] \in B <=> j < i
      OBVIOUS
    <3>1. CASE j < i
      BY <1>2, <3>1 DEF Before
    <3>2. CASE j = i
      BY <1>2, <3>2 DEF Before
    <3>3. CASE i < j
      BY <1>2, <3>3 DEF Before
    <3> QED
      BY <3>1, <3>2, <3>3
  <2>3. f \in [1..(i - 1) -> B]
    BY <2>1, <2>2
  <2>4. \A b \in B : \E j \in 1..(i - 1) : f[j] = b
    <3> TAKE b \in B
    <3>1. PICK j \in 1..n : s[j] = b
      BY <1>2 DEF Before
    <3>2. j \in 1..(i - 1)
      BY <2>2, <3>1
    <3> QED
      BY <3>1, <3>2, <2>1
  <2>5. \A j, k \in 1..(i - 1) : f[j] = f[k] => j = k
    <3> TAKE j, k \in 1..(i - 1)
    <3>1. j \in 1..n /\ k \in 1..n /\ f[j] = s[j] /\ f[k] = s[k] /\ s[j] \in Nat /\ s[k] \in Nat
      BY <1>2, <2>1
    <3>2. CASE j < k
      BY <1>2, <3>1, <3>2
    <3>3. CASE k < j
      BY <1>2, <3>1, <3>3
    <3> QED
      BY <3>1, <3>2, <3>3
  <2> HIDE DEF f, B
  <2>6. ExistsBijection(1..(i - 1), B)
    BY <2>3, <2>4, <2>5 DEF ExistsBijection, Bijection, Injection, Surjection, IsInjective
  <2>7. IsFiniteSet(1..(i - 1)) /\ Cardinality(1..(i - 1)) = i - 1
    BY FS_Interval
  <2>8. Cardinality(B) = i - 1
    BY <2>6, <2>7, FS_Bijection
  <2> QED
    BY <2>8 DEF B, Rank
<1> QED
  BY <1>1, <1>3

\* The list of the matching rows.
LEMMA InOrderIs ==
  ASSUME NEW b
  PROVE  /\ Matching(b) \in SUBSET Nat /\ IsFiniteSet(Matching(b)) /\ Matching(b) \subseteq Payments
         /\ InOrder(b) \in Seq(Payments)
         /\ Ordered(InOrder(b), Matching(b), list.order)
<1> DEFINE ids == [p \in Payments |-> p]
<1>1. /\ IsFiniteSet(Payments) /\ Payments \subseteq Nat
      /\ ids \in Seq(Payments) /\ DOMAIN ids = Payments /\ \A p \in Payments : ids[p] = p
  <2>1. DOMAIN PaymentRow = 1..Len(PaymentRow) /\ Len(PaymentRow) \in Nat
    BY BookAssumption
  <2> QED
    BY <2>1, BookFacts DEF Payments
<1>2. PICK M \in SUBSET Payments : M = Matching(b) /\ IsFiniteSet(M)
  <2>1. Matching(b) \subseteq Payments
    BY DEF Matching, Matches
  <2> QED
    BY <1>1, <2>1, FS_Subset
<1> HIDE DEF ids
<1>3. PICK k \in Seq(Payments) : k = Kept(ids, M) /\ \E where : Numbers(where, k, ids, M)
  <2>1. M \cap DOMAIN ids = M
    BY <1>1
  <2>2. /\ Kept(ids, M) \in Seq(Payments)
        /\ \E w : Numbers(w, Kept(ids, M), ids, M \cap DOMAIN ids)
    BY <1>1, KeptIs
  <2> QED
    BY <2>1, <2>2
<1>0. PICK where : Numbers(where, k, ids, M)
  BY <1>3
<1>4. PICK n \in Nat : n = Len(k) /\ DOMAIN k = 1..n
  OBVIOUS
<1>5. /\ \A i \in 1..n : k[i] \in M /\ k[i] \in Nat
      /\ \A i, j \in 1..n : i < j => k[i] < k[j]
      /\ \A p \in M : \E i \in 1..n : k[i] = p
  <2>1. \A i \in 1..n : where[i] \in M /\ k[i] = ids[where[i]]
    BY <1>0, <1>4 DEF Numbers
  <2>2. \A i \in 1..n : k[i] = where[i]
    BY <1>1, <1>2, <2>1
  <2>3. \A i, j \in 1..n : i < j => where[i] < where[j]
    BY <1>0, <1>4 DEF Numbers
  <2>4. \A p \in M : \E i \in 1..n : where[i] = p
    BY <1>0, <1>4 DEF Numbers
  <2> QED
    BY <1>1, <1>2, <2>1, <2>2, <2>3, <2>4
<1>6. Cardinality(M) = n
  <2>1. k \in [1..n -> M] /\ \A i, j \in 1..n : k[i] = k[j] => i = j
    <3>1. k \in [1..n -> M]
      BY <1>4, <1>5
    <3>2. ASSUME NEW i \in 1..n, NEW j \in 1..n, k[i] = k[j] PROVE i = j
      <4>1. CASE i < j
        BY <1>5, <3>2, <4>1
      <4>2. CASE j < i
        BY <1>5, <3>2, <4>2
      <4> QED
        BY <4>1, <4>2
    <3> QED
      BY <3>1, <3>2
  <2>2. ExistsBijection(1..n, M)
    BY <1>5, <2>1 DEF ExistsBijection, Bijection, Injection, Surjection, IsInjective
  <2>3. IsFiniteSet(1..n) /\ Cardinality(1..n) = n
    BY FS_Interval
  <2> QED
    BY <2>2, <2>3, FS_Bijection
<1>7. PICK s : s = InOrder(b) /\ s = IF list.order = "asc" THEN k ELSE Reverse(k)
  BY <1>2, <1>3 DEF InOrder, ids
<1>8. s \in Seq(Payments) /\ Ordered(s, M, list.order)
  <2>1. CASE list.order = "asc"
    BY <1>4, <1>5, <1>6, <1>7, <2>1 DEF Ordered
  <2>2. CASE list.order # "asc"
    <3>1. s = [j \in 1..n |-> k[n - j + 1]]
      BY <1>4, <1>7, <2>2 DEF Reverse
    <3>2. \A j \in 1..n : n - j + 1 \in 1..n /\ n - (n - j + 1) + 1 = j
      OBVIOUS
    <3>3. \A j \in 1..n : s[j] = k[n - j + 1] /\ s[j] \in M /\ s[n - j + 1] = k[j]
      BY <1>5, <3>1, <3>2
    <3>4. ASSUME NEW i \in 1..n, NEW j \in 1..n, i < j PROVE s[i] > s[j]
      <4>1. n - j + 1 < n - i + 1
        BY <3>4
      <4>2. k[n - j + 1] < k[n - i + 1] /\ k[n - j + 1] \in Nat /\ k[n - i + 1] \in Nat
        BY <1>5, <3>2, <4>1
      <4> QED
        BY <3>3, <4>2
    <3>5. ASSUME NEW p \in M PROVE \E i \in 1..n : s[i] = p
      <4>1. PICK j \in 1..n : k[j] = p
        BY <1>5
      <4> QED
        BY <3>2, <3>3, <4>1
    <3>6. s \in [1..n -> Payments] /\ DOMAIN s = 1..n
      BY <3>1, <3>3, <1>2
    <3>7. s \in Seq(Payments)
      BY <3>6
    <3> QED
      BY <1>6, <2>2, <3>3, <3>4, <3>5, <3>6, <3>7 DEF Ordered
  <2> QED
    BY <2>1, <2>2
<1> QED
  BY <1>1, <1>2, <1>7, <1>8

\* The ends of a page.
LEMMA PageEnds ==
  ASSUME NEW n \in Nat \ {0}
  PROVE  \E a, b \in Nat : a = (n - 1) * PageSize /\ b = n * PageSize /\ a <= b
<1>1. PageSize \in Nat /\ n - 1 \in Nat
  BY PagesAssumption
<1>2. (n - 1) * PageSize \in Nat /\ n * PageSize \in Nat
  BY <1>1
<1>3. n * PageSize = (n - 1) * PageSize + PageSize
  BY <1>1
<1> QED
  BY <1>1, <1>2, <1>3

\* A page holds the rows whose number lies between its ends, each once.
LEMMA PageIs ==
  ASSUME NEW S \in SUBSET Nat, IsFiniteSet(S), NEW o, NEW s \in Seq(Payments), Ordered(s, S, o),
         NEW n \in Nat \ {0}
  PROVE  /\ PageOf(s, n) \in Seq(Payments) /\ IsInjective(PageOf(s, n))
         /\ \A q : q \in ToSet(PageOf(s, n)) <=>
                     /\ q \in S
                     /\ (n - 1) * PageSize <= Rank(S, o, q) /\ Rank(S, o, q) < n * PageSize
<1>1. PICK a \in Nat, b \in Nat : a = (n - 1) * PageSize /\ b = n * PageSize /\ a <= b
  BY PageEnds
<1>2. PICK l \in Nat : l = Cardinality(S) /\ l = Len(s) /\ DOMAIN s = 1..l
  BY FS_CardinalityType DEF Ordered
<1>3. PICK h \in Nat : h = Smaller(b, l) /\ h <= b /\ h <= l /\ (h = b \/ h = l)
  BY DEF Smaller
<1>4. PICK w \in Nat : w = (IF a + 1 <= h THEN h - a ELSE 0)
  <2>1. a + 1 <= h => h - a \in Nat
    OBVIOUS
  <2> QED
    BY <2>1
<1>5. PICK r \in Seq(Payments) :
        r = PageOf(s, n) /\ DOMAIN r = 1..w /\ \A i \in 1..w : r[i] = s[a + i]
  <2>1. PICK r : r = SubSeq(s, a + 1, h) /\ r = PageOf(s, n)
    BY <1>1, <1>2, <1>3 DEF PageOf
  <2>2. a + 1 \in Int /\ h \in Int /\ \A i \in (a + 1)..h : s[i] \in Payments
    <3>1. \A i \in (a + 1)..h : i \in 1..l
      BY <1>3
    <3> QED
      BY <1>2, <3>1
  <2>3. /\ r \in Seq(Payments) /\ Len(r) = IF a + 1 <= h THEN h - (a + 1) + 1 ELSE 0
        /\ \A i \in 1..(h - (a + 1) + 1) : r[i] = s[(a + 1) + i - 1]
    BY <2>1, <2>2, SubSeqProperties
  <2>4. Len(r) = w
    BY <1>4, <2>3
  <2>5. \A i \in 1..w : i \in 1..(h - (a + 1) + 1) /\ (a + 1) + i - 1 = a + i
    BY <1>4
  <2>6. DOMAIN r = 1..w
    BY <2>3, <2>4
  <2>7. \A i \in 1..w : r[i] = s[a + i]
    BY <2>3, <2>5
  <2> QED
    BY <2>1, <2>3, <2>6, <2>7
<1>6. \A i \in 1..l : s[i] \in S /\ Rank(S, o, s[i]) = i - 1
  <2>1. \A i \in 1..l : s[i] \in S
    BY <1>2 DEF Ordered
  <2>2. \A i \in 1..l : Rank(S, o, s[i]) = i - 1
    BY <1>2, RankIs
  <2> QED
    BY <2>1, <2>2
<1>7. \A i \in 1..w : a + i \in 1..l /\ a <= (a + i) - 1 /\ (a + i) - 1 < b
  BY <1>3, <1>4
<1>8. IsInjective(r)
  <2> SUFFICES ASSUME NEW i \in 1..w, NEW j \in 1..w, r[i] = r[j] PROVE i = j
    BY <1>5 DEF IsInjective
  <2>1. (a + i) - 1 = (a + j) - 1
    BY <1>5, <1>6, <1>7
  <2> QED
    BY <2>1
<1>9. ASSUME NEW q \in ToSet(r)
      PROVE  q \in S /\ a <= Rank(S, o, q) /\ Rank(S, o, q) < b
  <2>1. PICK i \in 1..w : r[i] = q
    BY <1>5 DEF ToSet
  <2> QED
    BY <1>5, <1>6, <1>7, <2>1
<1>10. ASSUME NEW q \in S, a <= Rank(S, o, q), Rank(S, o, q) < b
       PROVE  q \in ToSet(r)
  <2>1. PICK j \in 1..l : s[j] = q
    BY <1>2 DEF Ordered
  <2>2. a <= j - 1 /\ j - 1 < b
    BY <1>6, <1>10, <2>1
  <2>3. j - a \in 1..w /\ a + (j - a) = j
    BY <1>3, <1>4, <2>2
  <2>4. r[j - a] = q
    BY <1>5, <2>1, <2>3
  <2> QED
    BY <1>5, <2>3, <2>4 DEF ToSet
<1> QED
  BY <1>1, <1>5, <1>8, <1>9, <1>10

\* The last page ends at the count or after it.
LEMMA LastPage ==
  ASSUME NEW c \in Nat, NEW n \in Nat, n >= (c + PageSize - 1) \div PageSize
  PROVE  c <= n * PageSize
<1>1. PICK k \in Nat \ {0} : k = PageSize
  BY PagesAssumption
<1>2. PICK d \in Int : d = (c + k - 1) \div k /\ c + k - 1 < d * k + k
  <2>1. c + k - 1 \in Nat
    BY <1>1
  <2>2. /\ (c + k - 1) \div k \in Int
        /\ c + k - 1 < ((c + k - 1) \div k) * k + k
    BY <2>1
  <2> QED
    BY <2>2
<1>3. d * k <= n * k
  <2>1. n - d \in Nat
    BY <1>1, <1>2
  <2>2. (n - d) * k >= 0
    BY <2>1
  <2>3. (n - d) * k = n * k - d * k
    OBVIOUS
  <2> QED
    BY <2>2, <2>3
<1> QED
  BY <1>1, <1>2, <1>3

-----------------------------------------------------------------------------
\* The pages that the client has read.
PagesRead == IF reading = "end" THEN page ELSE page - 1

Joined == joined = TRUE
Squeezed == squeezed = TRUE

\* What a walk has shown so far, and what the page being answered still has to show.
Walked ==
  /\ page \in Nat /\ page >= 1
  /\ left = {} =>
       /\ first \subseteq Matching(payment)
       /\ \A q \in first :
            Rank(Matching(payment), list.order, q) < PagesRead * PageSize => q \in ToSet(got)
  /\ ~Joined =>
       /\ IsInjective(got)
       /\ \A q \in ToSet(got) :
            Rank(Matching(payment), list.order, q) < PagesRead * PageSize
  /\ left = {} /\ ~Squeezed /\ reading = "rows" /\ page >= TotalPages =>
       \A q \in first : Rank(Matching(payment), list.order, q) < counted
  /\ left = {} /\ ~Squeezed /\ reading = "end" => first \subseteq ToSet(got)

PageInv ==
  /\ payment \in [Payments -> ApprovalStatuses]
  /\ reading \in {"idle", "count", "rows", "end"}
  /\ counted \in Nat /\ got \in Seq(Payments) /\ joined \in BOOLEAN /\ squeezed \in BOOLEAN
  /\ reading = "idle" => list = NoList /\ got = <<>> /\ first = {} /\ left = {} /\ ~Joined /\ ~Squeezed
  /\ reading # "idle" => Walked

\* A walk begins: nothing is shown, and all that is there is to be shown.
LEMMA BeginWalks == ASSUME PageInv, BeginWalk, payment' = payment PROVE PageInv'
<1>1. PICK l, o : list' = Listing(l, o) /\ first' = Matches(payment, l)
  BY DEF BeginWalk
<1>2. Matching(payment)' = Matches(payment, l)
  BY <1>1 DEF Matching, Matches, Listing
<1>3. /\ reading' = "count" /\ page' = 1 /\ got' = <<>> /\ left' = {} /\ ~Joined' /\ ~Squeezed'
      /\ counted' = counted /\ joined' = joined /\ squeezed' = squeezed
  BY DEF BeginWalk, PageInv, Joined, Squeezed
<1>4. PagesRead' * PageSize = 0
  BY <1>3, PagesAssumption DEF PagesRead
<1>5. \A q : Rank(Matching(payment), list.order, q)' \in Nat
  <2> TAKE q
  <2>1. PICK M : M = Matching(payment)' /\ IsFiniteSet(M)
    <3>1. Matching(payment)' \subseteq Payments
      BY <1>2 DEF Matches
    <3> QED
      BY <3>1, BookFacts, FS_Subset
  <2>2. PICK o2 : o2 = list'.order
    OBVIOUS
  <2>3. Rank(M, o2, q) \in Nat
    BY <2>1, RankType
  <2> QED
    BY <2>1, <2>2, <2>3 DEF Rank, Before
<1>6. IsInjective(<<>>) /\ ToSet(<<>>) = {} /\ <<>> \in Seq(Payments)
  BY DEF IsInjective, ToSet
<1>7. Walked'
  BY <1>1, <1>2, <1>3, <1>4, <1>5, <1>6 DEF Walked
<1> QED
  BY <1>3, <1>6, <1>7 DEF PageInv

\* The rows are counted: each has a number below the count.
LEMMA CountWalks == ASSUME PageInv, CountRows, payment' = payment PROVE PageInv'
<1>1. /\ reading = "count" /\ reading' = "rows" /\ counted' = Cardinality(Matching(payment))
      /\ UNCHANGED <<list, page, got, first, left, joined, squeezed>>
  BY DEF CountRows
<1>2. PICK M, s, o :
        /\ M \in SUBSET Nat
        /\ M = Matching(payment) /\ IsFiniteSet(M) /\ o = list.order /\ Ordered(s, M, o)
  BY InOrderIs
<1>3. Matching(payment)' = M
  BY <1>1, <1>2 DEF Matching, Matches
<1>4. \A q \in M : Rank(M, o, q) < Cardinality(M)
  <2> TAKE q \in M
  <2>1. PICK n \in Nat : n = Cardinality(M) /\ DOMAIN s = 1..n
    BY <1>2, FS_CardinalityType DEF Ordered
  <2>2. PICK i \in 1..n : s[i] = q
    BY <1>2, <2>1 DEF Ordered
  <2>3. Rank(M, o, q) = i - 1
    BY <1>2, <2>1, <2>2, RankIs
  <2> QED
    BY <2>1, <2>3
<1>5. Walked
  BY <1>1 DEF PageInv
<1>6. PagesRead' = PagesRead
  BY <1>1 DEF PagesRead
<1>7. Cardinality(M) \in Nat
  BY <1>2, FS_CardinalityType
<1>8. Walked'
  BY <1>1, <1>2, <1>3, <1>4, <1>5, <1>6 DEF Walked, Joined, Squeezed
<1> QED
  BY <1>1, <1>2, <1>7, <1>8 DEF PageInv

\* Two lists without repetitions and without a common element make one.
LEMMA ConcatIs ==
  ASSUME NEW S, NEW r \in Seq(S), NEW s \in Seq(S)
  PROVE  /\ r \o s \in Seq(S) /\ ToSet(r \o s) = ToSet(r) \cup ToSet(s)
         /\ IsInjective(r) /\ IsInjective(s) /\ ToSet(r) \cap ToSet(s) = {} => IsInjective(r \o s)
<1>1. PICK m, n \in Nat : m = Len(r) /\ n = Len(s) /\ DOMAIN r = 1..m /\ DOMAIN s = 1..n
  OBVIOUS
<1>2. /\ r \o s \in Seq(S) /\ DOMAIN (r \o s) = 1..(m + n)
      /\ \A i \in 1..m : (r \o s)[i] = r[i]
      /\ \A i \in 1..n : (r \o s)[m + i] = s[i]
  BY <1>1
<1>3. \A i \in 1..(m + n) : i \in 1..m \/ \E k \in 1..n : i = m + k
  <2> TAKE i \in 1..(m + n)
  <2>1. i > m => i - m \in 1..n /\ i = m + (i - m)
    BY <1>1
  <2> QED
    BY <2>1
<1>4. ASSUME IsInjective(r), IsInjective(s), ToSet(r) \cap ToSet(s) = {},
             NEW i \in 1..(m + n), NEW j \in 1..(m + n), (r \o s)[i] = (r \o s)[j]
      PROVE  i = j
  <2>1. \A k \in 1..m : r[k] \in ToSet(r)
    BY <1>1 DEF ToSet
  <2>2. \A k \in 1..n : s[k] \in ToSet(s)
    BY <1>1 DEF ToSet
  <2>3. \A k, l \in 1..m : r[k] = r[l] => k = l
    BY <1>1, <1>4 DEF IsInjective
  <2>4. \A k, l \in 1..n : s[k] = s[l] => k = l
    BY <1>1, <1>4 DEF IsInjective
  <2>5. CASE i \in 1..m /\ j \in 1..m
    BY <1>2, <1>4, <2>3, <2>5
  <2>6. ASSUME NEW k \in 1..n, i = m + k, j \in 1..m PROVE FALSE
    BY <1>2, <1>4, <2>1, <2>2, <2>6
  <2>7. ASSUME NEW k \in 1..n, j = m + k, i \in 1..m PROVE FALSE
    BY <1>2, <1>4, <2>1, <2>2, <2>7
  <2>8. ASSUME NEW k \in 1..n, i = m + k, NEW l \in 1..n, j = m + l PROVE i = j
    <3>1. (r \o s)[i] = s[k] /\ (r \o s)[j] = s[l]
      BY <1>2, <2>8
    <3>2. s[k] = s[l]
      BY <1>4, <3>1
    <3>3. k = l
      BY <2>4, <3>2
    <3> QED
      BY <2>8, <3>3
  <2> QED
    BY <1>3, <2>5, <2>6, <2>7, <2>8
<1> QED
  BY <1>2, <1>4, ToSetOf DEF IsInjective

\* A page is shown: the rows from its first to its last number, which none before it had.
LEMMA FetchWalks == ASSUME PageInv, FetchRows, payment' = payment PROVE PageInv'
<1>1. /\ reading = "rows" /\ got' = got \o PageOf(InOrder(payment), page)
      /\ \/ page < TotalPages /\ reading' = "count" /\ page' = page + 1
         \/ page >= TotalPages /\ reading' = "end" /\ page' = page
      /\ UNCHANGED <<list, counted, first, left, joined, squeezed>>
  <2>1. page \in Nat /\ TotalPages \in Int
    <3>1. page \in Nat
      BY DEF FetchRows, PageInv, Walked
    <3>2. PICK k \in Nat \ {0}, c \in Nat : k = PageSize /\ c = counted
      BY PagesAssumption DEF PageInv
    <3>3. c + k - 1 \in Nat
      BY <3>2
    <3>4. (c + k - 1) \div k \in Int
      BY <3>2, <3>3
    <3> QED
      BY <3>1, <3>2, <3>4 DEF TotalPages
  <2>2. page < TotalPages \/ page >= TotalPages
    BY <2>1
  <2> QED
    BY <2>1, <2>2 DEF FetchRows
<1>0. PICK o : o = list.order
  OBVIOUS
<1>2. PICK M \in SUBSET Nat, s \in Seq(Payments) :
        /\ M = Matching(payment) /\ s = InOrder(payment) /\ o = list.order
        /\ IsFiniteSet(M) /\ M \subseteq Payments /\ Ordered(s, M, o)
  BY <1>0, InOrderIs
<1>3. Walked /\ page \in Nat \ {0} /\ counted \in Nat /\ got \in Seq(Payments)
  BY <1>1 DEF PageInv, Walked
<1>4. PICK n \in Nat \ {0} : n = page
  BY <1>3
<1>5. PICK a \in Nat, b \in Nat :
        a = (n - 1) * PageSize /\ b = n * PageSize /\ a <= b
  BY PageEnds
<1>6. PICK r \in Seq(Payments) :
        /\ r = PageOf(s, n) /\ IsInjective(r)
        /\ \A q : q \in ToSet(r) <=> q \in M /\ a <= Rank(M, o, q) /\ Rank(M, o, q) < b
  BY <1>2, <1>5, PageIs
<1>7. PICK g \in Seq(Payments) : g = got
  BY <1>3
<1>8. /\ got' = g \o r /\ g \o r \in Seq(Payments) /\ ToSet(g \o r) = ToSet(g) \cup ToSet(r)
      /\ IsInjective(g) /\ IsInjective(r) /\ ToSet(g) \cap ToSet(r) = {} => IsInjective(g \o r)
  BY <1>1, <1>2, <1>4, <1>6, <1>7, ConcatIs
<1>9. PagesRead * PageSize = a /\ PagesRead' * PageSize = b
  <2>1. PagesRead = n - 1 /\ PagesRead' = n
    BY <1>1, <1>4 DEF PagesRead
  <2> QED
    BY <1>5, <2>1
<1>10. \A q : Rank(M, o, q) \in Nat
  BY <1>2, RankType
<1>11. /\ Matching(payment)' = M /\ list'.order = o
       /\ \A q : Rank(Matching(payment), list.order, q) = Rank(M, o, q)
       /\ \A q : Rank(Matching(payment), list.order, q)' = Rank(M, o, q)
  BY <1>1, <1>2 DEF Matching, Matches, Rank, Before
<1>12. ASSUME left = {} PROVE \A q \in first : q \in M /\ (Rank(M, o, q) < b => q \in ToSet(g \o r))
  <2>1. \A q \in first : q \in M /\ (Rank(M, o, q) < a => q \in ToSet(g))
    BY <1>2, <1>3, <1>7, <1>9, <1>11, <1>12 DEF Walked
  <2> QED
    BY <1>5, <1>6, <1>8, <1>10, <2>1
<1>13. ASSUME ~Joined
       PROVE  IsInjective(g \o r) /\ \A q \in ToSet(g \o r) : Rank(M, o, q) < b
  <2>1. IsInjective(g) /\ \A q \in ToSet(g) : Rank(M, o, q) < a
    BY <1>3, <1>7, <1>9, <1>11, <1>13 DEF Walked
  <2>2. ToSet(g) \cap ToSet(r) = {}
    BY <1>5, <1>6, <1>10, <2>1
  <2>3. \A q \in ToSet(g \o r) : Rank(M, o, q) < b
    BY <1>5, <1>6, <1>8, <1>10, <2>1
  <2> QED
    BY <1>6, <1>8, <2>1, <2>2, <2>3
<1>14. ASSUME left = {}, ~Squeezed, page >= TotalPages PROVE first \subseteq ToSet(g \o r)
  <2>1. counted <= b
    <3>1. n >= (counted + PageSize - 1) \div PageSize
      BY <1>4, <1>14 DEF TotalPages
    <3> QED
      BY <1>3, <1>4, <1>5, <3>1, LastPage
  <2>2. \A q \in first : Rank(M, o, q) < counted
    BY <1>1, <1>3, <1>11, <1>14 DEF Walked
  <2> QED
    BY <1>3, <1>5, <1>10, <1>12, <1>14, <2>1, <2>2
<1>15. page' \in Nat /\ page' >= 1 /\ reading' \in {"count", "end"}
  BY <1>1, <1>3
<1>16. /\ left' = left /\ first' = first /\ (Joined' <=> Joined) /\ (Squeezed' <=> Squeezed)
  BY <1>1 DEF Joined, Squeezed
<1>17. left' = {} =>
         /\ first' \subseteq Matching(payment)'
         /\ \A q \in first' :
              Rank(Matching(payment), list.order, q)' < PagesRead' * PageSize => q \in ToSet(got')
  BY <1>8, <1>9, <1>11, <1>12, <1>16
<1>18. ~Joined' =>
         /\ IsInjective(got')
         /\ \A q \in ToSet(got') :
              Rank(Matching(payment), list.order, q)' < PagesRead' * PageSize
  BY <1>8, <1>9, <1>11, <1>13, <1>16
<1>19. left' = {} /\ ~Squeezed' /\ reading' = "end" => first' \subseteq ToSet(got')
  BY <1>1, <1>8, <1>14, <1>16
<1>20. Walked'
  BY <1>15, <1>17, <1>18, <1>19 DEF Walked
<1> QED
  BY <1>1, <1>3, <1>8, <1>15, <1>20 DEF PageInv

\* A walk is forgotten.
LEMMA EndWalks == ASSUME PageInv, EndWalk, payment' = payment PROVE PageInv'
<1>1. <<>> \in Seq(Payments)
  OBVIOUS
<1> QED
  BY <1>1 DEF PageInv, EndWalk, Joined, Squeezed

\* A change of the book keeps the statuses what they are.
LEMMA StatusesTyped ==
  ASSUME payment \in [Payments -> ApprovalStatuses],
         ChangePayments \/ (\E c \in Contracts : OpenContract(c)) \/ TurnDay
  PROVE  payment' \in [Payments -> ApprovalStatuses]
<1>1. CASE ChangePayments
  BY <1>1 DEF ChangePayments, InsertPayment, ReviewPayment
<1>2. CASE (\E c \in Contracts : OpenContract(c)) \/ TurnDay
  BY <1>2 DEF OpenContract, TurnDay
<1> QED
  BY <1>1, <1>2

\* A payment made or reviewed, seen from the walk.
LEMMA BookTurnsWalk == ASSUME PageInv, BookTurns PROVE PageInv'
<1>1. /\ UNCHANGED <<reading, list, page, counted, got, first>>
      /\ left' = left \cup (Matching(payment) \ Matching(payment'))
  BY DEF BookTurns
<1>2. PICK M : M = Matching(payment) /\ IsFiniteSet(M) /\ M \subseteq Payments
  BY InOrderIs
<1>3. PICK N : N = Matching(payment') /\ IsFiniteSet(N) /\ N \subseteq Payments
  BY InOrderIs
<1>4. PICK o : o = list.order
  OBVIOUS
<1>5. /\ Matching(payment)' = N /\ list'.order = o /\ PagesRead' = PagesRead
      /\ \A q : Rank(Matching(payment), list.order, q) = Rank(M, o, q)
      /\ \A q : Rank(Matching(payment), list.order, q)' = Rank(N, o, q)
      /\ TotalPages' = TotalPages
  BY <1>1, <1>2, <1>3, <1>4 DEF Matching, Matches, Rank, Before, PagesRead, TotalPages
<1>6. payment' \in [Payments -> ApprovalStatuses]
  BY StatusesTyped DEF PageInv, BookTurns
<1>7. /\ joined' \in BOOLEAN /\ squeezed' \in BOOLEAN
      /\ ~Joined' => ~Joined /\ ~\E p \in Payments : JoinsAhead(p, ToSet(got))
      /\ Joined' => Joined \/ \E p \in Payments : JoinsAhead(p, ToSet(got))
  BY DEF BookTurns, PageInv, Joined
<1>8. /\ ~Squeezed' => ~Squeezed
      /\ ~Squeezed' /\ reading = "rows" /\ page >= TotalPages =>
           ~\E p \in Payments : JoinsAhead(p, M)
      /\ Squeezed' => Squeezed \/ reading = "rows"
  BY <1>2 DEF BookTurns, PageInv, Squeezed
<1>9. /\ \A q : Rank(M, o, q) \in Nat /\ Rank(N, o, q) \in Nat
      /\ M \subseteq N => \A q : Rank(M, o, q) <= Rank(N, o, q)
  <2>1. \A q : M \subseteq N => Before(M, o, q) \subseteq Before(N, o, q)
    BY DEF Before
  <2> QED
    BY <1>2, <1>3, <2>1, RankType
<1>10. ASSUME NEW rows, NEW q \in rows, ~\E p \in Payments : JoinsAhead(p, rows)
       PROVE  Rank(N, o, q) <= Rank(M, o, q)
  <2>1. Before(N, o, q) \subseteq Before(M, o, q)
    BY <1>2, <1>3, <1>4, <1>10 DEF Before, JoinsAhead, Ahead
  <2> QED
    BY <1>2, <1>3, <2>1, RankType
<1>11. CASE reading = "idle"
  <2>1. M = {} /\ N = {}
    BY <1>2, <1>3, <1>11 DEF PageInv, Matching, Matches, NoList
  <2>2. ~\E p \in Payments : JoinsAhead(p, ToSet(got))
    BY <1>3, <2>1 DEF JoinsAhead
  <2>3. left' = {} /\ ~Joined' /\ ~Squeezed'
    BY <1>1, <1>2, <1>3, <1>7, <1>8, <1>11, <2>1, <2>2 DEF PageInv
  <2> QED
    BY <1>1, <1>6, <1>7, <1>11, <2>3 DEF PageInv
<1>12. CASE reading # "idle"
  <2>1. Walked
    BY <1>12 DEF PageInv
  <2>2. ASSUME left' = {} PROVE left = {} /\ M \subseteq N /\ first \subseteq M
    BY <1>1, <1>2, <1>3, <2>1, <2>2 DEF Walked
  <2>3. PICK K \in Int : K = PagesRead * PageSize
    <3>1. page \in Nat /\ PageSize \in Nat
      BY <2>1, PagesAssumption DEF Walked
    <3>2. PagesRead \in Int
      BY <3>1 DEF PagesRead
    <3> QED
      BY <3>1, <3>2
  <2>4. PagesRead' * PageSize = K
    BY <1>5, <2>3
  <2>5. ASSUME left' = {}
        PROVE  /\ first' \subseteq Matching(payment)'
               /\ \A q \in first' :
                    Rank(Matching(payment), list.order, q)' < PagesRead' * PageSize
                      => q \in ToSet(got')
    <3>1. \A q \in first : Rank(M, o, q) < K => q \in ToSet(got)
      BY <1>5, <2>1, <2>2, <2>3, <2>5 DEF Walked
    <3>2. \A q : Rank(M, o, q) <= Rank(N, o, q)
      BY <1>9, <2>2, <2>5
    <3>3. \A q \in first : Rank(N, o, q) < K => q \in ToSet(got)
      BY <1>9, <3>1, <3>2
    <3> QED
      BY <1>1, <1>5, <2>2, <2>4, <2>5, <3>3
  <2>6. ASSUME ~Joined'
        PROVE  /\ IsInjective(got')
               /\ \A q \in ToSet(got') :
                    Rank(Matching(payment), list.order, q)' < PagesRead' * PageSize
    <3>1. IsInjective(got) /\ \A q \in ToSet(got) : Rank(M, o, q) < K
      BY <1>5, <1>7, <2>1, <2>3, <2>6 DEF Walked
    <3>2. \A q \in ToSet(got) : Rank(N, o, q) <= Rank(M, o, q)
      BY <1>7, <1>10, <2>6
    <3>3. \A q \in ToSet(got) : Rank(N, o, q) < K
      BY <1>9, <3>1, <3>2
    <3> QED
      BY <1>1, <1>5, <2>4, <3>1, <3>3
  <2>7. ASSUME left' = {}, ~Squeezed', reading' = "rows", page' >= TotalPages'
        PROVE  \A q \in first' : Rank(Matching(payment), list.order, q)' < counted'
    <3>1. reading = "rows" /\ page >= TotalPages /\ ~Squeezed
      BY <1>1, <1>5, <1>8, <2>7
    <3>2. \A q \in first : q \in M /\ Rank(M, o, q) < counted
      BY <1>5, <2>1, <2>2, <2>7, <3>1 DEF Walked
    <3>3. \A q \in M : Rank(N, o, q) <= Rank(M, o, q)
      BY <1>8, <1>10, <2>7, <3>1
    <3>4. counted \in Nat
      BY DEF PageInv
    <3>5. \A q \in first : Rank(N, o, q) < counted
      BY <1>9, <3>2, <3>3, <3>4
    <3> QED
      BY <1>1, <1>5, <3>5
  <2>8. ASSUME left' = {}, ~Squeezed', reading' = "end" PROVE first' \subseteq ToSet(got')
    BY <1>1, <1>8, <2>1, <2>2, <2>8 DEF Walked
  <2>9. page' \in Nat /\ page' >= 1
    BY <1>1, <2>1 DEF Walked
  <2>10. Walked'
    BY <2>5, <2>6, <2>7, <2>8, <2>9 DEF Walked
  <2> QED
    BY <1>1, <1>6, <1>7, <1>12, <2>10 DEF PageInv
<1> QED
  BY <1>11, <1>12

\* Elsewhere nobody walks.
Walking == scene # "list" => reading = "idle"

\* Nobody walks yet.
LEMMA PagesBegin == ApiInit => PageInv /\ Walking
<1> SUFFICES ASSUME ApiInit PROVE PageInv /\ Walking
  OBVIOUS
<1>1. payment \in [Payments -> ApprovalStatuses]
  BY TablesAssumption DEF ApiInit, BookInit
<1>2. <<>> \in Seq(Payments)
  OBVIOUS
<1> QED
  BY <1>1, <1>2 DEF ApiInit, PagesInit, PageInv, Walking, Joined, Squeezed

\* Every step of a behaviour keeps what the walk has shown.
LEMMA PagesGoOn == PageInv /\ Walking /\ [ApiNext]_apiVars => PageInv' /\ Walking'
<1> SUFFICES ASSUME PageInv, Walking, [ApiNext]_apiVars PROVE PageInv' /\ Walking'
  OBVIOUS
<1>1. ASSUME UNCHANGED <<payment, pageVars, scene>> PROVE PageInv' /\ Walking'
  <2>1. UNCHANGED <<payment, scene, reading, list, page, counted, got, first, left, joined, squeezed>>
    BY <1>1 DEF pageVars
  <2>2. Walked' = Walked
    BY <2>1 DEF Walked, Joined, Squeezed, PagesRead, Matching, Matches, Rank, Before, TotalPages
  <2> QED
    BY <2>1, <2>2 DEF PageInv, Walking, Joined, Squeezed
<1>2. CASE UNCHANGED apiVars
  BY <1>1, <1>2 DEF apiVars, bookVars
<1>3. CASE CallAccounts \/ Talk \/ LimitRequests
  <2>1. UNCHANGED <<bookVars, pageVars>> \/ ~ApiNext
    BY <1>3 DEF CallAccounts, Talk, LimitRequests
  <2> QED
    BY <1>1, <1>2, <2>1 DEF ApiNext, bookVars
<1>4. CASE Analyse /\ ApiNext
  <2>1. /\ scene # "list" /\ scene' = scene
        /\ UNCHANGED <<reading, list, page, counted, got, first, left, joined, squeezed>>
    BY <1>4 DEF Analyse, ApiNext, pageVars
  <2>2. payment' \in [Payments -> ApprovalStatuses]
    <3>1. UNCHANGED bookVars \/ BookMoves
      BY <1>4 DEF Analyse, JobsNext, AdviceNext
    <3> QED
      BY <3>1, StatusesTyped DEF bookVars, BookMoves, PageInv
  <2> QED
    BY <2>1, <2>2 DEF PageInv, Walking, Joined, Squeezed
<1>5. CASE ListPayments /\ ApiNext
  <2>1. scene = "list" /\ scene' = scene /\ PagesNext
    BY <1>5 DEF ListPayments, ApiNext
  <2>2. CASE (BeginWalk \/ CountRows \/ FetchRows \/ EndWalk) /\ UNCHANGED bookVars
    <3>1. payment' = payment
      BY <2>2 DEF bookVars
    <3> QED
      BY <2>1, <2>2, <3>1, BeginWalks, CountWalks, FetchWalks, EndWalks DEF Walking
  <2>3. CASE BookTurns
    BY <2>1, <2>3, BookTurnsWalk DEF Walking
  <2> QED
    BY <2>1, <2>2, <2>3 DEF PagesNext
<1> QED
  BY <1>2, <1>3, <1>4, <1>5 DEF ApiNext

\* Whatever is paid and reviewed while a client turns the pages, and for any page size and any
\* number of payments: a walk that none of the rows has left, and that none has pushed on under
\* the last page, has shown every row that was there when it began, and shows a row
\* twice only if another one came in ahead of it.
THEOREM WalksAreComplete == ApiSpec => []WalkIsComplete
<1>1. PageInv => WalkIsComplete
  BY DEF PageInv, Walked, WalkIsComplete, Joined, Squeezed
<1> QED
  BY <1>1, PagesBegin, PagesGoOn, PTL DEF ApiSpec

=============================================================================

SPECIFICATION ApiSpec
CONSTANTS
  c1 = c1  c2 = c2  c3 = c3
  Callers = {c1, c2, c3}
  Emails = {e1, e2, e3}
  Passwords = {p1, p2}
  Codes = {r1}
  Asks <- TheAsks
  Salts = {salt}
  Registered <- TheRegistered
  NoDate = NoDate
  Today = 5
  Lifetime = 1
  MaxHour = 1
  MaxErrors = 1
  e1 = e1  e2 = e2  e3 = e3  p1 = p1  p2 = p2  r1 = r1  salt = salt
  t1 = t1  t2 = t2  s1 = s1  s2 = s2  a1 = a1  u1 = u1  u2 = u2  q1 = q1  q2 = q2  q3 = q3
  Users = {u1, u2}
  Writers = {t1, t2, s1, s2, a1}
  Turns = {t1, t2}
  Sayings <- TheSayings
  HistoryLimit = 1
  MaxTogether = 2
  MaxFailures = 1
  Replicas = {s1, s2}
  Advisors = {a1}
  Nobody = Nobody
  MaxAnalyses = 2
  MaxFaults = 1
  MaxJobChanges = 1
  Contracts = {1, 2, 3}
  ContractOwner <- TheContractOwner
  Total <- TheTotal
  Daily <- TheDaily
  Start <- TheStart
  LateContracts = {3}
  FirstDay = 5
  PaymentRow <- TheRows
  Tables <- TheTables
  AnalysedTables <- TheAnalysedTables
  MaxChanges = 2
  Lists <- TheLists
  PageSize = 1
  Requests = {q1, q2, q3}
  Addresses = {k1, k2}
  Nowhere = Nowhere
  Limit = 1
  Window = 2
  MaxClock = 2
SYMMETRY Symmetry
INVARIANT AnswersAreTrue
INVARIANT RememberedOnce
INVARIANT OneConversation
INVARIANT HistoryIsWhole
INVARIANT OnlyTheAppWrites
INVARIANT RepliesAreOnRecord
INVARIANT ReportsBracketed
INVARIANT RisksOnce
INVARIANT FailuresIsolated
INVARIANT WalkIsComplete
INVARIANT WindowHolds
CHECK_DEADLOCK FALSE

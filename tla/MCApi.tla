---------------------------------- MODULE MCApi ----------------------------------
(* Bounds for model checking Api: three requests about accounts, of two users and a       *)
(* stranger, with one reference code; two messages of one user, who may be confirming,   *)
(* cancelling, asking or telling; two users, one with three contracts, the last entered   *)
(* late, and three payments that confirm, overpay and leave gaps; lists of both kinds,     *)
(* one row per page.                                                                      *)
EXTENDS Api, TLC

CONSTANTS c1, c2, c3, e1, e2, e3, p1, p2, r1, salt, t1, t2, s1, s2, a1, u1, u2, q1, q2, q3

TheRegistered == <<<<e1, p1, salt>>, <<e2, p2, salt>>>>

Form(daily, start, end) ==
  [code |-> r1, total |-> 100, daily |-> daily, start |-> start, end |-> end]

TheAsks ==
  [what : {"register"}, email : {e3}, password : {p1, p2}]
  \cup [what : {"login"}, email : {e1, e3}, password : {p1}]
  \cup [what : {"create"}, form : {Form(100, 5, NoDate), Form(50, 5, 5)}]
  \cup [what : {"show"}, contract : {1}]

TheSayings ==
  [channel : Channels, user : {u1}, word : {"yes"}, cues : {{}}, text : {1}]
  \cup [channel : {"whatsapp"}, user : {u1}, word : {"no"}, cues : {{}}, text : {1}]
  \cup [channel : {"http"}, user : {u1}, word : {"text"}, cues : {{"goal"}}, text : {1}]

\* The first two contracts begin one and five days before the analyses, the third, entered
\* late, on the day before them.
TheContractOwner == (1 :> u1) @@ (2 :> u1) @@ (3 :> u1)
TheTotal == <<100, 100, 100>>
TheDaily == <<50, 50, 50>>
TheStart == <<4, 0, 4>>

TheRows ==
  <<[contract |-> 2, amount |-> 110, day |-> 1], [contract |-> 1, amount |-> 60, day |-> 5],
    [contract |-> 1, amount |-> 35, day |-> 9]>>

\* Two payments eight days apart: irregular until the one between them is confirmed.
TheAnalysedTables == {<<"APPROVED", "PENDING", "APPROVED">>}

TheTables ==
  TheAnalysedTables
  \cup {<<"APPROVED", "PENDING", "ABSENT">>, <<"PENDING", "APPROVED", "APPROVED">>}

History(of) == [of |-> of, statuses |-> {"PENDING", "APPROVED", "REJECTED"}]
Queue(of, status) == [of |-> of, statuses |-> {status}]

TheLists == {History({1}), Queue({1, 2}, "PENDING"), Queue({1, 2}, "APPROVED")}

\* Turns and replicas are interchangeable; no liveness is checked.
Symmetry == Permutations(Turns) \cup Permutations(Replicas)

=============================================================================

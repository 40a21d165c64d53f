--------------------------------- MODULE RateLimit ---------------------------------
(***************************************************************************)
(* The limiter in front of login, registration and the webhook              *)
(* (app/core/rate_limit.py): per scope and client address, the moments of     *)
(* the requests let through in the last window.                             *)
(*                                                                         *)
(* The dependency is synchronous, so FastAPI calls it on threads of its pool, *)
(* and the buckets have no lock: threads interleave between any two reads     *)
(* and writes of a bucket. The buckets die with the process.                 *)
(***************************************************************************)
EXTENDS Integers, Sequences, FiniteSets

CONSTANTS
  Requests,
  Addresses,   \* scope:ip
  Nowhere,
  Limit, Window,
  MaxClock     \* bound

ASSUME LimiterAssumption ==
  /\ Nowhere \notin Addresses
  /\ Limit \in Nat /\ Window \in Nat \ {0} /\ MaxClock \in Nat

VARIABLES
  clock,     \* time.monotonic()
  bucket,    \* the moments kept per address, oldest first
  doing,     \* where a request is in allow(), or what became of it
  from,      \* its address
  now,       \* the moment it took on entering
  \* what happened
  raced      \* addresses of which two requests were in allow() together

limiterVars == <<clock, bucket, doing, from, now, raced>>

Inside == {"purge", "peek", "pop", "check", "append"}

LimiterTypeOK ==
  /\ clock \in Nat
  /\ bucket \in [Addresses -> Seq(Nat)]
  /\ doing \in [Requests -> Inside \cup {"waiting", "accepted", "refused", "error", "forgotten"}]
  /\ from \in [Requests -> Addresses \cup {Nowhere}]
  /\ now \in [Requests -> Nat]
  /\ raced \subseteq Addresses

LimiterInit ==
  /\ clock = 0
  /\ bucket = [k \in Addresses |-> <<>>]
  /\ doing = [r \in Requests |-> "waiting"]
  /\ from = [r \in Requests |-> Nowhere]
  /\ now = [r \in Requests |-> 0]
  /\ raced = {}

-----------------------------------------------------------------------------
Go(r, next) == doing' = [doing EXCEPT ![r] = next]

Bucket(r) == bucket[from[r]]

\* The moment is taken first; what is older than the cutoff does not count.
Stale(r, moment) == moment <= now[r] - Window

Enter(r) ==
  /\ doing[r] = "waiting"
  /\ Go(r, "purge")
  /\ now' = [now EXCEPT ![r] = clock]
  /\ \E k \in Addresses :
        /\ from' = [from EXCEPT ![r] = k]
        /\ raced' = raced \cup {j \in {k} : \E q \in Requests : doing[q] \in Inside /\ from[q] = j}
  /\ UNCHANGED <<clock, bucket>>

\* The two halves of "while bucket and bucket[0] <= cutoff".
SeeBucket(r) ==
  /\ doing[r] = "purge"
  /\ Go(r, IF Bucket(r) = <<>> THEN "check" ELSE "peek")
  /\ UNCHANGED <<clock, bucket, from, now, raced>>

SeeOldest(r) ==
  /\ doing[r] = "peek"
  /\ \/ Bucket(r) = <<>> /\ Go(r, "error")
     \/ Bucket(r) # <<>> /\ Stale(r, Head(Bucket(r))) /\ Go(r, "pop")
     \/ Bucket(r) # <<>> /\ ~Stale(r, Head(Bucket(r))) /\ Go(r, "check")
  /\ UNCHANGED <<clock, bucket, from, now, raced>>

\* Whatever is the oldest by then; an IndexError if another thread was faster.
PopOldest(r) ==
  /\ doing[r] = "pop"
  /\ \/ Bucket(r) = <<>> /\ Go(r, "error") /\ UNCHANGED bucket
     \/ /\ Bucket(r) # <<>> /\ Go(r, "purge")
        /\ bucket' = [bucket EXCEPT ![from[r]] = Tail(@)]
  /\ UNCHANGED <<clock, from, now, raced>>

\* A mutation of CheckLimit: the limit itself is let through.
CheckLimitLate(r) ==
  /\ doing[r] = "check"
  /\ Go(r, IF Len(Bucket(r)) > Limit THEN "refused" ELSE "append")
  /\ UNCHANGED <<clock, bucket, from, now, raced>>

CheckLimit(r) ==
  /\ doing[r] = "check"
  /\ Go(r, IF Len(Bucket(r)) >= Limit THEN "refused" ELSE "append")
  /\ UNCHANGED <<clock, bucket, from, now, raced>>

AppendMoment(r) ==
  /\ doing[r] = "append"
  /\ Go(r, "accepted")
  /\ bucket' = [bucket EXCEPT ![from[r]] = Append(@, now[r])]
  /\ UNCHANGED <<clock, from, now, raced>>

Tick ==
  /\ clock < MaxClock /\ clock' = clock + 1
  /\ UNCHANGED <<bucket, doing, from, now, raced>>

\* Requests inside die with the process, and what it let through counts no more.
Restart ==
  /\ bucket' = [k \in Addresses |-> <<>>]
  /\ doing' = [r \in Requests |-> IF doing[r] = "waiting" THEN "waiting" ELSE "forgotten"]
  /\ UNCHANGED <<clock, from, now>>
  /\ raced' = {}

Allow(r) ==
  \/ Enter(r) \/ SeeBucket(r) \/ SeeOldest(r) \/ PopOldest(r) \/ CheckLimit(r)
  \/ AppendMoment(r)

LimiterNext == (\E r \in Requests : Allow(r)) \/ Tick \/ Restart

-----------------------------------------------------------------------------
(* Properties *)

\* The requests of the same address let through in the window that ends with r.
LetThrough(r) ==
  {q \in Requests : /\ doing[q] = "accepted" /\ from[q] = from[r]
                    /\ now[q] <= now[r] /\ ~Stale(r, now[q])}

\* As long as the requests of an address come one at a time, no window holds more than
\* the limit, none is refused in a window that holds less, and none ends in
\* an error. Together they may: two that have both passed the check, a moment popped
\* twice, a pop of an empty bucket.
WindowHolds ==
  \A r \in Requests :
    from[r] \notin raced =>
      /\ doing[r] # "error"
      /\ doing[r] = "accepted" => Cardinality(LetThrough(r)) <= Limit
      /\ doing[r] = "refused" => Cardinality(LetThrough(r)) = Limit

=============================================================================

---------------------------- MODULE RateLimiter ----------------------------
(***************************************************************************)
(* _AdminRateLimiter: the token buckets in front of /v0/admin/*.            *)
(*                                                                         *)
(* The lock's body has no await, so a request is one step.  A bucket is     *)
(* stored with the time it was last brought up to date; tokens are counted  *)
(* in the clock's ticks (a token is the Cost ticks that refill it).  The    *)
(* clock is time.monotonic and never goes back.                            *)
(***************************************************************************)
EXTENDS Integers, FiniteSets

CONSTANTS
    Keys,           \* client keys: X-Forwarded-For or the peer's address
    Cap,            \* capacity, in ticks: rate_burst / refill_per_sec
    Cost,           \* one token, in ticks: 1 / refill_per_sec
    BucketMax,      \* ADMIN_RATE_BUCKET_MAX
    Horizon         \* bound: the last tick

ASSUME RateAssumption ==
    /\ Cap \in Nat \ {0} /\ Cost \in Nat \ {0}
    /\ BucketMax \in Nat /\ Horizon \in Nat
    /\ "nobody" \notin Keys

VARIABLES
    now,            \* time.monotonic()
    stored,         \* the keys of _buckets
    tokens, last,   \* _buckets[k], while k is stored
    verdict,        \* the last answer: who asked, and was it let pass
    since, spent    \* history: a mark, and the tokens granted after it
vars == <<now, stored, tokens, last, verdict, since, spent>>

NoVerdict == [key |-> "nobody", granted |-> FALSE]

TypeOK ==
    /\ now \in 0 .. Horizon /\ since \in 0 .. now
    /\ stored \subseteq Keys
    /\ tokens \in [Keys -> 0 .. Cap]
    /\ last \in [Keys -> 0 .. now]
    /\ verdict \in [key : Keys \cup {"nobody"}, granted : BOOLEAN]
    /\ spent \in [Keys -> Nat]

Init ==
    /\ now = 0 /\ since = 0
    /\ stored = {}
    /\ tokens = [k \in Keys |-> 0] /\ last = [k \in Keys |-> 0]
    /\ verdict = NoVerdict
    /\ spent = [k \in Keys |-> 0]

AtMostCap(x) == IF x > Cap THEN Cap ELSE x

(* What the bucket of k holds now; a client never seen has a full one.      *)
Refilled(k) ==
    IF k \in stored THEN AtMostCap(tokens[k] + (now - last[k])) ELSE Cap

(* Mutants, here and below, are what a slip in the code would make of the    *)
(* definition that follows; no run uses them.  Here: half the time to refill. *)
IdleEarly == {k \in stored : 2 * (now - last[k]) > Cap}

Idle == {k \in stored : last[k] < now - Cap}

(* _evict_idle runs before the insertion, on a grant, and only when the     *)
(* dictionary is already over its limit.                                   *)
Kept == IF Cardinality(stored) > BucketMax THEN stored \ Idle ELSE stored

(* Mutant: the bucket is brought up to date but its time stays.             *)
StoreUntimed(k, amount) ==
    /\ tokens' = [tokens EXCEPT ![k] = amount]
    /\ last' = [last EXCEPT ![k] = IF k \in stored THEN @ ELSE now]

Store(k, amount) ==
    /\ tokens' = [tokens EXCEPT ![k] = amount]
    /\ last' = [last EXCEPT ![k] = now]

Grant(k) ==
    /\ Refilled(k) >= Cost
    /\ stored' = Kept \cup {k}
    /\ Store(k, Refilled(k) - Cost)
    /\ verdict' = [key |-> k, granted |-> TRUE]
    /\ spent' = [spent EXCEPT ![k] = @ + Cost]
    /\ UNCHANGED <<now, since>>

(* A refusal stores the bucket as well: the answer is 429.                  *)
Deny(k) ==
    /\ Refilled(k) < Cost
    /\ stored' = stored \cup {k}
    /\ Store(k, Refilled(k))
    /\ verdict' = [key |-> k, granted |-> FALSE]
    /\ UNCHANGED <<now, since, spent>>

Consume(k) == Grant(k) \/ Deny(k)

Wait(d) ==
    /\ now + d <= Horizon
    /\ now' = now + d
    /\ verdict' = NoVerdict
    /\ UNCHANGED <<stored, tokens, last, since, spent>>

(* An observer begins to count.                                            *)
Observe ==
    /\ since' = now
    /\ spent' = [k \in Keys |-> 0]
    /\ UNCHANGED <<now, stored, tokens, last, verdict>>

Next ==
    \/ \E k \in Keys : Consume(k)
    \/ \E d \in 1 .. Horizon : Wait(d)
    \/ Observe

Spec == Init /\ [][Next]_vars

-----------------------------------------------------------------------------
(* The limiter is a token bucket per key: storing lazily, storing refusals  *)
(* and evicting (core.py:1283) are invisible to every client.               *)
Bucket == INSTANCE TokenBucket WITH credit <- [k \in Keys |-> Refilled(k)]
BucketSpec == Bucket!BucketSpec

(* Between any two instants a client is granted at most the capacity and    *)
(* what that time refills, evictions of its bucket included (core.py:1292). *)
RateBounded == \A k \in Keys : spent[k] <= Cap + (now - since)
=============================================================================

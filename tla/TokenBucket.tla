---------------------------- MODULE TokenBucket ----------------------------
(***************************************************************************)
(* What a rate limit promises its clients, whatever the implementation      *)
(* stores: every key has a credit that grows with time up to Cap, a request *)
(* is granted exactly if the credit covers Cost, and what it takes is gone. *)
(* Credit is measured in the time it takes to earn it.                     *)
(***************************************************************************)
EXTENDS Integers

CONSTANTS Keys, Cap, Cost, Horizon

VARIABLES
    now,            \* the clock
    credit,         \* what each key may still spend
    verdict,        \* the last request and its outcome, until time passes
    since, spent    \* an observer's mark, and what was granted after it

bucketVars == <<now, credit, verdict, since, spent>>

NoVerdict == [key |-> "nobody", granted |-> FALSE]

BucketInit ==
    /\ now = 0
    /\ credit = [k \in Keys |-> Cap]
    /\ verdict = NoVerdict
    /\ since = 0
    /\ spent = [k \in Keys |-> 0]

AtMostCap(x) == IF x > Cap THEN Cap ELSE x

Elapse(d) ==
    /\ now + d <= Horizon
    /\ now' = now + d
    /\ credit' = [k \in Keys |-> AtMostCap(credit[k] + d)]
    /\ verdict' = NoVerdict
    /\ UNCHANGED <<since, spent>>

Take(k) ==
    /\ credit[k] >= Cost
    /\ credit' = [credit EXCEPT ![k] = @ - Cost]
    /\ spent' = [spent EXCEPT ![k] = @ + Cost]
    /\ verdict' = [key |-> k, granted |-> TRUE]
    /\ UNCHANGED <<now, since>>

Refuse(k) ==
    /\ credit[k] < Cost
    /\ verdict' = [key |-> k, granted |-> FALSE]
    /\ UNCHANGED <<now, credit, since, spent>>

Mark ==
    /\ since' = now
    /\ spent' = [k \in Keys |-> 0]
    /\ UNCHANGED <<now, credit, verdict>>

BucketNext ==
    \/ \E d \in 1 .. Horizon : Elapse(d)
    \/ \E k \in Keys : Take(k) \/ Refuse(k)
    \/ Mark

BucketSpec == BucketInit /\ [][BucketNext]_bucketVars
=============================================================================

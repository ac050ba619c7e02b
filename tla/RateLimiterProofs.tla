------------------------- MODULE RateLimiterProofs -------------------------
(***************************************************************************)
(* The rate limiter implements a token bucket per key, and bounds what any  *)
(* key is granted, for every capacity, price, limit and set of keys.        *)
(* Everything rests on what one step does to Refilled: time adds to it at   *)
(* most what has passed, an eviction does not change it, a grant takes      *)
(* Cost.                                                                   *)
(***************************************************************************)
EXTENDS RateLimiter, TLAPS

(* What is in a bucket and what was taken from it never exceed what the     *)
(* mark started with and what time has added.                              *)
Credited == \A k \in Keys : spent[k] + Refilled(k) <= Cap + (now - since)

RateInv == TypeOK /\ Credited

\* A bucket never holds more than its burst.
LEMMA RefilledType ==
    ASSUME TypeOK, NEW k \in Keys
    PROVE  Refilled(k) \in 0 .. Cap
<1>1. tokens[k] \in 0 .. Cap /\ last[k] \in 0 .. now /\ now \in Nat
  BY DEF TypeOK
<1> QED BY <1>1, RateAssumption DEF Refilled, AtMostCap

(* Evicted buckets were full.                                              *)
LEMMA KeptSame ==
    ASSUME TypeOK, NEW k \in stored \ Kept
    PROVE  Refilled(k) = Cap
<1>1. k \in Keys /\ tokens[k] \in 0 .. Cap /\ last[k] \in 0 .. now /\ now \in Nat
  BY DEF TypeOK
<1>2. k \in stored /\ last[k] < now - Cap
  BY DEF Kept, Idle
<1> QED BY <1>1, <1>2, RateAssumption DEF Refilled, AtMostCap

(* A request changes the bucket of its own key only.                        *)
LEMMA ConsumeOthers ==
    ASSUME TypeOK, NEW k \in Keys, Consume(k), NEW j \in Keys, j # k
    PROVE  Refilled(j)' = Refilled(j)
<1>1. now' = now /\ tokens'[j] = tokens[j] /\ last'[j] = last[j]
  BY DEF TypeOK, Consume, Grant, Deny, Store
<1>2. CASE Grant(k)
  <2>1. CASE j \in Kept
    <3>1. j \in stored /\ j \in stored'
      BY <1>2, <2>1 DEF Grant, Kept
    <3> QED BY <1>1, <3>1 DEF Refilled
  <2>2. CASE j \notin Kept
    <3>1. j \notin stored' /\ Refilled(j)' = Cap
      BY <1>2, <2>2 DEF Grant, Refilled
    <3>2. Refilled(j) = Cap
      BY <2>2, KeptSame DEF Refilled
    <3> QED BY <3>1, <3>2
  <2> QED BY <2>1, <2>2
<1>3. CASE Deny(k)
  <2>1. j \in stored' <=> j \in stored
    BY <1>3 DEF Deny
  <2> QED BY <1>1, <2>1 DEF Refilled
<1> QED BY <1>2, <1>3 DEF Consume

\* What consume takes from a key's bucket.
LEMMA ConsumeOwn ==
    ASSUME TypeOK, NEW k \in Keys
    PROVE  /\ Grant(k) => Refilled(k)' = Refilled(k) - Cost
           /\ Deny(k) => Refilled(k)' = Refilled(k)
<1>1. Refilled(k) \in 0 .. Cap
  BY RefilledType
<1>2. now \in Nat /\ tokens \in [Keys -> 0 .. Cap] /\ last \in [Keys -> 0 .. now]
  BY DEF TypeOK
<1>3. ASSUME Grant(k) PROVE Refilled(k)' = Refilled(k) - Cost
  <2>1. /\ k \in stored' /\ tokens'[k] = Refilled(k) - Cost
        /\ last'[k] = now /\ now' = now /\ Refilled(k) >= Cost
    BY <1>2, <1>3 DEF Grant, Store
  <2> QED BY <1>1, <1>2, <2>1, RateAssumption DEF Refilled, AtMostCap
<1>4. ASSUME Deny(k) PROVE Refilled(k)' = Refilled(k)
  <2>1. /\ k \in stored' /\ tokens'[k] = Refilled(k)
        /\ last'[k] = now /\ now' = now
    BY <1>2, <1>4 DEF Deny, Store
  <2> QED BY <1>1, <1>2, <2>1, RateAssumption DEF Refilled, AtMostCap
<1> QED BY <1>3, <1>4

(* Time refills every bucket alike.                                        *)
LEMMA WaitRefills ==
    ASSUME TypeOK, NEW d \in 1 .. Horizon, Wait(d), NEW k \in Keys
    PROVE  Refilled(k)' = AtMostCap(Refilled(k) + d)
<1>1. /\ now \in Nat /\ tokens[k] \in 0 .. Cap /\ last[k] \in 0 .. now
      /\ d \in Nat /\ now' = now + d
      /\ stored' = stored /\ tokens' = tokens /\ last' = last
  BY RateAssumption DEF TypeOK, Wait
<1>2. CASE k \in stored
  BY <1>1, <1>2, RateAssumption DEF Refilled, AtMostCap
<1>3. CASE k \notin stored
  BY <1>1, <1>3, RateAssumption DEF Refilled, AtMostCap
<1> QED BY <1>2, <1>3

\* Every step keeps the types.
LEMMA TypeInductive == TypeOK /\ [Next]_vars => TypeOK'
<1> SUFFICES ASSUME TypeOK, [Next]_vars PROVE TypeOK'
  OBVIOUS
<1>1. now \in Nat /\ since \in Nat
  BY RateAssumption DEF TypeOK
<1>2. ASSUME NEW k \in Keys, Grant(k) PROVE TypeOK'
  <2>1. Refilled(k) \in 0 .. Cap /\ Refilled(k) - Cost \in 0 .. Cap
    BY <1>2, RefilledType, RateAssumption DEF Grant
  <2>2. /\ tokens' \in [Keys -> 0 .. Cap] /\ last' \in [Keys -> 0 .. now']
        /\ now' = now /\ since' = since
    BY <1>1, <1>2, <2>1 DEF TypeOK, Grant, Store
  <2>3. spent' \in [Keys -> Nat]
    BY <1>2, RateAssumption DEF TypeOK, Grant
  <2>4. stored' \subseteq Keys /\ verdict' \in [key : Keys \cup {"nobody"}, granted : BOOLEAN]
    BY <1>2 DEF TypeOK, Grant, Kept
  <2> QED BY <2>2, <2>3, <2>4 DEF TypeOK
<1>3. ASSUME NEW k \in Keys, Deny(k) PROVE TypeOK'
  <2>1. Refilled(k) \in 0 .. Cap
    BY RefilledType
  <2>2. /\ tokens' \in [Keys -> 0 .. Cap] /\ last' \in [Keys -> 0 .. now']
        /\ now' = now /\ since' = since /\ spent' = spent
    BY <1>1, <1>3, <2>1 DEF TypeOK, Deny, Store
  <2>3. stored' \subseteq Keys /\ verdict' \in [key : Keys \cup {"nobody"}, granted : BOOLEAN]
    BY <1>3 DEF TypeOK, Deny
  <2> QED BY <2>2, <2>3 DEF TypeOK
<1>4. ASSUME NEW d \in 1 .. Horizon, Wait(d) PROVE TypeOK'
  <2>1. now' \in 0 .. Horizon /\ now \in 0 .. now'
    BY <1>1, <1>4, RateAssumption DEF TypeOK, Wait
  <2>2. last' \in [Keys -> 0 .. now'] /\ since' \in 0 .. now'
    BY <1>1, <1>4, <2>1, RateAssumption DEF TypeOK, Wait
  <2> QED BY <1>4, <2>1, <2>2 DEF TypeOK, Wait, NoVerdict
<1>5. CASE Observe
  BY <1>1, <1>5 DEF TypeOK, Observe
<1>6. CASE UNCHANGED vars
  BY <1>6 DEF TypeOK, vars
<1> QED BY <1>2, <1>3, <1>4, <1>5, <1>6 DEF Next, Consume

\* The limiter starts with nothing granted.
LEMMA Initially == Init => RateInv
BY RateAssumption DEF Init, RateInv, TypeOK, Credited, Refilled, NoVerdict

\* Every step keeps what was granted within what was credited.
LEMMA CreditedInductive == RateInv /\ [Next]_vars => Credited'
<1> SUFFICES ASSUME RateInv, [Next]_vars, NEW j \in Keys
             PROVE  spent'[j] + Refilled(j)' <= Cap + (now' - since')
  BY DEF Credited
<1>1. TypeOK /\ spent[j] + Refilled(j) <= Cap + (now - since)
  BY DEF RateInv, Credited
<1>2. /\ now \in Nat /\ since \in Nat /\ spent \in [Keys -> Nat]
      /\ Refilled(j) \in 0 .. Cap /\ Cap \in Nat /\ Cost \in Nat
  BY <1>1, RefilledType, RateAssumption DEF TypeOK
<1>3. ASSUME NEW k \in Keys, Grant(k) PROVE spent'[j] + Refilled(j)' <= Cap + (now' - since')
  <2>1. now' = now /\ since' = since
    BY <1>3 DEF Grant
  <2>2. CASE j = k
    <3>1. spent'[j] = spent[j] + Cost /\ Refilled(j)' = Refilled(j) - Cost
      BY <1>1, <1>2, <1>3, <2>2, ConsumeOwn DEF Grant
    <3> QED BY <1>1, <1>2, <2>1, <3>1
  <2>3. CASE j # k
    <3>1. spent'[j] = spent[j] /\ Refilled(j)' = Refilled(j)
      BY <1>1, <1>2, <1>3, <2>3, ConsumeOthers DEF Grant, Consume
    <3> QED BY <1>1, <2>1, <3>1
  <2> QED BY <2>2, <2>3
<1>4. ASSUME NEW k \in Keys, Deny(k) PROVE spent'[j] + Refilled(j)' <= Cap + (now' - since')
  <2>1. now' = now /\ since' = since /\ spent' = spent
    BY <1>4 DEF Deny
  <2>2. Refilled(j)' = Refilled(j)
    BY <1>1, <1>4, ConsumeOwn, ConsumeOthers DEF Consume
  <2> QED BY <1>1, <2>1, <2>2
<1>5. ASSUME NEW d \in 1 .. Horizon, Wait(d) PROVE spent'[j] + Refilled(j)' <= Cap + (now' - since')
  <2>1. now' = now + d /\ since' = since /\ spent' = spent /\ d \in Nat
    BY <1>5, RateAssumption DEF Wait
  <2>2. Refilled(j)' = AtMostCap(Refilled(j) + d)
    BY <1>1, <1>5, WaitRefills
  <2> QED BY <1>1, <1>2, <2>1, <2>2 DEF AtMostCap
<1>6. CASE Observe
  <2>1. now' = now /\ since' = now /\ spent'[j] = 0 /\ Refilled(j)' = Refilled(j)
    BY <1>6 DEF Observe, Refilled
  <2> QED BY <1>2, <2>1
<1>7. CASE UNCHANGED vars
  <2>1. /\ now' = now /\ since' = since /\ spent' = spent
        /\ Refilled(j)' = Refilled(j)
    BY <1>7 DEF vars, Refilled
  <2> QED BY <1>1, <2>1
<1> QED BY <1>3, <1>4, <1>5, <1>6, <1>7 DEF Next, Consume

\* The invariant holds throughout.
LEMMA RateInductive == Spec => []RateInv
<1>1. RateInv /\ [Next]_vars => RateInv'
  BY TypeInductive, CreditedInductive DEF RateInv
<1> QED BY <1>1, Initially, PTL DEF Spec

\* Whatever keys ask and however they wait, the limiter keeps its types.
THEOREM LimiterTypeCorrect == Spec => []TypeOK
<1>1. RateInv => TypeOK
  BY DEF RateInv
<1> QED BY <1>1, RateInductive, PTL

(* No client gets more than the capacity and the refill of any interval.    *)
THEOREM GrantsBounded == Spec => []RateBounded
<1>1. RateInv => RateBounded
  <2> SUFFICES ASSUME RateInv, NEW k \in Keys
               PROVE  spent[k] <= Cap + (now - since)
    BY DEF RateBounded
  <2>1. /\ Refilled(k) \in 0 .. Cap /\ spent[k] \in Nat /\ Cap \in Nat
        /\ now \in Nat /\ since \in Nat
    BY RefilledType, RateAssumption DEF RateInv, TypeOK
  <2>2. spent[k] + Refilled(k) <= Cap + (now - since)
    BY DEF RateInv, Credited
  <2> QED BY <2>1, <2>2
<1> QED BY <1>1, RateInductive, PTL

-----------------------------------------------------------------------------
(* The refinement: credit is what Refilled computes.                       *)
Credit == [k \in Keys |-> Refilled(k)]

\* A granted request takes from the abstract bucket.
LEMMA GrantTakes ==
    ASSUME TypeOK, NEW k \in Keys, Grant(k)
    PROVE  Bucket!Take(k)
<1>1. Refilled(k) >= Cost
  BY DEF Grant
<1>2. Refilled(k)' = Refilled(k) - Cost
  BY ConsumeOwn
<1>3. \A j \in Keys \ {k} : Refilled(j)' = Refilled(j)
  BY ConsumeOthers DEF Consume
<1>4. Credit' = [Credit EXCEPT ![k] = @ - Cost]
  BY <1>2, <1>3 DEF Credit
<1> QED BY <1>1, <1>4 DEF Bucket!Take, Grant, Credit

\* A denied request is one the abstract bucket refuses.
LEMMA DenyRefuses ==
    ASSUME TypeOK, NEW k \in Keys, Deny(k)
    PROVE  Bucket!Refuse(k)
<1>1. \A j \in Keys : Refilled(j)' = Refilled(j)
  BY ConsumeOwn, ConsumeOthers DEF Consume
<1>2. Credit' = Credit
  BY <1>1 DEF Credit
<1> QED BY <1>2 DEF Bucket!Refuse, Deny, Credit

\* Waiting lets time pass for the abstract bucket.
LEMMA WaitElapses ==
    ASSUME TypeOK, NEW d \in 1 .. Horizon, Wait(d)
    PROVE  Bucket!Elapse(d)
<1>1. \A j \in Keys : Refilled(j)' = AtMostCap(Refilled(j) + d)
  BY WaitRefills
<1>2. Credit' = [k \in Keys |-> Bucket!AtMostCap(Credit[k] + d)]
  BY <1>1 DEF Credit, AtMostCap, Bucket!AtMostCap
<1> QED BY <1>2 DEF Bucket!Elapse, Wait, Credit, NoVerdict, Bucket!NoVerdict

\* Every step of the limiter is one of the abstract bucket, or none.
LEMMA StepsMap ==
    TypeOK /\ [Next]_vars => [Bucket!BucketNext]_(Bucket!bucketVars)
<1> SUFFICES ASSUME TypeOK, [Next]_vars
             PROVE  Bucket!BucketNext \/ UNCHANGED Bucket!bucketVars
  OBVIOUS
<1>1. ASSUME NEW k \in Keys, Consume(k) PROVE Bucket!BucketNext
  BY <1>1, GrantTakes, DenyRefuses DEF Consume, Bucket!BucketNext
<1>2. ASSUME NEW d \in 1 .. Horizon, Wait(d) PROVE Bucket!BucketNext
  BY <1>2, WaitElapses DEF Bucket!BucketNext
<1>3. ASSUME UNCHANGED <<now, stored, tokens, last>>
      PROVE  Credit' = Credit
  <2>1. \A j \in Keys : Refilled(j)' = Refilled(j)
    BY <1>3 DEF Refilled
  <2> QED BY <2>1 DEF Credit
<1>4. CASE Observe
  BY <1>3, <1>4 DEF Observe, Bucket!BucketNext, Bucket!Mark, Credit
<1>5. CASE UNCHANGED vars
  BY <1>3, <1>5 DEF vars, Bucket!bucketVars, Credit
<1> QED BY <1>1, <1>2, <1>4, <1>5 DEF Next

(* The limiter implements the token bucket: lazy refills, stored refusals   *)
(* and evictions never show (core.py:1283-1292).                            *)
THEOREM LimiterIsABucket == Spec => BucketSpec
<1>1. Init => Bucket!BucketInit
  <2> SUFFICES ASSUME Init PROVE Bucket!BucketInit
    OBVIOUS
  <2>1. \A k \in Keys : Refilled(k) = Cap
    BY DEF Init, Refilled
  <2>2. Credit = [k \in Keys |-> Cap]
    BY <2>1 DEF Credit
  <2> QED BY <2>2 DEF Init, Bucket!BucketInit, Credit, NoVerdict, Bucket!NoVerdict
<1> QED
  BY <1>1, StepsMap, LimiterTypeCorrect, PTL DEF Spec, BucketSpec, Bucket!BucketSpec
=============================================================================

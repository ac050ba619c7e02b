-------------------------- MODULE ReplayGateProofs --------------------------
(***************************************************************************)
(* The replay gate's promises, for every window, memory size and clock.     *)
(* What makes them inductive is that the memory is exactly the tail of the  *)
(* acceptances (MemoryIsRecent), and that whatever was accepted was then    *)
(* within the window (Stamped).                                            *)
(***************************************************************************)
EXTENDS ReplayGate, TLAPS

Stamped ==
    /\ \A i \in 1 .. Len(accepted) :
          Apart(accepted[i].at, accepted[i].ts) <= Window
    /\ \A i \in 1 .. Len(registered) :
          Apart(registered[i].at, registered[i].ts) <= Window

GateInv == TypeOK /\ MemoryIsRecent /\ Stamped /\ ReplayNeedsFlood

(* Two readings within one window of the same timestamp are within two of   *)
(* each other.                                                             *)
LEMMA TwoWindows ==
    ASSUME NEW t \in Int, NEW u \in Int, NEW ts \in Int,
           Apart(t, ts) <= Window, Apart(u, ts) <= Window
    PROVE  Apart(t, u) <= 2 * Window
BY TimesAssumption DEF Apart

(* An acceptance is the newest one, and the memory remains the tail of the  *)
(* acceptances.                                                            *)
LEMMA AcceptKeepsMemory ==
    ASSUME GateInv, NEW id \in Ids, NEW ts \in Times, Accept(id, ts)
    PROVE  MemoryIsRecent' /\ nonces' \in Seq(Ids) /\ Len(nonces') <= NonceMax
<1> DEFINE new == [id |-> id, ts |-> ts, at |-> now]
           n == Len(accepted)
<1>1. /\ nonces \in Seq(Ids) /\ Len(nonces) = Recalled /\ Len(nonces) <= NonceMax
      /\ accepted \in Seq(Acceptance) /\ new \in Acceptance
      /\ n \in Nat /\ Len(nonces) \in Nat /\ NonceMax \in Nat \ {0}
  BY NonceAssumption DEF GateInv, TypeOK, MemoryIsRecent, Acceptance
<1>2. /\ accepted' = Append(accepted, new) /\ Len(accepted') = n + 1
      /\ \A k \in 1 .. n : accepted'[k] = accepted[k]
      /\ accepted'[n + 1].id = id
  BY <1>1 DEF Accept
<1>3. /\ Append(nonces, id) \in Seq(Ids)
      /\ Len(Append(nonces, id)) = Len(nonces) + 1
      /\ \A k \in 1 .. Len(nonces) : Append(nonces, id)[k] = nonces[k]
      /\ Append(nonces, id)[Len(nonces) + 1] = id
  BY <1>1
<1>4. \A k \in 1 .. Recalled : nonces[k] = accepted[n - Recalled + k].id
  BY DEF GateInv, MemoryIsRecent
<1>5. CASE n < NonceMax
  <2>1. nonces' = Append(nonces, id) /\ Recalled = n
    BY <1>1, <1>3, <1>5 DEF Accept, Remembered, Recalled
  <2>2. Recalled' = n + 1
    BY <1>1, <1>2, <1>5 DEF Recalled
  <2>3. ASSUME NEW k \in 1 .. n + 1
        PROVE  nonces'[k] = accepted'[n + 1 - (n + 1) + k].id
    <3>1. n + 1 - (n + 1) + k = k
      BY <1>1
    <3>2. CASE k = n + 1
      BY <1>1, <1>2, <1>3, <2>1, <3>1, <3>2
    <3>3. CASE k \in 1 .. n
      <4>1. nonces[k] = accepted[k].id
        <5>1. n - Recalled + k = k
          BY <1>1, <2>1
        <5> QED BY <1>4, <2>1, <3>3, <5>1
      <4> QED BY <1>1, <1>2, <1>3, <2>1, <3>1, <3>3, <4>1
    <3> QED BY <1>1, <3>2, <3>3
  <2>4. nonces' \in Seq(Ids) /\ Len(nonces') = n + 1
    BY <1>1, <1>3, <2>1
  <2>5. MemoryIsRecent'
    BY SMTT(30), <1>2, <2>2, <2>3, <2>4 DEF MemoryIsRecent
  <2> QED
    BY <1>1, <1>5, <2>4, <2>5
<1>6. CASE n >= NonceMax
  <2>1. nonces' = Tail(Append(nonces, id)) /\ Recalled = NonceMax
    BY <1>1, <1>3, <1>6 DEF Accept, Remembered, Recalled
  <2>2. Recalled' = NonceMax
    BY <1>1, <1>2, <1>6 DEF Recalled
  <2>3. /\ nonces' \in Seq(Ids) /\ Len(nonces') = NonceMax
        /\ \A k \in 1 .. NonceMax : nonces'[k] = Append(nonces, id)[k + 1]
    BY <1>1, <1>3, <2>1
  <2>4. ASSUME NEW k \in 1 .. NonceMax
        PROVE  nonces'[k] = accepted'[n + 1 - NonceMax + k].id
    <3>1. CASE k = NonceMax
      <4>1. n + 1 - NonceMax + k = n + 1 /\ k + 1 = Len(nonces) + 1
        BY <1>1, <2>1, <3>1
      <4> QED BY <1>2, <1>3, <2>3, <4>1
    <3>2. CASE k < NonceMax
      <4>1. k + 1 \in 1 .. Recalled /\ n - Recalled + (k + 1) \in 1 .. n
        BY <1>1, <1>6, <2>1, <3>2
      <4>2. n - Recalled + (k + 1) = n + 1 - NonceMax + k
        BY <1>1, <2>1
      <4>3. nonces[k + 1] = accepted[n + 1 - NonceMax + k].id
        BY <1>4, <4>1, <4>2
      <4> QED BY <1>1, <1>2, <1>3, <2>1, <2>3, <4>1, <4>2, <4>3
    <3> QED BY <3>1, <3>2, <1>1
  <2>5. Len(nonces') = NonceMax /\ Len(accepted') = n + 1
    BY <1>2, <2>3
  <2>6. MemoryIsRecent'
    BY <2>2, <2>4, <2>5 DEF MemoryIsRecent
  <2> QED
    BY <1>1, <2>3, <2>6
<1> QED BY <1>1, <1>5, <1>6

(* An id let pass was not in the memory, so nobody among the last NonceMax  *)
(* acceptances bore it.                                                    *)
LEMMA AcceptNeedsFlood ==
    ASSUME GateInv, NEW id \in Ids, NEW ts \in Times, Accept(id, ts)
    PROVE  ReplayNeedsFlood' /\ Stamped'
<1> DEFINE new == [id |-> id, ts |-> ts, at |-> now]
           n == Len(accepted)
<1>1. /\ accepted \in Seq(Acceptance) /\ new \in Acceptance
      /\ n \in Nat /\ NonceMax \in Nat \ {0} /\ Window \in Nat
      /\ now \in Int /\ ts \in Int /\ Times \subseteq Int
  BY NonceAssumption, TimesAssumption DEF GateInv, TypeOK, Acceptance
<1>2. /\ accepted' = Append(accepted, new) /\ Len(accepted') = n + 1
      /\ \A k \in 1 .. n : accepted'[k] = accepted[k]
      /\ accepted'[n + 1] = new /\ registered' = registered
  BY <1>1 DEF Accept
<1>3. Apart(now, ts) <= Window
  BY DEF Accept, WithinWindow
<1>4. \A i \in 1 .. Len(accepted') :
         Apart(accepted'[i].at, accepted'[i].ts) <= Window
  BY <1>1, <1>2, <1>3 DEF GateInv, Stamped
<1>5. Stamped'
  BY <1>2, <1>4 DEF GateInv, Stamped
<1>6. ASSUME NEW i \in 1 .. n, accepted[i].id = id
      PROVE  n + 1 - i > NonceMax
  <2>1. \A k \in 1 .. Recalled : accepted[n - Recalled + k].id # id
    BY DEF GateInv, MemoryIsRecent, Accept, Known
  <2>2. Recalled \in Nat /\ Recalled <= n
    BY <1>1 DEF Recalled
  <2>3. i <= n - Recalled
    <3> SUFFICES ASSUME i > n - Recalled PROVE FALSE
      BY <1>1, <2>2
    <3>1. i - (n - Recalled) \in 1 .. Recalled
      BY <1>1, <1>6, <2>2
    <3>2. n - Recalled + (i - (n - Recalled)) = i
      BY <1>1, <2>2
    <3> QED BY <1>6, <2>1, <3>1, <3>2
  <2> QED BY <1>1, <1>6, <2>2, <2>3 DEF Recalled
<1>7. \A i \in 1 .. n + 1 : accepted'[i] \in [id : Ids, ts : Int, at : Int]
  <2>1. \A i \in 1 .. n : accepted[i] \in Acceptance
    BY <1>1
  <2>2. \A i \in 1 .. n + 1 : accepted'[i] \in Acceptance
    BY <1>1, <1>2, <2>1
  <2> QED BY <1>1, <2>2 DEF Acceptance
<1>8. ASSUME NEW i \in 1 .. n + 1, NEW j \in 1 .. n + 1, i < j,
             accepted'[i].id = accepted'[j].id
      PROVE  /\ j - i > NonceMax
             /\ accepted'[i].ts = accepted'[j].ts =>
                    Apart(accepted'[i].at, accepted'[j].at) <= 2 * Window
  <2>1. i \in 1 .. n
    BY <1>1, <1>8
  <2>2. accepted'[i].ts = accepted'[j].ts =>
            Apart(accepted'[i].at, accepted'[j].at) <= 2 * Window
    BY <1>2, <1>4, <1>7, <1>8, TwoWindows
  <2>3. CASE j = n + 1
    BY <1>2, <1>6, <2>1, <2>2, <2>3, <1>8
  <2>4. CASE j \in 1 .. n
    BY <1>2, <1>8, <2>1, <2>2, <2>4 DEF GateInv, ReplayNeedsFlood
  <2> QED BY <1>1, <2>3, <2>4
<1> QED BY <1>2, <1>5, <1>8 DEF ReplayNeedsFlood

(* GateInv is inductive.                                                   *)
LEMMA GateInductive == GateInv /\ [Next]_vars => GateInv'
<1> SUFFICES ASSUME GateInv, [Next]_vars PROVE GateInv'
  OBVIOUS
<1>1. TypeOK
  BY DEF GateInv
<1>2. ASSUME NEW t \in Times, ClockSet(t) PROVE GateInv'
  BY <1>2 DEF GateInv, ClockSet, TypeOK, MemoryIsRecent, Recalled, Stamped,
              ReplayNeedsFlood
<1>3. ASSUME NEW id \in Ids, NEW ts \in Times, Accept(id, ts) PROVE GateInv'
  <2>1. [id |-> id, ts |-> ts, at |-> now] \in Acceptance
    BY <1>1 DEF TypeOK, Acceptance
  <2>2. accepted' \in Seq(Acceptance)
    BY <1>1, <1>3, <2>1 DEF TypeOK, Accept
  <2>3. TypeOK'
    BY <1>1, <1>3, <2>2, AcceptKeepsMemory DEF TypeOK, Accept
  <2> QED BY <1>3, <2>3, AcceptKeepsMemory, AcceptNeedsFlood DEF GateInv
<1>4. ASSUME NEW n \in Nodes, NEW ts \in Times, AcceptRegistration(n, ts)
      PROVE  GateInv'
  <2> DEFINE new == [node |-> n, ts |-> ts, at |-> now]
  <2>1. new \in Registration
    BY <1>1 DEF TypeOK, Registration
  <2>2. /\ registered \in Seq(Registration)
        /\ registered' = Append(registered, new)
        /\ registered' \in Seq(Registration)
        /\ UNCHANGED <<now, nonces, accepted>>
    BY <1>1, <1>4, <2>1 DEF TypeOK, AcceptRegistration
  <2>3. Apart(now, ts) <= Window
    BY <1>4 DEF AcceptRegistration, WithinWindow
  <2>4. \A i \in 1 .. Len(registered') :
            Apart(registered'[i].at, registered'[i].ts) <= Window
    BY <2>2, <2>3 DEF GateInv, Stamped
  <2> QED
    BY <2>2, <2>4 DEF GateInv, TypeOK, MemoryIsRecent, Recalled, Stamped,
                      ReplayNeedsFlood
<1>5. CASE UNCHANGED vars
  BY <1>5 DEF vars, GateInv, TypeOK, MemoryIsRecent, Recalled, Stamped,
              ReplayNeedsFlood
<1> QED BY <1>2, <1>3, <1>4, <1>5 DEF Next

\* The gate starts empty, as its invariant wants.
LEMMA GateInitially == Init => GateInv
BY NonceAssumption DEF Init, GateInv, TypeOK, MemoryIsRecent, Recalled, Stamped,
   ReplayNeedsFlood

(* The memory is the last NonceMax acceptances (core.py:443).               *)
THEOREM MemoryHolds == Spec => []MemoryIsRecent
<1>1. GateInv => MemoryIsRecent
  BY DEF GateInv
<1> QED BY <1>1, GateInitially, GateInductive, PTL DEF Spec

(* A replay needs NonceMax other acceptances first, and two windows at most *)
(* (core.py:201, 443).                                                     *)
THEOREM ReplaysNeedFlood == Spec => []ReplayNeedsFlood
<1>1. GateInv => ReplayNeedsFlood
  BY DEF GateInv
<1> QED BY <1>1, GateInitially, GateInductive, PTL DEF Spec

(* A captured registration is good for two windows (core.py:794).           *)
THEOREM RegistrationsDoExpire == Spec => []RegistrationsExpire
<1>1. GateInv => RegistrationsExpire
  <2> SUFFICES ASSUME GateInv, NEW i \in 1 .. Len(registered),
                      NEW j \in 1 .. Len(registered),
                      registered[i].ts = registered[j].ts
               PROVE  Apart(registered[i].at, registered[j].at) <= 2 * Window
    BY DEF RegistrationsExpire
  <2>1. registered[i] \in Registration /\ registered[j] \in Registration
    BY DEF GateInv, TypeOK
  <2>2. /\ registered[i].at \in Int /\ registered[j].at \in Int
        /\ registered[i].ts \in Int
    BY <2>1, TimesAssumption DEF Registration
  <2> QED BY <2>2, TwoWindows DEF GateInv, Stamped
<1> QED BY <1>1, GateInitially, GateInductive, PTL DEF Spec
=============================================================================

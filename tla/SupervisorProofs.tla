-------------------------- MODULE SupervisorProofs --------------------------
(***************************************************************************)
(* Theorems about Supervisor, for every value of its constants.             *)
(***************************************************************************)
EXTENDS Supervisor, FiniteSetTheorems, SequenceTheorems, TLAPS

Tasks == Ops \cup Procs \cup Children

(***************************************************************************)
(* The inductive invariant.  The typing of a step leans on the queue (the   *)
(* holder must be in it, with something to do), and what the queue says of  *)
(* the tasks leans on what a holder may be doing: a monitor only starts     *)
(* its child, and a reaper only stops its own, without being suspended.     *)
(***************************************************************************)
Asked ==
    \A o \in Ops :
        /\ at[o] # "uncalled" => ask[o] \in Request
        /\ at[o] \in {"draining", "requeued"} => ask[o].do = "drain"

Owned == \A p \in Procs : monitor[p] # "none" => of[p] \in Children

DrainsAreCalls == \A c \in Children : status[c] = "draining" => event[c] \in Ops

TypeInv == TypeOK /\ Asked /\ Owned /\ DrainsAreCalls

Distinct(q) == \A i, j \in 1..Len(q) : q[i] = q[j] => i = j
In(q, t) == \E k \in 1..Len(q) : q[k] = t

Inside(t) ==
    \/ t \in Ops /\ at[t] = "inside"
    \/ t \in Procs /\ monitor[t] = "inside"
    \/ t \in Children /\ reaper[t] = "inside"

HolderInside ==
    /\ phase # "idle" => lock # <<>> /\ Inside(lock[1])
    /\ \A t \in Tasks : Inside(t) => phase # "idle" /\ t = lock[1]

MonitorsStart == \A p \in Procs : monitor[p] = "inside" => todo = <<Start(of[p])>>

ReapersStop ==
    \A c \in Children : reaper[c] = "inside" => todo = <<Stop(c)>> /\ phase = "next"

(* The lock's queue and the tasks agree: a task waits for the lock exactly   *)
(* when it is in the queue, once, and the lock is never held by nobody.     *)
Queued(t) == \E k \in 1..Len(lock) : lock[k] = t
QueueMatchesTasks ==
    /\ \A i, j \in 1..Len(lock) : lock[i] = lock[j] => i = j
    /\ \A o \in Ops : Queued(o) <=> at[o] \in {"queued", "inside", "requeued"}
    /\ \A p \in Procs : Queued(p) <=> monitor[p] \in {"queued", "inside"}
    /\ \A c \in Children : Queued(c) <=> reaper[c] \in {"queued", "inside"}
    /\ phase # "idle" <=> todo # <<>>

QueueInv == QueueMatchesTasks /\ HolderInside /\ MonitorsStart /\ ReapersStop

(***************************************************************************)
(* The queue of the lock.                                                  *)
(***************************************************************************)

(* A cancelled task leaves its place, and those behind it move up.          *)
LEMMA WithoutSkips ==
    ASSUME NEW S, NEW q \in Seq(S), NEW t, In(q, t)
    PROVE  \E k \in 1..Len(q) :
               /\ q[k] = t
               /\ Without(q, t) \in Seq(S) /\ Len(Without(q, t)) = Len(q) - 1
               /\ \A i \in 1..(Len(q) - 1) : Without(q, t)[i] = IF i < k THEN q[i] ELSE q[i + 1]
<1> DEFINE k == Place(q, t)
           w == Without(q, t)
<1>1. k \in 1..Len(q) /\ q[k] = t
  BY DEF In, Place
<1>2. w = SubSeq(q, 1, k - 1) \o SubSeq(q, k + 1, Len(q))
  BY DEF Without, In, RemoveAt
<1>3. Len(q) \in Nat
  OBVIOUS
<1> HIDE DEF k, w
<1> DEFINE left == SubSeq(q, 1, k - 1)
           right == SubSeq(q, k + 1, Len(q))
<1>4. /\ left \in Seq(S) /\ Len(left) = k - 1
      /\ \A i \in 1..(k - 1) : left[i] = q[i]
  BY <1>1, <1>3
<1>5. /\ right \in Seq(S) /\ Len(right) = Len(q) - k
      /\ \A i \in 1..(Len(q) - k) : right[i] = q[k + i]
  BY <1>1, <1>3
<1>6. w = left \o right
  BY <1>2
<1> HIDE DEF left, right
<1>7. /\ w \in Seq(S) /\ Len(w) = Len(left) + Len(right)
      /\ \A i \in 1..(Len(left) + Len(right)) :
            w[i] = IF i <= Len(left) THEN left[i] ELSE right[i - Len(left)]
  BY <1>4, <1>5, <1>6, ConcatProperties
<1>8. Len(w) = Len(q) - 1
  BY <1>1, <1>3, <1>4, <1>5, <1>7
<1>9. ASSUME NEW i \in 1..(Len(q) - 1) PROVE w[i] = IF i < k THEN q[i] ELSE q[i + 1]
  <2>1. Len(left) + Len(right) = Len(q) - 1 /\ k \in Int /\ Len(left) = k - 1
    BY <1>1, <1>3, <1>4, <1>5
  <2>2. w[i] = IF i <= k - 1 THEN left[i] ELSE right[i - (k - 1)]
    BY <1>7, <2>1
  <2>3. CASE i < k
    <3>1. i \in 1..(k - 1)
      BY <1>3, <2>1, <2>3
    <3> QED BY <1>4, <2>2, <2>3, <3>1
  <2>4. CASE ~(i < k)
    <3>1. i - (k - 1) \in 1..(Len(q) - k) /\ k + (i - (k - 1)) = i + 1
      BY <1>3, <2>1, <2>4
    <3>2. right[i - (k - 1)] = q[i + 1]
      BY <1>5, <3>1
    <3>3. ~(i <= k - 1)
      BY <1>3, <2>1, <2>4
    <3> QED BY <2>2, <2>4, <3>2, <3>3
  <2> QED BY <2>3, <2>4
<1> QED BY <1>1, <1>7, <1>8, <1>9 DEF w

(* It is no longer queued; the others are.                                 *)
LEMMA WithoutLeaves ==
    ASSUME NEW S, NEW q \in Seq(S), NEW t, Distinct(q)
    PROVE  /\ Without(q, t) \in Seq(S)
           /\ Distinct(Without(q, t))
           /\ \A x : In(Without(q, t), x) <=> In(q, x) /\ x # t
           /\ q # <<>> /\ q[1] # t => Without(q, t) # <<>> /\ Without(q, t)[1] = q[1]
<1>1. CASE ~In(q, t)
  BY <1>1 DEF Without, In
<1>2. CASE In(q, t)
  <2> DEFINE w == Without(q, t)
  <2>1. PICK k \in 1..Len(q) :
            /\ q[k] = t
            /\ w \in Seq(S) /\ Len(w) = Len(q) - 1
            /\ \A i \in 1..(Len(q) - 1) : w[i] = IF i < k THEN q[i] ELSE q[i + 1]
    BY <1>2, WithoutSkips
  <2>2. Len(q) \in Nat
    OBVIOUS
  <2> HIDE DEF w
  <2>3. Distinct(w)
    BY SMTT(30), <2>1, <2>2 DEF Distinct
  <2>4. ASSUME NEW x PROVE In(w, x) <=> In(q, x) /\ x # t
    <3>1. ASSUME In(w, x) PROVE In(q, x) /\ x # t
      BY <2>1, <2>2, <3>1 DEF In, Distinct
    <3>2. ASSUME In(q, x), x # t PROVE In(w, x)
      <4>1. PICK i \in 1..Len(q) : q[i] = x
        BY <3>2 DEF In
      <4>2. CASE i < k
        BY <2>1, <2>2, <4>1, <4>2 DEF In
      <4>3. CASE i > k
        <5>1. i - 1 \in 1..Len(w) /\ w[i - 1] = x
          BY <2>1, <2>2, <4>1, <4>3
        <5> QED BY <5>1 DEF In
      <4> QED BY <2>1, <2>2, <3>2, <4>1, <4>2, <4>3
    <3> QED BY <3>1, <3>2
  <2>5. q # <<>> /\ q[1] # t => w # <<>> /\ w[1] = q[1]
    BY <2>1, <2>2
  <2> QED BY <2>1, <2>3, <2>4, <2>5 DEF w
<1> QED BY <1>1, <1>2

(* The first of the queue leaves it.                                       *)
LEMMA TailLeaves ==
    ASSUME NEW S, NEW q \in Seq(S), q # <<>>, Distinct(q)
    PROVE  /\ Tail(q) \in Seq(S)
           /\ Distinct(Tail(q))
           /\ \A x : In(Tail(q), x) <=> In(q, x) /\ x # q[1]
<1>1. /\ Tail(q) \in Seq(S) /\ Len(q) \in Nat \ {0} /\ Len(Tail(q)) = Len(q) - 1
      /\ \A i \in 1..(Len(q) - 1) : Tail(q)[i] = q[i + 1]
  OBVIOUS
<1>2. Distinct(Tail(q))
  BY <1>1 DEF Distinct
<1>3. ASSUME NEW x PROVE In(Tail(q), x) <=> In(q, x) /\ x # q[1]
  <2>1. In(Tail(q), x) => In(q, x) /\ x # q[1]
    BY <1>1 DEF In, Distinct
  <2>2. ASSUME In(q, x), x # q[1] PROVE In(Tail(q), x)
    <3>1. PICK i \in 1..Len(q) : q[i] = x
      BY <2>2 DEF In
    <3>2. i - 1 \in 1..Len(Tail(q)) /\ Tail(q)[i - 1] = x
      BY <1>1, <2>2, <3>1
    <3> QED BY <3>2 DEF In
  <2> QED BY <2>1, <2>2
<1> QED BY <1>1, <1>2, <1>3

(* A task goes to the end of the queue, or to the front of an idle one.     *)
LEMMA AppendJoins ==
    ASSUME NEW S, NEW q \in Seq(S), NEW t \in S, Distinct(q), ~In(q, t)
    PROVE  /\ Append(q, t) \in Seq(S)
           /\ Distinct(Append(q, t))
           /\ \A x : In(Append(q, t), x) <=> In(q, x) \/ x = t
           /\ q # <<>> => Append(q, t)[1] = q[1]
<1>1. /\ Append(q, t) \in Seq(S) /\ Len(q) \in Nat /\ Len(Append(q, t)) = Len(q) + 1
      /\ Append(q, t)[Len(q) + 1] = t
      /\ \A i \in 1..Len(q) : Append(q, t)[i] = q[i]
  OBVIOUS
<1>2. Distinct(Append(q, t))
  BY <1>1 DEF Distinct, In
<1>3. \A x : In(Append(q, t), x) <=> In(q, x) \/ x = t
  BY <1>1 DEF In
<1>4. q # <<>> => Append(q, t)[1] = q[1]
  BY <1>1
<1> QED BY <1>1, <1>2, <1>3, <1>4

\* A task that is put at the head of the queue joins those in it.
LEMMA FrontJoins ==
    ASSUME NEW S, NEW q \in Seq(S), NEW t \in S, Distinct(q), ~In(q, t)
    PROVE  /\ <<t>> \o q \in Seq(S)
           /\ Distinct(<<t>> \o q)
           /\ \A x : In(<<t>> \o q, x) <=> In(q, x) \/ x = t
           /\ <<t>> \o q # <<>> /\ (<<t>> \o q)[1] = t
<1> DEFINE w == <<t>> \o q
<1>1. /\ w \in Seq(S) /\ Len(q) \in Nat /\ Len(w) = Len(q) + 1 /\ w[1] = t
      /\ \A i \in 1..Len(q) : w[i + 1] = q[i]
      /\ \A i \in 1..Len(w) : i = 1 \/ (i - 1 \in 1..Len(q) /\ w[i] = q[i - 1])
  <2>1. <<t>> \in Seq(S) /\ Len(<<t>>) = 1 /\ <<t>>[1] = t
    OBVIOUS
  <2> QED BY <2>1, ConcatProperties
<1> HIDE DEF w
<1>2. Distinct(w)
  <2>1. \A i \in 1..Len(q) : q[i] # t
    BY DEF In
  <2>2. ASSUME NEW i \in 1..Len(w), NEW j \in 1..Len(w), w[i] = w[j] PROVE i = j
    <3>1. CASE i = 1 \/ j = 1
      BY <1>1, <2>1, <2>2, <3>1
    <3>2. CASE i # 1 /\ j # 1
      <4>1. i - 1 \in 1..Len(q) /\ j - 1 \in 1..Len(q) /\ q[i - 1] = q[j - 1]
        BY <1>1, <2>2, <3>2
      <4>2. i - 1 = j - 1
        BY <4>1 DEF Distinct
      <4> QED BY <4>2
    <3> QED BY <3>1, <3>2
  <2> QED BY <2>2 DEF Distinct
<1>3. ASSUME NEW x PROVE In(w, x) <=> In(q, x) \/ x = t
  <2>1. In(w, x) => In(q, x) \/ x = t
    BY SMTT(30), <1>1 DEF In
  <2>2. In(q, x) => In(w, x)
    <3> SUFFICES ASSUME NEW i \in 1..Len(q), q[i] = x PROVE In(w, x)
      BY DEF In
    <3>1. i + 1 \in 1..Len(w) /\ w[i + 1] = x
      BY <1>1
    <3> QED BY <3>1 DEF In
  <2>3. In(w, t)
    <3>1. 1 \in 1..Len(w)
      BY <1>1
    <3> QED BY <1>1, <3>1 DEF In
  <2> QED BY <2>1, <2>2, <2>3
<1> QED BY <1>1, <1>2, <1>3 DEF w

(***************************************************************************)
(* Typing.                                                                 *)
(***************************************************************************)
Statuses == {"absent", "stopped", "running", "draining", "stopping", "crashed", "failed"}
Phases == {"idle", "next", "exec", "term", "kill"}
Places == {"uncalled", "queued", "inside", "draining", "requeued", "done"}
MonitorStages == {"none", "wait", "backoff", "queued", "inside"}
ReaperStages == {"none", "poll", "queued", "inside"}

(* The sequences of a finite set of steps.                                 *)
LEMMA SequencesOfSteps ==
    ASSUME NEW D \in SUBSET Children, NEW f \in [D -> Steps]
    PROVE  SetToSeqs({f[c] : c \in D}) \subseteq Seq(Steps)
<1> DEFINE S == {f[c] : c \in D}
<1>1. IsFiniteSet(D)
  BY SupervisorAssumption, FS_Subset
<1>2. f \in Surjection(D, S)
  BY DEF Surjection
<1>3. IsFiniteSet(S)
  <2> HIDE DEF S
  <2> QED BY <1>1, <1>2, FS_Surjection
<1>4. S \subseteq Steps
  OBVIOUS
<1> HIDE DEF S
<1>5. Cardinality(S) \in Nat
  BY <1>3, FS_CardinalityType
<1>6. ASSUME NEW g \in SetToSeqs(S) PROVE g \in Seq(Steps)
  <2>1. g \in [1..Cardinality(S) -> S]
    BY DEF SetToSeqs
  <2>2. g \in Seq(S)
    BY <1>5, <2>1
  <2> QED BY <1>4, <2>2
<1> QED BY <1>6 DEF S

(* What a monitor, a reaper and the end of a drain do.                      *)
LEMMA OneStep ==
    ASSUME NEW c \in Children
    PROVE  <<>> \in Seq(Steps) /\ <<Start(c)>> \in Seq(Steps) /\ <<Stop(c)>> \in Seq(Steps)
<1>1. Start(c) \in Steps /\ Stop(c) \in Steps
  BY DEF Start, Stop, Steps
<1> QED BY <1>1

\* A plan is a sequence of steps.
LEMMA PlansAreSteps ==
    ASSUME NEW r \in Request, NEW plan \in Plans(r)
    PROVE  plan \in Seq(Steps)
<1> USE DEF Start, Stop, StopRunning, Steps
<1>1. CASE r.do \in {"spawn", "ensure_running", "stop", "restart"}
  <2>1. r.on \in Children
    BY <1>1 DEF Request
  <2>2. /\ <<>> \in Seq(Steps) /\ <<Start(r.on)>> \in Seq(Steps)
        /\ <<Stop(r.on)>> \in Seq(Steps) /\ <<Stop(r.on), Start(r.on)>> \in Seq(Steps)
    BY <2>1
  <2>3. plan \in {<<>>, <<Start(r.on)>>, <<Stop(r.on)>>, <<Stop(r.on), Start(r.on)>>}
    <3> HIDE DEF Start, Stop, StopRunning, Steps
    <3>1. CASE r.do \in {"spawn", "ensure_running"}
      BY <3>1 DEF Plans
    <3>2. CASE r.do = "stop"
      BY <3>2 DEF Plans
    <3>3. CASE r.do = "restart"
      BY <3>3 DEF Plans
    <3> QED BY <1>1, <3>1, <3>2, <3>3
  <2> HIDE DEF Start, Stop, StopRunning, Steps
  <2> QED BY <2>2, <2>3
<1>2. CASE r.do = "reconcile"
  <2> DEFINE D == {d \in Desired(r) : ~Running(d)}
             f == [c \in D |-> Start(c)]
             E == Extras(r)
             g == [c \in E |-> Stop(c)]
  <2>1. /\ D \in SUBSET Children /\ f \in [D -> Steps] /\ {f[c] : c \in D} = {Start(c) : c \in D}
    BY <1>2 DEF Desired, Request
  <2>2. /\ E \in SUBSET Children /\ g \in [E -> Steps] /\ {g[c] : c \in E} = {Stop(c) : c \in E}
    BY DEF Extras
  <2>3. PICK starts \in SetToSeqs({Start(c) : c \in D}), stops \in SetToSeqs({Stop(c) : c \in E}) :
            plan = starts \o stops
    BY <1>2 DEF Plans
  <2> HIDE DEF D, E, f, g, Steps
  <2>4. starts \in Seq(Steps)
    BY <2>1, <2>3, SequencesOfSteps
  <2>5. stops \in Seq(Steps)
    BY <2>2, <2>3, SequencesOfSteps
  <2> QED BY <2>3, <2>4, <2>5
<1>3. CASE r.do = "shutdown_all"
  <2> DEFINE D == {d \in Children : status[d] # "absent"}
             f == [c \in D |-> StopRunning(c)]
  <2>1. D \in SUBSET Children /\ f \in [D -> Steps] /\ {f[c] : c \in D} = {StopRunning(c) : c \in D}
    OBVIOUS
  <2>2. plan \in SetToSeqs({StopRunning(c) : c \in D})
    BY <1>3 DEF Plans
  <2> HIDE DEF D, f, Steps
  <2> QED BY <2>1, <2>2, SequencesOfSteps
<1>4. CASE r.do = "drain"
  BY <1>4 DEF Plans
<1> QED BY <1>1, <1>2, <1>3, <1>4 DEF Request

(* Whoever is suspended under the lock is in the queue, with work to do.    *)
LEMMA HolderWorks ==
    ASSUME TypeInv, QueueInv, phase # "idle"
    PROVE  /\ todo # <<>> /\ Step \in Steps /\ Tail(todo) \in Seq(Steps)
           /\ lock # <<>> /\ lock \in Seq(Tasks) /\ Holder \in Tasks /\ Tail(lock) \in Seq(Tasks)
           /\ Distinct(lock) /\ Inside(Holder)
           /\ Holder \in Ops => at[Holder] = "inside" /\ Holder \notin Procs /\ Holder \notin Children
           /\ Holder \in Procs => /\ monitor[Holder] = "inside" /\ Step = Start(of[Holder])
                                  /\ Holder \notin Ops /\ Holder \notin Children
           /\ Holder \in Children => /\ reaper[Holder] = "inside" /\ todo = <<Stop(Holder)>>
                                     /\ phase = "next" /\ Step = Stop(Holder)
                                     /\ Holder \notin Ops /\ Holder \notin Procs
<1>1. todo # <<>> /\ todo \in Seq(Steps) /\ lock # <<>> /\ lock \in Seq(Tasks)
  BY DEF TypeInv, TypeOK, QueueInv, QueueMatchesTasks, HolderInside, Tasks
<1>2. Step \in Steps /\ Tail(todo) \in Seq(Steps) /\ Holder \in Tasks /\ Tail(lock) \in Seq(Tasks)
  BY <1>1 DEF Step, Holder
<1>3. Distinct(lock) /\ Inside(Holder)
  BY DEF QueueInv, QueueMatchesTasks, HolderInside, Distinct, Holder
<1> QED BY <1>1, <1>2, <1>3, SupervisorAssumption
        DEF Inside, Tasks, QueueInv, MonitorsStart, ReapersStop, Step

(* The holder goes on, or leaves the lock.                                 *)
LEMMA AdvanceType ==
    ASSUME TypeInv, QueueInv, phase # "idle", NEW queue \in Seq(Tasks), queue # <<>>,
           Advance(queue)
    PROVE  /\ todo' \in Seq(Steps) /\ lock' \in Seq(Tasks)
           /\ phase' \in Phases /\ victim' \in Procs \cup {None}
           /\ at' \in [Ops -> Places]
           /\ \A o \in Ops : at'[o] = at[o] \/ (at[o] = "inside" /\ at'[o] = "done")
<1>1. Tail(queue) \in Seq(Tasks) /\ Tail(todo) \in Seq(Steps)
  BY HolderWorks
<1>2. at \in [Ops -> Places]
  BY DEF TypeInv, TypeOK, Places
<1>3. CASE Len(todo) > 1
  BY <1>1, <1>2, <1>3 DEF Advance, Done, Phases
<1>4. CASE ~(Len(todo) > 1)
  BY <1>1, <1>2, <1>4, HolderWorks DEF Advance, Done, Phases, OpAfter, Places
<1> QED BY <1>3, <1>4

\* The types hold at the start.
LEMMA TypeInit == Init => TypeInv
<1> SUFFICES ASSUME Init PROVE TypeInv
  OBVIOUS
<1>1. lock \in Seq(Ops \cup Procs \cup Children) /\ todo \in Seq(Steps)
  BY DEF Init
<1>2. inFlight \in [Children -> 0..MaxWork] /\ count \in [Children -> Nat]
  BY SupervisorAssumption DEF Init
<1>3. TypeOK
  BY <1>1, <1>2 DEF Init, TypeOK
<1>4. Asked /\ Owned /\ DrainsAreCalls
  BY DEF Init, Asked, Owned, DrainsAreCalls
<1> QED BY <1>3, <1>4 DEF TypeInv

(* What a call does at once.                                               *)
LEMMA EnterType ==
    ASSUME TypeInv, NEW o \in Ops, NEW r \in Request, Enter(o, r)
    PROVE  /\ status' \in [Children -> Statuses] /\ event' \in [Children -> Ops \cup {None}]
           /\ drained' \subseteq Ops /\ monitor' \in [Procs -> MonitorStages]
           /\ \A c \in Children : status'[c] = "draining" => event'[c] \in Ops
           /\ \A p \in Procs : monitor'[p] # "none" => monitor[p] # "none"
<1> USE DEF TypeInv, TypeOK, Statuses, MonitorStages
<1>1. r.do \in {"stop", "drain"} => r.on \in Children
  BY DEF Request
<1>2. monitor' \in [Procs -> MonitorStages]
      /\ \A p \in Procs : monitor'[p] # "none" => monitor[p] # "none"
  BY DEF Enter, MonitorAfter
<1>3. CASE r.do = "drain" /\ Running(r.on)
  <2>1. status' = [c \in Children |-> IF c = r.on THEN "draining" ELSE status[c]]
        /\ event' = [event EXCEPT ![r.on] = o] /\ drained' \subseteq Ops
    BY <1>1, <1>3 DEF Enter
  <2> QED BY <1>1, <1>2, <2>1 DEF DrainsAreCalls
<1>4. CASE ~(r.do = "drain" /\ Running(r.on))
  <2>1. event' = event /\ drained' = drained
    BY <1>4 DEF Enter
  <2>2. status' \in [Children -> Statuses]
        /\ \A c \in Children : status'[c] \in {status[c], "stopped"}
    <3>1. CASE r.do = "stop" /\ status[r.on] = "crashed"
      BY ZenonT(60), <1>1, <3>1 DEF Enter
    <3>2. CASE ~(r.do = "stop" /\ status[r.on] = "crashed")
      <4>1. status' = [c \in Children |->
                IF r.do = "reconcile" /\ c \in r.on \ Desired(r) /\ status[c] = "absent"
                THEN "stopped" ELSE status[c]]
        BY <1>4, <3>2 DEF Enter
      <4> QED BY <4>1
    <3> QED BY <3>1, <3>2
  <2> QED BY <1>2, <2>1, <2>2 DEF DrainsAreCalls
<1> QED BY <1>3, <1>4

(* A call that has got the lock.                                           *)
LEMMA CalledType ==
    ASSUME TypeInv, QueueInv, phase = "idle", NEW o \in Ops, NEW r \in Request,
           NEW plan \in Plans(r), lock # <<>> => lock[1] = o, lock = <<>> => ~In(lock, o),
           stopping' \in BOOLEAN, Called(o, r, plan)
    PROVE  TypeInv'
<1> USE DEF TypeInv, TypeOK
<1>1. lock \in Seq(Tasks) /\ Distinct(lock)
  BY DEF QueueInv, QueueMatchesTasks, Distinct, Tasks
<1>2. Others \in Seq(Tasks) /\ Distinct(Others) /\ ~In(Others, o)
  <2>1. CASE lock = <<>>
    BY <2>1 DEF Others, Distinct, In
  <2>2. CASE lock # <<>>
    BY <1>1, <2>2, TailLeaves DEF Others
  <2> QED BY <2>1, <2>2
<1>3. <<o>> \o Others \in Seq(Tasks) /\ Distinct(<<o>> \o Others)
  BY <1>2, FrontJoins DEF Tasks
<1>4. lock' \in Seq(Tasks)
  <2> DEFINE base == IF plan = <<>> THEN Others ELSE <<o>> \o Others
  <2>1. base \in Seq(Tasks) /\ Distinct(base)
    BY <1>2, <1>3
  <2>2. lock' = Without(base, latest[r.on]) \/ lock' = Without(base, None)
    BY DEF Called
  <2> HIDE DEF base
  <2> QED BY <2>1, <2>2, WithoutLeaves
<1>5. /\ status' \in [Children -> Statuses] /\ event' \in [Children -> Ops \cup {None}]
      /\ drained' \subseteq Ops /\ monitor' \in [Procs -> MonitorStages]
      /\ \A c \in Children : status'[c] = "draining" => event'[c] \in Ops
      /\ \A p \in Procs : monitor'[p] # "none" => monitor[p] # "none"
  BY EnterType DEF Called
<1>6. phase' \in Phases /\ todo' \in Seq(Steps)
  BY PlansAreSteps DEF Called, Phases
<1>7. /\ at' \in [Ops -> Places] /\ ask' \in [Ops -> Request \cup {None}]
      /\ ask' = [ask EXCEPT ![o] = r]
      /\ \A x \in Ops : x # o => at'[x] = at[x]
      /\ at'[o] \in {"draining", "requeued"} => r.do = "drain"
  BY DEF Called, Places
<1>8. UNCHANGED <<proc, count, inFlight, latest, procs, reaper, victim>>
  BY DEF Called
<1>9. TypeOK'
  BY <1>4, <1>5, <1>6, <1>7, <1>8
     DEF Tasks, Statuses, Phases, Places, MonitorStages, procs
<1>10. Asked'
  BY <1>7 DEF Asked
<1>11. Owned' /\ DrainsAreCalls'
  BY <1>5, <1>8 DEF Owned, DrainsAreCalls, procs
<1> QED BY <1>9, <1>10, <1>11

(* The holder's step leaves the rest of the state typed.                   *)
LEMMA HoldingType ==
    ASSUME TypeInv, QueueInv, Holding PROVE TypeInv'
<1>1. phase # "idle"
  BY DEF Holding, BeginStart, ExecFails, Skip, StopTimeout, Exec, StopGone, StopSignal,
         StopByReaper, StopDone, Stopping
<1>2. /\ lock # <<>> /\ lock \in Seq(Tasks) /\ Distinct(lock) /\ todo # <<>>
      /\ Step.on \in Children /\ Holder \in Tasks /\ Holder = lock[1]
  BY <1>1, HolderWorks DEF Steps, Holder
<1> USE DEF TypeInv, TypeOK, Asked, Owned, DrainsAreCalls, child, procs, tasks, ops, mutex
<1>3. ASSUME NEW queue \in Seq(Tasks), queue # <<>>, Advance(queue),
             status' \in [Children -> Statuses], proc' \in [Children -> Procs \cup {None}],
             UNCHANGED <<count, inFlight, latest, life, of, ask, drained, stopping, event>>,
             monitor' \in [Procs -> MonitorStages], reaper' \in [Children -> ReaperStages],
             \A p \in Procs : monitor'[p] # "none" => monitor[p] # "none",
             \A c \in Children : status'[c] = "draining" => status[c] = "draining"
      PROVE  TypeInv'
  <2>1. /\ todo' \in Seq(Steps) /\ lock' \in Seq(Tasks)
        /\ phase' \in Phases /\ victim' \in Procs \cup {None}
        /\ at' \in [Ops -> Places]
        /\ \A o \in Ops : at'[o] = at[o] \/ (at[o] = "inside" /\ at'[o] = "done")
    <3> HIDE DEF TypeInv
    <3> QED BY <1>1, <1>3, AdvanceType
  <2> QED BY <1>3, <2>1 DEF Tasks, Statuses, Phases, Places, MonitorStages, ReaperStages
<1>4. ASSUME NEW t
      PROVE  /\ MonitorAfter(t) \in [Procs -> MonitorStages]
             /\ \A p \in Procs : MonitorAfter(t)[p] # "none" => monitor[p] # "none"
             /\ ReaperAfter(t) \in [Children -> ReaperStages]
  BY DEF MonitorAfter, ReaperAfter, MonitorStages, ReaperStages
<1>5. Reapers(Step.on) \in [Children -> ReaperStages]
  BY <1>4 DEF Reapers, ReaperStages
<1>6. ASSUME NEW c \in Children, NEW stepped \in BOOLEAN, Settled(c, stepped)
      PROVE  /\ status' \in [Children -> Statuses] /\ proc' \in [Children -> Procs \cup {None}]
             /\ \A d \in Children : status'[d] = "draining" => status[d] = "draining"
  BY <1>6 DEF Settled, Statuses
<1>7. CASE BeginStart
  BY <1>7 DEF BeginStart
<1>8. CASE ExecFails
  <2>1. /\ monitor' = MonitorAfter(Leaver)
        /\ reaper' \in {ReaperAfter(Leaver), Reapers(Step.on)}
        /\ Advance(lock) /\ UNCHANGED <<child, procs, ask, drained, stopping>>
    BY <1>8 DEF ExecFails
  <2> QED BY <1>2, <1>3, <1>4, <1>5, <2>1 DEF Statuses
<1>9. CASE Skip
  BY <1>2, <1>3, <1>9 DEF Skip, Statuses, MonitorStages, ReaperStages
<1>10. CASE StopTimeout
  BY <1>10 DEF StopTimeout
<1>11. ASSUME NEW p \in Procs, Exec(p) PROVE TypeInv'
  <2>1. /\ todo' \in Seq(Steps) /\ lock' \in Seq(Tasks)
        /\ phase' \in Phases /\ victim' \in Procs \cup {None}
        /\ at' \in [Ops -> Places]
        /\ \A o \in Ops : at'[o] = at[o] \/ (at[o] = "inside" /\ at'[o] = "done")
    <3> HIDE DEF TypeInv
    <3> QED BY <1>1, <1>2, <1>11, AdvanceType DEF Exec
  <2>2. /\ monitor' = [MonitorAfter(Leaver) EXCEPT ![p] = "wait"]
        /\ reaper' = Reapers(Step.on)
        /\ of' = [of EXCEPT ![p] = Step.on] /\ life' = [life EXCEPT ![p] = "up"]
        /\ status' = [status EXCEPT ![Step.on] = "running"]
        /\ proc' = [proc EXCEPT ![Step.on] = p]
        /\ inFlight' = [inFlight EXCEPT ![Step.on] = 0]
        /\ event' = [event EXCEPT ![Step.on] = None]
        /\ latest' = [latest EXCEPT ![Step.on] = p]
        /\ UNCHANGED <<count, ask, drained, stopping>>
    BY <1>11 DEF Exec
  <2>3. TypeOK'
    BY <1>2, <1>4, <1>5, <2>1, <2>2, SupervisorAssumption
       DEF Tasks, Statuses, Phases, Places, MonitorStages, ReaperStages
  <2>4. Asked'
    BY <2>1, <2>2
  <2>5. Owned' /\ DrainsAreCalls'
    BY <1>2, <1>4, <2>2
  <2> QED BY <2>3, <2>4, <2>5
<1>12. ASSUME NEW c \in Children, StopGone(c) PROVE TypeInv'
  BY <1>2, <1>3, <1>4, <1>6, <1>12 DEF StopGone, MonitorStages
<1>13. ASSUME NEW c \in Children, StopSignal(c) PROVE TypeInv'
  <2>1. Without(lock, c) \in Seq(Tasks) /\ Distinct(Without(lock, c))
    BY <1>2, WithoutLeaves
  <2>2. lock' \in Seq(Tasks)
    BY <1>13, <2>1, WithoutLeaves DEF StopSignal
  <2> QED BY <1>4, <1>13, <2>2 DEF StopSignal, Tasks, MonitorStages, ReaperStages, Gone
<1>14. ASSUME NEW c \in Children, StopByReaper(c) PROVE TypeInv'
  <2>1. Step.do = "stop" \/ Step.do = "stop_running"
    BY <1>1, <1>14, HolderWorks DEF StopByReaper, Stopping, Steps
  <2>2. lock[1] # latest[c]
    BY <1>2, <1>14, SupervisorAssumption DEF StopByReaper
  <2>3. Without(lock, latest[c]) \in Seq(Tasks) /\ Without(lock, latest[c]) # <<>>
    BY <1>2, <2>2, WithoutLeaves
  <2> QED BY <1>3, <1>4, <1>6, <1>14, <2>3 DEF StopByReaper
<1>15. ASSUME NEW c \in Children, StopDone(c) PROVE TypeInv'
  BY <1>2, <1>3, <1>4, <1>6, <1>15 DEF StopDone
<1> QED BY <1>7, <1>8, <1>9, <1>10, <1>11, <1>12, <1>13, <1>14, <1>15 DEF Holding

(* The queue as a set of tasks without repetition.                         *)
LEMMA QueueOfTasks ==
    ASSUME TypeInv, QueueInv
    PROVE  /\ lock \in Seq(Tasks) /\ Distinct(lock)
           /\ lock = <<>> => phase = "idle" /\ \A t : ~In(lock, t)
           /\ lock # <<>> => In(lock, lock[1]) /\ lock[1] \in Tasks
BY DEF TypeInv, TypeOK, QueueInv, QueueMatchesTasks, HolderInside, Distinct, In, Tasks

(* Who gets the lock is its holder if it has something to do.              *)
LEMMA HoldsQueue ==
    ASSUME TypeInv, QueueInv, NEW t \in Tasks, NEW steps \in Seq(Steps),
           Gets(t, TRUE) \/ Gets(t, FALSE), Holds(t, steps)
    PROVE  /\ lock' \in Seq(Tasks) /\ Distinct(lock') /\ phase = "idle"
           /\ \A x : In(lock', x) <=> IF x = t THEN steps # <<>> ELSE In(lock, x)
           /\ phase' = IF steps # <<>> THEN "next" ELSE "idle"
           /\ todo' = steps /\ victim' = victim
           /\ steps # <<>> => lock' # <<>> /\ lock'[1] = t
<1>1. phase = "idle" /\ (lock # <<>> => lock[1] = t)
  BY QueueOfTasks DEF Gets
<1>2. /\ Others \in Seq(Tasks) /\ Distinct(Others)
      /\ \A x : In(Others, x) <=> In(lock, x) /\ x # t
  <2>1. CASE lock = <<>>
    BY <2>1 DEF Others, Distinct, In
  <2>2. CASE lock # <<>>
    BY <1>1, <2>2, QueueOfTasks, TailLeaves DEF Others
  <2> QED BY <2>1, <2>2
<1>3. CASE steps = <<>>
  BY <1>1, <1>2, <1>3 DEF Holds
<1>4. CASE steps # <<>>
  <2>1. /\ lock' = <<t>> \o Others /\ phase' = "next" /\ todo' = steps /\ victim' = victim
    BY <1>4 DEF Holds
  <2>2. /\ lock' \in Seq(Tasks) /\ Distinct(lock') /\ lock' # <<>> /\ lock'[1] = t
        /\ \A x : In(lock', x) <=> In(Others, x) \/ x = t
    BY <1>2, <2>1, FrontJoins
  <2> QED BY <1>1, <1>2, <1>4, <2>1, <2>2
<1> QED BY <1>3, <1>4

(* Who finds the lock taken is the last of the queue.                      *)
LEMMA WaitsQueue ==
    ASSUME TypeInv, QueueInv, NEW t \in Tasks, ~In(lock, t), Waits(t)
    PROVE  /\ lock' \in Seq(Tasks) /\ Distinct(lock') /\ lock' # <<>> /\ lock # <<>>
           /\ \A x : In(lock', x) <=> In(lock, x) \/ x = t
           /\ lock'[1] = lock[1]
BY QueueOfTasks, AppendJoins DEF Waits

\* The callers' steps keep the types.
LEMMA CallingType ==
    ASSUME TypeInv, QueueInv, Calling PROVE TypeInv'
<1> USE DEF TypeInv, TypeOK, Asked, Owned, DrainsAreCalls, child, procs, tasks, ops, mutex
<1>1. PICK o \in Ops : \/ \E r \in Requests[o] : Call(o, r)
                       \/ Proceed(o) \/ DrainEnds(o) \/ DrainStops(o)
  BY DEF Calling
<1>2. o \in Tasks /\ (In(lock, o) <=> at[o] \in {"queued", "inside", "requeued"})
  BY DEF Tasks, QueueInv, QueueMatchesTasks, Queued, In
<1>3. ASSUME NEW r \in Requests[o], Call(o, r) PROVE TypeInv'
  <2>1. r \in Request /\ stopping' \in BOOLEAN /\ at[o] = "uncalled"
    BY <1>3, SupervisorAssumption DEF Call
  <2>2. CASE lock = <<>>
    <3>1. PICK plan \in Plans(r) : Called(o, r, plan)
      BY <1>3, <2>2 DEF Call, Waits
    <3> HIDE DEF TypeInv
    <3>2. phase = "idle" /\ ~In(lock, o)
      BY <2>2, QueueOfTasks
    <3> QED BY <2>1, <2>2, <3>1, <3>2, CalledType
  <2>3. CASE lock # <<>>
    <3>1. /\ Waits(o) /\ ask' = [ask EXCEPT ![o] = r] /\ at' = [at EXCEPT ![o] = "queued"]
          /\ UNCHANGED <<child, procs, tasks, drained, phase, todo, victim>>
      BY <1>3, <2>3 DEF Call, Gets
    <3>2. lock' \in Seq(Tasks)
      <4> HIDE DEF TypeInv
      <4> QED BY <1>2, <2>1, <3>1, WaitsQueue
    <3> QED BY <2>1, <3>1, <3>2 DEF Tasks
  <2> QED BY <2>2, <2>3
<1>4. CASE Proceed(o)
  <2>1. ask[o] \in Request /\ lock # <<>> /\ lock[1] = o /\ phase = "idle" /\ stopping' = stopping
    BY <1>4 DEF Proceed, Gets
  <2>2. PICK plan \in Plans(ask[o]) : Called(o, ask[o], plan)
    BY <1>4 DEF Proceed
  <2>3. stopping' \in BOOLEAN
    BY <2>1
  <2> HIDE DEF TypeInv
  <2> QED BY <2>1, <2>2, <2>3, CalledType
<1>5. CASE DrainEnds(o) \/ DrainStops(o)
  <2>1. ask[o] \in Request /\ ask[o].do = "drain" /\ ask[o].on \in Children
    BY <1>5 DEF DrainEnds, DrainStops, Request
  <2>2. DrainPlan(o) \in Seq(Steps)
    BY <2>1, OneStep DEF DrainPlan
  <2>3. CASE (Gets(o, TRUE) \/ Gets(o, FALSE)) /\ Holds(o, DrainPlan(o))
             /\ at' = [at EXCEPT ![o] = IF DrainPlan(o) = <<>> THEN "done" ELSE "inside"]
    <3>1. lock' \in Seq(Tasks) /\ phase' \in Phases /\ todo' \in Seq(Steps) /\ victim' = victim
      <4> HIDE DEF TypeInv
      <4> QED BY <1>2, <2>2, <2>3, HoldsQueue DEF Phases
    <3> QED BY ZenonT(60), <1>5, <2>1, <2>3, <3>1 DEF DrainEnds, DrainStops, Tasks, Phases
  <2>4. CASE DrainEnds(o) /\ Waits(o) /\ at' = [at EXCEPT ![o] = "requeued"]
             /\ UNCHANGED <<phase, todo, victim>>
    <3>1. lock' \in Seq(Tasks)
      <4>1. ~In(lock, o)
        BY <1>2, <2>4 DEF DrainEnds
      <4> HIDE DEF TypeInv
      <4> QED BY <1>2, <2>4, <4>1, WaitsQueue
    <3> QED BY <2>1, <2>4, <3>1 DEF DrainEnds, Tasks
  <2> QED BY <1>5, <2>3, <2>4 DEF DrainEnds, DrainStops
<1> QED BY <1>1, <1>3, <1>4, <1>5

\* The monitors' steps keep the types.
LEMMA MonitoringType ==
    ASSUME TypeInv, QueueInv, Monitoring PROVE TypeInv'
<1> USE DEF TypeInv, TypeOK, Asked, Owned, DrainsAreCalls, child, procs, tasks, ops, mutex
<1>1. PICK p \in Procs : \/ MonitorStopping(p) \/ MonitorOnDemand(p) \/ MonitorLeaves(p)
                         \/ \E refilled \in BOOLEAN : MonitorSchedules(p, refilled)
                         \/ MonitorDue(p) \/ MonitorRestarts(p)
  BY DEF Monitoring
<1>2. /\ p \in Tasks /\ (In(lock, p) <=> monitor[p] \in {"queued", "inside"})
      /\ monitor[p] # "none" /\ of[p] \in Children
  <2>1. monitor[p] # "none"
    BY <1>1 DEF MonitorStopping, MonitorOnDemand, MonitorLeaves, MonitorSchedules, MonitorDue,
                MonitorRestarts, Exited
  <2> QED BY <2>1 DEF Tasks, QueueInv, QueueMatchesTasks, Queued, In
<1>3. CASE MonitorStopping(p) \/ MonitorLeaves(p)
  <2>1. /\ UNCHANGED <<proc, count, inFlight, event, latest, procs, reaper, ops, mutex>>
        /\ monitor' = [monitor EXCEPT ![p] = "none"]
        /\ \E x \in {"stopped", "crashed"} : status' = [status EXCEPT ![of[p]] = x]
    BY <1>3 DEF MonitorStopping, MonitorLeaves
  <2> QED BY SMTT(30), <1>2, <2>1
<1>4. CASE MonitorOnDemand(p)
  <2>1. lock' \in Seq(Tasks)
    <3> HIDE DEF TypeInv
    <3> QED BY <1>4, QueueOfTasks, WithoutLeaves DEF MonitorOnDemand
  <2> QED BY <1>2, <1>4, <2>1 DEF MonitorOnDemand, Settled, ReaperAfter, Tasks
<1>5. ASSUME NEW refilled \in BOOLEAN, MonitorSchedules(p, refilled) PROVE TypeInv'
  <2>1. Attempt(of[p], refilled) \in Nat
    BY <1>2 DEF Attempt
  <2>2. /\ count' = [count EXCEPT ![of[p]] = Attempt(of[p], refilled)]
        /\ UNCHANGED <<proc, inFlight, event, latest, procs, reaper, ops, mutex>>
        /\ \E x \in {"failed", "crashed"} : status' = [status EXCEPT ![of[p]] = x]
        /\ \E x \in {"none", "backoff"} : monitor' = [monitor EXCEPT ![p] = x]
    BY <1>5 DEF MonitorSchedules
  <2>3. count' \in [Children -> Nat]
    BY <2>1, <2>2
  <2> QED BY <1>2, <2>2, <2>3
<1>6. CASE MonitorDue(p) \/ MonitorRestarts(p)
  <2>1. MonitorPlan(p) \in Seq(Steps)
    BY <1>2, OneStep DEF MonitorPlan
  <2>2. CASE (Gets(p, TRUE) \/ Gets(p, FALSE)) /\ Holds(p, MonitorPlan(p))
             /\ monitor' = [monitor EXCEPT ![p] = IF MonitorPlan(p) = <<>> THEN "none" ELSE "inside"]
    <3>1. lock' \in Seq(Tasks) /\ phase' \in Phases /\ todo' \in Seq(Steps) /\ victim' = victim
      <4> HIDE DEF TypeInv
      <4> QED BY <1>2, <2>1, <2>2, HoldsQueue DEF Phases
    <3> QED BY ZenonT(60), <1>2, <1>6, <2>2, <3>1 DEF MonitorDue, MonitorRestarts, Tasks, Phases
  <2>3. CASE MonitorDue(p) /\ Waits(p) /\ monitor' = [monitor EXCEPT ![p] = "queued"]
             /\ UNCHANGED <<phase, todo, victim>>
    <3>1. lock' \in Seq(Tasks)
      <4>1. ~In(lock, p)
        BY <1>2, <2>3 DEF MonitorDue
      <4> HIDE DEF TypeInv
      <4> QED BY <1>2, <2>3, <4>1, WaitsQueue
    <3> QED BY <1>2, <2>3, <3>1 DEF MonitorDue, Tasks
  <2> QED BY <1>6, <2>2, <2>3 DEF MonitorDue, MonitorRestarts
<1> QED BY <1>1, <1>3, <1>4, <1>5, <1>6

\* The reapers' steps keep the types.
LEMMA ReapingType ==
    ASSUME TypeInv, QueueInv, Reaping PROVE TypeInv'
<1> USE DEF TypeInv, TypeOK, Asked, Owned, DrainsAreCalls, child, procs, tasks, ops, mutex
<1>1. PICK c \in Children : ReaperLeaves(c) \/ ReaperFires(c) \/ ReaperStops(c)
  BY DEF Reaping
<1>2. /\ c \in Tasks /\ (In(lock, c) <=> reaper[c] \in {"queued", "inside"})
      /\ ReaperPlan(c) \in Seq(Steps)
  BY OneStep DEF Tasks, QueueInv, QueueMatchesTasks, Queued, In, ReaperPlan
<1>3. CASE ReaperLeaves(c)
  BY <1>3 DEF ReaperLeaves
<1>4. CASE (Gets(c, TRUE) \/ Gets(c, FALSE)) /\ Holds(c, ReaperPlan(c))
           /\ reaper'[c] \in ReaperStages /\ reaper' = [reaper EXCEPT ![c] = reaper'[c]]
           /\ UNCHANGED <<child, procs, monitor, ops>>
  <2>1. lock' \in Seq(Tasks) /\ phase' \in Phases /\ todo' \in Seq(Steps) /\ victim' = victim
    <3> HIDE DEF TypeInv
    <3> QED BY <1>2, <1>4, HoldsQueue DEF Phases
  <2>2. reaper' \in [Children -> ReaperStages]
    BY <1>4 DEF ReaperStages
  <2> QED BY <1>4, <2>1, <2>2 DEF Tasks, Phases, ReaperStages
<1>5. CASE ReaperFires(c) /\ Waits(c) /\ reaper' = [reaper EXCEPT ![c] = "queued"]
           /\ UNCHANGED <<phase, todo, victim>>
  <2>1. lock' \in Seq(Tasks)
    <3>1. ~In(lock, c)
      BY <1>2, <1>5 DEF ReaperFires
    <3> HIDE DEF TypeInv
    <3> QED BY <1>2, <1>5, <3>1, WaitsQueue
  <2> QED BY <1>5, <2>1 DEF ReaperFires, Tasks
<1> QED BY <1>1, <1>3, <1>4, <1>5 DEF ReaperFires, ReaperStops, ReaperStages

\* Every step keeps the types.
LEMMA TypeNext == ASSUME TypeInv, QueueInv, [Next]_vars PROVE TypeInv'
<1> USE DEF TypeInv, TypeOK, Asked, Owned, DrainsAreCalls, child, procs, tasks, ops, mutex
<1>1. CASE Holding BY <1>1, HoldingType
<1>2. CASE Calling BY <1>2, CallingType
<1>3. CASE Working
  <2>1. PICK c \in Children : BeginWork(c) \/ EndWork(c)
    BY <1>3 DEF Working
  <2>2. CASE BeginWork(c)
    BY <2>2, SupervisorAssumption DEF BeginWork
  <2>3. CASE EndWork(c)
    BY <2>3, SupervisorAssumption DEF EndWork
  <2> QED BY <2>1, <2>2, <2>3
<1>4. CASE Monitoring BY <1>4, MonitoringType
<1>5. CASE Reaping BY <1>5, ReapingType
<1>6. CASE Exiting
  BY <1>6 DEF Exiting, Exits
<1>7. CASE UNCHANGED vars
  BY <1>7 DEF vars
<1> QED BY <1>1, <1>2, <1>3, <1>4, <1>5, <1>6, <1>7 DEF Next

(***************************************************************************)
(* The queue and the tasks.  Lined says of any task that it takes part in   *)
(* the queue, so that a step is about the one task that it moves.           *)
(***************************************************************************)
Lined(t) ==
    \/ t \in Ops /\ at[t] \in {"queued", "inside", "requeued"}
    \/ t \in Procs /\ monitor[t] \in {"queued", "inside"}
    \/ t \in Children /\ reaper[t] \in {"queued", "inside"}

Agree ==
    /\ Distinct(lock)
    /\ \A t \in Tasks : In(lock, t) <=> Lined(t)
    /\ phase # "idle" <=> todo # <<>>

\* From the invariant to what it says of tasks and queue.
LEMMA QueueAgrees == ASSUME QueueInv PROVE Agree
BY SupervisorAssumption
   DEF Agree, QueueInv, QueueMatchesTasks, Distinct, In, Queued, Lined, Tasks

\* From there to the property, after a step.
LEMMA AgreeMatchesNext == ASSUME Agree' PROVE QueueMatchesTasks'
<1>1. ASSUME NEW t \in Tasks PROVE Queued(t)' <=> Lined(t)'
  BY DEF Agree, Queued, In
<1> QED BY <1>1, SupervisorAssumption DEF Agree, QueueMatchesTasks, Distinct, Lined, Tasks

(* A step that moves nobody in or out of the queue.                         *)
LEMMA QueueKept ==
    ASSUME TypeInv, QueueInv, UNCHANGED <<lock, todo, of>>,
           phase' = phase \/ ((phase # "idle") /\ (phase' # "idle") /\ \A c \in Children : reaper[c] # "inside"),
           \A t \in Tasks : (Lined(t)' <=> Lined(t)) /\ (Inside(t)' <=> Inside(t))
    PROVE  QueueInv'
<1>1. Agree'
  BY QueueAgrees DEF Agree, Distinct, In
<1>2. HolderInside'
  BY QueueOfTasks DEF HolderInside, QueueInv
<1>3. ASSUME NEW p \in Procs, monitor'[p] = "inside" PROVE monitor[p] = "inside"
  <2>1. p \in Tasks /\ Inside(p)'
    BY <1>3 DEF Inside, Tasks
  <2> QED BY <2>1, SupervisorAssumption DEF Inside
<1>4. ASSUME NEW c \in Children, reaper'[c] = "inside" PROVE reaper[c] = "inside"
  <2>1. c \in Tasks /\ Inside(c)'
    BY <1>4 DEF Inside, Tasks
  <2> QED BY <2>1, SupervisorAssumption DEF Inside
<1>5. MonitorsStart' /\ ReapersStop'
  BY <1>3, <1>4 DEF MonitorsStart, ReapersStop, QueueInv
<1> QED BY <1>1, <1>2, <1>5, AgreeMatchesNext DEF QueueInv

(* A task that gets the lock, and the others stay what they were.           *)
LEMMA LockTaken ==
    ASSUME TypeInv, QueueInv, NEW t \in Tasks, NEW steps \in Seq(Steps),
           Gets(t, TRUE) \/ Gets(t, FALSE), Holds(t, steps),
           \A x \in Tasks : x # t => (Lined(x)' <=> Lined(x)) /\ (Inside(x)' <=> Inside(x)),
           Lined(t)' <=> steps # <<>>, Inside(t)' <=> steps # <<>>,
           t \in Procs /\ steps # <<>> => steps = <<Start(of'[t])>>,
           t \in Children /\ steps # <<>> => steps = <<Stop(t)>>
    PROVE  QueueInv'
<1>1. /\ Distinct(lock') /\ phase = "idle"
      /\ \A x : In(lock', x) <=> IF x = t THEN steps # <<>> ELSE In(lock, x)
      /\ phase' = IF steps # <<>> THEN "next" ELSE "idle"
      /\ todo' = steps
      /\ steps # <<>> => lock' # <<>> /\ lock'[1] = t
  BY HoldsQueue
<1>2. Agree'
  <2>1. \A x \in Tasks : In(lock', x) <=> Lined(x)'
    BY <1>1, QueueAgrees DEF Agree
  <2>2. \A x \in Tasks : In(lock, x)' <=> In(lock', x)
    BY DEF In
  <2>3. Distinct(lock)' <=> Distinct(lock')
    BY DEF Distinct
  <2> QED BY <1>1, <2>1, <2>2, <2>3 DEF Agree
<1>3. \A x \in Tasks : Inside(x)' => x = t /\ steps # <<>>
  BY <1>1 DEF HolderInside, QueueInv
<1>4. HolderInside'
  BY <1>1, <1>3 DEF HolderInside
<1>5. MonitorsStart'
  <2> SUFFICES ASSUME NEW p \in Procs, monitor'[p] = "inside" PROVE todo' = <<Start(of'[p])>>
    BY DEF MonitorsStart, Start
  <2>1. p \in Tasks /\ Inside(p)'
    BY DEF Inside, Tasks
  <2> QED BY <1>1, <1>3, <2>1
<1>6. ReapersStop'
  <2> SUFFICES ASSUME NEW c \in Children, reaper'[c] = "inside"
               PROVE  todo' = <<Stop(c)>> /\ phase' = "next"
    BY DEF ReapersStop, Stop
  <2>1. c \in Tasks /\ Inside(c)'
    BY DEF Inside, Tasks
  <2> QED BY <1>1, <1>3, <2>1
<1> QED BY <1>2, <1>4, <1>5, <1>6, AgreeMatchesNext DEF QueueInv

(* A task that joins the queue behind the holder.                          *)
LEMMA QueueJoined ==
    ASSUME TypeInv, QueueInv, NEW t \in Tasks, Waits(t), UNCHANGED <<phase, todo, of>>,
           ~Lined(t), Lined(t)', ~Inside(t)',
           \A x \in Tasks : x # t => (Lined(x)' <=> Lined(x)) /\ (Inside(x)' <=> Inside(x))
    PROVE  QueueInv'
<1>1. ~In(lock, t)
  BY QueueAgrees DEF Agree
<1>2. /\ Distinct(lock') /\ lock' # <<>> /\ lock # <<>> /\ lock'[1] = lock[1]
      /\ \A x : In(lock', x) <=> In(lock, x) \/ x = t
  BY <1>1, WaitsQueue
<1>3. Agree'
  <2>1. \A x \in Tasks : In(lock', x) <=> Lined(x)'
    BY <1>2, QueueAgrees DEF Agree
  <2>2. \A x \in Tasks : In(lock, x)' <=> In(lock', x)
    BY DEF In
  <2>3. Distinct(lock)' <=> Distinct(lock')
    BY DEF Distinct
  <2> QED BY <1>2, <2>1, <2>2, <2>3, QueueAgrees DEF Agree
<1>4. \A x \in Tasks : Inside(x)' => Inside(x) /\ x # t
  OBVIOUS
<1>5. HolderInside'
  <2>1. ASSUME phase # "idle" PROVE Inside(lock[1])'
    <3>1. Inside(lock[1]) /\ lock[1] \in Tasks
      BY <1>2, <2>1, QueueOfTasks DEF HolderInside, QueueInv
    <3>2. lock[1] # t
      BY <1>1, <1>2, QueueOfTasks
    <3>3. \A x \in Tasks : x # t /\ Inside(x) => Inside(x)'
      OBVIOUS
    <3>4. lock'[1] = lock[1]
      BY <1>2
    <3> QED BY <3>1, <3>2, <3>3, <3>4 DEF Inside
  <2> QED BY <1>2, <1>4, <2>1 DEF HolderInside, QueueInv
<1>6. ASSUME NEW p \in Procs, monitor'[p] = "inside" PROVE monitor[p] = "inside"
  <2>1. p \in Tasks /\ Inside(p)'
    BY <1>6 DEF Inside, Tasks
  <2> QED BY <1>4, <2>1, SupervisorAssumption DEF Inside
<1>7. ASSUME NEW c \in Children, reaper'[c] = "inside" PROVE reaper[c] = "inside"
  <2>1. c \in Tasks /\ Inside(c)'
    BY <1>7 DEF Inside, Tasks
  <2> QED BY <1>4, <2>1, SupervisorAssumption DEF Inside
<1>8. MonitorsStart' /\ ReapersStop'
  BY <1>6, <1>7 DEF MonitorsStart, ReapersStop, QueueInv
<1> QED BY <1>3, <1>5, <1>8, AgreeMatchesNext DEF QueueInv

(* The holder goes on with its next step or leaves; tasks it has cancelled   *)
(* have left before it.                                                    *)
LEMMA LockAdvanced ==
    ASSUME TypeInv, QueueInv, phase # "idle", NEW queue \in Seq(Tasks), Distinct(queue),
           queue # <<>>, queue[1] = Holder, Advance(queue),
           \A o \in Ops : In(queue, o) <=> In(lock, o),
           \A x \in Tasks : x \notin Ops =>
                (Lined(x)' <=> In(queue, x) /\ x # Leaver) /\ (Inside(x)' => Inside(x) /\ x # Leaver)
    PROVE  QueueInv'
<1>0. todo # <<>> /\ Tail(todo) \in Seq(Steps) /\ Holder \in Tasks
  BY HolderWorks
<1>1. Len(todo) \in Nat /\ Len(todo) # 0 /\ Len(Tail(todo)) = Len(todo) - 1
  BY <1>0 DEF TypeInv, TypeOK
<1>2. In(lock, Holder) /\ (Len(todo) > 1 => Leaver # Holder) /\ (~(Len(todo) > 1) => Leaver = Holder)
      /\ (Len(todo) > 1 => Leaver = None)
  <2>1. None \notin Tasks
    BY SupervisorAssumption DEF Tasks
  <2>2. In(lock, Holder)
    BY HolderWorks, QueueOfTasks DEF Holder
  <2>3. Holder # None
    BY <1>0, <2>1
  <2> HIDE DEF Holder
  <2>4. Leaver = IF Len(todo) = 1 THEN Holder ELSE None
    BY DEF Leaver
  <2> QED BY <1>1, <2>2, <2>3, <2>4
<1>3. ASSUME NEW o \in Ops
      PROVE  /\ Lined(o)' <=> Lined(o) /\ o # Leaver
             /\ Inside(o)' <=> Inside(o) /\ o # Leaver
  <2>1. at'[o] = IF o = Leaver THEN "done" ELSE at[o]
    <3>1. CASE Len(todo) > 1
      <4>1. o # Leaver /\ at' = at
        BY <1>2, <3>1, SupervisorAssumption DEF Advance
      <4> QED BY <4>1
    <3>2. CASE ~(Len(todo) > 1)
      <4>1. at' = OpAfter(Leaver)
        BY <1>2, <3>2 DEF Advance
      <4> QED BY <4>1 DEF OpAfter
    <3> QED BY <3>1, <3>2
  <2> QED BY <2>1, SupervisorAssumption DEF Lined, Inside
<1>4. /\ Distinct(lock') /\ \A x : In(lock', x) <=> In(queue, x) /\ x # Leaver
      /\ phase' = IF Len(todo) > 1 THEN "next" ELSE "idle"
      /\ todo' = Tail(todo)
      /\ Len(todo) > 1 => lock' # <<>> /\ lock'[1] = Holder
  <2>1. CASE Len(todo) > 1
    <3>1. ~In(queue, Leaver)
      <4>1. \A k \in 1..Len(queue) : queue[k] \in Tasks
        OBVIOUS
      <4> QED BY <1>2, <2>1, <4>1, SupervisorAssumption DEF In, Tasks
    <3> QED BY <2>1, <3>1 DEF Advance, Done
  <2>2. CASE ~(Len(todo) > 1)
    <3>1. /\ lock' = Tail(queue) /\ phase' = "idle" /\ todo' = Tail(todo) /\ Leaver = queue[1]
      BY <1>2, <2>2 DEF Advance, Done
    <3> QED BY <2>2, <3>1, TailLeaves
  <2> QED BY <2>1, <2>2
<1>5. Agree'
  <2>1. \A x \in Tasks : In(lock', x) <=> Lined(x)'
    <3>1. ASSUME NEW o \in Ops PROVE In(lock', o) <=> Lined(o)'
      <4>1. In(lock, o) <=> Lined(o)
        BY QueueAgrees DEF Agree, Tasks
      <4>2. Lined(o)' <=> Lined(o) /\ o # Leaver
        BY <1>3
      <4>3. In(queue, o) <=> In(lock, o)
        OBVIOUS
      <4> QED BY <1>4, <4>1, <4>2, <4>3
    <3>2. ASSUME NEW x \in Tasks, x \notin Ops PROVE In(lock', x) <=> Lined(x)'
      BY <1>4, <3>2
    <3> QED BY <3>1, <3>2 DEF Tasks
  <2>2. \A x \in Tasks : In(lock, x)' <=> In(lock', x)
    BY DEF In
  <2>3. Distinct(lock)' <=> Distinct(lock')
    BY DEF Distinct
  <2>4. phase' # "idle" <=> todo' # <<>>
    <3>1. Tail(todo) # <<>> <=> Len(todo) > 1
      <4> DEFINE rest == Tail(todo)
      <4>0. rest \in Seq(Steps)
        BY <1>0
      <4> HIDE DEF rest
      <4>1. Len(rest) = 0 <=> rest = <<>>
        BY <4>0, EmptySeq
      <4> USE DEF rest
      <4> QED BY SMTT(30), <1>1, <4>1
    <3> QED BY <1>4, <3>1
  <2> QED BY <1>4, <2>1, <2>2, <2>3, <2>4 DEF Agree
<1>6. \A x \in Tasks : Inside(x)' => Inside(x) /\ x # Leaver
  <2>1. ASSUME NEW o \in Ops, Inside(o)' PROVE Inside(o) /\ o # Leaver
    BY <1>3, <2>1
  <2>2. ASSUME NEW x \in Tasks, x \notin Ops, Inside(x)' PROVE Inside(x) /\ x # Leaver
    BY <2>2
  <2> QED BY <2>1, <2>2 DEF Tasks
<1>7. \A x \in Tasks : Inside(x) => x = Holder
  BY DEF HolderInside, QueueInv, Holder
<1>8. Len(todo) > 1 => Holder \in Ops
  <2>1. ASSUME Len(todo) > 1, Holder \in Procs \cup Children PROVE FALSE
    <3>1. \E x : todo = <<x>>
      BY <2>1, HolderWorks DEF QueueInv, MonitorsStart, ReapersStop
    <3> QED BY <2>1, <3>1
  <2> QED BY <1>0, <2>1 DEF Tasks
<1>9. Len(todo) > 1 => Inside(Holder) /\ Inside(lock'[1])
  <2> SUFFICES ASSUME Len(todo) > 1 PROVE Inside(Holder) /\ Inside(lock'[1])
    OBVIOUS
  <2> QED BY <1>4, HolderWorks
<1>10. HolderInside'
  <2>1. ASSUME Len(todo) > 1 PROVE Inside(lock[1])'
    <3>1. at'[Holder] = "inside" /\ Holder \in Ops
      BY <1>8, <2>1, HolderWorks DEF Advance
    <3>2. lock'[1] = Holder
      BY <1>4, <2>1
    <3> QED BY <3>1, <3>2 DEF Inside
  <2>2. ASSUME NEW x \in Tasks, Inside(x)' PROVE phase' # "idle" /\ x = lock'[1]
    BY <1>2, <1>4, <1>6, <1>7, <2>2
  <2> QED BY <1>4, <2>1, <2>2 DEF HolderInside
<1>11. ASSUME NEW x \in Tasks, x \notin Ops, Inside(x)' PROVE FALSE
  BY <1>2, <1>6, <1>7, <1>8, <1>11
<1>12. MonitorsStart' /\ ReapersStop'
  BY <1>11, SupervisorAssumption DEF MonitorsStart, ReapersStop, Inside, Tasks
<1> QED BY <1>5, <1>10, <1>12, AgreeMatchesNext DEF QueueInv

\* The lock holder's steps keep tasks and queue in agreement.
LEMMA HoldingQueue ==
    ASSUME TypeInv, QueueInv, Holding PROVE QueueInv'
<1>1. phase # "idle"
  BY DEF Holding, BeginStart, ExecFails, Skip, StopTimeout, Exec, StopGone, StopSignal,
         StopByReaper, StopDone, Stopping
<1>2. /\ lock # <<>> /\ lock \in Seq(Tasks) /\ Distinct(lock) /\ todo # <<>>
      /\ Holder \in Tasks /\ Holder = lock[1]
  BY <1>1, HolderWorks DEF Holder
<1>3. /\ Step.do # "start" => Holder \notin Procs
      /\ Holder \in Children => Step = Stop(Holder) /\ Step.on = Holder /\ Step.do = "stop" /\ phase = "next"
  BY <1>1, HolderWorks DEF Start, Stop
<1>4. /\ \A p \in Procs : In(lock, p) <=> monitor[p] \in {"queued", "inside"}
      /\ \A c \in Children : In(lock, c) <=> reaper[c] \in {"queued", "inside"}
  BY DEF QueueInv, QueueMatchesTasks, Queued, In
<1>5. ASSUME NEW queue \in Seq(Tasks), Distinct(queue), queue # <<>>, queue[1] = Holder, Advance(queue),
             \A o \in Ops : In(queue, o) <=> In(lock, o),
             \A p \in Procs :
                 /\ monitor'[p] \in {"queued", "inside"} <=> In(queue, p) /\ p # Leaver
                 /\ monitor'[p] = "inside" => monitor[p] = "inside",
             \A c \in Children :
                 /\ reaper'[c] \in {"queued", "inside"} <=> In(queue, c) /\ c # Leaver
                 /\ reaper'[c] = "inside" => reaper[c] = "inside"
      PROVE  QueueInv'
  <2>1. ASSUME NEW p \in Procs
        PROVE  (Lined(p)' <=> In(queue, p) /\ p # Leaver) /\ (Inside(p)' => Inside(p) /\ p # Leaver)
    BY <1>5, SupervisorAssumption DEF Lined, Inside
  <2>2. ASSUME NEW c \in Children
        PROVE  (Lined(c)' <=> In(queue, c) /\ c # Leaver) /\ (Inside(c)' => Inside(c) /\ c # Leaver)
    BY <1>5, SupervisorAssumption DEF Lined, Inside
  <2>3. \A x \in Tasks : x \notin Ops =>
            (Lined(x)' <=> In(queue, x) /\ x # Leaver) /\ (Inside(x)' => Inside(x) /\ x # Leaver)
    BY <2>1, <2>2 DEF Tasks
  <2> QED BY <1>1, <1>5, <2>3, LockAdvanced
<1> DEFINE MonitorsLeft ==
               \A p \in Procs : \/ monitor'[p] = IF p = Leaver THEN "none" ELSE monitor[p]
                                \/ monitor'[p] = "wait" /\ monitor[p] = "none"
           ReapersLeft ==
               \A c \in Children : \/ reaper'[c] = IF c = Leaver THEN "none" ELSE reaper[c]
                                   \/ reaper'[c] = "poll" /\ reaper[c] = "none"
<1>6. ASSUME Advance(lock), MonitorsLeft, ReapersLeft PROVE QueueInv'
  <2>1. ASSUME NEW p \in Procs
        PROVE  /\ monitor'[p] \in {"queued", "inside"} <=> In(lock, p) /\ p # Leaver
               /\ monitor'[p] = "inside" => monitor[p] = "inside"
    BY <1>4, <1>6
  <2>2. ASSUME NEW c \in Children
        PROVE  /\ reaper'[c] \in {"queued", "inside"} <=> In(lock, c) /\ c # Leaver
               /\ reaper'[c] = "inside" => reaper[c] = "inside"
    BY <1>4, <1>6
  <2> QED BY <1>2, <1>5, <1>6, <2>1, <2>2
<1>7. /\ \A t : \A p \in Procs : MonitorAfter(t)[p] = IF p = t THEN "none" ELSE monitor[p]
      /\ \A t : \A c \in Children : ReaperAfter(t)[c] = IF c = t THEN "none" ELSE reaper[c]
      /\ \A c \in Children : \/ Reapers(Step.on)[c] = IF c = Leaver THEN "none" ELSE reaper[c]
                             \/ Reapers(Step.on)[c] = "poll" /\ reaper[c] = "none"
  BY DEF MonitorAfter, ReaperAfter, Reapers, Reaped
<1> HIDE DEF MonitorsLeft, ReapersLeft
<1>8. ASSUME Step.do # "start" PROVE Leaver \notin Procs
  BY <1>3, <1>8, SupervisorAssumption DEF Leaver
<1>9. CASE BeginStart
  <2>1. /\ UNCHANGED <<lock, todo, of, at, monitor, reaper>>
        /\ phase' = "exec" /\ Step.do = "start"
    BY <1>9 DEF BeginStart, child, procs, tasks, ops
  <2>2. \A c \in Children : reaper[c] # "inside"
    BY <2>1 DEF QueueInv, ReapersStop, Step, Stop
  <2>3. \A t \in Tasks : (Lined(t)' <=> Lined(t)) /\ (Inside(t)' <=> Inside(t))
    BY <2>1 DEF Lined, Inside
  <2> QED BY <1>1, <2>1, <2>2, <2>3, QueueKept
<1>10. CASE StopTimeout
  <2>1. /\ UNCHANGED <<lock, todo, of, at, monitor, reaper>>
        /\ phase = "term" /\ phase' = "kill"
    BY <1>10 DEF StopTimeout, child, procs, tasks, ops
  <2>2. \A c \in Children : reaper[c] # "inside"
    BY <2>1 DEF QueueInv, ReapersStop
  <2>3. \A t \in Tasks : (Lined(t)' <=> Lined(t)) /\ (Inside(t)' <=> Inside(t))
    BY <2>1 DEF Lined, Inside
  <2> QED BY <1>1, <2>1, <2>2, <2>3, QueueKept
<1>11. CASE ExecFails
  <2>1. /\ monitor' = MonitorAfter(Leaver) /\ Advance(lock)
        /\ reaper' = ReaperAfter(Leaver) \/ reaper' = Reapers(Step.on)
    BY <1>11 DEF ExecFails
  <2>2. MonitorsLeft BY <1>7, <2>1 DEF MonitorsLeft
  <2>3. ReapersLeft BY <1>7, <2>1 DEF ReapersLeft
  <2> QED BY <1>6, <2>1, <2>2, <2>3
<1>12. CASE Skip
  <2>1. /\ UNCHANGED <<monitor, reaper>> /\ Advance(lock) /\ Step.do = "stop_running"
    BY <1>12 DEF Skip, tasks
  <2>2. Leaver \notin Procs /\ Leaver \notin Children
    BY <1>3, <1>8, <2>1, SupervisorAssumption DEF Leaver
  <2>3. MonitorsLeft BY <2>1, <2>2 DEF MonitorsLeft
  <2>4. ReapersLeft BY <2>1, <2>2 DEF ReapersLeft
  <2> QED BY <1>6, <2>1, <2>3, <2>4
<1>13. ASSUME NEW p \in Procs, Exec(p) PROVE QueueInv'
  <2>1. /\ monitor' = [MonitorAfter(Leaver) EXCEPT ![p] = "wait"] /\ Advance(lock)
        /\ reaper' = Reapers(Step.on) /\ monitor[p] = "none"
    BY <1>13 DEF Exec, Free
  <2>2. MonitorsLeft BY <1>7, <2>1 DEF MonitorAfter, MonitorsLeft
  <2>3. ReapersLeft BY <1>7, <2>1 DEF ReapersLeft
  <2> QED BY <1>6, <2>1, <2>2, <2>3
<1>14. ASSUME NEW c \in Children, StopGone(c) PROVE QueueInv'
  <2>1. monitor' = monitor /\ reaper' = ReaperAfter(Leaver) /\ Advance(lock) /\ Step.do # "start"
    BY <1>14 DEF StopGone, Stopping
  <2>2. MonitorsLeft BY <1>8, <2>1 DEF MonitorsLeft
  <2>3. ReapersLeft BY <1>7, <2>1 DEF ReapersLeft
  <2> QED BY <1>6, <2>1, <2>2, <2>3
<1>15. ASSUME NEW c \in Children, StopDone(c) PROVE QueueInv'
  <2>1. monitor' = MonitorAfter(Leaver) /\ reaper' = ReaperAfter(Leaver) /\ Advance(lock)
    BY <1>15 DEF StopDone
  <2>2. MonitorsLeft BY <1>7, <2>1 DEF MonitorsLeft
  <2>3. ReapersLeft BY <1>7, <2>1 DEF ReapersLeft
  <2> QED BY <1>6, <2>1, <2>2, <2>3
<1>16. ASSUME NEW c \in Children, StopByReaper(c) PROVE QueueInv'
  <2> DEFINE queue == Without(lock, latest[c])
  <2>1. /\ Holder = c /\ Step.do # "start" /\ Advance(queue)
        /\ monitor' = MonitorAfter(latest[c]) /\ reaper' = ReaperAfter(c)
    BY <1>16 DEF StopByReaper, Stopping
  <2>2. latest[c] \in Procs \cup {None}
    BY DEF TypeInv, TypeOK
  <2>3. lock[1] # latest[c] /\ Leaver = c
    <3>1. todo = <<Stop(c)>>
      BY <1>1, <2>1, HolderWorks
    <3>2. Len(todo) = 1
      BY <3>1
    <3> QED BY <1>2, <2>1, <2>2, <3>2, SupervisorAssumption DEF Leaver
  <2>4. /\ queue \in Seq(Tasks) /\ Distinct(queue) /\ queue # <<>> /\ queue[1] = Holder
        /\ \A x : In(queue, x) <=> In(lock, x) /\ x # latest[c]
    BY <1>2, <2>3, WithoutLeaves
  <2> HIDE DEF queue
  <2>5. \A o \in Ops : In(queue, o) <=> In(lock, o)
    BY <2>2, <2>4, SupervisorAssumption
  <2>6. ASSUME NEW p \in Procs
        PROVE  /\ monitor'[p] \in {"queued", "inside"} <=> In(queue, p) /\ p # Leaver
               /\ monitor'[p] = "inside" => monitor[p] = "inside"
    BY <1>4, <1>7, <2>1, <2>3, <2>4, SupervisorAssumption
  <2>7. ASSUME NEW d \in Children
        PROVE  /\ reaper'[d] \in {"queued", "inside"} <=> In(queue, d) /\ d # Leaver
               /\ reaper'[d] = "inside" => reaper[d] = "inside"
    BY <1>4, <1>7, <2>1, <2>2, <2>3, <2>4, SupervisorAssumption
  <2> QED BY <1>5, <2>1, <2>4, <2>5, <2>6, <2>7
<1>17. ASSUME NEW c \in Children, StopSignal(c) PROVE QueueInv'
  <2>1. /\ Holder # c /\ Step.do # "start" /\ Step.on = c
        /\ monitor' = MonitorAfter(latest[c]) /\ reaper' = ReaperAfter(c)
        /\ lock' = Without(Without(lock, c), latest[c]) /\ phase' = "term"
        /\ UNCHANGED <<todo, at, of>>
    BY <1>17 DEF StopSignal, Stopping, procs, ops
  <2>2. latest[c] \in Procs \cup {None}
    BY DEF TypeInv, TypeOK
  <2>3. Holder \in Ops
    BY <1>2, <1>3, <2>1 DEF Tasks
  <2>4. /\ Distinct(Without(lock, c)) /\ Without(lock, c) \in Seq(Tasks)
        /\ Without(lock, c) # <<>> /\ Without(lock, c)[1] = Holder
        /\ \A x : In(Without(lock, c), x) <=> In(lock, x) /\ x # c
    BY <1>2, <2>1, WithoutLeaves
  <2>5. /\ Distinct(lock') /\ lock' # <<>> /\ lock'[1] = Holder
        /\ \A x : In(lock', x) <=> In(lock, x) /\ x # c /\ x # latest[c]
    BY <2>1, <2>2, <2>3, <2>4, WithoutLeaves, SupervisorAssumption
  <2>6. ASSUME NEW t \in Tasks
        PROVE  /\ Lined(t)' <=> Lined(t) /\ t # c /\ t # latest[c]
               /\ Inside(t)' <=> Inside(t) /\ t # c /\ t # latest[c]
    BY <1>7, <2>1, <2>2, SupervisorAssumption DEF Lined, Inside, Tasks
  <2>7. Agree'
    <3>1. \A x \in Tasks : In(lock', x) <=> Lined(x)'
      BY <2>5, <2>6, QueueAgrees DEF Agree
    <3>2. \A x \in Tasks : In(lock, x)' <=> In(lock', x)
      BY DEF In
    <3>3. Distinct(lock)' <=> Distinct(lock')
      BY DEF Distinct
    <3> QED BY <1>2, <2>1, <2>5, <3>1, <3>2, <3>3 DEF Agree
  <2>8. ASSUME NEW t \in Tasks, Inside(t)' PROVE t = Holder
    BY <2>6, <2>8 DEF HolderInside, QueueInv, Holder
  <2>9. HolderInside'
    <3>1. at[Holder] = "inside"
      BY <1>1, <2>3, HolderWorks
    <3>2. Inside(lock[1])'
      BY <2>1, <2>3, <2>5, <3>1 DEF Inside
    <3> QED BY <2>1, <2>5, <2>8, <3>2 DEF HolderInside
  <2>10. MonitorsStart' /\ ReapersStop'
    BY <2>3, <2>8, SupervisorAssumption DEF MonitorsStart, ReapersStop, Inside, Tasks
  <2> QED BY <2>7, <2>9, <2>10, AgreeMatchesNext DEF QueueInv
<1> QED BY <1>9, <1>10, <1>11, <1>12, <1>13, <1>14, <1>15, <1>16, <1>17 DEF Holding

(* A call that has got the lock: the monitor it cancels was not its holder. *)
LEMMA CalledQueue ==
    ASSUME TypeInv, QueueInv, phase = "idle", NEW o \in Ops, NEW r \in Request,
           NEW plan \in Plans(r), lock # <<>> => lock[1] = o, Called(o, r, plan)
    PROVE  QueueInv'
<1> DEFINE cancelled == IF r.do = "stop" /\ status[r.on] = "crashed" THEN latest[r.on] ELSE None
           base == IF plan = <<>> THEN Others ELSE <<o>> \o Others
<1>1. /\ lock' = Without(base, cancelled) /\ phase' = IF plan = <<>> THEN "idle" ELSE "next"
      /\ todo' = plan /\ UNCHANGED <<of, reaper>>
      /\ at' = [at EXCEPT ![o] = IF r.do = "drain" /\ Running(r.on) THEN "draining"
                                 ELSE IF plan = <<>> THEN "done" ELSE "inside"]
  BY DEF Called, procs
<1>2. cancelled \in Procs \cup {None}
  <2>1. r.do = "stop" => r.on \in Children
    BY DEF Request
  <2> QED BY <2>1 DEF TypeInv, TypeOK
<1>3. \A p \in Procs : monitor'[p] = IF p = cancelled THEN "none" ELSE monitor[p]
  <2>1. CASE r.do = "stop" /\ status[r.on] = "crashed"
    BY <2>1 DEF Called, Enter, MonitorAfter
  <2>2. CASE ~(r.do = "stop" /\ status[r.on] = "crashed")
    <3>1. monitor' = monitor /\ cancelled = None
      BY <2>2 DEF Called, Enter
    <3> QED BY <3>1, SupervisorAssumption
  <2> QED BY <2>1, <2>2
<1>4. r.do = "drain" => plan = <<>>
  BY DEF Plans
<1>5. /\ Others \in Seq(Tasks) /\ Distinct(Others)
      /\ \A x : In(Others, x) <=> In(lock, x) /\ x # o
  <2>1. CASE lock = <<>>
    BY <2>1 DEF Others, Distinct, In
  <2>2. CASE lock # <<>>
    BY <2>2, QueueOfTasks, TailLeaves DEF Others
  <2> QED BY <2>1, <2>2
<1>6. /\ base \in Seq(Tasks) /\ Distinct(base)
      /\ \A x : In(base, x) <=> IF x = o THEN plan # <<>> ELSE In(lock, x)
      /\ plan # <<>> => base # <<>> /\ base[1] = o
  <2>1. CASE plan = <<>>
    BY <1>5, <2>1
  <2>2. CASE plan # <<>>
    <3>1. o \in Tasks /\ ~In(Others, o) /\ base = <<o>> \o Others
      BY <1>5, <2>2 DEF Tasks
    <3> HIDE DEF base
    <3>2. /\ base \in Seq(Tasks) /\ Distinct(base) /\ base # <<>> /\ base[1] = o
          /\ \A x : In(base, x) <=> In(Others, x) \/ x = o
      BY <1>5, <3>1, FrontJoins
    <3> QED BY <1>5, <2>2, <3>2
  <2> QED BY <2>1, <2>2
<1> HIDE DEF cancelled, base
<1>7. /\ Distinct(lock')
      /\ \A x : In(lock', x) <=> In(base, x) /\ x # cancelled
      /\ plan # <<>> => lock' # <<>> /\ lock'[1] = o
  <2>1. o # cancelled
    BY <1>2, SupervisorAssumption
  <2> QED BY <1>1, <1>6, <2>1, WithoutLeaves
<1>8. ASSUME NEW x \in Tasks
      PROVE  /\ Lined(x)' <=> IF x = o THEN plan # <<>> ELSE Lined(x) /\ x # cancelled
             /\ Inside(x)' => (x = o /\ plan # <<>>) \/ Inside(x)
  <2>1. CASE x \in Ops
    <3>1. at'[x] = IF x = o THEN IF r.do = "drain" /\ Running(r.on) THEN "draining"
                                 ELSE IF plan = <<>> THEN "done" ELSE "inside"
                   ELSE at[x]
      BY <1>1, <2>1 DEF TypeInv, TypeOK
    <3>2. x \notin Procs /\ x \notin Children /\ x # cancelled
      BY <1>2, <2>1, SupervisorAssumption
    <3> QED BY <1>4, <2>1, <3>1, <3>2 DEF Lined, Inside
  <2>2. CASE x \in Procs
    <3>1. x \notin Ops /\ x \notin Children /\ x # o
      BY <2>2, SupervisorAssumption
    <3>2. monitor'[x] = IF x = cancelled THEN "none" ELSE monitor[x]
      BY <1>3, <2>2
    <3> QED BY <2>2, <3>1, <3>2 DEF Lined, Inside
  <2>3. CASE x \in Children
    <3>1. x \notin Ops /\ x \notin Procs /\ x # o /\ x # cancelled
      BY <1>2, <2>3, SupervisorAssumption
    <3> QED BY <1>1, <2>3, <3>1 DEF Lined, Inside
  <2> QED BY <2>1, <2>2, <2>3 DEF Tasks
<1>9. Agree'
  <2>1. ASSUME NEW x \in Tasks PROVE In(lock', x) <=> Lined(x)'
    <3>1. In(lock, x) <=> Lined(x)
      BY QueueAgrees DEF Agree
    <3>2. o # cancelled
      BY <1>2, SupervisorAssumption
    <3> QED BY <1>6, <1>7, <1>8, <3>1, <3>2
  <2>2. \A x \in Tasks : In(lock, x)' <=> In(lock', x)
    BY DEF In
  <2>3. Distinct(lock)' <=> Distinct(lock')
    BY DEF Distinct
  <2> QED BY <1>1, <1>7, <2>1, <2>2, <2>3 DEF Agree
<1>10. ASSUME NEW x \in Tasks, Inside(x)' PROVE x = o /\ plan # <<>>
  <2>1. ~Inside(x)
    BY DEF HolderInside, QueueInv
  <2> QED BY <1>8, <1>10, <2>1
<1>11. HolderInside'
  <2>1. ASSUME plan # <<>> PROVE Inside(lock[1])'
    <3>1. at'[o] = "inside"
      BY <1>1, <1>4, <2>1 DEF TypeInv, TypeOK
    <3>2. lock'[1] = o
      BY <1>7, <2>1
    <3> QED BY <3>1, <3>2 DEF Inside
  <2> QED BY <1>1, <1>7, <1>10, <2>1 DEF HolderInside
<1>12. MonitorsStart' /\ ReapersStop'
  BY <1>10, SupervisorAssumption DEF MonitorsStart, ReapersStop, Inside, Tasks
<1> QED BY <1>9, <1>11, <1>12, AgreeMatchesNext DEF QueueInv

\* The callers' steps keep tasks and queue in agreement.
LEMMA CallingQueue ==
    ASSUME TypeInv, QueueInv, Calling PROVE QueueInv'
<1>1. PICK o \in Ops : \/ \E r \in Requests[o] : Call(o, r)
                       \/ Proceed(o) \/ DrainEnds(o) \/ DrainStops(o)
  BY DEF Calling
<1>2. o \in Tasks /\ o \notin Procs /\ o \notin Children
  BY SupervisorAssumption DEF Tasks
<1>3. ASSUME UNCHANGED <<monitor, reaper>>, NEW s, at' = [at EXCEPT ![o] = s]
      PROVE  /\ \A x \in Tasks : x # o => (Lined(x)' <=> Lined(x)) /\ (Inside(x)' <=> Inside(x))
             /\ Lined(o)' <=> s \in {"queued", "inside", "requeued"}
             /\ Inside(o)' <=> s = "inside"
  <2>1. at'[o] = s /\ \A x \in Ops : x # o => at'[x] = at[x]
    BY <1>3 DEF TypeInv, TypeOK
  <2> QED BY <1>2, <1>3, <2>1 DEF Lined, Inside
<1>4. Lined(o) <=> at[o] \in {"queued", "inside", "requeued"}
  BY <1>2 DEF Lined
<1>5. ASSUME NEW r \in Requests[o], Call(o, r) PROVE QueueInv'
  <2>1. r \in Request /\ at[o] = "uncalled"
    BY <1>5, SupervisorAssumption DEF Call
  <2>2. CASE lock = <<>>
    <3>1. PICK plan \in Plans(r) : Called(o, r, plan)
      BY <1>5, <2>2 DEF Call, Waits
    <3> QED BY <2>1, <2>2, <3>1, QueueOfTasks, CalledQueue
  <2>3. CASE lock # <<>>
    <3>1. /\ Waits(o) /\ at' = [at EXCEPT ![o] = "queued"]
          /\ UNCHANGED <<of, monitor, reaper, phase, todo>>
      BY <1>5, <2>3 DEF Call, Gets, procs, tasks
    <3>2. /\ \A x \in Tasks : x # o => (Lined(x)' <=> Lined(x)) /\ (Inside(x)' <=> Inside(x))
          /\ Lined(o)' <=> "queued" \in {"queued", "inside", "requeued"}
          /\ Inside(o)' <=> "queued" = "inside"
      BY <1>3, <3>1
    <3>3. ~Lined(o)
      BY <1>4, <2>1
    <3> QED BY <1>2, <3>1, <3>2, <3>3, QueueJoined
  <2> QED BY <2>2, <2>3
<1>6. CASE Proceed(o)
  <2>1. ask[o] \in Request /\ lock # <<>> /\ lock[1] = o /\ phase = "idle"
    BY <1>6 DEF Proceed, Gets, TypeInv, Asked
  <2>2. PICK plan \in Plans(ask[o]) : Called(o, ask[o], plan)
    BY <1>6 DEF Proceed
  <2> QED BY <2>1, <2>2, CalledQueue
<1>7. CASE DrainEnds(o) \/ DrainStops(o)
  <2>1. ask[o] \in Request /\ ask[o].do = "drain" /\ ask[o].on \in Children
    BY <1>7 DEF DrainEnds, DrainStops, Request, TypeInv, Asked
  <2>2. DrainPlan(o) \in Seq(Steps) /\ UNCHANGED <<of, monitor, reaper>>
    BY <1>7, <2>1, OneStep DEF DrainPlan, DrainEnds, DrainStops, procs, tasks
  <2>3. CASE (Gets(o, TRUE) \/ Gets(o, FALSE)) /\ Holds(o, DrainPlan(o))
             /\ at' = [at EXCEPT ![o] = IF DrainPlan(o) = <<>> THEN "done" ELSE "inside"]
    <3> DEFINE s == IF DrainPlan(o) = <<>> THEN "done" ELSE "inside"
    <3>1. at' = [at EXCEPT ![o] = s]
      BY <2>3
    <3>2. /\ s \in {"queued", "inside", "requeued"} <=> DrainPlan(o) # <<>>
          /\ s = "inside" <=> DrainPlan(o) # <<>>
      OBVIOUS
    <3> HIDE DEF s
    <3>3. /\ \A x \in Tasks : x # o => (Lined(x)' <=> Lined(x)) /\ (Inside(x)' <=> Inside(x))
          /\ Lined(o)' <=> DrainPlan(o) # <<>>
          /\ Inside(o)' <=> DrainPlan(o) # <<>>
      BY <1>3, <2>2, <3>1, <3>2
    <3> QED BY <1>2, <2>2, <2>3, <3>3, LockTaken
  <2>4. CASE DrainEnds(o) /\ Waits(o) /\ at' = [at EXCEPT ![o] = "requeued"]
             /\ UNCHANGED <<phase, todo, victim>>
    <3>1. /\ \A x \in Tasks : x # o => (Lined(x)' <=> Lined(x)) /\ (Inside(x)' <=> Inside(x))
          /\ ~Lined(o) /\ Lined(o)' /\ ~Inside(o)'
      BY <1>3, <1>4, <2>2, <2>4 DEF DrainEnds
    <3> QED BY <1>2, <2>2, <2>4, <3>1, QueueJoined
  <2> QED BY <1>7, <2>3, <2>4 DEF DrainEnds, DrainStops
<1> QED BY <1>1, <1>5, <1>6, <1>7

\* The monitors' steps keep tasks and queue in agreement.
LEMMA MonitoringQueue ==
    ASSUME TypeInv, QueueInv, phase # "next", Monitoring PROVE QueueInv'
<1>1. PICK p \in Procs : \/ MonitorStopping(p) \/ MonitorOnDemand(p) \/ MonitorLeaves(p)
                         \/ \E refilled \in BOOLEAN : MonitorSchedules(p, refilled)
                         \/ MonitorDue(p) \/ MonitorRestarts(p)
  BY DEF Monitoring
<1>2. p \in Tasks /\ p \notin Ops /\ p \notin Children
  BY SupervisorAssumption DEF Tasks
<1>3. ASSUME UNCHANGED <<at, reaper>>, NEW s, monitor' = [monitor EXCEPT ![p] = s]
      PROVE  /\ \A x \in Tasks : x # p => (Lined(x)' <=> Lined(x)) /\ (Inside(x)' <=> Inside(x))
             /\ Lined(p)' <=> s \in {"queued", "inside"}
             /\ Inside(p)' <=> s = "inside"
  <2>1. monitor'[p] = s /\ \A x \in Procs : x # p => monitor'[x] = monitor[x]
    BY <1>3 DEF TypeInv, TypeOK
  <2> QED BY <1>2, <1>3, <2>1 DEF Lined, Inside
<1>4. /\ Lined(p) <=> monitor[p] \in {"queued", "inside"}
      /\ Inside(p) <=> monitor[p] = "inside"
  BY <1>2 DEF Lined, Inside
<1>5. ASSUME Exited(p), UNCHANGED <<at, reaper, lock, todo, of, phase>>,
             NEW s \in {"none", "backoff"}, monitor' = [monitor EXCEPT ![p] = s]
      PROVE  QueueInv'
  <2>1. monitor[p] = "wait"
    BY <1>5 DEF Exited
  <2>2. \A t \in Tasks : (Lined(t)' <=> Lined(t)) /\ (Inside(t)' <=> Inside(t))
    BY <1>3, <1>4, <1>5, <2>1
  <2> QED BY <1>5, <2>2, QueueKept
<1>6. CASE MonitorStopping(p) \/ MonitorLeaves(p)
  BY <1>5, <1>6 DEF MonitorStopping, MonitorLeaves, procs, ops, mutex
<1>7. ASSUME NEW refilled \in BOOLEAN, MonitorSchedules(p, refilled) PROVE QueueInv'
  BY <1>5, <1>7 DEF MonitorSchedules, procs, ops, mutex
<1>8. CASE MonitorOnDemand(p)
  <2> DEFINE c == of[p]
  <2>1. /\ c \in Children /\ monitor[p] = "wait"
        /\ monitor' = [monitor EXCEPT ![p] = "none"] /\ reaper' = ReaperAfter(c)
        /\ lock' = Without(lock, c) /\ UNCHANGED <<of, at, phase, todo>>
    BY <1>8 DEF MonitorOnDemand, Exited, procs, ops, TypeInv, Owned
  <2> HIDE DEF c
  <2>2. /\ \A q \in Procs : monitor'[q] = IF q = p THEN "none" ELSE monitor[q]
        /\ \A d \in Children : reaper'[d] = IF d = c THEN "none" ELSE reaper[d]
    BY <2>1 DEF ReaperAfter, TypeInv, TypeOK
  <2>3. reaper[c] # "inside" /\ c \notin Ops /\ c \notin Procs
    BY <2>1, SupervisorAssumption DEF QueueInv, ReapersStop
  <2>4. ASSUME NEW x \in Tasks
        PROVE  /\ Lined(x)' <=> Lined(x) /\ x # c
               /\ Inside(x)' <=> Inside(x)
    <3>1. CASE x \in Ops
      BY <2>1, <2>3, <3>1, SupervisorAssumption DEF Lined, Inside
    <3>2. CASE x \in Procs
      <4>1. x \notin Ops /\ x \notin Children /\ x # c
        BY <2>3, <3>2, SupervisorAssumption
      <4> QED BY <2>1, <2>2, <3>2, <4>1 DEF Lined, Inside
    <3>3. CASE x \in Children
      <4>1. x \notin Ops /\ x \notin Procs
        BY <3>3, SupervisorAssumption
      <4> QED BY <2>2, <2>3, <3>3, <4>1 DEF Lined, Inside
    <3> QED BY <3>1, <3>2, <3>3 DEF Tasks
  <2>5. ~Inside(c)
    BY <2>3 DEF Inside
  <2>6. /\ Distinct(lock')
        /\ \A x : In(lock', x) <=> In(lock, x) /\ x # c
        /\ phase # "idle" => lock' # <<>> /\ lock'[1] = lock[1]
    BY <2>1, <2>5, QueueOfTasks, WithoutLeaves DEF HolderInside, QueueInv
  <2>7. Agree'
    <3>1. \A x \in Tasks : In(lock', x) <=> Lined(x)'
      BY <2>4, <2>6, QueueAgrees DEF Agree
    <3>2. \A x \in Tasks : In(lock, x)' <=> In(lock', x)
      BY DEF In
    <3>3. Distinct(lock)' <=> Distinct(lock')
      BY DEF Distinct
    <3> QED BY <2>1, <2>6, <3>1, <3>2, <3>3, QueueAgrees DEF Agree
  <2>8. HolderInside'
    <3>1. ASSUME phase # "idle" PROVE Inside(lock[1])'
      <4>1. Inside(lock[1]) /\ lock[1] \in Tasks
        BY <3>1, QueueOfTasks DEF HolderInside, QueueInv
      <4>2. \A x \in Tasks : Inside(x) => Inside(x)'
        BY <2>4
      <4>3. lock'[1] = lock[1]
        BY <2>6, <3>1
      <4> QED BY <4>1, <4>2, <4>3 DEF Inside
    <3>2. ASSUME NEW x \in Tasks, Inside(x)' PROVE phase' # "idle" /\ x = lock'[1]
      BY <2>1, <2>4, <2>6, <3>2 DEF HolderInside, QueueInv
    <3> QED BY <2>1, <2>6, <3>1, <3>2 DEF HolderInside
  <2>9. MonitorsStart' /\ ReapersStop'
    BY <2>1, <2>2 DEF MonitorsStart, ReapersStop, QueueInv
  <2> QED BY <2>7, <2>8, <2>9, AgreeMatchesNext DEF QueueInv
<1>9. CASE MonitorDue(p) \/ MonitorRestarts(p)
  <2>1. monitor[p] # "none" /\ of[p] \in Children
    BY <1>9 DEF MonitorDue, MonitorRestarts, TypeInv, Owned
  <2>2. /\ MonitorPlan(p) \in Seq(Steps) /\ UNCHANGED <<of, at, reaper>>
        /\ MonitorPlan(p) # <<>> => MonitorPlan(p) = <<Start(of'[p])>>
    BY <1>9, <2>1, OneStep DEF MonitorPlan, MonitorDue, MonitorRestarts, procs, ops
  <2>3. CASE (Gets(p, TRUE) \/ Gets(p, FALSE)) /\ Holds(p, MonitorPlan(p))
             /\ monitor' = [monitor EXCEPT ![p] = IF MonitorPlan(p) = <<>> THEN "none" ELSE "inside"]
    <3> DEFINE s == IF MonitorPlan(p) = <<>> THEN "none" ELSE "inside"
    <3>1. monitor' = [monitor EXCEPT ![p] = s]
      BY <2>3
    <3>2. /\ s \in {"queued", "inside"} <=> MonitorPlan(p) # <<>>
          /\ s = "inside" <=> MonitorPlan(p) # <<>>
      OBVIOUS
    <3> HIDE DEF s
    <3>3. /\ \A x \in Tasks : x # p => (Lined(x)' <=> Lined(x)) /\ (Inside(x)' <=> Inside(x))
          /\ Lined(p)' <=> MonitorPlan(p) # <<>>
          /\ Inside(p)' <=> MonitorPlan(p) # <<>>
      BY <1>3, <2>2, <3>1, <3>2
    <3> QED BY <1>2, <2>2, <2>3, <3>3, LockTaken
  <2>4. CASE MonitorDue(p) /\ Waits(p) /\ monitor' = [monitor EXCEPT ![p] = "queued"]
             /\ UNCHANGED <<phase, todo, victim>>
    <3>1. /\ \A x \in Tasks : x # p => (Lined(x)' <=> Lined(x)) /\ (Inside(x)' <=> Inside(x))
          /\ ~Lined(p) /\ Lined(p)' /\ ~Inside(p)'
      BY <1>3, <1>4, <2>2, <2>4 DEF MonitorDue
    <3> QED BY <1>2, <2>2, <2>4, <3>1, QueueJoined
  <2> QED BY <1>9, <2>3, <2>4 DEF MonitorDue, MonitorRestarts
<1> QED BY <1>1, <1>6, <1>7, <1>8, <1>9

\* The reapers' steps keep tasks and queue in agreement.
LEMMA ReapingQueue ==
    ASSUME TypeInv, QueueInv, Reaping PROVE QueueInv'
<1>1. PICK c \in Children : ReaperLeaves(c) \/ ReaperFires(c) \/ ReaperStops(c)
  BY DEF Reaping
<1>2. /\ c \in Tasks /\ c \notin Ops /\ c \notin Procs
      /\ UNCHANGED <<at, monitor, of>>
  BY <1>1, SupervisorAssumption
     DEF Tasks, ReaperLeaves, ReaperFires, ReaperStops, procs, ops
<1>3. ASSUME NEW s, reaper' = [reaper EXCEPT ![c] = s]
      PROVE  /\ \A x \in Tasks : x # c => (Lined(x)' <=> Lined(x)) /\ (Inside(x)' <=> Inside(x))
             /\ Lined(c)' <=> s \in {"queued", "inside"}
             /\ Inside(c)' <=> s = "inside"
  <2>1. reaper'[c] = s /\ \A x \in Children : x # c => reaper'[x] = reaper[x]
    BY <1>3 DEF TypeInv, TypeOK
  <2> QED BY <1>2, <1>3, <2>1 DEF Lined, Inside
<1>4. /\ Lined(c) <=> reaper[c] \in {"queued", "inside"}
      /\ Inside(c) <=> reaper[c] = "inside"
  BY <1>2 DEF Lined, Inside
<1>5. CASE ReaperLeaves(c)
  <2>1. /\ reaper' = [reaper EXCEPT ![c] = "none"] /\ reaper[c] = "poll"
        /\ UNCHANGED <<lock, todo, phase>>
    BY <1>5 DEF ReaperLeaves, mutex
  <2>2. /\ \A x \in Tasks : x # c => (Lined(x)' <=> Lined(x)) /\ (Inside(x)' <=> Inside(x))
        /\ Lined(c)' <=> "none" \in {"queued", "inside"}
        /\ Inside(c)' <=> "none" = "inside"
    BY <1>3, <2>1
  <2>3. ~Lined(c) /\ ~Inside(c)
    BY <1>4, <2>1
  <2>4. \A t \in Tasks : (Lined(t)' <=> Lined(t)) /\ (Inside(t)' <=> Inside(t))
    BY <2>2, <2>3
  <2> QED BY <1>2, <2>1, <2>4, QueueKept
<1>6. /\ ReaperPlan(c) \in Seq(Steps)
      /\ ReaperPlan(c) # <<>> => ReaperPlan(c) = <<Stop(c)>>
  BY OneStep DEF ReaperPlan
<1>7. ASSUME Gets(c, TRUE) \/ Gets(c, FALSE), Holds(c, ReaperPlan(c)),
             NEW s, reaper' = [reaper EXCEPT ![c] = s],
             s = IF ReaperPlan(c) = <<>> THEN "none" ELSE "inside"
      PROVE  QueueInv'
  <2>1. /\ s \in {"queued", "inside"} <=> ReaperPlan(c) # <<>>
        /\ s = "inside" <=> ReaperPlan(c) # <<>>
    BY <1>7
  <2>2. /\ \A x \in Tasks : x # c => (Lined(x)' <=> Lined(x)) /\ (Inside(x)' <=> Inside(x))
        /\ Lined(c)' <=> s \in {"queued", "inside"}
        /\ Inside(c)' <=> s = "inside"
    BY <1>3, <1>7
  <2> QED BY <1>2, <1>6, <1>7, <2>1, <2>2, LockTaken
<1>8. CASE ReaperStops(c)
  BY <1>7, <1>8 DEF ReaperStops
<1>9. CASE ReaperFires(c)
  <2>1. CASE Gets(c, TRUE) /\ Holds(c, ReaperPlan(c)) /\ reaper' = [reaper EXCEPT ![c] = "inside"]
    <3>1. ReaperPlan(c) # <<>>
      BY <1>9 DEF ReaperFires, ReaperPlan
    <3> QED BY <1>7, <2>1, <3>1
  <2>2. CASE Waits(c) /\ reaper' = [reaper EXCEPT ![c] = "queued"] /\ UNCHANGED <<phase, todo, victim>>
    <3>1. /\ \A x \in Tasks : x # c => (Lined(x)' <=> Lined(x)) /\ (Inside(x)' <=> Inside(x))
          /\ ~Lined(c) /\ Lined(c)' /\ ~Inside(c)'
      BY <1>3, <1>4, <1>9, <2>2 DEF ReaperFires
    <3> QED BY <1>2, <2>2, <3>1, QueueJoined
  <2> QED BY <1>9, <2>1, <2>2 DEF ReaperFires
<1> QED BY <1>1, <1>5, <1>8, <1>9

\* Every step keeps tasks and queue in agreement.
LEMMA QueueNext == ASSUME TypeInv, QueueInv, [Next]_vars PROVE QueueInv'
<1>1. ASSUME UNCHANGED <<lock, todo, of, phase, at, monitor, reaper>> PROVE QueueInv'
  <2>1. \A t \in Tasks : (Lined(t)' <=> Lined(t)) /\ (Inside(t)' <=> Inside(t))
    BY <1>1 DEF Lined, Inside
  <2> QED BY <1>1, <2>1, QueueKept
<1>2. CASE Holding BY <1>2, HoldingQueue
<1>3. CASE Calling BY <1>3, CallingQueue
<1>4. CASE Working
  BY <1>1, <1>4 DEF Working, BeginWork, EndWork, procs, tasks, ops, mutex
<1>5. CASE Monitoring /\ phase # "next" BY <1>5, MonitoringQueue
<1>6. CASE Reaping BY <1>6, ReapingQueue
<1>7. CASE Exiting
  BY <1>1, <1>7 DEF Exiting, Exits, tasks, ops, mutex
<1>8. CASE UNCHANGED vars
  BY <1>1, <1>8 DEF vars, procs, tasks, ops, mutex
<1> QED BY <1>2, <1>3, <1>4, <1>5, <1>6, <1>7, <1>8 DEF Next

\* No task and an empty queue agree.
LEMMA QueueInit == Init => QueueInv
<1> SUFFICES ASSUME Init PROVE QueueInv
  OBVIOUS
<1>1. QueueMatchesTasks
  BY DEF Init, QueueMatchesTasks, Queued
<1>2. HolderInside
  BY DEF Init, HolderInside, Inside
<1>3. MonitorsStart /\ ReapersStop
  BY DEF Init, MonitorsStart, ReapersStop
<1> QED BY <1>1, <1>2, <1>3 DEF QueueInv

\* The types and the agreement hold throughout.
LEMMA Inductive == Spec => [](TypeInv /\ QueueInv)
<1>1. Init => TypeInv /\ QueueInv
  BY TypeInit, QueueInit
<1>2. TypeInv /\ QueueInv /\ [Next]_vars => (TypeInv /\ QueueInv)'
  BY TypeNext, QueueNext
<1> QED BY <1>1, <1>2, PTL DEF Spec

(* The variables of the supervisor have their types whatever is called,     *)
(* crashes or is cancelled; in particular a step never finds an empty plan,  *)
(* nor a lock without its holder (supervisor.py:173-199).                   *)
THEOREM TypeCorrect == Spec => []TypeOK
<1>1. TypeInv => TypeOK
  BY DEF TypeInv
<1> QED BY <1>1, Inductive, PTL

(***************************************************************************)
(* The process of a running child.  Given the typing this is inductive: a   *)
(* process object is only forgotten together with the status, and a slot    *)
(* that a child refers to is not given to another.                          *)
(***************************************************************************)
LEMMA ProcessKept ==
    ASSUME RunningHasProcess,
           \A c \in Children : status'[c] \in {"running", "draining"} =>
               status[c] \in {"running", "draining"} /\ proc'[c] = proc[c],
           of' = of
    PROVE  RunningHasProcess'
BY DEF RunningHasProcess

\* Every step leaves a running child with its process.
LEMMA ProcessNext ==
    ASSUME TypeInv, QueueInv, RunningHasProcess, [Next]_vars PROVE RunningHasProcess'
<1> USE ProcessKept DEF child, procs, tasks, ops, mutex
<1> DEFINE Settles(c) == \E stepped \in BOOLEAN : Settled(c, stepped) /\ of' = of
<1>1. status \in [Children -> Statuses] /\ proc \in [Children -> Procs \cup {None}]
  BY DEF TypeInv, TypeOK, Statuses
<1>2. ASSUME NEW c \in Children, Settles(c) PROVE RunningHasProcess'
  <2>1. \A d \in Children : status'[d] \in {"running", "draining"} =>
            status[d] \in {"running", "draining"} /\ proc'[d] = proc[d]
    BY <1>1, <1>2 DEF Settled
  <2> QED BY <1>2, <2>1
<1>3. ASSUME NEW c \in Children, NEW s \in Statuses \ {"running", "draining"},
             status' = [status EXCEPT ![c] = s], UNCHANGED <<proc, of>>
      PROVE  RunningHasProcess'
  <2>1. \A d \in Children : status'[d] \in {"running", "draining"} =>
            status[d] \in {"running", "draining"} /\ proc'[d] = proc[d]
    BY <1>1, <1>3
  <2> QED BY <1>3, <2>1
<1>4. ASSUME UNCHANGED <<status, proc, of>> PROVE RunningHasProcess'
  BY <1>4 DEF RunningHasProcess
<1>5. ASSUME NEW o \in Ops, NEW r \in Request, NEW plan, Called(o, r, plan)
      PROVE  RunningHasProcess'
  <2>1. Enter(o, r) /\ UNCHANGED <<proc, of>>
    BY <1>5 DEF Called
  <2>2. r.do \in {"stop", "drain"} => r.on \in Children
    BY DEF Request
  <2>3. \A d \in Children : status'[d] \in {"running", "draining"} =>
            status[d] \in {"running", "draining"} /\ proc'[d] = proc[d]
    <3>1. CASE r.do = "stop" /\ status[r.on] = "crashed"
      BY <1>1, <2>1, <2>2, <3>1 DEF Enter
    <3>2. CASE ~(r.do = "stop" /\ status[r.on] = "crashed")
      BY <1>1, <2>1, <2>2, <3>2 DEF Enter, Running
    <3> QED BY <3>1, <3>2
  <2> QED BY <2>1, <2>3
<1>6. CASE Holding
  <2>1. phase # "idle"
    BY <1>6 DEF Holding, BeginStart, ExecFails, Skip, StopTimeout, Exec, StopGone, StopSignal,
                StopByReaper, StopDone, Stopping
  <2>2. Step.on \in Children
    BY <2>1, HolderWorks DEF Steps
  <2>3. CASE BeginStart \/ ExecFails \/ Skip \/ StopTimeout
    BY <1>4, <2>3 DEF BeginStart, ExecFails, Skip, StopTimeout
  <2>4. ASSUME NEW p \in Procs, Exec(p) PROVE RunningHasProcess'
    <3>1. /\ status' = [status EXCEPT ![Step.on] = "running"]
          /\ proc' = [proc EXCEPT ![Step.on] = p]
          /\ of' = [of EXCEPT ![p] = Step.on]
          /\ \A c \in Children : proc[c] # p
      BY <2>4 DEF Exec, Free
    <3>2. ASSUME NEW c \in Children, status'[c] \in {"running", "draining"}
          PROVE  proc'[c] # None /\ of'[proc'[c]] = c
      <4>1. CASE c = Step.on
        <5>1. proc'[c] = p /\ of'[p] = c
          BY <1>1, <3>1, <4>1 DEF TypeInv, TypeOK
        <5> QED BY <5>1, SupervisorAssumption
      <4>2. CASE c # Step.on
        <5>1. /\ proc'[c] = proc[c] /\ status'[c] = status[c]
              /\ proc[c] # None /\ proc[c] \in Procs /\ of[proc[c]] = c
          BY <1>1, <3>1, <3>2, <4>2 DEF RunningHasProcess
        <5> QED BY <3>1, <5>1 DEF TypeInv, TypeOK
      <4> QED BY <4>1, <4>2
    <3> QED BY <3>2 DEF RunningHasProcess
  <2>5. ASSUME NEW c \in Children, StopGone(c) \/ StopByReaper(c) \/ StopDone(c)
        PROVE  RunningHasProcess'
    BY <1>2, <2>5 DEF StopGone, StopByReaper, StopDone
  <2>6. ASSUME NEW c \in Children, StopSignal(c) PROVE RunningHasProcess'
    BY <1>3, <2>6 DEF StopSignal, Statuses
  <2> QED BY <1>6, <2>3, <2>4, <2>5, <2>6 DEF Holding
<1>7. CASE Calling
  <2>1. PICK o \in Ops : \/ \E r \in Requests[o] : Call(o, r)
                         \/ Proceed(o) \/ DrainEnds(o) \/ DrainStops(o)
    BY <1>7 DEF Calling
  <2>2. ASSUME NEW r \in Requests[o], Call(o, r) PROVE RunningHasProcess'
    BY <1>4, <1>5, <2>2, SupervisorAssumption DEF Call
  <2>3. CASE Proceed(o)
    <3>1. ask[o] \in Request
      BY <2>3 DEF Proceed, TypeInv, Asked
    <3> QED BY <1>5, <2>3, <3>1 DEF Proceed
  <2>4. CASE DrainEnds(o) \/ DrainStops(o)
    BY <1>4, <2>4 DEF DrainEnds, DrainStops
  <2> QED BY <2>1, <2>2, <2>3, <2>4
<1>8. CASE Working
  BY <1>4, <1>8 DEF Working, BeginWork, EndWork
<1>9. CASE Monitoring
  <2>1. PICK p \in Procs : \/ MonitorStopping(p) \/ MonitorOnDemand(p) \/ MonitorLeaves(p)
                           \/ \E refilled \in BOOLEAN : MonitorSchedules(p, refilled)
                           \/ MonitorDue(p) \/ MonitorRestarts(p)
    BY <1>9 DEF Monitoring
  <2>2. CASE MonitorDue(p) \/ MonitorRestarts(p)
    BY <1>4, <2>2 DEF MonitorDue, MonitorRestarts
  <2>3. ASSUME Exited(p) PROVE of[p] \in Children
    BY <2>3 DEF Exited, TypeInv, Owned
  <2>4. CASE MonitorStopping(p) \/ MonitorLeaves(p)
    BY <1>3, <2>3, <2>4 DEF MonitorStopping, MonitorLeaves, Statuses
  <2>5. CASE MonitorOnDemand(p)
    BY <1>2, <2>3, <2>5 DEF MonitorOnDemand
  <2>6. ASSUME NEW refilled \in BOOLEAN, MonitorSchedules(p, refilled) PROVE RunningHasProcess'
    BY <1>3, <2>3, <2>6 DEF MonitorSchedules, Statuses
  <2> QED BY <2>1, <2>2, <2>4, <2>5, <2>6
<1>10. CASE Reaping
  BY <1>4, <1>10 DEF Reaping, ReaperLeaves, ReaperFires, ReaperStops
<1>11. CASE Exiting
  BY <1>4, <1>11 DEF Exiting, Exits
<1>12. CASE UNCHANGED vars
  BY <1>4, <1>12 DEF vars
<1> QED BY <1>6, <1>7, <1>8, <1>9, <1>10, <1>11, <1>12 DEF Next

(* A child said to run or to drain has the process object that was started  *)
(* for it, for any number of children, processes and overlapping calls,     *)
(* including those of a child that ends up with two processes               *)
(* (supervisor.py:537-553, 593-600).                                       *)
THEOREM RunningIsBacked == Spec => []RunningHasProcess
<1>1. Init => RunningHasProcess
  BY DEF Init, RunningHasProcess
<1>2. TypeInv /\ QueueInv /\ RunningHasProcess /\ [Next]_vars => RunningHasProcess'
  BY ProcessNext
<1> QED BY <1>1, <1>2, Inductive, PTL DEF Spec

(***************************************************************************)
(* Shutdown.  A monitor that was inside the lock when _stopping was set may *)
(* still start its child; but shutdown_all returns only after it has had    *)
(* the lock itself, and the monitors that come after see _stopping.         *)
(***************************************************************************)
StoppingIsSet ==
    \A o \in Ops : at[o] # "uncalled" /\ ask[o].do = "shutdown_all" => stopping

NoneInside == ShutDown => \A p \in Procs : monitor[p] # "inside"

\* Every step keeps _stopping set once shutdown_all has begun.
LEMMA StoppingNext ==
    ASSUME TypeInv, QueueInv, StoppingIsSet, [Next]_vars PROVE StoppingIsSet'
<1> USE DEF StoppingIsSet, child, procs, tasks, ops, mutex
<1>1. ASSUME UNCHANGED <<ask, stopping>>,
             \A o \in Ops : at'[o] # "uncalled" => at[o] # "uncalled"
      PROVE  StoppingIsSet'
  BY <1>1
<1>2. CASE Holding
  <2>1. UNCHANGED <<ask, stopping>>
    BY <1>2 DEF Holding, BeginStart, ExecFails, Skip, StopTimeout, Exec, StopGone, StopSignal,
                StopByReaper, StopDone
  <2>2. phase # "idle"
    BY <1>2 DEF Holding, BeginStart, ExecFails, Skip, StopTimeout, Exec, StopGone, StopSignal,
                StopByReaper, StopDone, Stopping
  <2>3. at' = at \/ at' = OpAfter(Holder)
    BY <1>2 DEF Holding, BeginStart, ExecFails, Skip, StopTimeout, Exec, StopGone, StopSignal,
                StopByReaper, StopDone, Advance
  <2>4. \A o \in Ops : at'[o] # "uncalled" => at[o] # "uncalled"
    BY <2>2, <2>3, HolderWorks DEF OpAfter
  <2> QED BY <1>1, <2>1, <2>4
<1>3. CASE Calling
  <2>1. PICK o \in Ops : \/ \E r \in Requests[o] : Call(o, r)
                         \/ Proceed(o) \/ DrainEnds(o) \/ DrainStops(o)
    BY <1>3 DEF Calling
  <2>2. ASSUME NEW r \in Requests[o], Call(o, r) PROVE StoppingIsSet'
    <3>1. /\ stopping' = (stopping \/ r.do = "shutdown_all")
          /\ ask' = [ask EXCEPT ![o] = r] /\ \E s : at' = [at EXCEPT ![o] = s]
      BY <2>2 DEF Call, Called
    <3> QED BY <3>1 DEF TypeInv, TypeOK
  <2>3. CASE Proceed(o)
    <3>1. at[o] # "uncalled" /\ stopping' = stopping
          /\ ask' = [ask EXCEPT ![o] = ask[o]] /\ \E s : at' = [at EXCEPT ![o] = s]
      BY <2>3 DEF Proceed, Called
    <3> QED BY <1>1, <3>1 DEF TypeInv, TypeOK
  <2>4. CASE DrainEnds(o) \/ DrainStops(o)
    <3>1. at[o] # "uncalled" /\ UNCHANGED <<ask, stopping>> /\ \E s : at' = [at EXCEPT ![o] = s]
      BY <2>4 DEF DrainEnds, DrainStops
    <3> QED BY <1>1, <3>1 DEF TypeInv, TypeOK
  <2> QED BY <2>1, <2>2, <2>3, <2>4
<1>4. CASE Working \/ Monitoring \/ Reaping \/ Exiting \/ UNCHANGED vars
  <2>1. UNCHANGED <<ask, stopping, at>>
    BY <1>4 DEF Working, BeginWork, EndWork, Monitoring, MonitorStopping, MonitorOnDemand,
                MonitorLeaves, MonitorSchedules, MonitorDue, MonitorRestarts, Reaping,
                ReaperLeaves, ReaperFires, ReaperStops, Exiting, Exits, vars
  <2> QED BY <1>1, <2>1
<1> QED BY <1>2, <1>3, <1>4 DEF Next

(* Who is inside the lock, before and after a step.                         *)
LEMMA InsideSteps ==
    ASSUME TypeInv, QueueInv, [Next]_vars
    PROVE  \/ \A p \in Procs : monitor'[p] = "inside" => monitor[p] = "inside"
           \/ ~stopping /\ UNCHANGED <<ask, at>>
<1> USE DEF TypeInv, TypeOK, child, procs, tasks, ops, mutex
<1>1. CASE Holding
  <2>1. \A t : \A p \in Procs : MonitorAfter(t)[p] = "inside" => monitor[p] = "inside"
    BY DEF MonitorAfter
  <2>2. CASE BeginStart \/ Skip \/ StopTimeout \/ \E c \in Children : StopGone(c)
    BY <2>2 DEF BeginStart, Skip, StopTimeout, StopGone
  <2>3. CASE ExecFails \/ \E c \in Children : StopSignal(c) \/ StopByReaper(c) \/ StopDone(c)
    <3>1. \E t : monitor' = MonitorAfter(t)
      BY <2>3 DEF ExecFails, StopSignal, StopByReaper, StopDone
    <3> QED BY <2>1, <3>1
  <2>4. ASSUME NEW q \in Procs, Exec(q)
        PROVE  \A p \in Procs : monitor'[p] = "inside" => monitor[p] = "inside"
    BY <2>4 DEF Exec, MonitorAfter
  <2> QED BY <1>1, <2>2, <2>3, <2>4 DEF Holding
<1>2. CASE Calling
  <2>1. monitor' = monitor \/ \E t : monitor' = MonitorAfter(t)
    <3>1. ASSUME NEW o, NEW r, NEW plan, Called(o, r, plan)
          PROVE  monitor' = monitor \/ \E t : monitor' = MonitorAfter(t)
      BY <3>1 DEF Called, Enter
    <3>2. PICK o \in Ops : \/ \E r \in Requests[o] : Call(o, r)
                           \/ Proceed(o) \/ DrainEnds(o) \/ DrainStops(o)
      BY <1>2 DEF Calling
    <3>3. CASE Proceed(o) \/ \E r \in Requests[o] : Call(o, r)
      BY <3>1, <3>3 DEF Call, Proceed
    <3>4. CASE DrainEnds(o) \/ DrainStops(o)
      BY <3>4 DEF DrainEnds, DrainStops
    <3> QED BY <3>2, <3>3, <3>4
  <2> QED BY <2>1 DEF MonitorAfter
<1>3. CASE Monitoring
  <2>1. PICK p \in Procs : \/ MonitorStopping(p) \/ MonitorOnDemand(p) \/ MonitorLeaves(p)
                           \/ \E refilled \in BOOLEAN : MonitorSchedules(p, refilled)
                           \/ MonitorDue(p) \/ MonitorRestarts(p)
    BY <1>3 DEF Monitoring
  <2>2. CASE MonitorStopping(p) \/ MonitorOnDemand(p) \/ MonitorLeaves(p)
             \/ \E refilled \in BOOLEAN : MonitorSchedules(p, refilled)
    BY ZenonT(60), <2>2 DEF MonitorStopping, MonitorOnDemand, MonitorLeaves, MonitorSchedules
  <2>3. CASE (MonitorDue(p) \/ MonitorRestarts(p)) /\ stopping
    <3>1. MonitorPlan(p) = <<>>
      BY <2>3 DEF MonitorPlan
    <3>2. \E s \in {"none", "queued"} : monitor' = [monitor EXCEPT ![p] = s]
      BY <2>3, <3>1 DEF MonitorDue, MonitorRestarts
    <3> QED BY <3>2
  <2>4. CASE (MonitorDue(p) \/ MonitorRestarts(p)) /\ ~stopping
    BY <2>4 DEF MonitorDue, MonitorRestarts
  <2> QED BY <2>1, <2>2, <2>3, <2>4
<1>4. CASE Working \/ Reaping \/ Exiting \/ UNCHANGED vars
  BY <1>4 DEF Working, BeginWork, EndWork, Reaping, ReaperLeaves, ReaperFires, ReaperStops,
              Exiting, Exits, vars
<1> QED BY <1>1, <1>2, <1>3, <1>4 DEF Next

(* A call that returns leaves no monitor inside: it had the lock, or was a  *)
(* drain.                                                                  *)
LEMMA ReturnsAlone ==
    ASSUME TypeInv, QueueInv, [Next]_vars,
           NEW o \in Ops, at'[o] = "done", ask'[o].do = "shutdown_all"
    PROVE  \/ at[o] = "done" /\ ask[o].do = "shutdown_all"
           \/ \A p \in Procs : monitor[p] # "inside"
<1> USE DEF child, procs, tasks, ops, mutex
<1>1. ASSUME phase = "idle" PROVE \A p \in Procs : monitor[p] # "inside"
  BY <1>1 DEF QueueInv, HolderInside, Inside, Tasks
<1>2. ASSUME Holder = o, phase # "idle" PROVE \A p \in Procs : monitor[p] # "inside"
  BY <1>2, SupervisorAssumption DEF QueueInv, HolderInside, Inside, Tasks, Holder
<1>3. CASE Holding
  <2>1. /\ ask' = ask /\ phase # "idle"
        /\ at' = at \/ at' = OpAfter(Holder)
    BY <1>3 DEF Holding, BeginStart, ExecFails, Skip, StopTimeout, Exec, StopGone, StopSignal,
                StopByReaper, StopDone, Stopping, Advance
  <2> QED BY <1>2, <2>1 DEF OpAfter
<1>4. CASE Calling
  <2>1. PICK q \in Ops : \/ \E r \in Requests[q] : Call(q, r)
                         \/ Proceed(q) \/ DrainEnds(q) \/ DrainStops(q)
    BY <1>4 DEF Calling
  <2>2. ASSUME q # o PROVE ask'[o] = ask[o] /\ at'[o] = at[o]
    <3>1. (\E r : ask' = [ask EXCEPT ![q] = r] \/ ask' = ask) /\ \E s : at' = [at EXCEPT ![q] = s]
      BY <2>1 DEF Call, Proceed, Called, DrainEnds, DrainStops
    <3> QED BY <2>2, <3>1 DEF TypeInv, TypeOK
  <2>3. CASE q = o
    <3>1. CASE phase = "idle" BY <1>1, <3>1
    <3>2. CASE phase # "idle"
      <4>1. lock # <<>>
        BY <3>2, QueueOfTasks
      <4>2. \E s \in {"queued", "requeued"} : at' = [at EXCEPT ![o] = s]
        BY <2>1, <2>3, <3>2, <4>1 DEF Call, Proceed, DrainEnds, DrainStops, Gets
      <4> QED BY <4>2 DEF TypeInv, TypeOK
    <3> QED BY <3>1, <3>2
  <2> QED BY <2>2, <2>3
<1>5. CASE Working \/ Monitoring \/ Reaping \/ Exiting \/ UNCHANGED vars
  <2>1. UNCHANGED <<ask, at>>
    BY <1>5 DEF Working, BeginWork, EndWork, Monitoring, MonitorStopping, MonitorOnDemand,
                MonitorLeaves, MonitorSchedules, MonitorDue, MonitorRestarts, Reaping,
                ReaperLeaves, ReaperFires, ReaperStops, Exiting, Exits, vars
  <2> QED BY <2>1
<1> QED BY <1>3, <1>4, <1>5 DEF Next

\* Every step keeps restarts out once shutdown_all is through.
LEMMA ShutdownNext ==
    ASSUME TypeInv, QueueInv, StoppingIsSet, NoneInside, [Next]_vars PROVE NoneInside'
<1> SUFFICES ASSUME NEW o \in Ops, at'[o] = "done", ask'[o].do = "shutdown_all",
                    NEW p \in Procs, monitor'[p] = "inside"
             PROVE  FALSE
  BY DEF NoneInside, ShutDown
<1>1. CASE monitor[p] = "inside"
  BY <1>1, ReturnsAlone DEF NoneInside, ShutDown
<1>2. CASE monitor[p] # "inside"
  <2>1. ~stopping /\ UNCHANGED <<ask, at>>
    BY <1>2, InsideSteps
  <2> QED BY <2>1 DEF StoppingIsSet
<1> QED BY <1>1, <1>2

(* Only a step of the lock's holder starts a process, and a holder that is  *)
(* not a call is a monitor.                                                *)
LEMMA StartsInside ==
    ASSUME TypeInv, QueueInv, [Next]_vars, NEW p \in Procs, life[p] # "up", life'[p] = "up"
    PROVE  Holder \in Ops \/ \E q \in Procs : monitor[q] = "inside"
<1> USE DEF child, procs, tasks, ops, mutex
<1>1. PICK q \in Procs : Exec(q)
  <2>1. CASE Holding
    BY <2>1 DEF Holding, BeginStart, ExecFails, Skip, StopTimeout, StopGone, StopSignal,
                StopByReaper, StopDone
  <2>2. CASE Exiting
    BY <2>2 DEF Exiting, Exits, TypeInv, TypeOK
  <2>3. CASE Calling
    BY ZenonT(60), <2>3 DEF Calling, Call, Called, Proceed, DrainEnds, DrainStops
  <2>4. CASE Working \/ Monitoring \/ Reaping \/ UNCHANGED vars
    BY <2>4 DEF Working, BeginWork, EndWork, Monitoring, MonitorStopping, MonitorOnDemand,
                MonitorLeaves, MonitorSchedules, MonitorDue, MonitorRestarts, Reaping,
                ReaperLeaves, ReaperFires, ReaperStops, vars
  <2> QED BY <2>1, <2>2, <2>3, <2>4 DEF Next
<1>2. phase = "exec"
  BY <1>1 DEF Exec
<1> QED BY <1>2, HolderWorks DEF Tasks

(* Once shutdown_all has returned no monitor starts a process, whatever     *)
(* was in backoff, queued for the lock or inside it when it was called      *)
(* (supervisor.py:492-501, 619-634, 688-700).                              *)
THEOREM ShutdownIsFinal == Spec => NoRestartAfterShutdown
<1>1. Init => StoppingIsSet /\ NoneInside
  BY DEF Init, StoppingIsSet, NoneInside, ShutDown
<1>2. TypeInv /\ QueueInv /\ StoppingIsSet /\ NoneInside /\ [Next]_vars
          => StoppingIsSet' /\ NoneInside'
  BY StoppingNext, ShutdownNext
<1>3. TypeInv /\ QueueInv /\ NoneInside /\ [Next]_vars
          => [ShutDown => \A p \in Procs :
                 life[p] # "up" /\ life'[p] = "up" => Holder \in Ops]_vars
  BY StartsInside DEF NoneInside
<1> QED BY <1>1, <1>2, <1>3, Inductive, PTL DEF Spec, NoRestartAfterShutdown

(***************************************************************************)
(* The processes of a child.                                               *)
(*                                                                         *)
(* That a child has at most one process, watched by its monitor, and that a *)
(* drain finds it idle, does not hold for all histories of calls: a child   *)
(* that crashes while others start it may get two processes, and so may one *)
(* that is started while it is drained.  It holds for a child that is given *)
(* to the supervisor once and then only restarted by it, and for a child    *)
(* that never exits by itself and is not drained, however often it is        *)
(* started, stopped and restarted.                                         *)
(***************************************************************************)

(* What a call may do to a child: start it, drain it, or keep it running    *)
(* for as long as it is used.                                              *)
Starts(r, c) ==
    \/ r.do \in {"spawn", "restart", "ensure_running"} /\ r.on = c
    \/ r.do = "reconcile" /\ c \in Desired(r)
Drains(r, c) == r.do = "drain" /\ r.on = c
Keeps(r, c) == r.do = "ensure_running" /\ r.on = c /\ Policy[c] = "on_demand"

Starters(c) == {o \in Ops : \E r \in Requests[o] : Starts(r, c)}

StartedOnce(c) == \A o, q \in Starters(c) : o = q

Steady(c) ==
    /\ c \notin Crashing
    /\ \A o \in Ops : \A r \in Requests[o] : ~Drains(r, c) /\ ~Keeps(r, c)

Unkept(c) == \A o \in Ops : \A r \in Requests[o] : ~Keeps(r, c)

(* The hypotheses of the theorems.                                         *)
Careful == \A c \in Children : StartedOnce(c) \/ Steady(c)
Unreaped == \A c \in Children : Unkept(c)
DrainedOnce ==
    \A c \in Children, o \in Ops : \A r \in Requests[o] : Drains(r, c) => StartedOnce(c)

(***************************************************************************)
(* The steps by what they do to the children, their processes and the calls.*)
(***************************************************************************)
Idle(t) == phase = "idle" /\ (lock # <<>> => lock[1] = t)

(* A call gets the lock and plans; a drain comes back for it; a monitor or   *)
(* a reaper gets it.                                                       *)
Opens(o, r, plan) ==
    /\ Idle(o) /\ at[o] \in {"uncalled", "queued"}
    /\ r \in Requests[o] /\ plan \in Plans(r) /\ Called(o, r, plan)

Closes(o) ==
    /\ Idle(o) /\ at[o] \in {"draining", "requeued"}
    /\ Holds(o, DrainPlan(o))
    /\ at' = [at EXCEPT ![o] = IF DrainPlan(o) = <<>> THEN "done" ELSE "inside"]
    /\ UNCHANGED <<child, procs, tasks, ask, drained>>

Wakes(p) ==
    /\ Idle(p) /\ monitor[p] \in {"backoff", "queued"}
    /\ monitor[p] = "backoff" => lock = <<>> /\ \A o \in drained : at[o] # "draining"
    /\ Holds(p, MonitorPlan(p))
    /\ monitor' = [monitor EXCEPT ![p] = IF MonitorPlan(p) = <<>> THEN "none" ELSE "inside"]
    /\ UNCHANGED <<child, procs, reaper, ops>>

Reaps(c) ==
    /\ Idle(c) /\ reaper[c] \in {"poll", "queued"}
    /\ Holds(c, ReaperPlan(c))
    /\ \E s \in ReaperStages : reaper' = [reaper EXCEPT ![c] = s]
    /\ UNCHANGED <<child, procs, monitor, ops>>

(* A task joins the queue of the lock.                                     *)
Joins(t) ==
    /\ lock # <<>> /\ lock' = Append(lock, t)
    /\ UNCHANGED <<child, procs, drained, phase, todo, victim>>

CallJoins(o, r) ==
    /\ Joins(o) /\ at[o] = "uncalled" /\ r \in Requests[o]
    /\ ask' = [ask EXCEPT ![o] = r] /\ at' = [at EXCEPT ![o] = "queued"]
    /\ UNCHANGED tasks

DrainJoins(o) ==
    /\ Joins(o) /\ at[o] = "draining" /\ at' = [at EXCEPT ![o] = "requeued"]
    /\ UNCHANGED <<tasks, ask>>

MonitorJoins(p) ==
    /\ Joins(p) /\ monitor[p] = "backoff" /\ \A o \in drained : at[o] # "draining"
    /\ monitor' = [monitor EXCEPT ![p] = "queued"]
    /\ UNCHANGED <<reaper, ask, at>>

ReaperJoins(c) ==
    /\ Joins(c) /\ reaper[c] = "poll" /\ reaper' = [reaper EXCEPT ![c] = "queued"]
    /\ UNCHANGED <<monitor, ask, at>>

(* A monitor sees that its process has exited.                             *)
Sees(p) ==
    /\ Exited(p) /\ of[p] \in Children
    /\ \E s \in {"stopped", "crashed", "failed"} :
          /\ status' = [status EXCEPT ![of[p]] = s]
          /\ \/ monitor' = [monitor EXCEPT ![p] = "none"]
             \/ s = "crashed" /\ monitor' = [monitor EXCEPT ![p] = "backoff"]
    /\ proc' = proc \/ proc' = [proc EXCEPT ![of[p]] = None]
    /\ lock' = lock \/ lock' = Without(lock, of[p])
    /\ reaper' = reaper \/ reaper' = ReaperAfter(of[p])
    /\ UNCHANGED <<inFlight, event, latest, procs, ops, phase, todo, victim>>

(* The holder goes on without having done anything to the child.            *)
Passes ==
    /\ phase \in {"next", "exec"} /\ Advance(lock)
    /\ phase = "next" => Step.do = "stop_running" /\ ~Running(Step.on) /\ UNCHANGED reaper
    /\ phase = "exec" => reaper' \in {ReaperAfter(Leaver), Reapers(Step.on)}
    /\ monitor' \in {monitor, MonitorAfter(Leaver)}
    /\ UNCHANGED <<child, procs, ask, drained>>

(* The holder has stopped the child.                                       *)
Settles(c) ==
    /\ phase # "idle" /\ Step.on = c
    /\ status' = [status EXCEPT ![c] = "stopped"]
    /\ \/ /\ phase = "next" /\ Step.do # "start" /\ Gone(proc[c]) /\ proc' = proc
          /\ Advance(lock) /\ monitor' = monitor /\ reaper' = ReaperAfter(Leaver)
       \/ /\ phase \in {"term", "kill"} /\ Gone(victim) /\ proc' = [proc EXCEPT ![c] = None]
          /\ Advance(lock) /\ monitor' = MonitorAfter(Leaver) /\ reaper' = ReaperAfter(Leaver)
       \/ /\ phase = "next" /\ Step.do # "start" /\ Holder = c /\ reaper[c] = "inside"
          /\ proc' = [proc EXCEPT ![c] = None] /\ todo = <<Stop(c)>>
          /\ Advance(Without(lock, latest[c])) /\ monitor' = MonitorAfter(latest[c])
          /\ reaper' = ReaperAfter(c)
    /\ UNCHANGED <<inFlight, event, latest, procs, ask, drained>>

(* A call asks for something it may ask for.                               *)
AsksAllowed == \A o \in Ops : at[o] # "uncalled" => ask[o] \in Requests[o]

Cases ==
    \/ \E p \in Procs : Exec(p)
    \/ \E o \in Ops : \E r \in Requests[o] : \E plan \in Plans(r) : Opens(o, r, plan)
    \/ \E o \in Ops : Closes(o)
    \/ \E p \in Procs : Wakes(p)
    \/ \E c \in Children : Reaps(c)
    \/ \E o \in Ops : \E r \in Requests[o] : CallJoins(o, r)
    \/ \E o \in Ops : DrainJoins(o)
    \/ \E p \in Procs : MonitorJoins(p)
    \/ \E c \in Children : ReaperJoins(c)
    \/ \E p \in Procs : Sees(p)
    \/ \E c \in Children : Settles(c)
    \/ \E c \in Children : StopSignal(c)
    \/ Passes \/ BeginStart \/ StopTimeout
    \/ \E c \in Children : BeginWork(c) \/ EndWork(c) \/ ReaperLeaves(c)
    \/ \E p \in Procs, code \in {"exit0", "exit1"} : Exits(p, code)
    \/ UNCHANGED vars

\* Every step is one of these.
LEMMA StepCases ==
    ASSUME TypeInv, QueueInv, AsksAllowed, [Next]_vars PROVE Cases
<1> USE DEF child, procs, tasks, ops, mutex, Cases
<1>1. CASE Holding
  <2>1. CASE ExecFails \/ Skip
    <3>1. Passes
      BY <2>1 DEF ExecFails, Skip, Passes
    <3> QED BY <3>1
  <2>2. ASSUME NEW c \in Children, StopGone(c) \/ StopByReaper(c) \/ StopDone(c)
        PROVE  Settles(c)
    <3>1. CASE StopGone(c)
      <4>1. proc' = proc
        BY <3>1 DEF StopGone, Settled, TypeInv, TypeOK
      <4> QED BY <3>1, <4>1 DEF StopGone, Stopping, Settles, Settled
    <3>2. CASE StopDone(c)
      BY <3>2 DEF StopDone, Settles, Settled
    <3>3. CASE StopByReaper(c)
      <4>1. phase = "next" /\ Holder = c /\ Step.on = c /\ Step.do # "start"
        BY <3>3 DEF StopByReaper, Stopping
      <4>2. reaper[c] = "inside" /\ todo = <<Stop(c)>>
        BY <4>1, HolderWorks
      <4> QED BY <3>3, <4>1, <4>2 DEF StopByReaper, Settles, Settled
    <3> QED BY <2>2, <3>1, <3>2, <3>3
  <2> QED BY <1>1, <2>1, <2>2 DEF Holding
<1>2. CASE Calling
  <2>1. PICK o \in Ops : \/ \E r \in Requests[o] : Call(o, r)
                         \/ Proceed(o) \/ DrainEnds(o) \/ DrainStops(o)
    BY <1>2 DEF Calling
  <2>2. ASSUME NEW r \in Requests[o], Call(o, r)
        PROVE  CallJoins(o, r) \/ \E plan \in Plans(r) : Opens(o, r, plan)
    <3>1. CASE Gets(o, TRUE) /\ \E plan \in Plans(r) : Called(o, r, plan)
      BY <2>2, <3>1, QueueOfTasks DEF Call, Gets, Opens, Idle
    <3>2. CASE Waits(o) /\ ask' = [ask EXCEPT ![o] = r] /\ at' = [at EXCEPT ![o] = "queued"]
               /\ UNCHANGED <<child, procs, tasks, drained, phase, todo, victim>>
      BY <2>2, <3>2 DEF Call, Waits, CallJoins, Joins
    <3> QED BY <2>2, <3>1, <3>2 DEF Call
  <2>3. CASE Proceed(o)
    <3>1. ask[o] \in Requests[o]
      BY <2>3 DEF Proceed, AsksAllowed
    <3>2. \E plan \in Plans(ask[o]) : Opens(o, ask[o], plan)
      BY <2>3, <3>1 DEF Proceed, Gets, Opens, Idle
    <3> QED BY <3>1, <3>2
  <2>4. CASE DrainEnds(o)
    <3>1. CASE Gets(o, TRUE) /\ Holds(o, DrainPlan(o))
               /\ at' = [at EXCEPT ![o] = IF DrainPlan(o) = <<>> THEN "done" ELSE "inside"]
      <4>1. Closes(o)
        BY <2>4, <3>1, QueueOfTasks DEF DrainEnds, Gets, Closes, Idle
      <4> QED BY <4>1
    <3>2. CASE Waits(o) /\ at' = [at EXCEPT ![o] = "requeued"] /\ UNCHANGED <<phase, todo, victim>>
      <4>1. DrainJoins(o)
        BY <2>4, <3>2 DEF DrainEnds, Waits, DrainJoins, Joins
      <4> QED BY <4>1
    <3> QED BY <2>4, <3>1, <3>2 DEF DrainEnds
  <2>5. CASE DrainStops(o)
    <3>1. Closes(o)
      BY <2>5 DEF DrainStops, Gets, Closes, Idle
    <3> QED BY <3>1
  <2> QED BY <2>1, <2>2, <2>3, <2>4, <2>5
<1>3. CASE Working
  BY <1>3 DEF Working
<1>4. CASE Monitoring
  <2>1. PICK p \in Procs : \/ MonitorStopping(p) \/ MonitorOnDemand(p) \/ MonitorLeaves(p)
                           \/ \E refilled \in BOOLEAN : MonitorSchedules(p, refilled)
                           \/ MonitorDue(p) \/ MonitorRestarts(p)
    BY <1>4 DEF Monitoring
  <2>2. ASSUME Exited(p) PROVE of[p] \in Children
    BY <2>2 DEF Exited, TypeInv, Owned
  <2>3. CASE MonitorStopping(p)
    <3>1. Sees(p)
      BY <2>2, <2>3 DEF MonitorStopping, Sees
    <3> QED BY <3>1
  <2>4. CASE MonitorOnDemand(p)
    <3>1. Sees(p)
      BY <2>2, <2>4 DEF MonitorOnDemand, Sees, Settled
    <3> QED BY <3>1
  <2>5. CASE MonitorLeaves(p)
    <3>1. Sees(p)
      BY <2>2, <2>5 DEF MonitorLeaves, Sees
    <3> QED BY <3>1
  <2>6. ASSUME NEW refilled \in BOOLEAN, MonitorSchedules(p, refilled) PROVE Sees(p)
    BY <2>2, <2>6 DEF MonitorSchedules, Sees
  <2>7. CASE MonitorDue(p)
    <3>1. CASE Gets(p, TRUE) /\ Holds(p, MonitorPlan(p))
               /\ monitor' = [monitor EXCEPT ![p] = IF MonitorPlan(p) = <<>> THEN "none" ELSE "inside"]
      <4>1. Wakes(p)
        BY <2>7, <3>1, QueueOfTasks DEF MonitorDue, Gets, Wakes, Idle
      <4> QED BY <4>1
    <3>2. CASE Waits(p) /\ monitor' = [monitor EXCEPT ![p] = "queued"] /\ UNCHANGED <<phase, todo, victim>>
      <4>1. MonitorJoins(p)
        BY <2>7, <3>2 DEF MonitorDue, Waits, MonitorJoins, Joins
      <4> QED BY <4>1
    <3> QED BY <2>7, <3>1, <3>2 DEF MonitorDue
  <2>8. CASE MonitorRestarts(p)
    <3>1. Wakes(p)
      BY <2>8 DEF MonitorRestarts, Gets, Wakes, Idle
    <3> QED BY <3>1
  <2> QED BY <2>1, <2>3, <2>4, <2>5, <2>6, <2>7, <2>8
<1>5. CASE Reaping
  <2>1. PICK c \in Children : ReaperLeaves(c) \/ ReaperFires(c) \/ ReaperStops(c)
    BY <1>5 DEF Reaping
  <2>2. CASE ReaperFires(c)
    <3>1. CASE Gets(c, TRUE) /\ Holds(c, ReaperPlan(c)) /\ reaper' = [reaper EXCEPT ![c] = "inside"]
      <4>1. Reaps(c)
        BY <2>2, <3>1, QueueOfTasks DEF ReaperFires, Gets, Reaps, Idle, ReaperStages
      <4> QED BY <4>1
    <3>2. CASE Waits(c) /\ reaper' = [reaper EXCEPT ![c] = "queued"] /\ UNCHANGED <<phase, todo, victim>>
      <4>1. ReaperJoins(c)
        BY <2>2, <3>2 DEF ReaperFires, Waits, ReaperJoins, Joins
      <4> QED BY <4>1
    <3> QED BY <2>2, <3>1, <3>2 DEF ReaperFires
  <2>3. CASE ReaperStops(c)
    <3>1. Reaps(c)
      BY <2>3 DEF ReaperStops, Gets, Reaps, Idle, ReaperStages
    <3> QED BY <3>1
  <2> QED BY <2>1, <2>2, <2>3
<1>6. CASE Exiting
  BY <1>6 DEF Exiting
<1> QED BY <1>1, <1>2, <1>3, <1>4, <1>5, <1>6 DEF Next

(***************************************************************************)
(* The plans.                                                              *)
(***************************************************************************)

\* A step says what is to be done to which child.
LEMMA StepsDiffer ==
    ASSUME NEW c, NEW d
    PROVE  /\ Start(c) = Start(d) => c = d
           /\ Stop(c) = Stop(d) => c = d
           /\ Start(c) # Stop(d) /\ Start(c) # StopRunning(d) /\ Stop(c) # StopRunning(d)
           /\ Start(c).do = "start" /\ Start(c).on = c
           /\ Stop(c).do = "stop" /\ Stop(c).on = c
BY DEF Start, Stop, StopRunning

\* The first step is the one to be taken: a start, or a stop of its child.
LEMMA StepIsStart ==
    ASSUME NEW s \in Steps
    PROVE  /\ s.do = "start" => s = Start(s.on)
           /\ s.do = "stop" => s = Stop(s.on)
           /\ s.on \in Children
BY DEF Start, Stop, Steps

(* A sequence of a set of steps holds each of them once, and no others.     *)
LEMMA SequencesHold ==
    ASSUME NEW D \in SUBSET Children, NEW f \in [D -> Steps],
           NEW s \in SetToSeqs({f[c] : c \in D})
    PROVE  /\ s \in Seq(Steps)
           /\ \A i \in 1..Len(s) : \E c \in D : s[i] = f[c]
           /\ \A i, j \in 1..Len(s) : s[i] = s[j] => i = j
<1> DEFINE S == {f[c] : c \in D}
<1>1. s \in Seq(Steps)
  BY SequencesOfSteps
<1>2. IsFiniteSet(S)
  <2>1. IsFiniteSet(D)
    BY SupervisorAssumption, FS_Subset
  <2>2. f \in Surjection(D, S)
    BY DEF Surjection
  <2> HIDE DEF S
  <2> QED BY <2>1, <2>2, FS_Surjection
<1>3. \A x \in S : \E c \in D : x = f[c]
  OBVIOUS
<1> HIDE DEF S
<1>4. Cardinality(S) \in Nat
  BY <1>2, FS_CardinalityType
<1>5. /\ s \in [1..Cardinality(S) -> S]
      /\ \A i, j \in 1..Cardinality(S) : i # j => s[i] # s[j]
  BY DEF SetToSeqs, S
<1>6. Len(s) = Cardinality(S)
  BY <1>4, <1>5
<1> QED BY <1>1, <1>3, <1>5, <1>6

(* A plan starts only what the call asks for, each child once, and only if   *)
(* it does not run or has been stopped before.                             *)
LEMMA PlansStart ==
    ASSUME NEW r \in Request, NEW plan \in Plans(r), NEW x \in Children
    PROVE  /\ \A i \in 1..Len(plan) : plan[i] = Start(x) =>
                  Starts(r, x) /\ (Running(x) => \E j \in 1..(i - 1) : plan[j] = Stop(x))
           /\ \A i, j \in 1..Len(plan) : plan[i] = Start(x) /\ plan[j] = Start(x) => i = j
<1>1. CASE r.do \in {"spawn", "ensure_running"}
  <2>1. plan \in {<<>>, <<Start(r.on)>>} /\ (Running(r.on) => plan = <<>>)
    BY <1>1 DEF Plans
  <2> QED BY <1>1, <2>1, StepsDiffer DEF Starts
<1>2. CASE r.do = "restart"
  <2>1. plan = IF Running(r.on) THEN <<Stop(r.on), Start(r.on)>> ELSE <<Start(r.on)>>
    BY <1>2 DEF Plans
  <2>2. CASE Running(r.on)
    <3>1. plan = <<Stop(r.on), Start(r.on)>>
      BY <2>1, <2>2
    <3>2. /\ Len(plan) = 2 /\ plan[1] = Stop(r.on) /\ plan[2] = Start(r.on)
          /\ \A i \in 1..Len(plan) : i = 1 \/ i = 2
      BY <3>1
    <3>3. plan[1] # Start(x) /\ (plan[2] = Start(x) => r.on = x)
      BY <3>2, StepsDiffer
    <3>4. 1 \in 1..(2 - 1)
      OBVIOUS
    <3> QED BY <1>2, <3>2, <3>3, <3>4 DEF Starts
  <2>3. CASE ~Running(r.on)
    <3>1. Len(plan) = 1 /\ plan[1] = Start(r.on)
      BY <2>1, <2>3
    <3> QED BY <1>2, <2>3, <3>1, StepsDiffer DEF Starts
  <2> QED BY <2>2, <2>3
<1>3. CASE r.do = "stop"
  <2>1. plan \in {<<>>, <<Stop(r.on)>>}
    BY <1>3 DEF Plans
  <2> QED BY <2>1, StepsDiffer
<1>4. CASE r.do = "reconcile"
  <2> DEFINE D == {d \in Desired(r) : ~Running(d)}
             f == [c \in D |-> Start(c)]
             E == Extras(r)
             g == [c \in E |-> Stop(c)]
  <2>1. /\ D \in SUBSET Children /\ f \in [D -> Steps] /\ {f[c] : c \in D} = {Start(c) : c \in D}
    BY <1>4 DEF Desired, Request, Start, Steps
  <2>2. /\ E \in SUBSET Children /\ g \in [E -> Steps] /\ {g[c] : c \in E} = {Stop(c) : c \in E}
    BY DEF Extras, Stop, Steps
  <2>3. PICK starts \in SetToSeqs({Start(c) : c \in D}), stops \in SetToSeqs({Stop(c) : c \in E}) :
            plan = starts \o stops
    BY SMTT(40), <1>4 DEF Plans, Start, Stop, StopRunning, Steps
  <2>4. \A d \in D : f[d] = Start(d) /\ ~Running(d) /\ d \in Desired(r)
    OBVIOUS
  <2>5. \A d \in E : g[d] = Stop(d)
    OBVIOUS
  <2> HIDE DEF D, E, f, g
  <2>6. /\ starts \in Seq(Steps)
        /\ \A i \in 1..Len(starts) : \E d \in D : starts[i] = Start(d)
        /\ \A i, j \in 1..Len(starts) : starts[i] = starts[j] => i = j
    <3>1. starts \in SetToSeqs({f[c] : c \in D})
      BY <2>1, <2>3
    <3> QED BY <2>1, <2>4, <3>1, SequencesHold
  <2>7. /\ stops \in Seq(Steps)
        /\ \A i \in 1..Len(stops) : \E d \in E : stops[i] = Stop(d)
    <3>1. stops \in SetToSeqs({g[c] : c \in E})
      BY <2>2, <2>3
    <3>2. \A i \in 1..Len(stops) : \E d \in E : stops[i] = g[d]
      BY <2>2, <3>1, SequencesHold
    <3>3. stops \in Seq(Steps)
      BY <2>2, <3>1, SequencesHold
    <3> QED BY <2>5, <3>2, <3>3
  <2>8. /\ Len(starts) \in Nat /\ Len(stops) \in Nat /\ Len(plan) = Len(starts) + Len(stops)
        /\ \A i \in 1..Len(plan) : plan[i] = IF i <= Len(starts) THEN starts[i] ELSE stops[i - Len(starts)]
    BY <2>3, <2>6, <2>7, ConcatProperties
  <2>9. ASSUME NEW i \in 1..Len(plan), plan[i] = Start(x)
        PROVE  i \in 1..Len(starts) /\ starts[i] = Start(x) /\ x \in D
    <3>1. CASE i <= Len(starts)
      <4>1. i \in 1..Len(starts) /\ starts[i] = Start(x)
        BY <2>8, <2>9, <3>1
      <4>2. PICK d \in D : starts[i] = Start(d)
        BY <2>6, <4>1
      <4>3. x = d
        BY <4>1, <4>2 DEF Start
      <4> QED BY <4>1, <4>2, <4>3
    <3>2. CASE ~(i <= Len(starts))
      <4>1. i - Len(starts) \in 1..Len(stops) /\ stops[i - Len(starts)] = Start(x)
        BY <2>8, <2>9, <3>2
      <4>2. PICK d \in E : stops[i - Len(starts)] = Stop(d)
        BY <2>7, <4>1
      <4>3. Start(x) = Stop(d)
        BY <4>1, <4>2
      <4> QED BY <4>3, StepsDiffer
    <3> QED BY <3>1, <3>2
  <2>10. ASSUME NEW i \in 1..Len(plan), NEW j \in 1..Len(plan), plan[i] = Start(x), plan[j] = Start(x)
         PROVE  i = j
    BY <2>6, <2>9, <2>10
  <2>11. x \in D => Starts(r, x) /\ ~Running(x)
    BY <1>4, <2>4 DEF Starts
  <2> QED BY <2>9, <2>10, <2>11
<1>5. CASE r.do = "shutdown_all"
  <2> DEFINE D == {d \in Children : status[d] # "absent"}
             f == [c \in D |-> StopRunning(c)]
  <2>1. /\ D \in SUBSET Children /\ f \in [D -> Steps] /\ {f[c] : c \in D} = {StopRunning(c) : c \in D}
    BY DEF StopRunning, Steps
  <2>2. plan \in SetToSeqs({StopRunning(c) : c \in D})
    BY <1>5 DEF Plans
  <2>3. \A d \in D : f[d] = StopRunning(d)
    OBVIOUS
  <2> HIDE DEF D, f
  <2>4. \A i \in 1..Len(plan) : \E d \in D : plan[i] = f[d]
    <3>1. plan \in SetToSeqs({f[c] : c \in D})
      BY <2>1, <2>2
    <3> QED BY <2>1, <3>1, SequencesHold
  <2>5. ASSUME NEW i \in 1..Len(plan) PROVE plan[i] # Start(x)
    <3>1. PICK d \in D : plan[i] = StopRunning(d)
      BY <2>3, <2>4
    <3> QED BY <3>1, StepsDiffer
  <2> QED BY <2>5
<1>6. CASE r.do = "drain"
  <2>1. plan = <<>>
    BY <1>6 DEF Plans
  <2> QED BY <2>1
<1> QED BY <1>1, <1>2, <1>3, <1>4, <1>5, <1>6 DEF Request

(***************************************************************************)
(* The processes, their monitors and the holder's work.                     *)
(***************************************************************************)
Planned(c) == \E i \in 1..Len(todo) : todo[i] = Start(c)

(* A process that runs has an owner; the last monitor of a child, and its   *)
(* process object, are those of a process of its own.                       *)
UpIsOwned == \A p \in Procs : life[p] = "up" => of[p] \in Children
LatestIsOwn ==
    \A c \in Children : /\ latest[c] # None => of[latest[c]] = c
                        /\ proc[c] # None => latest[c] = proc[c]

(* Who is being stopped has no monitor any more, and a monitor that is past  *)
(* its wait has seen its process exit.                                     *)
VictimIsStopped ==
    /\ phase \in {"term", "kill"} <=> victim # None
    /\ victim # None => of[victim] = Step.on /\ monitor[victim] = "none"
WokenIsGone ==
    \A p \in Procs : monitor[p] \in {"backoff", "queued", "inside"} => life[p] # "up"

(* What is planned to start is started once, and for a reason: a call asks   *)
(* for it, or a monitor is restarting it.                                   *)
PhaseFits ==
    /\ phase = "exec" => Step.do = "start"
    /\ phase \in {"term", "kill"} => Step.do # "start"
StartsOnce ==
    \A c \in Children : \A i, j \in 1..Len(todo) :
        todo[i] = Start(c) /\ todo[j] = Start(c) => i = j
StartsAreAsked ==
    \A c \in Children : Planned(c) =>
        \/ \E o \in Ops : at[o] = "inside" /\ Starts(ask[o], c)
        \/ \E p \in Procs : monitor[p] = "inside" /\ of[p] = c

(* Only a call of ensure_running makes a reaper.                            *)
ReapersAreKept == \A c \in Children : reaper[c] # "none" => ~Unkept(c)

WorkInv ==
    /\ AsksAllowed /\ UpIsOwned /\ LatestIsOwn /\ VictimIsStopped /\ WokenIsGone
    /\ PhaseFits /\ StartsOnce /\ StartsAreAsked /\ ReapersAreKept

(* The holder goes on to its next step or leaves.                           *)
LEMMA Advances ==
    ASSUME TypeInv, QueueInv, phase # "idle", NEW queue, Advance(queue)
    PROVE  /\ todo' = Tail(todo) /\ victim' = None /\ phase' \in {"next", "idle"}
           /\ Len(todo) \in Nat \ {0} /\ Len(todo') = Len(todo) - 1
           /\ \A i \in 1..Len(todo') : i + 1 \in 1..Len(todo) /\ todo'[i] = todo[i + 1]
           /\ \A o \in Ops : \/ at'[o] = at[o]
                             \/ o = Holder /\ at[o] = "inside" /\ at'[o] = "done"
           /\ \A p \in Procs : \/ MonitorAfter(Leaver)[p] = monitor[p]
                               \/ p = Holder /\ monitor[p] = "inside" /\ MonitorAfter(Leaver)[p] = "none"
           /\ todo' # <<>> => at' = at /\ MonitorAfter(Leaver) = monitor
<1>1. todo \in Seq(Steps) /\ todo # <<>>
  BY HolderWorks DEF TypeInv, TypeOK
<1>2. todo' = Tail(todo) /\ victim' = None /\ phase' \in {"next", "idle"}
  BY DEF Advance, Done
<1>3. /\ Len(todo) \in Nat \ {0} /\ Len(todo') = Len(todo) - 1
      /\ \A i \in 1..Len(todo') : i + 1 \in 1..Len(todo) /\ todo'[i] = todo[i + 1]
  BY <1>1, <1>2
<1>4. \A o \in Ops : at'[o] = at[o] \/ (o = Holder /\ at[o] = "inside" /\ at'[o] = "done")
  BY HolderWorks DEF Advance, OpAfter
<1>5. \A p \in Procs : \/ MonitorAfter(Leaver)[p] = monitor[p]
                       \/ p = Holder /\ monitor[p] = "inside" /\ MonitorAfter(Leaver)[p] = "none"
  BY HolderWorks, SupervisorAssumption DEF MonitorAfter, Leaver
<1>6. ASSUME todo' # <<>> PROVE at' = at /\ MonitorAfter(Leaver) = monitor
  <2>1. Len(todo) > 1
    BY <1>1, <1>2, <1>6
  <2>2. Leaver = None
    BY <2>1 DEF Leaver
  <2>3. MonitorAfter(None) = monitor
    BY SupervisorAssumption DEF MonitorAfter, TypeInv, TypeOK
  <2> QED BY <2>1, <2>2, <2>3 DEF Advance
<1> QED BY <1>2, <1>3, <1>4, <1>5, <1>6

MonitorStep(p) ==
    \/ monitor'[p] \in {monitor[p], "none"}
    \/ Sees(p) /\ monitor'[p] = "backoff"
    \/ monitor[p] \in {"backoff", "queued"} /\ monitor'[p] \in {"queued", "inside"}

LifeStep(p) ==
    \/ life'[p] = life[p]
    \/ life'[p] # "up" /\ \E code \in {"exit0", "exit1"} : Exits(p, code)

ProcStep(c) ==
    \/ proc'[c] = proc[c]
    \/ proc'[c] = None /\ (Settles(c) \/ \E p \in Procs : Sees(p) /\ of[p] = c)

(* A step that does not start a process leaves all processes to whom they   *)
(* belong, and the monitors go on in their order, or end.                   *)
LEMMA QuietStep ==
    ASSUME TypeInv, QueueInv, AsksAllowed, [Next]_vars, ~\E p \in Procs : Exec(p)
    PROVE  /\ of' = of /\ latest' = latest
           /\ \A p \in Procs : LifeStep(p) /\ MonitorStep(p)
           /\ \A c \in Children : ProcStep(c)
<1> USE DEF child, procs, tasks, ops, mutex, MonitorStep, LifeStep, ProcStep
<1> DEFINE Quiet ==
        /\ of' = of /\ latest' = latest
        /\ \A p \in Procs : LifeStep(p) /\ MonitorStep(p)
        /\ \A c \in Children : ProcStep(c)
<1>1. /\ monitor \in [Procs -> MonitorStages] /\ proc \in [Children -> Procs \cup {None}]
      /\ life \in [Procs -> {"up", "exit0", "exit1"}]
  BY DEF TypeInv, TypeOK, MonitorStages
<1>2. ASSUME UNCHANGED <<of, latest, life, proc>>, monitor' = monitor \/ \E t : monitor' = MonitorAfter(t)
      PROVE  Quiet
  BY <1>1, <1>2 DEF MonitorAfter
<1>3. ASSUME NEW o \in Ops, NEW r \in Requests[o], NEW plan, Opens(o, r, plan) PROVE Quiet
  BY <1>2, <1>3 DEF Opens, Called, Enter
<1>4. ASSUME NEW o \in Ops, Closes(o) PROVE Quiet
  BY <1>2, <1>4 DEF Closes
<1>5. ASSUME NEW p \in Procs, Wakes(p) PROVE Quiet
  <2>1. /\ monitor' = [monitor EXCEPT ![p] = IF MonitorPlan(p) = <<>> THEN "none" ELSE "inside"]
        /\ monitor[p] \in {"backoff", "queued"} /\ UNCHANGED <<of, latest, life, proc>>
    BY <1>5 DEF Wakes
  <2> QED BY <1>1, <2>1
<1>6. ASSUME NEW c \in Children, Reaps(c) PROVE Quiet
  BY <1>2, <1>6 DEF Reaps
<1>7. ASSUME NEW o \in Ops, NEW r, CallJoins(o, r) \/ DrainJoins(o) PROVE Quiet
  BY <1>2, <1>7 DEF CallJoins, DrainJoins, Joins
<1>8. ASSUME NEW p \in Procs, MonitorJoins(p) PROVE Quiet
  BY <1>1, <1>8 DEF MonitorJoins, Joins
<1>9. ASSUME NEW c \in Children, ReaperJoins(c) PROVE Quiet
  BY <1>2, <1>9 DEF ReaperJoins, Joins
<1>10. ASSUME NEW p \in Procs, Sees(p) PROVE Quiet
  <2>1. /\ UNCHANGED <<of, latest, life>> /\ Exited(p)
        /\ proc' = proc \/ proc' = [proc EXCEPT ![of[p]] = None]
        /\ monitor' = [monitor EXCEPT ![p] = "none"] \/ monitor' = [monitor EXCEPT ![p] = "backoff"]
    BY <1>10 DEF Sees
  <2>2. \A c \in Children : ProcStep(c)
    BY <1>1, <1>10, <2>1
  <2>3. \A q \in Procs : MonitorStep(q)
    BY <1>1, <1>10, <2>1
  <2> QED BY <2>1, <2>2, <2>3
<1>11. ASSUME NEW c \in Children, Settles(c) PROVE Quiet
  <2>1. /\ UNCHANGED <<of, latest, life>>
        /\ proc' = proc \/ proc' = [proc EXCEPT ![c] = None]
        /\ monitor' = monitor \/ \E t : monitor' = MonitorAfter(t)
    BY <1>11 DEF Settles
  <2>2. \A d \in Children : ProcStep(d)
    BY <1>1, <1>11, <2>1
  <2>3. \A q \in Procs : MonitorStep(q)
    BY <1>1, <2>1 DEF MonitorAfter
  <2> QED BY <2>1, <2>2, <2>3
<1>12. ASSUME NEW c \in Children, StopSignal(c) PROVE Quiet
  BY <1>2, <1>12 DEF StopSignal
<1>13. ASSUME Passes \/ BeginStart \/ StopTimeout PROVE Quiet
  BY <1>2, <1>13 DEF Passes, BeginStart, StopTimeout
<1>14. ASSUME NEW c \in Children, BeginWork(c) \/ EndWork(c) \/ ReaperLeaves(c) PROVE Quiet
  BY <1>2, <1>14 DEF BeginWork, EndWork, ReaperLeaves
<1>15. ASSUME NEW p \in Procs, NEW code \in {"exit0", "exit1"}, Exits(p, code) PROVE Quiet
  BY <1>1, <1>15 DEF Exits
<1>16. ASSUME UNCHANGED vars PROVE Quiet
  BY <1>2, <1>16 DEF vars
<1> HIDE DEF Quiet
<1>17. Quiet
  <2>1. Cases
    BY StepCases
  <2> QED BY <2>1, <1>3, <1>4, <1>5, <1>6, <1>7, <1>8, <1>9, <1>10, <1>11, <1>12, <1>13, <1>14, <1>15, <1>16
       DEF Cases
<1> QED BY <1>17 DEF Quiet

(* What it is to start a process.                                          *)
LEMMA ExecFacts ==
    ASSUME TypeInv, QueueInv, PhaseFits, VictimIsStopped, NEW p \in Procs, Exec(p)
    PROVE  /\ Step.on \in Children /\ todo[1] = Start(Step.on) /\ Planned(Step.on)
           /\ phase = "exec" /\ victim = None /\ Free(p) /\ Advance(lock)
           /\ life'[p] = "up" /\ of'[p] = Step.on /\ monitor'[p] = "wait"
           /\ \A q \in Procs : q # p => /\ life'[q] = life[q] /\ of'[q] = of[q]
                                        /\ monitor'[q] = MonitorAfter(Leaver)[q]
           /\ status'[Step.on] = "running" /\ proc'[Step.on] = p /\ latest'[Step.on] = p
           /\ inFlight'[Step.on] = 0 /\ event'[Step.on] = None
           /\ \A d \in Children : d # Step.on =>
                  /\ status'[d] = status[d] /\ proc'[d] = proc[d] /\ latest'[d] = latest[d]
                  /\ inFlight'[d] = inFlight[d] /\ event'[d] = event[d]
           /\ UNCHANGED <<ask, drained>>
<1>1. phase = "exec" /\ Free(p) /\ Advance(lock)
  BY DEF Exec
<1>2. Step \in Steps /\ Step.do = "start" /\ todo # <<>>
  BY <1>1, HolderWorks DEF PhaseFits
<1>3. todo \in Seq(Steps) /\ Len(todo) \in Nat /\ 1 \in 1..Len(todo)
  BY <1>2 DEF TypeInv, TypeOK
<1>4. Step.on \in Children /\ todo[1] = Start(Step.on) /\ Planned(Step.on)
  BY <1>2, <1>3, StepIsStart DEF Step, Planned
<1>5. victim = None
  BY <1>1 DEF VictimIsStopped
<1>6. /\ status' = [status EXCEPT ![Step.on] = "running"]
      /\ proc' = [proc EXCEPT ![Step.on] = p]
      /\ inFlight' = [inFlight EXCEPT ![Step.on] = 0]
      /\ event' = [event EXCEPT ![Step.on] = None]
      /\ latest' = [latest EXCEPT ![Step.on] = p]
      /\ life' = [life EXCEPT ![p] = "up"]
      /\ of' = [of EXCEPT ![p] = Step.on]
      /\ monitor' = [MonitorAfter(Leaver) EXCEPT ![p] = "wait"]
      /\ UNCHANGED <<ask, drained>>
  BY DEF Exec
<1>7. DOMAIN MonitorAfter(Leaver) = Procs
  BY DEF MonitorAfter
<1> QED BY <1>1, <1>4, <1>5, <1>6, <1>7 DEF TypeInv, TypeOK

\* Every step keeps to what may be asked for.
LEMMA AsksNext == ASSUME TypeInv, QueueInv, AsksAllowed, [Next]_vars PROVE AsksAllowed'
<1> USE DEF AsksAllowed, child, procs, tasks, ops, mutex
<1>1. at \in [Ops -> Places] /\ ask \in [Ops -> Request \cup {None}]
  BY DEF TypeInv, TypeOK, Places
<1>2. ASSUME ask' = ask, \A o \in Ops : at'[o] # "uncalled" => at[o] # "uncalled" PROVE AsksAllowed'
  BY <1>2
<1>3. ASSUME NEW o \in Ops, NEW r \in Requests[o], ask' = [ask EXCEPT ![o] = r],
             \E s : at' = [at EXCEPT ![o] = s]
      PROVE  AsksAllowed'
  BY <1>1, <1>3
<1>4. CASE Holding
  <2>1. ask' = ask /\ phase # "idle" /\ (at' = at \/ at' = OpAfter(Holder))
    BY <1>4 DEF Holding, BeginStart, ExecFails, Skip, StopTimeout, Exec, StopGone, StopSignal,
                StopByReaper, StopDone, Stopping, Advance
  <2> QED BY <1>2, <2>1, HolderWorks DEF OpAfter
<1>5. CASE Calling
  <2>1. PICK o \in Ops : \/ \E r \in Requests[o] : Call(o, r)
                         \/ Proceed(o) \/ DrainEnds(o) \/ DrainStops(o)
    BY <1>5 DEF Calling
  <2>2. ASSUME NEW r \in Requests[o], Call(o, r) PROVE AsksAllowed'
    BY <1>3, <2>2 DEF Call, Called
  <2>3. CASE Proceed(o)
    BY <1>3, <2>3 DEF Proceed, Called
  <2>4. CASE DrainEnds(o) \/ DrainStops(o)
    <3>1. at[o] # "uncalled" /\ ask' = ask /\ \E s : at' = [at EXCEPT ![o] = s]
      BY <2>4 DEF DrainEnds, DrainStops
    <3> QED BY <1>1, <1>2, <3>1
  <2> QED BY <2>1, <2>2, <2>3, <2>4
<1>6. CASE Working \/ Monitoring \/ Reaping \/ Exiting \/ UNCHANGED vars
  <2>1. UNCHANGED <<ask, at>>
    BY <1>6 DEF Working, BeginWork, EndWork, Monitoring, MonitorStopping, MonitorOnDemand,
                MonitorLeaves, MonitorSchedules, MonitorDue, MonitorRestarts, Reaping,
                ReaperLeaves, ReaperFires, ReaperStops, Exiting, Exits, vars
  <2> QED BY <1>2, <2>1
<1> QED BY <1>4, <1>5, <1>6 DEF Next

\* Every step leaves processes and monitors with their owners.
LEMMA OwnersNext ==
    ASSUME TypeInv, QueueInv, WorkInv, [Next]_vars
    PROVE  UpIsOwned' /\ LatestIsOwn' /\ WokenIsGone'
<1> USE DEF WorkInv, UpIsOwned, LatestIsOwn, WokenIsGone
<1>1. /\ proc \in [Children -> Procs \cup {None}] /\ latest \in [Children -> Procs \cup {None}]
      /\ None \notin Procs
  BY SupervisorAssumption DEF TypeInv, TypeOK
<1>2. CASE \E p \in Procs : Exec(p)
  <2>1. PICK p \in Procs : Exec(p)
    BY <1>2
  <2> DEFINE c == Step.on
  <2>2. /\ c \in Children /\ Free(p)
        /\ life'[p] = "up" /\ of'[p] = c /\ monitor'[p] = "wait"
        /\ \A q \in Procs : q # p => /\ life'[q] = life[q] /\ of'[q] = of[q]
                                     /\ monitor'[q] = MonitorAfter(Leaver)[q]
        /\ proc'[c] = p /\ latest'[c] = p
        /\ \A d \in Children : d # c => proc'[d] = proc[d] /\ latest'[d] = latest[d]
    BY <2>1, ExecFacts
  <2> HIDE DEF c
  <2>3. \A q \in Procs : MonitorAfter(Leaver)[q] \in {monitor[q], "none"}
    BY DEF MonitorAfter
  <2>4. UpIsOwned' /\ WokenIsGone'
    BY <2>2, <2>3
  <2>5. ASSUME NEW d \in Children
        PROVE  /\ latest'[d] # None => of'[latest'[d]] = d
               /\ proc'[d] # None => latest'[d] = proc'[d]
    <3>1. CASE d = c
      BY <2>2, <3>1
    <3>2. CASE d # c
      BY <1>1, <2>2, <3>2 DEF Free
    <3> QED BY <3>1, <3>2
  <2> QED BY <2>4, <2>5
<1>3. CASE ~\E p \in Procs : Exec(p)
  <2>1. /\ of' = of /\ latest' = latest
        /\ \A p \in Procs : (life'[p] = "up" => life[p] = "up") /\ MonitorStep(p)
        /\ \A c \in Children : proc'[c] \in {proc[c], None}
    BY <1>3, QuietStep DEF LifeStep, ProcStep
  <2>2. UpIsOwned' /\ LatestIsOwn'
    BY <2>1
  <2>3. WokenIsGone'
    BY <2>1 DEF MonitorStep, Sees, Exited
  <2> QED BY <2>2, <2>3
<1> QED BY <1>2, <1>3

\* Every step leaves the victim of a stop without a monitor.
LEMMA VictimNext ==
    ASSUME TypeInv, QueueInv, WorkInv, [Next]_vars
    PROVE  VictimIsStopped' /\ PhaseFits'
<1> USE DEF VictimIsStopped, PhaseFits, child, procs, tasks, ops, mutex
<1> DEFINE Goal == VictimIsStopped' /\ PhaseFits'
<1>1. WorkInv /\ AsksAllowed /\ VictimIsStopped /\ PhaseFits
  BY DEF WorkInv
<1>2. ASSUME phase # "idle", NEW queue, Advance(queue) PROVE Goal
  BY <1>2, Advances
<1>3. ASSUME phase = "idle", victim' = victim, phase' \in {"idle", "next"} PROVE Goal
  BY <1>1, <1>3
<1>4. ASSUME UNCHANGED <<phase, todo, victim>>, ~\E p \in Procs : Exec(p) PROVE Goal
  <2>1. of' = of /\ (\A p \in Procs : MonitorStep(p)) /\ Step' = Step
    BY <1>1, <1>4, QuietStep DEF Step
  <2>2. PhaseFits'
    BY <1>1, <1>4, <2>1
  <2>3. ASSUME victim' # None PROVE of'[victim'] = Step'.on /\ monitor'[victim'] = "none"
    <3>1. victim # None /\ victim \in Procs /\ monitor[victim] = "none"
      BY <1>1, <1>4, <2>3 DEF TypeInv, TypeOK
    <3>2. monitor'[victim] = "none"
      BY <2>1, <3>1 DEF MonitorStep, Sees, Exited
    <3> QED BY <1>1, <1>4, <2>1, <3>1, <3>2
  <2> QED BY <1>1, <1>4, <2>2, <2>3
<1>5. ASSUME NEW p \in Procs, Exec(p) PROVE Goal
  BY <1>2, <1>5 DEF Exec
<1>6. ASSUME NEW o \in Ops, NEW r, NEW plan, Opens(o, r, plan) PROVE Goal
  BY <1>3, <1>6 DEF Opens, Idle, Called
<1>7. ASSUME NEW t, NEW steps, Idle(t), Holds(t, steps) PROVE Goal
  BY <1>3, <1>7 DEF Idle, Holds
<1>8. ASSUME NEW c \in Children, Settles(c) PROVE Goal
  BY <1>2, <1>8 DEF Settles
<1>9. ASSUME NEW c \in Children, StopSignal(c) PROVE Goal
  <2>1. /\ phase' = "term" /\ todo' = todo /\ of' = of /\ victim' = proc[c] /\ proc[c] # None
        /\ Step.on = c /\ Step.do # "start" /\ monitor' = MonitorAfter(latest[c])
    BY <1>9 DEF StopSignal, Stopping, Gone
  <2>2. of[proc[c]] = c /\ latest[c] = proc[c] /\ proc[c] \in Procs
    BY <2>1, SupervisorAssumption DEF WorkInv, LatestIsOwn, TypeInv, TypeOK
  <2>3. monitor'[proc[c]] = "none" /\ Step' = Step
    BY <2>1, <2>2 DEF MonitorAfter, Step
  <2> QED BY <2>1, <2>2, <2>3
<1>10. ASSUME Passes PROVE Goal
  BY <1>2, <1>10 DEF Passes
<1>11. ASSUME BeginStart \/ StopTimeout PROVE Goal
  <2>1. Step' = Step
    BY <1>11 DEF BeginStart, StopTimeout, Step
  <2> QED BY <1>1, <1>11, <2>1 DEF BeginStart, StopTimeout
<1>12. ASSUME \/ \E o \in Ops : DrainJoins(o) \/ \E r \in Requests[o] : CallJoins(o, r)
              \/ \E p \in Procs : MonitorJoins(p) \/ Sees(p)
              \/ \E c \in Children : ReaperJoins(c) \/ BeginWork(c) \/ EndWork(c) \/ ReaperLeaves(c)
              \/ \E p \in Procs, code \in {"exit0", "exit1"} : Exits(p, code)
              \/ UNCHANGED vars,
              ~\E p \in Procs : Exec(p)
       PROVE  Goal
  <2>1. UNCHANGED <<phase, todo, victim>>
    BY <1>12 DEF Joins, DrainJoins, CallJoins, MonitorJoins, ReaperJoins, Sees, BeginWork, EndWork,
                 ReaperLeaves, Exits, vars
  <2> QED BY <1>4, <1>12, <2>1
<1> HIDE DEF Goal
<1>13. Goal
  <2>1. Cases
    BY <1>1, StepCases
  <2>2. ASSUME NEW o \in Ops, Closes(o) PROVE Goal
    BY <1>7, <2>2 DEF Closes
  <2>3. ASSUME NEW p \in Procs, Wakes(p) PROVE Goal
    BY <1>7, <2>3 DEF Wakes
  <2>4. ASSUME NEW c \in Children, Reaps(c) PROVE Goal
    BY <1>7, <2>4 DEF Reaps
  <2> QED BY <2>1, <2>2, <2>3, <2>4, <1>5, <1>6, <1>8, <1>9, <1>10, <1>11, <1>12 DEF Cases
<1> QED BY <1>13 DEF Goal

\* Every step plans to start what is asked for, once.
LEMMA StartsNext ==
    ASSUME TypeInv, QueueInv, WorkInv, [Next]_vars, TypeInv'
    PROVE  StartsOnce' /\ StartsAreAsked'
<1> USE DEF StartsOnce, StartsAreAsked, Planned, child, procs, tasks, ops, mutex
<1> DEFINE Goal == StartsOnce' /\ StartsAreAsked'
<1>1. WorkInv /\ AsksAllowed /\ StartsOnce /\ StartsAreAsked /\ VictimIsStopped /\ PhaseFits
  BY DEF WorkInv
<1>2. ASSUME phase # "idle", NEW queue, Advance(queue), ask' = ask PROVE Goal
  <2>1. /\ Len(todo) \in Nat \ {0} /\ Len(todo') = Len(todo) - 1
        /\ \A i \in 1..Len(todo') : i + 1 \in 1..Len(todo) /\ todo'[i] = todo[i + 1]
        /\ todo' # <<>> => at' = at
    BY <1>2, Advances
  <2>2. StartsOnce'
    <3> SUFFICES ASSUME NEW c \in Children, NEW i \in 1..Len(todo'), NEW j \in 1..Len(todo'),
                        todo'[i] = Start(c), todo'[j] = Start(c)
                 PROVE  i = j
      BY DEF Start
    <3>1. i + 1 \in 1..Len(todo) /\ j + 1 \in 1..Len(todo) /\ todo[i + 1] = Start(c) /\ todo[j + 1] = Start(c)
      BY <2>1
    <3>2. i + 1 = j + 1
      BY <1>1, <3>1
    <3> QED BY <3>2
  <2>3. StartsAreAsked'
    <3> SUFFICES ASSUME NEW c \in Children, NEW i \in 1..Len(todo'), todo'[i] = Start(c)
                 PROVE  \E o \in Ops : at'[o] = "inside" /\ Starts(ask'[o], c)
      BY DEF Start, Starts, Desired
    <3>1. Planned(c) /\ Len(todo) > 1
      BY <2>1
    <3>2. ASSUME NEW p \in Procs PROVE monitor[p] # "inside"
      <4>1. Len(<<Start(of[p])>>) = 1
        OBVIOUS
      <4>2. monitor[p] = "inside" => todo = <<Start(of[p])>>
        BY DEF QueueInv, MonitorsStart
      <4>3. Len(todo) # 1
        BY <2>1, <3>1
      <4> HIDE DEF Planned
      <4> QED BY <4>1, <4>2, <4>3
    <3>3. at' = at
      BY <2>1, <3>1
    <3> QED BY <1>1, <1>2, <3>1, <3>2, <3>3
  <2> QED BY <2>2, <2>3
<1>3. ASSUME todo' = todo, of' = of,
             \A o \in Ops : at[o] = "inside" => at'[o] = "inside" /\ ask'[o] = ask[o],
             todo # <<>> => \A p \in Procs : monitor[p] = "inside" => monitor'[p] = "inside"
      PROVE  Goal
  <2>1. StartsOnce'
    BY <1>1, <1>3 DEF Start
  <2>2. StartsAreAsked'
    <3> SUFFICES ASSUME NEW c \in Children, NEW i \in 1..Len(todo'), todo'[i] = Start(c)
                 PROVE  \/ \E o \in Ops : at'[o] = "inside" /\ Starts(ask'[o], c)
                        \/ \E p \in Procs : monitor'[p] = "inside" /\ of'[p] = c
      BY DEF Start, Starts, Desired
    <3>1. Planned(c) /\ todo # <<>>
      BY <1>3
    <3> QED BY <1>1, <1>3, <3>1
  <2> QED BY <2>1, <2>2
<1>4. ASSUME \A c \in Children : \A i \in 1..Len(todo') : todo'[i] # Start(c) PROVE Goal
  BY <1>4 DEF Start
<1>5. ASSUME NEW p \in Procs, Exec(p) PROVE Goal
  <2>1. phase # "idle" /\ Advance(lock) /\ ask' = ask
    BY <1>5 DEF Exec
  <2> QED BY <1>2, <2>1
<1>6. ASSUME NEW o \in Ops, NEW r \in Requests[o], NEW plan \in Plans(r), Opens(o, r, plan) PROVE Goal
  <2>1. r \in Request /\ todo' = plan /\ ask'[o] = r
    <3>1. todo' = plan /\ ask' = [ask EXCEPT ![o] = r]
      BY <1>6 DEF Opens, Called
    <3>2. r \in Request /\ ask \in [Ops -> Request \cup {None}]
      BY SupervisorAssumption DEF TypeInv, TypeOK
    <3> QED BY <3>1, <3>2
  <2>2. ASSUME NEW c \in Children, NEW i \in 1..Len(plan), plan[i] = Start(c)
        PROVE  Starts(r, c) /\ at'[o] = "inside"
    <3>1. Starts(r, c)
      BY <2>1, <2>2, PlansStart
    <3>2. plan # <<>> /\ r.do # "drain"
      BY <2>2, <3>1 DEF Starts
    <3> QED BY <1>6, <3>1, <3>2 DEF Opens, Called, TypeInv, TypeOK
  <2>3. StartsOnce'
    BY <2>1, PlansStart DEF Start
  <2>4. StartsAreAsked'
    BY <2>1, <2>2 DEF Start, Starts, Desired
  <2> QED BY <2>3, <2>4
<1>7. ASSUME NEW o \in Ops, Closes(o) PROVE Goal
  <2>1. todo' \in {<<>>, <<Stop(ask[o].on)>>}
    BY <1>7 DEF Closes, Holds, DrainPlan
  <2> QED BY <1>4, <2>1, StepsDiffer
<1>8. ASSUME NEW c \in Children, Reaps(c) PROVE Goal
  <2>1. todo' \in {<<>>, <<Stop(c)>>}
    BY <1>8 DEF Reaps, Holds, ReaperPlan
  <2> QED BY <1>4, <2>1, StepsDiffer
<1>9. ASSUME NEW p \in Procs, Wakes(p) PROVE Goal
  <2>1. CASE todo' = <<>>
    BY <1>4, <2>1
  <2>2. CASE todo' # <<>>
    <3>1. todo' = <<Start(of[p])>> /\ monitor'[p] = "inside" /\ of' = of
      BY <1>9, <2>2 DEF Wakes, Holds, MonitorPlan, TypeInv, TypeOK
    <3>2. StartsOnce'
      BY <3>1 DEF Start
    <3>3. StartsAreAsked'
      <4> SUFFICES ASSUME NEW c \in Children, NEW i \in 1..Len(todo'), todo'[i] = Start(c)
                   PROVE  \E q \in Procs : monitor'[q] = "inside" /\ of'[q] = c
        BY DEF Start, Starts, Desired
      <4>1. Start(of[p]) = Start(c)
        BY <3>1
      <4> QED BY <3>1, <4>1, StepsDiffer
    <3> QED BY <3>2, <3>3
  <2> QED BY <2>1, <2>2
<1>10. ASSUME NEW c \in Children, Settles(c) PROVE Goal
  BY <1>2, <1>10 DEF Settles
<1>11. ASSUME NEW c \in Children, StopSignal(c) PROVE Goal
  <2>1. phase # "idle" /\ Step.do # "start" /\ UNCHANGED <<todo, of, at, ask>>
    BY <1>11 DEF StopSignal, Stopping
  <2>2. \A p \in Procs : monitor[p] # "inside"
    BY <2>1, StepsDiffer DEF QueueInv, MonitorsStart, Step
  <2> QED BY <1>3, <2>1, <2>2
<1>12. ASSUME Passes PROVE Goal
  BY <1>2, <1>12 DEF Passes
<1>13. ASSUME NEW o \in Ops, NEW r, CallJoins(o, r) PROVE Goal
  <2>1. /\ UNCHANGED <<todo, of, monitor>> /\ at[o] # "inside"
        /\ \A q \in Ops : q # o => at'[q] = at[q] /\ ask'[q] = ask[q]
    BY <1>13 DEF CallJoins, Joins, TypeInv, TypeOK
  <2> QED BY <1>3, <2>1
<1>14. ASSUME NEW o \in Ops, DrainJoins(o) PROVE Goal
  <2>1. /\ UNCHANGED <<todo, of, monitor, ask>> /\ at[o] # "inside"
        /\ \A q \in Ops : q # o => at'[q] = at[q]
    BY <1>14 DEF DrainJoins, Joins, TypeInv, TypeOK
  <2> QED BY <1>3, <2>1
<1>15. ASSUME NEW p \in Procs, MonitorJoins(p) \/ Sees(p) PROVE Goal
  <2>1. /\ UNCHANGED <<todo, of, at, ask>> /\ monitor[p] # "inside"
        /\ \A q \in Procs : q # p => monitor'[q] = monitor[q]
    BY <1>15 DEF MonitorJoins, Joins, Sees, Exited, TypeInv, TypeOK
  <2> QED BY <1>3, <2>1
<1>16. ASSUME \/ BeginStart \/ StopTimeout \/ UNCHANGED vars
              \/ \E c \in Children : ReaperJoins(c) \/ BeginWork(c) \/ EndWork(c) \/ ReaperLeaves(c)
              \/ \E p \in Procs, code \in {"exit0", "exit1"} : Exits(p, code)
       PROVE  Goal
  <2>1. UNCHANGED <<todo, of, at, ask, monitor>>
    BY <1>16 DEF BeginStart, StopTimeout, vars, ReaperJoins, Joins, BeginWork, EndWork, ReaperLeaves, Exits
  <2> QED BY <1>3, <2>1
<1> HIDE DEF Goal
<1>17. Goal
  <2>1. Cases
    BY <1>1, StepCases
  <2> QED BY <2>1, <1>5, <1>6, <1>7, <1>8, <1>9, <1>10, <1>11, <1>12, <1>13, <1>14, <1>15, <1>16
          DEF Cases
<1> QED BY <1>17 DEF Goal

\* Every step makes a reaper only of a child that is kept.
LEMMA ReapersNext ==
    ASSUME TypeInv, QueueInv, WorkInv, [Next]_vars PROVE ReapersAreKept'
<1> USE DEF ReapersAreKept, Unkept, child, procs, tasks, ops, mutex
<1> DEFINE Goal == \A c \in Children : reaper'[c] # "none" => ~Unkept(c)
<1>1. WorkInv /\ AsksAllowed /\ ReapersAreKept /\ PhaseFits
  BY DEF WorkInv
<1>2. ASSUME \A c \in Children : reaper'[c] # "none" => reaper[c] # "none" PROVE Goal
  BY <1>1, <1>2
<1>3. \A t : \A c \in Children : ReaperAfter(t)[c] # "none" => reaper[c] # "none"
  BY DEF ReaperAfter
<1>4. ASSUME phase = "exec", reaper' \in {ReaperAfter(Leaver), Reapers(Step.on)} PROVE Goal
  <2>1. CASE ~Reaped(Step.on)
    BY <1>2, <1>3, <1>4, <2>1 DEF Reapers
  <2>2. CASE Reaped(Step.on)
    <3>1. Step \in Steps /\ Step.do = "start" /\ todo # <<>> /\ todo \in Seq(Steps)
      BY <1>1, <1>4, HolderWorks DEF PhaseFits, TypeInv, TypeOK
    <3>2. Step.on \in Children /\ Planned(Step.on)
      BY <3>1, StepIsStart DEF Step, Planned
    <3>3. PICK t \in Tasks : \/ t \in Ops /\ at[t] = "inside" /\ Starts(ask[t], Step.on)
                             \/ t \in Procs /\ monitor[t] = "inside"
      BY <1>1, <3>2 DEF WorkInv, StartsAreAsked, Tasks
    <3>4. t = Holder /\ Holder \in Ops /\ ask[Holder].do = "ensure_running" /\ Policy[Step.on] = "on_demand"
      BY <2>2, <3>3 DEF QueueInv, HolderInside, Inside, Reaped, Holder
    <3>5. Starts(ask[Holder], Step.on) /\ at[Holder] = "inside"
      BY <3>3, <3>4, SupervisorAssumption
    <3>6. ask[Holder] \in Requests[Holder] /\ Keeps(ask[Holder], Step.on)
      BY <1>1, <3>4, <3>5 DEF AsksAllowed, Keeps, Starts
    <3>7. ~Unkept(Step.on)
      BY <3>4, <3>6
    <3>8. \A c \in Children : reaper'[c] # "none" => reaper[c] # "none" \/ c = Step.on
      BY <1>4, <2>2 DEF Reapers, ReaperAfter
    <3> QED BY <1>1, <3>7, <3>8
  <2> QED BY <2>1, <2>2
<1>5. ASSUME NEW p \in Procs, Exec(p) PROVE Goal
  BY <1>4, <1>5 DEF Exec
<1>6. ASSUME Passes PROVE Goal
  BY <1>2, <1>4, <1>6 DEF Passes
<1>7. ASSUME NEW c \in Children, Settles(c) \/ StopSignal(c) PROVE Goal
  <2>1. \E t : reaper' = ReaperAfter(t)
    BY <1>7 DEF Settles, StopSignal
  <2> QED BY <1>2, <1>3, <2>1
<1>8. ASSUME NEW c \in Children, Reaps(c) \/ ReaperJoins(c) \/ ReaperLeaves(c) PROVE Goal
  <2>1. reaper[c] # "none" /\ \E s : reaper' = [reaper EXCEPT ![c] = s]
    BY <1>8 DEF Reaps, ReaperJoins, ReaperLeaves
  <2> QED BY <1>2, <2>1 DEF TypeInv, TypeOK
<1>9. ASSUME NEW p \in Procs, Sees(p) PROVE Goal
  BY <1>2, <1>3, <1>9 DEF Sees
<1>10. ASSUME \/ \E o \in Ops : \/ Closes(o) \/ DrainJoins(o)
                                \/ \E r \in Requests[o] : CallJoins(o, r) \/ \E plan \in Plans(r) : Opens(o, r, plan)
              \/ \E p \in Procs : Wakes(p) \/ MonitorJoins(p)
              \/ \E c \in Children : BeginWork(c) \/ EndWork(c)
              \/ \E p \in Procs, code \in {"exit0", "exit1"} : Exits(p, code)
              \/ BeginStart \/ StopTimeout \/ UNCHANGED vars
       PROVE  Goal
  <2>1. ASSUME NEW o \in Ops, Closes(o) \/ DrainJoins(o) PROVE reaper' = reaper
    BY <2>1 DEF Closes, DrainJoins
  <2>2. ASSUME NEW o \in Ops, NEW r \in Requests[o],
               CallJoins(o, r) \/ \E plan \in Plans(r) : Opens(o, r, plan)
        PROVE  reaper' = reaper
    BY <2>2 DEF CallJoins, Opens, Called
  <2>3. ASSUME NEW p \in Procs, Wakes(p) \/ MonitorJoins(p) PROVE reaper' = reaper
    BY <2>3 DEF Wakes, MonitorJoins
  <2>4. ASSUME NEW c \in Children, BeginWork(c) \/ EndWork(c) PROVE reaper' = reaper
    BY <2>4 DEF BeginWork, EndWork
  <2>5. ASSUME NEW p \in Procs, NEW code \in {"exit0", "exit1"}, Exits(p, code) PROVE reaper' = reaper
    BY <2>5 DEF Exits
  <2>6. ASSUME BeginStart \/ StopTimeout \/ UNCHANGED vars PROVE reaper' = reaper
    BY <2>6 DEF BeginStart, StopTimeout, vars
  <2>7. reaper' = reaper
    BY ZenonT(30), <1>10, <2>1, <2>2, <2>3, <2>4, <2>5, <2>6
  <2> QED BY <1>2, <2>7
<1> HIDE DEF Goal
<1>11. Goal
  <2>1. Cases
    BY <1>1, StepCases
  <2> QED BY <2>1, <1>5, <1>6, <1>7, <1>8, <1>9, <1>10 DEF Cases
<1> QED BY <1>11 DEF Goal, Keeps

\* What is said of the processes and the holder's work holds throughout.
LEMMA WorkInductive == Spec => [](TypeInv /\ QueueInv /\ WorkInv)
<1>1. Init => WorkInv
  <2> SUFFICES ASSUME Init PROVE WorkInv
    OBVIOUS
  <2>1. AsksAllowed /\ UpIsOwned /\ LatestIsOwn /\ VictimIsStopped /\ WokenIsGone /\ PhaseFits
    BY DEF Init, AsksAllowed, UpIsOwned, LatestIsOwn, VictimIsStopped, WokenIsGone, PhaseFits
  <2>2. StartsOnce /\ StartsAreAsked /\ ReapersAreKept
    BY DEF Init, StartsOnce, StartsAreAsked, ReapersAreKept, Planned
  <2> QED BY <2>1, <2>2 DEF WorkInv
<1>2. TypeInv /\ QueueInv /\ WorkInv /\ [Next]_vars => WorkInv'
  <2> SUFFICES ASSUME TypeInv, QueueInv, WorkInv, [Next]_vars PROVE WorkInv'
    OBVIOUS
  <2>1. AsksAllowed' /\ TypeInv'
    BY AsksNext, TypeNext DEF WorkInv
  <2> QED BY <2>1, OwnersNext, VictimNext, StartsNext, ReapersNext DEF WorkInv
<1> QED BY <1>1, <1>2, Inductive, PTL DEF Spec

(* How the status of a child changes, other than by a start.                *)
StatusStep(c) ==
    \/ status'[c] = status[c]
    \/ phase = "idle" /\ status[c] \in {"absent", "crashed"} /\ status'[c] = "stopped"
    \/ /\ phase = "idle" /\ Running(c) /\ status'[c] = "draining"
       /\ \E o \in Ops : \E r \in Requests[o] : \E plan \in Plans(r) : Drains(r, c) /\ Opens(o, r, plan)
    \/ (\E p \in Procs : Sees(p) /\ of[p] = c) /\ status'[c] \in {"stopped", "crashed", "failed"}
    \/ Settles(c) /\ status'[c] = "stopped"
    \/ StopSignal(c) /\ status'[c] = "stopping"

\* A step that does not start a process changes a status in one of these ways.
LEMMA StatusSteps ==
    ASSUME TypeInv, QueueInv, AsksAllowed, [Next]_vars, ~\E p \in Procs : Exec(p),
           NEW c \in Children
    PROVE  StatusStep(c)
<1> USE DEF child, procs, tasks, ops, mutex
<1>1. status \in [Children -> Statuses]
  BY DEF TypeInv, TypeOK, Statuses
<1>2. ASSUME NEW o \in Ops, NEW r \in Requests[o], NEW plan \in Plans(r), Opens(o, r, plan)
      PROVE  StatusStep(c)
  <2>1. phase = "idle" /\ Enter(o, r) /\ r \in Request
    BY <1>2, SupervisorAssumption DEF Opens, Idle, Called
  <2>2. CASE r.do = "stop" /\ status[r.on] = "crashed"
    <3>1. status' = [status EXCEPT ![r.on] = "stopped"]
      BY <2>1, <2>2 DEF Enter
    <3>2. CASE c = r.on
      BY <1>1, <2>1, <2>2, <3>1, <3>2 DEF StatusStep
    <3>3. CASE c # r.on
      BY <1>1, <3>1, <3>3 DEF StatusStep
    <3> QED BY <3>2, <3>3
  <2>3. CASE ~(r.do = "stop" /\ status[r.on] = "crashed")
    <3>1. status' = [d \in Children |->
                IF r.do = "reconcile" /\ d \in r.on \ Desired(r) /\ status[d] = "absent" THEN "stopped"
                ELSE IF r.do = "drain" /\ d = r.on /\ Running(d) THEN "draining"
                ELSE status[d]]
      BY <2>1, <2>3 DEF Enter
    <3>2. CASE r.do = "reconcile" /\ c \in r.on \ Desired(r) /\ status[c] = "absent"
      BY <2>1, <3>1, <3>2 DEF StatusStep
    <3>3. CASE r.do = "drain" /\ c = r.on /\ Running(c)
      <4>1. Drains(r, c) /\ status'[c] = "draining"
        BY <3>1, <3>3 DEF Drains
      <4> QED BY <1>2, <2>1, <3>3, <4>1 DEF StatusStep
    <3>4. CASE /\ ~(r.do = "reconcile" /\ c \in r.on \ Desired(r) /\ status[c] = "absent")
               /\ ~(r.do = "drain" /\ c = r.on /\ Running(c))
      BY <3>1, <3>4 DEF StatusStep
    <3> QED BY <3>2, <3>3, <3>4
  <2> QED BY <2>2, <2>3
<1>3. ASSUME NEW p \in Procs, Sees(p) PROVE StatusStep(c)
  <2>1. PICK s \in {"stopped", "crashed", "failed"} : status' = [status EXCEPT ![of[p]] = s]
    BY <1>3 DEF Sees
  <2> QED BY <1>1, <1>3, <2>1 DEF StatusStep
<1>4. ASSUME NEW d \in Children, Settles(d) PROVE StatusStep(c)
  <2>1. status' = [status EXCEPT ![d] = "stopped"]
    BY <1>4 DEF Settles
  <2> QED BY <1>1, <1>4, <2>1 DEF StatusStep
<1>5. ASSUME NEW d \in Children, StopSignal(d) PROVE StatusStep(c)
  <2>1. status' = [status EXCEPT ![d] = "stopping"]
    BY <1>5 DEF StopSignal
  <2> QED BY <1>1, <1>5, <2>1 DEF StatusStep
<1>6. ASSUME \/ \E o \in Ops : Closes(o) \/ DrainJoins(o) \/ \E r \in Requests[o] : CallJoins(o, r)
             \/ \E p \in Procs : Wakes(p) \/ MonitorJoins(p)
             \/ \E d \in Children : Reaps(d) \/ ReaperJoins(d) \/ ReaperLeaves(d)
                                    \/ BeginWork(d) \/ EndWork(d)
             \/ \E p \in Procs, code \in {"exit0", "exit1"} : Exits(p, code)
             \/ Passes \/ BeginStart \/ StopTimeout \/ UNCHANGED vars
      PROVE  StatusStep(c)
  <2>1. status' = status
    BY <1>6 DEF Closes, Joins, DrainJoins, CallJoins, Wakes, MonitorJoins, Reaps, ReaperJoins,
                ReaperLeaves, BeginWork, EndWork, Exits, Passes, BeginStart, StopTimeout, vars
  <2> QED BY <2>1 DEF StatusStep
<1>7. Cases
  BY StepCases
<1> QED BY <1>2, <1>3, <1>4, <1>5, <1>6, <1>7 DEF Cases

(***************************************************************************)
(* A child that is started once.  The right to start it is a token: first    *)
(* the call that may ask for it has it, until it starts a process, and then *)
(* it passes from a process with its monitor to the next one.               *)
(***************************************************************************)
Pending(o, c) ==
    /\ o \in Starters(c)
    /\ at[o] \in {"uncalled", "queued"} \/ (at[o] = "inside" /\ Planned(c))
Never(c) == status[c] \in {"absent", "stopped"} /\ \A p \in Procs : of[p] # c
Alive(p) == life[p] = "up" \/ monitor[p] # "none"

FirstStart ==
    \A c \in Children : StartedOnce(c) => \A o \in Ops : Pending(o, c) => Never(c)
OneToken ==
    \A p, q \in Procs :
        Alive(p) /\ Alive(q) /\ of[p] = of[q] /\ StartedOnce(of[p]) => p = q

(* A child in backoff, or one whose restart was overtaken by a stop, has no  *)
(* process, and is neither running nor draining until its monitor starts it. *)
CrashedIsDown ==
    \A p \in Procs : life[p] = "up" /\ StartedOnce(of[p]) => status[of[p]] # "crashed"
WokenIsDown ==
    \A p \in Procs : monitor[p] \in {"backoff", "queued", "inside"} /\ StartedOnce(of[p]) =>
        status[of[p]] \notin {"running", "draining"}

OnceInv == FirstStart /\ OneToken /\ CrashedIsDown /\ WokenIsDown

\* A pending start was pending before.
LEMMA PendingSteps ==
    ASSUME TypeInv, QueueInv, WorkInv, [Next]_vars, NEW c \in Children, NEW o \in Ops,
           Pending(o, c)'
    PROVE  Pending(o, c)
<1> USE DEF child, procs, tasks, ops, mutex
<1>1. WorkInv /\ AsksAllowed
  BY DEF WorkInv
<1>2. o \in Starters(c) /\ (at'[o] \in {"uncalled", "queued"} \/ (at'[o] = "inside" /\ Planned(c)'))
  BY DEF Pending, Starters, Starts, Desired
<1> DEFINE Goal == Pending(o, c)
<1>3. ASSUME at[o] \in {"uncalled", "queued"} \/ (at[o] = "inside" /\ (Planned(c)' => Planned(c))),
             at'[o] = at[o] \/ at[o] # "inside"
      PROVE  Goal
  BY <1>2, <1>3 DEF Pending
<1>4. ASSUME phase = "idle" PROVE at[o] # "inside"
  BY <1>4 DEF QueueInv, HolderInside, Inside, Tasks
<1>5. ASSUME phase = "idle", at'[o] = at[o] PROVE Goal
  BY <1>2, <1>3, <1>4, <1>5
<1>6. ASSUME todo' = todo, at'[o] = at[o] PROVE Goal
  BY <1>2, <1>6 DEF Pending, Planned
<1>7. ASSUME phase # "idle", NEW queue, Advance(queue) PROVE Goal
  <2>1. /\ \A i \in 1..Len(todo') : i + 1 \in 1..Len(todo) /\ todo'[i] = todo[i + 1]
        /\ at'[o] = at[o] \/ at'[o] = "done"
    BY <1>7, Advances
  <2>2. Planned(c)' => Planned(c)
    BY <2>1 DEF Planned, Start
  <2> QED BY <1>2, <2>1, <2>2 DEF Pending
<1>8. ASSUME NEW q \in Ops, NEW r \in Requests[q], NEW plan \in Plans(r), Opens(q, r, plan) PROVE Goal
  <2>1. phase = "idle" /\ at[q] \in {"uncalled", "queued"} /\ \E s : at' = [at EXCEPT ![q] = s]
    BY <1>8 DEF Opens, Idle, Called
  <2>2. CASE q = o
    BY <1>2, <2>1, <2>2 DEF Pending
  <2>3. CASE q # o
    BY <1>5, <2>1, <2>3 DEF TypeInv, TypeOK
  <2> QED BY <2>2, <2>3
<1>9. ASSUME NEW q \in Ops, Closes(q) PROVE Goal
  <2>1. /\ phase = "idle" /\ todo' = DrainPlan(q) /\ at[q] \in {"draining", "requeued"}
        /\ at' = [at EXCEPT ![q] = IF DrainPlan(q) = <<>> THEN "done" ELSE "inside"]
    BY <1>9 DEF Closes, Idle, Holds
  <2>2. CASE q = o
    <3>1. at'[o] \in {"done", "inside"}
      BY <2>1, <2>2 DEF TypeInv, TypeOK
    <3>2. ~Planned(c)'
      <4>1. todo' \in {<<>>, <<Stop(ask[q].on)>>}
        BY <2>1 DEF DrainPlan
      <4>2. \A i \in 1..Len(todo') : todo'[i] # Start(c)
        BY <4>1, StepsDiffer
      <4> QED BY <4>2 DEF Planned, Start
    <3> QED BY <1>2, <3>1, <3>2
  <2>3. CASE q # o
    BY <1>5, <2>1, <2>3 DEF TypeInv, TypeOK
  <2> QED BY <2>2, <2>3
<1>10. ASSUME (\E p \in Procs : Wakes(p)) \/ \E d \in Children : Reaps(d) PROVE Goal
  BY <1>5, <1>10 DEF Wakes, Reaps, Idle
<1>11. ASSUME NEW q \in Ops, DrainJoins(q) \/ \E r \in Requests[q] : CallJoins(q, r) PROVE Goal
  <2>1. /\ todo' = todo
        /\ \/ at[q] = "uncalled" /\ at' = [at EXCEPT ![q] = "queued"]
           \/ at[q] = "draining" /\ at' = [at EXCEPT ![q] = "requeued"]
    BY <1>11 DEF DrainJoins, CallJoins, Joins
  <2>2. CASE q = o
    BY <1>2, <2>1, <2>2 DEF Pending, TypeInv, TypeOK
  <2>3. CASE q # o
    BY <1>6, <2>1, <2>3 DEF TypeInv, TypeOK
  <2> QED BY <2>2, <2>3
<1>12. ASSUME \/ \E p \in Procs : Exec(p)
              \/ \E d \in Children : Settles(d)
              \/ Passes
       PROVE  Goal
  BY <1>7, <1>12 DEF Exec, Settles, Passes
<1>13. ASSUME \/ \E p \in Procs : MonitorJoins(p) \/ Sees(p)
              \/ \E d \in Children : \/ ReaperJoins(d) \/ StopSignal(d) \/ ReaperLeaves(d)
                                     \/ BeginWork(d) \/ EndWork(d)
              \/ \E p \in Procs, code \in {"exit0", "exit1"} : Exits(p, code)
              \/ BeginStart \/ StopTimeout \/ UNCHANGED vars
       PROVE  Goal
  <2>1. UNCHANGED <<todo, at>>
    BY <1>13 DEF Joins, MonitorJoins, Sees, ReaperJoins, StopSignal, ReaperLeaves, BeginWork, EndWork,
                 Exits, BeginStart, StopTimeout, vars
  <2> QED BY <1>6, <2>1
<1> HIDE DEF Goal
<1>14. Goal
  <2>1. Cases
    BY <1>1, StepCases
  <2> QED BY <2>1, <1>8, <1>9, <1>10, <1>11, <1>12, <1>13 DEF Cases
<1> QED BY <1>14 DEF Goal

(* A start of a child takes the token from a call that may start it, or     *)
(* from the monitor of its last process.                                   *)
LEMMA TokenTaken ==
    ASSUME TypeInv, QueueInv, WorkInv, [Next]_vars, NEW p \in Procs, Exec(p),
           NEW c, c = Step.on
    PROVE  /\ \A o \in Ops : ~Pending(o, c)' \/ at[o] # "inside"
           /\ \/ \E o \in Ops : Holder = o /\ at[o] = "inside" /\ Pending(o, c)
              \/ \E q \in Procs : /\ Holder = q /\ of[q] = c /\ Alive(q) /\ life[q] # "up"
                                  /\ q # p /\ monitor'[q] = "none" /\ life'[q] = life[q]
<1>1. /\ WorkInv /\ AsksAllowed /\ StartsAreAsked /\ StartsOnce /\ WokenIsGone /\ PhaseFits /\ VictimIsStopped
  BY DEF WorkInv
<1>2. /\ c \in Children /\ todo[1] = Start(c) /\ Planned(c) /\ phase = "exec" /\ Advance(lock) /\ Free(p)
      /\ \A q \in Procs : q # p => life'[q] = life[q] /\ monitor'[q] = MonitorAfter(Leaver)[q]
  BY <1>1, ExecFacts
<1>3. ASSUME NEW o \in Ops, Pending(o, c)', at[o] = "inside" PROVE FALSE
  <2>1. /\ at'[o] \in {"inside", "done"} /\ Len(todo) \in Nat \ {0}
        /\ \A i \in 1..Len(todo') : i + 1 \in 1..Len(todo) /\ todo'[i] = todo[i + 1]
        /\ Len(todo') = Len(todo) - 1
    BY <1>2, <1>3, Advances
  <2>2. Planned(c)'
    BY <1>3, <2>1 DEF Pending, Starters, Starts, Desired
  <2>3. PICK i \in 1..Len(todo') : todo'[i] = Start(c)
    BY <2>2 DEF Planned, Start
  <2>4. todo[i + 1] = Start(c) /\ i + 1 \in 1..Len(todo) /\ i + 1 # 1 /\ 1 \in 1..Len(todo)
    BY <2>1, <2>3
  <2> QED BY <1>1, <1>2, <2>4 DEF StartsOnce
<1>4. CASE \E o \in Ops : at[o] = "inside" /\ Starts(ask[o], c)
  <2>1. PICK o \in Ops : at[o] = "inside" /\ Starts(ask[o], c)
    BY <1>4
  <2>2. Holder = o
    BY <2>1 DEF QueueInv, HolderInside, Inside, Tasks, Holder
  <2>3. Pending(o, c)
    BY <1>1, <1>2, <2>1 DEF Pending, Starters, AsksAllowed
  <2> QED BY <1>3, <2>1, <2>2, <2>3
<1>5. CASE \E q \in Procs : monitor[q] = "inside" /\ of[q] = c
  <2>1. PICK q \in Procs : monitor[q] = "inside" /\ of[q] = c
    BY <1>5
  <2>2. Holder = q /\ todo = <<Start(of[q])>>
    BY <2>1 DEF QueueInv, HolderInside, MonitorsStart, Inside, Tasks, Holder
  <2>3. q # p /\ Alive(q) /\ life[q] # "up"
    BY <1>1, <1>2, <2>1 DEF Free, Alive, WokenIsGone
  <2>4. Leaver = q
    <3>1. Len(<<Start(of[q])>>) = 1
      OBVIOUS
    <3> QED BY <2>2, <3>1 DEF Leaver
  <2>5. monitor'[q] = "none" /\ life'[q] = life[q]
    BY <1>2, <2>3, <2>4 DEF MonitorAfter
  <2> QED BY <1>3, <2>1, <2>2, <2>3, <2>5
<1> QED BY <1>1, <1>2, <1>4, <1>5 DEF StartsAreAsked

\* Every step leaves one token for a child that is started once.
LEMMA TokenNext ==
    ASSUME TypeInv, QueueInv, WorkInv, OnceInv, [Next]_vars
    PROVE  FirstStart' /\ OneToken'
<1>1. /\ WorkInv /\ AsksAllowed /\ LatestIsOwn /\ PhaseFits /\ VictimIsStopped
      /\ FirstStart /\ OneToken
  BY DEF WorkInv, OnceInv
<1>2. CASE \E p \in Procs : Exec(p)
  <2>1. PICK p \in Procs : Exec(p)
    BY <1>2
  <2>c. PICK c : c = Step.on
    OBVIOUS
  <2>2. /\ c \in Children /\ Free(p) /\ life'[p] = "up" /\ of'[p] = c
        /\ \A q \in Procs : q # p => /\ life'[q] = life[q] /\ of'[q] = of[q]
                                     /\ monitor'[q] = MonitorAfter(Leaver)[q]
        /\ \A d \in Children : d # c => status'[d] = status[d]
    BY <1>1, <2>1, <2>c, ExecFacts
  <2>3. /\ \A o \in Ops : ~Pending(o, c)' \/ at[o] # "inside"
        /\ \/ \E o \in Ops : Holder = o /\ at[o] = "inside" /\ Pending(o, c)
           \/ \E q \in Procs : /\ Holder = q /\ of[q] = c /\ Alive(q) /\ life[q] # "up"
                               /\ q # p /\ monitor'[q] = "none" /\ life'[q] = life[q]
    BY <2>1, <2>c, TokenTaken
  <2>4. FirstStart'
    <3> SUFFICES ASSUME NEW d \in Children, StartedOnce(d), NEW o \in Ops, Pending(o, d)'
                 PROVE  Never(d)'
      BY DEF FirstStart, StartedOnce, Starters, Starts, Desired
    <3>1. Pending(o, d) /\ Never(d)
      BY <1>1, PendingSteps DEF FirstStart
    <3>2. CASE d = c
      <4>1. PICK q \in Ops : at[q] = "inside" /\ Pending(q, c)
        BY <2>3, <3>1, <3>2 DEF Never
      <4>2. q = o
        BY <3>1, <3>2, <4>1 DEF Pending, StartedOnce
      <4> QED BY <2>3, <3>2, <4>1, <4>2
    <3>3. CASE d # c
      BY <2>2, <3>1, <3>3 DEF Never
    <3> QED BY <3>2, <3>3
  <2>5. \A q \in Procs : q # p /\ Alive(q)' => Alive(q)
    BY <2>2 DEF Alive, MonitorAfter
  <2>6. ASSUME NEW q \in Procs, q # p, Alive(q)', of[q] = c, StartedOnce(c) PROVE FALSE
    <3>1. Alive(q)
      BY <2>5, <2>6
    <3>2. CASE \E o \in Ops : Pending(o, c)
      BY <1>1, <2>2, <2>6, <3>2 DEF FirstStart, Never
    <3>3. CASE \E m \in Procs : /\ of[m] = c /\ Alive(m) /\ life[m] # "up"
                                /\ m # p /\ monitor'[m] = "none" /\ life'[m] = life[m]
      <4>1. PICK m \in Procs : /\ of[m] = c /\ Alive(m) /\ life[m] # "up"
                               /\ monitor'[m] = "none" /\ life'[m] = life[m]
        BY <3>3
      <4>2. m = q
        BY <1>1, <2>6, <3>1, <4>1 DEF OneToken
      <4> QED BY <2>6, <4>1, <4>2 DEF Alive
    <3> QED BY <2>3, <3>2, <3>3
  <2>7. OneToken'
    <3> SUFFICES ASSUME NEW q \in Procs, NEW m \in Procs, Alive(q)', Alive(m)', of'[q] = of'[m],
                        StartedOnce(of'[q])
                 PROVE  q = m
      BY DEF OneToken, StartedOnce, Starters, Starts, Desired
    <3>1. CASE q # p /\ m # p
      BY <1>1, <2>2, <2>5, <3>1 DEF OneToken
    <3>2. CASE q = p \/ m = p
      BY <2>2, <2>6, <3>2
    <3> QED BY <3>1, <3>2
  <2> QED BY <2>4, <2>7
<1>3. CASE ~\E p \in Procs : Exec(p)
  <2>1. of' = of /\ \A p \in Procs : (life'[p] = "up" => life[p] = "up") /\ MonitorStep(p)
    BY <1>1, <1>3, QuietStep DEF LifeStep
  <2>2. \A p \in Procs : Alive(p)' => Alive(p)
    BY <2>1 DEF Alive, MonitorStep, Sees, Exited
  <2>3. OneToken'
    <3> SUFFICES ASSUME NEW q \in Procs, NEW m \in Procs, Alive(q)', Alive(m)', of'[q] = of'[m],
                        StartedOnce(of'[q])
                 PROVE  q = m
      BY DEF OneToken, StartedOnce, Starters, Starts, Desired
    <3> QED BY <1>1, <2>1, <2>2 DEF OneToken
  <2>4. FirstStart'
    <3> SUFFICES ASSUME NEW c \in Children, StartedOnce(c), NEW o \in Ops, Pending(o, c)'
                 PROVE  Never(c)'
      BY DEF FirstStart, StartedOnce, Starters, Starts, Desired
    <3>1. Never(c)
      BY <1>1, PendingSteps DEF FirstStart
    <3>2. StatusStep(c)
      BY <1>1, <1>3, StatusSteps
    <3>3. ~StopSignal(c)
      <4>1. proc[c] = None
        BY <1>1, <3>1, SupervisorAssumption DEF Never, LatestIsOwn, TypeInv, TypeOK
      <4> QED BY <4>1 DEF StopSignal, Gone
    <3> QED BY <2>1, <3>1, <3>2, <3>3 DEF Never, StatusStep, Running
  <2> QED BY <2>3, <2>4
<1> QED BY <1>2, <1>3

\* Every step leaves a child that is down, or waits for its monitor, as it is.
LEMMA DownNext ==
    ASSUME TypeInv, QueueInv, WorkInv, OnceInv, [Next]_vars, OneToken', WorkInv', TypeInv'
    PROVE  CrashedIsDown' /\ WokenIsDown'
<1>1. /\ WorkInv /\ AsksAllowed /\ PhaseFits /\ VictimIsStopped /\ UpIsOwned
      /\ OneToken /\ CrashedIsDown /\ WokenIsDown /\ Owned
  BY DEF WorkInv, OnceInv, TypeInv
<1>2. CASE \E p \in Procs : Exec(p)
  <2>1. PICK p \in Procs : Exec(p)
    BY <1>2
  <2>c. PICK c : c = Step.on
    OBVIOUS
  <2>2. /\ c \in Children /\ life'[p] = "up" /\ of'[p] = c /\ monitor'[p] = "wait"
        /\ \A q \in Procs : q # p => /\ life'[q] = life[q] /\ of'[q] = of[q]
                                     /\ monitor'[q] = MonitorAfter(Leaver)[q]
        /\ status'[c] = "running" /\ \A d \in Children : d # c => status'[d] = status[d]
    BY <1>1, <2>1, <2>c, ExecFacts
  <2>3. \A q \in Procs : MonitorAfter(Leaver)[q] \in {monitor[q], "none"}
    BY DEF MonitorAfter
  <2>4. CrashedIsDown'
    <3> SUFFICES ASSUME NEW q \in Procs, life'[q] = "up", StartedOnce(of'[q])
                 PROVE  status'[of'[q]] # "crashed"
      BY DEF CrashedIsDown, StartedOnce, Starters, Starts, Desired
    <3>1. CASE of'[q] = c
      BY <2>2, <3>1
    <3>2. CASE of'[q] # c
      BY <1>1, <2>2, <3>2 DEF CrashedIsDown, UpIsOwned
    <3> QED BY <3>1, <3>2
  <2>5. WokenIsDown'
    <3> SUFFICES ASSUME NEW q \in Procs, monitor'[q] \in {"backoff", "queued", "inside"},
                        StartedOnce(of'[q])
                 PROVE  status'[of'[q]] \notin {"running", "draining"}
      BY DEF WokenIsDown, StartedOnce, Starters, Starts, Desired
    <3>1. q # p /\ monitor[q] = monitor'[q] /\ of[q] \in Children /\ of'[q] = of[q]
      BY <1>1, <2>2, <2>3 DEF Owned
    <3>2. CASE of[q] = c
      BY <2>2, <3>1, <3>2 DEF OneToken, Alive, StartedOnce, Starters, Starts, Desired
    <3>3. CASE of[q] # c
      BY <1>1, <2>2, <3>1, <3>3 DEF WokenIsDown
    <3> QED BY <3>2, <3>3
  <2> QED BY <2>4, <2>5
<1>3. CASE ~\E p \in Procs : Exec(p)
  <2>1. of' = of /\ \A p \in Procs : (life'[p] = "up" => life[p] = "up") /\ MonitorStep(p)
    BY <1>1, <1>3, QuietStep DEF LifeStep
  <2>2. CrashedIsDown'
    <3> SUFFICES ASSUME NEW q \in Procs, life'[q] = "up", StartedOnce(of'[q]), status'[of'[q]] = "crashed"
                 PROVE  FALSE
      BY DEF CrashedIsDown, StartedOnce, Starters, Starts, Desired
    <3>1. life[q] = "up" /\ of[q] \in Children /\ status[of[q]] # "crashed" /\ status'[of[q]] = "crashed"
      BY <1>1, <2>1 DEF CrashedIsDown, UpIsOwned
    <3>2. PICK p \in Procs : Sees(p) /\ of[p] = of[q]
      BY <1>1, <1>3, <3>1, StatusSteps DEF StatusStep
    <3>3. Alive(p) /\ Alive(q) /\ life[p] # "up"
      BY <3>1, <3>2 DEF Sees, Exited, Alive
    <3> QED BY <1>1, <2>1, <3>1, <3>2, <3>3 DEF OneToken
  <2>3. WokenIsDown'
    <3> SUFFICES ASSUME NEW q \in Procs, monitor'[q] \in {"backoff", "queued", "inside"},
                        StartedOnce(of[q]), status'[of[q]] \in {"running", "draining"}
                 PROVE  FALSE
      BY <2>1 DEF WokenIsDown, StartedOnce, Starters, Starts, Desired
    <3>1. of[q] \in Children
      BY <2>1 DEF TypeInv, Owned
    <3>2. CASE monitor[q] \in {"backoff", "queued", "inside"}
      <4>1. status[of[q]] \notin {"running", "draining"}
        BY <1>1, <3>2 DEF WokenIsDown
      <4>2. StatusStep(of[q])
        BY <1>1, <1>3, <3>1, StatusSteps
      <4> QED BY <4>1, <4>2 DEF StatusStep, Running
    <3>3. CASE monitor[q] \notin {"backoff", "queued", "inside"}
      <4>1. Sees(q) /\ monitor'[q] = "backoff"
        BY <2>1, <3>3 DEF MonitorStep
      <4>2. status'[of[q]] = "crashed"
        BY <3>1, <4>1 DEF Sees, TypeInv, TypeOK
      <4> QED BY <4>2
    <3> QED BY <3>2, <3>3
  <2> QED BY <2>2, <2>3
<1> QED BY <1>2, <1>3

\* What is said of a child that is started once holds throughout.
LEMMA OnceInductive == Spec => [](TypeInv /\ QueueInv /\ WorkInv /\ OnceInv)
<1>1. Init => OnceInv
  BY SupervisorAssumption DEF Init, OnceInv, FirstStart, Never, OneToken, Alive, CrashedIsDown, WokenIsDown
<1>2. TypeInv /\ QueueInv /\ WorkInv /\ OnceInv /\ [Next]_vars /\ (TypeInv /\ WorkInv)' => OnceInv'
  BY TokenNext, DownNext DEF OnceInv
<1> QED BY <1>1, <1>2, WorkInductive, PTL DEF Spec

(***************************************************************************)
(* A child that never exits by itself and is neither drained nor kept.      *)
(* Its process is up for as long as a monitor watches it, so that no late   *)
(* monitor says anything of a later process; and a plan that starts it was   *)
(* made when it did not run, or stops it first.                             *)
(***************************************************************************)
Down(c) == \A p \in Procs : of[p] = c => life[p] # "up"

SteadyProcess ==
    \A p \in Procs : life[p] = "up" /\ Steady(of[p]) =>
        proc[of[p]] = p /\ (Running(of[p]) \/ victim = p)
SteadyWatched ==
    \A p \in Procs : monitor[p] # "none" /\ Steady(of[p]) => monitor[p] = "wait" /\ life[p] = "up"
SteadyVictim == victim # None /\ Steady(of[victim]) => proc[of[victim]] = victim
SteadyStart ==
    \A c \in Children : Steady(c) => \A i \in 1..Len(todo) : todo[i] = Start(c) =>
        Down(c) \/ \E j \in 1..(i - 1) : todo[j] = Stop(c)

SteadyInv == SteadyProcess /\ SteadyWatched /\ SteadyVictim /\ SteadyStart

\* Steadiness is a matter of the constants.
LEMMA SteadyIsConstant ==
    ASSUME NEW c
    PROVE  /\ Steady(c) => Unkept(c) /\ c \notin Crashing
           /\ \A o \in Ops : \A r \in Requests[o] : Steady(c) => ~Drains(r, c)
BY DEF Steady, Unkept

(* Who is being stopped is so until it has exited.                          *)
LEMMA VictimSteps ==
    ASSUME TypeInv, QueueInv, WorkInv, [Next]_vars
    PROVE  /\ victim # None /\ ~Gone(victim) => victim' = victim
           /\ victim' \in {victim, None} \/ \E c \in Children : StopSignal(c)
           /\ \A c \in Children : Settles(c) => victim' = None
<1> USE DEF child, procs, tasks, ops, mutex
<1> DEFINE Goal == /\ victim # None /\ ~Gone(victim) => victim' = victim
                   /\ victim' \in {victim, None} \/ \E c \in Children : StopSignal(c)
<1>1. WorkInv /\ AsksAllowed /\ VictimIsStopped
  BY DEF WorkInv
<1>2. ASSUME NEW c \in Children, Settles(c) PROVE victim' = None
  BY <1>2, Advances DEF Settles
<1>3. ASSUME victim' = victim PROVE Goal
  BY <1>3
<1>4. ASSUME NEW c \in Children, Settles(c) PROVE Goal
  <2>1. victim = None \/ Gone(victim)
    BY <1>1, <1>4 DEF Settles, VictimIsStopped
  <2> QED BY <1>2, <1>4, <2>1
<1>5. ASSUME NEW c \in Children, StopSignal(c) PROVE Goal
  BY <1>1, <1>5 DEF StopSignal, Stopping, VictimIsStopped
<1>6. ASSUME Passes \/ \E p \in Procs : Exec(p) PROVE Goal
  <2>1. phase \in {"next", "exec"} /\ Advance(lock)
    BY <1>6 DEF Passes, Exec
  <2> QED BY <1>1, <2>1, Advances DEF VictimIsStopped
<1>7. ASSUME \/ \E o \in Ops : \/ Closes(o)
                               \/ \E r \in Requests[o] : \E plan \in Plans(r) : Opens(o, r, plan)
             \/ \E p \in Procs : Wakes(p) \/ Sees(p)
             \/ \E c \in Children : Reaps(c)
      PROVE  Goal
  <2>1. victim' = victim
    BY <1>7 DEF Closes, Holds, Opens, Called, Wakes, Sees, Reaps
  <2> QED BY <1>3, <2>1
<1>8. ASSUME \/ \E o \in Ops : DrainJoins(o) \/ \E r \in Requests[o] : CallJoins(o, r)
             \/ \E p \in Procs : MonitorJoins(p)
             \/ \E c \in Children : ReaperJoins(c) \/ ReaperLeaves(c) \/ BeginWork(c) \/ EndWork(c)
             \/ \E p \in Procs, code \in {"exit0", "exit1"} : Exits(p, code)
             \/ BeginStart \/ StopTimeout \/ UNCHANGED vars
      PROVE  Goal
  <2>1. victim' = victim
    BY <1>8 DEF Joins, DrainJoins, CallJoins, MonitorJoins, ReaperJoins, ReaperLeaves, BeginWork, EndWork,
                Exits, BeginStart, StopTimeout, vars
  <2> QED BY <1>3, <2>1
<1> HIDE DEF Goal
<1>9. Goal
  <2>1. Cases
    BY <1>1, StepCases
  <2> QED BY <2>1, <1>4, <1>5, <1>6, <1>7, <1>8 DEF Cases
<1> QED BY <1>2, <1>9 DEF Goal

(* A process of a steady child that runs is not settled by another step than *)
(* the stop that waits for it, and no late monitor speaks of it.            *)
LEMMA SteadyKept ==
    ASSUME TypeInv, QueueInv, WorkInv, SteadyInv, [Next]_vars,
           NEW p \in Procs, life[p] = "up", Steady(of[p])
    PROVE  /\ of[p] \in Children /\ ~Settles(of[p]) /\ \A q \in Procs : Sees(q) => of[q] # of[p]
           /\ victim = p => victim' = p
<1>1. /\ UpIsOwned /\ VictimIsStopped /\ ReapersAreKept
      /\ SteadyProcess /\ SteadyWatched /\ SteadyVictim
  BY DEF WorkInv, SteadyInv
<1>2. of[p] \in Children /\ proc[of[p]] = p /\ ~Gone(p) /\ p # None
  BY <1>1, SupervisorAssumption DEF UpIsOwned, SteadyProcess, Gone
<1>3. ASSUME NEW q \in Procs, Sees(q) PROVE of[q] # of[p]
  BY <1>1, <1>3 DEF SteadyWatched, Sees, Exited
<1>4. ASSUME Settles(of[p]) PROVE FALSE
  <2>1. CASE Gone(proc[of[p]])
    BY <1>2, <2>1
  <2>2. CASE phase \in {"term", "kill"} /\ Gone(victim) /\ Step.on = of[p]
    BY <1>1, <1>2, <2>2 DEF VictimIsStopped, SteadyVictim
  <2>3. CASE reaper[of[p]] = "inside"
    BY <1>1, <1>2, <2>3, SteadyIsConstant DEF ReapersAreKept
  <2> QED BY <1>4, <2>1, <2>2, <2>3 DEF Settles
<1>5. victim = p => victim' = p
  BY <1>2, VictimSteps
<1> QED BY <1>2, <1>3, <1>4, <1>5

\* Every step leaves the process of a steady child watched.
LEMMA SteadyWatchedNext ==
    ASSUME TypeInv, QueueInv, WorkInv, SteadyInv, [Next]_vars PROVE SteadyWatched'
<1>1. /\ WorkInv /\ AsksAllowed /\ PhaseFits /\ VictimIsStopped /\ SteadyWatched
  BY DEF WorkInv, SteadyInv
<1> SUFFICES ASSUME NEW q \in Procs, monitor'[q] # "none", Steady(of'[q])
             PROVE  monitor'[q] = "wait" /\ life'[q] = "up"
  BY DEF SteadyWatched, Steady, Drains, Keeps
<1>2. ASSUME NEW p \in Procs, Exec(p) PROVE monitor'[q] = "wait" /\ life'[q] = "up"
  <2>1. /\ life'[p] = "up" /\ monitor'[p] = "wait"
        /\ q # p => life'[q] = life[q] /\ of'[q] = of[q] /\ monitor'[q] = MonitorAfter(Leaver)[q]
    BY <1>1, <1>2, ExecFacts
  <2>2. MonitorAfter(Leaver)[q] \in {monitor[q], "none"}
    BY DEF MonitorAfter
  <2> QED BY <1>1, <2>1, <2>2 DEF SteadyWatched
<1>3. CASE ~\E p \in Procs : Exec(p)
  <2>1. of' = of /\ LifeStep(q) /\ MonitorStep(q)
    BY <1>1, <1>3, QuietStep
  <2>2. monitor[q] = "wait" /\ life[q] = "up"
    BY <1>1, <2>1 DEF SteadyWatched, MonitorStep, Sees, Exited
  <2>3. monitor'[q] = "wait"
    BY <2>1, <2>2 DEF MonitorStep, Sees, Exited
  <2>4. ASSUME NEW code, Exits(q, code) PROVE FALSE
    <3>1. of[q] \in Crashing \/ victim = q
      BY <2>2, <2>4 DEF Exits, Signalled
    <3>2. victim # q
      BY <1>1, <2>2, SupervisorAssumption DEF VictimIsStopped
    <3> QED BY <2>1, <3>1, <3>2, SteadyIsConstant
  <2> QED BY <2>1, <2>2, <2>3, <2>4 DEF LifeStep
<1> QED BY <1>2, <1>3

\* Every step leaves the process of a steady child its process object.
LEMMA SteadyProcessNext ==
    ASSUME TypeInv, QueueInv, WorkInv, SteadyInv, [Next]_vars PROVE SteadyProcess' /\ SteadyVictim'
<1>1. /\ WorkInv /\ AsksAllowed /\ PhaseFits /\ VictimIsStopped /\ UpIsOwned /\ LatestIsOwn
      /\ SteadyProcess /\ SteadyWatched /\ SteadyVictim /\ SteadyStart
  BY DEF WorkInv, SteadyInv
<1>2. ASSUME NEW p \in Procs, Exec(p) PROVE SteadyProcess' /\ SteadyVictim'
  <2>c. PICK c : c = Step.on
    OBVIOUS
  <2>1. /\ c \in Children /\ todo[1] = Start(c) /\ Planned(c) /\ victim = None
        /\ life'[p] = "up" /\ of'[p] = c
        /\ \A q \in Procs : q # p => life'[q] = life[q] /\ of'[q] = of[q]
        /\ proc'[c] = p /\ status'[c] = "running" /\ Advance(lock) /\ phase # "idle"
        /\ \A d \in Children : d # c => proc'[d] = proc[d] /\ status'[d] = status[d]
    BY <1>1, <1>2, <2>c, ExecFacts
  <2>2. ASSUME NEW q \in Procs, q # p, life[q] = "up", of[q] = c, Steady(c) PROVE FALSE
    <3>1. 1 \in 1..Len(todo) /\ 1..(1 - 1) = {}
      BY <2>1, HolderWorks DEF TypeInv, TypeOK
    <3>2. Down(c)
      BY <1>1, <2>1, <2>2, <3>1 DEF SteadyStart
    <3> QED BY <2>2, <3>2 DEF Down
  <2>3. SteadyProcess'
    <3> SUFFICES ASSUME NEW q \in Procs, life'[q] = "up", Steady(of'[q])
                 PROVE  proc'[of'[q]] = q /\ status'[of'[q]] = "running"
      BY DEF SteadyProcess, Steady, Drains, Keeps, Running
    <3>1. CASE of'[q] = c
      BY <2>1, <2>2, <3>1
    <3>2. CASE of'[q] # c
      <4>1. q # p /\ of'[q] = of[q] /\ life[q] = "up"
        BY <2>1, <3>2
      <4>2. of[q] \in Children /\ proc[of[q]] = q /\ status[of[q]] = "running"
        BY <1>1, <2>1, <4>1, SupervisorAssumption DEF UpIsOwned, SteadyProcess, Running
      <4> QED BY <2>1, <3>2, <4>1, <4>2
    <3> QED BY <3>1, <3>2
  <2>4. victim' = None
    BY <2>1, Advances
  <2> QED BY <2>3, <2>4 DEF SteadyVictim
<1>3. CASE ~\E p \in Procs : Exec(p)
  <2>1. /\ of' = of /\ \A q \in Procs : life'[q] = "up" => life[q] = "up"
        /\ \A c \in Children : ProcStep(c) /\ StatusStep(c)
    BY <1>1, <1>3, QuietStep, StatusSteps DEF LifeStep
  <2>2. SteadyProcess'
    <3> SUFFICES ASSUME NEW q \in Procs, life'[q] = "up", Steady(of[q])
                 PROVE  proc'[of[q]] = q /\ (status'[of[q]] = "running" \/ victim' = q)
      BY <2>1 DEF SteadyProcess, Steady, Drains, Keeps, Running
    <3> DEFINE d == of[q]
    <3>1. /\ life[q] = "up" /\ d \in Children /\ ~Settles(d) /\ \A p \in Procs : Sees(p) => of[p] # d
          /\ victim = q => victim' = q
      BY <2>1, SteadyKept
    <3>2. proc[d] = q /\ (Running(d) \/ victim = q)
      BY <1>1, <3>1 DEF SteadyProcess
    <3> HIDE DEF d
    <3>3. ProcStep(d) /\ StatusStep(d) /\ Steady(d)
      BY <2>1, <3>1 DEF d
    <3>4. proc'[d] = q
      BY <3>1, <3>2, <3>3 DEF ProcStep
    <3>5. StopSignal(d) => victim' = q
      BY <3>2 DEF StopSignal
    <3>6. status'[d] = "running" \/ victim' = q
      <4>1. CASE victim = q
        BY <3>1, <4>1
      <4>2. CASE Running(d)
        BY <3>1, <3>3, <3>5, <4>2, SteadyIsConstant DEF StatusStep, Running
      <4> QED BY <3>2, <4>1, <4>2
    <3> QED BY <3>4, <3>6 DEF d
  <2>3. SteadyVictim'
    <3> SUFFICES ASSUME victim' # None, Steady(of[victim']) PROVE proc'[of[victim']] = victim'
      BY <2>1 DEF SteadyVictim, Steady, Drains, Keeps
    <3>1. CASE \E c \in Children : StopSignal(c)
      <4>1. PICK c \in Children : StopSignal(c)
        BY <3>1
      <4>2. victim' = proc[c] /\ proc[c] # None /\ proc' = proc
        BY <4>1 DEF StopSignal, Gone
      <4>3. of[proc[c]] = c
        BY <1>1, <4>2 DEF LatestIsOwn
      <4> QED BY <4>2, <4>3
    <3>2. CASE ~\E c \in Children : StopSignal(c)
      <4>1. victim' = victim /\ victim # None /\ \A c \in Children : ~Settles(c)
        BY <3>2, VictimSteps
      <4>2. victim \in Procs /\ proc[of[victim]] = victim /\ phase \in {"term", "kill"}
        BY <1>1, <4>1 DEF SteadyVictim, VictimIsStopped, TypeInv, TypeOK
      <4>3. of[victim] \in Children
        BY <1>1, <4>1, <4>2, HolderWorks DEF VictimIsStopped, Steps
      <4>4. ASSUME NEW p \in Procs, Sees(p), of[p] = of[victim] PROVE FALSE
        BY <1>1, <4>1, <4>4 DEF SteadyWatched, Sees, Exited
      <4>5. ProcStep(of[victim])
        BY <2>1, <4>3
      <4> QED BY <4>1, <4>2, <4>3, <4>4, <4>5 DEF ProcStep
    <3> QED BY <3>1, <3>2
  <2> QED BY <2>2, <2>3
<1> QED BY <1>2, <1>3

\* Every step leaves a plan that starts a steady child only when it is down.
LEMMA SteadyStartNext ==
    ASSUME TypeInv, QueueInv, WorkInv, SteadyInv, [Next]_vars PROVE SteadyStart'
<1> USE DEF child, procs, tasks, ops, mutex
<1> DEFINE Fits(c, i) == Down(c)' \/ \E j \in 1..(i - 1) : todo'[j] = Stop(c)
           Goal == \A c \in Children : Steady(c) =>
                       \A i \in 1..Len(todo') : todo'[i] = Start(c) => Fits(c, i)
<1>1. /\ WorkInv /\ AsksAllowed /\ PhaseFits /\ VictimIsStopped /\ ReapersAreKept /\ StartsOnce
      /\ SteadyProcess /\ SteadyWatched /\ SteadyVictim /\ SteadyStart
  BY DEF WorkInv, SteadyInv
<1>2. ASSUME phase # "idle", NEW queue, Advance(queue),
             \A c \in Children : Steady(c) /\ Planned(c)' => /\ Down(c) => Down(c)'
                                                             /\ Step = Stop(c) => Down(c)'
      PROVE  Goal
  <2> SUFFICES ASSUME NEW c \in Children, Steady(c), NEW i \in 1..Len(todo'), todo'[i] = Start(c)
               PROVE  Fits(c, i)
    OBVIOUS
  <2>1. /\ Len(todo) \in Nat \ {0} /\ Len(todo') = Len(todo) - 1
        /\ \A k \in 1..Len(todo') : k + 1 \in 1..Len(todo) /\ todo'[k] = todo[k + 1]
    BY <1>2, Advances
  <2>2. Planned(c)'
    BY DEF Planned, Start
  <2>3. Down(c) \/ \E j \in 1..((i + 1) - 1) : todo[j] = Stop(c)
    BY <1>1, <2>1 DEF SteadyStart
  <2>4. CASE Down(c)
    BY <1>2, <2>2, <2>4
  <2>5. ASSUME NEW j \in 1..((i + 1) - 1), todo[j] = Stop(c) PROVE Fits(c, i)
    <3>1. CASE j = 1
      BY <1>2, <2>2, <2>5, <3>1 DEF Step
    <3>2. CASE j # 1
      <4>1. j - 1 \in 1..(i - 1) /\ j - 1 \in 1..Len(todo') /\ (j - 1) + 1 = j
        BY <2>1, <3>2
      <4>2. todo'[j - 1] = Stop(c)
        BY <2>1, <2>5, <4>1
      <4> QED BY <4>1, <4>2
    <3> QED BY <3>1, <3>2
  <2> QED BY <2>3, <2>4, <2>5
<1>3. ASSUME \A c \in Children, i \in 1..Len(todo') : todo'[i] # Start(c) PROVE Goal
  BY <1>3
<1>4. ASSUME ~\E p \in Procs : Exec(p), NEW c \in Children, Down(c) PROVE Down(c)'
  BY <1>1, <1>4, QuietStep DEF Down, LifeStep
<1>5. ASSUME NEW p \in Procs, Exec(p) PROVE Goal
  <2>c. PICK d : d = Step.on
    OBVIOUS
  <2>1. /\ d \in Children /\ todo[1] = Start(d) /\ Advance(lock) /\ phase # "idle" /\ of'[p] = d
        /\ \A q \in Procs : q # p => life'[q] = life[q] /\ of'[q] = of[q]
    BY <1>1, <1>5, <2>c, ExecFacts
  <2>2. /\ Len(todo) \in Nat \ {0}
        /\ \A k \in 1..Len(todo') : k + 1 \in 1..Len(todo) /\ todo'[k] = todo[k + 1]
        /\ Len(todo') = Len(todo) - 1
    BY <2>1, Advances
  <2>3. ASSUME NEW c \in Children, Planned(c)' PROVE c # d
    <3>1. PICK i \in 1..Len(todo') : todo'[i] = Start(c)
      BY <2>3 DEF Planned, Start
    <3>2. i + 1 \in 1..Len(todo) /\ todo[i + 1] = Start(c) /\ i + 1 # 1 /\ 1 \in 1..Len(todo)
      BY <2>2, <3>1
    <3> QED BY <1>1, <2>1, <3>2 DEF StartsOnce
  <2>4. \A c \in Children : c # d /\ Down(c) => Down(c)'
    BY <2>1 DEF Down
  <2>5. \A c : Step # Stop(c)
    BY <2>1, StepsDiffer DEF Step
  <2> QED BY <1>2, <2>1, <2>3, <2>4, <2>5
<1>6. ASSUME ~\E p \in Procs : Exec(p) PROVE Goal
  <2>1. ASSUME Passes PROVE Goal
    <3>1. phase # "idle" /\ Advance(lock)
      BY <2>1 DEF Passes
    <3>2. \A c : Step # Stop(c)
      BY <1>1, <2>1, StepsDiffer DEF Passes, PhaseFits
    <3> QED BY <1>2, <1>4, <1>6, <3>1, <3>2
  <2>2. ASSUME NEW d \in Children, Settles(d) PROVE Goal
    <3>1. phase # "idle" /\ Step.on = d /\ \E queue : Advance(queue)
      BY <2>2 DEF Settles
    <3>2. ASSUME NEW c \in Children, Steady(c), Planned(c)', Step = Stop(c) PROVE Down(c)
      <4>1. c = d
        BY <3>1, <3>2, StepsDiffer
      <4>2. CASE Gone(proc[c])
        BY <1>1, <3>2, <4>2, SupervisorAssumption DEF Down, SteadyProcess, Gone
      <4>3. CASE phase \in {"term", "kill"} /\ Gone(victim)
        <5>1. of[victim] = c /\ victim # None /\ proc[c] = victim
          BY <1>1, <3>1, <3>2, <4>1, <4>3 DEF VictimIsStopped, SteadyVictim
        <5> QED BY <4>2, <4>3, <5>1
      <4>4. CASE reaper[c] = "inside"
        BY <1>1, <3>2, <4>4, SteadyIsConstant DEF ReapersAreKept
      <4> QED BY <2>2, <4>1, <4>2, <4>3, <4>4 DEF Settles
    <3> QED BY <1>2, <1>4, <1>6, <3>1, <3>2
  <2>3. ASSUME NEW o \in Ops, NEW r \in Requests[o], NEW plan \in Plans(r), Opens(o, r, plan) PROVE Goal
    <3> SUFFICES ASSUME NEW c \in Children, Steady(c), NEW i \in 1..Len(todo'), todo'[i] = Start(c)
                 PROVE  Fits(c, i)
      OBVIOUS
    <3>1. r \in Request /\ todo' = plan /\ phase = "idle"
      BY <2>3, SupervisorAssumption DEF Opens, Called, Idle, TypeInv, TypeOK
    <3>2. Running(c) => \E j \in 1..(i - 1) : plan[j] = Stop(c)
      BY <3>1, PlansStart
    <3>3. ~Running(c) => Down(c)
      BY <1>1, <3>1, SupervisorAssumption DEF SteadyProcess, VictimIsStopped, Down
    <3> QED BY <1>4, <1>6, <3>1, <3>2, <3>3
  <2>4. ASSUME NEW p \in Procs, Wakes(p) PROVE Goal
    <3>1. /\ monitor[p] \in {"backoff", "queued"} /\ todo' = MonitorPlan(p)
      BY <2>4 DEF Wakes, Holds
    <3>2. ~Steady(of[p])
      BY <1>1, <3>1 DEF SteadyWatched
    <3> SUFFICES ASSUME NEW c \in Children, Steady(c), NEW i \in 1..Len(todo'), todo'[i] = Start(c)
                 PROVE  FALSE
      OBVIOUS
    <3>3. todo'[i] = Start(of[p])
      BY <3>1 DEF MonitorPlan
    <3>4. of[p] = c
      BY <3>3, StepsDiffer
    <3> QED BY <3>2, <3>4
  <2>5. ASSUME NEW o \in Ops, Closes(o) PROVE Goal
    <3>1. todo' \in {<<>>, <<Stop(ask[o].on)>>}
      BY <2>5 DEF Closes, Holds, DrainPlan
    <3> QED BY <1>3, <3>1, StepsDiffer
  <2>6. ASSUME NEW c \in Children, Reaps(c) PROVE Goal
    <3>1. todo' \in {<<>>, <<Stop(c)>>}
      BY <2>6 DEF Reaps, Holds, ReaperPlan
    <3> QED BY <1>3, <3>1, StepsDiffer
  <2>7. ASSUME \/ \E o \in Ops : DrainJoins(o) \/ \E r \in Requests[o] : CallJoins(o, r)
               \/ \E p \in Procs : MonitorJoins(p) \/ Sees(p)
               \/ \E c \in Children : \/ ReaperJoins(c) \/ StopSignal(c) \/ ReaperLeaves(c)
                                      \/ BeginWork(c) \/ EndWork(c)
               \/ \E p \in Procs, code \in {"exit0", "exit1"} : Exits(p, code)
               \/ BeginStart \/ StopTimeout \/ UNCHANGED vars
        PROVE  Goal
    <3>1. todo' = todo
      BY <2>7 DEF Joins, DrainJoins, CallJoins, MonitorJoins, ReaperJoins, Sees, StopSignal, BeginWork,
                  EndWork, ReaperLeaves, Exits, BeginStart, StopTimeout, vars
    <3> SUFFICES ASSUME NEW c \in Children, Steady(c), NEW i \in 1..Len(todo'), todo'[i] = Start(c)
                 PROVE  Fits(c, i)
      OBVIOUS
    <3>2. Down(c) \/ \E j \in 1..(i - 1) : todo[j] = Stop(c)
      BY <1>1, <3>1 DEF SteadyStart
    <3> QED BY <1>4, <1>6, <3>1, <3>2
  <2> HIDE DEF Goal
  <2>8. Cases
    BY <1>1, StepCases
  <2> QED BY <1>6, <2>1, <2>2, <2>3, <2>4, <2>5, <2>6, <2>7, <2>8 DEF Cases
<1> HIDE DEF Goal
<1>7. Goal
  BY <1>5, <1>6
<1> QED BY <1>7 DEF Goal, SteadyStart, Steady, Drains, Keeps, Stop, Start

\* What is said of a steady child holds throughout.
LEMMA SteadyInductive == Spec => [](TypeInv /\ QueueInv /\ WorkInv /\ SteadyInv)
<1>1. Init => SteadyInv
  BY DEF Init, SteadyInv, SteadyProcess, SteadyWatched, SteadyVictim, SteadyStart
<1>2. TypeInv /\ QueueInv /\ WorkInv /\ SteadyInv /\ [Next]_vars => SteadyInv'
  BY SteadyProcessNext, SteadyWatchedNext, SteadyStartNext DEF SteadyInv
<1> QED BY <1>1, <1>2, WorkInductive, PTL DEF Spec

(***************************************************************************)
(* Who watches a process.                                                  *)
(***************************************************************************)
Tended(c) == (StartedOnce(c) \/ Steady(c)) /\ Unkept(c)
Watched ==
    \A p \in Procs : life[p] = "up" /\ Tended(of[p]) => monitor[p] = "wait" \/ victim = p

(* A monitor that still waits for its process is cancelled by a stop of the  *)
(* process, by the reaper, or by a call that finds the child crashed.        *)
LEMMA CancelSteps ==
    ASSUME TypeInv, QueueInv, WorkInv, [Next]_vars, ~\E p \in Procs : Exec(p),
           NEW q \in Procs, monitor[q] = "wait", monitor'[q] # "wait", life[q] = "up"
    PROVE  \E c \in Children :
               /\ latest[c] = q
               /\ StopSignal(c) \/ reaper[c] = "inside" \/ (status[c] = "crashed" /\ phase = "idle")
<1> USE DEF child, procs, tasks, ops, mutex
<1> DEFINE Goal == \E c \in Children :
               /\ latest[c] = q
               /\ StopSignal(c) \/ reaper[c] = "inside" \/ (status[c] = "crashed" /\ phase = "idle")
<1>1. AsksAllowed
  BY DEF WorkInv
<1>2. ASSUME NEW t, monitor' = MonitorAfter(t) PROVE t = q
  BY <1>2 DEF MonitorAfter
<1>3. ASSUME monitor' = MonitorAfter(Leaver), phase # "idle" PROVE FALSE
  <2>1. q = Leaver
    BY <1>2, <1>3
  <2>2. q = Holder
    BY <2>1, SupervisorAssumption DEF Leaver
  <2> QED BY <1>3, <2>2, HolderWorks
<1>4. ASSUME NEW p \in Procs, p # q, \E s : monitor' = [monitor EXCEPT ![p] = s] PROVE FALSE
  BY <1>4 DEF TypeInv, TypeOK
<1>5. ASSUME NEW o \in Ops, NEW r \in Requests[o], NEW plan \in Plans(r), Opens(o, r, plan) PROVE Goal
  <2>1. r \in Request /\ Enter(o, r) /\ phase = "idle"
    BY <1>5, SupervisorAssumption DEF Opens, Called, Idle
  <2>2. r.do = "stop" /\ status[r.on] = "crashed" /\ monitor' = MonitorAfter(latest[r.on])
    BY <2>1 DEF Enter
  <2>3. r.on \in Children /\ latest[r.on] = q
    BY <1>2, <2>1, <2>2 DEF Request
  <2> QED BY <2>1, <2>2, <2>3
<1>6. ASSUME NEW p \in Procs, Wakes(p) \/ MonitorJoins(p) \/ Sees(p) PROVE Goal
  <2>1. p # q /\ \E s : monitor' = [monitor EXCEPT ![p] = s]
    BY <1>6 DEF Wakes, MonitorJoins, Sees, Exited
  <2> QED BY <1>4, <2>1
<1>7. ASSUME NEW c \in Children, Settles(c) PROVE Goal
  <2>1. phase # "idle" /\ monitor' # monitor
    BY <1>7 DEF Settles
  <2>2. reaper[c] = "inside" /\ monitor' = MonitorAfter(latest[c])
    BY <1>3, <1>7, <2>1 DEF Settles
  <2> QED BY <1>2, <2>2
<1>8. ASSUME NEW c \in Children, StopSignal(c) PROVE Goal
  BY <1>2, <1>8 DEF StopSignal
<1>9. ASSUME Passes PROVE Goal
  BY <1>3, <1>9 DEF Passes
<1>10. ASSUME \/ \E o \in Ops : Closes(o) \/ DrainJoins(o) \/ \E r \in Requests[o] : CallJoins(o, r)
              \/ \E c \in Children : Reaps(c) \/ ReaperJoins(c) \/ ReaperLeaves(c) \/ BeginWork(c) \/ EndWork(c)
              \/ \E p \in Procs, code \in {"exit0", "exit1"} : Exits(p, code)
              \/ BeginStart \/ StopTimeout \/ UNCHANGED vars
       PROVE  Goal
  <2>1. monitor' = monitor
    BY <1>10 DEF Closes, DrainJoins, CallJoins, Reaps, ReaperJoins, ReaperLeaves, BeginWork, EndWork,
                 Exits, BeginStart, StopTimeout, vars
  <2> QED BY <2>1
<1> HIDE DEF Goal
<1>11. Goal
  <2>1. Cases
    BY <1>1, StepCases
  <2> QED BY <2>1, <1>5, <1>6, <1>7, <1>8, <1>9, <1>10 DEF Cases
<1> QED BY <1>11 DEF Goal

\* Every step leaves every process watched or being stopped.
LEMMA WatchedNext ==
    ASSUME TypeInv, QueueInv, WorkInv, OnceInv, SteadyInv, Watched, [Next]_vars PROVE Watched'
<1>1. /\ WorkInv /\ AsksAllowed /\ PhaseFits /\ VictimIsStopped /\ LatestIsOwn /\ ReapersAreKept
      /\ CrashedIsDown /\ SteadyProcess
  BY DEF WorkInv, OnceInv, SteadyInv
<1> SUFFICES ASSUME NEW q \in Procs, life'[q] = "up", Tended(of'[q])
             PROVE  monitor'[q] = "wait" \/ victim' = q
  BY DEF Watched, Tended, StartedOnce, Starters, Starts, Desired, Steady, Unkept, Drains, Keeps
<1>2. ASSUME NEW p \in Procs, Exec(p) PROVE monitor'[q] = "wait"
  <2>1. /\ victim = None /\ monitor'[p] = "wait" /\ Advance(lock) /\ phase # "idle"
        /\ q # p => life'[q] = life[q] /\ of'[q] = of[q] /\ monitor'[q] = MonitorAfter(Leaver)[q]
    BY <1>1, <1>2, ExecFacts
  <2>2. MonitorAfter(Leaver)[q] = monitor[q] \/ monitor[q] = "inside"
    BY <2>1, Advances
  <2>3. q # None
    BY SupervisorAssumption
  <2> QED BY <2>1, <2>2, <2>3 DEF Watched
<1>3. CASE ~\E p \in Procs : Exec(p)
  <2>1. of' = of /\ latest' = latest /\ life[q] = "up" /\ q # None
    BY <1>1, <1>3, QuietStep, SupervisorAssumption DEF LifeStep
  <2>2. CASE victim = q
    BY <2>1, <2>2, VictimSteps DEF Gone
  <2>3. CASE monitor[q] = "wait" /\ monitor'[q] # "wait"
    <3>1. PICK c \in Children :
               /\ latest[c] = q
               /\ StopSignal(c) \/ reaper[c] = "inside" \/ (status[c] = "crashed" /\ phase = "idle")
      BY <1>3, <2>1, <2>3, CancelSteps
    <3>2. of[q] = c /\ Tended(c)
      <4>1. of[q] = c
        BY <1>1, <2>1, <3>1 DEF LatestIsOwn
      <4>2. of'[q] = c
        BY <2>1, <4>1
      <4> QED BY <4>1, <4>2
    <3>3. CASE StopSignal(c)
      <4>1. victim' = proc[c] /\ proc[c] # None
        BY <3>3 DEF StopSignal, Gone
      <4>2. latest[c] = proc[c]
        BY <1>1, <4>1 DEF LatestIsOwn
      <4> QED BY <3>1, <4>1, <4>2
    <3>4. CASE reaper[c] = "inside"
      BY <1>1, <3>2, <3>4 DEF ReapersAreKept, Tended
    <3>5. CASE status[c] = "crashed" /\ phase = "idle"
      <4>1. ~StartedOnce(c)
        BY <1>1, <2>1, <3>2, <3>5 DEF CrashedIsDown
      <4>2. Steady(c) /\ victim = q
        BY <1>1, <2>1, <3>2, <3>5, <4>1 DEF Tended, SteadyProcess, Running
      <4> QED BY <1>1, <2>1, <3>5, <4>2 DEF VictimIsStopped
    <3> QED BY <3>1, <3>3, <3>4, <3>5
  <2> QED BY <2>1, <2>2, <2>3 DEF Watched
<1> QED BY <1>2, <1>3

(* A child that is started by one call and restarted by its monitor, or that *)
(* never exits by itself and is neither drained nor kept on demand, has at   *)
(* most one process that runs, whatever stops, restarts, reconciliations,    *)
(* drains, crashes, late monitors and reapers do in which order              *)
(* (supervisor.py:205-301, 555-609, 611-702).                              *)
THEOREM OneProcessEach == ASSUME Careful PROVE Spec => []OneProcess
<1>1. TypeInv /\ WorkInv /\ OnceInv /\ SteadyInv => OneProcess
  <2> SUFFICES ASSUME WorkInv, OnceInv, SteadyInv,
                      NEW p \in Procs, NEW q \in Procs, life[p] = "up", life[q] = "up", of[p] = of[q]
               PROVE  p = q
    BY DEF OneProcess
  <2>1. of[p] \in Children
    BY DEF WorkInv, UpIsOwned
  <2>2. CASE StartedOnce(of[p])
    BY <2>2 DEF OnceInv, OneToken, Alive
  <2>3. CASE Steady(of[p])
    BY <2>3 DEF SteadyInv, SteadyProcess
  <2> QED BY <2>1, <2>2, <2>3 DEF Careful
<1> QED BY <1>1, OnceInductive, SteadyInductive, PTL

(* If moreover no call keeps such a child on demand, each of its processes   *)
(* is watched by its monitor or being stopped: no cancellation leaves one     *)
(* that nobody would restart or stop (supervisor.py:561-609, 634-700).       *)
THEOREM ProcessesWatched == ASSUME Careful, Unreaped PROVE Spec => []EveryProcessWatched
<1>1. Init => Watched
  BY DEF Init, Watched
<1>2. TypeInv /\ QueueInv /\ WorkInv /\ OnceInv /\ SteadyInv /\ Watched /\ [Next]_vars => Watched'
  BY WatchedNext
<1>3. TypeInv /\ WorkInv /\ Watched => EveryProcessWatched
  <2> SUFFICES ASSUME WorkInv, Watched, NEW p \in Procs, life[p] = "up"
               PROVE  monitor[p] = "wait" \/ victim = p
    BY DEF EveryProcessWatched
  <2>1. Tended(of[p])
    BY DEF WorkInv, UpIsOwned, Careful, Unreaped, Tended
  <2> QED BY <2>1 DEF Watched
<1> QED BY <1>1, <1>2, <1>3, OnceInductive, SteadyInductive, PTL DEF Spec

(***************************************************************************)
(* What the supervisor knows of a process that runs.                        *)
(***************************************************************************)
Single(c) == StartedOnce(c) /\ Unkept(c)

SingleKnown ==
    \A p \in Procs : life[p] = "up" /\ Single(of[p]) =>
        /\ proc[of[p]] = p
        /\ status[of[p]] \in {"running", "draining"} \/ victim = p
VictimIsSingle ==
    victim # None /\ Single(of[victim]) =>
        \A p \in Procs : of[p] = of[victim] /\ Alive(p) => p = victim

\* Every step leaves whoever is being stopped the only process of its child.
LEMMA VictimIsSingleNext ==
    ASSUME TypeInv, QueueInv, WorkInv, OnceInv, VictimIsSingle, OneToken', [Next]_vars
    PROVE  VictimIsSingle'
<1>1. /\ WorkInv /\ AsksAllowed /\ PhaseFits /\ VictimIsStopped
  BY DEF WorkInv
<1> SUFFICES ASSUME victim' # None, Single(of'[victim']),
                    NEW p \in Procs, of'[p] = of'[victim'], Alive(p)'
             PROVE  p = victim'
  BY DEF VictimIsSingle, Single, StartedOnce, Starters, Starts, Desired, Unkept, Keeps
<1>2. ~\E q \in Procs : Exec(q)
  <2> SUFFICES ASSUME NEW q \in Procs, Exec(q) PROVE FALSE
    OBVIOUS
  <2>1. phase # "idle" /\ Advance(lock)
    BY <1>1, ExecFacts
  <2> QED BY <2>1, Advances
<1>3. of' = of /\ (Alive(p)' => Alive(p))
  <2>1. of' = of /\ LifeStep(p) /\ MonitorStep(p)
    BY <1>1, <1>2, QuietStep
  <2> QED BY <2>1 DEF LifeStep, MonitorStep, Alive, Sees, Exited
<1>4. CASE \E c \in Children : StopSignal(c)
  <2>1. PICK c \in Children : StopSignal(c)
    BY <1>4
  <2>2. PICK v \in Procs : v = proc[c]
    BY <2>1 DEF StopSignal, Gone, TypeInv, TypeOK
  <2>3. victim' = v /\ Alive(v)'
    BY <2>1, <2>2 DEF StopSignal, Gone, procs, Alive
  <2> QED BY <2>2, <2>3 DEF OneToken, Single, StartedOnce, Starters, Starts, Desired
<1>5. CASE ~\E c \in Children : StopSignal(c)
  <2>1. victim' = victim
    BY <1>5, VictimSteps
  <2> QED BY <1>3, <2>1 DEF VictimIsSingle
<1> QED BY <1>4, <1>5

\* Every step leaves a process that runs known to the supervisor.
LEMMA SingleKnownNext ==
    ASSUME TypeInv, QueueInv, WorkInv, OnceInv, SingleKnown, VictimIsSingle, OneToken', [Next]_vars
    PROVE  SingleKnown'
<1>1. /\ WorkInv /\ AsksAllowed /\ PhaseFits /\ VictimIsStopped /\ UpIsOwned /\ ReapersAreKept
      /\ OneToken
  BY DEF WorkInv, OnceInv
<1> SUFFICES ASSUME NEW q \in Procs, life'[q] = "up", Single(of'[q])
             PROVE  /\ proc'[of'[q]] = q
                    /\ status'[of'[q]] \in {"running", "draining"} \/ victim' = q
  BY DEF SingleKnown, Single, StartedOnce, Starters, Starts, Desired, Unkept, Keeps
<1>q. q # None
  BY SupervisorAssumption
<1>2. ASSUME NEW p \in Procs, Exec(p)
      PROVE  proc'[of'[q]] = q /\ status'[of'[q]] \in {"running", "draining"}
  <2>c. PICK c : c = Step.on
    OBVIOUS
  <2>1. /\ c \in Children /\ victim = None /\ life'[p] = "up" /\ of'[p] = c
        /\ \A m \in Procs : m # p => life'[m] = life[m] /\ of'[m] = of[m]
        /\ proc'[c] = p /\ status'[c] = "running"
        /\ \A d \in Children : d # c => proc'[d] = proc[d] /\ status'[d] = status[d]
    BY <1>1, <1>2, <2>c, ExecFacts
  <2>2. CASE of'[q] = c
    <3>1. Alive(q)' /\ Alive(p)'
      BY <2>1 DEF Alive
    <3>2. q = p
      BY <2>1, <2>2, <3>1 DEF OneToken, Single, StartedOnce, Starters, Starts, Desired
    <3> QED BY <2>1, <3>2
  <2>3. CASE of'[q] # c
    <3>1. q # p /\ life[q] = "up" /\ of'[q] = of[q] /\ of[q] \in Children
      BY <1>1, <2>1, <2>3 DEF UpIsOwned
    <3> QED BY <1>q, <2>1, <2>3, <3>1 DEF SingleKnown
  <2> QED BY <2>2, <2>3
<1>3. CASE ~\E p \in Procs : Exec(p)
  <2> DEFINE d == of[q]
  <2>1. of' = of /\ life[q] = "up" /\ d \in Children /\ Single(d)
    <3>1. of' = of /\ LifeStep(q)
      BY <1>1, <1>3, QuietStep
    <3> QED BY <1>1, <3>1 DEF LifeStep, UpIsOwned
  <2>2. ProcStep(d) /\ StatusStep(d)
    BY <1>1, <1>3, <2>1, QuietStep, StatusSteps
  <2>3. proc[d] = q /\ (status[d] \in {"running", "draining"} \/ victim = q) /\ ~Gone(q)
    BY <1>q, <2>1 DEF SingleKnown, Gone
  <2>4. \A p \in Procs : Sees(p) => of[p] # d
    BY <1>1, <2>1 DEF OneToken, Single, Sees, Exited, Alive
  <2>5. ~Settles(d)
    <3> SUFFICES ASSUME Settles(d) PROVE FALSE
      OBVIOUS
    <3>1. CASE Gone(proc[d])
      BY <2>3, <3>1
    <3>2. CASE phase \in {"term", "kill"} /\ Gone(victim) /\ Step.on = d
      BY <1>1, <2>1, <2>3, <3>2 DEF VictimIsStopped, VictimIsSingle, Alive
    <3>3. CASE reaper[d] = "inside"
      BY <1>1, <2>1, <3>3 DEF ReapersAreKept, Single
    <3> QED BY <3>1, <3>2, <3>3 DEF Settles
  <2>6. victim = q => victim' = q
    BY <1>q, <2>3, VictimSteps
  <2> HIDE DEF d
  <2>7. proc'[d] = q
    BY <2>2, <2>3, <2>4, <2>5 DEF ProcStep
  <2>8. StopSignal(d) => victim' = q
    BY <2>3 DEF StopSignal
  <2>9. status'[d] \in {"running", "draining"} \/ victim' = q
    <3>1. CASE victim = q
      BY <2>6, <3>1
    <3>2. CASE status[d] \in {"running", "draining"}
      BY <2>2, <2>4, <2>5, <2>8, <3>2 DEF StatusStep, Running
    <3> QED BY <2>3, <3>1, <3>2
  <2> QED BY <2>1, <2>7, <2>9 DEF d
<1> QED BY <1>2, <1>3

\* What the supervisor knows holds throughout.
LEMMA KnownInductive ==
    Spec => [](TypeInv /\ QueueInv /\ WorkInv /\ SteadyInv /\ SingleKnown)
<1>1. Init => SingleKnown /\ VictimIsSingle
  BY DEF Init, SingleKnown, VictimIsSingle
<1>2. /\ TypeInv /\ QueueInv /\ WorkInv /\ OnceInv /\ OnceInv' /\ SingleKnown /\ VictimIsSingle
      /\ [Next]_vars
      => SingleKnown' /\ VictimIsSingle'
  BY SingleKnownNext, VictimIsSingleNext DEF OnceInv
<1> QED BY <1>1, <1>2, OnceInductive, SteadyInductive, PTL DEF Spec

LEMMA KnownIsLive ==
    ASSUME Careful, Unreaped, WorkInv, SteadyInv, SingleKnown PROVE LiveIsKnown
<1> SUFFICES ASSUME NEW p \in Procs, life[p] = "up"
             PROVE  proc[of[p]] = p /\ (status[of[p]] \in {"running", "draining"} \/ victim = p)
  BY DEF LiveIsKnown
<1>1. of[p] \in Children
  BY DEF WorkInv, UpIsOwned
<1>2. CASE StartedOnce(of[p])
  BY <1>1, <1>2 DEF SingleKnown, Single, Unreaped
<1>3. CASE Steady(of[p])
  BY <1>3 DEF SteadyInv, SteadyProcess, Running
<1> QED BY <1>1, <1>2, <1>3 DEF Careful

(* Under the same hypotheses a process that runs is never forgotten: its      *)
(* child's record holds it and says running or draining, or a stop waits for  *)
(* it, whatever monitors of earlier processes do late (supervisor.py:561-640).*)
THEOREM LiveProcessesKnown == ASSUME Careful, Unreaped PROVE Spec => []LiveIsKnown
<1>1. WorkInv /\ SteadyInv /\ SingleKnown => LiveIsKnown
  BY KnownIsLive
<1> QED BY <1>1, KnownInductive, PTL

(***************************************************************************)
(* The order of the queue: whoever joined it first gets the lock first.     *)
(***************************************************************************)
Before(q, a, b) == \E i, j \in 1..Len(q) : i < j /\ q[i] = a /\ q[j] = b
InOrder(q, w) == \A a, b : Before(q, a, b) /\ In(w, a) /\ In(w, b) => Before(w, a, b)

\* Who leaves the queue leaves the others in their order, ...
LEMMA WithoutInOrder ==
    ASSUME NEW S, NEW q \in Seq(S), NEW t, Distinct(q) PROVE InOrder(q, Without(q, t))
<1>1. CASE ~In(q, t)
  BY <1>1 DEF Without, In, InOrder
<1>2. CASE In(q, t)
  <2> DEFINE w == Without(q, t)
  <2>1. PICK k \in 1..Len(q) :
            /\ q[k] = t
            /\ w \in Seq(S) /\ Len(w) = Len(q) - 1
            /\ \A i \in 1..(Len(q) - 1) : w[i] = IF i < k THEN q[i] ELSE q[i + 1]
    BY <1>2, WithoutSkips
  <2>2. Len(q) \in Nat /\ \A x : In(w, x) => x # t
    BY WithoutLeaves
  <2> HIDE DEF w
  <2> SUFFICES ASSUME NEW a, NEW b, Before(q, a, b), a # t, b # t
               PROVE  Before(w, a, b)
    BY <2>2 DEF InOrder, w
  <2>i. PICK i \in 1..Len(q), j \in 1..Len(q) : i < j /\ q[i] = a /\ q[j] = b
    BY DEF Before
  <2>3. i # k /\ j # k
    BY <2>1, <2>i
  <2> DEFINE m == IF i < k THEN i ELSE i - 1
             n == IF j < k THEN j ELSE j - 1
  <2>4. m \in 1..Len(w) /\ n \in 1..Len(w) /\ m < n
    BY <2>1, <2>2, <2>3, <2>i
  <2>5. w[m] = a
    BY <2>1, <2>2, <2>3, <2>i
  <2>6. w[n] = b
    BY <2>1, <2>2, <2>3, <2>i
  <2> HIDE DEF m, n
  <2> QED BY <2>4, <2>5, <2>6 DEF Before
<1> QED BY <1>1, <1>2

\* ... and so does the first, ...
LEMMA TailInOrder ==
    ASSUME NEW S, NEW q \in Seq(S), q # <<>>, Distinct(q) PROVE InOrder(q, Tail(q))
<1> DEFINE w == Tail(q)
<1>1. /\ w \in Seq(S) /\ Len(q) \in Nat /\ Len(w) = Len(q) - 1
      /\ \A i \in 1..(Len(q) - 1) : w[i] = q[i + 1]
  OBVIOUS
<1>2. \A x : In(w, x) => x # q[1]
  BY TailLeaves
<1> HIDE DEF w
<1> SUFFICES ASSUME NEW a, NEW b, NEW i \in 1..Len(q), NEW j \in 1..Len(q), i < j,
                    q[i] = a, q[j] = b, a # q[1]
             PROVE  Before(w, a, b)
  BY <1>2 DEF InOrder, Before, w
<1>3. i - 1 \in 1..Len(w) /\ j - 1 \in 1..Len(w) /\ i - 1 < j - 1
  BY <1>1
<1>4. w[i - 1] = a /\ w[j - 1] = b
  BY <1>1, <1>3
<1> QED BY <1>3, <1>4 DEF Before

\* ... and who joins it is the last.
LEMMA AppendInOrder ==
    ASSUME NEW S, NEW q \in Seq(S), NEW t \in S
    PROVE  InOrder(q, Append(q, t)) /\ \A a : In(q, a) => Before(Append(q, t), a, t)
<1> DEFINE w == Append(q, t)
<1>1. /\ Len(q) \in Nat /\ Len(w) = Len(q) + 1 /\ w[Len(q) + 1] = t
      /\ \A i \in 1..Len(q) : w[i] = q[i]
  OBVIOUS
<1> HIDE DEF w
<1>2. \A i \in 1..Len(q) : i \in 1..Len(w) /\ Len(q) + 1 \in 1..Len(w) /\ i < Len(q) + 1
  BY <1>1
<1>3. ASSUME NEW a, NEW b, Before(q, a, b) PROVE Before(w, a, b)
  BY <1>1, <1>2, <1>3 DEF Before
<1>4. ASSUME NEW a, In(q, a) PROVE Before(w, a, t)
  <2>1. PICK i \in 1..Len(q) : q[i] = a
    BY <1>4 DEF In
  <2> QED BY <1>1, <1>2, <2>1 DEF Before
<1> QED BY <1>3, <1>4 DEF InOrder, w

\* Who is before another is not behind him.
LEMMA FirstIsFirst ==
    ASSUME NEW S, NEW q \in Seq(S), Distinct(q), NEW a, NEW b, Before(q, a, b)
    PROVE  q # <<>> /\ b # q[1] /\ In(q, a) /\ In(q, b)
<1>1. PICK i \in 1..Len(q), j \in 1..Len(q) : i < j /\ q[i] = a /\ q[j] = b
  BY DEF Before
<1>2. 1 \in 1..Len(q) /\ j # 1
  BY <1>1
<1> QED BY <1>1, <1>2 DEF Distinct, In

\* No step changes the order of those who stay in the queue.
LEMMA OrderKept ==
    ASSUME TypeInv, QueueInv, AsksAllowed, [Next]_vars PROVE InOrder(lock, lock')
<1> USE DEF child, procs, tasks, ops, mutex
<1> DEFINE Sub(q) == /\ q \in Seq(Tasks) /\ Distinct(q) /\ InOrder(lock, q)
                     /\ \A x : In(q, x) => In(lock, x)
           Goal == InOrder(lock, lock')
<1>1. Sub(lock)
  BY QueueOfTasks DEF InOrder
<1>2. ASSUME NEW q, Sub(q), NEW t PROVE Sub(Without(q, t))
  <2>1. /\ Without(q, t) \in Seq(Tasks) /\ Distinct(Without(q, t)) /\ InOrder(q, Without(q, t))
        /\ \A x : In(Without(q, t), x) => In(q, x)
    BY <1>2, WithoutLeaves, WithoutInOrder
  <2> QED BY <1>2, <2>1 DEF InOrder
<1>3. ASSUME NEW q, Sub(q), q # <<>> PROVE Sub(Tail(q))
  <2>1. /\ Tail(q) \in Seq(Tasks) /\ Distinct(Tail(q)) /\ InOrder(q, Tail(q))
        /\ \A x : In(Tail(q), x) => In(q, x)
    BY <1>3, TailLeaves, TailInOrder
  <2> QED BY <1>3, <2>1 DEF InOrder
<1>4. ASSUME NEW q, Sub(q), lock' = q PROVE Goal
  BY <1>4
<1>5. CASE lock = <<>>
  <2>1. \A a, b : ~Before(lock, a, b)
    BY <1>5 DEF Before
  <2> QED BY <2>1 DEF InOrder
<1>6. ASSUME NEW t, Idle(t), lock # <<>>, NEW steps
      PROVE  Sub(IF steps = <<>> THEN Others ELSE <<t>> \o Others)
  <2>1. Others = Tail(lock) /\ lock[1] = t /\ lock \in Seq(Tasks)
    BY <1>6, QueueOfTasks DEF Idle, Others
  <2>2. <<t>> \o Tail(lock) = lock
    BY <1>6, <2>1
  <2> HIDE DEF Sub
  <2> QED BY <1>1, <1>3, <1>6, <2>1, <2>2
<1>7. ASSUME NEW q, Sub(q), q # <<>>, Advance(q) PROVE Goal
  <2>1. lock' = q \/ lock' = Tail(q)
    BY <1>7 DEF Advance
  <2>2. Sub(Tail(q))
    BY <1>3, <1>7
  <2> HIDE DEF Sub, Goal
  <2> QED BY <1>4, <1>7, <2>1, <2>2
<1> HIDE DEF Sub
<1>8. ASSUME lock # <<>> PROVE Goal
  <2>1. ASSUME Passes \/ \E p \in Procs : Exec(p) PROVE Goal
    BY <1>1, <1>7, <1>8, <2>1 DEF Passes, Exec
  <2>2. ASSUME NEW c \in Children, Settles(c) PROVE Goal
    <3>1. CASE Advance(lock)
      BY <1>1, <1>7, <1>8, <3>1
    <3>2. CASE Holder = c /\ Advance(Without(lock, latest[c]))
      <4>1. latest[c] # Holder
        BY <3>2, SupervisorAssumption DEF TypeInv, TypeOK
      <4>2. Without(lock, latest[c]) # <<>>
        BY <1>8, <4>1, QueueOfTasks, WithoutLeaves DEF Holder
      <4> QED BY <1>1, <1>2, <1>7, <3>2, <4>2
    <3> QED BY <2>2, <3>1, <3>2 DEF Settles
  <2>3. ASSUME NEW c \in Children, StopSignal(c) PROVE Goal
    <3>1. lock' = Without(Without(lock, c), latest[c])
      BY <2>3 DEF StopSignal
    <3>2. Sub(Without(Without(lock, c), latest[c]))
      BY <1>1, <1>2
    <3> QED BY <1>4, <3>1, <3>2
  <2>4. ASSUME NEW o \in Ops, NEW r, NEW plan, Opens(o, r, plan) PROVE Goal
    <3>1. Idle(o) /\ \E t : lock' = Without(IF plan = <<>> THEN Others ELSE <<o>> \o Others, t)
      BY <2>4 DEF Opens, Called
    <3>2. Sub(IF plan = <<>> THEN Others ELSE <<o>> \o Others)
      BY <1>6, <1>8, <3>1
    <3> QED BY <1>2, <1>4, <3>1, <3>2
  <2>5. ASSUME NEW t, NEW steps, Idle(t), Holds(t, steps) PROVE Goal
    <3>1. lock' = IF steps = <<>> THEN Others ELSE <<t>> \o Others
      BY <2>5 DEF Holds
    <3>2. Sub(IF steps = <<>> THEN Others ELSE <<t>> \o Others)
      BY <1>6, <1>8, <2>5
    <3> QED BY <1>4, <3>1, <3>2
  <2>6. ASSUME \/ \E o \in Ops : Closes(o)
               \/ \E p \in Procs : Wakes(p)
               \/ \E c \in Children : Reaps(c)
        PROVE  Goal
    BY <2>5, <2>6 DEF Closes, Wakes, Reaps
  <2>7. ASSUME NEW t \in Tasks, Joins(t) PROVE Goal
    BY <2>7, QueueOfTasks, AppendInOrder DEF Joins
  <2>8. ASSUME NEW p \in Procs, Sees(p) PROVE Goal
    <3>1. lock' = lock \/ lock' = Without(lock, of[p])
      BY <2>8 DEF Sees
    <3>2. Sub(Without(lock, of[p]))
      BY <1>1, <1>2
    <3> QED BY <1>1, <1>4, <3>1, <3>2
  <2>9. ASSUME \/ \E c \in Children : BeginWork(c) \/ EndWork(c) \/ ReaperLeaves(c)
               \/ \E p \in Procs, code \in {"exit0", "exit1"} : Exits(p, code)
               \/ BeginStart \/ StopTimeout \/ UNCHANGED vars
        PROVE  Goal
    <3>1. lock' = lock
      BY <2>9 DEF BeginWork, EndWork, ReaperLeaves, Exits, BeginStart, StopTimeout, vars
    <3> QED BY <1>1, <1>4, <3>1
  <2>10. ASSUME \/ \E o \in Ops : DrainJoins(o) \/ \E r \in Requests[o] : CallJoins(o, r)
                \/ \E p \in Procs : MonitorJoins(p)
                \/ \E c \in Children : ReaperJoins(c)
         PROVE  Goal
    BY <2>7, <2>10 DEF DrainJoins, CallJoins, MonitorJoins, ReaperJoins, Tasks
  <2> HIDE DEF Goal
  <2>11. Cases
    BY StepCases
  <2> QED BY <2>1, <2>2, <2>3, <2>4, <2>6, <2>8, <2>9, <2>10, <2>11 DEF Cases
<1> QED BY <1>5, <1>8

(***************************************************************************)
(* Drains.                                                                 *)
(***************************************************************************)

(* A drain closes its child, which runs, to new work.                       *)
Drain(o, r) == Opens(o, r, <<>>) /\ r.do = "drain" /\ Running(r.on) /\ r.on \in Children

(* What becomes of a call.                                                 *)
CallStep(o) ==
    \/ at'[o] = at[o] /\ ask'[o] = ask[o]
    \/ at[o] \in {"uncalled", "queued"} /\ at'[o] \in {"queued", "inside", "done"}
    \/ /\ at[o] \in {"uncalled", "queued"} /\ at'[o] = "draining"
       /\ ask'[o] \in Requests[o] /\ Drain(o, ask'[o])
    \/ at[o] = "draining" /\ at'[o] = "requeued" /\ ask'[o] = ask[o]
    \/ /\ at[o] \in {"draining", "requeued"} /\ at'[o] \in {"inside", "done"} /\ ask'[o] = ask[o]
       /\ at'[o] = "inside" => status[ask[o].on] = "draining"
    \/ at[o] = "inside" /\ at'[o] = "done" /\ ask'[o] = ask[o]

\* Every step does one of these to a call.
LEMMA CallSteps ==
    ASSUME TypeInv, QueueInv, AsksAllowed, [Next]_vars, NEW o \in Ops PROVE CallStep(o)
<1> USE DEF child, procs, tasks, ops, mutex
<1>1. at \in [Ops -> Places] /\ ask \in [Ops -> Request \cup {None}] /\ Requests \in [Ops -> SUBSET Request]
  BY SupervisorAssumption DEF TypeInv, TypeOK, Places
<1>2. ASSUME UNCHANGED <<at, ask>> PROVE CallStep(o)
  BY <1>2 DEF CallStep
<1>3. ASSUME NEW q \in Ops, q # o,
             \E s : at' = [at EXCEPT ![q] = s], ask' = ask \/ \E r : ask' = [ask EXCEPT ![q] = r]
      PROVE  CallStep(o)
  <2>1. at'[o] = at[o] /\ ask'[o] = ask[o]
    BY <1>1, <1>3
  <2> QED BY <2>1 DEF CallStep
<1>4. ASSUME NEW queue, phase # "idle", Advance(queue), ask' = ask PROVE CallStep(o)
  <2>1. at'[o] = at[o] \/ (at[o] = "inside" /\ at'[o] = "done")
    BY <1>4, Advances
  <2> QED BY <1>4, <2>1 DEF CallStep
<1>5. ASSUME NEW q \in Ops, NEW r \in Requests[q], NEW plan \in Plans(r), Opens(q, r, plan) PROVE CallStep(o)
  <2>1. /\ at[q] \in {"uncalled", "queued"} /\ ask' = [ask EXCEPT ![q] = r] /\ r \in Request
        /\ at' = [at EXCEPT ![q] = IF r.do = "drain" /\ Running(r.on) THEN "draining"
                                   ELSE IF plan = <<>> THEN "done" ELSE "inside"]
    BY <1>1, <1>5 DEF Opens, Called
  <2>2. CASE q = o /\ r.do = "drain" /\ Running(r.on)
    <3>1. plan = <<>> /\ r.on \in Children
      BY <1>1, <2>1, <2>2 DEF Plans, Request
    <3>2. at'[o] = "draining" /\ ask'[o] = r
      BY <1>1, <2>1, <2>2
    <3>3. Drain(o, r)
      BY <1>5, <2>2, <3>1 DEF Drain
    <3> QED BY <2>1, <2>2, <3>2, <3>3 DEF CallStep
  <2>3. CASE q = o /\ ~(r.do = "drain" /\ Running(r.on))
    <3>1. at'[o] \in {"inside", "done"}
      BY <1>1, <2>1, <2>3
    <3> QED BY <2>1, <2>3, <3>1 DEF CallStep
  <2> QED BY <1>3, <2>1, <2>2, <2>3
<1>6. ASSUME NEW q \in Ops, Closes(q) PROVE CallStep(o)
  <2>1. /\ at[q] \in {"draining", "requeued"} /\ ask' = ask
        /\ at' = [at EXCEPT ![q] = IF DrainPlan(q) = <<>> THEN "done" ELSE "inside"]
    BY <1>6 DEF Closes
  <2>2. CASE q = o
    <3>1. at'[o] \in {"inside", "done"} /\ (at'[o] = "inside" => status[ask[o].on] = "draining")
      BY <1>1, <2>1, <2>2 DEF DrainPlan
    <3> QED BY <2>1, <2>2, <3>1 DEF CallStep
  <2> QED BY <1>3, <2>1, <2>2
<1>7. ASSUME NEW q \in Ops, DrainJoins(q) \/ \E r \in Requests[q] : CallJoins(q, r) PROVE CallStep(o)
  <2>1. \/ /\ at[q] = "draining" /\ at' = [at EXCEPT ![q] = "requeued"] /\ ask' = ask
        \/ /\ at[q] = "uncalled" /\ at' = [at EXCEPT ![q] = "queued"]
           /\ \E r : ask' = [ask EXCEPT ![q] = r]
    BY <1>7 DEF DrainJoins, CallJoins
  <2>2. CASE q = o
    BY <1>1, <2>1, <2>2 DEF CallStep
  <2> QED BY <1>3, <2>1, <2>2
<1>8. ASSUME Passes \/ (\E p \in Procs : Exec(p)) \/ \E c \in Children : Settles(c) PROVE CallStep(o)
  BY <1>4, <1>8 DEF Passes, Exec, Settles
<1>9. ASSUME \/ \E p \in Procs : Wakes(p) \/ MonitorJoins(p) \/ Sees(p)
             \/ \E c \in Children : \/ Reaps(c) \/ ReaperJoins(c) \/ ReaperLeaves(c) \/ StopSignal(c)
                                    \/ BeginWork(c) \/ EndWork(c)
             \/ \E p \in Procs, code \in {"exit0", "exit1"} : Exits(p, code)
             \/ BeginStart \/ StopTimeout \/ UNCHANGED vars
      PROVE  CallStep(o)
  <2>1. UNCHANGED <<at, ask>>
    BY <1>9 DEF Wakes, MonitorJoins, Sees, Reaps, ReaperJoins, ReaperLeaves, StopSignal, BeginWork, EndWork,
                Exits, BeginStart, StopTimeout, vars
  <2> QED BY <1>2, <2>1
<1>10. Cases
  BY StepCases
<1> QED BY <1>5, <1>6, <1>7, <1>8, <1>9, <1>10 DEF Cases

(* What becomes of the events of the drains, and of the work of a child.     *)
WorkStep ==
    \/ UNCHANGED <<event, drained, inFlight>>
    \/ \E p \in Procs : Exec(p)
    \/ \E o \in Ops : \E r \in Requests[o] :
          /\ Drain(o, r) /\ event' = [event EXCEPT ![r.on] = o] /\ inFlight' = inFlight
          /\ at' = [at EXCEPT ![o] = "draining"] /\ ask' = [ask EXCEPT ![o] = r]
          /\ drained' = IF inFlight[r.on] = 0 THEN drained \cup {o} ELSE drained
          /\ status' = [status EXCEPT ![r.on] = "draining"] /\ monitor' = monitor
    \/ \E c \in Children : BeginWork(c) \/ EndWork(c)

\* Every step does one of these.
LEMMA WorkSteps ==
    ASSUME TypeInv, QueueInv, AsksAllowed, [Next]_vars PROVE WorkStep
<1> USE DEF child, procs, tasks, ops, mutex
<1>1. ASSUME NEW o \in Ops, NEW r \in Requests[o], NEW plan \in Plans(r), Opens(o, r, plan) PROVE WorkStep
  <2>1. Enter(o, r) /\ r \in Request /\ inFlight' = inFlight /\ Called(o, r, plan)
    BY <1>1, SupervisorAssumption DEF Opens, Called
  <2>2. CASE ~(r.do = "drain" /\ Running(r.on))
    BY <2>1, <2>2 DEF Enter, WorkStep
  <2>3. CASE r.do = "drain" /\ Running(r.on)
    <3>1. plan = <<>> /\ r.on \in Children
      BY <2>1, <2>3 DEF Plans, Request
    <3>2. Drain(o, r)
      BY <1>1, <2>3, <3>1 DEF Drain
    <3>3. /\ event' = [event EXCEPT ![r.on] = o] /\ monitor' = monitor
          /\ drained' = IF inFlight[r.on] = 0 THEN drained \cup {o} ELSE drained
      BY <2>1, <2>3 DEF Enter
    <3>4. at' = [at EXCEPT ![o] = "draining"] /\ ask' = [ask EXCEPT ![o] = r]
      BY <2>1, <2>3 DEF Called
    <3>5. status' = [d \in Children |->
              IF r.do = "reconcile" /\ d \in r.on \ Desired(r) /\ status[d] = "absent" THEN "stopped"
              ELSE IF r.do = "drain" /\ d = r.on /\ Running(d) THEN "draining" ELSE status[d]]
      BY <2>1, <2>3 DEF Enter
    <3>6. status' = [status EXCEPT ![r.on] = "draining"]
      BY <2>3, <3>5 DEF TypeInv, TypeOK
    <3> QED BY <2>1, <3>2, <3>3, <3>4, <3>6 DEF WorkStep
  <2> QED BY <2>2, <2>3
<1>2. ASSUME \/ \E o \in Ops : Closes(o) \/ DrainJoins(o) \/ \E r \in Requests[o] : CallJoins(o, r)
             \/ \E p \in Procs : Wakes(p) \/ MonitorJoins(p) \/ Sees(p)
             \/ \E c \in Children : \/ Reaps(c) \/ ReaperJoins(c) \/ ReaperLeaves(c)
                                    \/ StopSignal(c) \/ Settles(c)
             \/ \E p \in Procs, code \in {"exit0", "exit1"} : Exits(p, code)
             \/ Passes \/ BeginStart \/ StopTimeout \/ UNCHANGED vars
      PROVE  WorkStep
  <2>1. UNCHANGED <<event, drained, inFlight>>
    BY <1>2 DEF Closes, Joins, DrainJoins, CallJoins, Wakes, MonitorJoins, Sees, Reaps, ReaperJoins,
                ReaperLeaves, StopSignal, Settles, Exits, Passes, BeginStart, StopTimeout, vars
  <2> QED BY <2>1 DEF WorkStep
<1>3. Cases
  BY StepCases
<1> QED BY <1>1, <1>2, <1>3 DEF Cases, WorkStep

InDrain(o) == at[o] \in {"draining", "requeued"}
Past(o) == at[o] \notin {"uncalled", "queued"}

(* An event belongs to the drain that its child is closed for.              *)
EventsAreDrains ==
    \A c \in Children : event[c] # None => Past(event[c]) /\ Drains(ask[event[c]], c)
DrainedAreDrains == \A o \in drained : Past(o) /\ ask[o].do = "drain"

(* While a drain whose event was set waits to stop its child, a child that is *)
(* started once is not running again, has no work, and has no call or        *)
(* monitor before the drain that could start it.                            *)
Drained(o) == o \in drained /\ InDrain(o) /\ StartedOnce(ask[o].on)

NoWorkLeft ==
    \A o \in Ops : Drained(o) /\ status[ask[o].on] = "draining" => inFlight[ask[o].on] = 0
NotBack == \A o \in Ops : Drained(o) => ~Running(ask[o].on)
NoneWillStart ==
    \A o, q \in Ops : InDrain(o) /\ StartedOnce(ask[o].on) => ~Pending(q, ask[o].on)
MonitorsBehind ==
    \A o \in Ops, p \in Procs :
        Drained(o) /\ of[p] = ask[o].on /\ monitor[p] \in {"queued", "inside"} =>
            at[o] = "requeued" /\ Before(lock, o, p)

DrainInv ==
    /\ EventsAreDrains /\ DrainedAreDrains
    /\ NoWorkLeft /\ NotBack /\ NoneWillStart /\ MonitorsBehind

\* A drain that waits is one for a child.
LEMMA DrainOfChild ==
    ASSUME TypeInv, NEW o \in Ops, InDrain(o)
    PROVE  ask[o].on \in Children /\ ask[o].do = "drain" /\ o \in Tasks /\ Past(o)
BY DEF TypeInv, Asked, InDrain, Past, Request, Tasks

(* A drain whose event is set, and that waits, did so before; or it found no *)
(* work; or the last work of its child has ended.                           *)
LEMMA DrainedSteps ==
    ASSUME TypeInv, QueueInv, WorkInv, EventsAreDrains, DrainedAreDrains, [Next]_vars,
           NEW o \in Ops, o \in drained', InDrain(o)', NEW c, c = ask'[o].on
    PROVE  \/ /\ o \in drained /\ InDrain(o) /\ ask'[o] = ask[o]
              /\ at'[o] = at[o] \/ at'[o] = "requeued"
           \/ /\ Drain(o, ask'[o]) /\ Running(c)
              /\ status'[c] = "draining" /\ inFlight'[c] = 0 /\ monitor' = monitor
           \/ /\ EndWork(c) /\ status[c] = "draining" /\ inFlight'[c] = 0
              /\ InDrain(o) /\ ask'[o] = ask[o]
<1> USE DEF child, procs, tasks, ops, mutex
<1>1. AsksAllowed /\ CallStep(o) /\ WorkStep
  BY CallSteps, WorkSteps DEF WorkInv
<1>2. CASE o \in drained
  BY <1>1, <1>2 DEF CallStep, DrainedAreDrains, Past, InDrain
<1>3. CASE o \notin drained
  <2>1. drained' # drained
    BY <1>3
  <2>2. ASSUME NEW q \in Ops, NEW r \in Requests[q], Drain(q, r), inFlight' = inFlight,
               at' = [at EXCEPT ![q] = "draining"], ask' = [ask EXCEPT ![q] = r],
               drained' = IF inFlight[r.on] = 0 THEN drained \cup {q} ELSE drained,
               status' = [status EXCEPT ![r.on] = "draining"], monitor' = monitor
        PROVE  /\ Drain(o, ask'[o]) /\ Running(c)
               /\ status'[c] = "draining" /\ inFlight'[c] = 0 /\ monitor' = monitor
    <3>1. q = o /\ inFlight[r.on] = 0
      BY <1>3, <2>2
    <3>2. ask'[o] = r
      BY <2>2, <3>1 DEF TypeInv, TypeOK
    <3> QED BY <2>2, <3>1, <3>2 DEF Drain, TypeInv, TypeOK
  <2>3. ASSUME NEW d \in Children, EndWork(d)
        PROVE  /\ EndWork(c) /\ status[c] = "draining" /\ inFlight'[c] = 0
               /\ InDrain(o) /\ ask'[o] = ask[o]
    <3>1. status[d] = "draining" /\ inFlight[d] = 1 /\ event[d] = o /\ UNCHANGED <<at, ask>>
      BY <1>3, <2>1, <2>3 DEF EndWork
    <3>2. ask[o].on = d
      BY <3>1, SupervisorAssumption DEF EventsAreDrains, Drains
    <3> QED BY <2>3, <3>1, <3>2 DEF EndWork, InDrain, TypeInv, TypeOK
  <2>4. ~\E p \in Procs : Exec(p)
    BY <2>1 DEF Exec
  <2>5. ~\E d \in Children : BeginWork(d)
    BY <2>1 DEF BeginWork
  <2> QED BY <1>1, <2>1, <2>2, <2>3, <2>4, <2>5 DEF WorkStep
<1> QED BY <1>2, <1>3

\* Every step leaves the events with their drains.
LEMMA EventsNext ==
    ASSUME TypeInv, QueueInv, WorkInv, DrainInv, [Next]_vars, TypeInv'
    PROVE  EventsAreDrains' /\ DrainedAreDrains'
<1> USE DEF child, procs, tasks, ops, mutex
<1>1. /\ AsksAllowed /\ EventsAreDrains /\ DrainedAreDrains /\ PhaseFits /\ VictimIsStopped /\ WorkStep
      /\ drained \subseteq Ops /\ None \notin Ops /\ event \in [Children -> Ops \cup {None}]
  BY WorkSteps, SupervisorAssumption DEF WorkInv, DrainInv, TypeInv, TypeOK
<1>2. ASSUME NEW o \in Ops, Past(o) PROVE Past(o)' /\ ask'[o] = ask[o]
  <2>1. CallStep(o)
    BY <1>1, CallSteps
  <2> QED BY <1>2, <2>1 DEF CallStep, Past
<1>3. ASSUME NEW c \in Children
      PROVE  \/ event'[c] \in {event[c], None}
             \/ at'[event'[c]] \notin {"uncalled", "queued"} /\ Drains(ask'[event'[c]], c)
  <2>1. ASSUME NEW p \in Procs, Exec(p) PROVE event'[c] \in {event[c], None}
    <3>1. event' = [event EXCEPT ![Step.on] = None]
      BY <2>1 DEF Exec
    <3> QED BY <1>1, <3>1
  <2>2. ASSUME NEW o \in Ops, NEW r \in Requests[o], Drain(o, r), event' = [event EXCEPT ![r.on] = o],
               at' = [at EXCEPT ![o] = "draining"], ask' = [ask EXCEPT ![o] = r]
        PROVE  \/ event'[c] = event[c]
               \/ at'[event'[c]] \notin {"uncalled", "queued"} /\ Drains(ask'[event'[c]], c)
    <3>1. at'[o] = "draining" /\ ask'[o] = r /\ r.do = "drain"
      BY <2>2 DEF Drain, TypeInv, TypeOK
    <3>2. CASE r.on = c
      BY <1>1, <2>2, <3>1, <3>2 DEF Past, Drains
    <3>3. CASE r.on # c
      BY <1>1, <2>2, <3>3
    <3> QED BY <3>2, <3>3
  <2>3. ASSUME NEW d \in Children, BeginWork(d) \/ EndWork(d) PROVE event'[c] = event[c]
    BY <2>3 DEF BeginWork, EndWork
  <2> QED BY <1>1, <2>1, <2>2, <2>3 DEF WorkStep
<1>4. EventsAreDrains'
  <2> SUFFICES ASSUME NEW c \in Children, event'[c] # None, event'[c] = event[c]
               PROVE  at'[event'[c]] \notin {"uncalled", "queued"} /\ Drains(ask'[event'[c]], c)
    BY <1>3 DEF EventsAreDrains, Drains, Past
  <2>1. event[c] \in Ops /\ Past(event[c]) /\ Drains(ask[event[c]], c)
    BY <1>1 DEF EventsAreDrains
  <2> QED BY <1>2, <2>1 DEF Past
<1>5. DrainedAreDrains'
  <2> SUFFICES ASSUME NEW o \in Ops, o \in drained' PROVE Past(o)' /\ ask'[o].do = "drain"
    BY DEF DrainedAreDrains, TypeInv, TypeOK
  <2>1. CASE o \in drained
    BY <1>1, <1>2, <2>1 DEF DrainedAreDrains
  <2>2. CASE o \notin drained
    <3>1. ASSUME NEW q \in Ops, NEW r \in Requests[q], Drain(q, r),
                 at' = [at EXCEPT ![q] = "draining"], ask' = [ask EXCEPT ![q] = r],
                 drained' = IF inFlight[r.on] = 0 THEN drained \cup {q} ELSE drained
          PROVE  Past(o)' /\ ask'[o].do = "drain"
      BY <2>2, <3>1 DEF Past, Drain, TypeInv, TypeOK
    <3>2. ASSUME NEW d \in Children, EndWork(d) PROVE Past(o)' /\ ask'[o].do = "drain"
      <4>1. event[d] = o
        BY <2>2, <3>2 DEF EndWork
      <4> QED BY <1>1, <1>2, <4>1 DEF EventsAreDrains, Drains
    <3>3. (\A p \in Procs : ~Exec(p)) /\ \A d \in Children : ~BeginWork(d)
      BY <2>2 DEF Exec, BeginWork
    <3> QED BY <1>1, <2>2, <3>1, <3>2, <3>3 DEF WorkStep
  <2> QED BY <2>1, <2>2
<1> QED BY <1>4, <1>5

\* Nothing starts a child whose drain has ended before the drain goes on.
LEMMA DrainHoldsStarts ==
    ASSUME TypeInv, QueueInv, WorkInv, DrainInv, [Next]_vars, NEW o \in Ops, Drained(o),
           NEW p \in Procs, Exec(p)
    PROVE  Step.on # ask[o].on
<1> SUFFICES ASSUME NEW c, c = Step.on, c = ask[o].on PROVE FALSE
  OBVIOUS
<1>1. NoneWillStart /\ MonitorsBehind /\ phase # "idle"
  BY DEF DrainInv, Exec
<1>2. CASE \E q \in Ops : Pending(q, c)
  BY <1>1, <1>2 DEF NoneWillStart, Drained
<1>3. CASE \E m \in Procs : Holder = m /\ of[m] = c
  <2>1. PICK m \in Procs : Holder = m /\ of[m] = c
    BY <1>3
  <2>2. monitor[m] = "inside"
    BY <1>1, <2>1, HolderWorks
  <2>3. Before(lock, o, m)
    BY <1>1, <2>1, <2>2 DEF MonitorsBehind
  <2> QED BY <2>1, <2>3, QueueOfTasks, FirstIsFirst DEF Holder
<1> QED BY <1>2, <1>3, TokenTaken

\* Every step leaves a drained child without work, and not running.
LEMMA NoWorkNext ==
    ASSUME TypeInv, QueueInv, WorkInv, DrainInv, [Next]_vars, TypeInv'
    PROVE  NoWorkLeft' /\ NotBack'
<1>1. /\ AsksAllowed /\ PhaseFits /\ VictimIsStopped
      /\ EventsAreDrains /\ DrainedAreDrains /\ NoWorkLeft /\ NotBack
  BY DEF WorkInv, DrainInv
<1> SUFFICES ASSUME NEW o \in Ops, o \in drained', InDrain(o)', NEW c, c = ask'[o].on, StartedOnce(c)
             PROVE  /\ status'[c] = "draining" => inFlight'[c] = 0
                    /\ status'[c] # "running"
  BY DEF NoWorkLeft, NotBack, Running, Drained, StartedOnce, Starters, Starts, Desired
<1>2. CASE status'[c] = "draining" /\ inFlight'[c] = 0
  BY <1>2
<1>3. CASE EndWork(c) /\ status[c] = "draining" /\ inFlight'[c] = 0
  BY <1>3 DEF EndWork
<1>4. CASE o \in drained /\ InDrain(o) /\ ask'[o] = ask[o]
  <2>1. /\ c \in Children /\ Drained(o) /\ c = ask[o].on /\ ~Running(c)
        /\ status[c] = "draining" => inFlight[c] = 0
    <3>1. Drained(o) /\ c = ask[o].on
      BY <1>4 DEF Drained
    <3> QED BY <1>1, <1>4, <3>1, DrainOfChild DEF NoWorkLeft, NotBack
  <2>2. ASSUME NEW p \in Procs, Exec(p) PROVE status'[c] = status[c] /\ inFlight'[c] = inFlight[c]
    <3>1. Step.on # c
      BY <2>1, <2>2, DrainHoldsStarts
    <3> QED BY <1>1, <2>1, <2>2, <3>1, ExecFacts
  <2>3. CASE ~\E p \in Procs : Exec(p)
    <3>1. status'[c] # "running" /\ (status'[c] = "draining" => status[c] = "draining")
      <4>1. StatusStep(c)
        BY <1>1, <2>1, <2>3, StatusSteps
      <4> QED BY <2>1, <4>1 DEF StatusStep, Running
    <3>2. CASE inFlight' = inFlight
      BY <2>1, <3>1, <3>2
    <3>3. ASSUME NEW d \in Children, BeginWork(d) \/ EndWork(d), inFlight'[c] # inFlight[c]
          PROVE  status[c] # "draining"
      <4>1. \/ inFlight' = [inFlight EXCEPT ![d] = @ + 1] /\ Running(d)
            \/ inFlight' = [inFlight EXCEPT ![d] = @ - 1] /\ inFlight[d] > 0
        BY <3>3 DEF BeginWork, EndWork
      <4>2. d = c
        BY <2>1, <3>3, <4>1 DEF TypeInv, TypeOK
      <4> QED BY <2>1, <4>1, <4>2
    <3>4. WorkStep
      BY <1>1, WorkSteps
    <3> QED BY <2>1, <2>3, <3>1, <3>2, <3>3, <3>4 DEF WorkStep
  <2> QED BY <2>1, <2>2, <2>3 DEF Running
<1> QED BY <1>1, <1>2, <1>3, <1>4, DrainedSteps

\* Every step leaves no call that might start a child being drained.
LEMMA NoneStartsNext ==
    ASSUME TypeInv, QueueInv, WorkInv, OnceInv, DrainInv, [Next]_vars PROVE NoneWillStart'
<1>1. AsksAllowed /\ NoneWillStart /\ FirstStart
  BY DEF WorkInv, DrainInv, OnceInv
<1> SUFFICES ASSUME NEW o \in Ops, InDrain(o)', NEW c, c = ask'[o].on, StartedOnce(c),
                    NEW q \in Ops, Pending(q, c)'
             PROVE  FALSE
  BY DEF NoneWillStart, Pending, Planned, StartedOnce, Starters, Starts, Desired, Start
<1>2. CallStep(o)
  BY <1>1, CallSteps
<1>3. CASE InDrain(o) /\ ask'[o] = ask[o]
  <2>1. c \in Children
    BY <1>3, DrainOfChild
  <2>2. Pending(q, c)
    BY <2>1, PendingSteps
  <2> QED BY <1>1, <1>3, <2>2 DEF NoneWillStart
<1>4. CASE Drain(o, ask'[o])
  <2>1. c \in Children /\ status[c] = "running"
    BY <1>4 DEF Drain, Running
  <2>2. Pending(q, c)
    BY <2>1, PendingSteps
  <2> QED BY <1>1, <2>1, <2>2 DEF FirstStart, Never
<1> QED BY <1>2, <1>3, <1>4 DEF CallStep, InDrain

\* Every step leaves the monitors of a drained child behind the drain.
LEMMA BehindNext ==
    ASSUME TypeInv, QueueInv, WorkInv, OnceInv, DrainInv, [Next]_vars, TypeInv', QueueInv'
    PROVE  MonitorsBehind'
<1> USE DEF child, procs, tasks, ops, mutex
<1>1. /\ AsksAllowed /\ WokenIsDown /\ MonitorsBehind /\ EventsAreDrains /\ DrainedAreDrains
      /\ PhaseFits /\ VictimIsStopped
  BY DEF WorkInv, DrainInv, OnceInv
<1> SUFFICES ASSUME NEW o \in Ops, o \in drained', InDrain(o)', NEW c, c = ask'[o].on, StartedOnce(c),
                    NEW p \in Procs, of'[p] = c, monitor'[p] \in {"queued", "inside"}
             PROVE  at'[o] = "requeued" /\ Before(lock', o, p)
  BY DEF MonitorsBehind, Drained, StartedOnce, Starters, Starts, Desired, Before
<1>2. /\ of[p] = c /\ MonitorStep(p)
  <2>1. ASSUME NEW q \in Procs, Exec(q) PROVE of[p] = c /\ MonitorStep(p)
    <3>1. p # q /\ of[p] = c /\ monitor'[p] = MonitorAfter(Leaver)[p]
      BY <1>1, <2>1, ExecFacts
    <3>2. monitor'[p] \in {monitor[p], "none"}
      BY <3>1 DEF MonitorAfter
    <3> QED BY <3>1, <3>2 DEF MonitorStep
  <2> QED BY <1>1, <2>1, QuietStep
<1>3. monitor[p] \in {"backoff", "queued", "inside"}
  BY <1>2 DEF MonitorStep
<1>4. status[c] \notin {"running", "draining"}
  BY <1>1, <1>2, <1>3 DEF WokenIsDown
<1>5. /\ o \in drained /\ InDrain(o) /\ ask'[o] = ask[o]
      /\ at'[o] = at[o] \/ at'[o] = "requeued"
  BY <1>1, <1>4, DrainedSteps DEF Running
<1>6. CASE monitor[p] \in {"queued", "inside"}
  <2>1. at[o] = "requeued" /\ Before(lock, o, p)
    BY <1>1, <1>2, <1>5, <1>6 DEF MonitorsBehind, Drained
  <2>2. at'[o] = "requeued"
    BY <1>5, <2>1
  <2>3. In(lock', o) /\ In(lock', p)
    BY <2>2 DEF QueueInv, QueueMatchesTasks, Queued, In
  <2> QED BY <1>1, <2>1, <2>2, <2>3, OrderKept DEF InOrder
<1>7. CASE monitor[p] = "backoff"
  <2>1. ~Sees(p) /\ ~(\E q \in Procs : Exec(q)) /\ monitor'[p] # monitor[p]
    <3>1. ASSUME NEW q \in Procs, Exec(q) PROVE FALSE
      <4>1. p # q /\ monitor'[p] = MonitorAfter(Leaver)[p]
        BY <1>1, <1>7, <3>1, ExecFacts DEF Free
      <4> QED BY <1>7, <4>1 DEF MonitorAfter
    <3> QED BY <1>7, <3>1 DEF Sees, Exited
  <2>2. MonitorJoins(p) \/ Wakes(p)
    <3>1. Cases
      BY <1>1, StepCases
    <3>2. ASSUME NEW t, monitor' = MonitorAfter(t) PROVE FALSE
      BY <1>7, <3>2 DEF MonitorAfter
    <3>3. ASSUME NEW q \in Procs, NEW s, monitor' = [monitor EXCEPT ![q] = s] PROVE q = p
      BY <2>1, <3>3 DEF TypeInv, TypeOK
    <3>4. ASSUME NEW q \in Procs, MonitorJoins(q) \/ Wakes(q) \/ Sees(q)
          PROVE  MonitorJoins(p) \/ Wakes(p)
      <4>1. \E s : monitor' = [monitor EXCEPT ![q] = s]
        BY <3>4 DEF MonitorJoins, Wakes, Sees
      <4> QED BY <2>1, <3>3, <3>4, <4>1
    <3>5. ASSUME NEW q \in Ops, NEW r, NEW plan, Opens(q, r, plan) PROVE FALSE
      BY <2>1, <3>2, <3>5 DEF Opens, Called, Enter
    <3>6. ASSUME NEW d \in Children, Settles(d) \/ StopSignal(d) PROVE FALSE
      BY <2>1, <3>2, <3>6 DEF Settles, StopSignal
    <3>7. ASSUME Passes PROVE FALSE
      BY <2>1, <3>2, <3>7 DEF Passes
    <3>8. ASSUME \/ \E q \in Ops : Closes(q) \/ DrainJoins(q) \/ \E r \in Requests[q] : CallJoins(q, r)
                 \/ \E d \in Children : \/ Reaps(d) \/ ReaperJoins(d) \/ ReaperLeaves(d)
                                        \/ BeginWork(d) \/ EndWork(d)
                 \/ \E q \in Procs, code \in {"exit0", "exit1"} : Exits(q, code)
                 \/ BeginStart \/ StopTimeout \/ UNCHANGED vars
          PROVE  monitor' = monitor
      BY <3>8 DEF Closes, DrainJoins, CallJoins, Reaps, ReaperJoins, ReaperLeaves, BeginWork, EndWork, Exits,
                  BeginStart, StopTimeout, vars
    <3> QED BY <2>1, <3>1, <3>4, <3>5, <3>6, <3>7, <3>8 DEF Cases
  <2>3. at[o] = "requeued"
    BY <1>5, <1>7, <2>2 DEF MonitorJoins, Wakes, InDrain
  <2>4. at'[o] = "requeued" /\ In(lock, o) /\ lock # <<>>
    BY <1>5, <2>3, QueueOfTasks DEF QueueInv, QueueMatchesTasks, Queued, In
  <2>5. CASE MonitorJoins(p)
    BY <2>4, <2>5, QueueOfTasks, AppendInOrder DEF MonitorJoins, Joins, Tasks
  <2>6. ~Wakes(p)
    BY <1>7, <2>4 DEF Wakes
  <2> QED BY <2>2, <2>4, <2>5, <2>6
<1> QED BY <1>3, <1>6, <1>7

(* What is said of drains holds throughout.                                *)
LEMMA DrainInductive == Spec => [](TypeInv /\ QueueInv /\ WorkInv /\ OnceInv /\ DrainInv)
<1>1. Init => DrainInv
  BY DEF Init, DrainInv, EventsAreDrains, DrainedAreDrains, NoWorkLeft, NotBack, NoneWillStart,
         MonitorsBehind, Drained, InDrain
<1>2. TypeInv /\ QueueInv /\ WorkInv /\ OnceInv /\ DrainInv /\ [Next]_vars /\ (TypeInv /\ QueueInv)' => DrainInv'
  BY EventsNext, NoWorkNext, NoneStartsNext, BehindNext DEF DrainInv
<1> QED BY <1>1, <1>2, OnceInductive, PTL DEF Spec

(* A drain whose event was set stops its child without work: it is asked     *)
(* again before its monitor is, and nobody but the monitor could have        *)
(* started the child in between (supervisor.py:393-446, 685-702).            *)
THEOREM DrainsStopIdle == ASSUME DrainedOnce PROVE Spec => DrainedIsIdle
<1> DEFINE A == \A o \in Ops :
        o \in drained /\ at[o] \in {"draining", "requeued"} /\ at'[o] = "inside"
            => inFlight[ask[o].on] = 0
<1>1. TypeInv /\ QueueInv /\ WorkInv /\ DrainInv /\ [Next]_vars => A
  <2> SUFFICES ASSUME TypeInv, QueueInv, WorkInv, DrainInv, [Next]_vars,
                      NEW o \in Ops, o \in drained, InDrain(o), at'[o] = "inside"
               PROVE  inFlight[ask[o].on] = 0
    BY DEF InDrain
  <2>1. CallStep(o) /\ AsksAllowed /\ NoWorkLeft
    BY CallSteps DEF WorkInv, DrainInv
  <2>2. status[ask[o].on] = "draining"
    BY <2>1 DEF CallStep, InDrain
  <2>3. ask[o].on \in Children /\ Drains(ask[o], ask[o].on) /\ ask[o] \in Requests[o]
    BY <2>1, DrainOfChild DEF Drains, AsksAllowed, Past
  <2>4. StartedOnce(ask[o].on)
    BY <2>3 DEF DrainedOnce
  <2> QED BY <2>1, <2>2, <2>4 DEF NoWorkLeft, Drained
<1>2. [][A]_vars => DrainedIsIdle
  BY DEF DrainedIsIdle
<1> QED BY <1>1, <1>2, DrainInductive, PTL DEF Spec
(***************************************************************************)
(* What shutdown_all leaves.  Whatever child still runs, the holder has it   *)
(* before itself.                                                          *)
(***************************************************************************)
Ahead(c) == \E i \in 1..Len(todo) : todo[i] = StopRunning(c)
ShutPlan ==
    \A o \in Ops : at[o] = "inside" /\ ask[o].do = "shutdown_all" =>
        \A c \in Children : Running(c) => Ahead(c)

\* A plan of shutdown_all has every child the supervisor has heard of.
LEMMA ShutdownPlansAll ==
    ASSUME NEW r, r.do = "shutdown_all", NEW plan \in Plans(r),
           NEW c \in Children, status[c] # "absent"
    PROVE  \E i \in 1..Len(plan) : plan[i] = StopRunning(c)
<1> DEFINE D == {d \in Children : status[d] # "absent"}
           S == {StopRunning(d) : d \in D}
           f == [d \in D |-> StopRunning(d)]
<1>1. plan \in SetToSeqs(S)
  BY DEF Plans
<1>2. StopRunning(c) \in S
  OBVIOUS
<1>3. IsFiniteSet(S)
  <2>1. IsFiniteSet(D)
    BY SupervisorAssumption, FS_Subset
  <2>2. f \in Surjection(D, S)
    BY DEF Surjection
  <2> HIDE DEF D, S, f
  <2> QED BY <2>1, <2>2, FS_Surjection
<1> HIDE DEF S
<1>4. Cardinality(S) \in Nat
  BY <1>3, FS_CardinalityType
<1>5. plan \in Injection(1..Cardinality(S), S)
  BY <1>1, <1>4 DEF SetToSeqs, Injection, IsInjective
<1>6. Cardinality(1..Cardinality(S)) = Cardinality(S)
  <2>1. Cardinality(1..Cardinality(S)) = IF 1 > Cardinality(S) THEN 0 ELSE Cardinality(S) - 1 + 1
    BY <1>4, FS_Interval
  <2> QED BY <1>4, <2>1
<1>7. plan \in Surjection(1..Cardinality(S), S)
  BY <1>3, <1>5, <1>6, FS_Injection
<1>8. Len(plan) = Cardinality(S)
  BY <1>4, <1>5 DEF Injection
<1> QED BY <1>2, <1>7, <1>8 DEF Surjection

\* A step of a shutdown_all keeps what runs ahead of it, and it returns when
\* there is nothing ahead any more.
LEMMA ShutdownSteps ==
    ASSUME TypeInv, QueueInv, WorkInv, ShutPlan, [Next]_vars, NEW o \in Ops,
           ask'[o].do = "shutdown_all", at[o] # "done", at'[o] \in {"inside", "done"}
    PROVE  /\ \A c \in Children : Running(c)' => Ahead(c)'
           /\ at'[o] = "done" => todo' = <<>> /\ victim' = None
<1> USE DEF child, procs, tasks, ops, mutex
<1>1. /\ AsksAllowed /\ CallStep(o) /\ PhaseFits /\ VictimIsStopped /\ StartsAreAsked /\ Cases
      /\ at \in [Ops -> Places]
  BY StepCases, CallSteps DEF WorkInv, TypeInv, TypeOK, Places
<1> DEFINE Goal == /\ \A c \in Children : Running(c)' => Ahead(c)'
                   /\ at'[o] = "done" => todo' = <<>> /\ victim' = None
<1>2. CASE at[o] = "inside"
  <2>1. /\ phase # "idle" /\ Holder = o /\ ask'[o] = ask[o]
        /\ \A p \in Procs : monitor[p] # "inside"
        /\ \A q \in Ops : at[q] = "inside" => q = o
    BY <1>1, <1>2, SupervisorAssumption DEF CallStep, QueueInv, HolderInside, Inside, Tasks, Holder
  <2>2. ~\E p \in Procs : Exec(p)
    <3> SUFFICES ASSUME NEW p \in Procs, Exec(p) PROVE FALSE
      OBVIOUS
    <3>1. Step.on \in Children /\ Planned(Step.on)
      BY <1>1, ExecFacts
    <3>2. Starts(ask[o], Step.on)
      BY <1>1, <2>1, <3>1 DEF StartsAreAsked
    <3> QED BY <2>1, <3>2 DEF Starts, Desired
  <2>3. \A c \in Children : StatusStep(c)
    BY <1>1, <2>2, StatusSteps
  <2>4. \A c \in Children : Running(c)' => Running(c)
    BY <2>3 DEF StatusStep, Running
  <2>5. \A c \in Children : Running(c) => Ahead(c)
    BY <1>2, <2>1 DEF ShutPlan
  <2>6. ASSUME todo' = todo, at'[o] = at[o] PROVE Goal
    BY <1>2, <2>4, <2>5, <2>6 DEF Ahead
  <2>7. ASSUME NEW queue, Advance(queue), status'[Step.on] # "running" PROVE Goal
    <3>1. /\ todo' = Tail(todo) /\ victim' = None /\ Len(todo) \in Nat \ {0}
          /\ Len(todo') = Len(todo) - 1
          /\ \A i \in 1..Len(todo') : todo'[i] = todo[i + 1]
          /\ todo' # <<>> => at' = at
      BY <2>1, <2>7, Advances
    <3>2. ASSUME NEW c \in Children, Running(c)' PROVE Ahead(c)'
      <4>1. PICK i \in 1..Len(todo) : todo[i] = StopRunning(c)
        BY <2>4, <2>5, <3>2 DEF Ahead
      <4>2. i # 1
        BY <2>7, <3>2, <4>1 DEF Step, StopRunning, Running
      <4>3. i - 1 \in 1..Len(todo') /\ (i - 1) + 1 = i
        BY <3>1, <4>2
      <4> QED BY <3>1, <4>1, <4>3 DEF Ahead
    <3> QED BY <1>2, <3>1, <3>2
  <2>8. ASSUME Passes PROVE Goal
    <3>1. Step.do # "start" /\ Advance(lock)
      <4>1. ASSUME Step.do = "start" PROVE FALSE
        <5>1. Step = Start(Step.on) /\ Step.on \in Children /\ Planned(Step.on)
          <6>1. Step \in Steps /\ todo \in Seq(Steps) /\ todo # <<>>
            BY <2>1, HolderWorks DEF TypeInv, TypeOK
          <6> QED BY <4>1, <6>1, StepIsStart DEF Planned, Step
        <5>2. Starts(ask[o], Step.on)
          BY <1>1, <2>1, <5>1 DEF StartsAreAsked
        <5> QED BY <2>1, <5>2 DEF Starts, Desired
      <4> QED BY <2>8, <4>1 DEF Passes
    <3>2. status'[Step.on] # "running"
      BY <1>1, <2>8, <3>1 DEF Passes, PhaseFits, Running
    <3> QED BY <2>7, <3>1, <3>2
  <2>9. ASSUME NEW c \in Children, Settles(c) PROVE Goal
    <3>1. status'[Step.on] # "running" /\ \E queue : Advance(queue)
      BY <2>9 DEF Settles, TypeInv, TypeOK
    <3> QED BY <2>7, <3>1
  <2>10. ASSUME NEW q \in Ops, DrainJoins(q) \/ \E r \in Requests[q] : CallJoins(q, r) PROVE Goal
    <3>1. q # o /\ todo' = todo /\ \E s : at' = [at EXCEPT ![q] = s]
      BY <1>2, <2>10 DEF DrainJoins, CallJoins, Joins
    <3> QED BY <1>1, <2>6, <3>1
  <2>11. ASSUME \/ \E p \in Procs : MonitorJoins(p) \/ Sees(p)
                \/ \E c \in Children : \/ ReaperJoins(c) \/ StopSignal(c) \/ ReaperLeaves(c)
                                       \/ BeginWork(c) \/ EndWork(c)
                \/ \E p \in Procs, code \in {"exit0", "exit1"} : Exits(p, code)
                \/ BeginStart \/ StopTimeout \/ UNCHANGED vars
         PROVE  Goal
    <3>1. UNCHANGED <<todo, at>>
      BY <2>11 DEF Joins, MonitorJoins, ReaperJoins, Sees, StopSignal, BeginWork, EndWork,
                   ReaperLeaves, Exits, BeginStart, StopTimeout, vars
    <3> QED BY <2>6, <3>1
  <2>12. ASSUME \/ \E q \in Ops : Closes(q)
                \/ \E q \in Ops : \E r \in Requests[q] : \E plan \in Plans(r) : Opens(q, r, plan)
                \/ \E p \in Procs : Wakes(p)
                \/ \E c \in Children : Reaps(c)
         PROVE  Goal
    BY <2>1, <2>12 DEF Opens, Closes, Wakes, Reaps, Idle
  <2> HIDE DEF Goal
  <2>13. Cases
    BY <1>1
  <2>14. Goal
    BY <2>2, <2>8, <2>9, <2>10, <2>11, <2>12, <2>13 DEF Cases
  <2> QED BY <2>14 DEF Goal
<1>3. CASE at[o] # "inside"
  <2>1. at[o] \in {"uncalled", "queued"} /\ at'[o] # at[o]
    BY <1>1, <1>3 DEF CallStep, TypeInv, Asked
  <2>2. ASSUME NEW q \in Ops, q # o, \E s : at' = [at EXCEPT ![q] = s] PROVE FALSE
    BY <1>1, <2>1, <2>2
  <2>3. ASSUME NEW r \in Requests[o], NEW plan \in Plans(r), Opens(o, r, plan) PROVE Goal
    <3>1. /\ phase = "idle" /\ todo' = plan /\ victim' = victim /\ Enter(o, r)
          /\ ask' = [ask EXCEPT ![o] = r]
          /\ at' = [at EXCEPT ![o] = IF r.do = "drain" /\ Running(r.on) THEN "draining"
                                     ELSE IF plan = <<>> THEN "done" ELSE "inside"]
      BY <2>3 DEF Opens, Called, Idle
    <3>2. r.do = "shutdown_all" /\ victim = None
      BY <1>1, <3>1 DEF VictimIsStopped, TypeInv, TypeOK
    <3>3. \A c \in Children : status'[c] = status[c]
      BY <3>1, <3>2 DEF Enter
    <3>4. \A c \in Children : Running(c)' => Ahead(c)'
      BY <3>1, <3>2, <3>3, ShutdownPlansAll DEF Running, Ahead
    <3>5. at'[o] = "done" => plan = <<>>
      BY <1>1, <3>1, <3>2
    <3> QED BY <3>1, <3>2, <3>4, <3>5
  <2>4. ASSUME NEW q \in Ops, NEW r \in Requests[q], NEW plan \in Plans(r), Opens(q, r, plan), q # o
        PROVE  FALSE
    <3>1. \E s : at' = [at EXCEPT ![q] = s]
      BY <2>4 DEF Opens, Called
    <3> QED BY <2>2, <2>4, <3>1
  <2>5. ASSUME NEW q \in Ops, \/ Closes(q) \/ DrainJoins(q) \/ \E r \in Requests[q] : CallJoins(q, r)
        PROVE  FALSE
    <3>1. CASE q # o
      <4>1. \E s : at' = [at EXCEPT ![q] = s]
        BY <2>5 DEF Closes, DrainJoins, CallJoins
      <4> QED BY <2>2, <3>1, <4>1
    <3>2. CASE q = o
      <4>1. at'[o] = "queued"
        BY <1>1, <2>1, <2>5, <3>2 DEF Closes, DrainJoins, CallJoins
      <4> QED BY <4>1
    <3> QED BY <3>1, <3>2
  <2>6. ASSUME Passes \/ (\E p \in Procs : Exec(p)) \/ \E c \in Children : Settles(c) PROVE FALSE
    <3>1. phase # "idle" /\ \E queue : Advance(queue)
      BY <2>6 DEF Passes, Exec, Settles
    <3>2. at'[o] = at[o]
      BY <1>3, <3>1, Advances
    <3> QED BY <2>1, <3>2
  <2>7. ASSUME \/ \E p \in Procs : MonitorJoins(p) \/ Sees(p) \/ Wakes(p)
               \/ \E c \in Children : \/ ReaperJoins(c) \/ StopSignal(c) \/ ReaperLeaves(c)
                                      \/ BeginWork(c) \/ EndWork(c) \/ Reaps(c)
               \/ \E p \in Procs, code \in {"exit0", "exit1"} : Exits(p, code)
               \/ BeginStart \/ StopTimeout \/ UNCHANGED vars
        PROVE  FALSE
    <3>1. at' = at
      BY <2>7 DEF MonitorJoins, ReaperJoins, Sees, Wakes, Reaps, StopSignal, BeginWork, EndWork,
                  ReaperLeaves, Exits, BeginStart, StopTimeout, vars
    <3> QED BY <2>1, <3>1
  <2> HIDE DEF Goal
  <2>8. Goal
    BY <1>1, <2>3, <2>4, <2>5, <2>6, <2>7 DEF Cases
  <2> QED BY <2>8 DEF Goal
<1> QED BY <1>2, <1>3

(* When shutdown_all returns, every child that still has a process is being   *)
(* drained: it passes over those, and everything else it has stopped, also   *)
(* what was started while it waited for the lock (supervisor.py:492-501).    *)
THEOREM ShutdownLeavesDrains ==
    ASSUME Careful, Unreaped PROVE Spec => ShutdownLeavesOnlyDraining
<1> DEFINE A == \A o \in Ops :
        at[o] # "done" /\ at'[o] = "done" /\ ask'[o].do = "shutdown_all"
            => \A p \in Procs : life'[p] = "up" => status'[of'[p]] = "draining"
<1>1. Init => ShutPlan
  BY DEF Init, ShutPlan
<1>2. TypeInv /\ QueueInv /\ WorkInv /\ ShutPlan /\ [Next]_vars => ShutPlan'
  <2> SUFFICES ASSUME TypeInv, QueueInv, WorkInv, ShutPlan, [Next]_vars, NEW o \in Ops,
                      at'[o] = "inside", ask'[o].do = "shutdown_all"
               PROVE  \A c \in Children : Running(c)' => Ahead(c)'
    BY DEF ShutPlan
  <2>1. CallStep(o)
    BY CallSteps DEF WorkInv
  <2>2. at[o] # "done"
    BY <2>1 DEF CallStep
  <2> QED BY <2>2, ShutdownSteps
<1>3. /\ TypeInv /\ QueueInv /\ WorkInv /\ ShutPlan /\ [Next]_vars
      /\ (WorkInv /\ LiveIsKnown)'
      => A
  <2> SUFFICES ASSUME TypeInv, QueueInv, WorkInv, ShutPlan, [Next]_vars, WorkInv', LiveIsKnown',
                      NEW o \in Ops, at[o] # "done", at'[o] = "done", ask'[o].do = "shutdown_all",
                      NEW p \in Procs, life'[p] = "up"
               PROVE  status'[of'[p]] = "draining"
    OBVIOUS
  <2>1. victim' = None /\ \A c \in Children : Running(c)' => Ahead(c)'
    BY ShutdownSteps
  <2>2. \A c \in Children : ~Running(c)'
    BY ShutdownSteps DEF Ahead
  <2>3. of'[p] \in Children
    BY DEF WorkInv, UpIsOwned
  <2> QED BY <2>1, <2>2, <2>3, SupervisorAssumption DEF LiveIsKnown, Running
<1>4. [][A]_vars => ShutdownLeavesOnlyDraining
  BY DEF ShutdownLeavesOnlyDraining
<1> QED BY <1>1, <1>2, <1>3, <1>4, WorkInductive, LiveProcessesKnown, PTL DEF Spec
=============================================================================

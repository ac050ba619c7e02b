--------------------------- MODULE NodeClientProofs ---------------------------
(***************************************************************************)
(* Theorems about a node written with the SDK and the broker around it.      *)
(*                                                                         *)
(* Every step of the composition is a step of Broker, so that the invariants  *)
(* proved of Broker hold here; what is added relates the two sides.          *)
(***************************************************************************)
EXTENDS NodeClient, CallProofs

(***************************************************************************)
(* Typing.  A stream is only opened with a session id that a registration    *)
(* has returned.                                                            *)
(***************************************************************************)
SessionKnown == api = "registered" \/ loop = "opening" => sid \in Sessions
NodeTypeInv == NodeTypeOK /\ SessionKnown

(* The client makes Core do nothing that Core does not do on its own.        *)
LEMMA NodeStepsAreBrokerSteps ==
    ASSUME NodeTypeInv, [NodeNext]_allVars
    PROVE  [Next]_vars
<1>1. CASE Program
  BY <1>1, MeAssumption
     DEF Program, Connect, Serve, Served, StopStream, StopTasks, Crash, Next, Registering
<1>2. CASE StreamTask
  <2>1. ASSUME NEW t \in Streams, Open(t) PROVE Next
    BY <2>1 DEF Open, NodeTypeInv, SessionKnown, Next, Streaming
  <2> QED BY <1>2, <2>1 DEF StreamTask, Greeted, Written, Read, LoopEnds, Next, Streaming
<1>3. CASE DispatchTasks
  BY <1>3 DEF DispatchTasks, Handle, EndQuietly, Respond, Becomes, Handled, Lost, Next, Responding
<1>4. CASE CoreAlone
  BY <1>4 DEF CoreAlone, Next, Streaming, Invoking, Governing
<1>5. CASE UNCHANGED allVars
  BY <1>5 DEF allVars
<1> QED BY <1>1, <1>2, <1>3, <1>4, <1>5 DEF NodeNext

\* The types hold at the start.
LEMMA NodeTypeInit == NodeInit => NodeTypeInv
<1> SUFFICES ASSUME NodeInit PROVE NodeTypeInv
  OBVIOUS
<1>1. <<>> \in Seq(Events \cup {Hello}) OBVIOUS
<1>2. task \in [Calls -> Working \cup {"none", "ended"}] /\ runs \in [Calls -> Nat]
  BY DEF NodeInit
<1> QED BY <1>1, <1>2 DEF NodeInit, NodeTypeInv, NodeTypeOK, SessionKnown

\* Every step keeps the types.
LEMMA NodeTypeNext ==
    ASSUME TypeInv, NodeTypeInv, [NodeNext]_allVars
    PROVE  NodeTypeInv'
<1> USE MeAssumption DEF NodeTypeInv, NodeTypeOK, SessionKnown, Working
<1>1. ASSUME NEW s \in Sessions, Connect(s) PROVE NodeTypeInv'
  BY <1>1 DEF Connect, TypeInv, TypeOK
<1>2. CASE Serve BY <1>2 DEF Serve
<1>3. CASE Served BY <1>3 DEF Served
<1>4. CASE StopStream BY <1>4 DEF StopStream
<1>5. CASE StopTasks BY <1>5 DEF StopTasks, Cancelled, Busy
<1>6. CASE Crash
  <2>1. <<>> \in Seq(Events \cup {Hello}) OBVIOUS
  <2>2. task' \in [Calls -> {"created", "handling", "notified", "responding"} \cup {"none", "ended"}]
    BY <1>6 DEF Crash, Cancelled
  <2> QED BY <1>6, <2>1, <2>2 DEF Crash
<1>7. ASSUME NEW t \in Streams, Open(t) PROVE NodeTypeInv'
  BY <1>7 DEF Open
<1>8. ASSUME NEW t \in Streams, NEW event \in Events \cup {Hello}, Heard(t, event)
      PROVE  NodeTypeInv'
  <2>1. Append(wire, event) \in Seq(Events \cup {Hello})
    OBVIOUS
  <2> QED BY <1>8, <2>1 DEF Heard
<1>9. ASSUME NEW t \in Streams, Written(t) PROVE holding[t] \in Events
  BY <1>9 DEF Written, StreamWritten, TypeInv, StreamsAttached
<1>10. CASE Read
  <2>1. Tail(wire) \in Seq(Events \cup {Hello})
    BY <1>10 DEF Read
  <2>2. /\ task' \in [Calls -> {"created", "handling", "notified", "responding"} \cup {"none", "ended"}]
        /\ runs' \in [Calls -> Nat]
    <3>1. CASE UNCHANGED <<task, runs>> BY <3>1
    <3>2. ASSUME NEW e, Dispatch(e)
          PROVE  /\ task' \in [Calls -> {"created", "handling", "notified", "responding"}
                                            \cup {"none", "ended"}]
                 /\ runs' \in [Calls -> Nat]
      <4>1. CASE e \in Calls BY <3>2, <4>1 DEF Dispatch
      <4>2. CASE e \notin Calls
        <5>1. task' = task /\ runs' = runs BY <3>2, <4>2 DEF Dispatch
        <5> QED BY <5>1
      <4> QED BY <4>1, <4>2
    <3> QED BY <1>10, <3>1, <3>2 DEF Read
  <2>3. ready' \in BOOLEAN
    BY <1>10 DEF Read
  <2> QED BY <1>10, <2>1, <2>2, <2>3 DEF Read
<1>11. CASE LoopEnds BY <1>11 DEF LoopEnds
<1>12. ASSUME NEW e \in Calls, Handle(e) \/ EndQuietly(e) \/ \E a \in Answers : Respond(e, a)
       PROVE  NodeTypeInv'
  BY <1>12 DEF Handle, EndQuietly, Respond, Becomes
<1>13. ASSUME NEW a \in Answers, Handled(a) \/ Lost(a) PROVE NodeTypeInv'
  BY <1>13 DEF Handled, Lost
<1>14. CASE CoreAlone BY <1>14 DEF CoreAlone, nodeVars
<1>15. CASE UNCHANGED allVars BY <1>15 DEF allVars, nodeVars
<1> HIDE DEF NodeTypeInv
<1> QED
  BY <1>1, <1>2, <1>3, <1>4, <1>5, <1>6, <1>7, <1>8, <1>9, <1>10, <1>11, <1>12, <1>13, <1>14,
     <1>15
  DEF NodeNext, Program, StreamTask, DispatchTasks, Greeted, Written

(* Whatever is proved of all behaviours of Broker is true of this one.       *)
THEOREM NodeKeepsBroker == NodeSpec => Spec
<1>1. NodeInit => Init /\ NodeTypeInv
  BY NodeTypeInit DEF NodeInit
<1>2. NodeTypeInv /\ [NodeNext]_allVars => [Next]_vars
  BY NodeStepsAreBrokerSteps
<1>3. TypeInv /\ NodeTypeInv /\ [NodeNext]_allVars => NodeTypeInv'
  BY NodeTypeNext
<1>4. TypeInv /\ NodeTypeInv /\ [NodeNext]_allVars => TypeInv'
  BY NodeStepsAreBrokerSteps, TypeNext
<1> QED BY <1>1, <1>2, <1>3, <1>4, TypeInit, PTL DEF NodeSpec, Spec

(* Every variable of the node keeps its type.                               *)
THEOREM NodeTypeCorrect == NodeSpec => []NodeTypeOK
<1>1. NodeInit => Init /\ NodeTypeInv
  BY NodeTypeInit DEF NodeInit
<1>2. TypeInv /\ NodeTypeInv /\ [NodeNext]_allVars => NodeTypeInv'
  BY NodeTypeNext
<1>3. TypeInv /\ NodeTypeInv /\ [NodeNext]_allVars => TypeInv'
  BY NodeStepsAreBrokerSteps, TypeNext
<1>4. NodeTypeInv => NodeTypeOK
  BY DEF NodeTypeInv
<1> QED BY <1>1, <1>2, <1>3, <1>4, TypeInit, PTL DEF NodeSpec

(***************************************************************************)
(* Stopping.  The stream task is gone before the dispatch tasks are           *)
(* cancelled, so nothing that could start one is left.                      *)
(***************************************************************************)
LEMMA StopNext ==
    ASSUME NodeTypeInv, StopIsQuiet, [NodeNext]_allVars
    PROVE  StopIsQuiet'
<1> USE DEF StopIsQuiet, Busy, Working, NodeTypeInv, NodeTypeOK
<1>1. ASSUME NEW s \in Sessions, Connect(s) PROVE StopIsQuiet'
  BY <1>1 DEF Connect
<1>2. CASE Serve \/ Served \/ StopStream BY <1>2 DEF Serve, Served, StopStream
<1>3. CASE StopTasks BY <1>3 DEF StopTasks, Cancelled
<1>4. CASE Crash BY <1>4 DEF Crash, Cancelled
<1>5. ASSUME NEW t \in Streams, Open(t) PROVE StopIsQuiet'
  BY <1>5 DEF Open
<1>6. ASSUME NEW t \in Streams, NEW event, Heard(t, event) PROVE StopIsQuiet'
  <2>1. via = t => api \notin {"new", "stopping"}
    BY <1>6, MeAssumption
  <2> QED BY <1>6, <2>1 DEF Heard
<1>7. CASE Read BY <1>7 DEF Read
<1>8. CASE LoopEnds BY <1>8 DEF LoopEnds
<1>9. ASSUME NEW e \in Calls, Handle(e) \/ EndQuietly(e) \/ \E a \in Answers : Respond(e, a)
      PROVE  StopIsQuiet'
  BY <1>9 DEF Handle, EndQuietly, Respond, Owes, Becomes
<1>10. ASSUME NEW a \in Answers, Handled(a) \/ Lost(a) PROVE StopIsQuiet'
  BY <1>10 DEF Handled, Lost
<1>11. CASE CoreAlone BY <1>11 DEF CoreAlone, nodeVars
<1>12. CASE UNCHANGED allVars BY <1>12 DEF allVars, nodeVars
<1> HIDE DEF StopIsQuiet
<1> QED
  BY <1>1, <1>2, <1>3, <1>4, <1>5, <1>6, <1>7, <1>8, <1>9, <1>10, <1>11, <1>12
  DEF NodeNext, Program, StreamTask, DispatchTasks, Greeted, Written

(* A stopped or dead node does nothing more, and no dispatch begins while it  *)
(* is being stopped, wherever its tasks were when stop() was called.        *)
THEOREM StoppedIsQuiet == NodeSpec => []StopIsQuiet
<1>1. NodeInit => Init /\ NodeTypeInv
  BY NodeTypeInit DEF NodeInit
<1>2. NodeInit => StopIsQuiet
  BY DEF NodeInit, StopIsQuiet, Busy, Working
<1>3. TypeInv /\ NodeTypeInv /\ [NodeNext]_allVars => NodeTypeInv'
  BY NodeTypeNext
<1>4. TypeInv /\ NodeTypeInv /\ [NodeNext]_allVars => TypeInv'
  BY NodeStepsAreBrokerSteps, TypeNext
<1>5. NodeTypeInv /\ StopIsQuiet /\ [NodeNext]_allVars => StopIsQuiet'
  BY StopNext
<1> QED BY <1>1, <1>2, <1>3, <1>4, <1>5, TypeInit, PTL DEF NodeSpec

(***************************************************************************)
(* Dispatching.  What the client has to read was written once by Core        *)
(* (DeliveryInv), so an envelope is on the wire, or was dispatched, once, and *)
(* never both.                                                              *)
(***************************************************************************)
OnWire(e) == \E k \in 1..Len(wire) : wire[k] = Deliver(e)
HandledInv ==
    /\ \A k \in 1..Len(wire) : wire[k] # Close
    /\ \A e \in Calls :
          /\ \A j, k \in 1..Len(wire) : wire[j] = Deliver(e) /\ wire[k] = Deliver(e) => j = k
          /\ OnWire(e) => runs[e] = 0 /\ handed[e.id] # 0
          /\ runs[e] # 0 => runs[e] = 1 /\ handed[e.id] # 0

\* What can be told apart on the wire.
LEMMA Hellos ==
    Hello # Reloaded /\ Hello # Close /\ \A e \in Calls : Deliver(e) # Hello
<1>1. Hello.type = "hello" BY DEF Hello
<1>2. Close.type = "_close" /\ Reloaded.type = "manifest_reloaded"
  BY DEF Close, Reloaded
<1>3. \A e \in Calls : Deliver(e).type = "deliver"
  BY DEF Deliver
<1> QED BY <1>1, <1>2, <1>3

(* What was handed to a stream stays handed.                                *)
LEMMA HandedGrows ==
    ASSUME TypeInv, [Next]_vars, NEW i \in Ids, handed[i] # 0
    PROVE  handed'[i] # 0
<1>1. CASE handed' = handed
  BY <1>1
<1>2. ASSUME NEW t \in Streams, StreamWritten(t) PROVE handed'[i] # 0
  BY <1>2 DEF StreamWritten, TypeInv, TypeOK
<1> QED BY <1>1, <1>2, DeliverySteps
        DEF Marked, Routed, StreamOpen, StreamTake, StreamPutBack

(* What an envelope was written to: one handler held it, nobody had it.      *)
LEMMA WrittenOnce ==
    ASSUME TypeInv, DeliveryInv, NEW t \in Streams, StreamWritten(t)
    PROVE  /\ holding[t] \in Events \ {Close}
           /\ \A e \in Calls : holding[t] = Deliver(e) =>
                 handed[e.id] = 0 /\ handed'[e.id] # 0
<1>1. holding[t] \in Events \ {Close}
  BY DEF StreamWritten, TypeInv, StreamsAttached, DeliveryInv, NoMarkerHeld
<1>2. ASSUME NEW e \in Calls, holding[t] = Deliver(e)
      PROVE  handed[e.id] = 0 /\ handed'[e.id] # 0
  <2>1. e.id \in Ids /\ InHand(e.id, t)
    BY <1>2, Markers, EnvelopesAssumption DEF InHand
  <2>2. handed[e.id] = 0
    BY <2>1 DEF DeliveryInv, Delivered
  <2>3. handed' = [handed EXCEPT ![e.id] = @ + 1]
    BY <1>2, Markers DEF StreamWritten
  <2> QED BY <2>1, <2>2, <2>3 DEF TypeInv, TypeOK
<1> QED BY <1>1, <1>2

(* What is on the wire after something was written to it or read from it.    *)
LEMMA WireAppended ==
    ASSUME NodeTypeInv, NEW event \in Events \cup {Hello}, wire' = Append(wire, event)
    PROVE  /\ Len(wire) \in Nat /\ Len(wire') = Len(wire) + 1
           /\ wire'[Len(wire) + 1] = event
           /\ \A k \in 1..Len(wire) : wire'[k] = wire[k]
BY DEF NodeTypeInv, NodeTypeOK

\* Reading the wire moves the rest one place forward.
LEMMA WireRead ==
    ASSUME NodeTypeInv, wire # <<>>, wire' = Tail(wire)
    PROVE  /\ 1 \in 1..Len(wire) /\ Head(wire) = wire[1]
           /\ \A k \in 1..Len(wire') : /\ k + 1 \in 1..Len(wire)
                                       /\ wire'[k] = wire[k + 1]
BY DEF NodeTypeInv, NodeTypeOK

\* Every step keeps what was handled in line with what was delivered.
LEMMA HandledNext ==
    ASSUME TypeInv, DeliveryInv, NodeTypeInv, HandledInv, [NodeNext]_allVars
    PROVE  HandledInv'
<1>1. \A i \in Ids : handed[i] # 0 => handed'[i] # 0
  BY HandedGrows, NodeStepsAreBrokerSteps
<1>2. ASSUME runs' = runs, wire' = wire \/ wire' = <<>> PROVE HandledInv'
  BY <1>1, <1>2, EnvelopesAssumption DEF HandledInv, OnWire
<1>3. ASSUME NEW t \in Streams, NEW event \in (Events \cup {Hello}) \ {Close}, Heard(t, event),
             \A e \in Calls : event = Deliver(e) => handed[e.id] = 0 /\ handed'[e.id] # 0
      PROVE  HandledInv'
  <2>1. runs' = runs /\ (wire' = wire \/ wire' = Append(wire, event))
    BY <1>3 DEF Heard
  <2>2. CASE wire' = Append(wire, event)
    <3>1. /\ Len(wire) \in Nat /\ Len(wire') = Len(wire) + 1
          /\ wire'[Len(wire) + 1] = event
          /\ \A k \in 1..Len(wire) : wire'[k] = wire[k]
      BY <2>2, WireAppended
    <3>2. \A k \in 1..Len(wire') : wire'[k] # Close
      BY <1>3, <3>1 DEF HandledInv
    <3>3. ASSUME NEW e \in Calls
          PROVE  /\ \A j, k \in 1..Len(wire') :
                       wire'[j] = Deliver(e) /\ wire'[k] = Deliver(e) => j = k
                 /\ OnWire(e)' => runs'[e] = 0 /\ handed'[e.id] # 0
                 /\ runs'[e] # 0 => runs'[e] = 1 /\ handed'[e.id] # 0
      <4>1. event = Deliver(e) => ~OnWire(e) /\ runs[e] = 0 /\ handed'[e.id] # 0
        BY <1>3 DEF HandledInv
      <4>2. \A k \in 1..Len(wire') : wire'[k] = Deliver(e) =>
               \/ k \in 1..Len(wire) /\ wire[k] = Deliver(e)
               \/ k = Len(wire) + 1 /\ event = Deliver(e)
        BY <3>1
      <4>3. \A j, k \in 1..Len(wire') : wire'[j] = Deliver(e) /\ wire'[k] = Deliver(e) => j = k
        BY <4>1, <4>2 DEF HandledInv, OnWire
      <4>4. OnWire(e)' => OnWire(e) \/ event = Deliver(e)
        BY <4>2 DEF OnWire
      <4> QED BY <1>1, <2>1, <4>1, <4>3, <4>4, EnvelopesAssumption DEF HandledInv
    <3> QED BY <3>2, <3>3 DEF HandledInv
  <2> QED BY <1>2, <2>1, <2>2
<1>4. ASSUME NEW t \in Streams, Written(t) PROVE HandledInv'
  BY <1>3, <1>4, WrittenOnce DEF Written
<1>5. ASSUME NEW t \in Streams, Greeted(t) PROVE HandledInv'
  BY <1>3, <1>5, Hellos DEF Greeted
<1>6. CASE Read
  <2>1. /\ 1 \in 1..Len(wire) /\ Head(wire) = wire[1]
        /\ \A k \in 1..Len(wire') : k + 1 \in 1..Len(wire) /\ wire'[k] = wire[k + 1]
        /\ wire[1] \in (Events \cup {Hello}) \ {Close}
        /\ handed' = handed
    BY <1>6, WireRead DEF Read, HandledInv, NodeTypeInv, NodeTypeOK, vars, streams
  <2>2. \A k \in 1..Len(wire') : wire'[k] # Close
    BY <2>1 DEF HandledInv
  <2>3. ASSUME NEW e \in Calls
        PROVE  /\ \A j, k \in 1..Len(wire') :
                     wire'[j] = Deliver(e) /\ wire'[k] = Deliver(e) => j = k
               /\ OnWire(e)' => OnWire(e) /\ wire[1] # Deliver(e)
    BY <2>1 DEF HandledInv, OnWire
  <2>4. ASSUME NEW e \in Calls
        PROVE  runs'[e] = IF wire[1] = Deliver(e) THEN runs[e] + 1 ELSE runs[e]
    <3>1. CASE wire[1] \in {Hello, Reloaded}
      BY <1>6, <2>1, <3>1, Hellos, Markers DEF Read
    <3>2. CASE wire[1] \notin {Hello, Reloaded}
      <4>1. PICK c \in Calls : wire[1] = Deliver(c)
        BY <2>1, <3>2 DEF Events
      <4>2. runs' = [runs EXCEPT ![c] = @ + 1]
        BY <1>6, <2>1, <3>2, <4>1, Markers DEF Read, Dispatch
      <4>3. Deliver(c) = Deliver(e) => c = e
        BY Markers
      <4> QED BY <4>1, <4>2, <4>3 DEF NodeTypeInv, NodeTypeOK
    <3> QED BY <3>1, <3>2
  <2>5. ASSUME NEW e \in Calls
        PROVE  /\ OnWire(e)' => runs'[e] = 0 /\ handed'[e.id] # 0
               /\ runs'[e] # 0 => runs'[e] = 1 /\ handed'[e.id] # 0
    <3>1. wire[1] = Deliver(e) => OnWire(e)
      BY <2>1 DEF OnWire
    <3> QED BY <2>1, <2>3, <2>4, <3>1 DEF HandledInv
  <2> QED BY <2>2, <2>3, <2>5 DEF HandledInv
<1>7. CASE Program
  BY <1>2, <1>7 DEF Program, Connect, Serve, Served, StopStream, StopTasks, Crash
<1>8. ASSUME NEW t \in Streams, Open(t) PROVE HandledInv'
  BY <1>2, <1>8 DEF Open
<1>9. CASE LoopEnds BY <1>2, <1>9 DEF LoopEnds
<1>10. CASE DispatchTasks
  BY <1>2, <1>10 DEF DispatchTasks, Handle, EndQuietly, Respond, Becomes, Handled, Lost
<1>11. CASE CoreAlone BY <1>2, <1>11 DEF CoreAlone, nodeVars
<1>12. CASE UNCHANGED allVars BY <1>2, <1>12 DEF allVars, nodeVars
<1> QED BY <1>4, <1>5, <1>6, <1>7, <1>8, <1>9, <1>10, <1>11, <1>12 DEF NodeNext, StreamTask

(* The invariants of the broker that these theorems use, together.          *)
BrokerInv == TypeInv /\ EdgeInv /\ LookupInv /\ DeliveryInv /\ SourceInv

\* The broker's invariants hold at the start of the composition.
LEMMA BrokerInvInit == NodeInit => BrokerInv
BY TypeInit, EdgeInit, LookupInit, DeliveryInit, SourceInit DEF NodeInit, BrokerInv

\* Every step of the composition keeps the broker's invariants.
LEMMA BrokerInvNext ==
    ASSUME NeverForgets, BrokerInv, NodeTypeInv, [NodeNext]_allVars
    PROVE  BrokerInv'
BY NodeStepsAreBrokerSteps, TypeNext, EdgeNext, LookupNext, DeliveryNext, SourceNext
   DEF BrokerInv

(* If Core's nonce memory forgets no id, no envelope is dispatched twice: not  *)
(* by a put-back, a replaced session, a second stream, or a node that died     *)
(* and came back.                                                           *)
THEOREM DispatchedOnce ==
    ASSUME NeverForgets
    PROVE  NodeSpec => []HandledOnce
<1>1. NodeInit => BrokerInv /\ NodeTypeInv
  BY BrokerInvInit, NodeTypeInit
<1>2. NodeInit => HandledInv
  BY DEF NodeInit, HandledInv, OnWire
<1>3. BrokerInv /\ NodeTypeInv /\ [NodeNext]_allVars => BrokerInv'
  BY BrokerInvNext
<1>4. BrokerInv /\ NodeTypeInv /\ [NodeNext]_allVars => NodeTypeInv'
  BY NodeTypeNext DEF BrokerInv
<1>5. BrokerInv /\ NodeTypeInv /\ HandledInv /\ [NodeNext]_allVars => HandledInv'
  BY HandledNext DEF BrokerInv
<1>6. NodeTypeInv /\ HandledInv => HandledOnce
  BY DEF HandledInv, HandledOnce, NodeTypeInv, NodeTypeOK
<1> QED BY <1>1, <1>2, <1>3, <1>4, <1>5, <1>6, PTL DEF NodeSpec

(***************************************************************************)
(* Answering.  The dispatch that posted a response is that of an envelope    *)
(* some request has sent under the id the response names; no two requests    *)
(* have sent that id, so it is the envelope of the call that is decided.      *)
(***************************************************************************)
AnswerInv ==
    /\ \A e \in Calls : /\ task[e] # "none" => runs[e] # 0
                        /\ e \in finished => runs[e] # 0
                        /\ runs[e] # 0 \/ OnWire(e) => Source(e)
    /\ \A a \in inflight : \E e \in finished : a.corr = e.id
    /\ \A r \in Reqs : /\ fut[r] = "result" => env[r] \in finished
                       /\ reply[r] = "answered" => fut[r] = "result"

(* Only a response that Core handles decides a call as answered.             *)
LEMMA ResultsAreHandled ==
    ASSUME TypeInv, [NodeNext]_allVars, NEW r \in Reqs, fut[r] # "result", fut'[r] = "result"
    PROVE  \E a \in inflight : Decides(a, r) /\ env' = env
<1> USE DEF TypeInv, TypeOK
<1>1. ASSUME UNCHANGED fut PROVE FALSE
  BY <1>1
<1>2. ASSUME NEW s \in Sessions, Connect(s) PROVE FALSE
  BY <1>1, <1>2 DEF Connect, Register, calls
<1>3. CASE UNCHANGED vars BY <1>1, <1>3 DEF vars, calls
<1>4. CASE Program
  BY <1>2, <1>3, <1>4 DEF Program, Serve, Served, StopStream, StopTasks, Crash
<1>5. CASE StreamTask
  BY <1>1, <1>3, <1>5 DEF StreamTask, Open, Greeted, Written, Read, LoopEnds, StreamOpen,
                          StreamGreeted, StreamWritten, calls
<1>6. ASSUME NEW a \in Answers, Handled(a)
      PROVE  \E x \in inflight : Decides(x, r) /\ env' = env
  BY <1>1, <1>6 DEF Handled, RespondUnmatched, RespondAccepted, calls
<1>7. CASE DispatchTasks
  BY <1>3, <1>6, <1>7 DEF DispatchTasks, Handle, EndQuietly, Respond, Becomes, Lost
<1>8. ASSUME NEW q \in Reqs, NEW e \in Calls,
             \/ InvokeDenied(q, e, TRUE) \/ InvokeNotify(q, e) \/ InvokeCall(q, e)
             \/ CoreReload(q, e)
      PROVE  FALSE
  <2>1. CASE CoreReload(q, e)
    <3>1. Reload(decl, disk) BY <2>1 DEF CoreReload
    <3>2. CASE disk.broken BY <1>1, <3>1, <3>2 DEF Reload
    <3>3. CASE ~disk.broken BY <3>1, <3>3 DEF Reload, RevokeCalls
    <3> QED BY <3>2, <3>3
  <2>2. CASE InvokeDenied(q, e, TRUE) \/ InvokeNotify(q, e)
    BY <1>1, <2>2 DEF InvokeDenied, InvokeNotify
  <2>3. CASE InvokeCall(q, e) BY <2>3 DEF InvokeCall
  <2> QED BY <1>8, <2>1, <2>2, <2>3
<1>9. CASE CoreAlone
  <2>1. CASE \E t \in Streams : \/ StreamTake(t) \/ StreamPutBack(t)
                                \/ StreamBlocked(t) \/ StreamDropped(t)
    BY <1>1, <2>1 DEF StreamTake, StreamPutBack, StreamBlocked, StreamDropped, calls
  <2>2. CASE Deciding BY <2>2 DEF Deciding, Expire, Resume, ResumedWith
  <2>3. CASE \E m \in HandEdits : EditManifestFile(m)
    BY <1>1, <2>3 DEF EditManifestFile, calls
  <2> QED BY <1>8, <1>9, <2>1, <2>2, <2>3 DEF CoreAlone
<1>10. CASE UNCHANGED allVars BY <1>3, <1>10 DEF allVars
<1> QED BY <1>4, <1>5, <1>7, <1>9, <1>10 DEF NodeNext

(* What a step may add to the node's side: a task by dispatching what was on   *)
(* the wire, a response by a task, something to read by a stream handler.    *)
NodeSide ==
    /\ \A e \in Calls :
          /\ task'[e] # "none" => task[e] # "none" \/ runs'[e] # 0
          /\ runs[e] # 0 => runs'[e] # 0
          /\ e \in finished' => e \in finished \/ task[e] # "none"
          /\ runs'[e] # 0 => runs[e] # 0 \/ OnWire(e)
          /\ OnWire(e)' => OnWire(e) \/ OnTheWay(e)
    /\ finished \subseteq finished'
    /\ \A a \in inflight' : a \in inflight \/ \E e \in finished' : a.corr = e.id

\* The steps by what they do on the side of the node.
LEMMA NodeSideSteps ==
    ASSUME TypeInv, NodeTypeInv, HandledInv, [NodeNext]_allVars
    PROVE  NodeSide
<1> USE DEF NodeSide
<1>1. ASSUME wire' = wire \/ wire' = <<>>, UNCHANGED <<runs, finished>>,
             inflight' \subseteq inflight,
             \A e \in Calls : task'[e] # "none" => task[e] # "none"
      PROVE  NodeSide
  BY <1>1 DEF OnWire
<1>2. ASSUME NEW t \in Streams, NEW event \in Events \cup {Hello}, Heard(t, event),
             event = Hello \/ event = holding[t]
      PROVE  NodeSide
  <2>1. ASSUME NEW e \in Calls, OnWire(e)' PROVE OnWire(e) \/ OnTheWay(e)
    <3>1. CASE wire' = wire BY <2>1, <3>1 DEF OnWire
    <3>2. CASE wire' = Append(wire, event)
      <4>1. /\ Len(wire) \in Nat /\ Len(wire') = Len(wire) + 1
            /\ wire'[Len(wire) + 1] = event
            /\ \A k \in 1..Len(wire) : wire'[k] = wire[k]
        BY <3>2, WireAppended
      <4>2. OnWire(e) \/ event = Deliver(e)
        BY <2>1, <4>1 DEF OnWire
      <4> QED BY <1>2, <4>2, Hellos DEF OnTheWay
    <3> QED BY <1>2, <3>1, <3>2 DEF Heard
  <2> QED BY <1>2, <2>1 DEF Heard
<1>3. ASSUME NEW t \in Streams, Written(t) PROVE NodeSide
  <2>1. holding[t] \in Events
    BY <1>3 DEF Written, StreamWritten, TypeInv, StreamsAttached
  <2> QED BY <1>2, <1>3, <2>1 DEF Written
<1>4. ASSUME NEW t \in Streams, Greeted(t) PROVE NodeSide
  BY <1>2, <1>4 DEF Greeted
<1>5. CASE Read
  <2>1. /\ 1 \in 1..Len(wire) /\ Head(wire) = wire[1]
        /\ \A k \in 1..Len(wire') : k + 1 \in 1..Len(wire) /\ wire'[k] = wire[k + 1]
        /\ wire[1] \in (Events \cup {Hello}) \ {Close}
    BY <1>5, WireRead DEF Read, HandledInv, NodeTypeInv, NodeTypeOK
  <2>2. \A e \in Calls : OnWire(e)' => OnWire(e)
    BY <2>1 DEF OnWire
  <2>3. CASE wire[1] \in {Hello, Reloaded}
    BY <1>5, <2>1, <2>2, <2>3 DEF Read
  <2>4. CASE wire[1] \notin {Hello, Reloaded}
    <3>1. PICK c \in Calls : wire[1] = Deliver(c)
      BY <2>1, <2>4 DEF Events
    <3>2. /\ task' = [task EXCEPT ![c] = "created"]
          /\ runs' = [runs EXCEPT ![c] = @ + 1]
          /\ UNCHANGED <<inflight, finished>>
      BY <1>5, <2>1, <2>4, <3>1, Markers DEF Read, Dispatch
    <3>3. OnWire(c)
      BY <2>1, <3>1 DEF OnWire
    <3>4. ASSUME NEW e \in Calls, e # c
          PROVE  runs'[e] = runs[e] /\ task'[e] = task[e]
      BY <3>2, <3>4 DEF NodeTypeInv, NodeTypeOK
    <3>5. runs'[c] # 0
      <4>1. runs \in [Calls -> Nat]
        BY DEF NodeTypeInv, NodeTypeOK
      <4>2. runs'[c] = runs[c] + 1
        BY <3>2, <4>1
      <4> QED BY <4>1, <4>2
    <3>6. ASSUME NEW e \in Calls
          PROVE  /\ task'[e] # "none" => task[e] # "none" \/ runs'[e] # 0
                 /\ runs[e] # 0 => runs'[e] # 0
                 /\ runs'[e] # 0 => runs[e] # 0 \/ OnWire(e)
      <4>1. CASE e = c
        BY <3>3, <3>5, <4>1
      <4>2. CASE e # c
        <5>1. runs'[e] = runs[e] /\ task'[e] = task[e]
          BY <3>4, <4>2
        <5> QED BY <5>1
      <4> QED BY <4>1, <4>2
    <3>7. inflight' = inflight /\ finished' = finished
      BY <3>2
    <3> HIDE DEF NodeSide
    <3>8. ASSUME NEW e \in Calls
          PROVE  /\ task'[e] # "none" => task[e] # "none" \/ runs'[e] # 0
                 /\ runs[e] # 0 => runs'[e] # 0
                 /\ e \in finished' => e \in finished \/ task[e] # "none"
                 /\ runs'[e] # 0 => runs[e] # 0 \/ OnWire(e)
                 /\ OnWire(e)' => OnWire(e) \/ OnTheWay(e)
      <4>1. e \in finished' => e \in finished
        BY <3>7
      <4>2. OnWire(e)' => OnWire(e)
        BY <2>2
      <4> QED BY <3>6, <4>1, <4>2
    <3>9. /\ finished \subseteq finished'
          /\ \A a \in inflight' : a \in inflight \/ \E e \in finished' : a.corr = e.id
      BY <3>7
    <3> QED BY <3>8, <3>9, Zenon DEF NodeSide
  <2> QED BY <2>3, <2>4
<1>6. CASE Program
  BY <1>1, <1>6 DEF Program, Connect, Serve, Served, StopStream, StopTasks, Crash, Cancelled,
                    Busy, Working
<1>7. ASSUME NEW t \in Streams, Open(t) PROVE NodeSide
  BY <1>1, <1>7 DEF Open
<1>8. CASE LoopEnds BY <1>1, <1>8 DEF LoopEnds
<1>9. ASSUME NEW e \in Calls, Handle(e) \/ EndQuietly(e) PROVE NodeSide
  BY <1>1, <1>9 DEF Handle, EndQuietly, Becomes, NodeTypeInv, NodeTypeOK
<1>10. ASSUME NEW e \in Calls, NEW a \in Answers, Respond(e, a) PROVE NodeSide
  BY <1>10 DEF Respond, Owes, Becomes, NodeTypeInv, NodeTypeOK, OnWire
<1>11. ASSUME NEW a \in Answers, Handled(a) \/ Lost(a) PROVE NodeSide
  BY <1>1, <1>11 DEF Handled, Lost
<1>12. CASE CoreAlone BY <1>1, <1>12 DEF CoreAlone, nodeVars
<1>13. CASE UNCHANGED allVars BY <1>1, <1>13 DEF allVars, nodeVars
<1> HIDE DEF NodeSide
<1> QED
  BY <1>3, <1>4, <1>5, <1>6, <1>7, <1>8, <1>9, <1>10, <1>11, <1>12, <1>13
  DEF NodeNext, StreamTask, DispatchTasks

\* Every step keeps each answer with the dispatch it came from.
LEMMA AnswerNext ==
    ASSUME BrokerInv, NodeTypeInv, HandledInv, AnswerInv, [NodeNext]_allVars
    PROVE  AnswerInv'
<1> USE DEF BrokerInv
<1>1. [Next]_vars
  BY NodeStepsAreBrokerSteps
<1>2. NodeSide
  BY NodeSideSteps
<1>3. ASSUME NEW e \in Calls
      PROVE  /\ task'[e] # "none" => runs'[e] # 0
             /\ e \in finished' => runs'[e] # 0
             /\ runs'[e] # 0 \/ OnWire(e)' => Source(e)'
  <2>1. Source(e) => Source(e)'
    BY <1>1, SentStays DEF Source
  <2>2. OnTheWay(e) => Source(e)
    BY DEF SourceInv
  <2> QED BY <1>2, <2>1, <2>2 DEF AnswerInv, NodeSide
<1>4. \A a \in inflight' : \E e \in finished' : a.corr = e.id
  BY <1>2 DEF AnswerInv, NodeSide
<1>5. ASSUME NEW r \in Reqs, fut'[r] = "result" PROVE env'[r] \in finished'
  <2>1. CASE fut[r] = "result"
    <3>1. env'[r] = env[r] BY <1>1, <2>1, SentStays DEF Sent
    <3> QED BY <1>2, <2>1, <3>1 DEF AnswerInv, NodeSide
  <2>2. CASE fut[r] # "result"
    <3>1. PICK a \in inflight : Decides(a, r) /\ env' = env
      BY <1>5, <2>2, ResultsAreHandled
    <3>2. PICK e \in finished : a.corr = e.id
      BY <3>1 DEF AnswerInv
    <3>3. e \in Calls
      BY DEF NodeTypeInv, NodeTypeOK
    <3>4. PICK q \in Reqs : Sent(q) /\ env[q] = e
      BY <3>3 DEF AnswerInv, Source
    <3>5. Sent(r) /\ env[r].id = a.corr
      BY <3>1, <3>2, <3>3, EnvelopesAssumption DEF Decides, Sent, EdgeInv, PendingAsked
    <3>6. q = r
      BY <3>2, <3>4, <3>5 DEF SourceInv, SentDistinct
    <3> QED BY <1>2, <3>1, <3>4, <3>6 DEF NodeSide
  <2> QED BY <2>1, <2>2
<1>6. ASSUME NEW r \in Reqs, reply'[r] = "answered" PROVE fut'[r] = "result"
  BY <1>1, <1>6, CallSteps DEF CallStep, Asks, Decided, Tells, Rests, CoreReplies, AnswerInv
<1> QED BY <1>3, <1>4, <1>5, <1>6 DEF AnswerInv

(* If Core's nonce memory forgets no id, a caller that is told `answered` was  *)
(* answered by the one dispatch of its own envelope, whatever has become of    *)
(* the node, its sessions and its streams since.                            *)
THEOREM AnsweredByItsDispatch ==
    ASSUME NeverForgets
    PROVE  NodeSpec => []AnsweredWasHandled
<1>1. NodeInit => BrokerInv /\ NodeTypeInv
  BY BrokerInvInit, NodeTypeInit
<1>2. NodeInit => HandledInv
  BY DEF NodeInit, HandledInv, OnWire
<1>3. NodeInit => AnswerInv
  BY NoneAssumption DEF NodeInit, Init, AnswerInv, OnWire, Outcomes
<1>4. BrokerInv /\ NodeTypeInv /\ [NodeNext]_allVars => BrokerInv'
  BY BrokerInvNext
<1>5. BrokerInv /\ NodeTypeInv /\ [NodeNext]_allVars => NodeTypeInv'
  BY NodeTypeNext DEF BrokerInv
<1>6. BrokerInv /\ NodeTypeInv /\ HandledInv /\ [NodeNext]_allVars => HandledInv'
  BY HandledNext DEF BrokerInv
<1>7. BrokerInv /\ NodeTypeInv /\ HandledInv /\ AnswerInv /\ [NodeNext]_allVars => AnswerInv'
  BY AnswerNext
<1>8. NodeTypeInv /\ HandledInv /\ AnswerInv => AnsweredWasHandled
  BY DEF HandledInv, AnswerInv, AnsweredWasHandled, NodeTypeInv, NodeTypeOK
<1> QED BY <1>1, <1>2, <1>3, <1>4, <1>5, <1>6, <1>7, <1>8, PTL DEF NodeSpec
=============================================================================

------------------------------- MODULE Fanout -------------------------------
(***************************************************************************)
(* Fan-out of events to SSE clients through bounded queues: Core's          *)
(* /v0/admin/stream with its envelope tail, and the inspectors' SSEHub with *)
(* serve_sse.  The two loops differ in when they copy the backlog and in    *)
(* what is in it, so `flavour` says which one this behaviour is of.         *)
(*                                                                         *)
(* Producers never wait: an event goes to every subscribed queue by         *)
(* put_nowait and is dropped for whoever is full.  A client's handler may   *)
(* be suspended in any of its writes, and a write may fail; a heartbeat     *)
(* that fails ends it the same way and changes nothing otherwise.           *)
(***************************************************************************)
EXTENDS Integers, Sequences, FiniteSets, Functions

CONSTANTS
    Clients,        \* SSE connections
    QueueMax,       \* maxsize of a client's queue
    TailMax,        \* ENVELOPE_TAIL_MAX; for the hub, the producer's buffer
    EventMax        \* bound: how many events are emitted

ASSUME FanoutAssumption ==
    QueueMax \in Nat \ {0} /\ TailMax \in Nat /\ EventMax \in Nat

VARIABLES
    flavour,        \* "admin" or "hub"
    kinds,          \* history: kinds[e] is the kind of the e-th event
    tail,           \* envelope_tail, or the buffer `replay` reads
    stage,          \* where each client's handler is
    queue,          \* its queue, while it is subscribed
    todo,           \* what is left of its copy of the backlog
    inhand,         \* the event taken from the queue and not yet written
    got,            \* history: what this connection was sent
    joined,         \* history: how many events preceded its subscription
    copied,         \* history: and its copy of the backlog
    resumed,        \* history: the Last-Event-ID that was found, or 0
    lossy           \* history: an event was dropped for it
history == <<joined, copied, resumed, lossy>>
clientVars == <<stage, queue, todo, inhand, got, history>>
vars == <<flavour, kinds, tail, clientVars>>

Stages == {"out", "greeting", "replaying", "live"}
Subscribed == {c \in Clients : stage[c] # "out"}
Emitted == Len(kinds)

TypeOK ==
    /\ flavour \in {"admin", "hub"}
    /\ kinds \in Seq({"envelope", "supervisor"})
    /\ \A i \in 1 .. Len(tail) : tail[i] \in 1 .. Emitted
    /\ Len(tail) <= TailMax
    /\ stage \in [Clients -> Stages]
    /\ \A c \in Clients :
          /\ Len(queue[c]) <= QueueMax /\ Len(inhand[c]) <= 1
          /\ joined[c] \in 0 .. Emitted /\ resumed[c] \in 0 .. Emitted
          /\ stage[c] = "out" => queue[c] = <<>> /\ inhand[c] = <<>>
          /\ todo[c] # <<>> => stage[c] = "replaying"
          /\ lossy[c] \in BOOLEAN

Init ==
    /\ flavour \in {"admin", "hub"}
    /\ kinds = <<>> /\ tail = <<>>
    /\ stage = [c \in Clients |-> "out"]
    /\ queue = [c \in Clients |-> <<>>]
    /\ todo = [c \in Clients |-> <<>>]
    /\ inhand = [c \in Clients |-> <<>>]
    /\ got = [c \in Clients |-> <<>>]
    /\ joined = [c \in Clients |-> 0] /\ copied = joined
    /\ resumed = [c \in Clients |-> 0]
    /\ lossy = [c \in Clients |-> FALSE]

Last(s, n) == IF Len(s) > n THEN SubSeq(s, Len(s) - n + 1, Len(s)) ELSE s

(* Mutants, here and below, are what a slip in the code would make of the    *)
(* definition that follows; no run uses them.  Here: the exception of one   *)
(* full queue ends the loop; queues have no maxsize.                       *)
OfferOrNobody(event) ==
    LET full(c) == Len(queue[c]) >= QueueMax
    IN  /\ queue' = [c \in Clients |-> IF c \in Subscribed /\ ~(\E d \in Subscribed : full(d))
                        THEN Append(queue[c], event) ELSE queue[c]]
        /\ lossy' = [c \in Clients |-> lossy[c] \/ (c \in Subscribed /\ full(c))]
OfferUnbounded(event) ==
    /\ queue' = [c \in Clients |-> IF c \in Subscribed
                    THEN Append(queue[c], event) ELSE queue[c]]
    /\ UNCHANGED lossy

(* put_nowait into every subscribed queue, dropped where it is full.        *)
Offer(event) ==
    LET full(c) == Len(queue[c]) >= QueueMax
    IN  /\ queue' = [c \in Clients |-> IF c \in Subscribed /\ ~full(c)
                        THEN Append(queue[c], event) ELSE queue[c]]
        /\ lossy' = [c \in Clients |-> lossy[c] \/ (c \in Subscribed /\ full(c))]

(* emit_envelope, or a producer that buffers its event and broadcasts it.   *)
EmitEnvelope ==
    /\ Emitted < EventMax
    /\ kinds' = Append(kinds, "envelope")
    /\ tail' = Last(Append(tail, Emitted + 1), TailMax)
    /\ Offer(Emitted + 1)
    /\ UNCHANGED <<flavour, stage, todo, inhand, got, joined, copied, resumed>>

(* emit_supervisor_event: to the admin queues only, past the tail.          *)
EmitSupervisor ==
    /\ flavour = "admin" /\ Emitted < EventMax
    /\ kinds' = Append(kinds, "supervisor")
    /\ Offer(Emitted + 1)
    /\ UNCHANGED <<flavour, tail, stage, todo, inhand, got, joined, copied, resumed>>

(* Mutant: the header is ignored.                                          *)
ReplayedToAll(id) == tail

(* serve_sse: the items after the client's Last-Event-ID; all of them if it *)
(* sent none, and none if the id is not, or no longer, in the buffer.       *)
Position(id) == CHOOSE i \in 1 .. Len(tail) : tail[i] = id
Replayed(id) ==
    IF id = 0 THEN tail
    ELSE IF id \in Range(tail) THEN SubSeq(tail, Position(id) + 1, Len(tail))
    ELSE <<>>

(* A connection begins: an empty queue, and its copy of the backlog if any. *)
Subscribe(c, backlog, found, next) ==
    /\ stage[c] = "out"
    /\ stage' = [stage EXCEPT ![c] = next]
    /\ todo' = [todo EXCEPT ![c] = backlog]
    /\ joined' = [joined EXCEPT ![c] = Emitted]
    /\ copied' = [copied EXCEPT ![c] = Emitted]
    /\ resumed' = [resumed EXCEPT ![c] = found]
    /\ UNCHANGED <<flavour, kinds, tail, queue, inhand, got, lossy>>

(* handle_admin_stream adds its queue and writes the hello event.           *)
AdminConnect(c) == flavour = "admin" /\ Subscribe(c, <<>>, 0, "greeting")

(* The tail is copied once the hello has been written.                      *)
AdminSnapshot(c) ==
    /\ flavour = "admin" /\ stage[c] = "greeting"
    /\ todo' = [todo EXCEPT ![c] = tail]
    /\ stage' = [stage EXCEPT ![c] = "replaying"]
    /\ copied' = [copied EXCEPT ![c] = Emitted]
    /\ UNCHANGED <<flavour, kinds, tail, queue, inhand, got, joined, resumed, lossy>>

(* serve_sse adds its queue and copies the backlog in one step.             *)
HubConnect(c, id) ==
    /\ flavour = "hub"
    /\ Subscribe(c, Replayed(id), IF id \in Range(tail) THEN id ELSE 0, "replaying")

ReplayWritten(c) ==
    /\ stage[c] = "replaying" /\ todo[c] # <<>>
    /\ got' = [got EXCEPT ![c] = Append(@, Head(todo[c]))]
    /\ todo' = [todo EXCEPT ![c] = Tail(@)]
    /\ UNCHANGED <<flavour, kinds, tail, stage, queue, inhand, history>>

(* Mutant: `if replay:` around all that follows.                            *)
ReplayDoneIfAny(c) ==
    /\ stage[c] = "replaying" /\ todo[c] = <<>> /\ got[c] # <<>>
    /\ stage' = [stage EXCEPT ![c] = "live"]
    /\ UNCHANGED <<flavour, kinds, tail, queue, todo, inhand, got, history>>

ReplayDone(c) ==
    /\ stage[c] = "replaying" /\ todo[c] = <<>>
    /\ stage' = [stage EXCEPT ![c] = "live"]
    /\ UNCHANGED <<flavour, kinds, tail, queue, todo, inhand, got, history>>

(* Mutant: the queue is drained before the backlog is through.              *)
TakeDuringReplay(c) ==
    /\ stage[c] \in {"replaying", "live"} /\ inhand[c] = <<>> /\ queue[c] # <<>>
    /\ inhand' = [inhand EXCEPT ![c] = <<Head(queue[c])>>]
    /\ queue' = [queue EXCEPT ![c] = Tail(@)]
    /\ UNCHANGED <<flavour, kinds, tail, stage, todo, got, history>>

Take(c) ==
    /\ stage[c] = "live" /\ inhand[c] = <<>> /\ queue[c] # <<>>
    /\ inhand' = [inhand EXCEPT ![c] = <<Head(queue[c])>>]
    /\ queue' = [queue EXCEPT ![c] = Tail(@)]
    /\ UNCHANGED <<flavour, kinds, tail, stage, todo, got, history>>

Written(c) ==
    /\ inhand[c] # <<>>
    /\ got' = [got EXCEPT ![c] = @ \o inhand[c]]
    /\ inhand' = [inhand EXCEPT ![c] = <<>>]
    /\ UNCHANGED <<flavour, kinds, tail, stage, queue, todo, history>>

(* A write fails or the client goes away: the queue is discarded, and its   *)
(* history with it; a later connection of the client is a new one.          *)
Leave(c) ==
    /\ stage[c] # "out"
    /\ stage' = [stage EXCEPT ![c] = "out"]
    /\ queue' = [queue EXCEPT ![c] = <<>>]
    /\ todo' = [todo EXCEPT ![c] = <<>>]
    /\ inhand' = [inhand EXCEPT ![c] = <<>>]
    /\ got' = [got EXCEPT ![c] = <<>>]
    /\ joined' = [joined EXCEPT ![c] = 0] /\ copied' = [copied EXCEPT ![c] = 0]
    /\ resumed' = [resumed EXCEPT ![c] = 0]
    /\ lossy' = [lossy EXCEPT ![c] = FALSE]
    /\ UNCHANGED <<flavour, kinds, tail>>

Next ==
    \/ EmitEnvelope \/ EmitSupervisor
    \/ \E c \in Clients :
          \/ AdminConnect(c) \/ AdminSnapshot(c)
          \/ \E id \in 0 .. Emitted : HubConnect(c, id)
          \/ ReplayWritten(c) \/ ReplayDone(c)
          \/ Take(c) \/ Written(c)
          \/ Leave(c)

Spec == Init /\ [][Next]_vars

(* asyncio runs a handler that is ready; a client that keeps reading lets   *)
(* every write end, and one that does not is taken to leave.                *)
Serves(c) == AdminSnapshot(c) \/ ReplayWritten(c) \/ ReplayDone(c) \/ Take(c) \/ Written(c)
FairSpec == Spec /\ \A c \in Clients : WF_vars(Serves(c))

-----------------------------------------------------------------------------
(* All a connection has been or will be sent as things stand, in order.     *)
Line(c) == got[c] \o inhand[c] \o todo[c] \o queue[c]
Attached == {c \in Subscribed : ~lossy[c]}

(* A connection for which nothing was dropped misses nothing: neither what  *)
(* was emitted since it subscribed, whatever handler was suspended where    *)
(* and whoever else's queue was full, nor anything between its backlog and  *)
(* its queue, nor anything after the Last-Event-ID it resumed from          *)
(* (core.py:1120-1127, 484-500; sse.py:84-94, 132-147).                     *)
NoGap ==
    \A c \in Attached : LET sent == Range(Line(c)) IN
        \A e \in 1 .. Emitted :
            \/ e \in sent
            \/ /\ e <= joined[c]
               /\ resumed[c] = 0 \/ e <= resumed[c]
               /\ kinds[e] = "envelope" => \A f \in sent : f > e

(* An event is sent twice only by the admin stream, which copies the tail   *)
(* after it has subscribed, and only if it was emitted in between; never    *)
(* three times.  A resumed connection is not sent what the client had.      *)
NoEcho ==
    \A c \in Subscribed : LET line == Line(c) IN
        /\ \A i \in 1 .. Len(line) : line[i] > resumed[c]
        /\ \A i, j \in 1 .. Len(line) : (i < j /\ line[i] = line[j]) =>
              /\ flavour = "admin" /\ line[i] > joined[c]
              /\ \A k \in j + 1 .. Len(line) : line[k] # line[i]

(* Envelopes are first sent in the order of their emission, and so are      *)
(* supervisor events, except those that a full tail's worth of envelopes    *)
(* followed while the hello was being written: they come after the backlog. *)
Overrun(c, e) ==
    /\ e > joined[c]
    /\ Cardinality({k \in e + 1 .. copied[c] : kinds[k] = "envelope"}) >= TailMax
InOrder ==
    \A c \in Subscribed : LET line == Line(c) IN
        \A i, j \in 1 .. Len(line) :
            (i < j /\ line[i] > line[j] /\ kinds[line[i]] = kinds[line[j]]) =>
                Overrun(c, line[j]) \/ \E k \in 1 .. i : line[k] = line[j]

(* Whoever stays connected is sent everything that waits for it.            *)
EveryoneCatchesUp ==
    \A c \in Clients, e \in 1 .. EventMax :
        (stage[c] # "out" /\ e \in Range(queue[c])) ~>
            (e \in Range(got[c]) \/ stage[c] = "out")
=============================================================================

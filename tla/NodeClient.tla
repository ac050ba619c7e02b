----------------------------- MODULE NodeClient -----------------------------
(***************************************************************************)
(* A node written with the SDK (node_sdk/__init__.py), together with the    *)
(* broker it talks to: MeshNode's connect, serve and stop, its stream loop  *)
(* and its dispatch tasks, each step of which that calls Core is a joint    *)
(* step with Broker.  Everything else of Broker goes on around it.          *)
(*                                                                         *)
(* The node is one asyncio process: tasks are cancelled at their awaits,    *)
(* and the process may die at any point and be started again, with a new    *)
(* MeshNode.  A request that was sent may reach Core after its sender is    *)
(* gone, or never.                                                         *)
(***************************************************************************)
EXTENDS Broker

CONSTANT Me             \* the node_id of this client
ASSUME MeAssumption == Me \in Nodes /\ None \notin Streams

VARIABLES
    api,                \* how far the program is with the public calls
    sid, known,         \* session_id, surfaces: what registration returned
    loop, via, wire,    \* the stream task, its stream, what it has to read
    ready,              \* _ready: the event that serve waits for
    task,               \* the dispatch task of each delivered envelope
    inflight,           \* responses posted that Core has not handled
    runs, finished      \* history: dispatches per envelope; those that ended
                        \*   in a response
nodeVars == <<api, sid, known, loop, via, wire, ready, task, inflight, runs, finished>>
allVars  == <<vars, nodeVars>>

Hello == [type |-> "hello"]
Working == {"created", "handling", "notified", "responding"}
Busy == {e \in Calls : task[e] \in Working}

(* surfaces is only written by a registration; a surface that a later       *)
(* manifest adds is taken for request/response.                             *)
ModeSeen(e) == IF e.to \in known THEN Mode[e.to] ELSE "request_response"

NodeTypeOK ==
    /\ api \in {"new", "registered", "waiting", "up", "stopping"}
    /\ sid \in Sessions \cup {None} /\ known \subseteq Surfaces
    /\ loop \in {"none", "opening", "reading", "over"}
    /\ via \in Streams \cup {None}
    /\ loop = "reading" <=> via # None
    /\ loop # "reading" => wire = <<>>
    /\ wire \in Seq(Events \cup {Hello})
    /\ ready \in BOOLEAN
    /\ task \in [Calls -> Working \cup {"none", "ended"}]
    /\ inflight \subseteq Answers
    /\ runs \in [Calls -> Nat] /\ finished \subseteq Calls

NodeInit ==
    /\ Init
    /\ api = "new" /\ sid = None /\ known = {}
    /\ loop = "none" /\ via = None /\ wire = <<>> /\ ready = FALSE
    /\ task = [e \in Calls |-> "none"]
    /\ inflight = {}
    /\ runs = [e \in Calls |-> 0] /\ finished = {}

-----------------------------------------------------------------------------
(* connect(): Core registers the node and the client keeps what it replies. *)
(* It may be called while a stream is being read, whose session is then     *)
(* replaced.                                                               *)
Connect(s) ==
    /\ api \in {"new", "up"}
    /\ Register(Me, s)
    /\ api' = "registered"
    /\ sid' = s /\ known' = {x \in offered : Host[x] = Me}
    /\ UNCHANGED <<loop, via, wire, ready, task, inflight, runs, finished>>

(* serve(): there is only ever one stream task, also when it has ended.     *)
Serve ==
    /\ api = "registered"
    /\ api' = "waiting"
    /\ loop' = IF loop = "none" THEN "opening" ELSE loop
    /\ UNCHANGED <<vars, sid, known, via, wire, ready, task, inflight, runs, finished>>

(* ... and it returns when _ready is set, or after five seconds.            *)
Served ==
    /\ api = "waiting"
    /\ api' = "up"
    /\ UNCHANGED <<vars, sid, known, loop, via, wire, ready, task, inflight, runs, finished>>

-----------------------------------------------------------------------------
(* _stream_loop: GET /v0/stream, then one event after the other, until the  *)
(* first error or end of file; then never again.                           *)
Open(t) ==
    /\ loop = "opening"
    /\ StreamOpen(t, sid)
    /\ loop' = "reading" /\ via' = t /\ wire' = <<>>
    /\ UNCHANGED <<api, sid, known, ready, task, inflight, runs, finished>>

(* Mutants, here and below, are what a slip in the code would make of the    *)
(* definition that follows; no run uses them.  Here: what was read stays.   *)
LoopEndsUnread ==
    /\ loop \in {"opening", "reading"}
    /\ loop' = "over" /\ via' = None
    /\ UNCHANGED <<vars, api, sid, known, wire, ready, task, inflight, runs, finished>>

LoopEnds ==
    /\ loop \in {"opening", "reading"}
    /\ loop' = "over" /\ via' = None /\ wire' = <<>>
    /\ UNCHANGED <<vars, api, sid, known, ready, task, inflight, runs, finished>>

(* What Core writes reaches the client if it still reads this stream.       *)
Heard(t, event) ==
    /\ wire' = IF via = t THEN Append(wire, event) ELSE wire
    /\ UNCHANGED <<api, sid, known, loop, via, ready, task, inflight, runs, finished>>

Greeted(t) == StreamGreeted(t) /\ Heard(t, Hello)
Written(t) == StreamWritten(t) /\ Heard(t, holding[t])

Dispatch(e) ==
    /\ task' = [task EXCEPT ![e] = "created"]
    /\ runs' = [runs EXCEPT ![e] = @ + 1]

(* hello sets _ready, deliver creates a task, manifest_reloaded is ignored. *)
Read ==
    /\ loop = "reading" /\ wire # <<>>
    /\ wire' = Tail(wire)
    /\ ready' = (ready \/ Head(wire) = Hello)
    /\ IF Head(wire) \in {Hello, Reloaded} THEN UNCHANGED <<task, runs>>
                                           ELSE Dispatch(Head(wire).env)
    /\ UNCHANGED <<vars, api, sid, known, loop, via, inflight, finished>>

-----------------------------------------------------------------------------
(* _dispatch: the handler, then one response under a fresh id unless the    *)
(* surface is fire-and-forget or the handler returned None.  The mode is     *)
(* read once, before the handler is awaited.                               *)
Becomes(e, state) ==
    /\ task' = [task EXCEPT ![e] = state]
    /\ UNCHANGED <<vars, api, sid, known, loop, via, wire, ready, runs>>

Handle(e) ==
    /\ task[e] = "created"
    /\ Becomes(e, IF ModeSeen(e) = "fire_and_forget" THEN "notified" ELSE "handling")
    /\ UNCHANGED <<inflight, finished>>

Owes(e) ==
    \/ task[e] = "handling"
    \/ task[e] = "created" /\ ModeSeen(e) # "fire_and_forget"

(* Mutant: correlated with the last envelope read instead of its own.       *)
RespondToAnother(e, a) ==
    /\ Owes(e)
    /\ a.from = Me /\ \E x \in Calls : runs[x] > 0 /\ a.corr = x.id
    /\ Becomes(e, "responding")
    /\ inflight' = inflight \cup {a}
    /\ finished' = finished \cup {e}

(* The handler returned a result or raised; or there was none to call.      *)
Respond(e, a) ==
    /\ Owes(e)
    /\ a.from = Me /\ a.corr = e.id
    /\ Becomes(e, "responding")
    /\ inflight' = inflight \cup {a}
    /\ finished' = finished \cup {e}

(* Nothing is owed, or the handler returned None.                           *)
EndQuietly(e) ==
    /\ \/ task[e] \in {"handling", "notified"}
       \/ task[e] = "created" /\ ModeSeen(e) = "fire_and_forget"
    /\ Becomes(e, "ended")
    /\ UNCHANGED <<inflight, finished>>

(* Core handles a posted response, whatever has become of its sender, and a *)
(* sender that still waits ends: Core's refusal is logged and that is all.  *)
Handled(a) ==
    /\ a \in inflight
    /\ RespondUnmatched(a) \/ \E r \in Reqs : RespondAccepted(a, r)
    /\ inflight' = inflight \ {a}
    /\ task' = [e \in Calls |-> IF a.corr = e.id /\ task[e] = "responding"
                                THEN "ended" ELSE task[e]]
    /\ UNCHANGED <<api, sid, known, loop, via, wire, ready, runs, finished>>

(* The request fails on its way.                                           *)
Lost(a) ==
    /\ a \in inflight
    /\ inflight' = inflight \ {a}
    /\ task' = [e \in Calls |-> IF a.corr = e.id /\ task[e] = "responding"
                                THEN "ended" ELSE task[e]]
    /\ UNCHANGED <<vars, api, sid, known, loop, via, wire, ready, runs, finished>>

-----------------------------------------------------------------------------
(* stop(): the stream task is cancelled and awaited, so that no task can be *)
(* created behind the loop that cancels the dispatch tasks.  _ready is not  *)
(* cleared.                                                                *)
(* Mutant: the stream task is cancelled later.                              *)
StopStreamUnawaited ==
    /\ api \in {"registered", "up"}
    /\ api' = "stopping"
    /\ UNCHANGED <<vars, sid, known, loop, via, wire, ready, task, inflight, runs, finished>>

StopStream ==
    /\ api \in {"registered", "up"}
    /\ api' = "stopping"
    /\ loop' = "none" /\ via' = None /\ wire' = <<>>
    /\ UNCHANGED <<vars, sid, known, ready, task, inflight, runs, finished>>

Cancelled == [e \in Calls |-> IF e \in Busy THEN "ended" ELSE task[e]]

StopTasks ==
    /\ api = "stopping"
    /\ api' = "new"
    /\ task' = Cancelled
    /\ UNCHANGED <<vars, sid, known, loop, via, wire, ready, inflight, runs, finished>>

(* The process dies; a supervisor or an operator may start it again.        *)
Crash ==
    /\ api # "new"
    /\ api' = "new" /\ sid' = None /\ known' = {}
    /\ loop' = "none" /\ via' = None /\ wire' = <<>> /\ ready' = FALSE
    /\ task' = Cancelled
    /\ UNCHANGED <<vars, inflight, runs, finished>>

Program ==
    \/ \E s \in Sessions : Connect(s)
    \/ Serve \/ Served \/ StopStream \/ StopTasks \/ Crash

StreamTask ==
    \/ \E t \in Streams : Open(t) \/ Greeted(t) \/ Written(t)
    \/ Read \/ LoopEnds

DispatchTasks ==
    \/ \E e \in Calls : Handle(e) \/ EndQuietly(e) \/ \E a \in Answers : Respond(e, a)
    \/ \E a \in Answers : Handled(a) \/ Lost(a)

(* The rest of Core: callers, its own ends of the streams, the manifest.    *)
CoreAlone ==
    /\ \/ \E t \in Streams : \/ StreamTake(t) \/ StreamPutBack(t)
                             \/ StreamBlocked(t) \/ StreamDropped(t)
       \/ \E r \in Reqs, e \in Calls : InvokeDenied(r, e, TRUE) \/ InvokeNotify(r, e)
                                       \/ InvokeCall(r, e) \/ CoreReload(r, e)
       \/ Deciding
       \/ \E m \in HandEdits : EditManifestFile(m)
    /\ UNCHANGED nodeVars

NodeNext == Program \/ StreamTask \/ DispatchTasks \/ CoreAlone
NodeSpec == NodeInit /\ [][NodeNext]_allVars

-----------------------------------------------------------------------------
(* No envelope is dispatched twice: not by a put-back after a failed write, *)
(* a replaced session, a second stream, or a node that died and came back.  *)
HandledOnce == \A e \in Calls : runs[e] <= 1

(* A caller that is told `answered` was answered by the dispatch of its own *)
(* envelope, in whatever state the node is by then.                         *)
AnsweredWasHandled ==
    \A r \in Reqs : reply[r] = "answered" => runs[env[r]] = 1 /\ env[r] \in finished

(* A stopped or dead node does nothing more: no task, no stream; and while  *)
(* it is being stopped no dispatch begins.                                 *)
StopIsQuiet ==
    /\ api = "new" => Busy = {} /\ loop = "none" /\ wire = <<>>
    /\ api = "stopping" => loop = "none"
=============================================================================

------------------------------- MODULE Broker -------------------------------
(***************************************************************************)
(* The message broker of RAVEN Mesh: the part of core/core.py that          *)
(* registers nodes, routes invocations and responses, feeds the SSE         *)
(* streams and reloads the manifest.                                        *)
(*                                                                         *)
(* Core is one asyncio process.  `await state.audit(...)` never suspends    *)
(* (its lock body has no await), so an HTTP handler is one atomic step from *)
(* the parsed request to its reply, except where it really waits: on the    *)
(* future of a request/response call, inside a supervisor operation, and in *)
(* the stream loop (queue.get, response.write, queue.put).  Each of those   *)
(* is a state here, and whatever else the event loop may run in between is  *)
(* an interleaving of this specification.                                   *)
(***************************************************************************)
EXTENDS Integers, Sequences, FiniteSets

CONSTANTS
    Nodes,          \* node ids a manifest may declare
    Core,           \* the reserved built-in node
    Surfaces,       \* "<node>.<surface>" names
    Malformed,      \* a `to` that is no surface id
    Host,           \* Host[s]: the node before the dot of s
    Mode,           \* Mode[s]: what a call of surface s does, see Modes
    Ids,            \* envelope ids (the keys of the nonce LRU)
    Calls,          \* invocation envelopes clients may send
    Answers,        \* response envelopes clients may send
    Reqs,           \* HTTP requests to /v0/invoke, each handled once
    Sessions,       \* session ids (uuid4: never issued twice)
    Streams,        \* GET /v0/stream requests, each handled once
    QueueMax,       \* NODE_QUEUE_MAX
    NonceMax,       \* REPLAY_NONCE_LRU_MAX
    Manifests,      \* the manifest texts that exist
    FirstManifest,  \* the one Core started with
    Payloads,       \* those core.set_manifest may carry
    HandEdits,      \* what an operator may leave in the manifest file
    None            \* null

(* A manifest is what load_manifest makes of it: the nodes, surfaces and    *)
(* edges it has entered when it ends, and whether it ends by raising.       *)
Missing == [nodes |-> {}, surfaces |-> {}, edges |-> {}, broken |-> TRUE]

Modes == {"request_response", "fire_and_forget",
          "inspect", "supervise", "set_manifest", "reload_manifest"}
CoreModes == Modes \ {"request_response", "fire_and_forget"}
CoreSurfaces == {s \in Surfaces : Host[s] = Core}

ASSUME SurfacesAssumption ==
    /\ Core \notin Nodes /\ Malformed \notin Surfaces /\ None \notin Nodes
    /\ Host \in [Surfaces -> Nodes \cup {Core}]
    /\ Mode \in [Surfaces -> Modes]
    /\ \A s \in Surfaces : Host[s] = Core <=> Mode[s] \in CoreModes

ASSUME EnvelopesAssumption ==
    /\ None \notin Ids \cup Calls \cup Answers \cup Reqs \cup Sessions
    /\ Calls \subseteq [id : Ids, from : Nodes, to : Surfaces \cup {Malformed}]
    /\ Answers \subseteq [id : Ids, from : Nodes, corr : Ids \cup {None}]

ASSUME ManifestsAssumption ==
    /\ \A m \in Manifests :
          /\ m.nodes \subseteq Nodes
          /\ m.surfaces \subseteq {s \in Surfaces : Host[s] \in m.nodes}
          /\ m.edges \subseteq Nodes \X Surfaces
          /\ m.broken \in BOOLEAN
    /\ FirstManifest \in Manifests /\ ~FirstManifest.broken
    /\ Payloads \cup HandEdits \subseteq Manifests
    /\ Missing \in Manifests /\ Missing \notin Payloads

ASSUME BoundsAssumption ==
    QueueMax \in Nat \ {0} /\ NonceMax \in Nat \ {0}

VARIABLES
    decl, offered, edges,   \* nodes_decl (keys, surfaces) and edges
    disk, backup,           \* manifest_path and its .bak file
    conn, owner,            \* connections[n].session_id and sessions[s]
    queue, issued,          \* connections[...].queue; sessions handed out
    stage, attached,        \* a stream handler: where it is, its session
    holding, handed,        \* the event it took; events written, per id
    nonces,                 \* _replay_nonces, oldest first
    env, fut,               \* an invoke handler: its envelope, its future,
    answer, reply,          \* the future's result, the HTTP reply
    pending,                \* pending[id]: the request waiting under id
    audit                   \* audit.log as the set of its entries

registry == <<decl, offered, edges>>
files    == <<disk, backup>>
sessions == <<conn, owner, queue, issued>>
streams  == <<stage, attached, holding, handed>>
calls    == <<env, fut, answer, reply, pending>>
vars     == <<registry, files, sessions, streams, nonces, calls, audit>>

-----------------------------------------------------------------------------
(* Events of a node's queue.                                               *)

Deliver(e) == [type |-> "deliver", env |-> e]
Close      == [type |-> "_close"]
Reloaded   == [type |-> "manifest_reloaded"]
Events     == {Deliver(e) : e \in Calls} \cup {Close, Reloaded}

PutNoWait(q, event) == IF Len(q) < QueueMax THEN Append(q, event) ELSE q

(* Audit entries.                                                          *)
Decisions == {"routed", "timeout", "denied_unknown_node",
    "denied_signature_invalid", "denied_replay", "denied_no_relationship",
    "denied_unknown_surface", "denied_schema_invalid",
    "denied_node_unreachable", "denied_queue_full"}
Entry(about, id, decision) == [about |-> about, id |-> id, decision |-> decision]
Entries == [about : {"invocation", "response"}, id : Ids \cup {None},
            decision : Decisions]
Unaudited == {"bad_kind", "bad_surface_id"}
(* Mutants, here and below, are what a slip in the code would make of the    *)
(* definition that follows; no run uses them.  This one audits a bad kind.  *)
AuditOfAll(e, verdict) == {Entry("invocation", e.id, verdict)}

AuditOf(e, verdict) ==
    IF verdict \in Unaudited THEN {} ELSE {Entry("invocation", e.id, verdict)}

Outcomes == (Decisions \ {"routed"}) \cup Unaudited \cup
    {"accepted", "core_result", "core_error", "answered", "revoked"}
Futures == {"none", "wait", "result", "revoked", "cancelled"}

(* None is none of the values it stands beside: an event that a stream        *)
(* handler holds, an HTTP outcome, or what decided a call.                  *)
ASSUME NoneAssumption ==
    /\ None \notin Events
    /\ None \notin Decisions \cup Outcomes
    /\ None \notin {<<"revoked">>, <<"expired">>}
    /\ None \notin {<<"answered", a>> : a \in Answers}

-----------------------------------------------------------------------------
(* What load_manifest leaves behind.                                       *)

DeclaredBy(m) == m.nodes \cup (IF m.broken THEN {} ELSE {Core})
OfferedBy(m)  == m.surfaces \cup (IF m.broken THEN {} ELSE CoreSurfaces)

Loaded == Core \in decl

Init ==
    /\ decl = DeclaredBy(FirstManifest)
    /\ offered = OfferedBy(FirstManifest)
    /\ edges = FirstManifest.edges
    /\ disk = FirstManifest /\ backup = Missing
    /\ conn = [n \in Nodes |-> None]
    /\ owner = [s \in Sessions |-> None]
    /\ queue = [s \in Sessions |-> <<>>]
    /\ issued = {}
    /\ stage = [t \in Streams |-> "unopened"]
    /\ attached = [t \in Streams |-> None]
    /\ holding = [t \in Streams |-> None]
    /\ handed = [i \in Ids |-> 0]
    /\ nonces = <<>>
    /\ env = [r \in Reqs |-> None]
    /\ fut = [r \in Reqs |-> "none"]
    /\ answer = [r \in Reqs |-> None]
    /\ reply = [r \in Reqs |-> None]
    /\ pending = [i \in Ids |-> None]
    /\ audit = {}

-----------------------------------------------------------------------------
(* check_replay: the LRU of envelope ids shared by invoke and respond.      *)

Remembered == {nonces[i] : i \in 1..Len(nonces)}

RememberNonce(id) ==
    nonces' = IF Len(nonces) < NonceMax THEN Append(nonces, id)
                                        ELSE Append(Tail(nonces), id)

-----------------------------------------------------------------------------
(* POST /v0/register.  A rejected registration changes nothing.             *)

(* Mutants: the replaced session is not forgotten; the old connection stays. *)
RegisterForgetsNothing(n, s) ==
    /\ n \in decl /\ s \notin issued
    /\ issued' = issued \cup {s}
    /\ conn' = [conn EXCEPT ![n] = s]
    /\ owner' = [owner EXCEPT ![s] = n]
    /\ UNCHANGED <<registry, queue, files, streams, nonces, calls, audit>>

RegisterKeepsConnection(n, s) ==
    /\ n \in decl /\ s \notin issued
    /\ issued' = issued \cup {s}
    /\ conn' = IF conn[n] = None THEN [conn EXCEPT ![n] = s] ELSE conn
    /\ owner' = [x \in Sessions |-> IF x = s THEN n ELSE IF x = conn[n] THEN None ELSE owner[x]]
    /\ UNCHANGED <<registry, queue, files, streams, nonces, calls, audit>>

Register(n, s) ==
    /\ n \in decl
    /\ s \notin issued
    /\ issued' = issued \cup {s}
    /\ conn' = [conn EXCEPT ![n] = s]
    /\ owner' = [x \in Sessions |-> IF x = s THEN n
                                    ELSE IF x = conn[n] THEN None
                                    ELSE owner[x]]
    /\ queue' = [x \in Sessions |-> IF x = conn[n] THEN PutNoWait(queue[x], Close)
                                    ELSE queue[x]]
    /\ UNCHANGED <<registry, files, streams, nonces, calls, audit>>

-----------------------------------------------------------------------------
(* GET /v0/stream.                                                         *)

StreamOpen(t, s) ==
    /\ stage[t] = "unopened"
    /\ owner[s] # None /\ conn[owner[s]] = s
    /\ stage' = [stage EXCEPT ![t] = "hello"]
    /\ attached' = [attached EXCEPT ![t] = s]
    /\ UNCHANGED <<registry, files, sessions, holding, handed, nonces, calls, audit>>

(* prepare and the hello event: the session may be gone before they end.   *)
StreamGreeted(t) ==
    /\ stage[t] = "hello"
    /\ stage' = [stage EXCEPT ![t] = "get"]
    /\ UNCHANGED <<registry, files, sessions, attached, holding, handed,
                   nonces, calls, audit>>

(* Mutant: a stream of a replaced session takes nothing any more.           *)
StreamTakeIfLive(t) ==
    LET s == attached[t]
    IN  /\ stage[t] = "get" /\ owner[s] # None /\ queue[s] # <<>>
        /\ queue' = [queue EXCEPT ![s] = Tail(queue[s])]
        /\ stage' = [stage EXCEPT ![t] = "write"]
        /\ holding' = [holding EXCEPT ![t] = Head(queue[s])]
        /\ UNCHANGED <<registry, files, conn, owner, issued, attached, handed,
                       nonces, calls, audit>>

(* queue.get returns; a close marker ends the loop.                        *)
StreamTake(t) ==
    LET s == attached[t]
    IN  /\ stage[t] = "get"
        /\ queue[s] # <<>>
        /\ queue' = [queue EXCEPT ![s] = Tail(queue[s])]
        /\ IF Head(queue[s]) = Close
           THEN /\ stage' = [stage EXCEPT ![t] = "ended"]
                /\ UNCHANGED holding
           ELSE /\ stage' = [stage EXCEPT ![t] = "write"]
                /\ holding' = [holding EXCEPT ![t] = Head(queue[s])]
        /\ UNCHANGED <<registry, files, conn, owner, issued, attached, handed,
                       nonces, calls, audit>>

StreamWritten(t) ==
    /\ stage[t] = "write"
    /\ stage' = [stage EXCEPT ![t] = "get"]
    /\ holding' = [holding EXCEPT ![t] = None]
    /\ handed' = IF holding[t] = Reloaded THEN handed
                 ELSE [handed EXCEPT ![holding[t].env.id] = @ + 1]
    /\ UNCHANGED <<registry, files, sessions, attached, nonces, calls, audit>>

(* Mutant: after the failed write the loop goes on.                         *)
StreamPutBackNoBreak(t) ==
    LET s == attached[t]
    IN  /\ stage[t] \in {"write", "put"}
        /\ Len(queue[s]) < QueueMax
        /\ queue' = [queue EXCEPT ![s] = Append(queue[s], holding[t])]
        /\ UNCHANGED <<registry, files, conn, owner, issued, stage, attached, holding,
                       handed, nonces, calls, audit>>

(* The write fails: the event goes back to the tail of the queue and the    *)
(* handler ends; `await queue.put` waits while the queue is full.           *)
StreamPutBack(t) ==
    LET s == attached[t]
    IN  /\ stage[t] \in {"write", "put"}
        /\ Len(queue[s]) < QueueMax
        /\ queue' = [queue EXCEPT ![s] = Append(queue[s], holding[t])]
        /\ stage' = [stage EXCEPT ![t] = "ended"]
        /\ holding' = [holding EXCEPT ![t] = None]
        /\ UNCHANGED <<registry, files, conn, owner, issued, attached, handed,
                       nonces, calls, audit>>

StreamBlocked(t) ==
    /\ stage[t] = "write"
    /\ Len(queue[attached[t]]) = QueueMax
    /\ stage' = [stage EXCEPT ![t] = "put"]
    /\ UNCHANGED <<registry, files, sessions, attached, holding, handed,
                   nonces, calls, audit>>

(* The hello or a heartbeat (sent when the queue stays empty) finds the     *)
(* client gone.  Nothing else is cleaned up: the connection stays.          *)
StreamDropped(t) ==
    /\ \/ stage[t] = "hello"
       \/ stage[t] = "get" /\ queue[attached[t]] = <<>>
    /\ stage' = [stage EXCEPT ![t] = "ended"]
    /\ UNCHANGED <<registry, files, sessions, attached, holding, handed,
                   nonces, calls, audit>>

-----------------------------------------------------------------------------
(* POST /v0/invoke.  The checks run in this order; those of Gate leave no   *)
(* nonce behind, those of Route do.                                        *)

(* Mutant: the nonce is not checked.                                       *)
GateWithoutNonces(e, kindOk, signed, fresh) ==
    IF ~kindOk THEN "bad_kind"
    ELSE IF e.from \notin decl THEN "denied_unknown_node"
    ELSE IF ~signed THEN "denied_signature_invalid"
    ELSE IF ~fresh THEN "denied_replay"
    ELSE "open"

Gate(e, kindOk, signed, fresh) ==
    IF ~kindOk THEN "bad_kind"
    ELSE IF e.from \notin decl THEN "denied_unknown_node"
    ELSE IF ~signed THEN "denied_signature_invalid"
    ELSE IF ~fresh \/ e.id \in Remembered THEN "denied_replay"
    ELSE "open"

Route(e, valid) ==
    IF e.to = Malformed THEN "bad_surface_id"
    ELSE IF <<e.from, e.to>> \notin edges THEN "denied_no_relationship"
    ELSE IF Host[e.to] \notin decl \/ e.to \notin offered
         THEN "denied_unknown_surface"
    ELSE IF ~valid THEN "denied_schema_invalid"
    ELSE IF Host[e.to] = Core THEN "in_process"
    ELSE IF conn[Host[e.to]] = None THEN "denied_node_unreachable"
    ELSE IF Len(queue[conn[Host[e.to]]]) >= QueueMax THEN "denied_queue_full"
    ELSE "routed"

Finish(r, e, outcome) ==
    /\ env' = [env EXCEPT ![r] = e]
    /\ reply' = [reply EXCEPT ![r] = outcome]

Idle(r) == env[r] = None
Waiting(r) == fut[r] # "none" /\ reply[r] = None
InCore(r) == env[r] # None /\ fut[r] = "none" /\ reply[r] = None

(* Refused before check_replay recorded the id.                            *)
InvokeRejected(r, e, kindOk, signed, fresh) ==
    LET verdict == Gate(e, kindOk, signed, fresh)
    IN  /\ Idle(r)
        /\ verdict # "open"
        /\ Finish(r, e, verdict)
        /\ audit' = audit \cup AuditOf(e, verdict)
        /\ UNCHANGED <<registry, files, sessions, streams, nonces,
                       fut, answer, pending>>

(* A genuine, fresh envelope: its id is consumed whatever follows.         *)
Admitted(r, e) ==
    /\ Idle(r)
    /\ Gate(e, TRUE, TRUE, TRUE) = "open"
    /\ RememberNonce(e.id)

(* Refused on its merits.  A request/response call that meets a full queue  *)
(* has already entered itself in `pending`, and takes the entry out again.  *)
InvokeDenied(r, e, valid) ==
    LET verdict == Route(e, valid)
    IN  /\ Admitted(r, e)
        /\ verdict \notin {"in_process", "routed"}
        /\ Finish(r, e, verdict)
        /\ audit' = audit \cup AuditOf(e, verdict)
        /\ pending' = IF verdict = "denied_queue_full"
                           /\ Mode[e.to] = "request_response"
                      THEN [pending EXCEPT ![e.id] = None]
                      ELSE pending
        /\ UNCHANGED <<registry, files, sessions, streams, fut, answer>>

(* put_nowait on the target's queue, and `routed` in the audit log.         *)
Enqueued(e) ==
    LET s == conn[Host[e.to]]
    IN  /\ queue' = [queue EXCEPT ![s] = Append(queue[s], Deliver(e))]
        /\ audit' = audit \cup AuditOf(e, "routed")

(* fire_and_forget: 202 at once.                                           *)
InvokeNotify(r, e) ==
    /\ Admitted(r, e)
    /\ Route(e, TRUE) = "routed"
    /\ Mode[e.to] = "fire_and_forget"
    /\ Enqueued(e)
    /\ Finish(r, e, "accepted")
    /\ UNCHANGED <<registry, files, conn, owner, issued, streams,
                   fut, answer, pending>>

(* request_response: the handler waits on its future.                      *)
InvokeCall(r, e) ==
    /\ Admitted(r, e)
    /\ Route(e, TRUE) = "routed"
    /\ Mode[e.to] = "request_response"
    /\ Enqueued(e)
    /\ env' = [env EXCEPT ![r] = e]
    /\ fut' = [fut EXCEPT ![r] = "wait"]
    /\ pending' = [pending EXCEPT ![e.id] = r]
    /\ UNCHANGED <<registry, files, conn, owner, issued, streams, answer, reply>>

(* Mutant: wait_for without a timeout.                                     *)
ExpireNever(r) == FALSE /\ fut[r] = "wait" /\ UNCHANGED vars

(* asyncio.wait_for's timer.                                               *)
Expire(r) ==
    /\ fut[r] = "wait"
    /\ fut' = [fut EXCEPT ![r] = "cancelled"]
    /\ UNCHANGED <<registry, files, sessions, streams, nonces, env, answer,
                   reply, pending, audit>>

(* Mutants: the entry is left in `pending`; the timeout is not audited.     *)
ResumedWithoutPop(r, outcome) ==
    /\ reply' = [reply EXCEPT ![r] = outcome]
    /\ audit' = audit \cup (IF outcome = "timeout"
                            THEN {Entry("invocation", env[r].id, "timeout")} ELSE {})
    /\ UNCHANGED <<registry, files, sessions, streams, nonces, env, fut, answer, pending>>

ResumedUnaudited(r, outcome) ==
    /\ reply' = [reply EXCEPT ![r] = outcome]
    /\ pending' = [pending EXCEPT ![env[r].id] = None]
    /\ UNCHANGED <<registry, files, sessions, streams, nonces, env, fut, answer, audit>>

(* The handler runs again, some time after its future was decided, and      *)
(* drops whatever entry is under its id.  If the timer fires in that gap,   *)
(* wait_for returns the result up to Python 3.11 and raises TimeoutError    *)
(* from 3.12 on: both outcomes are allowed.                                *)
ResumedWith(r, outcome) ==
    /\ reply' = [reply EXCEPT ![r] = outcome]
    /\ pending' = [pending EXCEPT ![env[r].id] = None]
    /\ audit' = IF outcome = "timeout"
                THEN audit \cup {Entry("invocation", env[r].id, "timeout")}
                ELSE audit
    /\ UNCHANGED <<registry, files, sessions, streams, nonces, env, fut, answer>>

Resume(r) ==
    /\ Waiting(r)
    /\ \/ fut[r] = "result" /\ ResumedWith(r, "answered")
       \/ fut[r] = "revoked" /\ ResumedWith(r, "revoked")
       \/ fut[r] # "wait" /\ ResumedWith(r, "timeout")

-----------------------------------------------------------------------------
(* POST /v0/respond.  A bad kind, signature or sender changes nothing.      *)

RespondReplayed(a, fresh) ==
    /\ a.from \in decl
    /\ ~fresh \/ a.id \in Remembered
    /\ audit' = audit \cup {Entry("response", a.corr, "denied_replay")}
    /\ UNCHANGED <<registry, files, sessions, streams, nonces, calls>>

Fresh(a) ==
    /\ a.from \in decl
    /\ a.id \notin Remembered
    /\ RememberNonce(a.id)

(* Mutant: whoever answers is believed.                                     *)
DecidesAnyone(a, r) == a.corr # None /\ pending[a.corr] = r /\ fut[r] = "wait"

(* The call a response may still decide: pending, undecided, from its target. *)
Decides(a, r) ==
    /\ a.corr # None
    /\ pending[a.corr] = r
    /\ fut[r] = "wait"
    /\ Host[env[r].to] = a.from

RespondUnmatched(a) ==
    /\ Fresh(a)
    /\ \A r \in Reqs : ~Decides(a, r)
    /\ UNCHANGED <<registry, files, sessions, streams, calls, audit>>

RespondAccepted(a, r) ==
    /\ Fresh(a)
    /\ Decides(a, r)
    /\ fut' = [fut EXCEPT ![r] = "result"]
    /\ answer' = [answer EXCEPT ![r] = a]
    /\ audit' = audit \cup {Entry("response", a.corr, "routed")}
    /\ UNCHANGED <<registry, files, sessions, streams, env, reply, pending>>

-----------------------------------------------------------------------------
(* reload_manifest_runtime(m) when `known` were the declared node ids.      *)
(* load_manifest forgets the old declarations first; when it raises, what   *)
(* it has entered so far stays and nothing else of the reload happens.      *)

Removed(known, m) == {n \in known \ DeclaredBy(m) : n \in Nodes /\ conn[n] # None}
ClosedBy(known, m) == {conn[n] : n \in Removed(known, m)}

(* Mutant: only calls to nodes that are gone are revoked.                   *)
RevokedByRemoval(m) ==
    {i \in Ids : pending[i] # None /\ Host[env[pending[i]].to] \notin DeclaredBy(m)}

(* Calls whose edge is gone: popped from `pending`, audited, and failed     *)
(* unless their future is already decided.                                 *)
RevokedBy(m) == {i \in Ids : /\ pending[i] # None
                             /\ <<env[pending[i]].from, env[pending[i]].to>>
                                   \notin m.edges}

(* Mutant: the sessions of removed nodes stay in `sessions`.                *)
CloseRemovedQuietly(known, m) ==
    /\ conn' = [n \in Nodes |-> IF n \in Removed(known, m) THEN None ELSE conn[n]]
    /\ queue' = [s \in Sessions |-> IF s \in ClosedBy(known, m)
                                    THEN PutNoWait(queue[s], Close) ELSE queue[s]]
    /\ UNCHANGED owner

CloseRemoved(known, m) ==
    LET closed == ClosedBy(known, m)
    IN  /\ conn' = [n \in Nodes |-> IF n \in Removed(known, m) THEN None ELSE conn[n]]
        /\ owner' = [s \in Sessions |-> IF s \in closed THEN None ELSE owner[s]]
        /\ queue' = [s \in Sessions |->
                       IF s \in closed THEN PutNoWait(queue[s], Close)
                       ELSE IF \E n \in Nodes : conn[n] = s
                       THEN PutNoWait(queue[s], Reloaded)
                       ELSE queue[s]]

(* Mutant: calls that are already decided are failed as well.              *)
RevokeCallsAlways(m) ==
    /\ pending' = [i \in Ids |-> IF i \in RevokedBy(m) THEN None ELSE pending[i]]
    /\ fut' = [r \in Reqs |-> IF \E i \in RevokedBy(m) : pending[i] = r
                              THEN "revoked" ELSE fut[r]]

RevokeCalls(m) ==
    /\ pending' = [i \in Ids |-> IF i \in RevokedBy(m) THEN None ELSE pending[i]]
    /\ fut' = [r \in Reqs |-> IF /\ fut[r] = "wait"
                                 /\ \E i \in RevokedBy(m) : pending[i] = r
                              THEN "revoked" ELSE fut[r]]

(* Mutant: the declared ids are read after the load instead of before.      *)
ReloadLate(known, m) ==
    /\ decl' = DeclaredBy(m) /\ offered' = OfferedBy(m) /\ edges' = m.edges
    /\ IF m.broken
       THEN UNCHANGED <<conn, owner, queue, pending, fut>>
       ELSE CloseRemoved(DeclaredBy(m), m) /\ RevokeCalls(m)

Reload(known, m) ==
    /\ decl' = DeclaredBy(m)
    /\ offered' = OfferedBy(m)
    /\ edges' = m.edges
    /\ IF m.broken
       THEN UNCHANGED <<conn, owner, queue, pending, fut>>
       ELSE CloseRemoved(known, m) /\ RevokeCalls(m)

(* What the core call itself and the revocations of its reload audit.       *)
CoreAudit(e, revoked) ==
    audit' = audit
        \cup {Entry("invocation", e.id, "routed"), Entry("response", e.id, "routed")}
        \cup {Entry("invocation", i, "denied_no_relationship") : i \in revoked}

InProcess(r, e, mode) ==
    /\ Admitted(r, e)
    /\ Route(e, TRUE) = "in_process"
    /\ Mode[e.to] = mode

(* state, processes, metrics, audit_query read and answer.                 *)
CoreInspect(r, e) ==
    /\ InProcess(r, e, "inspect")
    /\ Finish(r, e, "core_result")
    /\ CoreAudit(e, {})
    /\ UNCHANGED <<registry, files, sessions, streams, fut, answer, pending>>

(* spawn, stop, restart, reconcile, drain wait on the supervisor.           *)
CoreSupervise(r, e) ==
    /\ InProcess(r, e, "supervise")
    /\ env' = [env EXCEPT ![r] = e]
    /\ audit' = audit \cup AuditOf(e, "routed")
    /\ UNCHANGED <<registry, files, sessions, streams, fut, answer, reply, pending>>

CoreSupervised(r, outcome) ==
    /\ InCore(r)
    /\ outcome \in {"core_result", "core_error"}
    /\ reply' = [reply EXCEPT ![r] = outcome]
    /\ audit' = audit \cup {Entry("response", env[r].id, "routed")}
    /\ UNCHANGED <<registry, files, sessions, streams, nonces,
                   env, fut, answer, pending>>

CoreReload(r, e) ==
    /\ InProcess(r, e, "reload_manifest")
    /\ Finish(r, e, IF disk.broken THEN "core_error" ELSE "core_result")
    /\ Reload(decl, disk)
    /\ CoreAudit(e, IF disk.broken THEN {} ELSE RevokedBy(disk))
    /\ UNCHANGED <<files, issued, streams, answer>>

(* A payload that is no manifest at all is refused before the file is touched. *)
CoreSetRefused(r, e) ==
    /\ InProcess(r, e, "set_manifest")
    /\ Finish(r, e, "core_error")
    /\ CoreAudit(e, {})
    /\ UNCHANGED <<registry, files, sessions, streams, fut, answer, pending>>

(* Mutant: the backup is restored and not loaded again.                     *)
CoreSetManifestNoRollback(r, e, m) ==
    LET saved == IF disk # Missing THEN disk ELSE backup
    IN  /\ InProcess(r, e, "set_manifest")
        /\ Finish(r, e, IF m.broken THEN "core_error" ELSE "core_result")
        /\ backup' = saved
        /\ disk' = IF m.broken /\ saved # Missing THEN saved ELSE m
        /\ Reload(decl, m)
        /\ CoreAudit(e, IF m.broken THEN {} ELSE RevokedBy(m))
        /\ UNCHANGED <<issued, streams, answer>>

(* Back up the file, write m over it, reload.  If that raises and a backup  *)
(* exists, restore it and reload again, starting from what m declared.      *)
CoreSetManifest(r, e, m) ==
    LET saved   == IF disk # Missing THEN disk ELSE backup
        restore == m.broken /\ saved # Missing
        last    == IF restore THEN saved ELSE m
    IN  /\ InProcess(r, e, "set_manifest")
        /\ Finish(r, e, IF m.broken THEN "core_error" ELSE "core_result")
        /\ backup' = saved
        /\ disk' = last
        /\ Reload(IF restore THEN DeclaredBy(m) ELSE decl, last)
        /\ CoreAudit(e, IF last.broken THEN {} ELSE RevokedBy(last))
        /\ UNCHANGED <<issued, streams, answer>>

(* The operator edits or deletes the manifest file.                        *)
EditManifestFile(m) ==
    /\ disk # m
    /\ disk' = m
    /\ UNCHANGED <<registry, backup, sessions, streams, nonces, calls, audit>>

-----------------------------------------------------------------------------
Registering == \E n \in Nodes, s \in Sessions : Register(n, s)

Streaming ==
    \E t \in Streams :
        \/ \E s \in Sessions : StreamOpen(t, s)
        \/ StreamGreeted(t)
        \/ StreamTake(t)
        \/ StreamWritten(t)
        \/ StreamPutBack(t)
        \/ StreamBlocked(t)
        \/ StreamDropped(t)

Invoking ==
    \E r \in Reqs, e \in Calls :
        \/ \E kindOk, signed, fresh \in BOOLEAN : InvokeRejected(r, e, kindOk, signed, fresh)
        \/ \E valid \in BOOLEAN : InvokeDenied(r, e, valid)
        \/ InvokeNotify(r, e)
        \/ InvokeCall(r, e)

Deciding ==
    \E r \in Reqs : Expire(r) \/ Resume(r)

Responding ==
    \E a \in Answers :
        \/ \E fresh \in BOOLEAN : RespondReplayed(a, fresh)
        \/ RespondUnmatched(a)
        \/ \E r \in Reqs : RespondAccepted(a, r)

Governing ==
    \E r \in Reqs :
        \/ \E outcome \in {"core_result", "core_error"} : CoreSupervised(r, outcome)
        \/ \E e \in Calls :
              \/ CoreInspect(r, e)
              \/ CoreSupervise(r, e)
              \/ CoreReload(r, e)
              \/ CoreSetRefused(r, e)
              \/ \E m \in Payloads : CoreSetManifest(r, e, m)

Next ==
    \/ Registering
    \/ Streaming
    \/ Invoking
    \/ Deciding
    \/ Responding
    \/ Governing
    \/ \E m \in HandEdits : EditManifestFile(m)

Spec == Init /\ [][Next]_vars

(* The event loop runs every ready task: a timer fires, a decided handler   *)
(* resumes, a stream handler with an event and a live client goes on.       *)
(* Clients owe nothing: no fairness on registering, invoking, responding.   *)
Fairness ==
    /\ \A r \in Reqs : WF_vars(Expire(r)) /\ WF_vars(Resume(r))
    /\ \A t \in Streams :
          /\ WF_vars(StreamGreeted(t) \/ StreamDropped(t))
          /\ WF_vars(StreamTake(t))
          /\ WF_vars(StreamWritten(t) \/ StreamPutBack(t) \/ StreamBlocked(t))

FairSpec == Spec /\ Fairness

-----------------------------------------------------------------------------
(* Properties.                                                             *)

(* Types of the variables.                                                 *)
TypeOK ==
    /\ decl \subseteq Nodes \cup {Core}
    /\ offered \subseteq Surfaces
    /\ edges \subseteq Nodes \X Surfaces
    /\ disk \in Manifests /\ backup \in Manifests
    /\ conn \in [Nodes -> Sessions \cup {None}]
    /\ owner \in [Sessions -> Nodes \cup {None}]
    /\ queue \in [Sessions -> Seq(Events)]
    /\ issued \subseteq Sessions
    /\ stage \in [Streams -> {"unopened", "hello", "get", "write", "put", "ended"}]
    /\ attached \in [Streams -> Sessions \cup {None}]
    /\ holding \in [Streams -> Events \cup {None}]
    /\ handed \in [Ids -> Nat]
    /\ nonces \in Seq(Ids)
    /\ env \in [Reqs -> Calls \cup {None}]
    /\ fut \in [Reqs -> Futures]
    /\ answer \in [Reqs -> Answers \cup {None}]
    /\ reply \in [Reqs -> Outcomes \cup {None}]
    /\ pending \in [Ids -> Reqs \cup {None}]
    /\ audit \subseteq Entries

(* The two session tables agree: `sessions` maps a session to the node whose *)
(* connection carries that session, through registrations, replacements and *)
(* reloads.                                                                *)
SessionsMatchConnections ==
    \A n \in Nodes, s \in Sessions : owner[s] = n <=> conn[n] = s

(* An undecided call can be answered: its own id leads to it in `pending`.  *)
(* No other handler's clean-up (the unconditional pop of the finally block,  *)
(* a full queue, a reload) takes the entry of a call that still waits.      *)
WaitingIsPending ==
    \A r \in Reqs : fut[r] = "wait" => pending[env[r].id] = r

(* `pending` has no leftovers: an entry belongs to a handler that has not   *)
(* replied, whose call has that id.                                        *)
PendingIsWaiting ==
    \A i \in Ids : pending[i] # None =>
        /\ Waiting(pending[i])
        /\ env[pending[i]].id = i

(* One envelope reaches at most one stream, once: over all queues, the      *)
(* events stream handlers hold (and put back on a failed write), and those   *)
(* already written, at most one delivery carries a given id.                *)
Carries(event, i) == event \notin {None, Close, Reloaded} /\ event.env.id = i
Queued(i) == UNION {{<<s, k>> : k \in {x \in 1..Len(queue[s]) : Carries(queue[s][x], i)}} :
                        s \in Sessions}
Held(i) == {t \in Streams : Carries(holding[t], i)}
NoDuplicateDelivery ==
    \A i \in Ids : Cardinality(Queued(i)) + Cardinality(Held(i)) + handed[i] <= 1

(* A session that was replaced or closed receives nothing new: what its     *)
(* queue and its stream handlers still carry was routed while it was live.   *)
Traffic(s) == {queue[s][k] : k \in 1..Len(queue[s])}
                  \cup {holding[t] : t \in {x \in Streams : attached[x] = s}}
Dead(s) == s \in issued /\ owner[s] = None
DeadSessionsOnlyDrain ==
    [][\A s \in Sessions :
          Dead(s) => Traffic(s)' \subseteq Traffic(s) \cup {None}]_vars

(* The log of core.audit_query and the replies callers saw tell one story.   *)
(* Forth: every reply is logged, but for the two that _route_invocation       *)
(* makes without an entry, bad_kind and bad_surface_id: a refusal under its   *)
(* own decision, what was let through as `routed`, its answer as a response,  *)
(* and how it ended.  Back: every entry is the story of a call, and a logged  *)
(* timeout or refusal is what that caller was told, save that a reload logs   *)
(* a call as revoked whose future is already decided but whose handler has    *)
(* not run yet.                                                            *)
CoreReplies == {"core_result", "core_error"}
Logged(about, r, decision) == Entry(about, env[r].id, decision) \in audit
LetThrough(r) == fut[r] # "none" \/ InCore(r) \/ reply[r] \in CoreReplies \cup {"accepted"}
Responded(r) == fut[r] = "result" \/ reply[r] \in CoreReplies
Explains(r, x) ==
    /\ env[r] # None /\ x.id = env[r].id
    /\ \/ x.about = "response" /\ x.decision = "routed" /\ Responded(r)
       \/ /\ x.about = "invocation"
          /\ \/ x.decision = "routed" /\ LetThrough(r)
             \/ /\ x.decision = "denied_no_relationship"
                /\ fut[r] \in {"revoked", "result", "cancelled"}
             \/ x.decision = reply[r]
OfReplay(x) == x.about = "response" /\ x.decision = "denied_replay"
AuditTellsReply ==
    /\ \A r \in Reqs :
          /\ LetThrough(r) => Logged("invocation", r, "routed")
          /\ reply[r] \in {"answered"} \cup CoreReplies => Logged("response", r, "routed")
          /\ reply[r] = "revoked" => Logged("invocation", r, "denied_no_relationship")
          /\ reply[r] \in Decisions => Logged("invocation", r, reply[r])
    /\ \A x \in audit : OfReplay(x) \/ \E r \in Reqs : Explains(r, x)

(* Once a reload has succeeded no call is left in flight whose edge the     *)
(* running manifest does not have (SPEC 5.4).                              *)
PendingHasEdge ==
    Loaded => \A i \in Ids : pending[i] # None =>
                 <<env[pending[i]].from, env[pending[i]].to>> \in edges

(* What the replies of the two governing surfaces promise.  A result: the     *)
(* file loads, and it is what runs.  An error of core.set_manifest, when the  *)
(* file in place loads: that file runs, whole, after the rollback or because  *)
(* nothing was touched; and if it was running before, the failed attempt has  *)
(* left no trace, no call was revoked and no declared node disconnected.  Any *)
(* error: a file that existed is as it was.  An error of core.reload_manifest *)
(* promises nothing of the registry (see CoreAlwaysPresent).                 *)
RunningIsDisk ==
    /\ decl = DeclaredBy(disk)
    /\ offered = OfferedBy(disk)
    /\ edges = disk.edges
Sets(r) == env[r] # None /\ Mode[env[r].to] = "set_manifest"
Governs(r) == Sets(r) \/ (env[r] # None /\ Mode[env[r].to] = "reload_manifest")
Replied(r, outcome) == reply[r] = None /\ reply'[r] = outcome
LeavesNoTrace ==
    /\ UNCHANGED <<registry, disk, pending, fut>>
    /\ \A n \in decl \cap Nodes : conn'[n] = conn[n]
ManifestReplacedWhole ==
    [][\A r \in Reqs :
          /\ Replied(r, "core_result") /\ Governs(r)' => ~disk'.broken /\ RunningIsDisk'
          /\ Replied(r, "core_error") /\ Sets(r)' /\ ~disk.broken =>
                RunningIsDisk' \/ UNCHANGED registry
          /\ Replied(r, "core_error") /\ Sets(r)' /\ Loaded /\ RunningIsDisk =>
                LeavesNoTrace
          /\ Replied(r, "core_error") /\ disk # Missing => disk' = disk]_vars

(* Every connected node is declared by the running manifest (SPEC 5.4: the   *)
(* sessions of removed nodes are closed).                                  *)
ConnectedAreDeclared ==
    Loaded => \A n \in Nodes : conn[n] # None => n \in decl

(* The caller's view: this specification implements CallContract.           *)
TargetOf(e) == Host[e.to]
Verdict(r) ==
    CASE fut[r] = "result" -> <<"answered", answer[r]>>
      [] fut[r] = "revoked" -> <<"revoked">>
      [] fut[r] = "cancelled" -> <<"expired">>
      [] OTHER -> None
Told(r) ==
    CASE reply[r] = None -> None
      [] reply[r] = "answered" -> <<"answered", answer[r]>>
      [] OTHER -> <<reply[r]>>
Contract == INSTANCE CallContract WITH
    asked <- env,
    verdict <- [r \in Reqs |-> Verdict(r)],
    told <- [r \in Reqs |-> Told(r)]
ContractSpec == Contract!Spec

(* Every call that waits is replied to, whatever responders, reloads and     *)
(* streams do: by the answer, the revocation or the timer.                  *)
EveryCallReplied == \A r \in Reqs : Waiting(r) ~> reply[r] # None

(* A close marker in a queue that a stream handler still reads is consumed,  *)
(* or the handlers are gone: a replaced or removed node's stream ends.      *)
Reading(s) == \E t \in Streams : attached[t] = s /\ stage[t] \in {"hello", "get", "write"}
CloseConsumed ==
    \A s \in Sessions :
        (Close \in Traffic(s) /\ Reading(s)) ~> (Close \notin Traffic(s) \/ ~Reading(s))

(* SPEC 5.1: core is present in every running mesh.                         *)
CoreAlwaysPresent == Core \in decl
=============================================================================

---------------------------- MODULE BrokerProofs ----------------------------
(***************************************************************************)
(* Theorems about Broker, for every value of its constants.                 *)
(***************************************************************************)
EXTENDS Broker, FiniteSetTheorems, TLAPS

(***************************************************************************)
(* Typing.  TypeOK is not inductive as it stands: a stream handler must     *)
(* have a session once it is open and an event while it writes, and a       *)
(* handler with a future must have an envelope.                             *)
(***************************************************************************)
StreamsAttached ==
    \A t \in Streams :
        /\ stage[t] # "unopened" => attached[t] \in Sessions
        /\ stage[t] \in {"write", "put"} => holding[t] \in Events

FuturesAsked == \A r \in Reqs : fut[r] # "none" => env[r] \in Calls

TypeInv == TypeOK /\ StreamsAttached /\ FuturesAsked

(* What put_nowait returns is a queue.                                     *)
LEMMA PutNoWaitType ==
    ASSUME NEW q \in Seq(Events), NEW event \in Events
    PROVE  PutNoWait(q, event) \in Seq(Events)
BY DEF PutNoWait

(* The audit entries of a verdict are entries.                             *)
LEMMA AuditOfType ==
    ASSUME NEW e \in Calls, NEW verdict \in Decisions \cup Unaudited
    PROVE  AuditOf(e, verdict) \subseteq Entries
BY EnvelopesAssumption DEF AuditOf, Entry, Entries, Decisions, Unaudited

(* RememberNonce keeps the LRU a sequence of ids.                          *)
LEMMA RememberNonceType ==
    ASSUME nonces \in Seq(Ids), NEW id \in Ids, RememberNonce(id)
    PROVE  nonces' \in Seq(Ids)
<1>1. CASE Len(nonces) < NonceMax BY <1>1 DEF RememberNonce
<1>2. CASE ~(Len(nonces) < NonceMax)
  <2>1. nonces # <<>> BY <1>2, BoundsAssumption
  <2>2. Tail(nonces) \in Seq(Ids) BY <2>1
  <2> QED BY <1>2, <2>2 DEF RememberNonce
<1> QED BY <1>1, <1>2

(* The events of a queue.                                                  *)
LEMMA EventTypes ==
    /\ Close \in Events /\ Reloaded \in Events
    /\ \A e \in Calls : Deliver(e) \in Events
BY DEF Events

\* The types hold at the start.
LEMMA TypeInit == Init => TypeInv
BY SurfacesAssumption, ManifestsAssumption, BoundsAssumption
   DEF Init, TypeInv, TypeOK, StreamsAttached, FuturesAsked, DeclaredBy, OfferedBy,
       CoreSurfaces, Futures

(* A reload gives every variable it assigns a value of its type.           *)
LEMMA ReloadType ==
    ASSUME TypeInv, NEW known, NEW m \in Manifests, Reload(known, m)
    PROVE  /\ decl' \subseteq Nodes \cup {Core}
           /\ offered' \subseteq Surfaces
           /\ edges' \subseteq Nodes \X Surfaces
           /\ conn' \in [Nodes -> Sessions \cup {None}]
           /\ owner' \in [Sessions -> Nodes \cup {None}]
           /\ queue' \in [Sessions -> Seq(Events)]
           /\ pending' \in [Ids -> Reqs \cup {None}]
           /\ fut' \in [Reqs -> Futures]
           /\ \A r \in Reqs : fut'[r] # "none" => fut[r] # "none"
<1> USE DEF TypeInv, TypeOK
<1>1. decl' \subseteq Nodes \cup {Core} /\ offered' \subseteq Surfaces
      /\ edges' \subseteq Nodes \X Surfaces
  BY ManifestsAssumption DEF Reload, DeclaredBy, OfferedBy, CoreSurfaces
<1>2. CASE m.broken
  BY <1>1, <1>2 DEF Reload
<1>3. CASE ~m.broken
  <2>1. conn' \in [Nodes -> Sessions \cup {None}]
        /\ owner' \in [Sessions -> Nodes \cup {None}]
    BY <1>3 DEF Reload, CloseRemoved
  <2>2. queue' \in [Sessions -> Seq(Events)]
    <3>1. \A s \in Sessions : /\ PutNoWait(queue[s], Close) \in Seq(Events)
                              /\ PutNoWait(queue[s], Reloaded) \in Seq(Events)
      BY PutNoWaitType, EventTypes
    <3>2. queue' = [s \in Sessions |-> queue'[s]]
          /\ \A s \in Sessions : queue'[s] \in {PutNoWait(queue[s], Close),
                                     PutNoWait(queue[s], Reloaded), queue[s]}
      BY <1>3 DEF Reload, CloseRemoved
    <3> HIDE DEF TypeInv
    <3> QED BY <3>1, <3>2 DEF TypeInv
  <2>3. pending' \in [Ids -> Reqs \cup {None}]
    BY <1>3 DEF Reload, RevokeCalls
  <2>4. fut' \in [Reqs -> Futures] /\ \A r \in Reqs : fut'[r] # "none" => fut[r] # "none"
    <3> DEFINE cut(r) == fut[r] = "wait" /\ \E i \in RevokedBy(m) : pending[i] = r
    <3>1. fut' = [r \in Reqs |-> IF cut(r) THEN "revoked" ELSE fut[r]]
      BY <1>3 DEF Reload, RevokeCalls
    <3>2. \A r \in Reqs : cut(r) => fut[r] = "wait"
      OBVIOUS
    <3> HIDE DEF cut
    <3>3. \A r \in Reqs : fut[r] \in Futures /\ "revoked" \in Futures
      BY DEF Futures
    <3> QED BY <3>1, <3>2, <3>3
  <2> QED BY <1>1, <2>1, <2>2, <2>3, <2>4
<1> QED BY <1>2, <1>3

(* The verdicts of the two groups of checks.                               *)
LEMMA VerdictTypes ==
    ASSUME NEW e \in Calls, NEW kindOk, NEW signed, NEW fresh, NEW valid
    PROVE  /\ Gate(e, kindOk, signed, fresh) # "open" =>
                Gate(e, kindOk, signed, fresh) \in (Decisions \cup Unaudited) \cap Outcomes
           /\ Route(e, valid) \notin {"in_process", "routed"} =>
                Route(e, valid) \in (Decisions \cup Unaudited) \cap Outcomes
BY DEF Gate, Route, Decisions, Unaudited, Outcomes

(* Whatever the revocations, CoreAudit adds audit entries.                 *)
LEMMA CoreAuditType ==
    ASSUME audit \subseteq Entries, NEW e \in Calls, NEW revoked \in SUBSET Ids,
           CoreAudit(e, revoked)
    PROVE  audit' \subseteq Entries
BY EnvelopesAssumption DEF CoreAudit, Entry, Entries, Decisions

\* Every step keeps the types.
LEMMA TypeNext == TypeInv /\ [Next]_vars => TypeInv'
<1> SUFFICES ASSUME TypeInv, [Next]_vars PROVE TypeInv'
  OBVIOUS
<1> USE DEF TypeInv, TypeOK, StreamsAttached, FuturesAsked,
            registry, files, sessions, streams, calls
<1>1. ASSUME NEW n \in Nodes, NEW s \in Sessions, Register(n, s) PROVE TypeInv'
  <2>1. \A x \in Sessions : PutNoWait(queue[x], Close) \in Seq(Events)
    BY PutNoWaitType, EventTypes
  <2>2. queue' \in [Sessions -> Seq(Events)]
    BY <1>1, <2>1 DEF Register
  <2> QED BY <1>1, <2>2 DEF Register
<1>2. ASSUME NEW t \in Streams, NEW s \in Sessions, StreamOpen(t, s) PROVE TypeInv'
  BY <1>2 DEF StreamOpen
<1>3. ASSUME NEW t \in Streams, StreamGreeted(t) PROVE TypeInv'
  BY <1>3 DEF StreamGreeted
<1>4. ASSUME NEW t \in Streams, StreamTake(t) PROVE TypeInv'
  <2>1. attached[t] \in Sessions
    BY <1>4 DEF StreamTake
  <2>2. /\ Head(queue[attached[t]]) \in Events
        /\ Tail(queue[attached[t]]) \in Seq(Events)
    BY <1>4, <2>1 DEF StreamTake
  <2> QED BY <1>4, <2>1, <2>2 DEF StreamTake
<1>5. ASSUME NEW t \in Streams, StreamWritten(t) PROVE TypeInv'
  <2>1. handed' \in [Ids -> Nat]
    <3> DEFINE i == holding[t].env.id
    <3>1. handed' = handed \/ handed' = [handed EXCEPT ![i] = handed[i] + 1]
      BY <1>5 DEF StreamWritten
    <3> HIDE DEF i
    <3>2. \A j \in Ids : handed[j] \in Nat /\ handed[j] + 1 \in Nat
      OBVIOUS
    <3> QED BY <3>1, <3>2
  <2>2. stage' \in [Streams -> {"unopened", "hello", "get", "write", "put", "ended"}]
        /\ holding' \in [Streams -> Events \cup {None}]
    BY <1>5 DEF StreamWritten
  <2> QED BY <1>5, <2>1, <2>2 DEF StreamWritten
<1>6. ASSUME NEW t \in Streams, StreamPutBack(t) PROVE TypeInv'
  <2>1. attached[t] \in Sessions /\ holding[t] \in Events
    BY <1>6 DEF StreamPutBack
  <2> QED BY <1>6, <2>1 DEF StreamPutBack
<1>7. ASSUME NEW t \in Streams, StreamBlocked(t) PROVE TypeInv'
  BY <1>7 DEF StreamBlocked
<1>8. ASSUME NEW t \in Streams, StreamDropped(t) PROVE TypeInv'
  BY <1>8 DEF StreamDropped
<1>9. ASSUME NEW r \in Reqs, NEW e \in Calls, NEW kindOk \in BOOLEAN,
             NEW signed \in BOOLEAN, NEW fresh \in BOOLEAN,
             InvokeRejected(r, e, kindOk, signed, fresh)
      PROVE  TypeInv'
  <2> DEFINE verdict == Gate(e, kindOk, signed, fresh)
  <2>1. verdict \in (Decisions \cup Unaudited) \cap Outcomes
    BY <1>9, VerdictTypes DEF InvokeRejected
  <2>2. AuditOf(e, verdict) \subseteq Entries
    BY <2>1, AuditOfType
  <2>3. env' = [env EXCEPT ![r] = e] /\ reply' = [reply EXCEPT ![r] = verdict]
        /\ audit' = audit \cup AuditOf(e, verdict)
        /\ UNCHANGED <<registry, files, sessions, streams, nonces, fut, answer, pending>>
    BY <1>9 DEF InvokeRejected, Finish
  <2> HIDE DEF verdict
  <2> QED BY <2>1, <2>2, <2>3
<1>10. ASSUME NEW r \in Reqs, NEW e \in Calls, NEW valid \in BOOLEAN,
              InvokeDenied(r, e, valid)
       PROVE  TypeInv'
  <2> DEFINE verdict == Route(e, valid)
  <2>1. verdict \in (Decisions \cup Unaudited) \cap Outcomes
    BY <1>10, VerdictTypes DEF InvokeDenied
  <2>2. AuditOf(e, verdict) \subseteq Entries
    BY <2>1, AuditOfType
  <2>3. nonces' \in Seq(Ids)
    BY <1>10, RememberNonceType, EnvelopesAssumption DEF InvokeDenied, Admitted
  <2>4. /\ env' = [env EXCEPT ![r] = e] /\ reply' = [reply EXCEPT ![r] = verdict]
        /\ audit' = audit \cup AuditOf(e, verdict)
        /\ pending' \in {pending, [pending EXCEPT ![e.id] = None]}
        /\ UNCHANGED <<registry, files, sessions, streams, fut, answer>>
    BY <1>10 DEF InvokeDenied, Finish
  <2> HIDE DEF verdict
  <2> QED BY <2>1, <2>2, <2>3, <2>4
<1>11. ASSUME NEW r \in Reqs, NEW e \in Calls, Enqueued(e), Admitted(r, e)
       PROVE  /\ queue' \in [Sessions -> Seq(Events)]
              /\ audit' \subseteq Entries
              /\ nonces' \in Seq(Ids)
  <2>1. audit' \subseteq Entries
    <3>1. AuditOf(e, "routed") \subseteq Entries
      BY AuditOfType DEF Decisions
    <3>2. audit' = audit \cup AuditOf(e, "routed")
      BY <1>11 DEF Enqueued
    <3> QED BY <3>1, <3>2
  <2>2. nonces' \in Seq(Ids)
    BY <1>11, RememberNonceType, EnvelopesAssumption DEF Admitted
  <2>3. queue' \in [Sessions -> Seq(Events)]
    <3> DEFINE s == conn[Host[e.to]]
    <3>1. queue' = [queue EXCEPT ![s] = Append(queue[s], Deliver(e))]
      BY <1>11 DEF Enqueued
    <3>2. \A x \in Sessions : Append(queue[x], Deliver(e)) \in Seq(Events)
      BY EventTypes
    <3> HIDE DEF s
    <3> QED BY <3>1, <3>2
  <2> QED BY <1>11, <2>1, <2>2, <2>3 DEF Enqueued
<1>12. ASSUME NEW r \in Reqs, NEW e \in Calls, InvokeNotify(r, e) PROVE TypeInv'
  BY <1>11, <1>12 DEF InvokeNotify, Finish, Outcomes
<1>13. ASSUME NEW r \in Reqs, NEW e \in Calls, InvokeCall(r, e) PROVE TypeInv'
  BY <1>11, <1>13, EnvelopesAssumption DEF InvokeCall, Futures
<1>14. ASSUME NEW r \in Reqs, Expire(r) PROVE TypeInv'
  BY <1>14 DEF Expire, Futures
<1>15. ASSUME NEW r \in Reqs, Resume(r) PROVE TypeInv'
  <2>1. PICK outcome \in {"answered", "revoked", "timeout"} : ResumedWith(r, outcome)
    BY <1>15 DEF Resume
  <2>2. outcome \in Outcomes
    BY DEF Outcomes, Decisions
  <2>3. Entry("invocation", env[r].id, "timeout") \in Entries
    BY <1>15, EnvelopesAssumption DEF Resume, Waiting, Entry, Entries, Decisions
  <2> QED BY <2>1, <2>2, <2>3 DEF ResumedWith
<1>16. ASSUME NEW a \in Answers, NEW fresh \in BOOLEAN, RespondReplayed(a, fresh)
       PROVE TypeInv'
  <2>1. Entry("response", a.corr, "denied_replay") \in Entries
    BY EnvelopesAssumption DEF Entry, Entries, Decisions
  <2> QED BY <1>16, <2>1 DEF RespondReplayed
<1>17. ASSUME NEW a \in Answers, RespondUnmatched(a) PROVE TypeInv'
  <2>1. nonces' \in Seq(Ids)
    BY <1>17, RememberNonceType, EnvelopesAssumption DEF RespondUnmatched, Fresh
  <2> QED BY <1>17, <2>1 DEF RespondUnmatched
<1>18. ASSUME NEW a \in Answers, NEW r \in Reqs, RespondAccepted(a, r) PROVE TypeInv'
  <2>1. nonces' \in Seq(Ids)
    BY <1>18, RememberNonceType, EnvelopesAssumption DEF RespondAccepted, Fresh
  <2>2. Entry("response", a.corr, "routed") \in Entries
    BY EnvelopesAssumption DEF Entry, Entries, Decisions
  <2>3. fut[r] # "none"
    BY <1>18 DEF RespondAccepted, Decides
  <2> QED BY <1>18, <2>1, <2>2, <2>3 DEF RespondAccepted, Futures
<1>19. ASSUME NEW r \in Reqs, NEW outcome \in {"core_result", "core_error"},
              CoreSupervised(r, outcome)
       PROVE  TypeInv'
  <2>1. env[r] \in Calls /\ outcome \in Outcomes
    BY <1>19 DEF CoreSupervised, InCore, Outcomes
  <2>2. Entry("response", env[r].id, "routed") \in Entries
    BY <2>1, EnvelopesAssumption DEF Entry, Entries, Decisions
  <2> QED BY <1>19, <2>1, <2>2 DEF CoreSupervised
<1>20. ASSUME NEW r \in Reqs, NEW e \in Calls, NEW mode, InProcess(r, e, mode)
       PROVE  nonces' \in Seq(Ids)
  BY <1>20, RememberNonceType, EnvelopesAssumption DEF InProcess, Admitted
<1>21. {"core_result", "core_error"} \subseteq Outcomes
  BY DEF Outcomes
<1>22. ASSUME NEW r \in Reqs, NEW e \in Calls, CoreInspect(r, e) PROVE TypeInv'
  <2>1. audit' \subseteq Entries
    BY <1>22, CoreAuditType DEF CoreInspect
  <2> QED BY <1>20, <1>21, <1>22, <2>1 DEF CoreInspect, Finish
<1>23. ASSUME NEW r \in Reqs, NEW e \in Calls, CoreSupervise(r, e) PROVE TypeInv'
  <2>1. AuditOf(e, "routed") \subseteq Entries
    BY AuditOfType DEF Decisions
  <2> QED BY <1>20, <1>23, <2>1 DEF CoreSupervise
<1>24. ASSUME NEW r \in Reqs, NEW e \in Calls, CoreReload(r, e) PROVE TypeInv'
  <2>1. audit' \subseteq Entries
    BY <1>24, CoreAuditType DEF CoreReload, RevokedBy
  <2>2. Reload(decl, disk) /\ disk \in Manifests
    BY <1>24 DEF CoreReload
  <2>3. \A x \in Reqs : fut'[x] # "none" => fut[x] # "none"
    BY <2>2, ReloadType
  <2> QED BY <1>20, <1>21, <1>24, <2>1, <2>2, <2>3, ReloadType DEF CoreReload, Finish
<1>25. ASSUME NEW r \in Reqs, NEW e \in Calls, CoreSetRefused(r, e) PROVE TypeInv'
  <2>1. audit' \subseteq Entries
    BY <1>25, CoreAuditType DEF CoreSetRefused
  <2> QED BY <1>20, <1>21, <1>25, <2>1 DEF CoreSetRefused, Finish
<1>26. ASSUME NEW r \in Reqs, NEW e \in Calls, NEW m \in Payloads, CoreSetManifest(r, e, m)
       PROVE  TypeInv'
  <2> DEFINE saved == IF disk # Missing THEN disk ELSE backup
             last  == IF m.broken /\ saved # Missing THEN saved ELSE m
             known == IF m.broken /\ saved # Missing THEN DeclaredBy(m) ELSE decl
  <2>1. saved \in Manifests /\ last \in Manifests
    BY ManifestsAssumption
  <2>2. Reload(known, last) /\ backup' = saved /\ disk' = last
    BY <1>26 DEF CoreSetManifest
  <2>3. CoreAudit(e, IF last.broken THEN {} ELSE RevokedBy(last))
    BY <1>26 DEF CoreSetManifest
  <2> HIDE DEF saved, last, known
  <2>4. audit' \subseteq Entries
    BY <2>3, CoreAuditType DEF RevokedBy
  <2>5. \A x \in Reqs : fut'[x] # "none" => fut[x] # "none"
    BY <2>1, <2>2, ReloadType
  <2>6. InProcess(r, e, "set_manifest")
        /\ Finish(r, e, IF m.broken THEN "core_error" ELSE "core_result")
        /\ UNCHANGED <<issued, streams, answer>>
    BY <1>26 DEF CoreSetManifest
  <2> QED BY <1>20, <1>21, <2>1, <2>2, <2>4, <2>5, <2>6, ReloadType DEF Finish
<1>27. ASSUME NEW m \in HandEdits, EditManifestFile(m) PROVE TypeInv'
  BY <1>27, ManifestsAssumption DEF EditManifestFile
<1>28. CASE UNCHANGED vars
  BY <1>28 DEF vars
<1> QED
  BY ZenonT(60), <1>1, <1>2, <1>3, <1>4, <1>5, <1>6, <1>7, <1>8, <1>9, <1>10, <1>12, <1>13, <1>14,
     <1>15, <1>16, <1>17, <1>18, <1>19, <1>22, <1>23, <1>24, <1>25, <1>26, <1>27, <1>28
  DEF Next, Registering, Streaming, Invoking, Deciding, Responding, Governing

(* Every variable keeps its type.                                          *)
THEOREM TypeCorrect == Spec => []TypeOK
<1>1. TypeInv => TypeOK
  BY DEF TypeInv
<1> QED BY <1>1, TypeInit, TypeNext, PTL DEF Spec

(***************************************************************************)
(* Sessions.  A session of `connections` was issued, so that the fresh one   *)
(* of a registration is in neither table.                                  *)
(***************************************************************************)
ConnectedIssued == \A n \in Nodes : conn[n] # None => conn[n] \in issued

SessionInv == SessionsMatchConnections /\ ConnectedIssued

(* The core call that replaces the manifest is one reload, with some set of  *)
(* known nodes and some manifest that is on disk afterwards.               *)
LEMMA SetManifestReloads ==
    ASSUME TypeOK, NEW r \in Reqs, NEW e \in Calls, NEW m \in Payloads,
           CoreSetManifest(r, e, m)
    PROVE  \E known, last :
              /\ last \in Manifests
              /\ Reload(known, last)
              /\ CoreAudit(e, IF last.broken THEN {} ELSE RevokedBy(last))
<1> DEFINE saved == IF disk # Missing THEN disk ELSE backup
           last  == IF m.broken /\ saved # Missing THEN saved ELSE m
           known == IF m.broken /\ saved # Missing THEN DeclaredBy(m) ELSE decl
<1>1. last \in Manifests
  BY ManifestsAssumption DEF TypeOK
<1>2. Reload(known, last) /\ CoreAudit(e, IF last.broken THEN {} ELSE RevokedBy(last))
  BY DEF CoreSetManifest
<1> QED BY <1>1, <1>2

(* Only registrations and reloads touch the session tables.                *)
LEMMA SessionSteps ==
    ASSUME TypeOK, [Next]_vars
    PROVE  \/ UNCHANGED <<conn, owner, issued>>
           \/ \E n \in Nodes, s \in Sessions : Register(n, s)
           \/ issued' = issued /\ \E known, m : m \in Manifests /\ Reload(known, m)
<1> USE DEF sessions
<1>1. CASE Registering BY <1>1 DEF Registering
<1>2. CASE Streaming
  BY <1>2 DEF Streaming, StreamOpen, StreamGreeted, StreamTake, StreamWritten,
              StreamPutBack, StreamBlocked, StreamDropped
<1>3. CASE Invoking
  <2> SUFFICES ASSUME NEW r \in Reqs, NEW e \in Calls,
                      \/ \E kindOk, signed, fresh \in BOOLEAN :
                            InvokeRejected(r, e, kindOk, signed, fresh)
                      \/ \E valid \in BOOLEAN : InvokeDenied(r, e, valid)
                      \/ InvokeNotify(r, e)
                      \/ InvokeCall(r, e)
               PROVE  UNCHANGED <<conn, owner, issued>>
    BY <1>3 DEF Invoking
  <2> QED BY DEF InvokeRejected, InvokeDenied, InvokeNotify, InvokeCall
<1>4. CASE Deciding BY <1>4 DEF Deciding, Expire, Resume, ResumedWith
<1>5. CASE Responding
  BY <1>5 DEF Responding, RespondReplayed, RespondUnmatched, RespondAccepted
<1>6. CASE Governing
  <2>1. ASSUME NEW r \in Reqs, NEW e \in Calls, CoreReload(r, e)
        PROVE  issued' = issued /\ \E known, m : m \in Manifests /\ Reload(known, m)
    BY <2>1 DEF CoreReload, TypeOK
  <2>2. ASSUME NEW r \in Reqs, NEW e \in Calls, NEW m \in Payloads, CoreSetManifest(r, e, m)
        PROVE  issued' = issued /\ \E known, last : last \in Manifests /\ Reload(known, last)
    BY <2>2, SetManifestReloads DEF CoreSetManifest
  <2> QED BY <1>6, <2>1, <2>2 DEF Governing, CoreSupervised, CoreInspect, CoreSupervise,
                                  CoreSetRefused
<1>7. CASE \E m \in HandEdits : EditManifestFile(m) BY <1>7 DEF EditManifestFile
<1>8. CASE UNCHANGED vars BY <1>8 DEF vars
<1> QED BY <1>1, <1>2, <1>3, <1>4, <1>5, <1>6, <1>7, <1>8 DEF Next

\* Every step keeps each session with one node.
LEMMA SessionNext == TypeInv /\ SessionInv /\ [Next]_vars => SessionInv'
<1> SUFFICES ASSUME TypeInv, SessionInv, [Next]_vars PROVE SessionInv'
  OBVIOUS
<1> USE SurfacesAssumption, EnvelopesAssumption
    DEF SessionInv, SessionsMatchConnections, ConnectedIssued, TypeInv, TypeOK
<1>1. ASSUME NEW n \in Nodes, NEW s \in Sessions, Register(n, s) PROVE SessionInv'
  BY <1>1 DEF Register
<1>2. ASSUME issued' = issued, NEW known, NEW m \in Manifests, Reload(known, m)
      PROVE  SessionInv'
  <2>1. CASE m.broken BY <1>2, <2>1 DEF Reload
  <2>2. CASE ~m.broken
    <3>1. CloseRemoved(known, m) BY <1>2, <2>2 DEF Reload
    <3> QED BY <1>2, <3>1 DEF CloseRemoved, ClosedBy, Removed
  <2> QED BY <2>1, <2>2
<1>3. CASE UNCHANGED <<conn, owner, issued>> BY <1>3
<1> QED BY <1>1, <1>2, <1>3, SessionSteps

(* The session tables agree in every reachable state.                      *)
THEOREM SessionTablesAgree == Spec => []SessionsMatchConnections
<1>1. Init => SessionInv
  BY SurfacesAssumption, EnvelopesAssumption
     DEF Init, SessionInv, SessionsMatchConnections, ConnectedIssued
<1>2. SessionInv => SessionsMatchConnections
  BY DEF SessionInv
<1> QED BY <1>1, <1>2, TypeInit, TypeNext, SessionNext, PTL DEF Spec

(***************************************************************************)
(* In-flight calls and the edges of the running manifest.  An entry of       *)
(* `pending` is a request that made a call with that id and got a future;    *)
(* an idle request has neither future nor reply.                            *)
(***************************************************************************)
IdleIsBlank == \A r \in Reqs : env[r] = None => fut[r] = "none" /\ reply[r] = None

PendingAsked ==
    \A i \in Ids : pending[i] # None =>
        fut[pending[i]] # "none" /\ env[pending[i]].id = i

EdgeInv == IdleIsBlank /\ PendingAsked /\ PendingHasEdge

(* A reload keeps the entries whose edge the new manifest has.              *)
LEMMA ReloadEdges ==
    ASSUME TypeInv, EdgeInv, NEW known, NEW m \in Manifests, Reload(known, m),
           NEW r \in Reqs, Idle(r), NEW e \in Calls, NEW outcome \in Outcomes,
           Finish(r, e, outcome)
    PROVE  EdgeInv'
<1> USE SurfacesAssumption, EnvelopesAssumption, ManifestsAssumption
    DEF EdgeInv, IdleIsBlank, PendingAsked, PendingHasEdge, TypeInv, TypeOK, Idle, Finish
<1>1. CASE m.broken
  <2>1. ~Loaded'
    BY <1>1 DEF Reload, DeclaredBy, Loaded
  <2> QED BY <1>1, <2>1 DEF Reload
<1>2. CASE ~m.broken
  <2>1. RevokeCalls(m) /\ edges' = m.edges
    BY <1>2 DEF Reload
  <2>2. \A q \in Reqs : fut'[q] # "none" <=> fut[q] # "none"
    BY <2>1 DEF RevokeCalls
  <2>3. \A i \in Ids : pending'[i] # None =>
           pending'[i] = pending[i] /\ i \notin RevokedBy(m)
    BY <2>1 DEF RevokeCalls
  <2>4. \A i \in Ids : pending'[i] # None =>
           <<env[pending[i]].from, env[pending[i]].to>> \in edges'
    BY <2>1, <2>3 DEF RevokedBy
  <2>5. \A i \in Ids : pending'[i] # None => env'[pending[i]] = env[pending[i]]
    BY <2>3
  <2>6. IdleIsBlank'
    BY <2>2
  <2>7. PendingAsked'
    BY <2>2, <2>3, <2>5
  <2>8. PendingHasEdge'
    <3> SUFFICES ASSUME NEW i \in Ids, pending'[i] # None
                 PROVE  <<env'[pending'[i]].from, env'[pending'[i]].to>> \in edges'
      OBVIOUS
    <3>1. pending'[i] = pending[i] /\ env'[pending[i]] = env[pending[i]]
      BY <2>3, <2>5
    <3>2. <<env[pending[i]].from, env[pending[i]].to>> \in edges'
      BY <2>4
    <3> QED BY <3>1, <3>2
  <2> QED BY <2>6, <2>7, <2>8
<1> QED BY <1>1, <1>2

\* No call is pending at the start.
LEMMA EdgeInit == Init => EdgeInv
BY DEF Init, EdgeInv, IdleIsBlank, PendingAsked, PendingHasEdge

\* Every step keeps the pending calls asked for and within an edge.
LEMMA EdgeNext == TypeInv /\ EdgeInv /\ [Next]_vars => EdgeInv'
<1> SUFFICES ASSUME TypeInv, EdgeInv, [Next]_vars PROVE EdgeInv'
  OBVIOUS
<1> USE SurfacesAssumption, EnvelopesAssumption
    DEF EdgeInv, IdleIsBlank, PendingAsked, PendingHasEdge, TypeInv, TypeOK, FuturesAsked,
        registry, calls, Loaded, Idle, Finish, Admitted
<1>1. CASE Registering BY <1>1 DEF Registering, Register
<1>2. CASE Streaming
  BY <1>2 DEF Streaming, StreamOpen, StreamGreeted, StreamTake, StreamWritten,
              StreamPutBack, StreamBlocked, StreamDropped
<1>3. ASSUME NEW r \in Reqs, NEW e \in Calls, NEW kindOk, NEW signed, NEW fresh,
             InvokeRejected(r, e, kindOk, signed, fresh)
      PROVE  EdgeInv'
  BY <1>3 DEF InvokeRejected
<1>4. ASSUME NEW r \in Reqs, NEW e \in Calls, NEW valid, InvokeDenied(r, e, valid)
      PROVE  EdgeInv'
  BY <1>4 DEF InvokeDenied
<1>5. ASSUME NEW r \in Reqs, NEW e \in Calls, InvokeNotify(r, e) PROVE EdgeInv'
  BY <1>5 DEF InvokeNotify
<1>6. ASSUME NEW r \in Reqs, NEW e \in Calls, InvokeCall(r, e) PROVE EdgeInv'
  <2>1. <<e.from, e.to>> \in edges
    BY <1>6 DEF InvokeCall, Route
  <2>2. \A i \in Ids : pending[i] # None => pending[i] # r
    BY <1>6 DEF InvokeCall
  <2>3. IdleIsBlank' /\ PendingAsked'
    BY <1>6, <2>2 DEF InvokeCall
  <2>4. PendingHasEdge'
    <3> SUFFICES ASSUME Loaded', NEW i \in Ids, pending'[i] # None
                 PROVE  <<env'[pending'[i]].from, env'[pending'[i]].to>> \in edges'
      OBVIOUS
    <3>1. Loaded /\ edges' = edges
      BY <1>6 DEF InvokeCall
    <3>2. CASE i = e.id
      <4>1. pending'[i] = r /\ env'[r] = e
        BY <1>6, <3>2 DEF InvokeCall
      <4> QED BY <2>1, <3>1, <4>1
    <3>3. CASE i # e.id
      <4>1. pending'[i] = pending[i] /\ env'[pending[i]] = env[pending[i]]
        BY <1>6, <2>2, <3>3 DEF InvokeCall
      <4>2. <<env[pending[i]].from, env[pending[i]].to>> \in edges
        BY <3>1, <4>1
      <4> QED BY <3>1, <4>1, <4>2
    <3> QED BY <3>2, <3>3
  <2> QED BY <2>3, <2>4
<1>7. ASSUME NEW r \in Reqs, Expire(r) PROVE EdgeInv'
  BY <1>7 DEF Expire
<1>8. ASSUME NEW r \in Reqs, Resume(r) PROVE EdgeInv'
  <2>1. /\ pending' = [pending EXCEPT ![env[r].id] = None]
        /\ \E outcome : reply' = [reply EXCEPT ![r] = outcome]
        /\ UNCHANGED <<registry, env, fut>>
    BY <1>8 DEF Resume, ResumedWith
  <2>2. fut[r] # "none"
    BY <1>8 DEF Resume, Waiting
  <2>3. IdleIsBlank'
    BY <2>1, <2>2
  <2>4. \A i \in Ids : pending'[i] # None => pending'[i] = pending[i]
    BY <2>1
  <2>5. PendingAsked' /\ PendingHasEdge'
    BY <2>1, <2>4
  <2> QED BY <2>3, <2>5
<1>9. CASE Responding
  BY <1>9 DEF Responding, RespondReplayed, RespondUnmatched, RespondAccepted, Decides
<1>10. ASSUME NEW r \in Reqs, NEW outcome, CoreSupervised(r, outcome) PROVE EdgeInv'
  BY <1>10 DEF CoreSupervised, InCore
<1>11. ASSUME NEW r \in Reqs, NEW e \in Calls, CoreInspect(r, e) PROVE EdgeInv'
  BY <1>11 DEF CoreInspect, InProcess
<1>12. ASSUME NEW r \in Reqs, NEW e \in Calls, CoreSupervise(r, e) PROVE EdgeInv'
  BY <1>12 DEF CoreSupervise, InProcess
<1>13. ASSUME NEW r \in Reqs, NEW e \in Calls, CoreReload(r, e) PROVE EdgeInv'
  BY <1>13, ReloadEdges DEF CoreReload, InProcess, Outcomes
<1>14. ASSUME NEW r \in Reqs, NEW e \in Calls, CoreSetRefused(r, e) PROVE EdgeInv'
  BY <1>14 DEF CoreSetRefused, InProcess
<1>15. ASSUME NEW r \in Reqs, NEW e \in Calls, NEW m \in Payloads, CoreSetManifest(r, e, m)
       PROVE  EdgeInv'
  <2>1. PICK known, last : last \in Manifests /\ Reload(known, last)
    BY <1>15, SetManifestReloads
  <2>2. Idle(r) /\ \E outcome \in Outcomes : Finish(r, e, outcome)
    BY <1>15 DEF CoreSetManifest, InProcess, Outcomes
  <2> HIDE DEF Idle, Finish, EdgeInv, TypeInv
  <2> QED BY <2>1, <2>2, ReloadEdges
<1>16. CASE \E m \in HandEdits : EditManifestFile(m) BY <1>16 DEF EditManifestFile
<1>17. CASE UNCHANGED vars BY <1>17 DEF vars
<1> HIDE DEF EdgeInv, TypeInv
<1> QED BY <1>1, <1>2, <1>3, <1>4, <1>5, <1>6, <1>7, <1>8, <1>9, <1>10, <1>11, <1>12, <1>13,
           <1>14, <1>15, <1>16, <1>17 DEF Next, Invoking, Deciding, Governing

(* After any successful reload, and ever after until a load fails, every     *)
(* call in flight has its edge in the running manifest.                    *)
THEOREM RevocationComplete == Spec => []PendingHasEdge
<1>1. Init => EdgeInv
  BY EdgeInit
<1>2. EdgeInv => PendingHasEdge
  BY DEF EdgeInv
<1> QED BY <1>1, <1>2, TypeInit, TypeNext, EdgeNext, PTL DEF Spec

(***************************************************************************)
(* An undecided call can be answered.  This rests on the nonce LRU: as long  *)
(* as it is large enough to forget no id, no two calls share an id, so the   *)
(* clean-up of one handler never takes the entry of another.                *)
(***************************************************************************)
NeverForgets == IsFiniteSet(Ids) /\ Cardinality(Ids) <= NonceMax

NoncesDistinct == \A i, j \in 1..Len(nonces) : nonces[i] = nonces[j] => i = j
CallsRemembered == \A r \in Reqs : fut[r] # "none" => env[r].id \in Remembered
IdsDistinct ==
    \A r, q \in Reqs : fut[r] # "none" /\ fut[q] # "none" /\ env[r].id = env[q].id => r = q

NonceInv == NoncesDistinct /\ CallsRemembered /\ IdsDistinct
LookupInv == NonceInv /\ WaitingIsPending /\ PendingIsWaiting

(* A list of distinct ids that misses one has room left.                   *)
LEMMA RoomForOne ==
    ASSUME NeverForgets, NEW seq \in Seq(Ids), NEW id \in Ids,
           \A i, j \in 1..Len(seq) : seq[i] = seq[j] => i = j,
           \A i \in 1..Len(seq) : seq[i] # id
    PROVE  Len(seq) < NonceMax
<1> DEFINE S == 1..Len(seq)
           T == Ids \ {id}
<1>1. IsFiniteSet(T) /\ Cardinality(T) = Cardinality(Ids) - 1
  BY FS_RemoveElement DEF NeverForgets
<1>2. seq \in Injection(S, T)
  <2>1. seq \in [S -> T]
    OBVIOUS
  <2> QED BY <2>1 DEF Injection, IsInjective
<1>3. Cardinality(S) <= Cardinality(T)
  BY <1>1, <1>2, FS_Injection
<1>4. Cardinality(S) = Len(seq)
  <2>1. Len(seq) \in Nat /\ 1 \in Int
    OBVIOUS
  <2>2. Cardinality(1..Len(seq)) = IF 1 > Len(seq) THEN 0 ELSE Len(seq) - 1 + 1
    BY <2>1, FS_Interval
  <2> QED BY <2>1, <2>2
<1>5. Cardinality(Ids) \in Nat
  BY FS_CardinalityType DEF NeverForgets
<1> HIDE DEF S, T
<1> QED BY <1>1, <1>3, <1>4, <1>5, BoundsAssumption DEF NeverForgets

(* So remembering a new id forgets none, and ids stay distinct.            *)
LEMMA RememberKeeps ==
    ASSUME NeverForgets, nonces \in Seq(Ids), NoncesDistinct,
           NEW id \in Ids, id \notin Remembered, RememberNonce(id)
    PROVE  NoncesDistinct' /\ Remembered' = Remembered \cup {id}
<1>1. Len(nonces) < NonceMax
  BY RoomForOne DEF NoncesDistinct, Remembered
<1>2. nonces' = Append(nonces, id)
  BY <1>1 DEF RememberNonce
<1>3. /\ Len(nonces') = Len(nonces) + 1
      /\ nonces'[Len(nonces) + 1] = id
      /\ \A i \in 1..Len(nonces) : nonces'[i] = nonces[i]
  BY <1>2
<1>4. NoncesDistinct'
  BY <1>3 DEF NoncesDistinct, Remembered
<1>5. Remembered' = Remembered \cup {id}
  BY <1>3 DEF Remembered
<1> QED BY <1>4, <1>5

(* A step that starts no call, decides only undecided ones, and leaves the   *)
(* pending entries of those still undecided, keeps the invariant.           *)
QuietStep ==
    /\ NoncesDistinct' /\ Remembered \subseteq Remembered'
    /\ \A r \in Reqs :
          /\ fut[r] # "none" => env'[r] = env[r]
          /\ fut'[r] # "none" <=> fut[r] # "none"
          /\ fut'[r] = "wait" => fut[r] = "wait" /\ pending'[env[r].id] = pending[env[r].id]
    /\ \A i \in Ids : pending'[i] # None =>
          /\ pending'[i] = pending[i]
          /\ reply'[pending[i]] = None

\* A step that neither asks nor settles leaves the pending calls right.
LEMMA QuietKeeps ==
    ASSUME TypeInv, LookupInv, QuietStep
    PROVE  LookupInv'
<1> USE EnvelopesAssumption DEF TypeInv, TypeOK, FuturesAsked, LookupInv, NonceInv, QuietStep
<1>1. NoncesDistinct' /\ CallsRemembered' /\ IdsDistinct'
  BY DEF NoncesDistinct, CallsRemembered, IdsDistinct
<1>2. WaitingIsPending'
  BY DEF WaitingIsPending
<1>3. PendingIsWaiting'
  <2> SUFFICES ASSUME NEW i \in Ids, pending'[i] # None
               PROVE  /\ fut'[pending'[i]] # "none" /\ reply'[pending'[i]] = None
                      /\ env'[pending'[i]].id = i
    BY DEF PendingIsWaiting, Waiting
  <2>1. pending'[i] = pending[i] /\ reply'[pending[i]] = None /\ pending[i] \in Reqs
    OBVIOUS
  <2>2. fut[pending[i]] # "none" /\ env[pending[i]].id = i
    BY <2>1 DEF PendingIsWaiting, Waiting
  <2> QED BY <2>1, <2>2
<1> QED BY <1>1, <1>2, <1>3

\* Nothing is pending at the start.
LEMMA LookupInit == Init => LookupInv
BY DEF Init, LookupInv, NonceInv, NoncesDistinct, CallsRemembered, IdsDistinct,
       WaitingIsPending, PendingIsWaiting

\* Every step keeps each pending entry with the request that waits for it.
LEMMA LookupNext ==
    ASSUME NeverForgets, TypeInv, EdgeInv, LookupInv, [Next]_vars
    PROVE  LookupInv'
<1> USE EnvelopesAssumption
    DEF TypeInv, TypeOK, FuturesAsked, EdgeInv, IdleIsBlank, calls, Idle, Finish
<1>1. ASSUME nonces' = nonces PROVE NoncesDistinct' /\ Remembered' = Remembered
  BY <1>1 DEF LookupInv, NonceInv, NoncesDistinct, Remembered
<1>2. ASSUME NEW r \in Reqs, NEW e \in Calls, Admitted(r, e)
      PROVE  /\ e.id \notin Remembered
             /\ NoncesDistinct' /\ Remembered' = Remembered \cup {e.id}
             /\ fut[r] = "none" /\ reply[r] = None /\ env[r] = None
             /\ \A q \in Reqs : fut[q] # "none" => env[q].id # e.id
  <2>1. e.id \notin Remembered /\ RememberNonce(e.id) /\ e.id \in Ids /\ env[r] = None
    BY <1>2 DEF Admitted, Gate
  <2>2. NoncesDistinct' /\ Remembered' = Remembered \cup {e.id}
    BY <2>1, RememberKeeps DEF LookupInv, NonceInv
  <2> QED BY <2>1, <2>2 DEF LookupInv, NonceInv, CallsRemembered
<1>3. ASSUME NEW r \in Reqs, fut[r] = "none"
      PROVE  \A i \in Ids : pending[i] # None => pending[i] # r
  BY <1>3 DEF LookupInv, PendingIsWaiting, Waiting
<1>4. \A i \in Ids : pending[i] # None => reply[pending[i]] = None
  BY DEF LookupInv, PendingIsWaiting, Waiting
<1>5. ASSUME UNCHANGED <<calls, nonces>> PROVE LookupInv'
  BY <1>1, <1>4, <1>5, QuietKeeps DEF QuietStep
<1>6. CASE Registering BY <1>5, <1>6 DEF Registering, Register
<1>7. CASE Streaming
  BY <1>5, <1>7 DEF Streaming, StreamOpen, StreamGreeted, StreamTake, StreamWritten,
                    StreamPutBack, StreamBlocked, StreamDropped
<1>8. ASSUME NEW r \in Reqs, NEW e \in Calls, NEW kindOk, NEW signed, NEW fresh,
             InvokeRejected(r, e, kindOk, signed, fresh)
      PROVE  LookupInv'
  <2>1. fut[r] = "none" BY <1>8 DEF InvokeRejected
  <2>2. QuietStep
    BY <1>1, <1>3, <1>4, <1>8, <2>1 DEF InvokeRejected, QuietStep
  <2> QED BY <2>2, QuietKeeps
<1>9. ASSUME NEW r \in Reqs, NEW e \in Calls, NEW valid, InvokeDenied(r, e, valid)
      PROVE  LookupInv'
  <2>1. Admitted(r, e) BY <1>9 DEF InvokeDenied
  <2>2. /\ UNCHANGED fut /\ pending' \in {pending, [pending EXCEPT ![e.id] = None]}
        /\ \A q \in Reqs : q # r => env'[q] = env[q] /\ reply'[q] = reply[q]
    BY <1>9 DEF InvokeDenied
  <2>3. \A q \in Reqs : fut[q] = "wait" => pending'[env[q].id] = pending[env[q].id]
    BY <1>2, <2>1, <2>2
  <2>4. \A i \in Ids : pending'[i] # None => pending'[i] = pending[i] /\ pending[i] # r
    BY <1>2, <1>3, <2>1, <2>2
  <2>5. QuietStep
    BY <1>2, <1>4, <2>1, <2>2, <2>3, <2>4 DEF QuietStep
  <2> QED BY <2>5, QuietKeeps
<1>10. ASSUME NEW r \in Reqs, NEW e \in Calls, InvokeNotify(r, e) PROVE LookupInv'
  <2>1. Admitted(r, e) BY <1>10 DEF InvokeNotify
  <2>2. UNCHANGED <<fut, pending>>
        /\ \A q \in Reqs : q # r => env'[q] = env[q] /\ reply'[q] = reply[q]
    BY <1>10 DEF InvokeNotify
  <2>3. QuietStep
    BY <1>2, <1>3, <1>4, <2>1, <2>2 DEF QuietStep
  <2> QED BY <2>3, QuietKeeps
<1>11. ASSUME NEW r \in Reqs, NEW e \in Calls, InvokeCall(r, e) PROVE LookupInv'
  <2>1. Admitted(r, e) BY <1>11 DEF InvokeCall
  <2>2. /\ env' = [env EXCEPT ![r] = e] /\ fut' = [fut EXCEPT ![r] = "wait"]
        /\ pending' = [pending EXCEPT ![e.id] = r] /\ UNCHANGED reply
    BY <1>11 DEF InvokeCall
  <2>3. NonceInv'
    BY <1>2, <2>1, <2>2 DEF LookupInv, NonceInv, CallsRemembered, IdsDistinct
  <2>4. WaitingIsPending'
    BY <1>2, <2>1, <2>2 DEF LookupInv, WaitingIsPending
  <2>5. PendingIsWaiting'
    BY <1>2, <1>3, <2>1, <2>2 DEF LookupInv, PendingIsWaiting, Waiting
  <2> QED BY <2>3, <2>4, <2>5 DEF LookupInv
<1>12. ASSUME NEW r \in Reqs, Expire(r) PROVE LookupInv'
  <2>1. QuietStep
    BY <1>1, <1>4, <1>12 DEF Expire, QuietStep
  <2> QED BY <2>1, QuietKeeps
<1>13. ASSUME NEW r \in Reqs, Resume(r) PROVE LookupInv'
  <2>1. /\ pending' = [pending EXCEPT ![env[r].id] = None]
        /\ \E outcome : reply' = [reply EXCEPT ![r] = outcome]
        /\ UNCHANGED <<nonces, env, fut>>
    BY <1>13 DEF Resume, ResumedWith
  <2>2. fut[r] \notin {"none", "wait"}
    BY <1>13 DEF Resume, Waiting
  <2>3. \A q \in Reqs : fut[q] = "wait" => env[q].id # env[r].id
    BY <2>2 DEF LookupInv, NonceInv, IdsDistinct
  <2>4. \A i \in Ids : pending'[i] # None => pending'[i] = pending[i] /\ pending[i] # r
    BY <2>1, <2>2 DEF LookupInv, PendingIsWaiting
  <2>5. QuietStep
    BY <1>1, <1>4, <2>1, <2>3, <2>4 DEF QuietStep
  <2> QED BY <2>5, QuietKeeps
<1>14. ASSUME NEW a \in Answers, NEW fresh, RespondReplayed(a, fresh) PROVE LookupInv'
  BY <1>5, <1>14 DEF RespondReplayed
<1>15. ASSUME NEW a \in Answers, Fresh(a)
       PROVE  NoncesDistinct' /\ Remembered \subseteq Remembered'
  BY <1>15, RememberKeeps DEF Fresh, LookupInv, NonceInv
<1>16. ASSUME NEW a \in Answers, RespondUnmatched(a) PROVE LookupInv'
  <2>1. QuietStep
    BY <1>4, <1>15, <1>16 DEF RespondUnmatched, QuietStep
  <2> QED BY <2>1, QuietKeeps
<1>17. ASSUME NEW a \in Answers, NEW r \in Reqs, RespondAccepted(a, r) PROVE LookupInv'
  <2>1. QuietStep
    BY <1>4, <1>15, <1>17 DEF RespondAccepted, Decides, QuietStep
  <2> QED BY <2>1, QuietKeeps
<1>18. ASSUME NEW r \in Reqs, NEW outcome, CoreSupervised(r, outcome) PROVE LookupInv'
  <2>1. QuietStep
    BY <1>1, <1>3, <1>4, <1>18 DEF CoreSupervised, InCore, QuietStep
  <2> QED BY <2>1, QuietKeeps
<1>19. ASSUME NEW r \in Reqs, NEW e \in Calls, Admitted(r, e), UNCHANGED <<fut, pending>>,
              \A q \in Reqs : q # r => env'[q] = env[q] /\ reply'[q] = reply[q]
       PROVE  LookupInv'
  <2>1. QuietStep
    BY <1>2, <1>3, <1>4, <1>19 DEF QuietStep
  <2> QED BY <2>1, QuietKeeps
<1>20. ASSUME NEW r \in Reqs, NEW e \in Calls, CoreInspect(r, e) PROVE LookupInv'
  BY <1>19, <1>20 DEF CoreInspect, InProcess
<1>21. ASSUME NEW r \in Reqs, NEW e \in Calls, CoreSupervise(r, e) PROVE LookupInv'
  BY <1>19, <1>21 DEF CoreSupervise, InProcess
<1>22. ASSUME NEW r \in Reqs, NEW e \in Calls, CoreSetRefused(r, e) PROVE LookupInv'
  BY <1>19, <1>22 DEF CoreSetRefused, InProcess
<1>23. ASSUME NEW r \in Reqs, NEW e \in Calls, Admitted(r, e), NEW outcome, Finish(r, e, outcome),
              NEW known, NEW m, Reload(known, m)
       PROVE  LookupInv'
  <2>1. CASE m.broken
    BY <1>19, <1>23, <2>1 DEF Reload
  <2>2. CASE ~m.broken
    <3>1. RevokeCalls(m) BY <1>23, <2>2 DEF Reload
    <3>2. \A q \in Reqs : /\ fut'[q] # "none" <=> fut[q] # "none"
                          /\ fut'[q] = "wait" => /\ fut[q] = "wait"
                                                 /\ \A i \in RevokedBy(m) : pending[i] # q
      BY <3>1 DEF RevokeCalls
    <3>3. \A i \in Ids : /\ i \notin RevokedBy(m) => pending'[i] = pending[i]
                         /\ i \in RevokedBy(m) => pending'[i] = None
      BY <3>1 DEF RevokeCalls
    <3>4. \A q \in Reqs : fut'[q] = "wait" => pending'[env[q].id] = pending[env[q].id]
      BY <3>2, <3>3 DEF LookupInv, WaitingIsPending
    <3>5. QuietStep
      BY <1>2, <1>3, <1>4, <1>23, <3>2, <3>3, <3>4 DEF QuietStep
    <3> QED BY <3>5, QuietKeeps
  <2> QED BY <2>1, <2>2
<1>24. ASSUME NEW r \in Reqs, NEW e \in Calls, CoreReload(r, e) PROVE LookupInv'
  <2>1. \E outcome : Finish(r, e, outcome) BY <1>24 DEF CoreReload
  <2> HIDE DEF Finish
  <2> QED BY <1>23, <1>24, <2>1 DEF CoreReload, InProcess
<1>25. ASSUME NEW r \in Reqs, NEW e \in Calls, NEW m \in Payloads, CoreSetManifest(r, e, m)
       PROVE  LookupInv'
  <2>1. /\ Admitted(r, e)
        /\ \E outcome : Finish(r, e, outcome)
        /\ \E known, last : Reload(known, last)
    BY <1>25, SetManifestReloads DEF CoreSetManifest, InProcess
  <2> HIDE DEF Finish
  <2> QED BY <1>23, <2>1
<1>26. CASE \E m \in HandEdits : EditManifestFile(m) BY <1>5, <1>26 DEF EditManifestFile
<1>27. CASE UNCHANGED vars BY <1>5, <1>27 DEF vars
<1> HIDE DEF TypeInv, EdgeInv
<1> QED
  BY <1>6, <1>7, <1>8, <1>9, <1>10, <1>11, <1>12, <1>13, <1>14, <1>16, <1>17, <1>18, <1>20,
     <1>21, <1>22, <1>24, <1>25, <1>26, <1>27
  DEF Next, Invoking, Deciding, Responding, Governing

(* If the LRU can hold every id in use, an undecided call is always found    *)
(* under its id, and everything in `pending` waits.                        *)
THEOREM CallsStayReachable ==
    ASSUME NeverForgets
    PROVE  Spec => [](WaitingIsPending /\ PendingIsWaiting)
<1>1. Init => EdgeInv /\ LookupInv
  BY EdgeInit, LookupInit
<1>2. TypeInv /\ EdgeInv /\ LookupInv /\ [Next]_vars => LookupInv'
  BY LookupNext
<1>3. LookupInv => WaitingIsPending /\ PendingIsWaiting
  BY DEF LookupInv
<1> QED BY <1>1, <1>2, <1>3, TypeInit, TypeNext, EdgeNext, PTL DEF Spec

(* The second half by itself: no way out of a call leaks its entry.         *)
THEOREM NothingLingers ==
    ASSUME NeverForgets
    PROVE  Spec => []PendingIsWaiting
<1>1. Spec => [](WaitingIsPending /\ PendingIsWaiting) BY CallsStayReachable
<1> QED BY <1>1, PTL
=============================================================================

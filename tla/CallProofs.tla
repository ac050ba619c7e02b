------------------------------ MODULE CallProofs ------------------------------
(***************************************************************************)
(* What callers and nodes are promised, for every value of the broker's     *)
(* constants.  For callers: Broker implements CallContract, the audit log   *)
(* tells what they were told, and what the governing surfaces reply is true. *)
(* All of it rests on one fact, CallSteps: whatever step Broker takes, each *)
(* request is asked, decided, told, or rests.  For nodes: an envelope       *)
(* reaches at most one stream, once, and a session that is gone gets        *)
(* nothing new.                                                             *)
(***************************************************************************)
EXTENDS BrokerProofs

(* What the log holds of a call that was made, refused or answered at once.   *)
Recorded(q) ==
    /\ LetThrough(q) => Logged("invocation", q, "routed")
    /\ reply[q] \in CoreReplies => Logged("response", q, "routed")
    /\ reply[q] \in Decisions => Logged("invocation", q, reply[q])

(* Only the surfaces that wait on the supervisor keep a call in Core.         *)
Supervises(q) == env[q] \in Calls /\ Mode[env[q].to] = "supervise"

Asks(q) ==
    /\ env[q] = None /\ fut[q] = "none" /\ reply[q] = None
    /\ env'[q] \in Calls /\ answer'[q] = answer[q]
    /\ \/ fut'[q] = "none" /\ reply'[q] \notin {"answered", "revoked", "timeout"}
       \/ fut'[q] = "wait" /\ reply'[q] = None
    /\ Recorded(q)'
    /\ InCore(q)' => Supervises(q)'

Decided(q) ==
    /\ fut[q] = "wait" /\ env'[q] = env[q] /\ reply'[q] = reply[q]
    /\ \/ fut'[q] = "cancelled" /\ answer'[q] = answer[q]
       \/ /\ fut'[q] = "revoked" /\ answer'[q] = answer[q]
          /\ Logged("invocation", q, "denied_no_relationship")'
       \/ /\ fut'[q] = "result"
          /\ \E a \in Answers : /\ Decides(a, q) /\ answer'[q] = a
                                /\ a.id \notin Remembered /\ RememberNonce(a.id)
          /\ Logged("response", q, "routed")'

Tells(q) ==
    /\ env[q] \in Calls /\ reply[q] = None
    /\ env'[q] = env[q] /\ fut'[q] = fut[q] /\ answer'[q] = answer[q]
    /\ \/ /\ fut[q] = "none" /\ reply'[q] \in CoreReplies
          /\ Logged("response", q, "routed")'
       \/ fut[q] = "result" /\ reply'[q] = "answered"
       \/ fut[q] = "revoked" /\ reply'[q] = "revoked"
       \/ /\ fut[q] \notin {"none", "wait"} /\ reply'[q] = "timeout"
          /\ Logged("invocation", q, "timeout")'

Rests(q) ==
    env'[q] = env[q] /\ fut'[q] = fut[q] /\ answer'[q] = answer[q] /\ reply'[q] = reply[q]

(* What is logged is what happens to a call in that very step.               *)
Explained(x) == OfReplay(x) \/ \E r \in Reqs : Explains(r, x)
NewsExplained == \A x \in audit' \ audit : Explained(x)'

CallStep ==
    /\ \A q \in Reqs : Asks(q) \/ Decided(q) \/ Tells(q) \/ Rests(q)
    /\ audit \subseteq audit'
    /\ NewsExplained

(* Steps that leave the calls and the log alone.                            *)
LEMMA CallsRest ==
    ASSUME UNCHANGED <<calls, audit>>
    PROVE  CallStep
BY DEF CallStep, Rests, NewsExplained, calls

(* A request to /v0/invoke that is replied to or waits on something.         *)
LEMMA AskIsCallStep ==
    ASSUME TypeInv, EdgeInv, NEW r \in Reqs, NEW e \in Calls, Idle(r),
           env' = [env EXCEPT ![r] = e], UNCHANGED answer,
           \A q \in Reqs : q # r => reply'[q] = reply[q] /\ fut'[q] = fut[q],
           \/ /\ fut'[r] = "none"
              /\ reply'[r] \notin {"answered", "revoked", "timeout"}
           \/ fut'[r] = "wait" /\ reply'[r] = None,
           Recorded(r)', InCore(r)' => Supervises(r)',
           audit \subseteq audit',
           \A x \in audit' \ audit : Explains(r, x)'
    PROVE  CallStep
<1>1. env'[r] = e /\ env[r] = None /\ fut[r] = "none" /\ reply[r] = None
  BY DEF TypeInv, TypeOK, EdgeInv, IdleIsBlank, Idle
<1>2. Asks(r)
  BY <1>1 DEF Asks
<1>3. \A q \in Reqs : q # r => Rests(q)
  BY DEF Rests, TypeInv, TypeOK
<1>4. NewsExplained
  BY DEF NewsExplained, Explained
<1> QED BY <1>2, <1>3, <1>4 DEF CallStep

(* A request that is replied to at once, with its own entries in the log.    *)
LEMMA FinishIsCallStep ==
    ASSUME TypeInv, EdgeInv, NEW r \in Reqs, NEW e \in Calls, Idle(r),
           NEW outcome \in Outcomes, Finish(r, e, outcome), UNCHANGED <<fut, answer>>,
           outcome \notin {"answered", "revoked", "timeout"},
           Recorded(r)', audit \subseteq audit',
           \A x \in audit' \ audit : Explains(r, x)'
    PROVE  CallStep
<1>1. /\ env' = [env EXCEPT ![r] = e] /\ fut'[r] = "none" /\ reply'[r] = outcome
      /\ \A q \in Reqs : q # r => reply'[q] = reply[q] /\ fut'[q] = fut[q]
  BY DEF Finish, TypeInv, TypeOK, EdgeInv, IdleIsBlank, Idle
<1>2. ~InCore(r)'
  BY <1>1, NoneAssumption DEF InCore
<1> QED BY <1>1, <1>2, AskIsCallStep

(* A call refused before or after its id was recorded.                      *)
LEMMA DenialIsCallStep ==
    ASSUME TypeInv, EdgeInv, NEW r \in Reqs, NEW e \in Calls, Idle(r),
           NEW verdict \in Outcomes \ (CoreReplies \cup
                               {"accepted", "answered", "revoked", "timeout"}),
           Finish(r, e, verdict), audit' = audit \cup AuditOf(e, verdict),
           UNCHANGED <<fut, answer>>
    PROVE  CallStep
<1>1. /\ env'[r] = e /\ fut'[r] = "none" /\ reply'[r] = verdict /\ env'[r] # None
      /\ verdict # None
  BY EnvelopesAssumption, NoneAssumption
     DEF Finish, TypeInv, TypeOK, EdgeInv, IdleIsBlank, Idle
<1>2. ~LetThrough(r)'
  BY <1>1 DEF LetThrough, InCore, CoreReplies
<1>3. verdict \in Decisions => Entry("invocation", e.id, verdict) \in audit'
  BY DEF AuditOf, Unaudited, Decisions
<1>4. Recorded(r)'
  BY <1>1, <1>2, <1>3 DEF Recorded, Logged, CoreReplies
<1>5. ASSUME NEW x \in audit' \ audit PROVE Explains(r, x)'
  <2>1. x = Entry("invocation", e.id, verdict)
    BY DEF AuditOf
  <2> QED BY <1>1, <2>1 DEF Explains, Entry
<1> QED BY <1>1, <1>4, <1>5, FinishIsCallStep

(* A reload revokes undecided calls, and only those.                        *)
LEMMA ReloadCalls ==
    ASSUME TypeInv, EdgeInv, NEW known, NEW m \in Manifests, Reload(known, m),
           ~m.broken => \A i \in RevokedBy(m) :
               Entry("invocation", i, "denied_no_relationship") \in audit',
           NEW q \in Reqs, env'[q] = env[q], reply'[q] = reply[q], answer'[q] = answer[q]
    PROVE  Decided(q) \/ Rests(q)
<1>1. CASE m.broken
  BY <1>1 DEF Reload, Rests
<1>2. CASE ~m.broken
  <2>1. fut'[q] = IF fut[q] = "wait" /\ \E i \in RevokedBy(m) : pending[i] = q
                  THEN "revoked" ELSE fut[q]
    BY <1>2 DEF Reload, RevokeCalls
  <2>2. CASE fut[q] = "wait" /\ \E i \in RevokedBy(m) : pending[i] = q
    <3>1. PICK i \in RevokedBy(m) : pending[i] = q
      BY <2>2
    <3>2. i \in Ids /\ env[q].id = i
      BY <3>1, EnvelopesAssumption DEF RevokedBy, EdgeInv, PendingAsked
    <3>3. Logged("invocation", q, "denied_no_relationship")'
      BY <1>2, <3>1, <3>2 DEF Logged
    <3> QED BY <2>1, <2>2, <3>3 DEF Decided
  <2>3. CASE ~(fut[q] = "wait" /\ \E i \in RevokedBy(m) : pending[i] = q)
    BY <2>1, <2>3 DEF Rests
  <2> QED BY <2>2, <2>3
<1> QED BY <1>1, <1>2

(* A request that Core's surfaces answer at once, in a step that reloads.    *)
LEMMA GovernIsCallStep ==
    ASSUME TypeInv, EdgeInv, NEW r \in Reqs, NEW e \in Calls, Idle(r),
           NEW known, NEW m \in Manifests, Reload(known, m),
           CoreAudit(e, IF m.broken THEN {} ELSE RevokedBy(m)),
           NEW outcome \in CoreReplies, Finish(r, e, outcome),
           UNCHANGED answer
    PROVE  CallStep
<1>1. /\ env'[r] = e /\ reply'[r] = outcome
      /\ env[r] = None /\ fut[r] = "none" /\ reply[r] = None
      /\ \A q \in Reqs : q # r => env'[q] = env[q] /\ reply'[q] = reply[q]
  BY DEF Finish, TypeInv, TypeOK, EdgeInv, IdleIsBlank, Idle
<1>2. fut'[r] = "none"
  BY <1>1, ReloadType
<1>3. Asks(r)
  <2>1. Logged("invocation", r, "routed")' /\ Logged("response", r, "routed")'
    BY <1>1 DEF CoreAudit, Logged
  <2>2. Recorded(r)'
    BY <1>1, <2>1 DEF Recorded, CoreReplies, Decisions
  <2>3. ~InCore(r)'
    BY <1>1, NoneAssumption DEF InCore, CoreReplies, Outcomes
  <2> QED BY <1>1, <1>2, <2>2, <2>3 DEF Asks, CoreReplies
<1>4. ~m.broken => \A i \in RevokedBy(m) :
          Entry("invocation", i, "denied_no_relationship") \in audit'
  BY DEF CoreAudit
<1>5. ASSUME NEW q \in Reqs, q # r PROVE Decided(q) \/ Rests(q)
  <2>1. env'[q] = env[q] /\ reply'[q] = reply[q] /\ answer'[q] = answer[q]
    BY <1>1, <1>5
  <2> QED BY <1>4, <2>1, ReloadCalls
<1>6. ASSUME NEW i \in RevokedBy(m), ~m.broken,
             NEW x, x = Entry("invocation", i, "denied_no_relationship")
      PROVE  \E q \in Reqs : Explains(q, x)'
  <2>1. i \in Ids /\ pending[i] \in Reqs /\ fut[pending[i]] # "none" /\ env[pending[i]].id = i
    BY <1>6, EnvelopesAssumption DEF RevokedBy, EdgeInv, PendingAsked, TypeInv, TypeOK
  <2>2. fut[pending[i]] \in Futures /\ env[pending[i]] # None /\ pending[i] # r
    BY <1>1, <2>1, EnvelopesAssumption DEF TypeInv, TypeOK, FuturesAsked
  <2>3. fut'[pending[i]] \in {"revoked", "result", "cancelled"}
    BY <1>6, <2>1, <2>2 DEF Reload, RevokeCalls, Futures
  <2>4. env'[pending[i]] = env[pending[i]]
    BY <1>1, <2>1, <2>2
  <2>5. PICK q \in Reqs : q = pending[i]
    BY <2>1
  <2>6. env'[q] # None /\ env'[q].id = i /\ fut'[q] \in {"revoked", "result", "cancelled"}
    BY <2>1, <2>2, <2>3, <2>4, <2>5
  <2>7. Explains(q, x)'
    BY <1>6, <2>6 DEF Explains, Entry
  <2> QED BY <2>7
<1>7. NewsExplained
  <2> SUFFICES ASSUME NEW x \in audit' \ audit PROVE Explained(x)'
    BY DEF NewsExplained
  <2>1. CASE x \in {Entry("invocation", e.id, "routed"), Entry("response", e.id, "routed")}
    <3>1. env'[r] # None
      BY <1>1, EnvelopesAssumption
    <3>2. Explains(r, x)'
      BY <1>1, <2>1, <3>1 DEF Explains, Entry, LetThrough, Responded
    <3> QED BY <3>2 DEF Explained
  <2>2. CASE x \notin {Entry("invocation", e.id, "routed"), Entry("response", e.id, "routed")}
    <3>1. PICK i : i \in RevokedBy(m) /\ ~m.broken
                   /\ x = Entry("invocation", i, "denied_no_relationship")
      BY <2>2 DEF CoreAudit
    <3> QED BY <1>6, <3>1 DEF Explained
  <2> QED BY <2>1, <2>2
<1>8. audit \subseteq audit'
  BY DEF CoreAudit
<1> QED BY <1>3, <1>5, <1>7, <1>8 DEF CallStep

\* Whatever step is taken, every request asks, is decided, is told or rests.
LEMMA CallSteps ==
    ASSUME TypeInv, EdgeInv, [Next]_vars
    PROVE  CallStep
<1>1. CASE Registering
  BY <1>1, CallsRest DEF Registering, Register
<1>2. CASE Streaming
  BY <1>2, CallsRest DEF Streaming, StreamOpen, StreamGreeted, StreamTake, StreamWritten,
                         StreamPutBack, StreamBlocked, StreamDropped
<1>3. ASSUME NEW r \in Reqs, NEW e \in Calls, NEW kindOk, NEW signed, NEW fresh,
             InvokeRejected(r, e, kindOk, signed, fresh)
      PROVE  CallStep
  <2> DEFINE verdict == Gate(e, kindOk, signed, fresh)
  <2>1. verdict \in {"bad_kind", "denied_unknown_node", "denied_signature_invalid",
                     "denied_replay"}
    BY <1>3 DEF InvokeRejected, Gate
  <2>2. /\ Idle(r) /\ Finish(r, e, verdict) /\ audit' = audit \cup AuditOf(e, verdict)
        /\ UNCHANGED <<fut, answer>>
    BY <1>3 DEF InvokeRejected
  <2> HIDE DEF verdict
  <2>3. verdict \in Outcomes \ (CoreReplies \cup {"accepted", "answered", "revoked", "timeout"})
    BY <2>1 DEF Outcomes, Decisions, Unaudited, CoreReplies
  <2> QED BY <2>2, <2>3, DenialIsCallStep
<1>4. ASSUME NEW r \in Reqs, NEW e \in Calls, NEW valid, InvokeDenied(r, e, valid)
      PROVE  CallStep
  <2> DEFINE verdict == Route(e, valid)
  <2>1. verdict \in {"bad_surface_id", "denied_no_relationship", "denied_unknown_surface",
                     "denied_schema_invalid", "denied_node_unreachable", "denied_queue_full"}
    BY <1>4 DEF InvokeDenied, Route
  <2>2. /\ Idle(r) /\ Finish(r, e, verdict) /\ audit' = audit \cup AuditOf(e, verdict)
        /\ UNCHANGED <<fut, answer>>
    BY <1>4 DEF InvokeDenied, Admitted
  <2> HIDE DEF verdict
  <2>3. verdict \in Outcomes \ (CoreReplies \cup {"accepted", "answered", "revoked", "timeout"})
    BY <2>1 DEF Outcomes, Decisions, Unaudited, CoreReplies
  <2> QED BY <2>2, <2>3, DenialIsCallStep
<1>5. ASSUME NEW r \in Reqs, NEW e \in Calls, env'[r] = e, LetThrough(r)',
             reply'[r] \notin Decisions \cup CoreReplies,
             audit' = audit \cup AuditOf(e, "routed")
      PROVE  /\ Recorded(r)' /\ audit \subseteq audit'
             /\ \A x \in audit' \ audit : Explains(r, x)'
  <2>1. AuditOf(e, "routed") = {Entry("invocation", e.id, "routed")}
    BY DEF AuditOf, Unaudited
  <2>2. Recorded(r)'
    BY <1>5, <2>1 DEF Recorded, Logged
  <2>3. \A x \in audit' \ audit : Explains(r, x)'
    BY <1>5, <2>1, EnvelopesAssumption DEF Explains, Entry
  <2> QED BY <1>5, <2>2, <2>3
<1>6. ASSUME NEW r \in Reqs, NEW e \in Calls, InvokeNotify(r, e) PROVE CallStep
  <2>1. /\ Idle(r) /\ Finish(r, e, "accepted") /\ audit' = audit \cup AuditOf(e, "routed")
        /\ UNCHANGED <<fut, answer>>
    BY <1>6 DEF InvokeNotify, Admitted, Enqueued
  <2>2. env'[r] = e /\ reply'[r] = "accepted"
    BY <2>1 DEF Finish, TypeInv, TypeOK
  <2>3. LetThrough(r)' /\ "accepted" \notin Decisions \cup CoreReplies
    BY <2>2 DEF LetThrough, Decisions, CoreReplies
  <2>4. "accepted" \in Outcomes
    BY DEF Outcomes
  <2> QED BY <1>5, <2>1, <2>2, <2>3, <2>4, FinishIsCallStep
<1>7. ASSUME NEW r \in Reqs, NEW e \in Calls, InvokeCall(r, e) PROVE CallStep
  <2>1. /\ Idle(r) /\ audit' = audit \cup AuditOf(e, "routed")
        /\ env' = [env EXCEPT ![r] = e] /\ fut' = [fut EXCEPT ![r] = "wait"]
        /\ UNCHANGED <<reply, answer>>
    BY <1>7 DEF InvokeCall, Admitted, Enqueued
  <2>2. /\ env'[r] = e /\ fut'[r] = "wait" /\ reply'[r] = None
        /\ \A q \in Reqs : q # r => reply'[q] = reply[q] /\ fut'[q] = fut[q]
    BY <2>1 DEF TypeInv, TypeOK, EdgeInv, IdleIsBlank, Idle
  <2>3. LetThrough(r)' /\ None \notin Decisions \cup CoreReplies
    BY <2>2, NoneAssumption DEF LetThrough, Outcomes, CoreReplies
  <2>4. ~InCore(r)'
    BY <2>2 DEF InCore
  <2> QED BY <1>5, <2>1, <2>2, <2>3, <2>4, AskIsCallStep
<1>8. ASSUME NEW r \in Reqs, Expire(r) PROVE CallStep
  <2>1. Decided(r)
    BY <1>8 DEF Expire, Decided, TypeInv, TypeOK
  <2>2. \A q \in Reqs : q # r => Rests(q)
    BY <1>8 DEF Expire, Rests, TypeInv, TypeOK
  <2> QED BY <1>8, <2>1, <2>2 DEF CallStep, Expire, NewsExplained
<1>9. ASSUME NEW r \in Reqs, Resume(r) PROVE CallStep
  <2>1. PICK outcome \in {"answered", "revoked", "timeout"} :
            /\ ResumedWith(r, outcome)
            /\ outcome = "answered" => fut[r] = "result"
            /\ outcome = "revoked" => fut[r] = "revoked"
            /\ fut[r] \notin {"none", "wait"}
    BY <1>9 DEF Resume, Waiting
  <2>2. /\ reply' = [reply EXCEPT ![r] = outcome]
        /\ audit' = IF outcome = "timeout"
                    THEN audit \cup {Entry("invocation", env[r].id, "timeout")} ELSE audit
        /\ UNCHANGED <<env, fut, answer>>
    BY <2>1 DEF ResumedWith
  <2>3. env[r] \in Calls /\ reply[r] = None
    BY <1>9 DEF Resume, Waiting, TypeInv, FuturesAsked
  <2>4. Tells(r)
    BY <2>1, <2>2, <2>3 DEF Tells, Logged, TypeInv, TypeOK, CoreReplies
  <2>5. \A q \in Reqs : q # r => Rests(q)
    BY <2>2 DEF Rests, TypeInv, TypeOK
  <2>6. NewsExplained
    <3> SUFFICES ASSUME NEW x \in audit' \ audit PROVE Explains(r, x)'
      BY DEF NewsExplained, Explained
    <3>1. outcome = "timeout" /\ x = Entry("invocation", env[r].id, "timeout")
      BY <2>2
    <3>2. reply'[r] = "timeout" /\ env'[r] = env[r] /\ env[r] # None
      BY <2>2, <2>3, <3>1, EnvelopesAssumption DEF TypeInv, TypeOK
    <3> QED BY <3>1, <3>2 DEF Explains, Entry
  <2> QED BY <2>2, <2>4, <2>5, <2>6 DEF CallStep
<1>10. ASSUME NEW a \in Answers, NEW fresh, RespondReplayed(a, fresh) PROVE CallStep
  BY <1>10 DEF RespondReplayed, CallStep, Rests, NewsExplained, Explained, OfReplay, Entry, calls
<1>11. ASSUME NEW a \in Answers, RespondUnmatched(a) PROVE CallStep
  BY <1>11, CallsRest DEF RespondUnmatched
<1>12. ASSUME NEW a \in Answers, NEW r \in Reqs, RespondAccepted(a, r) PROVE CallStep
  <2>1. /\ Decides(a, r) /\ a.id \notin Remembered /\ RememberNonce(a.id)
        /\ fut' = [fut EXCEPT ![r] = "result"] /\ answer' = [answer EXCEPT ![r] = a]
        /\ audit' = audit \cup {Entry("response", a.corr, "routed")}
        /\ UNCHANGED <<env, reply>>
    BY <1>12 DEF RespondAccepted, Fresh
  <2>2. a.corr = env[r].id
    BY <2>1, EnvelopesAssumption DEF Decides, EdgeInv, PendingAsked
  <2>3. Decided(r)
    BY <2>1, <2>2 DEF Decided, Decides, Logged, TypeInv, TypeOK
  <2>4. \A q \in Reqs : q # r => Rests(q)
    BY <2>1 DEF Rests, TypeInv, TypeOK
  <2>5. NewsExplained
    <3> SUFFICES ASSUME NEW x \in audit' \ audit PROVE Explains(r, x)'
      BY DEF NewsExplained, Explained
    <3>1. x = Entry("response", env[r].id, "routed")
      BY <2>1, <2>2
    <3>2. fut'[r] = "result" /\ env'[r] = env[r] /\ env[r] # None
      BY <2>1, EnvelopesAssumption DEF Decides, TypeInv, TypeOK, FuturesAsked
    <3> QED BY <3>1, <3>2 DEF Explains, Entry, Responded
  <2> QED BY <2>1, <2>3, <2>4, <2>5 DEF CallStep
<1>13. ASSUME NEW r \in Reqs, NEW outcome \in {"core_result", "core_error"},
              CoreSupervised(r, outcome)
       PROVE  CallStep
  <2>1. /\ env[r] # None /\ fut[r] = "none" /\ reply[r] = None
        /\ reply' = [reply EXCEPT ![r] = outcome] /\ UNCHANGED <<env, fut, answer>>
        /\ audit' = audit \cup {Entry("response", env[r].id, "routed")}
    BY <1>13 DEF CoreSupervised, InCore
  <2>2. reply'[r] = outcome
    BY <2>1 DEF TypeInv, TypeOK
  <2>3. Tells(r)
    BY <2>1, <2>2 DEF Tells, Logged, CoreReplies, TypeInv, TypeOK
  <2>4. \A q \in Reqs : q # r => Rests(q)
    BY <2>1 DEF Rests, TypeInv, TypeOK
  <2>5. NewsExplained
    <3> SUFFICES ASSUME NEW x \in audit' \ audit PROVE Explains(r, x)'
      BY DEF NewsExplained, Explained
    <3>1. x = Entry("response", env[r].id, "routed")
      BY <2>1
    <3> QED BY <2>1, <2>2, <3>1 DEF Explains, Entry, Responded, CoreReplies
  <2> QED BY <2>1, <2>3, <2>4, <2>5 DEF CallStep
<1>14. ASSUME NEW r \in Reqs, NEW e \in Calls, Idle(r), CoreAudit(e, {}),
              NEW outcome \in CoreReplies, Finish(r, e, outcome),
              UNCHANGED <<fut, answer>>
       PROVE  CallStep
  <2>1. env'[r] = e /\ env'[r] # None /\ reply'[r] = outcome
    BY <1>14, EnvelopesAssumption DEF Finish, TypeInv, TypeOK
  <2>2. audit' = audit \cup {Entry("invocation", e.id, "routed"),
                             Entry("response", e.id, "routed")}
    BY <1>14 DEF CoreAudit
  <2>3. Recorded(r)'
    BY <2>1, <2>2 DEF Recorded, Logged, Decisions, CoreReplies
  <2>4. \A x \in audit' \ audit : Explains(r, x)'
    BY <2>1, <2>2, <1>14 DEF Explains, Entry, LetThrough, Responded
  <2>5. outcome \in Outcomes /\ outcome \notin {"answered", "revoked", "timeout"}
    BY <1>14 DEF Outcomes, CoreReplies
  <2> QED BY <1>14, <2>2, <2>3, <2>4, <2>5, FinishIsCallStep
<1>15. ASSUME NEW r \in Reqs, NEW e \in Calls, CoreInspect(r, e) PROVE CallStep
  BY <1>14, <1>15 DEF CoreInspect, InProcess, Admitted, CoreReplies
<1>16. ASSUME NEW r \in Reqs, NEW e \in Calls, CoreSetRefused(r, e) PROVE CallStep
  BY <1>14, <1>16 DEF CoreSetRefused, InProcess, Admitted, CoreReplies
<1>17. ASSUME NEW r \in Reqs, NEW e \in Calls, CoreSupervise(r, e) PROVE CallStep
  <2>1. /\ Idle(r) /\ audit' = audit \cup AuditOf(e, "routed")
        /\ env' = [env EXCEPT ![r] = e] /\ UNCHANGED <<fut, reply, answer>>
    BY <1>17 DEF CoreSupervise, InProcess, Admitted
  <2>2. env'[r] = e /\ env'[r] # None /\ fut'[r] = "none" /\ reply'[r] = None
    BY <2>1, EnvelopesAssumption DEF EdgeInv, IdleIsBlank, Idle, TypeInv, TypeOK
  <2>3. None \notin Decisions \cup CoreReplies \cup {"answered", "revoked", "timeout"}
    BY NoneAssumption DEF Decisions, Outcomes, Unaudited, CoreReplies
  <2>4. LetThrough(r)'
    BY <2>2 DEF LetThrough, InCore
  <2>5. Supervises(r)'
    BY <1>17, <2>2 DEF Supervises, CoreSupervise, InProcess
  <2> QED BY <1>5, <2>1, <2>2, <2>3, <2>4, <2>5, AskIsCallStep
<1>18. ASSUME NEW r \in Reqs, NEW e \in Calls, CoreReload(r, e) PROVE CallStep
  <2>1. disk \in Manifests /\ Idle(r) /\ Reload(decl, disk)
        /\ CoreAudit(e, IF disk.broken THEN {} ELSE RevokedBy(disk))
        /\ Finish(r, e, IF disk.broken THEN "core_error" ELSE "core_result")
        /\ UNCHANGED answer
    BY <1>18 DEF CoreReload, InProcess, Admitted, TypeInv, TypeOK
  <2> QED BY <2>1, GovernIsCallStep DEF CoreReplies
<1>19. ASSUME NEW r \in Reqs, NEW e \in Calls, NEW m \in Payloads, CoreSetManifest(r, e, m)
       PROVE  CallStep
  <2>1. TypeOK
    BY DEF TypeInv
  <2>2. PICK known, last : /\ last \in Manifests
                           /\ Reload(known, last)
                           /\ CoreAudit(e, IF last.broken THEN {} ELSE RevokedBy(last))
    BY <1>19, <2>1, SetManifestReloads
  <2>3. Idle(r) /\ Finish(r, e, IF m.broken THEN "core_error" ELSE "core_result")
        /\ UNCHANGED answer
    BY <1>19 DEF CoreSetManifest, InProcess, Admitted
  <2> QED BY <2>2, <2>3, GovernIsCallStep DEF CoreReplies
<1>20. CASE \E m \in HandEdits : EditManifestFile(m)
  BY <1>20, CallsRest DEF EditManifestFile
<1>21. CASE UNCHANGED vars
  BY <1>21, CallsRest DEF vars
<1> QED
  BY <1>1, <1>2, <1>3, <1>4, <1>6, <1>7, <1>8, <1>9, <1>10, <1>11, <1>12, <1>13, <1>15,
     <1>16, <1>17, <1>18, <1>19, <1>20, <1>21
  DEF Next, Invoking, Deciding, Responding, Governing

(***************************************************************************)
(* The audit log.  What is logged stays; a reply that depends on a future    *)
(* is logged when the future is decided, before the caller's handler runs.  *)
(***************************************************************************)
FuturesLogged ==
    \A r \in Reqs :
        /\ fut[r] = "result" => Logged("response", r, "routed")
        /\ fut[r] = "revoked" => Logged("invocation", r, "denied_no_relationship")
AuditInv == AuditTellsReply /\ FuturesLogged

\* Every step keeps the audit log in agreement with the replies.
LEMMA AuditNext ==
    ASSUME TypeInv, EdgeInv, AuditInv, [Next]_vars
    PROVE  AuditInv'
<1>1. CallStep
  BY CallSteps
<1>2. audit \subseteq audit'
  BY <1>1 DEF CallStep
<1>3. /\ \A o \in {"answered", "revoked", None} \cup CoreReplies : o \notin Decisions
      /\ None \notin Outcomes
  BY NoneAssumption DEF Decisions, Outcomes, CoreReplies
<1>4. ASSUME NEW r \in Reqs
      PROVE  /\ LetThrough(r)' => Logged("invocation", r, "routed")'
             /\ reply'[r] \in {"answered"} \cup CoreReplies => Logged("response", r, "routed")'
             /\ reply'[r] = "revoked" => Logged("invocation", r, "denied_no_relationship")'
             /\ reply'[r] \in Decisions => Logged("invocation", r, reply[r])'
             /\ fut'[r] = "result" => Logged("response", r, "routed")'
             /\ fut'[r] = "revoked" => Logged("invocation", r, "denied_no_relationship")'
  <2>1. /\ LetThrough(r) => Logged("invocation", r, "routed")
        /\ reply[r] \in {"answered"} \cup CoreReplies => Logged("response", r, "routed")
        /\ reply[r] = "revoked" => Logged("invocation", r, "denied_no_relationship")
        /\ reply[r] \in Decisions => Logged("invocation", r, reply[r])
        /\ fut[r] = "result" => Logged("response", r, "routed")
        /\ fut[r] = "revoked" => Logged("invocation", r, "denied_no_relationship")
    BY DEF AuditInv, AuditTellsReply, FuturesLogged
  <2>2. CASE Asks(r)
    BY <1>3, <2>2 DEF Asks, Recorded, CoreReplies, Outcomes
  <2>3. CASE Decided(r)
    BY <1>2, <2>1, <2>3 DEF Decided, Logged, LetThrough
  <2>4. CASE Tells(r)
    <3>1. LetThrough(r)
      BY <2>4, EnvelopesAssumption DEF Tells, LetThrough, InCore
    <3> QED BY <1>2, <1>3, <2>1, <2>4, <3>1 DEF Tells, Logged, CoreReplies
  <2>5. CASE Rests(r)
    BY <1>2, <2>1, <2>5 DEF Rests, Logged, LetThrough, InCore
  <2> QED BY <1>1, <2>2, <2>3, <2>4, <2>5 DEF CallStep
<1>5. ASSUME NEW x \in audit' PROVE Explained(x)'
  <2>1. CASE x \notin audit
    BY <1>1, <1>5, <2>1 DEF CallStep, NewsExplained
  <2>2. CASE x \in audit /\ ~OfReplay(x)
    <3>1. PICK r \in Reqs : Explains(r, x)
      BY <2>2 DEF AuditInv, AuditTellsReply
    <3>2. x.decision \in Decisions
      BY <2>2 DEF TypeInv, TypeOK, Entries
    <3>3. env[r] # None
      BY <3>1 DEF Explains
    <3>4. Decided(r) => Explains(r, x)'
      BY <3>1 DEF Decided, Explains, Responded, LetThrough, InCore
    <3>5. ASSUME Tells(r) PROVE Explains(r, x)'
      <4>1. env'[r] = env[r] /\ fut'[r] = fut[r] /\ x.decision # reply[r]
        BY <1>3, <3>2, <3>5 DEF Tells
      <4>2. LetThrough(r)' /\ (Responded(r) => Responded(r)')
        BY <1>3, <3>5 DEF Tells, LetThrough, Responded, CoreReplies, Outcomes
      <4> QED BY <3>1, <4>1, <4>2 DEF Explains
    <3>6. Rests(r) => Explains(r, x)'
      BY <3>1 DEF Rests, Explains, Responded, LetThrough, InCore
    <3>7. Explains(r, x)'
      BY <1>1, <3>3, <3>4, <3>5, <3>6 DEF CallStep, Asks
    <3> QED BY <3>7 DEF Explained
  <2>3. CASE OfReplay(x)
    BY <2>3 DEF Explained, OfReplay
  <2> QED BY <2>1, <2>2, <2>3
<1> QED BY <1>4, <1>5 DEF AuditInv, AuditTellsReply, FuturesLogged, Explained

(* The log of core.audit_query and the replies the callers saw tell one      *)
(* story, both ways: every reply but bad_kind and bad_surface_id is logged    *)
(* as what it was, and every entry is what happened to some call.            *)
THEOREM AuditMatchesReplies == Spec => []AuditTellsReply
<1>1. Init => EdgeInv
  BY EdgeInit
<1>2. Init => AuditInv
  BY NoneAssumption
     DEF Init, AuditInv, AuditTellsReply, FuturesLogged, LetThrough, InCore, Decisions,
         Outcomes, CoreReplies
<1>3. AuditInv => AuditTellsReply
  BY DEF AuditInv
<1>4. TypeInv /\ EdgeInv /\ AuditInv /\ [Next]_vars => AuditInv'
  BY AuditNext
<1> QED BY <1>1, <1>2, <1>3, <1>4, TypeInit, TypeNext, EdgeNext, PTL DEF Spec

(***************************************************************************)
(* Broker implements CallContract, if the nonce memory forgets no id: then   *)
(* a response that decided a call is never taken for another.               *)
(***************************************************************************)
WaitingUntold == \A r \in Reqs : fut[r] = "wait" => reply[r] = None
AnswersRemembered ==
    \A r \in Reqs : fut[r] = "result" => answer[r] \in Answers /\ answer[r].id \in Remembered
PromiseInv == WaitingUntold /\ AnswersRemembered

\* A verdict without an answer is not an answer.
LEMMA LoneIsNoAnswer == \A x, a : <<x>> # <<"answered", a>>
<1> TAKE x, a
<1>1. Len(<<x>>) = 1 /\ Len(<<"answered", a>>) = 2
  OBVIOUS
<1> QED BY <1>1

\* A request that asks does so by the contract.
LEMMA AskMaps ==
    ASSUME TypeInv, TypeInv', NEW r \in Reqs, Asks(r)
    PROVE  Contract!Ask(r)
<1>1. Verdict(r)' = Verdict(r)
  BY DEF Asks, Verdict
<1>2. \A x : <<x>> \notin Contract!Settled
  BY LoneIsNoAnswer DEF Contract!Settled, Contract!Answered
<1>3. None \notin Contract!Settled
  BY NoneAssumption DEF Contract!Settled, Contract!Answered
<1>4. Told(r)' = None \/ Told(r)' = <<reply'[r]>>
  <2>1. CASE reply'[r] = None BY <2>1, NoneAssumption DEF Told, Outcomes
  <2>2. CASE reply'[r] # None
    <3>1. reply'[r] # "answered" BY <2>2 DEF Asks
    <3> QED BY <2>2, <3>1 DEF Told
  <2> QED BY <2>1, <2>2
<1>5. Told(r)' \notin Contract!Settled
  BY <1>2, <1>3, <1>4
<1> QED BY <1>1, <1>5 DEF Asks, Contract!Ask, Contract!Same

\* A decision is one the contract allows.
LEMMA DecideMaps ==
    ASSUME TypeInv, EdgeInv, PromiseInv, NEW r \in Reqs, Decided(r)
    PROVE  Contract!Decide(r)
<1>1. env[r] \in Calls /\ env[r] # None /\ fut[r] = "wait" /\ reply[r] = None
  BY EnvelopesAssumption DEF Decided, TypeInv, FuturesAsked, PromiseInv, WaitingUntold
<1>2. Verdict(r) = None /\ Told(r) = None /\ Told(r)' = None
  BY <1>1, NoneAssumption DEF Verdict, Told, Decided, Outcomes
<1>3. ASSUME NEW a \in Answers, fut'[r] = "result", Decides(a, r), answer'[r] = a,
             a.id \notin Remembered
      PROVE  /\ Verdict(r)' = <<"answered", a>>
             /\ a.corr = env[r].id /\ a.from = TargetOf(env[r])
             /\ \A q \in Reqs : Verdict(q) # <<"answered", a>>
  <2>1. Verdict(r)' = <<"answered", a>>
    BY <1>3 DEF Verdict
  <2>2. a.corr = env[r].id /\ a.from = TargetOf(env[r])
    BY <1>3, EnvelopesAssumption DEF Decides, TargetOf, EdgeInv, PendingAsked
  <2>3. ASSUME NEW q \in Reqs PROVE Verdict(q) # <<"answered", a>>
    <3>1. CASE fut[q] = "result"
      <4>1. Verdict(q) = <<"answered", answer[q]>> /\ answer[q] # a
        BY <1>3, <3>1 DEF Verdict, PromiseInv, AnswersRemembered
      <4> QED BY <4>1
    <3>2. CASE fut[q] # "result"
      <4>1. Verdict(q) \in {<<"revoked">>, <<"expired">>, None}
        BY <3>2 DEF Verdict
      <4> QED BY <4>1, LoneIsNoAnswer, NoneAssumption
    <3> QED BY <3>1, <3>2
  <2> QED BY <2>1, <2>2, <2>3
<1>4. \/ Verdict(r)' \in {<<"revoked">>, <<"expired">>}
      \/ \E a \in Answers : /\ Verdict(r)' = <<"answered", a>>
                            /\ a.corr = env[r].id /\ a.from = TargetOf(env[r])
                            /\ \A q \in Reqs : Verdict(q) # <<"answered", a>>
  <2>1. CASE fut'[r] = "cancelled" \/ fut'[r] = "revoked"
    BY <2>1 DEF Verdict
  <2>2. CASE fut'[r] = "result"
    BY <1>3, <2>2 DEF Decided
  <2> QED BY <2>1, <2>2 DEF Decided
<1> QED
  BY <1>1, <1>2, <1>4 DEF Decided, Contract!Decide, Contract!AnsweredBy, Contract!Answered,
                          Contract!Same

\* A caller is told what the contract had decided.
LEMMA TellMaps ==
    ASSUME TypeInv, PromiseInv, NEW r \in Reqs, Tells(r)
    PROVE  Contract!Tell(r)
<1>1. env[r] # None /\ env'[r] = env[r] /\ Told(r) = None /\ Verdict(r)' = Verdict(r)
  BY EnvelopesAssumption, NoneAssumption DEF Tells, Told, Verdict, Outcomes
<1>2. fut[r] \in {"none", "wait", "result", "revoked", "cancelled"}
  BY DEF TypeInv, TypeOK, Futures
<1>3. \/ fut[r] \in {"none", "wait"} /\ Verdict(r) = None
      \/ fut[r] = "result" /\ Verdict(r) = <<"answered", answer[r]>>
      \/ fut[r] = "revoked" /\ Verdict(r) = <<"revoked">>
      \/ fut[r] = "cancelled" /\ Verdict(r) = <<"expired">>
  BY <1>2 DEF Verdict
<1>4. /\ reply'[r] = "answered" => Told(r)' = <<"answered", answer[r]>>
      /\ reply'[r] \in {"core_result", "core_error", "revoked", "timeout"} =>
            Told(r)' = <<reply'[r]>>
  BY NoneAssumption DEF Told, Tells, Outcomes, Decisions
<1>5. fut[r] = "result" => answer[r] \in Answers
  BY DEF PromiseInv, AnswersRemembered
<1> QED
  BY <1>1, <1>3, <1>4, <1>5, LoneIsNoAnswer, NoneAssumption
  DEF Tells, CoreReplies, Contract!Tell, Contract!Same

\* A request that rests stays where it is in the contract.
LEMMA RestMaps ==
    ASSUME NEW r \in Reqs, Rests(r)
    PROVE  Contract!Stay(r)
BY DEF Rests, Verdict, Told, Contract!Stay, Contract!Same

(* One step of Broker is one step of the contract, for all requests at once. *)
LEMMA StepsKeepPromise ==
    ASSUME TypeInv, TypeInv', EdgeInv, PromiseInv, [Next]_vars
    PROVE  Contract!Next
<1>1. \A r \in Reqs : Asks(r) \/ Decided(r) \/ Tells(r) \/ Rests(r)
  BY CallSteps DEF CallStep
<1>2. \A r \in Reqs : \/ Contract!Ask(r) \/ Contract!Decide(r)
                      \/ Contract!Tell(r) \/ Contract!Stay(r)
  BY <1>1, AskMaps, DecideMaps, TellMaps, RestMaps
<1>3. env' = [r \in Reqs |-> env'[r]]
  BY DEF TypeInv, TypeOK
<1> QED BY <1>2, <1>3 DEF Contract!Next

(* Ids enter the memory one at a time.                                      *)
LEMMA NonceSteps ==
    ASSUME TypeInv, [Next]_vars
    PROVE  \/ UNCHANGED nonces
           \/ \E id \in Ids : id \notin Remembered /\ RememberNonce(id)
<1>1. ASSUME NEW r \in Reqs, NEW e \in Calls, Admitted(r, e)
      PROVE  \E id \in Ids : id \notin Remembered /\ RememberNonce(id)
  BY <1>1, EnvelopesAssumption DEF Admitted, Gate
<1>2. ASSUME NEW a \in Answers, Fresh(a)
      PROVE  \E id \in Ids : id \notin Remembered /\ RememberNonce(id)
  BY <1>2, EnvelopesAssumption DEF Fresh
<1>3. CASE Registering BY <1>3 DEF Registering, Register
<1>4. CASE Streaming
  BY <1>4 DEF Streaming, StreamOpen, StreamGreeted, StreamTake, StreamWritten,
              StreamPutBack, StreamBlocked, StreamDropped
<1>5. CASE Invoking
  <2> SUFFICES ASSUME NEW r \in Reqs, NEW e \in Calls,
                      \/ \E kindOk, signed, fresh \in BOOLEAN :
                            InvokeRejected(r, e, kindOk, signed, fresh)
                      \/ \E valid \in BOOLEAN : InvokeDenied(r, e, valid)
                      \/ InvokeNotify(r, e)
                      \/ InvokeCall(r, e)
               PROVE  \/ UNCHANGED nonces
                      \/ \E id \in Ids : id \notin Remembered /\ RememberNonce(id)
    BY <1>5 DEF Invoking
  <2> QED BY <1>1 DEF InvokeRejected, InvokeDenied, InvokeNotify, InvokeCall
<1>6. CASE Deciding BY <1>6 DEF Deciding, Expire, Resume, ResumedWith
<1>7. CASE Responding
  BY <1>2, <1>7 DEF Responding, RespondReplayed, RespondUnmatched, RespondAccepted
<1>8. CASE Governing
  BY ZenonT(60), <1>1, <1>8 DEF Governing, CoreSupervised, CoreInspect, CoreSupervise, CoreReload,
                    CoreSetRefused, CoreSetManifest, InProcess
<1>9. CASE \E m \in HandEdits : EditManifestFile(m) BY <1>9 DEF EditManifestFile
<1>10. CASE UNCHANGED vars BY <1>10 DEF vars
<1> QED BY <1>3, <1>4, <1>5, <1>6, <1>7, <1>8, <1>9, <1>10 DEF Next

(* With room for every id the memory only grows.                            *)
LEMMA MemoryGrows ==
    ASSUME NeverForgets, TypeInv, LookupInv, [Next]_vars
    PROVE  /\ Remembered \subseteq Remembered'
           /\ \A id \in Ids : id \notin Remembered /\ RememberNonce(id) => id \in Remembered'
<1>1. nonces \in Seq(Ids) /\ NoncesDistinct
  BY DEF TypeInv, TypeOK, LookupInv, NonceInv
<1>2. ASSUME NEW id \in Ids, id \notin Remembered, RememberNonce(id)
      PROVE  Remembered' = Remembered \cup {id}
  BY <1>1, <1>2, RememberKeeps
<1>3. ASSUME UNCHANGED nonces PROVE Remembered' = Remembered
  BY <1>3 DEF Remembered
<1> QED BY <1>2, <1>3, NonceSteps

\* Every step keeps what was promised to the callers.
LEMMA PromiseNext ==
    ASSUME NeverForgets, TypeInv, EdgeInv, LookupInv, PromiseInv, [Next]_vars
    PROVE  PromiseInv'
<1>1. /\ Remembered \subseteq Remembered'
      /\ \A id \in Ids : id \notin Remembered /\ RememberNonce(id) => id \in Remembered'
  BY MemoryGrows
<1>2. ASSUME NEW r \in Reqs
      PROVE  /\ fut'[r] = "wait" => reply'[r] = None
             /\ fut'[r] = "result" => answer'[r] \in Answers /\ answer'[r].id \in Remembered'
  <2>1. /\ fut[r] = "wait" => reply[r] = None
        /\ fut[r] = "result" => answer[r] \in Answers /\ answer[r].id \in Remembered
    BY DEF PromiseInv, WaitingUntold, AnswersRemembered
  <2>2. CASE Asks(r) BY <2>2 DEF Asks
  <2>3. CASE Decided(r) BY <1>1, <2>3, EnvelopesAssumption DEF Decided
  <2>4. CASE Tells(r) BY <1>1, <2>1, <2>4 DEF Tells
  <2>5. CASE Rests(r) BY <1>1, <2>1, <2>5 DEF Rests
  <2> QED BY <2>2, <2>3, <2>4, <2>5, CallSteps DEF CallStep
<1> QED BY <1>2 DEF PromiseInv, WaitingUntold, AnswersRemembered

(* The caller's view of the broker is CallContract, if the nonce memory       *)
(* forgets no id: a call is decided at most once, by the node it was sent     *)
(* to, with a response that answers no other call, or by the timer or a       *)
(* reload, and its caller is told once, of that or of a timeout.             *)
THEOREM BrokerKeepsContract ==
    ASSUME NeverForgets
    PROVE  Spec => ContractSpec
<1>1. Init => EdgeInv /\ LookupInv /\ PromiseInv
  BY EdgeInit, LookupInit DEF Init, PromiseInv, WaitingUntold, AnswersRemembered
<1>2. Init => Contract!Init
  <2> SUFFICES ASSUME Init PROVE Contract!Init
    OBVIOUS
  <2>1. \A r \in Reqs : Verdict(r) = None /\ Told(r) = None
    BY NoneAssumption DEF Init, Verdict, Told, Outcomes
  <2> QED BY <2>1 DEF Init, Contract!Init
<1>3. TypeInv /\ EdgeInv /\ LookupInv /\ [Next]_vars => LookupInv'
  BY LookupNext
<1>4. TypeInv /\ EdgeInv /\ LookupInv /\ PromiseInv /\ [Next]_vars => PromiseInv'
  BY PromiseNext
<1>5. TypeInv /\ TypeInv' /\ EdgeInv /\ PromiseInv /\ [Next]_vars
        => [Contract!Next]_(Contract!state)
  BY StepsKeepPromise
<1> QED
  BY <1>1, <1>2, <1>3, <1>4, <1>5, TypeInit, TypeNext, EdgeNext, PTL
  DEF Spec, ContractSpec, Contract!Spec

(***************************************************************************)
(* Replacing the manifest.  Only the core surfaces touch the registry, and   *)
(* the operator the file; what a replacement leaves is what is on disk.      *)
(***************************************************************************)
Replaces ==
    \E known, m : /\ m \in Manifests /\ disk' = m
                  /\ Reload(known, m)
                  /\ \/ known = decl
                     \/ \E bad \in Payloads : /\ bad.broken /\ known = DeclaredBy(bad)
                                              /\ m = IF disk # Missing THEN disk ELSE backup

\* What core.set_manifest does to the registry and to the files.
LEMMA SetManifestReplaces ==
    ASSUME TypeInv, NEW r \in Reqs, NEW e \in Calls, NEW m \in Payloads,
           CoreSetManifest(r, e, m)
    PROVE  /\ Replaces
           /\ m.broken /\ disk # Missing => disk' = disk
           /\ disk' \in Payloads \cup {disk, backup}
           /\ ~m.broken => disk' = m
<1> DEFINE saved == IF disk # Missing THEN disk ELSE backup
           restore == m.broken /\ saved # Missing
           last  == IF restore THEN saved ELSE m
           known == IF restore THEN DeclaredBy(m) ELSE decl
<1>1. last \in Manifests
  BY ManifestsAssumption DEF TypeInv, TypeOK
<1>2. Reload(known, last) /\ disk' = last
  BY DEF CoreSetManifest
<1>3. restore => m.broken /\ known = DeclaredBy(m) /\ last = saved
  OBVIOUS
<1>4. ~restore => known = decl
  OBVIOUS
<1>5. Replaces
  BY <1>1, <1>2, <1>3, <1>4 DEF Replaces
<1> QED BY <1>2, <1>5

\* The steps by what they do to the registry, the files and the connections.
LEMMA ManifestSteps ==
    ASSUME TypeInv, [Next]_vars
    PROVE  \/ UNCHANGED <<registry, files, conn>>
           \/ UNCHANGED <<registry, files, reply>> /\ \E n \in Nodes, s \in Sessions : Register(n, s)
           \/ UNCHANGED <<registry, conn, backup, reply>> /\ disk' \in HandEdits
           \/ /\ Loaded /\ Replaces /\ UNCHANGED backup /\ disk' = disk
           \/ \E r \in Reqs, e \in Calls, m \in Payloads :
                 Loaded /\ CoreSetManifest(r, e, m)
<1>1. CASE Registering
  BY <1>1 DEF Registering, Register, files, calls
<1>2. CASE Streaming
  BY <1>2 DEF Streaming, StreamOpen, StreamGreeted, StreamTake, StreamWritten,
              StreamPutBack, StreamBlocked, StreamDropped, sessions
<1>3. CASE Invoking
  <2> SUFFICES ASSUME NEW r \in Reqs, NEW e \in Calls,
                      \/ \E kindOk, signed, fresh \in BOOLEAN :
                            InvokeRejected(r, e, kindOk, signed, fresh)
                      \/ \E valid \in BOOLEAN : InvokeDenied(r, e, valid)
                      \/ InvokeNotify(r, e)
                      \/ InvokeCall(r, e)
               PROVE  UNCHANGED <<registry, files, conn>>
    BY <1>3 DEF Invoking
  <2> QED BY DEF InvokeRejected, InvokeDenied, InvokeNotify, InvokeCall, sessions
<1>4. CASE Deciding BY <1>4 DEF Deciding, Expire, Resume, ResumedWith, sessions
<1>5. CASE Responding
  BY <1>5 DEF Responding, RespondReplayed, RespondUnmatched, RespondAccepted, sessions
<1>6. ASSUME NEW r \in Reqs, NEW e \in Calls, NEW mode \in CoreModes, InProcess(r, e, mode)
      PROVE  Loaded
  BY <1>6 DEF InProcess, Route, Loaded
<1>7. ASSUME NEW r \in Reqs, NEW e \in Calls, CoreReload(r, e)
      PROVE  Loaded /\ Replaces /\ UNCHANGED backup /\ disk' = disk
  <2>1. Loaded
    BY <1>6, <1>7 DEF CoreReload, CoreModes, Modes
  <2>2. disk \in Manifests /\ Reload(decl, disk) /\ disk' = disk /\ UNCHANGED backup
    BY <1>7 DEF CoreReload, files, TypeInv, TypeOK
  <2> QED BY <2>1, <2>2 DEF Replaces
<1>8. ASSUME NEW r \in Reqs, NEW e \in Calls, NEW m \in Payloads, CoreSetManifest(r, e, m)
      PROVE  Loaded
  BY <1>6, <1>8 DEF CoreSetManifest, CoreModes, Modes
<1>9. CASE Governing
  BY <1>7, <1>8, <1>9 DEF Governing, CoreSupervised, CoreInspect, CoreSupervise,
                          CoreSetRefused, sessions
<1>10. CASE \E m \in HandEdits : EditManifestFile(m)
  BY <1>10 DEF EditManifestFile, sessions, calls
<1>11. CASE UNCHANGED vars BY <1>11 DEF vars, sessions
<1> QED BY <1>1, <1>2, <1>3, <1>4, <1>5, <1>9, <1>10, <1>11 DEF Next

(* A call that Core still works on waits on the supervisor.                  *)
SuperviseInv == \A r \in Reqs : InCore(r) => Supervises(r)

LEMMA SuperviseNext ==
    ASSUME TypeInv, EdgeInv, SuperviseInv, [Next]_vars
    PROVE  SuperviseInv'
<1> SUFFICES ASSUME NEW r \in Reqs, InCore(r)' PROVE Supervises(r)'
  BY DEF SuperviseInv
<1>1. CallStep
  BY CallSteps
<1>2. CASE Asks(r)
  BY <1>2 DEF Asks
<1>3. CASE Decided(r)
  BY <1>3 DEF Decided, InCore
<1>4. CASE Tells(r)
  BY <1>4, NoneAssumption DEF Tells, InCore, CoreReplies, Outcomes
<1>5. CASE Rests(r)
  BY <1>5 DEF Rests, InCore, SuperviseInv, Supervises
<1> QED BY <1>1, <1>2, <1>3, <1>4, <1>5 DEF CallStep

\* A step that gives Core's reply to a request is one of Core's surfaces.
LEMMA CoreReplySteps ==
    ASSUME TypeInv, SuperviseInv, [Next]_vars,
           NEW q \in Reqs, NEW outcome \in CoreReplies, Replied(q, outcome)
    PROVE  \/ /\ UNCHANGED <<registry, files, conn, pending, fut>>
              /\ outcome = "core_error" \/ ~Governs(q)'
           \/ \E e \in Calls : CoreReload(q, e)
           \/ \E e \in Calls, m \in Payloads : CoreSetManifest(q, e, m)
<1>1. reply[q] = None /\ reply'[q] = outcome /\ outcome # None
  BY NoneAssumption DEF Replied, CoreReplies, Outcomes
<1>2. ASSUME NEW r \in Reqs, NEW x, reply' = [reply EXCEPT ![r] = x] PROVE r = q /\ x = outcome
  BY <1>1, <1>2 DEF TypeInv, TypeOK
<1>3. ~ UNCHANGED reply
  BY <1>1
<1>4. ~ Registering /\ ~ Streaming /\ ~ Responding /\ ~ UNCHANGED vars
  BY <1>3 DEF Registering, Register, Streaming, StreamOpen, StreamGreeted, StreamTake,
              StreamWritten, StreamPutBack, StreamBlocked, StreamDropped, Responding,
              RespondReplayed, RespondUnmatched, RespondAccepted, calls, vars
<1>5. ~ \E m \in HandEdits : EditManifestFile(m)
  BY <1>3 DEF EditManifestFile, calls
<1>6. ~ Invoking
  <2>1. ASSUME NEW r \in Reqs, NEW e \in Calls, NEW x, Finish(r, e, x) PROVE x \in CoreReplies
    BY <1>2, <2>1 DEF Finish
  <2>2. ASSUME NEW r \in Reqs, NEW e \in Calls, NEW kindOk, NEW signed, NEW fresh,
               InvokeRejected(r, e, kindOk, signed, fresh)
        PROVE  FALSE
    BY <2>1, <2>2 DEF InvokeRejected, Gate, CoreReplies
  <2>3. ASSUME NEW r \in Reqs, NEW e \in Calls, NEW valid, InvokeDenied(r, e, valid)
        PROVE  FALSE
    BY <2>1, <2>3 DEF InvokeDenied, Route, CoreReplies
  <2>4. ASSUME NEW r \in Reqs, NEW e \in Calls, InvokeNotify(r, e) PROVE FALSE
    <3>1. Finish(r, e, "accepted")
      BY <2>4 DEF InvokeNotify
    <3> QED BY <2>1, <3>1 DEF CoreReplies
  <2>5. ASSUME NEW r \in Reqs, NEW e \in Calls, InvokeCall(r, e) PROVE FALSE
    BY <1>3, <2>5 DEF InvokeCall
  <2> QED BY <2>2, <2>3, <2>4, <2>5 DEF Invoking
<1>7. ~ Deciding
  BY <1>2, <1>3 DEF Deciding, Expire, Resume, ResumedWith, CoreReplies
<1>8. ASSUME NEW r \in Reqs, NEW x \in CoreReplies, CoreSupervised(r, x)
      PROVE  UNCHANGED <<registry, files, conn, pending, fut>> /\ ~Governs(q)'
  <2>1. r = q /\ InCore(q) /\ UNCHANGED <<registry, files, sessions, env, pending, fut>>
    BY <1>2, <1>8 DEF CoreSupervised
  <2> QED BY <2>1 DEF SuperviseInv, Supervises, Governs, Sets, sessions
<1>9. ASSUME NEW r \in Reqs, NEW e \in Calls, CoreInspect(r, e)
      PROVE  UNCHANGED <<registry, files, conn, pending, fut>> /\ ~Governs(q)'
  <2>1. r = q /\ env'[q] = e /\ Mode[e.to] = "inspect"
    BY <1>2, <1>9 DEF CoreInspect, Finish, InProcess, TypeInv, TypeOK
  <2> QED BY <1>9, <2>1 DEF CoreInspect, Governs, Sets, sessions
<1>10. ASSUME NEW r \in Reqs, NEW e \in Calls, CoreSetRefused(r, e)
       PROVE  UNCHANGED <<registry, files, conn, pending, fut>> /\ outcome = "core_error"
  BY <1>2, <1>10 DEF CoreSetRefused, Finish, sessions
<1>11. ASSUME NEW r \in Reqs, NEW e \in Calls PROVE ~CoreSupervise(r, e)
  BY <1>3 DEF CoreSupervise
<1>12. ASSUME NEW r \in Reqs, NEW e \in Calls, CoreReload(r, e) PROVE r = q
  BY <1>2, <1>12 DEF CoreReload, Finish
<1>13. ASSUME NEW r \in Reqs, NEW e \in Calls, NEW m \in Payloads, CoreSetManifest(r, e, m)
       PROVE  r = q
  BY <1>2, <1>13 DEF CoreSetManifest, Finish
<1>14. Governing
  BY <1>4, <1>5, <1>6, <1>7 DEF Next
<1> QED
  BY <1>8, <1>9, <1>10, <1>11, <1>12, <1>13, <1>14 DEF Governing, CoreReplies

\* A reload of the file that already runs: nobody is revoked or disconnected.
LEMMA ReloadOfSame ==
    ASSUME TypeInv, EdgeInv, Loaded, RunningIsDisk, NEW known, Reload(known, disk),
           disk' = disk
    PROVE  LeavesNoTrace
<1>1. ~disk.broken
  BY SurfacesAssumption, ManifestsAssumption DEF Loaded, RunningIsDisk, DeclaredBy, TypeInv, TypeOK
<1>2. UNCHANGED registry
  BY DEF Reload, RunningIsDisk, registry
<1>3. RevokedBy(disk) = {}
  BY DEF RevokedBy, RunningIsDisk, EdgeInv, PendingHasEdge
<1>4. UNCHANGED <<pending, fut>>
  <2>1. /\ pending' = [i \in Ids |-> pending[i]]
        /\ fut' = [r \in Reqs |-> fut[r]]
    BY <1>1, <1>3 DEF Reload, RevokeCalls
  <2> QED BY <2>1 DEF TypeInv, TypeOK
<1>5. \A n \in decl \cap Nodes : conn'[n] = conn[n]
  BY <1>1 DEF Reload, CloseRemoved, Removed, RunningIsDisk
<1> QED BY <1>2, <1>4, <1>5 DEF LeavesNoTrace

(* What the replies of core.set_manifest and core.reload_manifest promise.    *)
THEOREM ReplacementIsWhole == Spec => ManifestReplacedWhole
<1> DEFINE Whole(r) ==
        /\ Replied(r, "core_result") /\ Governs(r)' => ~disk'.broken /\ RunningIsDisk'
        /\ Replied(r, "core_error") /\ Sets(r)' /\ ~disk.broken =>
              RunningIsDisk' \/ UNCHANGED registry
        /\ Replied(r, "core_error") /\ Sets(r)' /\ Loaded /\ RunningIsDisk =>
              LeavesNoTrace
        /\ Replied(r, "core_error") /\ disk # Missing => disk' = disk
<1>1. ASSUME TypeInv, EdgeInv, SuperviseInv, [Next]_vars, NEW r \in Reqs PROVE Whole(r)
  <2>1. ASSUME NEW known, NEW m, Reload(known, m), disk' = m PROVE RunningIsDisk'
    BY <2>1 DEF Reload, RunningIsDisk, DeclaredBy, OfferedBy
  <2>2. CASE /\ UNCHANGED <<registry, files, conn, pending, fut>>
             /\ Replied(r, "core_error") \/ ~Governs(r)'
    BY <2>2, NoneAssumption DEF LeavesNoTrace, Replied, Outcomes, files, Governs
  <2>3. ASSUME NEW e \in Calls, CoreReload(r, e) PROVE Whole(r)
    <3>1. /\ Reload(decl, disk) /\ disk' = disk /\ env'[r] = e /\ Mode[e.to] = "reload_manifest"
          /\ reply'[r] = IF disk.broken THEN "core_error" ELSE "core_result"
      BY <1>1, <2>3 DEF CoreReload, InProcess, Finish, files, TypeInv, TypeOK
    <3>2. RunningIsDisk'
      BY <2>1, <3>1
    <3> QED BY <3>1, <3>2 DEF Replied, Sets
  <2>4. ASSUME NEW e \in Calls, NEW m \in Payloads, CoreSetManifest(r, e, m) PROVE Whole(r)
    <3>1. reply'[r] = IF m.broken THEN "core_error" ELSE "core_result"
      BY <1>1, <2>4 DEF CoreSetManifest, Finish, TypeInv, TypeOK
    <3>2. CASE ~m.broken
      <4>1. Reload(decl, m) /\ disk' = m /\ reply'[r] = "core_result"
        BY <2>4, <3>1, <3>2 DEF CoreSetManifest
      <4> QED BY <2>1, <3>2, <4>1 DEF Replied
    <3>3. CASE m.broken
      <4>1. \E known : Reload(known, disk')
        BY <2>4 DEF CoreSetManifest
      <4>2. RunningIsDisk'
        BY <2>1, <4>1
      <4>3. disk # Missing => disk' = disk
        BY <2>4, <3>3 DEF CoreSetManifest
      <4>4. Loaded /\ RunningIsDisk => disk # Missing
        BY SurfacesAssumption DEF Loaded, RunningIsDisk, DeclaredBy, Missing
      <4>5. Loaded /\ RunningIsDisk => LeavesNoTrace
        BY <1>1, <4>1, <4>3, <4>4, ReloadOfSame
      <4>6. reply'[r] = "core_error"
        BY <3>1, <3>3
      <4> QED BY <4>2, <4>3, <4>5, <4>6 DEF Replied
    <3> QED BY <3>2, <3>3
  <2>5. CASE ~Replied(r, "core_result") /\ ~Replied(r, "core_error")
    BY <2>5
  <2>6. CASE Replied(r, "core_result") \/ Replied(r, "core_error")
    <3>1. PICK outcome \in CoreReplies : Replied(r, outcome)
      BY <2>6 DEF CoreReplies
    <3> HIDE DEF Whole
    <3> QED BY <1>1, <2>2, <2>3, <2>4, <3>1, CoreReplySteps
  <2> QED BY <2>5, <2>6
<1>2. TypeInv /\ EdgeInv /\ SuperviseInv /\ [Next]_vars => [\A r \in Reqs : Whole(r)]_vars
  BY <1>1
<1>3. Init => EdgeInv /\ SuperviseInv
  BY EdgeInit DEF Init, SuperviseInv, InCore
<1>4. TypeInv /\ EdgeInv /\ SuperviseInv /\ [Next]_vars => SuperviseInv'
  BY SuperviseNext
<1> QED
  BY <1>2, <1>3, <1>4, TypeInit, TypeNext, EdgeNext, PTL DEF Spec, ManifestReplacedWhole

(* A node can only stay connected undeclared if a payload fails to load and   *)
(* is rolled back to a file that Core did not write.                        *)
NoStrays == HandEdits = {} \/ \A m \in Payloads : ~m.broken

DeclInv ==
    /\ ConnectedAreDeclared
    /\ HandEdits = {} => /\ RunningIsDisk
                         /\ ~disk.broken

\* Every step keeps the connected nodes among the declared ones.
LEMMA DeclNext ==
    ASSUME NoStrays, TypeInv, DeclInv, [Next]_vars
    PROVE  DeclInv'
<1> USE DEF DeclInv, ConnectedAreDeclared, Loaded, TypeInv, TypeOK
<1>1. ASSUME UNCHANGED <<registry, conn>>, HandEdits = {} => disk' = disk PROVE DeclInv'
  BY <1>1 DEF registry, RunningIsDisk, DeclaredBy, OfferedBy
<1>2. ASSUME NEW n \in Nodes, NEW s \in Sessions, Register(n, s), disk' = disk PROVE DeclInv'
  BY <1>2 DEF Register, registry, RunningIsDisk, DeclaredBy, OfferedBy
<1>3. ASSUME NEW known, NEW m \in Manifests, Reload(known, m)
      PROVE  /\ \A n \in Nodes : conn'[n] # None => conn[n] # None
             /\ ~m.broken => \A n \in known \cap Nodes : conn'[n] # None => n \in decl'
             /\ decl' = DeclaredBy(m)
  <2>1. CASE m.broken
    BY <1>3, <2>1 DEF Reload
  <2>2. CASE ~m.broken
    BY <1>3, <2>2 DEF Reload, CloseRemoved, Removed
  <2> QED BY <2>1, <2>2
<1>4. ASSUME Loaded, Replaces, HandEdits = {} => ~disk'.broken
      PROVE  DeclInv'
  <2>1. PICK known, m : /\ m \in Manifests /\ disk' = m /\ Reload(known, m)
                        /\ \/ known = decl
                           \/ \E bad \in Payloads :
                                 /\ bad.broken
                                 /\ m = IF disk # Missing THEN disk ELSE backup
    BY <1>4 DEF Replaces
  <2>2. RunningIsDisk'
    BY <2>1 DEF Reload, RunningIsDisk, DeclaredBy, OfferedBy
  <2>3. CASE known = decl
    <3>1. Core \in decl' => ~m.broken
      BY <1>3, <2>1, SurfacesAssumption, ManifestsAssumption DEF DeclaredBy
    <3>2. ConnectedAreDeclared'
      BY <1>3, <1>4, <2>1, <2>3, <3>1
    <3> QED BY <1>4, <2>2, <3>2
  <2>4. CASE known # decl
    <3>1. HandEdits = {} /\ m = IF disk # Missing THEN disk ELSE backup
      BY <2>1, <2>4 DEF NoStrays
    <3>2. m = disk /\ decl = DeclaredBy(disk)
      BY <3>1 DEF RunningIsDisk, Missing
    <3>3. decl' = decl
      BY <1>3, <2>1, <3>2
    <3>4. ConnectedAreDeclared'
      BY <1>3, <1>4, <2>1, <3>3
    <3> QED BY <1>4, <2>2, <3>4
  <2> QED BY <2>3, <2>4
<1>5. ASSUME Loaded, NEW r \in Reqs, NEW e \in Calls, NEW m \in Payloads, CoreSetManifest(r, e, m)
      PROVE  DeclInv'
  <2>1. /\ Replaces
        /\ m.broken /\ disk # Missing => disk' = disk
        /\ ~m.broken => disk' = m
    BY <1>5, SetManifestReplaces
  <2>2. HandEdits = {} => ~disk'.broken
    BY <2>1 DEF Missing
  <2> QED BY <1>4, <1>5, <2>1, <2>2
<1>6. CASE UNCHANGED <<registry, files, conn>>
  BY <1>1, <1>6 DEF files
<1>7. CASE UNCHANGED <<registry, conn>> /\ disk' \in HandEdits
  BY <1>1, <1>7
<1>8. ASSUME NEW n \in Nodes, NEW s \in Sessions, Register(n, s) PROVE DeclInv'
  BY <1>2, <1>8 DEF Register, files
<1>9. CASE Loaded /\ Replaces /\ disk' = disk
  BY <1>4, <1>9
<1> HIDE DEF DeclInv, Loaded, TypeInv
<1> QED BY <1>5, <1>6, <1>7, <1>8, <1>9, ManifestSteps

(* If payloads load, or nobody edits the file under Core, every connected     *)
(* node is declared, through reloads, failed loads and rollbacks.           *)
THEOREM OnlyDeclaredConnected ==
    ASSUME NoStrays
    PROVE  Spec => []ConnectedAreDeclared
<1>1. Init => DeclInv
  BY ManifestsAssumption DEF Init, DeclInv, ConnectedAreDeclared, RunningIsDisk
<1>2. TypeInv /\ DeclInv /\ [Next]_vars => DeclInv'
  BY DeclNext
<1>3. DeclInv => ConnectedAreDeclared
  BY DEF DeclInv
<1> QED BY <1>1, <1>2, <1>3, TypeInit, TypeNext, PTL DEF Spec

-----------------------------------------------------------------------------
(***************************************************************************)
(* Who touches queues and streams.                                          *)
(***************************************************************************)
(* Markers go to queues of connected nodes, at most one per queue and step.  *)
Marked ==
    /\ UNCHANGED <<attached, holding, handed>>
    /\ \A s \in Sessions :
          \/ queue'[s] = queue[s]
          \/ /\ \E n \in Nodes : conn[n] = s
             /\ \E event \in {Close, Reloaded} : queue'[s] = Append(queue[s], event)

(* A request whose envelope went to its target.                             *)
Sent(q) == fut[q] # "none" \/ reply[q] = "accepted"

(* The envelope of a request goes to the queue of a connected node, once its   *)
(* id, which was not in the nonce memory, has entered it.                   *)
Routed ==
    \E e \in Calls, n \in Nodes :
        /\ conn[n] \in Sessions
        /\ \E r \in Reqs : env'[r] = e /\ Sent(r)'
        /\ queue' = [queue EXCEPT ![conn[n]] = Append(queue[conn[n]], Deliver(e))]
        /\ e.id \notin Remembered /\ RememberNonce(e.id)
        /\ UNCHANGED <<attached, holding, handed>>

(* A reload marks the queues of the connected nodes.                        *)
LEMMA ReloadMarks ==
    ASSUME TypeInv, NEW known, NEW m, Reload(known, m), UNCHANGED streams
    PROVE  Marked
<1>1. CASE m.broken
  BY <1>1 DEF Reload, Marked, streams
<1>2. CASE ~m.broken
  <2>1. \A s \in Sessions :
           queue'[s] = IF s \in ClosedBy(known, m) THEN PutNoWait(queue[s], Close)
                       ELSE IF \E n \in Nodes : conn[n] = s
                       THEN PutNoWait(queue[s], Reloaded)
                       ELSE queue[s]
    BY <1>2 DEF Reload, CloseRemoved
  <2>2. \A s \in ClosedBy(known, m) : \E n \in Nodes : conn[n] = s
    BY DEF ClosedBy, Removed
  <2> QED BY <2>1, <2>2 DEF Marked, PutNoWait, streams
<1> QED BY <1>1, <1>2

\* The steps by what they do to queues and streams.
LEMMA DeliverySteps ==
    ASSUME TypeInv, [Next]_vars
    PROVE  \/ UNCHANGED <<queue, attached, holding, handed>>
           \/ Marked
           \/ Routed
           \/ \E t \in Streams : \/ \E s \in Sessions : StreamOpen(t, s)
                                 \/ StreamTake(t)
                                 \/ StreamWritten(t)
                                 \/ StreamPutBack(t)
<1>1. ASSUME NEW n \in Nodes, NEW s \in Sessions, Register(n, s) PROVE Marked
  BY <1>1 DEF Register, Marked, PutNoWait, streams
<1>2. CASE Registering BY <1>1, <1>2 DEF Registering
<1>3. CASE Streaming
  BY <1>3 DEF Streaming, StreamGreeted, StreamBlocked, StreamDropped, sessions
<1>4. ASSUME NEW r \in Reqs, NEW e \in Calls, Admitted(r, e), Enqueued(e),
             Route(e, TRUE) = "routed", UNCHANGED streams, env'[r] = e, Sent(r)'
      PROVE  Routed
  <2>1. e.id \notin Remembered /\ RememberNonce(e.id)
    BY <1>4 DEF Admitted, Gate
  <2>2. e.to \in Surfaces /\ Host[e.to] # Core /\ conn[Host[e.to]] # None
    BY <1>4, EnvelopesAssumption DEF Route
  <2>3. Host[e.to] \in Nodes /\ conn[Host[e.to]] \in Sessions
    BY <2>2, SurfacesAssumption DEF TypeInv, TypeOK
  <2> QED BY <1>4, <2>1, <2>3 DEF Enqueued, Routed, streams
<1>5. CASE Invoking
  <2> SUFFICES ASSUME NEW r \in Reqs, NEW e \in Calls,
                      \/ \E kindOk, signed, fresh \in BOOLEAN :
                            InvokeRejected(r, e, kindOk, signed, fresh)
                      \/ \E valid \in BOOLEAN : InvokeDenied(r, e, valid)
                      \/ InvokeNotify(r, e)
                      \/ InvokeCall(r, e)
               PROVE  UNCHANGED <<queue, attached, holding, handed>> \/ Routed
    BY <1>5 DEF Invoking
  <2>1. ASSUME InvokeNotify(r, e) PROVE Routed
    <3>1. env'[r] = e /\ Sent(r)'
      BY <2>1 DEF InvokeNotify, Finish, Sent, TypeInv, TypeOK
    <3> QED BY <1>4, <2>1, <3>1 DEF InvokeNotify
  <2>2. ASSUME InvokeCall(r, e) PROVE Routed
    <3>1. env'[r] = e /\ Sent(r)'
      BY <2>2 DEF InvokeCall, Sent, TypeInv, TypeOK
    <3> QED BY <1>4, <2>2, <3>1 DEF InvokeCall
  <2> QED BY <2>1, <2>2 DEF InvokeRejected, InvokeDenied, sessions, streams
<1>6. CASE Deciding BY <1>6 DEF Deciding, Expire, Resume, ResumedWith, sessions, streams
<1>7. CASE Responding
  BY <1>7 DEF Responding, RespondReplayed, RespondUnmatched, RespondAccepted, sessions, streams
<1>8. ASSUME NEW r \in Reqs, NEW e \in Calls, CoreReload(r, e) PROVE Marked
  BY <1>8, ReloadMarks DEF CoreReload
<1>9. ASSUME NEW r \in Reqs, NEW e \in Calls, NEW m \in Payloads, CoreSetManifest(r, e, m)
      PROVE  Marked
  BY <1>9, SetManifestReloads, ReloadMarks DEF CoreSetManifest, TypeInv
<1>10. CASE Governing
  BY <1>8, <1>9, <1>10 DEF Governing, CoreSupervised, CoreInspect, CoreSupervise,
                           CoreSetRefused, sessions, streams
<1>11. CASE \E m \in HandEdits : EditManifestFile(m)
  BY <1>11 DEF EditManifestFile, sessions, streams
<1>12. CASE UNCHANGED vars BY <1>12 DEF vars, sessions, streams
<1> QED BY <1>2, <1>3, <1>5, <1>6, <1>7, <1>10, <1>11, <1>12 DEF Next

(***************************************************************************)
(* Sessions that are gone.  Markers and envelopes go to the sessions of      *)
(* connected nodes only, and those have an owner; everything else moves      *)
(* events between a session's queue and its own stream handlers.            *)
(***************************************************************************)
LEMMA DrainStep ==
    ASSUME TypeInv, SessionInv, [Next]_vars, NEW s \in Sessions, Dead(s)
    PROVE  Traffic(s)' \subseteq Traffic(s) \cup {None}
<1> USE DEF TypeInv, TypeOK
<1>1. \A n \in Nodes : conn[n] # s
  BY SurfacesAssumption DEF Dead, SessionInv, SessionsMatchConnections
<1>2. ASSUME queue'[s] = queue[s], UNCHANGED <<attached, holding>>
      PROVE  Traffic(s)' \subseteq Traffic(s)
  BY <1>2 DEF Traffic
<1>3. CASE Marked
  BY <1>1, <1>2, <1>3 DEF Marked
<1>4. CASE Routed
  BY <1>1, <1>2, <1>4 DEF Routed
<1>5. ASSUME NEW t \in Streams, NEW x \in Sessions, StreamOpen(t, x)
      PROVE  Traffic(s)' \subseteq Traffic(s)
  <2>1. x # s
    BY <1>5 DEF StreamOpen, Dead
  <2>2. \A u \in Streams : attached'[u] = s => attached[u] = s
    BY <1>5, <2>1 DEF StreamOpen
  <2> QED BY <1>5, <2>2 DEF StreamOpen, Traffic, sessions
<1>6. ASSUME NEW t \in Streams, StreamTake(t)
      PROVE  Traffic(s)' \subseteq Traffic(s)
  <2> DEFINE x == attached[t]
  <2>1. x \in Sessions /\ queue[x] # <<>> /\ queue[x] \in Seq(Events)
    BY <1>6 DEF StreamTake, StreamsAttached
  <2>2. /\ queue' = [queue EXCEPT ![x] = Tail(queue[x])]
        /\ holding' \in {holding, [holding EXCEPT ![t] = Head(queue[x])]}
        /\ attached' = attached
    BY <1>6 DEF StreamTake
  <2>3. /\ Len(queue[x]) >= 1 /\ Head(queue[x]) = queue[x][1]
        /\ \A k \in 1..Len(Tail(queue[x])) :
              k + 1 \in 1..Len(queue[x]) /\ Tail(queue[x])[k] = queue[x][k + 1]
    BY <2>1
  <2>4. \A k \in 1..Len(queue'[s]) : queue'[s][k] \in Traffic(s)
    BY <2>1, <2>2, <2>3 DEF Traffic
  <2>5. \A u \in Streams : attached[u] = s => holding'[u] \in Traffic(s)
    <3> SUFFICES ASSUME NEW u \in Streams, attached[u] = s PROVE holding'[u] \in Traffic(s)
      OBVIOUS
    <3>1. holding'[u] = holding[u] \/ (u = t /\ holding'[u] = queue[x][1])
      BY <2>2, <2>3
    <3>2. holding[u] \in Traffic(s)
      BY DEF Traffic
    <3>3. u = t => queue[x][1] \in Traffic(s)
      BY <2>1, <2>3 DEF Traffic
    <3> QED BY <3>1, <3>2, <3>3
  <2>6. Traffic(s)' = {queue'[s][k] : k \in 1..Len(queue'[s])}
                          \cup {holding'[u] : u \in {y \in Streams : attached[y] = s}}
    BY <2>2 DEF Traffic
  <2> QED BY <2>4, <2>5, <2>6
<1>7. ASSUME NEW t \in Streams, StreamWritten(t)
      PROVE  Traffic(s)' \subseteq Traffic(s) \cup {None}
  BY <1>7 DEF StreamWritten, Traffic, sessions
<1>8. ASSUME NEW t \in Streams, StreamPutBack(t)
      PROVE  Traffic(s)' \subseteq Traffic(s) \cup {None}
  <2> DEFINE x == attached[t]
  <2>1. x \in Sessions /\ queue[x] \in Seq(Events) /\ holding[t] \in Events
    BY <1>8 DEF StreamPutBack, StreamsAttached
  <2>2. /\ queue' = [queue EXCEPT ![x] = Append(queue[x], holding[t])]
        /\ holding' = [holding EXCEPT ![t] = None]
        /\ attached' = attached
    BY <1>8 DEF StreamPutBack
  <2>3. \A k \in 1..Len(Append(queue[x], holding[t])) :
           \/ k \in 1..Len(queue[x]) /\ Append(queue[x], holding[t])[k] = queue[x][k]
           \/ Append(queue[x], holding[t])[k] = holding[t]
    BY <2>1
  <2>4. \A k \in 1..Len(queue'[s]) : queue'[s][k] \in Traffic(s)
    BY <2>1, <2>2, <2>3 DEF Traffic
  <2> QED BY <2>2, <2>4 DEF Traffic
<1>9. CASE UNCHANGED <<queue, attached, holding, handed>>
  BY <1>2, <1>9
<1> HIDE DEF TypeInv
<1> QED BY <1>3, <1>4, <1>5, <1>6, <1>7, <1>8, <1>9, DeliverySteps

(* A session that was replaced or closed receives nothing new, whatever       *)
(* registers, reloads, breaks and is put back.                              *)
THEOREM DeadSessionsDrain == Spec => DeadSessionsOnlyDrain
<1>1. Init => SessionInv
  BY SurfacesAssumption, EnvelopesAssumption
     DEF Init, SessionInv, SessionsMatchConnections, ConnectedIssued
<1>2. TypeInv /\ SessionInv /\ [Next]_vars =>
          [\A s \in Sessions : Dead(s) => Traffic(s)' \subseteq Traffic(s) \cup {None}]_vars
  BY DrainStep
<1> QED BY <1>1, <1>2, TypeInit, TypeNext, SessionNext, PTL DEF Spec, DeadSessionsOnlyDrain

(***************************************************************************)
(* No duplicates.  Counting is replaced by naming: at most one queue          *)
(* position, stream handler or past write carries an id, and whatever does    *)
(* left its id in the nonce memory, so that nobody routes it again.         *)
(***************************************************************************)
InQueue(i, s, k) == k \in 1..Len(queue[s]) /\ Carries(queue[s][k], i)
InHand(i, t) == Carries(holding[t], i)

OneCopy(i) ==
    /\ \A s, x \in Sessions : \A k, j \in Nat :
          InQueue(i, s, k) /\ InQueue(i, x, j) => s = x /\ k = j
    /\ \A t, u \in Streams : InHand(i, t) /\ InHand(i, u) => t = u
    /\ \A s \in Sessions, k \in Nat, t \in Streams : ~(InQueue(i, s, k) /\ InHand(i, t))
Delivered(i) ==
    handed[i] # 0 => /\ handed[i] = 1
                     /\ \A s \in Sessions, k \in Nat : ~InQueue(i, s, k)
                     /\ \A t \in Streams : ~InHand(i, t)
Known(i) ==
    i \notin Remembered => /\ handed[i] = 0
                           /\ \A s \in Sessions, k \in Nat : ~InQueue(i, s, k)
                           /\ \A t \in Streams : ~InHand(i, t)
NoMarkerHeld == \A t \in Streams : holding[t] # Close

DeliveryInv == NoMarkerHeld /\ \A i \in Ids : OneCopy(i) /\ Delivered(i) /\ Known(i)

\* What can be told apart in a queue.
LEMMA Markers ==
    /\ Close # Reloaded /\ Close # None /\ Reloaded # None
    /\ \A e \in Calls : Deliver(e) \notin {None, Close, Reloaded} /\ Deliver(e).env = e
    /\ \A e \in Calls, i \in Ids : Carries(Deliver(e), i) <=> e.id = i
    /\ \A i \in Ids : ~Carries(None, i) /\ ~Carries(Close, i) /\ ~Carries(Reloaded, i)
<1>1. Close.type = "_close" /\ Reloaded.type = "manifest_reloaded"
  BY DEF Close, Reloaded
<1>2. \A e \in Calls : Deliver(e).type = "deliver" /\ Deliver(e).env = e
  BY DEF Deliver
<1>3. Close # Reloaded /\ \A e \in Calls : Deliver(e) \notin {Close, Reloaded}
  BY <1>1, <1>2
<1>4. None \notin Events
  BY NoneAssumption
<1>5. Close # None /\ Reloaded # None /\ \A e \in Calls : Deliver(e) # None
  BY <1>4, EventTypes
<1> QED BY <1>2, <1>3, <1>5 DEF Carries

(* Where an id is after an event was appended to, or taken from, a queue.    *)
LEMMA Appended ==
    ASSUME TypeInv, NEW x \in Sessions, NEW event \in Events, NEW i \in Ids,
           NEW s \in Sessions,
           queue'[s] = IF s = x THEN Append(queue[x], event) ELSE queue[s]
    PROVE  \A k \in Nat : InQueue(i, s, k)' <=>
               \/ InQueue(i, s, k)
               \/ s = x /\ k = Len(queue[x]) + 1 /\ Carries(event, i)
<1>1. queue[x] \in Seq(Events)
  BY DEF TypeInv, TypeOK
<1>2. /\ Len(Append(queue[x], event)) = Len(queue[x]) + 1
      /\ Append(queue[x], event)[Len(queue[x]) + 1] = event
      /\ \A k \in 1..Len(queue[x]) : Append(queue[x], event)[k] = queue[x][k]
      /\ Len(queue[x]) \in Nat
  BY <1>1
<1> QED BY <1>2 DEF InQueue, Carries

\* Taking the head of a queue moves the rest one place forward.
LEMMA Taken ==
    ASSUME TypeInv, NEW x \in Sessions, queue[x] # <<>>, NEW i \in Ids,
           queue' = [queue EXCEPT ![x] = Tail(queue[x])]
    PROVE  /\ \A s \in Sessions, k \in Nat :
                 InQueue(i, s, k)' <=>
                    IF s = x THEN k # 0 /\ InQueue(i, x, k + 1) ELSE InQueue(i, s, k)
           /\ InQueue(i, x, 1) <=> Carries(Head(queue[x]), i)
<1>1. queue[x] \in Seq(Events)
  BY DEF TypeInv, TypeOK
<1>2. /\ Len(queue[x]) \in Nat /\ Len(queue[x]) # 0 /\ Head(queue[x]) = queue[x][1]
      /\ Len(Tail(queue[x])) = Len(queue[x]) - 1
      /\ \A k \in 1..(Len(queue[x]) - 1) : Tail(queue[x])[k] = queue[x][k + 1]
  BY <1>1
<1>3. queue'[x] = Tail(queue[x]) /\ \A s \in Sessions : s # x => queue'[s] = queue[s]
  BY DEF TypeInv, TypeOK
<1>4. InQueue(i, x, 1) <=> Carries(Head(queue[x]), i)
  BY <1>2 DEF InQueue
<1>5. ASSUME NEW s \in Sessions, NEW k \in Nat, s # x
      PROVE  InQueue(i, s, k)' <=> InQueue(i, s, k)
  BY <1>3, <1>5 DEF InQueue, Carries
<1>6. ASSUME NEW k \in Nat
      PROVE  InQueue(i, x, k)' <=> k # 0 /\ InQueue(i, x, k + 1)
  <2>1. k \in 1..Len(queue'[x]) <=> k # 0 /\ k + 1 \in 1..Len(queue[x])
    <3>1. Len(queue'[x]) = Len(queue[x]) - 1 /\ Len(queue[x]) \in Nat
      BY <1>2, <1>3
    <3> QED BY <3>1
  <2>2. k \in 1..Len(queue'[x]) => queue'[x][k] = queue[x][k + 1]
    BY <1>2, <1>3
  <2> QED BY <2>1, <2>2 DEF InQueue, Carries
<1> QED BY <1>4, <1>5, <1>6

\* Every step keeps an envelope in one place.
LEMMA DeliveryNext ==
    ASSUME NeverForgets, TypeInv, LookupInv, DeliveryInv, [Next]_vars
    PROVE  DeliveryInv'
<1>1. Remembered \subseteq Remembered'
  BY MemoryGrows
<1>2. ASSUME NEW i \in Ids,
             \A s \in Sessions, k \in Nat : InQueue(i, s, k)' => InQueue(i, s, k),
             \A t \in Streams : InHand(i, t)' => InHand(i, t),
             handed'[i] = handed[i]
      PROVE  OneCopy(i)' /\ Delivered(i)' /\ Known(i)'
  <2>1. OneCopy(i) /\ Delivered(i) /\ Known(i)
    BY DEF DeliveryInv
  <2>2. OneCopy(i)'
    BY <1>2, <2>1 DEF OneCopy
  <2>3. Delivered(i)'
    BY <1>2, <2>1 DEF Delivered
  <2>4. Known(i)'
    BY <1>1, <1>2, <2>1 DEF Known
  <2> QED BY <2>2, <2>3, <2>4
<1>3. CASE UNCHANGED <<queue, attached, holding, handed>>
  BY <1>2, <1>3 DEF DeliveryInv, NoMarkerHeld, InQueue, InHand
<1>4. CASE Marked
  <2>1. ASSUME NEW i \in Ids, NEW s \in Sessions, NEW k \in Nat
        PROVE  InQueue(i, s, k)' => InQueue(i, s, k)
    <3>1. CASE queue'[s] = queue[s]
      BY <3>1 DEF InQueue
    <3>2. CASE queue'[s] # queue[s]
      <4>1. PICK event \in {Close, Reloaded} : queue'[s] = Append(queue[s], event)
        BY <1>4, <3>2 DEF Marked
      <4>2. event \in Events /\ ~Carries(event, i)
        BY Markers, EventTypes
      <4> QED BY <4>1, <4>2, Appended
    <3> QED BY <3>1, <3>2
  <2> QED BY <1>2, <1>4, <2>1 DEF Marked, DeliveryInv, NoMarkerHeld, InHand
<1>5. CASE Routed
  <2>1. PICK e \in Calls, n \in Nodes :
            /\ conn[n] \in Sessions
            /\ queue' = [queue EXCEPT ![conn[n]] = Append(queue[conn[n]], Deliver(e))]
            /\ e.id \notin Remembered /\ RememberNonce(e.id)
            /\ UNCHANGED <<attached, holding, handed>>
    BY <1>5 DEF Routed
  <2> DEFINE x == conn[n]
  <2>2. /\ e.id \in Ids /\ Deliver(e) \in Events
        /\ \A i \in Ids : Carries(Deliver(e), i) <=> e.id = i
    BY EventTypes, Markers, EnvelopesAssumption
  <2>3. \A i \in Ids, s \in Sessions, k \in Nat :
           InQueue(i, s, k)' <=> \/ InQueue(i, s, k)
                                 \/ s = x /\ k = Len(queue[x]) + 1 /\ e.id = i
    BY <2>1, <2>2, Appended DEF TypeInv, TypeOK
  <2>4. \A i \in Ids, t \in Streams : InHand(i, t)' <=> InHand(i, t)
    BY <2>1 DEF InHand
  <2>5. ASSUME NEW i \in Ids, i # e.id PROVE OneCopy(i)' /\ Delivered(i)' /\ Known(i)'
    BY <1>2, <2>1, <2>3, <2>4, <2>5
  <2>6. OneCopy(e.id)' /\ Delivered(e.id)' /\ Known(e.id)'
    <3>1. /\ handed[e.id] = 0
          /\ \A s \in Sessions, k \in Nat : ~InQueue(e.id, s, k)
          /\ \A t \in Streams : ~InHand(e.id, t)
      BY <2>1, <2>2 DEF DeliveryInv, Known
    <3>2. e.id \in Remembered'
      BY <2>1, <2>2, MemoryGrows
    <3>3. \A s \in Sessions, k \in Nat :
             InQueue(e.id, s, k)' <=> s = x /\ k = Len(queue[x]) + 1
      BY <2>2, <2>3, <3>1
    <3>4. \A t \in Streams : ~InHand(e.id, t)'
      BY <2>2, <2>4, <3>1
    <3>5. handed'[e.id] = 0
      BY <2>1, <3>1
    <3> QED BY <3>2, <3>3, <3>4, <3>5 DEF OneCopy, Delivered, Known
  <2> QED BY <2>1, <2>5, <2>6 DEF DeliveryInv, NoMarkerHeld
<1>6. ASSUME NEW t \in Streams, NEW s \in Sessions, StreamOpen(t, s) PROVE DeliveryInv'
  BY <1>2, <1>6 DEF StreamOpen, sessions, DeliveryInv, NoMarkerHeld, InQueue, InHand
<1>7. ASSUME NEW t \in Streams, StreamTake(t) PROVE DeliveryInv'
  <2> DEFINE x == attached[t]
             event == Head(queue[x])
  <2>1. x \in Sessions /\ queue[x] # <<>>
    BY <1>7 DEF StreamTake, TypeInv, StreamsAttached
  <2>2. /\ queue' = [queue EXCEPT ![x] = Tail(queue[x])]
        /\ handed' = handed
        /\ \A u \in Streams : u # t => holding'[u] = holding[u]
        /\ \/ holding'[t] = holding[t]
           \/ holding'[t] = event /\ event # Close
    BY <1>7 DEF StreamTake, TypeInv, TypeOK
  <2>3. NoMarkerHeld'
    BY <2>2 DEF DeliveryInv, NoMarkerHeld
  <2>4. ASSUME NEW i \in Ids PROVE OneCopy(i)' /\ Delivered(i)' /\ Known(i)'
    <3>1. /\ \A s \in Sessions, k \in Nat :
                InQueue(i, s, k)' <=>
                   IF s = x THEN k # 0 /\ InQueue(i, x, k + 1) ELSE InQueue(i, s, k)
          /\ InQueue(i, x, 1) <=> Carries(event, i)
      BY <2>1, <2>2, Taken
    <3>2. OneCopy(i) /\ Delivered(i) /\ Known(i)
      BY DEF DeliveryInv
    <3>3. \A u \in Streams : u # t => (InHand(i, u)' <=> InHand(i, u))
      BY <2>2 DEF InHand
    <3>4. InHand(i, t)' => InHand(i, t) \/ InQueue(i, x, 1)
      BY <2>2, <3>1 DEF InHand
    <3>5. ASSUME NEW s \in Sessions, NEW k \in Nat, InQueue(i, s, k)'
          PROVE  InQueue(i, s, IF s = x THEN k + 1 ELSE k) /\ (s = x => k # 0)
      BY <3>1, <3>5
    <3>6. OneCopy(i)'
      <4>1. ASSUME NEW s \in Sessions, NEW y \in Sessions, NEW k \in Nat, NEW j \in Nat,
                   InQueue(i, s, k)', InQueue(i, y, j)'
            PROVE  s = y /\ k = j
        <5>1. s = y /\ (IF s = x THEN k + 1 ELSE k) = (IF y = x THEN j + 1 ELSE j)
          BY <3>2, <3>5, <4>1 DEF OneCopy
        <5> QED BY <5>1
      <4>2. ASSUME NEW u \in Streams, NEW v \in Streams, InHand(i, u)', InHand(i, v)'
            PROVE  u = v
        BY <2>1, <3>2, <3>3, <3>4, <4>2 DEF OneCopy
      <4>3. ASSUME NEW s \in Sessions, NEW k \in Nat, NEW u \in Streams,
                   InQueue(i, s, k)', InHand(i, u)'
            PROVE  FALSE
        <5>1. InQueue(i, s, IF s = x THEN k + 1 ELSE k) /\ (s = x => k # 0)
          BY <3>5, <4>3
        <5>2. ~InHand(i, u)
          BY <3>2, <5>1 DEF OneCopy
        <5>3. InQueue(i, x, 1)
          BY <3>3, <3>4, <4>3, <5>2
        <5>4. s = x /\ (IF s = x THEN k + 1 ELSE k) = 1
          BY <2>1, <3>2, <5>1, <5>3 DEF OneCopy
        <5> QED BY <5>1, <5>4
      <4> QED BY <4>1, <4>2, <4>3 DEF OneCopy
    <3>7. ASSUME handed[i] # 0 \/ i \notin Remembered
          PROVE  /\ \A s \in Sessions, k \in Nat : ~InQueue(i, s, k)'
                 /\ \A u \in Streams : ~InHand(i, u)'
      BY <2>1, <3>2, <3>3, <3>4, <3>5, <3>7 DEF Delivered, Known
    <3>8. Delivered(i)'
      BY <2>2, <3>2, <3>7 DEF Delivered
    <3>9. Known(i)'
      BY <1>1, <2>2, <3>2, <3>7 DEF Known
    <3> QED BY <3>6, <3>8, <3>9
  <2> QED BY <2>3, <2>4 DEF DeliveryInv
<1>8. ASSUME NEW t \in Streams, stage[t] \in {"write", "put"}
      PROVE  holding[t] \in Events \ {Close}
  BY <1>8 DEF TypeInv, StreamsAttached, DeliveryInv, NoMarkerHeld
<1>9. ASSUME NEW t \in Streams, StreamWritten(t) PROVE DeliveryInv'
  <2>1. /\ queue' = queue /\ holding' = [holding EXCEPT ![t] = None]
        /\ handed' = IF holding[t] = Reloaded THEN handed
                     ELSE [handed EXCEPT ![holding[t].env.id] = @ + 1]
    BY <1>9 DEF StreamWritten, sessions
  <2>2. /\ holding'[t] = None
        /\ \A u \in Streams : u # t => holding'[u] = holding[u]
    BY <2>1 DEF TypeInv, TypeOK
  <2>3. NoMarkerHeld'
    BY <2>2, Markers DEF DeliveryInv, NoMarkerHeld
  <2>4. \A i \in Ids : /\ \A s \in Sessions, k \in Nat : InQueue(i, s, k)' <=> InQueue(i, s, k)
                       /\ \A u \in Streams : InHand(i, u)' <=> u # t /\ InHand(i, u)
    BY <2>1, <2>2, Markers DEF InQueue, InHand
  <2>5. \A i \in Ids : handed'[i] = IF InHand(i, t) THEN handed[i] + 1 ELSE handed[i]
    <3>1. CASE holding[t] = Reloaded
      BY <2>1, <3>1, Markers DEF InHand
    <3>2. CASE holding[t] # Reloaded
      <4>1. PICK e \in Calls : holding[t] = Deliver(e)
        BY <1>8, <1>9, <3>2 DEF StreamWritten, Events
      <4>2. handed' = [handed EXCEPT ![e.id] = @ + 1]
        BY <2>1, <3>2, <4>1, Markers
      <4> QED BY <4>1, <4>2, Markers, EnvelopesAssumption DEF InHand, TypeInv, TypeOK
    <3> QED BY <3>1, <3>2
  <2>6. ASSUME NEW i \in Ids PROVE OneCopy(i)' /\ Delivered(i)' /\ Known(i)'
    <3>1. CASE ~InHand(i, t)
      BY <1>2, <2>4, <2>5, <3>1
    <3>2. CASE InHand(i, t)
      <4>1. OneCopy(i) /\ Delivered(i) /\ Known(i) /\ handed[i] \in Nat
        BY DEF DeliveryInv, TypeInv, TypeOK
      <4>2. i \in Remembered' /\ handed'[i] = 1
        BY <1>1, <2>5, <3>2, <4>1 DEF Delivered, Known
      <4>3. /\ \A s \in Sessions, k \in Nat : ~InQueue(i, s, k)'
            /\ \A u \in Streams : ~InHand(i, u)'
        BY <2>4, <3>2, <4>1 DEF OneCopy
      <4> QED BY <4>2, <4>3 DEF OneCopy, Delivered, Known
    <3> QED BY <3>1, <3>2
  <2> QED BY <2>3, <2>6 DEF DeliveryInv
<1>10. ASSUME NEW t \in Streams, StreamPutBack(t) PROVE DeliveryInv'
  <2> DEFINE x == attached[t]
  <2>1. x \in Sessions /\ holding[t] \in Events
    BY <1>8, <1>10 DEF StreamPutBack, TypeInv, StreamsAttached
  <2>2. /\ queue' = [queue EXCEPT ![x] = Append(queue[x], holding[t])]
        /\ holding' = [holding EXCEPT ![t] = None]
        /\ handed' = handed
    BY <1>10 DEF StreamPutBack
  <2>3. /\ holding'[t] = None
        /\ \A u \in Streams : u # t => holding'[u] = holding[u]
    BY <2>2 DEF TypeInv, TypeOK
  <2>4. NoMarkerHeld'
    BY <2>3, Markers DEF DeliveryInv, NoMarkerHeld
  <2>5. \A i \in Ids, s \in Sessions, k \in Nat :
           InQueue(i, s, k)' <=> \/ InQueue(i, s, k)
                                 \/ s = x /\ k = Len(queue[x]) + 1 /\ InHand(i, t)
    BY <2>1, <2>2, Appended DEF TypeInv, TypeOK, InHand
  <2>6. \A i \in Ids, u \in Streams : InHand(i, u)' <=> u # t /\ InHand(i, u)
    BY <2>3, Markers DEF InHand
  <2>7. ASSUME NEW i \in Ids PROVE OneCopy(i)' /\ Delivered(i)' /\ Known(i)'
    <3>1. CASE ~InHand(i, t)
      BY <1>2, <2>2, <2>5, <2>6, <3>1
    <3>2. CASE InHand(i, t)
      <4>1. OneCopy(i) /\ Delivered(i) /\ Known(i)
        BY DEF DeliveryInv
      <4>2. i \in Remembered' /\ handed'[i] = 0
        BY <1>1, <2>2, <3>2, <4>1 DEF Delivered, Known
      <4>3. /\ \A s \in Sessions, k \in Nat : InQueue(i, s, k)' <=> s = x /\ k = Len(queue[x]) + 1
            /\ \A u \in Streams : ~InHand(i, u)'
        BY <2>5, <2>6, <3>2, <4>1 DEF OneCopy
      <4> QED BY <4>2, <4>3 DEF OneCopy, Delivered, Known
    <3> QED BY <3>1, <3>2
  <2> QED BY <2>4, <2>7 DEF DeliveryInv
<1> QED BY <1>3, <1>4, <1>5, <1>6, <1>7, <1>9, <1>10, DeliverySteps

(* A set whose members are all equal has at most one.                       *)
LEMMA AtMostOne ==
    ASSUME NEW S, \A x, y \in S : x = y
    PROVE  IsFiniteSet(S) /\ Cardinality(S) = IF S = {} THEN 0 ELSE 1
<1>1. CASE S = {} BY <1>1, FS_EmptySet
<1>2. CASE S # {}
  <2>1. PICK x : S = {x} BY <1>2
  <2> QED BY <2>1, FS_Singleton
<1> QED BY <1>1, <1>2

\* With every envelope in one place at most one copy of it is counted.
LEMMA CopiesCounted == ASSUME TypeInv, DeliveryInv PROVE NoDuplicateDelivery
<1> SUFFICES ASSUME NEW i \in Ids
             PROVE  Cardinality(Queued(i)) + Cardinality(Held(i)) + handed[i] <= 1
  BY DEF NoDuplicateDelivery
<1>1. OneCopy(i) /\ Delivered(i) /\ handed[i] \in Nat
  BY DEF DeliveryInv, TypeInv, TypeOK
<1>2. \A p \in Queued(i) : \E s \in Sessions, k \in Nat : p = <<s, k>> /\ InQueue(i, s, k)
  <2> SUFFICES ASSUME NEW p \in Queued(i)
               PROVE  \E s \in Sessions, k \in Nat : p = <<s, k>> /\ InQueue(i, s, k)
    OBVIOUS
  <2>1. PICK s \in Sessions :
            p \in {<<s, k>> : k \in {x \in 1..Len(queue[s]) : Carries(queue[s][x], i)}}
    BY DEF Queued
  <2>2. PICK k \in 1..Len(queue[s]) : Carries(queue[s][k], i) /\ p = <<s, k>>
    BY <2>1
  <2> QED BY <2>2 DEF InQueue
<1>3. \A t \in Held(i) : t \in Streams /\ InHand(i, t)
  BY DEF Held, InHand
<1>4. \A p, q \in Queued(i) : p = q
  BY <1>1, <1>2 DEF OneCopy
<1>5. \A t, u \in Held(i) : t = u
  BY <1>1, <1>3 DEF OneCopy
<1>6. Queued(i) = {} \/ Held(i) = {}
  BY <1>1, <1>2, <1>3 DEF OneCopy
<1>7. handed[i] # 0 => handed[i] = 1 /\ Queued(i) = {} /\ Held(i) = {}
  BY <1>1, <1>2, <1>3 DEF Delivered
<1>8. /\ Cardinality(Queued(i)) = IF Queued(i) = {} THEN 0 ELSE 1
      /\ Cardinality(Held(i)) = IF Held(i) = {} THEN 0 ELSE 1
  BY <1>4, <1>5, AtMostOne
<1> QED BY <1>1, <1>6, <1>7, <1>8

\* There is no envelope anywhere at the start.
LEMMA DeliveryInit == Init => DeliveryInv
<1> SUFFICES ASSUME Init PROVE DeliveryInv
  OBVIOUS
<1>1. \A i \in Ids, s \in Sessions, k \in Nat : ~InQueue(i, s, k)
  BY DEF Init, InQueue
<1>2. \A t \in Streams : holding[t] = None
  BY DEF Init
<1>3. \A i \in Ids, t \in Streams : ~InHand(i, t)
  BY <1>2, Markers DEF InHand
<1>4. \A i \in Ids : handed[i] = 0
  BY DEF Init
<1> QED BY <1>1, <1>2, <1>3, <1>4, Markers
        DEF DeliveryInv, NoMarkerHeld, OneCopy, Delivered, Known

(* If the nonce memory forgets no id, one envelope reaches at most one        *)
(* stream, once: over queues, handlers and past writes, through replaced       *)
(* sessions, shared streams and events put back.                            *)
THEOREM DeliveredOnce ==
    ASSUME NeverForgets
    PROVE  Spec => []NoDuplicateDelivery
<1>1. Init => EdgeInv /\ LookupInv /\ DeliveryInv
  BY EdgeInit, LookupInit, DeliveryInit
<1>2. TypeInv /\ EdgeInv /\ LookupInv /\ [Next]_vars => LookupInv'
  BY LookupNext
<1>3. TypeInv /\ LookupInv /\ DeliveryInv /\ [Next]_vars => DeliveryInv'
  BY DeliveryNext
<1>4. TypeInv /\ DeliveryInv => NoDuplicateDelivery
  BY CopiesCounted
<1> QED BY <1>1, <1>2, <1>3, <1>4, TypeInit, TypeNext, EdgeNext, PTL DEF Spec

(***************************************************************************)
(* Where an envelope comes from.  Everything on its way to a node is the      *)
(* envelope of a request, and no two requests have sent the same id.         *)
(***************************************************************************)
Source(e) == \E q \in Reqs : Sent(q) /\ env[q] = e
SentKnown == \A q \in Reqs : Sent(q) => env[q] \in Calls /\ env[q].id \in Remembered
SentDistinct == \A q, r \in Reqs : Sent(q) /\ Sent(r) /\ env[q].id = env[r].id => q = r
OnTheWay(e) ==
    \/ \E s \in Sessions : \E k \in 1..Len(queue[s]) : queue[s][k] = Deliver(e)
    \/ \E t \in Streams : holding[t] = Deliver(e)
SourceInv ==
    SentKnown /\ SentDistinct /\ \A e \in Calls : OnTheWay(e) => Source(e)

(* One request at most sends in a step, with an id that was not remembered.  *)
Sends(r) ==
    /\ env'[r] \in Calls /\ env'[r].id \notin Remembered /\ RememberNonce(env'[r].id)
    /\ \A q \in Reqs : q # r /\ Sent(q)' => Sent(q)

\* Only a request that sends leaves more requests sent.
LEMMA SendSteps ==
    ASSUME TypeInv, EdgeInv, [Next]_vars
    PROVE  (\A q \in Reqs : Sent(q)' => Sent(q)) \/ \E r \in Reqs : Sends(r)
<1> DEFINE Quiet == \A q \in Reqs : Sent(q)' => Sent(q)
<1> USE DEF Sent, TypeInv, TypeOK
<1>1. ASSUME UNCHANGED <<fut, reply>> PROVE Quiet
  BY <1>1
<1>2. ASSUME NEW r \in Reqs, NEW e \in Calls, NEW outcome, outcome # "accepted",
             Finish(r, e, outcome), \A q \in Reqs : fut'[q] # "none" => fut[q] # "none"
      PROVE  Quiet
  BY <1>2 DEF Finish
<1>3. ASSUME NEW known, NEW m, Reload(known, m), NEW q \in Reqs, fut'[q] # "none"
      PROVE  fut[q] # "none"
  BY <1>3 DEF Reload, RevokeCalls
<1>4. CASE Registering BY <1>1, <1>4 DEF Registering, Register, calls
<1>5. CASE Streaming
  BY <1>1, <1>5 DEF Streaming, StreamOpen, StreamGreeted, StreamTake, StreamWritten,
                    StreamPutBack, StreamBlocked, StreamDropped, calls
<1>6. ASSUME NEW r \in Reqs, NEW e \in Calls, NEW kindOk, NEW signed, NEW fresh,
             InvokeRejected(r, e, kindOk, signed, fresh)
      PROVE  Quiet
  BY <1>2, <1>6 DEF InvokeRejected, Gate
<1>7. ASSUME NEW r \in Reqs, NEW e \in Calls, NEW valid, InvokeDenied(r, e, valid)
      PROVE  Quiet
  BY <1>2, <1>7 DEF InvokeDenied, Route
<1>8. ASSUME NEW r \in Reqs, NEW e \in Calls, Admitted(r, e), env' = [env EXCEPT ![r] = e],
             \A q \in Reqs : q # r => fut'[q] = fut[q] /\ reply'[q] = reply[q]
      PROVE  Sends(r)
  BY <1>8 DEF Admitted, Gate, Sends
<1>9. ASSUME NEW r \in Reqs, NEW e \in Calls, InvokeNotify(r, e) PROVE Sends(r)
  BY <1>8, <1>9 DEF InvokeNotify, Finish
<1>10. ASSUME NEW r \in Reqs, NEW e \in Calls, InvokeCall(r, e) PROVE Sends(r)
  BY <1>8, <1>10 DEF InvokeCall
<1>11. CASE Deciding BY <1>11 DEF Deciding, Expire, Resume, ResumedWith
<1>12. CASE Responding
  BY <1>12 DEF Responding, RespondReplayed, RespondUnmatched, RespondAccepted, Decides, calls
<1>13. ASSUME NEW r \in Reqs, NEW outcome \in {"core_result", "core_error"},
              CoreSupervised(r, outcome)
       PROVE  Quiet
  BY <1>13 DEF CoreSupervised
<1>14. ASSUME NEW r \in Reqs, NEW e \in Calls,
              CoreInspect(r, e) \/ CoreSupervise(r, e) \/ CoreSetRefused(r, e)
       PROVE  Quiet
  BY <1>1, <1>2, <1>14 DEF CoreInspect, CoreSupervise, CoreSetRefused
<1>15. ASSUME NEW r \in Reqs, NEW e \in Calls, CoreReload(r, e) PROVE Quiet
  BY <1>2, <1>3, <1>15 DEF CoreReload
<1>16. ASSUME NEW r \in Reqs, NEW e \in Calls, NEW m \in Payloads, CoreSetManifest(r, e, m)
       PROVE  Quiet
  BY <1>2, <1>3, <1>16 DEF CoreSetManifest
<1>17. CASE \E m \in HandEdits : EditManifestFile(m)
  BY <1>1, <1>17 DEF EditManifestFile, calls
<1>18. CASE UNCHANGED vars BY <1>1, <1>18 DEF vars, calls
<1> HIDE DEF Quiet, Sent, TypeInv, TypeOK
<1> QED
  BY <1>4, <1>5, <1>6, <1>7, <1>9, <1>10, <1>11, <1>12, <1>13, <1>14, <1>15, <1>16, <1>17,
     <1>18
  DEF Next, Invoking, Governing, Quiet

(* What was sent stays sent.                                                *)
LEMMA SentStays ==
    ASSUME TypeInv, EdgeInv, [Next]_vars, NEW q \in Reqs, Sent(q)
    PROVE  Sent(q)' /\ env'[q] = env[q]
BY CallSteps, NoneAssumption DEF CallStep, Asks, Decided, Tells, Rests, Sent, Outcomes
\* Every step keeps each envelope with the one request it came from.
LEMMA SourceNext ==
    ASSUME NeverForgets, TypeInv, EdgeInv, LookupInv, SourceInv, [Next]_vars
    PROVE  SourceInv'
<1> DEFINE Quiet == \A q \in Reqs : Sent(q)' => Sent(q)
<1>1. /\ Remembered \subseteq Remembered'
      /\ \A id \in Ids : id \notin Remembered /\ RememberNonce(id) => id \in Remembered'
  BY MemoryGrows
<1>2. \A q \in Reqs : Sent(q) => Sent(q)' /\ env'[q] = env[q]
  BY SentStays
<1>3. SentKnown' /\ SentDistinct'
  <2>1. CASE Quiet
    BY <1>1, <1>2, <2>1 DEF SourceInv, SentKnown, SentDistinct
  <2>2. ASSUME NEW r \in Reqs, Sends(r) PROVE SentKnown' /\ SentDistinct'
    <3>1. env'[r] \in Calls /\ env'[r].id \in Ids /\ env'[r].id \in Remembered'
          /\ env'[r].id \notin Remembered
      BY <1>1, <2>2, EnvelopesAssumption DEF Sends
    <3>2. ASSUME NEW q \in Reqs, q # r, Sent(q)'
          PROVE  Sent(q) /\ env'[q] = env[q] /\ env[q] \in Calls /\ env[q].id \in Remembered
      BY <1>2, <2>2, <3>2 DEF Sends, SourceInv, SentKnown
    <3>3. SentKnown'
      BY <1>1, <3>1, <3>2 DEF SentKnown
    <3>4. SentDistinct'
      BY <3>1, <3>2 DEF SourceInv, SentDistinct
    <3> QED BY <3>3, <3>4
  <2> QED BY <2>1, <2>2, SendSteps
<1>4. ASSUME NEW e \in Calls, Source(e) PROVE Source(e)'
  BY <1>2, <1>4 DEF Source
<1>5. ASSUME NEW e \in Calls, OnTheWay(e) PROVE Source(e)'
  BY <1>4, <1>5 DEF SourceInv
<1>6. ASSUME NEW e \in Calls, OnTheWay(e)' PROVE Source(e)'
  <2> USE DEF TypeInv, TypeOK
  <2>1. ASSUME NEW x \in Sessions, NEW event \in Events, NEW s \in Sessions,
               queue'[s] = IF s = x THEN Append(queue[x], event) ELSE queue[s],
               NEW k \in 1..Len(queue'[s]), queue'[s][k] = Deliver(e)
        PROVE  OnTheWay(e) \/ event = Deliver(e)
    <3>1. /\ Len(Append(queue[x], event)) = Len(queue[x]) + 1 /\ Len(queue[x]) \in Nat
          /\ Append(queue[x], event)[Len(queue[x]) + 1] = event
          /\ \A j \in 1..Len(queue[x]) : Append(queue[x], event)[j] = queue[x][j]
      OBVIOUS
    <3>2. CASE s = x
      BY <2>1, <3>1, <3>2 DEF OnTheWay
    <3>3. CASE s # x
      BY <2>1, <3>3 DEF OnTheWay
    <3> QED BY <3>2, <3>3
  <2>2. CASE UNCHANGED <<queue, attached, holding, handed>>
    BY <1>5, <1>6, <2>2 DEF OnTheWay
  <2>3. CASE Marked
    <3>1. ASSUME NEW s \in Sessions, NEW k \in 1..Len(queue'[s]), queue'[s][k] = Deliver(e)
          PROVE  OnTheWay(e)
      <4>1. CASE queue'[s] = queue[s]
        BY <3>1, <4>1 DEF OnTheWay
      <4>2. CASE queue'[s] # queue[s]
        <5>1. PICK event \in {Close, Reloaded} : queue'[s] = Append(queue[s], event)
          BY <2>3, <4>2 DEF Marked
        <5>2. event \in Events /\ event # Deliver(e)
          BY Markers, EventTypes
        <5> QED BY ZenonT(60), <2>1, <3>1, <5>1, <5>2
      <4> QED BY <4>1, <4>2
    <3> QED BY <1>5, <1>6, <2>3, <3>1 DEF Marked, OnTheWay
  <2>4. CASE Routed
    <3>1. PICK c \in Calls, n \in Nodes :
              /\ conn[n] \in Sessions
              /\ \E r \in Reqs : env'[r] = c /\ Sent(r)'
              /\ queue' = [queue EXCEPT ![conn[n]] = Append(queue[conn[n]], Deliver(c))]
              /\ UNCHANGED holding
      BY <2>4 DEF Routed
    <3>2. Deliver(c) \in Events /\ (Deliver(c) = Deliver(e) => c = e)
      BY Markers, EventTypes
    <3>3. ASSUME NEW s \in Sessions, NEW k \in 1..Len(queue'[s]), queue'[s][k] = Deliver(e)
          PROVE  OnTheWay(e) \/ c = e
      <4>1. queue'[s] = IF s = conn[n] THEN Append(queue[conn[n]], Deliver(c)) ELSE queue[s]
        BY <3>1
      <4> QED BY <2>1, <3>1, <3>2, <3>3, <4>1
    <3>4. OnTheWay(e) \/ c = e
      BY <1>6, <3>1, <3>3 DEF OnTheWay
    <3> QED BY <1>5, <3>1, <3>4 DEF Source
  <2>5. ASSUME NEW t \in Streams, NEW s \in Sessions, StreamOpen(t, s) PROVE Source(e)'
    BY <1>5, <1>6, <2>5 DEF StreamOpen, sessions, OnTheWay
  <2>6. ASSUME NEW t \in Streams, StreamTake(t) PROVE Source(e)'
    <3> DEFINE x == attached[t]
    <3>1. x \in Sessions /\ queue[x] # <<>> /\ queue[x] \in Seq(Events)
      BY <2>6 DEF StreamTake, StreamsAttached
    <3>2. /\ queue' = [queue EXCEPT ![x] = Tail(queue[x])]
          /\ holding' \in {holding, [holding EXCEPT ![t] = Head(queue[x])]}
      BY <2>6 DEF StreamTake
    <3>3. /\ 1 \in 1..Len(queue[x]) /\ Head(queue[x]) = queue[x][1]
          /\ \A k \in 1..Len(Tail(queue[x])) :
                k + 1 \in 1..Len(queue[x]) /\ Tail(queue[x])[k] = queue[x][k + 1]
      BY <3>1
    <3>4. ASSUME NEW s \in Sessions, NEW k \in 1..Len(queue'[s]), queue'[s][k] = Deliver(e)
          PROVE  OnTheWay(e)
      BY <3>1, <3>2, <3>3, <3>4 DEF OnTheWay
    <3>5. ASSUME NEW u \in Streams, holding'[u] = Deliver(e) PROVE OnTheWay(e)
      <4>1. holding'[u] = holding[u] \/ holding'[u] = queue[x][1]
        BY <3>2, <3>3
      <4> QED BY <3>1, <3>3, <3>5, <4>1 DEF OnTheWay
    <3> QED BY <1>5, <1>6, <3>4, <3>5 DEF OnTheWay
  <2>7. ASSUME NEW t \in Streams, StreamWritten(t) PROVE Source(e)'
    <3>1. queue' = queue /\ \A u \in Streams : holding'[u] \in {holding[u], None}
      BY <2>7 DEF StreamWritten, sessions
    <3> QED BY <1>5, <1>6, <3>1, Markers DEF OnTheWay
  <2>8. ASSUME NEW t \in Streams, StreamPutBack(t) PROVE Source(e)'
    <3> DEFINE x == attached[t]
    <3>1. x \in Sessions /\ holding[t] \in Events
      BY <2>8 DEF StreamPutBack, StreamsAttached
    <3>2. /\ queue' = [queue EXCEPT ![x] = Append(queue[x], holding[t])]
          /\ \A u \in Streams : holding'[u] \in {holding[u], None}
      BY <2>8 DEF StreamPutBack
    <3>3. ASSUME NEW s \in Sessions, NEW k \in 1..Len(queue'[s]), queue'[s][k] = Deliver(e)
          PROVE  OnTheWay(e) \/ holding[t] = Deliver(e)
      BY <2>1, <3>1, <3>2, <3>3
    <3> QED BY <1>5, <1>6, <3>2, <3>3, Markers DEF OnTheWay
  <2> HIDE DEF TypeInv
  <2> QED BY <2>2, <2>3, <2>4, <2>5, <2>6, <2>7, <2>8, DeliverySteps
<1> QED BY <1>3, <1>6 DEF SourceInv

\* Nothing is sent at the start.
LEMMA SourceInit == Init => SourceInv
<1> SUFFICES ASSUME Init PROVE SourceInv
  OBVIOUS
<1>1. \A q \in Reqs : ~Sent(q)
  BY NoneAssumption DEF Init, Sent, Outcomes
<1>2. \A e \in Calls : ~OnTheWay(e)
  BY Markers DEF Init, OnTheWay
<1> QED BY <1>1, <1>2 DEF SourceInv, SentKnown, SentDistinct
=============================================================================

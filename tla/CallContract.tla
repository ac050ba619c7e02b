---------------------------- MODULE CallContract ----------------------------
(***************************************************************************)
(* What a caller of /v0/invoke is promised, without sessions, queues,       *)
(* nonces or futures: a call is asked once, decided at most once, and told  *)
(* once.  Only the node the call was addressed to can answer it, with a     *)
(* response naming its id that answers no other call.  The only freedom     *)
(* left is that a caller may be told `timeout` of a call that was decided.  *)
(***************************************************************************)
CONSTANTS Reqs, Calls, Answers, TargetOf(_), None

VARIABLES asked,    \* asked[r]: the call request r made
          verdict,  \* verdict[r]: what decided it
          told      \* told[r]: what its caller was told

Answered(a) == <<"answered", a>>
Settled == {Answered(a) : a \in Answers}

state == <<asked, verdict, told>>

Init ==
    /\ asked = [r \in Reqs |-> None]
    /\ verdict = [r \in Reqs |-> None]
    /\ told = [r \in Reqs |-> None]

Same(f, r) == f'[r] = f[r]

(* The call is made; it may be refused or settled at once.                 *)
Ask(r) ==
    /\ asked[r] = None
    /\ asked'[r] \in Calls
    /\ Same(verdict, r)
    /\ told'[r] \notin Settled

AnsweredBy(r, a) ==
    /\ a.corr = asked[r].id
    /\ a.from = TargetOf(asked[r])
    /\ \A q \in Reqs : verdict[q] # Answered(a)
    /\ verdict'[r] = Answered(a)

Decide(r) ==
    /\ asked[r] # None /\ verdict[r] = None /\ told[r] = None
    /\ \/ verdict'[r] \in {<<"revoked">>, <<"expired">>}
       \/ \E a \in Answers : AnsweredBy(r, a)
    /\ Same(asked, r) /\ Same(told, r)

(* An undecided call is told only of what Core itself did for it.           *)
Tell(r) ==
    /\ asked[r] # None /\ told[r] = None
    /\ \/ verdict[r] = None /\ told'[r] \in {<<"core_result">>, <<"core_error">>}
       \/ verdict[r] # None /\ verdict[r] # <<"expired">> /\ told'[r] = verdict[r]
       \/ verdict[r] # None /\ told'[r] = <<"timeout">>
    /\ Same(asked, r) /\ Same(verdict, r)

Stay(r) == Same(asked, r) /\ Same(verdict, r) /\ Same(told, r)

(* Requests step side by side: a manifest reload decides several at once.   *)
Next ==
    /\ asked' = [r \in Reqs |-> asked'[r]]
    /\ verdict' = [r \in Reqs |-> verdict'[r]]
    /\ told' = [r \in Reqs |-> told'[r]]
    /\ \A r \in Reqs : Ask(r) \/ Decide(r) \/ Tell(r) \/ Stay(r)

Spec == Init /\ [][Next]_state
=============================================================================

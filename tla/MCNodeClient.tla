---------------------------- MODULE MCNodeClient ----------------------------
(***************************************************************************)
(* Instance of NodeClient for TLC: node b serves a's calls; its second      *)
(* surface is added by a reload.                                           *)
(***************************************************************************)
EXTENDS NodeClient, TLC

CONSTANTS a, b, ask, tell, reload, i1, i2, i3, p1, p2

MCHost == ask :> b @@ tell :> b @@ reload :> Core
MCMode == ask :> "request_response" @@ tell :> "fire_and_forget"
          @@ reload :> "reload_manifest"

Call(id, to) == [id |-> id, from |-> a, to |-> to]
Answer(id, corr) == [id |-> id, from |-> b, corr |-> corr]
MCCalls == {Call(i1, ask), Call(i2, ask), Call(i2, tell), Call(i3, reload)}
MCAnswers == {Answer(p1, i1), Answer(p2, i2)}

Edges == {a} \X {ask, tell, reload}
Manifest(surfaces) ==
    [nodes |-> {a, b}, surfaces |-> surfaces, edges |-> Edges, broken |-> FALSE]
Small == Manifest({ask})
Full  == Manifest({ask, tell})
MCManifests == {Small, Full, Missing}
MCEdits == {Full}
MCPayloads == {}

MCSymmetry == Permutations(Sessions) \cup Permutations(Streams) \cup Permutations(Reqs)
=============================================================================

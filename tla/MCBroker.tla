------------------------------ MODULE MCBroker ------------------------------
(***************************************************************************)
(* Instances of Broker for TLC.                                             *)
(***************************************************************************)
EXTENDS Broker, TLC

CONSTANTS
    a, b,                    \* two nodes
    ask, tell,           \* b's request/response and fire-and-forget surfaces
    look, run, rewrite, reload,   \* surfaces of core
    i1, i2, i3, p1, p2   \* envelope ids: of calls, of answers

MCHost == ask :> b @@ tell :> b
          @@ [s \in {look, run, rewrite, reload} |-> Core]
MCMode == ask :> "request_response" @@ tell :> "fire_and_forget"
          @@ look :> "inspect" @@ run :> "supervise"
          @@ rewrite :> "set_manifest" @@ reload :> "reload_manifest"

MCSurfaces == {ask, tell, look, run, rewrite, reload}

Call(id, from, to) == [id |-> id, from |-> from, to |-> to]
Answer(id, from, corr) == [id |-> id, from |-> from, corr |-> corr]

Manifest(nodes, surfaces, es) ==
    [nodes |-> nodes, surfaces |-> surfaces, edges |-> es, broken |-> FALSE]
Broken(nodes, surfaces, es) ==
    [Manifest(nodes, surfaces, es) EXCEPT !.broken = TRUE]

Edges == {a} \X (MCSurfaces)

(* Everything allowed; b's edge withdrawn; b removed, its edge left behind;  *)
(* loads that raise after a, and after every node.                         *)
Full     == Manifest({a, b}, {ask, tell}, Edges)
NoEdge   == Manifest({a, b}, {ask, tell}, Edges \ {<<a, ask>>})
NoB      == Manifest({a}, {}, Edges)
Halfway  == Broken({a}, {}, {})
NoSchema == Broken({a, b}, {ask}, {})
MCManifests == {Full, NoEdge, NoB, Halfway, NoSchema, Missing}
NoManifests == {}

(* broker_calls: two calls that wait together (the queue holds both), ids    *)
(* used twice (a retry or a replay), answers to each call from the target     *)
(* and one from another node.                                              *)
CallsCalls == {Call(i1, a, ask), Call(i2, a, ask), Call(i1, a, run), Call(i2, a, look),
               Call(i2, a, rewrite)}
CallsPayloads == {NoEdge}
CallsAnswers == {Answer(p1, b, i1), Answer(p2, b, i2), Answer(p2, a, i1)}

(* broker_streams: what fills queues, and nothing that empties calls.       *)
StreamsCalls == {Call(i1, a, ask), Call(i2, a, tell), Call(i2, a, Malformed)}
NoAnswers == {}

(* broker_reload: two calls that may wait together, and the two ways of      *)
(* replacing the manifest.                                                 *)
ReloadCalls == {Call(i1, a, ask), Call(i2, a, ask), Call(i2, a, rewrite), Call(i3, a, reload)}
ReloadAnswers == {Answer(p1, b, i1)}
ReloadEdits == {NoEdge, Missing}
BrokenEdit == {NoSchema}
ReloadPayloads == {Full, NoB, Halfway}

MCSymmetry == Permutations(Sessions) \cup Permutations(Streams) \cup Permutations(Reqs)
=============================================================================

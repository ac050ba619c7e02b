---------------------------- MODULE MCReplayGate ----------------------------
(* Instance of ReplayGate for TLC: three ids against a memory of two, and a *)
(* clock wide enough that a timestamp has two windows and a step beyond.    *)
EXTENDS ReplayGate, TLC

CONSTANTS i1, i2, i3, n1

MCTimes == 0 .. 3
IdsAlike == Permutations({i1, i2, i3})
=============================================================================

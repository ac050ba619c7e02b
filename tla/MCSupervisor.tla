---------------------------- MODULE MCSupervisor ----------------------------
(***************************************************************************)
(* Instances of Supervisor for TLC.                                         *)
(***************************************************************************)
EXTENDS Supervisor, TLC

CONSTANTS c1, c2, p1, p2, p3, p4, o1, o2, o3, o4

Ask(kind, c) == [do |-> kind, on |-> c]

(* supervisor_alone: each child is started once; all restarts are the       *)
(* supervisor's.                                                           *)
AlonePolicy == [c \in Children |-> IF c = c1 THEN "permanent" ELSE "transient"]
AloneRequests ==
    [o \in Ops |-> IF o = o1 THEN {Ask("reconcile", Children)}
                   ELSE {Ask("stop", c1), Ask("drain", c1), Ask("shutdown_all", Children)}]

AloneSymmetry == Permutations(Procs) \cup Permutations({o2, o3})

(* supervisor_ops: every operation, on an on-demand and a permanent child.   *)
OpsPolicy == [c \in Children |-> IF c = c1 THEN "on_demand" ELSE "permanent"]
OpsRequests == [o \in Ops |->
    {Ask(kind, c1) : kind \in {"ensure_running", "spawn", "stop", "restart", "drain"}}
    \cup {Ask(kind, c2) : kind \in {"spawn", "stop", "restart", "drain"}}
    \cup {Ask("reconcile", {}), Ask("reconcile", Children), Ask("shutdown_all", Children)}]

(* supervisor_twins: one permanent child, reconciled again and again.       *)
OnePolicy == [c \in Children |-> "permanent"]
TwinRequests == [o \in Ops |-> {Ask("reconcile", Children)}]
=============================================================================

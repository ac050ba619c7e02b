----------------------------- MODULE Supervisor -----------------------------
(***************************************************************************)
(* The process supervisor of RAVEN Mesh, core/supervisor.py: one asyncio    *)
(* lock, a monitor task per started process, a reaper task per on-demand    *)
(* child, and operations called by Core's surfaces.                         *)
(*                                                                         *)
(* Everything between two awaits that suspend is one step.  The awaits are   *)
(* the lock, create_subprocess_exec, proc.wait, the sleeps, and a drain's   *)
(* event.  `_emit` never suspends (its callback only does put_nowait).      *)
(***************************************************************************)
EXTENDS Integers, Sequences, FiniteSets, SequencesExt

CONSTANTS
    Children,      \* node ids that have a runner
    Policy,        \* Policy[c]: ChildSpec.restart
    MaxRestarts,   \* ChildSpec.max_restarts
    Procs,         \* processes; one may be reused once nothing refers to it
    Ops,           \* calls of the public API, each made once
    Requests,      \* Requests[o]: what call o may ask for
    Crashing,      \* children whose process may exit by itself
    ExecMayFail,   \* whether create_subprocess_exec may raise
    MaxWork,       \* bound on in_flight
    None

Policies == {"permanent", "transient", "temporary", "on_demand"}

Request == [do : {"spawn", "stop", "restart", "ensure_running", "drain"}, on : Children]
           \cup [do : {"reconcile"}, on : SUBSET Children]
           \cup [do : {"shutdown_all"}, on : {Children}]

ASSUME SupervisorAssumption ==
    /\ IsFiniteSet(Children) /\ Policy \in [Children -> Policies]
    /\ MaxRestarts \in Nat /\ MaxWork \in Nat
    /\ Requests \in [Ops -> SUBSET Request]
    /\ Crashing \subseteq Children /\ ExecMayFail \in BOOLEAN
    /\ None \notin Children \cup Procs \cup Ops \cup Request
    /\ Children \cap Procs = {} /\ Procs \cap Ops = {} /\ Children \cap Ops = {}

VARIABLES
    status, proc,    \* ChildState.status ("absent": not in children), .proc
    count,           \* .restart_count
    inFlight, event, \* .in_flight; the drain whose Event is .drain_done
    life, of,        \* a process: running or its exit; whose it is
    monitor, latest, \* the monitor task of a process; .monitor_task
    reaper,          \* .idle_reaper_task
    ask, at,         \* a call: its request, where it is
    drained,         \* drains whose Event is set
    stopping,        \* _stopping
    lock,            \* who holds the lock (first) and waits for it, in order
    phase, todo,     \* where the holder is suspended; what it has left to do
    victim           \* the process _stop_locked waits for

child == <<status, proc, count, inFlight, event, latest>>
procs == <<life, of>>
tasks == <<monitor, reaper>>
ops   == <<ask, at, drained, stopping>>
mutex == <<lock, phase, todo, victim>>
vars  == <<child, procs, tasks, ops, mutex>>

-----------------------------------------------------------------------------
Start(c)      == [do |-> "start", on |-> c]
Stop(c)       == [do |-> "stop", on |-> c]
StopRunning(c) == [do |-> "stop_running", on |-> c]
Steps == [do : {"start", "stop", "stop_running"}, on : Children]

Running(c) == status[c] = "running"
Gone(p) == p = None \/ life[p] # "up"

(* A process slot nothing in the supervisor refers to any more.             *)
Free(p) ==
    /\ life[p] # "up" /\ monitor[p] = "none"
    /\ \A c \in Children : proc[c] # p /\ latest[c] # p

Init ==
    /\ status = [c \in Children |-> "absent"]
    /\ proc = [c \in Children |-> None]
    /\ count = [c \in Children |-> 0]
    /\ inFlight = [c \in Children |-> 0]
    /\ event = [c \in Children |-> None]
    /\ latest = [c \in Children |-> None]
    /\ life = [p \in Procs |-> "exit0"]
    /\ of = [p \in Procs |-> None]
    /\ monitor = [p \in Procs |-> "none"]
    /\ reaper = [c \in Children |-> "none"]
    /\ ask = [o \in Ops |-> None]
    /\ at = [o \in Ops |-> "uncalled"]
    /\ drained = {}
    /\ stopping = FALSE
    /\ lock = <<>> /\ phase = "idle" /\ todo = <<>> /\ victim = None

-----------------------------------------------------------------------------
(* asyncio.Lock is fair.  A task that finds it free runs on at once; the     *)
(* others wait, and the first runs when the holder has left.                *)

Waits(t) == lock # <<>> /\ lock' = Append(lock, t)

Gets(t, arriving) ==
    IF arriving THEN lock = <<>> ELSE lock # <<>> /\ lock[1] = t /\ phase = "idle"

Others == IF lock = <<>> THEN <<>> ELSE Tail(lock)

(* What t has to do under the lock; it leaves at once if that is nothing.   *)
Holds(t, steps) ==
    /\ lock' = IF steps = <<>> THEN Others ELSE <<t>> \o Others
    /\ phase' = IF steps = <<>> THEN "idle" ELSE "next"
    /\ todo' = steps
    /\ UNCHANGED victim

Holder == lock[1]
Step == todo[1]

(* A cancelled task leaves the queue, where it is at most once.             *)
Place(q, t) == CHOOSE k \in 1..Len(q) : q[k] = t
Without(q, t) == IF \E k \in 1..Len(q) : q[k] = t THEN RemoveAt(q, Place(q, t)) ELSE q

(* A task that leaves the lock, or ends: at', monitor', reaper' of the one   *)
(* that was t.                                                             *)
OpAfter(t) == [o \in Ops |-> IF o = t THEN "done" ELSE at[o]]
(* Mutant: a monitor that has restarted its child backs off and tries again. *)
MonitorLoops(t) ==
    [p \in Procs |-> IF p # t THEN monitor[p]
                     ELSE IF monitor[p] = "inside" THEN "backoff" ELSE "none"]

MonitorAfter(t) == [p \in Procs |-> IF p = t THEN "none" ELSE monitor[p]]
ReaperAfter(t) == [c \in Children |-> IF c = t THEN "none" ELSE reaper[c]]

-----------------------------------------------------------------------------
(* The operations.                                                         *)

(* The steps each of them takes under the lock.                            *)
Desired(r) == {c \in r.on : Policy[c] # "on_demand"}
Extras(r) == {c \in Children : Running(c) /\ c \notin r.on}

Plans(r) ==
    CASE r.do \in {"spawn", "ensure_running"} ->
            {IF Running(r.on) THEN <<>> ELSE <<Start(r.on)>>}
      [] r.do = "stop" ->
            {IF status[r.on] \in {"absent", "crashed", "stopped", "failed"}
             THEN <<>> ELSE <<Stop(r.on)>>}
      [] r.do = "restart" ->
            {IF Running(r.on) THEN <<Stop(r.on), Start(r.on)>> ELSE <<Start(r.on)>>}
      [] r.do = "reconcile" ->
            {starts \o stops :
                starts \in SetToSeqs({Start(c) : c \in {d \in Desired(r) : ~Running(d)}}),
                stops \in SetToSeqs({Stop(c) : c \in Extras(r)})}
      [] r.do = "shutdown_all" ->
            SetToSeqs({StopRunning(c) : c \in {d \in Children : status[d] # "absent"}})
      [] OTHER -> {<<>>}

(* A call of stop on a child in backoff cancels its monitor; reconcile       *)
(* records on-demand children; a drain closes the child to new work.        *)
Enter(o, r) ==
    /\ IF r.do = "stop" /\ status[r.on] = "crashed"
       THEN /\ status' = [status EXCEPT ![r.on] = "stopped"]
            /\ monitor' = MonitorAfter(latest[r.on])
       ELSE /\ status' = [c \in Children |->
                  IF r.do = "reconcile" /\ c \in r.on \ Desired(r) /\ status[c] = "absent"
                  THEN "stopped"
                  ELSE IF r.do = "drain" /\ c = r.on /\ Running(c) THEN "draining"
                  ELSE status[c]]
            /\ UNCHANGED monitor
    /\ IF r.do = "drain" /\ Running(r.on)
       THEN /\ event' = [event EXCEPT ![r.on] = o]
            /\ drained' = IF inFlight[r.on] = 0 THEN drained \cup {o} ELSE drained
       ELSE UNCHANGED <<event, drained>>

(* Waiting monitors are in the queue: one that is cancelled leaves it.      *)
Called(o, r, plan) ==
    LET cancelled == IF r.do = "stop" /\ status[r.on] = "crashed"
                     THEN latest[r.on] ELSE None
    IN  /\ Enter(o, r)
        /\ lock' = Without(IF plan = <<>> THEN Others ELSE <<o>> \o Others, cancelled)
        /\ phase' = IF plan = <<>> THEN "idle" ELSE "next"
        /\ todo' = plan
        /\ at' = [at EXCEPT ![o] = IF r.do = "drain" /\ Running(r.on) THEN "draining"
                                   ELSE IF plan = <<>> THEN "done" ELSE "inside"]
        /\ ask' = [ask EXCEPT ![o] = r]
        /\ UNCHANGED <<proc, count, inFlight, latest, procs, reaper, victim>>

Call(o, r) ==
    /\ at[o] = "uncalled"
    /\ r \in Requests[o]
    /\ stopping' = (stopping \/ r.do = "shutdown_all")
    /\ \/ /\ Gets(o, TRUE)
          /\ \E plan \in Plans(r) : Called(o, r, plan)
       \/ /\ Waits(o)
          /\ ask' = [ask EXCEPT ![o] = r]
          /\ at' = [at EXCEPT ![o] = "queued"]
          /\ UNCHANGED <<child, procs, tasks, drained, phase, todo, victim>>

Proceed(o) ==
    /\ at[o] = "queued"
    /\ Gets(o, FALSE)
    /\ \E plan \in Plans(ask[o]) : Called(o, ask[o], plan)
    /\ UNCHANGED stopping

(* The second half of a drain, after its event or its timeout: stop the      *)
(* child if it is draining.                                                *)
DrainPlan(o) == IF status[ask[o].on] = "draining" THEN <<Stop(ask[o].on)>> ELSE <<>>

DrainEnds(o) ==
    /\ at[o] = "draining"
    /\ \/ /\ Gets(o, TRUE)
          /\ Holds(o, DrainPlan(o))
          /\ at' = [at EXCEPT ![o] = IF DrainPlan(o) = <<>> THEN "done" ELSE "inside"]
       \/ /\ Waits(o)
          /\ at' = [at EXCEPT ![o] = "requeued"]
          /\ UNCHANGED <<phase, todo, victim>>
    /\ UNCHANGED <<child, procs, tasks, ask, drained, stopping>>

DrainStops(o) ==
    /\ at[o] = "requeued"
    /\ Gets(o, FALSE)
    /\ Holds(o, DrainPlan(o))
    /\ at' = [at EXCEPT ![o] = IF DrainPlan(o) = <<>> THEN "done" ELSE "inside"]
    /\ UNCHANGED <<child, procs, tasks, ask, drained, stopping>>

(* Mutants: a draining child takes work; end_work may go below zero.        *)
BeginWorkDraining(c) ==
    /\ status[c] \in {"running", "draining"}
    /\ inFlight[c] < MaxWork
    /\ inFlight' = [inFlight EXCEPT ![c] = @ + 1]
    /\ UNCHANGED <<status, proc, count, event, latest, procs, tasks, ops, mutex>>

EndWorkUnguarded(c) ==
    /\ inFlight' = [inFlight EXCEPT ![c] = @ - 1]
    /\ UNCHANGED <<status, proc, count, event, latest, procs, tasks, ops, mutex>>

(* begin_work and end_work, called by whoever routes work to the child.     *)
BeginWork(c) ==
    /\ Running(c)
    /\ inFlight[c] < MaxWork
    /\ inFlight' = [inFlight EXCEPT ![c] = @ + 1]
    /\ UNCHANGED <<status, proc, count, event, latest, procs, tasks, ops, mutex>>

EndWork(c) ==
    /\ inFlight[c] > 0
    /\ inFlight' = [inFlight EXCEPT ![c] = @ - 1]
    /\ drained' = IF status[c] = "draining" /\ inFlight[c] = 1
                  THEN drained \cup {event[c]} ELSE drained
    /\ UNCHANGED <<status, proc, count, event, latest, procs, tasks,
                   ask, at, stopping, mutex>>

-----------------------------------------------------------------------------
(* The holder's steps.  From the end of one step to the first suspension of  *)
(* the next, the code runs on: in phase "next" nobody else has a turn.      *)

Done == todo' = Tail(todo)

(* The holder goes on to its next step, or leaves the lock and ends.        *)
Advance(queue) ==
    /\ Done
    /\ victim' = None
    /\ IF Len(todo) > 1
       THEN lock' = queue /\ phase' = "next" /\ UNCHANGED at
       ELSE lock' = Tail(queue) /\ phase' = "idle" /\ at' = OpAfter(Holder)

Leaver == IF Len(todo) = 1 THEN Holder ELSE None

BeginStart ==
    /\ phase = "next" /\ Step.do = "start"
    /\ phase' = "exec"
    /\ UNCHANGED <<child, procs, tasks, ops, lock, todo, victim>>

(* Only ensure_running makes a reaper, also when the start has failed.      *)
Reaped(c) ==
    /\ Holder \in Ops /\ ask[Holder].do = "ensure_running"
    /\ Policy[c] = "on_demand" /\ reaper[c] = "none"
Reapers(c) ==
    IF Reaped(c) THEN [ReaperAfter(Leaver) EXCEPT ![c] = "poll"] ELSE ReaperAfter(Leaver)

Exec(p) ==
    LET c == Step.on
    IN  /\ phase = "exec"
        /\ Free(p)
        /\ status' = [status EXCEPT ![c] = "running"]
        /\ proc' = [proc EXCEPT ![c] = p]
        /\ inFlight' = [inFlight EXCEPT ![c] = 0]
        /\ event' = [event EXCEPT ![c] = None]
        /\ latest' = [latest EXCEPT ![c] = p]
        /\ life' = [life EXCEPT ![p] = "up"]
        /\ of' = [of EXCEPT ![p] = c]
        /\ monitor' = [MonitorAfter(Leaver) EXCEPT ![p] = "wait"]
        /\ reaper' = Reapers(c)
        /\ Advance(lock)
        /\ UNCHANGED <<count, ask, drained, stopping>>

(* The child keeps the status it had, and nobody tries again.               *)
ExecFails ==
    /\ ExecMayFail
    /\ phase = "exec"
    /\ monitor' = MonitorAfter(Leaver)
    /\ reaper' = IF status[Step.on] = "absent" THEN ReaperAfter(Leaver)
                 ELSE Reapers(Step.on)
    /\ Advance(lock)
    /\ UNCHANGED <<child, procs, ask, drained, stopping>>

(* Mutant: the status is left as it was.                                    *)
SettledQuietly(c, stepped) ==
    /\ UNCHANGED status
    /\ proc' = [proc EXCEPT ![c] = IF stepped THEN None ELSE @]

Settled(c, stepped) ==
    /\ status' = [status EXCEPT ![c] = "stopped"]
    /\ proc' = [proc EXCEPT ![c] = IF stepped THEN None ELSE @]

(* shutdown_all passes over a child that is not running.                    *)
Skip ==
    /\ phase = "next" /\ Step.do = "stop_running" /\ ~Running(Step.on)
    /\ Advance(lock)
    /\ UNCHANGED <<child, procs, tasks, ask, drained, stopping>>

Stopping(c) ==
    /\ phase = "next"
    /\ Step.on = c
    /\ Step.do = "stop_running" => Running(c)
    /\ Step.do # "start"

(* There is no process: the monitor is left as it is.                       *)
StopGone(c) ==
    /\ Stopping(c)
    /\ Gone(proc[c])
    /\ Settled(c, FALSE)
    /\ reaper' = ReaperAfter(Leaver)
    /\ Advance(lock)
    /\ UNCHANGED <<count, inFlight, event, latest, procs, monitor, ask, drained, stopping>>

(* SIGTERM, after the monitor and the reaper were cancelled.                *)
StopSignal(c) ==
    /\ Stopping(c)
    /\ ~Gone(proc[c])
    /\ Holder # c
    /\ status' = [status EXCEPT ![c] = "stopping"]
    /\ monitor' = MonitorAfter(latest[c])
    /\ reaper' = ReaperAfter(c)
    /\ lock' = Without(Without(lock, c), latest[c])
    /\ phase' = "term"
    /\ victim' = proc[c]
    /\ UNCHANGED <<proc, count, inFlight, event, latest, procs, ops, todo>>

(* The reaper cancels itself: its next await raises, so SIGTERM is sent and  *)
(* nobody waits for the process or kills it.                               *)
StopByReaper(c) ==
    /\ Stopping(c)
    /\ ~Gone(proc[c])
    /\ Holder = c
    /\ Settled(c, TRUE)
    /\ monitor' = MonitorAfter(latest[c])
    /\ reaper' = ReaperAfter(c)
    /\ Advance(Without(lock, latest[c]))
    /\ UNCHANGED <<count, inFlight, event, latest, procs, ask, drained, stopping>>

(* Mutant: the wait for the process has no timeout.                         *)
StopTimeoutNever == FALSE /\ phase = "term" /\ UNCHANGED vars

StopTimeout ==
    /\ phase = "term" /\ ~Gone(victim)
    /\ phase' = "kill"
    /\ UNCHANGED <<child, procs, tasks, ops, lock, todo, victim>>

(* Mutant: the process is not waited for.                                   *)
StopDoneAtOnce(c) ==
    /\ phase \in {"term", "kill"} /\ Step.on = c
    /\ Settled(c, TRUE)
    /\ monitor' = MonitorAfter(Leaver) /\ reaper' = ReaperAfter(Leaver)
    /\ Advance(lock)
    /\ UNCHANGED <<count, inFlight, event, latest, procs, ask, drained, stopping>>

StopDone(c) ==
    /\ phase \in {"term", "kill"} /\ Gone(victim)
    /\ Step.on = c
    /\ Settled(c, TRUE)
    /\ monitor' = MonitorAfter(Leaver)
    /\ reaper' = ReaperAfter(Leaver)
    /\ Advance(lock)
    /\ UNCHANGED <<count, inFlight, event, latest, procs, ask, drained, stopping>>

-----------------------------------------------------------------------------
(* A process exits: by itself, or for a signal.                            *)
Signalled(p) == victim = p \/ monitor[p] = "none"

Exits(p, code) ==
    /\ life[p] = "up"
    /\ of[p] \in Crashing \/ Signalled(p)
    /\ (victim = p /\ phase = "kill") => code = "exit1"
    /\ life' = [life EXCEPT ![p] = code]
    /\ UNCHANGED <<child, of, tasks, ops, mutex>>

-----------------------------------------------------------------------------
(* _monitor.                                                               *)

Exited(p) == monitor[p] = "wait" /\ life[p] # "up"

MonitorStopping(p) ==
    /\ Exited(p) /\ stopping
    /\ status' = [status EXCEPT ![of[p]] = "stopped"]
    /\ monitor' = [monitor EXCEPT ![p] = "none"]
    /\ UNCHANGED <<proc, count, inFlight, event, latest, procs, reaper, ops, mutex>>

(* Cancels the reaper, which leaves the lock's queue.                       *)
MonitorOnDemand(p) ==
    /\ Exited(p) /\ ~stopping
    /\ Policy[of[p]] = "on_demand"
    /\ Settled(of[p], TRUE)
    /\ monitor' = [monitor EXCEPT ![p] = "none"]
    /\ reaper' = ReaperAfter(of[p])
    /\ lock' = Without(lock, of[p])
    /\ UNCHANGED <<count, inFlight, event, latest, procs, ops, phase, todo, victim>>

Restartable(p) ==
    \/ Policy[of[p]] = "permanent"
    \/ Policy[of[p]] = "transient" /\ life[p] = "exit1"

MonitorLeaves(p) ==
    /\ Exited(p) /\ ~stopping
    /\ Policy[of[p]] # "on_demand" /\ ~Restartable(p)
    /\ status' = [status EXCEPT ![of[p]] = IF life[p] = "exit0" THEN "stopped" ELSE "crashed"]
    /\ monitor' = [monitor EXCEPT ![p] = "none"]
    /\ UNCHANGED <<proc, count, inFlight, event, latest, procs, reaper, ops, mutex>>

(* The restart budget of a window, which a new window refills.              *)
Attempt(c, refilled) == IF refilled THEN 1 ELSE count[c] + 1

MonitorSchedules(p, refilled) ==
    LET c == of[p]
    IN  /\ Exited(p) /\ ~stopping
        /\ Restartable(p)
        /\ count' = [count EXCEPT ![c] = Attempt(c, refilled)]
        /\ IF Attempt(c, refilled) > MaxRestarts
           THEN /\ status' = [status EXCEPT ![c] = "failed"]
                /\ monitor' = [monitor EXCEPT ![p] = "none"]
           ELSE /\ status' = [status EXCEPT ![c] = "crashed"]
                /\ monitor' = [monitor EXCEPT ![p] = "backoff"]
        /\ UNCHANGED <<proc, inFlight, event, latest, procs, reaper, ops, mutex>>

(* Mutant: _stopping is not looked at again after the backoff.              *)
MonitorPlanStopping(p) ==
    IF status[of[p]] \in {"stopped", "stopping"} THEN <<>> ELSE <<Start(of[p])>>

MonitorPlan(p) ==
    IF stopping \/ status[of[p]] \in {"stopped", "stopping"}
    THEN <<>> ELSE <<Start(of[p])>>

(* The backoff is over.  It is longer than a task that is ready takes to     *)
(* run, in particular a drain whose event was set before the backoff began. *)
MonitorDue(p) ==
    /\ monitor[p] = "backoff"
    /\ \A o \in drained : at[o] # "draining"
    /\ \/ /\ Gets(p, TRUE)
          /\ Holds(p, MonitorPlan(p))
          /\ monitor' = [monitor EXCEPT ![p] = IF MonitorPlan(p) = <<>> THEN "none" ELSE "inside"]
       \/ /\ Waits(p)
          /\ monitor' = [monitor EXCEPT ![p] = "queued"]
          /\ UNCHANGED <<phase, todo, victim>>
    /\ UNCHANGED <<child, procs, reaper, ops>>

MonitorRestarts(p) ==
    /\ monitor[p] = "queued"
    /\ Gets(p, FALSE)
    /\ Holds(p, MonitorPlan(p))
    /\ monitor' = [monitor EXCEPT ![p] = IF MonitorPlan(p) = <<>> THEN "none" ELSE "inside"]
    /\ UNCHANGED <<child, procs, reaper, ops>>

-----------------------------------------------------------------------------
(* _idle_reaper.                                                           *)

ReaperPlan(c) == IF Running(c) THEN <<Stop(c)>> ELSE <<>>

ReaperLeaves(c) ==
    /\ reaper[c] = "poll" /\ ~Running(c)
    /\ reaper' = [reaper EXCEPT ![c] = "none"]
    /\ UNCHANGED <<child, procs, monitor, ops, mutex>>

(* The child was idle long enough, which in_flight does not change.         *)
ReaperFires(c) ==
    /\ reaper[c] = "poll" /\ Running(c)
    /\ \/ /\ Gets(c, TRUE)
          /\ Holds(c, ReaperPlan(c))
          /\ reaper' = [reaper EXCEPT ![c] = "inside"]
       \/ /\ Waits(c)
          /\ reaper' = [reaper EXCEPT ![c] = "queued"]
          /\ UNCHANGED <<phase, todo, victim>>
    /\ UNCHANGED <<child, procs, monitor, ops>>

ReaperStops(c) ==
    /\ reaper[c] = "queued"
    /\ Gets(c, FALSE)
    /\ Holds(c, ReaperPlan(c))
    /\ reaper' = [reaper EXCEPT ![c] = IF ReaperPlan(c) = <<>> THEN "none" ELSE "inside"]
    /\ UNCHANGED <<child, procs, monitor, ops>>

-----------------------------------------------------------------------------
Calling ==
    \E o \in Ops :
        \/ \E r \in Requests[o] : Call(o, r)
        \/ Proceed(o)
        \/ DrainEnds(o)
        \/ DrainStops(o)

Working == \E c \in Children : BeginWork(c) \/ EndWork(c)

Holding ==
    \/ BeginStart
    \/ ExecFails
    \/ Skip
    \/ StopTimeout
    \/ \E p \in Procs : Exec(p)
    \/ \E c \in Children :
          \/ StopGone(c)
          \/ StopSignal(c)
          \/ StopByReaper(c)
          \/ StopDone(c)

Monitoring ==
    \E p \in Procs :
        \/ MonitorStopping(p)
        \/ MonitorOnDemand(p)
        \/ MonitorLeaves(p)
        \/ \E refilled \in BOOLEAN : MonitorSchedules(p, refilled)
        \/ MonitorDue(p)
        \/ MonitorRestarts(p)

Reaping == \E c \in Children : ReaperLeaves(c) \/ ReaperFires(c) \/ ReaperStops(c)

Exiting == \E p \in Procs, code \in {"exit0", "exit1"} : Exits(p, code)

(* A holder that is not suspended lets nobody else run.                     *)
Next ==
    \/ Holding
    \/ phase # "next" /\ (Calling \/ Working \/ Monitoring \/ Reaping \/ Exiting)

Spec == Init /\ [][Next]_vars

(* The event loop runs what is ready, timers fire, an exec returns and a     *)
(* process that got SIGKILL exits.  Nobody must call, work or crash.        *)
Killed == \E p \in Procs : phase = "kill" /\ victim = p /\ Exits(p, "exit1")

Fairness ==
    /\ \A o \in Ops : WF_vars(Proceed(o)) /\ WF_vars(DrainEnds(o)) /\ WF_vars(DrainStops(o))
    /\ WF_vars(Holding)
    /\ WF_vars(Killed)
    /\ \A p \in Procs :
          /\ WF_vars(\/ MonitorStopping(p) \/ MonitorOnDemand(p) \/ MonitorLeaves(p)
                     \/ \E refilled \in BOOLEAN : MonitorSchedules(p, refilled))
          /\ WF_vars(MonitorDue(p))
          /\ WF_vars(MonitorRestarts(p))
    /\ \A c \in Children : WF_vars(ReaperLeaves(c)) /\ WF_vars(ReaperStops(c))

FairSpec == Spec /\ Fairness

-----------------------------------------------------------------------------
(* Properties.                                                             *)

(* Types of the variables.                                                 *)
TypeOK ==
    /\ status \in [Children -> {"absent", "stopped", "running", "draining",
                                "stopping", "crashed", "failed"}]
    /\ proc \in [Children -> Procs \cup {None}]
    /\ count \in [Children -> Nat]
    /\ inFlight \in [Children -> 0..MaxWork]
    /\ event \in [Children -> Ops \cup {None}]
    /\ latest \in [Children -> Procs \cup {None}]
    /\ life \in [Procs -> {"up", "exit0", "exit1"}]
    /\ of \in [Procs -> Children \cup {None}]
    /\ monitor \in [Procs -> {"none", "wait", "backoff", "queued", "inside"}]
    /\ reaper \in [Children -> {"none", "poll", "queued", "inside"}]
    /\ ask \in [Ops -> Request \cup {None}]
    /\ at \in [Ops -> {"uncalled", "queued", "inside", "draining", "requeued", "done"}]
    /\ drained \subseteq Ops /\ stopping \in BOOLEAN
    /\ lock \in Seq(Ops \cup Procs \cup Children)
    /\ phase \in {"idle", "next", "exec", "term", "kill"}
    /\ todo \in Seq(Steps)
    /\ victim \in Procs \cup {None}

(* At most one process of a child runs (spawn is a no-op if the child is     *)
(* running; a monitor does not restart what something else handled).        *)
OneProcess ==
    \A p, q \in Procs : life[p] = "up" /\ life[q] = "up" /\ of[p] = of[q] => p = q

(* A running process is watched by its monitor or being stopped: whatever    *)
(* was cancelled, none is left that would neither be restarted nor stopped. *)
EveryProcessWatched ==
    \A p \in Procs : life[p] = "up" => monitor[p] = "wait" \/ victim = p

(* A child said to run or to drain has a process object that was started     *)
(* for it, whatever the monitors of its earlier processes do late.          *)
RunningHasProcess ==
    \A c \in Children : status[c] \in {"running", "draining"} =>
        proc[c] # None /\ of[proc[c]] = c

(* Whatever process runs, the supervisor knows: its child's record says       *)
(* running or draining and holds that process, unless a stop is waiting for   *)
(* it.  No late monitor, overlapping stop or restart makes the record forget  *)
(* a live process or call a child stopped that is not.                       *)
LiveIsKnown ==
    \A p \in Procs : life[p] = "up" =>
        /\ proc[of[p]] = p
        /\ status[of[p]] \in {"running", "draining"} \/ victim = p

(* What shutdown_all leaves running when it returns: the children that are     *)
(* draining, which it passes over (the drain stops them later), and no other. *)
ShutdownLeavesOnlyDraining ==
    [][\A o \in Ops :
          at[o] # "done" /\ at'[o] = "done" /\ ask'[o].do = "shutdown_all" =>
              \A p \in Procs : life'[p] = "up" => status'[of'[p]] = "draining"]_vars

(* Once shutdown_all has returned, no monitor starts a process.             *)
ShutDown == \E o \in Ops : at[o] = "done" /\ ask[o].do = "shutdown_all"
NoRestartAfterShutdown ==
    [][ShutDown => \A p \in Procs :
          life[p] # "up" /\ life'[p] = "up" => Holder \in Ops]_vars

(* A drain that was not timed out stops a child that has no work.           *)
DrainedIsIdle ==
    [][\A o \in Ops : o \in drained /\ at[o] \in {"draining", "requeued"}
                      /\ at'[o] = "inside" => inFlight[ask[o].on] = 0]_vars

(* Every call returns: the lock is handed on whatever crashes, times out or  *)
(* is cancelled.                                                           *)
EveryCallReturns == \A o \in Ops : at[o] # "uncalled" ~> at[o] = "done"
=============================================================================

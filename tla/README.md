# A verification project for RAVEN Mesh

RAVEN Mesh is a small protocol: *nodes* expose typed *surfaces*, and every call from a
node to a surface crosses a relationship (an *edge*) declared in a manifest and mediated
by one process, *Core*. This directory holds TLA+ models of Core (the broker, its gates and
observers, the process supervisor, its startup) and of the nodes' SDK, the TLC instances that
check them, and proofs about all of them. Line numbers without a file refer to
`src/core/core.py`, in the sections on the supervisor to `src/core/supervisor.py`.

## 1. Inventory

| Component | State | Operations | Talks to |
|---|---|---|---|
| Broker, `core/core.py` | declared nodes, surfaces, edges; `connections`, `sessions`, one bounded queue per session; `pending` futures; nonce LRU; audit log; manifest file and its `.bak` | register, stream, invoke, respond, `core.*` surfaces, reload | nodes over HTTP and SSE; the manifest file; the supervisor |
| Supervisor, `core/supervisor.py` | `children` (status, process, work in flight, restart count), one lock, a monitor per process, an idle reaper per on-demand child, `_stopping` | spawn, stop, restart, reconcile, ensure_running, drain, begin/end_work, shutdown_all | child processes; the broker through the `core.*` surfaces |
| Replay gate | nonce LRU, timestamp window | check_replay, check_timestamp_only | every POST handler |
| Admin tap and stream | envelope tail, subscriber queues | emit_envelope, handle_admin_stream | observes broker and supervisor |
| Admin rate limiter | a token bucket per client | consume | every admin request |
| Configuration, manifest validator, startup | `Config` with its sources; none later | load_config, validate_manifest, main, make_app, amain | files, environment, load_manifest, reconcile |
| Node SDK, `node_sdk/__init__.py` | session, stream task, dispatch tasks | connect, serve, stop, dispatch, respond, invoke | Core over HTTP and SSE |
| Inspector hub, `node_sdk/inspector/sse.py` | subscriber queues | broadcast, serve_sse | browsers |
| Metrics, audit query, signatures, schemas | none | pure functions | |

**Interactions.** Everything in Core runs on one asyncio loop. There are no locks in the
broker: its atomicity rests on where handlers suspend. The supervisor has one
`asyncio.Lock`, held across process start and stop. `core.spawn`, `stop`, `restart`,
`reconcile` and `drain` are broker handlers that wait inside the supervisor.

**Hard behaviours and what makes each component correct.**

- *Calls.* A call waits on a future that an answer, a timer and a manifest reload all want
  to decide, and its handler resumes later still. Correct when it is decided once, by the
  right party, its caller is told of that, it is always told something, and the audit log agrees.
- *Sessions and streams.* A node registers again while its old stream is reading; two
  streams may share a session; a failed write puts its event back. Correct when the two
  session tables agree, a dead session gets nothing new and nothing is delivered twice.
- *Manifest replacement.* A load can raise half-way, with a rollback that can also raise.
  Correct when running registry and file agree with the reply, and no session or call is
  left that the new manifest does not allow.
- *Replays.* Freshness is a matter of a clock that may be set, memory of ids one of a count.
  Correct when the two together say what a replay takes, and when evicting a rate bucket is
  something no client can notice.
- *Fan-out.* Producers never wait, subscribers come, resume and leave with handlers suspended in a
  write. Correct when what is lost, repeated or overtaken is exactly what a full queue or a
  subscription in progress explains, and whoever stays catches up.
- *A node.* Its stream breaks, it is stopped, dies and comes back with responses on their way.
  Correct when an envelope is dispatched once, the answer a caller gets is that of its own
  envelope, and a stopped node is quiet.
- *Startup.* Correct when a configured value is that of the strongest layer that had one, a manifest
  the validator has no error for loads and routes.
- *Supervision.* Monitors, reapers, backoffs, drains and operator calls interleave around
  one lock, cancel each other, and processes die at any time. Correct when a child has one
  process that somebody watches, no live process is forgotten, shutdown is final and leaves only what is being
  drained, a drained child is idle, the lock is always handed on and every call returns.

`PROJECT.json` lists these as hazards, at the lines where they bite.

## 2. The modules

| Module | Models |
|---|---|
| `CallContract` | The abstract promise to a caller of `/v0/invoke`: asked, decided at most once, told once; an answer comes from the call's target, names its id and serves no other call. |
| `Broker` | Registration, streams, invocation, response, core surfaces, manifest files. |
| `MCBroker` | Two nodes, the surfaces of each kind, manifests good and bad. |
| `BrokerProofs` | Types, session tables, edges and `pending` of `Broker`: theorems and proofs. |
| `CallProofs` | More about `Broker`: it implements `CallContract`; the audit log, manifest replacement, dead sessions, delivery. |
| `Supervisor` | Operations, lock, monitors, reapers, processes. |
| `SupervisorProofs` | Theorems about `Supervisor`. |
| `MCSupervisor` | Policies and requests of the supervisor's instances. |
| `NodeClient` | A node written with the SDK, composed with `Broker`. `MCNodeClient` is its instance. |
| `NodeClientProofs` | Theorems about the node, on top of those about `Broker`. |
| `ReplayGate` | The freshness window and the nonce memory over a wall clock. `MCReplayGate` adds symmetry. |
| `ReplayGateProofs` | Theorems about `ReplayGate`. |
| `TokenBucket` | The abstract promise of a rate limiter: one bucket per key, never forgotten. |
| `RateLimiter` | `_AdminRateLimiter`: lazy refills, a bounded table, eviction. |
| `RateLimiterProofs` | Theorems about `RateLimiter`, among them that it implements `TokenBucket`. |
| `Fanout` | Admin stream and inspector hub: one producer side, many SSE clients. |
| `FanoutProofs` | Theorems about `Fanout`. |
| `Boot` | Configuration, validator, loader, listening, first reconcile, signals. `MCBoot` is its instance. |
| `BootProofs` | Theorems about `Boot`. |

### Broker

`await state.audit(...)` never suspends: the body of its lock (469-475) has no await, so
nobody is ever queued on it. A handler is therefore one atomic step from parsed request to
reply, except where it really waits: on the future of a request/response call
(`InvokeCall` ... `Expire`, `RespondAccepted`, `Reload` ... `Resume`), inside the supervisor
(`CoreSupervise`, `CoreSupervised`), and in the stream loop, whose `get`, `write` and `put`
are the values of `stage`.

- `conn[n]`, `owner[s]`, `queue[s]`: `connections`, `sessions` and a connection's queue. The
  queue outlives its tables because stream handlers keep a reference.
- `decl`, `offered`, `edges`: `nodes_decl` and `edges`. `disk`, `backup`: the manifest file
  and its `.bak`; `Missing` is an absent file. A manifest is a record of what `load_manifest`
  has entered when it ends, and of whether it ends by raising (`broken`).
- `pending`, `fut`, `answer`, `env`, `reply`: the table of waiting calls, and per request the
  future with its result, the envelope and the HTTP outcome.
- `nonces`: `_replay_nonces`, oldest first. `audit`: the log, as the set of its entries.

Signature, freshness and schema verdicts are chosen freely (`signed`, `fresh`, `valid`). A
timer that fires between a result and the resumption of its handler may win or lose:
`asyncio.wait_for` returns the result up to Python 3.11 and raises from 3.12 on; both
outcomes are allowed in `Resume`. A client that disconnects does not cancel its handler,
which is aiohttp's default. `core` is never a caller and never registers.

### Supervisor

A *task* is an operation (`Ops`), a monitor (named by its process) or an idle reaper (named
by its child). `lock` is the lock's queue with its holder at the head; `todo` holds the
starts and stops the holder still has to do and `phase` is where it is suspended: in the
exec, in the wait for SIGTERM to work (`term`), after SIGKILL (`kill`), or not suspended
(`next`), in which case nobody else runs. `_emit` never suspends (put_nowait only).

- Stops cancel the monitor and the reaper *before* the process has ended, as the code does.
  A reaper that stops its own child cancels itself: SIGTERM is sent and not waited for.
- `MonitorDue` is the end of a backoff; it waits until drains whose event is already set
  have been woken, because a backoff takes at least 0.5 s. The restart window is a free
  choice (`refilled`) and the backoff any time.
- A process slot is reused when nothing refers to it; `Procs` bounds how many exist at once.

### NodeClient

Extends `Broker` and conjoins its actions where the client meets Core: `Connect` is `Register`,
`Open` is `StreamOpen`, what `StreamGreeted` and `StreamWritten` write is appended to `wire` if the
client still reads that stream, and `Handled` is one of the `Respond...` actions. All the rest of
`Broker` (callers, other streams, reloads, timers, failing writes) runs around it in `CoreAlone`.
`api` is how far the program is with `connect`, `serve` and `stop`; `loop` the stream task, which
ends at the first error and is never started again until `stop`; `task` the dispatch task of each
envelope. A response is posted (`inflight`) and handled later or lost, also when its sender has been
cancelled or has died. `_dispatch` reads the surface's mode once, before it awaits the handler
(`node_sdk/__init__.py:276-286`): a task that found `fire_and_forget` is `notified` and answers to nobody, whatever a
`connect` in between makes of the surface. `stop` only requests the cancellation of dispatch tasks; the model ends
them at once, so that `StopIsQuiet` is about the order of the two cancellations and not about handlers that refuse
theirs. `Crash` may happen anywhere and the program starts from the beginning.

### ReplayGate, RateLimiter, Fanout

- `ReplayGate`: `now` is `datetime.now()` and moves either way (`ClockSet`); an acceptance is
  recorded with its time in a history variable. Registrations pass the window only.
- `RateLimiter`: amounts are measured in the ticks of the clock that refill them, so that one
  token is `Cost` and a full bucket `Cap`. `last`, `tokens` and `stored` are `_buckets`; `since`, `spent`
  and `verdict` are observers. A refused request stores its bucket too, and eviction happens only on a grant,
  before the insertion: the table may hold one more than the limit, or any number while no bucket is idle, so
  the comment at 1289-1290 ("keeps the dict bounded even under spray") is too strong.
- `Fanout`: `flavour` chooses between the two loops. `handle_admin_stream` subscribes, writes
  its hello and copies the tail afterwards; `serve_sse` subscribes and copies in one step, and skips up to
  `Last-Event-ID`; if the buffer no longer has that id it skips everything. (Its docstring says that the
  replay is sent *before* subscribing, sse.py:113; the code subscribes first, which is what `NoGap` needs.)

### Boot

One variable `phase` is the program counter of `load_config`, `main`, `make_app` and `amain`. `Apply`
is `_set_field` for all fields a layer `Offers`; `Takes` and `Reads` are what each layer accepts and
makes of a raw value (TOML is type-checked, the environment is parsed, `_env_bool` takes any text).
`Errors` is the validator and `Raises` with `Declared` the loader, both written over the same
manifest records and independently of each other. The kind of a node's runner decides what the first
reconcile does with it; `ResolverRaises` is supervisor.py:277, outside the `try`. The ends of the process are actions
(a bad token, an unreadable file, a port in use, the resolver, a signal before or after its handlers are set, 1445); the
children are not in it.

## 3. The runs

| Run | Shows |
|---|---|
| `broker_calls` | Two calls that wait together in a queue of two, ids reused, answered by the right and the wrong node, expiring, or revoked: `CallContract` is implemented, `pending` is exact, the audit log agrees, every call is replied to. |
| `broker_streams` | Re-registration, two sessions and two streams, queues of two, failing writes: no envelope twice, dead sessions only drain, close markers are consumed. |
| `broker_reload` | Both governing surfaces, payloads that fail half-way, files edited or deleted under Core, with calls of which two may wait together: each reply says what governs afterwards, nothing unauthorised is left. |
| `supervisor_alone` | Children started once, crashing with a budget of one restart each, with stops, drains and shutdowns: the supervisor's own restarts never double, lose or forget a process, and a shutdown leaves only what is being drained. |
| `node_client` | An SDK node with the broker, two callers, two sessions and streams, three calls and a reload: dispatched once, answered by its own dispatch, quiet when stopped. |
| `replay_gate` | What a captured envelope or registration can do, with a clock that is set forward and back. |
| `rate_limiter` | Two keys, a table limit of one: grants stay within the rate, and `TokenBucket` is implemented. |
| `fanout` | Two clients, queues and tail of two, three events: gaps, echoes, order, and catching up. |
| `boot` | 216 configurations, bad and good tokens, 360 manifests with up to a few defects each: attribution, validator against loader. |
| `supervisor_ops` | Any two operations on an on-demand and a permanent child, with crashes, reaping and failing execs: a running child has its process, the lock is always handed on and every call returns. |

Two statements of the documents and comments that do not hold have a run, whose counterexample
is a behaviour of the code:

| Run | Statement | Behaviour |
|---|---|---|
| `broker_bricked` | SPEC 5.1: `core` is always present | `core.reload_manifest` of a file that does not load |
| `supervisor_twins` | supervisor.py:693: no auto-restart if something else handled it | reconcile during the backoff, then the monitor |

Two properties say exactly what the code promises where the wording of the documents says more or less:

- `AuditTellsReply`. Each reply is in the log under its decision and each entry is the story of a call, with three
  qualifications. The replies `bad_kind` (852-855) and `bad_surface_id` (881-884) are made without an entry; the
  property leaves them out by name. `denied_queue_full` (937, 958) is logged, though the closed list
  of decisions in docs/SPEC.md:266-290 does not have it. A reload logs `denied_no_relationship` for every
  entry it removes (341-355), also for a call that was answered or timed out already and has not resumed yet:
  such a call has an entry of a refusal that nobody was told.
- `ManifestReplacedWhole`. A result means that the file loads and that the registry is the file's. An error of
  `core.set_manifest`, when the file in place loads, means that it governs again or that the registry was not touched; if it was running
  before, nothing else was touched either: no call revoked, no declared node disconnected. Any error leaves a file that existed as it was. If there
  was none, a stale `.bak` may have been restored. An error of `core.reload_manifest` promises
  no more than that: the registry is whatever the load had entered when it raised (`broker_bricked`).

Other disagreements that the models show, without a run of their own:

- SPEC 4.4 (docs/SPEC.md:154-156), calls to a disconnected node are refused, not queued: when a stream
  ends, `handle_stream` only discards its queue from `_streams`; the connection stays and calls are queued.
- 313, sessions of nodes that have disappeared are closed: a payload that fails half-way, and a rollback
  to a file that was edited by hand and no longer has the node, leave its session. `ConnectedAreDeclared` is an
  invariant of `broker_reload`, whose edits keep every connected node or leave no file.
- supervisor.py:85, a permanent child always restarts: if the exec of the restart fails, the monitor ends and nobody tries again.
- supervisor.py:493, `shutdown_all` stops every child: one that is draining is skipped. `ShutdownLeavesOnlyDraining`
  says that, where no child is doubled, these are the only ones.
- supervisor.py:244, restart stops the child if running, then starts it: one that is draining has a live process and
  another status, so it is not stopped (247), and a second process is started over it. So do spawn and reconcile.
- supervisor.py:432, a drain stops the child only "if we're still the one in 'draining' state": line 434 looks at the status
  only. When a restart and a second drain queue for the lock ahead of the first drain, and work arrives between them, the first
  stops the new process while it works. `supervisor_alone` has no such requests.
- supervisor.py:566, an idle reaper stops its child: it cancels itself before it waits, and a child that ignores
  SIGTERM lives on with nobody to wait for it.
- SPEC 5.2, `core.drain` makes Core reject new invocations: the broker never asks `can_accept`.
- SPEC 8, the validator rejects a manifest: it only prints, and Core starts with whatever loads.
- manifest_validator.py:7, it never raises: it does for `surfaces: 5` or a schema file that is not UTF-8; the caller catches it.
- supervisor.py:525, children are killed on shutdown: a SIGTERM before amain has set its handlers (1445), or an
  exception out of the first reconcile, ends Core without `shutdown_all`. Where it does run, it does not know the first process of
  a doubled child, skips a draining one, and what it raises is swallowed (1398-1401).

`OneProcess` holds in `supervisor_alone`, where nobody starts a child twice, and fails in
`supervisor_twins`. Section 4 states the conditions under which it, `EveryProcessWatched`, `LiveIsKnown`,
`ShutdownLeavesOnlyDraining` and `DrainedIsIdle` hold, as hypotheses of theorems.

**Bounds, and why they are enough.** The broker's hazards need two calls waiting at the same time, two sessions to
replace one another and two streams to share one, and a queue that fills: those are the
sizes of `Reqs`, `Sessions`, `Streams` and `QueueMax`. `broker_calls` and `broker_reload` have no streams, so that nothing
leaves a queue; with room for two envelopes both calls are admitted, wait together, and are decided and cleaned
up in any order. Each `Reqs` and `Streams` member is
one HTTP request. `NonceMax` exceeds the number of ids in the runs: calls that outlive their
nonce are the documented limit of the LRU. A restart of Core, which empties it, is in no model. The supervisor's instances have two children
(one in `supervisor_twins`), two or three operations and
`MaxRestarts` 1, so that "restart" and "give up" both occur; `MaxWork` bounds the work in
flight per child. `Crashing` names the children that may exit by themselves, `ExecMayFail`
whether an exec may fail. A child whose restart is doubled occupies three process slots (the
process whose monitor is in its backoff, and two that run), so `supervisor_alone` has four for its two
children; in
`supervisor_ops` a process that finds none of the three slots is an exec that fails (with four slots the
run is five times as large and passes as well). In `node_client` two sessions
and two streams are what a reconnection needs, `QueueMax` 1 lets a second envelope fill the queue behind the one to be put back, and two
requests let answers be exchanged. `replay_gate` has more ids than its
memory holds and times on both sides of the window; `HistoryMax` bounds the acceptances. `rate_limiter` runs to
`Horizon`, twice the time a bucket needs to fill, with more keys than `BucketMax`. `fanout` emits one event more
than a queue or the tail can hold. `boot` has every type of raw value for each kind of field, and each defect in the
first or second entry of a manifest, so that duplicates and dangling edges occur. The symmetry sets permute identities no property names, and no
run that checks liveness uses them. `CHECK_DEADLOCK FALSE` is set because a Core whose
clients have sent everything they will send is idle, not stuck.

**Fairness.** Only what the event loop and the operating system owe. Broker: timers fire, a
handler whose future is decided resumes, a stream handler with an event goes on. Supervisor:
ready tasks run, an exec and a timer end, a SIGKILLed process exits. Fan-out: a handler that is
ready runs, and a client that stays keeps reading (one that does not is taken to leave); producers get none.
Clients, operators, work and crashes get none. `NodeClient` states none: the code promises no liveness to a node whose
stream has ended.

## 4. What is proved

Every theorem holds for every value of the constants that satisfies the named assumptions of its
module: any number of nodes, sessions, streams, requests, children, clients, any bounds. A few have a
hypothesis of their own, which is named here with the reason why it cannot be dropped. Each proof has one lemma or
step per action or kind of action, and the temporal step last.

### The broker (`BrokerProofs`, `CallProofs`)

- `TypeCorrect`: `Spec => []TypeOK`.
- `SessionTablesAgree`: `[]SessionsMatchConnections`. Registration and closing touch
  both tables; the invariant needs that issued sessions are never issued again.
- `RevocationComplete`: `[]PendingHasEdge`. Not inductive by itself: a new entry has
  its edge because `Route` has just checked it, and a successful reload removes exactly the entries
  without one, whatever a failed load before it had left in `edges`.
- `CallsStayReachable`: with at least as much nonce memory as there are ids (`NeverForgets`),
  `WaitingIsPending` and `PendingIsWaiting` always hold together. The strengthening says that every
  call ever admitted left its id in the LRU, so no second call with that id passes
  `Gate` and no clean-up can hit somebody else's entry. `NothingLingers` is `PendingIsWaiting` by itself.
- `AuditMatchesReplies`: `[]AuditTellsReply`, with the qualifications of section 3. `CallSteps`, on which this and the next theorem rest, says that
  whatever handler runs, each call is asked, decided, told or left alone, what is then in the log, and that a timeout is
  logged only in the step that tells it.
- `BrokerKeepsContract` (`NeverForgets`): `Spec => ContractSpec`, the refinement. A step of the broker is
  an `Ask`, `Decide`, `Revoke` or `Tell` of `CallContract` or a stutter. The strengthening: a call that waits has been
  told nothing, and the id of a response that answered a call is remembered, so that no second call is answered by it.
- `ReplacementIsWhole`: `Spec => ManifestReplacedWhole`, by the ways a governing call ends: the payload
  loads; it raises and the backup loads; both raise, which a file that loads excludes. That nothing is revoked after a rollback to
  what was running needs that each pending entry had its edge (`RevocationComplete`); that nobody is disconnected, that
  the rollback closes only sessions of nodes the restored file does not declare.
- `OnlyDeclaredConnected` (`NoStrays`): `[]ConnectedAreDeclared`. `NoStrays` says that no payload raises
  half-way, or that nobody edits the file under Core. Both at once do break the property: the rollback then loads a file that the
  running registry never was, and takes the half-loaded declarations for the old ones (section 3). Without edits the
  strengthening is that the running declarations are those of the file, which loads.
- `DeadSessionsDrain`: `Spec => DeadSessionsOnlyDrain`. Only `Enqueued` and `Reload` put something new into a queue,
  that of a connection, and a connection's session has that node as its owner.
- `DeliveredOnce` (`NeverForgets`): `[]NoDuplicateDelivery`. Inductive is that over all queues, stream handlers and completed
  writes there is one copy of an envelope, that a delivered one is in none of the first two, and that an id that is not
  remembered is nowhere. The count of the property is replaced by naming: two places with a copy are the same place.

`NeverForgets` is the documented limit of the LRU: an envelope whose nonce has been forgotten is admitted
again, overwrites a live entry, is delivered again, and its first answer serves two calls.

### The node (`NodeClientProofs`)

- `NodeKeepsBroker`: `NodeSpec => Spec`. What the client makes Core do, Core may do by itself, so the theorems about
  `Broker` and the invariants behind them carry over.
- `NodeTypeCorrect`, `StoppedIsQuiet`: the latter needs nothing but the order in which `stop` cancels.
- `DispatchedOnce` (`NeverForgets`): `[]HandledOnce`. What is on the wire has been handed over by a write that succeeded, and
  `DeliveryInv` says that this happens once.
- `AnsweredByItsDispatch` (`NeverForgets`): `[]AnsweredWasHandled`. `SourceInv` of the broker says that whatever is under
  way was sent by a request with that envelope, and that two requests never sent the same id. A response therefore names one call, and its
  envelope is one whose dispatch has finished.

### The supervisor (`SupervisorProofs`)

- `TypeCorrect`: `[]TypeOK` needs `QueueMatchesTasks` (the lock's queue has exactly those who hold or wait for the lock, once each),
  which is part of the invariant and no claim of its own: a step of the
  holder takes the head of its plan, which exists only if the holder is inside, and the next holder is the head of a queue
  that contains whoever waits. The strengthening adds: who is inside is the head of the queue and nobody else is; a
  monitor inside only starts and a reaper inside only stops; a drain that resumes is one
  that was asked for; a monitored process belongs to a child; a draining child names the call that drains it.
  `WithoutLeaves` (a cancellation removes one waiter and keeps the order of the rest), `TailLeaves` and `AppendJoins` are
  the lemmas about the queue.
- `RunningIsBacked`: `[]RunningHasProcess`, also while a child has two processes (`supervisor_twins`): a late monitor forgets
  a process only together with its status.
- `ShutdownIsFinal`: `Spec => NoRestartAfterShutdown`. `_stopping` is set from the entry of `shutdown_all` on and never
  cleared, a monitor that gets the lock afterwards does not plan a start, and when `shutdown_all` returns nobody
  else is inside.

The properties in the table do not hold for every use of the supervisor. They are proved under
hypotheses about which requests are made (`Requests`) and who crashes (`Crashing`); number of children, processes and calls, policies,
budgets, failing execs, and what is asked of the other children are free:

- `Careful`: each child is *started once* (all requests that may start it belong to one call; its restarts are the monitor's) or
  *steady* (it does not crash by itself, is never drained and gets no idle reaper; any call may start, stop and restart it).
- `Unreaped`: nobody calls `ensure_running` for an on-demand child, so that there are no idle reapers.
- `DrainedOnce`: a child that may be drained is started once.

| Theorem | States | Needs | Because otherwise |
|---|---|---|---|
| `OneProcessEach` | `OneProcess` | `Careful` | `supervisor_twins`: a child is started during the backoff of its monitor; or it is started while it drains (section 3) |
| `ProcessesWatched` | `EveryProcessWatched` | `Careful`, `Unreaped` | a second process makes the first an orphan; a reaper cancels itself while it stops its child (566), and nobody waits for a child that ignores SIGTERM |
| `LiveProcessesKnown` | `LiveIsKnown` | `Careful`, `Unreaped` | the record of a doubled child holds its second process only; a reaper that cancelled itself leaves a child that ignores SIGTERM running under a record that does not say so |
| `ShutdownLeavesDrains` | `ShutdownLeavesOnlyDraining` | `Careful`, `Unreaped` | what the record has forgotten, `shutdown_all` cannot stop |
| `DrainsStopIdle` | `DrainedIsIdle` | `DrainedOnce` | a child started again while it drains may be draining for another call, with work (section 3) |

`supervisor_alone` satisfies all three hypotheses. The argument:

- What holds without hypotheses (`WorkInv`): who is inside does what its call asked for; a start is planned once and only by a
  call that may ask for it or by the monitor of that child; the process a stop waits for is that of the child it stops, with
  its monitor cancelled; a monitor past its wait has no live process.
- *Started once* (`OnceInv`) is an argument about a token. The right to start the child is held by its one call until that has
  done its start, and from then on by the latest process, if it lives or its monitor is still there: `FirstStart` says that nothing of the child exists
  as long as the call holds the token, `OneToken` that two processes never hold it. A monitor past its wait
  finds the child neither running nor draining, so that no stop is at work on a process it does not know.
- *Steady* (`SteadyInv`): a live process is the one in the child's state, running or being stopped; its monitor is still waiting, or it is the
  stop's victim; a planned start finds no live process or has a stop before it in the plan.
- *Watched* follows from either, with the monitor of a process only cancelled by the stop whose victim it becomes.
- *Known* (`SingleKnown`, `VictimIsSingle`): for a child started once, a process that becomes live does so
  with the token, when the last one is gone, so that the late steps of an older monitor find a record that is already settled, and the
  process a stop waits for is the only one of its child. For a steady child it is a part of `SteadyInv`.
- *Shutdown* (`ShutPlan`): as long as `shutdown_all` is inside, every child that runs is still ahead in its plan. The plan is made when it
  gets the lock, from all children the supervisor has heard of, and nobody starts a child while it holds the lock. When it returns
  the plan is empty: no child runs, and by `LiveIsKnown` a live process belongs to one that drains.
- *Drains* (`DrainInv`): once the event of a drain was set, its child has no work as long as it drains, and does not run again before the drain gets the lock.
  Only the child's monitor could restart it; a monitor that asks for the lock while the drain waits is behind it in
  the queue, and `OrderKept` says that no step changes the order of two waiters. Timed-out drains are not in the statement.

### The gates (`ReplayGateProofs`, `RateLimiterProofs`)

`MemoryHolds`, `ReplaysNeedFlood` and `RegistrationsDoExpire` hold for any window, memory bound and history. The
inductive invariant is `TypeOK`, `MemoryIsRecent` (the memory is the suffix of the
acceptances), the fact that everything accepted was within a window of its timestamp when it was accepted, and
`ReplayNeedsFlood` itself: a new acceptance of an id that is not in the suffix lies more than
`NonceMax` behind its last one. No assumption on the clock is used.

`LimiterTypeCorrect`, `GrantsBounded` and `LimiterIsABucket`: the strengthening relates
the observer to the state: what was spent since `since` and what is left in the bucket never exceed
the burst and the refill of that time. The refinement maps an absent bucket to a full one; a bucket that is evicted
is one that has refilled, so eviction is a stutter, and so is storing a refusal.

### Fan-out (`FanoutProofs`)

`NothingIsMissed`, `NothingIsRepeated`, `EverythingInOrder` and `TypeCorrect` follow from one invariant. A client's *line* is what
it was sent, what its handler holds, the rest of its backlog and its queue, in this order; handing over and writing only move the borders
inside it. The invariant says that the tail is the last `TailMax` envelopes, and that a line has two parts, each rising: the
copy of the tail, whose elements were emitted before the copy, and what was emitted since the subscription, which is
complete unless something was dropped. On the hub the parts do not overlap, since both begin in one step; on the admin
stream they overlap in what was emitted while the hello was written.

### Startup (`BootProofs`)

- `ConfigIsExplained`: `[]Explained`. Inductive is that value and source of each field are at all times those of the strongest layer
  applied so far; the layers not yet applied are empty. `OutsideAssumption` says of the constants what the code's parsers guarantee: a window a
  layer accepts is an integer, and no flag of the command line sets it.
- `CleanIsServed`: `[]CleanManifestServes`. The heart are `CleanLoads`, `CleanNodesDeclared` and `CleanEdgesDeclared`,
  about the two independent readings of one manifest; node ids without duplicates (`NamesAreUnique`) are what makes the
  loader's last-one-wins harmless.

### What is only model-checked

- Liveness, which is beyond the prover, as is `ENABLED`: `EveryCallReplied`, `CloseConsumed`, `EveryCallReturns`,
  `EveryoneCatchesUp`.

## 5. What is not modelled

Signatures and JSON schemas are verdicts; correlation ids are the ids of
calls; in `Broker` timestamps are fresh or not. Metrics, log files and `core.audit_query` read
and format only. The shutdown of the broker (which cancels handlers and puts close markers into the
queues) is not modelled beyond `Boot`, which in turn has neither children nor what a served Core does with them
(spawn, drain, restart: `Supervisor`); which processes outlive Core is therefore in no model, and no property speaks of it. In `Supervisor` every child has a runner (`Boot` has the other cases), policies
do not change, `graceful=False` is the case of an immediate timeout, and `total_restart_count`, the length of
backoffs and the counting of the restart window (which is reset, not slid, supervisor.py:665) are left out. Core never
calls `ensure_running`, `begin_work`, `end_work` or `can_accept`; they are modelled as calls
any dispatcher may make. `Broker` and `Supervisor` are not composed: the product is out of TLC's reach, and the
only step they share is one in which a broker handler waits inside the supervisor (`CoreSupervise`). In
`Boot` seven of the eleven configuration fields are left out because they take the same path as one of
the four, and warnings of the validator because nothing depends on them.

## 6. Plan

What is left is a small instance of `Broker` with `Supervisor` for `core.drain` and the shutdown, if a useful one fits.
Everything the runs check except liveness has its theorem.

# TLA+ models of nlp-agent

nlp-agent is a teaching assistant: users submit *turns* in a session, a gateway
stores them in MySQL, worker processes take them from a Redis stream and run an
agent engine, and browsers follow the turn's event log. An engine may start
background workers and run code in a sandbox container. This directory holds TLA+
modules for the parts whose correctness depends on the order of steps of several
processes or tasks, the TLC configurations that check them, and TLAPS proofs. Paths
below are relative to `src/`.

## 1. Inventory

`PROJECT.json` lists every component with its sources and status. This section
gives the state, the operations and the interactions of those that carry the
program's logic.

| Component | State | Operations | Hard behaviour | What makes it correct |
|---|---|---|---|---|
| Gateway core (`gateway/core.py`) | the rows it writes | submit, cancel, replay | a request is a chain of separate transactions; cancel decides on a status read earlier | a turn answered as accepted will run |
| Repository (`gateway/mysql_repository.py`) | `nlp_turns`, `nlp_turn_events`, `nlp_turn_cancellations`, `nlp_outbox_events` | create_turn, update_turn, append_event, ensure_event, request_turn_cancellation, prune_events | fence by claim generation; ensure_event reads and appends in two transactions | terminal statuses stand; stale executions write nothing |
| Turn reliability (`server/application/turn_reliability.py`) | claim generation, owner, lease, outbox | claim, heartbeat, recover_stuck_turns, publish_batch | recovery races the claim's owner; XADD inside a MySQL transaction | no turn lost, none stranded |
| Redis transport (`gateway/redis_transport.py`) | stream with pending entries, cancel keys, Pub/Sub | run_once, run_forever, XAUTOCLAIM, XCLAIM heartbeat, event publisher and bridge | at-least-once delivery of turns, at-most-once delivery of events | ACK only once nothing is left to do; interrupt whoever may have missed an event |
| Fenced executor, worker (`server/worker/`) | the running execution and its heartbeats | claim, authorize, heartbeat, cancel and drain, cancel_pending, is_terminal, relay loop | cancellation at any await; database threads that outlive their task | see above |
| Turn executor (`gateway/turn_execution.py`) | position in run() | running, started, engine, result, terminal events, quota calls | deadlines and cancellation between the result and its events | log and row agree |
| Event broker, connection, browser (`gateway/events.py`, `server/web/websocket.py`, `webui/.../realtime/client.ts`) | bounded queues, last sequence sent, last sequence seen | publish, interrupt, subscribe, replay, send, reconnect | full queues drop events; replay and live events overlap | no unannounced hole, order, the end is seen |
| Quota service (`server/quota/service.py`), reaper, usage reporting | reservations, buckets, concurrency locks, ledger | admit, begin, heartbeat, settle, reconcile, feature hold and release, finish, expire | late and repeated reports, expiry against finish, clamping at zero | holds and charges balance; holds come back |
| Sandbox manager, warm pool, leases (`server/sandbox/`) | runtime rows, containers, environments, leases, host budget | login, open, claim, execute, reset, destroy, refill, reconcile | database and Docker disagree between steps; handlers and the loop interleave | one tenant per container, limits kept, nothing leaked |
| Coordinator and workers (`core/coordinator_runtime.py`, `core/task_manager.py`, `core/worker_events.py`, `server/tools/worker_tool.py`) | task registry, wait plans, bounded event queue with overflow, session lock | submit, spawn, stop, publish, barrier, detached resume | cancellation at any await, publish into a full queue, lock hand-over | every result told once, every wait ends |

Interactions: the gateway calls the quota service inside the transaction that
creates the turn, and wakes no worker; a relay in each worker polls the outbox
and recovers stuck turns. Workers and gateway share only MySQL and Redis. A
cancel writes a MySQL row and a Redis key, and each is looked at by a different
heartbeat. Recovery, redelivery and cancellation never touch a reservation except
through its own idempotency keys. The coordinator runs inside one execution and in
the worker's event loop. The sandbox manager is a process of its own that shares
MySQL with the control plane.

The hazards these interactions create are listed in `PROJECT.json` under
`hazards`, each at its line with the property that would catch it.

**Not modelled**, and why. Most of the repository's lines are no protocol: web endpoints
and request validation (`server/web/app.py`), schema definitions and migrations,
administration, roll-ups and analytics (`server/quota/management.py`, `operations.py`,
`usage.py`), teaching content, users and roles beyond what the models below see of them,
prompt construction, memory extraction and conversation compression, evaluation,
monitoring and the rendering of the web UI. Each of these operations is one transaction or
a transformation of data, and a model of it would repeat it. `gateway/repository.py` and
`gateway/dispatch.py` are the single-process deployment. `server/quota/reservation.py` is
used by its tests only. Left for further work, since they have a state of some interest:
the circuit breaker and the fallback of the model runtime, the storage quota, the lease of
session summaries, release_session of the coordinator. Section 2 lists what each module
leaves out of the code it models.

## 2. Modules

| Module | Contents |
|---|---|
| `TurnLifecycle` | abstract specification of the turn table: what users of a session may rely on |
| `TurnDelivery` | gateway submission and cancellation, outbox relay and recovery, consumer loop, fenced execution, faults; implements `TurnLifecycle` |
| `TurnDelivery_proof`, `TurnDeliverySafety_proof`, `TurnDeliveryExecution_proof`, `TurnDeliveryRefinement_proof` | its proofs, each extending the one before |
| `EventStream`, `EventStream_proof` | the way of a turn's events from the log to a browser |
| `QuotaReservation`, `QuotaReservation_proof` | reservations, buckets, concurrency units, ledger keys, provider attempts, reaper |
| `SandboxPool`, `SandboxPool_proof` | leases, warm pool, host budget, reconcile loop |
| `Coordinator`, `Coordinator_proof` | coordinator runs, background workers, event bus |
| `MC*` | instances for TLC |

Every module has one variable per table, queue or task set, one action per
transaction, handler or stretch between two awaits, and its mutants (definitions
whose name has an underscore) beside the definition they alter.

### TurnDelivery

One action is one MySQL transaction, one Redis command or one decision of an
event loop; a coroutine may be overtaken between any two of them.

* `status`, `gen`, `owner`, `lease` are the columns of `nlp_turns`; `log`,
  `cancelReq` and `outbox` are the rows of the three other tables. An event is its
  type and the generation of the row when it was appended.
* `stream[t]` is the sequence of the turn's entries in the Redis stream, each new,
  pending or acknowledged; `cancelKey` is the Redis key. Entries of one turn are
  handed out in order, entries of different turns in any order.
* `loop[w]` is `RedisTurnConsumer.run_once` together with the `FencedTurnExecutor`
  it awaits. Its `pc` is the next step: the cancel key, `is_terminal`, the key
  again behind the start gate, the claim, the wait, cancellation and drain,
  `cancel_pending`, the two halves of `ensure_event`, the ACK. `todo` are the
  events still to be ensured.
* `task[t][g]` is `InProcessTurnExecutor.run` under claim generation `g`.
  `late[t][g]` are the repository calls whose task was cancelled or timed out
  while a thread was making them: `asyncio.to_thread` finishes its call. The
  choice in `CancelExecution` is whether the thread had started.
* `FencedWrite` is `update_turn` and `append_event` with
  `expected_claim_generation`.
* `RelayPass` is one pass of `relay_forever`: `recover_stuck_turns` and
  `publish_batch` in one transaction. `RelayFails` is that transaction rolled back
  after some entries were already added to the stream.
* Faults are a crash of a process (`crash`), an error in a MySQL or Redis call
  (`database`), an event loop or a write that stalls past a lease or deadline
  (`stall`), Redis heartbeats or signals that fail (`redis`), an error in the relay
  (`relay`) and a submitter who loses the permission (`authorization`). A
  configuration names the kinds that may happen and `MaxFaults` bounds how many.

Left out: undecodable tasks and turns whose row is missing, deletion of a session,
graceful shutdown, resubmission after a failed dispatch, the seven-day life of the
cancel key, the first-2000-events window of `ensure_event`
(a terminal event that is logged twice changes nothing for a client), several web processes.
`update_turn` and the re-read after it are one step, and so are the read and the
update of `cancel_pending`: the gateway commits a cancellation before it sets the
key or publishes, so the update never finds an active turn. An error or a cancellation
while `run()` reports a result that came too late (`turn_execution.py:209-214`) ends the
task, where the code still goes through its handler: the row is terminal, so the
handler's write changes nothing. Submission begins at the
check for an active turn and that check and `create_turn` are one step. In a
failing relay pass a turn's due rows are all sent or none.

Cancels aside (`delivery_cancel_race`), the log of a turn at rest can lack its end in
four ways, found with TLC while its proof was sought. Recovery that gives a turn up writes
`failed` and a dead letter but no event, and the turn's entries may be ACKed by then
(`turn_reliability.py:152`). An entry reclaimed from a live worker is ACKed by the one that
finds the lease live; if the other crashes after its terminal write nobody repairs the log. A
failed lease heartbeat makes the execution write `cancelled` for a turn nobody cancelled, which
`is_terminal` does not repair. And after a deadline that strikes in the completing update,
an error in the write of `failed` leaves the late thread to complete the turn with nobody to
log it. Each takes two faults or an exhausted retry limit.

`TurnLifecycle` is what remains when queues, leases, workers and faults are taken
away: a session has one active turn, a turn is handed from one execution to the next,
gets one result from the execution that holds it, and only a requested cancellation
replaces a result. `ImplementsLifecycle` maps `state` to `status`, `tenure` to the
claim generation and `wanted` to the cancellation rows.

### EventStream

One turn, one browser, one connection at a time. An event is its sequence number and
`End` that of the terminal event.

* `top` and `floor` are the log (`nlp_turn_events`): appended up to `top`, pruned up
  to `floor`. `wire` is the set of events on their way through Redis Pub/Sub: tasks of
  an execution emit concurrently and may publish out of order, while `run()` awaits
  them before it emits the terminal event (`Published`). `bridge` is
  `RedisEventBridge._listen`: an outage is noticed (`Notice`) and overcome
  (`Recover`), and both interrupt the subscribers. Messages in between are lost
  (`Miss`). A publish may also fail alone (`PublishFails`).
* `queue` is the broker's queue of the session's subscription; `Put` drops the oldest
  entry of a full one, be it an event or an interruption.
* `cmd` is `_receive_commands`, `pump` is `_pump_session`. They share `last`
  (`_last_sequences`) under the turn's lock, which each holds across a database read
  (`"replay"`). `sendq` is the send queue. `send` never waits, so the frames of a
  replay are queued in one step, as far as there is room: the first that finds none
  terminates the connection.
* `link` is where the connection stands. `_terminate` stops both tasks and awaits them
  before it cancels the sender, which does not look at `_closed` and meanwhile writes
  frames that are queued (`"ending"`); when the command task terminates while a pump is
  there, it is sure to write one (`"woken"`). `SenderEnds` closes the socket. In
  `SenderSurvives` the cancellation is lost in `wait_for` (Python 3.11), the sender goes
  on waiting for frames and `_terminate` for the sender (`"stuck"`).
* `seen`, `following`, `got`, `gapped` are the browser: the position it resumes from,
  the events it was handed, and whether a `stream.gap` told it to reload.

The browser follows the turn from sequence 0, as a page loaded while a turn runs
does (`turn-history.ts`). Frames under way in the network count as queued. `Prune`
happens days after the turn's end, when nothing of it is under way; a live event of a
pruned turn would keep `_replay_locked` querying for ever (see the hazards).

A replay longer than the send queue terminates every connection that asks for it, but the
frames the sender writes on the way move the browser's position: it gets through, by as
little as a frame per reconnect (`EndIsSeen` in `stream_follow`, whose send queue is too
short for a whole replay). A `"stuck"` connection is the exception: it stays open and
silent until the network ends it, and the browser, which sees no close, does not reconnect
(`docs/web-api.md` has an overflowing connection closed). Left out: two turns of a session
that share the queue, a terminal event published by the gateway that overtakes older ones,
a disconnect between `chat.send` and the first event, unsubscribe and the other commands,
`stream_events` of the command line client, the reducer that renders events.

### QuotaReservation

Every call of `QuotaService` runs in one transaction under row locks and is one
action. `resv` is the reservation row together with the buckets that have a
reserve entry for it; `keys` are the idempotency keys under which it was
finished; `op` is what the ledger holds of a provider attempt. `phase`
is what the callers, gateway and workers, may do next with the turn.

An owner has one bucket per period (daily, weekly and classroom buckets are
treated by the code like those modelled). Limit, overdraft and grants are one
constant per owner; policies do not change and always have a limit. Exact and
estimated usage differ in data only, as do pending and unavailable usage. A
rejected call changes nothing and is no step; a repeated call with the same facts
replays and is no step. A second dispatch (`DispatchFails`, then `Admit` or
`AdmitDuplicate`) needs a dispatcher whose `submit` raises: `RedisTurnDispatcher`
can, the outbox and in-process dispatchers do not.

A sum over the rows of a transaction (`Total`) is written as the number of its units,
which the prover can count; the run evaluates that it is the usual sum (`TotalIsSum`).

Three behaviours follow from a second dispatch and are the reason for what the runs and
the theorems assume. A reservation that is armed again in the next period holds reserve
entries in both periods and counts on both, though only the new buckets were debited, so
an operation is charged to two and a later release takes from the old period what others
reserved there: `ChargedToOnePeriod` is about the late and repeated reports of turns
admitted once, among retried ones. The idempotency key of an expiry is not renewed with
the arming: the second expiry replays the first one and leaves the hold, which is why
`FirstHoldReturns` speaks of the first arming. And a hold so left is overwritten by a
third arming: with three failed dispatches buckets and concurrency units keep what no
reservation counts on any more, so `HoldsAreBacked` and `UnitsMatchActive` hold for up to
two (`TwoFailures`).

### SandboxPool

`row`, `env`, `lease`, `session` and `version` are MySQL; `container` is Docker, and
the two change in different steps. `task[w]` is where an RPC handler or the reconcile
loop stands between two awaits; `lock` and `queue` are the host budget's file lock and
the rows its holder has reserved. `plan` is what the reconcile pass has listed
(`reconcile`, `_retry_draining_runtimes` and `_destroy_unleased_assigned_runtimes` in
turn). `ran` is a history variable. A ticket is the newest one of its session.

Faults: the manager dies (`Crash`), Docker or the kernel gateway fails, a `docker ps`
among them, which aborts a reconcile pass or a refill (`DockerPsFails`), a container
ends on its own (`Vanish`). Listing the containers and marking the rows of vanished
ones are one step. `ReadyTarget` and `HostMax` stand for the adaptive target and the
host's memory guard. A destruction that fails leaves its row `draining`
(`manager.py:615-619`), where the docstring of the class speaks of FAILED. Left out:
interrupts, metrics, the RPC codec, the waiting slots of a claim (their order decides who
is served first and nothing else), and scratch runs. Their containers have no row but
carry the managed label (`docker_runtime.py:134`, `304`): while one runs it takes a place
of the host budget, and a reconcile pass may take it for an orphan and remove it.

Once an authorization version has changed, `ensure_current_lease` raises the
generation of the lease, and `claim` finds the environment's assigned runtime with the
old one: every command is refused until the runtime is swept. `ClaimIsUsable` is
therefore stated for `MaxVersion = 1`.

### Coordinator

One session on one event loop. `run` is the holder of the session lock: a user turn
(`submit_user_turn`) or the detached resume (`_resume_detached`), invoking the
coordinator or waiting at the barrier of a wait plan. `wrapper[w]` is
`_background_task_wrapper` with its retries; `cancelled` are the wrappers with a
cancellation not yet thrown in. `queue`, `overflow` and `deferred` are the three
places of the event bus, as sets: no property depends on the order of two events. An
event is named by its worker, which publishes one. `given` is a history variable.

A stopped worker whose attempt completes at that moment is `lost`: `wait_for` swallows the
cancellation (Python 3.11), `complete_task` refuses, nothing is published and its barrier
runs into the timeout. The wrapper's docstring promises "exactly one terminal result"
(`OneTerminalResult`, violated in `coordinator_lost_result`); `LostOnlyWhenStopped` says
that this is the only exception. A resume tells of a joined result without marking it
consumed, and a barrier later in the same resume waits for it until the timeout:
`ForegroundWaitIsNeeded` covers user turns only. Left out: `release_session` and `close`,
injected messages and commands to workers, pruning of terminal tasks, the limit of 100
events per drain, workers that spawn workers, a stop before the wrapper's first step, the
limit on the workers of all sessions (`task_manager.py:217`; other sessions can only delay
an attempt). A cancelled turn unwinds and then stops its workers; at its deadline the two
run side by side. Its cancellation is never swallowed by the bus's `wait_for(queue.get())`
(`worker_events.py:149`), which Python 3.11 may do.

## 3. Model checking

| Run | Instance | States | Shows |
|---|---|---|---|
| `delivery_faults` | 1 turn, 1 worker, user may cancel, 1 fault of any kind | 824 000 | `AcceptedIsDeliverable`, `RunningIsRecoverable`, `OneStartPerGeneration`, `CompletedByOwner`, `LoggedEndIsTrue`, `ResultStands`; `ImplementsLifecycle` |
| `delivery_liveness` | 1 turn, 2 workers, crash, stall or Redis fault, fair | 142 000 | `SettledTurnIsLogged`: at rest the log has the terminal events; `EveryTurnEnds`, `StreamDrains` |
| `delivery_cancel_race` | no fault | violation | `SettledTurnIsLogged` fails when a cancel meets a turn that has just completed |
| `stream_follow` | 3 events, queue of 2, send queue too short for a whole replay, one fault of each kind, fair | 273 000 | `NoSilentGap`, `InOrder`, `EndIsSeen` |
| `quota_accounting` | 2 users, 2 turns, one recovered, one dispatched up to three times, fair | 370 000 | `HoldsAreBacked`, `UnitsMatchActive`, `ConsumedIsCharged`, `OverdrawnByUsageOnly`, `FirstHoldReturns` |
| `quota_periods` | 2 turns of a user, 2 periods | 400 000 | `HoldsAreBacked` across a period's end; `ChargedToOnePeriod`: late reports go to the buckets the admission debited |
| `sandbox_pool` | 2 users, 2 runtimes, a handler and the loop, 1 fault of any kind | 1 377 000 | `OneTenant`, `HostBudget`, `PoolBudget`, `AcceptedIsActive`, `ClaimIsUsable` |
| `sandbox_reclaim` | 1 user, 2 runtimes, authorization change, crash or Docker fault, fair | 171 000 | `UnleasedIsReclaimed`, `DeadContainersGo` |
| `sandbox_orphan_race` | 2 users, no fault | violation | `OrphansAreUnowned` fails: reconcile destroys the container of a runtime claimed meanwhile |
| `coordinator` | 2 turns, 2 joined workers, 2 attempts, 1 slot, queue of 1 | 1 354 000 | `DeliveredOnce`, `NoResultLost`, `SlotsAreCounted`, `LostOnlyWhenStopped`, `ForegroundWaitIsNeeded`, `JoinedIsAnswered` |
| `coordinator_lost_result` | 1 turn, 1 worker, no failure | violation | `OneTerminalResult` fails: a worker stopped as its attempt completes publishes nothing |
| `coordinator_liveness` | 2 turns, a joined and a detached worker, fair | 291 000 | `PendingIsConsumed`, `EveryTurnEnds` |

`TypeOK` of each module is an invariant of its first run. The three violations are
disagreements between the code and its documentation; `PROJECT.json` quotes both
under `findings`.

**Bounds.** *Delivery*: `MaxRetries` is 1 or 2 (the deployment's own is larger), enough
for a recovery, a second claim and the pass that gives the turn up; `MaxGen` lies
beyond the `2 * MaxRetries` recovery looks at and never cuts off a claim the code would
make. One turn suffices since turns of different sessions share no row and a session
has one active turn; two workers are what a duplicate delivery needs
(`docs/redis-worker-deployment.md` supports one worker). One fault at any point covers
every single failure; sequences of faults are covered by the proofs, which bound
nothing, for the proved properties. *Stream*: three events are the fewest with a first,
a middle and a last one; a queue of two overflows; a whole replay with its
two control frames is `End + 2` frames long and the send queue takes one less, so that it
overflows by a full replay and not by a part of one. *Quota*: estimates
and prices of 0, 1 and 2 units against limits of 2 and 3 make every comparison go both
ways. *Sandbox*: two rows with limits of one make every refill meet the limit and leave
a row for the runtime after a reset; two users compete for it. *Coordinator*: two
workers against one slot and a queue of one exercise waiting for capacity, overflow and
two kinds of runs.

**Deadlock** is checked in `delivery_liveness` (`Finished` is the proper end) and in the
sandbox runs. It is not in `delivery_faults`, where a relay that died is restarted only
with its worker, nor in the quota, coordinator and stream runs, where everything simply
ends.

**Fairness.** `TurnDelivery`: requests already accepted go on, leases run out, relays,
consumer loops, lease heartbeats and execution tasks take their next step: loops that the
worker starts and awaits for as long as it lives, restarted after a crash. Submitting,
cancelling and faults are never required, and a step that needs a fault is excluded from
the fairness of `LeaseExpires`. The liveness run has no `relay` and no `authorization`
fault: after either the code promises no progress (see the hazards). `EventStream`: every
step of the web process and the browser is weakly fair, as runnable tasks of an event loop
and a client that always reconnects are. On an open connection `Receive` is strongly fair,
since the sender task is scheduled at each put while the tasks that fill the queue suspend
at a database read before their next batch; on a closing one nothing but the frame of
`"woken"` is required before `SenderEnds`. `QuotaReservation`: the reaper runs, the lease
of a reservation nobody executes runs out, an admitted turn is dispatched and begun, an
execution ends (its deadline sees to that); workers need not survive and providers need
not answer. `SandboxPool`: handlers and the reconcile loop go on, and a refill that waits
for the host budget's lock gets it in the end (strong fairness of `Reserve`); users need
not do anything. `Coordinator`: wrappers, the notifier, the lock and its holder go on,
barriers and attempts have timeouts; users need neither submit nor cancel.

## 4. Proofs

All theorems hold for any sets of turns, workers, users, sessions and runtimes, any
number of faults and any bounds satisfying the named assumption of the module
(`DeliveryAssumption`, `StreamAssumption`, `QuotaAssumption`, `PoolAssumption`,
`CoordinatorAssumption`). These say that bounds are natural numbers, that model values
differ from the members they stand beside, that the sets that are counted are finite,
and that `MaxGen` of `TurnDelivery` is at least `2 * MaxRetries`, so that recovery
stays within the bound.

| Theorem | States | Argument |
|---|---|---|
| `TypeInvariant` | `Spec => []TypeOK` | with `LoopOK`: a loop that is not idle has a turn and an entry of its stream, and one that is to append has something left to append |
| `LogOrder` | generations in the log never decrease | events are stamped with the row's generation, which only grows |
| `FirstResultStands` | `Spec => ResultStands` | one case per write of the status; needs the type invariant only |
| `NoStrandedTurn` | `Spec => []RunningIsRecoverable` | the stronger `OwnedIsLeased`, whatever the status: owner and lease are written together |
| `NoLostTurn` | `Spec => []AcceptedIsDeliverable` | inductive with the type invariant: a step that decides a delivery either leaves the turn not accepted or is not the turn's only one; recovery and its outbox row are one step |
| `OneStart` | `Spec => []OneStartPerGeneration` | `StartInv`: a generation whose task may still write `started` has none logged, and no task exists above the row's generation; with `LogOrder` |
| `OwnersResult` | `Spec => []CompletedByOwner` | `OwnerInv` with the invariant of `OneStart`: a task of the current generation past its completed write never goes back to the engine |
| `TurnsFollowTheLifecycle` | `Spec => ImplementsLifecycle` | `Sound`: no task runs above the row's generation (`Vacant`), what a pending write has to find in the row (`Asked`), one active turn (`OneActive`); every action is a lifecycle step or a stutter |
| `LoggedEndsAreTrue` | `Spec => []LoggedEndIsTrue` | `TellsTheTruth`: every terminal event that is logged, or that a task, a late thread or a repairing loop is about to log, agrees with the row |
| `OwnedEndsAreLogged` | for `Cancellable = {}` and `Undisturbed`: a turn at rest that an execution ended is logged in full | `Tended`, eleven parts on top of `Sound` and `TellsTheTruth`; the last one, `Guarded`: an ended turn that is not fully logged has an entry that no loop ACKs before it has repaired the log. The others say why the entry is there: handled entries are pending and have one handler (`Handled`), the owner's loop waits until its execution has ended (`Waits`, `Awaited`), cancelled executions and abandoned threads belong to lost claims (`Leftovers`, `LateEnds`), and an execution that returns has logged the end (`Reported`) |
| `SettledTurnsAreLogged` | also for `KeepsTrying`: `[]SettledTurnIsLogged` | `Tended` with `NeverGivenUp`: every ended turn names the worker of its last claim |
| `LogsAreComplete` | `Spec => []SettledTurnIsLogged`, for `Cancellable = {}`, no `redis` or `database` fault and `MaxFaults <= MaxRetries` | `Patience`: a recovery, and a claim after the first, comes after a fault of its own, so the generation is at most twice the faults plus one and recovery never runs out of retries |
| `TypesHold`, `NothingIsSkipped`, `FramesAreOrdered` | `Spec => []TypeOK`, `[]NoSilentGap`, `[]InOrder` of `EventStream` | one invariant `Inv`: the send queue is a run of consecutive events from what the browser holds up to `last`, gaps excepted, or part of the way on a closing connection (`Line`); what the browser holds has no unannounced hole (`Settled`); the two tasks never hold the turn's lock together (`Locking`). Runs compose, so every frame sequence a step appends extends the line |
| `QuotaTypes` | `Spec => []TypeOK` of `QuotaReservation` | `Tables`: types with what a row's status and a turn's phase say of its other columns (`TurnRows`, `OperationRows`) |
| `HoldsBalance` | `HoldsAreBacked`, for `TwoFailures` and `RetriedInPeriod` | no step lowers a bucket's reserve below what its holders count on (`HoldsAreCovered`), so `Less` never clips; a hold is overwritten only after an expiry key was used twice, and the keys used are at most the armings (`KeysSpent`) |
| `UnitsBalance` | `UnitsMatchActive`, for `TwoFailures` | the same argument for the concurrency count |
| `ChargesBalance` | `Spec => []ConsumedIsCharged` | a charge adds its amount to the buckets it notes in the operation, once per attempt |
| `LimitsHold` | `OverdrawnByUsageOnly`, for `RetriedInPeriod` | admission and feature holds test the buckets they debit; whatever else raises a bucket is charged usage |
| `UsageInOnePeriod` | `Spec => []ChargedToOnePeriod` | `AdmittedOnce`: the reserve entries of a turn with no failed dispatch are the pair of its one admission; charges go to those, whatever the period or the reservation's state, and a settled operation stays (`SettledStays`) |
| `DeployedBalances` | if no dispatch fails, the four balances hold | `DeployedRetries`: then no turn is admitted twice (`FirstTry`), which gives both hypotheses |
| `PoolTypes` | `Spec => []TypeOK` of `SandboxPool` | `Well`: types and what a handler's position says of its session and runtime |
| `ContainersHaveOneTenant` | `Spec => []OneTenant` | `Tenancy`: only the user a row names has run code in its container, and a handler about to execute does so for that user; a row never changes or loses its user |
| `HostBudgetHolds`, `PoolBudgetHolds` | `Spec => []HostBudget`, `[]PoolBudget` | `Locking`, `Budgets`: containers together with the reservations of the lock holder stay within the limits |
| `AcceptedCommandsAreFenced` | `Spec => AcceptedIsActive` | `Fencing`: leases and rows of an environment that are current name its generation |
| `ClaimedRuntimesAreUsable` | if `MaxVersion = 1`, `Spec => ClaimIsUsable` | `Fencing` with `ActiveIsCurrent`: the active runtime carries the environment's generation |
| `CoordinatorTypes` | `Spec => []TypeOK` of `Coordinator` | `Types`, `Shape` (what a run's position says of its turn), the queue's bound |
| `ResultsAreDeliveredOnce`, `ResultsAreNotLost` | `Spec => []DeliveredOnce`, `[]NoResultLost` | `Books`: a result is in exactly one place, from the wrapper to the invocation it is given in |
| `OnlyAStoppedWorkerIsLost` | `Spec => []LostOnlyWhenStopped` | `Fates`: what a wrapper's position says of status and outcome |
| `SlotsStayCounted` | `Spec => []SlotsAreCounted` | inductive with the types |
| `JoinedWorkersAreAnswered`, `ForegroundWaitsAreNeeded` | `Spec => JoinedIsAnswered`, `[]ForegroundWaitIsNeeded` | `Sound` and `Fresh`: plans hold only workers not yet consumed, a consumed worker that still runs is being stopped (`Answered`), and a running turn was told only of consumed workers |

The three theorems about `SettledTurnIsLogged` exclude what TLC shows to break it even
without a cancel (section 2): `Undisturbed` (no entry is reclaimed from a live worker, no
lease heartbeat fails, the write of the failed status does not fail) and `KeepsTrying`
(recovery retries every turn it finds). In `LogsAreComplete` they follow from the
constants; crashes, stalls, dying relays, lost permissions and duplicate deliveries
remain.

Two hypotheses stand in the theorems on holds, units and limits. `RetriedInPeriod` is
about steps: a turn that is admitted again holds buckets of the current period only.
`TwoFailures` bounds the failed dispatches of a turn by two. TLC finds a counterexample to
the balances without either, described in section 2. The deployed dispatchers (outbox,
in-process) satisfy both, because their `submit` does not raise: `DeployedBalances` has
the single hypothesis `NeverRedispatched` and no further one.

The balances are sums over sets of rows. Induction over data is out of the prover's
reach, so `Total` counts pairs and its laws (one summand changed, a disjoint union, a
subset) follow from the library's cardinality theorems.

**Model-checked only.** Liveness under fairness (`EveryTurnEnds` of both modules,
`StreamDrains`, `EndIsSeen`, `FirstHoldReturns`, `UnleasedIsReclaimed`,
`DeadContainersGo`, `PendingIsConsumed`) is beyond the prover.
Every invariant and every action property of a passing run is stated by a theorem.
What `delivery_liveness` adds to `LogsAreComplete`, a single Redis fault, is
model-checked only.

## 5. Plan

Done: the life of a turn (`TurnDelivery`, `TurnLifecycle`), its events on their way to
the browser (`EventStream`), the credit it holds (`QuotaReservation`), the sandbox pool
(`SandboxPool`), background workers (`Coordinator`), with their safety theorems.

Next:

1. `EventStream` with two turns of a session that share the queue, and the reducer's
   deduplication.
2. `release_session` and `close` of the coordinator.
3. The storage quota's two counters; the model runtime's circuit breaker with the usage
   reports that are inputs of `QuotaReservation`; the lease of session summaries.
4. Quota policy changes between admission and finish.

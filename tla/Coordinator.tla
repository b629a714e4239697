---------------------------- MODULE Coordinator ----------------------------
(***************************************************************************)
(* The coordinator of one conversation and its background workers          *)
(* (core/coordinator_runtime.py, worker_events.py, task_manager.py,        *)
(* worker_lifecycle.py and the wrapper in server/tools/worker_tool.py).    *)
(*                                                                         *)
(* User turns and the detached resume run the coordinator under one lock.  *)
(* An invocation may spawn workers; each runs in a task of its own and     *)
(* publishes one terminal event to the session's bus.  A turn waits for    *)
(* its joined workers at a barrier; every other event reaches the          *)
(* coordinator through a resume.  All of it shares one event loop: a step  *)
(* of this module ends where the code awaits.                              *)
(*                                                                         *)
(* An event is named by its worker, and the queues of the bus are sets:    *)
(* no property depends on the order in which two events are read.          *)
(***************************************************************************)
EXTENDS Integers, FiniteSets, FiniteSetsExt

CONSTANTS
    Workers,      \* worker ids: spawn_worker never reuses one
    Turns,        \* turns submitted to the session
    Join,         \* [Workers -> BOOLEAN], the join argument of spawn_worker
    WaitMode,     \* [Workers -> {"all", "any", "quorum"}]
    Quorum,       \* [Workers -> Nat]
    QueueMax,     \* max_events_per_session
    Slots,        \* max_concurrent_per_session
    MaxAttempts,  \* WorkerRetryPolicy.max_attempts
    MaxFailures,  \* bound on failing invocations
    None

ASSUME CoordinatorAssumption ==
    /\ IsFiniteSet(Workers)
    /\ Join \in [Workers -> BOOLEAN]
    /\ WaitMode \in [Workers -> {"all", "any", "quorum"}]
    /\ Quorum \in [Workers -> Nat]
    /\ QueueMax \in Nat \ {0} /\ Slots \in Nat \ {0}
    /\ MaxAttempts \in Nat \ {0} /\ MaxFailures \in Nat
    /\ None \notin Turns

VARIABLES
    \* TaskManager
    status,     \* ActiveTaskInfo.status, "none" before the spawn
    active,     \* active_tasks; a worker that left it is in terminal_tasks
    parent,     \* parent_turn_id
    consumed,   \* workers with wait_consumed
    holds,      \* workers with capacity_acquired
    running,    \* _running_by_session
    \* the wrapper task of each worker
    wrapper,    \* where it stands
    attempt,    \* run_index of its retry loop
    outcome,    \* what the last attempt returned
    cancelled,  \* wrappers with a cancellation to be thrown in
    \* WorkerEventBus
    queue, overflow, deferred,
    notify,     \* a notifier task is scheduled
    \* CoordinatorRuntime
    turn,       \* the task of each user turn
    foreground, \* foreground_active
    resume,     \* resume_task: "none", "waiting" for the lock or "running"
    run,        \* what the holder of the session lock is doing
    stopping,   \* turns whose cancellation has yet to reach the workers
    given,      \* history: [w][t], times w's result was given to turn t
    failures    \* invocations that failed so far

tasks == <<status, active, parent, consumed, holds, running>>
wrappers == <<wrapper, attempt, outcome, cancelled>>
bus == <<queue, overflow, deferred>>
vars == <<tasks, wrappers, bus, notify, turn, foreground, resume, run,
          stopping, given, failures>>

Terminal == {"completed", "failed", "cancelled", "timed_out"}
Lifecycle == {"none", "pending", "running", "retrying", "cancelling"} \cup Terminal

\* No run holds the session lock.
Idle == [kind |-> "none", pc |-> "none", turn |-> None, plan |-> {}, collected |-> {},
         batch |-> {}]

(***************************************************************************)
(* TaskManager                                                             *)
(***************************************************************************)

\* Mutant: a running worker may not time out.
Allowed_NoTimeout(current, target) ==
    \/ current = target
    \/ target \in CASE current = "pending" -> {"running", "cancelling", "cancelled", "failed"}
                    [] current = "running" -> {"retrying", "cancelling", "completed", "failed",
                                               "cancelled"}
                    [] current = "retrying" -> {"running", "cancelling", "failed",
                                                "cancelled", "timed_out"}
                    [] current = "cancelling" -> {"cancelled", "failed"}
                    [] OTHER -> {}

\* worker_lifecycle.ALLOWED_TRANSITIONS; nothing enters "waiting".
Allowed(current, target) ==
    \/ current = target
    \/ target \in CASE current = "pending" -> {"running", "cancelling", "cancelled", "failed"}
                    [] current = "running" -> {"retrying", "cancelling"} \cup Terminal
                    [] current = "retrying" -> {"running", "cancelling", "failed",
                                                "cancelled", "timed_out"}
                    [] current = "cancelling" -> {"cancelled", "failed"}
                    [] OTHER -> {}

\* stop_task for every active worker of ws: the status says cancelling and
\* CancelledError will be thrown into the wrapper, unless that has ended.
StopAll(ws) ==
    LET hit == ws \cap active
    IN  /\ status' = [w \in Workers |-> IF w \in hit THEN "cancelling" ELSE status[w]]
        /\ cancelled' = cancelled \cup {w \in hit : wrapper[w] # "lost"}

\* build_wait_plan: the joined workers of turn t not yet accounted for,
\* active or terminal.  An empty plan is no plan.
WaitPlan(t) == {w \in Workers : parent[w] = t /\ Join[w] /\ w \notin consumed}

\* The number of results that satisfies a barrier: _barrier_satisfied with
\* the mode and quorum build_wait_plan puts together.
Needed(plan) ==
    LET modes == {WaitMode[w] : w \in plan}
        quorum == Max({1} \cup {Quorum[w] : w \in plan})
    IN  CASE modes = {"any"} -> 1
          [] modes = {"quorum"} -> Min({Cardinality(plan), quorum})
          [] OTHER -> Cardinality(plan)

(***************************************************************************)
(* The wrapper of a worker: _background_task_wrapper around                *)
(* _execute_with_retries.                                                  *)
(***************************************************************************)

\* acquire_execution_slot.  All waiters are woken by a release and the first
\* one to run takes the slot.  The limit over all sessions is left out: one
\* session with no more workers than that limit never meets it.
Acquire(w) ==
    /\ wrapper[w] = "waiting" /\ w \notin cancelled
    /\ running < Slots
    /\ holds' = holds \cup {w}
    /\ running' = running + 1
    /\ status' = [status EXCEPT ![w] = "running"]
    /\ wrapper' = [wrapper EXCEPT ![w] = "attempt"]
    /\ attempt' = [attempt EXCEPT ![w] = 1]
    /\ UNCHANGED <<active, parent, consumed, outcome, cancelled, bus, notify, turn,
                   foreground, resume, run, stopping, given, failures>>

\* The task of _execute_sandbox_loop's query_loop ends, or its wait_for
\* expires: "retry" is a recoverable error, "failed" any other, "timed_out"
\* an expiry that may not be retried.  The wrapper has yet to be resumed.
AttemptEnds(w) ==
    /\ wrapper[w] = "attempt"
    /\ \E o \in {"completed", "failed", "retry", "timed_out"} :
           outcome' = [outcome EXCEPT ![w] = o]
    /\ wrapper' = [wrapper EXCEPT ![w] = "ended"]
    /\ UNCHANGED <<tasks, attempt, cancelled, bus, notify, turn, foreground, resume,
                   run, stopping, given, failures>>

\* Mutant: the count goes down whether or not the worker has a slot.
Finish_AlwaysReleases(w, final) ==
    /\ holds' = holds \ {w}
    /\ running' = running - 1
    /\ cancelled' = cancelled \ {w}
    /\ status' = [status EXCEPT ![w] = final]
    /\ active' = active \ {w}
    /\ wrapper' = [wrapper EXCEPT ![w] = "publish"]
    /\ outcome' = [outcome EXCEPT ![w] = "none"]
    /\ attempt' = [attempt EXCEPT ![w] = 0]
    /\ UNCHANGED <<parent, consumed, bus, notify, turn, foreground, resume, run, stopping,
                   given, failures>>

\* The end of the wrapper: the slot is released, complete_task moves the
\* worker to the terminal tasks and publish begins.  complete_task runs
\* outside of the try: an illegal transition ends the wrapper with nothing
\* published, and the worker stays active.
Finish(w, final) ==
    /\ holds' = holds \ {w}
    /\ running' = IF w \in holds THEN running - 1 ELSE running
    /\ cancelled' = cancelled \ {w}
    /\ IF Allowed(status[w], final)
       THEN /\ status' = [status EXCEPT ![w] = final]
            /\ active' = active \ {w}
            /\ wrapper' = [wrapper EXCEPT ![w] = "publish"]
            /\ outcome' = [outcome EXCEPT ![w] = "none"]
       ELSE /\ wrapper' = [wrapper EXCEPT ![w] = "lost"]
            /\ UNCHANGED <<status, active, outcome>>
    /\ attempt' = [attempt EXCEPT ![w] = 0]
    /\ UNCHANGED <<parent, consumed, bus, notify, turn, foreground, resume, run, stopping,
                   given, failures>>

\* CancelledError reaches the wrapper where it awaits.  An expired wait_for
\* is still cancelling its task then, and the error wins.
Cancelled(w) ==
    /\ w \in cancelled
    /\ \/ wrapper[w] \in {"waiting", "attempt", "backoff"}
       \/ wrapper[w] = "ended" /\ outcome[w] = "timed_out"
    /\ Finish(w, "cancelled")

\* The wrapper resumes with the attempt's result.  A cancellation that comes
\* after the task ended is swallowed by wait_for (Python 3.11).
AttemptReturns(w) ==
    /\ wrapper[w] = "ended"
    /\ ~(w \in cancelled /\ outcome[w] = "timed_out")
    /\ ~(outcome[w] = "retry" /\ attempt[w] < MaxAttempts /\ status[w] = "running")
    /\ Finish(w, IF outcome[w] = "retry" THEN "failed" ELSE outcome[w])

\* Mutant: one attempt more than the policy allows.
BackOff_OneMore(w) ==
    /\ wrapper[w] = "ended" /\ outcome[w] = "retry"
    /\ attempt[w] <= MaxAttempts /\ status[w] = "running"
    /\ status' = [status EXCEPT ![w] = "retrying"]
    /\ wrapper' = [wrapper EXCEPT ![w] = "backoff"]
    /\ outcome' = [outcome EXCEPT ![w] = "none"]
    /\ UNCHANGED <<active, parent, consumed, holds, running, attempt, cancelled, bus, notify,
                   turn, foreground, resume, run, stopping, given, failures>>

\* A recoverable failure is retried after a pause; when the worker is being
\* cancelled the transition to "retrying" raises, which AttemptReturns reports as
\* a failed worker.
BackOff(w) ==
    /\ wrapper[w] = "ended" /\ outcome[w] = "retry"
    /\ attempt[w] < MaxAttempts /\ status[w] = "running"
    /\ status' = [status EXCEPT ![w] = "retrying"]
    /\ wrapper' = [wrapper EXCEPT ![w] = "backoff"]
    /\ outcome' = [outcome EXCEPT ![w] = "none"]
    /\ UNCHANGED <<active, parent, consumed, holds, running, attempt, cancelled, bus, notify,
                   turn, foreground, resume, run, stopping, given, failures>>

Retry(w) ==
    /\ wrapper[w] = "backoff" /\ w \notin cancelled
    /\ status' = [status EXCEPT ![w] = "running"]
    /\ wrapper' = [wrapper EXCEPT ![w] = "attempt"]
    /\ attempt' = [attempt EXCEPT ![w] = @ + 1]
    /\ UNCHANGED <<active, parent, consumed, holds, running, outcome, cancelled, bus,
                   notify, turn, foreground, resume, run, stopping, given, failures>>

(***************************************************************************)
(* WorkerEventBus                                                          *)
(***************************************************************************)

\* publish: queue.put finds room, and the subscribers are notified from a
\* task of their own.
Publish(w) ==
    /\ wrapper[w] = "publish"
    /\ Cardinality(queue) < QueueMax
    /\ queue' = queue \cup {w}
    /\ wrapper' = [wrapper EXCEPT ![w] = "done"]
    /\ notify' = TRUE
    /\ UNCHANGED <<tasks, attempt, outcome, cancelled, overflow, deferred, turn,
                   foreground, resume, run, stopping, given, failures>>

\* The put has waited publish_timeout_s; the event goes to the overflow when
\* the publisher runs again, whatever has become of the queue by then.
PublishTimesOut(w) ==
    /\ wrapper[w] = "publish"
    /\ Cardinality(queue) >= QueueMax
    /\ wrapper' = [wrapper EXCEPT ![w] = "overflow"]
    /\ UNCHANGED <<tasks, attempt, outcome, cancelled, bus, notify, turn, foreground,
                   resume, run, stopping, given, failures>>

Overflow(w) ==
    /\ wrapper[w] = "overflow"
    /\ overflow' = overflow \cup {w}
    /\ wrapper' = [wrapper EXCEPT ![w] = "done"]
    /\ notify' = TRUE
    /\ UNCHANGED <<tasks, attempt, outcome, cancelled, queue, deferred, turn,
                   foreground, resume, run, stopping, given, failures>>

\* _refill after e was taken from the queue.
Take(e) ==
    \E in \in SUBSET overflow :
        LET left == (queue \ {e}) \cup in
        IN  /\ Cardinality(left) <= QueueMax
            /\ in = overflow \/ Cardinality(left) = QueueMax
            /\ queue' = left
            /\ overflow' = overflow \ in

Bus == queue \cup overflow \cup deferred

\* notify_worker_event, run by the notifier task.
Notify ==
    /\ notify
    /\ notify' = FALSE
    /\ resume' = IF ~foreground /\ resume = "none" THEN "waiting" ELSE resume
    /\ UNCHANGED <<tasks, wrappers, bus, turn, foreground, run, stopping, given, failures>>

(***************************************************************************)
(* CoordinatorRuntime                                                      *)
(***************************************************************************)

\* submit_user_turn.  A turn that meets a foreground turn is injected into
\* it; any other one waits for the session lock.
Submit(t) ==
    /\ turn[t] = "new"
    /\ turn' = [turn EXCEPT ![t] = IF foreground THEN "injected" ELSE "waiting"]
    /\ UNCHANGED <<tasks, wrappers, bus, notify, foreground, resume, run, stopping, given,
                   failures>>

Begin(t) ==
    /\ turn[t] = "waiting" /\ run = Idle
    /\ turn' = [turn EXCEPT ![t] = "running"]
    /\ foreground' = TRUE
    /\ run' = [Idle EXCEPT !.kind = "foreground", !.pc = "invoke", !.turn = t]
    /\ UNCHANGED <<tasks, wrappers, bus, notify, resume, stopping, given, failures>>

\* The tools of an invocation: spawn_worker and TaskStop.
Spawn(w) ==
    /\ run.pc = "invoke" /\ status[w] = "none"
    /\ status' = [status EXCEPT ![w] = "pending"]
    /\ active' = active \cup {w}
    /\ parent' = [parent EXCEPT ![w] = run.turn]
    /\ wrapper' = [wrapper EXCEPT ![w] = "waiting"]
    /\ UNCHANGED <<consumed, holds, running, attempt, outcome, cancelled, bus, notify,
                   turn, foreground, resume, run, stopping, given, failures>>

TaskStop(w) ==
    /\ run.pc = "invoke" /\ w \in active
    /\ StopAll({w})
    /\ UNCHANGED <<active, parent, consumed, holds, running, wrapper, attempt, outcome,
                   bus, notify, turn, foreground, resume, run, stopping, given, failures>>

\* An invocation for turn t that is told the results of ws begins.
Give(ws, t) ==
    given' = [w \in Workers |-> IF w \in ws THEN [given[w] EXCEPT ![t] = @ + 1]
                                ELSE given[w]]

\* Mutant: a finished turn does not look at the bus.
EndForeground_NoNotify(t, end) ==
    /\ turn' = [turn EXCEPT ![t] = end]
    /\ foreground' = FALSE
    /\ run' = Idle
    /\ UNCHANGED resume

\* The finally clause of submit_user_turn, with the lock released.  The bus
\* is as it was before the step.
EndForeground(t, end) ==
    /\ turn' = [turn EXCEPT ![t] = end]
    /\ foreground' = FALSE
    /\ run' = Idle
    /\ resume' = IF Bus # {} /\ resume = "none" THEN "waiting" ELSE resume

\* Mutant: drain reads the deferred events and leaves them where they are.
ResumeLoop_KeepsDeferred(rest) ==
    LET batch == IF rest = {} THEN Bus ELSE rest
    IN  /\ IF rest = {} THEN queue' = {} /\ overflow' = {} /\ UNCHANGED deferred
           ELSE UNCHANGED bus
        /\ IF batch = {}
           THEN run' = Idle /\ resume' = "none" /\ UNCHANGED given
           ELSE \E t \in {parent[w] : w \in batch} :
                    LET mine == {w \in batch : parent[w] = t}
                    IN  /\ run' = [Idle EXCEPT !.kind = "resume", !.pc = "invoke",
                                                 !.turn = t, !.batch = batch \ mine]
                        /\ resume' = "running"
                        /\ Give(mine, t)

\* The loop of _resume_detached with the events rest still to be given: the
\* next turn's results, else another drain, else the end of the resume task.
ResumeLoop(rest) ==
    LET batch == IF rest = {} THEN Bus ELSE rest
    IN  /\ IF rest = {} THEN queue' = {} /\ overflow' = {} /\ deferred' = {}
           ELSE UNCHANGED bus
        /\ IF batch = {}
           THEN run' = Idle /\ resume' = "none" /\ UNCHANGED given
           ELSE \E t \in {parent[w] : w \in batch} :
                    LET mine == {w \in batch : parent[w] = t}
                    IN  /\ run' = [Idle EXCEPT !.kind = "resume", !.pc = "invoke",
                                                 !.turn = t, !.batch = batch \ mine]
                        /\ resume' = "running"
                        /\ Give(mine, t)

ResumeBegin ==
    /\ resume = "waiting" /\ run = Idle
    /\ ResumeLoop({})
    /\ UNCHANGED <<tasks, wrappers, notify, turn, foreground, stopping, failures>>

\* An invocation returns and _process_wait_plans looks for a plan: with one
\* the run waits at a barrier, else the turn or this part of the resume ends.
InvokeEnds ==
    /\ run.pc = "invoke"
    /\ UNCHANGED <<tasks, wrappers, notify, stopping, failures>>
    /\ \/ /\ WaitPlan(run.turn) # {}
          /\ run' = [run EXCEPT !.pc = "barrier", !.plan = WaitPlan(run.turn),
                                !.collected = {}]
          /\ UNCHANGED <<bus, turn, foreground, resume, given>>
       \/ /\ WaitPlan(run.turn) = {} /\ run.kind = "foreground"
          /\ EndForeground(run.turn, "done")
          /\ UNCHANGED <<bus, given>>
       \/ /\ WaitPlan(run.turn) = {} /\ run.kind = "resume"
          /\ ResumeLoop(run.batch)
          /\ UNCHANGED <<turn, foreground>>

\* An invocation raises.  A turn fails, in the finally clause that EndForeground
\* is; a resume dies with the rest of its batch (the except clause of
\* _resume_detached raises again) and leaves what arrived meanwhile in the bus.
InvokeFails ==
    /\ run.pc = "invoke" /\ failures < MaxFailures
    /\ failures' = failures + 1
    /\ UNCHANGED <<tasks, wrappers, bus, notify, stopping, given>>
    /\ \/ run.kind = "foreground" /\ EndForeground(run.turn, "failed")
       \/ /\ run.kind = "resume"
          /\ run' = Idle /\ resume' = "none"
          /\ UNCHANGED <<turn, foreground>>

Mine(ws) == {w \in ws : parent[w] = run.turn /\ w \in run.plan}
Satisfied == Cardinality(run.collected) >= Needed(run.plan)

\* Mutant: an event of another turn or plan is thrown away.
BarrierGet_DropsOthers ==
    /\ run.pc = "barrier" /\ ~Satisfied
    /\ \E e \in queue :
           /\ Take(e)
           /\ run' = [run EXCEPT !.collected = @ \cup Mine({e})]
    /\ UNCHANGED <<deferred, tasks, wrappers, notify, turn, foreground, resume, stopping,
                   given, failures>>

\* One event reaches get_for_turn: a deferred one of this barrier, else the
\* next of the queue, which is put aside when it is not for this barrier.
BarrierGet ==
    /\ run.pc = "barrier" /\ ~Satisfied
    /\ \/ \E e \in Mine(deferred) :
              /\ deferred' = deferred \ {e}
              /\ run' = [run EXCEPT !.collected = @ \cup {e}]
              /\ UNCHANGED <<queue, overflow>>
       \/ /\ Mine(deferred) = {}
          /\ \E e \in queue :
                 /\ Take(e)
                 /\ IF e \in Mine(queue)
                    THEN run' = [run EXCEPT !.collected = @ \cup {e}] /\ UNCHANGED deferred
                    ELSE deferred' = deferred \cup {e} /\ UNCHANGED run
    /\ UNCHANGED <<tasks, wrappers, notify, turn, foreground, resume, stopping, given,
                   failures>>

\* Mutant: mark_wait_consumed is left out.
BarrierDone_NotConsumed ==
    LET read == IF queue = {} THEN {} ELSE queue \cup overflow
        all == run.collected \cup Mine(deferred \cup read)
    IN  /\ run.pc = "barrier" /\ Satisfied
        /\ queue' = {}
        /\ overflow' = overflow \ read
        /\ deferred' = (deferred \cup read) \ Mine(deferred \cup read)
        /\ Give(all, run.turn)
        /\ run' = [run EXCEPT !.pc = "invoke", !.plan = {}, !.collected = {}]
        /\ UNCHANGED <<tasks, wrappers, notify, turn, foreground, resume, stopping, failures>>

\* The barrier is satisfied: drain_for_turn adds what is there already (it
\* reads the overflow only through a queue that is not empty), the plan is
\* consumed and the coordinator is invoked with the results.
BarrierDone ==
    LET read == IF queue = {} THEN {} ELSE queue \cup overflow
        all == run.collected \cup Mine(deferred \cup read)
    IN  /\ run.pc = "barrier" /\ Satisfied
        /\ queue' = {}
        /\ overflow' = overflow \ read
        /\ deferred' = (deferred \cup read) \ Mine(deferred \cup read)
        /\ consumed' = consumed \cup run.plan
        /\ Give(all, run.turn)
        /\ run' = [run EXCEPT !.pc = "invoke", !.plan = {}, !.collected = {}]
        /\ UNCHANGED <<status, active, parent, holds, running, wrappers, notify, turn,
                       foreground, resume, stopping, failures>>

\* Mutant: the workers the barrier misses run on.
BarrierTimesOut_NoStop ==
    /\ run.pc = "barrier" /\ ~Satisfied
    /\ consumed' = consumed \cup run.plan
    /\ Give(run.collected, run.turn)
    /\ run' = [run EXCEPT !.pc = "invoke", !.plan = {}, !.collected = {}]
    /\ UNCHANGED <<status, active, parent, holds, running, wrappers, bus, notify, turn,
                   foreground, resume, stopping, failures>>

\* Mutant: the plan of a barrier that timed out is not consumed.
BarrierTimesOut_NotConsumed ==
    /\ run.pc = "barrier" /\ ~Satisfied
    /\ StopAll(run.plan \ run.collected)
    /\ Give(run.collected, run.turn)
    /\ run' = [run EXCEPT !.pc = "invoke", !.plan = {}, !.collected = {}]
    /\ UNCHANGED <<active, parent, consumed, holds, running, wrapper, attempt, outcome, bus,
                   notify, turn, foreground, resume, stopping, failures>>

\* The barrier has waited timeout_s: the workers it still misses are stopped
\* and the coordinator is invoked with the results at hand.
BarrierTimesOut ==
    /\ run.pc = "barrier" /\ ~Satisfied
    /\ StopAll(run.plan \ run.collected)
    /\ consumed' = consumed \cup run.plan
    /\ Give(run.collected, run.turn)
    /\ run' = [run EXCEPT !.pc = "invoke", !.plan = {}, !.collected = {}]
    /\ UNCHANGED <<active, parent, holds, running, wrapper, attempt, outcome, bus, notify,
                   turn, foreground, resume, stopping, failures>>

\* The executor cancels the task of turn t (the user, the turn's deadline);
\* once it has unwound engine.cancel_turn stops the workers of t.  After a
\* deadline the code does the two side by side; the model keeps this order.
CancelTurn(t) ==
    /\ turn[t] \in {"waiting", "running"}
    /\ stopping' = stopping \cup {t}
    /\ IF turn[t] = "running" THEN EndForeground(t, "cancelled")
       ELSE /\ turn' = [turn EXCEPT ![t] = "cancelled"]
            /\ UNCHANGED <<foreground, resume, run>>
    /\ UNCHANGED <<tasks, wrappers, bus, notify, given, failures>>

StopWorkers(t) ==
    /\ t \in stopping
    /\ stopping' = stopping \ {t}
    /\ StopAll({w \in Workers : parent[w] = t})
    /\ UNCHANGED <<active, parent, consumed, holds, running, wrapper, attempt, outcome,
                   bus, notify, turn, foreground, resume, run, given, failures>>

----------------------------------------------------------------------------

Init ==
    /\ status = [w \in Workers |-> "none"]
    /\ active = {} /\ consumed = {} /\ holds = {} /\ running = 0
    /\ parent = [w \in Workers |-> None]
    /\ wrapper = [w \in Workers |-> "none"]
    /\ attempt = [w \in Workers |-> 0]
    /\ outcome = [w \in Workers |-> "none"]
    /\ cancelled = {}
    /\ queue = {} /\ overflow = {} /\ deferred = {} /\ notify = FALSE
    /\ turn = [t \in Turns |-> "new"]
    /\ foreground = FALSE /\ resume = "none" /\ run = Idle /\ stopping = {}
    /\ given = [w \in Workers |-> [t \in Turns |-> 0]]
    /\ failures = 0

WrapperStep(w) ==
    \/ Acquire(w) \/ AttemptEnds(w) \/ Cancelled(w) \/ AttemptReturns(w)
    \/ BackOff(w) \/ Retry(w)
    \/ Publish(w) \/ PublishTimesOut(w) \/ Overflow(w)

\* The free session lock goes to a waiting turn or to the resume task.
LockStep == ResumeBegin \/ \E t \in Turns : Begin(t)

\* A step of the run that holds the session lock.
RunStep == InvokeEnds \/ BarrierGet \/ BarrierDone \/ BarrierTimesOut

Next ==
    \/ \E w \in Workers : WrapperStep(w) \/ Spawn(w) \/ TaskStop(w)
    \/ \E t \in Turns : Submit(t) \/ CancelTurn(t) \/ StopWorkers(t)
    \/ Notify \/ LockStep \/ RunStep \/ InvokeFails

Spec == Init /\ [][Next]_vars

(***************************************************************************)
(* Fairness: the event loop runs every task that is ready, an attempt is   *)
(* bounded by max_duration_s, a barrier by timeout_s, a put by             *)
(* publish_timeout_s, and an invocation by the budgets of the agent loop.  *)
(* Nobody has to submit, spawn, stop or cancel anything.                   *)
(***************************************************************************)
FairSpec ==
    /\ Spec
    /\ \A w \in Workers : WF_vars(WrapperStep(w))
    /\ WF_vars(\E t \in Turns : StopWorkers(t))
    /\ WF_vars(Notify) /\ WF_vars(LockStep) /\ WF_vars(RunStep)

----------------------------------------------------------------------------
(***************************************************************************)
(* Properties                                                              *)
(***************************************************************************)

\* Every variable of the coordinator, the task manager and the bus has its
\* type, and the bus keeps the capacity of its queue.
TypeOK ==
    /\ status \in [Workers -> Lifecycle]
    /\ active \subseteq Workers /\ consumed \subseteq Workers /\ holds \subseteq Workers
    /\ running \in Int
    /\ parent \in [Workers -> Turns \cup {None}]
    /\ wrapper \in [Workers -> {"none", "waiting", "attempt", "ended", "backoff", "publish",
                                "overflow", "done", "lost"}]
    /\ attempt \in [Workers -> 0 .. MaxAttempts]
    /\ outcome \in [Workers -> {"none", "completed", "failed", "retry", "timed_out"}]
    /\ cancelled \subseteq Workers
    /\ queue \subseteq Workers /\ overflow \subseteq Workers /\ deferred \subseteq Workers
    /\ Cardinality(queue) <= QueueMax
    /\ notify \in BOOLEAN
    /\ turn \in [Turns -> {"new", "injected", "waiting", "running", "done", "failed",
                           "cancelled"}]
    /\ foreground \in BOOLEAN
    /\ resume \in {"none", "waiting", "running"}
    /\ run \in [kind : {"none", "foreground", "resume"}, pc : {"none", "invoke", "barrier"},
                turn : Turns \cup {None}, plan : SUBSET Workers,
                collected : SUBSET Workers, batch : SUBSET Workers]
    /\ stopping \subseteq Turns
    /\ given \in [Workers -> [Turns -> Nat]]
    /\ failures \in 0 .. MaxFailures

\* The coordinator is told a worker's result at most once, in an invocation
\* of the turn that spawned the worker, and never while the bus or a run still
\* holds the event: publish, get_for_turn, drain_for_turn and drain move an
\* event, they never copy one.
DeliveredOnce ==
    \A w \in Workers : \A t \in Turns :
        given[w][t] <= IF t = parent[w] /\ w \notin Bus \cup run.collected \cup run.batch
                       THEN 1 ELSE 0

\* A published result stays in the bus or in a run until the coordinator is
\* told of it; only a failing invocation or a cancelled turn loses one.
NoResultLost ==
    \A w \in Workers :
        wrapper[w] = "done" =>
            \/ w \in Bus \cup run.collected \cup run.batch
            \/ given[w][parent[w]] = 1
            \/ failures > 0
            \/ turn[parent[w]] = "cancelled"

\* The session's running count is the number of workers that hold a slot,
\* within the limit, whoever was stopped while it waited, ran or backed off;
\* a wrapper that ended holds none.
SlotsAreCounted ==
    /\ running = Cardinality(holds) /\ running <= Slots
    /\ \A w \in holds : wrapper[w] \in {"attempt", "ended", "backoff"}

\* What the docstring of _background_task_wrapper promises, "Own the complete
\* Worker lifecycle and publish exactly one terminal result": once the wrapper
\* has ended, its worker has a terminal status, has left the active tasks and
\* its result was published (DeliveredOnce: not twice).  The code breaks it,
\* which run coordinator_lost_result shows.
OneTerminalResult ==
    \A w \in Workers :
        wrapper[w] \in {"done", "lost"} =>
            status[w] \in Terminal /\ w \notin active /\ wrapper[w] = "done"

\* When OneTerminalResult fails: only for a worker whose attempt completed as
\* it was being stopped (wait_for swallows the cancellation, and complete_task,
\* which is outside of the wrapper's try, refuses to turn "cancelling" into
\* "completed").  Failed, timed out, retried and cancelled workers, stopped or
\* not, all publish.
LostOnlyWhenStopped ==
    \A w \in Workers :
        wrapper[w] = "lost" => status[w] = "cancelling" /\ outcome[w] = "completed"

\* A user turn never waits at a barrier for a result the coordinator was
\* told of before.
ForegroundWaitIsNeeded ==
    run.pc = "barrier" /\ run.kind = "foreground" =>
        \A w \in run.plan \ run.collected : given[w][run.turn] = 0

\* When a user turn is done none of the workers it had to wait for runs on
\* unnoticed: each has reached its end, or was stopped by the barrier.
JoinedIsAnswered ==
    [][\A t \in Turns : \A w \in active :
          turn[t] = "running" /\ turn'[t] = "done" =>
              (parent[w] = t /\ Join[w] /\ WaitMode[w] = "all" => status[w] = "cancelling")]_vars

\* A result in the bus is taken out of it: no order of publish, notify, lock
\* hand-over and the end of a foreground turn strands one, unless an
\* invocation failed.
PendingIsConsumed ==
    \A w \in Workers : w \in Bus ~> w \notin Bus \/ failures > 0

\* A submitted turn ends, whatever its workers do: barriers time out even for
\* a result that never comes, and the detached resume gives the lock back.
EveryTurnEnds ==
    \A t \in Turns : turn[t] \in {"waiting", "running"} ~>
        turn[t] \in {"done", "failed", "cancelled"}

=============================================================================

---------------------------- MODULE TurnDelivery ----------------------------
(***************************************************************************)
(* Delivery and execution of turns in the Redis deployment.  The gateway   *)
(* writes a turn and its outbox row to MySQL; the relay of a worker copies *)
(* outbox rows to the Redis stream; the consumer loop of a worker takes a  *)
(* delivery and claims the turn under a lease and a claim generation; an   *)
(* execution task runs it and writes its result and events fenced by that  *)
(* generation.  Cancellation, lost leases, redelivery, crashes and writes  *)
(* that outlive the task that started them are interleaved here.           *)
(*                                                                         *)
(* One action is one MySQL transaction, one Redis command or one decision  *)
(* of an event loop.                                                       *)
(***************************************************************************)
EXTENDS Integers, Sequences

CONSTANTS
    Turns,        \* turns submitted to one session
    Workers,      \* worker processes
    Cancellable,  \* the turns their user may cancel
    MaxRetries,   \* max_retries of recover_stuck_turns
    MaxGen,       \* bound on claim_generation
    FaultKinds,   \* which faults of the environment may happen
    MaxFaults,    \* bound on their number
    NoWorker,     \* claimed_by IS NULL
    NoTurn        \* a consumer loop that holds no delivery

Faults == {"crash", "database", "stall", "redis", "relay", "authorization"}

ASSUME DeliveryAssumption ==
    /\ MaxRetries \in Nat /\ MaxGen \in Nat /\ MaxFaults \in Nat
    /\ 2 * MaxRetries <= MaxGen
    /\ Cancellable \subseteq Turns
    /\ NoWorker \notin Workers
    /\ NoTurn \notin Turns
    /\ FaultKinds \subseteq Faults

VARIABLES
    status,      \* nlp_turns.status
    gen,         \* nlp_turns.claim_generation
    owner,       \* nlp_turns.claimed_by
    lease,       \* nlp_turns.lease_expires_at: NULL, in the future, past
    cancelReq,   \* the turn has a row in nlp_turn_cancellations
    log,         \* nlp_turn_events, in sequence order
    outbox,      \* number of pending turn.dispatch rows
    stream,      \* the turn's entries in the Redis stream
    cancelKey,   \* the Redis cancel key is set
    authorized,  \* the submitter's authorization_version is unchanged
    submitPc,    \* progress of BackendGateway.submit_turn
    cancelPc,    \* progress of BackendGateway.cancel_turn
    loop,        \* the consumer loop of each worker
    task,        \* where the execution task of each claim of a turn is
    runner,      \* the worker that runs it
    late,        \* its repository calls that go on without it
    relayUp,     \* the relay task of a worker is alive
    faults       \* number of faults so far

rowVars     == <<status, gen, owner, lease>>
gatewayVars == <<submitPc, cancelPc>>
redisVars   == <<outbox, stream, cancelKey>>
execVars    == <<task, runner, late>>
vars == <<rowVars, cancelReq, log, redisVars, authorized, gatewayVars,
          loop, execVars, relayUp, faults>>

Gens       == 0..MaxGen
Active     == {"accepted", "running"}
Final      == {"completed", "failed", "cancelled"}
Statuses   == {"absent"} \union Active \union Final
EndTypes   == {"message", "completed", "failed", "cancelled"}
EventTypes == {"accepted", "started", "handover"} \union EndTypes
Event      == [type : EventTypes, gen : Gens]
Delivery   == {"new", "pending", "acked"}

LoopPcs == {"idle", "key", "term", "key2", "claim", "wait", "kill", "killCancel",
            "drain", "cpRead", "ensure", "append", "ack"}
Loop == [pc : LoopPcs, turn : Turns \union {NoTurn}, msg : Nat, gen : Gens,
         todo : Seq(EndTypes)]
Idle == [pc |-> "idle", turn |-> NoTurn, msg |-> 0, gen |-> 0, todo |-> <<>>]

\* Steps of an execution task that are one repository call in a thread.  The
\* thread finishes its call even when the task that awaits it is cancelled.
Writes  == {"run", "start", "complete", "fail", "emitMessage", "emitCompleted",
            "emitFailed", "cancel", "ensureCancelled", "appendCancelled"}
TaskPcs == Writes \union {"none", "engine", "ok", "error", "gone"}

TypeOK ==
    /\ status \in [Turns -> Statuses]
    /\ gen \in [Turns -> Gens]
    /\ owner \in [Turns -> Workers \union {NoWorker}]
    /\ lease \in [Turns -> {"none", "live", "expired"}]
    /\ cancelReq \in [Turns -> BOOLEAN]
    /\ log \in [Turns -> Seq(Event)]
    /\ outbox \in [Turns -> Nat]
    /\ stream \in [Turns -> Seq(Delivery)]
    /\ cancelKey \in [Turns -> BOOLEAN]
    /\ authorized \in [Turns -> BOOLEAN]
    /\ submitPc \in [Turns -> {"none", "emit", "done"}]
    /\ cancelPc \in [Turns -> {"none", "request", "ensure", "append", "signal", "done"}]
    /\ loop \in [Workers -> Loop]
    /\ task \in [Turns -> [Gens -> TaskPcs]]
    /\ runner \in [Turns -> [Gens -> Workers \union {NoWorker}]]
    /\ late \in [Turns -> [Gens -> SUBSET Writes]]
    /\ relayUp \in [Workers -> BOOLEAN]
    /\ faults \in 0..MaxFaults

Init ==
    /\ status = [t \in Turns |-> "absent"]
    /\ gen = [t \in Turns |-> 0]
    /\ owner = [t \in Turns |-> NoWorker]
    /\ lease = [t \in Turns |-> "none"]
    /\ cancelReq = [t \in Turns |-> FALSE]
    /\ log = [t \in Turns |-> <<>>]
    /\ outbox = [t \in Turns |-> 0]
    /\ stream = [t \in Turns |-> <<>>]
    /\ cancelKey = [t \in Turns |-> FALSE]
    /\ authorized = [t \in Turns |-> TRUE]
    /\ submitPc = [t \in Turns |-> "none"]
    /\ cancelPc = [t \in Turns |-> "none"]
    /\ loop = [w \in Workers |-> Idle]
    /\ task = [t \in Turns |-> [g \in Gens |-> "none"]]
    /\ runner = [t \in Turns |-> [g \in Gens |-> NoWorker]]
    /\ late = [t \in Turns |-> [g \in Gens |-> {}]]
    /\ relayUp = [w \in Workers |-> TRUE]
    /\ faults = 0

-----------------------------------------------------------------------------
\* Mutant: the terminal status is not looked at.
Updated_Overwrites(old, new) == new

\* update_turn: a terminal status is preserved, any other is overwritten.
Updated(old, new) == IF old \in Final THEN old ELSE new

\* append_event stamps an event with the row's current generation.
Appended(t, type) == [log EXCEPT ![t] = Append(@, [type |-> type, gen |-> gen[t]])]

\* The read half of ensure_event.
Logged(t, type) == \E i \in 1..Len(log[t]) : log[t][i].type = type

Fault(kind) ==
    /\ kind \in FaultKinds
    /\ faults < MaxFaults
    /\ faults' = faults + 1

GoTo(w, label) == loop' = [loop EXCEPT ![w].pc = label]

\* The iteration ends without an ACK; the entry stays pending.
Abandon(w) == loop' = [loop EXCEPT ![w] = Idle]

-----------------------------------------------------------------------------
(* Gateway *)

\* create_turn: the row and its outbox row in one transaction.
SubmitTurn(t) ==
    /\ status[t] = "absent"
    /\ \A u \in Turns : status[u] \notin Active
    /\ status' = [status EXCEPT ![t] = "accepted"]
    /\ outbox' = [outbox EXCEPT ![t] = @ + 1]
    /\ submitPc' = [submitPc EXCEPT ![t] = "emit"]
    /\ UNCHANGED <<gen, owner, lease, cancelReq, log, stream, cancelKey,
                   authorized, cancelPc, loop, execVars, relayUp, faults>>

\* The turn.accepted event is a transaction of its own, after the commit.
EmitAccepted(t) ==
    /\ submitPc[t] = "emit"
    /\ log' = Appended(t, "accepted")
    /\ submitPc' = [submitPc EXCEPT ![t] = "done"]
    /\ UNCHANGED <<rowVars, cancelReq, redisVars, authorized, cancelPc, loop,
                   execVars, relayUp, faults>>

\* cancel_turn reads the status first and decides on that read.
CancelTurn(t) ==
    /\ t \in Cancellable
    /\ cancelPc[t] = "none"
    /\ status[t] \in Active
    /\ cancelPc' = [cancelPc EXCEPT ![t] = "request"]
    /\ UNCHANGED <<rowVars, cancelReq, log, redisVars, authorized, submitPc,
                   loop, execVars, relayUp, faults>>

\* request_turn_cancellation: owner and lease stay as they are.
RequestCancellation(t) ==
    /\ cancelPc[t] = "request"
    /\ cancelReq' = [cancelReq EXCEPT ![t] = TRUE]
    /\ status' = [status EXCEPT ![t] = Updated(@, "cancelled")]
    /\ cancelPc' = [cancelPc EXCEPT ![t] = "ensure"]
    /\ UNCHANGED <<gen, owner, lease, log, redisVars, authorized, submitPc,
                   loop, execVars, relayUp, faults>>

\* ensure_event reads the log in one transaction ...
CancelEnsures(t) ==
    /\ cancelPc[t] = "ensure"
    /\ cancelPc' = [cancelPc EXCEPT ![t] = IF Logged(t, "cancelled") THEN "signal" ELSE "append"]
    /\ UNCHANGED <<rowVars, cancelReq, log, redisVars, authorized, submitPc,
                   loop, execVars, relayUp, faults>>

\* ... and appends in another one, whatever the turn's status is.
CancelAppends(t) ==
    /\ cancelPc[t] = "append"
    /\ log' = Appended(t, "cancelled")
    /\ cancelPc' = [cancelPc EXCEPT ![t] = "signal"]
    /\ UNCHANGED <<rowVars, cancelReq, redisVars, authorized, submitPc, loop,
                   execVars, relayUp, faults>>

\* dispatcher.cancel sets the key, then publishes.  Its failure is swallowed.
CancelSignals(t) ==
    /\ cancelPc[t] = "signal"
    /\ cancelPc' = [cancelPc EXCEPT ![t] = "done"]
    /\ \/ cancelKey' = [cancelKey EXCEPT ![t] = TRUE] /\ UNCHANGED faults
       \/ Fault("redis") /\ UNCHANGED cancelKey
    /\ UNCHANGED <<rowVars, cancelReq, log, outbox, stream, authorized,
                   submitPc, loop, execVars, relayUp>>

\* The web process dies: the requests it was serving stop where they are.
GatewayCrash ==
    /\ Fault("crash")
    /\ \E t \in Turns : submitPc[t] = "emit" \/ cancelPc[t] \notin {"none", "done"}
    /\ submitPc' = [t \in Turns |-> IF submitPc[t] = "emit" THEN "done" ELSE submitPc[t]]
    /\ cancelPc' = [t \in Turns |-> IF cancelPc[t] = "none" THEN "none" ELSE "done"]
    /\ UNCHANGED <<rowVars, cancelReq, log, redisVars, authorized, loop, execVars, relayUp>>

-----------------------------------------------------------------------------
(* Recovery and relay: one transaction of relay_forever *)

\* Mutant: the query forgets status = 'running'.
Stuck_AnyStatus(t) == lease[t] = "expired" \/ (owner[t] = NoWorker /\ lease[t] = "none")

Stuck(t) ==
    /\ status[t] = "running"
    /\ \/ lease[t] = "expired"
       \/ owner[t] = NoWorker /\ lease[t] = "none"

Retried(t) == Stuck(t) /\ gen[t] < 2 * MaxRetries

\* Mutant: recovery resets the row and enqueues nothing.
Due_NoRecoveryRow(t) == outbox[t]

\* Outbox rows publish_batch finds: the pending ones and the one recovery adds.
Due(t) == outbox[t] + (IF Retried(t) THEN 1 ELSE 0)

Published(t) == stream[t] \o [i \in 1..Due(t) |-> "new"]

RelayPass(w) ==
    /\ relayUp[w]
    /\ \E t \in Turns : Stuck(t) \/ outbox[t] > 0
    /\ status' = [t \in Turns |-> IF Retried(t) THEN "accepted"
                                  ELSE IF Stuck(t) THEN "failed" ELSE status[t]]
    /\ gen' = [t \in Turns |-> IF Retried(t) THEN gen[t] + 1 ELSE gen[t]]
    /\ owner' = [t \in Turns |-> IF Stuck(t) THEN NoWorker ELSE owner[t]]
    /\ lease' = [t \in Turns |-> IF Stuck(t) THEN "none" ELSE lease[t]]
    /\ log' = [t \in Turns |->
                 IF Retried(t) THEN Append(log[t], [type |-> "handover", gen |-> gen[t] + 1])
                 ELSE log[t]]
    /\ stream' = [t \in Turns |-> Published(t)]
    /\ outbox' = [t \in Turns |-> 0]
    /\ UNCHANGED <<cancelReq, cancelKey, authorized, gatewayVars, loop, execVars,
                   relayUp, faults>>

\* An error in the pass: what was XADDed stays, the transaction is rolled back
\* and nothing catches the exception, so this relay is gone until a restart.
RelayFails(w) ==
    /\ relayUp[w]
    /\ Fault("relay")
    /\ \E sent \in SUBSET Turns :
          stream' = [t \in Turns |-> IF t \in sent THEN Published(t) ELSE stream[t]]
    /\ relayUp' = [relayUp EXCEPT ![w] = FALSE]
    /\ UNCHANGED <<rowVars, cancelReq, log, outbox, cancelKey, authorized,
                   gatewayVars, loop, execVars>>

-----------------------------------------------------------------------------
(* Consumer loop of a worker: run_once *)

Take(w, t, i) ==
    /\ stream' = [stream EXCEPT ![t][i] = "pending"]
    /\ loop' = [loop EXCEPT ![w] = [Idle EXCEPT !.pc = "key", !.turn = t, !.msg = i]]

Busy(t, i) == \E w \in Workers : loop[w].turn = t /\ loop[w].msg = i

\* XREADGROUP ">": the entries of a turn are handed out in order.
Receive(w) ==
    /\ loop[w].pc = "idle"
    /\ \E t \in Turns : \E i \in DOMAIN stream[t] :
          /\ stream[t][i] = "new"
          /\ \A j \in DOMAIN stream[t] : j < i => stream[t][j] # "new"
          /\ Take(w, t, i)
    /\ UNCHANGED <<rowVars, cancelReq, log, outbox, cancelKey, authorized,
                   gatewayVars, execVars, relayUp, faults>>

\* XAUTOCLAIM of an entry whose consumer is gone.
Reclaim(w) ==
    /\ loop[w].pc = "idle"
    /\ \E t \in Turns : \E i \in DOMAIN stream[t] :
          /\ stream[t][i] = "pending"
          /\ ~Busy(t, i)
          /\ Take(w, t, i)
    /\ UNCHANGED <<rowVars, cancelReq, log, outbox, cancelKey, authorized,
                   gatewayVars, execVars, relayUp, faults>>

\* XAUTOCLAIM of an entry another worker handles: its XCLAIM heartbeats failed
\* for longer than redis_reclaim_idle_ms.
ReclaimBusy(w) ==
    /\ Fault("redis")
    /\ loop[w].pc = "idle"
    /\ \E t \in Turns : \E i \in DOMAIN stream[t] :
          /\ stream[t][i] = "pending"
          /\ Busy(t, i)
          /\ Take(w, t, i)
    /\ UNCHANGED <<rowVars, cancelReq, log, outbox, cancelKey, authorized,
                   gatewayVars, execVars, relayUp>>

CheckCancelKey(w) ==
    /\ loop[w].pc = "key"
    /\ GoTo(w, IF cancelKey[loop[w].turn] THEN "cpRead" ELSE "term")
    /\ UNCHANGED <<rowVars, cancelReq, log, redisVars, authorized, gatewayVars,
                   execVars, relayUp, faults>>

\* Mutant: only completed turns are repaired.
Repairs_CompletedOnly(s) == IF s = "completed" THEN <<"message", "completed">> ELSE <<>>

\* Events is_terminal repairs for a status; a cancelled turn is not terminal
\* for it and goes on to the claim.
Repairs(s) == CASE s = "completed" -> <<"message", "completed">>
                [] s = "failed"    -> <<"failed">>
                [] OTHER           -> <<>>

CheckTerminal(w) ==
    LET s == status[loop[w].turn] IN
    /\ loop[w].pc = "term"
    /\ loop' = [loop EXCEPT ![w].pc = IF Repairs(s) = <<>> THEN "key2" ELSE "ensure",
                            ![w].todo = Repairs(s)]
    /\ UNCHANGED <<rowVars, cancelReq, log, redisVars, authorized, gatewayVars,
                   execVars, relayUp, faults>>

\* The second look at the key, with the execution still behind its start gate.
CheckCancelKeyAgain(w) ==
    /\ loop[w].pc = "key2"
    /\ GoTo(w, IF cancelKey[loop[w].turn] THEN "cpRead" ELSE "claim")
    /\ UNCHANGED <<rowVars, cancelReq, log, redisVars, authorized, gatewayVars,
                   execVars, relayUp, faults>>

\* claim_turn finds a cancellation request: the loop finalizes it.
ClaimCancelled(w) ==
    LET t == loop[w].turn IN
    /\ loop[w].pc = "claim"
    /\ cancelReq[t]
    /\ status' = [status EXCEPT ![t] = Updated(@, "cancelled")]
    /\ owner' = [owner EXCEPT ![t] = IF status[t] \in Active THEN NoWorker ELSE @]
    /\ lease' = [lease EXCEPT ![t] = IF status[t] \in Active THEN "none" ELSE @]
    /\ GoTo(w, "cpRead")
    /\ UNCHANGED <<gen, cancelReq, log, redisVars, authorized, gatewayVars,
                   execVars, relayUp, faults>>

\* Mutant: a recovered turn is not taken for a fresh one.
Claimable_FirstOnly(t) ==
    /\ ~cancelReq[t]
    /\ \/ status[t] = "accepted" /\ gen[t] = 0
       \/ status[t] = "running" /\ lease[t] = "expired"

Claimable(t) ==
    /\ ~cancelReq[t]
    /\ status[t] = "accepted" \/ (status[t] = "running" /\ lease[t] = "expired")

\* claim_turn returns None: nothing to run, and the delivery is ACKed.
ClaimNone(w) ==
    LET t == loop[w].turn IN
    /\ loop[w].pc = "claim"
    /\ ~cancelReq[t] /\ ~Claimable(t)
    /\ GoTo(w, "ack")
    /\ UNCHANGED <<rowVars, cancelReq, log, redisVars, authorized, gatewayVars,
                   execVars, relayUp, faults>>

\* The claim would succeed but the submitter lost the permission: rollback.
ClaimForbidden(w) ==
    /\ loop[w].pc = "claim"
    /\ Claimable(loop[w].turn)
    /\ ~authorized[loop[w].turn]
    /\ Abandon(w)
    /\ UNCHANGED <<rowVars, cancelReq, log, redisVars, authorized, gatewayVars,
                   execVars, relayUp, faults>>

\* Mutant: the claim sets no lease.
ClaimRow_NoLease(t, w) ==
    /\ status' = [status EXCEPT ![t] = "running"]
    /\ gen' = [gen EXCEPT ![t] = @ + 1]
    /\ owner' = [owner EXCEPT ![t] = w]
    /\ UNCHANGED lease

\* What a successful claim_turn writes to the row.
ClaimRow(t, w) ==
    /\ status' = [status EXCEPT ![t] = "running"]
    /\ gen' = [gen EXCEPT ![t] = @ + 1]
    /\ owner' = [owner EXCEPT ![t] = w]
    /\ lease' = [lease EXCEPT ![t] = "live"]

ClaimTurn(w) ==
    LET t == loop[w].turn
        g == gen[t] + 1
    IN
    /\ loop[w].pc = "claim"
    /\ Claimable(t)
    /\ authorized[t]
    /\ gen[t] < MaxGen
    /\ ClaimRow(t, w)
    /\ loop' = [loop EXCEPT ![w].pc = "wait", ![w].gen = g]
    /\ task' = [task EXCEPT ![t][g] = "run"]
    /\ runner' = [runner EXCEPT ![t][g] = w]
    /\ UNCHANGED <<cancelReq, log, redisVars, authorized, gatewayVars, late,
                   relayUp, faults>>

\* The execution returned: ACK.  It raised: the entry stays pending.
ExecutionEnds(w) ==
    LET l == loop[w]
        end == task[l.turn][l.gen]
    IN
    /\ l.pc = "wait"
    /\ \/ end = "ok" /\ GoTo(w, "ack")
       \/ end = "error" /\ Abandon(w)
    /\ UNCHANGED <<rowVars, cancelReq, log, redisVars, authorized, gatewayVars,
                   execVars, relayUp, faults>>

\* The lease heartbeat of FencedTurnExecutor: renewal, lost claim, or a
\* cancellation request, which overwrites whatever status the row has.
LeaseHeartbeat(w) ==
    LET t == loop[w].turn IN
    /\ loop[w].pc = "wait"
    /\ \/ /\ gen[t] # loop[w].gen \/ owner[t] # w
          /\ GoTo(w, "kill")
          /\ UNCHANGED <<status, owner, lease>>
       \/ /\ gen[t] = loop[w].gen /\ owner[t] = w /\ cancelReq[t]
          /\ status' = [status EXCEPT ![t] = "cancelled"]
          /\ owner' = [owner EXCEPT ![t] = NoWorker]
          /\ lease' = [lease EXCEPT ![t] = "none"]
          /\ GoTo(w, "killCancel")
       \/ /\ gen[t] = loop[w].gen /\ owner[t] = w /\ ~cancelReq[t]
          /\ lease[t] = "expired"
          /\ lease' = [lease EXCEPT ![t] = "live"]
          /\ UNCHANGED <<status, owner, loop>>
    /\ UNCHANGED <<gen, cancelReq, log, redisVars, authorized, gatewayVars,
                   execVars, relayUp, faults>>

\* Any database error in the heartbeat ends the heartbeat task with it.
HeartbeatFails(w) ==
    /\ Fault("database")
    /\ loop[w].pc = "wait"
    /\ GoTo(w, "kill")
    /\ UNCHANGED <<rowVars, cancelReq, log, redisVars, authorized, gatewayVars,
                   execVars, relayUp>>

\* cancel_active, on a control message or on a Redis heartbeat that sees the key.
CancelActive(w) ==
    /\ loop[w].pc = "wait"
    /\ cancelKey[loop[w].turn]
    /\ GoTo(w, "killCancel")
    /\ UNCHANGED <<rowVars, cancelReq, log, redisVars, authorized, gatewayVars,
                   execVars, relayUp, faults>>

\* What execution.cancel() does to a task: inside the try of run() the
\* CancelledError handler takes over, elsewhere the task ends.  (So it does, by
\* abstraction, while run() reports that its result came too late: the row is
\* terminal then and the handler's write would leave it as it is.)
Cancelled(p) == CASE p \in {"engine", "complete"} -> "cancel"
                  [] p \in Writes \ {"complete"}  -> "gone"
                  [] OTHER                        -> p

\* The repository call the task was in is still made if its thread has
\* started, dropped if not.  (A late update to "running" changes nothing.)
CancelExecution(w) ==
    LET l == loop[w]
        p == task[l.turn][l.gen]
    IN
    /\ l.pc \in {"kill", "killCancel"}
    /\ task' = [task EXCEPT ![l.turn][l.gen] = Cancelled(p)]
    /\ \E call \in SUBSET ({p} \intersect (Writes \ {"run"})) :
          late' = [late EXCEPT ![l.turn][l.gen] = @ \union call]
    /\ IF l.pc = "kill" THEN Abandon(w) ELSE GoTo(w, "drain")
    /\ UNCHANGED <<rowVars, cancelReq, log, redisVars, authorized, gatewayVars,
                   runner, relayUp, faults>>

\* The drain ends with the execution or after its timeout; an error of the
\* execution replaces the cancellation.
Drain(w) ==
    LET l == loop[w] IN
    /\ l.pc = "drain"
    /\ IF task[l.turn][l.gen] = "error" THEN Abandon(w) ELSE GoTo(w, "cpRead")
    /\ UNCHANGED <<rowVars, cancelReq, log, redisVars, authorized, gatewayVars,
                   execVars, relayUp, faults>>

\* cancel_pending: nothing to do for a turn that finished first.  The read and
\* the update after it are one step: a cancellation is in the row before any
\* worker hears of it, so a status that is read here is terminal already.
CancelPending(w) ==
    LET t == loop[w].turn
        finished == status[t] \in {"completed", "failed"}
    IN
    /\ loop[w].pc = "cpRead"
    /\ status' = [status EXCEPT ![t] = Updated(@, "cancelled")]
    /\ loop' = [loop EXCEPT ![w].pc = IF finished THEN "ack" ELSE "ensure",
                            ![w].todo = IF finished THEN <<>> ELSE <<"cancelled">>]
    /\ UNCHANGED <<gen, owner, lease, cancelReq, log, redisVars, authorized,
                   gatewayVars, execVars, relayUp, faults>>

\* Mutant: a finished turn is skipped without an ACK.
EnsureReads_NoAck(w) ==
    LET l == loop[w] IN
    /\ l.pc = "ensure"
    /\ IF l.todo = <<>> THEN Abandon(w)
       ELSE IF Logged(l.turn, Head(l.todo)) THEN loop' = [loop EXCEPT ![w].todo = Tail(@)]
       ELSE GoTo(w, "append")
    /\ UNCHANGED <<rowVars, cancelReq, log, redisVars, authorized, gatewayVars,
                   execVars, relayUp, faults>>

EnsureReads(w) ==
    LET l == loop[w] IN
    /\ l.pc = "ensure"
    /\ IF l.todo = <<>> THEN GoTo(w, "ack")
       ELSE IF Logged(l.turn, Head(l.todo)) THEN loop' = [loop EXCEPT ![w].todo = Tail(@)]
       ELSE GoTo(w, "append")
    /\ UNCHANGED <<rowVars, cancelReq, log, redisVars, authorized, gatewayVars,
                   execVars, relayUp, faults>>

EnsureAppends(w) ==
    LET l == loop[w] IN
    /\ l.pc = "append"
    /\ log' = Appended(l.turn, Head(l.todo))
    /\ loop' = [loop EXCEPT ![w].pc = "ensure", ![w].todo = Tail(@)]
    /\ UNCHANGED <<rowVars, cancelReq, redisVars, authorized, gatewayVars,
                   execVars, relayUp, faults>>

Ack(w) ==
    LET l == loop[w] IN
    /\ l.pc = "ack"
    /\ stream' = [stream EXCEPT ![l.turn][l.msg] = "acked"]
    /\ Abandon(w)
    /\ UNCHANGED <<rowVars, cancelReq, log, outbox, cancelKey, authorized,
                   gatewayVars, execVars, relayUp, faults>>

\* A Redis or MySQL error in the iteration: run_forever logs it and goes on.
IterationFails(w) ==
    /\ Fault("database")
    /\ loop[w].pc \in {"key", "term", "key2", "claim", "cpRead", "ensure",
                       "append", "ack"}
    /\ Abandon(w)
    /\ UNCHANGED <<rowVars, cancelReq, log, redisVars, authorized, gatewayVars,
                   execVars, relayUp>>

-----------------------------------------------------------------------------
(* Execution task of claim g of turn t: InProcessTurnExecutor.run *)

\* Mutant: a status that is not a TurnStatus.
Target_Typo == [run |-> "running", complete |-> "complete", fail |-> "failed",
                cancel |-> "cancelled"]

\* The status update_turn aims at, and the event append_event writes.
Target == [run |-> "running", complete |-> "completed", fail |-> "failed",
           cancel |-> "cancelled"]
Emits  == [start |-> "started", emitMessage |-> "message", emitCompleted |-> "completed",
           emitFailed |-> "failed", appendCancelled |-> "cancelled"]

\* Mutant: expected_claim_generation is not passed on.
FencedWrite_Unfenced(t, g, write) ==
    /\ status' = IF write \in DOMAIN Target
                 THEN [status EXCEPT ![t] = Updated(@, Target[write])] ELSE status
    /\ log' = IF write \in DOMAIN Emits THEN Appended(t, Emits[write]) ELSE log

\* The MySQL side of a repository call: nothing at all when the fence fails.
FencedWrite(t, g, write) ==
    /\ status' = IF gen[t] = g /\ write \in DOMAIN Target
                 THEN [status EXCEPT ![t] = Updated(@, Target[write])] ELSE status
    /\ log' = IF gen[t] = g /\ write \in DOMAIN Emits THEN Appended(t, Emits[write]) ELSE log

\* Where _emit_terminal_for_state goes for the status update_turn returned.
TerminalStep(s) == CASE s = "completed" -> "emitMessage"
                     [] s = "failed"    -> "emitFailed"
                     [] OTHER           -> "ensureCancelled"

\* The step after call p has passed the fence, s being the status it leaves.
After(t, p, s) ==
    CASE p = "run"             -> "start"
      [] p = "start"           -> "engine"
      [] p \in {"complete", "fail"} -> TerminalStep(s)
      [] p = "emitMessage"     -> "emitCompleted"
      [] p \in {"emitCompleted", "emitFailed"} -> "ok"
      [] p = "cancel"          -> IF s = "cancelled" THEN "ensureCancelled" ELSE "gone"
      [] p = "ensureCancelled" -> IF Logged(t, "cancelled") THEN "ok" ELSE "appendCancelled"
      [] p = "appendCancelled" -> "ok"

\* TurnClaimMismatchError or another error of call p: inside the try it sends
\* the task to the failure handler, elsewhere it ends the task.  (The report of
\* a result that came too late is abstracted as in Cancelled: the handler would
\* only try the same event again.)
Raised(p) == IF p = "complete" THEN "fail" ELSE "error"

\* Only the read of ensure_event passes without a fence.
Passes(t, g, p) == gen[t] = g \/ p = "ensureCancelled"

ExecWrite(t, g) ==
    LET p == task[t][g] IN
    /\ p \in Writes
    /\ FencedWrite(t, g, p)
    /\ task' = [task EXCEPT ![t][g] = IF Passes(t, g, p) THEN After(t, p, status'[t])
                                      ELSE Raised(p)]
    /\ UNCHANGED <<gen, owner, lease, cancelReq, redisVars, authorized,
                   gatewayVars, loop, runner, late, relayUp, faults>>

\* The engine returns a text, raises, or runs into a deadline.
EngineReturns(t, g) ==
    /\ task[t][g] = "engine"
    /\ \E next \in {"complete", "fail"} : task' = [task EXCEPT ![t][g] = next]
    /\ UNCHANGED <<rowVars, cancelReq, log, redisVars, authorized, gatewayVars,
                   loop, runner, late, relayUp, faults>>

\* The deadline strikes while the result is being written: the thread goes on.
DeadlineInWrite(t, g) ==
    /\ task[t][g] = "complete"
    /\ Fault("stall")
    /\ task' = [task EXCEPT ![t][g] = "fail"]
    /\ late' = [late EXCEPT ![t][g] = @ \union {"complete"}]
    /\ UNCHANGED <<rowVars, cancelReq, log, redisVars, authorized, gatewayVars,
                   loop, runner, relayUp>>

\* A call abandoned by its task reaches MySQL.
LateWrite(t, g) ==
    /\ \E write \in late[t][g] :
          /\ FencedWrite(t, g, write)
          /\ late' = [late EXCEPT ![t][g] =
                IF write = "ensureCancelled" /\ ~Logged(t, "cancelled")
                THEN (@ \ {write}) \union {"appendCancelled"} ELSE @ \ {write}]
    /\ UNCHANGED <<gen, owner, lease, cancelReq, redisVars, authorized,
                   gatewayVars, loop, task, runner, relayUp, faults>>

\* A database or storage-quota error in a repository call.
ExecWriteFails(t, g) ==
    /\ Fault("database")
    /\ task[t][g] \in Writes
    /\ task' = [task EXCEPT ![t][g] = Raised(@)]
    /\ UNCHANGED <<rowVars, cancelReq, log, redisVars, authorized, gatewayVars,
                   loop, runner, late, relayUp>>

-----------------------------------------------------------------------------
(* Environment *)

Attended(t) ==
    \E w \in Workers : owner[t] = w /\ loop[w].pc = "wait" /\ loop[w].turn = t
                       /\ loop[w].gen = gen[t]

\* Leases are looked at only on running turns.  One whose owner still sends
\* heartbeats runs out only if the owner stalls.
LeaseExpires(t) ==
    /\ status[t] = "running" /\ lease[t] = "live"
    /\ IF Attended(t) THEN Fault("stall") ELSE UNCHANGED faults
    /\ lease' = [lease EXCEPT ![t] = "expired"]
    /\ UNCHANGED <<status, gen, owner, cancelReq, log, redisVars, authorized,
                   gatewayVars, loop, execVars, relayUp>>

\* The worker process dies, threads included, and is started again.
WorkerCrash(w) ==
    /\ Fault("crash")
    /\ loop' = [loop EXCEPT ![w] = Idle]
    /\ task' = [t \in Turns |-> [g \in Gens |->
                  IF runner[t][g] = w THEN "gone" ELSE task[t][g]]]
    /\ late' = [t \in Turns |-> [g \in Gens |->
                  IF runner[t][g] = w THEN {} ELSE late[t][g]]]
    /\ relayUp' = [relayUp EXCEPT ![w] = TRUE]
    /\ UNCHANGED <<rowVars, cancelReq, log, redisVars, authorized, gatewayVars, runner>>

RevokeAuthorization(t) ==
    /\ Fault("authorization")
    /\ authorized[t] /\ status[t] \in Active
    /\ authorized' = [authorized EXCEPT ![t] = FALSE]
    /\ UNCHANGED <<rowVars, cancelReq, log, redisVars, gatewayVars, loop, execVars, relayUp>>

-----------------------------------------------------------------------------
GatewayStep(t) ==
    \/ SubmitTurn(t) \/ EmitAccepted(t) \/ CancelTurn(t) \/ RequestCancellation(t)
    \/ CancelEnsures(t) \/ CancelAppends(t) \/ CancelSignals(t)

LoopStep(w) ==
    \/ CheckCancelKey(w) \/ CheckTerminal(w) \/ CheckCancelKeyAgain(w)
    \/ ClaimCancelled(w) \/ ClaimNone(w) \/ ClaimForbidden(w) \/ ClaimTurn(w)
    \/ ExecutionEnds(w) \/ CancelExecution(w) \/ Drain(w)
    \/ CancelPending(w) \/ EnsureReads(w) \/ EnsureAppends(w) \/ Ack(w)

ExecStep(t, g) == ExecWrite(t, g) \/ EngineReturns(t, g) \/ LateWrite(t, g)

FaultStep ==
    \/ GatewayCrash
    \/ \E w \in Workers : RelayFails(w) \/ ReclaimBusy(w) \/ HeartbeatFails(w)
                          \/ IterationFails(w) \/ WorkerCrash(w)
    \/ \E t \in Turns : RevokeAuthorization(t)
    \/ \E t \in Turns : \E g \in Gens : DeadlineInWrite(t, g) \/ ExecWriteFails(t, g)

\* Every turn is settled: the system may stop here.
Finished ==
    /\ \A t \in Turns : status[t] \in Final
    /\ UNCHANGED vars

Next ==
    \/ \E t \in Turns : GatewayStep(t) \/ LeaseExpires(t)
    \/ \E w \in Workers : RelayPass(w) \/ Receive(w) \/ Reclaim(w) \/ LoopStep(w)
                          \/ LeaseHeartbeat(w) \/ CancelActive(w)
    \/ \E t \in Turns : \E g \in Gens : ExecStep(t, g)
    \/ FaultStep
    \/ Finished

Spec == Init /\ [][Next]_vars

\* What keeps running in the deployment: the event loops and their threads,
\* the relays, the two heartbeats and the clock.  Users need not submit or
\* cancel, and no fault has to happen.
Fairness ==
    /\ \A t \in Turns : /\ WF_vars(EmitAccepted(t) \/ RequestCancellation(t) \/ CancelEnsures(t)
                                    \/ CancelAppends(t) \/ CancelSignals(t))
                        /\ WF_vars(LeaseExpires(t) /\ UNCHANGED faults)
    /\ \A w \in Workers : /\ WF_vars(RelayPass(w))
                          /\ WF_vars(Receive(w) \/ Reclaim(w))
                          /\ WF_vars(LoopStep(w))
                          /\ WF_vars(LeaseHeartbeat(w))
    /\ \A t \in Turns : \A g \in Gens : WF_vars(ExecWrite(t, g) \/ EngineReturns(t, g))

FairSpec == Spec /\ Fairness

-----------------------------------------------------------------------------
(* Properties *)

\* The delivery i of turn t still leads to a claim or to the finalizer.
Undecided(t, i) ==
    /\ stream[t][i] # "acked"
    /\ \A w \in Workers : loop[w].turn = t /\ loop[w].msg = i =>
          loop[w].pc \in {"key", "term", "key2", "claim", "cpRead"}

\* No accepted turn is lost: it always has an outbox row, or a delivery that
\* nobody has decided to ACK, whatever claims, recoveries, duplicate
\* deliveries and crashes happened before (create_turn, recover_stuck_turns,
\* claim_turn and the ACKs of run_once together).
AcceptedIsDeliverable ==
    \A t \in Turns : status[t] = "accepted" =>
        outbox[t] > 0 \/ \E i \in DOMAIN stream[t] : Undecided(t, i)

\* A running turn can always be picked up by recover_stuck_turns once its
\* lease is over: it is never left without a lease while it names an owner.
RunningIsRecoverable ==
    \A t \in Turns : status[t] = "running" => lease[t] # "none" \/ owner[t] = NoWorker

\* The result of a turn is the work of the claim its row names: neither an
\* execution that lost its claim nor a thread it left behind completes a turn
\* that another execution is still working on (expected_claim_generation of
\* update_turn).
CompletedByOwner ==
    \A t \in Turns : status[t] = "completed" =>
        task[t][gen[t]] \notin {"none", "run", "start", "engine"}

\* A client that reads turn.completed or turn.failed in the log can rely on
\* it: the row has that status, then and ever after.  (A heartbeat that finds
\* a cancellation request may still turn it into cancelled.)
LoggedEndIsTrue ==
    \A t \in Turns : \A end \in {"completed", "failed"} :
        Logged(t, end) => status[t] = end \/ (status[t] = "cancelled" /\ cancelReq[t])

\* The first terminal status stands: recovery, late threads, stale executions
\* and the unfenced finalizer never replace or reopen it.  The one exception
\* in the code is a lease heartbeat that finds a cancellation request; it
\* turns even a completed turn into a cancelled one.
ResultStands ==
    [][\A t \in Turns : status[t] \in Final =>
          \/ status'[t] = status[t]
          \/ status'[t] = "cancelled" /\ cancelReq[t]]_vars

\* A turn is never executed twice under one generation, and a generation that
\* recovery has taken away (turn.handover) never starts afterwards.
OneStartPerGeneration ==
    \A t \in Turns : \A i, j \in DOMAIN log[t] :
        /\ log[t][i].type = "started" /\ log[t][j].type = "started" /\ i # j
              => log[t][i].gen # log[t][j].gen
        /\ log[t][i].type = "handover" /\ log[t][j].type = "started" /\ i < j
              => log[t][i].gen < log[t][j].gen

\* Nothing of turn t is in flight any more.
AtRest(t) ==
    /\ outbox[t] = 0
    /\ \A i \in DOMAIN stream[t] : stream[t][i] = "acked"
    /\ \A w \in Workers : loop[w].turn # t
    /\ \A g \in Gens : task[t][g] \in {"none", "ok", "error", "gone"} /\ late[t][g] = {}
    /\ submitPc[t] = "done" /\ cancelPc[t] \in {"none", "done"}

\* What a client has to find in the log of a turn with status s.
TerminalEvents(s) == IF s = "completed" THEN {"message", "completed"} ELSE {s}

\* The last ACK comes after the log is complete: a turn at rest has the
\* terminal events of its status, so a client that replays the log sees its
\* end.
SettledTurnIsLogged ==
    \A t \in Turns : status[t] \in Final /\ AtRest(t) =>
        \A type \in TerminalEvents(status[t]) : Logged(t, type)

\* Every accepted turn ends, through crashes, lost leases and redeliveries.
EveryTurnEnds == \A t \in Turns : status[t] = "accepted" ~> status[t] \in Final

\* Every delivery is ACKed in the end.
StreamDrains ==
    \A t \in Turns : [](stream[t] # <<>> => <>(\A i \in DOMAIN stream[t] : stream[t][i] = "acked"))

\* The turn table under queues, leases, duplicate deliveries, late threads and
\* crashes keeps the promises of TurnLifecycle: every write to a row is one of
\* the steps a user can understand, and only the execution that holds the turn
\* ends it.
Lifecycle == INSTANCE TurnLifecycle WITH state <- status, tenure <- gen, wanted <- cancelReq
ImplementsLifecycle == Lifecycle!Spec
=============================================================================

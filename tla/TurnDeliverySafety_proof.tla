---------------------- MODULE TurnDeliverySafety_proof ----------------------
(* The safety properties of TurnDelivery, for any sets of turns and workers. *)
EXTENDS TurnDelivery_proof

\* What every step does to a log: nothing, or one event at the end, stamped
\* with the generation the row has after the step.  Generations never go back.
LEMMA LogGrows ==
    ASSUME TypeInv, [Next]_vars, NEW t \in Turns
    PROVE  /\ gen[t] <= gen'[t]
           /\ \/ log'[t] = log[t]
              \/ \E type \in EventTypes :
                    log'[t] = Append(log[t], [type |-> type, gen |-> gen'[t]])
<1> USE DEF TypeInv, TypeOK, rowVars
<1>0. gen[t] \in Nat /\ gen[t] <= gen[t]
  BY DeliveryAssumption DEF Gens
<1> DEFINE Kept == gen' = gen /\ log' = log
           Stamped(u) == gen' = gen /\ \E type \in EventTypes : log' = Appended(u, type)
           Goal == /\ gen[t] <= gen'[t]
                   /\ \/ log'[t] = log[t]
                      \/ \E type \in EventTypes :
                            log'[t] = Append(log[t], [type |-> type, gen |-> gen'[t]])
<1>1. Kept => Goal
  BY <1>0
<1>2. ASSUME NEW u \in Turns, Stamped(u) PROVE Goal
  <2>1. PICK type \in EventTypes : log' = Appended(u, type)
    BY <1>2
  <2>2. CASE u = t
    BY <1>0, <1>2, <2>1, <2>2 DEF Appended
  <2>3. CASE u # t
    BY <1>0, <1>2, <2>1, <2>3 DEF Appended
  <2> QED
    BY <2>2, <2>3
<1> HIDE DEF Goal, Kept, Stamped
<1>3. ASSUME NEW u \in Turns, GatewayStep(u) PROVE Goal
  <2>1. Kept \/ Stamped(u)
    BY <1>3 DEF Kept, Stamped, GatewayStep, SubmitTurn, EmitAccepted, CancelTurn, RequestCancellation,
                CancelEnsures, CancelAppends, CancelSignals, EventTypes, EndTypes
  <2> QED
    BY <1>1, <1>2, <2>1
<1>4. ASSUME NEW w \in Workers, LoopStep(w) PROVE Goal
  <2>1. CASE ClaimTurn(w)
    <3>1. loop[w].turn \in Turns /\ gen' = [gen EXCEPT ![loop[w].turn] = gen[loop[w].turn] + 1] /\ log' = log
      BY <2>1 DEF ClaimTurn, ClaimRow, LoopOK
    <3> QED
      BY <1>0, <3>1 DEF Goal
  <2>2. CASE EnsureAppends(w)
    <3>1. /\ loop[w].turn \in Turns /\ loop[w].todo # <<>>
          /\ loop[w].todo \in Seq(EndTypes)
          /\ gen' = gen /\ log' = Appended(loop[w].turn, Head(loop[w].todo))
      BY <2>2 DEF EnsureAppends, LoopOK, Loop
    <3>2. Head(loop[w].todo) \in EventTypes
      BY <3>1 DEF EventTypes
    <3> QED
      BY <1>2, <3>1, <3>2 DEF Stamped
  <2>3. CASE ~ClaimTurn(w) /\ ~EnsureAppends(w)
    <3>1. Kept
      BY <1>4, <2>3
         DEF Kept, LoopStep, CheckCancelKey, CheckTerminal, CheckCancelKeyAgain, ClaimCancelled,
             ClaimNone, ClaimForbidden, ExecutionEnds, CancelExecution, Drain, CancelPending,
             EnsureReads, Ack
    <3> QED
      BY <1>1, <3>1
  <2> QED
    BY <2>1, <2>2, <2>3
<1>5. ASSUME NEW w \in Workers, RelayPass(w) PROVE Goal
  <2>1. CASE Retried(t)
    <3>1. gen'[t] = gen[t] + 1 /\ log'[t] = Append(log[t], [type |-> "handover", gen |-> gen[t] + 1])
      BY <1>5, <2>1 DEF RelayPass
    <3>2. "handover" \in EventTypes
      BY DEF EventTypes
    <3> QED
      BY <1>0, <3>1, <3>2 DEF Goal
  <2>2. CASE ~Retried(t)
    BY <1>0, <1>5, <2>2 DEF RelayPass, Goal
  <2> QED
    BY <2>1, <2>2
<1>6. ASSUME NEW u \in Turns, NEW g \in Gens, NEW write \in Writes, FencedWrite(u, g, write), gen' = gen
      PROVE  Goal
  <2>1. write \in DOMAIN Emits => Emits[write] \in EventTypes
    BY DEF Emits, EventTypes, EndTypes
  <2>2. Kept \/ Stamped(u)
    BY <1>6, <2>1 DEF FencedWrite, Kept, Stamped
  <2> QED
    BY <1>1, <1>2, <2>2
<1>7. ASSUME NEW u \in Turns, NEW g \in Gens, ExecStep(u, g) PROVE Goal
  <2>1. CASE ExecWrite(u, g)
    BY <1>6, <2>1 DEF ExecWrite
  <2>2. CASE EngineReturns(u, g)
    BY <1>1, <2>2 DEF EngineReturns, Kept
  <2>3. CASE LateWrite(u, g)
    BY <1>6, <2>3 DEF LateWrite
  <2> QED
    BY <1>7, <2>1, <2>2, <2>3 DEF ExecStep
<1>8. ASSUME NEW w \in Workers, Receive(w) \/ Reclaim(w) \/ LeaseHeartbeat(w) \/ CancelActive(w)
      PROVE  Goal
  <2>1. Kept
    BY <1>8 DEF Kept, Receive, Reclaim, LeaseHeartbeat, CancelActive
  <2> QED
    BY <1>1, <2>1
<1>9. ASSUME FaultStep \/ Finished \/ UNCHANGED vars \/ \E u \in Turns : LeaseExpires(u)
      PROVE  Goal
  <2>1. Kept
    BY <1>9 DEF Kept, FaultStep, Finished, vars, GatewayCrash, RelayFails, ReclaimBusy, HeartbeatFails,
                IterationFails, WorkerCrash, RevokeAuthorization, DeadlineInWrite, ExecWriteFails,
                LeaseExpires
  <2> QED
    BY <1>1, <2>1
<1>10. Goal
  BY <1>3, <1>4, <1>5, <1>7, <1>8, <1>9 DEF Next
<1> QED
  BY <1>10 DEF Goal

\* The log of a turn is a succession of generations.
LogFollowsGenerations ==
    \A t \in Turns :
        /\ \A i, j \in DOMAIN log[t] : i < j => log[t][i].gen <= log[t][j].gen
        /\ \A i \in DOMAIN log[t] : log[t][i].gen <= gen[t]

\* The generations recorded in a turn's log never decrease and never run ahead
\* of the row: no execution whose claim was taken over, and no thread left
\* behind by one, writes an event after its successor.
THEOREM LogOrder == Spec => []LogFollowsGenerations
<1>1. Init => LogFollowsGenerations
  <2> SUFFICES ASSUME Init PROVE LogFollowsGenerations
    OBVIOUS
  <2>1. \A t \in Turns : log[t] = <<>>
    BY DEF Init
  <2>2. \A t \in Turns : \A i \in DOMAIN log[t] : FALSE
    BY <2>1
  <2> QED
    BY <2>2 DEF LogFollowsGenerations
<1>2. TypeInv /\ LogFollowsGenerations /\ [Next]_vars => LogFollowsGenerations'
  <2> SUFFICES ASSUME TypeInv, LogFollowsGenerations, [Next]_vars, NEW t \in Turns
               PROVE  /\ \A i, j \in DOMAIN log'[t] : i < j => log'[t][i].gen <= log'[t][j].gen
                      /\ \A i \in DOMAIN log'[t] : log'[t][i].gen <= gen'[t]
    BY DEF LogFollowsGenerations
  <2>1. TypeInv'
    BY NextTypes
  <2>2. gen[t] \in Nat /\ gen'[t] \in Nat /\ log[t] \in Seq(Event)
    BY <2>1, DeliveryAssumption DEF TypeInv, TypeOK, Gens
  <2>3. \A i \in DOMAIN log[t] : log[t][i].gen \in Nat /\ log[t][i].gen <= gen[t]
    <3>1. \A i \in DOMAIN log[t] : log[t][i] \in Event
      BY <2>2
    <3>2. \A i \in DOMAIN log[t] : log[t][i].gen \in Nat
      BY <3>1, DeliveryAssumption DEF Event, Gens
    <3> QED
      BY <3>2 DEF LogFollowsGenerations
  <2>4. gen[t] <= gen'[t]
    BY LogGrows
  <2>5. CASE log'[t] = log[t]
    BY <2>2, <2>3, <2>4, <2>5 DEF LogFollowsGenerations
  <2>6. ASSUME NEW type \in EventTypes,
               log'[t] = Append(log[t], [type |-> type, gen |-> gen'[t]])
        PROVE  /\ \A i, j \in DOMAIN log'[t] : i < j => log'[t][i].gen <= log'[t][j].gen
               /\ \A i \in DOMAIN log'[t] : log'[t][i].gen <= gen'[t]
    <3> DEFINE n == Len(log[t])
    <3>1. n \in Nat /\ DOMAIN log[t] = 1..n /\ DOMAIN log'[t] = 1..(n + 1)
      BY <2>2, <2>6
    <3>2. \A i \in 1..n : log'[t][i] = log[t][i]
      BY <2>2, <2>6
    <3>3. log'[t][n + 1].gen = gen'[t]
      BY <2>2, <2>6
    <3>4. \A i \in 1..n : log'[t][i].gen <= gen'[t] /\ log'[t][i].gen \in Nat
      BY <2>2, <2>3, <2>4, <3>1, <3>2
    <3>5. \A i, j \in 1..n : i < j => log'[t][i].gen <= log'[t][j].gen
      BY <3>1, <3>2 DEF LogFollowsGenerations
    <3> HIDE DEF n
    <3>6. /\ \A i \in 1..(n + 1) : i \in 1..n \/ i = n + 1
          /\ \A i, j \in 1..(n + 1) : i < j => i \in 1..n
      BY <3>1
    <3>7. \A i \in 1..(n + 1) : log'[t][i].gen <= gen'[t]
      BY <2>2, <3>3, <3>4, <3>6
    <3>8. \A i, j \in 1..(n + 1) : i < j => log'[t][i].gen <= log'[t][j].gen
      BY <3>3, <3>4, <3>5, <3>6
    <3> QED
      BY <3>1, <3>7, <3>8
  <2> QED
    BY <2>5, <2>6, LogGrows
<1> QED
  BY <1>1, <1>2, InitTypes, NextTypes, PTL DEF Spec

-----------------------------------------------------------------------------
(* What a step may do to a turn's row *)

\* A terminal status is kept or becomes cancelled on request, and a row with an
\* owner keeps a lease.
RowStep(t) ==
    /\ status[t] \in Final =>
          status'[t] = status[t] \/ (status'[t] = "cancelled" /\ cancelReq[t])
    /\ (lease[t] # "none" \/ owner[t] = NoWorker) => (lease'[t] # "none" \/ owner'[t] = NoWorker)

LEMMA FencedWriteRow ==
    ASSUME TypeOK, NEW u \in Turns, NEW g \in Gens, NEW write \in Writes, FencedWrite(u, g, write),
           UNCHANGED <<owner, lease>>, NEW t \in Turns
    PROVE  RowStep(t)
BY DEF TypeOK, FencedWrite, Updated, RowStep

LEMMA RowSteps ==
    ASSUME TypeInv, [Next]_vars, NEW t \in Turns
    PROVE  RowStep(t)
<1> USE DEF TypeInv, TypeOK, rowVars
<1>1. ASSUME UNCHANGED <<status, owner, lease>> PROVE RowStep(t)
  BY <1>1 DEF RowStep
<1>2. ASSUME NEW u \in Turns, GatewayStep(u) PROVE RowStep(t)
  <2>1. CASE SubmitTurn(u)
    BY <2>1 DEF SubmitTurn, RowStep, Final
  <2>2. CASE RequestCancellation(u)
    BY <2>2 DEF RequestCancellation, RowStep, Updated
  <2>3. CASE ~SubmitTurn(u) /\ ~RequestCancellation(u)
    BY <1>1, <1>2, <2>3 DEF GatewayStep, EmitAccepted, CancelTurn, CancelEnsures, CancelAppends,
                            CancelSignals
  <2> QED
    BY <2>1, <2>2, <2>3
<1>3. ASSUME NEW w \in Workers, LoopStep(w) PROVE RowStep(t)
  <2>1. CASE ClaimTurn(w)
    <3>1. loop[w].turn \in Turns /\ status[loop[w].turn] \in {"accepted", "running"}
      BY <2>1 DEF ClaimTurn, ClaimRow, Claimable, LoopOK
    <3> QED
      BY <2>1, <3>1 DEF ClaimTurn, ClaimRow, RowStep, Final
  <2>2. CASE ClaimCancelled(w)
    <3>1. loop[w].turn \in Turns
      BY <2>2 DEF ClaimCancelled, LoopOK
    <3> QED
      BY <2>2, <3>1 DEF ClaimCancelled, RowStep, Updated
  <2>3. CASE CancelPending(w)
    <3>1. loop[w].turn \in Turns
      BY <2>3 DEF CancelPending, LoopOK
    <3> QED
      BY <2>3, <3>1 DEF CancelPending, RowStep, Updated
  <2>4. CASE ~ClaimTurn(w) /\ ~ClaimCancelled(w) /\ ~CancelPending(w)
    BY <1>1, <1>3, <2>4
       DEF LoopStep, CheckCancelKey, CheckTerminal, CheckCancelKeyAgain, ClaimNone, ClaimForbidden,
           ExecutionEnds, CancelExecution, Drain, EnsureReads, EnsureAppends, Ack
  <2> QED
    BY <2>1, <2>2, <2>3, <2>4
<1>4. ASSUME NEW w \in Workers, RelayPass(w) PROVE RowStep(t)
  BY <1>4 DEF RelayPass, Retried, Stuck, RowStep, Final
<1>5. ASSUME NEW w \in Workers, LeaseHeartbeat(w) PROVE RowStep(t)
  <2>1. loop[w].turn \in Turns
    BY <1>5 DEF LeaseHeartbeat, LoopOK
  <2> QED
    BY <1>5, <2>1 DEF LeaseHeartbeat, RowStep
<1>6. ASSUME NEW u \in Turns, NEW g \in Gens, ExecStep(u, g) PROVE RowStep(t)
  <2>1. CASE ExecWrite(u, g)
    BY <2>1, FencedWriteRow DEF ExecWrite
  <2>2. CASE EngineReturns(u, g)
    BY <1>1, <2>2 DEF EngineReturns
  <2>3. CASE LateWrite(u, g)
    BY <2>3, FencedWriteRow DEF LateWrite
  <2> QED
    BY <1>6, <2>1, <2>2, <2>3 DEF ExecStep
<1>7. ASSUME NEW u \in Turns, LeaseExpires(u) PROVE RowStep(t)
  BY <1>7 DEF LeaseExpires, RowStep
<1>8. ASSUME \/ FaultStep \/ Finished \/ UNCHANGED vars
             \/ \E w \in Workers : Receive(w) \/ Reclaim(w) \/ CancelActive(w)
      PROVE  RowStep(t)
  <2>1. UNCHANGED <<status, owner, lease>>
    BY <1>8 DEF FaultStep, Finished, vars, GatewayCrash, RelayFails, ReclaimBusy, HeartbeatFails,
                IterationFails, WorkerCrash, RevokeAuthorization, DeadlineInWrite, ExecWriteFails,
                Receive, Reclaim, CancelActive
  <2> QED
    BY <1>1, <2>1
<1> QED
  BY <1>2, <1>3, <1>4, <1>5, <1>6, <1>7, <1>8 DEF Next

\* Whatever recovery, stale executions, abandoned threads and the unfenced
\* finalizer of cancellations do, the first terminal status of a turn stands,
\* unless a lease heartbeat finds a cancellation request.
THEOREM FirstResultStands == Spec => ResultStands
<1>1. TypeInv /\ [Next]_vars =>
        [\A t \in Turns : status[t] \in Final =>
            \/ status'[t] = status[t]
            \/ status'[t] = "cancelled" /\ cancelReq[t]]_vars
  BY RowSteps DEF RowStep
<1> QED
  BY <1>1, InitTypes, NextTypes, PTL DEF Spec, ResultStands

\* A turn that names an owner has a lease, whatever its status: the inductive
\* form of RunningIsRecoverable.
OwnedIsLeased == \A t \in Turns : lease[t] # "none" \/ owner[t] = NoWorker

\* recover_stuck_turns can always pick up a running turn once its lease has run
\* out: no sequence of claims, heartbeats, cancellations and recoveries leaves
\* a running turn with an owner and without a lease.
THEOREM NoStrandedTurn == Spec => []RunningIsRecoverable
<1>1. Init => OwnedIsLeased
  BY DEF Init, OwnedIsLeased
<1>2. TypeInv /\ OwnedIsLeased /\ [Next]_vars => OwnedIsLeased'
  BY RowSteps DEF RowStep, OwnedIsLeased
<1>3. OwnedIsLeased => RunningIsRecoverable
  BY DEF OwnedIsLeased, RunningIsRecoverable
<1> QED
  BY <1>1, <1>2, <1>3, InitTypes, NextTypes, PTL DEF Spec

-----------------------------------------------------------------------------
(* No accepted turn is lost *)

\* The labels at which a loop has not decided the fate of its delivery.
OpenPcs == {"key", "term", "key2", "claim", "cpRead"}

\* A step of the loop of w loses no accepted turn if it decides on a delivery
\* only when the turn is not accepted, and ACKs only what was decided.
LEMMA LoopDelivers ==
    ASSUME TypeInv, AcceptedIsDeliverable, NEW w \in Workers,
           \A v \in Workers \ {w} : loop'[v] = loop[v],
           outbox' = outbox,
           \A t \in Turns : status'[t] = "accepted" => status[t] = "accepted",
           \A t \in Turns : DOMAIN stream'[t] = DOMAIN stream[t],
           \A t \in Turns : \A i \in DOMAIN stream[t] :
              stream[t][i] # "acked" =>
                 \/ stream'[t][i] # "acked"
                 \/ loop[w].turn = t /\ loop[w].msg = i /\ loop[w].pc = "ack",
           loop'[w].turn \in Turns /\ loop'[w].pc \notin OpenPcs =>
              \/ status'[loop'[w].turn] # "accepted"
              \/ loop[w].turn = loop'[w].turn /\ loop[w].msg = loop'[w].msg /\ loop[w].pc \notin OpenPcs
    PROVE  AcceptedIsDeliverable'
<1> SUFFICES ASSUME NEW t \in Turns, status'[t] = "accepted", ~(outbox'[t] > 0)
             PROVE  \E i \in DOMAIN stream'[t] : Undecided(t, i)'
  BY DEF AcceptedIsDeliverable
<1>1. PICK i \in DOMAIN stream[t] : Undecided(t, i)
  BY DEF AcceptedIsDeliverable
<1>2. i \in DOMAIN stream'[t]
  BY <1>1
<1>3. stream'[t][i] # "acked"
  BY <1>1 DEF Undecided
<1>4. \A v \in Workers : loop'[v].turn = t /\ loop'[v].msg = i => loop'[v].pc \in OpenPcs
  BY <1>1 DEF Undecided, OpenPcs
<1> QED
  BY <1>2, <1>3, <1>4 DEF Undecided, OpenPcs

\* The same, for a step of the loop that touches neither stream nor status.
LEMMA QuietLoopDelivers ==
    ASSUME TypeInv, AcceptedIsDeliverable, NEW w \in Workers, UNCHANGED <<outbox, stream>>,
           \A t \in Turns : status'[t] = "accepted" => status[t] = "accepted",
           \/ Abandon(w)
           \/ \E label \in LoopPcs :
                 /\ GoTo(w, label)
                 /\ \/ label \in OpenPcs \/ loop[w].pc \notin OpenPcs
                    \/ status'[loop[w].turn] # "accepted"
    PROVE  AcceptedIsDeliverable'
<1>1. loop \in [Workers -> Loop]
  BY DEF TypeInv, TypeOK
<1>2. CASE Abandon(w)
  <2>1. /\ \A v \in Workers \ {w} : loop'[v] = loop[v]
        /\ loop'[w].turn \notin Turns
    BY <1>1, <1>2, AbandonFields, DeliveryAssumption
  <2> QED
    BY <2>1, LoopDelivers
<1>3. ASSUME NEW label \in LoopPcs, GoTo(w, label),
             \/ label \in OpenPcs \/ loop[w].pc \notin OpenPcs
             \/ status'[loop[w].turn] # "accepted"
      PROVE  AcceptedIsDeliverable'
  <2>1. /\ \A v \in Workers \ {w} : loop'[v] = loop[v]
        /\ loop'[w].pc = label /\ loop'[w].turn = loop[w].turn /\ loop'[w].msg = loop[w].msg
    BY <1>1, <1>3, GoToFields
  <2> QED
    BY <1>3, <2>1, LoopDelivers
<1> QED
  BY <1>2, <1>3

\* The same, for a step that also plans the events to ensure.
LEMMA PlanDelivers ==
    ASSUME TypeInv, AcceptedIsDeliverable, NEW w \in Workers, UNCHANGED <<outbox, stream>>,
           \A t \in Turns : status'[t] = "accepted" => status[t] = "accepted",
           NEW label \in LoopPcs, NEW plan \in Seq(EndTypes),
           loop' = [loop EXCEPT ![w].pc = label, ![w].todo = plan],
           \/ label \in OpenPcs \/ loop[w].pc \notin OpenPcs
           \/ status'[loop[w].turn] # "accepted"
    PROVE  AcceptedIsDeliverable'
<1>1. loop \in [Workers -> Loop]
  BY DEF TypeInv, TypeOK
<1>2. /\ \A v \in Workers \ {w} : loop'[v] = loop[v]
      /\ loop'[w].pc = label /\ loop'[w].turn = loop[w].turn /\ loop'[w].msg = loop[w].msg
  BY <1>1, PlanFields
<1> QED
  BY <1>2, LoopDelivers

LEMMA StaticDelivers ==
    ASSUME AcceptedIsDeliverable, UNCHANGED <<loop, outbox, stream>>,
           \A t \in Turns : status'[t] = "accepted" => status[t] = "accepted"
    PROVE  AcceptedIsDeliverable'
BY DEF AcceptedIsDeliverable, Undecided

LEMMA MovesDeliver ==
    ASSUME TypeInv, AcceptedIsDeliverable, NEW w \in Workers,
           \/ CheckCancelKey(w) \/ CheckCancelKeyAgain(w) \/ ClaimNone(w) \/ ClaimForbidden(w)
           \/ ExecutionEnds(w) \/ Drain(w) \/ CancelExecution(w) \/ ClaimCancelled(w)
           \/ HeartbeatFails(w) \/ CancelActive(w) \/ IterationFails(w)
    PROVE  AcceptedIsDeliverable'
<1> USE DEF rowVars, redisVars
<1>1. UNCHANGED <<outbox, stream>>
  BY DEF CheckCancelKey, CheckCancelKeyAgain, ClaimNone, ClaimForbidden, ExecutionEnds, Drain,
         CancelExecution, ClaimCancelled, HeartbeatFails, CancelActive, IterationFails
<1>2. \A t \in Turns : status'[t] = "accepted" => status[t] = "accepted"
  <2>1. CASE ClaimCancelled(w)
    <3>1. status \in [Turns -> Statuses]
      BY DEF TypeInv, TypeOK
    <3> QED
      BY <2>1, <3>1 DEF ClaimCancelled, Updated
  <2>2. CASE ~ClaimCancelled(w)
    BY <2>2 DEF CheckCancelKey, CheckCancelKeyAgain, ClaimNone, ClaimForbidden, ExecutionEnds, Drain,
         CancelExecution, HeartbeatFails, CancelActive, IterationFails
  <2> QED
    BY <2>1, <2>2
<1>3. ASSUME NEW label \in {"cpRead", "term", "claim", "ack", "drain", "kill", "killCancel"}
      PROVE  label \in LoopPcs
  BY DEF LoopPcs
<1>4. \/ Abandon(w)
      \/ \E label \in {"cpRead", "term", "claim"} : GoTo(w, label)
      \/ \E label \in {"ack", "drain", "kill", "killCancel"} :
            /\ GoTo(w, label)
            /\ \/ loop[w].pc \in {"wait", "kill", "killCancel"}
               \/ status'[loop[w].turn] # "accepted"
  BY DEF CheckCancelKey, CheckCancelKeyAgain, ClaimNone, Claimable, ClaimForbidden, ExecutionEnds,
         Drain, CancelExecution, ClaimCancelled, HeartbeatFails, CancelActive, IterationFails
<1>5. \/ Abandon(w)
      \/ \E label \in LoopPcs :
            /\ GoTo(w, label)
            /\ \/ label \in OpenPcs \/ loop[w].pc \notin OpenPcs
               \/ status'[loop[w].turn] # "accepted"
  BY <1>3, <1>4 DEF OpenPcs
<1> QED
  BY <1>1, <1>2, <1>5, QuietLoopDelivers

LEMMA DecisionsDeliver ==
    ASSUME TypeInv, AcceptedIsDeliverable, NEW w \in Workers,
           \/ CheckTerminal(w) \/ CancelPending(w) \/ ClaimTurn(w)
           \/ LeaseHeartbeat(w)
    PROVE  AcceptedIsDeliverable'
<1> USE DEF rowVars, redisVars
<1>0. /\ loop \in [Workers -> Loop] /\ status \in [Turns -> Statuses]
      /\ loop[w].turn \in Turns /\ UNCHANGED <<outbox, stream>>
  BY DEF TypeInv, TypeOK, LoopOK, CheckTerminal, CancelPending, ClaimTurn, ClaimRow,
         LeaseHeartbeat
<1>1. \A t \in Turns : status'[t] = "accepted" => status[t] = "accepted"
  BY <1>0 DEF CheckTerminal, CancelPending, ClaimTurn, ClaimRow, LeaseHeartbeat, Updated
<1>2. CASE CheckTerminal(w)
  <2> DEFINE plan == Repairs(status[loop[w].turn])
             label == IF plan = <<>> THEN "key2" ELSE "ensure"
  <2>1. plan \in Seq(EndTypes) /\ label \in LoopPcs
    <3>1. plan \in Seq(EndTypes)
      BY Plans DEF Repairs
    <3>2. "key2" \in LoopPcs /\ "ensure" \in LoopPcs
      BY DEF LoopPcs
    <3> QED
      BY <3>1, <3>2
  <2>2. label \in OpenPcs \/ status'[loop[w].turn] # "accepted"
    <3>1. CASE plan = <<>>
      BY <3>1 DEF OpenPcs
    <3>2. CASE plan # <<>>
      <4>1. status[loop[w].turn] # "accepted"
        BY <3>2 DEF Repairs
      <4> QED
        BY <1>2, <4>1 DEF CheckTerminal
    <3> QED
      BY <3>1, <3>2
  <2>3. loop' = [loop EXCEPT ![w].pc = label, ![w].todo = plan]
    BY <1>2 DEF CheckTerminal
  <2> HIDE DEF plan, label
  <2> QED
    BY <1>0, <1>1, <2>1, <2>2, <2>3, PlanDelivers
<1>3. CASE CancelPending(w)
  <2> DEFINE finished == status[loop[w].turn] \in {"completed", "failed"}
             label == IF finished THEN "ack" ELSE "ensure"
             plan == IF finished THEN <<>> ELSE <<"cancelled">>
  <2>1. plan \in Seq(EndTypes) /\ label \in LoopPcs
    BY Plans DEF LoopPcs
  <2>2. status'[loop[w].turn] # "accepted"
    BY <1>0, <1>3 DEF CancelPending, Updated, Final
  <2>3. loop' = [loop EXCEPT ![w].pc = label, ![w].todo = plan]
    BY <1>3 DEF CancelPending
  <2> HIDE DEF plan, label
  <2> QED
    BY <1>0, <1>1, <2>1, <2>2, <2>3, PlanDelivers
<1>4. CASE ClaimTurn(w)
  <2> DEFINE g == gen[loop[w].turn] + 1
  <2>1. g \in Gens /\ "wait" \in LoopPcs
    BY <1>0, <1>4, DeliveryAssumption DEF ClaimTurn, ClaimRow, Gens, TypeInv, TypeOK, LoopPcs
  <2>2. loop' = [loop EXCEPT ![w].pc = "wait", ![w].gen = g]
    BY <1>4 DEF ClaimTurn, ClaimRow
  <2> HIDE DEF g
  <2>3. \A v \in Workers \ {w} : loop'[v] = loop[v]
    BY <1>0, <2>1, <2>2, ClaimFields
  <2>4. loop'[w].turn = loop[w].turn
    BY <1>0, <2>1, <2>2, ClaimFields
  <2>5. status'[loop[w].turn] # "accepted"
    BY <1>0, <1>4 DEF ClaimTurn, ClaimRow
  <2> QED
    BY <1>0, <1>1, <2>3, <2>4, <2>5, LoopDelivers
<1>5. CASE LeaseHeartbeat(w)
  <2>1. "kill" \in LoopPcs /\ "killCancel" \in LoopPcs /\ "wait" \notin OpenPcs
    BY DEF LoopPcs, OpenPcs
  <2>2. loop[w].pc = "wait" /\ (loop' = loop \/ GoTo(w, "kill") \/ GoTo(w, "killCancel"))
    BY <1>5 DEF LeaseHeartbeat
  <2> QED
    BY <1>0, <1>1, <2>1, <2>2, QuietLoopDelivers, StaticDelivers
<1> QED
  BY <1>2, <1>3, <1>4, <1>5

LEMMA EnsuresDeliver ==
    ASSUME TypeInv, AcceptedIsDeliverable, NEW w \in Workers, EnsureReads(w) \/ EnsureAppends(w) \/ Ack(w)
    PROVE  AcceptedIsDeliverable'
<1> USE DEF rowVars, redisVars
<1>0. /\ loop \in [Workers -> Loop]
      /\ loop[w].turn \in Turns /\ loop[w].msg \in DOMAIN stream[loop[w].turn]
      /\ UNCHANGED <<status, outbox>>
      /\ loop[w].pc \notin OpenPcs
  BY DEF TypeInv, TypeOK, LoopOK, EnsureReads, EnsureAppends, Ack, OpenPcs
<1>1. CASE EnsureReads(w) \/ EnsureAppends(w)
  <2>1. /\ \A v \in Workers \ {w} : loop'[v] = loop[v]
        /\ loop'[w].turn = loop[w].turn /\ loop'[w].msg = loop[w].msg
    BY <1>0, <1>1 DEF EnsureReads, EnsureAppends, GoTo, Loop
  <2>2. stream' = stream
    BY <1>1 DEF EnsureReads, EnsureAppends
  <2> QED
    BY <1>0, <2>1, <2>2, LoopDelivers
<1>2. CASE Ack(w)
  <2>1. /\ \A v \in Workers \ {w} : loop'[v] = loop[v]
        /\ loop'[w].turn \notin Turns
    BY <1>0, <1>2, AbandonFields, DeliveryAssumption DEF Ack
  <2>2. stream' = [stream EXCEPT ![loop[w].turn][loop[w].msg] = "acked"] /\ loop[w].pc = "ack"
    BY <1>2 DEF Ack
  <2>3. stream \in [Turns -> Seq(Delivery)]
    BY DEF TypeInv, TypeOK
  <2>4. /\ \A t \in Turns : DOMAIN stream'[t] = DOMAIN stream[t]
        /\ \A t \in Turns : \A i \in DOMAIN stream[t] :
              stream'[t][i] = stream[t][i] \/ (loop[w].turn = t /\ loop[w].msg = i)
    BY <1>0, <2>2, <2>3
  <2> QED
    BY <1>0, <2>1, <2>2, <2>4, LoopDelivers
<1> QED
  BY <1>1, <1>2

LEMMA TakeDelivers ==
    ASSUME TypeInv, AcceptedIsDeliverable, NEW w \in Workers, Receive(w) \/ Reclaim(w) \/ ReclaimBusy(w)
    PROVE  AcceptedIsDeliverable'
<1> USE DEF rowVars
<1>0. /\ loop \in [Workers -> Loop] /\ stream \in [Turns -> Seq(Delivery)]
      /\ UNCHANGED <<status, outbox>>
  BY DEF TypeInv, TypeOK, Receive, Reclaim, ReclaimBusy
<1>1. PICK t \in Turns : \E i \in DOMAIN stream[t] : Take(w, t, i)
  BY DEF Receive, Reclaim, ReclaimBusy
<1>2. PICK i \in DOMAIN stream[t] : Take(w, t, i)
  BY <1>1
<1>3. /\ \A u \in Turns : DOMAIN stream'[u] = DOMAIN stream[u]
      /\ \A v \in Workers \ {w} : loop'[v] = loop[v]
      /\ loop'[w].pc = "key"
  BY <1>0, <1>2, TakeFields
<1>4. \A u \in Turns : \A j \in DOMAIN stream[u] : stream[u][j] # "acked" => stream'[u][j] # "acked"
  <2>1. stream' = [stream EXCEPT ![t][i] = "pending"]
    BY <1>2 DEF Take
  <2> QED
    BY <1>0, <2>1
<1>5. loop'[w].pc \in OpenPcs
  BY <1>3 DEF OpenPcs
<1> QED
  BY <1>0, <1>3, <1>4, <1>5, LoopDelivers

\* Publishing leaves the deliveries that are there alone, and a delivery it
\* adds is not held by anybody.
LEMMA RelayDelivers ==
    ASSUME TypeInv, AcceptedIsDeliverable, NEW w \in Workers, RelayPass(w) \/ RelayFails(w)
    PROVE  AcceptedIsDeliverable'
<1> SUFFICES ASSUME NEW t \in Turns, status'[t] = "accepted", ~(outbox'[t] > 0)
             PROVE  \E i \in DOMAIN stream'[t] : Undecided(t, i)'
  BY DEF AcceptedIsDeliverable
<1>0. /\ TypeOK /\ loop' = loop
      /\ stream[t] \in Seq(Delivery) /\ outbox[t] \in Nat
      /\ stream'[t] = Published(t) \/ stream'[t] = stream[t]
  <2>1. TypeOK /\ stream[t] \in Seq(Delivery) /\ outbox[t] \in Nat
    BY DEF TypeInv, TypeOK
  <2>2. loop' = loop
    BY DEF RelayPass, RelayFails
  <2>3. stream'[t] = Published(t) \/ stream'[t] = stream[t]
    BY DEF RelayPass, RelayFails
  <2> QED
    BY <2>1, <2>2, <2>3
<1>1. ASSUME NEW i \in DOMAIN stream[t], Undecided(t, i)
      PROVE  \E j \in DOMAIN stream'[t] : Undecided(t, j)'
  <2>1. i \in DOMAIN stream'[t] /\ stream'[t][i] = stream[t][i]
    BY <1>0, PublishedExtends
  <2> QED
    BY <1>0, <1>1, <2>1 DEF Undecided
<1>2. CASE RelayFails(w)
  <2>1. status[t] = "accepted" /\ ~(outbox[t] > 0)
    BY <1>2 DEF RelayFails, rowVars
  <2> QED
    BY <1>1, <2>1 DEF AcceptedIsDeliverable
<1>3. CASE RelayPass(w) /\ Due(t) = 0
  <2>1. ~Retried(t) /\ outbox[t] = 0
    BY <1>0, <1>3 DEF Due
  <2>2. status[t] = "accepted"
    BY <1>3, <2>1 DEF RelayPass
  <2> QED
    BY <1>1, <2>1, <2>2 DEF AcceptedIsDeliverable
<1>4. CASE RelayPass(w) /\ Due(t) # 0
  <2> DEFINE i == Len(stream[t]) + 1
  <2>1. stream'[t] = Published(t)
    BY <1>4 DEF RelayPass
  <2>2. /\ Published(t) \in Seq(Delivery) /\ Len(Published(t)) = Len(stream[t]) + Due(t)
        /\ Due(t) \in Nat
        /\ \A j \in DOMAIN Published(t) : j \notin DOMAIN stream[t] => Published(t)[j] = "new"
    BY <1>0, PublishedExtends
  <2>3. i \in DOMAIN Published(t) /\ i \notin DOMAIN stream[t]
    BY <1>0, <1>4, <2>2
  <2>4. stream'[t][i] = "new"
    BY <2>1, <2>2, <2>3
  <2>5. \A v \in Workers : ~(loop'[v].turn = t /\ loop'[v].msg = i)
    BY <1>0, <2>3 DEF TypeInv, LoopOK
  <2> QED
    BY <2>1, <2>3, <2>4, <2>5 DEF Undecided
<1> QED
  BY <1>2, <1>3, <1>4

LEMMA GatewayDelivers ==
    ASSUME TypeInv, AcceptedIsDeliverable, NEW t \in Turns, GatewayStep(t)
    PROVE  AcceptedIsDeliverable'
<1> USE DEF rowVars, redisVars
<1>0. status \in [Turns -> Statuses] /\ outbox \in [Turns -> Nat]
  BY DEF TypeInv, TypeOK
<1>1. CASE SubmitTurn(t)
  <2>1. /\ outbox'[t] > 0
        /\ \A u \in Turns \ {t} : outbox'[u] = outbox[u] /\ status'[u] = status[u]
        /\ UNCHANGED <<stream, loop>>
    BY <1>0, <1>1 DEF SubmitTurn
  <2> QED
    BY <2>1 DEF AcceptedIsDeliverable, Undecided
<1>2. CASE ~SubmitTurn(t)
  <2>1. UNCHANGED <<loop, outbox, stream>>
    BY <1>2 DEF GatewayStep, EmitAccepted, CancelTurn, RequestCancellation, CancelEnsures,
                CancelAppends, CancelSignals
  <2>2. \A u \in Turns : status'[u] = "accepted" => status[u] = "accepted"
    BY <1>0, <1>2 DEF GatewayStep, EmitAccepted, CancelTurn, RequestCancellation, CancelEnsures,
                CancelAppends, CancelSignals, Updated
  <2> QED
    BY <2>1, <2>2, StaticDelivers
<1> QED
  BY <1>1, <1>2

LEMMA ExecDelivers ==
    ASSUME TypeInv, AcceptedIsDeliverable, NEW t \in Turns, NEW g \in Gens,
           ExecStep(t, g) \/ DeadlineInWrite(t, g) \/ ExecWriteFails(t, g)
    PROVE  AcceptedIsDeliverable'
<1> USE DEF rowVars, redisVars
<1>1. UNCHANGED <<loop, outbox, stream>>
  BY DEF ExecStep, ExecWrite, EngineReturns, LateWrite, DeadlineInWrite, ExecWriteFails
<1>2. status' = status \/ \E write : FencedWrite(t, g, write)
  BY DEF ExecStep, ExecWrite, EngineReturns, LateWrite, DeadlineInWrite, ExecWriteFails
<1>3. ASSUME NEW write, FencedWrite(t, g, write), NEW u \in Turns, status'[u] = "accepted"
      PROVE  status[u] = "accepted"
  <2>1. status \in [Turns -> Statuses]
    BY DEF TypeInv, TypeOK
  <2>2. write \in DOMAIN Target => Target[write] # "accepted"
    BY DEF Target
  <2> QED
    BY <1>3, <2>1, <2>2 DEF FencedWrite, Updated
<1> QED
  BY <1>1, <1>2, <1>3, StaticDelivers

LEMMA EnvironmentDelivers ==
    ASSUME TypeInv, AcceptedIsDeliverable,
           \/ GatewayCrash
           \/ \E w \in Workers : WorkerCrash(w)
           \/ \E t \in Turns : LeaseExpires(t) \/ RevokeAuthorization(t)
           \/ UNCHANGED vars
    PROVE  AcceptedIsDeliverable'
<1> USE DEF rowVars, redisVars
<1>1. ASSUME NEW w \in Workers, WorkerCrash(w) PROVE AcceptedIsDeliverable'
  <2>1. UNCHANGED <<outbox, stream, status>> /\ Abandon(w)
    BY <1>1 DEF WorkerCrash, Abandon
  <2> QED
    BY <2>1, QuietLoopDelivers
<1>2. CASE \/ GatewayCrash \/ UNCHANGED vars
           \/ \E t \in Turns : LeaseExpires(t) \/ RevokeAuthorization(t)
  <2>1. UNCHANGED <<loop, outbox, stream, status>>
    BY <1>2 DEF GatewayCrash, LeaseExpires, RevokeAuthorization, vars
  <2> QED
    BY <2>1, StaticDelivers
<1> QED
  BY <1>1, <1>2

\* No accepted turn is ever lost: in every reachable state it has an outbox row
\* or a delivery that nobody has decided to ACK, for any number of turns,
\* workers, crashes, lost leases, relay failures and redeliveries.
THEOREM NoLostTurn == Spec => []AcceptedIsDeliverable
<1>1. Init => AcceptedIsDeliverable
  BY DEF Init, AcceptedIsDeliverable
<1>2. TypeInv /\ AcceptedIsDeliverable /\ [Next]_vars => AcceptedIsDeliverable'
  <2> SUFFICES ASSUME TypeInv, AcceptedIsDeliverable, [Next]_vars PROVE AcceptedIsDeliverable'
    OBVIOUS
  <2>1. ASSUME NEW w \in Workers, LoopStep(w) PROVE AcceptedIsDeliverable'
    BY <2>1, MovesDeliver, DecisionsDeliver, EnsuresDeliver DEF LoopStep
  <2> QED
    BY <2>1, GatewayDelivers, TakeDelivers, MovesDeliver, DecisionsDeliver, RelayDelivers,
       ExecDelivers, EnvironmentDelivers DEF Next, FaultStep, Finished
<1> QED
  BY <1>1, <1>2, InitTypes, NextTypes, PTL DEF Spec
=============================================================================

-------------------- MODULE TurnDeliveryRefinement_proof --------------------
(* TurnDelivery implements TurnLifecycle, the log of a turn tells the      *)
(* truth about its end, and the last ACK comes after the log is complete,  *)
(* for any sets of turns and workers.                                      *)
EXTENDS TurnDeliveryExecution_proof

\* A turn that nobody executes has no execution at its row's generation.
Vacant == \A t \in Turns : status[t] \in {"absent", "accepted"} => task[t][gen[t]] = "none"

\* Whoever acts on a cancellation does so after the request is in the row.
Asked ==
    /\ \A t \in Turns : /\ cancelReq[t] => status[t] \in Final
                        /\ cancelPc[t] # "none" => status[t] # "absent"
                        /\ cancelPc[t] \in {"ensure", "append", "signal"} => cancelReq[t]
                        /\ cancelKey[t] => cancelReq[t]
    /\ \A w \in Workers : loop[w].pc \in {"killCancel", "drain", "cpRead"} =>
          cancelReq[loop[w].turn]

OneActive == \A t, u \in Turns : status[t] \in Active /\ status[u] \in Active => t = u

Sound == Vacant /\ Asked /\ OneActive

\* The row as TurnLifecycle sees it.
SameRow == UNCHANGED <<status, gen, cancelReq>>

-----------------------------------------------------------------------------
(* Every step is a step of TurnLifecycle, or none *)

\* A repository call of an execution ends the turn it holds, or changes nothing.
LEMMA FencedWriteEnds ==
    ASSUME StartOK, Sound, NEW t \in Turns, NEW g \in Gens, NEW write,
           FencedWrite(t, g, write), UNCHANGED <<gen, cancelReq>>,
           write \in late[t][g] \/ task[t][g] = write, write \in Writes
    PROVE  SameRow \/ Lifecycle!End(t)
<1>0. status \in [Turns -> Statuses] /\ gen \in [Turns -> Gens]
  BY DEF StartOK, TypeInv, TypeOK
<1>1. CASE gen[t] = g /\ write \in DOMAIN Target
  <2>1. task[t][g] # "none"
    BY DEF StartOK, StartInv, StartInvAt, Writes
  <2>2. status[t] \notin {"absent", "accepted"}
    BY <1>1, <2>1 DEF Sound, Vacant
  <2>3. status[t] = "running" \/ status[t] \in Final
    BY <1>0, <2>2 DEF Statuses, Active
  <2>4. status' = [status EXCEPT ![t] = Updated(@, Target[write])]
    BY <1>1 DEF FencedWrite
  <2>5. CASE status[t] \in Final
    BY <1>0, <2>4, <2>5 DEF Updated, SameRow
  <2>6. CASE status[t] = "running"
    <3>1. status' = [status EXCEPT ![t] = Target[write]]
      BY <1>0, <2>4, <2>6 DEF Updated, Final
    <3>2. Target[write] = "running" \/ Target[write] \in Final
      BY <1>1 DEF Target, Final
    <3>3. CASE Target[write] = "running"
      BY <1>0, <2>6, <3>1, <3>3 DEF SameRow
    <3>4. CASE Target[write] \in Final
      BY <2>6, <3>1, <3>4 DEF Lifecycle!End, Lifecycle!Final, Final
    <3> QED
      BY <3>2, <3>3, <3>4
  <2> QED
    BY <2>3, <2>5, <2>6
<1>2. CASE ~(gen[t] = g /\ write \in DOMAIN Target)
  BY <1>2 DEF FencedWrite, SameRow
<1> QED
  BY <1>1, <1>2

LEMMA RelayGivesBack ==
    ASSUME StartOK, Sound, NEW w \in Workers, RelayPass(w)
    PROVE  SameRow \/ \E t \in Turns : Lifecycle!GiveBack(t) \/ Lifecycle!End(t)
<1>0. status \in [Turns -> Statuses] /\ gen \in [Turns -> Gens]
  BY DEF StartOK, TypeInv, TypeOK
<1>1. CASE \A t \in Turns : ~Stuck(t)
  <2>1. \A t \in Turns : ~Retried(t)
    BY <1>1 DEF Retried
  <2>2. /\ status' = [t \in Turns |-> status[t]] /\ gen' = [t \in Turns |-> gen[t]]
        /\ cancelReq' = cancelReq
    BY <1>1, <2>1 DEF RelayPass
  <2> QED
    BY <1>0, <2>2 DEF SameRow
<1>2. ASSUME NEW t \in Turns, Stuck(t)
      PROVE  Lifecycle!GiveBack(t) \/ Lifecycle!End(t)
  <2>1. status[t] = "running" /\ \A u \in Turns \ {t} : ~Stuck(u) /\ ~Retried(u)
    BY <1>2 DEF Stuck, Retried, Sound, OneActive, Active
  <2>2. CASE Retried(t)
    <3>1. status' = [status EXCEPT ![t] = "accepted"] /\ gen' = [gen EXCEPT ![t] = @ + 1]
      BY <1>0, <2>1, <2>2 DEF RelayPass
    <3> QED
      BY <2>1, <3>1 DEF Lifecycle!GiveBack, RelayPass
  <2>3. CASE ~Retried(t)
    <3>1. status' = [status EXCEPT ![t] = "failed"] /\ gen' = gen
      BY <1>0, <1>2, <2>1, <2>3 DEF RelayPass
    <3> QED
      BY <2>1, <3>1 DEF Lifecycle!End, Lifecycle!Final, RelayPass
  <2> QED
    BY <2>2, <2>3
<1> QED
  BY <1>1, <1>2

LEMMA StepImplements ==
    ASSUME StartOK, Sound, [Next]_vars
    PROVE  SameRow \/ Lifecycle!Next
<1>0. status \in [Turns -> Statuses] /\ gen \in [Turns -> Gens] /\ TypeInv
  BY DEF StartOK, TypeInv, TypeOK
<1> USE DEF rowVars
<1>1. ASSUME NEW t \in Turns, GatewayStep(t) PROVE SameRow \/ Lifecycle!Next
  <2>1. CASE SubmitTurn(t)
    <3>1. Lifecycle!Submit(t)
      BY <2>1 DEF SubmitTurn, Lifecycle!Submit, Lifecycle!Active, Active
    <3> QED
      BY <3>1 DEF Lifecycle!Next
  <2>2. CASE RequestCancellation(t)
    <3>1. status[t] # "absent"
      BY <2>2 DEF RequestCancellation, Sound, Asked
    <3>2. status' = [status EXCEPT ![t] = IF @ \in Active THEN "cancelled" ELSE @]
      BY <1>0, <2>2, <3>1 DEF RequestCancellation, Updated, Statuses, Active, Final
    <3>3. Lifecycle!Cancel(t)
      BY <2>2, <3>1, <3>2 DEF RequestCancellation, Lifecycle!Cancel, Lifecycle!Active, Active
    <3> QED
      BY <3>3 DEF Lifecycle!Next
  <2>3. CASE ~SubmitTurn(t) /\ ~RequestCancellation(t)
    BY <1>1, <2>3 DEF GatewayStep, EmitAccepted, CancelTurn, CancelEnsures, CancelAppends,
                      CancelSignals, SameRow
  <2> QED
    BY <2>1, <2>2, <2>3
<1>2. ASSUME NEW w \in Workers, LoopStep(w) PROVE SameRow \/ Lifecycle!Next
  <2>1. CASE ClaimTurn(w)
    <3>1. PICK t \in Turns : t = loop[w].turn
      BY <1>0, <2>1 DEF ClaimTurn, TypeInv, LoopOK
    <3>2. Lifecycle!Take(t)
      BY <2>1, <3>1 DEF ClaimTurn, ClaimRow, Claimable, Lifecycle!Take, Lifecycle!Active
    <3> QED
      BY <3>2 DEF Lifecycle!Next
  <2>2. CASE ClaimCancelled(w) \/ CancelPending(w)
    <3>1. PICK t \in Turns : t = loop[w].turn
      BY <1>0, <2>2 DEF ClaimCancelled, CancelPending, TypeInv, LoopOK
    <3>2. status[t] \in Final
      BY <2>2, <3>1 DEF ClaimCancelled, CancelPending, Sound, Asked
    <3>3. status' = [status EXCEPT ![t] = status[t]] /\ UNCHANGED <<gen, cancelReq>>
      BY <2>2, <3>1, <3>2 DEF ClaimCancelled, CancelPending, Updated
    <3> QED
      BY <1>0, <3>3 DEF SameRow
  <2>3. CASE ~ClaimTurn(w) /\ ~ClaimCancelled(w) /\ ~CancelPending(w)
    BY <1>2, <2>3
       DEF LoopStep, CheckCancelKey, CheckTerminal, CheckCancelKeyAgain, ClaimNone, ClaimForbidden,
           ExecutionEnds, CancelExecution, Drain, EnsureReads, EnsureAppends, Ack, SameRow
  <2> QED
    BY <2>1, <2>2, <2>3
<1>3. ASSUME NEW w \in Workers, LeaseHeartbeat(w) PROVE SameRow \/ Lifecycle!Next
  <2>1. PICK t \in Turns : t = loop[w].turn
    BY <1>0, <1>3 DEF LeaseHeartbeat, TypeInv, LoopOK
  <2>2. CASE cancelReq[t] /\ status' = [status EXCEPT ![t] = "cancelled"]
    <3>1. status[t] \in Final
      BY <2>2 DEF Sound, Asked
    <3>2. Lifecycle!Overrule(t)
      BY <1>3, <2>2, <3>1 DEF LeaseHeartbeat, Lifecycle!Overrule, Lifecycle!Final, Final
    <3> QED
      BY <3>2 DEF Lifecycle!Next
  <2>3. CASE UNCHANGED status
    BY <1>3, <2>3 DEF LeaseHeartbeat, SameRow
  <2> QED
    BY <1>3, <2>1, <2>2, <2>3 DEF LeaseHeartbeat
<1>4. ASSUME NEW t \in Turns, NEW g \in Gens, ExecStep(t, g) PROVE SameRow \/ Lifecycle!Next
  <2>0. late[t][g] \subseteq Writes
    BY <1>0 DEF TypeInv, TypeOK
  <2>1. CASE ExecWrite(t, g)
    BY <2>1, FencedWriteEnds DEF ExecWrite, Lifecycle!Next
  <2>2. CASE EngineReturns(t, g)
    BY <2>2 DEF EngineReturns, SameRow
  <2>3. CASE LateWrite(t, g)
    BY <2>0, <2>3, FencedWriteEnds DEF LateWrite, Lifecycle!Next
  <2> QED
    BY <1>4, <2>1, <2>2, <2>3 DEF ExecStep
<1>5. ASSUME NEW w \in Workers, RelayPass(w) PROVE SameRow \/ Lifecycle!Next
  BY <1>5, RelayGivesBack DEF Lifecycle!Next
<1>6. ASSUME \/ FaultStep \/ Finished \/ UNCHANGED vars
             \/ \E t \in Turns : LeaseExpires(t)
             \/ \E w \in Workers : Receive(w) \/ Reclaim(w) \/ CancelActive(w)
      PROVE  SameRow
  BY <1>6 DEF FaultStep, Finished, vars, GatewayCrash, RelayFails, ReclaimBusy, HeartbeatFails,
              IterationFails, WorkerCrash, RevokeAuthorization, DeadlineInWrite, ExecWriteFails,
              Receive, Reclaim, CancelActive, LeaseExpires, SameRow
<1> QED
  BY <1>1, <1>2, <1>3, <1>4, <1>5, <1>6 DEF Next

-----------------------------------------------------------------------------
(* What the mapping rests on is an invariant *)

\* Only a claim starts an execution, and it leaves the turn running.
LEMMA NoneStays ==
    ASSUME StartOK, [Next]_vars, NEW t \in Turns, NEW g \in Gens,
           task[t][g] = "none", status'[t] # "running"
    PROVE  task'[t][g] = "none"
<1>0. task \in [Turns -> [Gens -> TaskPcs]] /\ status \in [Turns -> Statuses]
  BY DEF StartOK, TypeInv, TypeOK
<1> DEFINE Goal == task'[t][g] = "none"
<1>1. task' = task => Goal
  OBVIOUS
<1>2. ASSUME NEW u \in Turns, NEW h \in Gens, NEW p, task' = [task EXCEPT ![u][h] = p],
             task[u][h] # "none" \/ u # t
      PROVE  Goal
  BY <1>0, <1>2
<1> HIDE DEF Goal
<1>3. ASSUME NEW w \in Workers, LoopStep(w) PROVE Goal
  <2>1. CASE ClaimTurn(w)
    <3>1. PICK u \in Turns : u = loop[w].turn
      BY <2>1 DEF ClaimTurn, StartOK, TypeInv, LoopOK
    <3>2. PICK h \in Gens : h = gen[u] + 1
      <4>1. gen[u] \in 0..MaxGen /\ gen[u] < MaxGen /\ MaxGen \in Nat
        BY <2>1, <3>1, DeliveryAssumption DEF ClaimTurn, StartOK, TypeInv, TypeOK, Gens
      <4> QED
        BY <4>1 DEF Gens
    <3>3. task' = [task EXCEPT ![u][h] = "run"] /\ status'[u] = "running"
      BY <1>0, <2>1, <3>1, <3>2 DEF ClaimTurn, ClaimRow
    <3> QED
      BY <1>2, <3>3
  <2>2. CASE CancelExecution(w)
    <3>1. PICK u \in Turns, h \in Gens : u = loop[w].turn /\ h = loop[w].gen
      BY <2>2 DEF CancelExecution, StartOK, TypeInv, TypeOK, LoopOK, Loop
    <3>2. task' = [task EXCEPT ![u][h] = Cancelled(task[u][h])]
      BY <2>2, <3>1 DEF CancelExecution
    <3>3. task[u][h] = "none" => Cancelled(task[u][h]) = "none"
      BY DEF Cancelled, Writes
    <3> QED
      BY <1>0, <1>2, <3>2, <3>3 DEF Goal
  <2>3. CASE ~ClaimTurn(w) /\ ~CancelExecution(w)
    <3>1. task' = task
      BY <1>3, <2>3
         DEF LoopStep, CheckCancelKey, CheckTerminal, CheckCancelKeyAgain, ClaimCancelled, ClaimNone,
             ClaimForbidden, ExecutionEnds, Drain, CancelPending,
             EnsureReads, EnsureAppends, Ack, execVars
    <3> QED
      BY <1>1, <3>1
  <2> QED
    BY <2>1, <2>2, <2>3
<1>4. ASSUME NEW u \in Turns, NEW h \in Gens,
             ExecStep(u, h) \/ DeadlineInWrite(u, h) \/ ExecWriteFails(u, h)
      PROVE  Goal
  <2>1. CASE LateWrite(u, h)
    BY <1>1, <2>1 DEF LateWrite
  <2>2. CASE ExecWrite(u, h) \/ ExecWriteFails(u, h)
    <3>1. task[u][h] # "none"
      BY <2>2 DEF ExecWrite, ExecWriteFails, Writes
    <3>2. \E p : task' = [task EXCEPT ![u][h] = p]
      BY <2>2 DEF ExecWrite, ExecWriteFails
    <3> QED
      BY <1>2, <3>1, <3>2
  <2>3. CASE EngineReturns(u, h) \/ DeadlineInWrite(u, h)
    BY <1>2, <2>3 DEF EngineReturns, DeadlineInWrite
  <2> QED
    BY <1>4, <2>1, <2>2, <2>3 DEF ExecStep
<1>5. ASSUME NEW w \in Workers, WorkerCrash(w) PROVE Goal
  <2>1. runner[t][g] # w
    BY DeliveryAssumption DEF StartOK, StartInv, StartInvAt
  <2> QED
    BY <1>5, <2>1 DEF WorkerCrash, Goal
<1>6. ASSUME \/ \E u \in Turns : GatewayStep(u) \/ LeaseExpires(u) \/ RevokeAuthorization(u)
             \/ \E w \in Workers :
                   \/ Receive(w) \/ Reclaim(w) \/ ReclaimBusy(w) \/ LeaseHeartbeat(w) \/ RelayPass(w)
                   \/ HeartbeatFails(w) \/ CancelActive(w) \/ IterationFails(w) \/ RelayFails(w)
             \/ GatewayCrash \/ UNCHANGED vars
      PROVE  Goal
  <2>1. task' = task
    BY <1>6 DEF GatewayStep, SubmitTurn, EmitAccepted, CancelTurn, RequestCancellation, CancelEnsures,
                CancelAppends, CancelSignals, LeaseExpires, RevokeAuthorization, Receive, Reclaim,
                ReclaimBusy, LeaseHeartbeat, RelayPass, HeartbeatFails, CancelActive, IterationFails,
                RelayFails, GatewayCrash, execVars, vars
  <2> QED
    BY <1>1, <2>1
<1> QED
  BY <1>3, <1>4, <1>5, <1>6 DEF Next, FaultStep, Finished, Goal

\* What a step of TurnLifecycle does to one row.
LEMMA RowMoves ==
    ASSUME StartOK, SameRow \/ Lifecycle!Next, NEW t \in Turns
    PROVE  /\ status'[t] = "absent" => status[t] = "absent"
           /\ status'[t] = "absent" => gen'[t] = gen[t]
           /\ status'[t] = "accepted" =>
                 \/ status[t] \in {"absent", "accepted"} /\ gen'[t] = gen[t]
                 \/ status[t] = "running" /\ gen'[t] = gen[t] + 1
           /\ cancelReq[t] => cancelReq'[t]
           /\ status[t] \in Final => status'[t] \in Final
           /\ cancelReq'[t] => cancelReq[t] \/ status'[t] \notin Active \union {"absent"}
           /\ status'[t] \in Active =>
                 status[t] \in Active \/ \A u \in Turns \ {t} : status'[u] \notin Active
<1>0. /\ status \in [Turns -> Statuses] /\ gen \in [Turns -> Gens]
      /\ cancelReq \in [Turns -> BOOLEAN]
  BY DEF StartOK, TypeInv, TypeOK
<1> USE DEF Statuses, Active, Final, Lifecycle!Active, Lifecycle!Final
<1>1. CASE SameRow
  BY <1>1 DEF SameRow
<1>2. ASSUME NEW u \in Turns, Lifecycle!Submit(u)
      PROVE  status' = [status EXCEPT ![u] = "accepted"] /\ status[u] = "absent"
             /\ gen' = gen /\ cancelReq' = cancelReq /\ \A v \in Turns : status[v] \notin Active
  BY <1>2 DEF Lifecycle!Submit
<1>3. CASE \E u \in Turns : Lifecycle!Submit(u)
  BY <1>0, <1>2, <1>3
<1>4. CASE \E u \in Turns : Lifecycle!Take(u)
  BY <1>0, <1>4 DEF Lifecycle!Take
<1>5. CASE \E u \in Turns : Lifecycle!GiveBack(u)
  BY <1>0, <1>5 DEF Lifecycle!GiveBack
<1>6. CASE \E u \in Turns : Lifecycle!End(u)
  BY <1>0, <1>6 DEF Lifecycle!End
<1>7. CASE \E u \in Turns : Lifecycle!Cancel(u)
  BY <1>0, <1>7 DEF Lifecycle!Cancel
<1>8. CASE \E u \in Turns : Lifecycle!Overrule(u)
  BY <1>0, <1>8 DEF Lifecycle!Overrule
<1> QED
  BY <1>1, <1>3, <1>4, <1>5, <1>6, <1>7, <1>8 DEF Lifecycle!Next

LEMMA VacantStep ==
    ASSUME StartOK, Sound, [Next]_vars
    PROVE  Vacant'
<1> SUFFICES ASSUME NEW t \in Turns, status'[t] \in {"absent", "accepted"}
             PROVE  task'[t][gen'[t]] = "none"
  BY DEF Vacant
<1>0. gen[t] \in Gens /\ gen'[t] \in Gens
  BY NextTypes DEF StartOK, TypeInv, TypeOK
<1>1. task[t][gen'[t]] = "none"
  <2>1. CASE status[t] \in {"absent", "accepted"} /\ gen'[t] = gen[t]
    BY <2>1 DEF Sound, Vacant
  <2>2. CASE gen'[t] = gen[t] + 1
    <3>1. gen'[t] > gen[t]
      BY <1>0, <2>2, DeliveryAssumption DEF Gens
    <3> QED
      BY <1>0, <3>1 DEF StartOK, StartInv, StartInvAt
  <2> QED
    BY <2>1, <2>2, StepImplements, RowMoves
<1> QED
  BY <1>0, <1>1, NoneStays

LEMMA OneActiveStep ==
    ASSUME StartOK, Sound, [Next]_vars
    PROVE  OneActive'
<1> SUFFICES ASSUME NEW t \in Turns, NEW u \in Turns, status'[t] \in Active, status'[u] \in Active
             PROVE  t = u
  BY DEF OneActive
<1>1. SameRow \/ Lifecycle!Next
  BY StepImplements
<1>2. status[t] \in Active \/ t = u
  BY <1>1, RowMoves
<1>3. status[u] \in Active \/ t = u
  BY <1>1, RowMoves
<1> QED
  BY <1>2, <1>3 DEF Sound, OneActive

\* The row's part of Asked, and the gateway's.
LEMMA RequestsAreRecorded ==
    ASSUME StartOK, Sound, [Next]_vars, NEW t \in Turns
    PROVE  /\ cancelReq'[t] => status'[t] \in Final
           /\ cancelPc'[t] # "none" => status'[t] # "absent"
           /\ cancelPc'[t] \in {"ensure", "append", "signal"} => cancelReq'[t]
           /\ cancelKey'[t] => cancelReq'[t]
<1>0. /\ status' \in [Turns -> Statuses]
      /\ cancelReq \in [Turns -> BOOLEAN] /\ cancelKey \in [Turns -> BOOLEAN]
      /\ cancelPc \in [Turns -> {"none", "request", "ensure", "append", "signal", "done"}]
  BY NextTypes DEF StartOK, TypeInv, TypeOK
<1>1. SameRow \/ Lifecycle!Next
  BY StepImplements
<1>2. cancelReq'[t] => status'[t] \in Final
  BY <1>0, <1>1, RowMoves DEF Sound, Asked, Statuses
<1>3. (cancelReq[t] => cancelReq'[t]) /\ (status'[t] = "absent" => status[t] = "absent")
  BY <1>1, RowMoves
<1> DEFINE Goal == /\ cancelPc'[t] # "none" => status'[t] # "absent"
                   /\ cancelPc'[t] \in {"ensure", "append", "signal"} => cancelReq'[t]
                   /\ cancelKey'[t] => cancelReq'[t]
<1>4. UNCHANGED <<cancelPc, cancelKey>> => Goal
  BY <1>3 DEF Sound, Asked
<1>5. ASSUME NEW u \in Turns, GatewayStep(u) PROVE Goal
  <2>1. CASE SubmitTurn(u) \/ EmitAccepted(u)
    <3>1. UNCHANGED <<cancelPc, cancelKey>>
      BY <2>1 DEF SubmitTurn, EmitAccepted, redisVars
    <3> QED
      BY <1>4, <3>1
  <2>2. CASE CancelTurn(u)
    BY <1>0, <1>3, <2>2 DEF CancelTurn, redisVars, rowVars, Active, Sound, Asked
  <2>3. CASE RequestCancellation(u)
    BY <1>0, <1>3, <2>3 DEF RequestCancellation, redisVars, Sound, Asked
  <2>4. CASE CancelEnsures(u)
    BY <1>0, <1>3, <2>4 DEF CancelEnsures, redisVars, Sound, Asked
  <2>5. CASE CancelAppends(u)
    BY <1>0, <1>3, <2>5 DEF CancelAppends, redisVars, Sound, Asked
  <2>6. CASE CancelSignals(u)
    BY <1>0, <1>3, <2>6 DEF CancelSignals, Sound, Asked
  <2> QED
    BY <1>5, <2>1, <2>2, <2>3, <2>4, <2>5, <2>6 DEF GatewayStep
<1>6. ASSUME GatewayCrash PROVE Goal
  BY <1>0, <1>3, <1>6 DEF GatewayCrash, redisVars, Sound, Asked
<1>7. ASSUME ~GatewayCrash, \A u \in Turns : ~GatewayStep(u) PROVE UNCHANGED <<cancelPc, cancelKey>>
  BY <1>7 DEF Next, LoopStep, CheckCancelKey, CheckTerminal, CheckCancelKeyAgain, ClaimCancelled,
     ClaimNone, ClaimForbidden, ClaimTurn, ExecutionEnds, CancelExecution, Drain, CancelPending,
     EnsureReads, EnsureAppends, Ack, RelayPass, Receive, Reclaim, LeaseHeartbeat, CancelActive,
     ExecStep, ExecWrite, EngineReturns, LateWrite, LeaseExpires, FaultStep, RelayFails, ReclaimBusy,
     HeartbeatFails, IterationFails, WorkerCrash, RevokeAuthorization, DeadlineInWrite,
     ExecWriteFails, Finished, vars, gatewayVars, redisVars
<1> QED
  BY <1>2, <1>4, <1>5, <1>6, <1>7

\* A loop acts on a cancellation only once it has seen the request.
LEMMA LoopsAreAsked ==
    ASSUME StartOK, Sound, [Next]_vars, NEW w \in Workers,
           loop'[w].pc \in {"killCancel", "drain", "cpRead"}
    PROVE  loop'[w].turn \in Turns /\ cancelReq[loop'[w].turn]
<1>0. /\ TypeInv /\ loop \in [Workers -> Loop] /\ stream \in [Turns -> Seq(Delivery)]
      /\ cancelReq \in [Turns -> BOOLEAN] /\ gen \in [Turns -> Gens]
  BY DEF StartOK, TypeInv, TypeOK
<1> DEFINE Goal == loop'[w].turn \in Turns /\ cancelReq[loop'[w].turn]
<1>1. loop'[w] = loop[w] => Goal
  BY <1>0 DEF Sound, Asked, TypeInv, LoopOK
<1>2. loop'[w].turn = loop[w].turn /\ loop[w].pc # "idle" /\ cancelReq[loop[w].turn] => Goal
  BY <1>0 DEF TypeInv, LoopOK
<1> HIDE DEF Goal
<1>3. ASSUME NEW v \in Workers, LoopStep(v) \/ LeaseHeartbeat(v) \/ CancelActive(v)
                                \/ HeartbeatFails(v) \/ IterationFails(v)
      PROVE  Goal
  <2>1. CASE v # w
    <3>1. loop'[w] = loop[w]
      BY <1>0, <1>3, <2>1
         DEF LoopStep, CheckCancelKey, CheckTerminal, CheckCancelKeyAgain, ClaimCancelled,
             ClaimNone, ClaimForbidden, ClaimTurn, ExecutionEnds, CancelExecution, Drain,
             CancelPending, EnsureReads, EnsureAppends, Ack, LeaseHeartbeat, CancelActive,
             HeartbeatFails, IterationFails, GoTo, Abandon
    <3> QED
      BY <1>1, <3>1
  <2>2. CASE v = w
    <3>1. Abandon(w) => FALSE
      BY <1>0, AbandonFields
    <3>2. ASSUME NEW label \in LoopPcs, GoTo(w, label)
          PROVE  loop'[w].turn = loop[w].turn /\ loop'[w].pc = label
      BY <1>0, <3>2, GoToFields
    <3>3. ASSUME NEW label \in LoopPcs, NEW plan \in Seq(EndTypes),
                 loop' = [loop EXCEPT ![w].pc = label, ![w].todo = plan]
          PROVE  loop'[w].turn = loop[w].turn /\ loop'[w].pc = label
      BY <1>0, <3>3, PlanFields
    <3>4. {"killCancel", "drain", "cpRead", "ack", "term", "claim", "kill", "append", "ensure",
           "key2", "wait"} \subseteq LoopPcs
      BY DEF LoopPcs
    <3>5. CASE CheckCancelKey(w) \/ CheckCancelKeyAgain(w)
      <4>1. loop[w].pc # "idle" /\ loop[w].turn \in Turns
        BY <1>0, <3>5 DEF CheckCancelKey, CheckCancelKeyAgain, TypeInv, LoopOK
      <4>2. cancelKey[loop[w].turn]
        BY <3>2, <3>4, <3>5 DEF CheckCancelKey, CheckCancelKeyAgain
      <4> QED
        BY <1>2, <3>2, <3>4, <3>5, <4>1, <4>2 DEF CheckCancelKey, CheckCancelKeyAgain, Sound, Asked
    <3>6. CASE ClaimCancelled(w)
      BY <1>2, <3>2, <3>4, <3>6 DEF ClaimCancelled
    <3>7. CASE CancelActive(w)
      <4>1. loop[w].turn \in Turns
        BY <1>0, <3>7 DEF CancelActive, TypeInv, LoopOK
      <4> QED
        BY <1>2, <3>2, <3>4, <3>7, <4>1 DEF CancelActive, Sound, Asked
    <3>8. CASE LeaseHeartbeat(w)
      BY <1>1, <1>2, <3>2, <3>4, <3>8 DEF LeaseHeartbeat
    <3>9. CASE CancelExecution(w) \/ Drain(w)
      <4>1. loop[w].pc \in {"killCancel", "drain"}
        BY <3>1, <3>9 DEF CancelExecution, Drain
      <4>2. loop'[w].turn = loop[w].turn
        BY <3>1, <3>2, <3>4, <3>9 DEF CancelExecution, Drain
      <4> QED
        BY <1>2, <4>1, <4>2 DEF Sound, Asked
    <3>10. CASE CheckTerminal(w)
      <4> DEFINE plan == Repairs(status[loop[w].turn])
                 label == IF plan = <<>> THEN "key2" ELSE "ensure"
      <4>1. plan \in Seq(EndTypes)
        BY Plans DEF Repairs
      <4>2. label \in {"key2", "ensure"}
        OBVIOUS
      <4>3. loop' = [loop EXCEPT ![w].pc = label, ![w].todo = plan]
        BY <3>10 DEF CheckTerminal
      <4> HIDE DEF plan, label
      <4> QED
        BY <3>3, <3>4, <4>1, <4>2, <4>3
    <3>11. CASE CancelPending(w)
      <4> DEFINE finished == status[loop[w].turn] \in {"completed", "failed"}
                 plan == IF finished THEN <<>> ELSE <<"cancelled">>
                 label == IF finished THEN "ack" ELSE "ensure"
      <4>1. plan \in Seq(EndTypes)
        BY Plans
      <4>2. label \in {"ack", "ensure"}
        OBVIOUS
      <4>3. loop' = [loop EXCEPT ![w].pc = label, ![w].todo = plan]
        BY <3>11 DEF CancelPending
      <4> HIDE DEF plan, label
      <4> QED
        BY <3>3, <3>4, <4>1, <4>2, <4>3
    <3>12. CASE EnsureAppends(w) \/ EnsureReads(w)
      <4>1. loop[w].pc \in {"ensure", "append"}
        BY <3>12 DEF EnsureReads, EnsureAppends
      <4>2. loop'[w].pc \in {"ensure", "append", "ack"} \union {loop[w].pc}
        BY <1>0, <3>1, <3>2, <3>4, <3>12 DEF EnsureReads, EnsureAppends, Loop
      <4> QED
        BY <4>1, <4>2
    <3>13. CASE ClaimTurn(w)
      <4>1. loop'[w].pc = "wait"
        BY <1>0, <3>13 DEF ClaimTurn, Loop
      <4> QED
        BY <4>1
    <3>14. CASE ClaimNone(w) \/ ClaimForbidden(w) \/ ExecutionEnds(w) \/ Ack(w)
                \/ HeartbeatFails(w) \/ IterationFails(w)
      BY <3>1, <3>2, <3>4, <3>14 DEF ClaimNone, ClaimForbidden, ExecutionEnds, Ack, HeartbeatFails,
                                     IterationFails
    <3> QED
      BY <1>3, <2>2, <3>5, <3>6, <3>7, <3>8, <3>9, <3>10, <3>11, <3>12, <3>13, <3>14 DEF LoopStep
  <2> QED
    BY <2>1, <2>2
<1>4. ASSUME NEW v \in Workers, Receive(v) \/ Reclaim(v) \/ ReclaimBusy(v) PROVE Goal
  <2>0. \E t \in Turns : \E i \in DOMAIN stream[t] : Take(v, t, i)
    BY <1>4 DEF Receive, Reclaim, ReclaimBusy
  <2>1. PICK t \in Turns : \E i \in DOMAIN stream[t] : Take(v, t, i)
    BY <2>0
  <2>2. /\ \A x \in Workers \ {v} : loop'[x] = loop[x]
        /\ loop'[v].pc = "key"
    BY <1>0, <2>1, TakeFields
  <2> QED
    BY <1>1, <2>2
<1>5. ASSUME NEW v \in Workers, WorkerCrash(v) PROVE Goal
  <2>1. v # w => loop'[w] = loop[w]
    BY <1>0, <1>5 DEF WorkerCrash
  <2>2. v = w => loop'[w].pc = "idle"
    BY <1>0, <1>5 DEF WorkerCrash, Idle
  <2> QED
    BY <1>1, <2>1, <2>2
<1>6. ASSUME \/ \E u \in Turns : GatewayStep(u) \/ LeaseExpires(u) \/ RevokeAuthorization(u)
             \/ \E v \in Workers : RelayPass(v) \/ RelayFails(v)
             \/ \E u \in Turns, g \in Gens :
                   ExecStep(u, g) \/ DeadlineInWrite(u, g) \/ ExecWriteFails(u, g)
             \/ GatewayCrash \/ Finished \/ UNCHANGED vars
      PROVE  Goal
  <2>1. loop' = loop
    BY <1>6 DEF GatewayStep, SubmitTurn, EmitAccepted, CancelTurn, RequestCancellation, CancelEnsures,
                CancelAppends, CancelSignals, LeaseExpires, RevokeAuthorization, RelayPass, RelayFails,
                ExecStep, ExecWrite, EngineReturns, LateWrite, DeadlineInWrite, ExecWriteFails,
                GatewayCrash, Finished, vars
  <2> QED
    BY <1>1, <2>1
<1> QED
  BY <1>3, <1>4, <1>5, <1>6 DEF Next, FaultStep, Goal

LEMMA SoundStep ==
    ASSUME StartOK, Sound, [Next]_vars
    PROVE  Sound'
<1>1. \A w \in Workers : loop'[w].pc \in {"killCancel", "drain", "cpRead"} =>
         cancelReq'[loop'[w].turn]
  BY LoopsAreAsked, StepImplements, RowMoves
<1>2. Asked'
  BY <1>1, RequestsAreRecorded DEF Asked
<1> QED
  BY <1>2, VacantStep, OneActiveStep DEF Sound

LEMMA SoundInvariant == Spec => [](StartOK /\ Sound)
<1>1. Init => Sound
  BY DeliveryAssumption DEF Init, Sound, Vacant, Asked, OneActive, Active, Idle, Gens
<1> QED
  BY <1>1, StartsInvariant, SoundStep, PTL DEF Spec

\* The turn table implements its promise: through queues, leases, duplicate
\* deliveries, abandoned threads, recovery and crashes, whatever create_turn,
\* claim_turn, update_turn, the heartbeat, the finalizer and
\* recover_stuck_turns write to a row is a step of TurnLifecycle.
THEOREM TurnsFollowTheLifecycle == Spec => ImplementsLifecycle
<1>1. Init => Lifecycle!Init
  BY DEF Init, Lifecycle!Init
<1>2. StartOK /\ Sound /\ [Next]_vars => [Lifecycle!Next]_(Lifecycle!vars)
  BY StepImplements DEF SameRow, Lifecycle!vars
<1> QED
  BY <1>1, <1>2, SoundInvariant, PTL DEF Spec, ImplementsLifecycle, Lifecycle!Spec

-----------------------------------------------------------------------------
(* The end a log tells is the end of the turn *)

\* The row says e, or a cancellation on request has overruled it.
Stands(t, e) == status[t] = e \/ (status[t] = "cancelled" /\ cancelReq[t])

Ends == {"completed", "failed"}

\* The repository calls and the planned events that tell a client of end e.
EndWrites(e) == IF e = "completed" THEN {"emitMessage", "emitCompleted"} ELSE {"emitFailed"}
EndEvents(e) == IF e = "completed" THEN {"message", "completed"} ELSE {"failed"}

\* The log, an execution, a thread it left behind or a loop that repairs the
\* log tells that turn t ended with e, or is about to.
InCalls(t, e) == \E g \in Gens : \E write \in EndWrites(e) :
                    task[t][g] = write \/ write \in late[t][g]
InLoops(t, e) == \E w \in Workers : /\ loop[w].turn = t
                                    /\ \E i \in DOMAIN loop[w].todo : loop[w].todo[i] \in EndEvents(e)
Told(t, e) == Logged(t, e) \/ InCalls(t, e) \/ InLoops(t, e)

TellsTheTruth == \A t \in Turns : \A e \in Ends : Told(t, e) => Stands(t, e)

LEMMA StandsStays ==
    ASSUME StartOK, Sound, [Next]_vars, NEW t \in Turns, NEW e \in Ends, Stands(t, e)
    PROVE  Stands(t, e)'
<1>1. /\ status[t] \in Final => status'[t] = status[t] \/ (status'[t] = "cancelled" /\ cancelReq[t])
  BY RowSteps DEF RowStep, StartOK
<1>2. cancelReq[t] => cancelReq'[t]
  BY StepImplements, RowMoves
<1> QED
  BY <1>1, <1>2 DEF Stands, Ends, Final

\* One event more in one log.
LEMMA OneMoreLogged ==
    ASSUME TypeOK, NEW u \in Turns, NEW event \in Event, log' = [log EXCEPT ![u] = Append(@, event)],
           NEW t \in Turns, NEW e, Logged(t, e)'
    PROVE  Logged(t, e) \/ (t = u /\ event.type = e)
<1>0. log \in [Turns -> Seq(Event)] /\ log[t] \in Seq(Event) /\ log[u] \in Seq(Event)
  BY DEF TypeOK
<1>1. PICK i \in 1..Len(log'[t]) : log'[t][i].type = e
  BY DEF Logged
<1>2. CASE t # u
  <2>1. log'[t] = log[t]
    BY <1>0, <1>2
  <2> QED
    BY <1>1, <2>1 DEF Logged
<1>3. CASE t = u
  <2>1. log'[t] = Append(log[t], event)
    BY <1>0, <1>3
  <2>2. CASE i \in 1..Len(log[t])
    <3>1. log'[t][i] = log[t][i]
      BY <1>0, <2>1, <2>2
    <3> QED
      BY <1>1, <2>2, <3>1 DEF Logged
  <2>3. CASE i \notin 1..Len(log[t])
    <3>1. i = Len(log[t]) + 1 /\ log'[t][i] = event
      BY <1>0, <1>1, <2>1, <2>3
    <3> QED
      BY <1>1, <1>3, <3>1
  <2> QED
    BY <2>2, <2>3
<1> QED
  BY <1>2, <1>3

\* Nobody logs an end that was not planned.
LEMMA LoggedWasTold ==
    ASSUME StartOK, [Next]_vars, NEW t \in Turns, NEW e \in Ends, Logged(t, e)'
    PROVE  Told(t, e)
<1>0. /\ TypeInv /\ TypeOK /\ gen \in [Turns -> Gens] /\ log \in [Turns -> Seq(Event)]
      /\ loop \in [Workers -> Loop] /\ late \in [Turns -> [Gens -> SUBSET Writes]]
      /\ e # "accepted" /\ e # "cancelled" /\ e # "handover" /\ e # "started" /\ e # "message"
  BY DEF StartOK, TypeInv, TypeOK, Ends
<1>1. log' = log => Told(t, e)
  BY DEF Logged, Told
<1>2. ASSUME NEW u \in Turns, NEW type \in EventTypes, log' = Appended(u, type)
      PROVE  Logged(t, e) \/ (t = u /\ type = e)
  <2>1. [type |-> type, gen |-> gen[u]] \in Event
    BY <1>0 DEF Event
  <2> QED
    BY <1>0, <1>2, <2>1, OneMoreLogged DEF Appended
<1>3. {"accepted", "cancelled", "handover", "started", "message", "completed", "failed"} \subseteq EventTypes
  BY DEF EventTypes, EndTypes
<1>4. ASSUME NEW u \in Turns, NEW g \in Gens, NEW write \in Writes, FencedWrite(u, g, write),
             task[u][g] = write \/ write \in late[u][g]
      PROVE  Told(t, e)
  <2>1. CASE gen[u] = g /\ write \in DOMAIN Emits
    <3>1. log' = Appended(u, Emits[write])
      BY <1>4, <2>1 DEF FencedWrite
    <3>2. Emits[write] \in EventTypes /\ (Emits[write] = e => write \in EndWrites(e))
      BY <1>3, <2>1 DEF Emits, EndWrites, Ends
    <3> QED
      BY <1>2, <1>4, <3>1, <3>2 DEF Told, InCalls
  <2>2. CASE ~(gen[u] = g /\ write \in DOMAIN Emits)
    BY <1>1, <1>4, <2>2 DEF FencedWrite
  <2> QED
    BY <2>1, <2>2
<1>5. ASSUME NEW u \in Turns, GatewayStep(u) PROVE Told(t, e)
  <2>1. CASE EmitAccepted(u)
    BY <1>0, <1>2, <1>3, <2>1 DEF EmitAccepted, Told
  <2>2. CASE CancelAppends(u)
    BY <1>0, <1>2, <1>3, <2>2 DEF CancelAppends, Told
  <2>3. CASE ~EmitAccepted(u) /\ ~CancelAppends(u)
    BY <1>1, <1>5, <2>3 DEF GatewayStep, SubmitTurn, CancelTurn, RequestCancellation, CancelEnsures,
                            CancelSignals
  <2> QED
    BY <2>1, <2>2, <2>3
<1>6. ASSUME NEW w \in Workers, EnsureAppends(w) PROVE Told(t, e)
  <2>1. /\ loop[w].turn \in Turns /\ loop[w].todo \in Seq(EndTypes) /\ loop[w].todo # <<>>
    BY <1>0, <1>6 DEF EnsureAppends, TypeInv, LoopOK, Loop
  <2>2. /\ 1 \in DOMAIN loop[w].todo /\ Head(loop[w].todo) = loop[w].todo[1]
        /\ Head(loop[w].todo) \in EndTypes
    BY <2>1
  <2>3. log' = Appended(loop[w].turn, Head(loop[w].todo)) /\ Head(loop[w].todo) \in EventTypes
    BY <1>6, <2>2 DEF EnsureAppends, EventTypes
  <2>4. e \in EndEvents(e)
    BY DEF EndEvents, Ends
  <2> QED
    BY <1>2, <2>1, <2>2, <2>3, <2>4 DEF Told, InLoops
<1>7. ASSUME NEW w \in Workers, RelayPass(w) PROVE Told(t, e)
  <2>1. CASE Retried(t)
    <3> DEFINE event == [type |-> "handover", gen |-> gen[t] + 1]
    <3>1. log'[t] = Append(log[t], event) /\ log[t] \in Seq(Event)
      BY <1>0, <1>7, <2>1 DEF RelayPass
    <3>2. gen[t] \in 0..MaxGen /\ gen[t] < 2 * MaxRetries /\ event.type = "handover"
      BY <1>0, <2>1 DEF Retried, Gens
    <3>3. event \in Event
      BY <3>2, <1>3, DeliveryAssumption DEF Event, Gens
    <3> HIDE DEF event
    <3>4. PICK i \in 1..Len(log'[t]) : log'[t][i].type = e
      BY DEF Logged
    <3>5. i \in 1..Len(log[t])
      BY <1>0, <3>1, <3>2, <3>3, <3>4
    <3>6. log[t][i].type = e
      BY <3>1, <3>3, <3>4, <3>5
    <3> QED
      BY <3>5, <3>6 DEF Logged, Told
  <2>2. CASE ~Retried(t)
    <3>1. log'[t] = log[t]
      BY <1>0, <1>7, <2>2 DEF RelayPass
    <3> QED
      BY <3>1 DEF Logged, Told
  <2> QED
    BY <2>1, <2>2
<1>8. ASSUME NEW u \in Turns, NEW g \in Gens, ExecStep(u, g) PROVE Told(t, e)
  <2>1. CASE ExecWrite(u, g)
    BY <1>4, <2>1 DEF ExecWrite
  <2>2. CASE LateWrite(u, g)
    <3>1. late[u][g] \subseteq Writes
      BY <1>0
    <3> QED
      BY <1>4, <2>2, <3>1 DEF LateWrite
  <2>3. CASE EngineReturns(u, g)
    BY <1>1, <2>3 DEF EngineReturns
  <2> QED
    BY <1>8, <2>1, <2>2, <2>3 DEF ExecStep
<1>9. ASSUME \/ \E w \in Workers : LoopStep(w) /\ ~EnsureAppends(w)
             \/ FaultStep \/ Finished \/ UNCHANGED vars
             \/ \E u \in Turns : LeaseExpires(u)
             \/ \E w \in Workers : Receive(w) \/ Reclaim(w) \/ LeaseHeartbeat(w) \/ CancelActive(w)
      PROVE  log' = log
  BY <1>9 DEF LoopStep, CheckCancelKey, CheckTerminal, CheckCancelKeyAgain, ClaimCancelled,
              ClaimNone, ClaimForbidden, ClaimTurn, ExecutionEnds, CancelExecution, Drain,
              CancelPending, EnsureReads, Ack, LeaseHeartbeat, CancelActive,
              FaultStep, Finished, vars, GatewayCrash, RelayFails, ReclaimBusy, HeartbeatFails,
              IterationFails, WorkerCrash, RevokeAuthorization, DeadlineInWrite, ExecWriteFails,
              Receive, Reclaim, LeaseExpires
<1> QED
  BY <1>1, <1>5, <1>6, <1>7, <1>8, <1>9 DEF Next

\* An execution starts to tell of an end only when update_turn has left it in
\* the row.
LEMMA CallsTellTheRow ==
    ASSUME StartOK, [Next]_vars, NEW t \in Turns, NEW e \in Ends, InCalls(t, e)'
    PROVE  InCalls(t, e) \/ status'[t] = e
<1>0. /\ TypeInv /\ task \in [Turns -> [Gens -> TaskPcs]] /\ gen \in [Turns -> Gens]
      /\ late \in [Turns -> [Gens -> SUBSET Writes]]
  BY DEF StartOK, TypeInv, TypeOK
<1>1. EndWrites(e) \subseteq {"emitMessage", "emitCompleted", "emitFailed"}
  BY DEF EndWrites
<1>2. PICK g \in Gens, write \in EndWrites(e) : task'[t][g] = write \/ write \in late'[t][g]
  BY DEF InCalls, EndWrites
<1> DEFINE Goal == InCalls(t, e) \/ status'[t] = e
<1>3. task[t][g] = write \/ write \in late[t][g] => Goal
  BY <1>2 DEF InCalls
<1>4. ASSUME NEW u \in Turns, NEW h \in Gens, NEW p,
             task' = [task EXCEPT ![u][h] = p], late' = late, p = write => Goal \/ u # t
      PROVE  Goal
  BY <1>0, <1>2, <1>3, <1>4
<1> HIDE DEF Goal
<1>5. ASSUME NEW w \in Workers, LoopStep(w) PROVE Goal
  <2>1. CASE ClaimTurn(w)
    <3>1. PICK u \in Turns : u = loop[w].turn
      BY <1>0, <2>1 DEF ClaimTurn, TypeInv, LoopOK
    <3>2. gen[u] + 1 \in Gens
      <4>1. gen[u] \in 0..MaxGen /\ gen[u] < MaxGen /\ MaxGen \in Nat
        BY <1>0, <2>1, <3>1, DeliveryAssumption DEF ClaimTurn, Gens
      <4> QED
        BY <4>1 DEF Gens
    <3>3. task' = [task EXCEPT ![u][gen[u] + 1] = "run"] /\ late' = late
      BY <2>1, <3>1 DEF ClaimTurn
    <3>4. write # "run"
      BY <1>1
    <3> QED
      BY <1>4, <3>2, <3>3, <3>4
  <2>2. CASE CancelExecution(w)
    <3>1. PICK u \in Turns, h \in Gens : u = loop[w].turn /\ h = loop[w].gen
      BY <1>0, <2>2 DEF CancelExecution, TypeInv, TypeOK, LoopOK, Loop
    <3>2. task' = [task EXCEPT ![u][h] = Cancelled(task[u][h])]
      BY <2>2, <3>1 DEF CancelExecution
    <3>3. PICK call \in SUBSET ({task[u][h]} \intersect (Writes \ {"run"})) :
             late' = [late EXCEPT ![u][h] = @ \union call]
      BY <2>2, <3>1 DEF CancelExecution
    <3>4. Cancelled(task[u][h]) # write
      BY <1>1 DEF Cancelled, Writes
    <3>5. CASE u = t /\ h = g
      BY <1>0, <1>2, <1>3, <3>2, <3>3, <3>4, <3>5
    <3>6. CASE ~(u = t /\ h = g)
      BY <1>0, <1>2, <1>3, <3>2, <3>3, <3>6
    <3> QED
      BY <3>5, <3>6
  <2>3. CASE ~ClaimTurn(w) /\ ~CancelExecution(w)
    <3>1. task' = task /\ late' = late
      BY <1>5, <2>3
         DEF LoopStep, CheckCancelKey, CheckTerminal, CheckCancelKeyAgain, ClaimCancelled, ClaimNone,
             ClaimForbidden, ExecutionEnds, Drain, CancelPending,
             EnsureReads, EnsureAppends, Ack, execVars
    <3> QED
      BY <1>2, <1>3, <3>1
  <2> QED
    BY <2>1, <2>2, <2>3
<1>6. ASSUME NEW u \in Turns, NEW h \in Gens, ExecWrite(u, h) PROVE Goal
  <2> DEFINE p == task[u][h]
             q == IF Passes(u, h, p) THEN After(u, p, status'[u]) ELSE Raised(p)
  <2>1. p \in Writes /\ task' = [task EXCEPT ![u][h] = q] /\ late' = late
    BY <1>6 DEF ExecWrite
  <2>2. ASSUME q = write, u = t PROVE Goal
    <3>1. Raised(p) # write
      BY <1>1 DEF Raised
    <3>2. After(u, p, status'[u]) = write
      BY <2>2, <3>1
    <3>3. CASE p \in {"complete", "fail"}
      <4>1. TerminalStep(status'[u]) = write
        BY <3>2, <3>3 DEF After
      <4>2. status'[u] = e
        BY <1>1, <4>1 DEF TerminalStep, EndWrites, Ends
      <4> QED
        BY <2>2, <4>2 DEF Goal
    <3>4. CASE p = "emitMessage"
      <4>1. write = "emitCompleted"
        BY <3>2, <3>4 DEF After
      <4>2. "emitMessage" \in EndWrites(e)
        BY <4>1 DEF EndWrites
      <4> QED
        BY <2>2, <3>4, <4>2 DEF InCalls, Goal
    <3>5. CASE p \notin {"complete", "fail", "emitMessage"}
      BY <1>1, <2>1, <3>2, <3>5 DEF After, Writes
    <3> QED
      BY <3>3, <3>4, <3>5
  <2> HIDE DEF q
  <2> QED
    BY <1>4, <2>1, <2>2
<1>7. ASSUME NEW u \in Turns, NEW h \in Gens,
             EngineReturns(u, h) \/ ExecWriteFails(u, h)
      PROVE  Goal
  <2>1. \E p \in {"complete", "fail", "error"} : task' = [task EXCEPT ![u][h] = p]
    BY <1>7 DEF EngineReturns, ExecWriteFails, Raised
  <2>2. late' = late
    BY <1>7 DEF EngineReturns, ExecWriteFails
  <2> QED
    BY <1>1, <1>4, <2>1, <2>2
<1>8. ASSUME NEW u \in Turns, NEW h \in Gens, LateWrite(u, h) \/ DeadlineInWrite(u, h)
      PROVE  Goal
  <2>1. CASE LateWrite(u, h)
    <3>1. task' = task
      BY <2>1 DEF LateWrite
    <3>2. PICK call : late' = [late EXCEPT ![u][h] =
                IF call = "ensureCancelled" /\ ~Logged(u, "cancelled")
                THEN (@ \ {call}) \union {"appendCancelled"} ELSE @ \ {call}]
      BY <2>1 DEF LateWrite
    <3>3. late'[t][g] \subseteq late[t][g] \union {"appendCancelled"}
      BY <1>0, <3>2
    <3> QED
      BY <1>1, <1>2, <1>3, <3>1, <3>3
  <2>2. CASE DeadlineInWrite(u, h)
    <3>1. task' = [task EXCEPT ![u][h] = "fail"] /\ late' = [late EXCEPT ![u][h] = @ \union {"complete"}]
      BY <2>2 DEF DeadlineInWrite
    <3>2. late'[t][g] \subseteq late[t][g] \union {"complete"}
      BY <1>0, <3>1
    <3>3. task'[t][g] \in {task[t][g], "fail"}
      BY <1>0, <3>1
    <3> QED
      BY <1>1, <1>2, <1>3, <3>2, <3>3
  <2> QED
    BY <1>8, <2>1, <2>2
<1>9. ASSUME NEW w \in Workers, WorkerCrash(w) PROVE Goal
  <2>1. task'[t][g] \in {task[t][g], "gone"} /\ late'[t][g] \subseteq late[t][g]
    BY <1>0, <1>9 DEF WorkerCrash
  <2> QED
    BY <1>1, <1>2, <1>3, <2>1
<1>10. ASSUME \/ \E u \in Turns : GatewayStep(u) \/ LeaseExpires(u) \/ RevokeAuthorization(u)
              \/ \E w \in Workers :
                    \/ Receive(w) \/ Reclaim(w) \/ ReclaimBusy(w) \/ LeaseHeartbeat(w) \/ RelayPass(w)
                    \/ HeartbeatFails(w) \/ CancelActive(w) \/ IterationFails(w) \/ RelayFails(w)
              \/ GatewayCrash \/ UNCHANGED vars
       PROVE  Goal
  <2>1. task' = task /\ late' = late
    BY <1>10 DEF GatewayStep, SubmitTurn, EmitAccepted, CancelTurn, RequestCancellation, CancelEnsures,
                CancelAppends, CancelSignals, LeaseExpires, RevokeAuthorization, Receive, Reclaim,
                ReclaimBusy, LeaseHeartbeat, RelayPass, HeartbeatFails, CancelActive, IterationFails,
                RelayFails, GatewayCrash, execVars, vars
  <2> QED
    BY <1>2, <1>3, <2>1
<1> QED
  BY <1>5, <1>6, <1>7, <1>8, <1>9, <1>10 DEF Next, FaultStep, Finished, ExecStep, Goal

\* A loop plans to repair an end only when is_terminal has read it in the row.
LEMMA LoopsTellTheRow ==
    ASSUME StartOK, [Next]_vars, NEW t \in Turns, NEW e \in Ends, InLoops(t, e)'
    PROVE  InLoops(t, e) \/ status'[t] = e
<1>0. /\ TypeInv /\ loop \in [Workers -> Loop] /\ stream \in [Turns -> Seq(Delivery)]
  BY DEF StartOK, TypeInv, TypeOK
<1> DEFINE Tells(todo) == \E i \in DOMAIN todo : todo[i] \in EndEvents(e)
<1>1. PICK w \in Workers : loop'[w].turn = t /\ Tells(loop'[w].todo)
  BY DEF InLoops
<1> DEFINE Goal == InLoops(t, e) \/ status'[t] = e
<1>2. loop[w].turn = t /\ Tells(loop[w].todo) => Goal
  BY DEF InLoops
<1>3. t # NoTurn /\ EndEvents(e) \subseteq EndTypes \ {"cancelled"}
  BY DeliveryAssumption DEF EndEvents, EndTypes
<1>4. ~Tells(<<>>) /\ ~Tells(<<"cancelled">>)
  BY <1>3
<1> HIDE DEF Goal, Tells
<1>5. loop'[w] = loop[w] => Goal
  BY <1>1, <1>2
<1>6. ASSUME NEW v \in Workers, LoopStep(v) \/ LeaseHeartbeat(v) \/ CancelActive(v)
                                \/ HeartbeatFails(v) \/ IterationFails(v)
      PROVE  Goal
  <2>1. CASE v # w
    <3>1. loop'[w] = loop[w]
      BY <1>0, <1>6, <2>1
         DEF LoopStep, CheckCancelKey, CheckTerminal, CheckCancelKeyAgain, ClaimCancelled,
             ClaimNone, ClaimForbidden, ClaimTurn, ExecutionEnds, CancelExecution, Drain,
             CancelPending, EnsureReads, EnsureAppends, Ack, LeaseHeartbeat, CancelActive,
             HeartbeatFails, IterationFails, GoTo, Abandon
    <3> QED
      BY <1>5, <3>1
  <2>2. CASE v = w
    <3>1. Abandon(w) => FALSE
      BY <1>0, <1>1, <1>3, AbandonFields
    <3>2. ASSUME NEW label \in LoopPcs, GoTo(w, label)
          PROVE  Goal
      BY <1>0, <1>1, <1>2, <3>2, GoToFields
    <3>3. ASSUME NEW label \in LoopPcs, NEW plan \in Seq(EndTypes),
                 loop' = [loop EXCEPT ![w].pc = label, ![w].todo = plan]
          PROVE  loop'[w].turn = loop[w].turn /\ loop'[w].todo = plan
      <4>1. loop'[w] = [loop[w] EXCEPT !.pc = label, !.todo = plan]
        BY <1>0, <3>3
      <4>2. loop[w] \in Loop
        BY <1>0
      <4> QED
        BY <4>1, <4>2 DEF Loop
    <3>4. {"killCancel", "drain", "cpRead", "ack", "term", "claim", "kill", "append", "ensure",
           "key2", "wait"} \subseteq LoopPcs
      BY DEF LoopPcs
    <3>5. CASE CheckTerminal(w)
      <4> DEFINE plan == Repairs(status[loop[w].turn])
                 label == IF plan = <<>> THEN "key2" ELSE "ensure"
      <4>1. plan \in Seq(EndTypes)
        BY Plans DEF Repairs
      <4>2. label \in {"key2", "ensure"}
        OBVIOUS
      <4>3. loop' = [loop EXCEPT ![w].pc = label, ![w].todo = plan]
        BY <3>5 DEF CheckTerminal
      <4> HIDE DEF label
      <4>4. loop[w].turn = t /\ Tells(plan)
        BY <1>1, <3>3, <3>4, <4>1, <4>2, <4>3
      <4>5. status[t] = e
        BY <4>4 DEF Repairs, Tells, EndEvents, Ends
      <4> QED
        BY <3>5, <4>5 DEF CheckTerminal, rowVars, Goal
    <3>6. CASE CancelPending(w)
      <4> DEFINE finished == status[loop[w].turn] \in {"completed", "failed"}
                 plan == IF finished THEN <<>> ELSE <<"cancelled">>
                 label == IF finished THEN "ack" ELSE "ensure"
      <4>1. plan \in Seq(EndTypes)
        BY Plans
      <4>2. label \in {"ack", "ensure"} /\ plan \in {<<>>, <<"cancelled">>}
        OBVIOUS
      <4>3. loop' = [loop EXCEPT ![w].pc = label, ![w].todo = plan]
        BY <3>6 DEF CancelPending
      <4> HIDE DEF plan, label
      <4> QED
        BY <1>1, <1>4, <3>3, <3>4, <4>1, <4>2, <4>3
    <3>7. CASE EnsureAppends(w) \/ EnsureReads(w)
      <4>0. EnsureAppends(w) => loop[w].todo # <<>>
        BY <1>0 DEF EnsureAppends, TypeInv, LoopOK
      <4>1. CASE /\ loop[w].todo # <<>>
                 /\ \/ loop' = [loop EXCEPT ![w].todo = Tail(@)]
                    \/ loop' = [loop EXCEPT ![w].pc = "ensure", ![w].todo = Tail(@)]
        <5>1. loop[w].todo \in Seq(EndTypes)
          BY <1>0 DEF Loop
        <5>2. loop[w].todo # <<>>
          BY <4>1
        <5>3. loop'[w].turn = loop[w].turn /\ loop'[w].todo = Tail(loop[w].todo)
          BY <1>0, <4>1 DEF Loop
        <5>4. Tells(Tail(loop[w].todo)) => Tells(loop[w].todo)
          BY <5>1, <5>2 DEF Tells
        <5> QED
          BY <1>1, <1>2, <5>3, <5>4
      <4> QED
        BY <3>2, <3>4, <3>7, <4>0, <4>1 DEF EnsureReads, EnsureAppends
    <3>8. CASE ClaimTurn(w)
      <4>1. loop'[w].turn = loop[w].turn /\ loop'[w].todo = loop[w].todo
        BY <1>0, <3>8 DEF ClaimTurn, Loop
      <4> QED
        BY <1>1, <1>2, <4>1
    <3>9. CASE \/ CheckCancelKey(w) \/ CheckCancelKeyAgain(w) \/ ClaimCancelled(w) \/ CancelActive(w)
               \/ LeaseHeartbeat(w) \/ CancelExecution(w) \/ Drain(w)
               \/ ClaimNone(w) \/ ClaimForbidden(w) \/ ExecutionEnds(w) \/ Ack(w)
               \/ HeartbeatFails(w) \/ IterationFails(w)
      BY <1>5, <3>1, <3>2, <3>4, <3>9
         DEF CheckCancelKey, CheckCancelKeyAgain, ClaimCancelled, CancelActive, LeaseHeartbeat,
             CancelExecution, Drain, ClaimNone, ClaimForbidden, ExecutionEnds, Ack, HeartbeatFails,
             IterationFails
    <3> QED
      BY <1>6, <2>2, <3>5, <3>6, <3>7, <3>8, <3>9 DEF LoopStep
  <2> QED
    BY <2>1, <2>2
<1>7. ASSUME NEW v \in Workers, Receive(v) \/ Reclaim(v) \/ ReclaimBusy(v) PROVE Goal
  <2>1. PICK u \in Turns : \E i \in DOMAIN stream[u] : Take(v, u, i)
    BY <1>7 DEF Receive, Reclaim, ReclaimBusy
  <2>2. \A x \in Workers \ {v} : loop'[x] = loop[x]
    BY <1>0, <2>1, TakeFields
  <2>3. loop'[v].todo = <<>>
    BY <1>0, <2>1 DEF Take, Idle
  <2> QED
    BY <1>1, <1>4, <1>5, <2>2, <2>3
<1>8. ASSUME NEW v \in Workers, WorkerCrash(v) PROVE Goal
  <2>1. v # w => loop'[w] = loop[w]
    BY <1>0, <1>8 DEF WorkerCrash
  <2>2. v = w => loop'[w].turn = NoTurn
    BY <1>0, <1>8 DEF WorkerCrash, Idle
  <2> QED
    BY <1>1, <1>3, <1>5, <2>1, <2>2
<1>9. ASSUME \/ \E u \in Turns : GatewayStep(u) \/ LeaseExpires(u) \/ RevokeAuthorization(u)
             \/ \E v \in Workers : RelayPass(v) \/ RelayFails(v)
             \/ \E u \in Turns, g \in Gens :
                   ExecStep(u, g) \/ DeadlineInWrite(u, g) \/ ExecWriteFails(u, g)
             \/ GatewayCrash \/ Finished \/ UNCHANGED vars
      PROVE  Goal
  <2>1. loop' = loop
    BY <1>9 DEF GatewayStep, SubmitTurn, EmitAccepted, CancelTurn, RequestCancellation, CancelEnsures,
                CancelAppends, CancelSignals, LeaseExpires, RevokeAuthorization, RelayPass, RelayFails,
                ExecStep, ExecWrite, EngineReturns, LateWrite, DeadlineInWrite, ExecWriteFails,
                GatewayCrash, Finished, vars
  <2> QED
    BY <1>5, <2>1
<1> QED
  BY <1>6, <1>7, <1>8, <1>9 DEF Next, FaultStep, Goal

\* What is told about the end of a turn stays true.
LEMMA TruthStep ==
    ASSUME StartOK, Sound, TellsTheTruth, [Next]_vars
    PROVE  TellsTheTruth'
<1> SUFFICES ASSUME NEW t \in Turns, NEW e \in Ends, Told(t, e)'
             PROVE  Stands(t, e)'
  BY DEF TellsTheTruth
<1>1. Told(t, e) \/ status'[t] = e
  BY LoggedWasTold, CallsTellTheRow, LoopsTellTheRow DEF Told
<1>2. CASE Told(t, e)
  BY <1>2, StandsStays DEF TellsTheTruth
<1>3. CASE status'[t] = e
  BY <1>3 DEF Stands
<1> QED
  BY <1>1, <1>2, <1>3

\* No turn has an end at first.
LEMMA NothingTold == Init => TellsTheTruth
BY DEF Init, TellsTheTruth, Told, Logged, InCalls, InLoops, Idle, EndWrites

\* A client that reads turn.completed or turn.failed in the log can rely on it:
\* no redelivery, late thread, recovery or cancellation makes the row disagree,
\* except for a cancellation on request that overrules the result.
THEOREM LoggedEndsAreTrue == Spec => []LoggedEndIsTrue
<1>1. StartOK /\ Sound /\ TellsTheTruth /\ [Next]_vars => TellsTheTruth'
  BY TruthStep
<1>2. TellsTheTruth => LoggedEndIsTrue
  BY DEF TellsTheTruth, Told, Stands, Ends, LoggedEndIsTrue
<1> QED
  BY <1>1, <1>2, NothingTold, SoundInvariant, PTL DEF Spec

-----------------------------------------------------------------------------
(* The last ACK comes after the log is complete *)

\* The faults after which the log of a turn may stay incomplete do not happen:
\* an entry taken from a worker that still handles it (redis_reclaim_idle_ms
\* without a heartbeat), a lease heartbeat that fails (the execution is
\* cancelled without a request), and an error in the write of the failed status.
Undisturbed ==
    /\ \A w \in Workers : ~ReclaimBusy(w) /\ ~HeartbeatFails(w)
    /\ \A t \in Turns, g \in Gens : task[t][g] = "fail" => ~ExecWriteFails(t, g)

\* Nobody has asked for a cancellation.
Unrequested == \A t \in Turns : cancelPc[t] = "none" /\ ~cancelReq[t]

\* Every entry a loop handles is pending, and no other loop handles it.
Handled ==
    \A w \in Workers :
        IF loop[w].pc = "idle" THEN loop[w].turn = NoTurn
        ELSE /\ stream[loop[w].turn][loop[w].msg] = "pending"
             /\ \A v \in Workers \ {w} : loop[v].turn = loop[w].turn => loop[v].msg # loop[w].msg

\* A turn has an owner once it is running; recovery takes the owner away.
Owned ==
    \A t \in Turns : /\ status[t] \in {"absent", "accepted"} => owner[t] = NoWorker
                     /\ status[t] = "running" => owner[t] # NoWorker

\* Claim g of turn t can no longer end the turn: the row has moved on, or
\* recovery has given the turn up.
Lost(t, g) == g < gen[t] \/ (g = gen[t] /\ status[t] \in Final /\ owner[t] = NoWorker)

\* A loop that waits for an execution owns the turn, or has lost it.
Waits ==
    \A w \in Workers : loop[w].pc \in {"wait", "kill"} =>
        \/ Lost(loop[w].turn, loop[w].gen)
        \/ loop[w].pc = "wait" /\ loop[w].gen = gen[loop[w].turn] /\ owner[loop[w].turn] = w

CancelCalls == {"ensureCancelled", "appendCancelled"}

\* Executions are cancelled only after their claim is lost; nothing else leaves
\* a thread behind but the deadline in the completing update.
Leftovers ==
    \A t \in Turns, g \in Gens :
        /\ task[t][g] = "cancel" \/ ~(late[t][g] \subseteq {"complete"}) => Lost(t, g)
        /\ task[t][g] \notin CancelCalls /\ late[t][g] \intersect CancelCalls = {}

Uncancelled == \A t \in Turns : status[t] # "cancelled"

\* An execution of the current claim that has not ended is awaited by the loop of
\* the turn's owner.
Awaited ==
    \A t \in Turns : owner[t] # NoWorker /\ task[t][gen[t]] \in Writes \union {"engine"} =>
        LET l == loop[owner[t]] IN
        /\ runner[t][gen[t]] = owner[t]
        /\ l.pc = "wait" /\ l.turn = t /\ l.gen = gen[t]

\* A thread of the current claim that may still complete the turn was left by a
\* task that is about to write the failed status.
LateEnds ==
    \A t \in Turns : late[t][gen[t]] # {} /\ status[t] \notin Final => task[t][gen[t]] = "fail"

AllLogged(t) == \A type \in TerminalEvents(status[t]) : Logged(t, type)

\* What an execution has logged.
Reported ==
    \A t \in Turns, g \in Gens :
        /\ task[t][g] = "emitCompleted" /\ g = gen[t] => Logged(t, "message")
        /\ task[t][g] = "ok" => status[t] \in Final /\ AllLogged(t)

\* Entry i will not be ACKed before the log of turn t is complete.
Guards(t, i) ==
    /\ stream[t][i] # "acked"
    /\ \A w \in Workers : loop[w].turn = t /\ loop[w].msg = i =>
          \/ loop[w].pc \in {"key", "term", "wait", "kill"}
          \/ /\ loop[w].pc \in {"ensure", "append"}
             /\ \A type \in TerminalEvents(status[t]) :
                   Logged(t, type) \/ \E k \in DOMAIN loop[w].todo : loop[w].todo[k] = type

\* A turn that ended under its owner is logged, or an entry guards it.
Guarded ==
    \A t \in Turns : status[t] \in Final /\ owner[t] # NoWorker =>
        AllLogged(t) \/ \E i \in DOMAIN stream[t] : Guards(t, i)

Tended == /\ StartOK /\ Sound /\ TellsTheTruth /\ Unrequested /\ Handled /\ Owned /\ Waits
          /\ Leftovers /\ Uncancelled /\ Awaited /\ LateEnds /\ Reported /\ Guarded

-----------------------------------------------------------------------------
(* The kinds of steps *)

\* Entries are only added.
Grows ==
    \A t \in Turns :
        /\ \A i \in DOMAIN stream[t] : i \in DOMAIN stream'[t] /\ stream'[t][i] = stream[t][i]
        /\ \A i \in DOMAIN stream'[t] : i \notin DOMAIN stream[t] => stream'[t][i] = "new"

\* Rows, loops and executions stay.
Rests ==
    /\ UNCHANGED <<status, gen, owner, loop, task, runner, late>>
    /\ Grows

Opens(u) ==
    /\ status[u] = "absent" /\ status' = [status EXCEPT ![u] = "accepted"]
    /\ UNCHANGED <<gen, owner, loop, task, runner, late, stream>>

\* A loop takes an entry that nobody handles.
Takes(w, u, i) ==
    /\ UNCHANGED <<status, gen, owner, task, runner, late, log>>
    /\ loop[w].pc = "idle" /\ i \in DOMAIN stream[u] /\ stream[u][i] # "acked"
    /\ stream[u][i] = "new" \/ ~Busy(u, i)
    /\ Take(w, u, i)

\* A loop goes on with its delivery.
Goes(w) ==
    \/ loop[w].pc = "key" /\ loop'[w].pc = "term"
    \/ /\ loop[w].pc = "term" /\ loop'[w].todo = Repairs(status[loop[w].turn])
       /\ loop'[w].pc = IF Repairs(status[loop[w].turn]) = <<>> THEN "key2" ELSE "ensure"
    \/ loop[w].pc = "key2" /\ loop'[w].pc = "claim"
    \/ loop[w].pc = "claim" /\ loop'[w].pc = "ack"
    \/ loop[w].pc = "wait" /\ loop'[w].pc = "ack" /\ task[loop[w].turn][loop[w].gen] = "ok"
    \/ /\ loop[w].pc = "wait" /\ loop'[w].pc = "kill"
       /\ gen[loop[w].turn] # loop[w].gen \/ owner[loop[w].turn] # w
    \/ loop[w].pc = "ensure" /\ loop[w].todo = <<>> /\ loop'[w].pc = "ack"
    \/ /\ loop[w].pc = "ensure" /\ loop[w].todo # <<>> /\ Logged(loop[w].turn, Head(loop[w].todo))
       /\ loop'[w].pc = "ensure" /\ loop'[w].todo = Tail(loop[w].todo)
    \/ /\ loop[w].pc = "ensure" /\ loop[w].todo # <<>> /\ loop'[w].pc = "append"
       /\ loop'[w].todo = loop[w].todo

Moves(w) ==
    /\ UNCHANGED <<status, gen, owner, task, runner, late, log, stream>>
    /\ \A v \in Workers \ {w} : loop'[v] = loop[v]
    /\ \/ loop'[w].pc = "idle" /\ loop'[w].turn = NoTurn /\ loop[w].pc # "kill"
          /\ (loop[w].pc = "wait" => task[loop[w].turn][loop[w].gen] = "error")
       \/ /\ loop'[w].turn = loop[w].turn /\ loop'[w].msg = loop[w].msg /\ loop'[w].gen = loop[w].gen
          /\ Goes(w)

\* A task hears from the engine or fails, without a write to the database.
Stirs(u, g, p) ==
    /\ UNCHANGED <<status, gen, owner, loop, runner, log, stream>>
    /\ task' = [task EXCEPT ![u][g] = p]
    /\ \/ late' = late /\ task[u][g] = "engine" /\ p \in {"complete", "fail"}
       \/ late' = [late EXCEPT ![u][g] = @ \union {"complete"}] /\ task[u][g] = "complete" /\ p = "fail"
       \/ late' = late /\ task[u][g] = "complete" /\ p = "fail"
       \/ late' = late /\ task[u][g] \in Writes \ {"fail"} /\ p = "error" /\ faults' = faults + 1

StepKind ==
    \/ Rests \/ \E u \in Turns : Opens(u)
    \/ \E w \in Workers : RelayPass(w)
    \/ \E w \in Workers : \E u \in Turns : \E i \in DOMAIN stream[u] : Takes(w, u, i)
    \/ \E w \in Workers : \/ Moves(w) \/ EnsureAppends(w) \/ Ack(w) \/ ClaimTurn(w)
                          \/ CancelExecution(w) /\ loop[w].pc = "kill"
                          \/ WorkerCrash(w)
    \/ \E u \in Turns, g \in Gens : ExecWrite(u, g) \/ LateWrite(u, g) \/ \E p \in TaskPcs : Stirs(u, g, p)

\* Without a cancellation nobody acts on one.
LEMMA NothingAsked ==
    ASSUME Tended
    PROVE  /\ \A t \in Turns : cancelKey[t] = FALSE /\ cancelReq[t] = FALSE
           /\ \A w \in Workers : loop[w].pc \notin {"killCancel", "drain", "cpRead"}
<1>1. /\ \A t \in Turns : cancelKey[t] \in BOOLEAN /\ cancelReq[t] \in BOOLEAN
      /\ \A w \in Workers : loop[w].pc # "idle" => loop[w].turn \in Turns
  BY DEF Tended, StartOK, TypeInv, TypeOK, LoopOK
<1> QED
  BY <1>1 DEF Tended, Sound, Asked, Unrequested

\* Nobody asks if no turn may be cancelled.
LEMMA UnrequestedStep ==
    ASSUME Cancellable = {}, Tended, [Next]_vars
    PROVE  Unrequested'
<1>0. /\ Unrequested /\ cancelReq \in [Turns -> BOOLEAN]
      /\ cancelPc \in [Turns -> {"none", "request", "ensure", "append", "signal", "done"}]
  BY DEF Tended, StartOK, TypeInv, TypeOK
<1>1. UNCHANGED <<cancelPc, cancelReq>> => Unrequested'
  BY <1>0 DEF Unrequested
<1>2. ASSUME NEW u \in Turns, GatewayStep(u) PROVE UNCHANGED <<cancelPc, cancelReq>>
  BY <1>0, <1>2 DEF GatewayStep, SubmitTurn, EmitAccepted, CancelTurn, RequestCancellation,
     CancelEnsures, CancelAppends, CancelSignals, Unrequested, gatewayVars
<1>3. GatewayCrash => Unrequested'
  BY <1>0 DEF GatewayCrash, Unrequested
<1>4. ASSUME ~GatewayCrash, \A u \in Turns : ~GatewayStep(u) PROVE UNCHANGED <<cancelPc, cancelReq>>
  BY <1>4 DEF Next, LoopStep, CheckCancelKey, CheckTerminal, CheckCancelKeyAgain, ClaimCancelled,
     ClaimNone, ClaimForbidden, ClaimTurn, ExecutionEnds, CancelExecution, Drain, CancelPending,
     EnsureReads, EnsureAppends, Ack, RelayPass, Receive, Reclaim, LeaseHeartbeat, CancelActive,
     ExecStep, ExecWrite, EngineReturns, LateWrite, LeaseExpires, FaultStep, RelayFails, ReclaimBusy,
     HeartbeatFails, IterationFails, WorkerCrash, RevokeAuthorization, DeadlineInWrite,
     ExecWriteFails, Finished, vars, gatewayVars
<1> QED
  BY <1>1, <1>2, <1>3, <1>4

\* The kinds of steps of a consumer loop.
LEMMA LoopKinds ==
    ASSUME Tended, NEW w \in Workers,
           LoopStep(w) \/ IterationFails(w) \/ LeaseHeartbeat(w) \/ CancelActive(w)
    PROVE  \/ Moves(w) \/ EnsureAppends(w) \/ Ack(w) \/ ClaimTurn(w)
           \/ (CancelExecution(w) /\ loop[w].pc = "kill") \/ Rests
<1>0. /\ loop \in [Workers -> Loop] /\ loop[w] \in Loop /\ stream \in [Turns -> Seq(Delivery)]
      /\ loop[w].pc # "idle" => loop[w].turn \in Turns
  BY DEF Tended, StartOK, TypeInv, TypeOK, LoopOK
<1>1. /\ \A t \in Turns : cancelKey[t] = FALSE /\ cancelReq[t] = FALSE
      /\ loop[w].pc \notin {"killCancel", "drain", "cpRead"}
  BY NothingAsked
<1> USE DEF rowVars, redisVars, execVars
<1> DEFINE Still == UNCHANGED <<status, gen, owner, task, runner, late, log, stream>>
<1>2. ASSUME NEW label \in LoopPcs, GoTo(w, label)
      PROVE  /\ \A v \in Workers \ {w} : loop'[v] = loop[v]
             /\ loop'[w].pc = label /\ loop'[w].turn = loop[w].turn /\ loop'[w].msg = loop[w].msg
             /\ loop'[w].gen = loop[w].gen /\ loop'[w].todo = loop[w].todo
  BY <1>0, <1>2, GoToFields
<1>3. ASSUME Abandon(w), Still, loop[w].pc # "kill",
             loop[w].pc = "wait" => task[loop[w].turn][loop[w].gen] = "error"
      PROVE  Moves(w)
  BY <1>0, <1>3, AbandonFields DEF Moves
<1>4. CASE CheckCancelKey(w)
  <2>1. GoTo(w, "term") /\ loop[w].pc = "key" /\ Still
    BY <1>0, <1>1, <1>4 DEF CheckCancelKey
  <2> QED
    BY <1>2, <2>1 DEF Moves, Goes, LoopPcs
<1>5. CASE CheckTerminal(w)
  <2>1. /\ \A v \in Workers \ {w} : loop'[v] = loop[v]
        /\ loop'[w].turn = loop[w].turn /\ loop'[w].msg = loop[w].msg /\ loop'[w].gen = loop[w].gen
        /\ loop'[w].todo = Repairs(status[loop[w].turn])
        /\ loop'[w].pc = IF Repairs(status[loop[w].turn]) = <<>> THEN "key2" ELSE "ensure"
        /\ loop[w].pc = "term" /\ Still
    BY <1>0, <1>5 DEF CheckTerminal, Loop
  <2> QED
    BY <2>1 DEF Moves, Goes
<1>6. CASE CheckCancelKeyAgain(w)
  <2>1. GoTo(w, "claim") /\ loop[w].pc = "key2" /\ Still
    BY <1>0, <1>1, <1>6 DEF CheckCancelKeyAgain
  <2> QED
    BY <1>2, <2>1 DEF Moves, Goes, LoopPcs
<1>7. CASE ClaimNone(w)
  <2>1. GoTo(w, "ack") /\ loop[w].pc = "claim" /\ Still
    BY <1>7 DEF ClaimNone
  <2> QED
    BY <1>2, <2>1 DEF Moves, Goes, LoopPcs
<1>8. CASE ClaimForbidden(w)
  BY <1>3, <1>8 DEF ClaimForbidden
<1>9. CASE ExecutionEnds(w)
  <2>1. CASE GoTo(w, "ack") /\ task[loop[w].turn][loop[w].gen] = "ok"
    <3>1. loop[w].pc = "wait" /\ Still
      BY <1>9 DEF ExecutionEnds
    <3> QED
      BY <1>2, <2>1, <3>1 DEF Moves, Goes, LoopPcs
  <2>2. CASE Abandon(w) /\ task[loop[w].turn][loop[w].gen] = "error"
    BY <1>3, <1>9, <2>2 DEF ExecutionEnds
  <2> QED
    BY <1>9, <2>1, <2>2 DEF ExecutionEnds
<1>10. CASE EnsureReads(w)
  <2>1. loop[w].pc = "ensure" /\ Still
    BY <1>10 DEF EnsureReads
  <2>2. CASE loop[w].todo = <<>>
    <3>1. GoTo(w, "ack")
      BY <1>10, <2>2 DEF EnsureReads
    <3> QED
      BY <1>2, <2>1, <2>2, <3>1 DEF Moves, Goes, LoopPcs
  <2>3. CASE loop[w].todo # <<>> /\ Logged(loop[w].turn, Head(loop[w].todo))
    <3>1. loop' = [loop EXCEPT ![w].todo = Tail(@)]
      BY <1>10, <2>3 DEF EnsureReads
    <3>2. /\ \A v \in Workers \ {w} : loop'[v] = loop[v]
          /\ loop'[w].turn = loop[w].turn /\ loop'[w].msg = loop[w].msg /\ loop'[w].gen = loop[w].gen
          /\ loop'[w].todo = Tail(loop[w].todo) /\ loop'[w].pc = loop[w].pc
      BY <1>0, <3>1 DEF Loop
    <3> QED
      BY <2>1, <2>3, <3>2 DEF Moves, Goes
  <2>4. CASE loop[w].todo # <<>> /\ ~Logged(loop[w].turn, Head(loop[w].todo))
    <3>1. GoTo(w, "append")
      BY <1>10, <2>4 DEF EnsureReads
    <3> QED
      BY <1>2, <2>1, <2>4, <3>1 DEF Moves, Goes, LoopPcs
  <2> QED
    BY <2>2, <2>3, <2>4
<1>11. CASE LeaseHeartbeat(w)
  <2>1. loop[w].pc = "wait" /\ UNCHANGED <<gen, task, runner, late, log, stream>>
    BY <1>11 DEF LeaseHeartbeat
  <2>2. CASE (gen[loop[w].turn] # loop[w].gen \/ owner[loop[w].turn] # w) /\ GoTo(w, "kill")
             /\ UNCHANGED <<status, owner, lease>>
    BY <1>2, <2>1, <2>2 DEF Moves, Goes, LoopPcs
  <2>3. CASE UNCHANGED <<status, owner, loop>>
    BY <2>1, <2>3 DEF Rests, Grows
  <2> QED
    BY <1>0, <1>1, <1>11, <2>1, <2>2, <2>3 DEF LeaseHeartbeat
<1>12. CASE IterationFails(w)
  BY <1>3, <1>12 DEF IterationFails
<1>13. ~CancelActive(w) /\ ~ClaimCancelled(w) /\ ~Drain(w) /\ ~CancelPending(w)
  BY <1>0, <1>1 DEF CancelActive, ClaimCancelled, Drain, CancelPending
<1>14. CancelExecution(w) => loop[w].pc = "kill"
  BY <1>1 DEF CancelExecution
<1> QED
  BY <1>4, <1>5, <1>6, <1>7, <1>8, <1>9, <1>10, <1>11, <1>12, <1>13, <1>14 DEF LoopStep

\* The steps that leave rows, loops and executions alone add entries at most.
LEMMA QuietKinds ==
    ASSUME Tended, Cancellable = {},
           \/ \E t \in Turns : GatewayStep(t) /\ ~SubmitTurn(t)
           \/ \E t \in Turns : LeaseExpires(t) \/ RevokeAuthorization(t)
           \/ GatewayCrash \/ Finished \/ UNCHANGED vars
           \/ \E w \in Workers : RelayFails(w)
    PROVE  Rests
<1>0. Unrequested
  BY DEF Tended
<1>1. UNCHANGED <<status, gen, owner, loop, task, runner, late>>
  BY <1>0 DEF GatewayStep, EmitAccepted, CancelTurn, RequestCancellation, CancelEnsures, CancelAppends,
         CancelSignals, LeaseExpires, RevokeAuthorization, GatewayCrash, Finished, RelayFails,
         vars, rowVars, execVars, Unrequested
<1>2. CASE \E w \in Workers : RelayFails(w)
  <2>1. PICK w \in Workers : RelayFails(w)
    BY <1>2
  <2>2. PICK sent \in SUBSET Turns :
          stream' = [t \in Turns |-> IF t \in sent THEN Published(t) ELSE stream[t]]
    BY <2>1 DEF RelayFails
  <2>3. TypeOK
    BY DEF Tended, StartOK, TypeInv
  <2>4. ASSUME NEW t \in Turns
        PROVE  /\ \A i \in DOMAIN stream[t] : i \in DOMAIN stream'[t] /\ stream'[t][i] = stream[t][i]
               /\ \A i \in DOMAIN stream'[t] : i \notin DOMAIN stream[t] => stream'[t][i] = "new"
    BY <2>2, <2>3, PublishedExtends
  <2> QED
    BY <1>1, <2>4 DEF Rests, Grows
<1>3. CASE ~\E w \in Workers : RelayFails(w)
  <2>1. stream' = stream
    BY <1>0, <1>3 DEF GatewayStep, EmitAccepted, CancelTurn, RequestCancellation, CancelEnsures, CancelAppends,
         CancelSignals, LeaseExpires, RevokeAuthorization, GatewayCrash, Finished, Unrequested,
         vars, redisVars
  <2> QED
    BY <1>1, <2>1 DEF Rests, Grows
<1> QED
  BY <1>2, <1>3

\* Steps of an execution that write nothing.
LEMMA ExecKinds ==
    ASSUME Tended, NEW u \in Turns, NEW g \in Gens,
           \/ EngineReturns(u, g) \/ DeadlineInWrite(u, g)
           \/ ExecWriteFails(u, g) /\ task[u][g] # "fail"
    PROVE  \E p \in TaskPcs : Stirs(u, g, p)
<1>0. /\ UNCHANGED <<status, gen, owner, loop, runner, log, stream>>
      /\ {"complete", "fail", "error"} \subseteq TaskPcs
  BY DEF EngineReturns, DeadlineInWrite, ExecWriteFails, rowVars, redisVars, TaskPcs, Writes
<1>1. CASE EngineReturns(u, g)
  BY <1>0, <1>1 DEF EngineReturns, Stirs
<1>2. CASE DeadlineInWrite(u, g)
  BY <1>0, <1>2 DEF DeadlineInWrite, Stirs
<1>3. CASE ExecWriteFails(u, g) /\ task[u][g] # "fail"
  <2>1. /\ task' = [task EXCEPT ![u][g] = Raised(task[u][g])] /\ late' = late /\ task[u][g] \in Writes
        /\ faults' = faults + 1
    BY <1>3 DEF ExecWriteFails, Fault
  <2>2. CASE task[u][g] = "complete"
    BY <1>0, <2>1, <2>2 DEF Stirs, Raised
  <2>3. CASE task[u][g] # "complete"
    BY <1>0, <1>3, <2>1, <2>3 DEF Stirs, Raised
  <2> QED
    BY <2>2, <2>3
<1> QED
  BY <1>1, <1>2, <1>3

\* All the steps there are without cancellation and the excluded faults.
LEMMA StepKinds ==
    ASSUME Tended, Cancellable = {}, [Next]_vars, [Undisturbed]_vars
    PROVE  StepKind
<1>1. ASSUME NEW w \in Workers, LoopStep(w) \/ IterationFails(w) \/ LeaseHeartbeat(w) \/ CancelActive(w)
      PROVE  StepKind
  BY <1>1, LoopKinds DEF StepKind
<1>2. ASSUME NEW w \in Workers, Receive(w) \/ Reclaim(w)
      PROVE  StepKind
  <2>1. UNCHANGED <<status, gen, owner, task, runner, late, log>> /\ loop[w].pc = "idle"
    BY <1>2 DEF Receive, Reclaim, rowVars, execVars
  <2>2. \E u \in Turns : \E i \in DOMAIN stream[u] :
          /\ Take(w, u, i) /\ stream[u][i] # "acked"
          /\ stream[u][i] = "new" \/ ~Busy(u, i)
    BY <1>2 DEF Receive, Reclaim
  <2>3. \E u \in Turns : \E i \in DOMAIN stream[u] : Takes(w, u, i)
    BY <2>1, <2>2 DEF Takes
  <2> QED
    BY <2>3 DEF StepKind
<1>3. ASSUME NEW u \in Turns, SubmitTurn(u)
      PROVE  StepKind
  BY <1>3 DEF SubmitTurn, StepKind, Opens, execVars
<1>4. ASSUME NEW u \in Turns, NEW g \in Gens, EngineReturns(u, g) \/ DeadlineInWrite(u, g)
                                               \/ (ExecWriteFails(u, g) /\ task[u][g] # "fail")
      PROVE  StepKind
  BY <1>4, ExecKinds DEF StepKind
<1>5. ASSUME \/ \E t \in Turns : GatewayStep(t) /\ ~SubmitTurn(t)
             \/ \E t \in Turns : LeaseExpires(t) \/ RevokeAuthorization(t)
             \/ GatewayCrash \/ Finished \/ UNCHANGED vars
             \/ \E w \in Workers : RelayFails(w)
      PROVE  StepKind
  <2>1. Rests
    BY <1>5, QuietKinds
  <2> QED
    BY <2>1 DEF StepKind
<1>6. CASE UNCHANGED vars
  BY <1>5, <1>6
<1>7. CASE Next /\ Undisturbed
  <2>1. CASE FaultStep
    <3>1. \/ GatewayCrash
          \/ \E w \in Workers : RelayFails(w) \/ IterationFails(w) \/ WorkerCrash(w)
          \/ \E t \in Turns : RevokeAuthorization(t)
          \/ \E t \in Turns : \E g \in Gens :
                DeadlineInWrite(t, g) \/ (ExecWriteFails(t, g) /\ task[t][g] # "fail")
      <4>1. CASE \E t \in Turns : \E g \in Gens : DeadlineInWrite(t, g) \/ ExecWriteFails(t, g)
        <5>1. PICK t \in Turns, g \in Gens : DeadlineInWrite(t, g) \/ ExecWriteFails(t, g)
          BY <4>1
        <5>2. task[t][g] = "fail" => ~ExecWriteFails(t, g)
          BY <1>7 DEF Undisturbed
        <5> QED
          BY <5>1, <5>2
      <4>2. \A w \in Workers : ~ReclaimBusy(w) /\ ~HeartbeatFails(w)
        BY <1>7 DEF Undisturbed
      <4> QED
        BY <2>1, <4>1, <4>2 DEF FaultStep
    <3>2. (\E w \in Workers : WorkerCrash(w)) => StepKind
      BY DEF StepKind
    <3> QED
      BY <1>1, <1>4, <1>5, <3>1, <3>2
  <2>2. CASE \E t \in Turns : \E g \in Gens : ExecStep(t, g)
    <3>1. (\E t \in Turns : \E g \in Gens : ExecWrite(t, g) \/ LateWrite(t, g)) => StepKind
      BY DEF StepKind
    <3>2. PICK t \in Turns, g \in Gens : ExecWrite(t, g) \/ LateWrite(t, g) \/ EngineReturns(t, g)
      BY <2>2 DEF ExecStep
    <3> QED
      BY <1>4, <3>1, <3>2
  <2>3. CASE \E w \in Workers : RelayPass(w)
    BY <2>3 DEF StepKind
  <2> QED
    BY <1>1, <1>2, <1>3, <1>5, <1>7, <2>1, <2>2, <2>3 DEF Next
<1> QED
  BY <1>6, <1>7

\* A logged event stays in the log.
LEMMA LoggedStays ==
    ASSUME TypeInv, [Next]_vars, NEW t \in Turns, NEW e, Logged(t, e)
    PROVE  Logged(t, e)'
<1>1. log[t] \in Seq(Event)
  BY DEF TypeInv, TypeOK
<1>2. PICK i \in 1..Len(log[t]) : log[t][i].type = e
  BY DEF Logged
<1>3. CASE log'[t] = log[t]
  BY <1>2, <1>3 DEF Logged
<1>4. ASSUME NEW event, log'[t] = Append(log[t], event) PROVE Logged(t, e)'
  <2>1. i \in 1..Len(log'[t]) /\ log'[t][i] = log[t][i]
    BY <1>1, <1>2, <1>4
  <2> QED
    BY <1>2, <2>1 DEF Logged
<1> QED
  BY <1>3, <1>4, LogGrows

\* A row that says an end stays as it is.
LEMMA EndedRowStays ==
    ASSUME Tended, [Next]_vars, StepKind, NEW t \in Turns, status[t] \in Final
    PROVE  status'[t] = status[t] /\ gen'[t] = gen[t] /\ owner'[t] = owner[t]
<1>0. /\ TypeInv /\ cancelReq[t] = FALSE /\ status \in [Turns -> Statuses] /\ gen \in [Turns -> Gens]
      /\ owner \in [Turns -> Workers \union {NoWorker}]
  BY NothingAsked DEF Tended, StartOK, TypeInv, TypeOK
<1>1. status'[t] = status[t]
  BY <1>0, RowSteps DEF RowStep
<1>2. ASSUME NEW w \in Workers, RelayPass(w) PROVE gen'[t] = gen[t] /\ owner'[t] = owner[t]
  BY <1>0, <1>2 DEF RelayPass, Retried, Stuck, Final
<1>3. ASSUME NEW w \in Workers, ClaimTurn(w) PROVE gen'[t] = gen[t] /\ owner'[t] = owner[t]
  BY <1>0, <1>3 DEF ClaimTurn, ClaimRow, Claimable, Final
<1>4. CASE /\ ~\E w \in Workers : RelayPass(w) \/ ClaimTurn(w)
  <2>1. Rests \/ (\E u \in Turns : Opens(u)) => UNCHANGED <<gen, owner>>
    BY DEF Rests, Opens
  <2>2. ASSUME NEW w \in Workers, Moves(w) \/ EnsureAppends(w) \/ Ack(w) \/ CancelExecution(w)
                                  \/ WorkerCrash(w)
                                  \/ \E u \in Turns : \E i \in DOMAIN stream[u] : Takes(w, u, i)
        PROVE  UNCHANGED <<gen, owner>>
    BY <2>2 DEF Takes, Moves, EnsureAppends, Ack, CancelExecution, WorkerCrash, rowVars
  <2>3. ASSUME NEW u \in Turns, NEW g \in Gens, ExecWrite(u, g) \/ LateWrite(u, g)
                                               \/ \E p \in TaskPcs : Stirs(u, g, p)
        PROVE  UNCHANGED <<gen, owner>>
    BY <2>3 DEF ExecWrite, LateWrite, Stirs
  <2>4. UNCHANGED <<gen, owner>>
    BY <1>4, <2>1, <2>2, <2>3 DEF StepKind
  <2> QED
    BY <1>1, <2>4
<1> QED
  BY <1>1, <1>2, <1>3, <1>4

\* A claim that is lost stays lost.
LEMMA LostStays ==
    ASSUME Tended, [Next]_vars, StepKind, NEW t \in Turns, NEW g \in Gens, Lost(t, g)
    PROVE  Lost(t, g)'
<1>1. gen[t] <= gen'[t] /\ gen[t] \in Nat /\ gen'[t] \in Nat /\ g \in Nat
  <2>1. TypeInv /\ TypeInv'
    BY NextTypes DEF Tended, StartOK
  <2>2. gen[t] \in Gens /\ gen'[t] \in Gens
    BY <2>1 DEF TypeInv, TypeOK
  <2> QED
    BY <2>1, <2>2, LogGrows, DeliveryAssumption DEF Gens
<1>2. CASE g < gen[t]
  BY <1>1, <1>2 DEF Lost
<1>3. CASE g = gen[t] /\ status[t] \in Final /\ owner[t] = NoWorker
  BY <1>3, EndedRowStays DEF Lost
<1> QED
  BY <1>2, <1>3 DEF Lost

\* A row names an owner exactly while it runs, and after an end that the owner
\* wrote.
LEMMA OwnedStep ==
    ASSUME Tended, [Next]_vars, StepKind
    PROVE  Owned'
<1>0. /\ TypeInv /\ status \in [Turns -> Statuses] /\ gen \in [Turns -> Gens] /\ Owned
      /\ owner \in [Turns -> Workers \union {NoWorker}] /\ status' \in [Turns -> Statuses]
      /\ NoWorker \notin Workers
  BY NextTypes, DeliveryAssumption DEF Tended, StartOK, TypeInv, TypeOK
<1>1. ASSUME UNCHANGED <<status, owner>> PROVE Owned'
  BY <1>0, <1>1 DEF Owned
<1>2. ASSUME NEW u \in Turns, Opens(u) PROVE Owned'
  BY <1>0, <1>2 DEF Owned, Opens
<1>3. ASSUME NEW w \in Workers, RelayPass(w) PROVE Owned'
  BY <1>0, <1>3 DEF RelayPass, Retried, Stuck, Owned
<1>4. ASSUME NEW w \in Workers, ClaimTurn(w) PROVE Owned'
  BY <1>0, <1>4 DEF ClaimTurn, ClaimRow, Owned
<1>5. ASSUME NEW u \in Turns, NEW g \in Gens, NEW write \in Writes, FencedWrite(u, g, write),
             write \in late[u][g] \/ task[u][g] = write, UNCHANGED <<owner, gen>>
      PROVE  Owned'
  <2>1. gen[u] = g => status[u] \notin {"absent", "accepted"}
    <3>1. task[u][g] # "none"
      BY <1>5 DEF Tended, StartOK, StartInv, StartInvAt, Writes
    <3> QED
      BY <3>1 DEF Tended, Sound, Vacant
  <2>2. status'[u] = "running" => status[u] = "running"
    BY <1>0, <1>5, <2>1 DEF FencedWrite, Updated, Target, Statuses, Active, Final
  <2>3. status'[u] \notin {"absent", "accepted"} \/ status' = status
    BY <1>0, <1>5, <2>1 DEF FencedWrite, Updated, Target, Final
  <2>4. \A t \in Turns \ {u} : status'[t] = status[t]
    BY <1>0, <1>5 DEF FencedWrite
  <2> QED
    BY <1>0, <1>5, <2>2, <2>3, <2>4 DEF Owned
<1>6. ASSUME NEW u \in Turns, NEW g \in Gens, ExecWrite(u, g) PROVE Owned'
  BY <1>5, <1>6 DEF ExecWrite
<1>7. ASSUME NEW u \in Turns, NEW g \in Gens, LateWrite(u, g) PROVE Owned'
  <2>1. late[u][g] \subseteq Writes
    BY DEF Tended, StartOK, TypeInv, TypeOK
  <2> QED
    BY <1>5, <1>7, <2>1 DEF LateWrite
<1>8. ASSUME \/ Rests \/ \E u \in Turns, g \in Gens, p \in TaskPcs : Stirs(u, g, p)
             \/ \E w \in Workers : \E u \in Turns : \E i \in DOMAIN stream[u] : Takes(w, u, i)
             \/ \E w \in Workers : Moves(w) \/ EnsureAppends(w) \/ Ack(w) \/ CancelExecution(w) \/ WorkerCrash(w)
      PROVE  UNCHANGED <<status, owner>>
  BY <1>8 DEF Rests, Stirs, Takes, Moves, EnsureAppends, Ack, CancelExecution, WorkerCrash, rowVars
<1> QED
  BY <1>1, <1>2, <1>3, <1>4, <1>6, <1>7, <1>8 DEF StepKind

\* Handled survives a step of w that keeps its delivery or drops it.
LEMMA HandledKept ==
    ASSUME Tended, NEW w \in Workers,
           \A v \in Workers \ {w} : loop'[v] = loop[v],
           \/ loop'[w].pc = "idle" /\ loop'[w].turn = NoTurn
           \/ /\ loop[w].pc # "idle" /\ loop'[w].pc # "idle" /\ stream' = stream
              /\ loop'[w].turn = loop[w].turn /\ loop'[w].msg = loop[w].msg,
           \A t \in Turns : \A i \in DOMAIN stream[t] : stream[t][i] = "pending" =>
              stream'[t][i] = "pending" \/ (loop[w].pc # "idle" /\ t = loop[w].turn /\ i = loop[w].msg)
    PROVE  Handled'
<1>0. /\ Handled /\ NoTurn \notin Turns
      /\ \A v \in Workers : /\ loop[v].pc # "idle" => loop[v].turn \in Turns
                            /\ loop[v].turn \in Turns => loop[v].msg \in DOMAIN stream[loop[v].turn]
  BY DeliveryAssumption DEF Tended, StartOK, TypeInv, LoopOK
<1>5. \A v \in Workers : loop'[v].pc = "idle" => loop'[v].turn = NoTurn
  BY <1>0 DEF Handled
<1> SUFFICES ASSUME NEW v \in Workers, loop'[v].pc # "idle"
             PROVE  /\ stream'[loop'[v].turn][loop'[v].msg] = "pending"
                    /\ \A x \in Workers \ {v} : loop'[x].turn = loop'[v].turn => loop'[x].msg # loop'[v].msg
  BY <1>5 DEF Handled
<1>1. loop[v].pc # "idle" /\ loop'[v].turn = loop[v].turn /\ loop'[v].msg = loop[v].msg
  OBVIOUS
<1>2. /\ loop[v].turn \in Turns /\ loop[v].msg \in DOMAIN stream[loop[v].turn]
      /\ stream[loop[v].turn][loop[v].msg] = "pending"
      /\ \A x \in Workers \ {v} : loop[x].turn = loop[v].turn => loop[x].msg # loop[v].msg
  BY <1>0, <1>1 DEF Handled
<1>3. \A x \in Workers \ {v} : loop'[x].turn = loop'[v].turn => loop'[x].msg # loop'[v].msg
  BY <1>0, <1>1, <1>2
<1>4. stream'[loop'[v].turn][loop'[v].msg] = "pending"
  BY <1>0, <1>1, <1>2
<1> QED
  BY <1>3, <1>4

\* A loop that takes, keeps or leaves an entry keeps the others' entries theirs.
LEMMA HandledStep ==
    ASSUME Tended, [Next]_vars, StepKind
    PROVE  Handled'
<1>0. /\ TypeInv /\ loop \in [Workers -> Loop] /\ stream \in [Turns -> Seq(Delivery)] /\ Handled
      /\ \A v \in Workers : /\ loop[v].pc # "idle" => loop[v].turn \in Turns
                            /\ loop[v].turn \in Turns => loop[v].msg \in DOMAIN stream[loop[v].turn]
  BY DEF Tended, StartOK, TypeInv, TypeOK, LoopOK
<1>1. ASSUME loop' = loop, Grows \/ stream' = stream PROVE Handled'
  BY <1>0, <1>1 DEF Grows, Handled
<1>2. ASSUME NEW w \in Workers, RelayPass(w) PROVE Handled'
  <2>1. loop' = loop /\ \A t \in Turns : stream'[t] = Published(t)
    BY <1>2 DEF RelayPass
  <2>2. Grows
    BY <1>0, <2>1, PublishedExtends DEF TypeInv, Grows
  <2> QED
    BY <1>1, <2>1, <2>2
<1>3. ASSUME NEW w \in Workers, NEW u \in Turns, NEW i \in DOMAIN stream[u], Takes(w, u, i)
      PROVE  Handled'
  <2>1. /\ loop'[w].turn = u /\ loop'[w].msg = i /\ \A v \in Workers \ {w} : loop'[v] = loop[v]
    BY <1>0, <1>3 DEF Takes, Take, Idle
  <2>2. /\ stream'[u][i] = "pending"
        /\ \A t \in Turns : \A j \in DOMAIN stream[t] : stream[t][j] = "pending" => stream'[t][j] = "pending"
    BY <1>0, <1>3 DEF Takes, Take
  <2>3. ASSUME NEW v \in Workers, loop[v].turn = u, loop[v].msg = i
        PROVE  FALSE
    <3>1. loop[v].pc # "idle" /\ stream[u][i] = "pending" /\ Busy(u, i)
      BY <1>0, <2>3, DeliveryAssumption DEF Handled, Busy
    <3> QED
      BY <1>3, <3>1 DEF Takes
  <2>4. loop[w].pc = "idle" /\ \A v \in Workers \ {w} : loop'[v].pc # "idle" => loop[v].pc # "idle"
    BY <1>3, <2>1 DEF Takes
  <2>7. \A v \in Workers : loop'[v].pc = "idle" => loop'[v].turn = NoTurn
    <3>1. loop'[w].pc = "key"
      BY <1>0, <1>3 DEF Takes, Take, Idle
    <3> QED
      BY <1>0, <2>1, <3>1 DEF Handled
  <2> SUFFICES ASSUME NEW v \in Workers, loop'[v].pc # "idle"
               PROVE  /\ stream'[loop'[v].turn][loop'[v].msg] = "pending"
                      /\ \A x \in Workers \ {v} : loop'[x].turn = loop'[v].turn => loop'[x].msg # loop'[v].msg
    BY <2>7 DEF Handled
  <2>5. CASE v = w
    BY <2>1, <2>2, <2>3, <2>5
  <2>6. CASE v # w
    BY <1>0, <2>1, <2>2, <2>3, <2>4, <2>6 DEF Handled
  <2> QED
    BY <2>5, <2>6
<1>4. ASSUME NEW w \in Workers, Moves(w) PROVE Handled'
  <2>1. \/ loop'[w].pc = "idle" /\ loop'[w].turn = NoTurn
        \/ /\ loop[w].pc # "idle" /\ loop'[w].pc # "idle"
           /\ loop'[w].turn = loop[w].turn /\ loop'[w].msg = loop[w].msg
    BY <1>4 DEF Moves, Goes
  <2>2. stream' = stream /\ \A v \in Workers \ {w} : loop'[v] = loop[v]
    BY <1>4 DEF Moves
  <2> QED
    BY <2>1, <2>2, HandledKept
<1>5. ASSUME NEW w \in Workers, EnsureAppends(w) PROVE Handled'
  <2>1. /\ loop[w].pc # "idle" /\ loop'[w].turn = loop[w].turn /\ loop'[w].msg = loop[w].msg
        /\ loop'[w].pc # "idle" /\ stream' = stream /\ \A v \in Workers \ {w} : loop'[v] = loop[v]
    BY <1>0, <1>5 DEF EnsureAppends, redisVars, Loop
  <2> QED
    BY <2>1, HandledKept
<1>6. ASSUME NEW w \in Workers, Ack(w) PROVE Handled'
  <2>1. /\ loop[w].pc # "idle" /\ loop'[w].pc = "idle" /\ loop'[w].turn = NoTurn
        /\ \A v \in Workers \ {w} : loop'[v] = loop[v]
    BY <1>0, <1>6, AbandonFields DEF Ack
  <2>2. \A t \in Turns : \A i \in DOMAIN stream[t] :
           stream'[t][i] = stream[t][i] \/ (t = loop[w].turn /\ i = loop[w].msg)
    BY <1>0, <1>6 DEF Ack
  <2> QED
    BY <2>1, <2>2, HandledKept
<1>7. ASSUME NEW w \in Workers, ClaimTurn(w) PROVE Handled'
  <2>1. /\ loop[w].pc # "idle" /\ loop'[w].turn = loop[w].turn /\ loop'[w].msg = loop[w].msg
        /\ loop'[w].pc # "idle" /\ stream' = stream /\ \A v \in Workers \ {w} : loop'[v] = loop[v]
    BY <1>0, <1>7 DEF ClaimTurn, redisVars, Loop
  <2> QED
    BY <2>1, HandledKept
<1>8. ASSUME NEW w \in Workers, CancelExecution(w) /\ loop[w].pc = "kill" PROVE Handled'
  <2>1. Abandon(w) /\ stream' = stream
    BY <1>8 DEF CancelExecution, redisVars
  <2> QED
    BY <1>0, <2>1, AbandonFields, HandledKept
<1>9. ASSUME NEW w \in Workers, WorkerCrash(w) PROVE Handled'
  <2>1. Abandon(w) /\ stream' = stream
    BY <1>9 DEF WorkerCrash, redisVars, Abandon
  <2> QED
    BY <1>0, <2>1, AbandonFields, HandledKept
<1>10. ASSUME \/ Rests \/ \E u \in Turns : Opens(u)
              \/ \E u \in Turns, g \in Gens : \/ ExecWrite(u, g) \/ LateWrite(u, g)
                                              \/ \E p \in TaskPcs : Stirs(u, g, p)
       PROVE  loop' = loop /\ (Grows \/ stream' = stream)
  BY <1>10 DEF Rests, Opens, ExecWrite, LateWrite, Stirs, redisVars
<1> QED
  BY <1>1, <1>2, <1>3, <1>4, <1>5, <1>6, <1>7, <1>8, <1>9, <1>10 DEF StepKind

-----------------------------------------------------------------------------
\* A step keeps a claim, or the claim is lost.
LEMMA ClaimStays ==
    ASSUME Tended, [Next]_vars, StepKind, NEW t \in Turns, NEW g \in Gens, g = gen[t]
    PROVE  (gen'[t] = g /\ owner'[t] = owner[t]) \/ Lost(t, g)'
<1>0. /\ TypeInv /\ gen \in [Turns -> Gens] /\ owner \in [Turns -> Workers \union {NoWorker}]
      /\ status \in [Turns -> Statuses] /\ \A n \in Gens : n \in Nat /\ n < n + 1
  BY DeliveryAssumption DEF Tended, StartOK, TypeInv, TypeOK, Gens
<1>1. ASSUME NEW w \in Workers, RelayPass(w)
      PROVE  (gen'[t] = g /\ owner'[t] = owner[t]) \/ Lost(t, g)'
  BY <1>0, <1>1 DEF RelayPass, Retried, Lost, Final
<1>2. ASSUME NEW w \in Workers, ClaimTurn(w)
      PROVE  (gen'[t] = g /\ owner'[t] = owner[t]) \/ Lost(t, g)'
  BY <1>0, <1>2 DEF ClaimTurn, ClaimRow, Lost
<1>3. ASSUME NEW w \in Workers, Moves(w) \/ EnsureAppends(w) \/ Ack(w) \/ CancelExecution(w)
                                \/ WorkerCrash(w)
                                \/ \E u \in Turns : \E i \in DOMAIN stream[u] : Takes(w, u, i)
      PROVE  UNCHANGED <<gen, owner>>
  BY <1>3 DEF Takes, Moves, EnsureAppends, Ack, CancelExecution, WorkerCrash, rowVars
<1>4. ASSUME NEW u \in Turns, NEW h \in Gens, ExecWrite(u, h) \/ LateWrite(u, h)
                                              \/ \E p \in TaskPcs : Stirs(u, h, p)
      PROVE  UNCHANGED <<gen, owner>>
  BY <1>4 DEF ExecWrite, LateWrite, Stirs
<1>5. Rests \/ (\E u \in Turns : Opens(u)) => UNCHANGED <<gen, owner>>
  BY DEF Rests, Opens
<1> QED
  BY <1>1, <1>2, <1>3, <1>4, <1>5 DEF StepKind

\* What a claim leaves in the row and the loop.
LEMMA ClaimMakes ==
    ASSUME Tended, NEW w \in Workers, ClaimTurn(w), NEW u \in Turns, u = loop[w].turn
    PROVE  /\ gen[u] + 1 \in Gens /\ gen' = [gen EXCEPT ![u] = gen[u] + 1]
           /\ owner' = [owner EXCEPT ![u] = w] /\ status' = [status EXCEPT ![u] = "running"]
           /\ \A v \in Workers \ {w} : loop'[v] = loop[v]
           /\ loop'[w].pc = "wait" /\ loop'[w].turn = u /\ loop'[w].msg = loop[w].msg
           /\ loop'[w].gen = gen[u] + 1
           /\ task' = [task EXCEPT ![u][gen[u] + 1] = "run"]
           /\ runner' = [runner EXCEPT ![u][gen[u] + 1] = w]
           /\ late' = late /\ log' = log /\ stream' = stream /\ status[u] \in Active
<1>0. loop \in [Workers -> Loop] /\ gen[u] \in 0..MaxGen /\ MaxGen \in Nat
  BY DeliveryAssumption DEF Tended, StartOK, TypeInv, TypeOK, Gens
<1>1. gen[u] + 1 \in Gens
  BY <1>0 DEF ClaimTurn, Gens
<1>2. "wait" \in LoopPcs /\ loop' = [loop EXCEPT ![w].pc = "wait", ![w].gen = gen[u] + 1]
  BY DEF ClaimTurn, LoopPcs
<1>3. /\ \A v \in Workers \ {w} : loop'[v] = loop[v]
      /\ loop'[w].pc = "wait" /\ loop'[w].turn = u /\ loop'[w].msg = loop[w].msg
      /\ loop'[w].gen = gen[u] + 1
  <2>1. PICK g \in Gens : g = gen[u] + 1
    BY <1>1
  <2>2. loop' = [loop EXCEPT ![w].pc = "wait", ![w].gen = g]
    BY <1>2, <2>1
  <2>3. /\ \A v \in Workers \ {w} : loop'[v] = loop[v]
        /\ loop'[w].pc = "wait" /\ loop'[w].turn = loop[w].turn /\ loop'[w].msg = loop[w].msg
        /\ loop'[w].gen = g
    BY <1>0, <2>2 DEF Loop
  <2> QED
    BY <2>1, <2>3
<1>4. /\ gen' = [gen EXCEPT ![u] = gen[u] + 1] /\ owner' = [owner EXCEPT ![u] = w]
      /\ status' = [status EXCEPT ![u] = "running"]
      /\ task' = [task EXCEPT ![u][gen[u] + 1] = "run"]
      /\ runner' = [runner EXCEPT ![u][gen[u] + 1] = w]
      /\ late' = late /\ log' = log /\ stream' = stream
  BY DEF ClaimTurn, ClaimRow, redisVars
<1>5. status[u] \in Active
  BY DEF ClaimTurn, Claimable, Active
<1> QED
  BY <1>1, <1>3, <1>4, <1>5

\* What a step does to a loop.
LEMMA LoopFrame ==
    ASSUME Tended, StepKind, NEW v \in Workers
    PROVE  \/ loop'[v] = loop[v]
           \/ \E u \in Turns : \E i \in DOMAIN stream[u] :
                 Takes(v, u, i) /\ loop'[v].pc = "key" /\ loop'[v].turn = u /\ loop'[v].msg = i
           \/ Moves(v)
           \/ /\ EnsureAppends(v) /\ loop'[v].pc = "ensure" /\ loop'[v].turn = loop[v].turn
              /\ loop'[v].msg = loop[v].msg /\ loop'[v].todo = Tail(loop[v].todo)
           \/ ClaimTurn(v)
           \/ /\ Ack(v) \/ (CancelExecution(v) /\ loop[v].pc = "kill") \/ WorkerCrash(v)
              /\ loop'[v].pc = "idle" /\ loop'[v].turn = NoTurn
<1>0. /\ loop \in [Workers -> Loop] /\ gen \in [Turns -> Gens]
      /\ \A w \in Workers : loop[w].pc # "idle" => loop[w].turn \in Turns
  BY DEF Tended, StartOK, TypeInv, TypeOK, LoopOK
<1> DEFINE Same == loop'[v] = loop[v]
<1>1. ASSUME NEW w \in Workers, NEW u \in Turns, NEW i \in DOMAIN stream[u], Takes(w, u, i), ~Same
      PROVE  w = v /\ loop'[v].pc = "key" /\ loop'[v].turn = u /\ loop'[v].msg = i
  BY <1>0, <1>1 DEF Takes, Take, Idle
<1>2. ASSUME NEW w \in Workers, Moves(w), ~Same PROVE w = v
  BY <1>2 DEF Moves
<1>3. ASSUME NEW w \in Workers, EnsureAppends(w), ~Same
      PROVE  /\ w = v /\ loop'[v].pc = "ensure" /\ loop'[v].turn = loop[v].turn
             /\ loop'[v].msg = loop[v].msg /\ loop'[v].todo = Tail(loop[v].todo)
  BY <1>0, <1>3 DEF EnsureAppends, Loop
<1>4. ASSUME NEW w \in Workers, ClaimTurn(w), ~Same PROVE w = v
  BY <1>0, <1>4 DEF ClaimTurn
<1>5. ASSUME NEW w \in Workers, Ack(w) \/ (CancelExecution(w) /\ loop[w].pc = "kill") \/ WorkerCrash(w), ~Same
      PROVE  w = v /\ loop'[v].pc = "idle" /\ loop'[v].turn = NoTurn
  <2>1. Abandon(w)
    BY <1>5 DEF Ack, CancelExecution, WorkerCrash, Abandon
  <2> QED
    BY <1>0, <1>5, <2>1, AbandonFields
<1>6. Rests \/ (\E u \in Turns : Opens(u)) \/ (\E w \in Workers : RelayPass(w)) => Same
  BY DEF Rests, Opens, RelayPass
<1>7. ASSUME NEW u \in Turns, NEW g \in Gens, ExecWrite(u, g) \/ LateWrite(u, g)
                                              \/ \E p \in TaskPcs : Stirs(u, g, p)
      PROVE  Same
  BY <1>7 DEF ExecWrite, LateWrite, Stirs
<1> QED
  BY <1>1, <1>2, <1>3, <1>4, <1>5, <1>6, <1>7 DEF StepKind

\* A loop waits for its own claim until it finds the claim lost.
LEMMA WaitsStep ==
    ASSUME Tended, [Next]_vars, StepKind
    PROVE  Waits'
<1>0. /\ TypeInv /\ TypeInv' /\ loop \in [Workers -> Loop] /\ Waits /\ gen \in [Turns -> Gens]
      /\ loop' \in [Workers -> Loop] /\ status' \in [Turns -> Statuses]
      /\ \A w \in Workers : loop[w].pc # "idle" => loop[w].turn \in Turns
      /\ \A w \in Workers : loop'[w].pc # "idle" => loop'[w].turn \in Turns
  BY NextTypes DEF Tended, StartOK, TypeInv, TypeOK, LoopOK
<1> SUFFICES ASSUME NEW v \in Workers, loop'[v].pc \in {"wait", "kill"},
                    NEW t \in Turns, t = loop'[v].turn, NEW g \in Gens, g = loop'[v].gen
             PROVE  Lost(t, g)' \/ (loop'[v].pc = "wait" /\ g = gen'[t] /\ owner'[t] = v)
  <2>1. \A v \in Workers : loop'[v].gen \in Gens
    BY <1>0 DEF Loop
  <2> QED
    BY <1>0, <2>1 DEF Waits, Lost
<1> DEFINE Goal == Lost(t, g)' \/ (loop'[v].pc = "wait" /\ g = gen'[t] /\ owner'[t] = v)
<1>1. CASE loop[v].pc \in {"wait", "kill"} /\ loop[v].turn = t /\ loop[v].gen = g
  <2>1. CASE Lost(t, g)
    BY <2>1, LostStays
  <2>2. CASE loop[v].pc = "wait" /\ g = gen[t] /\ owner[t] = v
    <3>1. (gen'[t] = g /\ owner'[t] = owner[t]) \/ Lost(t, g)'
      BY <2>2, ClaimStays
    <3>2. loop'[v].pc = "kill" => gen[t] # g \/ owner[t] # v
      <4>1. loop'[v].pc = "kill" => Moves(v)
        BY <1>0, <1>1, <2>2, LoopFrame, ClaimMakes
      <4> QED
        BY <1>1, <2>2, <4>1 DEF Moves, Goes
    <3> QED
      BY <2>2, <3>1, <3>2
  <2> QED
    BY <1>0, <1>1, <2>1, <2>2 DEF Waits
<1>2. CASE ~(loop[v].pc \in {"wait", "kill"} /\ loop[v].turn = t /\ loop[v].gen = g)
  <2>1. ClaimTurn(v)
    <3>1. ASSUME Moves(v) PROVE FALSE
      BY <1>2, <3>1 DEF Moves, Goes
    <3> QED
      BY <1>2, <3>1, LoopFrame
  <2>2. loop[v].turn \in Turns
    BY <1>0, <2>1 DEF ClaimTurn
  <2>3. owner \in [Turns -> Workers \union {NoWorker}]
    BY <1>0 DEF TypeInv, TypeOK
  <2>4. t = loop[v].turn
    BY <2>1, <2>2, ClaimMakes
  <2>5. /\ gen' = [gen EXCEPT ![t] = gen[t] + 1] /\ owner' = [owner EXCEPT ![t] = v]
        /\ loop'[v].pc = "wait" /\ loop'[v].gen = gen[t] + 1
    BY <2>1, <2>4, ClaimMakes
  <2> QED
    BY <1>0, <2>3, <2>5
<1> QED
  BY <1>1, <1>2

\* The repository calls of executions and of threads.
LEMMA WritesKeep ==
    ASSUME Tended, NEW u \in Turns, NEW g \in Gens, NEW write \in Writes, FencedWrite(u, g, write),
           write \in late[u][g] \/ task[u][g] = write
    PROVE  /\ \A t \in Turns \ {u} : status'[t] = status[t]
           /\ status'[u] # "cancelled"
           /\ write \in {"complete", "fail"} /\ gen[u] = g => status'[u] \in {"completed", "failed"}
           /\ status' = status \/ (gen[u] = g /\ write \in {"complete", "fail"} /\ status[u] = "running")
<1>0. /\ status \in [Turns -> Statuses] /\ gen \in [Turns -> Gens] /\ \A n \in Gens : ~(n < n)
      /\ status[u] # "cancelled"
  BY DeliveryAssumption DEF Tended, StartOK, TypeInv, TypeOK, Gens, Uncancelled
<1>1. write = "cancel" => Lost(u, g)
  BY DEF Tended, Leftovers
<1>2. write = "cancel" /\ gen[u] = g => status[u] \in Final
  BY <1>0, <1>1 DEF Lost
<1>3. gen[u] = g => status[u] \notin {"absent", "accepted"}
  <2>1. task[u][g] # "none"
    BY DEF Tended, StartOK, StartInv, StartInvAt, Writes
  <2> QED
    BY <2>1 DEF Tended, Sound, Vacant
<1>4. gen[u] = g => status[u] = "running" \/ status[u] \in {"completed", "failed"}
  BY <1>0, <1>3 DEF Statuses, Active, Final
<1>5. \A t \in Turns \ {u} : status'[t] = status[t]
  BY <1>0 DEF FencedWrite
<1>6. CASE gen[u] = g /\ write \in DOMAIN Target
  <2>1. status' = [status EXCEPT ![u] = Updated(status[u], Target[write])]
    BY <1>6 DEF FencedWrite
  <2>2. CASE status[u] \in Final
    BY <1>0, <1>4, <1>5, <2>1, <2>2 DEF Updated, Final
  <2>3. CASE status[u] = "running"
    <3>1. status' = [status EXCEPT ![u] = Target[write]]
      BY <2>1, <2>3 DEF Updated, Final
    <3>2. write \in {"run", "complete", "fail", "cancel"} /\ write # "cancel"
      BY <1>2, <1>6, <2>3 DEF Target, Final
    <3>3. /\ write = "run" => Target[write] = "running"
          /\ write = "complete" => Target[write] = "completed"
          /\ write = "fail" => Target[write] = "failed"
      BY DEF Target
    <3> QED
      BY <1>0, <1>5, <1>6, <2>3, <3>1, <3>2, <3>3
  <2> QED
    BY <1>4, <1>6, <2>2, <2>3 DEF Final
<1>7. CASE ~(gen[u] = g /\ write \in DOMAIN Target)
  <2>1. status' = status
    BY <1>7 DEF FencedWrite
  <2> QED
    BY <1>0, <1>5, <1>7, <2>1 DEF Target
<1> QED
  BY <1>6, <1>7

\* Where a task goes after a call.
LEMMA CallGoesOn ==
    ASSUME Tended, NEW u \in Turns, NEW g \in Gens, ExecWrite(u, g)
    PROVE  /\ task[u][g] \in Writes /\ FencedWrite(u, g, task[u][g])
           /\ UNCHANGED <<gen, owner, late, runner, loop, stream>>
           /\ \E p \in TaskPcs :
                /\ task' = [task EXCEPT ![u][g] = p]
                /\ p \in {"start", "engine", "emitMessage", "emitCompleted", "emitFailed",
                          "ok", "gone", "fail", "error"}
                /\ p = "fail" => task[u][g] = "complete"
                /\ p = "emitCompleted" => gen[u] = g /\ task[u][g] = "emitMessage"
                /\ p = "ok" => gen[u] = g /\ task[u][g] \in {"emitCompleted", "emitFailed"}
                /\ p = "fail" => gen[u] # g
                /\ task[u][g] \in {"complete", "fail"} /\ gen[u] = g => status'[u] \in Final
                /\ p = "gone" => task[u][g] = "cancel"
                /\ p = "error" => gen[u] # g
<1>0. /\ task[u][g] \in Writes /\ FencedWrite(u, g, task[u][g])
      /\ UNCHANGED <<gen, owner, late, runner, loop, stream>>
      /\ task[u][g] \notin CancelCalls
  BY DEF ExecWrite, redisVars, Tended, Leftovers
<1>1. /\ status'[u] # "cancelled"
      /\ task[u][g] \in {"complete", "fail"} /\ gen[u] = g => status'[u] \in {"completed", "failed"}
  BY <1>0, WritesKeep
<1> DEFINE q == task[u][g]
           p == IF Passes(u, g, q) THEN After(u, q, status'[u]) ELSE Raised(q)
<1>2. task' = [task EXCEPT ![u][g] = p]
  BY DEF ExecWrite
<1>3. CASE gen[u] = g
  <2>1. p = After(u, q, status'[u])
    BY <1>3 DEF Passes
  <2>2. \/ q = "run" /\ p = "start"
        \/ q = "start" /\ p = "engine"
        \/ q \in {"complete", "fail"} /\ p \in {"emitMessage", "emitFailed"}
        \/ q = "emitMessage" /\ p = "emitCompleted"
        \/ q \in {"emitCompleted", "emitFailed"} /\ p = "ok"
        \/ q = "cancel" /\ p = "gone"
    BY <1>0, <1>1, <1>3, <2>1 DEF After, TerminalStep, Writes, CancelCalls
  <2> HIDE DEF p
  <2>3. p \in TaskPcs
    BY <2>2 DEF TaskPcs, Writes
  <2> QED
    BY <1>0, <1>1, <1>2, <1>3, <2>2, <2>3 DEF Final
<1>4. CASE gen[u] # g
  <2>1. p = Raised(q)
    BY <1>0, <1>4 DEF Passes, CancelCalls
  <2>2. (q = "complete" /\ p = "fail") \/ p = "error"
    BY <2>1 DEF Raised
  <2> HIDE DEF p
  <2>3. p \in TaskPcs
    BY <2>2 DEF TaskPcs, Writes
  <2> QED
    BY <1>0, <1>2, <1>4, <2>2, <2>3
<1> QED
  BY <1>3, <1>4

\* What a late call leaves behind.
LEMMA LateGoesOn ==
    ASSUME Tended, NEW u \in Turns, NEW g \in Gens, LateWrite(u, g)
    PROVE  /\ UNCHANGED <<gen, owner, task, runner, loop, stream>>
           /\ \E write \in late[u][g] \intersect Writes :
                /\ FencedWrite(u, g, write)
                /\ late' = [late EXCEPT ![u][g] = late[u][g] \ {write}]
<1>0. late[u][g] \subseteq Writes /\ late[u][g] \intersect CancelCalls = {}
  BY DEF Tended, StartOK, TypeInv, TypeOK, Leftovers
<1>1. PICK write \in late[u][g] :
        /\ FencedWrite(u, g, write)
        /\ late' = [late EXCEPT ![u][g] =
              IF write = "ensureCancelled" /\ ~Logged(u, "cancelled")
              THEN (@ \ {write}) \union {"appendCancelled"} ELSE @ \ {write}]
  BY DEF LateWrite
<1>2. write # "ensureCancelled" /\ write \in late[u][g] \intersect Writes
  BY <1>0, <1>1 DEF CancelCalls
<1> QED
  BY <1>1, <1>2 DEF LateWrite, redisVars

\* No step writes the cancelled status.
LEMMA UncancelledStep ==
    ASSUME Tended, StepKind
    PROVE  Uncancelled'
<1>0. status \in [Turns -> Statuses] /\ Uncancelled
  BY DEF Tended, StartOK, TypeInv, TypeOK
<1>1. status' = status => Uncancelled'
  BY <1>0 DEF Uncancelled
<1>2. ASSUME NEW u \in Turns, Opens(u) PROVE Uncancelled'
  BY <1>0, <1>2 DEF Opens, Uncancelled
<1>3. ASSUME NEW w \in Workers, RelayPass(w) PROVE Uncancelled'
  BY <1>0, <1>3 DEF RelayPass, Uncancelled
<1>4. ASSUME NEW w \in Workers, ClaimTurn(w) PROVE Uncancelled'
  BY <1>0, <1>4 DEF ClaimTurn, ClaimRow, Uncancelled
<1>5. ASSUME NEW u \in Turns, NEW g \in Gens, ExecWrite(u, g) \/ LateWrite(u, g) PROVE Uncancelled'
  <2>1. PICK write \in Writes : FencedWrite(u, g, write) /\ (write \in late[u][g] \/ task[u][g] = write)
    BY <1>5, CallGoesOn, LateGoesOn
  <2>2. status'[u] # "cancelled" /\ \A t \in Turns \ {u} : status'[t] = status[t]
    BY <2>1, WritesKeep
  <2> QED
    BY <1>0, <2>2 DEF Uncancelled
<1>6. ASSUME \/ Rests \/ \E u \in Turns, g \in Gens, p \in TaskPcs : Stirs(u, g, p)
             \/ \E w \in Workers : \E u \in Turns : \E i \in DOMAIN stream[u] : Takes(w, u, i)
             \/ \E w \in Workers : Moves(w) \/ EnsureAppends(w) \/ Ack(w) \/ CancelExecution(w) \/ WorkerCrash(w)
      PROVE  status' = status
  BY <1>6 DEF Rests, Stirs, Takes, Moves, EnsureAppends, Ack, CancelExecution, WorkerCrash, rowVars
<1> QED
  BY <1>1, <1>2, <1>3, <1>4, <1>5, <1>6 DEF StepKind

\* What a step does to a task and its threads.
LEMMA TaskFrame ==
    ASSUME Tended, StepKind, NEW t \in Turns, NEW g \in Gens
    PROVE  \/ task'[t][g] = task[t][g] /\ late'[t][g] = late[t][g] /\ runner'[t][g] = runner[t][g]
           \/ ExecWrite(t, g) \/ LateWrite(t, g) \/ \E p \in TaskPcs : Stirs(t, g, p)
           \/ \E w \in Workers : ClaimTurn(w) /\ loop[w].turn = t /\ g = gen[t] + 1
           \/ \E w \in Workers : /\ CancelExecution(w) /\ loop[w].pc = "kill"
                                 /\ loop[w].turn = t /\ loop[w].gen = g
           \/ \E w \in Workers : WorkerCrash(w) /\ runner[t][g] = w
<1>0. /\ task \in [Turns -> [Gens -> TaskPcs]] /\ late \in [Turns -> [Gens -> SUBSET Writes]]
      /\ runner \in [Turns -> [Gens -> Workers \union {NoWorker}]] /\ loop \in [Workers -> Loop]
      /\ \A w \in Workers : loop[w].pc # "idle" => loop[w].turn \in Turns
  BY DEF Tended, StartOK, TypeInv, TypeOK, LoopOK
<1> DEFINE Same == task'[t][g] = task[t][g] /\ late'[t][g] = late[t][g] /\ runner'[t][g] = runner[t][g]
<1>1. ASSUME UNCHANGED <<task, late, runner>> PROVE Same
  BY <1>1
<1>2. ASSUME NEW u \in Turns, NEW h \in Gens, ExecWrite(u, h), ~Same PROVE u = t /\ h = g
  <2>1. PICK p \in TaskPcs : task' = [task EXCEPT ![u][h] = p]
    BY <1>2, CallGoesOn
  <2>2. late' = late /\ runner' = runner
    BY <1>2, CallGoesOn
  <2> QED
    BY <1>0, <1>2, <2>1, <2>2
<1>3. ASSUME NEW u \in Turns, NEW h \in Gens, LateWrite(u, h), ~Same PROVE u = t /\ h = g
  BY <1>0, <1>3, LateGoesOn
<1>4. ASSUME NEW u \in Turns, NEW h \in Gens, NEW p \in TaskPcs, Stirs(u, h, p), ~Same PROVE u = t /\ h = g
  BY <1>0, <1>4 DEF Stirs
<1>5. ASSUME NEW w \in Workers, ClaimTurn(w), ~Same PROVE loop[w].turn = t /\ g = gen[t] + 1
  <2>1. loop[w].turn \in Turns
    BY <1>0, <1>5 DEF ClaimTurn
  <2>2. PICK u \in Turns : u = loop[w].turn
    BY <2>1
  <2>3. /\ gen[u] + 1 \in Gens /\ late' = late
        /\ task' = [task EXCEPT ![u][gen[u] + 1] = "run"]
        /\ runner' = [runner EXCEPT ![u][gen[u] + 1] = w]
    BY <1>5, <2>2, ClaimMakes
  <2> DEFINE h == gen[u] + 1
  <2>4. h \in Gens /\ task' = [task EXCEPT ![u][h] = "run"] /\ runner' = [runner EXCEPT ![u][h] = w]
    BY <2>3
  <2>5. h = gen[u] + 1
    OBVIOUS
  <2> HIDE DEF h
  <2> QED
    BY <1>0, <1>5, <2>2, <2>3, <2>4, <2>5
<1>6. ASSUME NEW w \in Workers, CancelExecution(w), loop[w].pc = "kill", ~Same
      PROVE  loop[w].turn = t /\ loop[w].gen = g
  <2>1. loop[w].turn \in Turns /\ loop[w].gen \in Gens
    BY <1>0, <1>6 DEF Loop
  <2> QED
    BY <1>0, <1>6, <2>1 DEF CancelExecution
<1>7. ASSUME NEW w \in Workers, WorkerCrash(w), ~Same PROVE runner[t][g] = w
  BY <1>0, <1>7 DEF WorkerCrash
<1>8. ASSUME \/ Rests \/ \E u \in Turns : Opens(u)
             \/ \E w \in Workers : \E u \in Turns : \E i \in DOMAIN stream[u] : Takes(w, u, i)
             \/ \E w \in Workers : Moves(w) \/ EnsureAppends(w) \/ Ack(w) \/ RelayPass(w)
      PROVE  Same
  BY <1>8 DEF Rests, Opens, Takes, Moves, EnsureAppends, Ack, RelayPass, execVars
<1> QED
  BY <1>2, <1>3, <1>4, <1>5, <1>6, <1>7, <1>8 DEF StepKind

\* A cancelled execution has lost its claim.
LEMMA KilledIsLost ==
    ASSUME Tended, NEW w \in Workers, CancelExecution(w), loop[w].pc = "kill",
           NEW t \in Turns, t = loop[w].turn, NEW g \in Gens, g = loop[w].gen
    PROVE  /\ Lost(t, g)
           /\ task' = [task EXCEPT ![t][g] = Cancelled(task[t][g])]
           /\ late'[t][g] \subseteq late[t][g] \union {task[t][g]}
           /\ UNCHANGED <<status, gen, owner, log>>
<1>1. late \in [Turns -> [Gens -> SUBSET Writes]]
  BY DEF Tended, StartOK, TypeInv, TypeOK
<1>2. PICK call \in SUBSET ({task[t][g]} \intersect (Writes \ {"run"})) :
         late' = [late EXCEPT ![t][g] = late[t][g] \union call]
  BY DEF CancelExecution
<1>3. late'[t][g] = late[t][g] \union call
  BY <1>1, <1>2
<1> QED
  BY <1>3 DEF Tended, Waits, CancelExecution, rowVars

\* What a cancelled task does next.
LEMMA CancelledGoesOn ==
    ASSUME NEW p \in TaskPcs
    PROVE  /\ Cancelled(p) \in {"cancel", "gone"} \/ (p \notin Writes /\ p # "engine" /\ Cancelled(p) = p)
BY DEF Cancelled, Writes

\* Cancelled executions and abandoned threads belong to lost claims.
LEMMA LeftoversStep ==
    ASSUME Tended, [Next]_vars, StepKind
    PROVE  Leftovers'
<1> SUFFICES ASSUME NEW t \in Turns, NEW g \in Gens
             PROVE  /\ task'[t][g] = "cancel" \/ ~(late'[t][g] \subseteq {"complete"}) => Lost(t, g)'
                    /\ task'[t][g] \notin CancelCalls /\ late'[t][g] \intersect CancelCalls = {}
  BY DEF Leftovers
<1>0. /\ task \in [Turns -> [Gens -> TaskPcs]] /\ late \in [Turns -> [Gens -> SUBSET Writes]]
      /\ loop \in [Workers -> Loop]
  BY DEF Tended, StartOK, TypeInv, TypeOK
<1>1. /\ task[t][g] = "cancel" \/ ~(late[t][g] \subseteq {"complete"}) => Lost(t, g)
      /\ task[t][g] \notin CancelCalls /\ late[t][g] \intersect CancelCalls = {}
  BY DEF Tended, Leftovers
<1>2. Lost(t, g) => Lost(t, g)'
  BY LostStays
<1>3. CASE task'[t][g] = task[t][g] /\ late'[t][g] = late[t][g]
  BY <1>1, <1>2, <1>3
<1>4. CASE ExecWrite(t, g)
  <2>1. late' = late /\ task'[t][g] \notin {"cancel"} \union CancelCalls
    BY <1>0, <1>4, CallGoesOn DEF CancelCalls
  <2> QED
    BY <1>1, <1>2, <2>1
<1>5. CASE LateWrite(t, g)
  <2>1. task' = task /\ late'[t][g] \subseteq late[t][g]
    BY <1>0, <1>5, LateGoesOn
  <2> QED
    BY <1>1, <1>2, <2>1
<1>6. ASSUME NEW p \in TaskPcs, Stirs(t, g, p)
      PROVE  /\ task'[t][g] \notin {"cancel"} \union CancelCalls
             /\ late'[t][g] \subseteq late[t][g] \union {"complete"}
  BY <1>0, <1>6 DEF Stirs, CancelCalls
<1>7. CASE \E p \in TaskPcs : Stirs(t, g, p)
  BY <1>1, <1>2, <1>6, <1>7 DEF CancelCalls
<1>8. ASSUME NEW w \in Workers, ClaimTurn(w), loop[w].turn = t, g = gen[t] + 1
      PROVE  late' = late /\ task'[t][g] = "run"
  BY <1>0, <1>8, ClaimMakes
<1>9. CASE \E w \in Workers : ClaimTurn(w) /\ loop[w].turn = t /\ g = gen[t] + 1
  BY <1>1, <1>2, <1>8, <1>9 DEF CancelCalls
<1>10. ASSUME NEW w \in Workers, CancelExecution(w), loop[w].pc = "kill", loop[w].turn = t, loop[w].gen = g
       PROVE  /\ Lost(t, g)' /\ task'[t][g] \notin CancelCalls /\ late'[t][g] \intersect CancelCalls = {}
  <2>1. /\ Lost(t, g) /\ task'[t][g] = Cancelled(task[t][g])
        /\ late'[t][g] \subseteq late[t][g] \union {task[t][g]}
    <3>1. Lost(t, g) /\ task' = [task EXCEPT ![t][g] = Cancelled(task[t][g])]
      BY <1>10, KilledIsLost
    <3>2. late'[t][g] \subseteq late[t][g] \union {task[t][g]}
      BY <1>10, KilledIsLost
    <3> QED
      BY <1>0, <3>1, <3>2
  <2>2. task'[t][g] \notin CancelCalls
    BY <1>0, <1>1, <2>1, CancelledGoesOn DEF CancelCalls
  <2> QED
    BY <1>1, <1>2, <2>1, <2>2
<1>11. ASSUME NEW w \in Workers, WorkerCrash(w), runner[t][g] = w
       PROVE  task'[t][g] = "gone" /\ late'[t][g] = {}
  BY <1>0, <1>11 DEF WorkerCrash
<1>12. CASE \E w \in Workers : WorkerCrash(w) /\ runner[t][g] = w
  BY <1>11, <1>12 DEF CancelCalls
<1> QED
  BY <1>3, <1>4, <1>5, <1>7, <1>9, <1>10, <1>12, TaskFrame

\* Only recovery and claims move a generation.
LEMMA GenMoves ==
    ASSUME Tended, [Next]_vars, StepKind, NEW t \in Turns, gen'[t] # gen[t]
    PROVE  \/ owner'[t] = NoWorker
           \/ \E w \in Workers : ClaimTurn(w) /\ loop[w].turn = t
<1>0. /\ gen \in [Turns -> Gens] /\ \A w \in Workers : loop[w].pc # "idle" => loop[w].turn \in Turns
  BY DEF Tended, StartOK, TypeInv, TypeOK, LoopOK
<1>1. ASSUME NEW w \in Workers, RelayPass(w) PROVE owner'[t] = NoWorker
  BY <1>1 DEF RelayPass, Retried
<1>2. ASSUME NEW w \in Workers, ClaimTurn(w) PROVE loop[w].turn = t
  BY <1>0, <1>2 DEF ClaimTurn, ClaimRow
<1>3. ASSUME NEW w \in Workers, Moves(w) \/ EnsureAppends(w) \/ Ack(w) \/ CancelExecution(w)
                                \/ WorkerCrash(w)
                                \/ \E u \in Turns : \E i \in DOMAIN stream[u] : Takes(w, u, i)
      PROVE  FALSE
  BY <1>3 DEF Takes, Moves, EnsureAppends, Ack, CancelExecution, WorkerCrash, rowVars
<1>4. ASSUME NEW u \in Turns, NEW h \in Gens, ExecWrite(u, h) \/ LateWrite(u, h)
                                              \/ \E p \in TaskPcs : Stirs(u, h, p)
      PROVE  FALSE
  BY <1>4 DEF ExecWrite, LateWrite, Stirs
<1>5. Rests \/ (\E u \in Turns : Opens(u)) => FALSE
  BY DEF Rests, Opens
<1> QED
  BY <1>1, <1>2, <1>3, <1>4, <1>5 DEF StepKind

\* A loop that awaits the current execution of its turn goes on waiting.
LEMMA WaitGoesOn ==
    ASSUME Tended, StepKind, NEW t \in Turns, owner[t] \in Workers,
           task[t][gen[t]] \in Writes \union {"engine"},
           task'[t][gen[t]] # "gone"
    PROVE  LET l == loop'[owner[t]] IN l.pc = "wait" /\ l.turn = t /\ l.gen = gen[t]
<1> DEFINE o == owner[t]
<1>0. /\ runner[t][gen[t]] = o /\ loop[o].pc = "wait" /\ loop[o].turn = t /\ loop[o].gen = gen[t]
      /\ o \in Workers /\ gen[t] \in Gens
  BY DeliveryAssumption DEF Tended, Awaited, StartOK, TypeInv, TypeOK
<1>1. task[t][gen[t]] \notin {"error", "ok"}
  BY DEF Writes
<1> HIDE DEF o
<1>2. ~Moves(o) \/ loop'[o] = loop[o]
  BY <1>0, <1>1 DEF Moves, Goes, o
<1>3. ~WorkerCrash(o)
  BY <1>0 DEF WorkerCrash
<1>4. loop'[o] = loop[o]
  BY <1>0, <1>2, <1>3, LoopFrame DEF Takes, EnsureAppends, ClaimTurn, Ack
<1> QED
  BY <1>0, <1>4 DEF o

\* The owner's loop waits until its execution has ended.
LEMMA AwaitedStep ==
    ASSUME Tended, [Next]_vars, StepKind
    PROVE  Awaited'
<1>0. /\ TypeOK /\ TypeOK' /\ NoWorker \notin Workers
  BY NextTypes, DeliveryAssumption DEF Tended, StartOK, TypeInv
<1> SUFFICES ASSUME NEW t \in Turns, owner'[t] \in Workers, NEW g \in Gens, g = gen'[t],
                    task'[t][g] \in Writes \union {"engine"}
             PROVE  /\ runner'[t][g] = owner'[t]
                    /\ loop'[owner'[t]].pc = "wait" /\ loop'[owner'[t]].turn = t /\ loop'[owner'[t]].gen = g
  BY <1>0 DEF Awaited, TypeOK
<1>1. /\ task \in [Turns -> [Gens -> TaskPcs]] /\ late \in [Turns -> [Gens -> SUBSET Writes]]
      /\ runner \in [Turns -> [Gens -> Workers \union {NoWorker}]] /\ loop \in [Workers -> Loop]
      /\ gen[t] \in Gens /\ owner \in [Turns -> Workers \union {NoWorker}] /\ gen \in [Turns -> Gens]
      /\ "gone" \notin Writes \union {"engine"}
  BY <1>0 DEF TypeOK, Writes
<1>2. CASE gen'[t] # gen[t]
  <2>1. PICK w \in Workers : ClaimTurn(w) /\ loop[w].turn = t
    BY <1>0, <1>2, GenMoves
  <2>2. /\ gen[t] + 1 \in Gens /\ gen' = [gen EXCEPT ![t] = gen[t] + 1]
        /\ owner' = [owner EXCEPT ![t] = w] /\ loop'[w].pc = "wait" /\ loop'[w].turn = t
        /\ loop'[w].gen = gen[t] + 1 /\ runner' = [runner EXCEPT ![t][gen[t] + 1] = w]
    BY <2>1, ClaimMakes
  <2>3. g = gen[t] + 1 /\ owner'[t] = w
    BY <1>1, <2>2
  <2>4. runner'[t][g] = w
    BY <1>1, <2>2, <2>3
  <2> QED
    BY <2>2, <2>3, <2>4
<1>3. CASE gen'[t] = gen[t]
  <2>1. owner'[t] = owner[t]
    <3>1. \A n \in Gens : ~(n < n)
      BY DeliveryAssumption DEF Gens
    <3> QED
      BY <1>0, <1>1, <1>3, <3>1, ClaimStays DEF Lost
  <2>2. CASE task[t][g] \in Writes \union {"engine"}
    <3>1. loop'[owner[t]].pc = "wait" /\ loop'[owner[t]].turn = t /\ loop'[owner[t]].gen = g
      BY <1>1, <1>3, <2>1, <2>2, WaitGoesOn
    <3>2. runner'[t][g] = runner[t][g]
      <4>1. ASSUME NEW w \in Workers, ClaimTurn(w), loop[w].turn = t, g = gen[t] + 1 PROVE FALSE
        BY <1>1, <1>3, <4>1, DeliveryAssumption DEF Gens
      <4>2. ExecWrite(t, g) \/ LateWrite(t, g) \/ (\E p \in TaskPcs : Stirs(t, g, p))
            \/ (\E w \in Workers : CancelExecution(w) \/ WorkerCrash(w)) => runner' = runner
        BY DEF ExecWrite, LateWrite, Stirs, CancelExecution, WorkerCrash
      <4> QED
        BY <4>1, <4>2, TaskFrame
    <3>3. runner[t][g] = owner[t]
      BY <1>0, <1>3, <2>1, <2>2 DEF Tended, Awaited
    <3> QED
      BY <2>1, <3>1, <3>2, <3>3
  <2>3. CASE task[t][g] \notin Writes \union {"engine"}
    <3>1. ~ExecWrite(t, g)
      BY <2>3 DEF ExecWrite
    <3>2. ~\E p \in TaskPcs : Stirs(t, g, p)
      BY <2>3 DEF Stirs, Writes
    <3>3. LateWrite(t, g) => task' = task
      BY DEF LateWrite
    <3>4. ASSUME NEW w \in Workers, ClaimTurn(w), loop[w].turn = t, g = gen[t] + 1 PROVE FALSE
      BY <1>1, <1>3, <3>4, DeliveryAssumption DEF Gens
    <3>5. ASSUME NEW w \in Workers, CancelExecution(w), loop[w].pc = "kill", loop[w].turn = t, loop[w].gen = g
          PROVE  FALSE
      <4>1. Lost(t, g)
        BY <3>5, KilledIsLost
      <4>2. ~(g < gen[t]) /\ owner[t] # NoWorker
        BY <1>0, <1>1, <1>3, <2>1, DeliveryAssumption DEF Gens
      <4> QED
        BY <4>1, <4>2 DEF Lost
    <3>6. ASSUME NEW w \in Workers, WorkerCrash(w), runner[t][g] = w PROVE task'[t][g] = "gone"
      BY <1>1, <3>6 DEF WorkerCrash
    <3> QED
      BY <1>1, <2>3, <3>1, <3>2, <3>3, <3>4, <3>5, <3>6, TaskFrame
  <2> QED
    BY <2>2, <2>3
<1> QED
  BY <1>2, <1>3

\* A completing thread is left behind only on the way to the failed status.
LEMMA LateEndsStep ==
    ASSUME Tended, [Next]_vars, StepKind
    PROVE  LateEnds'
<1>0. /\ TypeOK /\ TypeOK' /\ \A n \in Gens : n \in Nat /\ ~(n < n) /\ n < n + 1
  BY NextTypes, DeliveryAssumption DEF Tended, StartOK, TypeInv, Gens
<1> SUFFICES ASSUME NEW t \in Turns, NEW g \in Gens, g = gen'[t], late'[t][g] # {}, status'[t] \notin Final
             PROVE  task'[t][g] = "fail"
  BY <1>0 DEF LateEnds, TypeOK
<1>1. /\ task \in [Turns -> [Gens -> TaskPcs]] /\ late \in [Turns -> [Gens -> SUBSET Writes]]
      /\ gen[t] \in Gens /\ status[t] \notin Final /\ loop \in [Workers -> Loop]
  BY <1>0, EndedRowStays DEF TypeOK
<1>2. ASSUME NEW w \in Workers, CancelExecution(w), loop[w].pc = "kill", loop[w].turn = t, loop[w].gen = g
      PROVE  g < gen[t]
  BY <1>1, <1>2, KilledIsLost DEF Lost
<1>3. ASSUME NEW w \in Workers, WorkerCrash(w), runner[t][g] = w PROVE late'[t][g] = {}
  BY <1>1, <1>3 DEF WorkerCrash
<1>4. ASSUME NEW w \in Workers, ClaimTurn(w), loop[w].turn = t, g = gen[t] + 1 PROVE late' = late
  BY <1>4 DEF ClaimTurn
<1>5. LateWrite(t, g) => task' = task /\ late[t][g] # {}
  BY <1>1, LateGoesOn
<1>6. CASE gen'[t] # gen[t]
  <2>1. gen[t] < g
    BY <1>0, <1>1, <1>6, LogGrows DEF Tended, StartOK
  <2>2. task[t][g] = "none" /\ late[t][g] = {}
    BY <1>0, <1>1, <2>1 DEF Tended, StartOK, StartInv, StartInvAt
  <2>3. ~ExecWrite(t, g) /\ ~\E p \in TaskPcs : Stirs(t, g, p)
    BY <2>2 DEF ExecWrite, Stirs, Writes
  <2>4. ~(g < gen[t])
    BY <1>0, <1>1, <2>1
  <2> QED
    BY <1>2, <1>3, <1>4, <1>5, <2>2, <2>3, <2>4, TaskFrame
<1>7. CASE gen'[t] = gen[t]
  <2>1. late[t][g] # {} => task[t][g] = "fail"
    BY <1>1, <1>7 DEF Tended, LateEnds
  <2>2. CASE ExecWrite(t, g)
    <3>1. late' = late /\ (task[t][g] = "fail" /\ gen[t] = g => status'[t] \in Final)
      BY <2>2, CallGoesOn
    <3> QED
      BY <1>7, <2>1, <3>1
  <2>3. ASSUME NEW p \in TaskPcs, Stirs(t, g, p) PROVE task'[t][g] = "fail"
    <3>1. task[t][g] # "fail"
      BY <2>3 DEF Stirs
    <3>2. late[t][g] = {}
      BY <2>1, <3>1
    <3>3. late' # late
      BY <3>2
    <3>4. p = "fail" /\ task' = [task EXCEPT ![t][g] = p]
      BY <2>3, <3>3 DEF Stirs
    <3> QED
      BY <1>1, <3>4
  <2>4. ~\E w \in Workers : ClaimTurn(w) /\ loop[w].turn = t /\ g = gen[t] + 1
    BY <1>0, <1>1, <1>7
  <2>5. ~(g < gen[t])
    BY <1>0, <1>1, <1>7
  <2> QED
    BY <1>2, <1>3, <1>5, <2>1, <2>2, <2>3, <2>4, <2>5, TaskFrame
<1> QED
  BY <1>6, <1>7

\* A repository call that emits logs its event.
LEMMA EmitLogs ==
    ASSUME Tended, NEW t \in Turns, NEW type \in EventTypes, log' = Appended(t, type)
    PROVE  Logged(t, type)'
<1>0. log \in [Turns -> Seq(Event)] /\ gen[t] \in Gens
  BY DEF Tended, StartOK, TypeInv, TypeOK
<1> DEFINE event == [type |-> type, gen |-> gen[t]]
<1>1. event \in Event /\ event.type = type
  BY <1>0 DEF Event
<1>2. log'[t] = Append(log[t], event)
  BY <1>0 DEF Appended
<1> HIDE DEF event
<1>3. Len(log[t]) + 1 \in 1..Len(log'[t]) /\ log'[t][Len(log[t]) + 1] = event
  BY <1>0, <1>1, <1>2
<1> QED
  BY <1>1, <1>3 DEF Logged

\* A turn whose log is complete keeps it so.
LEMMA AllLoggedStays ==
    ASSUME Tended, [Next]_vars, StepKind, NEW t \in Turns, status[t] \in Final, AllLogged(t)
    PROVE  status'[t] \in Final /\ AllLogged(t)'
<1>1. status'[t] = status[t]
  BY EndedRowStays
<1>2. \A type \in TerminalEvents(status[t]) : Logged(t, type)'
  BY LoggedStays DEF AllLogged, Tended, StartOK
<1> QED
  BY <1>1, <1>2 DEF AllLogged

\* The last event of an execution completes the log.
LEMMA LastEmit ==
    ASSUME Tended, [Next]_vars, StepKind, NEW t \in Turns, NEW g \in Gens, g = gen[t], ExecWrite(t, g),
           task[t][g] \in {"emitCompleted", "emitFailed"}
    PROVE  status'[t] \in Final /\ AllLogged(t)'
<1>1. ASSUME NEW e \in {"completed", "failed"}, task[t][g] \in EndWrites(e), Emits[task[t][g]] = e,
             task[t][g] \in DOMAIN Emits
      PROVE  status'[t] = e /\ Logged(t, e)'
  <2>1. Told(t, e)
    BY <1>1 DEF Told, InCalls
  <2>2. status[t] = e
    BY <1>1, <2>1 DEF Tended, TellsTheTruth, Stands, Uncancelled, Ends
  <2>3. log' = Appended(t, e)
    BY <1>1, CallGoesOn DEF FencedWrite
  <2>4. Logged(t, e)'
    BY <2>3, EmitLogs DEF EventTypes, EndTypes
  <2> QED
    BY <2>2, <2>4, EndedRowStays DEF Final
<1>2. CASE task[t][g] = "emitCompleted"
  <2>1. status'[t] = "completed" /\ Logged(t, "completed")'
    BY <1>1, <1>2 DEF EndWrites, Emits
  <2>2. Logged(t, "message")
    BY <1>2 DEF Tended, Reported
  <2>3. Logged(t, "message")'
    BY <2>2, LoggedStays DEF Tended, StartOK
  <2> QED
    BY <2>1, <2>3 DEF AllLogged, TerminalEvents, Final
<1>3. CASE task[t][g] = "emitFailed"
  <2>1. status'[t] = "failed" /\ Logged(t, "failed")'
    BY <1>1, <1>3 DEF EndWrites, Emits
  <2> QED
    BY <2>1 DEF AllLogged, TerminalEvents, Final
<1> QED
  BY <1>2, <1>3

\* An execution that returns has logged the end of the turn.
LEMMA ReportedStep ==
    ASSUME Tended, [Next]_vars, StepKind
    PROVE  Reported'
<1> SUFFICES ASSUME NEW t \in Turns, NEW g \in Gens
             PROVE  /\ task'[t][g] = "emitCompleted" /\ g = gen'[t] => Logged(t, "message")'
                    /\ task'[t][g] = "ok" => status'[t] \in Final /\ AllLogged(t)'
  BY DEF Reported
<1>0. /\ TypeInv /\ TypeOK /\ TypeOK' /\ \A n \in Gens : n \in Nat /\ ~(n < n) /\ n < n + 1
  BY NextTypes, DeliveryAssumption DEF Tended, StartOK, TypeInv, Gens
<1>a. /\ task \in [Turns -> [Gens -> TaskPcs]] /\ loop \in [Workers -> Loop] /\ gen[t] \in Gens /\ gen'[t] \in Gens
  BY <1>0 DEF TypeOK
<1>1. CASE task'[t][g] = task[t][g]
  <2>1. task[t][g] = "emitCompleted" /\ g = gen'[t] => Logged(t, "message")
    <3>1. gen'[t] # gen[t] => gen[t] < gen'[t]
      BY <1>0, <1>a, LogGrows
    <3>2. g > gen[t] => task[t][g] = "none"
      BY DEF Tended, StartOK, StartInv, StartInvAt
    <3> QED
      BY <1>0, <1>a, <3>1, <3>2 DEF Tended, Reported
  <2>2. Logged(t, "message") => Logged(t, "message")'
    BY <1>0, LoggedStays
  <2>3. task[t][g] = "ok" => status[t] \in Final /\ AllLogged(t)
    BY DEF Tended, Reported
  <2> QED
    BY <1>1, <2>1, <2>2, <2>3, AllLoggedStays
<1>2. CASE ExecWrite(t, g)
  <2>1. PICK p \in TaskPcs :
          /\ task' = [task EXCEPT ![t][g] = p]
          /\ p = "emitCompleted" => gen[t] = g /\ task[t][g] = "emitMessage"
          /\ p = "ok" => gen[t] = g /\ task[t][g] \in {"emitCompleted", "emitFailed"}
    BY <1>2, CallGoesOn
  <2>2. task'[t][g] = p
    BY <1>a, <2>1
  <2>3. p = "emitCompleted" => Logged(t, "message")'
    <3>1. p = "emitCompleted" => log' = Appended(t, "message")
      BY <1>2, <2>1, CallGoesOn DEF FencedWrite, Emits
    <3>2. "message" \in EventTypes
      BY DEF EventTypes, EndTypes
    <3> QED
      BY <3>1, <3>2, EmitLogs
  <2>4. p = "ok" => status'[t] \in Final /\ AllLogged(t)'
    BY <1>2, <2>1, LastEmit
  <2> QED
    BY <2>2, <2>3, <2>4
<1>3. LateWrite(t, g) => task' = task
  BY DEF LateWrite
<1>4. ASSUME NEW p \in TaskPcs, Stirs(t, g, p) PROVE task'[t][g] \notin {"ok", "emitCompleted"}
  BY <1>a, <1>4 DEF Stirs
<1>5. ASSUME NEW w \in Workers, ClaimTurn(w), loop[w].turn = t, g = gen[t] + 1 PROVE task'[t][g] = "run"
  BY <1>0, <1>a, <1>5, ClaimMakes
<1>6. ASSUME NEW w \in Workers, CancelExecution(w), loop[w].pc = "kill", loop[w].turn = t, loop[w].gen = g
      PROVE  task'[t][g] \in {"cancel", "gone"} \/ task'[t][g] = task[t][g]
  <2>1. task' = [task EXCEPT ![t][g] = Cancelled(task[t][g])]
    BY <1>6, KilledIsLost
  <2> QED
    BY <1>a, <2>1, CancelledGoesOn
<1>7. ASSUME NEW w \in Workers, WorkerCrash(w), runner[t][g] = w PROVE task'[t][g] = "gone"
  BY <1>a, <1>7 DEF WorkerCrash
<1>8. CASE task'[t][g] \notin {"ok", "emitCompleted"}
  BY <1>8
<1>9. task'[t][g] \in {"cancel", "gone", "run"} => task'[t][g] \notin {"ok", "emitCompleted"}
  OBVIOUS
<1> QED
  BY <1>1, <1>2, <1>3, <1>4, <1>5, <1>6, <1>7, <1>8, <1>9, TaskFrame

\* An entry is ACKed only by the loop that handles it.
LEMMA EntryStays ==
    ASSUME Tended, StepKind, NEW t \in Turns, NEW i \in DOMAIN stream[t], stream[t][i] # "acked"
    PROVE  /\ i \in DOMAIN stream'[t]
           /\ \/ stream'[t][i] # "acked"
              \/ \E w \in Workers : loop[w].pc = "ack" /\ loop[w].turn = t /\ loop[w].msg = i
<1>0. /\ TypeOK /\ stream \in [Turns -> Seq(Delivery)]
      /\ \A w \in Workers : loop[w].pc # "idle" => loop[w].turn \in Turns
  BY DEF Tended, StartOK, TypeInv, TypeOK, LoopOK
<1> DEFINE Goal == /\ i \in DOMAIN stream'[t]
                   /\ \/ stream'[t][i] # "acked"
                      \/ \E w \in Workers : loop[w].pc = "ack" /\ loop[w].turn = t /\ loop[w].msg = i
<1>1. ASSUME Grows \/ stream' = stream PROVE Goal
  BY <1>1 DEF Grows
<1>2. ASSUME NEW w \in Workers, RelayPass(w) PROVE Grows
  <2>1. \A u \in Turns : stream'[u] = Published(u)
    BY <1>2 DEF RelayPass
  <2> QED
    BY <1>0, <2>1, PublishedExtends DEF Grows
<1>3. ASSUME NEW w \in Workers, NEW u \in Turns, NEW j \in DOMAIN stream[u], Takes(w, u, j) PROVE Goal
  <2>1. stream' = [stream EXCEPT ![u][j] = "pending"]
    BY <1>3 DEF Takes, Take
  <2> QED
    BY <1>0, <2>1
<1>4. ASSUME NEW w \in Workers, Ack(w) PROVE Goal
  <2>1. loop[w].pc = "ack" /\ stream' = [stream EXCEPT ![loop[w].turn][loop[w].msg] = "acked"]
    BY <1>4 DEF Ack
  <2> QED
    BY <1>0, <2>1
<1>5. ASSUME NEW w \in Workers, \/ Moves(w) \/ EnsureAppends(w) \/ ClaimTurn(w) \/ CancelExecution(w)
                                \/ WorkerCrash(w)
      PROVE  stream' = stream
  BY <1>5 DEF Moves, EnsureAppends, ClaimTurn, CancelExecution, WorkerCrash, redisVars
<1>6. ASSUME NEW u \in Turns, NEW g \in Gens, \/ ExecWrite(u, g) \/ LateWrite(u, g)
                                              \/ \E p \in TaskPcs : Stirs(u, g, p)
      PROVE  stream' = stream
  BY <1>6 DEF ExecWrite, LateWrite, Stirs, redisVars
<1>7. Rests \/ (\E u \in Turns : Opens(u)) => Grows \/ stream' = stream
  BY DEF Rests, Opens
<1> HIDE DEF Goal
<1>8. Goal
  BY <1>1, <1>2, <1>3, <1>4, <1>5, <1>6, <1>7 DEF StepKind
<1> QED
  BY <1>8 DEF Goal

\* What the tail of a plan leaves out is its head.
LEMMA TailKeeps ==
    ASSUME NEW S, NEW s \in Seq(S), s # <<>>, NEW k \in DOMAIN s
    PROVE  s[k] = Head(s) \/ \E j \in DOMAIN Tail(s) : Tail(s)[j] = s[k]
<1>1. CASE k = 1
  BY <1>1
<1>2. CASE k # 1
  <2>1. k - 1 \in DOMAIN Tail(s) /\ Tail(s)[k - 1] = s[k]
    BY <1>2
  <2> QED
    BY <2>1
<1> QED
  BY <1>1, <1>2

\* The repairs of a turn that has ended cover its terminal events.
LEMMA RepairsCover ==
    ASSUME NEW s \in {"completed", "failed"}
    PROVE  /\ Repairs(s) # <<>>
           /\ \A type \in TerminalEvents(s) : \E k \in DOMAIN Repairs(s) : Repairs(s)[k] = type
<1>1. CASE s = "completed"
  <2>1. Repairs(s) = <<"message", "completed">> /\ TerminalEvents(s) = {"message", "completed"}
    BY <1>1 DEF Repairs, TerminalEvents
  <2>2. 1 \in DOMAIN Repairs(s) /\ 2 \in DOMAIN Repairs(s)
        /\ Repairs(s)[1] = "message" /\ Repairs(s)[2] = "completed" /\ Repairs(s) # <<>>
    BY <2>1
  <2> QED
    BY <2>1, <2>2
<1>2. CASE s = "failed"
  <2>1. Repairs(s) = <<"failed">> /\ TerminalEvents(s) = {"failed"}
    BY <1>2 DEF Repairs, TerminalEvents
  <2>2. 1 \in DOMAIN Repairs(s) /\ Repairs(s)[1] = "failed" /\ Repairs(s) # <<>>
    BY <2>1
  <2> QED
    BY <2>1, <2>2
<1> QED
  BY <1>1, <1>2

\* The loop w that handles the guarding entry does not come to its ACK.
Repairing(t, w) ==
    \/ loop[w].pc \in {"key", "term", "wait", "kill"}
    \/ /\ loop[w].pc \in {"ensure", "append"}
       /\ \A type \in TerminalEvents(status[t]) :
             Logged(t, type) \/ \E k \in DOMAIN loop[w].todo : loop[w].todo[k] = type

\* A loop with the entry of an ended turn looks at the log before it ACKs.
LEMMA RepairGoesOn ==
    ASSUME Tended, [Next]_vars, StepKind, NEW t \in Turns, status[t] \in Final, ~AllLogged(t),
           NEW v \in Workers, loop[v].turn = t => Repairing(t, v), loop'[v].turn = t,
           loop'[v].msg = loop[v].msg, loop[v].turn = t
    PROVE  Repairing(t, v)'
<1>0. /\ status[t] \in {"completed", "failed"} /\ status'[t] = status[t] /\ t # NoTurn
      /\ loop[v].todo \in Seq(EndTypes) /\ loop[v].pc \in LoopPcs /\ loop[v].gen \in Gens
      /\ loop[v].pc = "append" => loop[v].todo # <<>>
  BY EndedRowStays, DeliveryAssumption DEF Tended, StartOK, TypeInv, TypeOK, LoopOK, Loop, Uncancelled, Final
<1>1. \A type : Logged(t, type) => Logged(t, type)'
  BY LoggedStays DEF Tended, StartOK
<1>2. CASE loop'[v] = loop[v]
  BY <1>0, <1>1, <1>2 DEF Repairing
<1>3. CASE loop'[v].pc = "key"
  BY <1>3 DEF Repairing
<1>4. CASE EnsureAppends(v) /\ loop'[v].pc = "ensure" /\ loop'[v].todo = Tail(loop[v].todo)
  <2>1. log' = Appended(t, Head(loop[v].todo)) /\ loop[v].pc = "append" /\ loop[v].todo # <<>>
    BY <1>0, <1>4 DEF EnsureAppends
  <2>2. Head(loop[v].todo) \in EndTypes
    BY <1>0, <2>1
  <2>3. PICK head \in EventTypes : head = Head(loop[v].todo)
    BY <2>2 DEF EventTypes
  <2>4. Logged(t, head)'
    BY <2>1, <2>3, EmitLogs
  <2>5. \A type \in TerminalEvents(status[t]) :
           Logged(t, type)' \/ \E k \in DOMAIN Tail(loop[v].todo) : Tail(loop[v].todo)[k] = type
    <3>1. \A type \in TerminalEvents(status[t]) :
             Logged(t, type) \/ \E k \in DOMAIN loop[v].todo : loop[v].todo[k] = type
      BY <2>1 DEF Repairing
    <3>2. \A k \in DOMAIN loop[v].todo :
             loop[v].todo[k] = head \/ \E j \in DOMAIN Tail(loop[v].todo) : Tail(loop[v].todo)[j] = loop[v].todo[k]
      BY <1>0, <2>1, <2>3, TailKeeps
    <3> QED
      BY <1>1, <2>4, <3>1, <3>2
  <2> QED
    BY <1>0, <1>4, <2>5 DEF Repairing
<1>5. CASE Moves(v)
  <2>0. log' = log /\ Goes(v)
    BY <1>0, <1>5 DEF Moves
  <2>1. CASE loop[v].pc = "key" /\ loop'[v].pc = "term"
    BY <2>1 DEF Repairing
  <2>2. CASE /\ loop[v].pc = "term" /\ loop'[v].todo = Repairs(status[t])
             /\ loop'[v].pc = IF Repairs(status[t]) = <<>> THEN "key2" ELSE "ensure"
    BY <1>0, <2>2, RepairsCover DEF Repairing
  <2>3. CASE loop[v].pc = "wait" /\ task[t][loop[v].gen] = "ok"
    BY <1>0, <2>3 DEF Tended, Reported
  <2>4. CASE loop'[v].pc = "kill"
    BY <2>4 DEF Repairing
  <2>5. CASE loop[v].pc = "ensure" /\ loop[v].todo = <<>>
    BY <2>5 DEF Repairing, AllLogged
  <2>6. CASE /\ loop[v].pc = "ensure" /\ loop[v].todo # <<>> /\ Logged(t, Head(loop[v].todo))
             /\ loop'[v].pc = "ensure" /\ loop'[v].todo = Tail(loop[v].todo)
    BY <1>0, <1>1, <2>6, TailKeeps DEF Repairing
  <2>7. CASE loop[v].pc = "ensure" /\ loop'[v].pc = "append" /\ loop'[v].todo = loop[v].todo
    BY <1>0, <1>1, <2>7 DEF Repairing
  <2>8. loop[v].pc \notin {"key2", "claim"}
    BY DEF Repairing
  <2> QED
    BY <2>0, <2>1, <2>2, <2>3, <2>4, <2>5, <2>6, <2>7, <2>8 DEF Goes
<1>6. ~ClaimTurn(v)
  BY <1>0 DEF ClaimTurn, Claimable
<1> QED
  BY <1>0, <1>2, <1>3, <1>4, <1>5, <1>6, LoopFrame

\* An entry goes on guarding an ended turn until the log is complete.
LEMMA GuardStays ==
    ASSUME Tended, [Next]_vars, StepKind, NEW t \in Turns, status[t] \in Final, ~AllLogged(t),
           NEW i \in DOMAIN stream[t], Guards(t, i)
    PROVE  i \in DOMAIN stream'[t] /\ Guards(t, i)'
<1>1. /\ stream[t][i] # "acked"
      /\ \A w \in Workers : loop[w].turn = t /\ loop[w].msg = i => Repairing(t, w)
  BY DEF Guards, Repairing
<1>2. ~\E w \in Workers : loop[w].pc = "ack" /\ loop[w].turn = t /\ loop[w].msg = i
  BY <1>1 DEF Repairing
<1>3. i \in DOMAIN stream'[t] /\ stream'[t][i] # "acked"
  BY <1>1, <1>2, EntryStays
<1>4. ASSUME NEW v \in Workers, loop'[v].turn = t, loop'[v].msg = i PROVE Repairing(t, v)'
  <2>1. CASE loop[v].turn = t /\ loop[v].msg = i
    BY <1>1, <1>4, <2>1, RepairGoesOn
  <2>2. CASE ~(loop[v].turn = t /\ loop[v].msg = i)
    <3>1. t # NoTurn
      BY DeliveryAssumption
    <3>2. ~Moves(v)
      BY <1>4, <2>2, <3>1 DEF Moves
    <3>3. ~ClaimTurn(v) \/ (loop'[v].turn = loop[v].turn /\ loop'[v].msg = loop[v].msg)
      <4>1. ClaimTurn(v) => loop[v].turn \in Turns
        BY DEF ClaimTurn, Tended, StartOK, TypeInv, LoopOK
      <4> QED
        BY <4>1, ClaimMakes
    <3>4. loop'[v].pc = "key"
      BY <1>4, <2>2, <3>1, <3>2, <3>3, LoopFrame
    <3> QED
      BY <3>4 DEF Repairing
  <2> QED
    BY <2>1, <2>2
<1> QED
  BY <1>3, <1>4 DEF Guards, Repairing

\* Recovery finds no turn that it has retried often enough.
KeepsTrying == \A w \in Workers : RelayPass(w) => \A t \in Turns : Stuck(t) => Retried(t)

\* Unless recovery gives the turn up, a call of its current claim ends it.
LEMMA EndedByItsClaim ==
    ASSUME Tended, [Next]_vars, StepKind, NEW t \in Turns, status[t] \notin Final, status'[t] \in Final,
           owner'[t] # NoWorker \/ KeepsTrying
    PROVE  /\ UNCHANGED <<loop, stream, owner>>
           /\ status[t] = "running" /\ task[t][gen[t]] \in Writes
<1>0. /\ status \in [Turns -> Statuses] /\ late \in [Turns -> [Gens -> SUBSET Writes]]
      /\ \A w \in Workers : loop[w].pc # "idle" => loop[w].turn \in Turns
      /\ status[t] # status'[t]
  BY DEF Tended, StartOK, TypeInv, TypeOK, LoopOK
<1>1. ASSUME NEW w \in Workers, RelayPass(w) PROVE FALSE
  BY <1>0, <1>1 DEF KeepsTrying, RelayPass, Retried, Final
<1>2. ASSUME NEW w \in Workers, ClaimTurn(w) PROVE FALSE
  BY <1>0, <1>2 DEF ClaimTurn, ClaimRow, Final
<1>3. ASSUME NEW w \in Workers, Moves(w) \/ EnsureAppends(w) \/ Ack(w) \/ CancelExecution(w)
                                \/ WorkerCrash(w)
                                \/ \E u \in Turns : \E i \in DOMAIN stream[u] : Takes(w, u, i)
      PROVE  FALSE
  BY <1>0, <1>3 DEF Takes, Moves, EnsureAppends, Ack, CancelExecution, WorkerCrash, rowVars
<1>4. ASSUME NEW u \in Turns, Opens(u) PROVE FALSE
  BY <1>0, <1>4 DEF Opens, Final
<1>5. ASSUME Rests \/ \E u \in Turns, g \in Gens, p \in TaskPcs : Stirs(u, g, p) PROVE FALSE
  BY <1>0, <1>5 DEF Rests, Stirs
<1>6. PICK u \in Turns, g \in Gens : ExecWrite(u, g) \/ LateWrite(u, g)
  BY <1>1, <1>2, <1>3, <1>4, <1>5 DEF StepKind
<1>7. UNCHANGED <<loop, stream, owner>>
  BY <1>6, CallGoesOn, LateGoesOn
<1>8. PICK write \in Writes : FencedWrite(u, g, write) /\ (write \in late[u][g] \/ task[u][g] = write)
  <2>1. CASE ExecWrite(u, g)
    BY <2>1, CallGoesOn
  <2>2. CASE LateWrite(u, g)
    BY <2>2, LateGoesOn
  <2> QED
    BY <1>6, <2>1, <2>2
<1>9. u = t /\ gen[t] = g /\ status[t] = "running"
  BY <1>0, <1>8, WritesKeep
<1>10. task[t][gen[t]] \in Writes
  <2>1. CASE write \in late[u][g]
    BY <1>9, <2>1 DEF Tended, LateEnds, Writes
  <2>2. CASE task[u][g] = write
    BY <1>9, <2>2
  <2> QED
    BY <1>8, <2>1, <2>2
<1> QED
  BY <1>7, <1>9, <1>10

\* An ended turn is logged or guarded, whatever step comes next.
LEMMA GuardedStep ==
    ASSUME Tended, [Next]_vars, StepKind
    PROVE  Guarded'
<1> SUFFICES ASSUME NEW t \in Turns, status'[t] \in Final, owner'[t] # NoWorker, ~AllLogged(t)'
             PROVE  \E i \in DOMAIN stream'[t] : Guards(t, i)'
  BY DEF Guarded
<1>1. CASE status[t] \in Final
  <2>1. owner[t] # NoWorker /\ ~AllLogged(t)
    BY <1>1, EndedRowStays, AllLoggedStays
  <2>2. PICK i \in DOMAIN stream[t] : Guards(t, i)
    BY <1>1, <2>1 DEF Tended, Guarded
  <2> QED
    BY <1>1, <2>1, <2>2, GuardStays
<1>2. CASE status[t] \notin Final
  <2>1. /\ UNCHANGED <<loop, stream>> /\ status[t] = "running" /\ task[t][gen[t]] \in Writes
    BY <1>2, EndedByItsClaim
  <2>2. owner[t] # NoWorker /\ owner[t] \in Workers
    BY <2>1 DEF Tended, Owned, StartOK, TypeInv, TypeOK
  <2>3. loop[owner[t]].pc = "wait" /\ loop[owner[t]].turn = t
    BY <2>1, <2>2 DEF Tended, Awaited
  <2>4. PICK i \in DOMAIN stream[t] : i = loop[owner[t]].msg
    BY <2>2, <2>3 DEF Tended, StartOK, TypeInv, LoopOK
  <2>5. stream[t][i] = "pending" /\ \A v \in Workers : loop[v].turn = t /\ loop[v].msg = i => v = owner[t]
    BY <2>2, <2>3, <2>4 DEF Tended, Handled
  <2>6. i \in DOMAIN stream'[t] /\ stream'[t][i] # "acked"
    BY <2>1, <2>5
  <2>7. \A v \in Workers : loop'[v].turn = t /\ loop'[v].msg = i => loop'[v].pc = "wait"
    BY <2>1, <2>3, <2>5
  <2>8. Guards(t, i)'
    BY <2>6, <2>7 DEF Guards
  <2> QED
    BY <2>6, <2>8
<1> QED
  BY <1>1, <1>2

\* The first state satisfies the invariant.
LEMMA TendedInit == Init /\ StartOK /\ Sound => Tended
<1> SUFFICES ASSUME Init, StartOK, Sound PROVE Tended
  OBVIOUS
<1>1. TellsTheTruth
  BY NothingTold
<1>2. 0 \in Gens
  BY DeliveryAssumption DEF Gens
<1>3. Unrequested /\ Handled /\ Owned /\ Waits /\ Uncancelled
  BY DEF Init, Unrequested, Handled, Owned, Waits, Uncancelled, Idle
<1>4. Leftovers /\ Awaited /\ LateEnds /\ Reported
  BY <1>2 DEF Init, Leftovers, CancelCalls, Awaited, LateEnds, Reported, Writes
<1>5. Guarded
  BY DEF Init, Guarded, Final
<1> QED
  BY <1>1, <1>3, <1>4, <1>5 DEF Tended

\* Each step of an undisturbed system keeps the invariant.
LEMMA TendedStep ==
    ASSUME Cancellable = {}, Tended, [Next]_vars, [Undisturbed]_vars, (StartOK /\ Sound)'
    PROVE  Tended'
<1>1. StepKind
  BY StepKinds
<1>3. TellsTheTruth'
  BY TruthStep DEF Tended
<1>4. Unrequested' /\ Handled' /\ Owned' /\ Waits'
  BY <1>1, UnrequestedStep, HandledStep, OwnedStep, WaitsStep
<1>5. Leftovers' /\ Uncancelled' /\ Awaited' /\ LateEnds'
  BY <1>1, LeftoversStep, UncancelledStep, AwaitedStep, LateEndsStep
<1>6. Reported' /\ Guarded'
  BY <1>1, ReportedStep, GuardedStep
<1> QED
  BY <1>3, <1>4, <1>5, <1>6 DEF Tended

\* A turn that an execution ended, not recovery.
EndedInItsClaim == \A t \in Turns : status[t] \in Final /\ AtRest(t) /\ owner[t] # NoWorker => AllLogged(t)

\* The last ACK comes after the log is complete (run_once, is_terminal and
\* InProcessTurnExecutor.run together), for any number of turns, workers, claims,
\* crashes, stalls and failed calls: when nobody cancels and none of the three
\* faults of Undisturbed happens, a turn at rest that still names the worker of
\* its last claim has the terminal events of its status in its log.
THEOREM OwnedEndsAreLogged ==
    ASSUME Cancellable = {}
    PROVE  Spec /\ [][Undisturbed]_vars => []EndedInItsClaim
<1>1. Tended /\ [Next]_vars /\ [Undisturbed]_vars /\ (StartOK /\ Sound)' => Tended'
  BY TendedStep
<1>2. Tended => EndedInItsClaim
  <2> SUFFICES ASSUME Tended, NEW t \in Turns, status[t] \in Final, AtRest(t), owner[t] # NoWorker
               PROVE  AllLogged(t)
    BY DEF EndedInItsClaim
  <2> QED
    BY DEF Tended, Guarded, Guards, AtRest
<1> QED
  BY <1>1, <1>2, TendedInit, SoundInvariant, PTL DEF Spec

\* A turn that has ended names its owner.
NeverGivenUp == \A t \in Turns : status[t] \in Final => owner[t] # NoWorker

\* A recovery that goes on trying leaves every ended turn its owner.
LEMMA NeverGivenUpStep ==
    ASSUME Tended, [Next]_vars, StepKind, NeverGivenUp, KeepsTrying
    PROVE  NeverGivenUp'
<1> SUFFICES ASSUME NEW t \in Turns, status'[t] \in Final
             PROVE  owner'[t] # NoWorker
  BY DEF NeverGivenUp
<1>1. CASE status[t] \in Final
  BY <1>1, EndedRowStays DEF NeverGivenUp
<1>2. CASE status[t] \notin Final
  BY <1>2, EndedByItsClaim DEF Tended, Owned
<1> QED
  BY <1>1, <1>2

\* Together with a recovery that never runs out of retries, every turn at rest
\* has the terminal events of its status in its log.
THEOREM SettledTurnsAreLogged ==
    ASSUME Cancellable = {}
    PROVE  Spec /\ [][Undisturbed /\ KeepsTrying]_vars => []SettledTurnIsLogged
<1> DEFINE IInv == Tended /\ NeverGivenUp
<1>1. Init /\ StartOK /\ Sound => IInv
  BY TendedInit DEF Init, NeverGivenUp, Final
<1>2. IInv /\ [Next]_vars /\ [Undisturbed /\ KeepsTrying]_vars /\ (StartOK /\ Sound)' => IInv'
  <2> SUFFICES ASSUME Tended, NeverGivenUp, [Next]_vars, [Undisturbed /\ KeepsTrying]_vars,
                      (StartOK /\ Sound)'
               PROVE  Tended' /\ NeverGivenUp'
    OBVIOUS
  <2>1. [Undisturbed]_vars
    OBVIOUS
  <2>2. Tended'
    BY <2>1, TendedStep
  <2>3. CASE KeepsTrying
    BY <2>1, <2>2, <2>3, StepKinds, NeverGivenUpStep
  <2>4. CASE UNCHANGED vars
    BY <2>2, <2>4 DEF NeverGivenUp, vars, rowVars
  <2> QED
    BY <2>2, <2>3, <2>4
<1>3. IInv => SettledTurnIsLogged
  <2> SUFFICES ASSUME Tended, NeverGivenUp, NEW t \in Turns, status[t] \in Final, AtRest(t)
               PROVE  AllLogged(t)
    BY DEF SettledTurnIsLogged, AllLogged
  <2> QED
    BY DEF NeverGivenUp, Tended, Guarded, Guards, AtRest
<1> QED
  BY <1>1, <1>2, <1>3, SoundInvariant, PTL DEF Spec

-----------------------------------------------------------------------------
(* Few faults leave recovery its retries *)

\* Nobody is about to renew the lease of turn t, or it has run out already.
Unattended(t) == lease[t] = "expired" \/ ~Attended(t) \/ task[t][gen[t]] = "error"

\* Every claim but the first is paid for by a fault.
Patience ==
    \A t \in Turns :
        /\ status[t] \in {"absent", "accepted"} => gen[t] <= 2 * faults
        /\ status[t] = "running" => gen[t] <= 2 * faults + 1
        /\ status[t] = "running" /\ Unattended(t) => gen[t] + 1 <= 2 * faults

\* Leases run out by LeaseExpires alone, and faults are only added.
LEMMA LeaseRunsOut ==
    ASSUME TypeInv, [Next]_vars, NEW t \in Turns
    PROVE  /\ faults' = faults \/ faults' = faults + 1
           /\ lease'[t] = "expired" => lease[t] = "expired" \/ LeaseExpires(t)
<1>0. /\ lease \in [Turns -> {"none", "live", "expired"}]
      /\ \A w \in Workers : loop[w].pc # "idle" => loop[w].turn \in Turns
  BY DEF TypeInv, TypeOK, LoopOK
<1> DEFINE Goal == /\ faults' = faults \/ faults' = faults + 1
                   /\ lease'[t] = "expired" => lease[t] = "expired" \/ LeaseExpires(t)
<1> USE DEF rowVars
<1>1. ASSUME UNCHANGED lease, faults' = faults \/ faults' = faults + 1 PROVE Goal
  BY <1>1
<1>2. ASSUME NEW w \in Workers, RelayPass(w) PROVE Goal
  BY <1>2 DEF RelayPass
<1>3. ASSUME NEW w \in Workers, LoopStep(w) PROVE Goal
  <2>1. CASE ClaimTurn(w)
    BY <1>0, <2>1 DEF ClaimTurn, ClaimRow
  <2>2. CASE ClaimCancelled(w)
    BY <1>0, <2>2 DEF ClaimCancelled
  <2>3. CASE ~ClaimTurn(w) /\ ~ClaimCancelled(w)
    BY <1>1, <1>3, <2>3 DEF LoopStep, CheckCancelKey, CheckTerminal, CheckCancelKeyAgain, ClaimNone,
       ClaimForbidden, ExecutionEnds, CancelExecution, Drain, CancelPending, EnsureReads, EnsureAppends, Ack
  <2> QED
    BY <2>1, <2>2, <2>3
<1>4. ASSUME NEW w \in Workers, LeaseHeartbeat(w) PROVE Goal
  BY <1>0, <1>4 DEF LeaseHeartbeat
<1>5. ASSUME NEW u \in Turns, LeaseExpires(u) PROVE Goal
  <2>1. (faults' = faults \/ faults' = faults + 1) /\ lease' = [lease EXCEPT ![u] = "expired"]
    BY <1>5 DEF LeaseExpires, Fault
  <2> QED
    BY <1>0, <1>5, <2>1
<1>6. ASSUME NEW w \in Workers,
             \/ Receive(w) \/ Reclaim(w) \/ CancelActive(w) \/ RelayFails(w) \/ ReclaimBusy(w)
             \/ HeartbeatFails(w) \/ IterationFails(w) \/ WorkerCrash(w)
      PROVE  Goal
  BY <1>1, <1>6 DEF Receive, Reclaim, CancelActive, RelayFails, ReclaimBusy, HeartbeatFails,
     IterationFails, WorkerCrash, Fault
<1>7. ASSUME NEW u \in Turns, GatewayStep(u) \/ RevokeAuthorization(u) PROVE Goal
  BY <1>1, <1>7 DEF GatewayStep, SubmitTurn, EmitAccepted, CancelTurn, RequestCancellation,
     CancelEnsures, CancelAppends, CancelSignals, RevokeAuthorization, Fault
<1>8. ASSUME NEW u \in Turns, NEW g \in Gens,
             ExecStep(u, g) \/ DeadlineInWrite(u, g) \/ ExecWriteFails(u, g)
      PROVE  Goal
  BY <1>1, <1>8 DEF ExecStep, ExecWrite, EngineReturns, LateWrite, DeadlineInWrite, ExecWriteFails, Fault
<1>9. GatewayCrash \/ Finished \/ UNCHANGED vars => Goal
  BY <1>1 DEF GatewayCrash, Finished, vars, Fault
<1> HIDE DEF Goal
<1>10. Goal
  BY <1>2, <1>3, <1>4, <1>5, <1>6, <1>7, <1>8, <1>9 DEF Next, FaultStep
<1> QED
  BY <1>10 DEF Goal

\* The ways of a row.
LEMMA RowKinds ==
    ASSUME Tended, [Next]_vars, StepKind, NEW t \in Turns
    PROVE  \/ status'[t] = status[t] /\ gen'[t] = gen[t]
           \/ status'[t] \in Final
           \/ status[t] = "absent" /\ status'[t] = "accepted" /\ gen'[t] = gen[t]
           \/ Stuck(t) /\ status'[t] = "accepted" /\ gen'[t] = gen[t] + 1
           \/ \E w \in Workers : ClaimTurn(w) /\ loop[w].turn = t
<1>0. /\ status \in [Turns -> Statuses] /\ late \in [Turns -> [Gens -> SUBSET Writes]]
      /\ gen \in [Turns -> Gens]
      /\ \A w \in Workers : loop[w].pc # "idle" => loop[w].turn \in Turns
  BY DEF Tended, StartOK, TypeInv, TypeOK, LoopOK
<1> DEFINE Goal == \/ status'[t] = status[t] /\ gen'[t] = gen[t]
                   \/ status'[t] \in Final
                   \/ status[t] = "absent" /\ status'[t] = "accepted" /\ gen'[t] = gen[t]
                   \/ Stuck(t) /\ status'[t] = "accepted" /\ gen'[t] = gen[t] + 1
                   \/ \E w \in Workers : ClaimTurn(w) /\ loop[w].turn = t
<1>1. ASSUME NEW w \in Workers, RelayPass(w) PROVE Goal
  BY <1>1 DEF RelayPass, Retried, Final
<1>2. ASSUME NEW w \in Workers, ClaimTurn(w) PROVE Goal
  BY <1>0, <1>2 DEF ClaimTurn, ClaimRow
<1>3. ASSUME NEW w \in Workers, Moves(w) \/ EnsureAppends(w) \/ Ack(w) \/ CancelExecution(w)
                                \/ WorkerCrash(w)
                                \/ \E u \in Turns : \E i \in DOMAIN stream[u] : Takes(w, u, i)
      PROVE  Goal
  BY <1>3 DEF Takes, Moves, EnsureAppends, Ack, CancelExecution, WorkerCrash, rowVars
<1>4. ASSUME NEW u \in Turns, Opens(u) PROVE Goal
  BY <1>0, <1>4 DEF Opens
<1>5. ASSUME Rests \/ \E u \in Turns, g \in Gens, p \in TaskPcs : Stirs(u, g, p) PROVE Goal
  BY <1>5 DEF Rests, Stirs
<1>6. ASSUME NEW u \in Turns, NEW g \in Gens, ExecWrite(u, g) \/ LateWrite(u, g) PROVE Goal
  <2>1. PICK write \in Writes : FencedWrite(u, g, write) /\ (write \in late[u][g] \/ task[u][g] = write)
    BY <1>6, CallGoesOn, LateGoesOn
  <2>2. gen' = gen
    BY <1>6, CallGoesOn, LateGoesOn
  <2>3. /\ \A x \in Turns \ {u} : status'[x] = status[x]
        /\ write \in {"complete", "fail"} /\ gen[u] = g => status'[u] \in {"completed", "failed"}
        /\ status' = status \/ (gen[u] = g /\ write \in {"complete", "fail"} /\ status[u] = "running")
    BY <2>1, WritesKeep
  <2> QED
    BY <2>2, <2>3 DEF Final
<1> HIDE DEF Goal
<1>7. Goal
  BY <1>1, <1>2, <1>3, <1>4, <1>5, <1>6 DEF StepKind
<1> QED
  BY <1>7 DEF Goal

\* The owner of a running turn turns away from it only after an error or a crash.
LEMMA AttendedStays ==
    ASSUME Tended, [Next]_vars, StepKind, NEW t \in Turns, status[t] = "running", status'[t] = "running",
           gen'[t] = gen[t], Attended(t), task[t][gen[t]] # "error", faults' # faults + 1
    PROVE  Attended(t)'
<1>a. gen[t] \in Gens /\ \A n \in Gens : ~(n < n)
  BY DeliveryAssumption DEF Tended, StartOK, TypeInv, TypeOK, Gens
<1>b. task[t][gen[t]] # "ok"
  BY <1>a DEF Tended, Reported, Final
<1>0. gen[t] \in Gens /\ (\A n \in Gens : ~(n < n)) /\ task[t][gen[t]] # "ok"
  BY <1>a, <1>b
<1>1. PICK o \in Workers : owner[t] = o /\ loop[o].pc = "wait" /\ loop[o].turn = t /\ loop[o].gen = gen[t]
  BY DEF Attended
<1>2. owner'[t] = owner[t]
  <2>1. owner'[t] # NoWorker
    BY OwnedStep DEF Owned
  <2> QED
    BY <1>0, <2>1, ClaimStays DEF Lost
<1>3. ~Moves(o) \/ loop'[o] = loop[o]
  BY <1>0, <1>1 DEF Moves, Goes
<1>4. ~WorkerCrash(o)
  BY DEF WorkerCrash, Fault
<1>5. loop'[o] = loop[o]
  BY <1>1, <1>3, <1>4, LoopFrame DEF Takes, EnsureAppends, ClaimTurn, Ack
<1> QED
  BY <1>1, <1>2, <1>5 DEF Attended

\* A current execution fails only by a fault.
LEMMA ErrorsAreFaults ==
    ASSUME Tended, StepKind, NEW t \in Turns, NEW g \in Gens, g = gen[t], task'[t][g] = "error"
    PROVE  task[t][g] = "error" \/ faults' = faults + 1
<1>0. /\ task \in [Turns -> [Gens -> TaskPcs]] /\ loop \in [Workers -> Loop]
  BY DEF Tended, StartOK, TypeInv, TypeOK
<1>1. ~ExecWrite(t, g)
  <2> SUFFICES ASSUME ExecWrite(t, g) PROVE FALSE
    OBVIOUS
  <2>1. PICK p \in TaskPcs : task' = [task EXCEPT ![t][g] = p] /\ (p = "error" => gen[t] # g)
    BY CallGoesOn
  <2> QED
    BY <1>0, <2>1
<1>2. LateWrite(t, g) => task' = task
  BY DEF LateWrite
<1>3. ASSUME NEW p \in TaskPcs, Stirs(t, g, p) PROVE faults' = faults + 1
  <2>1. p = "error"
    BY <1>0, <1>3 DEF Stirs
  <2> QED
    BY <1>3, <2>1 DEF Stirs
<1>4. ASSUME NEW w \in Workers, ClaimTurn(w), loop[w].turn = t, g = gen[t] + 1 PROVE FALSE
  BY <1>0, <1>4, ClaimMakes
<1>5. ASSUME NEW w \in Workers, CancelExecution(w), loop[w].pc = "kill", loop[w].turn = t, loop[w].gen = g
      PROVE  task[t][g] = "error"
  <2>1. task' = [task EXCEPT ![t][g] = Cancelled(task[t][g])]
    BY <1>5, KilledIsLost
  <2> QED
    BY <1>0, <2>1, CancelledGoesOn
<1>6. ASSUME NEW w \in Workers, WorkerCrash(w), runner[t][g] = w PROVE FALSE
  BY <1>0, <1>6 DEF WorkerCrash
<1> QED
  BY <1>1, <1>2, <1>3, <1>4, <1>5, <1>6, TaskFrame

\* A recovery or a claim after the first comes after a fault.
LEMMA PatienceStep ==
    ASSUME Tended, [Next]_vars, StepKind, Patience
    PROVE  Patience'
<1> SUFFICES ASSUME NEW t \in Turns
             PROVE  /\ status'[t] \in {"absent", "accepted"} => gen'[t] <= 2 * faults'
                    /\ status'[t] = "running" => gen'[t] <= 2 * faults' + 1
                    /\ status'[t] = "running" /\ Unattended(t)' => gen'[t] + 1 <= 2 * faults'
  BY DEF Patience
<1>0. /\ faults \in Nat /\ faults' \in Nat /\ gen[t] \in Nat /\ gen'[t] \in Nat /\ gen[t] \in Gens
      /\ TypeInv
  <2>1. TypeOK /\ TypeOK' /\ TypeInv
    BY NextTypes DEF Tended, StartOK, TypeInv
  <2>2. faults \in 0..MaxFaults /\ faults' \in 0..MaxFaults /\ gen[t] \in Gens /\ gen'[t] \in Gens
    BY <2>1 DEF TypeOK
  <2> QED
    BY <2>1, <2>2, DeliveryAssumption DEF Gens
<1>1. faults' = faults \/ faults' = faults + 1
  BY <1>0, LeaseRunsOut
<1>2. /\ status[t] \in {"absent", "accepted"} => gen[t] <= 2 * faults
      /\ status[t] = "running" => gen[t] <= 2 * faults + 1
      /\ status[t] = "running" /\ Unattended(t) => gen[t] + 1 <= 2 * faults
  BY DEF Patience
<1>3. CASE status'[t] = status[t] /\ gen'[t] = gen[t]
  <2>1. CASE status[t] # "running"
    BY <1>0, <1>1, <1>2, <1>3, <2>1
  <2>2. CASE faults' = faults + 1
    BY <1>0, <1>2, <1>3, <2>2
  <2>3. CASE status[t] = "running" /\ faults' # faults + 1
    <3>1. ASSUME Unattended(t)' PROVE Unattended(t)
      <4>1. CASE lease'[t] = "expired"
        BY <1>0, <2>3, <4>1, LeaseRunsOut DEF Unattended, LeaseExpires, Fault
      <4>2. CASE ~Attended(t)'
        BY <1>3, <2>3, <4>2, AttendedStays DEF Unattended
      <4>3. CASE task'[t][gen'[t]] = "error"
        BY <1>0, <1>3, <2>3, <4>3, ErrorsAreFaults DEF Unattended
      <4> QED
        BY <3>1, <4>1, <4>2, <4>3 DEF Unattended
    <3> QED
      BY <1>0, <1>1, <1>2, <1>3, <2>3, <3>1
  <2> QED
    BY <2>1, <2>2, <2>3
<1>4. CASE status'[t] \in Final
  BY <1>4 DEF Final
<1>5. CASE status[t] = "absent" /\ status'[t] = "accepted" /\ gen'[t] = gen[t]
  BY <1>0, <1>1, <1>2, <1>5
<1>6. CASE Stuck(t) /\ status'[t] = "accepted" /\ gen'[t] = gen[t] + 1
  <2>1. status[t] = "running" /\ Unattended(t)
    BY <1>6 DEF Stuck, Unattended, Tended, Owned
  <2> QED
    BY <1>0, <1>1, <1>2, <1>6, <2>1
<1>7. ASSUME NEW w \in Workers, ClaimTurn(w), loop[w].turn = t
      PROVE  /\ status'[t] = "running" /\ gen'[t] <= 2 * faults' + 1 /\ ~Unattended(t)'
  <2>1. /\ gen[t] + 1 \in Gens /\ gen' = [gen EXCEPT ![t] = gen[t] + 1]
        /\ owner' = [owner EXCEPT ![t] = w] /\ status' = [status EXCEPT ![t] = "running"]
        /\ loop'[w].pc = "wait" /\ loop'[w].turn = t /\ loop'[w].gen = gen[t] + 1
        /\ task' = [task EXCEPT ![t][gen[t] + 1] = "run"]
    BY <1>7, ClaimMakes
  <2>2. lease' = [lease EXCEPT ![t] = "live"]
    BY <1>7 DEF ClaimTurn, ClaimRow
  <2>3. /\ gen'[t] = gen[t] + 1 /\ owner'[t] = w /\ status'[t] = "running" /\ lease'[t] = "live"
        /\ task'[t][gen[t] + 1] = "run"
    BY <2>1, <2>2 DEF Tended, StartOK, TypeInv, TypeOK
  <2>4. Attended(t)'
    BY <2>1, <2>3 DEF Attended
  <2>5. ~Unattended(t)'
    BY <2>3, <2>4 DEF Unattended
  <2>6. gen[t] <= 2 * faults
    <3>1. status[t] = "accepted" \/ (status[t] = "running" /\ lease[t] = "expired")
      BY <1>7 DEF ClaimTurn, Claimable
    <3> QED
      BY <1>0, <1>2, <3>1 DEF Unattended
  <2> QED
    BY <1>0, <1>1, <2>3, <2>5, <2>6
<1> QED
  BY <1>3, <1>4, <1>5, <1>6, <1>7, RowKinds

\* A patient recovery retries whatever it finds.
LEMMA FewFaults ==
    ASSUME Tended, Patience, MaxFaults <= MaxRetries
    PROVE  KeepsTrying
<1> SUFFICES ASSUME NEW t \in Turns, Stuck(t) PROVE gen[t] < 2 * MaxRetries
  BY DEF KeepsTrying, Retried
<1>1. status[t] = "running" /\ Unattended(t)
  BY DEF Stuck, Unattended, Tended, Owned
<1>2. gen[t] + 1 <= 2 * faults
  BY <1>1 DEF Patience
<1>3. faults \in 0..MaxFaults /\ gen[t] \in 0..MaxGen
  BY DEF Tended, StartOK, TypeInv, TypeOK, Gens
<1> QED
  BY <1>2, <1>3, DeliveryAssumption

\* The last ACK comes after the log is complete, in every run of the system: if
\* nobody cancels, no database call and no Redis heartbeat fails, and there are
\* not more faults than retries, then every turn at rest has the terminal events
\* of its status in its log, whatever workers crash or stall, relays die,
\* deliveries are duplicated and permissions are taken away (run_once,
\* is_terminal, recover_stuck_turns and InProcessTurnExecutor.run together).
THEOREM LogsAreComplete ==
    ASSUME Cancellable = {}, FaultKinds \intersect {"redis", "database"} = {}, MaxFaults <= MaxRetries
    PROVE  Spec => []SettledTurnIsLogged
<1> DEFINE IInv == Tended /\ Patience
<1>1. Init /\ StartOK /\ Sound => IInv
  BY TendedInit, DeliveryAssumption DEF Init, Patience
<1>2. Undisturbed
  BY DEF Undisturbed, ReclaimBusy, HeartbeatFails, ExecWriteFails, Fault
<1>3. IInv /\ [Next]_vars /\ (StartOK /\ Sound)' => IInv'
  BY <1>2, TendedStep, StepKinds, PatienceStep
<1>4. Spec => []IInv
  BY <1>1, <1>3, SoundInvariant, PTL DEF Spec
<1>5. IInv /\ [Next]_vars => [Undisturbed /\ KeepsTrying]_vars
  BY <1>2, FewFaults
<1>6. Spec => [][Undisturbed /\ KeepsTrying]_vars
  BY <1>4, <1>5, PTL DEF Spec
<1> QED
  BY <1>6, SettledTurnsAreLogged, PTL

=============================================================================

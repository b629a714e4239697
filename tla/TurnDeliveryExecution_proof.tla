--------------------- MODULE TurnDeliveryExecution_proof ---------------------
(* What the executions of a turn may do, for any sets of turns and workers: no  *)
(* claim starts a turn twice and only the current one completes it.             *)
EXTENDS TurnDeliverySafety_proof

\* The events of a turn, without their order.
LoggedAt(t, type, g) == \E i \in DOMAIN log[t] : log[t][i].type = type /\ log[t][i].gen = g

\* What makes OneStartPerGeneration inductive.  The turn.started event of claim
\* g is still to come, in its task or in a thread the task left behind, only
\* while the log has none; a generation beyond the row's, and one that recovery
\* took, belong to nobody.
StartInvAt(t, g) ==
    /\ task[t][g] \in {"none", "run", "start"} \/ "start" \in late[t][g]
          => ~LoggedAt(t, "started", g)
    /\ task[t][g] \in {"none", "run", "start"} => "start" \notin late[t][g]
    /\ "run" \notin late[t][g]
    /\ g > gen[t] => task[t][g] = "none"
    /\ LoggedAt(t, "handover", g) => task[t][g] = "none"
    /\ task[t][g] = "none" => runner[t][g] = NoWorker /\ late[t][g] = {}

StartInv == \A t \in Turns, g \in Gens : StartInvAt(t, g)

\* OneStartPerGeneration for one turn.
OneStartAt(t) ==
    \A i, j \in DOMAIN log[t] :
        /\ log[t][i].type = "started" /\ log[t][j].type = "started" /\ i # j
              => log[t][i].gen # log[t][j].gen
        /\ log[t][i].type = "handover" /\ log[t][j].type = "started" /\ i < j
              => log[t][i].gen < log[t][j].gen

Starts == \A t \in Turns : OneStartAt(t)

StartOK == TypeInv /\ LogFollowsGenerations /\ StartInv /\ Starts

\* One event more in a log: LoggedAt gains that event and nothing else, and
\* OneStartPerGeneration survives unless a generation starts again or after
\* its handover.
LEMMA OneMoreEvent ==
    ASSUME TypeOK, LogFollowsGenerations, Starts, NEW t \in Turns,
           NEW type \in EventTypes, NEW g \in Gens, gen[t] <= g,
           log'[t] = Append(log[t], [type |-> type, gen |-> g]),
           type = "started" => ~LoggedAt(t, "started", g) /\ ~LoggedAt(t, "handover", g)
    PROVE  /\ \A y \in EventTypes, h \in Gens :
                 LoggedAt(t, y, h)' <=> LoggedAt(t, y, h) \/ (y = type /\ h = g)
           /\ OneStartAt(t)'
<1> DEFINE n == Len(log[t])
<1>1. log[t] \in Seq(Event) /\ gen[t] \in Nat /\ g \in Nat
  BY DeliveryAssumption DEF TypeOK, Gens
<1>2. n \in Nat /\ DOMAIN log[t] = 1..n /\ DOMAIN log'[t] = 1..(n + 1)
  BY <1>1
<1>3. \A i \in 1..n : log'[t][i] = log[t][i]
  BY <1>1
<1>4. log'[t][n + 1].type = type /\ log'[t][n + 1].gen = g
  BY <1>1
<1>5. \A i \in 1..n : log[t][i].gen \in Nat /\ log[t][i].gen <= gen[t]
  <2>1. \A i \in 1..n : log[t][i] \in Event
    BY <1>1, <1>2
  <2>2. \A i \in 1..n : log[t][i].gen \in Nat
    BY <2>1, DeliveryAssumption DEF Event, Gens
  <2> QED
    BY <1>2, <2>2 DEF LogFollowsGenerations
<1> HIDE DEF n
<1>6. \A i \in 1..(n + 1) : i \in 1..n \/ i = n + 1
  BY <1>2
<1>7. /\ \A i \in 1..n : i \in 1..(n + 1) /\ ~(n + 1 < i) /\ i # n + 1
      /\ n + 1 \in 1..(n + 1)
      /\ \A i, j \in 1..(n + 1) : i < j => i \in 1..n
  BY <1>2
<1>8. \A y \in EventTypes, h \in Gens :
         LoggedAt(t, y, h)' <=> LoggedAt(t, y, h) \/ (y = type /\ h = g)
  BY <1>2, <1>3, <1>4, <1>6, <1>7 DEF LoggedAt
<1>9. \A i, j \in 1..n :
         /\ log[t][i].type = "started" /\ log[t][j].type = "started" /\ i # j
               => log[t][i].gen # log[t][j].gen
         /\ log[t][i].type = "handover" /\ log[t][j].type = "started" /\ i < j
               => log[t][i].gen < log[t][j].gen
  BY <1>2 DEF Starts, OneStartAt
<1>10. type = "started" =>
         \A i \in 1..n : /\ log[t][i].type = "started" => log[t][i].gen # g
                         /\ log[t][i].type = "handover" => log[t][i].gen < g
  <2>1. type = "started" =>
          \A i \in 1..n : /\ log[t][i].type = "started" => log[t][i].gen # g
                          /\ log[t][i].type = "handover" => log[t][i].gen # g
    BY <1>2 DEF LoggedAt
  <2>2. \A i \in 1..n : log[t][i].gen # g => log[t][i].gen < g
    BY <1>1, <1>5
  <2> QED
    BY <2>1, <2>2
<1>11. ASSUME NEW i \in 1..(n + 1), NEW j \in 1..(n + 1)
       PROVE  /\ log'[t][i].type = "started" /\ log'[t][j].type = "started" /\ i # j
                    => log'[t][i].gen # log'[t][j].gen
              /\ log'[t][i].type = "handover" /\ log'[t][j].type = "started" /\ i < j
                    => log'[t][i].gen < log'[t][j].gen
  <2>1. CASE i \in 1..n /\ j \in 1..n
    BY <1>3, <1>9, <2>1
  <2>2. CASE i \in 1..n /\ j = n + 1
    BY <1>3, <1>4, <1>10, <2>2
  <2>3. CASE i = n + 1 /\ j \in 1..n
    BY <1>3, <1>4, <1>7, <1>10, <2>3
  <2>4. CASE i = n + 1 /\ j = n + 1
    BY <1>2, <2>4
  <2> QED
    BY <1>6, <2>1, <2>2, <2>3, <2>4
<1> QED
  BY <1>2, <1>8, <1>11 DEF OneStartAt

LEMMA SameLog ==
    ASSUME NEW t \in Turns, log'[t] = log[t]
    PROVE  /\ \A y, h : LoggedAt(t, y, h)' <=> LoggedAt(t, y, h)
           /\ OneStartAt(t)' <=> OneStartAt(t)
BY DEF LoggedAt, OneStartAt

\* A step that adds no start and no handover and leaves the executions alone.
LEMMA StartsKept ==
    ASSUME StartOK, UNCHANGED <<gen, execVars>>,
           log' = log \/ \E u \in Turns : \E type \in EventTypes \ {"started", "handover"} :
                            log' = Appended(u, type)
    PROVE  StartInv' /\ Starts'
<1> USE DEF StartOK, TypeInv, execVars
<1>1. CASE log' = log
  BY <1>1 DEF StartInv, StartInvAt, Starts, OneStartAt, LoggedAt
<1>2. ASSUME NEW u \in Turns, NEW type \in EventTypes \ {"started", "handover"}, log' = Appended(u, type)
      PROVE  StartInv' /\ Starts'
  <2>1. gen[u] \in Gens /\ gen[u] <= gen[u] /\ log \in [Turns -> Seq(Event)]
    BY DeliveryAssumption DEF TypeOK, Gens
  <2>2. /\ log'[u] = Append(log[u], [type |-> type, gen |-> gen[u]])
        /\ \A t \in Turns \ {u} : log'[t] = log[t]
    BY <1>2, <2>1 DEF Appended
  <2>3. /\ \A y \in EventTypes, h \in Gens :
              LoggedAt(u, y, h)' <=> LoggedAt(u, y, h) \/ (y = type /\ h = gen[u])
        /\ OneStartAt(u)'
    BY <1>2, <2>1, <2>2, OneMoreEvent
  <2>4. \A t \in Turns, h \in Gens : /\ LoggedAt(t, "started", h)' <=> LoggedAt(t, "started", h)
                                     /\ LoggedAt(t, "handover", h)' <=> LoggedAt(t, "handover", h)
    <3>1. "started" \in EventTypes /\ "handover" \in EventTypes
      BY DEF EventTypes
    <3> QED
      BY <1>2, <2>2, <2>3, <3>1, SameLog
  <2>5. StartInv'
    BY <2>4 DEF StartInv, StartInvAt
  <2>6. Starts'
    BY <2>2, <2>3, SameLog DEF Starts
  <2> QED
    BY <2>5, <2>6
<1> QED
  BY <1>1, <1>2

\* Loop steps other than the claim and the cancellation of an execution, and
\* all that goes on around executions without touching them.
LEMMA QuietStarts ==
    ASSUME StartOK,
           \/ \E t \in Turns : GatewayStep(t) \/ LeaseExpires(t) \/ RevokeAuthorization(t)
           \/ \E w \in Workers :
                 \/ LoopStep(w) /\ ~ClaimTurn(w) /\ ~CancelExecution(w)
                 \/ Receive(w) \/ Reclaim(w) \/ ReclaimBusy(w) \/ LeaseHeartbeat(w)
                 \/ HeartbeatFails(w) \/ CancelActive(w) \/ IterationFails(w) \/ RelayFails(w)
           \/ GatewayCrash \/ UNCHANGED vars
    PROVE  StartInv' /\ Starts'
<1> USE DEF rowVars
<1>1. ASSUME NEW t \in Turns, GatewayStep(t) \/ LeaseExpires(t) \/ RevokeAuthorization(t)
      PROVE  StartInv' /\ Starts'
  <2>1. /\ "accepted" \in EventTypes \ {"started", "handover"}
        /\ "cancelled" \in EventTypes \ {"started", "handover"}
    BY DEF EventTypes, EndTypes
  <2>2. UNCHANGED <<gen, execVars>>
    BY <1>1 DEF GatewayStep, SubmitTurn, EmitAccepted, CancelTurn, RequestCancellation, CancelEnsures,
                CancelAppends, CancelSignals, LeaseExpires, RevokeAuthorization
  <2>3. log' = log \/ log' = Appended(t, "accepted") \/ log' = Appended(t, "cancelled")
    BY <1>1 DEF GatewayStep, SubmitTurn, EmitAccepted, CancelTurn, RequestCancellation, CancelEnsures,
                CancelAppends, CancelSignals, LeaseExpires, RevokeAuthorization
  <2> QED
    BY <2>1, <2>2, <2>3, StartsKept
<1>2. ASSUME NEW w \in Workers, LoopStep(w), ~ClaimTurn(w), ~CancelExecution(w)
      PROVE  StartInv' /\ Starts'
  <2>1. UNCHANGED <<gen, execVars>>
    BY <1>2 DEF LoopStep, CheckCancelKey, CheckTerminal, CheckCancelKeyAgain, ClaimCancelled, ClaimNone,
                ClaimForbidden, ExecutionEnds, Drain, CancelPending,
                EnsureReads, EnsureAppends, Ack
  <2>2. CASE EnsureAppends(w)
    <3>1. /\ loop[w].turn \in Turns /\ loop[w].todo # <<>> /\ loop[w].todo \in Seq(EndTypes)
          /\ log' = Appended(loop[w].turn, Head(loop[w].todo))
      BY <2>2 DEF EnsureAppends, StartOK, TypeInv, TypeOK, LoopOK, Loop
    <3>2. Head(loop[w].todo) \in EndTypes
      BY <3>1
    <3>3. Head(loop[w].todo) \in EventTypes \ {"started", "handover"}
      BY <3>2 DEF EventTypes, EndTypes
    <3> QED
      BY <2>1, <3>1, <3>3, StartsKept
  <2>3. CASE ~EnsureAppends(w)
    <3>1. log' = log
      BY <1>2, <2>3
         DEF LoopStep, CheckCancelKey, CheckTerminal, CheckCancelKeyAgain, ClaimCancelled, ClaimNone,
             ClaimForbidden, ExecutionEnds, Drain, CancelPending,
             EnsureReads, Ack
    <3> QED
      BY <2>1, <3>1, StartsKept
  <2> QED
    BY <2>2, <2>3
<1>3. ASSUME NEW w \in Workers,
             \/ Receive(w) \/ Reclaim(w) \/ ReclaimBusy(w) \/ LeaseHeartbeat(w)
             \/ HeartbeatFails(w) \/ CancelActive(w) \/ IterationFails(w) \/ RelayFails(w)
      PROVE  StartInv' /\ Starts'
  <2>1. UNCHANGED <<gen, execVars, log>>
    BY <1>3 DEF Receive, Reclaim, ReclaimBusy, LeaseHeartbeat, HeartbeatFails, CancelActive,
                IterationFails, RelayFails
  <2> QED
    BY <2>1, StartsKept
<1>4. ASSUME GatewayCrash \/ UNCHANGED vars PROVE StartInv' /\ Starts'
  <2>1. UNCHANGED <<gen, execVars, log>>
    BY <1>4 DEF GatewayCrash, vars
  <2> QED
    BY <2>1, StartsKept
<1> QED
  BY <1>1, <1>2, <1>3, <1>4

\* Steps that change executions and no log.
LEMMA ExecutionStarts ==
    ASSUME StartOK, log' = log, NEW u \in Turns, NEW h \in Gens, gen[u] <= gen'[u], gen'[u] \in Nat,
           \A t \in Turns \ {u} : gen'[t] = gen[t],
           \A t \in Turns, g \in Gens : t # u \/ g # h =>
              task'[t][g] = task[t][g] /\ late'[t][g] = late[t][g] /\ runner'[t][g] = runner[t][g],
           StartInvAt(u, h)'
    PROVE  StartInv' /\ Starts'
<1>1. Starts'
  BY SameLog DEF StartOK, Starts
<1>2. ASSUME NEW t \in Turns, NEW g \in Gens, t # u \/ g # h PROVE StartInvAt(t, g)'
  <2>1. StartInvAt(t, g)
    BY DEF StartOK, StartInv
  <2>2. g > gen'[t] => g > gen[t]
    <3>1. gen[t] \in Nat /\ g \in Nat
      BY DeliveryAssumption DEF StartOK, TypeInv, TypeOK, Gens
    <3>2. CASE t = u
      BY <3>1, <3>2
    <3>3. CASE t # u
      BY <3>3
    <3> QED
      BY <3>2, <3>3
  <2>3. \A y, k : LoggedAt(t, y, k)' <=> LoggedAt(t, y, k)
    BY SameLog
  <2> QED
    BY <1>2, <2>1, <2>2, <2>3 DEF StartInvAt
<1> QED
  BY <1>1, <1>2 DEF StartInv

LEMMA ClaimStarts ==
    ASSUME StartOK, NEW w \in Workers, ClaimTurn(w)
    PROVE  StartInv' /\ Starts'
<1> USE DEF StartOK, TypeInv
<1>0. PICK u \in Turns : u = loop[w].turn
  BY DEF ClaimTurn, ClaimRow, LoopOK
<1>h. PICK h \in Nat : h = gen[u] + 1
  BY DeliveryAssumption DEF TypeOK, Gens
<1>1. /\ u \in Turns /\ gen[u] \in Nat /\ gen[u] < MaxGen
      /\ log' = log /\ late' = late
      /\ gen' = [gen EXCEPT ![u] = h]
      /\ task' = [task EXCEPT ![u][h] = "run"]
      /\ runner' = [runner EXCEPT ![u][h] = w]
  BY <1>0, <1>h, DeliveryAssumption DEF ClaimTurn, ClaimRow, TypeOK, Gens
<1>2. /\ gen \in [Turns -> Gens] /\ task \in [Turns -> [Gens -> TaskPcs]]
      /\ runner \in [Turns -> [Gens -> Workers \union {NoWorker}]]
  BY DEF TypeOK
<1>3. h \in Gens /\ h \in Nat /\ h > gen[u]
  BY <1>1, <1>h, DeliveryAssumption DEF Gens
<1>4. task[u][h] = "none" /\ late[u][h] = {} /\ ~LoggedAt(u, "started", h)
  BY <1>1, <1>3 DEF StartInv, StartInvAt
<1>5. ~LoggedAt(u, "handover", h)
  <2>1. ASSUME NEW i \in DOMAIN log[u], log[u][i].gen = h PROVE FALSE
    BY <1>1, <1>3, <2>1 DEF LogFollowsGenerations
  <2> QED
    BY <2>1 DEF LoggedAt
<1>6. gen'[u] = h /\ task'[u][h] = "run"
  BY <1>1, <1>2, <1>3
<1>7. StartInvAt(u, h)'
  <2>1. ~LoggedAt(u, "started", h)' /\ ~LoggedAt(u, "handover", h)'
    BY <1>1, <1>4, <1>5, SameLog
  <2>2. ~(h > gen'[u])
    BY <1>3, <1>6
  <2>3. late'[u][h] = {}
    BY <1>1, <1>4
  <2> QED
    BY <1>6, <2>1, <2>2, <2>3 DEF StartInvAt
<1>8. \A t \in Turns, g \in Gens : t # u \/ g # h =>
         task'[t][g] = task[t][g] /\ late'[t][g] = late[t][g] /\ runner'[t][g] = runner[t][g]
  BY <1>1, <1>2, <1>3
<1>9. gen[u] <= gen'[u] /\ gen'[u] \in Nat /\ \A t \in Turns \ {u} : gen'[t] = gen[t]
  BY <1>1, <1>2, <1>3, <1>6
<1> HIDE DEF StartOK
<1> QED
  BY <1>1, <1>3, <1>7, <1>8, <1>9, ExecutionStarts

\* A step of claim h of turn u, in its task or in a thread it left behind: the
\* task moves to p and leaves calls behind.
LEMMA TaskStarts ==
    ASSUME StartOK, NEW u \in Turns, NEW h \in Gens, UNCHANGED <<gen, runner>>,
           NEW p \in TaskPcs, NEW calls \in SUBSET Writes,
           task'[u][h] = p, late'[u][h] = calls,
           \A t \in Turns, g \in Gens : t # u \/ g # h =>
              task'[t][g] = task[t][g] /\ late'[t][g] = late[t][g],
           p \notin {"none", "run", "start"} \/ (p = "start" /\ task[u][h] = "run") \/ p = task[u][h],
           task[u][h] = "none" => p = "none" /\ calls = {},
           "start" \in calls => task[u][h] = "start" \/ "start" \in late[u][h],
           "start" \in calls => p \notin {"none", "run", "start"},
           "run" \notin calls,
           \/ log' = log
           \/ \E type \in EventTypes \ {"handover"} :
                 /\ log' = Appended(u, type)
                 /\ type = "started" => /\ gen[u] = h /\ p \notin {"none", "run", "start"}
                                        /\ "start" \notin calls
                                        /\ task[u][h] = "start" \/ "start" \in late[u][h]
    PROVE  StartInv' /\ Starts'
<1>0. TypeOK /\ LogFollowsGenerations /\ Starts /\ StartInvAt(u, h)
  BY DEF StartOK, TypeInv, StartInv
<1>1. \A t \in Turns \ {u} : log'[t] = log[t]
  BY <1>0 DEF TypeOK, Appended
<1>2. /\ \A g \in Gens : LoggedAt(u, "handover", g)' <=> LoggedAt(u, "handover", g)
      /\ \/ \A g \in Gens : LoggedAt(u, "started", g)' <=> LoggedAt(u, "started", g)
         \/ /\ p \notin {"none", "run", "start"} /\ "start" \notin calls
            /\ \A g \in Gens \ {h} : LoggedAt(u, "started", g)' <=> LoggedAt(u, "started", g)
      /\ OneStartAt(u)'
  <2>1. CASE log' = log
    BY <1>0, <2>1, SameLog DEF Starts
  <2>2. ASSUME NEW type \in EventTypes \ {"handover"}, log' = Appended(u, type),
               type = "started" => /\ gen[u] = h /\ p \notin {"none", "run", "start"}
                                   /\ "start" \notin calls
                                   /\ task[u][h] = "start" \/ "start" \in late[u][h]
        PROVE  /\ \A g \in Gens : LoggedAt(u, "handover", g)' <=> LoggedAt(u, "handover", g)
               /\ \/ \A g \in Gens : LoggedAt(u, "started", g)' <=> LoggedAt(u, "started", g)
                  \/ /\ p \notin {"none", "run", "start"} /\ "start" \notin calls
                     /\ \A g \in Gens \ {h} : LoggedAt(u, "started", g)' <=> LoggedAt(u, "started", g)
               /\ OneStartAt(u)'
    <3>1. gen[u] \in Gens /\ gen[u] <= gen[u] /\ log \in [Turns -> Seq(Event)]
      BY <1>0, DeliveryAssumption DEF TypeOK, Gens
    <3>2. log'[u] = Append(log[u], [type |-> type, gen |-> gen[u]])
      BY <2>2, <3>1 DEF Appended
    <3>3. type = "started" => ~LoggedAt(u, "started", gen[u]) /\ ~LoggedAt(u, "handover", gen[u])
      BY <1>0, <2>2 DEF StartInvAt
    <3>4. /\ \A y \in EventTypes, k \in Gens :
                LoggedAt(u, y, k)' <=> LoggedAt(u, y, k) \/ (y = type /\ k = gen[u])
          /\ OneStartAt(u)'
      BY <1>0, <3>1, <3>2, <3>3, OneMoreEvent
    <3>5. "started" \in EventTypes /\ "handover" \in EventTypes
      BY DEF EventTypes
    <3> QED
      BY <2>2, <3>4, <3>5
  <2> QED
    BY <2>1, <2>2
<1>3. Starts'
  BY <1>0, <1>1, <1>2, SameLog DEF Starts
<1>4. StartInvAt(u, h)'
  BY <1>0, <1>2 DEF StartInvAt
<1>5. ASSUME NEW t \in Turns, NEW g \in Gens, t # u \/ g # h PROVE StartInvAt(t, g)'
  <2>1. StartInvAt(t, g) /\ task'[t][g] = task[t][g] /\ late'[t][g] = late[t][g]
    BY <1>5 DEF StartOK, StartInv
  <2>2. /\ LoggedAt(t, "handover", g)' <=> LoggedAt(t, "handover", g)
        /\ LoggedAt(t, "started", g)' <=> LoggedAt(t, "started", g)
    <3>1. CASE t = u
      BY <1>2, <1>5, <3>1
    <3>2. CASE t # u
      BY <1>1, <3>2, SameLog
    <3> QED
      BY <3>1, <3>2
  <2> QED
    BY <2>1, <2>2 DEF StartInvAt
<1> QED
  BY <1>3, <1>4, <1>5 DEF StartInv

\* A task that is cancelled, fails or hears from the engine.
LEMMA TaskMoves ==
    ASSUME StartOK, NEW u \in Turns, NEW h \in Gens,
           \/ EngineReturns(u, h) \/ DeadlineInWrite(u, h) \/ ExecWriteFails(u, h)
           \/ \E w \in Workers : CancelExecution(w) /\ loop[w].turn = u /\ loop[w].gen = h
    PROVE  StartInv' /\ Starts'
<1> DEFINE old == task[u][h]
<1>0. /\ task \in [Turns -> [Gens -> TaskPcs]] /\ late \in [Turns -> [Gens -> SUBSET Writes]]
      /\ StartInvAt(u, h)
  BY DEF StartOK, TypeInv, TypeOK, StartInv
<1>1. UNCHANGED <<gen, log, runner>>
  BY DEF EngineReturns, DeadlineInWrite, ExecWriteFails, CancelExecution, rowVars
<1>2. \E p \in TaskPcs, calls \in SUBSET Writes :
        /\ task' = [task EXCEPT ![u][h] = p] /\ late' = [late EXCEPT ![u][h] = calls]
        /\ p \notin {"none", "run", "start"} \/ (p = old /\ calls = late[u][h])
        /\ old = "none" => p = "none" /\ calls = {}
        /\ "start" \in calls => old = "start" \/ "start" \in late[u][h]
        /\ "run" \notin calls
  <2>1. CASE EngineReturns(u, h)
    <3>1. PICK p \in {"complete", "fail"} : task' = [task EXCEPT ![u][h] = p]
      BY <2>1 DEF EngineReturns
    <3>2. late' = [late EXCEPT ![u][h] = late[u][h]]
      BY <1>0, <2>1 DEF EngineReturns
    <3>3. p \in TaskPcs /\ late[u][h] \in SUBSET Writes /\ old = "engine" /\ "run" \notin late[u][h]
      BY <1>0, <2>1 DEF EngineReturns, TaskPcs, Writes, StartInvAt
    <3> QED
      BY <3>1, <3>2, <3>3
  <2>2. CASE DeadlineInWrite(u, h)
    <3>1. /\ task' = [task EXCEPT ![u][h] = "fail"]
          /\ late' = [late EXCEPT ![u][h] = late[u][h] \union {"complete"}]
          /\ old = "complete"
      BY <2>2 DEF DeadlineInWrite
    <3>2. "fail" \in TaskPcs /\ late[u][h] \union {"complete"} \in SUBSET Writes
      BY <1>0 DEF TaskPcs, Writes
    <3>3. "run" \notin late[u][h]
      BY <1>0 DEF StartInvAt
    <3> QED
      BY <3>1, <3>2, <3>3
  <2>3. CASE ExecWriteFails(u, h)
    <3>1. task' = [task EXCEPT ![u][h] = Raised(old)] /\ old \in Writes
      BY <2>3 DEF ExecWriteFails
    <3>2. late' = [late EXCEPT ![u][h] = late[u][h]]
      BY <1>0, <2>3 DEF ExecWriteFails
    <3>3. Raised(old) \in {"fail", "error"} /\ old # "none"
      BY <3>1 DEF Raised, Writes
    <3>4. Raised(old) \in TaskPcs
      BY <3>3 DEF TaskPcs, Writes
    <3>5. "run" \notin late[u][h] /\ late[u][h] \in SUBSET Writes
      BY <1>0 DEF StartInvAt
    <3> QED
      BY <3>1, <3>2, <3>3, <3>4, <3>5
  <2>4. ASSUME NEW w \in Workers, CancelExecution(w), loop[w].turn = u, loop[w].gen = h
        PROVE  \E p \in TaskPcs, calls \in SUBSET Writes :
                  /\ task' = [task EXCEPT ![u][h] = p] /\ late' = [late EXCEPT ![u][h] = calls]
                  /\ p \notin {"none", "run", "start"} \/ (p = old /\ calls = late[u][h])
                  /\ old = "none" => p = "none" /\ calls = {}
                  /\ "start" \in calls => old = "start" \/ "start" \in late[u][h]
                  /\ "run" \notin calls
    <3>1. task' = [task EXCEPT ![u][h] = Cancelled(old)]
      BY <2>4 DEF CancelExecution
    <3>2. PICK call \in SUBSET ({old} \intersect (Writes \ {"run"})) :
            late' = [late EXCEPT ![u][h] = late[u][h] \union call]
      BY <2>4 DEF CancelExecution
    <3>3. late[u][h] \union call \in SUBSET Writes /\ "run" \notin late[u][h] \union call
      BY <1>0, <3>2 DEF StartInvAt
    <3>4. /\ Cancelled(old) \in TaskPcs
          /\ Cancelled(old) \notin {"none", "run", "start"} \/ (old = "none" /\ Cancelled(old) = "none")
      BY <1>0 DEF Cancelled, TaskPcs, Writes
    <3>5. old = "none" => call = {} /\ late[u][h] = {}
      BY <1>0, <3>2 DEF StartInvAt, Writes
    <3>6. old = "none" => Cancelled(old) = "none"
      BY DEF Cancelled, Writes
    <3>7. "start" \in late[u][h] \union call => old = "start" \/ "start" \in late[u][h]
      BY <3>2
    <3>8. Cancelled(old) \notin {"none", "run", "start"}
          \/ (Cancelled(old) = old /\ late[u][h] \union call = late[u][h])
      BY <3>4, <3>5
    <3>9. old = "none" => Cancelled(old) = "none" /\ late[u][h] \union call = {}
      BY <3>5, <3>6
    <3> QED
      BY <3>1, <3>2, <3>3, <3>4, <3>7, <3>8, <3>9
  <2> QED
    BY <2>1, <2>2, <2>3, <2>4
<1>3. PICK p \in TaskPcs, calls \in SUBSET Writes :
        /\ task' = [task EXCEPT ![u][h] = p] /\ late' = [late EXCEPT ![u][h] = calls]
        /\ p \notin {"none", "run", "start"} \/ (p = old /\ calls = late[u][h])
        /\ old = "none" => p = "none" /\ calls = {}
        /\ "start" \in calls => old = "start" \/ "start" \in late[u][h]
        /\ "run" \notin calls
  BY <1>2
<1>4. /\ task'[u][h] = p /\ late'[u][h] = calls
      /\ \A t \in Turns, g \in Gens : t # u \/ g # h =>
            task'[t][g] = task[t][g] /\ late'[t][g] = late[t][g]
  BY <1>0, <1>3
<1>5. "start" \in calls => p \notin {"none", "run", "start"}
  BY <1>0, <1>3 DEF StartInvAt
<1> QED
  BY <1>1, <1>3, <1>4, <1>5, TaskStarts

\* What a repository call writes to the log.
LEMMA FencedWriteLog ==
    ASSUME NEW u \in Turns, NEW h \in Gens, NEW write \in Writes, FencedWrite(u, h, write)
    PROVE  \/ log' = log
           \/ \E type \in EventTypes \ {"handover"} :
                 /\ log' = Appended(u, type)
                 /\ gen[u] = h
                 /\ type = "started" => write = "start"
<1>1. ASSUME write \in DOMAIN Emits
      PROVE  /\ Emits[write] \in EventTypes \ {"handover"}
             /\ Emits[write] = "started" => write = "start"
  BY <1>1 DEF Emits, EventTypes, EndTypes
<1> QED
  BY <1>1 DEF FencedWrite

LEMMA WriteStarts ==
    ASSUME StartOK, NEW u \in Turns, NEW h \in Gens, ExecWrite(u, h)
    PROVE  StartInv' /\ Starts'
<1> DEFINE old == task[u][h]
           next == IF Passes(u, h, old) THEN After(u, old, status'[u]) ELSE Raised(old)
<1>0. /\ task \in [Turns -> [Gens -> TaskPcs]] /\ late \in [Turns -> [Gens -> SUBSET Writes]]
      /\ StartInvAt(u, h)
  BY DEF StartOK, TypeInv, TypeOK, StartInv
<1>1. /\ old \in Writes /\ FencedWrite(u, h, old) /\ UNCHANGED <<gen, runner, late>>
      /\ task' = [task EXCEPT ![u][h] = next]
  BY DEF ExecWrite
<1>2. next \in TaskPcs
  <2>1. Raised(old) \in TaskPcs
    BY DEF Raised, TaskPcs, Writes
  <2> QED
    BY <1>1, <2>1, AfterTyped
<1>3. next \notin {"none", "run", "start"} \/ (next = "start" /\ old = "run")
  <2>1. Raised(old) \notin {"none", "run", "start"}
    BY DEF Raised
  <2>2. After(u, old, status'[u]) \notin {"none", "run", "start"}
        \/ (After(u, old, status'[u]) = "start" /\ old = "run")
    BY <1>1 DEF After, TerminalStep, Writes
  <2> QED
    BY <2>1, <2>2
<1> HIDE DEF next
<1>4. /\ task'[u][h] = next /\ late'[u][h] = late[u][h] /\ late[u][h] \in SUBSET Writes
      /\ \A t \in Turns, g \in Gens : t # u \/ g # h =>
            task'[t][g] = task[t][g] /\ late'[t][g] = late[t][g]
  BY <1>0, <1>1
<1>5. old # "none"
  BY <1>1 DEF Writes
<1>6. /\ "start" \in late[u][h] => next \notin {"none", "run", "start"}
      /\ "run" \notin late[u][h]
      /\ old = "start" => "start" \notin late[u][h]
  BY <1>0, <1>3 DEF StartInvAt
<1>7. \/ log' = log
      \/ \E type \in EventTypes \ {"handover"} :
            /\ log' = Appended(u, type)
            /\ type = "started" => /\ gen[u] = h /\ next \notin {"none", "run", "start"}
                                   /\ "start" \notin late[u][h]
                                   /\ old = "start" \/ "start" \in late[u][h]
  BY <1>1, <1>3, <1>6, FencedWriteLog
<1> QED
  BY <1>1, <1>2, <1>3, <1>4, <1>5, <1>6, <1>7, TaskStarts

LEMMA LateStarts ==
    ASSUME StartOK, NEW u \in Turns, NEW h \in Gens, LateWrite(u, h)
    PROVE  StartInv' /\ Starts'
<1> DEFINE old == task[u][h]
<1>0. /\ task \in [Turns -> [Gens -> TaskPcs]] /\ late \in [Turns -> [Gens -> SUBSET Writes]]
      /\ StartInvAt(u, h)
  BY DEF StartOK, TypeInv, TypeOK, StartInv
<1>1. UNCHANGED <<gen, runner, task>>
  BY DEF LateWrite
<1>2. PICK write \in late[u][h] :
        /\ FencedWrite(u, h, write)
        /\ late' = [late EXCEPT ![u][h] =
              IF write = "ensureCancelled" /\ ~Logged(u, "cancelled")
              THEN (@ \ {write}) \union {"appendCancelled"} ELSE @ \ {write}]
  BY DEF LateWrite
<1> DEFINE calls == IF write = "ensureCancelled" /\ ~Logged(u, "cancelled")
                    THEN (late[u][h] \ {write}) \union {"appendCancelled"} ELSE late[u][h] \ {write}
<1>3. /\ calls \in SUBSET Writes /\ "run" \notin calls
      /\ "start" \in calls => "start" \in late[u][h] /\ write # "start"
      /\ write \in Writes
  BY <1>0, <1>2 DEF StartInvAt, Writes
<1>4. /\ late'[u][h] = calls
      /\ \A t \in Turns, g \in Gens : t # u \/ g # h => late'[t][g] = late[t][g]
  BY <1>0, <1>2
<1> HIDE DEF calls
<1>5. /\ old # "none"
      /\ "start" \in calls \/ write = "start" => old \notin {"none", "run", "start"}
  BY <1>0, <1>2, <1>3 DEF StartInvAt
<1>6. \/ log' = log
      \/ \E type \in EventTypes \ {"handover"} :
            /\ log' = Appended(u, type)
            /\ type = "started" => /\ gen[u] = h /\ old \notin {"none", "run", "start"}
                                   /\ "start" \notin calls
                                   /\ old = "start" \/ "start" \in late[u][h]
  BY <1>2, <1>3, <1>5, FencedWriteLog
<1>7. old \in TaskPcs /\ task'[u][h] = old
  BY <1>0, <1>1
<1> QED
  BY <1>1, <1>3, <1>4, <1>5, <1>6, <1>7, TaskStarts

\* A crash ends the executions of one worker; nobody's generations are not
\* among them.
LEMMA CrashStarts ==
    ASSUME StartOK, NEW w \in Workers, WorkerCrash(w)
    PROVE  StartInv' /\ Starts'
<1>1. /\ UNCHANGED <<gen, log, runner>> /\ w # NoWorker
      /\ \A t \in Turns, g \in Gens :
            /\ task'[t][g] = IF runner[t][g] = w THEN "gone" ELSE task[t][g]
            /\ late'[t][g] = IF runner[t][g] = w THEN {} ELSE late[t][g]
  BY DeliveryAssumption DEF WorkerCrash, rowVars
<1>2. Starts'
  BY <1>1, SameLog DEF StartOK, Starts
<1>3. ASSUME NEW t \in Turns, NEW g \in Gens PROVE StartInvAt(t, g)'
  <2>1. StartInvAt(t, g)
    BY DEF StartOK, StartInv
  <2>2. \A y, k : LoggedAt(t, y, k)' <=> LoggedAt(t, y, k)
    BY <1>1, SameLog
  <2>3. CASE runner[t][g] = w
    <3>1. task[t][g] # "none" /\ task'[t][g] = "gone" /\ late'[t][g] = {}
      BY <1>1, <2>1, <2>3 DEF StartInvAt
    <3> QED
      BY <1>1, <2>1, <2>2, <3>1 DEF StartInvAt
  <2>4. CASE runner[t][g] # w
    BY <1>1, <2>1, <2>2, <2>4 DEF StartInvAt
  <2> QED
    BY <2>3, <2>4
<1> QED
  BY <1>2, <1>3 DEF StartInv

\* Recovery takes the next generation, which is nobody's.
LEMMA RelayStarts ==
    ASSUME StartOK, NEW w \in Workers, RelayPass(w)
    PROVE  StartInv' /\ Starts'
<1>0. TypeOK /\ LogFollowsGenerations /\ Starts
  BY DEF StartOK, TypeInv
<1>1. ASSUME NEW t \in Turns, NEW g \in Gens PROVE StartInvAt(t, g)' /\ OneStartAt(t)'
  <2>1. StartInvAt(t, g) /\ OneStartAt(t) /\ g \in Nat /\ gen[t] \in Nat
    BY DeliveryAssumption DEF StartOK, StartInv, Starts, TypeInv, TypeOK, Gens
  <2>2. UNCHANGED execVars
    BY DEF RelayPass
  <2>3. CASE ~Retried(t)
    <3>1. log'[t] = log[t] /\ gen'[t] = gen[t]
      BY <2>3 DEF RelayPass
    <3>2. OneStartAt(t)' /\ \A y, k : LoggedAt(t, y, k)' <=> LoggedAt(t, y, k)
      BY <2>1, <3>1, SameLog
    <3> QED
      BY <2>1, <2>2, <3>1, <3>2 DEF StartInvAt, execVars
  <2>4. CASE Retried(t)
    <3>1. PICK h \in Gens : h = gen[t] + 1
      BY <2>1, <2>4, DeliveryAssumption DEF Retried, Gens
    <3>2. log'[t] = Append(log[t], [type |-> "handover", gen |-> h]) /\ gen'[t] = h
      BY <2>4, <3>1 DEF RelayPass
    <3>3. /\ \A y \in EventTypes, k \in Gens :
                LoggedAt(t, y, k)' <=> LoggedAt(t, y, k) \/ (y = "handover" /\ k = h)
          /\ OneStartAt(t)'
      <4>1. "handover" \in EventTypes /\ gen[t] <= h
        BY <2>1, <3>1 DEF EventTypes
      <4> QED
        BY <1>0, <3>2, <4>1, OneMoreEvent
    <3>4. /\ LoggedAt(t, "started", g)' <=> LoggedAt(t, "started", g)
          /\ LoggedAt(t, "handover", g)' <=> LoggedAt(t, "handover", g) \/ g = h
      BY <3>3 DEF EventTypes
    <3>5. /\ g > gen'[t] => g > gen[t]
          /\ g = h => g > gen[t]
      BY <2>1, <3>1, <3>2
    <3> QED
      BY <2>1, <2>2, <3>3, <3>4, <3>5 DEF StartInvAt, execVars
  <2> QED
    BY <2>3, <2>4
<1>2. 0 \in Gens
  BY DeliveryAssumption DEF Gens
<1> QED
  BY <1>1, <1>2 DEF StartInv, Starts

\* StartOK is inductive.
LEMMA StartsInvariant == Spec => [](StartOK /\ OneStartPerGeneration)
<1>1. Init => StartInv /\ Starts
  <2> SUFFICES ASSUME Init PROVE StartInv /\ Starts
    OBVIOUS
  <2>1. \A t \in Turns : log[t] = <<>>
    BY DEF Init
  <2>2. \A t \in Turns : \A i \in DOMAIN log[t] : FALSE
    BY <2>1
  <2>3. Starts
    BY <2>2 DEF Starts, OneStartAt
  <2>4. \A t \in Turns, g \in Gens :
           task[t][g] = "none" /\ late[t][g] = {} /\ runner[t][g] = NoWorker
    BY DEF Init
  <2>5. StartInv
    BY <2>2, <2>4 DEF StartInv, StartInvAt, LoggedAt
  <2> QED
    BY <2>3, <2>5
<1>2. StartOK /\ [Next]_vars => StartInv' /\ Starts'
  <2> SUFFICES ASSUME StartOK, [Next]_vars PROVE StartInv' /\ Starts'
    OBVIOUS
  <2>1. ASSUME NEW w \in Workers, CancelExecution(w) PROVE StartInv' /\ Starts'
    <3>1. loop[w].turn \in Turns /\ loop[w].gen \in Gens
      BY <2>1 DEF CancelExecution, StartOK, TypeInv, TypeOK, LoopOK, Loop
    <3> QED
      BY <2>1, <3>1, TaskMoves
  <2>2. ASSUME NEW w \in Workers, LoopStep(w) PROVE StartInv' /\ Starts'
    BY <2>1, <2>2, ClaimStarts, QuietStarts
  <2>3. ASSUME NEW t \in Turns, NEW g \in Gens,
               ExecStep(t, g) \/ DeadlineInWrite(t, g) \/ ExecWriteFails(t, g)
        PROVE  StartInv' /\ Starts'
    BY <2>3, TaskMoves, WriteStarts, LateStarts DEF ExecStep
  <2> QED
    BY <2>2, <2>3, RelayStarts, CrashStarts, QuietStarts DEF Next, FaultStep, Finished
<1>3. Starts => OneStartPerGeneration
  BY DEF Starts, OneStartAt, OneStartPerGeneration
<1>4. Spec => []LogFollowsGenerations
  BY LogOrder
<1>5. TypeInv /\ LogFollowsGenerations /\ StartInv /\ Starts /\ [Next]_vars => StartInv' /\ Starts'
  BY <1>2 DEF StartOK
<1> QED
  BY <1>1, <1>3, <1>4, <1>5, InitTypes, NextTypes, PTL DEF Spec, StartOK

\* No claim generation ever starts a turn twice, and one that recovery has
\* handed over never starts it at all: redelivery, abandoned threads, crashes
\* and overlapping claims included.
THEOREM OneStart == Spec => []OneStartPerGeneration
BY StartsInvariant, PTL

-----------------------------------------------------------------------------
(* Only the current claim completes a turn *)

\* The task has not heard from the engine yet.
Early == {"none", "run", "start", "engine"}

\* The inductive form of CompletedByOwner: a thread left behind in the middle of
\* the completing update belongs to a task that is past the engine.
OwnerInv ==
    /\ CompletedByOwner
    /\ \A t \in Turns, g \in Gens : "complete" \in late[t][g] => task[t][g] \notin Early

\* Tasks move forward only: a claim never reuses a generation.
LEMMA TasksAdvance ==
    ASSUME StartOK, [Next]_vars, NEW t \in Turns, NEW g \in Gens, task[t][g] \notin Early
    PROVE  task'[t][g] \notin Early
<1>0. task \in [Turns -> [Gens -> TaskPcs]]
  BY DEF StartOK, TypeInv, TypeOK
<1> DEFINE Goal == task'[t][g] \notin Early
<1>1. task' = task => Goal
  OBVIOUS
<1>2. ASSUME NEW u \in Turns, NEW h \in Gens, NEW p, task' = [task EXCEPT ![u][h] = p],
             p \in Early => task[u][h] \in Early
      PROVE  Goal
  BY <1>0, <1>2
<1> HIDE DEF Goal
<1>3. ASSUME NEW w \in Workers, LoopStep(w) PROVE Goal
  <2>1. CASE ClaimTurn(w)
    <3>1. PICK u \in Turns : u = loop[w].turn
      BY <2>1 DEF ClaimTurn, StartOK, TypeInv, LoopOK
    <3>2. PICK h \in Gens : h = gen[u] + 1 /\ h > gen[u]
      <4>1. gen[u] \in 0..MaxGen /\ gen[u] < MaxGen /\ MaxGen \in Nat
        BY <2>1, <3>1, DeliveryAssumption DEF ClaimTurn, StartOK, TypeInv, TypeOK, Gens
      <4> QED
        BY <4>1 DEF Gens
    <3>3. task' = [task EXCEPT ![u][h] = "run"]
      BY <2>1, <3>1, <3>2 DEF ClaimTurn
    <3>4. task[u][h] = "none"
      BY <3>2 DEF StartOK, StartInv, StartInvAt
    <3> QED
      BY <1>2, <3>3, <3>4 DEF Early
  <2>2. CASE CancelExecution(w)
    <3>1. PICK u \in Turns, h \in Gens : u = loop[w].turn /\ h = loop[w].gen
      BY <2>2 DEF CancelExecution, StartOK, TypeInv, TypeOK, LoopOK, Loop
    <3>2. task' = [task EXCEPT ![u][h] = Cancelled(task[u][h])]
      BY <2>2, <3>1 DEF CancelExecution
    <3>3. Cancelled(task[u][h]) \in Early => task[u][h] \in Early
      BY DEF Cancelled, Early, Writes
    <3> QED
      BY <1>2, <3>2, <3>3
  <2>3. CASE ~ClaimTurn(w) /\ ~CancelExecution(w)
    <3>1. task' = task
      BY <1>3, <2>3
         DEF LoopStep, CheckCancelKey, CheckTerminal, CheckCancelKeyAgain, ClaimCancelled, ClaimNone,
             ClaimForbidden, ExecutionEnds, Drain, CancelPending,
             EnsureReads, EnsureAppends, Ack, execVars
    <3> QED
      BY <1>1, <3>1
  <2> QED
    BY <2>1, <2>2, <2>3
<1>4. ASSUME NEW u \in Turns, NEW h \in Gens,
             ExecStep(u, h) \/ DeadlineInWrite(u, h) \/ ExecWriteFails(u, h)
      PROVE  Goal
  <2>1. CASE ExecWrite(u, h)
    <3> DEFINE old == task[u][h]
               next == IF Passes(u, h, old) THEN After(u, old, status'[u]) ELSE Raised(old)
    <3>1. old \in Writes /\ task' = [task EXCEPT ![u][h] = next]
      BY <2>1 DEF ExecWrite
    <3>2. Raised(old) \notin Early
      BY DEF Raised, Early
    <3>3. After(u, old, status'[u]) \in Early => old \in Early
      BY <3>1 DEF After, TerminalStep, Early, Writes
    <3>4. next \in Early => old \in Early
      BY <3>2, <3>3
    <3> HIDE DEF next
    <3> QED
      BY <1>2, <3>1, <3>4
  <2>2. CASE EngineReturns(u, h)
    <3>1. PICK p \in {"complete", "fail"} : task' = [task EXCEPT ![u][h] = p]
      BY <2>2 DEF EngineReturns
    <3> QED
      BY <1>2, <3>1 DEF Early
  <2>3. CASE LateWrite(u, h)
    BY <1>1, <2>3 DEF LateWrite
  <2>4. CASE DeadlineInWrite(u, h)
    BY <1>2, <2>4 DEF DeadlineInWrite, Early
  <2>5. CASE ExecWriteFails(u, h)
    BY <1>2, <2>5 DEF ExecWriteFails, Raised, Early
  <2> QED
    BY <1>4, <2>1, <2>2, <2>3, <2>4, <2>5 DEF ExecStep
<1>5. ASSUME NEW w \in Workers, WorkerCrash(w) PROVE Goal
  BY <1>5 DEF WorkerCrash, Goal, Early
<1>6. ASSUME \/ \E u \in Turns : GatewayStep(u) \/ LeaseExpires(u) \/ RevokeAuthorization(u)
             \/ \E w \in Workers :
                   \/ Receive(w) \/ Reclaim(w) \/ ReclaimBusy(w) \/ LeaseHeartbeat(w) \/ RelayPass(w)
                   \/ HeartbeatFails(w) \/ CancelActive(w) \/ IterationFails(w) \/ RelayFails(w)
             \/ GatewayCrash \/ UNCHANGED vars
      PROVE  Goal
  <2>1. task' = task
    BY <1>6 DEF GatewayStep, SubmitTurn, EmitAccepted, CancelTurn, RequestCancellation, CancelEnsures,
                CancelAppends, CancelSignals, LeaseExpires, RevokeAuthorization, Receive, Reclaim,
                ReclaimBusy, LeaseHeartbeat, RelayPass, HeartbeatFails, CancelActive, IterationFails,
                RelayFails, GatewayCrash, execVars, vars
  <2> QED
    BY <1>1, <2>1
<1> QED
  BY <1>3, <1>4, <1>5, <1>6 DEF Next, FaultStep, Finished, Goal

\* A completing update that is left behind was the task's current call.
LEMMA LateCompletes ==
    ASSUME StartOK, [Next]_vars, NEW t \in Turns, NEW g \in Gens, "complete" \in late'[t][g]
    PROVE  "complete" \in late[t][g] \/ task[t][g] = "complete"
<1>0. late \in [Turns -> [Gens -> SUBSET Writes]]
  BY DEF StartOK, TypeInv, TypeOK
<1> DEFINE Goal == "complete" \in late[t][g] \/ task[t][g] = "complete"
<1>1. late' = late => Goal
  OBVIOUS
<1>2. ASSUME NEW u \in Turns, NEW h \in Gens, NEW calls, late' = [late EXCEPT ![u][h] = calls],
             "complete" \in calls => "complete" \in late[u][h] \/ task[u][h] = "complete"
      PROVE  Goal
  BY <1>0, <1>2
<1> HIDE DEF Goal
<1>3. ASSUME NEW w \in Workers, LoopStep(w) PROVE Goal
  <2>1. CASE CancelExecution(w)
    <3>1. PICK u \in Turns, h \in Gens : u = loop[w].turn /\ h = loop[w].gen
      BY <2>1 DEF CancelExecution, StartOK, TypeInv, TypeOK, LoopOK, Loop
    <3>2. PICK call \in SUBSET ({task[u][h]} \intersect (Writes \ {"run"})) :
            late' = [late EXCEPT ![u][h] = late[u][h] \union call]
      BY <2>1, <3>1 DEF CancelExecution
    <3> QED
      BY <1>2, <3>2
  <2>2. CASE ~CancelExecution(w)
    <3>1. late' = late
      BY <1>3, <2>2
         DEF LoopStep, CheckCancelKey, CheckTerminal, CheckCancelKeyAgain, ClaimCancelled, ClaimNone,
             ClaimForbidden, ClaimTurn, ExecutionEnds, Drain, CancelPending, EnsureReads,
             EnsureAppends, Ack, execVars
    <3> QED
      BY <1>1, <3>1
  <2> QED
    BY <2>1, <2>2
<1>4. ASSUME NEW u \in Turns, NEW h \in Gens,
             ExecStep(u, h) \/ DeadlineInWrite(u, h) \/ ExecWriteFails(u, h)
      PROVE  Goal
  <2>1. CASE LateWrite(u, h)
    <3>1. PICK write \in late[u][h] :
            late' = [late EXCEPT ![u][h] =
                IF write = "ensureCancelled" /\ ~Logged(u, "cancelled")
                THEN (@ \ {write}) \union {"appendCancelled"} ELSE @ \ {write}]
      BY <2>1 DEF LateWrite
    <3> DEFINE calls == IF write = "ensureCancelled" /\ ~Logged(u, "cancelled")
                        THEN (late[u][h] \ {write}) \union {"appendCancelled"} ELSE late[u][h] \ {write}
    <3>2. late' = [late EXCEPT ![u][h] = calls]
      BY <3>1
    <3>3. "complete" \in calls => "complete" \in late[u][h]
      OBVIOUS
    <3> HIDE DEF calls
    <3> QED
      BY <1>2, <3>2, <3>3
  <2>2. CASE DeadlineInWrite(u, h)
    <3>1. /\ late' = [late EXCEPT ![u][h] = late[u][h] \union {"complete"}]
          /\ task[u][h] = "complete"
      BY <2>2 DEF DeadlineInWrite
    <3> QED
      BY <1>2, <3>1
  <2>3. CASE ~LateWrite(u, h) /\ ~DeadlineInWrite(u, h)
    <3>1. late' = late
      BY <1>4, <2>3 DEF ExecStep, ExecWrite, EngineReturns, ExecWriteFails
    <3> QED
      BY <1>1, <3>1
  <2> QED
    BY <2>1, <2>2, <2>3
<1>5. ASSUME NEW w \in Workers, WorkerCrash(w) PROVE Goal
  BY <1>5 DEF WorkerCrash, Goal
<1>6. ASSUME \/ \E u \in Turns : GatewayStep(u) \/ LeaseExpires(u) \/ RevokeAuthorization(u)
             \/ \E w \in Workers :
                   \/ Receive(w) \/ Reclaim(w) \/ ReclaimBusy(w) \/ LeaseHeartbeat(w) \/ RelayPass(w)
                   \/ HeartbeatFails(w) \/ CancelActive(w) \/ IterationFails(w) \/ RelayFails(w)
             \/ GatewayCrash \/ UNCHANGED vars
      PROVE  Goal
  <2>1. late' = late
    BY <1>6 DEF GatewayStep, SubmitTurn, EmitAccepted, CancelTurn, RequestCancellation, CancelEnsures,
                CancelAppends, CancelSignals, LeaseExpires, RevokeAuthorization, Receive, Reclaim,
                ReclaimBusy, LeaseHeartbeat, RelayPass, HeartbeatFails, CancelActive, IterationFails,
                RelayFails, GatewayCrash, execVars, vars
  <2> QED
    BY <1>1, <2>1
<1> QED
  BY <1>3, <1>4, <1>5, <1>6 DEF Next, FaultStep, Finished, Goal

\* A turn becomes completed only through the completing update of the claim the
\* row names, and a completed turn keeps its generation.
LEMMA CompletesAsOwner ==
    ASSUME StartOK, [Next]_vars, NEW t \in Turns, status'[t] = "completed"
    PROVE  /\ gen'[t] = gen[t]
           /\ \/ status[t] = "completed"
              \/ task[t][gen[t]] = "complete" \/ "complete" \in late[t][gen[t]]
<1>0. status \in [Turns -> Statuses] /\ gen \in [Turns -> Gens]
  BY DEF StartOK, TypeInv, TypeOK
<1> USE DEF rowVars
<1> DEFINE Goal == /\ gen'[t] = gen[t]
                   /\ \/ status[t] = "completed"
                      \/ task[t][gen[t]] = "complete" \/ "complete" \in late[t][gen[t]]
<1>1. gen' = gen /\ status' = status => Goal
  OBVIOUS
<1>2. ASSUME NEW u \in Turns, gen' = gen, NEW s, s # "completed",
             status' = [status EXCEPT ![u] = Updated(@, s)] \/ status' = [status EXCEPT ![u] = s]
      PROVE  Goal
  BY <1>0, <1>2 DEF Updated
<1>3. ASSUME NEW u \in Turns, NEW h \in Gens, NEW write, FencedWrite(u, h, write), gen' = gen,
             write = "complete" => task[u][h] = "complete" \/ "complete" \in late[u][h]
      PROVE  Goal
  <2>1. write \in DOMAIN Target /\ write # "complete" => Target[write] # "completed"
    BY DEF Target
  <2>2. CASE gen[u] = h /\ write \in DOMAIN Target
    <3>1. status' = [status EXCEPT ![u] = Updated(@, Target[write])]
      BY <1>3, <2>2 DEF FencedWrite
    <3>2. CASE write = "complete"
      BY <1>0, <1>3, <2>2, <3>1, <3>2
    <3>3. CASE write # "complete"
      BY <1>2, <1>3, <2>1, <2>2, <3>1, <3>3
    <3> QED
      BY <3>2, <3>3
  <2>3. CASE ~(gen[u] = h /\ write \in DOMAIN Target)
    BY <1>1, <1>3, <2>3 DEF FencedWrite
  <2> QED
    BY <2>2, <2>3
<1> HIDE DEF Goal
<1>4. ASSUME NEW u \in Turns, GatewayStep(u) PROVE Goal
  <2>1. gen' = gen
    BY <1>4 DEF GatewayStep, SubmitTurn, EmitAccepted, CancelTurn, RequestCancellation, CancelEnsures,
                CancelAppends, CancelSignals
  <2>2. \/ status' = status \/ status' = [status EXCEPT ![u] = "accepted"]
        \/ status' = [status EXCEPT ![u] = Updated(@, "cancelled")]
    BY <1>4 DEF GatewayStep, SubmitTurn, EmitAccepted, CancelTurn, RequestCancellation, CancelEnsures,
                CancelAppends, CancelSignals
  <2> QED
    BY <1>1, <1>2, <2>1, <2>2
<1>5. ASSUME NEW w \in Workers, LoopStep(w) \/ LeaseHeartbeat(w) PROVE Goal
  <2>1. CASE ClaimTurn(w)
    <3>1. PICK u \in Turns : u = loop[w].turn
      BY <2>1 DEF ClaimTurn, StartOK, TypeInv, LoopOK
    <3>2. /\ status' = [status EXCEPT ![u] = "running"]
          /\ gen' = [gen EXCEPT ![u] = @ + 1]
      BY <2>1, <3>1 DEF ClaimTurn, ClaimRow
    <3> QED
      BY <1>0, <3>2 DEF Goal
  <2>2. CASE ClaimCancelled(w) \/ CancelPending(w) \/ LeaseHeartbeat(w)
    <3>1. PICK u \in Turns : u = loop[w].turn
      BY <2>2 DEF ClaimCancelled, CancelPending, LeaseHeartbeat, StartOK, TypeInv, LoopOK
    <3>2. /\ gen' = gen
          /\ \/ status' = status \/ status' = [status EXCEPT ![u] = "cancelled"]
             \/ status' = [status EXCEPT ![u] = Updated(@, "cancelled")]
      BY <2>2, <3>1 DEF ClaimCancelled, CancelPending, LeaseHeartbeat
    <3> QED
      BY <1>1, <1>2, <3>2
  <2>3. CASE ~ClaimTurn(w) /\ ~(ClaimCancelled(w) \/ CancelPending(w) \/ LeaseHeartbeat(w))
    <3>1. gen' = gen /\ status' = status
      BY <1>5, <2>3
         DEF LoopStep, CheckCancelKey, CheckTerminal, CheckCancelKeyAgain, ClaimNone, ClaimForbidden,
             ExecutionEnds, CancelExecution, Drain, EnsureReads, EnsureAppends, Ack
    <3> QED
      BY <1>1, <3>1
  <2> QED
    BY <2>1, <2>2, <2>3
<1>6. ASSUME NEW w \in Workers, RelayPass(w) PROVE Goal
  <2>1. ~Retried(t) /\ ~Stuck(t)
    BY <1>6 DEF RelayPass, Retried
  <2> QED
    BY <1>6, <2>1 DEF RelayPass, Goal
<1>7. ASSUME NEW u \in Turns, NEW h \in Gens, ExecStep(u, h) PROVE Goal
  <2>1. CASE ExecWrite(u, h)
    <3>1. FencedWrite(u, h, task[u][h]) /\ gen' = gen
      BY <2>1 DEF ExecWrite
    <3> QED
      BY <1>3, <3>1
  <2>2. CASE EngineReturns(u, h)
    BY <1>1, <2>2 DEF EngineReturns
  <2>3. CASE LateWrite(u, h)
    <3>1. gen' = gen /\ \E write \in late[u][h] : FencedWrite(u, h, write)
      BY <2>3 DEF LateWrite
    <3> QED
      BY <1>3, <3>1
  <2> QED
    BY <1>7, <2>1, <2>2, <2>3 DEF ExecStep
<1>8. ASSUME \/ FaultStep \/ Finished \/ UNCHANGED vars \/ \E u \in Turns : LeaseExpires(u)
             \/ \E w \in Workers : Receive(w) \/ Reclaim(w) \/ CancelActive(w)
      PROVE  Goal
  <2>1. gen' = gen /\ status' = status
    BY <1>8 DEF FaultStep, Finished, vars, GatewayCrash, RelayFails, ReclaimBusy, HeartbeatFails,
                IterationFails, WorkerCrash, RevokeAuthorization, DeadlineInWrite, ExecWriteFails,
                Receive, Reclaim, CancelActive, LeaseExpires
  <2> QED
    BY <1>1, <2>1
<1>9. Goal
  BY <1>4, <1>5, <1>6, <1>7, <1>8 DEF Next
<1> QED
  BY <1>9 DEF Goal

\* Only the claim a row names ever completes the turn, in every reachable state:
\* the fence of update_turn holds against executions that lost their claim and
\* against the threads they left behind.
THEOREM OwnersResult == Spec => []CompletedByOwner
<1>1. Init => OwnerInv
  <2> SUFFICES ASSUME Init PROVE OwnerInv
    OBVIOUS
  <2>1. \A t \in Turns : status[t] # "completed"
    BY DEF Init
  <2>2. \A t \in Turns, g \in Gens : "complete" \notin late[t][g]
    BY DEF Init
  <2> QED
    BY <2>1, <2>2 DEF OwnerInv, CompletedByOwner
<1>2. StartOK /\ OwnerInv /\ [Next]_vars => OwnerInv'
  <2> SUFFICES ASSUME StartOK, OwnerInv, [Next]_vars PROVE OwnerInv'
    OBVIOUS
  <2>1. ASSUME NEW t \in Turns, NEW g \in Gens, "complete" \in late'[t][g]
        PROVE  task'[t][g] \notin Early
    <3>1. task[t][g] \notin Early
      BY <2>1, LateCompletes DEF OwnerInv, Early
    <3> QED
      BY <3>1, TasksAdvance
  <2>2. ASSUME NEW t \in Turns, status'[t] = "completed"
        PROVE  task'[t][gen'[t]] \notin Early
    <3>1. gen[t] \in Gens /\ gen'[t] = gen[t]
      BY <2>2, CompletesAsOwner DEF StartOK, TypeInv, TypeOK
    <3>2. task[t][gen[t]] \notin Early
      BY <2>2, <3>1, CompletesAsOwner DEF OwnerInv, CompletedByOwner, Early
    <3> QED
      BY <3>1, <3>2, TasksAdvance
  <2> QED
    BY <2>1, <2>2 DEF OwnerInv, CompletedByOwner, Early
<1>3. OwnerInv => CompletedByOwner
  BY DEF OwnerInv
<1> QED
  BY <1>1, <1>2, <1>3, StartsInvariant, PTL DEF Spec

=============================================================================

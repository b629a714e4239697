------------------------- MODULE TurnDelivery_proof -------------------------
(* Theorems about TurnDelivery for any sets of turns and workers.          *)
EXTENDS TurnDelivery, TLAPS

\* A loop that handles a delivery knows its turn and its stream entry, and one
\* that is about to append has an event left to append.  TypeOK is not
\* inductive without it: the loop indexes the row, the stream and todo.
LoopOK ==
    \A w \in Workers :
        /\ loop[w].pc # "idle" => loop[w].turn \in Turns
        /\ loop[w].turn \in Turns => loop[w].msg \in DOMAIN stream[loop[w].turn]
        /\ loop[w].pc = "append" => loop[w].todo # <<>>

TypeInv == TypeOK /\ LoopOK

\* Publishing only adds entries at the end of a turn's stream.
LEMMA PublishedExtends ==
    ASSUME TypeOK, NEW t \in Turns
    PROVE  /\ Published(t) \in Seq(Delivery)
           /\ Len(Published(t)) = Len(stream[t]) + Due(t)
           /\ Due(t) \in Nat
           /\ \A i \in DOMAIN stream[t] : i \in DOMAIN Published(t) /\ Published(t)[i] = stream[t][i]
           /\ \A i \in DOMAIN Published(t) : i \notin DOMAIN stream[t] => Published(t)[i] = "new"
<1>1. stream[t] \in Seq(Delivery) /\ Due(t) \in Nat
  BY DEF TypeOK, Due
<1> DEFINE added == [i \in 1..Due(t) |-> "new"]
<1>2. added \in Seq(Delivery) /\ Len(added) = Due(t)
  BY <1>1 DEF Delivery
<1> QED
  BY <1>1, <1>2 DEF Published

-----------------------------------------------------------------------------
(* Updates of a consumer loop.  Everything but the loop of w is untouched.  *)

\* The stream may change, but no turn loses entries.
StreamGrows ==
    \A t \in Turns : DOMAIN stream[t] \subseteq DOMAIN stream'[t]

\* LoopOK survives a step of w that leaves w's loop in order.
LEMMA LoopOKKept ==
    ASSUME TypeInv, NEW w \in Workers, StreamGrows,
           loop' \in [Workers -> Loop],
           \A v \in Workers \ {w} : loop'[v] = loop[v],
           loop'[w].pc # "idle" => loop'[w].turn \in Turns,
           loop'[w].turn \in Turns => loop'[w].msg \in DOMAIN stream'[loop'[w].turn],
           loop'[w].pc = "append" => loop'[w].todo # <<>>
    PROVE  LoopOK'
BY DEF TypeInv, LoopOK, StreamGrows

LEMMA GoToFields ==
    ASSUME loop \in [Workers -> Loop], NEW w \in Workers, NEW label \in LoopPcs,
           GoTo(w, label)
    PROVE  /\ loop' \in [Workers -> Loop]
           /\ \A v \in Workers \ {w} : loop'[v] = loop[v]
           /\ loop'[w].pc = label
           /\ loop'[w].turn = loop[w].turn
           /\ loop'[w].msg = loop[w].msg
           /\ loop'[w].gen = loop[w].gen
           /\ loop'[w].todo = loop[w].todo
BY DEF GoTo, Loop

LEMMA AbandonFields ==
    ASSUME loop \in [Workers -> Loop], NEW w \in Workers, Abandon(w)
    PROVE  /\ loop' \in [Workers -> Loop]
           /\ \A v \in Workers \ {w} : loop'[v] = loop[v]
           /\ loop'[w].pc = "idle"
           /\ loop'[w].turn = NoTurn
<1>1. Idle \in Loop
  BY DeliveryAssumption DEF Idle, Loop, LoopPcs, Gens
<1> QED
  BY <1>1 DEF Abandon, Idle

\* Moving on to a label that appends nothing.
LEMMA GoToKeeps ==
    ASSUME TypeInv, NEW w \in Workers, NEW label \in LoopPcs \ {"append"},
           loop[w].pc # "idle", GoTo(w, label), StreamGrows
    PROVE  loop' \in [Workers -> Loop] /\ LoopOK'
<1>1. loop \in [Workers -> Loop]
  BY DEF TypeInv, TypeOK
<1>2. loop[w].turn \in Turns /\ loop[w].msg \in DOMAIN stream[loop[w].turn]
  BY DEF TypeInv, LoopOK
<1> QED
  BY <1>1, <1>2, GoToFields, LoopOKKept DEF StreamGrows

LEMMA AbandonKeeps ==
    ASSUME TypeInv, NEW w \in Workers, Abandon(w), StreamGrows
    PROVE  loop' \in [Workers -> Loop] /\ LoopOK'
<1>1. loop \in [Workers -> Loop]
  BY DEF TypeInv, TypeOK
<1> QED
  BY <1>1, AbandonFields, LoopOKKept, DeliveryAssumption

\* A step of one execution task.
LEMMA TaskTyped ==
    ASSUME TypeOK, NEW t \in Turns, NEW g \in Gens, NEW p \in TaskPcs,
           task' = [task EXCEPT ![t][g] = p]
    PROVE  task' \in [Turns -> [Gens -> TaskPcs]]
BY DEF TypeOK

LEMMA LateTyped ==
    ASSUME TypeOK, NEW t \in Turns, NEW g \in Gens, NEW calls \in SUBSET Writes,
           late' = [late EXCEPT ![t][g] = calls]
    PROVE  late' \in [Turns -> [Gens -> SUBSET Writes]]
BY DEF TypeOK

\* A turn's log after an append.
LEMMA AppendedTyped ==
    ASSUME TypeOK, NEW t \in Turns, NEW type \in EventTypes
    PROVE  Appended(t, type) \in [Turns -> Seq(Event)]
<1>1. log \in [Turns -> Seq(Event)] /\ gen[t] \in Gens
  BY DEF TypeOK
<1>2. [type |-> type, gen |-> gen[t]] \in Event
  BY <1>1 DEF Event
<1>3. Append(log[t], [type |-> type, gen |-> gen[t]]) \in Seq(Event)
  BY <1>1, <1>2
<1> QED
  BY <1>1, <1>3 DEF Appended

-----------------------------------------------------------------------------
(* Type correctness *)

LEMMA GatewayTypes ==
    ASSUME TypeInv, NEW t \in Turns, GatewayStep(t)
    PROVE  TypeInv'
<1> USE DEF TypeInv, TypeOK, rowVars, gatewayVars, redisVars, execVars
<1>0. ASSUME UNCHANGED <<stream, loop>> PROVE LoopOK'
  BY <1>0 DEF LoopOK
<1>1. CASE SubmitTurn(t)
  BY <1>0, <1>1 DEF SubmitTurn, Statuses, Active
<1>2. CASE EmitAccepted(t)
  <2>1. log' \in [Turns -> Seq(Event)]
    BY <1>2, AppendedTyped DEF EmitAccepted, EventTypes
  <2> QED
    BY <1>0, <1>2, <2>1 DEF EmitAccepted
<1>3. CASE CancelTurn(t)
  BY <1>0, <1>3 DEF CancelTurn
<1>4. CASE RequestCancellation(t)
  BY <1>0, <1>4 DEF RequestCancellation, Updated, Statuses, Final
<1>5. CASE CancelEnsures(t)
  BY <1>0, <1>5 DEF CancelEnsures
<1>6. CASE CancelAppends(t)
  <2>1. log' \in [Turns -> Seq(Event)]
    BY <1>6, AppendedTyped DEF CancelAppends, EventTypes, EndTypes
  <2> QED
    BY <1>0, <1>6, <2>1 DEF CancelAppends
<1>7. CASE CancelSignals(t)
  <2>1. faults' \in 0..MaxFaults
    BY <1>7, DeliveryAssumption DEF CancelSignals, Fault
  <2>2. cancelKey' \in [Turns -> BOOLEAN]
    BY <1>7 DEF CancelSignals
  <2> QED
    BY <1>0, <1>7, <2>1, <2>2 DEF CancelSignals
<1> QED
  BY <1>1, <1>2, <1>3, <1>4, <1>5, <1>6, <1>7 DEF GatewayStep

\* Steps of the loop that only move it to another label.
LEMMA LoopMoves ==
    ASSUME TypeInv, NEW w \in Workers,
           \/ CheckCancelKey(w) \/ CheckCancelKeyAgain(w) \/ ClaimNone(w)
           \/ ClaimForbidden(w) \/ ExecutionEnds(w) \/ Drain(w) \/ Ack(w)
    PROVE  TypeInv'
<1> USE DEF TypeInv, TypeOK, rowVars, gatewayVars, redisVars, execVars
<1>0. StreamGrows /\ stream' \in [Turns -> Seq(Delivery)]
  <2>1. CASE Ack(w)
    <3>1. stream' = [stream EXCEPT ![loop[w].turn][loop[w].msg] = "acked"]
      BY <2>1 DEF Ack
    <3>2. loop[w].turn \in Turns /\ loop[w].msg \in DOMAIN stream[loop[w].turn]
      BY <2>1 DEF Ack, LoopOK
    <3> QED
      BY <3>1, <3>2 DEF StreamGrows, Delivery
  <2>2. CASE ~Ack(w)
    <3>1. stream' = stream
      BY <2>2 DEF CheckCancelKey, CheckCancelKeyAgain, ClaimNone, ClaimForbidden, ExecutionEnds, Drain
    <3> QED
      BY <3>1 DEF StreamGrows
  <2> QED
    BY <2>1, <2>2
<1>1. loop[w].pc # "idle" /\ (Abandon(w) \/ \E label \in {"cpRead", "term", "claim", "ack"} : GoTo(w, label))
  BY DEF CheckCancelKey, CheckCancelKeyAgain, ClaimNone, ClaimForbidden, ExecutionEnds, Drain, Ack
<1>2. loop' \in [Workers -> Loop] /\ LoopOK'
  <2>1. CASE Abandon(w)
    BY <1>0, <2>1, AbandonKeeps
  <2>2. ASSUME NEW label \in {"cpRead", "term", "claim", "ack"}, GoTo(w, label)
        PROVE  loop' \in [Workers -> Loop] /\ LoopOK'
    <3>1. label \in LoopPcs \ {"append"}
      BY DEF LoopPcs
    <3> QED
      BY <1>0, <1>1, <2>2, <3>1, GoToKeeps
  <2> QED
    BY <1>1, <2>1, <2>2
<1>3. UNCHANGED <<rowVars, cancelReq, log, outbox, cancelKey, authorized, gatewayVars,
                  execVars, relayUp, faults>>
  BY DEF CheckCancelKey, CheckCancelKeyAgain, ClaimNone, ClaimForbidden, ExecutionEnds, Drain, Ack
<1> QED
  BY <1>0, <1>2, <1>3

\* The loop chooses what events to ensure.
LEMMA PlanFields ==
    ASSUME loop \in [Workers -> Loop], NEW w \in Workers, NEW label \in LoopPcs,
           NEW plan \in Seq(EndTypes),
           loop' = [loop EXCEPT ![w].pc = label, ![w].todo = plan]
    PROVE  /\ loop' \in [Workers -> Loop]
           /\ \A v \in Workers \ {w} : loop'[v] = loop[v]
           /\ loop'[w].pc = label
           /\ loop'[w].turn = loop[w].turn
           /\ loop'[w].msg = loop[w].msg
           /\ loop'[w].gen = loop[w].gen
           /\ loop'[w].todo = plan
<1>1. loop'[w] = [loop[w] EXCEPT !.pc = label, !.todo = plan]
  OBVIOUS
<1>2. loop'[w] \in Loop
  BY <1>1 DEF Loop
<1>3. loop' \in [Workers -> Loop] /\ \A v \in Workers \ {w} : loop'[v] = loop[v]
  BY <1>2
<1> QED
  BY <1>1, <1>3 DEF Loop

LEMMA PlanKeeps ==
    ASSUME TypeInv, NEW w \in Workers, NEW label \in LoopPcs \ {"append"},
           NEW plan \in Seq(EndTypes), loop[w].pc # "idle", StreamGrows,
           loop' = [loop EXCEPT ![w].pc = label, ![w].todo = plan]
    PROVE  loop' \in [Workers -> Loop] /\ LoopOK'
<1>1. loop \in [Workers -> Loop]
  BY DEF TypeInv, TypeOK
<1>2. loop[w].turn \in Turns /\ loop[w].msg \in DOMAIN stream[loop[w].turn]
  BY DEF TypeInv, LoopOK
<1> QED
  <2>1. /\ loop' \in [Workers -> Loop]
        /\ \A v \in Workers \ {w} : loop'[v] = loop[v]
        /\ loop'[w].pc = label /\ loop'[w].turn = loop[w].turn /\ loop'[w].msg = loop[w].msg
    BY <1>1, PlanFields
  <2> QED
    BY <1>2, <2>1, LoopOKKept DEF StreamGrows

\* The events a loop may plan to ensure.
LEMMA Plans ==
    /\ <<>> \in Seq(EndTypes) /\ <<"message", "completed">> \in Seq(EndTypes)
    /\ <<"failed">> \in Seq(EndTypes) /\ <<"cancelled">> \in Seq(EndTypes)
<1>1. "message" \in EndTypes /\ "completed" \in EndTypes /\ "failed" \in EndTypes
      /\ "cancelled" \in EndTypes
  BY DEF EndTypes
<1> QED
  BY <1>1

LEMMA CheckTerminalTypes ==
    ASSUME TypeInv, NEW w \in Workers, CheckTerminal(w)
    PROVE  TypeInv'
<1> DEFINE plan == Repairs(status[loop[w].turn])
           label == IF plan = <<>> THEN "key2" ELSE "ensure"
<1>1. plan \in Seq(EndTypes) /\ label \in LoopPcs \ {"append"}
  <2>1. plan \in Seq(EndTypes)
    BY Plans DEF Repairs
  <2>2. label \in {"key2", "ensure"}
    OBVIOUS
  <2> HIDE DEF label
  <2>3. label \in LoopPcs \ {"append"}
    BY <2>2 DEF LoopPcs
  <2> QED
    BY <2>1, <2>3
<1>2. loop[w].pc # "idle" /\ loop' = [loop EXCEPT ![w].pc = label, ![w].todo = plan]
  BY DEF CheckTerminal
<1>3. StreamGrows
  BY DEF CheckTerminal, redisVars, StreamGrows
<1> HIDE DEF plan, label
<1>4. loop' \in [Workers -> Loop] /\ LoopOK'
  BY <1>1, <1>2, <1>3, PlanKeeps
<1> QED
  BY <1>4 DEF CheckTerminal, TypeInv, TypeOK, rowVars, gatewayVars, redisVars, execVars

LEMMA CancelPendingTypes ==
    ASSUME TypeInv, NEW w \in Workers, CancelPending(w)
    PROVE  TypeInv'
<1> USE DEF TypeInv, TypeOK, rowVars, gatewayVars, redisVars, execVars
<1> DEFINE finished == status[loop[w].turn] \in {"completed", "failed"}
           label == IF finished THEN "ack" ELSE "ensure"
           plan == IF finished THEN <<>> ELSE <<"cancelled">>
<1>1. StreamGrows /\ loop[w].pc # "idle" /\ loop[w].turn \in Turns
  BY DEF CancelPending, StreamGrows, LoopOK
<1>2. loop' \in [Workers -> Loop] /\ LoopOK'
  <2>1. plan \in Seq(EndTypes)
    BY Plans
  <2>2. label \in LoopPcs \ {"append"}
    BY DEF LoopPcs
  <2>3. loop' = [loop EXCEPT ![w].pc = label, ![w].todo = plan]
    BY DEF CancelPending
  <2> HIDE DEF plan, label
  <2> QED
    BY <1>1, <2>1, <2>2, <2>3, PlanKeeps
<1>3. status' \in [Turns -> Statuses]
  BY <1>1 DEF CancelPending, Updated, Statuses, Final
<1> QED
  BY <1>2, <1>3 DEF CancelPending

LEMMA EnsureTypes ==
    ASSUME TypeInv, NEW w \in Workers, EnsureReads(w) \/ EnsureAppends(w)
    PROVE  TypeInv'
<1> USE DEF TypeInv, TypeOK, rowVars, gatewayVars, redisVars, execVars
<1> DEFINE l == loop[w]
<1>1. /\ StreamGrows /\ l.pc # "idle" /\ l.turn \in Turns
      /\ l.msg \in DOMAIN stream[l.turn]
      /\ l \in Loop /\ l.todo \in Seq(EndTypes)
  BY DEF EnsureReads, EnsureAppends, StreamGrows, LoopOK, Loop
<1>2. /\ loop' \in [Workers -> Loop] /\ LoopOK'
      /\ log' \in [Turns -> Seq(Event)]
  <2>1. CASE EnsureReads(w)
    <3>1. CASE l.todo = <<>>
      <4>1. GoTo(w, "ack") /\ "ack" \in LoopPcs \ {"append"}
        BY <2>1, <3>1 DEF EnsureReads, LoopPcs
      <4> QED
        BY <1>1, <2>1, <4>1, GoToKeeps DEF EnsureReads
    <3>2. CASE l.todo # <<>> /\ Logged(l.turn, Head(l.todo))
      <4>1. loop' = [loop EXCEPT ![w].todo = Tail(@)] /\ l.pc = "ensure"
        BY <2>1, <3>2 DEF EnsureReads
      <4>2. /\ loop' \in [Workers -> Loop]
            /\ \A v \in Workers \ {w} : loop'[v] = loop[v]
            /\ loop'[w].pc = "ensure" /\ loop'[w].turn = l.turn /\ loop'[w].msg = l.msg
        <5>1. Tail(l.todo) \in Seq(EndTypes)
          BY <1>1, <3>2
        <5>2. loop'[w] = [l EXCEPT !.todo = Tail(l.todo)]
          BY <4>1
        <5>3. loop'[w] \in Loop
          BY <1>1, <5>1, <5>2 DEF Loop
        <5>4. loop'[w].pc = "ensure" /\ loop'[w].turn = l.turn /\ loop'[w].msg = l.msg
          BY <1>1, <4>1, <5>2 DEF Loop
        <5> QED
          BY <4>1, <5>3, <5>4
      <4> QED
        BY <1>1, <2>1, <4>2, LoopOKKept DEF EnsureReads, StreamGrows
    <3>3. CASE l.todo # <<>> /\ ~Logged(l.turn, Head(l.todo))
      <4>1. GoTo(w, "append") /\ "append" \in LoopPcs
        BY <2>1, <3>3 DEF EnsureReads, LoopPcs
      <4> QED
        BY <1>1, <2>1, <3>3, <4>1, GoToFields, LoopOKKept DEF EnsureReads, StreamGrows
    <3> QED
      BY <3>1, <3>2, <3>3
  <2>2. CASE EnsureAppends(w)
    <3>1. l.todo # <<>> /\ Head(l.todo) \in EndTypes /\ Tail(l.todo) \in Seq(EndTypes)
      BY <1>1, <2>2 DEF EnsureAppends, LoopOK
    <3>2. log' = Appended(l.turn, Head(l.todo))
      BY <2>2 DEF EnsureAppends
    <3>3. log' \in [Turns -> Seq(Event)]
      BY <1>1, <3>1, <3>2, AppendedTyped DEF EventTypes
    <3>4. /\ loop' = [loop EXCEPT ![w].pc = "ensure", ![w].todo = Tail(l.todo)]
          /\ "ensure" \in LoopPcs \ {"append"}
      BY <2>2 DEF EnsureAppends, LoopPcs
    <3> QED
      BY <1>1, <3>1, <3>3, <3>4, PlanKeeps
  <2> QED
    BY <2>1, <2>2
<1> QED
  BY <1>2 DEF EnsureReads, EnsureAppends

LEMMA ClaimFields ==
    ASSUME loop \in [Workers -> Loop], NEW w \in Workers, NEW label \in LoopPcs,
           NEW g \in Gens, loop' = [loop EXCEPT ![w].pc = label, ![w].gen = g]
    PROVE  /\ loop' \in [Workers -> Loop]
           /\ \A v \in Workers \ {w} : loop'[v] = loop[v]
           /\ loop'[w].pc = label
           /\ loop'[w].turn = loop[w].turn
           /\ loop'[w].msg = loop[w].msg
           /\ loop'[w].gen = g
           /\ loop'[w].todo = loop[w].todo
<1>1. loop'[w] = [loop[w] EXCEPT !.pc = label, !.gen = g]
  OBVIOUS
<1>2. loop'[w] \in Loop
  BY <1>1 DEF Loop
<1>3. loop' \in [Workers -> Loop] /\ \A v \in Workers \ {w} : loop'[v] = loop[v]
  BY <1>2
<1> QED
  BY <1>1, <1>3 DEF Loop

LEMMA ClaimTypes ==
    ASSUME TypeInv, NEW w \in Workers, ClaimCancelled(w) \/ ClaimTurn(w)
    PROVE  TypeInv'
<1> USE DEF TypeInv, TypeOK, rowVars, gatewayVars, redisVars, execVars
<1> DEFINE t == loop[w].turn
<1>1. StreamGrows /\ loop[w].pc # "idle" /\ t \in Turns /\ loop[w].msg \in DOMAIN stream[t]
  BY DEF ClaimCancelled, ClaimTurn, ClaimRow, StreamGrows, LoopOK
<1>2. CASE ClaimCancelled(w)
  <2>1. "cpRead" \in LoopPcs \ {"append"} /\ GoTo(w, "cpRead")
    BY <1>2 DEF LoopPcs, ClaimCancelled
  <2>2. loop' \in [Workers -> Loop] /\ LoopOK'
    BY <1>1, <2>1, GoToKeeps
  <2>3. status' \in [Turns -> Statuses]
    BY <1>1, <1>2 DEF ClaimCancelled, Updated, Statuses, Final
  <2>4. /\ owner' \in [Turns -> Workers \union {NoWorker}]
        /\ lease' \in [Turns -> {"none", "live", "expired"}]
    BY <1>1, <1>2 DEF ClaimCancelled
  <2> QED
    BY <1>2, <2>2, <2>3, <2>4 DEF ClaimCancelled
<1>3. CASE ClaimTurn(w)
  <2> DEFINE g == gen[t] + 1
  <2>1. g \in Gens
    BY <1>1, <1>3, DeliveryAssumption DEF ClaimTurn, ClaimRow, Gens
  <2>2. /\ status' \in [Turns -> Statuses]
        /\ gen' \in [Turns -> Gens]
        /\ owner' \in [Turns -> Workers \union {NoWorker}]
        /\ lease' \in [Turns -> {"none", "live", "expired"}]
    BY <1>1, <1>3, <2>1 DEF ClaimTurn, ClaimRow, Statuses, Active
  <2>3. /\ loop' \in [Workers -> Loop]
        /\ \A v \in Workers \ {w} : loop'[v] = loop[v]
        /\ loop'[w].pc = "wait" /\ loop'[w].turn = t /\ loop'[w].msg = loop[w].msg
    <3>1. loop' = [loop EXCEPT ![w].pc = "wait", ![w].gen = g] /\ "wait" \in LoopPcs
      BY <1>3 DEF ClaimTurn, ClaimRow, LoopPcs
    <3> HIDE DEF g
    <3> QED
      BY <2>1, <3>1, ClaimFields
  <2>4. LoopOK'
    BY <1>1, <2>3, LoopOKKept DEF StreamGrows
  <2>5. task' \in [Turns -> [Gens -> TaskPcs]]
    BY <1>1, <1>3, <2>1 DEF ClaimTurn, ClaimRow, TaskPcs, Writes
  <2>6. runner' \in [Turns -> [Gens -> Workers \union {NoWorker}]]
    BY <1>1, <1>3, <2>1 DEF ClaimTurn, ClaimRow
  <2> QED
    BY <1>3, <2>2, <2>3, <2>4, <2>5, <2>6 DEF ClaimTurn, ClaimRow
<1> QED
  BY <1>2, <1>3

LEMMA CancelExecutionTypes ==
    ASSUME TypeInv, NEW w \in Workers, CancelExecution(w)
    PROVE  TypeInv'
<1> USE DEF TypeInv, TypeOK, rowVars, gatewayVars, redisVars, execVars
<1> DEFINE l == loop[w]
           p == task[l.turn][l.gen]
<1>1. StreamGrows /\ l.pc # "idle" /\ l.turn \in Turns /\ l.gen \in Gens
  BY DEF CancelExecution, StreamGrows, LoopOK, Loop
<1>2. Cancelled(p) \in TaskPcs
  BY <1>1 DEF Cancelled, TaskPcs, Writes
<1>3. task' \in [Turns -> [Gens -> TaskPcs]]
  BY <1>1, <1>2 DEF CancelExecution
<1>4. late' \in [Turns -> [Gens -> SUBSET Writes]]
  <2>1. PICK call \in SUBSET ({p} \intersect (Writes \ {"run"})) :
          late' = [late EXCEPT ![l.turn][l.gen] = @ \union call]
    BY DEF CancelExecution
  <2>2. late[l.turn][l.gen] \union call \in SUBSET Writes
    BY <1>1, <2>1
  <2> QED
    BY <1>1, <2>1, <2>2
<1>5. loop' \in [Workers -> Loop] /\ LoopOK'
  <2>1. "drain" \in LoopPcs \ {"append"}
    BY DEF LoopPcs
  <2> QED
    BY <1>1, <2>1, AbandonKeeps, GoToKeeps DEF CancelExecution
<1> QED
  BY <1>3, <1>4, <1>5 DEF CancelExecution

LEMMA LoopTypes ==
    ASSUME TypeInv, NEW w \in Workers, LoopStep(w)
    PROVE  TypeInv'
BY LoopMoves, CheckTerminalTypes, CancelPendingTypes, EnsureTypes, ClaimTypes,
   CancelExecutionTypes DEF LoopStep

\* Taking a delivery.
LEMMA TakeFields ==
    ASSUME loop \in [Workers -> Loop], stream \in [Turns -> Seq(Delivery)],
           NEW w \in Workers, NEW t \in Turns, NEW i \in DOMAIN stream[t], Take(w, t, i)
    PROVE  /\ stream' \in [Turns -> Seq(Delivery)]
           /\ \A u \in Turns : DOMAIN stream'[u] = DOMAIN stream[u]
           /\ loop' \in [Workers -> Loop]
           /\ \A v \in Workers \ {w} : loop'[v] = loop[v]
           /\ loop'[w].pc = "key" /\ loop'[w].turn = t /\ loop'[w].msg = i
<1>1. stream' = [stream EXCEPT ![t][i] = "pending"] /\ "pending" \in Delivery
  BY DEF Take, Delivery
<1>2. stream' \in [Turns -> Seq(Delivery)] /\ \A u \in Turns : DOMAIN stream'[u] = DOMAIN stream[u]
  BY <1>1
<1> DEFINE r == [Idle EXCEPT !.pc = "key", !.turn = t, !.msg = i]
<1>3. /\ r.pc = "key" /\ r.turn = t /\ r.msg = i
      /\ r \in [pc : {"key"}, turn : {t}, msg : {i}, gen : {0}, todo : {<<>>}]
  BY DEF Idle
<1>4. i \in Nat /\ 0 \in Gens /\ "key" \in LoopPcs /\ <<>> \in Seq(EndTypes)
  BY DeliveryAssumption DEF Gens, LoopPcs
<1> HIDE DEF r
<1>5. r \in Loop
  BY <1>3, <1>4 DEF Loop
<1>6. loop' = [loop EXCEPT ![w] = r]
  BY DEF Take, r
<1> QED
  BY <1>2, <1>3, <1>5, <1>6

LEMMA TakeTypes ==
    ASSUME TypeInv, NEW w \in Workers, Receive(w) \/ Reclaim(w) \/ ReclaimBusy(w)
    PROVE  TypeInv'
<1> USE DEF TypeInv, TypeOK, rowVars, gatewayVars, redisVars, execVars
<1>1. PICK t \in Turns : \E i \in DOMAIN stream[t] : Take(w, t, i)
  BY DEF Receive, Reclaim, ReclaimBusy
<1>2. PICK i \in DOMAIN stream[t] : Take(w, t, i)
  BY <1>1
<1>3. /\ stream' \in [Turns -> Seq(Delivery)]
      /\ \A u \in Turns : DOMAIN stream'[u] = DOMAIN stream[u]
      /\ loop' \in [Workers -> Loop]
      /\ \A v \in Workers \ {w} : loop'[v] = loop[v]
      /\ loop'[w].pc = "key" /\ loop'[w].turn = t /\ loop'[w].msg = i
  BY <1>2, TakeFields
<1>4. LoopOK'
  <2>1. StreamGrows
    BY <1>3 DEF StreamGrows
  <2> QED
    BY <1>3, <2>1, LoopOKKept
<1>5. faults' \in 0..MaxFaults
  BY DeliveryAssumption DEF Receive, Reclaim, ReclaimBusy, Fault
<1> QED
  BY <1>3, <1>4, <1>5 DEF Receive, Reclaim, ReclaimBusy

\* Cancellation and failure of a loop from outside its own control flow.
LEMMA InterruptTypes ==
    ASSUME TypeInv, NEW w \in Workers,
           LeaseHeartbeat(w) \/ HeartbeatFails(w) \/ CancelActive(w) \/ IterationFails(w)
    PROVE  TypeInv'
<1> USE DEF TypeInv, TypeOK, rowVars, gatewayVars, redisVars, execVars
<1>1. StreamGrows /\ loop[w].pc # "idle" /\ loop[w].turn \in Turns
  BY DEF LeaseHeartbeat, HeartbeatFails, CancelActive, IterationFails, StreamGrows, LoopOK
<1>2. \/ Abandon(w) \/ GoTo(w, "kill") \/ GoTo(w, "killCancel") \/ loop' = loop
  BY DEF LeaseHeartbeat, HeartbeatFails, CancelActive, IterationFails
<1>3. loop' \in [Workers -> Loop] /\ LoopOK'
  <2>1. "kill" \in LoopPcs \ {"append"} /\ "killCancel" \in LoopPcs \ {"append"}
    BY DEF LoopPcs
  <2>2. CASE loop' = loop
    BY <1>1, <2>2 DEF LoopOK, StreamGrows
  <2> QED
    BY <1>1, <1>2, <2>1, <2>2, AbandonKeeps, GoToKeeps
<1>4. faults' \in 0..MaxFaults
  BY DeliveryAssumption DEF LeaseHeartbeat, HeartbeatFails, CancelActive, IterationFails, Fault
<1>5. status' \in [Turns -> Statuses]
  BY <1>1 DEF LeaseHeartbeat, HeartbeatFails, CancelActive, IterationFails, Statuses, Final
<1>6. /\ owner' \in [Turns -> Workers \union {NoWorker}]
      /\ lease' \in [Turns -> {"none", "live", "expired"}]
  BY <1>1 DEF LeaseHeartbeat, HeartbeatFails, CancelActive, IterationFails
<1> QED
  BY <1>3, <1>4, <1>5, <1>6 DEF LeaseHeartbeat, HeartbeatFails, CancelActive, IterationFails

\* A relay pass, committed or rolled back, only lengthens the streams.
LEMMA RelayTypes ==
    ASSUME TypeInv, NEW w \in Workers, RelayPass(w) \/ RelayFails(w)
    PROVE  TypeInv'
<1> USE DEF TypeInv, TypeOK, rowVars, gatewayVars, redisVars, execVars
<1>1. stream' \in [Turns -> Seq(Delivery)] /\ StreamGrows
  <2>1. PICK sent \in SUBSET Turns :
          stream' = [t \in Turns |-> IF t \in sent THEN Published(t) ELSE stream[t]]
    <3>1. CASE RelayPass(w)
      <4>1. stream' = [t \in Turns |-> IF t \in Turns THEN Published(t) ELSE stream[t]]
        BY <3>1 DEF RelayPass
      <4> QED
        BY <4>1
    <3>2. CASE RelayFails(w)
      BY <3>2 DEF RelayFails
    <3> QED
      BY <3>1, <3>2
  <2>2. ASSUME NEW t \in Turns
        PROVE  stream'[t] \in Seq(Delivery) /\ DOMAIN stream[t] \subseteq DOMAIN stream'[t]
    <3>1. stream'[t] = Published(t) \/ stream'[t] = stream[t]
      BY <2>1
    <3> QED
      BY <3>1, PublishedExtends
  <2>3. stream' = [t \in Turns |-> stream'[t]]
    BY <2>1
  <2> QED
    BY <2>2, <2>3 DEF StreamGrows
<1>2. loop' = loop /\ LoopOK'
  BY <1>1 DEF RelayPass, RelayFails, LoopOK, StreamGrows
<1>3. faults' \in 0..MaxFaults /\ relayUp' \in [Workers -> BOOLEAN]
  <2>1. faults' \in 0..MaxFaults
    <3>1. faults' = faults \/ Fault("relay")
      BY DEF RelayPass, RelayFails
    <3> QED
      BY <3>1, DeliveryAssumption DEF Fault
  <2>2. relayUp' = relayUp \/ relayUp' = [relayUp EXCEPT ![w] = FALSE]
    BY DEF RelayPass, RelayFails
  <2>3. relayUp' \in [Workers -> BOOLEAN]
    BY <2>2
  <2> QED
    BY <2>1, <2>3
<1>4. CASE RelayFails(w)
  BY <1>1, <1>2, <1>3, <1>4 DEF RelayFails
<1>5. CASE RelayPass(w)
  <2>1. \A t \in Turns : Retried(t) => gen[t] + 1 \in Gens
    BY DeliveryAssumption DEF Retried, Gens
  <2>2. gen' \in [Turns -> Gens]
    BY <1>5, <2>1 DEF RelayPass
  <2>3. status' \in [Turns -> Statuses]
    BY <1>5 DEF RelayPass, Statuses, Active, Final
  <2>4. /\ owner' \in [Turns -> Workers \union {NoWorker}]
        /\ lease' \in [Turns -> {"none", "live", "expired"}]
        /\ outbox' \in [Turns -> Nat]
    BY <1>5 DEF RelayPass
  <2>5. log' \in [Turns -> Seq(Event)]
    <3>1. ASSUME NEW t \in Turns, Retried(t)
          PROVE  Append(log[t], [type |-> "handover", gen |-> gen[t] + 1]) \in Seq(Event)
      <4>1. [type |-> "handover", gen |-> gen[t] + 1] \in Event
        BY <2>1, <3>1 DEF Event, EventTypes
      <4> QED
        BY <4>1
    <3> QED
      BY <1>5, <3>1 DEF RelayPass
  <2> QED
    BY <1>1, <1>2, <1>3, <1>5, <2>2, <2>3, <2>4, <2>5 DEF RelayPass
<1> QED
  BY <1>4, <1>5

\* The MySQL side of a repository call keeps the row and the log well typed.
LEMMA FencedWriteTyped ==
    ASSUME TypeOK, NEW t \in Turns, NEW g \in Gens, NEW write \in Writes, FencedWrite(t, g, write)
    PROVE  status' \in [Turns -> Statuses] /\ log' \in [Turns -> Seq(Event)]
<1>1. status' \in [Turns -> Statuses]
  <2>1. write \in DOMAIN Target => Target[write] \in Statuses
    BY DEF Target, Statuses, Active, Final
  <2>2. status \in [Turns -> Statuses]
    BY DEF TypeOK
  <2> QED
    BY <2>1, <2>2 DEF FencedWrite, Updated
<1>2. log' \in [Turns -> Seq(Event)]
  <2>1. write \in DOMAIN Emits => Emits[write] \in EventTypes
    BY DEF Emits, EventTypes, EndTypes
  <2>2. log \in [Turns -> Seq(Event)]
    BY DEF TypeOK
  <2> QED
    BY <2>1, <2>2, AppendedTyped DEF FencedWrite
<1> QED
  BY <1>1, <1>2

LEMMA AfterTyped ==
    ASSUME NEW t \in Turns, NEW p \in Writes, NEW s
    PROVE  After(t, p, s) \in TaskPcs
BY DEF After, TerminalStep, TaskPcs, Writes

LEMMA ExecTypes ==
    ASSUME TypeInv, NEW t \in Turns, NEW g \in Gens,
           ExecStep(t, g) \/ DeadlineInWrite(t, g) \/ ExecWriteFails(t, g)
    PROVE  TypeInv'
<1> USE DEF TypeInv, TypeOK, rowVars, gatewayVars, redisVars, execVars
<1>0. LoopOK'
  BY DEF LoopOK, ExecStep, ExecWrite, EngineReturns, LateWrite, DeadlineInWrite, ExecWriteFails
<1>1. CASE ExecWrite(t, g)
  <2> DEFINE p == task[t][g]
             next == IF Passes(t, g, p) THEN After(t, p, status'[t]) ELSE Raised(p)
  <2>1. p \in Writes /\ FencedWrite(t, g, p) /\ task' = [task EXCEPT ![t][g] = next]
    BY <1>1 DEF ExecWrite
  <2>2. Raised(p) \in TaskPcs
    BY DEF Raised, TaskPcs, Writes
  <2>3. next \in TaskPcs
    BY <2>1, <2>2, AfterTyped
  <2> HIDE DEF next
  <2>4. task' \in [Turns -> [Gens -> TaskPcs]]
    BY <2>1, <2>3
  <2>5. status' \in [Turns -> Statuses] /\ log' \in [Turns -> Seq(Event)]
    BY <2>1, FencedWriteTyped
  <2> QED
    BY <1>0, <1>1, <2>4, <2>5 DEF ExecWrite
<1>2. CASE EngineReturns(t, g)
  <2>1. task' \in [Turns -> [Gens -> TaskPcs]]
    BY <1>2 DEF EngineReturns, TaskPcs, Writes
  <2> QED
    BY <1>0, <1>2, <2>1 DEF EngineReturns
<1>3. CASE LateWrite(t, g)
  <2>1. PICK write \in late[t][g] :
          /\ FencedWrite(t, g, write)
          /\ late' = [late EXCEPT ![t][g] =
                IF write = "ensureCancelled" /\ ~Logged(t, "cancelled")
                THEN (@ \ {write}) \union {"appendCancelled"} ELSE @ \ {write}]
    BY <1>3 DEF LateWrite
  <2>2. write \in Writes /\ late[t][g] \in SUBSET Writes /\ "appendCancelled" \in Writes
    BY <2>1 DEF Writes
  <2>3. late' \in [Turns -> [Gens -> SUBSET Writes]]
    BY <2>1, <2>2
  <2>4. status' \in [Turns -> Statuses] /\ log' \in [Turns -> Seq(Event)]
    BY <2>1, <2>2, FencedWriteTyped
  <2> QED
    BY <1>0, <1>3, <2>3, <2>4 DEF LateWrite
<1>4. CASE DeadlineInWrite(t, g)
  <2>1. faults' \in 0..MaxFaults
    BY <1>4, DeliveryAssumption DEF DeadlineInWrite, Fault
  <2>2. task' \in [Turns -> [Gens -> TaskPcs]]
    BY <1>4 DEF DeadlineInWrite, TaskPcs, Writes
  <2>3. late' \in [Turns -> [Gens -> SUBSET Writes]]
    <3>1. late[t][g] \union {"complete"} \in SUBSET Writes
      BY DEF Writes
    <3> QED
      BY <1>4, <3>1 DEF DeadlineInWrite
  <2> QED
    BY <1>0, <1>4, <2>1, <2>2, <2>3 DEF DeadlineInWrite
<1>5. CASE ExecWriteFails(t, g)
  <2>1. faults' \in 0..MaxFaults
    BY <1>5, DeliveryAssumption DEF ExecWriteFails, Fault
  <2>2. task' \in [Turns -> [Gens -> TaskPcs]]
    BY <1>5 DEF ExecWriteFails, Raised, TaskPcs, Writes
  <2> QED
    BY <1>0, <1>5, <2>1, <2>2 DEF ExecWriteFails
<1> QED
  BY <1>1, <1>2, <1>3, <1>4, <1>5 DEF ExecStep

LEMMA EnvironmentTypes ==
    ASSUME TypeInv,
           \/ GatewayCrash
           \/ \E w \in Workers : WorkerCrash(w)
           \/ \E t \in Turns : LeaseExpires(t) \/ RevokeAuthorization(t)
           \/ UNCHANGED vars
    PROVE  TypeInv'
<1> USE DEF TypeInv, TypeOK, rowVars, gatewayVars, redisVars, execVars
<1>0. ASSUME UNCHANGED <<stream, loop>> PROVE LoopOK'
  BY <1>0 DEF LoopOK
<1>1. CASE GatewayCrash
  <2>1. faults' \in 0..MaxFaults
    BY <1>1, DeliveryAssumption DEF GatewayCrash, Fault
  <2>2. /\ submitPc' \in [Turns -> {"none", "emit", "done"}]
        /\ cancelPc' \in [Turns -> {"none", "request", "ensure", "append", "signal", "done"}]
    BY <1>1 DEF GatewayCrash
  <2> QED
    BY <1>0, <1>1, <2>1, <2>2 DEF GatewayCrash
<1>2. ASSUME NEW w \in Workers, WorkerCrash(w) PROVE TypeInv'
  <2>1. faults' \in 0..MaxFaults
    BY <1>2, DeliveryAssumption DEF WorkerCrash, Fault
  <2>2. loop' \in [Workers -> Loop] /\ LoopOK'
    BY <1>2, AbandonKeeps DEF WorkerCrash, Abandon, StreamGrows
  <2>3. task' \in [Turns -> [Gens -> TaskPcs]]
    BY <1>2 DEF WorkerCrash, TaskPcs
  <2>4. late' \in [Turns -> [Gens -> SUBSET Writes]]
    BY <1>2 DEF WorkerCrash
  <2> QED
    BY <1>2, <2>1, <2>2, <2>3, <2>4 DEF WorkerCrash
<1>3. ASSUME NEW t \in Turns, LeaseExpires(t) PROVE TypeInv'
  <2>1. faults' \in 0..MaxFaults
    BY <1>3, DeliveryAssumption DEF LeaseExpires, Fault
  <2> QED
    BY <1>0, <1>3, <2>1 DEF LeaseExpires
<1>4. ASSUME NEW t \in Turns, RevokeAuthorization(t) PROVE TypeInv'
  <2>1. faults' \in 0..MaxFaults
    BY <1>4, DeliveryAssumption DEF RevokeAuthorization, Fault
  <2> QED
    BY <1>0, <1>4, <2>1 DEF RevokeAuthorization
<1>5. CASE UNCHANGED vars
  BY <1>0, <1>5 DEF vars
<1> QED
  BY <1>1, <1>2, <1>3, <1>4, <1>5

\* TypeInv is inductive.
LEMMA InitTypes == Init => TypeInv
<1> SUFFICES ASSUME Init PROVE TypeInv
  OBVIOUS
<1>1. Idle \in Loop
  BY DeliveryAssumption DEF Idle, Loop, LoopPcs, Gens
<1>2. 0 \in Gens /\ 0 \in 0..MaxFaults
  BY DeliveryAssumption DEF Gens
<1>3. TypeOK
  BY <1>1, <1>2 DEF Init, TypeOK, Statuses, TaskPcs
<1>4. LoopOK
  BY DeliveryAssumption DEF Init, LoopOK, Idle
<1> QED
  BY <1>3, <1>4 DEF TypeInv

LEMMA NextTypes == TypeInv /\ [Next]_vars => TypeInv'
BY GatewayTypes, LoopTypes, TakeTypes, InterruptTypes, RelayTypes, ExecTypes, EnvironmentTypes
   DEF Next, FaultStep, Finished

\* Every variable of the model keeps its type in every reachable state, and no
\* consumer loop ever loses track of the delivery it handles.
THEOREM TypeInvariant == Spec => []TypeOK
<1>1. TypeInv => TypeOK
  BY DEF TypeInv
<1> QED
  BY <1>1, InitTypes, NextTypes, PTL DEF Spec

=============================================================================

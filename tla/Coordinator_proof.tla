------------------------- MODULE Coordinator_proof --------------------------
(***************************************************************************)
(* Proofs about Coordinator, for any number of workers and turns, any      *)
(* queue size, slot limit, retry limit and wait modes.                     *)
(***************************************************************************)
EXTENDS Coordinator, FiniteSetTheorems, TLAPS

\* TypeOK without the capacity of the queue, which needs cardinalities.
Types ==
    /\ status \in [Workers -> Lifecycle]
    /\ active \subseteq Workers /\ consumed \subseteq Workers /\ holds \subseteq Workers
    /\ running \in Int
    /\ parent \in [Workers -> Turns \cup {None}]
    /\ wrapper \in [Workers -> {"none", "waiting", "attempt", "ended", "backoff", "publish",
                                "overflow", "done", "lost"}]
    /\ attempt \in [Workers -> 0 .. MaxAttempts]
    /\ outcome \in [Workers -> {"none", "completed", "failed", "retry", "timed_out"}]
    /\ cancelled \subseteq Workers
    /\ queue \subseteq Workers /\ overflow \subseteq Workers /\ deferred \subseteq Workers
    /\ notify \in BOOLEAN
    /\ turn \in [Turns -> {"new", "injected", "waiting", "running", "done", "failed",
                           "cancelled"}]
    /\ foreground \in BOOLEAN
    /\ resume \in {"none", "waiting", "running"}
    /\ run \in [kind : {"none", "foreground", "resume"}, pc : {"none", "invoke", "barrier"},
                turn : Turns \cup {None}, plan : SUBSET Workers,
                collected : SUBSET Workers, batch : SUBSET Workers]
    /\ stopping \subseteq Turns
    /\ given \in [Workers -> [Turns -> Nat]]
    /\ failures \in 0 .. MaxFailures

\* What the runs of the coordinator and the tasks of the workers look like:
\* a run that invokes or waits works for a turn, a spawned worker has one.
Shape ==
    /\ run.pc # "none" => run.turn \in Turns
    /\ \A w \in Workers :
          /\ wrapper[w] # "none" => parent[w] \in Turns /\ status[w] # "none"
          /\ wrapper[w] = "ended" => outcome[w] # "none"
          /\ wrapper[w] \in {"attempt", "ended"} => attempt[w] # 0
          /\ wrapper[w] = "backoff" => attempt[w] < MaxAttempts
    /\ queue \cup overflow \cup deferred \cup run.batch \subseteq
           {w \in Workers : wrapper[w] = "done"}

USE CoordinatorAssumption DEF Lifecycle, Terminal

LEMMA TypesInit == Init => Types /\ Shape
<1> SUFFICES ASSUME Init PROVE Types /\ Shape
  OBVIOUS
<1>1. run \in [kind : {"none", "foreground", "resume"}, pc : {"none", "invoke", "barrier"},
              turn : Turns \cup {None}, plan : SUBSET Workers,
              collected : SUBSET Workers, batch : SUBSET Workers]
  BY DEF Init, Idle
<1>2. /\ attempt \in [Workers -> 0 .. MaxAttempts]
      /\ given \in [Workers -> [Turns -> Nat]]
      /\ failures \in 0 .. MaxFailures
  BY DEF Init
<1>3. notify \in BOOLEAN /\ foreground \in BOOLEAN
  BY Zenon DEF Init
<1>4. /\ status \in [Workers -> Lifecycle]
      /\ parent \in [Workers -> Turns \cup {None}]
      /\ outcome \in [Workers -> {"none", "completed", "failed", "retry", "timed_out"}]
      /\ turn \in [Turns -> {"new", "injected", "waiting", "running", "done", "failed",
                              "cancelled"}]
      /\ resume \in {"none", "waiting", "running"}
      /\ wrapper \in [Workers -> {"none", "waiting", "attempt", "ended", "backoff",
                                  "publish", "overflow", "done", "lost"}]
  BY DEF Init
<1>5. /\ active \subseteq Workers /\ consumed \subseteq Workers /\ holds \subseteq Workers
      /\ running \in Int /\ cancelled \subseteq Workers /\ stopping \subseteq Turns
      /\ queue \subseteq Workers /\ overflow \subseteq Workers /\ deferred \subseteq Workers
  BY DEF Init
<1>6. Types
  BY <1>1, <1>2, <1>3, <1>4, <1>5, Zenon DEF Types
<1>7. Shape
  BY DEF Init, Shape, Idle
<1>8. QED
  BY <1>6, <1>7

LEMMA FinishTypes ==
    ASSUME Types, Shape, NEW w \in Workers, NEW final \in Terminal, Finish(w, final),
           wrapper[w] # "done", wrapper[w] # "none"
    PROVE  Types' /\ Shape'
<1>1. CASE Allowed(status[w], final)
  <2>0. /\ status' = [status EXCEPT ![w] = final]
        /\ active' = active \ {w}
        /\ wrapper' = [wrapper EXCEPT ![w] = "publish"]
        /\ outcome' = [outcome EXCEPT ![w] = "none"]
    BY <1>1 DEF Finish
  <2>1. Types'
    <3>1. status' \in [Workers -> Lifecycle]
      BY <2>0 DEF Types
    <3>2. /\ holds' \subseteq Workers /\ running' \in Int /\ cancelled' \subseteq Workers
          /\ attempt' \in [Workers -> 0 .. MaxAttempts]
      BY DEF Types, Finish
    <3>3. QED
      BY <2>0, <3>1, <3>2 DEF Types, Finish, bus
  <2>2. Shape'
    BY <1>1 DEF Types, Shape, Finish, bus
  <2>3. QED
    BY <2>1, <2>2
<1>2. CASE ~Allowed(status[w], final)
  BY <1>2 DEF Types, Shape, Finish, bus
<1>3. QED
  BY <1>1, <1>2

LEMMA WrapperTypes ==
    ASSUME Types, Shape, NEW w \in Workers, WrapperStep(w)
    PROVE  Types' /\ Shape'
<1>1. CASE Acquire(w)
  BY <1>1 DEF Types, Shape, Acquire, bus
<1>2. CASE AttemptEnds(w)
  BY <1>2 DEF Types, Shape, AttemptEnds, bus, tasks
<1>3. CASE Cancelled(w)
  BY <1>3, FinishTypes DEF Cancelled
<1>4. CASE AttemptReturns(w)
  <2>1. (IF outcome[w] = "retry" THEN "failed" ELSE outcome[w]) \in Terminal
    BY <1>4 DEF Types, Shape, AttemptReturns
  <2>2. QED
    BY <1>4, <2>1, FinishTypes DEF AttemptReturns
<1>5. CASE BackOff(w)
  BY <1>5 DEF Types, Shape, BackOff, bus
<1>6. CASE Retry(w)
  BY <1>6 DEF Types, Shape, Retry, bus
<1>7. CASE Publish(w)
  BY <1>7 DEF Types, Shape, Publish, tasks
<1>8. CASE PublishTimesOut(w)
  BY <1>8 DEF Types, Shape, PublishTimesOut, bus, tasks
<1>9. CASE Overflow(w)
  BY <1>9 DEF Types, Shape, Overflow, tasks
<1>10. QED
  BY <1>1, <1>2, <1>3, <1>4, <1>5, <1>6, <1>7, <1>8, <1>9 DEF WrapperStep

RunRecord == [kind : {"none", "foreground", "resume"}, pc : {"none", "invoke", "barrier"},
              turn : Turns \cup {None}, plan : SUBSET Workers,
              collected : SUBSET Workers, batch : SUBSET Workers]

LEMMA IdleType == Idle \in RunRecord /\ Idle.pc = "none" /\ Idle.batch = {}
                  /\ Idle.kind = "none" /\ Idle.collected = {}
BY DEF Idle, RunRecord

LEMMA GiveType ==
    ASSUME Types, NEW S \in SUBSET Workers, NEW t \in Turns, Give(S, t)
    PROVE  given' \in [Workers -> [Turns -> Nat]]
BY DEF Types, Give

LEMMA StopAllType ==
    ASSUME Types, NEW S \in SUBSET Workers, StopAll(S)
    PROVE  /\ status' \in [Workers -> Lifecycle] /\ cancelled' \subseteq Workers
           /\ \A w \in Workers : status'[w] = "none" => status[w] = "none"
BY DEF Types, StopAll

LEMMA EndForegroundType ==
    ASSUME Types, NEW t \in Turns, NEW end \in {"done", "failed", "cancelled"},
           EndForeground(t, end)
    PROVE  /\ turn' \in [Turns -> {"new", "injected", "waiting", "running", "done", "failed",
                                   "cancelled"}]
           /\ foreground' \in BOOLEAN
           /\ resume' \in {"none", "waiting", "running"}
           /\ run' = Idle
BY DEF Types, EndForeground

\* The next step of the resume loop invokes the coordinator for one turn of
\* what is left or was drained, or ends the resume.
LEMMA ResumeLoopCases ==
    ASSUME Types, NEW rest, ResumeLoop(rest)
    PROVE  LET batch == IF rest = {} THEN Bus ELSE rest
           IN  /\ rest = {} => queue' = {} /\ overflow' = {} /\ deferred' = {}
               /\ rest # {} => UNCHANGED bus
               /\ batch = {} => run' = Idle /\ resume' = "none" /\ UNCHANGED given
               /\ batch # {} =>
                     \E t \in {parent[w] : w \in batch} :
                        /\ run' = [Idle EXCEPT !.kind = "resume", !.pc = "invoke", !.turn = t,
                                       !.batch = batch \ {w \in batch : parent[w] = t}]
                        /\ resume' = "running"
                        /\ Give({w \in batch : parent[w] = t}, t)
BY DEF ResumeLoop

LEMMA ResumeLoopTypes ==
    ASSUME Types, Shape, NEW rest \in SUBSET {w \in Workers : wrapper[w] = "done"},
           ResumeLoop(rest),
           UNCHANGED <<tasks, wrappers, notify, turn, foreground, stopping, failures>>
    PROVE  Types' /\ Shape'
<1> DEFINE batch == IF rest = {} THEN Bus ELSE rest
<1>1. batch \subseteq {w \in Workers : wrapper[w] = "done"}
  BY DEF Shape, Bus
<1>2. /\ queue' \subseteq queue /\ overflow' \subseteq overflow /\ deferred' \subseteq deferred
  BY ResumeLoopCases DEF bus
<1>3. /\ run' \in RunRecord /\ resume' \in {"none", "waiting", "running"}
      /\ given' \in [Workers -> [Turns -> Nat]]
      /\ run'.pc # "none" => run'.turn \in Turns
      /\ run'.batch \subseteq {w \in Workers : wrapper[w] = "done"}
  <2>1. CASE batch = {}
    BY <2>1, ResumeLoopCases, IdleType DEF Types
  <2>2. CASE batch # {}
    <3>1. PICK t \in {parent[w] : w \in batch} :
              /\ run' = [Idle EXCEPT !.kind = "resume", !.pc = "invoke", !.turn = t,
                             !.batch = batch \ {w \in batch : parent[w] = t}]
              /\ resume' = "running"
              /\ Give({w \in batch : parent[w] = t}, t)
      BY <2>2, ResumeLoopCases
    <3>2. t \in Turns
      BY <1>1 DEF Shape
    <3>3. given' \in [Workers -> [Turns -> Nat]]
      BY <1>1, <3>1, <3>2, GiveType
    <3>4. run' \in RunRecord /\ run'.turn = t
          /\ run'.batch \subseteq {w \in Workers : wrapper[w] = "done"}
      <4> DEFINE left == batch \ {w \in batch : parent[w] = t}
      <4>1. left \subseteq {w \in Workers : wrapper[w] = "done"}
        BY <1>1
      <4> HIDE DEF left
      <4>2. run' = [Idle EXCEPT !.kind = "resume", !.pc = "invoke", !.turn = t, !.batch = left]
        BY <3>1 DEF left
      <4>3. QED
        BY <4>1, <4>2, <3>2, IdleType DEF RunRecord, Idle
    <3>5. QED
      BY <3>1, <3>2, <3>3, <3>4
  <2>3. QED
    BY <2>1, <2>2
<1> HIDE DEF batch
<1>4. Types'
  BY <1>2, <1>3 DEF Types, tasks, wrappers, RunRecord
<1>5. Shape'
  BY <1>2, <1>3 DEF Shape, tasks, wrappers
<1>6. QED
  BY <1>4, <1>5

\* A foreground turn ends, whatever ended it.
LEMMA EndTypes ==
    ASSUME Types, Shape, NEW t \in Turns, NEW end \in {"done", "failed", "cancelled"},
           EndForeground(t, end), UNCHANGED <<tasks, wrappers, bus, notify, given>>,
           stopping' \subseteq Turns, failures' \in 0 .. MaxFailures
    PROVE  Types' /\ Shape'
<1>1. /\ turn' \in [Turns -> {"new", "injected", "waiting", "running", "done", "failed",
                              "cancelled"}]
      /\ foreground' \in BOOLEAN /\ resume' \in {"none", "waiting", "running"}
      /\ run' = Idle
  BY EndForegroundType
<1>2. Types'
  BY <1>1, IdleType DEF Types, RunRecord, tasks, wrappers, bus
<1>3. Shape'
  BY <1>1, IdleType DEF Shape, tasks, wrappers, bus
<1>4. QED
  BY <1>2, <1>3

LEMMA InvokeTypes ==
    ASSUME Types, Shape, InvokeEnds \/ InvokeFails
    PROVE  Types' /\ Shape'
<1>0. run.turn \in Turns
  BY DEF Shape, InvokeEnds, InvokeFails
<1>1. CASE InvokeEnds
  <2>1. CASE WaitPlan(run.turn) # {}
    <3>1. /\ run' = [run EXCEPT !.pc = "barrier", !.plan = WaitPlan(run.turn), !.collected = {}]
          /\ UNCHANGED <<bus, turn, foreground, resume, given>>
          /\ UNCHANGED <<tasks, wrappers, notify, stopping, failures>>
      BY <1>1, <2>1 DEF InvokeEnds
    <3>2. WaitPlan(run.turn) \subseteq Workers
      BY DEF WaitPlan
    <3>3. run' \in RunRecord /\ run'.turn = run.turn /\ run'.batch = run.batch
      BY <3>1, <3>2 DEF Types, RunRecord
    <3>4. Types'
      BY <3>1, <3>3 DEF Types, RunRecord, tasks, wrappers, bus
    <3>5. Shape'
      BY <3>1, <3>3, <1>0 DEF Shape, tasks, wrappers, bus
    <3>6. QED
      BY <3>4, <3>5
  <2>2. CASE WaitPlan(run.turn) = {} /\ run.kind = "foreground"
    <3>1. /\ EndForeground(run.turn, "done") /\ UNCHANGED <<bus, given>>
          /\ UNCHANGED <<tasks, wrappers, notify, stopping, failures>>
      BY <1>1, <2>2 DEF InvokeEnds
    <3>2. stopping' \subseteq Turns /\ failures' \in 0 .. MaxFailures
      BY <3>1 DEF Types
    <3>3. QED
      BY <3>1, <3>2, <1>0, EndTypes
  <2>3. CASE WaitPlan(run.turn) = {} /\ run.kind = "resume"
    <3>1. /\ ResumeLoop(run.batch) /\ UNCHANGED <<turn, foreground>>
          /\ UNCHANGED <<tasks, wrappers, notify, stopping, failures>>
      BY <1>1, <2>3 DEF InvokeEnds
    <3>2. run.batch \in SUBSET {w \in Workers : wrapper[w] = "done"}
      BY DEF Shape
    <3>3. QED
      BY <3>1, <3>2, ResumeLoopTypes
  <2>4. QED
    BY <1>1, <2>1, <2>2, <2>3 DEF InvokeEnds
<1>2. CASE InvokeFails
  <2>1. /\ failures' \in 0 .. MaxFailures
        /\ UNCHANGED <<tasks, wrappers, bus, notify, stopping, given>>
    BY <1>2 DEF InvokeFails, Types
  <2>2. CASE EndForeground(run.turn, "failed")
    <3>1. stopping' \subseteq Turns
      BY <2>1 DEF Types
    <3>2. QED
      BY <1>0, <2>1, <2>2, <3>1, EndTypes
  <2>3. CASE run' = Idle /\ resume' = "none" /\ UNCHANGED <<turn, foreground>>
    <3>1. Types'
      BY <2>1, <2>3, IdleType DEF Types, RunRecord, tasks, wrappers, bus
    <3>2. Shape'
      BY <2>1, <2>3, IdleType DEF Shape, tasks, wrappers, bus
    <3>3. QED
      BY <3>1, <3>2
  <2>4. QED
    BY <1>2, <2>2, <2>3 DEF InvokeFails
<1>3. QED
  BY <1>1, <1>2

LEMMA MineType ==
    ASSUME NEW S PROVE Mine(S) \subseteq S
BY DEF Mine

LEMMA BarrierTypes ==
    ASSUME Types, Shape, BarrierGet \/ BarrierDone \/ BarrierTimesOut
    PROVE  Types' /\ Shape'
<1>0. run.turn \in Turns
  BY DEF Shape, BarrierGet, BarrierDone, BarrierTimesOut
<1>1. CASE BarrierGet
  <2>0. UNCHANGED <<tasks, wrappers, notify, turn, foreground, resume, stopping, given,
                    failures>>
    BY <1>1 DEF BarrierGet
  <2>1. /\ queue' \cup overflow' \cup deferred' \subseteq queue \cup overflow \cup deferred
        /\ run' = run \/ \E e \in queue \cup deferred :
                            run' = [run EXCEPT !.collected = @ \cup {e}]
    <3>1. CASE \E e \in Mine(deferred) :
                  /\ deferred' = deferred \ {e}
                  /\ run' = [run EXCEPT !.collected = @ \cup {e}]
                  /\ UNCHANGED <<queue, overflow>>
      BY <3>1, MineType
    <3>2. CASE \E e \in queue :
                 /\ Take(e)
                 /\ IF e \in Mine(queue)
                    THEN run' = [run EXCEPT !.collected = @ \cup {e}] /\ UNCHANGED deferred
                    ELSE deferred' = deferred \cup {e} /\ UNCHANGED run
      <4>1. PICK e \in queue :
                 /\ Take(e)
                 /\ IF e \in Mine(queue)
                    THEN run' = [run EXCEPT !.collected = @ \cup {e}] /\ UNCHANGED deferred
                    ELSE deferred' = deferred \cup {e} /\ UNCHANGED run
        BY <3>2
      <4>2. queue' \cup overflow' \subseteq queue \cup overflow
        BY <4>1 DEF Take
      <4>3. QED
        BY <4>1, <4>2
    <3>3. QED
      BY <1>1, <3>1, <3>2 DEF BarrierGet
  <2>2. run' \in RunRecord /\ run'.turn = run.turn /\ run'.batch = run.batch
        /\ run'.pc = run.pc
    <3>1. CASE run' = run
      BY <3>1 DEF Types, RunRecord
    <3>2. ASSUME NEW e \in queue \cup deferred, run' = [run EXCEPT !.collected = @ \cup {e}]
          PROVE  <2>2!:
      <4>1. run.collected \cup {e} \in SUBSET Workers
        BY DEF Types
      <4>2. QED
        BY <3>2, <4>1 DEF Types, RunRecord
    <3>3. QED
      BY <2>1, <3>1, <3>2
  <2>3. Types'
    BY <2>0, <2>1, <2>2 DEF Types, RunRecord, tasks, wrappers
  <2>4. Shape'
    BY <2>0, <2>1, <2>2, <1>0 DEF Shape, tasks, wrappers
  <2>5. QED
    BY <2>3, <2>4
<1>2. CASE BarrierDone
  <2> DEFINE read == IF queue = {} THEN {} ELSE queue \cup overflow
             all == run.collected \cup Mine(deferred \cup read)
  <2>1. /\ queue' = {} /\ overflow' = overflow \ read
        /\ deferred' = (deferred \cup read) \ Mine(deferred \cup read)
        /\ consumed' = consumed \cup run.plan
        /\ Give(all, run.turn)
        /\ run' = [run EXCEPT !.pc = "invoke", !.plan = {}, !.collected = {}]
        /\ UNCHANGED <<status, active, parent, holds, running, wrappers, notify, turn,
                       foreground, resume, stopping, failures>>
    BY <1>2 DEF BarrierDone
  <2>2. queue' \cup overflow' \cup deferred' \subseteq queue \cup overflow \cup deferred
    BY <2>1
  <2>3. all \subseteq Workers
    BY MineType DEF Types
  <2>4. given' \in [Workers -> [Turns -> Nat]]
    BY <1>0, <2>1, <2>3, GiveType
  <2> HIDE DEF read, all
  <2>5. run' \in RunRecord /\ run'.turn = run.turn /\ run'.batch = run.batch
    BY <2>1 DEF Types, RunRecord
  <2>6. consumed' \subseteq Workers
    BY <2>1 DEF Types
  <2>7. Types'
    BY <2>1, <2>2, <2>4, <2>5, <2>6 DEF Types, RunRecord, wrappers
  <2>8. Shape'
    BY <2>1, <2>2, <2>5, <1>0 DEF Shape, wrappers
  <2>9. QED
    BY <2>7, <2>8
<1>3. CASE BarrierTimesOut
  <2>1. /\ StopAll(run.plan \ run.collected)
        /\ consumed' = consumed \cup run.plan
        /\ Give(run.collected, run.turn)
        /\ run' = [run EXCEPT !.pc = "invoke", !.plan = {}, !.collected = {}]
        /\ UNCHANGED <<active, parent, holds, running, wrapper, attempt, outcome, bus, notify,
                       turn, foreground, resume, stopping, failures>>
    BY <1>3 DEF BarrierTimesOut
  <2>2. /\ run.collected \subseteq Workers /\ run.plan \subseteq Workers
        /\ run' \in RunRecord /\ run'.turn = run.turn /\ run'.batch = run.batch
    BY <2>1 DEF Types, RunRecord
  <2>3. /\ status' \in [Workers -> Lifecycle] /\ cancelled' \subseteq Workers
        /\ \A w \in Workers : status'[w] = "none" => status[w] = "none"
        /\ given' \in [Workers -> [Turns -> Nat]] /\ consumed' \subseteq Workers
    <3>1. run.plan \ run.collected \in SUBSET Workers
      BY <2>2
    <3>2. /\ status' \in [Workers -> Lifecycle] /\ cancelled' \subseteq Workers
          /\ \A w \in Workers : status'[w] = "none" => status[w] = "none"
      BY <2>1, <3>1, StopAllType
    <3>3. given' \in [Workers -> [Turns -> Nat]]
      BY <2>1, <2>2, <1>0, GiveType
    <3>4. QED
      BY <2>1, <2>2, <3>2, <3>3 DEF Types
  <2>4. Types'
    BY <2>1, <2>2, <2>3 DEF Types, RunRecord, bus
  <2>5. Shape'
    BY <2>1, <2>2, <2>3, <1>0 DEF Shape, bus
  <2>6. QED
    BY <2>4, <2>5
<1>4. QED
  BY <1>1, <1>2, <1>3

LEMMA SessionTypes ==
    ASSUME Types, Shape,
           \/ \E w \in Workers : Spawn(w) \/ TaskStop(w)
           \/ \E t \in Turns : Submit(t) \/ CancelTurn(t) \/ StopWorkers(t)
           \/ Notify \/ LockStep
    PROVE  Types' /\ Shape'
<1>1. ASSUME NEW w \in Workers, Spawn(w) PROVE Types' /\ Shape'
  <2>0. run.turn \in Turns /\ status[w] = "none"
    BY <1>1 DEF Shape, Spawn
  <2>1. Types'
    <3>1. status' \in [Workers -> Lifecycle] /\ parent' \in [Workers -> Turns \cup {None}]
      BY <1>1, <2>0 DEF Types, Spawn
    <3>2. QED
      BY <1>1, <3>1 DEF Types, Spawn, bus
  <2>2. Shape'
    BY <1>1 DEF Types, Shape, Spawn, bus
  <2>3. QED
    BY <2>1, <2>2
<1>2. ASSUME NEW w \in Workers, TaskStop(w) PROVE Types' /\ Shape'
  <2>1. /\ status' \in [Workers -> Lifecycle] /\ cancelled' \subseteq Workers
        /\ \A v \in Workers : status'[v] = "none" => status[v] = "none"
    BY <1>2, StopAllType DEF TaskStop
  <2>2. QED
    BY <1>2, <2>1 DEF TaskStop, Types, Shape, bus
<1>3. ASSUME NEW t \in Turns, Submit(t) PROVE Types' /\ Shape'
  BY <1>3 DEF Submit, Types, Shape, tasks, wrappers, bus
<1>4. ASSUME NEW t \in Turns, CancelTurn(t) PROVE Types' /\ Shape'
  <2>1. CASE turn[t] = "running"
    <3>1. /\ EndForeground(t, "cancelled") /\ UNCHANGED <<tasks, wrappers, bus, notify, given>>
          /\ stopping' \subseteq Turns /\ failures' \in 0 .. MaxFailures
      BY <1>4, <2>1 DEF CancelTurn, Types
    <3>2. QED
      BY <3>1, EndTypes
  <2>2. CASE turn[t] # "running"
    BY <1>4, <2>2 DEF CancelTurn, Types, Shape, tasks, wrappers, bus
  <2>3. QED
    BY <2>1, <2>2
<1>5. ASSUME NEW t \in Turns, StopWorkers(t) PROVE Types' /\ Shape'
  <2>1. /\ status' \in [Workers -> Lifecycle] /\ cancelled' \subseteq Workers
        /\ \A v \in Workers : status'[v] = "none" => status[v] = "none"
    BY <1>5, StopAllType DEF StopWorkers
  <2>2. QED
    BY <1>5, <2>1 DEF StopWorkers, Types, Shape, bus
<1>6. CASE Notify
  BY <1>6 DEF Notify, Types, Shape, tasks, wrappers, bus
<1>7. CASE ResumeBegin
  BY <1>7, ResumeLoopTypes DEF ResumeBegin
<1>8. ASSUME NEW t \in Turns, Begin(t) PROVE Types' /\ Shape'
  <2>1. run' \in RunRecord /\ run'.turn = t /\ run'.batch = {}
    BY <1>8 DEF Begin, Idle, RunRecord
  <2>2. Types'
    BY <1>8, <2>1 DEF Begin, Types, RunRecord, tasks, wrappers, bus
  <2>3. Shape'
    BY <1>8, <2>1 DEF Begin, Types, Shape, tasks, wrappers, bus
  <2>4. QED
    BY <2>2, <2>3
<1>9. QED
  BY <1>1, <1>2, <1>3, <1>4, <1>5, <1>6, <1>7, <1>8 DEF LockStep

LEMMA TypesStep ==
    ASSUME Types, Shape, [Next]_vars
    PROVE  Types' /\ Shape'
<1>1. CASE UNCHANGED vars
  BY <1>1 DEF vars, tasks, wrappers, bus, Types, Shape
<1>2. CASE Next
  BY <1>2, WrapperTypes, InvokeTypes, BarrierTypes, SessionTypes DEF Next, RunStep
<1>3. QED
  BY <1>1, <1>2

(***************************************************************************)
(* Where a published event is: at most one of the three queues of the bus, *)
(* the barrier that collects it, or the batch of the resume.               *)
(***************************************************************************)

\* No event is in two places.
Apart ==
    \A w \in Workers :
        /\ w \in queue => w \notin overflow /\ w \notin deferred
        /\ w \in overflow => w \notin deferred
        /\ w \in run.collected => w \notin run.batch
        /\ w \in run.collected \cup run.batch =>
              w \notin queue /\ w \notin overflow /\ w \notin deferred

\* What a run may hold: results of its own turn at a barrier, a batch in a
\* resume; a foreground run is the run of the one turn that is running.
Runs ==
    /\ \A w \in run.collected : wrapper[w] = "done" /\ parent[w] = run.turn
    /\ run.pc # "barrier" => run.collected = {}
    /\ run.kind # "resume" => run.batch = {}
    /\ run.kind = "foreground" => run.turn \in Turns /\ turn[run.turn] = "running"
    /\ \A t \in Turns : turn[t] = "running" => run.kind = "foreground" /\ run.turn = t

\* A result was given once at most, to the turn of its worker, after it was
\* published, and is nowhere since.
Given ==
    \A w \in Workers : \A t \in Turns :
        \/ given[w][t] = 0
        \/ /\ given[w][t] = 1
           /\ t = parent[w] /\ wrapper[w] = "done"
           /\ w \notin queue /\ w \notin overflow /\ w \notin deferred
           /\ w \notin run.collected /\ w \notin run.batch

Books == Apart /\ Runs /\ Given /\ NoResultLost

\* A step that moves nothing: the bus, the run, what was given, the parents
\* and who has published stay as they are.
LEMMA StillBooks ==
    ASSUME Types, Types', Books, UNCHANGED <<queue, overflow, deferred, run, given>>,
           \A w \in Workers : (wrapper'[w] = "done") <=> (wrapper[w] = "done"),
           \A w \in Workers : wrapper[w] = "done" => parent'[w] = parent[w],
           failures' >= failures,
           \A t \in Turns : (turn'[t] = "running") <=> (turn[t] = "running"),
           \A t \in Turns : turn[t] = "cancelled" => turn'[t] = "cancelled",
           \A w \in Workers : wrapper[w] = "done" => parent[w] \in Turns
    PROVE  Books'
<1>1. Apart'
  BY DEF Books, Apart
<1>2. Runs'
  <2>1. run.collected \subseteq Workers
    BY DEF Types
  <2>2. QED
    BY <2>1 DEF Books, Runs
<1>3. Given'
  BY DEF Books, Given
<1>4. NoResultLost'
  BY DEF Books, NoResultLost, Bus, Types
<1>5. QED
  BY <1>1, <1>2, <1>3, <1>4 DEF Books

LEMMA FinishBooks ==
    ASSUME Types, Types', Shape, Books, NEW w \in Workers, NEW final \in Terminal, Finish(w, final),
           wrapper[w] # "done"
    PROVE  Books'
<1>1. \/ wrapper' = [wrapper EXCEPT ![w] = "publish"]
      \/ wrapper' = [wrapper EXCEPT ![w] = "lost"]
  BY DEF Finish
<1>2. \A v \in Workers : (wrapper'[v] = "done") <=> (wrapper[v] = "done")
  BY <1>1 DEF Types
<1>3. QED
  BY <1>2, StillBooks DEF Finish, bus, Shape, Types

\* An event enters the queue or the overflow: it was nowhere before.
LEMMA PublishBooks ==
    ASSUME Types, Shape, Books, NEW w \in Workers,
           wrapper[w] \in {"publish", "overflow"},
           wrapper' = [wrapper EXCEPT ![w] = "done"],
           \/ queue' = queue \cup {w} /\ overflow' = overflow
           \/ queue' = queue /\ overflow' = overflow \cup {w},
           UNCHANGED <<deferred, run, given, parent, turn, failures>>
    PROVE  Books'
<1>0. /\ w \notin queue /\ w \notin overflow /\ w \notin deferred
      /\ w \notin run.collected /\ w \notin run.batch
      /\ \A t \in Turns : given[w][t] = 0
  BY DEF Shape, Books, Runs, Given
<1>1. Apart'
  BY <1>0 DEF Books, Apart
<1>2. Runs'
  BY <1>0 DEF Books, Runs, Types
<1>3. Given'
  BY <1>0 DEF Books, Given, Types
<1>4. NoResultLost'
  BY <1>0 DEF Books, NoResultLost, Bus, Types
<1>5. QED
  BY <1>1, <1>2, <1>3, <1>4 DEF Books

LEMMA WrapperBooks ==
    ASSUME Types, Types', Shape, Books, NEW w \in Workers, WrapperStep(w)
    PROVE  Books'
<1>0. \A v \in Workers : wrapper[v] = "done" => parent[v] \in Turns
  BY DEF Shape
<1>1. CASE Acquire(w)
  <2>1. \A v \in Workers : (wrapper'[v] = "done") <=> (wrapper[v] = "done")
    BY <1>1 DEF Acquire, Types
  <2>2. QED
    BY <1>0, <1>1, <2>1, StillBooks DEF Acquire, bus, Types
<1>2. CASE AttemptEnds(w)
  <2>1. \A v \in Workers : (wrapper'[v] = "done") <=> (wrapper[v] = "done")
    BY <1>2 DEF AttemptEnds, Types
  <2>2. QED
    BY <1>0, <1>2, <2>1, StillBooks DEF AttemptEnds, bus, tasks, Types
<1>3. CASE Cancelled(w)
  BY <1>3, FinishBooks DEF Cancelled
<1>4. CASE AttemptReturns(w)
  <2>1. (IF outcome[w] = "retry" THEN "failed" ELSE outcome[w]) \in Terminal
    BY <1>4 DEF Types, Shape, AttemptReturns
  <2>2. QED
    BY <1>4, <2>1, FinishBooks DEF AttemptReturns
<1>5. CASE BackOff(w)
  <2>1. \A v \in Workers : (wrapper'[v] = "done") <=> (wrapper[v] = "done")
    BY <1>5 DEF BackOff, Types
  <2>2. QED
    BY <1>0, <1>5, <2>1, StillBooks DEF BackOff, bus, Types
<1>6. CASE Retry(w)
  <2>1. \A v \in Workers : (wrapper'[v] = "done") <=> (wrapper[v] = "done")
    BY <1>6 DEF Retry, Types
  <2>2. QED
    BY <1>0, <1>6, <2>1, StillBooks DEF Retry, bus, Types
<1>7. CASE Publish(w)
  BY <1>7, PublishBooks DEF Publish, tasks
<1>8. CASE PublishTimesOut(w)
  <2>1. \A v \in Workers : (wrapper'[v] = "done") <=> (wrapper[v] = "done")
    BY <1>8 DEF PublishTimesOut, Types
  <2>2. QED
    BY <1>0, <1>8, <2>1, StillBooks DEF PublishTimesOut, bus, tasks, Types
<1>9. CASE Overflow(w)
  BY <1>9, PublishBooks DEF Overflow, tasks
<1>10. QED
  BY <1>1, <1>2, <1>3, <1>4, <1>5, <1>6, <1>7, <1>8, <1>9 DEF WrapperStep

\* A run of turn t is told the results ws, which leave their places; every
\* other event is where it was or in another queue of the bus.
LEMMA GiveBooks ==
    ASSUME Types, Shape, Books, Types', NEW t \in Turns, NEW ws \in SUBSET Workers,
           Give(ws, t), \A w \in ws : parent[w] = t /\ wrapper[w] = "done",
           \A w \in ws : w \in Bus \cup run.collected \cup run.batch,
           \A w \in ws : w \notin queue' /\ w \notin overflow' /\ w \notin deferred'
                        /\ w \notin run'.batch,
           \A w \in Workers \ ws : (w \in Bus \cup run.collected \cup run.batch)
                                <=> (w \in queue' \cup overflow' \cup deferred' \cup run'.batch),
           Apart', run'.collected = {},
           run'.kind # "resume" => run'.batch = {},
           run'.kind = "foreground" => run.kind = "foreground" /\ run'.turn = run.turn,
           run.kind = "foreground" => run'.kind = "foreground",
           UNCHANGED <<parent, wrapper, turn, failures>>
    PROVE  Books'
<1>1. Runs'
  BY DEF Books, Runs
<1>2. Given'
  BY DEF Books, Given, Give, Bus, Types
<1>3. NoResultLost'
  <2> SUFFICES ASSUME NEW w \in Workers, wrapper[w] = "done"
               PROVE  \/ w \in Bus' \cup run'.collected \cup run'.batch
                      \/ given'[w][parent[w]] = 1
                      \/ failures > 0
                      \/ turn[parent[w]] = "cancelled"
    BY DEF NoResultLost
  <2>1. CASE w \in ws
    <3>1. given[w][t] = 0
      BY <2>1 DEF Books, Given, Bus
    <3>2. QED
      BY <2>1, <3>1 DEF Give, Types
  <2>2. CASE w \notin ws
    <3>1. given'[w] = given[w]
      BY <2>2 DEF Give
    <3>2. QED
      BY <2>2, <3>1 DEF Books, NoResultLost, Bus
  <2>3. QED
    BY <2>1, <2>2
<1>4. QED
  BY <1>1, <1>2, <1>3 DEF Books

\* The resume goes on with the rest of its batch or with a drain of the bus.
LEMMA ResumeLoopBooks ==
    ASSUME Types, Shape, Books, Types', ResumeLoop(run.batch),
           run.kind # "foreground", run.pc # "barrier",
           UNCHANGED <<tasks, wrappers, notify, turn, foreground, stopping, failures>>
    PROVE  Books'
<1> DEFINE batch == IF run.batch = {} THEN Bus ELSE run.batch
<1>0. /\ run.collected = {}
      /\ batch \subseteq {w \in Workers : wrapper[w] = "done"}
      /\ UNCHANGED <<parent, wrapper, turn, failures>>
  BY DEF Books, Runs, Shape, Bus, tasks, wrappers
<1>1. CASE batch = {}
  <2>0. run.batch = {} /\ Bus = {}
    BY <1>1
  <2>1. /\ queue' = {} /\ overflow' = {} /\ deferred' = {} /\ run' = Idle
        /\ UNCHANGED given
    BY <1>1, <2>0, ResumeLoopCases
  <2>2. run'.collected = {} /\ run'.batch = {} /\ run'.kind = "none"
    BY <2>1, IdleType
  <2>3. Apart'
    BY <2>1, <2>2 DEF Apart
  <2>4. Runs'
    BY <1>0, <2>1, <2>2 DEF Runs, Books
  <2>5. Given'
    BY <1>0, <2>1, <2>2 DEF Given, Books
  <2>6. NoResultLost'
    BY <1>0, <2>0, <2>1, <2>2 DEF NoResultLost, Books
  <2>7. QED
    BY <2>3, <2>4, <2>5, <2>6 DEF Books
<1>2. CASE batch # {}
  <2>1. PICK t \in {parent[w] : w \in batch} :
            /\ run' = [Idle EXCEPT !.kind = "resume", !.pc = "invoke", !.turn = t,
                           !.batch = batch \ {w \in batch : parent[w] = t}]
            /\ resume' = "running"
            /\ Give({w \in batch : parent[w] = t}, t)
    BY <1>2, ResumeLoopCases
  <2> DEFINE ws == {w \in batch : parent[w] = t}
  <2>2. /\ t \in Turns /\ ws \in SUBSET Workers
        /\ \A w \in ws : parent[w] = t /\ wrapper[w] = "done"
        /\ \A w \in ws : w \in Bus \cup run.collected \cup run.batch
    BY <1>0 DEF Shape
  <2>3. run'.batch = batch \ ws /\ run'.collected = {} /\ run'.kind = "resume"
    BY <2>1 DEF Idle
  <2>4. /\ run.batch = {} => queue' = {} /\ overflow' = {} /\ deferred' = {}
        /\ run.batch # {} => UNCHANGED <<queue, overflow, deferred>>
    BY ResumeLoopCases DEF bus
  <2>5. /\ \A w \in ws : w \notin queue' /\ w \notin overflow' /\ w \notin deferred'
                         /\ w \notin run'.batch
        /\ \A w \in Workers \ ws : (w \in Bus \cup run.collected \cup run.batch)
                                <=> (w \in queue' \cup overflow' \cup deferred' \cup run'.batch)
        /\ Apart'
    <3>1. CASE run.batch = {}
      <4>1. batch = Bus
        BY <3>1
      <4> HIDE DEF batch
      <4>2. QED
        BY <1>0, <2>3, <2>4, <3>1, <4>1 DEF Apart
    <3>2. CASE run.batch # {}
      <4>1. batch = run.batch
        BY <3>2
      <4> HIDE DEF batch
      <4>2. QED
        BY <1>0, <2>3, <2>4, <3>2, <4>1 DEF Apart, Books, Bus
    <3>3. QED
      BY <3>1, <3>2
  <2>6. Give(ws, t)
    BY <2>1
  <2> HIDE DEF ws, batch
  <2>7. QED
    BY <1>0, <2>2, <2>3, <2>5, <2>6, GiveBooks
<1>3. QED
  BY <1>1, <1>2

\* A foreground turn ends: it loses nothing unless it is cancelled.
LEMMA EndBooks ==
    ASSUME Types, Types', Shape, Books, NEW t \in Turns, NEW end,
           turn[t] = "running", EndForeground(t, end), end # "running",
           UNCHANGED <<tasks, wrappers, bus, notify, given>>,
           \/ run.pc # "barrier" /\ failures' >= failures
           \/ end = "cancelled" /\ failures' = failures
    PROVE  Books'
<1>0. /\ run.kind = "foreground" /\ run.turn = t /\ run.batch = {}
      /\ run' = Idle /\ turn' = [turn EXCEPT ![t] = end]
      /\ UNCHANGED <<parent, wrapper, queue, overflow, deferred, given>>
  BY DEF Books, Runs, EndForeground, tasks, wrappers, bus
<1>1. run'.collected = {} /\ run'.batch = {} /\ run'.kind = "none"
  BY <1>0, IdleType
<1>2. Apart'
  BY <1>0, <1>1 DEF Books, Apart
<1>3. Runs'
  BY <1>0, <1>1 DEF Books, Runs, Types
<1>4. Given'
  BY <1>0, <1>1 DEF Books, Given
<1>5. NoResultLost'
  <2> SUFFICES ASSUME NEW w \in Workers, wrapper[w] = "done"
               PROVE  \/ w \in Bus
                      \/ given[w][parent[w]] = 1
                      \/ failures' > 0
                      \/ turn'[parent[w]] = "cancelled"
    BY <1>0, <1>1 DEF NoResultLost, Bus
  <2>1. parent[w] \in Turns
    BY DEF Shape
  <2>2. CASE w \in run.collected
    BY <1>0, <2>1, <2>2 DEF Books, Runs, Types
  <2>3. CASE w \notin run.collected
    BY <1>0, <2>1, <2>3 DEF Books, Runs, NoResultLost, Types
  <2>4. QED
    BY <2>2, <2>3
<1>6. QED
  BY <1>2, <1>3, <1>4, <1>5 DEF Books

LEMMA InvokeBooks ==
    ASSUME Types, Types', Shape, Books, InvokeEnds \/ InvokeFails
    PROVE  Books'
<1>0. /\ run.turn \in Turns /\ run.pc = "invoke" /\ run.collected = {}
      /\ run.kind = "foreground" => turn[run.turn] = "running"
  BY DEF Shape, InvokeEnds, InvokeFails, Books, Runs
<1>1. CASE InvokeEnds
  <2>1. CASE WaitPlan(run.turn) # {}
    <3>1. /\ run' = [run EXCEPT !.pc = "barrier", !.plan = WaitPlan(run.turn), !.collected = {}]
          /\ UNCHANGED <<bus, turn, foreground, resume, given>>
          /\ UNCHANGED <<tasks, wrappers, notify, stopping, failures>>
      BY <1>1, <2>1 DEF InvokeEnds
    <3>2. /\ run'.collected = run.collected /\ run'.batch = run.batch
          /\ run'.kind = run.kind /\ run'.turn = run.turn
      <4>1. run \in RunRecord
        BY DEF Types, RunRecord
      <4>2. QED
        BY <3>1, <1>0, <4>1 DEF RunRecord
    <3>3. Apart' /\ Runs' /\ Given'
      BY <1>0, <3>1, <3>2 DEF Books, Apart, Runs, Given, bus, tasks, wrappers
    <3>4. NoResultLost'
      BY <3>1, <3>2 DEF Books, NoResultLost, Bus, bus, tasks, wrappers
    <3>5. QED
      BY <3>3, <3>4 DEF Books
  <2>2. CASE WaitPlan(run.turn) = {} /\ run.kind = "foreground"
    <3>1. /\ EndForeground(run.turn, "done") /\ UNCHANGED <<bus, given>>
          /\ UNCHANGED <<tasks, wrappers, notify, stopping, failures>>
      BY <1>1, <2>2 DEF InvokeEnds
    <3>2. failures' >= failures
      BY <3>1 DEF Types
    <3>3. QED
      BY <1>0, <2>2, <3>1, <3>2, EndBooks
  <2>3. CASE WaitPlan(run.turn) = {} /\ run.kind = "resume"
    <3>1. /\ ResumeLoop(run.batch) /\ UNCHANGED <<turn, foreground>>
          /\ UNCHANGED <<tasks, wrappers, notify, stopping, failures>>
      BY <1>1, <2>3 DEF InvokeEnds
    <3>2. QED
      BY <1>0, <2>3, <3>1, ResumeLoopBooks
  <2>4. QED
    BY <1>1, <2>1, <2>2, <2>3 DEF InvokeEnds
<1>2. CASE InvokeFails
  <2>1. /\ failures' > 0 /\ failures' >= failures
        /\ UNCHANGED <<tasks, wrappers, bus, notify, stopping, given>>
    BY <1>2 DEF InvokeFails, Types
  <2>2. CASE run.kind = "foreground" /\ EndForeground(run.turn, "failed")
    BY <1>0, <2>1, <2>2, EndBooks
  <2>3. CASE run.kind = "resume" /\ run' = Idle /\ UNCHANGED <<turn, foreground>>
    <3>1. run'.collected = {} /\ run'.batch = {} /\ run'.kind = "none"
      BY <2>3, IdleType
    <3>2. Apart' /\ Runs' /\ Given'
      BY <2>1, <2>3, <3>1 DEF Books, Apart, Runs, Given, bus, tasks, wrappers
    <3>3. NoResultLost'
      BY <2>1 DEF NoResultLost
    <3>4. QED
      BY <3>2, <3>3 DEF Books
  <2>4. QED
    BY <1>2, <2>2, <2>3 DEF InvokeFails
<1>3. QED
  BY <1>1, <1>2

\* A barrier takes one event: out of the bus into the barrier, or from the
\* queue to the deferred events; the refill moves overflow to the queue.
LEMMA BarrierGetBooks ==
    ASSUME Types, Types', Shape, Books, BarrierGet
    PROVE  Books'
<1>0. /\ run.pc = "barrier" /\ run \in RunRecord
      /\ UNCHANGED <<tasks, wrappers, notify, turn, foreground, resume, stopping, given,
                     failures>>
      /\ UNCHANGED <<parent, wrapper>>
  BY DEF BarrierGet, Types, RunRecord, tasks, wrappers
<1>1. ASSUME NEW e \in Mine(deferred), deferred' = deferred \ {e},
             run' = [run EXCEPT !.collected = @ \cup {e}], UNCHANGED <<queue, overflow>>
      PROVE  Books'
  <2>1. /\ run'.collected = run.collected \cup {e} /\ run'.batch = run.batch
        /\ run'.kind = run.kind /\ run'.turn = run.turn /\ run'.pc = run.pc
    BY <1>0, <1>1 DEF RunRecord
  <2>2. e \in deferred /\ parent[e] = run.turn /\ e \in Workers /\ wrapper[e] = "done"
    BY DEF Mine, Shape
  <2>3. Apart'
    BY <1>1, <2>1, <2>2 DEF Books, Apart
  <2>4. Runs'
    BY <1>0, <2>1, <2>2 DEF Books, Runs
  <2>5. Given'
    BY <1>0, <1>1, <2>1, <2>2 DEF Books, Given
  <2>6. NoResultLost'
    BY <1>0, <1>1, <2>1, <2>2 DEF Books, NoResultLost, Bus
  <2>7. QED
    BY <2>3, <2>4, <2>5, <2>6 DEF Books
<1>2. ASSUME NEW e \in queue, NEW in \in SUBSET overflow,
             queue' = (queue \ {e}) \cup in, overflow' = overflow \ in,
             IF e \in Mine(queue)
             THEN run' = [run EXCEPT !.collected = @ \cup {e}] /\ UNCHANGED deferred
             ELSE deferred' = deferred \cup {e} /\ UNCHANGED run
      PROVE  Books'
  <2>1. e \in Workers /\ wrapper[e] = "done"
    BY DEF Shape
  <2>2. CASE e \in Mine(queue)
    <3>0. /\ run' = [run EXCEPT !.collected = @ \cup {e}] /\ UNCHANGED deferred
          /\ parent[e] = run.turn
      BY <1>2, <2>2 DEF Mine
    <3>1. /\ run'.collected = run.collected \cup {e} /\ run'.batch = run.batch
          /\ run'.kind = run.kind /\ run'.turn = run.turn /\ run'.pc = run.pc
      BY <1>0, <3>0 DEF RunRecord
    <3>2. Apart'
      BY <1>2, <2>1, <3>0, <3>1 DEF Books, Apart
    <3>3. Runs'
      BY <1>0, <2>1, <3>0, <3>1 DEF Books, Runs
    <3>4. Given'
      BY <1>0, <1>2, <2>1, <3>0, <3>1 DEF Books, Given
    <3>5. NoResultLost'
      BY <1>0, <1>2, <2>1, <3>0, <3>1 DEF Books, NoResultLost, Bus
    <3>6. QED
      BY <3>2, <3>3, <3>4, <3>5 DEF Books
  <2>3. CASE e \notin Mine(queue)
    <3>0. deferred' = deferred \cup {e} /\ UNCHANGED run
      BY <1>2, <2>3
    <3>1. Apart'
      BY <1>2, <2>1, <3>0 DEF Books, Apart
    <3>2. Runs'
      BY <1>0, <3>0 DEF Books, Runs
    <3>3. Given'
      BY <1>0, <1>2, <2>1, <3>0 DEF Books, Given
    <3>4. NoResultLost'
      BY <1>0, <1>2, <2>1, <3>0 DEF Books, NoResultLost, Bus
    <3>5. QED
      BY <3>1, <3>2, <3>3, <3>4 DEF Books
  <2>4. QED
    BY <2>2, <2>3
<1>3. CASE \E e \in Mine(deferred) :
              /\ deferred' = deferred \ {e}
              /\ run' = [run EXCEPT !.collected = @ \cup {e}]
              /\ UNCHANGED <<queue, overflow>>
  BY <1>1, <1>3
<1>4. CASE \E e \in queue :
              /\ Take(e)
              /\ IF e \in Mine(queue)
                 THEN run' = [run EXCEPT !.collected = @ \cup {e}] /\ UNCHANGED deferred
                 ELSE deferred' = deferred \cup {e} /\ UNCHANGED run
  BY <1>2, <1>4 DEF Take
<1>5. QED
  BY <1>3, <1>4 DEF BarrierGet

\* A barrier ends: satisfied, with a drain of the bus, or timed out.
LEMMA BarrierEndBooks ==
    ASSUME Types, Types', Shape, Books, BarrierDone \/ BarrierTimesOut
    PROVE  Books'
<1>0. /\ run.turn \in Turns /\ run \in RunRecord
      /\ run' = [run EXCEPT !.pc = "invoke", !.plan = {}, !.collected = {}]
      /\ UNCHANGED <<parent, wrapper, turn, failures>>
  BY DEF Shape, Types, RunRecord, BarrierDone, BarrierTimesOut, wrappers
<1>1. /\ run'.collected = {} /\ run'.batch = run.batch
      /\ run'.kind = run.kind /\ run'.turn = run.turn
  BY <1>0 DEF RunRecord
<1>2. \A w \in run.collected : w \in Workers /\ parent[w] = run.turn /\ wrapper[w] = "done"
  BY <1>0 DEF Books, Runs, RunRecord
<1>3. run'.kind # "resume" => run'.batch = {}
  BY <1>1 DEF Books, Runs
<1>4. CASE BarrierDone
  <2> DEFINE read == IF queue = {} THEN {} ELSE queue \cup overflow
             ws == run.collected \cup Mine(deferred \cup read)
  <2>1. /\ queue' = {} /\ overflow' = overflow \ read
        /\ deferred' = (deferred \cup read) \ Mine(deferred \cup read)
        /\ Give(ws, run.turn)
    BY <1>4 DEF BarrierDone
  <2>2. read \subseteq queue \cup overflow /\ queue \subseteq read
    OBVIOUS
  <2> HIDE DEF read
  <2>3. /\ ws \in SUBSET Workers
        /\ \A w \in ws : parent[w] = run.turn /\ wrapper[w] = "done"
        /\ \A w \in ws : w \in Bus \cup run.collected \cup run.batch
    BY <1>2, <2>2 DEF Mine, Shape, Bus
  <2>4. Apart'
    BY <1>1, <2>1, <2>2 DEF Books, Apart
  <2>5. \A w \in ws : w \notin queue' /\ w \notin overflow' /\ w \notin deferred'
                     /\ w \notin run'.batch
    BY <1>1, <2>1, <2>2, <2>3 DEF Books, Apart, Mine
  <2>6. \A w \in Workers \ ws : (w \in Bus \cup run.collected \cup run.batch)
                              <=> (w \in queue' \cup overflow' \cup deferred' \cup run'.batch)
    BY <1>1, <2>1, <2>2 DEF Bus
  <2>7. Give(ws, run.turn)
    BY <2>1
  <2> HIDE DEF ws
  <2>8. QED
    BY <1>0, <1>1, <1>3, <2>3, <2>4, <2>5, <2>6, <2>7, GiveBooks
<1>5. CASE BarrierTimesOut
  <2>1. Give(run.collected, run.turn) /\ UNCHANGED <<queue, overflow, deferred>>
    BY <1>5 DEF BarrierTimesOut, bus
  <2>2. Apart'
    BY <1>1, <2>1 DEF Books, Apart
  <2>3. \A w \in run.collected : w \notin queue' /\ w \notin overflow' /\ w \notin deferred'
                     /\ w \notin run'.batch
    BY <1>1, <1>2, <2>1 DEF Books, Apart
  <2>4. \A w \in Workers \ run.collected :
            (w \in Bus \cup run.collected \cup run.batch)
            <=> (w \in queue' \cup overflow' \cup deferred' \cup run'.batch)
    BY <1>1, <2>1 DEF Bus
  <2>5. run.collected \in SUBSET Workers
    BY <1>2
  <2>6. QED
    BY <1>0, <1>1, <1>2, <1>3, <2>1, <2>2, <2>3, <2>4, <2>5, GiveBooks
<1>6. QED
  BY <1>4, <1>5

LEMMA SessionBooks ==
    ASSUME Types, Types', Shape, Books,
           \/ \E w \in Workers : Spawn(w) \/ TaskStop(w)
           \/ \E t \in Turns : Submit(t) \/ CancelTurn(t) \/ StopWorkers(t)
           \/ Notify \/ LockStep
    PROVE  Books'
<1>0. \A v \in Workers : wrapper[v] = "done" => parent[v] \in Turns
  BY DEF Shape
<1>1. ASSUME NEW w \in Workers, Spawn(w) PROVE Books'
  <2>1. wrapper[w] = "none" /\ wrapper' = [wrapper EXCEPT ![w] = "waiting"]
        /\ parent' = [parent EXCEPT ![w] = run.turn]
    BY <1>1 DEF Shape, Spawn
  <2>2. /\ \A v \in Workers : (wrapper'[v] = "done") <=> (wrapper[v] = "done")
        /\ \A v \in Workers : wrapper[v] = "done" => parent'[v] = parent[v]
    BY <2>1 DEF Types
  <2>3. QED
    BY <1>0, <1>1, <2>2, StillBooks DEF Spawn, bus, Types
<1>2. ASSUME NEW w \in Workers, TaskStop(w) PROVE Books'
  BY <1>0, <1>2, StillBooks DEF TaskStop, bus, Types
<1>3. ASSUME NEW t \in Turns, Submit(t) PROVE Books'
  <2>1. /\ \A u \in Turns : (turn'[u] = "running") <=> (turn[u] = "running")
        /\ \A u \in Turns : turn[u] = "cancelled" => turn'[u] = "cancelled"
    BY <1>3 DEF Submit, Types
  <2>2. QED
    BY <1>0, <1>3, <2>1, StillBooks DEF Submit, tasks, wrappers, bus, Types
<1>4. ASSUME NEW t \in Turns, CancelTurn(t) PROVE Books'
  <2>1. CASE turn[t] = "running"
    <3>1. /\ EndForeground(t, "cancelled") /\ UNCHANGED <<tasks, wrappers, bus, notify, given>>
          /\ failures' = failures
      BY <1>4, <2>1 DEF CancelTurn
    <3>2. QED
      BY <2>1, <3>1, EndBooks
  <2>2. CASE turn[t] # "running"
    <3>1. /\ \A u \in Turns : (turn'[u] = "running") <=> (turn[u] = "running")
          /\ \A u \in Turns : turn[u] = "cancelled" => turn'[u] = "cancelled"
      BY <1>4, <2>2 DEF CancelTurn, Types
    <3>2. QED
      BY <1>0, <1>4, <2>2, <3>1, StillBooks DEF CancelTurn, tasks, wrappers, bus, Types
  <2>3. QED
    BY <2>1, <2>2
<1>5. ASSUME NEW t \in Turns, StopWorkers(t) PROVE Books'
  BY <1>0, <1>5, StillBooks DEF StopWorkers, bus, Types
<1>6. CASE Notify
  BY <1>0, <1>6, StillBooks DEF Notify, tasks, wrappers, bus, Types
<1>7. CASE ResumeBegin
  <2>1. run = Idle /\ run.batch = {} /\ run.kind = "none" /\ run.pc = "none"
    BY <1>7, IdleType DEF ResumeBegin
  <2>2. QED
    BY <1>7, <2>1, ResumeLoopBooks DEF ResumeBegin
<1>8. ASSUME NEW t \in Turns, Begin(t) PROVE Books'
  <2>1. /\ run.batch = {} /\ run.kind = "none" /\ run.collected = {}
        /\ run'.batch = {} /\ run'.kind = "foreground" /\ run'.collected = {} /\ run'.turn = t
        /\ turn' = [turn EXCEPT ![t] = "running"] /\ turn[t] = "waiting"
        /\ UNCHANGED <<queue, overflow, deferred, given, wrapper, parent, failures>>
    BY <1>8, IdleType DEF Begin, Idle, tasks, wrappers, bus
  <2>2. Apart'
    BY <2>1 DEF Books, Apart
  <2>3. Runs'
    BY <2>1 DEF Books, Runs, Types
  <2>4. Given'
    BY <2>1 DEF Books, Given
  <2>5. NoResultLost'
    BY <1>0, <2>1 DEF Books, NoResultLost, Bus, Types
  <2>6. QED
    BY <2>2, <2>3, <2>4, <2>5 DEF Books
<1>9. QED
  BY <1>1, <1>2, <1>3, <1>4, <1>5, <1>6, <1>7, <1>8 DEF LockStep

LEMMA BooksStep ==
    ASSUME Types, Shape, Books, [Next]_vars
    PROVE  Books'
<1>0. Types'
  BY TypesStep
<1>1. CASE UNCHANGED vars
  <2>1. \A v \in Workers : wrapper[v] = "done" => parent[v] \in Turns
    BY DEF Shape
  <2>2. QED
    BY <1>0, <1>1, <2>1, StillBooks DEF vars, tasks, wrappers, bus, Types
<1>2. CASE Next
  BY <1>0, <1>2, WrapperBooks, InvokeBooks, BarrierGetBooks, BarrierEndBooks, SessionBooks
  DEF Next, RunStep
<1>3. QED
  BY <1>1, <1>2

LEMMA BooksInit == Init => Books
<1> SUFFICES ASSUME Init PROVE Books
  OBVIOUS
<1>1. run.collected = {} /\ run.batch = {} /\ run.kind = "none"
  BY IdleType DEF Init
<1>2. QED
  BY <1>1 DEF Init, Books, Apart, Runs, Given, NoResultLost

\* Every published result is in one place until the coordinator is told of
\* it: the bus, a barrier or a batch never duplicate an event.
LEMMA EventsAreBooked == Spec => [](Types /\ Shape /\ Books)
<1>1. Init => Types /\ Shape /\ Books
  BY TypesInit, BooksInit
<1>2. Types /\ Shape /\ Books /\ [Next]_vars => (Types /\ Shape /\ Books)'
  BY TypesStep, BooksStep
<1>3. QED
  BY <1>1, <1>2, PTL DEF Spec

\* The coordinator is told a result once at most, in a turn of the worker
\* that produced it, with any number of workers, turns and queue sizes.
THEOREM ResultsAreDeliveredOnce == Spec => []DeliveredOnce
<1>1. Types /\ Shape /\ Books => DeliveredOnce
  BY DEF Books, Given, DeliveredOnce, Bus, Types
<1>2. QED
  BY <1>1, EventsAreBooked, PTL

\* Only a failing invocation or a cancelled turn loses a published result.
THEOREM ResultsAreNotLost == Spec => []NoResultLost
<1>1. Types /\ Shape /\ Books => NoResultLost
  BY DEF Books
<1>2. QED
  BY <1>1, EventsAreBooked, PTL

(***************************************************************************)
(* The capacity of the queue                                               *)
(***************************************************************************)

\* A refill never puts more into the queue than it holds, and every step but
\* a publish and a refill shrinks the queue or leaves it alone.
LEMMA QueueStep ==
    ASSUME Types, Shape, Cardinality(queue) <= QueueMax, [Next]_vars
    PROVE  Cardinality(queue') <= QueueMax
<1>0. /\ IsFiniteSet(queue) /\ Cardinality({}) = 0
      /\ \A w \in Workers : Cardinality(queue) < QueueMax =>
             Cardinality(queue \cup {w}) <= QueueMax
  <2>1. IsFiniteSet(queue)
    BY FS_Subset DEF Types
  <2>2. Cardinality(queue) \in Nat
    BY <2>1, FS_CardinalityType
  <2>3. ASSUME NEW w \in Workers, Cardinality(queue) < QueueMax
        PROVE  Cardinality(queue \cup {w}) <= QueueMax
    <3>1. CASE w \in queue
      <4>1. queue \cup {w} = queue
        BY <3>1
      <4>2. QED
        BY <4>1
    <3>2. CASE w \notin queue
      <4>1. Cardinality(queue \cup {w}) = Cardinality(queue) + 1
        BY <2>1, <3>2, FS_AddElement
      <4>2. QED
        BY <2>2, <2>3, <4>1
    <3>3. QED
      BY <3>1, <3>2
  <2>4. QED
    BY <2>1, <2>3, FS_EmptySet
<1>1. ASSUME NEW w \in Workers, WrapperStep(w) PROVE Cardinality(queue') <= QueueMax
  <2>1. CASE Publish(w)
    BY <1>0, <2>1 DEF Publish
  <2>2. CASE ~Publish(w)
    <3>1. UNCHANGED queue
      BY <1>1, <2>2 DEF WrapperStep, Acquire, AttemptEnds, Cancelled, AttemptReturns, BackOff,
         Retry, PublishTimesOut, Overflow, Finish, bus
    <3>2. QED
      BY <3>1
  <2>3. QED
    BY <2>1, <2>2
<1>2. ASSUME NEW rest, ResumeLoop(rest) PROVE Cardinality(queue') <= QueueMax
  <2>1. queue' = {} \/ queue' = queue
    BY <1>2, ResumeLoopCases DEF bus
  <2>2. QED
    BY <1>0, <2>1
<1>3. CASE InvokeEnds \/ InvokeFails
  <2>1. UNCHANGED bus \/ ResumeLoop(run.batch)
    BY <1>3 DEF InvokeEnds, InvokeFails
  <2>2. QED
    BY <1>2, <2>1 DEF bus
<1>4. CASE BarrierGet
  <2>1. UNCHANGED queue \/ \E e \in queue : Take(e)
    BY <1>4 DEF BarrierGet
  <2>2. QED
    BY <2>1 DEF Take
<1>5. CASE BarrierDone \/ BarrierTimesOut
  BY <1>0, <1>5 DEF BarrierDone, BarrierTimesOut, bus
<1>6. CASE \/ \E w \in Workers : Spawn(w) \/ TaskStop(w)
           \/ \E t \in Turns : Submit(t) \/ CancelTurn(t) \/ StopWorkers(t) \/ Begin(t)
           \/ Notify
  BY <1>6 DEF Spawn, TaskStop, Submit, CancelTurn, StopWorkers, Begin, Notify, bus
<1>7. CASE ResumeBegin
  BY <1>2, <1>7 DEF ResumeBegin
<1>8. CASE UNCHANGED vars
  BY <1>8 DEF vars, bus
<1>9. QED
  BY <1>1, <1>3, <1>4, <1>5, <1>6, <1>7, <1>8 DEF Next, LockStep, RunStep

\* The variables keep their types and the queue of the bus its capacity: an
\* attempt never exceeds the retry policy, a count is never negative.
THEOREM CoordinatorTypes == Spec => []TypeOK
<1>1. Init => Types /\ Shape /\ Cardinality(queue) <= QueueMax
  BY TypesInit, FS_EmptySet DEF Init
<1>2. Types /\ Shape /\ Cardinality(queue) <= QueueMax /\ [Next]_vars
      => (Types /\ Shape /\ Cardinality(queue) <= QueueMax)'
  BY TypesStep, QueueStep
<1>3. Types /\ Cardinality(queue) <= QueueMax => TypeOK
  BY Zenon DEF Types, TypeOK
<1>4. QED
  BY <1>1, <1>2, <1>3, PTL DEF Spec

(***************************************************************************)
(* The wrappers: slots and lost results                                    *)
(***************************************************************************)

\* The status of a live wrapper follows its position, unless the worker is
\* being stopped, and then a cancellation is on its way.
Fates ==
    \A w \in Workers :
        /\ wrapper[w] = "waiting" => status[w] \in {"pending", "cancelling"}
        /\ wrapper[w] \in {"attempt", "ended"} => status[w] \in {"running", "cancelling"}
        /\ wrapper[w] = "backoff" => status[w] \in {"retrying", "cancelling"}
        /\ wrapper[w] \in {"waiting", "attempt", "ended", "backoff"}
              /\ status[w] = "cancelling" => w \in cancelled
        /\ wrapper[w] = "lost" => status[w] = "cancelling" /\ outcome[w] = "completed"

LEMMA StopAllFates ==
    ASSUME Types, Fates, NEW S \in SUBSET Workers, StopAll(S),
           UNCHANGED <<wrapper, outcome>>
    PROVE  Fates'
BY DEF Types, Fates, StopAll

LEMMA FinishFates ==
    ASSUME Types, Shape, Fates, NEW w \in Workers, Cancelled(w) \/ AttemptReturns(w)
    PROVE  Fates'
<1>1. CASE Cancelled(w)
  <2>1. wrapper[w] \in {"waiting", "attempt", "ended", "backoff"} /\ Finish(w, "cancelled")
    BY <1>1 DEF Cancelled
  <2>2. Allowed(status[w], "cancelled")
    BY <2>1 DEF Fates, Allowed
  <2>3. QED
    BY <2>1, <2>2 DEF Finish, Fates, Types
<1>2. CASE AttemptReturns(w)
  <2> DEFINE final == IF outcome[w] = "retry" THEN "failed" ELSE outcome[w]
  <2>1. /\ wrapper[w] = "ended" /\ Finish(w, final)
        /\ final \in {"completed", "failed", "timed_out"}
        /\ ~(w \in cancelled /\ outcome[w] = "timed_out")
    BY <1>2 DEF AttemptReturns, Shape, Types
  <2>2. CASE Allowed(status[w], final)
    BY <2>1, <2>2 DEF Finish, Fates, Types
  <2>3. CASE ~Allowed(status[w], final)
    <3>1. status[w] = "cancelling" /\ outcome[w] = "completed"
      BY <2>1, <2>3 DEF Allowed, Fates, Types
    <3>2. QED
      BY <2>1, <2>3, <3>1 DEF Finish, Fates, Types
  <2>4. QED
    BY <2>2, <2>3
<1>3. QED
  BY <1>1, <1>2

LEMMA FatesStep ==
    ASSUME Types, Shape, Fates, [Next]_vars
    PROVE  Fates'
<1>1. ASSUME NEW w \in Workers, WrapperStep(w) PROVE Fates'
  <2>1. CASE Acquire(w)
    BY <2>1 DEF Acquire, Fates, Types
  <2>2. CASE AttemptEnds(w)
    BY <2>2 DEF AttemptEnds, Fates, Types, tasks
  <2>3. CASE Cancelled(w) \/ AttemptReturns(w)
    BY <2>3, FinishFates
  <2>4. CASE BackOff(w)
    BY <2>4 DEF BackOff, Fates, Types
  <2>5. CASE Retry(w)
    BY <2>5 DEF Retry, Fates, Types
  <2>6. CASE Publish(w) \/ PublishTimesOut(w) \/ Overflow(w)
    BY <2>6 DEF Publish, PublishTimesOut, Overflow, Fates, Types, tasks
  <2>7. QED
    BY <1>1, <2>1, <2>2, <2>3, <2>4, <2>5, <2>6 DEF WrapperStep
<1>2. ASSUME NEW w \in Workers, Spawn(w) PROVE Fates'
  BY <1>2 DEF Spawn, Fates, Types
<1>3. ASSUME NEW w \in Workers, TaskStop(w) PROVE Fates'
  BY <1>3, StopAllFates DEF TaskStop
<1>4. ASSUME NEW t \in Turns, StopWorkers(t) PROVE Fates'
  BY <1>4, StopAllFates DEF StopWorkers
<1>5. CASE BarrierTimesOut
  <2>1. run.plan \ run.collected \in SUBSET Workers
    BY DEF Types
  <2>2. QED
    BY <1>5, <2>1, StopAllFates DEF BarrierTimesOut
<1>6. CASE UNCHANGED <<status, wrapper, outcome, cancelled>>
  BY <1>6 DEF Fates
<1>7. CASE InvokeEnds \/ InvokeFails \/ BarrierGet \/ BarrierDone \/ Notify \/ ResumeBegin
  BY <1>6, <1>7 DEF InvokeEnds, InvokeFails, BarrierGet, BarrierDone, Notify, ResumeBegin,
     tasks, wrappers
<1>8. CASE \E t \in Turns : Submit(t) \/ CancelTurn(t) \/ Begin(t)
  BY <1>6, <1>8 DEF Submit, CancelTurn, Begin, tasks, wrappers
<1>9. CASE UNCHANGED vars
  BY <1>6, <1>9 DEF vars, tasks, wrappers
<1>10. QED
  BY <1>1, <1>2, <1>3, <1>4, <1>5, <1>7, <1>8, <1>9 DEF Next, LockStep, RunStep

\* A worker whose result is never published completed while it was being
\* stopped: no other order of attempts, retries, timeouts and stops loses it.
THEOREM OnlyAStoppedWorkerIsLost == Spec => []LostOnlyWhenStopped
<1>1. Init => Types /\ Shape /\ Fates
  BY TypesInit DEF Init, Fates
<1>2. Types /\ Shape /\ Fates /\ [Next]_vars => (Types /\ Shape /\ Fates)'
  BY TypesStep, FatesStep
<1>3. Fates => LostOnlyWhenStopped
  BY DEF Fates, LostOnlyWhenStopped
<1>4. QED
  BY <1>1, <1>2, <1>3, PTL DEF Spec

LEMMA SlotsStep ==
    ASSUME Types, Shape, SlotsAreCounted, [Next]_vars
    PROVE  SlotsAreCounted'
<1>0. IsFiniteSet(holds) /\ Cardinality(holds) \in Nat
  BY FS_Subset, FS_CardinalityType DEF Types
<1>1. ASSUME NEW w \in Workers, Acquire(w) PROVE SlotsAreCounted'
  <2>1. w \notin holds
    BY <1>1 DEF Acquire, SlotsAreCounted
  <2>2. Cardinality(holds \cup {w}) = Cardinality(holds) + 1
    BY <1>0, <2>1, FS_AddElement
  <2>3. running' = Cardinality(holds') /\ running' <= Slots
    BY <1>0, <1>1, <2>2 DEF Acquire, SlotsAreCounted
  <2>4. \A v \in holds' : wrapper'[v] \in {"attempt", "ended", "backoff"}
    BY <1>1 DEF Acquire, SlotsAreCounted, Types
  <2>5. QED
    BY <2>3, <2>4 DEF SlotsAreCounted
<1>2. ASSUME NEW w \in Workers, NEW final, Finish(w, final) PROVE SlotsAreCounted'
  <2>1. /\ holds' = holds \ {w}
        /\ running' = IF w \in holds THEN running - 1 ELSE running
        /\ \/ wrapper' = [wrapper EXCEPT ![w] = "publish"]
           \/ wrapper' = [wrapper EXCEPT ![w] = "lost"]
    BY <1>2 DEF Finish
  <2>2. Cardinality(holds \ {w}) = IF w \in holds THEN Cardinality(holds) - 1
                                    ELSE Cardinality(holds)
    BY <1>0, FS_RemoveElement
  <2>3. running' = Cardinality(holds') /\ running' <= Slots
    BY <1>0, <2>1, <2>2 DEF SlotsAreCounted
  <2>4. \A v \in holds' : wrapper'[v] \in {"attempt", "ended", "backoff"}
    BY <2>1 DEF SlotsAreCounted, Types
  <2>5. QED
    BY <2>3, <2>4 DEF SlotsAreCounted
<1>3. ASSUME NEW w \in Workers, UNCHANGED <<holds, running>>,
             NEW pc, wrapper' = [wrapper EXCEPT ![w] = pc],
             pc \in {"attempt", "ended", "backoff"} \/ w \notin holds
      PROVE  SlotsAreCounted'
  BY <1>3 DEF SlotsAreCounted, Types
<1>4. ASSUME NEW w \in Workers, WrapperStep(w) PROVE SlotsAreCounted'
  <2>1. CASE AttemptEnds(w) \/ BackOff(w) \/ Retry(w)
    BY <1>3, <2>1 DEF AttemptEnds, BackOff, Retry, tasks
  <2>2. CASE Publish(w) \/ PublishTimesOut(w) \/ Overflow(w)
    <3>1. w \notin holds
      BY <2>2 DEF Publish, PublishTimesOut, Overflow, SlotsAreCounted
    <3>2. QED
      BY <1>3, <2>2, <3>1 DEF Publish, PublishTimesOut, Overflow, tasks
  <2>3. CASE Cancelled(w) \/ AttemptReturns(w)
    BY <1>2, <2>3 DEF Cancelled, AttemptReturns
  <2>4. QED
    BY <1>1, <1>4, <2>1, <2>2, <2>3 DEF WrapperStep
<1>5. ASSUME NEW w \in Workers, Spawn(w) PROVE SlotsAreCounted'
  <2>1. wrapper[w] = "none"
    BY <1>5 DEF Spawn, Shape
  <2>2. w \notin holds
    BY <2>1 DEF SlotsAreCounted
  <2>3. QED
    BY <1>3, <1>5, <2>2 DEF Spawn
<1>6. CASE UNCHANGED <<holds, running, wrapper>>
  BY <1>6 DEF SlotsAreCounted
<1>7. CASE InvokeEnds \/ InvokeFails \/ RunStep \/ Notify \/ ResumeBegin
  BY <1>6, <1>7 DEF InvokeEnds, InvokeFails, RunStep, BarrierGet, BarrierDone,
     BarrierTimesOut, Notify, ResumeBegin, tasks, wrappers
<1>8. CASE \/ \E t \in Turns : Submit(t) \/ CancelTurn(t) \/ Begin(t) \/ StopWorkers(t)
           \/ \E w \in Workers : TaskStop(w)
  BY <1>6, <1>8 DEF Submit, CancelTurn, Begin, StopWorkers, TaskStop, tasks, wrappers
<1>9. CASE UNCHANGED vars
  BY <1>6, <1>9 DEF vars, tasks, wrappers
<1>10. QED
  BY <1>4, <1>5, <1>7, <1>8, <1>9 DEF Next, LockStep

\* The session never runs more workers than its limit, and every slot is
\* given back, whichever way a wrapper ends.
THEOREM SlotsStayCounted == Spec => []SlotsAreCounted
<1>1. Init => Types /\ Shape /\ SlotsAreCounted
  BY TypesInit, FS_EmptySet DEF Init, SlotsAreCounted
<1>2. Types /\ Shape /\ SlotsAreCounted /\ [Next]_vars
      => (Types /\ Shape /\ SlotsAreCounted)'
  BY TypesStep, SlotsStep
<1>3. QED
  BY <1>1, <1>2, PTL DEF Spec

(***************************************************************************)
(* Barriers: what a turn has waited for                                    *)
(***************************************************************************)

\* What a plan is made of: workers that were spawned for a turn that has
\* begun; a worker whose wrapper has come to its end is not active.
Plans ==
    /\ run.collected \subseteq run.plan
    /\ \A w \in Workers : status[w] = "none" =>
          parent[w] = None /\ w \notin active /\ w \notin consumed /\ w \notin run.plan
    /\ \A w \in active : wrapper[w] \notin {"publish", "overflow", "done"}

\* Once a plan with mode "all" is consumed its workers have ended or are
\* being stopped.
Answered ==
    \A w \in consumed : w \in active /\ WaitMode[w] = "all" => status[w] = "cancelling"

LEMMA IdlePlan == Idle.plan = {} /\ Idle.turn = None
BY DEF Idle

LEMMA FinishPlans ==
    ASSUME Types, Shape, Plans, Answered, NEW w \in Workers, NEW final \in Terminal,
           Finish(w, final)
    PROVE  Plans' /\ Answered'
<1>1. CASE Allowed(status[w], final)
  BY <1>1 DEF Finish, Types, Plans, Answered
<1>2. CASE ~Allowed(status[w], final)
  BY <1>2 DEF Finish, Types, Plans, Answered
<1>3. QED
  BY <1>1, <1>2

LEMMA WrapperPlans ==
    ASSUME Types, Shape, Fates, Plans, Answered, NEW w \in Workers, WrapperStep(w)
    PROVE  Plans' /\ Answered'
<1>1. CASE Acquire(w)
  BY <1>1 DEF Acquire, Types, Fates, Plans, Answered
<1>2. CASE AttemptEnds(w)
  BY <1>2 DEF AttemptEnds, Types, Plans, Answered, tasks
<1>3. CASE Cancelled(w)
  BY <1>3, FinishPlans DEF Cancelled
<1>4. CASE AttemptReturns(w)
  <2>1. (IF outcome[w] = "retry" THEN "failed" ELSE outcome[w]) \in Terminal
    BY <1>4 DEF Types, Shape, AttemptReturns
  <2>2. QED
    BY <1>4, <2>1, FinishPlans DEF AttemptReturns
<1>5. CASE BackOff(w)
  BY <1>5 DEF BackOff, Types, Plans, Answered
<1>6. CASE Retry(w)
  BY <1>6 DEF Retry, Types, Fates, Plans, Answered
<1>7. CASE Publish(w) \/ PublishTimesOut(w) \/ Overflow(w)
  BY <1>7 DEF Publish, PublishTimesOut, Overflow, Types, Plans, Answered, tasks
<1>8. QED
  BY <1>1, <1>2, <1>3, <1>4, <1>5, <1>6, <1>7 DEF WrapperStep

LEMMA StopAllPlans ==
    ASSUME Types, Plans, Answered, NEW S \in SUBSET Workers, StopAll(S),
           UNCHANGED <<active, parent, wrapper>>
    PROVE  /\ \A w \in Workers : status'[w] = "none" =>
                 status[w] = "none" /\ parent'[w] = None /\ w \notin active'
           /\ \A w \in active' : wrapper'[w] \notin {"publish", "overflow", "done"}
           /\ \A w \in Workers : w \in active /\ status[w] = "cancelling" =>
                 status'[w] = "cancelling"
           /\ \A w \in S : w \in active => status'[w] = "cancelling"
BY DEF Types, Plans, StopAll

\* A barrier with a worker of mode "all" is satisfied by all of its plan.
LEMMA AllAreCollected ==
    ASSUME Types, Plans, Satisfied, NEW w \in run.plan, WaitMode[w] = "all"
    PROVE  run.collected = run.plan
<1>1. run.plan \subseteq Workers /\ run.collected \subseteq run.plan
  BY DEF Types, Plans
<1>2. IsFiniteSet(run.plan)
  BY <1>1, FS_Subset
<1>3. Needed(run.plan) = Cardinality(run.plan)
  <2>1. WaitMode[w] \in {WaitMode[v] : v \in run.plan}
    OBVIOUS
  <2>2. {WaitMode[v] : v \in run.plan} # {"any"} /\ {WaitMode[v] : v \in run.plan} # {"quorum"}
    BY <2>1
  <2>3. QED
    BY <2>2 DEF Needed
<1>4. Cardinality(run.collected) >= Cardinality(run.plan)
  BY <1>3 DEF Satisfied
<1>5. /\ Cardinality(run.collected) <= Cardinality(run.plan)
      /\ Cardinality(run.collected) = Cardinality(run.plan) => run.collected = run.plan
  BY <1>1, <1>2, FS_Subset
<1>6. Cardinality(run.collected) \in Nat /\ Cardinality(run.plan) \in Nat
  BY <1>1, <1>2, FS_Subset, FS_CardinalityType
<1>7. QED
  BY <1>4, <1>5, <1>6

LEMMA BarrierPlans ==
    ASSUME Types, Shape, Books, Plans, Answered, BarrierGet \/ BarrierDone \/ BarrierTimesOut
    PROVE  Plans' /\ Answered'
<1>0. /\ run \in RunRecord /\ run.plan \subseteq Workers
      /\ \A w \in run.collected : w \in Workers /\ wrapper[w] = "done" /\ w \notin active
  BY DEF Types, RunRecord, Books, Runs, Plans
<1>1. CASE BarrierGet
  <2>1. /\ UNCHANGED <<status, active, parent, consumed, wrapper>>
        /\ \/ UNCHANGED run
           \/ \E e \in run.plan : run' = [run EXCEPT !.collected = @ \cup {e}]
    BY <1>1 DEF BarrierGet, Mine, tasks, wrappers
  <2>2. run'.collected \subseteq run'.plan /\ run'.plan = run.plan
    BY <1>0, <2>1 DEF RunRecord, Plans
  <2>3. QED
    BY <2>1, <2>2 DEF Plans, Answered
<1>2. CASE BarrierDone
  <2>1. /\ UNCHANGED <<status, active, parent, wrapper>> /\ consumed' = consumed \cup run.plan
        /\ run'.plan = {} /\ run'.collected = {} /\ Satisfied
    BY <1>0, <1>2 DEF BarrierDone, wrappers, RunRecord
  <2>2. \A w \in run.plan : WaitMode[w] = "all" => w \notin active
    BY <1>0, <2>1, AllAreCollected
  <2>3. Plans'
    BY <1>0, <2>1 DEF Plans
  <2>4. Answered'
    BY <2>1, <2>2 DEF Answered
  <2>5. QED
    BY <2>3, <2>4
<1>3. CASE BarrierTimesOut
  <2>1. /\ UNCHANGED <<active, parent, wrapper>> /\ consumed' = consumed \cup run.plan
        /\ run'.plan = {} /\ run'.collected = {} /\ StopAll(run.plan \ run.collected)
        /\ run.plan \ run.collected \in SUBSET Workers
    BY <1>0, <1>3 DEF BarrierTimesOut, RunRecord
  <2>2. /\ \A w \in Workers : status'[w] = "none" =>
              status[w] = "none" /\ parent'[w] = None /\ w \notin active'
        /\ \A w \in active' : wrapper'[w] \notin {"publish", "overflow", "done"}
        /\ \A w \in Workers : w \in active /\ status[w] = "cancelling" =>
              status'[w] = "cancelling"
        /\ \A w \in run.plan \ run.collected : w \in active => status'[w] = "cancelling"
    BY <2>1, StopAllPlans
  <2>3. Plans'
    BY <1>0, <2>1, <2>2 DEF Plans
  <2>4. Answered'
    BY <1>0, <2>1, <2>2 DEF Answered, Types
  <2>5. QED
    BY <2>3, <2>4
<1>4. QED
  BY <1>1, <1>2, <1>3

LEMMA PlansStep ==
    ASSUME Types, Shape, Books, Fates, Plans, Answered, [Next]_vars
    PROVE  Plans' /\ Answered'
<1>0. run \in RunRecord
  BY DEF Types, RunRecord
<1>1. ASSUME UNCHANGED <<status, active, parent, consumed, wrapper>>,
             run' = run \/ (run'.plan = {} /\ run'.collected = {})
      PROVE  Plans' /\ Answered'
  BY <1>1 DEF Plans, Answered
<1>2. ASSUME NEW rest, ResumeLoop(rest) PROVE run'.plan = {} /\ run'.collected = {}
  <2> DEFINE batch == IF rest = {} THEN Bus ELSE rest
  <2>1. CASE batch = {}
    <3>1. run' = Idle
      BY <1>2, <2>1, ResumeLoopCases
    <3>2. QED
      BY <3>1, IdleType, IdlePlan
  <2>2. CASE batch # {}
    <3>1. PICK t \in {parent[w] : w \in batch} :
              /\ run' = [Idle EXCEPT !.kind = "resume", !.pc = "invoke", !.turn = t,
                             !.batch = batch \ {w \in batch : parent[w] = t}]
              /\ resume' = "running"
              /\ Give({w \in batch : parent[w] = t}, t)
      BY <1>2, <2>2, ResumeLoopCases
    <3>2. QED
      BY <3>1 DEF Idle
  <2>3. QED
    BY <2>1, <2>2
<1>3. CASE InvokeEnds
  <2>0. UNCHANGED <<status, active, parent, consumed, wrapper>>
    BY <1>3 DEF InvokeEnds, tasks, wrappers
  <2>1. CASE WaitPlan(run.turn) # {}
    <3>1. /\ run' = [run EXCEPT !.pc = "barrier", !.plan = WaitPlan(run.turn),
                                !.collected = {}]
          /\ run.turn \in Turns
      BY <1>3, <2>1 DEF InvokeEnds, Shape
    <3>2. run'.plan = WaitPlan(run.turn) /\ run'.collected = {}
      BY <1>0, <3>1 DEF RunRecord
    <3>3. \A w \in WaitPlan(run.turn) : w \in Workers /\ parent[w] # None
      BY <3>1 DEF WaitPlan
    <3>4. QED
      BY <2>0, <3>2, <3>3 DEF Plans, Answered
  <2>2. CASE EndForeground(run.turn, "done")
    BY <1>1, <2>0, <2>2, IdleType, IdlePlan DEF EndForeground
  <2>3. CASE ResumeLoop(run.batch)
    BY <1>1, <1>2, <2>0, <2>3
  <2>4. QED
    BY <1>3, <2>1, <2>2, <2>3 DEF InvokeEnds
<1>4. CASE InvokeFails
  BY <1>1, <1>4, IdleType, IdlePlan DEF InvokeFails, EndForeground, tasks, wrappers
<1>5. ASSUME NEW w \in Workers, Spawn(w) PROVE Plans' /\ Answered'
  <2>1. w \notin consumed /\ status[w] = "none"
    BY <1>5 DEF Spawn, Plans
  <2>2. QED
    BY <1>5, <2>1 DEF Spawn, Plans, Answered, Types
<1>6. ASSUME NEW S \in SUBSET Workers, StopAll(S),
             UNCHANGED <<active, parent, consumed, wrapper, run>>
      PROVE  Plans' /\ Answered'
  <2>1. /\ \A w \in Workers : status'[w] = "none" =>
              status[w] = "none" /\ parent'[w] = None /\ w \notin active'
        /\ \A w \in active' : wrapper'[w] \notin {"publish", "overflow", "done"}
        /\ \A w \in Workers : w \in active /\ status[w] = "cancelling" =>
              status'[w] = "cancelling"
    BY <1>6, StopAllPlans
  <2>2. Plans'
    BY <1>6, <2>1 DEF Plans
  <2>3. Answered'
    BY <1>6, <2>1 DEF Answered, Types
  <2>4. QED
    BY <2>2, <2>3
<1>7. CASE \E w \in Workers : TaskStop(w)
  BY <1>6, <1>7 DEF TaskStop
<1>8. CASE \E t \in Turns : StopWorkers(t)
  <2>1. \A t : {w \in Workers : parent[w] = t} \in SUBSET Workers
    OBVIOUS
  <2>2. QED
    BY <1>6, <1>8, <2>1 DEF StopWorkers
<1>9. CASE \E t \in Turns : Submit(t) \/ CancelTurn(t) \/ Begin(t)
  <2>0. UNCHANGED <<status, active, parent, consumed, wrapper>>
    BY <1>9 DEF Submit, CancelTurn, Begin, tasks, wrappers
  <2>1. CASE \E t \in Turns : Submit(t) \/ CancelTurn(t)
    <3>1. run' = run \/ run' = Idle
      BY <2>1 DEF Submit, CancelTurn, EndForeground
    <3>2. run' = run \/ (run'.plan = {} /\ run'.collected = {})
      BY <3>1, IdleType, IdlePlan
    <3>3. QED
      BY <1>1, <2>0, <3>2
  <2>2. CASE \E t \in Turns : Begin(t)
    <3>1. run'.plan = {} /\ run'.collected = {}
      BY <2>2 DEF Begin, Idle
    <3>2. QED
      BY <1>1, <2>0, <3>1
  <2>3. QED
    BY <1>9, <2>1, <2>2
<1>10. CASE Notify \/ UNCHANGED vars
  <2>1. UNCHANGED <<status, active, parent, consumed, wrapper>> /\ run' = run
    BY <1>10 DEF Notify, vars, tasks, wrappers
  <2>2. QED
    BY <1>1, <2>1
<1>11. CASE ResumeBegin
  BY <1>1, <1>2, <1>11 DEF ResumeBegin, tasks, wrappers
<1>12. QED
  BY <1>3, <1>4, <1>5, <1>7, <1>8, <1>9, <1>10, <1>11, WrapperPlans, BarrierPlans
  DEF Next, LockStep, RunStep

\* The invariant of the coordinator: every part of it is inductive with the
\* parts before it.
Sound == Types /\ Shape /\ Books /\ Fates /\ Plans /\ Answered

LEMMA SoundAlways == Spec => []Sound
<1>1. Init => Sound
  <2> SUFFICES ASSUME Init PROVE Sound
    OBVIOUS
  <2>1. Types /\ Shape /\ Books
    BY TypesInit, BooksInit
  <2>2. Fates /\ Plans /\ Answered
    BY IdleType, IdlePlan DEF Init, Fates, Plans, Answered
  <2>3. QED
    BY <2>1, <2>2 DEF Sound
<1>2. Sound /\ [Next]_vars => Sound'
  BY TypesStep, BooksStep, FatesStep, PlansStep DEF Sound
<1>3. QED
  BY <1>1, <1>2, PTL DEF Spec

\* A turn is done only when the plan of its joined workers is empty.
LEMMA DoneStep ==
    ASSUME Sound, [Next]_vars, NEW t \in Turns, NEW w \in active,
           turn[t] = "running", turn'[t] = "done", parent[w] = t, Join[w],
           WaitMode[w] = "all"
    PROVE  status[w] = "cancelling"
<1>0. run.kind = "foreground" /\ run.turn = t /\ w \in Workers
  BY DEF Sound, Books, Runs, Types
<1>1. ASSUME UNCHANGED turn PROVE FALSE
  BY <1>1
<1>2. ASSUME NEW u \in Turns, NEW end, end # "done", turn' = [turn EXCEPT ![u] = end]
      PROVE  FALSE
  BY <1>2 DEF Sound, Types
<1>3. CASE InvokeEnds
  <2>1. CASE WaitPlan(t) = {}
    <3>1. w \in consumed
      BY <1>0, <2>1 DEF WaitPlan
    <3>2. QED
      BY <3>1 DEF Sound, Answered
  <2>2. CASE WaitPlan(t) # {}
    BY <1>0, <1>1, <1>3, <2>2 DEF InvokeEnds
  <2>3. QED
    BY <2>1, <2>2
<1>4. CASE InvokeFails
  <2>1. turn' = [turn EXCEPT ![t] = "failed"]
    BY <1>0, <1>4 DEF InvokeFails, EndForeground
  <2>2. QED
    BY <1>2, <2>1
<1>5. CASE \E u \in Turns : Submit(u) \/ Begin(u) \/ CancelTurn(u)
  <2>1. PICK u \in Turns : Submit(u) \/ Begin(u) \/ CancelTurn(u)
    BY <1>5
  <2>2. \E end \in {"injected", "waiting", "running", "cancelled"} :
            turn' = [turn EXCEPT ![u] = end]
    BY <2>1 DEF Submit, Begin, CancelTurn, EndForeground
  <2>3. QED
    BY <1>2, <2>2
<1>6. CASE \E v \in Workers : WrapperStep(v) \/ Spawn(v) \/ TaskStop(v)
  <2>1. UNCHANGED turn
    BY <1>6 DEF WrapperStep, Acquire, AttemptEnds, Cancelled, AttemptReturns, Finish, BackOff,
       Retry, Publish, PublishTimesOut, Overflow, Spawn, TaskStop
  <2>2. QED
    BY <1>1, <2>1
<1>7. CASE \/ \E u \in Turns : StopWorkers(u)
           \/ BarrierGet \/ BarrierDone \/ BarrierTimesOut \/ Notify \/ ResumeBegin
           \/ UNCHANGED vars
  <2>1. UNCHANGED turn
    BY <1>7 DEF StopWorkers, BarrierGet, BarrierDone, BarrierTimesOut, Notify, ResumeBegin,
       vars
  <2>2. QED
    BY <1>1, <2>1
<1>8. QED
  BY <1>3, <1>4, <1>5, <1>6, <1>7 DEF Next, LockStep, RunStep

\* A user turn that is done leaves no worker it had to wait for running
\* unnoticed: the barrier has waited for all of its plan or stopped the rest.
THEOREM JoinedWorkersAreAnswered == Spec => JoinedIsAnswered
<1>1. Sound /\ [Next]_vars =>
          [\A t \in Turns : \A w \in active :
              turn[t] = "running" /\ turn'[t] = "done" =>
                  (parent[w] = t /\ Join[w] /\ WaitMode[w] = "all" =>
                      status[w] = "cancelling")]_vars
  BY DoneStep
<1>2. QED
  BY <1>1, SoundAlways, PTL DEF Spec, JoinedIsAnswered

\* No worker belongs to a turn that has yet to begin; what the running turn
\* was told is consumed, and a plan is not.
Fresh ==
    /\ \A t \in Turns : turn[t] \in {"new", "waiting"} =>
          run.turn # t /\ \A w \in Workers : parent[w] # t
    /\ \A t \in Turns : turn[t] = "running" =>
          \A w \in Workers : given[w][t] = 0 \/ w \in consumed
    /\ \A w \in run.plan : w \notin consumed

\* A step that leaves given and consumed alone, and changes no parent but
\* that of a new worker.
LEMMA StillFresh ==
    ASSUME Sound, Fresh, UNCHANGED <<given, consumed, turn>>,
           run'.turn \in {run.turn, None}, run'.plan \subseteq run.plan,
           \A w \in Workers : parent'[w] \in {parent[w], run.turn}
    PROVE  Fresh'
BY DEF Fresh, Sound, Types

\* The running turn ends or another one is submitted or cancelled.
LEMMA TurnFresh ==
    ASSUME Sound, Fresh, UNCHANGED <<given, consumed, parent>>, NEW t \in Turns, NEW end,
           turn' = [turn EXCEPT ![t] = end],
           end = "running" => turn[t] = "waiting" /\ run'.turn = t /\ run'.plan = {},
           end # "running" => run' = run \/ (run'.turn = None /\ run'.plan = {}),
           end \in {"new", "waiting"} => turn[t] = "new" /\ run' = run
    PROVE  Fresh'
<1>1. \A w \in Workers : turn[t] = "waiting" => given[w][t] = 0
  BY DEF Fresh, Sound, Books, Given
<1>2. QED
  BY <1>1 DEF Fresh, Sound, Types

\* Results are given at a barrier, where the plan is consumed, or by a
\* resume, while no turn is running.
LEMMA ResumeFresh ==
    ASSUME Sound, Fresh, NEW rest \in SUBSET {w \in Workers : wrapper[w] = "done"},
           ResumeLoop(rest), run.kind # "foreground",
           UNCHANGED <<consumed, parent, turn>>
    PROVE  Fresh'
<1> DEFINE batch == IF rest = {} THEN Bus ELSE rest
<1>0. /\ \A t \in Turns : turn[t] # "running"
      /\ batch \subseteq {w \in Workers : wrapper[w] = "done"}
  BY DEF Sound, Books, Runs, Shape, Bus
<1>1. CASE batch = {}
  <2>1. run' = Idle
    BY <1>1, ResumeLoopCases DEF Sound
  <2>2. run'.plan = {} /\ run'.turn = None
    BY <2>1, IdlePlan
  <2>3. QED
    BY <1>0, <2>2 DEF Fresh
<1>2. CASE batch # {}
  <2>1. PICK t \in {parent[w] : w \in batch} :
            /\ run' = [Idle EXCEPT !.kind = "resume", !.pc = "invoke", !.turn = t,
                           !.batch = batch \ {w \in batch : parent[w] = t}]
            /\ resume' = "running"
            /\ Give({w \in batch : parent[w] = t}, t)
    BY <1>2, ResumeLoopCases DEF Sound
  <2>2. run'.plan = {} /\ run'.turn = t
    BY <2>1 DEF Idle
  <2>3. \E w \in Workers : t = parent[w]
    BY <1>0
  <2>4. QED
    BY <1>0, <2>2, <2>3 DEF Fresh
<1>3. QED
  BY <1>1, <1>2

LEMMA BarrierFresh ==
    ASSUME Sound, Fresh, BarrierDone \/ BarrierTimesOut
    PROVE  Fresh'
<1>0. /\ run \in RunRecord /\ run.turn \in Turns
      /\ run' = [run EXCEPT !.pc = "invoke", !.plan = {}, !.collected = {}]
      /\ consumed' = consumed \cup run.plan /\ UNCHANGED <<parent, turn>>
  BY DEF Sound, Types, RunRecord, Shape, BarrierDone, BarrierTimesOut
<1>1. run'.turn = run.turn /\ run'.plan = {}
  BY <1>0 DEF RunRecord
<1>2. \E ws \in SUBSET run.plan : Give(ws, run.turn)
  <2>1. CASE BarrierDone
    BY <2>1 DEF BarrierDone, Mine, Sound, Plans
  <2>2. CASE BarrierTimesOut
    BY <2>2 DEF BarrierTimesOut, Sound, Plans
  <2>3. QED
    BY <2>1, <2>2
<1>3. PICK ws \in SUBSET run.plan : Give(ws, run.turn)
  BY <1>2
<1>4. \A w \in Workers : w \notin ws => given'[w] = given[w]
  BY <1>3 DEF Give
<1>5. QED
  BY <1>0, <1>1, <1>3, <1>4 DEF Fresh

LEMMA FreshStep ==
    ASSUME Sound, Fresh, [Next]_vars
    PROVE  Fresh'
<1>0. run \in RunRecord
  BY DEF Sound, Types, RunRecord
<1>1. ASSUME UNCHANGED <<given, consumed, turn, run, parent>> PROVE Fresh'
  BY <1>1, StillFresh
<1>2. ASSUME NEW w \in Workers, WrapperStep(w) PROVE Fresh'
  <2>1. UNCHANGED <<given, consumed, turn, run, parent>>
    BY <1>2 DEF WrapperStep, Acquire, AttemptEnds, Cancelled, AttemptReturns, Finish, BackOff,
       Retry, Publish, PublishTimesOut, Overflow, tasks
  <2>2. QED
    BY <1>1, <2>1
<1>3. ASSUME NEW w \in Workers, Spawn(w) PROVE Fresh'
  <2>1. \A v \in Workers : parent'[v] \in {parent[v], run.turn}
    BY <1>3 DEF Spawn, Sound, Types
  <2>2. QED
    BY <1>3, <2>1, StillFresh DEF Spawn
<1>4. CASE \/ \E w \in Workers : TaskStop(w)
           \/ \E t \in Turns : StopWorkers(t)
           \/ Notify \/ UNCHANGED vars
  <2>1. UNCHANGED <<given, consumed, turn, run, parent>>
    BY <1>4 DEF TaskStop, StopWorkers, Notify, vars, tasks
  <2>2. QED
    BY <1>1, <2>1
<1>5. CASE BarrierGet
  <2>1. /\ UNCHANGED <<given, consumed, turn, parent>>
        /\ UNCHANGED run \/ \E e : run' = [run EXCEPT !.collected = @ \cup {e}]
    BY <1>5 DEF BarrierGet, tasks
  <2>2. run'.turn = run.turn /\ run'.plan = run.plan
    BY <1>0, <2>1 DEF RunRecord
  <2>3. QED
    BY <2>1, <2>2 DEF Fresh
<1>6. CASE InvokeEnds
  <2>0. UNCHANGED <<consumed, parent>>
    BY <1>6 DEF InvokeEnds, tasks
  <2>1. CASE WaitPlan(run.turn) # {}
    <3>1. /\ run' = [run EXCEPT !.pc = "barrier", !.plan = WaitPlan(run.turn),
                                !.collected = {}]
          /\ UNCHANGED <<given, turn>>
      BY <1>6, <2>1 DEF InvokeEnds
    <3>2. run'.turn = run.turn /\ run'.plan = WaitPlan(run.turn)
      BY <1>0, <3>1 DEF RunRecord
    <3>3. \A w \in WaitPlan(run.turn) : w \notin consumed
      BY DEF WaitPlan
    <3>4. QED
      BY <2>0, <3>1, <3>2, <3>3 DEF Fresh
  <2>2. CASE run.kind = "foreground" /\ EndForeground(run.turn, "done") /\ UNCHANGED given
    <3>1. /\ run' = Idle /\ turn' = [turn EXCEPT ![run.turn] = "done"] /\ run.turn \in Turns
      BY <2>2 DEF EndForeground, Sound, Books, Runs
    <3>2. QED
      BY <2>0, <2>2, <3>1, IdlePlan, TurnFresh
  <2>3. CASE /\ run.kind = "resume" /\ ResumeLoop(run.batch)
             /\ UNCHANGED <<turn, foreground>>
    <3>1. run.batch \in SUBSET {w \in Workers : wrapper[w] = "done"}
      BY DEF Sound, Shape
    <3>2. QED
      BY <2>0, <2>3, <3>1, ResumeFresh
  <2>4. QED
    BY <1>6, <2>1, <2>2, <2>3 DEF InvokeEnds
<1>7. CASE InvokeFails
  <2>0. UNCHANGED <<consumed, parent, given>>
    BY <1>7 DEF InvokeFails, tasks
  <2>1. CASE run.kind = "foreground" /\ EndForeground(run.turn, "failed")
    <3>1. /\ run' = Idle /\ turn' = [turn EXCEPT ![run.turn] = "failed"] /\ run.turn \in Turns
      BY <2>1 DEF EndForeground, Sound, Books, Runs
    <3>2. QED
      BY <2>0, <3>1, IdlePlan, TurnFresh
  <2>2. CASE run' = Idle /\ UNCHANGED <<turn, foreground>>
    BY <2>0, <2>2, IdlePlan, StillFresh
  <2>3. QED
    BY <1>7, <2>1, <2>2 DEF InvokeFails
<1>8. CASE ResumeBegin
  <2>1. run.kind # "foreground"
    BY <1>8, IdleType DEF ResumeBegin
  <2>2. /\ ResumeLoop({}) /\ {} \in SUBSET {w \in Workers : wrapper[w] = "done"}
        /\ UNCHANGED <<consumed, parent, turn>>
    BY <1>8 DEF ResumeBegin, tasks
  <2>3. QED
    BY <2>1, <2>2, ResumeFresh
<1>9. ASSUME NEW t \in Turns, Submit(t) PROVE Fresh'
  <2>1. \E end \in {"injected", "waiting"} :
            turn' = [turn EXCEPT ![t] = end] /\ turn[t] = "new" /\ run' = run
    BY <1>9 DEF Submit
  <2>2. UNCHANGED <<given, consumed, parent>>
    BY <1>9 DEF Submit, tasks
  <2>3. QED
    BY <2>1, <2>2, TurnFresh
<1>10. ASSUME NEW t \in Turns, CancelTurn(t) PROVE Fresh'
  <2>1. /\ turn' = [turn EXCEPT ![t] = "cancelled"] /\ (run' = run \/ run' = Idle)
        /\ UNCHANGED <<given, consumed, parent>>
    BY <1>10 DEF CancelTurn, EndForeground, tasks
  <2>2. QED
    BY <2>1, IdlePlan, TurnFresh
<1>11. ASSUME NEW t \in Turns, Begin(t) PROVE Fresh'
  <2>1. /\ turn' = [turn EXCEPT ![t] = "running"] /\ turn[t] = "waiting"
        /\ run'.turn = t /\ run'.plan = {}
        /\ UNCHANGED <<given, consumed, parent>>
    BY <1>11 DEF Begin, Idle, tasks
  <2>2. QED
    BY <2>1, TurnFresh
<1>12. QED
  BY <1>2, <1>3, <1>4, <1>5, <1>6, <1>7, <1>8, <1>9, <1>10, <1>11, BarrierFresh
  DEF Next, LockStep, RunStep

\* A user turn waits at a barrier for nothing it was told before: in a user
\* turn results are given by barriers only, and a barrier consumes its plan.
THEOREM ForegroundWaitsAreNeeded == Spec => []ForegroundWaitIsNeeded
<1>1. Init => Fresh
  BY IdlePlan DEF Init, Fresh
<1>2. Sound /\ Fresh /\ [Next]_vars => Fresh'
  BY FreshStep
<1>3. Sound /\ Fresh => ForegroundWaitIsNeeded
  BY DEF Sound, Types, Books, Runs, Fresh, ForegroundWaitIsNeeded
<1>4. QED
  BY <1>1, <1>2, <1>3, SoundAlways, PTL DEF Spec

=============================================================================

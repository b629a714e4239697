------------------------- MODULE SandboxPool_proof --------------------------
(***************************************************************************)
(* Proofs about SandboxPool, for any number of runtimes, users, sessions   *)
(* and handlers, any budgets and any sequence of faults.                   *)
(***************************************************************************)
EXTENDS SandboxPool, FiniteSetTheorems, TLAPS

RowType == [state : States, ext : BOOLEAN, env : Users \cup {None}, gen : Gens,
            nonce : Sessions \cup {None}]
TaskType == [pc : Pcs, s : Sessions \cup {None}, r : Runtimes \cup {None},
             then : {"idle", "reclaim", "unleased"}, refill : BOOLEAN]
LeaseType == [state : {"none", "active", "ended"}, gen : Gens,
              runtime : Runtimes \cup {None}]

\* What the position of a handler says of its arguments.
Placed(k) ==
    /\ k.pc \in {"check", "drain", "destroy", "mark", "create", "record", "boot", "execute",
                 "retrymark"} => k.r \in Runtimes
    /\ k.pc \in {"claim", "reclaim", "check", "execute"} => k.s \in Sessions
    /\ k.then = "reclaim" => k.s \in Sessions

Positions == \A w \in Workers : Placed(task[w])

\* A command on its way to Docker was admitted for the user the runtime is
\* assigned to, and only that user's code has run in it.
Tenancy ==
    /\ \A w \in Workers : At(w, "execute") =>
          row[task[w].r].env = Owner[task[w].s]
    /\ \A r \in Runtimes : ran[r] \subseteq {row[r].env}

\* The lock holder is the one that creates containers.
Locking ==
    /\ lock # None => task[lock].pc \in {"create", "record", "boot"}
    /\ \A w \in Workers : task[w].pc \in {"create", "record", "boot"} => lock = w
    /\ lock = None => queue = {}

\* Rows the lock holder may still turn into containers.
Reserved == IF lock = None THEN {} ELSE queue \cup {task[lock].r}

Budgets ==
    /\ Cardinality(container \cup Reserved) <= HostMax
    /\ Cardinality(Counted \cup Reserved) <= TotalMax

\* Fencing: an active lease carries its environment's generation, and the
\* assigned runtime of that generation is the environment's active one.
Fencing ==
    /\ \A s \in Sessions : lease[s].state = "active" =>
          /\ Authenticated(s)
          /\ lease[s].gen = env[Owner[s]].gen
          /\ version[Owner[s]] <= env[Owner[s]].gen
    /\ \A r \in Runtimes : \A u \in Users :
          row[r].state = "assigned" /\ row[r].env = u =>
             /\ row[r].gen <= env[u].gen
             /\ row[r].gen = env[u].gen => env[u].active = r

USE PoolAssumption

\* TypeOK with its record types named.
Types ==
    /\ row \in [Runtimes -> RowType]
    /\ container \in SUBSET Runtimes
    /\ env \in [Users -> [gen : Gens, active : Runtimes \cup {None}]]
    /\ version \in [Users -> 1 .. MaxVersion]
    /\ session \in [Sessions -> [state : {"new", "live", "ended"}, version : 0 .. MaxVersion]]
    /\ lease \in [Sessions -> LeaseType]
    /\ ticket \in [Sessions -> [runtime : Runtimes, gen : Gens] \cup {None}]
    /\ task \in [Workers -> TaskType]
    /\ lock \in Workers \cup {None}
    /\ queue \in SUBSET Runtimes
    /\ plan \in [listed : SUBSET Runtimes, todo : SUBSET Runtimes]
    /\ ran \in [Runtimes -> SUBSET Users]
    /\ faults \in 0 .. MaxFaults

LEMMA TypesAreTypes == Types <=> TypeOK
BY DEF Types, TypeOK, RowType, TaskType, LeaseType

Well == Types /\ Positions

EnvType == [gen : Gens, active : Runtimes \cup {None}]
SessionType == [state : {"new", "live", "ended"}, version : 0 .. MaxVersion]

\* The pieces of Types that later steps work with.
LEMMA Pieces ==
    ASSUME Well
    PROVE  /\ row \in [Runtimes -> RowType] /\ env \in [Users -> EnvType]
           /\ lease \in [Sessions -> LeaseType] /\ session \in [Sessions -> SessionType]
           /\ task \in [Workers -> TaskType]
BY DEF Well, Types, EnvType, SessionType

LEMMA IdleType == Idle \in TaskType /\ Placed(Idle) /\ Idle.pc = "idle"
BY DEF Idle, TaskType, Placed, Pcs

\* One handler moves: its record keeps its type and its arguments.
LEMMA TaskMoves ==
    ASSUME Well, NEW w \in Workers, NEW k \in TaskType, Placed(k),
           task' = [task EXCEPT ![w] = k]
    PROVE  task' \in [Workers -> TaskType] /\ Positions'
BY DEF Well, Types, Positions

LEMMA DoneMoves ==
    ASSUME Well, NEW w \in Workers, Done(w)
    PROVE  task' \in [Workers -> TaskType] /\ Positions'
<1> DEFINE k == IF task[w].then = "idle" THEN Idle
                ELSE [Idle EXCEPT !.pc = task[w].then, !.s = task[w].s]
<1>0. task[w] \in TaskType /\ Placed(task[w])
  BY DEF Well, Types, Positions
<1>1. k \in TaskType /\ Placed(k)
  BY <1>0, IdleType DEF TaskType, Placed, Idle, Pcs
<1>2. task' = [task EXCEPT ![w] = k]
  BY DEF Done
<1> HIDE DEF k
<1>3. QED
  BY <1>1, <1>2, TaskMoves

LEMMA WellInit == Init => Well
<1> SUFFICES ASSUME Init PROVE Well
  OBVIOUS
<1>1. row \in [Runtimes -> RowType]
  BY DEF Init, RowType, States, Gens
<1>2. env \in [Users -> [gen : Gens, active : Runtimes \cup {None}]]
  BY DEF Init, Gens
<1>3. lease \in [Sessions -> LeaseType]
  BY DEF Init, LeaseType, Gens
<1>4. /\ version \in [Users -> 1 .. MaxVersion]
      /\ session \in [Sessions -> [state : {"new", "live", "ended"}, version : 0 .. MaxVersion]]
  BY DEF Init
<1>5. task \in [Workers -> TaskType] /\ Positions
  BY IdleType DEF Init, Positions
<1>6. plan \in [listed : SUBSET Runtimes, todo : SUBSET Runtimes]
  BY DEF Init, NoPlan
<1>7. /\ container \in SUBSET Runtimes /\ lock \in Workers \cup {None}
      /\ queue \in SUBSET Runtimes /\ faults \in 0 .. MaxFaults
      /\ ran \in [Runtimes -> SUBSET Users]
      /\ ticket \in [Sessions -> [runtime : Runtimes, gen : Gens] \cup {None}]
  BY DEF Init
<1>8. QED
  BY <1>1, <1>2, <1>3, <1>4, <1>5, <1>6, <1>7 DEF Well, Types

\* A lease is opened, or carried over by a reset.
LEMMA LeaseMoves ==
    ASSUME NEW l \in LeaseType, NEW g \in Gens
    PROVE  /\ [l EXCEPT !.state = "active", !.gen = g] \in LeaseType
           /\ [l EXCEPT !.gen = g, !.runtime = None] \in LeaseType
BY DEF LeaseType

LEMMA BrowserWell ==
    ASSUME Well, Browser
    PROVE  Well'
<1>1. ASSUME NEW s \in Sessions, Login(s) PROVE Well'
  <2>1. version[Owner[s]] \in 0 .. MaxVersion
    BY DEF Well, Types
  <2>2. session' \in [Sessions -> [state : {"new", "live", "ended"}, version : 0 .. MaxVersion]]
    BY <1>1, <2>1 DEF Login, Well, Types
  <2>3. QED
    BY <1>1, <2>2 DEF Login, Well, Types, Positions, rows
<1>2. ASSUME NEW gone, LeasesEnd(gone) PROVE lease' \in [Sessions -> LeaseType]
  BY <1>2, Pieces DEF LeasesEnd, LeaseType
<1>3. ASSUME NEW s \in Sessions, EndSession(s) PROVE Well'
  <2>1. session' \in [Sessions -> [state : {"new", "live", "ended"}, version : 0 .. MaxVersion]]
    BY <1>3, Pieces DEF EndSession, SessionType
  <2>2. lease' \in [Sessions -> LeaseType]
    BY <1>2, <1>3 DEF EndSession
  <2>3. QED
    BY <1>3, <2>1, <2>2 DEF EndSession, Well, Types, Positions, rows
<1>4. ASSUME NEW u \in Users, ChangeAuthorization(u) PROVE Well'
  <2>1. version' \in [Users -> 1 .. MaxVersion]
    BY <1>4 DEF ChangeAuthorization, Well, Types
  <2>2. lease' \in [Sessions -> LeaseType]
    BY <1>2, <1>4 DEF ChangeAuthorization
  <2>3. QED
    BY <1>4, <2>1, <2>2 DEF ChangeAuthorization, Well, Types, Positions, rows
<1>5. ASSUME NEW t \in Tasks, NEW s \in Sessions, Open(t, s) PROVE Well'
  <2> DEFINE g == Max({env[Owner[s]].gen, session[s].version})
             k == [Idle EXCEPT !.pc = "claim", !.s = s]
  <2>1. /\ g <= MaxGen /\ env' = [env EXCEPT ![Owner[s]].gen = g]
        /\ lease' = [lease EXCEPT ![s].state = "active", ![s].gen = g]
        /\ task' = [task EXCEPT ![t] = k]
    BY <1>5 DEF Open
  <2>2. g \in {env[Owner[s]].gen, session[s].version}
    <3>1. env[Owner[s]].gen \in Int /\ session[s].version \in Int
      BY DEF Well, Types, Gens
    <3>2. QED
      BY <3>1 DEF Max
  <2>3. g \in Gens
    BY <2>1, <2>2 DEF Well, Types, Gens
  <2> HIDE DEF g
  <2>4. env' \in [Users -> [gen : Gens, active : Runtimes \cup {None}]]
    BY <2>1, <2>3, Pieces DEF EnvType
  <2>5. lease' \in [Sessions -> LeaseType]
    <3>1. [lease[s] EXCEPT !.state = "active", !.gen = g] \in LeaseType
      BY <2>3, Pieces, LeaseMoves
    <3>2. lease' = [lease EXCEPT ![s] = [lease[s] EXCEPT !.state = "active", !.gen = g]]
      BY <2>1
    <3>3. QED
      BY <3>1, <3>2, Pieces
  <2>6. k \in TaskType /\ Placed(k)
    BY IdleType DEF TaskType, Placed, Idle, Pcs
  <2>7. task' \in [Workers -> TaskType] /\ Positions'
    BY <2>1, <2>6, TaskMoves DEF Workers
  <2>8. QED
    BY <1>5, <2>4, <2>5, <2>7 DEF Open, Well, Types
<1>6. ASSUME NEW t \in Tasks, NEW s \in Sessions, Execute(t, s) PROVE Well'
  <2> DEFINE k == [Idle EXCEPT !.pc = "execute", !.s = s, !.r = ticket[s].runtime]
  <2>1. /\ ticket[s].runtime \in Runtimes
        /\ row' = [row EXCEPT ![ticket[s].runtime].nonce = None]
        /\ task' = [task EXCEPT ![t] = k]
    BY <1>6 DEF Execute, Fenced, Well, Types
  <2>2. row' \in [Runtimes -> RowType]
    BY <2>1, Pieces DEF RowType
  <2>3. k \in TaskType /\ Placed(k)
    BY <2>1, IdleType DEF TaskType, Placed, Idle, Pcs
  <2>4. task' \in [Workers -> TaskType] /\ Positions'
    BY <2>1, <2>3, TaskMoves DEF Workers
  <2>5. QED
    BY <1>6, <2>2, <2>4 DEF Execute, Well, Types, auth
<1>7. ASSUME NEW t \in Tasks, NEW s \in Sessions, Reset(t, s) PROVE Well'
  <2> DEFINE u == Owner[s]
             g == env[u].gen + 1
             k == [Idle EXCEPT !.pc = "drain", !.r = ticket[s].runtime]
  <2>1. /\ ticket[s].runtime \in Runtimes /\ g <= MaxGen
        /\ env' = [env EXCEPT ![u] = [gen |-> g, active |-> None]]
        /\ lease' = [q \in Sessions |->
                       IF Owner[q] = u /\ lease[q].state = "active"
                       THEN [lease[q] EXCEPT !.gen = g, !.runtime = None]
                       ELSE lease[q]]
        /\ task' = [task EXCEPT ![t] = k]
    BY <1>7 DEF Reset, Fenced, Well, Types
  <2>2. g \in Gens
    <3>1. env[u].gen \in Nat
      BY Pieces DEF EnvType, Gens
    <3>2. g <= MaxGen
      BY <2>1
    <3>3. QED
      BY <3>1, <3>2 DEF Gens
  <2> HIDE DEF g
  <2>3. env' \in [Users -> [gen : Gens, active : Runtimes \cup {None}]]
    BY <2>1, <2>2 DEF Well, Types
  <2>4. lease' \in [Sessions -> LeaseType]
    <3>1. \A q \in Sessions : [lease[q] EXCEPT !.gen = g, !.runtime = None] \in LeaseType
      BY <2>2, Pieces, LeaseMoves
    <3>2. QED
      BY <2>1, <3>1, Pieces
  <2>5. k \in TaskType /\ Placed(k)
    BY <2>1, IdleType DEF TaskType, Placed, Idle, Pcs
  <2>6. task' \in [Workers -> TaskType] /\ Positions'
    BY <2>1, <2>5, TaskMoves DEF Workers
  <2>7. QED
    BY <1>7, <2>3, <2>4, <2>6 DEF Reset, Well, Types
<1>8. QED
  BY <1>1, <1>3, <1>4, <1>5, <1>6, <1>7 DEF Browser

\* The ways in which a transaction changes a runtime row.
LEMMA RowMoves ==
    ASSUME NEW x \in RowType, NEW st \in States, NEW u \in Users, NEW g \in Gens,
           NEW n \in Sessions \cup {None}
    PROVE  /\ [x EXCEPT !.state = st] \in RowType
           /\ [x EXCEPT !.nonce = n] \in RowType
           /\ [x EXCEPT !.nonce = n, !.state = st] \in RowType
           /\ [x EXCEPT !.state = st, !.nonce = n] \in RowType
           /\ [x EXCEPT !.ext = TRUE, !.state = st] \in RowType
           /\ [x EXCEPT !.state = st, !.env = u, !.gen = g, !.nonce = n] \in RowType
BY DEF RowType

\* The ways in which a handler moves on.
LEMMA TaskSteps ==
    ASSUME NEW k \in TaskType, NEW pc \in Pcs, NEW r \in Runtimes \cup {None}
    PROVE  /\ [k EXCEPT !.pc = pc] \in TaskType
           /\ [k EXCEPT !.pc = pc, !.r = r] \in TaskType
           /\ [k EXCEPT !.pc = pc, !.then = "reclaim"] \in TaskType
           /\ [k EXCEPT !.pc = pc, !.refill = TRUE] \in TaskType
           /\ [k EXCEPT !.pc = pc, !.then = "idle", !.refill = TRUE] \in TaskType
BY DEF TaskType

LEMMA GotoMoves ==
    ASSUME Well, NEW w \in Workers, NEW pc \in Pcs, Goto(w, pc),
           pc \in {"destroy", "mark", "record", "boot"} => task[w].r \in Runtimes,
           pc \notin {"check", "drain", "create", "execute", "retrymark", "claim", "reclaim"}
    PROVE  task' \in [Workers -> TaskType] /\ Positions'
<1> DEFINE k == [task[w] EXCEPT !.pc = pc]
<1>1. task[w] \in TaskType /\ Placed(task[w])
  BY Pieces DEF Well, Positions
<1>2. k \in TaskType
  BY <1>1, TaskSteps
<1>3. Placed(k)
  BY <1>1 DEF Placed, TaskType
<1>4. task' = [task EXCEPT ![w] = k]
  BY DEF Goto
<1> HIDE DEF k
<1>5. QED
  BY <1>2, <1>3, <1>4, TaskMoves

LEMMA HandleWell ==
    ASSUME Well, NEW t \in Tasks, Handle(t)
    PROVE  Well'
<1>0. /\ t \in Workers /\ task[t] \in TaskType /\ Placed(task[t])
  BY Pieces DEF Well, Positions, Workers
<1>1. CASE ClaimOnce(t)
  <2> DEFINE s == task[t].s
  <2>1. s \in Sessions /\ Owner[s] \in Users
    BY <1>0, <1>1 DEF ClaimOnce, At, Placed
  <2>2. PICK r \in Claimable(s) :
            /\ row' = Bind(r, s)
            /\ env' = [env EXCEPT ![Owner[s]].active = r]
            /\ lease' = [lease EXCEPT ![s].runtime = r]
            /\ task' = [task EXCEPT ![t].pc = "check", ![t].r = r]
    BY <1>1 DEF ClaimOnce
  <2>3. r \in Runtimes
    BY DEF Claimable, Existing, Pristine
  <2>4. row' \in [Runtimes -> RowType]
    <3>1. env[Owner[s]].gen \in Gens
      BY <2>1, Pieces DEF EnvType
    <3>2. /\ [row[r] EXCEPT !.nonce = s] \in RowType
          /\ [row[r] EXCEPT !.state = "assigned", !.env = Owner[s],
                            !.gen = env[Owner[s]].gen, !.nonce = s] \in RowType
      BY <2>1, <2>3, <3>1, Pieces, RowMoves DEF States
    <3>3. \/ row' = [row EXCEPT ![r] = [row[r] EXCEPT !.nonce = s]]
          \/ row' = [row EXCEPT ![r] = [row[r] EXCEPT !.state = "assigned", !.env = Owner[s],
                                             !.gen = env[Owner[s]].gen, !.nonce = s]]
      BY <2>2 DEF Bind
    <3>4. QED
      BY <2>3, <3>2, <3>3, Pieces
  <2>5. env' \in [Users -> EnvType]
    BY <2>1, <2>2, <2>3, Pieces DEF EnvType
  <2>6. lease' \in [Sessions -> LeaseType]
    BY <2>1, <2>2, <2>3, Pieces DEF LeaseType
  <2>7. task' \in [Workers -> TaskType] /\ Positions'
    <3> DEFINE k == [task[t] EXCEPT !.pc = "check", !.r = r]
    <3>1. k \in TaskType
      BY <1>0, <2>3, TaskSteps DEF Pcs
    <3>2. Placed(k)
      BY <1>0, <2>1, <2>3 DEF Placed, TaskType
    <3>3. task' = [task EXCEPT ![t] = k]
      BY <2>2
    <3> HIDE DEF k
    <3>4. QED
      BY <1>0, <3>1, <3>2, <3>3, TaskMoves
  <2>8. QED
    BY <1>1, <2>4, <2>5, <2>6, <2>7 DEF ClaimOnce, Well, Types, EnvType
<1>2. CASE ClaimFails(t)
  <2>1. task' \in [Workers -> TaskType] /\ Positions'
    <3>1. CASE At(t, "claim") /\ task' = [task EXCEPT ![t].pc = "refill", ![t].then = "reclaim"]
      <4> DEFINE k == [task[t] EXCEPT !.pc = "refill", !.then = "reclaim"]
      <4>1. k \in TaskType
        BY <1>0, TaskSteps DEF Pcs
      <4>2. Placed(k)
        BY <1>0, <3>1 DEF Placed, TaskType, At
      <4>3. task' = [task EXCEPT ![t] = k]
        BY <3>1
      <4> HIDE DEF k
      <4>4. QED
        BY <1>0, <4>1, <4>2, <4>3, TaskMoves
    <3>2. CASE task' = [task EXCEPT ![t] = Idle]
      BY <1>0, <3>2, IdleType, TaskMoves
    <3>3. QED
      BY <1>2, <3>1, <3>2 DEF ClaimFails
  <2>2. QED
    BY <1>2, <2>1 DEF ClaimFails, Well, Types, rows, auth
<1>3. CASE KernelReady(t)
  <2>1. task' \in [Workers -> TaskType] /\ Positions'
    BY <1>0, <1>3, IdleType, TaskMoves DEF KernelReady
  <2>2. task[t].s \in Sessions /\ task[t].r \in Runtimes
    BY <1>0, <1>3 DEF KernelReady, At, Placed
  <2>3. row[task[t].r].gen \in Gens
    BY <2>2, Pieces DEF RowType
  <2>4. ticket' \in [Sessions -> [runtime : Runtimes, gen : Gens] \cup {None}]
    BY <1>3, <2>2, <2>3 DEF KernelReady, Well, Types
  <2>5. QED
    BY <1>3, <2>1, <2>4 DEF KernelReady, Well, Types, rows, auth
<1>4. CASE KernelNotReady(t)
  <2>1. task' \in [Workers -> TaskType] /\ Positions'
    <3> DEFINE k == [task[t] EXCEPT !.pc = "drain", !.then = "idle", !.refill = TRUE]
    <3>1. k \in TaskType
      BY <1>0, TaskSteps DEF Pcs
    <3>2. Placed(k)
      BY <1>0, <1>4 DEF Placed, TaskType, At, KernelNotReady
    <3>3. task' = [task EXCEPT ![t] = k]
      BY <1>4 DEF KernelNotReady
    <3> HIDE DEF k
    <3>4. QED
      BY <1>0, <3>1, <3>2, <3>3, TaskMoves
  <2>2. faults' \in 0 .. MaxFaults
    BY <1>4 DEF KernelNotReady, Fault, Well, Types
  <2>3. QED
    BY <1>4, <2>1, <2>2 DEF KernelNotReady, Well, Types, rows, auth
<1>5. CASE Run(t)
  <2>1. task' \in [Workers -> TaskType] /\ Positions'
    BY <1>0, <1>5, IdleType, TaskMoves DEF Run
  <2>2. task[t].s \in Sessions
    BY <1>0, <1>5 DEF Run, At, Placed
  <2>3. ran' \in [Runtimes -> SUBSET Users]
    BY <1>5, <2>2 DEF Run, Well, Types
  <2>4. QED
    BY <1>5, <2>1, <2>3 DEF Run, Well, Types, rows, auth
<1>6. CASE RunTimesOut(t)
  <2>1. task' \in [Workers -> TaskType] /\ Positions'
    <3> DEFINE k == [task[t] EXCEPT !.pc = "drain", !.refill = TRUE]
    <3>1. k \in TaskType
      BY <1>0, TaskSteps DEF Pcs
    <3>2. Placed(k)
      BY <1>0, <1>6 DEF Placed, TaskType, At, RunTimesOut
    <3>3. task' = [task EXCEPT ![t] = k]
      BY <1>6 DEF RunTimesOut
    <3> HIDE DEF k
    <3>4. QED
      BY <1>0, <3>1, <3>2, <3>3, TaskMoves
  <2>2. task[t].s \in Sessions
    BY <1>0, <1>6 DEF RunTimesOut, At, Placed
  <2>3. ran' \in [Runtimes -> SUBSET Users]
    BY <1>6, <2>2 DEF RunTimesOut, Well, Types
  <2>4. QED
    BY <1>6, <2>1, <2>3 DEF RunTimesOut, Well, Types, rows, auth
<1>7. QED
  BY <1>1, <1>2, <1>3, <1>4, <1>5, <1>6 DEF Handle

\* One row changes its state, and perhaps its nonce or its container id.
LEMMA RowKeepsType ==
    ASSUME Well, NEW r \in Runtimes, NEW x \in RowType, row' = [row EXCEPT ![r] = x]
    PROVE  row' \in [Runtimes -> RowType]
BY Pieces

LEMMA MarkType ==
    ASSUME Well, NEW r \in Runtimes, MarkDestroyed(r)
    PROVE  /\ row' \in [Runtimes -> RowType] /\ env' \in [Users -> EnvType]
<1> DEFINE st == IF row[r].state \in {"draining", "destroyed"} THEN "destroyed" ELSE "failed"
           x == [row[r] EXCEPT !.nonce = None, !.state = st]
<1>0. st \in States
  BY DEF States
<1>1. row' = [row EXCEPT ![r] = x]
  BY DEF MarkDestroyed
<1> HIDE DEF st
<1>2. x \in RowType
  <2>1. row[r] \in RowType
    BY Pieces
  <2>2. QED
    BY <1>0, <2>1 DEF RowType
<1> HIDE DEF x
<1>3. row' \in [Runtimes -> RowType]
  BY <1>1, <1>2, RowKeepsType
<1>4. env' \in [Users -> EnvType]
  BY Pieces DEF MarkDestroyed, EnvType
<1>5. QED
  BY <1>3, <1>4

LEMMA StateType ==
    ASSUME NEW x \in RowType, NEW st \in States
    PROVE  /\ [x EXCEPT !.state = st] \in RowType
           /\ [x EXCEPT !.state = st, !.nonce = None] \in RowType
           /\ [x EXCEPT !.ext = TRUE, !.state = st] \in RowType
BY DEF RowType

LEMMA NextCreateMoves ==
    ASSUME Well, NEW w \in Workers, NextCreate(w)
    PROVE  /\ task' \in [Workers -> TaskType] /\ Positions'
           /\ lock' \in Workers \cup {None} /\ queue' \in SUBSET Runtimes
<1>1. CASE queue = {}
  BY <1>1, DoneMoves DEF NextCreate, Well, Types
<1>2. CASE queue # {}
  <2>1. PICK r \in queue : /\ task' = [task EXCEPT ![w].pc = "create", ![w].r = r]
                           /\ queue' = queue \ {r} /\ UNCHANGED lock
    BY <1>2 DEF NextCreate
  <2> DEFINE k == [task[w] EXCEPT !.pc = "create", !.r = r]
  <2>2. task[w] \in TaskType /\ Placed(task[w]) /\ r \in Runtimes
    BY Pieces DEF Well, Types, Positions
  <2>3. k \in TaskType
    BY <2>2, TaskSteps DEF Pcs
  <2>4. Placed(k)
    BY <2>2 DEF Placed, TaskType
  <2>5. task' = [task EXCEPT ![w] = k]
    BY <2>1
  <2> HIDE DEF k
  <2>6. task' \in [Workers -> TaskType] /\ Positions'
    BY <2>3, <2>4, <2>5, TaskMoves
  <2>7. QED
    BY <2>1, <2>6 DEF Well, Types
<1>3. QED
  BY <1>1, <1>2

LEMMA ProvisionWell ==
    ASSUME Well, NEW w \in Workers, Provision(w)
    PROVE  Well'
<1> DEFINE r == task[w].r
<1>0. task[w] \in TaskType /\ Placed(task[w])
  BY Pieces DEF Well, Positions
<1>00. task[w].pc \in {"drain", "destroy", "mark", "create", "record", "boot"} =>
           r \in Runtimes /\ row[r] \in RowType
  BY <1>0, Pieces DEF Placed
<1>1. CASE Drain(w)
  <2>0. r \in Runtimes /\ row[r] \in RowType
    BY <1>00, <1>1 DEF Drain, At
  <2>1. CASE row[r].state = "assigned"
    <3>1. row' = [row EXCEPT ![r] = [row[r] EXCEPT !.state = "draining"]] /\ Goto(w, "destroy")
      BY <1>1, <2>1 DEF Drain
    <3>2. [row[r] EXCEPT !.state = "draining"] \in RowType
      BY <2>0, StateType DEF States
    <3>3. row' \in [Runtimes -> RowType]
      BY <2>0, <3>1, <3>2, RowKeepsType
    <3>4. task' \in [Workers -> TaskType] /\ Positions'
      BY <2>0, <3>1, GotoMoves DEF Pcs
    <3>5. QED
      BY <1>1, <3>3, <3>4 DEF Drain, Well, Types, auth
  <2>2. CASE row[r].state # "assigned"
    <3>1. task' \in [Workers -> TaskType] /\ Positions' /\ UNCHANGED row
      BY <1>1, <2>2, DoneMoves DEF Drain
    <3>2. QED
      BY <1>1, <3>1 DEF Drain, Well, Types, auth
  <2>3. QED
    BY <2>1, <2>2
<1>2. CASE Destroy(w)
  <2>1. task' \in [Workers -> TaskType] /\ Positions'
    BY <1>00, <1>2, GotoMoves DEF Destroy, At, Pcs
  <2>2. QED
    BY <1>2, <2>1 DEF Destroy, Well, Types, rows, auth
<1>3. CASE DestroyFails(w)
  <2>1. task' \in [Workers -> TaskType] /\ Positions'
    BY <1>3, DoneMoves DEF DestroyFails
  <2>2. faults' \in 0 .. MaxFaults
    BY <1>3 DEF DestroyFails, Fault, Well, Types
  <2>3. QED
    BY <1>3, <2>1, <2>2 DEF DestroyFails, Well, Types, rows, auth
<1>4. CASE Mark(w)
  <2>0. r \in Runtimes /\ MarkDestroyed(r)
    BY <1>00, <1>4 DEF Mark, At
  <2>1. row' \in [Runtimes -> RowType] /\ env' \in [Users -> EnvType]
    BY <2>0, MarkType
  <2>2. task' \in [Workers -> TaskType] /\ Positions'
    <3>1. CASE task[w].refill
      <4> DEFINE k == [task[w] EXCEPT !.pc = "refill", !.r = None]
      <4>1. k \in TaskType
        BY <1>0, TaskSteps DEF Pcs
      <4>2. Placed(k)
        BY <1>0 DEF Placed, TaskType
      <4>3. task' = [task EXCEPT ![w] = k]
        BY <1>4, <3>1 DEF Mark
      <4> HIDE DEF k
      <4>4. QED
        BY <4>1, <4>2, <4>3, TaskMoves
    <3>2. CASE ~task[w].refill
      BY <1>4, <3>2, DoneMoves DEF Mark
    <3>3. QED
      BY <3>1, <3>2
  <2>3. QED
    BY <1>4, <2>1, <2>2 DEF Mark, Well, Types, auth, EnvType
<1>5. CASE Create(w)
  <2>0. r \in Runtimes
    BY <1>00, <1>5 DEF Create, At
  <2>1. task' \in [Workers -> TaskType] /\ Positions'
    BY <1>5, <2>0, GotoMoves DEF Create, Pcs
  <2>2. container' \in SUBSET Runtimes
    BY <1>5, <2>0 DEF Create, Well, Types
  <2>3. QED
    BY <1>5, <2>1, <2>2 DEF Create, Well, Types, rows, auth
<1>6. CASE Record(w)
  <2>0. r \in Runtimes /\ row[r] \in RowType
    BY <1>00, <1>6 DEF Record, At
  <2>1. task' \in [Workers -> TaskType] /\ Positions'
    BY <1>6, <2>0, GotoMoves DEF Record, Pcs
  <2>2. row' = [row EXCEPT ![r] = [row[r] EXCEPT !.ext = TRUE, !.state = "created"]]
    BY <1>6 DEF Record
  <2>3. [row[r] EXCEPT !.ext = TRUE, !.state = "created"] \in RowType
    BY <2>0, StateType DEF States
  <2>4. row' \in [Runtimes -> RowType]
    BY <2>0, <2>2, <2>3, RowKeepsType
  <2>5. QED
    BY <1>6, <2>1, <2>4 DEF Record, Well, Types, auth
<1>7. CASE Booted(w)
  <2>0. r \in Runtimes /\ row[r] \in RowType
    BY <1>00, <1>7 DEF Booted, At
  <2>1. \/ row' = row
        \/ row' = [row EXCEPT ![r] = [row[r] EXCEPT !.ext = TRUE, !.state = "ready_unbound"]]
    BY <1>7 DEF Booted
  <2>2. [row[r] EXCEPT !.ext = TRUE, !.state = "ready_unbound"] \in RowType
    BY <2>0, StateType DEF States
  <2>3. row' \in [Runtimes -> RowType]
    BY <2>0, <2>1, <2>2, RowKeepsType, Pieces
  <2>4. QED
    BY <1>7, <2>3, NextCreateMoves DEF Booted, Well, Types, auth
<1>8. CASE CreateFails(w)
  <2>0. r \in Runtimes /\ row[r] \in RowType
    BY <1>00, <1>8 DEF CreateFails, At
  <2>1. row' = [row EXCEPT ![r] = [row[r] EXCEPT !.state = "failed"]]
    BY <1>8 DEF CreateFails
  <2>2. [row[r] EXCEPT !.state = "failed"] \in RowType
    BY <2>0, StateType DEF States
  <2>3. row' \in [Runtimes -> RowType]
    BY <2>0, <2>1, <2>2, RowKeepsType
  <2>4. faults' \in 0 .. MaxFaults
    BY <1>8 DEF CreateFails, Fault, Well, Types
  <2>5. container' \in SUBSET Runtimes
    BY <1>8 DEF CreateFails, Well, Types
  <2>6. QED
    BY <1>8, <2>3, <2>4, <2>5, NextCreateMoves DEF CreateFails, Well, Types, auth
<1>9. QED
  BY <1>1, <1>2, <1>3, <1>4, <1>5, <1>6, <1>7, <1>8 DEF Provision

LEMMA ReserveWell ==
    ASSUME Well, NEW w \in Workers, Reserve(w)
    PROVE  Well'
<1>1. PICK stale \in SUBSET InState(Runtimes, "creating") :
      \E rs \in kSubset(Deficit(Counted \ stale), Fresh) :
         /\ row' = [r \in Runtimes |->
                      IF r \in stale THEN [row[r] EXCEPT !.state = "failed"]
                      ELSE IF r \in rs THEN [row[r] EXCEPT !.state = "creating"]
                      ELSE row[r]]
         /\ IF rs = {} THEN Done(w) /\ UNCHANGED <<lock, queue>>
            ELSE \E r \in rs :
                   /\ task' = [task EXCEPT ![w].pc = "create", ![w].r = r]
                   /\ lock' = w /\ queue' = rs \ {r}
  BY DEF Reserve
<1>2. PICK rs \in SUBSET Runtimes :
         /\ row' = [r \in Runtimes |->
                      IF r \in stale THEN [row[r] EXCEPT !.state = "failed"]
                      ELSE IF r \in rs THEN [row[r] EXCEPT !.state = "creating"]
                      ELSE row[r]]
         /\ IF rs = {} THEN Done(w) /\ UNCHANGED <<lock, queue>>
            ELSE \E r \in rs :
                   /\ task' = [task EXCEPT ![w].pc = "create", ![w].r = r]
                   /\ lock' = w /\ queue' = rs \ {r}
  <2>1. kSubset(Deficit(Counted \ stale), Fresh) \subseteq SUBSET Runtimes
    BY DEF kSubset, Fresh
  <2>2. QED
    BY <1>1, <2>1
<1>3. row' \in [Runtimes -> RowType]
  <2>1. \A r \in Runtimes : /\ row[r] \in RowType
                            /\ [row[r] EXCEPT !.state = "failed"] \in RowType
                            /\ [row[r] EXCEPT !.state = "creating"] \in RowType
    BY Pieces, StateType DEF States
  <2>2. QED
    BY <1>2, <2>1
<1>4. /\ task' \in [Workers -> TaskType] /\ Positions'
      /\ lock' \in Workers \cup {None} /\ queue' \in SUBSET Runtimes
  <2>1. CASE rs = {}
    BY <1>2, <2>1, DoneMoves DEF Well, Types
  <2>2. CASE rs # {}
    <3>1. PICK r \in rs : /\ task' = [task EXCEPT ![w].pc = "create", ![w].r = r]
                          /\ lock' = w /\ queue' = rs \ {r}
      BY <1>2, <2>2
    <3> DEFINE k == [task[w] EXCEPT !.pc = "create", !.r = r]
    <3>2. task[w] \in TaskType /\ Placed(task[w]) /\ r \in Runtimes
      BY Pieces DEF Well, Types, Positions
    <3>3. k \in TaskType
      BY <3>2, TaskSteps DEF Pcs
    <3>4. Placed(k)
      BY <3>2 DEF Placed, TaskType
    <3>5. task' = [task EXCEPT ![w] = k]
      BY <3>1
    <3> HIDE DEF k
    <3>6. task' \in [Workers -> TaskType] /\ Positions'
      BY <3>3, <3>4, <3>5, TaskMoves
    <3>7. QED
      BY <3>1, <3>6
  <2>3. QED
    BY <2>1, <2>2
<1>5. QED
  BY <1>3, <1>4 DEF Reserve, Well, Types, auth

PlanType == [listed : SUBSET Runtimes, todo : SUBSET Runtimes]

LEMMA ReconcileWell ==
    ASSUME Well, Reconcile
    PROVE  Well'
<1>0. /\ Rec \in Workers /\ task[Rec] \in TaskType /\ Placed(task[Rec]) /\ plan \in PlanType
  BY Pieces DEF Well, Types, Positions, Workers, Rec, PlanType
<1>1. ASSUME NEW pc \in {"docker", "orphans", "retry", "unleased"}, RecGoto(pc)
      PROVE  task' \in [Workers -> TaskType] /\ Positions'
  BY <1>0, <1>1, GotoMoves DEF RecGoto, Goto, Pcs
<1>2. CASE ListRows
  <2>1. plan' \in PlanType
    BY <1>2 DEF ListRows, NoPlan, PlanType
  <2>2. QED
    BY <1>1, <1>2, <2>1 DEF ListRows, Well, Types, rows, auth, PlanType
<1>3. CASE ListContainers
  <2>1. plan' \in PlanType
    BY <1>3 DEF ListContainers, PlanType, Well, Types
  <2>2. row' \in [Runtimes -> RowType]
    <3>1. \A r \in Runtimes : /\ row[r] \in RowType
                              /\ [row[r] EXCEPT !.state = "failed", !.nonce = None] \in RowType
      BY Pieces, StateType DEF States
    <3>2. QED
      BY <1>3, <3>1 DEF ListContainers
  <2>3. task' \in [Workers -> TaskType] /\ Positions'
    BY <1>1, <1>3 DEF ListContainers
  <2>4. QED
    BY <1>3, <2>1, <2>2, <2>3 DEF ListContainers, Well, Types, auth, PlanType
<1>4. CASE ListDraining
  <2>1. plan' \in PlanType
    BY <1>0, <1>4 DEF ListDraining, InState, PlanType
  <2>2. task' \in [Workers -> TaskType] /\ Positions'
    BY <1>1, <1>4 DEF ListDraining
  <2>3. QED
    BY <1>4, <2>1, <2>2 DEF ListDraining, Well, Types, rows, auth, PlanType
<1>5. CASE ListUnleased
  <2>1. plan' \in PlanType
    BY <1>0, <1>5 DEF ListUnleased, PlanType
  <2>2. task' \in [Workers -> TaskType] /\ Positions'
    BY <1>1, <1>5 DEF ListUnleased
  <2>3. QED
    BY <1>5, <2>1, <2>2 DEF ListUnleased, Well, Types, rows, auth, PlanType
<1>6. CASE EndReconcile
  <2> DEFINE k == [Idle EXCEPT !.pc = "refill"]
  <2>1. k \in TaskType /\ Placed(k)
    BY DEF Idle, TaskType, Placed, Pcs
  <2>2. task' = [task EXCEPT ![Rec] = k]
    BY <1>6 DEF EndReconcile
  <2> HIDE DEF k
  <2>3. task' \in [Workers -> TaskType] /\ Positions'
    BY <1>0, <2>1, <2>2, TaskMoves
  <2>4. plan' \in PlanType
    BY <1>6 DEF EndReconcile, NoPlan, PlanType
  <2>5. QED
    BY <1>6, <2>3, <2>4 DEF EndReconcile, Well, Types, rows, auth, PlanType
<1>7. CASE RetryMark
  <2>1. task[Rec].r \in Runtimes
    BY <1>0, <1>7 DEF RetryMark, At, Placed
  <2>2. row' \in [Runtimes -> RowType] /\ env' \in [Users -> EnvType]
    BY <1>7, <2>1, MarkType DEF RetryMark
  <2> DEFINE k == [task[Rec] EXCEPT !.pc = "retry", !.r = None]
  <2>3. k \in TaskType
    BY <1>0, TaskSteps DEF Pcs
  <2>4. Placed(k)
    BY <1>0 DEF Placed, TaskType
  <2>5. task' = [task EXCEPT ![Rec] = k]
    BY <1>7 DEF RetryMark
  <2> HIDE DEF k
  <2>6. task' \in [Workers -> TaskType] /\ Positions'
    BY <1>0, <2>3, <2>4, <2>5, TaskMoves
  <2>7. QED
    BY <1>7, <2>2, <2>6 DEF RetryMark, Well, Types, auth, EnvType
<1>8. ASSUME NEW r \in Runtimes, DestroyOrphan(r) PROVE Well'
  <2>1. plan' \in PlanType
    BY <1>0, <1>8 DEF DestroyOrphan, PlanType
  <2>2. faults' \in 0 .. MaxFaults /\ container' \in SUBSET Runtimes
    BY <1>8 DEF DestroyOrphan, Fault, Well, Types
  <2>3. QED
    BY <1>8, <2>1, <2>2 DEF DestroyOrphan, Well, Types, Positions, rows, auth, PlanType
<1>9. ASSUME NEW r \in Runtimes, RetryDestroy(r) PROVE Well'
  <2>1. plan' \in PlanType
    BY <1>0, <1>9 DEF RetryDestroy, PlanType
  <2>2. faults' \in 0 .. MaxFaults /\ container' \in SUBSET Runtimes
    BY <1>9 DEF RetryDestroy, Fault, Well, Types
  <2>3. task' \in [Workers -> TaskType] /\ Positions'
    <3>1. CASE UNCHANGED task
      BY <3>1 DEF Well, Types, Positions
    <3>2. CASE task' = [task EXCEPT ![Rec].pc = "retrymark", ![Rec].r = r]
      <4> DEFINE k == [task[Rec] EXCEPT !.pc = "retrymark", !.r = r]
      <4>1. k \in TaskType
        BY <1>0, TaskSteps DEF Pcs
      <4>2. Placed(k)
        BY <1>0 DEF Placed, TaskType
      <4>3. task' = [task EXCEPT ![Rec] = k]
        BY <3>2
      <4> HIDE DEF k
      <4>4. QED
        BY <1>0, <4>1, <4>2, <4>3, TaskMoves
    <3>3. QED
      BY <1>9, <3>1, <3>2 DEF RetryDestroy
  <2>4. QED
    BY <1>9, <2>1, <2>2, <2>3 DEF RetryDestroy, Well, Types, rows, auth, PlanType
<1>10. ASSUME NEW r \in Runtimes, DestroyUnleased(r) PROVE Well'
  <2>1. plan' \in PlanType
    BY <1>0, <1>10 DEF DestroyUnleased, PlanType
  <2> DEFINE k == [Idle EXCEPT !.pc = "drain", !.r = r, !.then = "unleased", !.refill = TRUE]
  <2>2. k \in TaskType /\ Placed(k)
    BY DEF Idle, TaskType, Placed, Pcs
  <2>3. task' = [task EXCEPT ![Rec] = k]
    BY <1>10 DEF DestroyUnleased
  <2> HIDE DEF k
  <2>4. task' \in [Workers -> TaskType] /\ Positions'
    BY <1>0, <2>2, <2>3, TaskMoves
  <2>5. QED
    BY <1>10, <2>1, <2>4 DEF DestroyUnleased, Well, Types, rows, auth, PlanType
<1>11. QED
  BY <1>2, <1>3, <1>4, <1>5, <1>6, <1>7, <1>8, <1>9, <1>10 DEF Reconcile

LEMMA WellStep ==
    ASSUME Well, [Next]_vars
    PROVE  Well'
<1>1. CASE UNCHANGED vars
  BY <1>1 DEF vars, Well, Types, Positions
<1>2. CASE Crash
  <2>1. task' \in [Workers -> TaskType] /\ Positions'
    BY <1>2, IdleType DEF Crash, Positions
  <2>2. plan' \in PlanType /\ faults' \in 0 .. MaxFaults
    BY <1>2 DEF Crash, NoPlan, PlanType, Fault, Well, Types
  <2>3. QED
    BY <1>2, <2>1, <2>2 DEF Crash, Well, Types, rows, auth, PlanType
<1>3. ASSUME NEW r \in Runtimes, Vanish(r) PROVE Well'
  <2>1. container' \in SUBSET Runtimes /\ faults' \in 0 .. MaxFaults
    BY <1>3 DEF Vanish, Fault, Well, Types
  <2>2. QED
    BY <1>3, <2>1 DEF Vanish, Well, Types, Positions, rows, auth
<1>4. ASSUME NEW w \in Workers, DockerPsFails(w) PROVE Well'
  <2>1. task' \in [Workers -> TaskType] /\ Positions'
    BY <1>4, IdleType, TaskMoves DEF DockerPsFails
  <2>2. plan' \in PlanType /\ faults' \in 0 .. MaxFaults
    BY <1>4 DEF DockerPsFails, NoPlan, PlanType, Fault, Well, Types
  <2>3. QED
    BY <1>4, <2>1, <2>2 DEF DockerPsFails, Well, Types, rows, auth, PlanType
<1>5. QED
  BY <1>1, <1>2, <1>3, <1>4, BrowserWell, HandleWell, ProvisionWell, ReserveWell, ReconcileWell
  DEF Next

\* The rows, leases, handlers and plans keep their types: no transaction
\* writes a state, a generation or a pointer the schema does not know.
THEOREM PoolTypes == Spec => []TypeOK
<1>1. Init => Well
  BY WellInit
<1>2. Well /\ [Next]_vars => Well'
  BY WellStep
<1>3. Well => TypeOK
  BY TypesAreTypes DEF Well
<1>4. QED
  BY <1>1, <1>2, <1>3, PTL DEF Spec

(***************************************************************************)
(* What the steps do to rows and handlers                                  *)
(***************************************************************************)

\* No row changes its environment or generation, or becomes assigned.
Kept ==
    \A r \in Runtimes : /\ row'[r].env = row[r].env /\ row'[r].gen = row[r].gen
                        /\ row'[r].state = "assigned" => row[r].state = "assigned"

\* One row is replaced by one with the same environment and generation.
LEMMA OneRowKept ==
    ASSUME Well, NEW r \in Runtimes, NEW x, row' = [row EXCEPT ![r] = x],
           x.env = row[r].env, x.gen = row[r].gen,
           x.state = "assigned" => row[r].state = "assigned"
    PROVE  Kept
BY Pieces DEF Kept

LEMMA RowFields ==
    ASSUME NEW x \in RowType, NEW st, NEW n
    PROVE  /\ [x EXCEPT !.state = st].env = x.env /\ [x EXCEPT !.state = st].gen = x.gen
           /\ [x EXCEPT !.state = st].state = st
           /\ [x EXCEPT !.nonce = n].env = x.env /\ [x EXCEPT !.nonce = n].gen = x.gen
           /\ [x EXCEPT !.nonce = n].state = x.state
           /\ [x EXCEPT !.ext = TRUE, !.state = st].env = x.env
           /\ [x EXCEPT !.ext = TRUE, !.state = st].gen = x.gen
           /\ [x EXCEPT !.ext = TRUE, !.state = st].state = st
           /\ [x EXCEPT !.nonce = n, !.state = st].env = x.env
           /\ [x EXCEPT !.nonce = n, !.state = st].gen = x.gen
           /\ [x EXCEPT !.nonce = n, !.state = st].state = st
           /\ [x EXCEPT !.state = st, !.nonce = n].env = x.env
           /\ [x EXCEPT !.state = st, !.nonce = n].gen = x.gen
           /\ [x EXCEPT !.state = st, !.nonce = n].state = st
BY DEF RowType

LEMMA StillKept == row' = row => Kept
BY DEF Kept

LEMMA MarkKept ==
    ASSUME Well, NEW r \in Runtimes, MarkDestroyed(r)
    PROVE  Kept /\ row'[r].state # "assigned"
<1> DEFINE st == IF row[r].state \in {"draining", "destroyed"} THEN "destroyed" ELSE "failed"
           x == [row[r] EXCEPT !.nonce = None, !.state = st]
<1>1. row' = [row EXCEPT ![r] = x] /\ row[r] \in RowType
  BY Pieces DEF MarkDestroyed
<1>2. st # "assigned"
  OBVIOUS
<1> HIDE DEF st
<1>3. x.env = row[r].env /\ x.gen = row[r].gen /\ x.state = st
  BY <1>1, RowFields
<1> HIDE DEF x
<1>4. Kept
  BY <1>1, <1>2, <1>3, OneRowKept
<1>5. row'[r] = x
  BY <1>1, Pieces
<1>6. QED
  BY <1>2, <1>3, <1>4, <1>5

LEMMA ProvisionKept ==
    ASSUME Well, NEW w \in Workers, Provision(w)
    PROVE  Kept
<1> DEFINE r == task[w].r
<1>0. task[w].pc \in {"drain", "destroy", "mark", "create", "record", "boot"} =>
           r \in Runtimes /\ row[r] \in RowType
  BY Pieces DEF Well, Positions, Placed
<1>1. ASSUME r \in Runtimes, row[r] \in RowType,
             \E st \in {"draining", "created", "ready_unbound", "failed"} :
                \/ row' = [row EXCEPT ![r] = [row[r] EXCEPT !.state = st]]
                \/ row' = [row EXCEPT ![r] = [row[r] EXCEPT !.ext = TRUE, !.state = st]]
      PROVE  Kept
  <2>1. PICK st \in {"draining", "created", "ready_unbound", "failed"} :
            \/ row' = [row EXCEPT ![r] = [row[r] EXCEPT !.state = st]]
            \/ row' = [row EXCEPT ![r] = [row[r] EXCEPT !.ext = TRUE, !.state = st]]
    BY <1>1
  <2>2. CASE row' = [row EXCEPT ![r] = [row[r] EXCEPT !.state = st]]
    <3> DEFINE x == [row[r] EXCEPT !.state = st]
    <3>1. x.env = row[r].env /\ x.gen = row[r].gen /\ x.state = st
      BY <1>1 DEF RowType
    <3> HIDE DEF x
    <3>2. row' = [row EXCEPT ![r] = x]
      BY <2>2 DEF x
    <3>3. QED
      BY <1>1, <3>1, <3>2, OneRowKept
  <2>3. CASE row' = [row EXCEPT ![r] = [row[r] EXCEPT !.ext = TRUE, !.state = st]]
    <3> DEFINE x == [row[r] EXCEPT !.ext = TRUE, !.state = st]
    <3>1. x.env = row[r].env /\ x.gen = row[r].gen /\ x.state = st
      BY <1>1 DEF RowType
    <3> HIDE DEF x
    <3>2. row' = [row EXCEPT ![r] = x]
      BY <2>3 DEF x
    <3>3. QED
      BY <1>1, <3>1, <3>2, OneRowKept
  <2>4. QED
    BY <2>1, <2>2, <2>3
<1>2. CASE Drain(w)
  <2>1. row' = row \/ row' = [row EXCEPT ![r] = [row[r] EXCEPT !.state = "draining"]]
    BY <1>2 DEF Drain
  <2>2. QED
    BY <1>0, <1>1, <1>2, <2>1, StillKept DEF Drain, At
<1>3. CASE Destroy(w) \/ DestroyFails(w) \/ Create(w)
  BY <1>3, StillKept DEF Destroy, DestroyFails, Create, rows
<1>4. CASE Mark(w)
  BY <1>0, <1>4, MarkKept DEF Mark, At
<1>5. CASE Record(w)
  <2>1. row' = [row EXCEPT ![r] = [row[r] EXCEPT !.ext = TRUE, !.state = "created"]]
    BY <1>5 DEF Record
  <2>2. QED
    BY <1>0, <1>1, <1>5, <2>1 DEF Record, At
<1>6. CASE Booted(w)
  <2>1. \/ row' = row
        \/ row' = [row EXCEPT ![r] = [row[r] EXCEPT !.ext = TRUE, !.state = "ready_unbound"]]
    BY <1>6 DEF Booted
  <2>2. QED
    BY <1>0, <1>1, <1>6, <2>1, StillKept DEF Booted, At
<1>7. CASE CreateFails(w)
  <2>1. row' = [row EXCEPT ![r] = [row[r] EXCEPT !.state = "failed"]]
    BY <1>7 DEF CreateFails
  <2>2. QED
    BY <1>0, <1>1, <1>7, <2>1 DEF CreateFails, At
<1>8. QED
  BY <1>2, <1>3, <1>4, <1>5, <1>6, <1>7 DEF Provision

LEMMA ReserveKept ==
    ASSUME Well, NEW w \in Workers, Reserve(w)
    PROVE  Kept
<1>1. PICK stale \in SUBSET InState(Runtimes, "creating") :
      \E rs \in kSubset(Deficit(Counted \ stale), Fresh) :
         row' = [r \in Runtimes |->
                      IF r \in stale THEN [row[r] EXCEPT !.state = "failed"]
                      ELSE IF r \in rs THEN [row[r] EXCEPT !.state = "creating"]
                      ELSE row[r]]
  BY DEF Reserve
<1>2. \A r \in Runtimes : row[r] \in RowType
  BY Pieces
<1>3. \A r \in Runtimes : \/ row'[r] = row[r]
                          \/ row'[r] = [row[r] EXCEPT !.state = "failed"]
                          \/ row'[r] = [row[r] EXCEPT !.state = "creating"]
  BY <1>1
<1>4. ASSUME NEW r \in Runtimes
      PROVE  /\ row'[r].env = row[r].env /\ row'[r].gen = row[r].gen
             /\ row'[r].state = "assigned" => row[r].state = "assigned"
  BY <1>2, <1>3 DEF RowType
<1>5. QED
  BY <1>4 DEF Kept

LEMMA ReconcileKept ==
    ASSUME Well, Reconcile
    PROVE  Kept
<1>1. CASE ListContainers
  <2>1. \A r \in Runtimes : \/ row'[r] = row[r]
                            \/ row'[r] = [row[r] EXCEPT !.state = "failed", !.nonce = None]
    BY <1>1 DEF ListContainers
  <2>2. \A r \in Runtimes : row[r] \in RowType
    BY Pieces
  <2>3. ASSUME NEW r \in Runtimes
        PROVE  /\ row'[r].env = row[r].env /\ row'[r].gen = row[r].gen
               /\ row'[r].state = "assigned" => row[r].state = "assigned"
    BY <2>1, <2>2 DEF RowType
  <2>4. QED
    BY <2>3 DEF Kept
<1>2. CASE RetryMark
  <2>1. task[Rec].r \in Runtimes
    BY <1>2 DEF RetryMark, At, Well, Positions, Placed, Workers, Rec
  <2>2. QED
    BY <1>2, <2>1, MarkKept DEF RetryMark
<1>3. CASE ListRows \/ ListDraining \/ ListUnleased \/ EndReconcile
  BY <1>3, StillKept DEF ListRows, ListDraining, ListUnleased, EndReconcile, rows
<1>4. CASE \E r \in Runtimes : DestroyOrphan(r) \/ RetryDestroy(r) \/ DestroyUnleased(r)
  BY <1>4, StillKept DEF DestroyOrphan, RetryDestroy, DestroyUnleased, rows
<1>5. QED
  BY <1>1, <1>2, <1>3, <1>4 DEF Reconcile

LEMMA BrowserKept ==
    ASSUME Well, Browser
    PROVE  Kept
<1>1. CASE \/ \E s \in Sessions : Login(s) \/ EndSession(s)
           \/ \E u \in Users : ChangeAuthorization(u)
           \/ \E t \in Tasks, s \in Sessions : Open(t, s) \/ Reset(t, s)
  BY <1>1, StillKept DEF Login, EndSession, ChangeAuthorization, Open, Reset, rows
<1>2. ASSUME NEW t \in Tasks, NEW s \in Sessions, Execute(t, s) PROVE Kept
  <2>1. /\ ticket[s].runtime \in Runtimes
        /\ row' = [row EXCEPT ![ticket[s].runtime] =
                       [row[ticket[s].runtime] EXCEPT !.nonce = None]]
    BY <1>2 DEF Execute, Fenced, Well, Types
  <2> DEFINE r == ticket[s].runtime
             x == [row[r] EXCEPT !.nonce = None]
  <2>2. row[r] \in RowType /\ row' = [row EXCEPT ![r] = x]
    BY <2>1, Pieces
  <2>3. x.env = row[r].env /\ x.gen = row[r].gen /\ x.state = row[r].state
    BY <2>2 DEF RowType
  <2> HIDE DEF x
  <2>4. QED
    BY <2>1, <2>2, <2>3, OneRowKept
<1>3. QED
  BY <1>1, <1>2 DEF Browser

\* A claim is the one step that binds a row, and it binds a pristine one.
LEMMA ClaimBinds ==
    ASSUME Well, NEW t \in Tasks, ClaimOnce(t)
    PROVE  LET s == task[t].s u == Owner[s] IN
           /\ s \in Sessions /\ u \in Users /\ MayClaim(s)
           /\ \E r \in Runtimes :
                /\ env' = [env EXCEPT ![u].active = r]
                /\ lease' = [lease EXCEPT ![s].runtime = r]
                /\ task' = [task EXCEPT ![t].pc = "check", ![t].r = r]
                /\ \A q \in Runtimes \ {r} : row'[q] = row[q]
                /\ \/ /\ r \in Existing(u) /\ Kept /\ row'[r].state = row[r].state
                   \/ /\ Existing(u) = {} /\ r \in Pristine
                      /\ row'[r].env = u /\ row'[r].gen = env[u].gen
                      /\ row'[r].state = "assigned"
<1> DEFINE s == task[t].s
           u == Owner[s]
<1>1. s \in Sessions /\ u \in Users
  BY DEF ClaimOnce, At, Well, Positions, Placed, Workers
<1>2. /\ MayClaim(s)
      /\ \E r \in Claimable(s) :
            /\ row' = Bind(r, s)
            /\ env' = [env EXCEPT ![u].active = r]
            /\ lease' = [lease EXCEPT ![s].runtime = r]
            /\ task' = [task EXCEPT ![t].pc = "check", ![t].r = r]
  BY DEF ClaimOnce
<1> HIDE DEF s
<1>3. PICK r \in Claimable(s) :
            /\ row' = Bind(r, s)
            /\ env' = [env EXCEPT ![u].active = r]
            /\ lease' = [lease EXCEPT ![s].runtime = r]
            /\ task' = [task EXCEPT ![t].pc = "check", ![t].r = r]
  BY <1>2
<1>4. /\ r \in Runtimes /\ row[r] \in RowType
      /\ r \in Existing(u) \/ (Existing(u) = {} /\ r \in Pristine)
  BY Pieces DEF Claimable, Existing, Pristine
<1>5. CASE r \in Existing(u)
  <2>1. row' = [row EXCEPT ![r] = [row[r] EXCEPT !.nonce = s]]
    BY <1>3, <1>5 DEF Bind, Existing
  <2>2. Kept
    BY <1>4, <2>1, RowFields, OneRowKept
  <2>3. row'[r].state = row[r].state /\ \A q \in Runtimes \ {r} : row'[q] = row[q]
    <3>1. row'[r] = [row[r] EXCEPT !.nonce = s]
      BY <1>4, <2>1, Pieces
    <3>2. QED
      BY <1>4, <2>1, <3>1, RowFields, Pieces
  <2>4. QED
    BY <1>1, <1>2, <1>3, <1>4, <1>5, <2>2, <2>3 DEF s
<1>6. CASE Existing(u) = {} /\ r \in Pristine
  <2> DEFINE x == [row[r] EXCEPT !.state = "assigned", !.env = u, !.gen = env[u].gen, !.nonce = s]
  <2>1. row' = [row EXCEPT ![r] = x]
    BY <1>3, <1>6 DEF Bind, Pristine
  <2>2. x.env = u /\ x.gen = env[u].gen /\ x.state = "assigned"
    BY <1>4 DEF RowType
  <2> HIDE DEF x
  <2>3. row'[r] = x /\ \A q \in Runtimes \ {r} : row'[q] = row[q]
    BY <1>4, <2>1, Pieces
  <2>4. QED
    BY <1>1, <1>2, <1>3, <1>4, <1>6, <2>2, <2>3 DEF s
<1>7. QED
  BY <1>4, <1>5, <1>6

\* Positions in which a handler neither creates containers nor runs code.
Quiet == Pcs \ {"create", "record", "boot", "execute"}

\* One handler moves from a quiet position to a quiet one.
QuietMove(v) == \E k \in TaskType : /\ task' = [task EXCEPT ![v] = k]
                                    /\ k.pc \in Quiet /\ task[v].pc \in Quiet

\* A step that creates nothing, counts nothing more and runs no code.
Calm ==
    /\ UNCHANGED <<lock, queue, ran>> /\ container' \subseteq container
    /\ Counted' \subseteq Counted
    /\ task' = task \/ \E v \in Workers : QuietMove(v)

LEMMA DoneIsQuiet ==
    ASSUME Well, NEW w \in Workers, task[w].pc \in Quiet, Done(w)
    PROVE  QuietMove(w)
<1> DEFINE k == IF task[w].then = "idle" THEN Idle
                ELSE [Idle EXCEPT !.pc = task[w].then, !.s = task[w].s]
<1>0. task[w] \in TaskType
  BY Pieces
<1>1. k \in TaskType /\ k.pc \in Quiet
  BY <1>0 DEF TaskType, Idle, Pcs, Quiet
<1>2. task' = [task EXCEPT ![w] = k]
  BY DEF Done
<1> HIDE DEF k
<1>3. QED
  BY <1>1, <1>2 DEF QuietMove

LEMMA MarkedState ==
    ASSUME Well, NEW r \in Runtimes, MarkDestroyed(r)
    PROVE  row' = [row EXCEPT ![r] = row'[r]] /\ row'[r].state \in {"destroyed", "failed"}
<1>1. row[r] \in RowType
  BY Pieces
<1>2. QED
  BY <1>1, Pieces DEF MarkDestroyed, RowType

LEMMA CalmRows ==
    ASSUME row' = row
    PROVE  Counted' \subseteq Counted
BY DEF Counted

LEMMA BrowserCalm ==
    ASSUME Well, Browser
    PROVE  Calm \/ \E t \in Tasks, s \in Sessions : Execute(t, s)
<1>1. CASE \/ \E s \in Sessions : Login(s) \/ EndSession(s)
           \/ \E u \in Users : ChangeAuthorization(u)
  BY <1>1, CalmRows DEF Login, EndSession, ChangeAuthorization, rows, Calm
<1>2. ASSUME NEW t \in Tasks, NEW s \in Sessions, Open(t, s) PROVE Calm
  <2> DEFINE k == [Idle EXCEPT !.pc = "claim", !.s = s]
  <2>1. task' = [task EXCEPT ![t] = k] /\ t \in Workers /\ task[t].pc \in Quiet
    BY <1>2 DEF Open, Workers, At, Quiet, Pcs
  <2>2. k \in TaskType /\ k.pc \in Quiet
    BY DEF Idle, TaskType, Quiet, Pcs
  <2> HIDE DEF k
  <2>3. QuietMove(t)
    BY <2>1, <2>2 DEF QuietMove
  <2>4. QED
    BY <1>2, <2>1, <2>3, CalmRows DEF Open, Calm
<1>3. ASSUME NEW t \in Tasks, NEW s \in Sessions, Reset(t, s) PROVE Calm
  <2> DEFINE k == [Idle EXCEPT !.pc = "drain", !.r = ticket[s].runtime]
  <2>1. /\ task' = [task EXCEPT ![t] = k] /\ t \in Workers /\ task[t].pc \in Quiet
        /\ ticket[s].runtime \in Runtimes
    BY <1>3 DEF Reset, Fenced, Workers, At, Quiet, Pcs, Well, Types
  <2>2. k \in TaskType /\ k.pc \in Quiet
    BY <2>1 DEF Idle, TaskType, Quiet, Pcs
  <2> HIDE DEF k
  <2>3. QuietMove(t)
    BY <2>1, <2>2 DEF QuietMove
  <2>4. QED
    BY <1>3, <2>1, <2>3, CalmRows DEF Reset, Calm
<1>4. QED
  BY <1>1, <1>2, <1>3 DEF Browser

LEMMA HandleCalm ==
    ASSUME Well, NEW t \in Tasks, Handle(t)
    PROVE  Calm \/ Run(t) \/ RunTimesOut(t)
<1>0. t \in Workers /\ task[t] \in TaskType /\ Idle \in TaskType /\ Idle.pc \in Quiet
  BY Pieces, IdleType DEF Workers, Quiet, Pcs
<1>1. CASE ClaimOnce(t)
  <2>1. PICK r \in Runtimes :
            /\ task' = [task EXCEPT ![t].pc = "check", ![t].r = r]
            /\ \A q \in Runtimes \ {r} : row'[q] = row[q]
            /\ row'[r].state = row[r].state \/ r \in Pristine
    BY <1>1, ClaimBinds
  <2>2. Counted' \subseteq Counted
    BY <2>1 DEF Counted, Pristine
  <2>3. QuietMove(t)
    <3> DEFINE k == [task[t] EXCEPT !.pc = "check", !.r = r]
    <3>0. task[t].pc \in Quiet
      BY <1>1 DEF ClaimOnce, At, Quiet, Pcs
    <3>1. k \in TaskType /\ k.pc \in Quiet
      BY <1>0 DEF TaskType, Quiet, Pcs
    <3>2. task' = [task EXCEPT ![t] = k]
      BY <2>1
    <3> HIDE DEF k
    <3>3. QED
      BY <3>0, <3>1, <3>2 DEF QuietMove
  <2>4. QED
    BY <1>0, <1>1, <2>2, <2>3 DEF ClaimOnce, Calm
<1>2. CASE ClaimFails(t)
  <2>1. QuietMove(t)
    <3> DEFINE k == [task[t] EXCEPT !.pc = "refill", !.then = "reclaim"]
    <3>0. task[t].pc \in Quiet
      BY <1>2 DEF ClaimFails, At, Quiet, Pcs
    <3>1. k \in TaskType /\ k.pc \in Quiet
      BY <1>0 DEF TaskType, Quiet, Pcs
    <3>2. task' = [task EXCEPT ![t] = k] \/ task' = [task EXCEPT ![t] = Idle]
      BY <1>2 DEF ClaimFails
    <3> HIDE DEF k
    <3>3. QED
      BY <1>0, <3>0, <3>1, <3>2 DEF QuietMove
  <2>2. QED
    BY <1>0, <1>2, <2>1, CalmRows DEF ClaimFails, rows, Calm
<1>3. CASE KernelReady(t)
  <2>1. QuietMove(t)
    BY <1>0, <1>3 DEF KernelReady, At, Quiet, Pcs, QuietMove
  <2>2. QED
    BY <1>0, <1>3, <2>1, CalmRows DEF KernelReady, rows, Calm
<1>4. CASE KernelNotReady(t)
  <2>1. QuietMove(t)
    <3> DEFINE k == [task[t] EXCEPT !.pc = "drain", !.then = "idle", !.refill = TRUE]
    <3>0. task[t].pc \in Quiet
      BY <1>4 DEF KernelNotReady, At, Quiet, Pcs
    <3>1. k \in TaskType /\ k.pc \in Quiet
      BY <1>0 DEF TaskType, Quiet, Pcs
    <3>2. task' = [task EXCEPT ![t] = k]
      BY <1>4 DEF KernelNotReady
    <3> HIDE DEF k
    <3>3. QED
      BY <3>0, <3>1, <3>2 DEF QuietMove
  <2>2. QED
    BY <1>0, <1>4, <2>1, CalmRows DEF KernelNotReady, rows, Calm
<1>5. QED
  BY <1>1, <1>2, <1>3, <1>4 DEF Handle

LEMMA DestroyCalm ==
    ASSUME Well, NEW w \in Workers, Drain(w) \/ Destroy(w) \/ DestroyFails(w) \/ Mark(w)
    PROVE  Calm
<1> DEFINE r == task[w].r
<1>0. /\ task[w] \in TaskType /\ task[w].pc \in Quiet /\ r \in Runtimes /\ row[r] \in RowType
  BY Pieces DEF Well, Positions, Placed, Drain, Destroy, DestroyFails, Mark, At, Quiet, Pcs
<1>1. ASSUME NEW pc \in Quiet, Goto(w, pc) PROVE QuietMove(w)
  <2> DEFINE k == [task[w] EXCEPT !.pc = pc]
  <2>1. k \in TaskType /\ k.pc \in Quiet
    BY <1>0 DEF TaskType, Quiet
  <2>2. task' = [task EXCEPT ![w] = k]
    BY <1>1 DEF Goto
  <2> HIDE DEF k
  <2>3. QED
    BY <1>0, <2>1, <2>2 DEF QuietMove
<1>2. CASE Drain(w)
  <2>1. CASE row[r].state = "assigned"
    <3>1. row' = [row EXCEPT ![r].state = "draining"] /\ Goto(w, "destroy")
      BY <1>2, <2>1 DEF Drain
    <3>2. Counted' \subseteq Counted
      BY <1>0, <2>1, <3>1, Pieces DEF Counted, RowType
    <3>3. QuietMove(w)
      BY <1>1, <3>1 DEF Quiet, Pcs
    <3>4. QED
      BY <1>2, <3>2, <3>3 DEF Drain, Calm
  <2>2. CASE row[r].state # "assigned"
    BY <1>0, <1>2, <2>2, DoneIsQuiet, CalmRows DEF Drain, Calm
  <2>3. QED
    BY <2>1, <2>2
<1>3. CASE Destroy(w)
  <2>1. QuietMove(w)
    BY <1>1, <1>3 DEF Destroy, Quiet, Pcs
  <2>2. QED
    BY <1>3, <2>1, CalmRows DEF Destroy, rows, Calm
<1>4. CASE DestroyFails(w)
  BY <1>0, <1>4, DoneIsQuiet, CalmRows DEF DestroyFails, rows, Calm
<1>5. CASE Mark(w)
  <2>1. Counted' \subseteq Counted
    <3>1. row' = [row EXCEPT ![r] = row'[r]] /\ row'[r].state \in {"destroyed", "failed"}
      <4>1. MarkDestroyed(r)
        BY <1>5 DEF Mark
      <4>2. QED
        BY <1>0, <4>1, MarkedState
    <3>2. QED
      BY <1>0, <3>1, Pieces DEF Counted
  <2>2. QuietMove(w)
    <3>1. CASE task[w].refill
      <4> DEFINE k == [task[w] EXCEPT !.pc = "refill", !.r = None]
      <4>1. k \in TaskType /\ k.pc \in Quiet
        BY <1>0 DEF TaskType, Quiet, Pcs
      <4>2. task' = [task EXCEPT ![w] = k]
        BY <1>5, <3>1 DEF Mark
      <4> HIDE DEF k
      <4>3. QED
        BY <1>0, <4>1, <4>2 DEF QuietMove
    <3>2. CASE ~task[w].refill
      BY <1>0, <1>5, <3>2, DoneIsQuiet DEF Mark
    <3>3. QED
      BY <3>1, <3>2
  <2>3. QED
    BY <1>5, <2>1, <2>2 DEF Mark, Calm
<1>6. QED
  BY <1>2, <1>3, <1>4, <1>5

LEMMA ReconcileCalm ==
    ASSUME Well, Reconcile
    PROVE  Calm
<1>0. Rec \in Workers /\ task[Rec] \in TaskType /\ Idle \in TaskType
  BY Pieces, IdleType DEF Workers, Rec
<1>1. ASSUME NEW pc \in Quiet, RecGoto(pc), task[Rec].pc \in Quiet PROVE QuietMove(Rec)
  <2> DEFINE k == [task[Rec] EXCEPT !.pc = pc]
  <2>1. k \in TaskType /\ k.pc \in Quiet
    BY <1>0 DEF TaskType, Quiet
  <2>2. task' = [task EXCEPT ![Rec] = k]
    BY <1>1 DEF RecGoto
  <2> HIDE DEF k
  <2>3. QED
    BY <1>1, <2>1, <2>2 DEF QuietMove
<1>2. CASE ListRows \/ ListDraining \/ ListUnleased
  <2>1. QuietMove(Rec)
    BY <1>1, <1>2 DEF ListRows, ListDraining, ListUnleased, At, Quiet, Pcs
  <2>2. QED
    BY <1>0, <1>2, <2>1, CalmRows DEF ListRows, ListDraining, ListUnleased, rows, Calm
<1>3. CASE ListContainers
  <2>1. QuietMove(Rec)
    BY <1>1, <1>3 DEF ListContainers, At, Quiet, Pcs
  <2>2. \A r \in Runtimes : row[r] \in RowType
    BY Pieces
  <2>3. \A r \in Runtimes : row'[r] = row[r] \/ row'[r].state = "failed"
    BY <1>3, <2>2 DEF ListContainers, RowType
  <2>4. Counted' \subseteq Counted
    BY <2>3 DEF Counted
  <2>5. QED
    BY <1>0, <1>3, <2>1, <2>4 DEF ListContainers, Calm
<1>4. CASE EndReconcile
  <2> DEFINE k == [Idle EXCEPT !.pc = "refill"]
  <2>1. k \in TaskType /\ k.pc \in Quiet
    BY DEF Idle, TaskType, Quiet, Pcs
  <2>2. task' = [task EXCEPT ![Rec] = k] /\ task[Rec].pc \in Quiet
    BY <1>4 DEF EndReconcile, At, Quiet, Pcs
  <2> HIDE DEF k
  <2>3. QuietMove(Rec)
    BY <2>1, <2>2 DEF QuietMove
  <2>4. QED
    BY <1>0, <1>4, <2>3, CalmRows DEF EndReconcile, rows, Calm
<1>5. CASE RetryMark
  <2>0. task[Rec].r \in Runtimes /\ task[Rec].pc \in Quiet
    BY <1>0, <1>5 DEF RetryMark, At, Well, Positions, Placed, Quiet, Pcs
  <2>1. Counted' \subseteq Counted
    <3>1. /\ row' = [row EXCEPT ![task[Rec].r] = row'[task[Rec].r]]
          /\ row'[task[Rec].r].state \in {"destroyed", "failed"}
      <4>1. MarkDestroyed(task[Rec].r)
        BY <1>5 DEF RetryMark
      <4>2. QED
        BY <2>0, <4>1, MarkedState
    <3>2. QED
      BY <2>0, <3>1, Pieces DEF Counted
  <2> DEFINE k == [task[Rec] EXCEPT !.pc = "retry", !.r = None]
  <2>2. k \in TaskType /\ k.pc \in Quiet
    BY <1>0 DEF TaskType, Quiet, Pcs
  <2>3. task' = [task EXCEPT ![Rec] = k]
    BY <1>5 DEF RetryMark
  <2> HIDE DEF k
  <2>4. QuietMove(Rec)
    BY <2>0, <2>2, <2>3 DEF QuietMove
  <2>5. QED
    BY <1>0, <1>5, <2>1, <2>4 DEF RetryMark, Calm
<1>6. ASSUME NEW r \in Runtimes, DestroyOrphan(r) PROVE Calm
  BY <1>6, CalmRows DEF DestroyOrphan, rows, Calm
<1>7. ASSUME NEW r \in Runtimes, RetryDestroy(r) PROVE Calm
  <2> DEFINE k == [task[Rec] EXCEPT !.pc = "retrymark", !.r = r]
  <2>1. k \in TaskType /\ k.pc \in Quiet /\ task[Rec].pc \in Quiet
    <3>1. task[Rec].pc \in Quiet
      BY <1>7 DEF RetryDestroy, At, Quiet, Pcs
    <3>2. k \in TaskType /\ k.pc \in Quiet
      BY <1>0 DEF TaskType, Quiet, Pcs
    <3>3. QED
      BY <3>1, <3>2
  <2>2. task' = task \/ task' = [task EXCEPT ![Rec] = k]
    BY <1>7 DEF RetryDestroy
  <2> HIDE DEF k
  <2>3. task' = task \/ QuietMove(Rec)
    BY <2>1, <2>2 DEF QuietMove
  <2>4. container' \subseteq container
    BY <1>7 DEF RetryDestroy
  <2>5. QED
    BY <1>0, <1>7, <2>3, <2>4, CalmRows DEF RetryDestroy, rows, Calm
<1>8. ASSUME NEW r \in Runtimes, DestroyUnleased(r) PROVE Calm
  <2> DEFINE k == [Idle EXCEPT !.pc = "drain", !.r = r, !.then = "unleased", !.refill = TRUE]
  <2>1. k \in TaskType /\ k.pc \in Quiet
    BY DEF Idle, TaskType, Quiet, Pcs
  <2>2. task' = [task EXCEPT ![Rec] = k] /\ task[Rec].pc \in Quiet
    BY <1>8 DEF DestroyUnleased, At, Quiet, Pcs
  <2> HIDE DEF k
  <2>3. QuietMove(Rec)
    BY <2>1, <2>2 DEF QuietMove
  <2>4. QED
    BY <1>0, <1>8, <2>3, CalmRows DEF DestroyUnleased, rows, Calm
<1>9. QED
  BY <1>2, <1>3, <1>4, <1>5, <1>6, <1>7, <1>8 DEF Reconcile

\* Every step is calm, or one of those that run code or create containers.
LEMMA StepKinds ==
    ASSUME Well, [Next]_vars
    PROVE  \/ Calm
           \/ \E t \in Tasks, s \in Sessions : Execute(t, s)
           \/ \E t \in Tasks : Run(t) \/ RunTimesOut(t)
           \/ \E w \in Workers : Create(w) \/ Record(w) \/ Booted(w) \/ CreateFails(w)
                                \/ Reserve(w)
           \/ Crash
<1>1. ASSUME NEW r \in Runtimes, Vanish(r) PROVE Calm
  BY <1>1, CalmRows DEF Vanish, rows, Calm
<1>2. CASE UNCHANGED vars
  BY <1>2, CalmRows DEF vars, Calm
<1>3. ASSUME NEW w \in Workers, DockerPsFails(w) PROVE Calm
  <2>1. task[w] \in TaskType /\ task \in [Workers -> TaskType]
    BY Pieces
  <2>2. QuietMove(w)
    BY <1>3, <2>1, IdleType DEF DockerPsFails, At, Quiet, QuietMove, Pcs
  <2>3. QED
    BY <1>3, <2>2, CalmRows DEF DockerPsFails, rows, Calm
<1>4. QED
  BY <1>1, <1>2, <1>3, BrowserCalm, HandleCalm, DestroyCalm, ReconcileCalm DEF Next, Provision

LEMMA KeptOrClaimed ==
    ASSUME Well, [Next]_vars
    PROVE  Kept \/ \E t \in Tasks : ClaimOnce(t)
<1>1. CASE \/ Crash \/ (\E r \in Runtimes : Vanish(r)) \/ UNCHANGED vars
           \/ \E w \in Workers : DockerPsFails(w)
  BY <1>1, StillKept DEF Crash, Vanish, DockerPsFails, rows, vars
<1>2. ASSUME NEW t \in Tasks,
             ClaimFails(t) \/ KernelReady(t) \/ KernelNotReady(t) \/ Run(t) \/ RunTimesOut(t)
      PROVE  Kept
  BY <1>2, StillKept DEF ClaimFails, KernelReady, KernelNotReady, Run, RunTimesOut, rows
<1>3. QED
  BY <1>1, <1>2, BrowserKept, ProvisionKept, ReserveKept, ReconcileKept DEF Next, Handle

(***************************************************************************)
(* One tenant per container                                                *)
(***************************************************************************)

\* The end of a refill leaves the handler quiet; the next create does not run
\* code either.
LEMMA CreatesRunNothing ==
    ASSUME Well, NEW w \in Workers,
           Create(w) \/ Record(w) \/ Booted(w) \/ CreateFails(w) \/ Reserve(w)
    PROVE  /\ UNCHANGED ran
           /\ \A v \in Workers : v # w => task'[v] = task[v]
           /\ task'[w].pc # "execute"
<1>0. task \in [Workers -> TaskType] /\ task[w] \in TaskType
  BY Pieces
<1>1. ASSUME Done(w)
      PROVE  (\A v \in Workers : v # w => task'[v] = task[v]) /\ task'[w].pc # "execute"
  <2>1. Idle.pc = "idle" /\ [Idle EXCEPT !.pc = task[w].then, !.s = task[w].s].pc = task[w].then
    BY DEF Idle
  <2>2. QED
    BY <1>0, <1>1, <2>1 DEF Done, TaskType
<1>2. ASSUME NEW r, task' = [task EXCEPT ![w].pc = "create", ![w].r = r]
      PROVE  (\A v \in Workers : v # w => task'[v] = task[v]) /\ task'[w].pc # "execute"
  BY <1>0, <1>2 DEF TaskType
<1>3. ASSUME NEW pc, pc # "execute", Goto(w, pc)
      PROVE  (\A v \in Workers : v # w => task'[v] = task[v]) /\ task'[w].pc # "execute"
  BY <1>0, <1>3 DEF TaskType, Goto
<1>4. CASE Create(w)
  BY <1>3, <1>4 DEF Create
<1>5. CASE Record(w)
  BY <1>3, <1>5 DEF Record
<1>6. ASSUME NextCreate(w)
      PROVE  (\A v \in Workers : v # w => task'[v] = task[v]) /\ task'[w].pc # "execute"
  BY <1>1, <1>2, <1>6 DEF NextCreate
<1>7. CASE Booted(w) \/ CreateFails(w)
  BY <1>6, <1>7 DEF Booted, CreateFails
<1>8. CASE Reserve(w)
  BY <1>1, <1>2, <1>8 DEF Reserve
<1>9. QED
  BY <1>4, <1>5, <1>7, <1>8

LEMMA TenancyStep ==
    ASSUME Well, Tenancy, [Next]_vars
    PROVE  Tenancy'
<1>0. task \in [Workers -> TaskType] /\ Positions /\ ran \in [Runtimes -> SUBSET Users]
  BY Pieces DEF Well, Types
<1>1. \A r \in Runtimes : row[r].env # None => row'[r].env = row[r].env
  <2>1. CASE Kept
    BY <2>1 DEF Kept
  <2>2. ASSUME NEW t \in Tasks, ClaimOnce(t)
        PROVE  \A r \in Runtimes : row[r].env # None => row'[r].env = row[r].env
    BY <2>2, ClaimBinds DEF Kept, Pristine
  <2>3. QED
    BY <2>1, <2>2, KeptOrClaimed
<1> DEFINE Admitted(k) == /\ k.r \in Runtimes /\ k.s \in Sessions
                         /\ row[k.r].env = Owner[k.s]
<1>2. \A w \in Workers : At(w, "execute") => Admitted(task[w])
  BY <1>0 DEF Tenancy, At, Positions, Placed
<1> DEFINE Goal == /\ \A w \in Workers : task'[w].pc = "execute" => Admitted(task'[w])
                   /\ \A r \in Runtimes :
                        \/ ran'[r] = ran[r]
                        \/ ran'[r] = ran[r] \cup {row[r].env} /\ row[r].env \in Users
<1>3. Goal
  <2>1. CASE Calm
    <3>1. \A w \in Workers : task'[w].pc = "execute" => task'[w] = task[w]
      BY <1>0, <2>1 DEF Calm, QuietMove, Quiet
    <3>2. QED
      BY <1>2, <2>1, <3>1 DEF Calm, At
  <2>2. ASSUME NEW t \in Tasks, NEW s \in Sessions, Execute(t, s) PROVE Goal
    <3> DEFINE k == [Idle EXCEPT !.pc = "execute", !.s = s, !.r = ticket[s].runtime]
    <3>1. /\ task' = [task EXCEPT ![t] = k] /\ UNCHANGED ran
          /\ ticket[s].runtime \in Runtimes /\ row[ticket[s].runtime].env = Owner[s]
      BY <2>2 DEF Execute, Fenced, Well, Types
    <3>2. k.s = s /\ k.r = ticket[s].runtime
      BY DEF Idle
    <3> HIDE DEF k
    <3>3. Admitted(k)
      BY <3>1, <3>2
    <3>4. \A w \in Workers : task'[w] = k \/ task'[w] = task[w]
      BY <1>0, <3>1
    <3>5. QED
      BY <1>2, <3>1, <3>3, <3>4 DEF At
  <2>3. ASSUME NEW t \in Tasks, Run(t) \/ RunTimesOut(t) PROVE Goal
    <3>0. At(t, "execute") /\ t \in Workers /\ task[t] \in TaskType
      BY <1>0, <2>3 DEF Run, RunTimesOut, Workers
    <3>1. \A w \in Workers : task'[w].pc = "execute" => task'[w] = task[w]
      <4>1. CASE Run(t)
        BY <1>0, <4>1, IdleType DEF Run
      <4>2. CASE RunTimesOut(t)
        BY <1>0, <3>0, <4>2 DEF RunTimesOut, TaskType
      <4>3. QED
        BY <2>3, <4>1, <4>2
    <3>2. Admitted(task[t])
      BY <1>2, <3>0
    <3>3. \A r \in Runtimes : \/ ran'[r] = ran[r]
                              \/ ran'[r] = ran[r] \cup {Owner[task[t].s]} /\ r = task[t].r
      BY <1>0, <2>3, <3>2 DEF Run, RunTimesOut
    <3>4. Owner[task[t].s] = row[task[t].r].env /\ Owner[task[t].s] \in Users
      BY <3>2
    <3>5. QED
      BY <1>2, <3>1, <3>3, <3>4 DEF At
  <2>4. ASSUME NEW w \in Workers,
               Create(w) \/ Record(w) \/ Booted(w) \/ CreateFails(w) \/ Reserve(w)
        PROVE  Goal
    BY <1>2, <2>4, CreatesRunNothing DEF At
  <2>5. CASE Crash
    BY <2>5, IdleType DEF Crash, At
  <2>6. QED
    BY <2>1, <2>2, <2>3, <2>4, <2>5, StepKinds
<1>4. \A w \in Workers : task'[w].pc = "execute" => row'[task'[w].r].env = Owner[task'[w].s]
  <2>1. \A q \in Sessions : Owner[q] # None
    OBVIOUS
  <2>2. QED
    BY <1>1, <1>3, <2>1
<1>5. \A r \in Runtimes : ran'[r] \subseteq {row'[r].env}
  BY <1>0, <1>1, <1>3 DEF Tenancy
<1>6. QED
  BY <1>4, <1>5 DEF Tenancy, At

\* A container runs the code of one user at most, for any number of users,
\* runtimes and handlers and whatever fails in between.
THEOREM ContainersHaveOneTenant == Spec => []OneTenant
<1>1. Init => Well /\ Tenancy
  BY WellInit, IdleType DEF Init, Tenancy, At
<1>2. Well /\ Tenancy /\ [Next]_vars => (Well /\ Tenancy)'
  BY WellStep, TenancyStep
<1>3. Well /\ Tenancy => OneTenant
  <2> SUFFICES ASSUME Well, Tenancy, NEW r \in Runtimes
               PROVE  Cardinality(ran[r]) <= 1 /\ (ran[r] # {} => row[r].env \in ran[r])
    BY DEF OneTenant
  <2>1. ran[r] = {} \/ ran[r] = {row[r].env}
    BY DEF Tenancy
  <2>2. Cardinality({}) = 0 /\ Cardinality({row[r].env}) = 1
    BY FS_EmptySet, FS_Singleton
  <2>3. QED
    BY <2>1, <2>2
<1>4. QED
  BY <1>1, <1>2, <1>3, PTL DEF Spec

(***************************************************************************)
(* The budgets of the host and of the pool                                 *)
(***************************************************************************)

Making == {"create", "record", "boot"}

\* A step that leaves the lock, and the handler that creates, alone.
Aside ==
    /\ UNCHANGED <<lock, queue>> /\ container' \subseteq container
    /\ Counted' \subseteq Counted
    /\ \A w \in Workers : task[w].pc \in Making \/ task'[w].pc \in Making =>
          task'[w] = task[w]

LEMMA AsideOrMaking ==
    ASSUME Well, [Next]_vars
    PROVE  \/ Aside
           \/ \E w \in Workers : Create(w) \/ Record(w) \/ Booted(w) \/ CreateFails(w)
                                \/ Reserve(w)
           \/ Crash
<1>0. task \in [Workers -> TaskType] /\ row \in [Runtimes -> RowType]
  BY Pieces
<1>1. CASE Calm
  BY <1>0, <1>1 DEF Calm, QuietMove, Quiet, Making, Aside
<1>2. ASSUME NEW t \in Tasks, NEW s \in Sessions, Execute(t, s) PROVE Aside
  <2> DEFINE k == [Idle EXCEPT !.pc = "execute", !.s = s, !.r = ticket[s].runtime]
             r == ticket[s].runtime
  <2>1. /\ task' = [task EXCEPT ![t] = k] /\ task[t].pc = "idle" /\ t \in Workers
        /\ r \in Runtimes /\ row' = [row EXCEPT ![r].nonce = None]
        /\ UNCHANGED <<lock, queue, container>>
    BY <1>2 DEF Execute, Fenced, Well, Types, At, Workers
  <2>2. k.pc = "execute"
    BY DEF Idle
  <2>3. Counted' \subseteq Counted
    BY <1>0, <2>1 DEF Counted, RowType
  <2> HIDE DEF k
  <2>4. QED
    BY <1>0, <2>1, <2>2, <2>3 DEF Aside, Making
<1>3. ASSUME NEW t \in Tasks, Run(t) \/ RunTimesOut(t) PROVE Aside
  <2>0. task[t].pc = "execute" /\ t \in Workers /\ task[t] \in TaskType
    BY <1>0, <1>3 DEF Run, RunTimesOut, At, Workers
  <2>1. \A w \in Workers : w # t => task'[w] = task[w]
    BY <1>0, <1>3 DEF Run, RunTimesOut
  <2>2. task'[t].pc \in {"idle", "drain"}
    BY <1>0, <1>3, <2>0, IdleType DEF Run, RunTimesOut, TaskType
  <2>3. UNCHANGED <<lock, queue, container>> /\ Counted' \subseteq Counted
    BY <1>3, CalmRows DEF Run, RunTimesOut, rows
  <2>4. QED
    BY <2>0, <2>1, <2>2, <2>3 DEF Aside, Making
<1>4. QED
  BY <1>1, <1>2, <1>3, StepKinds

LEMMA ReservedIsFinite ==
    ASSUME Well, Locking
    PROVE  /\ container \cup Reserved \subseteq Runtimes
           /\ Counted \cup Reserved \subseteq Runtimes
           /\ IsFiniteSet(container \cup Reserved)
           /\ IsFiniteSet(Counted \cup Reserved)
<1>1. lock # None => lock \in Workers /\ task[lock].r \in Runtimes
  BY DEF Well, Types, Positions, Placed, Locking
<1>2. container \subseteq Runtimes /\ queue \subseteq Runtimes /\ Counted \subseteq Runtimes
  BY DEF Well, Types, Counted
<1>3. container \cup Reserved \subseteq Runtimes /\ Counted \cup Reserved \subseteq Runtimes
  BY <1>1, <1>2 DEF Reserved
<1>4. QED
  BY <1>3, FS_Subset

\* Neither budget grows when both sets shrink.
LEMMA BudgetsShrink ==
    ASSUME Well, Locking, Budgets,
           (container \cup Reserved)' \subseteq container \cup Reserved,
           (Counted \cup Reserved)' \subseteq Counted \cup Reserved
    PROVE  Budgets'
<1> DEFINE a == container \cup Reserved
           b == Counted \cup Reserved
<1>1. IsFiniteSet(a) /\ IsFiniteSet(b) /\ Cardinality(a) <= HostMax /\ Cardinality(b) <= TotalMax
  BY ReservedIsFinite DEF Budgets
<1>2. /\ Cardinality(a') <= Cardinality(a) /\ Cardinality(a) \in Nat /\ Cardinality(a') \in Nat
      /\ Cardinality(b') <= Cardinality(b) /\ Cardinality(b) \in Nat /\ Cardinality(b') \in Nat
  <2>1. a' \in SUBSET a /\ b' \in SUBSET b
    OBVIOUS
  <2> HIDE DEF a, b
  <2>2. IsFiniteSet(a') /\ IsFiniteSet(b')
    BY <1>1, <2>1, FS_Subset
  <2>3. QED
    BY <1>1, <2>1, <2>2, FS_Subset, FS_CardinalityType
<1>3. Cardinality(a') <= HostMax /\ Cardinality(b') <= TotalMax
  <2> HIDE DEF a, b
  <2>1. QED
    BY <1>1, <1>2
<1>4. QED
  BY <1>3 DEF Budgets

LEMMA AsideBudgets ==
    ASSUME Well, Locking, Budgets, Aside
    PROVE  Locking' /\ Budgets'
<1>1. lock \in Workers \cup {None}
  BY DEF Well, Types
<1>2. Reserved' = Reserved
  BY <1>1 DEF Aside, Reserved, Locking, Making
<1>3. Locking'
  BY <1>1 DEF Aside, Locking, Making
<1>4. /\ (container \cup Reserved)' \subseteq container \cup Reserved
      /\ (Counted \cup Reserved)' \subseteq Counted \cup Reserved
  BY <1>2 DEF Aside
<1>5. QED
  BY <1>3, <1>4, BudgetsShrink

\* The lock holder turns reserved rows into containers, one by one.
LEMMA MakingBudgets ==
    ASSUME Well, Locking, Budgets, NEW w \in Workers,
           Create(w) \/ Record(w) \/ Booted(w) \/ CreateFails(w)
    PROVE  Locking' /\ Budgets'
<1> DEFINE x == task[w].r
<1>0. /\ lock = w /\ lock # None /\ task[w].pc \in Making /\ x \in Runtimes
      /\ task \in [Workers -> TaskType] /\ task[w] \in TaskType
      /\ row \in [Runtimes -> RowType] /\ row[x] \in RowType
  <2>1. task[w].pc \in Making
    BY DEF Create, Record, Booted, CreateFails, At, Making
  <2>2. lock = w /\ x \in Runtimes /\ w # None
    BY <2>1 DEF Locking, Making, Well, Positions, Placed, Workers
  <2>3. QED
    BY <2>1, <2>2, Pieces
<1>1. Reserved = queue \cup {x}
  BY <1>0 DEF Reserved
<1>2. \A v \in Workers : v # w => task'[v] = task[v] /\ task[v].pc \notin Making
  BY <1>0, CreatesRunNothing DEF Locking, Making
<1>3. ASSUME UNCHANGED <<lock, queue>>, task'[w].pc \in Making, task'[w].r = x
      PROVE  Locking' /\ Reserved' = Reserved
  BY <1>0, <1>1, <1>2, <1>3 DEF Locking, Reserved, Making
<1>4. ASSUME NEW pc \in Making, Goto(w, pc)
      PROVE  task'[w].pc \in Making /\ task'[w].r = x
  BY <1>0, <1>4 DEF Goto, TaskType
<1>5. ASSUME NextCreate(w)
      PROVE  Locking' /\ Reserved' \subseteq Reserved
  <2>1. CASE queue = {}
    <3>1. Done(w) /\ lock' = None /\ queue' = {}
      BY <1>5, <2>1 DEF NextCreate
    <3>2. Idle.pc = "idle" /\ [Idle EXCEPT !.pc = task[w].then, !.s = task[w].s].pc = task[w].then
      BY DEF Idle
    <3>3. task'[w].pc \notin Making
      BY <1>0, <3>1, <3>2 DEF Done, TaskType, Making
    <3>4. QED
      BY <1>2, <3>1, <3>3 DEF Locking, Reserved, Making
  <2>2. CASE queue # {}
    <3>1. PICK r \in queue : /\ task' = [task EXCEPT ![w].pc = "create", ![w].r = r]
                             /\ queue' = queue \ {r} /\ UNCHANGED lock
      BY <1>5, <2>2 DEF NextCreate
    <3>2. task'[w].pc = "create" /\ task'[w].r = r
      BY <1>0, <3>1 DEF TaskType
    <3>3. QED
      BY <1>0, <1>1, <1>2, <3>1, <3>2 DEF Locking, Reserved, Making
  <2>3. QED
    BY <2>1, <2>2
<1>6. CASE Create(w)
  <2>1. Locking' /\ Reserved' = Reserved
    BY <1>3, <1>4, <1>6 DEF Create, Making
  <2>2. container' = container \cup {x} /\ Counted' \subseteq Counted
    BY <1>6, CalmRows DEF Create, rows
  <2>3. QED
    BY <1>1, <2>1, <2>2, BudgetsShrink
<1>7. CASE Record(w)
  <2>1. Locking' /\ Reserved' = Reserved
    BY <1>3, <1>4, <1>7 DEF Record, Making
  <2>2. row' = [row EXCEPT ![x] = [row[x] EXCEPT !.ext = TRUE, !.state = "created"]]
    BY <1>7 DEF Record
  <2>3. [row[x] EXCEPT !.ext = TRUE, !.state = "created"].state = "created"
    BY <1>0 DEF RowType
  <2>4. Counted' \subseteq Counted
    BY <1>0, <2>2, <2>3 DEF Counted
  <2>5. container' = container
    BY <1>7 DEF Record
  <2>6. QED
    BY <2>1, <2>4, <2>5, BudgetsShrink
<1>8. CASE Booted(w) \/ CreateFails(w)
  <2>1. Locking' /\ Reserved' \subseteq Reserved
    BY <1>5, <1>8 DEF Booted, CreateFails
  <2>2. container' \subseteq container
    BY <1>8 DEF Booted, CreateFails
  <2>3. \A r \in Runtimes : r # x => row'[r] = row[r]
    BY <1>0, <1>8 DEF Booted, CreateFails
  <2>4. Counted' \subseteq Counted \cup {x}
    BY <2>3 DEF Counted
  <2>5. QED
    BY <1>1, <2>1, <2>2, <2>4, BudgetsShrink
<1>9. QED
  BY <1>6, <1>7, <1>8

LEMMA MaxOfTwo ==
    ASSUME NEW a \in Int, NEW b \in Int
    PROVE  Max({a, b}) = IF a >= b THEN a ELSE b
BY DEF Max

LEMMA MinOfTwo ==
    ASSUME NEW a \in Int, NEW b \in Int
    PROVE  Min({a, b}) = IF a <= b THEN a ELSE b
BY DEF Min

LEMMA MinOfThree ==
    ASSUME NEW a \in Int, NEW b \in Int, NEW c \in Int
    PROVE  Min({a, b, c}) \in Int /\ Min({a, b, c}) <= a /\ Min({a, b, c}) <= b
<1>1. \E x \in {a, b, c} : \A y \in {a, b, c} : x =< y
  <2>1. CASE a <= b /\ a <= c
    BY <2>1
  <2>2. CASE b <= a /\ b <= c
    BY <2>2
  <2>3. CASE c <= a /\ c <= b
    BY <2>3
  <2>4. QED
    BY <2>1, <2>2, <2>3
<1>2. QED
  BY <1>1 DEF Min

\* What refill reserves fits into both budgets.
LEMMA DeficitFits ==
    ASSUME Well, NEW counted \in SUBSET Runtimes, Deficit(counted) > 0
    PROVE  /\ Deficit(counted) \in Int
           /\ Deficit(counted) + Cardinality(counted) <= TotalMax
           /\ Deficit(counted) + Cardinality(container) <= HostMax
<1> DEFINE ready == Cardinality(InState(counted, "ready_unbound"))
           creating == Cardinality(InState(counted, "creating"))
           n == Cardinality(counted)
           m == Cardinality(container)
           f == Cardinality(Fresh)
           d == ReadyTarget - ready - creating
           wanted == Min({Max({0, d}), Max({0, TotalMax - n})})
           host == HostMax - Max({n, m})
<1>1. ready \in Nat /\ creating \in Nat /\ n \in Nat /\ m \in Nat /\ f \in Nat
  <2>1. /\ InState(counted, "ready_unbound") \in SUBSET Runtimes
        /\ InState(counted, "creating") \in SUBSET Runtimes
        /\ container \in SUBSET Runtimes /\ Fresh \in SUBSET Runtimes
    BY DEF InState, Fresh, Well, Types
  <2>2. \A T \in SUBSET Runtimes : Cardinality(T) \in Nat
    BY FS_Subset, FS_CardinalityType
  <2>3. QED
    BY <2>1, <2>2
<1>2. Deficit(counted) = Min({wanted, Max({0, host}), f})
  BY DEF Deficit
<1> HIDE DEF ready, creating, n, m, f
<1>3. d \in Int
  BY <1>1
<1> HIDE DEF d
<1>4. Max({0, d}) \in Int /\ Max({0, TotalMax - n}) = IF 0 >= TotalMax - n THEN 0 ELSE TotalMax - n
  BY <1>1, <1>3, MaxOfTwo
<1>5. wanted \in Int /\ wanted <= Max({0, TotalMax - n})
  <2> DEFINE a == Max({0, d})
             b == Max({0, TotalMax - n})
  <2>1. a \in Int /\ b \in Int
    BY <1>1, <1>4
  <2>2. wanted = Min({a, b})
    OBVIOUS
  <2> HIDE DEF a, b, wanted
  <2>3. wanted \in Int /\ wanted <= b
    BY <2>1, <2>2, MinOfTwo
  <2>4. QED
    BY <2>3 DEF b
<1>6. host \in Int /\ host <= HostMax - m
  BY <1>1, MaxOfTwo
<1> HIDE DEF wanted, host
<1>7. Max({0, host}) = IF 0 >= host THEN 0 ELSE host
  BY <1>6, MaxOfTwo
<1>8. /\ Deficit(counted) \in Int /\ Deficit(counted) <= wanted
      /\ Deficit(counted) <= Max({0, host})
  <2> DEFINE b == Max({0, host})
  <2>1. b \in Int
    BY <1>6, <1>7
  <2>2. Deficit(counted) = Min({wanted, b, f})
    BY <1>2
  <2> HIDE DEF b
  <2>3. Deficit(counted) \in Int /\ Deficit(counted) <= wanted /\ Deficit(counted) <= b
    BY <1>1, <1>5, <2>1, <2>2, MinOfThree
  <2>4. QED
    BY <2>3 DEF b
<1>9. Deficit(counted) + n <= TotalMax /\ Deficit(counted) + m <= HostMax
  BY <1>1, <1>4, <1>5, <1>6, <1>7, <1>8
<1>10. QED
  BY <1>8, <1>9 DEF n, m

LEMMA UnionFits ==
    ASSUME NEW A \in SUBSET Runtimes, NEW B \in SUBSET Runtimes
    PROVE  /\ IsFiniteSet(A \cup B) /\ Cardinality(A \cup B) \in Nat
           /\ Cardinality(A) \in Nat /\ Cardinality(B) \in Nat
           /\ Cardinality(A \cup B) <= Cardinality(A) + Cardinality(B)
<1>1. IsFiniteSet(A) /\ IsFiniteSet(B) /\ IsFiniteSet(A \cap B) /\ IsFiniteSet(A \cup B)
  <2>1. A \cap B \in SUBSET Runtimes /\ A \cup B \in SUBSET Runtimes
    OBVIOUS
  <2>2. \A T \in SUBSET Runtimes : IsFiniteSet(T)
    BY FS_Subset
  <2>3. QED
    BY <2>1, <2>2
<1>2. /\ Cardinality(A) \in Nat /\ Cardinality(B) \in Nat /\ Cardinality(A \cap B) \in Nat
      /\ Cardinality(A \cup B) \in Nat
  BY <1>1, FS_CardinalityType
<1>3. Cardinality(A \cup B) = Cardinality(A) + Cardinality(B) - Cardinality(A \cap B)
  BY <1>1, FS_Union
<1>4. QED
  BY <1>1, <1>2, <1>3

LEMMA ReserveBudgets ==
    ASSUME Well, Locking, Budgets, NEW w \in Workers, Reserve(w)
    PROVE  Locking' /\ Budgets'
<1>0. /\ task \in [Workers -> TaskType] /\ task[w] \in TaskType
      /\ row \in [Runtimes -> RowType] /\ container \in SUBSET Runtimes
      /\ lock = None /\ w # None /\ container' = container
  BY Pieces DEF Well, Types, Reserve, Workers
<1>1. PICK stale \in SUBSET InState(Runtimes, "creating") :
      \E rs \in kSubset(Deficit(Counted \ stale), Fresh) :
         /\ row' = [r \in Runtimes |->
                      IF r \in stale THEN [row[r] EXCEPT !.state = "failed"]
                      ELSE IF r \in rs THEN [row[r] EXCEPT !.state = "creating"]
                      ELSE row[r]]
         /\ IF rs = {} THEN Done(w) /\ UNCHANGED <<lock, queue>>
            ELSE \E r \in rs :
                   /\ task' = [task EXCEPT ![w].pc = "create", ![w].r = r]
                   /\ lock' = w /\ queue' = rs \ {r}
  BY DEF Reserve
<1>2. PICK rs \in kSubset(Deficit(Counted \ stale), Fresh) :
         /\ row' = [r \in Runtimes |->
                      IF r \in stale THEN [row[r] EXCEPT !.state = "failed"]
                      ELSE IF r \in rs THEN [row[r] EXCEPT !.state = "creating"]
                      ELSE row[r]]
         /\ IF rs = {} THEN Done(w) /\ UNCHANGED <<lock, queue>>
            ELSE \E r \in rs :
                   /\ task' = [task EXCEPT ![w].pc = "create", ![w].r = r]
                   /\ lock' = w /\ queue' = rs \ {r}
  BY <1>1
<1> DEFINE c == Counted \ stale
<1>3. /\ c \in SUBSET Runtimes /\ rs \in SUBSET Runtimes
      /\ Cardinality(rs) = Deficit(c) /\ stale \subseteq Runtimes
  BY DEF kSubset, Fresh, Counted, InState
<1>4. Counted' \subseteq c \cup rs
  <2>1. \A r \in Runtimes : row[r] \in RowType
    BY <1>0
  <2>2. \A r \in Runtimes : r \in stale => row'[r].state = "failed"
    BY <1>2, <2>1 DEF RowType
  <2>3. \A r \in Runtimes : r \notin stale /\ r \notin rs => row'[r] = row[r]
    BY <1>2
  <2>4. QED
    BY <2>2, <2>3 DEF Counted
<1>5. \A v \in Workers : v # w => task'[v] = task[v] /\ task[v].pc \notin Making
  <2>1. \A v \in Workers : v # w => task'[v] = task[v]
    BY CreatesRunNothing
  <2>2. \A v \in Workers : v # None
    BY DEF Workers
  <2>3. QED
    BY <1>0, <2>1, <2>2 DEF Locking, Making
<1>6. CASE rs = {}
  <2>1. Done(w) /\ UNCHANGED <<lock, queue>>
    BY <1>2, <1>6
  <2>2. Idle.pc = "idle" /\ [Idle EXCEPT !.pc = task[w].then, !.s = task[w].s].pc = task[w].then
    BY DEF Idle
  <2>3. task'[w].pc \notin Making
    BY <1>0, <2>1, <2>2 DEF Done, TaskType, Making
  <2>4. Locking' /\ Reserved' = {} /\ Reserved = {}
    BY <1>0, <1>5, <2>1, <2>3 DEF Locking, Reserved, Making
  <2>5. QED
    BY <1>0, <1>4, <1>6, <2>4, BudgetsShrink
<1>7. CASE rs # {}
  <2>1. PICK r \in rs : /\ task' = [task EXCEPT ![w].pc = "create", ![w].r = r]
                        /\ lock' = w /\ queue' = rs \ {r}
    BY <1>2, <1>7
  <2>2. task'[w].pc = "create" /\ task'[w].r = r
    BY <1>0, <2>1 DEF TaskType
  <2>3. Locking' /\ Reserved' = rs
    BY <1>0, <1>5, <2>1, <2>2 DEF Locking, Reserved, Making
  <2>4. Cardinality(rs) \in Nat /\ Cardinality(rs) # 0
    <3>1. IsFiniteSet(rs)
      BY <1>3, FS_Subset
    <3>2. QED
      BY <1>7, <3>1, FS_EmptySet, FS_CardinalityType
  <2>5. /\ Cardinality(rs) + Cardinality(c) <= TotalMax
        /\ Cardinality(rs) + Cardinality(container) <= HostMax
    <3> HIDE DEF c
    <3>1. Deficit(c) > 0
      BY <1>3, <2>4
    <3>2. QED
      BY <1>3, <3>1, DeficitFits
  <2>6. Cardinality(container' \cup Reserved') <= HostMax
    <3>1. Cardinality(container \cup rs) <= HostMax
      <4>1. /\ Cardinality(container \cup rs) <= Cardinality(container) + Cardinality(rs)
            /\ Cardinality(container \cup rs) \in Nat /\ Cardinality(container) \in Nat
        BY <1>0, <1>3, UnionFits
      <4>2. QED
        BY <2>4, <2>5, <4>1
    <3>2. QED
      BY <1>0, <2>3, <3>1
  <2>7. Cardinality(Counted' \cup Reserved') <= TotalMax
    <3> DEFINE z == Counted' \cup Reserved'
    <3>1. z \in SUBSET (c \cup rs)
      BY <1>4, <2>3
    <3> HIDE DEF c, z
    <3>2. Cardinality(c \cup rs) <= TotalMax /\ IsFiniteSet(c \cup rs) /\ Cardinality(c \cup rs) \in Nat
      <4>1. /\ Cardinality(c \cup rs) <= Cardinality(c) + Cardinality(rs)
            /\ IsFiniteSet(c \cup rs) /\ Cardinality(c \cup rs) \in Nat
            /\ Cardinality(c) \in Nat
        BY <1>3, UnionFits
      <4>2. QED
        BY <2>4, <2>5, <4>1
    <3>3. Cardinality(z) <= Cardinality(c \cup rs) /\ Cardinality(z) \in Nat
      BY <3>1, <3>2, FS_Subset, FS_CardinalityType
    <3>4. Cardinality(z) <= TotalMax
      BY <3>2, <3>3
    <3>5. QED
      BY <3>4 DEF z
  <2>8. QED
    BY <2>3, <2>6, <2>7 DEF Budgets
<1>8. QED
  BY <1>6, <1>7

LEMMA BudgetsStep ==
    ASSUME Well, Locking, Budgets, [Next]_vars
    PROVE  Locking' /\ Budgets'
<1>1. CASE Crash
  <2>1. Locking' /\ Reserved' = {} /\ UNCHANGED container
    BY <1>1, IdleType DEF Crash, Locking, Reserved
  <2>2. Counted' \subseteq Counted
    BY <1>1, CalmRows DEF Crash, rows
  <2>3. QED
    BY <2>1, <2>2, BudgetsShrink
<1>2. QED
  BY <1>1, AsideOrMaking, AsideBudgets, MakingBudgets, ReserveBudgets

LEMMA BudgetsInit == Init => Locking /\ Budgets
<1> SUFFICES ASSUME Init PROVE Locking /\ Budgets
  OBVIOUS
<1>1. Locking /\ Reserved = {}
  BY IdleType DEF Init, Locking, Reserved
<1>2. container = {} /\ Counted = {}
  BY DEF Init, Counted
<1>3. Cardinality({}) = 0
  BY FS_EmptySet
<1>4. QED
  BY <1>1, <1>2, <1>3 DEF Budgets

\* The host never carries more containers than its shared budget, whatever
\* the number of handlers that refill and wherever one of them dies.
THEOREM HostBudgetHolds == Spec => []HostBudget
<1>1. Init => Well /\ Locking /\ Budgets
  BY WellInit, BudgetsInit
<1>2. Well /\ Locking /\ Budgets /\ [Next]_vars => (Well /\ Locking /\ Budgets)'
  BY WellStep, BudgetsStep
<1>3. Well /\ Locking /\ Budgets => HostBudget
  <2> SUFFICES ASSUME Well, Locking, Budgets PROVE HostBudget
    OBVIOUS
  <2>1. container \in SUBSET (container \cup Reserved) /\ container \in SUBSET Runtimes
    BY DEF Well, Types
  <2>2. /\ Cardinality(container) <= Cardinality(container \cup Reserved)
        /\ Cardinality(container) \in Nat /\ Cardinality(container \cup Reserved) \in Nat
    BY <2>1, ReservedIsFinite, FS_Subset, FS_CardinalityType
  <2>3. QED
    BY <2>2 DEF Budgets, HostBudget
<1>4. QED
  BY <1>1, <1>2, <1>3, PTL DEF Spec

\* The rows that the refill counts never exceed the pool's limit.
THEOREM PoolBudgetHolds == Spec => []PoolBudget
<1>1. Init => Well /\ Locking /\ Budgets
  BY WellInit, BudgetsInit
<1>2. Well /\ Locking /\ Budgets /\ [Next]_vars => (Well /\ Locking /\ Budgets)'
  BY WellStep, BudgetsStep
<1>3. Well /\ Locking /\ Budgets => PoolBudget
  <2> SUFFICES ASSUME Well, Locking, Budgets PROVE PoolBudget
    OBVIOUS
  <2>1. Counted \in SUBSET (Counted \cup Reserved) /\ Counted \in SUBSET Runtimes
    BY DEF Counted
  <2>2. /\ Cardinality(Counted) <= Cardinality(Counted \cup Reserved)
        /\ Cardinality(Counted) \in Nat /\ Cardinality(Counted \cup Reserved) \in Nat
    BY <2>1, ReservedIsFinite, FS_Subset, FS_CardinalityType
  <2>3. QED
    BY <2>2 DEF Budgets, PoolBudget
<1>4. QED
  BY <1>1, <1>2, <1>3, PTL DEF Spec

(***************************************************************************)
(* Fencing                                                                 *)
(***************************************************************************)

\* Who changes environments and leases, and who only marks rows.
LEMMA EnvKinds ==
    ASSUME Well, [Next]_vars
    PROVE  \/ Kept /\ UNCHANGED <<env, auth>>
           \/ \E r \in Runtimes : MarkDestroyed(r) /\ UNCHANGED auth
           \/ \E s \in Sessions : Login(s) \/ EndSession(s)
           \/ \E u \in Users : ChangeAuthorization(u)
           \/ \E t \in Tasks, s \in Sessions : Open(t, s) \/ Reset(t, s)
           \/ \E t \in Tasks : ClaimOnce(t)
<1> DEFINE Same == UNCHANGED <<env, auth>>
           Marks == \E r \in Runtimes : MarkDestroyed(r) /\ UNCHANGED auth
<1>1. ASSUME NEW w \in Workers, Provision(w) PROVE Same \/ Marks
  <2>1. CASE Mark(w)
    <3>1. task[w].r \in Runtimes
      BY <2>1 DEF Mark, At, Well, Positions, Placed
    <3>2. QED
      BY <2>1, <3>1 DEF Mark
  <2>2. CASE ~Mark(w)
    BY <1>1, <2>2 DEF Provision, Drain, Destroy, DestroyFails, Create, Record, Booted,
                      CreateFails, rows
  <2>3. QED
    BY <2>1, <2>2
<1>2. ASSUME Reconcile PROVE Same \/ Marks
  <2>1. CASE RetryMark
    <3>1. task[Rec].r \in Runtimes
      BY <2>1 DEF RetryMark, At, Well, Positions, Placed, Workers, Rec
    <3>2. QED
      BY <2>1, <3>1 DEF RetryMark
  <2>2. CASE ~RetryMark
    BY <1>2, <2>2 DEF Reconcile, ListRows, ListContainers, ListDraining, ListUnleased,
                      EndReconcile, DestroyOrphan, RetryDestroy, DestroyUnleased, rows
  <2>3. QED
    BY <2>1, <2>2
<1>3. ASSUME NEW t \in Tasks, Handle(t), ~ClaimOnce(t) PROVE Same
  BY <1>3 DEF Handle, ClaimFails, KernelReady, KernelNotReady, Run, RunTimesOut, rows
<1>4. ASSUME NEW w \in Workers, Reserve(w) PROVE Same
  BY <1>4 DEF Reserve
<1>5. ASSUME NEW t \in Tasks, NEW s \in Sessions, Execute(t, s) PROVE Same
  BY <1>5 DEF Execute
<1>6. ASSUME \/ Crash \/ (\E r \in Runtimes : Vanish(r)) \/ UNCHANGED vars
             \/ \E w \in Workers : DockerPsFails(w)
      PROVE  Same
  BY <1>6 DEF Crash, Vanish, DockerPsFails, rows, vars, auth
<1>7. QED
  <2> HIDE DEF Same, Marks
  <2>1. \/ Same \/ Marks
        \/ \E s \in Sessions : Login(s) \/ EndSession(s)
        \/ \E u \in Users : ChangeAuthorization(u)
        \/ \E t \in Tasks, s \in Sessions : Open(t, s) \/ Reset(t, s)
        \/ \E t \in Tasks : ClaimOnce(t)
    <3>1. CASE Browser
      BY <1>5, <3>1 DEF Browser
    <3>2. CASE \E t \in Tasks : Handle(t)
      BY <1>3, <3>2
    <3>3. CASE \E w \in Workers : Provision(w) \/ Reserve(w)
      BY <1>1, <1>4, <3>3
    <3>4. QED
      BY <1>2, <1>6, <3>1, <3>2, <3>3 DEF Next
  <2>2. QED
    BY <2>1, KeptOrClaimed DEF Same, Marks

\* The two halves of Fencing.
LeasesAreCurrent ==
    \A s \in Sessions : lease[s].state = "active" =>
        /\ session[s].state = "live" /\ session[s].version = version[Owner[s]]
        /\ lease[s].gen = env[Owner[s]].gen
        /\ version[Owner[s]] <= env[Owner[s]].gen

RowsAreFenced ==
    \A r \in Runtimes : \A u \in Users :
        row[r].state = "assigned" /\ row[r].env = u =>
            /\ row[r].gen <= env[u].gen
            /\ row[r].gen = env[u].gen => env[u].active = r

LEMMA FencingParts == Fencing <=> LeasesAreCurrent /\ RowsAreFenced
BY DEF Fencing, LeasesAreCurrent, RowsAreFenced, Authenticated

LEMMA FencingInit == Init => Fencing
<1> SUFFICES ASSUME Init PROVE Fencing
  OBVIOUS
<1>1. \A s \in Sessions : lease[s].state = "none"
  BY DEF Init
<1>2. \A r \in Runtimes : row[r].state = "absent"
  BY DEF Init
<1>3. QED
  BY <1>1, <1>2 DEF Fencing

\* Ending leases only shortens the list of what has to be current.
LEMMA LeasesEndEnds ==
    ASSUME Well, NEW gone, LeasesEnd(gone)
    PROVE  \A s \in Sessions : lease'[s].state = "active" =>
              s \notin gone /\ lease'[s] = lease[s]
<1>1. \A s \in Sessions : lease[s] \in LeaseType
  BY Pieces
<1>2. QED
  BY <1>1 DEF LeasesEnd, LeaseType

LEMMA LeasesStep ==
    ASSUME Well, LeasesAreCurrent, [Next]_vars
    PROVE  LeasesAreCurrent'
<1>0. /\ lease \in [Sessions -> LeaseType] /\ env \in [Users -> EnvType]
      /\ session \in [Sessions -> SessionType] /\ version \in [Users -> 1 .. MaxVersion]
  BY Pieces DEF Well, Types
<1>1. CASE UNCHANGED <<env, auth>>
  BY <1>1 DEF LeasesAreCurrent, auth
<1>2. ASSUME NEW r \in Runtimes, MarkDestroyed(r), UNCHANGED auth PROVE LeasesAreCurrent'
  <2>1. \A u \in Users : env'[u].gen = env[u].gen
    BY <1>0, <1>2 DEF MarkDestroyed, EnvType
  <2>2. QED
    BY <1>2, <2>1 DEF LeasesAreCurrent, auth
<1>3. ASSUME NEW s \in Sessions, Login(s) PROVE LeasesAreCurrent'
  <2>1. lease[s].state # "active"
    BY <1>3 DEF Login, LeasesAreCurrent
  <2>2. \A q \in Sessions \ {s} : session'[q] = session[q]
    BY <1>0, <1>3 DEF Login
  <2>3. QED
    BY <1>3, <2>1, <2>2 DEF Login, LeasesAreCurrent, rows
<1>4. ASSUME NEW s \in Sessions, EndSession(s) PROVE LeasesAreCurrent'
  <2>1. \A q \in Sessions : lease'[q].state = "active" => q # s /\ lease'[q] = lease[q]
    BY <1>4, LeasesEndEnds DEF EndSession
  <2>2. \A q \in Sessions \ {s} : session'[q] = session[q]
    BY <1>0, <1>4 DEF EndSession
  <2>3. QED
    BY <1>4, <2>1, <2>2 DEF EndSession, LeasesAreCurrent, rows
<1>5. ASSUME NEW u \in Users, ChangeAuthorization(u) PROVE LeasesAreCurrent'
  <2>1. \A q \in Sessions : lease'[q].state = "active" => Owner[q] # u /\ lease'[q] = lease[q]
    BY <1>5, LeasesEndEnds DEF ChangeAuthorization
  <2>2. \A v \in Users \ {u} : version'[v] = version[v]
    BY <1>0, <1>5 DEF ChangeAuthorization
  <2>3. \A q \in Sessions : Owner[q] \in Users
    OBVIOUS
  <2>4. QED
    BY <1>5, <2>1, <2>2, <2>3 DEF ChangeAuthorization, LeasesAreCurrent, rows
<1>6. ASSUME NEW t \in Tasks, NEW s \in Sessions, Open(t, s) PROVE LeasesAreCurrent'
  <2> DEFINE u == Owner[s]
             g == Max({env[u].gen, session[s].version})
  <2>1. /\ env' = [env EXCEPT ![u].gen = g] /\ UNCHANGED <<session, version>>
        /\ lease' = [lease EXCEPT ![s].state = "active", ![s].gen = g]
        /\ session[s].state = "live" /\ session[s].version = version[u]
    BY <1>6 DEF Open, Authenticated
  <2>2. env[u].gen \in Int /\ session[s].version \in Int /\ u \in Users
    BY <1>0 DEF EnvType, SessionType, Gens
  <2>3. g = IF env[u].gen >= session[s].version THEN env[u].gen ELSE session[s].version
    BY <2>2, MaxOfTwo
  <2> HIDE DEF g
  <2>4. /\ env'[u].gen = g /\ \A v \in Users \ {u} : env'[v] = env[v]
    BY <1>0, <2>1, <2>2 DEF EnvType
  <2>5. /\ lease'[s].gen = g /\ \A q \in Sessions \ {s} : lease'[q] = lease[q]
    BY <1>0, <2>1 DEF LeaseType
  <2>6. version[u] <= g
    BY <2>1, <2>2, <2>3
  <2>7. ASSUME NEW q \in Sessions, lease'[q].state = "active", q # s
        PROVE  /\ session[q].state = "live" /\ session[q].version = version[Owner[q]]
               /\ lease'[q].gen = env'[Owner[q]].gen /\ version[Owner[q]] <= env'[Owner[q]].gen
    <3>1. /\ session[q].state = "live" /\ session[q].version = version[Owner[q]]
          /\ lease'[q] = lease[q] /\ lease[q].gen = env[Owner[q]].gen
          /\ version[Owner[q]] <= env[Owner[q]].gen /\ Owner[q] \in Users
      BY <2>5, <2>7 DEF LeasesAreCurrent
    <3>2. CASE Owner[q] = u
      BY <2>1, <2>2, <2>3, <2>4, <3>1, <3>2
    <3>3. CASE Owner[q] # u
      BY <2>4, <3>1, <3>3
    <3>4. QED
      BY <3>2, <3>3
  <2>8. QED
    <3>1. /\ session'[s].state = "live" /\ session'[s].version = version'[Owner[s]]
          /\ lease'[s].gen = env'[Owner[s]].gen /\ version'[Owner[s]] <= env'[Owner[s]].gen
      BY <2>1, <2>4, <2>5, <2>6
    <3>2. \A q \in Sessions : lease'[q].state = "active" =>
             /\ session'[q].state = "live" /\ session'[q].version = version'[Owner[q]]
             /\ lease'[q].gen = env'[Owner[q]].gen /\ version'[Owner[q]] <= env'[Owner[q]].gen
      BY <2>1, <2>7, <3>1
    <3>3. QED
      BY <3>2 DEF LeasesAreCurrent
<1>7. ASSUME NEW t \in Tasks, NEW s \in Sessions, Reset(t, s) PROVE LeasesAreCurrent'
  <2> DEFINE u == Owner[s]
             g == env[u].gen + 1
  <2>1. /\ env' = [env EXCEPT ![u] = [gen |-> g, active |-> None]]
        /\ UNCHANGED <<session, version>>
        /\ lease' = [q \in Sessions |->
                       IF Owner[q] = u /\ lease[q].state = "active"
                       THEN [lease[q] EXCEPT !.gen = g, !.runtime = None]
                       ELSE lease[q]]
    BY <1>7 DEF Reset
  <2>2. env[u].gen \in Int /\ u \in Users
    BY <1>0 DEF EnvType, Gens
  <2>3. env'[u].gen = g /\ \A v \in Users \ {u} : env'[v] = env[v]
    BY <1>0, <2>1, <2>2
  <2>4. ASSUME NEW q \in Sessions, lease'[q].state = "active"
        PROVE  /\ lease[q].state = "active"
               /\ Owner[q] = u => lease'[q].gen = g
               /\ Owner[q] # u => lease'[q] = lease[q]
    <3>1. lease[q] \in LeaseType
      BY <1>0
    <3> HIDE DEF g
    <3>2. QED
      BY <2>1, <2>4, <3>1 DEF LeaseType
  <2>5. ASSUME NEW q \in Sessions, lease'[q].state = "active"
        PROVE  /\ session[q].state = "live" /\ session[q].version = version[Owner[q]]
               /\ lease'[q].gen = env'[Owner[q]].gen /\ version[Owner[q]] <= env'[Owner[q]].gen
    <3>1. /\ session[q].state = "live" /\ session[q].version = version[Owner[q]]
          /\ lease[q].gen = env[Owner[q]].gen /\ Owner[q] \in Users
          /\ version[Owner[q]] <= env[Owner[q]].gen /\ version[Owner[q]] \in Int
      BY <1>0, <2>4, <2>5 DEF LeasesAreCurrent
    <3>2. QED
      BY <2>2, <2>3, <2>4, <2>5, <3>1
  <2>6. QED
    BY <2>1, <2>5 DEF LeasesAreCurrent
<1>8. ASSUME NEW t \in Tasks, ClaimOnce(t) PROVE LeasesAreCurrent'
  <2>1. PICK s \in Sessions, r \in Runtimes :
            /\ env' = [env EXCEPT ![Owner[s]].active = r]
            /\ lease' = [lease EXCEPT ![s].runtime = r]
    <3> DEFINE q == task[t].s
    <3>1. /\ q \in Sessions
          /\ \E r \in Runtimes : /\ env' = [env EXCEPT ![Owner[q]].active = r]
                                /\ lease' = [lease EXCEPT ![q].runtime = r]
      BY <1>8, ClaimBinds
    <3> HIDE DEF q
    <3>2. QED
      BY <3>1
  <2>2. \A u \in Users : env'[u].gen = env[u].gen
    BY <1>0, <2>1 DEF EnvType
  <2>3. \A q \in Sessions : lease'[q].state = lease[q].state /\ lease'[q].gen = lease[q].gen
    BY <1>0, <2>1 DEF LeaseType
  <2>4. QED
    BY <1>8, <2>2, <2>3 DEF ClaimOnce, LeasesAreCurrent
<1>9. QED
  BY <1>1, <1>2, <1>3, <1>4, <1>5, <1>6, <1>7, <1>8, EnvKinds

\* With one authorization version the active runtime has its environment's
\* generation, and an environment that was never opened has none.
ActiveIsCurrent ==
    \A u \in Users :
        /\ env[u].gen = 0 => env[u].active = None
        /\ \A r \in Runtimes : env[u].active = r /\ row[r].state = "assigned"
              /\ row[r].env = u => row[r].gen = env[u].gen

\* A runtime is marked destroyed: environments forget it.
Forgets(r) ==
    /\ Kept /\ row'[r].state # "assigned"
    /\ \A u \in Users : /\ env'[u].gen = env[u].gen
                        /\ \/ env'[u].active = env[u].active
                           \/ env[u].active = r /\ env'[u].active = None

\* An environment gets a higher generation.
Raises(v) ==
    /\ Kept /\ \A u \in Users \ {v} : env'[u] = env[u]
    /\ env'[v].gen > env[v].gen
    /\ env'[v].active = env[v].active \/ env'[v].active = None
    /\ MaxVersion = 1 => env[v].gen = 0 \/ env'[v].active = None

\* What a step makes of the environments, as far as the fences look at it.
LEMMA EnvMoves ==
    ASSUME Well, LeasesAreCurrent, [Next]_vars
    PROVE  \/ Kept /\ \A u \in Users : env'[u] = env[u]
           \/ \E r \in Runtimes : Forgets(r)
           \/ \E v \in Users : Raises(v)
           \/ \E t \in Tasks : ClaimOnce(t)
<1>0. /\ env \in [Users -> EnvType] /\ session \in [Sessions -> SessionType]
      /\ version \in [Users -> 1 .. MaxVersion]
  BY Pieces DEF Well, Types
<1>1. ASSUME NEW r \in Runtimes, MarkDestroyed(r) PROVE Forgets(r)
  <2>1. Kept /\ row'[r].state # "assigned"
    BY <1>1, MarkKept
  <2>2. \A u \in Users : env[u] \in EnvType
    BY <1>0
  <2>3. QED
    BY <1>1, <2>1, <2>2 DEF MarkDestroyed, EnvType, Forgets
<1>2. CASE \/ \E s \in Sessions : Login(s) \/ EndSession(s)
           \/ \E u \in Users : ChangeAuthorization(u)
  BY <1>2, StillKept DEF Login, EndSession, ChangeAuthorization, rows
<1>3. ASSUME NEW t \in Tasks, NEW s \in Sessions, Open(t, s)
      PROVE  \/ Kept /\ \A u \in Users : env'[u] = env[u]
             \/ \E v \in Users : Raises(v)
  <2> DEFINE v == Owner[s]
             g == Max({env[v].gen, session[s].version})
  <2>1. /\ env' = [env EXCEPT ![v].gen = g] /\ row' = row
        /\ session[s].version = version[v]
    BY <1>3 DEF Open, Authenticated
  <2>2. env[v].gen \in Nat /\ version[v] \in 1 .. MaxVersion /\ v \in Users
    BY <1>0 DEF EnvType, Gens
  <2>3. g = IF env[v].gen >= session[s].version THEN env[v].gen ELSE session[s].version
    BY <2>1, <2>2, MaxOfTwo
  <2> HIDE DEF g
  <2>4. env'[v].gen = g /\ env'[v].active = env[v].active /\ \A u \in Users \ {v} : env'[u] = env[u]
    BY <1>0, <2>1, <2>2 DEF EnvType
  <2>5. CASE env[v].gen >= session[s].version
    <3>1. env' = env
      BY <1>0, <2>1, <2>3, <2>5 DEF EnvType
    <3>2. QED
      BY <2>1, <3>1, StillKept
  <2>6. CASE ~(env[v].gen >= session[s].version)
    <3>1. g > env[v].gen /\ (MaxVersion = 1 => env[v].gen = 0)
      BY <2>1, <2>2, <2>3, <2>6
    <3>2. QED
      BY <2>1, <2>2, <2>4, <3>1, StillKept DEF Raises
  <2>7. QED
    BY <2>5, <2>6
<1>4. ASSUME NEW t \in Tasks, NEW s \in Sessions, Reset(t, s)
      PROVE  \E v \in Users : Raises(v)
  <2> DEFINE v == Owner[s]
             x == [gen |-> env[v].gen + 1, active |-> None]
  <2>1. env' = [env EXCEPT ![v] = x] /\ row' = row /\ v \in Users
    BY <1>4 DEF Reset
  <2>2. env[v].gen \in Nat
    BY <1>0, <2>1 DEF EnvType, Gens
  <2>3. x.gen > env[v].gen /\ x.active = None
    BY <2>2
  <2> HIDE DEF x
  <2>4. QED
    BY <1>0, <2>1, <2>3, StillKept DEF Raises
<1>5. QED
  BY <1>1, <1>2, <1>3, <1>4, EnvKinds

LEMMA RowsStep ==
    ASSUME Well, LeasesAreCurrent, RowsAreFenced, [Next]_vars
    PROVE  RowsAreFenced'
<1>0. /\ \A u \in Users : env[u].gen \in Nat
      /\ \A r \in Runtimes : row[r].gen \in Nat /\ r # None
  BY Pieces DEF EnvType, RowType, Gens
<1>1. CASE Kept /\ \A u \in Users : env'[u] = env[u]
  BY <1>1 DEF Kept, RowsAreFenced
<1>2. ASSUME NEW x \in Runtimes, Forgets(x) PROVE RowsAreFenced'
  BY <1>2 DEF Forgets, Kept, RowsAreFenced
<1>3. ASSUME NEW v \in Users, Raises(v) PROVE RowsAreFenced'
  <2>0. /\ Kept /\ \A u \in Users \ {v} : env'[u] = env[u]
        /\ env'[v].gen > env[v].gen
    BY <1>3 DEF Raises
  <2>1. env'[v].gen \in Nat
    <3>1. Well'
      BY WellStep
    <3>2. env' \in [Users -> EnvType]
      BY <3>1 DEF Well, Types, EnvType
    <3>3. QED
      BY <3>2 DEF EnvType, Gens
  <2>2. ASSUME NEW r \in Runtimes, NEW u \in Users, row'[r].state = "assigned", row'[r].env = u
        PROVE  /\ row'[r].gen <= env'[u].gen
               /\ row'[r].gen = env'[u].gen => env'[u].active = r
    <3>1. /\ row[r].state = "assigned" /\ row[r].env = u /\ row'[r].gen = row[r].gen
          /\ row[r].gen <= env[u].gen
          /\ row[r].gen = env[u].gen => env[u].active = r
      BY <2>0, <2>2 DEF Kept, RowsAreFenced
    <3>2. CASE u = v
      BY <1>0, <2>0, <2>1, <3>1, <3>2
    <3>3. CASE u # v
      BY <2>0, <3>1, <3>3
    <3>4. QED
      BY <3>2, <3>3
  <2>3. QED
    BY <2>2 DEF RowsAreFenced
<1>4. ASSUME NEW t \in Tasks, ClaimOnce(t) PROVE RowsAreFenced'
  <2> DEFINE s == task[t].s
             u == Owner[s]
  <2>1. u \in Users
    BY <1>4, ClaimBinds
  <2>2. PICK r \in Runtimes :
            /\ env' = [env EXCEPT ![u].active = r]
            /\ \A q \in Runtimes \ {r} : row'[q] = row[q]
            /\ \/ r \in Existing(u) /\ Kept
               \/ /\ Existing(u) = {} /\ r \in Pristine
                  /\ row'[r].env = u /\ row'[r].gen = env[u].gen
    BY <1>4, ClaimBinds
  <2> HIDE DEF u
  <2>3. /\ env'[u].gen = env[u].gen /\ env'[u].active = r
        /\ \A v \in Users \ {u} : env'[v] = env[v]
    BY <2>1, <2>2, Pieces DEF EnvType
  <2>4. CASE r \in Existing(u) /\ Kept
    <3>1. \A v \in Users : env'[v].gen = env[v].gen /\ env'[v].active = env[v].active
      BY <2>3, <2>4 DEF Existing
    <3>2. QED
      BY <2>4, <3>1 DEF Kept, RowsAreFenced
  <2>5. CASE /\ Existing(u) = {} /\ r \in Pristine
             /\ row'[r].env = u /\ row'[r].gen = env[u].gen
    <3>1. ASSUME NEW q \in Runtimes, NEW v \in Users,
                 row'[q].state = "assigned", row'[q].env = v
          PROVE  /\ row'[q].gen <= env'[v].gen
                 /\ row'[q].gen = env'[v].gen => env'[v].active = q
      <4>1. CASE q = r
        BY <1>0, <2>1, <2>3, <2>5, <3>1, <4>1
      <4>2. CASE q # r
        <5>1. /\ row'[q] = row[q] /\ row[q].gen <= env[v].gen
              /\ row[q].gen = env[v].gen => env[v].active = q
          BY <2>2, <3>1, <4>2 DEF RowsAreFenced
        <5>2. CASE v = u
          <6>1. env[v].active # q
            BY <2>5, <3>1, <5>1, <5>2 DEF Existing
          <6>2. QED
            BY <2>3, <5>1, <5>2, <6>1
        <5>3. CASE v # u
          BY <2>3, <5>1, <5>3
        <5>4. QED
          BY <5>2, <5>3
      <4>3. QED
        BY <4>1, <4>2
    <3>2. QED
      BY <3>1 DEF RowsAreFenced
  <2>6. QED
    BY <2>2, <2>4, <2>5
<1>5. QED
  BY <1>1, <1>2, <1>3, <1>4, EnvMoves

\* Admission of a command is the one step that leads to its execution.
LEMMA ExecutesAreAdmitted ==
    ASSUME Well, [Next]_vars, NEW t \in Tasks, ~At(t, "execute"), At(t, "execute")'
    PROVE  \E s \in Sessions : Execute(t, s)
<1>0. task \in [Workers -> TaskType] /\ t \in Workers
  BY Pieces DEF Workers
<1>1. ~Calm
  BY <1>0 DEF Calm, QuietMove, Quiet, At
<1>2. ASSUME NEW v \in Tasks, NEW s \in Sessions, Execute(v, s) PROVE v = t
  BY <1>0, <1>2 DEF Execute, At
<1>3. ASSUME NEW v \in Tasks, Run(v) \/ RunTimesOut(v) PROVE FALSE
  <2>1. v \in Workers /\ task[v] \in TaskType /\ At(v, "execute")
    BY <1>0, <1>3 DEF Workers, Run, RunTimesOut
  <2>2. \A w \in Workers : w # v => task'[w] = task[w]
    BY <1>0, <1>3 DEF Run, RunTimesOut
  <2>3. QED
    BY <1>0, <2>1, <2>2 DEF At
<1>4. ASSUME NEW w \in Workers,
             Create(w) \/ Record(w) \/ Booted(w) \/ CreateFails(w) \/ Reserve(w)
      PROVE  FALSE
  BY <1>0, <1>4, CreatesRunNothing DEF At
<1>5. ~Crash
  BY <1>0, IdleType DEF Crash, At
<1>6. QED
  BY <1>1, <1>2, <1>3, <1>4, <1>5, StepKinds

\* A command that is admitted goes to the active runtime of its environment.
LEMMA AcceptedStep ==
    ASSUME Well, Fencing, [Next]_vars, NEW t \in Tasks, ~At(t, "execute"), At(t, "execute")'
    PROVE  LET u == Owner[task'[t].s] r == task'[t].r IN
           env[u].active = r /\ env[u].gen = row[r].gen
<1>1. PICK s \in Sessions : Execute(t, s)
  BY ExecutesAreAdmitted
<1> DEFINE r == ticket[s].runtime
           k == [Idle EXCEPT !.pc = "execute", !.s = s, !.r = r]
<1>2. /\ r \in Runtimes /\ Owner[s] \in Users /\ lease[s].state = "active"
      /\ row[r].state = "assigned" /\ row[r].env = Owner[s] /\ lease[s].gen = row[r].gen
      /\ task' = [task EXCEPT ![t] = k]
  BY <1>1 DEF Execute, Fenced, LeaseLive, Well, Types
<1>3. k.s = s /\ k.r = r
  BY DEF Idle
<1> HIDE DEF k
<1>4. task'[t] = k
  BY <1>2, Pieces DEF Workers
<1>5. lease[s].gen = env[Owner[s]].gen
  BY <1>2, FencingParts DEF LeasesAreCurrent
<1>6. env[Owner[s]].active = r
  BY <1>2, <1>5, FencingParts DEF RowsAreFenced
<1>7. QED
  BY <1>2, <1>3, <1>4, <1>5, <1>6

LEMMA FencingStep ==
    ASSUME Well, Fencing, [Next]_vars
    PROVE  Fencing'
<1>1. LeasesAreCurrent /\ RowsAreFenced
  BY FencingParts
<1>2. LeasesAreCurrent' /\ RowsAreFenced'
  BY <1>1, LeasesStep, RowsStep
<1>3. QED
  BY <1>2 DEF Fencing, LeasesAreCurrent, RowsAreFenced, Authenticated

\* A ticket from before a reset or a re-login is never accepted, in any
\* interleaving of logins, authorization changes, claims, resets and crashes.
THEOREM AcceptedCommandsAreFenced == Spec => AcceptedIsActive
<1>1. Init => Well /\ Fencing
  BY WellInit, FencingInit
<1>2. Well /\ Fencing /\ [Next]_vars => (Well /\ Fencing)'
  BY WellStep, FencingStep
<1>3. Well /\ Fencing /\ [Next]_vars =>
        [\A t \in Tasks : ~At(t, "execute") /\ At(t, "execute")' =>
            LET u == Owner[task'[t].s] r == task'[t].r IN
            env[u].active = r /\ env[u].gen = row[r].gen]_vars
  BY AcceptedStep
<1>4. QED
  BY <1>1, <1>2, <1>3, PTL DEF Spec, AcceptedIsActive

LEMMA ActiveStep ==
    ASSUME MaxVersion = 1, Well, Fencing, ActiveIsCurrent, [Next]_vars
    PROVE  ActiveIsCurrent'
<1>0. /\ \A u \in Users : env[u].gen \in Nat
      /\ \A r \in Runtimes : r # None
      /\ LeasesAreCurrent /\ version \in [Users -> 1 .. MaxVersion]
      /\ \A s \in Sessions : Owner[s] \in Users
  BY Pieces, FencingParts DEF EnvType, Gens, Well, Types
<1>1. CASE Kept /\ \A u \in Users : env'[u] = env[u]
  BY <1>1 DEF Kept, ActiveIsCurrent
<1>2. ASSUME NEW x \in Runtimes, Forgets(x) PROVE ActiveIsCurrent'
  BY <1>0, <1>2 DEF Forgets, Kept, ActiveIsCurrent
<1>3. ASSUME NEW v \in Users, Raises(v) PROVE ActiveIsCurrent'
  <2>0. /\ Kept /\ \A u \in Users \ {v} : env'[u] = env[u]
        /\ env'[v].gen > env[v].gen
        /\ env'[v].active = env[v].active \/ env'[v].active = None
        /\ env[v].gen = 0 \/ env'[v].active = None
    BY <1>3 DEF Raises
  <2>1. env'[v].active = None
    BY <2>0 DEF ActiveIsCurrent
  <2>2. env'[v].gen # 0
    <3>1. env' \in [Users -> EnvType]
      BY WellStep DEF Well, Types, EnvType
    <3>2. env'[v].gen \in Nat
      BY <3>1 DEF EnvType, Gens
    <3>3. QED
      BY <1>0, <2>0, <3>2
  <2>3. QED
    BY <1>0, <2>0, <2>1, <2>2 DEF Kept, ActiveIsCurrent
<1>4. ASSUME NEW t \in Tasks, ClaimOnce(t) PROVE ActiveIsCurrent'
  <2> DEFINE s == task[t].s
             u == Owner[s]
  <2>1. u \in Users /\ s \in Sessions /\ MayClaim(s)
    BY <1>4, ClaimBinds
  <2>2. PICK r \in Runtimes :
            /\ env' = [env EXCEPT ![u].active = r]
            /\ \A q \in Runtimes \ {r} : row'[q] = row[q]
            /\ \/ r \in Existing(u) /\ Kept
               \/ /\ r \in Pristine
                  /\ row'[r].env = u /\ row'[r].gen = env[u].gen
    BY <1>4, ClaimBinds
  <2>3. env[u].gen # 0
    <3>1. lease[s].state = "active"
      BY <2>1 DEF MayClaim, LeaseLive
    <3>2. version[u] <= env[u].gen /\ version[u] \in 1 .. MaxVersion
      BY <1>0, <2>1, <3>1 DEF LeasesAreCurrent
    <3>3. QED
      BY <1>0, <2>1, <3>2
  <2> HIDE DEF u
  <2>4. /\ env'[u].gen = env[u].gen /\ env'[u].active = r
        /\ \A v \in Users \ {u} : env'[v] = env[v]
    BY <2>1, <2>2, Pieces DEF EnvType
  <2>5. CASE r \in Existing(u) /\ Kept
    <3>1. \A v \in Users : env'[v].gen = env[v].gen /\ env'[v].active = env[v].active
      BY <2>4, <2>5 DEF Existing
    <3>2. QED
      BY <2>5, <3>1 DEF Kept, ActiveIsCurrent
  <2>6. CASE /\ r \in Pristine /\ row'[r].env = u /\ row'[r].gen = env[u].gen
    <3>1. ASSUME NEW v \in Users
          PROVE  /\ env'[v].gen = 0 => env'[v].active = None
                 /\ \A q \in Runtimes : env'[v].active = q /\ row'[q].state = "assigned"
                       /\ row'[q].env = v => row'[q].gen = env'[v].gen
      <4>1. CASE v = u
        BY <2>3, <2>4, <2>6, <4>1
      <4>2. CASE v # u
        BY <2>2, <2>4, <2>6, <4>2 DEF ActiveIsCurrent
      <4>3. QED
        BY <4>1, <4>2
    <3>2. QED
      BY <3>1 DEF ActiveIsCurrent
  <2>7. QED
    BY <2>2, <2>5, <2>6
<1>5. QED
  BY <1>0, <1>1, <1>2, <1>3, <1>4, EnvMoves

\* One handler moves, and not to the kernel check.
Elsewhere(v) ==
    \E k : task' = [task EXCEPT ![v] = k] /\ (k.pc = "check" => task[v].pc = "check")

LEMMA DoneElsewhere ==
    ASSUME Well, NEW w \in Workers, Done(w)
    PROVE  Elsewhere(w)
<1> DEFINE k == IF task[w].then = "idle" THEN Idle
                ELSE [Idle EXCEPT !.pc = task[w].then, !.s = task[w].s]
<1>0. task[w] \in TaskType
  BY Pieces
<1>1. k.pc \in {"idle", "reclaim", "unleased"}
  BY <1>0 DEF TaskType, Idle
<1>2. task' = [task EXCEPT ![w] = k]
  BY DEF Done
<1> HIDE DEF k
<1>3. QED
  BY <1>1, <1>2 DEF Elsewhere

LEMMA IdleElsewhere ==
    ASSUME NEW w \in Workers, task' = [task EXCEPT ![w] = Idle]
    PROVE  Elsewhere(w)
BY IdleType DEF Elsewhere

\* The other ways in which the actions move a handler.
LEMMA MovesElsewhere ==
    ASSUME Well, NEW w \in Workers, NEW pc, pc # "check", NEW r,
           \/ task' = [task EXCEPT ![w].pc = pc]
           \/ task' = [task EXCEPT ![w].pc = pc, ![w].r = r]
           \/ task' = [task EXCEPT ![w].pc = pc, ![w].then = "reclaim"]
           \/ task' = [task EXCEPT ![w].pc = pc, ![w].refill = TRUE]
           \/ task' = [task EXCEPT ![w].pc = pc, ![w].then = "idle", ![w].refill = TRUE]
    PROVE  Elsewhere(w)
<1>0. task[w] \in TaskType
  BY Pieces
<1>1. /\ [task[w] EXCEPT !.pc = pc].pc = pc
      /\ [task[w] EXCEPT !.pc = pc, !.r = r].pc = pc
      /\ [task[w] EXCEPT !.pc = pc, !.then = "reclaim"].pc = pc
      /\ [task[w] EXCEPT !.pc = pc, !.refill = TRUE].pc = pc
      /\ [task[w] EXCEPT !.pc = pc, !.then = "idle", !.refill = TRUE].pc = pc
  BY <1>0 DEF TaskType
<1>2. \/ task' = [task EXCEPT ![w] = [task[w] EXCEPT !.pc = pc]]
      \/ task' = [task EXCEPT ![w] = [task[w] EXCEPT !.pc = pc, !.r = r]]
      \/ task' = [task EXCEPT ![w] = [task[w] EXCEPT !.pc = pc, !.then = "reclaim"]]
      \/ task' = [task EXCEPT ![w] = [task[w] EXCEPT !.pc = pc, !.refill = TRUE]]
      \/ task' = [task EXCEPT ![w] = [task[w] EXCEPT !.pc = pc, !.then = "idle", !.refill = TRUE]]
  OBVIOUS
<1>3. QED
  BY <1>1, <1>2 DEF Elsewhere

\* A successful claim is the one step that leads to the kernel check.
LEMMA ChecksAreClaims ==
    ASSUME Well, [Next]_vars, NEW t \in Tasks, ~At(t, "check"), At(t, "check")'
    PROVE  ClaimOnce(t)
<1>0. task \in [Workers -> TaskType] /\ t \in Workers /\ Rec \in Workers
  BY Pieces DEF Workers, Rec
<1>1. ASSUME NEW w \in Workers, Elsewhere(w) PROVE FALSE
  BY <1>0, <1>1 DEF Elsewhere, At
<1>2. task' # task
  BY DEF At
<1>3. ASSUME Browser PROVE FALSE
  <2>1. ASSUME NEW v \in Tasks, NEW s \in Sessions, Open(v, s) \/ Execute(v, s) \/ Reset(v, s)
        PROVE  FALSE
    <3>1. /\ [Idle EXCEPT !.pc = "claim", !.s = s].pc = "claim"
          /\ [Idle EXCEPT !.pc = "execute", !.s = s, !.r = ticket[s].runtime].pc = "execute"
          /\ [Idle EXCEPT !.pc = "drain", !.r = ticket[s].runtime].pc = "drain"
      BY DEF Idle
    <3>2. Elsewhere(v)
      BY <2>1, <3>1 DEF Open, Execute, Reset, Elsewhere
    <3>3. QED
      BY <1>1, <3>2 DEF Workers
  <2>2. QED
    BY <1>2, <1>3, <2>1 DEF Browser, Login, EndSession, ChangeAuthorization
<1>4. ASSUME NEW v \in Tasks, Handle(v) PROVE ClaimOnce(t)
  <2>1. v \in Workers
    BY DEF Workers
  <2>2. CASE ClaimOnce(v)
    BY <1>0, <2>1, <2>2 DEF ClaimOnce, At
  <2>3. CASE ClaimFails(v)
    BY <1>1, <2>1, <2>3, MovesElsewhere, IdleElsewhere DEF ClaimFails
  <2>4. CASE KernelReady(v) \/ Run(v)
    BY <1>1, <2>1, <2>4, IdleElsewhere DEF KernelReady, Run
  <2>5. CASE KernelNotReady(v) \/ RunTimesOut(v)
    BY <1>1, <2>1, <2>5, MovesElsewhere DEF KernelNotReady, RunTimesOut
  <2>6. QED
    BY <1>4, <2>2, <2>3, <2>4, <2>5 DEF Handle
<1>5. ASSUME NEW w \in Workers, NextCreate(w) PROVE FALSE
  BY <1>1, <1>5, DoneElsewhere, MovesElsewhere DEF NextCreate
<1>6. ASSUME NEW w \in Workers, Provision(w) \/ Reserve(w) PROVE FALSE
  <2>1. CASE Drain(w)
    BY <1>1, <2>1, DoneElsewhere, MovesElsewhere DEF Drain, Goto
  <2>2. CASE Destroy(w) \/ Create(w) \/ Record(w)
    BY <1>1, <2>2, MovesElsewhere DEF Destroy, Create, Record, Goto
  <2>3. CASE DestroyFails(w)
    BY <1>1, <2>3, DoneElsewhere DEF DestroyFails
  <2>4. CASE Mark(w)
    BY <1>1, <2>4, DoneElsewhere, MovesElsewhere DEF Mark
  <2>5. CASE Booted(w) \/ CreateFails(w)
    BY <1>5, <2>5 DEF Booted, CreateFails
  <2>6. CASE Reserve(w)
    BY <1>1, <2>6, DoneElsewhere, MovesElsewhere DEF Reserve
  <2>7. QED
    BY <1>6, <2>1, <2>2, <2>3, <2>4, <2>5, <2>6 DEF Provision
<1>7. ASSUME Reconcile PROVE FALSE
  <2>1. CASE ListRows \/ ListContainers \/ ListDraining \/ ListUnleased
    BY <1>0, <1>1, <2>1, MovesElsewhere
       DEF ListRows, ListContainers, ListDraining, ListUnleased, RecGoto
  <2>2. CASE RetryMark \/ (\E r \in Runtimes : RetryDestroy(r))
    BY <1>0, <1>1, <1>2, <2>2, MovesElsewhere DEF RetryMark, RetryDestroy
  <2>3. CASE EndReconcile \/ (\E r \in Runtimes : DestroyUnleased(r))
    <3>1. /\ [Idle EXCEPT !.pc = "refill"].pc = "refill"
          /\ \A r \in Runtimes : [Idle EXCEPT !.pc = "drain", !.r = r, !.then = "unleased",
                                              !.refill = TRUE].pc = "drain"
      BY DEF Idle
    <3>2. Elsewhere(Rec)
      BY <2>3, <3>1 DEF EndReconcile, DestroyUnleased, Elsewhere
    <3>3. QED
      BY <1>0, <1>1, <3>2
  <2>4. QED
    BY <1>2, <1>7, <2>1, <2>2, <2>3 DEF Reconcile, DestroyOrphan
<1>8. ~Crash
  BY <1>0, IdleType DEF Crash, At
<1>9. ASSUME NEW w \in Workers, DockerPsFails(w) PROVE FALSE
  BY <1>1, <1>9, IdleElsewhere DEF DockerPsFails
<1>10. QED
  BY <1>2, <1>3, <1>4, <1>6, <1>7, <1>8, <1>9 DEF Next, Vanish, vars

LEMMA UsableStep ==
    ASSUME Well, Fencing, ActiveIsCurrent, [Next]_vars, NEW t \in Tasks,
           ~At(t, "check"), At(t, "check")'
    PROVE  row'[task'[t].r].gen = lease[task[t].s].gen
<1>1. ClaimOnce(t)
  BY ChecksAreClaims
<1> DEFINE s == task[t].s
           u == Owner[s]
<1>2. s \in Sessions /\ u \in Users /\ lease[s].gen = env[u].gen
  BY <1>1, ClaimBinds DEF MayClaim
<1>3. PICK r \in Runtimes :
        /\ task' = [task EXCEPT ![t].pc = "check", ![t].r = r]
        /\ \/ r \in Existing(u) /\ Kept
           \/ row'[r].gen = env[u].gen
  BY <1>1, ClaimBinds
<1>4. task'[t].r = r
  BY <1>3, Pieces DEF Workers, TaskType
<1> HIDE DEF u
<1>5. row'[r].gen = env[u].gen
  BY <1>2, <1>3 DEF Existing, Kept, ActiveIsCurrent
<1>6. QED
  BY <1>2, <1>4, <1>5

\* While no authorization version changes, a runtime handed out by a claim
\* passes the fence it will meet, crashes and resets included.
THEOREM ClaimedRuntimesAreUsable == MaxVersion = 1 => (Spec => ClaimIsUsable)
<1> SUFFICES ASSUME MaxVersion = 1 PROVE Spec => ClaimIsUsable
  OBVIOUS
<1>1. Init => Well /\ Fencing /\ ActiveIsCurrent
  BY WellInit, FencingInit DEF Init, ActiveIsCurrent
<1>2. Well /\ Fencing /\ ActiveIsCurrent /\ [Next]_vars => (Well /\ Fencing /\ ActiveIsCurrent)'
  BY WellStep, FencingStep, ActiveStep
<1>3. Well /\ Fencing /\ ActiveIsCurrent /\ [Next]_vars =>
        [\A t \in Tasks : ~At(t, "check") /\ At(t, "check")' =>
            row'[task'[t].r].gen = lease[task[t].s].gen]_vars
  BY UsableStep
<1>4. QED
  BY <1>1, <1>2, <1>3, PTL DEF Spec, ClaimIsUsable

=============================================================================

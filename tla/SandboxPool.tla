---------------------------- MODULE SandboxPool ----------------------------
(***************************************************************************)
(* The warm pool of sandbox runtimes (server/sandbox/manager.py,           *)
(* warm_pool.py) with the leases that entitle a browser session to one     *)
(* (service.py, gateway.py).                                               *)
(*                                                                         *)
(* One Sandbox Manager process runs any number of RPC handlers (Tasks)     *)
(* and one reconcile loop (Reconciler) on an event loop: every await of    *)
(* the code is a point where another of them may run.  MySQL rows change   *)
(* in transactions, Docker containers outside of them.  A container is     *)
(* named after its runtime row, so both are indexed by Runtimes.           *)
(***************************************************************************)
EXTENDS Integers, FiniteSets, FiniteSetsExt

CONSTANTS
    Runtimes,     \* ids of runtime rows; a row is never reused (bound)
    Users,        \* each owns one environment
    Sessions,     \* authenticated browser sessions
    Owner,        \* [Sessions -> Users]
    Priority,     \* [Users -> Int], role priority: the lower goes first
    Tasks,        \* RPC handlers that may run at the same time (bound)
    Reconciler,   \* the reconcile loop of manager_runner.run_forever
    ReadyTarget,  \* warm runtimes wanted
    TotalMax,     \* NLP_AGENT_SANDBOX_RUNTIME_TOTAL_MAX
    HostMax,      \* NLP_AGENT_SANDBOX_HOST_RUNTIME_TOTAL_MAX
    MaxVersion,   \* bound on authorization_version
    MaxGen,       \* bound on environment.generation
    FaultKinds,   \* subset of {"crash", "docker", "kernel", "vanish"}
    MaxFaults,    \* bound on injected faults
    None

ASSUME PoolAssumption ==
    /\ IsFiniteSet(Runtimes)
    /\ Owner \in [Sessions -> Users]
    /\ Priority \in [Users -> Int]
    /\ Reconciler \notin Tasks
    /\ None \notin Runtimes \cup Users \cup Sessions \cup Tasks \cup {Reconciler}
    /\ ReadyTarget \in Nat /\ TotalMax \in Nat /\ HostMax \in Nat
    /\ MaxVersion \in Nat \ {0} /\ MaxGen \in Nat /\ MaxFaults \in Nat

VARIABLES
    row,        \* sandbox_runtime_instances
    container,  \* Docker: which rows have a container
    env,        \* sandbox_environments: fencing generation, active runtime
    version,    \* users.authorization_version
    session,    \* auth sessions: their state and authorization_version
    lease,      \* sandbox_leases: one per environment and session
    ticket,     \* the latest browser ticket issued to a session
    task,       \* where each handler, and the reconcile loop, stands
    lock,       \* holder of the host budget flock
    queue,      \* runtimes the lock holder has reserved and not yet created
    plan,       \* what the reconcile pass has listed
    ran,        \* history: the users whose code ran in a container
    faults

rows == <<row, env>>
auth == <<version, session, lease>>
vars == <<row, container, env, version, session, lease, ticket, task, lock,
          queue, plan, ran, faults>>

Workers == Tasks \cup {Reconciler}
States == {"absent", "creating", "created", "ready_unbound", "assigned",
           "draining", "destroyed", "failed"}
Gens == 0 .. MaxGen
Idle == [pc |-> "idle", s |-> None, r |-> None, then |-> "idle", refill |-> FALSE]
NoPlan == [listed |-> {}, todo |-> {}]

Pcs == {"idle", "claim", "reclaim", "check", "drain", "destroy", "mark",
        "refill", "create", "record", "boot", "execute", "docker", "orphans", "retry", "retrymark", "unleased"}

(***************************************************************************)
(* One record per runtime row, environment, session, lease and handler.    *)
(***************************************************************************)
TypeOK ==
    /\ row \in [Runtimes -> [state : States, ext : BOOLEAN,
                             env : Users \cup {None}, gen : Gens,
                             nonce : Sessions \cup {None}]]
    /\ container \in SUBSET Runtimes
    /\ env \in [Users -> [gen : Gens, active : Runtimes \cup {None}]]
    /\ version \in [Users -> 1 .. MaxVersion]
    /\ session \in [Sessions -> [state : {"new", "live", "ended"},
                                 version : 0 .. MaxVersion]]
    /\ lease \in [Sessions -> [state : {"none", "active", "ended"},
                               gen : Gens, runtime : Runtimes \cup {None}]]
    /\ ticket \in [Sessions -> [runtime : Runtimes, gen : Gens] \cup {None}]
    /\ task \in [Workers -> [pc : Pcs, s : Sessions \cup {None},
                             r : Runtimes \cup {None},
                             then : {"idle", "reclaim", "unleased"},
                             refill : BOOLEAN]]
    /\ lock \in Workers \cup {None}
    /\ queue \in SUBSET Runtimes
    /\ plan \in [listed : SUBSET Runtimes, todo : SUBSET Runtimes]
    /\ ran \in [Runtimes -> SUBSET Users]
    /\ faults \in 0 .. MaxFaults

Init ==
    /\ row = [r \in Runtimes |-> [state |-> "absent", ext |-> FALSE,
                                  env |-> None, gen |-> 0, nonce |-> None]]
    /\ container = {}
    /\ env = [u \in Users |-> [gen |-> 0, active |-> None]]
    /\ version = [u \in Users |-> 1]
    /\ session = [s \in Sessions |-> [state |-> "new", version |-> 0]]
    /\ lease = [s \in Sessions |-> [state |-> "none", gen |-> 0, runtime |-> None]]
    /\ ticket = [s \in Sessions |-> None]
    /\ task = [w \in Workers |-> Idle]
    /\ lock = None /\ queue = {} /\ plan = NoPlan
    /\ ran = [r \in Runtimes |-> {}]
    /\ faults = 0

At(w, pc) == task[w].pc = pc
Goto(w, pc) == task' = [task EXCEPT ![w].pc = pc]
Done(w) == task' = [task EXCEPT ![w] = IF task[w].then = "idle" THEN Idle
                                        ELSE [Idle EXCEPT !.pc = task[w].then,
                                                          !.s = task[w].s]]
Fault(kind) == kind \in FaultKinds /\ faults < MaxFaults /\ faults' = faults + 1

---------------------------------------------------------------------------
(* Sessions and leases: server/web/database_auth.py, service.py.           *)

\* The session is neither revoked nor expired and carries the user's
\* current authorization version.
Authenticated(s) ==
    /\ session[s].state = "live"
    /\ session[s].version = version[Owner[s]]

\* What claim, execute and the unleased sweep all require of a lease.
LeaseLive(s) == lease[s].state = "active" /\ Authenticated(s)

Login(s) ==
    /\ session[s].state = "new"
    /\ session' = [session EXCEPT ![s] = [state |-> "live",
                                          version |-> version[Owner[s]]]]
    /\ UNCHANGED <<rows, container, version, lease, ticket, task, lock, queue,
                   plan, ran, faults>>

\* Every reader of a lease also checks its session, so a lease whose session
\* ends by logout (one transaction), expiry or a new authorization version
\* (revoked at once or by the next revoke_expired_leases) ends here with it.
LeasesEnd(gone) ==
    lease' = [s \in Sessions |->
                IF s \in gone /\ lease[s].state = "active"
                THEN [lease[s] EXCEPT !.state = "ended"] ELSE lease[s]]

EndSession(s) ==
    /\ session[s].state = "live"
    /\ session' = [session EXCEPT ![s].state = "ended"]
    /\ LeasesEnd({s})
    /\ UNCHANGED <<rows, container, version, ticket, task, lock, queue, plan,
                   ran, faults>>

\* A role or membership change bumps the user's authorization version.
ChangeAuthorization(u) ==
    /\ version[u] < MaxVersion
    /\ version' = [version EXCEPT ![u] = @ + 1]
    /\ LeasesEnd({s \in Sessions : Owner[s] = u})
    /\ UNCHANGED <<rows, container, session, ticket, task, lock, queue, plan,
                   ran, faults>>

\* ensure_current_lease raises the environment's generation to the session's
\* authorization version and gives the lease that generation; gateway.open
\* then sends the claim to the Manager.
Open(t, s) ==
    /\ At(t, "idle") /\ Authenticated(s)
    /\ LET u == Owner[s]
           g == Max({env[u].gen, session[s].version})
       IN  /\ g <= MaxGen
           /\ env' = [env EXCEPT ![u].gen = g]
           /\ lease' = [lease EXCEPT ![s].state = "active", ![s].gen = g]
    /\ task' = [task EXCEPT ![t] = [Idle EXCEPT !.pc = "claim", !.s = s]]
    /\ UNCHANGED <<row, container, version, session, ticket, lock, queue, plan,
                   ran, faults>>

---------------------------------------------------------------------------
(* Claiming: WarmPoolManager.claim and WarmPoolService.claim.              *)

\* _has_higher_priority_waiter: another live lease without a runtime whose
\* owner's role goes first.
HigherPriorityWaiter(s) ==
    \E q \in Sessions \ {s} :
        /\ LeaseLive(q) /\ lease[q].runtime = None
        /\ Priority[Owner[q]] < Priority[Owner[s]]

MayClaim(s) == LeaseLive(s) /\ lease[s].gen = env[Owner[s]].gen

\* The environment's own runtime, while it is still assigned to it.
Existing(u) == {r \in Runtimes : /\ env[u].active = r
                                 /\ row[r].env = u /\ row[r].state = "assigned"}

Pristine == {r \in Runtimes : row[r].state = "ready_unbound" /\ row[r].env = None}

Claimable(s) ==
    IF Existing(Owner[s]) # {} THEN Existing(Owner[s])
    ELSE IF HigherPriorityWaiter(s) THEN {} ELSE Pristine

\* A reused runtime only gets a new nonce; a pristine one is bound to the
\* environment and to its generation.
Bind(r, s) ==
    LET u == Owner[s] IN
    IF row[r].state = "assigned"
    THEN [row EXCEPT ![r].nonce = s]
    ELSE [row EXCEPT ![r] = [@ EXCEPT !.state = "assigned", !.env = u,
                                      !.gen = env[u].gen, !.nonce = s]]

ClaimOnce(t) ==
    /\ At(t, "claim") \/ At(t, "reclaim")
    /\ LET s == task[t].s IN
       /\ MayClaim(s)
       /\ \E r \in Claimable(s) :
            /\ row' = Bind(r, s)
            /\ env' = [env EXCEPT ![Owner[s]].active = r]
            /\ lease' = [lease EXCEPT ![s].runtime = r]
            /\ task' = [task EXCEPT ![t].pc = "check", ![t].r = r]
    /\ UNCHANGED <<container, version, session, ticket, lock, queue, plan, ran,
                   faults>>

\* Nothing to claim: refill and try once more, then report "warming".
ClaimFails(t) ==
    /\ At(t, "claim") \/ At(t, "reclaim")
    /\ LET s == task[t].s IN ~(MayClaim(s) /\ Claimable(s) # {})
    /\ \/ /\ At(t, "claim")
          /\ task' = [task EXCEPT ![t].pc = "refill", ![t].then = "reclaim"]
       \/ /\ At(t, "reclaim")
          /\ task' = [task EXCEPT ![t] = Idle]
    /\ UNCHANGED <<rows, container, auth, ticket, lock, queue, plan, ran, faults>>

\* The kernel answers: the gateway signs a ticket for the runtime.
KernelReady(t) ==
    /\ At(t, "check") /\ task[t].r \in container
    /\ LET s == task[t].s
           k == [runtime |-> task[t].r, gen |-> row[task[t].r].gen]
       IN  ticket' = [ticket EXCEPT ![s] = k]
    /\ task' = [task EXCEPT ![t] = Idle]
    /\ UNCHANGED <<rows, container, auth, lock, queue, plan, ran, faults>>

KernelNotReady(t) ==
    /\ At(t, "check")
    /\ \/ task[t].r \notin container /\ UNCHANGED faults
       \/ task[t].r \in container /\ Fault("kernel")
    /\ task' = [task EXCEPT ![t].pc = "drain", ![t].then = "idle", ![t].refill = TRUE]
    /\ UNCHANGED <<rows, container, auth, ticket, lock, queue, plan, ran>>

---------------------------------------------------------------------------
(* Commands: execute_claimed and reset_runtime.                            *)

\* The transaction that fences a command before it reaches Docker.
Fenced(s, k) ==
    /\ k # None
    /\ LeaseLive(s)
    /\ row[k.runtime].state = "assigned"
    /\ row[k.runtime].env = Owner[s]
    /\ lease[s].gen = row[k.runtime].gen
    /\ row[k.runtime].gen = k.gen

Execute(t, s) ==
    /\ At(t, "idle")
    /\ LET k == ticket[s] IN
       /\ Fenced(s, k)
       /\ row[k.runtime].nonce \in {None, s}
       /\ row' = [row EXCEPT ![k.runtime].nonce = None]
       /\ task' = [task EXCEPT ![t] = [Idle EXCEPT !.pc = "execute", !.s = s,
                                                   !.r = k.runtime]]
    /\ UNCHANGED <<container, env, auth, ticket, lock, queue, plan, ran, faults>>

\* docker exec, outside the transaction: it fails when the container is gone.
Run(t) ==
    /\ At(t, "execute")
    /\ ran' = IF task[t].r \in container
              THEN [ran EXCEPT ![task[t].r] = @ \cup {Owner[task[t].s]}] ELSE ran
    /\ task' = [task EXCEPT ![t] = Idle]
    /\ UNCHANGED <<rows, container, auth, ticket, lock, queue, plan, faults>>

\* A command that times out replaces the runtime it ran in.
RunTimesOut(t) ==
    /\ At(t, "execute") /\ task[t].r \in container
    /\ ran' = [ran EXCEPT ![task[t].r] = @ \cup {Owner[task[t].s]}]
    /\ task' = [task EXCEPT ![t].pc = "drain", ![t].refill = TRUE]
    /\ UNCHANGED <<rows, container, auth, ticket, lock, queue, plan, faults>>

\* Mutant: the active leases keep the old generation.
Reset_LeasesKeepGeneration(t, s) ==
    /\ At(t, "idle")
    /\ LET k == ticket[s] u == Owner[s] g == env[u].gen + 1 IN
       /\ Fenced(s, k) /\ lease[s].runtime = k.runtime /\ g <= MaxGen
       /\ env' = [env EXCEPT ![u] = [gen |-> g, active |-> None]]
       /\ task' = [task EXCEPT ![t] = [Idle EXCEPT !.pc = "drain", !.r = k.runtime]]
    /\ UNCHANGED <<row, container, auth, ticket, lock, queue, plan, ran, faults>>

\* Mutant: the environment keeps pointing at the runtime that is destroyed.
Reset_KeepsActive(t, s) ==
    /\ At(t, "idle")
    /\ LET k == ticket[s] u == Owner[s] g == env[u].gen + 1 IN
       /\ Fenced(s, k) /\ lease[s].runtime = k.runtime /\ g <= MaxGen
       /\ env' = [env EXCEPT ![u].gen = g]
       /\ lease' = [q \in Sessions |->
                      IF Owner[q] = u /\ lease[q].state = "active"
                      THEN [lease[q] EXCEPT !.gen = g, !.runtime = None]
                      ELSE lease[q]]
       /\ task' = [task EXCEPT ![t] = [Idle EXCEPT !.pc = "drain", !.r = k.runtime]]
    /\ UNCHANGED <<row, container, version, session, ticket, lock, queue, plan,
                   ran, faults>>

\* reset_runtime: raise the environment's generation, carry its active leases
\* over to it without a runtime, drop the pointer, then destroy the runtime.
Reset(t, s) ==
    /\ At(t, "idle")
    /\ LET k == ticket[s] u == Owner[s] g == env[u].gen + 1 IN
       /\ Fenced(s, k)
       /\ lease[s].runtime = k.runtime
       /\ g <= MaxGen
       /\ env' = [env EXCEPT ![u] = [gen |-> g, active |-> None]]
       /\ lease' = [q \in Sessions |->
                      IF Owner[q] = u /\ lease[q].state = "active"
                      THEN [lease[q] EXCEPT !.gen = g, !.runtime = None]
                      ELSE lease[q]]
       /\ task' = [task EXCEPT ![t] = [Idle EXCEPT !.pc = "drain", !.r = k.runtime]]
    /\ UNCHANGED <<row, container, version, session, ticket, lock, queue, plan,
                   ran, faults>>

---------------------------------------------------------------------------
(* destroy_runtime, from any handler and from the reconcile loop.          *)

Drain(w) ==
    /\ At(w, "drain")
    /\ IF row[task[w].r].state = "assigned"
       THEN row' = [row EXCEPT ![task[w].r].state = "draining"] /\ Goto(w, "destroy")
       ELSE UNCHANGED row /\ Done(w)
    /\ UNCHANGED <<container, env, auth, ticket, lock, queue, plan, ran, faults>>

Destroy(w) ==
    /\ At(w, "destroy")
    /\ container' = container \ {task[w].r}
    /\ Goto(w, "mark")
    /\ UNCHANGED <<rows, auth, ticket, lock, queue, plan, ran, faults>>

\* Mutant: a runtime that cannot be removed goes back to the pool.
DestroyFails_BackToPool(w) ==
    /\ At(w, "destroy") /\ task[w].r \in container /\ Fault("docker")
    /\ row' = [row EXCEPT ![task[w].r].state = "ready_unbound", ![task[w].r].env = None]
    /\ Done(w)
    /\ UNCHANGED <<env, container, auth, ticket, lock, queue, plan, ran>>

\* docker rm fails, or reports the missing container as an error: the row
\* stays draining for the reconcile loop.
DestroyFails(w) ==
    /\ At(w, "destroy")
    /\ \/ task[w].r \notin container /\ UNCHANGED faults
       \/ task[w].r \in container /\ Fault("docker")
    /\ Done(w)
    /\ UNCHANGED <<rows, container, auth, ticket, lock, queue, plan, ran>>

\* Mutant: a state the column does not know.
MarkDestroyed_Typo(r) ==
    row' = [row EXCEPT ![r].nonce = None, ![r].state = "terminated"] /\ UNCHANGED env

\* mark_destroyed: forget the nonce and the environment's pointer to the row.
MarkDestroyed(r) ==
    /\ row' = [row EXCEPT ![r].nonce = None,
                          ![r].state = IF @ \in {"draining", "destroyed"}
                                       THEN "destroyed" ELSE "failed"]
    /\ env' = [u \in Users |-> IF row[r].env = u /\ env[u].active = r
                               THEN [env[u] EXCEPT !.active = None] ELSE env[u]]

Mark(w) ==
    /\ At(w, "mark")
    /\ MarkDestroyed(task[w].r)
    /\ IF task[w].refill
       THEN task' = [task EXCEPT ![w].pc = "refill", ![w].r = None] ELSE Done(w)
    /\ UNCHANGED <<container, auth, ticket, lock, queue, plan, ran, faults>>

---------------------------------------------------------------------------
(* refill: the host lock is held over the reservation and every create.    *)

Counted == {r \in Runtimes : row[r].state \in
              {"creating", "ready_unbound", "assigned", "draining"}}
Fresh == {r \in Runtimes : row[r].state = "absent"}
InState(rs, st) == {r \in rs : row[r].state = st}

\* Mutant: the host's container count is not looked at.
Deficit_RowsOnly(counted) ==
    LET ready == Cardinality(InState(counted, "ready_unbound"))
        creating == Cardinality(InState(counted, "creating"))
    IN  Min({Max({0, ReadyTarget - ready - creating}),
             Max({0, TotalMax - Cardinality(counted)}), Cardinality(Fresh)})

\* Mutant: draining runtimes do not count against the pool.
Deficit_WithoutDraining(counted) ==
    LET live == counted \ InState(counted, "draining")
        ready == Cardinality(InState(counted, "ready_unbound"))
        creating == Cardinality(InState(counted, "creating"))
    IN  Min({Max({0, ReadyTarget - ready - creating}),
             Max({0, TotalMax - Cardinality(live)}),
             Max({0, HostMax - Cardinality(container)}), Cardinality(Fresh)})

\* refill_deficit, then _host_allows_create for one row after the other.
Deficit(counted) ==
    LET ready == Cardinality(InState(counted, "ready_unbound"))
        creating == Cardinality(InState(counted, "creating"))
        wanted == Min({Max({0, ReadyTarget - ready - creating}),
                       Max({0, TotalMax - Cardinality(counted)})})
        host == HostMax - Max({Cardinality(counted), Cardinality(container)})
    IN  Min({wanted, Max({0, host}), Cardinality(Fresh)})

\* Rows left in creating by a crash count as stale once they are old enough.
Reserve(w) ==
    /\ At(w, "refill") /\ lock = None
    /\ \E stale \in SUBSET InState(Runtimes, "creating") :
       \E rs \in kSubset(Deficit(Counted \ stale), Fresh) :
         /\ row' = [r \in Runtimes |->
                      IF r \in stale THEN [row[r] EXCEPT !.state = "failed"]
                      ELSE IF r \in rs THEN [row[r] EXCEPT !.state = "creating"]
                      ELSE row[r]]
         /\ IF rs = {} THEN Done(w) /\ UNCHANGED <<lock, queue>>
            ELSE \E r \in rs :
                   /\ task' = [task EXCEPT ![w].pc = "create", ![w].r = r]
                   /\ lock' = w /\ queue' = rs \ {r}
    /\ UNCHANGED <<container, env, auth, ticket, plan, ran, faults>>

\* The next reserved row, or the end of the refill and of the lock.
NextCreate(w) ==
    IF queue = {} THEN Done(w) /\ lock' = None /\ UNCHANGED queue
    ELSE \E r \in queue : /\ task' = [task EXCEPT ![w].pc = "create", ![w].r = r]
                          /\ queue' = queue \ {r} /\ UNCHANGED lock

\* With a cached image the container is created, recorded, then started;
\* otherwise docker run does it at once and the row stays creating.
Create(w) ==
    /\ At(w, "create")
    /\ container' = container \cup {task[w].r}
    /\ Goto(w, "record") \/ Goto(w, "boot")
    /\ UNCHANGED <<rows, auth, ticket, lock, queue, plan, ran, faults>>

Record(w) ==
    /\ At(w, "record")
    /\ row' = [row EXCEPT ![task[w].r].ext = TRUE, ![task[w].r].state = "created"]
    /\ Goto(w, "boot")
    /\ UNCHANGED <<container, env, auth, ticket, lock, queue, plan, ran, faults>>

Booted(w) ==
    /\ At(w, "boot") /\ task[w].r \in container
    /\ row' = IF row[task[w].r].state \in {"creating", "created"}
              THEN [row EXCEPT ![task[w].r].ext = TRUE,
                               ![task[w].r].state = "ready_unbound"]
              ELSE row
    /\ NextCreate(w)
    /\ UNCHANGED <<container, env, auth, ticket, plan, ran, faults>>

\* The create, the start or the readiness wait fails; the container is
\* removed only on the path that reaches docker rm, and that may fail too.
CreateFails(w) ==
    /\ At(w, "create") \/ At(w, "boot")
    /\ \/ At(w, "boot") /\ task[w].r \notin container /\ UNCHANGED faults
       \/ Fault("docker") \/ Fault("kernel")
    /\ \E gone \in SUBSET {task[w].r} : container' = container \ gone
    /\ row' = [row EXCEPT ![task[w].r].state = "failed"]
    /\ NextCreate(w)
    /\ UNCHANGED <<env, auth, ticket, plan, ran>>

---------------------------------------------------------------------------
(* reconcile: rows, then containers, then the repairs, one after another.  *)

Rec == Reconciler
RecGoto(pc) == task' = [task EXCEPT ![Rec].pc = pc]

ListRows ==
    /\ At(Rec, "idle")
    /\ plan' = [NoPlan EXCEPT !.listed =
                  {r \in Runtimes : /\ row[r].ext
                                    /\ row[r].state \in {"ready_unbound", "assigned",
                                                         "draining"}}]
    /\ RecGoto("docker")
    /\ UNCHANGED <<rows, container, auth, ticket, lock, queue, ran, faults>>

\* docker ps, and the transaction that fails the rows without a container.
ListContainers ==
    /\ At(Rec, "docker")
    /\ row' = [r \in Runtimes |->
                 IF r \in plan.listed \ container /\ row[r].state # "destroyed"
                 THEN [row[r] EXCEPT !.state = "failed", !.nonce = None] ELSE row[r]]
    /\ plan' = [listed |-> {}, todo |-> container \ plan.listed]
    /\ RecGoto("orphans")
    /\ UNCHANGED <<container, env, auth, ticket, lock, queue, ran, faults>>

DestroyOrphan(r) ==
    /\ At(Rec, "orphans") /\ r \in plan.todo
    /\ plan' = [plan EXCEPT !.todo = @ \ {r}]
    /\ \/ container' = container \ {r} /\ UNCHANGED faults
       \/ r \in container /\ UNCHANGED container /\ Fault("docker")
    /\ UNCHANGED <<rows, auth, ticket, task, lock, queue, ran>>

\* Mutant: a failed destroy is left to the orphan pass.
ListDraining_Skipped ==
    /\ At(Rec, "orphans") /\ plan.todo = {}
    /\ RecGoto("retry")
    /\ UNCHANGED <<rows, container, auth, ticket, lock, queue, plan, ran, faults>>

\* _retry_draining_runtimes: list them, then destroy and mark each.
ListDraining ==
    /\ At(Rec, "orphans") /\ plan.todo = {}
    /\ plan' = [plan EXCEPT !.todo = {r \in InState(Runtimes, "draining") : row[r].ext}]
    /\ RecGoto("retry")
    /\ UNCHANGED <<rows, container, auth, ticket, lock, queue, ran, faults>>

RetryDestroy(r) ==
    /\ At(Rec, "retry") /\ r \in plan.todo
    /\ plan' = [plan EXCEPT !.todo = @ \ {r}]
    /\ \/ /\ container' = container \ {r} /\ UNCHANGED faults
          /\ task' = [task EXCEPT ![Rec].pc = "retrymark", ![Rec].r = r]
       \/ r \notin container /\ UNCHANGED <<container, task, faults>>
       \/ r \in container /\ UNCHANGED <<container, task>> /\ Fault("docker")
    /\ UNCHANGED <<rows, auth, ticket, lock, queue, ran>>

RetryMark ==
    /\ At(Rec, "retrymark")
    /\ MarkDestroyed(task[Rec].r)
    /\ task' = [task EXCEPT ![Rec].pc = "retry", ![Rec].r = None]
    /\ UNCHANGED <<container, auth, ticket, lock, queue, plan, ran, faults>>

\* _destroy_unleased_assigned_runtimes: an environment without a live lease
\* loses its runtime even when no release was ever announced.
Unleased(r) ==
    /\ row[r].state = "assigned"
    /\ \A s \in Sessions : Owner[s] = row[r].env => ~LeaseLive(s)

\* Mutant: releases are trusted to arrive, nothing is swept.
ListUnleased_Skipped ==
    /\ At(Rec, "retry") /\ plan.todo = {}
    /\ RecGoto("unleased")
    /\ UNCHANGED <<rows, container, auth, ticket, lock, queue, plan, ran, faults>>

ListUnleased ==
    /\ At(Rec, "retry") /\ plan.todo = {}
    /\ plan' = [plan EXCEPT !.todo = {r \in Runtimes : Unleased(r)}]
    /\ RecGoto("unleased")
    /\ UNCHANGED <<rows, container, auth, ticket, lock, queue, ran, faults>>

DestroyUnleased(r) ==
    /\ At(Rec, "unleased") /\ r \in plan.todo
    /\ plan' = [plan EXCEPT !.todo = @ \ {r}]
    /\ task' = [task EXCEPT ![Rec] = [Idle EXCEPT !.pc = "drain", !.r = r,
                                                  !.then = "unleased", !.refill = TRUE]]
    /\ UNCHANGED <<rows, container, auth, ticket, lock, queue, ran, faults>>

EndReconcile ==
    /\ At(Rec, "unleased") /\ plan.todo = {}
    /\ task' = [task EXCEPT ![Rec] = [Idle EXCEPT !.pc = "refill"]]
    /\ plan' = NoPlan
    /\ UNCHANGED <<rows, container, auth, ticket, lock, queue, ran, faults>>

---------------------------------------------------------------------------
(* Faults.                                                                 *)

\* The Manager dies: handlers, lock and plan are gone, rows and containers stay.
Crash ==
    /\ Fault("crash")
    /\ task' = [w \in Workers |-> Idle]
    /\ lock' = None /\ queue' = {} /\ plan' = NoPlan
    /\ UNCHANGED <<rows, container, auth, ticket, ran>>

\* docker ps fails.  The count of a refill is made before anything is
\* committed and ends the handler; the list, or a count within the pass, ends
\* the pass, which the loop begins again.
DockerPsFails(w) ==
    /\ \/ At(w, "refill") /\ lock = None
       \/ At(w, "docker")
    /\ Fault("docker")
    /\ task' = [task EXCEPT ![w] = Idle]
    /\ plan' = IF w = Rec THEN NoPlan ELSE plan
    /\ UNCHANGED <<rows, container, auth, ticket, lock, queue, ran>>

\* A container disappears on its own (host restart, out of memory).
Vanish(r) ==
    /\ r \in container /\ Fault("vanish")
    /\ container' = container \ {r}
    /\ UNCHANGED <<rows, auth, ticket, task, lock, queue, plan, ran>>

---------------------------------------------------------------------------
Browser ==
    \/ \E s \in Sessions : Login(s) \/ EndSession(s)
    \/ \E u \in Users : ChangeAuthorization(u)
    \/ \E t \in Tasks, s \in Sessions : Open(t, s) \/ Execute(t, s) \/ Reset(t, s)

Handle(t) ==
    \/ ClaimOnce(t) \/ ClaimFails(t) \/ KernelReady(t) \/ KernelNotReady(t)
    \/ Run(t) \/ RunTimesOut(t)

Provision(w) ==
    \/ Drain(w) \/ Destroy(w) \/ DestroyFails(w) \/ Mark(w)
    \/ Create(w) \/ Record(w) \/ Booted(w) \/ CreateFails(w)

Reconcile ==
    \/ ListRows \/ ListContainers \/ ListDraining \/ RetryMark
    \/ ListUnleased \/ EndReconcile
    \/ \E r \in Runtimes : DestroyOrphan(r) \/ RetryDestroy(r) \/ DestroyUnleased(r)

Next ==
    \/ Browser
    \/ \E t \in Tasks : Handle(t)
    \/ \E w \in Workers : Provision(w) \/ Reserve(w)
    \/ Reconcile
    \/ Crash \/ (\E r \in Runtimes : Vanish(r)) \/ \E w \in Workers : DockerPsFails(w)

Spec == Init /\ [][Next]_vars

\* The event loop runs every handler and the reconcile loop; flock serves its
\* waiters in turn.
FairSpec ==
    /\ Spec
    /\ \A t \in Tasks : WF_vars(Handle(t) \/ Provision(t))
    /\ WF_vars(Reconcile \/ Provision(Rec))
    /\ \A w \in Workers : SF_vars(Reserve(w))

---------------------------------------------------------------------------
(***************************************************************************)
(* A container serves one user only: whatever crashes, retries and resets  *)
(* happen, no container in which one user's code has run ever runs         *)
(* another's (the manager "never cleans an assigned container for reuse"). *)
(***************************************************************************)
OneTenant ==
    \A r \in Runtimes : /\ Cardinality(ran[r]) <= 1
                        /\ ran[r] # {} => row[r].env \in ran[r]

(***************************************************************************)
(* The shared host budget: reservations, creates and crashes of concurrent *)
(* refills never put more containers on the host than it allows.  (Scratch *)
(* containers carry the label too; no refill makes or awaits one.)         *)
(***************************************************************************)
HostBudget == Cardinality(container) <= HostMax

(***************************************************************************)
(* The pool's own limit holds for the rows that _counts looks at.          *)
(***************************************************************************)
PoolBudget == Cardinality(Counted) <= TotalMax

(***************************************************************************)
(* A command that passes the fence of execute_claimed is for the           *)
(* environment's active runtime and its current generation: neither a      *)
(* reset nor a re-login leaves an older ticket usable.                     *)
(***************************************************************************)
AcceptedIsActive ==
    [][\A t \in Tasks :
         ~At(t, "execute") /\ At(t, "execute")' =>
            LET u == Owner[task'[t].s] r == task'[t].r IN
            env[u].active = r /\ env[u].gen = row[r].gen]_vars

(***************************************************************************)
(* A runtime whose environment has no live lease left does not stay        *)
(* assigned: the sweep of the reconcile loop needs no release message.     *)
(***************************************************************************)
UnleasedIsReclaimed == \A r \in Runtimes : Unleased(r) ~> ~Unleased(r)

(***************************************************************************)
(* No container outlives its runtime: a container whose row is draining,   *)
(* destroyed or failed is removed in the end, whichever step failed.       *)
(***************************************************************************)
DeadContainersGo ==
    \A r \in Runtimes :
        (r \in container /\ row[r].state \in {"draining", "destroyed", "failed"})
            ~> r \notin container

(***************************************************************************)
(* The reconcile loop removes containers that no row accounts for, never   *)
(* the container of a runtime that is assigned to a user.                  *)
(***************************************************************************)
OrphansAreUnowned ==
    [][\A r \in Runtimes :
         At(Rec, "orphans") /\ r \in plan.todo /\ r \notin plan'.todo
            => row[r].state # "assigned"]_vars

(***************************************************************************)
(* A claim is usable: the runtime that claim hands out carries the         *)
(* generation of the lease it is claimed for, which is what the fence of   *)
(* every later command compares, even when a crash cuts a reset in two.    *)
(* It needs MaxVersion = 1: once an authorization version changes,         *)
(* ensure_current_lease raises the lease's generation and claim reuses the *)
(* assigned runtime with the old one.                                      *)
(***************************************************************************)
ClaimIsUsable ==
    [][\A t \in Tasks :
         ~At(t, "check") /\ At(t, "check")' =>
            row'[task'[t].r].gen = lease[task[t].s].gen]_vars

=============================================================================

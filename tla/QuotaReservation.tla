-------------------------- MODULE QuotaReservation --------------------------
(***************************************************************************)
(* Credit reservations of turns (server/quota).  A turn is admitted by     *)
(* holding its estimate in the current bucket of its user and of the       *)
(* workspace and by taking one of the user's concurrency units.  Provider  *)
(* calls add holds and charge usage; the end of the turn, its cancellation *)
(* or the expiry of the reservation's lease gives the rest back.           *)
(*                                                                         *)
(* Each call of QuotaService is one transaction under row locks, hence one *)
(* action.  The callers are the gateway (admission, failed dispatch), the  *)
(* execution of the turn in a worker, the cancellation finalizer, the      *)
(* usage reporter and the reaper.  A rejected call changes nothing.        *)
(***************************************************************************)
EXTENDS Integers, FiniteSets, FiniteSetsExt

CONSTANTS
    Turns,
    Users,
    Workspace,            \* the owner of the shared buckets
    UserOf,               \* the user of a turn
    Operations,           \* attempts at a provider, by operation_id
    TurnOf,               \* the turn an attempt belongs to
    Estimate,             \* estimated_micro of every turn
    FeatureMicro,         \* what reserve_feature_usage holds
    Credits,              \* possible prices of an attempt
    Limit,                \* limit, overdraft and grants of a bucket's owner
    RequestLimit,         \* request_limit_micro
    ConcurrencyLimit,     \* concurrency_limit of the policy
    MaxPeriod,            \* bound on the period number
    MaxDispatchFailures,  \* bound on the failed dispatches of each turn
    MaxRecoveries         \* how often recovery delivers each turn again

Owners  == Users \union {Workspace}
Periods == 0..MaxPeriod
Buckets == Owners \X Periods

ASSUME QuotaAssumption ==
    /\ IsFiniteSet(Turns) /\ IsFiniteSet(Operations)
    /\ UserOf \in [Turns -> Users] /\ TurnOf \in [Operations -> Turns]
    /\ Workspace \notin Users
    /\ Limit \in [Owners -> Nat] /\ Credits \subseteq Nat
    /\ {Estimate, FeatureMicro, RequestLimit, ConcurrencyLimit, MaxPeriod} \subseteq Nat
    /\ {MaxDispatchFailures, MaxRecoveries} \subseteq [Turns -> Nat]

VARIABLES
    resv,      \* nlp_quota_reservations, and the buckets of its reserve entries
    bucket,    \* nlp_quota_buckets
    units,     \* active_units of nlp_quota_concurrency_locks
    keys,      \* idempotency keys of the finish entries in the ledger
    op,        \* feature hold and settlement entries of each operation
    phase,     \* what the gateway and the workers are doing with a turn
    failures,  \* failed dispatches of a turn
    crashes,   \* executions a turn has lost
    period     \* the current period

vars == <<resv, bucket, units, keys, op, phase, failures, crashes, period>>

Active   == {"reserved", "running", "settling"}
Terminal == {"settled", "released", "expired"}
ExpiryKeys == {"expiry", "begin-expiry", "heartbeat-expiry"}
Keys       == ExpiryKeys \union {"turn-finished", "worker-cancelled", "dispatch-failed"}

NoReservation == [status |-> "none", reserved |-> 0, settled |-> 0, lease |-> "lapsed",
                  holds |-> {}]
NoOperation   == [state |-> "none", hold |-> 0, credits |-> 0, released |-> 0, to |-> {}]

TypeOK ==
    /\ resv \in [Turns -> [status : {"none"} \union Active \union Terminal,
                           reserved : Nat, settled : Nat, lease : {"live", "lapsed"},
                           holds : SUBSET Buckets]]
    /\ bucket \in [Buckets -> [consumed : Nat, reserved : Nat]]
    /\ units \in [Users -> Nat]
    /\ keys \in [Turns -> SUBSET Keys]
    /\ op \in [Operations -> [state : {"none", "started", "cancelled", "lost", "pending", "settled"},
                              hold : Nat, credits : Nat, released : Nat, to : SUBSET Buckets]]
    /\ phase \in [Turns -> {"new", "admitted", "queued", "undispatched", "running", "failing", "done"}]
    /\ failures \in [Turns -> Nat] /\ \A t \in Turns : failures[t] <= MaxDispatchFailures[t]
    /\ crashes \in [Turns -> Nat] /\ \A t \in Turns : crashes[t] <= MaxRecoveries[t] + 1
    /\ period \in Periods

Init ==
    /\ resv = [t \in Turns |-> NoReservation]
    /\ bucket = [b \in Buckets |-> [consumed |-> 0, reserved |-> 0]]
    /\ units = [u \in Users |-> 0]
    /\ keys = [t \in Turns |-> {}]
    /\ op = [o \in Operations |-> NoOperation]
    /\ phase = [t \in Turns |-> "new"]
    /\ failures = [t \in Turns |-> 0]
    /\ crashes = [t \in Turns |-> 0]
    /\ period = 0

-----------------------------------------------------------------------------
(* finish_in_transaction, for a set of reservations and one kind of key *)

\* max(0, a - b)
Less(a, b) == IF a > b THEN a - b ELSE 0

\* The reservations a finish really ends: its key is new and they are active.
Ends(S, key) == {t \in S : key \notin keys[t] /\ resv[t].status \in Active}

\* Mutant: the current buckets are charged too.
Held_AndCurrent(t) == resv[t].holds \union ({UserOf[t], Workspace} \X {period})

\* _reservation_buckets: every bucket with a reserve entry of the reservation.
Held(t) == resv[t].holds

\* The sum of f[x] over the members x of S, as a number of units.
Total(f, S) == Cardinality(UNION {{x} \X (1 .. f[x]) : x \in S})

Reserved == [t \in Turns |-> resv[t].reserved]

\* What a finish of S gives back to a bucket.
Freed(S, b) == Total(Reserved, {t \in S : b \in Held(t)})

\* Mutant: only buckets of the current period get their hold back.
BucketsAfter_CurrentOnly(S) ==
    [b \in Buckets |-> IF b[2] # period THEN bucket[b]
                       ELSE [bucket[b] EXCEPT !.reserved = Less(@, Freed(S, b))]]

\* Every bucket the reservation ever reserved from gives back what it holds.
BucketsAfter(S) ==
    [b \in Buckets |-> [bucket[b] EXCEPT !.reserved = Less(@, Freed(S, b))]]

\* Mutant: the unit is forgotten.
UnitsAfter_Kept(S) == units

UnitsAfter(S) ==
    [u \in Users |-> Less(units[u], Cardinality({t \in S : UserOf[t] = u}))]

\* Mutant: a status the column does not know.
EndStatus_Typo(t, key) == IF key \in ExpiryKeys THEN "timeout" ELSE "released"

EndStatus(t, key) ==
    IF key \in ExpiryKeys THEN "expired"
    ELSE IF resv[t].settled > 0 THEN "settled" ELSE "released"

ResvAfter(S, key) ==
    [t \in Turns |-> IF t \in S
        THEN [resv[t] EXCEPT !.status = EndStatus(t, key), !.reserved = 0, !.lease = "lapsed"]
        ELSE resv[t]]

KeysAfter(S, key) == [t \in Turns |-> IF t \in S THEN keys[t] \union {key} ELSE keys[t]]

Finish(S, key) ==
    /\ resv' = ResvAfter(Ends(S, key), key)
    /\ bucket' = BucketsAfter(Ends(S, key))
    /\ units' = UnitsAfter(Ends(S, key))
    /\ keys' = KeysAfter(Ends(S, key), key)

\* Mutant: a reservation with reported usage is not looked for.
Lapsed_NotSettling ==
    {t \in Turns : resv[t].status \in {"reserved", "running"} /\ resv[t].lease = "lapsed"}

Lapsed == {t \in Turns : resv[t].status \in Active /\ resv[t].lease = "lapsed"}

-----------------------------------------------------------------------------
(* Admission *)

\* A retried command gets a new hold if nothing was charged to the old one, or
\* if the reservation is active and its lease is over.
Rearmable(t) ==
    \/ resv[t].status \in {"released", "expired"} /\ resv[t].settled = 0
    \/ t \in Lapsed

Current(t) == {UserOf[t], Workspace} \X {period}

\* Mutant: what other turns hold does not count.
Available_IgnoresHolds(b, row) == Limit[b[1]] - row.consumed

Available(b, row) == Limit[b[1]] - row.consumed - row.reserved

\* Lapsed reservations, this one's included, are expired in the same
\* transaction, before the checks.
Admit(t) ==
    LET stale == Ends(Lapsed, "expiry")
        after == BucketsAfter(stale)
        user  == UserOf[t]
    IN
    /\ phase[t] \in {"new", "undispatched"}
    /\ resv[t].status = "none" \/ Rearmable(t)
    /\ Estimate <= RequestLimit
    /\ \A b \in Current(t) : Estimate <= Available(b, after[b])
    /\ UnitsAfter(stale)[user] + 1 <= ConcurrencyLimit
    /\ resv' = [ResvAfter(stale, "expiry") EXCEPT ![t] =
                  [status |-> "reserved", reserved |-> Estimate, settled |-> 0,
                   lease |-> "live", holds |-> Held(t) \union Current(t)]]
    /\ bucket' = [b \in Buckets |-> IF b \in Current(t)
                    THEN [after[b] EXCEPT !.reserved = @ + Estimate] ELSE after[b]]
    /\ units' = [UnitsAfter(stale) EXCEPT ![user] = @ + 1]
    /\ keys' = KeysAfter(stale, "expiry")
    /\ phase' = [phase EXCEPT ![t] = "admitted"]
    /\ UNCHANGED <<op, failures, crashes, period>>

\* The command is a duplicate: the reservation is used as it is.
AdmitDuplicate(t) ==
    /\ phase[t] = "undispatched"
    /\ resv[t].status # "none" /\ ~Rearmable(t)
    /\ phase' = [phase EXCEPT ![t] = "admitted"]
    /\ UNCHANGED <<resv, bucket, units, keys, op, failures, crashes, period>>

Dispatch(t) ==
    /\ phase[t] = "admitted"
    /\ phase' = [phase EXCEPT ![t] = "queued"]
    /\ UNCHANGED <<resv, bucket, units, keys, op, failures, crashes, period>>

\* dispatcher.submit raised; the user may send the same command again.
DispatchFails(t) ==
    /\ phase[t] = "admitted"
    /\ failures[t] < MaxDispatchFailures[t]
    /\ Finish({t}, "dispatch-failed")
    /\ phase' = [phase EXCEPT ![t] = "undispatched"]
    /\ failures' = [failures EXCEPT ![t] = @ + 1]
    /\ UNCHANGED <<op, crashes, period>>

-----------------------------------------------------------------------------
(* Execution of the turn *)

\* begin_reservation: false makes the execution fail the turn.
Begin(t) ==
    /\ phase[t] = "queued"
    /\ IF resv[t].status \in Active /\ resv[t].lease = "live"
       THEN /\ resv' = [resv EXCEPT ![t].status = "running"]
            /\ phase' = [phase EXCEPT ![t] = "running"]
            /\ UNCHANGED <<bucket, units, keys>>
       ELSE /\ Finish({t} \intersect Lapsed, "begin-expiry")
            /\ phase' = [phase EXCEPT ![t] = "failing"]
    /\ UNCHANGED <<op, failures, crashes, period>>

\* heartbeat: a lease that is over is not renewed.
Heartbeat(t) ==
    /\ phase[t] = "running"
    /\ Finish({t} \intersect Lapsed, "heartbeat-expiry")
    /\ UNCHANGED <<op, phase, failures, crashes, period>>

\* _finish_quota at the end of run(), whatever way the turn ended.
FinishTurn(t) ==
    /\ phase[t] \in {"running", "failing"}
    /\ Finish({t}, "turn-finished")
    /\ phase' = [phase EXCEPT ![t] = "done"]
    /\ UNCHANGED <<op, failures, crashes, period>>

\* cancel_pending, of a turn no execution has finished.
WorkerCancelled(t) ==
    /\ phase[t] \in {"queued", "running", "failing"}
    /\ Finish({t}, "worker-cancelled")
    /\ phase' = [phase EXCEPT ![t] = "done"]
    /\ UNCHANGED <<op, failures, crashes, period>>

\* The worker dies, and what it did not report is lost, or it stalls until its
\* claim is taken away and reports later.  Recovery delivers the turn again or
\* gives it up; neither touches the reservation.
ExecutionLost(t) ==
    /\ phase[t] = "running"
    /\ phase' = [phase EXCEPT ![t] = IF crashes[t] < MaxRecoveries[t] THEN "queued" ELSE "done"]
    /\ crashes' = [crashes EXCEPT ![t] = @ + 1]
    /\ \/ op' = [o \in Operations |-> IF TurnOf[o] = t /\ op[o].state = "started"
                   THEN [op[o] EXCEPT !.state = "lost"] ELSE op[o]]
       \/ UNCHANGED op
    /\ UNCHANGED <<resv, bucket, units, keys, failures, period>>

-----------------------------------------------------------------------------
(* Provider attempts *)

StartOperation(o) ==
    /\ phase[TurnOf[o]] = "running"
    /\ op[o].state = "none"
    /\ op' = [op EXCEPT ![o].state = "started"]
    /\ UNCHANGED <<resv, bucket, units, keys, phase, failures, crashes, period>>

\* Mutant: the hold is added to a reservation whatever its state is.
CanHold_Always(t) == TRUE

CanHold(t) == resv[t].status \in Active /\ resv[t].lease = "live"

\* reserve_feature_usage
ReserveFeature(o) ==
    LET t == TurnOf[o] IN
    /\ op[o].state = "started" /\ op[o].hold = 0
    /\ CanHold(t)
    /\ resv[t].settled + resv[t].reserved + FeatureMicro <= RequestLimit
    /\ \A b \in Held(t) : FeatureMicro <= Available(b, bucket[b])
    /\ bucket' = [b \in Buckets |-> IF b \in Held(t)
                    THEN [bucket[b] EXCEPT !.reserved = @ + FeatureMicro] ELSE bucket[b]]
    /\ resv' = [resv EXCEPT ![t].reserved = @ + FeatureMicro]
    /\ op' = [op EXCEPT ![o].hold = FeatureMicro]
    /\ UNCHANGED <<units, keys, phase, failures, crashes, period>>

\* A reservation and its buckets give back the same amount.
Return(t, amount, charge, status) ==
    /\ bucket' = [b \in Buckets |-> IF b \in Held(t)
                    THEN [consumed |-> bucket[b].consumed + charge,
                          reserved |-> Less(bucket[b].reserved, amount)]
                    ELSE bucket[b]]
    /\ resv' = [resv EXCEPT ![t].reserved = Less(@, amount), ![t].settled = @ + charge,
                            ![t].status = status]

\* release_feature_usage: the paid operation did not run.
ReleaseFeature(o) ==
    LET t == TurnOf[o] IN
    /\ op[o].state = "started" /\ op[o].hold > 0
    /\ Return(t, Min({resv[t].reserved, op[o].hold}), 0, resv[t].status)
    /\ op' = [op EXCEPT ![o].state = "cancelled"]
    /\ UNCHANGED <<units, keys, phase, failures, crashes, period>>

\* settle_usage with no price yet, possibly after the turn has ended.
ReportPending(o) ==
    LET t == TurnOf[o] IN
    /\ op[o].state = "started"
    /\ resv' = [resv EXCEPT ![t].status = IF @ \in Terminal THEN @ ELSE "settling"]
    /\ op' = [op EXCEPT ![o].state = "pending"]
    /\ UNCHANGED <<bucket, units, keys, phase, failures, crashes, period>>

\* Mutant: the replay marker is not looked at.
Chargeable_Replays(o) == op[o].state \in {"started", "pending", "settled"}

\* An operation is charged once: the ledger holds no priced entry for it.
Chargeable(o) == op[o].state \in {"started", "pending"}

\* What a charge takes from the hold.  A settlement returns an unused feature
\* hold as well, a reconciliation of a pending one does not.
Covered(o, c) ==
    LET due == IF op[o].state = "started" THEN Max({c, op[o].hold}) ELSE c
    IN  Min({resv[TurnOf[o]].reserved, due})

\* settle_usage and reconcile_usage with a price.
Charge(o, c) ==
    LET t == TurnOf[o] IN
    /\ Chargeable(o)
    /\ Return(t, Covered(o, c), c, IF resv[t].status \in Terminal THEN "settled" ELSE "settling")
    /\ op' = [op EXCEPT ![o].state = "settled", ![o].credits = c,
                        ![o].released = Covered(o, c), ![o].to = Held(t)]
    /\ UNCHANGED <<units, keys, phase, failures, crashes, period>>

-----------------------------------------------------------------------------
(* Time and the reaper *)

\* Nobody renewed the lease in time.
LeaseLapses(t) ==
    /\ resv[t].status \in Active /\ resv[t].lease = "live"
    /\ resv' = [resv EXCEPT ![t].lease = "lapsed"]
    /\ UNCHANGED <<bucket, units, keys, op, phase, failures, crashes, period>>

NextPeriod ==
    /\ period < MaxPeriod
    /\ period' = period + 1
    /\ UNCHANGED <<resv, bucket, units, keys, op, phase, failures, crashes>>

\* expire_reservations
Sweep ==
    /\ Lapsed # {}
    /\ Finish(Lapsed, "expiry")
    /\ UNCHANGED <<op, phase, failures, crashes, period>>

-----------------------------------------------------------------------------
TurnStep(t) ==
    \/ Admit(t) \/ AdmitDuplicate(t) \/ Dispatch(t) \/ DispatchFails(t)
    \/ Begin(t) \/ Heartbeat(t) \/ FinishTurn(t) \/ WorkerCancelled(t) \/ ExecutionLost(t)
    \/ LeaseLapses(t)

OperationStep(o) ==
    \/ StartOperation(o) \/ ReserveFeature(o) \/ ReleaseFeature(o) \/ ReportPending(o)
    \/ \E c \in Credits : Charge(o, c)

Next ==
    \/ \E t \in Turns : TurnStep(t)
    \/ \E o \in Operations : OperationStep(o)
    \/ NextPeriod
    \/ Sweep

Spec == Init /\ [][Next]_vars

\* The reaper runs forever, time passes, an admitted turn is dispatched and
\* delivered, and an execution ends.  Users need not submit, providers need
\* not answer, and workers need not survive.
Fairness ==
    /\ WF_vars(Sweep)
    /\ \A t \in Turns : /\ WF_vars(phase[t] # "running" /\ LeaseLapses(t))
                        /\ WF_vars(Dispatch(t) \/ DispatchFails(t))
                        /\ WF_vars(Begin(t))
                        /\ WF_vars(FinishTurn(t))

FairSpec == Spec /\ Fairness

-----------------------------------------------------------------------------
(* Properties *)

\* The hold of every bucket is the sum of the holds of the reservations that
\* are active in it: whatever order finishes, expiries, late settlements and
\* feature holds come in, nothing is given back twice and nothing is left
\* behind (finish_in_transaction, settle_usage_in_transaction,
\* release_feature_usage_in_transaction against admit_in_transaction).
HoldsAreBacked ==
    \A b \in Buckets : bucket[b].reserved =
        Total(Reserved, {t \in Turns : b \in resv[t].holds /\ resv[t].status \in Active})

\* The concurrency counter of a user is the number of active reservations, so
\* the limit of the policy really bounds them (_reserve_concurrency and
\* _release_concurrency, which clamps at zero).
UnitsMatchActive ==
    \A u \in Users :
        /\ units[u] = Cardinality({t \in Turns : UserOf[t] = u /\ resv[t].status \in Active})
        /\ units[u] <= ConcurrencyLimit

\* A bucket is charged exactly the prices of the operations reported against
\* it, each once, in whatever order replays, late reports and reconciliations
\* arrive.
ConsumedIsCharged ==
    \A b \in Buckets : bucket[b].consumed =
        Total([o \in Operations |-> op[o].credits], {o \in Operations : b \in op[o].to})

\* A bucket goes over its limit only by what operations cost beyond their
\* hold: admissions and feature holds never promise credit that is not there.
OverdrawnByUsageOnly ==
    \A b \in Buckets : bucket[b].consumed + bucket[b].reserved <=
        Limit[b[1]] + Total([o \in Operations |-> Less(op[o].credits, op[o].released)],
                            {o \in Operations : b \in op[o].to})

\* The usage of a turn admitted once is charged in one period, that of its
\* admission: a report that comes after the period's end, after the expiry of
\* the reservation or after a recovery goes to the two buckets that were
\* debited, and so do all reports of the turn (_reservation_buckets).  A turn
\* whose dispatch failed may be admitted again in the next period; the code
\* then charges it in both.
ChargedToOnePeriod ==
    \A o \in Operations :
        op[o].state = "settled" /\ failures[TurnOf[o]] = 0 =>
            \E p \in Periods : /\ op[o].to = {UserOf[TurnOf[o]], Workspace} \X {p}
                               /\ resv[TurnOf[o]].holds = op[o].to

\* A hold does not outlive its turn: the execution, a finalizer or, when every
\* worker of the turn died, the reaper ends the reservation and returns the
\* hold and the concurrency unit.
FirstHoldReturns ==
    \A t \in Turns :
        resv[t].status \in Active /\ failures[t] = 0 ~> resv[t].status \notin Active
=============================================================================

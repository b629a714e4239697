---------------------- MODULE QuotaReservation_proof -----------------------
(***************************************************************************)
(* The balances of the quota service, for any number of turns, users,      *)
(* operations and periods and any amounts.                                 *)
(*                                                                         *)
(* Tables says what rows look like.  The argument for the holds is about   *)
(* the difference between what a bucket has reserved and what the active   *)
(* reservations hold in it: if it is not negative, no return is clamped at *)
(* zero, and then every step keeps the difference.  The exceptions are two *)
(* admissions of a retried command.  One in a later period leaves the      *)
(* buckets of the earlier one without cover: RetriedInPeriod excludes it.  *)
(* One that finds the turn active after the key of its expiry has been     *)
(* used overwrites a hold that was never returned: KeysSpent shows that it *)
(* takes three failed dispatches.  The concurrency units are counted in    *)
(* the same way, and charges are sums over the operations charged.         *)
(***************************************************************************)
EXTENDS QuotaReservation, FiniteSetTheorems, TLAPS

-----------------------------------------------------------------------------
(* Sums *)

\* The units that Total counts.
Units(f, S) == UNION {{x} \X (1 .. f[x]) : x \in S}

\* A pair is one of the units of S when its number is within the amount of its
\* member of S.
LEMMA UnitsMembers ==
    ASSUME NEW f, NEW S, NEW p
    PROVE  p \in Units(f, S) <=> \E x \in S : p \in {x} \X (1 .. f[x])
BY DEF Units

\* A finite set has finitely many units.
LEMMA UnitsFinite ==
    ASSUME NEW D, NEW f \in [D -> Nat], NEW S \in SUBSET D, IsFiniteSet(S)
    PROVE  IsFiniteSet(Units(f, S))
<1> DEFINE g == [x \in S |-> {x} \X (1 .. f[x])]
           T == {{x} \X (1 .. f[x]) : x \in S}
<1>1. g \in Surjection(S, T)
  BY DEF Surjection
<1>2. IsFiniteSet(T)
  BY <1>1, FS_Surjection
<1>3. ASSUME NEW U \in T
      PROVE  IsFiniteSet(U)
  <2>1. PICK x \in S : U = {x} \X (1 .. f[x])
    OBVIOUS
  <2>2. f[x] \in Int /\ 1 \in Int
    OBVIOUS
  <2>3. IsFiniteSet(1 .. f[x])
    BY <2>2, FS_Interval
  <2>4. QED
    BY <2>1, <2>3, FS_Singleton, FS_Product
<1>4. QED
  BY <1>2, <1>3, FS_UNION DEF Units

\* A sum is a natural number.
LEMMA TotalType ==
    ASSUME NEW D, NEW f \in [D -> Nat], NEW S \in SUBSET D, IsFiniteSet(S)
    PROVE  Total(f, S) \in Nat
<1>1. IsFiniteSet(Units(f, S))
  BY UnitsFinite
<1>2. QED
  BY <1>1, FS_CardinalityType DEF Total, Units

\* The empty sum.
LEMMA TotalEmpty ==
    ASSUME NEW f
    PROVE  Total(f, {}) = 0
<1>1. Units(f, {}) = {}
  BY DEF Units
<1>2. QED
  BY <1>1, FS_EmptySet DEF Total, Units

\* The sum over one member.
LEMMA TotalSingle ==
    ASSUME NEW D, NEW f \in [D -> Nat], NEW x \in D
    PROVE  Total(f, {x}) = f[x]
<1>1. Units(f, {x}) = {x} \X (1 .. f[x])
  BY DEF Units
<1>2. f[x] \in Int /\ 1 \in Int /\ f[x] \in Nat
  OBVIOUS
<1>3. IsFiniteSet(1 .. f[x]) /\ Cardinality(1 .. f[x]) = f[x]
  BY <1>2, FS_Interval
<1>4. IsFiniteSet({x}) /\ Cardinality({x}) = 1
  BY FS_Singleton
<1>5. Cardinality({x} \X (1 .. f[x])) = 1 * f[x]
  BY <1>3, <1>4, FS_Product
<1>6. QED
  BY <1>1, <1>2, <1>5 DEF Total, Units

\* The sum over two sets without a common member.
LEMMA TotalUnion ==
    ASSUME NEW D, NEW f \in [D -> Nat], NEW A \in SUBSET D, NEW B \in SUBSET D,
           IsFiniteSet(A), IsFiniteSet(B), A \intersect B = {}
    PROVE  Total(f, A \union B) = Total(f, A) + Total(f, B)
<1>1. Units(f, A \union B) = Units(f, A) \union Units(f, B)
  BY DEF Units
<1>2. Units(f, A) \intersect Units(f, B) = {}
  <2> SUFFICES ASSUME NEW p \in Units(f, A), p \in Units(f, B)
               PROVE  FALSE
    OBVIOUS
  <2>1. PICK x \in A : p \in {x} \X (1 .. f[x])
    BY UnitsMembers
  <2>2. PICK y \in B : p \in {y} \X (1 .. f[y])
    BY UnitsMembers
  <2>3. QED
    BY <2>1, <2>2
<1>3. IsFiniteSet(Units(f, A)) /\ IsFiniteSet(Units(f, B))
  BY UnitsFinite
<1>4. Cardinality(Units(f, A)) \in Nat /\ Cardinality(Units(f, B)) \in Nat
  BY <1>3, FS_CardinalityType
<1>5. Cardinality(Units(f, A) \union Units(f, B)) =
        Cardinality(Units(f, A)) + Cardinality(Units(f, B))
          - Cardinality(Units(f, A) \intersect Units(f, B))
  BY <1>3, FS_Union
<1>6. Total(f, A \union B) = Cardinality(Units(f, A) \union Units(f, B))
  BY <1>1 DEF Total, Units
<1>7. Total(f, A) = Cardinality(Units(f, A)) /\ Total(f, B) = Cardinality(Units(f, B))
  BY DEF Total, Units
<1>8. Cardinality(Units(f, A) \intersect Units(f, B)) = 0
  BY <1>2, FS_EmptySet
<1>9. QED
  BY <1>4, <1>5, <1>6, <1>7, <1>8

\* The sum depends on the amounts of the members only.
LEMMA TotalSame ==
    ASSUME NEW f, NEW g, NEW S, \A x \in S : f[x] = g[x]
    PROVE  Total(f, S) = Total(g, S)
<1>1. {{x} \X (1 .. f[x]) : x \in S} = {{x} \X (1 .. g[x]) : x \in S}
  OBVIOUS
<1>2. QED
  BY <1>1 DEF Total

\* What one member adds.
LEMMA TotalAdd ==
    ASSUME NEW D, NEW f \in [D -> Nat], NEW S \in SUBSET D, IsFiniteSet(S),
           NEW x \in D, x \notin S
    PROVE  Total(f, S \union {x}) = Total(f, S) + f[x]
<1>1. IsFiniteSet({x}) /\ {x} \in SUBSET D /\ S \intersect {x} = {}
  BY FS_Singleton
<1>2. Total(f, S \union {x}) = Total(f, S) + Total(f, {x})
  BY <1>1, TotalUnion
<1>3. QED
  BY <1>2, TotalSingle

\* One member's amount changes.
LEMMA TotalChange ==
    ASSUME NEW D, NEW f \in [D -> Nat], NEW g \in [D -> Nat], NEW S \in SUBSET D,
           IsFiniteSet(S), NEW x \in S, \A y \in S \ {x} : g[y] = f[y]
    PROVE  Total(g, S) = Total(f, S) - f[x] + g[x]
<1> DEFINE R == S \ {x}
<1>1. IsFiniteSet(R) /\ R \in SUBSET D /\ x \in D /\ x \notin R /\ S = R \union {x}
  BY FS_RemoveElement
<1> HIDE DEF R
<1>2. Total(f, S) = Total(f, R) + f[x] /\ Total(g, S) = Total(g, R) + g[x]
  BY <1>1, TotalAdd
<1>3. Total(f, R) = Total(g, R)
  BY TotalSame DEF R
<1>4. Total(f, R) \in Nat /\ f[x] \in Nat /\ g[x] \in Nat
  BY <1>1, TotalType
<1>5. QED
  BY <1>2, <1>3, <1>4

\* A sum over fewer members is not larger, and one member is part of it.
LEMMA TotalParts ==
    ASSUME NEW D, NEW f \in [D -> Nat], NEW S \in SUBSET D, IsFiniteSet(S), NEW A \in SUBSET S
    PROVE  /\ IsFiniteSet(A) /\ IsFiniteSet(S \ A)
           /\ Total(f, S) = Total(f, A) + Total(f, S \ A)
           /\ Total(f, A) <= Total(f, S)
<1>1. IsFiniteSet(A) /\ IsFiniteSet(S \ A)
  BY FS_Subset
<1>2. S = A \union (S \ A) /\ A \intersect (S \ A) = {}
  OBVIOUS
<1>3. A \in SUBSET D /\ (S \ A) \in SUBSET D
  OBVIOUS
<1>4. Total(f, A \union (S \ A)) = Total(f, A) + Total(f, S \ A)
  BY <1>1, <1>2, <1>3, TotalUnion
<1>5. Total(f, A) \in Nat /\ Total(f, S \ A) \in Nat
  BY <1>1, <1>3, TotalType
<1>6. Total(f, S) = Total(f, A) + Total(f, S \ A)
  BY <1>2, <1>4
<1>7. Total(f, A) <= Total(f, S)
  BY <1>5, <1>6
<1>8. QED
  BY <1>1, <1>6, <1>7

\* One member is part of the sum.
LEMMA TotalMember ==
    ASSUME NEW D, NEW f \in [D -> Nat], NEW S \in SUBSET D, IsFiniteSet(S), NEW x \in S
    PROVE  f[x] <= Total(f, S)
<1>1. {x} \in SUBSET S /\ x \in D
  OBVIOUS
<1>2. Total(f, {x}) <= Total(f, S)
  BY <1>1, TotalParts
<1>3. QED
  BY <1>1, <1>2, TotalSingle

\* The smaller of two amounts.
LEMMA MinOfTwo ==
    ASSUME NEW x \in Nat, NEW y \in Nat
    PROVE  Min({x, y}) = IF x <= y THEN x ELSE y
<1>1. \E m \in {x, y} : \A z \in {x, y} : m <= z
  OBVIOUS
<1>2. Min({x, y}) \in {x, y} /\ \A z \in {x, y} : Min({x, y}) <= z
  BY <1>1 DEF Min
<1>3. QED
  BY <1>2

\* The larger of two amounts.
LEMMA MaxOfTwo ==
    ASSUME NEW x \in Nat, NEW y \in Nat
    PROVE  Max({x, y}) = IF x >= y THEN x ELSE y
<1>1. \E m \in {x, y} : \A z \in {x, y} : m >= z
  OBVIOUS
<1>2. Max({x, y}) \in {x, y} /\ \A z \in {x, y} : Max({x, y}) >= z
  BY <1>1 DEF Max
<1>3. QED
  BY <1>2

-----------------------------------------------------------------------------
(* Rows *)

Statuses  == {"none"} \union Active \union Terminal
Rows      == [status : Statuses, reserved : Nat, settled : Nat, lease : {"live", "lapsed"},
              holds : SUBSET Buckets]
Entries   == [state : {"none", "started", "cancelled", "lost", "pending", "settled"},
              hold : Nat, credits : Nat, released : Nat, to : SUBSET Buckets]
Phases    == {"new", "admitted", "queued", "undispatched", "running", "failing", "done"}

\* A turn has a reservation from its admission on, only an active one holds
\* anything, and a turn is given up when its recoveries are used up.
TurnRows ==
    \A t \in Turns : /\ phase[t] = "new" <=> resv[t].status = "none"
                     /\ resv[t].status \notin Active => resv[t].reserved = 0
                     /\ crashes[t] > MaxRecoveries[t] => phase[t] = "done"

\* Operations belong to admitted turns, and only settled ones are charged.
OperationRows ==
    \A o \in Operations : /\ op[o].state # "none" => phase[TurnOf[o]] # "new"
                          /\ op[o].state # "settled" => op[o].to = {}

Tables == TypeOK /\ TurnRows /\ OperationRows

\* A difference that is not clamped.
LEMMA LessIsDifference ==
    ASSUME NEW x \in Nat, NEW y \in Nat
    PROVE  /\ Less(x, y) \in Nat /\ Less(x, y) <= x
           /\ y <= x => Less(x, y) = x - y
BY DEF Less

\* The reservations that hold something in a bucket, and the active ones of a user.
Holders(b)  == {t \in Turns : b \in resv[t].holds /\ resv[t].status \in Active}
ActiveOf(u) == {t \in Turns : UserOf[t] = u /\ resv[t].status \in Active}

\* They are sets one can sum over and count.
LEMMA FiniteTurns ==
    ASSUME NEW S \in SUBSET Turns
    PROVE  IsFiniteSet(S) /\ Cardinality(S) \in Nat
BY QuotaAssumption, FS_Subset, FS_CardinalityType DEF QuotaAssumption

\* The amounts of the reservations.
LEMMA ReservedType ==
    ASSUME TypeOK
    PROVE  Reserved \in [Turns -> Nat]
BY DEF TypeOK, Reserved

\* What a finish gives back is a sum of them.
LEMMA FreedType ==
    ASSUME TypeOK, NEW S \in SUBSET Turns, NEW b
    PROVE  Freed(S, b) \in Nat
<1>1. {t \in S : b \in Held(t)} \in SUBSET Turns
  OBVIOUS
<1>2. QED
  BY <1>1, FiniteTurns, ReservedType, TotalType DEF Freed

\* The ended reservations.
LEMMA EndsActive ==
    ASSUME NEW S \in SUBSET Turns, NEW key
    PROVE  /\ Ends(S, key) \in SUBSET Turns
           /\ Ends(S, key) \subseteq S
           /\ \A t \in Ends(S, key) : resv[t].status \in Active /\ key \notin keys[t]
BY DEF Ends

\* A finish ends a reservation for good.
LEMMA EndStatusIsTerminal ==
    ASSUME NEW t, NEW key
    PROVE  EndStatus(t, key) \in Terminal
BY DEF EndStatus, Terminal

\* What a finish of the set E writes into the reservations.
LEMMA ResvAfterRows ==
    ASSUME TypeOK, NEW E \in SUBSET Turns, NEW key, NEW t \in Turns
    PROVE  LET r == ResvAfter(E, key)[t] IN
           /\ r \in Rows
           /\ r.holds = resv[t].holds /\ r.settled = resv[t].settled
           /\ t \in E => r.status \in Terminal /\ r.reserved = 0
           /\ t \notin E => r = resv[t]
<1> DEFINE r == ResvAfter(E, key)[t]
<1>1. resv[t] \in Rows
  BY DEF TypeOK, Rows, Statuses
<1>2. CASE t \in E
  <2>1. r = [resv[t] EXCEPT !.status = EndStatus(t, key), !.reserved = 0, !.lease = "lapsed"]
    BY <1>2 DEF ResvAfter
  <2>2. EndStatus(t, key) \in Terminal
    BY EndStatusIsTerminal
  <2>3. r = [status |-> EndStatus(t, key), reserved |-> 0, settled |-> resv[t].settled,
             lease |-> "lapsed", holds |-> resv[t].holds]
    BY <1>1, <2>1 DEF Rows
  <2>4. resv[t].settled \in Nat /\ resv[t].holds \in SUBSET Buckets
    BY <1>1 DEF Rows
  <2>5. QED
    BY <1>2, <2>2, <2>3, <2>4 DEF Rows, Statuses
<1>3. CASE t \notin E
  <2>1. r = resv[t]
    BY <1>3 DEF ResvAfter
  <2>2. QED
    BY <1>1, <1>3, <2>1 DEF Rows
<1>4. QED
  BY <1>2, <1>3

\* What it writes into the other tables.
LEMMA BucketsAfterRows ==
    ASSUME TypeOK, NEW E \in SUBSET Turns
    PROVE  /\ BucketsAfter(E) \in [Buckets -> [consumed : Nat, reserved : Nat]]
           /\ \A b \in Buckets :
                /\ BucketsAfter(E)[b].consumed = bucket[b].consumed
                /\ BucketsAfter(E)[b].reserved = Less(bucket[b].reserved, Freed(E, b))
                /\ BucketsAfter(E)[b].reserved <= bucket[b].reserved
<1>1. ASSUME NEW b \in Buckets
      PROVE  /\ BucketsAfter(E)[b] \in [consumed : Nat, reserved : Nat]
             /\ BucketsAfter(E)[b].consumed = bucket[b].consumed
             /\ BucketsAfter(E)[b].reserved = Less(bucket[b].reserved, Freed(E, b))
             /\ BucketsAfter(E)[b].reserved <= bucket[b].reserved
  <2>1. bucket[b] \in [consumed : Nat, reserved : Nat]
    BY DEF TypeOK
  <2>2. Freed(E, b) \in Nat
    BY FreedType
  <2>3. BucketsAfter(E)[b] = [bucket[b] EXCEPT !.reserved = Less(bucket[b].reserved, Freed(E, b))]
    BY DEF BucketsAfter
  <2>4. Less(bucket[b].reserved, Freed(E, b)) \in Nat
        /\ Less(bucket[b].reserved, Freed(E, b)) <= bucket[b].reserved
    BY <2>1, <2>2, LessIsDifference
  <2>5. QED
    BY <2>1, <2>3, <2>4
<1>2. BucketsAfter(E) = [b \in Buckets |-> BucketsAfter(E)[b]]
  BY DEF BucketsAfter
<1>3. QED
  BY <1>1, <1>2

\* The concurrency counters after it.
LEMMA UnitsAfterRows ==
    ASSUME TypeOK, NEW E \in SUBSET Turns
    PROVE  UnitsAfter(E) \in [Users -> Nat]
<1>1. ASSUME NEW u \in Users
      PROVE  Less(units[u], Cardinality({t \in E : UserOf[t] = u})) \in Nat
  <2>1. Cardinality({t \in E : UserOf[t] = u}) \in Nat
    BY FiniteTurns
  <2>2. units[u] \in Nat
    BY DEF TypeOK
  <2>3. QED
    BY <2>1, <2>2, LessIsDifference
<1>2. QED
  BY <1>1 DEF UnitsAfter

\* The ledger keys after it.
LEMMA KeysAfterRows ==
    ASSUME TypeOK, NEW E \in SUBSET Turns, NEW key \in Keys
    PROVE  KeysAfter(E, key) \in [Turns -> SUBSET Keys]
BY DEF TypeOK, KeysAfter

\* A finish keeps the tables well formed.
LEMMA FinishRows ==
    ASSUME TypeOK, NEW S \in SUBSET Turns, NEW key \in Keys, Finish(S, key)
    PROVE  /\ resv' \in [Turns -> Rows]
           /\ bucket' \in [Buckets -> [consumed : Nat, reserved : Nat]]
           /\ units' \in [Users -> Nat]
           /\ keys' \in [Turns -> SUBSET Keys]
           /\ \A t \in Turns : /\ resv'[t].holds = resv[t].holds
                               /\ t \in Ends(S, key) => resv'[t].status \in Terminal
                                                        /\ resv'[t].reserved = 0
                               /\ t \notin Ends(S, key) => resv'[t] = resv[t]
<1> DEFINE E == Ends(S, key)
<1>1. E \in SUBSET Turns
  BY EndsActive
<1>2. /\ resv' = ResvAfter(E, key) /\ bucket' = BucketsAfter(E)
      /\ units' = UnitsAfter(E) /\ keys' = KeysAfter(E, key)
  BY DEF Finish
<1> HIDE DEF E
<1>3. resv' = [t \in Turns |-> resv'[t]]
  BY <1>2 DEF ResvAfter
<1>4. \A t \in Turns : /\ resv'[t] \in Rows
                       /\ resv'[t].holds = resv[t].holds
                       /\ t \in E => resv'[t].status \in Terminal /\ resv'[t].reserved = 0
                       /\ t \notin E => resv'[t] = resv[t]
  BY <1>1, <1>2, ResvAfterRows
<1>5. resv' \in [Turns -> Rows]
  BY <1>3, <1>4
<1>6. bucket' \in [Buckets -> [consumed : Nat, reserved : Nat]]
  BY <1>1, <1>2, BucketsAfterRows
<1>7. units' \in [Users -> Nat] /\ keys' \in [Turns -> SUBSET Keys]
  BY <1>1, <1>2, UnitsAfterRows, KeysAfterRows
<1>8. QED
  BY <1>4, <1>5, <1>6, <1>7 DEF E

Accounts == [consumed : Nat, reserved : Nat]

\* What a step does to the reservations: rows stay rows, nothing is admitted,
\* and what is not active holds nothing.
KeepsRows ==
    /\ resv' \in [Turns -> Rows]
    /\ \A t \in Turns : /\ resv'[t].status = "none" <=> resv[t].status = "none"
                        /\ resv'[t].status \notin Active => resv'[t].reserved = 0

\* To the operations: only those of admitted turns begin.
KeepsEntries ==
    /\ op' \in [Operations -> Entries]
    /\ \A o \in Operations : /\ op'[o].state # "none" => phase[TurnOf[o]] # "new"
                             /\ op'[o].state # "settled" => op'[o].to = {}

\* To the phases: no turn goes back to the start or comes back from the end.
MovesOn ==
    /\ phase' \in [Turns -> Phases]
    /\ \A t \in Turns : /\ phase'[t] = "new" <=> phase[t] = "new"
                        /\ phase[t] = "done" => phase'[t] = "done"

\* A finish admits nothing and leaves no hold on what it ends.
LEMMA FinishKeepsRows ==
    ASSUME Tables, NEW S \in SUBSET Turns, NEW key \in Keys, Finish(S, key)
    PROVE  KeepsRows
<1>1. TypeOK
  BY DEF Tables
<1>2. resv' \in [Turns -> Rows]
  BY <1>1, FinishRows
<1>3. ASSUME NEW t \in Turns
      PROVE  /\ resv'[t].status = "none" <=> resv[t].status = "none"
             /\ resv'[t].status \notin Active => resv'[t].reserved = 0
  <2>1. CASE t \in Ends(S, key)
    BY <1>1, <2>1, FinishRows, EndsActive DEF Terminal, Active
  <2>2. CASE t \notin Ends(S, key)
    BY <1>1, <2>2, FinishRows DEF Tables, TurnRows
  <2>3. QED
    BY <2>1, <2>2
<1>4. QED
  BY <1>2, <1>3 DEF KeepsRows

\* What a return of a hold writes.
LEMMA ReturnRows ==
    ASSUME TypeOK, NEW t \in Turns, NEW amount \in Nat, NEW charge \in Nat,
           NEW status \in Statuses, Return(t, amount, charge, status)
    PROVE  /\ resv' \in [Turns -> Rows]
           /\ \A u \in Turns : u # t => resv'[u] = resv[u]
           /\ resv'[t].status = status /\ resv'[t].holds = resv[t].holds
           /\ resv'[t].reserved = Less(resv[t].reserved, amount)
           /\ bucket' \in [Buckets -> Accounts]
           /\ \A b \in resv[t].holds :
                /\ bucket'[b].consumed = bucket[b].consumed + charge
                /\ bucket'[b].reserved = Less(bucket[b].reserved, amount)
           /\ \A b \in Buckets \ resv[t].holds : bucket'[b] = bucket[b]
<1> DEFINE r == resv[t]
           new == [status |-> status, reserved |-> Less(r.reserved, amount),
                   settled |-> r.settled + charge, lease |-> r.lease, holds |-> r.holds]
<1>1. resv \in [Turns -> Rows] /\ r \in Rows
  BY DEF TypeOK, Rows, Statuses
<1>2. resv' = [resv EXCEPT ![t].reserved = Less(@, amount), ![t].settled = @ + charge,
                           ![t].status = status]
  BY DEF Return
<1>3. resv'[t] = [r EXCEPT !.reserved = Less(@, amount), !.settled = @ + charge,
                           !.status = status]
  BY <1>1, <1>2, Zenon
<1>4. resv'[t] = new
  BY <1>1, <1>3 DEF Rows
<1>5. Less(r.reserved, amount) \in Nat
  BY <1>1, LessIsDifference DEF Rows
<1>6. new \in Rows
  BY <1>1, <1>5 DEF Rows
<1>7. resv' \in [Turns -> Rows] /\ \A u \in Turns : u # t => resv'[u] = resv[u]
  <2>1. \A u \in Turns : u # t => resv'[u] = resv[u]
    BY <1>1, <1>2
  <2>2. resv' = [u \in Turns |-> resv'[u]]
    BY <1>1, <1>2
  <2>3. QED
    BY <1>1, <1>4, <1>6, <2>1, <2>2
<1>8. ASSUME NEW b \in Buckets
      PROVE  /\ bucket'[b] \in Accounts
             /\ b \in r.holds => /\ bucket'[b].consumed = bucket[b].consumed + charge
                                 /\ bucket'[b].reserved = Less(bucket[b].reserved, amount)
             /\ b \notin r.holds => bucket'[b] = bucket[b]
  <2>1. bucket[b] \in Accounts
    BY DEF TypeOK, Accounts
  <2>2. Less(bucket[b].reserved, amount) \in Nat
    BY <2>1, LessIsDifference DEF Accounts
  <2>3. bucket'[b] = IF b \in r.holds
                     THEN [consumed |-> bucket[b].consumed + charge,
                           reserved |-> Less(bucket[b].reserved, amount)]
                     ELSE bucket[b]
    BY DEF Return, Held
  <2>4. QED
    BY <2>1, <2>2, <2>3 DEF Accounts
<1>9. bucket' = [b \in Buckets |-> bucket'[b]]
  BY DEF Return
<1>10. r.holds \subseteq Buckets
  BY <1>1 DEF Rows
<1>11. QED
  BY <1>4, <1>7, <1>8, <1>9, <1>10

\* A return admits nothing and ends nothing.
LEMMA ReturnKeepsRows ==
    ASSUME Tables, NEW t \in Turns, NEW amount \in Nat, NEW charge \in Nat,
           NEW status \in Statuses, Return(t, amount, charge, status),
           status = "none" <=> resv[t].status = "none",
           status \in Active <=> resv[t].status \in Active
    PROVE  KeepsRows
<1>1. TypeOK /\ TurnRows /\ resv[t].reserved \in Nat
  BY DEF Tables, TypeOK
<1>2. ASSUME NEW u \in Turns
      PROVE  /\ resv'[u].status = "none" <=> resv[u].status = "none"
             /\ resv'[u].status \notin Active => resv'[u].reserved = 0
  <2>1. CASE u = t
    <3>1. resv'[t].status = status /\ resv'[t].reserved = Less(resv[t].reserved, amount)
      BY <1>1, ReturnRows
    <3>2. resv[t].reserved = 0 => Less(resv[t].reserved, amount) = 0
      BY DEF Less
    <3>3. QED
      BY <1>1, <2>1, <3>1, <3>2 DEF TurnRows
  <2>2. CASE u # t
    <3>1. resv'[u] = resv[u]
      BY <1>1, <2>2, ReturnRows
    <3>2. QED
      BY <1>1, <3>1 DEF TurnRows
  <2>3. QED
    BY <2>1, <2>2
<1>3. QED
  BY <1>1, <1>2, ReturnRows DEF KeepsRows

\* Steps that write one column.
LEMMA StatusKeepsRows ==
    ASSUME Tables, NEW t \in Turns, NEW value \in Statuses,
           resv' = [resv EXCEPT ![t].status = value],
           value = "none" <=> resv[t].status = "none",
           value \in Active <=> resv[t].status \in Active
    PROVE  /\ KeepsRows
           /\ \A u \in Turns : u # t => resv'[u] = resv[u]
           /\ resv'[t].status = value /\ resv'[t].reserved = resv[t].reserved
           /\ resv'[t].holds = resv[t].holds
<1>1. resv \in [Turns -> Rows] /\ resv[t] \in Rows
  BY DEF Tables, TypeOK, Rows, Statuses
<1>2. resv'[t] = [resv[t] EXCEPT !.status = value]
  BY <1>1
<1>3. resv'[t] = [status |-> value, reserved |-> resv[t].reserved, settled |-> resv[t].settled,
                  lease |-> resv[t].lease, holds |-> resv[t].holds]
  BY <1>1, <1>2 DEF Rows
<1>4. resv'[t] \in Rows
  BY <1>1, <1>3 DEF Rows
<1>5. \A u \in Turns : u # t => resv'[u] = resv[u]
  BY <1>1
<1>6. resv' \in [Turns -> Rows]
  BY <1>1, <1>4, <1>5
<1>7. resv'[t].status = value /\ resv'[t].reserved = resv[t].reserved
      /\ resv'[t].holds = resv[t].holds
  BY <1>3
<1>8. QED
  BY <1>5, <1>6, <1>7 DEF KeepsRows, Tables, TurnRows

\* The same for the lease.
LEMMA LeaseKeepsRows ==
    ASSUME Tables, NEW t \in Turns, resv' = [resv EXCEPT ![t].lease = "lapsed"]
    PROVE  /\ KeepsRows
           /\ \A u \in Turns : resv'[u].status = resv[u].status
                               /\ resv'[u].reserved = resv[u].reserved
                               /\ resv'[u].holds = resv[u].holds
<1>1. resv \in [Turns -> Rows] /\ resv[t] \in Rows
  BY DEF Tables, TypeOK, Rows, Statuses
<1>2. resv'[t] = [resv[t] EXCEPT !.lease = "lapsed"]
  BY <1>1
<1>3. resv'[t] = [status |-> resv[t].status, reserved |-> resv[t].reserved,
                  settled |-> resv[t].settled, lease |-> "lapsed", holds |-> resv[t].holds]
  BY <1>1, <1>2 DEF Rows
<1>4. resv'[t] \in Rows
  BY <1>1, <1>3 DEF Rows
<1>5. \A u \in Turns : u # t => resv'[u] = resv[u]
  BY <1>1
<1>6. resv' \in [Turns -> Rows]
  BY <1>1, <1>4, <1>5
<1>7. QED
  BY <1>3, <1>5, <1>6 DEF KeepsRows, Tables, TurnRows

\* The same for the amount of an active reservation.
LEMMA AmountKeepsRows ==
    ASSUME Tables, NEW t \in Turns, NEW value \in Nat, resv[t].status \in Active,
           resv' = [resv EXCEPT ![t].reserved = value]
    PROVE  /\ KeepsRows
           /\ \A u \in Turns : u # t => resv'[u] = resv[u]
           /\ resv'[t].status = resv[t].status /\ resv'[t].reserved = value
           /\ resv'[t].holds = resv[t].holds
<1>1. resv \in [Turns -> Rows] /\ resv[t] \in Rows
  BY DEF Tables, TypeOK, Rows, Statuses
<1>2. resv'[t] = [resv[t] EXCEPT !.reserved = value]
  BY <1>1
<1>3. resv'[t] = [status |-> resv[t].status, reserved |-> value,
                  settled |-> resv[t].settled, lease |-> resv[t].lease, holds |-> resv[t].holds]
  BY <1>1, <1>2 DEF Rows
<1>4. resv'[t] \in Rows
  BY <1>1, <1>3 DEF Rows
<1>5. \A u \in Turns : u # t => resv'[u] = resv[u]
  BY <1>1
<1>6. resv' \in [Turns -> Rows]
  BY <1>1, <1>4, <1>5
<1>7. resv'[t].status = resv[t].status /\ resv'[t].reserved = value
      /\ resv'[t].holds = resv[t].holds
  BY <1>3
<1>8. QED
  BY <1>5, <1>6, <1>7 DEF KeepsRows, Tables, TurnRows

\* Steps that write one column of an operation.
LEMMA StateKeepsEntries ==
    ASSUME Tables, NEW o \in Operations, NEW value \in {"started", "cancelled", "pending"},
           op' = [op EXCEPT ![o].state = value],
           op[o].state # "settled", phase[TurnOf[o]] # "new"
    PROVE  /\ KeepsEntries
           /\ \A q \in Operations : op'[q].to = op[q].to /\ op'[q].credits = op[q].credits
                                    /\ op'[q].released = op[q].released
<1>1. op \in [Operations -> Entries] /\ op[o] \in Entries
  BY DEF Tables, TypeOK, Entries
<1>2. op'[o] = [op[o] EXCEPT !.state = value]
  BY <1>1
<1>3. op'[o] = [state |-> value, hold |-> op[o].hold, credits |-> op[o].credits,
                released |-> op[o].released, to |-> op[o].to]
  BY <1>1, <1>2 DEF Entries
<1>4. op'[o] \in Entries
  BY <1>1, <1>3 DEF Entries
<1>5. \A q \in Operations : q # o => op'[q] = op[q]
  BY <1>1
<1>6. op' \in [Operations -> Entries]
  BY <1>1, <1>4, <1>5
<1>7. /\ op'[o].state = value /\ op'[o].to = op[o].to
      /\ op'[o].credits = op[o].credits /\ op'[o].released = op[o].released
  BY <1>3
<1>8. op[o].to = {}
  BY DEF Tables, OperationRows
<1>9. KeepsEntries
  BY <1>5, <1>6, <1>7, <1>8 DEF KeepsEntries, Tables, OperationRows
<1>10. QED
  BY <1>5, <1>7, <1>9

\* The same for its feature hold.
LEMMA HoldKeepsEntries ==
    ASSUME Tables, NEW o \in Operations, NEW value \in Nat,
           op' = [op EXCEPT ![o].hold = value]
    PROVE  /\ KeepsEntries
           /\ \A q \in Operations : op'[q].to = op[q].to /\ op'[q].credits = op[q].credits
                                    /\ op'[q].released = op[q].released
<1>1. op \in [Operations -> Entries] /\ op[o] \in Entries
  BY DEF Tables, TypeOK, Entries
<1>2. op'[o] = [op[o] EXCEPT !.hold = value]
  BY <1>1
<1>3. op'[o] = [state |-> op[o].state, hold |-> value, credits |-> op[o].credits,
                released |-> op[o].released, to |-> op[o].to]
  BY <1>1, <1>2 DEF Entries
<1>4. op'[o] \in Entries
  BY <1>1, <1>3 DEF Entries
<1>5. \A q \in Operations : q # o => op'[q] = op[q]
  BY <1>1
<1>6. op' \in [Operations -> Entries]
  BY <1>1, <1>4, <1>5
<1>7. \A q \in Operations : /\ op'[q].state = op[q].state /\ op'[q].to = op[q].to
                            /\ op'[q].credits = op[q].credits /\ op'[q].released = op[q].released
  BY <1>3, <1>5
<1>8. KeepsEntries
  BY <1>6, <1>7 DEF KeepsEntries, Tables, OperationRows
<1>9. QED
  BY <1>7, <1>8

\* What a charge takes from a hold is part of the hold.
LEMMA CoveredIsHeld ==
    ASSUME Tables, NEW o \in Operations, NEW c \in Nat
    PROVE  Covered(o, c) \in Nat /\ Covered(o, c) <= resv[TurnOf[o]].reserved
<1> DEFINE due == IF op[o].state = "started" THEN Max({c, op[o].hold}) ELSE c
<1>1. resv[TurnOf[o]].reserved \in Nat /\ op[o].hold \in Nat
  BY QuotaAssumption DEF Tables, TypeOK, QuotaAssumption
<1>2. due \in Nat
  BY <1>1, MaxOfTwo
<1>3. Covered(o, c) = Min({resv[TurnOf[o]].reserved, due})
  BY DEF Covered
<1> HIDE DEF due
<1>4. QED
  BY <1>1, <1>2, <1>3, MinOfTwo

\* What a charge writes into the operation.
LEMMA ChargeEntry ==
    ASSUME Tables, NEW o \in Operations, NEW c \in Nat, Charge(o, c)
    PROVE  /\ KeepsEntries
           /\ \A q \in Operations : q # o => op'[q] = op[q]
           /\ op'[o].to = resv[TurnOf[o]].holds /\ op'[o].credits = c
           /\ op'[o].released = Covered(o, c)
<1> DEFINE t == TurnOf[o]
<1>1. op \in [Operations -> Entries] /\ op[o] \in Entries
  BY DEF Tables, TypeOK, Entries
<1>2. /\ op' = [op EXCEPT ![o].state = "settled", ![o].credits = c,
                          ![o].released = Covered(o, c), ![o].to = resv[t].holds]
      /\ op[o].state \in {"started", "pending"}
  BY DEF Charge, Chargeable, Held
<1>3. op'[o] = [op[o] EXCEPT !.state = "settled", !.credits = c,
                             !.released = Covered(o, c), !.to = resv[t].holds]
  BY <1>1, <1>2, Zenon
<1>4. op'[o] = [state |-> "settled", hold |-> op[o].hold, credits |-> c,
                released |-> Covered(o, c), to |-> resv[t].holds]
  BY <1>1, <1>3 DEF Entries
<1>5. resv[t].holds \in SUBSET Buckets /\ Covered(o, c) \in Nat
  BY QuotaAssumption, CoveredIsHeld DEF Tables, TypeOK, QuotaAssumption
<1>6. op'[o] \in Entries
  BY <1>1, <1>4, <1>5 DEF Entries
<1>7. \A q \in Operations : q # o => op'[q] = op[q]
  BY <1>1, <1>2
<1>8. op' \in [Operations -> Entries]
  BY <1>1, <1>2, <1>6, <1>7
<1>9. phase[t] # "new"
  BY <1>2 DEF Tables, OperationRows
<1>10. QED
  BY <1>4, <1>7, <1>8, <1>9 DEF KeepsEntries, Tables, OperationRows

\* What admission writes.
LEMMA AdmitRows ==
    ASSUME Tables, NEW t \in Turns, Admit(t), NEW E, E = Ends(Lapsed, "expiry")
    PROVE  /\ E \in SUBSET Turns /\ Current(t) \in SUBSET Buckets
           /\ resv' \in [Turns -> Rows]
           /\ \A u \in Turns \ {t} :
                /\ resv'[u].holds = resv[u].holds
                /\ u \in E => resv'[u].status \in Terminal /\ resv'[u].reserved = 0
                /\ u \notin E => resv'[u] = resv[u]
           /\ resv'[t].status = "reserved" /\ resv'[t].reserved = Estimate
           /\ resv'[t].holds = resv[t].holds \union Current(t)
           /\ bucket' \in [Buckets -> Accounts]
           /\ \A b \in Buckets :
                /\ bucket'[b].consumed = bucket[b].consumed
                /\ bucket'[b].reserved = BucketsAfter(E)[b].reserved
                                         + (IF b \in Current(t) THEN Estimate ELSE 0)
           /\ units' \in [Users -> Nat]
           /\ \A u \in Users : units'[u] = UnitsAfter(E)[u] + (IF u = UserOf[t] THEN 1 ELSE 0)
           /\ keys' = KeysAfter(E, "expiry") /\ keys' \in [Turns -> SUBSET Keys]
<1> DEFINE new == [status |-> "reserved", reserved |-> Estimate, settled |-> 0,
                   lease |-> "live", holds |-> resv[t].holds \union Current(t)]
<1>1. TypeOK
  BY DEF Tables
<1>2. E \in SUBSET Turns /\ "expiry" \in Keys
  BY EndsActive DEF Lapsed, Keys, ExpiryKeys
<1>3. Current(t) \in SUBSET Buckets
  BY <1>1, QuotaAssumption DEF Current, Buckets, Owners, TypeOK, QuotaAssumption
<1>4. /\ resv' = [ResvAfter(E, "expiry") EXCEPT ![t] = new]
      /\ bucket' = [b \in Buckets |-> IF b \in Current(t)
           THEN [BucketsAfter(E)[b] EXCEPT !.reserved = @ + Estimate] ELSE BucketsAfter(E)[b]]
      /\ units' = [UnitsAfter(E) EXCEPT ![UserOf[t]] = @ + 1]
      /\ keys' = KeysAfter(E, "expiry")
  BY DEF Admit, Held
<1>5. new \in Rows
  <2>1. resv[t].holds \in SUBSET Buckets /\ Estimate \in Nat
    BY <1>1, QuotaAssumption DEF TypeOK, QuotaAssumption
  <2>2. QED
    BY <1>3, <2>1 DEF Rows, Statuses, Active
<1>6. ResvAfter(E, "expiry") = [u \in Turns |-> ResvAfter(E, "expiry")[u]]
  BY DEF ResvAfter
<1>7. /\ resv' = [u \in Turns |-> resv'[u]]
      /\ resv'[t] = new
      /\ \A u \in Turns \ {t} : resv'[u] = ResvAfter(E, "expiry")[u]
  BY <1>4, <1>6, Zenon
<1>8. \A u \in Turns \ {t} :
         /\ resv'[u] \in Rows
         /\ resv'[u].holds = resv[u].holds
         /\ u \in E => resv'[u].status \in Terminal /\ resv'[u].reserved = 0
         /\ u \notin E => resv'[u] = resv[u]
  BY <1>1, <1>2, <1>7, ResvAfterRows
<1>9. resv' \in [Turns -> Rows]
  BY <1>5, <1>7, <1>8
<1>10. ASSUME NEW b \in Buckets
       PROVE  /\ bucket'[b] \in Accounts
              /\ bucket'[b].consumed = bucket[b].consumed
              /\ bucket'[b].reserved = BucketsAfter(E)[b].reserved
                                       + (IF b \in Current(t) THEN Estimate ELSE 0)
  <2> DEFINE k == BucketsAfter(E)[b]
  <2>1. k \in Accounts /\ k.consumed = bucket[b].consumed
    BY <1>1, <1>2, BucketsAfterRows DEF Accounts
  <2>2. Estimate \in Nat
    BY QuotaAssumption DEF QuotaAssumption
  <2>3. bucket'[b] = IF b \in Current(t) THEN [k EXCEPT !.reserved = k.reserved + Estimate] ELSE k
    BY <1>4
  <2> HIDE DEF k
  <2>4. CASE b \in Current(t)
    <3>1. bucket'[b] = [consumed |-> k.consumed, reserved |-> k.reserved + Estimate]
      BY <2>1, <2>3, <2>4 DEF Accounts
    <3>2. QED
      BY <2>1, <2>2, <2>4, <3>1 DEF Accounts, k
  <2>5. CASE b \notin Current(t)
    <3>1. bucket'[b] = k /\ k.reserved \in Nat
      BY <2>1, <2>3, <2>5 DEF Accounts
    <3>2. QED
      BY <2>1, <2>5, <3>1 DEF k
  <2>6. QED
    BY <2>4, <2>5
<1>11. bucket' = [b \in Buckets |-> bucket'[b]]
  BY <1>4
<1>12. units' \in [Users -> Nat]
       /\ \A u \in Users : units'[u] = UnitsAfter(E)[u] + (IF u = UserOf[t] THEN 1 ELSE 0)
  <2>1. UnitsAfter(E) \in [Users -> Nat] /\ UserOf[t] \in Users
    BY <1>1, <1>2, UnitsAfterRows, QuotaAssumption DEF QuotaAssumption
  <2>2. QED
    BY <1>4, <2>1
<1>13. keys' \in [Turns -> SUBSET Keys]
  BY <1>1, <1>2, <1>4, KeysAfterRows
<1>14. QED
  BY <1>2, <1>3, <1>4, <1>7, <1>8, <1>9, <1>10, <1>11, <1>12, <1>13

\* What a feature hold writes.
LEMMA ReserveRows ==
    ASSUME Tables, NEW o \in Operations, ReserveFeature(o), NEW t, t = TurnOf[o]
    PROVE  /\ t \in Turns /\ resv[t].status \in Active
           /\ KeepsRows
           /\ \A u \in Turns : u # t => resv'[u] = resv[u]
           /\ resv'[t].status = resv[t].status /\ resv'[t].holds = resv[t].holds
           /\ resv'[t].reserved = resv[t].reserved + FeatureMicro
           /\ bucket' \in [Buckets -> Accounts]
           /\ \A b \in Buckets :
                /\ bucket'[b].consumed = bucket[b].consumed
                /\ bucket'[b].reserved = bucket[b].reserved
                     + (IF b \in resv[t].holds THEN FeatureMicro ELSE 0)
<1>1. t \in Turns /\ FeatureMicro \in Nat
  BY QuotaAssumption DEF QuotaAssumption
<1>2. /\ resv[t].status \in Active
      /\ resv' = [resv EXCEPT ![t].reserved = resv[t].reserved + FeatureMicro]
      /\ bucket' = [b \in Buckets |-> IF b \in resv[t].holds
           THEN [bucket[b] EXCEPT !.reserved = bucket[b].reserved + FeatureMicro] ELSE bucket[b]]
  BY DEF ReserveFeature, CanHold, Held
<1>3. resv[t].reserved + FeatureMicro \in Nat
  BY <1>1 DEF Tables, TypeOK
<1>4. ASSUME NEW b \in Buckets
      PROVE  /\ bucket'[b] \in Accounts
             /\ bucket'[b].consumed = bucket[b].consumed
             /\ bucket'[b].reserved = bucket[b].reserved
                  + (IF b \in resv[t].holds THEN FeatureMicro ELSE 0)
  <2>1. bucket[b] \in Accounts
    BY DEF Tables, TypeOK, Accounts
  <2>2. CASE b \in resv[t].holds
    <3>1. bucket'[b] = [consumed |-> bucket[b].consumed,
                        reserved |-> bucket[b].reserved + FeatureMicro]
      BY <1>2, <2>1, <2>2 DEF Accounts
    <3>2. QED
      BY <1>1, <2>1, <2>2, <3>1 DEF Accounts
  <2>3. CASE b \notin resv[t].holds
    <3>1. bucket'[b] = bucket[b] /\ bucket[b].reserved \in Nat
      BY <1>2, <2>1, <2>3 DEF Accounts
    <3>2. QED
      BY <2>1, <2>3, <3>1
  <2>4. QED
    BY <2>2, <2>3
<1>5. bucket' = [b \in Buckets |-> bucket'[b]]
  BY <1>2
<1>6. QED
  BY <1>1, <1>2, <1>3, <1>4, <1>5, AmountKeepsRows

\* A step that keeps rows and entries and moves on keeps the tables.
LEMMA TablesKept ==
    ASSUME Tables, KeepsRows, KeepsEntries, MovesOn,
           bucket' \in [Buckets -> Accounts], units' \in [Users -> Nat],
           keys' \in [Turns -> SUBSET Keys],
           failures' \in [Turns -> Nat], \A t \in Turns : failures'[t] <= MaxDispatchFailures[t],
           crashes' = crashes, period' \in Periods
    PROVE  Tables'
<1>1. TypeOK'
  BY DEF Tables, TypeOK, KeepsRows, KeepsEntries, MovesOn, Rows, Statuses, Entries, Phases, Accounts
<1>2. TurnRows'
  BY DEF Tables, TurnRows, KeepsRows, MovesOn
<1>3. OperationRows'
  BY QuotaAssumption DEF Tables, OperationRows, KeepsEntries, MovesOn, QuotaAssumption
<1>4. QED
  BY <1>1, <1>2, <1>3 DEF Tables

\* Steps that leave a table alone.
LEMMA Untouched ==
    ASSUME Tables
    PROVE  /\ resv' = resv => KeepsRows
           /\ op' = op => KeepsEntries
           /\ phase' = phase => MovesOn
           /\ bucket' = bucket => bucket' \in [Buckets -> Accounts]
           /\ units' = units => units' \in [Users -> Nat]
           /\ keys' = keys => keys' \in [Turns -> SUBSET Keys]
           /\ failures' = failures => failures' \in [Turns -> Nat]
                                      /\ \A t \in Turns : failures'[t] <= MaxDispatchFailures[t]
           /\ period' = period => period' \in Periods
<1>1. resv \in [Turns -> Rows] /\ op \in [Operations -> Entries]
  BY DEF Tables, TypeOK, Rows, Statuses, Entries
<1>2. resv' = resv => KeepsRows
  BY <1>1 DEF Tables, TurnRows, KeepsRows
<1>3. op' = op => KeepsEntries
  BY <1>1 DEF Tables, OperationRows, KeepsEntries
<1>4. phase' = phase => MovesOn
  BY DEF Tables, TypeOK, MovesOn, Phases
<1>5. QED
  BY <1>2, <1>3, <1>4 DEF Tables, TypeOK, Accounts

\* A turn moves on.
LEMMA PhaseMovesOn ==
    ASSUME Tables, NEW t \in Turns, NEW p \in Phases \ {"new"}, phase[t] \notin {"new", "done"},
           phase' = [phase EXCEPT ![t] = p]
    PROVE  MovesOn
BY DEF Tables, TypeOK, MovesOn, Phases

\* A finish that leaves the operations alone.
LEMMA FinishKeepsTables ==
    ASSUME Tables, NEW S \in SUBSET Turns, NEW key \in Keys, Finish(S, key),
           op' = op, MovesOn, failures' \in [Turns -> Nat],
           \A t \in Turns : failures'[t] <= MaxDispatchFailures[t],
           crashes' = crashes, period' = period
    PROVE  Tables'
<1>1. KeepsRows
  BY FinishKeepsRows
<1>2. /\ bucket' \in [Buckets -> Accounts] /\ units' \in [Users -> Nat]
      /\ keys' \in [Turns -> SUBSET Keys]
  BY FinishRows DEF Tables, Accounts
<1>3. KeepsEntries /\ period' \in Periods
  BY Untouched
<1>4. QED
  BY <1>1, <1>2, <1>3, TablesKept

\* The bounds on failures and recoveries.
LEMMA Bounds ==
    ASSUME NEW t \in Turns
    PROVE  MaxDispatchFailures[t] \in Nat /\ MaxRecoveries[t] \in Nat
BY QuotaAssumption DEF QuotaAssumption

\* The keys the callers use.
LEMMA KeyNames ==
    {"expiry", "begin-expiry", "heartbeat-expiry", "turn-finished", "worker-cancelled",
     "dispatch-failed"} \subseteq Keys
BY DEF Keys, ExpiryKeys

\* A lost execution counts as one more crash; the turn is given up with the last.
LEMMA LostKeepsTables ==
    ASSUME Tables, NEW t \in Turns, ExecutionLost(t)
    PROVE  /\ Tables'
           /\ \A q \in Operations : op'[q].to = op[q].to /\ op'[q].credits = op[q].credits
                                    /\ op'[q].released = op[q].released
<1>1. /\ phase[t] = "running"
      /\ phase' = [phase EXCEPT ![t] = IF crashes[t] < MaxRecoveries[t] THEN "queued" ELSE "done"]
      /\ crashes' = [crashes EXCEPT ![t] = @ + 1]
      /\ resv' = resv /\ bucket' = bucket /\ units' = units /\ keys' = keys
      /\ failures' = failures /\ period' = period
  BY DEF ExecutionLost
<1>2. op \in [Operations -> Entries]
  BY DEF Tables, TypeOK, Entries
<1>3. /\ op' \in [Operations -> Entries]
      /\ \A q \in Operations : /\ op'[q].to = op[q].to /\ op'[q].credits = op[q].credits
                               /\ op'[q].released = op[q].released
                               /\ op'[q].state # "none" <=> op[q].state # "none"
                               /\ op'[q].state # "settled" <=> op[q].state # "settled"
  <2>1. CASE op' = op
    BY <1>2, <2>1
  <2>2. CASE op' # op
    <3>1. op' = [o \in Operations |-> IF TurnOf[o] = t /\ op[o].state = "started"
                   THEN [op[o] EXCEPT !.state = "lost"] ELSE op[o]]
      BY <2>2 DEF ExecutionLost
    <3>2. ASSUME NEW q \in Operations
          PROVE  /\ op'[q] \in Entries
                 /\ op'[q].to = op[q].to /\ op'[q].credits = op[q].credits
                 /\ op'[q].released = op[q].released
                 /\ op'[q].state # "none" <=> op[q].state # "none"
                 /\ op'[q].state # "settled" <=> op[q].state # "settled"
      <4>1. op[q] \in Entries
        BY <1>2
      <4>2. CASE TurnOf[q] = t /\ op[q].state = "started"
        <5>1. op'[q] = [state |-> "lost", hold |-> op[q].hold, credits |-> op[q].credits,
                        released |-> op[q].released, to |-> op[q].to]
          BY <3>1, <4>1, <4>2 DEF Entries
        <5>2. QED
          BY <4>1, <4>2, <5>1 DEF Entries
      <4>3. CASE ~(TurnOf[q] = t /\ op[q].state = "started")
        BY <3>1, <4>1, <4>3
      <4>4. QED
        BY <4>2, <4>3
    <3>3. QED
      BY <3>1, <3>2
  <2>3. QED
    BY <2>1, <2>2
<1>4. crashes[t] \in Nat /\ MaxRecoveries[t] \in Nat /\ crashes[t] <= MaxRecoveries[t]
  <2>1. MaxRecoveries[t] \in Nat /\ crashes[t] \in Nat
    BY Bounds DEF Tables, TypeOK
  <2>2. ~(crashes[t] > MaxRecoveries[t])
    BY <1>1 DEF Tables, TurnRows
  <2>3. QED
    BY <2>1, <2>2
<1>5. TypeOK'
  <2>1. crashes' \in [Turns -> Nat] /\ \A u \in Turns : crashes'[u] <= MaxRecoveries[u] + 1
    BY <1>1, <1>4 DEF Tables, TypeOK
  <2>2. phase' \in [Turns -> Phases]
    BY <1>1 DEF Tables, TypeOK, Phases
  <2>3. QED
    BY <1>1, <1>3, <2>1, <2>2 DEF Tables, TypeOK, Entries, Phases
<1>6. TurnRows'
  <2> SUFFICES ASSUME NEW u \in Turns
               PROVE  /\ phase'[u] = "new" <=> resv'[u].status = "none"
                      /\ resv'[u].status \notin Active => resv'[u].reserved = 0
                      /\ crashes'[u] > MaxRecoveries[u] => phase'[u] = "done"
    BY DEF TurnRows
  <2>1. CASE u = t
    BY <1>1, <1>4, <2>1 DEF Tables, TypeOK, TurnRows
  <2>2. CASE u # t
    BY <1>1, <2>2 DEF Tables, TypeOK, TurnRows
  <2>3. QED
    BY <2>1, <2>2
<1>7. OperationRows'
  <2>1. \A u \in Turns : phase'[u] = "new" <=> phase[u] = "new"
    BY <1>1 DEF Tables, TypeOK
  <2>2. QED
    BY <1>3, <2>1, QuotaAssumption DEF Tables, OperationRows, QuotaAssumption
<1>8. QED
  BY <1>3, <1>5, <1>6, <1>7 DEF Tables

\* Admission keeps the tables.
LEMMA AdmitKeepsTables ==
    ASSUME Tables, NEW t \in Turns, Admit(t)
    PROVE  Tables'
<1> DEFINE E == Ends(Lapsed, "expiry")
<1>1. /\ phase[t] \in {"new", "undispatched"} /\ phase' = [phase EXCEPT ![t] = "admitted"]
      /\ op' = op /\ failures' = failures /\ crashes' = crashes /\ period' = period
  BY DEF Admit
<1>2. E \in SUBSET Turns /\ \A u \in E : resv[u].status \in Active
  BY EndsActive DEF Lapsed
<1> HIDE DEF E
<1>3. TypeOK'
  <2>1. /\ resv' \in [Turns -> Rows] /\ bucket' \in [Buckets -> Accounts]
        /\ units' \in [Users -> Nat] /\ keys' \in [Turns -> SUBSET Keys]
    BY AdmitRows
  <2>2. phase' \in [Turns -> Phases]
    BY <1>1 DEF Tables, TypeOK, Phases
  <2>3. QED
    BY <1>1, <2>1, <2>2 DEF Tables, TypeOK, Rows, Statuses, Phases, Accounts
<1>4. TurnRows'
  <2> SUFFICES ASSUME NEW u \in Turns
               PROVE  /\ phase'[u] = "new" <=> resv'[u].status = "none"
                      /\ resv'[u].status \notin Active => resv'[u].reserved = 0
                      /\ crashes'[u] > MaxRecoveries[u] => phase'[u] = "done"
    BY DEF TurnRows
  <2>1. CASE u = t
    <3>1. resv'[t].status = "reserved"
      BY AdmitRows
    <3>2. QED
      BY <1>1, <2>1, <3>1 DEF Tables, TypeOK, TurnRows, Active
  <2>2. CASE u # t
    <3>1. /\ u \in E => resv'[u].status \in Terminal /\ resv'[u].reserved = 0
          /\ u \notin E => resv'[u] = resv[u]
      BY <2>2, AdmitRows DEF E
    <3>2. phase'[u] = phase[u] /\ crashes'[u] = crashes[u]
      BY <1>1, <2>2 DEF Tables, TypeOK
    <3>3. CASE u \in E
      BY <1>2, <3>1, <3>2, <3>3 DEF Tables, TurnRows, Active, Terminal
    <3>4. CASE u \notin E
      BY <3>1, <3>2, <3>4 DEF Tables, TurnRows
    <3>5. QED
      BY <3>3, <3>4
  <2>3. QED
    BY <2>1, <2>2
<1>5. OperationRows'
  <2>1. \A u \in Turns : phase'[u] = "new" => phase[u] = "new"
    BY <1>1 DEF Tables, TypeOK
  <2>2. QED
    BY <1>1, <2>1, QuotaAssumption DEF Tables, OperationRows, QuotaAssumption
<1>6. QED
  BY <1>3, <1>4, <1>5 DEF Tables

\* The steps of a turn.
LEMMA TurnStepKeepsTables ==
    ASSUME Tables, NEW t \in Turns, TurnStep(t)
    PROVE  Tables'
<1>0. {t} \in SUBSET Turns /\ ({t} \intersect Lapsed) \in SUBSET Turns
  BY DEF Lapsed
<1>1. CASE Admit(t)
  BY <1>1, AdmitKeepsTables
<1>2. CASE AdmitDuplicate(t) \/ Dispatch(t)
  <2>1. /\ phase[t] \in {"undispatched", "admitted"}
        /\ \E p \in {"admitted", "queued"} : phase' = [phase EXCEPT ![t] = p]
        /\ resv' = resv /\ bucket' = bucket /\ units' = units /\ keys' = keys /\ op' = op
        /\ failures' = failures /\ crashes' = crashes /\ period' = period
    BY <1>2 DEF AdmitDuplicate, Dispatch
  <2>2. MovesOn
    BY <2>1, PhaseMovesOn DEF Phases
  <2>3. QED
    BY <2>1, <2>2, Untouched, TablesKept
<1>3. CASE DispatchFails(t)
  <2>1. /\ phase[t] = "admitted" /\ phase' = [phase EXCEPT ![t] = "undispatched"]
        /\ Finish({t}, "dispatch-failed")
        /\ failures[t] < MaxDispatchFailures[t] /\ failures' = [failures EXCEPT ![t] = @ + 1]
        /\ op' = op /\ crashes' = crashes /\ period' = period
    BY <1>3 DEF DispatchFails
  <2>2. MovesOn
    BY <2>1, PhaseMovesOn DEF Phases
  <2>3. failures' \in [Turns -> Nat] /\ \A u \in Turns : failures'[u] <= MaxDispatchFailures[u]
    BY <2>1, Bounds DEF Tables, TypeOK
  <2>4. QED
    BY <1>0, <2>1, <2>2, <2>3, KeyNames, FinishKeepsTables
<1>4. CASE Begin(t)
  <2>1. phase[t] = "queued" /\ op' = op /\ failures' = failures /\ crashes' = crashes
        /\ period' = period
    BY <1>4 DEF Begin
  <2>2. CASE resv[t].status \in Active /\ resv[t].lease = "live"
    <3>1. /\ resv' = [resv EXCEPT ![t].status = "running"]
          /\ phase' = [phase EXCEPT ![t] = "running"]
          /\ bucket' = bucket /\ units' = units /\ keys' = keys
      BY <1>4, <2>2 DEF Begin
    <3>2. MovesOn
      BY <2>1, <3>1, PhaseMovesOn DEF Phases
    <3>3. KeepsRows
      BY <2>2, <3>1, StatusKeepsRows DEF Statuses, Active
    <3>4. QED
      BY <2>1, <3>1, <3>2, <3>3, Untouched, TablesKept
  <2>3. CASE ~(resv[t].status \in Active /\ resv[t].lease = "live")
    <3>1. /\ Finish({t} \intersect Lapsed, "begin-expiry")
          /\ phase' = [phase EXCEPT ![t] = "failing"]
      BY <1>4, <2>3 DEF Begin
    <3>2. MovesOn
      BY <2>1, <3>1, PhaseMovesOn DEF Phases
    <3>3. QED
      BY <1>0, <2>1, <3>1, <3>2, KeyNames, Untouched, FinishKeepsTables
  <2>4. QED
    BY <2>2, <2>3
<1>5. CASE Heartbeat(t)
  <2>1. /\ Finish({t} \intersect Lapsed, "heartbeat-expiry") /\ phase' = phase
        /\ op' = op /\ failures' = failures /\ crashes' = crashes /\ period' = period
    BY <1>5 DEF Heartbeat
  <2>2. QED
    BY <1>0, <2>1, KeyNames, Untouched, FinishKeepsTables
<1>6. CASE FinishTurn(t) \/ WorkerCancelled(t)
  <2>1. /\ phase[t] \in {"queued", "running", "failing"}
        /\ phase' = [phase EXCEPT ![t] = "done"]
        /\ \E key \in {"turn-finished", "worker-cancelled"} : Finish({t}, key)
        /\ op' = op /\ failures' = failures /\ crashes' = crashes /\ period' = period
    BY <1>6 DEF FinishTurn, WorkerCancelled
  <2>2. MovesOn
    BY <2>1, PhaseMovesOn DEF Phases
  <2>3. QED
    BY <1>0, <2>1, <2>2, KeyNames, Untouched, FinishKeepsTables
<1>7. CASE ExecutionLost(t)
  BY <1>7, LostKeepsTables
<1>8. CASE LeaseLapses(t)
  <2>1. /\ resv' = [resv EXCEPT ![t].lease = "lapsed"]
        /\ bucket' = bucket /\ units' = units /\ keys' = keys /\ phase' = phase
        /\ op' = op /\ failures' = failures /\ crashes' = crashes /\ period' = period
    BY <1>8 DEF LeaseLapses
  <2>2. QED
    BY <2>1, LeaseKeepsRows, Untouched, TablesKept
<1>9. QED
  BY <1>1, <1>2, <1>3, <1>4, <1>5, <1>6, <1>7, <1>8 DEF TurnStep

\* Reports come for admitted turns, and leave what is over inactive.
LEMMA ReportedTurn ==
    ASSUME Tables, NEW o \in Operations, op[o].state # "none", NEW t, t = TurnOf[o]
    PROVE  /\ t \in Turns /\ phase[t] # "new" /\ resv[t].status \in Active \union Terminal
           /\ Active \intersect Terminal = {} /\ "none" \notin Active \union Terminal
           /\ resv[t].reserved \in Nat
<1>1. t \in Turns /\ phase[t] # "new"
  BY QuotaAssumption DEF Tables, OperationRows, QuotaAssumption
<1>2. QED
  BY <1>1 DEF Tables, TypeOK, TurnRows, Active, Terminal

\* A charge and a release return part of the hold of the turn and leave an
\* active reservation active.
LEMMA ChargeReturns ==
    ASSUME Tables, NEW o \in Operations, NEW c \in Credits, Charge(o, c), NEW t, t = TurnOf[o]
    PROVE  /\ t \in Turns /\ c \in Nat /\ Covered(o, c) \in Nat
           /\ Covered(o, c) <= resv[t].reserved
           /\ op[o].state \in {"started", "pending"}
           /\ \E status \in Statuses :
                /\ Return(t, Covered(o, c), c, status)
                /\ status = "none" <=> resv[t].status = "none"
                /\ status \in Active <=> resv[t].status \in Active
<1>1. op[o].state \in {"started", "pending"} /\ c \in Nat
  BY QuotaAssumption DEF Charge, Chargeable, QuotaAssumption
<1>2. Covered(o, c) \in Nat /\ Covered(o, c) <= resv[t].reserved
  BY <1>1, CoveredIsHeld
<1>3. /\ t \in Turns /\ resv[t].status \in Active \union Terminal
      /\ Active \intersect Terminal = {} /\ "none" \notin Active \union Terminal
  BY <1>1, ReportedTurn
<1> DEFINE status == IF resv[t].status \in Terminal THEN "settled" ELSE "settling"
<1>4. Return(t, Covered(o, c), c, status)
  BY DEF Charge
<1>5. status \in Statuses /\ (status = "none" <=> resv[t].status = "none")
      /\ (status \in Active <=> resv[t].status \in Active)
  BY <1>3 DEF Statuses, Active, Terminal
<1>6. QED
  BY <1>1, <1>2, <1>3, <1>4, <1>5

\* The same for a release.
LEMMA ReleaseReturns ==
    ASSUME Tables, NEW o \in Operations, ReleaseFeature(o), NEW t, t = TurnOf[o]
    PROVE  /\ t \in Turns /\ op[o].state = "started" /\ resv[t].status \in Statuses
           /\ \E amount \in Nat : /\ amount <= resv[t].reserved
                                  /\ Return(t, amount, 0, resv[t].status)
<1>1. op[o].state = "started" /\ Return(t, Min({resv[t].reserved, op[o].hold}), 0, resv[t].status)
  BY DEF ReleaseFeature
<1>2. t \in Turns /\ resv[t].reserved \in Nat /\ resv[t].status \in Statuses
  BY <1>1, ReportedTurn DEF Statuses
<1>3. op[o].hold \in Nat
  BY DEF Tables, TypeOK
<1>4. Min({resv[t].reserved, op[o].hold}) \in Nat
      /\ Min({resv[t].reserved, op[o].hold}) <= resv[t].reserved
  BY <1>2, <1>3, MinOfTwo
<1>5. QED
  BY <1>1, <1>2, <1>4

\* The steps of an operation.
LEMMA OperationStepKeepsTables ==
    ASSUME Tables, NEW o \in Operations, OperationStep(o)
    PROVE  Tables'
<1> DEFINE t == TurnOf[o]
<1>0. t \in Turns
  BY QuotaAssumption DEF QuotaAssumption
<1>1. CASE StartOperation(o)
  <2>1. /\ phase[t] = "running" /\ op[o].state = "none"
        /\ op' = [op EXCEPT ![o].state = "started"]
        /\ resv' = resv /\ bucket' = bucket /\ units' = units /\ keys' = keys /\ phase' = phase
        /\ failures' = failures /\ crashes' = crashes /\ period' = period
    BY <1>1 DEF StartOperation
  <2>2. KeepsEntries
    BY <2>1, StateKeepsEntries
  <2>3. QED
    BY <2>1, <2>2, Untouched, TablesKept
<1>2. CASE ReserveFeature(o)
  <2>1. /\ op' = [op EXCEPT ![o].hold = FeatureMicro] /\ units' = units /\ keys' = keys
        /\ phase' = phase /\ failures' = failures /\ crashes' = crashes /\ period' = period
    BY <1>2 DEF ReserveFeature
  <2>2. KeepsRows /\ bucket' \in [Buckets -> Accounts]
    BY <1>2, ReserveRows
  <2>3. KeepsEntries
    BY <2>1, HoldKeepsEntries, QuotaAssumption DEF QuotaAssumption
  <2>4. QED
    BY <2>1, <2>2, <2>3, Untouched, TablesKept
<1>3. CASE ReleaseFeature(o)
  <2>1. /\ op' = [op EXCEPT ![o].state = "cancelled"] /\ units' = units /\ keys' = keys
        /\ phase' = phase /\ failures' = failures /\ crashes' = crashes /\ period' = period
    BY <1>3 DEF ReleaseFeature
  <2>2. PICK amount \in Nat : Return(t, amount, 0, resv[t].status)
    BY <1>3, ReleaseReturns
  <2>3. op[o].state = "started" /\ resv[t].status \in Statuses
    BY <1>3, ReleaseReturns
  <2>4. KeepsRows /\ bucket' \in [Buckets -> Accounts]
    BY <1>0, <2>2, <2>3, ReturnKeepsRows, ReturnRows DEF Tables
  <2>5. KeepsEntries
    BY <2>1, <2>3, ReportedTurn, StateKeepsEntries
  <2>6. QED
    BY <2>1, <2>4, <2>5, Untouched, TablesKept
<1>4. CASE ReportPending(o)
  <2>1. /\ op[o].state = "started"
        /\ resv' = [resv EXCEPT ![t].status =
                      IF resv[t].status \in Terminal THEN resv[t].status ELSE "settling"]
        /\ op' = [op EXCEPT ![o].state = "pending"]
        /\ bucket' = bucket /\ units' = units /\ keys' = keys
        /\ phase' = phase /\ failures' = failures /\ crashes' = crashes /\ period' = period
    BY <1>4 DEF ReportPending
  <2>2. KeepsEntries
    BY <2>1, ReportedTurn, StateKeepsEntries
  <2>3. /\ resv[t].status \in Active \union Terminal
        /\ Active \intersect Terminal = {} /\ "none" \notin Active \union Terminal
    BY <2>1, ReportedTurn
  <2>4. KeepsRows
    <3> DEFINE v == IF resv[t].status \in Terminal THEN resv[t].status ELSE "settling"
    <3>1. /\ v \in Statuses /\ (v = "none" <=> resv[t].status = "none")
          /\ (v \in Active <=> resv[t].status \in Active)
      BY <2>3 DEF Statuses, Active, Terminal
    <3>2. resv' = [resv EXCEPT ![t].status = v]
      BY <2>1
    <3> HIDE DEF v
    <3>3. QED
      BY <1>0, <3>1, <3>2, StatusKeepsRows
  <2>5. QED
    BY <2>1, <2>2, <2>4, Untouched, TablesKept
<1>5. ASSUME NEW c \in Credits, Charge(o, c)
      PROVE  Tables'
  <2>1. units' = units /\ keys' = keys /\ phase' = phase /\ failures' = failures
        /\ crashes' = crashes /\ period' = period
    BY <1>5 DEF Charge
  <2>2. c \in Nat /\ Covered(o, c) \in Nat
    BY <1>5, ChargeReturns
  <2>3. PICK status \in Statuses :
              /\ Return(t, Covered(o, c), c, status)
              /\ status = "none" <=> resv[t].status = "none"
              /\ status \in Active <=> resv[t].status \in Active
    BY <1>5, ChargeReturns
  <2>4. KeepsRows /\ bucket' \in [Buckets -> Accounts]
    BY <1>0, <2>2, <2>3, ReturnKeepsRows, ReturnRows DEF Tables
  <2>5. KeepsEntries
    BY <1>5, <2>2, ChargeEntry
  <2>6. QED
    BY <2>1, <2>4, <2>5, Untouched, TablesKept
<1>6. QED
  BY <1>1, <1>2, <1>3, <1>4, <1>5 DEF OperationStep

\* Every step keeps the tables.
LEMMA StepKeepsTables ==
    ASSUME Tables, [Next]_vars
    PROVE  Tables'
<1>1. ASSUME NEW t \in Turns, TurnStep(t)
      PROVE  Tables'
  BY <1>1, TurnStepKeepsTables
<1>2. ASSUME NEW o \in Operations, OperationStep(o)
      PROVE  Tables'
  BY <1>2, OperationStepKeepsTables
<1>3. CASE NextPeriod
  <2>1. /\ period < MaxPeriod /\ period' = period + 1
        /\ resv' = resv /\ bucket' = bucket /\ units' = units /\ keys' = keys /\ op' = op
        /\ phase' = phase /\ failures' = failures /\ crashes' = crashes
    BY <1>3 DEF NextPeriod
  <2>2. period' \in Periods
    BY <2>1, QuotaAssumption DEF Tables, TypeOK, Periods, QuotaAssumption
  <2>3. QED
    BY <2>1, <2>2, Untouched, TablesKept
<1>4. CASE Sweep
  <2>1. /\ Finish(Lapsed, "expiry") /\ op' = op /\ phase' = phase
        /\ failures' = failures /\ crashes' = crashes /\ period' = period
    BY <1>4 DEF Sweep
  <2>2. Lapsed \in SUBSET Turns
    BY DEF Lapsed
  <2>3. QED
    BY <2>1, <2>2, KeyNames, Untouched, FinishKeepsTables
<1>5. CASE UNCHANGED vars
  BY <1>5, Untouched, TablesKept DEF vars
<1>6. QED
  BY <1>1, <1>2, <1>3, <1>4, <1>5 DEF Next

\* The tables at the start.
LEMMA InitTables ==
    ASSUME Init
    PROVE  Tables
<1>1. TypeOK
  BY QuotaAssumption DEF Init, TypeOK, NoReservation, NoOperation, Active, Periods, QuotaAssumption
<1>2. TurnRows
  BY QuotaAssumption DEF Init, TurnRows, NoReservation, QuotaAssumption
<1>3. OperationRows
  BY DEF Init, OperationRows, NoOperation
<1>4. QED
  BY <1>1, <1>2, <1>3 DEF Tables

\* The tables keep their shape in every state.
LEMMA TablesInvariant == Spec => []Tables
<1>1. Init => Tables
  BY InitTables
<1>2. Tables /\ [Next]_vars => Tables'
  BY StepKeepsTables
<1>3. QED
  BY <1>1, <1>2, PTL DEF Spec

\* Every table keeps its types: amounts and counters never become negative,
\* statuses are those of the columns, and failures and crashes stay in bounds.
THEOREM QuotaTypes == Spec => []TypeOK
<1>1. Tables => TypeOK
  BY DEF Tables
<1>2. QED
  BY <1>1, TablesInvariant, PTL

-----------------------------------------------------------------------------
(* Balances *)

\* What the active reservations hold in a bucket.
Backed(b) == Total(Reserved, Holders(b))

\* A step that neither holds nor returns anything.
KeepsHoldings ==
    /\ bucket' = bucket /\ units' = units
    /\ \A t \in Turns : /\ resv'[t].reserved = resv[t].reserved
                        /\ resv'[t].holds = resv[t].holds
                        /\ resv'[t].status \in Active <=> resv[t].status \in Active

\* A step that charges nothing.
KeepsCharged ==
    \A o \in Operations : /\ op'[o].to = op[o].to /\ op'[o].credits = op[o].credits
                          /\ op'[o].released = op[o].released

Finishes == /\ \E S \in SUBSET Turns : \E key \in Keys : Finish(S, key)
            /\ KeepsCharged

\* Every step is of one of these kinds.
LEMMA StepKinds ==
    ASSUME Tables, [Next]_vars
    PROVE  \/ KeepsHoldings /\ KeepsCharged
           \/ Finishes
           \/ \E t \in Turns : Admit(t)
           \/ \E o \in Operations : ReserveFeature(o)
           \/ \E o \in Operations : ReleaseFeature(o)
           \/ \E o \in Operations : \E c \in Credits : Charge(o, c)
<1> DEFINE Quiet == KeepsHoldings /\ KeepsCharged
<1>0. op' = op => KeepsCharged
  BY DEF KeepsCharged
<1>1. ASSUME resv' = resv, bucket' = bucket, units' = units
      PROVE  KeepsHoldings
  BY <1>1 DEF KeepsHoldings
<1>2. ASSUME NEW t \in Turns, TurnStep(t)
      PROVE  Quiet \/ Finishes \/ Admit(t)
  <2>0. {t} \in SUBSET Turns /\ ({t} \intersect Lapsed) \in SUBSET Turns
    BY DEF Lapsed
  <2>1. CASE AdmitDuplicate(t) \/ Dispatch(t)
    BY <1>0, <1>1, <2>1 DEF AdmitDuplicate, Dispatch
  <2>2. CASE DispatchFails(t) \/ FinishTurn(t) \/ WorkerCancelled(t) \/ Heartbeat(t)
    <3>1. op' = op /\ \E S \in SUBSET Turns : \E key \in Keys : Finish(S, key)
      BY <2>0, <2>2, KeyNames DEF DispatchFails, FinishTurn, WorkerCancelled, Heartbeat
    <3>2. QED
      BY <1>0, <3>1 DEF Finishes
  <2>3. CASE Begin(t)
    <3>1. CASE resv[t].status \in Active /\ resv[t].lease = "live"
      <4>1. /\ resv' = [resv EXCEPT ![t].status = "running"]
            /\ bucket' = bucket /\ units' = units /\ op' = op
        BY <2>3, <3>1 DEF Begin
      <4>2. /\ \A u \in Turns : u # t => resv'[u] = resv[u]
            /\ resv'[t].status = "running" /\ resv'[t].reserved = resv[t].reserved
            /\ resv'[t].holds = resv[t].holds
        BY <3>1, <4>1, StatusKeepsRows DEF Statuses, Active
      <4>3. KeepsHoldings
        BY <3>1, <4>1, <4>2 DEF KeepsHoldings, Active
      <4>4. QED
        BY <1>0, <4>1, <4>3
    <3>2. CASE ~(resv[t].status \in Active /\ resv[t].lease = "live")
      <4>1. Finish({t} \intersect Lapsed, "begin-expiry") /\ op' = op
        BY <2>3, <3>2 DEF Begin
      <4>2. QED
        BY <1>0, <2>0, <4>1, KeyNames DEF Finishes
    <3>3. QED
      BY <3>1, <3>2
  <2>4. CASE ExecutionLost(t)
    <3>1. resv' = resv /\ bucket' = bucket /\ units' = units
      BY <2>4 DEF ExecutionLost
    <3>2. KeepsCharged
      BY <2>4, LostKeepsTables DEF KeepsCharged
    <3>3. QED
      BY <1>1, <3>1, <3>2
  <2>5. CASE LeaseLapses(t)
    <3>1. /\ resv' = [resv EXCEPT ![t].lease = "lapsed"]
          /\ bucket' = bucket /\ units' = units /\ op' = op
      BY <2>5 DEF LeaseLapses
    <3>2. KeepsHoldings
      BY <3>1, LeaseKeepsRows DEF KeepsHoldings
    <3>3. QED
      BY <1>0, <3>1, <3>2
  <2>6. QED
    BY <1>2, <2>1, <2>2, <2>3, <2>4, <2>5 DEF TurnStep
<1>3. ASSUME NEW o \in Operations, OperationStep(o)
      PROVE  Quiet \/ ReserveFeature(o) \/ ReleaseFeature(o) \/ \E c \in Credits : Charge(o, c)
  <2> DEFINE t == TurnOf[o]
  <2>1. CASE StartOperation(o)
    <3>1. /\ phase[t] = "running" /\ op[o].state = "none"
          /\ op' = [op EXCEPT ![o].state = "started"]
          /\ resv' = resv /\ bucket' = bucket /\ units' = units
      BY <2>1 DEF StartOperation
    <3>2. KeepsCharged
      BY <3>1, StateKeepsEntries DEF KeepsCharged
    <3>3. QED
      BY <1>1, <3>1, <3>2
  <2>2. CASE ReportPending(o)
    <3> DEFINE v == IF resv[t].status \in Terminal THEN resv[t].status ELSE "settling"
    <3>1. /\ op[o].state = "started" /\ bucket' = bucket /\ units' = units
          /\ resv' = [resv EXCEPT ![t].status = v] /\ op' = [op EXCEPT ![o].state = "pending"]
      BY <2>2 DEF ReportPending
    <3>2. KeepsCharged
      BY <3>1, ReportedTurn, StateKeepsEntries DEF KeepsCharged
    <3>3. /\ t \in Turns /\ resv[t].status \in Active \union Terminal
          /\ Active \intersect Terminal = {} /\ "none" \notin Active \union Terminal
      BY <3>1, ReportedTurn
    <3>4. /\ v \in Statuses /\ (v = "none" <=> resv[t].status = "none")
          /\ (v \in Active <=> resv[t].status \in Active)
      BY <3>3 DEF Statuses, Active, Terminal
    <3> HIDE DEF v
    <3>5. /\ \A u \in Turns : u # t => resv'[u] = resv[u]
          /\ resv'[t].status = v /\ resv'[t].reserved = resv[t].reserved
          /\ resv'[t].holds = resv[t].holds
      BY <3>1, <3>3, <3>4, StatusKeepsRows
    <3>6. KeepsHoldings
      BY <3>1, <3>4, <3>5 DEF KeepsHoldings
    <3>7. QED
      BY <3>2, <3>6
  <2>3. QED
    BY <1>3, <2>1, <2>2 DEF OperationStep
<1>4. CASE NextPeriod
  BY <1>0, <1>1, <1>4 DEF NextPeriod
<1>5. CASE Sweep
  <2>1. Finish(Lapsed, "expiry") /\ op' = op /\ Lapsed \in SUBSET Turns
    BY <1>5 DEF Sweep, Lapsed
  <2>2. QED
    BY <1>0, <2>1, KeyNames DEF Finishes
<1>6. CASE UNCHANGED vars
  BY <1>0, <1>1, <1>6 DEF vars
<1>7. QED
  BY <1>2, <1>3, <1>4, <1>5, <1>6 DEF Next

\* The holders of a bucket and the active reservations of a user, after a step.
LEMMA HoldersAfter ==
    ASSUME NEW b, NEW u, NEW t \in Turns
    PROVE  /\ t \in Holders(b)' <=> b \in resv'[t].holds /\ resv'[t].status \in Active
           /\ t \in ActiveOf(u)' <=> UserOf[t] = u /\ resv'[t].status \in Active
BY DEF Holders, ActiveOf

\* They are turns.
LEMMA HoldersSubset ==
    ASSUME NEW b, NEW u
    PROVE  /\ Holders(b) \in SUBSET Turns /\ Holders(b)' \in SUBSET Turns
           /\ ActiveOf(u) \in SUBSET Turns /\ ActiveOf(u)' \in SUBSET Turns
BY DEF Holders, ActiveOf

\* The sums are natural numbers before and after a step.
LEMMA BackedType ==
    ASSUME TypeOK, TypeOK', NEW b \in Buckets
    PROVE  /\ Reserved \in [Turns -> Nat] /\ Reserved' \in [Turns -> Nat]
           /\ Backed(b) \in Nat /\ Backed(b)' \in Nat
           /\ bucket[b].reserved \in Nat /\ bucket'[b].reserved \in Nat
           /\ bucket[b].consumed \in Nat /\ bucket'[b].consumed \in Nat
<1>1. Reserved \in [Turns -> Nat] /\ Reserved' \in [Turns -> Nat]
  BY DEF TypeOK, Reserved
<1>2. Backed(b) \in Nat /\ Backed(b)' \in Nat
  BY <1>1, HoldersSubset, FiniteTurns, TotalType DEF Backed
<1>3. QED
  BY <1>1, <1>2 DEF TypeOK

\* A step without holds or returns leaves the balances.
LEMMA QuietBalance ==
    ASSUME KeepsHoldings, NEW b
    PROVE  Backed(b)' = Backed(b)
<1>1. Holders(b)' = Holders(b)
  BY DEF KeepsHoldings, Holders
<1>2. Reserved' = Reserved
  BY DEF KeepsHoldings, Reserved
<1>3. QED
  BY <1>1, <1>2 DEF Backed

\* The amount of one reservation.
LEMMA ReservedAt ==
    ASSUME NEW t \in Turns
    PROVE  Reserved[t] = resv[t].reserved /\ Reserved'[t] = resv'[t].reserved
BY DEF Reserved

\* A finish takes from a bucket what its reservations held there.
LEMMA FinishBalance ==
    ASSUME Tables, Tables', NEW S \in SUBSET Turns, NEW key \in Keys, Finish(S, key),
           NEW b \in Buckets, Backed(b) <= bucket[b].reserved
    PROVE  /\ bucket'[b].reserved - Backed(b)' = bucket[b].reserved - Backed(b)
           /\ bucket'[b].reserved <= bucket[b].reserved
           /\ bucket'[b].consumed = bucket[b].consumed
<1> DEFINE E == Ends(S, key)
           A == Holders(b)
           F == {t \in E : b \in Held(t)}
<1>1. TypeOK /\ TypeOK'
  BY DEF Tables
<1>2. E \in SUBSET Turns /\ \A t \in E : resv[t].status \in Active
  BY EndsActive
<1>3. F \in SUBSET A /\ A \in SUBSET Turns
  BY <1>2 DEF Holders, Held
<1>4. \A t \in Turns : /\ resv'[t].holds = resv[t].holds
                       /\ t \in E => resv'[t].status \in Terminal /\ resv'[t].reserved = 0
                       /\ t \notin E => resv'[t] = resv[t]
  BY <1>1, FinishRows
<1> HIDE DEF E
<1>5. Holders(b)' = A \ F
  <2>1. ASSUME NEW t \in Turns
        PROVE  t \in Holders(b)' <=> t \in A \ F
    <3>1. t \in Holders(b)' <=> b \in resv'[t].holds /\ resv'[t].status \in Active
      BY HoldersAfter
    <3>2. CASE t \in E
      BY <1>4, <3>1, <3>2 DEF Holders, Held, Active, Terminal
    <3>3. CASE t \notin E
      BY <1>4, <3>1, <3>3 DEF Holders
    <3>4. QED
      BY <3>2, <3>3
  <2>2. QED
    BY <1>3, <2>1, HoldersSubset
<1>6. \A t \in A \ F : Reserved'[t] = Reserved[t]
  <2> SUFFICES ASSUME NEW t \in A \ F
               PROVE  Reserved'[t] = Reserved[t]
    OBVIOUS
  <2>1. t \in Turns /\ t \notin E
    BY DEF Holders, Held
  <2>2. QED
    BY <1>4, <2>1, ReservedAt
<1> DEFINE f == Reserved
           g == Reserved'
<1>7. f \in [Turns -> Nat] /\ g \in [Turns -> Nat] /\ IsFiniteSet(A)
  BY <1>1, <1>3, BackedType, FiniteTurns
<1>8. Freed(E, b) = Total(f, F)
  BY DEF Freed
<1>9. Backed(b) = Total(f, A) /\ Backed(b)' = Total(g, A \ F)
  BY <1>5 DEF Backed
<1> HIDE DEF A, F, f, g
<1>10. /\ IsFiniteSet(F) /\ IsFiniteSet(A \ F)
       /\ Total(f, A) = Total(f, F) + Total(f, A \ F)
       /\ Total(f, F) <= Total(f, A)
  BY <1>3, <1>7, TotalParts, Zenon
<1>11. Total(f, A \ F) = Total(g, A \ F)
  BY <1>6, TotalSame DEF f, g
<1>12. /\ bucket'[b].reserved = Less(bucket[b].reserved, Total(f, F))
       /\ bucket'[b].consumed = bucket[b].consumed
  BY <1>1, <1>2, <1>8, BucketsAfterRows DEF Finish, E
<1>13. Total(f, F) \in Nat /\ Total(f, A \ F) \in Nat
  <2>1. F \in SUBSET Turns /\ (A \ F) \in SUBSET Turns
    BY <1>3
  <2>2. QED
    BY <1>7, <1>10, <2>1, TotalType
<1>14. bucket[b].reserved \in Nat
  BY <1>1 DEF TypeOK
<1>15. Less(bucket[b].reserved, Total(f, F)) = bucket[b].reserved - Total(f, F)
  <2>1. Total(f, F) <= bucket[b].reserved
    BY <1>9, <1>10, <1>13, <1>14
  <2>2. QED
    BY <1>13, <1>14, <2>1, LessIsDifference
<1>16. QED
  BY <1>9, <1>10, <1>11, <1>12, <1>13, <1>14, <1>15

\* A step that changes the amount of one reservation only.
LEMMA AmountBalance ==
    ASSUME Tables, Tables', NEW t \in Turns, \A u \in Turns : u # t => resv'[u] = resv[u],
           resv'[t].holds = resv[t].holds,
           resv'[t].status \in Active <=> resv[t].status \in Active, NEW b \in Buckets
    PROVE  /\ t \in Holders(b) => /\ Backed(b)' = Backed(b) - resv[t].reserved + resv'[t].reserved
                                  /\ resv[t].reserved <= Backed(b)
           /\ t \notin Holders(b) => Backed(b)' = Backed(b)
<1> DEFINE A == Holders(b)
           f == Reserved
           g == Reserved'
<1>1. Holders(b)' = A
  BY HoldersAfter, HoldersSubset DEF Holders
<1>2. \A u \in A : u # t => g[u] = f[u]
  BY ReservedAt, HoldersSubset
<1>3. f \in [Turns -> Nat] /\ g \in [Turns -> Nat] /\ A \in SUBSET Turns /\ IsFiniteSet(A)
  BY BackedType, HoldersSubset, FiniteTurns DEF Tables
<1>4. Backed(b) = Total(f, A) /\ Backed(b)' = Total(g, A)
  BY <1>1 DEF Backed
<1>5. f[t] = resv[t].reserved /\ g[t] = resv'[t].reserved
  BY ReservedAt
<1> HIDE DEF A, f, g
<1>6. CASE t \in A
  <2>1. \A u \in A \ {t} : g[u] = f[u]
    BY <1>2
  <2>2. Total(g, A) = Total(f, A) - f[t] + g[t]
    BY <1>3, <1>6, <2>1, TotalChange
  <2>3. f[t] <= Total(f, A)
    BY <1>3, <1>6, TotalMember
  <2>4. QED
    BY <1>4, <1>5, <1>6, <2>2, <2>3 DEF A
<1>7. CASE t \notin A
  <2>1. \A u \in A : f[u] = g[u]
    BY <1>2, <1>7
  <2>2. Total(f, A) = Total(g, A)
    BY <2>1, TotalSame
  <2>3. QED
    BY <1>4, <1>7, <2>2 DEF A
<1>8. QED
  BY <1>6, <1>7

\* A return takes the same amount from the reservation and its buckets.
LEMMA ReturnBalance ==
    ASSUME Tables, Tables', NEW t \in Turns, NEW amount \in Nat, NEW charge \in Nat,
           NEW status \in Statuses, Return(t, amount, charge, status),
           amount <= resv[t].reserved, status \in Active <=> resv[t].status \in Active,
           NEW b \in Buckets, Backed(b) <= bucket[b].reserved
    PROVE  /\ bucket'[b].reserved - Backed(b)' = bucket[b].reserved - Backed(b)
           /\ bucket'[b].reserved = IF b \in resv[t].holds THEN bucket[b].reserved - amount
                                                           ELSE bucket[b].reserved
           /\ bucket'[b].consumed = IF b \in resv[t].holds THEN bucket[b].consumed + charge
                                                           ELSE bucket[b].consumed
<1>1. TypeOK /\ TypeOK' /\ TurnRows
  BY DEF Tables
<1>2. /\ \A u \in Turns : u # t => resv'[u] = resv[u]
      /\ resv'[t].status = status /\ resv'[t].holds = resv[t].holds
      /\ resv'[t].reserved = Less(resv[t].reserved, amount)
      /\ b \in resv[t].holds => /\ bucket'[b].consumed = bucket[b].consumed + charge
                                /\ bucket'[b].reserved = Less(bucket[b].reserved, amount)
      /\ b \notin resv[t].holds => bucket'[b] = bucket[b]
  BY <1>1, ReturnRows
<1>3. resv[t].reserved \in Nat /\ bucket[b].reserved \in Nat /\ Backed(b) \in Nat
      /\ Backed(b)' \in Nat
  BY <1>1, BackedType DEF TypeOK
<1>4. resv'[t].reserved = resv[t].reserved - amount
  BY <1>2, <1>3, LessIsDifference
<1>5. /\ t \in Holders(b) => /\ Backed(b)' = Backed(b) - resv[t].reserved + resv'[t].reserved
                             /\ resv[t].reserved <= Backed(b)
      /\ t \notin Holders(b) => Backed(b)' = Backed(b)
  BY <1>2, AmountBalance
<1>6. CASE t \in Holders(b)
  <2>1. b \in resv[t].holds /\ amount <= bucket[b].reserved
    BY <1>3, <1>5, <1>6 DEF Holders
  <2>2. Less(bucket[b].reserved, amount) = bucket[b].reserved - amount
    BY <1>3, <2>1, LessIsDifference
  <2>3. QED
    BY <1>2, <1>3, <1>4, <1>5, <1>6, <2>1, <2>2
<1>7. CASE t \notin Holders(b) /\ b \in resv[t].holds
  <2>1. resv[t].status \notin Active
    BY <1>7 DEF Holders
  <2>2. amount = 0
    BY <1>1, <1>3, <2>1 DEF TurnRows
  <2>3. Less(bucket[b].reserved, amount) = bucket[b].reserved
    BY <1>3, <2>2 DEF Less
  <2>4. QED
    BY <1>2, <1>3, <1>5, <1>7, <2>2, <2>3
<1>8. CASE b \notin resv[t].holds
  <2>1. t \notin Holders(b)
    BY <1>8 DEF Holders
  <2>2. QED
    BY <1>2, <1>5, <1>8, <2>1
<1>9. QED
  BY <1>6, <1>7, <1>8

\* A feature hold adds the same amount to both.
LEMMA ReserveBalance ==
    ASSUME Tables, Tables', NEW o \in Operations, ReserveFeature(o), NEW b \in Buckets
    PROVE  bucket'[b].reserved - Backed(b)' = bucket[b].reserved - Backed(b)
<1> DEFINE t == TurnOf[o]
<1>1. /\ t \in Turns /\ resv[t].status \in Active
      /\ \A u \in Turns : u # t => resv'[u] = resv[u]
      /\ resv'[t].status = resv[t].status /\ resv'[t].holds = resv[t].holds
      /\ resv'[t].reserved = resv[t].reserved + FeatureMicro
      /\ bucket'[b].reserved = bucket[b].reserved
           + (IF b \in resv[t].holds THEN FeatureMicro ELSE 0)
  BY ReserveRows
<1>2. /\ t \in Holders(b) => Backed(b)' = Backed(b) - resv[t].reserved + resv'[t].reserved
      /\ t \notin Holders(b) => Backed(b)' = Backed(b)
  BY <1>1, AmountBalance
<1>3. t \in Holders(b) <=> b \in resv[t].holds
  BY <1>1 DEF Holders
<1>4. /\ resv[t].reserved \in Nat /\ bucket[b].reserved \in Nat /\ Backed(b) \in Nat
      /\ FeatureMicro \in Nat
  BY <1>1, BackedType, QuotaAssumption DEF Tables, TypeOK, QuotaAssumption
<1>5. QED
  BY <1>1, <1>2, <1>3, <1>4

\* An admission that finds the old hold of the turn returned, or not yet made.
Rearms(t) == resv[t].status \in Active => t \in Ends(Lapsed, "expiry")

\* Admission balances, in the period of the turn's first try.  The hold of a
\* turn that is active still is not returned, which leaves too much reserved.
LEMMA AdmitBalance ==
    ASSUME Tables, Tables', NEW t \in Turns, Admit(t), resv[t].holds \subseteq Current(t),
           NEW b \in Buckets, Backed(b) <= bucket[b].reserved
    PROVE  /\ bucket'[b].reserved - Backed(b)' >= bucket[b].reserved - Backed(b)
           /\ Rearms(t) => bucket'[b].reserved - Backed(b)' = bucket[b].reserved - Backed(b)
<1> DEFINE E == Ends(Lapsed, "expiry")
           A == Holders(b)
           F == {u \in E : b \in Held(u)}
           R == (A \ F) \ {t}
           f == Reserved
           g == Reserved'
           held == IF b \in Current(t) THEN Estimate ELSE 0
<1>1. TypeOK /\ TypeOK'
  BY DEF Tables
<1>2. E \in SUBSET Turns /\ \A u \in E : resv[u].status \in Active
  BY EndsActive DEF Lapsed
<1>3. F \in SUBSET A /\ A \in SUBSET Turns
  BY <1>2 DEF Holders, Held
<1>4. /\ \A u \in Turns \ {t} :
           /\ resv'[u].holds = resv[u].holds
           /\ u \in E => resv'[u].status \in Terminal /\ resv'[u].reserved = 0
           /\ u \notin E => resv'[u] = resv[u]
      /\ resv'[t].status = "reserved" /\ resv'[t].reserved = Estimate
      /\ resv'[t].holds = resv[t].holds \union Current(t)
      /\ bucket'[b].reserved = BucketsAfter(E)[b].reserved + held
  BY AdmitRows
<1>5. resv'[t].holds = Current(t)
  BY <1>4
<1> HIDE DEF E
<1>6. Holders(b)' = IF b \in Current(t) THEN R \union {t} ELSE R
  <2>1. ASSUME NEW u \in Turns, u # t
        PROVE  u \in Holders(b)' <=> u \in R
    <3>1. u \in Holders(b)' <=> b \in resv'[u].holds /\ resv'[u].status \in Active
      BY HoldersAfter
    <3>2. CASE u \in E
      BY <1>4, <2>1, <3>1, <3>2 DEF Holders, Held, Active, Terminal
    <3>3. CASE u \notin E
      BY <1>4, <2>1, <3>1, <3>3 DEF Holders
    <3>4. QED
      BY <3>2, <3>3
  <2>2. t \in Holders(b)' <=> b \in Current(t)
    BY <1>4, <1>5, HoldersAfter DEF Active
  <2>3. R \in SUBSET Turns /\ t \notin R /\ Holders(b)' \in SUBSET Turns
    BY <1>3, HoldersSubset
  <2> HIDE DEF R
  <2>4. QED
    BY <2>1, <2>2, <2>3
<1>7. \A u \in R : f[u] = g[u]
  <2> SUFFICES ASSUME NEW u \in R
               PROVE  f[u] = g[u]
    OBVIOUS
  <2>1. u \in Turns \ {t} /\ u \notin E
    BY DEF Holders, Held
  <2>2. QED
    BY <1>4, <2>1, ReservedAt
<1>8. f \in [Turns -> Nat] /\ g \in [Turns -> Nat] /\ IsFiniteSet(A)
  BY <1>1, <1>3, BackedType, FiniteTurns
<1>9. g[t] = Estimate /\ Estimate \in Nat /\ held \in Nat
  BY <1>4, ReservedAt, QuotaAssumption DEF QuotaAssumption
<1>10. Freed(E, b) = Total(f, F)
  BY DEF Freed
<1>11. Backed(b) = Total(f, A) /\ Backed(b)' = Total(g, Holders(b)')
  BY DEF Backed
<1>12. R \in SUBSET (A \ F) /\ R \in SUBSET Turns /\ (A \ F) \in SUBSET Turns /\ t \notin R
  BY <1>3
<1>13. Rearms(t) => A \ F = R
  BY DEF Rearms, Holders, Held, E
<1> HIDE DEF A, F, R, f, g
<1>14. /\ IsFiniteSet(F) /\ IsFiniteSet(A \ F)
       /\ Total(f, A) = Total(f, F) + Total(f, A \ F)
       /\ Total(f, F) <= Total(f, A)
  BY <1>3, <1>8, TotalParts, Zenon
<1>15. IsFiniteSet(R) /\ Total(f, R) <= Total(f, A \ F)
  BY <1>8, <1>12, <1>14, TotalParts, Zenon
<1>16. Total(f, R) = Total(g, R)
  BY <1>7, TotalSame
<1>17. Backed(b)' = Total(f, R) + held
  <2>1. CASE b \in Current(t)
    <3>1. Backed(b)' = Total(g, R \union {t})
      BY <1>6, <1>11, <2>1
    <3>2. Total(g, R \union {t}) = Total(g, R) + g[t]
      BY <1>8, <1>12, <1>15, TotalAdd
    <3>3. QED
      BY <1>9, <1>16, <2>1, <3>1, <3>2
  <2>2. CASE b \notin Current(t)
    <3>1. Backed(b)' = Total(g, R)
      BY <1>6, <1>11, <2>2
    <3>2. Total(f, R) \in Nat
      BY <1>8, <1>12, <1>15, TotalType
    <3>3. QED
      BY <1>16, <2>2, <3>1, <3>2
  <2>3. QED
    BY <2>1, <2>2
<1>18. Total(f, F) \in Nat /\ Total(f, A \ F) \in Nat /\ Total(f, R) \in Nat
  <2>1. F \in SUBSET Turns
    BY <1>3
  <2>2. QED
    BY <1>8, <1>12, <1>14, <1>15, <2>1, TotalType
<1>19. bucket[b].reserved \in Nat
  BY <1>1 DEF TypeOK
<1>20. BucketsAfter(E)[b].reserved = bucket[b].reserved - Total(f, F)
  <2>1. BucketsAfter(E)[b].reserved = Less(bucket[b].reserved, Total(f, F))
    BY <1>1, <1>2, <1>10, BucketsAfterRows
  <2>2. Total(f, F) <= bucket[b].reserved
    BY <1>11, <1>14, <1>18, <1>19
  <2>3. QED
    BY <1>18, <1>19, <2>1, <2>2, LessIsDifference
<1> HIDE DEF held
<1>21. bucket'[b].reserved - Backed(b)' = bucket[b].reserved - Total(f, F) - Total(f, R)
  <2>1. bucket'[b].reserved = bucket[b].reserved - Total(f, F) + held
    BY <1>4, <1>20
  <2>2. QED
    BY <1>9, <1>17, <1>18, <1>19, <2>1
<1>22. bucket[b].reserved - Backed(b) = bucket[b].reserved - Total(f, F) - Total(f, A \ F)
  BY <1>11, <1>14, <1>18, <1>19
<1>23. QED
  BY <1>13, <1>15, <1>18, <1>19, <1>21, <1>22

-----------------------------------------------------------------------------
(* Concurrency units *)

\* The counters are natural numbers before and after a step.
LEMMA ActiveType ==
    ASSUME TypeOK, TypeOK', NEW u \in Users
    PROVE  /\ IsFiniteSet(ActiveOf(u)) /\ IsFiniteSet(ActiveOf(u)')
           /\ Cardinality(ActiveOf(u)) \in Nat /\ Cardinality(ActiveOf(u)') \in Nat
           /\ units[u] \in Nat /\ units'[u] \in Nat
BY HoldersSubset, FiniteTurns DEF TypeOK

\* The users whose turns end get their units back.
LEMMA UnitsAfterBalance ==
    ASSUME TypeOK, NEW E \in SUBSET Turns, \A t \in E : resv[t].status \in Active,
           NEW u \in Users, Cardinality(ActiveOf(u)) <= units[u]
    PROVE  LET F == {t \in E : UserOf[t] = u} IN
           /\ UnitsAfter(E)[u] \in Nat
           /\ UnitsAfter(E)[u] <= units[u]
           /\ UnitsAfter(E)[u] - Cardinality(ActiveOf(u) \ F) = units[u] - Cardinality(ActiveOf(u))
<1> DEFINE A == ActiveOf(u)
           F == {t \in E : UserOf[t] = u}
<1>1. F \in SUBSET A /\ A \in SUBSET Turns
  BY DEF ActiveOf
<1>2. UnitsAfter(E)[u] = Less(units[u], Cardinality(F))
  BY DEF UnitsAfter
<1> HIDE DEF F, A
<1>3. IsFiniteSet(A) /\ IsFiniteSet(F) /\ Cardinality(A) \in Nat /\ Cardinality(F) \in Nat
  BY <1>1, FiniteTurns
<1>4. Cardinality(F) <= Cardinality(A)
  BY <1>1, <1>3, FS_Subset
<1>5. A \intersect F = F
  BY <1>1
<1>6. Cardinality(A \ F) = Cardinality(A) - Cardinality(F)
  BY <1>3, <1>5, FS_Difference
<1>7. units[u] \in Nat /\ Cardinality(F) <= units[u]
  <2>1. units[u] \in Nat
    BY DEF TypeOK
  <2>2. QED
    BY <1>3, <1>4, <2>1 DEF A
<1>8. UnitsAfter(E)[u] = units[u] - Cardinality(F)
  BY <1>2, <1>3, <1>7, LessIsDifference
<1>9. QED
  BY <1>3, <1>6, <1>7, <1>8 DEF A, F

\* A finish gives back the units of the turns it ends.
LEMMA FinishUnits ==
    ASSUME Tables, Tables', NEW S \in SUBSET Turns, NEW key \in Keys, Finish(S, key),
           NEW u \in Users, Cardinality(ActiveOf(u)) <= units[u]
    PROVE  /\ units'[u] - Cardinality(ActiveOf(u)') = units[u] - Cardinality(ActiveOf(u))
           /\ units'[u] <= units[u]
<1> DEFINE E == Ends(S, key)
           A == ActiveOf(u)
           F == {t \in E : UserOf[t] = u}
<1>1. TypeOK /\ TypeOK'
  BY DEF Tables
<1>2. E \in SUBSET Turns /\ \A t \in E : resv[t].status \in Active
  BY EndsActive
<1>3. \A t \in Turns : /\ t \in E => resv'[t].status \in Terminal
                       /\ t \notin E => resv'[t] = resv[t]
  BY <1>1, FinishRows
<1>4. units'[u] = UnitsAfter(E)[u]
  BY DEF Finish
<1> HIDE DEF E
<1>5. ActiveOf(u)' = A \ F
  <2>1. ASSUME NEW t \in Turns
        PROVE  t \in ActiveOf(u)' <=> t \in A \ F
    <3>1. t \in ActiveOf(u)' <=> UserOf[t] = u /\ resv'[t].status \in Active
      BY HoldersAfter
    <3>2. CASE t \in E
      BY <1>3, <3>1, <3>2 DEF ActiveOf, Active, Terminal
    <3>3. CASE t \notin E
      BY <1>3, <3>1, <3>3 DEF ActiveOf
    <3>4. QED
      BY <3>2, <3>3
  <2>2. A \in SUBSET Turns
    BY DEF ActiveOf
  <2>3. QED
    BY <2>1, <2>2, HoldersSubset
<1>6. QED
  BY <1>1, <1>2, <1>4, <1>5, UnitsAfterBalance

\* Admission takes a unit, within the limit.
LEMMA AdmitUnits ==
    ASSUME Tables, Tables', NEW t \in Turns, Admit(t),
           NEW u \in Users, Cardinality(ActiveOf(u)) <= units[u]
    PROVE  /\ units'[u] - Cardinality(ActiveOf(u)') >= units[u] - Cardinality(ActiveOf(u))
           /\ Rearms(t) => units'[u] - Cardinality(ActiveOf(u)') = units[u] - Cardinality(ActiveOf(u))
           /\ units[u] <= ConcurrencyLimit => units'[u] <= ConcurrencyLimit
<1> DEFINE E == Ends(Lapsed, "expiry")
           A == ActiveOf(u)
           F == {v \in E : UserOf[v] = u}
           R == (A \ F) \ {t}
           one == IF u = UserOf[t] THEN 1 ELSE 0
<1>1. TypeOK /\ TypeOK'
  BY DEF Tables
<1>2. E \in SUBSET Turns /\ \A v \in E : resv[v].status \in Active
  BY EndsActive DEF Lapsed
<1>3. /\ \A v \in Turns \ {t} : /\ v \in E => resv'[v].status \in Terminal
                                /\ v \notin E => resv'[v] = resv[v]
      /\ resv'[t].status = "reserved"
      /\ units'[u] = UnitsAfter(E)[u] + one
  BY AdmitRows
<1>4. UnitsAfter(E)[UserOf[t]] + 1 <= ConcurrencyLimit
  BY DEF Admit
<1> HIDE DEF E
<1>5. ActiveOf(u)' = IF u = UserOf[t] THEN R \union {t} ELSE R
  <2>1. ASSUME NEW v \in Turns, v # t
        PROVE  v \in ActiveOf(u)' <=> v \in R
    <3>1. v \in ActiveOf(u)' <=> UserOf[v] = u /\ resv'[v].status \in Active
      BY HoldersAfter
    <3>2. CASE v \in E
      BY <1>3, <2>1, <3>1, <3>2 DEF ActiveOf, Active, Terminal
    <3>3. CASE v \notin E
      BY <1>3, <2>1, <3>1, <3>3 DEF ActiveOf
    <3>4. QED
      BY <3>2, <3>3
  <2>2. t \in ActiveOf(u)' <=> u = UserOf[t]
    BY <1>3, HoldersAfter DEF Active
  <2>3. R \in SUBSET Turns /\ t \notin R /\ ActiveOf(u)' \in SUBSET Turns
    BY HoldersSubset DEF ActiveOf
  <2> HIDE DEF R
  <2>4. QED
    BY <2>1, <2>2, <2>3
<1>6. /\ UnitsAfter(E)[u] \in Nat /\ UnitsAfter(E)[u] <= units[u]
      /\ UnitsAfter(E)[u] - Cardinality(A \ F) = units[u] - Cardinality(A)
  BY <1>1, <1>2, UnitsAfterBalance
<1>7. Rearms(t) => A \ F = R
  BY DEF Rearms, ActiveOf, E
<1>8. (A \ F) \in SUBSET Turns /\ R \in SUBSET (A \ F) /\ R \in SUBSET Turns /\ A \in SUBSET Turns
      /\ t \notin R
  BY DEF ActiveOf
<1> HIDE DEF A, F, R
<1>9. /\ IsFiniteSet(R) /\ Cardinality(R) \in Nat /\ Cardinality(A \ F) \in Nat
      /\ Cardinality(A) \in Nat /\ Cardinality(R) <= Cardinality(A \ F)
  BY <1>8, FiniteTurns, FS_Subset
<1>10. Cardinality(ActiveOf(u)') = Cardinality(R) + one
  <2>1. Cardinality(R \union {t}) = Cardinality(R) + 1
    BY <1>8, <1>9, FS_AddElement
  <2>2. QED
    BY <1>5, <1>9, <2>1
<1>11. units[u] \in Nat /\ one \in Nat
  BY <1>1 DEF TypeOK
<1>12. units'[u] - Cardinality(ActiveOf(u)') = UnitsAfter(E)[u] - Cardinality(R)
  BY <1>3, <1>6, <1>9, <1>10, <1>11
<1>13. units[u] - Cardinality(ActiveOf(u)) = UnitsAfter(E)[u] - Cardinality(A \ F)
  BY <1>6 DEF A
<1>14. units[u] <= ConcurrencyLimit => units'[u] <= ConcurrencyLimit
  <2>1. ConcurrencyLimit \in Nat
    BY QuotaAssumption DEF QuotaAssumption
  <2>2. QED
    BY <1>3, <1>4, <1>6, <1>11, <2>1
<1>15. QED
  BY <1>6, <1>7, <1>9, <1>11, <1>12, <1>13, <1>14

-----------------------------------------------------------------------------
(* Which keys a turn has used before it is dispatched *)

\* The number of keys among those that can end a turn before it is dispatched.
Spent(t) == (IF "dispatch-failed" \in keys[t] THEN 1 ELSE 0)
            + (IF "expiry" \in keys[t] THEN 1 ELSE 0)

\* Each arming of a reservation is ended at most once, so the keys used are no
\* more than the armings; an undispatched turn that is active still was not
\* ended by its last failed dispatch, because the key had been used.
KeysOf(t) ==
    /\ phase[t] = "new" => keys[t] = {}
    /\ phase[t] = "admitted" =>
         Spent(t) <= failures[t] + (IF resv[t].status \in Active THEN 0 ELSE 1)
    /\ phase[t] = "undispatched" =>
         IF resv[t].status \in Active
         THEN "dispatch-failed" \in keys[t] /\ Spent(t) + 1 <= failures[t]
         ELSE Spent(t) <= failures[t]

KeysSpent == \A t \in Turns : KeysOf(t)

\* A turn nothing happened to, and one that has been dispatched.
LEMMA SameKeys ==
    ASSUME NEW t \in Turns, KeysOf(t), keys'[t] = keys[t], phase'[t] = phase[t],
           failures'[t] = failures[t], resv'[t].status \in Active <=> resv[t].status \in Active
    PROVE  KeysOf(t)'
BY DEF KeysOf, Spent

\* A turn that has been dispatched.
LEMMA DispatchedKeys ==
    ASSUME NEW t \in Turns, phase'[t] \notin {"new", "admitted", "undispatched"}
    PROVE  KeysOf(t)'
BY DEF KeysOf

\* A reservation ended by the reaper, or by the admission of another turn.
LEMMA ExpiredKeys ==
    ASSUME Tables, NEW t \in Turns, KeysOf(t), resv[t].status \in Active, "expiry" \notin keys[t],
           keys'[t] = keys[t] \union {"expiry"}, phase'[t] = phase[t],
           failures'[t] = failures[t], resv'[t].status \notin Active
    PROVE  KeysOf(t)'
<1>1. failures[t] \in Nat /\ phase[t] # "new"
  BY DEF Tables, TypeOK, TurnRows, Active
<1>2. Spent(t)' = Spent(t) + 1
  BY DEF Spent
<1>3. Spent(t) \in Nat
  BY DEF Spent
<1>4. QED
  BY <1>1, <1>2, <1>3 DEF KeysOf

\* The keys of the other turns when one is finished under any key.
LEMMA FinishKeys ==
    ASSUME Tables, NEW S \in SUBSET Turns, NEW key \in Keys, Finish(S, key), NEW t \in Turns
    PROVE  /\ t \in Ends(S, key) => /\ keys'[t] = keys[t] \union {key} /\ key \notin keys[t]
                                    /\ resv[t].status \in Active /\ resv'[t].status \notin Active
           /\ t \notin Ends(S, key) => keys'[t] = keys[t] /\ resv'[t] = resv[t]
<1>1. /\ t \in Ends(S, key) => resv'[t].status \in Terminal
      /\ t \notin Ends(S, key) => resv'[t] = resv[t]
  BY FinishRows DEF Tables
<1>2. keys' = KeysAfter(Ends(S, key), key)
  BY DEF Finish
<1>3. keys'[t] = IF t \in Ends(S, key) THEN keys[t] \union {key} ELSE keys[t]
  BY <1>2 DEF KeysAfter
<1>4. QED
  BY <1>1, <1>3, EndsActive DEF Active, Terminal

\* Admission spends the expiry keys of the lapsed turns.
LEMMA AdmitKeys ==
    ASSUME Tables, KeysSpent, NEW t \in Turns, Admit(t)
    PROVE  KeysSpent'
<1> DEFINE E == Ends(Lapsed, "expiry")
<1>1. /\ phase[t] \in {"new", "undispatched"} /\ phase' = [phase EXCEPT ![t] = "admitted"]
      /\ failures' = failures
      /\ resv[t].status = "none" \/ Rearmable(t)
  BY DEF Admit
<1>2. E \in SUBSET Turns /\ \A u \in E : resv[u].status \in Active /\ "expiry" \notin keys[u]
  BY EndsActive DEF Lapsed
<1>3. /\ \A u \in Turns \ {t} : /\ u \in E => resv'[u].status \in Terminal
                                /\ u \notin E => resv'[u] = resv[u]
      /\ resv'[t].status = "reserved" /\ keys' = KeysAfter(E, "expiry")
  BY AdmitRows
<1> HIDE DEF E
<1>4. \A u \in Turns : keys'[u] = IF u \in E THEN keys[u] \union {"expiry"} ELSE keys[u]
  BY <1>3 DEF KeysAfter
<1>5. phase'[t] = "admitted" /\ \A u \in Turns : u # t => phase'[u] = phase[u]
  BY <1>1 DEF Tables, TypeOK
<1>6. ASSUME NEW u \in Turns
      PROVE  KeysOf(u)'
  <2>0. KeysOf(u)
    BY DEF KeysSpent
  <2>1. CASE u # t /\ u \in E
    BY <1>1, <1>2, <1>3, <1>4, <1>5, <2>0, <2>1, ExpiredKeys DEF Terminal, Active
  <2>2. CASE u # t /\ u \notin E
    BY <1>1, <1>3, <1>4, <1>5, <2>0, <2>2, SameKeys
  <2>3. CASE u = t
    <3>1. failures[t] \in Nat
      BY DEF Tables, TypeOK
    <3>2. CASE phase[t] = "new"
      <4>1. resv[t].status = "none" /\ keys[t] = {} /\ t \notin E
        BY <1>2, <2>0, <2>3, <3>2 DEF Tables, TurnRows, KeysOf, Active
      <4>2. keys'[t] = {} /\ failures'[t] = failures[t]
        BY <1>1, <1>4, <4>1
      <4>3. QED
        BY <1>3, <1>5, <2>3, <3>1, <4>2 DEF KeysOf, Spent, Active
    <3>3. CASE phase[t] = "undispatched"
      <4>1. Spent(t)' <= failures[t]
        <5>1. Spent(t) \in Nat /\ Spent(t) <= failures[t]
          BY <2>0, <2>3, <3>1, <3>3 DEF KeysOf, Spent
        <5>2. CASE t \in E
          <6>1. Spent(t) + 1 <= failures[t]
            BY <1>2, <2>0, <2>3, <3>3, <5>2 DEF KeysOf
          <6>2. Spent(t)' = Spent(t) + 1
            <7>1. keys'[t] = keys[t] \union {"expiry"} /\ "expiry" \notin keys[t]
              BY <1>2, <1>4, <5>2
            <7>2. QED
              BY <7>1 DEF Spent
          <6>3. QED
            BY <6>1, <6>2
        <5>3. CASE t \notin E
          BY <1>4, <5>1, <5>3 DEF Spent
        <5>4. QED
          BY <5>2, <5>3
      <4>2. QED
        BY <1>1, <1>3, <1>5, <2>3, <3>1, <4>1 DEF KeysOf, Active
    <3>4. QED
      BY <1>1, <3>2, <3>3
  <2>4. QED
    BY <2>1, <2>2, <2>3
<1>7. QED
  BY <1>6 DEF KeysSpent

\* A finish of the turn itself, which moves on past its dispatch.
LEMMA FinishedKeys ==
    ASSUME Tables, KeysSpent, NEW t \in Turns, NEW S \in SUBSET {t}, NEW key \in Keys,
           Finish(S, key), failures' = failures,
           phase'[t] \notin {"new", "admitted", "undispatched"},
           \A u \in Turns : u # t => phase'[u] = phase[u]
    PROVE  KeysSpent'
<1>1. S \in SUBSET Turns
  OBVIOUS
<1>2. ASSUME NEW u \in Turns
      PROVE  KeysOf(u)'
  <2>1. CASE u = t
    BY <2>1, DispatchedKeys
  <2>2. CASE u # t
    <3>1. u \notin Ends(S, key)
      BY <2>2 DEF Ends
    <3>2. keys'[u] = keys[u] /\ resv'[u] = resv[u]
      BY <1>1, <3>1, FinishKeys
    <3>3. QED
      BY <2>2, <3>2, SameKeys DEF KeysSpent
  <2>3. QED
    BY <2>1, <2>2
<1>3. QED
  BY <1>2 DEF KeysSpent

\* Steps without a finish.
LEMMA UnfinishedKeys ==
    ASSUME Tables, KeysSpent, keys' = keys, failures' = failures,
           \A u \in Turns : resv'[u].status \in Active <=> resv[u].status \in Active,
           \A u \in Turns : phase'[u] \in {phase[u], "queued", "running", "done"}
    PROVE  KeysSpent'
<1>1. ASSUME NEW u \in Turns
      PROVE  KeysOf(u)'
  <2>1. CASE phase'[u] = phase[u]
    BY <2>1, SameKeys DEF KeysSpent
  <2>2. CASE phase'[u] # phase[u]
    BY <2>2, DispatchedKeys
  <2>3. QED
    BY <2>1, <2>2
<1>2. QED
  BY <1>1 DEF KeysSpent

\* A failed dispatch spends its key, or finds it spent.
LEMMA DispatchFailsKeys ==
    ASSUME Tables, KeysSpent, NEW t \in Turns, DispatchFails(t)
    PROVE  KeysSpent'
<1>1. /\ phase[t] = "admitted" /\ phase' = [phase EXCEPT ![t] = "undispatched"]
      /\ failures' = [failures EXCEPT ![t] = @ + 1]
      /\ Finish({t}, "dispatch-failed")
  BY DEF DispatchFails
<1>2. /\ phase'[t] = "undispatched" /\ failures'[t] = failures[t] + 1 /\ failures[t] \in Nat
      /\ \A u \in Turns : u # t => phase'[u] = phase[u] /\ failures'[u] = failures[u]
  BY <1>1 DEF Tables, TypeOK
<1>3. {t} \in SUBSET Turns /\ "dispatch-failed" \in Keys
  BY KeyNames
<1>4. ASSUME NEW u \in Turns
      PROVE  KeysOf(u)'
  <2>0. KeysOf(u)
    BY DEF KeysSpent
  <2>1. CASE u # t
    <3>1. u \notin Ends({t}, "dispatch-failed")
      BY <2>1 DEF Ends
    <3>2. QED
      BY <1>1, <1>2, <1>3, <2>0, <2>1, <3>1, FinishKeys, SameKeys
  <2>2. CASE u = t /\ t \in Ends({t}, "dispatch-failed")
    <3>1. /\ keys'[t] = keys[t] \union {"dispatch-failed"} /\ "dispatch-failed" \notin keys[t]
          /\ resv[t].status \in Active /\ resv'[t].status \notin Active
      BY <1>1, <1>3, <2>2, FinishKeys
    <3>2. QED
      BY <1>1, <1>2, <2>0, <2>2, <3>1 DEF KeysOf, Spent
  <2>3. CASE u = t /\ t \notin Ends({t}, "dispatch-failed")
    <3>1. keys'[t] = keys[t] /\ resv'[t] = resv[t]
      BY <1>1, <1>3, <2>3, FinishKeys
    <3>2. resv[t].status \in Active => "dispatch-failed" \in keys[t]
      BY <2>3 DEF Ends
    <3>3. QED
      BY <1>1, <1>2, <2>0, <2>3, <3>1, <3>2 DEF KeysOf, Spent
  <2>4. QED
    BY <2>1, <2>2, <2>3
<1>5. QED
  BY <1>4 DEF KeysSpent

\* Every step.
LEMMA StepKeys ==
    ASSUME Tables, KeysSpent, [Next]_vars
    PROVE  KeysSpent'
<1>1. ASSUME NEW t \in Turns, TurnStep(t)
      PROVE  KeysSpent'
  <2>0. {t} \in SUBSET {t} /\ ({t} \intersect Lapsed) \in SUBSET {t}
    OBVIOUS
  <2>1. CASE Admit(t)
    BY <2>1, AdmitKeys
  <2>2. CASE AdmitDuplicate(t)
    <3>1. /\ phase[t] = "undispatched" /\ phase' = [phase EXCEPT ![t] = "admitted"]
          /\ keys' = keys /\ failures' = failures /\ resv' = resv
      BY <2>2 DEF AdmitDuplicate
    <3>2. ASSUME NEW u \in Turns
          PROVE  KeysOf(u)'
      <4>1. CASE u = t
        <5>1. phase'[t] = "admitted" /\ failures[t] \in Nat
          BY <3>1 DEF Tables, TypeOK
        <5>2. KeysOf(t)
          BY DEF KeysSpent
        <5>3. QED
          BY <3>1, <4>1, <5>1, <5>2 DEF KeysOf, Spent
      <4>2. CASE u # t
        <5>1. phase'[u] = phase[u]
          BY <3>1, <4>2 DEF Tables, TypeOK
        <5>2. QED
          BY <3>1, <5>1, SameKeys DEF KeysSpent
      <4>3. QED
        BY <4>1, <4>2
    <3>3. QED
      BY <3>2 DEF KeysSpent
  <2>3. CASE Dispatch(t)
    <3>1. phase' = [phase EXCEPT ![t] = "queued"] /\ keys' = keys /\ failures' = failures
          /\ resv' = resv
      BY <2>3 DEF Dispatch
    <3>2. QED
      BY <3>1, UnfinishedKeys DEF Tables, TypeOK
  <2>4. CASE DispatchFails(t)
    BY <2>4, DispatchFailsKeys
  <2>5. CASE Begin(t)
    <3>1. phase[t] = "queued" /\ failures' = failures
      BY <2>5 DEF Begin
    <3>2. CASE resv[t].status \in Active /\ resv[t].lease = "live"
      <4>1. /\ resv' = [resv EXCEPT ![t].status = "running"]
            /\ phase' = [phase EXCEPT ![t] = "running"] /\ keys' = keys
        BY <2>5, <3>2 DEF Begin
      <4>2. \A u \in Turns : resv'[u].status \in Active <=> resv[u].status \in Active
        BY <3>2, <4>1, StatusKeepsRows DEF Statuses, Active
      <4>3. QED
        BY <3>1, <4>1, <4>2, UnfinishedKeys DEF Tables, TypeOK
    <3>3. CASE ~(resv[t].status \in Active /\ resv[t].lease = "live")
      <4>1. /\ Finish({t} \intersect Lapsed, "begin-expiry")
            /\ phase' = [phase EXCEPT ![t] = "failing"]
        BY <2>5, <3>3 DEF Begin
      <4>2. phase'[t] = "failing" /\ \A u \in Turns : u # t => phase'[u] = phase[u]
        BY <4>1 DEF Tables, TypeOK
      <4>3. QED
        BY <2>0, <3>1, <4>1, <4>2, KeyNames, FinishedKeys
    <3>4. QED
      BY <3>2, <3>3
  <2>6. CASE Heartbeat(t)
    <3>1. /\ Finish({t} \intersect Lapsed, "heartbeat-expiry") /\ phase' = phase
          /\ phase[t] = "running" /\ failures' = failures
      BY <2>6 DEF Heartbeat
    <3>2. QED
      BY <2>0, <3>1, KeyNames, FinishedKeys
  <2>7. CASE FinishTurn(t) \/ WorkerCancelled(t)
    <3>1. /\ \E key \in {"turn-finished", "worker-cancelled"} : Finish({t}, key)
          /\ phase' = [phase EXCEPT ![t] = "done"] /\ failures' = failures
      BY <2>7 DEF FinishTurn, WorkerCancelled
    <3>2. phase'[t] = "done" /\ \A u \in Turns : u # t => phase'[u] = phase[u]
      BY <3>1 DEF Tables, TypeOK
    <3>3. QED
      BY <2>0, <3>1, <3>2, KeyNames, FinishedKeys
  <2>8. CASE ExecutionLost(t)
    <3>1. /\ \E p \in {"queued", "done"} : phase' = [phase EXCEPT ![t] = p]
          /\ keys' = keys /\ failures' = failures /\ resv' = resv
      BY <2>8 DEF ExecutionLost
    <3>2. QED
      BY <3>1, UnfinishedKeys DEF Tables, TypeOK
  <2>9. CASE LeaseLapses(t)
    <3>1. /\ resv' = [resv EXCEPT ![t].lease = "lapsed"]
          /\ phase' = phase /\ keys' = keys /\ failures' = failures
      BY <2>9 DEF LeaseLapses
    <3>2. \A u \in Turns : resv'[u].status \in Active <=> resv[u].status \in Active
      BY <3>1, LeaseKeepsRows
    <3>3. QED
      BY <3>1, <3>2, UnfinishedKeys
  <2>10. QED
    BY <1>1, <2>1, <2>2, <2>3, <2>4, <2>5, <2>6, <2>7, <2>8, <2>9 DEF TurnStep
<1>2. ASSUME NEW o \in Operations, OperationStep(o)
      PROVE  KeysSpent'
  <2>1. keys' = keys /\ failures' = failures /\ phase' = phase
    BY <1>2 DEF OperationStep, StartOperation, ReserveFeature, ReleaseFeature, ReportPending, Charge
  <2>2. ASSUME NEW u \in Turns
        PROVE  resv'[u].status \in Active <=> resv[u].status \in Active
    <3> DEFINE t == TurnOf[o]
    <3>1. CASE StartOperation(o)
      BY <3>1 DEF StartOperation
    <3>2. CASE ReserveFeature(o)
      BY <3>2, ReserveRows
    <3>3. CASE ReleaseFeature(o)
      <4>1. PICK amount \in Nat : Return(t, amount, 0, resv[t].status)
        BY <3>3, ReleaseReturns
      <4>2. t \in Turns /\ resv[t].status \in Statuses /\ TypeOK
        BY <3>3, ReleaseReturns DEF Tables
      <4>3. resv'[t].status = resv[t].status /\ \A v \in Turns : v # t => resv'[v] = resv[v]
        BY <4>1, <4>2, ReturnRows
      <4>4. QED
        BY <4>3
    <3>4. CASE ReportPending(o)
      <4> DEFINE v == IF resv[t].status \in Terminal THEN resv[t].status ELSE "settling"
      <4>1. op[o].state = "started" /\ resv' = [resv EXCEPT ![t].status = v]
        BY <3>4 DEF ReportPending
      <4>2. /\ t \in Turns /\ resv[t].status \in Active \union Terminal
            /\ Active \intersect Terminal = {} /\ "none" \notin Active \union Terminal
        BY <4>1, ReportedTurn
      <4>3. /\ v \in Statuses /\ (v = "none" <=> resv[t].status = "none")
            /\ (v \in Active <=> resv[t].status \in Active)
        BY <4>2 DEF Statuses, Active, Terminal
      <4> HIDE DEF v
      <4>4. resv'[t].status = v /\ \A w \in Turns : w # t => resv'[w] = resv[w]
        BY <4>1, <4>2, <4>3, StatusKeepsRows
      <4>5. QED
        BY <4>3, <4>4
    <3>5. ASSUME NEW c \in Credits, Charge(o, c)
          PROVE  resv'[u].status \in Active <=> resv[u].status \in Active
      <4>1. PICK status \in Statuses : /\ Return(t, Covered(o, c), c, status)
                                       /\ status \in Active <=> resv[t].status \in Active
        BY <3>5, ChargeReturns
      <4>2. t \in Turns /\ c \in Nat /\ Covered(o, c) \in Nat /\ TypeOK
        BY <3>5, ChargeReturns DEF Tables
      <4>3. resv'[t].status = status /\ \A v \in Turns : v # t => resv'[v] = resv[v]
        BY <4>1, <4>2, ReturnRows
      <4>4. QED
        BY <4>1, <4>3
    <3>6. QED
      BY <1>2, <3>1, <3>2, <3>3, <3>4, <3>5 DEF OperationStep
  <2>3. QED
    BY <2>1, <2>2, UnfinishedKeys
<1>3. CASE NextPeriod
  BY <1>3, UnfinishedKeys DEF NextPeriod
<1>4. CASE Sweep
  <2>1. /\ Finish(Lapsed, "expiry") /\ phase' = phase /\ failures' = failures
        /\ Lapsed \in SUBSET Turns
    BY <1>4 DEF Sweep, Lapsed
  <2>2. ASSUME NEW u \in Turns
        PROVE  KeysOf(u)'
    <3>1. KeysOf(u)
      BY DEF KeysSpent
    <3>2. CASE u \in Ends(Lapsed, "expiry")
      BY <2>1, <3>1, <3>2, KeyNames, FinishKeys, ExpiredKeys
    <3>3. CASE u \notin Ends(Lapsed, "expiry")
      BY <2>1, <3>1, <3>3, KeyNames, FinishKeys, SameKeys
    <3>4. QED
      BY <3>2, <3>3
  <2>3. QED
    BY <2>2 DEF KeysSpent
<1>5. CASE UNCHANGED vars
  BY <1>5, UnfinishedKeys DEF vars
<1>6. QED
  BY <1>1, <1>2, <1>3, <1>4, <1>5 DEF Next

\* A turn is dispatched at most three times.
TwoFailures == \A t \in Turns : MaxDispatchFailures[t] <= 2

\* Then an admission that finds the turn active finds its expiry key unused,
\* and the expiry it begins with returns the old hold.
LEMMA AdmitRearms ==
    ASSUME Tables, KeysSpent, TwoFailures, NEW t \in Turns, Admit(t)
    PROVE  Rearms(t)
<1> SUFFICES ASSUME resv[t].status \in Active
             PROVE  t \in Ends(Lapsed, "expiry")
  BY DEF Rearms
<1>1. phase[t] \in {"new", "undispatched"} /\ (resv[t].status = "none" \/ Rearmable(t))
  BY DEF Admit
<1>2. t \in Lapsed
  BY <1>1 DEF Rearmable, Active
<1>3. phase[t] = "undispatched"
  BY <1>1 DEF Tables, TurnRows, Active
<1>4. failures[t] <= 2 /\ failures[t] \in Nat
  BY Bounds DEF Tables, TypeOK, TwoFailures
<1>5. "dispatch-failed" \in keys[t] /\ Spent(t) + 1 <= failures[t]
  BY <1>3 DEF KeysSpent, KeysOf
<1>6. "expiry" \notin keys[t]
  BY <1>4, <1>5 DEF Spent
<1>7. QED
  BY <1>2, <1>6 DEF Ends

\* A retried command comes in the period of the first try.
RetriedInPeriod == \A t \in Turns : Admit(t) => resv[t].holds \subseteq Current(t)

\* The buckets cover what the active reservations hold, and no step makes the
\* cover smaller; it stays the same unless an admission finds its turn active
\* after the key of its expiry has been used.
LEMMA StepBalance ==
    ASSUME Tables, Tables', [Next]_vars, RetriedInPeriod, NEW b \in Buckets,
           Backed(b) <= bucket[b].reserved
    PROVE  /\ bucket'[b].reserved - Backed(b)' >= bucket[b].reserved - Backed(b)
           /\ (\A t \in Turns : Admit(t) => Rearms(t)) =>
                bucket'[b].reserved - Backed(b)' = bucket[b].reserved - Backed(b)
<1> DEFINE Same == bucket'[b].reserved - Backed(b)' = bucket[b].reserved - Backed(b)
<1>0. /\ Backed(b) \in Nat /\ Backed(b)' \in Nat
      /\ bucket[b].reserved \in Nat /\ bucket'[b].reserved \in Nat
  BY BackedType DEF Tables
<1>1. CASE KeepsHoldings
  <2>1. bucket' = bucket /\ Backed(b)' = Backed(b)
    BY <1>1, QuietBalance DEF KeepsHoldings
  <2>2. QED
    BY <1>0, <2>1
<1>2. CASE Finishes
  <2>1. Same
    BY <1>2, FinishBalance DEF Finishes
  <2>2. QED
    BY <1>0, <2>1
<1>3. ASSUME NEW t \in Turns, Admit(t)
      PROVE  /\ bucket'[b].reserved - Backed(b)' >= bucket[b].reserved - Backed(b)
             /\ Rearms(t) => Same
  BY <1>3, AdmitBalance DEF RetriedInPeriod
<1>4. ASSUME NEW o \in Operations, ReserveFeature(o)
      PROVE  Same
  BY <1>4, ReserveBalance
<1>5. ASSUME NEW o \in Operations, ReleaseFeature(o)
      PROVE  Same
  <2>1. /\ TurnOf[o] \in Turns /\ resv[TurnOf[o]].status \in Statuses
        /\ \E amount \in Nat : /\ amount <= resv[TurnOf[o]].reserved
                               /\ Return(TurnOf[o], amount, 0, resv[TurnOf[o]].status)
    BY <1>5, ReleaseReturns
  <2>2. QED
    BY <2>1, ReturnBalance
<1>6. ASSUME NEW o \in Operations, NEW c \in Credits, Charge(o, c)
      PROVE  Same
  <2>1. /\ TurnOf[o] \in Turns /\ c \in Nat /\ Covered(o, c) \in Nat
        /\ Covered(o, c) <= resv[TurnOf[o]].reserved
        /\ \E status \in Statuses :
             /\ Return(TurnOf[o], Covered(o, c), c, status)
             /\ status \in Active <=> resv[TurnOf[o]].status \in Active
    BY <1>6, ChargeReturns
  <2>2. QED
    BY <2>1, ReturnBalance
<1> HIDE DEF Same
<1>7. Same => bucket'[b].reserved - Backed(b)' >= bucket[b].reserved - Backed(b)
  BY <1>0 DEF Same
<1>8. QED
  BY <1>1, <1>2, <1>3, <1>4, <1>5, <1>6, <1>7, StepKinds DEF Same

\* The same for the units, which stay within the limit.
LEMMA StepUnits ==
    ASSUME Tables, Tables', [Next]_vars, NEW u \in Users, Cardinality(ActiveOf(u)) <= units[u],
           units[u] <= ConcurrencyLimit
    PROVE  /\ (\A t \in Turns : Admit(t) => Rearms(t)) =>
                units'[u] - Cardinality(ActiveOf(u)') = units[u] - Cardinality(ActiveOf(u))
           /\ units'[u] <= ConcurrencyLimit
<1> DEFINE Same == units'[u] - Cardinality(ActiveOf(u)') = units[u] - Cardinality(ActiveOf(u))
<1>0. /\ Cardinality(ActiveOf(u)) \in Nat /\ Cardinality(ActiveOf(u)') \in Nat
      /\ units[u] \in Nat /\ units'[u] \in Nat /\ ConcurrencyLimit \in Nat
  BY ActiveType, QuotaAssumption DEF Tables, QuotaAssumption
<1>1. ASSUME units' = units, \A t \in Turns : resv'[t].status \in Active <=> resv[t].status \in Active
      PROVE  Same /\ units'[u] <= ConcurrencyLimit
  <2>1. ActiveOf(u)' = ActiveOf(u)
    BY <1>1 DEF ActiveOf
  <2>2. QED
    BY <1>0, <1>1, <2>1
<1>2. CASE KeepsHoldings
  BY <1>1, <1>2 DEF KeepsHoldings
<1>3. CASE Finishes
  <2>1. Same /\ units'[u] <= units[u]
    BY <1>3, FinishUnits DEF Finishes
  <2>2. QED
    BY <1>0, <2>1
<1>4. ASSUME NEW t \in Turns, Admit(t)
      PROVE  (Rearms(t) => Same) /\ units'[u] <= ConcurrencyLimit
  BY <1>4, AdmitUnits
<1>5. ASSUME NEW o \in Operations, ReserveFeature(o)
      PROVE  Same /\ units'[u] <= ConcurrencyLimit
  <2>1. units' = units
    BY <1>5 DEF ReserveFeature
  <2>2. \A t \in Turns : resv'[t].status \in Active <=> resv[t].status \in Active
    BY <1>5, ReserveRows
  <2>3. QED
    BY <1>1, <2>1, <2>2
<1>6. ASSUME NEW o \in Operations, ReleaseFeature(o)
      PROVE  Same /\ units'[u] <= ConcurrencyLimit
  <2>1. units' = units
    BY <1>6 DEF ReleaseFeature
  <2>2. /\ TurnOf[o] \in Turns /\ resv[TurnOf[o]].status \in Statuses /\ TypeOK
        /\ \E amount \in Nat : Return(TurnOf[o], amount, 0, resv[TurnOf[o]].status)
    BY <1>6, ReleaseReturns DEF Tables
  <2>3. \A t \in Turns : resv'[t].status \in Active <=> resv[t].status \in Active
    BY <2>2, ReturnRows
  <2>4. QED
    BY <1>1, <2>1, <2>3
<1>7. ASSUME NEW o \in Operations, NEW c \in Credits, Charge(o, c)
      PROVE  Same /\ units'[u] <= ConcurrencyLimit
  <2>1. units' = units
    BY <1>7 DEF Charge
  <2>2. /\ TurnOf[o] \in Turns /\ c \in Nat /\ Covered(o, c) \in Nat /\ TypeOK
        /\ \E status \in Statuses :
             /\ Return(TurnOf[o], Covered(o, c), c, status)
             /\ status \in Active <=> resv[TurnOf[o]].status \in Active
    BY <1>7, ChargeReturns DEF Tables
  <2>3. \A t \in Turns : resv'[t].status \in Active <=> resv[t].status \in Active
    BY <2>2, ReturnRows
  <2>4. QED
    BY <1>1, <2>1, <2>3
<1> HIDE DEF Same
<1>8. QED
  BY <1>2, <1>3, <1>4, <1>5, <1>6, <1>7, StepKinds DEF Same

\* No key is spent at the start.
LEMMA InitKeys ==
    ASSUME Init
    PROVE  KeysSpent
BY DEF Init, KeysSpent, KeysOf

\* Nothing is held at the start.
LEMMA InitBalance ==
    ASSUME Init
    PROVE  HoldsAreBacked /\ UnitsMatchActive
<1>1. \A b \in Buckets : {t \in Turns : b \in resv[t].holds /\ resv[t].status \in Active} = {}
  BY DEF Init, NoReservation
<1>2. HoldsAreBacked
  BY <1>1, TotalEmpty DEF Init, HoldsAreBacked
<1>3. \A u \in Users : {t \in Turns : UserOf[t] = u /\ resv[t].status \in Active} = {}
  BY DEF Init, NoReservation, Active
<1>4. UnitsMatchActive
  <2>1. ConcurrencyLimit \in Nat /\ \A u \in Users : units[u] = 0
    BY QuotaAssumption DEF Init, QuotaAssumption
  <2>2. ASSUME NEW u \in Users
        PROVE  Cardinality({t \in Turns : UserOf[t] = u /\ resv[t].status \in Active}) = 0
    BY <1>3, FS_EmptySet
  <2>3. QED
    BY <2>1, <2>2 DEF UnitsMatchActive
<1>5. QED
  BY <1>2, <1>4

\* The keys spent in every state.
LEMMA KeysInvariant == Spec => [](Tables /\ KeysSpent)
<1>1. Init => Tables /\ KeysSpent
  BY InitTables, InitKeys
<1>2. Tables /\ KeysSpent /\ [Next]_vars => Tables' /\ KeysSpent'
  BY StepKeepsTables, StepKeys
<1>3. QED
  BY <1>1, <1>2, PTL DEF Spec

\* If a turn is dispatched at most three times and retried within its period,
\* the buckets hold exactly what the active reservations hold, in whatever order
\* finishes, expiries, reports and releases arrive.
THEOREM HoldsBalance ==
    ASSUME TwoFailures
    PROVE  Spec /\ [][RetriedInPeriod]_vars => []HoldsAreBacked
<1>1. Init => HoldsAreBacked
  BY InitBalance
<1>2. ASSUME Tables, KeysSpent, Tables', HoldsAreBacked, [Next]_vars, [RetriedInPeriod]_vars
      PROVE  HoldsAreBacked'
  <2>1. CASE UNCHANGED vars
    BY <1>2, <2>1 DEF vars, HoldsAreBacked, Reserved
  <2>2. CASE RetriedInPeriod
    <3>1. \A t \in Turns : Admit(t) => Rearms(t)
      BY <1>2, AdmitRearms
    <3>2. ASSUME NEW b \in Buckets
          PROVE  bucket'[b].reserved = Backed(b)'
      <4>1. bucket[b].reserved = Backed(b)
        BY <1>2 DEF HoldsAreBacked, Backed, Holders
      <4>2. /\ Backed(b) \in Nat /\ Backed(b)' \in Nat
            /\ bucket[b].reserved \in Nat /\ bucket'[b].reserved \in Nat
        BY <1>2, BackedType DEF Tables
      <4>3. bucket'[b].reserved - Backed(b)' = bucket[b].reserved - Backed(b)
        BY <1>2, <2>2, <3>1, <4>1, <4>2, StepBalance
      <4>4. QED
        BY <4>1, <4>2, <4>3
    <3>3. QED
      BY <3>2 DEF HoldsAreBacked, Backed, Holders
  <2>3. QED
    BY <1>2, <2>1, <2>2
<1>3. QED
  BY <1>1, <1>2, KeysInvariant, PTL DEF Spec

\* If a turn is dispatched at most three times, a user's counter is the number
\* of the user's active reservations, which the policy's limit therefore bounds.
THEOREM UnitsBalance ==
    ASSUME TwoFailures
    PROVE  Spec => []UnitsMatchActive
<1>1. Init => UnitsMatchActive
  BY InitBalance
<1>2. ASSUME Tables, KeysSpent, Tables', UnitsMatchActive, [Next]_vars
      PROVE  UnitsMatchActive'
  <2>1. \A t \in Turns : Admit(t) => Rearms(t)
    BY <1>2, AdmitRearms
  <2>2. ASSUME NEW u \in Users
        PROVE  units'[u] = Cardinality(ActiveOf(u)') /\ units'[u] <= ConcurrencyLimit
    <3>1. units[u] = Cardinality(ActiveOf(u)) /\ units[u] <= ConcurrencyLimit
      BY <1>2 DEF UnitsMatchActive, ActiveOf
    <3>2. /\ Cardinality(ActiveOf(u)) \in Nat /\ Cardinality(ActiveOf(u)') \in Nat
          /\ units[u] \in Nat /\ units'[u] \in Nat
      BY <1>2, ActiveType DEF Tables
    <3>3. /\ units'[u] - Cardinality(ActiveOf(u)') = units[u] - Cardinality(ActiveOf(u))
          /\ units'[u] <= ConcurrencyLimit
      BY <1>2, <2>1, <3>1, <3>2, StepUnits
    <3>4. QED
      BY <3>1, <3>2, <3>3
  <2>3. QED
    BY <2>2 DEF UnitsMatchActive, ActiveOf
<1>3. QED
  BY <1>1, <1>2, KeysInvariant, PTL DEF Spec

-----------------------------------------------------------------------------
(* Charges *)

Prices == [o \in Operations |-> op[o].credits]

\* What an operation cost beyond what it took from the hold.
Overruns == [o \in Operations |-> Less(op[o].credits, op[o].released)]

ChargedTo(b) == {o \in Operations : b \in op[o].to}

\* Prices and overruns can be summed.
LEMMA ChargesType ==
    ASSUME TypeOK, TypeOK', NEW b
    PROVE  /\ Prices \in [Operations -> Nat] /\ Prices' \in [Operations -> Nat]
           /\ Overruns \in [Operations -> Nat] /\ Overruns' \in [Operations -> Nat]
           /\ ChargedTo(b) \in SUBSET Operations /\ ChargedTo(b)' \in SUBSET Operations
           /\ IsFiniteSet(ChargedTo(b)) /\ IsFiniteSet(ChargedTo(b)')
           /\ Total(Prices, ChargedTo(b)) \in Nat /\ Total(Overruns, ChargedTo(b)) \in Nat
           /\ Total(Overruns', ChargedTo(b)') \in Nat
<1>1. Prices \in [Operations -> Nat] /\ Prices' \in [Operations -> Nat]
  BY DEF TypeOK, Prices
<1>2. Overruns \in [Operations -> Nat] /\ Overruns' \in [Operations -> Nat]
  <2>1. \A o \in Operations : /\ Less(op[o].credits, op[o].released) \in Nat
                              /\ Less(op'[o].credits, op'[o].released) \in Nat
    BY LessIsDifference DEF TypeOK
  <2>2. Overruns' = [o \in Operations |-> Less(op'[o].credits, op'[o].released)]
    BY DEF Overruns, Less
  <2>3. QED
    BY <2>1, <2>2 DEF Overruns
<1>3. ChargedTo(b) \in SUBSET Operations /\ ChargedTo(b)' \in SUBSET Operations
  BY DEF ChargedTo
<1>4. IsFiniteSet(ChargedTo(b)) /\ IsFiniteSet(ChargedTo(b)')
  BY <1>3, QuotaAssumption, FS_Subset DEF QuotaAssumption
<1>5. QED
  BY <1>1, <1>2, <1>3, <1>4, TotalType

\* Without a charge the sums stay as they are.
LEMMA UnchargedSums ==
    ASSUME KeepsCharged, NEW b
    PROVE  Prices' = Prices /\ Overruns' = Overruns /\ ChargedTo(b)' = ChargedTo(b)
BY DEF KeepsCharged, Prices, Overruns, ChargedTo, Less

\* A charge adds the price of its operation, once.
LEMMA ChargedSums ==
    ASSUME Tables, Tables', NEW o \in Operations, NEW c \in Credits, Charge(o, c), NEW b
    PROVE  LET held == b \in resv[TurnOf[o]].holds IN
           /\ Total(Prices', ChargedTo(b)') = Total(Prices, ChargedTo(b)) + (IF held THEN c ELSE 0)
           /\ Total(Overruns', ChargedTo(b)') =
                Total(Overruns, ChargedTo(b)) + (IF held THEN Less(c, Covered(o, c)) ELSE 0)
<1> DEFINE held == b \in resv[TurnOf[o]].holds
           A == ChargedTo(b)
<1>1. /\ c \in Nat /\ Covered(o, c) \in Nat /\ op[o].state # "settled"
  BY ChargeReturns
<1>2. /\ \A q \in Operations : q # o => op'[q] = op[q]
      /\ op'[o].to = resv[TurnOf[o]].holds /\ op'[o].credits = c
      /\ op'[o].released = Covered(o, c)
  BY <1>1, ChargeEntry
<1>3. o \notin A
  BY <1>1 DEF Tables, OperationRows, ChargedTo
<1>4. ChargedTo(b)' = IF held THEN A \union {o} ELSE A
  <2>1. \A q \in Operations : q \in ChargedTo(b)' <=> b \in op'[q].to
    BY DEF ChargedTo
  <2>2. \A q \in Operations : q \in A <=> b \in op[q].to
    BY DEF ChargedTo
  <2>3. A \in SUBSET Operations /\ ChargedTo(b)' \in SUBSET Operations
    BY DEF ChargedTo
  <2> HIDE DEF A
  <2>4. \A q \in Operations : q \in ChargedTo(b)' <=> (q \in A \/ (q = o /\ held))
    BY <1>2, <1>3, <2>1, <2>2
  <2> HIDE DEF held
  <2>5. QED
    BY <2>3, <2>4
<1>5. /\ \A q \in Operations : Prices[q] = op[q].credits /\ Prices'[q] = op'[q].credits
      /\ \A q \in Operations : /\ Overruns[q] = Less(op[q].credits, op[q].released)
                               /\ Overruns'[q] = Less(op'[q].credits, op'[q].released)
  BY DEF Prices, Overruns, Less
<1>6. \A q \in A : Prices'[q] = Prices[q] /\ Overruns'[q] = Overruns[q]
  BY <1>2, <1>3, <1>5 DEF ChargedTo
<1>7. Prices'[o] = c /\ Overruns'[o] = Less(c, Covered(o, c))
  BY <1>2, <1>5
<1>8. /\ Prices' \in [Operations -> Nat] /\ Overruns' \in [Operations -> Nat]
      /\ A \in SUBSET Operations /\ IsFiniteSet(A)
      /\ Total(Prices, A) \in Nat /\ Total(Overruns, A) \in Nat
  BY ChargesType DEF Tables
<1> HIDE DEF A, held
<1>9. Total(Prices', A) = Total(Prices, A) /\ Total(Overruns', A) = Total(Overruns, A)
  BY <1>6, TotalSame
<1>10. /\ Total(Prices', A \union {o}) = Total(Prices', A) + Prices'[o]
       /\ Total(Overruns', A \union {o}) = Total(Overruns', A) + Overruns'[o]
  BY <1>3, <1>8, TotalAdd
<1>11. CASE held
  BY <1>4, <1>7, <1>9, <1>10, <1>11 DEF held, A
<1>12. CASE ~held
  BY <1>4, <1>8, <1>9, <1>12 DEF held, A
<1>13. QED
  BY <1>11, <1>12

\* Only a charge consumes.
LEMMA Unconsumed ==
    ASSUME Tables, [Next]_vars, NEW b \in Buckets
    PROVE  \/ KeepsCharged /\ bucket'[b].consumed = bucket[b].consumed
           \/ \E o \in Operations : \E c \in Credits : Charge(o, c)
<1>1. CASE KeepsHoldings /\ KeepsCharged
  BY <1>1 DEF KeepsHoldings
<1>2. CASE Finishes
  <2>1. PICK S \in SUBSET Turns, key \in Keys : Finish(S, key)
    BY <1>2 DEF Finishes
  <2>2. bucket' = BucketsAfter(Ends(S, key)) /\ Ends(S, key) \in SUBSET Turns
    BY <2>1, EndsActive DEF Finish
  <2>3. bucket'[b].consumed = bucket[b].consumed
    BY <2>2, BucketsAfterRows DEF Tables
  <2>4. QED
    BY <1>2, <2>3 DEF Finishes
<1>3. ASSUME NEW t \in Turns, Admit(t)
      PROVE  KeepsCharged /\ bucket'[b].consumed = bucket[b].consumed
  <2>1. op' = op
    BY <1>3 DEF Admit
  <2>2. QED
    BY <1>3, <2>1, AdmitRows DEF KeepsCharged
<1>4. ASSUME NEW o \in Operations, ReserveFeature(o)
      PROVE  KeepsCharged /\ bucket'[b].consumed = bucket[b].consumed
  <2>1. op' = [op EXCEPT ![o].hold = FeatureMicro] /\ FeatureMicro \in Nat
    BY <1>4, QuotaAssumption DEF ReserveFeature, QuotaAssumption
  <2>2. KeepsCharged
    BY <2>1, HoldKeepsEntries DEF KeepsCharged
  <2>3. QED
    BY <1>4, <2>2, ReserveRows
<1>5. ASSUME NEW o \in Operations, ReleaseFeature(o)
      PROVE  KeepsCharged /\ bucket'[b].consumed = bucket[b].consumed
  <2> DEFINE t == TurnOf[o]
  <2>1. op' = [op EXCEPT ![o].state = "cancelled"]
    BY <1>5 DEF ReleaseFeature
  <2>2. /\ t \in Turns /\ resv[t].status \in Statuses /\ op[o].state = "started" /\ TypeOK
        /\ \E amount \in Nat : Return(t, amount, 0, resv[t].status)
    BY <1>5, ReleaseReturns DEF Tables
  <2>3. KeepsCharged
    BY <2>1, <2>2, ReportedTurn, StateKeepsEntries DEF KeepsCharged
  <2>4. /\ b \in resv[t].holds => bucket'[b].consumed = bucket[b].consumed + 0
        /\ b \notin resv[t].holds => bucket'[b] = bucket[b]
    BY <2>2, ReturnRows
  <2>5. bucket[b].consumed \in Nat
    BY <2>2 DEF TypeOK
  <2>6. QED
    BY <2>3, <2>4, <2>5
<1>6. QED
  BY <1>1, <1>2, <1>3, <1>4, <1>5, StepKinds

\* Every bucket is charged each operation reported against it, once.
THEOREM ChargesBalance == Spec => []ConsumedIsCharged
<1>1. Init => ConsumedIsCharged
  <2> SUFFICES ASSUME Init, NEW b \in Buckets
               PROVE  bucket[b].consumed = Total(Prices, ChargedTo(b))
    BY DEF ConsumedIsCharged, Prices, ChargedTo
  <2>1. ChargedTo(b) = {} /\ bucket[b].consumed = 0
    BY DEF Init, NoOperation, ChargedTo
  <2>2. QED
    BY <2>1, TotalEmpty
<1>2. ASSUME Tables, Tables', ConsumedIsCharged, [Next]_vars
      PROVE  ConsumedIsCharged'
  <2> SUFFICES ASSUME NEW b \in Buckets
               PROVE  bucket'[b].consumed = Total(Prices', ChargedTo(b)')
    BY DEF ConsumedIsCharged, Prices, ChargedTo
  <2>0. bucket[b].consumed = Total(Prices, ChargedTo(b))
    BY <1>2 DEF ConsumedIsCharged, Prices, ChargedTo
  <2>1. CASE KeepsCharged /\ bucket'[b].consumed = bucket[b].consumed
    BY <2>0, <2>1, UnchargedSums
  <2>2. ASSUME NEW o \in Operations, NEW c \in Credits, Charge(o, c)
        PROVE  bucket'[b].consumed = Total(Prices', ChargedTo(b)')
    <3> DEFINE t == TurnOf[o]
    <3>1. /\ t \in Turns /\ c \in Nat /\ Covered(o, c) \in Nat /\ TypeOK /\ TypeOK'
          /\ \E status \in Statuses : Return(t, Covered(o, c), c, status)
      BY <1>2, <2>2, ChargeReturns DEF Tables
    <3>2. /\ b \in resv[t].holds => bucket'[b].consumed = bucket[b].consumed + c
          /\ b \notin resv[t].holds => bucket'[b] = bucket[b]
      BY <3>1, ReturnRows
    <3>3. Total(Prices', ChargedTo(b)') = Total(Prices, ChargedTo(b))
            + (IF b \in resv[t].holds THEN c ELSE 0)
      BY <1>2, <2>2, ChargedSums
    <3>4. Total(Prices, ChargedTo(b)) \in Nat
      BY <3>1, ChargesType
    <3>5. QED
      BY <2>0, <3>2, <3>3, <3>4
  <2>3. QED
    BY <1>2, <2>1, <2>2, Unconsumed
<1>3. QED
  BY <1>1, <1>2, TablesInvariant, PTL DEF Spec

\* The buckets cover the holds.
HoldsAreCovered == \A b \in Buckets : Backed(b) <= bucket[b].reserved

\* Retries within the period keep every bucket within its limit, except for
\* what operations cost beyond their hold, however often a turn is dispatched.
THEOREM LimitsHold == Spec /\ [][RetriedInPeriod]_vars => []OverdrawnByUsageOnly
<1> DEFINE Over(b) == Total(Overruns, ChargedTo(b))
           Within == \A b \in Buckets :
                       bucket[b].consumed + bucket[b].reserved <= Limit[b[1]] + Over(b)
<1>0. OverdrawnByUsageOnly <=> Within
  BY DEF OverdrawnByUsageOnly, Overruns, ChargedTo
<1>1. Init => HoldsAreCovered /\ Within
  <2> SUFFICES ASSUME Init, NEW b \in Buckets
               PROVE  /\ Backed(b) <= bucket[b].reserved
                      /\ bucket[b].consumed + bucket[b].reserved <= Limit[b[1]] + Over(b)
    BY DEF HoldsAreCovered
  <2>1. Holders(b) = {} /\ ChargedTo(b) = {} /\ bucket[b].consumed = 0 /\ bucket[b].reserved = 0
    BY DEF Init, NoReservation, NoOperation, Holders, ChargedTo
  <2>2. Limit[b[1]] \in Nat
    BY QuotaAssumption DEF QuotaAssumption, Buckets
  <2>3. QED
    BY <2>1, <2>2, TotalEmpty DEF Backed
<1>2. ASSUME Tables, Tables', HoldsAreCovered, Within, [Next]_vars, RetriedInPeriod
      PROVE  HoldsAreCovered' /\ Within'
  <2> SUFFICES ASSUME NEW b \in Buckets
               PROVE  /\ Backed(b)' <= bucket'[b].reserved
                      /\ bucket'[b].consumed + bucket'[b].reserved
                           <= Limit[b[1]] + Total(Overruns', ChargedTo(b)')
    BY DEF HoldsAreCovered
  <2>0. /\ Backed(b) <= bucket[b].reserved
        /\ bucket[b].consumed + bucket[b].reserved <= Limit[b[1]] + Over(b)
    BY <1>2 DEF HoldsAreCovered
  <2>1. /\ Backed(b) \in Nat /\ Backed(b)' \in Nat
        /\ bucket[b].reserved \in Nat /\ bucket'[b].reserved \in Nat
        /\ bucket[b].consumed \in Nat /\ bucket'[b].consumed \in Nat
        /\ Over(b) \in Nat /\ Limit[b[1]] \in Nat
    BY <1>2, BackedType, ChargesType, QuotaAssumption DEF Tables, QuotaAssumption, Buckets
  <2>2. Backed(b)' <= bucket'[b].reserved
    <3>1. bucket'[b].reserved - Backed(b)' >= bucket[b].reserved - Backed(b)
      BY <1>2, <2>0, StepBalance
    <3>2. QED
      BY <2>0, <2>1, <3>1
  <2> DEFINE Bounded == bucket'[b].consumed + bucket'[b].reserved
                       <= Limit[b[1]] + Total(Overruns', ChargedTo(b)')
  <2>3. KeepsCharged => Total(Overruns', ChargedTo(b)') = Over(b)
    BY UnchargedSums
  <2> HIDE DEF Over
  <2>4. ASSUME KeepsCharged, bucket'[b].consumed = bucket[b].consumed,
               bucket'[b].reserved <= bucket[b].reserved
        PROVE  Bounded
    BY <2>0, <2>1, <2>3, <2>4
  <2>5. ASSUME KeepsHoldings, KeepsCharged
        PROVE  Bounded
    <3>1. bucket' = bucket
      BY <2>5 DEF KeepsHoldings
    <3>2. QED
      BY <2>1, <2>4, <2>5, <3>1
  <2>6. ASSUME Finishes
        PROVE  Bounded
    <3>1. bucket'[b].reserved <= bucket[b].reserved /\ bucket'[b].consumed = bucket[b].consumed
      BY <1>2, <2>0, <2>6, FinishBalance DEF Finishes
    <3>2. QED
      BY <2>4, <2>6, <3>1 DEF Finishes
  <2>7. ASSUME NEW t \in Turns, Admit(t)
        PROVE  Bounded
    <3> DEFINE E == Ends(Lapsed, "expiry")
    <3>1. op' = op
      BY <2>7 DEF Admit
    <3>2. KeepsCharged
      BY <3>1 DEF KeepsCharged
    <3>3. /\ E \in SUBSET Turns
          /\ bucket'[b].consumed = bucket[b].consumed
          /\ bucket'[b].reserved = BucketsAfter(E)[b].reserved
                                   + (IF b \in Current(t) THEN Estimate ELSE 0)
      BY <1>2, <2>7, AdmitRows
    <3>4. b \in Current(t) => Estimate <= Available(b, BucketsAfter(E)[b])
      BY <2>7 DEF Admit
    <3> HIDE DEF E
    <3>5. /\ BucketsAfter(E)[b].reserved \in Nat /\ BucketsAfter(E)[b].reserved <= bucket[b].reserved
          /\ BucketsAfter(E)[b].consumed = bucket[b].consumed /\ Estimate \in Nat
      BY <1>2, <3>3, BucketsAfterRows, QuotaAssumption DEF Tables, QuotaAssumption
    <3>6. CASE b \in Current(t)
      BY <2>1, <2>3, <3>2, <3>3, <3>4, <3>5, <3>6 DEF Available
    <3>7. CASE b \notin Current(t)
      BY <2>1, <2>4, <3>2, <3>3, <3>5, <3>7
    <3>8. QED
      BY <3>6, <3>7
  <2>8. ASSUME NEW o \in Operations, ReserveFeature(o)
        PROVE  Bounded
    <3> DEFINE t == TurnOf[o]
    <3>1. /\ op' = [op EXCEPT ![o].hold = FeatureMicro] /\ FeatureMicro \in Nat
          /\ b \in resv[t].holds => FeatureMicro <= Available(b, bucket[b])
      BY <2>8, QuotaAssumption DEF ReserveFeature, Held, QuotaAssumption
    <3>2. KeepsCharged
      BY <1>2, <3>1, HoldKeepsEntries DEF KeepsCharged
    <3>3. /\ bucket'[b].consumed = bucket[b].consumed
          /\ bucket'[b].reserved = bucket[b].reserved
               + (IF b \in resv[t].holds THEN FeatureMicro ELSE 0)
      BY <1>2, <2>8, ReserveRows
    <3>4. CASE b \in resv[t].holds
      BY <2>1, <2>3, <3>1, <3>2, <3>3, <3>4 DEF Available
    <3>5. CASE b \notin resv[t].holds
      BY <2>1, <2>4, <3>2, <3>3, <3>5
    <3>6. QED
      BY <3>4, <3>5
  <2>9. ASSUME NEW o \in Operations, ReleaseFeature(o)
        PROVE  Bounded
    <3> DEFINE t == TurnOf[o]
    <3>1. op' = [op EXCEPT ![o].state = "cancelled"]
      BY <2>9 DEF ReleaseFeature
    <3>2. /\ t \in Turns /\ resv[t].status \in Statuses /\ op[o].state = "started"
          /\ \E amount \in Nat : /\ amount <= resv[t].reserved
                                 /\ Return(t, amount, 0, resv[t].status)
      BY <1>2, <2>9, ReleaseReturns
    <3>3. KeepsCharged
      BY <1>2, <3>1, <3>2, ReportedTurn, StateKeepsEntries DEF KeepsCharged
    <3>4. PICK amount \in Nat : /\ amount <= resv[t].reserved
                                /\ Return(t, amount, 0, resv[t].status)
      BY <3>2
    <3>5. /\ bucket'[b].reserved = IF b \in resv[t].holds THEN bucket[b].reserved - amount
                                                          ELSE bucket[b].reserved
          /\ bucket'[b].consumed = IF b \in resv[t].holds THEN bucket[b].consumed + 0
                                                          ELSE bucket[b].consumed
      BY <1>2, <2>0, <3>2, <3>4, ReturnBalance
    <3>6. QED
      BY <2>1, <2>4, <3>3, <3>5
  <2>10. ASSUME NEW o \in Operations, NEW c \in Credits, Charge(o, c)
         PROVE  Bounded
    <3> DEFINE t == TurnOf[o]
               take == Covered(o, c)
    <3>1. /\ t \in Turns /\ c \in Nat /\ take \in Nat /\ take <= resv[t].reserved
          /\ \E status \in Statuses :
               /\ Return(t, take, c, status)
               /\ status \in Active <=> resv[t].status \in Active
      BY <1>2, <2>10, ChargeReturns
    <3>2. /\ bucket'[b].reserved = IF b \in resv[t].holds THEN bucket[b].reserved - take
                                                          ELSE bucket[b].reserved
          /\ bucket'[b].consumed = IF b \in resv[t].holds THEN bucket[b].consumed + c
                                                          ELSE bucket[b].consumed
      BY <1>2, <2>0, <3>1, ReturnBalance
    <3>3. Total(Overruns', ChargedTo(b)') =
            Over(b) + (IF b \in resv[t].holds THEN Less(c, take) ELSE 0)
      BY <1>2, <2>10, ChargedSums DEF Over
    <3> HIDE DEF take
    <3>4. Less(c, take) \in Nat /\ Less(c, take) >= c - take
      BY <3>1 DEF Less
    <3>5. CASE b \in resv[t].holds
      BY <2>0, <2>1, <3>1, <3>2, <3>3, <3>4, <3>5
    <3>6. CASE b \notin resv[t].holds
      BY <2>0, <2>1, <3>2, <3>3, <3>6
    <3>7. QED
      BY <3>5, <3>6
  <2>11. QED
    BY <1>2, <2>2, <2>5, <2>6, <2>7, <2>8, <2>9, <2>10, StepKinds
<1>3. ASSUME Tables, Tables', HoldsAreCovered, Within, [Next]_vars, [RetriedInPeriod]_vars
      PROVE  HoldsAreCovered' /\ Within'
  <2>1. CASE UNCHANGED vars
    <3>1. /\ \A b : Holders(b)' = Holders(b) /\ ChargedTo(b)' = ChargedTo(b)
          /\ Reserved' = Reserved /\ Overruns' = Overruns /\ bucket' = bucket
      BY <2>1 DEF vars, Holders, ChargedTo, Reserved, Overruns, Less
    <3>2. QED
      BY <1>3, <3>1 DEF HoldsAreCovered, Backed
  <2>2. QED
    BY <1>2, <1>3, <2>1
<1> HIDE DEF Within
<1>4. QED
  BY <1>0, <1>1, <1>3, TablesInvariant, PTL DEF Spec

-----------------------------------------------------------------------------
(* Periods *)

\* The two buckets an admission in period p debits.
PairOf(t, p) == {UserOf[t], Workspace} \X {p}

\* A turn whose dispatch has not failed was admitted at most once, and holds
\* the buckets of that admission.
AdmittedOnce ==
    \A t \in Turns : failures[t] = 0 =>
        /\ phase[t] # "undispatched"
        /\ phase[t] = "new" => resv[t].holds = {}
        /\ phase[t] # "new" => \E p \in Periods : resv[t].holds = PairOf(t, p)

\* Only admission adds reserve entries.
LEMMA ReserveEntries ==
    ASSUME Tables, [Next]_vars, NEW u \in Turns
    PROVE  resv'[u].holds = resv[u].holds \/ Admit(u)
<1> DEFINE Same == resv'[u].holds = resv[u].holds
<1>0. TypeOK
  BY DEF Tables
<1>1. CASE KeepsHoldings
  BY <1>1 DEF KeepsHoldings
<1>2. CASE Finishes
  BY <1>0, <1>2, FinishRows DEF Finishes
<1>3. ASSUME NEW t \in Turns, Admit(t), t # u
      PROVE  Same
  BY <1>3, AdmitRows
<1>4. ASSUME NEW o \in Operations, ReserveFeature(o)
      PROVE  Same
  BY <1>4, ReserveRows
<1>5. ASSUME NEW o \in Operations, ReleaseFeature(o)
      PROVE  Same
  <2>1. /\ TurnOf[o] \in Turns /\ resv[TurnOf[o]].status \in Statuses
        /\ \E amount \in Nat : Return(TurnOf[o], amount, 0, resv[TurnOf[o]].status)
    BY <1>5, ReleaseReturns
  <2>2. QED
    BY <1>0, <2>1, ReturnRows
<1>6. ASSUME NEW o \in Operations, NEW c \in Credits, Charge(o, c)
      PROVE  Same
  <2>1. /\ TurnOf[o] \in Turns /\ c \in Nat /\ Covered(o, c) \in Nat
        /\ \E status \in Statuses : Return(TurnOf[o], Covered(o, c), c, status)
    BY <1>6, ChargeReturns
  <2>2. QED
    BY <1>0, <2>1, ReturnRows
<1>7. QED
  BY <1>1, <1>2, <1>3, <1>4, <1>5, <1>6, StepKinds

\* Only a failed dispatch makes a turn undispatched, and none is new again.
LEMMA PhaseSteps ==
    ASSUME Tables, [Next]_vars, NEW u \in Turns
    PROVE  /\ phase'[u] = "new" => phase[u] = "new" /\ ~Admit(u)
           /\ phase'[u] = "undispatched" => phase[u] = "undispatched" \/ DispatchFails(u)
<1>1. phase \in [Turns -> Phases]
  BY DEF Tables, TypeOK, Phases
<1>2. Admit(u) => phase'[u] = "admitted"
  BY <1>1 DEF Admit
<1>3. ASSUME NEW t \in Turns, TurnStep(t)
      PROVE  \/ phase' = phase
             \/ DispatchFails(t) /\ phase' = [phase EXCEPT ![t] = "undispatched"]
             \/ \E p \in {"admitted", "queued", "running", "failing", "done"} :
                   phase' = [phase EXCEPT ![t] = p]
  BY <1>3 DEF TurnStep, Admit, AdmitDuplicate, Dispatch, DispatchFails, Begin, Heartbeat,
              FinishTurn, WorkerCancelled, ExecutionLost, LeaseLapses
<1>4. ASSUME NEW o \in Operations, OperationStep(o)
      PROVE  phase' = phase
  BY <1>4 DEF OperationStep, StartOperation, ReserveFeature, ReleaseFeature, ReportPending, Charge
<1>5. NextPeriod \/ Sweep \/ UNCHANGED vars => phase' = phase
  BY DEF NextPeriod, Sweep, vars
<1>6. \/ phase' = phase
      \/ \E t \in Turns : DispatchFails(t) /\ phase' = [phase EXCEPT ![t] = "undispatched"]
      \/ \E t \in Turns : \E p \in {"admitted", "queued", "running", "failing", "done"} :
            phase' = [phase EXCEPT ![t] = p]
  BY <1>3, <1>4, <1>5 DEF Next
<1>7. QED
  BY <1>1, <1>2, <1>6

\* No turn becomes admitted but by an admission.
LEMMA AdmissionStep ==
    ASSUME Tables, [Next]_vars, NEW u \in Turns, phase[u] = "new", phase'[u] # "new"
    PROVE  Admit(u)
<1>1. phase \in [Turns -> Phases]
  BY DEF Tables, TypeOK, Phases
<1>2. ASSUME NEW t \in Turns, TurnStep(t)
      PROVE  Admit(u)
  <2>1. t = u
    BY <1>1, <1>2 DEF TurnStep, Admit, AdmitDuplicate, Dispatch, DispatchFails, Begin, Heartbeat,
                      FinishTurn, WorkerCancelled, ExecutionLost, LeaseLapses
  <2>2. QED
    BY <1>2, <2>1 DEF TurnStep, AdmitDuplicate, Dispatch, DispatchFails, Begin, Heartbeat,
                      FinishTurn, WorkerCancelled, ExecutionLost, LeaseLapses
<1>3. ASSUME NEW o \in Operations, OperationStep(o)
      PROVE  phase' = phase
  BY <1>3 DEF OperationStep, StartOperation, ReserveFeature, ReleaseFeature, ReportPending, Charge
<1>4. NextPeriod \/ Sweep \/ UNCHANGED vars => phase' = phase
  BY DEF NextPeriod, Sweep, vars
<1>5. QED
  BY <1>2, <1>3, <1>4 DEF Next

\* The count of failed dispatches only grows, by a failed dispatch.
LEMMA FailureSteps ==
    ASSUME Tables, [Next]_vars, NEW u \in Turns, failures'[u] = 0
    PROVE  failures[u] = 0 /\ ~DispatchFails(u)
<1>1. failures \in [Turns -> Nat]
  BY DEF Tables, TypeOK
<1>2. ASSUME NEW t \in Turns, DispatchFails(t)
      PROVE  failures' = [failures EXCEPT ![t] = @ + 1]
  BY <1>2 DEF DispatchFails
<1>3. ASSUME NEW t \in Turns, TurnStep(t)
      PROVE  failures' = failures \/ DispatchFails(t)
  BY <1>3 DEF TurnStep, Admit, AdmitDuplicate, Dispatch, Begin, Heartbeat, FinishTurn,
              WorkerCancelled, ExecutionLost, LeaseLapses
<1>4. ASSUME NEW o \in Operations, OperationStep(o)
      PROVE  failures' = failures
  BY <1>4 DEF OperationStep, StartOperation, ReserveFeature, ReleaseFeature, ReportPending, Charge
<1>5. NextPeriod \/ Sweep \/ UNCHANGED vars => failures' = failures
  BY DEF NextPeriod, Sweep, vars
<1>6. failures' = failures \/ \E t \in Turns : failures' = [failures EXCEPT ![t] = @ + 1]
  BY <1>2, <1>3, <1>4, <1>5 DEF Next
<1>7. QED
  BY <1>1, <1>2, <1>6

\* Only a charge settles an operation.
LEMMA SettledByCharge ==
    ASSUME Tables, [Next]_vars, NEW q \in Operations, op'[q].state = "settled"
    PROVE  op[q].state = "settled" \/ \E c \in Credits : Charge(q, c)
<1>1. op \in [Operations -> Entries]
  BY DEF Tables, TypeOK, Entries
<1>2. ASSUME NEW t \in Turns, TurnStep(t)
      PROVE  op[q].state = "settled"
  <2>1. CASE ExecutionLost(t)
    <3>1. op'[q] = op[q] \/ op'[q] = [op[q] EXCEPT !.state = "lost"]
      BY <2>1 DEF ExecutionLost
    <3>2. op[q] \in Entries
      BY <1>1
    <3>3. [op[q] EXCEPT !.state = "lost"].state = "lost"
      BY <3>2 DEF Entries
    <3>4. QED
      BY <3>1, <3>3
  <2>2. CASE ~ExecutionLost(t)
    <3>1. op' = op
      BY <1>2, <2>2 DEF TurnStep, Admit, AdmitDuplicate, Dispatch, DispatchFails, Begin,
                        Heartbeat, FinishTurn, WorkerCancelled, LeaseLapses
    <3>2. QED
      BY <3>1
  <2>3. QED
    BY <2>1, <2>2
<1>3. ASSUME NEW o \in Operations, OperationStep(o)
      PROVE  op[q].state = "settled" \/ \E c \in Credits : Charge(q, c)
  <2>0. op[o] \in Entries /\ op[q] \in Entries
    BY <1>1
  <2>1. ASSUME NEW v \in {"started", "cancelled", "pending"}, op' = [op EXCEPT ![o].state = v]
        PROVE  op[q].state = "settled"
    <3>1. o = q => op'[q].state = v
      BY <1>1, <2>0, <2>1 DEF Entries
    <3>2. o # q => op'[q] = op[q]
      BY <1>1, <2>1
    <3>3. QED
      BY <2>1, <3>1, <3>2
  <2>2. CASE StartOperation(o) \/ ReleaseFeature(o) \/ ReportPending(o)
    BY <2>1, <2>2 DEF StartOperation, ReleaseFeature, ReportPending
  <2>3. CASE ReserveFeature(o)
    <3>1. op' = [op EXCEPT ![o].hold = FeatureMicro]
      BY <2>3 DEF ReserveFeature
    <3>2. op'[q].state = op[q].state
      BY <1>1, <2>0, <3>1 DEF Entries
    <3>3. QED
      BY <3>2
  <2>4. ASSUME NEW c \in Credits, Charge(o, c), o # q
        PROVE  op[q].state = "settled"
    <3>1. op'[q] = op[q]
      BY <1>1, <2>4 DEF Charge
    <3>2. QED
      BY <3>1
  <2>5. QED
    BY <1>3, <2>2, <2>3, <2>4 DEF OperationStep
<1>4. NextPeriod \/ Sweep \/ UNCHANGED vars => op' = op
  BY DEF NextPeriod, Sweep, vars
<1>5. QED
  BY <1>2, <1>3, <1>4 DEF Next

\* What a settled operation was charged to stands.
LEMMA SettledStays ==
    ASSUME Tables, [Next]_vars, NEW q \in Operations, op[q].state = "settled"
    PROVE  op'[q].to = op[q].to
<1>1. <<Workspace, 0>> \in Buckets
  <2>1. MaxPeriod \in Nat
    BY QuotaAssumption DEF QuotaAssumption
  <2>2. 0 \in Periods
    BY <2>1 DEF Periods
  <2>3. QED
    BY <2>2 DEF Buckets, Owners
<1>2. CASE KeepsCharged
  BY <1>2 DEF KeepsCharged
<1>3. ASSUME NEW o \in Operations, NEW c \in Credits, Charge(o, c)
      PROVE  op'[q] = op[q]
  <2>1. o # q
    BY <1>3 DEF Charge, Chargeable
  <2>2. c \in Nat
    BY <1>3, ChargeReturns
  <2>3. QED
    BY <1>3, <2>1, <2>2, ChargeEntry
<1>4. QED
  BY <1>1, <1>2, <1>3, Unconsumed

\* Every report of a turn admitted once is charged to the two buckets its
\* admission debited, in whatever period, state of the reservation or
\* execution of the turn it comes (_reservation_buckets).  Turns whose dispatch
\* failed may be there as well, retried in any period.
THEOREM UsageInOnePeriod == Spec => []ChargedToOnePeriod
<1>1. Init => AdmittedOnce /\ ChargedToOnePeriod
  BY DEF Init, AdmittedOnce, ChargedToOnePeriod, NoReservation, NoOperation
<1>2. ASSUME Tables, AdmittedOnce, [Next]_vars
      PROVE  AdmittedOnce'
  <2> SUFFICES ASSUME NEW t \in Turns, failures'[t] = 0
               PROVE  /\ phase'[t] # "undispatched"
                      /\ phase'[t] = "new" => resv'[t].holds = {}
                      /\ phase'[t] # "new" => \E p \in Periods : resv'[t].holds = PairOf(t, p)
    BY DEF AdmittedOnce, PairOf
  <2>1. failures[t] = 0 /\ ~DispatchFails(t)
    BY <1>2, FailureSteps
  <2>2. /\ phase[t] # "undispatched"
        /\ phase[t] = "new" => resv[t].holds = {}
        /\ phase[t] # "new" => \E p \in Periods : resv[t].holds = PairOf(t, p)
    BY <1>2, <2>1 DEF AdmittedOnce
  <2>3. phase'[t] # "undispatched" /\ (phase'[t] = "new" => phase[t] = "new" /\ ~Admit(t))
    BY <1>2, <2>1, <2>2, PhaseSteps
  <2>4. CASE Admit(t)
    <3>1. resv'[t].holds = resv[t].holds \union Current(t)
      BY <1>2, <2>4, AdmitRows
    <3>2. phase[t] = "new"
      BY <2>2, <2>4 DEF Admit
    <3>3. period \in Periods
      BY <1>2 DEF Tables, TypeOK
    <3>4. resv'[t].holds = PairOf(t, period)
      BY <2>2, <3>1, <3>2 DEF Current, PairOf
    <3>5. QED
      BY <2>3, <2>4, <3>3, <3>4
  <2>5. CASE ~Admit(t)
    <3>1. resv'[t].holds = resv[t].holds
      BY <1>2, <2>5, ReserveEntries
    <3>2. phase'[t] # "new" => phase[t] # "new"
      BY <1>2, <2>5, AdmissionStep
    <3>3. QED
      BY <2>2, <2>3, <3>1, <3>2
  <2>6. QED
    BY <2>4, <2>5
<1>3. ASSUME Tables, Tables', AdmittedOnce, AdmittedOnce', ChargedToOnePeriod, [Next]_vars
      PROVE  ChargedToOnePeriod'
  <2> SUFFICES ASSUME NEW q \in Operations, op'[q].state = "settled", failures'[TurnOf[q]] = 0
               PROVE  \E p \in Periods : /\ op'[q].to = PairOf(TurnOf[q], p)
                                         /\ resv'[TurnOf[q]].holds = op'[q].to
    BY DEF ChargedToOnePeriod, PairOf
  <2>1. TurnOf[q] \in Turns
    BY QuotaAssumption DEF QuotaAssumption
  <2>2. phase'[TurnOf[q]] # "new"
    BY <1>3 DEF Tables, OperationRows
  <2>3. \E p \in Periods : resv'[TurnOf[q]].holds = PairOf(TurnOf[q], p)
    BY <1>3, <2>1, <2>2 DEF AdmittedOnce, PairOf
  <2>4. op'[q].to = resv'[TurnOf[q]].holds
    <3>1. ASSUME NEW c \in Credits, Charge(q, c)
          PROVE  op'[q].to = resv'[TurnOf[q]].holds
      <4>1. c \in Nat
        BY <1>3, <3>1, ChargeReturns
      <4>2. op'[q].to = resv[TurnOf[q]].holds
        BY <1>3, <3>1, <4>1, ChargeEntry
      <4>3. phase' = phase
        BY <3>1 DEF Charge
      <4>4. ~Admit(TurnOf[q])
        <5>1. phase \in [Turns -> Phases]
          BY <1>3 DEF Tables, TypeOK, Phases
        <5>2. Admit(TurnOf[q]) => phase'[TurnOf[q]] = "admitted" /\ phase[TurnOf[q]] # "admitted"
          BY <2>1, <5>1 DEF Admit
        <5>3. QED
          BY <4>3, <5>2
      <4>5. QED
        BY <1>3, <2>1, <4>2, <4>4, ReserveEntries
    <3>2. ASSUME op[q].state = "settled"
          PROVE  op'[q].to = resv'[TurnOf[q]].holds
      <4>1. failures[TurnOf[q]] = 0
        BY <1>3, <2>1, FailureSteps
      <4>2. op[q].to = resv[TurnOf[q]].holds
        BY <1>3, <3>2, <4>1 DEF ChargedToOnePeriod
      <4>3. phase[TurnOf[q]] \notin {"new", "undispatched"}
        BY <1>3, <2>1, <3>2, <4>1 DEF AdmittedOnce, Tables, OperationRows
      <4>4. resv'[TurnOf[q]].holds = resv[TurnOf[q]].holds
        BY <1>3, <2>1, <4>3, ReserveEntries DEF Admit
      <4>5. op'[q].to = op[q].to
        BY <1>3, <3>2, SettledStays
      <4>6. QED
        BY <4>2, <4>4, <4>5
    <3>3. QED
      BY <1>3, <3>1, <3>2, SettledByCharge
  <2>5. QED
    BY <2>3, <2>4
<1>4. QED
  BY <1>1, <1>2, <1>3, TablesInvariant, PTL DEF Spec

\* No dispatch fails in the deployment: OutboxTurnDispatcher.submit only adds
\* the turn to a set.
NeverRedispatched == MaxDispatchFailures = [t \in Turns |-> 0]

\* Every admission is the first of its turn.
FirstTry ==
    \A t \in Turns : /\ phase[t] # "undispatched"
                     /\ phase[t] = "new" => resv[t].holds = {}

\* Without failed dispatches every turn is admitted once, in one period: the
\* hypotheses of the theorems above hold in the deployment.
THEOREM DeployedRetries ==
    ASSUME NeverRedispatched
    PROVE  TwoFailures /\ (Spec => [][RetriedInPeriod]_vars)
<1>1. TwoFailures
  BY DEF NeverRedispatched, TwoFailures
<1>2. Init => FirstTry
  BY DEF Init, FirstTry, NoReservation
<1>3. ASSUME Tables, FirstTry, [Next]_vars
      PROVE  FirstTry'
  <2> SUFFICES ASSUME NEW t \in Turns
               PROVE  /\ phase'[t] # "undispatched"
                      /\ phase'[t] = "new" => resv'[t].holds = {}
    BY DEF FirstTry
  <2>1. failures[t] \in Nat /\ MaxDispatchFailures[t] = 0
    BY <1>3 DEF Tables, TypeOK, NeverRedispatched
  <2>2. ~DispatchFails(t)
    BY <2>1 DEF DispatchFails
  <2>3. QED
    BY <1>3, <2>2, PhaseSteps, ReserveEntries DEF FirstTry
<1>4. FirstTry => RetriedInPeriod
  BY DEF FirstTry, RetriedInPeriod, Admit
<1>5. FirstTry /\ [Next]_vars => [RetriedInPeriod]_vars
  BY <1>4
<1>6. Spec => []FirstTry
  BY <1>2, <1>3, TablesInvariant, PTL DEF Spec
<1>7. QED
  BY <1>1, <1>5, <1>6, PTL DEF Spec

\* In the deployment all the balances hold, with no further assumption.
THEOREM DeployedBalances ==
    ASSUME NeverRedispatched
    PROVE  Spec => [](HoldsAreBacked /\ UnitsMatchActive /\ OverdrawnByUsageOnly
                      /\ ChargedToOnePeriod)
<1>1. TwoFailures /\ (Spec => [][RetriedInPeriod]_vars)
  BY DeployedRetries
<1>2. (Spec /\ [][RetriedInPeriod]_vars => []HoldsAreBacked) /\ (Spec => []UnitsMatchActive)
  BY <1>1, HoldsBalance, UnitsBalance
<1>3. QED
  BY <1>1, <1>2, LimitsHold, UsageInOnePeriod, PTL
=============================================================================

------------------------- MODULE MCQuotaReservation -------------------------
(* Instances of QuotaReservation for TLC. *)
EXTENDS QuotaReservation, TLC

CONSTANTS t1, t2, u1, u2, a, b, ws

\* Two turns of one user, or of two users who share the workspace.
SameUser == (t1 :> u1) @@ (t2 :> u1)
TwoUsers == (t1 :> u1) @@ (t2 :> u2)

\* One attempt in each turn.
EachTurn == (a :> t1) @@ (b :> t2)

\* One turn is recovered after a crash, the other dispatched again twice.
FirstOnly  == (t1 :> 1) @@ (t2 :> 0)
Twice      == (t1 :> 0) @@ (t2 :> 2)
Never      == (t1 :> 0) @@ (t2 :> 0)

\* Total is the sum of the library.
ASSUME TotalIsSum ==
    \A f \in [{a, b, t1} -> 0..3] : \A S \in SUBSET {a, b, t1} :
        Total(f, S) = MapThenSumSet(LAMBDA x : f[x], S)

Limits == [o \in Owners |-> IF o = ws THEN 3 ELSE 2]
=============================================================================

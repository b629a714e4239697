---------------------------- MODULE TurnLifecycle ----------------------------
(***************************************************************************)
(* What the turn table promises to the users of a session, without queues, *)
(* leases, workers or faults.  A turn is accepted while no other turn of   *)
(* the session is active; it is handed from one execution to the next, one *)
(* at a time; the execution that holds it gives it its result; and only a  *)
(* cancellation that its user asked for may replace a result.              *)
(***************************************************************************)
EXTENDS Naturals

CONSTANT Turns

VARIABLES
    state,   \* the status clients read
    tenure,  \* how often the turn has changed hands
    wanted   \* its user asked for cancellation

vars == <<state, tenure, wanted>>

Active == {"accepted", "running"}
Final  == {"completed", "failed", "cancelled"}

Init ==
    /\ state = [t \in Turns |-> "absent"]
    /\ tenure = [t \in Turns |-> 0]
    /\ wanted = [t \in Turns |-> FALSE]

Submit(t) ==
    /\ state[t] = "absent"
    /\ \A u \in Turns : state[u] \notin Active
    /\ state' = [state EXCEPT ![t] = "accepted"]
    /\ UNCHANGED <<tenure, wanted>>

\* An execution takes the turn, from the queue or from one that is gone.
Take(t) ==
    /\ state[t] \in Active /\ ~wanted[t]
    /\ state' = [state EXCEPT ![t] = "running"]
    /\ tenure' = [tenure EXCEPT ![t] = @ + 1]
    /\ UNCHANGED wanted

\* The turn goes back to the queue, and its execution loses it for good.
GiveBack(t) ==
    /\ state[t] = "running"
    /\ state' = [state EXCEPT ![t] = "accepted"]
    /\ tenure' = [tenure EXCEPT ![t] = @ + 1]
    /\ UNCHANGED wanted

\* Only a turn that somebody executes gets a result, and only one.
End(t) ==
    /\ state[t] = "running"
    /\ \E result \in Final : state' = [state EXCEPT ![t] = result]
    /\ UNCHANGED <<tenure, wanted>>

\* The user asks for cancellation: at once, unless the turn has a result.
Cancel(t) ==
    /\ state[t] # "absent"
    /\ wanted' = [wanted EXCEPT ![t] = TRUE]
    /\ state' = [state EXCEPT ![t] = IF @ \in Active THEN "cancelled" ELSE @]
    /\ UNCHANGED tenure

\* A request that came too late may still turn the result into cancelled.
Overrule(t) ==
    /\ wanted[t] /\ state[t] \in Final
    /\ state' = [state EXCEPT ![t] = "cancelled"]
    /\ UNCHANGED <<tenure, wanted>>

Next == \E t \in Turns : \/ Submit(t) \/ Take(t) \/ GiveBack(t)
                         \/ End(t) \/ Cancel(t) \/ Overrule(t)

Spec == Init /\ [][Next]_vars
=============================================================================

-------------------------------- MODULE Loop --------------------------------
(***************************************************************************)
(* What Scheduler::run promises the rest of the agent, without time,       *)
(* uploads or heartbeats: cycles follow one another, each ends by showing  *)
(* its outcome in the health state, in one piece, and the loop stops only  *)
(* between two cycles, only when it is told to, and never before the       *)
(* first cycle is over.  Scheduler implements it; Agent is built on it.    *)
(***************************************************************************)

VARIABLES
    at,        \* "starting", "cycling", "between" or "stopped"
    shown,     \* what the health state says
    signalled  \* the shutdown channel holds true

vars == <<at, shown, signalled>>

(* A health state: last_collection_error by its source. *)
Says(s, c, e) == [status |-> s, connected |-> c, error |-> e]

(* What main's probe may leave there, and what a cycle may. *)
Seeds == {Says("ok", TRUE, "none"), Says("degraded", FALSE, "probe")}
Outcomes == {Says("ok", TRUE, "none"), Says("degraded", TRUE, "upload"),
             Says("degraded", FALSE, "collection")}

Init ==
    /\ at = "starting"
    /\ shown \in Seeds
    /\ signalled = FALSE

Begin ==
    /\ at \in {"starting", "between"}
    /\ at' = "cycling"
    /\ UNCHANGED <<shown, signalled>>

End(outcome) ==
    /\ at = "cycling"
    /\ at' = "between"
    /\ shown' = outcome
    /\ UNCHANGED signalled

Signal ==
    /\ ~signalled
    /\ signalled' = TRUE
    /\ UNCHANGED <<at, shown>>

Stop ==
    /\ at = "between" /\ signalled
    /\ at' = "stopped"
    /\ UNCHANGED <<shown, signalled>>

Next ==
    \/ Begin
    \/ \E outcome \in Outcomes : End(outcome)
    \/ Signal
    \/ Stop

Spec == Init /\ [][Next]_vars
=============================================================================

------------------------------ MODULE Delivery ------------------------------
(***************************************************************************)
(* What Uploader::upload promises its caller, without clock, statuses or   *)
(* network: the calls are made one after the other; while a call is open,  *)
(* and even after it has returned, the platform may store copies of its    *)
(* payload, at most one per attempt; the call returns Ok only when a copy  *)
(* is stored.  Delivery is neither exactly-once nor at-most-once: an Err   *)
(* says nothing about what the platform holds.                             *)
(***************************************************************************)
EXTENDS Naturals

CONSTANTS
    MaxCalls,   \* how many times upload is called
    MaxRetries  \* UploaderConfig.max_retries

VARIABLES
    phase,      \* per call: "new", "open", "ok" or "failed"
    copies      \* per call: the attempts of which the platform stored the payload

vars == <<phase, copies>>

Calls == 1 .. MaxCalls
Attempts == 0 .. MaxRetries

Init ==
    /\ phase = [c \in Calls |-> "new"]
    /\ copies = [c \in Calls |-> {}]

(* upload is entered; every earlier call has returned. *)
Begin(c) ==
    /\ phase[c] = "new"
    /\ \A d \in Calls : d < c => phase[d] \in {"ok", "failed"}
    /\ phase' = [phase EXCEPT ![c] = "open"]
    /\ UNCHANGED copies

(* The platform stores the payload of one attempt, perhaps after the call. *)
Store(c, a) ==
    /\ phase[c] # "new"
    /\ a \notin copies[c]
    /\ copies' = [copies EXCEPT ![c] = @ \cup {a}]
    /\ UNCHANGED phase

(* upload returns Ok. *)
Confirm(c) ==
    /\ phase[c] = "open"
    /\ copies[c] # {}
    /\ phase' = [phase EXCEPT ![c] = "ok"]
    /\ UNCHANGED copies

(* upload returns Err. *)
GiveUp(c) ==
    /\ phase[c] = "open"
    /\ phase' = [phase EXCEPT ![c] = "failed"]
    /\ UNCHANGED copies

Next ==
    \E c \in Calls :
        \/ Begin(c)
        \/ \E a \in Attempts : Store(c, a)
        \/ Confirm(c)
        \/ GiveUp(c)

Spec == Init /\ [][Next]_vars
=============================================================================

------------------------------ MODULE SpawnGate ------------------------------
(***************************************************************************)
(* What the hub promises the requests for an on-demand row that nobody     *)
(* else starts or stops, and no more: the row has one backend of the hub's *)
(* own at a time, which a request that is asking for it spawns and then    *)
(* waits for; one request at a time waits; a request is let in only while  *)
(* something answers, spawns one backend at most and is never asked again. *)
(***************************************************************************)

CONSTANT Requests

VARIABLES stage,    \* where each request is
          backend,  \* the hub's own process for the row
          other     \* a server that was there before answers on the row's port

gateVars == <<stage, backend, other>>

Init ==
    /\ stage = [r \in Requests |-> "new"]
    /\ backend = "none"
    /\ other \in BOOLEAN

Becomes(r, s) == stage' = [stage EXCEPT ![r] = s]

Answers  == backend = "up" \/ other
NoWaiter == \A r \in Requests : stage[r] # "waiting"

Asks(r) ==
    /\ stage[r] = "new"
    /\ Becomes(r, "asking")
    /\ UNCHANGED <<backend, other>>

\* A request spawns the backend: there is none, and nobody waits for one.
Spawns(r) ==
    /\ stage[r] = "asking"
    /\ NoWaiter
    /\ backend = "none"
    /\ backend' = "loading"
    /\ Becomes(r, "waiting")
    /\ UNCHANGED other

\* A request waits for a backend that is there already.
Joins(r) ==
    /\ stage[r] = "asking"
    /\ NoWaiter
    /\ backend # "none" \/ other
    /\ Becomes(r, "waiting")
    /\ UNCHANGED <<backend, other>>

LetIn(r) ==
    /\ stage[r] \in {"asking", "waiting"}
    /\ Answers
    /\ Becomes(r, "in")
    /\ UNCHANGED <<backend, other>>

\* A start that failed, the deadline, the end of the service.
Leaves(r) ==
    /\ stage[r] \in {"asking", "waiting", "in"}
    /\ Becomes(r, "gone")
    /\ UNCHANGED <<backend, other>>

ComesUp ==
    /\ backend = "loading"
    /\ ~other
    /\ backend' = "up"
    /\ UNCHANGED <<stage, other>>

\* Either may crash; a server that was there before does not come back.
GoesDown ==
    /\ backend # "none"
    /\ backend' = "none"
    /\ UNCHANGED <<stage, other>>

OtherEnds ==
    /\ other
    /\ other' = FALSE
    /\ UNCHANGED <<stage, backend>>

Next ==
    \/ \E r \in Requests : Asks(r) \/ Spawns(r) \/ Joins(r) \/ LetIn(r) \/ Leaves(r)
    \/ ComesUp \/ GoesDown \/ OtherEnds

Spec == Init /\ [][Next]_gateVars
=============================================================================

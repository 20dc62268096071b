--------------------------- MODULE DurablePolicy ----------------------------
(***************************************************************************)
(* What the admin API promises its callers and the DNS side, without the   *)
(* file, the mutex, the copies or the lists: a durable set of changes, a   *)
(* view of it that is served while the process runs and lags by at most    *)
(* the change being made, and the changes whose callers were told of       *)
(* success or of failure.  A change that failed may stay among the durable *)
(* ones, but nothing is served from them as long as it does.               *)
(***************************************************************************)
CONSTANTS
    Requests,   \* the changes callers may ask for
    NoService   \* what is served while the process is down

VARIABLES durable, served, answered, refused

vars == <<durable, served, answered, refused>>

Init ==
    /\ durable = {}
    /\ served = {}
    /\ answered = {}
    /\ refused = {}

Running == served # NoService

(* One more change becomes durable; no other is waiting to be served, and   *)
(* what a failed one left behind goes away.                                 *)
Commit(r) ==
    /\ Running
    /\ r \notin durable \union refused
    /\ durable \ served \subseteq refused
    /\ durable' = served \union {r}
    /\ UNCHANGED <<served, answered, refused>>

Serve ==
    /\ Running
    /\ durable \intersect refused = {}
    /\ served' = durable
    /\ UNCHANGED <<durable, answered, refused>>

(* Success is reported only for a change that is durable and served.        *)
Answer(r) ==
    /\ r \in durable \ refused
    /\ served = durable
    /\ answered' = answered \union {r}
    /\ UNCHANGED <<durable, served, refused>>

(* Failure is reported only for a change that is not served.                *)
Refuse(r) ==
    /\ Running
    /\ r \notin served \union answered
    /\ refused' = refused \union {r}
    /\ UNCHANGED <<durable, served, answered>>

Stop ==
    /\ served' = NoService
    /\ UNCHANGED <<durable, answered, refused>>

Start ==
    /\ ~Running
    /\ durable \intersect refused = {}
    /\ served' = durable
    /\ UNCHANGED <<durable, answered, refused>>

Next ==
    \/ \E r \in Requests : Commit(r) \/ Answer(r) \/ Refuse(r)
    \/ Serve \/ Stop \/ Start

Spec == Init /\ [][Next]_vars
=============================================================================

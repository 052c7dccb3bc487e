--------------------------- MODULE ReplyDelivery ----------------------------
(***************************************************************************)
(* What a connection promises to the actors that answer remote asks through *)
(* reply leases: bounded capacity, one answer per ask, and no capacity     *)
(* given back before the answer is out.  ReplySlots implements it.         *)
(***************************************************************************)
EXTENDS Integers, FiniteSets

CONSTANTS
    Leases,   \* the leases that may be asked for
    AskOf,    \* AskOf[l]: the ask lease l would answer
    Limit     \* leases held at the same time, at most

VARIABLES
    held,     \* leases that hold a slot and its permits
    claim,    \* claim[a]: the lease that may answer ask a, or {}
    answer,   \* answer[l]: "none", "normal" (the reply) or "terminal" (cancelled)
    shut      \* the connection is being torn down

dvars == <<held, claim, answer, shut>>

DeliveryInit ==
    /\ held = {} /\ shut = FALSE
    /\ claim = [a \in {AskOf[l] : l \in Leases} |-> {}]
    /\ answer = [l \in Leases |-> "none"]

Grant(l) ==
    /\ l \notin held /\ Cardinality(held) < Limit
    /\ held' = held \cup {l}
    /\ UNCHANGED <<claim, answer, shut>>
Claim(l) ==
    /\ l \in held \/ shut
    /\ claim[AskOf[l]] = {}
    /\ claim' = [claim EXCEPT ![AskOf[l]] = {l}]
    /\ UNCHANGED <<held, answer, shut>>
(* The complete answer is on the wire. *)
Answer(l) ==
    /\ l \in held /\ claim[AskOf[l]] = {l} /\ answer[l] = "none" /\ ~shut
    /\ \E a \in {"normal", "terminal"} : answer' = [answer EXCEPT ![l] = a]
    /\ UNCHANGED <<held, claim, shut>>
(* The slot comes back once the answer is out, or when the lease may not answer. *)
Release(l) ==
    /\ l \in held /\ (answer[l] # "none" \/ claim[AskOf[l]] # {l} \/ shut)
    /\ held' = held \ {l}
    /\ UNCHANGED <<claim, answer, shut>>
Shut == shut' = TRUE /\ UNCHANGED <<held, claim, answer>>

DeliveryNext ==
    \/ \E l \in Leases : Grant(l) \/ Claim(l) \/ Answer(l) \/ Release(l)
    \/ Shut

DeliverySpec == DeliveryInit /\ [][DeliveryNext]_dvars
=============================================================================

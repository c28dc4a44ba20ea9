------------------------------ MODULE Delivery ------------------------------
(***************************************************************************)
(* What store-and-forward promises (docs/adr/0002, buffer.go, forwarder.go)*)
(* without saying how: frames are accepted in order into a bounded         *)
(* backlog; a frame leaves the backlog only when it was offered to         *)
(* Building OS, oldest first, or when the backlog alone overflows the ring *)
(* and the oldest are dropped; Building OS gets only offered frames.       *)
(***************************************************************************)
EXTENDS Integers

CONSTANT Capacity

VARIABLES
    accepted,   \* frames 1..accepted entered the gateway
    backlog,    \* accepted, neither settled nor dropped
    offered,    \* sent on some stream
    delivered,  \* accepted by Building OS
    dropped     \* evicted before an ack

deliveryVars == <<accepted, backlog, offered, delivered, dropped>>

DeliveryInit ==
    /\ accepted = 0
    /\ backlog = {}
    /\ offered = {}
    /\ delivered = {}
    /\ dropped = {}

\* A frame enters; only a backlog that fills the ring on its own drops, and it
\* drops its oldest frames.
Accept ==
    /\ accepted' = accepted + 1
    /\ backlog' \subseteq backlog \cup {accepted + 1}
    /\ LET out == (backlog \cup {accepted + 1}) \ backlog'
       IN  /\ dropped' = dropped \cup out
           /\ \A d \in out, k \in backlog' : d < k
           /\ out # {} => backlog' = (accepted' - Capacity + 1)..accepted'
    /\ UNCHANGED <<offered, delivered>>

Offer ==
    /\ \E s \in 1..accepted : offered' = offered \cup {s}
    /\ UNCHANGED <<accepted, backlog, delivered, dropped>>

Deliver ==
    /\ delivered \subseteq delivered'
    /\ delivered' \subseteq delivered \cup offered
    /\ UNCHANGED <<accepted, backlog, offered, dropped>>

\* The oldest frames leave the backlog, all of them offered.
Settle ==
    /\ backlog' \subseteq backlog
    /\ backlog \ backlog' \subseteq offered
    /\ \A s \in backlog \ backlog', k \in backlog' : s < k
    /\ UNCHANGED <<accepted, offered, delivered, dropped>>

DeliveryNext == Accept \/ Offer \/ Deliver \/ Settle

DeliverySpec == DeliveryInit /\ [][DeliveryNext]_deliveryVars
=============================================================================

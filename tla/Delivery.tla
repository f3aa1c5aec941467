------------------------------ MODULE Delivery ------------------------------
(***************************************************************************)
(* What the outbox promises, as OutboxWorker's comment puts it: at least   *)
(* once delivery.  A message is committed, then delivered any number of    *)
(* times, and only a message that has been delivered may be settled, after *)
(* which the sender need not try again.                                    *)
(***************************************************************************)
CONSTANT Message

VARIABLES committed, delivered, settled

vars == <<committed, delivered, settled>>

Init == committed = {} /\ delivered = {} /\ settled = {}

Commit ==
    /\ \E S \in SUBSET (Message \ committed) : committed' = committed \cup S
    /\ UNCHANGED <<delivered, settled>>

Deliver ==
    /\ \E m \in committed : delivered' = delivered \cup {m}
    /\ UNCHANGED <<committed, settled>>

Settle ==
    /\ \E S \in SUBSET delivered : settled' = settled \cup S
    /\ UNCHANGED <<committed, delivered>>

Next == Commit \/ Deliver \/ Settle

Spec == Init /\ [][Next]_vars
=============================================================================

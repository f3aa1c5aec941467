------------------------------ MODULE Journal -------------------------------
(***************************************************************************)
(* What the event log promises (README.md:95 "Credits always equal debits  *)
(* in every transaction", :98 "Unbalanced transactions are always          *)
(* rejected"): a journal of opened accounts and of transactions, each      *)
(* added by itself, balanced and in one valid currency when it is added,   *)
(* and kept as it is.                                                      *)
(***************************************************************************)
CONSTANTS
    AccountId,      \* identifiers of accounts
    TxId,           \* identifiers of transactions
    Recordable(_)   \* the lists of entries that may be recorded

VARIABLES
    opened,         \* the accounts with an AccountOpenedEvent
    recorded        \* the entries of every TransactionRecordedEvent

Init == opened \subseteq AccountId /\ recorded = [t \in {} |-> <<>>]

Open(a) == opened' = opened \cup {a} /\ UNCHANGED recorded

Record(t) ==
    /\ t \notin DOMAIN recorded
    /\ DOMAIN recorded' = DOMAIN recorded \cup {t}
    /\ \A u \in DOMAIN recorded : recorded'[u] = recorded[u]
    /\ Recordable(recorded'[t])
    /\ UNCHANGED opened

Next == (\E a \in AccountId : Open(a)) \/ (\E t \in TxId : Record(t))

Spec == Init /\ [][Next]_<<opened, recorded>>
=============================================================================

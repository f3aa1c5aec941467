-------------------------- MODULE AtomicProjection --------------------------
(***************************************************************************)
(* What the projector promises, and the step LedgerService takes it for:   *)
(* the projection of a transaction happens at once or not at all, except   *)
(* for first entries on accounts that had no row when it began.            *)
(***************************************************************************)
EXTENDS Projection

CONSTANTS
    Tx,             \* the recorded transactions
    Scenarios,      \* bound: the events they may have, and the accounts with a row
    MaxFaults       \* bound: how many projections end by a failure from outside

VARIABLES
    event,          \* the TransactionRecordedEvent of each transaction
    balances,       \* the balance of every account that has a row
    history,        \* the transactions with rows in transaction_history
    missed,         \* the entries that were applied to no row
    state,          \* "new", "active" or "ended", for each transaction
    absent,         \* the accounts that had no row when the projection began
    failed          \* failures so far

vars == <<event, balances, history, missed, state, absent, failed>>

AccountsOf(es) == {es[k].account : k \in DOMAIN es}

Init ==
    /\ \E s \in Scenarios : event = s.event /\ balances = [a \in s.open |-> 0]
    /\ history = {}
    /\ missed = {}
    /\ state = [t \in Tx |-> "new"]
    /\ absent = [t \in Tx |-> {}]
    /\ failed = 0

Open(a) ==
    /\ a \notin DOMAIN balances
    /\ balances' = [b \in DOMAIN balances \cup {a} |-> IF b = a THEN 0 ELSE balances[b]]
    /\ UNCHANGED <<event, history, missed, state, absent, failed>>

Begin(t) ==
    /\ state[t] = "new"
    /\ state' = [state EXCEPT ![t] = "active"]
    /\ absent' = [absent EXCEPT ![t] = AccountsOf(event[t].entries) \ DOMAIN balances]
    /\ UNCHANGED <<event, balances, history, missed, failed>>

Project(t) ==
    LET es == event[t].entries IN
    /\ state[t] = "active"
    /\ state' = [state EXCEPT ![t] = "ended"]
    /\ history' = history \cup {t}
    /\ \E S \in SUBSET Missable(es, absent[t]) :
           /\ Applicable(Missing(es, S), balances)
           /\ balances' = [a \in DOMAIN balances |->
                             balances[a] + NetUpTo(Missing(es, S), Len(es), a)]
           /\ missed' = missed \cup {<<t, k>> : k \in S}
    /\ UNCHANGED <<event, absent, failed>>

\* The reasons LedgerService has for a projection that changes nothing.
Skip(t) ==
    LET es == event[t].entries
        active == {u \in Tx : state[u] = "active"} IN
    /\ state[t] = "active"
    /\ state' = [state EXCEPT ![t] = "ended"]
    /\ UNCHANGED <<event, balances, history, missed, absent, failed>>
    /\ \/ \E S \in SUBSET Missable(es, absent[t]) : ~Applicable(Missing(es, S), balances)
       \/ LockCycle([u \in active |-> event[u].entries], t)

Drop(U) ==
    /\ failed < MaxFaults /\ failed' = failed + 1
    /\ \A t \in U : state[t] = "active"
    /\ state' = [t \in Tx |-> IF t \in U THEN "ended" ELSE state[t]]
    /\ UNCHANGED <<event, balances, history, missed, absent>>

Next ==
    \/ \E a \in AccountId : Open(a)
    \/ \E t \in Tx : Begin(t) \/ Project(t) \/ Skip(t)
    \/ \E U \in SUBSET Tx : Drop(U)

Spec == Init /\ [][Next]_vars
=============================================================================

----------------------------- MODULE Projector ------------------------------
(***************************************************************************)
(* PostgresProjector (internal/projection/projector.go), one step per SQL  *)
(* statement, and the queries of PostgresQueryService                      *)
(* (internal/projection/query_service.go) as the handlers call them.       *)
(* Postgres, at READ COMMITTED, is modelled by what the statements see: a  *)
(* row that a transaction has updated is locked until it ends, an UPDATE   *)
(* of a locked row waits, a SELECT sees the transaction's own version of a *)
(* row or the committed one, and all of it is committed or rolled back.    *)
(*                                                                         *)
(* A name, a type, a currency and a description are copied and not         *)
(* modelled; updated_at and created_at are the time of the event.          *)
(***************************************************************************)
EXTENDS Projection, SequencesExt

CONSTANTS
    Tx,             \* the recorded transactions; each is projected once
    Scenarios,      \* bound: their events, and the accounts that have a row
    Limit,          \* the rows of a page of history, 100 in the handler
    MaxFaults,      \* bound: how many failures from outside
    None            \* no value

ASSUME ProjectorAssumption == Limit \in Nat \ {0} /\ MaxFaults \in Nat

VARIABLES
    event,          \* [entries, time] of each transaction
    balances,       \* account_balances: [balance, version] of each account
    history,        \* transaction_history
    f,              \* the frame of each projection
    failed,         \* failures so far
    missed,         \* history variable: committed entries that updated no row
    seen            \* history variable: a balance that some client was shown

readModel == <<balances, history, missed>>
vars == <<event, readModel, f, failed, seen>>

\* A frame: the entry the loop is at, the rows updated (and so locked) and the
\* history rows inserted and not committed, balanceAfter, and two history
\* variables: the entries that updated no row, and the accounts without a row
\* when the projection began.
NoWrites == [a \in {} |-> 0]
New == [pc |-> "new", k |-> 1, work |-> NoWrites, rows |-> {}, after |-> 0,
        skipped |-> {}, absent |-> {}]

Active(t) == f[t].pc \notin {"new", "ended"}
At(t) == event[t].entries[f[t].k]

Holders(a) == {t \in Tx : a \in DOMAIN f[t].work}

\* The row of account a as transaction t sees it.
RowSeen(t, a) == IF a \in DOMAIN f[t].work THEN f[t].work[a] ELSE balances[a]

WithRow(rows, a, row) == [b \in DOMAIN rows \cup {a} |-> IF b = a THEN row ELSE rows[b]]

\* The frame of a transaction that has ended holds nothing.
End(g) == [New EXCEPT !.pc = "ended", !.absent = g.absent]

-----------------------------------------------------------------------------
(* The projector.                                                          *)

NewRow == [balance |-> 0, version |-> 1]

\* ON CONFLICT DO NOTHING never applies: an account is opened once.
ProjectAccountOpened(a) ==
    /\ a \notin DOMAIN balances
    /\ balances' = WithRow(balances, a, NewRow)
    /\ UNCHANGED <<event, history, missed, f, failed, seen>>

Begin(t) ==
    /\ f[t].pc = "new"
    /\ f' = [f EXCEPT ![t].pc = "update",
                      ![t].absent = {e.account : e \in ToSet(event[t].entries)}
                                        \ DOMAIN balances]
    /\ UNCHANGED <<event, readModel, failed, seen>>

\* The row as the UPDATE for entry e leaves it.
Updated(row, e) == [balance |-> row.balance + Delta(e), version |-> row.version + 1]

\* Mutant: the new balance is computed from one that was read without the lock.
UpdateRow_NoLock(t) ==
    LET id == At(t).account
        row == Updated(RowSeen(t, id), At(t)) IN
    /\ id \in DOMAIN balances
    /\ row.balance \in Int64
    /\ f' = [f EXCEPT ![t].pc = "select", ![t].work = WithRow(@, id, row)]

UpdateRow(t) ==
    LET id == At(t).account
        row == Updated(RowSeen(t, id), At(t)) IN
    /\ id \in DOMAIN balances
    /\ Holders(id) \subseteq {t}
    /\ row.balance \in Int64
    /\ f' = [f EXCEPT ![t].pc = "select", ![t].work = WithRow(@, id, row)]

\* No row, and no error.
UpdateNothing(t) ==
    /\ At(t).account \notin DOMAIN balances
    /\ f' = [f EXCEPT ![t].pc = "select", ![t].skipped = @ \cup {f[t].k}]

Update(t) ==
    /\ f[t].pc = "update"
    /\ UpdateRow(t) \/ UpdateNothing(t)
    /\ UNCHANGED <<event, readModel, failed, seen>>

\* Mutant: balance_after is the balance that is committed.
Select_Committed(t) ==
    /\ f[t].pc = "select"
    /\ At(t).account \in DOMAIN balances
    /\ f' = [f EXCEPT ![t].pc = "insert", ![t].after = balances[At(t).account].balance]
    /\ UNCHANGED <<event, readModel, failed, seen>>

Select(t) ==
    /\ f[t].pc = "select"
    /\ At(t).account \in DOMAIN balances
    /\ f' = [f EXCEPT ![t].pc = "insert", ![t].after = RowSeen(t, At(t).account).balance]
    /\ UNCHANGED <<event, readModel, failed, seen>>

\* The next value of id.  BIGSERIAL numbers all rows; here those of an account.
NextId(a) ==
    Max({r.id : r \in {r \in history \cup UNION {f[t].rows : t \in Tx} : r.account = a}}
            \cup {0}) + 1

\* The history row, and the end of the loop's body.
Insert(t) ==
    /\ f[t].pc = "insert"
    /\ LET row == [id |-> NextId(At(t).account), tx |-> t, k |-> f[t].k, account |-> At(t).account,
                   after |-> f[t].after, time |-> event[t].time]
           last == f[t].k = Len(event[t].entries)
       IN  f' = [f EXCEPT ![t].rows = @ \cup {row}, ![t].after = 0,
                          ![t].pc = IF last THEN "commit" ELSE "update",
                          ![t].k = IF last THEN @ ELSE @ + 1]
    /\ UNCHANGED <<event, readModel, failed, seen>>

Commit(t) ==
    /\ f[t].pc = "commit"
    /\ balances' = [a \in DOMAIN balances |-> RowSeen(t, a)]
    /\ history' = history \cup f[t].rows
    /\ missed' = missed \cup {<<t, k>> : k \in f[t].skipped}
    /\ f' = [f EXCEPT ![t] = End(@)]
    /\ UNCHANGED <<event, failed, seen>>

-----------------------------------------------------------------------------
(* Errors: the deferred Rollback.                                          *)

Rollback(U) == f' = [t \in Tx |-> IF t \in U THEN End(f[t]) ELSE f[t]]

\* The UPDATE leaves the range of BIGINT, or the SELECT finds no row.
StatementError(t) ==
    /\ LET id == At(t).account IN
       \/ /\ f[t].pc = "update" /\ id \in DOMAIN balances /\ Holders(id) \subseteq {t}
          /\ Updated(RowSeen(t, id), At(t)).balance \notin Int64
       \/ f[t].pc = "select" /\ id \notin DOMAIN balances
    /\ Rollback({t})
    /\ UNCHANGED <<event, readModel, failed, seen>>

\* The transactions t waits for.
WaitsFor(t) == IF f[t].pc = "update" THEN Holders(At(t).account) \ {t} ELSE {}


\* Postgres aborts one of the transactions that wait for one another.
DeadlockVictim(t) ==
    /\ \E C \in SUBSET Tx : t \in C /\ UNION {WaitsFor(u) : u \in C} = C
    /\ Rollback({t})
    /\ UNCHANGED <<event, readModel, failed, seen>>

\* A connection is lost or a request cancelled (one projection), or the process
\* stops (all of them).
Drop(U) ==
    /\ failed < MaxFaults /\ failed' = failed + 1
    /\ U # {} /\ \A t \in U : Active(t)
    /\ Rollback(U)
    /\ UNCHANGED <<event, readModel, seen>>

-----------------------------------------------------------------------------
(* The queries.                                                            *)

\* GetBalance answers 404 for an account without a row.
GetAccountBalance(a) ==
    /\ seen = None
    /\ a \in DOMAIN balances
    /\ seen' = [account |-> a, view |-> balances[a]]
    /\ UNCHANGED <<event, readModel, f, failed>>

RowsOf(a) == {r \in history : r.account = a}

\* Mutant: the page starts at offset 1.
GetTransactionHistory_Offset(a) ==
    LET older == {r \in RowsOf(a) : \E s \in RowsOf(a) : s.time > r.time} IN
    {P \in SUBSET older :
        /\ Cardinality(P) = Min({Limit, Cardinality(older)})
        /\ \A r \in P, s \in older \ P : r.time >= s.time}

\* What GetTransactionHistory may answer: ORDER BY created_at DESC LIMIT, with
\* rows of equal time in any order.
GetTransactionHistory(a) ==
    {P \in SUBSET RowsOf(a) :
        /\ Cardinality(P) = Min({Limit, Cardinality(RowsOf(a))})
        /\ \A r \in P, s \in RowsOf(a) \ P : r.time >= s.time}

-----------------------------------------------------------------------------

Init ==
    /\ \E s \in Scenarios : event = s.event /\ balances = [a \in s.open |-> NewRow]
    /\ history = {}
    /\ f = [t \in Tx |-> New]
    /\ failed = 0
    /\ missed = {}
    /\ seen = None

Statement(t) ==
    Update(t) \/ Select(t) \/ Insert(t) \/ Commit(t) \/ StatementError(t) \/ DeadlockVictim(t)

Next ==
    \/ \E a \in AccountId : ProjectAccountOpened(a) \/ GetAccountBalance(a)
    \/ \E t \in Tx : Begin(t) \/ Statement(t)
    \/ \E U \in SUBSET Tx : Drop(U)

Spec == Init /\ [][Next]_vars

\* A projection goes on to its next statement; Postgres wakes the transactions
\* that wait for a row when it is free, and looks for deadlocks.
FairSpec == Spec /\ \A t \in Tx : WF_vars(Statement(t))

-----------------------------------------------------------------------------
(* Properties.                                                             *)

State(t) == IF Active(t) THEN "active" ELSE f[t].pc

Abstract == INSTANCE AtomicProjection WITH
    balances <- [a \in DOMAIN balances |-> balances[a].balance],
    history <- {r.tx : r \in history},
    state <- [t \in Tx |-> State(t)],
    absent <- [t \in Tx |-> f[t].absent]

\* Statement by statement, ProjectTransactionRecorded is the one step that
\* LedgerService takes it for, and it fails only for the reasons given there:
\* row locks and the database transaction make the loop atomic for any
\* interleaving, failure or deadlock, except for entries whose UPDATE found no
\* row and whose SELECT did.
ImplementsAtomicProjection == Abstract!Spec

\* The committed history rows of account a that updated it.
Applied(a) == {r \in RowsOf(a) : <<r.tx, r.k>> \notin missed}

\* In the order of their ids the history rows of an account lead from 0 to its
\* balance: each balance_after is the one before it plus the entry's delta, the
\* last is the balance, and version counts them.  Rows of entries that updated
\* nothing are left out.
HistoryChains ==
    \A a \in DOMAIN balances :
        LET prior(r) == {s \in Applied(a) : s.id < r.id}
            before(r) == IF prior(r) = {} THEN 0
                         ELSE (CHOOSE s \in prior(r) : \A u \in prior(r) : u.id <= s.id).after
        IN  /\ \A r \in Applied(a) : r.after = before(r) + Delta(event[r.tx].entries[r.k])
            /\ Cardinality(Applied(a)) = balances[a].version - 1
            /\ IF Applied(a) = {} THEN balances[a].balance = 0
               ELSE \E r \in Applied(a) : r.after = balances[a].balance
                                          /\ \A s \in Applied(a) : s.id <= r.id

\* A client that was shown a balance and then asks for the account's history
\* finds, in a page that is not full, the row that led to the balance, whatever
\* is projected between the two queries.
BalanceIsInHistory ==
    seen # None =>
        \A P \in GetTransactionHistory(seen.account) : Cardinality(P) < Limit =>
            \/ seen.view = NewRow
            \/ \E r \in P : r.after = seen.view.balance

=============================================================================

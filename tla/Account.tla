------------------------------ MODULE Account ------------------------------
(***************************************************************************)
(* The Account entity of internal/domain/account/account.go.  Accounts are *)
(* immutable values in the code: every operation returns a new one, so     *)
(* every operation is an operator here, with its error cases in a          *)
(* predicate of its own (CreditOK, DebitOK).  The timestamps are left out. *)
(***************************************************************************)
EXTENDS Money

CONSTANT Name       \* account names; "" is the one NewAccount rejects

AccountType == {"ASSET", "LIABILITY", "EQUITY"}
Status == {"ACTIVE", "SUSPENDED", "CLOSED"}

\* The balance is a Money whose currency is always the account's own, so the
\* record keeps one currency and the amount.
AccountRow ==
    [name : Name, type : AccountType, currency : Currency,
     balance : Int64, status : Status]

\* Mutant: the currency is not validated.
NewAccountOK_AnyCurrency(name, currency) == name # ""

NewAccountOK(name, currency) == name # "" /\ currency \in Currency

NewAccountWithType(name, type, currency) ==
    [name |-> name, type |-> type, currency |-> currency,
     balance |-> 0, status |-> "ACTIVE"]

AllowsNegativeBalance(a) == a.type \in {"LIABILITY", "EQUITY"}

validateOperation(a, m) ==
    /\ a.status = "ACTIVE"
    /\ ~IsZero(m)
    /\ m.currency = a.currency

CreditOK(a, m) == validateOperation(a, m)

Credit(a, m) == [a EXCEPT !.balance = Add(@, m.amount)]

\* Mutants: the amount is compared with the balance, which is no check of
\* the result for negative amounts; funds are not checked at all.
DebitOK_Compare(a, m) ==
    validateOperation(a, m) /\ (a.balance >= m.amount \/ AllowsNegativeBalance(a))
DebitOK_Unchecked(a, m) == validateOperation(a, m)

DebitOK(a, m) ==
    /\ validateOperation(a, m)
    /\ Subtract(a.balance, m.amount) >= 0 \/ AllowsNegativeBalance(a)

Debit(a, m) == [a EXCEPT !.balance = Subtract(@, m.amount)]

Suspend(a) == IF a.status = "ACTIVE" THEN [a EXCEPT !.status = "SUSPENDED"] ELSE a

\* Mutant: a closed account comes back too.
Reactivate_Closed(a) == [a EXCEPT !.status = "ACTIVE"]

Reactivate(a) == IF a.status = "SUSPENDED" THEN [a EXCEPT !.status = "ACTIVE"] ELSE a

Close(a) == [a EXCEPT !.status = "CLOSED"]
=============================================================================

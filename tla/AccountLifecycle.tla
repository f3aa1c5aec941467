-------------------------- MODULE AccountLifecycle --------------------------
(***************************************************************************)
(* One account value under every operation of the Account entity, in any   *)
(* order, with every amount of the integer range and every currency code.  *)
(* No service calls Suspend, Reactivate or Close, so this is where they    *)
(* are exercised, as the entity's own unit tests do.                       *)
(***************************************************************************)
EXTENDS Account

VARIABLE acc

EntityInit ==
    \E name \in Name, type \in AccountType, currency \in CurrencyCode :
        /\ NewAccountOK(name, currency)
        /\ acc = NewAccountWithType(name, type, currency)

CreditAny == \E m \in Money : CreditOK(acc, m) /\ acc' = Credit(acc, m)
DebitAny == \E m \in Money : DebitOK(acc, m) /\ acc' = Debit(acc, m)
SuspendAccount == acc' = Suspend(acc)
ReactivateAccount == acc' = Reactivate(acc)
CloseAccount == acc' = Close(acc)

EntityNext == CreditAny \/ DebitAny \/ SuspendAccount \/ ReactivateAccount \/ CloseAccount

EntitySpec == EntityInit /\ [][EntityNext]_acc

-----------------------------------------------------------------------------

EntityTypeOK == acc \in AccountRow

\* An accepted debit of an asset account that holds money is exact: whatever
\* the amount, negative and extreme ones included, wrap-around cannot carry the
\* new balance past the ErrInsufficientFunds check.
AssetDebitIsExact ==
    acc.type = "ASSET" /\ acc.balance >= 0 =>
        \A m \in Money : DebitOK(acc, m) =>
            /\ Debit(acc, m).balance = acc.balance - m.amount
            /\ Debit(acc, m).balance >= 0

\* A credit of the same amount takes back every accepted debit, and is itself
\* accepted, also where the balance wrapped: what the compensation of a
\* transfer relies on.
CreditUndoesDebit ==
    \A m \in Money : DebitOK(acc, m) =>
        /\ CreditOK(Debit(acc, m), m)
        /\ Credit(Debit(acc, m), m) = acc

\* Money moves only while the account is active, and a closed account never
\* changes again: no sequence of Suspend, Reactivate and Close reopens it.
ClosedIsFinal ==
    [][/\ acc.status = "CLOSED" => acc' = acc
       /\ acc.status # "ACTIVE" => acc'.balance = acc.balance]_acc
=============================================================================

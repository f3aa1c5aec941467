-------------------------- MODULE MCLedgerService --------------------------
(* Small instances of LedgerService for TLC. *)
EXTENDS LedgerService, TLC

CONSTANTS a, b, l, m, n1, n2, n3

\* Two empty asset accounts.
MCSeed == a :> NewAccountWithType("alice", "ASSET", "USD")
          @@ b :> NewAccountWithType("bob", "ASSET", "USD")

\* An account that may go negative, so that the others need no deposit first.
SeedWithLoan == MCSeed @@ l :> NewAccountWithType("loan", "LIABILITY", "USD")

\* Two of those, for amounts that overflow.
SeedWithLoans == SeedWithLoan @@ m :> NewAccountWithType("loan", "LIABILITY", "USD")

MCEquityName ==
    "USD" :> "System Equity (USD)" @@ "EUR" :> "System Equity (EUR)" @@ "XXX" :> "System Equity (XXX)"
MCSuspenseName ==
    "USD" :> "System Suspense (USD)" @@ "EUR" :> "System Suspense (EUR)" @@ "XXX" :> "System Suspense (XXX)"

E(account, amount, type) ==
    [account |-> account, amount |-> amount, currency |-> "USD", type |-> type]

Record(es) == [kind |-> "record", entries |-> es]
Move(x, y, n) == Record(<<E(x, n, "DEBIT"), E(y, n, "CREDIT")>>)
DepositTo(x, n) == [kind |-> "deposit", account |-> x, amount |-> n, currency |-> "USD"]
Open(name, type, currency) ==
    [kind |-> "open", name |-> name, type |-> type, currency |-> currency]

\* A deposit that opens the equity account, moves both ways between two
\* accounts, a move to an account that does not exist, an account opened, and a
\* deposit of nothing; between the liability accounts, the smallest int64 on
\* both sides, which overflows when repeated, and a transaction that balances
\* only because int64 wraps.
FaultRequests ==
    {DepositTo(a, 2), Move(a, b, 1), Move(b, a, 1), Move(a, NoAccount, 1),
     Open("carol", "CHECKING", "USD"), DepositTo(a, 0),
     Record(<<E(l, -Half, "DEBIT"), E(m, -Half, "CREDIT")>>),
     Record(<<E(l, Half - 1, "DEBIT"), E(l, 1, "DEBIT"), E(m, -Half, "CREDIT")>>)}

\* Two ways to spend the same deposit.
SpendRequests == {DepositTo(a, 1), Move(a, b, 1)}

\* Handlers, and the identifiers of accounts yet to be opened, are
\* interchangeable.
Perms == Permutations(Proc) \cup Permutations({n1, n2, n3})
=============================================================================

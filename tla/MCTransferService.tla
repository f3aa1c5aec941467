------------------------- MODULE MCTransferService -------------------------
(* Small instances of TransferService for TLC. *)
EXTENDS TransferService, TLC

CONSTANTS a, b, eur, s, n1, n2, n3

\* A liability account can send without being funded first; an asset account
\* starts empty and cannot.
MCSeed == a :> NewAccountWithType("alice", "LIABILITY", "USD")
          @@ b :> NewAccountWithType("bob", "ASSET", "USD")

\* The same with the suspense account already open.
SeedWithSuspense == MCSeed @@ s :> NewAccountWithType("System Suspense (USD)", "LIABILITY", "USD")

MCEquityName ==
    "USD" :> "System Equity (USD)" @@ "EUR" :> "System Equity (EUR)" @@ "XXX" :> "System Equity (XXX)"
MCSuspenseName ==
    "USD" :> "System Suspense (USD)" @@ "EUR" :> "System Suspense (EUR)" @@ "XXX" :> "System Suspense (XXX)"

DepositTo(x, n) == [kind |-> "deposit", account |-> x, amount |-> n, currency |-> "USD"]
Send(x, y, n) ==
    [kind |-> "transfer", from |-> x, to |-> y, amount |-> n, currency |-> "USD"]

\* A transfer that can succeed, one that succeeds once the first has, and one
\* whose destination does not exist.
TransferRequests == {Send(a, b, 1), Send(b, a, 1), Send(a, NoAccount, 2)}

E(account, amount, type) ==
    [account |-> account, amount |-> amount, currency |-> "USD", type |-> type]
Record(es) == [kind |-> "record", entries |-> es]
Open(name) == [kind |-> "open", name |-> name, type |-> "CHECKING", currency |-> "USD"]

\* Transactions that NewTransaction refuses: unbalanced, a single entry, a zero
\* amount, two currencies.
Malformed ==
    {Record(<<E(b, 1, "DEBIT"), E(a, 2, "CREDIT")>>),
     Record(<<E(a, 1, "DEBIT")>>),
     Record(<<E(a, 1, "DEBIT"), E(b, 0, "DEBIT"), E(b, 1, "CREDIT")>>),
     Record(<<E(a, 1, "DEBIT"), [E(b, 1, "CREDIT") EXCEPT !.currency = "EUR"]>>)}

\* Every endpoint: also a transfer to the sender itself, one of nothing, one to
\* an account in another currency that refuses the credit, a deposit of
\* nothing, one in an unknown currency, one transaction that moves an account
\* twice, and an account without a name.
EveryRequest ==
    TransferRequests \cup Malformed \cup
    {Send(a, a, 1), Send(a, eur, 1), Send(a, b, 0), DepositTo(b, 2), DepositTo(b, 0),
     [DepositTo(b, 1) EXCEPT !.currency = "XXX"], Open("carol"), Open(""),
     Record(<<E(b, 2, "DEBIT"), E(a, 1, "CREDIT"), E(b, 1, "CREDIT")>>)}

SeedWithEuro == MCSeed @@ eur :> NewAccountWithType("eve", "ASSET", "EUR")

\* Handlers are interchangeable.
ProcPerms == Permutations(Proc)
=============================================================================

SPECIFICATION TSpec
CONSTANTS
    CurrencyCode = {"USD", "EUR", "XXX"}
    Currency = {"USD", "EUR"}
    Half = 64
    Name = {"", "alice", "bob", "carol", "eve",
            "System Equity (USD)", "System Equity (EUR)", "System Equity (XXX)",
            "System Suspense (USD)", "System Suspense (EUR)", "System Suspense (XXX)"}
    a = a
    b = b
    eur = eur
    s = s
    n1 = n1
    n2 = n2
    n3 = n3
    AccountId = {a, b, n1, n2}
    NoAccount = NoAccount
    TypeCode = {"ASSET", "LIABILITY", "EQUITY", "CHECKING"}
    EntryType = {"DEBIT", "CREDIT"}
    Proc = {p1}
    TxId = {1, 2, 3, 4, 5, 6}
    EquityName <- MCEquityName
    SuspenseName <- MCSuspenseName
    Seed <- MCSeed
    Requests <- TransferRequests
    MaxRequests = 2
    Faults = {}
    MaxFaults = 0
    None = None
INVARIANTS
    MoneyConserved

SPECIFICATION Spec
CONSTANTS
    CurrencyCode = {"USD", "EUR", "XXX"}
    Currency = {"USD", "EUR"}
    Half = 64
    Name = {"", "alice", "bob", "carol", "loan",
            "System Equity (USD)", "System Equity (EUR)", "System Equity (XXX)",
            "System Suspense (USD)", "System Suspense (EUR)", "System Suspense (XXX)"}
    a = a
    b = b
    l = l
    m = m
    n1 = n1
    n2 = n2
    n3 = n3
    AccountId = {a, b, l, m, n1, n2, n3}
    NoAccount = NoAccount
    TypeCode = {"ASSET", "LIABILITY", "EQUITY", "CHECKING"}
    EntryType = {"DEBIT", "CREDIT"}
    Proc = {p1, p2}
    TxId = {1, 2, 3, 4}
    EquityName <- MCEquityName
    SuspenseName <- MCSuspenseName
    Seed <- MCSeed
    Requests <- SpendRequests
    MaxRequests = 3
    Faults = {}
    MaxFaults = 0
    None = None
SYMMETRY Perms
INVARIANTS
    NoOverdraft

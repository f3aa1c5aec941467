SPECIFICATION Spec
CONSTANTS
    CurrencyCode = {"USD", "EUR", "XXX"}
    Currency = {"USD", "EUR"}
    Half = 64
    Name = {"", "alice", "bob", "carol", "loan",
            "System Equity (USD)", "System Equity (EUR)", "System Equity (XXX)",
            "System Suspense (USD)", "System Suspense (EUR)", "System Suspense (XXX)"}
    a = a
    b = b
    l = l
    m = m
    n1 = n1
    n2 = n2
    n3 = n3
    AccountId = {a, b, l, m, n1, n2, n3}
    NoAccount = NoAccount
    TypeCode = {"ASSET", "LIABILITY", "EQUITY", "CHECKING"}
    EntryType = {"DEBIT", "CREDIT"}
    Proc = {p1, p2}
    TxId = {1, 2, 3, 4}
    EquityName <- MCEquityName
    SuspenseName <- MCSuspenseName
    Seed <- SeedWithLoans
    Requests <- FaultRequests
    MaxRequests = 3
    Faults = {"db", "lost_ack", "crash"}
    MaxFaults = 2
    None = None
SYMMETRY Perms
INVARIANTS
    TypeOK
    HandlersGrounded
    AssetNonNegative
    ReadModelGrounded
    ReadModelIsProjection
    ReadModelConserved
    AcknowledgedIsRecorded
    DriftIsExplained
PROPERTIES
    ImplementsJournal

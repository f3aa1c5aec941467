SPECIFICATION FairSpec
CONSTANTS
    a = a
    b = b
    c = c
    t1 = t1
    t2 = t2
    t3 = t3
    usd = usd
    None = None
    NoAccount = NoAccount
    AccountId = {a, b, c}
    CurrencyCode = {usd}
    Currency = {usd}
    EntryType = {"DEBIT", "CREDIT"}
    Half <- MCHalf
    Tx = {t1, t2, t3}
    Scenarios <- MCScenarios
    Limit = 3
    MaxFaults = 1
INVARIANTS
    HistoryChains
    BalanceIsInHistory
PROPERTIES
    ImplementsAtomicProjection
    
CHECK_DEADLOCK FALSE

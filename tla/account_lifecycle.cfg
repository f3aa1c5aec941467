SPECIFICATION EntitySpec
CONSTANTS
    CurrencyCode = {"USD", "EUR"}
    Currency = {"USD"}
    Half = 8
    Name = {"", "alice"}
INVARIANTS
    EntityTypeOK
    AssetDebitIsExact
    CreditUndoesDebit
PROPERTIES
    ClosedIsFinal

---------------------------- MODULE Transaction ----------------------------
(***************************************************************************)
(* Entries and the Transaction aggregate of internal/domain/ledger         *)
(* (entry.go, transaction.go).  A transaction is the sequence of its       *)
(* entries; an entry's type is a string the constructor does not validate, *)
(* so an entry may be neither a DEBIT nor a CREDIT.                        *)
(***************************************************************************)
EXTENDS Money, Sequences, FiniteSetsExt

CONSTANTS
    AccountId,      \* identifiers GenerateAccountID may return
    NoAccount,      \* the zero AccountID, or any id no stored account has
    EntryType       \* entry type strings a request may carry

ASSUME EntryAssumption == NoAccount \notin AccountId

Entry ==
    [account : AccountId \cup {NoAccount}, amount : Int64,
     currency : CurrencyCode, type : EntryType]

\* totalDebits and totalCredits: an int64 accumulator over the entries of
\* one type.  Entries of any other type are in neither.
Total(es, type) ==
    Wrap(SumFunctionOnSet([k \in DOMAIN es |-> es[k].amount],
                          {k \in DOMAIN es : es[k].type = type}))


\* The checks of NewTransaction, all of which must pass.
NewTransactionOK(es) ==
    /\ Len(es) >= 2
    /\ \A k \in DOMAIN es : ~IsZero(es[k])
    /\ \A k \in DOMAIN es : es[k].currency = es[1].currency
    /\ Total(es, "DEBIT") = Total(es, "CREDIT")

\* What RecordTransaction checks before its first storage call: NewMoney on
\* every entry, and NewTransaction.
Recordable(es) == (\A k \in DOMAIN es : NewMoneyOK(es[k])) /\ NewTransactionOK(es)
=============================================================================

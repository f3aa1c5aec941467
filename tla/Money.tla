------------------------------- MODULE Money -------------------------------
(***************************************************************************)
(* The Money value object of internal/domain/ledger/money.go and the       *)
(* machine integers under it.  An amount is a Go int64; the model keeps    *)
(* the wrap-around and makes the width a parameter, so that TLC can reach  *)
(* the boundary with small numbers.                                        *)
(***************************************************************************)
EXTENDS Integers

CONSTANTS
    CurrencyCode,   \* every currency string a request may carry
    Currency,       \* validCurrencies, the ones NewMoney accepts
    Half            \* 2^63: an int64 ranges over -Half .. Half - 1

ASSUME MoneyAssumption ==
    /\ Currency \subseteq CurrencyCode
    /\ Half \in Nat \ {0}

Int64 == -Half .. Half - 1

\* The value a Go int64 expression has when its exact result is n.
Wrap(n) == ((n + Half) % (2 * Half)) - Half

Money == [amount : Int64, currency : CurrencyCode]

\* NewMoney returns an error for a currency outside validCurrencies; the
\* amount is not examined, so negative amounts are Money too.
NewMoneyOK(m) == m.currency \in Currency

IsZero(m) == m.amount = 0

\* Mutant: arithmetic that stops at the ends of the range.
AddSaturating(x, y) ==
    IF x + y >= Half THEN Half - 1 ELSE IF x + y < -Half THEN -Half ELSE x + y

\* Add, Subtract and Negate on amounts of one currency.
Add(x, y) == Wrap(x + y)
Subtract(x, y) == Wrap(x - y)
Negate(x) == Wrap(-x)
=============================================================================

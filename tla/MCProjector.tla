----------------------------- MODULE MCProjector ----------------------------
(***************************************************************************)
(* Projector for TLC: three transactions on up to three accounts.          *)
(***************************************************************************)
EXTENDS Projector

CONSTANTS a, b, c, t1, t2, t3, usd

MCHalf == 4

E(type, account, amount) ==
    [account |-> account, amount |-> amount, currency |-> usd, type |-> type]

Transfer(x, y, n) == <<E("DEBIT", x, n), E("CREDIT", y, n)>>

\* The accounts with a row, and the entries and times of the transactions.
Scenario(open, e1, e2, e3, n1, n2, n3) ==
    [open |-> open,
     event |-> (t1 :> [entries |-> e1, time |-> n1]) @@ (t2 :> [entries |-> e2, time |-> n2])
                   @@ (t3 :> [entries |-> e3, time |-> n3])]

MCScenarios == {
    \* Opposite orders, and an account twice in one transaction.
    Scenario({b, c}, Transfer(a, b, 1), Transfer(b, a, 2), <<E("DEBIT", a, 1), E("CREDIT", a, 1)>>, 1, 2, 2),
    \* A circle of three.
    Scenario({a, b, c}, Transfer(a, b, 1), Transfer(b, c, 1), Transfer(c, a, 1), 3, 2, 1),
    \* An account that is opened while two transactions credit it.
    Scenario({a, c}, Transfer(a, b, 1), <<E("CREDIT", b, 2), E("DEBIT", c, 2)>>,
             Transfer(c, a, 1), 1, 2, 3),
    \* BIGINT at its limit.
    Scenario({a, b, c}, Transfer(a, b, 3), Transfer(a, b, 2), Transfer(b, a, 2), 1, 1, 2)}
=============================================================================

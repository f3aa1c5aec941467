----------------------------- MODULE Projection -----------------------------
(***************************************************************************)
(* What PostgresProjector (internal/projection/projector.go) makes of the  *)
(* entries of one recorded transaction, as operators on a table of         *)
(* balances bal.  LedgerService takes a projection as one step;            *)
(* AtomicProjection states that step by itself and Projector takes it      *)
(* apart into statements.                                                  *)
(***************************************************************************)
EXTENDS Transaction

\* Mutant: debits are added.
Delta_Unsigned(e) == e.amount

\* The delta added to an account's balance for one entry: every type that is
\* not CREDIT is subtracted.
Delta(e) == IF e.type = "CREDIT" THEN e.amount ELSE Negate(e.amount)

\* What the first n entries of es add to account a.
NetUpTo(es, n, a) ==
    SumFunctionOnSet([k \in DOMAIN es |-> Delta(es[k])],
                     {k \in 1..n : es[k].account = a})

\* Mutant: an UPDATE of no row goes unnoticed.
Applicable_MissingRow(es, bal) ==
    \A n \in DOMAIN es : \A a \in DOMAIN bal :
        bal[a] + NetUpTo(es, n, a) \in Int64

\* The statements for es succeed when the SELECT after each UPDATE finds the
\* row (the UPDATE itself does not fail on a missing one) and no UPDATE leaves
\* the range of BIGINT.
Applicable(es, bal) ==
    /\ \A k \in DOMAIN es : es[k].account \in DOMAIN bal
    /\ \A n \in DOMAIN es : \A a \in DOMAIN bal :
           bal[a] + NetUpTo(es, n, a) \in Int64

\* An UPDATE of no row changes nothing, and the SELECT that follows finds the
\* row when ProjectAccountOpened committed in between.  Of the accounts in A,
\* which had no row when the projection began, this can happen to the first
\* entry only.
Missable(es, A) ==
    {k \in DOMAIN es : /\ es[k].account \in A
                       /\ \A j \in 1..(k - 1) : es[j].account # es[k].account}

\* The entries es as they are applied when those in S update no row.
Missing(es, S) ==
    [k \in DOMAIN es |-> IF k \in S THEN [es[k] EXCEPT !.amount = 0] ELSE es[k]]

\* Of the projections under way, with their entries ess, some that include p can
\* come to wait for one another in a circle: each has locked the row of
\* holds[q], and its UPDATE of a later entry waits for the row the next one has
\* locked.  Postgres breaks the deadlock by aborting one of them.
LockCycle(ess, p) ==
    \E C \in SUBSET DOMAIN ess : p \in C /\
        \E holds \in [C -> UNION {{ess[q][k].account : k \in DOMAIN ess[q]} : q \in C}],
           waits \in [C -> C] :
            /\ \A q, r \in C : q # r => holds[q] # holds[r] /\ waits[q] # waits[r]
            /\ \A q \in C : waits[q] # q
            /\ \A q \in C : \E i, j \in DOMAIN ess[q] :
                   /\ i < j
                   /\ ess[q][i].account = holds[q]
                   /\ ess[q][j].account = holds[waits[q]]
=============================================================================

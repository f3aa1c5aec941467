-------------------------- MODULE WriteModelProofs -------------------------
(***************************************************************************)
(* Proofs about the account balances LedgerService saves, for any number   *)
(* of handlers, accounts, requests and failures: no asset account goes     *)
(* below zero, and the balances differ from the event log on exposed       *)
(* accounts only.                                                          *)
(***************************************************************************)
EXTENDS ReadModelProofs

-----------------------------------------------------------------------------
(* Asset accounts, provided that amounts are positive (the deposit         *)
(* endpoint checks it, the transaction endpoint does not) and that credits *)
(* do not overflow.                                                        *)

\* Every amount in a transaction request is positive.
PositiveAmounts ==
    \A r \in Requests :
        r.kind = "record" => \A k \in DOMAIN r.entries : r.entries[k].amount > 0

\* No handler is about to credit an account beyond the integer range.
Headroom ==
    \A p \in Proc :
        /\ h[p].pc = "find"
        /\ At(h[p]).type = "CREDIT" /\ At(h[p]).account \in DOMAIN accounts
        => accounts[At(h[p]).account].balance + At(h[p]).amount < Half

NonNegative(row) == row.type = "ASSET" => row.balance >= 0

\* AssetNonNegative is not inductive: what a Save writes was checked when the
\* copy was made, so the copies in memory, and the amounts still to be
\* applied, are part of the invariant.
AssetFrame(f) ==
    /\ f.pc \in {"open_save", "save"} => NonNegative(f.acc)
    /\ f.pc \in {"find", "save"} => \A k \in DOMAIN f.entries : f.entries[k].amount > 0

AInv == AssetNonNegative /\ \A p \in Proc : AssetFrame(h[p])

-----------------------------------------------------------------------------

\* A frame that has returned from a call holds no copy.
LEMMA ReturnAsset ==
    ASSUME NEW f \in Frame, NEW r \in {"ok", "err"}
    PROVE  AssetFrame(Return(f, r))
<1>1. Return(f, r).pc \in {"opened", "recorded"}
    BY DEF Return, Frame
<1> HIDE DEF Return
<1> QED BY <1>1 DEF AssetFrame

\* An account is opened with a zero balance.
LEMMA OpenAccountAsset ==
    ASSUME NEW f \in Frame, NEW cmd
    PROVE  AssetFrame(OpenAccount(f, cmd))
<1> DEFINE g == OpenAccount(f, cmd)
<1>1. CASE NewAccountOK(cmd.name, cmd.currency)
    <2>1. g.pc = "open_save" /\ g.acc.balance = 0
        BY <1>1 DEF OpenAccount, NewAccountWithType, Frame
    <2> HIDE DEF g
    <2>2. AssetFrame(g)
        BY <2>1 DEF AssetFrame, NonNegative
    <2> QED BY <2>2 DEF g
<1>2. CASE ~NewAccountOK(cmd.name, cmd.currency)
    <2>1. g.pc = "opened"
        BY <1>2 DEF OpenAccount, Frame
    <2> HIDE DEF g
    <2>2. AssetFrame(g)
        BY <2>1 DEF AssetFrame
    <2> QED BY <2>2 DEF g
<1> QED BY <1>1, <1>2

\* RecordTransaction starts with the amounts it was given.
LEMMA RecordTransactionAsset ==
    ASSUME NEW f \in Frame, NEW es, \A k \in DOMAIN es : es[k].amount > 0
    PROVE  AssetFrame(RecordTransaction(f, es))
<1> DEFINE g == RecordTransaction(f, es)
<1>1. g.pc \in {"find", "recorded"} /\ g.entries = es
    BY DEF RecordTransaction, Frame
<1> HIDE DEF g
<1>2. AssetFrame(g)
    BY <1>1 DEF AssetFrame
<1> QED BY <1>2 DEF g

\* A step of one handler keeps AInv if it leaves its own frame and the table so.
LEMMA OneHandlerAsset ==
    ASSUME IInv, AInv, NEW p \in Proc, NEW g, h' = [h EXCEPT ![p] = g], AssetFrame(g),
           AssetNonNegative'
    PROVE  AInv'
<1> SUFFICES ASSUME NEW q \in Proc PROVE AssetFrame(h'[q])
    BY DEF AInv
<1>1. h'[q] = IF q = p THEN g ELSE h[q]
    BY DEF IInv, TypeOK
<1> QED BY <1>1 DEF AInv

\* Saving a row that is not a negative asset leaves none in the table.
LEMMA UpsertAsset ==
    ASSUME AssetNonNegative, NEW a, NEW row, NonNegative(row),
           accounts' = Upsert(accounts, a, row)
    PROVE  AssetNonNegative'
  BY DEF AssetNonNegative, NonNegative, Upsert

\* Debit's check and the headroom of Credit leave no asset negative.
LEMMA ApplyAsset ==
    ASSUME NEW a \in AccountRow, NEW e \in Entry, ApplyOK(a, e), NonNegative(a),
           e.amount > 0, e.type = "CREDIT" => a.balance + e.amount < Half
    PROVE  NonNegative(Apply(a, e))
<1>1. a.balance \in Int64 /\ e.amount \in Int64 /\ Half \in Nat
    BY MoneyAssumption DEF AccountRow, Entry
<1>2. CASE e.type = "DEBIT"
    <2>1. Apply(a, e) = Debit(a, e) /\ DebitOK(a, e)
        BY <1>2 DEF Apply, ApplyOK
    <2>2. Debit(a, e).type = a.type /\ Debit(a, e).balance = Subtract(a.balance, e.amount)
        BY DEF Debit, AccountRow
    <2>3. a.type = "ASSET" => Subtract(a.balance, e.amount) >= 0
        BY <2>1 DEF DebitOK, AllowsNegativeBalance
    <2> QED BY <2>1, <2>2, <2>3 DEF NonNegative
<1>3. CASE e.type = "CREDIT"
    <2>1. Apply(a, e) = Credit(a, e)
        BY <1>3 DEF Apply
    <2>2. Credit(a, e).type = a.type /\ Credit(a, e).balance = Wrap(a.balance + e.amount)
        BY DEF Credit, Add, AccountRow
    <2>3. a.balance + e.amount \in Int64
        BY <1>1, <1>3 DEF Int64
    <2>4. Wrap(a.balance + e.amount) = a.balance + e.amount
        BY <2>3, WrapExact
    <2>5. a.type = "ASSET" => a.balance + e.amount >= 0
        BY <1>1 DEF NonNegative, Int64
    <2> QED BY <2>1, <2>2, <2>4, <2>5 DEF NonNegative
<1>4. CASE e.type \notin {"DEBIT", "CREDIT"}
    <2>1. Apply(a, e) = a
        BY <1>4 DEF Apply
    <2> QED BY <2>1
<1> QED BY <1>2, <1>3, <1>4

-----------------------------------------------------------------------------
(* The steps.                                                              *)

\* A request brings positive amounts or none.
LEMMA HandleAsset ==
    ASSUME PositiveAmounts, IInv, AInv, NEW p \in Proc, Handle(p)
    PROVE  AInv'
<1> DEFINE f(r) == [Idle EXCEPT !.req = r]
<1>1. \A r \in Requests : f(r) \in Frame
    BY IdleFrame DEF Frame
<1>2. AssetNonNegative'
    BY ZenonT(30) DEF AInv, Handle, HandleOpenAccount, HandleRecordTransaction, HandleDeposit,
           RejectDeposit, Accept, tables, AssetNonNegative
<1> HIDE DEF f
<1>3. CASE HandleOpenAccount(p)
    <2>1. PICK r \in Requests : h' = [h EXCEPT ![p] = OpenAccount(f(r), r)]
        BY ZenonT(30), <1>3 DEF HandleOpenAccount, Accept, f
    <2> QED BY ZenonT(30), <1>1, <1>2, <2>1, OpenAccountAsset, OneHandlerAsset
<1>4. CASE HandleRecordTransaction(p)
    <2>1. PICK r \in Requests :
              r.kind = "record" /\ h' = [h EXCEPT ![p] = RecordTransaction(f(r), r.entries)]
        BY ZenonT(30), <1>4 DEF HandleRecordTransaction, Accept, f
    <2>2. \A k \in DOMAIN r.entries : r.entries[k].amount > 0
        BY <2>1 DEF PositiveAmounts
    <2> QED BY ZenonT(30), <1>1, <1>2, <2>1, <2>2, RecordTransactionAsset, OneHandlerAsset
<1>5. CASE HandleDeposit(p)
    <2>1. PICK r \in Requests :
              h' = [h EXCEPT ![p] = getOrCreateSystemAccount(f(r), EquityName[r.currency],
                                                             "EQUITY", r.currency)]
        BY ZenonT(30), <1>5 DEF HandleDeposit, Accept, f
    <2> DEFINE g == getOrCreateSystemAccount(f(r), EquityName[r.currency],
                                             "EQUITY", r.currency)
    <2>2. g.pc = "sys_find"
        BY <1>1 DEF getOrCreateSystemAccount, Frame
    <2> HIDE DEF g
    <2>3. AssetFrame(g)
        BY <2>2 DEF AssetFrame
    <2> QED BY ZenonT(30), <1>2, <2>1, <2>3, OneHandlerAsset DEF g
<1>6. CASE RejectDeposit(p)
    <2>1. h' = [h EXCEPT ![p] = Idle]
        BY <1>6 DEF RejectDeposit, Accept
    <2>2. AssetFrame(Idle)
        BY DEF AssetFrame, Idle
    <2> QED BY ZenonT(30), <1>2, <2>1, <2>2, OneHandlerAsset
<1> QED BY <1>3, <1>4, <1>5, <1>6 DEF Handle

\* A handler's own steps.
LEMMA StepAsset ==
    ASSUME Headroom, IInv, AInv, NEW p \in Proc, Step(p)
    PROVE  AInv'
<1> DEFINE f == h[p]
<1>1. f \in Frame /\ FrameOK(f, DOMAIN accounts, opened, recorded) /\ AssetFrame(f)
    BY DEF IInv, TypeOK, HandlersGrounded, AInv
<1>2. accounts' = accounts => AssetNonNegative'
    BY DEF AInv, AssetNonNegative
<1>3. CASE SystemAccountFound(p)
    <2>1. PICK a \in DOMAIN accounts :
              h' = [h EXCEPT ![p] = Return([f EXCEPT !.aid = a], "ok")]
        BY ZenonT(30), <1>3 DEF SystemAccountFound
    <2>2. [f EXCEPT !.aid = a] \in Frame
        BY ZenonT(30), <1>1 DEF IInv, TypeOK, Frame
    <2>3. AssetNonNegative'
        BY <1>2, <1>3 DEF SystemAccountFound, tables
    <2> QED BY ZenonT(30), <2>1, <2>2, <2>3, ReturnAsset, OneHandlerAsset
<1>4. CASE SystemAccountMissing(p)
    <2>1. h' = [h EXCEPT ![p] = OpenAccount(f, f.cmd)] /\ AssetNonNegative'
        BY <1>2, <1>4 DEF SystemAccountMissing, tables
    <2> QED BY ZenonT(30), <1>1, <2>1, OpenAccountAsset, OneHandlerAsset
<1>5. CASE SaveNewAccount(p)
    <2>1. PICK a \in AccountId :
              /\ InsertAccount(p, a)
              /\ h' = [h EXCEPT ![p] = [f EXCEPT !.pc = "open_append", !.aid = a]]
        BY ZenonT(30), <1>5 DEF SaveNewAccount
    <2>2. AssetNonNegative'
        BY <1>1, <2>1, UpsertAsset DEF AInv, InsertAccount, AssetFrame
    <2>3. AssetFrame([f EXCEPT !.pc = "open_append", !.aid = a])
        BY <1>1 DEF Frame, AssetFrame
    <2> QED BY ZenonT(30), <2>1, <2>2, <2>3, OneHandlerAsset
<1>6. CASE AppendOpened(p)
    <2>1. h' = [h EXCEPT ![p] = [f EXCEPT !.pc = "open_project"]] /\ AssetNonNegative'
        BY <1>2, <1>6 DEF AppendOpened, InsertOpened
    <2>2. AssetFrame([f EXCEPT !.pc = "open_project"])
        BY <1>1 DEF Frame, AssetFrame
    <2> QED BY ZenonT(30), <2>1, <2>2, OneHandlerAsset
<1>7. CASE FindByID(p)
    <2> DEFINE e == At(f)
               a == e.account
               g == [f EXCEPT !.pc = "save", !.acc = Apply(accounts[a], e)]
    <2>1. /\ f.pc = "find" /\ a \in DOMAIN accounts /\ ApplyOK(accounts[a], e)
          /\ h' = [h EXCEPT ![p] = g] /\ AssetNonNegative'
        BY <1>2, <1>7 DEF FindByID, tables
    <2>2. f.k \in DOMAIN f.entries /\ f.entries \in Seq(Entry)
        BY <1>1, <2>1 DEF FrameOK, Frame
    <2>3. e \in Entry /\ e.amount > 0
        BY <1>1, <2>1, <2>2 DEF At, AssetFrame
    <2>4. accounts[a] \in AccountRow /\ NonNegative(accounts[a])
        BY <2>1 DEF IInv, TypeOK, AInv, AssetNonNegative, NonNegative
    <2>5. e.type = "CREDIT" => accounts[a].balance + e.amount < Half
        BY <2>1 DEF Headroom
    <2>6. NonNegative(Apply(accounts[a], e))
        BY <2>1, <2>3, <2>4, <2>5, ApplyAsset
    <2>7. g.pc = "save" /\ g.acc = Apply(accounts[a], e) /\ g.entries = f.entries
        BY <1>1 DEF Frame
    <2> HIDE DEF g
    <2>8. AssetFrame(g)
        BY <1>1, <2>1, <2>6, <2>7 DEF AssetFrame
    <2> QED BY ZenonT(30), <2>1, <2>8, OneHandlerAsset
<1>8. CASE SaveAccount(p)
    <2> DEFINE next == IF f.k = Len(f.entries) THEN "append" ELSE "find"
               g == [f EXCEPT !.pc = next, !.k = f.k + 1, !.acc = None]
    <2>1. f.pc = "save" /\ accounts' = Upsert(accounts, At(f).account, f.acc)
              /\ h' = [h EXCEPT ![p] = g]
        BY <1>8 DEF SaveAccount, UpdateAccount
    <2>2. AssetNonNegative'
        BY <1>1, <2>1, UpsertAsset DEF AInv, AssetFrame
    <2>3. g.pc \in {"append", "find"} /\ g.entries = f.entries
        BY <1>1 DEF Frame
    <2> HIDE DEF g
    <2>4. AssetFrame(g)
        BY <1>1, <2>1, <2>3 DEF AssetFrame
    <2> QED BY ZenonT(30), <2>1, <2>2, <2>4, OneHandlerAsset
<1>9. CASE AppendRecorded(p)
    <2> DEFINE A == {f.entries[k].account : k \in DOMAIN f.entries} \ DOMAIN balances
               g(t) == [f EXCEPT !.pc = "project", !.tx = t, !.absent = A]
    <2>1. PICK t \in TxId : h' = [h EXCEPT ![p] = g(t)]
        BY ZenonT(30), <1>9 DEF AppendRecorded
    <2>2. AssetNonNegative'
        BY <1>2, <1>9 DEF AppendRecorded, InsertRecorded
    <2> HIDE DEF A
    <2>3. AssetFrame(g(t))
        BY <1>1 DEF Frame, AssetFrame
    <2> QED BY ZenonT(30), <2>1, <2>2, <2>3, OneHandlerAsset
<1>10. CASE \/ ProjectAccountOpened(p) \/ FindRejected(p)
            \/ ProjectTransactionRecorded(p) \/ ProjectionSkipped(p)
    <2>1. PICK r \in {"ok", "err"} : h' = [h EXCEPT ![p] = Return(f, r)]
        BY <1>10 DEF ProjectAccountOpened, FindRejected, ProjectTransactionRecorded,
                     ProjectionSkipped
    <2>2. AssetNonNegative'
        BY <1>2, <1>10 DEF ProjectAccountOpened, FindRejected, ProjectTransactionRecorded,
                           ProjectionSkipped, tables
    <2> QED BY ZenonT(30), <1>1, <2>1, <2>2, ReturnAsset, OneHandlerAsset
<1> QED BY <1>3, <1>4, <1>5, <1>6, <1>7, <1>8, <1>9, <1>10 DEF Step

\* Deposit goes on with the request's amount.
LEMMA ContinueAsset ==
    ASSUME IInv, AInv, NEW p \in Proc, Continue(p)
    PROVE  AInv'
<1> DEFINE f == h[p]
           r == f.req
<1>1. f \in Frame /\ FrameOK(f, DOMAIN accounts, opened, recorded)
    BY DEF IInv, TypeOK, HandlersGrounded
<1>2. AssetNonNegative'
    BY DEF AInv, Continue, DepositRecord, RespondOpened, RespondRecorded, tables,
           AssetNonNegative
<1>3. CASE DepositRecord(p)
    <2> DEFINE es == <<[account |-> f.aid, amount |-> r.amount,
                        currency |-> r.currency, type |-> "DEBIT"],
                       [account |-> r.account, amount |-> r.amount,
                        currency |-> r.currency, type |-> "CREDIT"]>>
    <2>1. f.pc = "opened" /\ r.kind = "deposit"
              /\ h' = [h EXCEPT ![p] = RecordTransaction(f, es)]
        BY <1>3 DEF DepositRecord
    <2>2. r.amount > 0
        BY <1>1, <2>1 DEF FrameOK, Served
    <2>3. \A k \in DOMAIN es : es[k].amount > 0
        BY <2>2
    <2> HIDE DEF es
    <2> QED BY ZenonT(30), <1>1, <1>2, <2>1, <2>3, RecordTransactionAsset, OneHandlerAsset
<1>4. CASE RespondOpened(p) \/ RespondRecorded(p)
    <2>1. h' = [h EXCEPT ![p] = Idle]
        BY <1>4 DEF RespondOpened, RespondRecorded
    <2>2. AssetFrame(Idle)
        BY DEF AssetFrame, Idle
    <2> QED BY ZenonT(30), <1>2, <2>1, <2>2, OneHandlerAsset
<1> QED BY <1>3, <1>4 DEF Continue

\* Failures write at most the copy the handler holds.
LEMMA FailureAsset ==
    ASSUME IInv, AInv, NEW p \in Proc, DbError(p) \/ LostAck(p)
    PROVE  AInv'
<1> DEFINE f == h[p]
<1>1. f \in Frame /\ AssetFrame(f)
    BY DEF IInv, TypeOK, AInv
<1>2. accounts' = accounts => AssetNonNegative'
    BY DEF AInv, AssetNonNegative
<1>3. PICK g \in Frame, r \in {"ok", "err"} : h' = [h EXCEPT ![p] = Return(g, r)]
    <2>1. \A t \in TxId : [f EXCEPT !.tx = t] \in Frame
        BY <1>1 DEF Frame
    <2> QED BY ZenonT(30), <1>1, <2>1 DEF DbError, LostAck
<1>4. AssetNonNegative'
    <2>1. CASE DbError(p)
        BY <1>2, <2>1 DEF DbError, tables
    <2>2. CASE UpdateAccount(p)
        BY <1>1, <2>2, UpsertAsset DEF AInv, UpdateAccount, AssetFrame
    <2>3. CASE \E a \in AccountId : InsertAccount(p, a)
        BY <1>1, <2>3, UpsertAsset DEF AInv, InsertAccount, AssetFrame
    <2>4. CASE InsertOpened(p) \/ \E t \in TxId : InsertRecorded(p, t)
        BY <1>2, <2>4 DEF InsertOpened, InsertRecorded
    <2> QED BY ZenonT(30), <2>1, <2>2, <2>3, <2>4 DEF LostAck
<1> QED BY ZenonT(30), <1>3, <1>4, ReturnAsset, OneHandlerAsset

\* The accounts table holds no negative asset account, whatever stale copies the
\* handlers save over each other and whichever calls fail: for every number of
\* handlers and requests, with positive amounts and credits that do not
\* overflow.
THEOREM AssetsStayNonNegative ==
    ASSUME PositiveAmounts
    PROVE  Spec /\ []Headroom => []AssetNonNegative
<1>1. Init => AInv
    BY LedgerAssumption DEF Init, AInv, AssetNonNegative, AssetFrame, Idle
<1>2. IInv /\ Headroom /\ AInv /\ [Next]_vars => AInv'
    <2> SUFFICES ASSUME IInv, Headroom, AInv, [Next]_vars PROVE AInv'
        OBVIOUS
    <2>1. ASSUME NEW p \in Proc, Handle(p) PROVE AInv'
        BY <2>1, HandleAsset
    <2>2. ASSUME NEW p \in Proc, Step(p) PROVE AInv'
        BY <2>2, StepAsset
    <2>3. ASSUME NEW p \in Proc, Continue(p) PROVE AInv'
        BY <2>3, ContinueAsset
    <2>4. ASSUME NEW p \in Proc, DbError(p) \/ LostAck(p) PROVE AInv'
        BY <2>4, FailureAsset
    <2>5. CASE Crash
        <3>1. AssetFrame(Idle)
            BY DEF AssetFrame, Idle
        <3> QED BY <2>5, <3>1 DEF Crash, AInv, AssetNonNegative, tables
    <2>6. CASE UNCHANGED vars
        BY <2>6 DEF vars, tables, AInv, AssetNonNegative
    <2> QED BY <2>1, <2>2, <2>3, <2>4, <2>5, <2>6 DEF Next, Finished
<1>3. AInv => AssetNonNegative
    BY DEF AInv
<1> QED BY <1>1, <1>2, <1>3, Invariance, PTL DEF Spec

-----------------------------------------------------------------------------
(* The write model and the event log.                                      *)

\* A copy that FindByID made of a row: the row's balance, moved by the entry.
FreshCopy(f) ==
    f.acc.balance = Wrap(accounts[At(f).account].balance + Delta(At(f)))

\* DriftIsExplained is not inductive: what a Save writes was computed from a
\* copy, so it counts that the copies of accounts that are not exposed are fresh
\* and that nobody else holds one.
DInv ==
    /\ IsFiniteSet(DOMAIN recorded)
    /\ \A p \in Proc : h[p].pc = "open_save" => h[p].acc.balance = 0
    /\ \A p \in Proc :
           h[p].pc = "save" /\ At(h[p]).account \notin exposed => FreshCopy(h[p])
    /\ \A p, q \in Proc :
           /\ h[p].pc = "save" /\ h[q].pc = "save"
           /\ At(h[p]).account = At(h[q]).account /\ At(h[p]).account \notin exposed
           => p = q

Explained(a) == accounts[a].balance = Wrap(Replay(DOMAIN recorded, a) + Pending(a))

\* What a handler has saved and not recorded.
LEMMA SavedToType ==
    ASSUME IInv, NEW p \in Proc
    PROVE  \A a : SavedTo(h[p], a) \in Int
<1> DEFINE f == h[p]
<1> SUFFICES ASSUME NEW a PROVE SavedTo(f, a) \in Int
    OBVIOUS
<1>1. f \in Frame /\ f.entries \in Seq(Entry) /\ FrameOK(f, DOMAIN accounts, opened, recorded)
    BY FrameFields DEF IInv, TypeOK, HandlersGrounded
<1>2. CASE f.pc \in {"find", "save", "append"}
    <2>1. DOMAIN f.entries = 1..Len(f.entries) /\ Len(f.entries) \in Nat
        BY <1>1, Positions
    <2>2. f.k \in DOMAIN f.entries \/ f.k = Len(f.entries) + 1
        BY <1>1, <1>2 DEF FrameOK
    <2>3. f.k - 1 \in 0..Len(f.entries)
        BY <2>1, <2>2
    <2>4. NetUpTo(f.entries, f.k - 1, a) \in Int
        BY <1>1, <2>3, NetType
    <2> QED BY <1>2, <2>4 DEF SavedTo
<1>3. CASE f.pc \notin {"find", "save", "append"}
    BY <1>3 DEF SavedTo
<1> QED BY <1>2, <1>3

\* A handler that has saved nothing to the account.
LEMMA SavedToNone ==
    ASSUME NEW f, NEW a,
           f.pc \notin {"find", "save", "append"} \/ Quiet(f) \/ a \notin Saved(f)
    PROVE  SavedTo(f, a) = 0
<1>1. CASE f.pc \notin {"find", "save", "append"}
    BY <1>1 DEF SavedTo
<1>2. CASE f.pc \in {"find", "save", "append"}
    <2>1. \A j \in 1..(f.k - 1) : f.entries[j].account # a
        <3>1. CASE Quiet(f)
            BY <1>2, <3>1 DEF Quiet
        <3>2. CASE a \notin Saved(f)
            BY <1>2, <3>2 DEF Saved
        <3> QED BY <1>2, <3>1, <3>2
    <2> QED BY <1>2, <2>1, NetNone DEF SavedTo
<1> QED BY <1>1, <1>2

\* What is pending changes by what the one handler that moves has saved.
LEMMA PendingStep ==
    ASSUME IInv, NEW p \in Proc, NEW g, h' = [h EXCEPT ![p] = g], NEW a, SavedTo(g, a) \in Int
    PROVE  /\ Pending(a) \in Int
           /\ Pending(a)' = Pending(a) + (SavedTo(g, a) - SavedTo(h[p], a))
<1> DEFINE s == [q \in Proc |-> SavedTo(h[q], a)]
           t == [q \in Proc |-> SavedTo(h'[q], a)]
<1>1. h'[p] = g /\ \A q \in Proc \ {p} : h'[q] = h[q]
    BY DEF IInv, TypeOK
<1>2. IsFiniteSet(Proc)
    BY FiniteAssumption
<1>3. \A q \in Proc : s[q] \in Int
    BY SavedToType
<1>4. t[p] = SavedTo(g, a) /\ s[p] = SavedTo(h[p], a) /\ \A q \in Proc \ {p} : t[q] = s[q]
    BY <1>1
<1>5. \A q \in Proc : s[q] \in Int /\ t[q] \in Int
    BY <1>3, <1>4
<1>6. Pending(a) = SumFunctionOnSet(s, Proc) /\ Pending(a)' = SumFunctionOnSet(t, Proc)
    BY DEF Pending
<1> HIDE DEF s, t
<1>7. SumFunctionOnSet(s, Proc) \in Int
    BY <1>2, <1>3, SumType
<1>8. SumFunctionOnSet(t, Proc) = SumFunctionOnSet(s, Proc) + (t[p] - s[p])
    BY ZenonT(30), <1>2, <1>4, <1>5, SumUpdate
<1> QED BY <1>4, <1>6, <1>7, <1>8

\* The replay of the whole log.
LEMMA ReplayType ==
    ASSUME IInv, DInv, NEW a
    PROVE  Replay(DOMAIN recorded, a) \in Int
<1> DEFINE D == DOMAIN recorded
           net == [t \in D |-> NetUpTo(recorded[t], Len(recorded[t]), a)]
<1>1. ASSUME NEW t \in D PROVE NetUpTo(recorded[t], Len(recorded[t]), a) \in Int
    <2>1. recorded[t] \in Seq(Entry)
        BY DEF IInv, TypeOK
    <2>2. Len(recorded[t]) \in 0..Len(recorded[t])
        BY <2>1, Positions
    <2> QED BY <2>1, <2>2, NetType
<1>2. (\A t \in D : net[t] \in Int) /\ IsFiniteSet(D)
    BY <1>1 DEF DInv
<1>3. Replay(D, a) = SumFunctionOnSet(net, D)
    BY DEF Replay
<1> HIDE DEF net, D
<1>4. SumFunctionOnSet(net, D) \in Int
    BY <1>2, SumType
<1> QED BY <1>3, <1>4 DEF D

\* An appended event adds its entries to the replay.
LEMMA ReplayStep ==
    ASSUME IInv, DInv, NEW p \in Proc, NEW t \in TxId, InsertRecorded(p, t)
    PROVE  /\ IsFiniteSet(DOMAIN recorded')
           /\ \A a : Replay(DOMAIN recorded, a)' = Replay(DOMAIN recorded, a) + SavedTo(h[p], a)
<1> DEFINE f == h[p]
           es == f.entries
           D == DOMAIN recorded
<1>1. /\ t \notin D /\ DOMAIN recorded' = D \cup {t} /\ recorded'[t] = es
      /\ \A u \in D : recorded'[u] = recorded[u]
    BY DEF InsertRecorded, Upsert
<1>2. IsFiniteSet(D) /\ IsFiniteSet(D \cup {t})
    BY FS_AddElement DEF DInv
<1>3. ASSUME NEW a
      PROVE  Replay(DOMAIN recorded, a)' = Replay(DOMAIN recorded, a) + SavedTo(f, a)
    <2> DEFINE E == D \cup {t}
               m == [u \in D |-> NetUpTo(recorded[u], Len(recorded[u]), a)]
               n == [u \in E |-> NetUpTo(recorded'[u], Len(recorded'[u]), a)]
    <2>1. f.pc = "append" /\ f.k = Len(es) + 1 /\ es \in Seq(Entry)
        BY FrameFields DEF InsertRecorded, IInv, TypeOK, HandlersGrounded, FrameOK
    <2>2. SavedTo(f, a) = NetUpTo(es, Len(es), a)
        <3>1. f.k - 1 = Len(es)
            BY <2>1, Positions
        <3> QED BY <2>1, <3>1 DEF SavedTo
    <2>3. n[t] = SavedTo(f, a) /\ \A u \in D : n[u] = m[u]
        BY <1>1, <2>2
    <2>4. n[t] \in Int
        BY <2>3, SavedToType
    <2>5. \A u \in D : m[u] \in Int
        <3> SUFFICES ASSUME NEW u \in D PROVE m[u] \in Int
            OBVIOUS
        <3>1. recorded[u] \in Seq(Entry)
            BY DEF IInv, TypeOK
        <3>2. Len(recorded[u]) \in 0..Len(recorded[u])
            BY <3>1, Positions
        <3>3. NetUpTo(recorded[u], Len(recorded[u]), a) \in Int
            BY <3>1, <3>2, NetType
        <3> QED BY <3>3
    <2>6. /\ Replay(DOMAIN recorded, a) = SumFunctionOnSet(m, D)
          /\ Replay(DOMAIN recorded, a)' = SumFunctionOnSet(n, E)
        BY <1>1 DEF Replay
    <2> HIDE DEF m, n, D
    <2>7. SumFunctionOnSet(n, E) = SumFunctionOnSet(n, D) + n[t]
        BY SMTT(30), <1>1, <1>2, <2>3, <2>4, <2>5, SumAdd
    <2>8. SumFunctionOnSet(n, D) = SumFunctionOnSet(m, D)
        <3>1. \A u \in D : n[u] \in Int /\ n[u] = m[u]
            BY <2>3, <2>5
        <3> QED BY <1>2, <3>1, SumAgree
    <2> QED BY <2>3, <2>6, <2>7, <2>8
<1> QED BY <1>1, <1>2, <1>3

\* A step of one handler that ends without a copy keeps the others fresh: it
\* writes no row they hold, unless the account is exposed.
LEMMA CopiesStep ==
    ASSUME IInv, DInv, NEW p \in Proc, NEW g, h' = [h EXCEPT ![p] = g],
           g.pc # "save", g.pc = "open_save" => g.acc.balance = 0,
           exposed \subseteq exposed', IsFiniteSet(DOMAIN recorded'),
           \A a \in DOMAIN accounts \ exposed' :
               accounts'[a] = accounts[a] \/ (h[p].pc = "save" /\ a = At(h[p]).account)
    PROVE  DInv'
<1>1. h'[p] = g /\ \A q \in Proc \ {p} : h'[q] = h[q]
    BY DEF IInv, TypeOK
<1>2. ASSUME NEW q \in Proc, h'[q].pc = "save", At(h'[q]).account \notin exposed'
      PROVE  FreshCopy(h[q])'
    <2>1. q # p /\ h'[q] = h[q] /\ At(h[q]).account \notin exposed
        BY <1>1, <1>2
    <2>2. At(h[q]).account \in DOMAIN accounts
        BY <1>2, <2>1 DEF IInv, HandlersGrounded, FrameOK, At
    <2>3. accounts'[At(h[q]).account] = accounts[At(h[q]).account]
        BY <1>2, <2>1, <2>2 DEF DInv
    <2>4. FreshCopy(h[q])
        BY <1>2, <2>1 DEF DInv
    <2> QED BY <2>1, <2>3, <2>4 DEF FreshCopy
<1>3. \A q \in Proc : h'[q].pc = "open_save" => h'[q].acc.balance = 0
    BY <1>1 DEF DInv
<1>4. \A q, r \in Proc :
          /\ h'[q].pc = "save" /\ h'[r].pc = "save"
          /\ At(h'[q]).account = At(h'[r]).account /\ At(h'[q]).account \notin exposed'
          => q = r
    BY <1>1 DEF DInv
<1> QED BY <1>2, <1>3, <1>4 DEF DInv

\* An account the step does not concern.
LEMMA ExplainedSame ==
    ASSUME IInv, NEW p \in Proc, NEW g, h' = [h EXCEPT ![p] = g], NEW a, Explained(a),
           recorded' = recorded, accounts'[a] = accounts[a], SavedTo(g, a) = SavedTo(h[p], a)
    PROVE  Explained(a)'
<1>1. SavedTo(h[p], a) \in Int
    BY SavedToType
<1>2. Pending(a) \in Int /\ Pending(a)' = Pending(a) + (SavedTo(g, a) - SavedTo(h[p], a))
    BY ZenonT(30), <1>1, PendingStep
<1>3. Pending(a)' = Pending(a)
    BY <1>1, <1>2
<1>4. Replay(DOMAIN recorded, a)' = Replay(DOMAIN recorded, a)
    BY DEF Replay
<1> QED BY <1>3, <1>4 DEF Explained

\* A handler that neither applies entries nor gives them up.
LEMMA DriftQuiet ==
    ASSUME IInv, DInv, DriftIsExplained, NEW p \in Proc,
           \/ Handle(p) \/ Continue(p)
           \/ SystemAccountFound(p) \/ SystemAccountMissing(p) \/ AppendOpened(p)
           \/ ProjectAccountOpened(p) \/ ProjectTransactionRecorded(p)
           \/ ProjectionSkipped(p)
    PROVE  DInv' /\ DriftIsExplained'
<1>1. PICK g : h' = [h EXCEPT ![p] = g] /\ Quiet(g)
    BY QuietStep
<1>2. /\ h[p].pc \notin {"find", "save", "append"}
      /\ accounts' = accounts /\ recorded' = recorded /\ exposed' = exposed
    BY QuietStep
<1>3. g.pc # "save" /\ (g.pc = "open_save" => g.acc.balance = 0)
    BY <1>1 DEF Quiet
<1>4. DInv'
    <2>1. IsFiniteSet(DOMAIN recorded')
        BY <1>2 DEF DInv
    <2> QED BY ZenonT(30), <1>1, <1>2, <1>3, <2>1, CopiesStep
<1>5. ASSUME NEW a \in DOMAIN accounts \ exposed PROVE Explained(a)'
    <2>1. SavedTo(g, a) = 0 /\ SavedTo(h[p], a) = 0
        BY <1>1, <1>2, SavedToNone
    <2>2. Explained(a)
        BY DEF DriftIsExplained, Explained
    <2> QED BY ZenonT(30), <1>1, <1>2, <2>1, <2>2, ExplainedSame
<1>6. DriftIsExplained'
    BY <1>2, <1>5 DEF DriftIsExplained, Explained
<1> QED BY <1>4, <1>6

\* FindByID copies the row, and exposes the account when another has a copy.
LEMMA DriftFind ==
    ASSUME EntryType \subseteq {"DEBIT", "CREDIT"},
           IInv, DInv, DriftIsExplained, NEW p \in Proc, FindByID(p)
    PROVE  DInv' /\ DriftIsExplained'
<1> DEFINE f == h[p]
           e == At(f)
           a == e.account
           g == [f EXCEPT !.pc = "save", !.acc = Apply(accounts[a], e)]
<1>1. /\ f \in Frame /\ f.entries \in Seq(Entry)
      /\ f.pc = "find" /\ a \in DOMAIN accounts /\ h' = [h EXCEPT ![p] = g]
      /\ exposed' = IF Held(p, a) THEN exposed \cup {a} ELSE exposed
      /\ accounts' = accounts /\ recorded' = recorded
    BY FrameFields DEF IInv, TypeOK, FindByID, tables
<1>2. /\ g.pc = "save" /\ g.acc = Apply(accounts[a], e) /\ g.entries = f.entries
      /\ g.k = f.k
    BY <1>1 DEF Frame
<1>3. At(g) = e
    BY <1>2 DEF At
<1>4. e \in Entry /\ accounts[a] \in AccountRow
    <2>1. f.k \in DOMAIN f.entries
        BY <1>1 DEF IInv, HandlersGrounded, FrameOK
    <2> QED BY <1>1, <2>1, Positions DEF At, IInv, TypeOK
<1>5. Apply(accounts[a], e).balance = Wrap(accounts[a].balance + Delta(e))
    <2> DEFINE b == accounts[a].balance
    <2>1. b \in Int /\ e.amount \in Int /\ -e.amount \in Int
        BY <1>4, MoneyAssumption DEF AccountRow, Entry, Int64
    <2>2. CASE e.type = "CREDIT"
        BY <1>4, <2>2 DEF Apply, Credit, Add, Delta, AccountRow
    <2>3. CASE e.type = "DEBIT"
        <3>1. Apply(accounts[a], e).balance = Wrap(b - e.amount)
            BY <1>4, <2>3 DEF Apply, Debit, Subtract, AccountRow
        <3>2. Delta(e) = Wrap(-e.amount)
            BY <2>3 DEF Delta, Negate
        <3>3. Wrap(b + Wrap(-e.amount)) = Wrap(b + (-e.amount))
            BY <2>1, WrapAdd
        <3>4. b + (-e.amount) = b - e.amount
            BY <2>1
        <3> QED BY <3>1, <3>2, <3>3, <3>4
    <2> QED BY ZenonT(30), <1>4, <2>2, <2>3 DEF Entry
<1> HIDE DEF g
<1>6. h'[p] = g /\ \A q \in Proc \ {p} : h'[q] = h[q]
    BY <1>1 DEF IInv, TypeOK
<1>7. DInv'
    <2>1. \A q \in Proc : h'[q].pc = "open_save" => h'[q].acc.balance = 0
        BY <1>2, <1>6 DEF DInv
    <2>2. ASSUME NEW q \in Proc, h'[q].pc = "save", At(h'[q]).account \notin exposed'
          PROVE  FreshCopy(h[q])'
        <3>1. CASE q = p
            BY <1>1, <1>2, <1>3, <1>5, <1>6, <3>1 DEF FreshCopy
        <3>2. CASE q # p
            BY SMTT(30), <1>1, <1>6, <2>2, <3>2 DEF DInv, FreshCopy
        <3> QED BY <3>1, <3>2
    <2>3. ASSUME NEW q \in Proc, NEW r \in Proc,
                 h'[q].pc = "save", h'[r].pc = "save",
                 At(h'[q]).account = At(h'[r]).account, At(h'[q]).account \notin exposed'
          PROVE  q = r
        <3>1. CASE q # p /\ r # p
            BY SMTT(30), <1>1, <1>6, <2>3, <3>1 DEF DInv
        <3>2. CASE q = p /\ r # p
            BY <1>1, <1>3, <1>6, <2>3, <3>2 DEF Held
        <3>3. CASE q # p /\ r = p
            BY <1>1, <1>3, <1>6, <2>3, <3>3 DEF Held
        <3> QED BY <3>1, <3>2, <3>3
    <2>4. IsFiniteSet(DOMAIN recorded')
        BY <1>1 DEF DInv
    <2> QED BY <2>1, <2>2, <2>3, <2>4 DEF DInv
<1>8. ASSUME NEW b \in DOMAIN accounts \ exposed PROVE Explained(b)'
    <2>1. SavedTo(g, b) = SavedTo(f, b)
        BY <1>1, <1>2 DEF SavedTo
    <2>2. Explained(b)
        BY DEF DriftIsExplained, Explained
    <2> QED BY ZenonT(30), <1>1, <2>1, <2>2, ExplainedSame
<1>9. DriftIsExplained'
    BY <1>1, <1>8 DEF DriftIsExplained, Explained
<1> QED BY <1>7, <1>9

\* Save writes what the copy says, and the entry counts as pending from here on.
LEMMA DriftSave ==
    ASSUME IInv, DInv, DriftIsExplained, NEW p \in Proc, SaveAccount(p)
    PROVE  DInv' /\ DriftIsExplained'
<1> DEFINE f == h[p]
           e == At(f)
           a == e.account
           next == IF f.k = Len(f.entries) THEN "append" ELSE "find"
           g == [f EXCEPT !.pc = next, !.k = f.k + 1, !.acc = None]
<1>1. /\ f \in Frame /\ f.entries \in Seq(Entry) /\ f.k \in DOMAIN f.entries
      /\ f.pc = "save" /\ h' = [h EXCEPT ![p] = g]
      /\ accounts' = Upsert(accounts, a, f.acc)
      /\ exposed' = exposed /\ recorded' = recorded
    BY FrameFields DEF IInv, TypeOK, HandlersGrounded, FrameOK, SaveAccount, UpdateAccount
<1>2. /\ g.pc \in {"append", "find"} /\ g.entries = f.entries
      /\ g.k = f.k + 1
    BY <1>1 DEF Frame
<1>3. f.k \in Int /\ g.k - 1 = f.k /\ e \in Entry
    BY <1>1, <1>2, Positions DEF At
<1>4. a \in DOMAIN accounts
    BY <1>1 DEF IInv, HandlersGrounded, FrameOK, At
<1>5. /\ DOMAIN accounts' = DOMAIN accounts /\ accounts'[a] = f.acc
      /\ \A b \in DOMAIN accounts \ {a} : accounts'[b] = accounts[b]
    BY ZenonT(30), <1>1, <1>4 DEF Upsert
<1> HIDE DEF g
<1>6. DInv'
    <2>1. IsFiniteSet(DOMAIN recorded')
        BY <1>1 DEF DInv
    <2> QED BY ZenonT(30), <1>1, <1>2, <1>5, <2>1, CopiesStep
<1>7. ASSUME NEW b
      PROVE  SavedTo(g, b) = SavedTo(f, b) + (IF a = b THEN Delta(e) ELSE 0)
    <2>1. SavedTo(g, b) = NetUpTo(f.entries, f.k, b)
        BY <1>2, <1>3 DEF SavedTo
    <2>2. SavedTo(f, b) = NetUpTo(f.entries, f.k - 1, b)
        BY <1>1 DEF SavedTo
    <2> QED BY SMTT(30), <1>1, <2>1, <2>2, NetNext DEF At
<1>8. ASSUME NEW b \in DOMAIN accounts \ exposed PROVE Explained(b)'
    <2>1. Explained(b) /\ SavedTo(f, b) \in Int
        BY SavedToType DEF DriftIsExplained, Explained
    <2>2. CASE b # a
        <3>1. SavedTo(g, b) = SavedTo(f, b)
            BY <1>7, <2>1, <2>2
        <3> QED BY ZenonT(30), <1>1, <1>5, <2>1, <2>2, <3>1, ExplainedSame
    <2>3. CASE b = a
        <3>1. Delta(e) \in Int
            BY <1>3, DeltaType
        <3>2. SavedTo(g, b) = SavedTo(f, b) + Delta(e)
            BY <1>7, <2>3
        <3>3. SavedTo(g, b) \in Int
            BY <2>1, <2>3, <3>1, <3>2
        <3>4. Pending(b) \in Int /\ Pending(b)' = Pending(b) + (SavedTo(g, b) - SavedTo(f, b))
            BY ZenonT(30), <1>1, <3>3, PendingStep
        <3>5. Pending(b)' = Pending(b) + Delta(e)
            BY <2>1, <2>3, <3>1, <3>2, <3>4
        <3>6. Replay(DOMAIN recorded, b)' = Replay(DOMAIN recorded, b)
            BY <1>1 DEF Replay
        <3>7. Replay(DOMAIN recorded, b) \in Int
            BY ReplayType
        <3> DEFINE R == Replay(DOMAIN recorded, b)
                   P == Pending(b)
        <3>8. FreshCopy(f)
            BY <1>1, <2>3 DEF DInv
        <3>9. accounts'[b].balance = Wrap(Wrap(R + P) + Delta(e))
            BY <1>5, <2>1, <2>3, <3>8 DEF FreshCopy, Explained
        <3>10. Explained(b)' <=> accounts'[b].balance = Wrap(R + (P + Delta(e)))
            BY <3>5, <3>6 DEF Explained
        <3> HIDE DEF R, P
        <3>11. R \in Int /\ P \in Int
            BY <3>4, <3>7 DEF R, P
        <3>12. R + P \in Int /\ (R + P) + Delta(e) = R + (P + Delta(e))
            BY <3>1, <3>11
        <3>13. Wrap(Wrap(R + P) + Delta(e)) = Wrap((R + P) + Delta(e))
            BY <3>1, <3>12, WrapAdd
        <3> QED BY <2>3, <3>9, <3>10, <3>12, <3>13
    <2> QED BY <2>2, <2>3
<1>9. DriftIsExplained'
    BY <1>1, <1>5, <1>8 DEF DriftIsExplained, Explained
<1> QED BY <1>6, <1>9

\* The append turns what the handler has pending into an event, whether or not
\* its answer arrives.
LEMMA DriftAppend ==
    ASSUME IInv, DInv, DriftIsExplained, NEW p \in Proc, NEW t \in TxId, InsertRecorded(p, t),
           NEW g, h' = [h EXCEPT ![p] = g], g.pc \in {"project", "recorded"},
           exposed' = exposed
    PROVE  DInv' /\ DriftIsExplained'
<1>1. accounts' = accounts
    BY DEF InsertRecorded
<1>2. DInv'
    BY ZenonT(30), <1>1, ReplayStep, CopiesStep
<1>3. ASSUME NEW a \in DOMAIN accounts \ exposed PROVE Explained(a)'
    <2> DEFINE R == Replay(DOMAIN recorded, a)
               P == Pending(a)
               s == SavedTo(h[p], a)
    <2>1. SavedTo(g, a) = 0
        BY SavedToNone
    <2>2. P \in Int /\ Pending(a)' = P + (0 - s)
        <3>1. SavedTo(g, a) \in Int
            BY <2>1
        <3>2. P \in Int /\ Pending(a)' = P + (SavedTo(g, a) - s)
            BY ZenonT(30), <3>1, PendingStep
        <3> QED BY Zenon, <2>1, <3>2
    <2>3. Replay(DOMAIN recorded, a)' = R + s
        BY ReplayStep
    <2>4. R \in Int /\ s \in Int
        BY ReplayType, SavedToType
    <2>5. Explained(a)
        BY DEF DriftIsExplained, Explained
    <2>6. Explained(a) <=> accounts[a].balance = Wrap(R + P)
        BY DEF Explained
    <2>7. Explained(a)' <=> accounts[a].balance = Wrap((R + s) + (P + (0 - s)))
        BY <1>1, <2>2, <2>3 DEF Explained
    <2> HIDE DEF R, P, s
    <2>8. (R + s) + (P + (0 - s)) = R + P
        BY <2>2, <2>4
    <2> QED BY <2>5, <2>6, <2>7, <2>8
<1>4. DriftIsExplained'
    BY <1>1, <1>3 DEF DriftIsExplained, Explained
<1> QED BY <1>2, <1>4

\* A transaction that stops exposes the accounts of the entries it has saved.
LEMMA DriftStop ==
    ASSUME IInv, DInv, DriftIsExplained, NEW p \in Proc, NEW g, h' = [h EXCEPT ![p] = g],
           g.pc \in {"opened", "recorded"}, recorded' = recorded,
           exposed \cup Saved(h[p]) \subseteq exposed',
           \/ accounts' = accounts
           \/ UpdateAccount(p) /\ At(h[p]).account \in exposed'
    PROVE  DInv' /\ DriftIsExplained'
<1>1. DOMAIN accounts' = DOMAIN accounts
      /\ \A a \in DOMAIN accounts \ exposed' : accounts'[a] = accounts[a]
    <2>1. CASE accounts' = accounts
        BY <2>1
    <2>2. CASE UpdateAccount(p) /\ At(h[p]).account \in exposed'
        <3>1. At(h[p]).account \in DOMAIN accounts
            BY <2>2 DEF UpdateAccount, IInv, HandlersGrounded, FrameOK, At
        <3> QED BY <2>2, <3>1 DEF UpdateAccount, Upsert
    <2> QED BY <2>1, <2>2
<1>2. DInv'
    <2>1. IsFiniteSet(DOMAIN recorded')
        BY DEF DInv
    <2> QED BY ZenonT(30), <1>1, <2>1, CopiesStep
<1>3. ASSUME NEW a \in DOMAIN accounts \ exposed' PROVE Explained(a)'
    <2>1. SavedTo(g, a) = 0 /\ SavedTo(h[p], a) = 0
        BY SavedToNone
    <2>2. Explained(a)
        BY DEF DriftIsExplained, Explained
    <2> QED BY ZenonT(30), <1>1, <2>1, <2>2, ExplainedSame
<1>4. DriftIsExplained'
    BY <1>1, <1>3 DEF DriftIsExplained, Explained
<1> QED BY <1>2, <1>4

\* The positions before one that is at most one past the end.
LEMMA EarlierPosition ==
    \A n \in Nat : \A k : (k \in 1..n \/ k = n + 1) =>
        \A j \in 1..(k - 1) : j \in 1..n /\ j < k
OBVIOUS

\* A new account starts at zero, and no entry is on it.
LEMMA DriftOpen ==
    ASSUME IInv, DInv, DriftIsExplained, NEW p \in Proc, NEW a \in AccountId,
           InsertAccount(p, a), NEW g, h' = [h EXCEPT ![p] = g],
           g.pc \in {"open_append", "opened"}, exposed' = exposed
    PROVE  DInv' /\ DriftIsExplained'
<1>1. /\ a \notin DOMAIN accounts /\ DOMAIN accounts' = DOMAIN accounts \cup {a}
      /\ accounts'[a] = h[p].acc /\ h[p].acc.balance = 0 /\ recorded' = recorded
      /\ h[p].pc = "open_save" /\ \A b \in DOMAIN accounts : accounts'[b] = accounts[b]
    BY DEF InsertAccount, Upsert, DInv
<1>2. DInv'
    <2>1. IsFiniteSet(DOMAIN recorded')
        BY <1>1 DEF DInv
    <2> QED BY ZenonT(30), <1>1, <2>1, CopiesStep
<1>3. \A b : SavedTo(g, b) = 0 /\ SavedTo(h[p], b) = 0
    BY <1>1, SavedToNone
<1>4. ASSUME NEW b \in DOMAIN accounts \ exposed PROVE Explained(b)'
    <2>1. Explained(b)
        BY DEF DriftIsExplained, Explained
    <2>2. SavedTo(g, b) = SavedTo(h[p], b) /\ accounts'[b] = accounts[b]
        BY <1>1, <1>3
    <2> QED BY ZenonT(30), <1>1, <2>1, <2>2, ExplainedSame
<1>5. Explained(a)'
    <2>1. Replay(DOMAIN recorded, a) = 0
        <3> DEFINE D == DOMAIN recorded
                   net == [t \in D |-> NetUpTo(recorded[t], Len(recorded[t]), a)]
        <3>1. ASSUME NEW t \in D PROVE net[t] = 0
            <4>1. \A k \in 1..Len(recorded[t]) : recorded[t][k].account # a
                BY <1>1, Positions DEF IInv, TypeOK, ReadModelGrounded
            <4> QED BY <4>1, NetNone
        <3>2. Replay(D, a) = SumFunctionOnSet(net, D) /\ IsFiniteSet(D)
            BY DEF Replay, DInv
        <3> HIDE DEF net, D
        <3>3. Replay(D, a) = 0
            BY <3>1, <3>2, SumZero
        <3> QED BY <3>3 DEF D
    <2>2. Replay(DOMAIN recorded, a)' = Replay(DOMAIN recorded, a)
        BY <1>1 DEF Replay
    <2>3. Pending(a) = 0
        <3> DEFINE s == [q \in Proc |-> SavedTo(h[q], a)]
        <3>1. ASSUME NEW q \in Proc PROVE s[q] = 0
            <4>1. a \notin Saved(h[q])
                <5>1. h[q].entries \in Seq(Entry)
                    BY FrameFields DEF IInv, TypeOK
                <5>2. ASSUME h[q].pc \in {"find", "save", "append"}, NEW j \in 1..(h[q].k - 1)
                      PROVE  h[q].entries[j].account # a
                    <6>1. h[q].k \in DOMAIN h[q].entries \/ h[q].k = Len(h[q].entries) + 1
                        BY <5>2 DEF IInv, HandlersGrounded, FrameOK
                    <6>2. j \in DOMAIN h[q].entries /\ j < h[q].k
                        <7>1. DOMAIN h[q].entries = 1..Len(h[q].entries) /\ Len(h[q].entries) \in Nat
                            BY ZenonT(30), <5>1, Positions
                        <7> QED BY ZenonT(30), <5>2, <6>1, <7>1, EarlierPosition
                    <6> QED BY <1>1, <5>2, <6>2 DEF IInv, HandlersGrounded, FrameOK
                <5> QED BY <5>2 DEF Saved
            <4> QED BY <4>1, SavedToNone
        <3>2. Pending(a) = SumFunctionOnSet(s, Proc)
            BY DEF Pending
        <3> HIDE DEF s
        <3> QED BY <3>1, <3>2, FiniteAssumption, SumZero
    <2>4. Pending(a)' = Pending(a) + (0 - 0)
        <3>1. SavedTo(g, a) \in Int
            BY <1>3
        <3>2. Pending(a)' = Pending(a) + (SavedTo(g, a) - SavedTo(h[p], a))
            BY ZenonT(30), <3>1, PendingStep
        <3> QED BY Zenon, <1>3, <3>2
    <2>5. Wrap(0 + 0) = 0
        BY MoneyAssumption, WrapExact DEF Int64
    <2> QED BY SMTT(30), <1>1, <2>1, <2>2, <2>3, <2>4, <2>5 DEF Explained
<1>6. DriftIsExplained'
    BY <1>1, <1>4, <1>5 DEF DriftIsExplained, Explained
<1> QED BY <1>2, <1>6

\* A restart exposes the accounts of every entry that was saved for nothing.
LEMMA DriftCrash ==
    ASSUME IInv, DInv, DriftIsExplained, Crash
    PROVE  DInv' /\ DriftIsExplained'
<1>1. /\ accounts' = accounts /\ recorded' = recorded
      /\ \A p \in Proc : h'[p] = Idle
      /\ exposed \subseteq exposed' /\ \A p \in Proc : Saved(h[p]) \subseteq exposed'
    BY DEF Crash, tables
<1>2. \A p \in Proc : h'[p].pc = "idle"
    BY <1>1 DEF Idle
<1>3. DInv'
    BY <1>1, <1>2 DEF DInv
<1>4. ASSUME NEW a \in DOMAIN accounts \ exposed' PROVE Explained(a)'
    <2> DEFINE s == [p \in Proc |-> SavedTo(h[p], a)]
               t == [p \in Proc |-> SavedTo(h'[p], a)]
    <2>1. \A p \in Proc : s[p] = 0 /\ t[p] = 0
        BY <1>1, <1>2, SavedToNone
    <2>2. Pending(a) = SumFunctionOnSet(s, Proc) /\ Pending(a)' = SumFunctionOnSet(t, Proc)
        BY DEF Pending
    <2> HIDE DEF s, t
    <2>3. SumFunctionOnSet(s, Proc) = 0 /\ SumFunctionOnSet(t, Proc) = 0
        BY <2>1, SumZero, FiniteAssumption
    <2>4. Pending(a)' = Pending(a)
        BY <2>2, <2>3
    <2>5. Explained(a)
        BY <1>1 DEF DriftIsExplained, Explained
    <2>6. Replay(DOMAIN recorded, a)' = Replay(DOMAIN recorded, a)
        BY <1>1 DEF Replay
    <2> QED BY <1>1, <2>4, <2>5, <2>6 DEF Explained
<1>5. DriftIsExplained'
    BY <1>1, <1>4 DEF DriftIsExplained, Explained
<1> QED BY <1>3, <1>5

\* At the start every balance is zero and the log has no transaction.
LEMMA DriftInit ==
    ASSUME Init
    PROVE  DInv /\ DriftIsExplained
<1>1. DOMAIN recorded = {} /\ IsFiniteSet({}) /\ \A p \in Proc : h[p].pc = "idle"
    BY FS_EmptySet DEF Init, Idle
<1>2. DInv
    BY <1>1 DEF DInv
<1>3. ASSUME NEW a \in DOMAIN accounts PROVE Explained(a)
    <2> DEFINE s == [p \in Proc |-> SavedTo(h[p], a)]
    <2>1. \A p \in Proc : s[p] = 0
        BY <1>1, SavedToNone
    <2>2. Pending(a) = SumFunctionOnSet(s, Proc)
        BY DEF Pending
    <2> HIDE DEF s
    <2>3. SumFunctionOnSet(s, Proc) = 0
        BY <2>1, SumZero, FiniteAssumption
    <2>4. Replay(DOMAIN recorded, a) = 0
        BY <1>1, SumEmpty DEF Replay
    <2>5. accounts[a].balance = 0
        BY LedgerAssumption DEF Init
    <2>6. Wrap(0 + 0) = 0
        BY MoneyAssumption, WrapExact DEF Int64
    <2> QED BY <2>2, <2>3, <2>4, <2>5, <2>6 DEF Explained
<1> QED BY <1>2, <1>3 DEF DriftIsExplained, Explained

\* A call that fails gives up the transaction it belongs to.
LEMMA DriftFailure ==
    ASSUME IInv, DInv, DriftIsExplained, NEW p \in Proc,
           FindRejected(p) \/ DbError(p) \/ LostAck(p)
    PROVE  DInv' /\ DriftIsExplained'
<1> DEFINE f == h[p]
<1>1. f \in Frame /\ \A t \in TxId : [f EXCEPT !.tx = t] \in Frame
    BY ZenonT(60) DEF IInv, TypeOK, Frame
<1>2. PICK g : h' = [h EXCEPT ![p] = g] /\ g.pc \in {"opened", "recorded"}
    BY FailedCall
<1>3. CASE FindRejected(p) \/ DbError(p)
    <2>1. accounts' = accounts /\ recorded' = recorded /\ exposed' = exposed \cup Saved(f)
        BY <1>3 DEF FindRejected, DbError, tables
    <2> QED BY ZenonT(30), <1>2, <2>1, DriftStop
<1>4. CASE LostAck(p)
    <2>1. CASE (\E a \in AccountId : InsertAccount(p, a)) /\ exposed' = exposed
        <3>1. PICK a \in AccountId : InsertAccount(p, a)
            BY <2>1
        <3>2. g.pc = "opened"
            <4>1. f.pc = "open_save" /\ h' = [h EXCEPT ![p] = Return(f, "err")]
                BY <1>4, <3>1 DEF LostAck, InsertAccount, InsertOpened, UpdateAccount, InsertRecorded
            <4>2. h'[p] = Return(f, "err") /\ h'[p] = g
                BY <1>2, <4>1 DEF IInv, TypeOK
            <4>3. Return(f, "err").pc = "opened"
                BY <1>1, <4>1 DEF Return, Frame, OpenPC
            <4> QED BY <4>2, <4>3
        <3> QED BY ZenonT(30), <1>2, <2>1, <3>1, <3>2, DriftOpen
    <2>2. CASE InsertOpened(p) /\ exposed' = exposed
        <3>1. accounts' = accounts /\ recorded' = recorded /\ f.pc = "open_append"
            BY <2>2 DEF InsertOpened
        <3>2. Saved(f) = {}
            BY <3>1 DEF Saved
        <3> QED BY ZenonT(30), <1>2, <2>2, <3>1, <3>2, DriftStop
    <2>3. CASE UpdateAccount(p) /\ exposed' = exposed \cup Saved(f) \cup {At(f).account}
        <3>1. recorded' = recorded
            BY <2>3 DEF UpdateAccount
        <3> QED BY ZenonT(30), <1>2, <2>3, <3>1, DriftStop
    <2>4. CASE (\E t \in TxId : InsertRecorded(p, t)) /\ exposed' = exposed
        <3>1. PICK t \in TxId : InsertRecorded(p, t)
            BY <2>4
        <3>2. g.pc = "recorded"
            <4>1. PICK u \in TxId : f.pc = "append" /\ h' = [h EXCEPT ![p] = Return([f EXCEPT !.tx = u], "err")]
                BY ZenonT(30), <1>4, <3>1 DEF LostAck, InsertAccount, InsertOpened, UpdateAccount, InsertRecorded
            <4>2. h'[p] = Return([f EXCEPT !.tx = u], "err") /\ h'[p] = g
                BY <1>2, <4>1 DEF IInv, TypeOK
            <4>3. Return([f EXCEPT !.tx = u], "err").pc = "recorded"
                BY <1>1, <4>1 DEF Return, Frame, OpenPC
            <4> QED BY <4>2, <4>3
        <3> QED BY ZenonT(30), <1>2, <2>4, <3>1, <3>2, DriftAppend
    <2> QED BY ZenonT(30), <1>4, <2>1, <2>2, <2>3, <2>4 DEF LostAck
<1> QED BY <1>3, <1>4

\* The write model agrees with the event log, up to what handlers have in
\* flight, except on accounts that two handlers held copies of at once or whose
\* transaction stopped half way: for any number of handlers, accounts and
\* failures, with int64 wrap-around, for entries that are DEBIT or CREDIT.
THEOREM DriftStaysExplained ==
    ASSUME EntryType \subseteq {"DEBIT", "CREDIT"}
    PROVE  Spec => []DriftIsExplained
<1> DEFINE Inv == DInv /\ DriftIsExplained
<1>1. Init => Inv
    BY DriftInit
<1>2. IInv /\ Inv /\ [Next]_vars => Inv'
    <2> SUFFICES ASSUME IInv, Inv, [Next]_vars PROVE Inv'
        OBVIOUS
    <2>1. ASSUME NEW p \in Proc,
                 Handle(p) \/ Step(p) \/ Continue(p) \/ DbError(p) \/ LostAck(p)
          PROVE  Inv'
        <3> DEFINE f == h[p]
        <3>1. f \in Frame
            BY DEF IInv, TypeOK
        <3>2. CASE SaveNewAccount(p)
            <4> DEFINE g(a) == [f EXCEPT !.pc = "open_append", !.aid = a]
            <4>1. PICK a \in AccountId : InsertAccount(p, a) /\ h' = [h EXCEPT ![p] = g(a)]
                BY ZenonT(30), <3>2 DEF SaveNewAccount
            <4>2. g(a).pc = "open_append" /\ exposed' = exposed
                BY <3>1, <3>2 DEF Frame, SaveNewAccount
            <4> HIDE DEF g
            <4> QED BY ZenonT(30), <4>1, <4>2, DriftOpen
        <3>3. CASE AppendRecorded(p)
            <4> DEFINE g(t, A) == [f EXCEPT !.pc = "project", !.tx = t, !.absent = A]
            <4>1. PICK t, A : /\ t \in TxId /\ InsertRecorded(p, t)
                              /\ h' = [h EXCEPT ![p] = g(t, A)]
                BY ZenonT(30), <3>3 DEF AppendRecorded
            <4>2. g(t, A).pc = "project" /\ exposed' = exposed
                BY <3>1, <3>3 DEF Frame, AppendRecorded
            <4> HIDE DEF g
            <4> QED BY ZenonT(30), <4>1, <4>2, DriftAppend
        <3>4. CASE FindByID(p) \/ SaveAccount(p)
            BY <3>4, DriftFind, DriftSave
        <3>5. CASE FindRejected(p) \/ DbError(p) \/ LostAck(p)
            BY <3>5, DriftFailure
        <3>6. CASE \/ Handle(p) \/ Continue(p)
                   \/ SystemAccountFound(p) \/ SystemAccountMissing(p) \/ AppendOpened(p)
                   \/ ProjectAccountOpened(p) \/ ProjectTransactionRecorded(p)
                   \/ ProjectionSkipped(p)
            BY <3>6, DriftQuiet
        <3> QED BY <2>1, <3>2, <3>3, <3>4, <3>5, <3>6 DEF Step
    <2>2. CASE Crash
        BY <2>2, DriftCrash
    <2>3. CASE UNCHANGED vars
        BY <2>3 DEF vars, tables, DInv, FreshCopy, DriftIsExplained, Replay, Pending
    <2> QED BY <2>1, <2>2, <2>3 DEF Next, Finished
<1>3. Inv => DriftIsExplained
    OBVIOUS
<1> HIDE DEF Inv
<1> QED BY <1>1, <1>2, <1>3, Invariance, PTL DEF Spec
=============================================================================

------------------------ MODULE LedgerServiceProofs ------------------------
(***************************************************************************)
(* Proofs about LedgerService for any number of handlers, accounts,        *)
(* requests and failures.                                                  *)
(***************************************************************************)
EXTENDS LedgerService, TLAPS

\* The inductive invariant.  ReadModelGrounded and AcknowledgedIsRecorded are
\* not inductive by themselves: a step that projects or answers relies on what
\* the handler's earlier steps left in the tables, which HandlersGrounded says.
IInv ==
    /\ TypeOK
    /\ HandlersGrounded
    /\ ReadModelGrounded
    /\ AcknowledgedIsRecorded

\* The part of TypeOK about the tables.
TablesType ==
    /\ DOMAIN accounts \subseteq AccountId
    /\ \A a \in DOMAIN accounts : accounts[a] \in AccountRow
    /\ opened \subseteq AccountId
    /\ DOMAIN recorded \subseteq TxId
    /\ \A t \in DOMAIN recorded : recorded[t] \in Seq(Entry)
    /\ DOMAIN balances \subseteq AccountId
    /\ \A a \in DOMAIN balances : balances[a] \in Int64
    /\ history \subseteq TxId
    /\ missed \subseteq TxId \X Nat

CountersType == sent \in 0..MaxRequests /\ failed \in 0..MaxFaults

\* No step removes an account or removes or rewrites an event.
Grows ==
    /\ DOMAIN accounts \subseteq DOMAIN accounts'
    /\ opened \subseteq opened'
    /\ \A t \in DOMAIN recorded :
           t \in DOMAIN recorded' /\ recorded'[t] = recorded[t]

-----------------------------------------------------------------------------
(* Frames.                                                                 *)

\* A handler without a request has a well-formed frame and relies on nothing.
LEMMA IdleFrame ==
    /\ Idle \in Frame
    /\ \A A, O, R : FrameOK(Idle, A, O, R)
<1>1. <<>> \in Seq(Entry)
    OBVIOUS
<1>2. Idle \in Frame
    BY <1>1 DEF Idle, Frame, PC
<1>3. \A A, O, R : FrameOK(Idle, A, O, R)
    BY DEF Idle, FrameOK
<1> QED BY <1>2, <1>3

\* A handler's frame stays good while others add to the tables.
LEMMA FrameMonotone ==
    ASSUME NEW f, NEW A, NEW A2, NEW O, NEW O2, NEW R, NEW R2,
           FrameOK(f, A, O, R), A \subseteq A2, O \subseteq O2,
           \A t \in DOMAIN R : t \in DOMAIN R2 /\ R2[t] = R[t]
    PROVE  FrameOK(f, A2, O2, R2)
  BY DEF FrameOK

\* The types of a frame's fields.
LEMMA FrameFields ==
    ASSUME NEW f \in Frame
    PROVE  /\ f.pc \in PC /\ f.aid \in AccountId \cup {NoAccount}
           /\ f.entries \in Seq(Entry) /\ f.k \in Nat /\ f.tx \in TxId \cup {None}
           /\ f.ret \in {"ok", "err"}
  BY DEF Frame

\* Returning from a call leaves a frame.
LEMMA ReturnFrame ==
    ASSUME NEW f \in Frame, NEW r \in {"ok", "err"}
    PROVE  /\ Return(f, r) \in Frame
           /\ Return(f, r).pc = (IF f.pc \in OpenPC THEN "opened" ELSE "recorded")
           /\ Return(f, r).req = f.req /\ Return(f, r).aid = f.aid
           /\ Return(f, r).entries = f.entries /\ Return(f, r).tx = f.tx
           /\ Return(f, r).ret = r
<1> DEFINE pc == IF f.pc \in OpenPC THEN "opened" ELSE "recorded"
           g == [f EXCEPT !.pc = pc, !.acc = None, !.absent = {}, !.ret = r]
<1>1. Return(f, r) = g
    BY DEF Return
<1>2. pc \in PC
    BY DEF PC
<1> HIDE DEF pc
<1>3. g \in Frame
    BY ZenonT(30), <1>2 DEF Frame
<1>4. /\ g.pc = pc /\ g.req = f.req /\ g.aid = f.aid
      /\ g.entries = f.entries /\ g.tx = f.tx /\ g.ret = r
    BY DEF Frame
<1> HIDE DEF g
<1> QED BY <1>1, <1>3, <1>4 DEF pc

\* An error return relies on nothing.
LEMMA ReturnErr ==
    ASSUME NEW f \in Frame, NEW A, NEW O, NEW R, f.req \in Served
    PROVE  /\ Return(f, "err") \in Frame
           /\ FrameOK(Return(f, "err"), A, O, R)
<1> DEFINE g == Return(f, "err")
<1>1. g \in Frame /\ g.pc \in {"opened", "recorded"} /\ g.req = f.req /\ g.ret = "err"
    BY ReturnFrame
<1> HIDE DEF g
<1>2. FrameOK(g, A, O, R)
    BY <1>1 DEF FrameOK
<1> QED BY <1>1, <1>2 DEF g

\* OpenAccount, entered for the client, leaves a good frame.
LEMMA OpenAccountFrame ==
    ASSUME NEW f \in Frame, NEW A, NEW O, NEW R, f.req \in Served,
           NEW cmd \in OpenAccountCmd
    PROVE  /\ OpenAccount(f, cmd) \in Frame
           /\ FrameOK(OpenAccount(f, cmd), A, O, R)
<1> DEFINE type == IF cmd.type \in {"EQUITY", "LIABILITY"} THEN cmd.type ELSE "ASSET"
           row == NewAccountWithType(cmd.name, type, cmd.currency)
<1>1. 0 \in Int64
    BY MoneyAssumption DEF Int64
<1>2. CASE NewAccountOK(cmd.name, cmd.currency)
    <2>1. row \in AccountRow
        BY ZenonT(30), <1>1, <1>2 DEF NewAccountOK, NewAccountWithType, AccountRow, AccountType,
                          Status, OpenAccountCmd
    <2>2. OpenAccount(f, cmd) = [f EXCEPT !.pc = "open_save", !.cmd = cmd, !.acc = row]
        BY <1>2 DEF OpenAccount
    <2> HIDE DEF row
    <2> QED BY ZenonT(30), <2>1, <2>2 DEF Frame, FrameOK, PC, OpenPC
<1>3. CASE ~NewAccountOK(cmd.name, cmd.currency)
    <2>1. OpenAccount(f, cmd) = [f EXCEPT !.pc = "opened", !.cmd = cmd, !.ret = "err"]
        BY <1>3 DEF OpenAccount
    <2> QED BY ZenonT(30), <2>1 DEF Frame, FrameOK, PC
<1> QED BY <1>2, <1>3

\* getOrCreateSystemAccount, entered for a deposit or a transfer, does too.
LEMMA SystemAccountFrame ==
    ASSUME NEW f \in Frame, NEW A, NEW O, NEW R, f.req \in Served, f.req.kind # "open",
           NEW name \in Name, NEW type \in TypeCode, NEW currency \in CurrencyCode
    PROVE  /\ getOrCreateSystemAccount(f, name, type, currency) \in Frame
           /\ FrameOK(getOrCreateSystemAccount(f, name, type, currency), A, O, R)
  BY ZenonT(30) DEF getOrCreateSystemAccount, Frame, FrameOK, PC, OpenPC, OpenAccountCmd

\* RecordTransaction, entered with a list of entries, does too.
LEMMA RecordTransactionFrame ==
    ASSUME NEW f \in Frame, NEW A, NEW O, NEW R, f.req \in Served,
           NEW es \in Seq(Entry)
    PROVE  /\ RecordTransaction(f, es) \in Frame
           /\ FrameOK(RecordTransaction(f, es), A, O, R)
<1> DEFINE ok == Recordable(es)
<1>1. ok => 1 \in DOMAIN es
    BY DEF Recordable, NewTransactionOK
<1>2. \A j \in DOMAIN es : ~(j < 1)
    OBVIOUS
<1>3. CASE ok
    <2> DEFINE g == [f EXCEPT !.pc = "find", !.ret = "ok", !.entries = es,
                              !.k = 1, !.tx = None]
    <2>1. RecordTransaction(f, es) = g
        BY <1>3 DEF RecordTransaction
    <2>2. g \in Frame
        BY ZenonT(30) DEF Frame, PC, RecordPC
    <2>3. g.pc = "find" /\ g.req = f.req /\ g.entries = es /\ g.k = 1
        BY DEF Frame
    <2> HIDE DEF g
    <2>4. FrameOK(g, A, O, R)
        BY <1>1, <1>2, <1>3, <2>3 DEF FrameOK
    <2> QED BY <2>1, <2>2, <2>4
<1>4. CASE ~ok
    <2> DEFINE g == [f EXCEPT !.pc = "recorded", !.ret = "err", !.entries = es,
                              !.k = 1, !.tx = None]
    <2>1. RecordTransaction(f, es) = g
        BY <1>4 DEF RecordTransaction
    <2>2. g \in Frame
        BY ZenonT(30) DEF Frame, PC, RecordPC
    <2>3. g.pc = "recorded" /\ g.ret = "err" /\ g.req = f.req
        BY DEF Frame
    <2> HIDE DEF g
    <2>4. FrameOK(g, A, O, R)
        BY <2>3 DEF FrameOK
    <2> QED BY <2>1, <2>2, <2>4
<1> QED BY <1>3, <1>4

-----------------------------------------------------------------------------
(* Steps of one handler.                                                   *)

\* A step of one handler keeps the invariant if it leaves that handler's frame
\* and the tables good and the tables only grow: the others' frames follow.
LEMMA OneHandler ==
    ASSUME IInv, NEW p \in Proc, NEW g \in Frame, h' = [h EXCEPT ![p] = g],
           FrameOK(g, DOMAIN accounts', opened', recorded'),
           Grows, TablesType', ReadModelGrounded', CountersType',
           AcknowledgedIsRecorded'
    PROVE  IInv'
<1>1. h' \in [Proc -> Frame]
    BY DEF IInv, TypeOK
<1>2. HandlersGrounded'
    <2> SUFFICES ASSUME NEW q \in Proc
                 PROVE  FrameOK(h'[q], DOMAIN accounts', opened', recorded')
        BY DEF HandlersGrounded
    <2>1. CASE q = p
        BY <2>1 DEF IInv, TypeOK
    <2>2. CASE q # p
        <3>1. h'[q] = h[q] /\ FrameOK(h[q], DOMAIN accounts, opened, recorded)
            BY <2>2 DEF IInv, TypeOK, HandlersGrounded
        <3> QED BY <3>1, FrameMonotone DEF Grows
    <2> QED BY <2>1, <2>2
<1> QED BY <1>1, <1>2 DEF IInv, TypeOK, TablesType, CountersType

\* What was acknowledged stays recorded while the tables grow.
LEMMA AckMonotone ==
    ASSUME AcknowledgedIsRecorded, Grows, UNCHANGED acked
    PROVE  AcknowledgedIsRecorded'
  BY DEF AcknowledgedIsRecorded, Grows

\* The case of a step that writes no table.
LEMMA NoTableWritten ==
    ASSUME IInv, NEW p \in Proc, NEW g \in Frame, h' = [h EXCEPT ![p] = g],
           FrameOK(g, DOMAIN accounts, opened, recorded), UNCHANGED tables,
           CountersType', AcknowledgedIsRecorded'
    PROVE  IInv'
<1>1. /\ accounts' = accounts /\ opened' = opened /\ recorded' = recorded
      /\ balances' = balances /\ history' = history
      /\ missed' = missed
    BY DEF tables
<1>2. Grows
    BY <1>1 DEF Grows
<1>3. TablesType' /\ ReadModelGrounded'
    BY <1>1 DEF IInv, TypeOK, TablesType, ReadModelGrounded
<1> QED BY ZenonT(30), <1>1, <1>2, <1>3, OneHandler

\* And if it acknowledges nothing either.
LEMMA LocalStep ==
    ASSUME IInv, NEW p \in Proc, NEW g \in Frame, h' = [h EXCEPT ![p] = g],
           FrameOK(g, DOMAIN accounts, opened, recorded), UNCHANGED <<tables, acked>>,
           CountersType'
    PROVE  IInv'
<1>1. Grows
    BY DEF Grows, tables
<1>2. AcknowledgedIsRecorded'
    BY <1>1, AckMonotone DEF IInv
<1> QED BY ZenonT(30), <1>2, NoTableWritten

\* A request arrives at an idle handler.
LEMMA AcceptStep ==
    ASSUME IInv, NEW p \in Proc, NEW g \in Frame, Accept(p, g),
           FrameOK(g, DOMAIN accounts, opened, recorded)
    PROVE  IInv'
<1>1. CountersType'
    BY LedgerAssumption DEF IInv, TypeOK, Accept, CountersType
<1> QED BY ZenonT(30), <1>1, LocalStep DEF Accept

\* The three endpoints of this service.
LEMMA HandleStep ==
    ASSUME IInv, NEW p \in Proc, Handle(p)
    PROVE  IInv'
<1> DEFINE f(r) == [Idle EXCEPT !.req = r]
<1>1. \A r \in Requests : f(r) \in Frame /\ f(r).req = r
    BY IdleFrame DEF Frame
<1>s. \A r \in Requests : r.kind # "deposit" \/ r.amount > 0 => r \in Served
    BY DEF Served
<1>2. \A r \in Requests : r \in Command
    BY LedgerAssumption
<1> HIDE DEF f
<1>3. CASE HandleOpenAccount(p)
    <2>1. PICK r \in Requests : r.kind = "open" /\ Accept(p, OpenAccount(f(r), r))
        BY <1>3 DEF HandleOpenAccount, f
    <2>2. r \in OpenAccountCmd
        BY <1>2, <2>1 DEF Command, RecordTransactionCmd, DepositCmd, TransferCmd
    <2> QED BY <1>1, <1>s, <2>1, <2>2, OpenAccountFrame, AcceptStep
<1>4. CASE HandleRecordTransaction(p)
    <2>1. PICK r \in Requests :
              r.kind = "record" /\ Accept(p, RecordTransaction(f(r), r.entries))
        BY ZenonT(30), <1>4 DEF HandleRecordTransaction, f
    <2>2. r.entries \in Seq(Entry)
        BY <1>2, <2>1 DEF Command, OpenAccountCmd, RecordTransactionCmd, DepositCmd,
                          TransferCmd
    <2> QED BY <1>1, <1>s, <2>1, <2>2, RecordTransactionFrame, AcceptStep
<1>5. CASE HandleDeposit(p)
    <2>1. PICK r \in Requests :
              /\ r.kind = "deposit" /\ r.amount > 0
              /\ Accept(p, getOrCreateSystemAccount(f(r), EquityName[r.currency],
                                                    "EQUITY", r.currency))
        BY ZenonT(30), <1>5 DEF HandleDeposit, f
    <2>2. r.currency \in CurrencyCode
        BY <1>2, <2>1 DEF Command, OpenAccountCmd, RecordTransactionCmd, DepositCmd,
                          TransferCmd
    <2>3. EquityName[r.currency] \in Name
        BY <2>2, LedgerAssumption
    <2> DEFINE g == getOrCreateSystemAccount(f(r), EquityName[r.currency],
                                             "EQUITY", r.currency)
    <2>4. f(r).req.kind # "open"
        BY <1>1, <2>1
    <2>5. f(r) \in Frame /\ f(r).req \in Served /\ "EQUITY" \in TypeCode
        BY <1>1, <1>s, <2>1, LedgerAssumption DEF AccountType
    <2>6. g \in Frame /\ FrameOK(g, DOMAIN accounts, opened, recorded)
        BY <2>2, <2>3, <2>4, <2>5, SystemAccountFrame
    <2> QED BY <2>1, <2>6, AcceptStep
<1>6. CASE RejectDeposit(p)
    BY <1>6, IdleFrame, AcceptStep DEF RejectDeposit
<1> QED BY <1>3, <1>4, <1>5, <1>6 DEF Handle

\* getOrCreateSystemAccount and OpenAccount.
LEMMA OpenStep ==
    ASSUME IInv, NEW p \in Proc,
           \/ SystemAccountFound(p) \/ SystemAccountMissing(p)
           \/ SaveNewAccount(p) \/ AppendOpened(p) \/ ProjectAccountOpened(p)
    PROVE  IInv'
<1> DEFINE f == h[p]
<1>1. f \in Frame /\ FrameOK(f, DOMAIN accounts, opened, recorded)
    BY DEF IInv, TypeOK, HandlersGrounded
<1>2. TablesType /\ ReadModelGrounded /\ AcknowledgedIsRecorded /\ CountersType
    BY DEF IInv, TypeOK, TablesType, CountersType
<1>3. h \in [Proc -> Frame]
    BY DEF IInv, TypeOK
<1>4. CASE SystemAccountFound(p)
    <2>1. PICK a \in DOMAIN accounts :
              h' = [h EXCEPT ![p] = Return([f EXCEPT !.aid = a], "ok")]
        BY ZenonT(30), <1>4 DEF SystemAccountFound
    <2> DEFINE g == Return([f EXCEPT !.aid = a], "ok")
    <2>2. f.pc = "sys_find" /\ a \in AccountId
        BY <1>2, <1>4 DEF SystemAccountFound, TablesType
    <2> DEFINE f2 == [f EXCEPT !.aid = a]
    <2>3. f2 \in Frame /\ f2.pc = f.pc /\ f2.aid = a /\ f2.req = f.req
        BY <1>1, <2>2 DEF Frame
    <2> HIDE DEF f2
    <2>4. g \in Frame /\ g.pc = "opened" /\ g.aid = a /\ g.req = f.req
        <3>1. Return(f2, "ok") \in Frame /\ Return(f2, "ok").pc = "opened"
              /\ Return(f2, "ok").aid = a /\ Return(f2, "ok").req = f.req
            BY <2>2, <2>3, ReturnFrame DEF OpenPC
        <3> QED BY <3>1 DEF f2
    <2> HIDE DEF g
    <2>5. FrameOK(g, DOMAIN accounts, opened, recorded)
        BY <1>1, <2>2, <2>4 DEF FrameOK
    <2>6. CountersType' /\ UNCHANGED <<tables, acked>>
        BY <1>2, <1>4 DEF SystemAccountFound, CountersType
    <2> QED BY ZenonT(30), <2>1, <2>4, <2>5, <2>6, LocalStep DEF g
<1>5. CASE SystemAccountMissing(p)
    <2>1. f.cmd \in OpenAccountCmd /\ f.req \in Served
        BY <1>1, <1>5 DEF SystemAccountMissing, FrameOK
    <2>2. h' = [h EXCEPT ![p] = OpenAccount(f, f.cmd)] /\ UNCHANGED <<tables, acked>>
        BY <1>5 DEF SystemAccountMissing
    <2>3. CountersType'
        BY <1>2, <1>5 DEF SystemAccountMissing, CountersType
    <2> QED BY ZenonT(30), <1>1, <2>1, <2>2, <2>3, OpenAccountFrame, LocalStep
<1>6. CASE SaveNewAccount(p)
    <2>1. PICK a \in AccountId :
              /\ InsertAccount(p, a)
              /\ h' = [h EXCEPT ![p] = [f EXCEPT !.pc = "open_append", !.aid = a]]
        BY ZenonT(30), <1>6 DEF SaveNewAccount
    <2> DEFINE g == [f EXCEPT !.pc = "open_append", !.aid = a]
    <2>2. f.acc \in AccountRow /\ f.req \in Served
        BY <1>1, <2>1 DEF InsertAccount, FrameOK
    <2>3. Grows /\ TablesType' /\ ReadModelGrounded' /\ a \in DOMAIN accounts'
        BY <1>2, <2>1, <2>2 DEF InsertAccount, Upsert, Grows, TablesType, ReadModelGrounded
    <2>4. g \in Frame /\ g.pc = "open_append" /\ g.aid = a /\ g.req = f.req
        BY ZenonT(30), <1>1 DEF Frame, PC, OpenPC
    <2> HIDE DEF g
    <2>5. FrameOK(g, DOMAIN accounts', opened', recorded')
        BY <2>2, <2>3, <2>4 DEF FrameOK
    <2>6. CountersType' /\ AcknowledgedIsRecorded'
        BY ZenonT(30), <1>2, <1>6, <2>3, AckMonotone DEF SaveNewAccount, CountersType
    <2> QED BY ZenonT(30), <2>1, <2>3, <2>4, <2>5, <2>6, OneHandler DEF g
<1>7. CASE AppendOpened(p)
    <2> DEFINE g == [f EXCEPT !.pc = "open_project"]
    <2>1. f.aid \in DOMAIN accounts /\ f.req \in Served
        BY <1>1, <1>7 DEF AppendOpened, InsertOpened, FrameOK
    <2>2. h' = [h EXCEPT ![p] = g]
        BY <1>7 DEF AppendOpened
    <2>3. Grows /\ TablesType' /\ ReadModelGrounded' /\ f.aid \in opened'
        BY <1>2, <1>7, <2>1 DEF AppendOpened, InsertOpened, Grows, TablesType,
                                ReadModelGrounded
    <2>4. g \in Frame /\ g.pc = "open_project" /\ g.aid = f.aid /\ g.req = f.req
        BY <1>1 DEF Frame, PC, OpenPC
    <2> HIDE DEF g
    <2>5. FrameOK(g, DOMAIN accounts', opened', recorded')
        BY <2>1, <2>3, <2>4 DEF FrameOK, Grows
    <2>6. CountersType' /\ AcknowledgedIsRecorded'
        BY <1>2, <1>7, <2>3, AckMonotone DEF AppendOpened, CountersType
    <2> QED BY ZenonT(30), <2>2, <2>3, <2>4, <2>5, <2>6, OneHandler
<1>8. CASE ProjectAccountOpened(p)
    <2> DEFINE g == Return(f, "ok")
    <2>1. f.pc = "open_project" /\ f.aid \in opened /\ f.aid \in DOMAIN accounts
              /\ f.req \in Served /\ h' = [h EXCEPT ![p] = g]
        BY <1>1, <1>8 DEF ProjectAccountOpened, FrameOK
    <2>2. 0 \in Int64
        BY MoneyAssumption DEF Int64
    <2>3. Grows /\ TablesType' /\ ReadModelGrounded'
        BY <1>2, <1>8, <2>1, <2>2 DEF ProjectAccountOpened, Upsert, Grows, TablesType,
                                      ReadModelGrounded
    <2>4. g \in Frame /\ g.pc = "opened" /\ g.aid = f.aid /\ g.req = f.req
        BY <1>1, <2>1, ReturnFrame DEF OpenPC
    <2> HIDE DEF g
    <2>5. FrameOK(g, DOMAIN accounts', opened', recorded')
        BY <2>1, <2>3, <2>4 DEF FrameOK, Grows
    <2>6. CountersType' /\ AcknowledgedIsRecorded'
        BY <1>2, <1>8, <2>3, AckMonotone DEF ProjectAccountOpened, CountersType
    <2> QED BY ZenonT(30), <2>1, <2>3, <2>4, <2>5, <2>6, OneHandler
<1> QED BY <1>4, <1>5, <1>6, <1>7, <1>8

\* Applying an entry to an account gives an account.
LEMMA ApplyType ==
    ASSUME NEW a \in AccountRow, NEW e \in Entry
    PROVE  Apply(a, e) \in AccountRow
<1>1. \A n \in Int : Wrap(n) \in Int64
    BY MoneyAssumption DEF Wrap, Int64
<1>2. e.amount \in Int64 /\ a.balance \in Int64
    BY DEF Entry, AccountRow
<1>3. Add(a.balance, e.amount) \in Int64 /\ Subtract(a.balance, e.amount) \in Int64
    BY <1>1, <1>2 DEF Add, Subtract, Int64
<1>4. Credit(a, e) \in AccountRow /\ Debit(a, e) \in AccountRow
    BY <1>3 DEF Credit, Debit, AccountRow
<1> QED BY <1>4 DEF Apply

\* RecordTransaction up to the append of its event.
LEMMA SaveStep ==
    ASSUME IInv, NEW p \in Proc, FindByID(p) \/ FindRejected(p) \/ SaveAccount(p)
    PROVE  IInv'
<1> DEFINE f == h[p]
<1>1. f \in Frame /\ FrameOK(f, DOMAIN accounts, opened, recorded)
    BY DEF IInv, TypeOK, HandlersGrounded
<1>2. TablesType /\ ReadModelGrounded /\ AcknowledgedIsRecorded /\ CountersType
    BY DEF IInv, TypeOK, TablesType, CountersType
<1>3. f.pc \in {"find", "save"} /\ f.req \in Served /\ f.k \in DOMAIN f.entries
          /\ f.entries \in Seq(Entry) /\ f.k \in Nat /\ Recordable(f.entries)
    BY <1>1 DEF FindByID, FindRejected, SaveAccount, UpdateAccount, FrameOK, Frame
<1>4. At(f) \in Entry
    BY <1>3 DEF At
<1>5. CASE FindByID(p)
    <2> DEFINE a == At(f).account
               g == [f EXCEPT !.pc = "save", !.acc = Apply(accounts[a], At(f))]
    <2>1. f.pc = "find" /\ a \in DOMAIN accounts /\ h' = [h EXCEPT ![p] = g]
        BY <1>5 DEF FindByID
    <2>2. Apply(accounts[a], At(f)) \in AccountRow
        BY <1>2, <1>4, <2>1, ApplyType DEF TablesType
    <2>3. g \in Frame /\ g.pc = "save" /\ g.req = f.req /\ g.acc \in AccountRow
              /\ g.k = f.k /\ g.entries = f.entries
        BY ZenonT(30), <1>1, <2>2 DEF Frame, PC, RecordPC
    <2> HIDE DEF g
    <2>4. FrameOK(g, DOMAIN accounts, opened, recorded)
        BY <1>1, <1>3, <2>1, <2>3 DEF FrameOK, At
    <2>5. CountersType' /\ UNCHANGED <<tables, acked>>
        BY <1>2, <1>5 DEF FindByID, CountersType
    <2> QED BY ZenonT(30), <2>1, <2>3, <2>4, <2>5, LocalStep
<1>6. CASE FindRejected(p)
    <2>1. h' = [h EXCEPT ![p] = Return(f, "err")] /\ UNCHANGED <<tables, acked>>
        BY <1>6 DEF FindRejected
    <2>2. CountersType'
        BY <1>2, <1>6 DEF FindRejected, CountersType
    <2> QED BY ZenonT(30), <1>1, <1>3, <2>1, <2>2, ReturnErr, LocalStep
<1>7. CASE SaveAccount(p)
    <2> DEFINE a == At(f).account
               next == IF f.k = Len(f.entries) THEN "append" ELSE "find"
               g == [f EXCEPT !.pc = next, !.k = f.k + 1, !.acc = None]
    <2>1. f.pc = "save" /\ h' = [h EXCEPT ![p] = g]
        BY <1>7 DEF SaveAccount, UpdateAccount
    <2>2. a \in DOMAIN accounts /\ f.acc \in AccountRow
        BY <1>1, <2>1 DEF FrameOK, At
    <2>3. Grows /\ TablesType' /\ ReadModelGrounded' /\ DOMAIN accounts' = DOMAIN accounts
        BY ZenonT(30), <1>2, <1>7, <2>2 DEF SaveAccount, UpdateAccount, Upsert, Grows, TablesType,
                                ReadModelGrounded
    <2>n. next \in {"append", "find"}
        OBVIOUS
    <2> HIDE DEF next
    <2>g. g \in Frame
        <3>1. f.k + 1 \in Nat /\ next \in PC
            BY <1>3, <2>n DEF PC, RecordPC
        <3> QED BY ZenonT(30), <1>1, <3>1 DEF Frame
    <2>4. g \in Frame /\ g.pc = next /\ g.req = f.req /\ g.k = f.k + 1
              /\ g.entries = f.entries
        BY SMTT(30), <1>1, <2>g DEF Frame
    <2> HIDE DEF g
    <2>5. FrameOK(g, DOMAIN accounts', opened', recorded')
        <3>1. \A j \in DOMAIN g.entries : j < g.k => g.entries[j].account \in DOMAIN accounts'
            BY SMTT(30), <1>1, <1>3, <2>1, <2>2, <2>3, <2>4 DEF FrameOK, At
        <3>2. next = "find" => g.k \in DOMAIN g.entries
            BY SMTT(30), <1>3, <2>4 DEF next
        <3>3. next = "append" => g.k = Len(g.entries) + 1
            BY <1>3, <2>4 DEF next
        <3> QED BY SMTT(30), <1>3, <2>n, <2>4, <3>1, <3>2, <3>3 DEF FrameOK
    <2>6. CountersType' /\ AcknowledgedIsRecorded'
        BY <1>2, <1>7, <2>3, AckMonotone DEF SaveAccount, CountersType
    <2> QED BY ZenonT(30), <2>1, <2>3, <2>4, <2>5, <2>6, OneHandler
<1> QED BY <1>5, <1>6, <1>7

\* The append of a TransactionRecordedEvent adds it to the log under a new id;
\* the accounts of all its entries exist by then.
LEMMA InsertRecordedTables ==
    ASSUME IInv, NEW p \in Proc, NEW t \in TxId, InsertRecorded(p, t)
    PROVE  /\ Grows /\ TablesType' /\ ReadModelGrounded'
           /\ t \in DOMAIN recorded' /\ recorded'[t] = h[p].entries
<1> DEFINE f == h[p]
<1>1. f \in Frame /\ FrameOK(f, DOMAIN accounts, opened, recorded)
    BY DEF IInv, TypeOK, HandlersGrounded
<1>2. TablesType /\ ReadModelGrounded
    BY DEF IInv, TypeOK, TablesType
<1>3. f.entries \in Seq(Entry) /\ f.pc = "append"
    BY <1>1 DEF Frame, InsertRecorded
<1>4. \A j \in DOMAIN f.entries : f.entries[j].account \in DOMAIN accounts
    BY <1>1, <1>3 DEF FrameOK
<1>5. /\ recorded' = Upsert(recorded, t, f.entries) /\ t \notin DOMAIN recorded
      /\ accounts' = accounts /\ opened' = opened
      /\ balances' = balances /\ history' = history
      /\ missed' = missed
    BY DEF InsertRecorded
<1>6. /\ DOMAIN recorded' = DOMAIN recorded \cup {t}
      /\ recorded'[t] = f.entries
      /\ \A u \in DOMAIN recorded : u # t /\ recorded'[u] = recorded[u]
    BY <1>5 DEF Upsert
<1>7. Grows
    BY <1>5, <1>6 DEF Grows
<1>8. TablesType'
    BY SMTT(30), <1>2, <1>3, <1>5, <1>6 DEF TablesType
<1>9. ReadModelGrounded'
    BY <1>2, <1>4, <1>5, <1>6 DEF ReadModelGrounded
<1> QED BY <1>6, <1>7, <1>8, <1>9

\* Returning "ok" from RecordTransaction once its event is in the log.
LEMMA ReturnRecorded ==
    ASSUME IInv, NEW p \in Proc, h[p].pc = "project"
    PROVE  /\ Return(h[p], "ok") \in Frame
           /\ FrameOK(Return(h[p], "ok"), DOMAIN accounts, opened, recorded)
<1> DEFINE f == h[p]
           g == Return(f, "ok")
<1>1. f \in Frame /\ FrameOK(f, DOMAIN accounts, opened, recorded)
    BY DEF IInv, TypeOK, HandlersGrounded
<1>2. /\ g \in Frame
      /\ g.pc = "recorded" /\ g.req = f.req /\ g.tx = f.tx /\ g.entries = f.entries
    BY <1>1, ReturnFrame DEF OpenPC
<1> HIDE DEF g
<1>3. FrameOK(g, DOMAIN accounts, opened, recorded)
    BY <1>1, <1>2 DEF FrameOK
<1> QED BY <1>2, <1>3 DEF g

\* RecordTransaction from the append on.
LEMMA RecordStep ==
    ASSUME IInv, NEW p \in Proc,
           AppendRecorded(p) \/ ProjectTransactionRecorded(p) \/ ProjectionSkipped(p)
    PROVE  IInv'
<1> DEFINE f == h[p]
<1>1. f \in Frame /\ FrameOK(f, DOMAIN accounts, opened, recorded)
    BY DEF IInv, TypeOK, HandlersGrounded
<1>2. TablesType /\ ReadModelGrounded /\ AcknowledgedIsRecorded /\ CountersType
    BY DEF IInv, TypeOK, TablesType, CountersType
<1>3. CASE AppendRecorded(p)
    <2> DEFINE A == {f.entries[k].account : k \in DOMAIN f.entries} \ DOMAIN balances
    <2>1. PICK t \in TxId :
              /\ InsertRecorded(p, t)
              /\ h' = [h EXCEPT ![p] = [f EXCEPT !.pc = "project", !.tx = t, !.absent = A]]
        BY ZenonT(30), <1>3 DEF AppendRecorded
    <2> DEFINE g == [f EXCEPT !.pc = "project", !.tx = t, !.absent = A]
    <2>7. A \in SUBSET (AccountId \cup {NoAccount})
        <3>1. f.entries \in Seq(Entry)
            BY <1>1, FrameFields
        <3>2. \A k \in DOMAIN f.entries : f.entries[k].account \in AccountId \cup {NoAccount}
            <4>1. \A k \in DOMAIN f.entries : f.entries[k] \in Entry
                BY <3>1
            <4> QED BY <4>1 DEF Entry
        <3> QED BY <3>2
    <2> HIDE DEF A
    <2>2. Grows /\ TablesType' /\ ReadModelGrounded'
              /\ t \in DOMAIN recorded' /\ recorded'[t] = f.entries
        BY <2>1, InsertRecordedTables
    <2>3. g \in Frame /\ g.pc = "project" /\ g.tx = t /\ g.req = f.req
              /\ g.entries = f.entries
        BY ZenonT(30), <1>1, <2>7 DEF Frame, PC, RecordPC
    <2>4. f.req \in Served /\ Recordable(f.entries)
        BY <1>1, <2>1 DEF InsertRecorded, FrameOK
    <2> HIDE DEF g
    <2>5. FrameOK(g, DOMAIN accounts', opened', recorded')
        BY <2>2, <2>3, <2>4 DEF FrameOK
    <2>6. CountersType' /\ AcknowledgedIsRecorded'
        BY ZenonT(30), <1>2, <1>3, <2>2, AckMonotone DEF AppendRecorded, CountersType
    <2> QED BY ZenonT(30), <2>1, <2>2, <2>3, <2>5, <2>6, OneHandler DEF g
<1>4. CASE ProjectTransactionRecorded(p)
    <2> DEFINE es == f.entries
               g == Return(f, "ok")
    <2>1. f.pc = "project" /\ h' = [h EXCEPT ![p] = g]
        BY <1>4 DEF ProjectTransactionRecorded
    <2>2. f.tx \in DOMAIN recorded /\ recorded[f.tx] = es
        BY <1>1, <2>1 DEF FrameOK
    <2>3. es \in Seq(Entry)
        BY <1>1, FrameFields
    <2>4. PICK S \in SUBSET Missable(es, f.absent) :
              /\ Applicable(Missing(es, S), balances)
              /\ balances' = [a \in DOMAIN balances |->
                                balances[a] + NetUpTo(Missing(es, S), Len(es), a)]
              /\ missed' = missed \cup {<<f.tx, k>> : k \in S}
        BY <1>4 DEF ProjectTransactionRecorded
    <2>5. DOMAIN Missing(es, S) = DOMAIN es
              /\ \A k \in DOMAIN es : Missing(es, S)[k].account = es[k].account
        <3>1. \A k \in DOMAIN es : es[k] \in Entry
            BY <2>3
        <3> QED BY <3>1 DEF Missing, Entry
    <2>6. \A a \in DOMAIN balances' : balances'[a] \in Int64
        <3>0. Recordable(es)
            BY <1>1, <2>1 DEF FrameOK
        <3> HIDE DEF es
        <3>2. Len(es) >= 2
            BY <3>0 DEF Recordable, NewTransactionOK
        <3>1. Len(es) \in DOMAIN Missing(es, S)
            BY <2>3, <2>5, <3>2
        <3> QED BY SMTT(30), <2>4, <3>1 DEF Applicable
    <2>7. missed' \subseteq TxId \X Nat
        <3>1. f.tx \in TxId /\ missed \subseteq TxId \X Nat
            BY <1>2, <2>2 DEF TablesType
        <3>2. S \subseteq Nat
            BY <2>3, <2>4 DEF Missable
        <3> QED BY <2>4, <3>1, <3>2
    <2>8. Grows /\ TablesType' /\ ReadModelGrounded'
        <3>1. /\ accounts' = accounts /\ opened' = opened /\ recorded' = recorded
              /\ history' = history \cup {f.tx}
            BY <1>4 DEF ProjectTransactionRecorded
        <3>2. DOMAIN balances' = DOMAIN balances
            BY <2>4
        <3>3. \A k \in DOMAIN es : es[k].account \in DOMAIN balances
            BY SMTT(30), <2>4, <2>5 DEF Applicable
        <3>4. TablesType'
            BY <1>2, <2>2, <2>6, <2>7, <3>1, <3>2 DEF TablesType
        <3>5. ReadModelGrounded'
            BY <1>2, <2>2, <3>1, <3>2, <3>3 DEF ReadModelGrounded
        <3> QED BY <3>1, <3>4, <3>5 DEF Grows
    <2>9. g \in Frame /\ FrameOK(g, DOMAIN accounts', opened', recorded')
        BY <1>4, <2>1, ReturnRecorded DEF ProjectTransactionRecorded
    <2>10. CountersType' /\ AcknowledgedIsRecorded'
        BY <1>2, <1>4, <2>8, AckMonotone DEF ProjectTransactionRecorded, CountersType
    <2> QED BY ZenonT(30), <2>1, <2>8, <2>9, <2>10, OneHandler
<1>5. CASE ProjectionSkipped(p)
    <2>1. f.pc = "project" /\ h' = [h EXCEPT ![p] = Return(f, "ok")]
              /\ UNCHANGED <<tables, acked>>
        BY <1>5 DEF ProjectionSkipped
    <2>2. CountersType'
        BY <1>2, <1>5 DEF ProjectionSkipped, CountersType
    <2> QED BY ZenonT(30), <2>1, <2>2, ReturnRecorded, LocalStep
<1> QED BY <1>3, <1>4, <1>5

-----------------------------------------------------------------------------
(* The callers go on.                                                      *)

\* Deposit goes on to RecordTransaction; the other two answer the client.
LEMMA ContinueStep ==
    ASSUME IInv, NEW p \in Proc, Continue(p)
    PROVE  IInv'
<1> DEFINE f == h[p]
           r == f.req
<1>1. f \in Frame /\ FrameOK(f, DOMAIN accounts, opened, recorded)
    BY DEF IInv, TypeOK, HandlersGrounded
<1>2. TablesType /\ AcknowledgedIsRecorded /\ CountersType
    BY DEF IInv, TypeOK, TablesType, CountersType
<1>3. f.pc \in {"opened", "recorded"} /\ r \in Served
    BY ZenonT(30), <1>1 DEF Continue, DepositRecord, RespondOpened, RespondRecorded, FrameOK
<1>4. CASE DepositRecord(p)
    <2> DEFINE es == <<[account |-> f.aid, amount |-> r.amount,
                        currency |-> r.currency, type |-> "DEBIT"],
                       [account |-> r.account, amount |-> r.amount,
                        currency |-> r.currency, type |-> "CREDIT"]>>
    <2>1. r.kind = "deposit" /\ UNCHANGED <<tables, acked>>
        BY <1>4 DEF DepositRecord
    <2>h. h' = [h EXCEPT ![p] = RecordTransaction(f, es)]
        BY Zenon, <1>4 DEF DepositRecord
    <2>2. r \in DepositCmd
        BY SMTT(30), <1>3, <2>1, LedgerAssumption DEF Served, Command, OpenAccountCmd,
                                            RecordTransactionCmd, TransferCmd
    <2>3. es[1] \in Entry /\ es[2] \in Entry
        BY <1>1, <2>2, LedgerAssumption DEF DepositCmd, Entry, Frame
    <2>4. es \in Seq(Entry)
        BY SMTT(30), <2>3
    <2>5. CountersType'
        BY SMTT(30), <1>2, <1>4 DEF DepositRecord, CountersType
    <2> HIDE DEF es
    <2>6. /\ RecordTransaction(f, es) \in Frame
          /\ FrameOK(RecordTransaction(f, es), DOMAIN accounts, opened, recorded)
        BY <1>1, <1>3, <2>4, RecordTransactionFrame
    <2> QED BY ZenonT(30), <2>1, <2>h, <2>5, <2>6, LocalStep
<1>5. CASE RespondOpened(p)
    <2>1. f.ret = "ok" => f.aid \in opened
        BY <1>1, <1>5 DEF RespondOpened, FrameOK
    <2>2. h' = [h EXCEPT ![p] = Idle] /\ UNCHANGED tables /\ CountersType'
        BY <1>2, <1>5 DEF RespondOpened, CountersType
    <2>3. opened' = opened /\ recorded' = recorded
        BY <2>2 DEF tables
    <2> DEFINE new == [kind |-> "open", account |-> f.aid]
    <2>4. acked' = acked \/ (f.ret = "ok" /\ acked' = acked \cup {new})
        BY <1>5 DEF RespondOpened
    <2>5. new.kind = "open" /\ new.account = f.aid
        OBVIOUS
    <2> HIDE DEF new, f
    <2>6. AcknowledgedIsRecorded'
        BY SMTT(30), <1>2, <2>1, <2>3, <2>4, <2>5 DEF AcknowledgedIsRecorded
    <2> QED BY ZenonT(30), <2>2, <2>6, IdleFrame, NoTableWritten
<1>6. CASE RespondRecorded(p)
    <2>1. f.ret = "ok" => f.tx \in DOMAIN recorded /\ recorded[f.tx] = f.entries
        <3>1. f.pc = "recorded"
            BY Zenon, <1>6 DEF RespondRecorded
        <3>2. f.pc = "recorded" /\ f.ret = "ok" =>
                  f.tx \in DOMAIN recorded /\ recorded[f.tx] = f.entries
            BY ZenonT(30), <1>1 DEF FrameOK
        <3> QED BY Zenon, <3>1, <3>2
    <2>2. h' = [h EXCEPT ![p] = Idle] /\ UNCHANGED tables /\ CountersType'
        BY <1>2, <1>6 DEF RespondRecorded, CountersType
    <2>3. opened' = opened /\ recorded' = recorded
        BY <2>2 DEF tables
    <2> DEFINE new == [kind |-> "record", tx |-> f.tx, entries |-> f.entries]
    <2>4. acked' = acked \/ (f.ret = "ok" /\ acked' = acked \cup {new})
        BY <1>6 DEF RespondRecorded
    <2>5. new.kind # "open" /\ new.tx = f.tx /\ new.entries = f.entries
        OBVIOUS
    <2> HIDE DEF new, f
    <2>6. AcknowledgedIsRecorded'
        BY <1>2, <2>1, <2>3, <2>4, <2>5 DEF AcknowledgedIsRecorded
    <2> QED BY ZenonT(30), <2>2, <2>6, IdleFrame, NoTableWritten
<1> QED BY <1>4, <1>5, <1>6 DEF Continue

-----------------------------------------------------------------------------
(* Failures.                                                               *)

\* A failure is counted within its bound.
LEMMA FailCount ==
    ASSUME IInv, NEW kind, Fail(kind), UNCHANGED sent
    PROVE  CountersType'
  BY LedgerAssumption DEF IInv, TypeOK, Fail, CountersType

\* A storage call without effect.
LEMMA DbErrorStep ==
    ASSUME IInv, NEW p \in Proc, DbError(p)
    PROVE  IInv'
<1> DEFINE f == h[p]
<1>1. f \in Frame /\ FrameOK(f, DOMAIN accounts, opened, recorded)
    BY DEF IInv, TypeOK, HandlersGrounded
<1>2. f.pc \in OpenPC \cup RecordPC /\ UNCHANGED <<tables, acked>> /\ CountersType'
    BY SMTT(30), FailCount DEF DbError
<1>3. f.req \in Served
    BY <1>1, <1>2 DEF FrameOK, OpenPC, RecordPC
<1>4. CASE f.pc = "project"
    <2>1. h' = [h EXCEPT ![p] = Return(f, "ok")]
        BY <1>4 DEF DbError
    <2> QED BY ZenonT(30), <1>2, <1>4, <2>1, ReturnRecorded, LocalStep
<1>5. CASE f.pc = "open_project"
    <2> DEFINE g == Return(f, "ok")
    <2>1. h' = [h EXCEPT ![p] = g]
        BY <1>5 DEF DbError
    <2>2. g \in Frame /\ g.pc = "opened" /\ g.aid = f.aid /\ g.req = f.req
        BY <1>1, <1>5, ReturnFrame DEF OpenPC
    <2> HIDE DEF g
    <2>3. FrameOK(g, DOMAIN accounts, opened, recorded)
        BY <1>1, <1>5, <2>2 DEF FrameOK
    <2> QED BY ZenonT(30), <1>2, <2>1, <2>2, <2>3, LocalStep
<1>6. CASE f.pc \notin {"open_project", "project"}
    <2>1. h' = [h EXCEPT ![p] = Return(f, "err")]
        BY <1>6 DEF DbError
    <2> QED BY ZenonT(30), <1>1, <1>2, <1>3, <2>1, ReturnErr, LocalStep
<1> QED BY <1>4, <1>5, <1>6

\* A write whose answer is lost: the table has it, the caller sees an error.
LEMMA LostAckStep ==
    ASSUME IInv, NEW p \in Proc, LostAck(p)
    PROVE  IInv'
<1> DEFINE f == h[p]
<1>1. f \in Frame /\ FrameOK(f, DOMAIN accounts, opened, recorded)
    BY DEF IInv, TypeOK, HandlersGrounded
<1>2. TablesType /\ ReadModelGrounded /\ AcknowledgedIsRecorded
    BY DEF IInv, TypeOK, TablesType
<1>3. CountersType' /\ UNCHANGED acked
    BY FailCount DEF LostAck
<1>4. f.req \in Served
    BY ZenonT(30), <1>1 DEF LostAck, InsertAccount, InsertOpened, UpdateAccount, InsertRecorded, FrameOK
<1>5. ASSUME NEW g \in Frame, g.req = f.req, h' = [h EXCEPT ![p] = Return(g, "err")],
             Grows, TablesType', ReadModelGrounded'
      PROVE  IInv'
    <2>1. /\ Return(g, "err") \in Frame
          /\ FrameOK(Return(g, "err"), DOMAIN accounts', opened', recorded')
        BY <1>4, <1>5, ReturnErr
    <2>2. AcknowledgedIsRecorded'
        BY <1>2, <1>3, <1>5, AckMonotone
    <2> QED BY ZenonT(30), <1>3, <1>5, <2>1, <2>2, OneHandler
<1>6. CASE /\ \E a \in AccountId : InsertAccount(p, a)
           /\ h' = [h EXCEPT ![p] = Return(f, "err")]
    <2>1. PICK a \in AccountId : InsertAccount(p, a)
        BY <1>6
    <2>2. f.acc \in AccountRow
        BY <1>1, <2>1 DEF InsertAccount, FrameOK
    <2>3. Grows /\ TablesType' /\ ReadModelGrounded'
        BY <1>2, <2>1, <2>2 DEF InsertAccount, Upsert, Grows, TablesType, ReadModelGrounded
    <2> QED BY ZenonT(30), <1>1, <1>5, <1>6, <2>3
<1>7. CASE InsertOpened(p) /\ h' = [h EXCEPT ![p] = Return(f, "err")]
    <2>1. f.aid \in DOMAIN accounts
        BY <1>1, <1>7 DEF InsertOpened, FrameOK
    <2>2. Grows /\ TablesType' /\ ReadModelGrounded'
        BY <1>2, <1>7, <2>1 DEF InsertOpened, Grows, TablesType, ReadModelGrounded
    <2> QED BY ZenonT(30), <1>1, <1>5, <1>7, <2>2
<1>8. CASE UpdateAccount(p) /\ h' = [h EXCEPT ![p] = Return(f, "err")]
    <2>0. f.pc = "save"
        BY <1>8 DEF UpdateAccount
    <2> HIDE DEF f
    <2>1. At(f).account \in DOMAIN accounts /\ f.acc \in AccountRow
        BY <1>1, <2>0 DEF FrameOK, At
    <2> USE DEF f
    <2>2. Grows /\ TablesType' /\ ReadModelGrounded'
        BY <1>2, <1>8, <2>1 DEF UpdateAccount, Upsert, Grows, TablesType, ReadModelGrounded
    <2> QED BY ZenonT(30), <1>1, <1>5, <1>8, <2>2
<1>9. CASE \E t \in TxId : /\ InsertRecorded(p, t)
                           /\ h' = [h EXCEPT ![p] = Return([f EXCEPT !.tx = t], "err")]
    <2>1. PICK t \in TxId : /\ InsertRecorded(p, t)
                            /\ h' = [h EXCEPT ![p] = Return([f EXCEPT !.tx = t], "err")]
        BY ZenonT(30), <1>9
    <2>2. Grows /\ TablesType' /\ ReadModelGrounded'
        BY <2>1, InsertRecordedTables
    <2>3. [f EXCEPT !.tx = t] \in Frame /\ [f EXCEPT !.tx = t].req = f.req
        BY <1>1 DEF Frame
    <2> QED BY ZenonT(30), <1>5, <2>1, <2>2, <2>3
<1> QED BY ZenonT(30), <1>6, <1>7, <1>8, <1>9 DEF LostAck

\* Every handler is gone; the tables stay.
LEMMA CrashStep ==
    ASSUME IInv, Crash
    PROVE  IInv'
<1>1. /\ accounts' = accounts /\ opened' = opened /\ recorded' = recorded
      /\ balances' = balances /\ history' = history /\ missed' = missed /\ acked' = acked
    BY DEF Crash, tables
<1>2. h' \in [Proc -> Frame] /\ HandlersGrounded'
    BY IdleFrame DEF Crash, HandlersGrounded
<1>3. CountersType'
    BY SMTT(30), FailCount DEF Crash
<1>4. ReadModelGrounded' /\ AcknowledgedIsRecorded'
    BY <1>1 DEF IInv, ReadModelGrounded, AcknowledgedIsRecorded
<1> QED BY <1>1, <1>2, <1>3, <1>4 DEF IInv, TypeOK, CountersType

-----------------------------------------------------------------------------
(* The theorems.                                                           *)

\* The invariant holds initially: the seeded accounts are in all three stores.
LEMMA InitIInv == Init => IInv
<1> SUFFICES ASSUME Init PROVE IInv
    OBVIOUS
<1>1. 0 \in Int64
    BY MoneyAssumption DEF Int64
<1>2. TypeOK
    BY <1>1, IdleFrame, LedgerAssumption DEF Init, TypeOK
<1>3. HandlersGrounded
    BY IdleFrame DEF Init, HandlersGrounded
<1>4. ReadModelGrounded /\ AcknowledgedIsRecorded
    BY DEF Init, ReadModelGrounded, AcknowledgedIsRecorded
<1> QED BY <1>2, <1>3, <1>4 DEF IInv

\* And every step keeps it.
LEMMA NextIInv == IInv /\ [Next]_vars => IInv'
<1> SUFFICES ASSUME IInv, [Next]_vars PROVE IInv'
    OBVIOUS
<1>1. ASSUME NEW p \in Proc, Handle(p) PROVE IInv'
    BY <1>1, HandleStep
<1>2. ASSUME NEW p \in Proc, Step(p) PROVE IInv'
    BY <1>2, OpenStep, SaveStep, RecordStep DEF Step
<1>3. ASSUME NEW p \in Proc, Continue(p) PROVE IInv'
    BY <1>3, ContinueStep
<1>4. ASSUME NEW p \in Proc, DbError(p) PROVE IInv'
    BY <1>4, DbErrorStep
<1>5. ASSUME NEW p \in Proc, LostAck(p) PROVE IInv'
    BY <1>5, LostAckStep
<1>6. CASE Crash
    BY SMTT(30), <1>6, CrashStep
<1>7. CASE UNCHANGED vars
    <2>1. /\ accounts' = accounts /\ opened' = opened /\ recorded' = recorded
          /\ balances' = balances /\ history' = history /\ missed' = missed /\ h' = h
          /\ sent' = sent /\ failed' = failed /\ acked' = acked
        BY <1>7 DEF vars, tables
    <2> QED BY <2>1 DEF IInv, TypeOK, HandlersGrounded, ReadModelGrounded,
                        AcknowledgedIsRecorded
<1> QED BY <1>1, <1>2, <1>3, <1>4, <1>5, <1>6, <1>7 DEF Next, Finished

LEMMA Invariance == Spec => []IInv
  BY InitIInv, NextIInv, PTL DEF Spec

\* The tables and every handler's frame are well formed in every reachable
\* state; in particular no read-model balance leaves the range of BIGINT.
THEOREM LedgerTypeCorrect == Spec => []TypeOK
<1>1. IInv => TypeOK
    BY DEF IInv
<1> QED BY <1>1, Invariance, PTL

\* What a handler has found or written stays true until it relies on it,
\* whatever the other handlers do between its storage calls.
THEOREM HandlersStayGrounded == Spec => []HandlersGrounded
<1>1. IInv => HandlersGrounded
    BY DEF IInv
<1> QED BY <1>1, Invariance, PTL

\* The read model never shows what the event log does not have, nor the log an
\* account the write model does not have, for any number of handlers and any
\* failures between Save, append and project.
THEOREM ReadModelStaysGrounded == Spec => []ReadModelGrounded
<1>1. IInv => ReadModelGrounded
    BY DEF IInv
<1> QED BY <1>1, Invariance, PTL

\* Every success a client was told of is in the event log for good.
THEOREM AcknowledgedStaysRecorded == Spec => []AcknowledgedIsRecorded
<1>1. IInv => AcknowledgedIsRecorded
    BY DEF IInv
<1> QED BY <1>1, Invariance, PTL

\* The event log implements the journal, for any number of handlers, requests
\* and failures: it gets only transactions that passed the checks, and no step
\* removes or rewrites an event.
THEOREM LogImplementsJournal == Spec => ImplementsJournal
<1> DEFINE A == Log!Next \/ UNCHANGED <<opened, recorded>>
<1>1. ASSUME IInv, NEW p \in Proc, NEW t \in TxId, InsertRecorded(p, t) PROVE A
    <2>1. h[p].pc = "append" /\ Recordable(h[p].entries)
        BY <1>1 DEF IInv, HandlersGrounded, InsertRecorded, FrameOK
    <2>2. /\ t \notin DOMAIN recorded /\ DOMAIN recorded' = DOMAIN recorded \cup {t}
          /\ \A u \in DOMAIN recorded : recorded'[u] = recorded[u]
          /\ recorded'[t] = h[p].entries /\ UNCHANGED opened
        BY <1>1 DEF InsertRecorded, Upsert
    <2>3. Log!Record(t)
        BY <2>1, <2>2 DEF Log!Record
    <2> QED BY <2>3 DEF Log!Next
<1>2. ASSUME IInv, NEW p \in Proc, InsertOpened(p) PROVE A
    <2>1. h[p].aid \in DOMAIN accounts /\ DOMAIN accounts \subseteq AccountId
        BY <1>2 DEF IInv, TypeOK, HandlersGrounded, InsertOpened, FrameOK
    <2> QED BY <1>2, <2>1 DEF InsertOpened, Log!Next, Log!Open
<1>3. ASSUME UNCHANGED <<opened, recorded>> PROVE A
    BY <1>3
<1> HIDE DEF A
<1>4. ASSUME NEW p \in Proc, Handle(p) \/ Continue(p) \/ DbError(p) PROVE A
    BY ZenonT(30), <1>3, <1>4 DEF Handle, HandleOpenAccount, HandleRecordTransaction, HandleDeposit,
                      RejectDeposit, Accept, Continue, DepositRecord, RespondOpened, RespondRecorded,
                      DbError, tables
<1>5. ASSUME IInv, NEW p \in Proc, Step(p) PROVE A
    <2>1. CASE AppendOpened(p)
        BY <1>2, <1>5, <2>1 DEF AppendOpened
    <2>2. CASE AppendRecorded(p)
        BY <1>1, <1>5, <2>2 DEF AppendRecorded
    <2>3. CASE UNCHANGED <<opened, recorded>>
        BY <1>3, <2>3
    <2> QED BY ZenonT(30), <1>5, <2>1, <2>2, <2>3
               DEF Step, SystemAccountFound, SystemAccountMissing, SaveNewAccount,
                   InsertAccount, ProjectAccountOpened, FindByID, FindRejected, SaveAccount,
                   UpdateAccount, ProjectTransactionRecorded, ProjectionSkipped, tables
<1>6. ASSUME IInv, NEW p \in Proc, LostAck(p) PROVE A
    BY ZenonT(30), <1>1, <1>2, <1>3, <1>6 DEF LostAck, InsertAccount, UpdateAccount
<1>7. ASSUME Crash \/ UNCHANGED vars PROVE A
    BY <1>3, <1>7 DEF Crash, tables, vars
<1>8. IInv /\ [Next]_vars => A
    BY <1>4, <1>5, <1>6, <1>7 DEF Next, Finished
<1>9. A => [Log!Next]_<<opened, recorded>>
    BY DEF A
<1>10. Init => Log!Init
    BY LedgerAssumption DEF Init, Log!Init
<1> QED BY <1>8, <1>9, <1>10, Invariance, PTL DEF Spec, ImplementsJournal, Log!Spec
=============================================================================

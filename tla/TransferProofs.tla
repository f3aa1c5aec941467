--------------------------- MODULE TransferProofs ---------------------------
(***************************************************************************)
(* Proofs about TransferService for any number of handlers, accounts,      *)
(* requests and failures.  Those about LedgerService are reused: the saga  *)
(* runs in its handlers.                                                   *)
(***************************************************************************)
EXTENDS TransferService, LedgerServiceProofs

\* Account a of table A is a suspense account for transfer s.
Suspense(a, s, A) == a \in DOMAIN A /\ A[a].name = SuspenseName[s.cmd.currency]

\* The legs of s are in the log R, as SagaMatchesLog has it.
InLog(s, A, R) ==
    \A l \in 1..3 : Leg(s, l) =>
        /\ s.tx[l] \in DOMAIN R
        /\ \E a : Suspense(a, s, A) /\ R[s.tx[l]] = LegEntries(s.cmd, l, a)

\* The state of s tells its legs.
Stated(s) ==
    /\ s.state = "COMPLETED" => Leg(s, 1) /\ Leg(s, 2) /\ ~Leg(s, 3)
    /\ s.state = "COMPENSATED" => Leg(s, 1) /\ Leg(s, 3)
    /\ s.state = "DEBITED" => Leg(s, 1) /\ ~Leg(s, 3)
    /\ s.state = "INITIATED" => ~Leg(s, 2) /\ ~Leg(s, 3)

\* What is claimed of one transfer.
Good(s, A, R, L) ==
    /\ Stated(s)
    /\ InLog(s, A, R)
    /\ Leg(s, 2) /\ Leg(s, 3) => s.tx[2] \in L

\* Where Execute is: the legs before the one it is at have returned.
Stage(s, L) ==
    /\ s.leg = 1 => s.state = "INITIATED" /\ ~Leg(s, 1) /\ ~Leg(s, 2) /\ ~Leg(s, 3)
    /\ s.leg = 2 => s.state = "DEBITED" /\ Leg(s, 1) /\ ~Leg(s, 2) /\ ~Leg(s, 3)
    /\ s.leg = 3 => /\ s.state = "FAILED" /\ Leg(s, 1) /\ ~Leg(s, 3)
                    /\ Leg(s, 2) => s.tx[2] \in L

\* What handler frame f has to do with the transfer s it executes: it looks for
\* the suspense account of s, then records the current leg, and an error with an
\* event in the log is a lost answer.
Running(f, s, A, R, L) ==
    /\ f.pc # "idle" /\ f.req.kind = "transfer"
    /\ Stage(s, L)
    /\ InLog(s, A, R)
    /\ f.pc = "sys_find" => f.cmd.name = SuspenseName[s.cmd.currency]
    /\ f.pc = "open_save" => f.acc.name = SuspenseName[s.cmd.currency]
    /\ f.pc \in {"open_append", "open_project"} => Suspense(f.aid, s, A)
    /\ f.pc = "opened" /\ f.ret = "ok" => Suspense(f.aid, s, A)
    /\ f.pc \in RecordPC \cup {"recorded"} =>
           \E a : /\ a = NoAccount \/ Suspense(a, s, A)
                  /\ f.entries = LegEntries(s.cmd, s.leg, a)
    /\ f.pc \in {"find", "save", "append"} => f.tx = None
    /\ f.pc = "recorded" /\ f.ret = "err" =>
           \/ f.tx = None
           \/ f.tx \in L /\ f.tx \in DOMAIN R /\ R[f.tx] = f.entries

\* The copy that frame f is about to save has the name of its row in A.
NameHeld(f, A) == f.pc = "save" => f.acc.name = A[At(f).account].name

SagaType ==
    /\ saga \in [Proc -> Transfer \cup {None}]
    /\ past \subseteq Transfer
    /\ lost \subseteq TxId

\* The inductive invariant.
TInv ==
    /\ IInv
    /\ SagaType
    /\ \A p \in Proc : NameHeld(h[p], accounts)
    /\ \A p \in Proc : saga[p] # None => Running(h[p], saga[p], accounts, recorded, lost)
    /\ \A s \in past : Good(s, accounts, recorded, lost)

\* Rows keep their names, events stay, and so do lost answers.
Keeps ==
    /\ \A a \in DOMAIN accounts : a \in DOMAIN accounts' /\ accounts'[a].name = accounts[a].name
    /\ \A t \in DOMAIN recorded : t \in DOMAIN recorded' /\ recorded'[t] = recorded[t]
    /\ lost \subseteq lost'

-----------------------------------------------------------------------------
(* Facts about one transfer.                                               *)

\* What is in the log stays there.
LEMMA InLogMonotone ==
    ASSUME NEW s, NEW A, NEW A2, NEW R, NEW R2, InLog(s, A, R),
           \A a \in DOMAIN A : a \in DOMAIN A2 /\ A2[a].name = A[a].name,
           \A t \in DOMAIN R : t \in DOMAIN R2 /\ R2[t] = R[t]
    PROVE  InLog(s, A2, R2)
  BY DEF InLog, Suspense

LEMMA GoodMonotone ==
    ASSUME NEW s, NEW A, NEW A2, NEW R, NEW R2, NEW L, NEW L2, Good(s, A, R, L),
           \A a \in DOMAIN A : a \in DOMAIN A2 /\ A2[a].name = A[a].name,
           \A t \in DOMAIN R : t \in DOMAIN R2 /\ R2[t] = R[t],
           L \subseteq L2
    PROVE  Good(s, A2, R2, L2)
  BY InLogMonotone DEF Good

\* A transfer under way is not disturbed by what others add to the tables.
LEMMA RunningMonotone ==
    ASSUME NEW f, NEW s, NEW A, NEW A2, NEW R, NEW R2, NEW L, NEW L2,
           Running(f, s, A, R, L),
           \A a \in DOMAIN A : a \in DOMAIN A2 /\ A2[a].name = A[a].name,
           \A t \in DOMAIN R : t \in DOMAIN R2 /\ R2[t] = R[t],
           L \subseteq L2
    PROVE  Running(f, s, A2, R2, L2)
<1>1. InLog(s, A2, R2)
    BY InLogMonotone DEF Running
<1>2. Stage(s, L2)
    BY DEF Running, Stage
<1>3. \A a : Suspense(a, s, A) => Suspense(a, s, A2)
    BY DEF Suspense
<1> QED BY <1>1, <1>2, <1>3 DEF Running

\* A transfer has three legs.
LEMMA LegNumbers == \A n \in 1..3 : n = 1 \/ n = 2 \/ n = 3
OBVIOUS

\* The entries of a leg, and the one of them that is on the suspense account.
LEMMA LegEntriesType ==
    ASSUME NEW r \in TransferCmd, NEW l \in 1..3, NEW a \in AccountId \cup {NoAccount}
    PROVE  /\ LegEntries(r, l, a) \in Seq(Entry)
           /\ \E k \in DOMAIN LegEntries(r, l, a) : LegEntries(r, l, a)[k].account = a
<1> DEFINE E(account, type) ==
               [account |-> account, amount |-> r.amount,
                currency |-> r.currency, type |-> type]
<1>1. \A x \in AccountId \cup {NoAccount}, y \in {"DEBIT", "CREDIT"} :
          E(x, y) \in Entry /\ E(x, y).account = x
    BY LedgerAssumption DEF TransferCmd, Entry
<1>2. r.from \in AccountId \cup {NoAccount} /\ r.to \in AccountId \cup {NoAccount}
    BY DEF TransferCmd
<1>3. \/ LegEntries(r, l, a) = <<E(r.from, "DEBIT"), E(a, "CREDIT")>>
      \/ LegEntries(r, l, a) = <<E(a, "DEBIT"), E(r.to, "CREDIT")>>
      \/ LegEntries(r, l, a) = <<E(a, "DEBIT"), E(r.from, "CREDIT")>>
    BY DEF LegEntries
<1> HIDE DEF E
<1>4. CASE LegEntries(r, l, a) = <<E(r.from, "DEBIT"), E(a, "CREDIT")>>
    <2>1. 2 \in DOMAIN LegEntries(r, l, a) /\ LegEntries(r, l, a)[2].account = a
        BY <1>1, <1>4
    <2>2. LegEntries(r, l, a) \in Seq(Entry)
        BY <1>1, <1>2, <1>4
    <2> QED BY <2>1, <2>2
<1>5. CASE LegEntries(r, l, a) = <<E(a, "DEBIT"), E(r.to, "CREDIT")>>
    <2>1. 1 \in DOMAIN LegEntries(r, l, a) /\ LegEntries(r, l, a)[1].account = a
        BY <1>1, <1>5
    <2>2. LegEntries(r, l, a) \in Seq(Entry)
        BY <1>1, <1>2, <1>5
    <2> QED BY <2>1, <2>2
<1>6. CASE LegEntries(r, l, a) = <<E(a, "DEBIT"), E(r.from, "CREDIT")>>
    <2>1. 1 \in DOMAIN LegEntries(r, l, a) /\ LegEntries(r, l, a)[1].account = a
        BY <1>1, <1>6
    <2>2. LegEntries(r, l, a) \in Seq(Entry)
        BY <1>1, <1>2, <1>6
    <2> QED BY <2>1, <2>2
<1> QED BY <1>3, <1>4, <1>5, <1>6

-----------------------------------------------------------------------------
(* Steps.                                                                  *)

\* A step of one handler keeps the invariant if it leaves that handler's frame
\* and transfer good, adds only good transfers to the past, and keeps what the
\* others rely on.
LEMMA OwnStep ==
    ASSUME TInv, IInv', Keeps, NEW p \in Proc, NEW g \in Frame, h' = [h EXCEPT ![p] = g],
           NEW s \in Transfer \cup {None}, saga' = [saga EXCEPT ![p] = s],
           NEW P \in SUBSET Transfer, past' = past \cup P, lost' \subseteq TxId,
           \A x \in P : Good(x, accounts', recorded', lost'),
           NameHeld(g, accounts'),
           s # None => Running(g, s, accounts', recorded', lost')
    PROVE  TInv'
<1>1. h \in [Proc -> Frame] /\ SagaType
    BY DEF TInv, IInv, TypeOK
<1>2. SagaType'
    BY <1>1 DEF SagaType
<1>3. \A q \in Proc : h'[q] = IF q = p THEN g ELSE h[q]
    BY <1>1
<1>4. \A q \in Proc : saga'[q] = IF q = p THEN s ELSE saga[q]
    BY <1>1 DEF SagaType
<1>5. ASSUME NEW q \in Proc, q # p PROVE NameHeld(h[q], accounts')
    <2>1. NameHeld(h[q], accounts) /\ FrameOK(h[q], DOMAIN accounts, opened, recorded)
        BY <1>5 DEF TInv, IInv, HandlersGrounded
    <2>2. h[q].pc = "save" => At(h[q]).account \in DOMAIN accounts
        BY <2>1 DEF FrameOK, At
    <2> QED BY <2>1, <2>2 DEF NameHeld, Keeps
<1>6. ASSUME NEW q \in Proc, q # p, saga[q] # None
      PROVE  Running(h[q], saga[q], accounts', recorded', lost')
    <2>1. Running(h[q], saga[q], accounts, recorded, lost)
        BY <1>6 DEF TInv
    <2> QED BY <2>1, RunningMonotone DEF Keeps
<1>7. ASSUME NEW x \in past PROVE Good(x, accounts', recorded', lost')
    <2>1. Good(x, accounts, recorded, lost)
        BY DEF TInv
    <2> QED BY <2>1, GoodMonotone DEF Keeps
<1>8. \A q \in Proc : NameHeld(h'[q], accounts')
    BY <1>3, <1>5
<1>9. \A q \in Proc : saga'[q] # None => Running(h'[q], saga'[q], accounts', recorded', lost')
    BY <1>3, <1>4, <1>6
<1>10. \A x \in past' : Good(x, accounts', recorded', lost')
    BY <1>7
<1> QED BY <1>2, <1>8, <1>9, <1>10 DEF TInv

\* The case of a step that ends no transfer and takes none to another leg.
LEMMA SameLeg ==
    ASSUME TInv, IInv', Keeps, NEW p \in Proc, NEW g \in Frame, h' = [h EXCEPT ![p] = g],
           UNCHANGED <<saga, past>>, lost' \subseteq TxId,
           NameHeld(g, accounts'),
           saga[p] # None => Running(g, saga[p], accounts', recorded', lost')
    PROVE  TInv'
<1>1. saga[p] \in Transfer \cup {None} /\ saga' = [saga EXCEPT ![p] = saga[p]]
    BY DEF TInv, SagaType
<1>2. {} \in SUBSET Transfer /\ past' = past \cup {}
    OBVIOUS
<1> QED BY ZenonT(60), <1>1, <1>2, OwnStep

\* A write of an account, new or not, and the append of an event keep what is
\* relied on.
LEMMA WriteKeeps ==
    ASSUME TInv, NEW p \in Proc, lost \subseteq lost',
           \/ UNCHANGED <<accounts, recorded>>
           \/ \E a \in AccountId : InsertAccount(p, a)
           \/ UpdateAccount(p)
           \/ \E t \in TxId : InsertRecorded(p, t)
    PROVE  Keeps
<1>1. CASE UNCHANGED <<accounts, recorded>>
    BY <1>1 DEF Keeps
<1>2. CASE \E a \in AccountId : InsertAccount(p, a)
    BY <1>2 DEF Keeps, InsertAccount, Upsert
<1>3. CASE UpdateAccount(p)
    <2>1. NameHeld(h[p], accounts) /\ FrameOK(h[p], DOMAIN accounts, opened, recorded)
        BY DEF TInv, IInv, HandlersGrounded
    <2> DEFINE a == At(h[p]).account
    <2>2. h[p].acc.name = accounts[a].name
        BY <1>3, <2>1 DEF NameHeld, UpdateAccount
    <2>3. accounts' = Upsert(accounts, a, h[p].acc) /\ recorded' = recorded
        BY <1>3 DEF UpdateAccount
    <2> HIDE DEF a
    <2> QED BY <2>2, <2>3 DEF Keeps, Upsert
<1>4. CASE \E t \in TxId : InsertRecorded(p, t)
    BY <1>4 DEF Keeps, InsertRecorded, Upsert
<1> QED BY <1>1, <1>2, <1>3, <1>4

\* getOrCreateSystemAccount and OpenAccount.
LEMMA OpenLeg ==
    ASSUME TInv, NEW p \in Proc, UNCHANGED <<saga, past, lost>>,
           \/ SystemAccountFound(p) \/ SystemAccountMissing(p)
           \/ SaveNewAccount(p) \/ AppendOpened(p) \/ ProjectAccountOpened(p)
    PROVE  TInv'
<1> DEFINE f == h[p]
           s == saga[p]
<1>1. f \in Frame /\ FrameOK(f, DOMAIN accounts, opened, recorded)
          /\ h \in [Proc -> Frame] /\ DOMAIN accounts \subseteq AccountId
    BY DEF TInv, IInv, TypeOK, HandlersGrounded
<1>2. IInv' /\ lost' \subseteq TxId
    BY OpenStep DEF TInv, SagaType
<1>3. Keeps
    <2>1. lost \subseteq lost'
        OBVIOUS
    <2>2. UNCHANGED <<accounts, recorded>> \/ \E a \in AccountId : InsertAccount(p, a)
        BY ZenonT(30) DEF SystemAccountFound, SystemAccountMissing, SaveNewAccount, AppendOpened,
               InsertOpened, ProjectAccountOpened, tables
    <2> QED BY <2>1, <2>2, WriteKeeps
<1>4. s # None => Running(f, s, accounts', recorded', lost')
    <2>1. s # None => Running(f, s, accounts, recorded, lost)
        BY DEF TInv
    <2> QED BY <1>3, <2>1, RunningMonotone DEF Keeps
<1>5. ASSUME NEW g \in Frame, h' = [h EXCEPT ![p] = g], g.pc # "save",
             s # None => Running(g, s, accounts', recorded', lost')
      PROVE  TInv'
    BY ZenonT(30), <1>2, <1>3, <1>5, SameLeg DEF NameHeld
<1>6. CASE SystemAccountFound(p)
    <2>1. PICK a \in DOMAIN accounts :
              /\ accounts[a].name = f.cmd.name
              /\ h' = [h EXCEPT ![p] = Return([f EXCEPT !.aid = a], "ok")]
        BY ZenonT(30), <1>6 DEF SystemAccountFound
    <2> DEFINE g == Return([f EXCEPT !.aid = a], "ok")
    <2>2. f.pc = "sys_find" /\ a \in AccountId
        BY <1>1, <1>6 DEF SystemAccountFound
    <2> DEFINE f2 == [f EXCEPT !.aid = a]
    <2>3. f2 \in Frame /\ f2.pc = f.pc /\ f2.aid = a /\ f2.req = f.req
        BY ZenonT(60), <1>1, <2>2 DEF Frame
    <2> HIDE DEF f2
    <2>4. g \in Frame /\ g.pc = "opened" /\ g.aid = a /\ g.req = f.req
        <3>1. Return(f2, "ok") \in Frame /\ Return(f2, "ok").pc = "opened"
              /\ Return(f2, "ok").aid = a /\ Return(f2, "ok").req = f.req
            BY <2>2, <2>3, ReturnFrame DEF OpenPC
        <3> QED BY <3>1 DEF f2
    <2>5. accounts' = accounts
        BY <1>6 DEF SystemAccountFound, tables
    <2> HIDE DEF g
    <2>6. s # None => Running(g, s, accounts', recorded', lost')
        BY <1>4, <2>1, <2>2, <2>4, <2>5 DEF Running, Suspense, RecordPC
    <2> QED BY ZenonT(30), <1>5, <2>1, <2>4, <2>6 DEF g
<1>7. CASE SystemAccountMissing(p)
    <2> DEFINE g == OpenAccount(f, f.cmd)
    <2>1. f.pc = "sys_find" /\ h' = [h EXCEPT ![p] = g] /\ f.cmd \in OpenAccountCmd
              /\ f.req \in Served
        BY <1>1, <1>7 DEF SystemAccountMissing, FrameOK
    <2>2. g \in Frame
        BY <1>1, <2>1, OpenAccountFrame
    <2>3. /\ g.req = f.req
          /\ \/ g.pc = "open_save" /\ g.acc.name = f.cmd.name
             \/ g.pc = "opened" /\ g.ret = "err"
        BY <1>1 DEF OpenAccount, NewAccountWithType, Frame
    <2> HIDE DEF g
    <2>4. s # None => Running(g, s, accounts', recorded', lost')
        BY <1>4, <2>1, <2>3 DEF Running, RecordPC
    <2> QED BY ZenonT(60), <1>5, <2>1, <2>2, <2>3, <2>4
<1>8. CASE SaveNewAccount(p)
    <2>1. PICK a \in AccountId :
              /\ InsertAccount(p, a)
              /\ h' = [h EXCEPT ![p] = [f EXCEPT !.pc = "open_append", !.aid = a]]
        BY ZenonT(30), <1>8 DEF SaveNewAccount
    <2> DEFINE g == [f EXCEPT !.pc = "open_append", !.aid = a]
    <2>2. g \in Frame /\ g.pc = "open_append" /\ g.aid = a /\ g.req = f.req
        BY ZenonT(30), <1>1 DEF Frame, PC, OpenPC
    <2>3. f.pc = "open_save" /\ a \in DOMAIN accounts' /\ accounts'[a] = f.acc
        BY <2>1 DEF InsertAccount, Upsert
    <2> HIDE DEF g
    <2>4. s # None => Running(g, s, accounts', recorded', lost')
        BY <1>4, <2>2, <2>3 DEF Running, Suspense, RecordPC
    <2> QED BY ZenonT(30), <1>5, <2>1, <2>2, <2>4 DEF g
<1>9. CASE AppendOpened(p)
    <2> DEFINE g == [f EXCEPT !.pc = "open_project"]
    <2>1. f.pc = "open_append" /\ h' = [h EXCEPT ![p] = g]
        BY <1>9 DEF AppendOpened, InsertOpened
    <2>2. g \in Frame /\ g.pc = "open_project" /\ g.aid = f.aid /\ g.req = f.req
        BY ZenonT(60), <1>1 DEF Frame, PC, OpenPC
    <2> HIDE DEF g
    <2>3. s # None => Running(g, s, accounts', recorded', lost')
        BY <1>4, <2>1, <2>2 DEF Running, RecordPC
    <2> QED BY ZenonT(30), <1>5, <2>1, <2>2, <2>3
<1>10. CASE ProjectAccountOpened(p)
    <2> DEFINE g == Return(f, "ok")
    <2>1. f.pc = "open_project" /\ h' = [h EXCEPT ![p] = g]
        BY <1>10 DEF ProjectAccountOpened
    <2>2. g \in Frame /\ g.pc = "opened" /\ g.aid = f.aid /\ g.req = f.req
        BY <1>1, <2>1, ReturnFrame DEF OpenPC
    <2> HIDE DEF g
    <2>3. s # None => Running(g, s, accounts', recorded', lost')
        BY <1>4, <2>1, <2>2 DEF Running, RecordPC
    <2> QED BY ZenonT(30), <1>5, <2>1, <2>2, <2>3
<1> QED BY <1>6, <1>7, <1>8, <1>9, <1>10

\* A call of a transfer's handler returns, with an error before anything is in
\* the log or without one once its projection is over.
LEMMA ReturnRunning ==
    ASSUME NEW f \in Frame, NEW s, NEW A, NEW R, NEW L, NEW r \in {"ok", "err"},
           f.pc \in IF r = "ok" THEN {"open_project", "project"}
                    ELSE OpenPC \cup {"find", "save", "append"}
    PROVE  /\ Return(f, r) \in Frame
           /\ Return(f, r).pc \in {"opened", "recorded"}
           /\ Running(f, s, A, R, L) => Running(Return(f, r), s, A, R, L)
<1> DEFINE g == Return(f, r)
<1>1. g \in Frame
    BY ReturnFrame
<1>2. /\ g.pc = (IF f.pc \in OpenPC THEN "opened" ELSE "recorded")
      /\ g.req = f.req /\ g.aid = f.aid /\ g.entries = f.entries /\ g.tx = f.tx /\ g.ret = r
    BY ReturnFrame
<1> HIDE DEF g
<1>3. CASE r = "ok" /\ f.pc = "open_project"
    BY <1>1, <1>2, <1>3 DEF Running, OpenPC, RecordPC, g
<1>4. CASE r = "ok" /\ f.pc = "project"
    BY <1>1, <1>2, <1>4 DEF Running, OpenPC, RecordPC, g
<1>5. CASE r = "err" /\ f.pc \in OpenPC
    BY <1>1, <1>2, <1>5 DEF Running, RecordPC, g
<1>6. CASE r = "err" /\ f.pc \in {"find", "save", "append"}
    BY <1>1, <1>2, <1>6 DEF Running, OpenPC, RecordPC, g
<1> QED BY <1>3, <1>4, <1>5, <1>6

\* RecordTransaction.
LEMMA RecordLegStep ==
    ASSUME TInv, NEW p \in Proc, UNCHANGED <<saga, past, lost>>,
           \/ FindByID(p) \/ FindRejected(p) \/ SaveAccount(p)
           \/ AppendRecorded(p) \/ ProjectTransactionRecorded(p) \/ ProjectionSkipped(p)
    PROVE  TInv'
<1> DEFINE f == h[p]
           s == saga[p]
<1>1. f \in Frame /\ FrameOK(f, DOMAIN accounts, opened, recorded)
          /\ h \in [Proc -> Frame] /\ \A a \in DOMAIN accounts : accounts[a] \in AccountRow
    BY DEF TInv, IInv, TypeOK, HandlersGrounded
<1>2. IInv' /\ lost' \subseteq TxId
    BY SaveStep, RecordStep DEF TInv, SagaType
<1>3. Keeps
    <2>1. lost \subseteq lost'
        OBVIOUS
    <2>2. UNCHANGED <<accounts, recorded>> \/ UpdateAccount(p)
              \/ \E t \in TxId : InsertRecorded(p, t)
        BY ZenonT(30) DEF FindByID, FindRejected, SaveAccount, AppendRecorded,
               ProjectTransactionRecorded, ProjectionSkipped, tables
    <2> QED BY <2>1, <2>2, WriteKeeps
<1>4. s # None => Running(f, s, accounts', recorded', lost')
    <2>1. s # None => Running(f, s, accounts, recorded, lost)
        BY DEF TInv
    <2> QED BY <1>3, <2>1, RunningMonotone DEF Keeps
<1>5. ASSUME NEW g \in Frame, h' = [h EXCEPT ![p] = g], NameHeld(g, accounts'),
             s # None => Running(g, s, accounts', recorded', lost')
      PROVE  TInv'
    BY ZenonT(30), <1>2, <1>3, <1>5, SameLeg
<1>6. CASE FindByID(p)
    <2> DEFINE e == At(f)
               row == Apply(accounts[e.account], e)
               g == [f EXCEPT !.pc = "save", !.acc = row]
    <2>1. f.pc = "find" /\ e.account \in DOMAIN accounts /\ h' = [h EXCEPT ![p] = g]
              /\ accounts' = accounts
        BY <1>6 DEF FindByID, tables
    <2>2. f.entries \in Seq(Entry) /\ f.k \in DOMAIN f.entries
        BY <1>1, <2>1 DEF Frame, FrameOK
    <2>3. e \in Entry /\ accounts[e.account] \in AccountRow
        BY <1>1, <2>1, <2>2 DEF At
    <2>4. row \in AccountRow
        BY <2>3, ApplyType
    <2>5. row.name = accounts[e.account].name
        BY <2>3 DEF Apply, Debit, Credit, AccountRow
    <2> HIDE DEF row
    <2>6. g \in Frame /\ g.pc = "save" /\ g.acc = row /\ g.req = f.req /\ g.tx = f.tx
              /\ g.entries = f.entries /\ g.k = f.k
        BY ZenonT(30), <1>1, <2>4 DEF Frame, PC, RecordPC
    <2> HIDE DEF g
    <2>7. NameHeld(g, accounts')
        BY <2>1, <2>5, <2>6 DEF NameHeld, At
    <2>8. s # None => Running(g, s, accounts', recorded', lost')
        BY <1>4, <2>1, <2>6 DEF Running, RecordPC
    <2> QED BY ZenonT(60), <1>5, <2>1, <2>6, <2>7, <2>8
<1>7. CASE FindRejected(p)
    <2> DEFINE g == Return(f, "err")
    <2>1. f.pc = "find" /\ h' = [h EXCEPT ![p] = g]
        BY <1>7 DEF FindRejected
    <2>2. g \in Frame /\ g.pc # "save" /\ (s # None => Running(g, s, accounts', recorded', lost'))
        BY <1>1, <1>4, <2>1, ReturnRunning
    <2> HIDE DEF g
    <2> QED BY ZenonT(30), <1>5, <2>1, <2>2 DEF NameHeld
<1>8. CASE SaveAccount(p)
    <2> DEFINE next == IF f.k = Len(f.entries) THEN "append" ELSE "find"
               g == [f EXCEPT !.pc = next, !.k = f.k + 1, !.acc = None]
    <2>1. f.pc = "save" /\ h' = [h EXCEPT ![p] = g]
        BY <1>8 DEF SaveAccount, UpdateAccount
    <2>2. next \in {"append", "find"}
        OBVIOUS
    <2> HIDE DEF next
    <2>3. f.k + 1 \in Nat /\ next \in PC
        BY <1>1, <2>2 DEF Frame, PC, RecordPC
    <2>4. g \in Frame
        BY ZenonT(30), <1>1, <2>3 DEF Frame
    <2>5. g.pc = next /\ g.req = f.req /\ g.tx = f.tx /\ g.entries = f.entries
        BY SMTT(30), <1>1, <2>4 DEF Frame
    <2> HIDE DEF g
    <2>6. s # None => Running(g, s, accounts', recorded', lost')
        BY <1>4, <2>1, <2>2, <2>5 DEF Running, RecordPC
    <2> QED BY ZenonT(30), <1>5, <2>1, <2>2, <2>4, <2>5, <2>6 DEF NameHeld
<1>9. CASE AppendRecorded(p)
    <2> DEFINE A == {f.entries[k].account : k \in DOMAIN f.entries} \ DOMAIN balances
    <2>1. PICK t \in TxId :
              /\ InsertRecorded(p, t)
              /\ h' = [h EXCEPT ![p] = [f EXCEPT !.pc = "project", !.tx = t, !.absent = A]]
        BY ZenonT(30), <1>9 DEF AppendRecorded
    <2> HIDE DEF A
    <2> DEFINE g == [f EXCEPT !.pc = "project", !.tx = t, !.absent = A]
    <2>2. g \in Frame
        <3>1. h' \in [Proc -> Frame]
            BY <1>2 DEF IInv, TypeOK
        <3>2. h'[p] = g
            BY <1>1, <2>1
        <3> QED BY <3>1, <3>2
    <2>3. f.pc = "append"
        BY <2>1 DEF InsertRecorded
    <2>4. g.pc = "project" /\ g.req = f.req /\ g.entries = f.entries
        BY <1>1 DEF Frame
    <2> HIDE DEF g
    <2>5. s # None => Running(g, s, accounts', recorded', lost')
        BY <1>4, <2>3, <2>4 DEF Running, RecordPC
    <2> QED BY ZenonT(30), <1>5, <2>1, <2>2, <2>4, <2>5 DEF NameHeld, g
<1>10. CASE ProjectTransactionRecorded(p) \/ ProjectionSkipped(p)
    <2> DEFINE g == Return(f, "ok")
    <2>1. f.pc = "project" /\ h' = [h EXCEPT ![p] = g]
        BY <1>10 DEF ProjectTransactionRecorded, ProjectionSkipped
    <2>2. g \in Frame /\ g.pc # "save" /\ (s # None => Running(g, s, accounts', recorded', lost'))
        BY <1>1, <1>4, <2>1, ReturnRunning
    <2> HIDE DEF g
    <2> QED BY ZenonT(30), <1>5, <2>1, <2>2 DEF NameHeld
<1> QED BY <1>6, <1>7, <1>8, <1>9, <1>10

\* A storage call without effect.
LEMMA DbErrorLeg ==
    ASSUME TInv, NEW p \in Proc, UNCHANGED <<saga, past, lost>>, DbError(p)
    PROVE  TInv'
<1> DEFINE f == h[p]
           s == saga[p]
           r == IF f.pc \in {"open_project", "project"} THEN "ok" ELSE "err"
           g == Return(f, r)
<1>1. f \in Frame
    BY DEF TInv, IInv, TypeOK
<1>2. IInv' /\ lost' \subseteq TxId
    BY DbErrorStep DEF TInv, SagaType
<1>3. accounts' = accounts /\ recorded' = recorded /\ h' = [h EXCEPT ![p] = g]
          /\ f.pc \in OpenPC \cup RecordPC
    BY DEF DbError, tables
<1>4. Keeps
    BY <1>3 DEF Keeps
<1>5. s # None => Running(f, s, accounts', recorded', lost')
    BY <1>3 DEF TInv
<1>6. r \in {"ok", "err"} /\ f.pc \in IF r = "ok" THEN {"open_project", "project"}
                                      ELSE OpenPC \cup {"find", "save", "append"}
    BY <1>3 DEF OpenPC, RecordPC
<1>7. g \in Frame /\ g.pc # "save" /\ (s # None => Running(g, s, accounts', recorded', lost'))
    <2> HIDE DEF r
    <2> QED BY <1>1, <1>5, <1>6, ReturnRunning
<1> HIDE DEF g
<1> QED BY ZenonT(30), <1>2, <1>3, <1>4, <1>7, SameLeg DEF NameHeld

\* A write whose answer is lost.  Only the append of a transaction's event
\* leaves something in the log that its caller takes for a failure.
LEMMA LostAckLegStep ==
    ASSUME TInv, NEW p \in Proc, LostAckLeg(p)
    PROVE  TInv'
<1> DEFINE f == h[p]
           s == saga[p]
<1>1. f \in Frame /\ h \in [Proc -> Frame] /\ lost \subseteq TxId
    BY DEF TInv, IInv, TypeOK, SagaType
<1>2. IInv' /\ lost' \subseteq TxId
    <2>1. IInv'
        BY LostAckStep DEF LostAckLeg, TInv
    <2>2. DOMAIN recorded' \subseteq TxId
        BY <2>1 DEF IInv, TypeOK
    <2> QED BY <1>1, <2>1, <2>2 DEF LostAckLeg
<1>3. Keeps
    <2>1. lost \subseteq lost'
        BY DEF LostAckLeg
    <2>2. \/ UNCHANGED <<accounts, recorded>> \/ UpdateAccount(p)
          \/ (\E a \in AccountId : InsertAccount(p, a))
          \/ (\E t \in TxId : InsertRecorded(p, t))
        BY ZenonT(30) DEF LostAckLeg, LostAck, InsertOpened
    <2> QED BY <2>1, <2>2, WriteKeeps
<1>4. s # None => Running(f, s, accounts', recorded', lost')
    <2>1. s # None => Running(f, s, accounts, recorded, lost)
        BY DEF TInv
    <2> QED BY <1>3, <2>1, RunningMonotone DEF Keeps
<1>5. ASSUME NEW g \in Frame, h' = [h EXCEPT ![p] = g], g.pc # "save",
             s # None => Running(g, s, accounts', recorded', lost')
      PROVE  TInv'
    <2>1. UNCHANGED <<saga, past>>
        BY DEF LostAckLeg
    <2> QED BY ZenonT(30), <1>2, <1>3, <1>5, <2>1, SameLeg DEF NameHeld
<1>6. CASE /\ f.pc \in {"open_save", "open_append", "save"}
           /\ h' = [h EXCEPT ![p] = Return(f, "err")]
    <2>1. f.pc \in OpenPC \cup {"find", "save", "append"}
        BY <1>6 DEF OpenPC
    <2> QED BY ZenonT(30), <1>1, <1>4, <1>5, <1>6, <2>1, ReturnRunning
<1>7. ASSUME NEW t \in TxId, InsertRecorded(p, t),
             h' = [h EXCEPT ![p] = Return([f EXCEPT !.tx = t], "err")]
      PROVE  TInv'
    <2> DEFINE g == Return([f EXCEPT !.tx = t], "err")
    <2>1. f.pc = "append" /\ t \notin DOMAIN recorded
              /\ t \in DOMAIN recorded' /\ recorded'[t] = f.entries
        BY <1>7 DEF InsertRecorded, Upsert
    <2>2. t \in lost'
        BY <2>1 DEF LostAckLeg
    <2> DEFINE f2 == [f EXCEPT !.tx = t]
    <2>3. f2 \in Frame /\ f2.pc = "append" /\ f2.req = f.req /\ f2.entries = f.entries
              /\ f2.tx = t
        BY ZenonT(60), <1>1, <2>1 DEF Frame
    <2> HIDE DEF f2
    <2>4. g \in Frame /\ g.pc = "recorded" /\ g.req = f.req /\ g.entries = f.entries
              /\ g.tx = t /\ g.ret = "err"
        <3>1. /\ Return(f2, "err") \in Frame /\ Return(f2, "err").pc = "recorded"
              /\ Return(f2, "err").req = f.req /\ Return(f2, "err").entries = f.entries
              /\ Return(f2, "err").tx = t /\ Return(f2, "err").ret = "err"
            BY <2>3, ReturnFrame DEF OpenPC
        <3> QED BY <3>1 DEF f2
    <2> HIDE DEF g
    <2>5. s # None => Running(g, s, accounts', recorded', lost')
        BY <1>4, <2>1, <2>2, <2>4 DEF Running, RecordPC
    <2> QED BY ZenonT(30), <1>5, <1>7, <2>4, <2>5 DEF g
<1> QED BY ZenonT(60), <1>6, <1>7 DEF LostAckLeg, LostAck, InsertAccount, InsertOpened, UpdateAccount

\* A request of another kind arrives, or a handler of one goes on: a handler
\* that executes a transfer does neither.
LEMMA OtherRequest ==
    ASSUME TInv, NEW p \in Proc, UNCHANGED <<saga, past, lost>>, Handle(p) \/ Continue(p)
    PROVE  TInv'
<1>1. h \in [Proc -> Frame] /\ lost' \subseteq TxId
    BY DEF TInv, IInv, TypeOK, SagaType
<1>2. IInv'
    BY HandleStep, ContinueStep DEF TInv
<1>3. Keeps
    BY ZenonT(30) DEF Keeps, Handle, HandleOpenAccount, HandleRecordTransaction, HandleDeposit,
           RejectDeposit, Accept, Continue, DepositRecord, RespondOpened, RespondRecorded,
           tables
<1>4. saga[p] = None
    <2>1. h[p].pc = "idle" \/ h[p].req.kind \in {"open", "record", "deposit"}
        BY ZenonT(30) DEF Handle, HandleOpenAccount, HandleRecordTransaction, HandleDeposit,
               RejectDeposit, Accept, Continue, DepositRecord, RespondOpened, RespondRecorded
    <2> QED BY <2>1 DEF TInv, Running
<1>5. PICK g : h' = [h EXCEPT ![p] = g]
    BY ZenonT(60) DEF Handle, HandleOpenAccount, HandleRecordTransaction, HandleDeposit,
           RejectDeposit, Accept, Continue, DepositRecord, RespondOpened, RespondRecorded
<1>6. g \in Frame /\ h'[p] = g
    BY <1>1, <1>2, <1>5 DEF IInv, TypeOK
<1>7. g.pc # "save"
    <2>1. \A x, y : OpenAccount([Idle EXCEPT !.req = x], y).pc # "save"
        BY DEF OpenAccount, Idle
    <2>2. \A x, y : RecordTransaction([Idle EXCEPT !.req = x], y).pc # "save"
        BY DEF RecordTransaction, Idle
    <2>3. \A x, y, z, u : getOrCreateSystemAccount([Idle EXCEPT !.req = x], y, z, u).pc # "save"
        BY DEF getOrCreateSystemAccount, Idle
    <2>4. \A y : RecordTransaction(h[p], y).pc # "save"
        BY <1>1 DEF RecordTransaction, Frame
    <2>5. Idle.pc # "save"
        BY DEF Idle
    <2>6. CASE Handle(p)
        <3>1. \A y : Accept(p, y) => g = y
            BY <1>1, <1>6 DEF Accept
        <3>2. CASE HandleOpenAccount(p)
            BY <2>1, <3>1, <3>2 DEF HandleOpenAccount
        <3>3. CASE HandleRecordTransaction(p)
            BY <2>2, <3>1, <3>3 DEF HandleRecordTransaction
        <3>4. CASE HandleDeposit(p)
            BY <2>3, <3>1, <3>4 DEF HandleDeposit
        <3>5. CASE RejectDeposit(p)
            BY <2>5, <3>1, <3>5 DEF RejectDeposit
        <3> QED BY <2>6, <3>2, <3>3, <3>4, <3>5 DEF Handle
    <2>7. CASE Continue(p)
        BY <1>1, <1>6, <2>4, <2>5, <2>7
           DEF Continue, DepositRecord, RespondOpened, RespondRecorded
    <2> QED BY <2>6, <2>7
<1> QED BY ZenonT(30), <1>1, <1>2, <1>3, <1>4, <1>5, <1>6, <1>7, SameLeg DEF NameHeld

-----------------------------------------------------------------------------
(* The saga.                                                               *)

\* A transfer arrives, or is refused.
LEMMA HandleTransferStep ==
    ASSUME TInv, NEW p \in Proc, HandleTransfer(p) \/ RejectTransfer(p)
    PROVE  TInv'
<1>1. IInv /\ h \in [Proc -> Frame] /\ lost' \subseteq TxId
    BY ZenonT(30) DEF TInv, IInv, TypeOK, SagaType, HandleTransfer, RejectTransfer
<1>2. Keeps
    BY ZenonT(60) DEF Keeps, HandleTransfer, RejectTransfer, Accept, tables
<1>3. CASE HandleTransfer(p)
    <2>1. PICK r \in Requests :
              /\ r.kind = "transfer"
              /\ Accept(p, suspenseAccountID([Idle EXCEPT !.req = r], r))
              /\ saga' = [saga EXCEPT ![p] = NewTransfer(r)]
              /\ UNCHANGED <<past, lost>>
        BY ZenonT(30), <1>3 DEF HandleTransfer
    <2> DEFINE f == [Idle EXCEPT !.req = r]
               g == suspenseAccountID(f, r)
               s == NewTransfer(r)
    <2>2. r \in TransferCmd
        BY <2>1, LedgerAssumption DEF Command, OpenAccountCmd, RecordTransactionCmd,
                                      DepositCmd
    <2>3. f \in Frame /\ f.req = r /\ r \in Served
        BY <2>1, IdleFrame DEF Frame, Served
    <2> HIDE DEF f
    <2>4. r.currency \in CurrencyCode /\ SuspenseName[r.currency] \in Name
              /\ "LIABILITY" \in TypeCode
        BY <2>2, LedgerAssumption DEF TransferCmd, AccountType
    <2>5. g \in Frame /\ FrameOK(g, DOMAIN accounts, opened, recorded)
        BY <2>1, <2>3, <2>4, SystemAccountFrame DEF suspenseAccountID
    <2>6. g.pc = "sys_find" /\ g.req = r /\ g.cmd.name = SuspenseName[r.currency]
        BY <2>3 DEF suspenseAccountID, getOrCreateSystemAccount, Frame
    <2>7. IInv' /\ h' = [h EXCEPT ![p] = g]
        BY ZenonT(30), <1>1, <2>1, <2>5, AcceptStep DEF Accept, f
    <2>8. s \in Transfer
        BY <2>2 DEF NewTransfer, Transfer, SagaState
    <2>9. s.cmd = r /\ s.state = "INITIATED" /\ s.leg = 1 /\ \A l \in 1..3 : ~Leg(s, l)
        BY DEF NewTransfer, Leg
    <2>10. saga' = [saga EXCEPT ![p] = s]
        BY <2>1
    <2> HIDE DEF g, s
    <2>11. Running(g, s, accounts', recorded', lost')
        BY <2>1, <2>6, <2>9 DEF Running, Stage, InLog, RecordPC
    <2>12. NameHeld(g, accounts')
        BY <2>6 DEF NameHeld
    <2>13. {} \in SUBSET Transfer /\ past' = past \cup {}
        BY <2>1
    <2> QED BY ZenonT(30), <1>1, <1>2, <2>5, <2>7, <2>8, <2>10, <2>11, <2>12, <2>13, OwnStep
<1>4. CASE RejectTransfer(p)
    <2>1. Accept(p, Idle) /\ UNCHANGED <<saga, past>>
        BY <1>4 DEF RejectTransfer
    <2>2. IInv' /\ h' = [h EXCEPT ![p] = Idle]
        BY ZenonT(30), <1>1, <2>1, IdleFrame, AcceptStep DEF Accept
    <2>3. saga[p] = None
        BY <2>1 DEF Accept, TInv, Running
    <2>4. NameHeld(Idle, accounts')
        BY DEF NameHeld, Idle
    <2> QED BY ZenonT(30), <1>1, <1>2, <2>1, <2>2, <2>3, <2>4, IdleFrame, SameLeg
<1> QED BY <1>3, <1>4

\* The current leg goes to RecordTransaction.
LEMMA RecordLegCall ==
    ASSUME TInv, NEW p \in Proc, RecordLeg(p)
    PROVE  TInv'
<1> DEFINE f == h[p]
           s == saga[p]
           a == IF f.ret = "ok" THEN f.aid ELSE NoAccount
           es == LegEntries(s.cmd, s.leg, a)
           g == RecordTransaction(f, es)
<1>1. IInv /\ f \in Frame /\ FrameOK(f, DOMAIN accounts, opened, recorded)
          /\ lost' \subseteq TxId
    BY DEF TInv, IInv, TypeOK, HandlersGrounded, SagaType, RecordLeg
<1>2. /\ f.pc = "opened" /\ s # None /\ h' = [h EXCEPT ![p] = g]
      /\ accounts' = accounts /\ recorded' = recorded /\ lost' = lost
      /\ UNCHANGED <<tables, sent, failed, acked, saga, past>>
    BY DEF RecordLeg, tables
<1>3. s \in Transfer /\ Running(f, s, accounts, recorded, lost)
    BY <1>2 DEF TInv, SagaType
<1>4. a \in AccountId \cup {NoAccount} /\ (a = NoAccount \/ Suspense(a, s, accounts))
    BY <1>1, <1>2, <1>3 DEF Frame, Running
<1>5. s.cmd \in TransferCmd /\ s.leg \in 1..3
    BY <1>3 DEF Transfer
<1> HIDE DEF a
<1>6. es \in Seq(Entry)
    BY <1>4, <1>5, LegEntriesType
<1>7. g \in Frame /\ FrameOK(g, DOMAIN accounts, opened, recorded)
    <2>1. f.req \in Served
        BY <1>1, <1>2 DEF FrameOK
    <2> HIDE DEF es
    <2> QED BY <1>1, <1>6, <2>1, RecordTransactionFrame
<1>8. g.pc \in {"find", "recorded"} /\ (g.pc = "recorded" => g.ret = "err")
          /\ g.req = f.req /\ g.entries = es /\ g.tx = None
    <2> HIDE DEF es
    <2> QED BY <1>1 DEF RecordTransaction, Frame
<1> HIDE DEF g
<1>9. IInv'
    BY ZenonT(30), <1>1, <1>2, <1>7, LocalStep DEF IInv, TypeOK, CountersType
<1>10. Running(g, s, accounts', recorded', lost')
    BY <1>2, <1>3, <1>4, <1>8 DEF Running
<1>11. Keeps /\ NameHeld(g, accounts')
    BY <1>2, <1>8 DEF Keeps, NameHeld
<1> QED BY ZenonT(30), <1>1, <1>2, <1>7, <1>9, <1>10, <1>11, SameLeg

\* A transfer with the event of the leg that is being recorded, if it has one,
\* is as claimed.
LEMMA ReturnedGood ==
    ASSUME NEW s \in Transfer, NEW A, NEW R, NEW L, NEW t \in TxId \cup {None},
           Stage(s, L), InLog(s, A, R),
           t # None => /\ t \in DOMAIN R
                       /\ \E a : Suspense(a, s, A) /\ R[t] = LegEntries(s.cmd, s.leg, a)
    PROVE  /\ [s EXCEPT !.tx[s.leg] = t] \in Transfer
           /\ Good([s EXCEPT !.tx[s.leg] = t], A, R, L)
<1> DEFINE u == [s EXCEPT !.tx[s.leg] = t]
<1>1. s.leg \in 1..3 /\ s.tx \in [1..3 -> TxId \cup {None}] /\ s.state \in SagaState
    BY DEF Transfer
<1>2. u \in Transfer
    BY DEF Transfer
<1>3. u.cmd = s.cmd /\ u.state = s.state /\ u.tx = [s.tx EXCEPT ![s.leg] = t]
    BY DEF Transfer
<1> HIDE DEF u
<1>4. \A l \in 1..3 : u.tx[l] = IF l = s.leg THEN t ELSE s.tx[l]
    BY <1>1, <1>3
<1>5. InLog(u, A, R)
    <2> SUFFICES ASSUME NEW l \in 1..3, Leg(u, l)
                 PROVE  /\ u.tx[l] \in DOMAIN R
                        /\ \E a : Suspense(a, u, A) /\ R[u.tx[l]] = LegEntries(u.cmd, l, a)
        BY DEF InLog
    <2>1. \A a : Suspense(a, u, A) <=> Suspense(a, s, A)
        BY <1>3 DEF Suspense
    <2>2. CASE l = s.leg
        BY <1>3, <1>4, <2>1, <2>2 DEF Leg
    <2>3. CASE l # s.leg
        BY <1>3, <1>4, <2>1, <2>3 DEF Leg, InLog
    <2> QED BY <2>2, <2>3
<1>6. CASE s.leg = 1
    BY <1>1, <1>2, <1>3, <1>4, <1>5, <1>6 DEF Good, Stated, Stage, Leg, u
<1>7. CASE s.leg = 2
    BY <1>1, <1>2, <1>3, <1>4, <1>5, <1>7 DEF Good, Stated, Stage, Leg, u
<1>8. CASE s.leg = 3
    BY <1>1, <1>2, <1>3, <1>4, <1>5, <1>8 DEF Good, Stated, Stage, Leg, u
<1> QED BY <1>1, <1>6, <1>7, <1>8

\* The event a handler has for its current leg holds that leg.  The zero
\* AccountID cannot be in it: the accounts of all events exist.
LEMMA LegRecorded ==
    ASSUME IInv, NEW p \in Proc, saga[p] \in Transfer,
           Running(h[p], saga[p], accounts, recorded, lost),
           h[p].pc \in RecordPC \cup {"recorded"}, h[p].tx # None
    PROVE  /\ h[p].tx \in DOMAIN recorded
           /\ \E a : /\ Suspense(a, saga[p], accounts)
                     /\ recorded[h[p].tx] = LegEntries(saga[p].cmd, saga[p].leg, a)
<1> DEFINE f == h[p]
           s == saga[p]
<1>1. f \in Frame /\ FrameOK(f, DOMAIN accounts, opened, recorded) /\ ReadModelGrounded
          /\ DOMAIN accounts \subseteq AccountId
    BY DEF IInv, TypeOK, HandlersGrounded
<1>2. f.tx \in DOMAIN recorded /\ recorded[f.tx] = f.entries
    <2>1. f.ret \in {"ok", "err"}
        BY <1>1 DEF Frame
    <2>2. f.pc = "project" \/ f.pc = "recorded"
        BY DEF Running, RecordPC
    <2> QED BY <1>1, <2>1, <2>2 DEF FrameOK, Running
<1>3. PICK a : /\ a = NoAccount \/ Suspense(a, s, accounts)
               /\ f.entries = LegEntries(s.cmd, s.leg, a)
    BY DEF Running
<1>4. a # NoAccount
    <2> SUFFICES ASSUME a = NoAccount PROVE FALSE
        OBVIOUS
    <2>1. s.cmd \in TransferCmd /\ s.leg \in 1..3
        BY DEF Transfer
    <2>5. f.entries = LegEntries(s.cmd, s.leg, NoAccount)
        BY Zenon, <1>3
    <2>6. \E k \in DOMAIN LegEntries(s.cmd, s.leg, NoAccount) :
              LegEntries(s.cmd, s.leg, NoAccount)[k].account = NoAccount
        BY ZenonT(60), <2>1, LegEntriesType
    <2>2. PICK k \in DOMAIN f.entries : f.entries[k].account = NoAccount
        BY Zenon, <2>5, <2>6
    <2>3. NoAccount \in AccountId
        BY <1>1, <1>2, <2>2 DEF ReadModelGrounded
    <2> QED BY <2>3, EntryAssumption
<1> QED BY <1>2, <1>3, <1>4

\* A transfer in flight is as claimed, also if its handler dies here.
LEMMA CurrentGood ==
    ASSUME IInv, NEW p \in Proc, saga[p] \in Transfer,
           Running(h[p], saga[p], accounts, recorded, lost)
    PROVE  Current(p) \in Transfer /\ Good(Current(p), accounts, recorded, lost)
<1> DEFINE s == saga[p]
<1>1. h[p].tx \in TxId \cup {None} /\ Stage(s, lost) /\ InLog(s, accounts, recorded)
    BY FrameFields DEF IInv, TypeOK, Running
<1>2. CASE h[p].pc \in RecordPC \cup {"recorded"}
    BY ZenonT(60), <1>1, <1>2, LegRecorded, ReturnedGood DEF Current, Returned
<1>3. CASE h[p].pc \notin RecordPC \cup {"recorded"}
    <2>0. s.leg \in 1..3
        BY ZenonT(30) DEF Transfer
    <2> HIDE DEF s
    <2>1. s.leg = 1 \/ s.leg = 2 \/ s.leg = 3
        BY Zenon, <2>0, LegNumbers
    <2>2. CASE s.leg = 1
        <3>1. s.state = "INITIATED" /\ ~Leg(s, 2) /\ ~Leg(s, 3)
            BY <1>1, <2>2 DEF Stage
        <3> QED BY <1>1, <1>3, <3>1 DEF Good, Stated, Current, s
    <2>3. CASE s.leg = 2
        <3>1. s.state = "DEBITED" /\ Leg(s, 1) /\ ~Leg(s, 2) /\ ~Leg(s, 3)
            BY <1>1, <2>3 DEF Stage
        <3> QED BY <1>1, <1>3, <3>1 DEF Good, Stated, Current, s
    <2>4. CASE s.leg = 3
        <3>1. s.state = "FAILED" /\ ~Leg(s, 3)
            BY <1>1, <2>4 DEF Stage
        <3> QED BY <1>1, <1>3, <3>1 DEF Good, Stated, Current, s
    <2> QED BY ZenonT(60), <2>1, <2>2, <2>3, <2>4
<1> QED BY <1>2, <1>3

\* Execute returns.
LEMMA EndStep ==
    ASSUME TInv, NEW p \in Proc, UNCHANGED <<tables, sent, failed, acked, lost>>,
           NEW s \in Transfer, Good(s, accounts, recorded, lost), EndTransfer(p, s)
    PROVE  TInv'
<1>1. accounts' = accounts /\ recorded' = recorded /\ lost' = lost
    BY DEF tables
<1>2. IInv /\ CountersType' /\ lost' \subseteq TxId
    BY DEF TInv, IInv, TypeOK, CountersType, SagaType
<1>3. IInv'
    BY ZenonT(30), <1>2, IdleFrame, LocalStep DEF EndTransfer
<1>4. Keeps /\ NameHeld(Idle, accounts')
    BY <1>1 DEF Keeps, NameHeld, Idle
<1>5. \A x \in {s} : Good(x, accounts', recorded', lost')
    BY <1>1
<1>6. /\ h' = [h EXCEPT ![p] = Idle] /\ saga' = [saga EXCEPT ![p] = None]
      /\ {s} \in SUBSET Transfer /\ past' = past \cup {s}
    BY DEF EndTransfer
<1>7. None \in Transfer \cup {None}
      /\ (None # None => Running(Idle, None, accounts', recorded', lost'))
    OBVIOUS
<1>8. Idle \in Frame
    BY IdleFrame
<1> QED BY ZenonT(30), <1>2, <1>3, <1>4, <1>5, <1>6, <1>7, <1>8, OwnStep

\* Execute goes on to another leg.
LEMMA NextLegStep ==
    ASSUME TInv, NEW p \in Proc, UNCHANGED <<tables, sent, failed, acked, lost>>,
           saga[p] # None, NEW s \in Transfer, NEW leg \in 1..3,
           s.state = (IF leg = 2 THEN "DEBITED" ELSE "FAILED"), leg # 1,
           InLog(s, accounts, recorded), Leg(s, 1), ~Leg(s, 3),
           Leg(s, 2) => leg = 3 /\ s.tx[2] \in lost, NextLeg(p, s, leg)
    PROVE  TInv'
<1> DEFINE f == h[p]
           g == suspenseAccountID(f, s.cmd)
           u == [s EXCEPT !.leg = leg]
<1>1. accounts' = accounts /\ recorded' = recorded /\ lost' = lost
    BY DEF tables
<1>2. IInv /\ CountersType' /\ lost' \subseteq TxId /\ f \in Frame
          /\ FrameOK(f, DOMAIN accounts, opened, recorded)
    BY DEF TInv, IInv, TypeOK, CountersType, SagaType, HandlersGrounded
<1>3. f.pc # "idle" /\ f.req.kind = "transfer" /\ f.req \in Served
    BY <1>2 DEF TInv, Running, FrameOK
<1>4. u \in Transfer /\ u.cmd = s.cmd /\ u.state = s.state /\ u.tx = s.tx /\ u.leg = leg
    BY DEF Transfer
<1>5. s.cmd.currency \in CurrencyCode /\ SuspenseName[s.cmd.currency] \in Name
          /\ "LIABILITY" \in TypeCode
    BY LedgerAssumption DEF Transfer, TransferCmd, AccountType
<1>6. g \in Frame /\ FrameOK(g, DOMAIN accounts, opened, recorded)
    <2> HIDE DEF f
    <2> QED BY <1>2, <1>3, <1>5, SystemAccountFrame DEF suspenseAccountID
<1>7. g.pc = "sys_find" /\ g.req = f.req /\ g.cmd.name = SuspenseName[s.cmd.currency]
    BY <1>2 DEF suspenseAccountID, getOrCreateSystemAccount, Frame
<1>8. h' = [h EXCEPT ![p] = g] /\ saga' = [saga EXCEPT ![p] = u]
          /\ {} \in SUBSET Transfer /\ past' = past \cup {}
    BY DEF NextLeg
<1> HIDE DEF g, u
<1>9. IInv'
    BY ZenonT(60), <1>2, <1>6, <1>8, LocalStep
<1>10. Running(g, u, accounts', recorded', lost')
    <2>l. Leg(u, 1) /\ ~Leg(u, 3) /\ (Leg(u, 2) <=> Leg(s, 2))
        BY <1>4 DEF Leg
    <2>1. Stage(u, lost)
        <3>1. CASE leg = 2
            <4>1. u.leg = 2 /\ u.state = "DEBITED" /\ ~Leg(u, 2)
                BY <1>4, <2>l, <3>1
            <4> QED BY <2>l, <4>1 DEF Stage
        <3>2. CASE leg = 3
            <4>1. u.leg = 3 /\ u.state = "FAILED" /\ (Leg(u, 2) => u.tx[2] \in lost)
                BY <1>4, <2>l, <3>2
            <4> QED BY <2>l, <4>1 DEF Stage
        <3> QED BY <3>1, <3>2
    <2>2. InLog(u, accounts, recorded)
        BY <1>4 DEF InLog, Suspense, Leg
    <2> QED BY <1>1, <1>3, <1>4, <1>7, <2>1, <2>2 DEF Running, RecordPC
<1>11. Keeps /\ NameHeld(g, accounts')
    BY <1>1, <1>7 DEF Keeps, NameHeld
<1> QED BY ZenonT(30), <1>2, <1>4, <1>6, <1>8, <1>9, <1>10, <1>11, OwnStep

\* A leg has returned.
LEMMA LegReturnedStep ==
    ASSUME TInv, NEW p \in Proc,
           \/ DebitFailed(p) \/ DebitDone(p) \/ CreditDone(p) \/ CreditFailed(p)
           \/ CompensationDone(p) \/ CompensationFailed(p)
    PROVE  TInv'
<1> DEFINE f == h[p]
           s == saga[p]
           u == Returned(p)
           Mark(x) == [u EXCEPT !.state = x]
<1>1. f.pc = "recorded" /\ s # None /\ UNCHANGED <<tables, sent, failed, acked, lost>>
    BY DEF DebitFailed, DebitDone, CreditDone, CreditFailed, CompensationDone,
           CompensationFailed, LegReturned
<1>2. s \in Transfer /\ Running(f, s, accounts, recorded, lost)
    BY <1>1 DEF TInv, SagaType
<1>3. IInv /\ f \in Frame /\ FrameOK(f, DOMAIN accounts, opened, recorded)
          /\ DOMAIN recorded \subseteq TxId
    BY DEF TInv, IInv, TypeOK, HandlersGrounded
<1>4. u \in Transfer /\ Good(u, accounts, recorded, lost)
    BY <1>1, <1>2, <1>3, CurrentGood DEF Current
<1>5. s.leg \in 1..3 /\ s.tx \in [1..3 -> TxId \cup {None}]
    BY <1>2 DEF Transfer
<1>6. u.state = s.state /\ u.tx = [s.tx EXCEPT ![s.leg] = f.tx]
    BY <1>2 DEF Returned, Transfer
<1>7. \A l \in 1..3 : u.tx[l] = IF l = s.leg THEN f.tx ELSE s.tx[l]
    BY <1>5, <1>6
<1> HIDE DEF u
<1>8. \A x \in SagaState : /\ Mark(x) \in Transfer /\ Mark(x).state = x
                           /\ Mark(x).cmd = u.cmd /\ Mark(x).tx = u.tx
    BY <1>4 DEF Transfer
<1> HIDE DEF Mark
<1>9. \A x \in SagaState : InLog(Mark(x), accounts, recorded)
    BY <1>4, <1>8 DEF Good, InLog, Suspense, Leg
<1>10. f.ret = "ok" => f.tx # None
    BY <1>1, <1>3, TransferAssumption DEF FrameOK
<1>11. f.ret = "err" => f.tx = None \/ f.tx \in lost
    BY <1>1, <1>2 DEF Running
<1>12. Stage(s, lost)
    BY <1>2 DEF Running
<1>13. {"FAILED", "DEBITED", "COMPLETED", "COMPENSATED"} \subseteq SagaState
    BY DEF SagaState
<1>t. /\ s.leg = 1 => u.tx[1] = f.tx /\ u.tx[2] = s.tx[2] /\ u.tx[3] = s.tx[3]
      /\ s.leg = 2 => u.tx[1] = s.tx[1] /\ u.tx[2] = f.tx /\ u.tx[3] = s.tx[3]
      /\ s.leg = 3 => u.tx[1] = s.tx[1] /\ u.tx[2] = s.tx[2] /\ u.tx[3] = f.tx
    BY <1>7
<1> HIDE DEF s, f
<1>14. CASE DebitFailed(p)
    <2> DEFINE v == Mark("FAILED")
    <2>1. s.leg = 1 /\ EndTransfer(p, v)
        BY <1>14 DEF DebitFailed, LegReturned, MarkFailed, Mark, u, s, f
    <2>2. v \in Transfer /\ v.state = "FAILED" /\ v.tx = u.tx /\ InLog(v, accounts, recorded)
        BY <1>8, <1>9, <1>13
    <2> HIDE DEF v
    <2>3. s.tx[3] = None
        BY <1>12, <2>1 DEF Stage, Leg
    <2>4. ~Leg(v, 3)
        BY <1>t, <2>1, <2>2, <2>3 DEF Leg
    <2>5. Good(v, accounts, recorded, lost)
        BY <2>2, <2>4 DEF Good, Stated
    <2> QED BY <1>1, <2>1, <2>2, <2>5, EndStep
<1>15. CASE DebitDone(p)
    <2> DEFINE v == Mark("DEBITED")
    <2>1. s.leg = 1 /\ f.ret = "ok" /\ NextLeg(p, v, 2)
        BY <1>15 DEF DebitDone, LegReturned, MarkDebited, Mark, u, s, f
    <2>2. v \in Transfer /\ v.state = "DEBITED" /\ v.tx = u.tx /\ InLog(v, accounts, recorded)
        BY <1>8, <1>9, <1>13
    <2> HIDE DEF v
    <2>3. s.tx[2] = None /\ s.tx[3] = None
        BY <1>12, <2>1 DEF Stage, Leg
    <2>4. Leg(v, 1) /\ ~Leg(v, 2) /\ ~Leg(v, 3)
        BY <1>t, <1>10, <2>1, <2>2, <2>3 DEF Leg
    <2>5. saga[p] # None
        BY <1>1 DEF s
    <2>6. 2 \in 1..3 /\ 2 # 1 /\ v.state = (IF 2 = 2 THEN "DEBITED" ELSE "FAILED")
        BY <2>2
    <2> QED BY ZenonT(60), <1>1, <2>1, <2>2, <2>4, <2>5, <2>6, NextLegStep
<1>16. CASE CreditDone(p)
    <2> DEFINE v == Mark("COMPLETED")
    <2>1. s.leg = 2 /\ f.ret = "ok" /\ EndTransfer(p, v)
        BY <1>16 DEF CreditDone, LegReturned, MarkCompleted, Mark, u, s, f
    <2>2. v \in Transfer /\ v.state = "COMPLETED" /\ v.tx = u.tx /\ InLog(v, accounts, recorded)
        BY <1>8, <1>9, <1>13
    <2> HIDE DEF v
    <2>3. s.tx[1] # None /\ s.tx[3] = None
        BY <1>12, <2>1 DEF Stage, Leg
    <2>4. Leg(v, 1) /\ Leg(v, 2) /\ ~Leg(v, 3)
        BY <1>t, <1>10, <2>1, <2>2, <2>3 DEF Leg
    <2>5. Good(v, accounts, recorded, lost)
        BY <2>2, <2>4 DEF Good, Stated
    <2> QED BY <1>1, <2>1, <2>2, <2>5, EndStep
<1>17. CASE CreditFailed(p)
    <2> DEFINE v == Mark("FAILED")
    <2>1. s.leg = 2 /\ f.ret = "err" /\ NextLeg(p, v, 3)
        BY <1>17 DEF CreditFailed, LegReturned, MarkFailed, Mark, u, s, f
    <2>2. v \in Transfer /\ v.state = "FAILED" /\ v.tx = u.tx /\ InLog(v, accounts, recorded)
        BY <1>8, <1>9, <1>13
    <2> HIDE DEF v
    <2>3. s.tx[1] # None /\ s.tx[3] = None
        BY <1>12, <2>1 DEF Stage, Leg
    <2>4. Leg(v, 1) /\ ~Leg(v, 3) /\ (Leg(v, 2) => v.tx[2] \in lost)
        BY <1>t, <1>11, <2>1, <2>2, <2>3 DEF Leg
    <2>5. saga[p] # None
        BY <1>1 DEF s
    <2>6. /\ 3 \in 1..3 /\ 3 # 1 /\ v.state = (IF 3 = 2 THEN "DEBITED" ELSE "FAILED")
          /\ Leg(v, 2) => 3 = 3 /\ v.tx[2] \in lost
        BY <2>2, <2>4
    <2> QED BY ZenonT(60), <1>1, <2>1, <2>2, <2>4, <2>5, <2>6, NextLegStep
<1>18. CASE CompensationDone(p)
    <2> DEFINE v == Mark("COMPENSATED")
    <2>1. s.leg = 3 /\ f.ret = "ok" /\ EndTransfer(p, v)
        BY <1>18 DEF CompensationDone, LegReturned, MarkCompensated, Mark, u, s, f
    <2>2. v \in Transfer /\ v.state = "COMPENSATED" /\ v.tx = u.tx /\ InLog(v, accounts, recorded)
        BY <1>8, <1>9, <1>13
    <2> HIDE DEF v
    <2>3. s.tx[1] # None /\ (s.tx[2] # None => s.tx[2] \in lost)
        BY <1>12, <2>1 DEF Stage, Leg
    <2>4. Leg(v, 1) /\ Leg(v, 3) /\ (Leg(v, 2) => v.tx[2] \in lost)
        BY <1>t, <1>10, <2>1, <2>2, <2>3 DEF Leg
    <2>5. Good(v, accounts, recorded, lost)
        BY <2>2, <2>4 DEF Good, Stated
    <2> QED BY <1>1, <2>1, <2>2, <2>5, EndStep
<1>19. CASE CompensationFailed(p)
    <2>1. EndTransfer(p, u)
        BY <1>19 DEF CompensationFailed, u
    <2> QED BY <1>1, <1>4, <2>1, EndStep
<1> QED BY <1>14, <1>15, <1>16, <1>17, <1>18, <1>19

\* A restart: the transfers in flight join the past as they are.
LEMMA CrashTransfersStep ==
    ASSUME TInv, CrashTransfers
    PROVE  TInv'
<1>1. accounts' = accounts /\ recorded' = recorded /\ lost' = lost
    BY DEF CrashTransfers, Crash, tables
<1>2. IInv'
    BY CrashStep DEF TInv, CrashTransfers
<1>3. ASSUME NEW x \in InFlight PROVE x \in Transfer /\ Good(x, accounts, recorded, lost)
    <2>1. PICK p \in Proc : saga[p] # None /\ x = Current(p)
        BY <1>3 DEF InFlight
    <2> QED BY <2>1, CurrentGood DEF TInv, SagaType
<1>4. SagaType' /\ \A p \in Proc : saga'[p] = None
    BY <1>1, <1>3 DEF TInv, SagaType, CrashTransfers
<1>5. \A p \in Proc : NameHeld(h'[p], accounts')
    BY DEF CrashTransfers, Crash, NameHeld, Idle
<1>6. \A x \in past' : Good(x, accounts', recorded', lost')
    BY <1>1, <1>3 DEF TInv, CrashTransfers
<1> QED BY <1>2, <1>4, <1>5, <1>6 DEF TInv

-----------------------------------------------------------------------------
(* The theorems.                                                           *)

LEMMA InitTInv == TInit => TInv
<1> SUFFICES ASSUME TInit PROVE TInv
    OBVIOUS
<1>1. IInv
    BY InitIInv DEF TInit
<1>2. SagaType
    BY DEF TInit, SagaType
<1>3. \A p \in Proc : NameHeld(h[p], accounts)
    BY DEF TInit, Init, NameHeld, Idle
<1> QED BY <1>1, <1>2, <1>3 DEF TInv, TInit

LEMMA NextTInv == TInv /\ [TNext]_tvars => TInv'
<1> SUFFICES ASSUME TInv, [TNext]_tvars PROVE TInv'
    OBVIOUS
<1>1. ASSUME NEW p \in Proc, Step(p), UNCHANGED <<saga, past, lost>> PROVE TInv'
    BY <1>1, OpenLeg, RecordLegStep DEF Step
<1>2. ASSUME NEW p \in Proc, Handle(p) \/ Continue(p), UNCHANGED <<saga, past, lost>>
      PROVE  TInv'
    BY <1>2, OtherRequest
<1>3. ASSUME NEW p \in Proc, DbError(p), UNCHANGED <<saga, past, lost>> PROVE TInv'
    BY <1>3, DbErrorLeg
<1>4. ASSUME NEW p \in Proc, LostAckLeg(p) PROVE TInv'
    BY <1>4, LostAckLegStep
<1>5. ASSUME NEW p \in Proc, HandleTransfer(p) \/ RejectTransfer(p) PROVE TInv'
    BY <1>5, HandleTransferStep
<1>6. ASSUME NEW p \in Proc, TransferStep(p) PROVE TInv'
    BY <1>6, RecordLegCall, LegReturnedStep DEF TransferStep
<1>7. CASE CrashTransfers
    BY <1>7, CrashTransfersStep
<1>8. CASE UNCHANGED tvars
    <2>1. UNCHANGED vars /\ UNCHANGED <<saga, past, lost>>
        BY <1>8 DEF tvars
    <2>2. IInv'
        BY <2>1, NextIInv DEF TInv
    <2>3. accounts' = accounts /\ recorded' = recorded /\ h' = h
        BY <2>1 DEF vars, tables
    <2> QED BY <2>1, <2>2, <2>3 DEF TInv, SagaType
<1> QED BY <1>1, <1>2, <1>3, <1>4, <1>5, <1>6, <1>7, <1>8 DEF TNext, Finished, tvars

LEMMA TInvariance == TSpec => []TInv
  BY InitTInv, NextTInv, PTL DEF TSpec

\* All transfers, ended, lost and in flight, are as claimed.
LEMMA AllGood ==
    ASSUME TInv, NEW s \in AllTransfers
    PROVE  Good(s, accounts, recorded, lost)
<1>1. CASE s \in past
    BY <1>1 DEF TInv
<1>2. CASE s \in InFlight
    <2>1. PICK p \in Proc : saga[p] # None /\ s = Current(p)
        BY <1>2 DEF InFlight
    <2> QED BY <2>1, CurrentGood DEF TInv, SagaType
<1> QED BY <1>1, <1>2 DEF AllTransfers

\* The tables, the handlers and the transfers are well formed in every state.
THEOREM TransferTypeCorrect == TSpec => []TTypeOK
<1>1. TInv => TTypeOK
    BY DEF TInv, IInv, SagaType, TTypeOK
<1> QED BY <1>1, TInvariance, PTL

\* A transfer's state tells what the event log holds of it, however many
\* transfers, deposits, failed storage calls and restarts interleave.
THEOREM SagaStaysInLog == TSpec => []SagaMatchesLog
<1>1. TInv => SagaMatchesLog
    BY AllGood DEF SagaMatchesLog, Good, Stated, InLog, Suspense
<1> QED BY <1>1, TInvariance, PTL

\* Only a lost answer to the delivery's append can make Execute deliver and
\* compensate one transfer.
THEOREM PaidOnce == TSpec => []NeverPaidTwice
<1>1. TInv => NeverPaidTwice
    BY AllGood DEF NeverPaidTwice, Good
<1> QED BY <1>1, TInvariance, PTL

-----------------------------------------------------------------------------
(* The system accounts, when requests do not overlap.                      *)

\* A name that getOrCreateSystemAccount looks for.
SystemName(n) == \E c \in CurrencyCode : n \in {EquityName[c], SuspenseName[c]}

\* One request at a time, no user's account has such a name, and the accounts
\* at the start have it at most once.
Serial ==
    /\ \A p, q \in Proc : p = q
    /\ \A r \in Requests : r.kind = "open" => ~SystemName(r.name)
    /\ \A a, b \in DOMAIN Seed : Seed[a].name = Seed[b].name /\ SystemName(Seed[a].name) => a = b

\* No row has the system name that frame f is about to give to a new one.
Fresh(f, A) ==
    f.pc = "open_save" /\ SystemName(f.acc.name) =>
        \A a \in DOMAIN A : A[a].name # f.acc.name

\* The inductive invariant.
UInv == SystemAccountUnique /\ \A p \in Proc : Fresh(h[p], accounts)

\* Rows keep their names and no other is inserted.
SameNames ==
    /\ DOMAIN accounts' = DOMAIN accounts
    /\ \A a \in DOMAIN accounts : accounts'[a].name = accounts[a].name

\* A step of the handler that inserts no account.
LEMMA UniqueKept ==
    ASSUME Serial, UInv, SameNames, \A q \in Proc : Fresh(h'[q], accounts)
    PROVE  UInv'
<1>1. SystemAccountUnique'
    BY DEF UInv, SystemAccountUnique, SameNames
<1>2. \A q \in Proc : Fresh(h'[q], accounts')
    BY DEF Fresh, SameNames
<1> QED BY <1>1, <1>2 DEF UInv

\* The handler moves to a frame that is not about to insert an account.
LEMMA NotInserting ==
    ASSUME Serial, TInv, UInv, SameNames, NEW p \in Proc, NEW g, h' = [h EXCEPT ![p] = g],
           g.pc # "open_save"
    PROVE  UInv'
<1>1. \A q \in Proc : h'[q] = g
    BY DEF Serial, TInv, IInv, TypeOK
<1>2. \A q \in Proc : Fresh(h'[q], accounts)
    BY <1>1 DEF Fresh
<1> QED BY <1>2, UniqueKept

\* The insert itself.
LEMMA Inserted ==
    ASSUME Serial, TInv, UInv, NEW p \in Proc, NEW a \in AccountId, InsertAccount(p, a),
           NEW g, h' = [h EXCEPT ![p] = g], g.pc # "open_save"
    PROVE  UInv'
<1>1. \A q \in Proc : h'[q] = g
    BY DEF Serial, TInv, IInv, TypeOK
<1>2. \A q \in Proc : Fresh(h'[q], accounts')
    BY <1>1 DEF Fresh
<1>3. /\ a \notin DOMAIN accounts /\ DOMAIN accounts' = DOMAIN accounts \cup {a}
      /\ accounts'[a] = h[p].acc /\ \A x \in DOMAIN accounts : accounts'[x] = accounts[x]
      /\ h[p].pc = "open_save"
    BY DEF InsertAccount, Upsert
<1>4. SystemName(h[p].acc.name) => \A x \in DOMAIN accounts : accounts[x].name # h[p].acc.name
    BY <1>3 DEF UInv, Fresh
<1>5. ASSUME NEW x \in DOMAIN accounts', NEW y \in DOMAIN accounts',
             accounts'[x].name = accounts'[y].name, SystemName(accounts'[x].name)
      PROVE  x = y
    <2>1. CASE x \in DOMAIN accounts /\ y \in DOMAIN accounts
        BY <1>3, <1>5, <2>1 DEF UInv, SystemAccountUnique, SystemName
    <2>2. CASE x = a \/ y = a
        <3>1. SystemName(h[p].acc.name)
            BY Zenon, <1>3, <1>5, <2>2
        <3> QED BY <1>3, <1>4, <1>5, <2>2, <3>1
    <2> QED BY <1>3, <2>1, <2>2
<1>6. SystemAccountUnique'
    BY <1>5 DEF SystemAccountUnique, SystemName
<1> QED BY <1>2, <1>6 DEF UInv

\* What the steps leave of the names.
LEMMA NamesStay ==
    ASSUME TInv, NEW p \in Proc, accounts' = accounts \/ UpdateAccount(p)
    PROVE  SameNames
<1>1. CASE accounts' = accounts
    BY <1>1 DEF SameNames
<1>2. CASE UpdateAccount(p)
    <2>1. h[p].pc = "save" /\ accounts' = Upsert(accounts, At(h[p]).account, h[p].acc)
        BY <1>2 DEF UpdateAccount
    <2>2. At(h[p]).account \in DOMAIN accounts
        BY <2>1 DEF TInv, IInv, HandlersGrounded, FrameOK, At
    <2>3. h[p].acc.name = accounts[At(h[p]).account].name
        BY <2>1 DEF TInv, NameHeld
    <2> QED BY <2>1, <2>2, <2>3 DEF Upsert, SameNames
<1> QED BY <1>1, <1>2

\* Where the calls leave a frame.
LEMMA NotOpenSave ==
    ASSUME NEW f \in Frame
    PROVE  /\ \A r : Return(f, r).pc # "open_save"
           /\ \A n, t, c : getOrCreateSystemAccount(f, n, t, c).pc # "open_save"
           /\ \A es : RecordTransaction(f, es).pc # "open_save"
  BY DEF Return, getOrCreateSystemAccount, RecordTransaction, Frame

\* OpenAccount gives the new row the name it was called with.
LEMMA OpenName ==
    ASSUME NEW f \in Frame, NEW cmd
    PROVE  OpenAccount(f, cmd).pc = "open_save" => OpenAccount(f, cmd).acc.name = cmd.name
<1> DEFINE type == IF cmd.type \in {"EQUITY", "LIABILITY"} THEN cmd.type ELSE "ASSET"
<1>1. NewAccountWithType(cmd.name, type, cmd.currency).name = cmd.name
    BY DEF NewAccountWithType
<1>2. CASE NewAccountOK(cmd.name, cmd.currency)
    BY <1>1, <1>2 DEF OpenAccount, Frame
<1>3. CASE ~NewAccountOK(cmd.name, cmd.currency)
    BY <1>3 DEF OpenAccount, Frame
<1> QED BY <1>2, <1>3

\* getOrCreateSystemAccount opens an account only if there is none.
LEMMA UniqueOpen ==
    ASSUME Serial, TInv, UInv, NEW p \in Proc,
           \/ SystemAccountFound(p) \/ SystemAccountMissing(p)
           \/ SaveNewAccount(p) \/ AppendOpened(p) \/ ProjectAccountOpened(p)
    PROVE  UInv'
<1>1. PICK f : f = h[p]
    OBVIOUS
<1>2. f \in Frame /\ DOMAIN accounts \subseteq AccountId
    BY <1>1 DEF TInv, IInv, TypeOK
<1>3. CASE SystemAccountFound(p)
    <2>1. PICK a \in DOMAIN accounts : h' = [h EXCEPT ![p] = Return([f EXCEPT !.aid = a], "ok")]
        BY ZenonT(30), <1>1, <1>3 DEF SystemAccountFound
    <2>2. [f EXCEPT !.aid = a] \in Frame
        BY <1>2 DEF Frame
    <2>3. Return([f EXCEPT !.aid = a], "ok").pc # "open_save"
        BY <2>2, NotOpenSave
    <2>4. SameNames
        BY <1>3, NamesStay DEF SystemAccountFound, tables
    <2> QED BY ZenonT(30), <2>1, <2>3, <2>4, NotInserting
<1>4. CASE SystemAccountMissing(p)
    <2>1. PICK g : g = OpenAccount(f, f.cmd)
        OBVIOUS
    <2>2. /\ h' = [h EXCEPT ![p] = g]
          /\ \A a \in DOMAIN accounts : accounts[a].name # f.cmd.name
        BY <1>1, <1>4, <2>1 DEF SystemAccountMissing
    <2>3. g.pc = "open_save" => g.acc.name = f.cmd.name
        BY <1>2, <2>1, OpenName
    <2>4. \A q \in Proc : h'[q] = g
        BY <2>2 DEF Serial, TInv, IInv, TypeOK
    <2>5. \A q \in Proc : Fresh(h'[q], accounts)
        BY <2>2, <2>3, <2>4 DEF Fresh
    <2>6. SameNames
        BY <1>4, NamesStay DEF SystemAccountMissing, tables
    <2> QED BY <2>5, <2>6, UniqueKept
<1>5. CASE SaveNewAccount(p)
    <2>1. PICK a \in AccountId :
              InsertAccount(p, a) /\ h' = [h EXCEPT ![p] = [f EXCEPT !.pc = "open_append", !.aid = a]]
        BY ZenonT(30), <1>1, <1>5 DEF SaveNewAccount
    <2>2. [f EXCEPT !.pc = "open_append", !.aid = a].pc # "open_save"
        BY <1>2 DEF Frame
    <2> QED BY ZenonT(30), <2>1, <2>2, Inserted
<1>6. CASE AppendOpened(p)
    <2>1. h' = [h EXCEPT ![p] = [f EXCEPT !.pc = "open_project"]]
        BY <1>1, <1>6 DEF AppendOpened
    <2>2. [f EXCEPT !.pc = "open_project"].pc # "open_save"
        BY <1>2 DEF Frame
    <2>3. SameNames
        BY <1>6, NamesStay DEF AppendOpened, InsertOpened
    <2> QED BY ZenonT(30), <2>1, <2>2, <2>3, NotInserting
<1>7. CASE ProjectAccountOpened(p)
    <2>1. h' = [h EXCEPT ![p] = Return(f, "ok")]
        BY <1>1, <1>7 DEF ProjectAccountOpened
    <2>2. SameNames
        BY <1>7, NamesStay DEF ProjectAccountOpened
    <2> QED BY ZenonT(30), <1>2, <2>1, <2>2, NotOpenSave, NotInserting
<1> QED BY <1>3, <1>4, <1>5, <1>6, <1>7

\* RecordTransaction opens none.
LEMMA UniqueRecord ==
    ASSUME Serial, TInv, UInv, NEW p \in Proc,
           \/ FindByID(p) \/ FindRejected(p) \/ SaveAccount(p)
           \/ AppendRecorded(p) \/ ProjectTransactionRecorded(p) \/ ProjectionSkipped(p)
    PROVE  UInv'
<1>1. PICK f : f = h[p]
    OBVIOUS
<1>2. f \in Frame
    BY <1>1 DEF TInv, IInv, TypeOK
<1>3. SameNames
    <2>1. accounts' = accounts \/ UpdateAccount(p)
        BY ZenonT(30) DEF FindByID, FindRejected, SaveAccount, AppendRecorded, InsertRecorded,
            ProjectTransactionRecorded, ProjectionSkipped, tables
    <2> QED BY <2>1, NamesStay
<1>4. CASE FindByID(p)
    <2>1. PICK x : h' = [h EXCEPT ![p] = [f EXCEPT !.pc = "save", !.acc = x]]
        BY ZenonT(30), <1>1, <1>4 DEF FindByID
    <2>2. [f EXCEPT !.pc = "save", !.acc = x].pc # "open_save"
        BY <1>2 DEF Frame
    <2> QED BY ZenonT(30), <1>3, <2>1, <2>2, NotInserting
<1>5. CASE SaveAccount(p)
    <2>1. PICK c : c = IF f.k = Len(f.entries) THEN "append" ELSE "find"
        OBVIOUS
    <2>2. h' = [h EXCEPT ![p] = [f EXCEPT !.pc = c, !.k = f.k + 1, !.acc = None]]
        BY Zenon, <1>1, <1>5, <2>1 DEF SaveAccount
    <2>3. [f EXCEPT !.pc = c, !.k = f.k + 1, !.acc = None].pc # "open_save"
        BY <1>2, <2>1 DEF Frame
    <2> QED BY ZenonT(30), <1>3, <2>2, <2>3, NotInserting
<1>6. CASE AppendRecorded(p)
    <2>1. PICK t, x : h' = [h EXCEPT ![p] = [f EXCEPT !.pc = "project", !.tx = t, !.absent = x]]
        BY ZenonT(30), <1>1, <1>6 DEF AppendRecorded
    <2>2. [f EXCEPT !.pc = "project", !.tx = t, !.absent = x].pc # "open_save"
        BY <1>2 DEF Frame
    <2> QED BY ZenonT(30), <1>3, <2>1, <2>2, NotInserting
<1>7. CASE FindRejected(p) \/ ProjectTransactionRecorded(p) \/ ProjectionSkipped(p)
    <2>1. PICK r : h' = [h EXCEPT ![p] = Return(f, r)]
        BY <1>1, <1>7 DEF FindRejected, ProjectTransactionRecorded, ProjectionSkipped
    <2> QED BY ZenonT(30), <1>2, <1>3, <2>1, NotOpenSave, NotInserting
<1> QED BY <1>4, <1>5, <1>6, <1>7

\* A failed call, and one whose answer is lost.
LEMMA UniqueFails ==
    ASSUME Serial, TInv, UInv, NEW p \in Proc, DbError(p) \/ LostAck(p)
    PROVE  UInv'
<1>1. PICK f : f = h[p]
    OBVIOUS
<1>2. f \in Frame
    BY <1>1 DEF TInv, IInv, TypeOK
<1>3. \E t \in TxId \cup {None}, r \in {"ok", "err"} : h' = [h EXCEPT ![p] = Return([f EXCEPT !.tx = t], r)]
    <2>1. f.tx \in TxId \cup {None} /\ [f EXCEPT !.tx = f.tx] = f
        BY <1>2 DEF Frame
    <2>2. CASE \E r \in {"ok", "err"} : h' = [h EXCEPT ![p] = Return(f, r)]
        BY Zenon, <2>1, <2>2
    <2>3. CASE \E t \in TxId : h' = [h EXCEPT ![p] = Return([f EXCEPT !.tx = t], "err")]
        BY ZenonT(30), <2>3
    <2> QED BY ZenonT(30), <1>1, <2>2, <2>3 DEF DbError, LostAck
<1>4. PICK g : h' = [h EXCEPT ![p] = g] /\ g.pc # "open_save"
    <2>1. \A t \in TxId \cup {None} : [f EXCEPT !.tx = t] \in Frame
        BY <1>2 DEF Frame
    <2> QED BY ZenonT(30), <1>3, <2>1, NotOpenSave
<1>5. CASE \E a \in AccountId : InsertAccount(p, a)
    BY ZenonT(30), <1>4, <1>5, Inserted
<1>6. CASE accounts' = accounts \/ UpdateAccount(p)
    BY ZenonT(30), <1>4, <1>6, NamesStay, NotInserting
<1>7. \/ \E a \in AccountId : InsertAccount(p, a)
      \/ accounts' = accounts \/ UpdateAccount(p)
    BY ZenonT(30) DEF DbError, LostAck, InsertOpened, InsertRecorded, tables
<1> QED BY <1>5, <1>6, <1>7

\* A request arrives or is answered.
LEMMA UniqueRequests ==
    ASSUME Serial, TInv, UInv, NEW p \in Proc,
           Handle(p) \/ Continue(p) \/ HandleTransfer(p) \/ RejectTransfer(p)
    PROVE  UInv'
<1>1. PICK f : f = h[p]
    OBVIOUS
<1>2. f \in Frame /\ Idle \in Frame /\ Idle.pc # "open_save"
    BY <1>1, IdleFrame DEF TInv, IInv, TypeOK, Idle
<1>3. \A r \in Requests : [Idle EXCEPT !.req = r] \in Frame
    BY ZenonT(30), <1>2 DEF Frame
<1>4. SameNames
    <2>1. accounts' = accounts
        BY ZenonT(30) DEF Handle, Continue, HandleOpenAccount, HandleRecordTransaction, HandleDeposit,
            RejectDeposit, HandleTransfer, RejectTransfer, Accept, DepositRecord,
            RespondOpened, RespondRecorded, tables
    <2> QED BY <2>1, NamesStay
<1>5. CASE HandleOpenAccount(p)
    <2>1. PICK r \in Requests :
              r.kind = "open" /\ h' = [h EXCEPT ![p] = OpenAccount([Idle EXCEPT !.req = r], r)]
        BY ZenonT(30), <1>5 DEF HandleOpenAccount, Accept
    <2>2. PICK g : g = OpenAccount([Idle EXCEPT !.req = r], r)
        OBVIOUS
    <2>3. g.pc = "open_save" => g.acc.name = r.name
        BY <1>3, <2>2, OpenName
    <2>4. ~SystemName(r.name)
        BY <2>1 DEF Serial
    <2>5. h' = [h EXCEPT ![p] = g]
        BY Zenon, <2>1, <2>2
    <2>6. \A q \in Proc : h'[q] = g
        BY <2>5 DEF Serial, TInv, IInv, TypeOK
    <2>7. \A q \in Proc : Fresh(h'[q], accounts)
        BY Zenon, <2>3, <2>4, <2>6 DEF Fresh
    <2> QED BY <1>4, <2>7, UniqueKept
<1>6. ASSUME ~HandleOpenAccount(p)
      PROVE  \E g : h' = [h EXCEPT ![p] = g] /\ g.pc # "open_save"
    <2>1. CASE HandleRecordTransaction(p)
        <3>1. PICK r \in Requests :
                  h' = [h EXCEPT ![p] = RecordTransaction([Idle EXCEPT !.req = r], r.entries)]
            BY ZenonT(30), <2>1 DEF HandleRecordTransaction, Accept
        <3> QED BY ZenonT(30), <1>3, <3>1, NotOpenSave
    <2>2. CASE HandleDeposit(p)
        <3>1. PICK r \in Requests :
                  h' = [h EXCEPT ![p] = getOrCreateSystemAccount([Idle EXCEPT !.req = r],
                                            EquityName[r.currency], "EQUITY", r.currency)]
            BY ZenonT(30), <2>2 DEF HandleDeposit, Accept
        <3> QED BY ZenonT(30), <1>3, <3>1, NotOpenSave
    <2>3. CASE HandleTransfer(p)
        <3>1. PICK r \in Requests :
                  h' = [h EXCEPT ![p] = suspenseAccountID([Idle EXCEPT !.req = r], r)]
            BY ZenonT(30), <2>3 DEF HandleTransfer, Accept
        <3> QED BY ZenonT(30), <1>3, <3>1, NotOpenSave DEF suspenseAccountID
    <2>4. CASE DepositRecord(p)
        <3>1. PICK es : h' = [h EXCEPT ![p] = RecordTransaction(f, es)]
            BY ZenonT(30), <1>1, <2>4 DEF DepositRecord
        <3> QED BY ZenonT(30), <1>2, <3>1, NotOpenSave
    <2>5. CASE RejectDeposit(p) \/ RejectTransfer(p) \/ RespondOpened(p) \/ RespondRecorded(p)
        <3>1. h' = [h EXCEPT ![p] = Idle]
            BY <2>5 DEF RejectDeposit, RejectTransfer, RespondOpened, RespondRecorded, Accept
        <3> QED BY ZenonT(30), <1>2, <3>1
    <2> QED BY <1>6, <2>1, <2>2, <2>3, <2>4, <2>5 DEF Handle, Continue
<1> QED BY <1>4, <1>5, <1>6, NotInserting

\* The transfer goes on.
LEMMA UniqueTransfer ==
    ASSUME Serial, TInv, UInv, NEW p \in Proc, TransferStep(p)
    PROVE  UInv'
<1>1. PICK f : f = h[p]
    OBVIOUS
<1>2. f \in Frame /\ Idle.pc # "open_save"
    BY <1>1 DEF TInv, IInv, TypeOK, Idle
<1>3. SameNames
    <2>1. accounts' = accounts
        BY DEF TransferStep, RecordLeg, DebitFailed, DebitDone, CreditDone, CreditFailed,
            CompensationDone, CompensationFailed, LegReturned, tables
    <2> QED BY <2>1, NamesStay
<1>4. CASE RecordLeg(p)
    <2>1. PICK es : h' = [h EXCEPT ![p] = RecordTransaction(f, es)]
        BY ZenonT(30), <1>1, <1>4 DEF RecordLeg
    <2> QED BY ZenonT(30), <1>2, <1>3, <2>1, NotOpenSave, NotInserting
<1>5. CASE DebitDone(p) \/ CreditFailed(p)
    <2>1. PICK r : h' = [h EXCEPT ![p] = suspenseAccountID(f, r)]
        BY <1>1, <1>5 DEF DebitDone, CreditFailed, NextLeg
    <2>2. suspenseAccountID(f, r).pc # "open_save"
        BY <1>2, NotOpenSave DEF suspenseAccountID
    <2> QED BY ZenonT(30), <1>3, <2>1, <2>2, NotInserting
<1>6. CASE DebitFailed(p) \/ CreditDone(p) \/ CompensationDone(p) \/ CompensationFailed(p)
    <2>1. h' = [h EXCEPT ![p] = Idle]
        BY <1>6 DEF DebitFailed, CreditDone, CompensationDone, CompensationFailed, EndTransfer
    <2> QED BY ZenonT(30), <1>2, <1>3, <2>1, NotInserting
<1> QED BY <1>4, <1>5, <1>6 DEF TransferStep

\* As long as requests do not overlap and no user's account takes such a name,
\* getOrCreateSystemAccount never makes a second account of a system name, also
\* when calls fail, answers are lost or the process is restarted between its
\* lookup and its insert: suspenseAccountID and Deposit use one account.
THEOREM SystemAccountsStayUnique ==
    ASSUME Serial
    PROVE  TSpec => []SystemAccountUnique
<1>1. TInit => UInv
    <2> SUFFICES ASSUME TInit PROVE UInv
        OBVIOUS
    <2>1. accounts = Seed /\ \A p \in Proc : h[p].pc = "idle"
        BY DEF TInit, Init, Idle
    <2>2. \A p \in Proc : Fresh(h[p], accounts)
        BY <2>1 DEF Fresh
    <2>3. SystemAccountUnique
        BY <2>1 DEF Serial, SystemAccountUnique, SystemName
    <2> QED BY <2>2, <2>3 DEF UInv
<1>2. TInv /\ UInv /\ [TNext]_tvars => UInv'
    <2> SUFFICES ASSUME TInv, UInv, [TNext]_tvars PROVE UInv'
        OBVIOUS
    <2>1. CASE UNCHANGED vars
        <3>1. SameNames /\ h' = h /\ accounts' = accounts
            BY <2>1 DEF vars, tables, SameNames
        <3>2. \A q \in Proc : Fresh(h'[q], accounts)
            BY Zenon, <3>1 DEF UInv
        <3> QED BY <3>1, <3>2, UniqueKept
    <2>2. CASE CrashTransfers
        <3>1. SameNames /\ \A q \in Proc : h'[q].pc = "idle"
            BY <2>2 DEF CrashTransfers, Crash, tables, SameNames, Idle
        <3>2. \A q \in Proc : Fresh(h'[q], accounts)
            BY <3>1 DEF Fresh
        <3> QED BY <3>1, <3>2, UniqueKept
    <2>3. ASSUME NEW p \in Proc, Step(p) PROVE UInv'
        BY <2>3, UniqueOpen, UniqueRecord DEF Step
    <2>4. ASSUME NEW p \in Proc, DbError(p) \/ LostAckLeg(p) PROVE UInv'
        BY <2>4, UniqueFails DEF LostAckLeg
    <2>5. CASE UNCHANGED tvars
        BY <2>1, <2>5 DEF tvars
    <2>6. CASE Finished
        BY <2>1, <2>6 DEF Finished
    <2> QED BY <2>2, <2>3, <2>4, <2>5, <2>6, UniqueRequests, UniqueTransfer DEF TNext
<1>3. UInv => SystemAccountUnique
    BY DEF UInv
<1> QED BY <1>1, <1>2, <1>3, TInvariance, PTL DEF TSpec
=============================================================================

-------------------------- MODULE ReadModelProofs --------------------------
(***************************************************************************)
(* Proofs about the read model LedgerService keeps, for any number of      *)
(* handlers, accounts, requests and failures: its balances are the sums of *)
(* the projected transactions and add up to zero.                          *)
(***************************************************************************)
EXTENDS LedgerServiceProofs, DomainProofs

-----------------------------------------------------------------------------
(* The read model: what its sums are made of.                              *)

\* What the read-model properties rest on: a transaction is projected at most
\* once, because only the handler that appended it projects it, and what was
\* missed was missed by a projection that committed.
RInv ==
    /\ IsFiniteSet(history) /\ IsFiniteSet(missed) /\ IsFiniteSet(DOMAIN balances)
    /\ \A p \in Proc : h[p].pc = "project" => h[p].tx \notin history
    /\ \A p, q \in Proc :
           h[p].pc = "project" /\ h[q].pc = "project" /\ h[p].tx = h[q].tx => p = q
    /\ \A m \in missed : m[1] \in history /\ m[2] \in DOMAIN recorded[m[1]]

\* No event is removed or rewritten.
LogKept == \A t \in DOMAIN recorded : t \in DOMAIN recorded' /\ recorded'[t] = recorded[t]

\* The entries of the transactions in the read model, and of those it missed.
LEMMA ReadModelTerms ==
    ASSUME IInv, RInv
    PROVE  /\ \A t \in history : t \in DOMAIN recorded /\ recorded[t] \in Seq(Entry)
           /\ \A t \in history : \A a : NetUpTo(recorded[t], Len(recorded[t]), a) \in Int
           /\ \A m \in missed : recorded[m[1]][m[2]] \in Entry
           /\ \A m \in missed : Delta(recorded[m[1]][m[2]]) \in Int
           /\ \A m \in missed : recorded[m[1]][m[2]].account \in DOMAIN balances
<1>1. \A t \in history : t \in DOMAIN recorded /\ recorded[t] \in Seq(Entry)
    BY DEF IInv, ReadModelGrounded, TypeOK
<1>2. \A t \in history : \A a : NetUpTo(recorded[t], Len(recorded[t]), a) \in Int
    <2> SUFFICES ASSUME NEW t \in history, NEW a
                 PROVE  NetUpTo(recorded[t], Len(recorded[t]), a) \in Int
        OBVIOUS
    <2>1. Len(recorded[t]) \in 0..Len(recorded[t])
        BY <1>1, Positions
    <2> QED BY <1>1, <2>1, NetType
<1>3. \A m \in missed : recorded[m[1]][m[2]] \in Entry
    BY <1>1, Positions DEF RInv
<1>4. \A m \in missed : Delta(recorded[m[1]][m[2]]) \in Int
    BY <1>3, DeltaType
<1>5. \A m \in missed : recorded[m[1]][m[2]].account \in DOMAIN balances
    BY <1>1 DEF RInv, IInv, ReadModelGrounded
<1> QED BY <1>1, <1>2, <1>3, <1>4, <1>5

\* The values of the sums are integers.
LEMMA ReadModelSums ==
    ASSUME IInv, RInv, NEW a, NEW A
    PROVE  Replay(history, a) \in Int /\ MissedOn(A) \in Int
<1> DEFINE net == [t \in history |-> NetUpTo(recorded[t], Len(recorded[t]), a)]
           dl == [m \in missed |-> Delta(recorded[m[1]][m[2]])]
           M == {m \in missed : recorded[m[1]][m[2]].account \in A}
<1>1. (\A t \in history : net[t] \in Int) /\ (\A m \in missed : dl[m] \in Int)
    BY ReadModelTerms
<1>2. M \subseteq missed /\ IsFiniteSet(M) /\ IsFiniteSet(history)
    BY FS_Subset DEF RInv
<1>3. Replay(history, a) = SumFunctionOnSet(net, history) /\ MissedOn(A) = SumFunctionOnSet(dl, M)
    BY DEF Replay, MissedOn
<1> HIDE DEF net, dl, M
<1>4. SumFunctionOnSet(net, history) \in Int
    BY <1>1, <1>2, SumType
<1>5. SumFunctionOnSet(dl, M) \in Int
    BY <1>1, <1>2, SumType
<1> QED BY <1>3, <1>4, <1>5

\* A step that projects nothing leaves the sums alone: the log only grows.
LEMMA ReadModelSame ==
    ASSUME IInv, RInv, LogKept, UNCHANGED <<balances, history, missed>>
    PROVE  /\ \A a : Replay(history, a)' = Replay(history, a)
           /\ \A A : MissedOn(A)' = MissedOn(A)
           /\ \A m \in missed' : m[1] \in history' /\ m[2] \in DOMAIN recorded'[m[1]]
<1>1. /\ \A t \in history : recorded'[t] = recorded[t]
      /\ \A m \in missed : recorded'[m[1]] = recorded[m[1]]
      /\ history' = history /\ missed' = missed
    BY ReadModelTerms DEF LogKept, RInv
<1>2. ASSUME NEW a PROVE Replay(history, a)' = Replay(history, a)
    <2>1. [t \in history |-> NetUpTo(recorded'[t], Len(recorded'[t]), a)] =
              [t \in history |-> NetUpTo(recorded[t], Len(recorded[t]), a)]
        BY <1>1
    <2> QED BY <1>1, <2>1 DEF Replay
<1>3. ASSUME NEW A PROVE MissedOn(A)' = MissedOn(A)
    <2>1. /\ [m \in missed |-> Delta(recorded'[m[1]][m[2]])] =
                 [m \in missed |-> Delta(recorded[m[1]][m[2]])]
          /\ {m \in missed : recorded'[m[1]][m[2]].account \in A} =
                 {m \in missed : recorded[m[1]][m[2]].account \in A}
        BY <1>1
    <2> QED BY ZenonT(30), <1>1, <2>1 DEF MissedOn
<1>4. \A m \in missed' : m[1] \in history' /\ m[2] \in DOMAIN recorded'[m[1]]
    BY <1>1 DEF RInv
<1> QED BY <1>2, <1>3, <1>4

\* Nothing in the read model concerns an account that has no row in it.
LEMMA NoRowNoSum ==
    ASSUME IInv, RInv, NEW a, a \notin DOMAIN balances
    PROVE  Replay(history, a) = 0 /\ MissedOn({a}) = 0
<1>1. ASSUME NEW t \in history
      PROVE  NetUpTo(recorded[t], Len(recorded[t]), a) = 0
    <2>1. \A k \in 1..Len(recorded[t]) : recorded[t][k].account # a
        BY ReadModelTerms, Positions DEF IInv, ReadModelGrounded
    <2> QED BY <2>1, NetNone
<1>2. Replay(history, a) = 0
    <2> DEFINE net == [t \in history |-> NetUpTo(recorded[t], Len(recorded[t]), a)]
    <2>1. \A t \in history : net[t] = 0
        BY <1>1
    <2>2. Replay(history, a) = SumFunctionOnSet(net, history)
        BY DEF Replay
    <2> HIDE DEF net
    <2> QED BY <2>1, <2>2, SumZero DEF RInv
<1>3. {m \in missed : recorded[m[1]][m[2]].account \in {a}} = {}
    BY ReadModelTerms
<1>4. MissedOn({a}) = 0
    BY ZenonT(30), <1>3, SumEmpty DEF MissedOn
<1> QED BY <1>2, <1>4

\* A projection adds its transaction to the history, and the entries at S to
\* what was missed.
LEMMA ProjectionSums ==
    ASSUME IInv, RInv, NEW p \in Proc, h[p].pc = "project",
           NEW S \in SUBSET DOMAIN h[p].entries,
           history' = history \cup {h[p].tx},
           missed' = missed \cup {<<h[p].tx, k>> : k \in S}, recorded' = recorded
    PROVE  /\ \A a : Replay(history, a)' =
                  Replay(history, a) + NetUpTo(h[p].entries, Len(h[p].entries), a)
           /\ \A A : MissedOn(A)' =
                  MissedOn(A) + SumFunctionOnSet(
                      [k \in DOMAIN h[p].entries |-> Delta(h[p].entries[k])],
                      {k \in S : h[p].entries[k].account \in A})
<1> DEFINE t == h[p].tx
           es == h[p].entries
           d == [k \in DOMAIN es |-> Delta(es[k])]
<1>1. /\ t \in DOMAIN recorded /\ recorded[t] = es /\ t \notin history
      /\ es \in Seq(Entry)
    BY FrameFields DEF IInv, TypeOK, HandlersGrounded, FrameOK, RInv
<1> HIDE DEF t, es
<1>2. ASSUME NEW a
      PROVE  Replay(history, a)' = Replay(history, a) + NetUpTo(es, Len(es), a)
    <2> DEFINE net(H) == [u \in H |-> NetUpTo(recorded[u], Len(recorded[u]), a)]
               H2 == history \cup {t}
    <2>1. Replay(history, a)' = SumFunctionOnSet(net(H2), H2)
        BY DEF Replay, t
    <2>2. Replay(history, a) = SumFunctionOnSet(net(history), history)
        BY DEF Replay
    <2>3. /\ \A u \in history : net(H2)[u] \in Int /\ net(H2)[u] = net(history)[u]
          /\ net(H2)[t] = NetUpTo(es, Len(es), a)
        BY <1>1, ReadModelTerms
    <2>4. NetUpTo(es, Len(es), a) \in Int
        <3>1. Len(es) \in 0..Len(es)
            BY <1>1, Positions
        <3> QED BY <1>1, <3>1, NetType
    <2>5. IsFiniteSet(history)
        BY DEF RInv
    <2> HIDE DEF net
    <2>6. SumFunctionOnSet(net(H2), H2) = SumFunctionOnSet(net(H2), history) + net(H2)[t]
        BY ZenonT(30), <1>1, <2>3, <2>4, <2>5, SumAdd
    <2>7. SumFunctionOnSet(net(H2), history) = SumFunctionOnSet(net(history), history)
        BY ZenonT(30), <2>3, <2>5, SumAgree
    <2> QED BY Zenon, <2>1, <2>2, <2>3, <2>6, <2>7
<1>3. ASSUME NEW A
      PROVE  MissedOn(A)' = MissedOn(A) + SumFunctionOnSet(d, {k \in S : es[k].account \in A})
    <2> DEFINE dl(M) == [m \in M |-> Delta(recorded[m[1]][m[2]])]
               On(M) == {m \in M : recorded[m[1]][m[2]].account \in A}
               SA == {k \in S : es[k].account \in A}
               name == [k \in SA |-> <<t, k>>]
               N == {name[k] : k \in SA}
               M2 == missed \cup {<<t, k>> : k \in S}
    <2>1. MissedOn(A)' = SumFunctionOnSet(dl(M2), On(M2))
        BY DEF MissedOn, t
    <2>2. MissedOn(A) = SumFunctionOnSet(dl(missed), On(missed))
        BY DEF MissedOn
    <2>n. \A k \in S : /\ <<t, k>>[1] = t
                       /\ recorded[<<t, k>>[1]][<<t, k>>[2]] = es[k]
        BY <1>1
    <2>o. N = {<<t, k>> : k \in SA}
        BY ZenonT(30)
    <2>3. On(M2) = On(missed) \cup N
        <3>1. ASSUME NEW m \in On(M2) PROVE m \in On(missed) \cup N
            <4>1. CASE m \in missed
                BY <4>1
            <4>2. CASE m \notin missed
                <5>1. PICK k \in S : m = <<t, k>>
                    BY <4>2
                <5>2. es[k].account \in A
                    BY <2>n, <5>1
                <5> QED BY ZenonT(30), <2>o, <5>1, <5>2
            <4> QED BY <4>1, <4>2
        <3>2. ASSUME NEW m \in N PROVE m \in On(M2)
            <4>1. PICK k \in SA : m = <<t, k>>
                BY <2>o
            <4>2. recorded[m[1]][m[2]].account \in A
                BY <2>n, <4>1
            <4> QED BY <4>1, <4>2
        <3>3. On(missed) \subseteq On(M2)
            OBVIOUS
        <3> HIDE DEF On, N, M2
        <3> QED BY <3>1, <3>2, <3>3
    <2>4. On(missed) \cap N = {}
        <3>1. ASSUME NEW m \in On(missed), m \in N PROVE FALSE
            <4>1. PICK k \in SA : m = <<t, k>>
                BY ZenonT(30), <2>o, <3>1
            <4>2. m[1] = t /\ m \in missed
                BY <2>n, <4>1
            <4> QED BY <1>1, <4>2 DEF RInv
        <3> HIDE DEF On, N
        <3> QED BY <3>1
    <2>5. \A m \in On(missed) : dl(M2)[m] = dl(missed)[m] /\ dl(M2)[m] \in Int
        BY ReadModelTerms
    <2>6. \A k \in SA : d[k] \in Int /\ dl(M2)[name[k]] = d[k]
        BY ZenonT(30), <1>1, Positions DEF es
    <2>7. \A i, j \in SA : name[i] = name[j] => i = j
        OBVIOUS
    <2>8. IsFiniteSet(SA) /\ IsFiniteSet(On(missed)) /\ IsFiniteSet(N)
        <3>1. IsFiniteSet(S) /\ IsFiniteSet(missed)
            BY <1>1, Positions, FS_Subset DEF es, RInv
        <3>2. IsFiniteSet(SA) /\ IsFiniteSet(On(missed))
            BY <3>1, FS_Subset
        <3>3. N = {<<t, k>> : k \in SA}
            BY ZenonT(30)
        <3>4. name \in Surjection(SA, N)
            BY DEF Surjection
        <3> HIDE DEF SA, N, name
        <3>5. IsFiniteSet(N)
            BY <3>2, <3>4, FS_Surjection
        <3> QED BY <3>2, <3>5
    <2>9. \A m \in N : dl(M2)[m] \in Int
        <3> HIDE DEF dl, SA, name, M2, d
        <3> QED BY <2>6
    <2> HIDE DEF dl, On, SA, name, M2
    <2>10. SumFunctionOnSet(dl(M2), N) = SumFunctionOnSet(d, SA)
        <3> HIDE DEF d
        <3>1. IsFiniteSet(SA)
            BY <2>8
        <3>2. SumFunctionOnSet(dl(M2), {name[k] : k \in SA}) = SumFunctionOnSet(d, SA)
            BY ONLY <2>6, <2>7, <3>1, SumImage
        <3> QED BY <3>2
    <2> HIDE DEF N, d
    <2>11. SumFunctionOnSet(dl(M2), On(missed) \cup N) =
               SumFunctionOnSet(dl(M2), On(missed)) + SumFunctionOnSet(dl(M2), N)
        BY <2>4, <2>5, <2>8, <2>9, SumUnion
    <2>12. SumFunctionOnSet(dl(M2), On(missed)) = SumFunctionOnSet(dl(missed), On(missed))
        BY <2>5, <2>8, SumAgree
    <2>13. MissedOn(A)' = MissedOn(A) + SumFunctionOnSet(d, SA)
        BY Zenon, <2>1, <2>2, <2>3, <2>10, <2>11, <2>12
    <2> QED BY <2>13 DEF SA
<1> QED BY ZenonT(30), <1>2, <1>3 DEF es, d

-----------------------------------------------------------------------------
(* The shapes a step of one handler can have.                              *)

\* The handler has not begun to apply entries, and does not project.
Quiet(f) ==
    /\ f.pc \in PC \ {"save", "append", "project"}
    /\ f.pc = "open_save" => f.acc.balance = 0
    /\ f.pc = "find" => f.k = 1

\* The frames that calls and returns leave are quiet.
LEMMA QuietFrames ==
    ASSUME NEW f \in Frame
    PROVE  /\ Quiet(Idle)
           /\ \A r \in {"ok", "err"} : Quiet(Return(f, r))
           /\ \A cmd : Quiet(OpenAccount(f, cmd))
           /\ \A n, ty, c : Quiet(getOrCreateSystemAccount(f, n, ty, c))
           /\ \A es : Quiet(RecordTransaction(f, es))
<1>1. Quiet(Idle)
    BY DEF Quiet, Idle, PC
<1>2. ASSUME NEW r \in {"ok", "err"} PROVE Quiet(Return(f, r))
    <2>1. Return(f, r).pc \in {"opened", "recorded"}
        BY ReturnFrame
    <2> QED BY <2>1 DEF Quiet, PC
<1>3. ASSUME NEW cmd PROVE Quiet(OpenAccount(f, cmd))
    <2> DEFINE g == OpenAccount(f, cmd)
    <2>1. CASE NewAccountOK(cmd.name, cmd.currency)
        <3>1. g.pc = "open_save" /\ g.acc.balance = 0
            BY <2>1 DEF OpenAccount, NewAccountWithType, Frame
        <3> HIDE DEF g
        <3>2. Quiet(g)
            BY <3>1 DEF Quiet, PC, OpenPC
        <3> QED BY <3>2 DEF g
    <2>2. CASE ~NewAccountOK(cmd.name, cmd.currency)
        <3>1. g.pc = "opened"
            BY <2>2 DEF OpenAccount, Frame
        <3> HIDE DEF g
        <3>2. Quiet(g)
            BY <3>1 DEF Quiet, PC
        <3> QED BY <3>2 DEF g
    <2> QED BY <2>1, <2>2
<1>4. ASSUME NEW n, NEW ty, NEW c PROVE Quiet(getOrCreateSystemAccount(f, n, ty, c))
    <2> DEFINE g == getOrCreateSystemAccount(f, n, ty, c)
    <2>1. g.pc = "sys_find"
        BY DEF getOrCreateSystemAccount, Frame
    <2> HIDE DEF g
    <2>2. Quiet(g)
        BY <2>1 DEF Quiet, PC, OpenPC
    <2> QED BY <2>2 DEF g
<1>5. ASSUME NEW es PROVE Quiet(RecordTransaction(f, es))
    <2> DEFINE g == RecordTransaction(f, es)
    <2>1. g.pc \in {"find", "recorded"} /\ g.k = 1
        BY DEF RecordTransaction, Frame
    <2> HIDE DEF g
    <2>2. Quiet(g)
        BY <2>1 DEF Quiet, PC, RecordPC
    <2> QED BY <2>2 DEF g
<1> QED BY <1>1, <1>2, <1>3, <1>4, <1>5

\* Handling and answering requests, and the calls around RecordTransaction.
LEMMA QuietStep ==
    ASSUME IInv, NEW p \in Proc,
           \/ Handle(p) \/ Continue(p)
           \/ SystemAccountFound(p) \/ SystemAccountMissing(p) \/ AppendOpened(p)
           \/ ProjectAccountOpened(p) \/ ProjectTransactionRecorded(p)
           \/ ProjectionSkipped(p)
    PROVE  /\ \E g : h' = [h EXCEPT ![p] = g] /\ Quiet(g)
           /\ h[p].pc \notin {"find", "save", "append"}
           /\ UNCHANGED <<accounts, recorded, exposed>>
<1> DEFINE f == h[p]
           new(r) == [Idle EXCEPT !.req = r]
<1>1. f \in Frame /\ \A r \in Requests : new(r) \in Frame
    BY ZenonT(30), IdleFrame DEF IInv, TypeOK, Frame
<1> HIDE DEF new
<1>2. CASE Handle(p)
    <2>1. CASE HandleOpenAccount(p)
        BY ZenonT(30), <1>1, <2>1, QuietFrames DEF HandleOpenAccount, Accept, tables, new
    <2>2. CASE HandleRecordTransaction(p)
        BY ZenonT(30), <1>1, <2>2, QuietFrames DEF HandleRecordTransaction, Accept, tables, new
    <2>3. CASE HandleDeposit(p)
        <3>1. PICK r \in Requests :
                  Accept(p, getOrCreateSystemAccount(new(r), EquityName[r.currency],
                                                     "EQUITY", r.currency))
            BY <2>3 DEF HandleDeposit, new
        <3>2. Quiet(getOrCreateSystemAccount(new(r), EquityName[r.currency],
                                             "EQUITY", r.currency))
            BY <1>1, QuietFrames
        <3> QED BY ZenonT(30), <3>1, <3>2 DEF Accept, tables
    <2>4. CASE RejectDeposit(p)
        BY ZenonT(30), <1>1, <2>4, QuietFrames DEF RejectDeposit, Accept, tables
    <2> QED BY <1>2, <2>1, <2>2, <2>3, <2>4 DEF Handle
<1>3. CASE Continue(p)
    <2>1. CASE DepositRecord(p)
        <3>1. PICK es : h' = [h EXCEPT ![p] = RecordTransaction(f, es)]
            BY ZenonT(30), <2>1 DEF DepositRecord
        <3> QED BY ZenonT(30), <1>1, <2>1, <3>1, QuietFrames DEF DepositRecord, tables
    <2>2. CASE RespondOpened(p) \/ RespondRecorded(p)
        BY <1>1, <2>2, QuietFrames DEF RespondOpened, RespondRecorded, tables
    <2> QED BY <1>3, <2>1, <2>2 DEF Continue
<1>4. CASE SystemAccountFound(p)
    <2>1. PICK a \in DOMAIN accounts : h' = [h EXCEPT ![p] = Return([f EXCEPT !.aid = a], "ok")]
        BY ZenonT(30), <1>4 DEF SystemAccountFound
    <2>2. [f EXCEPT !.aid = a] \in Frame
        BY ZenonT(30), <1>1 DEF IInv, TypeOK, Frame
    <2> QED BY ZenonT(30), <1>4, <2>1, <2>2, QuietFrames DEF SystemAccountFound, tables
<1>5. CASE SystemAccountMissing(p)
    BY ZenonT(30), <1>1, <1>5, QuietFrames DEF SystemAccountMissing, tables
<1>6. CASE AppendOpened(p)
    <2> DEFINE g == [f EXCEPT !.pc = "open_project"]
    <2>1. g.pc = "open_project"
        BY <1>1 DEF Frame
    <2>2. h' = [h EXCEPT ![p] = g]
        BY <1>6 DEF AppendOpened
    <2> HIDE DEF g
    <2>3. Quiet(g)
        BY <2>1 DEF Quiet, PC, OpenPC
    <2> QED BY ZenonT(30), <1>6, <2>2, <2>3 DEF AppendOpened, InsertOpened
<1>7. CASE \/ ProjectAccountOpened(p) \/ ProjectTransactionRecorded(p)
           \/ ProjectionSkipped(p)
    BY <1>1, <1>7, QuietFrames DEF ProjectAccountOpened, ProjectTransactionRecorded,
                                   ProjectionSkipped, tables
<1> QED BY <1>2, <1>3, <1>4, <1>5, <1>6, <1>7

\* Of these, all but the two projections leave the read model alone.
LEMMA QuietReadModel ==
    ASSUME NEW p \in Proc,
           \/ Handle(p) \/ Continue(p)
           \/ SystemAccountFound(p) \/ SystemAccountMissing(p) \/ AppendOpened(p)
           \/ ProjectionSkipped(p)
    PROVE  UNCHANGED <<balances, history, missed>>
  BY ZenonT(30) DEF Handle, HandleOpenAccount, HandleRecordTransaction, HandleDeposit, RejectDeposit,
         Accept, Continue, DepositRecord, RespondOpened, RespondRecorded, tables,
         SystemAccountFound, SystemAccountMissing, AppendOpened, InsertOpened,
         ProjectionSkipped

\* A call that fails returns, also when its write took effect.
LEMMA FailedCall ==
    ASSUME IInv, NEW p \in Proc, FindRejected(p) \/ DbError(p) \/ LostAck(p)
    PROVE  /\ \E g : h' = [h EXCEPT ![p] = g] /\ g.pc \in {"opened", "recorded"}
           /\ UNCHANGED <<balances, history, missed>>
<1> DEFINE f == h[p]
<1>1. f \in Frame /\ \A t \in TxId : [f EXCEPT !.tx = t] \in Frame
    BY ZenonT(60) DEF IInv, TypeOK, Frame
<1>2. PICK g \in Frame, r \in {"ok", "err"} : h' = [h EXCEPT ![p] = Return(g, r)]
    BY ZenonT(30), <1>1 DEF FindRejected, DbError, LostAck
<1>3. UNCHANGED <<balances, history, missed>>
    BY ZenonT(30) DEF FindRejected, DbError, LostAck, tables, InsertAccount, InsertOpened,
           UpdateAccount, InsertRecorded
<1>4. Return(g, r).pc \in {"opened", "recorded"}
    BY ReturnFrame
<1> QED BY ZenonT(30), <1>2, <1>3, <1>4

-----------------------------------------------------------------------------
(* The read model.                                                         *)

\* The handlers that project keep transactions of their own, none of which is
\* in the history yet.
LEMMA ProjectingFrames ==
    ASSUME IInv, RInv, NEW p \in Proc, NEW g, h' = [h EXCEPT ![p] = g],
           \/ g.pc # "project" /\ history' = history
           \/ /\ g.pc # "project" /\ h[p].pc = "project"
              /\ history' = history \cup {h[p].tx}
           \/ g.tx \notin DOMAIN recorded /\ history' = history
    PROVE  /\ \A q \in Proc : h'[q].pc = "project" => h'[q].tx \notin history'
           /\ \A q, r \in Proc :
                  /\ h'[q].pc = "project" /\ h'[r].pc = "project" /\ h'[q].tx = h'[r].tx
                  => q = r
<1>1. h'[p] = g /\ \A q \in Proc \ {p} : h'[q] = h[q]
    BY DEF IInv, TypeOK
<1>2. \A q \in Proc : h[q].pc = "project" => h[q].tx \in DOMAIN recorded
    BY DEF IInv, HandlersGrounded, FrameOK
<1>3. history \subseteq DOMAIN recorded
    BY DEF IInv, ReadModelGrounded
<1>4. ASSUME NEW q \in Proc, h'[q].pc = "project" PROVE h'[q].tx \notin history'
    <2>1. CASE q = p
        BY ZenonT(30), <1>1, <1>3, <1>4, <2>1
    <2>2. CASE q # p
        <3>1. h'[q] = h[q] /\ h[q].pc = "project" /\ h[q].tx \notin history
            BY ZenonT(30), <1>1, <1>4, <2>2 DEF RInv
        <3>2. h[p].pc = "project" => h[q].tx # h[p].tx
            BY ZenonT(30), <2>2, <3>1 DEF RInv
        <3> QED BY ZenonT(30), <3>1, <3>2
    <2> QED BY Zenon, <2>1, <2>2
<1>5. ASSUME NEW q \in Proc, NEW r \in Proc, q # r,
             h'[q].pc = "project", h'[r].pc = "project", h'[q].tx = h'[r].tx
      PROVE  FALSE
    <2>1. CASE q # p /\ r # p
        BY ZenonT(30), <1>1, <1>5, <2>1 DEF RInv
    <2>2. CASE q = p \/ r = p
        <3>1. g.tx \notin DOMAIN recorded
            BY ZenonT(30), <1>1, <1>5, <2>2
        <3>2. PICK o \in {q, r} : o # p /\ h[o].pc = "project" /\ h[o].tx = g.tx
            BY ZenonT(30), <1>1, <1>5, <2>2
        <3> QED BY ZenonT(30), <1>2, <3>1, <3>2
    <2> QED BY Zenon, <2>1, <2>2
<1> QED BY ZenonT(30), <1>4, <1>5

\* A step that leaves the read model alone keeps what is known of it.
LEMMA ReadModelQuiet ==
    ASSUME IInv, RInv, NEW p \in Proc, NEW g, h' = [h EXCEPT ![p] = g],
           g.pc # "project" \/ g.tx \notin DOMAIN recorded,
           LogKept, UNCHANGED <<balances, history, missed>>
    PROVE  /\ RInv'
           /\ ReadModelIsProjection => ReadModelIsProjection'
           /\ ReadModelConserved => ReadModelConserved'
<1>1. /\ \A q \in Proc : h'[q].pc = "project" => h'[q].tx \notin history'
      /\ \A q, r \in Proc :
             /\ h'[q].pc = "project" /\ h'[r].pc = "project" /\ h'[q].tx = h'[r].tx
             => q = r
    BY ZenonT(30), ProjectingFrames
<1>2. RInv'
    BY <1>1, ReadModelSame DEF RInv
<1>3. ReadModelIsProjection => ReadModelIsProjection'
    BY ReadModelSame DEF ReadModelIsProjection
<1>4. ReadModelConserved => ReadModelConserved'
    BY ReadModelSame DEF ReadModelConserved
<1> QED BY <1>2, <1>3, <1>4

\* The log only grows.
LEMMA WritesKeepLog ==
    ASSUME IInv, NEW p \in Proc,
           \/ SaveNewAccount(p) \/ FindByID(p) \/ SaveAccount(p) \/ AppendRecorded(p)
           \/ FindRejected(p) \/ DbError(p) \/ LostAck(p)
    PROVE  LogKept
<1>1. CASE recorded' = recorded
    BY <1>1 DEF LogKept
<1>2. CASE \E t \in TxId : InsertRecorded(p, t)
    BY <1>2, InsertRecordedTables DEF Grows, LogKept
<1> QED BY ZenonT(30), <1>1, <1>2 DEF SaveNewAccount, InsertAccount, FindByID, SaveAccount,
           UpdateAccount, AppendRecorded, FindRejected, DbError, LostAck, InsertOpened, tables

\* A new row starts at zero, as does what the history says of its account.
LEMMA OpenRow ==
    ASSUME IInv, RInv, NEW p \in Proc, ProjectAccountOpened(p)
    PROVE  /\ RInv'
           /\ ReadModelIsProjection => ReadModelIsProjection'
           /\ ReadModelConserved => ReadModelConserved'
<1> DEFINE a == h[p].aid
           D == DOMAIN balances
<1>1. PICK g : h' = [h EXCEPT ![p] = g] /\ Quiet(g)
    BY QuietStep
<1>2. g.pc # "project"
    BY <1>1 DEF Quiet
<1>3. history' = history /\ missed' = missed /\ recorded' = recorded
    BY DEF ProjectAccountOpened
<1>4. CASE a \in D
    <2>1. LogKept /\ UNCHANGED <<balances, history, missed>>
        BY <1>3, <1>4 DEF ProjectAccountOpened, LogKept
    <2> QED BY ZenonT(30), <1>1, <1>2, <2>1, ReadModelQuiet
<1>5. CASE a \notin D
    <2>1. balances' = Upsert(balances, a, 0)
        BY <1>5 DEF ProjectAccountOpened
    <2>2. /\ DOMAIN balances' = D \cup {a} /\ balances'[a] = 0
          /\ \A b \in D : balances'[b] = balances[b]
        BY <1>5, <2>1 DEF Upsert
    <2>3. /\ \A b : Replay(history, b)' = Replay(history, b)
          /\ \A A : MissedOn(A)' = MissedOn(A)
        BY <1>3 DEF Replay, MissedOn
    <2>4. RInv'
        <3>1. /\ \A q \in Proc : h'[q].pc = "project" => h'[q].tx \notin history'
              /\ \A q, r \in Proc :
                     /\ h'[q].pc = "project" /\ h'[r].pc = "project" /\ h'[q].tx = h'[r].tx
                     => q = r
            BY ZenonT(30), <1>1, <1>2, <1>3, ProjectingFrames
        <3>2. IsFiniteSet(DOMAIN balances')
            BY ZenonT(30), <2>2, FS_AddElement DEF RInv
        <3> QED BY <1>3, <3>1, <3>2 DEF RInv
    <2>5. ReadModelIsProjection => ReadModelIsProjection'
        <3> SUFFICES ASSUME ReadModelIsProjection, NEW b \in DOMAIN balances'
                     PROVE  balances'[b] = Replay(history, b) - MissedOn({b})
            BY ZenonT(30), <2>3 DEF ReadModelIsProjection
        <3>1. CASE b = a
            <4>1. Replay(history, a) = 0 /\ MissedOn({a}) = 0
                BY <1>5, NoRowNoSum
            <4> QED BY <2>2, <3>1, <4>1
        <3>2. CASE b \in D
            BY <2>2, <3>2 DEF ReadModelIsProjection
        <3> QED BY <2>2, <3>1, <3>2
    <2>6. ReadModelConserved => ReadModelConserved'
        <3>1. SumFunction(balances)' = SumFunctionOnSet(balances', D \cup {a})
            BY <2>2 DEF SumFunction
        <3>2. SumFunction(balances) = SumFunctionOnSet(balances, D)
            BY DEF SumFunction
        <3>3. /\ IsFiniteSet(D)
              /\ \A b \in D : balances'[b] \in Int /\ balances'[b] = balances[b]
            BY <2>2, MoneyAssumption DEF IInv, TypeOK, RInv, Int64
        <3>4. SumFunctionOnSet(balances', D \cup {a}) = SumFunctionOnSet(balances', D) + 0
            BY <1>5, <2>2, <3>3, SumAdd
        <3>5. SumFunctionOnSet(balances', D) = SumFunctionOnSet(balances, D)
            BY <3>3, SumAgree
        <3>6. SumFunctionOnSet(balances', D) \in Int
            BY <3>3, SumType
        <3>7. SumFunction(balances)' = SumFunction(balances)
            BY <3>1, <3>2, <3>4, <3>5, <3>6
        <3> QED BY <2>3, <3>7 DEF ReadModelConserved
    <2> QED BY <2>4, <2>5, <2>6
<1> QED BY <1>4, <1>5

\* What is projected and not missed moves a balance and its two sums alike.
LEMMA SameDifference ==
    \A r, m, n, g, s \in Int : n = g + s => (r - m) + g = (r + n) - (m + s)
OBVIOUS

\* A projection keeps every balance the sum over its history.
LEMMA ProjectRow ==
    ASSUME IInv, RInv, NEW p \in Proc, ProjectTransactionRecorded(p)
    PROVE  /\ RInv'
           /\ ReadModelIsProjection => ReadModelIsProjection'
<1> DEFINE f == h[p]
           t == f.tx
           es == f.entries
           d == [k \in DOMAIN es |-> Delta(es[k])]
<1>1. PICK g : h' = [h EXCEPT ![p] = g] /\ Quiet(g)
    BY QuietStep
<1>2. g.pc # "project" /\ f.pc = "project"
    BY <1>1 DEF Quiet, ProjectTransactionRecorded
<1>3. history' = history \cup {t} /\ recorded' = recorded
    BY DEF ProjectTransactionRecorded
<1>4. PICK S \in SUBSET Missable(es, f.absent) :
          /\ balances' = [a \in DOMAIN balances |->
                            balances[a] + NetUpTo(Missing(es, S), Len(es), a)]
          /\ missed' = missed \cup {<<t, k>> : k \in S}
    BY DEF ProjectTransactionRecorded
<1>5. es \in Seq(Entry) /\ t \in DOMAIN recorded /\ recorded[t] = es
    BY <1>2, FrameFields DEF IInv, TypeOK, HandlersGrounded, FrameOK
<1>6. S \in SUBSET DOMAIN es
    BY DEF Missable
<1>7. /\ \A a : Replay(history, a)' = Replay(history, a) + NetUpTo(es, Len(es), a)
      /\ \A A : MissedOn(A)' =
             MissedOn(A) + SumFunctionOnSet(d, {k \in S : es[k].account \in A})
    BY ZenonT(30), <1>2, <1>3, <1>4, <1>6, ProjectionSums
<1>8. RInv'
    <2>1. /\ \A q \in Proc : h'[q].pc = "project" => h'[q].tx \notin history'
          /\ \A q, r \in Proc :
                 /\ h'[q].pc = "project" /\ h'[r].pc = "project" /\ h'[q].tx = h'[r].tx
                 => q = r
        BY ZenonT(30), <1>1, <1>2, <1>3, ProjectingFrames
    <2>2. IsFiniteSet(history') /\ IsFiniteSet(DOMAIN balances')
        BY ZenonT(30), <1>3, <1>4, FS_AddElement DEF RInv
    <2>3. IsFiniteSet(missed')
        <3> DEFINE name == [k \in S |-> <<t, k>>]
                   N == {<<t, k>> : k \in S}
        <3>1. IsFiniteSet(S) /\ IsFiniteSet(missed)
            BY <1>5, <1>6, Positions, FS_Subset DEF RInv
        <3>2. name \in Surjection(S, N)
            BY ZenonT(30) DEF Surjection
        <3> HIDE DEF name, N
        <3>3. IsFiniteSet(N)
            BY <3>1, <3>2, FS_Surjection
        <3>4. missed' = missed \cup N
            BY <1>4 DEF N
        <3> QED BY ZenonT(30), <3>1, <3>3, <3>4, FS_Union
    <2>4. \A m \in missed' : m[1] \in history' /\ m[2] \in DOMAIN recorded'[m[1]]
        <3> SUFFICES ASSUME NEW m \in missed'
                     PROVE  m[1] \in history' /\ m[2] \in DOMAIN recorded'[m[1]]
            OBVIOUS
        <3>1. CASE m \in missed
            BY <1>3, <3>1 DEF RInv
        <3>2. CASE m \notin missed
            <4>1. PICK k \in S : m = <<t, k>>
                BY <1>4, <3>2
            <4>2. m[1] = t /\ m[2] = k /\ k \in DOMAIN es
                BY <1>6, <4>1
            <4> HIDE DEF t, es
            <4> QED BY <1>3, <1>5, <4>2
        <3> QED BY <3>1, <3>2
    <2> QED BY <2>1, <2>2, <2>3, <2>4 DEF RInv
<1>9. ReadModelIsProjection => ReadModelIsProjection'
    <2> SUFFICES ASSUME ReadModelIsProjection, NEW a \in DOMAIN balances'
                 PROVE  balances'[a] = Replay(history, a)' - MissedOn({a})'
        BY ZenonT(30) DEF ReadModelIsProjection
    <2> DEFINE U == {k \in S : es[k].account = a}
               net == NetUpTo(es, Len(es), a)
               got == NetUpTo(Missing(es, S), Len(es), a)
    <2>1. a \in DOMAIN balances /\ balances'[a] = balances[a] + got
        BY <1>4
    <2>2. balances[a] = Replay(history, a) - MissedOn({a})
        BY <2>1 DEF ReadModelIsProjection
    <2>3. net = got + SumFunctionOnSet(d, U)
        BY ZenonT(30), <1>5, <1>6, NetMissing
    <2>4. {k \in S : es[k].account \in {a}} = U
        OBVIOUS
    <2>5. Replay(history, a)' = Replay(history, a) + net
        BY <1>7
    <2>6. MissedOn({a})' = MissedOn({a}) + SumFunctionOnSet(d, U)
        BY <1>7, <2>4
    <2>7. Replay(history, a) \in Int /\ MissedOn({a}) \in Int
        BY ReadModelSums
    <2>8. net \in Int
        <3>1. Len(es) \in 0..Len(es)
            BY <1>5, Positions
        <3> QED BY <1>5, <3>1, NetType
    <2>9. SumFunctionOnSet(d, U) \in Int
        <3>1. IsFiniteSet(U) /\ \A k \in U : d[k] \in Int
            BY <1>5, <1>6, Positions, FS_Subset
        <3> HIDE DEF d, U
        <3> QED BY <3>1, SumType
    <2>10. got \in Int
        <3> DEFINE ms == Missing(es, S)
        <3>1. ms \in Seq(Entry) /\ Len(es) = Len(ms)
            BY <1>5, MissingType
        <3> HIDE DEF ms, es
        <3>2. Len(ms) \in 0..Len(ms)
            BY <3>1, Positions
        <3>3. NetUpTo(ms, Len(ms), a) \in Int
            BY <3>1, <3>2, NetType
        <3> QED BY <3>1, <3>3 DEF ms
    <2> HIDE DEF d, U, net, got
    <2>11. (Replay(history, a) - MissedOn({a})) + got =
               (Replay(history, a) + net) - (MissedOn({a}) + SumFunctionOnSet(d, U))
        BY SMTT(30), <2>3, <2>7, <2>8, <2>9, <2>10, SameDifference
    <2> QED BY ZenonT(30), <2>1, <2>2, <2>5, <2>6, <2>11
<1> QED BY <1>8, <1>9

\* A projection is applied to all accounts of its transaction or to none, so
\* the sum of the balances changes by what was missed only.
LEMMA ProjectConserves ==
    ASSUME EntryType \subseteq {"DEBIT", "CREDIT"}, IInv, RInv, NEW p \in Proc,
           ProjectTransactionRecorded(p), ReadModelConserved
    PROVE  ReadModelConserved'
<1> DEFINE f == h[p]
           t == f.tx
           es == f.entries
           D == DOMAIN balances
           d == [k \in DOMAIN es |-> Delta(es[k])]
<1>1. f.pc = "project" /\ history' = history \cup {t} /\ recorded' = recorded
    BY DEF ProjectTransactionRecorded
<1>2. PICK S \in SUBSET Missable(es, f.absent) :
          /\ Applicable(Missing(es, S), balances)
          /\ balances' = [a \in DOMAIN balances |->
                            balances[a] + NetUpTo(Missing(es, S), Len(es), a)]
          /\ missed' = missed \cup {<<t, k>> : k \in S}
    BY DEF ProjectTransactionRecorded
<1> DEFINE ms == Missing(es, S)
           e == [k \in DOMAIN ms |-> Delta(ms[k])]
           net == [a \in D |-> NetUpTo(ms, Len(es), a)]
           on == [k \in DOMAIN ms |-> ms[k].account]
<1>3. es \in Seq(Entry) /\ Recordable(es)
    BY <1>1, FrameFields DEF IInv, TypeOK, HandlersGrounded, FrameOK
<1>4. S \in SUBSET DOMAIN es
    BY DEF Missable
<1>5. ms \in Seq(Entry) /\ Len(ms) = Len(es) /\ DOMAIN ms = DOMAIN es
    BY ZenonT(30), <1>3, MissingType DEF Missing
<1>6. MissedOn(AccountId)' =
          MissedOn(AccountId) + SumFunctionOnSet(d, {k \in S : es[k].account \in AccountId})
    <2>1. \A A : MissedOn(A)' =
              MissedOn(A) + SumFunctionOnSet(d, {k \in S : es[k].account \in A})
        BY ZenonT(30), <1>1, <1>2, <1>4, ProjectionSums
    <2> QED BY Zenon, <2>1
<1>7. {k \in S : es[k].account \in AccountId} = DOMAIN es \cap S
    <2>1. \A k \in DOMAIN ms : ms[k].account \in D
        BY <1>2 DEF Applicable
    <2>2. \A k \in DOMAIN es : ms[k].account = es[k].account
        BY <1>3, Positions DEF Missing, Entry
    <2>3. D \subseteq AccountId
        BY DEF IInv, TypeOK
    <2> HIDE DEF ms
    <2> QED BY <1>4, <1>5, <2>1, <2>2, <2>3
<1>8. SumFunctionOnSet(net, D) = SumFunctionOnSet(e, DOMAIN es)
    <2>1. \A k \in DOMAIN ms : on[k] \in D
        BY <1>2 DEF Applicable
    <2>2. ASSUME NEW a \in D
          PROVE  net[a] = SumFunctionOnSet(e, {k \in DOMAIN ms : on[k] = a})
        <3>1. {k \in 1..Len(es) : ms[k].account = a} = {k \in DOMAIN ms : on[k] = a}
            <4>1. DOMAIN ms = 1..Len(es)
                BY <1>3, <1>5, Positions
            <4> HIDE DEF ms
            <4> QED BY <4>1
        <3>2. net[a] = SumFunctionOnSet(e, {k \in 1..Len(es) : ms[k].account = a})
            BY DEF NetUpTo
        <3> HIDE DEF net, e, on, ms
        <3> QED BY ZenonT(30), <3>1, <3>2
    <2>3. /\ IsFiniteSet(D) /\ IsFiniteSet(DOMAIN ms)
          /\ \A k \in DOMAIN ms : e[k] \in Int
        BY <1>5, Positions DEF RInv
    <2> HIDE DEF net, e, on, ms
    <2> DEFINE K == DOMAIN ms
               F == [a \in D |-> {k \in K : on[k] = a}]
    <2>4. SumFunctionOnSet(net, D) = SumFunctionOnSet(e, K)
        <3>1. IsFiniteSet(D)
            BY <2>3
        <3>2. IsFiniteSet(K)
            BY <2>3
        <3>3. \A k \in K : e[k] \in Int
            BY <2>3
        <3>4. \A k \in K : on[k] \in D
            BY <2>1
        <3>5. \A a \in D : net[a] = SumFunctionOnSet(e, F[a])
            BY <2>2
        <3>6. \A a \in D : \A k : k \in F[a] <=> k \in K /\ on[k] = a
            OBVIOUS
        <3> HIDE DEF K, D, F
        <3>7. ClassSums(e, net, on, F, K, D)
            BY ZenonT(30), <3>1, <3>2, <3>3, <3>4, <3>5, <3>6 DEF ClassSums
        <3> QED BY SMTT(30), <3>7, SumFibres
    <2> QED BY <1>5, <2>4
<1>9. SumFunctionOnSet(d, DOMAIN es) =
          SumFunctionOnSet(e, DOMAIN es) + SumFunctionOnSet(d, DOMAIN es \cap S)
    BY ZenonT(60), <1>3, <1>4, MissingSum
<1>10. Wrap(SumFunctionOnSet(d, DOMAIN es)) = 0
    BY <1>3, BalancedNet
<1>11. SumFunctionOnSet(balances', D) = SumFunctionOnSet(balances, D) + SumFunctionOnSet(net, D)
    <2>1. \A a \in D : balances[a] \in Int /\ net[a] \in Int
                           /\ balances'[a] = balances[a] + net[a]
        <3>1. Len(es) \in 0..Len(ms)
            BY <1>3, <1>5, Positions
        <3>2. \A a \in D : net[a] \in Int
            BY <1>5, <3>1, NetType
        <3>3. \A a \in D : balances[a] \in Int
            BY MoneyAssumption DEF IInv, TypeOK, Int64
        <3> QED BY <1>2, <3>2, <3>3
    <2>2. IsFiniteSet(D)
        BY DEF RInv
    <2> HIDE DEF net
    <2> QED BY <2>1, <2>2, SumPlus
<1>12. /\ SumFunction(balances)' = SumFunctionOnSet(balances', D)
       /\ SumFunction(balances) = SumFunctionOnSet(balances, D)
    BY <1>2 DEF SumFunction
<1>13. PICK x \in Int, y \in Int, u \in Int, v \in Int :
           /\ x = SumFunctionOnSet(balances, D) /\ y = MissedOn(AccountId)
           /\ u = SumFunctionOnSet(e, DOMAIN es) /\ v = SumFunctionOnSet(d, DOMAIN es \cap S)
    <2>1. \A a \in D : balances[a] \in Int
        BY MoneyAssumption DEF IInv, TypeOK, Int64
    <2>2. IsFiniteSet(D) /\ IsFiniteSet(DOMAIN es) /\ IsFiniteSet(DOMAIN es \cap S)
        BY <1>3, Positions, FS_Subset DEF RInv
    <2>3. (\A k \in DOMAIN es : e[k] \in Int) /\ (\A k \in DOMAIN es : d[k] \in Int)
        BY <1>3, <1>5, Positions
    <2> HIDE DEF e, d
    <2>4. SumFunctionOnSet(balances, D) \in Int
        BY <2>1, <2>2, SumType
    <2>5. SumFunctionOnSet(e, DOMAIN es) \in Int
        BY <2>2, <2>3, SumType
    <2>6. SumFunctionOnSet(d, DOMAIN es \cap S) \in Int
        BY <2>2, <2>3, SumType
    <2> QED BY <2>4, <2>5, <2>6, ReadModelSums
<1> HIDE DEF d, e, net, ms, on, D, es
<1>14. /\ SumFunction(balances)' = x + u
       /\ MissedOn(AccountId)' = y + v
    BY Zenon, <1>6, <1>7, <1>8, <1>11, <1>12, <1>13
<1>15. Wrap(x + y) = 0 /\ Wrap(u + v) = 0
    BY Zenon, <1>9, <1>10, <1>12, <1>13 DEF ReadModelConserved
<1>16. Wrap((x + u) + (y + v)) = 0
    <2>1. (x + u) + (y + v) = (x + y) + (u + v) /\ x + y \in Int /\ u + v \in Int
        OBVIOUS
    <2>2. Wrap((x + y) + (u + v)) = Wrap(Wrap(x + y) + (u + v))
        BY <2>1, WrapAdd
    <2>3. 0 + (u + v) = u + v
        BY <2>1
    <2> QED BY Zenon, <1>15, <2>1, <2>2, <2>3
<1>17. Wrap(SumFunction(balances)' + MissedOn(AccountId)') = 0
    BY Zenon, <1>14, <1>16
<1> QED BY <1>17 DEF ReadModelConserved

\* Nothing is in the read model at the start.
LEMMA ReadModelInit ==
    ASSUME Init
    PROVE  RInv /\ ReadModelIsProjection /\ ReadModelConserved
<1>1. IsFiniteSet({}) /\ IsFiniteSet(DOMAIN balances) /\ \A a \in DOMAIN balances : balances[a] = 0
    BY FS_EmptySet, FiniteAssumption DEF Init
<1>2. \A p \in Proc : h[p].pc # "project"
    BY DEF Init, Idle
<1>3. RInv
    BY <1>1, <1>2 DEF RInv, Init
<1>4. (\A a : Replay(history, a) = 0) /\ \A A : MissedOn(A) = 0
    <2>1. \A f : SumFunctionOnSet(f, {}) = 0
        BY SumEmpty
    <2>2. history = {} /\ \A A : {m \in missed : recorded[m[1]][m[2]].account \in A} = {}
        BY DEF Init
    <2> QED BY ZenonT(30), <2>1, <2>2 DEF Replay, MissedOn
<1>5. ReadModelIsProjection
    BY <1>1, <1>4 DEF ReadModelIsProjection
<1>6. SumFunction(balances) = 0
    BY <1>1, SumZero DEF SumFunction
<1>7. Wrap(0) = 0
    BY MoneyAssumption, WrapExact DEF Int64
<1> QED BY <1>3, <1>4, <1>5, <1>6, <1>7 DEF ReadModelConserved

\* The steps of one handler that write nothing to the read model.
LEMMA ReadModelUntouched ==
    ASSUME IInv, RInv, NEW p \in Proc,
           \/ Handle(p) \/ Continue(p) \/ DbError(p) \/ LostAck(p)
           \/ Step(p) /\ ~ProjectAccountOpened(p) /\ ~ProjectTransactionRecorded(p)
    PROVE  /\ RInv'
           /\ ReadModelIsProjection => ReadModelIsProjection'
           /\ ReadModelConserved => ReadModelConserved'
<1> DEFINE f == h[p]
<1>1. f \in Frame
    BY DEF IInv, TypeOK
<1>2. CASE \/ Handle(p) \/ Continue(p)
           \/ SystemAccountFound(p) \/ SystemAccountMissing(p) \/ AppendOpened(p)
           \/ ProjectionSkipped(p)
    <2>1. PICK g : h' = [h EXCEPT ![p] = g] /\ Quiet(g)
        BY <1>2, QuietStep
    <2>2. LogKept /\ UNCHANGED <<balances, history, missed>>
        BY <1>2, QuietStep, QuietReadModel DEF LogKept
    <2>3. g.pc # "project"
        BY <2>1 DEF Quiet
    <2> QED BY ZenonT(30), <2>1, <2>2, <2>3, ReadModelQuiet
<1>3. CASE FindRejected(p) \/ DbError(p) \/ LostAck(p)
    <2>1. PICK g : h' = [h EXCEPT ![p] = g] /\ g.pc \in {"opened", "recorded"}
        BY <1>3, FailedCall
    <2>2. LogKept /\ UNCHANGED <<balances, history, missed>>
        BY <1>3, FailedCall, WritesKeepLog
    <2> QED BY ZenonT(30), <2>1, <2>2, ReadModelQuiet
<1>4. CASE SaveNewAccount(p) \/ FindByID(p) \/ SaveAccount(p)
    <2>1. \E g : h' = [h EXCEPT ![p] = g] /\ g.pc # "project"
        <3>1. CASE SaveNewAccount(p)
            <4>1. PICK a : h' = [h EXCEPT ![p] = [f EXCEPT !.pc = "open_append", !.aid = a]]
                BY ZenonT(30), <3>1 DEF SaveNewAccount
            <4>2. [f EXCEPT !.pc = "open_append", !.aid = a].pc # "project"
                BY <1>1 DEF Frame
            <4> QED BY ZenonT(30), <4>1, <4>2
        <3>2. CASE FindByID(p)
            <4>1. PICK a : h' = [h EXCEPT ![p] = [f EXCEPT !.pc = "save", !.acc = a]]
                BY ZenonT(30), <3>2 DEF FindByID
            <4>2. [f EXCEPT !.pc = "save", !.acc = a].pc # "project"
                BY <1>1 DEF Frame
            <4> QED BY ZenonT(30), <4>1, <4>2
        <3>3. CASE SaveAccount(p)
            <4>1. PICK c : c = IF f.k = Len(f.entries) THEN "append" ELSE "find"
                OBVIOUS
            <4>2. h' = [h EXCEPT ![p] = [f EXCEPT !.pc = c, !.k = f.k + 1, !.acc = None]]
                BY Zenon, <3>3, <4>1 DEF SaveAccount
            <4>3. [f EXCEPT !.pc = c, !.k = f.k + 1, !.acc = None].pc # "project"
                BY <1>1, <4>1 DEF Frame
            <4> QED BY ZenonT(30), <4>2, <4>3
        <3> QED BY <1>4, <3>1, <3>2, <3>3
    <2>2. LogKept /\ UNCHANGED <<balances, history, missed>>
        BY ZenonT(30), <1>4, WritesKeepLog DEF SaveNewAccount, InsertAccount, FindByID, SaveAccount,
                                   UpdateAccount, tables
    <2> QED BY ZenonT(30), <2>1, <2>2, ReadModelQuiet
<1>5. CASE AppendRecorded(p)
    <2>1. \E g : h' = [h EXCEPT ![p] = g] /\ g.tx \notin DOMAIN recorded
        <3>1. PICK t, A : /\ t \notin DOMAIN recorded
                          /\ h' = [h EXCEPT ![p] =
                                     [f EXCEPT !.pc = "project", !.tx = t, !.absent = A]]
            BY ZenonT(30), <1>5 DEF AppendRecorded, InsertRecorded
        <3>2. [f EXCEPT !.pc = "project", !.tx = t, !.absent = A].tx = t
            BY <1>1 DEF Frame
        <3> QED BY ZenonT(30), <3>1, <3>2
    <2>2. LogKept /\ UNCHANGED <<balances, history, missed>>
        BY ZenonT(30), <1>5, WritesKeepLog DEF AppendRecorded, InsertRecorded
    <2> QED BY ZenonT(30), <2>1, <2>2, ReadModelQuiet
<1> QED BY <1>2, <1>3, <1>4, <1>5 DEF Step

\* A restart and a stuttering step leave the tables.
LEMMA ReadModelKept ==
    ASSUME IInv, RInv, Crash \/ UNCHANGED vars
    PROVE  /\ RInv'
           /\ ReadModelIsProjection => ReadModelIsProjection'
           /\ ReadModelConserved => ReadModelConserved'
<1>1. UNCHANGED <<balances, history, missed, recorded>>
    BY DEF Crash, vars, tables
<1>2. /\ \A a : Replay(history, a)' = Replay(history, a)
      /\ \A A : MissedOn(A)' = MissedOn(A)
    BY <1>1 DEF Replay, MissedOn
<1>3. RInv'
    <2>1. CASE Crash
        BY <1>1, <2>1 DEF RInv, Crash, Idle
    <2>2. CASE UNCHANGED vars
        BY <1>1, <2>2 DEF RInv, vars
    <2> QED BY <2>1, <2>2
<1> QED BY <1>1, <1>2, <1>3 DEF ReadModelIsProjection, ReadModelConserved

\* Every balance the API shows is exactly the sum over the transactions in its
\* history, less the entries that raced with the insertion of the row: for any
\* number of handlers and accounts, any interleaving and any failures.
THEOREM ReadModelStaysProjection == Spec => []ReadModelIsProjection
<1> DEFINE PInv == RInv /\ ReadModelIsProjection
<1>1. Init => PInv
    BY ReadModelInit
<1>2. IInv /\ PInv /\ [Next]_vars => PInv'
    <2> SUFFICES ASSUME IInv, PInv, [Next]_vars PROVE PInv'
        OBVIOUS
    <2>1. ASSUME NEW p \in Proc,
                 Handle(p) \/ Step(p) \/ Continue(p) \/ DbError(p) \/ LostAck(p)
          PROVE  PInv'
        <3>1. CASE ProjectAccountOpened(p)
            BY <3>1, OpenRow
        <3>2. CASE ProjectTransactionRecorded(p)
            BY <3>2, ProjectRow
        <3>3. CASE ~ProjectAccountOpened(p) /\ ~ProjectTransactionRecorded(p)
            BY <2>1, <3>3, ReadModelUntouched
        <3> QED BY <3>1, <3>2, <3>3
    <2>2. ASSUME Crash \/ UNCHANGED vars PROVE PInv'
        BY <2>2, ReadModelKept
    <2> QED BY <2>1, <2>2 DEF Next, Finished
<1>3. PInv => ReadModelIsProjection
    OBVIOUS
<1> HIDE DEF PInv
<1> QED BY <1>1, <1>2, <1>3, Invariance, PTL DEF Spec

\* The balances the API shows, with those missed entries, sum to zero in every
\* state: projections are all or nothing and only balanced transactions get in.
\* For entries that are DEBIT or CREDIT, which the transaction endpoint does
\* not check.
THEOREM ReadModelStaysConserved ==
    ASSUME EntryType \subseteq {"DEBIT", "CREDIT"}
    PROVE  Spec => []ReadModelConserved
<1> DEFINE CInv == RInv /\ ReadModelConserved
<1>1. Init => CInv
    BY ReadModelInit
<1>2. IInv /\ CInv /\ [Next]_vars => CInv'
    <2> SUFFICES ASSUME IInv, CInv, [Next]_vars PROVE CInv'
        OBVIOUS
    <2>1. ASSUME NEW p \in Proc,
                 Handle(p) \/ Step(p) \/ Continue(p) \/ DbError(p) \/ LostAck(p)
          PROVE  CInv'
        <3>1. CASE ProjectAccountOpened(p)
            BY <3>1, OpenRow
        <3>2. CASE ProjectTransactionRecorded(p)
            BY <3>2, ProjectRow, ProjectConserves
        <3>3. CASE ~ProjectAccountOpened(p) /\ ~ProjectTransactionRecorded(p)
            BY <2>1, <3>3, ReadModelUntouched
        <3> QED BY <3>1, <3>2, <3>3
    <2>2. ASSUME Crash \/ UNCHANGED vars PROVE CInv'
        BY <2>2, ReadModelKept
    <2> QED BY <2>1, <2>2 DEF Next, Finished
<1>3. CInv => ReadModelConserved
    OBVIOUS
<1> HIDE DEF CInv
<1> QED BY <1>1, <1>2, <1>3, Invariance, PTL DEF Spec
=============================================================================

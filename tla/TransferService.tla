-------------------------- MODULE TransferService --------------------------
(***************************************************************************)
(* TransferService.Execute (internal/app/transfer_service.go): the saga    *)
(* that moves money in two recorded transactions through the suspense      *)
(* account and compensates with a third, and the Transfer aggregate it     *)
(* drives (internal/domain/transfer/transfer.go).  It runs in the handlers *)
(* of LedgerService and calls RecordTransaction step by step, so transfers *)
(* interleave with each other and with deposits.                           *)
(***************************************************************************)
EXTENDS LedgerService

\* None marks a leg without an event.
ASSUME TransferAssumption == None \notin TxId

VARIABLES
    saga,           \* the Transfer a handler is executing, or None
    past,           \* history variable: the transfers no handler executes any
                    \* more, in the state they were left
    lost            \* history variable: the events whose append was committed
                    \* and reported as failed

tvars == <<vars, saga, past, lost>>

SagaState == {"INITIATED", "DEBITED", "COMPLETED", "FAILED", "COMPENSATED"}

\* The Transfer aggregate, the leg Execute is at (1 debits the source, 2
\* credits the destination, 3 compensates), and for each leg the event it
\* recorded.  The saga lives in memory only.
Transfer ==
    [cmd : TransferCmd, state : SagaState, leg : 1..3,
     tx : [1..3 -> TxId \cup {None}]]

NewTransferOK(r) == r.currency \in Currency /\ r.from # r.to

NewTransfer(r) ==
    [cmd |-> r, state |-> "INITIATED", leg |-> 1, tx |-> [l \in 1..3 |-> None]]

\* MarkDebited and MarkCompleted check the state they leave; MarkFailed and
\* MarkCompensated do not.  Execute returns their error, but never meets it: a
\* saga that failed the check would be stuck, and TLC report a deadlock.
MarkDebitedOK(s) == s.state = "INITIATED"
MarkDebited(s) == [s EXCEPT !.state = "DEBITED"]
MarkCompletedOK(s) == s.state = "DEBITED"
MarkCompleted(s) == [s EXCEPT !.state = "COMPLETED"]
MarkFailed(s) == [s EXCEPT !.state = "FAILED"]

\* Mutant: a state that is not one of the constants.
MarkCompensated_Typo(s) == [s EXCEPT !.state = "REVERSED"]

MarkCompensated(s) == [s EXCEPT !.state = "COMPENSATED"]

\* Mutant: the compensation repeats the debit.
LegEntries_Repeat(r, leg, suspense) ==
    LET E(account, type) ==
            [account |-> account, amount |-> r.amount,
             currency |-> r.currency, type |-> type]
    IN  CASE leg \in {1, 3} -> <<E(r.from, "DEBIT"), E(suspense, "CREDIT")>>
          [] leg = 2 -> <<E(suspense, "DEBIT"), E(r.to, "CREDIT")>>

\* The two entries of a leg, given the suspense account's id.
LegEntries(r, leg, suspense) ==
    LET E(account, type) ==
            [account |-> account, amount |-> r.amount,
             currency |-> r.currency, type |-> type]
    IN  CASE leg = 1 -> <<E(r.from, "DEBIT"), E(suspense, "CREDIT")>>
          [] leg = 2 -> <<E(suspense, "DEBIT"), E(r.to, "CREDIT")>>
          [] leg = 3 -> <<E(suspense, "DEBIT"), E(r.from, "CREDIT")>>

\* A leg begins with suspenseAccountID, evaluated for the entries.
suspenseAccountID(f, r) ==
    getOrCreateSystemAccount(f, SuspenseName[r.currency], "LIABILITY", r.currency)

-----------------------------------------------------------------------------

HandleTransfer(p) ==
    \E r \in Requests :
        /\ r.kind = "transfer"
        /\ NewTransferOK(r)
        /\ Accept(p, suspenseAccountID([Idle EXCEPT !.req = r], r))
        /\ saga' = [saga EXCEPT ![p] = NewTransfer(r)]
        /\ UNCHANGED <<past, lost>>

\* NewMoney or NewTransfer fails: Execute returns a nil saga with the error,
\* the handler dereferences it, and the Recoverer middleware answers 500.
RejectTransfer(p) ==
    \E r \in Requests :
        /\ r.kind = "transfer"
        /\ ~NewTransferOK(r)
        /\ Accept(p, Idle)
        /\ UNCHANGED <<saga, past, lost>>

\* RecordTransaction for the current leg.  When suspenseAccountID failed its
\* error is dropped and the zero AccountID stands in the entry.
RecordLeg(p) ==
    /\ h[p].pc = "opened" /\ saga[p] # None
    /\ h' = [h EXCEPT ![p] = RecordTransaction(@,
                 LegEntries(saga[p].cmd, saga[p].leg,
                            IF @.ret = "ok" THEN @.aid ELSE NoAccount))]
    /\ UNCHANGED <<tables, sent, failed, acked, exposed, saga, past, lost>>

\* The saga with the outcome of the leg that has just returned.
Returned(p) == [saga[p] EXCEPT !.tx[saga[p].leg] = h[p].tx]

LegReturned(p, leg, ret) ==
    /\ h[p].pc = "recorded" /\ saga[p] # None
    /\ saga[p].leg = leg
    /\ h[p].ret = ret
    /\ UNCHANGED <<tables, sent, failed, acked, exposed, lost>>

NextLeg(p, s, leg) ==
    /\ saga' = [saga EXCEPT ![p] = [s EXCEPT !.leg = leg]]
    /\ h' = [h EXCEPT ![p] = suspenseAccountID(@, s.cmd)]
    /\ UNCHANGED past

\* Execute returns the saga and the handler answers.
EndTransfer(p, s) ==
    /\ past' = past \cup {s}
    /\ saga' = [saga EXCEPT ![p] = None]
    /\ h' = [h EXCEPT ![p] = Idle]

DebitFailed(p) ==
    LegReturned(p, 1, "err") /\ EndTransfer(p, MarkFailed(Returned(p)))

DebitDone(p) ==
    /\ LegReturned(p, 1, "ok")
    /\ MarkDebitedOK(saga[p])
    /\ NextLeg(p, MarkDebited(Returned(p)), 2)

CreditDone(p) ==
    /\ LegReturned(p, 2, "ok")
    /\ MarkCompletedOK(saga[p])
    /\ EndTransfer(p, MarkCompleted(Returned(p)))

\* Mutant: no compensation.
CreditFailed_Ends(p) ==
    LegReturned(p, 2, "err") /\ EndTransfer(p, MarkFailed(Returned(p)))

CreditFailed(p) ==
    LegReturned(p, 2, "err") /\ NextLeg(p, MarkFailed(Returned(p)), 3)

CompensationDone(p) ==
    LegReturned(p, 3, "ok") /\ EndTransfer(p, MarkCompensated(Returned(p)))

\* Mutant: marked compensated whatever RecordTransaction returned.
CompensationFailed_Marked(p) ==
    LegReturned(p, 3, "err") /\ EndTransfer(p, MarkCompensated(Returned(p)))

\* "CRITICAL: compensation failed": the saga stays FAILED.
CompensationFailed(p) ==
    LegReturned(p, 3, "err") /\ EndTransfer(p, Returned(p))

TransferStep(p) ==
    \/ RecordLeg(p) \/ DebitFailed(p) \/ DebitDone(p)
    \/ CreditDone(p) \/ CreditFailed(p)
    \/ CompensationDone(p) \/ CompensationFailed(p)

\* The events a transfer in flight has in the log, the leg being recorded
\* included: its event exists before RecordTransaction returns.
Current(p) ==
    IF h[p].pc \in RecordPC \cup {"recorded"} THEN Returned(p) ELSE saga[p]

InFlight == {Current(p) : p \in {q \in Proc : saga[q] # None}}

\* A restart loses the sagas with the handlers that run them.
CrashTransfers ==
    /\ Crash
    /\ saga' = [p \in Proc |-> None]
    /\ past' = past \cup InFlight
    /\ UNCHANGED lost

\* A lost answer, with the event it may have been about noted.
LostAckLeg(p) ==
    /\ LostAck(p)
    /\ lost' = lost \cup (DOMAIN recorded' \ DOMAIN recorded)
    /\ UNCHANGED <<saga, past>>

TInit ==
    /\ Init
    /\ saga = [p \in Proc |-> None]
    /\ past = {}
    /\ lost = {}

TNext ==
    \/ \E p \in Proc :
           \/ /\ Handle(p) \/ Step(p) \/ Continue(p) \/ DbError(p)
              /\ UNCHANGED <<saga, past, lost>>
           \/ LostAckLeg(p)
           \/ HandleTransfer(p) \/ RejectTransfer(p) \/ TransferStep(p)
    \/ CrashTransfers
    \/ Finished /\ UNCHANGED <<saga, past, lost>>

TSpec == TInit /\ [][TNext]_tvars

\* A goroutine that can go on does: the Go scheduler runs every runnable
\* goroutine, and storage calls return.
Run(p) ==
    \/ (Step(p) \/ Continue(p)) /\ UNCHANGED <<saga, past, lost>>
    \/ TransferStep(p)

FairTSpec == TSpec /\ \A p \in Proc : WF_tvars(Run(p))

-----------------------------------------------------------------------------
(* Properties.                                                             *)

TTypeOK ==
    /\ TypeOK
    /\ saga \in [Proc -> Transfer \cup {None}]
    /\ past \subseteq Transfer
    /\ lost \subseteq TxId

AllTransfers == past \cup InFlight

Leg(s, l) == s.tx[l] # None

\* A transfer's state tells what the event log holds of it, also for transfers
\* whose handler died: COMPLETED has the two legs and no compensation,
\* COMPENSATED has the debit and its reversal, DEBITED has the debit, and a leg
\* in the log moved this transfer's amount between its own accounts and a
\* suspense account.
SagaMatchesLog ==
    \A s \in AllTransfers :
        /\ s.state = "COMPLETED" => Leg(s, 1) /\ Leg(s, 2) /\ ~Leg(s, 3)
        /\ s.state = "COMPENSATED" => Leg(s, 1) /\ Leg(s, 3)
        /\ s.state = "DEBITED" => Leg(s, 1) /\ ~Leg(s, 3)
        /\ s.state = "INITIATED" => ~Leg(s, 2) /\ ~Leg(s, 3)
        /\ \A l \in 1..3 : Leg(s, l) =>
               /\ s.tx[l] \in DOMAIN recorded
               /\ \E a \in DOMAIN accounts :
                      /\ accounts[a].name = SuspenseName[s.cmd.currency]
                      /\ recorded[s.tx[l]] = LegEntries(s.cmd, l, a)

\* A transfer has both its delivery and its compensation in the log only when
\* the delivery was committed and its answer lost: no failure of another kind,
\* and no interleaving, pays the destination and the source both.
NeverPaidTwice ==
    \A s \in AllTransfers : Leg(s, 2) /\ Leg(s, 3) => s.tx[2] \in lost

\* In the event log the suspense accounts hold exactly what each transfer put
\* there and neither delivered nor took back, whether a handler still runs it
\* or it was lost in a crash: log-level money never disappears, it is stuck
\* where an operator can find it.  (A transfer that a lost answer made both
\* deliver and compensate counts negative.)
InSuspense(s) ==
    s.cmd.amount * ((IF Leg(s, 1) THEN 1 ELSE 0) - Cardinality({l \in 2..3 : Leg(s, l)}))

SuspenseHoldsInFlight ==
    SumFunctionOnSet([a \in DOMAIN accounts |-> Replay(DOMAIN recorded, a)],
                     {a \in DOMAIN accounts :
                          \E c \in CurrencyCode : accounts[a].name = SuspenseName[c]})
    = SumFunctionOnSet([s \in AllTransfers |-> InSuspense(s)], AllTransfers)


\* Money that a transfer has put in the suspense account leaves it again, to
\* the destination or back to the source: however transfers interleave, no
\* debited transfer stays undelivered and uncompensated, unless a storage call
\* failed or the process was restarted, and even then its handler ends.
SuspenseDrains ==
    (\E s \in InFlight : Leg(s, 1))
    ~> (\A s \in AllTransfers : Leg(s, 1) =>
            s \in past /\ (Leg(s, 2) \/ Leg(s, 3) \/ failed > 0))

-----------------------------------------------------------------------------
(* What the repository's documents say of the program.                     *)

\* README.md:96 "Money is never created or destroyed during transfers": between
\* requests the balances of the write model sum to zero, as they do initially.
MoneyConserved ==
    AllIdle => Wrap(SumFunction([a \in DOMAIN accounts |-> accounts[a].balance])) = 0
=============================================================================

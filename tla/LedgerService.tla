--------------------------- MODULE LedgerService ---------------------------
(***************************************************************************)
(* LedgerService (internal/app/ledger_service.go) with the Postgres tables *)
(* behind it.  Each HTTP request runs in a goroutine of its own (a         *)
(* handler); a handler takes one step per storage call, because every      *)
(* pool.Exec and pool.QueryRow is its own transaction and another          *)
(* handler's call may come between any two.  AppendWithOutbox and          *)
(* ProjectTransactionRecorded open an explicit transaction and are one     *)
(* step each.                                                              *)
(*                                                                         *)
(* The events table is kept as two variables: opened, the accounts with an *)
(* account.opened event, and recorded, the entries of each                 *)
(* transaction.recorded event.  Both event kinds are the only event of     *)
(* their aggregate (expectedVersion is always 0 and the id is fresh), so   *)
(* the aggregate id identifies the event.  transactions.Save writes to an  *)
(* in-memory map that nothing reads, and is left out.                      *)
(***************************************************************************)
EXTENDS Account, Projection

CONSTANTS
    TypeCode,       \* account type strings a request may carry
    Proc,           \* handlers that may run at the same time
    TxId,           \* identifiers GenerateTransactionID may return, numbered
    EquityName,     \* currency -> "System Equity (%s)"
    SuspenseName,   \* currency -> "System Suspense (%s)"
    Seed,           \* accounts opened before the behaviour starts: id -> row
    Requests,       \* the commands clients may send
    MaxRequests,    \* bound: how many requests are sent
    Faults,         \* which failures may happen: "db", "lost_ack", "crash"
    MaxFaults,      \* bound: how many of them happen
    None            \* no value

\* The commands of internal/app/commands.go, and DepositCmd for the arguments
\* of Deposit.  AccountType is the request's string: OpenAccount treats every
\* string but "EQUITY" and "LIABILITY" as an asset.
OpenAccountCmd ==
    [kind : {"open"}, name : Name, type : TypeCode, currency : CurrencyCode]
RecordTransactionCmd == [kind : {"record"}, entries : Seq(Entry)]
DepositCmd ==
    [kind : {"deposit"}, account : AccountId \cup {NoAccount},
     amount : Int64, currency : CurrencyCode]
TransferCmd ==
    [kind : {"transfer"}, from : AccountId \cup {NoAccount},
     to : AccountId \cup {NoAccount}, amount : Int64, currency : CurrencyCode]

Command == OpenAccountCmd \cup RecordTransactionCmd \cup DepositCmd \cup TransferCmd

ASSUME LedgerAssumption ==
    /\ AccountType \subseteq TypeCode
    /\ Requests \subseteq Command
    /\ MaxRequests \in Nat /\ MaxFaults \in Nat
    /\ TxId \subseteq Nat
    /\ EquityName \in [CurrencyCode -> Name]
    /\ SuspenseName \in [CurrencyCode -> Name]
    /\ DOMAIN Seed \subseteq AccountId
    /\ \A a \in DOMAIN Seed : Seed[a] \in AccountRow /\ Seed[a].balance = 0
    /\ {"DEBIT", "CREDIT"} \subseteq EntryType

\* Sums over the handlers and over the rows of the tables are finite.
ASSUME FiniteAssumption == IsFiniteSet(Proc) /\ IsFiniteSet(DOMAIN Seed)

VARIABLES
    accounts,       \* table accounts, the write model: id -> row
    opened,         \* events of type account.opened
    recorded,       \* events of type transaction.recorded: id -> entries
    balances,       \* table account_balances, the read model: id -> balance
    history,        \* transactions with rows in transaction_history
    missed,         \* history variable: entries projected onto no row
    h,              \* the frame of each handler
    sent,           \* requests accepted so far
    failed,         \* failures so far
    acked,          \* history variable: the successful responses
    exposed         \* history variable: see DriftIsExplained

tables == <<accounts, opened, recorded, balances, history, missed>>
vars == <<tables, h, sent, failed, acked, exposed>>

-----------------------------------------------------------------------------
(* Storage primitives.                                                     *)

\* INSERT ... ON CONFLICT DO UPDATE: blind to what the row held before.
Upsert(t, key, row) ==
    [x \in DOMAIN t \cup {key} |-> IF x = key THEN row ELSE t[x]]

-----------------------------------------------------------------------------
(* A handler's frame: where it is (pc), the command it serves (req), the   *)
(* OpenAccountCmd of a nested OpenAccount (cmd), the account value it holds *)
(* in memory (acc), the account id OpenAccount returns (aid), the entries   *)
(* of the transaction it records, the next one to apply (k), the id of the  *)
(* event it appended (tx), the accounts that had no read-model row when its *)
(* projection began (absent), and what the last call returned (ret).        *)

Idle ==
    [pc |-> "idle", req |-> None, cmd |-> None, acc |-> None,
     aid |-> NoAccount, entries |-> <<>>, k |-> 0, tx |-> None,
     absent |-> {}, ret |-> "ok"]

OpenPC == {"sys_find", "open_save", "open_append", "open_project"}
RecordPC == {"find", "save", "append", "project"}
PC == {"idle", "opened", "recorded"} \cup OpenPC \cup RecordPC

Frame ==
    [pc : PC, req : Requests \cup {None}, cmd : OpenAccountCmd \cup {None},
     acc : AccountRow \cup {None}, aid : AccountId \cup {NoAccount},
     entries : Seq(Entry), k : Nat, tx : TxId \cup {None},
     absent : SUBSET (AccountId \cup {NoAccount}), ret : {"ok", "err"}]

\* The call in progress returns: to "opened" from OpenAccount and
\* getOrCreateSystemAccount, to "recorded" from RecordTransaction.
Return(f, r) ==
    [f EXCEPT !.pc = IF @ \in OpenPC THEN "opened" ELSE "recorded",
              !.acc = None, !.absent = {}, !.ret = r]

\* Mutant: the request's type string is taken as it is.
OpenAccount_AnyType(f, cmd) ==
    IF NewAccountOK(cmd.name, cmd.currency)
    THEN [f EXCEPT !.pc = "open_save", !.cmd = cmd,
                   !.acc = NewAccountWithType(cmd.name, cmd.type, cmd.currency)]
    ELSE [f EXCEPT !.pc = "opened", !.cmd = cmd, !.ret = "err"]

\* OpenAccount is entered with cmd.
OpenAccount(f, cmd) ==
    LET type == IF cmd.type \in {"EQUITY", "LIABILITY"} THEN cmd.type ELSE "ASSET"
    IN  IF NewAccountOK(cmd.name, cmd.currency)
        THEN [f EXCEPT !.pc = "open_save", !.cmd = cmd,
                       !.acc = NewAccountWithType(cmd.name, type, cmd.currency)]
        ELSE [f EXCEPT !.pc = "opened", !.cmd = cmd, !.ret = "err"]

\* getOrCreateSystemAccount is entered.
getOrCreateSystemAccount(f, name, type, currency) ==
    [f EXCEPT !.pc = "sys_find",
              !.cmd = [kind |-> "open", name |-> name, type |-> type,
                       currency |-> currency]]

\* RecordTransaction is entered with entries es.
RecordTransaction(f, es) ==
    LET ok == Recordable(es)
    IN  [f EXCEPT !.pc = IF ok THEN "find" ELSE "recorded",
                  !.ret = IF ok THEN "ok" ELSE "err",
                  !.entries = es, !.k = 1, !.tx = None]

-----------------------------------------------------------------------------
(* HTTP handlers: a request arrives.                                       *)

Accept(p, f) ==
    /\ h[p].pc = "idle"
    /\ sent < MaxRequests
    /\ sent' = sent + 1
    /\ h' = [h EXCEPT ![p] = f]
    /\ UNCHANGED <<tables, failed, acked, exposed>>

HandleOpenAccount(p) ==
    \E r \in Requests :
        /\ r.kind = "open"
        /\ Accept(p, OpenAccount([Idle EXCEPT !.req = r], r))

HandleRecordTransaction(p) ==
    \E r \in Requests :
        /\ r.kind = "record"
        /\ Accept(p, RecordTransaction([Idle EXCEPT !.req = r], r.entries))

HandleDeposit(p) ==
    \E r \in Requests :
        /\ r.kind = "deposit"
        /\ r.amount > 0
        /\ Accept(p, getOrCreateSystemAccount([Idle EXCEPT !.req = r],
                         EquityName[r.currency], "EQUITY", r.currency))

\* "amount must be positive": answered with 400 before the service is called.
RejectDeposit(p) ==
    \E r \in Requests : r.kind = "deposit" /\ r.amount <= 0 /\ Accept(p, Idle)

-----------------------------------------------------------------------------
(* getOrCreateSystemAccount and OpenAccount.                               *)

\* FindAll, then the first account of that name.  Accounts of equal name come
\* in no particular order.
SystemAccountFound(p) ==
    /\ h[p].pc = "sys_find"
    /\ \E a \in DOMAIN accounts :
           /\ accounts[a].name = h[p].cmd.name
           /\ h' = [h EXCEPT ![p] = Return([@ EXCEPT !.aid = a], "ok")]
    /\ UNCHANGED <<tables, sent, failed, acked, exposed>>

\* Mutant: the loop over the accounts does not return the match.
SystemAccountMissing_NoReturn(p) ==
    /\ h[p].pc = "sys_find"
    /\ h' = [h EXCEPT ![p] = OpenAccount(@, @.cmd)]
    /\ UNCHANGED <<tables, sent, failed, acked, exposed>>

\* FindAll without a match: the account is opened.
SystemAccountMissing(p) ==
    /\ h[p].pc = "sys_find"
    /\ \A a \in DOMAIN accounts : accounts[a].name # h[p].cmd.name
    /\ h' = [h EXCEPT ![p] = OpenAccount(@, @.cmd)]
    /\ UNCHANGED <<tables, sent, failed, acked, exposed>>

\* accounts.Save of the new account under its generated id.
InsertAccount(p, a) ==
    /\ h[p].pc = "open_save"
    /\ a \in AccountId \ DOMAIN accounts
    /\ accounts' = Upsert(accounts, a, h[p].acc)
    /\ UNCHANGED <<opened, recorded, balances, history, missed>>

SaveNewAccount(p) ==
    /\ \E a \in AccountId :
           /\ InsertAccount(p, a)
           /\ h' = [h EXCEPT ![p] = [@ EXCEPT !.pc = "open_append", !.aid = a]]
    /\ UNCHANGED <<sent, failed, acked, exposed>>

\* appendEvent of AccountOpenedEvent.
InsertOpened(p) ==
    /\ h[p].pc = "open_append"
    /\ opened' = opened \cup {h[p].aid}
    /\ UNCHANGED <<accounts, recorded, balances, history, missed>>

AppendOpened(p) ==
    /\ InsertOpened(p)
    /\ h' = [h EXCEPT ![p] = [@ EXCEPT !.pc = "open_project"]]
    /\ UNCHANGED <<sent, failed, acked, exposed>>

\* INSERT ... ON CONFLICT DO NOTHING.
ProjectAccountOpened(p) ==
    /\ h[p].pc = "open_project"
    /\ balances' = IF h[p].aid \in DOMAIN balances THEN balances
                   ELSE Upsert(balances, h[p].aid, 0)
    /\ h' = [h EXCEPT ![p] = Return(@, "ok")]
    /\ UNCHANGED <<accounts, opened, recorded, history, missed, sent, failed, acked,
                   exposed>>

-----------------------------------------------------------------------------
(* RecordTransaction.                                                      *)

\* The entry the handler is at, and the account it moves.
At(f) == f.entries[f.k]

\* Debit or Credit by entry type.  The switch has no default: an entry of any
\* other type leaves the account as it is and is no error.
ApplyOK(a, e) ==
    /\ e.type = "DEBIT" => DebitOK(a, e)
    /\ e.type = "CREDIT" => CreditOK(a, e)

\* Mutant: both entry types debit.
Apply_Debit(a, e) == IF e.type \in {"DEBIT", "CREDIT"} THEN Debit(a, e) ELSE a

Apply(a, e) ==
    CASE e.type = "DEBIT" -> Debit(a, e)
      [] e.type = "CREDIT" -> Credit(a, e)
      [] OTHER -> a

\* The accounts of the entries a handler has already saved, while the event
\* that would account for them is not recorded.
Saved(f) ==
    IF f.pc \in {"find", "save", "append"}
    THEN {f.entries[j].account : j \in 1..(f.k - 1)} ELSE {}

\* Another handler holds a copy of account a that it has yet to save.
Held(p, a) == \E q \in Proc \ {p} : h[q].pc = "save" /\ At(h[q]).account = a

\* FindByID, then the domain operation on the copy.
FindByID(p) ==
    LET e == At(h[p]) IN
    /\ h[p].pc = "find"
    /\ e.account \in DOMAIN accounts
    /\ ApplyOK(accounts[e.account], e)
    /\ h' = [h EXCEPT ![p] = [@ EXCEPT !.pc = "save",
                                   !.acc = Apply(accounts[e.account], e)]]
    /\ exposed' = IF Held(p, e.account) THEN exposed \cup {e.account} ELSE exposed
    /\ UNCHANGED <<tables, sent, failed, acked>>

\* Mutant: the error is shadowed and RecordTransaction returns nil.
FindRejected_Shadowed(p) ==
    LET e == At(h[p]) IN
    /\ h[p].pc = "find"
    /\ e.account \in DOMAIN accounts => ~ApplyOK(accounts[e.account], e)
    /\ h' = [h EXCEPT ![p] = Return(@, "ok")]
    /\ exposed' = exposed \cup Saved(h[p])
    /\ UNCHANGED <<tables, sent, failed, acked>>

\* The account does not exist, or the domain operation refuses the entry:
\* RecordTransaction returns with the earlier entries saved.
FindRejected(p) ==
    LET e == At(h[p]) IN
    /\ h[p].pc = "find"
    /\ e.account \in DOMAIN accounts => ~ApplyOK(accounts[e.account], e)
    /\ h' = [h EXCEPT ![p] = Return(@, "err")]
    /\ exposed' = exposed \cup Saved(h[p])
    /\ UNCHANGED <<tables, sent, failed, acked>>

\* accounts.Save: the balance computed from the copy overwrites the row's.
UpdateAccount(p) ==
    /\ h[p].pc = "save"
    /\ accounts' = Upsert(accounts, At(h[p]).account, h[p].acc)
    /\ UNCHANGED <<opened, recorded, balances, history, missed>>

SaveAccount(p) ==
    /\ UpdateAccount(p)
    /\ h' = [h EXCEPT ![p] =
              [@ EXCEPT !.pc = IF h[p].k = Len(h[p].entries) THEN "append" ELSE "find",
                        !.k = h[p].k + 1, !.acc = None]]
    /\ UNCHANGED <<sent, failed, acked, exposed>>

\* Mutant: the append replaces an event that has the same key.
InsertRecorded_Replace(p, t) ==
    /\ h[p].pc = "append"
    /\ recorded' = Upsert(recorded, t, h[p].entries)
    /\ UNCHANGED <<accounts, opened, balances, history, missed>>

\* appendEvent of TransactionRecordedEvent.  Transaction ids are opaque; the
\* model numbers them in the order their events are appended.
InsertRecorded(p, t) ==
    /\ h[p].pc = "append"
    /\ t \in TxId \ DOMAIN recorded
    /\ \A u \in TxId : u < t => u \in DOMAIN recorded
    /\ recorded' = Upsert(recorded, t, h[p].entries)
    /\ UNCHANGED <<accounts, opened, balances, history, missed>>

AppendRecorded(p) ==
    /\ \E t \in TxId :
           /\ InsertRecorded(p, t)
           /\ h' = [h EXCEPT ![p] =
                  [@ EXCEPT !.pc = "project", !.tx = t,
                            !.absent = {h[p].entries[k].account : k \in DOMAIN h[p].entries} \ DOMAIN balances]]
    /\ UNCHANGED <<sent, failed, acked, exposed>>

\* One database transaction over all entries: balances and history rows.
ProjectTransactionRecorded(p) ==
    LET es == h[p].entries IN
    /\ h[p].pc = "project"
    /\ \E S \in SUBSET Missable(es, h[p].absent) :
           /\ Applicable(Missing(es, S), balances)
           /\ balances' = [a \in DOMAIN balances |->
                             balances[a] + NetUpTo(Missing(es, S), Len(es), a)]
           /\ missed' = missed \cup {<<h[p].tx, k>> : k \in S}
    /\ history' = history \cup {h[p].tx}
    /\ h' = [h EXCEPT ![p] = Return(@, "ok")]
    /\ UNCHANGED <<accounts, opened, recorded, sent, failed, acked, exposed>>

\* The projection of p may fail: a read-model row is missing, BIGINT overflows,
\* or Postgres aborts it as a deadlock victim.
ProjectionFails(p) ==
    LET es == h[p].entries IN
    \/ \E S \in SUBSET Missable(es, h[p].absent) : ~Applicable(Missing(es, S), balances)
    \/ LockCycle([q \in {q \in Proc : h[q].pc = "project"} |-> h[q].entries], p)

\* Mutant: no transaction around the entries, so the first one stays applied.
ProjectionSkipped_NoRollback(p) ==
    LET es == h[p].entries IN
    /\ h[p].pc = "project"
    /\ ProjectionFails(p)
    /\ balances' = [a \in DOMAIN balances |-> Wrap(balances[a] + NetUpTo(es, 1, a))]
    /\ h' = [h EXCEPT ![p] = Return(@, "ok")]
    /\ UNCHANGED <<accounts, opened, recorded, history, missed, sent, failed, acked,
                   exposed>>

\* The projector's error is not looked at, so a projection that does not
\* happen does not stop the caller.
ProjectionSkipped(p) ==
    /\ h[p].pc = "project"
    /\ ProjectionFails(p)
    /\ h' = [h EXCEPT ![p] = Return(@, "ok")]
    /\ UNCHANGED <<tables, sent, failed, acked, exposed>>

-----------------------------------------------------------------------------
(* The callers go on with what the calls returned.                         *)

\* Deposit records its transaction once it has the equity account.
DepositRecord(p) ==
    LET r == h[p].req IN
    /\ h[p].pc = "opened" /\ r.kind = "deposit" /\ h[p].ret = "ok"
    /\ h' = [h EXCEPT ![p] = RecordTransaction(@,
                <<[account |-> @.aid, amount |-> r.amount,
                   currency |-> r.currency, type |-> "DEBIT"],
                  [account |-> r.account, amount |-> r.amount,
                   currency |-> r.currency, type |-> "CREDIT"]>>)]
    /\ UNCHANGED <<tables, sent, failed, acked, exposed>>

\* The response of a request that ends with OpenAccount or with
\* getOrCreateSystemAccount failing.
RespondOpened(p) ==
    /\ h[p].pc = "opened"
    /\ \/ h[p].req.kind = "open"
       \/ h[p].req.kind = "deposit" /\ h[p].ret = "err"
    /\ acked' = IF h[p].ret = "ok"
                THEN acked \cup {[kind |-> "open", account |-> h[p].aid]} ELSE acked
    /\ h' = [h EXCEPT ![p] = Idle]
    /\ UNCHANGED <<tables, sent, failed, exposed>>

\* The response of a request that ends with RecordTransaction.
RespondRecorded(p) ==
    /\ h[p].pc = "recorded"
    /\ h[p].req.kind \in {"record", "deposit"}
    /\ acked' = IF h[p].ret = "ok"
                THEN acked \cup {[kind |-> "record", tx |-> h[p].tx,
                                  entries |-> h[p].entries]} ELSE acked
    /\ h' = [h EXCEPT ![p] = Idle]
    /\ UNCHANGED <<tables, sent, failed, exposed>>

-----------------------------------------------------------------------------
(* Failures.                                                               *)

Fail(kind) == kind \in Faults /\ failed < MaxFaults /\ failed' = failed + 1

\* Mutants: the append's error is ignored as well; the projector's is returned.
DbError_AppendIgnored(p) ==
    /\ Fail("db")
    /\ h[p].pc \in OpenPC \cup RecordPC
    /\ h' = [h EXCEPT ![p] =
              Return(@, IF @.pc \in {"open_append", "append", "open_project", "project"}
                        THEN "ok" ELSE "err")]
    /\ exposed' = exposed \cup Saved(h[p])
    /\ UNCHANGED <<tables, sent, acked>>
DbError_ProjectReturned(p) ==
    /\ Fail("db")
    /\ h[p].pc \in OpenPC \cup RecordPC
    /\ h' = [h EXCEPT ![p] = Return(@, "err")]
    /\ exposed' = exposed \cup Saved(h[p])
    /\ UNCHANGED <<tables, sent, acked>>

\* A storage call fails without effect (connection lost, request context
\* cancelled): the call in progress returns the error, except that the
\* projector's is ignored.
DbError(p) ==
    /\ Fail("db")
    /\ h[p].pc \in OpenPC \cup RecordPC
    /\ h' = [h EXCEPT ![p] = Return(@, IF @.pc \in {"open_project", "project"}
                                       THEN "ok" ELSE "err")]
    /\ exposed' = exposed \cup Saved(h[p])
    /\ UNCHANGED <<tables, sent, acked>>

\* A write takes effect but the answer does not arrive (the connection drops
\* or the context is cancelled during the commit): the caller sees an error.
LostAck(p) ==
    /\ Fail("lost_ack")
    /\ \/ /\ (\E a \in AccountId : InsertAccount(p, a)) \/ InsertOpened(p)
          /\ h' = [h EXCEPT ![p] = Return(@, "err")]
          /\ UNCHANGED exposed
       \/ /\ UpdateAccount(p)
          /\ h' = [h EXCEPT ![p] = Return(@, "err")]
          /\ exposed' = exposed \cup Saved(h[p]) \cup {At(h[p]).account}
       \/ /\ \E t \in TxId : /\ InsertRecorded(p, t)
                             /\ h' = [h EXCEPT ![p] = Return([@ EXCEPT !.tx = t], "err")]
          /\ UNCHANGED exposed
    /\ UNCHANGED <<sent, acked>>

\* The process stops and is started again: every handler is gone, the tables
\* stay.  (main returns as soon as Shutdown is called, so a normal stop looks
\* the same to a request in flight.)
Crash ==
    /\ Fail("crash")
    /\ \E p \in Proc : h[p].pc # "idle"
    /\ h' = [p \in Proc |-> Idle]
    /\ exposed' = exposed \cup UNION {Saved(h[p]) : p \in Proc}
    /\ UNCHANGED <<tables, sent, acked>>

-----------------------------------------------------------------------------

Init ==
    /\ accounts = Seed
    /\ opened = DOMAIN Seed
    /\ recorded = [t \in {} |-> <<>>]
    /\ balances = [a \in DOMAIN Seed |-> 0]
    /\ history = {}
    /\ missed = {}
    /\ h = [p \in Proc |-> Idle]
    /\ sent = 0
    /\ failed = 0
    /\ acked = {}
    /\ exposed = {}

\* What a handler does by itself once it has a request.
Step(p) ==
    \/ SystemAccountFound(p) \/ SystemAccountMissing(p)
    \/ SaveNewAccount(p) \/ AppendOpened(p) \/ ProjectAccountOpened(p)
    \/ FindByID(p) \/ FindRejected(p) \/ SaveAccount(p)
    \/ AppendRecorded(p) \/ ProjectTransactionRecorded(p) \/ ProjectionSkipped(p)

Handle(p) ==
    \/ HandleOpenAccount(p) \/ HandleRecordTransaction(p)
    \/ HandleDeposit(p) \/ RejectDeposit(p)

Continue(p) == DepositRecord(p) \/ RespondOpened(p) \/ RespondRecorded(p)

AllIdle == \A p \in Proc : h[p].pc = "idle"

\* The bound on requests is reached and every handler has answered.
Finished == AllIdle /\ sent = MaxRequests /\ UNCHANGED vars

Next ==
    \/ \E p \in Proc : Handle(p) \/ Step(p) \/ Continue(p) \/ DbError(p) \/ LostAck(p)
    \/ Crash
    \/ Finished

Spec == Init /\ [][Next]_vars

-----------------------------------------------------------------------------
(* Properties.                                                             *)

TypeOK ==
    /\ DOMAIN accounts \subseteq AccountId
    /\ \A a \in DOMAIN accounts : accounts[a] \in AccountRow
    /\ opened \subseteq AccountId
    /\ DOMAIN recorded \subseteq TxId
    /\ \A t \in DOMAIN recorded : recorded[t] \in Seq(Entry)
    /\ DOMAIN balances \subseteq AccountId
    /\ \A a \in DOMAIN balances : balances[a] \in Int64
    /\ history \subseteq TxId
    /\ missed \subseteq TxId \X Nat
    /\ h \in [Proc -> Frame]
    /\ sent \in 0..MaxRequests /\ failed \in 0..MaxFaults

\* The requests that reach the service.
Served == {r \in Requests : r.kind = "deposit" => r.amount > 0}

\* What a handler that has come this far may count on, whatever the others
\* have done since: the account it is opening is in the table (and in the log,
\* once it projects it), every entry before the one it is at has its account,
\* the transaction it applies passed the checks, and the one it projects
\* or reports is in the log with its entries.
\* A, O and R are the ids in accounts, the opened and the recorded events.
FrameOK(f, A, O, R) ==
    /\ f.pc # "idle" => f.req \in Served
    /\ f.pc = "sys_find" => f.cmd \in OpenAccountCmd /\ f.req.kind # "open"
    /\ f.pc = "open_save" => f.acc \in AccountRow
    /\ f.pc \in {"open_append", "open_project"} => f.aid \in A
    /\ f.pc = "open_project" => f.aid \in O
    /\ f.pc = "opened" /\ f.ret = "ok" =>
           f.aid \in A /\ (f.req.kind = "open" => f.aid \in O)
    /\ f.pc \in {"find", "save"} => f.k \in DOMAIN f.entries
    /\ f.pc = "save" => f.acc \in AccountRow /\ f.entries[f.k].account \in A
    /\ f.pc \in {"find", "save", "append"} =>
           \A j \in DOMAIN f.entries : j < f.k => f.entries[j].account \in A
    /\ f.pc = "append" => f.k = Len(f.entries) + 1
    /\ f.pc \in {"find", "save", "append", "project"} => Recordable(f.entries)
    /\ f.pc = "project" \/ (f.pc = "recorded" /\ f.ret = "ok") =>
           f.tx \in DOMAIN R /\ R[f.tx] = f.entries

HandlersGrounded ==
    \A p \in Proc : FrameOK(h[p], DOMAIN accounts, opened, recorded)

\* What the recorded transactions in T add to account a: the replay of their
\* events, with the projector's arithmetic.
Replay(T, a) ==
    SumFunctionOnSet([t \in T |-> NetUpTo(recorded[t], Len(recorded[t]), a)], T)

\* What a handler has saved to account a and not yet recorded, and what all
\* handlers in flight have.
SavedTo(f, a) ==
    IF f.pc \in {"find", "save", "append"} THEN NetUpTo(f.entries, f.k - 1, a) ELSE 0

Pending(a) == SumFunctionOnSet([p \in Proc |-> SavedTo(h[p], a)], Proc)

\* The write model never holds an asset account below zero, whatever the
\* handlers' reads and writes interleave to and whichever of them fail: each
\* Save writes a balance that Debit checked, if against a stale copy.  It is
\* about positive amounts and balances that do not overflow.
AssetNonNegative ==
    \A a \in DOMAIN accounts : accounts[a].type = "ASSET" => accounts[a].balance >= 0

\* Everything the read model shows has its event, every event has its account
\* in the write model, and every projected transaction was recorded with
\* entries on accounts the read model has: the order Save, append, project
\* survives failures, lost answers and restarts between any two of them.
ReadModelGrounded ==
    /\ DOMAIN balances \subseteq opened
    /\ opened \subseteq DOMAIN accounts
    /\ history \subseteq DOMAIN recorded
    /\ \A t \in DOMAIN recorded : \A k \in DOMAIN recorded[t] :
           /\ recorded[t][k].account \in DOMAIN accounts
           /\ t \in history => recorded[t][k].account \in DOMAIN balances

\* What the entries projected onto no row would have added to the accounts in A.
MissedOn(A) ==
    SumFunctionOnSet([m \in missed |-> Delta(recorded[m[1]][m[2]])],
                     {m \in missed : recorded[m[1]][m[2]].account \in A})

\* A balance in the read model is exactly the sum over the transactions it has
\* in its history, also when concurrent projections touch the account (the
\* increment happens in the UPDATE, not in the program), except for entries
\* whose UPDATE ran before the account's row was inserted and whose SELECT ran
\* after it: these are lost for good, and nothing else is.
ReadModelIsProjection ==
    \A a \in DOMAIN balances : balances[a] = Replay(history, a) - MissedOn({a})

\* With those entries the read model's books balance in every state: a
\* transaction is projected to all its accounts or to none, and NewTransaction
\* let in only balanced ones.  For entries that are DEBIT or CREDIT.
ReadModelConserved == Wrap(SumFunction(balances) + MissedOn(AccountId)) = 0

\* A client that was told 201 or 200 finds its account or its transaction,
\* with its own entries, in the event log.
AcknowledgedIsRecorded ==
    \A r \in acked :
        IF r.kind = "open"
        THEN r.account \in opened
        ELSE r.tx \in DOMAIN recorded /\ recorded[r.tx] = r.entries

\* The write model agrees with the event log, up to what handlers in flight
\* have saved, on every account except those where one of the two known causes
\* struck: two handlers held a copy at the same time, or a transaction stopped
\* after saving some of its entries.  The code has no other source of drift.
DriftIsExplained ==
    \A a \in DOMAIN accounts \ exposed :
        accounts[a].balance = Wrap(Replay(DOMAIN recorded, a) + Pending(a))

\* Requests that do not overlap share one account per system name, as
\* suspenseAccountID and Deposit assume: the lookup by name finds the account
\* that an earlier request opened, also when that request was then refused.  (Requests
\* that overlap can open two: nothing makes the name unique.)
SystemAccountUnique ==
    \A a, b \in DOMAIN accounts :
        /\ accounts[a].name = accounts[b].name
        /\ \E c \in CurrencyCode : accounts[a].name \in {EquityName[c], SuspenseName[c]}
        => a = b

\* The events table is a double-entry journal: whatever interleaves or fails,
\* only transactions that passed the checks get in, one at a time, and no event
\* is ever removed or rewritten.
Log == INSTANCE Journal

ImplementsJournal == Log!Spec

-----------------------------------------------------------------------------
(* What the repository's documents say of the program.                     *)

\* README.md:99 "Debit exceeding balance is always rejected (asset accounts)":
\* no asset account is overdrawn by the debits that were accepted.
NoOverdraft ==
    \A a \in DOMAIN accounts :
        accounts[a].type = "ASSET" => Replay(DOMAIN recorded, a) >= 0
=============================================================================

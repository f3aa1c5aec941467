---------------------------- MODULE OutboxWorker ----------------------------
(***************************************************************************)
(* The transactional outbox: OutboxWriter                                  *)
(* (internal/infra/postgres/outbox.go), which inserts every event into the *)
(* event store and the outbox in one transaction, and the OutboxWorkers    *)
(* (internal/app/outbox_worker.go) that poll the outbox, publish what they *)
(* fetch and mark what was published, one worker per running process.      *)
(*                                                                         *)
(* FetchUnpublished is modelled row by row: SELECT ... FOR UPDATE SKIP     *)
(* LOCKED locks the rows it returns one after the other, and since it runs *)
(* outside a transaction the locks are gone when it returns.  The          *)
(* EventPublisher is a port: a call may fail, also after the broker took   *)
(* the message, and some payloads are refused every time.                  *)
(***************************************************************************)
EXTENDS Integers, Sequences, FiniteSets

CONSTANTS
    Worker,         \* the outbox workers
    BatchSize,      \* w.batchSize
    MaxEvents,      \* bound: events written
    MaxAppend,      \* bound: events of one append
    Faults,         \* which failures may happen
    MaxFaults       \* bound: how many of them happen

ASSUME OutboxAssumption ==
    /\ BatchSize \in Nat \ {0} /\ IsFiniteSet(Worker)
    /\ MaxEvents \in Nat /\ MaxAppend \in Nat /\ MaxFaults \in Nat

VARIABLES
    begun,          \* events of the appends begun so far
    open,           \* the append transactions that are open, as sets of events
    refused,        \* the events whose payload the publisher refuses
    log,            \* table events
    outbox,         \* table outbox: event -> created_at
    published,      \* the rows of outbox with published = TRUE
    wk,             \* the frame of each worker
    failed,         \* failures so far
    sends,          \* history variable: how often the broker got an event
    late            \* history variable: events that later ones may overtake

writing == <<begun, open, refused, log, outbox>>
vars == <<writing, published, wk, failed, sends, late>>

\* Events are numbered in the order in which their appends begin.
Event == 1..MaxEvents

Fail(kind) == kind \in Faults /\ failed < MaxFaults /\ failed' = failed + 1

-----------------------------------------------------------------------------
(* OutboxWriter.AppendWithOutbox.                                          *)

\* pool.Begin: NOW() is fixed here, and with it the rows' created_at.  The
\* publisher will accept all the events of an append or refuse them all.
BeginAppend ==
    \E n \in 1..MaxAppend :
        LET B == (begun + 1)..(begun + n) IN
        /\ begun + n <= MaxEvents
        /\ begun' = begun + n
        /\ open' = open \cup {B}
        /\ refused' \in {refused, refused \cup B}
        /\ UNCHANGED <<log, outbox, published, wk, failed, sends, late>>

\* When the append of B began, its first event being the earliest.
CreatedAt(B) == CHOOSE x \in B : \A y \in B : x <= y

\* Mutant: the events are stored and the outbox rows are not.
InsertOutbox_None(B) == UNCHANGED outbox

\* The INSERTs into the outbox, in the transaction of those into events.
InsertOutbox(B) ==
    outbox' = [x \in DOMAIN outbox \cup B |-> IF x \in B THEN CreatedAt(B) ELSE outbox[x]]

\* The commit.  An append that began later may have committed before.
AppendWithOutbox(B) ==
    /\ open' = open \ {B}
    /\ log' = log \cup B
    /\ InsertOutbox(B)
    /\ late' = IF \E y \in log : outbox[y] > CreatedAt(B) THEN late \cup B ELSE late
    /\ UNCHANGED <<begun, refused, published, wk, failed, sends>>

\* A version conflict or any other error: both tables are rolled back.
RollBack(B) ==
    /\ Fail("append")
    /\ open' = open \ {B}
    /\ UNCHANGED <<begun, refused, log, outbox, published, wk, sends, late>>

-----------------------------------------------------------------------------
(* OutboxWorker.processBatch.                                              *)

\* A worker between two ticks.  In a frame, cand are the rows its SELECT still
\* has to look at, todo the rows it has locked and, from then on, has to
\* publish, and done is publishedIDs.
Waiting == [pc |-> "idle", cand |-> {}, todo |-> <<>>, done |-> {}]

SetFrame(w, f) == wk' = [wk EXCEPT ![w] = f]

ToSet(s) == {s[i] : i \in DOMAIN s}

\* A tick: the SELECT takes its snapshot of the unpublished rows.  With none,
\* processBatch returns.
BeginFetch(w) ==
    /\ wk[w].pc = "idle"
    /\ DOMAIN outbox \ published # {}
    /\ SetFrame(w, [Waiting EXCEPT !.pc = "fetch", !.cand = DOMAIN outbox \ published])
    /\ UNCHANGED <<writing, published, failed, sends, late>>

\* The rows locked by the SELECTs of other workers.
Locked(w) == UNION {ToSet(wk[v].todo) : v \in {v \in Worker \ {w} : wk[v].pc = "fetch"}}

\* Mutant: rows in any order.
Oldest_Any(S) == S

\* The rows of S that ORDER BY created_at may put first: ties are open.
Oldest(S) == {r \in S : \A q \in S : outbox[r] <= outbox[q]}

\* The SELECT looks at the next row: it skips a row that is locked, and one
\* that was published since the snapshot.
LockRow(w) ==
    LET f == wk[w] IN
    /\ f.pc = "fetch"
    /\ Len(f.todo) < BatchSize
    /\ \E r \in Oldest(f.cand) :
           SetFrame(w, [f EXCEPT !.cand = @ \ {r},
                                 !.todo = IF r \in Locked(w) \cup published
                                          THEN @ ELSE Append(@, r)])
    /\ UNCHANGED <<writing, published, failed, sends, late>>

\* The SELECT returns: its locks are released.
EndFetch(w) ==
    LET f == wk[w] IN
    /\ f.pc = "fetch"
    /\ Len(f.todo) = BatchSize \/ f.cand = {}
    /\ SetFrame(w, [f EXCEPT !.pc = "publish", !.cand = {}])
    /\ UNCHANGED <<writing, published, failed, sends, late>>

\* The loop goes on to the next entry.
NextEntry(f) == [f EXCEPT !.todo = Tail(@)]

\* Publish returns nil.
Publish(w) ==
    LET f == wk[w]
        r == Head(f.todo)
    IN  /\ f.pc = "publish" /\ f.todo # <<>>
        /\ r \notin refused
        /\ sends' = [sends EXCEPT ![r] = @ + 1]
        /\ SetFrame(w, [NextEntry(f) EXCEPT !.done = @ \cup {r}])
        /\ UNCHANGED <<writing, published, failed, late>>

\* Mutant: the row is counted as published although Publish failed.
PublishRefused_Done(w) ==
    LET f == wk[w]
        r == Head(f.todo)
    IN  /\ f.pc = "publish" /\ f.todo # <<>>
        /\ r \in refused
        /\ late' = late \cup {r}
        /\ SetFrame(w, [NextEntry(f) EXCEPT !.done = @ \cup {r}])
        /\ UNCHANGED <<writing, published, failed, sends>>

\* Mutant: break instead of continue.
PublishRefused_Break(w) ==
    LET f == wk[w]
        r == Head(f.todo)
    IN  /\ f.pc = "publish" /\ f.todo # <<>>
        /\ r \in refused
        /\ late' = late \cup ToSet(f.todo)
        /\ SetFrame(w, [f EXCEPT !.todo = <<>>])
        /\ UNCHANGED <<writing, published, failed, sends>>

\* The broker refuses the payload: continue.
PublishRefused(w) ==
    LET f == wk[w]
        r == Head(f.todo)
    IN  /\ f.pc = "publish" /\ f.todo # <<>>
        /\ r \in refused
        /\ late' = late \cup {r}
        /\ SetFrame(w, NextEntry(f))
        /\ UNCHANGED <<writing, published, failed, sends>>

\* Publish fails once, with or without the message having been taken.
PublishFails(w) ==
    LET f == wk[w]
        r == Head(f.todo)
    IN  /\ Fail("publish")
        /\ f.pc = "publish" /\ f.todo # <<>>
        /\ r \notin refused
        /\ \/ late' = late \cup {r} /\ UNCHANGED sends
           \/ sends' = [sends EXCEPT ![r] = @ + 1] /\ UNCHANGED late
        /\ SetFrame(w, NextEntry(f))
        /\ UNCHANGED <<writing, published>>

\* Mutant: the UPDATE reaches no row.
MarkPublished_None(w) ==
    LET f == wk[w] IN
    /\ f.pc = "publish" /\ f.todo = <<>>
    /\ SetFrame(w, Waiting)
    /\ UNCHANGED <<writing, published, failed, sends, late>>

\* MarkPublished, and the end of processBatch.  With no id it is not called; an
\* error after the UPDATE took effect is only logged.
MarkPublished(w) ==
    LET f == wk[w] IN
    /\ f.pc = "publish" /\ f.todo = <<>>
    /\ published' = published \cup f.done
    /\ SetFrame(w, Waiting)
    /\ UNCHANGED <<writing, failed, sends, late>>

\* processBatch ends early: FetchUnpublished fails, MarkPublished fails before
\* it takes effect, or the process stops (main cancels ctx, or it crashes) and
\* is started again.
GiveUp(w) ==
    LET f == wk[w] IN
    /\ Fail("worker")
    /\ f.pc # "idle"
    /\ late' = late \cup ToSet(f.todo)
    /\ SetFrame(w, Waiting)
    /\ UNCHANGED <<writing, published, sends>>

-----------------------------------------------------------------------------

Init ==
    /\ begun = 0 /\ open = {} /\ refused = {} /\ log = {} /\ outbox = <<>>
    /\ published = {}
    /\ wk = [w \in Worker |-> Waiting]
    /\ failed = 0
    /\ sends = [x \in Event |-> 0]
    /\ late = {}

\* A step of processBatch that no failure interrupts.
Process(w) ==
    \/ BeginFetch(w) \/ LockRow(w) \/ EndFetch(w)
    \/ Publish(w) \/ PublishRefused(w) \/ MarkPublished(w)

Next ==
    \/ BeginAppend
    \/ \E B \in open : AppendWithOutbox(B) \/ RollBack(B)
    \/ \E w \in Worker : Process(w) \/ PublishFails(w) \/ GiveUp(w)

Spec == Init /\ [][Next]_vars

\* The ticker of a running worker never stops: Start loops until ctx is
\* cancelled, and a worker that was stopped is started again.
FairSpec == Spec /\ \A w \in Worker : WF_vars(Process(w))
-----------------------------------------------------------------------------
(* Properties.                                                             *)

\* Tables and frames are well formed: workers hold only rows of the outbox.
TypeOK ==
    /\ begun \in 0..MaxEvents
    /\ \A B \in open : \E x, y \in Event : x <= y /\ B = x..y
    /\ refused \subseteq Event /\ log \subseteq Event /\ late \subseteq Event
    /\ outbox \in [log -> Event]
    /\ published \subseteq log
    /\ wk \in [Worker -> [pc : {"idle", "fetch", "publish"}, cand : SUBSET Event,
                          todo : Seq(Event), done : SUBSET Event]]
    /\ \A w \in Worker : wk[w].cand \cup ToSet(wk[w].todo) \cup wk[w].done \subseteq log
    /\ failed \in Nat
    /\ sends \in [Event -> Nat]

D == INSTANCE Delivery WITH
        Message <- Event, committed <- log,
        delivered <- {x \in Event : sends[x] > 0}, settled <- published

\* The outbox implements at least once delivery: only events of the event store
\* reach the broker, and processBatch marks only rows whose Publish succeeded,
\* whatever workers overlap, fail or stop between Publish and MarkPublished.
ImplementsDelivery == D!Spec

\* BatchSize rows that can never be published come before x: FetchUnpublished
\* may return them, and not x, on every tick.
Starved(x) ==
    Cardinality({y \in (log \cap refused) \ {x} : outbox[y] <= outbox[x]}) >= BatchSize

\* Every event of the event store that the broker accepts is delivered, and
\* marked so that it is not sent again, unless refused rows fill the batches:
\* once the appends stop, no other event is left in the outbox.
EventuallySettled ==
    []<>(\A x \in log : x \in published \/ x \in refused \/ Starved(x))

\* An event is sent at most once by each worker, and once more for each
\* failure: SKIP LOCKED does not keep workers apart once the SELECT has
\* returned, and still the duplicates stay bounded.
DuplicatesBounded == \A x \in Event : sends[x] <= Cardinality(Worker) + failed

\* Events reach the broker in the order of their appends.  Every batch is in
\* that order, and an event is overtaken by one of a later append only if it was
\* committed after that event, a worker failed to publish it or stopped, or
\* another worker still holds it.
OrderKept ==
    /\ \A w \in Worker : \A i, j \in DOMAIN wk[w].todo :
           i < j => outbox[wk[w].todo[i]] <= outbox[wk[w].todo[j]]
    /\ \A x, y \in log :
           outbox[x] < outbox[y] /\ sends[y] > 0 /\ sends[x] = 0 =>
               x \in late \/ \E w \in Worker : x \in ToSet(wk[w].todo)
=============================================================================

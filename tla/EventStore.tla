----------------------------- MODULE EventStore -----------------------------
(***************************************************************************)
(* EventStore and SnapshotStore (internal/infra/postgres/event_store.go):  *)
(* an append-only log of events per aggregate, one event per version by a  *)
(* UNIQUE constraint, and one snapshot per aggregate.  The writers are the *)
(* callers of the ports in internal/domain/ledger/event_store.go: they     *)
(* rebuild an aggregate from its snapshot and the events after it, and     *)
(* either save a new snapshot or append events at the version they saw.    *)
(* Each call is a statement or a transaction of its own.                   *)
(*                                                                         *)
(* The state of an aggregate is the sequence of its events' payloads, the  *)
(* most that any replay could tell apart.                                  *)
(***************************************************************************)
EXTENDS Integers, Sequences, FiniteSets

CONSTANTS
    Aggregate,      \* aggregate ids
    Payload,        \* event payloads
    Writer,         \* goroutines that use the store
    MaxBatch,       \* bound: events per append
    MaxVersion,     \* bound: versions per aggregate
    MaxAppends,     \* bound: append transactions begun
    Faults,         \* which failures may happen
    MaxFaults,      \* bound: how many of them happen
    None            \* no value

ASSUME EventStoreAssumption ==
    /\ MaxBatch \in Nat /\ MaxVersion \in Nat /\ MaxAppends \in Nat /\ MaxFaults \in Nat
    /\ None \notin Aggregate

VARIABLES
    events,         \* table events: aggregate -> version -> payload
    snapshots,      \* table snapshots, by what Load returns for an aggregate
    wr,             \* the frame of each writer
    begun,          \* append transactions begun so far
    failed,         \* failures so far
    acked           \* history variable: the appends that returned nil

Version == 1..MaxVersion
Batch == UNION {[1..n -> Payload] : n \in 1..MaxBatch}

\* A writer at rest.  In a frame, state and version are what it has rebuilt of
\* aggregate agg, and batch the events it appends.
Rest ==
    [pc |-> "idle", agg |-> None, version |-> 0, state |-> <<>>, batch |-> <<>>]

-----------------------------------------------------------------------------
(* Queries.                                                                *)

\* ORDER BY version ASC: the row at position i has i rows of S up to it.
InOrder(S) ==
    [i \in 1..Cardinality(S) |-> CHOOSE x \in S : Cardinality({y \in S : y <= x}) = i]

\* Mutant: the snapshot's own event is read again.
LoadEventsFrom_Inclusive(a, v) == InOrder({x \in DOMAIN events[a] : x >= v})

\* The versions LoadEventsFrom returns, in order.
LoadEventsFrom(a, v) == InOrder({x \in DOMAIN events[a] : x > v})

\* What replaying the events of aggregate a after version v gives.
ReplayFrom(a, v) ==
    LET vs == LoadEventsFrom(a, v) IN [i \in DOMAIN vs |-> events[a][vs[i]]]

\* No row: Load returns the zero Snapshot and no error.
NoSnapshot == [version |-> 0, payload |-> <<>>]

-----------------------------------------------------------------------------
(* The steps of a writer.                                                  *)

Goto(w, f) == wr' = [wr EXCEPT ![w] = f]

\* SnapshotStore.Load.
LoadSnapshot(w) ==
    /\ wr[w].pc = "idle"
    /\ \E a \in Aggregate :
           Goto(w, [Rest EXCEPT !.pc = "tail", !.agg = a,
                                !.version = snapshots[a].version,
                                !.state = snapshots[a].payload])
    /\ UNCHANGED <<events, snapshots, begun, failed, acked>>

\* LoadEventsFrom the snapshot's version; the version of the last event is the
\* one the writer goes on with.
LoadTail(w) ==
    LET f == wr[w]
        vs == LoadEventsFrom(f.agg, f.version)
    IN  /\ f.pc = "tail"
        /\ Goto(w, [f EXCEPT !.pc = "loaded",
                             !.state = @ \o ReplayFrom(f.agg, f.version),
                             !.version = IF vs = <<>> THEN @ ELSE vs[Len(vs)]])
        /\ UNCHANGED <<events, snapshots, begun, failed, acked>>

\* SnapshotStore.Save: an upsert that does not look at the version it replaces.
SaveSnapshot(w) ==
    LET f == wr[w] IN
    /\ f.pc = "loaded"
    /\ snapshots' = [snapshots EXCEPT ![f.agg] =
                       [version |-> f.version, payload |-> f.state]]
    /\ Goto(w, Rest)
    /\ UNCHANGED <<events, begun, failed, acked>>

\* The caller decides on the events to append, and pool.Begin.
BeginAppend(w) ==
    LET f == wr[w] IN
    /\ f.pc = "loaded"
    /\ begun < MaxAppends
    /\ begun' = begun + 1
    /\ \E b \in Batch :
           /\ f.version + Len(b) <= MaxVersion
           /\ Goto(w, [f EXCEPT !.pc = "append", !.batch = b])
    /\ UNCHANGED <<events, snapshots, failed, acked>>

\* The versions the INSERTs of frame f use.
Versions(f) == {f.version + i : i \in DOMAIN f.batch}

\* Mutant: no UNIQUE constraint, the last writer wins.
NoConflict_Always(f) == TRUE

\* No INSERT violates uq_aggregate_version.
NoConflict(f) == Versions(f) \cap DOMAIN events[f.agg] = {}

\* The INSERTs and the commit of the append of frame f.
InsertEvents(f) ==
    events' = [events EXCEPT ![f.agg] =
                 [v \in DOMAIN @ \cup Versions(f) |->
                    IF v \in Versions(f) THEN f.batch[v - f.version] ELSE @[v]]]

AppendEvents(w) ==
    LET f == wr[w] IN
    /\ f.pc = "append"
    /\ NoConflict(f)
    /\ InsertEvents(f)
    /\ acked' = acked \cup {[by |-> w, agg |-> f.agg, version |-> f.version,
                             state |-> f.state, batch |-> f.batch]}
    /\ Goto(w, Rest)
    /\ UNCHANGED <<snapshots, begun, failed>>

\* ErrVersionConflict: the transaction is rolled back and the caller may start
\* over.
VersionConflict(w) ==
    LET f == wr[w] IN
    /\ f.pc = "append"
    /\ ~NoConflict(f)
    /\ Goto(w, Rest)
    /\ UNCHANGED <<events, snapshots, begun, failed, acked>>

-----------------------------------------------------------------------------
(* Failures.                                                               *)

Fail(kind) == kind \in Faults /\ failed < MaxFaults /\ failed' = failed + 1

\* A call fails without effect, or the writer's process stops.
DbError(w) ==
    /\ Fail("db")
    /\ wr[w].pc # "idle"
    /\ Goto(w, Rest)
    /\ UNCHANGED <<events, snapshots, begun, acked>>

\* The commit happens and the caller sees an error.
LostAck(w) ==
    LET f == wr[w] IN
    /\ Fail("lost_ack")
    /\ f.pc = "append"
    /\ NoConflict(f)
    /\ InsertEvents(f)
    /\ Goto(w, Rest)
    /\ UNCHANGED <<snapshots, begun, acked>>

-----------------------------------------------------------------------------

StoreInit ==
    /\ events = [a \in Aggregate |-> <<>>]
    /\ snapshots = [a \in Aggregate |-> NoSnapshot]
    /\ wr = [w \in Writer |-> Rest]
    /\ begun = 0
    /\ failed = 0
    /\ acked = {}

\* What a writer does that adds no event.
Work(w) ==
    \/ LoadSnapshot(w) \/ LoadTail(w) \/ SaveSnapshot(w) \/ BeginAppend(w)
    \/ VersionConflict(w) \/ DbError(w)

StoreNext == \E w \in Writer : Work(w) \/ AppendEvents(w) \/ LostAck(w)

storeVars == <<events, snapshots, wr, begun, failed, acked>>

StoreSpec == StoreInit /\ [][StoreNext]_storeVars

-----------------------------------------------------------------------------
(* Properties.                                                             *)

\* The payloads of the versions of a up to v, in order.
Prefix(a, v) == [x \in 1..v |-> events[a][x]]

\* An aggregate rebuilt from its snapshot and the events after it is the
\* aggregate replayed from the start, for every writer and for the snapshot
\* that is stored, also when Save and Append of others come between its two
\* queries and when an older snapshot replaces a newer one.
RebuildIsReplay ==
    /\ \A a \in Aggregate :
           /\ \E n \in 0..MaxVersion : DOMAIN events[a] = 1..n
           /\ snapshots[a].version \in {0} \cup DOMAIN events[a]
           /\ snapshots[a].payload = Prefix(a, snapshots[a].version)
    /\ \A w \in Writer : wr[w].pc # "idle" =>
           /\ wr[w].version \in {0} \cup DOMAIN events[wr[w].agg]
           /\ wr[w].state = Prefix(wr[w].agg, wr[w].version)

\* Optimistic concurrency: an append that was reported as done was decided on
\* exactly the events that precede its own in the log, its events are there,
\* and no two appends share a version: writers never overwrite each other and
\* never act on a stale aggregate.
AppendsSerialised ==
    /\ \A r \in acked :
           /\ r.state = Prefix(r.agg, r.version)
           /\ \A i \in DOMAIN r.batch :
                  /\ r.version + i \in DOMAIN events[r.agg]
                  /\ events[r.agg][r.version + i] = r.batch[i]
    /\ \A r, q \in acked : r # q /\ r.agg = q.agg =>
           Versions(r) \cap Versions(q) = {}
=============================================================================

-------------------------- MODULE EventStoreProofs --------------------------
(***************************************************************************)
(* Proofs about EventStore for any number of writers, aggregates, events   *)
(* and failures: a rebuilt aggregate is the replayed one, and the appends  *)
(* that returned nil are serial.                                           *)
(***************************************************************************)
EXTENDS EventStore, FiniteSetTheorems, SequenceTheorems, TLAPS

\* What a writer keeps between two calls.
Frame ==
    [pc : {"idle", "tail", "loaded", "append"}, agg : Aggregate \cup {None},
     version : 0..MaxVersion, state : Seq(Payload), batch : Seq(Payload)]

\* Both properties are about the versions an aggregate has, 1..n.
StoreType ==
    /\ DOMAIN events = Aggregate /\ DOMAIN snapshots = Aggregate /\ DOMAIN wr = Writer
    /\ \A a \in Aggregate : \E n \in 0..MaxVersion : events[a] \in [1..n -> Payload]
    /\ \A a \in Aggregate : snapshots[a] \in [version : 0..MaxVersion, payload : Seq(Payload)]
    /\ \A w \in Writer : wr[w] \in Frame

\* A writer at work has rebuilt a prefix of its aggregate, and one that appends
\* has events for it.
FrameOK(f) ==
    /\ f.pc # "idle" => /\ f.agg \in Aggregate
                        /\ f.version \in {0} \cup DOMAIN events[f.agg]
                        /\ f.state = Prefix(f.agg, f.version)
    /\ f.pc = "append" => Len(f.batch) >= 1 /\ f.version + Len(f.batch) <= MaxVersion

\* An append that returned nil was for an aggregate and saw a prefix of it.
AckOK(r) ==
    /\ r.agg \in Aggregate /\ r.batch \in Seq(Payload)
    /\ r.version \in {0} \cup DOMAIN events[r.agg]

\* The inductive invariant.
EInv ==
    /\ StoreType
    /\ \A w \in Writer : FrameOK(wr[w])
    /\ \A r \in acked : AckOK(r)
    /\ RebuildIsReplay
    /\ AppendsSerialised

-----------------------------------------------------------------------------

\* The rows of v+1..n in the order of their versions.
LEMMA InOrderInterval ==
    ASSUME NEW v \in Nat, NEW n \in Nat, v <= n
    PROVE  InOrder((v + 1)..n) = [i \in 1..(n - v) |-> v + i]
<1> DEFINE S == (v + 1)..n
<1>1. IsFiniteSet(S) /\ Cardinality(S) = n - v
    <2>1. IF v + 1 > n THEN Cardinality(S) = 0 ELSE Cardinality(S) = n - (v + 1) + 1
        BY FS_Interval
    <2> QED BY <2>1, FS_Interval
<1>2. ASSUME NEW x \in S PROVE Cardinality({y \in S : y <= x}) = x - v
    <2>1. {y \in S : y <= x} = (v + 1)..x
        OBVIOUS
    <2>2. x \in Int /\ v + 1 \in Int /\ ~(v + 1 > x) /\ x - (v + 1) + 1 = x - v
        OBVIOUS
    <2>3. Cardinality((v + 1)..x) = x - v
        BY <2>2, FS_Interval
    <2> QED BY Zenon, <2>1, <2>3
<1>3. ASSUME NEW i \in 1..(n - v)
      PROVE  (CHOOSE x \in S : Cardinality({y \in S : y <= x}) = i) = v + i
    <2>1. v + i \in S /\ (v + i) - v = i
        OBVIOUS
    <2>2. \A x \in S : x - v = i => x = v + i
        OBVIOUS
    <2>3. \A x \in S : Cardinality({y \in S : y <= x}) = i <=> x = v + i
        BY <1>2, <2>1, <2>2
    <2> HIDE DEF S
    <2> QED BY <2>1, <2>3
<1> QED BY ZenonT(30), <1>1, <1>3 DEF InOrder

\* What LoadEventsFrom and the replay of its rows give.
LEMMA LoadedTail ==
    ASSUME NEW a \in Aggregate, NEW n \in Nat, events[a] \in [1..n -> Payload],
           NEW v \in 0..n
    PROVE  /\ LoadEventsFrom(a, v) = [i \in 1..(n - v) |-> v + i]
           /\ ReplayFrom(a, v) = [i \in 1..(n - v) |-> events[a][v + i]]
           /\ ReplayFrom(a, v) \in Seq(Payload)
           /\ Prefix(a, v) \o ReplayFrom(a, v) = Prefix(a, n)
<1>1. {x \in DOMAIN events[a] : x > v} = (v + 1)..n
    <2>1. DOMAIN events[a] = 1..n
        OBVIOUS
    <2>2. \A x : x \in 1..n /\ x > v <=> x \in (v + 1)..n
        OBVIOUS
    <2> QED BY <2>1, <2>2
<1>2. LoadEventsFrom(a, v) = [i \in 1..(n - v) |-> v + i]
    <2>1. LoadEventsFrom(a, v) = InOrder((v + 1)..n)
        BY Zenon, <1>1 DEF LoadEventsFrom
    <2>2. v \in Nat /\ v <= n
        OBVIOUS
    <2> QED BY <2>1, <2>2, InOrderInterval
<1>3. ReplayFrom(a, v) = [i \in 1..(n - v) |-> events[a][v + i]]
    <2> DEFINE vs == LoadEventsFrom(a, v)
    <2>1. DOMAIN vs = 1..(n - v) /\ \A i \in 1..(n - v) : vs[i] = v + i
        BY <1>2
    <2>2. ReplayFrom(a, v) = [i \in DOMAIN vs |-> events[a][vs[i]]]
        BY DEF ReplayFrom
    <2> HIDE DEF vs
    <2> QED BY <2>1, <2>2
<1>4. \A i \in 1..(n - v) : v + i \in 1..n /\ events[a][v + i] \in Payload
    OBVIOUS
<1> DEFINE R == ReplayFrom(a, v)
           P == Prefix(a, v)
<1>5. R \in Seq(Payload) /\ Len(R) = n - v
    BY <1>3, <1>4
<1>6. P \in Seq(Payload) /\ Len(P) = v
    BY DEF Prefix
<1>7. P \o R = Prefix(a, n)
    <2>1. P = [x \in 1..v |-> events[a][x]] /\ R = [i \in 1..(n - v) |-> events[a][v + i]]
        BY <1>3 DEF Prefix
    <2> HIDE DEF P, R
    <2>2. /\ P \o R \in Seq(Payload) /\ Len(P \o R) = Len(P) + Len(R)
          /\ \A i \in 1..(Len(P) + Len(R)) :
                 (P \o R)[i] = IF i <= Len(P) THEN P[i] ELSE R[i - Len(P)]
        BY ZenonT(30), <1>5, <1>6, ConcatProperties
    <2>3. Len(P) + Len(R) = n
        BY <1>5, <1>6
    <2>4. \A i \in 1..n : (P \o R)[i] = events[a][i]
        <3> SUFFICES ASSUME NEW i \in 1..n PROVE (P \o R)[i] = events[a][i]
            BY ZenonT(30)
        <3>1. CASE i <= v
            BY <1>6, <2>1, <2>2, <2>3, <3>1
        <3>2. CASE i > v
            <4>1. i - v \in 1..(n - v) /\ v + (i - v) = i /\ ~(i <= v)
                BY <3>2
            <4>2. (P \o R)[i] = R[i - v]
                BY <1>6, <2>2, <2>3, <4>1
            <4>3. R[i - v] = events[a][v + (i - v)]
                BY <2>1, <4>1
            <4> QED BY <4>1, <4>2, <4>3
        <3>3. i <= v \/ i > v
            OBVIOUS
        <3> QED BY Zenon, <3>1, <3>2, <3>3
    <2>5. P \o R \in [1..n -> Payload]
        BY ZenonT(30), <2>2, <2>3, LenProperties
    <2> QED BY ZenonT(30), <2>4, <2>5 DEF Prefix
<1> QED BY ZenonT(30), <1>2, <1>3, <1>5, <1>7

-----------------------------------------------------------------------------
(* Steps that add no event.                                                *)

\* A writer at rest.
LEMMA RestOK == Rest \in Frame /\ FrameOK(Rest)
<1>1. <<>> \in Seq(Payload) /\ 0 \in 0..MaxVersion
    BY EventStoreAssumption
<1>2. Rest \in Frame
    BY <1>1 DEF Rest, Frame
<1>3. FrameOK(Rest)
    BY DEF Rest, FrameOK
<1> QED BY <1>2, <1>3

\* Writers rebuild prefixes and snapshots are replaced by prefixes.
LEMMA WritersMove ==
    ASSUME EInv, DOMAIN wr' = Writer,
           \A v \in Writer : wr'[v] = wr[v] \/ (wr'[v] \in Frame /\ FrameOK(wr'[v])),
           events' = events, acked' = acked, DOMAIN snapshots' = Aggregate,
           \A a \in Aggregate :
               \/ snapshots'[a] = snapshots[a]
               \/ /\ snapshots'[a] \in [version : 0..MaxVersion, payload : Seq(Payload)]
                  /\ snapshots'[a].version \in {0} \cup DOMAIN events[a]
                  /\ snapshots'[a].payload = Prefix(a, snapshots'[a].version)
    PROVE  EInv'
<1>1. StoreType'
    BY DEF EInv, StoreType
<1>2. \A v \in Writer : FrameOK(wr'[v])
    BY DEF EInv
<1>3. \A v \in Writer : FrameOK(wr[v])'
    BY <1>2 DEF FrameOK, Prefix
<1>4. \A r \in acked' : AckOK(r)'
    BY DEF EInv, AckOK
<1>5. RebuildIsReplay'
    <2>1. \A v \in Writer : wr'[v].pc # "idle" =>
              /\ wr'[v].version \in {0} \cup DOMAIN events[wr'[v].agg]
              /\ wr'[v].state = Prefix(wr'[v].agg, wr'[v].version)
        BY <1>2 DEF FrameOK
    <2>2. \A a \in Aggregate :
              /\ \E n \in 0..MaxVersion : DOMAIN events[a] = 1..n
              /\ snapshots'[a].version \in {0} \cup DOMAIN events[a]
              /\ snapshots'[a].payload = Prefix(a, snapshots'[a].version)
        BY DEF EInv, RebuildIsReplay
    <2> QED BY <2>1, <2>2 DEF RebuildIsReplay, Prefix
<1>6. AppendsSerialised'
    <2>1. \A r \in acked' :
              /\ r.state = [x \in 1..r.version |-> events'[r.agg][x]]
              /\ \A i \in DOMAIN r.batch : /\ r.version + i \in DOMAIN events'[r.agg]
                                            /\ events'[r.agg][r.version + i] = r.batch[i]
        BY DEF EInv, AppendsSerialised, Prefix
    <2>2. \A r, q \in acked' : r # q /\ r.agg = q.agg => Versions(r) \cap Versions(q) = {}
        BY DEF EInv, AppendsSerialised
    <2> QED BY ZenonT(30), <2>1, <2>2 DEF AppendsSerialised, Prefix, Versions
<1> QED BY <1>1, <1>3, <1>4, <1>5, <1>6 DEF EInv

\* One writer moves.
LEMMA OneWriter ==
    ASSUME EInv, NEW w \in Writer, NEW f \in Frame, FrameOK(f), wr' = [wr EXCEPT ![w] = f],
           events' = events, acked' = acked, DOMAIN snapshots' = Aggregate,
           \A a \in Aggregate :
               \/ snapshots'[a] = snapshots[a]
               \/ /\ snapshots'[a] \in [version : 0..MaxVersion, payload : Seq(Payload)]
                  /\ snapshots'[a].version \in {0} \cup DOMAIN events[a]
                  /\ snapshots'[a].payload = Prefix(a, snapshots'[a].version)
    PROVE  EInv'
<1>1. DOMAIN wr' = Writer /\ wr'[w] = f /\ \A v \in Writer \ {w} : wr'[v] = wr[v]
    BY DEF EInv, StoreType
<1>2. \A v \in Writer : wr'[v] = wr[v] \/ (wr'[v] \in Frame /\ FrameOK(wr'[v]))
    BY Zenon, <1>1
<1> QED BY <1>1, <1>2, WritersMove

\* A writer that reads, saves a snapshot, decides on its events or gives up.
LEMMA WorkKeeps ==
    ASSUME EInv, NEW w \in Writer, Work(w)
    PROVE  EInv'
<1> DEFINE f == wr[w]
<1>1. f \in Frame /\ FrameOK(f) /\ DOMAIN snapshots = Aggregate
    BY DEF EInv, StoreType
<1>2. CASE LoadSnapshot(w)
    <2>1. PICK a \in Aggregate :
              wr' = [wr EXCEPT ![w] = [Rest EXCEPT !.pc = "tail", !.agg = a,
                                         !.version = snapshots[a].version,
                                         !.state = snapshots[a].payload]]
        BY ZenonT(30), <1>2 DEF LoadSnapshot, Goto
    <2> DEFINE g == [Rest EXCEPT !.pc = "tail", !.agg = a,
                                 !.version = snapshots[a].version,
                                 !.state = snapshots[a].payload]
    <2>2. /\ snapshots[a].version \in 0..MaxVersion /\ snapshots[a].payload \in Seq(Payload)
          /\ snapshots[a].version \in {0} \cup DOMAIN events[a]
          /\ snapshots[a].payload = Prefix(a, snapshots[a].version)
        BY DEF EInv, StoreType, RebuildIsReplay
    <2>3. /\ g \in Frame /\ g.pc = "tail" /\ g.agg = a
          /\ g.version = snapshots[a].version /\ g.state = snapshots[a].payload
        BY ZenonT(30), <2>2, RestOK DEF Frame
    <2> HIDE DEF g
    <2>4. FrameOK(g)
        BY <2>2, <2>3 DEF FrameOK
    <2>5. wr' = [wr EXCEPT ![w] = g]
        BY <2>1 DEF g
    <2>6. events' = events /\ acked' = acked /\ snapshots' = snapshots
        BY <1>2 DEF LoadSnapshot
    <2> QED BY ZenonT(30), <1>1, <2>3, <2>4, <2>5, <2>6, OneWriter
<1>3. CASE LoadTail(w)
    <2> DEFINE a == f.agg
               v == f.version
               vs == LoadEventsFrom(a, v)
               g == [f EXCEPT !.pc = "loaded", !.state = f.state \o ReplayFrom(a, v),
                              !.version = IF vs = <<>> THEN f.version ELSE vs[Len(vs)]]
    <2>1. wr' = [wr EXCEPT ![w] = g] /\ f.pc = "tail"
        BY <1>3 DEF LoadTail, Goto
    <2>2. a \in Aggregate /\ v \in {0} \cup DOMAIN events[a] /\ f.state = Prefix(a, v)
        BY <1>1, <2>1 DEF FrameOK
    <2>3. PICK n \in 0..MaxVersion : events[a] \in [1..n -> Payload]
        BY <2>2 DEF EInv, StoreType
    <2>4. n \in Nat /\ v \in 0..n
        BY <2>2, <2>3, EventStoreAssumption
    <2>5. /\ vs = [i \in 1..(n - v) |-> v + i]
          /\ Prefix(a, v) \o ReplayFrom(a, v) = Prefix(a, n)
          /\ ReplayFrom(a, v) \in Seq(Payload)
        BY ZenonT(30), <2>2, <2>3, <2>4, LoadedTail
    <2>6. (IF vs = <<>> THEN v ELSE vs[Len(vs)]) = n
        <3> HIDE DEF vs, v
        <3>1. CASE n = v
            <4>1. vs = <<>>
                BY <2>4, <2>5, <3>1
            <4> QED BY <3>1, <4>1
        <3>2. CASE n # v
            <4>1. n - v \in Nat /\ n - v \in 1..(n - v) /\ v + (n - v) = n
                BY <2>4, <3>2
            <4>2. Len(vs) = n - v
                BY <2>4, <2>5, <4>1
            <4>3. vs # <<>>
                BY <2>4, <3>2, <4>2
            <4> QED BY <2>5, <4>1, <4>2, <4>3
        <3> QED BY <3>1, <3>2
    <2>7. Prefix(a, n) \in Seq(Payload)
        BY <2>3, <2>4 DEF Prefix
    <2>8. g = [f EXCEPT !.pc = "loaded", !.state = Prefix(a, n), !.version = n]
        BY Zenon, <2>2, <2>5, <2>6
    <2> HIDE DEF vs
    <2>9. /\ g \in Frame /\ g.pc = "loaded" /\ g.agg = a /\ g.version = n
          /\ g.state = Prefix(a, n)
        <3> HIDE DEF g
        <3> QED BY ZenonT(30), <1>1, <2>7, <2>8 DEF Frame
    <2> HIDE DEF g
    <2>10. FrameOK(g)
        <3>1. n \in {0} \cup DOMAIN events[a]
            BY <2>3, <2>4
        <3> QED BY <2>2, <2>9, <3>1 DEF FrameOK
    <2>11. events' = events /\ acked' = acked /\ snapshots' = snapshots
        BY <1>3 DEF LoadTail
    <2> QED BY ZenonT(30), <1>1, <2>1, <2>9, <2>10, <2>11, OneWriter
<1>4. CASE SaveSnapshot(w)
    <2>1. /\ f.pc = "loaded" /\ wr' = [wr EXCEPT ![w] = Rest]
          /\ snapshots' = [snapshots EXCEPT ![f.agg] =
                              [version |-> f.version, payload |-> f.state]]
          /\ events' = events /\ acked' = acked
        BY <1>4 DEF SaveSnapshot, Goto
    <2>2. /\ f.agg \in Aggregate /\ f.version \in {0} \cup DOMAIN events[f.agg]
          /\ f.state = Prefix(f.agg, f.version)
          /\ f.version \in 0..MaxVersion /\ f.state \in Seq(Payload)
        BY <1>1, <2>1 DEF FrameOK, Frame
    <2> DEFINE s == [version |-> f.version, payload |-> f.state]
    <2>3. /\ s \in [version : 0..MaxVersion, payload : Seq(Payload)]
          /\ s.version = f.version /\ s.payload = f.state
        BY <2>2
    <2>4. /\ DOMAIN snapshots' = Aggregate /\ snapshots'[f.agg] = s
          /\ \A a \in Aggregate \ {f.agg} : snapshots'[a] = snapshots[a]
        BY <1>1, <2>1, <2>2
    <2> HIDE DEF s
    <2> QED BY ZenonT(30), <2>1, <2>2, <2>3, <2>4, RestOK, OneWriter
<1>5. CASE BeginAppend(w)
    <2>1. PICK b \in Batch :
              /\ f.version + Len(b) <= MaxVersion
              /\ wr' = [wr EXCEPT ![w] = [f EXCEPT !.pc = "append", !.batch = b]]
        BY ZenonT(30), <1>5 DEF BeginAppend, Goto
    <2> DEFINE g == [f EXCEPT !.pc = "append", !.batch = b]
    <2>2. b \in Seq(Payload) /\ Len(b) >= 1
        <3>1. PICK n \in 1..MaxBatch : b \in [1..n -> Payload]
            BY DEF Batch
        <3> QED BY <3>1, EventStoreAssumption
    <2>3. /\ g \in Frame /\ g.pc = "append" /\ g.agg = f.agg /\ g.version = f.version
          /\ g.state = f.state /\ g.batch = b
        BY ZenonT(30), <1>1, <2>2 DEF Frame
    <2> HIDE DEF g
    <2>4. FrameOK(g)
        BY <1>1, <1>5, <2>1, <2>2, <2>3 DEF FrameOK, BeginAppend
    <2>5. wr' = [wr EXCEPT ![w] = g]
        BY <2>1 DEF g
    <2>6. events' = events /\ acked' = acked /\ snapshots' = snapshots
        BY <1>5 DEF BeginAppend
    <2> QED BY ZenonT(30), <1>1, <2>3, <2>4, <2>5, <2>6, OneWriter
<1>6. CASE VersionConflict(w) \/ DbError(w)
    <2>1. /\ wr' = [wr EXCEPT ![w] = Rest]
          /\ events' = events /\ acked' = acked /\ snapshots' = snapshots
        BY <1>6 DEF VersionConflict, DbError, Goto
    <2> QED BY ZenonT(30), <1>1, <2>1, RestOK, OneWriter
<1> QED BY <1>2, <1>3, <1>4, <1>5, <1>6 DEF Work

-----------------------------------------------------------------------------
(* The append.                                                             *)

\* What AppendEvents writes into acked.
Ack(w, f) ==
    [by |-> w, agg |-> f.agg, version |-> f.version, state |-> f.state, batch |-> f.batch]

\* The append commits only when the writer saw every event there is, and then
\* the log of its aggregate grows by its batch.
LEMMA AppendKeeps ==
    ASSUME EInv, NEW w \in Writer, wr[w].pc = "append", NoConflict(wr[w]), InsertEvents(wr[w]),
           Goto(w, Rest), snapshots' = snapshots,
           acked' = acked \/ acked' = acked \cup {Ack(w, wr[w])}
    PROVE  EInv'
<1>1. PICK f : f = wr[w]
    OBVIOUS
<1>2. PICK a : a = f.agg
    OBVIOUS
<1>3. PICK m : m = Len(f.batch)
    BY ZenonT(30)
<1>4. /\ f \in Frame /\ FrameOK(f) /\ f.pc = "append"
      /\ DOMAIN events = Aggregate /\ DOMAIN wr = Writer
    BY <1>1 DEF EInv, StoreType
<1>5. /\ a \in Aggregate /\ f.version \in {0} \cup DOMAIN events[a]
      /\ f.state = Prefix(a, f.version) /\ m >= 1 /\ f.version + m <= MaxVersion
    BY <1>2, <1>3, <1>4 DEF FrameOK
<1>6. f.batch \in Seq(Payload) /\ m \in Nat /\ DOMAIN f.batch = 1..m
    BY <1>3, <1>4 DEF Frame
<1>7. PICK n \in 0..MaxVersion : events[a] \in [1..n -> Payload]
    BY <1>5 DEF EInv, StoreType
<1>8. n \in Nat /\ f.version \in 0..n
    BY <1>5, <1>7, EventStoreAssumption
<1>9. f.version = n
    <2>1. SUFFICES ASSUME f.version < n PROVE FALSE
        BY <1>8
    <2>2. f.version + 1 \in Versions(f)
        BY <1>5, <1>6 DEF Versions
    <2>3. f.version + 1 \in DOMAIN events[f.agg]
        BY <1>2, <1>7, <1>8, <2>1
    <2> QED BY <1>1, <2>2, <2>3 DEF NoConflict
<1>10. Versions(f) = (n + 1)..(n + m)
    <2>1. Versions(f) = {n + i : i \in 1..m}
        BY <1>6, <1>9 DEF Versions
    <2>2. ASSUME NEW x \in (n + 1)..(n + m) PROVE x \in {n + i : i \in 1..m}
        <3>1. x - n \in 1..m /\ x = n + (x - n)
            BY <1>6, <1>8
        <3> QED BY <3>1
    <2>3. {n + i : i \in 1..m} \subseteq (n + 1)..(n + m)
        BY <1>6, <1>8
    <2> QED BY <2>1, <2>2, <2>3
<1>11. PICK e : e = [v \in DOMAIN events[a] \cup Versions(f) |->
                       IF v \in Versions(f) THEN f.batch[v - f.version] ELSE events[a][v]]
    BY ZenonT(30)
<1>12. events' = [events EXCEPT ![a] = e]
    BY Zenon, <1>1, <1>2, <1>11 DEF InsertEvents
<1>13. /\ DOMAIN events' = Aggregate /\ events'[a] = e
       /\ \A b \in Aggregate \ {a} : events'[b] = events[b]
    BY <1>4, <1>5, <1>12
<1>14. DOMAIN events[a] \cup Versions(f) = 1..(n + m) /\ DOMAIN events[a] = 1..n
    BY <1>6, <1>7, <1>8, <1>10
<1>15. e = [v \in 1..(n + m) |->
              IF v \in (n + 1)..(n + m) THEN f.batch[v - n] ELSE events[a][v]]
    BY Zenon, <1>9, <1>10, <1>11, <1>14
<1>16. /\ \A x \in 1..n : e[x] = events[a][x]
       /\ \A i \in 1..m : e[n + i] = f.batch[i]
       /\ DOMAIN e = 1..(n + m)
    <2>1. \A x \in 1..n : x \in 1..(n + m) /\ x \notin (n + 1)..(n + m)
        BY <1>6, <1>8
    <2>2. \A i \in 1..m : n + i \in 1..(n + m) /\ n + i \in (n + 1)..(n + m) /\ n + i - n = i
        BY <1>6, <1>8
    <2>3. /\ DOMAIN e = 1..(n + m)
          /\ \A x \in 1..(n + m) :
                 e[x] = IF x \in (n + 1)..(n + m) THEN f.batch[x - n] ELSE events[a][x]
        BY Zenon, <1>15
    <2>4. \A x \in 1..n : e[x] = events[a][x]
        BY <2>1, <2>3
    <2>5. ASSUME NEW i \in 1..m PROVE e[n + i] = f.batch[i]
        <3>1. e[n + i] = f.batch[n + i - n]
            BY <2>2, <2>3
        <3> QED BY <2>2, <3>1
    <2> QED BY <2>3, <2>4, <2>5
<1>17. e \in [1..(n + m) -> Payload]
    <2>1. ASSUME NEW x \in 1..(n + m) PROVE e[x] \in Payload
        <3>1. CASE x \in 1..n
            BY <1>7, <1>16, <3>1
        <3>2. CASE x \notin 1..n
            <4>1. x - n \in 1..m /\ x = n + (x - n)
                BY <1>6, <1>8, <3>2
            <4>2. e[x] = f.batch[x - n]
                BY <1>16, <4>1
            <4> QED BY <1>6, <4>1, <4>2
        <3> QED BY <3>1, <3>2
    <2> QED BY <1>15, <2>1
<1>18. \A b \in Aggregate : /\ DOMAIN events[b] \subseteq DOMAIN events'[b]
                             /\ \A x \in DOMAIN events[b] : events'[b][x] = events[b][x]
    BY <1>6, <1>8, <1>13, <1>14, <1>16
<1>19. ASSUME NEW b \in Aggregate, NEW v \in {0} \cup DOMAIN events[b]
       PROVE  /\ v \in {0} \cup DOMAIN events'[b]
              /\ Prefix(b, v) = [x \in 1..v |-> events'[b][x]]
    <2>1. PICK k \in 0..MaxVersion : DOMAIN events[b] = 1..k
        BY DEF EInv, RebuildIsReplay
    <2>2. \A x \in 1..v : x \in DOMAIN events[b]
        BY <2>1, EventStoreAssumption
    <2> QED BY <1>18, <2>2 DEF Prefix
<1>20. DOMAIN wr' = Writer /\ wr'[w] = Rest /\ \A v \in Writer \ {w} : wr'[v] = wr[v]
    BY <1>4 DEF Goto
<1>21. StoreType'
    <2>1. \A b \in Aggregate : \E k \in 0..MaxVersion : events'[b] \in [1..k -> Payload]
        <3>1. n + m \in 0..MaxVersion
            BY <1>5, <1>6, <1>8, <1>9, EventStoreAssumption
        <3>2. \A b \in Aggregate \ {a} : \E k \in 0..MaxVersion : events'[b] \in [1..k -> Payload]
            BY <1>13 DEF EInv, StoreType
        <3> QED BY <1>13, <1>17, <3>1, <3>2
    <2>2. \A v \in Writer : wr'[v] \in Frame
        BY <1>20, RestOK DEF EInv, StoreType
    <2> QED BY <1>13, <1>20, <2>1, <2>2 DEF EInv, StoreType
<1>22. ASSUME NEW v \in Writer, wr'[v].pc # "idle"
       PROVE  /\ wr'[v] = wr[v] /\ wr'[v].agg \in Aggregate
              /\ wr'[v].version \in {0} \cup DOMAIN events'[wr'[v].agg]
              /\ wr'[v].state = [x \in 1..wr'[v].version |-> events'[wr'[v].agg][x]]
    <2>1. wr'[v] = wr[v]
        BY <1>20, <1>22 DEF Rest
    <2>2. /\ wr[v].agg \in Aggregate /\ wr[v].version \in {0} \cup DOMAIN events[wr[v].agg]
          /\ wr[v].state = Prefix(wr[v].agg, wr[v].version)
        BY <1>22, <2>1 DEF EInv, FrameOK
    <2> QED BY ZenonT(60), <1>19, <2>1, <2>2
<1>23. \A v \in Writer : FrameOK(wr[v])'
    <2>1. \A v \in Writer : wr'[v].pc = "append" =>
              Len(wr'[v].batch) >= 1 /\ wr'[v].version + Len(wr'[v].batch) <= MaxVersion
        BY ZenonT(30), <1>22 DEF EInv, FrameOK
    <2> QED BY ZenonT(30), <1>22, <2>1 DEF FrameOK, Prefix
<1>24. \A r \in acked : AckOK(r) /\ AckOK(r)'
    BY ZenonT(30), <1>19 DEF EInv, AckOK
<1>25. RebuildIsReplay'
    <2>1. ASSUME NEW b \in Aggregate
          PROVE  /\ \E k \in 0..MaxVersion : DOMAIN events'[b] = 1..k
                 /\ snapshots[b].version \in {0} \cup DOMAIN events'[b]
                 /\ snapshots[b].payload = [x \in 1..snapshots[b].version |-> events'[b][x]]
        <3>1. \E k \in 0..MaxVersion : DOMAIN events'[b] = 1..k
            BY ZenonT(30), <1>21 DEF StoreType
        <3>2. /\ snapshots[b].version \in {0} \cup DOMAIN events[b]
              /\ snapshots[b].payload = Prefix(b, snapshots[b].version)
            BY DEF EInv, RebuildIsReplay
        <3> QED BY ZenonT(30), <1>19, <3>1, <3>2
    <2> QED BY <1>22, <2>1 DEF RebuildIsReplay, Prefix
<1>26. PICK q : q = Ack(w, f)
    OBVIOUS
<1>27. /\ q.agg = a /\ q.version = n /\ q.batch = f.batch /\ q.state = Prefix(a, n)
       /\ AckOK(q)' /\ Versions(q) = (n + 1)..(n + m)
    <2>1. q.agg = a /\ q.version = n /\ q.batch = f.batch /\ q.state = Prefix(a, n)
        BY <1>2, <1>5, <1>9, <1>26 DEF Ack
    <2>2. Versions(q) = Versions(f)
        BY Zenon, <1>9, <2>1 DEF Versions
    <2>3. AckOK(q)'
        BY <1>5, <1>6, <1>9, <1>19, <2>1 DEF AckOK
    <2> QED BY <1>10, <2>1, <2>2, <2>3
<1>28. \A r \in acked' : r \in acked \/ r = q
    BY <1>1, <1>26
<1>29. \A r \in acked' : AckOK(r)'
    BY <1>24, <1>27, <1>28
<1>30. ASSUME NEW r \in acked'
       PROVE  /\ r.state = [x \in 1..r.version |-> events'[r.agg][x]]
              /\ \A i \in DOMAIN r.batch : /\ r.version + i \in DOMAIN events'[r.agg]
                                            /\ events'[r.agg][r.version + i] = r.batch[i]
    <2>1. CASE r \in acked
        <3>1. r.agg \in Aggregate /\ r.version \in {0} \cup DOMAIN events[r.agg]
            BY <1>24, <2>1 DEF AckOK
        <3>2. /\ r.state = Prefix(r.agg, r.version)
              /\ \A i \in DOMAIN r.batch : /\ r.version + i \in DOMAIN events[r.agg]
                                            /\ events[r.agg][r.version + i] = r.batch[i]
            BY <2>1 DEF EInv, AppendsSerialised
        <3>3. r.state = [x \in 1..r.version |-> events'[r.agg][x]]
            BY ZenonT(30), <1>19, <3>1, <3>2
        <3> QED BY <1>18, <3>1, <3>2, <3>3
    <2>2. CASE r = q
        <3>1. q.state = [x \in 1..n |-> events'[a][x]]
            BY <1>5, <1>9, <1>19, <1>27
        <3>2. \A i \in 1..m : n + i \in 1..(n + m)
            BY <1>6, <1>8
        <3> QED BY ZenonT(60), <1>6, <1>13, <1>16, <1>27, <2>2, <3>1, <3>2
    <2> QED BY <1>28, <2>1, <2>2
<1>31. ASSUME NEW r \in acked, r.agg = a
       PROVE  Versions(r) \cap Versions(q) = {}
    <2>1. Versions(r) \subseteq DOMAIN events[a]
        BY <1>31 DEF EInv, AppendsSerialised, Versions
    <2>2. (1..n) \cap ((n + 1)..(n + m)) = {}
        BY <1>6, <1>8
    <2> QED BY <1>14, <1>27, <2>1, <2>2
<1>32. \A r, s \in acked' : r # s /\ r.agg = s.agg => Versions(r) \cap Versions(s) = {}
    <2>1. \A r, s \in acked : r # s /\ r.agg = s.agg => Versions(r) \cap Versions(s) = {}
        BY DEF EInv, AppendsSerialised
    <2> QED BY Zenon, <1>27, <1>28, <1>31, <2>1
<1>33. AppendsSerialised'
    BY ZenonT(30), <1>30, <1>32 DEF AppendsSerialised, Prefix, Versions
<1> QED BY <1>21, <1>23, <1>25, <1>29, <1>33 DEF EInv

-----------------------------------------------------------------------------
(* The theorems.                                                           *)

\* An empty store.
LEMMA EInit == StoreInit => EInv
<1> SUFFICES ASSUME StoreInit PROVE EInv
    OBVIOUS
<1>1. /\ DOMAIN events = Aggregate /\ DOMAIN snapshots = Aggregate /\ DOMAIN wr = Writer
      /\ \A a \in Aggregate : events[a] = <<>> /\ snapshots[a] = NoSnapshot
      /\ \A w \in Writer : wr[w] = Rest
      /\ acked = {}
    BY DEF StoreInit
<1>2. /\ 0 \in 0..MaxVersion /\ <<>> \in [1..0 -> Payload] /\ DOMAIN <<>> = 1..0
      /\ NoSnapshot \in [version : 0..MaxVersion, payload : Seq(Payload)]
      /\ NoSnapshot.version = 0 /\ NoSnapshot.payload = <<>>
    BY EventStoreAssumption DEF NoSnapshot
<1>3. StoreType
    BY <1>1, <1>2, RestOK DEF StoreType
<1>4. \A w \in Writer : FrameOK(wr[w])
    BY <1>1, RestOK
<1>5. RebuildIsReplay
    <2>1. \A a \in Aggregate : Prefix(a, 0) = <<>>
        BY DEF Prefix
    <2> QED BY <1>1, <1>2, <2>1 DEF RebuildIsReplay, Rest
<1>6. AppendsSerialised
    BY <1>1 DEF AppendsSerialised
<1> QED BY <1>1, <1>3, <1>4, <1>5, <1>6 DEF EInv

\* Every call of the store preserves the invariant.
LEMMA EStep == EInv /\ [StoreNext]_storeVars => EInv'
<1> SUFFICES ASSUME EInv, [StoreNext]_storeVars PROVE EInv'
    OBVIOUS
<1>1. ASSUME NEW w \in Writer, AppendEvents(w) PROVE EInv'
    BY <1>1, AppendKeeps DEF AppendEvents, Ack
<1>2. ASSUME NEW w \in Writer, LostAck(w) PROVE EInv'
    BY <1>2, AppendKeeps DEF LostAck
<1>3. CASE UNCHANGED storeVars
    <2>1. /\ events' = events /\ snapshots' = snapshots /\ wr' = wr /\ acked' = acked
        BY <1>3 DEF storeVars
    <2>2. DOMAIN wr' = Writer /\ DOMAIN snapshots' = Aggregate
        BY <2>1 DEF EInv, StoreType
    <2>3. \A v \in Writer : wr'[v] = wr[v] \/ (wr'[v] \in Frame /\ FrameOK(wr'[v]))
        BY Zenon, <2>1
    <2> QED BY <2>1, <2>2, <2>3, WritersMove
<1> QED BY <1>1, <1>2, <1>3, WorkKeeps DEF StoreNext

\* LoadEventsFrom after SnapshotStore.Load rebuilds what a replay from the
\* start gives, whatever other writers append or save between the two queries,
\* and whichever snapshot Save last left there.
THEOREM RebuildAlwaysReplays == StoreSpec => []RebuildIsReplay
<1>1. EInv => RebuildIsReplay
    BY DEF EInv
<1> QED BY EInit, EStep, <1>1, PTL DEF StoreSpec

\* AppendEvents under UNIQUE (aggregate_id, version): an append that returned
\* nil was decided on exactly the events before its own, and no two share a
\* version, however many writers race and whichever answers are lost.
THEOREM AppendsStaySerialised == StoreSpec => []AppendsSerialised
<1>1. EInv => AppendsSerialised
    BY DEF EInv
<1> QED BY EInit, EStep, <1>1, PTL DEF StoreSpec
=============================================================================

------------------------- MODULE OutboxWorkerProofs -------------------------
(***************************************************************************)
(* Proofs about OutboxWorker, for any number of workers, events and        *)
(* failures: its type correctness, that it implements Delivery, the order  *)
(* of delivery and the bound on duplicates.                                *)
(***************************************************************************)
EXTENDS OutboxWorker, SequenceTheorems, FiniteSetTheorems, TLAPS

\* What a worker is about to mark has reached the broker, and so has what is
\* marked.
DoneIsSent ==
    /\ \A x \in published : sends[x] > 0
    /\ \A w \in Worker : \A x \in wk[w].done : sends[x] > 0

\* The inductive invariant.
Inv == TypeOK /\ DoneIsSent

Frame == [pc : {"idle", "fetch", "publish"}, cand : SUBSET Event,
          todo : Seq(Event), done : SUBSET Event]

\* The set of a sequence's elements under the operations processBatch uses.
LEMMA ToSetFacts ==
    ASSUME NEW s \in Seq(Event), NEW x \in Event
    PROVE  /\ Append(s, x) \in Seq(Event)
           /\ ToSet(Append(s, x)) = ToSet(s) \cup {x}
           /\ s # <<>> => /\ Head(s) \in ToSet(s) /\ Head(s) \in Event
                          /\ Tail(s) \in Seq(Event)
                          /\ ToSet(Tail(s)) \subseteq ToSet(s)
<1>1. Append(s, x) \in Seq(Event)
    OBVIOUS
<1>2. ToSet(Append(s, x)) = ToSet(s) \cup {x}
    <2>1. DOMAIN Append(s, x) = 1..(Len(s) + 1) /\ DOMAIN s = 1..Len(s)
        OBVIOUS
    <2>2. \A i \in 1..Len(s) : Append(s, x)[i] = s[i]
        OBVIOUS
    <2>3. Append(s, x)[Len(s) + 1] = x
        OBVIOUS
    <2>4. \A i \in 1..(Len(s) + 1) : i \in 1..Len(s) \/ i = Len(s) + 1
        OBVIOUS
    <2>5. 1..Len(s) \subseteq 1..(Len(s) + 1) /\ Len(s) + 1 \in 1..(Len(s) + 1)
        OBVIOUS
    <2> QED BY <2>1, <2>2, <2>3, <2>4, <2>5 DEF ToSet
<1>3. ASSUME s # <<>>
      PROVE  /\ Head(s) \in ToSet(s) /\ Head(s) \in Event
             /\ Tail(s) \in Seq(Event)
             /\ ToSet(Tail(s)) \subseteq ToSet(s)
    <2>1. 1 \in DOMAIN s /\ Head(s) = s[1] /\ s[1] \in Event
        BY <1>3
    <2>2. Tail(s) \in Seq(Event) /\ DOMAIN Tail(s) = 1..(Len(s) - 1)
        BY <1>3
    <2>3. \A i \in DOMAIN Tail(s) : i + 1 \in DOMAIN s /\ Tail(s)[i] = s[i + 1]
        BY <1>3
    <2> QED BY <2>1, <2>2, <2>3 DEF ToSet
<1> QED BY <1>1, <1>2, <1>3

\* The frame of one worker is replaced by a well formed one.
LEMMA OneFrame ==
    ASSUME Inv, NEW w \in Worker, NEW f, wk' = [wk EXCEPT ![w] = f],
           UNCHANGED <<writing, published>>, failed' \in Nat, late' \subseteq Event,
           sends' \in [Event -> Nat], \A x \in Event : sends'[x] >= sends[x],
           f \in Frame, f.cand \cup ToSet(f.todo) \cup f.done \subseteq log,
           \A x \in f.done : sends'[x] > 0
    PROVE  Inv'
<1>1. wk' \in [Worker -> Frame] /\ \A v \in Worker : wk'[v] = IF v = w THEN f ELSE wk[v]
    BY DEF Inv, TypeOK, Frame
<1>2. TypeOK'
    BY <1>1 DEF Inv, TypeOK, Frame, writing
<1>3. \A x \in log : sends[x] > 0 => sends'[x] > 0
    BY DEF Inv, TypeOK
<1>4. DoneIsSent'
    BY <1>1, <1>3 DEF Inv, TypeOK, DoneIsSent, writing
<1> QED BY <1>2, <1>4 DEF Inv

\* The same for a step that publishes nothing.
LEMMA QuietFrame ==
    ASSUME Inv, NEW w \in Worker, NEW f, wk' = [wk EXCEPT ![w] = f],
           UNCHANGED <<writing, published, sends>>, failed' \in Nat, late' \subseteq Event,
           f \in Frame, f.cand \cup ToSet(f.todo) \cup f.done \subseteq log,
           f.done \subseteq wk[w].done
    PROVE  Inv'
<1>1. sends' \in [Event -> Nat] /\ \A x \in Event : sends'[x] >= sends[x]
    BY DEF Inv, TypeOK
<1>2. \A x \in f.done : sends'[x] > 0
    BY DEF Inv, DoneIsSent
<1>3. UNCHANGED <<writing, published>>
    OBVIOUS
<1> QED BY ZenonT(30), <1>1, <1>2, <1>3, OneFrame

\* The steps of AppendWithOutbox keep the invariant.
LEMMA WritingKeeps ==
    ASSUME Inv, BeginAppend \/ \E B \in open : AppendWithOutbox(B) \/ RollBack(B)
    PROVE  Inv'
<1>1. CASE BeginAppend
    <2>1. PICK n \in 1..MaxAppend :
              /\ begun + n <= MaxEvents
              /\ begun' = begun + n
              /\ open' = open \cup {(begun + 1)..(begun + n)}
              /\ refused' \in {refused, refused \cup ((begun + 1)..(begun + n))}
              /\ UNCHANGED <<log, outbox, published, wk, failed, sends, late>>
        BY <1>1 DEF BeginAppend
    <2>2. begun \in Nat /\ n \in Nat /\ n >= 1 /\ MaxEvents \in Nat
        BY OutboxAssumption DEF Inv, TypeOK
    <2>3. begun + 1 \in Event /\ begun + n \in Event /\ begun + 1 <= begun + n
        BY <2>1, <2>2 DEF Event
    <2>4. (begun + 1)..(begun + n) \subseteq Event
        BY <2>1, <2>2 DEF Event
    <2>5. refused' \subseteq Event /\ begun' \in 0..MaxEvents
        <3>1. begun' \in 0..MaxEvents
            BY <2>1, <2>2
        <3>2. refused' \subseteq Event
            BY <2>1, <2>4 DEF Inv, TypeOK
        <3> QED BY <3>1, <3>2
    <2>6. \A B \in open' : \E x, y \in Event : x <= y /\ B = x..y
        BY <2>1, <2>3 DEF Inv, TypeOK
    <2>7. TypeOK'
        BY <2>1, <2>5, <2>6 DEF Inv, TypeOK
    <2> QED BY <2>1, <2>7 DEF Inv, DoneIsSent
<1>2. ASSUME NEW B \in open, AppendWithOutbox(B)
      PROVE  Inv'
    <2>1. PICK x \in Event, y \in Event : x <= y /\ B = x..y
        BY DEF Inv, TypeOK
    <2>2. B \subseteq Event /\ x \in B /\ \A z \in B : x <= z
        <3>1. x \in Nat /\ y \in Nat /\ 1 <= x /\ y <= MaxEvents /\ MaxEvents \in Nat
            BY OutboxAssumption DEF Event
        <3> QED BY <2>1, <3>1 DEF Event
    <2>3. CreatedAt(B) \in Event
        BY <2>2 DEF CreatedAt
    <2>4. /\ open' \subseteq open /\ log' = log \cup B
          /\ late' \subseteq late \cup B
          /\ UNCHANGED <<begun, refused, published, wk, failed, sends>>
        BY <1>2 DEF AppendWithOutbox
    <2>5. outbox' \in [log' -> Event]
        BY <1>2, <2>2, <2>3, <2>4 DEF AppendWithOutbox, InsertOutbox, Inv, TypeOK
    <2>6. TypeOK'
        BY <2>2, <2>4, <2>5 DEF Inv, TypeOK
    <2> QED BY <2>4, <2>6 DEF Inv, DoneIsSent
<1>3. ASSUME NEW B \in open, RollBack(B)
      PROVE  Inv'
    <2>1. failed' \in Nat
        BY <1>3 DEF RollBack, Fail, Inv, TypeOK
    <2>2. TypeOK'
        BY <1>3, <2>1 DEF RollBack, Inv, TypeOK
    <2> QED BY <1>3, <2>2 DEF RollBack, Inv, DoneIsSent
<1> QED BY <1>1, <1>2, <1>3

\* The steps of processBatch keep the invariant.
LEMMA ProcessKeeps ==
    ASSUME Inv, NEW w \in Worker, Process(w) \/ PublishFails(w) \/ GiveUp(w)
    PROVE  Inv'
<1> DEFINE f == wk[w]
           r == Head(f.todo)
<1>1. /\ f \in Frame /\ f.cand \cup ToSet(f.todo) \cup f.done \subseteq log
      /\ \A x \in f.done : sends[x] > 0
    BY DEF Inv, TypeOK, DoneIsSent, Frame
<1>2. /\ log \subseteq Event /\ late \subseteq Event /\ failed \in Nat
      /\ sends \in [Event -> Nat] /\ DOMAIN outbox = log
    BY DEF Inv, TypeOK
<1>3. Waiting \in Frame /\ Waiting.cand \cup ToSet(Waiting.todo) \cup Waiting.done = {}
    BY DEF Waiting, Frame, ToSet
<1>4. ASSUME f.todo # <<>>
      PROVE  /\ r \in log /\ NextEntry(f) \in Frame
             /\ NextEntry(f).cand = f.cand /\ NextEntry(f).done = f.done
             /\ ToSet(NextEntry(f).todo) \subseteq log
    <2>1. f.todo \in Seq(Event)
        BY <1>1 DEF Frame
    <2>2. /\ r \in ToSet(f.todo) /\ r \in Event /\ Tail(f.todo) \in Seq(Event)
          /\ ToSet(Tail(f.todo)) \subseteq ToSet(f.todo)
        <3>1. f.todo[1] \in Event
            BY <1>4, <2>1
        <3> QED BY <1>4, <2>1, <3>1, ToSetFacts
    <2> QED BY ZenonT(30), <1>1, <2>2 DEF NextEntry, Frame
<1> HIDE DEF r
<1>5. CASE BeginFetch(w)
    <2> DEFINE C == DOMAIN outbox \ published
               g == [Waiting EXCEPT !.pc = "fetch", !.cand = C]
    <2>1. wk' = [wk EXCEPT ![w] = g] /\ UNCHANGED <<writing, published, failed, sends, late>>
        BY <1>5 DEF BeginFetch, SetFrame
    <2>2. C \subseteq log /\ C \in SUBSET Event
        BY <1>2
    <2> HIDE DEF C
    <2>3. g \in Frame /\ g.todo = Waiting.todo /\ g.done = {} /\ g.cand \subseteq log
        BY ZenonT(30), <1>3, <2>2 DEF Waiting, Frame
    <2> HIDE DEF g
    <2> QED BY ZenonT(30), <1>2, <1>3, <2>1, <2>3, QuietFrame
<1>6. CASE LockRow(w)
    <2>1. PICK x \in Oldest(f.cand) :
              wk' = [wk EXCEPT ![w] = [f EXCEPT !.cand = f.cand \ {x},
                                 !.todo = IF x \in Locked(w) \cup published
                                          THEN f.todo ELSE Append(f.todo, x)]]
        BY ZenonT(30), <1>6 DEF LockRow, SetFrame
    <2> DEFINE t == IF x \in Locked(w) \cup published THEN f.todo ELSE Append(f.todo, x)
               g == [f EXCEPT !.cand = f.cand \ {x}, !.todo = t]
    <2>2. x \in f.cand /\ x \in log /\ x \in Event
        BY <1>1, <1>2 DEF Oldest
    <2>3. t \in Seq(Event) /\ ToSet(t) \subseteq log
        BY <1>1, <2>2, ToSetFacts DEF Frame
    <2> HIDE DEF t
    <2>4. g \in Frame /\ g.cand \cup ToSet(g.todo) \cup g.done \subseteq log /\ g.done = f.done
        BY ZenonT(30), <1>1, <2>3 DEF Frame
    <2>5. UNCHANGED <<writing, published, failed, sends, late>>
        BY <1>6 DEF LockRow
    <2>6. wk' = [wk EXCEPT ![w] = g]
        BY <2>1 DEF t
    <2> HIDE DEF g
    <2> QED BY ZenonT(30), <1>2, <2>4, <2>5, <2>6, QuietFrame
<1>7. CASE EndFetch(w)
    <2> DEFINE g == [f EXCEPT !.pc = "publish", !.cand = {}]
    <2>1. g \in Frame /\ g.cand \cup ToSet(g.todo) \cup g.done \subseteq log /\ g.done = f.done
        BY ZenonT(30), <1>1 DEF Frame
    <2>2. wk' = [wk EXCEPT ![w] = g] /\ UNCHANGED <<writing, published, failed, sends, late>>
        BY <1>7 DEF EndFetch, SetFrame
    <2> HIDE DEF g
    <2> QED BY ZenonT(30), <1>2, <2>1, <2>2, QuietFrame
<1>8. CASE Publish(w)
    <2> DEFINE g == [NextEntry(f) EXCEPT !.done = @ \cup {r}]
    <2>1. /\ f.todo # <<>> /\ sends' = [sends EXCEPT ![r] = @ + 1]
          /\ wk' = [wk EXCEPT ![w] = g] /\ UNCHANGED <<writing, published, failed, late>>
        BY <1>8 DEF Publish, SetFrame, r
    <2>2. /\ g \in Frame /\ g.cand \cup ToSet(g.todo) \cup g.done \subseteq log
          /\ g.done = f.done \cup {r} /\ r \in Event
        BY ZenonT(30), <1>1, <1>2, <1>4, <2>1 DEF Frame
    <2>3. /\ sends' \in [Event -> Nat] /\ \A x \in Event : sends'[x] >= sends[x]
          /\ sends'[r] > 0
        BY <1>2, <2>1, <2>2
    <2>4. \A x \in f.done \cup {r} : sends'[x] > 0
        BY <1>1, <1>2, <2>3
    <2> HIDE DEF g
    <2> QED BY ZenonT(30), <1>2, <2>1, <2>2, <2>3, <2>4, OneFrame
<1>9. CASE PublishRefused(w)
    <2>1. /\ f.todo # <<>> /\ late' = late \cup {r}
          /\ wk' = [wk EXCEPT ![w] = NextEntry(f)]
          /\ UNCHANGED <<writing, published, failed, sends>>
        BY <1>9 DEF PublishRefused, SetFrame, r
    <2>2. late' \subseteq Event
        BY <1>2, <1>4, <2>1
    <2> QED BY ZenonT(30), <1>1, <1>4, <2>1, <2>2, <1>2, QuietFrame
<1>10. CASE PublishFails(w)
    <2>1. /\ f.todo # <<>> /\ failed' \in Nat
          /\ wk' = [wk EXCEPT ![w] = NextEntry(f)] /\ UNCHANGED <<writing, published>>
        BY <1>2, <1>10 DEF PublishFails, Fail, SetFrame
    <2>2. \/ late' = late \cup {r} /\ UNCHANGED sends
          \/ sends' = [sends EXCEPT ![r] = @ + 1] /\ UNCHANGED late
        BY <1>10 DEF PublishFails, r
    <2>3. /\ late' \subseteq Event /\ sends' \in [Event -> Nat]
          /\ \A x \in Event : sends'[x] >= sends[x]
        BY <1>2, <1>4, <2>1, <2>2
    <2>4. \A x \in f.done : sends'[x] > 0
        BY <1>1, <1>2, <2>3
    <2> QED BY ZenonT(30), <1>1, <1>4, <2>1, <2>3, <2>4, OneFrame
<1>11. CASE MarkPublished(w)
    <2>1. /\ wk' = [wk EXCEPT ![w] = Waiting] /\ published' = published \cup f.done
          /\ UNCHANGED <<writing, failed, sends, late>>
        BY <1>11 DEF MarkPublished, SetFrame
    <2>2. \A v \in Worker : wk'[v] = IF v = w THEN Waiting ELSE wk[v]
        BY <2>1 DEF Inv, TypeOK
    <2>3. wk' \in [Worker -> Frame]
        BY <1>3, <2>1 DEF Inv, TypeOK, Frame
    <2>4. published' \subseteq log /\ \A x \in published' : sends[x] > 0
        BY <1>1, <2>1 DEF Inv, TypeOK, DoneIsSent
    <2>5. TypeOK'
        BY <1>3, <2>1, <2>2, <2>3, <2>4 DEF Inv, TypeOK, Frame, writing
    <2>6. DoneIsSent'
        BY <1>3, <2>1, <2>2, <2>4 DEF Inv, DoneIsSent
    <2> QED BY <2>5, <2>6 DEF Inv
<1>12. CASE GiveUp(w)
    <2>1. /\ wk' = [wk EXCEPT ![w] = Waiting] /\ late' = late \cup ToSet(f.todo)
          /\ failed' \in Nat /\ UNCHANGED <<writing, published, sends>>
        BY <1>2, <1>12 DEF GiveUp, Fail, SetFrame
    <2> QED BY ZenonT(30), <1>1, <1>2, <1>3, <2>1, QuietFrame
<1> QED BY <1>5, <1>6, <1>7, <1>8, <1>9, <1>10, <1>11, <1>12 DEF Process

\* The invariant holds initially.
LEMMA InitInv == Init => Inv
<1> SUFFICES ASSUME Init PROVE Inv
    OBVIOUS
<1>1. Waiting \in Frame /\ Waiting.cand \cup ToSet(Waiting.todo) \cup Waiting.done = {}
    BY DEF Waiting, Frame, ToSet
<1>2. wk \in [Worker -> Frame] /\ \A w \in Worker : wk[w] = Waiting
    BY <1>1 DEF Init
<1>3. outbox \in [log -> Event]
    BY DEF Init
<1>4. begun \in 0..MaxEvents /\ failed \in Nat /\ sends \in [Event -> Nat]
    BY OutboxAssumption DEF Init
<1>5. TypeOK
    BY <1>1, <1>2, <1>3, <1>4 DEF Init, TypeOK, Frame
<1> QED BY <1>1, <1>2, <1>5 DEF Init, Inv, DoneIsSent

\* Every step keeps the invariant.
LEMMA NextInv == Inv /\ [Next]_vars => Inv'
<1> SUFFICES ASSUME Inv, [Next]_vars PROVE Inv'
    OBVIOUS
<1>1. CASE UNCHANGED vars
    BY <1>1 DEF vars, writing, Inv, TypeOK, DoneIsSent
<1>2. CASE Next
    BY <1>2, WritingKeeps, ProcessKeeps DEF Next
<1> QED BY <1>1, <1>2

\* The outbox is type correct: outbox and event store hold the same events, and
\* a worker holds only rows of the outbox, for any number of workers.
THEOREM OutboxTypeCorrect == Spec => []TypeOK
<1>1. Inv => TypeOK
    BY DEF Inv
<1> QED BY <1>1, InitInv, NextInv, PTL DEF Spec

\* Each step of the outbox is a step of Delivery or leaves it alone.
LEMMA StepRefines == Inv /\ [Next]_vars => [D!Next]_(D!vars)
<1> DEFINE delivered == {x \in Event : sends[x] > 0}
<1> SUFFICES ASSUME Inv, [Next]_vars
             PROVE  D!Next \/ UNCHANGED <<log, delivered, published>>
    BY DEF D!vars
<1>1. ASSUME NEW B \in open, AppendWithOutbox(B) PROVE D!Commit
    <2>1. PICK x \in Event, y \in Event : x <= y /\ B = x..y
        BY DEF Inv, TypeOK
    <2>2. x \in Nat /\ y \in Nat /\ 1 <= x /\ y <= MaxEvents /\ MaxEvents \in Nat
        BY OutboxAssumption DEF Event
    <2>3. B \subseteq Event
        BY <2>1, <2>2 DEF Event
    <2>4. log' = log \cup (B \ log) /\ UNCHANGED <<published, sends>>
        BY <1>1 DEF AppendWithOutbox
    <2> QED BY ZenonT(30), <2>3, <2>4 DEF D!Commit
<1>2. ASSUME NEW w \in Worker, wk[w].todo # <<>>, UNCHANGED <<writing, published>>,
             sends' = [sends EXCEPT ![Head(wk[w].todo)] = @ + 1]
      PROVE  D!Deliver
    <2> DEFINE r == Head(wk[w].todo)
    <2>1. wk[w].todo \in Seq(Event) /\ ToSet(wk[w].todo) \subseteq log
        BY DEF Inv, TypeOK
    <2>2. wk[w].todo[1] \in Event
        BY <1>2, <2>1
    <2>3. r \in log /\ r \in Event
        BY <1>2, <2>1, <2>2, ToSetFacts
    <2> HIDE DEF r
    <2>4. sends \in [Event -> Nat]
        BY DEF Inv, TypeOK
    <2>5. sends' = [sends EXCEPT ![r] = @ + 1]
        BY <1>2 DEF r
    <2>6. delivered' = delivered \cup {r}
        BY <2>3, <2>4, <2>5
    <2>7. UNCHANGED <<log, published>>
        BY <1>2 DEF writing
    <2> QED BY <2>3, <2>6, <2>7 DEF D!Deliver
<1>3. ASSUME NEW w \in Worker, MarkPublished(w) PROVE D!Settle
    <2>1. published' = published \cup wk[w].done /\ UNCHANGED <<log, sends>>
        BY <1>3 DEF MarkPublished, writing
    <2>2. wk[w].done \subseteq delivered
        BY DEF Inv, TypeOK, DoneIsSent
    <2> QED BY <2>1, <2>2 DEF D!Settle
<1>4. ASSUME UNCHANGED <<log, published, sends>>
      PROVE  UNCHANGED <<log, delivered, published>>
    BY <1>4
<1>5. CASE UNCHANGED vars
    BY <1>4, <1>5 DEF vars, writing
<1>6. CASE BeginAppend \/ \E B \in open : RollBack(B)
    BY <1>4, <1>6 DEF BeginAppend, RollBack
<1>7. CASE \E w \in Worker : BeginFetch(w) \/ LockRow(w) \/ EndFetch(w) \/ GiveUp(w)
    BY ZenonT(30), <1>4, <1>7 DEF BeginFetch, LockRow, EndFetch, GiveUp, writing
<1>8. CASE \E w \in Worker : Publish(w)
    BY ZenonT(30), <1>2, <1>8 DEF Publish, D!Next
<1>9. CASE \E w \in Worker : PublishRefused(w)
    BY <1>4, <1>9 DEF PublishRefused, writing
<1>10. CASE \E w \in Worker : PublishFails(w)
    <2>1. PICK w \in Worker : PublishFails(w)
        BY <1>10
    <2>2. CASE UNCHANGED sends
        BY <1>4, <2>1, <2>2 DEF PublishFails, writing
    <2>3. CASE sends' = [sends EXCEPT ![Head(wk[w].todo)] = @ + 1]
        BY ZenonT(30), <1>2, <2>1, <2>3 DEF PublishFails, D!Next
    <2> QED BY <2>1, <2>2, <2>3 DEF PublishFails
<1> QED BY <1>1, <1>3, <1>5, <1>6, <1>7, <1>8, <1>9, <1>10 DEF Next, Process, D!Next

\* At least once delivery, for any number of workers and failures: only events
\* of the event store reach the broker, and only what reached it is ever marked
\* as published.
THEOREM OutboxDelivers == Spec => ImplementsDelivery
<1>1. Init => D!Init
    BY DEF Init, D!Init
<1> QED BY <1>1, InitInv, NextInv, StepRefines, PTL DEF Spec, ImplementsDelivery, D!Spec
-----------------------------------------------------------------------------
(* Order.                                                                  *)

Held(x) == \E w \in Worker : x \in ToSet(wk[w].todo)

\* What frame f holds is in order, and what its SELECT has still to look at comes
\* after.
SortedFrame(f) ==
    /\ \A i, j \in DOMAIN f.todo : i < j => outbox[f.todo[i]] <= outbox[f.todo[j]]
    /\ \A i \in DOMAIN f.todo, c \in f.cand : outbox[f.todo[i]] <= outbox[c]

\* x should reach the broker before y and has not reached it.
Ahead(x, y) ==
    x \in log /\ y \in log /\ outbox[x] < outbox[y] /\ sends[x] = 0 /\ x \notin late

\* Then y has been sent or is held only while some worker holds x, and a SELECT
\* that will see y will see x first, or x is held.
Chain ==
    \A x, y \in log : Ahead(x, y) =>
        /\ sends[y] > 0 => Held(x)
        /\ \A w \in Worker : /\ y \in ToSet(wk[w].todo) => Held(x)
                             /\ y \in wk[w].cand => x \in wk[w].cand \/ Held(x)

\* The events of an open append are its own.
OpenApart ==
    /\ log \subseteq 1..begun
    /\ \A B \in open : /\ B \subseteq 1..begun /\ B \cap log = {}
                       /\ \A C \in open : C # B => C \cap B = {}

\* The inductive invariant of the order.
OrderInv ==
    /\ OpenApart
    /\ \A x \in Event : sends[x] > 0 => x \in log
    /\ \A w \in Worker : SortedFrame(wk[w]) /\ (wk[w].pc = "idle" => wk[w] = Waiting)
    /\ Chain

\* One worker's step keeps the order: what it lets go of has been sent or given
\* up, what it sends it held, and what it takes it takes in order.
LEMMA OrderFrame ==
    ASSUME Inv, Inv', OrderInv, NEW w \in Worker, NEW f, wk' = [wk EXCEPT ![w] = f],
           UNCHANGED writing, late \subseteq late',
           \A x \in Event : sends'[x] = 0 => sends[x] = 0,
           \A x \in Event : sends'[x] > 0 /\ sends[x] = 0 => x \in ToSet(wk[w].todo),
           \A x \in ToSet(wk[w].todo) : x \in ToSet(f.todo) \/ sends'[x] > 0 \/ x \in late',
           SortedFrame(f), f.pc = "idle" => f = Waiting,
           \A x, y \in log : Ahead(x, y) =>
               /\ y \in ToSet(f.todo) => Held(x)
               /\ y \in f.cand => x \in f.cand \/ Held(x) \/ x \in ToSet(f.todo)
    PROVE  OrderInv'
<1>1. \A v \in Worker : wk'[v] = IF v = w THEN f ELSE wk[v]
    BY DEF Inv, TypeOK
<1>2. log' = log /\ outbox' = outbox
    BY DEF writing
<1>3. /\ sends \in [Event -> Nat] /\ sends' \in [Event -> Nat] /\ log \subseteq Event
      /\ ToSet(wk[w].todo) \subseteq log
    BY DEF Inv, TypeOK
<1>4. \A x \in Event : sends'[x] > 0 => x \in log'
    BY <1>2, <1>3 DEF OrderInv
<1>5. \A v \in Worker : SortedFrame(wk[v])' /\ (wk'[v].pc = "idle" => wk'[v] = Waiting)
    BY <1>1, <1>2 DEF OrderInv, SortedFrame
<1>6. Chain'
    <2> SUFFICES ASSUME NEW x \in log, NEW y \in log, Ahead(x, y)'
                 PROVE  /\ sends'[y] > 0 => Held(x)'
                        /\ \A v \in Worker :
                              /\ y \in ToSet(wk'[v].todo) => Held(x)'
                              /\ y \in wk'[v].cand => x \in wk'[v].cand \/ Held(x)'
        BY <1>2 DEF Chain
    <2>1. Ahead(x, y) /\ sends'[x] = 0 /\ x \notin late'
        BY <1>2, <1>3 DEF Ahead
    <2>2. Held(x) => Held(x)'
        BY <1>1, <1>3, <2>1 DEF Held
    <2>3. x \in ToSet(f.todo) => Held(x)'
        BY <1>1 DEF Held
    <2>4. /\ sends[y] > 0 => Held(x)
          /\ \A v \in Worker : /\ y \in ToSet(wk[v].todo) => Held(x)
                               /\ y \in wk[v].cand => x \in wk[v].cand \/ Held(x)
        BY <2>1 DEF OrderInv, Chain
    <2>5. /\ y \in ToSet(f.todo) => Held(x)
          /\ y \in f.cand => x \in f.cand \/ Held(x) \/ x \in ToSet(f.todo)
        BY <2>1
    <2>6. sends'[y] > 0 => Held(x)
        <3>1. y \in Event /\ sends[y] \in Nat
            BY <1>3
        <3>2. sends'[y] > 0 /\ sends[y] = 0 => y \in ToSet(wk[w].todo)
            BY <3>1
        <3>3. sends[y] = 0 \/ sends[y] > 0
            BY <3>1
        <3> QED BY <2>4, <3>2, <3>3
    <2>7. \A v \in Worker :
              /\ y \in ToSet(wk'[v].todo) => Held(x)
              /\ y \in wk'[v].cand => x \in wk'[v].cand \/ Held(x) \/ x \in ToSet(f.todo)
        BY <1>1, <2>4, <2>5
    <2> QED BY <2>2, <2>3, <2>6, <2>7
<1>7. OpenApart'
    BY DEF OrderInv, OpenApart, writing
<1> QED BY <1>4, <1>5, <1>6, <1>7 DEF OrderInv
\* The same for a step that publishes nothing.
LEMMA QuietOrder ==
    ASSUME Inv, Inv', OrderInv, NEW w \in Worker, NEW f, wk' = [wk EXCEPT ![w] = f],
           UNCHANGED <<writing, sends>>, late \subseteq late',
           \A x \in ToSet(wk[w].todo) : x \in ToSet(f.todo) \/ x \in late',
           SortedFrame(f), f.pc = "idle" => f = Waiting,
           \A x, y \in log : Ahead(x, y) =>
               /\ y \in ToSet(f.todo) => Held(x)
               /\ y \in f.cand => x \in f.cand \/ Held(x) \/ x \in ToSet(f.todo)
    PROVE  OrderInv'
<1>1. /\ \A x \in Event : sends'[x] = 0 => sends[x] = 0
      /\ \A x \in Event : sends'[x] > 0 /\ sends[x] = 0 => x \in ToSet(wk[w].todo)
    BY DEF Inv, TypeOK
<1>2. UNCHANGED writing
    OBVIOUS
<1>3. \A x \in ToSet(wk[w].todo) : x \in ToSet(f.todo) \/ sends'[x] > 0 \/ x \in late'
    OBVIOUS
<1> QED BY ZenonT(30), <1>1, <1>2, <1>3, OrderFrame

\* The commit of an append keeps the order.
LEMMA OrderAppend ==
    ASSUME Inv, Inv', OrderInv, NEW B \in open, AppendWithOutbox(B)
    PROVE  OrderInv'
<1>1. /\ log' = log \cup B /\ UNCHANGED <<published, wk, sends>>
      /\ late' = IF \E y \in log : outbox[y] > CreatedAt(B) THEN late \cup B ELSE late
      /\ InsertOutbox(B)
    BY DEF AppendWithOutbox
<1>2. /\ log \subseteq Event /\ log' \subseteq Event /\ sends \in [Event -> Nat]
      /\ outbox \in [log -> Event] /\ outbox' \in [log' -> Event]
      /\ \A w \in Worker : wk[w].cand \cup ToSet(wk[w].todo) \subseteq log
    BY DEF Inv, TypeOK
<1>3. B \cap log = {}
    BY DEF OrderInv, OpenApart
<1>4. /\ \A x \in log : outbox'[x] = outbox[x]
      /\ \A x \in B : outbox'[x] = CreatedAt(B)
    BY <1>1, <1>2, <1>3 DEF InsertOutbox
<1>5. \A x \in Event : sends'[x] > 0 => x \in log'
    BY <1>1 DEF OrderInv
<1>6. \A w \in Worker : SortedFrame(wk[w])' /\ (wk'[w].pc = "idle" => wk'[w] = Waiting)
    <2> SUFFICES ASSUME NEW w \in Worker PROVE SortedFrame(wk[w])'
        BY <1>1 DEF OrderInv
    <2>1. \A i \in DOMAIN wk[w].todo : wk[w].todo[i] \in log
        BY <1>2 DEF ToSet
    <2> QED BY <1>1, <1>2, <1>4, <2>1 DEF OrderInv, SortedFrame
<1>7. Chain'
    <2> SUFFICES ASSUME NEW x \in log', NEW y \in log', Ahead(x, y)'
                 PROVE  /\ sends[y] > 0 => Held(x)
                        /\ \A v \in Worker :
                              /\ y \in ToSet(wk[v].todo) => Held(x)
                              /\ y \in wk[v].cand => x \in wk[v].cand \/ Held(x)
        BY <1>1 DEF Chain, Held
    <2>1. CASE y \notin log
        BY <1>2, <2>1 DEF OrderInv
    <2>2. CASE y \in log /\ x \in log
        <3>1. Ahead(x, y)
            BY <1>1, <1>4, <2>2 DEF Ahead
        <3> QED BY <2>2, <3>1 DEF OrderInv, Chain
    <2>3. CASE y \in log /\ x \notin log
        <3>1. x \in B /\ outbox[y] > CreatedAt(B)
            <4>1. outbox'[x] < outbox'[y] /\ x \in B
                BY <1>1, <2>3 DEF Ahead
            <4>2. outbox[y] \in Nat /\ CreatedAt(B) \in Nat
                BY <1>2, <1>4, <2>3, <4>1 DEF Event
            <4> QED BY <1>4, <2>3, <4>1, <4>2
        <3>2. x \in late'
            BY <1>1, <2>3, <3>1
        <3> QED BY <3>2 DEF Ahead
    <2> QED BY <2>1, <2>2, <2>3
<1>8. OpenApart'
    BY ZenonT(30) DEF AppendWithOutbox, OrderInv, OpenApart
<1> QED BY <1>5, <1>6, <1>7, <1>8 DEF OrderInv

\* The other steps of the writers keep the order.
LEMMA OrderOpen ==
    ASSUME Inv, OrderInv, BeginAppend \/ \E B \in open : RollBack(B)
    PROVE  OrderInv'
<1>1. UNCHANGED <<log, outbox, published, wk, sends, late>>
    BY DEF BeginAppend, RollBack
<1>2. OpenApart'
    <2>1. CASE BeginAppend
        <3>1. PICK n \in 1..MaxAppend :
                  /\ begun' = begun + n
                  /\ open' = open \cup {(begun + 1)..(begun + n)}
            BY <2>1 DEF BeginAppend
        <3>2. begun \in Nat /\ n \in Nat /\ n >= 1
            BY OutboxAssumption DEF Inv, TypeOK
        <3>3. 1..begun \subseteq 1..(begun + n)
            BY <3>2
        <3>4. /\ (begun + 1)..(begun + n) \subseteq 1..(begun + n)
              /\ ((begun + 1)..(begun + n)) \cap (1..begun) = {}
            BY <3>2
        <3> DEFINE N == (begun + 1)..(begun + n)
                   old == 1..begun
                   all == 1..(begun + n)
        <3>5. /\ N \subseteq all /\ N \cap old = {} /\ old \subseteq all
              /\ open' = open \cup {N} /\ log' = log /\ 1..begun' = all
            BY <1>1, <3>1, <3>3, <3>4
        <3>6. /\ log \subseteq old
              /\ \A B \in open : B \subseteq old /\ B \cap log = {}
              /\ \A B, C \in open : C # B => C \cap B = {}
            BY DEF OrderInv, OpenApart
        <3> HIDE DEF N, old, all
        <3>7. log' \subseteq 1..begun'
            BY ZenonT(30), <3>5, <3>6
        <3>8. \A B \in open' : B \subseteq 1..begun' /\ B \cap log' = {}
            <4>1. \A B \in open : B \subseteq all /\ B \cap log' = {}
                BY <3>5, <3>6
            <4>2. N \subseteq all /\ N \cap log' = {}
                BY <3>5, <3>6
            <4> QED BY ZenonT(30), <3>5, <4>1, <4>2
        <3>9. \A B, C \in open' : C # B => C \cap B = {}
            <4>1. \A B \in open : B \cap N = {} /\ N \cap B = {}
                BY <3>5, <3>6
            <4> QED BY <3>5, <3>6, <4>1
        <3> QED BY <3>7, <3>8, <3>9 DEF OpenApart
    <2>2. CASE \E B \in open : RollBack(B)
        BY <2>2 DEF RollBack, OrderInv, OpenApart
    <2> QED BY <2>1, <2>2
<1> QED BY <1>1, <1>2 DEF OrderInv, Chain, Ahead, Held, SortedFrame
\* The steps of processBatch keep the order.
LEMMA OrderProcess ==
    ASSUME Inv, Inv', OrderInv, NEW w \in Worker,
           Process(w) \/ PublishFails(w) \/ GiveUp(w)
    PROVE  OrderInv'
<1> DEFINE f == wk[w]
           r == Head(f.todo)
<1>1. /\ f \in Frame /\ f.cand \subseteq log /\ ToSet(f.todo) \subseteq log
      /\ log \subseteq Event /\ sends \in [Event -> Nat] /\ sends' \in [Event -> Nat]
      /\ outbox \in [log -> Event]
    BY DEF Inv, TypeOK, Frame
<1>2. SortedFrame(f) /\ (f.pc = "idle" => f = Waiting)
    BY DEF OrderInv
<1>3. \A x, y \in log : Ahead(x, y) =>
          /\ y \in ToSet(f.todo) => Held(x)
          /\ y \in f.cand => x \in f.cand \/ Held(x)
    BY DEF OrderInv, Chain
<1>4. SortedFrame(Waiting) /\ ToSet(Waiting.todo) = {} /\ Waiting.cand = {}
    BY DEF Waiting, SortedFrame, ToSet
<1>5. CASE BeginFetch(w)
    <2> DEFINE C == DOMAIN outbox \ published
               g == [Waiting EXCEPT !.pc = "fetch", !.cand = C]
    <2>1. /\ wk' = [wk EXCEPT ![w] = g] /\ f = Waiting
          /\ UNCHANGED <<writing, published, failed, sends, late>>
        BY <1>2, <1>5 DEF BeginFetch, SetFrame
    <2>2. \A x, y \in log : Ahead(x, y) => x \in C
        BY <1>1 DEF Ahead, Inv, DoneIsSent
    <2> HIDE DEF C
    <2>3. g.todo = <<>> /\ g.cand = C /\ g.pc = "fetch"
        BY DEF Waiting
    <2>4. SortedFrame(g) /\ ToSet(g.todo) = {}
        BY <2>3 DEF SortedFrame, ToSet
    <2> HIDE DEF g
    <2>5. \A x, y \in log : Ahead(x, y) =>
              /\ y \in ToSet(g.todo) => Held(x)
              /\ y \in g.cand => x \in g.cand \/ Held(x) \/ x \in ToSet(g.todo)
        BY <2>2, <2>3, <2>4
    <2> QED BY ZenonT(30), <1>4, <2>1, <2>3, <2>4, <2>5, QuietOrder
<1>6. CASE LockRow(w)
    <2>1. PICK z \in Oldest(f.cand) :
              wk' = [wk EXCEPT ![w] = [f EXCEPT !.cand = f.cand \ {z},
                                 !.todo = IF z \in Locked(w) \cup published
                                          THEN f.todo ELSE Append(f.todo, z)]]
        BY ZenonT(30), <1>6 DEF LockRow, SetFrame
    <2> DEFINE t == IF z \in Locked(w) \cup published THEN f.todo ELSE Append(f.todo, z)
               g == [f EXCEPT !.cand = f.cand \ {z}, !.todo = t]
    <2>2. z \in f.cand /\ z \in log /\ z \in Event /\ \A q \in f.cand : outbox[z] <= outbox[q]
        BY <1>1 DEF Oldest
    <2>3. g.pc = "fetch" /\ g.cand = f.cand \ {z} /\ g.todo = t
        BY <1>1, <1>6 DEF LockRow, Frame
    <2>4. UNCHANGED <<writing, published, failed, sends, late>> /\ wk' = [wk EXCEPT ![w] = g]
        BY <1>6, <2>1 DEF LockRow
    <2> HIDE DEF g
    <2>5. CASE z \in Locked(w) \cup published
        <3>1. t = f.todo
            BY <2>5
        <3>2. SortedFrame(g)
            BY ZenonT(30), <1>2, <2>3, <3>1 DEF SortedFrame
        <3>3. \A y \in log : Ahead(z, y) => Held(z)
            BY <1>1, <2>2, <2>5 DEF Locked, Held, Ahead, Inv, DoneIsSent
        <3>4. \A x, y \in log : Ahead(x, y) =>
                  /\ y \in ToSet(g.todo) => Held(x)
                  /\ y \in g.cand => x \in g.cand \/ Held(x) \/ x \in ToSet(g.todo)
            BY <1>3, <2>3, <3>1, <3>3
        <3> QED BY ZenonT(30), <2>3, <2>4, <3>1, <3>2, <3>4, QuietOrder
    <2>6. CASE z \notin Locked(w) \cup published
        <3>1. t = Append(f.todo, z) /\ f.todo \in Seq(Event)
            BY <1>1, <2>6 DEF Frame
        <3>2. ToSet(t) = ToSet(f.todo) \cup {z}
            BY <2>2, <3>1, ToSetFacts
        <3>3. SortedFrame(g)
            <4>1. /\ DOMAIN t = 1..(Len(f.todo) + 1) /\ DOMAIN f.todo = 1..Len(f.todo)
                  /\ Len(f.todo) \in Nat /\ t[Len(f.todo) + 1] = z
                  /\ \A i \in 1..Len(f.todo) : t[i] = f.todo[i]
                BY <2>2, <3>1
            <4>2. \A i \in DOMAIN t : (i \in DOMAIN f.todo /\ t[i] = f.todo[i]) \/ t[i] = z
                BY <4>1
            <4>3. \A i, j \in DOMAIN t : i < j => i \in DOMAIN f.todo /\ t[i] = f.todo[i]
                BY <4>1
            <4>4. \A i \in DOMAIN f.todo : outbox[f.todo[i]] <= outbox[z]
                BY <1>2, <2>2 DEF SortedFrame
            <4>5. \A i, j \in DOMAIN t : i < j => outbox[t[i]] <= outbox[t[j]]
                BY <1>2, <4>2, <4>3, <4>4 DEF SortedFrame
            <4>6. \A i \in DOMAIN t, c \in f.cand \ {z} : outbox[t[i]] <= outbox[c]
                BY <1>2, <2>2, <4>2 DEF SortedFrame
            <4> QED BY <2>3, <4>5, <4>6 DEF SortedFrame
        <3>4. \A x \in log : Ahead(x, z) => Held(x)
            <4>1. SUFFICES ASSUME NEW x \in log, Ahead(x, z) PROVE x \notin f.cand
                BY <1>3, <2>2
            <4>2. outbox[x] < outbox[z] /\ outbox[x] \in Nat /\ outbox[z] \in Nat
                BY <1>1, <2>2, <4>1 DEF Ahead, Event
            <4> QED BY <2>2, <4>2
        <3> HIDE DEF t
        <3>5. \A x, y \in log : Ahead(x, y) =>
                  /\ y \in ToSet(g.todo) => Held(x)
                  /\ y \in g.cand => x \in g.cand \/ Held(x) \/ x \in ToSet(g.todo)
            BY <1>3, <2>3, <3>2, <3>4
        <3> QED BY ZenonT(30), <2>3, <2>4, <3>2, <3>3, <3>5, QuietOrder
    <2> QED BY <2>5, <2>6
<1>7. CASE EndFetch(w)
    <2> DEFINE g == [f EXCEPT !.pc = "publish", !.cand = {}]
    <2>1. wk' = [wk EXCEPT ![w] = g] /\ UNCHANGED <<writing, published, failed, sends, late>>
        BY <1>7 DEF EndFetch, SetFrame
    <2>2. g.todo = f.todo /\ g.cand = {} /\ g.pc = "publish"
        BY <1>1 DEF Frame
    <2> HIDE DEF g
    <2>3. SortedFrame(g)
        BY <1>2, <2>2 DEF SortedFrame
    <2>4. \A x, y \in log : Ahead(x, y) =>
              /\ y \in ToSet(g.todo) => Held(x)
              /\ y \in g.cand => x \in g.cand \/ Held(x) \/ x \in ToSet(g.todo)
        BY <1>3, <2>2
    <2> QED BY ZenonT(30), <2>1, <2>2, <2>3, <2>4, QuietOrder
<1>8. ASSUME f.todo # <<>>, f.pc = "publish", NEW g, wk' = [wk EXCEPT ![w] = g],
             g.todo = Tail(f.todo), g.cand = f.cand, g.pc = f.pc, UNCHANGED writing,
             \/ late' = late \cup {r} /\ UNCHANGED sends
             \/ sends' = [sends EXCEPT ![r] = @ + 1] /\ UNCHANGED late
      PROVE  OrderInv'
    <2>1. f.todo \in Seq(Event) /\ f.todo[1] \in Event
        BY <1>1, <1>8 DEF Frame
    <2>2. r \in ToSet(f.todo) /\ r \in Event /\ ToSet(Tail(f.todo)) \subseteq ToSet(f.todo)
        BY <1>8, <2>1, ToSetFacts
    <2>3. /\ \A i \in DOMAIN Tail(f.todo) : i + 1 \in DOMAIN f.todo /\ Tail(f.todo)[i] = f.todo[i + 1]
          /\ \A i \in DOMAIN f.todo : i = 1 \/ i - 1 \in DOMAIN Tail(f.todo)
          /\ DOMAIN Tail(f.todo) \subseteq Nat /\ DOMAIN f.todo \subseteq Nat
          /\ r = f.todo[1]
        BY <1>8, <2>1
    <2>4. ToSet(f.todo) \subseteq ToSet(Tail(f.todo)) \cup {r}
        <3> SUFFICES ASSUME NEW i \in DOMAIN f.todo
                     PROVE  f.todo[i] \in ToSet(Tail(f.todo)) \cup {r}
            BY DEF ToSet
        <3>1. CASE i = 1
            BY <2>3, <3>1
        <3>2. CASE i - 1 \in DOMAIN Tail(f.todo)
            <4>1. Tail(f.todo)[i - 1] = f.todo[(i - 1) + 1] /\ (i - 1) + 1 = i
                BY <2>3, <3>2
            <4> QED BY <3>2, <4>1 DEF ToSet
        <3> QED BY <2>3, <3>1, <3>2
    <2>5. SortedFrame(g)
        <3>1. \A i, j \in DOMAIN Tail(f.todo) : i < j => i + 1 < j + 1
            BY <2>3
        <3>2. \A i, j \in DOMAIN f.todo : i < j => outbox[f.todo[i]] <= outbox[f.todo[j]]
            BY <1>2 DEF SortedFrame
        <3>3. \A i, j \in DOMAIN Tail(f.todo) :
                  i < j => outbox[Tail(f.todo)[i]] <= outbox[Tail(f.todo)[j]]
            BY <2>3, <3>1, <3>2
        <3>4. \A i \in DOMAIN Tail(f.todo), c \in f.cand : outbox[Tail(f.todo)[i]] <= outbox[c]
            BY <1>2, <2>3 DEF SortedFrame
        <3> QED BY <1>8, <3>3, <3>4 DEF SortedFrame
    <2>6. /\ late \subseteq late' /\ (sends'[r] > 0 \/ r \in late')
          /\ \A x \in Event : sends'[x] = 0 => sends[x] = 0
          /\ \A x \in Event : sends'[x] > 0 /\ sends[x] = 0 => x = r
        BY <1>1, <1>8, <2>2
    <2>7. \A x \in Event : sends'[x] > 0 /\ sends[x] = 0 => x \in ToSet(f.todo)
        BY <2>2, <2>6
    <2>8. \A x \in ToSet(f.todo) : x \in ToSet(g.todo) \/ sends'[x] > 0 \/ x \in late'
        BY <1>8, <2>4, <2>6
    <2>9. \A x, y \in log : Ahead(x, y) =>
              /\ y \in ToSet(g.todo) => Held(x)
              /\ y \in g.cand => x \in g.cand \/ Held(x) \/ x \in ToSet(g.todo)
        BY <1>3, <1>8, <2>2
    <2>10. g.pc = "idle" => g = Waiting
        BY <1>8
    <2> HIDE DEF r
    <2> QED BY ZenonT(30), <1>8, <2>5, <2>6, <2>7, <2>8, <2>9, <2>10, OrderFrame
<1>9. CASE Publish(w) \/ PublishRefused(w) \/ PublishFails(w)
    <2> DEFINE g1 == [NextEntry(f) EXCEPT !.done = @ \cup {r}]
    <2>1. /\ f.todo # <<>> /\ f.pc = "publish" /\ UNCHANGED writing
          /\ \/ late' = late \cup {r} /\ UNCHANGED sends
             \/ sends' = [sends EXCEPT ![r] = @ + 1] /\ UNCHANGED late
        BY <1>9 DEF Publish, PublishRefused, PublishFails
    <2>2. wk' = [wk EXCEPT ![w] = g1] \/ wk' = [wk EXCEPT ![w] = NextEntry(f)]
        BY <1>9 DEF Publish, PublishRefused, PublishFails, SetFrame
    <2>3. /\ g1.todo = Tail(f.todo) /\ g1.cand = f.cand /\ g1.pc = f.pc
          /\ NextEntry(f).todo = Tail(f.todo) /\ NextEntry(f).cand = f.cand
          /\ NextEntry(f).pc = f.pc
        BY <1>1 DEF NextEntry, Frame
    <2> HIDE DEF g1, r, f
    <2> QED BY <1>8, <2>1, <2>2, <2>3
<1>10. CASE MarkPublished(w) \/ GiveUp(w)
    <2>1. wk' = [wk EXCEPT ![w] = Waiting] /\ UNCHANGED <<writing, sends>>
        BY <1>10 DEF MarkPublished, GiveUp, SetFrame
    <2>2. (f.todo = <<>> /\ UNCHANGED late) \/ late' = late \cup ToSet(f.todo)
        BY <1>10 DEF MarkPublished, GiveUp
    <2>3. ToSet(<<>>) = {}
        BY DEF ToSet
    <2> HIDE DEF f
    <2>4. late \subseteq late' /\ ToSet(f.todo) \subseteq late'
        BY <2>2, <2>3
    <2> USE DEF f
    <2> QED BY ZenonT(30), <1>4, <2>1, <2>4, QuietOrder DEF Waiting
<1> QED BY <1>5, <1>6, <1>7, <1>9, <1>10 DEF Process

\* The broker gets the events in the order of their appends, except past an
\* event that a worker still holds or has given up or that was committed late,
\* for any number of workers: in spite of SKIP LOCKED, whose locks end with the
\* SELECT.
THEOREM OrderIsKept == Spec => []OrderKept
<1>1. Init => OrderInv
    <2> SUFFICES ASSUME Init PROVE OrderInv
        OBVIOUS
    <2>1. SortedFrame(Waiting)
        BY DEF Waiting, SortedFrame
    <2> QED BY <2>1 DEF Init, OrderInv, OpenApart, Chain
<1>2. Inv /\ Inv' /\ OrderInv /\ [Next]_vars => OrderInv'
    <2> SUFFICES ASSUME Inv, Inv', OrderInv, [Next]_vars PROVE OrderInv'
        OBVIOUS
    <2>1. CASE UNCHANGED vars
        BY <2>1 DEF vars, writing, OrderInv, OpenApart, SortedFrame, Chain, Ahead, Held
    <2>2. CASE Next
        BY <2>2, OrderAppend, OrderOpen, OrderProcess DEF Next
    <2> QED BY <2>1, <2>2
<1>3. Inv /\ OrderInv => OrderKept
    BY DEF Inv, TypeOK, OrderInv, Chain, Ahead, Held, OrderKept, SortedFrame
<1> QED BY <1>1, <1>2, <1>3, InitInv, NextInv, PTL DEF Spec

-----------------------------------------------------------------------------
(* How often the broker gets an event.                                     *)

\* No row occurs twice.
Distinct(s) == \A i, j \in DOMAIN s : s[i] = s[j] => i = j

\* A batch holds a row once, and a row it holds is not sent yet.
CleanFrame(f) ==
    /\ f.pc = "idle" => f.todo = <<>> /\ f.done = {}
    /\ f.pc = "fetch" => f.done = {} /\ f.cand \cap ToSet(f.todo) = {}
    /\ Distinct(f.todo)
    /\ ToSet(f.todo) \cap f.done = {}

\* The workers that cannot send x once more without a failure: before x is
\* marked the ones that have sent it, and then all that do not hold it.
Spent(x) ==
    {w \in Worker : IF x \in published THEN x \notin ToSet(wk[w].todo) ELSE x \in wk[w].done}

\* What is inductive: the bound counts the workers that are spent.
DupInv ==
    /\ \A w \in Worker : CleanFrame(wk[w])
    /\ \A x \in Event : sends[x] <= Cardinality(Spent(x)) + failed

\* Batches stay free of repetitions.
LEMMA DistinctFacts ==
    ASSUME NEW s \in Seq(Event), NEW x \in Event, Distinct(s)
    PROVE  /\ x \notin ToSet(s) => Distinct(Append(s, x))
           /\ s # <<>> => Distinct(Tail(s)) /\ Head(s) \notin ToSet(Tail(s))
<1>1. ASSUME x \notin ToSet(s) PROVE Distinct(Append(s, x))
    <2>1. DOMAIN Append(s, x) = 1..(Len(s) + 1) /\ DOMAIN s = 1..Len(s)
        OBVIOUS
    <2>2. /\ \A i \in 1..Len(s) : Append(s, x)[i] = s[i] /\ s[i] # x
          /\ Append(s, x)[Len(s) + 1] = x
        BY <1>1 DEF ToSet
    <2>3. \A i \in 1..(Len(s) + 1) : i \in 1..Len(s) \/ i = Len(s) + 1
        OBVIOUS
    <2> QED BY <2>1, <2>2, <2>3 DEF Distinct
<1>2. ASSUME s # <<>> PROVE Distinct(Tail(s)) /\ Head(s) \notin ToSet(Tail(s))
    <2>1. 1 \in DOMAIN s /\ Head(s) = s[1]
        BY <1>2
    <2>2. DOMAIN Tail(s) = 1..(Len(s) - 1)
        BY <1>2
    <2>3. \A i \in DOMAIN Tail(s) : /\ i + 1 \in DOMAIN s /\ Tail(s)[i] = s[i + 1]
                                    /\ i \in Nat /\ i + 1 # 1
        BY <1>2
    <2>4. Distinct(Tail(s))
        BY <2>2, <2>3 DEF Distinct
    <2>5. Head(s) \notin ToSet(Tail(s))
        BY <2>1, <2>3 DEF Distinct, ToSet
    <2> QED BY <2>4, <2>5
<1> QED BY <1>1, <1>2

\* The ways in which the bound is kept.
LEMMA Bound ==
    ASSUME NEW S \in SUBSET Worker, NEW T \in SUBSET Worker, NEW w \in Worker,
           NEW s \in Nat, NEW t \in Nat, NEW k \in Nat, NEW m \in Nat,
           s <= Cardinality(S) + k,
           \/ S \subseteq T /\ t - s <= m - k
           \/ S \subseteq T /\ w \in T \ S /\ t = s + 1 /\ m = k
           \/ S \ {w} \subseteq T /\ t = s /\ m = k + 1
    PROVE  t <= Cardinality(T) + m
<1>1. /\ IsFiniteSet(S) /\ IsFiniteSet(T) /\ IsFiniteSet(S \ {w}) /\ IsFiniteSet(S \cup {w})
    BY OutboxAssumption, FS_Subset, FS_AddElement, FS_RemoveElement
<1>2. /\ Cardinality(S) \in Nat /\ Cardinality(T) \in Nat
      /\ Cardinality(S \ {w}) \in Nat /\ Cardinality(S \cup {w}) \in Nat
    BY <1>1, FS_CardinalityType
<1>3. CASE S \subseteq T /\ t - s <= m - k
    <2>1. Cardinality(S) <= Cardinality(T)
        BY <1>1, <1>3, FS_Subset
    <2> QED BY <1>2, <1>3, <2>1
<1>4. CASE S \subseteq T /\ w \in T \ S /\ t = s + 1 /\ m = k
    <2>1. Cardinality(S \cup {w}) = Cardinality(S) + 1
        BY <1>1, <1>4, FS_AddElement
    <2>2. S \cup {w} \subseteq T
        BY <1>4
    <2>3. Cardinality(S \cup {w}) <= Cardinality(T)
        BY <1>1, <2>2, FS_Subset
    <2> QED BY <1>2, <1>4, <2>1, <2>3
<1>5. CASE S \ {w} \subseteq T /\ t = s /\ m = k + 1
    <2>1. Cardinality(S) <= Cardinality(S \ {w}) + 1
        <3>1. w \in S => Cardinality(S \ {w}) = Cardinality(S) - 1
            BY <1>1, FS_RemoveElement
        <3>2. w \notin S => S \ {w} = S
            OBVIOUS
        <3>3. w \notin S => Cardinality(S \ {w}) = Cardinality(S)
            BY Zenon, <3>2
        <3> QED BY <1>2, <3>1, <3>3
    <2>2. Cardinality(S \ {w}) <= Cardinality(T)
        BY <1>1, <1>5, FS_Subset
    <2> QED BY <1>2, <1>5, <2>1, <2>2
<1> QED BY <1>3, <1>4, <1>5

\* A step of one worker that marks nothing.
LEMMA CleanStep ==
    ASSUME Inv, Inv', DupInv, NEW w \in Worker, NEW g, wk' = [wk EXCEPT ![w] = g],
           published' = published, CleanFrame(g),
           \A x \in Event :
               \/ /\ x \in published /\ x \notin ToSet(wk[w].todo) => x \notin ToSet(g.todo)
                  /\ x \notin published /\ x \in wk[w].done => x \in g.done
                  /\ sends'[x] - sends[x] <= failed' - failed
               \/ /\ x \in ToSet(wk[w].todo) /\ x \notin ToSet(g.todo)
                  /\ x \notin wk[w].done /\ x \in g.done
                  /\ sends'[x] = sends[x] + 1 /\ failed' = failed
               \/ sends'[x] = sends[x] /\ failed' = failed + 1
    PROVE  DupInv'
<1>1. /\ wk'[w] = g /\ \A v \in Worker \ {w} : wk'[v] = wk[v]
    BY DEF Inv, TypeOK
<1>2. \A v \in Worker : CleanFrame(wk'[v])
    BY Zenon, <1>1 DEF DupInv
<1>3. \A v \in Worker : CleanFrame(wk[v])'
    BY Zenon, <1>2
<1>4. ASSUME NEW x \in Event
      PROVE  sends'[x] <= Cardinality(Spent(x)') + failed'
    <2>1. PICK S : S = Spent(x)
        OBVIOUS
    <2>2. PICK T : T = Spent(x)'
        OBVIOUS
    <2>3. /\ S \in SUBSET Worker /\ T \in SUBSET Worker
          /\ \A v \in Worker : v \in S <=>
                IF x \in published THEN x \notin ToSet(wk[v].todo) ELSE x \in wk[v].done
          /\ \A v \in Worker : v \in T <=>
                IF x \in published THEN x \notin ToSet(wk'[v].todo) ELSE x \in wk'[v].done
        BY <2>1, <2>2 DEF Spent, ToSet
    <2>4. S \ {w} \subseteq T
        BY Zenon, <1>1, <2>3
    <2>5. \/ S \subseteq T /\ sends'[x] - sends[x] <= failed' - failed
          \/ S \subseteq T /\ w \in T \ S /\ sends'[x] = sends[x] + 1 /\ failed' = failed
          \/ S \ {w} \subseteq T /\ sends'[x] = sends[x] /\ failed' = failed + 1
        BY <1>1, <2>3, <2>4
    <2>6. /\ sends[x] \in Nat /\ sends'[x] \in Nat /\ failed \in Nat /\ failed' \in Nat
        BY DEF Inv, TypeOK
    <2>7. sends[x] <= Cardinality(S) + failed
        BY Zenon, <2>1 DEF DupInv
    <2>8. sends'[x] <= Cardinality(T) + failed'
        BY <2>3, <2>5, <2>6, <2>7, Bound
    <2> QED BY Zenon, <2>2, <2>8
<1> QED BY Zenon, <1>3, <1>4 DEF DupInv

\* The steps of processBatch.
LEMMA CleanProcess ==
    ASSUME Inv, Inv', DupInv, NEW w \in Worker, Process(w) \/ PublishFails(w) \/ GiveUp(w)
    PROVE  DupInv'
<1>1. PICK f : f = wk[w]
    OBVIOUS
<1>2. f \in Frame /\ CleanFrame(f) /\ f.todo \in Seq(Event) /\ log \subseteq Event
    BY <1>1 DEF Inv, TypeOK, DupInv, Frame
<1>3. /\ failed \in Nat /\ sends \in [Event -> Nat]
      /\ f.cand \subseteq log /\ DOMAIN outbox = log
    BY <1>1 DEF Inv, TypeOK
<1>4. CleanFrame(Waiting) /\ Waiting.todo = <<>> /\ Waiting.done = {} /\ ToSet(<<>>) = {}
    BY DEF CleanFrame, Waiting, Distinct, ToSet
<1>5. ASSUME f.pc = "publish", f.todo # <<>>
      PROVE  /\ NextEntry(f).pc = "publish" /\ NextEntry(f).done = f.done
             /\ Head(f.todo) \in ToSet(f.todo) /\ Head(f.todo) \in Event
             /\ Distinct(NextEntry(f).todo) /\ NextEntry(f) \in Frame
             /\ ToSet(NextEntry(f).todo) \subseteq ToSet(f.todo) \ {Head(f.todo)}
    <2>1. NextEntry(f).todo = Tail(f.todo) /\ NextEntry(f).done = f.done
              /\ NextEntry(f).pc = "publish"
        BY <1>2, <1>5 DEF NextEntry, Frame
    <2>2. f.todo[1] \in Event
        BY <1>2, <1>5
    <2>3. /\ Head(f.todo) \in ToSet(f.todo) /\ Head(f.todo) \in Event
          /\ Tail(f.todo) \in Seq(Event) /\ ToSet(Tail(f.todo)) \subseteq ToSet(f.todo)
        BY <1>2, <1>5, <2>2, ToSetFacts
    <2>4. Distinct(Tail(f.todo)) /\ Head(f.todo) \notin ToSet(Tail(f.todo))
        BY <1>2, <1>5, <2>2, DistinctFacts DEF CleanFrame
    <2>5. NextEntry(f) \in Frame
        BY ZenonT(30), <1>2, <2>3 DEF NextEntry, Frame
    <2> QED BY <2>1, <2>3, <2>4, <2>5
<1>6. ASSUME f.pc = "publish", f.todo # <<>>
      PROVE  CleanFrame(NextEntry(f))
    BY <1>2, <1>5, <1>6 DEF CleanFrame
<1>7. CASE BeginFetch(w)
    <2>1. PICK g : g = [Waiting EXCEPT !.pc = "fetch", !.cand = DOMAIN outbox \ published]
        OBVIOUS
    <2>2. /\ wk' = [wk EXCEPT ![w] = g] /\ f.pc = "idle"
          /\ UNCHANGED <<writing, published, failed, sends, late>>
        BY <1>1, <1>7, <2>1 DEF BeginFetch, SetFrame
    <2>3. g.pc = "fetch" /\ g.todo = <<>> /\ g.done = {}
        BY <2>1 DEF Waiting
    <2>4. CleanFrame(g)
        BY <1>4, <2>3 DEF CleanFrame, Distinct
    <2>5. f.done = {}
        BY <1>2, <2>2 DEF CleanFrame
    <2>6. ToSet(g.todo) = {} /\ published' = published
        BY <1>4, <2>2, <2>3
    <2>7. \A x \in Event : sends'[x] - sends[x] <= failed' - failed
        BY <1>3, <2>2
    <2> QED BY Zenon, <1>1, <2>2, <2>4, <2>5, <2>6, <2>7, CleanStep
<1>8. CASE LockRow(w)
    <2>1. PICK x \in Oldest(f.cand) :
              wk' = [wk EXCEPT ![w] = [f EXCEPT !.cand = f.cand \ {x},
                                 !.todo = IF x \in Locked(w) \cup published
                                          THEN f.todo ELSE Append(f.todo, x)]]
        BY ZenonT(30), <1>1, <1>8 DEF LockRow, SetFrame
    <2>2. PICK t : t = IF x \in Locked(w) \cup published THEN f.todo ELSE Append(f.todo, x)
        BY ZenonT(30)
    <2>3. PICK g : g = [f EXCEPT !.cand = f.cand \ {x}, !.todo = t]
        OBVIOUS
    <2>4. wk' = [wk EXCEPT ![w] = g]
        BY Zenon, <2>1, <2>2, <2>3
    <2>5. UNCHANGED <<writing, published, failed, sends, late>> /\ f.pc = "fetch"
        BY <1>1, <1>8 DEF LockRow
    <2>6. x \in f.cand /\ x \in Event
        BY <1>2, <1>3 DEF Oldest
    <2>7. f.done = {} /\ f.cand \cap ToSet(f.todo) = {} /\ Distinct(f.todo)
        BY <1>2, <2>5 DEF CleanFrame
    <2>8. x \notin ToSet(f.todo)
        BY <2>6, <2>7
    <2>9. /\ Distinct(t) /\ ToSet(t) \subseteq ToSet(f.todo) \cup {x}
          /\ x \in published => t = f.todo
        BY <1>2, <2>2, <2>6, <2>7, <2>8, ToSetFacts, DistinctFacts
    <2>10. g.pc = "fetch" /\ g.cand = f.cand \ {x} /\ g.todo = t /\ g.done = {}
        BY <1>2, <2>3, <2>5, <2>7 DEF Frame
    <2>11. CleanFrame(g)
        BY <2>7, <2>9, <2>10 DEF CleanFrame
    <2>12. ASSUME NEW y \in Event
           PROVE  /\ y \in published /\ y \notin ToSet(f.todo) => y \notin ToSet(g.todo)
                  /\ y \in f.done => y \in g.done
                  /\ sends'[y] - sends[y] <= failed' - failed
        <3>1. y \in published /\ y \notin ToSet(f.todo) => y \notin ToSet(g.todo)
            BY Zenon, <2>9, <2>10
        <3>2. sends'[y] - sends[y] <= failed' - failed
            BY <1>3, <2>5
        <3> QED BY <2>7, <3>1, <3>2
    <2>13. published' = published
        BY <2>5
    <2> QED BY Zenon, <1>1, <2>4, <2>11, <2>12, <2>13, CleanStep
<1>9. CASE EndFetch(w)
    <2>1. PICK g : g = [f EXCEPT !.pc = "publish", !.cand = {}]
        OBVIOUS
    <2>2. /\ wk' = [wk EXCEPT ![w] = g] /\ f.pc = "fetch"
          /\ UNCHANGED <<writing, published, failed, sends, late>>
        BY <1>1, <1>9, <2>1 DEF EndFetch, SetFrame
    <2>3. g.pc = "publish" /\ g.todo = f.todo /\ g.done = f.done
        BY <1>2, <2>1 DEF Frame
    <2>4. CleanFrame(g)
        BY <1>2, <2>3 DEF CleanFrame
    <2>5. published' = published /\ \A x \in Event : sends'[x] - sends[x] <= failed' - failed
        BY <1>3, <2>2
    <2> QED BY Zenon, <1>1, <2>2, <2>3, <2>4, <2>5, CleanStep
<1>10. CASE Publish(w)
    <2>1. PICK r : r = Head(f.todo)
        OBVIOUS
    <2>2. PICK g : g = [NextEntry(f) EXCEPT !.done = @ \cup {r}]
        BY ZenonT(30)
    <2>3. /\ f.pc = "publish" /\ f.todo # <<>> /\ sends' = [sends EXCEPT ![r] = @ + 1]
          /\ wk' = [wk EXCEPT ![w] = g] /\ UNCHANGED <<writing, published, failed, late>>
        BY <1>1, <1>10, <2>1, <2>2 DEF Publish, SetFrame
    <2>4. /\ g.pc = "publish" /\ g.todo = NextEntry(f).todo /\ g.done = f.done \cup {r}
        BY <1>5, <2>2, <2>3 DEF Frame
    <2>5. /\ r \in ToSet(f.todo) /\ r \in Event /\ r \notin f.done
          /\ ToSet(g.todo) \subseteq ToSet(f.todo) \ {r}
        BY <1>2, <1>5, <2>1, <2>3, <2>4 DEF CleanFrame
    <2>6. CleanFrame(g)
        BY <1>6, <1>5, <2>3, <2>4, <2>5 DEF CleanFrame
    <2>7. ASSUME NEW x \in Event
          PROVE  \/ /\ x \notin ToSet(f.todo) => x \notin ToSet(g.todo)
                    /\ x \in f.done => x \in g.done
                    /\ sends'[x] - sends[x] <= failed' - failed
                 \/ /\ x \in ToSet(f.todo) /\ x \notin ToSet(g.todo)
                    /\ x \notin f.done /\ x \in g.done
                    /\ sends'[x] = sends[x] + 1 /\ failed' = failed
        <3>1. CASE x = r
            BY <1>3, <2>3, <2>4, <2>5, <3>1
        <3>2. CASE x # r
            <4>1. sends'[x] = sends[x] /\ failed' = failed
                BY <1>3, <2>3, <3>2
            <4>2. sends'[x] - sends[x] <= failed' - failed
                BY <1>3, <4>1
            <4> QED BY <2>4, <2>5, <4>2
        <3> QED BY <3>1, <3>2
    <2>8. published' = published
        BY <2>3
    <2> QED BY Zenon, <1>1, <2>3, <2>6, <2>7, <2>8, CleanStep
<1>11. CASE PublishRefused(w) \/ PublishFails(w)
    <2>1. PICK r : r = Head(f.todo)
        OBVIOUS
    <2>2. /\ f.pc = "publish" /\ f.todo # <<>> /\ published' = published
          /\ wk' = [wk EXCEPT ![w] = NextEntry(f)]
          /\ \/ sends' = sends /\ failed' = failed
             \/ sends' = sends /\ failed' = failed + 1
             \/ sends' = [sends EXCEPT ![r] = @ + 1] /\ failed' = failed + 1
        BY <1>1, <1>11, <2>1 DEF PublishRefused, PublishFails, Fail, SetFrame
    <2>3. r \in Event
        BY <1>5, <2>1, <2>2
    <2>4. ASSUME NEW x \in Event PROVE sends'[x] - sends[x] <= failed' - failed
        <3>1. sends[x] \in Nat /\ failed \in Nat
            BY <1>3
        <3>2. \/ sends'[x] = sends[x] /\ (failed' = failed \/ failed' = failed + 1)
              \/ sends'[x] = sends[x] + 1 /\ failed' = failed + 1
            BY <1>3, <2>2, <2>3
        <3> QED BY <3>1, <3>2
    <2>5. CleanFrame(NextEntry(f))
        BY <1>6, <2>2
    <2> QED BY Zenon, <1>1, <1>5, <2>2, <2>4, <2>5, CleanStep
<1>12. CASE GiveUp(w)
    <2>1. /\ wk' = [wk EXCEPT ![w] = Waiting] /\ published' = published
          /\ sends' = sends /\ failed' = failed + 1
        BY <1>12 DEF GiveUp, Fail, SetFrame
    <2> QED BY ZenonT(30), <1>4, <2>1, CleanStep
<1>13. CASE MarkPublished(w)
    <2>1. /\ wk' = [wk EXCEPT ![w] = Waiting] /\ published' = published \cup f.done
          /\ sends' = sends /\ failed' = failed
        BY <1>1, <1>13 DEF MarkPublished, SetFrame
    <2>2. wk'[w] = Waiting /\ \A v \in Worker \ {w} : wk'[v] = wk[v]
        BY <2>1 DEF Inv, TypeOK
    <2>3. \A v \in Worker : CleanFrame(wk[v])'
        <3>1. \A v \in Worker : CleanFrame(wk'[v])
            BY Zenon, <1>4, <2>2 DEF DupInv
        <3> QED BY Zenon, <3>1
    <2>4. ASSUME NEW x \in Event
          PROVE  sends'[x] <= Cardinality(Spent(x)') + failed'
        <3>1. PICK S : S = Spent(x)
            OBVIOUS
        <3>2. PICK T : T = Spent(x)'
            OBVIOUS
        <3>3. /\ S \in SUBSET Worker /\ T \in SUBSET Worker
              /\ \A v \in Worker : v \in S <=>
                    IF x \in published THEN x \notin ToSet(wk[v].todo) ELSE x \in wk[v].done
              /\ \A v \in Worker : v \in T <=>
                    IF x \in published' THEN x \notin ToSet(wk'[v].todo) ELSE x \in wk'[v].done
            BY <3>1, <3>2 DEF Spent, ToSet
        <3>4. \A v \in Worker : ToSet(wk[v].todo) \cap wk[v].done = {}
            BY DEF DupInv, CleanFrame
        <3>5. x \notin ToSet(wk'[w].todo)
            BY <1>4, <2>2
        <3>6. S \subseteq T
            <4>1. ASSUME NEW v \in Worker, v \in S PROVE v \in T
                <5>1. CASE v = w
                    BY <1>1, <2>1, <3>3, <3>5, <4>1, <5>1
                <5>2. CASE v # w
                    BY <2>1, <2>2, <3>3, <3>4, <4>1, <5>2
                <5> QED BY <5>1, <5>2
            <4> QED BY <3>3, <4>1
        <3>7. sends[x] <= Cardinality(S) + failed
            BY Zenon, <3>1 DEF DupInv
        <3>8. sends[x] \in Nat /\ sends[x] - sends[x] <= failed - failed
            BY <1>3
        <3>9. sends[x] <= Cardinality(T) + failed
            BY <1>3, <3>3, <3>6, <3>7, <3>8, Bound
        <3> QED BY Zenon, <2>1, <3>2, <3>9
    <2> QED BY Zenon, <2>3, <2>4 DEF DupInv
<1> QED BY <1>7, <1>8, <1>9, <1>10, <1>11, <1>12, <1>13 DEF Process

\* processBatch sends an event at most once per worker, and once more for each
\* failure, for any number of workers: a worker that fetched a row before it
\* was marked may send it again, but never twice, because a row that is marked
\* is never fetched and a batch holds no row twice.
THEOREM DuplicatesStayBounded == Spec => []DuplicatesBounded
<1>1. Init => DupInv
    <2> SUFFICES ASSUME Init PROVE DupInv
        OBVIOUS
    <2>1. CleanFrame(Waiting)
        BY DEF CleanFrame, Waiting, Distinct, ToSet
    <2>2. \A w \in Worker : CleanFrame(wk[w])
        BY <2>1 DEF Init
    <2>3. \A x \in Event : sends[x] = 0 /\ Spent(x) \subseteq Worker /\ failed = 0
        BY DEF Init, Spent
    <2>4. ASSUME NEW x \in Event PROVE Cardinality(Spent(x)) \in Nat
        <3>1. IsFiniteSet(Spent(x))
            BY <2>3, OutboxAssumption, FS_Subset
        <3> QED BY <3>1, FS_CardinalityType
    <2> QED BY <2>2, <2>3, <2>4 DEF DupInv
<1>2. Inv /\ Inv' /\ DupInv /\ [Next]_vars => DupInv'
    <2> SUFFICES ASSUME Inv, Inv', DupInv, [Next]_vars PROVE DupInv'
        OBVIOUS
    <2>1. ASSUME wk' = wk, sends' = sends, published' = published,
                 failed' = failed \/ failed' = failed + 1
          PROVE  DupInv'
        <3>1. \A v \in Worker : CleanFrame(wk[v])'
            <4>1. \A v \in Worker : CleanFrame(wk'[v])
                BY Zenon, <2>1 DEF DupInv
            <4> QED BY Zenon, <4>1
        <3>2. ASSUME NEW x \in Event
              PROVE  sends'[x] <= Cardinality(Spent(x)') + failed'
            <4>1. Spent(x)' = Spent(x)
                BY Zenon, <2>1 DEF Spent, ToSet
            <4>2. Cardinality(Spent(x)) \in Nat
                <5>1. IsFiniteSet(Spent(x))
                    BY OutboxAssumption, FS_Subset DEF Spent
                <5> QED BY <5>1, FS_CardinalityType
            <4>3. sends[x] \in Nat /\ failed \in Nat
                BY DEF Inv, TypeOK
            <4>4. sends[x] <= Cardinality(Spent(x)) + failed
                BY DEF DupInv
            <4>5. sends[x] <= Cardinality(Spent(x)) + failed'
                BY <2>1, <4>2, <4>3, <4>4
            <4> QED BY Zenon, <2>1, <4>1, <4>5
        <3> QED BY Zenon, <3>1, <3>2 DEF DupInv
    <2>2. CASE UNCHANGED vars
        BY <2>1, <2>2 DEF vars
    <2>3. CASE BeginAppend \/ \E B \in open : AppendWithOutbox(B) \/ RollBack(B)
        BY <2>1, <2>3 DEF BeginAppend, AppendWithOutbox, RollBack, Fail
    <2> QED BY <2>2, <2>3, CleanProcess DEF Next
<1>3. Inv /\ DupInv => DuplicatesBounded
    <2> SUFFICES ASSUME Inv, DupInv, NEW x \in Event
                 PROVE  sends[x] <= Cardinality(Worker) + failed
        BY DEF DuplicatesBounded
    <2>1. Spent(x) \subseteq Worker
        BY DEF Spent
    <2>2. /\ Cardinality(Spent(x)) <= Cardinality(Worker)
          /\ IsFiniteSet(Spent(x))
        BY <2>1, OutboxAssumption, FS_Subset
    <2>3. Cardinality(Spent(x)) \in Nat /\ Cardinality(Worker) \in Nat
        BY <2>2, OutboxAssumption, FS_CardinalityType
    <2>4. sends[x] <= Cardinality(Spent(x)) + failed /\ sends[x] \in Nat /\ failed \in Nat
        BY DEF DupInv, Inv, TypeOK
    <2> QED BY <2>2, <2>3, <2>4
<1> QED BY <1>1, <1>2, <1>3, InitInv, NextInv, PTL DEF Spec
=============================================================================

------------------------- MODULE IdempotencyProofs --------------------------
(***************************************************************************)
(* Proofs about Idempotency, for any number of requests with one key and   *)
(* any number of failures: its safety properties, from one inductive       *)
(* invariant.                                                              *)
(***************************************************************************)
EXTENDS Idempotency, TLAPS

Frame == [pc : Critical \cup {"idle", "check", "replay", "lock", "unlock"},
          run : Nat, late : BOOLEAN]

\* The requests whose run has ended.
Ended == {"replay", "set_body", "set_status", "del_lock", "unlock"}

\* What holds of the frame f of client c: past Lock it has the lock unless a lock
\* was removed under its holder; if a response was cached when it was sent, it
\* finds one; its run has a response exactly when the handler has returned; only
\* a failure leads to Unlock; and between the two SETs of Store the cached body
\* is its own.
FrameOK(f, c) ==
    /\ f \in Frame /\ f.run \in DOMAIN runs \cup {0}
    /\ f.pc \in Critical => broken \/ lock = c
    /\ f.late => body # None /\ f.pc \in {"idle", "check", "replay"}
    /\ f.pc = "run" => f.run \in DOMAIN runs /\ runs[f.run] = None
    /\ f.pc \in Ended => f.run \in DOMAIN runs /\ runs[f.run] # None
    /\ f.pc = "unlock" => failed > 0
    /\ f.pc = "set_status" => body = f.run \/ failed > 0

\* What holds of an answer.
AnswerOK(x) ==
    x # None =>
        /\ x \in [run : DOMAIN runs, code : Code \cup {StatusOK}]
        /\ runs[x.run] # None
        /\ x.code = StatusOK \/ \E n \in DOMAIN runs : x.code = runs[n]

\* What holds of the cache.
CacheOK ==
    /\ body # None => body \in DOMAIN runs /\ runs[body] # None
    /\ status # None => \E n \in DOMAIN runs : status = runs[n]
    /\ body # None /\ status # runs[body] =>
           failed > 0 \/ \E c \in Client : rq[c].pc = "set_status"

Types ==
    /\ runs \in Seq(Code \cup {None})
    /\ lock \in Client \cup {None}
    /\ rq \in [Client -> Frame]
    /\ DOMAIN ans = Client /\ ans = [c \in Client |-> ans[c]]
    /\ broken \in BOOLEAN
    /\ failed \in Nat
    /\ failed = 0 => ~broken

\* No two requests share a run.
RunsApart ==
    \A c, d \in Client : c # d /\ rq[c].pc = "run" /\ rq[d].pc = "run" =>
        rq[c].run # rq[d].run

\* The inductive invariant.
Inv ==
    /\ Types /\ RunsApart /\ CacheOK
    /\ \A c \in Client : FrameOK(rq[c], c) /\ AnswerOK(ans[c])

\* A step that changes one frame and no run.
LEMMA OneFrame ==
    ASSUME Inv, NEW c \in Client, NEW f \in Frame, rq' = [rq EXCEPT ![c] = f],
           UNCHANGED runs, body' = body \/ (rq[c].pc = "set_body" /\ body' # None),
           Live(lock) /\ lock # c => lock' = lock \/ broken',
           broken' \in BOOLEAN, broken => broken',
           failed' \in Nat, failed' >= failed, f.pc # "run" \/ f = rq[c],
           FrameOK(f, c)'
    PROVE  /\ rq' \in [Client -> Frame] /\ RunsApart'
           /\ \A d \in Client : FrameOK(rq[d], d)'
<1>1. \A d \in Client : rq'[d] = IF d = c THEN f ELSE rq[d]
    BY DEF Inv, Types
<1>2. rq' \in [Client -> Frame]
    BY DEF Inv, Types
<1>3. RunsApart'
    BY <1>1 DEF Inv, RunsApart
<1>4. ASSUME NEW d \in Client, d # c PROVE FrameOK(rq[d], d)'
    <2>1. FrameOK(rq[d], d) /\ rq'[d] = rq[d] /\ failed \in Nat
        BY <1>1, <1>4 DEF Inv, Types
    <2>2. rq[d].pc \in Critical => broken' \/ lock' = d
        <3>1. CASE rq[d].pc \in Critical /\ ~broken
            <4>1. lock = d /\ Live(lock)
                BY <2>1, <3>1 DEF FrameOK, Live
            <4> QED BY <1>4, <4>1
        <3> QED BY <2>1, <3>1 DEF FrameOK
    <2>3. rq[d].late => body' # None
        BY <2>1 DEF FrameOK
    <2>4. rq[d].pc = "set_status" => body' = rq[d].run \/ failed' > 0
        <3>1. CASE body' = body
            BY <2>1, <3>1 DEF FrameOK
        <3>2. CASE rq[c].pc = "set_body" /\ rq[d].pc = "set_status"
            <4>1. (broken \/ lock = c) /\ (broken \/ lock = d)
                BY <2>1, <3>2 DEF Inv, FrameOK, Critical
            <4>2. failed > 0
                BY <1>4, <2>1, <4>1 DEF Inv, Types
            <4> QED BY <2>1, <4>2
        <3> QED BY <3>1, <3>2
    <2>5. rq[d].pc = "unlock" => failed' > 0
        BY <2>1 DEF FrameOK
    <2> QED BY <2>1, <2>2, <2>3, <2>4, <2>5 DEF FrameOK
<1>5. FrameOK(rq[c], c)'
    BY <1>1
<1> QED BY <1>2, <1>3, <1>4, <1>5
\* The facts that every step uses.
LEMMA InvFacts ==
    ASSUME Inv, NEW c \in Client
    PROVE  /\ rq[c] \in Frame /\ FrameOK(rq[c], c) /\ Idle \in Frame
           /\ rq \in [Client -> Frame] /\ failed \in Nat /\ broken \in BOOLEAN
           /\ lock \in Client \cup {None} /\ None \notin Client
           /\ FrameOK(Idle, c) /\ FrameOK(Idle, c)'
<1>1. Idle \in Frame
    BY DEF Idle, Frame, Critical
<1>2. FrameOK(Idle, c) /\ FrameOK(Idle, c)'
    BY <1>1 DEF FrameOK, Idle, Critical, Ended
<1> QED BY <1>1, <1>2, IdempotencyAssumption DEF Inv, Types

\* A step that leaves the cache and the runs alone and moves no request between
\* the two SETs of Store.
LEMMA CacheStays ==
    ASSUME Inv, UNCHANGED <<body, status, runs>>, failed' \in Nat, failed' >= failed,
           \A c \in Client : rq[c].pc = "set_status" => rq'[c].pc = "set_status" \/ failed' > 0
    PROVE  CacheOK'
BY DEF Inv, Types, CacheOK

\* The steps up to Lock.
LEMMA BeforeLock ==
    ASSUME Inv, NEW c \in Client,
           Send(c) \/ Check(c) \/ InFlight(c) \/ Abandon(c) \/ RedisError(c)
    PROVE  Inv'
<1> DEFINE f == rq[c]
<1>1. /\ f \in Frame /\ FrameOK(f, c) /\ Idle \in Frame /\ FrameOK(Idle, c)'
      /\ rq \in [Client -> Frame] /\ failed \in Nat /\ broken \in BOOLEAN
      /\ lock \in Client \cup {None} /\ None \notin Client
    BY InvFacts
<1>2. UNCHANGED <<body, status, ans, runs, broken>>
    BY DEF Send, Check, InFlight, Abandon, RedisError, redis
<1>3. failed' \in Nat /\ failed' >= failed /\ (f.pc \in Critical => failed' > 0)
    BY <1>1 DEF Send, Check, InFlight, Abandon, RedisError, Fail, Critical
<1>4. lock' = lock \/ (lock = None /\ lock' = c)
    BY DEF Send, Check, InFlight, Abandon, RedisError, redis
<1>5. PICK g \in Frame : /\ rq' = [rq EXCEPT ![c] = g] /\ g.pc \in {"idle", "check", "lock", "replay"}
                        /\ FrameOK(g, c)'
    <2>1. CASE Send(c)
        <3>1. PICK g \in Frame : /\ rq' = [rq EXCEPT ![c] = g] /\ g.pc = "check"
                                /\ g.run = 0 /\ g.late = (body # None)
            <4>1. PICK l \in BOOLEAN : l = (body # None)
                BY ZenonT(30)
            <4>2. [pc |-> "check", run |-> 0, late |-> l] \in Frame
                BY DEF Frame
            <4>3. rq' = [rq EXCEPT ![c] = [pc |-> "check", run |-> 0, late |-> l]]
                BY <2>1, <4>1 DEF Send
            <4> QED BY ZenonT(30), <4>1, <4>2, <4>3
        <3>2. FrameOK(g, c)'
            BY ZenonT(30), <1>2, <3>1 DEF FrameOK, Critical, Ended
        <3> QED BY ZenonT(30), <3>1, <3>2
    <2>2. CASE Check(c)
        <3>1. CASE body = None
            <4>1. PICK g \in Frame : /\ rq' = [rq EXCEPT ![c] = g] /\ g.pc = "lock"
                                    /\ g.run = f.run /\ g.late = f.late
                BY <1>1, <2>2, <3>1 DEF Check, Goto, Frame
            <4>2. FrameOK(g, c)'
                BY <1>1, <1>2, <3>1, <4>1 DEF FrameOK, Critical, Ended
            <4> QED BY ZenonT(30), <4>1, <4>2
        <3>2. CASE body # None
            <4>1. body \in DOMAIN runs /\ runs[body] # None /\ body \in Nat
                BY <3>2 DEF Inv, CacheOK, Types
            <4>2. PICK g \in Frame : /\ rq' = [rq EXCEPT ![c] = g] /\ g.pc = "replay"
                                    /\ g.run = body
                BY <1>1, <2>2, <3>2, <4>1 DEF Check, Frame
            <4>3. FrameOK(g, c)'
                BY <1>2, <3>2, <4>1, <4>2 DEF FrameOK, Critical, Ended
            <4> QED BY ZenonT(30), <4>2, <4>3
        <3> QED BY <3>1, <3>2
    <2>3. CASE InFlight(c) \/ Abandon(c) \/ RedisError(c)
        BY ZenonT(30), <1>1, <2>3 DEF InFlight, Abandon, RedisError, Retry, Idle
    <2> QED BY <2>1, <2>2, <2>3
<1>6. Live(lock) /\ lock # c => lock' = lock \/ broken'
    BY <1>1, <1>4 DEF Live
<1>7. /\ rq' \in [Client -> Frame] /\ RunsApart'
      /\ \A d \in Client : FrameOK(rq[d], d)'
    <2>1. /\ UNCHANGED runs /\ (body' = body \/ (rq[c].pc = "set_body" /\ body' # None))
          /\ broken' \in BOOLEAN /\ (broken => broken') /\ (g.pc # "run" \/ g = rq[c])
        BY <1>1, <1>2, <1>5
    <2> QED BY ZenonT(30), <1>1, <1>3, <1>5, <1>6, <2>1, OneFrame
<1>8. CacheOK'
    <2>1. \A d \in Client : rq[d].pc = "set_status" => rq'[d].pc = "set_status" \/ failed' > 0
        BY <1>1, <1>3, <1>5 DEF Critical
    <2> QED BY <1>2, <1>3, <2>1, CacheStays
<1>9. Types'
    BY <1>1, <1>2, <1>3, <1>4, <1>7 DEF Inv, Types
<1>10. \A d \in Client : AnswerOK(ans[d])'
    BY <1>2 DEF Inv, AnswerOK
<1> QED BY <1>7, <1>8, <1>9, <1>10 DEF Inv

\* The steps that answer.
LEMMA Answers ==
    ASSUME Inv, NEW c \in Client, Replay(c) \/ DelLock(c) \/ Unlock(c) \/ UnlockFails(c)
    PROVE  Inv'
<1> DEFINE f == rq[c]
<1>1. /\ f \in Frame /\ FrameOK(f, c) /\ Idle \in Frame /\ FrameOK(Idle, c)'
      /\ rq \in [Client -> Frame] /\ failed \in Nat /\ broken \in BOOLEAN
      /\ lock \in Client \cup {None} /\ None \notin Client
    BY InvFacts
<1>2. /\ UNCHANGED <<body, status, runs>> /\ rq' = [rq EXCEPT ![c] = Idle]
      /\ f.pc \in Ended /\ f.pc # "set_status"
      /\ f.run \in DOMAIN runs /\ runs[f.run] # None
    BY <1>1 DEF Replay, DelLock, Unlock, UnlockFails, Answer, redis, FrameOK, Ended
<1>3. failed' \in Nat /\ failed' >= failed
    BY <1>1 DEF Replay, DelLock, Unlock, UnlockFails, Fail
<1>4. /\ lock' \in {lock, None} /\ broken' \in BOOLEAN /\ (broken => broken')
      /\ Live(lock) /\ lock # c => lock' = lock \/ broken'
    BY ZenonT(30), <1>1 DEF Replay, DelLock, Unlock, UnlockFails, DeleteLock, redis
<1>5. /\ rq' \in [Client -> Frame] /\ RunsApart'
      /\ \A d \in Client : FrameOK(rq[d], d)'
    <2>1. /\ UNCHANGED runs /\ (body' = body \/ (rq[c].pc = "set_body" /\ body' # None))
          /\ (Idle.pc # "run" \/ Idle = rq[c])
        BY <1>2 DEF Idle
    <2> QED BY ZenonT(30), <1>1, <1>2, <1>3, <1>4, <2>1, OneFrame
<1>6. CacheOK'
    <2>1. \A d \in Client : rq[d].pc = "set_status" => rq'[d].pc = "set_status"
        BY <1>1, <1>2
    <2> QED BY <1>2, <1>3, <2>1, CacheStays
<1>7. failed' = 0 => ~broken'
    <2>1. CASE broken
        BY <1>1, <1>3, <2>1 DEF Inv, Types
    <2>2. CASE DelLock(c) /\ ~broken
        <3>1. lock = c
            BY <1>1, <2>2 DEF DelLock, FrameOK, Critical
        <3> QED BY ZenonT(30), <2>2, <3>1 DEF DelLock, DeleteLock
    <2>3. CASE Unlock(c)
        BY <1>1, <2>3 DEF Unlock, FrameOK
    <2>4. CASE (Replay(c) \/ UnlockFails(c)) /\ ~broken
        BY <2>4 DEF Replay, UnlockFails
    <2> QED BY <2>1, <2>2, <2>3, <2>4
<1>8. PICK code \in Code \cup {StatusOK} :
          /\ ans' = [ans EXCEPT ![c] = [run |-> f.run, code |-> code]]
          /\ code = StatusOK \/ \E n \in DOMAIN runs : code = runs[n]
    <2>1. runs \in Seq(Code \cup {None}) /\ \A n \in DOMAIN runs : runs[n] \in Code \cup {None}
        BY DEF Inv, Types
    <2>2. status # None => status \in Code /\ \E n \in DOMAIN runs : status = runs[n]
        BY <2>1 DEF Inv, CacheOK
    <2>3. CASE Replay(c)
        BY <2>2, <2>3 DEF Replay, Answer
    <2>4. CASE DelLock(c) \/ Unlock(c) \/ UnlockFails(c)
        <3>1. ans' = [ans EXCEPT ![c] = [run |-> f.run, code |-> runs[f.run]]]
            BY <2>4 DEF DelLock, Unlock, UnlockFails, Answer
        <3> QED BY ZenonT(30), <1>2, <2>1, <3>1
    <2> QED BY <2>3, <2>4
<1>9. \A d \in Client : AnswerOK(ans[d])'
    <2> DEFINE x == [run |-> f.run, code |-> code]
    <2>1. \A d \in Client : ans'[d] = IF d = c THEN x ELSE ans[d]
        BY <1>8 DEF Inv, Types
    <2>2. AnswerOK(x)
        BY <1>2, <1>8 DEF AnswerOK
    <2>3. \A d \in Client : AnswerOK(ans'[d])
        BY <2>1, <2>2 DEF Inv
    <2> QED BY <1>2, <2>3 DEF AnswerOK
<1>10. Types'
    BY <1>1, <1>2, <1>3, <1>4, <1>5, <1>7, <1>8 DEF Inv, Types
<1> QED BY <1>5, <1>6, <1>9, <1>10 DEF Inv
\* The steps of Store, and its failure.
LEMMA Storing ==
    ASSUME Inv, NEW c \in Client, SetBody(c) \/ SetStatus(c) \/ StoreFails(c)
    PROVE  Inv'
<1> DEFINE f == rq[c]
<1>1. /\ f \in Frame /\ FrameOK(f, c)
      /\ rq \in [Client -> Frame] /\ failed \in Nat /\ broken \in BOOLEAN
      /\ lock \in Client \cup {None} /\ None \notin Client
    BY InvFacts
<1>2. /\ f.pc \in {"set_body", "set_status", "del_lock"} /\ UNCHANGED <<runs, ans>>
      /\ f.run \in DOMAIN runs /\ runs[f.run] # None
    BY <1>1 DEF SetBody, SetStatus, StoreFails, FrameOK, Ended
<1>3. f.run # None /\ f.run \in Nat /\ f.late = FALSE
    BY <1>1, <1>2, IdempotencyAssumption DEF Frame, FrameOK
<1>4. failed' \in Nat /\ failed' >= failed /\ (StoreFails(c) => failed' > 0)
    BY <1>1 DEF SetBody, SetStatus, StoreFails, Fail
<1>5. /\ lock' \in {lock, None} /\ broken' \in BOOLEAN /\ (broken => broken')
      /\ (Live(lock) /\ lock # c => lock' = lock \/ broken')
      /\ (failed' = 0 => ~broken')
    <2>1. failed = 0 => ~broken
        BY DEF Inv, Types
    <2>2. CASE SetBody(c) \/ SetStatus(c)
        BY <1>1, <2>1, <2>2 DEF SetBody, SetStatus
    <2>3. CASE StoreFails(c)
        <3>1. \/ UNCHANGED <<lock, broken>>
              \/ lock' = None /\ broken' = (broken \/ (lock # c /\ Live(lock)))
            BY <2>3 DEF StoreFails, DeleteLock
        <3>2. failed' > 0
            BY <1>4, <2>3
        <3>3. broken' \in BOOLEAN
            BY ZenonT(30), <1>1, <3>1
        <3> QED BY <1>1, <3>1, <3>2, <3>3
    <2> QED BY <2>2, <2>3
<1>6. PICK g \in Frame :
          /\ rq' = [rq EXCEPT ![c] = g] /\ g.run = f.run /\ g.late = FALSE
          /\ \/ SetBody(c) /\ g.pc = "set_status"
             \/ SetStatus(c) /\ g.pc = "del_lock"
             \/ StoreFails(c) /\ g.pc = "unlock"
    <2>1. ASSUME NEW pc \in {"set_status", "del_lock", "unlock"}, Goto(c, pc)
          PROVE  \E g \in Frame : /\ rq' = [rq EXCEPT ![c] = g] /\ g.run = f.run
                                  /\ g.late = FALSE /\ g.pc = pc
        <3> DEFINE g == [f EXCEPT !.pc = pc]
        <3>1. g \in Frame /\ g.run = f.run /\ g.late = FALSE /\ g.pc = pc
            BY <1>1, <1>3, <2>1 DEF Frame, Critical
        <3>2. rq' = [rq EXCEPT ![c] = g]
            BY <2>1 DEF Goto
        <3> QED BY ZenonT(30), <3>1, <3>2
    <2> QED BY ZenonT(30), <2>1 DEF SetBody, SetStatus, StoreFails
<1>7. body' = body \/ (f.pc = "set_body" /\ body' # None)
    BY <1>3 DEF SetBody, SetStatus, StoreFails
<1>8. FrameOK(g, c)'
    <2>1. SetBody(c) => body' = f.run
        BY DEF SetBody
    <2>2. g.pc \in Critical => broken' \/ lock' = c
        <3>1. CASE g.pc = "unlock"
            BY <3>1 DEF Critical
        <3>2. CASE SetBody(c) \/ SetStatus(c)
            <4>1. f.pc \in Critical /\ UNCHANGED <<lock, broken>>
                BY <3>2 DEF SetBody, SetStatus, Critical
            <4> QED BY <1>1, <4>1 DEF FrameOK
        <3> QED BY <1>6, <3>1, <3>2
    <2>3. g.pc = "unlock" => failed' > 0
        BY <1>4, <1>6
    <2>4. g.pc = "set_status" => body' = g.run
        BY <1>6, <2>1
    <2>5. g.pc # "run" /\ g.run \in DOMAIN runs' /\ runs'[g.run] # None
        BY <1>2, <1>6
    <2> QED BY <1>6, <2>2, <2>3, <2>4, <2>5 DEF FrameOK
<1>9. /\ rq' \in [Client -> Frame] /\ RunsApart'
      /\ \A d \in Client : FrameOK(rq[d], d)'
    <2>1. UNCHANGED runs /\ (g.pc # "run" \/ g = rq[c])
        BY <1>2, <1>6
    <2> QED BY ZenonT(30), <1>1, <1>4, <1>5, <1>6, <1>7, <1>8, <2>1, OneFrame
<1>10. CacheOK'
    <2>1. \A d \in Client : rq'[d] = IF d = c THEN g ELSE rq[d]
        BY <1>1, <1>6
    <2>2. CASE StoreFails(c)
        <3>1. UNCHANGED <<body, status, runs>>
            BY <1>2, <2>2 DEF StoreFails
        <3> QED BY <1>4, <2>2, <3>1, CacheStays
    <2>3. CASE SetBody(c) /\ g.pc = "set_status"
        <3>1. rq'[c].pc = "set_status"
            BY <2>1, <2>3
        <3> QED BY <1>2, <2>3, <3>1 DEF SetBody, CacheOK, Inv
    <2>4. CASE SetStatus(c)
        <3>1. status' = runs[f.run] /\ body' = body /\ runs' = runs /\ failed' = failed
            BY <1>2, <2>4 DEF SetStatus
        <3>2. body = f.run \/ failed > 0
            BY <1>1, <2>4 DEF SetStatus, FrameOK
        <3> QED BY <1>2, <3>1, <3>2 DEF CacheOK, Inv
    <2> QED BY <1>6, <2>2, <2>3, <2>4
<1>11. Types'
    BY <1>1, <1>2, <1>4, <1>5, <1>9 DEF Inv, Types
<1>12. \A d \in Client : AnswerOK(ans[d])'
    BY <1>2 DEF Inv, AnswerOK
<1> QED BY <1>9, <1>10, <1>11, <1>12 DEF Inv

\* The lock goes.
LEMMA LockGone ==
    ASSUME Inv, ExpireLock \/ Outlived
    PROVE  Inv'
<1>1. /\ UNCHANGED <<body, status, rq, ans, runs>> /\ lock' = None
      /\ broken' \in BOOLEAN /\ (broken => broken') /\ (Live(lock) => broken')
      /\ failed' \in Nat /\ failed' >= failed /\ (failed' = 0 => ~broken')
    <2>1. failed \in Nat /\ broken \in BOOLEAN /\ (failed = 0 => ~broken)
        BY DEF Inv, Types
    <2>2. CASE ExpireLock
        BY <2>1, <2>2 DEF ExpireLock
    <2>3. CASE Outlived
        <3>1. failed' \in Nat /\ failed' > failed /\ failed' # 0
            BY <2>1, <2>3 DEF Outlived, Fail
        <3>2. broken' = TRUE /\ lock' = None /\ UNCHANGED <<body, status, rq, ans, runs>>
            BY <2>3 DEF Outlived
        <3> QED BY <2>1, <3>1, <3>2
    <2> QED BY <2>2, <2>3
<1>2. failed \in Nat
    BY DEF Inv, Types
<1>3. ASSUME NEW d \in Client PROVE FrameOK(rq[d], d)'
    <2>1. FrameOK(rq[d], d) /\ rq'[d] = rq[d]
        BY <1>1 DEF Inv
    <2>2. rq[d].pc \in Critical => broken'
        BY <1>1, <2>1 DEF FrameOK, Live
    <2> QED BY <1>1, <1>2, <2>1, <2>2 DEF FrameOK
<1>4. CacheOK'
    BY <1>1, CacheStays
<1>5. Types' /\ RunsApart'
    BY <1>1 DEF Inv, Types, RunsApart
<1>6. \A d \in Client : AnswerOK(ans[d])'
    BY <1>1 DEF Inv, AnswerOK
<1> QED BY <1>3, <1>4, <1>5, <1>6 DEF Inv
\* The handler starts.
LEMMA Starts ==
    ASSUME Inv, NEW c \in Client, Lock(c)
    PROVE  Inv'
<1> DEFINE n == Len(runs) + 1
<1>1. /\ rq[c] \in Frame /\ FrameOK(rq[c], c)
      /\ rq \in [Client -> Frame] /\ failed \in Nat /\ broken \in BOOLEAN
    BY InvFacts
<1>2. /\ rq[c].pc = "lock" /\ lock = None /\ lock' = c /\ runs' = Append(runs, None)
      /\ UNCHANGED <<body, status, ans, broken, failed>> /\ None \notin Client
    BY IdempotencyAssumption DEF Lock
<1>3. /\ runs \in Seq(Code \cup {None}) /\ runs' \in Seq(Code \cup {None})
      /\ DOMAIN runs = 1..Len(runs) /\ Len(runs) \in Nat
      /\ DOMAIN runs' = 1..n /\ runs'[n] = None
      /\ \A i \in DOMAIN runs : i \in DOMAIN runs' /\ runs'[i] = runs[i]
    BY <1>2 DEF Inv, Types
<1>4. n \in Nat /\ n \in DOMAIN runs' /\ n \notin DOMAIN runs /\ n # 0
    BY <1>3
<1> HIDE DEF n
<1>5. PICK g \in Frame : /\ rq' = [rq EXCEPT ![c] = g] /\ g.pc = "run" /\ g.run = n
                        /\ g.late = rq[c].late
    <2> DEFINE h == [rq[c] EXCEPT !.pc = "run", !.run = n]
    <2>1. h \in Frame /\ h.pc = "run" /\ h.run = n /\ h.late = rq[c].late
        BY ZenonT(30), <1>1, <1>4 DEF Frame, Critical
    <2>2. rq' = [rq EXCEPT ![c] = h]
        BY ZenonT(30), <1>1 DEF Lock, n, Frame
    <2> QED BY ZenonT(30), <2>1, <2>2
<1>6. rq' \in [Client -> Frame] /\ \A d \in Client : rq'[d] = IF d = c THEN g ELSE rq[d]
    BY <1>1, <1>5
<1>7. FrameOK(g, c)'
    BY <1>1, <1>2, <1>3, <1>4, <1>5 DEF FrameOK, Critical, Ended
<1>8. ASSUME NEW d \in Client, d # c PROVE FrameOK(rq[d], d)'
    <2>1. FrameOK(rq[d], d) /\ rq'[d] = rq[d]
        BY <1>6, <1>8 DEF Inv
    <2>2. rq[d].pc \in Critical => broken'
        BY <1>2, <2>1 DEF FrameOK
    <2> QED BY <1>2, <1>3, <2>1, <2>2 DEF FrameOK
<1>9. RunsApart'
    <2>1. \A d \in Client : rq[d].pc = "run" => rq[d].run # n
        BY <1>4 DEF Inv, FrameOK
    <2> QED BY <1>5, <1>6, <2>1 DEF Inv, RunsApart
<1>10. CacheOK'
    <2>1. \A d \in Client : rq[d].pc = "set_status" => rq'[d].pc = "set_status"
        BY <1>2, <1>6
    <2> QED BY <1>2, <1>3, <2>1 DEF Inv, CacheOK
<1>11. \A d \in Client : AnswerOK(ans[d])'
    <2> SUFFICES ASSUME NEW d \in Client, ans[d] # None
                 PROVE  AnswerOK(ans[d])'
        BY <1>2 DEF AnswerOK
    <2>1. /\ ans[d] \in [run : DOMAIN runs, code : Code \cup {StatusOK}] /\ runs[ans[d].run] # None
          /\ ans[d].code = StatusOK \/ \E i \in DOMAIN runs : ans[d].code = runs[i]
        BY DEF Inv, AnswerOK
    <2>2. ans[d] \in [run : DOMAIN runs', code : Code \cup {StatusOK}]
        BY <1>3, <2>1
    <2> QED BY <1>2, <1>3, <2>1, <2>2 DEF AnswerOK
<1>12. Types'
    BY <1>2, <1>3, <1>6 DEF Inv, Types
<1> QED BY <1>6, <1>7, <1>8, <1>9, <1>10, <1>11, <1>12 DEF Inv

\* The handler returns.
LEMMA Returns ==
    ASSUME Inv, NEW c \in Client, Handle(c)
    PROVE  Inv'
<1> DEFINE r == rq[c].run
<1>1. /\ rq[c] \in Frame /\ FrameOK(rq[c], c)
      /\ rq \in [Client -> Frame] /\ failed \in Nat /\ broken \in BOOLEAN
    BY InvFacts
<1>2. /\ rq[c].pc = "run" /\ r \in DOMAIN runs /\ runs[r] = None /\ ~rq[c].late
      /\ UNCHANGED <<body, status, lock, ans, broken, failed>>
    BY <1>1 DEF Handle, FrameOK, redis
<1>3. PICK code \in Code : runs' = [runs EXCEPT ![r] = code]
    BY ZenonT(30) DEF Handle
<1>4. /\ runs \in Seq(Code \cup {None}) /\ runs' \in Seq(Code \cup {None})
      /\ DOMAIN runs' = DOMAIN runs /\ runs'[r] = code /\ code # None
      /\ \A i \in DOMAIN runs : i # r => runs'[i] = runs[i]
    BY <1>2, <1>3, IdempotencyAssumption DEF Inv, Types
<1>5. PICK g \in Frame : /\ rq' = [rq EXCEPT ![c] = g] /\ g.pc = "set_body" /\ g.run = r
                        /\ g.late = rq[c].late
    <2> DEFINE h == [rq[c] EXCEPT !.pc = "set_body"]
    <2>1. h \in Frame /\ h.pc = "set_body" /\ h.run = r /\ h.late = rq[c].late
        BY <1>1 DEF Frame, Critical
    <2>2. rq' = [rq EXCEPT ![c] = h]
        BY <1>1 DEF Handle, Goto, Frame
    <2> QED BY ZenonT(30), <2>1, <2>2
<1> HIDE DEF r
<1>6. rq' \in [Client -> Frame] /\ \A d \in Client : rq'[d] = IF d = c THEN g ELSE rq[d]
    BY <1>1, <1>5
<1>7. FrameOK(g, c)'
    BY <1>1, <1>2, <1>4, <1>5 DEF FrameOK, Critical, Ended
<1>8. ASSUME NEW d \in Client, d # c PROVE FrameOK(rq[d], d)'
    <2>1. FrameOK(rq[d], d) /\ rq'[d] = rq[d]
        BY <1>6, <1>8 DEF Inv
    <2>2. rq[d].pc = "run" => rq[d].run # r
        BY <1>2, <1>8 DEF Inv, RunsApart, r
    <2>3. rq[d].pc \in Ended => rq[d].run # r
        BY <1>2, <2>1 DEF FrameOK
    <2> QED BY <1>2, <1>4, <2>1, <2>2, <2>3 DEF FrameOK
<1>9. RunsApart'
    BY <1>5, <1>6 DEF Inv, RunsApart
<1>10. CacheOK'
    <2>1. \A d \in Client : rq[d].pc = "set_status" => rq'[d].pc = "set_status"
        BY <1>2, <1>6
    <2>2. body # None => body \in DOMAIN runs' /\ runs'[body] = runs[body] /\ runs[body] # None
        BY <1>2, <1>4 DEF Inv, CacheOK
    <2>3. status # None => \E i \in DOMAIN runs' : status = runs'[i]
        BY <1>2, <1>4 DEF Inv, CacheOK
    <2> QED BY <1>2, <2>1, <2>2, <2>3 DEF Inv, CacheOK
<1>11. \A d \in Client : AnswerOK(ans[d])'
    <2> SUFFICES ASSUME NEW d \in Client, ans[d] # None
                 PROVE  AnswerOK(ans[d])'
        BY <1>2 DEF AnswerOK
    <2>1. /\ ans[d] \in [run : DOMAIN runs, code : Code \cup {StatusOK}] /\ runs[ans[d].run] # None
          /\ ans[d].code = StatusOK \/ \E i \in DOMAIN runs : ans[d].code = runs[i]
        BY DEF Inv, AnswerOK
    <2>2. ans[d].run # r /\ ans[d].run \in DOMAIN runs
        BY <1>2, <2>1
    <2>3. ans[d].code # None
        <3>1. ans[d].code \in Code \cup {StatusOK}
            BY <2>1
        <3>2. ans[d].code \in Nat
            BY <3>1, IdempotencyAssumption DEF StatusOK
        <3> QED BY <3>2, IdempotencyAssumption
    <2>4. ans[d].code = StatusOK \/ \E i \in DOMAIN runs' : ans[d].code = runs'[i]
        BY <1>2, <1>4, <2>1, <2>3
    <2> QED BY <1>2, <1>4, <2>1, <2>2, <2>4 DEF AnswerOK
<1>12. Types'
    BY <1>2, <1>4, <1>6 DEF Inv, Types
<1> QED BY <1>6, <1>7, <1>8, <1>9, <1>10, <1>11, <1>12 DEF Inv

\* The invariant holds in every reachable state.
LEMMA Invariance == Spec => []Inv
<1>1. Init => Inv
    <2> SUFFICES ASSUME Init PROVE Inv
        OBVIOUS
    <2>1. Idle \in Frame
        BY DEF Idle, Frame
    <2>2. \A c \in Client : FrameOK(Idle, c)
        BY <2>1 DEF FrameOK, Idle, Critical, Ended
    <2>3. \A c \in Client : rq[c] = Idle /\ ans[c] = None
        BY DEF Init
    <2>4. Types
        <3>1. runs \in Seq(Code \cup {None})
            BY DEF Init
        <3>2. rq \in [Client -> Frame] /\ DOMAIN ans = Client /\ ans = [c \in Client |-> ans[c]]
            BY <2>1 DEF Init
        <3> QED BY ZenonT(30), <3>1, <3>2 DEF Init, Types
    <2>5. RunsApart /\ CacheOK
        BY <2>3 DEF Init, RunsApart, CacheOK, Idle
    <2> QED BY <2>2, <2>3, <2>4, <2>5 DEF Inv, AnswerOK
<1>2. Inv /\ [Next]_vars => Inv'
    <2> SUFFICES ASSUME Inv, [Next]_vars PROVE Inv'
        OBVIOUS
    <2>1. CASE UNCHANGED vars
        BY <2>1 DEF vars, redis, Inv, Types, RunsApart, CacheOK, FrameOK, AnswerOK
    <2>2. CASE Next
        BY <2>2, BeforeLock, Answers, Storing, LockGone, Starts, Returns DEF Next, Step
    <2> QED BY <2>1, <2>2
<1> QED BY <1>1, <1>2, PTL DEF Spec

\* Redis entries, frames and answers stay well formed; a replay always has a
\* status code.
THEOREM IdempotencyTypeCorrect == Spec => []TypeOK
<1>1. Inv => TypeOK
    <2> SUFFICES ASSUME Inv PROVE TypeOK
        OBVIOUS
    <2>1. /\ runs \in Seq(Code \cup {None}) /\ lock \in Client \cup {None}
          /\ broken \in BOOLEAN /\ failed \in Nat /\ rq \in [Client -> Frame]
          /\ ans = [c \in Client |-> ans[c]]
        BY DEF Inv, Types
    <2>2. body \in DOMAIN runs \cup {None} /\ status \in Code \cup {None}
        BY <2>1 DEF Inv, CacheOK
    <2>3. ans \in [Client -> [run : DOMAIN runs, code : Code \cup {StatusOK}] \cup {None}]
        <3>1. \A c \in Client : ans[c] \in [run : DOMAIN runs, code : Code \cup {StatusOK}] \cup {None}
            BY DEF Inv, AnswerOK
        <3> QED BY <2>1, <3>1
    <2>4. rq \in [Client -> [pc : Critical \cup {"idle", "check", "replay", "lock", "unlock"},
                            run : DOMAIN runs \cup {0}, late : BOOLEAN]]
        BY <2>1 DEF Inv, FrameOK, Frame
    <2> QED BY <2>1, <2>2, <2>3, <2>4 DEF TypeOK
<1> QED BY <1>1, Invariance, PTL

\* The lock keeps the runs of one key apart, for any number of requests and
\* failures, until a lock is removed under its holder.
THEOREM LockExcludes == Spec => []NoOverlap
<1>1. Inv => NoOverlap
    BY DEF Inv, FrameOK, NoOverlap, Live
<1> QED BY <1>1, Invariance, PTL

\* Once a response is cached, no request that is sent runs the handler again.
THEOREM CachedIsFinal == Spec => []CacheIsFinal
<1>1. Inv => CacheIsFinal
    BY DEF Inv, FrameOK, CacheIsFinal, Critical
<1> QED BY <1>1, Invariance, PTL

\* What a replay carries, and that the cache is coherent when nothing failed.
THEOREM ReplayIsFaithful == Spec => []ReplayFaithful
<1>1. Inv => ReplayFaithful
    BY DEF Inv, CacheOK, AnswerOK, ReplayFaithful
<1> QED BY <1>1, Invariance, PTL
=============================================================================

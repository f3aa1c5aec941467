---------------------------- MODULE Idempotency -----------------------------
(***************************************************************************)
(* IdempotencyMiddleware (internal/infra/http/idempotency.go) over the     *)
(* Redis IdempotencyStore (internal/infra/redis/idempotency.go), for the   *)
(* requests that carry one Idempotency-Key: keys share no Redis entry, and *)
(* a request without a key, or that writes nothing, goes straight to its   *)
(* handler.  Each Redis command is a step: Store is a pipeline, not a      *)
(* transaction, so the commands of others come between its three.          *)
(*                                                                         *)
(* A run of the handler is known by its number, and the body it writes by  *)
(* the run that wrote it.  A client sends its request again when it was    *)
(* refused or saw an error.                                                *)
(***************************************************************************)
EXTENDS Integers, Sequences, FiniteSets

CONSTANTS
    Client,         \* the senders of the requests with this key
    Code,           \* the status codes the handler answers with
    Faults,         \* which failures may happen
    MaxFaults,      \* bound: how many of them happen
    None            \* no value

StatusOK == 200

ASSUME IdempotencyAssumption ==
    /\ IsFiniteSet(Client) /\ None \notin Client /\ None \notin Nat
    /\ Code \subseteq Nat /\ StatusOK \notin Code
    /\ MaxFaults \in Nat

VARIABLES
    body,           \* idem:<key>, the run whose response is cached
    status,         \* idem:status:<key>
    lock,           \* idem:lock:<key>, with the client that set it
    rq,             \* the frame of each client's request
    ans,            \* what each client was answered
    runs,           \* history variable: the code of each run, None if it has none
    broken,         \* history variable: a lock was removed under its holder
    failed          \* failures so far

redis == <<body, status, lock>>
vars == <<redis, rq, ans, runs, broken, failed>>

\* A client with no request under way.  In a frame, run is the run the request
\* started or the one whose body it replays, and late says that a response was
\* cached when the request was sent.
Idle == [pc |-> "idle", run |-> 0, late |-> FALSE]

\* From Lock to the end of Store.
Critical == {"run", "set_body", "set_status", "del_lock"}

Live(c) == c \in Client /\ rq[c].pc \in Critical

Goto(c, pc) == rq' = [rq EXCEPT ![c].pc = pc]

\* The request ends without an answer the client keeps.
Retry(c) == rq' = [rq EXCEPT ![c] = Idle]

Answer(c, code) ==
    /\ ans' = [ans EXCEPT ![c] = [run |-> rq[c].run, code |-> code]]
    /\ rq' = [rq EXCEPT ![c] = Idle]

Fail(kind) == kind \in Faults /\ failed < MaxFaults /\ failed' = failed + 1

-----------------------------------------------------------------------------
(* The middleware.                                                         *)

Send(c) ==
    /\ rq[c].pc = "idle" /\ ans[c] = None
    /\ rq' = [rq EXCEPT ![c] = [pc |-> "check", run |-> 0, late |-> body # None]]
    /\ UNCHANGED <<redis, ans, runs, broken, failed>>

\* Mutant: the status is what says that the key was processed.
Check_Status(c) ==
    /\ rq[c].pc = "check"
    /\ IF body = None \/ status = None
       THEN Goto(c, "lock")
       ELSE rq' = [rq EXCEPT ![c].pc = "replay", ![c].run = body]
    /\ UNCHANGED <<redis, ans, runs, broken, failed>>

Check(c) ==
    /\ rq[c].pc = "check"
    /\ IF body = None
       THEN Goto(c, "lock")
       ELSE rq' = [rq EXCEPT ![c].pc = "replay", ![c].run = body]
    /\ UNCHANGED <<redis, ans, runs, broken, failed>>

\* Mutant: a status that is not there is 0.
Replay_NoDefault(c) ==
    /\ rq[c].pc = "replay"
    /\ Answer(c, IF status = None THEN 0 ELSE status)
    /\ UNCHANGED <<redis, runs, broken, failed>>

\* GetStatus and the replay.  No status, or an error that is ignored, is 200.
Replay(c) ==
    /\ rq[c].pc = "replay"
    /\ \/ Answer(c, IF status = None THEN StatusOK ELSE status) /\ UNCHANGED failed
       \/ Answer(c, StatusOK) /\ Fail("redis")
    /\ UNCHANGED <<redis, runs, broken>>

\* Mutant: SET without NX.
Lock_Always(c) ==
    /\ rq[c].pc = "lock"
    /\ lock' = c
    /\ runs' = Append(runs, None)
    /\ rq' = [rq EXCEPT ![c].pc = "run", ![c].run = Len(runs) + 1]
    /\ UNCHANGED <<body, status, ans, broken, failed>>

\* SET NX succeeds and the handler starts.
Lock(c) ==
    /\ rq[c].pc = "lock"
    /\ lock = None
    /\ lock' = c
    /\ runs' = Append(runs, None)
    /\ rq' = [rq EXCEPT ![c].pc = "run", ![c].run = Len(runs) + 1]
    /\ UNCHANGED <<body, status, ans, broken, failed>>

\* 409 with Retry-After.
InFlight(c) ==
    /\ rq[c].pc = "lock"
    /\ lock # None
    /\ Retry(c)
    /\ UNCHANGED <<redis, ans, runs, broken, failed>>

\* next.ServeHTTP returns: errors are responses like any other.
Handle(c) ==
    /\ rq[c].pc = "run"
    /\ \E code \in Code : runs' = [runs EXCEPT ![rq[c].run] = code]
    /\ Goto(c, "set_body")
    /\ UNCHANGED <<redis, ans, broken, failed>>

-----------------------------------------------------------------------------
(* Store, and Unlock when it fails.                                        *)

\* Mutant: an earlier response is kept, and the status replaced.
SetBody_NX(c) ==
    /\ rq[c].pc = "set_body"
    /\ body' = IF body = None THEN rq[c].run ELSE body
    /\ Goto(c, "set_status")
    /\ UNCHANGED <<status, lock, ans, runs, broken, failed>>

SetBody(c) ==
    /\ rq[c].pc = "set_body"
    /\ body' = rq[c].run
    /\ Goto(c, "set_status")
    /\ UNCHANGED <<status, lock, ans, runs, broken, failed>>

SetStatus(c) ==
    /\ rq[c].pc = "set_status"
    /\ status' = runs[rq[c].run]
    /\ Goto(c, "del_lock")
    /\ UNCHANGED <<body, lock, ans, runs, broken, failed>>

\* DEL looks at no owner.
DeleteLock(c) ==
    /\ lock' = None
    /\ broken' = (broken \/ (lock # c /\ Live(lock)))

DelLock(c) ==
    /\ rq[c].pc = "del_lock"
    /\ DeleteLock(c)
    /\ Answer(c, runs[rq[c].run])
    /\ UNCHANGED <<body, status, runs, failed>>

Unlock(c) ==
    /\ rq[c].pc = "unlock"
    /\ DeleteLock(c)
    /\ Answer(c, runs[rq[c].run])
    /\ UNCHANGED <<body, status, runs, failed>>

\* Mutant: SET NX without an expiry.
ExpireLock_Never == FALSE /\ UNCHANGED vars

\* The 30 seconds of a lock whose holder is gone are over.
ExpireLock ==
    /\ lock # None /\ ~Live(lock)
    /\ lock' = None
    /\ UNCHANGED <<body, status, rq, ans, runs, broken, failed>>

-----------------------------------------------------------------------------
(* Failures.                                                               *)

\* The request is gone: its process stops, the handler panics, or the client
\* disconnects, which cancels the context that Store and Unlock use.  The
\* handler may have done its work, and the lock stays.
Abandon(c) ==
    /\ Fail("abandon")
    /\ rq[c].pc # "idle"
    /\ Retry(c)
    /\ UNCHANGED <<redis, ans, runs, broken>>

\* Check or Lock fails: 500.  The SET NX may have been done.
RedisError(c) ==
    /\ Fail("redis")
    /\ rq[c].pc \in {"check", "lock"}
    /\ lock' \in (IF rq[c].pc = "lock" /\ lock = None THEN {None, c} ELSE {lock})
    /\ Retry(c)
    /\ UNCHANGED <<body, status, ans, runs, broken>>

\* Store fails before one of its commands, or after the last was done.
StoreFails(c) ==
    /\ Fail("redis")
    /\ rq[c].pc \in {"set_body", "set_status", "del_lock"}
    /\ \/ UNCHANGED <<lock, broken>>
       \/ rq[c].pc = "del_lock" /\ DeleteLock(c)
    /\ Goto(c, "unlock")
    /\ UNCHANGED <<body, status, ans, runs>>

\* The error of Unlock is ignored.
UnlockFails(c) ==
    /\ Fail("redis")
    /\ rq[c].pc = "unlock"
    /\ Answer(c, runs[rq[c].run])
    /\ UNCHANGED <<redis, runs, broken>>

\* The request takes longer than its lock lasts.
Outlived ==
    /\ Fail("slow")
    /\ Live(lock)
    /\ lock' = None
    /\ broken' = TRUE
    /\ UNCHANGED <<body, status, rq, ans, runs>>

-----------------------------------------------------------------------------

Init ==
    /\ body = None /\ status = None /\ lock = None
    /\ rq = [c \in Client |-> Idle]
    /\ ans = [c \in Client |-> None]
    /\ runs = <<>>
    /\ broken = FALSE
    /\ failed = 0

\* The commands of a request, and the client that sends it again.
Step(c) ==
    \/ Send(c) \/ Check(c) \/ Replay(c) \/ Lock(c) \/ InFlight(c) \/ Handle(c)
    \/ SetBody(c) \/ SetStatus(c) \/ DelLock(c) \/ Unlock(c)

Next ==
    \/ \E c \in Client : \/ Step(c) \/ Abandon(c) \/ RedisError(c)
                         \/ StoreFails(c) \/ UnlockFails(c)
    \/ ExpireLock \/ Outlived

Spec == Init /\ [][Next]_vars

\* Requests run to their end, refused clients try again (Retry-After), and Redis
\* expires the locks that are left.
FairSpec == Spec /\ WF_vars(ExpireLock) /\ \A c \in Client : WF_vars(Step(c))

-----------------------------------------------------------------------------
(* Properties.                                                             *)

\* Redis entries, frames and answers are well formed: a replay always has a
\* status code, also when the middleware finds none.
TypeOK ==
    /\ runs \in Seq(Code \cup {None})
    /\ body \in DOMAIN runs \cup {None}
    /\ status \in Code \cup {None}
    /\ lock \in Client \cup {None}
    /\ rq \in [Client -> [pc : Critical \cup {"idle", "check", "replay", "lock", "unlock"},
                          run : DOMAIN runs \cup {0}, late : BOOLEAN]]
    /\ ans \in [Client -> [run : DOMAIN runs, code : Code \cup {StatusOK}] \cup {None}]
    /\ broken \in BOOLEAN
    /\ failed \in Nat

\* Two requests are past Lock at the same time only if the lock of one was
\* removed under it: it expired, or a request that had lost its own lock
\* deleted it, DEL asking for no owner.
NoOverlap == \A c, d \in Client : Live(c) /\ Live(d) /\ c # d => broken

\* "Subsequent identical requests return the cached response": a request that
\* was sent when a response was cached never runs the handler, whatever fails.
CacheIsFinal == \A c \in Client : rq[c].late => rq[c].pc \notin Critical \cup {"lock", "unlock"}

\* A replay carries the body of a run that ended, with the status of that run,
\* or 200 for a status that is not there, or the status of another run.  With no
\* failure the cached status is that of the cached body, except while Store is
\* between the two.
ReplayFaithful ==
    /\ \A c \in Client : ans[c] # None =>
           /\ runs[ans[c].run] # None
           /\ ans[c].code = StatusOK \/ \E n \in DOMAIN runs : ans[c].code = runs[n]
    /\ body # None /\ status # runs[body] =>
           failed > 0 \/ \E c \in Client : rq[c].pc = "set_status"

\* Every client is answered in the end, by its own run or by a replay: no lock
\* that a failed request leaves behind keeps the key from being processed.
EventuallyAnswered == <>(\A c \in Client : ans[c] # None)

\* "Write requests with the same Idempotency-Key are only processed once"
\* (internal/infra/http/idempotency.go:10).
OnlyOnce == Len(runs) <= 1
=============================================================================

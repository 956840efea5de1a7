-------------------------------- MODULE DbPool --------------------------------
(***************************************************************************)
(* db/pool_manager.py with PostgreSQL: the pool that all threads of a pod  *)
(* share, its recovery, and the calls that use it.  The pool's attribute   *)
(* is read without a lock; _pool_lock guards its replacement and           *)
(* _recovery_lock the mark that a recovery is on its way.                  *)
(*                                                                         *)
(* A pool that is closed stays closed, so a call need only know whether    *)
(* the one it picked is still open.  The reserve pool of the event loop    *)
(* lives and dies with the shared one and is left out.                     *)
(***************************************************************************)
EXTENDS Integers, FiniteSets

CONSTANTS
  Threads,     \* threads that use the database
  Size,        \* connections of the pool (max_size)
  MaxRetries,  \* DEFAULT_MAX_RETRIES
  MaxFaults,   \* bound on outages, lost connections and pools that cannot be made
  Nobody

ASSUME DbPoolAssumption ==
  Size \in Nat \ {0} /\ MaxRetries \in Nat \ {0} /\ MaxFaults \in Nat /\ Nobody \notin Threads

VARIABLES
  pool,        \* _pool: "none", "open" or "closed"
  poolLock,    \* who holds _pool_lock (critical sections of one step are not shown)
  dozer,       \* who sleeps with _recovery_lock held
  recovering,  \* _recovering
  thread,      \* the calls in progress
  up,          \* the database answers
  faults

vars == <<pool, poolLock, dozer, recovering, thread, up, faults>>
shared == <<pool, poolLock, dozer, recovering>>
world == <<up, faults>>

Kinds == {"query", "health", "connect", "reconnect", "disconnect"}
Pools == {"none", "open", "closed"}
First == [query |-> "check", health |-> "check", connect |-> "create",
          reconnect |-> "reconnect", disconnect |-> "disconnect"]
InRecovery == {"close", "create", "ready", "unmark"}
PC == InRecovery \cup {"idle", "check", "checked", "pick", "acquire", "body", "recover", "doze",
                       "again", "acquire2", "body2", "retry", "recheck", "reconnect",
                       "disconnect", "done"}
Call == [pc : PC, kind : Kinds, attempt : 0..MaxRetries, mine : Pools,
         back : PC,                \* where a recovery returns to
         ok : BOOLEAN,             \* what the recovery, or in the end the call, answers
         lost : BOOLEAN,           \* the connection broke with the statement under way
         rows : 0..MaxRetries + 1, \* times the statement was committed
         acks : 0..MaxFaults]      \* commits whose answer was lost
Idle == [pc |-> "idle", kind |-> "query", attempt |-> 0, mine |-> "none", back |-> "idle",
         ok |-> FALSE, lost |-> FALSE, rows |-> 0, acks |-> 0]

At(t, labels) == thread[t].pc \in labels
Query(t) == thread[t].kind = "query"
Goto(t, label) == thread' = [thread EXCEPT ![t].pc = label]
Recover(t, back) == thread' = [thread EXCEPT ![t].pc = "recover", ![t].back = back]
Back(t, ok) ==
  thread' = [thread EXCEPT ![t].pc = thread[t].back, ![t].ok = ok, ![t].back = "idle"]
End(t, answer) ==
  thread' = [thread EXCEPT ![t].pc = "done", ![t].ok = answer, ![t].mine = "none"]
Fault == faults < MaxFaults /\ faults' = faults + 1 /\ UNCHANGED up

Healthy == pool = "open"   \* _is_pool_healthy
\* A pool is closed, with u doing next: who picked it has a closed one.
Closed(others) == [u \in Threads |->
  [others[u] EXCEPT !.mine = IF @ = "open" THEN "closed" ELSE @]]
\* Connections in use; those of a pool that was closed are not this pool's.
Used == {u \in Threads : At(u, {"body", "body2"}) /\ thread[u].mine = "open"}

-----------------------------------------------------------------------------
Begin(t, k) ==
  /\ At(t, {"idle"})
  /\ thread' = [thread EXCEPT ![t].pc = First[k], ![t].kind = k]
  /\ UNCHANGED <<shared, world>>

Return(t) ==
  /\ At(t, {"done"})
  /\ thread' = [thread EXCEPT ![t] = Idle]
  /\ UNCHANGED <<shared, world>>

\* get_connection and health_check: an unhealthy pool is recovered first, but
\* not by a health check that follows a recovery.
Check(t) ==
  /\ At(t, {"check"})
  /\ IF Healthy THEN Goto(t, "pick")
     ELSE IF Query(t) \/ thread[t].attempt = 0 THEN Recover(t, "checked")
     ELSE End(t, FALSE)
  /\ UNCHANGED <<shared, world>>

\* A recovery that failed is a RuntimeError, and nobody retries that.
Unavailable(t) ==
  /\ At(t, {"checked"})
  /\ ~thread[t].ok
  /\ End(t, FALSE)
  /\ UNCHANGED <<shared, world>>

Pick(t) ==
  /\ \/ At(t, {"pick"})
     \/ At(t, {"checked", "again"}) /\ thread[t].ok
  /\ thread' = [thread EXCEPT ![t].pc = IF At(t, {"again"}) THEN "acquire2" ELSE "acquire",
                              ![t].mine = pool, ![t].ok = FALSE]
  /\ UNCHANGED <<shared, world>>

\* An OperationalError out of the operation: _execute_with_retry recovers and
\* tries again.
Operational(t) ==
  IF thread[t].attempt < MaxRetries THEN Recover(t, "retry") ELSE End(t, FALSE)
HealthFailed(t) ==
  IF thread[t].attempt = 0 THEN Recover(t, "recheck") ELSE End(t, FALSE)

\* pool.connection: an AttributeError without a pool, PoolClosed, or PoolTimeout
\* when the database is down or all connections are in use.
CanConnect(t) == thread[t].mine = "open" /\ up /\ Cardinality(Used) < Size
CannotConnect(t) ==
  thread[t].mine = "closed" \/ (thread[t].mine = "open" /\ (~up \/ Cardinality(Used) >= Size))

Acquire(t) ==
  /\ At(t, {"acquire"})
  /\ \/ CanConnect(t) /\ Goto(t, "body")
     \/ CannotConnect(t) /\ Query(t) /\ Recover(t, "again")
     \/ thread[t].mine = "none" /\ Query(t) /\ End(t, FALSE)
     \/ ~CanConnect(t) /\ ~Query(t) /\ HealthFailed(t)
  /\ UNCHANGED <<shared, world>>

\* The second connection of one get_connection.  If the first broke in the body
\* of the with statement, the generator may not yield again: contextlib turns
\* the second yield into a RuntimeError, and nobody retries that.
Acquire2(t) ==
  /\ At(t, {"acquire2"})
  /\ \/ CanConnect(t) /\ ~thread[t].lost /\ Goto(t, "body2")
     \/ CanConnect(t) /\ thread[t].lost /\ End(t, FALSE)
     \/ CannotConnect(t) /\ Operational(t)
     \/ thread[t].mine = "none" /\ End(t, FALSE)
  /\ UNCHANGED <<shared, world>>

RecoveryFailed(t) ==
  /\ At(t, {"again"})
  /\ ~thread[t].ok
  /\ Operational(t)
  /\ UNCHANGED <<shared, world>>

-----------------------------------------------------------------------------
(* The statement and its commit, in the body of the with statement.        *)

Commit(t) == thread[t].rows + (IF Query(t) THEN 1 ELSE 0)
Answered(t) ==
  /\ up
  /\ thread' = [thread EXCEPT ![t].pc = "done", ![t].ok = TRUE, ![t].mine = "none",
                              ![t].rows = Commit(t)]
  /\ UNCHANGED world

\* The connection is gone: with the commit done but its answer lost, or before it.
Broken(t, rows, acks) ==
  /\ thread' = [thread EXCEPT
       ![t].pc = "recover",
       ![t].back = IF At(t, {"body"}) THEN IF Query(t) THEN "again" ELSE "recheck" ELSE "retry",
       ![t].lost = At(t, {"body"}),
       ![t].mine = "none",
       ![t].rows = rows,
       ![t].acks = acks]

LostBefore(t) ==
  /\ Broken(t, thread[t].rows, thread[t].acks)
  /\ IF up THEN Fault ELSE UNCHANGED world
LostAfter(t) ==
  /\ Query(t)
  /\ Broken(t, Commit(t), thread[t].acks + 1)
  /\ Fault

\* Where no retry is left, the loss is the end of the call.
LastLoss(t) ==
  \/ At(t, {"body2"}) /\ thread[t].attempt = MaxRetries
  \/ At(t, {"body"}) /\ ~Query(t) /\ thread[t].attempt = 1
LostForGood(t) ==
  \/ End(t, FALSE) /\ IF up THEN Fault ELSE UNCHANGED world
  \/ /\ Query(t) /\ Fault
     /\ thread' = [thread EXCEPT ![t].pc = "done", ![t].ok = FALSE, ![t].mine = "none",
                                 ![t].rows = Commit(t), ![t].acks = @ + 1]

BodyWrong(t) ==   \* a connection that commits by itself, statement by statement
  /\ At(t, {"body", "body2"})
  /\ \/ Answered(t)
     \/ ~LastLoss(t) /\ (IF up THEN Fault ELSE UNCHANGED world)
                     /\ Broken(t, Commit(t), thread[t].acks)
     \/ ~LastLoss(t) /\ LostAfter(t)
     \/ LastLoss(t) /\ LostForGood(t)
  /\ UNCHANGED shared

Body(t) ==
  /\ At(t, {"body", "body2"})
  /\ \/ Answered(t)
     \/ ~LastLoss(t) /\ (LostBefore(t) \/ LostAfter(t))
     \/ LastLoss(t) /\ LostForGood(t)
  /\ UNCHANGED shared

\* _execute_with_retry: the next attempt, after another look at the pool.
Retry(t) ==
  /\ At(t, {"retry"})
  /\ thread' = [thread EXCEPT ![t].attempt = @ + 1, ![t].lost = FALSE, ![t].mine = "none",
                              ![t].ok = FALSE,
                              ![t].pc = IF Healthy THEN "check" ELSE "recover",
                              ![t].back = "check"]
  /\ UNCHANGED <<shared, world>>

\* health_check(auto_recover=False), after a recovery.
Recheck(t) ==
  /\ At(t, {"recheck"})
  /\ IF thread[t].ok
     THEN thread' = [thread EXCEPT ![t].pc = "check", ![t].attempt = 1, ![t].mine = "none",
                                   ![t].ok = FALSE, ![t].lost = FALSE]
     ELSE End(t, FALSE)
  /\ UNCHANGED <<shared, world>>

-----------------------------------------------------------------------------
(* _try_recover_connection                                                 *)

EnterWrong(t) ==   \* everybody who finds the pool broken replaces it
  /\ At(t, {"recover"})
  /\ dozer = Nobody
  /\ recovering' = TRUE
  /\ Goto(t, "close")
  /\ UNCHANGED <<pool, poolLock, dozer, world>>

Enter(t) ==
  /\ At(t, {"recover"})
  /\ dozer = Nobody
  /\ IF recovering
     THEN Goto(t, "doze") /\ dozer' = t /\ UNCHANGED recovering
     ELSE Goto(t, "close") /\ recovering' = TRUE /\ UNCHANGED dozer
  /\ UNCHANGED <<pool, poolLock, world>>

DozeWrong(t) ==   \* waits for the lock of the recovery it waits for
  /\ At(t, {"doze"})
  /\ ~recovering
  /\ dozer' = Nobody
  /\ Back(t, Healthy)
  /\ UNCHANGED <<pool, poolLock, recovering, world>>

\* Half a second, with the lock held that the other needs to finish.
Doze(t) ==
  /\ At(t, {"doze"})
  /\ dozer' = Nobody
  /\ Back(t, Healthy)
  /\ UNCHANGED <<pool, poolLock, recovering, world>>

Close(t, next) ==
  /\ poolLock = Nobody
  /\ pool' = "none"
  /\ thread' = Closed([thread EXCEPT ![t].pc = next, ![t].ok = (next = "done")])
  /\ UNCHANGED <<poolLock, dozer, recovering, world>>

RecoverClose(t) == At(t, {"close"}) /\ Close(t, "create")
Disconnect(t) == At(t, {"disconnect"}) /\ Close(t, "done")

\* _connect_postgresql_pool: the new pool is there before it is ready.
AfterCreate(t) == IF thread[t].kind \in {"connect", "reconnect"} THEN "done" ELSE "unmark"
Create(t) ==
  /\ At(t, {"create"})
  /\ poolLock = Nobody
  /\ \/ /\ pool' = "open"
        /\ poolLock' = t
        /\ thread' = Closed([thread EXCEPT ![t].pc = "ready"])
        /\ UNCHANGED world
     \/ /\ Fault   \* no pool object; one that was there is closed
        /\ pool' = IF pool = "none" THEN "none" ELSE "closed"
        /\ thread' = Closed([thread EXCEPT ![t].pc = AfterCreate(t), ![t].ok = FALSE])
        /\ UNCHANGED poolLock
  /\ UNCHANGED <<dozer, recovering>>

\* pool.wait, which closes a pool that gets no connections.
Ready(t) ==
  LET next == [thread EXCEPT ![t].pc = AfterCreate(t), ![t].ok = up]
  IN  /\ At(t, {"ready"})
      /\ pool' = IF up THEN pool ELSE "closed"
      /\ thread' = IF up THEN next ELSE Closed(next)
      /\ poolLock' = Nobody
      /\ UNCHANGED <<dozer, recovering, world>>

UnmarkWrong(t) ==   \* only a recovery that succeeded takes the mark away
  /\ At(t, {"unmark"})
  /\ dozer = Nobody
  /\ recovering' = ~thread[t].ok
  /\ Back(t, thread[t].ok)
  /\ UNCHANGED <<pool, poolLock, dozer, world>>

Unmark(t) ==
  /\ At(t, {"unmark"})
  /\ dozer = Nobody
  /\ recovering' = FALSE
  /\ Back(t, thread[t].ok)
  /\ UNCHANGED <<pool, poolLock, dozer, world>>

\* reconnect: a pool that is there, closed or not, is drained; without one it is
\* created, by a method that takes the lock that is already held.
Reconnect(t) ==
  /\ At(t, {"reconnect"})
  /\ poolLock = Nobody
  /\ IF pool = "none" THEN Goto(t, "create") /\ poolLock' = t
                      ELSE End(t, TRUE) /\ UNCHANGED poolLock
  /\ UNCHANGED <<pool, dozer, recovering, world>>

-----------------------------------------------------------------------------
Down == up /\ faults < MaxFaults /\ faults' = faults + 1 /\ up' = FALSE /\ UNCHANGED <<shared, thread>>
Up == ~up /\ up' = TRUE /\ UNCHANGED <<shared, thread, faults>>

Init ==
  /\ pool = "none" /\ poolLock = Nobody /\ dozer = Nobody /\ recovering = FALSE
  /\ thread = [t \in Threads |-> Idle]
  /\ up = TRUE /\ faults = 0

Operation(t) ==
  \/ Check(t) \/ Unavailable(t) \/ Pick(t) \/ Acquire(t) \/ Acquire2(t) \/ RecoveryFailed(t)
  \/ Body(t) \/ Retry(t) \/ Recheck(t)
Recovery(t) ==
  \/ Enter(t) \/ Doze(t) \/ RecoverClose(t) \/ Disconnect(t)
  \/ Create(t) \/ Ready(t) \/ Unmark(t) \/ Reconnect(t)
GoesOn(t) == Operation(t) \/ Recovery(t) \/ Return(t)

Next ==
  \/ \E t \in Threads : GoesOn(t) \/ \E k \in Kinds : Begin(t, k)
  \/ Down \/ Up

\* A thread runs, and gets a lock that is free again and again; an outage ends.
Fairness == (\A t \in Threads : SF_vars(GoesOn(t))) /\ WF_vars(Up)

Spec == Init /\ [][Next]_vars /\ Fairness

-----------------------------------------------------------------------------
\* No call makes more attempts than _execute_with_retry allows, or commits a
\* statement more often than once per attempt.
TypeOK ==
  /\ pool \in Pools
  /\ poolLock \in Threads \cup {Nobody}
  /\ dozer \in Threads \cup {Nobody}
  /\ recovering \in BOOLEAN
  /\ thread \in [Threads -> Call]
  /\ up \in BOOLEAN
  /\ faults \in 0..MaxFaults

\* A call that answers has committed its statement, and the retries commit it
\* again only where the answer to a commit was lost.
RowsPerCall ==
  \A t \in Threads : At(t, {"done"}) /\ Query(t) =>
    /\ thread[t].ok => thread[t].rows >= 1
    /\ thread[t].rows <= thread[t].acks + (IF thread[t].ok THEN 1 ELSE 0)

\* One thread replaces the pool at a time, however many find it broken, and the
\* mark says exactly that.
OneRecovery ==
  LET mending == {t \in Threads : At(t, InRecovery) /\ AfterCreate(t) = "unmark"}
  IN  /\ \A t, u \in mending : t = u
      /\ recovering <=> mending # {}

\* A thread that waits for the lock it holds.
Stuck == \E t \in Threads : poolLock = t /\ At(t, {"create"})

\* Every call comes to an end, whoever else recovers the pool meanwhile, unless
\* a reconnect without a pool has taken the lock for good.
CallsEnd == \A t \in Threads : ~At(t, {"idle"}) ~> (At(t, {"idle"}) \/ Stuck)

Asked == \E t \in Threads : Begin(t, "query")

\* As long as calls are made and the database answers, the pod gets its pool
\* back, after a recovery that failed too.
PoolComesBack ==
  []<><<Asked>>_vars /\ <>[]up => []<>(pool = "open" /\ poolLock = Nobody) \/ <>Stuck

-----------------------------------------------------------------------------
\* "Replaces all connections or makes the pool anew": a reconnect comes back.
ReconnectReturns == ~Stuck
=============================================================================

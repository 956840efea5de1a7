----------------------------- MODULE DbPool_proofs -----------------------------
(***************************************************************************)
(* Theorems of DbPool for any threads, pool size, number of retries and    *)
(* faults: type correctness, RowsPerCall and OneRecovery.                  *)
(***************************************************************************)
EXTENDS DbPool, TLAPS

\* The call c replaces the pool under the mark of _recovering.
Mends(c) == c.pc \in InRecovery /\ c.kind \notin {"connect", "reconnect"}

\* Only what uses the pool recovers it.
KindFits(c) ==
  /\ c.kind = "connect" => c.pc \in {"create", "ready", "done"}
  /\ c.kind = "reconnect" => c.pc \in {"reconnect", "create", "ready", "done"}
  /\ c.kind = "disconnect" => c.pc \in {"disconnect", "done"}
  /\ c.kind \in {"query", "health"} => c.pc \notin {"reconnect", "disconnect"}
  /\ c.pc \in {"idle", "again", "acquire2", "body2", "retry"} => c.kind = "query"
  /\ c.pc = "recheck" => c.kind = "health"

\* A recovery returns to a place of its own kind of call, and to a retry only
\* where one is left.
InCall == {"recover", "doze"} \cup InRecovery
BackFits(c) ==
  /\ c.kind \in {"query", "health"} /\ c.pc \in InCall =>
       /\ c.back \in {"checked", "again", "retry", "check", "recheck"}
       /\ c.back \in {"again", "retry"} => c.kind = "query"
       /\ c.back = "recheck" => c.kind = "health"
       /\ c.back = "retry" => c.attempt < MaxRetries
  /\ c.pc = "retry" => c.attempt < MaxRetries

\* One commit per attempt; until the end, each of them with its answer lost.
BeforeCommit == {"idle", "check", "checked", "pick", "acquire", "body", "body2"}
RowsFit(c) ==
  /\ c.kind # "query" => c.rows = 0 /\ c.acks = 0
  /\ c.pc = "idle" => c.rows = 0
  /\ c.pc # "done" => c.rows = c.acks
  /\ c.pc = "done" => c.rows = c.acks \/ (c.ok /\ c.rows = c.acks + 1)
  /\ c.pc = "done" /\ c.ok /\ c.kind = "query" => c.rows >= 1
  /\ c.rows <= c.attempt + 1
  /\ \/ c.pc \in BeforeCommit
     \/ c.pc \in InCall /\ c.back \in {"checked", "check"}
     \/ ~c.lost /\ (c.pc \in {"again", "acquire2"} \/ (c.pc \in InCall /\ c.back = "again"))
     => c.rows <= c.attempt

Fits(c) == KindFits(c) /\ BackFits(c) /\ RowsFit(c)

IInv ==
  /\ TypeOK
  /\ OneRecovery
  /\ \A t \in Threads : Fits(thread[t]) /\ thread[t].acks <= faults

\* The fields of a call that a closed pool leaves alone.
Same(c, d) ==
  /\ c.pc = d.pc /\ c.kind = d.kind /\ c.attempt = d.attempt /\ c.back = d.back
  /\ c.ok = d.ok /\ c.lost = d.lost /\ c.rows = d.rows /\ c.acks = d.acks

-----------------------------------------------------------------------------
\* What a step of the call of t must show for IInv to hold after it.
LEMMA StepOf ==
  ASSUME IInv, NEW t \in Threads,
         thread' \in [Threads -> Call],
         \A u \in Threads \ {t} : Same(thread[u], thread'[u]),
         Fits(thread'[t]), thread'[t].acks <= faults',
         faults' \in 0..MaxFaults, faults' >= faults,
         pool' \in Pools, poolLock' \in Threads \cup {Nobody}, dozer' \in Threads \cup {Nobody},
         recovering' \in BOOLEAN, up' \in BOOLEAN,
         \/ (Mends(thread'[t]) <=> Mends(thread[t])) /\ (recovering' <=> recovering)
         \/ ~recovering /\ Mends(thread'[t]) /\ recovering'
         \/ Mends(thread[t]) /\ ~Mends(thread'[t]) /\ ~recovering'
  PROVE  IInv'
<1> USE DEF IInv
<1>1. TypeOK'
  BY DEF TypeOK
<1>2. \A u \in Threads \ {t} : Fits(thread'[u]) /\ thread'[u].acks <= faults'
  BY DbPoolAssumption DEF Fits, KindFits, BackFits, RowsFit, Same, TypeOK, Call
<1>3. \A u \in Threads \ {t} : Mends(thread'[u]) <=> Mends(thread[u])
  BY DEF Mends, Same
<1>4. \A u \in Threads : Mends(thread[u]) <=> At(u, InRecovery) /\ AfterCreate(u) = "unmark"
  BY DEF Mends, At, AfterCreate
<1>5. \A u \in Threads : Mends(thread'[u]) <=> (At(u, InRecovery) /\ AfterCreate(u) = "unmark")'
  BY DEF Mends, At, AfterCreate
<1>6. /\ \A u, v \in Threads : Mends(thread[u]) /\ Mends(thread[v]) => u = v
      /\ recovering <=> \E u \in Threads : Mends(thread[u])
  BY <1>4 DEF OneRecovery
<1>7. /\ \A u, v \in Threads : Mends(thread'[u]) /\ Mends(thread'[v]) => u = v
      /\ recovering' <=> \E u \in Threads : Mends(thread'[u])
  BY <1>3, <1>6
<1>8. OneRecovery'
  BY <1>5, <1>7 DEF OneRecovery
<1> QED
  BY <1>1, <1>2, <1>8

-----------------------------------------------------------------------------
(* Calls by themselves: what the records that the actions build keep.      *)

LEMMA SameFits ==
  ASSUME NEW c \in Call, NEW d \in Call, Same(c, d), Fits(c)
  PROVE  Fits(d) /\ (Mends(d) <=> Mends(c)) /\ d.acks = c.acks
<1> USE DbPoolAssumption
<1>1. KindFits(d)
  BY DEF Same, Fits, KindFits, InRecovery
<1>2. BackFits(d)
  BY DEF Same, Fits, BackFits, InCall, InRecovery
<1>3. RowsFit(d)
  BY DEF Same, Fits, RowsFit, InCall, InRecovery, BeforeCommit
<1> QED
  BY <1>1, <1>2, <1>3 DEF Same, Fits, Mends

\* The end of a call that gives up.
LEMMA EndsFit ==
  ASSUME NEW c \in Call, Fits(c), c.pc # "done"
  PROVE  LET d == [c EXCEPT !.pc = "done", !.ok = FALSE, !.mine = "none"]
         IN  d \in Call /\ Fits(d) /\ ~Mends(d) /\ d.acks = c.acks
<1> DEFINE d == [c EXCEPT !.pc = "done", !.ok = FALSE, !.mine = "none"]
<1>1. d \in Call
  BY DEF Call, PC, Pools
<1>2. /\ d.pc = "done" /\ d.kind = c.kind /\ d.attempt = c.attempt /\ d.lost = c.lost
      /\ d.rows = c.rows /\ d.acks = c.acks /\ c.rows = c.acks /\ d.ok = FALSE
  BY DEF Call, Fits, RowsFit
<1> HIDE DEF d
<1>3. KindFits(d) /\ BackFits(d) /\ ~Mends(d)
  BY <1>2 DEF Fits, KindFits, BackFits, InCall, InRecovery, Mends
<1>4. RowsFit(d)
  BY <1>2 DEF Fits, RowsFit, BeforeCommit, InCall, InRecovery
<1> QED
  BY <1>1, <1>2, <1>3, <1>4 DEF Fits, d

\* A call that starts a recovery.
LEMMA RecoversFit ==
  ASSUME NEW c \in Call, Fits(c), c.kind \in {"query", "health"}, c.pc # "done",
         NEW b \in {"checked", "again", "retry", "recheck"},
         b \in {"again", "retry"} => c.kind = "query",
         b = "recheck" => c.kind = "health",
         b = "retry" => c.attempt < MaxRetries,
         b = "checked" \/ (b = "again" /\ ~c.lost) => c.rows <= c.attempt
  PROVE  LET d == [c EXCEPT !.pc = "recover", !.back = b]
         IN  d \in Call /\ Fits(d) /\ ~Mends(d) /\ d.acks = c.acks
<1> DEFINE d == [c EXCEPT !.pc = "recover", !.back = b]
<1>1. d \in Call
  BY DEF Call, PC, Pools
<1>2. /\ d.pc = "recover" /\ d.kind = c.kind /\ d.attempt = c.attempt /\ d.lost = c.lost
      /\ d.rows = c.rows /\ d.acks = c.acks /\ c.rows = c.acks /\ d.back = b
  BY DEF Call, Fits, RowsFit
<1> HIDE DEF d
<1>3. KindFits(d) /\ BackFits(d) /\ ~Mends(d)
  BY <1>2 DEF Fits, KindFits, BackFits, InCall, InRecovery, Mends
<1>4. RowsFit(d)
  BY <1>2 DEF Fits, RowsFit, BeforeCommit, InCall, InRecovery
<1> QED
  BY <1>1, <1>2, <1>3, <1>4 DEF Fits, d

-----------------------------------------------------------------------------
(* Steps of one call.                                                      *)

LEMMA TheCall ==
  ASSUME IInv, NEW t \in Threads
  PROVE  /\ thread[t] \in Call /\ Fits(thread[t]) /\ thread[t].acks <= faults
         /\ pool \in Pools /\ up \in BOOLEAN /\ recovering \in BOOLEAN
         /\ faults \in 0..MaxFaults
BY DEF IInv, TypeOK

\* A step of a call that neither is in a recovery nor replaces the pool.
LEMMA Moved ==
  ASSUME IInv, NEW t \in Threads, NEW c \in Call,
         thread' = [thread EXCEPT ![t] = c], Fits(c), c.acks <= faults',
         ~Mends(thread[t]), ~Mends(c),
         UNCHANGED shared, up' \in BOOLEAN,
         faults' \in 0..MaxFaults, faults' >= faults
  PROVE  IInv'
<1>1. /\ thread' \in [Threads -> Call]
      /\ thread'[t] = c
      /\ \A u \in Threads \ {t} : Same(thread[u], thread'[u])
  BY DEF IInv, TypeOK, Same
<1> QED
  BY <1>1, StepOf DEF IInv, TypeOK, shared

\* The same where the world stands still.
LEMMA MovedQuietly ==
  ASSUME IInv, NEW t \in Threads, NEW c \in Call,
         thread' = [thread EXCEPT ![t] = c], Fits(c), c.acks = thread[t].acks \/ c.acks = 0,
         ~Mends(thread[t]), ~Mends(c), UNCHANGED shared, UNCHANGED world
  PROVE  IInv'
<1>1. thread[t].acks <= faults /\ up \in BOOLEAN /\ faults \in 0..MaxFaults
      /\ c.acks \in 0..MaxFaults /\ thread[t].acks \in 0..MaxFaults
  BY TheCall DEF Call
<1>2. up' \in BOOLEAN /\ faults' \in 0..MaxFaults /\ faults' >= faults /\ c.acks <= faults'
  BY <1>1, DbPoolAssumption DEF world
<1> QED
  BY <1>2, Moved

LEMMA BeginStep == ASSUME IInv, NEW t \in Threads, NEW k \in Kinds, Begin(t, k) PROVE IInv'
<1> DEFINE c == [thread[t] EXCEPT !.pc = First[k], !.kind = k]
<1>1. thread[t].pc = "idle" /\ ~Mends(thread[t])
  BY DEF Begin, At, Mends, InRecovery
<1>2. c \in Call /\ Fits(c) /\ ~Mends(c) /\ c.acks = thread[t].acks
  <2>1. thread[t].kind = "query" /\ thread[t].rows = 0 /\ thread[t].acks = 0
    BY <1>1, TheCall DEF Fits, KindFits, RowsFit
  <2>2. /\ k \in {"query", "health"} => First[k] = "check"
        /\ k = "connect" => First[k] = "create"
        /\ k = "reconnect" => First[k] = "reconnect"
        /\ k = "disconnect" => First[k] = "disconnect"
    BY DEF First
  <2>3. First[k] \in PC /\ First[k] \notin {"idle", "done"}
    BY <2>2 DEF Kinds, PC, InRecovery
  <2>4. c \in Call
    BY <2>3, TheCall DEF Call
  <2>5. c.pc = First[k] /\ c.kind = k /\ c.rows = 0 /\ c.acks = 0
    BY <2>1, TheCall DEF Call
  <2> HIDE DEF c
  <2>6. c.attempt \in Nat
    BY <2>4 DEF Call
  <2>7. KindFits(c) /\ BackFits(c) /\ ~Mends(c)
    BY <2>5, <2>2 DEF KindFits, BackFits, InCall, InRecovery, Kinds, Mends
  <2>8. RowsFit(c)
    BY <2>3, <2>5, <2>6 DEF RowsFit
  <2> QED
    BY <2>1, <2>4, <2>5, <2>7, <2>8 DEF Fits
<1>3. thread' = [thread EXCEPT ![t] = c] /\ UNCHANGED shared /\ UNCHANGED world
  BY DEF Begin
<1> HIDE DEF c
<1> QED
  BY <1>1, <1>2, <1>3, MovedQuietly

LEMMA ReturnStep == ASSUME IInv, NEW t \in Threads, Return(t) PROVE IInv'
<1>1. thread[t].pc = "done" /\ ~Mends(thread[t])
  BY DEF Return, At, Mends, InRecovery
<1>2. Idle \in Call /\ Fits(Idle) /\ ~Mends(Idle) /\ Idle.acks = 0
  BY TheCall, DbPoolAssumption DEF Idle, Kinds, Fits, KindFits, BackFits, RowsFit, Call, PC, InRecovery, InCall, Pools, BeforeCommit, Mends
<1>3. thread' = [thread EXCEPT ![t] = Idle] /\ UNCHANGED shared /\ UNCHANGED world
  BY DEF Return
<1> QED
  BY <1>1, <1>2, <1>3, MovedQuietly

LEMMA CheckStep == ASSUME IInv, NEW t \in Threads, Check(t) PROVE IInv'
<1> DEFINE picks == [thread[t] EXCEPT !.pc = "pick"]
           recovers == [thread[t] EXCEPT !.pc = "recover", !.back = "checked"]
           ends == [thread[t] EXCEPT !.pc = "done", !.ok = FALSE, !.mine = "none"]
<1>1. thread[t].pc = "check" /\ ~Mends(thread[t])
  BY DEF Check, At, Mends, InRecovery
<1>2. thread[t].kind \in {"query", "health"} /\ thread[t].rows <= thread[t].attempt
  BY <1>1, TheCall DEF Kinds, Fits, KindFits, BackFits, RowsFit, Call, PC, InRecovery, InCall, Pools, BeforeCommit, Mends
<1>3. picks \in Call /\ Fits(picks) /\ ~Mends(picks) /\ picks.acks = thread[t].acks
  BY <1>1, TheCall, DbPoolAssumption DEF Fits, KindFits, BackFits, RowsFit, Call, PC, InRecovery, InCall, Pools, BeforeCommit, Mends
<1>4. recovers \in Call /\ Fits(recovers) /\ ~Mends(recovers) /\ recovers.acks = thread[t].acks
  BY <1>1, <1>2, TheCall, RecoversFit
<1>5. ends \in Call /\ Fits(ends) /\ ~Mends(ends) /\ ends.acks = thread[t].acks
  BY <1>1, TheCall, EndsFit
<1>6. \/ thread' = [thread EXCEPT ![t] = picks]
      \/ thread' = [thread EXCEPT ![t] = recovers]
      \/ thread' = [thread EXCEPT ![t] = ends]
  BY DEF Check, Goto, Recover, End
<1>7. UNCHANGED shared /\ UNCHANGED world
  BY DEF Check
<1> HIDE DEF picks, recovers, ends
<1> QED
  BY <1>1, <1>3, <1>4, <1>5, <1>6, <1>7, MovedQuietly

LEMMA UnavailableStep == ASSUME IInv, NEW t \in Threads, Unavailable(t) PROVE IInv'
<1> DEFINE ends == [thread[t] EXCEPT !.pc = "done", !.ok = FALSE, !.mine = "none"]
<1>1. thread[t].pc = "checked" /\ ~Mends(thread[t])
  BY DEF Unavailable, At, Mends, InRecovery
<1>2. ends \in Call /\ Fits(ends) /\ ~Mends(ends) /\ ends.acks = thread[t].acks
  BY <1>1, TheCall, EndsFit
<1>3. thread' = [thread EXCEPT ![t] = ends] /\ UNCHANGED shared /\ UNCHANGED world
  BY DEF Unavailable, End
<1> QED
  BY <1>1, <1>2, <1>3, MovedQuietly

LEMMA PickStep == ASSUME IInv, NEW t \in Threads, Pick(t) PROVE IInv'
<1> DEFINE c == [thread[t] EXCEPT !.pc = IF At(t, {"again"}) THEN "acquire2" ELSE "acquire",
                                  !.mine = pool, !.ok = FALSE]
<1>1. thread[t].pc \in {"pick", "checked", "again"} /\ ~Mends(thread[t])
  BY DEF Pick, At, Mends, InRecovery
<1>2. c \in Call /\ Fits(c) /\ ~Mends(c) /\ c.acks = thread[t].acks
  <2>1. /\ c.pc = IF thread[t].pc = "again" THEN "acquire2" ELSE "acquire"
        /\ c.kind = thread[t].kind /\ c.attempt = thread[t].attempt /\ c.lost = thread[t].lost
        /\ c.rows = thread[t].rows /\ c.acks = thread[t].acks /\ c.ok = FALSE
    BY TheCall DEF Call, At
  <2>2. c \in Call
    <3> DEFINE pc == IF At(t, {"again"}) THEN "acquire2" ELSE "acquire"
               r == thread[t]
    <3>1. pc \in PC
      BY DEF PC
    <3>2. r \in Call /\ pool \in Pools
      BY TheCall
    <3> HIDE DEF pc, r
    <3>3. [r EXCEPT !.pc = pc, !.mine = pool, !.ok = FALSE] \in Call
      BY <3>1, <3>2 DEF Call
    <3> QED
      BY <3>3 DEF pc, r
  <2> HIDE DEF c
  <2>0. KindFits(thread[t]) /\ BackFits(thread[t]) /\ RowsFit(thread[t])
    BY TheCall DEF Fits
  <2>3. BackFits(c) /\ ~Mends(c)
    BY <1>1, <2>0, <2>1 DEF BackFits, InCall, InRecovery, Mends
  <2>4. KindFits(c)
    BY <1>1, <2>0, <2>1 DEF KindFits, InCall, InRecovery
  <2>5. RowsFit(c)
    BY <1>1, <2>0, <2>1 DEF RowsFit, BeforeCommit, InCall, InRecovery
  <2> QED
    BY <2>1, <2>2, <2>3, <2>4, <2>5 DEF Fits
<1>3. thread' = [thread EXCEPT ![t] = c] /\ UNCHANGED shared /\ UNCHANGED world
  BY DEF Pick
<1> QED
  BY <1>1, <1>2, <1>3, MovedQuietly

\* _execute_with_retry with an OperationalError, and its like in health_check.
LEMMA OperationalStep ==
  ASSUME IInv, NEW t \in Threads, Operational(t), thread[t].kind = "query",
         thread[t].pc # "done", ~Mends(thread[t]), UNCHANGED shared, UNCHANGED world
  PROVE  IInv'
<1> DEFINE recovers == [thread[t] EXCEPT !.pc = "recover", !.back = "retry"]
           ends == [thread[t] EXCEPT !.pc = "done", !.ok = FALSE, !.mine = "none"]
<1>1. CASE thread[t].attempt < MaxRetries
  <2>1. recovers \in Call /\ Fits(recovers) /\ ~Mends(recovers) /\ recovers.acks = thread[t].acks
    BY <1>1, TheCall, RecoversFit
  <2>2. thread' = [thread EXCEPT ![t] = recovers]
    BY <1>1 DEF Operational, Recover
  <2> HIDE DEF recovers
  <2> QED
    BY <2>1, <2>2, MovedQuietly
<1>2. CASE ~(thread[t].attempt < MaxRetries)
  <2>1. ends \in Call /\ Fits(ends) /\ ~Mends(ends) /\ ends.acks = thread[t].acks
    BY TheCall, EndsFit
  <2>2. thread' = [thread EXCEPT ![t] = ends]
    BY <1>2 DEF Operational, End
  <2> HIDE DEF ends
  <2> QED
    BY <2>1, <2>2, MovedQuietly
<1> QED
  BY <1>1, <1>2

LEMMA HealthFailedStep ==
  ASSUME IInv, NEW t \in Threads, HealthFailed(t), thread[t].kind = "health",
         thread[t].pc # "done", ~Mends(thread[t]), UNCHANGED shared, UNCHANGED world
  PROVE  IInv'
<1> DEFINE recovers == [thread[t] EXCEPT !.pc = "recover", !.back = "recheck"]
           ends == [thread[t] EXCEPT !.pc = "done", !.ok = FALSE, !.mine = "none"]
<1>1. recovers \in Call /\ Fits(recovers) /\ ~Mends(recovers) /\ recovers.acks = thread[t].acks
  BY TheCall, RecoversFit
<1>2. ends \in Call /\ Fits(ends) /\ ~Mends(ends) /\ ends.acks = thread[t].acks
  BY TheCall, EndsFit
<1>3. thread' = [thread EXCEPT ![t] = recovers] \/ thread' = [thread EXCEPT ![t] = ends]
  BY DEF HealthFailed, Recover, End
<1> HIDE DEF recovers, ends
<1> QED
  BY <1>1, <1>2, <1>3, MovedQuietly

LEMMA EndStep ==
  ASSUME IInv, NEW t \in Threads, End(t, FALSE),
         thread[t].pc # "done", ~Mends(thread[t]), UNCHANGED shared, UNCHANGED world
  PROVE  IInv'
<1> DEFINE ends == [thread[t] EXCEPT !.pc = "done", !.ok = FALSE, !.mine = "none"]
<1>1. ends \in Call /\ Fits(ends) /\ ~Mends(ends) /\ ends.acks = thread[t].acks
  BY TheCall, EndsFit
<1>2. thread' = [thread EXCEPT ![t] = ends]
  BY DEF End
<1> HIDE DEF ends
<1> QED
  BY <1>1, <1>2, MovedQuietly

\* A step that only goes on with the call.
LEMMA GotoFits ==
  ASSUME NEW c \in Call, Fits(c), NEW p \in {"body", "body2"},
         p = "body" => c.pc = "acquire", p = "body2" => c.pc = "acquire2" /\ ~c.lost
  PROVE  LET d == [c EXCEPT !.pc = p]
         IN  d \in Call /\ Fits(d) /\ ~Mends(d) /\ d.acks = c.acks
<1> DEFINE d == [c EXCEPT !.pc = p]
<1>1. d \in Call
  BY DEF Call, PC
<1>2. /\ d.pc = p /\ d.kind = c.kind /\ d.attempt = c.attempt /\ d.lost = c.lost
      /\ d.rows = c.rows /\ d.acks = c.acks /\ d.ok = c.ok
  BY DEF Call
<1> HIDE DEF d
<1>3. KindFits(d) /\ BackFits(d) /\ ~Mends(d)
  BY <1>2 DEF Fits, KindFits, BackFits, InCall, InRecovery, Mends
<1>4. RowsFit(d)
  BY <1>2 DEF Fits, RowsFit, BeforeCommit, InCall, InRecovery
<1> QED
  BY <1>1, <1>2, <1>3, <1>4 DEF Fits, d

LEMMA AcquireStep == ASSUME IInv, NEW t \in Threads, Acquire(t) PROVE IInv'
<1> DEFINE body == [thread[t] EXCEPT !.pc = "body"]
           recovers == [thread[t] EXCEPT !.pc = "recover", !.back = "again"]
<1>1. thread[t].pc = "acquire" /\ ~Mends(thread[t]) /\ UNCHANGED shared /\ UNCHANGED world
  BY DEF Acquire, At, Mends, InRecovery
<1>2. thread[t].kind \in {"query", "health"} /\ thread[t].rows <= thread[t].attempt
  BY <1>1, TheCall DEF Kinds, Call, Fits, KindFits, RowsFit, BeforeCommit
<1>3. CASE Goto(t, "body")
  <2>1. body \in Call /\ Fits(body) /\ ~Mends(body) /\ body.acks = thread[t].acks
    BY <1>1, TheCall, GotoFits
  <2>2. thread' = [thread EXCEPT ![t] = body]
    BY <1>3 DEF Goto
  <2> HIDE DEF body
  <2> QED
    BY <1>1, <2>1, <2>2, MovedQuietly
<1>4. CASE Query(t) /\ Recover(t, "again")
  <2>1. recovers \in Call /\ Fits(recovers) /\ ~Mends(recovers) /\ recovers.acks = thread[t].acks
    BY <1>1, <1>2, <1>4, TheCall, RecoversFit DEF Query
  <2>2. thread' = [thread EXCEPT ![t] = recovers]
    BY <1>4 DEF Recover
  <2> HIDE DEF recovers
  <2> QED
    BY <1>1, <2>1, <2>2, MovedQuietly
<1>5. CASE End(t, FALSE)
  BY <1>1, <1>5, EndStep
<1>6. CASE ~Query(t) /\ HealthFailed(t)
  BY <1>1, <1>2, <1>6, HealthFailedStep DEF Query
<1> QED
  BY <1>3, <1>4, <1>5, <1>6 DEF Acquire

LEMMA Acquire2Step == ASSUME IInv, NEW t \in Threads, Acquire2(t) PROVE IInv'
<1> DEFINE body2 == [thread[t] EXCEPT !.pc = "body2"]
<1>1. thread[t].pc = "acquire2" /\ ~Mends(thread[t]) /\ UNCHANGED shared /\ UNCHANGED world
  BY DEF Acquire2, At, Mends, InRecovery
<1>2. thread[t].kind = "query"
  BY <1>1, TheCall DEF Fits, KindFits
<1>3. CASE ~thread[t].lost /\ Goto(t, "body2")
  <2>1. body2 \in Call /\ Fits(body2) /\ ~Mends(body2) /\ body2.acks = thread[t].acks
    BY <1>1, <1>3, TheCall, GotoFits
  <2>2. thread' = [thread EXCEPT ![t] = body2]
    BY <1>3 DEF Goto
  <2> HIDE DEF body2
  <2> QED
    BY <1>1, <2>1, <2>2, MovedQuietly
<1>4. CASE End(t, FALSE)
  BY <1>1, <1>4, EndStep
<1>5. CASE Operational(t)
  BY <1>1, <1>2, <1>5, OperationalStep
<1> QED
  BY <1>3, <1>4, <1>5 DEF Acquire2

LEMMA RecoveryFailedStep == ASSUME IInv, NEW t \in Threads, RecoveryFailed(t) PROVE IInv'
<1>1. thread[t].pc = "again" /\ ~Mends(thread[t]) /\ UNCHANGED shared /\ UNCHANGED world
  BY DEF RecoveryFailed, At, Mends, InRecovery
<1>2. thread[t].kind = "query"
  BY <1>1, TheCall DEF Fits, KindFits
<1> QED
  BY <1>1, <1>2, OperationalStep DEF RecoveryFailed

-----------------------------------------------------------------------------
(* The statement and its commit.                                           *)

\* The answer arrives.
LEMMA AnsweredFits ==
  ASSUME NEW c \in Call, Fits(c), c.pc \in {"body", "body2"}, c.kind \in {"query", "health"},
         NEW n, n = c.rows + (IF c.kind = "query" THEN 1 ELSE 0)
  PROVE  LET d == [c EXCEPT !.pc = "done", !.ok = TRUE, !.mine = "none", !.rows = n]
         IN  d \in Call /\ Fits(d) /\ ~Mends(d) /\ d.acks = c.acks
<1> DEFINE d == [c EXCEPT !.pc = "done", !.ok = TRUE, !.mine = "none", !.rows = n]
<1> USE DbPoolAssumption
<1>1. /\ c.rows = c.acks /\ c.rows <= c.attempt
      /\ c.kind # "query" => c.rows = 0
      /\ c.rows \in Nat /\ c.attempt \in 0..MaxRetries
  BY DEF Call, Fits, RowsFit, BeforeCommit
<1>2. n \in 0..MaxRetries + 1
  BY <1>1
<1>3. d \in Call
  BY <1>2 DEF Call, PC, Pools
<1>4. /\ d.pc = "done" /\ d.kind = c.kind /\ d.attempt = c.attempt
      /\ d.rows = n /\ d.acks = c.acks /\ d.ok = TRUE
  BY DEF Call
<1> HIDE DEF d
<1>5. KindFits(d) /\ BackFits(d) /\ ~Mends(d)
  BY <1>4 DEF Fits, KindFits, BackFits, InCall, InRecovery, Mends
<1>6. RowsFit(d)
  BY <1>1, <1>4 DEF RowsFit, BeforeCommit, InCall, InRecovery
<1> QED
  BY <1>3, <1>4, <1>5, <1>6 DEF Fits, d

\* The connection breaks, n times one commit done without an answer.
LEMMA BrokenFits ==
  ASSUME NEW c \in Call, Fits(c), c.pc \in {"body", "body2"}, c.kind \in {"query", "health"},
         c.pc = "body2" => c.kind = "query" /\ c.attempt < MaxRetries,
         NEW n, n = 0 \/ (n = 1 /\ c.kind = "query"), c.acks + n <= MaxFaults
  PROVE  LET d == [c EXCEPT !.pc = "recover",
                            !.back = IF c.pc \in {"body"}
                                     THEN IF c.kind = "query" THEN "again" ELSE "recheck"
                                     ELSE "retry",
                            !.lost = c.pc \in {"body"}, !.mine = "none",
                            !.rows = c.rows + n, !.acks = c.acks + n]
         IN  d \in Call /\ Fits(d) /\ ~Mends(d) /\ d.acks = c.acks + n
<1> DEFINE b == IF c.pc \in {"body"} THEN IF c.kind = "query" THEN "again" ELSE "recheck"
                                     ELSE "retry"
           l == c.pc \in {"body"}
           r == c.rows + n
           a == c.acks + n
           d == [c EXCEPT !.pc = "recover", !.back = b, !.lost = l, !.mine = "none",
                          !.rows = r, !.acks = a]
<1> USE DbPoolAssumption
<1>1. /\ c.rows = c.acks /\ c.rows <= c.attempt
      /\ c.kind # "query" => c.rows = 0
      /\ c.rows \in Nat /\ c.acks \in Nat /\ c.attempt \in 0..MaxRetries
  BY DEF Call, Fits, RowsFit, BeforeCommit
<1>2. r \in 0..MaxRetries + 1 /\ a \in 0..MaxFaults /\ b \in PC
  BY <1>1 DEF PC
<1>3. /\ b = IF c.pc = "body" THEN IF c.kind = "query" THEN "again" ELSE "recheck" ELSE "retry"
      /\ l \in BOOLEAN /\ (l <=> c.pc = "body")
      /\ r = c.rows + n /\ a = c.acks + n
  OBVIOUS
<1>4. d \in Call /\ Fits(d) /\ ~Mends(d) /\ d.acks = a
  <2> HIDE DEF b, l, r, a
  <2>1. d \in Call
    <3>1. "recover" \in PC /\ "none" \in Pools
      BY DEF PC, Pools
    <3> QED
      BY <1>2, <1>3, <3>1 DEF Call
  <2>2. /\ d.pc = "recover" /\ d.kind = c.kind /\ d.attempt = c.attempt
        /\ d.back = b /\ d.lost = l /\ d.rows = r /\ d.acks = a
    BY DEF Call
  <2> HIDE DEF d
  <2>3. KindFits(d) /\ ~Mends(d)
    BY <2>2 DEF KindFits, InRecovery, Mends
  <2>4. BackFits(d)
    BY <1>3, <2>2 DEF BackFits, InCall
  <2>5. RowsFit(d)
    BY <1>1, <1>3, <2>2 DEF RowsFit, BeforeCommit, InCall, InRecovery
  <2> QED
    BY <2>1, <2>2, <2>3, <2>4, <2>5 DEF Fits
<1> QED
  BY <1>4

\* The connection breaks with no retry left, the commit done without an answer.
LEMMA LostFits ==
  ASSUME NEW c \in Call, Fits(c), c.pc \in {"body", "body2"}, c.kind = "query",
         c.acks + 1 <= MaxFaults
  PROVE  LET d == [c EXCEPT !.pc = "done", !.ok = FALSE, !.mine = "none",
                            !.rows = c.rows + 1, !.acks = c.acks + 1]
         IN  d \in Call /\ Fits(d) /\ ~Mends(d) /\ d.acks = c.acks + 1
<1> DEFINE d == [c EXCEPT !.pc = "done", !.ok = FALSE, !.mine = "none",
                          !.rows = c.rows + 1, !.acks = c.acks + 1]
<1> USE DbPoolAssumption
<1>1. /\ c.rows = c.acks /\ c.rows <= c.attempt
      /\ c.rows \in Nat /\ c.acks \in Nat /\ c.attempt \in 0..MaxRetries
  BY DEF Call, Fits, RowsFit, BeforeCommit
<1>2. c.rows + 1 \in 0..MaxRetries + 1 /\ c.acks + 1 \in 0..MaxFaults
  BY <1>1
<1>3. d \in Call
  BY <1>2 DEF Call, PC, Pools
<1>4. /\ d.pc = "done" /\ d.kind = c.kind /\ d.attempt = c.attempt /\ d.ok = FALSE
      /\ d.rows = c.rows + 1 /\ d.acks = c.acks + 1
  BY DEF Call
<1> HIDE DEF d
<1>5. KindFits(d) /\ BackFits(d) /\ ~Mends(d)
  BY <1>4 DEF KindFits, BackFits, InCall, InRecovery, Mends
<1>6. RowsFit(d)
  BY <1>1, <1>4 DEF RowsFit, BeforeCommit, InCall, InRecovery
<1> QED
  BY <1>3, <1>4, <1>5, <1>6 DEF Fits, d

LEMMA BodyStep == ASSUME IInv, NEW t \in Threads, Body(t) PROVE IInv'
<1> USE DbPoolAssumption
<1> DEFINE c == thread[t]
           broken(n) == [c EXCEPT !.pc = "recover",
                                  !.back = IF c.pc \in {"body"}
                                           THEN IF c.kind = "query" THEN "again" ELSE "recheck"
                                           ELSE "retry",
                                  !.lost = c.pc \in {"body"}, !.mine = "none",
                                  !.rows = c.rows + n, !.acks = c.acks + n]
<1>1. c.pc \in {"body", "body2"} /\ ~Mends(c) /\ UNCHANGED shared
  BY DEF Body, At, Mends, InRecovery
<1>2. /\ c \in Call /\ Fits(c) /\ c.acks <= faults
      /\ faults \in 0..MaxFaults /\ up \in BOOLEAN
  BY TheCall
<1>3. /\ c.kind \in {"query", "health"} /\ (c.pc = "body2" => c.kind = "query")
      /\ c.rows \in Nat /\ c.acks \in Nat /\ c.attempt \in 0..MaxRetries
  BY <1>1, <1>2 DEF Kinds, Call, Fits, KindFits
<1>4. Commit(t) = c.rows + (IF c.kind = "query" THEN 1 ELSE 0)
  BY DEF Commit, Query
<1>5. CASE Answered(t)
  <2> DEFINE d == [c EXCEPT !.pc = "done", !.ok = TRUE, !.mine = "none", !.rows = Commit(t)]
  <2>1. d \in Call /\ Fits(d) /\ ~Mends(d) /\ d.acks = c.acks
    BY <1>1, <1>2, <1>3, <1>4, AnsweredFits
  <2>2. thread' = [thread EXCEPT ![t] = d] /\ UNCHANGED world
    BY <1>5 DEF Answered
  <2> HIDE DEF d
  <2> QED
    BY <1>1, <2>1, <2>2, MovedQuietly
<1>6. CASE ~LastLoss(t) /\ LostBefore(t)
  <2> DEFINE d == broken(0)
  <2>1. c.pc = "body2" => c.kind = "query" /\ c.attempt < MaxRetries
    BY <1>3, <1>6 DEF LastLoss, At
  <2>2. c.rows = c.rows + 0 /\ c.acks = c.acks + 0 /\ c.acks + 0 <= MaxFaults
    BY <1>2, <1>3
  <2>3. d \in Call /\ Fits(d) /\ ~Mends(d) /\ d.acks = c.acks + 0
    BY <1>1, <1>2, <1>3, <2>1, <2>2, BrokenFits
  <2>4. thread' = [thread EXCEPT ![t] = d]
    BY <1>6, <2>2, Zenon DEF LostBefore, Broken, At, Query
  <2>5. up' \in BOOLEAN /\ faults' \in 0..MaxFaults /\ faults' >= faults
        /\ c.acks + 0 <= faults'
    BY <1>2, <1>3, <1>6 DEF LostBefore, Fault, world
  <2> HIDE DEF d
  <2> QED
    BY <1>1, <2>3, <2>4, <2>5, Moved
<1>7. CASE ~LastLoss(t) /\ LostAfter(t)
  <2> DEFINE d == broken(1)
  <2>1. c.pc = "body2" => c.kind = "query" /\ c.attempt < MaxRetries
    BY <1>3, <1>7 DEF LastLoss, At
  <2>2. c.kind = "query" /\ faults < MaxFaults /\ faults' = faults + 1 /\ up' = up
    BY <1>7 DEF LostAfter, Query, Fault
  <2>3. Commit(t) = c.rows + 1 /\ c.acks + 1 <= MaxFaults
    BY <1>2, <1>3, <1>4, <2>2
  <2>4. d \in Call /\ Fits(d) /\ ~Mends(d) /\ d.acks = c.acks + 1
    BY <1>1, <1>2, <1>3, <2>1, <2>2, <2>3, BrokenFits
  <2>5. thread' = [thread EXCEPT ![t] = d]
    BY <1>7, <2>3, Zenon DEF LostAfter, Broken, At, Query
  <2>6. up' \in BOOLEAN /\ faults' \in 0..MaxFaults /\ faults' >= faults
        /\ c.acks + 1 <= faults'
    BY <1>2, <1>3, <2>2
  <2> HIDE DEF d
  <2> QED
    BY <1>1, <2>4, <2>5, <2>6, Moved
<1>8. CASE End(t, FALSE) /\ IF up THEN Fault ELSE UNCHANGED world
  <2> DEFINE d == [c EXCEPT !.pc = "done", !.ok = FALSE, !.mine = "none"]
  <2>1. d \in Call /\ Fits(d) /\ ~Mends(d) /\ d.acks = c.acks
    BY <1>1, <1>2, EndsFit
  <2>2. thread' = [thread EXCEPT ![t] = d]
    BY <1>8 DEF End
  <2>3. up' \in BOOLEAN /\ faults' \in 0..MaxFaults /\ faults' >= faults /\ c.acks <= faults'
    BY <1>2, <1>3, <1>8 DEF Fault, world
  <2> HIDE DEF d
  <2> QED
    BY <1>1, <2>1, <2>2, <2>3, Moved
<1>9. CASE /\ Query(t) /\ Fault
           /\ thread' = [thread EXCEPT ![t].pc = "done", ![t].ok = FALSE, ![t].mine = "none",
                                       ![t].rows = Commit(t), ![t].acks = @ + 1]
  <2> DEFINE d == [c EXCEPT !.pc = "done", !.ok = FALSE, !.mine = "none",
                            !.rows = c.rows + 1, !.acks = c.acks + 1]
  <2>1. c.kind = "query" /\ faults < MaxFaults /\ faults' = faults + 1 /\ up' = up
    BY <1>9 DEF Query, Fault
  <2>2. Commit(t) = c.rows + 1 /\ c.acks + 1 <= MaxFaults
    BY <1>2, <1>3, <1>4, <2>1
  <2>3. d \in Call /\ Fits(d) /\ ~Mends(d) /\ d.acks = c.acks + 1
    BY <1>1, <1>2, <2>1, <2>2, LostFits
  <2>4. thread' = [thread EXCEPT ![t] = d]
    BY <1>9, <2>2, Zenon
  <2>5. up' \in BOOLEAN /\ faults' \in 0..MaxFaults /\ faults' >= faults
        /\ c.acks + 1 <= faults'
    BY <1>2, <1>3, <2>1
  <2> HIDE DEF d
  <2> QED
    BY <1>1, <2>3, <2>4, <2>5, Moved
<1> QED
  BY <1>5, <1>6, <1>7, <1>8, <1>9 DEF Body, LostForGood

LEMMA RetryStep == ASSUME IInv, NEW t \in Threads, Retry(t) PROVE IInv'
<1> USE DbPoolAssumption
<1> DEFINE c == thread[t]
           p == IF Healthy THEN "check" ELSE "recover"
           d == [c EXCEPT !.attempt = c.attempt + 1, !.lost = FALSE, !.mine = "none", !.ok = FALSE,
                          !.pc = p, !.back = "check"]
<1>1. c.pc = "retry" /\ ~Mends(c) /\ c \in Call /\ Fits(c)
  BY TheCall DEF Retry, At, Mends, InRecovery
<1>2. /\ c.kind = "query" /\ c.attempt + 1 \in 0..MaxRetries /\ c.attempt \in Nat
      /\ c.rows = c.acks /\ c.rows <= c.attempt + 1 /\ c.rows \in Nat
  BY <1>1 DEF Call, Fits, KindFits, BackFits, RowsFit
<1>3. p \in {"check", "recover"} /\ p \in PC
  BY DEF PC
<1>4. d \in Call /\ Fits(d) /\ ~Mends(d) /\ d.acks = c.acks
  <2> HIDE DEF p
  <2>1. d \in Call
    BY <1>1, <1>2, <1>3 DEF Call, PC, Pools
  <2>2. /\ d.pc = p /\ d.kind = "query" /\ d.attempt = c.attempt + 1 /\ d.back = "check"
        /\ d.rows = c.rows /\ d.acks = c.acks
    BY <1>1, <1>2 DEF Call
  <2> HIDE DEF d
  <2>3. KindFits(d) /\ BackFits(d) /\ ~Mends(d)
    BY <1>3, <2>2 DEF KindFits, BackFits, InCall, InRecovery, Mends
  <2>4. RowsFit(d)
    BY <1>2, <1>3, <2>2 DEF RowsFit
  <2> QED
    BY <2>1, <2>2, <2>3, <2>4 DEF Fits
<1>5. thread' = [thread EXCEPT ![t] = d] /\ UNCHANGED shared /\ UNCHANGED world
  BY DEF Retry
<1> HIDE DEF d
<1> QED
  BY <1>1, <1>4, <1>5, MovedQuietly

LEMMA RecheckStep == ASSUME IInv, NEW t \in Threads, Recheck(t) PROVE IInv'
<1> USE DbPoolAssumption
<1> DEFINE c == thread[t]
           d == [c EXCEPT !.pc = "check", !.attempt = 1, !.mine = "none", !.ok = FALSE,
                          !.lost = FALSE]
<1>1. c.pc = "recheck" /\ ~Mends(c) /\ c \in Call /\ Fits(c)
  BY TheCall DEF Recheck, At, Mends, InRecovery
<1>2. c.kind = "health" /\ c.rows = 0 /\ c.acks = 0
  BY <1>1 DEF Fits, KindFits, RowsFit
<1>3. d \in Call /\ Fits(d) /\ ~Mends(d) /\ d.acks = c.acks
  <2>0. 1 \in 0..MaxRetries /\ "check" \in PC
    BY DEF PC
  <2>1. d \in Call
    BY <1>1, <2>0 DEF Call, Pools
  <2>2. d.pc = "check" /\ d.kind = "health" /\ d.attempt = 1 /\ d.rows = 0 /\ d.acks = 0
    BY <1>1, <1>2 DEF Call
  <2> HIDE DEF d
  <2>3. KindFits(d) /\ BackFits(d) /\ ~Mends(d) /\ RowsFit(d)
    BY <2>2 DEF KindFits, BackFits, RowsFit, InCall, InRecovery, Mends
  <2> QED
    BY <1>2, <2>1, <2>2, <2>3 DEF Fits
<1>4. CASE thread' = [thread EXCEPT ![t] = d] /\ UNCHANGED shared /\ UNCHANGED world
  <2> HIDE DEF d
  <2> QED
    BY <1>1, <1>3, <1>4, MovedQuietly
<1>5. CASE End(t, FALSE) /\ UNCHANGED shared /\ UNCHANGED world
  BY <1>1, <1>5, EndStep
<1> QED
  BY <1>4, <1>5 DEF Recheck

-----------------------------------------------------------------------------
(* Steps of a recovery.                                                    *)

\* A call that goes on within its recovery.
LEMMA WithinFits ==
  ASSUME NEW c \in Call, Fits(c), c.pc \in InCall \cup {"reconnect"},
         NEW d \in Call, d.pc \in InCall,
         c.kind \in {"query", "health"} \/ d.pc \in {"create", "ready"},
         c.kind # "disconnect", c.pc = "reconnect" => c.kind = "reconnect",
         d.kind = c.kind, d.attempt = c.attempt, d.back = c.back, d.lost = c.lost,
         d.rows = c.rows, d.acks = c.acks
  PROVE  Fits(d)
<1> USE DbPoolAssumption
<1>1. KindFits(d)
  BY DEF KindFits, InCall, InRecovery, Call, Kinds
<1>2. BackFits(d)
  BY DEF Fits, BackFits, InCall, InRecovery
<1>3. CASE c.pc = "reconnect"
  <2>1. d.kind = "reconnect" /\ d.rows = 0 /\ d.acks = 0 /\ d.attempt \in Nat /\ d.pc # "done"
    BY <1>3 DEF Fits, RowsFit, Call, InCall, InRecovery
  <2>2. RowsFit(d)
    BY <2>1 DEF RowsFit
  <2> QED
    BY <1>1, <1>2, <2>2 DEF Fits
<1>4. CASE c.pc \in InCall
  <2>1. c.pc \notin BeforeCommit \cup {"done", "again", "acquire2"}
        /\ d.pc \notin BeforeCommit \cup {"done", "again", "acquire2"}
    BY <1>4 DEF InCall, InRecovery, BeforeCommit
  <2>2. RowsFit(d)
    BY <1>4, <2>1 DEF Fits, RowsFit, BeforeCommit
  <2> QED
    BY <1>1, <1>2, <2>2 DEF Fits
<1> QED
  BY <1>3, <1>4

\* A connect, reconnect or disconnect that ends.
LEMMA ManagedFits ==
  ASSUME NEW c \in Call, Fits(c), c.pc # "done", c.kind \notin {"query", "health"},
         NEW d \in Call, d.pc = "done", d.kind = c.kind, d.attempt = c.attempt,
         d.rows = c.rows, d.acks = c.acks
  PROVE  Fits(d)
<1> USE DbPoolAssumption
<1>1. KindFits(d) /\ BackFits(d)
  BY DEF KindFits, BackFits, InCall, InRecovery
<1>2. d.rows = 0 /\ d.acks = 0 /\ d.attempt \in Nat
  BY DEF Fits, RowsFit, Call
<1>3. RowsFit(d)
  BY <1>2 DEF RowsFit, BeforeCommit, InCall, InRecovery
<1> QED
  BY <1>1, <1>3 DEF Fits

\* A recovery that returns.
LEMMA BacksFit ==
  ASSUME NEW c \in Call, Fits(c), c.pc \in InCall, c.kind \in {"query", "health"},
         NEW o \in BOOLEAN
  PROVE  LET d == [c EXCEPT !.pc = c.back, !.ok = o, !.back = "idle"]
         IN  d \in Call /\ Fits(d) /\ ~Mends(d) /\ d.acks = c.acks
<1> DEFINE d == [c EXCEPT !.pc = c.back, !.ok = o, !.back = "idle"]
<1> USE DbPoolAssumption
<1>1. c.back \in {"checked", "again", "retry", "check", "recheck"} /\ c.pc # "done"
  BY DEF Fits, BackFits, InCall, InRecovery
<1>2. d \in Call
  BY DEF Call, PC
<1>3. /\ d.pc = c.back /\ d.kind = c.kind /\ d.attempt = c.attempt /\ d.lost = c.lost
      /\ d.rows = c.rows /\ d.acks = c.acks
  BY DEF Call
<1> HIDE DEF d
<1>4. KindFits(d) /\ BackFits(d) /\ ~Mends(d)
  BY <1>1, <1>3 DEF Fits, KindFits, BackFits, InCall, InRecovery, Mends
<1>5. RowsFit(d)
  BY <1>1, <1>3 DEF Fits, RowsFit, BeforeCommit, InCall, InRecovery
<1> QED
  BY <1>2, <1>3, <1>4, <1>5 DEF Fits, d

LEMMA Put ==
  ASSUME IInv, NEW t \in Threads, NEW c \in Call, thread' = [thread EXCEPT ![t] = c]
  PROVE  /\ thread' \in [Threads -> Call] /\ thread'[t] = c
         /\ \A u \in Threads \ {t} : Same(thread[u], thread'[u])
BY DEF IInv, TypeOK, Same

\* The same with the pool of everybody closed.
LEMMA PutClosed ==
  ASSUME IInv, NEW t \in Threads, NEW c \in Call, Fits(c),
         thread' = Closed([thread EXCEPT ![t] = c])
  PROVE  /\ thread' \in [Threads -> Call] /\ Fits(thread'[t])
         /\ (Mends(thread'[t]) <=> Mends(c)) /\ thread'[t].acks = c.acks
         /\ \A u \in Threads \ {t} : Same(thread[u], thread'[u])
<1> DEFINE f == [thread EXCEPT ![t] = c]
           shut(d) == [d EXCEPT !.mine = IF @ = "open" THEN "closed" ELSE @]
<1>1. f \in [Threads -> Call] /\ f[t] = c /\ \A u \in Threads \ {t} : f[u] = thread[u]
  BY DEF IInv, TypeOK
<1>2. ASSUME NEW d \in Call PROVE shut(d) \in Call /\ Same(d, shut(d))
  BY DEF Call, Pools, Same
<1>3. thread' = [u \in Threads |-> shut(f[u])]
  BY DEF Closed
<1> HIDE DEF f, shut
<1>4. thread' \in [Threads -> Call] /\ \A u \in Threads : Same(f[u], thread'[u])
  BY <1>1, <1>2, <1>3
<1> QED
  BY <1>1, <1>4, SameFits

\* What StepOf asks of the variables that a recovery leaves alone.
LEMMA Types ==
  ASSUME IInv
  PROVE  /\ pool \in Pools /\ poolLock \in Threads \cup {Nobody}
         /\ dozer \in Threads \cup {Nobody} /\ recovering \in BOOLEAN /\ up \in BOOLEAN
         /\ faults \in 0..MaxFaults /\ faults >= faults
         /\ \A t \in Threads : thread[t].acks \in Nat
BY DbPoolAssumption DEF IInv, TypeOK, Call

LEMMA EnterStep == ASSUME IInv, NEW t \in Threads, Enter(t) PROVE IInv'
<1> DEFINE c == thread[t]
           d(p) == [c EXCEPT !.pc = p]
<1>1. c.pc = "recover" /\ ~Mends(c) /\ c \in Call /\ Fits(c) /\ c.acks <= faults
  BY TheCall DEF Enter, At, Mends, InRecovery
<1>2. c.kind \in {"query", "health"}
  BY <1>1 DEF Call, Kinds, Fits, KindFits
<1>3. ASSUME NEW p \in {"doze", "close"}, thread' = [thread EXCEPT ![t] = d(p)]
      PROVE  /\ thread' \in [Threads -> Call] /\ Fits(thread'[t]) /\ thread'[t].acks = c.acks
             /\ (Mends(thread'[t]) <=> p = "close")
             /\ \A u \in Threads \ {t} : Same(thread[u], thread'[u])
  <2>1. d(p) \in Call
    BY <1>1 DEF Call, PC, InRecovery
  <2>2. /\ d(p).pc = p /\ d(p).kind = c.kind /\ d(p).attempt = c.attempt /\ d(p).back = c.back
        /\ d(p).lost = c.lost /\ d(p).rows = c.rows /\ d(p).acks = c.acks
    BY <1>1 DEF Call
  <2> DEFINE e == d(p)
  <2> HIDE DEF d, e
  <2>3. Fits(e)
    <3>1. c.pc \in InCall /\ p \in InCall
      BY <1>1 DEF InCall, InRecovery
    <3> QED
      BY <1>1, <1>2, <2>1, <2>2, <3>1, WithinFits DEF e
  <2>4. Mends(e) <=> p = "close"
    BY <1>2, <2>2 DEF Mends, InRecovery, e
  <2> QED
    BY <1>3, <2>1, <2>2, <2>3, <2>4, Put DEF e
<1>4. UNCHANGED <<pool, poolLock, world>>
  BY DEF Enter
<1>5. CASE recovering
  <2>1. thread' = [thread EXCEPT ![t] = d("doze")] /\ dozer' = t /\ UNCHANGED recovering
    BY <1>5 DEF Enter, Goto
  <2> HIDE DEF d
  <2> QED
    BY <1>1, <1>3, <1>4, <2>1, Types, StepOf DEF world
<1>6. CASE ~recovering
  <2>1. thread' = [thread EXCEPT ![t] = d("close")] /\ recovering' = TRUE /\ UNCHANGED dozer
    BY <1>6 DEF Enter, Goto
  <2> HIDE DEF d
  <2> QED
    BY <1>1, <1>3, <1>4, <1>6, <2>1, Types, StepOf DEF world
<1> QED
  BY <1>5, <1>6

\* A recovery that returns, with or without the mark.
LEMMA BackStep ==
  ASSUME IInv, NEW t \in Threads, NEW o \in BOOLEAN, Back(t, o),
         thread[t].pc \in InCall, thread[t].kind \in {"query", "health"},
         UNCHANGED <<pool, poolLock, world>>, dozer' \in Threads \cup {Nobody},
         IF Mends(thread[t]) THEN recovering' = FALSE ELSE UNCHANGED recovering
  PROVE  IInv'
<1> DEFINE c == thread[t]
           d == [c EXCEPT !.pc = c.back, !.ok = o, !.back = "idle"]
<1>1. c \in Call /\ Fits(c) /\ c.acks <= faults
  BY TheCall
<1>2. d \in Call /\ Fits(d) /\ ~Mends(d) /\ d.acks = c.acks
  BY <1>1, BacksFit
<1>3. thread' = [thread EXCEPT ![t] = d]
  BY DEF Back
<1> HIDE DEF d
<1>4. /\ thread' \in [Threads -> Call] /\ thread'[t] = d
      /\ \A u \in Threads \ {t} : Same(thread[u], thread'[u])
  BY <1>2, <1>3, Put
<1>5. /\ pool' \in Pools /\ poolLock' \in Threads \cup {Nobody} /\ up' \in BOOLEAN
      /\ faults' \in 0..MaxFaults /\ faults' >= faults /\ d.acks <= faults'
  BY <1>1, <1>2, Types DEF world
<1>6. CASE Mends(c)
  <2>1. recovering' = FALSE
    BY <1>6
  <2> QED
    BY <1>2, <1>4, <1>5, <1>6, <2>1, StepOf
<1>7. CASE ~Mends(c)
  <2>1. recovering' = recovering /\ recovering' \in BOOLEAN
    BY <1>7, Types
  <2> QED
    BY <1>2, <1>4, <1>5, <1>7, <2>1, StepOf
<1> QED
  BY <1>6, <1>7

LEMMA DozeStep == ASSUME IInv, NEW t \in Threads, Doze(t) PROVE IInv'
<1>1. thread[t].pc = "doze" /\ ~Mends(thread[t]) /\ thread[t].pc \in InCall
  BY DEF Doze, At, Mends, InCall, InRecovery
<1>2. thread[t].kind \in {"query", "health"}
  BY <1>1, TheCall DEF Call, Kinds, Fits, KindFits
<1>3. /\ Back(t, Healthy) /\ Healthy \in BOOLEAN /\ dozer' = Nobody
      /\ UNCHANGED <<pool, poolLock, recovering, world>>
  BY DEF Doze, Healthy
<1> QED
  BY <1>1, <1>2, <1>3, BackStep

LEMMA UnmarkStep == ASSUME IInv, NEW t \in Threads, Unmark(t) PROVE IInv'
<1>1. thread[t].pc = "unmark" /\ thread[t].pc \in InCall /\ thread[t] \in Call
  BY TheCall DEF Unmark, At, InCall, InRecovery
<1>2. thread[t].kind \in {"query", "health"} /\ Mends(thread[t]) /\ thread[t].ok \in BOOLEAN
  BY <1>1, TheCall DEF Call, Kinds, Fits, KindFits, Mends, InRecovery
<1>3. /\ Back(t, thread[t].ok) /\ recovering' = FALSE
      /\ UNCHANGED <<pool, poolLock, dozer, world>>
  BY DEF Unmark
<1>4. dozer' \in Threads \cup {Nobody}
  BY <1>3, Types
<1> QED
  BY <1>1, <1>2, <1>3, <1>4, BackStep

LEMMA RecoverCloseStep == ASSUME IInv, NEW t \in Threads, RecoverClose(t) PROVE IInv'
<1> DEFINE c == thread[t]
           d == [c EXCEPT !.pc = "create", !.ok = FALSE]
<1>1. c.pc = "close" /\ c \in Call /\ Fits(c) /\ c.acks <= faults
  BY TheCall DEF RecoverClose, At
<1>2. c.kind \in {"query", "health"} /\ Mends(c)
  BY <1>1 DEF Call, Kinds, Fits, KindFits, Mends, InRecovery
<1>3. d \in Call
  BY <1>1 DEF Call, PC, InRecovery
<1>4. /\ d.pc = "create" /\ d.kind = c.kind /\ d.attempt = c.attempt /\ d.back = c.back
      /\ d.lost = c.lost /\ d.rows = c.rows /\ d.acks = c.acks
  BY <1>1 DEF Call
<1>5. /\ pool' = "none" /\ thread' = Closed([thread EXCEPT ![t] = d])
      /\ UNCHANGED <<poolLock, dozer, recovering, world>>
  <2>1. ("create" = "done") = FALSE
    OBVIOUS
  <2> QED
    BY <2>1 DEF RecoverClose, Close
<1> HIDE DEF d
<1>6. Fits(d) /\ Mends(d)
  <2>1. c.pc \in InCall /\ d.pc \in InCall
    BY <1>1, <1>4 DEF InCall, InRecovery
  <2> QED
    BY <1>1, <1>2, <1>3, <1>4, <2>1, WithinFits DEF Mends, InRecovery
<1>7. pool' \in Pools
  BY <1>5 DEF Pools
<1> QED
  BY <1>1, <1>2, <1>3, <1>4, <1>5, <1>6, <1>7, PutClosed, Types, StepOf DEF world

LEMMA DisconnectStep == ASSUME IInv, NEW t \in Threads, Disconnect(t) PROVE IInv'
<1> DEFINE c == thread[t]
           d == [c EXCEPT !.pc = "done", !.ok = TRUE]
<1>1. c.pc = "disconnect" /\ c \in Call /\ Fits(c) /\ c.acks <= faults
  BY TheCall DEF Disconnect, At
<1>2. c.kind \notin {"query", "health"} /\ ~Mends(c)
  BY <1>1 DEF Fits, KindFits, Mends, InRecovery
<1>3. d \in Call
  BY <1>1 DEF Call, PC
<1>4. /\ d.pc = "done" /\ d.kind = c.kind /\ d.attempt = c.attempt
      /\ d.rows = c.rows /\ d.acks = c.acks
  BY <1>1 DEF Call
<1>5. /\ pool' = "none" /\ thread' = Closed([thread EXCEPT ![t] = d])
      /\ UNCHANGED <<poolLock, dozer, recovering, world>>
  <2>1. ("done" = "done") = TRUE
    OBVIOUS
  <2> QED
    BY <2>1 DEF Disconnect, Close
<1> HIDE DEF d
<1>6. Fits(d) /\ ~Mends(d)
  BY <1>1, <1>2, <1>3, <1>4, ManagedFits DEF Mends, InRecovery
<1>7. pool' \in Pools
  BY <1>5 DEF Pools
<1> QED
  BY <1>1, <1>2, <1>3, <1>4, <1>5, <1>6, <1>7, PutClosed, Types, StepOf DEF world

\* Where a call goes from the new pool: the mark stands if and only if it stood.
LEMMA AfterFits ==
  ASSUME NEW t \in Threads, thread[t] \in Call, Fits(thread[t]),
         thread[t].pc \in {"create", "ready"}, NEW o \in BOOLEAN
  PROVE  LET d == [thread[t] EXCEPT !.pc = AfterCreate(t), !.ok = o]
         IN  d \in Call /\ Fits(d) /\ (Mends(d) <=> Mends(thread[t])) /\ d.acks = thread[t].acks
<1> DEFINE c == thread[t]
           p == AfterCreate(t)
           d == [c EXCEPT !.pc = p, !.ok = o]
<1>1. p = IF c.kind \in {"connect", "reconnect"} THEN "done" ELSE "unmark"
  BY DEF AfterCreate
<1>2. c.pc \in InCall /\ c.pc # "done" /\ c.kind # "disconnect" /\ c.kind \in Kinds
  BY DEF InCall, InRecovery, Fits, KindFits, Call
<1>3. p \in PC
  BY <1>1 DEF PC, InRecovery
<1> HIDE DEF p
<1>4. d \in Call
  BY <1>3 DEF Call
<1>5. /\ d.pc = p /\ d.kind = c.kind /\ d.attempt = c.attempt /\ d.back = c.back
      /\ d.lost = c.lost /\ d.rows = c.rows /\ d.acks = c.acks
  BY DEF Call
<1> HIDE DEF d
<1>6. CASE c.kind \in {"connect", "reconnect"}
  <2>1. Fits(d)
    BY <1>1, <1>2, <1>4, <1>5, <1>6, ManagedFits
  <2>2. ~Mends(d) /\ ~Mends(c)
    BY <1>1, <1>5, <1>6 DEF Mends
  <2> QED
    BY <1>4, <1>5, <2>1, <2>2 DEF d, p
<1>7. CASE c.kind \notin {"connect", "reconnect"}
  <2>1. c.kind \in {"query", "health"} /\ d.pc = "unmark" /\ d.pc \in InCall
    BY <1>1, <1>2, <1>5, <1>7 DEF Kinds, InCall, InRecovery
  <2>2. Fits(d)
    BY <1>2, <1>4, <1>5, <2>1, WithinFits
  <2>3. Mends(d) /\ Mends(c)
    BY <1>5, <1>7, <2>1 DEF Mends, InRecovery
  <2> QED
    BY <1>4, <1>5, <2>2, <2>3 DEF d, p
<1> QED
  BY <1>6, <1>7

LEMMA CreateStep == ASSUME IInv, NEW t \in Threads, Create(t) PROVE IInv'
<1> USE DbPoolAssumption
<1> DEFINE c == thread[t]
           d == [c EXCEPT !.pc = "ready"]
           e == [c EXCEPT !.pc = AfterCreate(t), !.ok = FALSE]
<1>1. c.pc = "create" /\ c \in Call /\ Fits(c) /\ c.acks <= faults
  BY TheCall DEF Create, At
<1>2. c.kind # "disconnect" /\ c.pc \in InCall
  BY <1>1 DEF Fits, KindFits, InCall, InRecovery
<1>3. UNCHANGED <<dozer, recovering>>
  BY DEF Create
<1>4. CASE /\ pool' = "open" /\ poolLock' = t /\ UNCHANGED world
           /\ thread' = Closed([thread EXCEPT ![t].pc = "ready"])
  <2>1. d \in Call
    BY <1>1 DEF Call, PC, InRecovery
  <2>2. /\ d.pc = "ready" /\ d.kind = c.kind /\ d.attempt = c.attempt /\ d.back = c.back
        /\ d.lost = c.lost /\ d.rows = c.rows /\ d.acks = c.acks
    BY <1>1 DEF Call
  <2>3. thread' = Closed([thread EXCEPT ![t] = d])
    BY <1>4
  <2> HIDE DEF d
  <2>4. Fits(d) /\ (Mends(d) <=> Mends(c))
    <3>1. d.pc \in InCall /\ d.pc \in {"create", "ready"} /\ c.pc # "reconnect"
      BY <1>1, <2>2 DEF InCall, InRecovery
    <3>2. Fits(d)
      BY <1>1, <1>2, <2>1, <2>2, <3>1, WithinFits
    <3> QED
      BY <1>1, <2>2, <3>2 DEF Mends, InRecovery
  <2>5. pool' \in Pools /\ poolLock' \in Threads \cup {Nobody}
    BY <1>4 DEF Pools
  <2> QED
    BY <1>1, <1>3, <1>4, <2>1, <2>2, <2>3, <2>4, <2>5, PutClosed, Types, StepOf DEF world
<1>5. CASE /\ Fault /\ pool' = IF pool = "none" THEN "none" ELSE "closed"
           /\ thread' = Closed([thread EXCEPT ![t].pc = AfterCreate(t), ![t].ok = FALSE])
           /\ UNCHANGED poolLock
  <2>1. e \in Call /\ Fits(e) /\ (Mends(e) <=> Mends(c)) /\ e.acks = c.acks
    BY <1>1, AfterFits
  <2>2. thread' = Closed([thread EXCEPT ![t] = e])
    BY <1>5
  <2>3. /\ pool' \in Pools /\ up' \in BOOLEAN
        /\ faults' \in 0..MaxFaults /\ faults' >= faults /\ c.acks <= faults'
    BY <1>1, <1>5, Types DEF Pools, Fault
  <2> HIDE DEF e
  <2> QED
    BY <1>3, <1>5, <2>1, <2>2, <2>3, PutClosed, Types, StepOf
<1> QED
  BY <1>4, <1>5 DEF Create

LEMMA ReadyStep == ASSUME IInv, NEW t \in Threads, Ready(t) PROVE IInv'
<1> DEFINE c == thread[t]
           d == [c EXCEPT !.pc = AfterCreate(t), !.ok = up]
<1>1. c.pc = "ready" /\ c \in Call /\ Fits(c) /\ c.acks <= faults /\ up \in BOOLEAN
  BY TheCall DEF Ready, At
<1>2. d \in Call /\ Fits(d) /\ (Mends(d) <=> Mends(c)) /\ d.acks = c.acks
  BY <1>1, AfterFits
<1>3. /\ poolLock' = Nobody /\ UNCHANGED <<dozer, recovering, world>>
      /\ pool' \in Pools
  BY Types DEF Ready, Pools
<1>4. \/ thread' = [thread EXCEPT ![t] = d]
      \/ thread' = Closed([thread EXCEPT ![t] = d])
  BY DEF Ready
<1> HIDE DEF d
<1>5. /\ thread' \in [Threads -> Call] /\ Fits(thread'[t]) /\ thread'[t].acks = c.acks
      /\ (Mends(thread'[t]) <=> Mends(c))
      /\ \A u \in Threads \ {t} : Same(thread[u], thread'[u])
  BY <1>2, <1>4, Put, PutClosed
<1> QED
  BY <1>1, <1>3, <1>5, Types, StepOf DEF world

LEMMA ReconnectStep == ASSUME IInv, NEW t \in Threads, Reconnect(t) PROVE IInv'
<1> DEFINE c == thread[t]
           d == [c EXCEPT !.pc = "create"]
           e == [c EXCEPT !.pc = "done", !.ok = TRUE, !.mine = "none"]
<1>1. c.pc = "reconnect" /\ c \in Call /\ Fits(c) /\ c.acks <= faults
  BY TheCall DEF Reconnect, At
<1>2. c.kind = "reconnect" /\ ~Mends(c)
  BY <1>1 DEF Call, Kinds, Fits, KindFits, Mends, InRecovery
<1>3. UNCHANGED <<pool, dozer, recovering, world>>
  BY DEF Reconnect
<1>4. CASE thread' = [thread EXCEPT ![t] = d] /\ poolLock' = t
  <2>1. d \in Call
    BY <1>1 DEF Call, PC, InRecovery
  <2>2. /\ d.pc = "create" /\ d.kind = c.kind /\ d.attempt = c.attempt /\ d.back = c.back
        /\ d.lost = c.lost /\ d.rows = c.rows /\ d.acks = c.acks
    BY <1>1 DEF Call
  <2> HIDE DEF d
  <2>3. Fits(d) /\ ~Mends(d)
    <3>1. d.pc \in InCall
      BY <2>2 DEF InCall, InRecovery
    <3> QED
      BY <1>1, <1>2, <2>1, <2>2, <3>1, WithinFits DEF Mends
  <2> QED
    BY <1>1, <1>2, <1>3, <1>4, <2>1, <2>2, <2>3, Put, Types, StepOf DEF world
<1>5. CASE thread' = [thread EXCEPT ![t] = e] /\ UNCHANGED poolLock
  <2>1. e \in Call
    BY <1>1 DEF Call, PC, Pools
  <2>2. /\ e.pc = "done" /\ e.kind = c.kind /\ e.attempt = c.attempt
        /\ e.rows = c.rows /\ e.acks = c.acks
    BY <1>1 DEF Call
  <2> HIDE DEF e
  <2>3. Fits(e) /\ ~Mends(e)
    BY <1>1, <1>2, <2>1, <2>2, ManagedFits DEF Mends, InRecovery
  <2> QED
    BY <1>1, <1>2, <1>3, <1>5, <2>1, <2>2, <2>3, Put, Types, StepOf DEF world
<1> QED
  BY <1>4, <1>5 DEF Reconnect, Goto, End

-----------------------------------------------------------------------------
(* The world around the pod, and the theorems.                             *)

LEMMA WorldStep == ASSUME IInv, Down \/ Up PROVE IInv'
<1> USE DbPoolAssumption
<1>1. UNCHANGED <<shared, thread>> /\ up' \in BOOLEAN /\ faults' \in 0..MaxFaults /\ faults' >= faults
  <2>1. faults \in 0..MaxFaults /\ faults >= faults
    BY Types
  <2>2. CASE Down
    <3>1. UNCHANGED <<shared, thread>> /\ up' = FALSE /\ faults < MaxFaults /\ faults' = faults + 1
      BY <2>2 DEF Down
    <3>2. faults' \in 0..MaxFaults /\ faults' >= faults
      BY <2>1, <3>1
    <3> QED
      BY <3>1, <3>2
  <2>3. CASE Up
    BY <2>1, <2>3 DEF Up
  <2> QED
    BY <2>2, <2>3
<1>2. TypeOK'
  BY <1>1 DEF IInv, TypeOK, shared
<1>3. OneRecovery'
  BY <1>1 DEF IInv, OneRecovery, AfterCreate, At, shared
<1>4. ASSUME NEW t \in Threads PROVE Fits(thread'[t]) /\ thread'[t].acks <= faults'
  BY <1>1, TheCall, Types DEF shared
<1> QED
  BY <1>2, <1>3, <1>4 DEF IInv

LEMMA IInvInit == Init => IInv
<1> USE DbPoolAssumption
<1> SUFFICES ASSUME Init PROVE IInv
  OBVIOUS
<1>1. Idle \in Call /\ Idle.acks = 0 /\ Idle.pc = "idle"
  BY DEF Idle, Call, PC, Kinds, Pools
<1>2. Fits(Idle)
  BY DEF Idle, Fits, KindFits, BackFits, RowsFit, InCall, InRecovery, BeforeCommit
<1>3. \A t \in Threads : thread[t] = Idle
  BY DEF Init
<1> HIDE DEF Idle
<1>4. TypeOK
  <2>1. thread \in [Threads -> Call]
    BY <1>1 DEF Init
  <2>2. faults \in 0..MaxFaults
    BY DEF Init
  <2> QED
    BY <2>1, <2>2 DEF Init, TypeOK, Pools
<1>5. OneRecovery
  BY <1>1, <1>3 DEF Init, OneRecovery, At, InRecovery
<1>6. \A t \in Threads : Fits(thread[t]) /\ thread[t].acks <= faults
  BY <1>1, <1>2, <1>3 DEF Init
<1> QED
  BY <1>4, <1>5, <1>6 DEF IInv

LEMMA IInvStep == IInv /\ [Next]_vars => IInv'
<1> SUFFICES ASSUME IInv, [Next]_vars PROVE IInv'
  OBVIOUS
<1>1. ASSUME NEW t \in Threads, Operation(t) PROVE IInv'
  BY <1>1, CheckStep, UnavailableStep, PickStep, AcquireStep, Acquire2Step, RecoveryFailedStep,
     BodyStep, RetryStep, RecheckStep DEF Operation
<1>2. ASSUME NEW t \in Threads, Recovery(t) PROVE IInv'
  BY <1>2, EnterStep, DozeStep, RecoverCloseStep, DisconnectStep, CreateStep, ReadyStep,
     UnmarkStep, ReconnectStep DEF Recovery
<1>3. CASE Down \/ Up
  BY <1>3, WorldStep
<1>4. CASE UNCHANGED vars
  BY <1>4 DEF vars, IInv, TypeOK, OneRecovery, At, AfterCreate
<1> QED
  BY <1>1, <1>2, <1>3, <1>4, ReturnStep, BeginStep DEF Next, GoesOn

\* Every reachable state has the invariant that the theorems follow from.
LEMMA IInvAlways == Spec => []IInv
<1> QED
  BY IInvInit, IInvStep, PTL DEF Spec

\* Type correctness: no call makes more attempts than _execute_with_retry
\* allows, or commits its statement more often than once per attempt.
THEOREM TypesAlways == Spec => []TypeOK
<1>1. IInv => TypeOK
  BY DEF IInv
<1> QED
  BY <1>1, IInvAlways, PTL

\* A call that answers has committed, and the retries of _execute_with_retry
\* commit again only where the answer to a commit was lost.
THEOREM RowsPerCallAlways == Spec => []RowsPerCall
<1>1. ASSUME IInv PROVE RowsPerCall
  <2>1. ASSUME NEW t \in Threads, thread[t].pc = "done", thread[t].kind = "query"
        PROVE  /\ thread[t].ok => thread[t].rows >= 1
               /\ thread[t].rows <= thread[t].acks + (IF thread[t].ok THEN 1 ELSE 0)
    <3>1. thread[t].rows \in Nat /\ thread[t].acks \in Nat
      BY <1>1, TheCall, DbPoolAssumption DEF Call
    <3> QED
      BY <1>1, <2>1, <3>1, TheCall DEF Fits, RowsFit
  <2> QED
    BY <2>1 DEF RowsPerCall, At, Query
<1> QED
  BY <1>1, IInvAlways, PTL

\* _try_recover_connection: one thread replaces the pool at a time, and
\* _recovering says exactly that.
THEOREM OneRecoveryAlways == Spec => []OneRecovery
<1>1. IInv => OneRecovery
  BY DEF IInv
<1> QED
  BY <1>1, IInvAlways, PTL
==============================================================================

----------------------------- MODULE ConfigCache -----------------------------
(***************************************************************************)
(* config/redis_config.py: one setting, kept in Redis and in the database, *)
(* and the value cache a pod keeps of it.  Reads go cache, Redis, DB       *)
(* (probe_value); writes go Redis, version sentinel, cache, DB.  Every     *)
(* query and every critical section of the cache's lock is a step.         *)
(*                                                                         *)
(* Pods meet in the stores only, so the cache of one pod is modelled       *)
(* ("here"); the writes of all others come from "elsewhere".               *)
(***************************************************************************)
EXTENDS Integers

CONSTANTS
  Threads,    \* calls that can be in progress at once, over all pods
  MaxSets,    \* bound on set_config calls
  MaxFaults   \* bound on outages, lost Redis contents and failed DB queries

ASSUME ConfigAssumption == MaxSets \in Nat /\ MaxFaults \in Nat

Places == {"here", "elsewhere"}
Missing == 0                 \* no such setting
Failed == -1                 \* the stores could not be asked
Values == 1..(MaxSets + 1)   \* 1 is the value at the start, k + 1 the k-th one set
NoVersion == 0               \* no version key in Redis, or none read yet
Empty == [value |-> Missing, version |-> NoVersion]   \* Redis without its contents

VARIABLES
  redis,    \* the setting's key, and the version sentinel
  db,       \* the row of persistent_configs
  reach,    \* the places that can reach Redis
  pod,      \* the RedisConfigManager here: connected (_connection_available), reconnected
            \* (recovery_epoch is ahead of the cache's), the remembered entry and the version
            \* the cache goes by, due (VERSION_RECHECK_S has passed), refreshing, and missed
            \* ("not in the DB either", remembered)
  thread,   \* the calls in progress
  sets,     \* set_config calls so far
  deleted,  \* delete_config was called
  existed,  \* the setting was there at the start
  faults,
  crossed   \* a restore or a write reached one store after another write reached it

stores == <<redis, db>>
history == <<sets, deleted, existed, faults, crossed>>
vars == <<redis, db, reach, pod, thread, sets, deleted, existed, faults, crossed>>

NoEntry == [value |-> Failed, tag |-> NoVersion]
Idle == [pc |-> "idle", on |-> "here", version |-> NoVersion, value |-> Failed, miss |-> FALSE]

Goto(t, label) == thread' = [thread EXCEPT ![t].pc = label]
Return(t) == thread' = [thread EXCEPT ![t] = Idle]
Enter(t, p, label, version, value) ==
  thread' = [thread EXCEPT ![t] = [pc |-> label, on |-> p, version |-> version,
                                   value |-> value, miss |-> FALSE]]
Got(t, label, value, miss) ==
  thread' = [thread EXCEPT ![t].pc = label, ![t].value = value, ![t].miss = miss]

Fault == faults < MaxFaults /\ faults' = faults + 1
NoFault == UNCHANGED faults

\* _ensure_connection, with the new state of the manager: connected, or not yet
\* (cooldown, no answer), or connected again, which the cache will notice.
Reachable == "here" \in reach
Ensured ==
  IF pod.connected THEN {pod}
  ELSE {pod} \cup (IF Reachable THEN {[pod EXCEPT !.connected = TRUE, !.reconnected = TRUE]}
                                ELSE {})
CanWrite(p) == p \in reach /\ (p = "here" => pod.connected)

-----------------------------------------------------------------------------
(* probe_value: the version to go by, the cache, then the stores.          *)

\* _known_version: a reconnection empties the cache; one thread asks for the
\* version when it is time, the others go by the last one.
ReadStart(t) ==
  LET now == IF pod.reconnected
             THEN [pod EXCEPT !.reconnected = FALSE, !.entry = NoEntry, !.due = TRUE]
             ELSE pod
      asks == now.due /\ ~now.refreshing
  IN  /\ thread[t].pc = "idle"
      /\ pod' = [now EXCEPT !.refreshing = @ \/ asks]
      /\ Enter(t, "here", IF asks THEN "version" ELSE "hit", now.version, Failed)
      /\ UNCHANGED <<stores, reach, history>>

\* probe_config_version: the GET ...
ReadVersion(t) ==
  /\ thread[t].pc = "version"
  /\ \E m \in Ensured :
       /\ pod' = m
       /\ IF m.connected /\ Reachable
          THEN thread' = [thread EXCEPT ![t].pc = "note", ![t].version = redis.version]
          ELSE Goto(t, "known")
  /\ UNCHANGED <<stores, reach, history>>

\* ... _note_version: another version, or none, and the cached value goes.
ReadNote(t) ==
  LET v == thread[t].version
  IN  /\ thread[t].pc = "note"
      /\ pod' = [pod EXCEPT !.entry = IF v = NoVersion \/ v # pod.version THEN NoEntry ELSE @,
                            !.version = v,
                            !.due = FALSE]
      /\ Goto(t, "known")
      /\ UNCHANGED <<stores, reach, history>>

ReadKnownWrong(t) ==   \* only a version that could be read ends the asking
  /\ thread[t].pc = "known"
  /\ pod' = [pod EXCEPT !.refreshing = pod.due, !.due = FALSE]
  /\ thread' = [thread EXCEPT ![t].pc = "hit", ![t].version = pod.version]
  /\ UNCHANGED <<stores, reach, history>>

ReadKnown(t) ==
  /\ thread[t].pc = "known"
  /\ pod' = [pod EXCEPT !.refreshing = FALSE, !.due = FALSE]
  /\ thread' = [thread EXCEPT ![t].pc = "hit", ![t].version = pod.version]
  /\ UNCHANGED <<stores, reach, history>>

\* A cached value of that version is the answer, one of another version goes.
ReadHit(t) ==
  LET v == thread[t].version
      cached == v # NoVersion /\ pod.entry # NoEntry
  IN  /\ thread[t].pc = "hit"
      /\ IF cached /\ pod.entry.tag = v
         THEN Return(t) /\ UNCHANGED pod
         ELSE /\ Goto(t, "redis")
              /\ pod' = IF cached THEN [pod EXCEPT !.entry = NoEntry] ELSE pod
      /\ UNCHANGED <<stores, reach, history>>

\* _probe_redis_value, and the memory of names that are not in the DB either.
ReadRedis(t) ==
  /\ thread[t].pc = "redis"
  /\ \E m \in Ensured :
       LET answers == m.connected /\ Reachable
           miss == answers /\ redis.value = Missing
       IN  /\ pod' = m
           /\ IF answers /\ ~miss
              THEN Got(t, "store", redis.value, FALSE)
              ELSE Got(t, IF m.missed THEN "store" ELSE "db",
                       IF miss THEN Missing ELSE Failed, miss)
  /\ UNCHANGED <<stores, reach, history>>

\* The row, if there is one; "missing" only if Redis said so too.
DbAnswers(t) ==
  /\ Got(t, IF db # Missing /\ thread[t].miss THEN "restore" ELSE "store",
         IF db = Missing /\ ~thread[t].miss THEN Failed ELSE db, thread[t].miss)
  /\ pod' = [pod EXCEPT !.missed = (db = Missing)]
  /\ NoFault

ReadDbWrong(t) ==   \* a database that does not answer has no such row
  /\ thread[t].pc = "db"
  /\ \/ DbAnswers(t)
     \/ /\ Fault
        /\ Got(t, "store", IF thread[t].miss THEN Missing ELSE Failed, FALSE)
        /\ pod' = [pod EXCEPT !.missed = TRUE]
  /\ UNCHANGED <<stores, reach, sets, deleted, existed, crossed>>

\* _probe_db_row
ReadDb(t) ==
  /\ thread[t].pc = "db"
  /\ \/ DbAnswers(t)
     \/ /\ Fault
        /\ Got(t, "store", Failed, FALSE)
        /\ pod' = [pod EXCEPT !.missed = FALSE]
  /\ UNCHANGED <<stores, reach, sets, deleted, existed, crossed>>

\* _restore_to_redis: a plain SET of the row that was read, no new version.
ReadRestore(t) ==
  LET value == thread[t].value
      deleting == \E u \in Threads : thread[u].pc \in {"deldb", "delincr"}
  IN  /\ thread[t].pc = "restore"
      /\ IF CanWrite("here")
         THEN /\ redis' = [redis EXCEPT !.value = value]
              /\ crossed' = (crossed \/ deleting \/ db # value
                                     \/ redis.value \notin {Missing, value})
         ELSE UNCHANGED <<redis, crossed>>
      /\ Goto(t, "store")
      /\ UNCHANGED <<db, reach, pod, sets, deleted, existed, faults>>

Store(t, tag, valid) ==
  /\ thread[t].pc = "store"
  /\ pod' = IF tag # NoVersion /\ thread[t].value # Failed /\ valid
            THEN [pod EXCEPT !.entry = [value |-> thread[t].value, tag |-> tag]]
            ELSE pod
  /\ Return(t)
  /\ UNCHANGED <<stores, reach, history>>

ReadStoreWrong(t) == Store(t, pod.version, TRUE)   \* under the version of now

\* Remembered under the version that was known before the stores were read.
ReadStore(t) == Store(t, thread[t].version, pod.version = thread[t].version)

-----------------------------------------------------------------------------
(* set_config                                                              *)

SetRedis(t, p) ==
  /\ thread[t].pc = "idle"
  /\ sets < MaxSets
  /\ sets' = sets + 1
  /\ \E m \in IF p = "here" THEN Ensured ELSE {pod} :
       LET written == p \in reach /\ (p = "here" => m.connected)
       IN  /\ pod' = IF p = "here" THEN [m EXCEPT !.connected = written] ELSE pod
           /\ redis' = IF written THEN [redis EXCEPT !.value = sets + 2] ELSE redis
           /\ Enter(t, p, IF written THEN "incr" ELSE "forget", NoVersion, sets + 2)
  /\ UNCHANGED <<db, reach, deleted, existed, faults, crossed>>

\* INCR of the sentinel; a failure is swallowed.
Incr(t, from, to) ==
  /\ thread[t].pc = from
  /\ redis' = IF thread[t].on \in reach THEN [redis EXCEPT !.version = @ + 1] ELSE redis
  /\ Goto(t, to)
  /\ UNCHANGED <<db, reach, pod, history>>

\* forget_cached_values
Forgotten(m) == [m EXCEPT !.entry = NoEntry, !.due = TRUE]

SetForget(t) ==
  /\ thread[t].pc = "forget"
  /\ pod' = IF thread[t].on = "here" THEN [Forgotten(pod) EXCEPT !.missed = FALSE] ELSE pod
  /\ Goto(t, "setdb")
  /\ UNCHANGED <<stores, reach, history>>

SetDb(t) ==
  /\ thread[t].pc = "setdb"
  /\ \/ db' = thread[t].value /\ NoFault
     \/ UNCHANGED db /\ Fault
  /\ crossed' = (crossed \/ redis.value # thread[t].value)
  /\ Return(t)
  /\ UNCHANGED <<redis, reach, pod, sets, deleted, existed>>

-----------------------------------------------------------------------------
(* delete_config: refused where neither store shows the setting.           *)

DeleteRead(t, p) ==
  /\ thread[t].pc = "idle"
  /\ ~deleted
  /\ (p \in reach /\ redis.value # Missing) \/ db # Missing
  /\ deleted' = TRUE
  /\ Enter(t, p, "delredis", NoVersion, Missing)
  /\ UNCHANGED <<stores, reach, pod, sets, existed, faults, crossed>>

DeleteRedis(t) ==
  /\ thread[t].pc = "delredis"
  /\ redis' = IF CanWrite(thread[t].on) THEN [redis EXCEPT !.value = Missing] ELSE redis
  /\ Goto(t, "deldb")
  /\ UNCHANGED <<db, reach, pod, history>>

DeleteDb(t) ==
  /\ thread[t].pc = "deldb"
  /\ \/ db' = Missing /\ NoFault
     \/ UNCHANGED db /\ Fault
  /\ crossed' = (crossed \/ redis.value # Missing)
  /\ Goto(t, "delincr")
  /\ UNCHANGED <<redis, reach, pod, sets, deleted, existed>>

DeleteForget(t) ==
  /\ thread[t].pc = "delforget"
  /\ pod' = IF thread[t].on = "here" THEN Forgotten(pod) ELSE pod
  /\ Return(t)
  /\ UNCHANGED <<stores, reach, history>>

-----------------------------------------------------------------------------
(* Redis goes away and comes back, or comes back empty.                    *)

Cut(p) ==
  /\ p \in reach
  /\ Fault
  /\ reach' = reach \ {p}
  /\ UNCHANGED <<stores, pod, thread, sets, deleted, existed, crossed>>

Heal(p) ==
  /\ p \notin reach
  /\ reach' = reach \cup {p}
  /\ UNCHANGED <<stores, pod, thread, history>>

Flush ==
  /\ redis # Empty
  /\ Fault
  /\ redis' = Empty
  /\ UNCHANGED <<db, reach, pod, thread, sets, deleted, existed, crossed>>

\* Time: the version is to be checked again, the value is too old, the memory
\* of a missing name has lapsed.
RecheckDue ==
  /\ ~pod.due
  /\ pod' = [pod EXCEPT !.due = TRUE]
  /\ UNCHANGED <<stores, reach, thread, history>>

EntryExpiresWrong == FALSE   \* a value of an unchanged version is good for ever

EntryExpires ==
  /\ pod.entry # NoEntry
  /\ pod' = [pod EXCEPT !.entry = NoEntry]
  /\ UNCHANGED <<stores, reach, thread, history>>

MissExpires ==
  /\ pod.missed
  /\ pod' = [pod EXCEPT !.missed = FALSE]
  /\ UNCHANGED <<stores, reach, thread, history>>

-----------------------------------------------------------------------------
Init ==
  /\ db \in {Missing, 1}
  /\ redis \in {[value |-> db, version |-> 1], Empty}
  /\ reach = Places
  /\ pod = [connected |-> TRUE, reconnected |-> FALSE, entry |-> NoEntry,
            version |-> NoVersion, due |-> TRUE, refreshing |-> FALSE, missed |-> FALSE]
  /\ thread = [t \in Threads |-> Idle]
  /\ sets = 0
  /\ deleted = FALSE
  /\ existed = (db # Missing)
  /\ faults = 0
  /\ crossed = FALSE

Read(t) ==
  \/ ReadVersion(t) \/ ReadNote(t) \/ ReadKnown(t) \/ ReadHit(t)
  \/ ReadRedis(t) \/ ReadDb(t) \/ ReadRestore(t) \/ ReadStore(t)
Set(t) == Incr(t, "incr", "forget") \/ SetForget(t) \/ SetDb(t)
Delete(t) ==
  DeleteRedis(t) \/ DeleteDb(t) \/ Incr(t, "delincr", "delforget") \/ DeleteForget(t)
Begins(t) == ReadStart(t) \/ \E p \in Places : SetRedis(t, p) \/ DeleteRead(t, p)
GoesOn(t) == Read(t) \/ Set(t) \/ Delete(t)

Next ==
  \/ \E t \in Threads : Begins(t) \/ GoesOn(t)
  \/ \E p \in Places : Cut(p) \/ Heal(p)
  \/ Flush \/ RecheckDue \/ EntryExpires \/ MissExpires

\* The cooldown over, a call that needs Redis connects again.
Reconnects(t) == ~pod.connected /\ (ReadVersion(t) \/ ReadRedis(t)) /\ pod'.connected

\* A call that has started goes on, an outage ends, time passes, and a pod that
\* asks again and again does not stay disconnected from a Redis that answers.
Fairness ==
  /\ \A t \in Threads : WF_vars(GoesOn(t))
  /\ \A p \in Places : WF_vars(Heal(p))
  /\ SF_vars(\E t \in Threads : Reconnects(t))
  /\ WF_vars(EntryExpires) /\ WF_vars(MissExpires)

Spec == Init /\ [][Next]_vars /\ Fairness

-----------------------------------------------------------------------------
\* "Could not be read" is never "not set": a setting that is there and that
\* nobody deletes is not reported or remembered as missing in any outage.
OutageIsNotUnset ==
  existed /\ ~deleted =>
    /\ \A t \in Threads : thread[t].pc = "store" => thread[t].value # Missing
    /\ pod.entry.value # Missing

Effective == IF redis.value # Missing THEN redis.value ELSE db
Writing == \E t \in Threads : thread[t].pc \in {"incr", "deldb", "delincr"}

\* A remembered value whose version is still the sentinel's is the value the
\* stores hold: a read that raced a write is remembered under the old version.
FreshEntryIsCurrent ==
  faults = 0 /\ ~crossed /\ ~Writing /\ pod.entry # NoEntry /\ pod.entry.tag = redis.version =>
    pod.entry.value = Effective

\* One thread asks for the version at a time, and the mark never sticks: with
\* it set and nobody asking, the pod would go by the last version for ever.
OneThreadAsks ==
  LET asking == {t \in Threads : thread[t].pc \in {"version", "note", "known"}}
  IN  /\ \A t, u \in asking : t = u
      /\ pod.refreshing <=> asking # {}

\* Whatever fails on the way, in the end the pod does not go by a value that
\* Redis does not hold: the age cap bounds what a lost INCR or sentinel hides.
PodConverges == <>[](pod.entry = NoEntry \/ pod.entry.value = Effective)
=============================================================================

---------------------------- MODULE ComposerSync ----------------------------
(***************************************************************************)
(* config/base_config.py and config_composer.py: the settings one pod      *)
(* holds in memory, against Redis, the database and the writes of other    *)
(* pods.  A pod believes what it holds while the version it last saw is    *)
(* the sentinel's.  Inside the pod calls run one after the other (they     *)
(* never await); between any two of their queries other pods go on.        *)
(* ConfigCache has the ladder of probe_value and its cache query by query: *)
(* here a read of it is one step.  A value is the number of the write it   *)
(* comes from, 0 the registered default.                                   *)
(***************************************************************************)
EXTENDS Naturals, TLC

CONSTANTS
  Keys,      \* settings
  MaxWrites, \* bound on settings written by administrators
  MaxFaults, \* bound on outages and lost keys
  None

ASSUME ComposerAssumption == MaxWrites \in Nat /\ MaxFaults \in Nat /\ None \notin Nat

VARIABLES
  redis, db,   \* the value of each setting, None without a key or a row
  version,     \* config:_meta:version, 0 without the key
  up,          \* the stores that answer
  pod,         \* the composer, its PersistentConfigs and its manager
  call,        \* what the pod is doing
  remote,      \* a set_config in another pod
  writes, faults,
  settled,     \* history: the newest write of each setting that both stores and the sentinel have
  basis,       \* history: the version each held value was read at, 0 without Redis
  over,        \* history: a sentinel was set past the version a held value was read at
  crossed,     \* history: a write reached a store after a newer one
  blind        \* history: ensure_redis_sync wrote a value that was unread or not the newest

stores == <<redis, db, version, up>>
history == <<settled, basis, over, crossed, blind>>
vars == <<stores, pod, call, remote, writes, faults, history>>

Idle == [kind |-> "none", pc |-> "idle"]
All(x) == [k \in Keys |-> x]

NewPod == [held |-> All(0), loaded |-> All(FALSE), seen |-> All(0), known |-> 0,
           memo |-> None, conn |-> "redis" \in up,
           epoch |-> 0, lastEpoch |-> 0, lastWrite |-> 0]

\* _ensure_connection: a manager that gave up connects again after a cooldown, and
\* then counts a recovery.
Ensured(p) ==
  {p} \cup (IF ~p.conn /\ "redis" \in up
            THEN {[p EXCEPT !.conn = TRUE, !.epoch = @ + 1]} ELSE {})

Answers(p) == p.conn /\ "redis" \in up

\* get_config_version: 0 for an outage as well.
Version(p) == IF Answers(p) THEN version ELSE 0

\* _read_version_cached: what was read within 50 ms, or the sentinel.
ReadVersion(p) ==
  (IF p.memo = None THEN {} ELSE {<<p, p.memo>>})
    \cup {<<[q EXCEPT !.memo = Version(q)], Version(q)>> : q \in Ensured(p)}

\* after _invalidate_version_cache
FreshVersion(p) == ReadVersion([p EXCEPT !.memo = None])

-----------------------------------------------------------------------------
\* A call works on one setting at a time (k): its task is to load it, to refresh it,
\* to give its value, or to write it.
Begin(kind, pc, task, k) ==
  /\ call = Idle
  /\ call' = [kind |-> kind, pc |-> pc, task |-> task, k |-> k, v |-> 0, at |-> 0, n |-> 0,
              told |-> FALSE, asked |-> k, todo |-> Keys \ {k},
              floor |-> IF kind = "check" THEN settled[k] ELSE 0]

\* The next setting of a loop over all_configs, or what comes after the loop.
NextKey(c, pc, end) ==
  LET d == [c EXCEPT !.v = 0, !.at = 0, !.n = 0, !.told = FALSE]
  IN IF c.todo = {} THEN {[d EXCEPT !.pc = end]}
     ELSE {[d EXCEPT !.pc = pc, !.k = j, !.todo = @ \ {j},
                     !.asked = IF c.kind = "check" THEN @ ELSE j] : j \in c.todo}

\* PersistentConfig.value: a setting that was never read is read again, the others
\* when the sentinel has moved.
ValuePc(p, k) == IF p.loaded[k] THEN "version" ELSE "probe"
AskValue(c) == [c EXCEPT !.task = "value", !.pc = ValuePc(pod, c.k)]
AskAsked == AskValue([call EXCEPT !.k = call.asked, !.todo = {}])

\* What the value was wanted for.
ValueDone(c) ==
  CASE c.kind \in {"update", "sync"} ->
         [c EXCEPT !.task = "write", !.pc = "set", !.v = 0, !.at = 0, !.told = FALSE,
                   !.n = IF c.kind = "sync" THEN @ ELSE 0]
    [] c.kind = "check" ->
         [c EXCEPT !.pc = "answer", !.v = 0, !.at = 0, !.told = FALSE, !.n = 0]
    [] OTHER -> Idle

\* value, and update_config, which begins with it
Value(k) ==
  /\ Begin("value", ValuePc(pod, k), "value", k)
  /\ UNCHANGED <<stores, pod, remote, writes, faults, history>>

Update(k) ==
  /\ writes < MaxWrites
  /\ Begin("update", ValuePc(pod, k), "value", k)
  /\ UNCHANGED <<stores, pod, remote, writes, faults, history>>

ValueVersion ==
  /\ call.pc = "version"
  /\ \E r \in ReadVersion(pod) :
       /\ pod' = r[1]
       /\ call' = IF r[2] = pod.seen[call.k] THEN ValueDone(call)
                  ELSE [call EXCEPT !.pc = "probe"]
  /\ UNCHANGED <<stores, remote, writes, faults, history>>

-----------------------------------------------------------------------------
Ok(v, source) == [status |-> "ok", v |-> v, source |-> source]
Nothing(status) == [status |-> status, v |-> 0, source |-> ""]

LadderWrong(p, k) ==   \* a store that does not answer has no such setting
  CASE Answers(p) /\ redis[k] # None -> Ok(redis[k], "redis")
    [] ~(Answers(p) /\ redis[k] # None) /\ "db" \in up /\ db[k] # None -> Ok(db[k], "db")
    [] OTHER -> Nothing("missing")

\* Redis, then the database; "error" where one of them could not say "missing".
Ladder(p, k) ==
  CASE Answers(p) /\ redis[k] # None -> Ok(redis[k], "redis")
    [] ~(Answers(p) /\ redis[k] # None) /\ "db" \in up /\ db[k] # None -> Ok(db[k], "db")
    [] Answers(p) /\ redis[k] = None /\ "db" \in up /\ db[k] = None -> Nothing("missing")
    [] OTHER -> Nothing("error")

\* probe_value, and the version it read at.
Probes(p, k) ==
  {[pod |-> q, got |-> Ladder(q, k), at |-> Version(q)] : q \in Ensured(p)}

\* What an unreadable store leads to: a first load begins with the default, a refresh
\* keeps what it has; the next access tries again.
Unread(p, c) ==
  [p EXCEPT !.loaded[c.k] = FALSE, !.held[c.k] = IF c.task = "boot" THEN 0 ELSE @]

\* Settings written to the end, by this pod or another.
Finished == IF remote = Idle THEN writes ELSE writes - 1

\* _resolve: what Redis has is copied to the database, what only the database has to
\* Redis, and the default is written where neither has anything.
Resolve ==
  /\ call.pc = "probe"
  /\ \E r \in Probes(pod, call.k) :
       LET c == [call EXCEPT !.v = r.got.v, !.at = r.at, !.n = Finished]
       IN /\ redis' = IF r.got.source = "db" /\ Answers(r.pod) /\ redis[call.k] = None
                      THEN [redis EXCEPT ![call.k] = r.got.v] ELSE redis
          /\ \/ /\ r.got.status = "ok"
                /\ pod' = r.pod
                /\ call' = [c EXCEPT !.pc = IF r.got.source = "redis" THEN "through" ELSE "seen"]
             \/ /\ r.got.status = "missing"
                /\ pod' = r.pod
                /\ call' = [c EXCEPT !.pc = "set"]
             \/ /\ r.got.status = "error"
                /\ pod' = Unread(r.pod, c)
                /\ \/ c.task = "boot" /\ call' = [c EXCEPT !.pc = "unread"]
                   \/ c.task = "refresh" /\ call' \in NextKey(c, "probe", "final")
                   \/ c.task = "value" /\ call' = ValueDone(c)
  /\ UNCHANGED <<db, version, up, remote, writes, faults, history>>

Older(v, w) == v # None /\ w # None /\ v < w

\* The copy to the database.
Through ==
  /\ call.pc = "through"
  /\ db' = IF "db" \in up THEN [db EXCEPT ![call.k] = call.v] ELSE db
  /\ crossed' = (crossed \/ ("db" \in up /\ Older(call.v, db[call.k])))
  /\ call' = [call EXCEPT !.pc = "seen"]
  /\ UNCHANGED <<redis, version, up, pod, remote, writes, faults, settled, basis, over, blind>>

\* _load_value and _reload keep the value; then the version it counts for is read,
\* anew after an access.
Keep(p, c) == [p EXCEPT !.held[c.k] = c.v, !.loaded[c.k] = TRUE]

Seen ==
  /\ call.pc \in {"seen", "unread"}
  /\ LET q == IF call.pc = "seen" THEN Keep(pod, call) ELSE pod
     IN \E r \in IF call.task = "value" THEN FreshVersion(q) ELSE ReadVersion(q) :
          pod' = [r[1] EXCEPT !.seen[call.k] = r[2]]
  /\ basis' = [basis EXCEPT ![call.k] = IF call.pc = "seen" THEN call.at ELSE @]
  /\ \/ call.task = "boot" /\ call.todo = {} /\ call' = Idle
     \/ /\ call.task = "refresh" \/ (call.task = "boot" /\ call.todo # {})
        /\ call' \in NextKey(call, "probe", "final")
     \/ call.task = "value" /\ call' = ValueDone(call)
  /\ UNCHANGED <<stores, remote, writes, faults, settled, over, crossed, blind>>

-----------------------------------------------------------------------------
\* set_config: Redis, the sentinel, the database; of the default, of a new value
\* (update), or of the value held (sync).
Writing(c) ==
  CASE c.task = "write" /\ c.kind = "update" -> writes + 1
    [] c.task = "write" /\ c.kind = "sync" -> pod.held[c.k]
    [] OTHER -> 0

\* A write of another pod since this one found nothing to keep.
Crossed ==
  ~(call.kind = "update" /\ call.task = "write") /\ (writes > call.n \/ remote # Idle)

Set ==
  /\ call.pc = "set"
  /\ LET v == Writing(call)
         \* a value one writes counts as read at the version it is written over
         read == [call EXCEPT !.v = v,
                              !.at = IF call.task = "write" THEN version ELSE @]
     IN /\ \E q \in Ensured(pod) :
             IF Answers(q)
             THEN /\ pod' = q
                  /\ redis' = [redis EXCEPT ![call.k] = v]
                  /\ call' = [read EXCEPT !.pc = "incr"]
             ELSE /\ pod' = [q EXCEPT !.conn = FALSE]
                  /\ call' = [read EXCEPT !.pc = "setdb"]
                  /\ UNCHANGED redis
        /\ writes' = IF v > writes THEN v ELSE writes
  /\ crossed' = (crossed \/ Crossed)
  /\ blind' = (blind \/ (/\ call.kind = "sync" /\ call.task = "write"
                         /\ \/ ~pod.loaded[call.k]
                            \/ Older(call.v', redis[call.k]) \/ Older(call.v', db[call.k])))
  /\ UNCHANGED <<db, version, up, remote, faults, settled, basis, over>>

\* What was good for the version before is good for the version after one's own write.
Moved == [k \in Keys |-> IF basis[k] = version THEN version + 1 ELSE basis[k]]

Incr ==
  /\ call.pc = "incr"
  /\ IF Answers(pod)
     THEN /\ version' = version + 1
          /\ pod' = [pod EXCEPT !.lastWrite = version + 1]
          /\ basis' = Moved
          /\ call' = [call EXCEPT !.pc = "setdb", !.told = TRUE,
                                  !.at = IF @ = version THEN @ + 1 ELSE @]
     ELSE /\ call' = [call EXCEPT !.pc = "setdb"]
          /\ UNCHANGED <<version, pod, basis>>
  /\ UNCHANGED <<redis, db, up, remote, writes, faults, settled, over, crossed, blind>>

\* The write c has reached everything.
Settle(c) ==
  settled' = IF c.told /\ "db" \in up /\ c.v > settled[c.k]
             THEN [settled EXCEPT ![c.k] = c.v] ELSE settled

SetDb ==
  /\ call.pc = "setdb"
  /\ db' = IF "db" \in up THEN [db EXCEPT ![call.k] = call.v] ELSE db
  /\ crossed' = (crossed \/ Crossed \/ ("db" \in up /\ Older(call.v, db[call.k]) /\ call.task = "write"))
  /\ \/ call.task # "write" /\ call' = [call EXCEPT !.pc = "seen"]
     \/ call.task = "write" /\ call.kind = "sync" /\ call' \in NextKey(call, "exists", "final")
     \/ call.task = "write" /\ call.kind = "update" /\ call' = [call EXCEPT !.pc = "align"]
  /\ Settle(call)
  /\ UNCHANGED <<redis, version, up, pod, remote, writes, faults, basis, over, blind>>

OwnVersionWrong(p) == {[p EXCEPT !.known = r[2]] : r \in FreshVersion(p)}   \* others' writes too
\* The version of one's own write, so that another pod's write after it still shows.
OwnVersion(p) ==
  IF p.lastWrite > 0 THEN {[p EXCEPT !.known = p.lastWrite, !.memo = None]}
  ELSE {[r[1] EXCEPT !.known = r[2]] : r \in FreshVersion(p)}

Aligned(p) == [p EXCEPT !.seen = All(p.known)]

\* The end of update_config.
Align ==
  /\ call.pc = "align"
  /\ \E p \in OwnVersion(pod) : pod' = Aligned([p EXCEPT !.held[call.k] = call.v])
  /\ basis' = [basis EXCEPT ![call.k] = call.at]
  /\ over' = (over \/ \E k \in Keys : pod.loaded[k] /\ pod.lastWrite > basis'[k])
  /\ call' = Idle
  /\ UNCHANGED <<stores, remote, writes, faults, settled, crossed, blind>>

-----------------------------------------------------------------------------
\* probe_config_value with verify_freshness: refresh_all_if_stale_status first.
Check(k) ==
  /\ Begin("check", "status", "value", k)
  /\ UNCHANGED <<stores, pod, remote, writes, faults, history>>

\* refresh_all
Refreshing(c) ==
  {[c EXCEPT !.task = "refresh", !.pc = "probe", !.k = k, !.todo = Keys \ {k}] : k \in Keys}

Drifted(p) == version # p.known

Status ==
  /\ call.pc = "status"
  /\ \/ /\ pod.epoch # pod.lastEpoch
        /\ pod' = [pod EXCEPT !.lastEpoch = pod.epoch, !.memo = None]
        /\ call' \in Refreshing(call)
     \/ /\ pod.epoch = pod.lastEpoch
        /\ \E q \in Ensured(pod) :
             \/ ~Answers(q) /\ pod' = q /\ call' = Idle     \* "error"
             \/ /\ Answers(q) /\ Drifted(q)
                /\ pod' = [q EXCEPT !.memo = None]
                /\ call' \in Refreshing(call)
             \/ /\ Answers(q) /\ ~Drifted(q)
                /\ pod' = q
                /\ call' = AskAsked
  /\ UNCHANGED <<stores, remote, writes, faults, history>>

\* The end of refresh_all and of ensure_redis_sync: every sentinel is set to the
\* version that is there now.
Final ==
  /\ call.pc = "final"
  /\ \E r \in FreshVersion(pod) :
       /\ pod' = Aligned([r[1] EXCEPT !.known = r[2]])
       /\ over' = (over \/ \E k \in Keys : pod.loaded[k] /\ r[2] > basis[k])
  /\ call' = IF call.kind = "check" THEN AskAsked ELSE Idle
  /\ UNCHANGED <<stores, remote, writes, faults, settled, basis, crossed, blind>>

Answer ==
  /\ call.pc = "answer"
  /\ call' = Idle
  /\ UNCHANGED <<stores, pod, remote, writes, faults, history>>

\* ensure_redis_sync: unless Redis is away, what is not in it is written again.
Sync ==
  /\ \E k \in Keys : Begin("sync", "health", "write", k)
  /\ UNCHANGED <<stores, pod, remote, writes, faults, history>>

Health ==
  /\ call.pc = "health"
  /\ \E q \in Ensured(pod) :
       IF Answers(q) THEN pod' = q /\ call' = [call EXCEPT !.pc = "exists"]
       ELSE pod' = [q EXCEPT !.conn = FALSE] /\ call' = Idle
  /\ UNCHANGED <<stores, remote, writes, faults, history>>

\* exists says no for an error as well.
Exists ==
  /\ call.pc = "exists"
  /\ call' \in IF Answers(pod) /\ redis[call.k] # None
               THEN NextKey(call, "exists", "final")
               ELSE {AskValue([call EXCEPT !.n = Finished])}
  /\ UNCHANGED <<stores, pod, remote, writes, faults, history>>

-----------------------------------------------------------------------------
\* set_config in another pod.
RemoteSet(k) ==
  /\ remote = Idle
  /\ writes < MaxWrites
  /\ writes' = writes + 1
  /\ redis' = IF "redis" \in up THEN [redis EXCEPT ![k] = writes'] ELSE redis
  /\ remote' = [kind |-> "set", pc |-> IF "redis" \in up THEN "incr" ELSE "db",
                k |-> k, v |-> writes', told |-> FALSE]
  /\ UNCHANGED <<db, version, up, pod, call, faults, history>>

RemoteIncr ==
  /\ remote.pc = "incr"
  /\ remote' = [remote EXCEPT !.pc = "db", !.told = "redis" \in up]
  /\ version' = IF "redis" \in up THEN version + 1 ELSE version
  /\ UNCHANGED <<redis, db, up, pod, call, writes, faults, history>>

RemoteDb ==
  /\ remote.pc = "db"
  /\ remote' = Idle
  /\ db' = IF "db" \in up THEN [db EXCEPT ![remote.k] = remote.v] ELSE db
  /\ crossed' = (crossed \/ ("db" \in up /\ Older(remote.v, db[remote.k])))
  /\ Settle(remote)
  /\ UNCHANGED <<redis, version, up, pod, call, writes, faults, basis, over, blind>>

\* A store goes away and comes back; Redis loses a key.
Outage(s) ==
  /\ s \in up /\ faults < MaxFaults
  /\ up' = up \ {s}
  /\ faults' = faults + 1
  /\ UNCHANGED <<redis, db, version, pod, call, remote, writes, history>>

Heal(s) ==
  /\ s \notin up
  /\ up' = up \cup {s}
  /\ UNCHANGED <<redis, db, version, pod, call, remote, writes, faults, history>>

Lose(k) ==
  /\ redis[k] # None /\ faults < MaxFaults
  /\ redis' = [redis EXCEPT ![k] = None]
  /\ faults' = faults + 1
  /\ crossed' = (crossed \/ Older(db[k], redis[k]))
  /\ UNCHANGED <<db, version, up, pod, call, remote, writes, settled, basis, over, blind>>

\* The pod starts again, and loads every setting.
Boots ==
  {[kind |-> "boot", pc |-> "probe", task |-> "boot", k |-> k, v |-> 0, at |-> 0, n |-> 0,
    told |-> FALSE, asked |-> k, todo |-> Keys \ {k}, floor |-> 0] : k \in Keys}

Restart ==
  /\ faults < MaxFaults
  /\ faults' = faults + 1
  /\ pod' = NewPod
  /\ call' \in Boots
  /\ basis' = All(0)
  /\ UNCHANGED <<stores, remote, writes, settled, over, crossed, blind>>

-----------------------------------------------------------------------------
Init ==
  /\ \/ /\ redis = All(None) /\ db = All(None) /\ version = 0   \* nothing was ever set
        /\ writes = 0
     \/ /\ redis = All(0) /\ db = All(0) /\ version = 1         \* defaults were
        /\ writes = 0
     \/ /\ redis = All(None) /\ db = All(1) /\ version = 0      \* Redis starts empty
        /\ writes = 1
  /\ up \in {{"redis", "db"}, {"redis"}}
  /\ faults = IF up = {"redis", "db"} THEN 0 ELSE 1
  /\ pod = NewPod
  /\ call \in Boots
  /\ remote = Idle
  /\ settled = All(0)
  /\ basis = All(0)
  /\ over = FALSE /\ crossed = FALSE /\ blind = FALSE

Next ==
  \/ \E k \in Keys : Value(k) \/ Update(k) \/ Check(k) \/ RemoteSet(k) \/ Lose(k)
  \/ ValueVersion \/ Resolve \/ Through \/ Seen \/ Set \/ Incr \/ SetDb \/ Align
  \/ Status \/ Final \/ Answer \/ Sync \/ Health \/ Exists
  \/ RemoteIncr \/ RemoteDb
  \/ \E s \in {"redis", "db"} : Outage(s) \/ Heal(s)
  \/ Restart

Spec == Init /\ [][Next]_vars

Symmetry == Permutations(Keys)

\* What follows a crossing, or an alignment past what was read: TLC goes no further.
Uncrossed == ~crossed /\ ~blind /\ ~over

-----------------------------------------------------------------------------
Verified == call.pc = "answer" /\ pod.loaded[call.asked] /\ faults = 0 /\ ~crossed /\ ~blind

\* probe_config_value: with no outage, an answer whose freshness was verified is not
\* older than a write that had reached everything before the question, as long as no
\* sentinel was set past what the pod had read.  update_config does set one so, when it
\* follows a write of another pod that this pod has not read.
AnswerIsCurrent == Verified /\ ~over => pod.held[call.asked] >= call.floor

Trampled == \E k \in Keys :
  \/ redis[k] # None /\ redis[k] > 0 /\ redis'[k] = 0
  \/ db[k] # None /\ db[k] > 0 /\ db'[k] = 0

\* What an administrator has set is never replaced by a default because a store did
\* not answer.  Two exceptions have their own history: writes that cross, and
\* ensure_redis_sync.
DefaultReplacesNothing == [][~crossed' /\ ~blind' => ~Trampled]_vars
=============================================================================

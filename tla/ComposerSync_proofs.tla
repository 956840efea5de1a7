------------------------ MODULE ComposerSync_proofs ------------------------
(***************************************************************************)
(* Proofs about ComposerSync for any settings, any number of writes and    *)
(* any number of faults.                                                   *)
(***************************************************************************)
EXTENDS ComposerSync, TLAPS

Pods == [held : [Keys -> Nat], loaded : [Keys -> BOOLEAN], seen : [Keys -> Nat], known : Nat,
         memo : Nat \cup {None}, conn : BOOLEAN, epoch : Nat, lastEpoch : Nat, lastWrite : Nat]

ReadPc == {"probe", "through", "seen"}
WritePc == {"set", "incr", "setdb"}
\* What a call can be doing, of each kind.
Shape(c) ==
  /\ c.task = "boot" <=> c.kind = "boot"
  /\ c.task = "refresh" => c.kind = "check"
  /\ c.task = "write" => c.kind \in {"update", "sync"}
  /\ c.pc \in ReadPc => c.task # "write"
  /\ c.pc = "unread" => c.task = "boot"
  /\ c.pc = "version" => c.task = "value"
  /\ c.pc \in {"status", "answer"} => c.kind = "check" /\ c.task = "value"
  /\ c.pc = "final" => \/ c.kind = "check" /\ c.task = "refresh"
                       \/ c.kind = "sync" /\ c.task = "write"
  /\ c.pc = "align" => c.kind = "update" /\ c.task = "write"
  /\ c.pc \in {"health", "exists"} => c.kind = "sync" /\ c.task = "write"

CallPcs == ReadPc \cup WritePc \cup
             {"unread", "version", "status", "answer", "final", "align", "health", "exists"}
Calls == [kind : {"value", "update", "check", "sync", "boot"},
          task : {"boot", "value", "refresh", "write"},
          pc : CallPcs,
          k : Keys, v : Nat, at : Nat, n : Nat, told : BOOLEAN, asked : Keys,
          todo : SUBSET Keys, floor : Nat]
Remotes == [kind : {"set"}, pc : {"incr", "db"}, k : Keys, v : Nat \ {0}, told : BOOLEAN]

TypeOK ==
  /\ redis \in [Keys -> Nat \cup {None}] /\ db \in [Keys -> Nat \cup {None}]
  /\ version \in Nat /\ up \subseteq {"redis", "db"}
  /\ pod \in Pods
  /\ call \in Calls \cup {Idle}
  /\ call # Idle => Shape(call)
  /\ remote \in Remotes \cup {Idle}
  /\ remote # Idle => remote.v <= writes
  /\ writes \in Nat /\ faults \in Nat
  /\ settled \in [Keys -> Nat] /\ basis \in [Keys -> Nat]
  /\ over \in BOOLEAN /\ crossed \in BOOLEAN /\ blind \in BOOLEAN

\* A default is about to be written where nothing has been since it was looked up.
Unset ==
  call.pc \in WritePc /\ call.task # "write" =>
    /\ call.v = 0 /\ call.n <= writes
    /\ writes <= call.n => /\ remote = Idle /\ db[call.k] = None
                           /\ call.pc = "set" => redis[call.k] = None

Calm == faults = 0 /\ ~crossed /\ ~blind /\ ~over

Connected == /\ up = {"redis", "db"} /\ pod.conn /\ pod.epoch = pod.lastEpoch

\* Redis has v for k, or something newer.
Has(k, v) == v = 0 \/ (redis[k] # None /\ redis[k] >= v)
InRedis ==
  /\ \A k \in Keys : Has(k, settled[k])
  /\ remote # Idle => Has(remote.k, remote.v)
  /\ call.pc \in {"incr", "setdb"} => Has(call.k, call.v)

Numbered ==
  /\ \A k \in Keys : settled[k] <= writes
  /\ call.pc \in {"incr", "setdb", "align"} => call.v <= writes
  /\ call.pc \in {"setdb", "align"} => pod.lastWrite > 0

\* The sentinel has told of a write of k that is newer than v.
Newer(k, v) ==
  \/ settled[k] > v
  \/ remote # Idle /\ remote.told /\ remote.k = k /\ remote.v > v

\* The call has a value for call.k, read or its own.
Holding == call.pc \in {"through", "seen", "incr", "setdb", "align"}
             \/ (call.pc = "set" /\ call.task # "write")
OwnWrite(k) == call.pc \in {"setdb", "align"} /\ call.kind = "update" /\ call.task = "write" /\ call.k = k

Based ==
  /\ pod.known <= version /\ pod.lastWrite <= version
  /\ \A k \in Keys : basis[k] <= version
  /\ \A k \in Keys : pod.loaded[k] =>
       /\ pod.known <= basis[k]
       /\ Newer(k, pod.held[k]) => basis[k] < version \/ OwnWrite(k)
  /\ Holding =>
       /\ pod.known <= call.at /\ call.at <= version
       /\ Newer(call.k, call.v) => call.at < version

SyncHolds ==
  call.kind = "sync" /\ call.task = "write" /\ call.pc \in {"incr", "setdb"} => call.v = pod.held[call.k]

Answered == pod.loaded[call.asked] => pod.held[call.asked] >= call.floor

Checked ==
  call.kind = "check" =>
    /\ call.floor <= settled[call.asked]
    /\ call.task = "value" => call.k = call.asked
    /\ call.pc \in {"version", "answer", "final"} => Answered
    /\ call.task = "refresh" /\ call.asked \notin call.todo /\ call.k # call.asked => Answered
    /\ Holding /\ call.k = call.asked => call.v >= call.floor

CalmInv == Connected /\ InRedis /\ Numbered /\ Based /\ SyncHolds /\ Checked
Current == Calm => CalmInv

IInv == TypeOK /\ Unset /\ Current

-----------------------------------------------------------------------------
\* A call that waits for nothing has no setting.
LEMMA IdleIsNoCall == Idle \notin Calls /\ Idle \notin Remotes /\ Idle.pc = "idle"
BY DEF Idle, Calls, Remotes

\* _ensure_connection: it may find Redis again, which counts as a recovery.
LEMMA EnsuredFields ==
  ASSUME NEW p \in Pods, NEW q \in Ensured(p)
  PROVE  /\ q \in Pods
         /\ q.held = p.held /\ q.loaded = p.loaded /\ q.known = p.known
         /\ q.lastEpoch = p.lastEpoch /\ q.lastWrite = p.lastWrite
         /\ p.conn => q = p
<1>1. CASE q = p
  BY <1>1
<1>2. CASE ~p.conn /\ q = [p EXCEPT !.conn = TRUE, !.epoch = @ + 1]
  <2>1. p.epoch + 1 \in Nat
    BY DEF Pods
  <2> QED
    BY <1>2, <2>1 DEF Pods
<1> QED
  BY <1>1, <1>2 DEF Ensured

\* get_config_version: a version, or 0.
LEMMA VersionIsNat == ASSUME TypeOK, NEW p PROVE Version(p) \in Nat
BY DEF Version, TypeOK

\* _read_version_cached: no value and no other version is touched.
LEMMA ReadVersionFields ==
  ASSUME TypeOK, NEW p \in Pods, NEW r \in ReadVersion(p)
  PROVE  /\ r[1] \in Pods /\ r[2] \in Nat
         /\ r[1].held = p.held /\ r[1].loaded = p.loaded /\ r[1].known = p.known
         /\ r[1].lastEpoch = p.lastEpoch /\ r[1].lastWrite = p.lastWrite
         /\ p.conn => r[1].conn /\ r[1].epoch = p.epoch
         /\ p.conn /\ p.memo = None => r[2] = Version(p)
<1>1. CASE r = <<p, p.memo>> /\ p.memo # None
  BY <1>1 DEF Pods
<1>2. CASE \E q \in Ensured(p) : r = <<[q EXCEPT !.memo = Version(q)], Version(q)>>
  <2>1. PICK q \in Ensured(p) : r = <<[q EXCEPT !.memo = Version(q)], Version(q)>>
    BY <1>2
  <2>2. PICK n \in Nat : n = Version(q)
    BY VersionIsNat
  <2>3. /\ q \in Pods
        /\ q.held = p.held /\ q.loaded = p.loaded /\ q.known = p.known
        /\ q.lastEpoch = p.lastEpoch /\ q.lastWrite = p.lastWrite
        /\ p.conn => q = p
    BY <2>1, EnsuredFields
  <2>4. r = <<[q EXCEPT !.memo = n], n>>
    BY <2>1, <2>2
  <2>5. r[1] \in Pods /\ r[2] \in Nat
    BY <2>3, <2>4 DEF Pods
  <2>6. p.conn => r[1].conn /\ r[1].epoch = p.epoch
    BY <2>3, <2>4 DEF Pods
  <2>7. p.conn => r[2] = Version(p)
    BY <2>2, <2>3, <2>4
  <2> QED
    BY <2>3, <2>4, <2>5, <2>6, <2>7 DEF Pods
<1> QED
  BY <1>1, <1>2 DEF ReadVersion

-----------------------------------------------------------------------------
\* Calls and what comes next in them.

\* A new call is about one setting and holds nothing.
LEMMA BeginFields ==
  ASSUME TypeOK, NEW kind \in {"value", "update", "check", "sync"}, NEW pc \in CallPcs,
         NEW task \in {"value", "write"}, NEW k \in Keys, Begin(kind, pc, task, k)
  PROVE  /\ call' \in Calls
         /\ call'.kind = kind /\ call'.pc = pc /\ call'.task = task
         /\ call'.k = k /\ call'.asked = k
         /\ call'.floor = IF kind = "check" THEN settled[k] ELSE 0
<1>1. PICK floor \in Nat : floor = IF kind = "check" THEN settled[k] ELSE 0
  BY DEF TypeOK
<1>2. call' = [kind |-> kind, pc |-> pc, task |-> task, k |-> k, v |-> 0, at |-> 0, n |-> 0,
               told |-> FALSE, asked |-> k, todo |-> Keys \ {k}, floor |-> floor]
  BY <1>1 DEF Begin
<1> QED
  BY <1>1, <1>2 DEF Calls

\* The next setting, with nothing held of the one before, or the end of the loop.
LEMMA NextKeyFields ==
  ASSUME NEW c \in Calls, NEW pc \in CallPcs, NEW end \in CallPcs,
         NEW d \in NextKey(c, pc, end)
  PROVE  /\ d \in Calls
         /\ d.kind = c.kind /\ d.task = c.task /\ d.floor = c.floor
         /\ d.v = 0 /\ d.n = 0
         /\ c.kind = "check" => d.asked = c.asked
         /\ \/ d.pc = end /\ c.todo = {} /\ d.k = c.k /\ d.todo = {} /\ d.asked = c.asked
            \/ d.pc = pc /\ d.k \in c.todo /\ d.todo = c.todo \ {d.k}
<1> DEFINE e == [c EXCEPT !.v = 0, !.at = 0, !.n = 0, !.told = FALSE]
<1>1. e \in Calls /\ e.kind = c.kind /\ e.task = c.task /\ e.floor = c.floor /\ e.v = 0
        /\ e.n = 0 /\ e.asked = c.asked /\ e.todo = c.todo /\ e.k = c.k
  BY DEF Calls
<1>2. d \in IF c.todo = {} THEN {[e EXCEPT !.pc = end]}
            ELSE {[e EXCEPT !.pc = pc, !.k = j, !.todo = @ \ {j},
                            !.asked = IF c.kind = "check" THEN @ ELSE j] : j \in c.todo}
  BY DEF NextKey
<1> HIDE DEF e
<1>3. CASE c.todo = {}
  <2>1. d = [e EXCEPT !.pc = end]
    BY <1>2, <1>3
  <2> QED
    BY <1>1, <1>3, <2>1 DEF Calls
<1>4. CASE c.todo # {}
  <2>1. PICK j \in c.todo : d = [e EXCEPT !.pc = pc, !.k = j, !.todo = @ \ {j},
                                          !.asked = IF c.kind = "check" THEN @ ELSE j]
    BY <1>2, <1>4
  <2>2. j \in Keys /\ e.todo \ {j} \in SUBSET Keys
    BY <1>1, <2>1 DEF Calls
  <2>3. PICK a \in Keys : a = IF c.kind = "check" THEN e.asked ELSE j
    BY <1>1, <2>2 DEF Calls
  <2>4. d = [e EXCEPT !.pc = pc, !.k = j, !.todo = e.todo \ {j}, !.asked = a]
    BY <2>1, <2>3
  <2>5. d \in Calls
    BY <1>1, <2>2, <2>3, <2>4 DEF Calls
  <2>6. /\ d.kind = e.kind /\ d.task = e.task /\ d.floor = e.floor /\ d.v = e.v /\ d.n = e.n
        /\ d.pc = pc /\ d.k = j /\ d.todo = e.todo \ {j} /\ d.asked = a
    BY <1>1, <2>4 DEF Calls
  <2>7. c.kind = "check" => d.asked = c.asked
    BY <1>1, <2>3, <2>6
  <2> QED
    BY <1>1, <2>1, <2>5, <2>6, <2>7
<1> QED
  BY <1>3, <1>4

\* The value is asked for by a look at the sentinel, or by a first read.
LEMMA AskValueFields ==
  ASSUME TypeOK, NEW c \in Calls
  PROVE  LET d == AskValue(c) IN
         /\ d \in Calls
         /\ d.kind = c.kind /\ d.task = "value" /\ d.floor = c.floor
         /\ d.k = c.k /\ d.asked = c.asked /\ d.todo = c.todo
         /\ d.pc = IF pod.loaded[c.k] THEN "version" ELSE "probe"
BY DEF AskValue, ValuePc, Calls, CallPcs, ReadPc

\* With the value a call answers, goes on to write, or is over.
LEMMA ValueDoneFields ==
  ASSUME NEW c \in Calls, NEW d, d = ValueDone(c)
  PROVE  \/ c.kind \notin {"update", "sync", "check"} /\ d = Idle
         \/ /\ d \in Calls
            /\ d.kind = c.kind /\ d.floor = c.floor /\ d.v = 0
            /\ d.k = c.k /\ d.asked = c.asked /\ d.todo = c.todo
            /\ \/ c.kind \in {"update", "sync"} /\ d.task = "write" /\ d.pc = "set"
               \/ c.kind = "check" /\ d.task = c.task /\ d.pc = "answer"
<1>b. PICK pc \in CallPcs : pc = IF c.kind = "check" THEN "answer" ELSE "set"
  BY DEF CallPcs, WritePc
<1> DEFINE e(n) == [c EXCEPT !.v = 0, !.at = 0, !.told = FALSE, !.n = n]
<1>c. ASSUME NEW n \in Nat
      PROVE  /\ e(n) \in Calls
             /\ e(n).kind = c.kind /\ e(n).floor = c.floor /\ e(n).v = 0 /\ e(n).k = c.k
             /\ e(n).asked = c.asked /\ e(n).todo = c.todo /\ e(n).task = c.task
  BY DEF Calls
<1>1. CASE c.kind \in {"update", "sync"}
  <2>1. PICK n \in Nat : n = IF c.kind = "sync" THEN c.n ELSE 0
    BY DEF Calls
  <2>2. d = [c EXCEPT !.task = "write", !.pc = "set", !.v = 0, !.at = 0,
                      !.told = FALSE, !.n = n]
    BY <1>1, <2>1 DEF ValueDone
  <2>3. d \in Calls
    <3>0. pc = "set"
      BY <1>b, <1>1
    <3>1. PICK f \in Calls : f = e(n)
      BY <1>c, <2>1
    <3>2. d = [f EXCEPT !.task = "write", !.pc = "set"]
      BY <2>2, <3>1 DEF Calls
    <3> HIDE DEF e
    <3>3. "set" \in CallPcs
      BY <1>b, <3>0
    <3> QED
      BY <3>1, <3>2, <3>3 DEF Calls
  <2>4. d.kind = c.kind /\ d.floor = c.floor /\ d.v = 0 /\ d.k = c.k /\ d.asked = c.asked
          /\ d.todo = c.todo /\ d.task = "write" /\ d.pc = "set"
    BY <2>2 DEF Calls
  <2> QED
    BY <1>1, <2>3, <2>4
<1>2. CASE c.kind = "check"
  <2>1. d = [c EXCEPT !.pc = "answer", !.v = 0, !.at = 0, !.told = FALSE, !.n = 0]
    BY <1>2 DEF ValueDone
  <2>2. d \in Calls
    <3>0. pc = "answer"
      BY <1>b, <1>2
    <3>1. d = [e(0) EXCEPT !.pc = "answer"]
      BY <2>1 DEF Calls
    <3> HIDE DEF e
    <3> QED
      BY <1>c, <3>0, <3>1 DEF Calls
  <2>3. d.kind = c.kind /\ d.floor = c.floor /\ d.v = 0 /\ d.k = c.k /\ d.asked = c.asked
          /\ d.todo = c.todo /\ d.task = c.task /\ d.pc = "answer"
    BY <2>1 DEF Calls
  <2> QED
    BY <1>2, <2>2, <2>3
<1>3. CASE c.kind \notin {"update", "sync", "check"}
  BY <1>3 DEF ValueDone
<1> QED
  BY <1>1, <1>2, <1>3

-----------------------------------------------------------------------------
\* Types.

\* Only a call that is somewhere is a call.
LEMMA Busy ==
  ASSUME TypeOK, call.pc # "idle" \/ call # Idle
  PROVE  call \in Calls /\ call # Idle /\ call.pc # "idle" /\ Shape(call)
BY DEF TypeOK, Idle, Calls, CallPcs, ReadPc, WritePc

\* A step that begins a call and does nothing else.
LEMMA BeginTyped ==
  ASSUME TypeOK, NEW k \in Keys,
         \/ Value(k) \/ Update(k) \/ Check(k)
  PROVE  TypeOK'
<1>1. PICK kind \in {"value", "update", "check"}, pc \in {"version", "probe", "status"} :
        /\ Begin(kind, pc, "value", k)
        /\ pc = "status" => kind = "check"
  BY DEF Value, Update, Check, ValuePc
<1>2. pc \in CallPcs
  BY DEF CallPcs, ReadPc
<1>3. /\ call' \in Calls /\ call'.kind = kind /\ call'.pc = pc /\ call'.task = "value"
  BY <1>1, <1>2, BeginFields
<1>4. Shape(call')
  BY <1>1, <1>3 DEF Shape, ReadPc
<1>5. UNCHANGED <<redis, db, version, up, pod, remote, writes, faults, settled, basis, over,
                  crossed, blind>>
  BY DEF Value, Update, Check, stores, history
<1> QED
  BY <1>3, <1>4, <1>5 DEF TypeOK

LEMMA SyncTyped == ASSUME TypeOK, Sync PROVE TypeOK'
<1>1. PICK k \in Keys : Begin("sync", "health", "write", k)
  BY DEF Sync
<1>2. call' \in Calls /\ call'.kind = "sync" /\ call'.pc = "health" /\ call'.task = "write"
  BY <1>1, BeginFields DEF CallPcs
<1>3. Shape(call')
  BY <1>2 DEF Shape, ReadPc
<1>4. UNCHANGED <<redis, db, version, up, pod, remote, writes, faults, settled, basis, over,
                  crossed, blind>>
  BY DEF Sync, stores, history
<1> QED
  BY <1>2, <1>3, <1>4 DEF TypeOK

\* With the value a call is well formed again, or over.
LEMMA ValueDoneShape ==
  ASSUME NEW c \in Calls, Shape(c), c.task = "value"
  PROVE  ValueDone(c) \in Calls \cup {Idle}
         /\ (ValueDone(c) # Idle => Shape(ValueDone(c)))
<1>1. PICK d : d = ValueDone(c)
  OBVIOUS
<1> QED
  BY <1>1, ValueDoneFields DEF Shape, ReadPc

LEMMA AskValueShape ==
  ASSUME TypeOK, NEW c \in Calls, c.kind \in {"value", "update", "check", "sync"}
  PROVE  AskValue(c) \in Calls /\ Shape(AskValue(c)) /\ AskValue(c) # Idle
<1>1. PICK d : d = AskValue(c)
  OBVIOUS
<1>2. /\ d \in Calls
      /\ d.kind = c.kind /\ d.task = "value"
      /\ d.pc \in {"version", "probe"}
  BY <1>1, AskValueFields
<1>3. Shape(d)
  BY <1>2 DEF Shape, ReadPc
<1> QED
  BY <1>1, <1>2, <1>3, IdleIsNoCall

\* A loop goes on with a call of the same kind and task.
LEMMA NextKeyShape ==
  ASSUME NEW c \in Calls, Shape(c), NEW pc \in CallPcs, NEW end \in CallPcs,
         NEW d \in NextKey(c, pc, end),
         \/ c.task = "boot" /\ pc = "probe" /\ c.todo # {}
         \/ c.task = "refresh" /\ pc = "probe" /\ end = "final"
         \/ c.task = "write" /\ c.kind = "sync" /\ pc = "exists" /\ end = "final"
  PROVE  d \in Calls /\ d # Idle /\ Shape(d)
<1>1. /\ d \in Calls /\ d.kind = c.kind /\ d.task = c.task
      /\ (d.pc = end /\ c.todo = {}) \/ d.pc = pc
  BY NextKeyFields
<1>2. Shape(d)
  BY <1>1 DEF Shape, ReadPc
<1> QED
  BY <1>1, <1>2, IdleIsNoCall

LEMMA ValueVersionTyped == ASSUME TypeOK, ValueVersion PROVE TypeOK'
<1>1. call \in Calls /\ Shape(call) /\ call.task = "value" /\ call.kind # "boot"
  BY Busy DEF ValueVersion, Shape
<1>2. PICK r \in ReadVersion(pod) :
        /\ pod' = r[1]
        /\ call' = IF r[2] = pod.seen[call.k] THEN ValueDone(call)
                   ELSE [call EXCEPT !.pc = "probe"]
  BY DEF ValueVersion
<1>3. pod' \in Pods
  BY <1>2, ReadVersionFields DEF TypeOK
<1>4. CASE call' = ValueDone(call)
  <2>1. call' \in Calls \cup {Idle} /\ (call' # Idle => Shape(call'))
    BY <1>1, <1>4, ValueDoneShape
  <2> QED
    BY <1>3, <2>1 DEF ValueVersion, TypeOK, stores, history
<1>5. CASE call' = [call EXCEPT !.pc = "probe"]
  <2>1. /\ call' \in Calls /\ call'.kind = call.kind /\ call'.task = call.task
        /\ call'.pc = "probe"
    BY <1>1, <1>5 DEF Calls, CallPcs, ReadPc
  <2>2. Shape(call')
    BY <1>1, <2>1 DEF Shape, ReadPc
  <2> QED
    BY <1>3, <2>1, <2>2 DEF ValueVersion, TypeOK, stores, history
<1> QED
  BY <1>2, <1>4, <1>5

\* probe_value: a value with its source, or none and why.
LadderTells(got, p, k) ==
  /\ got.v \in Nat
  /\ got.status \in {"ok", "missing", "error"}
  /\ got.source \in {"redis", "db", ""}
  /\ got.source = "redis" => Answers(p) /\ redis[k] # None /\ got.v = redis[k]
  /\ got.source = "db" => /\ "db" \in up /\ db[k] # None /\ got.v = db[k]
                          /\ Answers(p) => redis[k] = None
  /\ got.status = "ok" <=> got.source # ""
  /\ got.status = "missing" => /\ Answers(p) /\ "db" \in up
                               /\ redis[k] = None /\ db[k] = None
  /\ got.status # "ok" => got.v = 0
  /\ got.status = "error" => ~Answers(p) \/ "db" \notin up

LEMMA LadderFields ==
  ASSUME TypeOK, NEW p, NEW k \in Keys, NEW got
  PROVE  got = Ladder(p, k) => LadderTells(got, p, k)
<1>0. SUFFICES ASSUME got = Ladder(p, k) PROVE LadderTells(got, p, k)
  BY <1>0
<1>1. CASE Answers(p) /\ redis[k] # None
  <2>1. got = [status |-> "ok", v |-> redis[k], source |-> "redis"] /\ redis[k] \in Nat
    BY <1>0, <1>1 DEF Ladder, Ok, TypeOK
  <2> QED
    BY <1>1, <2>1 DEF LadderTells
<1>2. CASE ~(Answers(p) /\ redis[k] # None) /\ "db" \in up /\ db[k] # None
  <2>1. got = [status |-> "ok", v |-> db[k], source |-> "db"] /\ db[k] \in Nat
    BY <1>0, <1>2 DEF Ladder, Ok, TypeOK
  <2> QED
    BY <1>2, <2>1 DEF LadderTells
<1>3. CASE Answers(p) /\ redis[k] = None /\ "db" \in up /\ db[k] = None
  <2>1. got = [status |-> "missing", v |-> 0, source |-> ""]
    BY <1>0, <1>3 DEF Ladder, Nothing
  <2>2. got.status = "missing" /\ got.v = 0 /\ got.source = ""
    BY <2>1
  <2>3. got.v = 0
    BY <2>1
  <2>4. got.v \in Nat
    BY <2>3
  <2>6. got.status \in {"ok", "missing", "error"} /\ got.source \in {"redis", "db", ""}
    BY <2>2
  <2>5. got.source # "redis" /\ got.source # "db" /\ got.status # "ok" /\ got.status # "error"
    BY <2>2
  <2> QED
    BY <1>3, <2>2, <2>4, <2>5, <2>6, Zenon DEF LadderTells
<1>4. CASE ~(Answers(p) /\ redis[k] # None) /\ ~("db" \in up /\ db[k] # None)
             /\ ~(Answers(p) /\ redis[k] = None /\ "db" \in up /\ db[k] = None)
  <2>1. got = [status |-> "error", v |-> 0, source |-> ""]
    BY <1>0, <1>4 DEF Ladder, Nothing
  <2>2. got.status = "error" /\ got.v = 0 /\ got.source = ""
    BY <2>1
  <2>3. ~Answers(p) \/ "db" \notin up
    BY <1>4
  <2>7. got.v = 0
    BY <2>1
  <2>4. got.v \in Nat
    BY <2>7
  <2>6. got.status \in {"ok", "missing", "error"} /\ got.source \in {"redis", "db", ""}
    BY <2>2
  <2>5. got.source # "redis" /\ got.source # "db" /\ got.status # "ok" /\ got.status # "missing"
    BY <2>2
  <2> QED
    BY <2>2, <2>3, <2>4, <2>5, <2>6, Zenon DEF LadderTells
<1> QED
  BY <1>1, <1>2, <1>3, <1>4

\* _resolve: a manager that answers or not, what it found, and the call with it.
Resolving(q, got, c) ==
  /\ got = Ladder(q, call.k)
  /\ c = [call EXCEPT !.v = got.v, !.at = Version(q), !.n = Finished]
  /\ redis' = IF got.source = "db" /\ Answers(q) /\ redis[call.k] = None
              THEN [redis EXCEPT ![call.k] = got.v] ELSE redis
  /\ \/ /\ got.status = "ok"
        /\ pod' = q
        /\ call' = [c EXCEPT !.pc = IF got.source = "redis" THEN "through" ELSE "seen"]
     \/ /\ got.status = "missing"
        /\ pod' = q
        /\ call' = [c EXCEPT !.pc = "set"]
     \/ /\ got.status = "error"
        /\ pod' = Unread(q, c)
        /\ \/ c.task = "boot" /\ call' = [c EXCEPT !.pc = "unread"]
           \/ c.task = "refresh" /\ call' \in NextKey(c, "probe", "final")
           \/ c.task = "value" /\ call' = ValueDone(c)

LEMMA ResolveFields ==
  ASSUME TypeOK, Resolve
  PROVE  /\ call \in Calls /\ Shape(call) /\ call.task \in {"boot", "refresh", "value"}
         /\ \E q, got, c :
              /\ q \in Ensured(pod) /\ c \in Calls
              /\ Resolving(q, got, c)
              /\ LadderTells(got, q, call.k)
              /\ c.kind = call.kind /\ c.task = call.task /\ c.k = call.k
              /\ c.asked = call.asked /\ c.todo = call.todo /\ c.floor = call.floor
              /\ c.v = got.v /\ c.at = Version(q) /\ c.n = Finished
<1>1. call \in Calls /\ Shape(call) /\ call.task \in {"boot", "refresh", "value"}
  <2>1. call \in Calls /\ Shape(call) /\ call.task # "write"
    BY Busy DEF Resolve, Shape, ReadPc
  <2> QED
    BY <2>1 DEF Calls
<1>2. PICK r \in Probes(pod, call.k) :
        LET c == [call EXCEPT !.v = r.got.v, !.at = r.at, !.n = Finished]
        IN /\ redis' = IF r.got.source = "db" /\ Answers(r.pod) /\ redis[call.k] = None
                       THEN [redis EXCEPT ![call.k] = r.got.v] ELSE redis
           /\ \/ /\ r.got.status = "ok"
                 /\ pod' = r.pod
                 /\ call' = [c EXCEPT !.pc = IF r.got.source = "redis" THEN "through" ELSE "seen"]
              \/ /\ r.got.status = "missing"
                 /\ pod' = r.pod
                 /\ call' = [c EXCEPT !.pc = "set"]
              \/ /\ r.got.status = "error"
                 /\ pod' = Unread(r.pod, c)
                 /\ \/ c.task = "boot" /\ call' = [c EXCEPT !.pc = "unread"]
                    \/ c.task = "refresh" /\ call' \in NextKey(c, "probe", "final")
                    \/ c.task = "value" /\ call' = ValueDone(c)
  BY DEF Resolve
<1>3. PICK q \in Ensured(pod) : r = [pod |-> q, got |-> Ladder(q, call.k), at |-> Version(q)]
  BY <1>2 DEF Probes
<1>4. PICK got : got = Ladder(q, call.k)
  OBVIOUS
<1>15. LadderTells(got, q, call.k)
  BY <1>1, <1>4, LadderFields DEF Calls
<1>5. got.v \in Nat
  BY <1>15 DEF LadderTells
<1>6. PICK at \in Nat : at = Version(q)
  BY VersionIsNat
<1>7. PICK n \in Nat : n = Finished
  BY DEF Finished, TypeOK, Remotes
<1>8. PICK c : c = [call EXCEPT !.v = got.v, !.at = at, !.n = n]
  OBVIOUS
<1>9. /\ c \in Calls
      /\ c.kind = call.kind /\ c.task = call.task /\ c.k = call.k /\ c.floor = call.floor
      /\ c.asked = call.asked /\ c.todo = call.todo
      /\ c.v = got.v /\ c.at = at /\ c.n = n
  BY <1>1, <1>5, <1>8 DEF Calls
<1>10. r.pod = q /\ r.got = got /\ r.at = at
  BY <1>3, <1>4, <1>6
<1>11. c = [call EXCEPT !.v = r.got.v, !.at = r.at, !.n = Finished]
  BY <1>7, <1>8, <1>10
<1>12. redis' = IF got.source = "db" /\ Answers(q) /\ redis[call.k] = None
               THEN [redis EXCEPT ![call.k] = got.v] ELSE redis
  BY <1>2, <1>10
<1>13. \/ /\ got.status = "ok"
          /\ pod' = q
          /\ call' = [c EXCEPT !.pc = IF got.source = "redis" THEN "through" ELSE "seen"]
       \/ /\ got.status = "missing"
          /\ pod' = q
          /\ call' = [c EXCEPT !.pc = "set"]
       \/ /\ got.status = "error"
          /\ pod' = Unread(q, c)
          /\ \/ c.task = "boot" /\ call' = [c EXCEPT !.pc = "unread"]
             \/ c.task = "refresh" /\ call' \in NextKey(c, "probe", "final")
             \/ c.task = "value" /\ call' = ValueDone(c)
  BY <1>2, <1>10, <1>11
<1>14. /\ c.v = got.v /\ c.at = Version(q) /\ c.n = Finished
       /\ c = [call EXCEPT !.v = got.v, !.at = Version(q), !.n = Finished]
  BY <1>6, <1>7, <1>8, <1>9
<1>16. Resolving(q, got, c)
  BY <1>4, <1>12, <1>13, <1>14 DEF Resolving
<1> QED
  BY <1>1, <1>9, <1>14, <1>15, <1>16

\* _reload that could not read: at most the default takes the place of the value.
LEMMA UnreadFields ==
  ASSUME NEW p \in Pods, NEW c \in Calls
  PROVE  Unread(p, c) \in Pods
<1>1. PICK v \in Nat : v = IF c.task = "boot" THEN 0 ELSE p.held[c.k]
  BY DEF Pods, Calls
<1>2. c.k \in Keys
  BY DEF Calls
<1>3. PICK loaded \in [Keys -> BOOLEAN] : loaded = [p.loaded EXCEPT ![c.k] = FALSE]
  BY <1>2 DEF Pods
<1>4. PICK held \in [Keys -> Nat] : held = [p.held EXCEPT ![c.k] = v]
  BY <1>1, <1>2 DEF Pods
<1>5. Unread(p, c) = [p EXCEPT !.loaded = loaded, !.held = held]
  BY <1>1, <1>3, <1>4 DEF Unread, Pods
<1> QED
  BY <1>5 DEF Pods

LEMMA ResolveTyped == ASSUME TypeOK, Resolve PROVE TypeOK'
<1>1. /\ call \in Calls /\ Shape(call)
      /\ call.task \in {"boot", "refresh", "value"}
  BY ResolveFields
<1>3. PICK q, got, c :
        /\ q \in Ensured(pod) /\ c \in Calls
        /\ Resolving(q, got, c) /\ LadderTells(got, q, call.k)
        /\ c.kind = call.kind /\ c.task = call.task
  BY ResolveFields, Zenon
<1>4. q \in Pods /\ pod' \in Pods
  BY <1>3, EnsuredFields, UnreadFields DEF Resolving, TypeOK
<1>5. redis' \in [Keys -> Nat \cup {None}]
  BY <1>1, <1>3 DEF Resolving, LadderTells, TypeOK
<1>6. ASSUME NEW pc \in ReadPc \cup WritePc \cup {"unread"},
             call' = [c EXCEPT !.pc = pc],
             pc = "unread" => call.task = "boot"
      PROVE  call' \in Calls /\ call' # Idle /\ Shape(call')
  <2>1. pc \in CallPcs
    BY DEF CallPcs
  <2>2. call' \in Calls /\ call'.kind = call.kind /\ call'.task = call.task /\ call'.pc = pc
    BY <1>3, <1>6, <2>1 DEF Calls
  <2>3. Shape(call')
    BY <1>1, <1>6, <2>2 DEF Shape, ReadPc, WritePc
  <2> QED
    BY <2>2, <2>3, IdleIsNoCall
<1>7. call' \in Calls \cup {Idle} /\ (call' # Idle => Shape(call'))
  <2>1. CASE got.status = "ok"
    <3>1. PICK pc \in {"through", "seen"} : call' = [c EXCEPT !.pc = pc]
      BY <1>3, <2>1 DEF Resolving
    <3> QED
      BY <1>6, <3>1 DEF ReadPc
  <2>2. CASE got.status = "missing"
    <3>1. call' = [c EXCEPT !.pc = "set"]
      BY <1>3, <2>2 DEF Resolving
    <3> QED
      BY <1>6, <3>1 DEF WritePc
  <2>3. CASE got.status = "error"
    <3>0. Shape(c)
      BY <1>1, <1>3, <2>3 DEF Resolving, Shape
    <3>1. CASE c.task = "boot" /\ call' = [c EXCEPT !.pc = "unread"]
      BY <1>3, <1>6, <3>1
    <3>2. CASE c.task = "refresh" /\ call' \in NextKey(c, "probe", "final")
      BY <1>3, <3>0, <3>2, NextKeyShape DEF CallPcs, ReadPc
    <3>3. CASE c.task = "value" /\ call' = ValueDone(c)
      BY <1>3, <3>0, <3>3, ValueDoneShape
    <3> QED
      BY <1>3, <2>3, <3>1, <3>2, <3>3 DEF Resolving
  <2> QED
    BY <1>3, <2>1, <2>2, <2>3 DEF LadderTells
<1> QED
  BY <1>4, <1>5, <1>7 DEF Resolve, TypeOK, history

LEMMA ThroughTyped == ASSUME TypeOK, Through PROVE TypeOK'
<1>1. call \in Calls /\ Shape(call)
  BY Busy DEF Through
<1>2. /\ call' \in Calls /\ call'.kind = call.kind /\ call'.task = call.task
      /\ call'.pc = "seen"
  BY <1>1 DEF Through, Calls, CallPcs, ReadPc
<1>3. Shape(call')
  BY <1>1, <1>2 DEF Through, Shape, ReadPc
<1>4. call.k \in Keys /\ call.v \in Nat
  BY <1>1 DEF Calls
<1>5. db' \in [Keys -> Nat \cup {None}]
  BY <1>4 DEF Through, TypeOK
<1>6. crossed' \in BOOLEAN
  BY DEF Through
<1> QED
  BY <1>2, <1>3, <1>5, <1>6 DEF Through, TypeOK

\* _reload that could read
LEMMA KeepFields ==
  ASSUME NEW p \in Pods, NEW c \in Calls
  PROVE  LET q == Keep(p, c) IN
         /\ q \in Pods
         /\ q.held = [p.held EXCEPT ![c.k] = c.v]
         /\ q.loaded = [p.loaded EXCEPT ![c.k] = TRUE]
         /\ q.known = p.known /\ q.conn = p.conn /\ q.epoch = p.epoch
         /\ q.lastEpoch = p.lastEpoch /\ q.lastWrite = p.lastWrite /\ q.memo = p.memo
<1>1. c.k \in Keys /\ c.v \in Nat
  BY DEF Calls
<1>2. PICK loaded \in [Keys -> BOOLEAN] : loaded = [p.loaded EXCEPT ![c.k] = TRUE]
  BY <1>1 DEF Pods
<1>3. PICK held \in [Keys -> Nat] : held = [p.held EXCEPT ![c.k] = c.v]
  BY <1>1 DEF Pods
<1>4. Keep(p, c) = [p EXCEPT !.loaded = loaded, !.held = held]
  BY <1>2, <1>3 DEF Keep, Pods
<1> QED
  BY <1>2, <1>3, <1>4 DEF Pods

\* What a step of refresh or of an access leaves the pod with.
LEMMA SeenFields ==
  ASSUME TypeOK, Seen
  PROVE  /\ call \in Calls /\ Shape(call) /\ pod' \in Pods
         /\ pod'.held = IF call.pc = "seen" THEN [pod.held EXCEPT ![call.k] = call.v] ELSE pod.held
         /\ pod'.loaded = IF call.pc = "seen" THEN [pod.loaded EXCEPT ![call.k] = TRUE]
                          ELSE pod.loaded
         /\ pod'.known = pod.known /\ pod'.lastEpoch = pod.lastEpoch
         /\ pod'.lastWrite = pod.lastWrite
         /\ pod.conn => pod'.conn /\ pod'.epoch = pod.epoch
<1>1. call \in Calls /\ Shape(call)
  BY Busy DEF Seen
<1>2. PICK q : q = IF call.pc = "seen" THEN Keep(pod, call) ELSE pod
  OBVIOUS
<1>3. /\ q \in Pods
      /\ q.held = IF call.pc = "seen" THEN [pod.held EXCEPT ![call.k] = call.v] ELSE pod.held
      /\ q.loaded = IF call.pc = "seen" THEN [pod.loaded EXCEPT ![call.k] = TRUE] ELSE pod.loaded
      /\ q.known = pod.known /\ q.conn = pod.conn /\ q.epoch = pod.epoch
      /\ q.lastEpoch = pod.lastEpoch /\ q.lastWrite = pod.lastWrite
  BY <1>1, <1>2, KeepFields DEF TypeOK
<1>a. PICK p \in {q, [q EXCEPT !.memo = None]} :
        \E r \in ReadVersion(p) : pod' = [r[1] EXCEPT !.seen[call.k] = r[2]]
  BY <1>2 DEF Seen, FreshVersion
<1>4. PICK r \in ReadVersion(p) : pod' = [r[1] EXCEPT !.seen[call.k] = r[2]]
  BY <1>a
<1>5. /\ p \in Pods /\ p.held = q.held /\ p.loaded = q.loaded /\ p.known = q.known
      /\ p.conn = q.conn /\ p.epoch = q.epoch /\ p.lastEpoch = q.lastEpoch
      /\ p.lastWrite = q.lastWrite
  BY <1>3, <1>a DEF Pods
<1>6. /\ r[1] \in Pods /\ r[2] \in Nat
      /\ r[1].held = p.held /\ r[1].loaded = p.loaded /\ r[1].known = p.known
      /\ r[1].lastEpoch = p.lastEpoch /\ r[1].lastWrite = p.lastWrite
      /\ p.conn => r[1].conn /\ r[1].epoch = p.epoch
  BY <1>4, <1>5, ReadVersionFields
<1>7. call.k \in Keys
  BY <1>1 DEF Calls
<1>8. PICK seen \in [Keys -> Nat] : seen = [r[1].seen EXCEPT ![call.k] = r[2]]
  BY <1>6, <1>7 DEF Pods
<1>9. pod' = [r[1] EXCEPT !.seen = seen]
  BY <1>4, <1>6, <1>8 DEF Pods
<1>10. /\ pod' \in Pods
       /\ pod'.held = r[1].held /\ pod'.loaded = r[1].loaded /\ pod'.known = r[1].known
       /\ pod'.lastEpoch = r[1].lastEpoch /\ pod'.lastWrite = r[1].lastWrite
       /\ pod'.conn = r[1].conn /\ pod'.epoch = r[1].epoch
  BY <1>6, <1>8, <1>9 DEF Pods
<1> QED
  BY <1>1, <1>3, <1>5, <1>6, <1>10

LEMMA SeenTyped == ASSUME TypeOK, Seen PROVE TypeOK'
<1>1. call \in Calls /\ Shape(call) /\ pod' \in Pods
  BY SeenFields
<1>2. call' \in Calls \cup {Idle} /\ (call' # Idle => Shape(call'))
  <2>1. CASE call.task = "boot" /\ call.todo = {} /\ call' = Idle
    BY <2>1
  <2>2. CASE call.task = "refresh" /\ call' \in NextKey(call, "probe", "final")
    <3>1. "probe" \in CallPcs /\ "final" \in CallPcs
      BY DEF CallPcs, ReadPc
    <3> QED
      BY <1>1, <2>2, <3>1, NextKeyShape
  <2>4. CASE call.task = "boot" /\ call.todo # {} /\ call' \in NextKey(call, "probe", "final")
    <3>1. "probe" \in CallPcs /\ "final" \in CallPcs
      BY DEF CallPcs, ReadPc
    <3> QED
      BY <1>1, <2>4, <3>1, NextKeyShape
  <2>3. CASE call.task = "value" /\ call' = ValueDone(call)
    BY <1>1, <2>3, ValueDoneShape
  <2> QED
    BY <2>1, <2>2, <2>3, <2>4 DEF Seen
<1>3. PICK b \in Nat : b = IF call.pc = "seen" THEN call.at ELSE basis[call.k]
  BY <1>1 DEF Calls, TypeOK
<1>4. basis' = [basis EXCEPT ![call.k] = b] /\ call.k \in Keys
  BY <1>1, <1>3 DEF Seen, Calls, TypeOK
<1>5. basis' \in [Keys -> Nat]
  BY <1>3, <1>4 DEF TypeOK
<1> QED
  BY <1>1, <1>2, <1>5 DEF Seen, TypeOK, stores

\* What is written is a number.
LEMMA WritingIsNat == ASSUME TypeOK, NEW c \in Calls PROVE Writing(c) \in Nat
<1>1. c.k \in Keys
  BY DEF Calls
<1>2. pod.held[c.k] \in Nat /\ writes + 1 \in Nat
  BY <1>1 DEF TypeOK, Pods
<1>3. CASE c.task = "write" /\ c.kind = "update"
  BY <1>2, <1>3 DEF Writing
<1>4. CASE c.task = "write" /\ c.kind = "sync"
  BY <1>2, <1>4 DEF Writing
<1>5. CASE ~(c.task = "write" /\ c.kind = "update") /\ ~(c.task = "write" /\ c.kind = "sync")
  BY <1>5 DEF Writing
<1> QED
  BY <1>3, <1>4, <1>5

\* set_config reaches Redis or finds that it is away; the call goes on either way.
LEMMA SetFields ==
  ASSUME TypeOK, Set
  PROVE  /\ call \in Calls /\ Shape(call) /\ call' \in Calls
         /\ call'.kind = call.kind /\ call'.task = call.task /\ call'.k = call.k
         /\ call'.n = call.n /\ call'.asked = call.asked /\ call'.todo = call.todo
         /\ call'.floor = call.floor
         /\ call'.v = Writing(call)
         /\ call'.at = IF call.task = "write" THEN version ELSE call.at
         /\ \E q \in Ensured(pod) :
              \/ /\ Answers(q) /\ pod' = q /\ call'.pc = "incr"
                 /\ redis' = [redis EXCEPT ![call.k] = call'.v]
              \/ /\ ~Answers(q) /\ pod' = [q EXCEPT !.conn = FALSE] /\ call'.pc = "setdb"
                 /\ redis' = redis
         /\ writes' = IF call'.v > writes THEN call'.v ELSE writes
<1>1. call \in Calls /\ Shape(call)
  BY Busy DEF Set
<1>2. PICK v \in Nat : v = Writing(call)
  BY <1>1, WritingIsNat
<1>3. PICK at \in Nat : at = IF call.task = "write" THEN version ELSE call.at
  BY <1>1 DEF TypeOK, Calls
<1>4. PICK read : read = [call EXCEPT !.v = v, !.at = at]
  OBVIOUS
<1>5. /\ read \in Calls
      /\ read.kind = call.kind /\ read.task = call.task /\ read.k = call.k
      /\ read.n = call.n /\ read.asked = call.asked /\ read.todo = call.todo
      /\ read.floor = call.floor
      /\ read.v = v /\ read.at = at
  BY <1>1, <1>2, <1>3, <1>4 DEF Calls
<1>6. /\ \E q \in Ensured(pod) :
           IF Answers(q)
           THEN /\ pod' = q
                /\ redis' = [redis EXCEPT ![call.k] = v]
                /\ call' = [read EXCEPT !.pc = "incr"]
           ELSE /\ pod' = [q EXCEPT !.conn = FALSE]
                /\ call' = [read EXCEPT !.pc = "setdb"]
                /\ UNCHANGED redis
      /\ writes' = IF v > writes THEN v ELSE writes
  BY <1>2, <1>3, <1>4 DEF Set
<1>7. PICK q \in Ensured(pod) :
        IF Answers(q)
        THEN /\ pod' = q
             /\ redis' = [redis EXCEPT ![call.k] = v]
             /\ call' = [read EXCEPT !.pc = "incr"]
        ELSE /\ pod' = [q EXCEPT !.conn = FALSE]
             /\ call' = [read EXCEPT !.pc = "setdb"]
             /\ UNCHANGED redis
  BY <1>6
<1>8. ASSUME NEW pc \in {"incr", "setdb"}, call' = [read EXCEPT !.pc = pc]
      PROVE  /\ call' \in Calls
             /\ call'.kind = call.kind /\ call'.task = call.task /\ call'.k = call.k
             /\ call'.n = call.n /\ call'.asked = call.asked /\ call'.todo = call.todo
             /\ call'.floor = call.floor
             /\ call'.v = v /\ call'.at = at /\ call'.pc = pc
  <2>1. pc \in CallPcs
    BY DEF CallPcs, WritePc
  <2> QED
    BY <1>5, <1>8, <2>1 DEF Calls
<1>9. CASE Answers(q)
  <2>1. call' = [read EXCEPT !.pc = "incr"] /\ pod' = q /\ redis' = [redis EXCEPT ![call.k] = v]
    BY <1>7, <1>9
  <2>2. /\ call' \in Calls
        /\ call'.kind = call.kind /\ call'.task = call.task /\ call'.k = call.k
        /\ call'.n = call.n /\ call'.asked = call.asked /\ call'.todo = call.todo
        /\ call'.floor = call.floor
        /\ call'.v = v /\ call'.at = at /\ call'.pc = "incr"
    BY <1>8, <2>1
  <2> QED
    BY <1>1, <1>2, <1>3, <1>6, <1>9, <2>1, <2>2
<1>10. CASE ~Answers(q)
  <2>1. call' = [read EXCEPT !.pc = "setdb"] /\ pod' = [q EXCEPT !.conn = FALSE] /\ redis' = redis
    BY <1>7, <1>10
  <2>2. /\ call' \in Calls
        /\ call'.kind = call.kind /\ call'.task = call.task /\ call'.k = call.k
        /\ call'.n = call.n /\ call'.asked = call.asked /\ call'.todo = call.todo
        /\ call'.floor = call.floor
        /\ call'.v = v /\ call'.at = at /\ call'.pc = "setdb"
    BY <1>8, <2>1
  <2> QED
    BY <1>1, <1>2, <1>3, <1>6, <1>10, <2>1, <2>2
<1> QED
  BY <1>9, <1>10

LEMMA SetTyped == ASSUME TypeOK, Set PROVE TypeOK'
<1>1. /\ call \in Calls /\ Shape(call) /\ call' \in Calls /\ call'.kind = call.kind
      /\ call'.task = call.task /\ call'.pc \in {"incr", "setdb"} /\ call'.v \in Nat
      /\ writes' = IF call'.v > writes THEN call'.v ELSE writes
  BY SetFields, WritingIsNat
<1>2. Shape(call')
  BY <1>1 DEF Shape, ReadPc
<1>3. PICK q \in Ensured(pod) :
        \/ /\ Answers(q) /\ pod' = q /\ call'.pc = "incr"
           /\ redis' = [redis EXCEPT ![call.k] = call'.v]
        \/ /\ ~Answers(q) /\ pod' = [q EXCEPT !.conn = FALSE] /\ call'.pc = "setdb"
           /\ redis' = redis
  BY SetFields
<1>4. q \in Pods
  BY EnsuredFields DEF TypeOK
<1>5. [q EXCEPT !.conn = FALSE] \in Pods
  BY <1>4 DEF Pods
<1>6. pod' \in Pods
  BY <1>3, <1>4, <1>5
<1>7. call.k \in Keys
  BY <1>1 DEF Calls
<1>8. redis' \in [Keys -> Nat \cup {None}]
  BY <1>1, <1>3, <1>7 DEF TypeOK
<1>9. writes' \in Nat /\ writes <= writes'
  BY <1>1 DEF TypeOK
<1>10. crossed' \in BOOLEAN /\ blind' \in BOOLEAN
  BY DEF Set
<1>11. remote # Idle => remote.v <= writes'
  BY <1>9 DEF TypeOK, Remotes
<1> QED
  BY <1>1, <1>2, <1>6, <1>8, <1>9, <1>10, <1>11 DEF Set, TypeOK

\* The same call somewhere else, possibly told.
LEMMA GotoFields ==
  ASSUME NEW c \in Calls, NEW pc \in CallPcs, NEW d, d = [c EXCEPT !.pc = pc]
  PROVE  /\ d \in Calls
         /\ d.kind = c.kind /\ d.task = c.task /\ d.pc = pc /\ d.k = c.k /\ d.v = c.v
         /\ d.at = c.at /\ d.n = c.n /\ d.told = c.told /\ d.asked = c.asked
         /\ d.todo = c.todo /\ d.floor = c.floor
BY DEF Calls

\* INCR, when Redis answers.
LEMMA IncrFields ==
  ASSUME TypeOK, Incr
  PROVE  /\ call \in Calls /\ Shape(call) /\ call' \in Calls
         /\ call'.kind = call.kind /\ call'.task = call.task /\ call'.pc = "setdb"
         /\ call'.k = call.k /\ call'.v = call.v /\ call'.n = call.n
         /\ call'.asked = call.asked /\ call'.todo = call.todo /\ call'.floor = call.floor
         /\ IF Answers(pod)
            THEN /\ version' = version + 1 /\ basis' = Moved
                 /\ pod' = [pod EXCEPT !.lastWrite = version + 1]
                 /\ call'.at = IF call.at = version THEN version + 1 ELSE call.at
            ELSE version' = version /\ pod' = pod /\ basis' = basis /\ call'.at = call.at
<1>1. call \in Calls /\ Shape(call)
  BY Busy DEF Incr
<1>2. "setdb" \in CallPcs
  BY DEF CallPcs, WritePc
<1>3. CASE Answers(pod)
  <2>1. PICK at \in Nat : at = IF call.at = version THEN version + 1 ELSE call.at
    BY <1>1 DEF TypeOK, Calls
  <2>2. call' = [call EXCEPT !.pc = "setdb", !.told = TRUE, !.at = at]
    BY <1>1, <1>3, <2>1 DEF Incr, Calls
  <2>3. call' \in Calls
    BY <1>1, <1>2, <2>1, <2>2 DEF Calls
  <2>4. /\ call'.kind = call.kind /\ call'.task = call.task /\ call'.pc = "setdb"
        /\ call'.k = call.k /\ call'.v = call.v /\ call'.n = call.n
        /\ call'.asked = call.asked /\ call'.todo = call.todo /\ call'.floor = call.floor
        /\ call'.at = at
    BY <1>1, <2>2 DEF Calls
  <2> QED
    BY <1>1, <1>3, <2>1, <2>3, <2>4 DEF Incr
<1>4. CASE ~Answers(pod)
  <2>1. call' = [call EXCEPT !.pc = "setdb"]
    BY <1>4 DEF Incr
  <2> QED
    BY <1>1, <1>2, <1>4, <2>1, GotoFields DEF Incr
<1> QED
  BY <1>3, <1>4

LEMMA IncrTyped == ASSUME TypeOK, Incr PROVE TypeOK'
<1>1. /\ call \in Calls /\ Shape(call) /\ call' \in Calls
      /\ call'.kind = call.kind /\ call'.task = call.task /\ call'.pc = "setdb"
  BY IncrFields
<1>2. Shape(call')
  BY <1>1 DEF Shape, ReadPc
<1>3. version' \in Nat
  BY IncrFields DEF TypeOK
<1>4. pod' \in Pods
  BY IncrFields DEF TypeOK, Pods
<1>5. basis' \in [Keys -> Nat]
  BY IncrFields DEF TypeOK, Moved
<1> QED
  BY <1>1, <1>2, <1>3, <1>4, <1>5 DEF Incr, TypeOK

LEMMA SettleTyped ==
  ASSUME TypeOK, NEW c \in Calls \cup Remotes, Settle(c)
  PROVE  settled' \in [Keys -> Nat]
BY DEF Settle, TypeOK, Calls, Remotes

LEMMA SetDbTyped == ASSUME TypeOK, SetDb PROVE TypeOK'
<1>1. call \in Calls /\ Shape(call) /\ call.k \in Keys /\ call.v \in Nat
  BY Busy DEF SetDb, Calls
<1>2. call' \in Calls /\ call' # Idle /\ Shape(call')
  <2>1. CASE call.task # "write" /\ call' = [call EXCEPT !.pc = "seen"]
    <3>1. call' \in Calls /\ call'.kind = call.kind /\ call'.task = call.task
            /\ call'.pc = "seen"
      BY <1>1, <2>1, GotoFields DEF CallPcs, ReadPc
    <3> QED
      BY <1>1, <2>1, <3>1, IdleIsNoCall DEF Shape, ReadPc
  <2>2. CASE call.task = "write" /\ call.kind = "sync" /\ call' \in NextKey(call, "exists", "final")
    <3>1. "exists" \in CallPcs /\ "final" \in CallPcs
      BY DEF CallPcs
    <3> QED
      BY <1>1, <2>2, <3>1, NextKeyShape
  <2>3. CASE call.task = "write" /\ call.kind = "update" /\ call' = [call EXCEPT !.pc = "align"]
    <3>1. call' \in Calls /\ call'.kind = call.kind /\ call'.task = call.task
            /\ call'.pc = "align"
      BY <1>1, <2>3, GotoFields DEF CallPcs
    <3> QED
      BY <1>1, <2>3, <3>1, IdleIsNoCall DEF Shape, ReadPc
  <2> QED
    BY <2>1, <2>2, <2>3 DEF SetDb
<1>3. db' \in [Keys -> Nat \cup {None}]
  BY <1>1 DEF SetDb, TypeOK
<1>4. settled' \in [Keys -> Nat]
  BY <1>1, SettleTyped DEF SetDb
<1>5. crossed' \in BOOLEAN
  BY DEF SetDb
<1> QED
  BY <1>2, <1>3, <1>4, <1>5 DEF SetDb, TypeOK

\* The sentinels of all settings are one number.
LEMMA AlignedFields ==
  ASSUME NEW p \in Pods
  PROVE  /\ Aligned(p) \in Pods
         /\ Aligned(p).held = p.held /\ Aligned(p).loaded = p.loaded
         /\ Aligned(p).known = p.known /\ Aligned(p).conn = p.conn
         /\ Aligned(p).epoch = p.epoch /\ Aligned(p).lastEpoch = p.lastEpoch
         /\ Aligned(p).lastWrite = p.lastWrite
<1>1. PICK seen \in [Keys -> Nat] : seen = All(p.known)
  BY DEF All, Pods
<1>2. Aligned(p) = [p EXCEPT !.seen = seen]
  BY <1>1 DEF Aligned
<1> QED
  BY <1>2 DEF Pods

\* update_config at its end: its own value, and the version of its write or, without
\* one, the version that is there.
LEMMA AlignFields ==
  ASSUME TypeOK, Align
  PROVE  /\ call \in Calls /\ Shape(call) /\ pod' \in Pods
         /\ pod'.held = [pod.held EXCEPT ![call.k] = call.v]
         /\ pod'.loaded = pod.loaded
         /\ pod.lastWrite > 0 => pod'.known = pod.lastWrite
         /\ pod'.lastEpoch = pod.lastEpoch /\ pod'.lastWrite = pod.lastWrite
         /\ pod.conn => pod'.conn /\ pod'.epoch = pod.epoch
<1>1. call \in Calls /\ Shape(call)
  BY Busy DEF Align
<1>2. PICK p \in OwnVersion(pod) : pod' = Aligned([p EXCEPT !.held[call.k] = call.v])
  BY DEF Align
<1>3. /\ p \in Pods
      /\ p.held = pod.held /\ p.loaded = pod.loaded /\ p.lastEpoch = pod.lastEpoch
      /\ p.lastWrite = pod.lastWrite
      /\ pod.lastWrite > 0 => p.known = pod.lastWrite
      /\ pod.conn => p.conn /\ p.epoch = pod.epoch
  <2>1. CASE pod.lastWrite > 0
    <3>1. p = [pod EXCEPT !.known = pod.lastWrite, !.memo = None]
      BY <1>2, <2>1 DEF OwnVersion
    <3> QED
      BY <3>1 DEF TypeOK, Pods
  <2>2. CASE ~(pod.lastWrite > 0)
    <3>1. PICK q : q = [pod EXCEPT !.memo = None]
      OBVIOUS
    <3>2. /\ q \in Pods /\ q.held = pod.held /\ q.loaded = pod.loaded
          /\ q.lastEpoch = pod.lastEpoch /\ q.conn = pod.conn /\ q.epoch = pod.epoch
          /\ q.lastWrite = pod.lastWrite
      BY <3>1 DEF TypeOK, Pods
    <3>3. PICK r \in ReadVersion(q) : p = [r[1] EXCEPT !.known = r[2]]
      BY <1>2, <2>2, <3>1 DEF OwnVersion, FreshVersion
    <3>4. /\ r[1] \in Pods /\ r[2] \in Nat
          /\ r[1].held = q.held /\ r[1].loaded = q.loaded /\ r[1].lastEpoch = q.lastEpoch
          /\ r[1].lastWrite = q.lastWrite
          /\ q.conn => r[1].conn /\ r[1].epoch = q.epoch
      BY <3>2, <3>3, ReadVersionFields
    <3> QED
      BY <2>2, <3>2, <3>3, <3>4 DEF Pods
  <2> QED
    BY <2>1, <2>2
<1>4. call.k \in Keys /\ call.v \in Nat
  BY <1>1 DEF Calls
<1>5. PICK held \in [Keys -> Nat] : held = [pod.held EXCEPT ![call.k] = call.v]
  BY <1>4 DEF TypeOK, Pods
<1>6. PICK q : q = [p EXCEPT !.held = held]
  OBVIOUS
<1>7. pod' = Aligned(q)
  BY <1>2, <1>3, <1>5, <1>6 DEF Pods
<1>8. /\ q \in Pods /\ q.held = held /\ q.loaded = p.loaded /\ q.known = p.known
      /\ q.conn = p.conn /\ q.epoch = p.epoch /\ q.lastEpoch = p.lastEpoch
      /\ q.lastWrite = p.lastWrite
  BY <1>3, <1>5, <1>6 DEF Pods
<1> QED
  BY <1>1, <1>3, <1>5, <1>7, <1>8, AlignedFields

LEMMA AlignTyped == ASSUME TypeOK, Align PROVE TypeOK'
<1>1. call \in Calls /\ pod' \in Pods
  BY AlignFields
<1>2. call.k \in Keys /\ call.at \in Nat
  BY <1>1 DEF Calls
<1>3. basis' \in [Keys -> Nat]
  BY <1>2 DEF Align, TypeOK
<1>4. over' \in BOOLEAN /\ call' = Idle
  BY DEF Align
<1> QED
  BY <1>1, <1>3, <1>4 DEF Align, TypeOK, stores

\* refresh_all begins with any of the settings.
LEMMA RefreshingFields ==
  ASSUME NEW c \in Calls, NEW d \in Refreshing(c)
  PROVE  /\ d \in Calls
         /\ d.kind = c.kind /\ d.task = "refresh" /\ d.pc = "probe"
         /\ d.asked = c.asked /\ d.floor = c.floor /\ d.todo = Keys \ {d.k} /\ d.k \in Keys
<1>1. PICK k \in Keys : d = [c EXCEPT !.task = "refresh", !.pc = "probe", !.k = k,
                                      !.todo = Keys \ {k}]
  BY DEF Refreshing
<1>2. "probe" \in CallPcs
  BY DEF CallPcs, ReadPc
<1> QED
  BY <1>1, <1>2 DEF Calls

\* The value of the setting that was asked for.
LEMMA AskAskedFields ==
  ASSUME TypeOK, NEW c, c = AskAsked, call \in Calls
  PROVE  /\ c \in Calls
         /\ c.kind = call.kind /\ c.task = "value" /\ c.floor = call.floor
         /\ c.k = call.asked /\ c.asked = call.asked
         /\ c.pc = IF pod.loaded[call.asked] THEN "version" ELSE "probe"
<1>1. PICK d : d = [call EXCEPT !.k = call.asked, !.todo = {}]
  OBVIOUS
<1>2. d \in Calls /\ d.kind = call.kind /\ d.floor = call.floor /\ d.k = call.asked
        /\ d.asked = call.asked
  BY <1>1 DEF Calls
<1>3. c = AskValue(d)
  BY <1>1 DEF AskAsked
<1> QED
  BY <1>2, <1>3, AskValueFields

\* refresh_all_if_stale_status: a recovery or another version and everything is read
\* again; no Redis, and there is no answer.
LEMMA StatusFields ==
  ASSUME TypeOK, Status
  PROVE  /\ call \in Calls /\ Shape(call) /\ call.kind = "check" /\ pod' \in Pods
         /\ pod'.held = pod.held /\ pod'.loaded = pod.loaded /\ pod'.known = pod.known
         /\ pod'.lastWrite = pod.lastWrite
         /\ pod.conn => pod'.conn /\ pod'.epoch = pod.epoch
         /\ pod.conn /\ pod.epoch = pod.lastEpoch => pod'.lastEpoch = pod'.epoch
         /\ \/ call' \in Refreshing(call)
            \/ call' = Idle
            \/ call' = AskAsked /\ version = pod.known
<1>1. call \in Calls /\ Shape(call) /\ call.kind = "check"
  BY Busy DEF Status, Shape
<1>2. CASE pod.epoch # pod.lastEpoch
  <2>1. pod' = [pod EXCEPT !.lastEpoch = pod.epoch, !.memo = None] /\ call' \in Refreshing(call)
    BY <1>2 DEF Status
  <2> QED
    BY <1>1, <1>2, <2>1 DEF TypeOK, Pods
<1>3. CASE pod.epoch = pod.lastEpoch
  <2>1. PICK q \in Ensured(pod) :
          \/ ~Answers(q) /\ pod' = q /\ call' = Idle
          \/ /\ Answers(q) /\ Drifted(q)
             /\ pod' = [q EXCEPT !.memo = None]
             /\ call' \in Refreshing(call)
          \/ /\ Answers(q) /\ ~Drifted(q)
             /\ pod' = q
             /\ call' = AskAsked
    BY <1>3 DEF Status
  <2>2. /\ q \in Pods
        /\ q.held = pod.held /\ q.loaded = pod.loaded /\ q.known = pod.known
        /\ q.lastEpoch = pod.lastEpoch /\ q.lastWrite = pod.lastWrite
        /\ pod.conn => q = pod
    BY <2>1, EnsuredFields DEF TypeOK
  <2>3. ~Drifted(q) => version = pod.known
    BY <2>2 DEF Drifted
  <2>4. CASE pod' = q
    BY <1>1, <1>3, <2>1, <2>2, <2>3, <2>4
  <2>5. CASE pod' = [q EXCEPT !.memo = None] /\ call' \in Refreshing(call)
    <3>1. /\ pod' \in Pods
          /\ pod'.held = q.held /\ pod'.loaded = q.loaded /\ pod'.known = q.known
          /\ pod'.lastEpoch = q.lastEpoch /\ pod'.lastWrite = q.lastWrite
          /\ pod'.conn = q.conn /\ pod'.epoch = q.epoch
      BY <2>2, <2>5 DEF Pods
    <3> QED
      BY <1>1, <1>3, <2>2, <2>5, <3>1
  <2> QED
    BY <2>1, <2>4, <2>5
<1> QED
  BY <1>2, <1>3

LEMMA StatusTyped == ASSUME TypeOK, Status PROVE TypeOK'
<1>1. call \in Calls /\ Shape(call) /\ call.kind = "check" /\ pod' \in Pods
  BY StatusFields
<1>2. call' \in Calls \cup {Idle} /\ (call' # Idle => Shape(call'))
  <2>1. CASE call' \in Refreshing(call)
    <3>1. call' \in Calls /\ call'.kind = "check" /\ call'.task = "refresh"
            /\ call'.pc = "probe"
      BY <1>1, <2>1, RefreshingFields
    <3> QED
      BY <3>1 DEF Shape, ReadPc
  <2>2. CASE call' = Idle
    BY <2>2
  <2>3. CASE call' = AskAsked
    <3>1. PICK c : c = AskAsked
      OBVIOUS
    <3>2. c \in Calls /\ c.kind = "check" /\ c.task = "value" /\ c.pc \in {"version", "probe"}
      BY <1>1, <3>1, AskAskedFields
    <3>3. Shape(c)
      BY <3>2 DEF Shape, ReadPc
    <3> QED
      BY <2>3, <3>1, <3>2, <3>3
  <2> QED
    BY <2>1, <2>2, <2>3, StatusFields
<1> QED
  BY <1>1, <1>2 DEF Status, TypeOK, stores, history

\* The last alignment of refresh_all and ensure_redis_sync.
LEMMA FinalFields ==
  ASSUME TypeOK, Final
  PROVE  /\ call \in Calls /\ Shape(call) /\ pod' \in Pods
         /\ pod'.held = pod.held /\ pod'.loaded = pod.loaded
         /\ pod'.lastEpoch = pod.lastEpoch /\ pod'.lastWrite = pod.lastWrite
         /\ pod.conn => pod'.conn /\ pod'.epoch = pod.epoch
         /\ pod.conn /\ "redis" \in up => pod'.known = version
         /\ over' = (over \/ \E k \in Keys : pod.loaded[k] /\ pod'.known > basis[k])
<1>1. call \in Calls /\ Shape(call)
  BY Busy DEF Final
<1>2. PICK q : q = [pod EXCEPT !.memo = None]
  OBVIOUS
<1>3. /\ q \in Pods /\ q.held = pod.held /\ q.loaded = pod.loaded /\ q.memo = None
      /\ q.lastEpoch = pod.lastEpoch /\ q.lastWrite = pod.lastWrite
      /\ q.conn = pod.conn /\ q.epoch = pod.epoch
  BY <1>2 DEF TypeOK, Pods
<1>4. PICK r \in ReadVersion(q) :
        /\ pod' = Aligned([r[1] EXCEPT !.known = r[2]])
        /\ over' = (over \/ \E k \in Keys : pod.loaded[k] /\ r[2] > basis[k])
  BY <1>2 DEF Final, FreshVersion
<1>5. /\ r[1] \in Pods /\ r[2] \in Nat
      /\ r[1].held = q.held /\ r[1].loaded = q.loaded
      /\ r[1].lastEpoch = q.lastEpoch /\ r[1].lastWrite = q.lastWrite
      /\ q.conn => r[1].conn /\ r[1].epoch = q.epoch
      /\ q.conn => r[2] = Version(q)
  BY <1>3, <1>4, ReadVersionFields
<1>6. PICK p : p = [r[1] EXCEPT !.known = r[2]]
  OBVIOUS
<1>7. /\ p \in Pods /\ p.held = r[1].held /\ p.loaded = r[1].loaded /\ p.known = r[2]
      /\ p.lastEpoch = r[1].lastEpoch /\ p.lastWrite = r[1].lastWrite
      /\ p.conn = r[1].conn /\ p.epoch = r[1].epoch
  BY <1>5, <1>6 DEF Pods
<1>8. /\ pod' \in Pods /\ pod'.held = p.held /\ pod'.loaded = p.loaded /\ pod'.known = r[2]
      /\ pod'.lastEpoch = p.lastEpoch /\ pod'.lastWrite = p.lastWrite
      /\ pod'.conn = p.conn /\ pod'.epoch = p.epoch
  BY <1>4, <1>6, <1>7, AlignedFields
<1>9. q.conn /\ "redis" \in up => Version(q) = version
  BY DEF Version, Answers
<1>10. pod.conn /\ "redis" \in up => pod'.known = version
  BY <1>3, <1>5, <1>8, <1>9
<1> QED
  BY <1>1, <1>3, <1>4, <1>5, <1>7, <1>8, <1>10

LEMMA FinalTyped == ASSUME TypeOK, Final PROVE TypeOK'
<1>1. call \in Calls /\ Shape(call) /\ pod' \in Pods
  BY FinalFields
<1>2. call' \in Calls \cup {Idle} /\ (call' # Idle => Shape(call'))
  <2>1. CASE call.kind = "check"
    <3>1. PICK c : c = AskAsked
      OBVIOUS
    <3>2. c \in Calls /\ c.kind = "check" /\ c.task = "value" /\ c.pc \in {"version", "probe"}
      BY <1>1, <2>1, <3>1, AskAskedFields
    <3>3. Shape(c)
      BY <3>2 DEF Shape, ReadPc
    <3> QED
      BY <2>1, <3>1, <3>2, <3>3 DEF Final
  <2>2. CASE call.kind # "check"
    BY <2>2 DEF Final
  <2> QED
    BY <2>1, <2>2
<1>3. over' \in BOOLEAN
  BY DEF Final
<1> QED
  BY <1>1, <1>2, <1>3 DEF Final, TypeOK, stores

LEMMA AnswerTyped == ASSUME TypeOK, Answer PROVE TypeOK'
BY DEF Answer, TypeOK, stores, history

\* ensure_redis_sync: Redis is there, or the pod gives up.
LEMMA HealthFields ==
  ASSUME TypeOK, Health
  PROVE  /\ call \in Calls /\ Shape(call) /\ pod' \in Pods
         /\ pod.conn /\ "redis" \in up => pod' = pod
         /\ pod'.held = pod.held /\ pod'.loaded = pod.loaded /\ pod'.known = pod.known
         /\ call' = Idle \/ call' = [call EXCEPT !.pc = "exists"]
<1>1. call \in Calls /\ Shape(call)
  BY Busy DEF Health
<1>2. PICK q \in Ensured(pod) :
        IF Answers(q) THEN pod' = q /\ call' = [call EXCEPT !.pc = "exists"]
        ELSE pod' = [q EXCEPT !.conn = FALSE] /\ call' = Idle
  BY DEF Health
<1>3. /\ q \in Pods
      /\ q.held = pod.held /\ q.loaded = pod.loaded /\ q.known = pod.known
      /\ pod.conn => q = pod
  BY <1>2, EnsuredFields DEF TypeOK
<1>4. [q EXCEPT !.conn = FALSE] \in Pods
  BY <1>3 DEF Pods
<1>5. /\ [q EXCEPT !.conn = FALSE].held = q.held
      /\ [q EXCEPT !.conn = FALSE].loaded = q.loaded
      /\ [q EXCEPT !.conn = FALSE].known = q.known
  BY <1>3 DEF Pods
<1>6. pod.conn /\ "redis" \in up => Answers(q)
  BY <1>3 DEF Answers
<1>7. CASE Answers(q)
  BY <1>1, <1>2, <1>3, <1>7
<1>8. CASE ~Answers(q)
  BY <1>1, <1>2, <1>3, <1>4, <1>5, <1>6, <1>8
<1> QED
  BY <1>7, <1>8

LEMMA HealthTyped == ASSUME TypeOK, Health PROVE TypeOK'
<1>1. call \in Calls /\ Shape(call) /\ pod' \in Pods
  BY HealthFields
<1>2. CASE call' = Idle
  BY <1>1, <1>2 DEF Health, TypeOK, stores, history
<1>3. CASE call' = [call EXCEPT !.pc = "exists"]
  <2>1. call' \in Calls /\ call'.kind = call.kind /\ call'.task = call.task
          /\ call'.pc = "exists"
    BY <1>1, <1>3, GotoFields DEF CallPcs
  <2>2. Shape(call')
    BY <1>1, <2>1 DEF Health, Shape, ReadPc
  <2> QED
    BY <1>1, <2>1, <2>2 DEF Health, TypeOK, stores, history
<1> QED
  BY <1>2, <1>3, HealthFields

LEMMA ExistsTyped == ASSUME TypeOK, Exists PROVE TypeOK'
<1>1. call \in Calls /\ Shape(call) /\ call.kind = "sync" /\ call.task = "write"
  BY Busy DEF Exists, Shape
<1>2. call' \in Calls /\ call' # Idle /\ Shape(call')
  <2>1. CASE call' \in NextKey(call, "exists", "final")
    <3>1. "exists" \in CallPcs /\ "final" \in CallPcs
      BY DEF CallPcs
    <3> QED
      BY <1>1, <2>1, <3>1, NextKeyShape
  <2>2. CASE call' = AskValue([call EXCEPT !.n = Finished])
    <3>1. PICK n \in Nat : n = Finished
      BY DEF Finished, TypeOK, Remotes
    <3>2. PICK c : c = [call EXCEPT !.n = n]
      OBVIOUS
    <3>3. c \in Calls /\ c.kind = "sync"
      BY <1>1, <3>1, <3>2 DEF Calls
    <3>4. call' = AskValue(c)
      BY <2>2, <3>1, <3>2
    <3> QED
      BY <3>3, <3>4, AskValueShape
  <2> QED
    BY <2>1, <2>2 DEF Exists
<1> QED
  BY <1>2 DEF Exists, TypeOK, stores, history

\* set_config in another pod, step by step.
LEMMA RemoteSetFields ==
  ASSUME TypeOK, NEW k \in Keys, RemoteSet(k)
  PROVE  /\ remote = Idle /\ writes' = writes + 1
         /\ redis' = IF "redis" \in up THEN [redis EXCEPT ![k] = writes + 1] ELSE redis
         /\ remote' \in Remotes /\ remote'.k = k /\ remote'.v = writes + 1
         /\ ~remote'.told
<1>1. PICK pc \in {"incr", "db"} : pc = IF "redis" \in up THEN "incr" ELSE "db"
  OBVIOUS
<1>2. PICK v \in Nat \ {0} : v = writes + 1
  BY DEF TypeOK
<1>3. remote' = [kind |-> "set", pc |-> pc, k |-> k, v |-> v, told |-> FALSE]
  BY <1>1, <1>2 DEF RemoteSet
<1>4. remote' \in Remotes
  BY <1>3 DEF Remotes
<1>5. remote'.k = k /\ remote'.v = v
  BY <1>3
<1>6. remote'.told = FALSE
  BY <1>3
<1> QED
  BY <1>2, <1>4, <1>5, <1>6 DEF RemoteSet

LEMMA RemoteIncrFields ==
  ASSUME TypeOK, RemoteIncr
  PROVE  /\ remote \in Remotes /\ remote' \in Remotes
         /\ remote'.k = remote.k /\ remote'.v = remote.v
         /\ version' = IF "redis" \in up THEN version + 1 ELSE version
<1>1. remote \in Remotes
  BY DEF RemoteIncr, TypeOK, Idle
<1>2. CASE "redis" \in up
  <2>0. ("redis" \in up) = TRUE
    BY <1>2
  <2>1. remote' = [remote EXCEPT !.pc = "db", !.told = TRUE]
    BY <2>0 DEF RemoteIncr
  <2> QED
    BY <1>1, <1>2, <2>1 DEF RemoteIncr, Remotes
<1>3. CASE "redis" \notin up
  <2>0. ("redis" \in up) = FALSE
    BY <1>3
  <2>1. remote' = [remote EXCEPT !.pc = "db", !.told = FALSE]
    BY <2>0 DEF RemoteIncr
  <2> QED
    BY <1>1, <1>3, <2>1 DEF RemoteIncr, Remotes
<1> QED
  BY <1>2, <1>3

LEMMA RemoteTyped ==
  ASSUME TypeOK, (\E k \in Keys : RemoteSet(k)) \/ RemoteIncr \/ RemoteDb
  PROVE  TypeOK'
<1>1. ASSUME NEW k \in Keys, RemoteSet(k) PROVE TypeOK'
  <2>1. /\ writes' = writes + 1
        /\ redis' = IF "redis" \in up THEN [redis EXCEPT ![k] = writes + 1] ELSE redis
        /\ remote' \in Remotes /\ remote'.v = writes + 1
    BY <1>1, RemoteSetFields
  <2>2. writes' \in Nat /\ remote'.v <= writes'
    BY <2>1 DEF TypeOK
  <2>3. redis' \in [Keys -> Nat \cup {None}]
    BY <2>1, <2>2 DEF TypeOK
  <2> QED
    BY <1>1, <2>1, <2>2, <2>3 DEF RemoteSet, TypeOK, history
<1>2. CASE RemoteIncr
  <2>1. /\ remote \in Remotes /\ remote' \in Remotes /\ remote'.v = remote.v
        /\ version' \in Nat
    BY <1>2, RemoteIncrFields DEF TypeOK
  <2> QED
    BY <1>2, <2>1, IdleIsNoCall DEF RemoteIncr, TypeOK, history
<1>3. CASE RemoteDb
  <2>1. remote \in Remotes /\ remote.k \in Keys /\ remote.v \in Nat
    BY <1>3 DEF RemoteDb, TypeOK, Idle, Remotes
  <2>2. db' \in [Keys -> Nat \cup {None}]
    BY <1>3, <2>1 DEF RemoteDb, TypeOK
  <2>3. settled' \in [Keys -> Nat]
    BY <1>3, <2>1, SettleTyped DEF RemoteDb
  <2>4. crossed' \in BOOLEAN /\ remote' = Idle
    BY <1>3 DEF RemoteDb
  <2> QED
    BY <1>3, <2>2, <2>3, <2>4 DEF RemoteDb, TypeOK
<1> QED
  BY <1>1, <1>2, <1>3

\* A pod that starts: nothing loaded, a call that loads the first setting.
LEMMA BootFields ==
  ASSUME NEW c \in Boots, version \in Nat
  PROVE  /\ c \in Calls /\ c # Idle /\ Shape(c) /\ c.kind = "boot" /\ c.task = "boot" /\ c.pc = "probe"
         /\ NewPod \in Pods
         /\ NewPod.loaded = [k \in Keys |-> FALSE] /\ NewPod.known = 0
         /\ NewPod.epoch = 0 /\ NewPod.lastEpoch = 0
         /\ "redis" \in up => NewPod.conn
<1>1. PICK first \in Keys :
        c = [kind |-> "boot", pc |-> "probe", task |-> "boot", k |-> first, v |-> 0, at |-> 0,
             n |-> 0, told |-> FALSE, asked |-> first, todo |-> Keys \ {first}, floor |-> 0]
  BY DEF Boots
<1>2. c \in Calls /\ c.kind = "boot" /\ c.task = "boot" /\ c.pc = "probe"
  BY <1>1 DEF Calls, CallPcs, ReadPc
<1>3. Shape(c)
  BY <1>2 DEF Shape, ReadPc
<1>4. ASSUME NEW conn \in BOOLEAN,
             NewPod = [held |-> [k \in Keys |-> 0], loaded |-> [k \in Keys |-> FALSE],
                       seen |-> [k \in Keys |-> 0], known |-> 0, memo |-> None, conn |-> conn,
                       epoch |-> 0, lastEpoch |-> 0, lastWrite |-> 0]
      PROVE  /\ NewPod \in Pods
             /\ NewPod.loaded = [k \in Keys |-> FALSE] /\ NewPod.known = 0
             /\ NewPod.epoch = 0 /\ NewPod.lastEpoch = 0
             /\ NewPod.conn = conn
  <2>1. NewPod \in Pods
    BY <1>4 DEF Pods
  <2>2. /\ NewPod.loaded = [k \in Keys |-> FALSE] /\ NewPod.known = 0
        /\ NewPod.epoch = 0 /\ NewPod.lastEpoch = 0
    BY <1>4
  <2>3. NewPod.conn = conn
    BY <1>4
  <2> QED
    BY <2>1, <2>2, <2>3
<1>5. CASE "redis" \in up
  <2>0. ("redis" \in up) = TRUE
    BY <1>5
  <2>1. NewPod = [held |-> [k \in Keys |-> 0], loaded |-> [k \in Keys |-> FALSE],
                  seen |-> [k \in Keys |-> 0], known |-> 0, memo |-> None, conn |-> TRUE,
                  epoch |-> 0, lastEpoch |-> 0, lastWrite |-> 0]
    BY <2>0 DEF NewPod, All
  <2> QED
    BY <1>2, <1>3, <1>4, <1>5, <2>1, IdleIsNoCall
<1>6. CASE "redis" \notin up
  <2>0. ("redis" \in up) = FALSE
    BY <1>6
  <2>1. NewPod = [held |-> [k \in Keys |-> 0], loaded |-> [k \in Keys |-> FALSE],
                  seen |-> [k \in Keys |-> 0], known |-> 0, memo |-> None, conn |-> FALSE,
                  epoch |-> 0, lastEpoch |-> 0, lastWrite |-> 0]
    BY <2>0 DEF NewPod, All
  <2> QED
    BY <1>2, <1>3, <1>4, <1>6, <2>1, IdleIsNoCall
<1> QED
  BY <1>5, <1>6

\* Stores that go and come back, keys that are lost, and a pod that starts again.
LEMMA OutsideTyped ==
  ASSUME TypeOK,
         \/ \E s \in {"redis", "db"} : Outage(s) \/ Heal(s)
         \/ \E k \in Keys : Lose(k)
         \/ Restart
  PROVE  TypeOK'
<1>1. ASSUME NEW s \in {"redis", "db"}, Outage(s) \/ Heal(s) PROVE TypeOK'
  <2>1. up' \subseteq {"redis", "db"}
    BY <1>1 DEF Outage, Heal, TypeOK
  <2>2. faults' \in Nat
    BY <1>1 DEF Outage, Heal, TypeOK
  <2> QED
    BY <1>1, <2>1, <2>2 DEF Outage, Heal, TypeOK, history
<1>2. ASSUME NEW k \in Keys, Lose(k) PROVE TypeOK'
  <2>1. redis' \in [Keys -> Nat \cup {None}] /\ faults' \in Nat
    BY <1>2 DEF Lose, TypeOK
  <2>2. crossed' \in BOOLEAN
    BY <1>2 DEF Lose
  <2> QED
    BY <1>2, <2>1, <2>2 DEF Lose, TypeOK
<1>3. CASE Restart
  <2>1. pod' = NewPod /\ call' \in Boots /\ basis' = All(0)
    BY <1>3 DEF Restart
  <2>2. call' \in Calls /\ Shape(call') /\ pod' \in Pods
    BY <2>1, BootFields DEF TypeOK
  <2>3. basis' \in [Keys -> Nat] /\ faults' \in Nat
    BY <1>3, <2>1 DEF All, Restart, TypeOK
  <2> QED
    BY <1>3, <2>2, <2>3 DEF Restart, TypeOK, stores
<1> QED
  BY <1>1, <1>2, <1>3

LEMMA Typed == TypeOK /\ [Next]_vars => TypeOK'
<1> SUFFICES ASSUME TypeOK, [Next]_vars PROVE TypeOK'
  OBVIOUS
<1>1. ASSUME NEW k \in Keys, Value(k) \/ Update(k) \/ Check(k) PROVE TypeOK'
  BY <1>1, BeginTyped
<1>2. CASE ValueVersion \/ Resolve \/ Through \/ Seen \/ Set \/ Incr \/ SetDb \/ Align
  BY <1>2, ValueVersionTyped, ResolveTyped, ThroughTyped, SeenTyped, SetTyped, IncrTyped,
     SetDbTyped, AlignTyped
<1>3. CASE Status \/ Final \/ Answer \/ Sync \/ Health \/ Exists
  BY <1>3, StatusTyped, FinalTyped, AnswerTyped, SyncTyped, HealthTyped, ExistsTyped
<1>4. CASE (\E k \in Keys : RemoteSet(k)) \/ RemoteIncr \/ RemoteDb
  BY <1>4, RemoteTyped
<1>5. CASE \/ \E s \in {"redis", "db"} : Outage(s) \/ Heal(s)
           \/ \E k \in Keys : Lose(k)
           \/ Restart
  BY <1>5, OutsideTyped
<1>6. CASE UNCHANGED vars
  BY <1>6 DEF TypeOK, vars, stores, history
<1> QED
  BY <1>1, <1>2, <1>3, <1>4, <1>5, <1>6 DEF Next

-----------------------------------------------------------------------------
\* A default is written where nothing is.

\* A call that does not write a default has nothing to promise.
LEMMA NothingUnset ==
  ASSUME call'.pc \notin WritePc \/ call'.task = "write"
  PROVE  Unset'
BY DEF Unset

\* Where a value leads: to an answer, a write of one's own, or nowhere.
LEMMA ValueDoneWrites ==
  ASSUME NEW c \in Calls, NEW d, d = ValueDone(c)
  PROVE  d.pc \notin WritePc \/ d.task = "write"
BY ValueDoneFields DEF WritePc, Idle

LEMMA NextKeyWrites ==
  ASSUME NEW c \in Calls, NEW pc \in {"probe", "exists"}, NEW d \in NextKey(c, pc, "final")
  PROVE  d.pc \in {pc, "final"} /\ d.pc \notin WritePc
BY NextKeyFields DEF CallPcs, ReadPc, WritePc

LEMMA ResolveUnset == ASSUME TypeOK, Resolve PROVE Unset'
<1>1. /\ call \in Calls /\ Shape(call)
      /\ call.task \in {"boot", "refresh", "value"}
  BY ResolveFields
<1>3. PICK q, got, c :
        /\ q \in Ensured(pod) /\ c \in Calls
        /\ Resolving(q, got, c) /\ LadderTells(got, q, call.k)
        /\ c.k = call.k /\ c.v = got.v /\ c.n = Finished
  BY ResolveFields, Zenon
<1>4. CASE got.status = "ok"
  <2>1. PICK pc \in {"through", "seen"} : call' = [c EXCEPT !.pc = pc]
    BY <1>3, <1>4 DEF Resolving
  <2>2. call'.pc = pc
    BY <1>3, <2>1 DEF Calls
  <2> QED
    BY <2>2, NothingUnset DEF WritePc
<1>5. CASE got.status = "missing"
  <2>1. call' = [c EXCEPT !.pc = "set"]
    BY <1>3, <1>5 DEF Resolving
  <2>2. call'.v = c.v /\ call'.n = c.n /\ call'.k = c.k
    BY <1>3, <2>1, GotoFields DEF CallPcs, WritePc
  <2>3. got.v = 0 /\ got.source # "db" /\ redis[call.k] = None /\ db[call.k] = None
    BY <1>3, <1>5 DEF LadderTells
  <2>4. redis' = redis /\ db' = db /\ writes' = writes /\ remote' = remote
    BY <1>3, <2>3 DEF Resolving, Resolve
  <2>5. Finished <= writes /\ (writes <= Finished => remote = Idle)
    BY DEF Finished, TypeOK, Remotes
  <2> QED
    BY <1>3, <2>2, <2>3, <2>4, <2>5 DEF Unset
<1>6. CASE got.status = "error"
  <2>1. CASE c.task = "boot" /\ call' = [c EXCEPT !.pc = "unread"]
    <3>1. call'.pc = "unread"
      BY <1>3, <2>1 DEF Calls
    <3> QED
      BY <3>1, NothingUnset DEF WritePc
  <2>2. CASE c.task = "refresh" /\ call' \in NextKey(c, "probe", "final")
    BY <1>3, <2>2, NextKeyWrites, NothingUnset
  <2>3. CASE c.task = "value" /\ call' = ValueDone(c)
    BY <1>3, <2>3, ValueDoneWrites, NothingUnset
  <2> QED
    BY <1>3, <1>6, <2>1, <2>2, <2>3 DEF Resolving
<1> QED
  BY <1>3, <1>4, <1>5, <1>6 DEF LadderTells

LEMMA SetUnset == ASSUME TypeOK, Unset, Set PROVE Unset'
<1>1. CASE call.task = "write"
  BY <1>1, SetFields, NothingUnset
<1>2. CASE call.task # "write"
  <2>1. /\ call'.task = call.task /\ call'.k = call.k /\ call'.n = call.n
        /\ call'.v = Writing(call) /\ call'.pc \in {"incr", "setdb"}
        /\ writes' = IF call'.v > writes THEN call'.v ELSE writes
    BY SetFields
  <2>2. call'.v = 0
    BY <1>2, <2>1 DEF Writing
  <2>3. writes' = writes
    BY <2>1, <2>2 DEF TypeOK
  <2>4. db' = db /\ remote' = remote /\ call.pc = "set"
    BY DEF Set
  <2> QED
    BY <1>2, <2>1, <2>2, <2>3, <2>4 DEF Unset, WritePc
<1> QED
  BY <1>1, <1>2

LEMMA IncrUnset == ASSUME TypeOK, Unset, Incr PROVE Unset'
<1>1. /\ call'.task = call.task /\ call'.k = call.k /\ call'.n = call.n /\ call'.v = call.v
      /\ call'.pc = "setdb"
  BY IncrFields
<1>2. db' = db /\ remote' = remote /\ writes' = writes /\ call.pc = "incr"
  BY DEF Incr
<1> QED
  BY <1>1, <1>2 DEF Unset, WritePc

\* The other steps of a call end before or after a default is written.
LEMMA CallUnset ==
  ASSUME TypeOK,
         \/ \E k \in Keys : Value(k) \/ Update(k) \/ Check(k)
         \/ ValueVersion \/ Through \/ Seen \/ SetDb \/ Align
         \/ Status \/ Final \/ Answer \/ Sync \/ Health \/ Exists
  PROVE  Unset'
<1>0. Idle.pc \notin WritePc
  BY DEF Idle, WritePc
<1>1. ASSUME NEW k \in Keys, Value(k) \/ Update(k) \/ Check(k) PROVE Unset'
  <2>1. PICK kind \in {"value", "update", "check"}, pc \in {"version", "probe", "status"} :
          Begin(kind, pc, "value", k)
    BY <1>1 DEF Value, Update, Check, ValuePc
  <2>2. call'.pc = pc
    BY <2>1, BeginFields DEF CallPcs, ReadPc
  <2> QED
    BY <2>2, NothingUnset DEF WritePc
<1>2. CASE ValueVersion
  <2>1. call \in Calls
    BY <1>2, Busy DEF ValueVersion
  <2>2. CASE call' = ValueDone(call)
    BY <2>1, <2>2, ValueDoneWrites, NothingUnset
  <2>3. CASE call' = [call EXCEPT !.pc = "probe"]
    <3>1. call'.pc = "probe"
      BY <2>1, <2>3 DEF Calls
    <3> QED
      BY <3>1, NothingUnset DEF WritePc
  <2> QED
    BY <1>2, <2>2, <2>3 DEF ValueVersion
<1>3. CASE Through
  <2>1. call' = [call EXCEPT !.pc = "seen"] /\ call \in Calls
    BY <1>3, Busy DEF Through
  <2>2. call'.pc = "seen"
    BY <2>1 DEF Calls
  <2> QED
    BY <2>2, NothingUnset DEF WritePc
<1>4. CASE Seen
  <2>1. call \in Calls
    BY <1>4, SeenFields
  <2> QED
    BY <1>0, <1>4, <2>1, NextKeyWrites, ValueDoneWrites, NothingUnset DEF Seen
<1>5. CASE SetDb
  <2>1. call \in Calls
    BY <1>5, Busy DEF SetDb
  <2>2. ASSUME NEW pc \in {"seen", "align"}, call' = [call EXCEPT !.pc = pc] PROVE Unset'
    <3>1. call'.pc = pc
      BY <2>1, <2>2 DEF Calls
    <3> QED
      BY <3>1, NothingUnset DEF WritePc
  <2> QED
    BY <1>5, <2>1, <2>2, NextKeyWrites, NothingUnset DEF SetDb
<1>6. CASE Align \/ Answer
  BY <1>0, <1>6, NothingUnset DEF Align, Answer
<1>7. CASE Status
  <2>1. call \in Calls
    BY <1>7, StatusFields
  <2>2. CASE call' \in Refreshing(call)
    <3>1. call'.pc = "probe"
      BY <2>1, <2>2, RefreshingFields
    <3> QED
      BY <3>1, NothingUnset DEF WritePc
  <2>3. CASE call' = AskAsked
    <3>1. PICK c : c = AskAsked
      OBVIOUS
    <3>2. c.pc \in {"version", "probe"}
      BY <2>1, <3>1, AskAskedFields
    <3> QED
      BY <2>3, <3>1, <3>2, NothingUnset DEF WritePc
  <2> QED
    BY <1>0, <1>7, <2>2, <2>3, StatusFields, NothingUnset
<1>8. CASE Final
  <2>1. call \in Calls
    BY <1>8, FinalFields
  <2>2. PICK c : c = AskAsked
    OBVIOUS
  <2>3. c.pc \in {"version", "probe"}
    BY <2>1, <2>2, AskAskedFields
  <2>4. call' = c \/ call' = Idle
    BY <1>8, <2>2 DEF Final
  <2> QED
    BY <1>0, <2>3, <2>4, NothingUnset DEF WritePc
<1>9. CASE Sync
  <2>1. PICK k \in Keys : Begin("sync", "health", "write", k)
    BY <1>9 DEF Sync
  <2>2. call'.pc = "health"
    BY <2>1, BeginFields DEF CallPcs
  <2> QED
    BY <2>2, NothingUnset DEF WritePc
<1>10. CASE Health
  <2>1. call \in Calls
    BY <1>10, HealthFields
  <2>2. CASE call' = [call EXCEPT !.pc = "exists"]
    <3>1. call'.pc = "exists"
      BY <2>1, <2>2 DEF Calls
    <3> QED
      BY <3>1, NothingUnset DEF WritePc
  <2> QED
    BY <1>0, <1>10, <2>2, HealthFields, NothingUnset
<1>11. CASE Exists
  <2>1. call \in Calls
    BY <1>11, Busy DEF Exists
  <2>2. CASE call' \in NextKey(call, "exists", "final")
    BY <2>1, <2>2, NextKeyWrites, NothingUnset
  <2>3. CASE call' = AskValue([call EXCEPT !.n = Finished])
    <3>1. PICK n \in Nat : n = Finished
      BY DEF Finished, TypeOK, Remotes
    <3>2. PICK c : c = [call EXCEPT !.n = n]
      OBVIOUS
    <3>3. c \in Calls
      BY <2>1, <3>1, <3>2 DEF Calls
    <3>4. call' = AskValue(c)
      BY <2>3, <3>1, <3>2
    <3>5. call'.pc \in {"version", "probe"}
      BY <3>3, <3>4, AskValueFields
    <3> QED
      BY <3>5, NothingUnset DEF WritePc
  <2> QED
    BY <1>11, <2>2, <2>3 DEF Exists
<1> QED
  BY <1>1, <1>2, <1>3, <1>4, <1>5, <1>6, <1>7, <1>8, <1>9, <1>10, <1>11

\* A write of another pod is counted before it is anywhere.
LEMMA OutsideUnset ==
  ASSUME TypeOK, Unset,
         \/ \E k \in Keys : RemoteSet(k)
         \/ RemoteIncr \/ RemoteDb
         \/ \E s \in {"redis", "db"} : Outage(s) \/ Heal(s)
         \/ \E k \in Keys : Lose(k)
         \/ Restart \/ UNCHANGED vars
  PROVE  Unset'
<1>0. call.pc \in WritePc => call.k \in Keys /\ call.n \in Nat
  BY Busy DEF WritePc, Calls
<1>1. CASE \E k \in Keys : RemoteSet(k)
  BY <1>0, <1>1 DEF RemoteSet, Unset, TypeOK
<1>2. CASE RemoteIncr
  BY <1>2 DEF RemoteIncr, Unset, Idle
<1>3. CASE RemoteDb
  BY <1>3 DEF RemoteDb, Unset, Idle
<1>4. CASE \E s \in {"redis", "db"} : Outage(s) \/ Heal(s)
  BY <1>4 DEF Outage, Heal, Unset
<1>5. CASE \E k \in Keys : Lose(k)
  <2>1. PICK k \in Keys : Lose(k)
    BY <1>5
  <2>2. call.pc \in WritePc /\ redis[call.k] = None => redis'[call.k] = None
    BY <1>0, <2>1 DEF Lose, TypeOK
  <2> QED
    BY <2>1, <2>2 DEF Lose, Unset
<1>6. CASE Restart
  <2>1. call'.pc = "probe"
    BY <1>6, BootFields DEF Restart, TypeOK
  <2> QED
    BY <2>1, NothingUnset DEF WritePc
<1>7. CASE UNCHANGED vars
  BY <1>7 DEF vars, stores, history, Unset
<1> QED
  BY <1>1, <1>2, <1>3, <1>4, <1>5, <1>6, <1>7

LEMMA UnsetKept == TypeOK /\ Unset /\ [Next]_vars => Unset'
<1> SUFFICES ASSUME TypeOK, Unset, [Next]_vars PROVE Unset'
  OBVIOUS
<1>1. CASE \/ \E k \in Keys : Value(k) \/ Update(k) \/ Check(k)
           \/ ValueVersion \/ Through \/ Seen \/ SetDb \/ Align
           \/ Status \/ Final \/ Answer \/ Sync \/ Health \/ Exists
  BY <1>1, CallUnset
<1>2. CASE Resolve \/ Set \/ Incr
  BY <1>2, ResolveUnset, SetUnset, IncrUnset
<1>3. CASE \/ \E k \in Keys : RemoteSet(k)
           \/ RemoteIncr \/ RemoteDb
           \/ \E s \in {"redis", "db"} : Outage(s) \/ Heal(s)
           \/ \E k \in Keys : Lose(k)
           \/ Restart \/ UNCHANGED vars
  BY <1>3, OutsideUnset
<1> QED
  BY <1>1, <1>2, <1>3 DEF Next

LEMMA InitTyped == Init => TypeOK /\ Unset
<1> SUFFICES ASSUME Init PROVE TypeOK /\ Unset
  OBVIOUS
<1>1. /\ redis \in [Keys -> Nat \cup {None}] /\ db \in [Keys -> Nat \cup {None}]
      /\ version \in Nat /\ writes \in Nat
  BY DEF Init, All
<1>2. up \subseteq {"redis", "db"} /\ faults \in Nat
  BY DEF Init
<1>3. call \in Calls /\ Shape(call) /\ call.pc = "probe" /\ pod \in Pods
  BY <1>1, BootFields DEF Init
<1>4. settled \in [Keys -> Nat] /\ basis \in [Keys -> Nat]
  BY DEF Init, All
<1>5. remote = Idle /\ over \in BOOLEAN /\ crossed \in BOOLEAN /\ blind \in BOOLEAN
  BY DEF Init
<1>6. Unset
  BY <1>3 DEF Unset, WritePc
<1> QED
  BY <1>1, <1>2, <1>3, <1>4, <1>5, <1>6 DEF TypeOK

\* The settings, the call and its writes are well formed, and a default is only being
\* written where no store has a value.
THEOREM ComposerTyped == Spec => [](TypeOK /\ Unset)
<1>1. Init => TypeOK /\ Unset
  BY InitTyped
<1>2. TypeOK /\ Unset /\ [Next]_vars => (TypeOK /\ Unset)'
  BY Typed, UnsetKept
<1> QED
  BY <1>1, <1>2, PTL DEF Spec

\* A store that keeps or drops what it has, or takes a value that is there or newer, loses
\* nothing to a default.
Spared(store, next) ==
  \A k \in Keys : ~(store[k] # None /\ store[k] > 0 /\ next[k] = 0)

LEMMA WriteSpares ==
  ASSUME NEW store \in [Keys -> Nat \cup {None}], NEW k \in Keys, NEW v \in Nat \cup {None},
         v # None => v > 0 \/ ~Older(v, store[k])
  PROVE  Spared(store, [store EXCEPT ![k] = v])
<1> DEFINE next == [store EXCEPT ![k] = v]
<1> SUFFICES ASSUME NEW j \in Keys PROVE ~(store[j] # None /\ store[j] > 0 /\ next[j] = 0)
  BY DEF Spared
<1>1. CASE j # k
  BY <1>1
<1>2. CASE j = k
  BY <1>2, ComposerAssumption DEF Older
<1> QED
  BY <1>1, <1>2

LEMMA SameSpares ==
  ASSUME NEW store \in [Keys -> Nat \cup {None}] PROVE Spared(store, store)
BY ComposerAssumption DEF Spared

LEMMA ResolveSpares == ASSUME TypeOK, Resolve PROVE Spared(redis, redis') /\ Spared(db, db')
<1>2. PICK q, got, c :
        /\ q \in Ensured(pod) /\ c \in Calls
        /\ Resolving(q, got, c) /\ LadderTells(got, q, call.k)
  BY ResolveFields, Zenon
<1>3. call.k \in Keys /\ got.v \in Nat
  BY <1>2, ResolveFields DEF Calls, LadderTells
<1>4. \/ redis' = redis
      \/ redis' = [redis EXCEPT ![call.k] = got.v] /\ redis[call.k] = None
  BY <1>2 DEF Resolving
<1>5. Spared(redis, redis')
  BY <1>3, <1>4, WriteSpares, SameSpares DEF TypeOK, Older
<1>6. db' = db
  BY DEF Resolve
<1> QED
  BY <1>5, <1>6, SameSpares DEF TypeOK

LEMMA SetSpares ==
  ASSUME TypeOK, Unset, Set, ~crossed', ~blind'
  PROVE  Spared(redis, redis') /\ Spared(db, db')
<1>0. call.n \in Nat /\ writes \in Nat
  BY SetFields DEF Calls, TypeOK
<1>1. /\ call \in Calls /\ Shape(call) /\ call'.v = Writing(call) /\ call'.v \in Nat
      /\ redis' = [redis EXCEPT ![call.k] = call'.v] \/ redis' = redis
  BY SetFields, WritingIsNat
<1>2. call.k \in Keys /\ call.pc = "set" /\ db' = db
  BY <1>1 DEF Calls, Set
<1>3. call'.v > 0 \/ ~Older(call'.v, redis[call.k])
  <2>1. CASE call.task = "write" /\ call.kind = "update"
    BY <1>1, <2>1 DEF Writing, TypeOK
  <2>2. CASE call.task = "write" /\ call.kind = "sync"
    BY <2>2 DEF Set
  <2>3. CASE call.task # "write"
    <3>0. ~Crossed
      BY DEF Set
    <3>1. writes <= call.n /\ remote = Idle
      BY <1>0, <2>3, <3>0 DEF Crossed
    <3>2. redis[call.k] = None
      BY <1>2, <2>3, <3>1 DEF Unset, WritePc
    <3> QED
      BY <3>2 DEF Older
  <2> QED
    BY <1>1, <2>1, <2>2, <2>3 DEF Shape
<1> QED
  BY <1>1, <1>2, <1>3, WriteSpares, SameSpares DEF TypeOK
LEMMA SetDbSpares ==
  ASSUME TypeOK, Unset, SetDb, ~crossed'
  PROVE  Spared(redis, redis') /\ Spared(db, db')
<1>0. call \in Calls /\ Shape(call) /\ call.k \in Keys /\ call.n \in Nat /\ writes \in Nat
  BY Busy DEF SetDb, Calls, TypeOK
<1>1. redis' = redis /\ call.pc = "setdb"
  BY DEF SetDb
<1>2. db' = db \/ (db' = [db EXCEPT ![call.k] = call.v] /\ "db" \in up)
  BY DEF SetDb
<1>3. "db" \in up => ~Older(call.v, db[call.k])
  <2>1. CASE call.task = "write"
    BY <2>1 DEF SetDb
  <2>2. CASE call.task # "write"
    <3>1. ~Crossed
      BY DEF SetDb
    <3>2. writes <= call.n
      BY <1>0, <2>2, <3>1 DEF Crossed
    <3>3. db[call.k] = None
      BY <1>1, <2>2, <3>2 DEF Unset, WritePc
    <3> QED
      BY <3>3 DEF Older
  <2> QED
    BY <2>1, <2>2
<1>4. call.v \in Nat
  BY <1>0 DEF Calls
<1> QED
  BY <1>0, <1>1, <1>2, <1>3, <1>4, WriteSpares, SameSpares DEF TypeOK

\* The other steps that write: the copy to the database, the writes of another pod, and
\* Redis losing a key.
LEMMA OtherSpares ==
  ASSUME TypeOK, ~crossed',
         Through \/ (\E k \in Keys : RemoteSet(k) \/ Lose(k)) \/ RemoteDb
  PROVE  Spared(redis, redis') /\ Spared(db, db')
<1>1. CASE Through
  <2>1. call \in Calls /\ call.k \in Keys /\ call.v \in Nat /\ redis' = redis
    BY <1>1, Busy DEF Through, Calls
  <2>2. \/ db' = db
        \/ db' = [db EXCEPT ![call.k] = call.v] /\ ~Older(call.v, db[call.k])
    BY <1>1 DEF Through
  <2> QED
    BY <2>1, <2>2, WriteSpares, SameSpares DEF TypeOK
<1>2. ASSUME NEW k \in Keys, RemoteSet(k) PROVE Spared(redis, redis') /\ Spared(db, db')
  <2>1. db' = db /\ (redis' = redis \/ redis' = [redis EXCEPT ![k] = writes + 1])
    BY <1>2, RemoteSetFields DEF RemoteSet
  <2>2. writes + 1 \in Nat /\ writes + 1 > 0
    BY DEF TypeOK
  <2> QED
    BY <2>1, <2>2, WriteSpares, SameSpares DEF TypeOK
<1>3. ASSUME NEW k \in Keys, Lose(k) PROVE Spared(redis, redis') /\ Spared(db, db')
  <2>1. db' = db /\ redis' = [redis EXCEPT ![k] = None]
    BY <1>3 DEF Lose
  <2> QED
    BY <2>1, WriteSpares, SameSpares DEF TypeOK
<1>4. CASE RemoteDb
  <2>1. remote.k \in Keys /\ remote.v \in Nat /\ remote.v > 0 /\ redis' = redis
    BY <1>4 DEF RemoteDb, TypeOK, Idle, Remotes
  <2>2. db' = db \/ db' = [db EXCEPT ![remote.k] = remote.v]
    BY <1>4 DEF RemoteDb
  <2> QED
    BY <2>1, <2>2, WriteSpares, SameSpares DEF TypeOK
<1> QED
  BY <1>1, <1>2, <1>3, <1>4

LEMMA StepSpares ==
  TypeOK /\ Unset /\ [Next]_vars => [~crossed' /\ ~blind' => ~Trampled]_vars
<1> SUFFICES ASSUME TypeOK, Unset, Next, ~crossed', ~blind'
             PROVE  Spared(redis, redis') /\ Spared(db, db')
  BY DEF Spared, Trampled
<1>1. CASE Resolve \/ Set \/ SetDb
  BY <1>1, ResolveSpares, SetSpares, SetDbSpares
<1>2. CASE Through \/ (\E k \in Keys : RemoteSet(k) \/ Lose(k)) \/ RemoteDb
  BY <1>2, OtherSpares
<1>3. ASSUME redis' = redis, db' = db PROVE Spared(redis, redis') /\ Spared(db, db')
  BY <1>3, SameSpares DEF TypeOK
<1>4. CASE \/ \E k \in Keys : Value(k) \/ Update(k) \/ Check(k)
           \/ ValueVersion \/ Seen \/ Incr \/ Align
  BY <1>3, <1>4 DEF Value, Update, Check, ValueVersion, Seen, Incr, Align, stores
<1>5. CASE Status \/ Final \/ Answer \/ Sync \/ Health \/ Exists
  BY <1>3, <1>5 DEF Status, Final, Answer, Sync, Health, Exists, stores
<1>6. CASE \/ RemoteIncr \/ Restart
           \/ \E s \in {"redis", "db"} : Outage(s) \/ Heal(s)
  BY <1>3, <1>6 DEF RemoteIncr, Restart, Outage, Heal, stores
<1> QED
  BY <1>1, <1>2, <1>4, <1>5, <1>6 DEF Next

\* What an administrator has set is never replaced by a default because a store did not
\* answer (_resolve, set_config), unless writes cross or ensure_redis_sync wrote blindly.
THEOREM DefaultsOverwriteNothing == Spec => DefaultReplacesNothing
<1>1. TypeOK /\ Unset /\ [Next]_vars => [~crossed' /\ ~blind' => ~Trampled]_vars
  BY StepSpares
<1>2. Spec => [](TypeOK /\ Unset)
  BY ComposerTyped
<1> QED
  BY <1>1, <1>2, PTL DEF Spec, DefaultReplacesNothing

-----------------------------------------------------------------------------
\* Without faults, crossings and early alignments the pod holds what it believes in.

LEMMA StaysCalm == TypeOK /\ [Next]_vars /\ Calm' => Calm
<1> SUFFICES ASSUME TypeOK, [Next]_vars, Calm' PROVE Calm
  OBVIOUS
<1>0. ASSUME faults' = faults, crossed => crossed', blind => blind', over => over' PROVE Calm
  BY <1>0 DEF Calm
<1>1. CASE \E k \in Keys : Value(k) \/ Update(k) \/ Check(k) \/ RemoteSet(k)
  BY <1>0, <1>1 DEF Value, Update, Check, RemoteSet, history
<1>2. CASE ValueVersion \/ Resolve
  BY <1>0, <1>2 DEF ValueVersion, Resolve, history
<1>3. CASE Through \/ Seen \/ Set
  BY <1>0, <1>3 DEF Through, Seen, Set
<1>4. CASE Incr \/ SetDb \/ Align
  BY <1>0, <1>4 DEF Incr, SetDb, Align
<1>5. CASE Status \/ Final \/ Answer
  BY <1>0, <1>5 DEF Status, Final, Answer, history
<1>6. CASE Sync \/ Health \/ Exists
  BY <1>0, <1>6 DEF Sync, Health, Exists, history
<1>7. CASE RemoteIncr \/ RemoteDb \/ \E s \in {"redis", "db"} : Heal(s)
  BY <1>0, <1>7 DEF RemoteIncr, RemoteDb, Heal, history
<1>8. CASE \/ \E s \in {"redis", "db"} : Outage(s)
           \/ \E k \in Keys : Lose(k)
           \/ Restart
  BY <1>8 DEF Outage, Lose, Restart, TypeOK, Calm
<1>9. CASE UNCHANGED vars
  BY <1>0, <1>9 DEF vars, history
<1> QED
  BY <1>1, <1>2, <1>3, <1>4, <1>5, <1>6, <1>7, <1>8, <1>9 DEF Next

\* In a pod that is connected everything it asks is answered.
LEMMA ConnectedAnswers ==
  ASSUME TypeOK, Connected
  PROVE  /\ Answers(pod) /\ Version(pod) = version /\ pod \in Pods
         /\ "redis" \in up /\ "db" \in up
         /\ \A q \in Ensured(pod) : q = pod
BY EnsuredFields DEF Connected, Answers, Version, TypeOK

\* A call that is not a check has nothing to answer.
LEMMA NothingChecked == ASSUME call'.kind # "check" PROVE Checked'
BY DEF Checked

\* A step that leaves the stores, the history and what the pod holds alone, between two
\* points where the call has no value in hand.
LEMMA Frame ==
  ASSUME TypeOK, CalmInv,
         redis' = redis, version' = version, up' = up, remote' = remote,
         writes' = writes, settled' = settled, basis' = basis,
         pod'.held = pod.held, pod'.loaded = pod.loaded, pod'.lastWrite = pod.lastWrite,
         pod'.conn, pod'.epoch = pod'.lastEpoch,
         \/ pod'.known = pod.known
         \/ pod'.known <= version /\ \A k \in Keys : pod.loaded[k] => pod'.known <= basis[k],
         call.pc \notin {"setdb", "align"},
         call'.pc \notin {"through", "seen", "incr", "setdb", "align"},
         call'.pc = "set" => call'.task = "write",
         Checked'
  PROVE  CalmInv'
<1>1. Connected'
  BY DEF CalmInv, Connected
<1>2. InRedis'
  BY DEF CalmInv, InRedis, Has
<1>3. Numbered'
  BY DEF CalmInv, Numbered
<1>4. Based'
  <2>1. ~Holding'
    BY DEF Holding
  <2>2. pod'.known <= version /\ \A k \in Keys : pod.loaded[k] => pod'.known <= basis[k]
    BY DEF CalmInv, Based
  <2>3. ASSUME NEW k \in Keys, pod.loaded[k], Newer(k, pod.held[k]) PROVE basis[k] < version
    BY <2>3 DEF CalmInv, Based, OwnWrite
  <2>4. ASSUME NEW k \in Keys, pod'.loaded[k], Newer(k, pod.held[k])' PROVE basis'[k] < version'
    <3>1. Newer(k, pod.held[k])
      BY <2>4 DEF Newer
    <3> QED
      BY <2>3, <2>4, <3>1
  <2>5. pod'.lastWrite <= version /\ \A k \in Keys : basis[k] <= version
    BY DEF CalmInv, Based
  <2> QED
    BY <2>1, <2>2, <2>3, <2>4, <2>5 DEF Based
<1>5. SyncHolds'
  BY DEF SyncHolds
<1> QED
  BY <1>1, <1>2, <1>3, <1>4, <1>5 DEF CalmInv
\* A new call: a check remembers what had reached everything by then.
LEMMA BeginCalm ==
  ASSUME TypeOK, CalmInv, NEW k \in Keys, Value(k) \/ Update(k) \/ Check(k)
  PROVE  CalmInv'
<1>1. PICK kind \in {"value", "update", "check"}, pc \in {"version", "probe", "status"} :
        /\ Begin(kind, pc, "value", k)
        /\ kind = "check" => pc = "status"
  BY DEF Value, Update, Check, ValuePc
<1>2. /\ call'.kind = kind /\ call'.pc = pc /\ call'.task = "value"
      /\ call'.k = k /\ call'.asked = k
      /\ call'.floor = IF kind = "check" THEN settled[k] ELSE 0
  BY <1>1, BeginFields DEF CallPcs, ReadPc
<1>3. /\ stores' = stores /\ pod' = pod /\ remote' = remote /\ writes' = writes
      /\ settled' = settled /\ basis' = basis
  BY DEF Value, Update, Check, history
<1>4. Checked'
  BY <1>1, <1>2, <1>3 DEF Checked, Holding, TypeOK
<1>5. call.pc = "idle" /\ pod.conn /\ pod.epoch = pod.lastEpoch
  BY <1>1, IdleIsNoCall DEF Begin, CalmInv, Connected
<1> QED
  BY <1>2, <1>3, <1>4, <1>5, Frame DEF stores

LEMMA SyncCalm == ASSUME TypeOK, CalmInv, Sync PROVE CalmInv'
<1>1. PICK k \in Keys : Begin("sync", "health", "write", k)
  BY DEF Sync
<1>2. call'.kind = "sync" /\ call'.pc = "health"
  BY <1>1, BeginFields DEF CallPcs, ReadPc
<1>3. /\ stores' = stores /\ pod' = pod /\ remote' = remote /\ writes' = writes
      /\ settled' = settled /\ basis' = basis
  BY DEF Sync, history
<1>4. call.pc = "idle" /\ pod.conn /\ pod.epoch = pod.lastEpoch
  BY <1>1, IdleIsNoCall DEF Begin, CalmInv, Connected
<1> QED
  BY <1>2, <1>3, <1>4, NothingChecked, Frame DEF stores

\* The sentinel has not moved, and the value is the one held; or it is read again.
LEMMA ValueVersionCalm == ASSUME TypeOK, CalmInv, ValueVersion PROVE CalmInv'
<1>1. call \in Calls /\ call.pc = "version" /\ call.task = "value" /\ pod \in Pods
  BY Busy DEF ValueVersion, Shape, TypeOK
<1>2. /\ stores' = stores /\ remote' = remote /\ writes' = writes
      /\ settled' = settled /\ basis' = basis
  BY DEF ValueVersion, history
<1>3. /\ pod'.held = pod.held /\ pod'.loaded = pod.loaded /\ pod'.known = pod.known
      /\ pod'.lastWrite = pod.lastWrite /\ pod'.conn /\ pod'.epoch = pod'.lastEpoch
  BY <1>1, ReadVersionFields DEF ValueVersion, CalmInv, Connected
<1>4. call' = ValueDone(call) \/ call' = [call EXCEPT !.pc = "probe"]
  BY DEF ValueVersion
<1>5. CASE call' = ValueDone(call)
  <2>1. CASE call' = Idle
    BY <1>1, <1>2, <1>3, <2>1, IdleIsNoCall, NothingChecked, Frame DEF Idle, stores
  <2>2. CASE call.kind \in {"update", "sync"} /\ call'.kind = call.kind
             /\ call'.task = "write" /\ call'.pc = "set"
    BY <1>1, <1>2, <1>3, <2>2, NothingChecked, Frame DEF stores
  <2>3. CASE /\ call.kind = "check" /\ call'.kind = call.kind /\ call'.floor = call.floor
             /\ call'.k = call.k /\ call'.asked = call.asked
             /\ call'.task = call.task /\ call'.pc = "answer"
    <3>1. Checked'
      BY <1>1, <1>2, <1>3, <2>3 DEF CalmInv, Checked, Answered, Holding
    <3> QED
      BY <1>1, <1>2, <1>3, <2>3, <3>1, Frame DEF stores
  <2> QED
    BY <1>1, <1>5, <2>1, <2>2, <2>3, ValueDoneFields
<1>6. CASE call' = [call EXCEPT !.pc = "probe"]
  <2>1. /\ call'.kind = call.kind /\ call'.task = call.task /\ call'.pc = "probe"
        /\ call'.k = call.k /\ call'.asked = call.asked /\ call'.floor = call.floor
    BY <1>1, <1>6, GotoFields DEF CallPcs, ReadPc
  <2>2. Checked'
    BY <1>1, <1>2, <1>3, <2>1 DEF CalmInv, Checked, Holding
  <2> QED
    BY <1>1, <1>2, <1>3, <2>1, <2>2, Frame DEF stores
<1> QED
  BY <1>4, <1>5, <1>6

\* The setting that was asked for is current when nothing was written since, or when
\* refresh_all has been through.
LEMMA AskedChecked ==
  ASSUME TypeOK, CalmInv, call \in Calls, call.kind = "check", call' = AskAsked,
         settled' = settled, pod'.held = pod.held, pod'.loaded = pod.loaded, Answered
  PROVE  /\ Checked'
         /\ call'.pc \in {"version", "probe"}
<1>1. PICK c : c = AskAsked
  OBVIOUS
<1>2. /\ c.kind = call.kind /\ c.task = "value" /\ c.floor = call.floor
      /\ c.k = call.asked /\ c.asked = call.asked
      /\ c.pc \in {"version", "probe"}
  BY <1>1, AskAskedFields
<1>3. call' = c
  BY <1>1
<1> QED
  BY <1>2, <1>3 DEF CalmInv, Checked, Answered, Holding

LEMMA StatusCalm == ASSUME TypeOK, CalmInv, Status PROVE CalmInv'
<1>1. /\ call \in Calls /\ Shape(call) /\ call.kind = "check" /\ pod' \in Pods
      /\ pod'.held = pod.held /\ pod'.loaded = pod.loaded /\ pod'.known = pod.known
      /\ pod'.lastWrite = pod.lastWrite /\ pod'.conn /\ pod'.epoch = pod'.lastEpoch
  BY StatusFields DEF CalmInv, Connected
<1>2. /\ stores' = stores /\ remote' = remote /\ writes' = writes
      /\ settled' = settled /\ basis' = basis /\ call.pc = "status"
  BY DEF Status, history
<1>3. CASE call' = Idle
  BY <1>1, <1>2, <1>3, NothingChecked, Frame DEF Idle, stores
<1>4. CASE call' \in Refreshing(call)
  <2>1. PICK d \in Calls : /\ call' = d
          /\ d.kind = call.kind /\ d.task = "refresh" /\ d.pc = "probe"
          /\ d.asked = call.asked /\ d.floor = call.floor /\ d.todo = Keys \ {d.k}
    BY <1>1, <1>4, RefreshingFields
  <2>2. d.asked \in Keys
    BY <2>1 DEF Calls
  <2>3. Checked'
    BY <1>1, <1>2, <2>1, <2>2 DEF CalmInv, Checked, Holding
  <2> QED
    BY <1>1, <1>2, <2>1, <2>3, Frame DEF stores
<1>5. CASE call' = AskAsked /\ version = pod.known
  <2>1. call.asked \in Keys /\ call.floor \in Nat
    BY <1>1 DEF Calls
  <2>2. Answered
    <3>1. SUFFICES ASSUME pod.loaded[call.asked] PROVE pod.held[call.asked] >= call.floor
      BY DEF Answered
    <3>2. pod.known <= basis[call.asked]
      BY <2>1, <3>1 DEF CalmInv, Based
    <3>3. ~(basis[call.asked] < version)
      BY <1>5, <2>1, <3>2 DEF TypeOK
    <3>4. ~Newer(call.asked, pod.held[call.asked])
      BY <1>2, <2>1, <3>1, <3>3 DEF CalmInv, Based, OwnWrite
    <3>5. ~(settled[call.asked] > pod.held[call.asked])
      BY <3>4 DEF Newer
    <3>6. call.floor <= settled[call.asked]
      BY <1>1 DEF CalmInv, Checked
    <3>7. pod.held[call.asked] \in Nat /\ settled[call.asked] \in Nat
      BY <2>1 DEF TypeOK, Pods
    <3> QED
      BY <2>1, <3>5, <3>6, <3>7
  <2>3. Checked' /\ call'.pc \in {"version", "probe"}
    BY <1>1, <1>2, <1>5, <2>2, AskedChecked
  <2> QED
    BY <1>1, <1>2, <2>3, Frame DEF stores
<1> QED
  BY <1>3, <1>4, <1>5, StatusFields

LEMMA FinalCalm == ASSUME TypeOK, CalmInv, Final, ~over' PROVE CalmInv'
<1>1. /\ call \in Calls /\ Shape(call) /\ pod' \in Pods
      /\ pod'.held = pod.held /\ pod'.loaded = pod.loaded
      /\ pod'.lastWrite = pod.lastWrite /\ pod'.conn /\ pod'.epoch = pod'.lastEpoch
      /\ pod'.known = version
  BY FinalFields DEF CalmInv, Connected
<1>2. /\ stores' = stores /\ remote' = remote /\ writes' = writes
      /\ settled' = settled /\ basis' = basis /\ call.pc = "final"
  BY DEF Final
<1>3. \A k \in Keys : pod.loaded[k] => ~(pod'.known > basis[k])
  BY FinalFields
<1>4. pod'.known <= version /\ \A k \in Keys : pod.loaded[k] => pod'.known <= basis[k]
  BY <1>1, <1>3 DEF TypeOK
<1>5. CASE call.kind = "check"
  <2>1. call' = AskAsked /\ Answered
    BY <1>2, <1>5 DEF Final, CalmInv, Checked
  <2>2. Checked' /\ call'.pc \in {"version", "probe"}
    BY <1>1, <1>2, <1>5, <2>1, AskedChecked
  <2> QED
    BY <1>1, <1>2, <1>4, <2>2, Frame DEF stores
<1>6. CASE call.kind # "check"
  <2>1. call' = Idle
    BY <1>6 DEF Final
  <2> QED
    BY <1>1, <1>2, <1>4, <2>1, NothingChecked, Frame DEF Idle, stores
<1> QED
  BY <1>5, <1>6

\* The answer is given, Redis is looked at, and a setting that is in it is passed over.
LEMMA AnswerCalm == ASSUME TypeOK, CalmInv, Answer PROVE CalmInv'
<1>1. pod.conn /\ pod.epoch = pod.lastEpoch
  BY DEF CalmInv, Connected
<1>2. call' = Idle /\ pod' = pod /\ stores' = stores /\ remote' = remote /\ writes' = writes
      /\ settled' = settled /\ basis' = basis /\ call.pc = "answer"
  BY DEF Answer, history
<1> QED
  BY <1>1, <1>2, NothingChecked, Frame DEF Idle, stores

LEMMA HealthCalm == ASSUME TypeOK, CalmInv, Health PROVE CalmInv'
<1>1. call \in Calls /\ call.kind = "sync" /\ call.pc = "health"
  BY HealthFields DEF Health, Shape
<1>2. pod' = pod /\ pod.conn /\ pod.epoch = pod.lastEpoch
  BY HealthFields DEF CalmInv, Connected
<1>3. stores' = stores /\ remote' = remote /\ writes' = writes
      /\ settled' = settled /\ basis' = basis
  BY DEF Health, history
<1>4. CASE call' = Idle
  BY <1>1, <1>2, <1>3, <1>4, NothingChecked, Frame DEF Idle, stores
<1>5. CASE call' = [call EXCEPT !.pc = "exists"]
  <2>1. call'.kind = "sync" /\ call'.pc = "exists"
    BY <1>1, <1>5, GotoFields DEF CallPcs
  <2> QED
    BY <1>1, <1>2, <1>3, <2>1, NothingChecked, Frame DEF stores
<1> QED
  BY <1>4, <1>5, HealthFields

LEMMA ExistsCalm == ASSUME TypeOK, CalmInv, Exists PROVE CalmInv'
<1>1. call \in Calls /\ call.kind = "sync" /\ call.pc = "exists"
  BY Busy DEF Exists, Shape
<1>2. pod.conn /\ pod.epoch = pod.lastEpoch
  BY DEF CalmInv, Connected
<1>3. stores' = stores /\ pod' = pod /\ remote' = remote /\ writes' = writes
      /\ settled' = settled /\ basis' = basis
  BY DEF Exists, history
<1>4. CASE call' \in NextKey(call, "exists", "final")
  <2>1. call'.kind = "sync" /\ call'.pc \in {"exists", "final"}
    BY <1>1, <1>4, NextKeyFields DEF CallPcs
  <2> QED
    BY <1>1, <1>2, <1>3, <2>1, NothingChecked, Frame DEF stores
<1>5. CASE call' = AskValue([call EXCEPT !.n = Finished])
  <2>1. PICK n \in Nat : n = Finished
    BY DEF Finished, TypeOK, Remotes
  <2>2. PICK c : c = [call EXCEPT !.n = n]
    OBVIOUS
  <2>3. c \in Calls /\ c.kind = "sync"
    BY <1>1, <2>1, <2>2 DEF Calls
  <2>4. call' = AskValue(c)
    BY <1>5, <2>1, <2>2
  <2>5. call'.kind = "sync" /\ call'.pc \in {"version", "probe"}
    BY <2>3, <2>4, AskValueFields
  <2> QED
    BY <1>1, <1>2, <1>3, <2>5, NothingChecked, Frame DEF stores
<1> QED
  BY <1>4, <1>5 DEF Exists
\* What is settled, or told by another pod, is in Redis: where Redis has nothing, or v and
\* nothing newer, no write is newer than v.
LEMMA NothingNewer ==
  ASSUME TypeOK, InRedis, NEW k \in Keys, NEW v \in Nat,
         redis[k] = None \/ v >= redis[k]
  PROVE  ~Newer(k, v) /\ settled[k] <= v /\ (remote # Idle /\ remote.k = k => remote.v <= v)
<1>1. /\ redis[k] \in Nat \cup {None} /\ settled[k] \in Nat
      /\ remote # Idle => remote \in Remotes
  BY DEF TypeOK
<1>2. settled[k] <= v
  BY <1>1, ComposerAssumption DEF InRedis, Has
<1>3. ASSUME remote # Idle, remote.k = k PROVE remote.v <= v
  <2>1. remote.v \in Nat
    BY <1>1, <1>3 DEF Remotes
  <2>2. remote.v = 0 \/ (redis[k] # None /\ redis[k] >= remote.v)
    BY <1>3 DEF InRedis, Has
  <2> QED
    BY <1>1, <2>1, <2>2, ComposerAssumption
<1>4. ~Newer(k, v)
  <2>1. remote # Idle => remote.v \in Nat
    BY <1>1 DEF Remotes
  <2> QED
    BY <1>1, <1>2, <1>3, <2>1 DEF Newer
<1> QED
  BY <1>2, <1>3, <1>4

\* With both stores there the ladder finds the value that Redis has, or nothing newer.
LEMMA ResolveCalm == ASSUME TypeOK, CalmInv, Resolve PROVE CalmInv'
<1>0. /\ Answers(pod) /\ Version(pod) = version /\ pod \in Pods
      /\ "redis" \in up /\ "db" \in up
      /\ \A q \in Ensured(pod) : q = pod
  BY ConnectedAnswers DEF CalmInv
<1>1. /\ call \in Calls /\ Shape(call) /\ call.pc = "probe" /\ call.k \in Keys
      /\ call.task \in {"boot", "refresh", "value"}
  BY ResolveFields DEF Resolve, Calls
<1>3. PICK q, got, c :
        /\ q \in Ensured(pod) /\ c \in Calls
        /\ Resolving(q, got, c) /\ LadderTells(got, q, call.k)
        /\ c.kind = call.kind /\ c.task = call.task /\ c.k = call.k
        /\ c.asked = call.asked /\ c.todo = call.todo /\ c.floor = call.floor
        /\ c.v = got.v /\ c.at = Version(q) /\ c.n = Finished
  BY ResolveFields, Zenon
<1>4. q = pod /\ c.at = version
  BY <1>0, <1>3
<1>5. got.status \in {"ok", "missing"}
  BY <1>0, <1>3, <1>4 DEF LadderTells
<1>6. pod' = pod
  BY <1>3, <1>4, <1>5 DEF Resolving
<1>7. PICK pc \in {"through", "seen", "set"} : call' = [c EXCEPT !.pc = pc]
  BY <1>3, <1>5 DEF Resolving
<1>8. /\ call'.kind = call.kind /\ call'.task = call.task /\ call'.k = call.k
      /\ call'.asked = call.asked /\ call'.todo = call.todo /\ call'.floor = call.floor
      /\ call'.v = got.v /\ call'.at = version /\ call'.pc = pc
  BY <1>3, <1>4, <1>7, GotoFields DEF CallPcs, ReadPc, WritePc
<1>9. /\ db' = db /\ version' = version /\ up' = up /\ remote' = remote /\ writes' = writes
      /\ settled' = settled /\ basis' = basis
  BY DEF Resolve, history
<1>10. got.v \in Nat /\ (redis[call.k] = None \/ got.v >= redis[call.k])
  <2>1. CASE got.source = "redis"
    BY <1>1, <1>3, <2>1 DEF LadderTells, TypeOK
  <2>2. CASE got.source # "redis"
    BY <1>0, <1>3, <1>4, <1>5, <2>2 DEF LadderTells
  <2> QED
    BY <1>3, <2>1, <2>2 DEF LadderTells
<1>11. /\ ~Newer(call.k, got.v) /\ settled[call.k] <= got.v
  BY <1>1, <1>10, NothingNewer DEF CalmInv
<1>12. Connected'
  BY <1>6, <1>9 DEF CalmInv, Connected
<1>13. InRedis'
  <2>1. ASSUME NEW k \in Keys, NEW v, Has(k, v) PROVE Has(k, v)'
    BY <1>3, <2>1 DEF Has, Resolving, TypeOK
  <2>2. remote # Idle => remote.k \in Keys
    BY DEF TypeOK, Remotes
  <2> QED
    BY <1>8, <1>9, <2>1, <2>2 DEF CalmInv, InRedis, Has
<1>14. Numbered'
  BY <1>8, <1>9 DEF CalmInv, Numbered
<1>15. Based'
  <2>1. ~Newer(call.k, got.v)'
    BY <1>8, <1>9, <1>11 DEF Newer
  <2>2. pod.known <= version
    BY DEF CalmInv, Based
  <2>3. Holding' => pod'.known <= call'.at /\ call'.at <= version'
                    /\ (Newer(call.k, call.v)' => call'.at < version')
    BY <1>6, <1>8, <1>9, <2>1, <2>2 DEF Newer, TypeOK
  <2>4. ASSUME NEW k \in Keys, pod.loaded[k], Newer(k, pod.held[k])'
        PROVE  basis[k] < version
    BY <1>1, <1>6, <1>9, <2>4 DEF CalmInv, Based, OwnWrite, Newer
  <2> QED
    BY <1>6, <1>9, <2>3, <2>4 DEF CalmInv, Based
<1>16. SyncHolds'
  BY <1>8 DEF SyncHolds
<1>17. Checked'
  <2>1. settled[call.k] \in Nat /\ call.floor \in Nat
    BY <1>1 DEF TypeOK, Calls
  <2> QED
    BY <1>1, <1>6, <1>8, <1>9, <1>10, <1>11, <2>1 DEF CalmInv, Checked, Answered, Holding
<1> QED
  BY <1>12, <1>13, <1>14, <1>15, <1>16, <1>17 DEF CalmInv

LEMMA ThroughCalm == ASSUME TypeOK, CalmInv, Through PROVE CalmInv'
<1>1. call \in Calls /\ call.pc = "through"
  BY Busy DEF Through
<1>2. /\ call'.kind = call.kind /\ call'.task = call.task /\ call'.k = call.k
      /\ call'.asked = call.asked /\ call'.todo = call.todo /\ call'.floor = call.floor
      /\ call'.v = call.v /\ call'.at = call.at /\ call'.pc = "seen"
  BY <1>1, GotoFields DEF Through, CallPcs, ReadPc
<1>3. /\ redis' = redis /\ version' = version /\ up' = up /\ pod' = pod /\ remote' = remote
      /\ writes' = writes /\ settled' = settled /\ basis' = basis
  BY DEF Through
<1>4. Connected'
  BY <1>3 DEF CalmInv, Connected
<1>5. InRedis'
  BY <1>2, <1>3 DEF CalmInv, InRedis, Has
<1>6. Numbered'
  BY <1>2, <1>3 DEF CalmInv, Numbered
<1>7. Based'
  BY <1>1, <1>2, <1>3 DEF CalmInv, Based, Newer, Holding, OwnWrite
<1>8. SyncHolds'
  BY <1>2 DEF SyncHolds
<1>9. Checked'
  BY <1>1, <1>2, <1>3 DEF CalmInv, Checked, Answered, Holding
<1> QED
  BY <1>4, <1>5, <1>6, <1>7, <1>8, <1>9 DEF CalmInv

\* The setting that was read is current, and the loop has it behind it.
LEMMA SeenChecked == ASSUME TypeOK, CalmInv, Seen PROVE Checked'
<1>0. /\ call \in Calls /\ Shape(call) /\ call.pc \in {"seen", "unread"}
      /\ call.k \in Keys /\ call.asked \in Keys /\ call.floor \in Nat /\ call.v \in Nat
  BY SeenFields DEF Seen, Calls
<1>1. CASE call.kind # "check"
  <2>1. \/ call' = Idle
        \/ call' \in NextKey(call, "probe", "final")
        \/ call' = ValueDone(call)
    BY DEF Seen
  <2>2. call'.kind # "check"
    <3>1. CASE call' \in NextKey(call, "probe", "final")
      BY <1>0, <1>1, <3>1, NextKeyFields DEF CallPcs, ReadPc
    <3>2. CASE call' = ValueDone(call)
      BY <1>0, <1>1, <3>2, ValueDoneFields DEF Idle
    <3>3. CASE call' = Idle
      BY <3>3 DEF Idle
    <3> QED
      BY <2>1, <3>1, <3>2, <3>3
  <2> QED
    BY <2>2, NothingChecked
<1>2. CASE call.kind = "check"
  <2>1. call.pc = "seen" /\ call.task \in {"refresh", "value"}
    BY <1>0, <1>2 DEF Shape, ReadPc, Calls
  <2>2. /\ pod'.held = [pod.held EXCEPT ![call.k] = call.v]
        /\ pod'.loaded = [pod.loaded EXCEPT ![call.k] = TRUE]
        /\ settled' = settled /\ pod \in Pods
    BY <2>1, SeenFields DEF Seen, TypeOK
  <2>3. call.k = call.asked => pod'.held[call.asked] >= call.floor
    BY <1>0, <1>2, <2>1, <2>2 DEF CalmInv, Checked, Holding, Pods
  <2>4. call.k # call.asked => /\ pod'.held[call.asked] = pod.held[call.asked]
                               /\ pod'.loaded[call.asked] = pod.loaded[call.asked]
    BY <1>0, <2>2 DEF Pods
  <2>5. CASE call.task = "refresh"
    <3>1. call' \in NextKey(call, "probe", "final")
      BY <2>1, <2>5 DEF Seen
    <3>2. /\ call'.kind = "check" /\ call'.task = "refresh" /\ call'.floor = call.floor
          /\ call'.asked = call.asked
          /\ \/ call'.pc = "final" /\ call.todo = {} /\ call'.k = call.k /\ call'.todo = {}
             \/ call'.pc = "probe" /\ call'.k \in call.todo /\ call'.todo = call.todo \ {call'.k}
      BY <1>0, <1>2, <2>5, <3>1, NextKeyFields DEF CallPcs, ReadPc
    <3>3. call.asked \notin call.todo => Answered'
      <4>1. call.asked \notin call.todo /\ call.k # call.asked => Answered
        BY <1>2, <2>5 DEF CalmInv, Checked
      <4> QED
        BY <2>3, <2>4, <3>2, <4>1 DEF Answered
    <3> QED
      BY <1>2, <2>2, <3>2, <3>3 DEF CalmInv, Checked, Holding
  <2>6. CASE call.task = "value"
    <3>1. call' = ValueDone(call)
      BY <2>6 DEF Seen
    <3>2. /\ call'.kind = "check" /\ call'.task = "value" /\ call'.floor = call.floor
          /\ call'.k = call.k /\ call'.asked = call.asked /\ call'.pc = "answer"
      BY <1>0, <1>2, <2>6, <3>1, ValueDoneFields
    <3>3. Answered' /\ call.k = call.asked
      BY <1>2, <2>3, <2>6, <3>2 DEF CalmInv, Checked, Answered
    <3> QED
      BY <1>2, <2>2, <3>2, <3>3 DEF CalmInv, Checked, Holding
  <2> QED
    BY <2>1, <2>5, <2>6
<1> QED
  BY <1>1, <1>2

\* A value that is kept was read at the version that is noted for it.
LEMMA SeenCalm == ASSUME TypeOK, CalmInv, Seen PROVE CalmInv'
<1>0. /\ call \in Calls /\ Shape(call) /\ call.pc \in {"seen", "unread"}
      /\ call.k \in Keys /\ call.v \in Nat /\ call.at \in Nat
  BY SeenFields DEF Seen, Calls
<1>1. /\ redis' = redis /\ version' = version /\ up' = up /\ remote' = remote
      /\ writes' = writes /\ settled' = settled
  BY DEF Seen, stores
<1>2. /\ pod'.held = IF call.pc = "seen" THEN [pod.held EXCEPT ![call.k] = call.v] ELSE pod.held
      /\ pod'.loaded = IF call.pc = "seen" THEN [pod.loaded EXCEPT ![call.k] = TRUE]
                       ELSE pod.loaded
      /\ pod'.known = pod.known /\ pod'.lastWrite = pod.lastWrite
      /\ pod'.conn /\ pod'.epoch = pod'.lastEpoch
      /\ pod \in Pods
  BY SeenFields DEF CalmInv, Connected, TypeOK
<1>3. call'.pc \in {"idle", "probe", "final", "set", "answer"}
      /\ (call'.pc = "set" => call'.task = "write")
  <2>1. \/ call' = Idle
        \/ call' \in NextKey(call, "probe", "final")
        \/ call' = ValueDone(call)
    BY DEF Seen
  <2>2. CASE call' \in NextKey(call, "probe", "final")
    BY <1>0, <2>2, NextKeyFields DEF CallPcs, ReadPc
  <2>3. CASE call' = ValueDone(call)
    BY <1>0, <2>3, ValueDoneFields DEF Idle
  <2>4. CASE call' = Idle
    BY <2>4 DEF Idle
  <2> QED
    BY <2>1, <2>2, <2>3, <2>4
<1>4. Connected'
  BY <1>1, <1>2 DEF CalmInv, Connected
<1>5. InRedis'
  BY <1>1, <1>3 DEF CalmInv, InRedis, Has
<1>6. Numbered'
  BY <1>1, <1>3 DEF CalmInv, Numbered
<1>7. Based'
  <2>0. ~Holding'
    BY <1>3 DEF Holding
  <2>1. \A k, v : Newer(k, v)' <=> Newer(k, v)
    BY <1>1 DEF Newer
  <2>2. ASSUME NEW k \in Keys, ~(call.pc = "seen" /\ k = call.k)
        PROVE  /\ pod'.held[k] = pod.held[k] /\ pod'.loaded[k] = pod.loaded[k]
               /\ basis'[k] = basis[k]
    BY <1>0, <1>2, <2>2 DEF Seen, TypeOK, Pods
  <2>3. ASSUME call.pc = "seen"
        PROVE  /\ pod'.held[call.k] = call.v /\ basis'[call.k] = call.at
               /\ pod.known <= call.at /\ call.at <= version
               /\ Newer(call.k, call.v) => call.at < version
    BY <1>0, <1>2, <2>3 DEF Seen, TypeOK, Pods, CalmInv, Based, Holding
  <2>4. pod'.known <= version' /\ pod'.lastWrite <= version'
    BY <1>1, <1>2 DEF CalmInv, Based
  <2>5. ASSUME NEW k \in Keys PROVE basis'[k] <= version'
    BY <1>1, <2>2, <2>3 DEF CalmInv, Based
  <2>6. ASSUME NEW k \in Keys, pod'.loaded[k]
        PROVE  /\ pod'.known <= basis'[k]
               /\ Newer(k, pod'.held[k]) => basis'[k] < version
    <3>1. CASE call.pc = "seen" /\ k = call.k
      BY <1>2, <2>3, <3>1
    <3>2. CASE ~(call.pc = "seen" /\ k = call.k)
      BY <1>0, <1>2, <2>2, <2>6, <3>2 DEF CalmInv, Based, OwnWrite
    <3> QED
      BY <3>1, <3>2
  <2>7. ASSUME NEW k \in Keys, pod'.loaded[k]
        PROVE  /\ pod'.known <= basis'[k]
               /\ Newer(k, pod.held[k])' => basis'[k] < version'
    BY <1>1, <2>6, <2>7 DEF Newer
  <2> QED
    BY <2>0, <2>4, <2>5, <2>7 DEF Based
<1>8. SyncHolds'
  BY <1>3 DEF SyncHolds
<1> QED
  BY <1>4, <1>5, <1>6, <1>7, <1>8, SeenChecked DEF CalmInv

\* A default is 0, and goes where there is nothing.
LEMMA DefaultIsUnset ==
  ASSUME TypeOK, Unset, call.pc \in WritePc, call.task # "write", ~Crossed
  PROVE  call.v = 0 /\ writes <= call.n /\ remote = Idle /\ (call.pc = "set" => redis[call.k] = None)
<1>1. call.n \in Nat /\ writes \in Nat
  BY Busy DEF WritePc, Calls, TypeOK
<1>2. writes <= call.n
  BY <1>1 DEF Crossed
<1> QED
  BY <1>2 DEF Unset

\* What set_config is about to write is newer than everything in Redis, or the same.
LEMMA SetIsNewest ==
  ASSUME TypeOK, Unset, CalmInv, Set, ~crossed', ~blind'
  PROVE  redis[call.k] = None \/ call'.v >= redis[call.k] \/ call'.v > writes
<1>1. /\ call \in Calls /\ Shape(call) /\ call'.v = Writing(call) /\ call'.v \in Nat
      /\ call.pc = "set" /\ call.k \in Keys /\ writes \in Nat
  BY SetFields, WritingIsNat DEF Set, Calls, TypeOK
<1>2. CASE call.task = "write" /\ call.kind = "update"
  BY <1>1, <1>2 DEF Writing
<1>3. CASE call.task = "write" /\ call.kind = "sync"
  <2>1. ~Older(call'.v, redis[call.k])
    BY <1>3 DEF Set
  <2>2. call'.v # None
    BY <1>1, ComposerAssumption
  <2>3. redis[call.k] \in Nat \cup {None}
    BY <1>1 DEF TypeOK
  <2> QED
    BY <1>1, <2>1, <2>2, <2>3 DEF Older
<1>4. CASE call.task # "write"
  <2>1. ~Crossed
    BY DEF Set
  <2> QED
    BY <1>1, <1>4, <2>1, DefaultIsUnset DEF WritePc
<1> QED
  BY <1>1, <1>2, <1>3, <1>4 DEF Shape

LEMMA SetCalm == ASSUME TypeOK, Unset, CalmInv, Set, ~crossed', ~blind' PROVE CalmInv'
<1>0. /\ Answers(pod) /\ pod \in Pods
      /\ \A q \in Ensured(pod) : q = pod
  BY ConnectedAnswers DEF CalmInv
<1>1. /\ call \in Calls /\ Shape(call) /\ call.pc = "set" /\ call.k \in Keys
      /\ call'.kind = call.kind /\ call'.task = call.task /\ call'.k = call.k
      /\ call'.asked = call.asked /\ call'.todo = call.todo /\ call'.floor = call.floor
      /\ call'.v = Writing(call) /\ call'.v \in Nat
      /\ call'.at = IF call.task = "write" THEN version ELSE call.at
  BY SetFields, WritingIsNat DEF Set, Calls
<1>2. pod' = pod /\ redis' = [redis EXCEPT ![call.k] = call'.v] /\ call'.pc = "incr"
  BY <1>0, SetFields
<1>3. writes' = IF call'.v > writes THEN call'.v ELSE writes
  BY SetFields
<1>4. /\ version' = version /\ up' = up /\ remote' = remote
      /\ settled' = settled /\ basis' = basis
  BY DEF Set
<1>5. writes \in Nat /\ writes' \in Nat /\ call'.v <= writes' /\ writes <= writes'
  BY <1>1, <1>3 DEF TypeOK
<1>6. redis'[call.k] = call'.v /\ \A k \in Keys : k # call.k => redis'[k] = redis[k]
  BY <1>1, <1>2 DEF TypeOK
<1>7. ASSUME NEW v \in Nat, v <= writes, Has(call.k, v) PROVE v <= call'.v
  <2>1. redis[call.k] \in Nat \cup {None}
    BY <1>1 DEF TypeOK
  <2> QED
    BY <1>1, <1>5, <1>7, <2>1, SetIsNewest, ComposerAssumption DEF Has
<1>8. settled[call.k] <= call'.v
  BY <1>1, <1>7 DEF CalmInv, InRedis, Numbered, TypeOK
<1>9. remote # Idle /\ remote.k = call.k => remote.v <= call'.v
  <2>1. SUFFICES ASSUME remote # Idle, remote.k = call.k PROVE remote.v <= call'.v
    OBVIOUS
  <2>2. remote.v \in Nat /\ remote.v <= writes
    BY <2>1 DEF TypeOK, Remotes
  <2>3. Has(call.k, remote.v)
    BY <2>1 DEF CalmInv, InRedis
  <2> QED
    BY <1>7, <2>2, <2>3
<1>10. Connected'
  BY <1>2, <1>4 DEF CalmInv, Connected
<1>11. InRedis'
  <2>1. ASSUME NEW k \in Keys PROVE Has(k, settled[k])'
    <3>1. CASE k = call.k
      BY <1>1, <1>4, <1>6, <1>8, <3>1, ComposerAssumption DEF Has
    <3>2. CASE k # call.k
      BY <1>4, <1>6, <3>2 DEF CalmInv, InRedis, Has
    <3> QED
      BY <3>1, <3>2
  <2>2. remote' # Idle => Has(remote.k, remote.v)'
    <3>1. SUFFICES ASSUME remote # Idle PROVE Has(remote.k, remote.v)'
      BY <1>4
    <3>2. remote.k \in Keys
      BY <3>1 DEF TypeOK, Remotes
    <3>3. CASE remote.k = call.k
      BY <1>1, <1>4, <1>6, <1>9, <3>1, <3>3, ComposerAssumption DEF Has
    <3>4. CASE remote.k # call.k
      BY <1>4, <1>6, <3>1, <3>2, <3>4 DEF CalmInv, InRedis, Has
    <3> QED
      BY <3>3, <3>4
  <2>3. Has(call.k, call.v)'
    BY <1>1, <1>6, ComposerAssumption DEF Has
  <2> QED
    BY <2>1, <2>2, <2>3 DEF InRedis
<1>12. Numbered'
  <2>1. ASSUME NEW k \in Keys PROVE settled'[k] <= writes'
    BY <1>4, <1>5 DEF CalmInv, Numbered, TypeOK
  <2> QED
    BY <1>2, <1>5, <2>1 DEF Numbered
<1>13. Based'
  <2>1. ASSUME NEW k \in Keys, pod.loaded[k], Newer(k, pod.held[k])'
        PROVE  basis[k] < version
    BY <1>1, <1>2, <1>4, <2>1 DEF CalmInv, Based, OwnWrite, Newer
  <2>2. CASE call.task = "write"
    <3>1. call'.at = version /\ pod.known <= version /\ version \in Nat
      BY <1>1, <2>2 DEF CalmInv, Based, TypeOK
    <3>2. ~Newer(call.k, call.v)'
      <4>1. settled[call.k] \in Nat /\ (remote # Idle => remote.v \in Nat)
        BY <1>1 DEF TypeOK, Remotes
      <4> QED
        BY <1>1, <1>4, <1>8, <1>9, <4>1 DEF Newer
    <3> QED
      BY <1>2, <1>4, <2>1, <3>1, <3>2 DEF CalmInv, Based
  <2>3. CASE call.task # "write"
    <3>1. ~Crossed
      BY DEF Set
    <3>2. call.v = 0
      BY <1>1, <2>3, <3>1, DefaultIsUnset DEF WritePc
    <3>3. call'.v = 0 /\ call'.at = call.at
      BY <1>1, <2>3 DEF Writing
    <3>4. Holding
      BY <1>1, <2>3 DEF Holding
    <3>5. /\ pod.known <= call.at /\ call.at <= version
          /\ Newer(call.k, 0) => call.at < version
      BY <3>2, <3>4 DEF CalmInv, Based
    <3>6. Newer(call.k, call.v)' => Newer(call.k, 0)
      BY <1>1, <1>4, <3>3 DEF Newer
    <3> QED
      BY <1>2, <1>4, <2>1, <3>3, <3>5, <3>6 DEF CalmInv, Based
  <2> QED
    BY <2>2, <2>3
<1>14. SyncHolds'
  BY <1>1, <1>2 DEF SyncHolds, Writing
<1>15. Checked'
  <2>1. CASE call.kind = "check"
    <3>1. call.task # "write"
      BY <1>1, <2>1 DEF Shape
    <3>2. ~Crossed
      BY DEF Set
    <3>3. call.v = 0
      BY <1>1, <3>1, <3>2, DefaultIsUnset DEF WritePc
    <3>4. call'.v = 0
      BY <1>1, <3>1 DEF Writing
    <3>5. Holding
      BY <1>1, <3>1 DEF Holding
    <3>6. call.k = call.asked => 0 >= call.floor
      BY <2>1, <3>3, <3>5 DEF CalmInv, Checked
    <3> QED
      BY <1>1, <1>2, <1>4, <2>1, <3>4, <3>6 DEF CalmInv, Checked, Answered
  <2>2. CASE call.kind # "check"
    BY <1>1, <2>2, NothingChecked
  <2> QED
    BY <2>1, <2>2
<1> QED
  BY <1>10, <1>11, <1>12, <1>13, <1>14, <1>15 DEF CalmInv

\* After INCR what was current before it is current at the version after it.
LEMMA IncrCalm == ASSUME TypeOK, CalmInv, Incr PROVE CalmInv'
<1>0. Answers(pod) /\ pod \in Pods /\ version \in Nat /\ pod.known \in Nat
  BY ConnectedAnswers DEF CalmInv, Pods, TypeOK
<1>1. /\ call \in Calls /\ call.pc = "incr"
      /\ call'.kind = call.kind /\ call'.task = call.task /\ call'.pc = "setdb"
      /\ call'.k = call.k /\ call'.v = call.v
      /\ call'.asked = call.asked /\ call'.todo = call.todo /\ call'.floor = call.floor
  BY IncrFields DEF Incr
<1>2. /\ version' = version + 1 /\ basis' = Moved
      /\ call'.at = IF call.at = version THEN version + 1 ELSE call.at
      /\ pod' = [pod EXCEPT !.lastWrite = version + 1]
  BY <1>0, IncrFields
<1>3. /\ pod'.held = pod.held /\ pod'.loaded = pod.loaded /\ pod'.known = pod.known
      /\ pod'.conn = pod.conn /\ pod'.epoch = pod.epoch /\ pod'.lastEpoch = pod.lastEpoch
      /\ pod'.lastWrite = version + 1
  BY <1>0, <1>2 DEF Pods
<1>4. /\ redis' = redis /\ up' = up /\ remote' = remote /\ writes' = writes
      /\ settled' = settled
  BY DEF Incr
<1>5. Connected'
  BY <1>3, <1>4 DEF CalmInv, Connected
<1>6. InRedis'
  BY <1>1, <1>4 DEF CalmInv, InRedis, Has
<1>7. Numbered'
  BY <1>0, <1>1, <1>3, <1>4 DEF CalmInv, Numbered
<1>8. Based'
  <2>1. ASSUME NEW k \in Keys
        PROVE  /\ basis[k] \in Nat /\ basis[k] <= version
               /\ basis'[k] = IF basis[k] = version THEN version + 1 ELSE basis[k]
    BY <1>2 DEF Moved, TypeOK, CalmInv, Based
  <2>2. ASSUME NEW k \in Keys, pod.loaded[k] PROVE pod.known <= basis'[k]
    <3>1. pod.known <= basis[k]
      BY <2>2 DEF CalmInv, Based
    <3> QED
      BY <1>0, <2>1, <3>1
  <2>3. ASSUME NEW k \in Keys, pod.loaded[k], Newer(k, pod.held[k])'
        PROVE  basis'[k] < version'
    <3>1. basis[k] < version
      BY <1>1, <1>3, <1>4, <2>3 DEF CalmInv, Based, OwnWrite, Newer
    <3> QED
      BY <1>0, <1>2, <2>1, <3>1
  <2>4. /\ pod.known <= call.at /\ call.at <= version
        /\ Newer(call.k, call.v) => call.at < version
    BY <1>1 DEF CalmInv, Based, Holding
  <2>5. call.at \in Nat
    BY <1>1 DEF Calls
  <2>6. /\ pod.known <= call'.at /\ call'.at <= version'
        /\ Newer(call.k, call.v) => call'.at < version'
    BY <1>0, <1>2, <2>4, <2>5
  <2>7. Newer(call.k, call.v)' => Newer(call.k, call.v)
    BY <1>1, <1>4 DEF Newer
  <2>8. pod'.known <= version' /\ pod'.lastWrite <= version'
    BY <1>0, <1>2, <1>3 DEF CalmInv, Based
  <2>9. ASSUME NEW k \in Keys PROVE basis'[k] <= version'
    BY <1>0, <1>2, <2>1
  <2> QED
    BY <1>3, <2>2, <2>3, <2>6, <2>7, <2>8, <2>9 DEF Based
<1>9. SyncHolds'
  BY <1>1, <1>3 DEF CalmInv, SyncHolds
<1>10. Checked'
  BY <1>1, <1>3, <1>4 DEF CalmInv, Checked, Answered, Holding
<1> QED
  BY <1>5, <1>6, <1>7, <1>8, <1>9, <1>10 DEF CalmInv

\* Where a call goes after its row is written, and what it still has in hand.
LEMMA SetDbFields ==
  ASSUME TypeOK, SetDb
  PROVE  /\ call \in Calls /\ Shape(call) /\ call'.kind = call.kind
         /\ \/ /\ call.task # "write" /\ call'.pc = "seen"
               /\ call'.task = call.task /\ call'.k = call.k /\ call'.v = call.v
               /\ call'.at = call.at /\ call'.asked = call.asked /\ call'.todo = call.todo
               /\ call'.floor = call.floor
            \/ call.task = "write" /\ call.kind = "sync" /\ call'.pc \in {"exists", "final"}
            \/ /\ call.task = "write" /\ call.kind = "update" /\ call'.pc = "align"
               /\ call'.task = "write" /\ call'.k = call.k /\ call'.v = call.v
               /\ call'.at = call.at
<1>1. call \in Calls /\ Shape(call)
  BY Busy DEF SetDb
<1>2. CASE call.task # "write"
  <2>1. call' = [call EXCEPT !.pc = "seen"]
    BY <1>2 DEF SetDb
  <2>2. PICK d : d = [call EXCEPT !.pc = "seen"]
    OBVIOUS
  <2> QED
    BY <1>1, <1>2, <2>1, <2>2, GotoFields DEF CallPcs, ReadPc
<1>3. CASE call.task = "write" /\ call.kind = "sync"
  <2>1. call' \in NextKey(call, "exists", "final")
    BY <1>3 DEF SetDb
  <2> QED
    BY <1>1, <1>3, <2>1, NextKeyFields DEF CallPcs
<1>4. CASE call.task = "write" /\ call.kind = "update"
  <2>1. call' = [call EXCEPT !.pc = "align"]
    BY <1>4 DEF SetDb
  <2>2. PICK d : d = [call EXCEPT !.pc = "align"]
    OBVIOUS
  <2> QED
    BY <1>1, <1>4, <2>1, <2>2, GotoFields DEF CallPcs
<1> QED
  BY <1>1, <1>2, <1>3, <1>4 DEF Shape

\* Now the write has reached everything; the value held is that one, or update_config is
\* about to take it.
LEMMA SetDbCalm == ASSUME TypeOK, Unset, CalmInv, SetDb, ~crossed' PROVE CalmInv'
<1>1. /\ call \in Calls /\ Shape(call) /\ call.pc = "setdb" /\ call'.kind = call.kind
      /\ call.k \in Keys /\ call.v \in Nat
  BY SetDbFields DEF SetDb, Calls
<1>2. /\ redis' = redis /\ version' = version /\ up' = up /\ pod' = pod /\ remote' = remote
      /\ writes' = writes /\ basis' = basis
  BY DEF SetDb
<1>3. /\ settled \in [Keys -> Nat]
      /\ \/ settled' = settled
         \/ settled' = [settled EXCEPT ![call.k] = call.v] /\ call.v > settled[call.k]
  BY DEF SetDb, Settle, TypeOK
<1>4. call'.pc \in {"seen", "exists", "final", "align"}
  BY SetDbFields
<1>5. call.v <= writes /\ pod.lastWrite > 0 /\ Has(call.k, call.v)
  BY <1>1 DEF CalmInv, Numbered, InRedis
<1>6. call.task # "write" => call.v = 0 /\ settled' = settled
  <2>1. SUFFICES ASSUME call.task # "write" PROVE call.v = 0 /\ settled' = settled
    OBVIOUS
  <2>2. ~Crossed
    BY DEF SetDb
  <2>3. call.v = 0
    BY <1>1, <2>1, <2>2, DefaultIsUnset DEF WritePc
  <2>4. settled[call.k] \in Nat
    BY <1>1, <1>3
  <2> QED
    BY <1>3, <2>3, <2>4
<1>7. Connected'
  BY <1>2 DEF CalmInv, Connected
<1>8. InRedis'
  <2>1. ASSUME NEW k \in Keys PROVE Has(k, settled'[k])
    <3>1. CASE k = call.k
      BY <1>1, <1>3, <1>5, <3>1 DEF CalmInv, InRedis
    <3>2. CASE k # call.k
      BY <1>3, <3>2 DEF CalmInv, InRedis
    <3> QED
      BY <3>1, <3>2
  <2>2. ASSUME NEW k \in Keys PROVE Has(k, settled[k])'
    BY <1>2, <2>1 DEF Has
  <2>3. remote' # Idle => Has(remote.k, remote.v)'
    BY <1>2 DEF CalmInv, InRedis, Has
  <2> QED
    BY <1>4, <2>2, <2>3 DEF InRedis
<1>9. Numbered'
  <2>1. ASSUME NEW k \in Keys PROVE settled'[k] <= writes
    BY <1>1, <1>3, <1>5 DEF CalmInv, Numbered
  <2>2. call'.pc = "align" => call'.v = call.v
    BY SetDbFields
  <2> QED
    BY <1>2, <1>4, <1>5, <2>1, <2>2 DEF Numbered
<1>10. Based'
  <2>1. ASSUME NEW k \in Keys, NEW w \in Nat, Newer(k, w)'
        PROVE  Newer(k, w) \/ (k = call.k /\ call.v > w /\ call.task = "write")
    <3>1. CASE remote # Idle /\ remote.told /\ remote.k = k /\ remote.v > w
      BY <3>1 DEF Newer
    <3>2. CASE settled'[k] > w
      BY <1>1, <1>3, <1>6, <3>2 DEF Newer
    <3> QED
      BY <1>2, <2>1, <3>1, <3>2 DEF Newer
  <2>2. ASSUME NEW k \in Keys, pod.loaded[k], Newer(k, pod.held[k])'
        PROVE  basis[k] < version \/ OwnWrite(k)'
    <3>0. pod.held[k] \in Nat
      BY <2>2 DEF TypeOK, Pods
    <3>1. CASE call.task = "write" /\ call.kind = "update"
      <4>1. call'.pc = "align" /\ call'.kind = "update" /\ call'.task = "write"
            /\ call'.k = call.k
        BY <3>1, SetDbFields
      <4>2. CASE k = call.k
        BY <4>1, <4>2 DEF OwnWrite
      <4>3. CASE k # call.k
        <5>1. Newer(k, pod.held[k])
          BY <1>2, <1>3, <2>2, <4>3 DEF Newer
        <5> QED
          BY <2>2, <4>3, <5>1 DEF CalmInv, Based, OwnWrite
      <4> QED
        BY <4>2, <4>3
    <3>2. CASE ~(call.task = "write" /\ call.kind = "update")
      <4>1. k = call.k /\ call.task = "write" => call.v = pod.held[k]
        BY <1>1, <3>2 DEF CalmInv, SyncHolds, Shape
      <4>2. PICK w \in Nat : w = pod.held[k]
        BY <3>0
      <4>3. Newer(k, w)'
        BY <1>2, <2>2, <4>2 DEF Newer
      <4>4. Newer(k, w)
        BY <2>1, <4>1, <4>2, <4>3
      <4> QED
        BY <2>2, <3>2, <4>2, <4>4 DEF CalmInv, Based, OwnWrite
    <3> QED
      BY <3>1, <3>2
  <2>3. /\ pod.known <= call.at /\ call.at <= version
        /\ Newer(call.k, call.v) => call.at < version
    BY <1>1 DEF CalmInv, Based, Holding
  <2>4. ASSUME Holding'
        PROVE  /\ pod.known <= call'.at /\ call'.at <= version
               /\ Newer(call.k, call.v)' => call'.at < version
    <3>1. call'.k = call.k /\ call'.v = call.v /\ call'.at = call.at
      BY <2>4, SetDbFields DEF Holding
    <3>2. Newer(call.k, call.v)' => Newer(call.k, call.v)
      BY <1>1, <1>2, <1>3, <3>1 DEF Newer
    <3> QED
      BY <2>3, <3>1, <3>2
  <2> QED
    BY <1>2, <2>2, <2>4 DEF CalmInv, Based
<1>11. SyncHolds'
  BY <1>4 DEF SyncHolds
<1>12. Checked'
  <2>1. CASE call.kind = "check"
    <3>1. call.task # "write"
      BY <1>1, <2>1 DEF Shape
    <3>2. /\ call'.pc = "seen" /\ call'.task = call.task /\ call'.k = call.k
          /\ call'.v = call.v /\ call'.asked = call.asked /\ call'.todo = call.todo
          /\ call'.floor = call.floor
      BY <3>1, SetDbFields
    <3> QED
      BY <1>1, <1>2, <1>6, <2>1, <3>1, <3>2 DEF CalmInv, Checked, Answered, Holding
  <2>2. CASE call.kind # "check"
    BY <1>1, <2>2, NothingChecked
  <2> QED
    BY <2>1, <2>2
<1> QED
  BY <1>7, <1>8, <1>9, <1>10, <1>11, <1>12 DEF CalmInv

\* update_config ends with its own value, read at its own version at the earliest.
LEMMA AlignCalm == ASSUME TypeOK, CalmInv, Align, ~over' PROVE CalmInv'
<1>1. /\ call \in Calls /\ Shape(call) /\ call.pc = "align"
      /\ call.k \in Keys /\ call.v \in Nat /\ call.at \in Nat
      /\ call.kind = "update" /\ call.task = "write"
  BY AlignFields DEF Align, Calls, Shape
<1>2. pod.lastWrite > 0
  BY <1>1 DEF CalmInv, Numbered
<1>3. /\ pod \in Pods
      /\ pod'.held = [pod.held EXCEPT ![call.k] = call.v] /\ pod'.loaded = pod.loaded
      /\ pod'.known = pod.lastWrite
      /\ pod'.conn /\ pod'.epoch = pod'.lastEpoch
  BY <1>2, AlignFields DEF CalmInv, Connected, TypeOK
<1>4. /\ redis' = redis /\ version' = version /\ up' = up /\ remote' = remote
      /\ writes' = writes /\ settled' = settled
      /\ basis' = [basis EXCEPT ![call.k] = call.at] /\ call' = Idle
  BY DEF Align, stores
<1>5. \A k \in Keys : pod.loaded[k] => ~(pod.lastWrite > basis'[k])
  BY DEF Align
<1>6. Connected'
  BY <1>3, <1>4 DEF CalmInv, Connected
<1>7. InRedis'
  BY <1>4 DEF CalmInv, InRedis, Has, Idle
<1>8. Numbered'
  BY <1>4 DEF CalmInv, Numbered, Idle
<1>9. Based'
  <2>1. /\ call.at <= version
        /\ Newer(call.k, call.v) => call.at < version
    BY <1>1 DEF CalmInv, Based, Holding
  <2>2. ASSUME NEW k \in Keys
        PROVE  /\ basis'[k] = IF k = call.k THEN call.at ELSE basis[k]
               /\ pod'.held[k] = IF k = call.k THEN call.v ELSE pod.held[k]
               /\ basis'[k] \in Nat
    BY <1>1, <1>3, <1>4 DEF TypeOK, Pods
  <2>3. ASSUME NEW k \in Keys PROVE basis'[k] <= version
    BY <2>1, <2>2 DEF CalmInv, Based
  <2>4. ASSUME NEW k \in Keys, pod.loaded[k] PROVE pod'.known <= basis'[k]
    BY <1>3, <1>5, <2>2, <2>4 DEF Pods
  <2>5. ASSUME NEW k \in Keys, pod.loaded[k], Newer(k, pod'.held[k])
        PROVE  basis'[k] < version
    <3>1. CASE k = call.k
      BY <2>1, <2>2, <2>5, <3>1
    <3>2. CASE k # call.k
      BY <2>2, <2>5, <3>2 DEF CalmInv, Based, OwnWrite
    <3> QED
      BY <3>1, <3>2
  <2>6. ASSUME NEW k \in Keys, pod.loaded[k], Newer(k, pod.held[k])'
        PROVE  basis'[k] < version
    <3>1. Newer(k, pod'.held[k])
      BY <1>4, <2>6 DEF Newer
    <3> QED
      BY <2>5, <2>6, <3>1
  <2>7. ~Holding'
    BY <1>4 DEF Holding, Idle
  <2>8. pod'.known <= version /\ pod'.lastWrite <= version
    BY <1>3, AlignFields DEF CalmInv, Based
  <2> QED
    BY <1>3, <1>4, <2>3, <2>4, <2>6, <2>7, <2>8 DEF Based
<1>10. SyncHolds'
  BY <1>4 DEF SyncHolds, Idle
<1>11. Checked'
  BY <1>4, NothingChecked DEF Idle
<1> QED
  BY <1>6, <1>7, <1>8, <1>9, <1>10, <1>11 DEF CalmInv

\* A write of another pod is newer than all, and nothing counts as told of it yet.
LEMMA RemoteSetCalm == ASSUME TypeOK, CalmInv, NEW j \in Keys, RemoteSet(j) PROVE CalmInv'
<1>0. "redis" \in up
  BY ConnectedAnswers DEF CalmInv
<1>1. /\ remote = Idle /\ writes' = writes + 1 /\ writes \in Nat
      /\ redis' = [redis EXCEPT ![j] = writes + 1]
      /\ remote' \in Remotes /\ remote'.k = j /\ remote'.v = writes + 1
      /\ ~remote'.told
  BY <1>0, RemoteSetFields DEF TypeOK
<1>2. /\ version' = version /\ up' = up /\ pod' = pod /\ call' = call
      /\ settled' = settled /\ basis' = basis
  BY DEF RemoteSet, history
<1>3. \A k \in Keys : redis'[k] = IF k = j THEN writes + 1 ELSE redis[k]
  BY <1>1 DEF TypeOK
<1>4. ASSUME NEW k \in Keys, NEW v \in Nat, v <= writes, Has(k, v) PROVE Has(k, v)'
  BY <1>1, <1>3, <1>4, ComposerAssumption DEF Has
<1>5. Connected'
  BY <1>2 DEF CalmInv, Connected
<1>6. InRedis'
  <2>1. ASSUME NEW k \in Keys PROVE Has(k, settled[k])'
    BY <1>2, <1>4 DEF CalmInv, InRedis, Numbered, TypeOK, Has
  <2>2. Has(remote.k, remote.v)'
    BY <1>1, <1>3, ComposerAssumption DEF Has
  <2>3. call.pc \in {"incr", "setdb"} => Has(call.k, call.v)'
    <3>1. SUFFICES ASSUME call.pc \in {"incr", "setdb"} PROVE Has(call.k, call.v)'
      OBVIOUS
    <3>2. call.k \in Keys /\ call.v \in Nat
      BY <3>1, Busy DEF Calls
    <3>3. call.v <= writes /\ Has(call.k, call.v)
      BY <3>1 DEF CalmInv, Numbered, InRedis
    <3> QED
      BY <1>2, <1>4, <3>2, <3>3 DEF Has
  <2> QED
    BY <1>2, <2>1, <2>2, <2>3 DEF InRedis
<1>7. Numbered'
  <2>1. ASSUME NEW k \in Keys PROVE settled[k] <= writes + 1
    BY <1>1 DEF CalmInv, Numbered, TypeOK
  <2>2. call.pc \in {"incr", "setdb", "align"} => call.v <= writes + 1
    BY <1>1, Busy DEF CalmInv, Numbered, Calls
  <2>3. call.pc \in {"setdb", "align"} => pod.lastWrite > 0
    BY DEF CalmInv, Numbered
  <2> QED
    BY <1>1, <1>2, <2>1, <2>2, <2>3 DEF Numbered
<1>8. Based'
  BY <1>1, <1>2 DEF CalmInv, Based, Newer, Holding, OwnWrite
<1>9. SyncHolds'
  BY <1>2 DEF CalmInv, SyncHolds
<1>10. Checked'
  BY <1>2 DEF CalmInv, Checked, Answered, Holding
<1> QED
  BY <1>5, <1>6, <1>7, <1>8, <1>9, <1>10 DEF CalmInv

\* When it is told, the sentinel is past everything that was read before.
LEMMA RemoteIncrCalm == ASSUME TypeOK, CalmInv, RemoteIncr PROVE CalmInv'
<1>0. "redis" \in up /\ version \in Nat
  BY ConnectedAnswers DEF CalmInv, TypeOK
<1>1. /\ remote \in Remotes /\ remote' \in Remotes /\ remote'.k = remote.k
      /\ remote'.v = remote.v /\ version' = version + 1 /\ remote # Idle
  BY <1>0, RemoteIncrFields, IdleIsNoCall
<1>2. /\ redis' = redis /\ up' = up /\ pod' = pod /\ call' = call /\ writes' = writes
      /\ settled' = settled /\ basis' = basis
  BY DEF RemoteIncr, history
<1>3. Connected'
  BY <1>2 DEF CalmInv, Connected
<1>4. InRedis'
  BY <1>1, <1>2 DEF CalmInv, InRedis, Has
<1>5. Numbered'
  BY <1>2 DEF CalmInv, Numbered
<1>6. Based'
  <2>1. /\ pod.known <= version + 1 /\ pod.lastWrite <= version + 1
    BY <1>0, ConnectedAnswers DEF CalmInv, Based, Pods
  <2>2. ASSUME NEW k \in Keys PROVE basis[k] <= version + 1 /\ basis[k] < version + 1
    BY <1>0 DEF CalmInv, Based, TypeOK
  <2>3. ASSUME NEW k \in Keys, pod.loaded[k] PROVE pod.known <= basis[k]
    BY <2>3 DEF CalmInv, Based
  <2>4. Holding => pod.known <= call.at /\ call.at <= version + 1 /\ call.at < version + 1
    <3>1. Holding => call.at \in Nat
      BY Busy DEF Holding, Calls
    <3> QED
      BY <1>0, <3>1 DEF CalmInv, Based
  <2>5. Holding' => Holding
    BY <1>2 DEF Holding
  <2> QED
    BY <1>1, <1>2, <2>1, <2>2, <2>3, <2>4, <2>5 DEF Based
<1>7. SyncHolds'
  BY <1>2 DEF CalmInv, SyncHolds
<1>8. Checked'
  BY <1>2 DEF CalmInv, Checked, Answered, Holding
<1> QED
  BY <1>3, <1>4, <1>5, <1>6, <1>7, <1>8 DEF CalmInv

\* When it is in the database as well it is settled; it was told before.
LEMMA RemoteDbCalm == ASSUME TypeOK, CalmInv, RemoteDb PROVE CalmInv'
<1>1. /\ remote \in Remotes /\ remote # Idle /\ remote.k \in Keys /\ remote.v \in Nat
      /\ remote.v <= writes /\ remote' = Idle
  BY DEF RemoteDb, TypeOK, Idle, Remotes
<1>2. /\ redis' = redis /\ version' = version /\ up' = up /\ pod' = pod /\ call' = call
      /\ writes' = writes /\ basis' = basis
  BY DEF RemoteDb
<1>3. /\ settled \in [Keys -> Nat]
      /\ \/ settled' = settled
         \/ settled' = [settled EXCEPT ![remote.k] = remote.v] /\ remote.told
            /\ remote.v > settled[remote.k]
  BY DEF RemoteDb, Settle, TypeOK
<1>4. Connected'
  BY <1>2 DEF CalmInv, Connected
<1>5. InRedis'
  <2>1. ASSUME NEW k \in Keys PROVE Has(k, settled'[k])
    <3>1. CASE k = remote.k
      BY <1>1, <1>3, <3>1 DEF CalmInv, InRedis
    <3>2. CASE k # remote.k
      BY <1>3, <3>2 DEF CalmInv, InRedis
    <3> QED
      BY <3>1, <3>2
  <2>2. ASSUME NEW k \in Keys PROVE Has(k, settled[k])'
    BY <1>2, <2>1 DEF Has
  <2>3. call'.pc \in {"incr", "setdb"} => Has(call.k, call.v)'
    BY <1>2 DEF CalmInv, InRedis, Has
  <2> QED
    BY <1>1, <2>2, <2>3 DEF InRedis
<1>6. Numbered'
  <2>1. ASSUME NEW k \in Keys PROVE settled'[k] <= writes
    BY <1>1, <1>3 DEF CalmInv, Numbered
  <2> QED
    BY <1>2, <2>1 DEF CalmInv, Numbered
<1>7. Based'
  <2>1. ASSUME NEW k \in Keys, pod.loaded[k], Newer(k, pod.held[k])'
        PROVE  basis[k] < version \/ OwnWrite(k)
    <3>1. Newer(k, pod.held[k])
      BY <1>1, <1>2, <1>3, <2>1 DEF Newer
    <3> QED
      BY <2>1, <3>1 DEF CalmInv, Based
  <2>2. ASSUME Holding, Newer(call.k, call.v)' PROVE call.at < version
    <3>1. call.k \in Keys
      BY <2>2, Busy DEF Holding, Calls
    <3>2. Newer(call.k, call.v)
      BY <1>1, <1>2, <1>3, <2>2, <3>1 DEF Newer
    <3> QED
      BY <2>2, <3>2 DEF CalmInv, Based
  <2>3. (Holding' => Holding) /\ \A k \in Keys : OwnWrite(k) => OwnWrite(k)'
    BY <1>2 DEF Holding, OwnWrite
  <2> QED
    BY <1>2, <2>1, <2>2, <2>3 DEF CalmInv, Based
<1>8. SyncHolds'
  BY <1>2 DEF CalmInv, SyncHolds
<1>9. Checked'
  <2>1. call.kind = "check" => call.asked \in Keys /\ call.floor \in Nat
    BY DEF TypeOK, Calls, Idle
  <2>2. call.kind = "check" => call.floor <= settled'[call.asked]
    BY <1>1, <1>3, <2>1 DEF CalmInv, Checked
  <2> QED
    BY <1>2, <2>2 DEF CalmInv, Checked, Answered, Holding
<1> QED
  BY <1>4, <1>5, <1>6, <1>7, <1>8, <1>9 DEF CalmInv

LEMMA InitCurrent == Init /\ Calm => CalmInv
<1> SUFFICES ASSUME Init, Calm PROVE CalmInv
  OBVIOUS
<1>0. TypeOK
  BY InitTyped
<1>1. up = {"redis", "db"}
  BY DEF Init, Calm
<1>2. /\ call \in Calls /\ call.kind = "boot" /\ call.task = "boot" /\ call.pc = "probe"
      /\ pod = NewPod /\ pod.known = 0 /\ pod.loaded = [k \in Keys |-> FALSE]
      /\ pod.epoch = 0 /\ pod.lastEpoch = 0 /\ pod.conn
  BY <1>0, <1>1, BootFields DEF Init, TypeOK
<1>3. pod.lastWrite = 0
  BY <1>2 DEF NewPod
<1>4. remote = Idle /\ settled = [k \in Keys |-> 0] /\ basis = [k \in Keys |-> 0]
  BY DEF Init, All
<1>5. Connected
  BY <1>1, <1>2 DEF Connected
<1>6. InRedis
  BY <1>2, <1>4 DEF InRedis, Has
<1>7. Numbered
  BY <1>0, <1>2, <1>4 DEF Numbered, TypeOK
<1>8. Based
  BY <1>0, <1>2, <1>3, <1>4 DEF Based, Holding, TypeOK
<1>9. SyncHolds /\ Checked
  BY <1>2 DEF SyncHolds, Checked
<1> QED
  BY <1>5, <1>6, <1>7, <1>8, <1>9 DEF CalmInv

\* Stores that are there do not come back, and a fault is the end of the calm.
LEMMA OutsideCalm ==
  ASSUME TypeOK, CalmInv, Calm',
         \/ \E s \in {"redis", "db"} : Outage(s) \/ Heal(s)
         \/ \E k \in Keys : Lose(k)
         \/ Restart
  PROVE  FALSE
<1>1. ASSUME NEW s \in {"redis", "db"}, Heal(s) PROVE FALSE
  BY <1>1, ConnectedAnswers DEF Heal, CalmInv
<1>2. ASSUME faults' = faults + 1 PROVE FALSE
  BY <1>2 DEF Calm, TypeOK
<1> QED
  BY <1>1, <1>2 DEF Outage, Lose, Restart

LEMMA CurrentKept == IInv /\ [Next]_vars => Current'
<1> SUFFICES ASSUME TypeOK, Unset, Current, [Next]_vars, Calm' PROVE CalmInv'
  BY DEF IInv, Current
<1>1. CalmInv
  BY StaysCalm DEF Current
<1>2. ~crossed' /\ ~blind' /\ ~over'
  BY DEF Calm
<1>3. CASE \E k \in Keys : Value(k) \/ Update(k) \/ Check(k)
  BY <1>1, <1>3, BeginCalm
<1>4. CASE ValueVersion \/ Resolve \/ Through \/ Seen
  BY <1>1, <1>4, ValueVersionCalm, ResolveCalm, ThroughCalm, SeenCalm
<1>5. CASE Set \/ Incr \/ SetDb \/ Align
  BY <1>1, <1>2, <1>5, SetCalm, IncrCalm, SetDbCalm, AlignCalm
<1>6. CASE Status \/ Final \/ Answer \/ Sync \/ Health \/ Exists
  BY <1>1, <1>2, <1>6, StatusCalm, FinalCalm, AnswerCalm, SyncCalm, HealthCalm, ExistsCalm
<1>7. CASE (\E k \in Keys : RemoteSet(k)) \/ RemoteIncr \/ RemoteDb
  BY <1>1, <1>7, RemoteSetCalm, RemoteIncrCalm, RemoteDbCalm
<1>8. CASE \/ \E s \in {"redis", "db"} : Outage(s) \/ Heal(s)
           \/ \E k \in Keys : Lose(k)
           \/ Restart
  BY <1>1, <1>8, OutsideCalm
<1>9. CASE UNCHANGED vars
  <2>1. Connected' /\ InRedis' /\ Numbered'
    BY <1>1, <1>9 DEF vars, stores, history, CalmInv, Connected, InRedis, Has, Numbered
  <2>2. Based'
    BY <1>1, <1>9 DEF vars, stores, history, CalmInv, Based, Newer, Holding, OwnWrite
  <2>3. SyncHolds' /\ Checked'
    BY <1>1, <1>9 DEF vars, stores, history, CalmInv, SyncHolds, Checked, Answered, Holding
  <2> QED
    BY <2>1, <2>2, <2>3 DEF CalmInv
<1> QED
  BY <1>3, <1>4, <1>5, <1>6, <1>7, <1>8, <1>9 DEF Next

\* Through every interleaving of a pod's calls with the writes of other pods, what the pod
\* holds is as new as the version it believes in (_sync_seen_versions, _align_versions).
THEOREM HeldIsWhatWasRead == Spec => []IInv
<1>1. Init => IInv
  BY InitTyped, InitCurrent DEF IInv, Current
<1>2. IInv /\ [Next]_vars => IInv'
  BY Typed, UnsetKept, CurrentKept DEF IInv
<1> QED
  BY <1>1, <1>2, PTL DEF Spec

\* probe_config_value never answers, as verified, with a value older than a write that had
\* reached everything before the question, unless a sentinel was set past what was read.
THEOREM VerifiedIsCurrent == Spec => []AnswerIsCurrent
<1>1. IInv => AnswerIsCurrent
  <2>1. SUFFICES ASSUME TypeOK, Current, Verified, ~over
                 PROVE  pod.held[call.asked] >= call.floor
    BY DEF IInv, AnswerIsCurrent
  <2>2. Calm
    BY <2>1 DEF Verified, Calm
  <2>3. call.pc = "answer" /\ call.kind = "check" /\ pod.loaded[call.asked]
    BY <2>1, Busy DEF Verified, Shape
  <2> QED
    BY <2>1, <2>2, <2>3 DEF Current, CalmInv, Checked, Answered
<1> QED
  BY <1>1, HeldIsWhatWasRead, PTL

=============================================================================

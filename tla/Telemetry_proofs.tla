-------------------------- MODULE Telemetry_proofs --------------------------
(***************************************************************************)
(* For any number of threads, databases and events, any queue and batch    *)
(* size and any faults: a flush that answers True left nothing behind, and *)
(* a process writes only what it was given.                                *)
(***************************************************************************)
EXTENDS Telemetry, FiniteSetTheorems, TLAPS

Events == [n : Nat, db : Databases]
MemState == [pid : Procs \cup {"none"}, queue : SUBSET Events, unfinished : Nat,
             locked : BOOLEAN, thread : {"none", "alive", "dead"}]
CallState == [pc : {"absent", "idle", "ensure", "lock", "start", "put", "flush", "flushed"},
              before : SUBSET Events]
WriterState == [pc : {"none", "get", "more", "write", "sleep"}, batch : SUBSET Events,
                todo : SUBSET Events, again : BOOLEAN]

TypeInv ==
  /\ mem \in [Procs -> MemState]
  /\ calls \in [Procs -> [Threads -> CallState]]
  /\ writer \in [Procs -> WriterState]
  /\ life \in [Procs -> {"not yet", "running", "gone"}]
  /\ accepted \in [Procs -> SUBSET Events]
  /\ settled \in [Procs -> SUBSET Events]
  /\ count \in Nat /\ faults \in Nat /\ givenUp \in Nat

\* Nothing is known of a child before the fork.
Unborn(p) == life[p] = "not yet" =>
  mem[p] = NewMem /\ accepted[p] = {} /\ settled[p] = {} /\ calls[p] = [t \in Threads |-> Absent]

\* A queue is a process's own or its parent's.  One thread at most is starting the
\* writer, and only where none runs.
OneStarter(p) ==
  /\ mem[p].pid \in {p, "parent", "none"}
  /\ mem[p].thread = "alive" => mem[p].pid = p
  /\ mem[p].thread # "alive" => writer[p] = NoWriter
  /\ \A t \in Threads : calls[p][t].pc = "start" => mem[p].locked /\ mem[p].thread # "alive"
  /\ \A t, u \in Threads : calls[p][t].pc = "start" /\ calls[p][u].pc = "start" => t = u
  /\ \A t \in Threads : calls[p][t].pc = "put" => mem[p].pid = p

\* Without a queue of its own a process has accepted nothing; with one, the counter of
\* the queue is what is in it and in the writer's hands, and what is in neither has
\* been settled.
Counted(p) ==
  /\ mem[p].pid # p => accepted[p] = {}
  /\ mem[p].pid = p =>
       /\ IsFiniteSet(mem[p].queue) /\ IsFiniteSet(writer[p].batch)
       /\ mem[p].queue \cap writer[p].batch = {}
       /\ mem[p].unfinished = Cardinality(mem[p].queue) + Cardinality(writer[p].batch)
       /\ mem[p].queue \cup writer[p].batch \subseteq accepted[p]
       /\ accepted[p] \subseteq mem[p].queue \cup writer[p].batch \cup settled[p]
  /\ \A e \in accepted[p] : e.n <= count

\* What a batch has no more to do is settled, and what is settled is a row or lost.
Settles(p) ==
  /\ writer[p].pc \in {"none", "get"} => writer[p].batch = {}
  /\ writer[p].pc \in {"write", "sleep"} => writer[p].batch \ writer[p].todo \subseteq settled[p]
  /\ settled[p] \subseteq rows \cup lost

\* A flush looks at what was accepted before it, and ends when that is settled.
Flushes(p) == \A t \in Threads :
  /\ calls[p][t].pc = "flush" => calls[p][t].before \subseteq accepted[p]
  /\ calls[p][t].pc = "flushed" => calls[p][t].before \subseteq settled[p]

Good(p) == Unborn(p) /\ OneStarter(p) /\ Counted(p) /\ Settles(p) /\ Flushes(p)

\* Every group that was given up has cost two faults, one that is tried again one.
Retrying(p) == IF writer[p].pc = "sleep" \/ writer[p].again THEN 1 ELSE 0
TwoFailures == 2 * givenUp + Retrying("parent") + Retrying("child") <= faults

IInv == TypeInv /\ (\A p \in Procs : Good(p)) /\ TwoFailures

-----------------------------------------------------------------------------
\* What another process does leaves a process as it is.
LEMMA Untouched ==
  ASSUME TypeInv, NEW p \in Procs, Good(p),
         mem'[p] = mem[p], calls'[p] = calls[p], writer'[p] = writer[p], life'[p] = life[p],
         accepted'[p] = accepted[p], settled'[p] = settled[p],
         rows \subseteq rows', lost \subseteq lost', count' \in Nat, count <= count'
  PROVE  Good(p)'
<1>1. Unborn(p)' /\ OneStarter(p)' /\ Flushes(p)'
  <2> Unborn(p) /\ OneStarter(p) /\ Flushes(p)
    BY DEF Good
  <2>1. Unborn(p)'
    BY DEF Unborn
  <2>2. OneStarter(p)'
    BY DEF OneStarter
  <2>3. Flushes(p)'
    BY DEF Flushes
  <2> QED
    BY <2>1, <2>2, <2>3
<1>2. Settles(p)'
  <2> Settles(p)
    BY DEF Good
  <2> QED
    BY DEF Settles
<1>3. Counted(p)'
  <2>1. ASSUME NEW e \in accepted'[p] PROVE e.n <= count'
    <3>1. e \in Events /\ e.n <= count /\ count \in Nat
      BY DEF Good, Counted, TypeInv
    <3>2. e.n \in Nat
      BY <3>1 DEF Events
    <3> QED
      BY <3>1, <3>2
  <2> QED
    BY <2>1 DEF Good, Counted
<1> QED
  BY <1>1, <1>2, <1>3 DEF Good

\* A step of one process is good if it leaves the others alone, keeps what is known of
\* its own, and pays for what it gives up.
LEMMA OneProcess ==
  ASSUME IInv, TypeInv', NEW p \in Procs, Good(p)',
         \A q \in Procs \ {p} :
           /\ mem'[q] = mem[q] /\ calls'[q] = calls[q] /\ writer'[q] = writer[q]
           /\ life'[q] = life[q] /\ accepted'[q] = accepted[q] /\ settled'[q] = settled[q],
         rows \subseteq rows', lost \subseteq lost', count <= count',
         2 * givenUp' + Retrying(p)' + faults <= 2 * givenUp + Retrying(p) + faults'
  PROVE  IInv'
<1>1. \A q \in Procs \ {p} : Good(q)'
  BY Untouched DEF IInv, TypeInv
<1>2. \A q \in Procs \ {p} : Retrying(q)' = Retrying(q)
  BY DEF Retrying
<1>3. Retrying("parent") \in Nat /\ Retrying("child") \in Nat
      /\ Retrying("parent")' \in Nat /\ Retrying("child")' \in Nat
  BY DEF Retrying
<1>4. TwoFailures'
  <2>1. givenUp \in Nat /\ givenUp' \in Nat /\ faults \in Nat /\ faults' \in Nat
        /\ 2 * givenUp + Retrying("parent") + Retrying("child") <= faults
    BY DEF IInv, TwoFailures, TypeInv
  <2>2. CASE p = "parent"
    <3>1. Retrying("child")' = Retrying("child")
      BY <1>2, <2>2 DEF Procs
    <3> QED
      BY <1>3, <2>1, <2>2, <3>1 DEF TwoFailures
  <2>3. CASE p = "child"
    <3>1. Retrying("parent")' = Retrying("parent")
      BY <1>2, <2>3 DEF Procs
    <3> QED
      BY <1>3, <2>1, <2>3, <3>1 DEF TwoFailures
  <2> QED
    BY <2>2, <2>3 DEF Procs
<1> QED
  BY <1>1, <1>4 DEF IInv

\* Only threads of a running process are in a call, and only it has a writer.
LEMMA Here ==
  ASSUME IInv, NEW p \in Procs
  PROVE  /\ Good(p)
         /\ mem[p] \in MemState /\ writer[p] \in WriterState
         /\ accepted[p] \subseteq Events /\ settled[p] \subseteq Events
         /\ \A t \in Threads : calls[p][t] \in CallState
BY DEF IInv, TypeInv

LEMMA OneMore ==
  ASSUME NEW S, NEW x, IsFiniteSet(S), x \notin S
  PROVE  IsFiniteSet(S \cup {x}) /\ Cardinality(S \cup {x}) = Cardinality(S) + 1
BY FS_AddElement

LEMMA Numbers ==
  ASSUME IInv
  PROVE  count \in Nat /\ faults \in Nat /\ givenUp \in Nat
BY DEF IInv, TypeInv

-----------------------------------------------------------------------------
\* A process starts without events.
THEOREM TelemetryInitially == Init => IInv
<1> SUFFICES ASSUME Init PROVE IInv
  OBVIOUS
<1>1. NewMem \in MemState /\ Idle \in CallState /\ Absent \in CallState /\ NoWriter \in WriterState
  BY DEF NewMem, MemState, Idle, Absent, CallState, NoWriter, WriterState
<1>2. TypeInv
  BY <1>1 DEF Init, TypeInv, Procs
<1>3. ASSUME NEW p \in Procs PROVE Good(p)
  <2>1. Unborn(p)
    BY DEF Init, Unborn, Procs, Absent
  <2>2. OneStarter(p)
    BY DEF Init, OneStarter, NewMem, Idle, Absent
  <2>3. Counted(p)
    BY DEF Init, Counted, NewMem, Procs
  <2>4. Settles(p) /\ Flushes(p)
    BY DEF Init, Settles, Flushes, NoWriter, Idle, Absent
  <2> QED
    BY <2>1, <2>2, <2>3, <2>4 DEF Good
<1>4. TwoFailures
  <2>1. Retrying("parent") = 0 /\ Retrying("child") = 0
    BY DEF Init, Retrying, NoWriter, Procs
  <2>2. givenUp = 0 /\ faults = 0
    BY DEF Init
  <2> QED
    BY <2>1, <2>2 DEF TwoFailures
<1> QED
  BY <1>2, <1>3, <1>4 DEF IInv

-----------------------------------------------------------------------------
\* A step of a call that touches neither the queue nor the writer: it may not begin to
\* start a writer, or to put, without what these need.
LEMMA CallMoves ==
  ASSUME IInv, NEW p \in Procs, NEW t \in Threads, life[p] = "running",
         NEW c \in CallState,
         calls' = [calls EXCEPT ![p][t] = c],
         c.pc = "put" => mem[p].pid = p,
         c.pc # "start",
         c.pc = "flush" => c.before \subseteq accepted[p],
         c.pc = "flushed" => c.before \subseteq settled[p],
         UNCHANGED <<mem, writer, life, rows, count, faults, history>>
  PROVE  IInv'
<1> USE DEF history
<1>1. TypeInv'
  BY DEF IInv, TypeInv
<1>2. calls'[p][t] = c /\ \A u \in Threads \ {t} : calls'[p][u] = calls[p][u]
  BY DEF IInv, TypeInv
<1>3. Good(p)'
  <2>1. Unborn(p)' /\ Counted(p)' /\ Settles(p)'
    BY Here DEF Good, Unborn, Counted, Settles
  <2>2. OneStarter(p)' /\ Flushes(p)'
    BY Here, <1>2 DEF Good, OneStarter, Flushes
  <2> QED
    BY <2>1, <2>2 DEF Good
<1>4. \A q \in Procs \ {p} : calls'[q] = calls[q]
  BY DEF IInv, TypeInv
<1>5. givenUp \in Nat /\ faults \in Nat /\ count \in Nat /\ Retrying(p) \in Nat
  BY DEF IInv, TypeInv, Retrying
<1>6. Retrying(p)' = Retrying(p) /\ givenUp' = givenUp /\ faults' = faults /\ count' = count
      /\ rows' = rows /\ lost' = lost
  BY DEF Retrying
<1>7. 2 * givenUp' + Retrying(p)' + faults <= 2 * givenUp + Retrying(p) + faults'
      /\ count <= count' /\ rows \subseteq rows' /\ lost \subseteq lost'
  BY <1>5, <1>6
<1> QED
  BY <1>1, <1>3, <1>4, <1>7, OneProcess

LEMMA SubmitStep ==
  ASSUME IInv, NEW p \in Procs, NEW t \in Threads, Submit(p, t) PROVE IInv'
<1> DEFINE c == [calls[p][t] EXCEPT !.pc = "ensure"]
<1>1. c \in CallState /\ c.pc = "ensure"
  BY Here DEF CallState
<1>2. calls' = [calls EXCEPT ![p][t] = c]
  BY DEF Submit, Go
<1> QED
  BY <1>1, <1>2, CallMoves DEF Submit, At

LEMMA EnsureStep ==
  ASSUME IInv, NEW p \in Procs, NEW t \in Threads, Ensure(p, t) PROVE IInv'
<1> DEFINE pc == IF Running(p) THEN "put" ELSE "lock"
           c == [calls[p][t] EXCEPT !.pc = pc]
<1>1. c \in CallState /\ c.pc = pc
  BY Here DEF CallState
<1>2. calls' = [calls EXCEPT ![p][t] = c]
  BY DEF Ensure, Go
<1>3. pc = "put" => mem[p].pid = p
  BY DEF Running
<1> HIDE DEF c
<1> QED
  BY <1>1, <1>2, <1>3, CallMoves DEF Ensure, At

LEMMA FlushSteps ==
  ASSUME IInv, NEW p \in Procs, NEW t \in Threads,
         FlushBegin(p, t) \/ FlushTrue(p, t) \/ FlushReturns(p, t)
  PROVE  IInv'
<1>1. CASE FlushBegin(p, t)
  <2> DEFINE c == [pc |-> "flush", before |-> accepted[p]]
  <2>1. c \in CallState
    BY Here DEF CallState
  <2> QED
    BY <1>1, <2>1, CallMoves DEF FlushBegin, At
<1>2. CASE FlushTrue(p, t)
  <2> DEFINE c == [calls[p][t] EXCEPT !.pc = "flushed"]
  <2>1. c \in CallState /\ c.pc = "flushed" /\ c.before = calls[p][t].before
    BY Here DEF CallState
  <2>2. calls' = [calls EXCEPT ![p][t] = c]
    BY <1>2 DEF FlushTrue, Go
  <2>3. calls[p][t].before \subseteq accepted[p]
    BY <1>2, Here DEF FlushTrue, At, Good, Flushes
  <2>4. accepted[p] \subseteq settled[p]
    <3>1. CASE mem[p].pid # p
      BY <3>1, Here DEF Good, Counted
    <3>2. CASE mem[p].pid = p
      <4>1. IsFiniteSet(mem[p].queue) /\ IsFiniteSet(writer[p].batch)
            /\ Cardinality(mem[p].queue) + Cardinality(writer[p].batch) = 0
        BY <1>2, <3>2, Here DEF FlushTrue, Good, Counted
      <4>2. mem[p].queue = {} /\ writer[p].batch = {}
        BY <4>1, FS_CardinalityType, FS_EmptySet
      <4> QED
        BY <3>2, <4>2, Here DEF Good, Counted
    <3> QED
      BY <3>1, <3>2
  <2> HIDE DEF c
  <2> QED
    BY <1>2, <2>1, <2>2, <2>3, <2>4, CallMoves DEF FlushTrue, At
<1>3. CASE FlushReturns(p, t)
  <2>1. Idle \in CallState /\ Idle.pc = "idle"
    BY DEF Idle, CallState
  <2> QED
    BY <1>3, <2>1, CallMoves DEF FlushReturns, Return, At
<1> QED
  BY <1>1, <1>2, <1>3

-----------------------------------------------------------------------------
\* A step that gives no group up and tries none again costs nothing.
LEMMA Free ==
  ASSUME IInv, NEW p \in Procs, givenUp' = givenUp, faults' \in {faults, faults + 1},
         \/ writer'[p].pc # "sleep" /\ ~writer'[p].again
         \/ (writer'[p].pc = "sleep" \/ writer'[p].again) <=> (writer[p].pc = "sleep" \/ writer[p].again)
  PROVE  2 * givenUp' + Retrying(p)' + faults <= 2 * givenUp + Retrying(p) + faults'
<1>1. givenUp \in Nat /\ faults \in Nat
  BY DEF IInv, TypeInv
<1>2. Retrying(p) \in {0, 1} /\ Retrying(p)' \in {0, 1} /\ Retrying(p)' <= Retrying(p)
  BY DEF Retrying
<1> QED
  BY <1>1, <1>2

LEMMA EnsureLockStep ==
  ASSUME IInv, NEW p \in Procs, NEW t \in Threads, EnsureLock(p, t) PROVE IInv'
<1> USE DEF history
<1> DEFINE Moved(pc) == [calls[p][t] EXCEPT !.pc = pc]
<1>1. ASSUME NEW pc \in {"put", "start"}
      PROVE  Moved(pc) \in CallState /\ Moved(pc).pc = pc /\ Moved(pc).before = calls[p][t].before
  BY Here DEF CallState
<1>2. CASE Running(p)
  <2>1. calls' = [calls EXCEPT ![p][t] = Moved("put")]
    BY <1>2 DEF EnsureLock, Go
  <2>2. mem[p].pid = p
    BY <1>2 DEF Running
  <2> HIDE DEF Moved
  <2> QED
    BY <1>1, <1>2, <2>1, <2>2, CallMoves DEF EnsureLock, At
<1>3. CASE ~Running(p)
  <2>1. calls' = [calls EXCEPT ![p][t] = Moved("start")]
        /\ mem' = [mem EXCEPT ![p].locked = TRUE] /\ ~mem[p].locked
        /\ UNCHANGED <<writer, life, rows, count, faults, history>> /\ life[p] = "running"
    BY <1>3 DEF EnsureLock, Go, At
  <2>2. /\ mem'[p] = [mem[p] EXCEPT !.locked = TRUE] /\ mem'[p] \in MemState
        /\ mem'[p].locked /\ mem'[p].pid = mem[p].pid /\ mem'[p].thread = mem[p].thread
        /\ mem'[p].queue = mem[p].queue /\ mem'[p].unfinished = mem[p].unfinished
    BY <2>1, Here DEF MemState, IInv, TypeInv
  <2>3. calls'[p][t].pc = "start" /\ \A u \in Threads \ {t} : calls'[p][u] = calls[p][u]
    BY <1>1, <2>1 DEF IInv, TypeInv
  <2>4. TypeInv'
    <3> HIDE DEF Moved
    <3> QED
      BY <1>1, <2>1, <2>2 DEF IInv, TypeInv
  <2>5. Good(p)'
    <3>1. mem[p].thread # "alive"
      BY <1>3, Here DEF Running, Good, OneStarter
    <3>2. OneStarter(p)'
      BY <2>1, <2>2, <2>3, <3>1, Here DEF Good, OneStarter
    <3>3. Unborn(p)' /\ Settles(p)'
      BY <2>1, Here DEF Good, Unborn, Settles
    <3>4. Flushes(p)'
      BY <2>1, <2>3, Here DEF Good, Flushes
    <3>5. Counted(p)'
      BY <2>1, <2>2, Here DEF Good, Counted
    <3> QED
      BY <3>2, <3>3, <3>4, <3>5 DEF Good
  <2>6. \A q \in Procs \ {p} : calls'[q] = calls[q] /\ mem'[q] = mem[q]
    BY <2>1 DEF IInv, TypeInv
  <2>7. 2 * givenUp' + Retrying(p)' + faults <= 2 * givenUp + Retrying(p) + faults'
    BY <2>1, Free
  <2>8. count <= count'
    BY <2>1, Numbers
  <2> QED
    BY <2>1, <2>4, <2>5, <2>6, <2>7, <2>8, OneProcess
<1> QED
  BY <1>2, <1>3

\* Where no writer runs, a queue is taken over with the events it holds, or begun.
LEMMA OwnQueue ==
  ASSUME IInv, NEW p \in Procs, mem[p].thread # "alive"
  PROVE  /\ Own(p) \in MemState /\ Own(p).pid = p
         /\ IsFiniteSet(Own(p).queue) /\ Own(p).unfinished = Cardinality(Own(p).queue)
         /\ Own(p).queue \subseteq accepted[p]
         /\ accepted[p] \subseteq Own(p).queue \cup settled[p]
<1>1. writer[p].batch = {} /\ mem[p] \in MemState /\ Counted(p)
  BY Here DEF Good, OneStarter, NoWriter
<1>2. CASE mem[p].pid = p
  <2>1. Own(p) = mem[p] /\ Cardinality(writer[p].batch) = 0
    BY <1>1, <1>2, FS_EmptySet DEF Own
  <2>2. Cardinality(mem[p].queue) \in Nat
    BY <1>1, <1>2, FS_CardinalityType DEF Counted
  <2> QED
    BY <1>1, <1>2, <2>1, <2>2 DEF Counted
<1>3. CASE mem[p].pid # p
  <2>1. /\ Own(p) = [mem[p] EXCEPT !.pid = p, !.queue = {}, !.unfinished = 0]
        /\ Own(p) \in MemState /\ Own(p).pid = p /\ Own(p).queue = {} /\ Own(p).unfinished = 0
    BY <1>1, <1>3 DEF Own, MemState
  <2> QED
    BY <1>1, <1>3, <2>1, FS_EmptySet DEF Counted
<1> QED
  BY <1>2, <1>3

\* The end of _ensure, with a thread or without.
LEMMA StartSteps ==
  ASSUME IInv, NEW p \in Procs, NEW t \in Threads, EnsureStart(p, t) \/ StartFails(p, t)
  PROVE  IInv'
<1> USE DEF history
<1>1. PICK thread \in {"alive", "dead"}, c \in CallState :
        /\ mem' = [mem EXCEPT ![p] = [Own(p) EXCEPT !.locked = FALSE, !.thread = thread]]
        /\ calls' = [calls EXCEPT ![p][t] = c] /\ c.pc \in {"put", "idle"}
        /\ writer' = [writer EXCEPT ![p] = IF thread = "alive" THEN [NoWriter EXCEPT !.pc = "get"] ELSE @]
        /\ life[p] = "running" /\ calls[p][t].pc = "start"
        /\ faults' \in {faults, faults + 1} /\ UNCHANGED <<life, rows, count, history>>
  <2>1. CASE EnsureStart(p, t)
    <3> DEFINE c == [calls[p][t] EXCEPT !.pc = "put"]
    <3>1. c \in CallState /\ c.pc = "put"
      BY Here DEF CallState
    <3>2. calls' = [calls EXCEPT ![p][t] = c]
      BY <2>1 DEF EnsureStart, Go
    <3>3. /\ mem' = [mem EXCEPT ![p] = [Own(p) EXCEPT !.locked = FALSE, !.thread = "alive"]]
          /\ writer' = [writer EXCEPT ![p] = [NoWriter EXCEPT !.pc = "get"]]
          /\ life[p] = "running" /\ calls[p][t].pc = "start"
          /\ UNCHANGED <<life, rows, count, faults, history>>
      BY <2>1 DEF EnsureStart, At
    <3> HIDE DEF c
    <3> QED
      BY <3>1, <3>2, <3>3
  <2>2. CASE StartFails(p, t)
    <3>1. Idle \in CallState /\ Idle.pc = "idle"
      BY DEF Idle, CallState
    <3>2. /\ mem' = [mem EXCEPT ![p] = [Own(p) EXCEPT !.locked = FALSE, !.thread = "dead"]]
          /\ calls' = [calls EXCEPT ![p][t] = Idle]
          /\ life[p] = "running" /\ calls[p][t].pc = "start"
          /\ faults' = faults + 1 /\ UNCHANGED <<writer, life, rows, count, history>>
      BY <2>2 DEF StartFails, At, Return
    <3>3. writer' = [writer EXCEPT ![p] = IF "dead" = "alive" THEN [NoWriter EXCEPT !.pc = "get"] ELSE @]
      BY <3>2 DEF IInv, TypeInv
    <3> QED
      BY <3>1, <3>2, <3>3
  <2> QED
    BY <2>1, <2>2
<1>2. mem[p].thread # "alive" /\ writer[p] = NoWriter
      /\ \A u \in Threads : calls[p][u].pc = "start" => u = t
  BY <1>1, Here DEF Good, OneStarter
<1>3. /\ mem'[p] \in MemState /\ mem'[p].pid = p /\ mem'[p].thread = thread
      /\ mem'[p].queue = Own(p).queue /\ mem'[p].unfinished = Own(p).unfinished
  <2> DEFINE o == Own(p)
  <2>1. o \in MemState /\ o.pid = p
    BY <1>2, OwnQueue
  <2>2. mem'[p] = [o EXCEPT !.locked = FALSE, !.thread = thread]
    BY <1>1 DEF IInv, TypeInv
  <2> HIDE DEF o
  <2>3. mem'[p] \in MemState /\ mem'[p].pid = p /\ mem'[p].thread = thread
        /\ mem'[p].queue = o.queue /\ mem'[p].unfinished = o.unfinished
    BY <2>1, <2>2 DEF MemState
  <2> QED
    BY <2>3 DEF o
<1>4. /\ writer'[p] \in WriterState /\ writer'[p].batch = {} /\ writer'[p].pc \in {"none", "get"}
      /\ writer'[p].again = FALSE /\ writer'[p].pc # "sleep"
      /\ (thread # "alive" => writer'[p] = NoWriter)
  <2>1. writer'[p] = IF thread = "alive" THEN [NoWriter EXCEPT !.pc = "get"] ELSE NoWriter
    BY <1>1, <1>2 DEF IInv, TypeInv
  <2>2. NoWriter \in WriterState /\ NoWriter.batch = {} /\ NoWriter.pc = "none" /\ NoWriter.again = FALSE
    BY DEF NoWriter, WriterState
  <2>3. CASE thread = "alive"
    <3>1. writer'[p] = [pc |-> "get", batch |-> {}, todo |-> {}, again |-> FALSE]
      BY <2>1, <2>3 DEF NoWriter
    <3> QED
      BY <2>3, <3>1 DEF WriterState
  <2>4. CASE thread # "alive"
    BY <2>1, <2>2, <2>4
  <2> QED
    BY <2>3, <2>4
<1>5. calls'[p][t] = c /\ \A u \in Threads \ {t} : calls'[p][u] = calls[p][u]
  BY <1>1 DEF IInv, TypeInv
<1>6. TypeInv'
  <2>1. mem' \in [Procs -> MemState] /\ calls' \in [Procs -> [Threads -> CallState]]
    BY <1>1, <1>3 DEF IInv, TypeInv
  <2>2. writer' \in [Procs -> WriterState]
    BY <1>1, <1>4 DEF IInv, TypeInv
  <2>3. faults' \in Nat
    BY <1>1, Numbers
  <2> QED
    BY <1>1, <2>1, <2>2, <2>3 DEF IInv, TypeInv
<1>7. Good(p)'
  <2>1. Unborn(p)'
    BY <1>1 DEF Unborn
  <2>2. OneStarter(p)'
    BY <1>1, <1>2, <1>3, <1>4, <1>5 DEF OneStarter
  <2>3. Counted(p)'
    <3>1. IsFiniteSet(writer'[p].batch) /\ Cardinality(writer'[p].batch) = 0
      BY <1>4, FS_EmptySet
    <3>2. Cardinality(mem'[p].queue) \in Nat /\ IsFiniteSet(mem'[p].queue)
      BY <1>2, <1>3, OwnQueue, FS_CardinalityType
    <3>3. mem'[p].unfinished = Cardinality(mem'[p].queue) + Cardinality(writer'[p].batch)
      BY <1>2, <1>3, <3>1, <3>2, OwnQueue
    <3> QED
      BY <1>1, <1>2, <1>3, <1>4, <3>1, <3>2, <3>3, OwnQueue, Here DEF Good, Counted
  <2>4. Settles(p)'
    BY <1>1, <1>4, Here DEF Good, Settles
  <2>5. Flushes(p)'
    BY <1>1, <1>5, Here DEF Good, Flushes
  <2> QED
    BY <2>1, <2>2, <2>3, <2>4, <2>5 DEF Good
<1>8. \A q \in Procs \ {p} : calls'[q] = calls[q] /\ mem'[q] = mem[q] /\ writer'[q] = writer[q]
  BY <1>1 DEF IInv, TypeInv
<1>9. 2 * givenUp' + Retrying(p)' + faults <= 2 * givenUp + Retrying(p) + faults'
  BY <1>1, <1>4, Free
<1>10. count <= count'
  BY <1>1, Numbers
<1> QED
  BY <1>1, <1>6, <1>7, <1>8, <1>9, <1>10, OneProcess

-----------------------------------------------------------------------------
LEMMA PutStep ==
  ASSUME IInv, NEW p \in Procs, NEW t \in Threads, NEW db \in Databases, Put(p, t, db)
  PROVE  IInv'
<1> USE DEF history
<1> DEFINE e == [n |-> count + 1, db |-> db]
           room == Cardinality(mem[p].queue) < QueueMax
<1>1. /\ e \in Events /\ e.n = count + 1 /\ mem[p].pid = p /\ life[p] = "running"
      /\ count' = count + 1 /\ calls' = [calls EXCEPT ![p][t] = Idle]
      /\ IF room
         THEN /\ mem' = [mem EXCEPT ![p].queue = @ \cup {e}, ![p].unfinished = @ + 1]
              /\ accepted' = [accepted EXCEPT ![p] = @ \cup {e}]
         ELSE UNCHANGED <<mem, accepted>>
      /\ UNCHANGED <<writer, life, rows, faults, settled, lost, givenUp>>
  <2>1. e \in Events /\ e.n = count + 1
    BY Numbers DEF Events
  <2>2. life[p] = "running" /\ calls[p][t].pc = "put"
    BY DEF Put, At
  <2>3. mem[p].pid = p
    BY <2>2, Here DEF Good, OneStarter
  <2> QED
    BY <2>1, <2>2, <2>3 DEF Put, Return
<1>2. e \notin accepted[p]
  BY <1>1, Here, Numbers DEF Good, Counted
<1> HIDE DEF e, room
<1>3. /\ mem'[p] \in MemState /\ mem'[p].pid = p
      /\ mem'[p].locked = mem[p].locked /\ mem'[p].thread = mem[p].thread
      /\ mem'[p].queue = (IF room THEN mem[p].queue \cup {e} ELSE mem[p].queue)
      /\ mem'[p].unfinished = (IF room THEN mem[p].unfinished + 1 ELSE mem[p].unfinished)
  <2> DEFINE m == mem[p]
  <2>1. m \in MemState
    BY Here
  <2>2. CASE room
    <3>1. mem'[p] = [m EXCEPT !.queue = @ \cup {e}, !.unfinished = @ + 1]
      BY <1>1, <2>2 DEF IInv, TypeInv
    <3> HIDE DEF m
    <3>2. /\ mem'[p] \in MemState /\ mem'[p].pid = m.pid
          /\ mem'[p].locked = m.locked /\ mem'[p].thread = m.thread
          /\ mem'[p].queue = m.queue \cup {e} /\ mem'[p].unfinished = m.unfinished + 1
      <4> DEFINE q == m.queue \cup {e}
                 k == m.unfinished + 1
      <4>1. q \in SUBSET Events /\ k \in Nat
        BY <1>1, <2>1 DEF MemState
      <4>2. mem'[p] = [m EXCEPT !.queue = q, !.unfinished = k]
        BY <3>1
      <4>3. q = m.queue \cup {e} /\ k = m.unfinished + 1
        OBVIOUS
      <4> HIDE DEF q, k
      <4>4. mem'[p] \in MemState /\ mem'[p].pid = m.pid
            /\ mem'[p].locked = m.locked /\ mem'[p].thread = m.thread
            /\ mem'[p].queue = q /\ mem'[p].unfinished = k
        BY <2>1, <4>1, <4>2 DEF MemState
      <4> QED
        BY <4>3, <4>4
    <3> QED
      BY <1>1, <2>2, <3>2 DEF m
  <2>3. CASE ~room
    BY <1>1, <2>1, <2>3
  <2> QED
    BY <2>2, <2>3
<1>4. calls'[p][t] = Idle /\ \A u \in Threads \ {t} : calls'[p][u] = calls[p][u]
  BY <1>1 DEF IInv, TypeInv
<1>5. accepted[p] \subseteq accepted'[p] /\ accepted'[p] \subseteq accepted[p] \cup {e}
  BY <1>1 DEF IInv, TypeInv
<1>6. TypeInv'
  <2>1. Idle \in CallState
    BY DEF Idle, CallState
  <2>2. mem' \in [Procs -> MemState]
    BY <1>1, <1>3 DEF IInv, TypeInv
  <2>3. calls' \in [Procs -> [Threads -> CallState]]
    BY <1>1, <2>1 DEF IInv, TypeInv
  <2>4. accepted' \in [Procs -> SUBSET Events]
    <3>1. accepted[p] \cup {e} \in SUBSET Events
      BY <1>1, Here
    <3>2. accepted' = [accepted EXCEPT ![p] = accepted[p] \cup {e}] \/ accepted' = accepted
      BY <1>1
    <3> QED
      BY <3>1, <3>2 DEF IInv, TypeInv
  <2>5. count' \in Nat
    BY <1>1, Numbers
  <2> QED
    BY <1>1, <2>2, <2>3, <2>4, <2>5 DEF IInv, TypeInv
<1>7. Good(p)'
  <2>1. Unborn(p)'
    BY <1>1 DEF Unborn
  <2>2. OneStarter(p)'
    BY <1>1, <1>3, <1>4, Here DEF Good, OneStarter, Idle
  <2>3. Counted(p)'
    <3>1. \A f \in accepted'[p] : f.n <= count'
      <4> SUFFICES ASSUME NEW f \in accepted'[p] PROVE f.n <= count'
        OBVIOUS
      <4>1. CASE f = e
        BY <1>1, <4>1, Numbers
      <4>2. CASE f # e
        <5>1. f \in Events /\ f.n <= count
          BY <1>5, <4>2, Here DEF Good, Counted
        <5>2. f.n \in Nat
          BY <5>1 DEF Events
        <5> QED
          BY <1>1, <5>1, <5>2, Numbers
      <4> QED
        BY <4>1, <4>2
    <3>2. CASE room
      <4>1. mem'[p].queue = mem[p].queue \cup {e} /\ mem'[p].unfinished = mem[p].unfinished + 1
            /\ accepted'[p] = accepted[p] \cup {e}
        BY <1>1, <1>3, <3>2 DEF IInv, TypeInv
      <4>2. e \notin mem[p].queue /\ e \notin writer[p].batch /\ IsFiniteSet(mem[p].queue)
        BY <1>1, <1>2, Here DEF Good, Counted
      <4>3. IsFiniteSet(mem'[p].queue) /\ Cardinality(mem'[p].queue) = Cardinality(mem[p].queue) + 1
        BY <4>1, <4>2, OneMore
      <4>4. Cardinality(mem[p].queue) \in Nat /\ Cardinality(writer[p].batch) \in Nat
        BY <1>1, <4>2, Here, FS_CardinalityType DEF Good, Counted
      <4>5. mem'[p].unfinished = Cardinality(mem'[p].queue) + Cardinality(writer'[p].batch)
        BY <1>1, <4>1, <4>3, <4>4, Here DEF Good, Counted
      <4> QED
        BY <1>1, <1>3, <3>1, <4>1, <4>2, <4>3, <4>5, Here DEF Good, Counted
    <3>3. CASE ~room
      BY <1>1, <1>3, <3>1, <3>3, Here DEF Good, Counted
    <3> QED
      BY <3>2, <3>3
  <2>4. Settles(p)'
    BY <1>1, Here DEF Good, Settles
  <2>5. Flushes(p)'
    BY <1>1, <1>4, <1>5, Here DEF Good, Flushes, Idle
  <2> QED
    BY <2>1, <2>2, <2>3, <2>4, <2>5 DEF Good
<1>8. \A q \in Procs \ {p} : calls'[q] = calls[q] /\ mem'[q] = mem[q] /\ accepted'[q] = accepted[q]
  BY <1>1 DEF IInv, TypeInv
<1>9. 2 * givenUp' + Retrying(p)' + faults <= 2 * givenUp + Retrying(p) + faults'
  BY <1>1, Free
<1>10. count <= count'
  BY <1>1, Numbers
<1> QED
  BY <1>1, <1>6, <1>7, <1>8, <1>9, <1>10, OneProcess

-----------------------------------------------------------------------------
\* Where a writer runs, the queue is the process's own.
LEMMA WriterHasItsQueue ==
  ASSUME IInv, NEW p \in Procs, writer[p].pc # "none"
  PROVE  /\ mem[p].thread = "alive" /\ mem[p].pid = p
         /\ IsFiniteSet(mem[p].queue) /\ IsFiniteSet(writer[p].batch)
         /\ Cardinality(mem[p].queue) \in Nat /\ Cardinality(writer[p].batch) \in Nat
BY Here, FS_CardinalityType DEF Good, OneStarter, Counted, NoWriter

\* A step of the writer that leaves the queue and its counter alone.
LEMMA WriterMoves ==
  ASSUME IInv, NEW p \in Procs, life[p] = "running", writer[p].pc # "none",
         NEW w \in WriterState, w.batch = writer[p].batch,
         writer' = [writer EXCEPT ![p] = w],
         NEW done \in SUBSET Events, settled' = [settled EXCEPT ![p] = @ \cup done],
         done \subseteq rows' \cup lost',
         w.pc \in {"write", "sleep"},
         w.batch \ w.todo \subseteq settled[p] \cup done,
         rows \subseteq rows', lost \subseteq lost', givenUp' \in Nat, faults' \in Nat,
         2 * givenUp' + (IF w.pc = "sleep" \/ w.again THEN 1 ELSE 0) + faults
           <= 2 * givenUp + Retrying(p) + faults',
         UNCHANGED <<mem, calls, life, count, accepted>>
  PROVE  IInv'
<1>1. writer'[p] = w /\ settled'[p] = settled[p] \cup done
  BY DEF IInv, TypeInv
<1>2. TypeInv'
  BY <1>1 DEF IInv, TypeInv
<1>3. Good(p)'
  <2>1. Unborn(p)' /\ OneStarter(p)'
    BY WriterHasItsQueue, Here DEF Good, Unborn, OneStarter
  <2>2. Counted(p)'
    BY <1>1, Here DEF Good, Counted
  <2>3. Settles(p)' /\ Flushes(p)'
    BY <1>1, Here DEF Good, Settles, Flushes
  <2> QED
    BY <2>1, <2>2, <2>3 DEF Good
<1>4. \A q \in Procs \ {p} : writer'[q] = writer[q] /\ settled'[q] = settled[q]
  BY DEF IInv, TypeInv
<1>5. 2 * givenUp' + Retrying(p)' + faults <= 2 * givenUp + Retrying(p) + faults' /\ count <= count'
  BY <1>1, Numbers DEF Retrying
<1> QED
  BY <1>2, <1>3, <1>4, <1>5, OneProcess

\* What the two ways to take an event from the queue have in common.
LEMMA TakeStep ==
  ASSUME IInv, NEW p \in Procs, life[p] = "running", writer[p].pc \in {"get", "more"}, Take(p),
         UNCHANGED <<calls, life, rows, count, faults, history>>
  PROVE  IInv'
<1> USE DEF history
<1>1. PICK e \in mem[p].queue :
        /\ mem' = [mem EXCEPT ![p].queue = @ \ {e}]
        /\ writer' = [writer EXCEPT ![p].pc = "more", ![p].batch = @ \cup {e}]
  BY DEF Take, Oldest
<1> DEFINE m == mem[p]
           w == writer[p]
           rest == m.queue \ {e}
           batch == w.batch \cup {e}
<1>2. m \in MemState /\ w \in WriterState /\ rest \in SUBSET Events /\ batch \in SUBSET Events
  BY Here DEF MemState, WriterState
<1>3. mem'[p] = [m EXCEPT !.queue = rest] /\ writer'[p] = [w EXCEPT !.pc = "more", !.batch = batch]
  BY <1>1 DEF IInv, TypeInv
<1>4. rest = mem[p].queue \ {e} /\ batch = writer[p].batch \cup {e}
  OBVIOUS
<1> HIDE DEF rest, batch
<1>5. /\ mem'[p] \in MemState /\ mem'[p].pid = m.pid /\ mem'[p].thread = m.thread
      /\ mem'[p].locked = m.locked /\ mem'[p].unfinished = m.unfinished /\ mem'[p].queue = rest
  <2> HIDE DEF m
  <2> QED
    BY <1>2, <1>3 DEF MemState
<1>6. /\ writer'[p] \in WriterState /\ writer'[p].pc = "more" /\ writer'[p].batch = batch
      /\ writer'[p].again = w.again
  <2> HIDE DEF w
  <2> QED
    BY <1>2, <1>3 DEF WriterState
<1>7. TypeInv'
  <2>1. mem' \in [Procs -> MemState] /\ writer' \in [Procs -> WriterState]
    BY <1>1, <1>5, <1>6 DEF IInv, TypeInv
  <2> QED
    BY <2>1 DEF IInv, TypeInv
<1>8. Good(p)'
  <2>1. Unborn(p)' /\ Flushes(p)'
    BY Here DEF Good, Unborn, Flushes
  <2>2. OneStarter(p)'
    BY <1>5, WriterHasItsQueue, Here DEF Good, OneStarter
  <2>3. Settles(p)'
    BY <1>6, Here DEF Good, Settles
  <2>4. Counted(p)'
    <3>1. /\ mem[p].pid = p /\ IsFiniteSet(mem[p].queue) /\ IsFiniteSet(writer[p].batch)
          /\ Cardinality(mem[p].queue) \in Nat /\ Cardinality(writer[p].batch) \in Nat
      BY WriterHasItsQueue
    <3>2. /\ e \notin writer[p].batch /\ mem[p].queue \cap writer[p].batch = {}
          /\ mem[p].unfinished = Cardinality(mem[p].queue) + Cardinality(writer[p].batch)
          /\ mem[p].queue \cup writer[p].batch \subseteq accepted[p]
          /\ accepted[p] \subseteq mem[p].queue \cup writer[p].batch \cup settled[p]
      BY <3>1, Here DEF Good, Counted
    <3>3. IsFiniteSet(rest) /\ Cardinality(rest) = Cardinality(mem[p].queue) - 1
      BY <1>4, <3>1, FS_RemoveElement
    <3>4. IsFiniteSet(batch) /\ Cardinality(batch) = Cardinality(writer[p].batch) + 1
      BY <1>4, <3>1, <3>2, OneMore
    <3>5. mem'[p].unfinished = Cardinality(mem'[p].queue) + Cardinality(writer'[p].batch)
      BY <1>5, <1>6, <3>1, <3>2, <3>3, <3>4
    <3>6. rest \cap batch = {} /\ rest \cup batch = mem[p].queue \cup writer[p].batch
      BY <1>4, <3>2
    <3> QED
      BY <1>5, <1>6, <3>1, <3>2, <3>3, <3>4, <3>5, <3>6, Here DEF Good, Counted
  <2> QED
    BY <2>1, <2>2, <2>3, <2>4 DEF Good
<1>9. \A q \in Procs \ {p} : mem'[q] = mem[q] /\ writer'[q] = writer[q]
  BY <1>1 DEF IInv, TypeInv
<1>10. 2 * givenUp' + Retrying(p)' + faults <= 2 * givenUp + Retrying(p) + faults' /\ count <= count'
  <2>1. writer'[p].pc # "sleep" /\ writer[p].pc # "sleep" /\ writer'[p].again = writer[p].again
    BY <1>6
  <2> QED
    BY <2>1, Free, Numbers
<1> QED
  BY <1>7, <1>8, <1>9, <1>10, OneProcess

LEMMA WriterTakes ==
  ASSUME IInv, NEW p \in Procs, WriterGet(p) \/ WriterMore(p) PROVE IInv'
<1> USE DEF history
<1>1. CASE WriterGet(p)
  BY <1>1, TakeStep DEF WriterGet, WriterAt
<1>2. CASE WriterMore(p) /\ Cardinality(writer[p].batch) < BatchMax /\ mem[p].queue # {}
  BY <1>2, TakeStep DEF WriterMore, WriterAt
<1>3. CASE WriterMore(p) /\ ~(Cardinality(writer[p].batch) < BatchMax /\ mem[p].queue # {})
  <2> DEFINE x == writer[p]
             w == [x EXCEPT !.pc = "write", !.todo = x.batch]
  <2>1. x \in WriterState /\ x.pc = "more" /\ life[p] = "running"
    BY <1>3, Here DEF WriterMore, WriterAt
  <2>2. writer' = [writer EXCEPT ![p] = w] /\ UNCHANGED <<mem, calls, life, rows, count, faults, history>>
    BY <1>3 DEF WriterMore, IInv, TypeInv
  <2>3. w \in WriterState /\ w.batch = x.batch /\ w.todo = x.batch /\ w.pc = "write" /\ w.again = x.again
    <3> HIDE DEF x
    <3> QED
      BY <2>1 DEF WriterState
  <2> HIDE DEF w
  <2> DEFINE none == {}
  <2>4. settled' = [settled EXCEPT ![p] = @ \cup none] /\ none \in SUBSET Events /\ none \subseteq rows' \cup lost'
    BY <2>2 DEF IInv, TypeInv
  <2>5. 2 * givenUp' + (IF w.pc = "sleep" \/ w.again THEN 1 ELSE 0) + faults
          <= 2 * givenUp + Retrying(p) + faults'
    BY <2>1, <2>2, <2>3, Numbers DEF Retrying
  <2> HIDE DEF none
  <2>6. w.batch \ w.todo \subseteq settled[p] \cup none /\ w.batch = writer[p].batch
    BY <2>1, <2>3
  <2> QED
    BY <2>1, <2>2, <2>3, <2>4, <2>5, <2>6, Numbers, WriterMoves
<1> QED
  BY <1>1, <1>2, <1>3

\* A group that is done with, written or given up.
LEMMA GroupSteps ==
  ASSUME IInv, NEW p \in Procs, WriterAt(p, "write"), GroupDone(p),
         Group(writer[p].todo) \subseteq rows' \cup lost',
         rows \subseteq rows', lost \subseteq lost', givenUp' \in Nat, faults' \in Nat,
         2 * givenUp' + faults <= 2 * givenUp + Retrying(p) + faults',
         UNCHANGED <<mem, calls, life, count, accepted>>
  PROVE  IInv'
<1> DEFINE x == writer[p]
           w == [x EXCEPT !.pc = "write", !.again = FALSE, !.todo = Rest(x.todo)]
<1>1. x \in WriterState /\ x.pc = "write" /\ life[p] = "running"
  BY Here DEF WriterAt
<1>2. Group(x.todo) \in SUBSET Events /\ Rest(x.todo) \in SUBSET Events
      /\ x.todo \ Rest(x.todo) \subseteq Group(x.todo)
  BY <1>1 DEF Group, Rest, WriterState
<1>3. writer' = [writer EXCEPT ![p] = w]
      /\ settled' = [settled EXCEPT ![p] = @ \cup Group(x.todo)]
  BY DEF GroupDone, IInv, TypeInv
<1>4. w \in WriterState /\ w.batch = x.batch /\ w.todo = Rest(x.todo) /\ w.pc = "write" /\ ~w.again
  <2> HIDE DEF x
  <2> QED
    BY <1>1, <1>2 DEF WriterState
<1> HIDE DEF w
<1>5. w.batch \ w.todo \subseteq settled[p] \cup Group(x.todo)
  BY <1>1, <1>2, <1>4, Here DEF Good, Settles
<1>6. 2 * givenUp' + (IF w.pc = "sleep" \/ w.again THEN 1 ELSE 0) + faults
        <= 2 * givenUp + Retrying(p) + faults'
  <2>1. (IF w.pc = "sleep" \/ w.again THEN 1 ELSE 0) = 0
    BY <1>4
  <2> QED
    BY <2>1, Numbers DEF Retrying
<1> QED
  BY <1>1, <1>2, <1>3, <1>4, <1>5, <1>6, WriterMoves

LEMMA WriterTries ==
  ASSUME IInv, NEW p \in Procs, WriterWrite(p) \/ WriterFails(p) PROVE IInv'
<1> USE DEF history
<1> Retrying(p) \in {0, 1}
  BY DEF Retrying
<1>1. CASE WriterWrite(p)
  BY <1>1, Numbers, GroupSteps DEF WriterWrite
<1>2. CASE WriterFails(p) /\ writer[p].again
  <2>1. /\ GroupDone(p) /\ lost' = lost \cup Group(writer[p].todo) /\ givenUp' = givenUp + 1
        /\ rows \subseteq rows' /\ faults' = faults + 1 /\ WriterAt(p, "write")
        /\ UNCHANGED <<mem, calls, life, count, accepted>>
    BY <1>2 DEF WriterFails
  <2>2. Retrying(p) = 1
    BY <1>2 DEF Retrying
  <2>3. 2 * givenUp' + faults <= 2 * givenUp + Retrying(p) + faults' /\ givenUp' \in Nat /\ faults' \in Nat
    BY <2>1, <2>2, Numbers
  <2> QED
    BY <2>1, <2>3, GroupSteps
<1>3. CASE WriterFails(p) /\ ~writer[p].again
  <2> DEFINE x == writer[p]
             w == [x EXCEPT !.pc = "sleep"]
  <2>1. x \in WriterState /\ x.pc = "write" /\ ~x.again /\ life[p] = "running"
        /\ x.batch \ x.todo \subseteq settled[p]
    BY <1>3, Here DEF WriterFails, WriterAt, Good, Settles
  <2>2. /\ writer' = [writer EXCEPT ![p] = w] /\ rows \subseteq rows' /\ faults' = faults + 1
        /\ UNCHANGED <<mem, calls, life, count, accepted, settled, lost, givenUp>>
    BY <1>3 DEF WriterFails, IInv, TypeInv
  <2>3. w \in WriterState /\ w.batch = x.batch /\ w.todo = x.todo /\ w.pc = "sleep"
    <3> HIDE DEF x
    <3> QED
      BY <2>1 DEF WriterState
  <2> HIDE DEF w
  <2> DEFINE none == {}
  <2>4. settled' = [settled EXCEPT ![p] = @ \cup none] /\ none \in SUBSET Events /\ none \subseteq rows' \cup lost'
    BY <2>2 DEF IInv, TypeInv
  <2>5. 2 * givenUp' + (IF w.pc = "sleep" \/ w.again THEN 1 ELSE 0) + faults
          <= 2 * givenUp + Retrying(p) + faults' /\ givenUp' \in Nat /\ faults' \in Nat
    BY <2>2, <2>3, Numbers
  <2> HIDE DEF none
  <2>6. w.batch \ w.todo \subseteq settled[p] \cup none /\ w.batch = writer[p].batch
    BY <2>1, <2>3
  <2> QED
    BY <2>1, <2>2, <2>3, <2>4, <2>5, <2>6, WriterMoves
<1> QED
  BY <1>1, <1>2, <1>3

LEMMA WriterWakesStep ==
  ASSUME IInv, NEW p \in Procs, WriterWakes(p) PROVE IInv'
<1> USE DEF history
<1> DEFINE x == writer[p]
           w == [x EXCEPT !.pc = "write", !.again = TRUE]
<1>1. x \in WriterState /\ x.pc = "sleep" /\ life[p] = "running"
      /\ x.batch \ x.todo \subseteq settled[p]
  BY Here DEF WriterWakes, WriterAt, Good, Settles
<1>2. writer' = [writer EXCEPT ![p] = w] /\ UNCHANGED <<mem, calls, life, rows, count, faults, history>>
  BY DEF WriterWakes, IInv, TypeInv
<1>3. w \in WriterState /\ w.batch = x.batch /\ w.todo = x.todo /\ w.pc = "write"
  <2> HIDE DEF x
  <2> QED
    BY <1>1 DEF WriterState
<1> HIDE DEF w
<1> DEFINE none == {}
<1>4. settled' = [settled EXCEPT ![p] = @ \cup none] /\ none \in SUBSET Events /\ none \subseteq rows' \cup lost'
  BY <1>2 DEF IInv, TypeInv
<1>5. 2 * givenUp' + (IF w.pc = "sleep" \/ w.again THEN 1 ELSE 0) + faults
        <= 2 * givenUp + Retrying(p) + faults'
  <2>1. Retrying(p) = 1
    BY <1>1 DEF Retrying
  <2> QED
    BY <1>2, <2>1, Numbers
<1> HIDE DEF none
<1>6. w.batch \ w.todo \subseteq settled[p] \cup none /\ w.batch = writer[p].batch
  BY <1>1, <1>3
<1> QED
  BY <1>1, <1>2, <1>3, <1>4, <1>5, <1>6, Numbers, WriterMoves

\* The counter of the queue is what is still in it: the batch has been settled.
LEMMA WriterDoneStep ==
  ASSUME IInv, NEW p \in Procs, WriterDone(p) PROVE IInv'
<1> USE DEF history
<1> DEFINE m == mem[p]
           k == m.unfinished - Cardinality(writer[p].batch)
           w == [NoWriter EXCEPT !.pc = "get"]
<1>1. /\ m \in MemState /\ m.pid = p /\ m.thread = "alive" /\ life[p] = "running"
      /\ IsFiniteSet(m.queue) /\ Cardinality(m.queue) \in Nat
      /\ Cardinality(writer[p].batch) \in Nat
      /\ m.unfinished = Cardinality(m.queue) + Cardinality(writer[p].batch)
      /\ writer[p].batch \subseteq settled[p]
  <2>1. writer[p].pc = "write" /\ writer[p].todo = {} /\ life[p] = "running"
    BY DEF WriterDone, WriterAt
  <2> QED
    BY <2>1, WriterHasItsQueue, Here DEF Good, Counted, Settles
<1>2. k = Cardinality(m.queue) /\ k \in Nat
  BY <1>1
<1>3. mem'[p] = [m EXCEPT !.unfinished = k] /\ mem' = [mem EXCEPT ![p] = mem'[p]]
      /\ writer' = [writer EXCEPT ![p] = w]
      /\ UNCHANGED <<calls, life, rows, count, faults, history>>
  BY DEF WriterDone, IInv, TypeInv
<1> HIDE DEF k
<1>4. /\ mem'[p] \in MemState /\ mem'[p].pid = p /\ mem'[p].thread = "alive"
      /\ mem'[p].locked = m.locked /\ mem'[p].queue = m.queue /\ mem'[p].unfinished = k
  <2> HIDE DEF m
  <2> QED
    BY <1>1, <1>2, <1>3 DEF MemState
<1>5. w \in WriterState /\ w.batch = {} /\ w.pc = "get" /\ ~w.again
  BY DEF NoWriter, WriterState
<1> HIDE DEF w
<1>6. writer'[p] = w /\ \A q \in Procs \ {p} : writer'[q] = writer[q] /\ mem'[q] = mem[q]
  BY <1>3 DEF IInv, TypeInv
<1>7. TypeInv'
  BY <1>3, <1>4, <1>5 DEF IInv, TypeInv
<1>8. Good(p)'
  <2>1. Unborn(p)' /\ OneStarter(p)' /\ Settles(p)' /\ Flushes(p)'
    BY <1>1, <1>3, <1>4, <1>5, <1>6, Here DEF Good, Unborn, OneStarter, Settles, Flushes
  <2>2. Counted(p)'
    <3>1. Cardinality(w.batch) = 0 /\ IsFiniteSet(w.batch)
      BY <1>5, FS_EmptySet
    <3>2. k = Cardinality(m.queue) + Cardinality(w.batch)
      BY <1>1, <1>2, <3>1
    <3> QED
      BY <1>1, <1>3, <1>4, <1>5, <1>6, <3>1, <3>2, Here DEF Good, Counted
  <2> QED
    BY <2>1, <2>2 DEF Good
<1>9. 2 * givenUp' + Retrying(p)' + faults <= 2 * givenUp + Retrying(p) + faults' /\ count <= count'
  BY <1>3, <1>5, <1>6, Free, Numbers
<1> QED
  BY <1>3, <1>6, <1>7, <1>8, <1>9, OneProcess

\* The child has its parent's queue, which it does not use, and no writer.
LEMMA ForkStep ==
  ASSUME IInv, NEW t \in Threads, Fork(t) PROVE IInv'
<1> USE DEF history
<1> DEFINE p == "child"
           m == mem["parent"]
           thread == IF m.thread = "none" THEN "none" ELSE "dead"
<1>1. p \in Procs /\ "parent" \in Procs /\ "parent" # p
  BY DEF Procs
<1>2. /\ mem[p] = NewMem /\ accepted[p] = {} /\ settled[p] = {} /\ writer[p] = NoWriter
      /\ calls[p] = [u \in Threads |-> Absent] /\ m \in MemState /\ m.pid \in {"parent", "none"}
  <2>1. Unborn(p) /\ OneStarter(p) /\ OneStarter("parent") /\ m \in MemState
    BY <1>1, Here DEF Good
  <2>2. mem[p] = NewMem /\ NewMem.thread = "none"
    BY <2>1 DEF Fork, Unborn, NewMem
  <2> QED
    BY <2>1, <2>2 DEF Fork, Unborn, OneStarter
<1>3. /\ mem' = [mem EXCEPT ![p] = [m EXCEPT !.thread = thread]]
      /\ calls' = [calls EXCEPT ![p][t] = Idle] /\ life' = [life EXCEPT ![p] = "running"]
      /\ UNCHANGED <<writer, rows, count, faults, history>>
  BY <1>1 DEF Fork, IInv, TypeInv
<1>4. /\ mem'[p] = [m EXCEPT !.thread = thread]
      /\ mem'[p] \in MemState /\ mem'[p].pid # p /\ mem'[p].thread # "alive"
      /\ mem'[p].pid \in {p, "parent", "none"}
  <2>1. mem'[p] = [m EXCEPT !.thread = thread]
    BY <1>1, <1>3 DEF IInv, TypeInv
  <2>2. thread \in {"none", "dead"}
    OBVIOUS
  <2> HIDE DEF thread
  <2>3. mem'[p] \in MemState /\ mem'[p].thread = thread /\ mem'[p].pid = m.pid
    <3> HIDE DEF m
    <3> QED
      BY <1>2, <2>1, <2>2 DEF MemState
  <2> QED
    BY <1>2, <2>1, <2>2, <2>3
<1>5. \A u \in Threads : calls'[p][u].pc \in {"idle", "absent"}
  <2>1. Idle.pc = "idle" /\ Absent.pc = "absent"
    BY DEF Idle, Absent
  <2>2. \A u \in Threads : calls'[p][u] = IF u = t THEN Idle ELSE calls[p][u]
    BY <1>1, <1>3 DEF IInv, TypeInv
  <2> QED
    BY <1>2, <2>1, <2>2
<1>6. TypeInv'
  <2>1. Idle \in CallState
    BY DEF Idle, CallState
  <2>2. mem' \in [Procs -> MemState]
    BY <1>1, <1>3, <1>4 DEF IInv, TypeInv
  <2>3. calls' \in [Procs -> [Threads -> CallState]]
    BY <1>1, <1>3, <2>1 DEF IInv, TypeInv
  <2>4. life' \in [Procs -> {"not yet", "running", "gone"}]
    BY <1>1, <1>3 DEF IInv, TypeInv
  <2> QED
    BY <1>3, <2>2, <2>3, <2>4 DEF IInv, TypeInv
<1>7. Good(p)'
  <2>1. Unborn(p)'
    BY <1>1, <1>3 DEF Unborn, IInv, TypeInv
  <2>2. OneStarter(p)'
    BY <1>2, <1>3, <1>4, <1>5 DEF OneStarter
  <2>3. Counted(p)' /\ Settles(p)' /\ Flushes(p)'
    BY <1>2, <1>3, <1>4, <1>5 DEF Counted, Settles, Flushes, NoWriter
  <2> QED
    BY <2>1, <2>2, <2>3 DEF Good
<1>8. \A q \in Procs \ {p} : mem'[q] = mem[q] /\ calls'[q] = calls[q] /\ life'[q] = life[q]
  BY <1>3 DEF IInv, TypeInv
<1>9. 2 * givenUp' + Retrying(p)' + faults <= 2 * givenUp + Retrying(p) + faults' /\ count <= count'
  BY <1>1, <1>3, Free, Numbers
<1> QED
  BY <1>1, <1>3, <1>6, <1>7, <1>8, <1>9, OneProcess

\* A process that is gone holds nothing; what its writer was retrying is not lost twice.
LEMMA ExitStep ==
  ASSUME IInv, NEW p \in Procs, Exit(p) PROVE IInv'
<1> USE DEF history
<1>1. NewMem \in MemState /\ Absent \in CallState /\ NoWriter \in WriterState
  BY DEF NewMem, MemState, Absent, CallState, NoWriter, WriterState
<1>2. TypeInv'
  BY <1>1 DEF Exit, IInv, TypeInv
<1>3. /\ mem'[p] = NewMem /\ calls'[p] = [t \in Threads |-> Absent] /\ writer'[p] = NoWriter
      /\ life'[p] = "gone" /\ accepted'[p] = {} /\ settled'[p] = {}
  BY DEF Exit, IInv, TypeInv
<1>4. Good(p)'
  <2>1. Unborn(p)' /\ Settles(p)' /\ Flushes(p)'
    BY <1>3 DEF Unborn, Settles, Flushes, NoWriter, Absent
  <2>2. OneStarter(p)' /\ Counted(p)'
    BY <1>3 DEF OneStarter, Counted, NewMem, Absent, Procs
  <2> QED
    BY <2>1, <2>2 DEF Good
<1>5. \A q \in Procs \ {p} :
        /\ mem'[q] = mem[q] /\ calls'[q] = calls[q] /\ writer'[q] = writer[q]
        /\ life'[q] = life[q] /\ accepted'[q] = accepted[q] /\ settled'[q] = settled[q]
  BY DEF Exit, IInv, TypeInv
<1>6. 2 * givenUp' + Retrying(p)' + faults <= 2 * givenUp + Retrying(p) + faults' /\ count <= count'
  <2>1. writer'[p].pc # "sleep" /\ ~writer'[p].again
    BY <1>3 DEF NoWriter
  <2>2. givenUp' = givenUp /\ faults' = faults /\ count' = count
    BY DEF Exit
  <2> QED
    BY <2>1, <2>2, Free, Numbers
<1> QED
  BY <1>2, <1>4, <1>5, <1>6, OneProcess DEF Exit

-----------------------------------------------------------------------------
\* Each step of a request thread, of a writer or of the system keeps the invariant.
THEOREM TelemetryPreserved == IInv /\ [Next]_vars => IInv'
<1> SUFFICES ASSUME IInv, [Next]_vars PROVE IInv'
  OBVIOUS
<1>1. ASSUME NEW p \in Procs, Write(p) PROVE IInv'
  BY <1>1, WriterTakes, WriterTries, WriterWakesStep, WriterDoneStep DEF Write
<1>2. ASSUME NEW p \in Procs, NEW t \in Threads, Call(p, t) PROVE IInv'
  BY <1>2, SubmitStep, EnsureStep, EnsureLockStep, StartSteps, PutStep, FlushSteps DEF Call
<1>3. ASSUME NEW p \in Procs, Exit(p) PROVE IInv'
  BY <1>3, ExitStep
<1>4. ASSUME NEW t \in Threads, Fork(t) PROVE IInv'
  BY <1>4, ForkStep
<1>5. CASE UNCHANGED vars
  <2>1. TypeInv' /\ TwoFailures'
    BY <1>5 DEF vars, history, IInv, TypeInv, TwoFailures, Retrying
  <2>2. ASSUME NEW p \in Procs PROVE Good(p)'
    <3>1. mem' = mem /\ calls' = calls /\ writer' = writer /\ life' = life /\ rows' = rows
          /\ count' = count /\ accepted' = accepted /\ settled' = settled /\ lost' = lost
      BY <1>5 DEF vars, history
    <3>2. count \in Nat /\ Good(p)
      BY Here, Numbers
    <3> QED
      BY <3>1, <3>2, Untouched DEF IInv
  <2> QED
    BY <2>1, <2>2 DEF IInv
<1> QED
  BY <1>1, <1>2, <1>3, <1>4, <1>5 DEF Next

\* Whatever record_event, the writer thread, flush, a fork and a failing database do,
\* an event a process accepted is in its queue, in its writer's hands, a row or lost,
\* and the counter of the queue is what is in the first two.
THEOREM TelemetryInvariance == Spec => []IInv
BY TelemetryInitially, TelemetryPreserved, PTL DEF Spec

\* Where flush (telemetry.py:186) answers True, each event that record_event had
\* accepted before is in the table, or its group was given up after two failures.
THEOREM FlushAlwaysMeansStored == Spec => []FlushMeansStored
<1>1. IInv => FlushMeansStored
  <2> SUFFICES ASSUME IInv PROVE FlushMeansStored
    OBVIOUS
  <2>1. ASSUME NEW p \in Procs, NEW t \in Threads, calls[p][t].pc = "flushed",
               NEW e \in calls[p][t].before
        PROVE  e \in rows \/ e \in lost
    BY <2>1, Here DEF Good, Flushes, Settles
  <2>2. 2 * givenUp <= faults
    <3>1. Retrying("parent") \in {0, 1} /\ Retrying("child") \in {0, 1}
      BY DEF Retrying
    <3> QED
      BY <3>1, Numbers DEF IInv, TwoFailures
  <2> QED
    BY <2>1, <2>2 DEF FlushMeansStored
<1> QED
  BY <1>1, TelemetryInvariance, PTL

\* After a fork the child's writer has only the child's events: _ensure
\* (telemetry.py:90-92) leaves the parent's queue behind.
THEOREM ChildAlwaysWritesItsOwn == Spec => []ChildWritesItsOwn
<1>1. IInv => ChildWritesItsOwn
  <2> SUFFICES ASSUME IInv, NEW p \in Procs, mem[p].pid = p
               PROVE  mem[p].queue \cup writer[p].batch \subseteq accepted[p]
    BY DEF ChildWritesItsOwn
  <2> QED
    BY Here DEF Good, Counted
<1> QED
  BY <1>1, TelemetryInvariance, PTL

=============================================================================

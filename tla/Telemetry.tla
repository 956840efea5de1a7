------------------------------ MODULE Telemetry ------------------------------
(***************************************************************************)
(* anomaly/telemetry.py: events that request threads put into a bounded    *)
(* queue and one daemon thread per process writes in batches.  The process *)
(* may fork, with its memory and without its threads; it may end, and the  *)
(* writer with it.  Events are numbered in the order they are put, and     *)
(* that is also their id; the count of dropped events and its warnings are *)
(* left out.                                                               *)
(***************************************************************************)
EXTENDS Naturals, FiniteSets

CONSTANTS
  Threads,   \* request threads of a process
  Databases, \* managers events are written through
  QueueMax, BatchMax,
  MaxEvents, \* bound on events
  MaxFaults  \* bound on failed writes and threads that do not start

ASSUME TelemetryAssumption ==
  QueueMax \in Nat /\ BatchMax \in Nat /\ MaxEvents \in Nat /\ MaxFaults \in Nat

VARIABLES
  mem,      \* the _Writer object of each process
  calls,    \* record_event and flush
  writer,   \* the thread that runs _run
  life,     \* of each process: not yet, running, gone
  rows,     \* anomaly_runtime_events, as the events they hold
  count,    \* events so far
  faults,
  accepted, \* history: the events record_event returned True for, by process
  settled,  \* history: the events _write has returned for, by process
  lost, givenUp \* history: events of groups that were given up, and how many groups

history == <<accepted, settled, lost, givenUp>>
vars == <<mem, calls, writer, life, rows, count, faults, history>>

Procs == {"parent", "child"}
Idle == [pc |-> "idle", before |-> {}]
Absent == [pc |-> "absent", before |-> {}]
NoWriter == [pc |-> "none", batch |-> {}, todo |-> {}, again |-> FALSE]

\* pid is the process that made the queue; the thread may be one the fork left behind.
NewMem == [pid |-> "none", queue |-> {}, unfinished |-> 0, locked |-> FALSE, thread |-> "none"]

At(p, t, pc) == life[p] = "running" /\ calls[p][t].pc = pc
Go(p, t, pc) == calls' = [calls EXCEPT ![p][t].pc = pc]
Return(p, t) == calls' = [calls EXCEPT ![p][t] = Idle]

\* The event that was put before the others, if there is any.
Oldest(events) == {e \in events : \A f \in events : e.n <= f.n}

-----------------------------------------------------------------------------
InSubmit ==
  {s \in Procs \X Threads : calls[s[1]][s[2]].pc \in {"ensure", "lock", "start", "put"}}

\* record_event, for an event that may be written: submit begins with _ensure.
Submit(p, t) ==
  /\ At(p, t, "idle")
  /\ count + Cardinality(InSubmit) < MaxEvents
  /\ Go(p, t, "ensure")
  /\ UNCHANGED <<mem, writer, life, rows, count, faults, history>>

RunningWrong(p) == mem[p].thread # "none"   \* started once, in whatever process
Running(p) == mem[p].thread = "alive" /\ mem[p].pid = p

Ensure(p, t) ==
  /\ At(p, t, "ensure")
  /\ Go(p, t, IF Running(p) THEN "put" ELSE "lock")
  /\ UNCHANGED <<mem, writer, life, rows, count, faults, history>>

\* Under the lock it looks again.
EnsureLock(p, t) ==
  /\ At(p, t, "lock")
  /\ ~mem[p].locked
  /\ IF Running(p)
     THEN Go(p, t, "put") /\ UNCHANGED mem
     ELSE Go(p, t, "start") /\ mem' = [mem EXCEPT ![p].locked = TRUE]
  /\ UNCHANGED <<writer, life, rows, count, faults, history>>

OwnWrong(p) == [mem[p] EXCEPT !.pid = p]   \* the queue of the parent goes on
\* A forked child takes over neither queue nor thread of its parent.
Own(p) ==
  IF mem[p].pid = p THEN mem[p]
  ELSE [mem[p] EXCEPT !.pid = p, !.queue = {}, !.unfinished = 0]

EnsureStart(p, t) ==
  /\ At(p, t, "start")
  /\ mem' = [mem EXCEPT ![p] = [Own(p) EXCEPT !.locked = FALSE, !.thread = "alive"]]
  /\ writer' = [writer EXCEPT ![p] = [NoWriter EXCEPT !.pc = "get"]]
  /\ Go(p, t, "put")
  /\ UNCHANGED <<life, rows, count, faults, history>>

\* The system gives no thread: record_event raises, the next one tries again.
StartFails(p, t) ==
  /\ At(p, t, "start")
  /\ faults < MaxFaults
  /\ faults' = faults + 1
  /\ mem' = [mem EXCEPT ![p] = [Own(p) EXCEPT !.locked = FALSE, !.thread = "dead"]]
  /\ Return(p, t)
  /\ UNCHANGED <<writer, life, rows, count, history>>

\* put_nowait: a full queue drops the event.
Put(p, t, db) ==
  LET e == [n |-> count + 1, db |-> db]
  IN /\ At(p, t, "put")
     /\ count' = count + 1
     /\ IF Cardinality(mem[p].queue) < QueueMax
        THEN /\ mem' = [mem EXCEPT ![p].queue = @ \cup {e}, ![p].unfinished = @ + 1]
             /\ accepted' = [accepted EXCEPT ![p] = @ \cup {e}]
        ELSE UNCHANGED <<mem, accepted>>
     /\ Return(p, t)
     /\ UNCHANGED <<writer, life, rows, faults, settled, lost, givenUp>>

-----------------------------------------------------------------------------
\* flush waits on the queue there is, for as long as it was told.
FlushBegin(p, t) ==
  /\ At(p, t, "idle")
  /\ calls' = [calls EXCEPT ![p][t] = [pc |-> "flush", before |-> accepted[p]]]
  /\ UNCHANGED <<mem, writer, life, rows, count, faults, history>>

FlushTrue(p, t) ==
  /\ At(p, t, "flush")
  /\ mem[p].unfinished = 0
  /\ Go(p, t, "flushed")
  /\ UNCHANGED <<mem, writer, life, rows, count, faults, history>>

\* The time is up; or the answer has been given to the caller.
FlushReturns(p, t) ==
  /\ At(p, t, "flush") \/ At(p, t, "flushed")
  /\ Return(p, t)
  /\ UNCHANGED <<mem, writer, life, rows, count, faults, history>>

-----------------------------------------------------------------------------
WriterAt(p, pc) == life[p] = "running" /\ writer[p].pc = pc

Take(p) ==
  \E e \in Oldest(mem[p].queue) :
    /\ mem' = [mem EXCEPT ![p].queue = @ \ {e}]
    /\ writer' = [writer EXCEPT ![p].pc = "more", ![p].batch = @ \cup {e}]

\* _run: the first event is waited for, others are taken while there are any.
WriterGet(p) ==
  /\ WriterAt(p, "get")
  /\ Take(p)
  /\ UNCHANGED <<calls, life, rows, count, faults, history>>

WriterMore(p) ==
  /\ WriterAt(p, "more")
  /\ IF Cardinality(writer[p].batch) < BatchMax /\ mem[p].queue # {}
     THEN Take(p)
     ELSE /\ writer' = [writer EXCEPT ![p].pc = "write", ![p].todo = writer[p].batch]
          /\ UNCHANGED mem
  /\ UNCHANGED <<calls, life, rows, count, faults, history>>

\* The rows of one database go together.
Group(todo) == {e \in todo : \E f \in Oldest(todo) : e.db = f.db}

RestWrong(todo) == {}   \* the other databases go with the one that was written
Rest(todo) == todo \ Group(todo)

\* _write is over with the group, written or not.
GroupDone(p) ==
  /\ writer' = [writer EXCEPT ![p].pc = "write", ![p].again = FALSE,
                              ![p].todo = Rest(writer[p].todo)]
  /\ settled' = [settled EXCEPT ![p] = @ \cup Group(writer[p].todo)]

\* insert_rows: one transaction; ON CONFLICT (id) passes over what is there.
WriterWrite(p) ==
  /\ WriterAt(p, "write")
  /\ writer[p].todo # {}
  /\ rows' = rows \cup Group(writer[p].todo)
  /\ GroupDone(p)
  /\ UNCHANGED <<mem, calls, life, count, faults, accepted, lost, givenUp>>

\* No connection within a second, an error, or a commit whose answer is lost: once
\* more after a pause, then the group is given up.
WriterFails(p) ==
  /\ WriterAt(p, "write")
  /\ writer[p].todo # {}
  /\ faults < MaxFaults
  /\ faults' = faults + 1
  /\ rows' \in {rows, rows \cup Group(writer[p].todo)}
  /\ IF writer[p].again
     THEN /\ GroupDone(p)
          /\ lost' = lost \cup Group(writer[p].todo)
          /\ givenUp' = givenUp + 1
     ELSE /\ writer' = [writer EXCEPT ![p].pc = "sleep"]
          /\ UNCHANGED <<settled, lost, givenUp>>
  /\ UNCHANGED <<mem, calls, life, count, accepted>>

WriterWakes(p) ==
  /\ WriterAt(p, "sleep")
  /\ writer' = [writer EXCEPT ![p].pc = "write", ![p].again = TRUE]
  /\ UNCHANGED <<mem, calls, life, rows, count, faults, history>>

\* task_done for every event of the batch.
WriterDone(p) ==
  /\ WriterAt(p, "write")
  /\ writer[p].todo = {}
  /\ mem' = [mem EXCEPT ![p].unfinished = @ - Cardinality(writer[p].batch)]
  /\ writer' = [writer EXCEPT ![p] = [NoWriter EXCEPT !.pc = "get"]]
  /\ UNCHANGED <<calls, life, rows, count, faults, history>>

-----------------------------------------------------------------------------
\* A thread that is not in this module forks: the child has the memory, with the locks
\* that were held and a thread object without a thread, and no thread but this one.
Fork(t) ==
  /\ At("parent", t, "idle")
  /\ life["child"] = "not yet"
  /\ life' = [life EXCEPT !["child"] = "running"]
  /\ mem' = [mem EXCEPT !["child"] =
               [mem["parent"] EXCEPT !.thread = IF @ = "none" THEN "none" ELSE "dead"]]
  /\ calls' = [calls EXCEPT !["child"][t] = Idle]
  /\ UNCHANGED <<writer, rows, count, faults, history>>

\* A process ends without a flush; a daemon thread is not waited for.
Exit(p) ==
  /\ life[p] = "running"
  /\ life' = [life EXCEPT ![p] = "gone"]
  /\ mem' = [mem EXCEPT ![p] = NewMem]
  /\ calls' = [calls EXCEPT ![p] = [t \in Threads |-> Absent]]
  /\ writer' = [writer EXCEPT ![p] = NoWriter]
  /\ accepted' = [accepted EXCEPT ![p] = {}]
  /\ settled' = [settled EXCEPT ![p] = {}]
  /\ UNCHANGED <<rows, count, faults, lost, givenUp>>

-----------------------------------------------------------------------------
Init ==
  /\ mem = [p \in Procs |-> NewMem]
  /\ calls = [p \in Procs |-> [t \in Threads |-> IF p = "parent" THEN Idle ELSE Absent]]
  /\ writer = [p \in Procs |-> NoWriter]
  /\ life = [p \in Procs |-> IF p = "parent" THEN "running" ELSE "not yet"]
  /\ rows = {}
  /\ count = 0 /\ faults = 0 /\ givenUp = 0 /\ lost = {}
  /\ accepted = [p \in Procs |-> {}]
  /\ settled = [p \in Procs |-> {}]

Call(p, t) ==
  \/ Submit(p, t) \/ Ensure(p, t) \/ EnsureLock(p, t) \/ EnsureStart(p, t) \/ StartFails(p, t)
  \/ \E db \in Databases : Put(p, t, db)
  \/ FlushBegin(p, t) \/ FlushTrue(p, t) \/ FlushReturns(p, t)

Write(p) ==
  \/ WriterGet(p) \/ WriterMore(p) \/ WriterWrite(p) \/ WriterFails(p)
  \/ WriterWakes(p) \/ WriterDone(p)

Next ==
  \/ \E p \in Procs : Write(p) \/ Exit(p) \/ \E t \in Threads : Call(p, t)
  \/ \E t \in Threads : Fork(t)

\* The writer runs, and a write ends: connections are waited for at most a second.
Fairness == \A p \in Procs : WF_vars(Write(p))

Spec == Init /\ [][Next]_vars /\ Fairness

-----------------------------------------------------------------------------
\* Where flush answers True, every event of this process that was accepted before it
\* was asked is a row, or its group failed twice: none is left behind by another
\* group's failure, an early task_done or a parent's queue.
FlushMeansStored ==
  /\ \A p \in Procs, t \in Threads : calls[p][t].pc = "flushed" =>
       \A e \in calls[p][t].before : e \in rows \/ e \in lost
  /\ 2 * givenUp <= faults

\* A process that has its own queue holds in it, and in its writer's hands, only what
\* it was given itself: a child does not write or wait for what its parent has queued.
ChildWritesItsOwn ==
  \A p \in Procs :
    mem[p].pid = p => mem[p].queue \cup writer[p].batch \subseteq accepted[p]

\* What a process has accepted is written or given up in the end, unless the process
\* ends first; a forked child starts a writer of its own.
EventsSettle ==
  \A p \in Procs : accepted[p] # settled[p] ~> accepted[p] = settled[p]
=============================================================================

-------------------------- MODULE ComfyJob_proofs --------------------------
(***************************************************************************)
(* Proofs about ComfyJob for any set of calls and any bounds.              *)
(* AbandonedIsStopped needs what the server has done by the time each of   *)
(* the two requests was answered (Stopping); NothingLeftRunning needs what *)
(* a call knows of its prompt while no request has failed (Knowing).       *)
(***************************************************************************)
EXTENDS ComfyJob, TLAPS

States == {None, "queued", "running", "deleted", "completed", "failed", "interrupted"}
Busy == {"prompt", "history", "view"}
Quiet == {"idle", "sleep", "abandon", "over"}
Replies == {None, "sent", "ok", "refused", "pending"} \cup Finished \cup Failures
CallState ==
  [pc : Busy, req : Replies, late : BOOLEAN, failures : Nat, unsure : BOOLEAN] \cup
  [pc : Quiet, req : {None}, late : BOOLEAN, failures : Nat, unsure : BOOLEAN]
TaskState ==
  [i : 0 .. 3, req : {None, "sent", "ok", "failed"}, done : SUBSET {"delete", "interrupt"},
   reached : BOOLEAN]

TypeInv ==
  /\ job \in [Calls -> States]
  /\ call \in [Calls -> CallState]
  /\ task \in [Calls -> TaskState]
  /\ stray \subseteq Calls \X {"prompt", "delete", "interrupt"}
  /\ faults \in Nat /\ cancels \in Nat

\* The request is answered, whether its task has noticed or not.
Answered(c, kind) ==
  \/ kind \in task[c].done
  \/ task[c].req = "ok" /\ \/ task[c].i = 1 /\ kind = "delete"
                           \/ task[c].i = 2 /\ kind = "interrupt"

\* A prompt that was there when it was given up does not wait once it was taken out
\* of the queue, and so does not run once it was stopped after that.
Stops(c) ==
  /\ task[c].req # None => task[c].i \in {1, 2}
  /\ task[c].i = 1 => task[c].done = {}
  /\ task[c].i = 2 => "interrupt" \notin task[c].done
  /\ task[c].reached =>
       /\ job[c] # None
       /\ Answered(c, "delete") => job[c] # "queued"
       /\ "delete" \in task[c].done /\ Answered(c, "interrupt") => job[c] \notin Alive

Stopping == \A c \in Calls : Stops(c)

\* What a call knows while no request has failed.
Knows(c) ==
  /\ call[c].req \notin Failures
  /\ ~call[c].unsure => <<c, "prompt">> \notin stray
  /\ call[c].pc = "idle" => ~call[c].unsure /\ job[c] = None
  /\ call[c].pc \in {"prompt", "history", "view", "sleep"} => ~call[c].unsure
  /\ call[c].pc = "prompt" => call[c].req \in {"sent", "ok", "refused"}
  /\ call[c].pc = "prompt" /\ call[c].req \in {"sent", "refused"} => job[c] = None
  /\ call[c].pc = "prompt" /\ call[c].req = "ok" => job[c] # None
  /\ call[c].pc \in {"history", "view", "sleep"} => job[c] # None
  /\ call[c].pc = "history" => call[c].req \in {"sent", "pending"} \cup Finished
  /\ call[c].pc = "history" /\ call[c].req \in Finished => job[c] \in Finished
  /\ call[c].pc = "view" => job[c] \in Finished
  /\ call[c].pc \in {"sleep", "abandon", "over"} => call[c].req = None
  /\ call[c].pc = "abandon" /\ ~call[c].unsure =>
       /\ task[c].reached
       /\ \/ task[c].i = 1 /\ task[c].req \in {"sent", "ok"}
          \/ task[c].i = 2 /\ task[c].req \in {"sent", "ok"} /\ "delete" \in task[c].done
          \/ task[c].i = 3 /\ task[c].done = {"delete", "interrupt"}
  /\ call[c].pc = "over" /\ ~call[c].unsure => job[c] \notin Alive

Knowing == faults = 0 => \A c \in Calls : Knows(c)

IInv == TypeInv /\ Stopping /\ Knowing

-----------------------------------------------------------------------------
\* How the server moves a prompt: never back into the queue.
Moves(old, new) ==
  \/ new = old
  \/ old = None /\ new = "queued"
  \/ old = "queued" /\ new \in {"deleted", "running"}
  \/ old = "running" /\ new \in Finished

LEMMA TwoRequests ==
  /\ Len(Requests) = 2 /\ Ended = 3
  /\ Requests[1] = "delete" /\ Requests[2] = "interrupt"
BY DEF Requests, Ended

\* What a request does to the prompt it is about.
LEMMA Handled ==
  ASSUME TypeInv, NEW c \in Calls, NEW kind, job' = Handle(c, kind)
  PROVE  /\ job' \in [Calls -> States]
         /\ \A d \in Calls : d # c => job'[d] = job[d]
         /\ Moves(job[c], job'[c])
         /\ kind = "prompt" => job'[c] # None
         /\ kind # "prompt" /\ job[c] = None => job'[c] = None
         /\ kind = "delete" => job'[c] # "queued"
         /\ kind = "interrupt" => job'[c] # "running"
         /\ kind \in {"delete", "interrupt"} /\ job[c] \notin Alive => job'[c] = job[c]
<1>1. CASE kind = "prompt"
  BY <1>1 DEF Handle, TypeInv, States, Moves, None, Alive
<1>2. CASE kind = "delete"
  BY <1>2 DEF Handle, TypeInv, States, Moves, None, Alive
<1>3. CASE kind = "interrupt"
  BY <1>3 DEF Handle, TypeInv, States, Moves, None, Finished, Alive
<1>4. CASE kind \notin {"prompt", "delete", "interrupt"}
  BY <1>4 DEF Handle, TypeInv, States, Moves, None
<1> QED
  BY <1>1, <1>2, <1>3, <1>4

\* What the server and the others do leaves what a task has achieved.
LEMMA StopsKept ==
  ASSUME NEW c \in Calls, Stops(c), task'[c] = task[c], Moves(job[c], job'[c])
  PROVE  Stops(c)'
BY DEF Stops, Answered, Moves, Alive, Finished, None

\* ... and what a call knows, unless its prompt arrives.
LEMMA KnowsKept ==
  ASSUME NEW c \in Calls, Knows(c), call'[c] = call[c], task'[c] = task[c],
         Moves(job[c], job'[c]),
         job[c] = None => job'[c] = None \/ call[c].unsure,
         <<c, "prompt">> \in stray' => <<c, "prompt">> \in stray
  PROVE  Knows(c)'
BY DEF Knows, Moves, Alive, Finished, None

\* A step about one call: what has to be shown of it.
LEMMA OneCall ==
  ASSUME IInv, NEW c \in Calls,
         call' \in [Calls -> CallState], \A d \in Calls : d # c => call'[d] = call[d],
         task' \in [Calls -> TaskState], \A d \in Calls : d # c => task'[d] = task[d],
         job' \in [Calls -> States], \A d \in Calls : d # c => Moves(job[d], job'[d]),
         \A d \in Calls : d # c /\ job[d] = None => job'[d] = None,
         stray' \subseteq Calls \X {"prompt", "delete", "interrupt"},
         \A d \in Calls : d # c /\ <<d, "prompt">> \in stray' => <<d, "prompt">> \in stray,
         faults' \in Nat, faults' = 0 => faults = 0, cancels' \in Nat,
         Stops(c)', faults' = 0 => Knows(c)'
  PROVE  IInv'
<1>1. TypeInv'
  BY DEF TypeInv
<1>2. Stopping'
  BY StopsKept DEF IInv, Stopping
<1>3. Knowing'
  BY KnowsKept DEF IInv, Knowing
<1> QED
  BY <1>1, <1>2, <1>3 DEF IInv

LEMMA Types ==
  ASSUME IInv
  PROVE  /\ call \in [Calls -> CallState] /\ task \in [Calls -> TaskState]
         /\ job \in [Calls -> States]
         /\ stray \subseteq Calls \X {"prompt", "delete", "interrupt"}
         /\ faults \in Nat /\ cancels \in Nat
         /\ \A c \in Calls : Stops(c) /\ (faults = 0 => Knows(c))
BY DEF IInv, TypeInv, Stopping, Knowing

\* Nothing is on its way before the first call.
THEOREM JobInitially == Init => IInv
<1> SUFFICES ASSUME Init PROVE IInv
  OBVIOUS
<1>1. NoCall \in CallState /\ NoTask \in TaskState /\ None \in States
  BY DEF NoCall, NoTask, CallState, TaskState, Busy, Quiet, Replies, States
<1>2. TypeInv
  BY <1>1 DEF Init, TypeInv
<1>3. Stopping
  BY DEF Init, Stopping, Stops, NoTask
<1>4. Knowing
  BY DEF Init, Knowing, Knows, NoCall, None, Failures
<1> QED
  BY <1>2, <1>3, <1>4 DEF IInv

-----------------------------------------------------------------------------
\* A step of the server or of the way to it that no call and no task is part of.
LEMMA JobOnly ==
  ASSUME IInv, NEW c \in Calls, UNCHANGED <<call, task, bounds>>,
         job' \in [Calls -> States], \A d \in Calls : d # c => job'[d] = job[d],
         Moves(job[c], job'[c]),
         job[c] = None => job'[c] = None \/ (faults = 0 => call[c].unsure),
         stray' \subseteq stray
  PROVE  IInv'
<1>1. Stops(c)'
  BY Types, StopsKept
<1>2. faults' = 0 => Knows(c)'
  BY Types, KnowsKept DEF bounds
<1>3. \A d \in Calls : d # c => Moves(job[d], job'[d])
  BY DEF Moves
<1> QED
  BY <1>1, <1>2, <1>3, Types, OneCall DEF bounds

LEMMA RunJobStep == ASSUME NEW c \in Calls, IInv, RunJob(c) PROVE IInv'
<1>1. /\ job[c] = "queued" /\ job' = [job EXCEPT ![c] = "running"]
      /\ UNCHANGED <<call, task, stray, bounds>>
  BY DEF RunJob
<1>2. /\ job' \in [Calls -> States] /\ Moves(job[c], job'[c]) /\ job[c] # None
      /\ \A d \in Calls : d # c => job'[d] = job[d]
  BY <1>1, Types DEF States, Moves, None
<1> QED
  BY <1>1, <1>2, JobOnly

LEMMA EndJobStep == ASSUME NEW c \in Calls, IInv, EndJob(c) PROVE IInv'
<1>1. PICK s \in {"completed", "failed"} : job' = [job EXCEPT ![c] = s]
  BY DEF EndJob
<1>2. job[c] = "running" /\ UNCHANGED <<call, task, stray, bounds>>
  BY DEF EndJob
<1>3. /\ job' \in [Calls -> States] /\ Moves(job[c], job'[c]) /\ job[c] # None
      /\ \A d \in Calls : d # c => job'[d] = job[d]
  BY <1>1, <1>2, Types DEF States, Moves, None, Finished
<1> QED
  BY <1>2, <1>3, JobOnly

LEMMA LoseStrayStep == ASSUME NEW r \in stray, IInv, LoseStray(r) PROVE IInv'
<1>1. r[1] \in Calls
  BY Types
<1>2. UNCHANGED <<job, call, task, bounds>> /\ stray' \subseteq stray
  BY DEF LoseStray
<1> QED
  BY <1>1, <1>2, Types, JobOnly DEF Moves

\* A lost prompt that arrives is one its call is unsure of.
LEMMA ServeStrayStep == ASSUME NEW r \in stray, IInv, ServeStray(r) PROVE IInv'
<1>1. r[1] \in Calls /\ r = <<r[1], r[2]>>
  BY Types
<1>2. /\ UNCHANGED <<call, task, bounds>> /\ stray' \subseteq stray
      /\ job' = Handle(r[1], r[2])
  BY DEF ServeStray
<1>3. /\ job' \in [Calls -> States] /\ Moves(job[r[1]], job'[r[1]])
      /\ \A d \in Calls : d # r[1] => job'[d] = job[d]
      /\ r[2] # "prompt" /\ job[r[1]] = None => job'[r[1]] = None
  BY <1>1, <1>2, Handled DEF IInv
<1>4. r[2] = "prompt" => (faults = 0 => call[r[1]].unsure)
  BY <1>1, Types DEF Knows
<1> QED
  BY <1>1, <1>2, <1>3, <1>4, JobOnly

\* The answer to a call's own request says what its prompt is.
LEMMA ServeCallStep == ASSUME NEW c \in Calls, IInv, ServeCall(c) PROVE IInv'
<1>1. /\ call[c].req = "sent" /\ job' = Handle(c, call[c].pc)
      /\ call' = [call EXCEPT ![c].req = Answer(c, call[c].pc)]
      /\ UNCHANGED <<task, stray, bounds>>
  BY DEF ServeCall
<1>2. /\ job' \in [Calls -> States] /\ Moves(job[c], job'[c])
      /\ \A d \in Calls : d # c => job'[d] = job[d]
      /\ call[c].pc = "prompt" => job'[c] # None
      /\ call[c].pc # "prompt" /\ job[c] = None => job'[c] = None
  BY <1>1, Handled DEF IInv
<1>3. /\ Answer(c, call[c].pc) \in {"ok", "pending"} \cup Finished
      /\ call[c].pc # "history" => Answer(c, call[c].pc) = "ok"
      /\ call[c].pc = "history" =>
           Answer(c, call[c].pc) = IF job[c] \in Finished THEN job[c] ELSE "pending"
  BY DEF Answer
<1>4. /\ call' \in [Calls -> CallState] /\ \A d \in Calls : d # c => call'[d] = call[d]
      /\ call'[c].req = Answer(c, call[c].pc) /\ call'[c].pc = call[c].pc
      /\ call'[c].unsure = call[c].unsure
  BY <1>1, <1>3, Types DEF CallState, Replies, Busy, Quiet, None
<1>5. Stops(c)'
  BY <1>1, <1>2, Types, StopsKept
<1>6. faults' = 0 => Knows(c)'
  <2> SUFFICES ASSUME faults = 0 PROVE Knows(c)'
    BY <1>1 DEF bounds
  <2>1. Knows(c)
    BY Types
  <2> QED
    BY <1>1, <1>2, <1>3, <1>4, <2>1 DEF Knows, Finished, Failures, Moves, None, Alive
<1>7. \A d \in Calls : d # c => Moves(job[d], job'[d])
  BY <1>2 DEF Moves
<1> QED
  BY <1>1, <1>2, <1>4, <1>5, <1>6, <1>7, Types, OneCall DEF bounds

LEMMA RefuseStep == ASSUME NEW c \in Calls, IInv, Refuse(c) PROVE IInv'
<1>1. /\ call[c].pc = "prompt" /\ call[c].req = "sent"
      /\ call' = [call EXCEPT ![c].req = "refused"]
      /\ UNCHANGED <<job, task, stray, bounds>>
  BY DEF Refuse
<1>2. /\ call' \in [Calls -> CallState] /\ \A d \in Calls : d # c => call'[d] = call[d]
      /\ call'[c].req = "refused" /\ call'[c].pc = "prompt" /\ call'[c].unsure = call[c].unsure
  BY <1>1, Types DEF CallState, Replies, Busy, Quiet, None
<1>3. Stops(c)' /\ \A d \in Calls : Moves(job[d], job'[d])
  BY <1>1, Types, StopsKept DEF Moves
<1>4. faults' = 0 => Knows(c)'
  BY <1>1, <1>2, Types DEF Knows, Failures, None, bounds
<1> QED
  BY <1>1, <1>2, <1>3, <1>4, Types, OneCall DEF bounds

-----------------------------------------------------------------------------
\* What may be left on the way is about the call's own prompt.
LEMMA LeftOnTheWay ==
  ASSUME NEW c \in Calls, NEW kind, NEW req
  PROVE  OnTheWay(c, kind, req) \subseteq
           IF req = "sent" /\ kind \notin {"history", "view"} THEN {<<c, kind>>} ELSE {}
BY DEF OnTheWay

LEMMA FailCallStep == ASSUME NEW c \in Calls, IInv, FailCall(c) PROVE IInv'
<1>1. PICK f \in Failures :
        /\ call' = [call EXCEPT ![c].req = f]
        /\ stray' \in {stray} \cup (IF f = "auth" THEN {}
                                    ELSE {stray \cup OnTheWay(c, call[c].pc, call[c].req)})
  BY DEF FailCall
<1>2. /\ faults' = faults + 1 /\ call[c].pc \in {"prompt", "history", "view"}
      /\ UNCHANGED <<job, task, cancels>>
  BY DEF FailCall
<1>3. call' \in [Calls -> CallState] /\ \A d \in Calls : d # c => call'[d] = call[d]
  BY <1>1, <1>2, Types DEF CallState, Replies, Busy, Quiet, None
<1>4. OnTheWay(c, call[c].pc, call[c].req) \subseteq {<<c, "prompt">>}
  BY <1>2, LeftOnTheWay
<1>5. /\ stray' \subseteq stray \cup {<<c, "prompt">>}
      /\ stray' \subseteq Calls \X {"prompt", "delete", "interrupt"}
      /\ \A d \in Calls : d # c /\ <<d, "prompt">> \in stray' => <<d, "prompt">> \in stray
  BY <1>1, <1>4, Types
<1>6. Stops(c)' /\ \A d \in Calls : Moves(job[d], job'[d])
  BY <1>2, Types, StopsKept DEF Moves
<1>7. faults' \in Nat /\ faults' # 0
  BY <1>2, Types
<1> QED
  BY <1>2, <1>3, <1>5, <1>6, <1>7, Types, OneCall

LEMMA FailTaskStep == ASSUME NEW c \in Calls, IInv, FailTask(c) PROVE IInv'
<1>1. /\ faults' = faults + 1 /\ task[c].req \in {"sent", "ok"}
      /\ task' = [task EXCEPT ![c].req = "failed"]
      /\ stray' \subseteq stray \cup OnTheWay(c, Requests[task[c].i], task[c].req)
      /\ UNCHANGED <<job, call, cancels>>
  BY DEF FailTask
<1>2. task[c].i \in {1, 2}
  BY <1>1, Types DEF Stops, None
<1>3. Requests[task[c].i] \in {"delete", "interrupt"}
  BY <1>2, TwoRequests
<1>4. /\ stray' \subseteq Calls \X {"prompt", "delete", "interrupt"}
      /\ \A d \in Calls : <<d, "prompt">> \in stray' => <<d, "prompt">> \in stray
  BY <1>1, <1>3, Types, LeftOnTheWay
<1>5. /\ task' \in [Calls -> TaskState] /\ \A d \in Calls : d # c => task'[d] = task[d]
      /\ task'[c].req = "failed" /\ task'[c].i = task[c].i /\ task'[c].done = task[c].done
      /\ task'[c].reached = task[c].reached
  BY <1>1, Types DEF TaskState
<1>6. Stops(c)'
  BY <1>1, <1>2, <1>5, Types DEF Stops, Answered
<1>7. faults' \in Nat /\ faults' # 0 /\ \A d \in Calls : Moves(job[d], job'[d])
  BY <1>1, Types DEF Moves
<1> QED
  BY <1>1, <1>4, <1>5, <1>6, <1>7, Types, OneCall

\* Taken out of the queue by the first request, stopped by the second.
LEMMA ServeTaskStep == ASSUME NEW c \in Calls, IInv, ServeTask(c) PROVE IInv'
<1>1. /\ task[c].req = "sent" /\ job' = Handle(c, Requests[task[c].i])
      /\ task' = [task EXCEPT ![c].req = "ok"]
      /\ UNCHANGED <<call, stray, bounds>>
  BY DEF ServeTask
<1>2. task[c].i \in {1, 2}
  BY <1>1, Types DEF Stops, None
<1>3. /\ task[c].i = 1 => Requests[task[c].i] = "delete"
      /\ task[c].i = 2 => Requests[task[c].i] = "interrupt"
  BY TwoRequests
<1>4. /\ job' \in [Calls -> States] /\ Moves(job[c], job'[c])
      /\ \A d \in Calls : d # c => job'[d] = job[d]
      /\ job[c] = None => job'[c] = None
      /\ task[c].i = 1 => job'[c] # "queued"
      /\ task[c].i = 2 => job'[c] # "running"
  BY <1>1, <1>2, <1>3, Handled DEF IInv
<1>5. /\ task' \in [Calls -> TaskState] /\ \A d \in Calls : d # c => task'[d] = task[d]
      /\ task'[c].req = "ok" /\ task'[c].i = task[c].i /\ task'[c].done = task[c].done
      /\ task'[c].reached = task[c].reached
  BY <1>1, Types DEF TaskState
<1>6. Stops(c)'
  <2>1. Stops(c)
    BY Types
  <2> QED
    BY <1>1, <1>2, <1>4, <1>5, <2>1 DEF Stops, Answered, Moves, Alive, Finished, None
<1>7. faults' = 0 => Knows(c)'
  <2> SUFFICES ASSUME faults = 0 PROVE Knows(c)'
    BY <1>1 DEF bounds
  <2>1. Knows(c)
    BY Types
  <2> QED
    BY <1>1, <1>2, <1>4, <1>5, <2>1 DEF Knows, Moves, Alive, Finished, None
<1>8. \A d \in Calls : d # c => Moves(job[d], job'[d])
  BY <1>4 DEF Moves
<1> QED
  BY <1>1, <1>4, <1>5, <1>6, <1>7, <1>8, Types, OneCall DEF bounds

LEMMA TaskGoesOnStep == ASSUME NEW c \in Calls, IInv, TaskGoesOn(c) PROVE IInv'
<1> DEFINE t == task[c]
           done == IF t.req = "ok" THEN t.done \cup {Requests[t.i]} ELSE t.done
<1>1. /\ Doing(t) /\ t.req # "sent"
      /\ task' = [task EXCEPT ![c].i = t.i + 1, ![c].done = done,
                              ![c].req = IF t.i < Len(Requests) THEN "sent" ELSE None]
      /\ UNCHANGED <<job, call, stray, bounds>>
  BY DEF TaskGoesOn
<1>2. t.i \in {1, 2} /\ t \in TaskState
  BY <1>1, TwoRequests, Types DEF Doing
<1>3. /\ task' \in [Calls -> TaskState] /\ \A d \in Calls : d # c => task'[d] = task[d]
      /\ task'[c].reached = t.reached /\ task'[c].i = t.i + 1
      /\ task'[c].req = IF t.i = 1 THEN "sent" ELSE None
      /\ t.i = 1 /\ t.req = "ok" => task'[c].done = t.done \cup {"delete"}
      /\ t.i = 2 /\ t.req = "ok" => task'[c].done = t.done \cup {"interrupt"}
      /\ t.req # "ok" => task'[c].done = t.done
  <2>1. done \in SUBSET {"delete", "interrupt"}
    BY <1>2, TwoRequests DEF TaskState
  <2>2. t.i + 1 \in 0 .. 3 /\ (t.i < Len(Requests) <=> t.i = 1)
    BY <1>2, TwoRequests
  <2> QED
    BY <1>1, <1>2, <2>1, <2>2, TwoRequests, Types DEF TaskState
<1>4. Stops(c)'
  <2>1. Stops(c)
    BY Types
  <2> HIDE DEF t, done
  <2>2. t = task[c]
    BY DEF t
  <2> QED
    BY <1>1, <1>2, <1>3, <2>1, <2>2 DEF Stops, Answered, None
<1>5. faults' = 0 => Knows(c)'
  <2> SUFFICES ASSUME faults = 0 PROVE Knows(c)'
    BY <1>1 DEF bounds
  <2>1. Knows(c) /\ Stops(c)
    BY Types
  <2>2. t.done \subseteq {"delete", "interrupt"}
    BY <1>2 DEF TaskState
  <2> QED
    BY <1>1, <1>2, <1>3, <2>1, <2>2 DEF Knows, Stops
<1>6. \A d \in Calls : Moves(job[d], job'[d])
  BY <1>1 DEF Moves
<1> QED
  BY <1>1, <1>3, <1>4, <1>5, <1>6, Types, OneCall DEF bounds

\* Without a failed request only the task of a call that is over runs out of time.
LEMMA TaskTimesOutStep == ASSUME NEW c \in Calls, IInv, TaskTimesOut(c) PROVE IInv'
<1>1. /\ Doing(task[c])
      /\ \/ faults' = faults + 1
         \/ call[c].pc = "over" /\ UNCHANGED faults
      /\ task' = [task EXCEPT ![c].i = Ended, ![c].req = None]
      /\ stray' \subseteq stray \cup OnTheWay(c, Requests[task[c].i], task[c].req)
      /\ UNCHANGED <<job, call, cancels>>
  BY DEF TaskTimesOut
<1>2. task[c].i \in {1, 2}
  BY <1>1, TwoRequests, Types DEF Doing
<1>3. Requests[task[c].i] \in {"delete", "interrupt"}
  BY <1>2, TwoRequests
<1>4. /\ stray' \subseteq Calls \X {"prompt", "delete", "interrupt"}
      /\ \A d \in Calls : <<d, "prompt">> \in stray' => <<d, "prompt">> \in stray
  BY <1>1, <1>3, Types, LeftOnTheWay
<1>5. /\ task' \in [Calls -> TaskState] /\ \A d \in Calls : d # c => task'[d] = task[d]
      /\ task'[c].req = None /\ task'[c].i = 3 /\ task'[c].done = task[c].done
      /\ task'[c].reached = task[c].reached
  <2>1. task' = [task EXCEPT ![c].i = 3, ![c].req = None] /\ 3 \in 0 .. 3
    BY <1>1, TwoRequests
  <2> QED
    BY <2>1, Types DEF TaskState
<1>6. Stops(c)'
  BY <1>1, <1>5, Types DEF Stops, Answered, None
<1>7. faults' = 0 => faults = 0 /\ call[c].pc = "over"
  BY <1>1, Types
<1>8. faults' = 0 => Knows(c)'
  BY <1>1, <1>4, <1>7, Types DEF Knows
<1>9. faults' \in Nat /\ \A d \in Calls : Moves(job[d], job'[d])
  BY <1>1, Types DEF Moves
<1> QED
  BY <1>1, <1>4, <1>5, <1>6, <1>7, <1>8, <1>9, Types, OneCall

-----------------------------------------------------------------------------
\* A step of a call: its job stays as it is, and so does its task unless it gives up.
LEMMA CallOnly ==
  ASSUME IInv, NEW c \in Calls, UNCHANGED <<job, task, stray, bounds>>,
         call' \in [Calls -> CallState], \A d \in Calls : d # c => call'[d] = call[d],
         faults = 0 => Knows(c)'
  PROVE  IInv'
<1>1. Stops(c)' /\ \A d \in Calls : Moves(job[d], job'[d])
  BY Types, StopsKept DEF Moves
<1> QED
  BY <1>1, Types, OneCall DEF bounds

LEMMA Sends ==
  ASSUME IInv, NEW c \in Calls, NEW kind \in Busy, call' = Send(c, kind)
  PROVE  /\ call' \in [Calls -> CallState] /\ \A d \in Calls : d # c => call'[d] = call[d]
         /\ call'[c].pc = kind /\ call'[c].req = "sent" /\ call'[c].unsure = call[c].unsure
<1> DEFINE r == call[c]
<1>1. /\ call' = [call EXCEPT ![c] = [r EXCEPT !.pc = kind, !.req = "sent"]]
      /\ r \in CallState /\ call \in [Calls -> CallState]
  BY Types DEF Send
<1>2. PICK s : s = [r EXCEPT !.pc = kind, !.req = "sent"]
  OBVIOUS
<1>3. s \in CallState /\ s.pc = kind /\ s.req = "sent" /\ s.unsure = r.unsure
  <2> HIDE DEF r
  <2> QED
    BY <1>1, <1>2 DEF CallState, Replies
<1>4. call' = [call EXCEPT ![c] = s]
  BY <1>1, <1>2
<1> QED
  BY <1>1, <1>3, <1>4

LEMMA Gives ==
  ASSUME IInv, NEW c \in Calls, NEW kind \in Quiet, call' = GivenTo(c, kind)
  PROVE  /\ call' \in [Calls -> CallState] /\ \A d \in Calls : d # c => call'[d] = call[d]
         /\ call'[c].pc = kind /\ call'[c].req = None /\ call'[c].unsure = call[c].unsure
BY Types DEF GivenTo, NoCall, CallState, Replies, Busy, Quiet, None

LEMMA FreshTask ==
  ASSUME NEW b \in BOOLEAN, NEW t, t = [NoTask EXCEPT !.i = 1, !.req = "sent", !.reached = b]
  PROVE  t \in TaskState /\ t.i = 1 /\ t.req = "sent" /\ t.done = {} /\ t.reached = b
<1>1. t = [i |-> 1, req |-> "sent", done |-> {}, reached |-> b]
  BY DEF NoTask
<1>2. {} \in SUBSET {"delete", "interrupt"} /\ 1 \in 0 .. 3
  OBVIOUS
<1>3. t \in TaskState
  BY <1>1, <1>2 DEF TaskState
<1>4. t.i = 1 /\ t.req = "sent" /\ t.done = {}
  BY DEF NoTask
<1>5. t.reached = b
  BY DEF NoTask
<1> QED
  BY <1>3, <1>4, <1>5

\* abandon_prompt begins with the request that takes the prompt out of the queue.
LEMMA TaskBegins ==
  ASSUME IInv, NEW c \in Calls, StartAbandon(c), job' = job
  PROVE  /\ task' \in [Calls -> TaskState] /\ \A d \in Calls : d # c => task'[d] = task[d]
         /\ task'[c].i = 1 /\ task'[c].req = "sent" /\ task'[c].done = {}
         /\ task'[c].reached = (job[c] # None)
         /\ Stops(c)'
<1> DEFINE here == job[c] # None
           t == [NoTask EXCEPT !.i = 1, !.req = "sent", !.reached = here]
<1>1. task' = [task EXCEPT ![c] = t]
  BY DEF StartAbandon
<1>2. t \in TaskState /\ t.i = 1 /\ t.req = "sent" /\ t.done = {} /\ t.reached = here
  <2>1. here \in BOOLEAN
    OBVIOUS
  <2> HIDE DEF here
  <2> QED
    BY <2>1, FreshTask
<1> HIDE DEF t
<1>3. /\ task' \in [Calls -> TaskState] /\ \A d \in Calls : d # c => task'[d] = task[d]
      /\ task'[c] = t
  BY <1>1, <1>2, Types
<1>4. t.reached => job[c] # None
  BY <1>2
<1>5. Stops(c)'
  BY <1>2, <1>3, <1>4 DEF Stops, Answered
<1> QED
  BY <1>2, <1>3, <1>5

\* A call gives up: it knows that its prompt is there, or it is unsure of it.
LEMMA Abandons ==
  ASSUME IInv, NEW c \in Calls, Abandon(c), UNCHANGED <<job, stray, bounds>>,
         faults = 0 => job[c] # None
  PROVE  IInv'
<1>1. /\ call' \in [Calls -> CallState] /\ \A d \in Calls : d # c => call'[d] = call[d]
      /\ call'[c].pc = "abandon" /\ call'[c].req = None /\ call'[c].unsure = call[c].unsure
  BY Gives DEF Abandon, Quiet
<1>2. /\ task' \in [Calls -> TaskState] /\ \A d \in Calls : d # c => task'[d] = task[d]
      /\ task'[c].i = 1 /\ task'[c].req = "sent" /\ task'[c].done = {}
      /\ task'[c].reached = (job[c] # None)
      /\ Stops(c)'
  BY TaskBegins DEF Abandon
<1>3. faults' = 0 => Knows(c)'
  BY <1>1, <1>2, Types DEF Knows, Failures, None, bounds
<1>4. \A d \in Calls : Moves(job[d], job'[d])
  BY DEF Moves
<1> QED
  BY <1>1, <1>2, <1>3, <1>4, Types, OneCall DEF bounds

LEMMA BeginStep == ASSUME NEW c \in Calls, IInv, Begin(c) PROVE IInv'
<1>1. call[c].pc = "idle" /\ call' = Send(c, "prompt") /\ UNCHANGED <<job, task, stray, bounds>>
  BY DEF Begin
<1>2. /\ call' \in [Calls -> CallState] /\ \A d \in Calls : d # c => call'[d] = call[d]
      /\ call'[c].pc = "prompt" /\ call'[c].req = "sent" /\ call'[c].unsure = call[c].unsure
  BY <1>1, Sends DEF Busy
<1>3. faults = 0 => Knows(c)'
  BY <1>1, <1>2, Types DEF Knows, Failures, None
<1> QED
  BY <1>1, <1>2, <1>3, CallOnly

LEMMA DeadlineStep == ASSUME NEW c \in Calls, IInv, Deadline(c) PROVE IInv'
<1>1. call' = [call EXCEPT ![c].late = TRUE] /\ UNCHANGED <<job, task, stray, bounds>>
  BY DEF Deadline
<1>2. /\ call' \in [Calls -> CallState] /\ \A d \in Calls : d # c => call'[d] = call[d]
      /\ call'[c].pc = call[c].pc /\ call'[c].req = call[c].req /\ call'[c].unsure = call[c].unsure
  BY <1>1, Types DEF CallState, Busy, Quiet, None
<1>3. faults = 0 => Knows(c)'
  BY <1>1, <1>2, Types DEF Knows
<1> QED
  BY <1>1, <1>2, <1>3, CallOnly

LEMMA SubmittedStep == ASSUME NEW c \in Calls, IInv, Submitted(c) PROVE IInv'
<1>1. /\ call[c].pc = "prompt" /\ call[c].req \notin {"sent"} \cup Failures
      /\ UNCHANGED <<job, task, stray, bounds>>
  BY DEF Submitted, Failures
<1>2. CASE call[c].req = "refused"
  <2>1. call' = GivenTo(c, "over")
    BY <1>2 DEF Submitted, Over
  <2>2. /\ call' \in [Calls -> CallState] /\ \A d \in Calls : d # c => call'[d] = call[d]
        /\ call'[c].pc = "over" /\ call'[c].req = None /\ call'[c].unsure = call[c].unsure
    BY <2>1, Gives DEF Quiet
  <2>3. faults = 0 => Knows(c)'
    BY <1>1, <1>2, <2>2, Types DEF Knows, Failures, None, Alive
  <2> QED
    BY <1>1, <2>2, <2>3, CallOnly
<1>3. CASE call[c].req # "refused"
  <2>1. call' = Send(c, "history")
    BY <1>3 DEF Submitted
  <2>2. /\ call' \in [Calls -> CallState] /\ \A d \in Calls : d # c => call'[d] = call[d]
        /\ call'[c].pc = "history" /\ call'[c].req = "sent" /\ call'[c].unsure = call[c].unsure
    BY <2>1, Sends DEF Busy
  <2>3. faults = 0 => Knows(c)'
    BY <1>1, <1>3, <2>2, Types DEF Knows, Failures, None, Finished
  <2> QED
    BY <1>1, <2>2, <2>3, CallOnly
<1> QED
  BY <1>2, <1>3

\* A call that ends tells its prompt is over, or is unsure of it.
LEMMA Ends ==
  ASSUME IInv, NEW c \in Calls, call' = Over(c), UNCHANGED <<job, task, stray, bounds>>,
         faults = 0 => ~call[c].unsure /\ job[c] \notin Alive
  PROVE  IInv'
<1>1. /\ call' \in [Calls -> CallState] /\ \A d \in Calls : d # c => call'[d] = call[d]
      /\ call'[c].pc = "over" /\ call'[c].req = None /\ call'[c].unsure = call[c].unsure
  BY Gives DEF Over, Quiet
<1>2. faults = 0 => Knows(c)'
  BY <1>1, Types DEF Knows, Failures, None, Alive
<1> QED
  BY <1>1, <1>2, CallOnly

\* A failed submission says nothing of the prompt: some request has failed.
LEMMA SubmitFailsStep == ASSUME NEW c \in Calls, IInv, SubmitFails(c) PROVE IInv'
<1>1. /\ call[c].pc = "prompt" /\ call[c].req \in Failures
      /\ UNCHANGED <<job, stray, bounds>>
  BY DEF SubmitFails
<1>2. faults # 0
  BY <1>1, Types DEF Knows
<1>3. Abandon(c) \/ (call' = Over(c) /\ UNCHANGED task)
  BY DEF SubmitFails, Raise
<1>4. CASE Abandon(c)
  BY <1>1, <1>2, <1>4, Abandons
<1>5. CASE call' = Over(c) /\ UNCHANGED task
  BY <1>1, <1>2, <1>5, Ends
<1> QED
  BY <1>3, <1>4, <1>5

\* The next turn of the loop, or the deadline: the prompt is there in either.
LEMMA TurnEndsStep ==
  ASSUME IInv, NEW c \in Calls, NEW n \in Nat, TurnEnds(c, n), call[c].pc = "history",
         UNCHANGED <<job, stray, bounds>>
  PROVE  IInv'
<1>1. faults = 0 => job[c] # None
  BY Types DEF Knows
<1>2. CASE call[c].late
  BY <1>1, <1>2, Abandons DEF TurnEnds
<1>3. CASE ~call[c].late
  <2>1. /\ call' = [call EXCEPT ![c].pc = "sleep", ![c].req = None, ![c].failures = n]
        /\ UNCHANGED task
    BY <1>3 DEF TurnEnds
  <2>2. /\ call' \in [Calls -> CallState] /\ \A d \in Calls : d # c => call'[d] = call[d]
        /\ call'[c].pc = "sleep" /\ call'[c].req = None /\ call'[c].unsure = call[c].unsure
    <3> DEFINE r == call[c]
    <3>1. r \in CallState /\ call \in [Calls -> CallState]
      BY Types
    <3>2. PICK s : s = [r EXCEPT !.pc = "sleep", !.req = None, !.failures = n]
      OBVIOUS
    <3>3. s \in CallState /\ s.pc = "sleep" /\ s.req = None /\ s.unsure = r.unsure
      <4> HIDE DEF r
      <4> QED
        BY <3>1, <3>2 DEF CallState, Quiet
    <3>4. call' = [call EXCEPT ![c] = s]
      BY <2>1, <3>2
    <3> QED
      BY <3>1, <3>3, <3>4
  <2>3. faults = 0 => Knows(c)'
    <3>1. faults = 0 => ~call[c].unsure /\ Knows(c)
      BY Types DEF Knows
    <3>2. None \notin Failures
      BY DEF None, Failures
    <3> QED
      BY <1>1, <2>2, <3>1, <3>2 DEF Knows
  <2> QED
    BY <2>1, <2>2, <2>3, CallOnly
<1> QED
  BY <1>2, <1>3

LEMMA PolledStep == ASSUME NEW c \in Calls, IInv, Polled(c) PROVE IInv'
<1>1. call[c].pc = "history" /\ UNCHANGED <<job, stray, bounds>>
  BY DEF Polled
<1>2. CASE call[c].req = "pending" /\ TurnEnds(c, 0)
  BY <1>1, <1>2, TurnEndsStep
<1>3. CASE call[c].req = "completed" /\ call' = Send(c, "view") /\ UNCHANGED task
  <2>1. /\ call' \in [Calls -> CallState] /\ \A d \in Calls : d # c => call'[d] = call[d]
        /\ call'[c].pc = "view" /\ call'[c].req = "sent" /\ call'[c].unsure = call[c].unsure
    BY <1>3, Sends DEF Busy
  <2>2. faults = 0 => Knows(c)'
    BY <1>1, <1>3, <2>1, Types DEF Knows, Failures, None, Finished
  <2> QED
    BY <1>1, <1>3, <2>1, <2>2, CallOnly
<1>4. CASE call[c].req \in {"failed", "interrupted"} /\ call' = Over(c) /\ UNCHANGED task
  <2>1. faults = 0 => ~call[c].unsure /\ job[c] \notin Alive
    BY <1>1, <1>4, Types DEF Knows, Finished, Alive
  <2> QED
    BY <1>1, <1>4, <2>1, Ends
<1> QED
  BY <1>2, <1>3, <1>4 DEF Polled

LEMMA PollFailsStep == ASSUME NEW c \in Calls, IInv, PollFails(c) PROVE IInv'
<1>1. call[c].pc = "history" /\ UNCHANGED <<job, stray, bounds>>
  BY DEF PollFails
<1>2. call[c].failures + 1 \in Nat
  BY <1>1, Types DEF CallState
<1>3. CASE call[c].req \in Failures
  <2>1. faults # 0
    BY <1>3, Types DEF Knows
  <2>2. \/ TurnEnds(c, call[c].failures + 1)
        \/ Abandon(c)
        \/ call' = Over(c) /\ UNCHANGED task
    BY DEF PollFails, Raise
  <2>3. CASE Abandon(c)
    BY <1>1, <2>1, <2>3, Abandons
  <2>4. CASE call' = Over(c) /\ UNCHANGED task
    BY <1>1, <2>1, <2>4, Ends
  <2> QED
    BY <1>1, <1>2, <2>2, <2>3, <2>4, TurnEndsStep
<1>4. CASE call[c].req = "sent"
  <2>1. TurnEnds(c, call[c].failures + 1)
    BY <1>4 DEF PollFails
  <2> QED
    BY <1>1, <1>2, <2>1, TurnEndsStep
<1> QED
  BY <1>3, <1>4 DEF PollFails, Failures

LEMMA WakeStep == ASSUME NEW c \in Calls, IInv, Wake(c) PROVE IInv'
<1>1. call[c].pc = "sleep" /\ call' = Send(c, "history") /\ UNCHANGED <<job, task, stray, bounds>>
  BY DEF Wake
<1>2. /\ call' \in [Calls -> CallState] /\ \A d \in Calls : d # c => call'[d] = call[d]
      /\ call'[c].pc = "history" /\ call'[c].req = "sent" /\ call'[c].unsure = call[c].unsure
  BY <1>1, Sends DEF Busy
<1>3. faults = 0 => Knows(c)'
  BY <1>1, <1>2, Types DEF Knows, Failures, None, Finished
<1> QED
  BY <1>1, <1>2, <1>3, CallOnly

LEMMA FetchedStep == ASSUME NEW c \in Calls, IInv, Fetched(c) PROVE IInv'
<1>1. call[c].pc = "view" /\ call' = Over(c) /\ UNCHANGED <<job, task, stray, bounds>>
  BY DEF Fetched
<1>2. faults = 0 => ~call[c].unsure /\ job[c] \notin Alive
  BY <1>1, Types DEF Knows, Finished, Alive
<1> QED
  BY <1>1, <1>2, Ends

\* The task stopped the prompt: it ended with both requests answered.
LEMMA AbandonedStep == ASSUME NEW c \in Calls, IInv, Abandoned(c) PROVE IInv'
<1>1. /\ call[c].pc = "abandon" /\ task[c].i = 3 /\ call' = Over(c)
      /\ UNCHANGED <<job, task, stray, bounds>>
  BY TwoRequests DEF Abandoned
<1>2. /\ call' \in [Calls -> CallState] /\ \A d \in Calls : d # c => call'[d] = call[d]
      /\ call'[c].pc = "over" /\ call'[c].req = None /\ call'[c].unsure = call[c].unsure
  BY <1>1, Gives DEF Over, Quiet
<1>3. faults = 0 => Knows(c)'
  <2> SUFFICES ASSUME faults = 0, ~call[c].unsure PROVE job[c] \notin Alive /\ Knows(c)'
    BY <1>1, <1>2, Types DEF Knows, Failures, None
  <2>1. Knows(c)
    BY Types
  <2>2. task[c].reached /\ task[c].done = {"delete", "interrupt"}
    BY <1>1, <2>1 DEF Knows
  <2>3. job[c] \notin Alive
    BY <2>2, Types DEF Stops, Answered
  <2> QED
    BY <1>1, <1>2, <2>3, Types DEF Knows, Failures, None
<1> QED
  BY <1>1, <1>2, <1>3, CallOnly

\* Cancelled: whoever is unsure of its prompt says so.
LEMMA CancelStep == ASSUME NEW c \in Calls, IInv, Cancel(c) PROVE IInv'
<1>1. /\ call[c].pc \notin {"idle", "over"} /\ cancels' = cancels + 1
      /\ stray' \subseteq stray \cup OnTheWay(c, call[c].pc, call[c].req)
      /\ UNCHANGED <<job, faults>>
  BY DEF Cancel
<1>2. call[c].req = "sent" => call[c].pc \in Busy
  BY Types DEF CallState, Quiet, None
<1>3. OnTheWay(c, call[c].pc, call[c].req) \subseteq
        IF call[c].pc = "prompt" THEN {<<c, "prompt">>} ELSE {}
  BY <1>2, LeftOnTheWay DEF Busy
<1>4. /\ stray' \subseteq Calls \X {"prompt", "delete", "interrupt"}
      /\ \A d \in Calls : d # c /\ <<d, "prompt">> \in stray' => <<d, "prompt">> \in stray
      /\ call[c].pc # "prompt" => stray' \subseteq stray
  BY <1>1, <1>3, Types
<1>5. /\ cancels' \in Nat /\ faults' \in Nat /\ (faults' = 0 => faults = 0)
      /\ \A d \in Calls : Moves(job[d], job'[d])
  BY <1>1, Types DEF Moves
<1>6. CASE call[c].pc \in {"view", "abandon"}
  <2>1. /\ call' = [Over(c) EXCEPT ![c].unsure = @ \/ call[c].pc = "abandon"]
        /\ UNCHANGED task
    BY <1>6 DEF Cancel
  <2>2. /\ call' \in [Calls -> CallState] /\ \A d \in Calls : d # c => call'[d] = call[d]
        /\ call'[c].pc = "over" /\ call'[c].req = None
        /\ call'[c].unsure = (call[c].unsure \/ call[c].pc = "abandon")
    BY <2>1, Types DEF Over, GivenTo, NoCall, CallState, Busy, Quiet, None
  <2>3. Stops(c)'
    BY <1>5, <2>1, Types, StopsKept
  <2>4. faults = 0 => Knows(c)'
    BY <1>1, <1>4, <1>6, <2>2, Types DEF Knows, Failures, None, Finished, Alive
  <2> QED
    BY <1>1, <1>4, <1>5, <2>1, <2>2, <2>3, <2>4, Types, OneCall
<1>7. CASE call[c].pc \notin {"view", "abandon"}
  <2>1. /\ call' = [GivenTo(c, "abandon") EXCEPT ![c].unsure = (call[c].pc = "prompt")]
        /\ StartAbandon(c)
    BY <1>7 DEF Cancel
  <2>2. /\ call' \in [Calls -> CallState] /\ \A d \in Calls : d # c => call'[d] = call[d]
        /\ call'[c].pc = "abandon" /\ call'[c].req = None
        /\ call'[c].unsure = (call[c].pc = "prompt")
    BY <2>1, Types DEF GivenTo, NoCall, CallState, Busy, Quiet, None
  <2>3. /\ task' \in [Calls -> TaskState] /\ \A d \in Calls : d # c => task'[d] = task[d]
        /\ task'[c].i = 1 /\ task'[c].req = "sent" /\ task'[c].done = {}
        /\ task'[c].reached = (job[c] # None)
        /\ Stops(c)'
    BY <1>1, <2>1, TaskBegins
  <2>4. call[c].pc \in {"prompt", "history", "sleep"}
    BY <1>1, <1>7, Types DEF CallState, Busy, Quiet
  <2>5. faults = 0 => Knows(c)'
    BY <1>1, <1>4, <2>2, <2>3, <2>4, Types DEF Knows, Failures, None
  <2> QED
    BY <1>1, <1>4, <1>5, <2>2, <2>3, <2>5, Types, OneCall
<1> QED
  BY <1>6, <1>7

-----------------------------------------------------------------------------
\* Every step of the server, of a task and of a call keeps what the requests of the
\* tasks have done and what the calls know.
THEOREM JobPreserved == IInv /\ [Next]_vars => IInv'
<1> SUFFICES ASSUME IInv, [Next]_vars PROVE IInv'
  OBVIOUS
<1>1. CASE UNCHANGED vars
  BY <1>1 DEF vars, bounds, IInv, TypeInv, Stopping, Stops, Answered, Knowing, Knows
<1>2. ASSUME NEW c \in Calls,
             Begin(c) \/ Deadline(c) \/ Cancel(c) \/ Refuse(c) \/ Serves(c)
      PROVE  IInv'
  BY <1>2, BeginStep, DeadlineStep, CancelStep, RefuseStep, ServeCallStep, FailCallStep DEF Serves
<1>3. ASSUME NEW c \in Calls, CallSteps(c)
      PROVE  IInv'
  BY <1>3, SubmittedStep, SubmitFailsStep, PolledStep, PollFailsStep, WakeStep, FetchedStep,
     AbandonedStep DEF CallSteps
<1>4. ASSUME NEW c \in Calls, TaskSteps(c) \/ RunJob(c) \/ EndJob(c)
      PROVE  IInv'
  BY <1>4, ServeTaskStep, FailTaskStep, TaskGoesOnStep, TaskTimesOutStep, RunJobStep, EndJobStep
     DEF TaskSteps
<1>5. ASSUME NEW r \in stray, ServeStray(r) \/ LoseStray(r)
      PROVE  IInv'
  BY <1>5, ServeStrayStep, LoseStrayStep
<1> QED
  BY <1>1, <1>2, <1>3, <1>4, <1>5 DEF Next

\* A prompt that was stopped in order stays stopped, and while no request has failed a
\* call knows what has become of its prompt, whatever answer or cancellation comes next.
THEOREM JobInvariance == Spec => []IInv
  BY JobInitially, JobPreserved, PTL DEF Spec

\* A prompt that was there when it was given up, and whose two requests went through,
\* neither waits nor runs (client.py, _send_abandon: first out of the queue, then
\* stopped), for any number of calls, failures and cancellations.
THEOREM AbandonedIsAlwaysStopped == Spec => []AbandonedIsStopped
<1>1. IInv => AbandonedIsStopped
  BY TwoRequests, Types DEF AbandonedIsStopped, Stops, Answered
<1> QED
  BY <1>1, JobInvariance, PTL

\* Where no request failed, a call that is over leaves no prompt on the server unless
\* it was cancelled in the submission or in the abandonment (client.py, run_workflow).
THEOREM NothingIsLeftRunning == Spec => []NothingLeftRunning
<1>1. IInv => NothingLeftRunning
  BY Types DEF NothingLeftRunning, Knows
<1> QED
  BY <1>1, JobInvariance, PTL
=============================================================================

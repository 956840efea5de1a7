------------------------------ MODULE ComfyJob ------------------------------
(***************************************************************************)
(* comfyui/client.py: run_workflow and what it calls (submit, wait, fetch, *)
(* abandon_prompt) against one ComfyUI server that several calls share and *)
(* that runs one prompt at a time.  A request is sent, handled and         *)
(* answered in three steps; a caller that gives up on one leaves it on the *)
(* way, where the server may still find it.                                *)
(***************************************************************************)
EXTENDS Naturals, Sequences

CONSTANTS
  Calls,       \* run_workflow calls, each with its prompt
  MaxFaults,   \* bound on failed requests
  MaxCancels,  \* bound on cancellations
  PollFailureLimit

ASSUME ComfyAssumption ==
  MaxFaults \in Nat /\ MaxCancels \in Nat /\ PollFailureLimit \in Nat \ {0}

VARIABLES
  job,     \* the prompts on the server
  call,    \* run_workflow
  task,    \* _send_abandon, in a task of its own
  stray,   \* requests on the way that nobody waits for
  faults, cancels

bounds == <<faults, cancels>>
vars == <<job, call, task, stray, bounds>>

None == "none"
NoCall == [pc |-> "idle", req |-> None, late |-> FALSE, failures |-> 0,
           unsure |-> FALSE]
NoTask == [i |-> 0, req |-> None, done |-> {}, reached |-> FALSE]

\* _send_abandon: out of the queue first, then stopped.
RequestsWrong == <<"interrupt", "delete">>   \* the prompt starts in between
Requests == <<"delete", "interrupt">>
Ended == Len(Requests) + 1
Doing(t) == t.i \in 1..Len(Requests)

Finished == {"completed", "failed", "interrupted"}
Alive == {"queued", "running"}

-----------------------------------------------------------------------------
\* The server (external): what it does with a request, and what it answers.
Handle(c, kind) ==
  CASE kind = "prompt" -> [job EXCEPT ![c] = IF @ = None THEN "queued" ELSE @]
    [] kind = "delete" -> [job EXCEPT ![c] = IF @ = "queued" THEN "deleted" ELSE @]
    [] kind = "interrupt" -> [job EXCEPT ![c] = IF @ = "running" THEN "interrupted" ELSE @]
    [] OTHER -> job

Answer(c, kind) ==
  CASE kind = "history" -> IF job[c] \in Finished THEN job[c] ELSE "pending"
    [] OTHER -> "ok"

ServeCall(c) ==
  /\ call[c].req = "sent"
  /\ job' = Handle(c, call[c].pc)
  /\ call' = [call EXCEPT ![c].req = Answer(c, call[c].pc)]
  /\ UNCHANGED <<task, stray, bounds>>

\* A graph the server does not take.
Refuse(c) ==
  /\ call[c].pc = "prompt" /\ call[c].req = "sent"
  /\ call' = [call EXCEPT ![c].req = "refused"]
  /\ UNCHANGED <<job, task, stray, bounds>>

ServeTask(c) ==
  /\ task[c].req = "sent"
  /\ job' = Handle(c, Requests[task[c].i])
  /\ task' = [task EXCEPT ![c].req = "ok"]
  /\ UNCHANGED <<call, stray, bounds>>

ServeStray(r) ==
  /\ r \in stray
  /\ job' = Handle(r[1], r[2])
  /\ stray' = stray \ {r}
  /\ UNCHANGED <<call, task, bounds>>

LoseStray(r) ==
  /\ r \in stray
  /\ stray' = stray \ {r}
  /\ UNCHANGED <<job, call, task, bounds>>

RunJob(c) ==
  /\ job[c] = "queued" /\ \A d \in Calls : job[d] # "running"
  /\ job' = [job EXCEPT ![c] = "running"]
  /\ UNCHANGED <<call, task, stray, bounds>>

EndJob(c) ==
  /\ job[c] = "running"
  /\ \E s \in {"completed", "failed"} : job' = [job EXCEPT ![c] = s]
  /\ UNCHANGED <<call, task, stray, bounds>>

-----------------------------------------------------------------------------
\* The request that c waits for in this state, if the server has not had it yet.
OnTheWay(c, pc, req) == {r \in {<<c, pc>>} : req = "sent" /\ pc # "history" /\ pc # "view"}

\* A request fails: the connection, a timeout, a refused authentication; before the
\* server had it, after, or (a timeout) with the request still on the way.
Failures == {"connection", "timeout", "auth"}

FailCall(c) ==
  /\ faults < MaxFaults
  /\ faults' = faults + 1
  /\ call[c].pc \in {"prompt", "history", "view"} /\ call[c].req \notin Failures
  /\ \E f \in Failures :
       /\ call' = [call EXCEPT ![c].req = f]
       /\ stray' \in {stray} \cup (IF f = "auth" THEN {}
                                   ELSE {stray \cup OnTheWay(c, call[c].pc, call[c].req)})
  /\ UNCHANGED <<job, task, cancels>>

FailTask(c) ==
  /\ faults < MaxFaults
  /\ faults' = faults + 1
  /\ task[c].req \in {"sent", "ok"}
  /\ task' = [task EXCEPT ![c].req = "failed"]
  /\ stray' \in {stray, stray \cup OnTheWay(c, Requests[task[c].i], task[c].req)}
  /\ UNCHANGED <<job, call, cancels>>

-----------------------------------------------------------------------------
Send(c, kind) == [call EXCEPT ![c].pc = kind, ![c].req = "sent"]
GivenTo(c, pc) == [call EXCEPT ![c] = [NoCall EXCEPT !.pc = pc, !.unsure = call[c].unsure]]
Over(c) == GivenTo(c, "over")

\* abandon_prompt: the task starts, and the call waits for it before it raises.
StartAbandon(c) ==
  task' = [task EXCEPT ![c] = [NoTask EXCEPT !.i = 1, !.req = "sent", !.reached = (job[c] # None)]]

AbandonWrong(c) ==   \* not waited for
  call' = GivenTo(c, "over") /\ StartAbandon(c)

Abandon(c) ==
  /\ call' = GivenTo(c, "abandon")
  /\ StartAbandon(c)

\* What an error does in run_workflow: a timeout gives the prompt up in every phase,
\* a lost connection only once it was submitted, anything else never.
Raise(c, error) ==
  IF error = "timeout" \/ (error = "connection" /\ call[c].pc # "prompt")
  THEN Abandon(c)
  ELSE call' = Over(c) /\ UNCHANGED task

Begin(c) ==
  /\ call[c].pc = "idle"
  /\ call' = Send(c, "prompt")
  /\ UNCHANGED <<job, task, stray, bounds>>

\* timeout_s has passed.
Deadline(c) ==
  /\ call[c].pc \in {"prompt", "history", "sleep"} /\ ~call[c].late
  /\ call' = [call EXCEPT ![c].late = TRUE]
  /\ UNCHANGED <<job, task, stray, bounds>>

Submitted(c) ==
  /\ call[c].pc = "prompt" /\ call[c].req \notin {"sent", "connection", "timeout", "auth"}
  /\ call' = IF call[c].req = "refused" THEN Over(c) ELSE Send(c, "history")
  /\ UNCHANGED <<job, task, stray, bounds>>

SubmitFails(c) ==
  /\ call[c].pc = "prompt" /\ call[c].req \in Failures
  /\ Raise(c, call[c].req)
  /\ UNCHANGED <<job, stray, bounds>>

\* The end of a turn of wait's loop: the deadline, or the next turn.
TurnEndsWrong(c, failures) ==   \* the deadline is for failed queries
  IF call[c].late /\ failures > 0 THEN Abandon(c)
  ELSE /\ call' = [call EXCEPT ![c].pc = "sleep", ![c].req = None, ![c].failures = failures]
       /\ UNCHANGED task

TurnEnds(c, failures) ==
  IF call[c].late THEN Abandon(c)
  ELSE /\ call' = [call EXCEPT ![c].pc = "sleep", ![c].req = None, ![c].failures = failures]
       /\ UNCHANGED task

Polled(c) ==
  /\ call[c].pc = "history" /\ call[c].req \notin {"sent"} \cup Failures
  /\ \/ call[c].req = "pending" /\ TurnEnds(c, 0)
     \/ call[c].req = "completed" /\ call' = Send(c, "view") /\ UNCHANGED task
     \/ call[c].req \in {"failed", "interrupted"} /\ call' = Over(c) /\ UNCHANGED task
  /\ UNCHANGED <<job, stray, bounds>>

\* A failed query is put up with, unless it is the last of so many in a row; the
\* authentication is not.  A query still open at the deadline is cut off (wait_for).
PollFails(c) ==
  /\ call[c].pc = "history"
  /\ LET n == call[c].failures + 1
     IN \/ call[c].req = "auth" /\ Raise(c, "auth")
        \/ /\ call[c].req \in {"connection", "timeout"}
           /\ IF n >= PollFailureLimit THEN Raise(c, call[c].req) ELSE TurnEnds(c, n)
        \/ call[c].req = "sent" /\ call[c].late /\ TurnEnds(c, n)
  /\ UNCHANGED <<job, stray, bounds>>

Wake(c) ==
  /\ call[c].pc = "sleep"
  /\ call' = Send(c, "history")
  /\ UNCHANGED <<job, task, stray, bounds>>

\* The files of a prompt that is done; none, too large and a failure end it as well.
Fetched(c) ==
  /\ call[c].pc = "view" /\ call[c].req # "sent"
  /\ call' = Over(c)
  /\ UNCHANGED <<job, task, stray, bounds>>

\* Cancelled in a request or a sleep: given up, unless the files were being fetched.
\* Cancelled again while it waits for the abandonment: the task goes on alone.
Cancel(c) ==
  /\ call[c].pc \notin {"idle", "over"} /\ cancels < MaxCancels
  /\ cancels' = cancels + 1
  /\ IF call[c].pc \in {"view", "abandon"}
     THEN call' = [Over(c) EXCEPT ![c].unsure = @ \/ call[c].pc = "abandon"] /\ UNCHANGED task
     ELSE /\ call' = [GivenTo(c, "abandon") EXCEPT ![c].unsure = (call[c].pc = "prompt")]
          /\ StartAbandon(c)
  /\ stray' \in {stray, stray \cup OnTheWay(c, call[c].pc, call[c].req)}
  /\ UNCHANGED <<job, faults>>

Abandoned(c) ==
  /\ call[c].pc = "abandon" /\ task[c].i = Ended
  /\ call' = Over(c)
  /\ UNCHANGED <<job, task, stray, bounds>>

-----------------------------------------------------------------------------
\* A failure of one request is not a reason to leave the other out.
TaskGoesOn(c) ==
  /\ Doing(task[c]) /\ task[c].req # "sent"
  /\ LET t == task[c]
         done == IF t.req = "ok" THEN t.done \cup {Requests[t.i]} ELSE t.done
     IN task' = [task EXCEPT ![c].i = t.i + 1, ![c].done = done,
                             ![c].req = IF t.i < Len(Requests) THEN "sent" ELSE None]
  /\ UNCHANGED <<job, call, stray, bounds>>

\* ABANDON_TIMEOUT_S; or the client was closed by a caller that is gone.
TaskTimesOut(c) ==
  /\ Doing(task[c])
  /\ \/ faults < MaxFaults /\ faults' = faults + 1
     \/ call[c].pc = "over" /\ UNCHANGED faults
  /\ task' = [task EXCEPT ![c].i = Ended, ![c].req = None]
  /\ stray' \in {stray, stray \cup OnTheWay(c, Requests[task[c].i], task[c].req)}
  /\ UNCHANGED <<job, call, cancels>>

-----------------------------------------------------------------------------
Init ==
  /\ job = [c \in Calls |-> None]
  /\ call = [c \in Calls |-> NoCall]
  /\ task = [c \in Calls |-> NoTask]
  /\ stray = {}
  /\ faults = 0 /\ cancels = 0

Serves(c) == ServeCall(c) \/ FailCall(c)
TaskSteps(c) == ServeTask(c) \/ FailTask(c) \/ TaskGoesOn(c) \/ TaskTimesOut(c)
CallSteps(c) ==
  \/ Submitted(c) \/ SubmitFails(c) \/ Polled(c) \/ PollFails(c) \/ Wake(c)
  \/ Fetched(c) \/ Abandoned(c)

Next ==
  \/ \E c \in Calls :
       \/ Begin(c) \/ Deadline(c) \/ Cancel(c) \/ Refuse(c) \/ Serves(c)
       \/ CallSteps(c) \/ TaskSteps(c) \/ RunJob(c) \/ EndJob(c)
  \/ \E r \in stray : ServeStray(r) \/ LoseStray(r)

\* Time passes, a request is answered or fails, the event loop goes on with what is
\* ready.  Nothing is assumed of the prompts: one may run for ever.
Fairness == \A c \in Calls :
  WF_vars(Deadline(c)) /\ WF_vars(Serves(c)) /\ WF_vars(CallSteps(c)) /\ WF_vars(TaskSteps(c))

Spec == Init /\ [][Next]_vars /\ Fairness

-----------------------------------------------------------------------------
\* A prompt that was on the server when it was given up, and whose two requests went
\* through, neither waits nor runs: it cannot start in between.
AbandonedIsStopped == \A c \in Calls :
  task[c].i = Ended /\ task[c].reached /\ task[c].done = {"delete", "interrupt"}
    => job[c] \notin Alive

\* Where no request failed, a call that is over leaves no prompt on the server, unless
\* it was cancelled during the submission or during the abandonment.
NothingLeftRunning == \A c \in Calls :
  call[c].pc = "over" /\ faults = 0 /\ ~call[c].unsure
    => job[c] \notin Alive

\* Every call comes to an end, whatever the prompt and the server do.
EveryCallEnds == \A c \in Calls : call[c].pc # "idle" ~> call[c].pc = "over"
=============================================================================

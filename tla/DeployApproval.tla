--------------------------- MODULE DeployApproval ---------------------------
(***************************************************************************)
(* deploy_state_machine.py with the approvals that drive it: one workflow, *)
(* the requests submitted for it (approval/store.py: submit,               *)
(* find_pending_for_target, system_cancel, settle), and the stage of its   *)
(* deployment.  The service that owns the workflow is outside this         *)
(* repository: Deploy, SwitchOff and Revoke call the transitions as the    *)
(* docstrings of deploy_state_machine.py and submit say they are called.   *)
(***************************************************************************)
EXTENDS Naturals, FiniteSets

CONSTANTS
  Submissions,       \* submissions in progress at once
  MaxRequests, \* bound on requests for this target
  NoRequest

ASSUME DeployAssumption == MaxRequests \in Nat \ {0} /\ NoRequest \notin Submissions

VARIABLES
  stage,      \* deployment_stage as it is stored, old names and garbage included
  indexed,    \* the partial unique index of models.py exists (core's migration)
  requestStatus,     \* approval_requests.status of each request, "none" without a row
  stepped,    \* requests with a step, so with somebody who can decide
  appliedAt,    \* requests whose applied_at is set
  inFlight,
  waitingFor, \* history: the request the stage was set to pending_approval for
  met,        \* history: two submissions were between the look-up and the INSERT
  hurried,    \* history: a request was submitted over an outcome not yet applied
  early       \* history: requests applied before their owner had written the stage

deployHistory == <<waitingFor, met, hurried, early>>
deployVars == <<stage, indexed, requestStatus, stepped, appliedAt, inFlight, deployHistory>>

Requests == 1 .. MaxRequests
Stages == {"idle", "pending_approval", "deployed", "rejected", "revoked"}
Aliases == [pending_admin |-> "pending_approval", pending_governance |-> "pending_approval",
            rejected_admin |-> "rejected", rejected_governance |-> "rejected"]
Outcomes == {"approved", "rejected", "canceled"}

\* normalize_stage: old names are read as the new ones, what is unknown as closed.
Normalize(s) ==
  CASE s \in Stages -> s
    [] s \in DOMAIN Aliases -> Aliases[s]
    [] OTHER -> "idle"

\* next_stage_on_user_deploy
OnUserDeploy(s, required) ==
  IF Normalize(s) # "deployed" /\ required THEN "pending_approval" ELSE "deployed"

Reached == [approved |-> "deployed", rejected |-> "rejected", canceled |-> "idle"]

OnApprovalWrong(s, verdict) == Reached[verdict]   \* whatever the stage has become

OnApprovalLost(s, verdict) ==   \* a withdrawal is not thought of
  IF Normalize(s) = "pending_approval" /\ verdict # "canceled" THEN Reached[verdict] ELSE s

\* next_stage_on_approval; the exception leaves the stage as it is.
OnApproval(s, verdict) ==
  IF Normalize(s) = "pending_approval" THEN Reached[verdict] ELSE s

\* stage_to_legacy_flags
Flags(s) ==
  [is_deployed |-> Normalize(s) = "deployed",
   inquire_deploy |-> Normalize(s) = "pending_approval",
   is_admin_accepted |-> Normalize(s) = "deployed",
   is_governance_accepted |-> Normalize(s) = "deployed"]

\* infer_state_from_legacy_flags
Infer(row) ==
  CASE row.is_deployed -> "deployed"
    [] ~row.is_deployed /\ row.inquire_deploy -> "pending_approval"
    [] ~row.is_deployed /\ ~row.inquire_deploy
       /\ (row.is_governance_accepted \/ row.is_admin_accepted) -> "revoked"
    [] OTHER -> "idle"

\* stage_to_simple_group
Group(s) ==
  CASE Normalize(s) = "deployed" -> "deployed"
    [] Normalize(s) = "pending_approval" -> "pending"
    [] OTHER -> "not_deployed"

-----------------------------------------------------------------------------
Open == {r \in Requests : requestStatus[r] = "pending"}
Fresh == {r \in Requests : requestStatus[r] = "none"}
NotSubmitting == [pc |-> "idle"]
Unsettled == {r \in Requests : requestStatus[r] \in Outcomes /\ r \notin appliedAt}

\* [deploy] is switched on, and needs no approval (or is on already).
DeployFree(required) ==
  /\ OnUserDeploy(stage, required) = "deployed"
  /\ stage' = "deployed"
  /\ waitingFor' = NoRequest
  /\ UNCHANGED <<indexed, requestStatus, stepped, appliedAt, inFlight, met, hurried, early>>

FindPendingWrong == {}   \* the target is not looked up
\* find_pending_for_target
FindPending == Open

\* [deploy] needs an approval: submit looks for an open request first ...
Deploy(c) ==
  /\ inFlight[c] = NotSubmitting
  /\ OnUserDeploy(stage, TRUE) = "pending_approval"
  /\ FindPending = {}
  /\ inFlight' = [inFlight EXCEPT ![c] = [pc |-> "insert"]]
  /\ met' = (met \/ \E d \in Submissions : inFlight[d].pc = "insert")
  /\ UNCHANGED <<stage, indexed, requestStatus, stepped, appliedAt, waitingFor, hurried, early>>

\* ... inserts the request, if the index lets it ...
SubmitInsert(c) ==
  /\ inFlight[c].pc = "insert"
  /\ \/ /\ (indexed /\ Open # {}) \/ Fresh = {}
        /\ inFlight' = [inFlight EXCEPT ![c] = NotSubmitting]
        /\ UNCHANGED <<requestStatus, hurried>>
     \/ /\ ~(indexed /\ Open # {})
        /\ \E r \in Fresh :
             /\ \A q \in Fresh : r <= q
             /\ requestStatus' = [requestStatus EXCEPT ![r] = "pending"]
             /\ inFlight' = [inFlight EXCEPT ![c] = [pc |-> "steps", id |-> r]]
        /\ hurried' = (hurried \/ Unsettled # {})
  /\ UNCHANGED <<stage, indexed, stepped, appliedAt, waitingFor, met, early>>

\* ... and its first step: from here on the request can be decided, while submit goes
\* on with the other steps, the blocks and the notice.
SubmitSteps(c) ==
  /\ inFlight[c].pc = "steps"
  /\ stepped' = stepped \cup {inFlight[c].id}
  /\ inFlight' = [inFlight EXCEPT ![c].pc = "stage"]
  /\ UNCHANGED <<stage, indexed, requestStatus, appliedAt, deployHistory>>

\* submit has returned: the owner writes the stage, which it computed before submit or
\* computes from the stage it reads now.
OwnerWrites(c) ==
  /\ inFlight[c].pc = "stage"
  /\ stage' \in {"pending_approval", OnUserDeploy(stage, TRUE)}
  /\ waitingFor' = IF stage' = "pending_approval" THEN inFlight[c].id ELSE NoRequest
  /\ inFlight' = [inFlight EXCEPT ![c] = NotSubmitting]
  /\ UNCHANGED <<indexed, requestStatus, stepped, appliedAt, met, hurried, early>>

\* The pod dies in the middle of submit or before the stage is written: the request
\* stays open, and blocks the target.
SubmitDies(c) ==
  /\ inFlight[c] # NotSubmitting
  /\ inFlight' = [inFlight EXCEPT ![c] = NotSubmitting]
  /\ UNCHANGED <<stage, indexed, requestStatus, stepped, appliedAt, deployHistory>>

\* [deploy] is switched off (next_stage_on_user_cancel), whatever the stage was.
SwitchOff ==
  /\ stage' = "idle"
  /\ waitingFor' = NoRequest
  /\ UNCHANGED <<indexed, requestStatus, stepped, appliedAt, inFlight, met, hurried, early>>

\* next_stage_on_admin_revoke
Revoke ==
  /\ Normalize(stage) = "deployed"
  /\ stage' = "revoked"
  /\ UNCHANGED <<indexed, requestStatus, stepped, appliedAt, inFlight, deployHistory>>

-----------------------------------------------------------------------------
\* The line decides (ApprovalStore has the queries); a request without a step has
\* nobody who could.
LineDecides(r, verdict) ==
  /\ requestStatus[r] = "pending"
  /\ r \in stepped
  /\ requestStatus' = [requestStatus EXCEPT ![r] = verdict]
  /\ UNCHANGED <<stage, indexed, stepped, appliedAt, inFlight, deployHistory>>

\* cancel and system_cancel close what is open, a half-written request too.
WithdrawRequest(r) ==
  /\ requestStatus[r] = "pending"
  /\ requestStatus' = [requestStatus EXCEPT ![r] = "canceled"]
  /\ UNCHANGED <<stage, indexed, stepped, appliedAt, inFlight, deployHistory>>

\* r was inserted by a submission whose owner has not written the stage yet.
Submitting(r) ==
  \E c \in Submissions : inFlight[c].pc \in {"steps", "stage"} /\ inFlight[c].id = r

\* settle: the owner's hook is handed the outcome, in any order, once; also while the
\* submission of the request is still under way.
Settle(r) ==
  /\ r \in Unsettled
  /\ stage' = OnApproval(stage, requestStatus[r])
  /\ appliedAt' = appliedAt \cup {r}
  /\ early' = IF Submitting(r) THEN early \cup {r} ELSE early
  /\ UNCHANGED <<indexed, requestStatus, stepped, inFlight, waitingFor, met, hurried>>

-----------------------------------------------------------------------------
DeployInit ==
  /\ indexed \in BOOLEAN
  /\ \/ /\ stage \in {"idle", "revoked", "rejected_admin", "garbage"}
        /\ requestStatus = [r \in Requests |-> "none"]
        /\ stepped = {}
        /\ waitingFor = NoRequest
     \/ /\ stage = "pending_admin"
        /\ requestStatus = [r \in Requests |-> IF r = 1 THEN "pending" ELSE "none"]
        /\ stepped = {1}
        /\ waitingFor = 1
  /\ appliedAt = {}
  /\ inFlight = [c \in Submissions |-> NotSubmitting]
  /\ met = FALSE /\ hurried = FALSE /\ early = {}

DeployNext ==
  \/ \E required \in BOOLEAN : DeployFree(required)
  \/ \E c \in Submissions : 
       \/ Deploy(c) \/ SubmitInsert(c) \/ SubmitSteps(c) \/ OwnerWrites(c) \/ SubmitDies(c)
  \/ SwitchOff \/ Revoke
  \/ \E r \in Requests :
       \/ \E verdict \in {"approved", "rejected"} : LineDecides(r, verdict)
       \/ WithdrawRequest(r) \/ Settle(r)

DeploySpec == DeployInit /\ [][DeployNext]_deployVars

-----------------------------------------------------------------------------
\* One open request per target: the index sees to it, and without the index the
\* look-up does, unless two submissions have both looked before either wrote.
OneOpenRequest == indexed \/ ~met => Cardinality(Open) <= 1

\* An outcome moves the deployment that waits for it and no other, as long as nobody
\* deploys again over an outcome that has not been applied, and the deployment does not
\* wait for a request that is over.  (If it does, another outcome opens or closes it.)
OutcomeMovesItsOwn ==
  [][\A r \in Requests :
       r \in appliedAt' \ appliedAt /\ ~hurried /\ waitingFor \notin early
           /\ (indexed \/ ~met) /\ Normalize(stage') # Normalize(stage)
         => r = waitingFor]_deployVars

\* The request a deployment waits for can still move it: it is open, or decided and not
\* yet handed to the hook.  The one way out is an outcome that was handed over before
\* the owner had written that the deployment waits for it.
WaitingHasARequest ==
  Normalize(stage) = "pending_approval" => waitingFor \in Open \cup Unsettled \cup early

\* The flags written for older readers say what the stage says: open, waiting or
\* closed, also when the stage is rebuilt from them.
FlagsKeepTheGroup == Group(Infer(Flags(stage))) = Group(stage)
=============================================================================

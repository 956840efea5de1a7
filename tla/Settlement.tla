----------------------------- MODULE Settlement -----------------------------
(***************************************************************************)
(* approval/store.py: what happens to a request after its outcome.  The    *)
(* call that decided it (_settle_hooks) and the workers of the owning      *)
(* service (claim_settlements, settle) all run finish: claim the request,  *)
(* run the hooks, stamp applied_at.  A claim older than APPLY_LEASE_S may  *)
(* be taken over, whether its holder died or is only slow.                 *)
(***************************************************************************)
EXTENDS Integers, FiniteSets

CONSTANTS
  Workers,   \* calls of finish that can be in progress at once, over all pods
  MaxDeaths, \* bound on workers that die or lose their database
  None

ASSUME SettlementAssumption == MaxDeaths \in Nat /\ None \notin Workers

VARIABLES
  outcome,    \* approval_requests.status, terminal from the start
  applied,    \* applied_at and apply_error: "no", "ok" or "error"
  claim,      \* apply_claimed_at: "none", "fresh" or "stale" (older than the lease)
  holder,     \* whose claim it is (not a column: the code cannot tell)
  pc,         \* where each worker is
  failed,     \* the workers whose hooks have reported an error
  effects,    \* what the hooks have done: "blocks", "action", "cleanup"
  attempts,   \* how many workers have gone on to the hooks
  deaths,
  disturbed   \* a claim could not be recorded, or ran out under a live holder

settlementVars == <<outcome, applied, claim, holder, pc, failed, effects, attempts, deaths, disturbed>>

MaxAttempts == MaxDeaths + 2   \* bound on runs without a claim

Running == {"blocks", "action", "cleanup", "stamp"}
PC == {"idle", "claim"} \cup Running
Active == {w \in Workers : pc[w] \in Running}

\* settle reads the request and leaves it alone once it has been applied.
Load(w) ==
  /\ pc[w] = "idle"
  /\ applied = "no"
  /\ pc' = [pc EXCEPT ![w] = "claim"]
  /\ UNCHANGED <<outcome, applied, claim, holder, failed, effects, attempts, deaths, disturbed>>

\* _settle_hooks goes to finish without looking (a withdrawal that came late).
LoadInline(w) ==
  /\ pc[w] = "idle"
  /\ applied # "no"
  /\ pc' = [pc EXCEPT ![w] = "claim"]
  /\ UNCHANGED <<outcome, applied, claim, holder, failed, effects, attempts, deaths, disturbed>>

FirstHookWrong == IF outcome = "approved" THEN "action" ELSE "cleanup"   \* skips the block values
FirstHook == IF outcome = "approved" THEN "blocks" ELSE "cleanup"
GoOn(w) ==
  /\ pc' = [pc EXCEPT ![w] = FirstHook]
  /\ attempts' = attempts + 1

TakeClaim(w, free) ==
  /\ pc[w] = "claim"
  /\ IF free
     THEN /\ claim' = "fresh"
          /\ holder' = w
          /\ GoOn(w)
     ELSE /\ pc' = [pc EXCEPT ![w] = "idle"]
          /\ UNCHANGED <<claim, holder, attempts>>
  /\ UNCHANGED <<outcome, applied, failed, effects, deaths, disturbed>>

ClaimWrongHeld(w) == TakeClaim(w, applied = "no")          \* though it is held
ClaimWrongDone(w) == TakeClaim(w, claim # "fresh")         \* though it is applied
ClaimWrongDead(w) == TakeClaim(w, applied = "no" /\ claim = "none")  \* never taken over

\* _claim_apply: one conditional UPDATE.
Claim(w) == TakeClaim(w, applied = "no" /\ claim # "fresh")

\* The UPDATE raises (no such column, no database): finish goes on unclaimed.
ClaimUnavailable(w) ==
  /\ pc[w] = "claim"
  /\ attempts < MaxAttempts
  /\ GoOn(w)
  /\ disturbed' = TRUE
  /\ UNCHANGED <<outcome, applied, claim, holder, failed, effects, deaths>>

\* The hooks of finish, the block values of an approval before its action.
RunHook(w, hook, next) ==
  /\ pc[w] = hook
  /\ effects' = effects \cup {hook}
  /\ pc' = [pc EXCEPT ![w] = next]
  /\ UNCHANGED <<outcome, applied, claim, holder, failed, attempts, deaths, disturbed>>

\* A hook that raises leaves its reason and the run goes on.
FailHook(w, hook, next) ==
  /\ pc[w] = hook
  /\ failed' = failed \cup {w}
  /\ pc' = [pc EXCEPT ![w] = next]
  /\ UNCHANGED <<outcome, applied, claim, holder, effects, attempts, deaths, disturbed>>

Hook(w, hook, next) == RunHook(w, hook, next) \/ FailHook(w, hook, next)

\* applied_at is stamped once, with the reason of whoever comes first.
Stamp(w) ==
  /\ pc[w] = "stamp"
  /\ applied' = CASE applied # "no" -> applied
                  [] applied = "no" /\ w \in failed -> "error"
                  [] OTHER -> "ok"
  /\ failed' = failed \ {w}
  /\ pc' = [pc EXCEPT ![w] = "idle"]
  /\ UNCHANGED <<outcome, claim, holder, effects, attempts, deaths, disturbed>>

\* APPLY_LEASE_S has passed since the claim was taken.
LeaseExpires ==
  /\ claim = "fresh"
  /\ claim' = "stale"
  /\ disturbed' = (disturbed \/ holder \in Active)
  /\ UNCHANGED <<outcome, applied, holder, pc, failed, effects, attempts, deaths>>

Die(w) ==
  /\ pc[w] # "idle"
  /\ deaths < MaxDeaths
  /\ deaths' = deaths + 1
  /\ failed' = failed \ {w}
  /\ pc' = [pc EXCEPT ![w] = "idle"]
  /\ UNCHANGED <<outcome, applied, claim, holder, effects, attempts, disturbed>>

SettlementInit ==
  /\ outcome \in {"approved", "rejected", "canceled"}
  /\ applied = "no"
  /\ claim = "none"
  /\ holder = None
  /\ pc = [w \in Workers |-> "idle"]
  /\ failed = {}
  /\ effects = {}
  /\ attempts = 0
  /\ deaths = 0
  /\ disturbed = FALSE

Finish(w) ==
  \/ Claim(w)
  \/ ClaimUnavailable(w)
  \/ Hook(w, "blocks", "action")
  \/ Hook(w, "action", "stamp")
  \/ Hook(w, "cleanup", "stamp")
  \/ Stamp(w)

SettlementNext ==
  \/ \E w \in Workers : Load(w) \/ LoadInline(w) \/ Finish(w) \/ Die(w)
  \/ LeaseExpires

\* The workers poll (claim_settlements is asked again and again), a worker that
\* has started goes on unless it dies, and time passes.
Fairness ==
  /\ \A w \in Workers : WF_settlementVars(Load(w)) /\ WF_settlementVars(Finish(w))
  /\ WF_settlementVars(LeaseExpires)

SettlementSpec == SettlementInit /\ [][SettlementNext]_settlementVars /\ Fairness

-----------------------------------------------------------------------------
TypeOK ==
  /\ outcome \in {"approved", "rejected", "canceled"}
  /\ applied \in {"no", "ok", "error"}
  /\ claim \in {"none", "fresh", "stale"}
  /\ holder \in Workers \cup {None}
  /\ pc \in [Workers -> PC]
  /\ failed \subseteq Workers
  /\ effects \subseteq {"blocks", "action", "cleanup"}
  /\ attempts \in Nat
  /\ deaths \in 0..MaxDeaths
  /\ disturbed \in BOOLEAN

\* Two pods never run the hooks of one request at the same time, as long as
\* claims can be recorded and hooks are quicker than the lease.
HooksDoNotOverlap ==
  ~disturbed => \A v, w \in Active : v = w

\* The hooks run once, and once more only for each worker that died on them.
RerunsHaveADeath == ~disturbed => attempts <= deaths + 1

\* "ok" is only stamped over the hooks of this outcome, each of them run: the
\* block values and the action of an approval, or the clean-up of the rest.
OkMeansDone ==
  applied = "ok" => effects = IF outcome = "approved" THEN {"blocks", "action"}
                                                      ELSE {"cleanup"}

\* A decided request does not stay "approved and nothing happened".
EventuallyApplied == <>(applied # "no")
=============================================================================

---------------------------- MODULE FormTemplates ----------------------------
(***************************************************************************)
(* approval/store.py and policy.py: approval lines, the forms attached to  *)
(* them, and the policy that names a default line, edited by several       *)
(* administrators while a requester submits.  Every query commits by       *)
(* itself.  One line, one form, one policy row.  A form needs as many      *)
(* approvers as its last step; each guard looks at one table and the edit  *)
(* behind it writes another.                                               *)
(***************************************************************************)
EXTENDS Naturals, FiniteSets, FiniteSetsExt

CONSTANTS
  Actors,   \* administrators and requesters with a call in progress
  MaxStep,  \* the longest line, and the last step of the longest form
  MaxCalls  \* bound on calls

ASSUME FormTemplatesAssumption == MaxStep \in Nat \ {0} /\ MaxCalls \in Nat

VARIABLES
  line,     \* approval_lines: approvers (rows of approval_line_steps), form, active
  form,     \* approval_forms: exists, active; steps and blocks are its rows
  policy,   \* approval_action_policies: line (default_line_id is set), locked
  doing,    \* what each actor is doing
  requests, \* what submissions have copied: approvers and the steps of their blocks
  begun,
  crossed,  \* history: two edits were under way at once, or one died half way
  revived   \* history: a policy was given a hidden line, or set_policy met delete_line

templatesVars == <<line, form, policy, doing, requests, begun, crossed, revived>>

AtRest == [kind |-> "none", pc |-> "idle"]
Edits == {"update_line", "set_line_form", "create_form", "update_form", "delete_form",
          "delete_line", "set_policy"}
FormEdits == {"create_form", "update_form", "delete_form"}
Busy(kinds) == {a \in Actors : doing[a].kind \in kinds}

\* COALESCE(MAX(step_index), 0)
Need(steps) == IF steps = {} THEN 0 ELSE Max(steps)

\* validate_form_shape: steps 0 .. n without a gap, at least one approver, and
\* blocks on steps there are.  Blocks of the draft (step 0) fit every line and
\* are left out.
Shape(steps, blocks) ==
  /\ steps \in {0 .. n : n \in 1 .. MaxStep}
  /\ blocks \subseteq steps \ {0}

At(a, kind, pc) == doing[a].kind = kind /\ doing[a].pc = pc
Go(a, pc) == doing' = [doing EXCEPT ![a].pc = pc]
Done(a) == doing' = [doing EXCEPT ![a] = AtRest]

\* A submission is calm while no form is being written under it.
Disturbed(b, call) ==
  IF doing[b].kind = "submit" /\ call.kind \in FormEdits
  THEN [doing[b] EXCEPT !.calm = FALSE] ELSE doing[b]

\* set_policy takes any line id, a hidden one too, and looks at it no more when it
\* writes: what delete_line has hidden, or is about to, is named again.
Revives(call) ==
  \/ call.kind = "delete_line" /\ Busy({"set_policy"}) # {}
  \/ /\ call.kind = "set_policy"
     /\ Busy({"delete_line"}) # {} \/ (call.new.line /\ ~line.active)

\* The first query of a call.
Begin(a, call) ==
  /\ doing[a] = AtRest
  /\ begun < MaxCalls
  /\ begun' = begun + 1
  /\ doing' = [b \in Actors |-> IF b = a THEN call ELSE Disturbed(b, call)]
  /\ crossed' = (crossed \/ (call.kind \in Edits /\ Busy(Edits) # {}))
  /\ revived' = (revived \/ Revives(call))

-----------------------------------------------------------------------------
\* update_line with steps: get_line, the guard, then DELETE and one INSERT each.
\* create_line writes its steps in the same way, to a line without a form.
UpdateLine(a, n) ==
  /\ Begin(a, [kind |-> "update_line", pc |-> "guard", n |-> n, form |-> line.form])
  /\ UNCHANGED <<line, form, policy, requests>>

FormStillFitsWrong(attached, n) == TRUE   \* the back door the guard closes
\* _guard_form_still_fits
FormStillFits(attached, n) == attached => n >= Need(form.steps)

UpdateLineGuard(a) ==
  /\ At(a, "update_line", "guard")
  /\ IF FormStillFits(doing[a].form, doing[a].n) THEN Go(a, "delete") ELSE Done(a)
  /\ UNCHANGED <<line, form, policy, requests, begun, crossed, revived>>

UpdateLineDelete(a) ==
  /\ At(a, "update_line", "delete")
  /\ line' = [line EXCEPT !.approvers = 0]
  /\ Go(a, "insert")
  /\ UNCHANGED <<form, policy, requests, begun, crossed, revived>>

\* UNIQUE(line_id, step_order): an INSERT into a line somebody else has filled fails.
UpdateLineInsert(a) ==
  /\ At(a, "update_line", "insert")
  /\ \/ /\ line.approvers < doing[a].n
        /\ line' = [line EXCEPT !.approvers = @ + 1]
        /\ IF line.approvers + 1 = doing[a].n THEN Done(a) ELSE Go(a, "insert")
     \/ /\ Busy({"update_line"}) # {a}
        /\ Done(a)
        /\ UNCHANGED line
  /\ UNCHANGED <<form, policy, requests, begun, crossed, revived>>

\* set_line_form: get_form, the number of approvers, UPDATE.
SetLineForm(a) ==
  /\ form.exists
  /\ Begin(a, [kind |-> "set_line_form", pc |-> "count", need |-> Need(form.steps)])
  /\ UNCHANGED <<line, form, policy, requests>>

Count(need) == line.approvers >= need

SetLineFormCount(a) ==
  /\ At(a, "set_line_form", "count")
  /\ IF Count(doing[a].need) THEN Go(a, "update") ELSE Done(a)
  /\ UNCHANGED <<line, form, policy, requests, begun, crossed, revived>>

\* The foreign key refuses a form that is gone.
SetLineFormUpdate(a) ==
  /\ At(a, "set_line_form", "update")
  /\ line' = [line EXCEPT !.form = @ \/ form.exists]
  /\ Done(a)
  /\ UNCHANGED <<form, policy, requests, begun, crossed, revived>>

\* set_line_form with None detaches in one query.
DetachForm(a) ==
  /\ doing[a] = AtRest
  /\ line.form
  /\ line' = [line EXCEPT !.form = FALSE]
  /\ crossed' = (crossed \/ Busy(Edits) # {})
  /\ UNCHANGED <<form, policy, doing, requests, begun, revived>>

-----------------------------------------------------------------------------
\* update_form: steps and blocks are the ones given, or the ones just read; without
\* either only columns are updated.  get_form is read first.
UpdateForm(a, steps, blocks, active) ==
  /\ form.exists
  /\ Shape(steps, blocks) \/ (steps = {} /\ blocks = {})
  /\ Begin(a, [kind |-> "update_form", pc |-> IF active THEN "guard" ELSE "used",
               steps |-> steps, blocks |-> blocks, active |-> active])
  /\ UNCHANGED <<line, form, policy, requests>>

\* A form is taken down only while no line uses it.
DeactivateUsed(a) ==
  /\ At(a, "update_form", "used")
  /\ IF line.form THEN Done(a) ELSE Go(a, "guard")
  /\ UNCHANGED <<line, form, policy, requests, begun, crossed, revived>>

\* _guard_lines_still_fit
LinesStillFit(need) == line.form => line.approvers >= need

UpdateFormGuard(a) ==
  /\ At(a, "update_form", "guard")
  /\ CASE doing[a].steps = {} -> Go(a, "flag")
       [] doing[a].steps # {} /\ LinesStillFit(Need(doing[a].steps)) -> Go(a, "steps")
       [] OTHER -> Done(a)
  /\ UNCHANGED <<line, form, policy, requests, begun, crossed, revived>>

\* create_form inserts the row, then writes like update_form.
CreateForm(a, steps, blocks) ==
  /\ ~form.exists
  /\ Shape(steps, blocks)
  /\ Begin(a, [kind |-> "create_form", pc |-> "steps", steps |-> steps,
               blocks |-> blocks, active |-> TRUE])
  /\ form' = [exists |-> TRUE, active |-> TRUE, steps |-> {}, blocks |-> {}]
  /\ UNCHANGED <<line, policy, requests>>

Writing(a, pc) == doing[a].kind \in FormEdits /\ doing[a].pc = pc

\* _write_steps and _write_blocks: a DELETE, then the INSERTs in order; one that
\* meets a row already there, or a form that is gone, ends the call.
WriteDelete(a, field, next) ==
  /\ Writing(a, field)
  /\ form' = [form EXCEPT ![field] = {}]
  /\ Go(a, next)
  /\ UNCHANGED <<line, policy, requests, begun, crossed, revived>>

Missing(a, field) == doing[a][field] \ form[field]

WriteInsert(a, pc, field, next) ==
  /\ Writing(a, pc)
  /\ IF ~form.exists
     THEN Done(a) /\ UNCHANGED form
     ELSE IF Missing(a, field) = {}
     THEN Go(a, next) /\ UNCHANGED form
     ELSE /\ form' = [form EXCEPT ![field] = @ \cup {Min(Missing(a, field))}]
          /\ UNCHANGED doing
  /\ UNCHANGED <<line, policy, requests, begun, crossed, revived>>

WriteForm(a) ==
  \/ WriteDelete(a, "steps", "insert_steps")
  \/ WriteInsert(a, "insert_steps", "steps", "blocks")
  \/ WriteDelete(a, "blocks", "insert_blocks")
  \/ WriteInsert(a, "insert_blocks", "blocks", "flag")

\* The remaining columns; a form without a row is not updated.
WriteFlag(a) ==
  /\ Writing(a, "flag")
  /\ form' = [form EXCEPT !.active = IF form.exists THEN doing[a].active ELSE @]
  /\ Done(a)
  /\ UNCHANGED <<line, policy, requests, begun, crossed, revived>>

DeleteForm(a) ==
  /\ form.exists
  /\ Begin(a, [kind |-> "delete_form", pc |-> "used"])
  /\ UNCHANGED <<line, form, policy, requests>>

FormUsed == line.form

DeleteFormUsed(a) ==
  /\ At(a, "delete_form", "used")
  /\ IF FormUsed THEN Done(a) ELSE Go(a, "delete")
  /\ UNCHANGED <<line, form, policy, requests, begun, crossed, revived>>

NoForm == [exists |-> FALSE, active |-> FALSE, steps |-> {}, blocks |-> {}]

\* ON DELETE CASCADE for steps and blocks, SET NULL for lines.
DeleteFormRow(a) ==
  /\ At(a, "delete_form", "delete")
  /\ form' = NoForm
  /\ line' = [line EXCEPT !.form = FALSE]
  /\ Done(a)
  /\ UNCHANGED <<policy, requests, begun, crossed, revived>>

-----------------------------------------------------------------------------
\* delete_line: the policies that use the line, then clear them, then hide it.
DeleteLine(a, force) ==
  /\ Begin(a, [kind |-> "delete_line", force |-> force,
               pc |-> IF policy.line THEN "clear" ELSE "hide"])
  /\ UNCHANGED <<line, form, policy, requests>>

ClearedWrong == [policy EXCEPT !.line = FALSE]   \* stays locked to nothing
Cleared == [line |-> FALSE, locked |-> FALSE]

DeleteLineClear(a) ==
  /\ At(a, "delete_line", "clear")
  /\ IF doing[a].force
     THEN policy' = Cleared /\ Go(a, "hide")
     ELSE UNCHANGED policy /\ Done(a)
  /\ UNCHANGED <<line, form, requests, begun, crossed, revived>>

DeleteLineHide(a) ==
  /\ At(a, "delete_line", "hide")
  /\ line' = [line EXCEPT !.active = FALSE]
  /\ Done(a)
  /\ UNCHANGED <<form, policy, requests, begun, crossed, revived>>

\* set_policy: what is not given keeps the value it read; without a line there is
\* no lock, and asking for one is refused.
Keep == {"keep", "on", "off"}
Value(given, old) == CASE given = "keep" -> old [] given = "on" -> TRUE [] OTHER -> FALSE

NewPolicy(newLine, newLocked) ==
  [line |-> newLine, locked |-> newLine /\ Value(newLocked, policy.locked)]

SetPolicy(a, givenLine, givenLocked) ==
  LET newLine == Value(givenLine, policy.line)
  IN /\ ~(givenLocked = "on" /\ ~newLine)
     /\ Begin(a, [kind |-> "set_policy", pc |-> "upsert",
                  new |-> NewPolicy(newLine, givenLocked)])
     /\ UNCHANGED <<line, form, policy, requests>>

SetPolicyUpsert(a) ==
  /\ At(a, "set_policy", "upsert")
  /\ policy' = doing[a].new
  /\ Done(a)
  /\ UNCHANGED <<line, form, requests, begun, crossed, revived>>

-----------------------------------------------------------------------------
Whole == form.blocks \subseteq form.steps \ {0}

\* submit with the line's form: n approvers, as many as the line has or as the
\* requester left of it.
Submit(a, n) ==
  /\ line.form
  /\ Begin(a, [kind |-> "submit", pc |-> "cover", n |-> n,
               calm |-> Whole /\ Busy(FormEdits) = {}])
  /\ UNCHANGED <<line, form, policy, requests>>

CoversWrong(n) == TRUE   \* the submit screen lets approvers be taken out
\* _guard_steps_cover_form
Covers(n) == n >= Need(form.steps)

SubmitCover(a) ==
  /\ At(a, "submit", "cover")
  /\ IF Covers(doing[a].n) THEN Go(a, "copy") ELSE Done(a)
  /\ UNCHANGED <<line, form, policy, requests, begun, crossed, revived>>

\* snapshot_form_blocks, after the request and its steps; the foreign key of
\* form_id has refused the request if the form is gone.
SubmitCopy(a) ==
  /\ At(a, "submit", "copy")
  /\ requests' = IF form.exists
                 THEN requests \cup {[n |-> doing[a].n, blocks |-> form.blocks,
                                      calm |-> doing[a].calm]}
                 ELSE requests
  /\ Done(a)
  /\ UNCHANGED <<line, form, policy, begun, crossed, revived>>

\* The pod of a call dies between two queries.
DieHalfWay(a) ==
  /\ doing[a] # AtRest
  /\ Done(a)
  /\ crossed' = (crossed \/ doing[a].kind \in Edits)
  /\ UNCHANGED <<line, form, policy, requests, begun, revived>>

-----------------------------------------------------------------------------
TemplatesInit ==
  /\ line = [approvers |-> MaxStep, form |-> FALSE, active |-> TRUE]
  /\ form = [exists |-> TRUE, active |-> TRUE, steps |-> {0, 1}, blocks |-> {1}]
  /\ policy = [line |-> FALSE, locked |-> FALSE]
  /\ doing = [a \in Actors |-> AtRest]
  /\ requests = {}
  /\ begun = 0
  /\ crossed = FALSE
  /\ revived = FALSE

Edit(a) ==
  \/ \E n \in 1 .. MaxStep : UpdateLine(a, n)
  \/ SetLineForm(a) \/ DetachForm(a) \/ DeleteForm(a)
  \/ \E steps, blocks \in SUBSET (0 .. MaxStep) :
        \/ CreateForm(a, steps, blocks)
        \/ \E active \in BOOLEAN : UpdateForm(a, steps, blocks, active)
  \/ \E force \in BOOLEAN : DeleteLine(a, force)
  \/ \E l, k \in Keep : SetPolicy(a, l, k)

Continue(a) ==
  \/ UpdateLineGuard(a) \/ UpdateLineDelete(a) \/ UpdateLineInsert(a)
  \/ SetLineFormCount(a) \/ SetLineFormUpdate(a)
  \/ DeactivateUsed(a) \/ UpdateFormGuard(a) \/ WriteForm(a) \/ WriteFlag(a)
  \/ DeleteFormUsed(a) \/ DeleteFormRow(a)
  \/ DeleteLineClear(a) \/ DeleteLineHide(a) \/ SetPolicyUpsert(a)
  \/ SubmitCover(a) \/ SubmitCopy(a)

TemplatesNext == \E a \in Actors :
  \/ Edit(a) \/ Continue(a) \/ DieHalfWay(a)
  \/ \E n \in 1 .. MaxStep : Submit(a, n)

TemplatesSpec == TemplatesInit /\ [][TemplatesNext]_templatesVars

-----------------------------------------------------------------------------
\* Edits that do not meet keep every line as long as its form: the guards of
\* update_line, update_form and set_line_form close each other's back doors.
\* (Two edits that meet can break it: each guard reads what the other writes.)
LineCoversItsForm ==
  ~crossed /\ Busy(Edits) = {} /\ line.form => line.approvers >= Need(form.steps \cup form.blocks)

\* A request has an approver for every block it copied, if its form was not being
\* written while it was submitted: lines may be edited, and left too short.
RequestIsCovered ==
  \A r \in requests : r.calm => \A b \in r.blocks : b <= r.n

\* A locked policy always names a line: nobody is locked to nothing.  The line a
\* policy names can still be chosen, whatever else is edited or dies half way:
\* delete_line empties the policies it would leave blank.  Only set_policy can undo
\* that, given a hidden line or with a delete_line under way.
DefaultLineIsUsable ==
  /\ policy.locked => policy.line
  /\ policy.line => line.active \/ revived
=============================================================================

-------------------------- MODULE Request_proofs ---------------------------
(***************************************************************************)
(* Proofs about the tables around a request, before, while and after it is *)
(* decided.  First FormTemplates: the line, the form and the policy that a *)
(* submission copies.  Then FormBlocks: what the copied blocks hold while  *)
(* approvers decide.  Then Settlement: the hooks that run afterwards.      *)
(* Last DeployApproval: the deployment that such a request was made for.   *)
(* The four share no variable and each theorem is about one specification. *)
(***************************************************************************)
EXTENDS FormTemplates, FormBlocks, Settlement, DeployApproval, WellFoundedInduction,
        FiniteSetTheorems, TLAPS

\* FormTemplates.

StepSets == SUBSET (0 .. MaxStep)
FormPc == {"used", "guard", "steps", "insert_steps", "blocks", "insert_blocks", "flag"}

UpdateLineCall == [kind : {"update_line"}, pc : {"guard", "delete", "insert"},
                   n : 1 .. MaxStep, form : BOOLEAN]
SetLineFormCall == [kind : {"set_line_form"}, pc : {"count", "update"}, need : 0 .. MaxStep]
FormCall == [kind : {"update_form", "create_form"}, pc : FormPc,
             steps : StepSets, blocks : StepSets, active : BOOLEAN]
DeleteFormCall == [kind : {"delete_form"}, pc : {"used", "delete"}]
DeleteLineCall == [kind : {"delete_line"}, force : BOOLEAN, pc : {"clear", "hide"}]
PolicyRow == [line : BOOLEAN, locked : BOOLEAN]
SetPolicyCall == [kind : {"set_policy"}, pc : {"upsert"}, new : PolicyRow]
SubmitCall == [kind : {"submit"}, pc : {"cover", "copy"}, n : 1 .. MaxStep, calm : BOOLEAN]
EditCall == UpdateLineCall \cup SetLineFormCall \cup FormCall \cup DeleteFormCall
              \cup DeleteLineCall \cup SetPolicyCall
Task == {AtRest} \cup EditCall \cup SubmitCall

TemplatesType ==
  /\ line \in [approvers : 0 .. MaxStep, form : BOOLEAN, active : BOOLEAN]
  /\ form \in [exists : BOOLEAN, active : BOOLEAN, steps : StepSets, blocks : StepSets]
  /\ policy \in PolicyRow
  /\ doing \in [Actors -> Task]
  /\ requests \subseteq [n : 1 .. MaxStep, blocks : StepSets, calm : BOOLEAN]
  /\ begun \in Nat /\ crossed \in BOOLEAN

\* What a line at rest is: as long as the form it has, whose blocks are on its steps.
Fits ==
  /\ Whole
  /\ line.form => form.exists /\ line.approvers >= Need(form.steps)

\* What holds of an edit of a form between its queries.
FormCallKnows(c) ==
  LET longEnough == line.form => line.approvers >= Need(c.steps)
      writing == form.exists /\ Shape(c.steps, c.blocks) /\ longEnough
  IN  CASE c.pc \in {"used", "guard"} ->
             Fits /\ form.exists /\ (Shape(c.steps, c.blocks) \/ c.steps = {})
        [] c.pc = "steps" -> writing
        [] c.pc = "insert_steps" -> writing /\ form.steps \subseteq c.steps
        [] c.pc = "blocks" -> writing /\ form.steps = c.steps
        [] c.pc = "insert_blocks" ->
             writing /\ form.steps = c.steps /\ form.blocks \subseteq c.blocks
        [] OTHER -> Fits

\* What an edit that meets no other still has of what its guards read.
Knows(c) ==
  CASE c.kind = "update_line" /\ c.pc = "guard" -> Fits /\ c.form = line.form
    [] c.kind = "update_line" /\ c.pc # "guard" ->
         /\ Whole
         /\ line.form => form.exists /\ c.n >= Need(form.steps)
         /\ c.pc = "insert" => line.approvers < c.n
    [] c.kind = "set_line_form" ->
         /\ Fits
         /\ c.need = Need(form.steps)
         /\ c.pc = "update" => line.approvers >= c.need
    [] c.kind \in {"update_form", "create_form"} -> FormCallKnows(c)
    [] OTHER -> Fits

\* Until two edits meet or one dies, one is under way at a time, and between them
\* the line fits its form.
EditsApart ==
  ~crossed =>
    /\ \A a, b \in Busy(Edits) : a = b
    /\ \A a \in Busy(Edits) : Knows(doing[a])
    /\ Busy(Edits) = {} => Fits

\* A lock goes with a line, in the row and in the row about to be written.
LockedNeedsLine ==
  /\ policy.locked => policy.line
  /\ \A a \in Actors : doing[a].kind = "set_policy" /\ doing[a].new.locked => doing[a].new.line

\* A calm submission has the form to itself: what it counted is what it copies.
CalmStays ==
  \A a \in Actors : doing[a].kind = "submit" /\ doing[a].calm =>
    /\ Whole
    /\ Busy(FormEdits) = {}
    /\ doing[a].pc = "copy" => doing[a].n >= Need(form.steps)

\* Unless a policy was given a hidden line, or set_policy met delete_line, a line is
\* hidden only when no policy names it, and none is about to.
PolicyKept ==
  ~revived =>
    /\ policy.line => line.active
    /\ \A a \in Busy({"delete_line"}) : doing[a].pc = "hide" => ~policy.line
    /\ \A a \in Busy({"set_policy"}) : doing[a].new.line => line.active
    /\ Busy({"delete_line"}) = {} \/ Busy({"set_policy"}) = {}

TemplatesInv ==
  TemplatesType /\ EditsApart /\ LockedNeedsLine /\ CalmStays /\ RequestIsCovered

-----------------------------------------------------------------------------
\* A set of numbers that is not empty has a least element.
LEMMA LeastExists ==
  ASSUME NEW S, S \subseteq Nat, S # {}
  PROVE  \E x \in S : \A y \in S : x <= y
<1> DEFINE R == {ss \in Nat \X Nat : ss[1] < ss[2]}
<1>1. IsWellFoundedOn(R, Nat)
  <2>1. OpToRel(<, Nat) = R
    BY Zenon DEF OpToRel
  <2> QED
    BY <2>1, NatLessThanWellFounded, Zenon
<1>2. \A x, y \in Nat : x < y => <<x, y>> \in R
  OBVIOUS
<1> HIDE DEF R
<1>3. PICK x \in S : \A y \in S : ~(<<y, x>> \in R)
  BY <1>1, WFMin
<1>4. \A y \in S : x <= y
  <2> SUFFICES ASSUME NEW y \in S PROVE x <= y
    OBVIOUS
  <2>1. ~(y < x)
    BY <1>2, <1>3
  <2> QED
    BY <2>1
<1> QED
  BY <1>4

LEMMA MinIsIn ==
  ASSUME NEW S, S \subseteq Nat, S # {}
  PROVE  Min(S) \in S
BY LeastExists DEF Min

\* The last of a set of numbers below a bound is in the set, and the rest is below it.
LEMMA MaxIsLast ==
  ASSUME NEW m \in Nat, NEW S, S \subseteq 0 .. m, S # {}
  PROVE  Max(S) \in S /\ \A x \in S : x <= Max(S)
<1> DEFINE T == {m - x : x \in S}
<1>1. T \subseteq Nat /\ T # {}
  <2>1. \A x \in S : m - x \in Nat
    OBVIOUS
  <2>2. PICK x \in S : TRUE
    OBVIOUS
  <2>3. m - x \in T
    BY <2>2
  <2> QED
    BY <2>1, <2>3
<1>2. PICK t \in T : \A u \in T : t <= u
  BY <1>1, LeastExists
<1>3. PICK x \in S : t = m - x
  OBVIOUS
<1>4. \A y \in S : x >= y
  <2> TAKE y \in S
  <2>1. m - y \in T
    OBVIOUS
  <2>2. m - x <= m - y
    BY <1>2, <1>3, <2>1
  <2> QED
    BY <2>2
<1>5. \E w \in S : \A y \in S : w >= y
  BY <1>4
<1>6. Max(S) \in S /\ \A y \in S : Max(S) >= y
  BY <1>5 DEF Max
<1> QED
  BY <1>6

LEMMA NeedBounds ==
  ASSUME NEW S \in StepSets
  PROVE  Need(S) \in 0 .. MaxStep /\ \A x \in S : x <= Need(S)
<1>1. CASE S = {}
  BY <1>1, FormTemplatesAssumption DEF Need
<1>2. CASE S # {}
  <2>1. S \subseteq 0 .. MaxStep /\ MaxStep \in Nat
    BY FormTemplatesAssumption DEF StepSets
  <2>2. Max(S) \in S /\ \A x \in S : x <= Max(S)
    BY <1>2, <2>1, MaxIsLast
  <2>3. Need(S) = Max(S)
    BY <1>2 DEF Need
  <2> QED
    BY <2>1, <2>2, <2>3
<1> QED
  BY <1>1, <1>2

\* The kind of a call says what the call is.
LEMMA TheTask ==
  ASSUME NEW t \in Task
  PROVE  /\ t.kind = "update_line" => t \in UpdateLineCall
         /\ t.kind = "set_line_form" => t \in SetLineFormCall
         /\ t.kind \in {"update_form", "create_form"} => t \in FormCall
         /\ t.kind = "delete_form" => t \in DeleteFormCall
         /\ t.kind = "delete_line" => t \in DeleteLineCall
         /\ t.kind = "set_policy" => t \in SetPolicyCall
         /\ t.kind = "submit" => t \in SubmitCall
         /\ t.kind \in Edits <=> t \in EditCall
         /\ t \in EditCall \/ t.kind = "submit" \/ t = AtRest
         /\ t.kind = "none" <=> t = AtRest
<1>1. CASE t = AtRest
  BY <1>1 DEF AtRest, Edits, EditCall, UpdateLineCall, SetLineFormCall, FormCall,
     DeleteFormCall, DeleteLineCall, SetPolicyCall, SubmitCall
<1>2. CASE t \in SubmitCall
  BY <1>2 DEF AtRest, Edits, EditCall, UpdateLineCall, SetLineFormCall, FormCall,
     DeleteFormCall, DeleteLineCall, SetPolicyCall, SubmitCall
<1>3. CASE t \in UpdateLineCall
  BY <1>3 DEF AtRest, Edits, EditCall, UpdateLineCall
<1>4. CASE t \in SetLineFormCall
  BY <1>4 DEF AtRest, Edits, EditCall, SetLineFormCall
<1>5. CASE t \in FormCall
  BY <1>5 DEF AtRest, Edits, EditCall, FormCall
<1>6. CASE t \in DeleteFormCall
  BY <1>6 DEF AtRest, Edits, EditCall, DeleteFormCall
<1>7. CASE t \in DeleteLineCall
  BY <1>7 DEF AtRest, Edits, EditCall, DeleteLineCall
<1>8. CASE t \in SetPolicyCall
  BY <1>8 DEF AtRest, Edits, EditCall, SetPolicyCall
<1> QED
  BY <1>1, <1>2, <1>3, <1>4, <1>5, <1>6, <1>7, <1>8 DEF Task, EditCall

\* A call that goes on or ends touches no other.
LEMMA OneTaskMoves ==
  ASSUME NEW a \in Actors, TemplatesType, NEW x \in Task, doing' = [doing EXCEPT ![a] = x]
  PROVE  /\ doing' \in [Actors -> Task]
         /\ \A b \in Actors : doing'[b] = IF b = a THEN x ELSE doing[b]
BY DEF TemplatesType

-----------------------------------------------------------------------------
\* A query of an edit under way keeps what the edits and the submissions rely on if
\* it keeps what its own edit knows.
LEMMA EditGoesOn ==
  ASSUME NEW a \in Actors, TemplatesInv, doing[a].kind \in Edits,
         NEW x \in Task, x = AtRest \/ x.kind = doing[a].kind, x.kind # "set_policy",
         doing' = [doing EXCEPT ![a] = x],
         UNCHANGED <<requests, begun, crossed>>,
         line' \in [approvers : 0 .. MaxStep, form : BOOLEAN, active : BOOLEAN],
         form' \in [exists : BOOLEAN, active : BOOLEAN, steps : StepSets, blocks : StepSets],
         policy' \in PolicyRow,
         policy'.locked => policy'.line,
         form' = form \/ doing[a].kind \in FormEdits,
         ~crossed => IF x = AtRest THEN Fits' ELSE Knows(x)'
  PROVE  TemplatesInv'
<1>1. /\ doing' \in [Actors -> Task]
      /\ \A b \in Actors : doing'[b] = IF b = a THEN x ELSE doing[b]
  BY OneTaskMoves DEF TemplatesInv
<1>2. TemplatesType'
  BY <1>1 DEF TemplatesInv, TemplatesType
<1>3. LockedNeedsLine'
  BY <1>1 DEF TemplatesInv, LockedNeedsLine
<1>4. CalmStays'
  <2> SUFFICES ASSUME NEW b \in Actors, doing'[b].kind = "submit", doing'[b].calm
               PROVE  /\ Whole'
                      /\ Busy(FormEdits)' = {}
                      /\ doing'[b].pc = "copy" => doing'[b].n >= Need(form'.steps)
    BY DEF CalmStays
  <2>1. b # a /\ doing'[b] = doing[b]
    BY <1>1 DEF Edits, AtRest
  <2>2. /\ Whole
        /\ Busy(FormEdits) = {}
        /\ doing[b].pc = "copy" => doing[b].n >= Need(form.steps)
    BY <2>1 DEF TemplatesInv, CalmStays
  <2>3. form' = form
    BY <2>2 DEF Busy
  <2>4. Busy(FormEdits)' = {}
    BY <1>1, <2>2 DEF Busy, AtRest, FormEdits
  <2> QED
    BY <2>1, <2>2, <2>3, <2>4 DEF Whole
<1>5. EditsApart'
  <2> SUFFICES ASSUME ~crossed
               PROVE  /\ \A b, c \in Busy(Edits)' : b = c
                      /\ \A b \in Busy(Edits)' : Knows(doing[b])'
                      /\ Busy(Edits)' = {} => Fits'
    BY DEF EditsApart
  <2>1. Busy(Edits) = {a}
    BY DEF TemplatesInv, EditsApart, Busy
  <2>2. CASE x = AtRest
    <3>1. Busy(Edits)' = {}
      BY <1>1, <2>1, <2>2 DEF Busy, AtRest, Edits
    <3> QED
      BY <2>2, <3>1
  <2>3. CASE x # AtRest
    <3>1. Busy(Edits)' = {a}
      BY <1>1, <2>1, <2>3 DEF Busy
    <3>2. doing'[a] = x
      BY <1>1
    <3>3. Knows(doing[a])'
      BY <2>3, <3>2 DEF Knows, FormCallKnows
    <3> QED
      BY <3>1, <3>3
  <2> QED
    BY <2>2, <2>3
<1>6. RequestIsCovered'
  BY DEF TemplatesInv, RequestIsCovered
<1> QED
  BY <1>2, <1>3, <1>4, <1>5, <1>6 DEF TemplatesInv

\* A call that begins changes no more of another than the calm of a submission.
LEMMA DisturbedStays ==
  ASSUME TemplatesType, NEW x, NEW b \in Actors
  PROVE  /\ Disturbed(b, x) \in Task
         /\ Disturbed(b, x).kind = doing[b].kind
         /\ doing[b].kind # "submit" => Disturbed(b, x) = doing[b]
<1>1. doing[b] \in Task
  BY DEF TemplatesType
<1>2. CASE doing[b].kind = "submit"
  <2>1. doing[b] \in SubmitCall
    BY <1>1, <1>2, TheTask
  <2>2. [doing[b] EXCEPT !.calm = FALSE] \in SubmitCall
    BY <2>1 DEF SubmitCall
  <2>3. [doing[b] EXCEPT !.calm = FALSE].kind = doing[b].kind
    BY <2>1 DEF SubmitCall
  <2> QED
    BY <1>2, <2>1, <2>2, <2>3 DEF Disturbed, Task
<1>3. CASE doing[b].kind # "submit"
  BY <1>1, <1>3 DEF Disturbed
<1> QED
  BY <1>2, <1>3

\* The first query of an edit: the submissions it meets are calm no more.
LEMMA EditBegins ==
  ASSUME NEW a \in Actors, TemplatesInv, NEW x \in EditCall, Begin(a, x),
         UNCHANGED <<line, policy, requests>>,
         form' \in [exists : BOOLEAN, active : BOOLEAN, steps : StepSets, blocks : StepSets],
         form' = form \/ x.kind \in FormEdits,
         x.kind = "set_policy" /\ x.new.locked => x.new.line,
         ~crossed /\ Fits => Knows(x)'
  PROVE  TemplatesInv'
<1> DEFINE D(b) == IF b = a THEN x ELSE Disturbed(b, x)
<1>1. /\ doing[a] = AtRest /\ begun' = begun + 1
      /\ doing' = [b \in Actors |-> D(b)]
      /\ crossed' = (crossed \/ (x.kind \in Edits /\ Busy(Edits) # {}))
  BY DEF Begin
<1>2. x \in Task /\ x.kind \in Edits
  BY TheTask DEF Task
<1>3. \A b \in Actors : /\ Disturbed(b, x) \in Task
                        /\ Disturbed(b, x).kind = doing[b].kind
                        /\ doing[b].kind # "submit" => Disturbed(b, x) = doing[b]
  BY DisturbedStays DEF TemplatesInv
<1>4. \A b \in Actors : doing'[b] = IF b = a THEN x ELSE Disturbed(b, x)
  BY <1>1
<1>5. doing' \in [Actors -> Task]
  BY <1>1, <1>2, <1>3
<1>6. TemplatesType'
  BY <1>1, <1>5 DEF TemplatesInv, TemplatesType
<1>7. LockedNeedsLine'
  <2> SUFFICES ASSUME NEW b \in Actors, doing'[b].kind = "set_policy", doing'[b].new.locked
               PROVE  doing'[b].new.line
    BY DEF TemplatesInv, LockedNeedsLine
  <2>1. CASE b = a
    BY <1>4, <2>1
  <2>2. CASE b # a
    <3>1. doing'[b] = doing[b]
      BY <1>3, <1>4, <2>2
    <3> QED
      BY <3>1 DEF TemplatesInv, LockedNeedsLine
  <2> QED
    BY <2>1, <2>2
<1>8. CalmStays'
  <2> SUFFICES ASSUME NEW b \in Actors, doing'[b].kind = "submit", doing'[b].calm
               PROVE  /\ Whole'
                      /\ Busy(FormEdits)' = {}
                      /\ doing'[b].pc = "copy" => doing'[b].n >= Need(form'.steps)
    BY DEF CalmStays
  <2>1. b # a /\ doing'[b] = Disturbed(b, x) /\ doing[b].kind = "submit"
    BY <1>2, <1>3, <1>4 DEF Edits
  <2>2. x.kind \notin FormEdits
    <3> SUFFICES ASSUME x.kind \in FormEdits PROVE FALSE
      OBVIOUS
    <3>1. doing[b] \in SubmitCall
      BY <2>1, TheTask DEF TemplatesInv, TemplatesType
    <3>2. ~[doing[b] EXCEPT !.calm = FALSE].calm
      BY <3>1 DEF SubmitCall
    <3> QED
      BY <2>1, <3>2 DEF Disturbed
  <2>3. doing'[b] = doing[b] /\ form' = form
    BY <2>1, <2>2 DEF Disturbed
  <2>4. /\ Whole
        /\ Busy(FormEdits) = {}
        /\ doing[b].pc = "copy" => doing[b].n >= Need(form.steps)
    BY <2>1, <2>3 DEF TemplatesInv, CalmStays
  <2>5. Busy(FormEdits)' = {}
    BY <1>3, <1>4, <2>2, <2>4 DEF Busy
  <2> QED
    BY <2>3, <2>4, <2>5 DEF Whole
<1>9. EditsApart'
  <2> SUFFICES ASSUME ~crossed, Busy(Edits) = {}
               PROVE  /\ \A b, c \in Busy(Edits)' : b = c
                      /\ \A b \in Busy(Edits)' : Knows(doing[b])'
                      /\ Busy(Edits)' = {} => Fits'
    BY <1>1, <1>2 DEF EditsApart
  <2>1. Busy(Edits)' = {a}
    BY <1>2, <1>3, <1>4 DEF Busy
  <2>2. doing'[a] = x
    BY <1>4
  <2>3. Fits
    BY DEF TemplatesInv, EditsApart
  <2>4. Knows(doing[a])'
    BY <2>2, <2>3 DEF Knows, FormCallKnows
  <2> QED
    BY <2>1, <2>3, <2>4
<1>10. RequestIsCovered'
  BY DEF TemplatesInv, RequestIsCovered
<1> QED
  BY <1>6, <1>7, <1>8, <1>9, <1>10 DEF TemplatesInv

\* A submission that begins, goes on or ends leaves the edits alone.
LEMMA EditsUntouched ==
  ASSUME TemplatesInv, UNCHANGED <<line, form, policy, crossed>>,
         doing' \in [Actors -> Task],
         \A b \in Actors : doing[b].kind \in Edits \/ doing'[b].kind \in Edits
                             => doing'[b] = doing[b]
  PROVE  EditsApart' /\ LockedNeedsLine'
<1>1. Busy(Edits)' = Busy(Edits)
  BY DEF Busy
<1>2. EditsApart'
  <2> SUFFICES ASSUME ~crossed
               PROVE  /\ \A b, c \in Busy(Edits)' : b = c
                      /\ \A b \in Busy(Edits)' : Knows(doing[b])'
                      /\ Busy(Edits)' = {} => Fits'
    BY DEF EditsApart
  <2>1. /\ \A b, c \in Busy(Edits) : b = c
        /\ \A b \in Busy(Edits) : Knows(doing[b])
        /\ Busy(Edits) = {} => Fits
    BY DEF TemplatesInv, EditsApart
  <2>2. ASSUME NEW b \in Busy(Edits)' PROVE Knows(doing[b])'
    <3>1. doing'[b] = doing[b]
      BY DEF Busy
    <3>2. Knows(doing[b])
      BY <1>1, <2>1
    <3> QED
      BY <3>1, <3>2 DEF Knows, FormCallKnows, Fits, Whole
  <2> QED
    BY <1>1, <2>1, <2>2 DEF Fits, Whole
<1>3. LockedNeedsLine'
  BY DEF TemplatesInv, LockedNeedsLine, Edits
<1> QED
  BY <1>2, <1>3

LEMMA SubmitStep ==
  ASSUME NEW a \in Actors, NEW n \in 1 .. MaxStep, TemplatesInv, Submit(a, n)
  PROVE  TemplatesInv'
<1> DEFINE calmNow == Whole /\ Busy(FormEdits) = {}
           x == [kind |-> "submit", pc |-> "cover", n |-> n, calm |-> calmNow]
<1>1. x \in SubmitCall /\ x \in Task /\ x.kind = "submit"
  BY DEF SubmitCall, Task
<1>2. /\ doing[a] = AtRest /\ begun' = begun + 1
      /\ doing' = [b \in Actors |-> IF b = a THEN x ELSE Disturbed(b, x)]
      /\ crossed' = (crossed \/ (x.kind \in Edits /\ Busy(Edits) # {}))
      /\ UNCHANGED <<line, form, policy, requests>>
  BY DEF Submit, Begin
<1>3. x.pc = "cover" /\ (x.calm => calmNow)
  OBVIOUS
<1> HIDE DEF x
<1>4. \A b \in Actors : doing'[b] = IF b = a THEN x ELSE doing[b]
  BY <1>1, <1>2 DEF Disturbed, FormEdits
<1>5. doing' \in [Actors -> Task]
  <2>1. doing' = [b \in Actors |-> IF b = a THEN x ELSE doing[b]]
    BY <1>1, <1>2 DEF Disturbed, FormEdits
  <2> QED
    BY <1>1, <2>1 DEF TemplatesInv, TemplatesType
<1>6. crossed' = crossed
  BY <1>1, <1>2 DEF Edits, TemplatesInv, TemplatesType
<1>7. TemplatesType'
  BY <1>2, <1>5, <1>6 DEF TemplatesInv, TemplatesType
<1>8. EditsApart' /\ LockedNeedsLine'
  <2>1. \A b \in Actors : doing[b].kind \in Edits \/ doing'[b].kind \in Edits
                             => doing'[b] = doing[b]
    BY <1>1, <1>2, <1>4 DEF Edits, AtRest
  <2> QED
    BY <1>2, <1>5, <1>6, <2>1, EditsUntouched
<1>9. CalmStays'
  <2> SUFFICES ASSUME NEW b \in Actors, doing'[b].kind = "submit", doing'[b].calm
               PROVE  /\ Whole'
                      /\ Busy(FormEdits)' = {}
                      /\ doing'[b].pc = "copy" => doing'[b].n >= Need(form'.steps)
    BY DEF CalmStays
  <2>1. Busy(FormEdits)' = Busy(FormEdits)
    BY <1>1, <1>2, <1>4 DEF Busy, FormEdits, AtRest
  <2>2. Whole' = Whole
    BY <1>2 DEF Whole
  <2>3. CASE b = a
    BY <1>3, <1>4, <2>1, <2>2, <2>3
  <2>4. CASE b # a
    <3>1. doing'[b] = doing[b]
      BY <1>4, <2>4
    <3> QED
      BY <1>2, <2>1, <2>2, <3>1 DEF TemplatesInv, CalmStays
  <2> QED
    BY <2>3, <2>4
<1>10. RequestIsCovered'
  BY <1>2 DEF TemplatesInv, RequestIsCovered
<1> QED
  BY <1>7, <1>8, <1>9, <1>10 DEF TemplatesInv

\* A submission counts the approvers, and has its calm as long as nobody begins to
\* write the form.
LEMMA SubmitCoverStep == ASSUME NEW a \in Actors, TemplatesInv, SubmitCover(a) PROVE TemplatesInv'
<1>1. /\ doing[a].kind = "submit" /\ doing[a].pc = "cover"
      /\ IF doing[a].n >= Need(form.steps) THEN Go(a, "copy") ELSE Done(a)
      /\ UNCHANGED <<line, form, policy, requests, begun, crossed>>
  BY DEF SubmitCover, At, Covers
<1>2. doing[a] \in SubmitCall
  BY <1>1, TheTask DEF TemplatesInv, TemplatesType
<1>3. PICK x \in Task :
        /\ doing' = [doing EXCEPT ![a] = x]
        /\ x = AtRest \/ /\ x.kind = "submit" /\ x.calm = doing[a].calm
                         /\ x.n >= Need(form.steps)
  <2>1. CASE doing[a].n >= Need(form.steps)
    <3> DEFINE y == [doing[a] EXCEPT !.pc = "copy"]
    <3>1. doing' = [doing EXCEPT ![a] = y]
      BY <1>1, <2>1 DEF Go
    <3>2. y \in SubmitCall /\ y.calm = doing[a].calm /\ y.n = doing[a].n
      BY <1>2 DEF SubmitCall
    <3> HIDE DEF y
    <3> QED
      BY <2>1, <3>1, <3>2 DEF Task, SubmitCall
  <2>2. CASE ~(doing[a].n >= Need(form.steps))
    BY <1>1, <2>2 DEF Done, Task
  <2> QED
    BY <2>1, <2>2
<1>4. /\ doing' \in [Actors -> Task]
      /\ \A b \in Actors : doing'[b] = IF b = a THEN x ELSE doing[b]
  BY <1>3, OneTaskMoves DEF TemplatesInv
<1>5. TemplatesType'
  BY <1>1, <1>4 DEF TemplatesInv, TemplatesType
<1>6. EditsApart' /\ LockedNeedsLine'
  <2>1. \A b \in Actors : doing[b].kind \in Edits \/ doing'[b].kind \in Edits
                             => doing'[b] = doing[b]
    BY <1>1, <1>3, <1>4 DEF Edits, AtRest
  <2> QED
    BY <1>1, <1>4, <2>1, EditsUntouched
<1>7. CalmStays'
  <2> SUFFICES ASSUME NEW b \in Actors, doing'[b].kind = "submit", doing'[b].calm
               PROVE  /\ Whole'
                      /\ Busy(FormEdits)' = {}
                      /\ doing'[b].pc = "copy" => doing'[b].n >= Need(form'.steps)
    BY DEF CalmStays
  <2>1. Busy(FormEdits)' = Busy(FormEdits)
    BY <1>1, <1>3, <1>4 DEF Busy, FormEdits, AtRest
  <2>2. Whole' = Whole
    BY <1>1 DEF Whole
  <2>3. CASE b = a
    BY <1>1, <1>3, <1>4, <2>1, <2>2, <2>3 DEF TemplatesInv, CalmStays, AtRest
  <2>4. CASE b # a
    <3>1. doing'[b] = doing[b]
      BY <1>4, <2>4
    <3> QED
      BY <1>1, <2>1, <2>2, <3>1 DEF TemplatesInv, CalmStays
  <2> QED
    BY <2>3, <2>4
<1>8. RequestIsCovered'
  BY <1>1 DEF TemplatesInv, RequestIsCovered
<1> QED
  BY <1>5, <1>6, <1>7, <1>8 DEF TemplatesInv

\* What a calm submission copies is what it counted.
LEMMA SubmitCopyStep == ASSUME NEW a \in Actors, TemplatesInv, SubmitCopy(a) PROVE TemplatesInv'
<1> DEFINE copied == [n |-> doing[a].n, blocks |-> form.blocks, calm |-> doing[a].calm]
<1>1. /\ doing[a].kind = "submit" /\ doing[a].pc = "copy"
      /\ doing' = [doing EXCEPT ![a] = AtRest]
      /\ requests' = IF form.exists THEN requests \cup {copied} ELSE requests
      /\ UNCHANGED <<line, form, policy, begun, crossed>>
  BY DEF SubmitCopy, At, Done
<1>2. doing[a] \in SubmitCall
  BY <1>1, TheTask DEF TemplatesInv, TemplatesType
<1>3. /\ doing' \in [Actors -> Task]
      /\ \A b \in Actors : doing'[b] = IF b = a THEN AtRest ELSE doing[b]
  BY <1>1, OneTaskMoves DEF TemplatesInv, Task
<1>4. copied \in [n : 1 .. MaxStep, blocks : StepSets, calm : BOOLEAN]
  BY <1>2 DEF SubmitCall, TemplatesInv, TemplatesType
<1>5. copied.calm => \A b \in copied.blocks : b <= copied.n
  <2> SUFFICES ASSUME doing[a].calm, NEW b \in form.blocks PROVE b <= doing[a].n
    OBVIOUS
  <2>1. b \in form.steps /\ doing[a].n >= Need(form.steps)
    BY <1>1 DEF TemplatesInv, CalmStays, Whole
  <2>2. form.steps \in StepSets /\ form.blocks \in StepSets
    BY DEF TemplatesInv, TemplatesType
  <2>3. b <= Need(form.steps) /\ Need(form.steps) \in 0 .. MaxStep
    BY <2>1, <2>2, NeedBounds
  <2> QED
    BY <1>2, <2>1, <2>2, <2>3, FormTemplatesAssumption DEF SubmitCall, StepSets
<1> HIDE DEF copied
<1>6. TemplatesType'
  <2>1. requests' \subseteq [n : 1 .. MaxStep, blocks : StepSets, calm : BOOLEAN]
    BY <1>1, <1>4 DEF TemplatesInv, TemplatesType
  <2> QED
    BY <1>1, <1>3, <2>1 DEF TemplatesInv, TemplatesType
<1>7. EditsApart' /\ LockedNeedsLine'
  <2>1. \A b \in Actors : doing[b].kind \in Edits \/ doing'[b].kind \in Edits
                             => doing'[b] = doing[b]
    BY <1>1, <1>3 DEF Edits, AtRest
  <2> QED
    BY <1>1, <1>3, <2>1, EditsUntouched
<1>8. CalmStays'
  <2> SUFFICES ASSUME NEW b \in Actors, doing'[b].kind = "submit", doing'[b].calm
               PROVE  /\ Whole'
                      /\ Busy(FormEdits)' = {}
                      /\ doing'[b].pc = "copy" => doing'[b].n >= Need(form'.steps)
    BY DEF CalmStays
  <2>1. Busy(FormEdits)' = Busy(FormEdits)
    BY <1>1, <1>3 DEF Busy, FormEdits, AtRest
  <2>2. doing'[b] = doing[b]
    BY <1>3 DEF AtRest
  <2> QED
    BY <1>1, <2>1, <2>2 DEF TemplatesInv, CalmStays, Whole
<1>9. RequestIsCovered'
  <2>1. RequestIsCovered
    BY DEF TemplatesInv
  <2> QED
    BY <1>1, <1>5, <2>1 DEF RequestIsCovered
<1> QED
  BY <1>6, <1>7, <1>8, <1>9 DEF TemplatesInv

\* A line without a form is long enough for it.
LEMMA DetachFormStep == ASSUME NEW a \in Actors, TemplatesInv, DetachForm(a) PROVE TemplatesInv'
<1>1. /\ line.form
      /\ line' = [line EXCEPT !.form = FALSE]
      /\ crossed' = (crossed \/ Busy(Edits) # {})
      /\ UNCHANGED <<form, policy, doing, requests, begun>>
  BY DEF DetachForm
<1>2. /\ line' \in [approvers : 0 .. MaxStep, form : BOOLEAN, active : BOOLEAN]
      /\ ~line'.form /\ line'.active = line.active
  BY <1>1 DEF TemplatesInv, TemplatesType
<1>3. TemplatesType'
  BY <1>1, <1>2 DEF TemplatesInv, TemplatesType
<1>4. EditsApart'
  <2> SUFFICES ASSUME ~crossed, Busy(Edits) = {}
               PROVE  /\ \A b, c \in Busy(Edits)' : b = c
                      /\ \A b \in Busy(Edits)' : Knows(doing[b])'
                      /\ Busy(Edits)' = {} => Fits'
    BY <1>1 DEF EditsApart
  <2>1. Busy(Edits)' = {}
    BY <1>1 DEF Busy
  <2>2. Fits
    BY DEF TemplatesInv, EditsApart
  <2> QED
    BY <1>1, <1>2, <2>1, <2>2 DEF Fits, Whole
<1>5. LockedNeedsLine'
  BY <1>1 DEF TemplatesInv, LockedNeedsLine
<1>6. CalmStays'
  BY <1>1 DEF TemplatesInv, CalmStays, Whole, Busy
<1>7. RequestIsCovered'
  BY <1>1 DEF TemplatesInv, RequestIsCovered
<1> QED
  BY <1>3, <1>4, <1>5, <1>6, <1>7 DEF TemplatesInv

\* An edit that dies half way counts as one that crossed another.
LEMMA DieHalfWayStep == ASSUME NEW a \in Actors, TemplatesInv, DieHalfWay(a) PROVE TemplatesInv'
<1>1. /\ doing[a] # AtRest
      /\ doing' = [doing EXCEPT ![a] = AtRest]
      /\ crossed' = (crossed \/ doing[a].kind \in Edits)
      /\ UNCHANGED <<line, form, policy, requests, begun>>
  BY DEF DieHalfWay, Done
<1>2. /\ doing' \in [Actors -> Task]
      /\ \A b \in Actors : doing'[b] = IF b = a THEN AtRest ELSE doing[b]
  BY <1>1, OneTaskMoves DEF TemplatesInv, Task
<1>3. TemplatesType'
  BY <1>1, <1>2 DEF TemplatesInv, TemplatesType
<1>4. EditsApart' /\ LockedNeedsLine'
  <2>1. CASE doing[a].kind \in Edits
    BY <1>1, <1>2, <2>1 DEF TemplatesInv, EditsApart, LockedNeedsLine, AtRest
  <2>2. CASE doing[a].kind \notin Edits
    <3>1. \A b \in Actors : doing[b].kind \in Edits \/ doing'[b].kind \in Edits
                               => doing'[b] = doing[b]
      BY <1>2, <2>2 DEF Edits, AtRest
    <3>2. crossed' = crossed
      BY <1>1, <2>2 DEF TemplatesInv, TemplatesType
    <3> QED
      BY <1>1, <1>2, <3>1, <3>2, EditsUntouched
  <2> QED
    BY <2>1, <2>2
<1>5. CalmStays'
  <2> SUFFICES ASSUME NEW b \in Actors, doing'[b].kind = "submit", doing'[b].calm
               PROVE  /\ Whole'
                      /\ Busy(FormEdits)' = {}
                      /\ doing'[b].pc = "copy" => doing'[b].n >= Need(form'.steps)
    BY DEF CalmStays
  <2>1. doing'[b] = doing[b]
    BY <1>2 DEF AtRest
  <2>2. Busy(FormEdits) = {} => Busy(FormEdits)' = {}
    BY <1>2 DEF Busy, FormEdits, AtRest
  <2> QED
    BY <1>1, <2>1, <2>2 DEF TemplatesInv, CalmStays, Whole
<1>6. RequestIsCovered'
  BY <1>1 DEF TemplatesInv, RequestIsCovered
<1> QED
  BY <1>3, <1>4, <1>5, <1>6 DEF TemplatesInv

\* A line without a form, a form with one approver.
THEOREM TemplatesInitially == TemplatesInit => TemplatesInv
<1> SUFFICES ASSUME TemplatesInit PROVE TemplatesInv
  OBVIOUS
<1>1. MaxStep \in Nat /\ 0 \in 0 .. MaxStep /\ 1 \in 0 .. MaxStep /\ MaxStep \in 0 .. MaxStep
  BY FormTemplatesAssumption
<1>2. {0, 1} \in StepSets /\ {1} \in StepSets
  BY <1>1 DEF StepSets
<1>3. TemplatesType
  <2>1. doing \in [Actors -> Task]
    BY DEF TemplatesInit, Task
  <2>2. line \in [approvers : 0 .. MaxStep, form : BOOLEAN, active : BOOLEAN]
    BY <1>1 DEF TemplatesInit
  <2>3. form \in [exists : BOOLEAN, active : BOOLEAN, steps : StepSets, blocks : StepSets]
    BY <1>2 DEF TemplatesInit
  <2> QED
    BY <2>1, <2>2, <2>3 DEF TemplatesInit, TemplatesType, PolicyRow
<1>4. \A a \in Actors : doing[a].kind = "none"
  BY DEF TemplatesInit, AtRest
<1>5. Busy(Edits) = {} /\ Fits
  BY <1>4 DEF TemplatesInit, Busy, Edits, Fits, Whole
<1>6. EditsApart
  BY <1>5 DEF EditsApart, TemplatesInit
<1> QED
  BY <1>3, <1>4, <1>6 DEF TemplatesInv, LockedNeedsLine, CalmStays, RequestIsCovered, TemplatesInit

-----------------------------------------------------------------------------
\* The first queries: each edit starts from a line that fits its form.
LEMMA EditsBegin ==
  ASSUME NEW a \in Actors, TemplatesInv,
         \/ \E n \in 1 .. MaxStep : UpdateLine(a, n)
         \/ SetLineForm(a) \/ DeleteForm(a)
         \/ \E force \in BOOLEAN : DeleteLine(a, force)
  PROVE  TemplatesInv'
<1>1. form \in [exists : BOOLEAN, active : BOOLEAN, steps : StepSets, blocks : StepSets]
  BY DEF TemplatesInv, TemplatesType
<1>2. ASSUME NEW n \in 1 .. MaxStep, UpdateLine(a, n) PROVE TemplatesInv'
  <2> DEFINE c == [kind |-> "update_line", pc |-> "guard", n |-> n, form |-> line.form]
  <2>1. Begin(a, c) /\ UNCHANGED <<line, form, policy, requests>>
    BY <1>2 DEF UpdateLine
  <2>2. PICK x : x = c
    OBVIOUS
  <2>3. x \in EditCall /\ x.kind = "update_line" /\ x.pc = "guard" /\ x.form = line.form
    BY <2>2 DEF EditCall, UpdateLineCall, TemplatesInv, TemplatesType
  <2>4. ~crossed /\ Fits => Knows(x)'
    BY <2>1, <2>3 DEF Knows, Fits, Whole
  <2>5. Begin(a, x)
    BY <2>1, <2>2
  <2> HIDE DEF c
  <2> QED
    BY <1>1, <2>1, <2>3, <2>4, <2>5, EditBegins
<1>3. ASSUME SetLineForm(a) PROVE TemplatesInv'
  <2> DEFINE c == [kind |-> "set_line_form", pc |-> "count", need |-> Need(form.steps)]
  <2>1. Begin(a, c) /\ UNCHANGED <<line, form, policy, requests>>
    BY <1>3 DEF SetLineForm
  <2>2. PICK x : x = c
    OBVIOUS
  <2>3. x \in EditCall /\ x.kind = "set_line_form" /\ x.pc = "count" /\ x.need = Need(form.steps)
    BY <1>1, <2>2, NeedBounds DEF EditCall, SetLineFormCall
  <2>4. ~crossed /\ Fits => Knows(x)'
    BY <2>1, <2>3 DEF Knows, Fits, Whole
  <2>5. Begin(a, x)
    BY <2>1, <2>2
  <2> HIDE DEF c
  <2> QED
    BY <1>1, <2>1, <2>3, <2>4, <2>5, EditBegins
<1>4. ASSUME DeleteForm(a) PROVE TemplatesInv'
  <2> DEFINE c == [kind |-> "delete_form", pc |-> "used"]
  <2>1. Begin(a, c) /\ UNCHANGED <<line, form, policy, requests>>
    BY <1>4 DEF DeleteForm
  <2>2. PICK x : x = c
    OBVIOUS
  <2>3. x \in EditCall /\ x.kind = "delete_form"
    BY <2>2 DEF EditCall, DeleteFormCall
  <2>4. ~crossed /\ Fits => Knows(x)'
    BY <2>1, <2>3 DEF Knows, Fits, Whole
  <2>5. Begin(a, x)
    BY <2>1, <2>2
  <2> HIDE DEF c
  <2> QED
    BY <1>1, <2>1, <2>3, <2>4, <2>5, EditBegins
<1>5. ASSUME NEW force \in BOOLEAN, DeleteLine(a, force) PROVE TemplatesInv'
  <2> DEFINE c == [kind |-> "delete_line", force |-> force,
                   pc |-> IF policy.line THEN "clear" ELSE "hide"]
  <2>1. Begin(a, c) /\ UNCHANGED <<line, form, policy, requests>>
    BY <1>5 DEF DeleteLine
  <2>2. PICK x : x = c
    OBVIOUS
  <2>3. x \in EditCall /\ x.kind = "delete_line"
    BY <2>2 DEF EditCall, DeleteLineCall
  <2>4. ~crossed /\ Fits => Knows(x)'
    BY <2>1, <2>3 DEF Knows, Fits, Whole
  <2>5. Begin(a, x)
    BY <2>1, <2>2
  <2> HIDE DEF c
  <2> QED
    BY <1>1, <2>1, <2>3, <2>4, <2>5, EditBegins
<1> QED
  BY <1>2, <1>3, <1>4, <1>5

\* set_policy writes a lock only with a line.
LEMMA SetPolicyStep ==
  ASSUME NEW a \in Actors, NEW l \in Keep, NEW k \in Keep, TemplatesInv, SetPolicy(a, l, k)
  PROVE  TemplatesInv'
<1> DEFINE newLine == Value(l, policy.line)
           row == [line |-> newLine, locked |-> newLine /\ Value(k, policy.locked)]
           c == [kind |-> "set_policy", pc |-> "upsert", new |-> row]
<1>1. Begin(a, c) /\ UNCHANGED <<line, form, policy, requests>>
  BY DEF SetPolicy, NewPolicy
<1>2. policy.line \in BOOLEAN /\ policy.locked \in BOOLEAN
  BY DEF TemplatesInv, TemplatesType, PolicyRow
<1>3. newLine \in BOOLEAN /\ Value(k, policy.locked) \in BOOLEAN
  BY <1>2 DEF Value
<1>4. row \in PolicyRow /\ (row.locked => row.line)
  BY <1>3 DEF PolicyRow
<1> HIDE DEF row, newLine
<1>5. PICK x : x = c
  OBVIOUS
<1>6. x \in EditCall /\ x.kind = "set_policy" /\ x.new = row
  BY <1>4, <1>5 DEF EditCall, SetPolicyCall
<1>7. ~crossed /\ Fits => Knows(x)'
  BY <1>1, <1>6 DEF Knows, Fits, Whole
<1>8. form' \in [exists : BOOLEAN, active : BOOLEAN, steps : StepSets, blocks : StepSets]
  BY <1>1 DEF TemplatesInv, TemplatesType
<1>9. Begin(a, x)
  BY <1>1, <1>5
<1>10. x.kind = "set_policy" /\ x.new.locked => x.new.line
  BY <1>4, <1>6
<1> HIDE DEF c
<1> QED
  BY <1>1, <1>6, <1>7, <1>8, <1>9, <1>10, EditBegins

\* A form is created for no line, and changed from what fits.
LEMMA FormEditsBegin ==
  ASSUME NEW a \in Actors, NEW ss \in StepSets, NEW bb \in StepSets, TemplatesInv,
         CreateForm(a, ss, bb) \/ \E act \in BOOLEAN : UpdateForm(a, ss, bb, act)
  PROVE  TemplatesInv'
<1>1. ASSUME CreateForm(a, ss, bb) PROVE TemplatesInv'
  <2> DEFINE c == [kind |-> "create_form", pc |-> "steps", steps |-> ss,
                   blocks |-> bb, active |-> TRUE]
             new == [exists |-> TRUE, active |-> TRUE, steps |-> {}, blocks |-> {}]
  <2>1. ~form.exists /\ Shape(ss, bb) /\ Begin(a, c) /\ form' = new
        /\ UNCHANGED <<line, policy, requests>>
    BY <1>1 DEF CreateForm
  <2>2. PICK x : x = c
    OBVIOUS
  <2>3. x \in EditCall /\ x.kind = "create_form" /\ x.pc = "steps" /\ x.steps = ss /\ x.blocks = bb
    BY <2>2 DEF EditCall, FormCall, FormPc
  <2>4. form' \in [exists : BOOLEAN, active : BOOLEAN, steps : StepSets, blocks : StepSets]
        /\ form'.exists
    BY <2>1 DEF StepSets
  <2>5. ~crossed /\ Fits => Knows(x)'
    <3> SUFFICES ASSUME ~crossed, Fits PROVE Knows(x)'
      OBVIOUS
    <3>1. ~line'.form
      BY <2>1 DEF Fits
    <3>2. Shape(x.steps, x.blocks)
      BY <2>1, <2>3
    <3>3. FormCallKnows(x)'
      BY <2>3, <2>4, <3>1, <3>2 DEF FormCallKnows, Shape
    <3> QED
      BY <2>3, <3>3 DEF Knows
  <2>6. Begin(a, x)
    BY <2>1, <2>2
  <2> HIDE DEF c, new
  <2> QED
    BY <2>1, <2>3, <2>4, <2>5, <2>6, EditBegins DEF FormEdits
<1>2. ASSUME NEW act \in BOOLEAN, UpdateForm(a, ss, bb, act) PROVE TemplatesInv'
  <2> DEFINE c == [kind |-> "update_form", pc |-> IF act THEN "guard" ELSE "used",
                   steps |-> ss, blocks |-> bb, active |-> act]
  <2>1. /\ form.exists
        /\ Shape(ss, bb) \/ (ss = {} /\ bb = {})
        /\ Begin(a, c)
        /\ UNCHANGED <<line, form, policy, requests>>
    BY <1>2 DEF UpdateForm
  <2>2. PICK x : x = c
    OBVIOUS
  <2>3. /\ x \in EditCall /\ x.kind = "update_form" /\ x.pc \in {"used", "guard"}
        /\ x.steps = ss /\ x.blocks = bb
    BY <2>2 DEF EditCall, FormCall, FormPc
  <2>4. ~crossed /\ Fits => Knows(x)'
    <3> SUFFICES ASSUME ~crossed, Fits PROVE Knows(x)'
      OBVIOUS
    <3>1. Fits' /\ form'.exists
      BY <2>1 DEF Fits, Whole
    <3>2. Shape(x.steps, x.blocks) \/ x.steps = {}
      BY <2>1, <2>3
    <3>3. FormCallKnows(x)'
      BY <2>3, <3>1, <3>2 DEF FormCallKnows, Shape
    <3> QED
      BY <2>3, <3>3 DEF Knows
  <2>5. Begin(a, x)
    BY <2>1, <2>2
  <2>6. form' \in [exists : BOOLEAN, active : BOOLEAN, steps : StepSets, blocks : StepSets]
    BY <2>1 DEF TemplatesInv, TemplatesType
  <2> HIDE DEF c
  <2> QED
    BY <2>1, <2>3, <2>4, <2>5, <2>6, EditBegins
<1> QED
  BY <1>1, <1>2

-----------------------------------------------------------------------------
\* An edit at a query by itself has what it knows.
LEMMA Alone ==
  ASSUME NEW a \in Actors, TemplatesInv, doing[a].kind \in Edits, ~crossed
  PROVE  Knows(doing[a]) /\ Busy(Edits) = {a}
BY DEF TemplatesInv, EditsApart, Busy

\* A query that only looks goes on to the next one or ends the call.
LEMMA EditLooks ==
  ASSUME NEW a \in Actors, TemplatesInv, doing[a].kind \in Edits, doing[a].kind # "set_policy",
         NEW x \in Task, x = AtRest \/ x.kind = doing[a].kind,
         doing' = [doing EXCEPT ![a] = x],
         UNCHANGED <<line, form, policy, requests, begun, crossed>>,
         ~crossed => IF x = AtRest THEN Fits ELSE Knows(x)
  PROVE  TemplatesInv'
<1>1. /\ line' \in [approvers : 0 .. MaxStep, form : BOOLEAN, active : BOOLEAN]
      /\ form' \in [exists : BOOLEAN, active : BOOLEAN, steps : StepSets, blocks : StepSets]
      /\ policy' \in PolicyRow
      /\ policy'.locked => policy'.line
  BY DEF TemplatesInv, TemplatesType, LockedNeedsLine
<1>2. x.kind # "set_policy"
  BY DEF AtRest
<1>3. ~crossed => IF x = AtRest THEN Fits' ELSE Knows(x)'
  BY DEF Knows, FormCallKnows, Fits, Whole
<1> QED
  BY <1>1, <1>2, <1>3, EditGoesOn

\* _guard_form_still_fits: the new approvers are enough for the form, or the line has none.
LEMMA UpdateLineGuardStep ==
  ASSUME NEW a \in Actors, TemplatesInv, UpdateLineGuard(a) PROVE TemplatesInv'
<1> DEFINE fits == doing[a].form => doing[a].n >= Need(form.steps)
           next == [doing[a] EXCEPT !.pc = "delete"]
<1>1. /\ doing[a].kind = "update_line" /\ doing[a].pc = "guard"
      /\ IF fits THEN Go(a, "delete") ELSE Done(a)
      /\ UNCHANGED <<line, form, policy, requests, begun, crossed>>
  BY DEF UpdateLineGuard, At, FormStillFits
<1>2. doing[a].kind \in Edits
  BY <1>1 DEF Edits
<1>3. doing[a] \in UpdateLineCall
  BY <1>1, TheTask DEF TemplatesInv, TemplatesType
<1>4. ~crossed => Fits /\ doing[a].form = line.form
  BY <1>1, <1>2, Alone DEF Knows
<1>5. /\ next \in Task /\ next.kind = "update_line" /\ next.pc = "delete" /\ next.n = doing[a].n
  BY <1>3 DEF UpdateLineCall, Task, EditCall
<1>6. CASE fits
  <2>1. doing' = [doing EXCEPT ![a] = next]
    BY <1>1, <1>6 DEF Go
  <2> HIDE DEF next
  <2>2. PICK x : x = next
    OBVIOUS
  <2>3. x # AtRest
    BY <1>5, <2>2 DEF AtRest
  <2>4. ~crossed => Knows(x)
    BY <1>4, <1>5, <1>6, <2>2 DEF Knows, Fits
  <2> QED
    BY <1>1, <1>2, <1>5, <2>1, <2>2, <2>3, <2>4, EditLooks
<1>7. CASE ~fits
  <2>1. doing' = [doing EXCEPT ![a] = AtRest] /\ AtRest \in Task
    BY <1>1, <1>7 DEF Done, Task
  <2> QED
    BY <1>1, <1>2, <1>4, <2>1, EditLooks
<1> QED
  BY <1>6, <1>7

\* set_line_form counts the approvers it needs.
LEMMA SetLineFormCountStep ==
  ASSUME NEW a \in Actors, TemplatesInv, SetLineFormCount(a) PROVE TemplatesInv'
<1> DEFINE enough == line.approvers >= doing[a].need
           next == [doing[a] EXCEPT !.pc = "update"]
<1>1. /\ doing[a].kind = "set_line_form" /\ doing[a].pc = "count"
      /\ IF enough THEN Go(a, "update") ELSE Done(a)
      /\ UNCHANGED <<line, form, policy, requests, begun, crossed>>
  BY DEF SetLineFormCount, At, Count
<1>2. doing[a].kind \in Edits
  BY <1>1 DEF Edits
<1>3. doing[a] \in SetLineFormCall
  BY <1>1, TheTask DEF TemplatesInv, TemplatesType
<1>4. ~crossed => Fits /\ doing[a].need = Need(form.steps)
  BY <1>1, <1>2, Alone DEF Knows
<1>5. next \in Task /\ next.kind = "set_line_form" /\ next.need = doing[a].need
  BY <1>3 DEF SetLineFormCall, Task, EditCall
<1>6. CASE enough
  <2>1. doing' = [doing EXCEPT ![a] = next]
    BY <1>1, <1>6 DEF Go
  <2> HIDE DEF next
  <2>2. PICK x : x = next
    OBVIOUS
  <2>3. x # AtRest
    BY <1>5, <2>2 DEF AtRest
  <2>4. ~crossed => Knows(x)
    BY <1>4, <1>5, <1>6, <2>2 DEF Knows
  <2> QED
    BY <1>1, <1>2, <1>5, <2>1, <2>2, <2>3, <2>4, EditLooks
<1>7. CASE ~enough
  <2>1. doing' = [doing EXCEPT ![a] = AtRest] /\ AtRest \in Task
    BY <1>1, <1>7 DEF Done, Task
  <2> QED
    BY <1>1, <1>2, <1>4, <2>1, EditLooks
<1> QED
  BY <1>6, <1>7

\* A form that a line uses is neither taken down nor deleted.
LEMMA UsedSteps ==
  ASSUME NEW a \in Actors, TemplatesInv, DeactivateUsed(a) \/ DeleteFormUsed(a) PROVE TemplatesInv'
<1> DEFINE to == IF doing[a].kind = "update_form" THEN "guard" ELSE "delete"
           next == [doing[a] EXCEPT !.pc = to]
<1>1. /\ doing[a].kind \in {"update_form", "delete_form"} /\ doing[a].pc = "used"
      /\ IF line.form THEN Done(a) ELSE Go(a, to)
      /\ UNCHANGED <<line, form, policy, requests, begun, crossed>>
  BY DEF DeactivateUsed, DeleteFormUsed, FormUsed, At
<1>2. doing[a].kind \in Edits /\ doing[a].kind # "set_policy"
  BY <1>1 DEF Edits
<1>3. /\ doing[a].kind = "update_form" => doing[a] \in FormCall
      /\ doing[a].kind = "delete_form" => doing[a] \in DeleteFormCall
  BY TheTask DEF TemplatesInv, TemplatesType
<1>4. ~crossed => Knows(doing[a])
  BY <1>2, Alone
<1>5. ~crossed => Fits
  BY <1>1, <1>4 DEF Knows, FormCallKnows
<1>6. /\ next \in Task /\ next.kind = doing[a].kind /\ next.pc = to
      /\ next.kind = "update_form" => next.steps = doing[a].steps /\ next.blocks = doing[a].blocks
  BY <1>1, <1>3 DEF FormCall, FormPc, DeleteFormCall, Task, EditCall
<1>7. CASE ~line.form
  <2>1. doing' = [doing EXCEPT ![a] = next]
    BY <1>1, <1>7 DEF Go
  <2> HIDE DEF next
  <2>2. PICK x : x = next
    OBVIOUS
  <2>3. x # AtRest
    BY <1>1, <1>6, <2>2 DEF AtRest
  <2>4. ~crossed => Knows(x)
    BY <1>1, <1>4, <1>5, <1>6, <2>2 DEF Knows, FormCallKnows
  <2> QED
    BY <1>1, <1>2, <1>6, <2>1, <2>2, <2>3, <2>4, EditLooks
<1>8. CASE line.form
  <2>1. doing' = [doing EXCEPT ![a] = AtRest] /\ AtRest \in Task
    BY <1>1, <1>8 DEF Done, Task
  <2> QED
    BY <1>1, <1>2, <1>5, <2>1, EditLooks
<1> QED
  BY <1>7, <1>8

\* _guard_lines_still_fit: the lines with the form are long enough for its new steps.
LEMMA UpdateFormGuardStep ==
  ASSUME NEW a \in Actors, TemplatesInv, UpdateFormGuard(a) PROVE TemplatesInv'
<1> DEFINE fit == line.form => line.approvers >= Need(doing[a].steps)
           to == IF doing[a].steps = {} THEN "flag" ELSE "steps"
           next == [doing[a] EXCEPT !.pc = to]
<1>1. /\ doing[a].kind = "update_form" /\ doing[a].pc = "guard"
      /\ IF doing[a].steps = {} \/ fit THEN Go(a, to) ELSE Done(a)
      /\ UNCHANGED <<line, form, policy, requests, begun, crossed>>
  BY DEF UpdateFormGuard, At, LinesStillFit
<1>2. doing[a].kind \in Edits
  BY <1>1 DEF Edits
<1>3. doing[a] \in FormCall
  BY <1>1, TheTask DEF TemplatesInv, TemplatesType
<1>4. ~crossed => Fits /\ form.exists /\ (Shape(doing[a].steps, doing[a].blocks) \/ doing[a].steps = {})
  BY <1>1, <1>2, Alone DEF Knows, FormCallKnows
<1>5. /\ next \in Task /\ next.kind = "update_form" /\ next.pc = to
      /\ next.steps = doing[a].steps /\ next.blocks = doing[a].blocks
  BY <1>1, <1>3 DEF FormCall, FormPc, Task, EditCall
<1>6. CASE doing[a].steps = {} \/ fit
  <2>1. doing' = [doing EXCEPT ![a] = next]
    BY <1>1, <1>6 DEF Go
  <2> HIDE DEF next
  <2>2. PICK x : x = next
    OBVIOUS
  <2>3. x # AtRest
    BY <1>5, <2>2 DEF AtRest
  <2>4. ~crossed => FormCallKnows(x)
    BY <1>4, <1>5, <1>6, <2>2 DEF FormCallKnows
  <2>5. ~crossed => Knows(x)
    BY <1>5, <2>2, <2>4 DEF Knows
  <2> QED
    BY <1>1, <1>2, <1>5, <2>1, <2>2, <2>3, <2>5, EditLooks
<1>7. CASE ~(doing[a].steps = {} \/ fit)
  <2>1. doing' = [doing EXCEPT ![a] = AtRest] /\ AtRest \in Task
    BY <1>1, <1>7 DEF Done, Task
  <2> QED
    BY <1>1, <1>2, <1>4, <2>1, EditLooks
<1> QED
  BY <1>6, <1>7

-----------------------------------------------------------------------------
\* The approvers of a line are replaced: none for a while, in the end as many as the
\* guard has seen.
LEMMA UpdateLineDeleteStep ==
  ASSUME NEW a \in Actors, TemplatesInv, UpdateLineDelete(a) PROVE TemplatesInv'
<1> DEFINE next == [doing[a] EXCEPT !.pc = "insert"]
<1>1. /\ doing[a].kind = "update_line" /\ doing[a].pc = "delete"
      /\ line' = [line EXCEPT !.approvers = 0]
      /\ doing' = [doing EXCEPT ![a] = next]
      /\ UNCHANGED <<form, policy, requests, begun, crossed>>
  BY DEF UpdateLineDelete, At, Go
<1>2. doing[a].kind \in Edits
  BY <1>1 DEF Edits
<1>3. doing[a] \in UpdateLineCall
  BY <1>1, TheTask DEF TemplatesInv, TemplatesType
<1>4. ~crossed => /\ Whole
                  /\ line.form => form.exists /\ doing[a].n >= Need(form.steps)
  BY <1>1, <1>2, Alone DEF Knows
<1>5. /\ next \in Task /\ next.kind = "update_line" /\ next.pc = "insert" /\ next.n = doing[a].n
      /\ next.n \in 1 .. MaxStep
  BY <1>1, <1>3 DEF UpdateLineCall, Task, EditCall
<1>6. /\ line' \in [approvers : 0 .. MaxStep, form : BOOLEAN, active : BOOLEAN]
      /\ line'.approvers = 0 /\ line'.form = line.form /\ line'.active = line.active
  BY <1>1, FormTemplatesAssumption DEF TemplatesInv, TemplatesType
<1> HIDE DEF next
<1>7. PICK x : x = next
  OBVIOUS
<1>8. x # AtRest
  BY <1>5, <1>7 DEF AtRest
<1>9. ~crossed => Knows(x)'
  BY <1>1, <1>4, <1>5, <1>6, <1>7 DEF Knows, Whole
<1>10. /\ form' \in [exists : BOOLEAN, active : BOOLEAN, steps : StepSets, blocks : StepSets]
       /\ policy' \in PolicyRow
       /\ policy'.locked => policy'.line
  BY <1>1 DEF TemplatesInv, TemplatesType, LockedNeedsLine
<1> QED
  BY <1>1, <1>2, <1>4, <1>5, <1>6, <1>7, <1>8, <1>9, <1>10, EditGoesOn

LEMMA UpdateLineInsertStep ==
  ASSUME NEW a \in Actors, TemplatesInv, UpdateLineInsert(a) PROVE TemplatesInv'
<1>1. /\ doing[a].kind = "update_line" /\ doing[a].pc = "insert"
      /\ UNCHANGED <<form, policy, requests, begun, crossed>>
  BY DEF UpdateLineInsert, At
<1>2. doing[a].kind \in Edits
  BY <1>1 DEF Edits
<1>3. doing[a] \in UpdateLineCall
  BY <1>1, TheTask DEF TemplatesInv, TemplatesType
<1>4. ~crossed => /\ Whole
                  /\ line.form => form.exists /\ doing[a].n >= Need(form.steps)
                  /\ Busy(Edits) = {a}
  BY <1>1, <1>2, Alone DEF Knows
<1>5. /\ form' \in [exists : BOOLEAN, active : BOOLEAN, steps : StepSets, blocks : StepSets]
      /\ policy' \in PolicyRow
      /\ policy'.locked => policy'.line
  BY <1>1 DEF TemplatesInv, TemplatesType, LockedNeedsLine
<1>6. CASE /\ line.approvers < doing[a].n
           /\ line' = [line EXCEPT !.approvers = @ + 1]
           /\ IF line.approvers + 1 = doing[a].n THEN Done(a) ELSE Go(a, "insert")
  <2>1. /\ line' \in [approvers : 0 .. MaxStep, form : BOOLEAN, active : BOOLEAN]
        /\ line'.approvers = line.approvers + 1 /\ line'.form = line.form
        /\ line'.active = line.active
    BY <1>3, <1>6, FormTemplatesAssumption DEF TemplatesInv, TemplatesType, UpdateLineCall
  <2>2. CASE line.approvers + 1 = doing[a].n
    <3>1. doing' = [doing EXCEPT ![a] = AtRest] /\ AtRest \in Task
      BY <1>6, <2>2 DEF Done, Task
    <3>2. ~crossed => Fits'
      BY <1>1, <1>4, <2>1, <2>2 DEF Fits, Whole
    <3> QED
      BY <1>1, <1>2, <1>4, <1>5, <2>1, <3>1, <3>2, EditGoesOn DEF AtRest
  <2>3. CASE line.approvers + 1 # doing[a].n
    <3> DEFINE next == [doing[a] EXCEPT !.pc = "insert"]
    <3>1. doing' = [doing EXCEPT ![a] = next]
      BY <1>6, <2>3 DEF Go
    <3>2. /\ next \in Task /\ next.kind = "update_line" /\ next.pc = "insert"
          /\ next.n = doing[a].n
      BY <1>1, <1>3 DEF UpdateLineCall, Task, EditCall
    <3>3. line.approvers + 1 < doing[a].n
      BY <1>3, <1>6, <2>3, FormTemplatesAssumption DEF TemplatesInv, TemplatesType, UpdateLineCall
    <3> HIDE DEF next
    <3>4. PICK x : x = next
      OBVIOUS
    <3>5. x # AtRest
      BY <3>2, <3>4 DEF AtRest
    <3>6. ~crossed => Knows(x)'
      BY <1>1, <1>4, <2>1, <3>2, <3>3, <3>4 DEF Knows, Whole
    <3> QED
      BY <1>1, <1>2, <1>4, <1>5, <2>1, <3>1, <3>2, <3>4, <3>5, <3>6, EditGoesOn
  <2> QED
    BY <2>2, <2>3
<1>7. CASE Busy({"update_line"}) # {a} /\ Done(a) /\ UNCHANGED line
  <2>1. crossed
    <3> SUFFICES ASSUME ~crossed PROVE FALSE
      BY DEF TemplatesInv, TemplatesType
    <3>1. Busy({"update_line"}) = {a}
      BY <1>1, <1>4 DEF Busy, Edits
    <3> QED
      BY <1>7, <3>1
  <2>2. doing' = [doing EXCEPT ![a] = AtRest] /\ AtRest \in Task
    BY <1>7 DEF Done, Task
  <2>3. line' \in [approvers : 0 .. MaxStep, form : BOOLEAN, active : BOOLEAN]
    BY <1>7 DEF TemplatesInv, TemplatesType
  <2> QED
    BY <1>1, <1>2, <1>5, <2>1, <2>2, <2>3, EditGoesOn DEF AtRest
<1> QED
  BY <1>6, <1>7 DEF UpdateLineInsert

\* The form is attached to a line that was counted.
LEMMA SetLineFormUpdateStep ==
  ASSUME NEW a \in Actors, TemplatesInv, SetLineFormUpdate(a) PROVE TemplatesInv'
<1>1. /\ doing[a].kind = "set_line_form" /\ doing[a].pc = "update"
      /\ line' = [line EXCEPT !.form = @ \/ form.exists]
      /\ doing' = [doing EXCEPT ![a] = AtRest] /\ AtRest \in Task
      /\ UNCHANGED <<form, policy, requests, begun, crossed>>
  BY DEF SetLineFormUpdate, At, Done, Task
<1>2. doing[a].kind \in Edits
  BY <1>1 DEF Edits
<1>3. ~crossed => /\ Fits
                  /\ line.approvers >= Need(form.steps)
  BY <1>1, <1>2, Alone DEF Knows
<1>4. line.form \in BOOLEAN /\ form.exists \in BOOLEAN
  BY DEF TemplatesInv, TemplatesType
<1>5. PICK attached \in BOOLEAN : attached = (line.form \/ form.exists)
  OBVIOUS
<1>6. line' = [line EXCEPT !.form = attached]
  BY <1>1, <1>5
<1>7. /\ line' \in [approvers : 0 .. MaxStep, form : BOOLEAN, active : BOOLEAN]
      /\ line'.approvers = line.approvers /\ line'.form = attached
      /\ line'.active = line.active
  BY <1>6 DEF TemplatesInv, TemplatesType
<1>8. ~crossed => Fits'
  BY <1>1, <1>3, <1>5, <1>7 DEF Fits, Whole
<1>9. /\ form' \in [exists : BOOLEAN, active : BOOLEAN, steps : StepSets, blocks : StepSets]
      /\ policy' \in PolicyRow
      /\ policy'.locked => policy'.line
  BY <1>1 DEF TemplatesInv, TemplatesType, LockedNeedsLine
<1> QED
  BY <1>1, <1>2, <1>3, <1>7, <1>8, <1>9, EditGoesOn DEF AtRest

-----------------------------------------------------------------------------
\* What an edit of a form is, at whatever query.
LEMMA FormCallMoves ==
  ASSUME NEW a \in Actors, TemplatesInv, doing[a].kind \in FormEdits,
         doing[a].pc \in {"steps", "insert_steps", "blocks", "insert_blocks", "flag"},
         NEW to \in FormPc
  PROVE  /\ doing[a].kind \in {"update_form", "create_form"} /\ doing[a].kind \in Edits
         /\ doing[a] \in FormCall
         /\ \E x \in Task :
              /\ x = [doing[a] EXCEPT !.pc = to]
              /\ x # AtRest /\ x.kind = doing[a].kind /\ x.kind # "set_policy" /\ x.pc = to
              /\ x.steps = doing[a].steps /\ x.blocks = doing[a].blocks
<1>1. doing[a].kind # "delete_form"
  <2>1. doing[a].kind = "delete_form" => doing[a] \in DeleteFormCall
    BY TheTask DEF TemplatesInv, TemplatesType
  <2> QED
    BY <2>1 DEF DeleteFormCall
<1>2. doing[a].kind \in {"update_form", "create_form"}
  BY <1>1 DEF FormEdits
<1>3. doing[a] \in FormCall
  BY <1>2, TheTask DEF TemplatesInv, TemplatesType
<1> DEFINE y == [doing[a] EXCEPT !.pc = to]
<1>4. y \in FormCall /\ y.kind = doing[a].kind /\ y.pc = to
      /\ y.steps = doing[a].steps /\ y.blocks = doing[a].blocks
  BY <1>3 DEF FormCall
<1> HIDE DEF y
<1>5. y \in Task /\ y # AtRest
  BY <1>2, <1>4 DEF Task, EditCall, AtRest
<1>6. y.kind # "set_policy"
  BY <1>2, <1>4
<1>7. \E x \in Task :
        /\ x = y
        /\ x # AtRest /\ x.kind = doing[a].kind /\ x.kind # "set_policy" /\ x.pc = to
        /\ x.steps = doing[a].steps /\ x.blocks = doing[a].blocks
  BY <1>4, <1>5, <1>6
<1> QED
  BY <1>2, <1>3, <1>7 DEF y, Edits

\* A write of the form that keeps what its edit knows.
LEMMA FormWritten ==
  ASSUME NEW a \in Actors, TemplatesInv, doing[a].kind \in FormEdits,
         NEW x \in Task, x = AtRest \/ x.kind = doing[a].kind, x.kind # "set_policy",
         doing' = [doing EXCEPT ![a] = x],
         UNCHANGED <<line, policy, requests, begun, crossed>>,
         form' \in [exists : BOOLEAN, active : BOOLEAN, steps : StepSets, blocks : StepSets],
         ~crossed => IF x = AtRest THEN Fits' ELSE Knows(x)'
  PROVE  TemplatesInv'
<1>1. /\ line' \in [approvers : 0 .. MaxStep, form : BOOLEAN, active : BOOLEAN]
      /\ policy' \in PolicyRow
      /\ policy'.locked => policy'.line
  BY DEF TemplatesInv, TemplatesType, LockedNeedsLine
<1>2. doing[a].kind \in Edits
  BY DEF FormEdits, Edits
<1> QED
  BY <1>1, <1>2, EditGoesOn

\* _write_steps and _write_blocks delete the rows there are.
LEMMA WriteDeleteStep ==
  ASSUME NEW a \in Actors, TemplatesInv,
         \/ WriteDelete(a, "steps", "insert_steps")
         \/ WriteDelete(a, "blocks", "insert_blocks")
  PROVE  TemplatesInv'
<1>1. form \in [exists : BOOLEAN, active : BOOLEAN, steps : StepSets, blocks : StepSets]
      /\ {} \in StepSets
  BY DEF TemplatesInv, TemplatesType, StepSets
<1>2. CASE WriteDelete(a, "steps", "insert_steps")
  <2>1. /\ doing[a].kind \in FormEdits /\ doing[a].pc = "steps"
        /\ form' = [form EXCEPT !.steps = {}]
        /\ doing' = [doing EXCEPT ![a] = [doing[a] EXCEPT !.pc = "insert_steps"]]
        /\ UNCHANGED <<line, policy, requests, begun, crossed>>
    BY <1>2 DEF WriteDelete, Writing, Go
  <2>2. /\ doing[a].kind \in {"update_form", "create_form"} /\ doing[a].kind \in Edits
        /\ \E x \in Task :
              /\ x = [doing[a] EXCEPT !.pc = "insert_steps"]
              /\ x # AtRest /\ x.kind = doing[a].kind /\ x.kind # "set_policy"
              /\ x.pc = "insert_steps"
              /\ x.steps = doing[a].steps /\ x.blocks = doing[a].blocks
    BY <2>1, FormCallMoves DEF FormPc
  <2>3. PICK x \in Task :
          /\ x = [doing[a] EXCEPT !.pc = "insert_steps"]
          /\ x # AtRest /\ x.kind = doing[a].kind /\ x.kind # "set_policy"
          /\ x.pc = "insert_steps"
          /\ x.steps = doing[a].steps /\ x.blocks = doing[a].blocks
    BY <2>2
  <2>4. /\ form' \in [exists : BOOLEAN, active : BOOLEAN, steps : StepSets, blocks : StepSets]
        /\ form'.exists = form.exists /\ form'.steps = {}
    BY <1>1, <2>1
  <2>5. ~crossed => FormCallKnows(doing[a])
    BY <2>2, Alone DEF Knows
  <2>6. ~crossed => FormCallKnows(x)'
    BY <2>1, <2>3, <2>4, <2>5 DEF FormCallKnows, Shape
  <2>7. ~crossed => Knows(x)'
    BY <2>2, <2>3, <2>6 DEF Knows
  <2>8. doing' = [doing EXCEPT ![a] = x]
    BY <2>1, <2>3
  <2> QED
    BY <2>1, <2>3, <2>4, <2>7, <2>8, FormWritten
<1>3. CASE WriteDelete(a, "blocks", "insert_blocks")
  <2>1. /\ doing[a].kind \in FormEdits /\ doing[a].pc = "blocks"
        /\ form' = [form EXCEPT !.blocks = {}]
        /\ doing' = [doing EXCEPT ![a] = [doing[a] EXCEPT !.pc = "insert_blocks"]]
        /\ UNCHANGED <<line, policy, requests, begun, crossed>>
    BY <1>3 DEF WriteDelete, Writing, Go
  <2>2. /\ doing[a].kind \in {"update_form", "create_form"} /\ doing[a].kind \in Edits
        /\ \E x \in Task :
              /\ x = [doing[a] EXCEPT !.pc = "insert_blocks"]
              /\ x # AtRest /\ x.kind = doing[a].kind /\ x.kind # "set_policy"
              /\ x.pc = "insert_blocks"
              /\ x.steps = doing[a].steps /\ x.blocks = doing[a].blocks
    BY <2>1, FormCallMoves DEF FormPc
  <2>3. PICK x \in Task :
          /\ x = [doing[a] EXCEPT !.pc = "insert_blocks"]
          /\ x # AtRest /\ x.kind = doing[a].kind /\ x.kind # "set_policy"
          /\ x.pc = "insert_blocks"
          /\ x.steps = doing[a].steps /\ x.blocks = doing[a].blocks
    BY <2>2
  <2>4. /\ form' \in [exists : BOOLEAN, active : BOOLEAN, steps : StepSets, blocks : StepSets]
        /\ form'.exists = form.exists /\ form'.steps = form.steps /\ form'.blocks = {}
    BY <1>1, <2>1
  <2>5. ~crossed => FormCallKnows(doing[a])
    BY <2>2, Alone DEF Knows
  <2>6. ~crossed => FormCallKnows(x)'
    BY <2>1, <2>3, <2>4, <2>5 DEF FormCallKnows, Shape
  <2>7. ~crossed => Knows(x)'
    BY <2>2, <2>3, <2>6 DEF Knows
  <2>8. doing' = [doing EXCEPT ![a] = x]
    BY <2>1, <2>3
  <2> QED
    BY <2>1, <2>3, <2>4, <2>7, <2>8, FormWritten
<1> QED
  BY <1>2, <1>3

\* Then they insert the steps one by one, the first that is missing first ...
LEMMA InsertStepsStep ==
  ASSUME NEW a \in Actors, TemplatesInv, WriteInsert(a, "insert_steps", "steps", "blocks")
  PROVE  TemplatesInv'
<1> DEFINE rest == doing[a].steps \ form.steps
<1>1. /\ doing[a].kind \in FormEdits /\ doing[a].pc = "insert_steps"
      /\ IF ~form.exists
         THEN Done(a) /\ UNCHANGED form
         ELSE IF rest = {}
         THEN Go(a, "blocks") /\ UNCHANGED form
         ELSE /\ form' = [form EXCEPT !.steps = @ \cup {Min(rest)}]
              /\ UNCHANGED doing
      /\ UNCHANGED <<line, policy, requests, begun, crossed>>
  BY DEF WriteInsert, Writing, Missing
<1>2. /\ doing[a].kind \in {"update_form", "create_form"} /\ doing[a].kind \in Edits
      /\ doing[a] \in FormCall
      /\ \E x \in Task :
            /\ x = [doing[a] EXCEPT !.pc = "blocks"]
            /\ x # AtRest /\ x.kind = doing[a].kind /\ x.kind # "set_policy"
            /\ x.pc = "blocks"
            /\ x.steps = doing[a].steps /\ x.blocks = doing[a].blocks
  BY <1>1, FormCallMoves DEF FormPc
<1>3. ~crossed => FormCallKnows(doing[a])
  BY <1>2, Alone DEF Knows
<1>4. form \in [exists : BOOLEAN, active : BOOLEAN, steps : StepSets, blocks : StepSets]
  BY DEF TemplatesInv, TemplatesType
<1>5. CASE ~form.exists
  <2>1. doing' = [doing EXCEPT ![a] = AtRest] /\ AtRest \in Task /\ form' = form
    BY <1>1, <1>5 DEF Done, Task
  <2>2. crossed
    BY <1>1, <1>3, <1>5 DEF FormCallKnows, TemplatesInv, TemplatesType
  <2> QED
    BY <1>1, <1>4, <2>1, <2>2, FormWritten DEF AtRest
<1>6. CASE form.exists /\ rest = {}
  <2>1. doing[a].steps \subseteq form.steps
    BY <1>6
  <2>2. doing' = [doing EXCEPT ![a] = [doing[a] EXCEPT !.pc = "blocks"]] /\ form' = form
    BY <1>1, <1>6 DEF Go
  <2>3. PICK x \in Task :
          /\ x = [doing[a] EXCEPT !.pc = "blocks"]
          /\ x # AtRest /\ x.kind = doing[a].kind /\ x.kind # "set_policy"
          /\ x.pc = "blocks"
          /\ x.steps = doing[a].steps /\ x.blocks = doing[a].blocks
          /\ form' = form
    BY <1>2, <2>2
  <2>4. doing' = [doing EXCEPT ![a] = x]
    BY <2>2, <2>3
  <2>5. ~crossed => FormCallKnows(x)'
    <3>1. ~crossed => form.steps = doing[a].steps
      BY <1>1, <1>3, <2>1 DEF FormCallKnows
    <3> QED
      BY <1>1, <1>3, <2>3, <3>1 DEF FormCallKnows, Shape
  <2>6. ~crossed => Knows(x)'
    BY <1>2, <2>3, <2>5 DEF Knows
  <2> QED
    BY <1>1, <1>4, <2>3, <2>4, <2>6, FormWritten
<1>7. CASE form.exists /\ rest # {}
  <2> DEFINE new == Min(rest)
  <2>1. rest \subseteq 0 .. MaxStep
    BY <1>2 DEF FormCall, StepSets
  <2>2. new \in rest
    BY <1>7, <2>1, MinIsIn
  <2>3. new \in 0 .. MaxStep /\ new \in doing[a].steps
    BY <2>1, <2>2
  <2> HIDE DEF new
  <2>4. form' = [form EXCEPT !.steps = form.steps \cup {new}] /\ UNCHANGED doing
    BY <1>1, <1>7 DEF new
  <2>5. form.steps \cup {new} \in StepSets
    BY <1>4, <2>3 DEF StepSets
  <2>6. /\ form' \in [exists : BOOLEAN, active : BOOLEAN, steps : StepSets, blocks : StepSets]
        /\ form'.exists = form.exists /\ form'.steps = form.steps \cup {new}
    BY <1>4, <2>4, <2>5
  <2>7. PICK x : x = doing[a]
    OBVIOUS
  <2>8. doing[a] \in Task /\ doing \in [Actors -> Task]
    BY DEF TemplatesInv, TemplatesType
  <2>9. doing' = [doing EXCEPT ![a] = x]
    BY <2>4, <2>7, <2>8
  <2>10. ~crossed => FormCallKnows(x)'
    BY <1>1, <1>3, <2>3, <2>6, <2>7 DEF FormCallKnows, Shape
  <2>11. ~crossed => Knows(x)'
    BY <1>2, <2>7, <2>10 DEF Knows
  <2>12. x # AtRest /\ x.kind # "set_policy"
    BY <1>2, <2>7 DEF AtRest
  <2> QED
    BY <1>1, <2>6, <2>7, <2>8, <2>9, <2>11, <2>12, FormWritten
<1> QED
  BY <1>5, <1>6, <1>7

\* ... and the blocks, which are on the steps that were inserted.
LEMMA InsertBlocksStep ==
  ASSUME NEW a \in Actors, TemplatesInv, WriteInsert(a, "insert_blocks", "blocks", "flag")
  PROVE  TemplatesInv'
<1> DEFINE rest == doing[a].blocks \ form.blocks
<1>1. /\ doing[a].kind \in FormEdits /\ doing[a].pc = "insert_blocks"
      /\ IF ~form.exists
         THEN Done(a) /\ UNCHANGED form
         ELSE IF rest = {}
         THEN Go(a, "flag") /\ UNCHANGED form
         ELSE /\ form' = [form EXCEPT !.blocks = @ \cup {Min(rest)}]
              /\ UNCHANGED doing
      /\ UNCHANGED <<line, policy, requests, begun, crossed>>
  BY DEF WriteInsert, Writing, Missing
<1>2. /\ doing[a].kind \in {"update_form", "create_form"} /\ doing[a].kind \in Edits
      /\ doing[a] \in FormCall
      /\ \E x \in Task :
            /\ x = [doing[a] EXCEPT !.pc = "flag"]
            /\ x # AtRest /\ x.kind = doing[a].kind /\ x.kind # "set_policy"
            /\ x.pc = "flag"
            /\ x.steps = doing[a].steps /\ x.blocks = doing[a].blocks
  BY <1>1, FormCallMoves DEF FormPc
<1>3. ~crossed => FormCallKnows(doing[a])
  BY <1>2, Alone DEF Knows
<1>4. form \in [exists : BOOLEAN, active : BOOLEAN, steps : StepSets, blocks : StepSets]
  BY DEF TemplatesInv, TemplatesType
<1>5. CASE ~form.exists
  <2>1. doing' = [doing EXCEPT ![a] = AtRest] /\ AtRest \in Task /\ form' = form
    BY <1>1, <1>5 DEF Done, Task
  <2>2. crossed
    BY <1>1, <1>3, <1>5 DEF FormCallKnows, TemplatesInv, TemplatesType
  <2> QED
    BY <1>1, <1>4, <2>1, <2>2, FormWritten DEF AtRest
<1>6. CASE form.exists /\ rest = {}
  <2>1. doing[a].blocks \subseteq form.blocks
    BY <1>6
  <2>2. doing' = [doing EXCEPT ![a] = [doing[a] EXCEPT !.pc = "flag"]] /\ form' = form
    BY <1>1, <1>6 DEF Go
  <2>3. PICK x \in Task :
          /\ x = [doing[a] EXCEPT !.pc = "flag"]
          /\ x # AtRest /\ x.kind = doing[a].kind /\ x.kind # "set_policy"
          /\ x.pc = "flag"
          /\ x.steps = doing[a].steps /\ x.blocks = doing[a].blocks
          /\ form' = form
    BY <1>2, <2>2
  <2>4. doing' = [doing EXCEPT ![a] = x]
    BY <2>2, <2>3
  <2>5. ~crossed => FormCallKnows(x)'
    <3>1. ~crossed => form.blocks = doing[a].blocks /\ form.steps = doing[a].steps
      BY <1>1, <1>3, <2>1 DEF FormCallKnows
    <3>2. ~crossed => /\ form.exists /\ Shape(doing[a].steps, doing[a].blocks)
                      /\ line.form => line.approvers >= Need(doing[a].steps)
      BY <1>1, <1>3 DEF FormCallKnows
    <3>3. ~crossed => Fits
      BY <3>1, <3>2 DEF Fits, Whole, Shape
    <3>4. ~crossed => Fits'
      BY <1>1, <2>3, <3>3 DEF Fits, Whole
    <3> QED
      BY <2>3, <3>4 DEF FormCallKnows
  <2>6. ~crossed => Knows(x)'
    BY <1>2, <2>3, <2>5 DEF Knows
  <2> QED
    BY <1>1, <1>4, <2>3, <2>4, <2>6, FormWritten
<1>7. CASE form.exists /\ rest # {}
  <2> DEFINE new == Min(rest)
  <2>1. rest \subseteq 0 .. MaxStep
    BY <1>2 DEF FormCall, StepSets
  <2>2. new \in rest
    BY <1>7, <2>1, MinIsIn
  <2>3. new \in 0 .. MaxStep /\ new \in doing[a].blocks
    BY <2>1, <2>2
  <2> HIDE DEF new
  <2>4. form' = [form EXCEPT !.blocks = form.blocks \cup {new}] /\ UNCHANGED doing
    BY <1>1, <1>7 DEF new
  <2>5. form.blocks \cup {new} \in StepSets
    BY <1>4, <2>3 DEF StepSets
  <2>6. /\ form' \in [exists : BOOLEAN, active : BOOLEAN, steps : StepSets, blocks : StepSets]
        /\ form'.exists = form.exists /\ form'.blocks = form.blocks \cup {new} /\ form'.steps = form.steps
    BY <1>4, <2>4, <2>5
  <2>7. PICK x : x = doing[a]
    OBVIOUS
  <2>8. doing[a] \in Task /\ doing \in [Actors -> Task]
    BY DEF TemplatesInv, TemplatesType
  <2>9. doing' = [doing EXCEPT ![a] = x]
    BY <2>4, <2>7, <2>8
  <2>10. ~crossed => FormCallKnows(x)'
    BY <1>1, <1>3, <2>3, <2>6, <2>7 DEF FormCallKnows, Shape
  <2>11. ~crossed => Knows(x)'
    BY <1>2, <2>7, <2>10 DEF Knows
  <2>12. x # AtRest /\ x.kind # "set_policy"
    BY <1>2, <2>7 DEF AtRest
  <2> QED
    BY <1>1, <2>6, <2>7, <2>8, <2>9, <2>11, <2>12, FormWritten
<1> QED
  BY <1>5, <1>6, <1>7

\* The columns of the form, when its rows are written.
LEMMA WriteFlagStep == ASSUME NEW a \in Actors, TemplatesInv, WriteFlag(a) PROVE TemplatesInv'
<1>1. /\ doing[a].kind \in FormEdits /\ doing[a].pc = "flag"
      /\ form' = [form EXCEPT !.active = IF form.exists THEN doing[a].active ELSE @]
      /\ doing' = [doing EXCEPT ![a] = AtRest] /\ AtRest \in Task
      /\ UNCHANGED <<line, policy, requests, begun, crossed>>
  BY DEF WriteFlag, Writing, Done, Task
<1>2. /\ doing[a].kind \in {"update_form", "create_form"} /\ doing[a].kind \in Edits
      /\ doing[a] \in FormCall
  BY <1>1, FormCallMoves DEF FormPc
<1>3. form \in [exists : BOOLEAN, active : BOOLEAN, steps : StepSets, blocks : StepSets]
  BY DEF TemplatesInv, TemplatesType
<1>4. /\ form' \in [exists : BOOLEAN, active : BOOLEAN, steps : StepSets, blocks : StepSets]
      /\ form'.exists = form.exists /\ form'.steps = form.steps /\ form'.blocks = form.blocks
  <2>1. CASE form.exists
    <3>1. form' = [form EXCEPT !.active = doing[a].active] /\ doing[a].active \in BOOLEAN
      BY <1>1, <1>2, <2>1 DEF FormCall
    <3> QED
      BY <1>3, <3>1
  <2>2. CASE ~form.exists
    <3>1. form' = [form EXCEPT !.active = form.active]
      BY <1>1, <2>2
    <3> QED
      BY <1>3, <3>1
  <2> QED
    BY <2>1, <2>2
<1>5. ~crossed => Fits
  BY <1>1, <1>2, Alone DEF Knows, FormCallKnows
<1>6. ~crossed => Fits'
  BY <1>1, <1>4, <1>5 DEF Fits, Whole
<1> QED
  BY <1>1, <1>4, <1>6, FormWritten DEF AtRest

\* The database detaches a form that goes from every line.
LEMMA DeleteFormRowStep ==
  ASSUME NEW a \in Actors, TemplatesInv, DeleteFormRow(a) PROVE TemplatesInv'
<1>1. /\ doing[a].kind = "delete_form"
      /\ form' = NoForm
      /\ line' = [line EXCEPT !.form = FALSE]
      /\ doing' = [doing EXCEPT ![a] = AtRest] /\ AtRest \in Task
      /\ UNCHANGED <<policy, requests, begun, crossed>>
  BY DEF DeleteFormRow, At, Done, Task
<1>2. doing[a].kind \in Edits /\ doing[a].kind \in FormEdits
  BY <1>1 DEF Edits, FormEdits
<1>3. form' \in [exists : BOOLEAN, active : BOOLEAN, steps : StepSets, blocks : StepSets]
      /\ form'.steps = {} /\ form'.blocks = {}
  BY <1>1 DEF NoForm, StepSets
<1>4. /\ line' \in [approvers : 0 .. MaxStep, form : BOOLEAN, active : BOOLEAN]
      /\ ~line'.form /\ line'.active = line.active
  BY <1>1 DEF TemplatesInv, TemplatesType
<1>5. /\ policy' \in PolicyRow
      /\ policy'.locked => policy'.line
  BY <1>1 DEF TemplatesInv, TemplatesType, LockedNeedsLine
<1>6. Fits'
  BY <1>3, <1>4 DEF Fits, Whole
<1> QED
  BY <1>1, <1>2, <1>3, <1>4, <1>5, <1>6, EditGoesOn DEF AtRest

\* delete_line clears the policies that name the line, lock and all, and then hides it.
LEMMA DeleteLineClearStep ==
  ASSUME NEW a \in Actors, TemplatesInv, DeleteLineClear(a) PROVE TemplatesInv'
<1> DEFINE next == [doing[a] EXCEPT !.pc = "hide"]
<1>1. /\ doing[a].kind = "delete_line" /\ doing[a].pc = "clear"
      /\ IF doing[a].force
         THEN policy' = Cleared /\ Go(a, "hide")
         ELSE UNCHANGED policy /\ Done(a)
      /\ UNCHANGED <<line, form, requests, begun, crossed>>
  BY DEF DeleteLineClear, At
<1>2. doing[a].kind \in Edits
  BY <1>1 DEF Edits
<1>3. doing[a] \in DeleteLineCall
  BY <1>1, TheTask DEF TemplatesInv, TemplatesType
<1>4. ~crossed => Fits
  BY <1>1, <1>2, Alone DEF Knows
<1>5. ~crossed => Fits'
  BY <1>1, <1>4 DEF Fits, Whole
<1>6. /\ line' \in [approvers : 0 .. MaxStep, form : BOOLEAN, active : BOOLEAN]
      /\ form' \in [exists : BOOLEAN, active : BOOLEAN, steps : StepSets, blocks : StepSets]
  BY <1>1 DEF TemplatesInv, TemplatesType
<1>7. CASE doing[a].force
  <2>1. doing' = [doing EXCEPT ![a] = next]
    BY <1>1, <1>7 DEF Go
  <2>2. next \in Task /\ next.kind = "delete_line" /\ next.pc = "hide"
    BY <1>1, <1>3 DEF DeleteLineCall, Task, EditCall
  <2>3. policy' \in PolicyRow /\ ~policy'.line /\ ~policy'.locked
    <3>1. policy' = [line |-> FALSE, locked |-> FALSE]
      BY <1>1, <1>7 DEF Cleared
    <3>2. policy' \in PolicyRow /\ policy'.line = FALSE /\ policy'.locked = FALSE
      BY <3>1 DEF PolicyRow
    <3> QED
      BY <3>2
  <2> HIDE DEF next
  <2>4. PICK x : x = next
    OBVIOUS
  <2>5. x # AtRest
    BY <2>2, <2>4 DEF AtRest
  <2>6. ~crossed => Knows(x)'
    BY <1>5, <2>2, <2>3, <2>4 DEF Knows
  <2> QED
    BY <1>1, <1>2, <1>6, <2>1, <2>2, <2>3, <2>4, <2>5, <2>6, EditGoesOn
<1>8. CASE ~doing[a].force
  <2>1. doing' = [doing EXCEPT ![a] = AtRest] /\ AtRest \in Task /\ policy' = policy
    BY <1>1, <1>8 DEF Done, Task
  <2> QED
    BY <1>1, <1>2, <1>4, <2>1, EditLooks
<1> QED
  BY <1>7, <1>8

LEMMA DeleteLineHideStep ==
  ASSUME NEW a \in Actors, TemplatesInv, DeleteLineHide(a) PROVE TemplatesInv'
<1>1. /\ doing[a].kind = "delete_line" /\ doing[a].pc = "hide"
      /\ line' = [line EXCEPT !.active = FALSE]
      /\ doing' = [doing EXCEPT ![a] = AtRest] /\ AtRest \in Task
      /\ UNCHANGED <<form, policy, requests, begun, crossed>>
  BY DEF DeleteLineHide, At, Done, Task
<1>2. doing[a].kind \in Edits
  BY <1>1 DEF Edits
<1>3. ~crossed => Fits
  BY <1>1, <1>2, Alone DEF Knows
<1>4. /\ line' \in [approvers : 0 .. MaxStep, form : BOOLEAN, active : BOOLEAN]
      /\ line'.form = line.form /\ line'.approvers = line.approvers
  BY <1>1 DEF TemplatesInv, TemplatesType
<1>5. ~crossed => Fits'
  BY <1>1, <1>3, <1>4 DEF Fits, Whole
<1>6. /\ form' \in [exists : BOOLEAN, active : BOOLEAN, steps : StepSets, blocks : StepSets]
      /\ policy' \in PolicyRow
      /\ policy'.locked => policy'.line
  BY <1>1 DEF TemplatesInv, TemplatesType, LockedNeedsLine
<1> QED
  BY <1>1, <1>2, <1>3, <1>4, <1>5, <1>6, EditGoesOn DEF AtRest

\* set_policy writes the row it has made.
LEMMA SetPolicyUpsertStep ==
  ASSUME NEW a \in Actors, TemplatesInv, SetPolicyUpsert(a) PROVE TemplatesInv'
<1>1. /\ doing[a].kind = "set_policy"
      /\ policy' = doing[a].new
      /\ doing' = [doing EXCEPT ![a] = AtRest] /\ AtRest \in Task
      /\ UNCHANGED <<line, form, requests, begun, crossed>>
  BY DEF SetPolicyUpsert, At, Done, Task
<1>2. doing[a].kind \in Edits
  BY <1>1 DEF Edits
<1>3. doing[a] \in SetPolicyCall
  BY <1>1, TheTask DEF TemplatesInv, TemplatesType
<1>4. policy' \in PolicyRow /\ (policy'.locked => policy'.line)
  BY <1>1, <1>3 DEF SetPolicyCall, TemplatesInv, LockedNeedsLine
<1>5. ~crossed => Fits
  BY <1>1, <1>2, Alone DEF Knows
<1>6. ~crossed => Fits'
  BY <1>1, <1>5 DEF Fits, Whole
<1>7. /\ line' \in [approvers : 0 .. MaxStep, form : BOOLEAN, active : BOOLEAN]
      /\ form' \in [exists : BOOLEAN, active : BOOLEAN, steps : StepSets, blocks : StepSets]
  BY <1>1 DEF TemplatesInv, TemplatesType
<1> QED
  BY <1>1, <1>2, <1>4, <1>5, <1>6, <1>7, EditGoesOn DEF AtRest

-----------------------------------------------------------------------------
\* Every query of every edit and submission, and every death, preserves the invariant.
LEMMA TemplatesPreserved ==
  TemplatesInv /\ [TemplatesNext]_templatesVars => TemplatesInv'
<1> SUFFICES ASSUME TemplatesInv, [TemplatesNext]_templatesVars PROVE TemplatesInv'
  OBVIOUS
<1>1. ASSUME NEW a \in Actors, Edit(a) PROVE TemplatesInv'
  <2>1. CASE \/ \E n \in 1 .. MaxStep : UpdateLine(a, n)
             \/ SetLineForm(a) \/ DeleteForm(a)
             \/ \E force \in BOOLEAN : DeleteLine(a, force)
    BY <2>1, EditsBegin
  <2>2. CASE DetachForm(a)
    BY <2>2, DetachFormStep
  <2>3. ASSUME NEW ss \in StepSets, NEW bb \in StepSets,
               CreateForm(a, ss, bb) \/ \E act \in BOOLEAN : UpdateForm(a, ss, bb, act)
        PROVE  TemplatesInv'
    BY <2>3, FormEditsBegin
  <2>4. ASSUME NEW l \in Keep, NEW k \in Keep, SetPolicy(a, l, k) PROVE TemplatesInv'
    BY <2>4, SetPolicyStep
  <2> QED
    BY <1>1, <2>1, <2>2, <2>3, <2>4 DEF Edit, StepSets
<1>2. ASSUME NEW a \in Actors, Continue(a) PROVE TemplatesInv'
  <2>1. CASE UpdateLineGuard(a) \/ UpdateLineDelete(a) \/ UpdateLineInsert(a)
    BY <2>1, UpdateLineGuardStep, UpdateLineDeleteStep, UpdateLineInsertStep
  <2>2. CASE SetLineFormCount(a) \/ SetLineFormUpdate(a)
    BY <2>2, SetLineFormCountStep, SetLineFormUpdateStep
  <2>3. CASE DeactivateUsed(a) \/ DeleteFormUsed(a) \/ UpdateFormGuard(a)
    BY <2>3, UsedSteps, UpdateFormGuardStep
  <2>4. CASE WriteForm(a)
    BY <2>4, WriteDeleteStep, InsertStepsStep, InsertBlocksStep DEF WriteForm
  <2>5. CASE WriteFlag(a) \/ DeleteFormRow(a)
    BY <2>5, WriteFlagStep, DeleteFormRowStep
  <2>6. CASE DeleteLineClear(a) \/ DeleteLineHide(a) \/ SetPolicyUpsert(a)
    BY <2>6, DeleteLineClearStep, DeleteLineHideStep, SetPolicyUpsertStep
  <2>7. CASE SubmitCover(a) \/ SubmitCopy(a)
    BY <2>7, SubmitCoverStep, SubmitCopyStep
  <2> QED
    BY <1>2, <2>1, <2>2, <2>3, <2>4, <2>5, <2>6, <2>7 DEF Continue
<1>3. ASSUME NEW a \in Actors, DieHalfWay(a) PROVE TemplatesInv'
  BY <1>3, DieHalfWayStep
<1>4. ASSUME NEW a \in Actors, NEW n \in 1 .. MaxStep, Submit(a, n) PROVE TemplatesInv'
  BY <1>4, SubmitStep
<1>5. CASE UNCHANGED templatesVars
  <2>1. UNCHANGED <<line, form, policy, doing, requests, begun, crossed>>
    BY <1>5 DEF templatesVars
  <2>2. TemplatesType'
    BY <2>1 DEF TemplatesInv, TemplatesType
  <2>3. EditsApart' /\ LockedNeedsLine'
    BY <2>1, <2>2, EditsUntouched DEF TemplatesType
  <2>4. CalmStays' /\ RequestIsCovered'
    BY <2>1 DEF TemplatesInv, CalmStays, RequestIsCovered, Whole, Busy
  <2> QED
    BY <2>2, <2>3, <2>4 DEF TemplatesInv
<1> QED
  BY <1>1, <1>2, <1>3, <1>4, <1>5 DEF TemplatesNext

-----------------------------------------------------------------------------
\* The policy row, the calls that write it and the one that hides the line.

\* A call that goes on stays what it is, and touches no other.
LEMMA KindStays ==
  ASSUME NEW a \in Actors, TemplatesType, Done(a) \/ (\E to : Go(a, to)) \/ UNCHANGED doing
  PROVE  /\ \A b \in Actors \ {a} : doing'[b] = doing[b]
         /\ doing'[a].kind \in {"none", doing[a].kind}
<1>1. doing \in [Actors -> Task]
  BY DEF TemplatesType
<1>2. CASE Done(a)
  BY <1>1, <1>2 DEF Done, AtRest
<1>3. ASSUME NEW to, Go(a, to)
      PROVE  /\ \A b \in Actors \ {a} : doing'[b] = doing[b]
             /\ doing'[a].kind = doing[a].kind
  <2>1. ASSUME NEW t \in Task PROVE [t EXCEPT !.pc = to].kind = t.kind
    BY DEF Task, AtRest, EditCall, UpdateLineCall, SetLineFormCall, FormCall,
       DeleteFormCall, DeleteLineCall, SetPolicyCall, SubmitCall
  <2> QED
    BY <1>1, <1>3, <2>1 DEF Go
<1> QED
  BY <1>2, <1>3

\* What leaves the row, the line and the calls that write them alone.
LEMMA PolicyUntouched ==
  ASSUME PolicyKept, line'.active = line.active, policy' = policy, ~revived' => ~revived,
         \A b \in Actors : doing'[b].kind \in {"delete_line", "set_policy"}
                             => doing'[b] = doing[b]
  PROVE  PolicyKept'
<1>1. /\ Busy({"delete_line"})' \subseteq Busy({"delete_line"})
      /\ Busy({"set_policy"})' \subseteq Busy({"set_policy"})
  BY DEF Busy
<1> QED
  BY <1>1 DEF PolicyKept, Busy

\* Any other call: its first query, the ones after it, and its death.
LEMMA OthersBegin ==
  ASSUME NEW a \in Actors, TemplatesInv, PolicyKept,
         NEW x, x.kind \notin {"delete_line", "set_policy"}, Begin(a, x),
         UNCHANGED <<line, policy>>
  PROVE  PolicyKept'
<1>1. doing' = [b \in Actors |-> IF b = a THEN x ELSE Disturbed(b, x)]
  BY DEF Begin
<1>2. \A b \in Actors : doing'[b].kind \in {"delete_line", "set_policy"}
                             => doing'[b] = doing[b]
  BY <1>1, DisturbedStays DEF TemplatesInv
<1>3. ~revived' => ~revived
  BY DEF Begin
<1> QED
  BY <1>2, <1>3, PolicyUntouched

LEMMA OthersGoOn ==
  ASSUME NEW a \in Actors, TemplatesInv, PolicyKept,
         \/ doing[a].kind \notin {"delete_line", "set_policy"} /\ \E to : Go(a, to)
         \/ Done(a) \/ UNCHANGED doing,
         line'.active = line.active, UNCHANGED <<policy, revived>>
  PROVE  PolicyKept'
<1>1. \A b \in Actors : doing'[b].kind \in {"delete_line", "set_policy"}
                             => doing'[b] = doing[b]
  <2>1. CASE UNCHANGED doing
    BY <2>1
  <2>2. CASE Done(a)
    BY <2>2, KindStays DEF TemplatesInv, TemplatesType, Done, AtRest
  <2>3. CASE doing[a].kind \notin {"delete_line", "set_policy"} /\ \E to : Go(a, to)
    BY <2>3, KindStays DEF TemplatesInv
  <2> QED
    BY <2>1, <2>2, <2>3
<1> QED
  BY <1>1, PolicyUntouched

\* delete_line begins at its last query only if no policy names the line.
LEMMA DeleteLineBegins ==
  ASSUME NEW a \in Actors, NEW force \in BOOLEAN, TemplatesInv, PolicyKept, DeleteLine(a, force)
  PROVE  PolicyKept'
<1> DEFINE c == [kind |-> "delete_line", force |-> force,
                 pc |-> IF policy.line THEN "clear" ELSE "hide"]
<1>1. Begin(a, c) /\ UNCHANGED <<line, policy>>
  BY DEF DeleteLine
<1>2. PICK x : x = c
  OBVIOUS
<1>3. x.kind = "delete_line" /\ (x.pc = "hide" => ~policy.line) /\ Begin(a, x)
  BY <1>1, <1>2
<1> HIDE DEF c
<1> SUFFICES ASSUME ~revived'
             PROVE  /\ policy.line => line.active
                    /\ \A b \in Busy({"delete_line"})' : doing'[b].pc = "hide" => ~policy.line
                    /\ Busy({"set_policy"})' = {}
  BY <1>1 DEF PolicyKept
<1>4. ~revived /\ Busy({"set_policy"}) = {}
  BY <1>3 DEF Begin, Revives
<1>5. \A b \in Actors : doing'[b] = IF b = a THEN x ELSE Disturbed(b, x)
  BY <1>3 DEF Begin
<1>6. \A b \in Actors \ {a} : /\ doing'[b].kind = doing[b].kind
                              /\ doing[b].kind # "submit" => doing'[b] = doing[b]
  BY <1>5, DisturbedStays DEF TemplatesInv
<1> QED
  BY <1>3, <1>4, <1>5, <1>6 DEF PolicyKept, Busy

\* set_policy keeps the line it read or names the one it was given: unless that one is
\* hidden, both can still be chosen.
LEMMA SetPolicyBegins ==
  ASSUME NEW a \in Actors, NEW l \in Keep, NEW k \in Keep, TemplatesInv, PolicyKept,
         SetPolicy(a, l, k)
  PROVE  PolicyKept'
<1> DEFINE c == [kind |-> "set_policy", pc |-> "upsert",
                 new |-> NewPolicy(Value(l, policy.line), k)]
<1>1. Begin(a, c) /\ UNCHANGED <<line, policy>>
  BY DEF SetPolicy
<1>2. PICK x : x = c
  OBVIOUS
<1>3. x.kind = "set_policy" /\ Begin(a, x)
  BY <1>1, <1>2
<1> HIDE DEF c
<1> SUFFICES ASSUME ~revived'
             PROVE  /\ policy.line => line.active
                    /\ \A b \in Busy({"set_policy"})' : doing'[b].new.line => line.active
                    /\ Busy({"delete_line"})' = {}
  BY <1>1 DEF PolicyKept
<1>4. ~revived /\ Busy({"delete_line"}) = {} /\ (x.new.line => line.active)
  BY <1>3 DEF Begin, Revives
<1>5. \A b \in Actors : doing'[b] = IF b = a THEN x ELSE Disturbed(b, x)
  BY <1>3 DEF Begin
<1>6. \A b \in Actors \ {a} : /\ doing'[b].kind = doing[b].kind
                              /\ doing[b].kind # "submit" => doing'[b] = doing[b]
  BY <1>5, DisturbedStays DEF TemplatesInv
<1> QED
  BY <1>3, <1>4, <1>5, <1>6 DEF PolicyKept, Busy

\* delete_line clears the policies that name the line, or gives up, and hides it then.
LEMMA DeleteLineKeeps ==
  ASSUME NEW a \in Actors, TemplatesInv, PolicyKept, DeleteLineClear(a) \/ DeleteLineHide(a)
  PROVE  PolicyKept'
<1>1. CASE doing[a].force /\ DeleteLineClear(a)
  <2>1. doing[a].kind = "delete_line" /\ Go(a, "hide") /\ revived' = revived /\ ~policy'.line
    BY <1>1 DEF DeleteLineClear, At, Cleared
  <2>2. Busy({"set_policy"})' \subseteq Busy({"set_policy"}) /\ a \in Busy({"delete_line"})
    BY <2>1, KindStays DEF TemplatesInv, Busy
  <2> QED
    BY <2>1, <2>2 DEF PolicyKept
<1>2. CASE ~doing[a].force /\ DeleteLineClear(a)
  BY <1>2, OthersGoOn DEF DeleteLineClear
<1>3. CASE DeleteLineHide(a)
  <2>1. /\ doing[a].kind = "delete_line" /\ doing[a].pc = "hide" /\ Done(a)
        /\ UNCHANGED <<policy, revived>>
    BY <1>3 DEF DeleteLineHide, At
  <2>2. Busy({"set_policy"})' \subseteq Busy({"set_policy"}) /\ a \in Busy({"delete_line"})
    BY <2>1, KindStays DEF TemplatesInv, Busy
  <2> QED
    BY <2>1, <2>2 DEF PolicyKept
<1> QED
  BY <1>1, <1>2, <1>3

LEMMA SetPolicyKeeps ==
  ASSUME NEW a \in Actors, TemplatesInv, PolicyKept, SetPolicyUpsert(a) PROVE PolicyKept'
<1>1. /\ doing[a].kind = "set_policy" /\ policy' = doing[a].new /\ Done(a)
      /\ UNCHANGED <<line, revived>>
  BY DEF SetPolicyUpsert, At
<1>2. /\ \A b \in Actors \ {a} : doing'[b] = doing[b]
      /\ doing'[a].kind = "none"
  BY <1>1, KindStays DEF TemplatesInv, TemplatesType, Done, AtRest
<1>3. /\ Busy({"delete_line"})' \subseteq Busy({"delete_line"})
      /\ Busy({"set_policy"})' \subseteq Busy({"set_policy"}) \ {a}
      /\ a \in Busy({"set_policy"})
      /\ \A b \in Busy({"set_policy"})' : doing'[b] = doing[b]
  BY <1>1, <1>2 DEF Busy
<1> QED
  BY <1>1, <1>3 DEF PolicyKept

LEMMA PolicyStaysKept ==
  TemplatesInv /\ PolicyKept /\ [TemplatesNext]_templatesVars => PolicyKept'
<1> SUFFICES ASSUME TemplatesInv, PolicyKept, [TemplatesNext]_templatesVars PROVE PolicyKept'
  OBVIOUS
<1>1. ASSUME NEW a \in Actors, Edit(a) PROVE PolicyKept'
  <2>1. CASE \/ \E n \in 1 .. MaxStep : UpdateLine(a, n)
             \/ SetLineForm(a) \/ DeleteForm(a)
    BY <2>1, OthersBegin DEF UpdateLine, SetLineForm, DeleteForm
  <2>2. CASE DetachForm(a)
    <3>1. line'.active = line.active
      BY <2>2 DEF DetachForm, TemplatesInv, TemplatesType
    <3> QED
      BY <2>2, <3>1, PolicyUntouched DEF DetachForm
  <2>3. ASSUME NEW ss, NEW bb,
               CreateForm(a, ss, bb) \/ \E act \in BOOLEAN : UpdateForm(a, ss, bb, act)
        PROVE  PolicyKept'
    BY <2>3, OthersBegin DEF CreateForm, UpdateForm
  <2>4. ASSUME NEW force \in BOOLEAN, DeleteLine(a, force) PROVE PolicyKept'
    BY <2>4, DeleteLineBegins
  <2>5. ASSUME NEW l \in Keep, NEW k \in Keep, SetPolicy(a, l, k) PROVE PolicyKept'
    BY <2>5, SetPolicyBegins
  <2> QED
    BY <1>1, <2>1, <2>2, <2>3, <2>4, <2>5 DEF Edit
<1>2. ASSUME NEW a \in Actors, Continue(a) PROVE PolicyKept'
  <2>1. CASE UpdateLineGuard(a) \/ UpdateLineDelete(a) \/ UpdateLineInsert(a)
    <3>1. doing[a].kind = "update_line" /\ (Done(a) \/ \E to : Go(a, to))
          /\ UNCHANGED <<policy, revived>>
      BY <2>1 DEF UpdateLineGuard, UpdateLineDelete, UpdateLineInsert, At
    <3>2. line'.active = line.active
      BY <2>1 DEF UpdateLineGuard, UpdateLineDelete, UpdateLineInsert, TemplatesInv, TemplatesType
    <3> QED
      BY <3>1, <3>2, OthersGoOn
  <2>2. CASE SetLineFormCount(a) \/ SetLineFormUpdate(a)
    <3>1. doing[a].kind = "set_line_form" /\ (Done(a) \/ \E to : Go(a, to))
          /\ UNCHANGED <<policy, revived>>
      BY <2>2 DEF SetLineFormCount, SetLineFormUpdate, At
    <3>2. line'.active = line.active
      BY <2>2 DEF SetLineFormCount, SetLineFormUpdate, TemplatesInv, TemplatesType
    <3> QED
      BY <3>1, <3>2, OthersGoOn
  <2>3. CASE DeactivateUsed(a) \/ UpdateFormGuard(a) \/ DeleteFormUsed(a) \/ WriteFlag(a)
    <3>1. doing[a].kind \notin {"delete_line", "set_policy"} /\ (Done(a) \/ \E to : Go(a, to))
          /\ UNCHANGED <<line, policy, revived>>
      BY <2>3 DEF DeactivateUsed, UpdateFormGuard, DeleteFormUsed, WriteFlag, At, Writing, FormEdits
    <3> QED
      BY <3>1, OthersGoOn
  <2>4. CASE WriteForm(a)
    <3>1. doing[a].kind \notin {"delete_line", "set_policy"}
          /\ (Done(a) \/ (\E to : Go(a, to)) \/ UNCHANGED doing)
          /\ UNCHANGED <<line, policy, revived>>
      BY <2>4 DEF WriteForm, WriteDelete, WriteInsert, Writing, FormEdits
    <3> QED
      BY <3>1, OthersGoOn
  <2>5. CASE DeleteFormRow(a)
    <3>1. line'.active = line.active
      BY <2>5 DEF DeleteFormRow, TemplatesInv, TemplatesType
    <3> QED
      BY <2>5, <3>1, OthersGoOn DEF DeleteFormRow
  <2>6. CASE DeleteLineClear(a) \/ DeleteLineHide(a) \/ SetPolicyUpsert(a)
    BY <2>6, DeleteLineKeeps, SetPolicyKeeps
  <2>7. CASE SubmitCover(a) \/ SubmitCopy(a)
    <3>1. doing[a].kind = "submit" /\ (Done(a) \/ \E to : Go(a, to))
          /\ UNCHANGED <<line, policy, revived>>
      BY <2>7 DEF SubmitCover, SubmitCopy, At
    <3> QED
      BY <3>1, OthersGoOn
  <2> QED
    BY <1>2, <2>1, <2>2, <2>3, <2>4, <2>5, <2>6, <2>7 DEF Continue
<1>3. ASSUME NEW a \in Actors, DieHalfWay(a) PROVE PolicyKept'
  BY <1>3, OthersGoOn DEF DieHalfWay
<1>4. ASSUME NEW a \in Actors, NEW n \in 1 .. MaxStep, Submit(a, n) PROVE PolicyKept'
  BY <1>4, OthersBegin DEF Submit
<1>5. CASE UNCHANGED templatesVars
  BY <1>5, PolicyUntouched DEF templatesVars
<1> QED
  BY <1>1, <1>2, <1>3, <1>4, <1>5 DEF TemplatesNext

\* What the queries of the administrators and of the requester rely on.
THEOREM TemplatesInvariance == TemplatesSpec => []TemplatesInv
<1>1. TemplatesInit => TemplatesInv
  BY TemplatesInitially
<1>2. TemplatesInv /\ [TemplatesNext]_templatesVars => TemplatesInv'
  BY TemplatesPreserved
<1> QED
  BY <1>1, <1>2, PTL DEF TemplatesSpec

\* The guards of update_line, update_form and set_line_form close each other's back
\* doors: edits that do not meet leave every line as long as its form.
THEOREM LinesCoverTheirForms == TemplatesSpec => []LineCoversItsForm
<1>1. TemplatesInv => LineCoversItsForm
  <2> SUFFICES ASSUME TemplatesInv, ~crossed, Busy(Edits) = {}, line.form
               PROVE  line.approvers >= Need(form.steps \cup form.blocks)
    BY DEF LineCoversItsForm
  <2>1. Fits
    BY DEF TemplatesInv, EditsApart
  <2>2. form.steps \cup form.blocks = form.steps
    BY <2>1 DEF Fits, Whole
  <2> QED
    BY <2>1, <2>2 DEF Fits
<1> QED
  BY <1>1, TemplatesInvariance, PTL

\* submit: whoever submits while nobody writes the form copies blocks that each have
\* an approver, whatever happens to the line meanwhile.
THEOREM RequestsAreCovered == TemplatesSpec => []RequestIsCovered
<1>1. TemplatesInv => RequestIsCovered
  BY DEF TemplatesInv
<1> QED
  BY <1>1, TemplatesInvariance, PTL

\* set_policy and delete_line: nobody is locked to nothing, and the line a policy names
\* can still be chosen unless set_policy was given a hidden one or met delete_line.
THEOREM DefaultLinesAreUsable == TemplatesSpec => []DefaultLineIsUsable
<1>1. TemplatesInit => PolicyKept
  BY DEF TemplatesInit, PolicyKept, Busy, AtRest
<1>2. TemplatesInv /\ PolicyKept /\ [TemplatesNext]_templatesVars => PolicyKept'
  BY PolicyStaysKept
<1>3. TemplatesInv /\ PolicyKept => DefaultLineIsUsable
  BY DEF TemplatesInv, LockedNeedsLine, PolicyKept, DefaultLineIsUsable
<1> QED
  BY <1>1, <1>2, <1>3, TemplatesInvariance, PTL DEF TemplatesSpec

-----------------------------------------------------------------------------
\* FormBlocks.

BlockValue == [complete : BOOLEAN, n : Nat]

FillCall == [pc : {"check", "write"}, block : 0 .. N]
DecideCall == [pc : {"judge", "mark", "move"}, k : Orders, action : Decisions, current : Orders]

BlocksType ==
  /\ status \in RequestStatus
  /\ current \in Orders
  /\ steps \in [Orders -> StepStatus \ {"absent"}]
  /\ blocks \in [0 .. N -> BlockValue]
  /\ locked \in BOOLEAN /\ submitting \in BOOLEAN /\ raced \in BOOLEAN
  /\ calls \in [Calls -> {Idle} \cup FillCall \cup DecideCall]
  /\ signed \in [Orders -> [0 .. N -> BlockValue]]
  /\ fills \in Nat

\* A step has had the turn only if every earlier one is approved; the turn is at
\* current_order; the last step is approved in an approved request.
LineInv ==
  /\ \A j, k \in Orders : j < k /\ steps[k] \in {"pending", "approved", "rejected"}
       => steps[j] = "approved"
  /\ \A k \in Orders : steps[k] = "pending" => k = current
  /\ steps[current] # "waiting"
  /\ status = "approved" => steps[N] = "approved"

\* While the draft is being written nobody has approved.
DraftFirst == ~raced /\ submitting => \A k \in Orders : steps[k] # "approved"

\* A block that is about to be written is under nobody's approval.
FillStillMay ==
  ~raced => \A c \in Calls : calls[c].pc = "write" =>
    \A k \in Orders : calls[c].block <= k => steps[k] # "approved"

\* An approval that is about to be marked still has its blocks.
JudgedStill ==
  ~raced => \A c \in Calls : calls[c].pc = "mark" /\ calls[c].action = "approved" =>
    \A b \in Required : b <= calls[c].k => Filled(blocks[b])

\* So have the approvals that were made.
ApprovedHave ==
  ~raced => \A k \in Orders : steps[k] = "approved" =>
    \A b \in Required : b <= k => Filled(blocks[b])

BlocksInv ==
  /\ BlocksType /\ LineInv /\ DraftFirst /\ FillStillMay
  /\ JudgedStill /\ SignedBlocksStand /\ ApprovedHave

-----------------------------------------------------------------------------
\* A line as the actions leave it is of the kinds of step it began with.
LEMMA StatusKinds ==
  /\ "approved" \in StepStatus \ {"absent"}
  /\ Decisions \subseteq StepStatus \ {"absent"}
  /\ "skipped" \in StepStatus \ {"absent"} /\ "pending" \in StepStatus \ {"absent"}
BY DEF StepStatus, Decisions

\* No step is missing, so the next one is the one after current_order.
LEMMA NextInLine ==
  ASSUME NEW s \in [Orders -> StepStatus \ {"absent"}]
  PROVE  /\ Present(s) = Orders
         /\ \A k \in Orders : Later(s, k) = (k + 1) .. N
         /\ \A k \in Orders : k # N => Least((k + 1) .. N) = k + 1 /\ k + 1 \in Orders
         /\ \A k \in Orders : Later(s, k) = {} <=> k = N
<1>1. Present(s) = Orders
  BY DEF Present
<1>2. \A k \in Orders : Later(s, k) = (k + 1) .. N
  BY <1>1, FormBlocksAssumption DEF Later, Orders
<1>3. ASSUME NEW k \in Orders, k # N
      PROVE  Least((k + 1) .. N) = k + 1 /\ k + 1 \in Orders
  <2>1. k + 1 \in (k + 1) .. N /\ \A j \in (k + 1) .. N : k + 1 <= j
    BY <1>3, FormBlocksAssumption DEF Orders
  <2>2. \A i \in (k + 1) .. N : (\A j \in (k + 1) .. N : i <= j) => i = k + 1
    BY <2>1, FormBlocksAssumption DEF Orders
  <2>3. k + 1 \in Orders
    BY <1>3, FormBlocksAssumption DEF Orders
  <2> QED
    BY <2>1, <2>2, <2>3 DEF Least
<1>4. ASSUME NEW k \in Orders
      PROVE  Later(s, k) = {} <=> k = N
  <2>1. CASE k = N
    BY <1>2, <2>1, FormBlocksAssumption DEF Orders
  <2>2. CASE k # N
    <3>1. k + 1 \in (k + 1) .. N
      BY <2>2, FormBlocksAssumption DEF Orders
    <3> QED
      BY <1>2, <2>2, <3>1
  <2> QED
    BY <2>1, <2>2
<1> QED
  BY <1>1, <1>2, <1>3, <1>4

\* SkipRest leaves the approvals and takes every turn away.
LEMMA SkippedLine ==
  ASSUME NEW s \in [Orders -> StepStatus \ {"absent"}]
  PROVE  /\ SkipRest(s) \in [Orders -> StepStatus \ {"absent"}]
         /\ \A k \in Orders : SkipRest(s)[k] \notin {"waiting", "pending"}
         /\ \A k \in Orders, d \in Decisions : SkipRest(s)[k] = d <=> s[k] = d
BY DEF SkipRest, StepStatus, Decisions

\* When submit has inserted the steps, BlocksInv holds of the request.
THEOREM Initially == Init => BlocksInv
<1> SUFFICES ASSUME Init PROVE BlocksInv
  OBVIOUS
<1>1. steps = [k \in Orders |-> IF k = 1 THEN "pending" ELSE "waiting"]
  BY FormBlocksAssumption DEF Init, OpenSteps, OpenedAs, Orders
<1>2. BlocksType
  <2>1. blocks \in [0 .. N -> BlockValue]
    BY DEF Init, BlockValue
  <2>2. steps \in [Orders -> StepStatus \ {"absent"}]
    BY <1>1 DEF StepStatus
  <2>3. signed \in [Orders -> [0 .. N -> BlockValue]]
    BY <2>1 DEF Init
  <2>4. calls \in [Calls -> {Idle} \cup FillCall \cup DecideCall]
    BY DEF Init
  <2>5. status \in RequestStatus /\ current \in Orders /\ fills \in Nat
    BY FormBlocksAssumption DEF Init, Orders, RequestStatus
  <2>6. locked \in BOOLEAN /\ submitting \in BOOLEAN /\ raced \in BOOLEAN
    BY DEF Init
  <2> QED
    BY <2>1, <2>2, <2>3, <2>4, <2>5, <2>6 DEF BlocksType
<1>3. LineInv
  BY <1>1, FormBlocksAssumption DEF Init, LineInv, Orders
<1>4. DraftFirst /\ SignedBlocksStand /\ ApprovedHave
  BY <1>1 DEF DraftFirst, SignedBlocksStand, ApprovedHave
<1>5. FillStillMay /\ JudgedStill
  BY DEF Init, Idle, FillStillMay, JudgedStill
<1> QED
  BY <1>2, <1>3, <1>4, <1>5 DEF BlocksInv

-----------------------------------------------------------------------------
(* Writing a value.  When Write happens under its guard, the approvals and *)
(* the judgements that count have other blocks.                            *)

\* A block under nobody's approval can be written: approvals keep theirs.
LEMMA WriteKeeps ==
  ASSUME BlocksInv, NEW b \in 0 .. N, NEW v \in Values, Write(b, v),
         UNCHANGED <<ledger, signed>>,
         ~raced => \A k \in Orders : b <= k => steps[k] # "approved",
         \A c \in Calls : calls'[c].pc = "mark" => calls'[c] = calls[c]
  PROVE  /\ blocks' \in [0 .. N -> BlockValue] /\ fills' \in Nat /\ raced' \in BOOLEAN
         /\ SignedBlocksStand' /\ ApprovedHave' /\ JudgedStill'
         /\ raced => raced'
<1>1. v \in BlockValue
  BY DEF Values, BlockValue, BlocksInv, BlocksType
<1>2. blocks' \in [0 .. N -> BlockValue] /\ fills' \in Nat /\ raced' \in BOOLEAN /\ (raced => raced')
  BY <1>1 DEF Write, BlocksInv, BlocksType
<1>3. ~raced => \A k \in Orders : steps[k] = "approved" =>
        \A i \in 0 .. N : i <= k => blocks'[i] = blocks[i]
  BY FormBlocksAssumption DEF Write, BlocksInv, BlocksType, Orders
<1>4. SignedBlocksStand'
  BY <1>2, <1>3, FormBlocksAssumption DEF BlocksInv, SignedBlocksStand, ledger, Orders
<1>5. ApprovedHave'
  BY <1>2, <1>3, FormBlocksAssumption DEF BlocksInv, ApprovedHave, Filled, ledger, Orders
<1>6. JudgedStill'
  BY DEF JudgedStill, Write, Deciding
<1> QED
  BY <1>2, <1>4, <1>5, <1>6

LEMMA DraftStep == BlocksInv /\ SubmitDraft => BlocksInv'
<1> SUFFICES ASSUME BlocksInv, SubmitDraft PROVE BlocksInv'
  OBVIOUS
<1>1. \A k \in Orders : ~raced => steps[k] # "approved"
  BY DEF BlocksInv, DraftFirst, SubmitDraft
<1>2. /\ BlocksType' /\ SignedBlocksStand' /\ ApprovedHave' /\ JudgedStill'
      /\ raced => raced'
  <2>1. CASE \E v \in Values : Write(0, v)
    <3>1. PICK v \in Values : Write(0, v)
      BY <2>1
    <3>2. 0 \in 0 .. N
      BY FormBlocksAssumption
    <3>3. UNCHANGED <<ledger, signed>> /\ calls' = calls
      BY DEF SubmitDraft
    <3>4. /\ blocks' \in [0 .. N -> BlockValue] /\ fills' \in Nat /\ raced' \in BOOLEAN
          /\ SignedBlocksStand' /\ ApprovedHave' /\ JudgedStill'
          /\ raced => raced'
      BY <1>1, <3>1, <3>2, <3>3, WriteKeeps
    <3> QED
      BY <3>3, <3>4 DEF SubmitDraft, BlocksInv, BlocksType, ledger
  <2>2. CASE UNCHANGED <<blocks, fills, raced>>
    BY <2>2 DEF SubmitDraft, BlocksInv, BlocksType, SignedBlocksStand, ApprovedHave, JudgedStill, ledger
  <2> QED
    BY <2>1, <2>2 DEF SubmitDraft
<1>3. LineInv' /\ DraftFirst' /\ FillStillMay'
  BY <1>2 DEF SubmitDraft, BlocksInv, LineInv, DraftFirst, FillStillMay, ledger
<1> QED
  BY <1>2, <1>3 DEF BlocksInv

\* A call that only moves on changes nothing the blocks or the line say.
LEMMA CallMoves ==
  ASSUME BlocksInv, UNCHANGED <<ledger, blocks, locked, submitting, signed, raced, fills>>,
         calls' \in [Calls -> {Idle} \cup FillCall \cup DecideCall],
         NEW c \in Calls, \A d \in Calls : d # c => calls'[d] = calls[d],
         ~raced /\ calls'[c].pc = "write" =>
           \A k \in Orders : calls'[c].block <= k => steps[k] # "approved",
         ~raced /\ calls'[c].pc = "mark" /\ calls'[c].action = "approved" =>
           \A b \in Required : b <= calls'[c].k => Filled(blocks[b])
  PROVE  BlocksInv'
<1>1. BlocksType' /\ LineInv' /\ DraftFirst'
  BY DEF BlocksInv, BlocksType, LineInv, DraftFirst, ledger
<1>2. FillStillMay'
  BY DEF BlocksInv, FillStillMay, ledger
<1>3. JudgedStill'
  BY DEF BlocksInv, JudgedStill, Filled
<1>4. SignedBlocksStand' /\ ApprovedHave'
  BY DEF BlocksInv, SignedBlocksStand, ApprovedHave, Filled, ledger
<1> QED
  BY <1>1, <1>2, <1>3, <1>4 DEF BlocksInv

LEMMA FillReadStep == ASSUME NEW c \in Calls, NEW b \in 0 .. N, BlocksInv, FillRead(c, b) PROVE BlocksInv'
<1>1. calls' = [calls EXCEPT ![c] = [pc |-> "check", block |-> b]]
  BY DEF FillRead
<1>2. calls' \in [Calls -> {Idle} \cup FillCall \cup DecideCall]
  BY <1>1 DEF BlocksInv, BlocksType, FillCall
<1>3. calls'[c].pc = "check" /\ \A d \in Calls : d # c => calls'[d] = calls[d]
  BY <1>1 DEF BlocksInv, BlocksType
<1> QED
  BY <1>2, <1>3, CallMoves DEF FillRead

\* The turn of step b, or no approval at all, means no approval at or after b.
LEMMA FillCheckStep == ASSUME NEW c \in Calls, BlocksInv, FillCheck(c) PROVE BlocksInv'
<1>1. calls[c] \in FillCall
  BY DEF FillCheck, BlocksInv, BlocksType, Idle, DecideCall
<1>2. CASE MayFill(calls[c].block)
  <2>1. calls' = [calls EXCEPT ![c].pc = "write"]
    BY <1>2 DEF FillCheck
  <2>2. calls' \in [Calls -> {Idle} \cup FillCall \cup DecideCall]
    BY <1>1, <2>1 DEF BlocksInv, BlocksType, FillCall
  <2>3. /\ calls'[c].pc = "write" /\ calls'[c].block = calls[c].block
        /\ \A d \in Calls : d # c => calls'[d] = calls[d]
    BY <1>1, <2>1 DEF BlocksInv, BlocksType, FillCall
  <2>4. \A k \in Orders : calls[c].block <= k => steps[k] # "approved"
    BY <1>1, <1>2, FormBlocksAssumption DEF MayFill, BlocksInv, LineInv, FillCall, Orders
  <2> QED
    BY <2>2, <2>3, <2>4, CallMoves DEF FillCheck
<1>3. CASE ~MayFill(calls[c].block)
  <2>1. calls' = [calls EXCEPT ![c] = Idle]
    BY <1>3 DEF FillCheck, Return
  <2>2. calls' \in [Calls -> {Idle} \cup FillCall \cup DecideCall]
    BY <2>1 DEF BlocksInv, BlocksType
  <2>3. calls'[c].pc = "idle" /\ \A d \in Calls : d # c => calls'[d] = calls[d]
    BY <2>1 DEF BlocksInv, BlocksType, Idle
  <2> QED
    BY <2>2, <2>3, CallMoves DEF FillCheck
<1> QED
  BY <1>2, <1>3

LEMMA FillWriteStep == ASSUME NEW c \in Calls, BlocksInv, FillWrite(c) PROVE BlocksInv'
<1>1. calls[c] \in FillCall
  BY DEF FillWrite, BlocksInv, BlocksType, Idle, DecideCall
<1>2. calls' = [calls EXCEPT ![c] = Idle] /\ UNCHANGED <<ledger, signed>>
  BY DEF FillWrite, Return
<1>3. \A d \in Calls : calls'[d] = Idle \/ calls'[d] = calls[d]
  BY <1>2 DEF BlocksInv, BlocksType
<1>4. ~raced => \A k \in Orders : calls[c].block <= k => steps[k] # "approved"
  BY DEF FillWrite, BlocksInv, FillStillMay
<1>5. PICK v \in Values : Write(calls[c].block, v)
  BY DEF FillWrite
<1>6. calls[c].block \in 0 .. N
  BY <1>1 DEF FillCall
<1>7. \A d \in Calls : calls'[d].pc = "mark" => calls'[d] = calls[d]
  BY <1>3 DEF Idle
<1>8. /\ blocks' \in [0 .. N -> BlockValue] /\ fills' \in Nat /\ raced' \in BOOLEAN
      /\ SignedBlocksStand' /\ ApprovedHave' /\ JudgedStill'
      /\ raced => raced'
  BY <1>2, <1>4, <1>5, <1>6, <1>7, WriteKeeps
<1>9. calls' \in [Calls -> {Idle} \cup FillCall \cup DecideCall]
  BY <1>2 DEF BlocksInv, BlocksType
<1>10. BlocksType' /\ LineInv' /\ DraftFirst'
  BY <1>8, <1>9 DEF FillWrite, BlocksInv, BlocksType, LineInv, DraftFirst, ledger
<1>11. FillStillMay'
  BY <1>2, <1>3, <1>8 DEF BlocksInv, FillStillMay, ledger, Idle
<1> QED
  BY <1>8, <1>10, <1>11 DEF BlocksInv

LEMMA FillLockedStep == ASSUME NEW b \in 0 .. N, BlocksInv, FillLocked(b) PROVE BlocksInv'
<1>1. PICK v \in Values : Write(b, v)
  BY DEF FillLocked
<1>2. \A k \in Orders : b <= k => steps[k] # "approved"
  BY FormBlocksAssumption DEF FillLocked, MayFill, BlocksInv, LineInv, Orders
<1>3. UNCHANGED <<ledger, signed>> /\ calls' = calls
  BY DEF FillLocked
<1>4. /\ blocks' \in [0 .. N -> BlockValue] /\ fills' \in Nat /\ raced' \in BOOLEAN
      /\ SignedBlocksStand' /\ ApprovedHave' /\ JudgedStill'
      /\ raced => raced'
  BY <1>1, <1>2, <1>3, WriteKeeps
<1>5. BlocksType' /\ LineInv' /\ DraftFirst' /\ FillStillMay'
  BY <1>4 DEF FillLocked, BlocksInv, BlocksType, LineInv, DraftFirst, FillStillMay, ledger
<1> QED
  BY <1>4, <1>5 DEF BlocksInv

-----------------------------------------------------------------------------
\* Nothing is required of a judgement but that its blocks are filled.
LEMMA JudgedFilled ==
  ASSUME BlocksInv, NEW k \in Orders, Judged(k, "approved")
  PROVE  \A b \in Required : b <= k => Filled(blocks[b])
BY DEF Judged, UnfilledUpto

LEMMA DecideReadStep ==
  ASSUME NEW c \in Calls, NEW k \in Orders, NEW action \in Decisions, BlocksInv, DecideRead(c, k, action)
  PROVE  BlocksInv'
<1>1. calls' = [calls EXCEPT ![c] = [pc |-> "judge", k |-> k, action |-> action,
                                     current |-> current]]
  BY DEF DecideRead
<1>2. calls' \in [Calls -> {Idle} \cup FillCall \cup DecideCall]
  BY <1>1 DEF BlocksInv, BlocksType, DecideCall
<1>3. calls'[c].pc = "judge" /\ \A d \in Calls : d # c => calls'[d] = calls[d]
  BY <1>1 DEF BlocksInv, BlocksType
<1> QED
  BY <1>2, <1>3, CallMoves DEF DecideRead

LEMMA DecideJudgeStep == ASSUME NEW c \in Calls, BlocksInv, DecideJudge(c) PROVE BlocksInv'
<1>1. calls[c] \in DecideCall
  BY DEF DecideJudge, BlocksInv, BlocksType, Idle, FillCall
<1>2. CASE Judged(calls[c].k, calls[c].action)
  <2>1. calls' = [calls EXCEPT ![c].pc = "mark"]
    BY <1>2 DEF DecideJudge
  <2>2. calls' \in [Calls -> {Idle} \cup FillCall \cup DecideCall]
    BY <1>1, <2>1 DEF BlocksInv, BlocksType, DecideCall
  <2>3. /\ calls'[c].pc = "mark" /\ calls'[c].action = calls[c].action /\ calls'[c].k = calls[c].k
        /\ \A d \in Calls : d # c => calls'[d] = calls[d]
    BY <1>1, <2>1 DEF BlocksInv, BlocksType, DecideCall
  <2>4. calls[c].k \in Orders
    BY <1>1 DEF DecideCall
  <2>5. calls[c].action = "approved" => \A b \in Required : b <= calls[c].k => Filled(blocks[b])
    BY <1>2, <2>4, JudgedFilled
  <2> QED
    BY <2>2, <2>3, <2>5, CallMoves DEF DecideJudge
<1>3. CASE ~Judged(calls[c].k, calls[c].action)
  <2>1. calls' = [calls EXCEPT ![c] = Idle]
    BY <1>3 DEF DecideJudge, Return
  <2>2. calls' \in [Calls -> {Idle} \cup FillCall \cup DecideCall]
    BY <2>1 DEF BlocksInv, BlocksType
  <2>3. calls'[c].pc = "idle" /\ \A d \in Calls : d # c => calls'[d] = calls[d]
    BY <2>1 DEF BlocksInv, BlocksType, Idle
  <2> QED
    BY <2>2, <2>3, CallMoves DEF DecideJudge
<1> QED
  BY <1>2, <1>3

\* A decision is signed with the blocks as they are, and crosses no value.
LEMMA SignKeeps ==
  ASSUME BlocksInv, NEW k \in Orders, NEW action \in Decisions, Sign(k, action),
         UNCHANGED <<blocks, submitting>>,
         ~raced /\ action = "approved" => \A b \in Required : b <= k => Filled(blocks[b]),
         steps[k] # "approved",
         \A j \in Orders : steps'[j] = "approved" <=>
           steps[j] = "approved" \/ (j = k /\ action = "approved"),
         \A d \in Calls : calls'[d].pc \in {"write", "mark"} => calls'[d] = calls[d]
  PROVE  /\ signed' \in [Orders -> [0 .. N -> BlockValue]] /\ raced' \in BOOLEAN
         /\ DraftFirst' /\ FillStillMay' /\ JudgedStill' /\ SignedBlocksStand' /\ ApprovedHave'
<1>1. signed' \in [Orders -> [0 .. N -> BlockValue]] /\ raced' \in BOOLEAN
  BY DEF Sign, BlocksInv, BlocksType
<1>2. ~raced' => ~raced /\ ~submitting /\ \A d \in Calls : calls[d].pc # "write"
  BY DEF Sign, Filling
<1>3. DraftFirst' /\ FillStillMay'
  BY <1>2 DEF DraftFirst, FillStillMay
<1>4. JudgedStill'
  BY <1>2 DEF BlocksInv, JudgedStill, Filled
<1>5. ApprovedHave'
  BY <1>2 DEF BlocksInv, ApprovedHave, Filled
<1>6. ASSUME ~raced', NEW j \in Orders, steps'[j] = "approved", NEW b \in 0 .. j
      PROVE  blocks'[b] = signed'[j][b]
  <2>1. CASE j = k
    BY <1>6, <2>1 DEF Sign, BlocksInv, BlocksType
  <2>2. CASE j # k
    <3>1. steps[j] = "approved" /\ ~raced /\ signed'[j] = signed[j]
      BY <1>2, <1>6, <2>2 DEF Sign, BlocksInv, BlocksType
    <3> QED
      BY <1>6, <3>1 DEF BlocksInv, SignedBlocksStand
  <2> QED
    BY <2>1, <2>2
<1>7. SignedBlocksStand'
  BY <1>6 DEF SignedBlocksStand
<1> QED
  BY <1>1, <1>3, <1>4, <1>5, <1>7

\* A step that leaves the approvals and the blocks as they are.
LEMMA ApprovalsKept ==
  ASSUME BlocksInv, UNCHANGED <<blocks, submitting, signed, raced>>,
         \A k \in Orders : steps'[k] = "approved" <=> steps[k] = "approved",
         \A d \in Calls : calls'[d].pc \in {"write", "mark"} => calls'[d] = calls[d]
  PROVE  DraftFirst' /\ FillStillMay' /\ JudgedStill' /\ SignedBlocksStand' /\ ApprovedHave'
<1>1. DraftFirst' /\ FillStillMay'
  BY DEF BlocksInv, DraftFirst, FillStillMay
<1>2. JudgedStill'
  BY DEF BlocksInv, JudgedStill, Filled
<1>3. SignedBlocksStand' /\ ApprovedHave'
  BY DEF BlocksInv, SignedBlocksStand, ApprovedHave, Filled
<1> QED
  BY <1>1, <1>2, <1>3

LEMMA DecideMarkStep == ASSUME NEW c \in Calls, BlocksInv, DecideMark(c) PROVE BlocksInv'
<1> DEFINE k == calls[c].k
           action == calls[c].action
<1>1. calls[c] \in DecideCall /\ k \in Orders /\ action \in Decisions
  BY DEF DecideMark, BlocksInv, BlocksType, Idle, FillCall, DecideCall
<1>2. CASE steps[k] = "pending"
  <2>1. /\ steps' = [steps EXCEPT ![k] = action] /\ Sign(k, action)
        /\ calls' = [calls EXCEPT ![c].pc = "move"]
        /\ UNCHANGED <<status, current, blocks, locked, submitting, fills>>
    BY <1>2 DEF DecideMark
  <2>2. calls' \in [Calls -> {Idle} \cup FillCall \cup DecideCall]
    BY <1>1, <2>1 DEF BlocksInv, BlocksType, DecideCall
  <2>3. \A d \in Calls : calls'[d].pc \in {"write", "mark"} => calls'[d] = calls[d]
    BY <1>1, <2>1 DEF BlocksInv, BlocksType, DecideCall
  <2>4. steps' \in [Orders -> StepStatus \ {"absent"}]
    BY <1>1, <2>1, StatusKinds DEF BlocksInv, BlocksType
  <2>5. \A j \in Orders : steps'[j] = "approved" <=>
          steps[j] = "approved" \/ (j = k /\ action = "approved")
    BY <1>1, <1>2, <2>1 DEF BlocksInv, BlocksType
  <2>6. ~raced /\ action = "approved" => \A b \in Required : b <= k => Filled(blocks[b])
    BY DEF DecideMark, BlocksInv, JudgedStill
  <2>7. UNCHANGED <<blocks, submitting>> /\ steps[k] # "approved" /\ Sign(k, action)
    BY <1>2, <2>1
  <2>8. /\ signed' \in [Orders -> [0 .. N -> BlockValue]] /\ raced' \in BOOLEAN
        /\ DraftFirst' /\ FillStillMay' /\ JudgedStill' /\ SignedBlocksStand' /\ ApprovedHave'
    <3> HIDE DEF k, action
    <3> QED
      BY <1>1, <2>3, <2>5, <2>6, <2>7, SignKeeps
  <2>9. LineInv'
    <3>1. \A j \in Orders : steps'[j] = IF j = k THEN action ELSE steps[j]
      BY <1>1, <2>1 DEF BlocksInv, BlocksType
    <3>2. action \in {"approved", "rejected"} /\ k = current /\ N \in Orders /\ current \in Orders
      BY <1>1, <1>2, FormBlocksAssumption DEF Decisions, BlocksInv, BlocksType, LineInv, Orders
    <3> HIDE DEF k, action
    <3> QED
      BY <1>1, <1>2, <2>1, <3>1, <3>2, FormBlocksAssumption DEF BlocksInv, LineInv, Orders
  <2>10. BlocksType'
    BY <2>1, <2>2, <2>4, <2>8 DEF BlocksInv, BlocksType
  <2> QED
    BY <2>8, <2>9, <2>10 DEF BlocksInv
<1>3. CASE steps[k] # "pending"
  <2>1. calls' = [calls EXCEPT ![c] = Idle]
        /\ UNCHANGED <<ledger, blocks, locked, submitting, signed, raced, fills>>
    BY <1>3 DEF DecideMark, Return, ledger
  <2>2. calls' \in [Calls -> {Idle} \cup FillCall \cup DecideCall]
    BY <2>1 DEF BlocksInv, BlocksType
  <2>3. calls'[c].pc = "idle" /\ \A d \in Calls : d # c => calls'[d] = calls[d]
    BY <2>1 DEF BlocksInv, BlocksType, Idle
  <2> QED
    BY <2>1, <2>2, <2>3, CallMoves
<1> QED
  BY <1>2, <1>3

-----------------------------------------------------------------------------
\* What advance can say of a whole line.
LEMMA Verdicts ==
  ASSUME BlocksInv, NEW k \in Orders, NEW verdict, verdict = Advance(steps, k)
  PROVE  \/ verdict.status = "rejected" /\ verdict.current = k
         \/ verdict.status = "approved" /\ verdict.current = k /\ k = N /\ steps[k] = "approved"
         \/ /\ verdict.status = "pending" /\ verdict.current = k + 1
            /\ k + 1 \in Orders /\ steps[k] = "approved"
         \/ verdict.status = "pending" /\ verdict.current = k
<1> steps \in [Orders -> StepStatus \ {"absent"}]
  BY DEF BlocksInv, BlocksType
<1>1. Present(steps) = Orders
  BY NextInLine
<1>2. Later(steps, k) = (k + 1) .. N /\ (Later(steps, k) = {} <=> k = N)
  BY NextInLine
<1>3. k # N => Least(Later(steps, k)) = k + 1 /\ k + 1 \in Orders
  BY <1>2, NextInLine
<1> DEFINE rejected == \E j \in Orders : steps[j] = "rejected"
           done == steps[k] = "approved"
<1>4. verdict = [status  |-> IF rejected THEN "rejected"
                             ELSE IF done /\ k = N THEN "approved" ELSE "pending",
                 current |-> IF ~rejected /\ done /\ k # N THEN Least(Later(steps, k)) ELSE k]
  BY <1>1, <1>2 DEF Advance
<1>5. CASE rejected
  BY <1>4, <1>5
<1>6. CASE ~rejected
  BY <1>3, <1>4, <1>6
<1> QED
  BY <1>5, <1>6

LEMMA DecideMoveStep == ASSUME NEW c \in Calls, BlocksInv, DecideMove(c) PROVE BlocksInv'
<1> DEFINE verdict == Advance(steps, calls[c].current)
<1>1. calls[c] \in DecideCall /\ calls[c].current \in Orders
  BY DEF DecideMove, BlocksInv, BlocksType, Idle, FillCall, DecideCall
<1>2. /\ calls' = [calls EXCEPT ![c] = Idle]
      /\ UNCHANGED <<blocks, locked, submitting, signed, raced, fills>>
  BY DEF DecideMove, Return
<1>3. /\ calls' \in [Calls -> {Idle} \cup FillCall \cup DecideCall]
      /\ \A d \in Calls : calls'[d].pc \in {"write", "mark"} => calls'[d] = calls[d]
      /\ calls'[c].pc = "idle" /\ \A d \in Calls : d # c => calls'[d] = calls[d]
  BY <1>2 DEF BlocksInv, BlocksType, Idle
<1>4. CASE ~(status = "pending" /\ current = calls[c].current)
  <2>1. UNCHANGED ledger
    BY <1>4 DEF DecideMove
  <2> QED
    BY <1>2, <1>3, <2>1, CallMoves
<1>5. CASE status = "pending" /\ current = calls[c].current
  <2>1. /\ status' = verdict.status /\ current' = verdict.current
        /\ steps' = CASE verdict.status = "rejected" -> SkipRest(steps)
                      [] verdict.status = "approved" -> steps
                      [] OTHER -> [steps EXCEPT ![verdict.current] =
                                     IF @ = "waiting" THEN "pending" ELSE @]
    BY <1>5 DEF DecideMove
  <2>2. \/ verdict.status = "rejected" /\ verdict.current = current
        \/ /\ verdict.status = "approved" /\ verdict.current = current
           /\ current = N /\ steps[current] = "approved"
        \/ /\ verdict.status = "pending" /\ verdict.current = current + 1
           /\ current + 1 \in Orders /\ steps[current] = "approved"
        \/ verdict.status = "pending" /\ verdict.current = current
    BY <1>1, <1>5, Verdicts
  <2> HIDE DEF verdict
  <2>3. steps \in [Orders -> StepStatus \ {"absent"}] /\ current \in Orders
    BY DEF BlocksInv, BlocksType
  <2>4. /\ status' \in RequestStatus /\ current' \in Orders
        /\ steps' \in [Orders -> StepStatus \ {"absent"}]
        /\ \A k \in Orders : steps'[k] = "approved" <=> steps[k] = "approved"
        /\ LineInv'
    <3>1. CASE verdict.status = "rejected" /\ verdict.current = current
      <4>1. steps' = SkipRest(steps) /\ status' = "rejected" /\ current' = current
        BY <2>1, <3>1
      <4>2. /\ steps' \in [Orders -> StepStatus \ {"absent"}]
            /\ \A k \in Orders : steps'[k] \notin {"waiting", "pending"}
            /\ \A k \in Orders, d \in Decisions : steps'[k] = d <=> steps[k] = d
        BY <2>3, <4>1, SkippedLine
      <4>3. LineInv'
        BY <2>3, <4>1, <4>2 DEF BlocksInv, LineInv, Decisions
      <4> QED
        BY <2>3, <4>1, <4>2, <4>3 DEF RequestStatus, Decisions
    <3>2. CASE /\ verdict.status = "approved" /\ verdict.current = current
               /\ current = N /\ steps[current] = "approved"
      <4>1. steps' = steps /\ status' = "approved" /\ current' = current
        BY <2>1, <3>2
      <4> QED
        BY <2>3, <3>2, <4>1 DEF RequestStatus, BlocksInv, LineInv
    <3>3. CASE /\ verdict.status = "pending" /\ verdict.current = current + 1
               /\ current + 1 \in Orders /\ steps[current] = "approved"
      <4>1. /\ status' = "pending" /\ current' = current + 1
            /\ steps' = [steps EXCEPT ![current + 1] = IF @ = "waiting" THEN "pending" ELSE @]
        BY <2>1, <3>3
      <4>2. /\ steps' \in [Orders -> StepStatus \ {"absent"}]
            /\ \A k \in Orders : steps'[k] =
                 IF k = current + 1 /\ steps[k] = "waiting" THEN "pending" ELSE steps[k]
        BY <2>3, <3>3, <4>1, StatusKinds
      <4>3. LineInv'
        BY <2>3, <3>3, <4>1, <4>2, FormBlocksAssumption DEF BlocksInv, LineInv, Orders
      <4> QED
        BY <3>3, <4>1, <4>2, <4>3 DEF RequestStatus
    <3>4. CASE verdict.status = "pending" /\ verdict.current = current
      <4>1. /\ status' = "pending" /\ current' = current
            /\ steps' = [steps EXCEPT ![current] = IF @ = "waiting" THEN "pending" ELSE @]
        BY <2>1, <3>4
      <4>2. steps' = steps
        BY <2>3, <4>1 DEF BlocksInv, LineInv
      <4> QED
        BY <2>3, <4>1, <4>2 DEF RequestStatus, BlocksInv, LineInv
    <3> QED
      BY <2>2, <3>1, <3>2, <3>3, <3>4
  <2>5. DraftFirst' /\ FillStillMay' /\ JudgedStill' /\ SignedBlocksStand' /\ ApprovedHave'
    BY <1>2, <1>3, <2>4, ApprovalsKept
  <2>6. BlocksType'
    BY <1>2, <1>3, <2>4 DEF BlocksInv, BlocksType
  <2> QED
    BY <2>4, <2>5, <2>6 DEF BlocksInv
<1> QED
  BY <1>4, <1>5

LEMMA WithdrawStep == BlocksInv /\ Withdraw => BlocksInv'
<1> SUFFICES ASSUME BlocksInv, Withdraw PROVE BlocksInv'
  OBVIOUS
<1>1. /\ steps' = SkipRest(steps) /\ status' = "canceled"
      /\ UNCHANGED <<current, blocks, locked, submitting, calls, signed, raced, fills>>
  BY DEF Withdraw
<1>2. /\ steps' \in [Orders -> StepStatus \ {"absent"}]
      /\ \A k \in Orders : steps'[k] \notin {"waiting", "pending"}
      /\ \A k \in Orders, d \in Decisions : steps'[k] = d <=> steps[k] = d
  BY <1>1, SkippedLine DEF BlocksInv, BlocksType
<1>3. LineInv'
  BY <1>1, <1>2 DEF BlocksInv, BlocksType, LineInv, Decisions
<1>4. DraftFirst' /\ FillStillMay' /\ JudgedStill' /\ SignedBlocksStand' /\ ApprovedHave'
  BY <1>1, <1>2, ApprovalsKept DEF Decisions
<1>5. BlocksType'
  BY <1>1, <1>2 DEF BlocksInv, BlocksType, RequestStatus
<1> QED
  BY <1>3, <1>4, <1>5 DEF BlocksInv

\* Under the locks the step that has the turn is the one decide counts from.
LEMMA DecideLockedStep ==
  ASSUME NEW k \in Orders, NEW action \in Decisions, BlocksInv, DecideLocked(k, action)
  PROVE  BlocksInv'
<1> DEFINE marked == [steps EXCEPT ![k] = action]
           new == Decided(current, steps, k, action)
<1>1. steps[k] = "pending" /\ k = current /\ current \in Orders /\ Sign(k, action)
  BY DEF DecideLocked, MayDecide, BlocksInv, BlocksType, LineInv
<1>2. /\ status' = new.status /\ current' = new.current /\ steps' = new.steps
      /\ UNCHANGED <<blocks, locked, submitting, calls, fills>>
  BY DEF DecideLocked
<1>3. /\ marked \in [Orders -> StepStatus \ {"absent"}]
      /\ \A j \in Orders : marked[j] = IF j = k THEN action ELSE steps[j]
  BY StatusKinds DEF BlocksInv, BlocksType
<1>4. /\ Later(marked, current) = {} <=> current = N
      /\ current # N => Least(Later(marked, current)) = current + 1 /\ current + 1 \in Orders
  <2> HIDE DEF marked
  <2> QED
    BY <1>1, <1>3, NextInLine
<1>5. ~raced /\ action = "approved" => \A b \in Required : b <= k => Filled(blocks[b])
  BY JudgedFilled DEF DecideLocked
<1>6. action \in {"approved", "rejected"}
  BY DEF Decisions
<1>7. /\ status' \in RequestStatus /\ current' \in Orders
      /\ steps' \in [Orders -> StepStatus \ {"absent"}]
      /\ \A j \in Orders : steps'[j] = "approved" <=>
           steps[j] = "approved" \/ (j = k /\ action = "approved")
      /\ LineInv'
  <2>1. CASE action = "rejected"
    <3>1. status' = "rejected" /\ current' = current /\ steps' = SkipRest(marked)
      BY <1>2, <2>1 DEF Decided
    <3>2. /\ steps' \in [Orders -> StepStatus \ {"absent"}]
          /\ \A j \in Orders : steps'[j] \notin {"waiting", "pending"}
          /\ \A j \in Orders, d \in Decisions : steps'[j] = d <=> marked[j] = d
      <4> HIDE DEF marked
      <4> QED
        BY <1>3, <3>1, SkippedLine
    <3>3. \A j \in Orders : steps'[j] = "approved" <=> steps[j] = "approved"
      BY <1>1, <1>3, <2>1, <3>2 DEF Decisions
    <3>4. \A j \in Orders : steps'[j] = "rejected" => j = k \/ steps[j] = "rejected"
      BY <1>3, <3>2 DEF Decisions
    <3>5. LineInv'
      <4> HIDE DEF marked
      <4> QED
        BY <1>1, <3>1, <3>2, <3>3, <3>4, FormBlocksAssumption DEF BlocksInv, LineInv, Orders
    <3> QED
      BY <1>1, <2>1, <3>1, <3>2, <3>3, <3>5 DEF RequestStatus
  <2>2. CASE action = "approved" /\ current = N
    <3>1. status' = "approved" /\ current' = current /\ steps' = marked
      BY <1>2, <1>4, <2>2 DEF Decided
    <3>2. LineInv'
      <4> HIDE DEF marked
      <4> QED
        BY <1>1, <1>3, <2>2, <3>1, FormBlocksAssumption DEF BlocksInv, LineInv, Orders
    <3> QED
      BY <1>1, <1>3, <2>2, <3>1, <3>2 DEF RequestStatus
  <2>3. CASE action = "approved" /\ current # N
    <3>1. /\ status' = "pending" /\ current' = current + 1
          /\ steps' = [marked EXCEPT ![current + 1] = "pending"]
      BY <1>2, <1>4, <2>3 DEF Decided
    <3>2. current + 1 \in Orders /\ current + 1 # k
      BY <1>1, <1>4, <2>3 DEF Orders
    <3>3. /\ steps' \in [Orders -> StepStatus \ {"absent"}]
          /\ \A j \in Orders : steps'[j] = IF j = current + 1 THEN "pending" ELSE marked[j]
      <4> HIDE DEF marked
      <4> QED
        BY <1>3, <3>1, <3>2, StatusKinds
    <3>4. \A j \in Orders : steps'[j] = "approved" <=> steps[j] = "approved" \/ j = k
      <4>1. steps[current + 1] # "approved"
        BY <1>1, <3>2 DEF BlocksInv, LineInv, Orders
      <4> QED
        BY <1>3, <2>3, <3>2, <3>3, <4>1
    <3>5. LineInv'
      <4> HIDE DEF marked
      <4> QED
        BY <1>1, <1>3, <2>3, <3>1, <3>2, <3>3, FormBlocksAssumption DEF BlocksInv, LineInv, Orders
    <3> QED
      BY <2>3, <3>1, <3>2, <3>3, <3>4, <3>5 DEF RequestStatus
  <2> QED
    BY <1>6, <2>1, <2>2, <2>3
<1>8. /\ signed' \in [Orders -> [0 .. N -> BlockValue]] /\ raced' \in BOOLEAN
      /\ DraftFirst' /\ FillStillMay' /\ JudgedStill' /\ SignedBlocksStand' /\ ApprovedHave'
  <2>1. steps[k] # "approved" /\ UNCHANGED <<blocks, submitting>> /\ calls' = calls
    BY <1>1, <1>2
  <2> QED
    BY <1>1, <1>5, <1>7, <2>1, SignKeeps
<1>9. BlocksType'
  BY <1>2, <1>7, <1>8 DEF BlocksInv, BlocksType
<1> QED
  BY <1>7, <1>8, <1>9 DEF BlocksInv

-----------------------------------------------------------------------------
\* Every query of fill_block, decide and cancel preserves it.
THEOREM Preserved == BlocksInv /\ [Next]_vars => BlocksInv'
<1> SUFFICES ASSUME BlocksInv, [Next]_vars PROVE BlocksInv'
  OBVIOUS
<1>1. CASE SubmitDraft
  BY <1>1, DraftStep
<1>2. CASE Withdraw
  BY <1>2, WithdrawStep
<1>3. ASSUME NEW c \in Calls, Call(c) PROVE BlocksInv'
  BY <1>3, FillReadStep, FillCheckStep, FillWriteStep,
     DecideReadStep, DecideJudgeStep, DecideMarkStep, DecideMoveStep DEF Call
<1>4. CASE \E b \in 0 .. N : FillLocked(b)
  BY <1>4, FillLockedStep
<1>5. CASE \E k \in Orders, action \in Decisions : DecideLocked(k, action)
  BY <1>5, DecideLockedStep
<1>6. CASE UNCHANGED vars
  BY <1>6 DEF vars, ledger, BlocksInv, BlocksType, LineInv, DraftFirst, FillStillMay, JudgedStill,
     SignedBlocksStand, ApprovedHave, Filled
<1> QED
  BY <1>1, <1>2, <1>3, <1>4, <1>5, <1>6 DEF Next

\* The invariant of store.py fill_block and decide: what holds of a value that was
\* checked and of an approval that was judged, for a line of any length.
THEOREM BlocksInvariance == Spec => []BlocksInv
<1>1. Init => BlocksInv
  BY Initially
<1>2. BlocksInv /\ [Next]_vars => BlocksInv'
  BY Preserved
<1> QED
  BY <1>1, <1>2, PTL DEF Spec

\* fill_block never changes what somebody has approved, unless the value was on its
\* way while the approval was made.
THEOREM SignedBlocksAlwaysStand == Spec => []SignedBlocksStand
<1>1. BlocksInv => SignedBlocksStand
  BY DEF BlocksInv
<1> QED
  BY <1>1, BlocksInvariance, PTL

\* decide lets no request be approved without the blocks its form requires, the
\* draft included, with the same proviso.
THEOREM ApprovedIsAlwaysFilled == Spec => []ApprovedIsFilled
<1>1. BlocksInv => ApprovedIsFilled
  BY FormBlocksAssumption DEF BlocksInv, LineInv, ApprovedHave, ApprovedIsFilled, Orders
<1> QED
  BY <1>1, BlocksInvariance, PTL

-----------------------------------------------------------------------------
\* Settlement.

\* Whoever runs the hooks has the claim, fresh, and the request is not yet stamped.
HoldsTheClaim ==
  ~disturbed => \A w \in Active : claim = "fresh" /\ holder = w /\ applied = "no"

\* One run is in progress or has been stamped; every other one ended in a death.
RunsAccountedFor ==
  ~disturbed => attempts <= deaths + IF Active # {} \/ applied # "no" THEN 1 ELSE 0

Hooks == IF outcome = "approved" THEN {"blocks", "action"} ELSE {"cleanup"}

\* A run without an error has done the hooks before the one it is at.
DoneSoFar ==
  /\ effects \subseteq Hooks
  /\ \A w \in Active :
       /\ pc[w] \in Hooks \cup {"stamp"}
       /\ w \notin failed /\ pc[w] = "action" => "blocks" \in effects
       /\ w \notin failed /\ pc[w] = "stamp" => effects = Hooks

SettlementInv == TypeOK /\ HoldsTheClaim /\ RunsAccountedFor /\ DoneSoFar /\ OkMeansDone

-----------------------------------------------------------------------------
\* A request just decided has no run.
THEOREM SettlementInitially == SettlementInit => SettlementInv
<1> SUFFICES ASSUME SettlementInit PROVE SettlementInv
  OBVIOUS
<1>1. TypeOK
  <2>1. pc \in [Workers -> PC]
    BY DEF SettlementInit, PC
  <2>2. failed \subseteq Workers /\ effects \subseteq {"blocks", "action", "cleanup"}
    BY DEF SettlementInit
  <2>3. /\ outcome \in {"approved", "rejected", "canceled"} /\ applied \in {"no", "ok", "error"}
        /\ claim \in {"none", "fresh", "stale"} /\ holder \in Workers \cup {None}
        /\ disturbed \in BOOLEAN
    BY DEF SettlementInit
  <2>4. attempts \in Nat /\ deaths \in 0..MaxDeaths
    BY SettlementAssumption DEF SettlementInit
  <2> QED
    BY <2>1, <2>2, <2>3, <2>4 DEF TypeOK
<1>2. Active = {}
  BY DEF SettlementInit, Active, Running
<1> QED
  BY <1>1, <1>2 DEF SettlementInit, SettlementInv, HoldsTheClaim, RunsAccountedFor, DoneSoFar, OkMeansDone

\* A worker that is not among the hooks and only looks.
LEMMA LooksStep == ASSUME NEW w \in Workers, SettlementInv, Load(w) \/ LoadInline(w) PROVE SettlementInv'
<1>1. /\ pc[w] = "idle" /\ pc' = [pc EXCEPT ![w] = "claim"]
      /\ UNCHANGED <<outcome, applied, claim, holder, failed, effects, attempts, deaths, disturbed>>
  BY DEF Load, LoadInline
<1>2. TypeOK'
  BY <1>1 DEF SettlementInv, TypeOK, PC
<1>3. Active' = Active /\ \A v \in Active : pc'[v] = pc[v]
  BY <1>1 DEF SettlementInv, TypeOK, Active, Running
<1> QED
  BY <1>1, <1>2, <1>3
  DEF SettlementInv, HoldsTheClaim, RunsAccountedFor, DoneSoFar, OkMeansDone, Hooks

\* A run begins with the first hook of its outcome.
LEMMA Begins ==
  ASSUME SettlementInv, NEW w \in Workers, pc[w] = "claim", pc' = [pc EXCEPT ![w] = FirstHook],
         UNCHANGED <<outcome, effects, failed>>
  PROVE  /\ pc' \in [Workers -> PC] /\ Active' = Active \cup {w} /\ w \notin Active
         /\ DoneSoFar'
<1>1. FirstHook \in Hooks /\ FirstHook \in {"blocks", "cleanup"}
  BY DEF FirstHook, Hooks
<1>2. pc' \in [Workers -> PC] /\ \A v \in Workers : pc'[v] = IF v = w THEN FirstHook ELSE pc[v]
  BY <1>1 DEF SettlementInv, TypeOK, PC, Running
<1>3. Active' = Active \cup {w} /\ w \notin Active
  BY <1>1, <1>2 DEF Active, Running
<1>4. DoneSoFar'
  BY <1>1, <1>2, <1>3 DEF SettlementInv, DoneSoFar, Hooks, Active
<1> QED
  BY <1>2, <1>3, <1>4

LEMMA ClaimStep == ASSUME NEW w \in Workers, SettlementInv, Claim(w) PROVE SettlementInv'
<1>1. pc[w] = "claim" /\ UNCHANGED <<outcome, applied, failed, effects, deaths, disturbed>>
  BY DEF Claim, TakeClaim
<1>2. CASE applied = "no" /\ claim # "fresh"
  <2>1. /\ claim' = "fresh" /\ holder' = w
        /\ pc' = [pc EXCEPT ![w] = FirstHook] /\ attempts' = attempts + 1
    BY <1>2 DEF Claim, TakeClaim, GoOn
  <2>2. pc' \in [Workers -> PC] /\ Active' = Active \cup {w} /\ w \notin Active /\ DoneSoFar'
    BY <1>1, <2>1, Begins
  <2>3. ~disturbed => Active = {}
    BY <1>2 DEF SettlementInv, HoldsTheClaim
  <2>4. HoldsTheClaim' /\ RunsAccountedFor'
    BY <1>1, <1>2, <2>1, <2>2, <2>3 DEF SettlementInv, TypeOK, HoldsTheClaim, RunsAccountedFor
  <2>5. TypeOK' /\ OkMeansDone'
    BY <1>1, <2>1, <2>2 DEF SettlementInv, TypeOK, OkMeansDone
  <2> QED
    BY <2>2, <2>4, <2>5 DEF SettlementInv
<1>3. CASE ~(applied = "no" /\ claim # "fresh")
  <2>1. pc' = [pc EXCEPT ![w] = "idle"] /\ UNCHANGED <<claim, holder, attempts>>
    BY <1>3 DEF Claim, TakeClaim
  <2>2. TypeOK'
    BY <1>1, <2>1 DEF SettlementInv, TypeOK, PC
  <2>3. Active' = Active /\ \A v \in Active : pc'[v] = pc[v]
    BY <1>1, <2>1 DEF SettlementInv, TypeOK, Active, Running
  <2> QED
    BY <1>1, <2>1, <2>2, <2>3
    DEF SettlementInv, HoldsTheClaim, RunsAccountedFor, DoneSoFar, OkMeansDone, Hooks
<1> QED
  BY <1>2, <1>3

LEMMA ClaimUnavailableStep == ASSUME NEW w \in Workers, SettlementInv, ClaimUnavailable(w) PROVE SettlementInv'
<1>1. /\ pc[w] = "claim" /\ pc' = [pc EXCEPT ![w] = FirstHook] /\ attempts' = attempts + 1
      /\ disturbed' = TRUE
      /\ UNCHANGED <<outcome, applied, claim, holder, failed, effects, deaths>>
  BY DEF ClaimUnavailable, GoOn
<1>2. pc' \in [Workers -> PC] /\ DoneSoFar'
  BY <1>1, Begins
<1> QED
  BY <1>1, <1>2 DEF SettlementInv, TypeOK, HoldsTheClaim, RunsAccountedFor, OkMeansDone

\* A hook, run or failed, is one of its outcome and leads to the next.
LEMMA HookStep ==
  ASSUME NEW w \in Workers, SettlementInv, NEW hook, NEW next, Hook(w, hook, next),
         <<hook, next>> \in {<<"blocks", "action">>, <<"action", "stamp">>, <<"cleanup", "stamp">>}
  PROVE  SettlementInv'
<1>1. /\ pc[w] = hook /\ pc' = [pc EXCEPT ![w] = next]
      /\ UNCHANGED <<outcome, applied, claim, holder, attempts, deaths, disturbed>>
  BY DEF Hook, RunHook, FailHook
<1>2. /\ hook \in Running /\ next \in Running /\ w \in Active
      /\ \/ hook = "blocks" /\ next = "action"
         \/ hook = "action" /\ next = "stamp"
         \/ hook = "cleanup" /\ next = "stamp"
  BY <1>1 DEF Running, Active
<1>3. hook \in Hooks
  BY <1>1, <1>2 DEF SettlementInv, DoneSoFar
<1>4. /\ pc' \in [Workers -> PC] /\ Active' = Active
      /\ \A v \in Workers : pc'[v] = IF v = w THEN next ELSE pc[v]
  BY <1>1, <1>2 DEF SettlementInv, TypeOK, PC, Active
<1>5. \/ effects' = effects \cup {hook} /\ failed' = failed
      \/ effects' = effects /\ failed' = failed \cup {w}
  BY DEF Hook, RunHook, FailHook
<1>6. TypeOK'
  BY <1>1, <1>3, <1>4, <1>5 DEF SettlementInv, TypeOK, Hooks
<1>7. HoldsTheClaim' /\ RunsAccountedFor'
  BY <1>1, <1>4 DEF SettlementInv, HoldsTheClaim, RunsAccountedFor
<1>8. DoneSoFar'
  <2>1. Hooks' = Hooks /\ effects \subseteq effects' /\ effects' \subseteq Hooks
    BY <1>1, <1>3, <1>5 DEF SettlementInv, DoneSoFar, Hooks
  <2>2. ASSUME NEW v \in Active, v # w
        PROVE  /\ pc'[v] \in Hooks \cup {"stamp"}
               /\ v \notin failed' /\ pc'[v] = "action" => "blocks" \in effects'
               /\ v \notin failed' /\ pc'[v] = "stamp" => effects' = Hooks
    <3>1. pc'[v] = pc[v] /\ (v \notin failed' => v \notin failed)
      BY <1>4, <1>5, <2>2 DEF Active
    <3> QED
      BY <2>1, <2>2, <3>1 DEF SettlementInv, DoneSoFar
  <2>3. /\ pc'[w] \in Hooks \cup {"stamp"}
        /\ w \notin failed' /\ pc'[w] = "action" => "blocks" \in effects'
        /\ w \notin failed' /\ pc'[w] = "stamp" => effects' = Hooks
    <3>1. pc'[w] = next /\ (w \notin failed' => w \notin failed /\ effects' = effects \cup {hook})
      BY <1>4, <1>5
    <3>2. CASE hook = "blocks" /\ next = "action"
      BY <1>3, <3>1, <3>2 DEF Hooks
    <3>3. CASE hook = "action" /\ next = "stamp"
      <4>1. Hooks = {"blocks", "action"}
        BY <1>3, <3>3 DEF Hooks
      <4>2. w \notin failed => "blocks" \in effects
        BY <1>1, <1>2, <3>3 DEF SettlementInv, DoneSoFar
      <4> QED
        BY <2>1, <3>1, <3>3, <4>1, <4>2
    <3>4. CASE hook = "cleanup" /\ next = "stamp"
      <4>1. Hooks = {"cleanup"}
        BY <1>3, <3>4 DEF Hooks
      <4> QED
        BY <2>1, <3>1, <3>4, <4>1
    <3> QED
      BY <1>2, <3>2, <3>3, <3>4
  <2> QED
    BY <1>4, <2>1, <2>2, <2>3 DEF DoneSoFar
<1>9. OkMeansDone'
  BY <1>1, <1>3, <1>5 DEF SettlementInv, OkMeansDone, Hooks
<1> QED
  BY <1>6, <1>7, <1>8, <1>9 DEF SettlementInv

LEMMA StampStep == ASSUME NEW w \in Workers, SettlementInv, Stamp(w) PROVE SettlementInv'
<1>1. /\ pc[w] = "stamp" /\ pc' = [pc EXCEPT ![w] = "idle"] /\ failed' = failed \ {w}
      /\ UNCHANGED <<outcome, claim, holder, effects, attempts, deaths, disturbed>>
  BY DEF Stamp
<1>2. /\ applied' \in {"ok", "error"}
      /\ applied' = "ok" => applied = "ok" \/ w \notin failed
  BY DEF Stamp, SettlementInv, TypeOK
<1>3. /\ w \in Active /\ Active' = Active \ {w} /\ pc' \in [Workers -> PC]
      /\ \A v \in Active' : pc'[v] = pc[v]
  BY <1>1 DEF SettlementInv, TypeOK, PC, Active, Running
<1>4. TypeOK'
  BY <1>1, <1>2, <1>3 DEF SettlementInv, TypeOK
<1>5. HoldsTheClaim' /\ RunsAccountedFor'
  BY <1>1, <1>2, <1>3 DEF SettlementInv, HoldsTheClaim, RunsAccountedFor
<1>6. DoneSoFar'
  BY <1>1, <1>3 DEF SettlementInv, DoneSoFar, Hooks
<1>7. OkMeansDone'
  BY <1>1, <1>2, <1>3 DEF SettlementInv, DoneSoFar, OkMeansDone, Hooks
<1> QED
  BY <1>4, <1>5, <1>6, <1>7 DEF SettlementInv

LEMMA DeathStep == ASSUME NEW w \in Workers, SettlementInv, Die(w) PROVE SettlementInv'
<1>1. /\ pc' = [pc EXCEPT ![w] = "idle"] /\ failed' = failed \ {w}
      /\ deaths' = deaths + 1 /\ deaths < MaxDeaths
      /\ UNCHANGED <<outcome, applied, claim, holder, effects, attempts, disturbed>>
  BY DEF Die
<1>2. /\ Active' = Active \ {w} /\ pc' \in [Workers -> PC]
      /\ \A v \in Active' : pc'[v] = pc[v]
  BY <1>1 DEF SettlementInv, TypeOK, PC, Active, Running
<1>3. TypeOK'
  BY <1>1, <1>2, SettlementAssumption DEF SettlementInv, TypeOK
<1>4. HoldsTheClaim' /\ RunsAccountedFor'
  BY <1>1, <1>2 DEF SettlementInv, TypeOK, HoldsTheClaim, RunsAccountedFor
<1>5. DoneSoFar' /\ OkMeansDone'
  BY <1>1, <1>2 DEF SettlementInv, DoneSoFar, OkMeansDone, Hooks
<1> QED
  BY <1>3, <1>4, <1>5 DEF SettlementInv

LEMMA LeaseStep == SettlementInv /\ LeaseExpires => SettlementInv'
<1> SUFFICES ASSUME SettlementInv, LeaseExpires PROVE SettlementInv'
  OBVIOUS
<1>1. /\ claim' = "stale" /\ disturbed' = (disturbed \/ holder \in Active)
      /\ UNCHANGED <<outcome, applied, holder, pc, failed, effects, attempts, deaths>>
  BY DEF LeaseExpires
<1>2. Active' = Active
  BY <1>1 DEF Active
<1>3. ~disturbed' => ~disturbed /\ Active = {}
  BY <1>1 DEF SettlementInv, TypeOK, HoldsTheClaim
<1> QED
  BY <1>1, <1>2, <1>3
  DEF SettlementInv, TypeOK, HoldsTheClaim, RunsAccountedFor, DoneSoFar, OkMeansDone, Hooks

-----------------------------------------------------------------------------
\* Every query of finish, a death and the passing of the lease preserve SettlementInv.
THEOREM SettlementPreserved == SettlementInv /\ [SettlementNext]_settlementVars => SettlementInv'
<1> SUFFICES ASSUME SettlementInv, [SettlementNext]_settlementVars PROVE SettlementInv'
  OBVIOUS
<1>1. ASSUME NEW w \in Workers, Load(w) \/ LoadInline(w) \/ Finish(w) \/ Die(w) PROVE SettlementInv'
  <2>1. CASE Load(w) \/ LoadInline(w)
    BY <2>1, LooksStep
  <2>2. CASE Finish(w)
    BY <2>2, ClaimStep, ClaimUnavailableStep, HookStep, StampStep DEF Finish
  <2>3. CASE Die(w)
    BY <2>3, DeathStep
  <2> QED
    BY <1>1, <2>1, <2>2, <2>3
<1>2. CASE LeaseExpires
  BY <1>2, LeaseStep
<1>3. CASE UNCHANGED settlementVars
  BY <1>3 DEF settlementVars, SettlementInv, TypeOK, Active, HoldsTheClaim, RunsAccountedFor, DoneSoFar,
     OkMeansDone, Hooks
<1> QED
  BY <1>1, <1>2, <1>3 DEF SettlementNext

\* What the claim guarantees whoever runs finish.
THEOREM SettlementInvariance == SettlementSpec => []SettlementInv
<1>1. SettlementInit => SettlementInv
  BY SettlementInitially
<1>2. SettlementInv /\ [SettlementNext]_settlementVars => SettlementInv'
  BY SettlementPreserved
<1> QED
  BY <1>1, <1>2, PTL DEF SettlementSpec

\* The conditional UPDATE of _claim_apply keeps two workers from running the hooks of
\* one request at the same time, while claims are recorded and leases last.
THEOREM HooksNeverOverlap == SettlementSpec => []HooksDoNotOverlap
<1>1. SettlementInv => HooksDoNotOverlap
  BY DEF SettlementInv, HoldsTheClaim, HooksDoNotOverlap
<1> QED
  BY <1>1, SettlementInvariance, PTL

\* Every run of the hooks after the first stands for a worker that died.
THEOREM RerunsAlwaysHaveADeath == SettlementSpec => []RerunsHaveADeath
<1>1. SettlementInv => RerunsHaveADeath
  BY SettlementAssumption DEF SettlementInv, TypeOK, RunsAccountedFor, RerunsHaveADeath
<1> QED
  BY <1>1, SettlementInvariance, PTL

\* finish stamps "ok" over hooks that were all run, whoever ran them.
THEOREM OkAlwaysMeansDone == SettlementSpec => []OkMeansDone
<1>1. SettlementInv => OkMeansDone
  BY DEF SettlementInv
<1> QED
  BY <1>1, SettlementInvariance, PTL

-----------------------------------------------------------------------------
\* DeployApproval.  OutcomeMovesItsOwn is a property of steps: it follows from DeployInv,
\* which says that a deployment waits for a request that can still move it, unless that one
\* was applied early, and that where nobody hurried only one request can move anything.

Inserting == [pc |-> "insert"]
WritingPc == {"steps", "stage"}
WritingRequest == [pc : WritingPc, id : Requests]
Live == Open \cup Unsettled
Waits == Normalize(stage) = "pending_approval"

DeployType ==
  /\ indexed \in BOOLEAN /\ met \in BOOLEAN /\ hurried \in BOOLEAN
  /\ requestStatus \in [Requests -> {"none", "pending"} \cup Outcomes]
  /\ inFlight \in [Submissions -> {NotSubmitting, Inserting} \cup WritingRequest]

\* Only an outcome is applied.
Lives == \A r \in appliedAt : requestStatus[r] \in Outcomes

\* A submission that is not yet complete has a request of its own; if that one has been
\* applied by now, it was early.
OwnRequest ==
  \A c \in Submissions : inFlight[c].pc \in WritingPc =>
    /\ requestStatus[inFlight[c].id] # "none"
    /\ inFlight[c].id \in appliedAt => inFlight[c].id \in early

\* Without the index one submission that looked and found nothing still finds nothing.
LookedUp ==
  ~indexed /\ ~met => \A c \in Submissions : inFlight[c].pc = "insert" =>
    Open = {} /\ \A d \in Submissions : inFlight[d].pc = "insert" => d = c

OneOpen == indexed \/ ~met => \A r, q \in Open : r = q

Orderly == ~hurried /\ (indexed \/ ~met)

OneLive == Orderly => \A r, q \in Live : r = q

DeployInv ==
  DeployType /\ Lives /\ OwnRequest /\ LookedUp /\ OneOpen /\ OneLive /\ WaitingHasARequest

-----------------------------------------------------------------------------
\* Stages as they are written now are read as they are.
LEMMA StageNames ==
  /\ \A s \in Stages : Normalize(s) = s
  /\ \A s \in {"approved", "rejected", "canceled"} : Reached[s] \in Stages \ {"pending_approval"}
BY DEF Normalize, Stages, Aliases, Reached

\* A deployment waits for an approval or is open.
LEMMA DeployStages ==
  ASSUME NEW required \in BOOLEAN
  PROVE  OnUserDeploy(stage, required) \in {"pending_approval", "deployed"}
BY DEF OnUserDeploy

\* An outcome leaves no deployment waiting, and moves none that does not wait.
LEMMA OutcomeStages ==
  ASSUME NEW verdict \in Outcomes
  PROVE  /\ Normalize(OnApproval(stage, verdict)) # "pending_approval"
         /\ ~Waits => OnApproval(stage, verdict) = stage
<1>1. Reached[verdict] \in Stages /\ Reached[verdict] # "pending_approval"
  BY StageNames DEF Outcomes
<1>2. Normalize(Reached[verdict]) # "pending_approval"
  BY <1>1, StageNames
<1> QED
  BY <1>2 DEF OnApproval, Waits

\* A workflow nobody waits for, or one that waits for its first request, is a good start.
THEOREM DeployInitially == DeployInit => DeployInv
<1> SUFFICES ASSUME DeployInit PROVE DeployInv
  OBVIOUS
<1>1. /\ inFlight = [c \in Submissions |-> NotSubmitting] /\ appliedAt = {}
      /\ ~met /\ ~hurried
  BY DEF DeployInit
<1>2. OwnRequest /\ LookedUp /\ Lives
  BY <1>1 DEF OwnRequest, LookedUp, Lives, NotSubmitting, WritingPc
<1>3. DeployType
  BY DEF DeployInit, DeployType
<1>4. CASE requestStatus = [r \in Requests |-> "none"]
           /\ stage \in {"idle", "revoked", "rejected_admin", "garbage"}
  <2>1. Open = {} /\ Unsettled = {}
    BY <1>4 DEF Open, Unsettled, Outcomes
  <2>2. OneOpen /\ OneLive
    BY <2>1 DEF OneOpen, OneLive, Live
  <2>3. Normalize(stage) # "pending_approval"
    BY <1>4 DEF Normalize, Stages, Aliases
  <2> QED
    BY <1>2, <1>3, <2>2, <2>3 DEF DeployInv, WaitingHasARequest
<1>5. CASE /\ requestStatus = [r \in Requests |-> IF r = 1 THEN "pending" ELSE "none"]
           /\ waitingFor = 1
  <2>1. 1 \in Requests
    BY DeployAssumption DEF Requests
  <2>2. Open = {1} /\ Unsettled = {}
    BY <1>5, <2>1 DEF Open, Unsettled, Outcomes
  <2>3. OneOpen /\ OneLive /\ WaitingHasARequest
    BY <1>5, <2>2 DEF OneOpen, OneLive, WaitingHasARequest, Live
  <2> QED
    BY <1>2, <1>3, <2>3 DEF DeployInv
<1> QED
  BY <1>4, <1>5 DEF DeployInit

-----------------------------------------------------------------------------
\* A step that changes no request and adds no submission, and after which a
\* deployment waits only if it did before.
LEMMA StageOnly ==
  ASSUME DeployInv, UNCHANGED <<indexed, requestStatus, appliedAt, met, hurried, early>>,
         inFlight' \in [Submissions -> {NotSubmitting, Inserting} \cup WritingRequest],
         \A c \in Submissions : inFlight'[c] = inFlight[c] \/ inFlight'[c] = NotSubmitting,
         Waits' => Waits /\ waitingFor' = waitingFor
  PROVE  DeployInv'
<1>1. DeployType' /\ Lives'
  BY DEF DeployInv, DeployType, Lives
<1>2. OwnRequest'
  BY DEF DeployInv, OwnRequest, NotSubmitting, WritingPc
<1>3. LookedUp' /\ OneOpen' /\ OneLive'
  BY DEF DeployInv, LookedUp, OneOpen, OneLive, Orderly, Live, Open, Unsettled, NotSubmitting
<1>4. WaitingHasARequest'
  BY DEF DeployInv, WaitingHasARequest, Open, Unsettled, Waits
<1> QED
  BY <1>1, <1>2, <1>3, <1>4 DEF DeployInv

LEMMA SubmissionsTyped ==
  DeployInv => inFlight \in [Submissions -> {NotSubmitting, Inserting} \cup WritingRequest]
BY DEF DeployInv, DeployType

\* A submission that writes has a request, and the other ones have none.
LEMMA WritersTyped ==
  ASSUME DeployInv, NEW c \in Submissions, inFlight[c].pc \in WritingPc
  PROVE  inFlight[c] \in WritingRequest /\ inFlight[c].id \in Requests
BY SubmissionsTyped DEF NotSubmitting, Inserting, WritingRequest, WritingPc

LEMMA DeployFreeStep ==
  ASSUME NEW required \in BOOLEAN, DeployInv, DeployFree(required) PROVE DeployInv'
<1>1. ~Waits'
  BY StageNames DEF DeployFree, Waits, Stages
<1> QED
  BY <1>1, SubmissionsTyped, StageOnly DEF DeployFree

LEMMA SwitchOffStep == DeployInv /\ SwitchOff => DeployInv'
<1>1. SwitchOff => ~Waits'
  BY StageNames DEF SwitchOff, Waits, Stages
<1> QED
  BY <1>1, SubmissionsTyped, StageOnly DEF SwitchOff

LEMMA RevokeStep == DeployInv /\ Revoke => DeployInv'
<1>1. Revoke => ~Waits'
  BY StageNames DEF Revoke, Waits, Stages
<1> QED
  BY <1>1, SubmissionsTyped, StageOnly DEF Revoke, deployHistory

LEMMA DieStep == ASSUME NEW c \in Submissions, DeployInv, SubmitDies(c) PROVE DeployInv'
<1>1. inFlight' = [inFlight EXCEPT ![c] = NotSubmitting]
  BY DEF SubmitDies
<1>2. /\ inFlight' \in [Submissions -> {NotSubmitting, Inserting} \cup WritingRequest]
      /\ \A d \in Submissions : inFlight'[d] = inFlight[d] \/ inFlight'[d] = NotSubmitting
  BY <1>1, SubmissionsTyped
<1> QED
  BY <1>2, StageOnly DEF SubmitDies, deployHistory, Waits

LEMMA DeployStep == ASSUME NEW c \in Submissions, DeployInv, Deploy(c) PROVE DeployInv'
<1>1. /\ inFlight[c] = NotSubmitting /\ Open = {}
      /\ inFlight' = [inFlight EXCEPT ![c] = Inserting]
      /\ met' = (met \/ \E d \in Submissions : inFlight[d].pc = "insert")
      /\ UNCHANGED <<stage, indexed, requestStatus, appliedAt, waitingFor, hurried, early>>
  BY DEF Deploy, FindPending, Inserting
<1>2. DeployType' /\ Lives'
  BY <1>1 DEF DeployInv, DeployType, Lives
<1>3. \A d \in Submissions : inFlight'[d] = IF d = c THEN Inserting ELSE inFlight[d]
  BY <1>1, SubmissionsTyped
<1>4. OwnRequest'
  BY <1>1, <1>3 DEF DeployInv, OwnRequest, Inserting, WritingPc
<1>5. LookedUp'
  <2>1. ~met' => \A d \in Submissions : inFlight[d].pc # "insert"
    BY <1>1
  <2>2. Open' = {}
    BY <1>1 DEF Open
  <2> QED
    BY <1>3, <2>1, <2>2 DEF LookedUp
<1>6. Open' = Open /\ Live' = Live /\ Unsettled' = Unsettled
  BY <1>1 DEF Open, Unsettled, Live
<1>7. Orderly' => Orderly
  BY <1>1 DEF Orderly, DeployInv, DeployType
<1>8. OneOpen' /\ OneLive' /\ WaitingHasARequest'
  BY <1>1, <1>6, <1>7 DEF DeployInv, OneOpen, OneLive, WaitingHasARequest
<1> QED
  BY <1>2, <1>4, <1>5, <1>8 DEF DeployInv

LEMMA SubmitInsertStep ==
  ASSUME NEW c \in Submissions, DeployInv, SubmitInsert(c) PROVE DeployInv'
<1>1. /\ inFlight[c].pc = "insert"
      /\ UNCHANGED <<stage, indexed, appliedAt, waitingFor, met, early>>
  BY DEF SubmitInsert
<1>2. CASE inFlight' = [inFlight EXCEPT ![c] = NotSubmitting]
           /\ UNCHANGED <<requestStatus, hurried>>
  <2>1. /\ inFlight' \in [Submissions -> {NotSubmitting, Inserting} \cup WritingRequest]
        /\ \A d \in Submissions : inFlight'[d] = inFlight[d] \/ inFlight'[d] = NotSubmitting
    BY <1>2, SubmissionsTyped
  <2> QED
    BY <1>1, <1>2, <2>1, StageOnly DEF Waits
<1>3. ASSUME ~(indexed /\ Open # {}), NEW r \in Fresh,
             requestStatus' = [requestStatus EXCEPT ![r] = "pending"],
             inFlight' = [inFlight EXCEPT ![c] = [pc |-> "steps", id |-> r]],
             hurried' = (hurried \/ Unsettled # {})
      PROVE  DeployInv'
  <2>1. r \in Requests /\ requestStatus[r] = "none"
    BY <1>3 DEF Fresh
  <2>2. \A q \in Requests : requestStatus'[q] = IF q = r THEN "pending" ELSE requestStatus[q]
    BY <1>3, <2>1 DEF DeployInv, DeployType
  <2>3. \A d \in Submissions :
          inFlight'[d] = IF d = c THEN [pc |-> "steps", id |-> r] ELSE inFlight[d]
    BY <1>3, SubmissionsTyped
  <2>4. DeployType'
    BY <1>1, <1>3, <2>1 DEF DeployInv, DeployType, WritingRequest, WritingPc
  <2>5. r \notin appliedAt
    BY <2>1 DEF DeployInv, Lives, Outcomes
  <2>6. Open' = Open \cup {r} /\ Unsettled' = Unsettled
    BY <1>1, <2>1, <2>2, <2>5 DEF Open, Unsettled, Outcomes
  <2>7. Lives'
    BY <1>1, <1>3, <2>1, <2>5 DEF DeployInv, DeployType, Lives
  <2>8. OwnRequest'
    <3> SUFFICES ASSUME NEW d \in Submissions, inFlight'[d].pc \in WritingPc
                 PROVE  /\ requestStatus'[inFlight'[d].id] # "none"
                        /\ inFlight'[d].id \in appliedAt => inFlight'[d].id \in early
      BY <1>1 DEF OwnRequest
    <3>1. CASE d = c
      BY <2>1, <2>2, <2>3, <2>5, <3>1
    <3>2. CASE d # c
      BY <2>2, <2>3, <3>2, WritersTyped DEF DeployInv, OwnRequest
    <3> QED
      BY <3>1, <3>2
  <2>9. indexed \/ ~met => Open = {}
    BY <1>1, <1>3 DEF DeployInv, DeployType, LookedUp
  <2>10. LookedUp'
    BY <1>1, <2>3 DEF DeployInv, LookedUp
  <2>11. OneOpen'
    BY <1>1, <2>6, <2>9 DEF OneOpen
  <2>12. Orderly' => Live = {}
    BY <1>1, <1>3, <2>9 DEF Orderly, Live, DeployInv, DeployType
  <2>13. OneLive' /\ WaitingHasARequest'
    BY <1>1, <2>6, <2>12 DEF DeployInv, OneLive, Live, WaitingHasARequest
  <2> QED
    BY <2>4, <2>7, <2>8, <2>10, <2>11, <2>13 DEF DeployInv
<1> QED
  BY <1>2, <1>3 DEF SubmitInsert

LEMMA SubmitStepsStep ==
  ASSUME NEW c \in Submissions, DeployInv, SubmitSteps(c) PROVE DeployInv'
<1>1. /\ inFlight[c].pc = "steps" /\ inFlight' = [inFlight EXCEPT ![c].pc = "stage"]
      /\ UNCHANGED <<stage, indexed, requestStatus, appliedAt, waitingFor, met, hurried, early>>
  BY DEF SubmitSteps, deployHistory
<1>2. inFlight[c] \in WritingRequest
  BY <1>1, WritersTyped DEF WritingPc
<1>3. /\ inFlight' \in [Submissions -> {NotSubmitting, Inserting} \cup WritingRequest]
      /\ \A d \in Submissions :
           inFlight'[d] = IF d = c THEN [pc |-> "stage", id |-> inFlight[c].id] ELSE inFlight[d]
  BY <1>1, <1>2, SubmissionsTyped DEF WritingRequest, WritingPc
<1>4. DeployType' /\ Lives'
  BY <1>1, <1>3 DEF DeployInv, DeployType, Lives
<1>5. OwnRequest'
  BY <1>1, <1>3 DEF DeployInv, OwnRequest, WritingPc
<1>6. Open' = Open /\ Unsettled' = Unsettled /\ Live' = Live
  BY <1>1 DEF Open, Unsettled, Live
<1>7. LookedUp' /\ OneOpen' /\ OneLive' /\ WaitingHasARequest'
  BY <1>1, <1>3, <1>6
  DEF DeployInv, LookedUp, OneOpen, OneLive, Orderly, WaitingHasARequest
<1> QED
  BY <1>4, <1>5, <1>7 DEF DeployInv

LEMMA OwnerWritesStep ==
  ASSUME NEW c \in Submissions, DeployInv, OwnerWrites(c) PROVE DeployInv'
<1> DEFINE r == inFlight[c].id
<1>1. /\ inFlight[c].pc = "stage"
      /\ stage' \in {"pending_approval", OnUserDeploy(stage, TRUE)}
      /\ waitingFor' = IF stage' = "pending_approval" THEN r ELSE NoRequest
      /\ inFlight' = [inFlight EXCEPT ![c] = NotSubmitting]
      /\ UNCHANGED <<indexed, requestStatus, appliedAt, met, hurried, early>>
  BY DEF OwnerWrites
<1>2. r \in Requests
  BY <1>1, WritersTyped DEF WritingPc
<1>3. r \in Open \cup Unsettled \cup early
  BY <1>1, <1>2 DEF DeployInv, DeployType, OwnRequest, WritingPc, Open, Unsettled
<1>4. \A d \in Submissions : inFlight'[d] = IF d = c THEN NotSubmitting ELSE inFlight[d]
  BY <1>1, SubmissionsTyped
<1>5. DeployType' /\ Lives'
  BY <1>1 DEF DeployInv, DeployType, Lives
<1>6. OwnRequest'
  BY <1>1, <1>4 DEF DeployInv, OwnRequest, NotSubmitting, WritingPc
<1>7. Open' = Open /\ Unsettled' = Unsettled /\ Live' = Live
  BY <1>1 DEF Open, Unsettled, Live
<1>8. LookedUp' /\ OneOpen' /\ OneLive'
  BY <1>1, <1>4, <1>7 DEF DeployInv, LookedUp, OneOpen, OneLive, Orderly, NotSubmitting
<1>9. Normalize(stage') = "pending_approval" => stage' = "pending_approval"
  BY <1>1, DeployStages, StageNames DEF Stages
<1>10. WaitingHasARequest'
  <2> HIDE DEF r
  <2> QED
    BY <1>1, <1>3, <1>7, <1>9 DEF WaitingHasARequest
<1> QED
  BY <1>5, <1>6, <1>8, <1>10 DEF DeployInv

\* A request that is closed, by its line or by a withdrawal, can still move the stage.
LEMMA ClosedStep ==
  ASSUME NEW r \in Requests, NEW verdict \in Outcomes, DeployInv, requestStatus[r] = "pending",
         requestStatus' = [requestStatus EXCEPT ![r] = verdict],
         UNCHANGED <<stage, indexed, appliedAt, inFlight, waitingFor, met, hurried, early>>
  PROVE  DeployInv'
<1>1. \A q \in Requests : requestStatus'[q] = IF q = r THEN verdict ELSE requestStatus[q]
  BY DEF DeployInv, DeployType
<1>2. r \notin appliedAt
  BY DEF DeployInv, Lives, Outcomes
<1>3. Open' = Open \ {r} /\ Unsettled' = Unsettled \cup {r} /\ Live' = Live /\ r \in Open
  BY <1>1, <1>2 DEF Open, Unsettled, Live, Outcomes
<1>4. DeployType' /\ Lives'
  BY <1>2 DEF DeployInv, DeployType, Lives
<1>5. OwnRequest'
  <2>1. verdict # "none"
    BY DEF Outcomes
  <2> QED
    BY <1>1, <2>1, WritersTyped DEF DeployInv, OwnRequest
<1>6. LookedUp' /\ OneOpen' /\ OneLive'
  BY <1>3 DEF DeployInv, LookedUp, OneOpen, OneLive, Orderly
<1>7. WaitingHasARequest'
  BY <1>3 DEF DeployInv, WaitingHasARequest
<1> QED
  BY <1>4, <1>5, <1>6, <1>7 DEF DeployInv

LEMMA DecidedStep ==
  ASSUME NEW r \in Requests, NEW verdict \in {"approved", "rejected"}, DeployInv,
         LineDecides(r, verdict)
  PROVE  DeployInv'
BY ClosedStep DEF LineDecides, deployHistory, Outcomes

LEMMA WithdrawDeployStep ==
  ASSUME NEW r \in Requests, DeployInv, WithdrawRequest(r) PROVE DeployInv'
BY ClosedStep DEF WithdrawRequest, deployHistory, Outcomes

LEMMA SettleStep == ASSUME NEW r \in Requests, DeployInv, Settle(r) PROVE DeployInv'
<1>1. /\ r \in Unsettled /\ stage' = OnApproval(stage, requestStatus[r])
      /\ appliedAt' = appliedAt \cup {r}
      /\ early' = IF Submitting(r) THEN early \cup {r} ELSE early
      /\ UNCHANGED <<indexed, requestStatus, inFlight, waitingFor, met, hurried>>
  BY DEF Settle
<1>2. requestStatus[r] \in Outcomes
  BY <1>1 DEF Unsettled
<1>3. Normalize(stage') # "pending_approval"
  BY <1>1, <1>2, OutcomeStages
<1>4. Open' = Open /\ Live' \subseteq Live
  BY <1>1 DEF Open, Unsettled, Live
<1>5. DeployType' /\ Lives'
  BY <1>1, <1>2 DEF DeployInv, DeployType, Lives
<1>6. OwnRequest'
  BY <1>1 DEF DeployInv, OwnRequest, Submitting, WritingPc
<1>7. LookedUp' /\ OneOpen' /\ OneLive'
  BY <1>1, <1>4 DEF DeployInv, LookedUp, OneOpen, OneLive, Orderly
<1> QED
  BY <1>3, <1>5, <1>6, <1>7 DEF DeployInv, WaitingHasARequest

-----------------------------------------------------------------------------
\* Every step of a submission, a decision, a withdrawal or a hook preserves DeployInv.
THEOREM DeployPreserved == DeployInv /\ [DeployNext]_deployVars => DeployInv'
<1> SUFFICES ASSUME DeployInv, [DeployNext]_deployVars PROVE DeployInv'
  OBVIOUS
<1>1. CASE \E required \in BOOLEAN : DeployFree(required)
  BY <1>1, DeployFreeStep
<1>2. CASE \E c \in Submissions :
             \/ Deploy(c) \/ SubmitInsert(c) \/ SubmitSteps(c) \/ OwnerWrites(c) \/ SubmitDies(c)
  BY <1>2, DeployStep, SubmitInsertStep, SubmitStepsStep, OwnerWritesStep, DieStep
<1>3. CASE SwitchOff \/ Revoke
  BY <1>3, SwitchOffStep, RevokeStep
<1>4. ASSUME NEW r \in Requests,
             \/ \E verdict \in {"approved", "rejected"} : LineDecides(r, verdict)
             \/ WithdrawRequest(r) \/ Settle(r)
      PROVE  DeployInv'
  BY <1>4, DecidedStep, WithdrawDeployStep, SettleStep
<1>5. CASE UNCHANGED deployVars
  BY <1>5, SubmissionsTyped, StageOnly DEF deployVars, deployHistory, Waits
<1> QED
  BY <1>1, <1>2, <1>3, <1>4, <1>5 DEF DeployNext

\* What holds of one target's requests and of the stage that waits for one of them.
THEOREM DeployInvariance == DeploySpec => []DeployInv
<1>1. DeployInit => DeployInv
  BY DeployInitially
<1>2. DeployInv /\ [DeployNext]_deployVars => DeployInv'
  BY DeployPreserved
<1> QED
  BY <1>1, <1>2, PTL DEF DeploySpec

\* submit keeps a target to one open request, with the index of models.py or, where
\* no two submissions meet, by looking first.
THEOREM OneOpenRequestAlways == DeploySpec => []OneOpenRequest
<1>1. ASSUME DeployInv PROVE OneOpenRequest
  <2>1. ASSUME \A r, q \in Open : r = q PROVE Cardinality(Open) <= 1
    <3>1. CASE Open = {}
      BY <3>1, FS_EmptySet
    <3>2. CASE Open # {}
      <4>1. PICK r \in Open : TRUE
        BY <3>2
      <4>2. Open = {r}
        BY <2>1, <4>1
      <4> QED
        BY <4>2, FS_Singleton
    <3> QED
      BY <3>1, <3>2
  <2> QED
    BY <1>1, <2>1 DEF DeployInv, OneOpen, OneOpenRequest
<1> QED
  BY <1>1, DeployInvariance, PTL

\* A deployment never waits for a request that is over, but for one whose outcome was
\* applied before the owner wrote the stage.
THEOREM WaitingAlwaysHasARequest == DeploySpec => []WaitingHasARequest
<1>1. DeployInv => WaitingHasARequest
  BY DEF DeployInv
<1> QED
  BY <1>1, DeployInvariance, PTL

\* next_stage_on_approval moves the deployment that waits for this very request, as
\* long as outcomes are applied before the owner submits again and after he wrote the stage.
THEOREM OutcomeAlwaysMovesItsOwn == DeploySpec => OutcomeMovesItsOwn
<1> DEFINE MovesItsOwn ==
      \A r \in Requests :
        r \in appliedAt' \ appliedAt /\ ~hurried /\ waitingFor \notin early
            /\ (indexed \/ ~met) /\ Normalize(stage') # Normalize(stage)
          => r = waitingFor
<1>1. DeployInv /\ [DeployNext]_deployVars => [MovesItsOwn]_deployVars
  <2> SUFFICES ASSUME DeployInv, [DeployNext]_deployVars, NEW r \in Requests,
                      r \in appliedAt' \ appliedAt, Orderly, waitingFor \notin early,
                      Normalize(stage') # Normalize(stage)
               PROVE  r = waitingFor
    BY DEF Orderly
  <2>1. PICK q \in Requests : Settle(q)
    BY DEF DeployNext, deployVars, deployHistory, DeployFree, Deploy, SubmitInsert, SubmitSteps,
       OwnerWrites, SubmitDies, SwitchOff, Revoke, LineDecides, WithdrawRequest
  <2>2. /\ q = r /\ r \in Live /\ requestStatus[r] \in Outcomes
        /\ stage' = OnApproval(stage, requestStatus[r])
    BY <2>1 DEF Settle, Live, Unsettled
  <2>3. Waits
    BY <2>2, OutcomeStages
  <2>4. waitingFor \in Live
    BY <2>3 DEF DeployInv, WaitingHasARequest, Waits, Live
  <2> QED
    BY <2>2, <2>4 DEF DeployInv, OneLive
<1> QED
  BY <1>1, DeployInvariance, PTL DEF DeploySpec, OutcomeMovesItsOwn

\* The flags written for older readers, read back, put a deployment in its group,
\* whatever is stored.
THEOREM FlagsAlwaysKeepTheGroup == DeploySpec => []FlagsKeepTheGroup
<1>1. FlagsKeepTheGroup
  <2>1. \A s \in Stages : Group(s) = CASE s = "deployed" -> "deployed"
                                      [] s = "pending_approval" -> "pending"
                                      [] OTHER -> "not_deployed"
    BY StageNames DEF Group
  <2>2. CASE Normalize(stage) = "deployed"
    BY <2>1, <2>2 DEF FlagsKeepTheGroup, Flags, Infer, Group, Stages
  <2>3. CASE Normalize(stage) = "pending_approval"
    BY <2>1, <2>3 DEF FlagsKeepTheGroup, Flags, Infer, Group, Stages
  <2>4. CASE Normalize(stage) \notin {"deployed", "pending_approval"}
    BY <2>1, <2>4 DEF FlagsKeepTheGroup, Flags, Infer, Group, Stages
  <2> QED
    BY <2>2, <2>3, <2>4
<1> QED
  BY <1>1, PTL

=============================================================================

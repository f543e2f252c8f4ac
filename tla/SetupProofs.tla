----------------------------- MODULE SetupProofs -----------------------------
(***************************************************************************)
(* Proofs about Setup: that the workflow made for a plan is attached to    *)
(* it, that an update changes the fields it names and no other, that the   *)
(* rows of a target are those of one save, that an import creates what it  *)
(* has found, once, and what the variables hold (last).                    *)
(*                                                                         *)
(* An update is a read of the whole row and a write of it.  As long as no  *)
(* other update of the plan lies between, the row held is the plan's own   *)
(* with the update applied (UpdateInv): that gives the second theorem, and *)
(* for the first that a client's update leaves the workflow alone.  The    *)
(* rest follows the request that found the plan without a workflow: it is  *)
(* the only one (HealInv), all workflows made for the plan are the one it  *)
(* has in hand, and it writes that one.  Most steps replace rows or judge  *)
(* records and take no plan in hand: Quiet covers them.                    *)
(*                                                                         *)
(* A save of rows is counted by the identifiers at its target: there are   *)
(* as many as it has written, none of those it has still to write, and it  *)
(* is the only one (RowsInv).  An import is past the findings whose        *)
(* records it created, and its list has each of them once (ImportInv).     *)
(* Both rest on what a list made from a function holds (ListedOnce).  The  *)
(* types add to the three that every row and every list in hand is of a    *)
(* target that exists (RowTypes).                                          *)
(***************************************************************************)
EXTENDS Setup, TLAPS, FiniteSetTheorems, WellFoundedInduction

-----------------------------------------------------------------------------
(* The invariant.  What it says of a slot depends on the numbers of plans   *)
(* and workflows only.                                                      *)

AllFields == PlanFields \cup {"workflow_type"}
FieldValues == {Missing, "given"} \cup PlanTypes \cup Nat
                 \cup UNION {{u[f] : f \in DOMAIN u} : u \in Patches}
PlanRow == [AllFields -> FieldValues]

SlotOK(t, n) ==
    /\ t.pc \in {"free", "ensure", "attach", "act", "update", "replace", "write", "select"}
    /\ t.pc \in {"ensure", "attach", "act", "update"} => t.plan \in 1..n /\ t.row \in PlanRow
    /\ t.pc = "update" =>
         /\ \A f \in DOMAIN t.updates : t.updates[f] \in FieldValues
         /\ t.then.pc \in {"free", "act"}
         /\ t.then.pc = "act" => t.then.plan \in 1..n /\ t.then.row \in PlanRow
    /\ t.pc \in {"replace", "write"} =>
         /\ t.then.pc \in {"free", "attach"}
         /\ t.then.pc = "attach" => t.then.plan \in 1..n /\ t.then.row \in PlanRow
    /\ t.pc = "write" => DOMAIN t = {"pc", "target", "todo", "save", "of", "then"}
    /\ t.pc = "select" => DOMAIN t = {"pc", "goal", "commit", "rules", "findings", "at", "todo"}

SetupTypeInv ==
    /\ plans \in Seq(PlanRow)
    /\ workflows \in Seq(0..Len(plans))
    /\ DOMAIN serving = SetupSlots
    /\ \A w \in SetupSlots : SlotOK(serving[w], Len(plans))

(* An update that overlaps with no other of its plan holds the plan as it   *)
(* is, changed where it names a field; one that names the workflow is the   *)
(* engine's, or the plan is exempt.                                         *)
UpdateInv ==
    \A w \in SetupSlots : serving[w].pc = "update" =>
        /\ serving[w].plan \notin overlaid =>
             /\ \A v \in SetupSlots :
                  serving[v].pc = "update" /\ serving[v].plan = serving[w].plan => v = w
             /\ serving[w].row = Updated(plans[serving[w].plan], serving[w].updates)
        /\ serving[w].plan \notin doubled /\ "workflow_id" \in DOMAIN serving[w].updates =>
             serving[w].then.pc = "act"

(* The workflow that a row points at, if any, is one of the n there are.    *)
Points(row, n) == row.workflow_id = Missing \/ row.workflow_id \in 1..n
Aims(t, n) ==
    /\ t.pc \in {"replace", "write"} /\ t.then.pc = "attach" => t.then.row.workflow_id \in 1..n
    /\ t.pc = "attach" => t.row.workflow_id \in 1..n
PointsInv ==
    /\ \A p \in 1..Len(plans) : p \notin doubled => Points(plans[p], Len(workflows))
    /\ \A w \in SetupSlots :
         /\ serving[w].pc \in {"ensure", "update"} /\ serving[w].plan \notin doubled =>
              Points(serving[w].row, Len(workflows))
         /\ Aims(serving[w], Len(workflows))

(* A slot is giving plan p a workflow; the one it has made is k.            *)
Heals(t, p, n) ==
    \/ t.pc = "ensure" /\ t.plan = p /\ t.row.workflow_id \notin 1..n
    \/ t.pc \in {"replace", "write"} /\ t.then.pc = "attach" /\ t.then.plan = p
    \/ t.pc = "attach" /\ t.plan = p
    \/ t.pc = "update" /\ t.plan = p /\ t.then.pc = "act"
HasMade(t, k) ==
    \/ t.pc \in {"replace", "write"} /\ t.then.row.workflow_id = k
    \/ t.pc \in {"attach", "update"} /\ t.row.workflow_id = k

(* One request at a time gives a plan a workflow, and the plan's workflow   *)
(* is the one that request has made until the plan has it.                  *)
HealInv ==
    /\ \A p \in 1..Len(plans) : p \notin doubled =>
         \A v, w \in SetupSlots :
           Heals(serving[v], p, Len(workflows)) /\ Heals(serving[w], p, Len(workflows)) => v = w
    /\ \A k \in 1..Len(workflows) : workflows[k] # 0 /\ workflows[k] \notin doubled \cup overlaid =>
         /\ \A w \in SetupSlots :
              Heals(serving[w], workflows[k], Len(workflows)) => HasMade(serving[w], k)
         /\ \/ plans[workflows[k]].workflow_id = k
            \/ \E w \in SetupSlots : Heals(serving[w], workflows[k], Len(workflows))

PlanInv == SetupTypeInv /\ UpdateInv /\ PointsInv /\ HealInv

-----------------------------------------------------------------------------
(* What holds of a slot, of a row, holds when there are more plans and      *)
(* workflows.                                                               *)
LEMMA More ==
    ASSUME NEW t, NEW n \in Nat, NEW m \in Nat, n <= m
    PROVE  /\ SlotOK(t, n) => SlotOK(t, m)
           /\ Points(t, n) => Points(t, m)
           /\ Aims(t, n) => Aims(t, m)
           /\ \A p : Heals(t, p, m) => Heals(t, p, n)
           /\ \A p, k : Heals(t, p, n) /\ HasMade(t, k) => Heals(t, p, m)
<1>1. \A i : i \in 1..n => i \in 1..m
  OBVIOUS
<1>2. SlotOK(t, n) => SlotOK(t, m)
  BY <1>1 DEF SlotOK
<1>3. Points(t, n) => Points(t, m)
  BY <1>1 DEF Points
<1>4. Aims(t, n) => Aims(t, m)
  BY <1>1 DEF Aims
<1>5. \A p : Heals(t, p, m) => Heals(t, p, n)
  BY <1>1 DEF Heals
<1>6. \A p, k : Heals(t, p, n) /\ HasMade(t, k) => Heals(t, p, m)
  BY <1>1 DEF Heals, HasMade
<1> QED BY <1>2, <1>3, <1>4, <1>5, <1>6

(* A row that an update gives is a row.                                     *)
LEMMA UpdatedRow ==
    ASSUME NEW row \in PlanRow, NEW u, \A f \in DOMAIN u : u[f] \in FieldValues
    PROVE  /\ Updated(row, u) \in PlanRow
           /\ \A f \in AllFields :
                Updated(row, u)[f] = IF f \in DOMAIN u THEN u[f] ELSE row[f]
<1>1. DOMAIN row = AllFields /\ \A f \in AllFields : row[f] \in FieldValues
  BY DEF PlanRow
<1>2. Updated(row, u) = [f \in AllFields |-> IF f \in DOMAIN u THEN u[f] ELSE row[f]]
  BY <1>1 DEF Updated
<1>3. \A f \in AllFields : (IF f \in DOMAIN u THEN u[f] ELSE row[f]) \in FieldValues
  BY <1>1
<1> HIDE DEF PlanRow, FieldValues
<1>4. [f \in AllFields |-> IF f \in DOMAIN u THEN u[f] ELSE row[f]] \in PlanRow
  BY <1>3 DEF PlanRow
<1> QED BY <1>2, <1>4

(* The types after a step that gives a slot another request.                *)
LEMMA SlotTypes ==
    ASSUME SetupTypeInv, NEW w \in SetupSlots, NEW t, serving' = [serving EXCEPT ![w] = t],
           plans' \in Seq(PlanRow), Len(plans) <= Len(plans'),
           workflows' \in Seq(0..Len(plans')), SlotOK(t, Len(plans'))
    PROVE  /\ SetupTypeInv'
           /\ serving'[w] = t
           /\ \A v \in SetupSlots : v # w => serving'[v] = serving[v]
<1>1. serving'[w] = t /\ DOMAIN serving' = SetupSlots
  BY DEF SetupTypeInv
<1>2. \A v \in SetupSlots : v # w => serving'[v] = serving[v]
  BY DEF SetupTypeInv
<1>3. Len(plans) \in Nat /\ Len(plans') \in Nat
  BY DEF SetupTypeInv
<1>4. \A v \in SetupSlots : SlotOK(serving'[v], Len(plans'))
  <2> SUFFICES ASSUME NEW v \in SetupSlots PROVE SlotOK(serving'[v], Len(plans'))
    OBVIOUS
  <2>1. CASE v = w
    BY <2>1, <1>1
  <2>2. CASE v # w
    <3>1. PICK s : s = serving[v]
      OBVIOUS
    <3>2. SlotOK(s, Len(plans))
      BY <3>1 DEF SetupTypeInv
    <3>3. SlotOK(s, Len(plans'))
      BY <3>2, <1>3, More
    <3> QED BY <3>1, <3>3, <2>2, <1>2
  <2> QED BY <2>1, <2>2
<1>5. SetupTypeInv'
  BY <1>1, <1>4 DEF SetupTypeInv
<1> QED BY <1>1, <1>2, <1>5

(* A step of a request that neither reads a plan nor writes one, and leaves *)
(* what the request has in hand for a plan as it is.                        *)
LEMMA Quiet ==
    ASSUME PlanInv, NEW w \in SetupSlots, NEW t, serving' = [serving EXCEPT ![w] = t],
           UNCHANGED <<plans, workflows, overlaid, doubled>>,
           serving[w].pc # "update", t.pc \notin {"ensure", "update"},
           SlotOK(t, Len(plans)), Aims(t, Len(workflows)),
           \A p : Heals(t, p, Len(workflows)) <=> Heals(serving[w], p, Len(workflows)),
           \A p, k : Heals(t, p, Len(workflows)) /\ HasMade(serving[w], k) => HasMade(t, k)
    PROVE  PlanInv'
<1> DEFINE n == Len(plans)
           m == Len(workflows)
<1> SetupTypeInv /\ UpdateInv /\ PointsInv /\ HealInv
  BY DEF PlanInv
<1>0. plans' = plans /\ workflows' = workflows /\ overlaid' = overlaid /\ doubled' = doubled
  OBVIOUS
<1>1. SetupTypeInv' /\ serving'[w] = t /\ \A v \in SetupSlots : v # w => serving'[v] = serving[v]
  <2>1. n <= n /\ plans' \in Seq(PlanRow) /\ workflows' \in Seq(0..Len(plans')) /\ SlotOK(t, Len(plans'))
    BY <1>0 DEF SetupTypeInv
  <2> QED BY <2>1, <1>0, SlotTypes
<1>2. UpdateInv'
  BY <1>0, <1>1 DEF UpdateInv
<1>3. PointsInv'
  BY <1>0, <1>1 DEF PointsInv
<1>4. HealInv'
  <2>1. \A v \in SetupSlots : \A p : Heals(serving'[v], p, m) <=> Heals(serving[v], p, m)
    BY <1>1
  <2>2. \A v \in SetupSlots : \A p, k :
          Heals(serving'[v], p, m) /\ HasMade(serving[v], k) => HasMade(serving'[v], k)
    BY <1>1
  <2> QED BY <2>1, <2>2, <1>0 DEF HealInv
<1> QED BY <1>1, <1>2, <1>3, <1>4 DEF PlanInv

(* The steps of that kind. *)
LEMMA QuietSteps ==
    ASSUME PlanInv, NEW w \in SetupSlots,
           \/ \E t \in Targets : \E items \in RowPosts : PutRows(w, t, items)
           \/ \E t \in WorkflowTargets :
                \/ SeedRows(w, t)
                \/ \E from \in WorkflowTargets : PutListed(w, t, from)
           \/ DeleteRows(w)
           \/ WriteRow(w)
           \/ RowsWritten(w)
           \/ Attached(w)
           \/ AnswerCreated(w)
           \/ SelectRecords(w)
           \/ ImportRecord(w)
           \/ AnswerImport(w)
    PROVE  PlanInv'
<1> DEFINE n == Len(plans)
           m == Len(workflows)
           Step(t) ==
             /\ t.pc \notin {"ensure", "update"} /\ SlotOK(t, n) /\ Aims(t, m)
             /\ \A p : Heals(t, p, m) <=> Heals(serving[w], p, m)
             /\ \A p, k : Heals(t, p, m) /\ HasMade(serving[w], k) => HasMade(t, k)
<1> SetupTypeInv /\ PointsInv
  BY DEF PlanInv
<1>0. SlotOK(serving[w], n) /\ Aims(serving[w], m)
  BY DEF SetupTypeInv, PointsInv
<1>1. ASSUME NEW t, serving' = [serving EXCEPT ![w] = t], Step(t), serving[w].pc # "update",
             UNCHANGED <<plans, workflows, overlaid, doubled>>
      PROVE  PlanInv'
  BY <1>1, Quiet
<1>2. DOMAIN workflows = 1..m
  BY DEF SetupTypeInv
<1> HIDE DEF Step
<1>3. ASSUME NEW t, NEW items, serving[w] = Waiting, Replace(w, t, items, Waiting),
             UNCHANGED <<plans, workflows, overlaid, doubled>>
      PROVE  PlanInv'
  <2>1. PICK s : s = [pc |-> "replace", target |-> t, todo |-> items, then |-> Waiting]
    OBVIOUS
  <2>2. Step(s)
    BY <2>1, <1>3 DEF Step, SlotOK, Aims, Heals, HasMade, Waiting
  <2>3. serving' = [serving EXCEPT ![w] = s] /\ serving[w].pc # "update"
    BY <2>1, <1>3 DEF Replace, Goes, Waiting
  <2> QED BY <2>2, <2>3, <1>1, <1>3
<1>4. ASSUME NEW t \in Targets, NEW items \in RowPosts, PutRows(w, t, items) PROVE PlanInv'
  BY <1>3, <1>4 DEF PutRows
<1>5. ASSUME NEW t \in WorkflowTargets, SeedRows(w, t) PROVE PlanInv'
  BY <1>3, <1>5 DEF SeedRows
<1>6. ASSUME NEW t \in WorkflowTargets, NEW from \in WorkflowTargets, PutListed(w, t, from)
      PROVE  PlanInv'
  BY <1>3, <1>6 DEF PutListed
<1>7. CASE DeleteRows(w)
  <2>1. PICK s : s = [pc |-> "write", target |-> serving[w].target,
                      todo |-> Identified(serving[w].todo, saves + 1), save |-> saves + 1,
                      of |-> Len(serving[w].todo), then |-> serving[w].then]
    OBVIOUS
  <2>2. serving' = [serving EXCEPT ![w] = s] /\ serving[w].pc = "replace"
    BY <2>1, <1>7 DEF DeleteRows, Goes
  <2>3. Step(s)
    BY <2>1, <2>2, <1>0 DEF Step, SlotOK, Aims, Heals, HasMade
  <2> QED BY <2>2, <2>3, <1>1, <1>7 DEF DeleteRows
<1>8. CASE WriteRow(w)
  <2>1. PICK s : s = [serving[w] EXCEPT !.todo = Tail(@)]
    OBVIOUS
  <2>2. serving' = [serving EXCEPT ![w] = s] /\ serving[w].pc = "write"
    BY <2>1, <1>8 DEF WriteRow, SetupTypeInv
  <2>3. /\ s.pc = "write" /\ s.then = serving[w].then
        /\ DOMAIN s = {"pc", "target", "todo", "save", "of", "then"}
    BY <2>1, <2>2, <1>0 DEF SlotOK
  <2>4. Step(s)
    BY <2>3, <2>2, <1>0 DEF Step, SlotOK, Aims, Heals, HasMade
  <2> QED BY <2>2, <2>4, <1>1, <1>8 DEF WriteRow
<1>9. CASE RowsWritten(w)
  <2>1. PICK s : s = serving[w].then
    OBVIOUS
  <2>2. serving' = [serving EXCEPT ![w] = s] /\ serving[w].pc = "write"
    BY <2>1, <1>9 DEF RowsWritten, Goes
  <2>3. Step(s)
    BY <2>1, <2>2, <1>0 DEF Step, SlotOK, Aims, Heals, HasMade
  <2> QED BY <2>2, <2>3, <1>1, <1>9 DEF RowsWritten
<1>10. CASE Attached(w)
  <2>1. PICK s : s = Act(w)
    OBVIOUS
  <2>2. serving' = [serving EXCEPT ![w] = s] /\ serving[w].pc = "ensure"
    BY <2>1, <1>10 DEF Attached, Goes
  <2>3. serving[w].row.workflow_id \in 1..m
    BY <1>10, <1>2 DEF Attached, HasWorkflow
  <2>4. s.pc = "act" /\ s.plan = serving[w].plan /\ s.row = serving[w].row
    BY <2>1 DEF Act
  <2>5. Step(s)
    BY <2>4, <2>2, <2>3, <1>0 DEF Step, SlotOK, Aims, Heals, HasMade
  <2> QED BY <2>2, <2>5, <1>1, <1>10 DEF Attached
<1>11. ASSUME NEW s, s.pc = "free" \/ s.pc = "select",
              serving[w].pc = "act" \/ serving[w].pc = "select",
              SlotOK(s, n), serving' = [serving EXCEPT ![w] = s],
              plans' = plans, workflows' = workflows, overlaid' = overlaid, doubled' = doubled
       PROVE  PlanInv'
  <2>1. Step(s)
    BY <1>11 DEF Step, Aims, Heals, HasMade
  <2> QED BY <2>1, <1>1, <1>11
<1>12. SlotOK(Waiting, n) /\ Waiting.pc = "free"
  BY DEF SlotOK, Waiting
<1>13. CASE AnswerCreated(w)
  <2> DEFINE type == serving[w].row.workflow_type
  <2>1. /\ plans' = plans /\ workflows' = workflows /\ overlaid' = overlaid /\ doubled' = doubled
        /\ serving[w].pc = "act"
    BY <1>13 DEF AnswerCreated
  <2>2. PICK s : s = [pc |-> "replace", target |-> <<"rules", serving[w].row.workflow_id>>,
                      todo |-> Fresh(WORKFLOW_TEMPLATES[type]), then |-> Waiting]
    OBVIOUS
  <2>3. serving' = [serving EXCEPT ![w] = s] \/ serving' = [serving EXCEPT ![w] = Waiting]
    BY <2>2, <1>13 DEF AnswerCreated, Replace, Goes
  <2>4. CASE serving' = [serving EXCEPT ![w] = Waiting]
    BY <2>1, <2>4, <1>11, <1>12
  <2>5. CASE serving' = [serving EXCEPT ![w] = s]
    <3>1. Step(s)
      BY <2>1, <2>2 DEF Step, SlotOK, Aims, Heals, HasMade, Waiting
    <3> QED BY <3>1, <2>1, <2>5, <1>1
  <2> QED BY <2>3, <2>4, <2>5
<1>14. CASE SelectRecords(w)
  <2>1. PICK s, goal, c, r, f, todo :
             /\ s = [pc |-> "select", goal |-> goal, commit |-> c, rules |-> r, findings |-> f,
                     at |-> 1, todo |-> todo]
             /\ serving' = [serving EXCEPT ![w] = s]
    BY <1>14 DEF SelectRecords, Goes
  <2>2. s.pc = "select"
        /\ DOMAIN s = {"pc", "goal", "commit", "rules", "findings", "at", "todo"}
    BY <2>1
  <2>3. SlotOK(s, n)
    BY <2>2 DEF SlotOK
  <2>4. /\ plans' = plans /\ workflows' = workflows /\ overlaid' = overlaid /\ doubled' = doubled
        /\ serving[w].pc = "act"
    BY <1>14 DEF SelectRecords
  <2> QED BY <2>1, <2>2, <2>3, <2>4, <1>11
<1>15. CASE ImportRecord(w)
  <2>1. PICK s : s = [serving[w] EXCEPT !.at = @ + 1]
    OBVIOUS
  <2>2. serving' = [serving EXCEPT ![w] = s] /\ serving[w].pc = "select"
    BY <2>1, <1>15 DEF ImportRecord, SetupTypeInv
  <2>3. s.pc = "select"
        /\ DOMAIN s = {"pc", "goal", "commit", "rules", "findings", "at", "todo"}
    BY <2>1, <2>2, <1>0 DEF SlotOK
  <2>4. SlotOK(s, n)
    BY <2>3 DEF SlotOK
  <2>5. plans' = plans /\ workflows' = workflows /\ overlaid' = overlaid /\ doubled' = doubled
    BY <1>15 DEF ImportRecord
  <2> QED BY <2>2, <2>3, <2>4, <2>5, <1>11
<1>16. CASE AnswerImport(w)
  <2>1. /\ serving' = [serving EXCEPT ![w] = Waiting] /\ serving[w].pc = "select"
        /\ plans' = plans /\ workflows' = workflows /\ overlaid' = overlaid /\ doubled' = doubled
    BY <1>16 DEF AnswerImport, Goes
  <2> QED BY <2>1, <1>11, <1>12
<1> QED BY <1>4, <1>5, <1>6, <1>7, <1>8, <1>9, <1>10, <1>13, <1>14, <1>15, <1>16

(* A workflow that belongs to no plan changes nothing for the plans.        *)
LEMMA PostStep == ASSUME PlanInv, PostWorkflow PROVE PlanInv'
<1> DEFINE n == Len(plans)
           m == Len(workflows)
<1> SetupTypeInv /\ UpdateInv /\ PointsInv /\ HealInv
  BY DEF PlanInv
<1>0. /\ plans' = plans /\ serving' = serving /\ overlaid' = overlaid /\ doubled' = doubled
      /\ workflows' = Append(workflows, 0)
  BY DEF PostWorkflow
<1>1. /\ n \in Nat /\ m \in Nat /\ Len(workflows') = m + 1 /\ workflows' \in Seq(0..n)
      /\ workflows'[m + 1] = 0 /\ \A k \in 1..m : workflows'[k] = workflows[k]
  BY <1>0 DEF SetupTypeInv
<1>2. SetupTypeInv'
  BY <1>0, <1>1 DEF SetupTypeInv
<1>3. UpdateInv'
  BY <1>0 DEF UpdateInv
<1>4. \A t : /\ Points(t, m) => Points(t, m + 1)
             /\ Aims(t, m) => Aims(t, m + 1)
             /\ \A p : Heals(t, p, m + 1) => Heals(t, p, m)
             /\ \A p, k : Heals(t, p, m) /\ HasMade(t, k) => Heals(t, p, m + 1)
  BY <1>1, More
<1>5. PointsInv'
  BY <1>0, <1>1, <1>4 DEF PointsInv
<1>6. HealInv'
  <2>1. ASSUME NEW p \in 1..Len(plans)', p \notin doubled', NEW v \in SetupSlots, NEW w \in SetupSlots,
               Heals(serving'[v], p, m + 1), Heals(serving'[w], p, m + 1)
        PROVE  v = w
    BY <2>1, <1>0, <1>4 DEF HealInv
  <2>2. ASSUME NEW k \in 1..m + 1, workflows'[k] # 0, workflows'[k] \notin doubled' \cup overlaid'
        PROVE  /\ \A w \in SetupSlots : Heals(serving'[w], workflows'[k], m + 1) => HasMade(serving'[w], k)
               /\ \/ plans'[workflows'[k]].workflow_id = k
                  \/ \E w \in SetupSlots : Heals(serving'[w], workflows'[k], m + 1)
    <3>1. k \in 1..m /\ workflows'[k] = workflows[k]
      BY <2>2, <1>1
    <3>2. PICK p : p = workflows[k]
      OBVIOUS
    <3>3. /\ \A w \in SetupSlots : Heals(serving[w], p, m) => HasMade(serving[w], k)
          /\ plans[p].workflow_id = k \/ \E w \in SetupSlots : Heals(serving[w], p, m)
      BY <2>2, <3>1, <3>2, <1>0 DEF HealInv
    <3>4. \A w \in SetupSlots : Heals(serving'[w], p, m + 1) => HasMade(serving'[w], k)
      BY <3>3, <1>0, <1>4
    <3>5. plans'[p].workflow_id = k \/ \E w \in SetupSlots : Heals(serving'[w], p, m + 1)
      BY <3>3, <1>0, <1>4
    <3> QED BY <3>1, <3>2, <3>4, <3>5
  <2> QED BY <2>1, <2>2, <1>1 DEF HealInv
<1> QED BY <1>2, <1>3, <1>5, <1>6 DEF PlanInv

(* A new plan: its request alone gives it a workflow.                       *)
LEMMA CreateStep ==
    ASSUME PlanInv, NEW w \in SetupSlots, NEW type \in PlanTypes,
           NEW objective \in {Missing, "given"}, CreatePlan(w, type, objective)
    PROVE  PlanInv'
<1> DEFINE n == Len(plans)
           m == Len(workflows)
<1> SetupTypeInv /\ UpdateInv /\ PointsInv /\ HealInv
  BY DEF PlanInv
<1>1. PICK row : row = [f \in PlanFields \cup {"workflow_type"} |->
                          CASE f = "workflow_type" -> type [] f = "objective" -> objective
                            [] OTHER -> Missing]
  OBVIOUS
<1>2. row \in PlanRow /\ row.workflow_id = Missing
  <2>1. \A f \in AllFields : (CASE f = "workflow_type" -> type [] f = "objective" -> objective
                                [] OTHER -> Missing) \in FieldValues
    <3> SUFFICES ASSUME NEW f \in AllFields
                 PROVE  (CASE f = "workflow_type" -> type [] f = "objective" -> objective
                           [] OTHER -> Missing) \in FieldValues
      OBVIOUS
    <3>1. type \in FieldValues /\ objective \in FieldValues /\ Missing \in FieldValues
      BY DEF FieldValues
    <3>2. "workflow_type" # "objective"
      OBVIOUS
    <3> HIDE DEF FieldValues
    <3>3. CASE f = "workflow_type"
      BY <3>1, <3>2, <3>3, Zenon
    <3>4. CASE f = "objective"
      BY <3>1, <3>2, <3>4, Zenon
    <3>5. CASE f # "workflow_type" /\ f # "objective"
      BY <3>1, <3>5, Zenon
    <3> QED BY <3>3, <3>4, <3>5
  <2>2. "workflow_id" \in AllFields /\ "workflow_id" # "workflow_type" /\ "workflow_id" # "objective"
    BY DEF AllFields, PlanFields
  <2>3. row \in PlanRow
    BY <2>1, <1>1, Zenon DEF PlanRow, AllFields
  <2>4. row["workflow_id"] = Missing
    BY <2>2, <1>1, Zenon DEF AllFields
  <2> QED BY <2>3, <2>4
<1>3. PICK t : t = [pc |-> "ensure", plan |-> n + 1, row |-> row, goal |-> [kind |-> "create"]]
  OBVIOUS
<1>4. /\ plans' = Append(plans, row) /\ serving' = [serving EXCEPT ![w] = t]
      /\ workflows' = workflows /\ overlaid' = overlaid /\ doubled' = doubled
      /\ serving[w].pc = "free"
  BY <1>1, <1>3 DEF CreatePlan, Goes, Waiting
<1> HIDE DEF PlanRow
<1>5. /\ n \in Nat /\ m \in Nat /\ plans' \in Seq(PlanRow) /\ Len(plans') = n + 1
      /\ plans'[n + 1] = row /\ \A p \in 1..n : plans'[p] = plans[p]
  BY <1>4, <1>2 DEF SetupTypeInv
<1>6. /\ t.pc = "ensure" /\ t.plan = n + 1 /\ t.row = row
      /\ \A k : ~ HasMade(t, k) /\ \A p : Heals(t, p, m) => p = n + 1
  BY <1>3 DEF HasMade, Heals
<1>7. SlotOK(t, n + 1)
  BY <1>6, <1>5, <1>2 DEF SlotOK
<1>8. /\ workflows' \in Seq(0..Len(plans')) /\ Len(plans) <= Len(plans')
      /\ SlotOK(t, Len(plans'))
  <2>1. \A k \in 1..m : workflows[k] \in 0..n + 1
    BY <1>5 DEF SetupTypeInv
  <2>2. workflows \in Seq(0..n + 1)
    BY <2>1 DEF SetupTypeInv
  <2> QED BY <2>2, <1>4, <1>5, <1>7
<1>9. /\ SetupTypeInv' /\ serving'[w] = t
      /\ \A v \in SetupSlots : v # w => serving'[v] = serving[v]
  BY <1>4, <1>5, <1>8, SlotTypes
<1>10. \A v \in SetupSlots : SlotOK(serving[v], n)
  BY DEF SetupTypeInv
<1>11. UpdateInv'
  BY <1>4, <1>5, <1>6, <1>9, <1>10 DEF UpdateInv, SlotOK
<1>12. PointsInv'
  BY <1>2, <1>4, <1>5, <1>6, <1>9 DEF PointsInv, Points, Aims
<1>13. HealInv'
  <2>1. \A v \in SetupSlots : \A p : Heals(serving[v], p, m) => p \in 1..n
    BY <1>10 DEF Heals, SlotOK
  <2>2. ~ Heals(serving[w], n, m) /\ \A p : ~ Heals(serving[w], p, m)
    BY <1>4 DEF Heals
  <2>3. \A v \in SetupSlots : \A p \in 1..n : Heals(serving'[v], p, m) <=> Heals(serving[v], p, m)
    BY <1>5, <1>6, <1>9, <2>2
  <2>4. \A v \in SetupSlots : Heals(serving'[v], n + 1, m) => v = w
    BY <1>5, <1>9, <2>1
  <2>5. \A p \in 1..Len(plans') : p \notin doubled' =>
          \A u, v \in SetupSlots : Heals(serving'[u], p, m) /\ Heals(serving'[v], p, m) => u = v
    <3>1. \A p \in 1..Len(plans') : p \in 1..n \/ p = n + 1
      BY <1>5
    <3>2. \A p \in 1..n : p \notin doubled =>
            \A u, v \in SetupSlots : Heals(serving[u], p, m) /\ Heals(serving[v], p, m) => u = v
      BY DEF HealInv
    <3> QED BY <3>1, <3>2, <2>3, <2>4, <1>4
  <2>6. ASSUME NEW k \in 1..m, workflows'[k] # 0, workflows'[k] \notin doubled' \cup overlaid'
        PROVE  /\ \A v \in SetupSlots : Heals(serving'[v], workflows'[k], m) => HasMade(serving'[v], k)
               /\ \/ plans'[workflows'[k]].workflow_id = k
                  \/ \E v \in SetupSlots : Heals(serving'[v], workflows'[k], m)
    <3>1. PICK p : p = workflows[k]
      OBVIOUS
    <3>2. p \in 1..n
      BY <2>6, <3>1, <1>4, <1>5 DEF SetupTypeInv
    <3>3. /\ \A v \in SetupSlots : Heals(serving[v], p, m) => HasMade(serving[v], k)
          /\ plans[p].workflow_id = k \/ \E v \in SetupSlots : Heals(serving[v], p, m)
      BY <2>6, <3>1, <1>4 DEF HealInv
    <3>4. \A v \in SetupSlots : Heals(serving'[v], p, m) => HasMade(serving'[v], k)
      BY <3>2, <3>3, <2>3, <2>2, <1>9
    <3>5. plans'[p].workflow_id = k \/ \E v \in SetupSlots : Heals(serving'[v], p, m)
      BY <3>2, <3>3, <2>3, <1>5
    <3> QED BY <3>1, <3>4, <3>5, <1>4
  <2> QED BY <2>5, <2>6, <1>4 DEF HealInv
<1> QED BY <1>9, <1>11, <1>12, <1>13 DEF PlanInv

(* A step of a request that leaves plans and workflows as they are: to take *)
(* up a plan it must be the only one at it, with all its workflows made;    *)
(* it lets go of no plan that is not exempt from then on.                   *)
LEMMA Turn ==
    ASSUME PlanInv, NEW w \in SetupSlots, NEW t, serving' = [serving EXCEPT ![w] = t],
           plans' = plans, workflows' = workflows,
           doubled \subseteq doubled', overlaid \subseteq overlaid', SlotOK(t, Len(plans)),
           \A p \in 1..Len(plans) : p \notin doubled' /\ Heals(t, p, Len(workflows)) =>
             \/ Heals(serving[w], p, Len(workflows))
             \/ /\ \A v \in SetupSlots : ~ Heals(serving[v], p, Len(workflows))
                /\ p \notin overlaid' => \A k \in 1..Len(workflows) : workflows[k] # p,
           \A p \in 1..Len(plans) : p \notin doubled' /\ Heals(serving[w], p, Len(workflows)) =>
             /\ Heals(t, p, Len(workflows))
             /\ \A k : HasMade(serving[w], k) => HasMade(t, k)
    PROVE  /\ SetupTypeInv' /\ HealInv' /\ serving'[w] = t
           /\ \A v \in SetupSlots : v # w => serving'[v] = serving[v]
<1> DEFINE n == Len(plans)
           m == Len(workflows)
<1> SetupTypeInv /\ HealInv
  BY DEF PlanInv
<1>1. SetupTypeInv' /\ serving'[w] = t /\ \A v \in SetupSlots : v # w => serving'[v] = serving[v]
  <2>1. n <= n /\ plans' \in Seq(PlanRow) /\ workflows' \in Seq(0..Len(plans')) /\ SlotOK(t, Len(plans'))
    BY DEF SetupTypeInv
  <2> QED BY <2>1, SlotTypes
<1>2. ASSUME NEW p \in 1..n, p \notin doubled', NEW u \in SetupSlots, NEW v \in SetupSlots,
             Heals(serving'[u], p, m), Heals(serving'[v], p, m)
      PROVE  u = v
  <2>1. CASE Heals(t, p, m) /\ ~ Heals(serving[w], p, m)
    <3>1. \A x \in SetupSlots : ~ Heals(serving[x], p, m)
      BY <1>2, <2>1
    <3> QED BY <3>1, <1>1, <1>2
  <2>2. CASE ~ (Heals(t, p, m) /\ ~ Heals(serving[w], p, m))
    <3>1. Heals(serving[u], p, m) /\ Heals(serving[v], p, m)
      BY <1>1, <1>2, <2>2
    <3> QED BY <3>1, <1>2 DEF HealInv
  <2> QED BY <2>1, <2>2
<1>3. ASSUME NEW k \in 1..m, workflows[k] # 0, workflows[k] \notin doubled' \cup overlaid'
      PROVE  /\ \A v \in SetupSlots : Heals(serving'[v], workflows[k], m) => HasMade(serving'[v], k)
             /\ \/ plans[workflows[k]].workflow_id = k
                \/ \E v \in SetupSlots : Heals(serving'[v], workflows[k], m)
  <2>1. PICK p \in 1..n : p = workflows[k]
    BY <1>3 DEF SetupTypeInv
  <2>2. /\ \A v \in SetupSlots : Heals(serving[v], p, m) => HasMade(serving[v], k)
        /\ plans[p].workflow_id = k \/ \E v \in SetupSlots : Heals(serving[v], p, m)
    BY <1>3, <2>1 DEF HealInv
  <2>3. Heals(t, p, m) => Heals(serving[w], p, m)
    BY <1>3, <2>1
  <2>4. \A v \in SetupSlots : Heals(serving'[v], p, m) => HasMade(serving'[v], k)
    <3>1. Heals(serving'[w], p, m) => HasMade(serving'[w], k)
      BY <1>1, <1>3, <2>1, <2>2, <2>3
    <3> QED BY <3>1, <1>1, <2>2
  <2>5. plans[p].workflow_id = k \/ \E v \in SetupSlots : Heals(serving'[v], p, m)
    <3>1. ASSUME NEW v \in SetupSlots, Heals(serving[v], p, m) PROVE Heals(serving'[v], p, m)
      BY <3>1, <1>1, <1>3, <2>1
    <3> QED BY <3>1, <2>2
  <2> QED BY <2>1, <2>4, <2>5
<1>4. HealInv'
  BY <1>2, <1>3 DEF HealInv
<1> QED BY <1>1, <1>4

(* A client's update is none of a request's that gives the plan a workflow. *)
LEMMA PatchStep ==
    ASSUME PlanInv, SetupAssumption, NEW w \in SetupSlots, NEW p \in DOMAIN plans,
           NEW updates \in Patches, PatchPlan(w, p, updates)
    PROVE  PlanInv'
<1> DEFINE n == Len(plans)
           m == Len(workflows)
<1> SetupTypeInv /\ UpdateInv /\ PointsInv /\ HealInv
  BY DEF PlanInv
<1>1. PICK row : row = Updated(plans[p], updates)
  OBVIOUS
<1>2. PICK t : t = [pc |-> "update", plan |-> p, updates |-> updates, row |-> row, then |-> Waiting]
  OBVIOUS
<1>3. /\ serving' = [serving EXCEPT ![w] = t] /\ plans' = plans /\ workflows' = workflows
      /\ serving[w].pc = "free"
  BY <1>1, <1>2 DEF PatchPlan, ReadPlan, Goes, Waiting
<1>4. /\ t.pc = "update" /\ t.plan = p /\ t.updates = updates /\ t.row = row
      /\ t.then.pc = "free"
  BY <1>2 DEF Waiting
<1>5. doubled' = IF "workflow_id" \in DOMAIN updates THEN doubled \cup {p} ELSE doubled
  BY DEF PatchPlan
<1>6. overlaid' = IF Updating(p) # {} THEN overlaid \cup {p} ELSE overlaid
  BY DEF PatchPlan, ReadPlan
<1>7. p \in 1..n /\ plans[p] \in PlanRow
  BY DEF SetupTypeInv
<1>8. \A f \in DOMAIN updates : updates[f] \in FieldValues
  BY DEF FieldValues
<1>9. /\ row \in PlanRow
      /\ \A f \in AllFields : row[f] = IF f \in DOMAIN updates THEN updates[f] ELSE plans[p][f]
  BY <1>1, <1>7, <1>8, UpdatedRow
<1> HIDE DEF PlanRow, FieldValues
<1>10. SlotOK(t, n)
  BY <1>4, <1>7, <1>8, <1>9 DEF SlotOK
<1>11. \A q : ~ Heals(t, q, m) /\ ~ Heals(serving[w], q, m)
  BY <1>3, <1>4 DEF Heals
<1>12. /\ SetupTypeInv' /\ HealInv' /\ serving'[w] = t
       /\ \A v \in SetupSlots : v # w => serving'[v] = serving[v]
  BY <1>3, <1>5, <1>6, <1>10, <1>11, Turn
<1>13. UpdateInv'
  <2> SUFFICES ASSUME NEW v \in SetupSlots, serving'[v].pc = "update"
               PROVE  /\ serving'[v].plan \notin overlaid' =>
                           /\ \A u \in SetupSlots :
                                serving'[u].pc = "update" /\ serving'[u].plan = serving'[v].plan => u = v
                           /\ serving'[v].row = Updated(plans'[serving'[v].plan], serving'[v].updates)
                      /\ serving'[v].plan \notin doubled' /\ "workflow_id" \in DOMAIN serving'[v].updates =>
                           serving'[v].then.pc = "act"
    BY DEF UpdateInv
  <2>1. \A u \in SetupSlots : serving[u].pc = "update" /\ serving[u].plan = p => p \in overlaid'
    BY <1>6 DEF Updating
  <2>2. CASE v = w
    BY <2>2, <2>1, <1>1, <1>3, <1>4, <1>5, <1>12
  <2>3. CASE v # w
    BY <2>3, <2>1, <1>3, <1>4, <1>5, <1>6, <1>12 DEF UpdateInv
  <2> QED BY <2>2, <2>3
<1>14. PointsInv'
  <2>1. p \notin doubled' => Points(row, m)
    <3>1. "workflow_id" \in AllFields
      BY DEF AllFields, PlanFields
    <3>2. p \notin doubled' => row["workflow_id"] = plans[p]["workflow_id"]
      BY <3>1, <1>5, <1>9
    <3> QED BY <3>2, <1>5, <1>7 DEF PointsInv, Points
  <2>2. Aims(t, m)
    BY <1>4 DEF Aims
  <2>3. \A q : q \notin doubled' => q \notin doubled
    BY <1>5
  <2>4. \A q \in 1..Len(plans') : q \notin doubled' => Points(plans'[q], m)
    BY <2>3, <1>3 DEF PointsInv
  <2>5. \A v \in SetupSlots :
          /\ serving'[v].pc \in {"ensure", "update"} /\ serving'[v].plan \notin doubled' =>
               Points(serving'[v].row, m)
          /\ Aims(serving'[v], m)
    <3> SUFFICES ASSUME NEW v \in SetupSlots
                 PROVE  /\ serving'[v].pc \in {"ensure", "update"} /\ serving'[v].plan \notin doubled' =>
                             Points(serving'[v].row, m)
                        /\ Aims(serving'[v], m)
      OBVIOUS
    <3>1. CASE v = w
      BY <3>1, <2>1, <2>2, <1>4, <1>12
    <3>2. CASE v # w
      BY <3>2, <2>3, <1>12 DEF PointsInv
    <3> QED BY <3>1, <3>2
  <2> QED BY <2>4, <2>5, <1>3 DEF PointsInv
<1> QED BY <1>12, <1>13, <1>14 DEF PlanInv

(* A request that finds a plan without a workflow is the first at it, or    *)
(* the plan is exempt.                                                      *)
LEMMA OpenStep ==
    ASSUME PlanInv, NEW w \in SetupSlots, NEW p \in DOMAIN plans, NEW goal, OpenPlan(w, p, goal)
    PROVE  PlanInv'
<1> DEFINE n == Len(plans)
           m == Len(workflows)
<1> SetupTypeInv /\ UpdateInv /\ PointsInv /\ HealInv
  BY DEF PlanInv
<1>1. PICK t : t = [pc |-> "ensure", plan |-> p, row |-> plans[p], goal |-> goal]
  OBVIOUS
<1>2. /\ serving' = [serving EXCEPT ![w] = t] /\ plans' = plans /\ workflows' = workflows
      /\ overlaid' = overlaid /\ serving[w].pc = "free"
  BY <1>1 DEF OpenPlan, Goes, Waiting
<1>3. t.pc = "ensure" /\ t.plan = p /\ t.row = plans[p]
  BY <1>1
<1>4. p \in 1..n /\ plans[p] \in PlanRow /\ DOMAIN workflows = 1..m
  BY DEF SetupTypeInv
<1> HIDE DEF PlanRow
<1>5. doubled' = IF ~ HasWorkflow(plans[p]) /\ Healing(p) # {} THEN doubled \cup {p} ELSE doubled
  BY DEF OpenPlan
<1>6. SlotOK(t, n)
  BY <1>3, <1>4 DEF SlotOK
<1>7. \A q : ~ Heals(serving[w], q, m)
  BY <1>2 DEF Heals
<1>8. \A v \in SetupSlots : Heals(serving[v], p, m) => v \in Healing(p)
  BY <1>4 DEF Heals, Healing, HasWorkflow
<1>9. ASSUME NEW q \in 1..n, q \notin doubled', Heals(t, q, m)
      PROVE  /\ \A v \in SetupSlots : ~ Heals(serving[v], q, m)
             /\ q \notin overlaid' => \A k \in 1..m : workflows[k] # q
  <2>1. q = p /\ plans[p].workflow_id \notin 1..m
    BY <1>9, <1>3 DEF Heals
  <2>2. \A v \in SetupSlots : ~ Heals(serving[v], p, m)
    BY <2>1, <1>4, <1>5, <1>8, <1>9 DEF HasWorkflow
  <2>3. q \notin overlaid' => \A k \in 1..m : workflows[k] # q
    BY <2>1, <2>2, <1>2, <1>4, <1>5, <1>9 DEF HealInv
  <2> QED BY <2>1, <2>2, <2>3
<1>10. doubled \subseteq doubled' /\ overlaid \subseteq overlaid'
  BY <1>2, <1>5
<1>11. /\ SetupTypeInv' /\ HealInv' /\ serving'[w] = t
       /\ \A v \in SetupSlots : v # w => serving'[v] = serving[v]
  BY <1>2, <1>6, <1>7, <1>9, <1>10, Turn
<1>12. UpdateInv'
  BY <1>2, <1>3, <1>10, <1>11 DEF UpdateInv
<1>13. PointsInv'
  BY <1>2, <1>3, <1>4, <1>10, <1>11 DEF PointsInv, Aims
<1> QED BY <1>11, <1>12, <1>13 DEF PlanInv

(* The engine's own update: the plan is read anew, the workflow is the one  *)
(* the request has made.                                                    *)
LEMMA AttachStep == ASSUME PlanInv, NEW w \in SetupSlots, AttachWorkflow(w) PROVE PlanInv'
<1> DEFINE n == Len(plans)
           m == Len(workflows)
<1> SetupTypeInv /\ UpdateInv /\ PointsInv /\ HealInv
  BY DEF PlanInv
<1>1. PICK p, k : p = serving[w].plan /\ k = serving[w].row.workflow_id
  OBVIOUS
<1>2. PICK updates : updates = [f \in {"workflow_id"} |-> k]
  OBVIOUS
<1>3. PICK row, then : row = Updated(plans[p], updates) /\ then = Act(w)
  OBVIOUS
<1>4. PICK t : t = [pc |-> "update", plan |-> p, updates |-> updates, row |-> row, then |-> then]
  OBVIOUS
<1>5. /\ serving' = [serving EXCEPT ![w] = t] /\ plans' = plans /\ workflows' = workflows
      /\ serving[w].pc = "attach" /\ doubled' = doubled
  BY <1>1, <1>2, <1>3, <1>4 DEF AttachWorkflow, ReadPlan, Goes
<1>6. overlaid' = IF Updating(p) # {} THEN overlaid \cup {p} ELSE overlaid
  BY <1>1 DEF AttachWorkflow, ReadPlan
<1>7. /\ t.pc = "update" /\ t.plan = p /\ t.updates = updates /\ t.row = row
      /\ t.then.pc = "act" /\ t.then.plan = p /\ t.then.row = serving[w].row
  BY <1>1, <1>3, <1>4 DEF Act
<1>8. SlotOK(serving[w], n) /\ Aims(serving[w], m)
  BY DEF SetupTypeInv, PointsInv
<1>9. p \in 1..n /\ plans[p] \in PlanRow /\ serving[w].row \in PlanRow /\ k \in 1..m
  BY <1>1, <1>5, <1>8 DEF SlotOK, Aims, SetupTypeInv
<1>10. DOMAIN updates = {"workflow_id"} /\ updates["workflow_id"] = k
  BY <1>2
<1>11. \A f \in DOMAIN updates : updates[f] \in FieldValues
  <2>1. "workflow_id" \in AllFields
    BY DEF AllFields, PlanFields
  <2>2. k \in FieldValues
    <3> HIDE DEF FieldValues
    <3> QED BY <1>1, <1>9, <2>1 DEF PlanRow
  <2> QED BY <1>10, <2>2
<1>12. /\ row \in PlanRow
       /\ \A f \in AllFields : row[f] = IF f \in DOMAIN updates THEN updates[f] ELSE plans[p][f]
  BY <1>3, <1>9, <1>11, UpdatedRow
<1>13. row.workflow_id = k
  <2>1. "workflow_id" \in AllFields
    BY DEF AllFields, PlanFields
  <2> QED BY <2>1, <1>10, <1>12
<1> HIDE DEF PlanRow, FieldValues
<1>14. SlotOK(t, n)
  BY <1>7, <1>9, <1>11, <1>12 DEF SlotOK
<1>15. /\ \A q : Heals(t, q, m) <=> q = p
       /\ \A q : Heals(serving[w], q, m) <=> q = p
  BY <1>1, <1>5, <1>7 DEF Heals
<1>16. \A j : HasMade(serving[w], j) => HasMade(t, j)
  BY <1>1, <1>5, <1>7, <1>13 DEF HasMade
<1>17. /\ SetupTypeInv' /\ HealInv' /\ serving'[w] = t
       /\ \A v \in SetupSlots : v # w => serving'[v] = serving[v]
  BY <1>5, <1>6, <1>14, <1>15, <1>16, Turn
<1>18. UpdateInv'
  <2> SUFFICES ASSUME NEW v \in SetupSlots, serving'[v].pc = "update"
               PROVE  /\ serving'[v].plan \notin overlaid' =>
                           /\ \A u \in SetupSlots :
                                serving'[u].pc = "update" /\ serving'[u].plan = serving'[v].plan => u = v
                           /\ serving'[v].row = Updated(plans'[serving'[v].plan], serving'[v].updates)
                      /\ serving'[v].plan \notin doubled' /\ "workflow_id" \in DOMAIN serving'[v].updates =>
                           serving'[v].then.pc = "act"
    BY DEF UpdateInv
  <2>1. \A u \in SetupSlots : serving[u].pc = "update" /\ serving[u].plan = p => p \in overlaid'
    BY <1>6 DEF Updating
  <2>2. CASE v = w
    BY <2>2, <2>1, <1>3, <1>5, <1>7, <1>17
  <2>3. CASE v # w
    BY <2>3, <2>1, <1>5, <1>6, <1>7, <1>17 DEF UpdateInv
  <2> QED BY <2>2, <2>3
<1>19. PointsInv'
  <2>1. Points(row, m)
    BY <1>9, <1>13 DEF Points
  <2>2. Aims(t, m)
    BY <1>7 DEF Aims
  <2> QED BY <2>1, <2>2, <1>5, <1>7, <1>17 DEF PointsInv
<1> QED BY <1>17, <1>18, <1>19 DEF PlanInv

(* A request dies: the plan it was giving a workflow is exempt from then.   *)
LEMMA DropStep == ASSUME PlanInv, NEW w \in SetupSlots, Drop(w) PROVE PlanInv'
<1> DEFINE n == Len(plans)
           m == Len(workflows)
<1> SetupTypeInv /\ UpdateInv /\ PointsInv /\ HealInv
  BY DEF PlanInv
<1>1. PICK t : t = Waiting
  OBVIOUS
<1>2. /\ serving' = [serving EXCEPT ![w] = t] /\ plans' = plans /\ workflows' = workflows
      /\ overlaid' = overlaid /\ doubled' = doubled \cup {p \in DOMAIN plans : w \in Healing(p)}
  BY <1>1 DEF Drop, Goes
<1>3. t.pc = "free"
  BY <1>1 DEF Waiting
<1>4. SlotOK(t, n) /\ Aims(t, m) /\ \A p : ~ Heals(t, p, m)
  BY <1>3 DEF SlotOK, Aims, Heals
<1>5. \A p \in 1..n : Heals(serving[w], p, m) => p \in doubled'
  <2>1. \A p : Heals(serving[w], p, m) => w \in Healing(p)
    BY DEF Heals, Healing, HasWorkflow, SetupTypeInv
  <2> QED BY <2>1, <1>2 DEF SetupTypeInv
<1>6. /\ SetupTypeInv' /\ HealInv' /\ serving'[w] = t
      /\ \A v \in SetupSlots : v # w => serving'[v] = serving[v]
  BY <1>2, <1>4, <1>5, Turn
<1>7. UpdateInv'
  BY <1>2, <1>3, <1>6 DEF UpdateInv
<1>8. PointsInv'
  BY <1>2, <1>3, <1>4, <1>6 DEF PointsInv
<1> QED BY <1>6, <1>7, <1>8 DEF PlanInv

(* The update is written: the plan is what the request holds.               *)
LEMMA SaveStep == ASSUME PlanInv, NEW w \in SetupSlots, SavePlan(w) PROVE PlanInv'
<1> DEFINE n == Len(plans)
           m == Len(workflows)
<1> SetupTypeInv /\ UpdateInv /\ PointsInv /\ HealInv
  BY DEF PlanInv
<1>1. PICK p, row, t : p = serving[w].plan /\ row = serving[w].row /\ t = serving[w].then
  OBVIOUS
<1>2. /\ serving' = [serving EXCEPT ![w] = t] /\ plans' = [plans EXCEPT ![p] = row]
      /\ workflows' = workflows /\ overlaid' = overlaid /\ doubled' = doubled
      /\ serving[w].pc = "update"
  BY <1>1 DEF SavePlan, Goes
<1>3. /\ p \in 1..n /\ row \in PlanRow /\ plans[p] \in PlanRow /\ t.pc \in {"free", "act"}
      /\ \A f \in DOMAIN serving[w].updates : serving[w].updates[f] \in FieldValues
      /\ SlotOK(t, n)
  BY <1>1, <1>2 DEF SetupTypeInv, SlotOK
<1> HIDE DEF PlanRow, FieldValues
<1>4. /\ plans' \in Seq(PlanRow) /\ Len(plans') = n /\ plans'[p] = row
      /\ \A q \in 1..n : q # p => plans'[q] = plans[q]
  BY <1>2, <1>3 DEF SetupTypeInv
<1>5. /\ SetupTypeInv' /\ serving'[w] = t
      /\ \A v \in SetupSlots : v # w => serving'[v] = serving[v]
  <2>1. /\ workflows' \in Seq(0..Len(plans')) /\ Len(plans) <= Len(plans')
        /\ SlotOK(t, Len(plans'))
    BY <1>2, <1>3, <1>4 DEF SetupTypeInv
  <2> QED BY <2>1, <1>2, <1>4, SlotTypes
<1>6. UpdateInv'
  <2> SUFFICES ASSUME NEW v \in SetupSlots, serving'[v].pc = "update"
               PROVE  /\ serving'[v].plan \notin overlaid' =>
                           /\ \A u \in SetupSlots :
                                serving'[u].pc = "update" /\ serving'[u].plan = serving'[v].plan => u = v
                           /\ serving'[v].row = Updated(plans'[serving'[v].plan], serving'[v].updates)
                      /\ serving'[v].plan \notin doubled' /\ "workflow_id" \in DOMAIN serving'[v].updates =>
                           serving'[v].then.pc = "act"
    BY DEF UpdateInv
  <2>1. v # w /\ serving'[v] = serving[v] /\ serving[v].plan \in 1..n
    BY <1>3, <1>5 DEF SetupTypeInv, SlotOK
  <2>2. serving[v].plan \notin overlaid => serving[v].plan # p
    BY <2>1, <1>1, <1>2 DEF UpdateInv
  <2>3. \A u \in SetupSlots : serving'[u].pc = "update" => u # w /\ serving'[u] = serving[u]
    BY <1>3, <1>5
  <2> QED BY <2>1, <2>2, <2>3, <1>2, <1>4 DEF UpdateInv
<1>7. p \notin doubled => Points(row, m)
  BY <1>1, <1>2 DEF PointsInv
<1>8. Aims(t, m)
  BY <1>3 DEF Aims
<1>9. PointsInv'
  BY <1>2, <1>3, <1>4, <1>5, <1>7, <1>8 DEF PointsInv
<1>10. /\ \A q : ~ Heals(t, q, m)
       /\ \A q : Heals(serving[w], q, m) => q = p /\ t.pc = "act"
       /\ \A k : HasMade(serving[w], k) => row.workflow_id = k
  BY <1>1, <1>2, <1>3 DEF Heals, HasMade
<1>11. \A v \in SetupSlots : \A q : Heals(serving'[v], q, m) => v # w /\ Heals(serving[v], q, m)
  BY <1>5, <1>10
<1>12. ASSUME NEW k \in 1..m, workflows[k] = p, p \notin doubled \cup overlaid
       PROVE  row.workflow_id = k \/ \E v \in SetupSlots : Heals(serving'[v], p, m)
  <2>1. workflows[k] # 0
    BY <1>3, <1>12
  <2>2. CASE t.pc = "act"
    <3>1. Heals(serving[w], p, m)
      BY <2>2, <1>1, <1>2 DEF Heals
    <3> QED BY <3>1, <2>1, <1>10, <1>12 DEF HealInv
  <2>3. CASE t.pc = "free"
    <3>1. "workflow_id" \notin DOMAIN serving[w].updates
      BY <2>3, <1>1, <1>2, <1>12 DEF UpdateInv
    <3>2. row = Updated(plans[p], serving[w].updates)
      BY <1>1, <1>2, <1>12 DEF UpdateInv
    <3>3. "workflow_id" \in AllFields
      BY DEF AllFields, PlanFields
    <3>4. row["workflow_id"] = plans[p]["workflow_id"]
      BY <3>1, <3>2, <3>3, <1>3, UpdatedRow
    <3>5. plans[p].workflow_id = k \/ \E v \in SetupSlots : Heals(serving[v], p, m)
      BY <2>1, <1>12 DEF HealInv
    <3>6. ~ Heals(serving[w], p, m)
      BY <2>3, <1>10
    <3> QED BY <3>4, <3>5, <3>6, <1>5
  <2> QED BY <2>2, <2>3, <1>3
<1>13. HealInv'
  <2>1. ASSUME NEW q \in 1..n, q \notin doubled, NEW u \in SetupSlots, NEW v \in SetupSlots,
               Heals(serving'[u], q, m), Heals(serving'[v], q, m)
        PROVE  u = v
    BY <2>1, <1>11 DEF HealInv
  <2>2. ASSUME NEW k \in 1..m, workflows[k] # 0, workflows[k] \notin doubled \cup overlaid
        PROVE  /\ \A v \in SetupSlots : Heals(serving'[v], workflows[k], m) => HasMade(serving'[v], k)
               /\ \/ plans'[workflows[k]].workflow_id = k
                  \/ \E v \in SetupSlots : Heals(serving'[v], workflows[k], m)
    <3>1. PICK q \in 1..n : q = workflows[k]
      BY <2>2 DEF SetupTypeInv
    <3>2. /\ \A v \in SetupSlots : Heals(serving[v], q, m) => HasMade(serving[v], k)
          /\ plans[q].workflow_id = k \/ \E v \in SetupSlots : Heals(serving[v], q, m)
      BY <2>2, <3>1 DEF HealInv
    <3>3. \A v \in SetupSlots : Heals(serving'[v], q, m) => HasMade(serving'[v], k)
      BY <3>2, <1>5, <1>11
    <3>4. plans'[q].workflow_id = k \/ \E v \in SetupSlots : Heals(serving'[v], q, m)
      <4>1. CASE q = p
        BY <4>1, <2>2, <3>1, <1>4, <1>12
      <4>2. CASE q # p
        <5>1. \A v \in SetupSlots : Heals(serving[v], q, m) => Heals(serving'[v], q, m)
          BY <4>2, <1>5, <1>10
        <5> QED BY <4>2, <5>1, <3>2, <1>4
      <4> QED BY <4>1, <4>2
    <3> QED BY <3>1, <3>3, <3>4
  <2> QED BY <2>1, <2>2, <1>2, <1>4 DEF HealInv
<1> QED BY <1>5, <1>6, <1>9, <1>13 DEF PlanInv

(* A request makes a workflow for the plan it found without one.            *)
LEMMA WorkflowStep == ASSUME PlanInv, NEW w \in SetupSlots, CreateWorkflow(w) PROVE PlanInv'
<1> DEFINE n == Len(plans)
           m == Len(workflows)
<1> SetupTypeInv /\ UpdateInv /\ PointsInv /\ HealInv
  BY DEF PlanInv
<1>1. PICK p, old : p = serving[w].plan /\ old = serving[w].row
  OBVIOUS
<1>2. PICK then : then = [Act(w) EXCEPT !.pc = "attach", !.row.workflow_id = m + 1]
  OBVIOUS
<1>3. PICK t : t = [pc |-> "replace", target |-> <<"rules", m + 1>>,
                    todo |-> Fresh(TemplateRules(serving[w].row.workflow_type)), then |-> then]
  OBVIOUS
<1>4. /\ serving' = [serving EXCEPT ![w] = t] /\ plans' = plans /\ workflows' = Append(workflows, p)
      /\ overlaid' = overlaid /\ doubled' = doubled
      /\ serving[w].pc = "ensure"
  BY <1>1, <1>2, <1>3 DEF CreateWorkflow, Replace, Goes
<1>5. p \in 1..n /\ old \in PlanRow /\ n \in Nat /\ m \in Nat
  BY <1>1, <1>4 DEF SetupTypeInv, SlotOK
<1>6. Act(w) = [pc |-> "act", plan |-> p, row |-> old, goal |-> serving[w].goal]
  BY <1>1 DEF Act
<1>7. PICK row : row = [old EXCEPT !.workflow_id = m + 1]
  OBVIOUS
<1>8. row \in PlanRow /\ row.workflow_id = m + 1
  <2>1. "workflow_id" \in AllFields
    BY DEF AllFields, PlanFields
  <2>2. m + 1 \in FieldValues
    BY <1>5 DEF FieldValues
  <2> HIDE DEF FieldValues
  <2> QED BY <2>1, <2>2, <1>5, <1>7 DEF PlanRow
<1> HIDE DEF PlanRow, FieldValues
<1>9. then.pc = "attach" /\ then.plan = p /\ then.row = row
  BY <1>2, <1>6, <1>7
<1>10. t.pc = "replace" /\ t.then.pc = "attach" /\ t.then.plan = p /\ t.then.row = row
  BY <1>3, <1>9
<1>11. /\ Len(workflows') = m + 1 /\ workflows' \in Seq(0..n) /\ workflows'[m + 1] = p
       /\ \A k \in 1..m : workflows'[k] = workflows[k]
  BY <1>4, <1>5 DEF SetupTypeInv
<1>12. /\ SetupTypeInv' /\ serving'[w] = t
       /\ \A v \in SetupSlots : v # w => serving'[v] = serving[v]
  <2>1. SlotOK(t, n)
    BY <1>5, <1>8, <1>10 DEF SlotOK
  <2>2. /\ plans' \in Seq(PlanRow) /\ Len(plans) <= Len(plans')
        /\ workflows' \in Seq(0..Len(plans')) /\ SlotOK(t, Len(plans'))
    BY <2>1, <1>4, <1>5, <1>11 DEF SetupTypeInv
  <2> QED BY <2>2, <1>4, SlotTypes
<1>13. UpdateInv'
  BY <1>4, <1>10, <1>12 DEF UpdateInv
<1>14. \A s : /\ Points(s, m) => Points(s, m + 1)
              /\ Aims(s, m) => Aims(s, m + 1)
              /\ \A q : Heals(s, q, m + 1) => Heals(s, q, m)
              /\ \A q, k : Heals(s, q, m) /\ HasMade(s, k) => Heals(s, q, m + 1)
  BY <1>5, More
<1>15. PointsInv'
  <2>1. Aims(t, m + 1)
    BY <1>5, <1>8, <1>10 DEF Aims
  <2> QED BY <2>1, <1>4, <1>10, <1>11, <1>12, <1>14 DEF PointsInv
<1>16. /\ \A q, i : Heals(t, q, i) <=> q = p
       /\ HasMade(t, m + 1)
       /\ \A k : ~ HasMade(serving[w], k)
       /\ \A q : Heals(serving[w], q, m) => q = p
       /\ Heals(serving[w], p, m)
  <2>1. old.workflow_id \notin 1..m
    BY <1>1 DEF CreateWorkflow, HasWorkflow, SetupTypeInv
  <2> QED BY <2>1, <1>1, <1>4, <1>8, <1>10 DEF Heals, HasMade
<1>17. \A v \in SetupSlots : \A q : Heals(serving'[v], q, m + 1) => Heals(serving[v], q, m)
  BY <1>12, <1>14, <1>16
<1>18. HealInv'
  <2>1. ASSUME NEW q \in 1..n, q \notin doubled, NEW u \in SetupSlots, NEW v \in SetupSlots,
               Heals(serving'[u], q, m + 1), Heals(serving'[v], q, m + 1)
        PROVE  u = v
    BY <2>1, <1>17 DEF HealInv
  <2>2. ASSUME NEW k \in 1..m + 1, workflows'[k] # 0, workflows'[k] \notin doubled \cup overlaid
        PROVE  /\ \A v \in SetupSlots : Heals(serving'[v], workflows'[k], m + 1) => HasMade(serving'[v], k)
               /\ \/ plans'[workflows'[k]].workflow_id = k
                  \/ \E v \in SetupSlots : Heals(serving'[v], workflows'[k], m + 1)
    <3>1. PICK q : q = workflows'[k]
      OBVIOUS
    <3>2. q = p /\ k # m + 1 => FALSE
      <4>1. SUFFICES ASSUME q = p, k # m + 1 PROVE FALSE
        OBVIOUS
      <4>2. k \in 1..m /\ workflows[k] = p
        BY <4>1, <3>1, <1>5, <1>11
      <4>3. HasMade(serving[w], k)
        BY <4>1, <4>2, <3>1, <2>2, <1>16 DEF HealInv
      <4> QED BY <4>3, <1>16
    <3>3. CASE k = m + 1
      <4>1. q = p
        BY <3>3, <3>1, <1>11
      <4>2. \A v \in SetupSlots : Heals(serving'[v], p, m + 1) => v = w
        BY <4>1, <3>1, <2>2, <1>5, <1>16, <1>17 DEF HealInv
      <4>3. Heals(serving'[w], p, m + 1) /\ HasMade(serving'[w], k)
        BY <3>3, <1>12, <1>16
      <4> QED BY <4>1, <4>2, <4>3, <3>1
    <3>4. CASE k # m + 1
      <4>1. k \in 1..m /\ q = workflows[k] /\ q # p
        BY <3>4, <3>1, <3>2, <1>5, <1>11
      <4>2. /\ \A v \in SetupSlots : Heals(serving[v], q, m) => HasMade(serving[v], k)
            /\ plans[q].workflow_id = k \/ \E v \in SetupSlots : Heals(serving[v], q, m)
        BY <4>1, <3>1, <2>2 DEF HealInv
      <4>3. \A v \in SetupSlots : Heals(serving'[v], q, m + 1) => v # w
        BY <4>1, <1>12, <1>16
      <4>4. \A v \in SetupSlots : Heals(serving'[v], q, m + 1) => HasMade(serving'[v], k)
        BY <4>2, <4>3, <1>12, <1>17
      <4>5. \A v \in SetupSlots : Heals(serving[v], q, m) => Heals(serving'[v], q, m + 1)
        BY <4>1, <4>2, <1>12, <1>14, <1>16
      <4>6. plans'[q].workflow_id = k \/ \E v \in SetupSlots : Heals(serving'[v], q, m + 1)
        BY <4>2, <4>5, <1>4
      <4> QED BY <4>4, <4>6, <3>1
    <3> QED BY <3>3, <3>4
  <2> QED BY <2>1, <2>2, <1>4, <1>11 DEF HealInv
<1> QED BY <1>12, <1>13, <1>15, <1>18 DEF PlanInv

-----------------------------------------------------------------------------
(* The invariant holds at the start and after every step.                   *)
LEMMA PlanStep == ASSUME PlanInv, SetupAssumption, [SetupNext]_setupVars PROVE PlanInv'
<1>1. CASE UNCHANGED setupVars
  <2>1. plans' = plans /\ workflows' = workflows /\ serving' = serving
        /\ overlaid' = overlaid /\ doubled' = doubled
    BY <1>1 DEF setupVars
  <2> QED BY <2>1 DEF PlanInv, SetupTypeInv, UpdateInv, PointsInv, HealInv
<1>2. CASE PostWorkflow
  BY <1>2, PostStep
<1>3. ASSUME NEW w \in SetupSlots, NEW type \in PlanTypes, NEW objective \in {Missing, "given"},
             CreatePlan(w, type, objective)
      PROVE  PlanInv'
  BY <1>3, CreateStep
<1>4. ASSUME NEW w \in SetupSlots, NEW p \in DOMAIN plans, NEW updates \in Patches,
             PatchPlan(w, p, updates)
      PROVE  PlanInv'
  BY <1>4, PatchStep
<1>5. ASSUME NEW w \in SetupSlots, NEW p \in DOMAIN plans, NEW goal, OpenPlan(w, p, goal)
      PROVE  PlanInv'
  BY <1>5, OpenStep
<1>6. ASSUME NEW w \in SetupSlots, SavePlan(w) PROVE PlanInv'
  BY <1>6, SaveStep
<1>7. ASSUME NEW w \in SetupSlots, CreateWorkflow(w) PROVE PlanInv'
  BY <1>7, WorkflowStep
<1>8. ASSUME NEW w \in SetupSlots, AttachWorkflow(w) PROVE PlanInv'
  BY <1>8, AttachStep
<1>9. ASSUME NEW w \in SetupSlots, Drop(w) PROVE PlanInv'
  BY <1>9, DropStep
<1>10. ASSUME NEW w \in SetupSlots,
              \/ \E t \in Targets : \E items \in RowPosts : PutRows(w, t, items)
              \/ \E t \in WorkflowTargets :
                   \/ SeedRows(w, t)
                   \/ \E from \in WorkflowTargets : PutListed(w, t, from)
              \/ DeleteRows(w) \/ WriteRow(w) \/ RowsWritten(w) \/ Attached(w)
              \/ AnswerCreated(w) \/ SelectRecords(w) \/ ImportRecord(w) \/ AnswerImport(w)
       PROVE  PlanInv'
  BY <1>10, QuietSteps
<1> QED BY <1>1, <1>2, <1>3, <1>4, <1>5, <1>6, <1>7, <1>8, <1>9, <1>10, Zenon DEF SetupNext

(* It holds of an empty engine.                                             *)
LEMMA PlanInit == ASSUME SetupInit PROVE PlanInv
<1>1. plans = <<>> /\ workflows = <<>> /\ serving = [w \in SetupSlots |-> Waiting]
  BY DEF SetupInit
<1>2. \A w \in SetupSlots : serving[w].pc = "free"
  BY <1>1 DEF Waiting
<1>3. SetupTypeInv
  BY <1>1, <1>2 DEF SetupTypeInv, SlotOK
<1>4. UpdateInv
  BY <1>2 DEF UpdateInv
<1>5. PointsInv
  BY <1>1, <1>2 DEF PointsInv, Aims
<1>6. HealInv
  BY <1>1 DEF HealInv
<1> QED BY <1>3, <1>4, <1>5, <1>6 DEF PlanInv

(* It is an invariant.                                                      *)
LEMMA PlansInductive == ASSUME SetupAssumption PROVE SetupSpec => []PlanInv
<1>1. SetupInit => PlanInv
  BY PlanInit
<1>2. PlanInv /\ [SetupNext]_setupVars => PlanInv'
  BY PlanStep
<1> QED BY <1>1, <1>2, PTL DEF SetupSpec

-----------------------------------------------------------------------------
(* Whatever the types, patches and the number of requests in flight are: a  *)
(* workflow made for a plan is attached to it or about to be, and a plan    *)
(* that nothing is missing from has a workflow that exists, unless two      *)
(* requests, a client's pointer or a request that died came between         *)
(* (routers/setup.py:632-677, setup_engine.py:643-683).                     *)
THEOREM WorkflowsAttached == SetupSpec => []WorkflowsAreAttached
<1>1. PlanInv => WorkflowsAreAttached
  <2> SUFFICES ASSUME PlanInv PROVE WorkflowsAreAttached
    OBVIOUS
  <2> SetupTypeInv /\ PointsInv /\ HealInv
    BY DEF PlanInv
  <2>1. DOMAIN workflows = 1..Len(workflows) /\ DOMAIN plans = 1..Len(plans)
    BY DEF SetupTypeInv
  <2>2. ASSUME NEW k \in DOMAIN workflows, workflows[k] # 0, workflows[k] \notin doubled \cup overlaid
        PROVE  plans[workflows[k]].workflow_id = k \/ Healing(workflows[k]) # {}
    <3>1. \A w \in SetupSlots : Heals(serving[w], workflows[k], Len(workflows)) => w \in Healing(workflows[k])
      BY <2>1 DEF Heals, Healing, HasWorkflow
    <3> QED BY <3>1, <2>1, <2>2 DEF HealInv
  <2>3. ASSUME NEW p \in DOMAIN plans \ doubled, missing_prerequisites(p) = {}
        PROVE  plans[p].workflow_id \in DOMAIN workflows
    <3>1. plans[p].workflow_id # Missing
      BY <2>3 DEF missing_prerequisites, PlanFields
    <3> QED BY <3>1, <2>1 DEF PointsInv, Points
  <2> QED BY <2>2, <2>3 DEF WorkflowsAreAttached
<1>2. SetupSpec => []PlanInv
  BY PlansInductive, SetupAssumption
<1> QED BY <1>1, <1>2, PTL

(* A save of a plan changes the fields that its update names and no other,  *)
(* though it writes the whole row, unless another update was under way      *)
(* (setup_engine.py:233-242).                                               *)
THEOREM NamedFieldsOnly == SetupSpec => OnlyNamedFieldsChange
<1> DEFINE Named == \A p \in DOMAIN plans : \A f \in DOMAIN plans[p] :
                      plans'[p][f] # plans[p][f] =>
                        \/ p \in overlaid
                        \/ \E w \in Updating(p) : f \in DOMAIN serving[w].updates
<1>1. ASSUME PlanInv, SetupNext PROVE Named
  <2> SUFFICES ASSUME NEW p \in DOMAIN plans, NEW f \in DOMAIN plans[p], plans'[p][f] # plans[p][f]
               PROVE  \/ p \in overlaid
                      \/ \E w \in Updating(p) : f \in DOMAIN serving[w].updates
    OBVIOUS
  <2> SetupTypeInv /\ UpdateInv
    BY <1>1 DEF PlanInv
  <2>1. p \in 1..Len(plans)
    BY DEF SetupTypeInv
  <2>2. plans' # plans /\ plans'[p] # plans[p]
    OBVIOUS
  <2>3. PICK w \in SetupSlots : SavePlan(w)
    <3>1. ~ \E w \in SetupSlots, type \in PlanTypes, objective \in {Missing, "given"} :
              CreatePlan(w, type, objective)
      <4>1. ASSUME NEW row, plans' = Append(plans, row) PROVE plans'[p] = plans[p]
        <5>1. PICK S : S = PlanRow \cup {row}
          OBVIOUS
        <5>2. plans \in Seq(S) /\ row \in S
          BY <5>1 DEF SetupTypeInv
        <5> QED BY <5>2, <4>1, <2>1
      <4>2. SUFFICES ASSUME NEW w \in SetupSlots, NEW type \in PlanTypes,
                            NEW objective \in {Missing, "given"}, CreatePlan(w, type, objective)
                     PROVE  FALSE
        OBVIOUS
      <4>3. PICK row : plans' = Append(plans, row)
        BY <4>2, Zenon DEF CreatePlan
      <4> QED BY <4>1, <4>3, <2>2
    <3>2. ASSUME PostWorkflow PROVE plans' = plans
      BY <3>2 DEF PostWorkflow
    <3>3. ASSUME NEW w, NEW q, NEW updates, PatchPlan(w, q, updates) PROVE plans' = plans
      BY <3>3 DEF PatchPlan, ReadPlan
    <3>4. ASSUME NEW w, NEW q, NEW goal, OpenPlan(w, q, goal) PROVE plans' = plans
      BY <3>4 DEF OpenPlan
    <3>5. ASSUME NEW w, NEW t, NEW items, PutRows(w, t, items) PROVE plans' = plans
      BY <3>5 DEF PutRows
    <3>6. ASSUME NEW w, NEW t, NEW from, SeedRows(w, t) \/ PutListed(w, t, from) PROVE plans' = plans
      BY <3>6 DEF SeedRows, PutListed
    <3>7. ASSUME NEW w, \/ DeleteRows(w) \/ WriteRow(w) \/ RowsWritten(w) \/ Attached(w)
                       \/ CreateWorkflow(w) \/ AttachWorkflow(w) \/ AnswerCreated(w)
                       \/ SelectRecords(w) \/ ImportRecord(w) \/ AnswerImport(w) \/ Drop(w)
          PROVE  plans' = plans
      BY <3>7 DEF DeleteRows, WriteRow, RowsWritten, Attached, CreateWorkflow, AttachWorkflow,
                  ReadPlan, AnswerCreated, SelectRecords, ImportRecord, AnswerImport, Drop
    <3> QED BY <3>1, <3>2, <3>3, <3>4, <3>5, <3>6, <3>7, <2>2, <1>1, Zenon DEF SetupNext
  <2>4. /\ serving[w].pc = "update" /\ plans' = [plans EXCEPT ![serving[w].plan] = serving[w].row]
    BY <2>3 DEF SavePlan
  <2>5. p = serving[w].plan /\ plans'[p] = serving[w].row
    BY <2>1, <2>2, <2>4 DEF SetupTypeInv
  <2>6. w \in Updating(p)
    BY <2>4, <2>5 DEF Updating
  <2>7. p \notin overlaid => serving[w].row = Updated(plans[p], serving[w].updates)
    BY <2>4, <2>5 DEF UpdateInv
  <2>8. p \notin overlaid => f \in DOMAIN serving[w].updates
    BY <2>5, <2>7 DEF Updated
  <2> QED BY <2>6, <2>8
<1>2. ASSUME UNCHANGED setupVars PROVE Named
  BY <1>2 DEF setupVars
<1>3. PlanInv /\ [SetupNext]_setupVars => [Named]_setupVars
  BY <1>1, <1>2
<1>4. SetupSpec => []PlanInv
  BY PlansInductive, SetupAssumption
<1> QED BY <1>3, <1>4, PTL DEF SetupSpec, OnlyNamedFieldsChange

-----------------------------------------------------------------------------
(* Lists.                                                                   *)

(* A set of naturals that is not empty has a least element.                 *)
LEMMA Least ==
    ASSUME NEW T, T \subseteq Nat, T # {}
    PROVE  \E m \in T : \A x \in T : m <= x
<1>1. PICK m \in T : \A x \in T : ~ (<<x, m>> \in OpToRel(<, Nat))
  BY NatLessThanWellFounded, WFMin, Zenon
<1>2. ASSUME NEW x \in T PROVE m <= x
  <2>1. ~ (<<x, m>> \in OpToRel(<, Nat))
    BY <1>1
  <2>2. x \in Nat /\ m \in Nat
    OBVIOUS
  <2>3. ~ (x < m)
    BY <2>1, <2>2 DEF OpToRel
  <2> QED BY <2>2, <2>3
<1> QED BY <1>2

(* What holds of the empty beginning of a list, and with each beginning of  *)
(* the next, holds of all of it.                                            *)
LEMMA ToTheEnd ==
    ASSUME NEW n \in Nat, NEW T \in SUBSET (0..n), 0 \in T,
           \A i \in 1..n : i - 1 \in T => i \in T
    PROVE  n \in T
<1> SUFFICES ASSUME n \notin T PROVE FALSE
  OBVIOUS
<1> DEFINE Rest == (0..n) \ T
<1>1. Rest # {} /\ Rest \subseteq Nat
  OBVIOUS
<1>2. PICK m \in Rest : \A x \in Rest : m <= x
  BY <1>1, Least
<1>3. m \in 1..n /\ m - 1 \in 0..n /\ ~ (m <= m - 1)
  BY <1>2
<1>4. m - 1 \in T
  BY <1>2, <1>3
<1> QED BY <1>2, <1>3, <1>4

(* The recursion that makes a list has a solution.                          *)
Grown(list, f, i) ==
    IF i = 0 THEN <<>> ELSE IF i \in DOMAIN f THEN Append(list[i - 1], f[i]) ELSE list[i - 1]
Makes(list, f, n) == list = [i \in 0..n |-> Grown(list, f, i)]

(* By induction on the length, with the list of one less for a witness.     *)
LEMMA ListExists == ASSUME NEW f, NEW n \in Nat PROVE \E list : Makes(list, f, n)
<1> DEFINE T == {m \in 0..n : \E list : Makes(list, f, m)}
<1>1. 0 \in T
  <2>1. PICK list : list = [i \in 0..0 |-> <<>>]
    OBVIOUS
  <2>2. \A i \in 0..0 : Grown(list, f, i) = <<>>
    BY DEF Grown
  <2>3. Makes(list, f, 0)
    BY <2>1, <2>2, Zenon DEF Makes
  <2> QED BY <2>3
<1>2. ASSUME NEW m \in 1..n, m - 1 \in T
      PROVE  m \in T
  <2>1. PICK list : Makes(list, f, m - 1)
    BY <1>2
  <2>2. PICK longer : longer = [i \in 0..m |-> IF i = m THEN Grown(list, f, m) ELSE list[i]]
    OBVIOUS
  <2>3. ASSUME NEW i \in 0..m PROVE longer[i] = Grown(longer, f, i)
    <3>1. CASE i = m
      <4>1. m # 0 /\ m - 1 \in 0..m /\ m - 1 # m
        OBVIOUS
      <4>2. longer[m - 1] = list[m - 1]
        BY <2>2, <4>1
      <4>3. longer[m] = Grown(list, f, m)
        BY <2>2
      <4> QED BY <3>1, <4>1, <4>2, <4>3 DEF Grown
    <3>2. CASE i # m
      <4>1. i \in 0..(m - 1) /\ longer[i] = list[i]
        BY <2>2, <3>2
      <4>2. list[i] = Grown(list, f, i)
        BY <2>1, <4>1 DEF Makes
      <4>3. i # 0 => i - 1 \in 0..m /\ i - 1 # m
        BY <4>1
      <4>4. i # 0 => longer[i - 1] = list[i - 1]
        BY <2>2, <4>3
      <4> QED BY <4>1, <4>2, <4>4 DEF Grown
    <3> QED BY <3>1, <3>2
  <2>4. longer = [i \in 0..m |-> longer[i]]
    BY <2>2
  <2>5. Makes(longer, f, m)
    BY <2>3, <2>4 DEF Makes
  <2> QED BY <2>5
<1>3. n \in T
  <2> HIDE DEF T
  <2>1. T \in SUBSET (0..n)
    BY DEF T
  <2> QED BY <1>1, <1>2, <2>1, ToTheEnd
<1> QED BY <1>3

(* A list has each value of the function once, and no other.                *)
Enumerates(g, l, f, D) ==
    /\ g \in [1..Len(l) -> D]
    /\ \A k \in 1..Len(l) : l[k] = f[g[k]]
    /\ \A j, k \in 1..Len(l) : g[j] = g[k] => j = k
    /\ \A i \in D : \E k \in 1..Len(l) : g[k] = i

(* So is what a list holds found along its beginnings.                      *)
LEMMA ListedOnce ==
    ASSUME NEW f, NEW n \in Nat, NEW D \in SUBSET (1..n), DOMAIN f = D,
           NEW S, \A i \in D : f[i] \in S
    PROVE  Listed(f, n) \in Seq(S) /\ \E g : Enumerates(g, Listed(f, n), f, D)
<1> DEFINE Made(l) == l = [i \in 0..n |->
                IF i = 0 THEN <<>> ELSE IF i \in DOMAIN f THEN Append(l[i - 1], f[i]) ELSE l[i - 1]]
<1>1. \A l : Makes(l, f, n) <=> Made(l)
  BY Zenon DEF Makes, Grown
<1>2. \E l : Made(l)
  BY <1>1, ListExists
<1>3. PICK list : list = CHOOSE l : Made(l)
  OBVIOUS
<1>4. Listed(f, n) = list[n]
  BY <1>3, Zenon DEF Listed
<1> HIDE DEF Made
<1>5. Makes(list, f, n)
  BY <1>1, <1>2, <1>3, Zenon
<1> DEFINE T == {i \in 0..n : list[i] \in Seq(S) /\ \E g : Enumerates(g, list[i], f, D \cap (1..i))}
<1>6. 0 \in T
  <2>1. list[0] = <<>>
    BY <1>5 DEF Makes, Grown
  <2>2. PICK g : g = [k \in {} |-> 0]
    OBVIOUS
  <2>3. D \cap (1..0) = {} /\ 1..Len(list[0]) = {}
    BY <2>1
  <2>4. PICK none : none = {}
    OBVIOUS
  <2>5. D \cap (1..0) = none /\ 1..Len(list[0]) = none /\ g \in [none -> none] /\ \A k \in none : FALSE
    BY <2>2, <2>3, <2>4
  <2>6. Enumerates(g, list[0], f, D \cap (1..0))
    <3>1. g \in [1..Len(list[0]) -> D \cap (1..0)]
      BY <2>5, Zenon
    <3>2. \A k \in 1..Len(list[0]) : FALSE
      BY <2>5, Zenon
    <3>3. \A i \in D \cap (1..0) : FALSE
      BY <2>5, Zenon
    <3> QED BY <3>1, <3>2, <3>3, Zenon DEF Enumerates
  <2>7. list[0] \in Seq(S) /\ 0 \in 0..n
    BY <2>1
  <2> QED BY <2>6, <2>7, Zenon
<1>7. ASSUME NEW i \in 1..n, i - 1 \in T
      PROVE  i \in T
  <2>1. list[i] = Grown(list, f, i)
    BY <1>5 DEF Makes
  <2>2. PICK l \in Seq(S) : l = list[i - 1]
    BY <1>7
  <2>3. PICK g : Enumerates(g, l, f, D \cap (1..(i - 1)))
    BY <1>7, <2>2
  <2>4. PICK m \in Nat : m = Len(l) /\ DOMAIN l = 1..m
    OBVIOUS
  <2>5. /\ g \in [1..m -> D \cap (1..(i - 1))]
        /\ \A k \in 1..m : l[k] = f[g[k]]
        /\ \A j, k \in 1..m : g[j] = g[k] => j = k
        /\ \A x \in D \cap (1..(i - 1)) : \E k \in 1..m : g[k] = x
    BY <2>3, <2>4 DEF Enumerates
  <2>6. CASE i \in D
    <3>1. PICK l1 : l1 = Append(l, f[i])
      OBVIOUS
    <3>2. /\ l1 \in Seq(S) /\ Len(l1) = m + 1 /\ l1[m + 1] = f[i]
          /\ \A k \in 1..m : l1[k] = l[k]
      BY <2>4, <2>6, <3>1
    <3>3. list[i] = l1
      BY <2>1, <2>2, <2>6, <3>1 DEF Grown
    <3>4. PICK h : h = [k \in 1..(m + 1) |-> IF k = m + 1 THEN i ELSE g[k]]
      OBVIOUS
    <3>5. h[m + 1] = i /\ \A k \in 1..m : h[k] = g[k] /\ h[k] \in D /\ h[k] \in 1..(i - 1)
      BY <2>5, <3>4
    <3>6. \A k \in 1..(m + 1) : k = m + 1 \/ k \in 1..m
      OBVIOUS
    <3>7. h \in [1..(m + 1) -> D \cap (1..i)]
      <4>1. \A k \in 1..(m + 1) : h[k] \in D \cap (1..i)
        BY <2>6, <3>5, <3>6
      <4> QED BY <3>4, <4>1
    <3>8. \A k \in 1..(m + 1) : l1[k] = f[h[k]]
      BY <2>5, <3>2, <3>5, <3>6
    <3>9. \A j, k \in 1..(m + 1) : h[j] = h[k] => j = k
      BY <2>5, <3>5, <3>6
    <3>10. ASSUME NEW x \in D \cap (1..i) PROVE \E k \in 1..(m + 1) : h[k] = x
      <4>1. x = i \/ x \in D \cap (1..(i - 1))
        OBVIOUS
      <4>2. \A k \in 1..m : k \in 1..(m + 1)
        OBVIOUS
      <4>3. m + 1 \in 1..(m + 1)
        OBVIOUS
      <4> QED BY <2>5, <3>5, <4>1, <4>2, <4>3
    <3>11. Enumerates(h, l1, f, D \cap (1..i))
      BY <3>2, <3>7, <3>8, <3>9, <3>10 DEF Enumerates
    <3> QED BY <3>2, <3>3, <3>11
  <2>7. CASE i \notin D
    <3>1. list[i] = l
      BY <2>1, <2>2, <2>7 DEF Grown
    <3>2. D \cap (1..i) = D \cap (1..(i - 1))
      <4>1. \A x \in D : x \in 1..i <=> x \in 1..(i - 1)
        BY <2>7
      <4> QED BY <4>1
    <3>3. list[i] \in Seq(S) /\ i \in 0..n
      BY <3>1
    <3>4. Enumerates(g, list[i], f, D \cap (1..i))
      BY <2>3, <3>1, <3>2
    <3> QED BY <3>3, <3>4, Zenon
  <2> QED BY <2>6, <2>7
<1>8. n \in T
  <2> HIDE DEF T
  <2>1. T \in SUBSET (0..n)
    BY DEF T
  <2> QED BY <1>6, <1>7, <2>1, ToTheEnd
<1>9. D \cap (1..n) = D
  OBVIOUS
<1> QED BY <1>4, <1>8, <1>9

-----------------------------------------------------------------------------
(* The rows of a target.                                                    *)

(* Identifiers given by the first n saves.                                  *)
Ids(n) == (1..n) \X Nat
Replaces(todo, n) ==
    /\ IsList(todo)
    /\ \A i \in DOMAIN todo :
         /\ DOMAIN todo[i] = {"id", "item"}
         /\ todo[i].id = Missing \/ todo[i].id \in Ids(n)
         /\ \A j \in DOMAIN todo : todo[i].id = todo[j].id => i = j \/ todo[i].id = Missing
Writes(todo, n) ==
    /\ IsList(todo)
    /\ \A i \in DOMAIN todo :
         /\ todo[i].id \in Ids(n)
         /\ \A j \in DOMAIN todo : todo[i].id = todo[j].id => i = j
SlotRows(s, n) ==
    /\ s.pc = "replace" => Replaces(s.todo, n)
    /\ s.pc = "write" => Writes(s.todo, n)

(* Identifiers are given once, by saves that took place.                    *)
RowIds(r, n) ==
    /\ IsList(r)
    /\ \A i \in DOMAIN r :
         /\ r[i].id \in Ids(n)
         /\ \A j \in DOMAIN r : r[i].id = r[j].id => i = j
RowsTypeInv ==
    /\ saves \in Nat
    /\ RowIds(rows, saves)
    /\ \A w \in SetupSlots : SlotRows(serving[w], saves)

(* The rows of a target are of one save, as many as it has already written. *)
AtTarget(r, t) == {i \in DOMAIN r : r[i].target = t}
IdsAt(r, t) == {r[i].id : i \in AtTarget(r, t)}
WritesTo(s, t) == s.pc = "write" /\ s.target = t
Underway(s, r, t) ==
    /\ \A i \in AtTarget(r, t) : r[i].save = s.save /\ r[i].of = s.of
    /\ \A i \in DOMAIN s.todo : s.todo[i].id \notin IdsAt(r, t)
    /\ Cardinality(IdsAt(r, t)) + Len(s.todo) = s.of
Done(r, t) ==
    \A i, j \in AtTarget(r, t) : r[i].save = r[j].save /\ r[i].of = Cardinality(IdsAt(r, t))
Whole(slots, r, t) ==
    /\ \A v, w \in SetupSlots : WritesTo(slots[v], t) /\ WritesTo(slots[w], t) => v = w
    /\ \A w \in SetupSlots : WritesTo(slots[w], t) => Underway(slots[w], r, t)
    /\ (\A w \in SetupSlots : ~ WritesTo(slots[w], t)) => Done(r, t)

RowsInv ==
    /\ RowsTypeInv
    /\ \A t : t \notin contested => Whole(serving, rows, t)

(* A list is a function on its positions.                                   *)
LEMMA ListIs ==
    ASSUME NEW s, IsList(s)
    PROVE  Len(s) \in Nat /\ DOMAIN s = 1..Len(s) /\ \A i \in DOMAIN s : s[i] \in Range(s)
<1>1. \A T : s \in Seq(T) => Len(s) \in Nat /\ DOMAIN s = 1..Len(s)
  OBVIOUS
<1> QED BY <1>1 DEF IsList, Range

(* A sequence of anything is a list.                                        *)
LEMMA IsAList ==
    ASSUME NEW T, NEW s \in Seq(T)
    PROVE  IsList(s)
<1>1. \A i \in 1..Len(s) : s[i] \in Range(s)
  BY DEF Range
<1>2. \A S : (\A i \in 1..Len(s) : s[i] \in S) => s \in Seq(S)
  OBVIOUS
<1> QED BY <1>1, <1>2, Zenon DEF IsList

(* Posted, default and template rows are lists of items.                    *)
LEMMA ItemLists ==
    ASSUME SetupAssumption
    PROVE  /\ IsList(DefaultRules) /\ IsList(DefaultSources)
           /\ \A type \in DOMAIN WORKFLOW_TEMPLATES : IsList(WORKFLOW_TEMPLATES[type])
           /\ \A items \in RowPosts : IsList(items)
BY IsAList, Zenon DEF SetupAssumption

(* A function on 1..n is a list of n values.                                *)
LEMMA ListMade ==
    ASSUME NEW n \in Nat, NEW s, DOMAIN s = 1..n, s = [i \in 1..n |-> s[i]]
    PROVE  IsList(s) /\ Len(s) = n
<1>1. \A i \in 1..n : s[i] \in Range(s)
  BY DEF Range
<1>2. s \in Seq(Range(s)) /\ Len(s) = n
  BY <1>1
<1> QED BY <1>2 DEF IsList

(* What a filter of a list keeps.                                           *)
LEMMA ListKeeps ==
    ASSUME NEW s, IsList(s), NEW D \in SUBSET DOMAIN s, NEW f, f = [i \in D |-> s[i]]
    PROVE  LET l == Listed(f, Len(s))
           IN  IsList(l) /\ \E g : Enumerates(g, l, s, D)
<1>1. Len(s) \in Nat /\ DOMAIN s = 1..Len(s) /\ \A i \in DOMAIN s : s[i] \in Range(s)
  BY ListIs
<1>2. DOMAIN f = D /\ \A i \in D : f[i] = s[i] /\ f[i] \in Range(s)
  BY <1>1
<1>3. PICK n \in Nat : n = Len(s)
  BY <1>1
<1>4. PICK S : S = Range(s)
  OBVIOUS
<1>5. D \in SUBSET (1..n)
  BY <1>1, <1>3
<1>6. Listed(f, n) \in Seq(S) /\ \E g : Enumerates(g, Listed(f, n), f, D)
  BY <1>2, <1>4, <1>5, ListedOnce
<1>7. PICK l : l = Listed(f, n)
  OBVIOUS
<1>8. IsList(l)
  BY <1>6, <1>7, IsAList
<1>9. PICK g : Enumerates(g, l, f, D)
  BY <1>6, <1>7
<1>10. Enumerates(g, l, s, D)
  BY <1>2, <1>9 DEF Enumerates
<1> QED BY <1>3, <1>7, <1>8, <1>10

(* The rows of a target, in a list: as many as their identifiers.           *)
LEMMA RowsOfTarget ==
    ASSUME NEW n, RowIds(rows, n), NEW t
    PROVE  /\ IsList(RowsOf(t))
           /\ \E g : Enumerates(g, RowsOf(t), rows, AtTarget(rows, t))
           /\ IsFiniteSet(IdsAt(rows, t))
           /\ Len(RowsOf(t)) = Cardinality(IdsAt(rows, t))
<1>1. IsList(rows)
  BY DEF RowIds
<1>2. PICK D : D = AtTarget(rows, t)
  OBVIOUS
<1>3. D \in SUBSET DOMAIN rows
  BY <1>2 DEF AtTarget
<1>4. PICK f : f = [i \in D |-> rows[i]]
  OBVIOUS
<1>5. PICK l : l = Listed(f, Len(rows))
  OBVIOUS
<1>6. IsList(l) /\ \E g : Enumerates(g, l, rows, D)
  BY <1>1, <1>3, <1>4, <1>5, ListKeeps
<1>7. RowsOf(t) = l
  BY <1>2, <1>4, <1>5, Zenon DEF RowsOf, RestrictValues, Restrict, AtTarget
<1>8. PICK g : Enumerates(g, l, rows, D)
  BY <1>6
<1>9. PICK m \in Nat : m = Len(l)
  BY <1>6, ListIs
<1>10. /\ g \in [1..m -> D]
       /\ \A j, k \in 1..m : g[j] = g[k] => j = k
       /\ \A i \in D : \E k \in 1..m : g[k] = i
  BY <1>8, <1>9 DEF Enumerates
<1>11. PICK I : I = IdsAt(rows, t)
  OBVIOUS
<1>12. PICK h : h = [k \in 1..m |-> rows[g[k]].id]
  OBVIOUS
<1>13. h \in Bijection(1..m, I)
  <2>1. \A k \in 1..m : g[k] \in D /\ h[k] = rows[g[k]].id
    BY <1>10, <1>12
  <2>2. \A k \in 1..m : h[k] \in I
    BY <1>2, <1>11, <2>1 DEF IdsAt
  <2>3. h \in [1..m -> I]
    BY <1>12, <2>2
  <2>4. \A i, j \in D : rows[i].id = rows[j].id => i = j
    BY <1>3 DEF RowIds
  <2>5. \A j, k \in 1..m : h[j] = h[k] => j = k
    BY <1>10, <2>1, <2>4
  <2>6. \A x \in I : \E k \in 1..m : h[k] = x
    <3> SUFFICES ASSUME NEW x \in I PROVE \E k \in 1..m : h[k] = x
      OBVIOUS
    <3>1. PICK i \in D : x = rows[i].id
      BY <1>2, <1>11 DEF IdsAt
    <3>2. PICK k \in 1..m : g[k] = i
      BY <1>10
    <3> QED BY <2>1, <3>1, <3>2
  <2>7. DOMAIN h = 1..m
    BY <1>12
  <2> QED BY <2>3, <2>5, <2>6, <2>7, Zenon DEF Bijection, Injection, Surjection, IsInjective
<1>14. IsFiniteSet(1..m) /\ Cardinality(1..m) = m
  BY FS_Interval
<1>15. IsFiniteSet(I) /\ Cardinality(I) = m
  BY <1>13, <1>14, FS_Bijection DEF ExistsBijection
<1> QED BY <1>2, <1>6, <1>7, <1>9, <1>11, <1>15

(* New rows, and rows as they are listed, have identifiers that a save can  *)
(* give them.                                                               *)
LEMMA FreshRows ==
    ASSUME NEW items, IsList(items), NEW n \in Nat
    PROVE  Replaces(Fresh(items), n)
<1>1. Len(items) \in Nat /\ DOMAIN items = 1..Len(items)
  BY ListIs
<1>2. PICK m \in Nat : m = Len(items)
  BY <1>1
<1>3. PICK s : s = Fresh(items)
  OBVIOUS
<1>4. s = [i \in 1..m |-> [id |-> Missing, item |-> items[i]]]
  BY <1>1, <1>2, <1>3 DEF Fresh
<1>5. DOMAIN s = 1..m /\ s = [i \in 1..m |-> s[i]]
  BY <1>4
<1>6. IsList(s)
  BY <1>5, ListMade
<1>7. \A i \in 1..m : s[i].id = Missing /\ DOMAIN s[i] = {"id", "item"}
  BY <1>4
<1> QED BY <1>3, <1>5, <1>6, <1>7 DEF Replaces

(* Rows as they are listed are a save's too.                                *)
LEMMA ListedAtTarget ==
    ASSUME NEW n, RowIds(rows, n), NEW t
    PROVE  Replaces([i \in DOMAIN RowsOf(t) |->
                       [id |-> RowsOf(t)[i].id, item |-> RowsOf(t)[i].item]], n)
<1>1. PICK l : l = RowsOf(t)
  OBVIOUS
<1>2. IsList(l) /\ \E g : Enumerates(g, l, rows, AtTarget(rows, t))
  BY <1>1, RowsOfTarget
<1>3. PICK g : Enumerates(g, l, rows, AtTarget(rows, t))
  BY <1>2
<1>4. PICK m \in Nat : m = Len(l) /\ DOMAIN l = 1..m
  BY <1>2, ListIs
<1>5. PICK s : s = [i \in DOMAIN l |-> [id |-> l[i].id, item |-> l[i].item]]
  OBVIOUS
<1>6. DOMAIN s = 1..m /\ s = [i \in 1..m |-> s[i]]
  BY <1>4, <1>5
<1>7. IsList(s)
  BY <1>6, ListMade
<1>8. \A i \in 1..m : s[i].id = l[i].id /\ DOMAIN s[i] = {"id", "item"}
  BY <1>4, <1>5
<1>9. \A i \in 1..m : g[i] \in DOMAIN rows /\ l[i] = rows[g[i]] /\ \A j \in 1..m : g[i] = g[j] => i = j
  BY <1>3, <1>4 DEF Enumerates, AtTarget
<1>10. \A i, j \in 1..m : s[i].id \in Ids(n) /\ (s[i].id = s[j].id => i = j)
  BY <1>8, <1>9 DEF RowIds
<1> QED BY <1>1, <1>5, <1>6, <1>7, <1>8, <1>10 DEF Replaces

(* A save gives each row without an identifier one of its own.              *)
LEMMA Identifies ==
    ASSUME NEW n \in Nat, NEW todo, Replaces(todo, n)
    PROVE  Writes(Identified(todo, n + 1), n + 1) /\ Len(Identified(todo, n + 1)) = Len(todo)
<1>1. PICK m \in Nat : m = Len(todo) /\ DOMAIN todo = 1..m
  BY ListIs DEF Replaces
<1>2. PICK s : s = Identified(todo, n + 1)
  OBVIOUS
<1>3. s = [i \in 1..m |-> IF todo[i].id = Missing THEN [todo[i] EXCEPT !.id = <<n + 1, i>>] ELSE todo[i]]
  BY <1>1, <1>2, Zenon DEF Identified
<1>4. DOMAIN s = 1..m /\ s = [i \in 1..m |-> s[i]]
  BY <1>3
<1>5. IsList(s) /\ Len(s) = m
  BY <1>4, ListMade
<1>6. ASSUME NEW i \in 1..m
      PROVE  s[i].id = IF todo[i].id = Missing THEN <<n + 1, i>> ELSE todo[i].id
  <2>1. DOMAIN todo[i] = {"id", "item"}
    BY <1>1 DEF Replaces
  <2> QED BY <1>3, <2>1
<1>7. \A i \in 1..m : todo[i].id = Missing \/ todo[i].id \in Ids(n)
  BY <1>1 DEF Replaces
<1>8. \A i, j \in 1..m : todo[i].id = todo[j].id => i = j \/ todo[i].id = Missing
  BY <1>1 DEF Replaces
<1>9. \A x \in Ids(n) : x \in Ids(n + 1) /\ \A i : x # <<n + 1, i>>
  BY DEF Ids
<1>10. \A i \in 1..m : <<n + 1, i>> \in Ids(n + 1)
  BY DEF Ids
<1>11. \A i \in 1..m : s[i].id \in Ids(n + 1)
  BY <1>6, <1>7, <1>9, <1>10
<1>12. ASSUME NEW i \in 1..m, NEW j \in 1..m, s[i].id = s[j].id
       PROVE  i = j
  <2>1. CASE todo[i].id = Missing /\ todo[j].id = Missing
    <3>1. s[i].id = <<n + 1, i>> /\ s[j].id = <<n + 1, j>>
      BY <1>6, <2>1
    <3>2. \A x, y, z : <<x, y>> = <<x, z>> => y = z
      OBVIOUS
    <3>3. <<n + 1, i>> = <<n + 1, j>>
      BY <1>12, <3>1
    <3> HIDE <1>12
    <3> QED BY <3>2, <3>3
  <2>2. CASE todo[i].id # Missing /\ todo[j].id # Missing
    BY <1>6, <1>8, <1>12, <2>2
  <2>3. CASE todo[i].id = Missing /\ todo[j].id # Missing
    BY <1>6, <1>7, <1>9, <1>12, <2>3
  <2>4. CASE todo[i].id # Missing /\ todo[j].id = Missing
    BY <1>6, <1>7, <1>9, <1>12, <2>4
  <2> QED BY <2>1, <2>2, <2>3, <2>4
<1> QED BY <1>1, <1>2, <1>4, <1>5, <1>11, <1>12 DEF Writes

(* What a slot has in hand stays good when there are more saves.            *)
LEMMA MoreSaves ==
    ASSUME NEW n \in Nat, NEW s
    PROVE  /\ SlotRows(s, n) => SlotRows(s, n + 1)
           /\ \A r : RowIds(r, n) => RowIds(r, n + 1)
<1>1. \A x \in Ids(n) : x \in Ids(n + 1)
  BY DEF Ids
<1>2. Replaces(s.todo, n) => Replaces(s.todo, n + 1)
  BY <1>1 DEF Replaces
<1>3. Writes(s.todo, n) => Writes(s.todo, n + 1)
  BY <1>1 DEF Writes
<1>4. \A r : RowIds(r, n) => RowIds(r, n + 1)
  BY <1>1 DEF RowIds
<1> QED BY <1>2, <1>3, <1>4 DEF SlotRows

(* A step of a request that writes no rows, before it and after.            *)
LEMMA WritesNone ==
    ASSUME RowsInv, NEW w \in SetupSlots,
           \A v \in SetupSlots : v # w => serving'[v] = serving[v],
           serving[w].pc # "write", serving'[w].pc # "write", SlotRows(serving'[w], saves),
           rows' = rows, saves' = saves, contested' = contested
    PROVE  RowsInv'
<1>1. RowsTypeInv'
  <2>1. \A v \in SetupSlots : SlotRows(serving'[v], saves)
    BY DEF RowsInv, RowsTypeInv
  <2> QED BY <2>1 DEF RowsInv, RowsTypeInv
<1>2. ASSUME NEW t, t \notin contested
      PROVE  Whole(serving', rows, t)
  <2>1. Whole(serving, rows, t)
    BY <1>2 DEF RowsInv
  <2>2. \A v \in SetupSlots : WritesTo(serving'[v], t) <=> WritesTo(serving[v], t)
    BY DEF WritesTo
  <2>3. \A v \in SetupSlots : WritesTo(serving'[v], t) => serving'[v] = serving[v]
    BY DEF WritesTo
  <2> QED BY <2>1, <2>2, <2>3 DEF Whole
<1> QED BY <1>1, <1>2 DEF RowsInv

(* What is so of a target stays so while nobody writes to it that did not   *)
(* and its rows are the same, wherever they stand.                          *)
LEMMA SameRows ==
    ASSUME NEW slots, NEW slots2, NEW r, NEW q, NEW t, Whole(slots, r, t),
           \A w \in SetupSlots : WritesTo(slots2[w], t) <=> WritesTo(slots[w], t),
           \A w \in SetupSlots : WritesTo(slots2[w], t) => slots2[w] = slots[w],
           \A i \in AtTarget(q, t) : \E j \in AtTarget(r, t) : q[i] = r[j],
           \A j \in AtTarget(r, t) : \E i \in AtTarget(q, t) : q[i] = r[j]
    PROVE  Whole(slots2, q, t)
<1>1. IdsAt(q, t) = IdsAt(r, t)
  <2>1. \A x \in IdsAt(q, t) : x \in IdsAt(r, t)
    BY DEF IdsAt
  <2>2. \A x \in IdsAt(r, t) : x \in IdsAt(q, t)
    BY DEF IdsAt
  <2> QED BY <2>1, <2>2
<1>2. ASSUME NEW w \in SetupSlots, WritesTo(slots2[w], t) PROVE Underway(slots2[w], q, t)
  <2>1. Underway(slots[w], r, t) /\ slots2[w] = slots[w]
    BY <1>2 DEF Whole
  <2>2. Underway(slots[w], q, t)
    BY <2>1, <1>1 DEF Underway
  <2> QED BY <2>1, <2>2
<1>3. Done(r, t) => Done(q, t)
  BY <1>1 DEF Done
<1> QED BY <1>2, <1>3 DEF Whole

(* The save deletes the rows of its target, and of no other.                *)
LEMMA DeleteStep == ASSUME RowsInv, NEW w \in SetupSlots, DOMAIN serving = SetupSlots, DeleteRows(w)
                    PROVE RowsInv'
<1>1. PICK n \in Nat : n = saves
  BY DEF RowsInv, RowsTypeInv
<1>2. PICK t, todo, tobe : t = serving[w].target /\ todo = serving[w].todo /\ tobe = Identified(todo, n + 1)
  OBVIOUS
<1>3. PICK s : s = [pc |-> "write", target |-> t, todo |-> tobe, save |-> n + 1,
                    of |-> Len(todo), then |-> serving[w].then]
  OBVIOUS
<1>4. /\ serving' = [serving EXCEPT ![w] = s] /\ saves' = n + 1
      /\ contested' = (IF Saving(t) # {} THEN contested \cup {t} ELSE contested)
      /\ serving[w].pc = "replace"
  <2>1. /\ contested' = (IF Saving(serving[w].target) # {} THEN contested \cup {serving[w].target}
                         ELSE contested)
        /\ saves' = saves + 1 /\ serving[w].pc = "replace"
    BY Zenon DEF DeleteRows
  <2>2. serving' = [serving EXCEPT ![w] =
                     [pc |-> "write", target |-> serving[w].target,
                      todo |-> Identified(serving[w].todo, saves + 1),
                      save |-> saves + 1, of |-> Len(serving[w].todo), then |-> serving[w].then]]
    BY DEF DeleteRows, Goes
  <2>3. serving' = [serving EXCEPT ![w] = s]
    BY <2>2, <1>1, <1>2, <1>3
  <2> QED BY <2>1, <2>3, <1>1, <1>2
<1>5. RowIds(rows, n) /\ IsList(rows)
  BY <1>1 DEF RowsInv, RowsTypeInv, RowIds
<1>6. PICK D : D = {i \in DOMAIN rows : rows[i].target # t}
  OBVIOUS
<1>7. PICK f : f = [i \in D |-> rows[i]]
  OBVIOUS
<1>8. PICK q : q = Listed(f, Len(rows))
  OBVIOUS
<1>9. rows' = q
  <2>1. rows' = Listed(RestrictValues(rows, LAMBDA r : r.target # serving[w].target), Len(rows))
    BY Zenon DEF DeleteRows
  <2>2. PICK E : E = {i \in DOMAIN rows : rows[i].target # serving[w].target}
    OBVIOUS
  <2>3. rows' = Listed([i \in E |-> rows[i]], Len(rows))
    BY <2>1, <2>2, Zenon DEF RestrictValues, Restrict
  <2>4. E = D
    BY <2>2, <1>2, <1>6
  <2> QED BY <2>3, <2>4, <1>7, <1>8, Zenon
<1>10. D \in SUBSET DOMAIN rows
  BY <1>6
<1>11. IsList(q) /\ \E g : Enumerates(g, q, rows, D)
  BY <1>5, <1>7, <1>8, <1>10, ListKeeps
<1>12. PICK g : Enumerates(g, q, rows, D)
  BY <1>11
<1>13. PICK m \in Nat : m = Len(q) /\ DOMAIN q = 1..m
  BY <1>11, ListIs
<1>14. /\ \A k \in 1..m : g[k] \in D /\ q[k] = rows[g[k]]
       /\ \A j, k \in 1..m : g[j] = g[k] => j = k
       /\ \A i \in D : \E k \in 1..m : g[k] = i
  BY <1>12, <1>13 DEF Enumerates
<1>15. RowIds(q, n)
  <2>1. \A k \in 1..m : q[k].id \in Ids(n)
    BY <1>5, <1>10, <1>14 DEF RowIds
  <2>2. \A j, k \in 1..m : q[j].id = q[k].id => j = k
    BY <1>5, <1>10, <1>14 DEF RowIds
  <2> QED BY <2>1, <2>2, <1>11, <1>13 DEF RowIds
<1>16. Writes(tobe, n + 1) /\ Len(tobe) = Len(todo)
  <2>1. Replaces(todo, n)
    BY <1>1, <1>2, <1>4 DEF RowsInv, RowsTypeInv, SlotRows
  <2> QED BY <2>1, <1>2, Identifies
<1>17. serving'[w] = s /\ \A v \in SetupSlots : v # w => serving'[v] = serving[v]
  BY <1>4
<1>18. s.pc = "write" /\ s.target = t /\ s.todo = tobe /\ s.of = Len(todo)
  BY <1>3
<1>19. RowsTypeInv'
  <2>1. RowIds(q, n + 1)
    BY <1>15, MoreSaves
  <2>2. SlotRows(s, n + 1)
    BY <1>16, <1>18 DEF SlotRows
  <2>3. \A v \in SetupSlots : SlotRows(serving[v], n + 1)
    <3> SUFFICES ASSUME NEW v \in SetupSlots PROVE SlotRows(serving[v], n + 1)
      OBVIOUS
    <3>1. PICK x : x = serving[v]
      OBVIOUS
    <3>2. SlotRows(x, n)
      BY <3>1, <1>1 DEF RowsInv, RowsTypeInv
    <3>3. SlotRows(x, n + 1)
      BY <3>2, MoreSaves
    <3> QED BY <3>1, <3>3
  <2>4. \A v \in SetupSlots : SlotRows(serving'[v], n + 1)
    BY <2>2, <2>3, <1>17
  <2>5. n + 1 \in Nat
    OBVIOUS
  <2> QED BY <2>1, <2>4, <2>5, <1>4, <1>9 DEF RowsTypeInv
<1>20. ASSUME NEW u, u \notin contested'
       PROVE  Whole(serving', q, u)
  <2>1. u \notin contested /\ (u = t => Saving(t) = {})
    BY <1>4, <1>20
  <2>2. Whole(serving, rows, u)
    BY <2>1 DEF RowsInv
  <2>3. CASE u = t
    <3>1. AtTarget(q, t) = {}
      BY <1>6, <1>13, <1>14 DEF AtTarget
    <3>2. IdsAt(q, t) = {}
      BY <3>1, Zenon DEF IdsAt
    <3>3. \A v \in SetupSlots : ~ WritesTo(serving[v], t)
      BY <2>1, <2>3 DEF Saving, WritesTo
    <3>4. \A v \in SetupSlots : WritesTo(serving'[v], t) => v = w
      BY <3>3, <1>17
    <3>5. WritesTo(serving'[w], t)
      BY <1>17, <1>18 DEF WritesTo
    <3>6. Underway(s, q, t)
      <4>1. Cardinality(IdsAt(q, t)) = 0
        BY <3>2, FS_EmptySet
      <4>2. Len(s.todo) \in Nat
        BY <1>16, <1>18, ListIs DEF Writes
      <4>3. Cardinality(IdsAt(q, t)) + Len(s.todo) = s.of
        BY <4>1, <4>2, <1>16, <1>18
      <4> QED BY <3>1, <3>2, <4>3 DEF Underway
    <3> QED BY <2>3, <3>4, <3>5, <3>6, <1>17 DEF Whole
  <2>4. CASE u # t
    <3>1. \A v \in SetupSlots : WritesTo(serving'[v], u) <=> WritesTo(serving[v], u)
      BY <2>4, <1>4, <1>17, <1>18 DEF WritesTo
    <3>2. \A v \in SetupSlots : WritesTo(serving'[v], u) => serving'[v] = serving[v]
      BY <2>4, <1>17, <1>18 DEF WritesTo
    <3>3. \A i \in AtTarget(q, u) : \E j \in AtTarget(rows, u) : q[i] = rows[j]
      BY <1>10, <1>13, <1>14 DEF AtTarget
    <3>4. \A j \in AtTarget(rows, u) : \E i \in AtTarget(q, u) : q[i] = rows[j]
      <4> SUFFICES ASSUME NEW j \in AtTarget(rows, u) PROVE \E i \in AtTarget(q, u) : q[i] = rows[j]
        OBVIOUS
      <4>1. j \in D /\ rows[j].target = u
        BY <2>4, <1>6 DEF AtTarget
      <4>2. PICK k \in 1..m : g[k] = j
        BY <4>1, <1>14
      <4>3. q[k] = rows[j]
        BY <4>2, <1>14
      <4> QED BY <4>1, <4>3, <1>13 DEF AtTarget
    <3> QED BY <2>2, <3>1, <3>2, <3>3, <3>4, SameRows
  <2> QED BY <2>3, <2>4
<1>21. \A u : u \notin contested' => Whole(serving', rows', u)
  BY <1>9, <1>20
<1> QED BY <1>19, <1>21 DEF RowsInv

(* A row is written: a new one, or in the place of the one that has its     *)
(* identifier.                                                              *)
LEMMA WriteStep == ASSUME RowsInv, NEW w \in SetupSlots, DOMAIN serving = SetupSlots,
                          SlotOK(serving[w], Len(plans)), WriteRow(w)
                   PROVE RowsInv'
<1>1. PICK n \in Nat : n = saves
  BY DEF RowsInv, RowsTypeInv
<1>2. PICK t, todo, s0 : t = serving[w].target /\ todo = serving[w].todo /\ s0 = serving[w]
  OBVIOUS
<1>3. PICK row, at :
        /\ row = [id |-> Head(todo).id, item |-> Head(todo).item, target |-> t,
                  save |-> s0.save, of |-> s0.of]
        /\ at = {i \in DOMAIN rows : rows[i].id = Head(todo).id}
  OBVIOUS
<1>4. PICK s : s = [s0 EXCEPT !.todo = Tail(todo)]
  OBVIOUS
<1>5. /\ s0.pc = "write" /\ todo # <<>>
      /\ rows' = (IF at = {} THEN Append(rows, row)
                  ELSE [i \in DOMAIN rows |-> IF i \in at THEN row ELSE rows[i]])
      /\ contested' = contested \cup ({rows[i].target : i \in at} \ {t})
      /\ saves' = n
  BY <1>1, <1>2, <1>3, Zenon DEF WriteRow
<1>6. serving' = [serving EXCEPT ![w] = s]
  BY <1>2, <1>4 DEF WriteRow
<1>7. RowIds(rows, n) /\ IsList(rows) /\ Writes(todo, n)
  BY <1>1, <1>2, <1>5 DEF RowsInv, RowsTypeInv, RowIds, SlotRows
<1>8. PICK k, h : k = Len(todo) /\ h = Head(todo).id
  OBVIOUS
<1>9. /\ k \in Nat /\ k # 0 /\ DOMAIN todo = 1..k /\ h = todo[1].id
      /\ Len(Tail(todo)) = k - 1 /\ DOMAIN Tail(todo) = 1..(k - 1)
      /\ \A i \in 1..(k - 1) : Tail(todo)[i] = todo[i + 1]
      /\ IsList(Tail(todo))
  <2>1. PICK S : S = Range(todo) /\ todo \in Seq(S)
    BY <1>7 DEF Writes, IsList
  <2>2. /\ k \in Nat /\ k # 0 /\ DOMAIN todo = 1..k /\ h = todo[1].id
        /\ Len(Tail(todo)) = k - 1 /\ DOMAIN Tail(todo) = 1..(k - 1)
        /\ \A i \in 1..(k - 1) : Tail(todo)[i] = todo[i + 1]
    BY <2>1, <1>5, <1>8
  <2>3. Tail(todo) \in Seq(S)
    BY <2>1, <1>5
  <2> QED BY <2>2, <2>3, IsAList
<1>10. /\ h \in Ids(n)
       /\ \A i \in 1..(k - 1) : Tail(todo)[i].id \in Ids(n) /\ Tail(todo)[i].id # h
       /\ \A i, j \in 1..(k - 1) : Tail(todo)[i].id = Tail(todo)[j].id => i = j
  <2>1. \A i \in 1..k : todo[i].id \in Ids(n)
    BY <1>7, <1>9 DEF Writes
  <2>2. \A i, j \in 1..k : todo[i].id = todo[j].id => i = j
    BY <1>7, <1>9 DEF Writes
  <2>3. \A i \in 1..(k - 1) : i + 1 \in 1..k /\ i + 1 # 1
    BY <1>9
  <2>4. 1 \in 1..k
    BY <1>9
  <2> QED BY <2>1, <2>2, <2>3, <2>4, <1>9
<1>11. PICK m \in Nat : m = Len(rows) /\ DOMAIN rows = 1..m
  BY <1>7, ListIs
<1>12. PICK q, x :
         /\ q = rows' /\ IsList(q)
         /\ x \in DOMAIN q /\ q[x] = row
         /\ \A i \in DOMAIN q : i # x => i \in 1..m /\ i \notin at /\ q[i] = rows[i]
         /\ \A i \in 1..m : i \notin at => i \in DOMAIN q /\ i # x
  <2>1. CASE at = {}
    <3>1. PICK S : S = Range(rows) \cup {row}
      OBVIOUS
    <3>2. rows \in Seq(S) /\ row \in S
      <4>1. \A i \in 1..m : rows[i] \in S
        BY <3>1, <1>11 DEF Range
      <4>2. rows \in Seq(Range(rows))
        BY <1>7 DEF IsList
      <4>3. \A T : (\A i \in 1..Len(rows) : rows[i] \in T) => rows \in Seq(T)
        BY <4>2
      <4> QED BY <3>1, <4>1, <4>3, <1>11
    <3>3. PICK q : q = Append(rows, row)
      OBVIOUS
    <3>4. /\ q \in Seq(S) /\ DOMAIN q = 1..(m + 1) /\ q[m + 1] = row
          /\ \A i \in 1..m : q[i] = rows[i]
      BY <3>2, <3>3, <1>11
    <3>5. IsList(q)
      BY <3>4, IsAList
    <3>6. \A i \in 1..(m + 1) : i # m + 1 => i \in 1..m
      OBVIOUS
    <3>7. \A i \in 1..m : i \in 1..(m + 1) /\ i # m + 1
      OBVIOUS
    <3>8. m + 1 \in 1..(m + 1) /\ q = rows'
      BY <2>1, <3>3, <1>5
    <3> QED BY <2>1, <3>4, <3>5, <3>6, <3>7, <3>8
  <2>2. CASE at # {}
    <3>1. PICK x \in at : TRUE
      BY <2>2
    <3>2. x \in 1..m /\ \A i \in 1..m : i \in at <=> i = x
      BY <3>1, <1>3, <1>7, <1>11 DEF RowIds
    <3>3. PICK q : q = [i \in 1..m |-> IF i \in at THEN row ELSE rows[i]]
      OBVIOUS
    <3>4. DOMAIN q = 1..m /\ q = [i \in 1..m |-> q[i]] /\ q[x] = row
          /\ \A i \in 1..m : i # x => q[i] = rows[i]
      BY <3>2, <3>3
    <3>5. IsList(q)
      BY <3>4, ListMade
    <3>6. q = rows'
      BY <2>2, <3>3, <1>5, <1>11
    <3> QED BY <3>2, <3>4, <3>5, <3>6
  <2> QED BY <2>1, <2>2
<1>13. row.id = h /\ row.target = t /\ row.save = s0.save /\ row.of = s0.of
  BY <1>3, <1>8
<1>14. \A i \in 1..m : rows[i].id = h <=> i \in at
  BY <1>3, <1>8, <1>11
<1>15. RowIds(q, n)
  <2>1. \A i \in DOMAIN q : q[i].id \in Ids(n)
    BY <1>7, <1>10, <1>11, <1>12, <1>13 DEF RowIds
  <2>2. \A i \in DOMAIN q : i # x => q[i].id # h
    BY <1>12, <1>14
  <2>3. \A i, j \in DOMAIN q : q[i].id = q[j].id => i = j
    <3> SUFFICES ASSUME NEW i \in DOMAIN q, NEW j \in DOMAIN q, q[i].id = q[j].id PROVE i = j
      OBVIOUS
    <3>1. CASE i = x \/ j = x
      BY <3>1, <2>2, <1>12, <1>13
    <3>2. CASE i # x /\ j # x
      BY <3>2, <1>7, <1>11, <1>12 DEF RowIds
    <3> QED BY <3>1, <3>2
  <2> QED BY <2>1, <2>3, <1>12 DEF RowIds
<1>16. /\ s.pc = "write" /\ s.target = t /\ s.todo = Tail(todo) /\ s.save = s0.save /\ s.of = s0.of
  <2>1. DOMAIN s0 = {"pc", "target", "todo", "save", "of", "then"}
    BY <1>2, <1>5 DEF SlotOK
  <2> QED BY <2>1, <1>2, <1>4, <1>5
<1>17. serving'[w] = s /\ \A v \in SetupSlots : v # w => serving'[v] = serving[v]
  BY <1>6
<1>18. RowsTypeInv'
  <2>1. Writes(Tail(todo), n)
    BY <1>9, <1>10 DEF Writes
  <2>2. SlotRows(s, n)
    BY <2>1, <1>16 DEF SlotRows
  <2>3. \A v \in SetupSlots : SlotRows(serving'[v], n)
    BY <2>2, <1>1, <1>17 DEF RowsInv, RowsTypeInv
  <2> QED BY <2>3, <1>1, <1>5, <1>12, <1>15 DEF RowsTypeInv
<1>19. ASSUME NEW u, u \notin contested'
       PROVE  Whole(serving', q, u)
  <2>1. u \notin contested /\ \A i \in at : u = t \/ rows[i].target # u
    BY <1>5, <1>19
  <2>2. Whole(serving, rows, u)
    BY <2>1 DEF RowsInv
  <2>3. at \subseteq 1..m
    BY <1>3, <1>11
  <2>4. CASE u = t
    <3>1. WritesTo(s0, t)
      BY <1>2, <1>5 DEF WritesTo
    <3>2. Underway(s0, rows, t)
      BY <3>1, <2>2, <2>4, <1>2 DEF Whole
    <3>3. h \notin IdsAt(rows, t) /\ \A i \in 1..(k - 1) : Tail(todo)[i].id \notin IdsAt(rows, t)
      <4>1. \A i \in 1..k : todo[i].id \notin IdsAt(rows, t)
        BY <3>2, <1>2, <1>9 DEF Underway
      <4>2. 1 \in 1..k /\ \A i \in 1..(k - 1) : i + 1 \in 1..k
        BY <1>9
      <4> QED BY <4>1, <4>2, <1>9
    <3>4. AtTarget(rows, t) \cap at = {}
      BY <3>3, <2>3, <1>14 DEF IdsAt
    <3>5. /\ \A i \in AtTarget(q, t) : i = x \/ (i \in AtTarget(rows, t) /\ q[i] = rows[i])
          /\ \A i \in AtTarget(rows, t) : i \in AtTarget(q, t) /\ q[i] = rows[i]
          /\ x \in AtTarget(q, t)
      BY <3>4, <1>11, <1>12, <1>13 DEF AtTarget
    <3>6. IdsAt(q, t) = IdsAt(rows, t) \cup {h}
      <4>1. \A y \in IdsAt(q, t) : y \in IdsAt(rows, t) \/ y = h
        BY <3>5, <1>12, <1>13 DEF IdsAt
      <4>2. \A y \in IdsAt(rows, t) : y \in IdsAt(q, t)
        BY <3>5 DEF IdsAt
      <4>3. h \in IdsAt(q, t)
        BY <3>5, <1>12, <1>13 DEF IdsAt
      <4> QED BY <4>1, <4>2, <4>3
    <3>7. PICK I : I = IdsAt(rows, t)
      OBVIOUS
    <3>8. IsFiniteSet(I)
      BY <3>7, <1>7, RowsOfTarget
    <3>9. Cardinality(I \cup {h}) = Cardinality(I) + 1 /\ Cardinality(I) \in Nat
      BY <3>3, <3>7, <3>8, FS_AddElement, FS_CardinalityType
    <3>10. Underway(s, q, t)
      <4>1. \A i \in AtTarget(q, t) : q[i].save = s.save /\ q[i].of = s.of
        BY <3>2, <3>5, <1>12, <1>13, <1>16 DEF Underway
      <4>2. \A i \in 1..(k - 1) : Tail(todo)[i].id \notin IdsAt(q, t)
        BY <3>3, <3>6, <1>10
      <4>3. Cardinality(I) + k = s0.of
        BY <3>2, <3>7, <1>2, <1>8 DEF Underway
      <4>4. Cardinality(IdsAt(q, t)) + (k - 1) = s.of
        BY <4>3, <3>6, <3>7, <3>9, <1>9, <1>16
      <4> QED BY <4>1, <4>2, <4>4, <1>9, <1>16 DEF Underway
    <3>11. \A v \in SetupSlots : WritesTo(serving'[v], t) => v = w
      <4>1. \A v \in SetupSlots : WritesTo(serving[v], t) => v = w
        BY <3>1, <2>2, <2>4, <1>2 DEF Whole
      <4> QED BY <4>1, <1>17
    <3>12. WritesTo(serving'[w], t)
      BY <1>16, <1>17 DEF WritesTo
    <3> QED BY <2>4, <3>10, <3>11, <3>12, <1>17 DEF Whole
  <2>5. CASE u # t
    <3>1. \A v \in SetupSlots : WritesTo(serving'[v], u) <=> WritesTo(serving[v], u)
      BY <2>5, <1>2, <1>16, <1>17 DEF WritesTo
    <3>2. \A v \in SetupSlots : WritesTo(serving'[v], u) => serving'[v] = serving[v]
      BY <2>5, <1>16, <1>17 DEF WritesTo
    <3>3. \A i \in AtTarget(q, u) : i \in AtTarget(rows, u) /\ q[i] = rows[i]
      BY <2>5, <1>11, <1>12, <1>13 DEF AtTarget
    <3>4. \A i \in AtTarget(rows, u) : i \in AtTarget(q, u) /\ q[i] = rows[i]
      BY <2>1, <2>5, <1>11, <1>12 DEF AtTarget
    <3> QED BY <2>2, <3>1, <3>2, <3>3, <3>4, SameRows
  <2> QED BY <2>4, <2>5
<1>20. \A u : u \notin contested' => Whole(serving', rows', u)
  BY <1>12, <1>19
<1> QED BY <1>18, <1>20 DEF RowsInv

(* The request goes on with all its rows written, or dies with some of them *)
(* to write.                                                                *)
LEMMA WrittenStep == ASSUME RowsInv, NEW w \in SetupSlots, DOMAIN serving = SetupSlots,
                            SlotOK(serving[w], Len(plans)), RowsWritten(w) \/ Drop(w)
                     PROVE RowsInv'
<1>1. PICK s : /\ serving' = [serving EXCEPT ![w] = s]
               /\ s.pc \notin {"replace", "write"}
               /\ RowsWritten(w) => s = serving[w].then
  <2>1. CASE RowsWritten(w)
    <3>1. serving' = [serving EXCEPT ![w] = serving[w].then] /\ serving[w].pc = "write"
      BY <2>1 DEF RowsWritten, Goes
    <3>2. serving[w].then.pc \notin {"replace", "write"}
      BY <3>1 DEF SlotOK
    <3> QED BY <3>1, <3>2
  <2>2. CASE ~ RowsWritten(w)
    <3>1. Drop(w)
      BY <2>2
    <3>2. serving' = [serving EXCEPT ![w] = Waiting]
      BY <3>1, Zenon DEF Drop, Goes
    <3>3. Waiting.pc \notin {"replace", "write"}
      BY DEF Waiting
    <3> QED BY <2>2, <3>2, <3>3
  <2> QED BY <2>1, <2>2
<1>2. /\ rows' = rows /\ saves' = saves
      /\ RowsWritten(w) => contested' = contested
      /\ ~ RowsWritten(w) => contested' = (IF serving[w].pc = "write" THEN contested \cup {serving[w].target}
                                           ELSE contested)
  BY Zenon DEF RowsWritten, Drop
<1>3. serving'[w] = s /\ \A v \in SetupSlots : v # w => serving'[v] = serving[v]
  BY <1>1
<1>4. SlotRows(serving'[w], saves) /\ serving'[w].pc # "write"
  BY <1>1, <1>3 DEF SlotRows
<1>5. CASE serving[w].pc # "write"
  <2>1. contested' = contested
    BY <1>2, <1>5
  <2> QED BY <2>1, <1>2, <1>3, <1>4, <1>5, WritesNone
<1>6. CASE serving[w].pc = "write"
  <2>1. RowsTypeInv'
    <3>1. \A v \in SetupSlots : SlotRows(serving'[v], saves)
      BY <1>3, <1>4 DEF RowsInv, RowsTypeInv
    <3> QED BY <3>1, <1>2 DEF RowsInv, RowsTypeInv
  <2>2. ASSUME NEW t, t \notin contested'
        PROVE  Whole(serving', rows, t)
    <3>1. t \notin contested
      BY <2>2, <1>2
    <3>2. Whole(serving, rows, t)
      BY <3>1 DEF RowsInv
    <3>3. CASE t = serving[w].target
      <4>1. RowsWritten(w)
        BY <3>3, <2>2, <1>2, <1>6
      <4>2. serving[w].todo = <<>>
        BY <4>1 DEF RowsWritten
      <4>3. WritesTo(serving[w], t)
        BY <3>3, <1>6 DEF WritesTo
      <4>4. Underway(serving[w], rows, t) /\ \A v \in SetupSlots : WritesTo(serving[v], t) => v = w
        BY <4>3, <3>2 DEF Whole
      <4>5. PICK I : I = IdsAt(rows, t)
        OBVIOUS
      <4>6. Cardinality(I) \in Nat
        <5>1. IsFiniteSet(I)
          BY <4>5, RowsOfTarget DEF RowsInv, RowsTypeInv
        <5> QED BY <5>1, FS_CardinalityType
      <4>7. Cardinality(I) = serving[w].of
        <5>1. Cardinality(I) + Len(serving[w].todo) = serving[w].of
          BY <4>4, <4>5 DEF Underway
        <5> QED BY <5>1, <4>2, <4>6
      <4>8. Done(rows, t)
        BY <4>4, <4>5, <4>7 DEF Underway, Done
      <4>9. \A v \in SetupSlots : ~ WritesTo(serving'[v], t)
        BY <4>4, <1>3, <1>4 DEF WritesTo
      <4> QED BY <4>8, <4>9 DEF Whole
    <3>4. CASE t # serving[w].target
      <4>1. \A v \in SetupSlots : WritesTo(serving'[v], t) <=> WritesTo(serving[v], t)
        BY <3>4, <1>3, <1>4 DEF WritesTo
      <4>2. \A v \in SetupSlots : WritesTo(serving'[v], t) => serving'[v] = serving[v]
        BY <1>3, <1>4 DEF WritesTo
      <4> QED BY <4>1, <4>2, <3>2, SameRows
    <3> QED BY <3>3, <3>4
  <2> QED BY <2>1, <2>2, <1>2 DEF RowsInv
<1> QED BY <1>5, <1>6

(* The other steps of a request write no rows.                              *)
LEMMA OtherSteps ==
    ASSUME RowsInv, SetupAssumption, NEW w \in SetupSlots, DOMAIN serving = SetupSlots,
           SlotOK(serving[w], Len(plans)),
           \/ \E type \in PlanTypes, objective \in {Missing, "given"} : CreatePlan(w, type, objective)
           \/ \E p \in DOMAIN plans :
                \/ \E updates \in Patches : PatchPlan(w, p, updates)
                \/ \E goal : OpenPlan(w, p, goal)
           \/ \E t \in Targets : \E items \in RowPosts : PutRows(w, t, items)
           \/ \E t \in WorkflowTargets :
                \/ SeedRows(w, t)
                \/ \E from \in WorkflowTargets : PutListed(w, t, from)
           \/ SavePlan(w) \/ Attached(w) \/ CreateWorkflow(w) \/ AttachWorkflow(w) \/ AnswerCreated(w)
           \/ SelectRecords(w) \/ ImportRecord(w) \/ AnswerImport(w)
    PROVE  RowsInv'
<1> DEFINE Same == rows' = rows /\ saves' = saves /\ contested' = contested
<1>1. ASSUME NEW s, serving' = [serving EXCEPT ![w] = s], serving[w].pc # "write",
             s.pc # "write", SlotRows(s, saves), Same
      PROVE  RowsInv'
  <2>1. serving'[w] = s /\ \A v \in SetupSlots : v # w => serving'[v] = serving[v]
    BY <1>1
  <2> QED BY <2>1, <1>1, WritesNone
<1>2. ASSUME NEW s, serving' = [serving EXCEPT ![w] = s], serving[w].pc # "write",
             s.pc \notin {"replace", "write"}, Same
      PROVE  RowsInv'
  BY <1>1, <1>2 DEF SlotRows
<1>3. ASSUME NEW t, NEW items, NEW then, serving[w].pc # "write", Replace(w, t, items, then),
             Replaces(items, saves), Same
      PROVE  RowsInv'
  <2>1. PICK s : s = [pc |-> "replace", target |-> t, todo |-> items, then |-> then]
    OBVIOUS
  <2>2. serving' = [serving EXCEPT ![w] = s]
    BY <2>1, <1>3 DEF Replace, Goes
  <2>3. s.pc = "replace" /\ s.todo = items
    BY <2>1
  <2>4. SlotRows(s, saves)
    BY <2>3, <1>3 DEF SlotRows
  <2> QED BY <2>2, <2>3, <2>4, <1>1, <1>3
<1> HIDE DEF Same
<1>4. saves \in Nat /\ RowIds(rows, saves)
  BY DEF RowsInv, RowsTypeInv
<1>5. ASSUME NEW t, NEW items, NEW then, serving[w].pc # "write", Replace(w, t, Fresh(items), then),
             IsList(items), Same
      PROVE  RowsInv'
  <2>1. Replaces(Fresh(items), saves)
    BY <1>4, <1>5, FreshRows
  <2> QED BY <2>1, <1>3, <1>5
<1>6. serving[w] = Waiting => serving[w].pc # "write"
  BY DEF Waiting
<1>7. Waiting.pc \notin {"replace", "write"}
  BY DEF Waiting
<1>8. ASSUME NEW type, NEW objective, CreatePlan(w, type, objective) PROVE RowsInv'
  <2>1. PICK row : serving' = [serving EXCEPT ![w] = [pc |-> "ensure", plan |-> Len(plans) + 1,
                                                     row |-> row, goal |-> [kind |-> "create"]]]
    BY <1>8, Zenon DEF CreatePlan, Goes
  <2>2. Same /\ serving[w] = Waiting
    BY <1>8 DEF CreatePlan, Same
  <2> QED BY <2>1, <2>2, <1>2, <1>6
<1>9. ASSUME NEW p, NEW updates, NEW then, ReadPlan(w, p, updates, then), serving[w].pc # "write"
      PROVE  RowsInv'
  <2>1. serving' = [serving EXCEPT ![w] =
          [pc |-> "update", plan |-> p, updates |-> updates, row |-> Updated(plans[p], updates), then |-> then]]
    BY <1>9 DEF ReadPlan, Goes
  <2>2. Same
    BY <1>9 DEF ReadPlan, Same
  <2> QED BY <2>1, <2>2, <1>2, <1>9
<1>10. ASSUME NEW p, NEW updates, PatchPlan(w, p, updates) PROVE RowsInv'
  BY <1>6, <1>9, <1>10 DEF PatchPlan
<1>11. ASSUME NEW p, NEW goal, OpenPlan(w, p, goal) PROVE RowsInv'
  <2>1. serving' = [serving EXCEPT ![w] = [pc |-> "ensure", plan |-> p, row |-> plans[p], goal |-> goal]]
    BY <1>11 DEF OpenPlan, Goes
  <2>2. Same /\ serving[w] = Waiting
    BY <1>11 DEF OpenPlan, Same
  <2> QED BY <2>1, <2>2, <1>2, <1>6
<1>12. ASSUME NEW t, NEW items \in RowPosts, PutRows(w, t, items) PROVE RowsInv'
  <2>1. Same /\ serving[w] = Waiting /\ Replace(w, t, Fresh(items), Waiting) /\ IsList(items)
    BY <1>12, ItemLists DEF PutRows, Same
  <2> QED BY <2>1, <1>5, <1>6
<1>13. ASSUME NEW t, SeedRows(w, t) PROVE RowsInv'
  <2>1. PICK items : items = (IF t[1] = "rules" THEN DefaultRules ELSE DefaultSources)
    OBVIOUS
  <2>2. IsList(items)
    BY <2>1, ItemLists
  <2>3. Same /\ serving[w] = Waiting /\ Replace(w, t, Fresh(items), Waiting)
    BY <2>1, <1>13 DEF SeedRows, Same
  <2> QED BY <2>2, <2>3, <1>5, <1>6
<1>14. ASSUME NEW t, NEW from, PutListed(w, t, from) PROVE RowsInv'
  <2>1. PICK items : items = [i \in DOMAIN RowsOf(from) |->
                                [id |-> RowsOf(from)[i].id, item |-> RowsOf(from)[i].item]]
    OBVIOUS
  <2>2. Replaces(items, saves)
    BY <2>1, <1>4, ListedAtTarget
  <2>3. Same /\ serving[w] = Waiting /\ Replace(w, t, items, Waiting)
    BY <2>1, <1>14 DEF PutListed, Same
  <2> QED BY <2>2, <2>3, <1>3, <1>6
<1>15. ASSUME SavePlan(w) PROVE RowsInv'
  <2>1. Same /\ serving[w].pc = "update" /\ serving' = [serving EXCEPT ![w] = serving[w].then]
    BY <1>15 DEF SavePlan, Same, Goes
  <2>2. serving[w].then.pc \notin {"replace", "write"}
    BY <2>1 DEF SlotOK
  <2> QED BY <2>1, <2>2, <1>2
<1>16. ASSUME Attached(w) PROVE RowsInv'
  <2>1. Same /\ serving[w].pc = "ensure" /\ serving' = [serving EXCEPT ![w] = Act(w)]
    BY <1>16 DEF Attached, Same, Goes
  <2>2. Act(w).pc \notin {"replace", "write"}
    BY DEF Act
  <2> QED BY <2>1, <2>2, <1>2
<1>17. ASSUME CreateWorkflow(w) PROVE RowsInv'
  <2>1. PICK type, t, then : /\ type = serving[w].row.workflow_type
                             /\ Replace(w, t, Fresh(TemplateRules(type)), then)
    BY <1>17 DEF CreateWorkflow
  <2>2. IsList(TemplateRules(type))
    BY ItemLists DEF TemplateRules, SetupAssumption
  <2>3. Same /\ serving[w].pc = "ensure"
    BY <1>17 DEF CreateWorkflow, Same
  <2> QED BY <2>1, <2>2, <2>3, <1>5
<1>18. ASSUME AttachWorkflow(w) PROVE RowsInv'
  BY <1>9, <1>18 DEF AttachWorkflow
<1>19. ASSUME AnswerCreated(w) PROVE RowsInv'
  <2>1. PICK type : type = serving[w].row.workflow_type
    OBVIOUS
  <2>2. Same /\ serving[w].pc = "act"
    BY <1>19 DEF AnswerCreated, Same
  <2>3. CASE serving' = [serving EXCEPT ![w] = Waiting]
    BY <2>2, <2>3, <1>2, <1>7
  <2>4. CASE serving' # [serving EXCEPT ![w] = Waiting]
    <3>1. type \in DOMAIN WORKFLOW_TEMPLATES
          /\ Replace(w, <<"rules", serving[w].row.workflow_id>>, Fresh(WORKFLOW_TEMPLATES[type]), Waiting)
      BY <2>1, <2>4, <1>19 DEF AnswerCreated, Goes
    <3>2. IsList(WORKFLOW_TEMPLATES[type])
      BY <3>1, ItemLists
    <3> QED BY <3>1, <3>2, <2>2, <1>5
  <2> QED BY <2>3, <2>4
<1>20. ASSUME SelectRecords(w) PROVE RowsInv'
  <2>1. PICK s, goal, c, r, f, todo :
             /\ s = [pc |-> "select", goal |-> goal, commit |-> c, rules |-> r, findings |-> f,
                     at |-> 1, todo |-> todo]
             /\ serving' = [serving EXCEPT ![w] = s]
    BY <1>20, Zenon DEF SelectRecords, Goes
  <2>2. Same /\ serving[w].pc = "act"
    BY <1>20 DEF SelectRecords, Same
  <2> QED BY <2>1, <2>2, <1>2
<1>21. ASSUME ImportRecord(w) PROVE RowsInv'
  <2>1. PICK s : s = [serving[w] EXCEPT !.at = @ + 1]
    OBVIOUS
  <2>2. Same /\ serving[w].pc = "select" /\ serving' = [serving EXCEPT ![w] = s]
    BY <2>1, <1>21 DEF ImportRecord, Same
  <2>3. s.pc = "select"
    BY <2>1, <2>2 DEF SlotOK
  <2> QED BY <2>2, <2>3, <1>2
<1>22. ASSUME AnswerImport(w) PROVE RowsInv'
  <2>1. Same /\ serving[w].pc = "select" /\ serving' = [serving EXCEPT ![w] = Waiting]
    BY <1>22 DEF AnswerImport, Same, Goes
  <2> QED BY <2>1, <1>2, <1>7
<1> QED BY <1>8, <1>10, <1>11, <1>12, <1>13, <1>14, <1>15, <1>16, <1>17, <1>18, <1>19, <1>20, <1>21, <1>22,
           Zenon

(* RowsInv holds after every step ...                                       *)
LEMMA RowsStep == ASSUME RowsInv, SetupTypeInv, SetupAssumption, [SetupNext]_setupVars PROVE RowsInv'
<1>1. CASE UNCHANGED setupVars
  <2>1. serving' = serving /\ rows' = rows /\ saves' = saves /\ contested' = contested
    BY <1>1 DEF setupVars
  <2> QED BY <2>1 DEF RowsInv, RowsTypeInv
<1>2. CASE PostWorkflow
  <2>1. serving' = serving /\ rows' = rows /\ saves' = saves /\ contested' = contested
    BY <1>2 DEF PostWorkflow
  <2> QED BY <2>1 DEF RowsInv, RowsTypeInv
<1>3. DOMAIN serving = SetupSlots /\ \A w \in SetupSlots : SlotOK(serving[w], Len(plans))
  BY DEF SetupTypeInv
<1>4. ASSUME NEW w \in SetupSlots, DeleteRows(w) PROVE RowsInv'
  BY <1>3, <1>4, DeleteStep
<1>5. ASSUME NEW w \in SetupSlots, WriteRow(w) PROVE RowsInv'
  BY <1>3, <1>5, WriteStep
<1>6. ASSUME NEW w \in SetupSlots, RowsWritten(w) \/ Drop(w) PROVE RowsInv'
  BY <1>3, <1>6, WrittenStep
<1>7. ASSUME NEW w \in SetupSlots,
             \/ \E type \in PlanTypes, objective \in {Missing, "given"} : CreatePlan(w, type, objective)
             \/ \E p \in DOMAIN plans :
                  \/ \E updates \in Patches : PatchPlan(w, p, updates)
                  \/ \E goal : OpenPlan(w, p, goal)
             \/ \E t \in Targets : \E items \in RowPosts : PutRows(w, t, items)
             \/ \E t \in WorkflowTargets :
                  \/ SeedRows(w, t)
                  \/ \E from \in WorkflowTargets : PutListed(w, t, from)
             \/ SavePlan(w) \/ Attached(w) \/ CreateWorkflow(w) \/ AttachWorkflow(w) \/ AnswerCreated(w)
             \/ SelectRecords(w) \/ ImportRecord(w) \/ AnswerImport(w)
      PROVE  RowsInv'
  BY <1>3, <1>7, OtherSteps
<1> QED BY <1>1, <1>2, <1>4, <1>5, <1>6, <1>7, Zenon DEF SetupNext

(* ... and at the start.                                                    *)
LEMMA RowsInit == ASSUME SetupInit PROVE RowsInv
<1>1. rows = <<>> /\ saves = 0 /\ serving = [w \in SetupSlots |-> Waiting]
  BY DEF SetupInit
<1>2. \A w \in SetupSlots : serving[w].pc = "free"
  BY <1>1 DEF Waiting
<1>3. DOMAIN rows = {} /\ IsList(rows)
  <2>1. PICK r : r = <<>>
    OBVIOUS
  <2>2. r \in Seq({}) /\ DOMAIN r = {}
    BY <2>1
  <2>3. IsList(r)
    BY <2>2, IsAList
  <2> QED BY <2>1, <2>2, <2>3, <1>1
<1>4. RowsTypeInv
  BY <1>1, <1>2, <1>3 DEF RowsTypeInv, RowIds, SlotRows
<1>5. \A t : Whole(serving, rows, t)
  BY <1>2, <1>3 DEF Whole, WritesTo, Done, AtTarget
<1> QED BY <1>4, <1>5 DEF RowsInv

(* Whatever the rows, the patches and the number of requests in flight are: *)
(* the rows of a target that nobody is saving are all the rows of one save, *)
(* unless saves of it overlapped, one died, or its rows were put to another *)
(* target (routers/setup.py:223-238, 449-571, storage.py:2304-2339).        *)
THEOREM RowsOfOneSave == SetupSpec => []RulesAreOneSave
<1>1. RowsInv => RulesAreOneSave
  <2> SUFFICES ASSUME RowsInv, NEW t \in Targets \ contested, Saving(t) = {},
                      NEW i \in DOMAIN RowsOf(t)
               PROVE  RowsOf(t)[i].save = RowsOf(t)[1].save /\ Len(RowsOf(t)) = RowsOf(t)[i].of
    BY DEF RulesAreOneSave
  <2>1. PICK n : RowIds(rows, n)
    BY DEF RowsInv, RowsTypeInv
  <2>2. PICK l : l = RowsOf(t)
    OBVIOUS
  <2>3. IsList(l) /\ Len(l) = Cardinality(IdsAt(rows, t)) /\ \E g : Enumerates(g, l, rows, AtTarget(rows, t))
    BY <2>1, <2>2, RowsOfTarget
  <2>4. PICK g : Enumerates(g, l, rows, AtTarget(rows, t))
    BY <2>3
  <2>5. i \in 1..Len(l) /\ 1 \in 1..Len(l)
    BY <2>2, <2>3, ListIs
  <2>6. l[i] = rows[g[i]] /\ l[1] = rows[g[1]] /\ g[i] \in AtTarget(rows, t) /\ g[1] \in AtTarget(rows, t)
    BY <2>4, <2>5 DEF Enumerates
  <2>7. \A w \in SetupSlots : ~ WritesTo(serving[w], t)
    BY DEF Saving, WritesTo
  <2>8. Done(rows, t)
    BY <2>7 DEF RowsInv, Whole
  <2>9. l[i].save = l[1].save /\ l[i].of = Cardinality(IdsAt(rows, t))
    BY <2>6, <2>8 DEF Done
  <2> QED BY <2>2, <2>3, <2>9
<1>2. SetupInit => RowsInv
  BY RowsInit
<1>3. RowsInv /\ PlanInv /\ [SetupNext]_setupVars => RowsInv'
  BY RowsStep, SetupAssumption DEF PlanInv
<1>4. SetupSpec => []PlanInv
  BY PlansInductive, SetupAssumption
<1> QED BY <1>1, <1>2, <1>3, <1>4, PTL DEF SetupSpec

-----------------------------------------------------------------------------
(* The import of records.                                                   *)

(* What a request was opened for.                                           *)
GoalOK(goal) == goal.kind \in {"preview", "commit"} => goal.post \in ImportPosts
SlotGoal(s) ==
    /\ s.pc \in {"ensure", "attach", "act"} => GoalOK(s.goal)
    /\ s.pc \in {"replace", "write", "update"} /\ s.then.pc \in {"attach", "act"} => GoalOK(s.then.goal)

(* What the forecast of a captured record says of the record stored.        *)
FindingOK(f) ==
    /\ f.forecast \in {"replayable", "requires_human_label"} =>
         f.stored \in {"requires_human_label", "evidence_only"}
    /\ f.forecast \in {"missing_context", "evidence_only"} =>
         f.stored \in {"unknown", "evidence_only"}

(* The findings that a commit has to create, each of them once.             *)
FindingList(todo) ==
    /\ IsList(todo)
    /\ \A i \in DOMAIN todo :
         /\ FindingOK(todo[i])
         /\ \A j \in DOMAIN todo : todo[i].index = todo[j].index => i = j
SlotImport(s, n) ==
    s.pc = "select" =>
        /\ s.commit \in 0..n /\ FindingList(s.todo)
        /\ s.at \in 1..Len(s.todo) + 1
Commits(s, n) == s.pc = "select" /\ s.todo # <<>> /\ s.commit = n

(* The records of a commit that is under way are findings it is past.       *)
ImportInv ==
    /\ commits \in Nat
    /\ \A r \in imported : /\ r = [commit |-> r.commit, finding |-> r.finding]
                           /\ r.commit \in 0..commits /\ FindingOK(r.finding)
    /\ \A r, q \in imported :
         r.commit = q.commit /\ r.finding.index = q.finding.index => r = q
    /\ \A w \in SetupSlots : SlotGoal(serving[w]) /\ SlotImport(serving[w], commits)
    /\ \A n : \A v, w \in SetupSlots : Commits(serving[v], n) /\ Commits(serving[w], n) => v = w
    /\ \A w \in SetupSlots : \A r \in imported : Commits(serving[w], r.commit) =>
         \E i \in 1..Len(serving[w].todo) : i < serving[w].at /\ r.finding = serving[w].todo[i]

(* A captured record that is forecast to be replayable will need a label or *)
(* be evidence only; one that is not will be evidence, or unknown.          *)
LEMMA Forecasts ==
    ASSUME NEW rec, "decision" \in rec.elements, NEW f, f.forecast = Forecast(rec), f.stored = assess(rec)
    PROVE  FindingOK(f)
<1>1. CASE rec.elements \cap CassetteKinds # {}
  <2>1. Forecast(rec) \in {"replayable", "requires_human_label"}
    BY <1>1 DEF Forecast
  <2>2. assess(rec) \in {"requires_human_label", "evidence_only"}
    <3>1. CASE rec.elements \cap {"http", "tool"} # {}
      BY <3>1 DEF assess
    <3>2. CASE rec.elements \cap {"http", "tool"} = {}
      <4>1. "llm" \in rec.elements
        BY <1>1, <3>2 DEF CassetteKinds
      <4>2. rec.elements \ EventKinds # {}
        BY <4>1 DEF EventKinds
      <4> QED BY <3>2, <4>2 DEF assess
    <3> QED BY <3>1, <3>2
  <2> QED BY <2>1, <2>2 DEF FindingOK
<1>2. CASE rec.elements \cap CassetteKinds = {}
  <2>1. Forecast(rec) \in {"missing_context", "evidence_only"}
    BY <1>2 DEF Forecast
  <2>2. rec.elements \cap {"http", "tool"} = {}
    BY <1>2 DEF CassetteKinds
  <2>3. assess(rec) \in {"unknown", "evidence_only"}
    BY <2>2 DEF assess
  <2> QED BY <2>1, <2>3 DEF FindingOK
<1> QED BY <1>1, <1>2

(* Each captured record has one finding.                                    *)
LEMMA FindingsListed ==
    ASSUME NEW post, IsList(post.records), NEW rules
    PROVE  FindingList(Findings(post, rules))
<1> DEFINE records == [i \in DOMAIN post.records |-> normalize_record(post.records[i], post.field_mapping)]
           results == apply_rules(records, rules)
           finding(i) == [index |-> i, ref |-> records[i].source_record_ref,
                          forecast |-> results[i].replayability, stored |-> assess(records[i])]
<1>1. PICK n \in Nat : n = Len(post.records) /\ DOMAIN post.records = 1..n
  BY ListIs
<1>2. DOMAIN records = 1..n
  BY <1>1
<1>3. PICK rs : rs = records
  OBVIOUS
<1>4. PICK res : res = apply_rules(rs, rules)
  OBVIOUS
<1>5. PICK D : D = DOMAIN res
  OBVIOUS
<1>6. /\ D \in SUBSET (1..n)
      /\ \A i \in D : "decision" \in rs[i].elements /\ res[i].replayability = Forecast(rs[i])
  BY <1>2, <1>3, <1>4, <1>5 DEF apply_rules
<1>7. PICK f : f = [i \in D |-> [index |-> i, ref |-> rs[i].source_record_ref,
                                 forecast |-> res[i].replayability, stored |-> assess(rs[i])]]
  OBVIOUS
<1>8. Findings(post, rules) = Listed(f, n)
  BY <1>1, <1>3, <1>4, <1>5, <1>7, Zenon DEF Findings
<1>9. PICK S : S = {f[i] : i \in D}
  OBVIOUS
<1>10. DOMAIN f = D /\ \A i \in D : f[i] \in S
  BY <1>7, <1>9
<1>11. Listed(f, n) \in Seq(S) /\ \E g : Enumerates(g, Listed(f, n), f, D)
  BY <1>6, <1>10, ListedOnce
<1>12. PICK l : l = Listed(f, n)
  OBVIOUS
<1>13. PICK g : Enumerates(g, l, f, D)
  BY <1>11, <1>12
<1>14. IsList(l)
  BY <1>11, <1>12, IsAList
<1>15. PICK m \in Nat : m = Len(l) /\ DOMAIN l = 1..m
  BY <1>14, ListIs
<1>16. \A i \in D : f[i].index = i /\ FindingOK(f[i])
  <2> SUFFICES ASSUME NEW i \in D PROVE f[i].index = i /\ FindingOK(f[i])
    OBVIOUS
  <2>1. PICK x, rec : x = f[i] /\ rec = rs[i]
    OBVIOUS
  <2>2. x.index = i /\ x.forecast = res[i].replayability /\ x.stored = assess(rec)
    BY <2>1, <1>7
  <2>3. "decision" \in rec.elements /\ x.forecast = Forecast(rec)
    BY <2>1, <2>2, <1>6
  <2>4. FindingOK(x)
    BY <2>2, <2>3, Forecasts
  <2> QED BY <2>1, <2>2, <2>4
<1>17. \A k \in 1..m : g[k] \in D /\ l[k] = f[g[k]] /\ \A j \in 1..m : g[k] = g[j] => k = j
  BY <1>13, <1>15 DEF Enumerates
<1>18. FindingList(l)
  BY <1>14, <1>15, <1>16, <1>17 DEF FindingList
<1> QED BY <1>8, <1>12, <1>18

(* What a client selects of them has each of them once.                     *)
LEMMA ChosenListed ==
    ASSUME NEW post, NEW findings, FindingList(findings)
    PROVE  FindingList(Chosen(post, findings))
<1>1. PICK D : D = {i \in DOMAIN findings : post.selected = {} \/ findings[i].ref \in post.selected}
  OBVIOUS
<1>2. PICK f : f = [i \in D |-> findings[i]]
  OBVIOUS
<1>3. PICK l : l = Listed(f, Len(findings))
  OBVIOUS
<1>4. Chosen(post, findings) = l
  BY <1>1, <1>2, <1>3, Zenon DEF Chosen, RestrictValues, Restrict
<1>5. IsList(findings) /\ D \in SUBSET DOMAIN findings
  BY <1>1 DEF FindingList
<1>6. IsList(l) /\ \E g : Enumerates(g, l, findings, D)
  BY <1>2, <1>3, <1>5, ListKeeps
<1>7. PICK g : Enumerates(g, l, findings, D)
  BY <1>6
<1>8. PICK m \in Nat : m = Len(l) /\ DOMAIN l = 1..m
  BY <1>6, ListIs
<1>9. \A k \in 1..m : /\ g[k] \in DOMAIN findings /\ l[k] = findings[g[k]]
                      /\ \A j \in 1..m : g[k] = g[j] => k = j
  BY <1>5, <1>7, <1>8 DEF Enumerates
<1>10. FindingList(l)
  BY <1>6, <1>8, <1>9 DEF FindingList
<1> QED BY <1>4, <1>10

(* A step of a request that neither selects records nor creates them.       *)
LEMMA ImportsNothing ==
    ASSUME ImportInv, NEW w \in SetupSlots, DOMAIN serving = SetupSlots, NEW s,
           serving' = [serving EXCEPT ![w] = s], s.pc # "select", SlotGoal(s),
           imported' = imported, commits' = commits
    PROVE  ImportInv'
<1>1. serving'[w] = s /\ \A v \in SetupSlots : v # w => serving'[v] = serving[v]
  OBVIOUS
<1>2. \A v \in SetupSlots : SlotGoal(serving'[v]) /\ SlotImport(serving'[v], commits)
  BY <1>1 DEF ImportInv, SlotImport
<1>3. \A v \in SetupSlots : \A n : Commits(serving'[v], n) => serving'[v] = serving[v]
  BY <1>1 DEF Commits
<1>4. \A n : \A u, v \in SetupSlots : Commits(serving'[u], n) /\ Commits(serving'[v], n) => u = v
  BY <1>3 DEF ImportInv
<1>5. \A v \in SetupSlots : \A r \in imported : Commits(serving'[v], r.commit) =>
        \E i \in 1..Len(serving'[v].todo) : i < serving'[v].at /\ r.finding = serving'[v].todo[i]
  <2> SUFFICES ASSUME NEW v \in SetupSlots, NEW r \in imported, Commits(serving'[v], r.commit)
               PROVE  \E i \in 1..Len(serving'[v].todo) :
                        i < serving'[v].at /\ r.finding = serving'[v].todo[i]
    OBVIOUS
  <2>1. serving'[v] = serving[v]
    BY <1>3
  <2>2. PICK x : x = serving[v]
    OBVIOUS
  <2>3. Commits(x, r.commit)
    BY <2>1, <2>2
  <2>4. \E i \in 1..Len(x.todo) : i < x.at /\ r.finding = x.todo[i]
    BY <2>2, <2>3 DEF ImportInv
  <2> QED BY <2>1, <2>2, <2>4
<1> QED BY <1>2, <1>4, <1>5 DEF ImportInv

(* The steps of that kind.                                                  *)
LEMMA ImportlessSteps ==
    ASSUME ImportInv, NEW w \in SetupSlots, DOMAIN serving = SetupSlots,
           SlotOK(serving[w], Len(plans)),
           \/ \E type \in PlanTypes, objective \in {Missing, "given"} : CreatePlan(w, type, objective)
           \/ \E p \in DOMAIN plans :
                \/ \E updates \in Patches : PatchPlan(w, p, updates)
                \/ \E goal : GoalOK(goal) /\ OpenPlan(w, p, goal)
           \/ \E t \in Targets : \E items \in RowPosts : PutRows(w, t, items)
           \/ \E t \in WorkflowTargets :
                \/ SeedRows(w, t)
                \/ \E from \in WorkflowTargets : PutListed(w, t, from)
           \/ SavePlan(w) \/ DeleteRows(w) \/ WriteRow(w) \/ RowsWritten(w) \/ Attached(w)
           \/ CreateWorkflow(w) \/ AttachWorkflow(w) \/ AnswerCreated(w) \/ AnswerImport(w) \/ Drop(w)
    PROVE  ImportInv'
<1> DEFINE Same == imported' = imported /\ commits' = commits
<1>1. ASSUME NEW s, serving' = [serving EXCEPT ![w] = s], s.pc # "select", SlotGoal(s), Same
      PROVE  ImportInv'
  BY <1>1, ImportsNothing
<1> HIDE DEF Same
<1>2. Waiting.pc # "select" /\ SlotGoal(Waiting)
  BY DEF Waiting, SlotGoal
<1>3. ASSUME serving' = [serving EXCEPT ![w] = Waiting], Same PROVE ImportInv'
  BY <1>1, <1>2, <1>3
<1>4. SlotGoal(serving[w])
  BY DEF ImportInv
<1>5. ASSUME NEW t, NEW items, NEW then, Replace(w, t, items, then), Same,
             then.pc \in {"attach", "act"} => GoalOK(then.goal)
      PROVE  ImportInv'
  <2>1. PICK s : s = [pc |-> "replace", target |-> t, todo |-> items, then |-> then]
    OBVIOUS
  <2>2. serving' = [serving EXCEPT ![w] = s]
    BY <2>1, <1>5 DEF Replace, Goes
  <2>3. s.pc = "replace" /\ s.then = then
    BY <2>1
  <2>4. SlotGoal(s)
    BY <2>3, <1>5 DEF SlotGoal
  <2> QED BY <2>2, <2>3, <2>4, <1>1, <1>5
<1>6. ASSUME NEW t, NEW items, Replace(w, t, items, Waiting), Same PROVE ImportInv'
  <2>1. Waiting.pc \notin {"attach", "act"}
    BY DEF Waiting
  <2> QED BY <2>1, <1>5, <1>6
<1>7. ASSUME NEW type, NEW objective, CreatePlan(w, type, objective) PROVE ImportInv'
  <2>1. PICK s, row : /\ s = [pc |-> "ensure", plan |-> Len(plans) + 1, row |-> row,
                              goal |-> [kind |-> "create"]]
                      /\ serving' = [serving EXCEPT ![w] = s]
    BY <1>7, Zenon DEF CreatePlan, Goes
  <2>2. s.pc = "ensure" /\ s.goal.kind = "create"
    BY <2>1
  <2>3. SlotGoal(s)
    BY <2>2 DEF SlotGoal, GoalOK
  <2>4. Same
    BY <1>7 DEF CreatePlan, Same
  <2> QED BY <2>1, <2>2, <2>3, <2>4, <1>1
<1>8. ASSUME NEW p, NEW updates, NEW then, ReadPlan(w, p, updates, then),
             then.pc \in {"attach", "act"} => GoalOK(then.goal)
      PROVE  ImportInv'
  <2>1. PICK s : s = [pc |-> "update", plan |-> p, updates |-> updates,
                      row |-> Updated(plans[p], updates), then |-> then]
    OBVIOUS
  <2>2. serving' = [serving EXCEPT ![w] = s]
    BY <2>1, <1>8 DEF ReadPlan, Goes
  <2>3. s.pc = "update" /\ s.then = then
    BY <2>1
  <2>4. SlotGoal(s)
    BY <2>3, <1>8 DEF SlotGoal
  <2>5. Same
    BY <1>8 DEF ReadPlan, Same
  <2> QED BY <2>2, <2>3, <2>4, <2>5, <1>1
<1>9. ASSUME NEW p, NEW updates, PatchPlan(w, p, updates) PROVE ImportInv'
  <2>1. Waiting.pc \notin {"attach", "act"}
    BY DEF Waiting
  <2>2. ReadPlan(w, p, updates, Waiting)
    BY <1>9 DEF PatchPlan
  <2> QED BY <2>1, <2>2, <1>8
<1>10. ASSUME NEW p, NEW goal, GoalOK(goal), OpenPlan(w, p, goal) PROVE ImportInv'
  <2>1. PICK s : s = [pc |-> "ensure", plan |-> p, row |-> plans[p], goal |-> goal]
    OBVIOUS
  <2>2. serving' = [serving EXCEPT ![w] = s] /\ Same
    BY <2>1, <1>10 DEF OpenPlan, Goes, Same
  <2>3. s.pc = "ensure" /\ s.goal = goal
    BY <2>1
  <2>4. SlotGoal(s)
    BY <2>3, <1>10 DEF SlotGoal
  <2> QED BY <2>2, <2>3, <2>4, <1>1
<1>11. ASSUME NEW t, NEW items, PutRows(w, t, items) PROVE ImportInv'
  BY <1>6, <1>11 DEF PutRows, Same
<1>12. ASSUME NEW t, SeedRows(w, t) PROVE ImportInv'
  BY <1>6, <1>12 DEF SeedRows, Same
<1>13. ASSUME NEW t, NEW from, PutListed(w, t, from) PROVE ImportInv'
  BY <1>6, <1>13 DEF PutListed, Same
<1>14. ASSUME SavePlan(w) \/ RowsWritten(w) PROVE ImportInv'
  <2>1. PICK s : s = serving[w].then
    OBVIOUS
  <2>2. /\ serving[w].pc \in {"update", "write"} /\ serving' = [serving EXCEPT ![w] = s] /\ Same
    BY <2>1, <1>14 DEF SavePlan, RowsWritten, Goes, Same
  <2>3. s.pc \in {"free", "act", "attach"}
    BY <2>1, <2>2 DEF SlotOK
  <2>4. s.pc \in {"act", "attach"} => GoalOK(s.goal)
    BY <2>1, <2>2, <1>4 DEF SlotGoal
  <2>5. SlotGoal(s)
    BY <2>3, <2>4 DEF SlotGoal
  <2> QED BY <2>2, <2>3, <2>5, <1>1
<1>15. ASSUME DeleteRows(w) PROVE ImportInv'
  <2>1. PICK s : s = [pc |-> "write", target |-> serving[w].target,
                      todo |-> Identified(serving[w].todo, saves + 1), save |-> saves + 1,
                      of |-> Len(serving[w].todo), then |-> serving[w].then]
    OBVIOUS
  <2>2. serving' = [serving EXCEPT ![w] = s] /\ serving[w].pc = "replace"
    BY <2>1, <1>15 DEF DeleteRows, Goes
  <2>3. s.pc = "write" /\ s.then = serving[w].then
    BY <2>1
  <2>4. SlotGoal(s)
    BY <2>2, <2>3, <1>4 DEF SlotGoal
  <2>5. Same
    BY <1>15 DEF DeleteRows, Same
  <2> QED BY <2>2, <2>3, <2>4, <2>5, <1>1
<1>16. ASSUME WriteRow(w) PROVE ImportInv'
  <2>1. PICK s : s = [serving[w] EXCEPT !.todo = Tail(@)]
    OBVIOUS
  <2>2. serving' = [serving EXCEPT ![w] = s] /\ serving[w].pc = "write"
    BY <2>1, <1>16 DEF WriteRow
  <2>3. s.pc = "write" /\ s.then = serving[w].then
    BY <2>1, <2>2 DEF SlotOK
  <2>4. SlotGoal(s)
    BY <2>2, <2>3, <1>4 DEF SlotGoal
  <2>5. Same
    BY <1>16 DEF WriteRow, Same
  <2> QED BY <2>2, <2>3, <2>4, <2>5, <1>1
<1>17. serving[w].pc = "ensure" \/ serving[w].pc = "attach"
         => Act(w).pc = "act" /\ GoalOK(Act(w).goal)
  BY <1>4 DEF Act, SlotGoal
<1>18. ASSUME Attached(w) PROVE ImportInv'
  <2>1. PICK s : s = Act(w)
    OBVIOUS
  <2>2. serving' = [serving EXCEPT ![w] = s] /\ serving[w].pc = "ensure" /\ Same
    BY <2>1, <1>18 DEF Attached, Goes, Same
  <2>3. SlotGoal(s) /\ s.pc = "act"
    BY <2>1, <2>2, <1>17 DEF SlotGoal
  <2> QED BY <2>2, <2>3, <1>1
<1>19. ASSUME CreateWorkflow(w) PROVE ImportInv'
  <2>1. PICK k, t, items, then : /\ then = [Act(w) EXCEPT !.pc = "attach", !.row.workflow_id = k]
                                 /\ Replace(w, t, items, then)
    BY <1>19 DEF CreateWorkflow
  <2>2. serving[w].pc = "ensure" /\ Same
    BY <1>19 DEF CreateWorkflow, Same
  <2>3. then.goal = Act(w).goal
    BY <2>1 DEF Act
  <2> QED BY <2>1, <2>2, <2>3, <1>5, <1>17
<1>20. ASSUME AttachWorkflow(w) PROVE ImportInv'
  <2>1. PICK updates : ReadPlan(w, serving[w].plan, updates, Act(w)) /\ serving[w].pc = "attach"
    BY <1>20 DEF AttachWorkflow
  <2> QED BY <2>1, <1>8, <1>17
<1>21. ASSUME AnswerCreated(w) PROVE ImportInv'
  <2>1. Same
    BY <1>21 DEF AnswerCreated, Same
  <2>2. CASE serving' = [serving EXCEPT ![w] = Waiting]
    BY <2>1, <2>2, <1>3
  <2>3. CASE serving' # [serving EXCEPT ![w] = Waiting]
    <3>1. PICK t, items : Replace(w, t, items, Waiting)
      BY <2>3, <1>21 DEF AnswerCreated, Goes
    <3> QED BY <3>1, <2>1, <1>6
  <2> QED BY <2>2, <2>3
<1>22. ASSUME AnswerImport(w) \/ Drop(w) PROVE ImportInv'
  <2>1. Same /\ serving' = [serving EXCEPT ![w] = Waiting]
    BY <1>22 DEF AnswerImport, Drop, Goes, Same
  <2> QED BY <2>1, <1>3
<1> QED BY <1>7, <1>9, <1>10, <1>11, <1>12, <1>13, <1>14, <1>15, <1>16, <1>18, <1>19, <1>20, <1>21,
           <1>22, Zenon

(* A commit takes a number of its own and has its findings to create; a     *)
(* preview creates none.                                                    *)
LEMMA SelectStep == ASSUME ImportInv, SetupAssumption, NEW w \in SetupSlots,
                           DOMAIN serving = SetupSlots, SelectRecords(w)
                    PROVE ImportInv'
<1>1. PICK goal, rules : goal = serving[w].goal /\ rules = Rules(PlanRules(w))
  OBVIOUS
<1>2. PICK findings : findings = Findings(goal.post, rules)
  OBVIOUS
<1>3. PICK todo, s :
        /\ todo = (IF goal.kind = "commit" THEN Chosen(goal.post, findings) ELSE <<>>)
        /\ s = [pc |-> "select", goal |-> goal, commit |-> commits',
                rules |-> PlanRules(w), findings |-> findings, at |-> 1, todo |-> todo]
  OBVIOUS
<1>4. /\ serving[w].pc = "act" /\ goal.kind \in {"preview", "commit"}
      /\ commits' = (IF goal.kind = "commit" THEN commits + 1 ELSE commits)
      /\ imported' = imported
  BY <1>1, Zenon DEF SelectRecords
<1>5. serving' = [serving EXCEPT ![w] = s]
  BY <1>1, <1>2, <1>3, Zenon DEF SelectRecords, Goes
<1>6. serving'[w] = s /\ \A v \in SetupSlots : v # w => serving'[v] = serving[v]
  BY <1>5
<1>7. FindingList(todo)
  <2>1. goal.post \in ImportPosts
    BY <1>1, <1>4 DEF ImportInv, SlotGoal, GoalOK
  <2>2. IsList(goal.post.records)
    BY <2>1 DEF SetupAssumption
  <2>3. PICK post : post = goal.post
    OBVIOUS
  <2>4. FindingList(findings)
    BY <2>2, <2>3, <1>2, FindingsListed
  <2>5. FindingList(Chosen(post, findings))
    BY <2>4, ChosenListed
  <2>6. CASE goal.kind = "commit"
    BY <2>3, <2>5, <2>6, <1>3
  <2>7. CASE goal.kind # "commit"
    <3>1. todo = <<>>
      BY <2>7, <1>3
    <3>2. todo \in Seq({}) /\ DOMAIN todo = {}
      BY <3>1
    <3>3. IsList(todo)
      BY <3>2, IsAList
    <3> QED BY <3>2, <3>3 DEF FindingList
  <2> QED BY <2>6, <2>7
<1>8. commits \in Nat /\ commits' \in Nat /\ commits <= commits'
  BY <1>4 DEF ImportInv
<1>9. s.pc = "select" /\ s.commit = commits' /\ s.todo = todo /\ s.at = 1
  BY <1>3
<1>10. SlotGoal(s) /\ SlotImport(s, commits')
  <2>1. Len(todo) \in Nat
    BY <1>7, ListIs DEF FindingList
  <2>2. commits' \in 0..commits' /\ 1 \in 1..Len(todo) + 1
    BY <2>1, <1>8
  <2> QED BY <2>2, <1>7, <1>9 DEF SlotGoal, SlotImport
<1>11. \A v \in SetupSlots : SlotGoal(serving'[v]) /\ SlotImport(serving'[v], commits')
  <2>1. \A i : i \in 0..commits => i \in 0..commits'
    BY <1>8
  <2>2. \A v \in SetupSlots : SlotGoal(serving[v]) /\ SlotImport(serving[v], commits')
    BY <2>1 DEF ImportInv, SlotImport
  <2> QED BY <2>2, <1>6, <1>10
<1>12. \A n : Commits(s, n) => n = commits + 1
  BY <1>3, <1>4, <1>9 DEF Commits
<1>13. \A n : Commits(s, n) => \A v \in SetupSlots : ~ Commits(serving[v], n)
  <2>1. \A v \in SetupSlots : serving[v].pc = "select" => serving[v].commit \in 0..commits
    BY DEF ImportInv, SlotImport
  <2>2. commits + 1 \notin 0..commits
    BY <1>8
  <2> QED BY <2>1, <2>2, <1>12 DEF Commits
<1>14. \A n : \A u, v \in SetupSlots : Commits(serving'[u], n) /\ Commits(serving'[v], n) => u = v
  BY <1>6, <1>13 DEF ImportInv
<1>15. ASSUME NEW v \in SetupSlots, NEW r \in imported, Commits(serving'[v], r.commit)
       PROVE  \E i \in 1..Len(serving'[v].todo) :
                i < serving'[v].at /\ r.finding = serving'[v].todo[i]
  <2>1. v # w
    <3>1. r.commit \in 0..commits /\ commits + 1 \notin 0..commits
      BY <1>8 DEF ImportInv
    <3> QED BY <3>1, <1>6, <1>12, <1>15
  <2>2. PICK x : x = serving[v]
    OBVIOUS
  <2>3. Commits(x, r.commit)
    BY <2>1, <2>2, <1>6, <1>15
  <2>4. \E i \in 1..Len(x.todo) : i < x.at /\ r.finding = x.todo[i]
    BY <2>2, <2>3 DEF ImportInv
  <2> QED BY <2>1, <2>2, <2>4, <1>6
<1>16. \A r \in imported : /\ r = [commit |-> r.commit, finding |-> r.finding]
                           /\ r.commit \in 0..commits' /\ FindingOK(r.finding)
  <2>1. \A i : i \in 0..commits => i \in 0..commits'
    BY <1>8
  <2> QED BY <2>1 DEF ImportInv
<1>17. \A r, q \in imported : r.commit = q.commit /\ r.finding.index = q.finding.index => r = q
  BY DEF ImportInv
<1> QED BY <1>4, <1>8, <1>11, <1>14, <1>15, <1>16, <1>17 DEF ImportInv

(* A finding is created, or rejected, in its turn.                          *)
LEMMA ImportStep == ASSUME ImportInv, NEW w \in SetupSlots, DOMAIN serving = SetupSlots,
                           SlotOK(serving[w], Len(plans)), ImportRecord(w)
                    PROVE ImportInv'
<1>1. PICK s0, todo, at : s0 = serving[w] /\ todo = s0.todo /\ at = s0.at
  OBVIOUS
<1>2. PICK s : s = [s0 EXCEPT !.at = @ + 1]
  OBVIOUS
<1>3. PICK new : new = [commit |-> s0.commit, finding |-> todo[at]]
  OBVIOUS
<1>4. /\ s0.pc = "select" /\ at <= Len(todo) /\ serving' = [serving EXCEPT ![w] = s]
      /\ commits' = commits /\ (imported' = imported \/ imported' = imported \cup {new})
  BY <1>1, <1>2, <1>3 DEF ImportRecord
<1>5. SlotImport(s0, commits) /\ SlotGoal(s0)
  BY <1>1 DEF ImportInv
<1>6. PICK m \in Nat : m = Len(todo) /\ DOMAIN todo = 1..m
  <2>1. IsList(todo)
    BY <1>1, <1>4, <1>5 DEF SlotImport, FindingList
  <2> QED BY <2>1, ListIs
<1>7. /\ at \in 1..m /\ s0.commit \in 0..commits
      /\ \A i \in 1..m : FindingOK(todo[i]) /\ \A j \in 1..m : todo[i].index = todo[j].index => i = j
  BY <1>1, <1>4, <1>5, <1>6 DEF SlotImport, FindingList
<1>8. s.pc = "select" /\ s.commit = s0.commit /\ s.todo = todo /\ s.at = at + 1
  <2>1. DOMAIN s0 = {"pc", "goal", "commit", "rules", "findings", "at", "todo"}
    BY <1>1, <1>4 DEF SlotOK
  <2> QED BY <2>1, <1>1, <1>2, <1>4
<1>9. serving'[w] = s /\ \A v \in SetupSlots : v # w => serving'[v] = serving[v]
  BY <1>4
<1>10. SlotGoal(s) /\ SlotImport(s, commits)
  <2>1. at + 1 \in 1..m + 1
    BY <1>7
  <2>2. FindingList(todo)
    BY <1>1, <1>4, <1>5 DEF SlotImport
  <2> QED BY <2>1, <2>2, <1>6, <1>7, <1>8 DEF SlotGoal, SlotImport
<1>11. \A v \in SetupSlots : SlotGoal(serving'[v]) /\ SlotImport(serving'[v], commits)
  BY <1>9, <1>10 DEF ImportInv
<1>12. \A v \in SetupSlots : \A n : Commits(serving'[v], n) <=> Commits(serving[v], n)
  BY <1>1, <1>4, <1>8, <1>9 DEF Commits
<1>13. \A n : \A u, v \in SetupSlots : Commits(serving'[u], n) /\ Commits(serving'[v], n) => u = v
  BY <1>12 DEF ImportInv
<1>14. Commits(s0, new.commit) /\ new.commit = s0.commit /\ new.finding = todo[at]
  <2>1. todo # <<>>
    BY <1>6, <1>7
  <2> QED BY <2>1, <1>1, <1>3, <1>4 DEF Commits
<1>15. \A r \in imported : Commits(s0, r.commit) =>
         \E i \in 1..m : i < at /\ r.finding = todo[i]
  BY <1>1, <1>6 DEF ImportInv
<1>16. \A r \in imported : r.commit = new.commit => r.finding.index # new.finding.index
  <2> SUFFICES ASSUME NEW r \in imported, r.commit = new.commit
               PROVE  r.finding.index # new.finding.index
    OBVIOUS
  <2>1. PICK i \in 1..m : i < at /\ r.finding = todo[i]
    BY <1>14, <1>15
  <2>2. i # at
    BY <2>1, <1>7
  <2> QED BY <2>1, <2>2, <1>7, <1>14
<1>17. PICK more : imported' = more /\ more \subseteq imported \cup {new} /\ imported \subseteq more
  BY <1>4
<1>18. \A r \in more : r \in imported \/ r = new
  BY <1>17
<1>19. new = [commit |-> new.commit, finding |-> new.finding] /\ FindingOK(new.finding)
       /\ new.commit \in 0..commits
  BY <1>3, <1>7, <1>14
<1>20. \A r \in more : /\ r = [commit |-> r.commit, finding |-> r.finding]
                       /\ r.commit \in 0..commits /\ FindingOK(r.finding)
  BY <1>18, <1>19 DEF ImportInv
<1>21. \A r, q \in more : r.commit = q.commit /\ r.finding.index = q.finding.index => r = q
  BY <1>16, <1>18 DEF ImportInv
<1>22. ASSUME NEW v \in SetupSlots, NEW r \in more, Commits(serving'[v], r.commit)
       PROVE  \E i \in 1..Len(serving'[v].todo) :
                i < serving'[v].at /\ r.finding = serving'[v].todo[i]
  <2>1. Commits(serving[v], r.commit)
    BY <1>12, <1>22
  <2>2. CASE v = w
    <3>1. \E i \in 1..m : i < at + 1 /\ r.finding = todo[i]
      <4>1. CASE r \in imported
        <5>1. PICK i \in 1..m : i < at /\ r.finding = todo[i]
          BY <4>1, <2>1, <2>2, <1>1, <1>15
        <5> QED BY <5>1, <1>7
      <4>2. CASE r = new
        BY <4>2, <1>7, <1>14
      <4> QED BY <4>1, <4>2, <1>18
    <3> QED BY <3>1, <2>2, <1>6, <1>8, <1>9
  <2>3. CASE v # w
    <3>1. r \in imported
      <4>1. r = new => v = w
        BY <2>1, <1>1, <1>14 DEF ImportInv
      <4> QED BY <4>1, <2>3, <1>18
    <3>2. PICK x : x = serving[v]
      OBVIOUS
    <3>3. Commits(x, r.commit)
      BY <3>2, <2>1
    <3>4. \E i \in 1..Len(x.todo) : i < x.at /\ r.finding = x.todo[i]
      BY <3>1, <3>2, <3>3 DEF ImportInv
    <3> QED BY <2>3, <3>2, <3>4, <1>9
  <2> QED BY <2>2, <2>3
<1>23. commits' \in Nat
  BY <1>4 DEF ImportInv
<1> QED BY <1>4, <1>11, <1>13, <1>17, <1>20, <1>21, <1>22, <1>23 DEF ImportInv

(* ImportInv holds after every step ...                                     *)
LEMMA ImportNext == ASSUME ImportInv, SetupTypeInv, SetupAssumption, [SetupNext]_setupVars PROVE ImportInv'
<1>1. CASE UNCHANGED setupVars
  <2>1. serving' = serving /\ imported' = imported /\ commits' = commits
    BY <1>1 DEF setupVars
  <2> QED BY <2>1 DEF ImportInv
<1>2. CASE PostWorkflow
  <2>1. serving' = serving /\ imported' = imported /\ commits' = commits
    BY <1>2 DEF PostWorkflow
  <2> QED BY <2>1 DEF ImportInv
<1>3. DOMAIN serving = SetupSlots /\ \A w \in SetupSlots : SlotOK(serving[w], Len(plans))
  BY DEF SetupTypeInv
<1>4. ASSUME NEW w \in SetupSlots, SelectRecords(w) PROVE ImportInv'
  BY <1>3, <1>4, SelectStep
<1>5. ASSUME NEW w \in SetupSlots, ImportRecord(w) PROVE ImportInv'
  BY <1>3, <1>5, ImportStep
<1>6. ASSUME NEW w \in SetupSlots,
             \/ \E type \in PlanTypes, objective \in {Missing, "given"} : CreatePlan(w, type, objective)
             \/ \E p \in DOMAIN plans :
                  \/ \E updates \in Patches : PatchPlan(w, p, updates)
                  \/ \E goal : GoalOK(goal) /\ OpenPlan(w, p, goal)
             \/ \E t \in Targets : \E items \in RowPosts : PutRows(w, t, items)
             \/ \E t \in WorkflowTargets :
                  \/ SeedRows(w, t)
                  \/ \E from \in WorkflowTargets : PutListed(w, t, from)
             \/ SavePlan(w) \/ DeleteRows(w) \/ WriteRow(w) \/ RowsWritten(w) \/ Attached(w)
             \/ CreateWorkflow(w) \/ AttachWorkflow(w) \/ AnswerCreated(w) \/ AnswerImport(w) \/ Drop(w)
      PROVE  ImportInv'
  BY <1>3, <1>6, ImportlessSteps
<1>7. GoalOK([kind |-> "rules"])
  BY DEF GoalOK
<1>8. \A post \in ImportPosts : \A kind : GoalOK([kind |-> kind, post |-> post])
  BY DEF GoalOK
<1> QED BY <1>1, <1>2, <1>4, <1>5, <1>6, <1>7, <1>8, Zenon DEF SetupNext

(* ... and at the start.                                                    *)
LEMMA ImportInit == ASSUME SetupInit PROVE ImportInv
<1>1. imported = {} /\ commits = 0 /\ \A w \in SetupSlots : serving[w].pc = "free"
  BY DEF SetupInit, Waiting
<1> QED BY <1>1 DEF ImportInv, SlotGoal, SlotImport, Commits

(* Whatever records, rules and selections are posted: a commit creates each *)
(* finding at most once and in its turn, and no record it creates is        *)
(* replayable, whatever the forecast said (routers/setup.py:879-923,        *)
(* setup_engine.py:461-470, services.py:430-461).                           *)
THEOREM ImportsForecast == SetupSpec => []ImportsFollowForecast
<1>1. ImportInv => ImportsFollowForecast
  <2> SUFFICES ASSUME ImportInv PROVE ImportsFollowForecast
    OBVIOUS
  <2>1. \A r \in imported : FindingOK(r.finding)
    BY DEF ImportInv
  <2>2. ASSUME NEW w \in SetupSlots, serving[w].pc = "select",
               NEW r \in imported, r.commit = serving[w].commit, serving[w].todo # <<>>
        PROVE  \E i \in 1..(serving[w].at - 1) : r.finding = serving[w].todo[i]
    <3>1. PICK x : x = serving[w]
      OBVIOUS
    <3>2. PICK i \in 1..Len(x.todo) : i < x.at /\ r.finding = x.todo[i]
      BY <3>1, <2>2 DEF ImportInv, Commits
    <3>3. SlotImport(x, commits)
      BY <3>1 DEF ImportInv
    <3>4. Len(x.todo) \in Nat /\ x.at \in 1..Len(x.todo) + 1
      BY <3>1, <3>3, <2>2, ListIs DEF SlotImport, FindingList
    <3>5. i \in 1..(x.at - 1)
      BY <3>2, <3>4
    <3> QED BY <3>1, <3>2, <3>5
  <2>3. ASSUME NEW w \in SetupSlots, serving[w].pc = "select"
        PROVE  {r.finding : r \in {q \in imported : q.commit = serving[w].commit /\ serving[w].todo # <<>>}}
                 \subseteq {serving[w].todo[i] : i \in 1..(serving[w].at - 1)}
    <3> SUFFICES ASSUME NEW r \in imported, r.commit = serving[w].commit, serving[w].todo # <<>>
                 PROVE  r.finding \in {serving[w].todo[i] : i \in 1..(serving[w].at - 1)}
      OBVIOUS
    <3>1. \E i \in 1..(serving[w].at - 1) : r.finding = serving[w].todo[i]
      BY <2>2, <2>3
    <3> QED BY <3>1, Zenon
  <2>4. \A r, q \in imported : r.commit = q.commit /\ r.finding.index = q.finding.index => r = q
    BY DEF ImportInv
  <2> QED BY <2>1, <2>3, <2>4 DEF ImportsFollowForecast, FindingOK
<1>2. SetupInit => ImportInv
  BY ImportInit
<1>3. ImportInv /\ PlanInv /\ [SetupNext]_setupVars => ImportInv'
  BY ImportNext, SetupAssumption DEF PlanInv
<1>4. SetupSpec => []PlanInv
  BY PlansInductive, SetupAssumption
<1> QED BY <1>1, <1>2, <1>3, <1>4, PTL DEF SetupSpec

-----------------------------------------------------------------------------
(* The types of the rows and of what the requests have in hand.  What is    *)
(* said of them depends on the numbers of workflows and of saves only.      *)

TargetsOf(n) == ({"rules", "sources"} \X (1..n)) \cup ({"fields"} \X Systems)
Items(todo) == \A i \in DOMAIN todo : todo[i].item \in RuleItem
SlotTyped(s, n, m) ==
    /\ s.pc \in {"replace", "write"} => s.target \in TargetsOf(n) /\ Items(s.todo)
    /\ s.pc = "write" => s.save \in 1..m
    /\ s.pc = "act" => s.row.workflow_id \in 1..n
    /\ s.pc = "update" /\ s.then.pc = "act" => s.then.row.workflow_id \in 1..n
RowTyped(r, n, m) == r.target \in TargetsOf(n) /\ r.item \in RuleItem /\ r.save \in 1..m

RowTypes ==
    /\ \A i \in DOMAIN rows : RowTyped(rows[i], Len(workflows), saves)
    /\ \A w \in SetupSlots : SlotTyped(serving[w], Len(workflows), saves)

(* The targets there are.                                                   *)
LEMMA TargetsAre ==
    ASSUME SetupTypeInv
    PROVE  /\ Len(workflows) \in Nat /\ DOMAIN workflows = 1..Len(workflows)
           /\ Len(plans) \in Nat /\ DOMAIN plans = 1..Len(plans)
           /\ Targets = TargetsOf(Len(workflows))
           /\ WorkflowTargets = {"rules", "sources"} \X (1..Len(workflows))
<1>1. /\ Len(workflows) \in Nat /\ DOMAIN workflows = 1..Len(workflows)
      /\ Len(plans) \in Nat /\ DOMAIN plans = 1..Len(plans)
  BY DEF SetupTypeInv
<1> QED BY <1>1 DEF Targets, TargetsOf, WorkflowTargets

(* What is typed stays so when there are more workflows and saves.          *)
LEMMA MoreTyped ==
    ASSUME NEW n \in Nat, NEW m \in Nat, NEW p \in Nat, NEW q \in Nat, n <= p, m <= q
    PROVE  /\ \A x : x \in TargetsOf(n) => x \in TargetsOf(p)
           /\ \A s : SlotTyped(s, n, m) => SlotTyped(s, p, q)
           /\ \A r : RowTyped(r, n, m) => RowTyped(r, p, q)
<1>1. (\A i : i \in 1..n => i \in 1..p) /\ (\A i : i \in 1..m => i \in 1..q)
  OBVIOUS
<1>2. \A x : x \in TargetsOf(n) => x \in TargetsOf(p)
  BY <1>1 DEF TargetsOf
<1>3. \A s : SlotTyped(s, n, m) => SlotTyped(s, p, q)
  BY <1>1, <1>2 DEF SlotTyped
<1>4. \A r : RowTyped(r, n, m) => RowTyped(r, p, q)
  BY <1>1, <1>2 DEF RowTyped
<1> QED BY <1>2, <1>3, <1>4

(* A step of one request that leaves the rows alone.                        *)
LEMMA SlotTakes ==
    ASSUME RowTypes, SetupTypeInv, saves \in Nat, NEW w \in SetupSlots, NEW s,
           serving' = [serving EXCEPT ![w] = s], rows' = rows,
           Len(workflows') \in Nat, saves' \in Nat,
           Len(workflows) <= Len(workflows'), saves <= saves',
           SlotTyped(s, Len(workflows'), saves')
    PROVE  RowTypes'
<1>1. PICK n \in Nat, m \in Nat : n = Len(workflows) /\ m = saves
  BY TargetsAre
<1>2. PICK p \in Nat, q \in Nat : p = Len(workflows') /\ q = saves'
  OBVIOUS
<1>3. serving'[w] = s /\ \A v \in SetupSlots : v # w => serving'[v] = serving[v]
  BY DEF SetupTypeInv
<1>4. n <= p /\ m <= q
  BY <1>1, <1>2
<1>5. \A v \in SetupSlots : SlotTyped(serving'[v], p, q)
  BY <1>1, <1>2, <1>3, <1>4, MoreTyped DEF RowTypes
<1>6. \A i \in DOMAIN rows : RowTyped(rows[i], p, q)
  BY <1>1, <1>4, MoreTyped DEF RowTypes
<1> QED BY <1>2, <1>5, <1>6 DEF RowTypes

(* What the filter of a list gives comes from the list.                     *)
LEMMA RowsFrom ==
    ASSUME NEW n, RowIds(rows, n), NEW t
    PROVE  \A k \in DOMAIN RowsOf(t) : \E i \in DOMAIN rows : RowsOf(t)[k] = rows[i] /\ rows[i].target = t
<1>1. PICK l : l = RowsOf(t)
  OBVIOUS
<1>2. IsList(l) /\ \E g : Enumerates(g, l, rows, AtTarget(rows, t))
  BY <1>1, RowsOfTarget
<1>3. PICK g : Enumerates(g, l, rows, AtTarget(rows, t))
  BY <1>2
<1>4. DOMAIN l = 1..Len(l)
  BY <1>2, ListIs
<1>5. \A k \in DOMAIN l : g[k] \in AtTarget(rows, t) /\ l[k] = rows[g[k]]
  BY <1>3, <1>4 DEF Enumerates
<1> QED BY <1>1, <1>5 DEF AtTarget

(* Steps that replace rows begin with typed ones.                           *)
LEMMA ReplaceTyped ==
    ASSUME RowTypes, SetupTypeInv, saves \in Nat, NEW w \in SetupSlots, NEW t, NEW todo, NEW then,
           Replace(w, t, todo, then), rows' = rows, saves' = saves,
           Len(workflows') \in Nat, Len(workflows) <= Len(workflows'),
           t \in TargetsOf(Len(workflows')), Items(todo)
    PROVE  RowTypes'
<1>1. PICK s : s = [pc |-> "replace", target |-> t, todo |-> todo, then |-> then]
  OBVIOUS
<1>2. serving' = [serving EXCEPT ![w] = s]
  BY <1>1 DEF Replace, Goes
<1>3. s.pc = "replace" /\ s.target = t /\ s.todo = todo
  BY <1>1
<1>4. SlotTyped(s, Len(workflows'), saves')
  BY <1>3 DEF SlotTyped
<1>5. saves' \in Nat /\ saves <= saves'
  OBVIOUS
<1> HIDE DEF Replace
<1> QED BY <1>2, <1>4, <1>5, SlotTakes

LEMMA FreshTyped == ASSUME NEW items \in Seq(RuleItem) PROVE Items(Fresh(items))
<1>1. \A i \in DOMAIN items : items[i] \in RuleItem
  OBVIOUS
<1>2. PICK D : D = DOMAIN items
  OBVIOUS
<1>3. Fresh(items) = [i \in D |-> [id |-> Missing, item |-> items[i]]]
  BY <1>2 DEF Fresh
<1>4. DOMAIN Fresh(items) = D /\ \A i \in D : Fresh(items)[i].item = items[i]
  BY <1>3
<1> QED BY <1>1, <1>2, <1>4 DEF Items

(* The rows stay typed: a save deletes rows ...                             *)
LEMMA DeleteTyped ==
    ASSUME RowTypes, SetupTypeInv, RowsTypeInv, NEW w \in SetupSlots, DeleteRows(w)
    PROVE  RowTypes'
<1>1. PICK n \in Nat, m \in Nat : n = Len(workflows) /\ m = saves
  BY TargetsAre DEF RowsTypeInv
<1>2. PICK t, todo : t = serving[w].target /\ todo = serving[w].todo
  OBVIOUS
<1>3. PICK s : s = [pc |-> "write", target |-> t, todo |-> Identified(todo, m + 1), save |-> m + 1,
                    of |-> Len(todo), then |-> serving[w].then]
  OBVIOUS
<1>4. /\ serving' = [serving EXCEPT ![w] = s] /\ serving[w].pc = "replace"
      /\ saves' = m + 1 /\ workflows' = workflows
  BY <1>1, <1>2, <1>3 DEF DeleteRows, Goes
<1>5. t \in TargetsOf(n) /\ Items(todo) /\ Replaces(todo, m)
  BY <1>1, <1>2, <1>4 DEF RowTypes, SlotTyped, RowsTypeInv, SlotRows
<1>6. SlotTyped(s, n, m + 1)
  <2>1. s.pc = "write" /\ s.target = t /\ s.todo = Identified(todo, m + 1) /\ s.save = m + 1
    BY <1>3
  <2>2. Items(Identified(todo, m + 1))
    <3>1. PICK D : D = DOMAIN todo
      OBVIOUS
    <3>2. Identified(todo, m + 1)
            = [i \in D |-> IF todo[i].id = Missing THEN [todo[i] EXCEPT !.id = <<m + 1, i>>] ELSE todo[i]]
      BY <3>1, Zenon DEF Identified
    <3>3. \A i \in D : DOMAIN todo[i] = {"id", "item"} /\ todo[i].item \in RuleItem
      BY <1>5, <3>1 DEF Replaces, Items
    <3>4. ASSUME NEW i \in D PROVE Identified(todo, m + 1)[i].item = todo[i].item
      BY <3>2, <3>3
    <3>5. DOMAIN Identified(todo, m + 1) = D
      BY <3>2
    <3> QED BY <3>3, <3>4, <3>5 DEF Items
  <2>3. m + 1 \in 1..(m + 1)
    OBVIOUS
  <2> QED BY <2>1, <2>2, <2>3, <1>5 DEF SlotTyped
<1>7. \A i \in DOMAIN rows' : \E j \in DOMAIN rows : rows'[i] = rows[j]
  <2>1. IsList(rows)
    BY DEF RowsTypeInv, RowIds
  <2>2. PICK D : D = {i \in DOMAIN rows : rows[i].target # serving[w].target}
    OBVIOUS
  <2>3. PICK f : f = [i \in D |-> rows[i]]
    OBVIOUS
  <2>4. rows' = Listed(f, Len(rows))
    <3>1. rows' = Listed(RestrictValues(rows, LAMBDA r : r.target # serving[w].target), Len(rows))
      BY Zenon DEF DeleteRows
    <3> QED BY <3>1, <2>2, <2>3, Zenon DEF RestrictValues, Restrict
  <2>5. D \in SUBSET DOMAIN rows
    BY <2>2
  <2>6. PICK q : q = rows'
    OBVIOUS
  <2>7. IsList(q) /\ \E g : Enumerates(g, q, rows, D)
    BY <2>1, <2>3, <2>4, <2>5, <2>6, ListKeeps
  <2>8. PICK g : Enumerates(g, q, rows, D)
    BY <2>7
  <2>9. DOMAIN q = 1..Len(q)
    BY <2>7, ListIs
  <2>10. \A i \in DOMAIN q : g[i] \in DOMAIN rows /\ q[i] = rows[g[i]]
    BY <2>5, <2>8, <2>9 DEF Enumerates
  <2> QED BY <2>6, <2>10
<1>8. serving'[w] = s /\ \A v \in SetupSlots : v # w => serving'[v] = serving[v]
  BY <1>4 DEF SetupTypeInv
<1>9. \A v \in SetupSlots : SlotTyped(serving'[v], n, m + 1)
  BY <1>1, <1>6, <1>8, MoreTyped DEF RowTypes
<1>10. \A i \in DOMAIN rows' : RowTyped(rows'[i], n, m + 1)
  BY <1>1, <1>7, MoreTyped DEF RowTypes
<1> QED BY <1>1, <1>4, <1>9, <1>10 DEF RowTypes

(* ... and writes them.                                                     *)
LEMMA WriteTyped ==
    ASSUME RowTypes, SetupTypeInv, RowsTypeInv, NEW w \in SetupSlots, WriteRow(w)
    PROVE  RowTypes'
<1>1. PICK n \in Nat, m \in Nat : n = Len(workflows) /\ m = saves
  BY TargetsAre DEF RowsTypeInv
<1>2. PICK t, todo, s0 : t = serving[w].target /\ todo = serving[w].todo /\ s0 = serving[w]
  OBVIOUS
<1>3. PICK row, at :
        /\ row = [id |-> Head(todo).id, item |-> Head(todo).item, target |-> t,
                  save |-> s0.save, of |-> s0.of]
        /\ at = {i \in DOMAIN rows : rows[i].id = Head(todo).id}
  OBVIOUS
<1>4. PICK s : s = [s0 EXCEPT !.todo = Tail(todo)]
  OBVIOUS
<1>5. /\ s0.pc = "write" /\ todo # <<>>
      /\ rows' = (IF at = {} THEN Append(rows, row)
                  ELSE [i \in DOMAIN rows |-> IF i \in at THEN row ELSE rows[i]])
      /\ saves' = saves /\ workflows' = workflows
  BY <1>2, <1>3, Zenon DEF WriteRow
<1>6. serving' = [serving EXCEPT ![w] = s]
  BY <1>2, <1>4 DEF WriteRow
<1>7. DOMAIN s0 = {"pc", "target", "todo", "save", "of", "then"}
  BY <1>2, <1>5 DEF SetupTypeInv, SlotOK
<1>8. t \in TargetsOf(n) /\ Items(todo) /\ s0.save \in 1..m /\ IsList(todo) /\ IsList(rows)
  BY <1>1, <1>2, <1>5 DEF RowTypes, SlotTyped, RowsTypeInv, SlotRows, Writes, RowIds
<1>9. PICK S : S = Range(todo) /\ todo \in Seq(S)
  BY <1>8 DEF IsList
<1>10. RowTyped(row, n, m)
  <2>1. Head(todo) = todo[1] /\ 1 \in DOMAIN todo
    BY <1>5, <1>9
  <2> QED BY <2>1, <1>3, <1>8 DEF RowTyped, Items
<1>11. Items(Tail(todo))
  <2>1. \A i \in DOMAIN Tail(todo) : i + 1 \in DOMAIN todo /\ Tail(todo)[i] = todo[i + 1]
    BY <1>5, <1>9
  <2> QED BY <2>1, <1>8 DEF Items
<1>12. SlotTyped(s, n, m)
  <2>1. s.pc = "write" /\ s.target = t /\ s.todo = Tail(todo) /\ s.save = s0.save
    BY <1>2, <1>4, <1>5, <1>7
  <2> QED BY <2>1, <1>8, <1>11 DEF SlotTyped
<1>13. serving'[w] = s /\ \A v \in SetupSlots : v # w => serving'[v] = serving[v]
  BY <1>6 DEF SetupTypeInv
<1>14. \A i \in DOMAIN rows' : RowTyped(rows'[i], n, m)
  <2>1. \A i \in DOMAIN rows : RowTyped(rows[i], n, m)
    BY <1>1 DEF RowTypes
  <2>2. CASE at = {}
    <3>1. rows \in Seq(Range(rows))
      BY <1>8 DEF IsList
    <3>2. PICK q : q = Append(rows, row)
      OBVIOUS
    <3>3. \A i \in DOMAIN q : (i \in DOMAIN rows /\ q[i] = rows[i]) \/ q[i] = row
      BY <3>1, <3>2
    <3>4. \A i \in DOMAIN q : RowTyped(q[i], n, m)
      BY <2>1, <3>3, <1>10
    <3> QED BY <2>2, <3>2, <3>4, <1>5
  <2>3. CASE at # {}
    <3>1. PICK D, q : D = DOMAIN rows /\ q = [i \in D |-> IF i \in at THEN row ELSE rows[i]]
      OBVIOUS
    <3>2. rows' = q
      BY <2>3, <3>1, <1>5
    <3>3. \A i \in D : RowTyped(q[i], n, m)
      BY <2>1, <3>1, <1>10
    <3>4. DOMAIN q = D
      BY <3>1
    <3> QED BY <3>2, <3>3, <3>4
  <2> QED BY <2>2, <2>3
<1>15. \A v \in SetupSlots : SlotTyped(serving'[v], n, m)
  BY <1>1, <1>12, <1>13 DEF RowTypes
<1> QED BY <1>1, <1>5, <1>14, <1>15 DEF RowTypes

(* ... and no other step does either.                                       *)
LEMMA OthersTyped ==
    ASSUME RowTypes, SetupTypeInv, PointsInv, RowsTypeInv, SetupAssumption, NEW w \in SetupSlots,
           \/ \E type \in PlanTypes, objective \in {Missing, "given"} : CreatePlan(w, type, objective)
           \/ \E p \in DOMAIN plans :
                \/ \E updates \in Patches : PatchPlan(w, p, updates)
                \/ \E goal : OpenPlan(w, p, goal)
           \/ \E t \in Targets : \E items \in RowPosts : PutRows(w, t, items)
           \/ \E t \in WorkflowTargets :
                \/ SeedRows(w, t)
                \/ \E from \in WorkflowTargets : PutListed(w, t, from)
           \/ SavePlan(w) \/ RowsWritten(w) \/ Attached(w) \/ CreateWorkflow(w) \/ AttachWorkflow(w)
           \/ AnswerCreated(w) \/ SelectRecords(w) \/ ImportRecord(w) \/ AnswerImport(w) \/ Drop(w)
    PROVE  RowTypes'
<1> DEFINE Same == rows' = rows /\ saves' = saves /\ workflows' = workflows
           n == Len(workflows)
<1>1. /\ n \in Nat /\ saves \in Nat /\ n <= n /\ saves <= saves
      /\ Targets = TargetsOf(n) /\ WorkflowTargets = {"rules", "sources"} \X (1..n)
  BY TargetsAre DEF RowsTypeInv
<1>2. SlotTyped(serving[w], n, saves) /\ SlotOK(serving[w], Len(plans)) /\ Aims(serving[w], n)
  BY DEF RowTypes, SetupTypeInv, PointsInv
<1>3. ASSUME NEW s, serving' = [serving EXCEPT ![w] = s], SlotTyped(s, n, saves), Same
      PROVE  RowTypes'
  <2>1. Len(workflows') \in Nat /\ saves' \in Nat /\ n <= Len(workflows') /\ saves <= saves'
    BY <1>1, <1>3
  <2> QED BY <2>1, <1>1, <1>3, SlotTakes
<1>4. ASSUME NEW t, NEW todo, NEW then, Replace(w, t, todo, then), t \in TargetsOf(n), Items(todo), Same
      PROVE  RowTypes'
  <2>1. Len(workflows') \in Nat /\ n <= Len(workflows')
    BY <1>1, <1>4
  <2> QED BY <2>1, <1>1, <1>4, ReplaceTyped
<1>5. \A t \in WorkflowTargets : t \in TargetsOf(n)
  BY <1>1 DEF TargetsOf
<1> HIDE DEF Same
<1>6. ASSUME NEW s, serving' = [serving EXCEPT ![w] = s], s.pc \in {"free", "ensure", "select", "attach"}, Same
      PROVE  RowTypes'
  <2>1. SlotTyped(s, n, saves)
    BY <1>6 DEF SlotTyped
  <2> QED BY <2>1, <1>3, <1>6
<1>7. Waiting.pc = "free"
  BY DEF Waiting
<1>8. ASSUME NEW type, NEW objective, CreatePlan(w, type, objective) PROVE RowTypes'
  <2>1. PICK s, row : /\ s = [pc |-> "ensure", plan |-> Len(plans) + 1, row |-> row,
                              goal |-> [kind |-> "create"]]
                      /\ serving' = [serving EXCEPT ![w] = s]
    BY <1>8, Zenon DEF CreatePlan, Goes
  <2>2. Same
    BY <1>8 DEF CreatePlan, Same
  <2> QED BY <2>1, <2>2, <1>6
<1>9. ASSUME NEW p, NEW updates, NEW then, ReadPlan(w, p, updates, then),
             then.pc = "act" => then.row.workflow_id \in 1..n
      PROVE  RowTypes'
  <2>1. PICK s : s = [pc |-> "update", plan |-> p, updates |-> updates,
                      row |-> Updated(plans[p], updates), then |-> then]
    OBVIOUS
  <2>2. serving' = [serving EXCEPT ![w] = s]
    BY <2>1, <1>9 DEF ReadPlan, Goes
  <2>3. s.pc = "update" /\ s.then = then
    BY <2>1
  <2>4. SlotTyped(s, n, saves)
    BY <2>3, <1>9 DEF SlotTyped
  <2>5. Same
    BY <1>9 DEF ReadPlan, Same
  <2> QED BY <2>2, <2>4, <2>5, <1>3
<1>10. ASSUME NEW p, NEW updates, PatchPlan(w, p, updates) PROVE RowTypes'
  <2>1. ReadPlan(w, p, updates, Waiting)
    BY <1>10 DEF PatchPlan
  <2> QED BY <2>1, <1>7, <1>9
<1>11. ASSUME NEW p, NEW goal, OpenPlan(w, p, goal) PROVE RowTypes'
  <2>1. PICK s : s = [pc |-> "ensure", plan |-> p, row |-> plans[p], goal |-> goal]
    OBVIOUS
  <2>2. serving' = [serving EXCEPT ![w] = s] /\ Same
    BY <2>1, <1>11 DEF OpenPlan, Goes, Same
  <2> QED BY <2>1, <2>2, <1>6
<1>12. ASSUME NEW t \in Targets, NEW items \in RowPosts, PutRows(w, t, items) PROVE RowTypes'
  <2>1. Items(Fresh(items))
    BY FreshTyped DEF SetupAssumption
  <2>2. Same /\ Replace(w, t, Fresh(items), Waiting)
    BY <1>12 DEF PutRows, Same
  <2> QED BY <2>1, <2>2, <1>1, <1>4
<1>13. ASSUME NEW t \in WorkflowTargets, SeedRows(w, t) PROVE RowTypes'
  <2>1. PICK items : items = (IF t[1] = "rules" THEN DefaultRules ELSE DefaultSources)
    OBVIOUS
  <2>2. Items(Fresh(items))
    BY <2>1, FreshTyped DEF SetupAssumption
  <2>3. Same /\ Replace(w, t, Fresh(items), Waiting)
    BY <2>1, <1>13 DEF SeedRows, Same
  <2> QED BY <2>2, <2>3, <1>4, <1>5
<1>14. ASSUME NEW t \in WorkflowTargets, NEW from, PutListed(w, t, from) PROVE RowTypes'
  <2>1. PICK l, todo : l = RowsOf(from) /\ todo = [i \in DOMAIN l |-> [id |-> l[i].id, item |-> l[i].item]]
    OBVIOUS
  <2>2. \A k \in DOMAIN l : \E i \in DOMAIN rows : l[k] = rows[i]
    BY <2>1, RowsFrom DEF RowsTypeInv
  <2>3. \A k \in DOMAIN l : l[k].item \in RuleItem
    BY <2>2 DEF RowTypes, RowTyped
  <2>4. Items(todo)
    BY <2>1, <2>3 DEF Items
  <2>5. Same /\ Replace(w, t, todo, Waiting)
    BY <2>1, <1>14 DEF PutListed, Same
  <2> QED BY <2>4, <2>5, <1>4, <1>5
<1>15. ASSUME SavePlan(w) \/ RowsWritten(w) PROVE RowTypes'
  <2>1. PICK s : s = serving[w].then
    OBVIOUS
  <2>2. serving[w].pc \in {"update", "write"} /\ serving' = [serving EXCEPT ![w] = s] /\ Same
    BY <2>1, <1>15 DEF SavePlan, RowsWritten, Goes, Same
  <2>3. s.pc \in {"free", "act", "attach"} /\ (s.pc = "act" => s.row.workflow_id \in 1..n)
    BY <2>1, <2>2, <1>2 DEF SlotOK, SlotTyped
  <2>4. SlotTyped(s, n, saves)
    BY <2>3 DEF SlotTyped
  <2> QED BY <2>2, <2>4, <1>3
<1>16. ASSUME Attached(w) PROVE RowTypes'
  <2>1. PICK s : s = Act(w)
    OBVIOUS
  <2>2. serving' = [serving EXCEPT ![w] = s] /\ Same /\ HasWorkflow(serving[w].row)
    BY <2>1, <1>16 DEF Attached, Goes, Same
  <2>3. s.pc = "act" /\ s.row.workflow_id \in 1..n
    BY <2>1, <2>2, TargetsAre DEF Act, HasWorkflow
  <2>4. SlotTyped(s, n, saves)
    BY <2>3 DEF SlotTyped
  <2> QED BY <2>2, <2>4, <1>3
<1>17. ASSUME CreateWorkflow(w) PROVE RowTypes'
  <2>1. PICK k, type, todo, then :
          /\ k = n + 1 /\ type = serving[w].row.workflow_type /\ todo = Fresh(TemplateRules(type))
          /\ Replace(w, <<"rules", k>>, todo, then)
    BY <1>17 DEF CreateWorkflow
  <2>2. workflows' = Append(workflows, serving[w].plan) /\ rows' = rows /\ saves' = saves
    BY <1>17 DEF CreateWorkflow
  <2>3. Len(workflows') = n + 1
    BY <2>2 DEF SetupTypeInv
  <2>4. Items(todo)
    BY <2>1, FreshTyped DEF TemplateRules, SetupAssumption
  <2>5. <<"rules", k>> \in TargetsOf(n + 1)
    BY <2>1, <1>1 DEF TargetsOf
  <2>6. n + 1 \in Nat /\ n <= n + 1
    BY <1>1
  <2> QED BY <2>1, <2>2, <2>3, <2>4, <2>5, <2>6, <1>1, ReplaceTyped
<1>18. ASSUME AttachWorkflow(w) PROVE RowTypes'
  <2>1. PICK updates : ReadPlan(w, serving[w].plan, updates, Act(w)) /\ serving[w].pc = "attach"
    BY <1>18 DEF AttachWorkflow
  <2>2. Act(w).row.workflow_id \in 1..n
    BY <2>1, <1>2 DEF Act, Aims
  <2> QED BY <2>1, <2>2, <1>9
<1>19. ASSUME AnswerCreated(w) PROVE RowTypes'
  <2>1. PICK type, k : type = serving[w].row.workflow_type /\ k = serving[w].row.workflow_id
    OBVIOUS
  <2>2. Same /\ serving[w].pc = "act"
    BY <1>19 DEF AnswerCreated, Same
  <2>3. CASE serving' = [serving EXCEPT ![w] = Waiting]
    BY <2>2, <2>3, <1>6, <1>7
  <2>4. CASE serving' # [serving EXCEPT ![w] = Waiting]
    <3>1. type \in DOMAIN WORKFLOW_TEMPLATES
          /\ Replace(w, <<"rules", k>>, Fresh(WORKFLOW_TEMPLATES[type]), Waiting)
      BY <2>1, <2>4, <1>19 DEF AnswerCreated, Goes
    <3>2. Items(Fresh(WORKFLOW_TEMPLATES[type]))
      BY <3>1, FreshTyped DEF SetupAssumption
    <3>3. <<"rules", k>> \in TargetsOf(n)
      BY <2>1, <2>2, <1>2 DEF SlotTyped, TargetsOf
    <3> QED BY <3>1, <3>2, <3>3, <2>2, <1>4
  <2> QED BY <2>3, <2>4
<1>20. ASSUME SelectRecords(w) PROVE RowTypes'
  <2>1. PICK s, goal, c, r, f, todo :
             /\ s = [pc |-> "select", goal |-> goal, commit |-> c, rules |-> r, findings |-> f,
                     at |-> 1, todo |-> todo]
             /\ serving' = [serving EXCEPT ![w] = s]
    BY <1>20, Zenon DEF SelectRecords, Goes
  <2>2. Same
    BY <1>20 DEF SelectRecords, Same
  <2> QED BY <2>1, <2>2, <1>6
<1>21. ASSUME ImportRecord(w) PROVE RowTypes'
  <2>1. PICK s : s = [serving[w] EXCEPT !.at = @ + 1]
    OBVIOUS
  <2>2. Same /\ serving[w].pc = "select" /\ serving' = [serving EXCEPT ![w] = s]
    BY <2>1, <1>21 DEF ImportRecord, Same
  <2>3. s.pc = "select"
    BY <2>1, <2>2, <1>2 DEF SlotOK
  <2> QED BY <2>2, <2>3, <1>6
<1>22. ASSUME AnswerImport(w) \/ Drop(w) PROVE RowTypes'
  <2>1. Same /\ serving' = [serving EXCEPT ![w] = Waiting]
    BY <1>22 DEF AnswerImport, Drop, Goes, Same
  <2> QED BY <2>1, <1>6, <1>7
<1> QED BY <1>8, <1>10, <1>11, <1>12, <1>13, <1>14, <1>15, <1>16, <1>17, <1>18, <1>19, <1>20, <1>21,
           <1>22, Zenon

(* RowTypes holds after every step.                                         *)
LEMMA RowTypesStep ==
    ASSUME RowTypes, PlanInv, RowsTypeInv, SetupAssumption, [SetupNext]_setupVars
    PROVE  RowTypes'
<1>1. SetupTypeInv /\ PointsInv
  BY DEF PlanInv
<1>2. CASE UNCHANGED setupVars
  <2>1. serving' = serving /\ rows' = rows /\ saves' = saves /\ workflows' = workflows
    BY <1>2 DEF setupVars
  <2> QED BY <2>1 DEF RowTypes
<1>3. CASE PostWorkflow
  <2>1. serving' = serving /\ rows' = rows /\ saves' = saves /\ workflows' = Append(workflows, 0)
    BY <1>3 DEF PostWorkflow
  <2>2. PICK n \in Nat, m \in Nat : n = Len(workflows) /\ m = saves
    BY <1>1, TargetsAre DEF RowsTypeInv
  <2>3. Len(workflows') = n + 1
    BY <1>1, <2>1, <2>2 DEF SetupTypeInv
  <2>4. n + 1 \in Nat /\ n <= n + 1 /\ m <= m
    OBVIOUS
  <2>5. \A w \in SetupSlots : SlotTyped(serving[w], n + 1, m)
    BY <2>2, <2>4, MoreTyped DEF RowTypes
  <2>6. \A i \in DOMAIN rows : RowTyped(rows[i], n + 1, m)
    BY <2>2, <2>4, MoreTyped DEF RowTypes
  <2> QED BY <2>1, <2>2, <2>3, <2>5, <2>6 DEF RowTypes
<1> HIDE DEF PlanInv
<1> QED BY <1>1, <1>2, <1>3, DeleteTyped, WriteTyped, OthersTyped, Zenon DEF SetupNext

(* The plans marked by history are plans.                                   *)
Marks == overlaid \cup doubled \subseteq DOMAIN plans
LEMMA MarksStep ==
    ASSUME Marks, SetupTypeInv, SetupNext
    PROVE  Marks'
<1> DEFINE Same == plans' = plans /\ overlaid' = overlaid /\ doubled' = doubled
<1>1. ASSUME Same PROVE Marks'
  BY <1>1 DEF Marks
<1>2. ASSUME NEW p \in DOMAIN plans, plans' = plans, overlaid' \subseteq overlaid \cup {p},
             doubled' \subseteq doubled \cup {p}
      PROVE  Marks'
  BY <1>2 DEF Marks
<1>3. DOMAIN plans = 1..Len(plans) /\ Len(plans) \in Nat
  BY DEF SetupTypeInv
<1> HIDE DEF Same
<1>4. CASE PostWorkflow
  <2>1. Same
    BY <1>4 DEF PostWorkflow, Same
  <2> QED BY <2>1, <1>1
<1>5. ASSUME NEW w \in SetupSlots, NEW type, NEW objective, CreatePlan(w, type, objective) PROVE Marks'
  <2>1. PICK row : plans' = Append(plans, row)
    BY <1>5 DEF CreatePlan
  <2>2. PICK S : S = PlanRow \cup {row}
    OBVIOUS
  <2>3. plans \in Seq(S) /\ row \in S
    BY <2>2 DEF SetupTypeInv
  <2>4. DOMAIN plans' = 1..Len(plans) + 1
    BY <2>1, <2>3
  <2>5. overlaid' = overlaid /\ doubled' = doubled
    BY <1>5 DEF CreatePlan
  <2>6. DOMAIN plans \subseteq DOMAIN plans'
    BY <2>4, <1>3
  <2> QED BY <2>5, <2>6 DEF Marks
<1>6. ASSUME NEW w \in SetupSlots, SavePlan(w) PROVE Marks'
  BY <1>6 DEF SavePlan, Marks
<1>7. ASSUME NEW w, NEW p \in DOMAIN plans, NEW updates, NEW then, ReadPlan(w, p, updates, then)
      PROVE  plans' = plans /\ overlaid' \subseteq overlaid \cup {p}
  BY <1>7 DEF ReadPlan
<1>8. ASSUME NEW w \in SetupSlots, NEW p \in DOMAIN plans, NEW updates, PatchPlan(w, p, updates)
      PROVE  Marks'
  <2>1. doubled' \subseteq doubled \cup {p} /\ ReadPlan(w, p, updates, Waiting)
    BY <1>8 DEF PatchPlan
  <2> QED BY <2>1, <1>2, <1>7
<1>9. ASSUME NEW w \in SetupSlots, NEW p \in DOMAIN plans, NEW goal, OpenPlan(w, p, goal) PROVE Marks'
  <2>1. plans' = plans /\ overlaid' = overlaid /\ doubled' \subseteq doubled \cup {p}
    BY <1>9 DEF OpenPlan
  <2> QED BY <2>1, <1>2
<1>10. ASSUME NEW w \in SetupSlots, AttachWorkflow(w) PROVE Marks'
  <2>1. PICK updates : ReadPlan(w, serving[w].plan, updates, Act(w)) /\ serving[w].pc = "attach"
                       /\ doubled' = doubled
    BY <1>10 DEF AttachWorkflow
  <2>2. serving[w].plan \in DOMAIN plans
    BY <2>1, <1>3 DEF SetupTypeInv, SlotOK
  <2> QED BY <2>1, <2>2, <1>2, <1>7
<1>11. ASSUME NEW w \in SetupSlots, Drop(w) PROVE Marks'
  <2>1. plans' = plans /\ overlaid' = overlaid
        /\ doubled' = doubled \cup {p \in DOMAIN plans : w \in Healing(p)}
    BY <1>11 DEF Drop
  <2> QED BY <2>1 DEF Marks
<1>12. ASSUME NEW w \in SetupSlots,
              \/ \E t \in Targets : \E items \in RowPosts : PutRows(w, t, items)
              \/ \E t \in WorkflowTargets :
                   \/ SeedRows(w, t)
                   \/ \E from \in WorkflowTargets : PutListed(w, t, from)
              \/ DeleteRows(w) \/ WriteRow(w) \/ RowsWritten(w) \/ Attached(w) \/ CreateWorkflow(w)
              \/ AnswerCreated(w) \/ SelectRecords(w) \/ ImportRecord(w) \/ AnswerImport(w)
       PROVE  Marks'
  <2>1. Same
    BY <1>12, Zenon DEF PutRows, SeedRows, PutListed, DeleteRows, WriteRow, RowsWritten, Attached,
       CreateWorkflow, AnswerCreated, SelectRecords, ImportRecord, AnswerImport, Same
  <2> QED BY <2>1, <1>1
<1> QED BY <1>4, <1>5, <1>6, <1>8, <1>9, <1>10, <1>11, <1>12, Zenon DEF SetupNext

(* The targets marked by history are targets.                               *)
Contests == contested \subseteq TargetsOf(Len(workflows))
LEMMA ContestsStep ==
    ASSUME Contests, RowTypes, SetupTypeInv, SetupNext
    PROVE  Contests'
<1> DEFINE n == Len(workflows)
           Same == workflows' = workflows /\ contested' = contested
<1>1. ASSUME Same PROVE Contests'
  BY <1>1 DEF Contests
<1>2. ASSUME NEW X, workflows' = workflows, contested' \subseteq contested \cup X, X \subseteq TargetsOf(n)
      PROVE  Contests'
  <2>1. contested' \subseteq TargetsOf(n)
    BY <1>2 DEF Contests
  <2> QED BY <2>1, <1>2 DEF Contests
<1>3. ASSUME NEW k, workflows' = Append(workflows, k), k \in 0..Len(plans), contested' = contested
      PROVE  Contests'
  <2>1. PICK m : m = n /\ m \in Nat /\ Len(workflows') = m + 1
    BY <1>3 DEF SetupTypeInv
  <2>2. \A x : x \in TargetsOf(m) => x \in TargetsOf(m + 1)
    <3>1. m + 1 \in Nat /\ m <= m + 1 /\ 0 \in Nat /\ 0 <= 0
      BY <2>1
    <3> QED BY <2>1, <3>1, MoreTyped
  <2> QED BY <2>1, <2>2, <1>3 DEF Contests
<1>4. \A w \in SetupSlots : serving[w].pc \in {"replace", "write"} => serving[w].target \in TargetsOf(n)
  BY DEF RowTypes, SlotTyped
<1> HIDE DEF Same
<1>5. CASE PostWorkflow
  <2>1. workflows' = Append(workflows, 0) /\ contested' = contested
    BY <1>5 DEF PostWorkflow
  <2>2. 0 \in 0..Len(plans)
    BY DEF SetupTypeInv
  <2> QED BY <2>1, <2>2, <1>3
<1>6. ASSUME NEW w \in SetupSlots, CreateWorkflow(w) PROVE Contests'
  <2>1. /\ workflows' = Append(workflows, serving[w].plan) /\ contested' = contested
        /\ serving[w].pc = "ensure"
    BY <1>6 DEF CreateWorkflow
  <2>2. serving[w].plan \in 1..Len(plans) /\ Len(plans) \in Nat
    BY <2>1 DEF SetupTypeInv, SlotOK
  <2>3. serving[w].plan \in 0..Len(plans)
    BY <2>2
  <2> QED BY <2>1, <2>3, <1>3
<1>7. ASSUME NEW w \in SetupSlots, DeleteRows(w) PROVE Contests'
  <2>1. /\ serving[w].pc = "replace" /\ workflows' = workflows
        /\ contested' \subseteq contested \cup {serving[w].target}
    BY <1>7 DEF DeleteRows
  <2>2. {serving[w].target} \subseteq TargetsOf(n)
    BY <2>1, <1>4
  <2> QED BY <2>1, <2>2, <1>2
<1>8. ASSUME NEW w \in SetupSlots, WriteRow(w) PROVE Contests'
  <2>1. PICK at : /\ at = {i \in DOMAIN rows : rows[i].id = Head(serving[w].todo).id}
                  /\ contested' = contested \cup ({rows[i].target : i \in at} \ {serving[w].target})
                  /\ workflows' = workflows
    BY <1>8 DEF WriteRow
  <2>2. \A i \in at : rows[i].target \in TargetsOf(n)
    BY <2>1 DEF RowTypes, RowTyped
  <2>3. PICK X : X = {rows[i].target : i \in at}
    OBVIOUS
  <2>4. X \subseteq TargetsOf(n)
    BY <2>2, <2>3
  <2>5. contested' \subseteq contested \cup X
    BY <2>1, <2>3
  <2> QED BY <2>1, <2>4, <2>5, <1>2
<1>9. ASSUME NEW w \in SetupSlots, Drop(w) PROVE Contests'
  <2>1. CASE serving[w].pc = "write"
    <3>1. workflows' = workflows /\ contested' \subseteq contested \cup {serving[w].target}
      BY <1>9 DEF Drop
    <3>2. {serving[w].target} \subseteq TargetsOf(n)
      BY <2>1, <1>4
    <3> QED BY <3>1, <3>2, <1>2
  <2>2. CASE serving[w].pc # "write"
    <3>1. Same
      BY <2>2, <1>9 DEF Drop, Same
    <3> QED BY <3>1, <1>1
  <2> QED BY <2>1, <2>2
<1>10. ASSUME NEW w \in SetupSlots,
              \/ \E type \in PlanTypes, objective \in {Missing, "given"} : CreatePlan(w, type, objective)
              \/ \E p \in DOMAIN plans :
                   \/ \E updates \in Patches : PatchPlan(w, p, updates)
                   \/ \E goal : OpenPlan(w, p, goal)
              \/ \E t \in Targets : \E items \in RowPosts : PutRows(w, t, items)
              \/ \E t \in WorkflowTargets :
                   \/ SeedRows(w, t)
                   \/ \E from \in WorkflowTargets : PutListed(w, t, from)
              \/ SavePlan(w) \/ RowsWritten(w) \/ Attached(w) \/ AttachWorkflow(w)
              \/ AnswerCreated(w) \/ SelectRecords(w) \/ ImportRecord(w) \/ AnswerImport(w)
       PROVE  Contests'
  <2>1. Same
    BY <1>10, Zenon DEF CreatePlan, PatchPlan, ReadPlan, OpenPlan, PutRows, SeedRows, PutListed, SavePlan,
       RowsWritten, Attached, AttachWorkflow, AnswerCreated, SelectRecords, ImportRecord, AnswerImport, Same
  <2> QED BY <2>1, <1>1
<1> QED BY <1>5, <1>6, <1>7, <1>8, <1>9, <1>10, Zenon DEF SetupNext

(* Saves, commits and dead requests are counted up to their bounds.         *)
Bounds == saves \in 0..MaxSaves /\ commits \in 0..MaxCommits /\ dropped \in 0..MaxDropped
LEMMA BoundsStep ==
    ASSUME Bounds, SetupAssumption, SetupNext
    PROVE  Bounds'
<1> DEFINE Same == saves' = saves /\ commits' = commits /\ dropped' = dropped
<1>1. ASSUME Same PROVE Bounds'
  BY <1>1 DEF Bounds
<1>2. MaxSaves \in Nat /\ MaxCommits \in Nat /\ MaxDropped \in Nat
  BY DEF SetupAssumption
<1>3. ASSUME NEW w \in SetupSlots, DeleteRows(w) PROVE Bounds'
  <2>1. saves < MaxSaves /\ saves' = saves + 1 /\ commits' = commits /\ dropped' = dropped
    BY <1>3 DEF DeleteRows
  <2> QED BY <2>1, <1>2 DEF Bounds
<1>4. ASSUME NEW w \in SetupSlots, SelectRecords(w) PROVE Bounds'
  <2>1. /\ saves' = saves /\ dropped' = dropped
        /\ commits' = commits \/ (commits < MaxCommits /\ commits' = commits + 1)
    BY <1>4, Zenon DEF SelectRecords
  <2> QED BY <2>1, <1>2 DEF Bounds
<1>5. ASSUME NEW w \in SetupSlots, Drop(w) PROVE Bounds'
  <2>1. dropped < MaxDropped /\ dropped' = dropped + 1 /\ commits' = commits /\ saves' = saves
    BY <1>5 DEF Drop
  <2> QED BY <2>1, <1>2 DEF Bounds
<1> HIDE DEF Same
<1>6. CASE PostWorkflow
  <2>1. Same
    BY <1>6 DEF PostWorkflow, Same
  <2> QED BY <2>1, <1>1
<1>7. ASSUME NEW w \in SetupSlots,
             \/ \E type \in PlanTypes, objective \in {Missing, "given"} : CreatePlan(w, type, objective)
             \/ \E p \in DOMAIN plans :
                  \/ \E updates \in Patches : PatchPlan(w, p, updates)
                  \/ \E goal : OpenPlan(w, p, goal)
             \/ \E t \in Targets : \E items \in RowPosts : PutRows(w, t, items)
             \/ \E t \in WorkflowTargets :
                  \/ SeedRows(w, t)
                  \/ \E from \in WorkflowTargets : PutListed(w, t, from)
             \/ SavePlan(w) \/ WriteRow(w) \/ RowsWritten(w) \/ Attached(w) \/ CreateWorkflow(w)
             \/ AttachWorkflow(w) \/ AnswerCreated(w) \/ ImportRecord(w) \/ AnswerImport(w)
      PROVE  Bounds'
  <2>1. Same
    BY <1>7, Zenon DEF CreatePlan, PatchPlan, ReadPlan, OpenPlan, PutRows, SeedRows, PutListed, SavePlan,
       WriteRow, RowsWritten, Attached, CreateWorkflow, AttachWorkflow, AnswerCreated, ImportRecord,
       AnswerImport, Same
  <2> QED BY <2>1, <1>1
<1> QED BY <1>3, <1>4, <1>5, <1>6, <1>7, Zenon DEF SetupNext

(* A record is imported by a commit, and only a commit has records to       *)
(* import.                                                                  *)
Committing(s) == s.pc = "select" /\ s.todo # <<>> => s.commit # 0
Committed ==
    /\ \A r \in imported : r.commit # 0
    /\ \A w \in SetupSlots : Committing(serving[w])
LEMMA CommittedStep ==
    ASSUME Committed, SetupTypeInv, ImportInv, SetupNext
    PROVE  Committed'
<1>1. ASSUME NEW w \in SetupSlots, NEW s, serving' = [serving EXCEPT ![w] = s], Committing(s),
             imported' = imported
      PROVE  Committed'
  <2>1. serving'[w] = s /\ \A v \in SetupSlots : v # w => serving'[v] = serving[v]
    BY <1>1 DEF SetupTypeInv
  <2> QED BY <2>1, <1>1 DEF Committed
<1>2. ASSUME NEW w \in SetupSlots, NEW s, serving' = [serving EXCEPT ![w] = s], s.pc # "select",
             imported' = imported
      PROVE  Committed'
  BY <1>1, <1>2 DEF Committing
<1>3. \A w \in SetupSlots : SlotOK(serving[w], Len(plans))
  BY DEF SetupTypeInv
<1>4. Waiting.pc = "free" /\ \A w : Act(w).pc = "act"
  BY DEF Waiting, Act
<1>5. CASE PostWorkflow
  <2>1. serving' = serving /\ imported' = imported
    BY <1>5 DEF PostWorkflow
  <2> QED BY <2>1 DEF Committed
<1>6. ASSUME NEW w \in SetupSlots, SelectRecords(w) PROVE Committed'
  <2>1. PICK goal, findings, rules : goal = serving[w].goal /\ findings = Findings(goal.post, Rules(PlanRules(w)))
                                     /\ rules = PlanRules(w)
    OBVIOUS
  <2>2. PICK todo, s :
        /\ todo = (IF goal.kind = "commit" THEN Chosen(goal.post, findings) ELSE <<>>)
        /\ s = [pc |-> "select", goal |-> goal, commit |-> commits',
                rules |-> rules, findings |-> findings, at |-> 1, todo |-> todo]
    OBVIOUS
  <2>3. /\ serving' = [serving EXCEPT ![w] = s] /\ imported' = imported
        /\ goal.kind = "commit" => commits' = commits + 1
    BY <1>6, <2>1, <2>2, Zenon DEF SelectRecords, Goes
  <2>4. s.pc = "select" /\ s.todo = todo /\ s.commit = commits'
    BY <2>2
  <2>5. todo # <<>> => goal.kind = "commit"
    BY <2>2
  <2>6. commits \in Nat
    BY DEF ImportInv
  <2>7. Committing(s)
    BY <2>3, <2>4, <2>5, <2>6 DEF Committing
  <2> QED BY <2>3, <2>7, <1>1
<1>7. ASSUME NEW w \in SetupSlots, ImportRecord(w) PROVE Committed'
  <2>1. PICK s0, s : s0 = serving[w] /\ s = [s0 EXCEPT !.at = @ + 1]
    OBVIOUS
  <2>2. /\ s0.pc = "select" /\ serving' = [serving EXCEPT ![w] = s]
        /\ s0.at <= Len(s0.todo)
    BY <1>7, <2>1 DEF ImportRecord
  <2>3. PICK more : imported' = more /\ \A r \in more : r \in imported \/ r.commit = s0.commit
    BY <1>7, <2>1 DEF ImportRecord
  <2>4. DOMAIN s0 = {"pc", "goal", "commit", "rules", "findings", "at", "todo"}
    BY <2>1, <2>2, <1>3 DEF SlotOK
  <2>5. s.pc = "select" /\ s.todo = s0.todo /\ s.commit = s0.commit
    BY <2>1, <2>2, <2>4
  <2>6. s0.todo # <<>>
    <3>1. SlotImport(s0, commits)
      BY <2>1 DEF ImportInv
    <3>2. s0.at \in 1..Len(s0.todo) + 1 /\ Len(s0.todo) \in Nat
      BY <3>1, <2>2, ListIs DEF SlotImport, FindingList
    <3>3. Len(s0.todo) # 0
      BY <2>2, <3>2
    <3> QED BY <3>3
  <2>7. s0.commit # 0
    BY <2>1, <2>2, <2>6 DEF Committed, Committing
  <2>8. serving'[w] = s /\ \A v \in SetupSlots : v # w => serving'[v] = serving[v]
    BY <2>2 DEF SetupTypeInv
  <2> QED BY <2>3, <2>5, <2>7, <2>8 DEF Committed, Committing
<1>8. ASSUME NEW w \in SetupSlots, NEW t, NEW items, NEW then, Replace(w, t, items, then),
             imported' = imported
      PROVE  Committed'
  <2>1. PICK s : s = [pc |-> "replace", target |-> t, todo |-> items, then |-> then]
    OBVIOUS
  <2>2. serving' = [serving EXCEPT ![w] = s] /\ s.pc # "select"
    BY <2>1, <1>8 DEF Replace, Goes
  <2> QED BY <2>2, <1>2, <1>8
<1>9. ASSUME NEW w \in SetupSlots,
             \/ \E t \in Targets : \E items \in RowPosts : PutRows(w, t, items)
             \/ \E t \in WorkflowTargets :
                  \/ SeedRows(w, t)
                  \/ \E from \in WorkflowTargets : PutListed(w, t, from)
             \/ CreateWorkflow(w)
      PROVE  Committed'
  <2>1. /\ imported' = imported
        /\ \E t, items, then : Replace(w, t, items, then)
    BY <1>9, Zenon DEF PutRows, SeedRows, PutListed, CreateWorkflow
  <2> QED BY <2>1, <1>8
<1>10. ASSUME NEW w \in SetupSlots, AnswerCreated(w) PROVE Committed'
  <2>1. imported' = imported
    BY <1>10 DEF AnswerCreated
  <2>2. CASE serving' = [serving EXCEPT ![w] = Waiting]
    BY <2>1, <2>2, <1>2, <1>4
  <2>3. CASE serving' # [serving EXCEPT ![w] = Waiting]
    <3>1. PICK t, items : Replace(w, t, items, Waiting)
      BY <2>3, <1>10 DEF AnswerCreated, Goes
    <3> QED BY <3>1, <2>1, <1>8
  <2> QED BY <2>2, <2>3
<1>11. ASSUME NEW w \in SetupSlots, AnswerImport(w) \/ Drop(w) PROVE Committed'
  <2>1. imported' = imported /\ serving' = [serving EXCEPT ![w] = Waiting]
    BY <1>11 DEF AnswerImport, Drop, Goes
  <2> QED BY <2>1, <1>2, <1>4
<1>12. ASSUME NEW w \in SetupSlots, SavePlan(w) \/ RowsWritten(w) PROVE Committed'
  <2>1. PICK s : s = serving[w].then
    OBVIOUS
  <2>2. /\ serving[w].pc \in {"update", "write"} /\ serving' = [serving EXCEPT ![w] = s]
        /\ imported' = imported
    BY <2>1, <1>12 DEF SavePlan, RowsWritten, Goes
  <2>3. s.pc # "select"
    BY <2>1, <2>2, <1>3 DEF SlotOK
  <2> QED BY <2>2, <2>3, <1>2
<1>13. ASSUME NEW w \in SetupSlots, Attached(w) PROVE Committed'
  <2>1. imported' = imported /\ serving' = [serving EXCEPT ![w] = Act(w)]
    BY <1>13 DEF Attached, Goes
  <2> QED BY <2>1, <1>2, <1>4
<1>14. ASSUME NEW w \in SetupSlots, NEW s, s.pc # "select", Goes(w, s), imported' = imported PROVE Committed'
  BY <1>14, <1>2 DEF Goes
<1>15. ASSUME NEW w \in SetupSlots, NEW type, NEW objective, CreatePlan(w, type, objective)
       PROVE  Committed'
  <2>1. PICK s, row : /\ s = [pc |-> "ensure", plan |-> Len(plans) + 1, row |-> row,
                              goal |-> [kind |-> "create"]]
                      /\ Goes(w, s) /\ imported' = imported
    BY <1>15, Zenon DEF CreatePlan
  <2>2. s.pc # "select"
    BY <2>1
  <2> QED BY <2>1, <2>2, <1>14
<1>16. ASSUME NEW w \in SetupSlots, NEW p, NEW updates, NEW then, ReadPlan(w, p, updates, then)
       PROVE  Committed'
  <2>1. PICK s : s = [pc |-> "update", plan |-> p, updates |-> updates,
                      row |-> Updated(plans[p], updates), then |-> then]
    OBVIOUS
  <2>2. Goes(w, s) /\ imported' = imported /\ s.pc # "select"
    BY <1>16, <2>1 DEF ReadPlan
  <2> QED BY <2>2, <1>14
<1>17. ASSUME NEW w \in SetupSlots, (\E p, updates : PatchPlan(w, p, updates)) \/ AttachWorkflow(w)
       PROVE  Committed'
  BY <1>16, <1>17, Zenon DEF PatchPlan, AttachWorkflow
<1>18. ASSUME NEW w \in SetupSlots, NEW p, NEW goal, OpenPlan(w, p, goal) PROVE Committed'
  <2>1. PICK s : s = [pc |-> "ensure", plan |-> p, row |-> plans[p], goal |-> goal]
    OBVIOUS
  <2>2. Goes(w, s) /\ imported' = imported /\ s.pc # "select"
    BY <1>18, <2>1 DEF OpenPlan
  <2> QED BY <2>2, <1>14
<1>19. ASSUME NEW w \in SetupSlots, DeleteRows(w) PROVE Committed'
  <2>1. PICK s, t, todo, m, of, then :
          /\ s = [pc |-> "write", target |-> t, todo |-> todo, save |-> m, of |-> of, then |-> then]
          /\ Goes(w, s) /\ imported' = imported
    BY <1>19, Zenon DEF DeleteRows
  <2>2. s.pc # "select"
    BY <2>1
  <2> QED BY <2>1, <2>2, <1>14
<1>20. ASSUME NEW w \in SetupSlots, WriteRow(w) PROVE Committed'
  <2>1. PICK s0, s : s0 = serving[w] /\ s = [s0 EXCEPT !.todo = Tail(s0.todo)]
    OBVIOUS
  <2>2. s0.pc = "write" /\ serving' = [serving EXCEPT ![w] = s] /\ imported' = imported
    BY <2>1, <1>20 DEF WriteRow
  <2>3. s.pc # "select"
    BY <2>1, <2>2, <1>3 DEF SlotOK
  <2> QED BY <2>2, <2>3, <1>2
<1> QED BY <1>5, <1>6, <1>7, <1>9, <1>10, <1>11, <1>12, <1>13, <1>15, <1>17, <1>18, <1>19, <1>20, Zenon
    DEF SetupNext

KindInv == RowTypes /\ Bounds /\ Marks /\ Contests /\ Committed

(* A row belongs to a target that exists and has an item and an identifier  *)
(* of its own, a workflow to a plan, an imported record to a commit: for    *)
(* any lists of rows clients put, any updates, any interleaving of the      *)
(* requests and any deaths of them (routers/setup.py:223-238, 449-571,      *)
(* storage.py:2304-2339).                                                   *)
THEOREM SetupTypes == SetupSpec => []SetupTypeOK
<1>1. SetupInit => KindInv
  <2> SUFFICES ASSUME SetupInit PROVE KindInv
    OBVIOUS
  <2>1. /\ plans = <<>> /\ workflows = <<>> /\ rows = <<>> /\ imported = {}
        /\ saves = 0 /\ commits = 0 /\ dropped = 0
        /\ overlaid = {} /\ doubled = {} /\ contested = {}
        /\ \A w \in SetupSlots : serving[w].pc = "free"
    BY DEF SetupInit, Waiting
  <2>2. Bounds
    BY <2>1, SetupAssumption DEF Bounds, SetupAssumption
  <2>3. RowTypes
    BY <2>1 DEF RowTypes, SlotTyped
  <2>4. Marks /\ Contests /\ Committed
    BY <2>1 DEF Marks, Contests, Committed, Committing
  <2> QED BY <2>2, <2>3, <2>4 DEF KindInv
<1>2. KindInv /\ PlanInv /\ RowsInv /\ ImportInv /\ [SetupNext]_setupVars => KindInv'
  <2> SUFFICES ASSUME KindInv, PlanInv, RowsInv, ImportInv, [SetupNext]_setupVars PROVE KindInv'
    OBVIOUS
  <2>1. RowTypes /\ Bounds /\ Marks /\ Contests /\ Committed /\ SetupTypeInv /\ RowsTypeInv
    BY DEF KindInv, PlanInv, RowsInv
  <2>2. RowTypes'
    BY <2>1, RowTypesStep, SetupAssumption
  <2>3. CASE SetupNext
    <3>1. Bounds' /\ Marks' /\ Contests' /\ Committed'
      BY <2>1, <2>3, BoundsStep, MarksStep, ContestsStep, CommittedStep, SetupAssumption
    <3> QED BY <2>2, <3>1 DEF KindInv
  <2>4. CASE UNCHANGED setupVars
    <3>1. UNCHANGED <<plans, workflows, imported, serving, saves, commits, dropped, overlaid, doubled,
                      contested>>
      BY <2>4 DEF setupVars
    <3>2. Bounds' /\ Marks' /\ Contests' /\ Committed'
      BY <2>1, <3>1 DEF Bounds, Marks, Contests, Committed, Committing
    <3> QED BY <2>2, <3>2 DEF KindInv
  <2> QED BY <2>3, <2>4
<1>3. KindInv /\ PlanInv /\ RowsInv /\ ImportInv => SetupTypeOK
  <2> SUFFICES ASSUME KindInv, PlanInv, RowsInv, ImportInv PROVE SetupTypeOK
    OBVIOUS
  <2>1. RowTypes /\ Bounds /\ Marks /\ Contests /\ Committed /\ SetupTypeInv /\ RowsTypeInv
    BY DEF KindInv, PlanInv, RowsInv
  <2>2. \A p \in DOMAIN plans : DOMAIN plans[p] = PlanFields \cup {"workflow_type"}
    <3>1. \A p \in DOMAIN plans : plans[p] \in PlanRow
      BY <2>1 DEF SetupTypeInv
    <3>2. \A row \in PlanRow : DOMAIN row = AllFields
      BY DEF PlanRow
    <3> QED BY <3>1, <3>2, Zenon DEF AllFields
  <2>3. Range(workflows) \subseteq 0..Len(plans)
    BY <2>1 DEF SetupTypeInv, Range
  <2>4. \A i \in DOMAIN rows :
          /\ rows[i].target \in Targets /\ rows[i].item \in RuleItem /\ rows[i].save \in 1..saves
          /\ \A j \in DOMAIN rows : i # j => rows[i].id # rows[j].id
    <3>1. \A i \in DOMAIN rows : rows[i].target \in Targets /\ rows[i].item \in RuleItem /\ rows[i].save \in 1..saves
      BY <2>1, TargetsAre DEF RowTypes, RowTyped
    <3>2. \A i, j \in DOMAIN rows : rows[i].id = rows[j].id => i = j
      BY <2>1 DEF RowsTypeInv, RowIds
    <3> QED BY <3>1, <3>2
  <2>5. \A r \in imported : r.commit \in 1..commits
    <3>1. \A r \in imported : r.commit \in 0..commits /\ r.commit # 0
      BY <2>1 DEF ImportInv, Committed
    <3>2. \A c \in 0..commits : c # 0 => c \in 1..commits
      BY DEF ImportInv
    <3> QED BY <3>1, <3>2
  <2>6. overlaid \cup doubled \subseteq DOMAIN plans /\ contested \subseteq Targets
    BY <2>1, TargetsAre DEF Marks, Contests
  <2> QED BY <2>1, <2>2, <2>3, <2>4, <2>5, <2>6 DEF SetupTypeOK, Bounds
<1>4. SetupInit => RowsInv /\ ImportInv
  BY RowsInit, ImportInit
<1>5. RowsInv /\ PlanInv /\ [SetupNext]_setupVars => RowsInv'
  BY RowsStep, SetupAssumption DEF PlanInv
<1>6. ImportInv /\ PlanInv /\ [SetupNext]_setupVars => ImportInv'
  BY ImportNext, SetupAssumption DEF PlanInv
<1>7. SetupSpec => []PlanInv
  BY PlansInductive, SetupAssumption
<1> QED BY <1>1, <1>2, <1>3, <1>4, <1>5, <1>6, <1>7, PTL DEF SetupSpec
=============================================================================

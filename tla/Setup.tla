-------------------------------- MODULE Setup --------------------------------
(***************************************************************************)
(* The setup engine: assurance plans, their workflows and record selection *)
(* rules, and the import of records that the rules select.                 *)
(*                                                                         *)
(* A request is one step a storage call.  Selection rules, evidence        *)
(* sources and field rules are replaced alike: one transaction deletes the *)
(* rows of a target, then each row is written by itself, under its         *)
(* identifier whatever target it belonged to.                              *)
(*                                                                         *)
(* The numbers of saves and commits, overlaid, doubled and contested are   *)
(* history: plans that two updates worked on at once; plans that two       *)
(* requests gave a workflow at once, that a client pointed at a workflow   *)
(* or whose request died; targets of overlapping or broken-off saves.      *)
(***************************************************************************)
EXTENDS Integers, Sequences, FiniteSets, Functions

CONSTANTS
    Systems,            \* AI systems
    PlanTypes,          \* workflow types plans are created with
    WORKFLOW_TEMPLATES, \* workflow type -> its selection rules, for the types known
    DefaultRules,       \* _DEFAULT_RECORD_RULES
    DefaultSources,     \* _WORKFLOW_EVIDENCE_DEFAULTS, as items
    RowPosts,           \* sequences of items clients put
    Patches,            \* updates of a plan: partial functions on PlanFields
    ImportPosts,        \* [records, field_mapping, selected] of a preview or a commit
    SampleEvery,        \* 1000 in the code
    SetupSlots,         \* requests in flight
    MaxPlans, MaxWorkflows, MaxSaves, MaxCommits, MaxDropped,   \* bounds
    Missing             \* a value that is not there

PlanFields == {"workflow_id", "objective", "ai_system_id", "evidence_contract",
               "capture_policy", "readiness_policy_id"}

PolicyAnswer == "refund_or_policy_answer"

IsList(s) == s \in Seq(Range(s))

RuleItem == [trigger_type : STRING, enabled : BOOLEAN]

ASSUME SetupAssumption ==
    /\ PolicyAnswer \in DOMAIN WORKFLOW_TEMPLATES
    /\ DefaultRules \in Seq(RuleItem) /\ DefaultSources \in Seq(RuleItem)
    /\ \A type \in DOMAIN WORKFLOW_TEMPLATES : WORKFLOW_TEMPLATES[type] \in Seq(RuleItem)
    /\ RowPosts \subseteq Seq(RuleItem)
    /\ \A post \in ImportPosts : IsList(post.records)
    /\ \A updates \in Patches : DOMAIN updates \subseteq PlanFields
    /\ SampleEvery \in Nat \ {0}
    /\ MaxPlans \in Nat /\ MaxWorkflows \in Nat /\ MaxSaves \in Nat /\ MaxCommits \in Nat
    /\ MaxDropped \in Nat

VARIABLES
    plans,          \* AssuranceSetupPlan rows
    workflows,      \* DecisionWorkflow rows: the plan that made it, or 0
    rows,           \* selection rules, evidence sources, field rules
    imported,       \* verification records created by imports
    serving,        \* slot -> the request it runs
    saves, commits, dropped,
    overlaid, doubled, contested

setupVars == <<plans, workflows, rows, imported, serving, saves, commits, dropped,
               overlaid, doubled, contested>>

(* the values of f, a function on positions up to n, in their order         *)
Listed(f, n) ==
    LET list[i \in 0..n] ==
          IF i = 0 THEN <<>>
          ELSE IF i \in DOMAIN f THEN Append(list[i - 1], f[i]) ELSE list[i - 1]
    IN  list[n]

-----------------------------------------------------------------------------
(* RecordSelectionService.  A record is what its fields hold; cues are the  *)
(* triggers that its text suggests.                                         *)

CassetteKinds == {"tool", "llm", "http"}
Defaults == [elements |-> {}, source_record_ref |-> Missing, expected_outcome |-> Missing]

(* a mapped value replaces the field unless it is empty *)
normalize_record(rec, field_mapping) ==
    LET Mapped(f) == /\ f \in DOMAIN field_mapping
                     /\ field_mapping[f] \in DOMAIN rec
                     /\ rec[field_mapping[f]] # Missing
    IN  [f \in DOMAIN rec \cup DOMAIN Defaults \cup {g \in DOMAIN field_mapping : Mapped(g)} |->
            IF Mapped(f) THEN rec[field_mapping[f]]
            ELSE IF f \in DOMAIN rec THEN rec[f] ELSE Defaults[f]]

Matches(rule, rec, i) ==
    /\ rule.enabled
    /\ \/ rule.trigger_type = "sample" /\ (i - 1) % SampleEvery = 0
       \/ rule.trigger_type # "sample" /\ rule.trigger_type \in rec.cues

Forecast(rec) ==
    LET cassette == rec.elements \cap CassetteKinds # {}
        expected == rec.expected_outcome # Missing
    IN  CASE cassette /\ expected -> "replayable"
          [] cassette /\ ~ expected -> "requires_human_label"
          [] ~ cassette /\ expected -> "missing_context"
          [] ~ cassette /\ ~ expected -> "evidence_only"

(* the captured records, by their index; the first rule gives the trigger *)
apply_rules(records, rules) ==
    LET Matched(i) == Listed(RestrictValues(rules, LAMBDA rule : Matches(rule, records[i], i)),
                             Len(rules))
        Captured == {i \in DOMAIN records : Matched(i) # <<>> /\ "decision" \in records[i].elements}
    IN  [i \in Captured |->
            [trigger |-> Matched(i)[1].trigger_type,
             replayability |-> Forecast(records[i]),
             scenario_candidate |-> \E j \in Captured \ {i} :
                 Matched(j)[1].trigger_type = Matched(i)[1].trigger_type]]

(* ReplayabilityService.assess of a record that nobody has labelled yet; an *)
(* element of a kind not listed becomes a model call                        *)
EventKinds == {"http", "input", "rule", "decision", "rng_seed", "timestamp", "tool",
               "retrieval", "guardrail", "human"}
\* Mutant: takes the expected outcome for a label.
AssessLabelled(rec) ==
    IF rec.elements \cap {"http", "tool"} # {} THEN
        IF "decision" \in rec.elements /\ rec.expected_outcome # Missing THEN "replayable"
        ELSE "requires_human_label"
    ELSE IF rec.elements \ EventKinds # {} THEN "evidence_only" ELSE "unknown"

assess(rec) ==
    LET has_cassette == rec.elements \cap {"http", "tool"} # {}
        has_llm == rec.elements \ EventKinds # {}
        has_decision == "decision" \in rec.elements
    IN  CASE has_llm /\ ~ has_cassette -> "evidence_only"
          [] ~ has_llm /\ ~ has_cassette /\ ~ has_decision -> "missing_context"
          [] has_cassette -> "requires_human_label"
          [] OTHER -> "unknown"

(* the findings of an import: all captured records; those not selected are  *)
(* shown and not created                                                    *)
Findings(post, rules) ==
    LET records == [i \in DOMAIN post.records |->
                      normalize_record(post.records[i], post.field_mapping)]
        results == apply_rules(records, rules)
    IN  Listed([i \in DOMAIN results |->
                  [index |-> i, ref |-> records[i].source_record_ref,
                   forecast |-> results[i].replayability, stored |-> assess(records[i])]],
               Len(post.records))

Chosen(post, findings) ==
    Listed(RestrictValues(findings, LAMBDA f : post.selected = {} \/ f.ref \in post.selected),
           Len(findings))

-----------------------------------------------------------------------------
Waiting == [pc |-> "free"]
Goes(w, t) == serving' = [serving EXCEPT ![w] = t]

WorkflowTargets == {"rules", "sources"} \X DOMAIN workflows
Targets == WorkflowTargets \cup ({"fields"} \X Systems)
RowsOf(t) == Listed(RestrictValues(rows, LAMBDA r : r.target = t), Len(rows))

Saving(t) == {w \in SetupSlots : serving[w].pc = "write" /\ serving[w].target = t}
Updating(p) == {w \in SetupSlots : serving[w].pc = "update" /\ serving[w].plan = p}

HasWorkflow(row) == row.workflow_id \in DOMAIN workflows

(* requests that found the plan without a workflow and are giving it one *)
Healing(p) ==
    {w \in SetupSlots :
        \/ serving[w].pc = "ensure" /\ serving[w].plan = p /\ ~ HasWorkflow(serving[w].row)
        \/ serving[w].pc \in {"replace", "write"} /\ serving[w].then.pc = "attach"
                                                  /\ serving[w].then.plan = p
        \/ serving[w].pc = "attach" /\ serving[w].plan = p
        \/ serving[w].pc = "update" /\ serving[w].plan = p /\ serving[w].then.pc = "act"}

SetupInit ==
    /\ plans = <<>>
    /\ workflows = <<>>
    /\ rows = <<>>
    /\ imported = {}
    /\ serving = [w \in SetupSlots |-> Waiting]
    /\ saves = 0 /\ commits = 0 /\ dropped = 0
    /\ overlaid = {} /\ doubled = {} /\ contested = {}

-----------------------------------------------------------------------------
(* Plans. *)

Updated(row, updates) ==
    [f \in DOMAIN row |-> IF f \in DOMAIN updates THEN updates[f] ELSE row[f]]

(* POST /setup/plans saves a draft and gives it a workflow *)
CreatePlan(w, type, objective) ==
    /\ serving[w] = Waiting
    /\ Len(plans) < MaxPlans
    /\ LET row == [f \in PlanFields \cup {"workflow_type"} |->
                     CASE f = "workflow_type" -> type [] f = "objective" -> objective
                       [] OTHER -> Missing]
       IN  /\ plans' = Append(plans, row)
           /\ Goes(w, [pc |-> "ensure", plan |-> Len(plans) + 1, row |-> row,
                       goal |-> [kind |-> "create"]])
    /\ UNCHANGED <<workflows, rows, imported, saves, commits, dropped, overlaid, doubled, contested>>

(* update_plan reads the row ... *)
ReadPlan(w, p, updates, then) ==
    /\ Goes(w, [pc |-> "update", plan |-> p, updates |-> updates,
                row |-> Updated(plans[p], updates), then |-> then])
    /\ overlaid' = IF Updating(p) # {} THEN overlaid \cup {p} ELSE overlaid
    /\ UNCHANGED <<plans, workflows, rows, imported, saves, commits, dropped, contested>>

(* ... for PATCH, and for PUT of its evidence sources or capture method ... *)
PatchPlan(w, p, updates) ==
    /\ serving[w] = Waiting
    /\ ReadPlan(w, p, updates, Waiting)
    /\ doubled' = IF "workflow_id" \in DOMAIN updates THEN doubled \cup {p} ELSE doubled

(* ... and writes all of it back *)
SavePlan(w) ==
    /\ serving[w].pc = "update"
    /\ plans' = [plans EXCEPT ![serving[w].plan] = serving[w].row]
    /\ Goes(w, serving[w].then)
    /\ UNCHANGED <<workflows, rows, imported, saves, commits, dropped, overlaid, doubled, contested>>

(* a request on a plan holds the row it read *)
OpenPlan(w, p, goal) ==
    /\ serving[w] = Waiting
    /\ Goes(w, [pc |-> "ensure", plan |-> p, row |-> plans[p], goal |-> goal])
    /\ doubled' = IF ~ HasWorkflow(plans[p]) /\ Healing(p) # {} THEN doubled \cup {p} ELSE doubled
    /\ UNCHANGED <<plans, workflows, rows, imported, saves, commits, dropped, overlaid, contested>>

-----------------------------------------------------------------------------
(* Replacing the rows of a target. *)

Replace(w, t, items, then) ==
    Goes(w, [pc |-> "replace", target |-> t, todo |-> items, then |-> then])

(* new rows have no identifier until they are saved *)
Fresh(items) == [i \in DOMAIN items |-> [id |-> Missing, item |-> items[i]]]
Identified(todo, save) ==
    [i \in DOMAIN todo |-> IF todo[i].id = Missing THEN [todo[i] EXCEPT !.id = <<save, i>>] ELSE todo[i]]

\* Mutant: adds to the rows there are.
KeepRows(w) ==
    /\ serving[w].pc = "replace"
    /\ saves < MaxSaves
    /\ LET t == serving[w].target
       IN  /\ contested' = IF Saving(t) # {} THEN contested \cup {t} ELSE contested
           /\ Goes(w, [pc |-> "write", target |-> t, todo |-> Identified(serving[w].todo, saves + 1),
                       save |-> saves + 1, of |-> Len(serving[w].todo), then |-> serving[w].then])
    /\ saves' = saves + 1
    /\ UNCHANGED <<plans, workflows, rows, imported, commits, dropped, overlaid, doubled>>

DeleteRows(w) ==
    /\ serving[w].pc = "replace"
    /\ saves < MaxSaves
    /\ LET t == serving[w].target
       IN  /\ rows' = Listed(RestrictValues(rows, LAMBDA r : r.target # t), Len(rows))
           /\ contested' = IF Saving(t) # {} THEN contested \cup {t} ELSE contested
           /\ Goes(w, [pc |-> "write", target |-> t, todo |-> Identified(serving[w].todo, saves + 1),
                       save |-> saves + 1, of |-> Len(serving[w].todo), then |-> serving[w].then])
    /\ saves' = saves + 1
    /\ UNCHANGED <<plans, workflows, imported, commits, dropped, overlaid, doubled>>

\* Mutant: inserts, though the identifier is there.
InsertRow(w) ==
    /\ serving[w].pc = "write"
    /\ serving[w].todo # <<>>
    /\ rows' = Append(rows, [id |-> Head(serving[w].todo).id, item |-> Head(serving[w].todo).item,
                             target |-> serving[w].target, save |-> serving[w].save,
                             of |-> serving[w].of])
    /\ serving' = [serving EXCEPT ![w].todo = Tail(@)]
    /\ UNCHANGED <<plans, workflows, imported, saves, commits, dropped, overlaid, doubled, contested>>

(* an upsert: a row that kept its identifier leaves the target it was in *)
WriteRow(w) ==
    /\ serving[w].pc = "write"
    /\ serving[w].todo # <<>>
    /\ LET new == Head(serving[w].todo)
           row == [id |-> new.id, item |-> new.item, target |-> serving[w].target,
                   save |-> serving[w].save, of |-> serving[w].of]
           at == {i \in DOMAIN rows : rows[i].id = new.id}
       IN  /\ rows' = IF at = {} THEN Append(rows, row)
                      ELSE [i \in DOMAIN rows |-> IF i \in at THEN row ELSE rows[i]]
           /\ contested' = contested \cup ({rows[i].target : i \in at} \ {serving[w].target})
           /\ serving' = [serving EXCEPT ![w].todo = Tail(@)]
    /\ UNCHANGED <<plans, workflows, imported, saves, commits, dropped, overlaid, doubled>>

RowsWritten(w) ==
    /\ serving[w].pc = "write"
    /\ serving[w].todo = <<>>
    /\ Goes(w, serving[w].then)
    /\ UNCHANGED <<plans, workflows, rows, imported, saves, commits, dropped, overlaid, doubled,
                   contested>>

(* PUT with new rows, of a workflow that exists or of an AI system *)
PutRows(w, t, items) ==
    /\ serving[w] = Waiting
    /\ Replace(w, t, Fresh(items), Waiting)
    /\ UNCHANGED <<plans, workflows, rows, imported, saves, commits, dropped, overlaid, doubled,
                   contested>>

(* PUT of rows as a GET listed them, to the same workflow or another: they  *)
(* keep their identifiers, but for field rules                              *)
PutListed(w, t, from) ==
    /\ serving[w] = Waiting
    /\ t[1] = from[1] /\ RowsOf(from) # <<>>
    /\ Replace(w, t, [i \in DOMAIN RowsOf(from) |->
                        [id |-> RowsOf(from)[i].id, item |-> RowsOf(from)[i].item]], Waiting)
    /\ UNCHANGED <<plans, workflows, rows, imported, saves, commits, dropped, overlaid, doubled,
                   contested>>

(* GET of a workflow's rules or sources saves the default ones if there are *)
(* none                                                                     *)
SeedRows(w, t) ==
    /\ serving[w] = Waiting
    /\ RowsOf(t) = <<>>
    /\ Replace(w, t, Fresh(IF t[1] = "rules" THEN DefaultRules ELSE DefaultSources), Waiting)
    /\ UNCHANGED <<plans, workflows, rows, imported, saves, commits, dropped, overlaid, doubled,
                   contested>>

PostWorkflow ==
    /\ Len(workflows) < MaxWorkflows
    /\ workflows' = Append(workflows, 0)
    /\ UNCHANGED <<plans, rows, imported, serving, saves, commits, dropped, overlaid, doubled,
                   contested>>

-----------------------------------------------------------------------------
(* _ensure_plan_workflow. *)

(* an unknown type has the template of policy answers; of the templates     *)
(* that one alone has rules of its own                                      *)
TemplateRules(type) ==
    LET template == IF type \in DOMAIN WORKFLOW_TEMPLATES THEN type ELSE PolicyAnswer
    IN  IF WORKFLOW_TEMPLATES[template] # <<>> THEN WORKFLOW_TEMPLATES[template] ELSE DefaultRules

Act(w) == [pc |-> "act", plan |-> serving[w].plan, row |-> serving[w].row, goal |-> serving[w].goal]

Attached(w) ==
    /\ serving[w].pc = "ensure"
    /\ HasWorkflow(serving[w].row)
    /\ Goes(w, Act(w))
    /\ UNCHANGED <<plans, workflows, rows, imported, saves, commits, dropped, overlaid, doubled,
                   contested>>

CreateWorkflow(w) ==
    /\ serving[w].pc = "ensure"
    /\ ~ HasWorkflow(serving[w].row)
    /\ Len(workflows) < MaxWorkflows
    /\ workflows' = Append(workflows, serving[w].plan)
    /\ LET k == Len(workflows) + 1
       IN  Replace(w, <<"rules", k>>, Fresh(TemplateRules(serving[w].row.workflow_type)),
                   [Act(w) EXCEPT !.pc = "attach", !.row.workflow_id = k])
    /\ UNCHANGED <<plans, rows, imported, saves, commits, dropped, overlaid, doubled, contested>>

\* Mutant: the workflow is not saved in the plan.
ForgetWorkflow(w) ==
    /\ serving[w].pc = "attach"
    /\ Goes(w, Act(w))
    /\ UNCHANGED <<plans, workflows, rows, imported, saves, commits, dropped, overlaid, doubled,
                   contested>>

\* Mutant: the plan is saved as the request read it at first.
AttachToHeldRow(w) ==
    /\ serving[w].pc = "attach"
    /\ Goes(w, [pc |-> "update", plan |-> serving[w].plan, row |-> serving[w].row,
                updates |-> [f \in {"workflow_id"} |-> serving[w].row.workflow_id],
                then |-> Act(w)])
    /\ UNCHANGED <<plans, workflows, rows, imported, saves, commits, dropped, overlaid, doubled,
                   contested>>

(* the plan's row is read again for the update; the request goes on with    *)
(* its own copy                                                             *)
AttachWorkflow(w) ==
    /\ serving[w].pc = "attach"
    /\ ReadPlan(w, serving[w].plan,
                [f \in {"workflow_id"} |-> serving[w].row.workflow_id], Act(w))
    /\ UNCHANGED doubled

-----------------------------------------------------------------------------
(* What the plan was opened for. *)

PlanRules(w) == RowsOf(<<"rules", serving[w].row.workflow_id>>)
Rules(rs) == [i \in DOMAIN rs |-> rs[i].item]

(* GET of a plan's rules saves those of its template if there are none      *)
AnswerCreated(w) ==
    /\ serving[w].pc = "act"
    /\ serving[w].goal.kind \in {"create", "rules"}
    /\ LET type == serving[w].row.workflow_type
       IN  IF serving[w].goal.kind = "rules" /\ PlanRules(w) = <<>>
              /\ type \in DOMAIN WORKFLOW_TEMPLATES
           THEN Replace(w, <<"rules", serving[w].row.workflow_id>>,
                        Fresh(WORKFLOW_TEMPLATES[type]), Waiting)
           ELSE Goes(w, Waiting)
    /\ UNCHANGED <<plans, workflows, rows, imported, saves, commits, dropped, overlaid, doubled,
                   contested>>

(* preview and commit judge the same records by the same rules *)
SelectRecords(w) ==
    /\ serving[w].pc = "act"
    /\ serving[w].goal.kind \in {"preview", "commit"}
    /\ LET goal == serving[w].goal
           findings == Findings(goal.post, Rules(PlanRules(w)))
       IN  /\ goal.kind = "commit" => commits < MaxCommits
           /\ commits' = IF goal.kind = "commit" THEN commits + 1 ELSE commits
           /\ Goes(w, [pc |-> "select", goal |-> goal, commit |-> commits',
                       rules |-> PlanRules(w), findings |-> findings, at |-> 1,
                       todo |-> IF goal.kind = "commit" THEN Chosen(goal.post, findings) ELSE <<>>])
    /\ UNCHANGED <<plans, workflows, rows, imported, saves, dropped, overlaid, doubled, contested>>

(* create_from_sdk_snapshot; what it raises rejects the record alone *)
ImportRecord(w) ==
    /\ serving[w].pc = "select"
    /\ serving[w].at <= Len(serving[w].todo)
    /\ \E rejected \in BOOLEAN :
         imported' = IF rejected THEN imported
                     ELSE imported \cup {[commit |-> serving[w].commit,
                                          finding |-> serving[w].todo[serving[w].at]]}
    /\ serving' = [serving EXCEPT ![w].at = @ + 1]
    /\ UNCHANGED <<plans, workflows, rows, saves, commits, dropped, overlaid, doubled, contested>>

AnswerImport(w) ==
    /\ serving[w].pc = "select"
    /\ serving[w].at > Len(serving[w].todo)
    /\ Goes(w, Waiting)
    /\ UNCHANGED <<plans, workflows, rows, imported, saves, commits, dropped, overlaid, doubled,
                   contested>>

(* a request dies between two storage calls *)
Drop(w) ==
    /\ serving[w] # Waiting
    /\ dropped < MaxDropped
    /\ dropped' = dropped + 1
    /\ doubled' = doubled \cup {p \in DOMAIN plans : w \in Healing(p)}
    /\ contested' = IF serving[w].pc = "write" THEN contested \cup {serving[w].target} ELSE contested
    /\ Goes(w, Waiting)
    /\ UNCHANGED <<plans, workflows, rows, imported, saves, commits, overlaid>>

SetupNext ==
    \/ PostWorkflow
    \/ \E w \in SetupSlots :
         \/ \E type \in PlanTypes, objective \in {Missing, "given"} : CreatePlan(w, type, objective)
         \/ \E p \in DOMAIN plans :
              \/ \E updates \in Patches : PatchPlan(w, p, updates)
              \/ OpenPlan(w, p, [kind |-> "rules"])
              \/ \E post \in ImportPosts, kind \in {"preview", "commit"} :
                   OpenPlan(w, p, [kind |-> kind, post |-> post])
         \/ \E t \in Targets : \E items \in RowPosts : PutRows(w, t, items)
         \/ \E t \in WorkflowTargets :
              \/ SeedRows(w, t)
              \/ \E from \in WorkflowTargets : PutListed(w, t, from)
         \/ SavePlan(w)
         \/ DeleteRows(w)
         \/ WriteRow(w)
         \/ RowsWritten(w)
         \/ Attached(w)
         \/ CreateWorkflow(w)
         \/ AttachWorkflow(w)
         \/ AnswerCreated(w)
         \/ SelectRecords(w)
         \/ ImportRecord(w)
         \/ AnswerImport(w)
         \/ Drop(w)

SetupSpec == SetupInit /\ [][SetupNext]_setupVars

-----------------------------------------------------------------------------
(* Every variable has its type; a row belongs to a target that exists, and  *)
(* no two rows have one identifier.                                         *)
SetupTypeOK ==
    /\ \A p \in DOMAIN plans : DOMAIN plans[p] = PlanFields \cup {"workflow_type"}
    /\ Range(workflows) \subseteq 0..Len(plans)
    /\ \A i \in DOMAIN rows :
         /\ rows[i].target \in Targets /\ rows[i].item \in RuleItem /\ rows[i].save \in 1..saves
         /\ \A j \in DOMAIN rows : i # j => rows[i].id # rows[j].id
    /\ \A r \in imported : r.commit \in 1..commits
    /\ saves \in 0..MaxSaves /\ commits \in 0..MaxCommits /\ dropped \in 0..MaxDropped
    /\ overlaid \cup doubled \subseteq DOMAIN plans /\ contested \subseteq Targets

(* While no save of a target is going on, its rows are all the rows of one  *)
(* save: never a mixture, never a part.  Exempt are a target of two saves   *)
(* that overlapped (a GET that seeds is a save), of a save that died, and   *)
(* one whose rows were put, with their identifiers, to another target: they *)
(* moved there (routers/setup.py:223-238, 449-571, storage.py:2304-2339).   *)
RulesAreOneSave ==
    \A t \in Targets \ contested :
        Saving(t) = {} =>
            \A i \in DOMAIN RowsOf(t) : /\ RowsOf(t)[i].save = RowsOf(t)[1].save
                                        /\ Len(RowsOf(t)) = RowsOf(t)[i].of

(* SetupReadinessService.assess: proof may be issued when nothing is missing *)
missing_prerequisites(p) ==
    {f \in PlanFields \ {"readiness_policy_id"} : plans[p][f] = Missing}

(* A workflow made for a plan is the plan's workflow, or becomes it when    *)
(* the request that made it goes on; a plan that nothing is missing from    *)
(* has a workflow.  Exempt are the plans that two requests found without a  *)
(* workflow, whose request died or whose update was lost, and those that a  *)
(* client pointed elsewhere (routers/setup.py:632-677, setup_engine.py:643- *)
(* 683).                                                                    *)
WorkflowsAreAttached ==
    /\ \A k \in DOMAIN workflows :
         LET p == workflows[k]
         IN  p # 0 /\ p \notin doubled \cup overlaid =>
               plans[p].workflow_id = k \/ Healing(p) # {}
    /\ \A p \in DOMAIN plans \ doubled :
         missing_prerequisites(p) = {} => plans[p].workflow_id \in DOMAIN workflows

(* A field of a plan changes only by an update that names it: what one      *)
(* request saved another, about other fields, does not undo, though it      *)
(* writes the whole row.  Not so when the two overlapped                    *)
(* (setup_engine.py:233-242).                                               *)
OnlyNamedFieldsChange ==
    [][\A p \in DOMAIN plans : \A f \in DOMAIN plans[p] :
         plans'[p][f] # plans[p][f] =>
             \/ p \in overlaid
             \/ \E w \in Updating(p) : f \in DOMAIN serving[w].updates
      ]_setupVars

(* A commit creates a selected finding at most once and each in its turn,   *)
(* whatever was rejected; a repeated commit is a new one and creates them   *)
(* again.  What the preview forecasts is not what the record then is: no    *)
(* imported record is replayable, for its expected outcome is no label, and *)
(* one that has only model calls will never be more than evidence           *)
(* (routers/setup.py:879-923, setup_engine.py:461-470, services.py:430-461).*)
ImportsFollowForecast ==
    /\ \A r \in imported :
         /\ r.finding.forecast \in {"replayable", "requires_human_label"} =>
              r.finding.stored \in {"requires_human_label", "evidence_only"}
         /\ r.finding.forecast \in {"missing_context", "evidence_only"} =>
              r.finding.stored \in {"unknown", "evidence_only"}
    /\ \A r, q \in imported :
         r.commit = q.commit /\ r.finding.index = q.finding.index => r = q
    /\ \A w \in SetupSlots : serving[w].pc = "select" =>
         {r.finding : r \in {q \in imported : q.commit = serving[w].commit /\ serving[w].todo # <<>>}}
           \subseteq {serving[w].todo[i] : i \in 1..(serving[w].at - 1)}
=============================================================================

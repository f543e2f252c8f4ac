-------------------------------- MODULE Sweep --------------------------------
(***************************************************************************)
(* Sweep runs: planning by the routes, the runner's operations, the three  *)
(* evaluators, E0 to E4 sufficiency and the assembly of candidates.        *)
(*                                                                         *)
(* The routes create, start, cancel and repeat runs.  Nothing under src/   *)
(* calls the runner's other operations or the evaluators: the worker that  *)
(* drives them is modelled from their interface, as the tests drive them.  *)
(* A request is one step a storage call.                                   *)
(***************************************************************************)
EXTENDS Integers, Sequences, FiniteSets, Functions

CONSTANTS
    DefinitionIds,
    DefinitionPosts,    \* sequences of evaluator ids a definition is posted with
    Contracts,          \* evaluator id -> [kind, prerequisites]
    Evidence,           \* evidence records that builds produce, as the evaluators see them
    Parameters,         \* parameters of an evaluation
    Budgets,            \* budget states the worker may be in
    SweepSlots,         \* requests and workers in flight
    MaxRuns, MaxEvidence, MaxAssessed,   \* bounds
    MaxFailures,        \* bound: requests and workers that die
    Absent

Stages == <<"profiling", "resolving", "evaluating", "assembling", "completed">>
Finished == {"completed", "completed_with_errors", "failed", "cancelled"}
EvaluatorKinds == {"missing_evidence", "expected_outcome", "replayability"}
RunStatuses == {Stages[i] : i \in DOMAIN Stages} \cup Finished \cup {"queued"}

VARIABLES
    definitions,    \* definition id -> its evaluator ids
    evidence,       \* decision evidence records, in the order they were built
    runs,           \* SweepRun rows
    jobs,           \* run -> its SweepJob rows, in the order they were created
    assessments,    \* AssessmentRecord rows
    assembled,      \* AssuranceCandidate rows
    task,           \* slot -> the request or the worker
    failures        \* requests and workers that died

sweepVars == <<definitions, evidence, runs, jobs, assessments, assembled, task, failures>>

ContextFields == {"conflicted", "authoritative", "corroborated", "missing_artifacts"}
Gaps == {"missing", "redacted", "stale", "conflicted"}

(* an evidence record, with what its ResolvedContext says of it; gaps are   *)
(* the lists that name one of its source resources                          *)
EvidenceRecord ==
    [resources : BOOLEAN, identity : BOOLEAN, bindings : BOOLEAN, links : BOOLEAN,
     trace : BOOLEAN, version : 0..1, method : STRING, gaps : SUBSET Gaps,
     conflicted : BOOLEAN, authoritative : BOOLEAN, corroborated : BOOLEAN,
     missing_artifacts : BOOLEAN]

(* what is known of it before its context is resolved *)
Unresolved(e) ==
    [f \in DOMAIN e |-> IF f \in ContextFields \cup {"bindings", "trace"} THEN FALSE
                        ELSE IF f = "gaps" THEN {} ELSE e[f]]

ASSUME SweepAssumption ==
    /\ Evidence \subseteq EvidenceRecord
    /\ \A id \in DOMAIN Contracts : Contracts[id].kind \in EvaluatorKinds
    /\ \A p \in DefinitionPosts : p \in Seq(STRING)
    /\ MaxRuns \in Nat /\ MaxEvidence \in Nat /\ MaxAssessed \in Nat /\ MaxFailures \in Nat

-----------------------------------------------------------------------------
(* EvidenceSufficiencyService.calculate: each level needs the one below.    *)

Levels == <<"E0", "E1", "E2", "E3", "E4">>
LevelRank(level) == IF level = "" THEN 0 ELSE CHOOSE i \in DOMAIN Levels : Levels[i] = level

(* what each level asks for beyond the level below it *)
Predicates(e, replayed, verified) ==
    [E0 |-> {e.resources \/ e.identity},
     E1 |-> {e.bindings, ~ e.conflicted},
     E2 |-> {e.authoritative \/ e.corroborated},
     E3 |-> {e.version >= 1, e.trace \/ replayed},
     E4 |-> {replayed, verified}]

calculate(e, replayed, verified) ==
    LET asked == Predicates(e, replayed, verified)
        reached == {i \in 0..5 : \A j \in 1..i : FALSE \notin asked[Levels[j]]}
        level == CHOOSE i \in reached : \A j \in reached : j <= i
    IN  [level |-> IF level = 0 THEN "" ELSE Levels[level],
         satisfied |-> {Levels[i] : i \in 1..level},
         failed |-> {l \in {Levels[i] : i \in 1..5} : FALSE \in asked[l]}]

\* Mutant: raises any level.
RaiseAnyLevel(level, replayed, verified) == IF replayed /\ verified THEN "E4" ELSE level

recalculate_after_verification(level, replayed, verified) ==
    IF level \in {"E3", "E4"} /\ replayed /\ verified THEN "E4" ELSE level

-----------------------------------------------------------------------------
(* The evaluators. *)

Prerequisites == {"context_resolved", "context_bindings", "source_resources", "link_assertions"}
Available(e) ==
    {p \in Prerequisites :
        \/ p = "context_resolved" /\ e.trace
        \/ p = "context_bindings" /\ e.bindings
        \/ p = "source_resources" /\ e.resources
        \/ p = "link_assertions" /\ e.links}

(* SweepPlanner.check_prerequisites counts a name it does not know as       *)
(* missing, BaseEvaluator.check_prerequisites passes over it                *)
PlannerMissing(id, e) == Contracts[id].prerequisites \ Available(e)
EvaluatorMissing(id, e) == (Contracts[id].prerequisites \cap Prerequisites) \ Available(e)

(* outcomes: raw and stripped text, case folded, and as a number in         *)
(* thousandths or Absent                                                    *)
_compare(actual, expected, rule) ==
    CASE rule = "exact" -> actual.text # expected.text
      [] rule = "case_insensitive" -> actual.folded # expected.folded
      [] rule = "numeric" ->
           \/ Absent \in {actual.number, expected.number}
           \/ actual.number - expected.number > 1
           \/ expected.number - actual.number > 1
      [] OTHER -> actual.raw # expected.raw

(* finding "none" is the empty finding_type; missing: details.missing is    *)
(* not empty                                                                *)
Skipped == [status |-> "skipped", finding |-> "none", missing |-> FALSE]
Assessed(finding, missing) == [status |-> "assessed", finding |-> finding, missing |-> missing]

(* the fields a parameter asks for are looked up in the record's text *)
MissingEvidence(e, p) ==
    LET missing == ~ e.resources \/ "missing" \in e.gaps \/ p.unseen_fields
    IN  Assessed(IF missing \/ e.gaps # {} THEN "missing_evidence" ELSE "none", missing)

\* Mutant: an inferred identity is judged as any other.
OutcomeOfAnyIdentity(e, p) ==
    IF Absent \in {p.actual, p.expected} THEN Assessed("missing_evidence", FALSE)
    ELSE IF _compare(p.actual, p.expected, p.rule) THEN Assessed("expected_outcome_mismatch", FALSE)
    ELSE Assessed("none", FALSE)

ExpectedOutcome(e, p) ==
    IF e.method \in {"inferred", "similarity"} THEN Skipped
    ELSE IF Absent \in {p.actual, p.expected} THEN Assessed("missing_evidence", FALSE)
    ELSE IF _compare(p.actual, p.expected, p.rule) THEN Assessed("expected_outcome_mismatch", FALSE)
    ELSE Assessed("none", FALSE)

Replayability(e, p) ==
    Assessed(IF p.blocked \/ e.version < 1 \/ e.missing_artifacts
             THEN "replayability_failure" ELSE "none", FALSE)

evaluate(id, e, p) ==
    IF EvaluatorMissing(id, e) # {} THEN Skipped
    ELSE CASE Contracts[id].kind = "missing_evidence" -> MissingEvidence(e, p)
           [] Contracts[id].kind = "expected_outcome" -> ExpectedOutcome(e, p)
           [] Contracts[id].kind = "replayability" -> Replayability(e, p)

_assess_severity(result) ==
    CASE result.finding = "missing_evidence" /\ result.missing -> "high"
      [] result.finding = "expected_outcome_mismatch" -> "high"
      [] result.finding = "replayability_failure" -> "medium"
      [] OTHER -> "low"

(* BudgetState.check: a limit that is reached counts as exceeded; a budget  *)
(* without a start time is never late                                       *)
check(b) == /\ b.record_count < b.record_limit
            /\ b.evaluator_count < b.evaluator_limit
            /\ ~ (b.started /\ b.late)

-----------------------------------------------------------------------------
NoTask == [pc |-> "free"]
Becomes(w, t) == task' = [task EXCEPT ![w] = t]

SweepInit ==
    /\ definitions = [d \in DefinitionIds |-> Absent]
    /\ evidence = <<>>
    /\ runs = <<>>
    /\ jobs = [k \in 1..MaxRuns |-> <<>>]
    /\ assessments = <<>>
    /\ assembled = {}
    /\ task = [w \in SweepSlots |-> NoTask]
    /\ failures = 0

(* POST /discovery/sweep-definitions upserts *)
PostDefinition(d, evaluators) ==
    /\ definitions[d] # evaluators
    /\ definitions' = [definitions EXCEPT ![d] = evaluators]
    /\ UNCHANGED <<evidence, runs, jobs, assessments, assembled, task, failures>>

(* EvidenceContext builds a record; its trace and bindings come later *)
RecordBuilt(e) ==
    /\ Len(evidence) < MaxEvidence
    /\ evidence' = Append(evidence, Unresolved(e))
    /\ UNCHANGED <<definitions, runs, jobs, assessments, assembled, task, failures>>

RecordResolved(k, e) ==
    /\ e.trace /\ ~ evidence[k].trace
    /\ evidence[k] = Unresolved(e)
    /\ evidence' = [evidence EXCEPT ![k] = e]
    /\ UNCHANGED <<definitions, runs, jobs, assessments, assembled, task, failures>>

-----------------------------------------------------------------------------
(* The routes: create and rerun read the definition, then the records ... *)

ReadDefinition(w, d) ==
    /\ task[w] = NoTask
    /\ definitions[d] # Absent
    /\ Becomes(w, [pc |-> "list", evaluators |-> definitions[d], definition |-> d])
    /\ UNCHANGED <<definitions, evidence, runs, jobs, assessments, assembled, failures>>

Rerun(w, k) ==
    /\ runs[k].answered
    /\ ReadDefinition(w, runs[k].definition)

ListRecords(w) ==
    /\ task[w].pc = "list"
    /\ Becomes(w, [pc |-> "run", evaluators |-> task[w].evaluators,
                   definition |-> task[w].definition, ders |-> DOMAIN evidence])
    /\ UNCHANGED <<definitions, evidence, runs, jobs, assessments, assembled, failures>>

JobsOf(k) == Range(jobs[k])
AllJobs == UNION {JobsOf(k) : k \in DOMAIN jobs}

Plan(k, evaluators, ders) ==
    <<[run |-> k, type |-> "profile", evaluator |-> Absent, ders |-> {}],
      [run |-> k, type |-> "resolve", evaluator |-> Absent, ders |-> ders]>>
    \o [i \in DOMAIN evaluators |->
          [run |-> k, type |-> "evaluate", evaluator |-> evaluators[i], ders |-> ders]]
    \o <<[run |-> k, type |-> "assemble", evaluator |-> Absent, ders |-> {}]>>

(* ... SweepPlanner.plan writes the run and its jobs one by one ... *)
CreateRun(w) ==
    /\ task[w].pc = "run"
    /\ Len(runs) < MaxRuns
    /\ runs' = Append(runs, [definition |-> task[w].definition, status |-> "queued",
                             evaluators |-> task[w].evaluators, answered |-> FALSE])
    /\ Becomes(w, [pc |-> "jobs", run |-> Len(runs) + 1,
                   todo |-> Plan(Len(runs) + 1, task[w].evaluators, task[w].ders)])
    /\ UNCHANGED <<definitions, evidence, jobs, assessments, assembled, failures>>

CreateJob(w) ==
    /\ task[w].pc = "jobs"
    /\ task[w].todo # <<>>
    /\ jobs' = [jobs EXCEPT ![task[w].run] = Append(@, Head(task[w].todo))]
    /\ task' = [task EXCEPT ![w].todo = Tail(@)]
    /\ UNCHANGED <<definitions, evidence, runs, assessments, assembled, failures>>

\* Mutant: starts the run as soon as it has its first job.
StartRunEarly(w) ==
    /\ task[w].pc = "jobs"
    /\ jobs[task[w].run] # <<>>
    /\ runs' = [runs EXCEPT ![task[w].run].status = "profiling",
                            ![task[w].run].answered = TRUE]
    /\ IF task[w].todo = <<>> THEN Becomes(w, NoTask) ELSE UNCHANGED task
    /\ UNCHANGED <<definitions, evidence, jobs, assessments, assembled, failures>>

(* ... and start_run moves the queued run on.  Its identifier is in the     *)
(* answer only, so nobody else knows the run before.                        *)
StartRun(w) ==
    /\ task[w].pc = "jobs"
    /\ task[w].todo = <<>>
    /\ runs' = [runs EXCEPT ![task[w].run].status = "profiling",
                            ![task[w].run].answered = TRUE]
    /\ Becomes(w, NoTask)
    /\ UNCHANGED <<definitions, evidence, jobs, assessments, assembled, failures>>

(* cancel_run: a finished run is refused (409) *)
ReadForCancel(w, k) ==
    /\ task[w] = NoTask
    /\ runs[k].answered
    /\ runs[k].status \notin Finished
    /\ Becomes(w, [pc |-> "cancel", run |-> k])
    /\ UNCHANGED <<definitions, evidence, runs, jobs, assessments, assembled, failures>>

\* Mutant: another spelling of the status.
SaveCanceled(w) ==
    /\ task[w].pc = "cancel"
    /\ runs' = [runs EXCEPT ![task[w].run].status = "canceled"]
    /\ Becomes(w, NoTask)
    /\ UNCHANGED <<definitions, evidence, jobs, assessments, assembled, failures>>

SaveCancelled(w) ==
    /\ task[w].pc = "cancel"
    /\ runs' = [runs EXCEPT ![task[w].run].status = "cancelled"]
    /\ Becomes(w, NoTask)
    /\ UNCHANGED <<definitions, evidence, jobs, assessments, assembled, failures>>

-----------------------------------------------------------------------------
(* A worker holds the run object it loaded. *)

LoadRun(w, k) ==
    /\ task[w] = NoTask
    /\ runs[k].answered
    /\ Becomes(w, [pc |-> "worker", run |-> k, status |-> runs[k].status])
    /\ UNCHANGED <<definitions, evidence, runs, jobs, assessments, assembled, failures>>

NextStage(status) ==
    IF \E i \in 1..4 : Stages[i] = status
    THEN Stages[1 + CHOOSE i \in 1..4 : Stages[i] = status]
    ELSE status

(* the status it writes follows the object, not the row *)
AdvanceRunStatus(w, b) ==
    /\ task[w].pc = "worker"
    /\ LET status == IF check(b) THEN NextStage(task[w].status) ELSE "failed"
       IN  /\ runs' = [runs EXCEPT ![task[w].run].status = status]
           /\ task' = [task EXCEPT ![w].status = status]
    /\ UNCHANGED <<definitions, evidence, jobs, assessments, assembled, failures>>

(* complete_run loads the run itself, whatever its status *)
CompleteRun(w, status) ==
    /\ task[w].pc = "worker"
    /\ runs' = [runs EXCEPT ![task[w].run].status = status]
    /\ Becomes(w, NoTask)
    /\ UNCHANGED <<definitions, evidence, jobs, assessments, assembled, failures>>

(* the worker evaluates one record of an evaluate job as it is now *)
Evaluate(w, j, k, p) ==
    /\ task[w].pc = "worker"
    /\ j.run = task[w].run /\ j.type = "evaluate" /\ k \in j.ders
    /\ j.evaluator \in DOMAIN Contracts
    /\ Becomes(w, [pc |-> "record", der |-> k, frozen |-> evidence[k],
                   row |-> [run |-> j.run, der |-> k, evaluator |-> j.evaluator,
                            result |-> evaluate(j.evaluator, evidence[k], p)]])
    /\ UNCHANGED <<definitions, evidence, runs, jobs, assessments, assembled, failures>>

RecordEvaluation(w) ==
    /\ task[w].pc = "record"
    /\ Len(assessments) < MaxAssessed
    /\ assessments' = Append(assessments, task[w].row)
    /\ Becomes(w, [pc |-> "assemble", assessment |-> Len(assessments) + 1,
                   frozen |-> task[w].frozen])
    /\ UNCHANGED <<definitions, evidence, runs, jobs, assembled, failures>>

(* CandidateAssembler.assemble, for the assessment just recorded *)
Assemble(w) ==
    /\ task[w].pc = "assemble"
    /\ LET a == assessments[task[w].assessment]
           level == calculate(task[w].frozen, FALSE, FALSE).level
       IN  assembled' =
             IF a.result.status # "assessed" \/ a.result.finding = "none" THEN assembled
             ELSE assembled \cup
               {[assessment |-> task[w].assessment, der |-> a.der, type |-> a.result.finding,
                 level |-> level, severity |-> _assess_severity(a.result),
                 lifecycle |-> IF level \in {"E2", "E3", "E4"} THEN "reviewable" ELSE "needs_context"]}
    /\ Becomes(w, NoTask)
    /\ UNCHANGED <<definitions, evidence, runs, jobs, assessments, failures>>

Fail(w) ==
    /\ task[w] # NoTask
    /\ failures < MaxFailures
    /\ failures' = failures + 1
    /\ Becomes(w, NoTask)
    /\ UNCHANGED <<definitions, evidence, runs, jobs, assessments, assembled>>

SweepNext ==
    \/ \E d \in DefinitionIds, evaluators \in DefinitionPosts : PostDefinition(d, evaluators)
    \/ \E e \in Evidence :
         \/ RecordBuilt(e)
         \/ \E k \in DOMAIN evidence : RecordResolved(k, e)
    \/ \E w \in SweepSlots :
         \/ \E d \in DefinitionIds : ReadDefinition(w, d)
         \/ \E k \in DOMAIN runs : Rerun(w, k) \/ ReadForCancel(w, k) \/ LoadRun(w, k)
         \/ ListRecords(w)
         \/ CreateRun(w)
         \/ CreateJob(w)
         \/ StartRun(w)
         \/ SaveCancelled(w)
         \/ \E b \in Budgets : AdvanceRunStatus(w, b)
         \/ \E status \in {"completed", "completed_with_errors"} : CompleteRun(w, status)
         \/ \E j \in AllJobs, p \in Parameters : \E k \in j.ders : Evaluate(w, j, k, p)
         \/ RecordEvaluation(w)
         \/ Assemble(w)
         \/ Fail(w)

SweepSpec == SweepInit /\ [][SweepNext]_sweepVars

-----------------------------------------------------------------------------
(* The rows, without what only names or dates them. *)
EvaluatorIds == UNION {{p[i] : i \in DOMAIN p} : p \in DefinitionPosts}
SweepDefinition == DefinitionPosts
SweepRun == [definition : DefinitionIds, status : RunStatuses,
             evaluators : DefinitionPosts, answered : BOOLEAN]
SweepJob == [run : DOMAIN runs, type : {"profile", "resolve", "evaluate", "assemble"},
             evaluator : EvaluatorIds \cup {Absent}, ders : SUBSET DOMAIN evidence]
FindingTypes == {"none", "missing_evidence", "expected_outcome_mismatch", "replayability_failure"}
AssessmentRecord ==
    [run : DOMAIN runs, der : DOMAIN evidence, evaluator : DOMAIN Contracts,
     result : [status : {"assessed", "skipped"}, finding : FindingTypes, missing : BOOLEAN]]
AssuranceCandidate ==
    [assessment : DOMAIN assessments, der : DOMAIN evidence, type : FindingTypes \ {"none"},
     level : Range(Levels) \cup {""}, severity : {"high", "medium", "low"},
     lifecycle : {"reviewable", "needs_context"}]

(* Every variable has its type; rows name rows that exist.                  *)
SweepTypeOK ==
    /\ definitions \in [DefinitionIds -> SweepDefinition \cup {Absent}]
    /\ \A k \in DOMAIN evidence : evidence[k] \in EvidenceRecord
    /\ Range(runs) \subseteq SweepRun
    /\ AllJobs \subseteq SweepJob
    /\ Range(assessments) \subseteq AssessmentRecord
    /\ assembled \subseteq AssuranceCandidate
    /\ failures \in 0..MaxFailures

(* A run that has left "queued" has exactly the jobs its definition asked   *)
(* for when it was read, one for each evaluator it names, in that order,    *)
(* all over the same records, though the definition may be posted again,    *)
(* records be built and requests die between any two writes; a run whose    *)
(* planning died has the first of them, none twice and none of another      *)
(* plan.  A definition that names an evaluator twice asks for it twice      *)
(* (planner.py:21-70, runner.py:22-30, routers/sweep.py:75-92).             *)
PlanIsWhole ==
    \A k \in DOMAIN runs :
        \E D \in SUBSET DOMAIN evidence :
            LET plan == Plan(k, runs[k].evaluators, D)
            IN  /\ \E n \in 0..Len(plan) : jobs[k] = SubSeq(plan, 1, n)
                /\ runs[k].status # "queued" => jobs[k] = plan

(* A candidate carries the finding of an assessment of its own record, made *)
(* for a job of the run that covers the record; the record's evidence,      *)
(* which grows while the worker holds its frozen copy, supports the level   *)
(* at least; only a level from E2 makes the candidate reviewable, so never  *)
(* a conflicted or an unbound record; and no outcome of an inferred         *)
(* identity is called a mismatch (candidates.py:28-63, sufficiency.py:29-   *)
(* 101, expected_outcome.py:30-45).                                         *)
CandidatesAreBacked ==
    \A c \in assembled :
        LET a == assessments[c.assessment]
            e == evidence[c.der]
        IN  /\ a.der = c.der /\ a.result.finding = c.type
            /\ \E j \in JobsOf(a.run) : j.evaluator = a.evaluator /\ c.der \in j.ders
            /\ LevelRank(c.level) <= LevelRank(calculate(e, FALSE, FALSE).level)
            /\ c.lifecycle = "reviewable" => e.bindings /\ ~ e.conflicted /\ LevelRank(c.level) >= 3
            /\ c.type = "expected_outcome_mismatch" => e.method # "inferred"

(* The rules that the code has twice agree.  After a verified replay the    *)
(* bridge raises E3 to E4 without a new evaluation: for a record with a     *)
(* resolution trace that is what the evaluation would say, for another it   *)
(* never says more.  The level above the one reached is among the failed    *)
(* ones.  Where the planner finds no prerequisite missing, the evaluator    *)
(* does not skip the record for one (sufficiency.py:29-156, planner.py:72-  *)
(* 94, evaluators/base.py:78-93).                                           *)
RulesAgree ==
    \A k \in DOMAIN evidence :
        LET e == evidence[k]
            frozen == calculate(e, FALSE, FALSE).level
            raised == recalculate_after_verification(frozen, TRUE, TRUE)
            anew == calculate(e, TRUE, TRUE).level
        IN  /\ LevelRank(raised) <= LevelRank(anew)
            /\ e.trace => raised = anew
            /\ frozen # "E4" => Levels[LevelRank(frozen) + 1] \in calculate(e, FALSE, FALSE).failed
            /\ \A id \in DOMAIN Contracts :
                  PlannerMissing(id, e) = {} => EvaluatorMissing(id, e) = {}
=============================================================================

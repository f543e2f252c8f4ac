------------------------------ MODULE ReleaseGate ------------------------------
(***************************************************************************)
(* The release gate: the scenario library, readiness policies, scenario    *)
(* runs, readiness checks with their certificates, and gate results        *)
(* (services/services.py from ScenarioLibraryService on, and the routes of *)
(* routers/release_gate.py).                                               *)
(*                                                                         *)
(* A request is a sequence of storage calls; requests interleave between   *)
(* them, a call may raise and the process may die.  Every POST gets fresh  *)
(* ids, so the rows a request creates are indexed by the request.          *)
(***************************************************************************)
EXTENDS Naturals, FiniteSets

CONSTANTS
    Scenarios,      \* ids of scenarios that exist or may be created
    Records,        \* verification records
    Source,         \* per scenario, the record it is promoted from
    Blocked,        \* records whose scenario candidate is blocked
    Seeded,         \* scenarios in the library at the start
    Policies,       \* readiness policies that may be created
    Requests,       \* POSTs that start a run, a readiness check or a gate check
    Promoters,      \* slots for promote requests being served at once
    Editors,        \* slots for PATCH requests being served at once
    Fixes,          \* the fix configurations callers submit
    Outcome,        \* what replaying a scenario under a fix configuration gives
    RequiredInputs, \* the lists of required scenarios administrators submit
    MaxEdits,       \* bound: policies created and PATCH requests
    MaxFaults       \* bound: requests cut short by an exception or a crash

Kinds == {"run", "check", "gate"}
Outcomes == {"passed", "failed", "errored"}

ASSUME ConstantsAssumption ==
    /\ Source \in [Scenarios -> Records]
    /\ Seeded \subseteq Scenarios
    /\ Outcome \in [Scenarios -> [Fixes -> Outcomes]]
    /\ RequiredInputs \subseteq SUBSET Scenarios
    /\ Policies # {} /\ Fixes # {}
    /\ MaxEdits \in Nat /\ MaxFaults \in Nat

VARIABLES
    \* --- rows of the store
    scenario,       \* the scenario library
    policy,         \* readiness policies
    run,            \* the scenario run of each request
    check,          \* the readiness check of each request
    certificate,    \* the proof of readiness of each request
    result,         \* the release gate result of each request
    \* --- requests being served
    req,            \* position and locals of runs, checks and gate checks
    promoting,      \* promote requests between their read and their write
    patch,          \* PATCH requests between their read and their write
    \* --- bounds and history
    edits, faults,
    offered,        \* per request, what its policy required since it began
    shelved         \* scenarios whose last acknowledged PATCH retired them

created == <<run, check, certificate, result>>
rows == <<scenario, policy, created>>
slots == <<req, promoting, patch>>
history == <<edits, faults, offered, shelved>>
vars == <<rows, slots, history>>

(***************************************************************************)
(* Data                                                                    *)
(***************************************************************************)
None == [kind |-> "none"]

Scenario == [state : {"active", "retired"}, last_run_status : Outcomes \cup {"not_started"}]
Policy == [required : SUBSET Scenarios, enabled : BOOLEAN]
Results == [Scenarios -> Outcomes \cup {"none"}]
NoResults == [s \in Scenarios |-> "none"]
Run == [status : {"running", "completed"}, scenarios : SUBSET Scenarios, results : Results]
Check == [verdict : {"passed", "failed"}, failing : SUBSET Scenarios,
          errored : SUBSET Scenarios, certified : BOOLEAN]
Certificate == [required : SUBSET Scenarios]
Result == [status : {"pass", "fail", "error"}, certified : BOOLEAN]

Copy == [kind : {"copy"}, id : Scenarios, row : Scenario]
Steps == {"new", "policy", "select", "replay", "refresh", "write_back",
          "check", "certificate", "link", "answer", "error", "done"}
Request == [step : Steps, kind : Kinds, policy : Policies, fix : Fixes,
            ids : SUBSET Scenarios, todo : SUBSET Scenarios,
            results : Results, copy : Copy \cup {None}]
NewRequest == [step |-> "new", kind |-> "run", policy |-> CHOOSE p \in Policies : TRUE,
               fix |-> CHOOSE f \in Fixes : TRUE, ids |-> {}, todo |-> {},
               results |-> NoResults, copy |-> None]
Patch == [kind : {"scenario"}, id : Scenarios, row : Scenario]
           \cup [kind : {"policy"}, id : Policies, row : Policy]

Init ==
    /\ scenario = [s \in Scenarios |->
                      IF s \in Seeded THEN [state |-> "active", last_run_status |-> "not_started"] ELSE None]
    /\ policy = [p \in Policies |-> None]
    /\ run = [k \in Requests |-> None]
    /\ check = [k \in Requests |-> None]
    /\ certificate = [k \in Requests |-> None]
    /\ result = [k \in Requests |-> None]
    /\ req = [k \in Requests |-> NewRequest]
    /\ promoting = [q \in Promoters |-> {}]
    /\ patch = [q \in Editors |-> None]
    /\ edits = 0 /\ faults = 0
    /\ offered = [k \in Requests |-> {}]
    /\ shelved = {}

(***************************************************************************)
(* The scenario library                                                    *)
(***************************************************************************)
ActiveScenarios == {s \in Scenarios : scenario[s] # None /\ scenario[s].state = "active"}

ExistingActive(v) == {s \in ActiveScenarios : Source[s] = v}          \* mutant
\* Retired scenarios are in the library too.
Existing(v) == {s \in Scenarios : scenario[s] # None /\ Source[s] = v}

\* promote_candidate lists the scenarios of the record and goes on without one ...
FindExisting(q, v) ==
    /\ promoting[q] = {}
    /\ v \notin Blocked /\ Existing(v) = {}
    /\ promoting' = [promoting EXCEPT ![q] = {v}]
    /\ UNCHANGED <<rows, req, patch, history>>

\* ... and creates one under a fresh id.
CreateScenario(q, s) ==
    /\ Source[s] \in promoting[q] /\ scenario[s] = None
    /\ scenario' = [scenario EXCEPT ![s] = [state |-> "active", last_run_status |-> "not_started"]]
    /\ promoting' = [promoting EXCEPT ![q] = {}]
    /\ UNCHANGED <<policy, created, req, patch, history>>

\* PATCH /scenarios/{id} reads the row whose change SavePatch writes.
PatchScenario(q, s, state) ==
    /\ patch[q] = None /\ edits < MaxEdits
    /\ scenario[s] # None
    /\ patch' = [patch EXCEPT ![q] = [kind |-> "scenario", id |-> s,
                                      row |-> [scenario[s] EXCEPT !.state = state]]]
    /\ edits' = edits + 1
    /\ UNCHANGED <<rows, req, promoting, faults, offered, shelved>>

(***************************************************************************)
(* Readiness policies                                                      *)
(***************************************************************************)
RequiredBy(row) == IF row = None THEN {} ELSE {row.required}

\* History: what the policy of a request that has not read it yet now requires.
WritePolicy(p, row) ==
    /\ policy' = [policy EXCEPT ![p] = row]
    /\ offered' = [k \in Requests |->
                      IF req[k].step = "policy" /\ req[k].policy = p
                      THEN offered[k] \cup {row.required} ELSE offered[k]]

CreatePolicy(p, required) ==
    /\ policy[p] = None /\ edits < MaxEdits
    /\ WritePolicy(p, [required |-> required, enabled |-> TRUE])
    /\ edits' = edits + 1
    /\ UNCHANGED <<scenario, created, slots, faults, shelved>>

\* PATCH /readiness-policies/{id} may replace either field, both or neither.
PatchPolicy(q, p, required, enabled) ==
    /\ patch[q] = None /\ edits < MaxEdits
    /\ policy[p] # None
    /\ required \in RequiredInputs \cup RequiredBy(policy[p])
    /\ patch' = [patch EXCEPT ![q] = [kind |-> "policy", id |-> p,
                                      row |-> [required |-> required, enabled |-> enabled]]]
    /\ edits' = edits + 1
    /\ UNCHANGED <<rows, req, promoting, faults, offered, shelved>>

\* The copy read earlier replaces the row, whatever has been written since.
SavePatch(q) ==
    /\ patch[q] # None
    /\ patch' = [patch EXCEPT ![q] = None]
    /\ LET p == patch[q]
       IN \/ /\ p.kind = "scenario"
             /\ scenario' = [scenario EXCEPT ![p.id] = p.row]
             /\ shelved' = IF p.row.state = "retired" THEN shelved \cup {p.id} ELSE shelved \ {p.id}
             /\ UNCHANGED <<policy, offered>>
          \/ /\ p.kind = "policy"
             /\ WritePolicy(p.id, p.row)
             /\ UNCHANGED <<scenario, shelved>>
    /\ UNCHANGED <<created, req, promoting, edits, faults>>

(***************************************************************************)
(* Scenario runs, readiness checks and gate checks                         *)
(***************************************************************************)
At(k, step) == req[k].step = step
Goto(k, step) == req' = [req EXCEPT ![k].step = step]

\* An exception inside run_check: the gate answers "error", the others an HTTP error.
Raise(k) == Goto(k, IF req[k].kind = "gate" THEN "error" ELSE "done")

Start(k, kind, p, f, ids) ==
    /\ At(k, "new")
    /\ req' = [req EXCEPT ![k].step = IF kind = "run" THEN "select" ELSE "policy",
                          ![k].kind = kind, ![k].policy = p, ![k].fix = f, ![k].ids = ids]
    /\ offered' = [offered EXCEPT ![k] = RequiredBy(policy[p])]
    /\ UNCHANGED <<rows, promoting, patch, edits, faults, shelved>>

InForce(row) == row # None /\ row.enabled

ReadPolicy(k) ==
    /\ At(k, "policy")
    /\ LET row == policy[req[k].policy]
       IN \/ /\ InForce(row)
             /\ req' = [req EXCEPT ![k].step = "select", ![k].ids = row.required]
          \/ /\ ~InForce(row)
             /\ Raise(k)
    /\ UNCHANGED <<rows, promoting, patch, history>>

SelectUnretired(k) ==                                      \* mutant
    /\ At(k, "select")
    /\ LET ids == req[k].ids \cap ActiveScenarios
       IN /\ req' = [req EXCEPT ![k].step = "replay", ![k].ids = ids, ![k].todo = ids]
          /\ run' = [run EXCEPT ![k] = [status |-> "running", scenarios |-> ids, results |-> NoResults]]
    /\ UNCHANGED <<scenario, policy, check, certificate, result, promoting, patch, history>>

\* Without a selection the run takes every active scenario; an explicitly
\* selected one runs even when it is retired or does not exist.
SelectScenarios(k) ==
    /\ At(k, "select")
    /\ LET ids == IF req[k].ids = {} THEN ActiveScenarios ELSE req[k].ids
       IN \/ /\ ids = {}
             /\ Raise(k)
             /\ UNCHANGED run
          \/ /\ ids # {}
             /\ req' = [req EXCEPT ![k].step = "replay", ![k].ids = ids, ![k].todo = ids]
             /\ run' = [run EXCEPT ![k] = [status |-> "running", scenarios |-> ids, results |-> NoResults]]
    /\ UNCHANGED <<scenario, policy, check, certificate, result, promoting, patch, history>>

RunScenario(k, s) ==
    /\ At(k, "replay") /\ s \in req[k].todo
    /\ req' = [req EXCEPT ![k].todo = @ \ {s},
                          ![k].results[s] = IF scenario[s] = None THEN "errored"
                                            ELSE Outcome[s][req[k].fix]]
    /\ UNCHANGED <<rows, promoting, patch, history>>

CompleteRun(k) ==
    /\ At(k, "replay") /\ req[k].todo = {}
    /\ run' = [run EXCEPT ![k] = [status |-> "completed", scenarios |-> req[k].ids,
                                  results |-> req[k].results]]
    /\ req' = [req EXCEPT ![k].step = "refresh", ![k].todo = req[k].ids]
    /\ UNCHANGED <<scenario, policy, check, certificate, result, promoting, patch, history>>

ReadUnguarded(k, s) ==                                     \* mutant
    /\ At(k, "refresh") /\ s \in req[k].todo
    /\ req' = [req EXCEPT ![k].todo = @ \ {s}, ![k].step = "write_back",
                          ![k].copy = [kind |-> "copy", id |-> s, row |-> scenario[s]]]
    /\ UNCHANGED <<rows, promoting, patch, history>>

\* last_run_status is refreshed by reading the row of each scenario of the run ...
ReadScenario(k, s) ==
    /\ At(k, "refresh") /\ s \in req[k].todo
    /\ req' = [req EXCEPT ![k].todo = @ \ {s},
                          ![k].step = IF scenario[s] = None THEN "refresh" ELSE "write_back",
                          ![k].copy = IF scenario[s] = None THEN None
                                      ELSE [kind |-> "copy", id |-> s, row |-> scenario[s]]]
    /\ UNCHANGED <<rows, promoting, patch, history>>

\* ... and writing all of it back.
WriteBack(k) ==
    /\ At(k, "write_back")
    /\ LET c == req[k].copy
       IN scenario' = [scenario EXCEPT ![c.id] = [c.row EXCEPT !.last_run_status = req[k].results[c.id]]]
    /\ req' = [req EXCEPT ![k].step = "refresh", ![k].copy = None]
    /\ UNCHANGED <<policy, created, promoting, patch, history>>

FinishRun(k) ==
    /\ At(k, "refresh") /\ req[k].todo = {}
    /\ Goto(k, IF req[k].kind = "run" THEN "done" ELSE "check")
    /\ UNCHANGED <<rows, promoting, patch, history>>

With(k, outcome) == {s \in req[k].ids : req[k].results[s] = outcome}

Verdict(k) == IF With(k, "failed") = {} /\ With(k, "errored") = {} THEN "passed" ELSE "failed"

\* A gate answers once its check is complete; a plain check is the answer.
Answered(k) == IF req[k].kind = "gate" THEN "answer" ELSE "done"

SaveCheck(k) ==
    /\ At(k, "check")
    /\ check' = [check EXCEPT ![k] = [verdict |-> Verdict(k), failing |-> With(k, "failed"),
                                      errored |-> With(k, "errored"), certified |-> FALSE]]
    /\ Goto(k, IF Verdict(k) = "passed" THEN "certificate" ELSE Answered(k))
    /\ UNCHANGED <<scenario, policy, run, certificate, result, promoting, patch, history>>

\* issue_proof_of_readiness reads the policy again and signs what it requires now.
IssueCertificate(k) ==
    /\ At(k, "certificate")
    /\ certificate' = [certificate EXCEPT ![k] = [required |-> policy[req[k].policy].required]]
    /\ Goto(k, "link")
    /\ UNCHANGED <<scenario, policy, run, check, result, promoting, patch, history>>

LinkForgotten(k) ==                                        \* mutant
    /\ At(k, "link")
    /\ Goto(k, Answered(k))
    /\ UNCHANGED <<rows, promoting, patch, history>>

LinkCertificate(k) ==
    /\ At(k, "link")
    /\ check' = [check EXCEPT ![k].certified = TRUE]
    /\ Goto(k, Answered(k))
    /\ UNCHANGED <<scenario, policy, run, certificate, result, promoting, patch, history>>

SaveResult(k, status, certified) ==
    /\ result' = [result EXCEPT ![k] = [status |-> status, certified |-> certified]]
    /\ Goto(k, "done")
    /\ UNCHANGED <<scenario, policy, run, check, certificate, promoting, patch, history>>

AnswerGate(k) ==
    /\ At(k, "answer")
    /\ SaveResult(k, IF check[k].verdict = "passed" THEN "pass" ELSE "fail", check[k].certified)

ErrorUnsaved(k) ==                                         \* mutant
    /\ At(k, "error")
    /\ Goto(k, "done")
    /\ UNCHANGED <<rows, promoting, patch, history>>

AnswerError(k) ==
    /\ At(k, "error")
    /\ SaveResult(k, "error", FALSE)

\* A storage call raises, or the process dies: the calls made stay made.
Fault(k) ==
    /\ req[k].step \notin {"new", "done"} /\ faults < MaxFaults
    /\ \/ req[k].step \notin {"answer", "error"} /\ Raise(k)
       \/ Goto(k, "done")
    /\ faults' = faults + 1
    /\ UNCHANGED <<rows, promoting, patch, edits, offered, shelved>>

Serve(k) ==
    \/ ReadPolicy(k) \/ SelectScenarios(k) \/ CompleteRun(k)
    \/ \E s \in Scenarios : RunScenario(k, s) \/ ReadScenario(k, s)
    \/ WriteBack(k) \/ FinishRun(k) \/ SaveCheck(k)
    \/ IssueCertificate(k) \/ LinkCertificate(k) \/ AnswerGate(k) \/ AnswerError(k)

Next ==
    \/ \E k \in Requests : Serve(k) \/ Fault(k)
    \/ \E k \in Requests, p \in Policies, f \in Fixes :
          \/ Start(k, "run", p, f, {})
          \/ \E ids \in RequiredInputs : Start(k, "run", p, f, ids)
          \/ \E kind \in {"check", "gate"} : Start(k, kind, p, f, {})
    \/ \E q \in Promoters, v \in Records : FindExisting(q, v)
    \/ \E q \in Promoters, s \in Scenarios : CreateScenario(q, s)
    \/ \E q \in Editors, s \in Scenarios, state \in {"active", "retired"} : PatchScenario(q, s, state)
    \/ \E p \in Policies, required \in RequiredInputs : CreatePolicy(p, required)
    \/ \E q \in Editors, p \in Policies, required \in SUBSET Scenarios, enabled \in BOOLEAN :
          PatchPolicy(q, p, required, enabled)
    \/ \E q \in Editors : SavePatch(q)

Spec == Init /\ [][Next]_vars

\* Uvicorn serves every request it has accepted to its end.
FairSpec == Spec /\ \A k \in Requests : WF_vars(Serve(k))

--------------------------------------------------------------------------------
(***************************************************************************)
(* Properties                                                              *)
(***************************************************************************)

\* The rows and the locals of every request are well formed.
TypeOK ==
    /\ scenario \in [Scenarios -> Scenario \cup {None}]
    /\ policy \in [Policies -> Policy \cup {None}]
    /\ run \in [Requests -> Run \cup {None}]
    /\ check \in [Requests -> Check \cup {None}]
    /\ certificate \in [Requests -> Certificate \cup {None}]
    /\ result \in [Requests -> Result \cup {None}]
    /\ req \in [Requests -> Request]
    /\ promoting \in [Promoters -> SUBSET Records]
    /\ patch \in [Editors -> Patch \cup {None}]
    /\ edits \in Nat /\ faults \in Nat
    /\ offered \in [Requests -> SUBSET SUBSET Scenarios]
    /\ shelved \subseteq Scenarios

Passed(k) == check[k] # None /\ check[k].verdict = "passed"
Passes(s, f) == scenario[s] # None /\ Outcome[s][f] = "passed"

Earned(k) ==
    /\ run[k] # None /\ run[k].status = "completed" /\ run[k].scenarios # {}
    /\ \A s \in run[k].scenarios : Passes(s, req[k].fix)
    /\ \E required \in offered[k] : required \subseteq run[k].scenarios

\* A verdict of "passed" is earned (ReadinessService.run_check): whatever is
\* edited meanwhile, the check replayed at least one scenario, all of those it
\* replayed really pass under the caller's fix, and they include all that the
\* policy required at some moment after the request arrived.
PassIsEarned == \A k \in Requests : Passed(k) => Earned(k)

\* What a pipeline reads is consistent with the records behind it: "pass"
\* comes with a certificate, linked from a passed check; "fail" names a
\* scenario that failed or errored and nothing was certified; "error" never
\* hides a failed check; and a certificate belongs to a passed check only.
Agree(k) ==
    /\ certificate[k] # None => Passed(k)
    /\ result[k] # None =>
         /\ result[k].status = "pass" => certificate[k] # None /\ result[k].certified /\ check[k].certified
         /\ result[k].status = "fail" => /\ certificate[k] = None /\ ~result[k].certified
                                         /\ check[k] # None /\ check[k].failing \cup check[k].errored # {}
         /\ result[k].status = "error" => check[k] = None \/ Passed(k)
AnswersAgree == \A k \in Requests : Agree(k)

\* promote_candidate returns the scenario a record already has, retired or
\* not: served one at a time, promotions never give a record two scenarios.
OneScenarioPerRecord ==
    \A s, t \in Scenarios : scenario[s] # None /\ scenario[t] # None /\ Source[s] = Source[t] => s = t

\* Every gate request that is not cut short gets a stored answer.
GateAnswered ==
    \A k \in Requests : (req[k].kind = "gate") ~> (result[k] # None \/ faults > 0)

\* A passed check that is not cut short ends up with its certificate linked.
PassedChecksAreCertified ==
    \A k \in Requests : Passed(k) ~> ((certificate[k] # None /\ check[k].certified) \/ faults > 0)

\* "Policy edits apply to subsequent Checks only" (specification of the gate,
\* key contracts): a certificate names no scenario its check did not replay.
CertificateNamesWhatRan ==
    \A k \in Requests : certificate[k] # None => certificate[k].required \subseteq run[k].scenarios

\* A retired scenario is excluded from default runs (AC-FP-SL-004.2): it
\* stays retired until somebody activates it.
RetirementSticks == \A s \in shelved : scenario[s].state = "retired"
================================================================================

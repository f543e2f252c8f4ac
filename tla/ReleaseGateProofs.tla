--------------------------- MODULE ReleaseGateProofs ---------------------------
(***************************************************************************)
(* Proofs about ReleaseGate: types, that a pass is earned, that what a     *)
(* pipeline reads agrees with the records behind it, and that the library  *)
(* holds one scenario per record.                                          *)
(*                                                                         *)
(* A request changes only its own rows, a step of somebody else only adds  *)
(* scenarios, policies and offered requirements.  So the invariant says,   *)
(* per request, what it knows at each of its steps (Known), the frame      *)
(* lemma carries that over the steps of others, and one lemma per step     *)
(* shows that the request's own steps establish what the next one needs.   *)
(***************************************************************************)
EXTENDS ReleaseGate, TLAPS

Unselected == {"new", "policy", "select"}
Running == {"replay", "refresh", "write_back"}
Replayed == {"refresh", "write_back", "check", "certificate", "link", "answer"}

\* Before the check there is nothing to read, before the end no answer.
Unwritten(k) ==
    /\ req[k].step \in Unselected \cup Running \cup {"check"} => check[k] = None /\ certificate[k] = None
    /\ req[k].step # "done" => result[k] = None

\* What a request remembers of its replays is true.
Truthful(k) ==
    /\ \A s \in Scenarios : req[k].results[s] = "passed" => Passes(s, req[k].fix)
    /\ req[k].step \in Unselected => \A s \in Scenarios : req[k].results[s] = "none"
    /\ req[k].step = "replay" => \A s \in req[k].ids \ req[k].todo : req[k].results[s] # "none"
    /\ req[k].step \in Replayed => \A s \in req[k].ids : req[k].results[s] # "none"

\* Its run covers the scenarios it selected.
Covered(k) ==
    /\ req[k].step \in Replayed \cup {"replay"} =>
          req[k].ids # {} /\ run[k] # None /\ run[k].scenarios = req[k].ids
    /\ req[k].step \in Running => req[k].todo \subseteq req[k].ids
    /\ req[k].step \in Replayed => run[k].status = "completed"
    /\ req[k].step = "write_back" => req[k].copy \in Copy /\ req[k].copy.id \in req[k].ids

\* It selected what its policy required.
Requested(k) ==
    /\ req[k].step \in {"policy", "check", "certificate", "link"} => req[k].kind # "run"
    /\ req[k].step \in {"answer", "error"} => req[k].kind = "gate"
    /\ req[k].step \in Replayed \cup {"select", "replay"} /\ req[k].kind # "run" =>
          /\ policy[req[k].policy] # None
          /\ \E required \in offered[k] : required \subseteq req[k].ids
    /\ req[k].step = "policy" => RequiredBy(policy[req[k].policy]) \subseteq offered[k]

\* How far the check and its certificate have come.
Checked(k) ==
    /\ req[k].step = "certificate" => Passed(k) /\ certificate[k] = None
    /\ req[k].step = "link" => Passed(k) /\ certificate[k] # None
    /\ req[k].step = "answer" =>
          /\ check[k] # None
          /\ check[k].verdict = "passed" => certificate[k] # None /\ check[k].certified
          /\ check[k].verdict = "failed" => /\ certificate[k] = None /\ ~check[k].certified
                                            /\ check[k].failing \cup check[k].errored # {}
    /\ req[k].step = "error" => check[k] = None \/ Passed(k)

Known(k) ==
    /\ Unwritten(k) /\ Truthful(k) /\ Covered(k) /\ Requested(k) /\ Checked(k)
    /\ Passed(k) => Earned(k)
    /\ Agree(k)

IInv == TypeOK /\ \A k \in Requests : Known(k)

\* What any step leaves of the shared rows.
Grows ==
    /\ \A s \in Scenarios : scenario[s] # None => scenario'[s] # None
    /\ \A p \in Policies : policy[p] # None => policy'[p] # None

\* What a step leaves of a request that did not take it.
Frame(k) ==
    /\ req'[k] = req[k] /\ run'[k] = run[k] /\ check'[k] = check[k]
    /\ certificate'[k] = certificate[k] /\ result'[k] = result[k]
    /\ offered[k] \subseteq offered'[k]
    /\ req[k].step = "policy" /\ RequiredBy(policy[req[k].policy]) \subseteq offered[k] =>
          RequiredBy(policy'[req[k].policy]) \subseteq offered'[k]

--------------------------------------------------------------------------------
\* No row is None.
LEMMA RowsAreRows ==
    /\ None \notin Scenario /\ None \notin Policy /\ None \notin Run
    /\ None \notin Check /\ None \notin Certificate /\ None \notin Result
    /\ None \notin Copy /\ None \notin Patch
BY DEF None, Scenario, Policy, Run, Check, Certificate, Result, Copy, Patch

\* A request keeps what it knows while others work.
LEMMA FrameKeepsKnown ==
    ASSUME TypeOK, Grows, NEW k \in Requests, Known(k), Frame(k)
    PROVE  Known(k)'
<1>1. req[k] \in Request
  BY DEF TypeOK
<1>2. \A s \in Scenarios : Passes(s, req[k].fix) => Passes(s, req[k].fix)'
  BY DEF Grows, Frame, Passes
<1>3. Passed(k)' = Passed(k)
  BY DEF Frame, Passed
<1>4. Unwritten(k)'
  BY DEF Known, Unwritten, Frame
<1>5. Truthful(k)'
  BY <1>2 DEF Known, Truthful, Frame
<1>6. Covered(k)'
  BY DEF Known, Covered, Frame
<1>7. Requested(k)'
  BY <1>1 DEF Known, Requested, Frame, Grows, Request, RequiredBy
<1>8. Checked(k)'
  BY <1>3 DEF Known, Checked, Frame
<1>9. Passed(k)' => Earned(k)'
  <2> SUFFICES ASSUME Passed(k)' PROVE Earned(k)'
    OBVIOUS
  <2>1. Earned(k)
    BY <1>3 DEF Known
  <2>2. CASE run[k] \in Run
    BY <2>1, <2>2, <1>2 DEF Earned, Frame, Run
  <2> QED
    BY <2>1, <2>2 DEF Earned, TypeOK
<1>10. Agree(k)'
  BY <1>3 DEF Known, Agree, Frame
<1> QED
  BY <1>4, <1>5, <1>6, <1>7, <1>8, <1>9, <1>10 DEF Known

--------------------------------------------------------------------------------
\* The rows and locals stay well formed.
LEMMA NewRequestTyped == NewRequest \in Request
BY ConstantsAssumption DEF NewRequest, Request, Steps, Kinds, NoResults, Results, Outcomes

\* The rows of an empty store and the new requests are well formed.
LEMMA InitTyped == Init => TypeOK
BY NewRequestTyped, ConstantsAssumption DEF Init, TypeOK, Scenario, Outcomes

\* Serving a request keeps the rows and the locals well formed.
LEMMA ServeTyped ==
    ASSUME TypeOK, NEW k \in Requests, Known(k), Serve(k)
    PROVE  TypeOK'
<1> DEFINE r == req[k]
<1>1. /\ r \in Request
      /\ r.ids \in SUBSET Scenarios /\ r.todo \in SUBSET Scenarios
      /\ r.results \in Results /\ r.fix \in Fixes /\ r.policy \in Policies /\ r.kind \in Kinds
  BY DEF TypeOK, Request
<1>2. \A q \in Request : req' = [req EXCEPT ![k] = q] => req' \in [Requests -> Request]
  BY DEF TypeOK
<1>3. ASSUME NEW step \in Steps, Goto(k, step) PROVE req' \in [Requests -> Request]
  <2>1. [r EXCEPT !.step = step] \in Request
    BY <1>1, <1>3 DEF Request
  <2> QED
    BY <1>2, <1>3, <2>1 DEF Goto
<1>4. Answered(k) \in Steps
  BY DEF Answered, Steps
<1>5. Raise(k) => req' \in [Requests -> Request]
  BY <1>3 DEF Raise, Steps
<1>6. ActiveScenarios \subseteq Scenarios
  BY DEF ActiveScenarios
<1>7. With(k, "failed") \in SUBSET Scenarios /\ With(k, "errored") \in SUBSET Scenarios
  BY <1>1 DEF With
<1>8. CASE ReadPolicy(k)
  <2>1. CASE Raise(k)
    BY <1>5, <1>8, <2>1 DEF ReadPolicy, TypeOK, rows, created, history
  <2>2. CASE InForce(policy[r.policy])
               /\ req' = [req EXCEPT ![k].step = "select", ![k].ids = policy[r.policy].required]
    <3>1. policy[r.policy].required \in SUBSET Scenarios
      BY <1>1, <2>2 DEF TypeOK, InForce, Policy
    <3>2. [r EXCEPT !.step = "select", !.ids = policy[r.policy].required] \in Request
      BY <1>1, <3>1 DEF Request, Steps
    <3>3. req' \in [Requests -> Request]
      BY <1>2, <2>2, <3>2
    <3> QED
      BY <1>8, <3>3 DEF ReadPolicy, TypeOK, rows, created, history
  <2> QED
    BY <1>8, <2>1, <2>2 DEF ReadPolicy
<1>9. CASE SelectScenarios(k)
  <2> DEFINE ids == IF r.ids = {} THEN ActiveScenarios ELSE r.ids
  <2>1. ids \in SUBSET Scenarios
    BY <1>1, <1>6
  <2>2. CASE Raise(k) /\ run' = run
    BY <1>5, <1>9, <2>2 DEF SelectScenarios, TypeOK, history
  <2>3. CASE /\ req' = [req EXCEPT ![k].step = "replay", ![k].ids = ids, ![k].todo = ids]
             /\ run' = [run EXCEPT ![k] = [status |-> "running", scenarios |-> ids, results |-> NoResults]]
    <3> HIDE DEF ids
    <3>1. [r EXCEPT !.step = "replay", !.ids = ids, !.todo = ids] \in Request
      BY <1>1, <2>1 DEF Request, Steps
    <3>2. req' \in [Requests -> Request]
      BY <1>2, <2>3, <3>1
    <3>3. [status |-> "running", scenarios |-> ids, results |-> NoResults] \in Run
      BY <2>1 DEF Run, Results, NoResults, Outcomes
    <3>4. run' \in [Requests -> Run \cup {None}]
      BY <2>3, <3>3 DEF TypeOK
    <3> QED
      BY <1>9, <3>2, <3>4 DEF SelectScenarios, TypeOK, history
  <2> QED
    BY <1>9, <2>2, <2>3 DEF SelectScenarios
<1>10. ASSUME NEW s \in Scenarios, RunScenario(k, s) PROVE TypeOK'
  <2>1. PICK o \in Outcomes :
           req' = [req EXCEPT ![k].todo = @ \ {s}, ![k].results[s] = o]
    <3>1. Outcome[s][r.fix] \in Outcomes
      BY <1>1, ConstantsAssumption
    <3> QED
      BY <1>10, <3>1 DEF RunScenario, Outcomes
  <2>2. [r EXCEPT !.todo = @ \ {s}, !.results[s] = o] \in Request
    BY <1>1, <2>1 DEF Request, Results
  <2>3. req' \in [Requests -> Request]
    BY ZenonT(30), <1>2, <2>1, <2>2
  <2> QED
    BY <1>10, <2>3 DEF RunScenario, TypeOK, rows, created, history
<1>11. CASE CompleteRun(k)
  <2>1. [r EXCEPT !.step = "refresh", !.todo = r.ids] \in Request
    BY <1>1 DEF Request, Steps
  <2>2. req' \in [Requests -> Request]
    BY <1>2, <1>11, <2>1 DEF CompleteRun
  <2>3. [status |-> "completed", scenarios |-> r.ids, results |-> r.results] \in Run
    BY <1>1 DEF Run
  <2>4. run' \in [Requests -> Run \cup {None}]
    BY <1>11, <2>3 DEF CompleteRun, TypeOK
  <2> QED
    BY <1>11, <2>2, <2>4 DEF CompleteRun, TypeOK, history
<1>12. ASSUME NEW s \in Scenarios, ReadScenario(k, s) PROVE TypeOK'
  <2>1. PICK step \in {"refresh", "write_back"}, c \in Copy \cup {None} :
           req' = [req EXCEPT ![k].todo = @ \ {s}, ![k].step = step, ![k].copy = c]
    <3>1. CASE scenario[s] = None
      BY <1>12, <3>1 DEF ReadScenario
    <3>2. CASE scenario[s] # None
      <4>1. [kind |-> "copy", id |-> s, row |-> scenario[s]] \in Copy
        BY <3>2 DEF TypeOK, Copy
      <4> QED
        BY <1>12, <3>2, <4>1 DEF ReadScenario
    <3> QED
      BY <3>1, <3>2
  <2>2. [r EXCEPT !.todo = @ \ {s}, !.step = step, !.copy = c] \in Request
    BY <1>1, <2>1 DEF Request, Steps
  <2>3. req' \in [Requests -> Request]
    BY <1>2, <2>1, <2>2
  <2> QED
    BY <1>12, <2>3 DEF ReadScenario, TypeOK, rows, created, history
<1>13. CASE WriteBack(k)
  <2>1. r.copy \in Copy /\ r.copy.id \in r.ids /\ r.results[r.copy.id] # "none"
    BY <1>13 DEF Known, Covered, Truthful, WriteBack, At, Replayed
  <2>2. r.copy.id \in Scenarios /\ r.copy.row \in Scenario
    BY <2>1 DEF Copy
  <2>3. [r.copy.row EXCEPT !.last_run_status = r.results[r.copy.id]] \in Scenario
    BY <1>1, <2>1, <2>2 DEF Scenario, Results
  <2>4. scenario' \in [Scenarios -> Scenario \cup {None}]
    BY <1>13, <2>2, <2>3 DEF WriteBack, TypeOK
  <2>5. [r EXCEPT !.step = "refresh", !.copy = None] \in Request
    BY <1>1 DEF Request, Steps
  <2>6. req' \in [Requests -> Request]
    BY <1>2, <1>13, <2>5 DEF WriteBack
  <2> QED
    BY <1>13, <2>4, <2>6 DEF WriteBack, TypeOK, created, history
<1>14. CASE FinishRun(k)
  BY <1>3, <1>14 DEF FinishRun, TypeOK, rows, created, history, Steps
<1>15. CASE SaveCheck(k)
  <2>1. req' \in [Requests -> Request]
    BY <1>3, <1>4, <1>15 DEF SaveCheck, Steps
  <2>2. [verdict |-> Verdict(k), failing |-> With(k, "failed"),
         errored |-> With(k, "errored"), certified |-> FALSE] \in Check
    BY <1>7 DEF Check, Verdict
  <2>3. check' \in [Requests -> Check \cup {None}]
    BY <1>15, <2>2 DEF SaveCheck, TypeOK
  <2> QED
    BY <1>15, <2>1, <2>3 DEF SaveCheck, TypeOK, history
<1>16. CASE IssueCertificate(k)
  <2>1. req' \in [Requests -> Request]
    BY <1>3, <1>16 DEF IssueCertificate, Steps
  <2>2. policy[r.policy] \in Policy
    BY <1>1, <1>16 DEF IssueCertificate, At, Known, Requested, Replayed, TypeOK
  <2>3. [required |-> policy[r.policy].required] \in Certificate
    BY <2>2 DEF Policy, Certificate
  <2>4. certificate' \in [Requests -> Certificate \cup {None}]
    BY <1>16, <2>3 DEF IssueCertificate, TypeOK
  <2> QED
    BY <1>16, <2>1, <2>4 DEF IssueCertificate, TypeOK, history
<1>17. CASE LinkCertificate(k)
  <2>1. req' \in [Requests -> Request]
    BY <1>3, <1>4, <1>17 DEF LinkCertificate
  <2>2. check[k] \in Check
    BY <1>17 DEF LinkCertificate, At, Known, Checked, Passed, TypeOK
  <2>3. [check[k] EXCEPT !.certified = TRUE] \in Check
    BY <2>2 DEF Check
  <2>4. check' \in [Requests -> Check \cup {None}]
    BY <1>17, <2>3 DEF LinkCertificate, TypeOK
  <2> QED
    BY <1>17, <2>1, <2>4 DEF LinkCertificate, TypeOK, history
<1>18. ASSUME NEW status \in {"pass", "fail", "error"}, NEW certified \in BOOLEAN,
              SaveResult(k, status, certified)
       PROVE  TypeOK'
  <2>1. req' \in [Requests -> Request]
    BY <1>3, <1>18 DEF SaveResult, Steps
  <2>2. [status |-> status, certified |-> certified] \in Result
    BY <1>18 DEF Result
  <2>3. result' \in [Requests -> Result \cup {None}]
    BY <1>18, <2>2 DEF SaveResult, TypeOK
  <2> QED
    BY <1>18, <2>1, <2>3 DEF SaveResult, TypeOK, history
<1>19. CASE AnswerGate(k)
  <2>1. check[k] \in Check
    BY <1>19 DEF AnswerGate, At, Known, Checked, TypeOK
  <2>2. check[k].certified \in BOOLEAN
    BY <2>1 DEF Check
  <2> QED
    BY <1>18, <1>19, <2>2 DEF AnswerGate
<1>20. CASE AnswerError(k)
  BY <1>18, <1>20 DEF AnswerError
<1> QED
  BY <1>8, <1>9, <1>10, <1>11, <1>12, <1>13, <1>14, <1>15, <1>16, <1>17, <1>19, <1>20 DEF Serve

--------------------------------------------------------------------------------
\* A served request disturbs neither the library nor the other requests.
LEMMA ServeFrames ==
    ASSUME TypeOK, NEW k \in Requests, Known(k), Serve(k)
    PROVE  Grows /\ \A j \in Requests \ {k} : Frame(j)
<1>1. Grows
  <2>1. CASE WriteBack(k)
    <3> DEFINE c == req[k].copy
    <3>1. c \in Copy /\ c.id \in req[k].ids /\ req[k].results[c.id] # "none" /\ req[k] \in Request
      BY <2>1 DEF Known, Covered, Truthful, WriteBack, At, Replayed, TypeOK
    <3>2. c.id \in Scenarios /\ c.row \in Scenario /\ req[k].results[c.id] \in Outcomes
      BY <3>1 DEF Copy, Request, Results
    <3>3. [c.row EXCEPT !.last_run_status = req[k].results[c.id]] \in Scenario
      BY <3>2 DEF Scenario
    <3> QED
      BY <2>1, <3>3, RowsAreRows DEF Grows, WriteBack, TypeOK
  <2>2. CASE ~WriteBack(k)
    <3>1. scenario' = scenario /\ policy' = policy
      BY <2>2 DEF Serve, ReadPolicy, SelectScenarios, RunScenario, CompleteRun, ReadScenario,
                  FinishRun, SaveCheck, IssueCertificate, LinkCertificate, AnswerGate, AnswerError,
                  SaveResult, rows, created
    <3> QED
      BY <3>1 DEF Grows
  <2> QED
    BY <2>1, <2>2
<1>2. ASSUME NEW j \in Requests \ {k} PROVE Frame(j)
  <2>1. offered' = offered /\ policy' = policy
    BY DEF rows, Serve, ReadPolicy, SelectScenarios, RunScenario, CompleteRun, ReadScenario, WriteBack,
           FinishRun, SaveCheck, IssueCertificate, LinkCertificate, AnswerGate, AnswerError,
           SaveResult, history
  <2>2. req'[j] = req[j]
    BY ZenonT(30) DEF Serve, ReadPolicy, SelectScenarios, RunScenario, CompleteRun, ReadScenario, WriteBack,
           FinishRun, SaveCheck, IssueCertificate, LinkCertificate, AnswerGate, AnswerError,
           SaveResult, Raise, Goto, TypeOK
  <2>3. run'[j] = run[j] /\ check'[j] = check[j]
    BY DEF Serve, ReadPolicy, SelectScenarios, RunScenario, CompleteRun, ReadScenario, WriteBack,
           FinishRun, SaveCheck, IssueCertificate, LinkCertificate, AnswerGate, AnswerError,
           SaveResult, TypeOK, rows, created
  <2>4. certificate'[j] = certificate[j] /\ result'[j] = result[j]
    BY DEF Serve, ReadPolicy, SelectScenarios, RunScenario, CompleteRun, ReadScenario, WriteBack,
           FinishRun, SaveCheck, IssueCertificate, LinkCertificate, AnswerGate, AnswerError,
           SaveResult, TypeOK, rows, created
  <2> QED
    BY <2>1, <2>2, <2>3, <2>4 DEF Frame, RequiredBy
<1> QED
  BY <1>1, <1>2

\* What a step needs to say when it writes nothing but the request's locals.
LEMMA LocalStep ==
    ASSUME TypeOK, NEW k \in Requests, Known(k), Grows,
           UNCHANGED <<created, offered>>,
           req'[k].step \notin {"certificate", "link", "answer"},
           req'[k].kind = req[k].kind, req'[k].fix = req[k].fix, req'[k].policy = req[k].policy,
           req'[k].step \in Unselected \cup Running \cup {"check"} => check[k] = None /\ certificate[k] = None,
           req'[k].step # "done" => req[k].step # "done",
           req'[k].step = "error" => check[k] = None \/ Passed(k),
           Truthful(k)', Covered(k)', Requested(k)'
    PROVE  Known(k)'
<1>1. Passed(k)' = Passed(k)
  BY DEF Passed, created
<1>2. Unwritten(k)'
  BY DEF Known, Unwritten, created
<1>3. Checked(k)'
  BY <1>1 DEF Checked, created
<1>4. Passed(k)' => Earned(k)'
  <2>1. \A s \in Scenarios : Passes(s, req[k].fix) => Passes(s, req[k].fix)'
    BY DEF Grows, Passes
  <2> SUFFICES ASSUME Passed(k)' PROVE Earned(k)'
    OBVIOUS
  <2>2. Earned(k) /\ run[k] \in Run
    BY <1>1 DEF Known, Earned, TypeOK
  <2> QED
    BY <2>1, <2>2 DEF Earned, created, Run
<1>5. Agree(k)'
  BY <1>1 DEF Known, Agree, created
<1> QED
  BY <1>2, <1>3, <1>4, <1>5 DEF Known

\* From one step of its own to the next, a request knows what it needs to.
LEMMA ServeKeepsKnown ==
    ASSUME TypeOK, NEW k \in Requests, Known(k), Serve(k), TypeOK', Grows
    PROVE  Known(k)'
<1> DEFINE r == req[k]
<1>1. /\ r \in Request
      /\ r.ids \in SUBSET Scenarios /\ r.todo \in SUBSET Scenarios
      /\ r.results \in Results /\ r.fix \in Fixes /\ r.policy \in Policies /\ r.kind \in Kinds
  BY DEF TypeOK, Request
<1>2. \A s \in Scenarios, f \in Fixes : Passes(s, f) => Passes(s, f)'
  BY DEF Grows, Passes
<1>3. \A q \in Request : req' = [req EXCEPT ![k] = q] => req'[k] = q
  BY DEF TypeOK
<1>4. ASSUME Raise(k), r.step \in {"policy", "select"}, UNCHANGED <<rows, offered>>
      PROVE  Known(k)'
  <2>1. PICK step \in {"error", "done"} :
           req'[k] = [r EXCEPT !.step = step] /\ (step = "error" => r.kind = "gate")
    BY <1>4 DEF Raise, Goto, TypeOK
  <2>2. check[k] = None /\ certificate[k] = None
    BY <1>4 DEF Known, Unwritten, Unselected
  <2>3. Truthful(k)'
    BY <1>1, <1>2, <2>1 DEF Known, Truthful, Unselected, Replayed, Request
  <2>4. Covered(k)' /\ Requested(k)'
    BY <1>1, <2>1 DEF Covered, Requested, Unselected, Replayed, Running, Request
  <2> QED
    BY <1>1, <1>4, <2>1, <2>2, <2>3, <2>4, LocalStep DEF rows, Unselected, Running, Request
<1>5. CASE ReadPolicy(k)
  <2>1. CASE Raise(k)
    BY <1>4, <1>5, <2>1 DEF ReadPolicy, At, history
  <2>2. CASE /\ InForce(policy[r.policy])
             /\ req' = [req EXCEPT ![k].step = "select", ![k].ids = policy[r.policy].required]
    <3>1. req'[k] = [r EXCEPT !.step = "select", !.ids = policy[r.policy].required]
      BY <2>2 DEF TypeOK
    <3>2. Truthful(k)'
      BY <1>1, <1>2, <1>5, <3>1 DEF Known, Truthful, Unselected, Replayed, Request, ReadPolicy, At
    <3>3. Covered(k)'
      BY <1>1, <3>1 DEF Covered, Unselected, Replayed, Running, Request
    <3>4. policy[r.policy].required \in offered[k]
      BY <1>5, <2>2 DEF Known, Requested, ReadPolicy, At, InForce, RequiredBy
    <3>5. Requested(k)'
      <4>1. req'[k].step = "select" /\ req'[k].policy = r.policy /\ req'[k].ids = policy[r.policy].required
        BY <1>1, <3>1 DEF Request
      <4>2. policy' = policy /\ offered' = offered /\ policy[r.policy] # None
        BY <1>5, <2>2 DEF ReadPolicy, InForce, history, rows
      <4> QED
        BY <3>4, <4>1, <4>2 DEF Requested, Replayed
    <3>6. check[k] = None /\ certificate[k] = None
      BY <1>5 DEF Known, Unwritten, Unselected, ReadPolicy, At
    <3> QED
      BY <1>1, <1>5, <3>1, <3>2, <3>3, <3>5, <3>6, LocalStep DEF ReadPolicy, At, rows, history, Request
  <2> QED
    BY <1>5, <2>1, <2>2 DEF ReadPolicy
<1>6. CASE SelectScenarios(k)
  <2> DEFINE ids == IF r.ids = {} THEN ActiveScenarios ELSE r.ids
  <2>1. CASE Raise(k) /\ run' = run
    BY <1>4, <1>6, <2>1 DEF SelectScenarios, At, history, rows, created
  <2>2. CASE /\ ids # {}
             /\ req' = [req EXCEPT ![k].step = "replay", ![k].ids = ids, ![k].todo = ids]
             /\ run' = [run EXCEPT ![k] = [status |-> "running", scenarios |-> ids, results |-> NoResults]]
    <3>1. r.ids \subseteq ids
      OBVIOUS
    <3> HIDE DEF ids
    <3>2. req'[k] = [r EXCEPT !.step = "replay", !.ids = ids, !.todo = ids]
      BY <2>2 DEF TypeOK
    <3>3. /\ req'[k].step = "replay" /\ req'[k].ids = ids /\ req'[k].todo = ids
          /\ req'[k].kind = r.kind /\ req'[k].policy = r.policy
          /\ req'[k].fix = r.fix /\ req'[k].results = r.results
      BY <1>1, <3>2 DEF Request
    <3>4. run'[k].scenarios = ids /\ run'[k] # None
      <4>1. run'[k] = [status |-> "running", scenarios |-> ids, results |-> NoResults]
        BY <2>2 DEF TypeOK
      <4> QED
        BY <4>1 DEF None
    <3>5. UNCHANGED <<policy, check, certificate, result, offered>>
      BY <1>6 DEF SelectScenarios, history
    <3>6. check[k] = None /\ certificate[k] = None /\ result[k] = None
      BY <1>6 DEF Known, Unwritten, Unselected, SelectScenarios, At
    <3>7. Truthful(k)'
      BY <1>1, <1>2, <1>6, <3>3 DEF Known, Truthful, Unselected, Replayed, SelectScenarios, At
    <3>8. Covered(k)'
      BY <2>2, <3>3, <3>4 DEF Covered, Replayed, Running
    <3>9. Requested(k)'
      BY <1>6, <3>1, <3>3, <3>5 DEF Known, Requested, Replayed, SelectScenarios, At
    <3> QED
      BY <1>1, <3>2, <3>5, <3>6, <3>7, <3>8, <3>9
         DEF Known, Unwritten, Checked, Passed, Agree, Request
  <2> QED
    BY <1>6, <2>1, <2>2 DEF SelectScenarios
<1>7. ASSUME NEW s \in Scenarios, RunScenario(k, s) PROVE Known(k)'
  <2>1. PICK o \in Outcomes : /\ req' = [req EXCEPT ![k].todo = @ \ {s}, ![k].results[s] = o]
                              /\ o = "passed" => Passes(s, r.fix)
    <3>1. Outcome[s][r.fix] \in Outcomes
      BY <1>1, ConstantsAssumption
    <3> QED
      BY <1>7, <3>1 DEF RunScenario, Outcomes, Passes
  <2>2. req'[k] = [r EXCEPT !.todo = @ \ {s}, !.results[s] = o]
    BY <2>1 DEF TypeOK
  <2>3. r.step = "replay" /\ s \in r.todo
    BY <1>7 DEF RunScenario, At
  <2>4. /\ req'[k].step = r.step /\ req'[k].kind = r.kind /\ req'[k].policy = r.policy
        /\ req'[k].fix = r.fix /\ req'[k].ids = r.ids /\ req'[k].copy = r.copy
        /\ req'[k].todo = r.todo \ {s} /\ req'[k].results = [r.results EXCEPT ![s] = o]
    BY <1>1, <2>2 DEF Request
  <2>5. \A t \in Scenarios : req'[k].results[t] = IF t = s THEN o ELSE r.results[t]
    BY <1>1, <2>4 DEF Results
  <2>6. Truthful(k)'
    <3> PICK f \in Fixes : f = r.fix
      BY <1>1
    <3>1. \A t \in Scenarios : r.results[t] = "passed" => Passes(t, f)'
      BY <1>2 DEF Known, Truthful
    <3>2. o # "none" /\ (o = "passed" => Passes(s, f)')
      BY <1>2, <2>1 DEF Outcomes
    <3>3. \A t \in Scenarios : req'[k].results[t] = "passed" => Passes(t, f)' /\ req'[k].fix = f
      BY <2>4, <2>5, <3>1, <3>2
    <3>4. \A t \in r.ids \ r.todo : r.results[t] # "none"
      BY <2>3 DEF Known, Truthful
    <3>5. \A t \in req'[k].ids \ req'[k].todo : req'[k].results[t] # "none"
      BY <1>1, <2>4, <2>5, <3>2, <3>4
    <3> QED
      BY <2>3, <2>4, <3>3, <3>5 DEF Truthful, Unselected, Replayed, Passes
  <2>7. UNCHANGED <<policy, created, offered>>
    BY <1>7 DEF RunScenario, rows, history
  <2>8. Covered(k)' /\ Requested(k)'
    BY <2>3, <2>4, <2>7 DEF Known, Covered, Requested, Replayed, Running, created
  <2>9. check[k] = None /\ certificate[k] = None
    BY <2>3 DEF Known, Unwritten, Running
  <2> QED
    BY <2>3, <2>4, <2>6, <2>7, <2>8, <2>9, LocalStep
<1>8. CASE CompleteRun(k)
  <2>1. req'[k] = [r EXCEPT !.step = "refresh", !.todo = r.ids]
    BY <1>8 DEF CompleteRun, TypeOK
  <2>2. run'[k] = [status |-> "completed", scenarios |-> r.ids, results |-> r.results] /\ run'[k] # None
    BY <1>8 DEF CompleteRun, TypeOK, None
  <2>3. r.step = "replay" /\ r.todo = {} /\ UNCHANGED <<policy, check, certificate, result, offered>>
    BY <1>8 DEF CompleteRun, At, history
  <2>4. check[k] = None /\ certificate[k] = None /\ result[k] = None
    BY <2>3 DEF Known, Unwritten, Running
  <2>5. Truthful(k)'
    BY <1>1, <1>2, <2>1, <2>3 DEF Known, Truthful, Unselected, Replayed, Request
  <2>6. Covered(k)'
    BY <1>1, <2>1, <2>2, <2>3 DEF Known, Covered, Replayed, Running, Request
  <2>7. Requested(k)'
    BY <1>1, <2>1, <2>3 DEF Known, Requested, Replayed, Request
  <2> QED
    BY <1>1, <2>1, <2>3, <2>4, <2>5, <2>6, <2>7
       DEF Known, Unwritten, Checked, Passed, Agree, Request
<1>9. ASSUME NEW s \in Scenarios, ReadScenario(k, s) PROVE Known(k)'
  <2>1. PICK step \in {"refresh", "write_back"}, c \in Copy \cup {None} :
           /\ req' = [req EXCEPT ![k].todo = @ \ {s}, ![k].step = step, ![k].copy = c]
           /\ step = "write_back" => c \in Copy /\ c.id = s
    <3>1. CASE scenario[s] = None
      BY <1>9, <3>1 DEF ReadScenario
    <3>2. CASE scenario[s] # None
      <4> DEFINE c == [kind |-> "copy", id |-> s, row |-> scenario[s]]
      <4>1. c \in Copy /\ c.id = s
        BY <3>2 DEF TypeOK, Copy
      <4>2. req' = [req EXCEPT ![k].todo = @ \ {s}, ![k].step = "write_back", ![k].copy = c]
        BY <1>9, <3>2 DEF ReadScenario
      <4> HIDE DEF c
      <4> QED
        BY <4>1, <4>2
    <3> QED
      BY <3>1, <3>2
  <2>2. req'[k] = [r EXCEPT !.todo = @ \ {s}, !.step = step, !.copy = c]
    BY <2>1 DEF TypeOK
  <2>3. r.step = "refresh" /\ s \in r.todo /\ UNCHANGED <<policy, created, offered>>
    BY <1>9 DEF ReadScenario, At, rows, history
  <2>4. Truthful(k)'
    BY <1>1, <1>2, <2>2, <2>3 DEF Known, Truthful, Unselected, Replayed, Request
  <2>5. Covered(k)'
    <3>1. /\ req'[k].step = step /\ req'[k].ids = r.ids /\ req'[k].todo = r.todo \ {s}
          /\ req'[k].copy = c
      BY <1>1, <2>2 DEF Request
    <3>2. r.todo \subseteq r.ids /\ r.ids # {} /\ run[k] # None /\ run[k].scenarios = r.ids /\ run[k].status = "completed"
      BY <2>3 DEF Known, Covered, Replayed, Running
    <3> QED
      BY <2>1, <2>3, <3>1, <3>2 DEF Covered, Replayed, Running, created
  <2>6. Requested(k)'
    BY <1>1, <2>2, <2>3 DEF Known, Requested, Replayed, Request
  <2>7. check[k] = None /\ certificate[k] = None
    BY <2>3 DEF Known, Unwritten, Running
  <2> QED
    BY <1>1, <2>2, <2>3, <2>4, <2>5, <2>6, <2>7, LocalStep DEF Request
<1>10. CASE WriteBack(k)
  <2>1. req'[k] = [r EXCEPT !.step = "refresh", !.copy = None]
    BY <1>10 DEF WriteBack, TypeOK
  <2>2. r.step = "write_back" /\ UNCHANGED <<policy, created, offered>>
    BY <1>10 DEF WriteBack, At, history
  <2>3. Truthful(k)'
    BY <1>1, <1>2, <2>1, <2>2 DEF Known, Truthful, Unselected, Replayed, Request
  <2>4. Covered(k)'
    BY <1>1, <2>1, <2>2 DEF Known, Covered, Replayed, Running, Request, created
  <2>5. Requested(k)'
    BY <1>1, <2>1, <2>2 DEF Known, Requested, Replayed, Request
  <2>6. check[k] = None /\ certificate[k] = None
    BY <2>2 DEF Known, Unwritten, Running
  <2> QED
    BY <1>1, <2>1, <2>2, <2>3, <2>4, <2>5, <2>6, LocalStep DEF Request
<1>11. CASE FinishRun(k)
  <2>1. PICK step \in {"done", "check"} :
           req'[k] = [r EXCEPT !.step = step] /\ (step = "check" => r.kind # "run")
    BY <1>11 DEF FinishRun, Goto, TypeOK
  <2>2. r.step = "refresh" /\ UNCHANGED <<policy, created, offered>>
    BY <1>11 DEF FinishRun, At, rows, history
  <2>3. Truthful(k)'
    BY <1>1, <1>2, <2>1, <2>2 DEF Known, Truthful, Unselected, Replayed, Request
  <2>4. Covered(k)'
    BY <1>1, <2>1, <2>2 DEF Known, Covered, Replayed, Running, Request, created
  <2>5. Requested(k)'
    BY <1>1, <2>1, <2>2 DEF Known, Requested, Replayed, Request
  <2>6. check[k] = None /\ certificate[k] = None
    BY <2>2 DEF Known, Unwritten, Running
  <2> QED
    BY <1>1, <2>1, <2>2, <2>3, <2>4, <2>5, <2>6, LocalStep DEF Request
<1>12. CASE SaveCheck(k)
  <2>1. PICK step \in Steps :
           /\ req'[k] = [r EXCEPT !.step = step]
           /\ step = IF Verdict(k) = "passed" THEN "certificate" ELSE Answered(k)
    BY <1>12 DEF SaveCheck, Goto, TypeOK, Answered, Steps
  <2>2. r.step = "check" /\ UNCHANGED <<scenario, policy, run, certificate, result, offered>>
    BY <1>12 DEF SaveCheck, At, history
  <2>3. /\ req'[k].step = step /\ req'[k].ids = r.ids /\ req'[k].results = r.results
        /\ req'[k].kind = r.kind /\ req'[k].policy = r.policy /\ req'[k].fix = r.fix
    BY <1>1, <2>1 DEF Request
  <2>4. step \in {"certificate", "answer", "done"}
    BY <2>1 DEF Answered
  <2>5. step = "certificate" <=> Verdict(k) = "passed"
    BY <2>1 DEF Answered
  <2>6. step = "answer" => r.kind = "gate"
    BY <2>1 DEF Answered
  <2>7. /\ check'[k] # None /\ check'[k].verdict = Verdict(k) /\ check'[k].certified = FALSE
        /\ check'[k].failing = With(k, "failed") /\ check'[k].errored = With(k, "errored")
    <3>1. check'[k] = [verdict |-> Verdict(k), failing |-> With(k, "failed"),
                       errored |-> With(k, "errored"), certified |-> FALSE]
      BY <1>12 DEF SaveCheck, TypeOK
    <3> QED
      BY <3>1 DEF None
  <2>8. check[k] = None /\ certificate[k] = None /\ result[k] = None
    BY <2>2 DEF Known, Unwritten
  <2>9. /\ r.ids # {} /\ run[k] # None /\ run[k].scenarios = r.ids /\ run[k].status = "completed"
        /\ \A s \in r.ids : r.results[s] # "none"
        /\ \A s \in Scenarios : r.results[s] = "passed" => Passes(s, r.fix)
        /\ r.kind # "run"
        /\ policy[r.policy] # None
        /\ \E required \in offered[k] : required \subseteq r.ids
    BY <2>2 DEF Known, Truthful, Covered, Requested, Replayed
  <2>10. Unwritten(k)'
    BY <2>2, <2>3, <2>4, <2>8 DEF Unwritten, Unselected, Running
  <2>11. Truthful(k)'
    BY <2>2, <2>3, <2>4, <2>9 DEF Truthful, Unselected, Replayed, Passes
  <2>12. Covered(k)'
    BY <2>2, <2>3, <2>4, <2>9 DEF Covered, Running, Replayed
  <2>13. Requested(k)'
    BY <2>2, <2>3, <2>4, <2>6, <2>9 DEF Requested, Replayed
  <2>14. Verdict(k) \in {"passed", "failed"}
         /\ (Verdict(k) = "failed" => With(k, "failed") \cup With(k, "errored") # {})
         /\ (Verdict(k) = "passed" => With(k, "failed") = {} /\ With(k, "errored") = {})
    BY DEF Verdict
  <2>15. Checked(k)'
    BY <2>2, <2>3, <2>4, <2>5, <2>7, <2>8, <2>14 DEF Checked, Passed
  <2>16. Passed(k)' => Earned(k)'
    <3> SUFFICES ASSUME Passed(k)' PROVE Earned(k)'
      OBVIOUS
    <3>1. With(k, "failed") = {} /\ With(k, "errored") = {}
      BY <2>7, <2>14 DEF Passed
    <3>2. \A s \in r.ids : r.results[s] = "passed"
      BY <1>1, <2>9, <3>1 DEF With, Results, Outcomes
    <3>3. \A s \in r.ids : Passes(s, r.fix)
      BY <1>1, <2>9, <3>2
    <3> QED
      BY <2>2, <2>3, <2>9, <3>3 DEF Earned, Passes
  <2>17. Agree(k)'
    BY <2>2, <2>8 DEF Agree
  <2> QED
    BY <2>10, <2>11, <2>12, <2>13, <2>15, <2>16, <2>17 DEF Known
<1>13. ASSUME NEW step \in {"link", "answer", "done"},
              req'[k] = [r EXCEPT !.step = step], r.step \in {"certificate", "link", "answer", "error"},
              UNCHANGED <<scenario, policy, run, offered>>,
              step = "answer" => r.kind = "gate", step # "done" => r.step \in {"certificate", "link"}
       PROVE  /\ Truthful(k)' /\ Covered(k)' /\ Requested(k)' /\ (Earned(k) => Earned(k)')
              /\ req'[k].step = step
  <2>1. /\ req'[k].step = step /\ req'[k].ids = r.ids /\ req'[k].results = r.results
        /\ req'[k].kind = r.kind /\ req'[k].policy = r.policy /\ req'[k].fix = r.fix
    BY <1>1, <1>13 DEF Request
  <2>2. Truthful(k)'
    BY <1>13, <2>1 DEF Known, Truthful, Unselected, Replayed, Passes
  <2>3. Covered(k)'
    BY <1>13, <2>1 DEF Known, Covered, Running, Replayed
  <2>4. Requested(k)'
    BY <1>13, <2>1 DEF Known, Requested, Replayed
  <2>5. Earned(k) => Earned(k)'
    BY <1>13, <2>1 DEF Earned, Passes
  <2> QED
    BY <2>1, <2>2, <2>3, <2>4, <2>5
<1>14. CASE IssueCertificate(k)
  <2>1. /\ r.step = "certificate" /\ req'[k] = [r EXCEPT !.step = "link"]
        /\ UNCHANGED <<scenario, policy, run, check, result, offered>>
    BY <1>14 DEF IssueCertificate, At, Goto, history, TypeOK
  <2>2. Truthful(k)' /\ Covered(k)' /\ Requested(k)' /\ (Earned(k) => Earned(k)') /\ req'[k].step = "link"
    BY <1>13, <2>1
  <2>3. Passed(k) /\ Passed(k)' /\ certificate'[k] # None /\ result[k] = None /\ result'[k] = None
    BY <1>14, <2>1 DEF Known, Checked, Unwritten, Passed, IssueCertificate, TypeOK, None
  <2> QED
    BY <2>1, <2>2, <2>3 DEF Known, Unwritten, Checked, Agree, Unselected, Running
<1>15. CASE LinkCertificate(k)
  <2>1. r.step = "link" /\ UNCHANGED <<scenario, policy, run, certificate, result, offered>>
    BY <1>15 DEF LinkCertificate, At, history
  <2>2. PICK step \in {"answer", "done"} :
           req'[k] = [r EXCEPT !.step = step] /\ (step = "answer" => r.kind = "gate")
    BY <1>15 DEF LinkCertificate, Goto, Answered, TypeOK
  <2>3. Truthful(k)' /\ Covered(k)' /\ Requested(k)' /\ (Earned(k) => Earned(k)') /\ req'[k].step = step
    BY <1>13, <2>1, <2>2
  <2>4. Passed(k) /\ certificate[k] # None /\ result[k] = None
    BY <2>1 DEF Known, Checked, Unwritten
  <2>5. check[k] \in Check
    BY <2>4 DEF Passed, TypeOK
  <2>6. check'[k].certified = TRUE /\ check'[k].verdict = check[k].verdict /\ check'[k] # None
    BY <1>15, <2>5 DEF LinkCertificate, TypeOK, Check, None
  <2>7. Passed(k)'
    BY <2>4, <2>6 DEF Passed
  <2> QED
    BY <2>1, <2>3, <2>4, <2>6, <2>7 DEF Known, Unwritten, Checked, Agree, Passed, Unselected, Running
<1>16. ASSUME NEW status \in {"pass", "fail", "error"}, NEW certified \in BOOLEAN,
              SaveResult(k, status, certified), r.step \in {"answer", "error"},
              /\ status = "pass" => certificate[k] # None /\ certified /\ check[k].certified
              /\ status = "fail" => /\ certificate[k] = None /\ ~certified
                                    /\ check[k] # None /\ check[k].failing \cup check[k].errored # {}
              /\ status = "error" => check[k] = None \/ Passed(k)
       PROVE  Known(k)'
  <2>1. /\ req'[k] = [r EXCEPT !.step = "done"]
        /\ UNCHANGED <<scenario, policy, run, check, certificate, offered>>
    BY <1>16 DEF SaveResult, Goto, history, TypeOK
  <2>2. Truthful(k)' /\ Covered(k)' /\ Requested(k)' /\ (Earned(k) => Earned(k)') /\ req'[k].step = "done"
    BY <1>13, <1>16, <2>1
  <2>3. Passed(k)' = Passed(k)
    BY <2>1 DEF Passed
  <2>4. result'[k].status = status /\ result'[k].certified = certified
    BY <1>16 DEF SaveResult, TypeOK
  <2>5. Agree(k)'
    BY <1>16, <2>1, <2>3, <2>4 DEF Known, Agree
  <2> QED
    BY <2>1, <2>2, <2>3, <2>5 DEF Known, Unwritten, Checked, Unselected, Running
<1>17. CASE AnswerGate(k)
  <2>1. r.step = "answer" /\ check[k] # None /\ check[k] \in Check
    BY <1>17 DEF AnswerGate, At, Known, Checked, TypeOK
  <2>2. check[k].verdict \in {"passed", "failed"} /\ check[k].certified \in BOOLEAN
    BY <2>1 DEF Check
  <2>3. /\ check[k].verdict = "passed" => certificate[k] # None /\ check[k].certified
        /\ check[k].verdict = "failed" => /\ certificate[k] = None /\ ~check[k].certified
                                          /\ check[k].failing \cup check[k].errored # {}
    BY <2>1 DEF Known, Checked
  <2>4. CASE check[k].verdict = "passed"
    <3>1. SaveResult(k, "pass", check[k].certified)
      BY <1>17, <2>4 DEF AnswerGate
    <3> QED
      BY <1>16, <2>1, <2>2, <2>3, <2>4, <3>1
  <2>5. CASE check[k].verdict = "failed"
    <3>1. SaveResult(k, "fail", check[k].certified)
      BY <1>17, <2>5 DEF AnswerGate
    <3> QED
      BY <1>16, <2>1, <2>2, <2>3, <2>5, <3>1
  <2> QED
    BY <2>2, <2>4, <2>5
<1>18. CASE AnswerError(k)
  <2>1. r.step = "error" /\ SaveResult(k, "error", FALSE)
    BY <1>18 DEF AnswerError, At
  <2>2. check[k] = None \/ Passed(k)
    BY <2>1 DEF Known, Checked
  <2> QED
    BY <1>16, <2>1, <2>2
<1> QED
  BY <1>5, <1>6, <1>7, <1>8, <1>9, <1>10, <1>11, <1>12, <1>14, <1>15, <1>17, <1>18 DEF Serve

--------------------------------------------------------------------------------
\* Steps that serve nothing: arrivals, faults, edits and promotions.
\* A request that arrives knows nothing yet and disturbs no other.
LEMMA StartKeeps ==
    ASSUME TypeOK, NEW k \in Requests, Known(k), NEW kind \in Kinds, NEW p \in Policies,
           NEW f \in Fixes, NEW ids \in SUBSET Scenarios, Start(k, kind, p, f, ids)
    PROVE  TypeOK' /\ Known(k)' /\ Grows /\ \A j \in Requests \ {k} : Frame(j)
<1> DEFINE r == req[k]
<1>1. r \in Request /\ r.results \in Results /\ r.step = "new"
  BY DEF TypeOK, Request, Start, At
<1>2. PICK step \in {"select", "policy"} :
         /\ req' = [req EXCEPT ![k].step = step, ![k].kind = kind, ![k].policy = p,
                               ![k].fix = f, ![k].ids = ids]
         /\ step = "select" <=> kind = "run"
  BY DEF Start
<1>3. [r EXCEPT !.step = step, !.kind = kind, !.policy = p, !.fix = f, !.ids = ids] \in Request
  BY <1>1 DEF Request, Steps
<1>4. /\ req'[k] = [r EXCEPT !.step = step, !.kind = kind, !.policy = p, !.fix = f, !.ids = ids]
      /\ req' \in [Requests -> Request]
  BY <1>2, <1>3 DEF TypeOK
<1>5. /\ req'[k].step = step /\ req'[k].kind = kind /\ req'[k].policy = p
      /\ req'[k].results = r.results
  BY <1>1, <1>4 DEF Request
<1>6. RequiredBy(policy[p]) \in SUBSET SUBSET Scenarios
  BY DEF RequiredBy, TypeOK, Policy
<1>7. offered' \in [Requests -> SUBSET SUBSET Scenarios] /\ offered'[k] = RequiredBy(policy[p])
  BY <1>6 DEF Start, TypeOK
<1>8. TypeOK'
  BY <1>4, <1>7 DEF Start, TypeOK, rows, created
<1>9. Grows
  BY DEF Start, Grows, rows
<1>10. ASSUME NEW j \in Requests \ {k} PROVE Frame(j)
  BY <1>2 DEF Start, Frame, rows, created, TypeOK
<1>11. UNCHANGED <<policy, run, check, certificate, result>>
  BY DEF Start, rows, created
<1>12. check[k] = None /\ certificate[k] = None /\ result[k] = None
  BY <1>1 DEF Known, Unwritten, Unselected
<1>13. Truthful(k)'
  BY <1>1, <1>5 DEF Known, Truthful, Unselected, Replayed
<1>14. Requested(k)'
  BY <1>2, <1>5, <1>7, <1>11 DEF Requested, Replayed
<1>15. Known(k)'
  BY <1>5, <1>11, <1>12, <1>13, <1>14
     DEF Known, Unwritten, Covered, Checked, Passed, Agree, Running, Replayed
<1> QED
  BY <1>8, <1>9, <1>10, <1>15

\* A request cut short keeps the calls it made and what they established.
LEMMA FaultKeeps ==
    ASSUME TypeOK, NEW k \in Requests, Known(k), Fault(k)
    PROVE  TypeOK' /\ Known(k)' /\ Grows /\ \A j \in Requests \ {k} : Frame(j)
<1> DEFINE r == req[k]
<1>1. r \in Request /\ r.fix \in Fixes
  BY DEF TypeOK, Request
<1>2. UNCHANGED <<scenario, policy, created, promoting, patch, edits, offered, shelved>>
  BY DEF Fault, rows
<1>3. PICK step \in {"error", "done"} :
         /\ req' = [req EXCEPT ![k].step = step]
         /\ step = "error" => r.kind = "gate" /\ r.step \notin {"answer", "error"}
  BY DEF Fault, Raise, Goto
<1>4. [r EXCEPT !.step = step] \in Request
  BY <1>1 DEF Request, Steps
<1>5. req'[k] = [r EXCEPT !.step = step] /\ req' \in [Requests -> Request]
  BY <1>3, <1>4 DEF TypeOK
<1>6. /\ req'[k].step = step /\ req'[k].kind = r.kind /\ req'[k].policy = r.policy
      /\ req'[k].fix = r.fix /\ req'[k].results = r.results
  BY <1>1, <1>5 DEF Request
<1>7. TypeOK'
  BY <1>2, <1>5 DEF Fault, TypeOK, created
<1>8. Grows
  BY <1>2 DEF Grows
<1>9. ASSUME NEW j \in Requests \ {k} PROVE Frame(j)
  BY <1>2, <1>3 DEF Frame, created, TypeOK
<1>10. r.step \notin {"new", "done"}
  BY DEF Fault
<1>11. Truthful(k)'
  BY <1>2, <1>6 DEF Known, Truthful, Passes, Unselected, Replayed
<1>12. Covered(k)' /\ Requested(k)'
  BY <1>3, <1>6 DEF Covered, Requested, Running, Replayed
<1>13. step = "error" => check[k] = None \/ Passed(k)
  BY <1>1, <1>3, <1>10 DEF Known, Unwritten, Checked, Unselected, Running, Request, Steps
<1>14. Known(k)'
  BY <1>2, <1>6, <1>8, <1>10, <1>11, <1>12, <1>13, LocalStep DEF Unselected, Running
<1> QED
  BY <1>7, <1>8, <1>9, <1>14

\* The actions that belong to no request.
Curate ==
    \/ \E q \in Promoters, v \in Records : FindExisting(q, v)
    \/ \E q \in Promoters, s \in Scenarios : CreateScenario(q, s)
    \/ \E q \in Editors, s \in Scenarios, state \in {"active", "retired"} : PatchScenario(q, s, state)
    \/ \E p \in Policies, required \in RequiredInputs : CreatePolicy(p, required)
    \/ \E q \in Editors, p \in Policies, required \in SUBSET Scenarios, enabled \in BOOLEAN :
          PatchPolicy(q, p, required, enabled)
    \/ \E q \in Editors : SavePatch(q)

\* Writing a policy adds to what is offered to the requests that have not read it.
LEMMA WritePolicyKeeps ==
    ASSUME TypeOK, NEW p \in Policies, NEW row \in Policy, WritePolicy(p, row),
           UNCHANGED <<scenario, created, req>>
    PROVE  /\ policy' \in [Policies -> Policy \cup {None}]
           /\ offered' \in [Requests -> SUBSET SUBSET Scenarios]
           /\ Grows
           /\ \A j \in Requests : Frame(j)
<1>1. policy' \in [Policies -> Policy \cup {None}]
  BY DEF WritePolicy, TypeOK
<1>2. row.required \in SUBSET Scenarios /\ row # None
  BY RowsAreRows DEF Policy
<1>3. offered' \in [Requests -> SUBSET SUBSET Scenarios]
  BY <1>2 DEF WritePolicy, TypeOK
<1>4. Grows
  BY <1>2 DEF Grows, WritePolicy, TypeOK
<1>5. ASSUME NEW j \in Requests PROVE Frame(j)
  <2>1. offered[j] \subseteq offered'[j]
    BY DEF WritePolicy
  <2>2. /\ req'[j] = req[j] /\ run'[j] = run[j] /\ check'[j] = check[j]
        /\ certificate'[j] = certificate[j] /\ result'[j] = result[j]
    BY DEF created
  <2>3. ASSUME req[j].step = "policy", RequiredBy(policy[req[j].policy]) \subseteq offered[j]
        PROVE  RequiredBy(policy'[req[j].policy]) \subseteq offered'[j]
    <3>1. CASE req[j].policy = p
      <4>1. policy'[req[j].policy] = row /\ row.required \in offered'[j]
        BY <2>3, <3>1 DEF WritePolicy, TypeOK
      <4> QED
        BY <4>1 DEF RequiredBy
    <3>2. CASE req[j].policy # p
      <4>1. policy'[req[j].policy] = policy[req[j].policy]
        BY <3>2 DEF WritePolicy, TypeOK, Request
      <4> QED
        BY <2>1, <2>3, <4>1 DEF RequiredBy
    <3> QED
      BY <3>1, <3>2
  <2> QED
    BY <2>1, <2>2, <2>3 DEF Frame
<1> QED
  BY <1>1, <1>3, <1>4, <1>5

\* Editors and promoters leave alone all that requests know.
LEMMA CurateKeeps ==
    ASSUME TypeOK, Curate
    PROVE  TypeOK' /\ Grows /\ \A j \in Requests : Frame(j)
<1>1. ASSUME UNCHANGED <<rows, req, offered>> PROVE Grows /\ \A j \in Requests : Frame(j)
  BY <1>1 DEF Grows, Frame, rows, created
<1>2. ASSUME UNCHANGED <<policy, created, req, offered>>,
             NEW s \in Scenarios, NEW row \in Scenario, scenario' = [scenario EXCEPT ![s] = row]
      PROVE  Grows /\ (\A j \in Requests : Frame(j)) /\ scenario' \in [Scenarios -> Scenario \cup {None}]
  <2>1. row # None
    BY RowsAreRows
  <2> QED
    BY <1>2, <2>1 DEF Grows, Frame, created, TypeOK
<1>3. ASSUME NEW q \in Promoters, NEW v \in Records, FindExisting(q, v)
      PROVE  TypeOK' /\ Grows /\ \A j \in Requests : Frame(j)
  BY <1>1, <1>3 DEF FindExisting, TypeOK, rows, created, history
<1>4. ASSUME NEW q \in Promoters, NEW s \in Scenarios, CreateScenario(q, s)
      PROVE  TypeOK' /\ Grows /\ \A j \in Requests : Frame(j)
  <2>1. [state |-> "active", last_run_status |-> "not_started"] \in Scenario
    BY DEF Scenario
  <2>2. Grows /\ (\A j \in Requests : Frame(j)) /\ scenario' \in [Scenarios -> Scenario \cup {None}]
    BY <1>2, <1>4, <2>1 DEF CreateScenario, history
  <2> QED
    BY <1>4, <2>2 DEF CreateScenario, TypeOK, created, history
<1>5. ASSUME NEW q \in Editors, NEW row \in Patch, patch' = [patch EXCEPT ![q] = row]
      PROVE  patch' \in [Editors -> Patch \cup {None}]
  BY <1>5 DEF TypeOK
<1>6. ASSUME NEW q \in Editors, NEW s \in Scenarios, NEW state \in {"active", "retired"},
             PatchScenario(q, s, state)
      PROVE  TypeOK' /\ Grows /\ \A j \in Requests : Frame(j)
  <2>1. scenario[s] \in Scenario
    BY <1>6 DEF PatchScenario, TypeOK
  <2>2. [kind |-> "scenario", id |-> s, row |-> [scenario[s] EXCEPT !.state = state]] \in Patch
    BY <2>1 DEF Scenario, Patch
  <2>3. patch' \in [Editors -> Patch \cup {None}]
    BY <1>5, <1>6, <2>2 DEF PatchScenario
  <2> QED
    BY <1>1, <1>6, <2>3 DEF PatchScenario, TypeOK, rows, created
<1>7. ASSUME NEW p \in Policies, NEW required \in RequiredInputs, CreatePolicy(p, required)
      PROVE  TypeOK' /\ Grows /\ \A j \in Requests : Frame(j)
  <2>1. [required |-> required, enabled |-> TRUE] \in Policy
    BY ConstantsAssumption DEF Policy
  <2>2. /\ policy' \in [Policies -> Policy \cup {None}]
        /\ offered' \in [Requests -> SUBSET SUBSET Scenarios]
        /\ Grows /\ \A j \in Requests : Frame(j)
    BY <1>7, <2>1, WritePolicyKeeps DEF CreatePolicy, slots
  <2> QED
    BY <1>7, <2>2 DEF CreatePolicy, TypeOK, created, slots
<1>8. ASSUME NEW q \in Editors, NEW p \in Policies, NEW required \in SUBSET Scenarios,
             NEW enabled \in BOOLEAN, PatchPolicy(q, p, required, enabled)
      PROVE  TypeOK' /\ Grows /\ \A j \in Requests : Frame(j)
  <2>1. [kind |-> "policy", id |-> p, row |-> [required |-> required, enabled |-> enabled]] \in Patch
    BY DEF Patch, Policy
  <2>2. patch' \in [Editors -> Patch \cup {None}]
    BY <1>5, <1>8, <2>1 DEF PatchPolicy
  <2> QED
    BY <1>1, <1>8, <2>2 DEF PatchPolicy, TypeOK, rows, created
<1>9. ASSUME NEW q \in Editors, SavePatch(q)
      PROVE  TypeOK' /\ Grows /\ \A j \in Requests : Frame(j)
  <2>1. patch[q] \in Patch /\ patch' \in [Editors -> Patch \cup {None}]
    BY <1>9 DEF SavePatch, TypeOK
  <2>2. UNCHANGED <<created, req, promoting, edits, faults>>
    BY <1>9 DEF SavePatch
  <2>3. CASE patch[q].kind = "scenario"
    <3>1. patch[q].id \in Scenarios /\ patch[q].row \in Scenario
      BY <2>1, <2>3 DEF Patch
    <3>2. /\ scenario' = [scenario EXCEPT ![patch[q].id] = patch[q].row]
          /\ shelved' \subseteq shelved \cup {patch[q].id}
          /\ UNCHANGED <<policy, offered>>
      BY <1>9, <2>3 DEF SavePatch
    <3>3. Grows /\ (\A j \in Requests : Frame(j)) /\ scenario' \in [Scenarios -> Scenario \cup {None}]
      BY <1>2, <2>2, <3>1, <3>2
    <3> QED
      BY <2>1, <2>2, <3>1, <3>2, <3>3 DEF TypeOK, created
  <2>4. CASE patch[q].kind = "policy"
    <3>1. patch[q].id \in Policies /\ patch[q].row \in Policy
      BY <2>1, <2>4 DEF Patch
    <3>2. WritePolicy(patch[q].id, patch[q].row) /\ UNCHANGED <<scenario, shelved>>
      BY <1>9, <2>4 DEF SavePatch
    <3>3. /\ policy' \in [Policies -> Policy \cup {None}]
          /\ offered' \in [Requests -> SUBSET SUBSET Scenarios]
          /\ Grows /\ \A j \in Requests : Frame(j)
      BY <2>2, <3>1, <3>2, WritePolicyKeeps
    <3> QED
      BY <2>1, <2>2, <3>2, <3>3 DEF TypeOK, created
  <2> QED
    BY <2>1, <2>3, <2>4 DEF Patch
<1> QED
  BY <1>3, <1>4, <1>6, <1>7, <1>8, <1>9 DEF Curate

--------------------------------------------------------------------------------
\* The invariant holds before the first request.
LEMMA InitKnown == Init => IInv
<1> SUFFICES ASSUME Init PROVE IInv
  OBVIOUS
<1>1. TypeOK
  BY InitTyped
<1>2. ASSUME NEW k \in Requests PROVE Known(k)
  <2>1. req[k] = NewRequest /\ check[k] = None /\ certificate[k] = None /\ result[k] = None
    BY DEF Init
  <2>2. req[k].step = "new" /\ \A s \in Scenarios : req[k].results[s] = "none"
    BY <2>1 DEF NewRequest, NoResults
  <2> QED
    BY <2>1, <2>2 DEF Known, Unwritten, Truthful, Covered, Requested, Checked, Agree, Passed,
                      Unselected, Running, Replayed
<1> QED
  BY <1>1, <1>2 DEF IInv

\* The invariant is inductive, for any number of requests, scenarios,
\* policies, editors and promoters.
THEOREM Invariance == Spec => []IInv
<1>1. IInv /\ [Next]_vars => IInv'
  <2> SUFFICES ASSUME IInv, [Next]_vars PROVE IInv'
    OBVIOUS
  <2>1. TypeOK /\ \A k \in Requests : Known(k)
    BY DEF IInv
  <2>2. ASSUME NEW k \in Requests, TypeOK', Grows, Known(k)', \A j \in Requests \ {k} : Frame(j)
        PROVE  IInv'
    <3>1. \A j \in Requests \ {k} : Known(j)'
      BY <2>1, <2>2, FrameKeepsKnown
    <3> QED
      BY <2>2, <3>1 DEF IInv
  <2>3. ASSUME NEW k \in Requests, Serve(k) PROVE IInv'
    <3>1. TypeOK' /\ Grows /\ \A j \in Requests \ {k} : Frame(j)
      BY <2>1, <2>3, ServeTyped, ServeFrames
    <3>2. Known(k)'
      BY <2>1, <2>3, <3>1, ServeKeepsKnown
    <3> QED
      BY <2>2, <3>1, <3>2
  <2>4. ASSUME NEW k \in Requests, Fault(k) PROVE IInv'
    BY <2>1, <2>2, <2>4, FaultKeeps
  <2>5. ASSUME NEW k \in Requests, NEW kind \in Kinds, NEW p \in Policies, NEW f \in Fixes,
               NEW ids \in SUBSET Scenarios, Start(k, kind, p, f, ids)
        PROVE  IInv'
    BY <2>1, <2>2, <2>5, StartKeeps
  <2>6. CASE Curate
    <3>1. TypeOK' /\ Grows /\ \A j \in Requests : Frame(j)
      BY <2>1, <2>6, CurateKeeps
    <3>2. \A j \in Requests : Known(j)'
      BY <2>1, <3>1, FrameKeepsKnown
    <3> QED
      BY <3>1, <3>2 DEF IInv
  <2>7. CASE UNCHANGED vars
    <3>1. TypeOK'
      BY <2>1, <2>7 DEF TypeOK, vars, rows, created, slots, history
    <3>2. Grows /\ \A j \in Requests : Frame(j)
      BY <2>7 DEF Grows, Frame, vars, rows, created, slots, history
    <3> QED
      BY <2>1, <3>1, <3>2, FrameKeepsKnown DEF IInv
  <2>8. RequiredInputs \subseteq SUBSET Scenarios /\ {} \in SUBSET Scenarios
    BY ConstantsAssumption
  <2>9. ASSUME NEW k \in Requests, NEW p \in Policies, NEW f \in Fixes,
               \/ Start(k, "run", p, f, {})
               \/ \E ids \in RequiredInputs : Start(k, "run", p, f, ids)
               \/ \E kind \in {"check", "gate"} : Start(k, kind, p, f, {})
        PROVE  IInv'
    BY <2>5, <2>8, <2>9 DEF Kinds
  <2> QED
    BY <2>3, <2>4, <2>6, <2>7, <2>9 DEF Next, Curate
<1> QED
  BY <1>1, InitKnown, PTL DEF Spec

\* TypeOK for every value of the constants.
THEOREM TypeCorrect == Spec => []TypeOK
<1>1. IInv => TypeOK
  BY DEF IInv
<1> QED
  BY <1>1, Invariance, PTL

\* A readiness check is "passed" only when it is earned, whoever edits
\* policies and scenarios meanwhile (ReadinessService.run_check).
THEOREM PassesAreEarned == Spec => []PassIsEarned
<1>1. IInv => PassIsEarned
  BY DEF IInv, Known, PassIsEarned
<1> QED
  BY <1>1, Invariance, PTL

\* Gate results, checks and certificates agree, whatever call raises and
\* wherever a process dies (ReleaseGateService.check).
THEOREM AnswersAlwaysAgree == Spec => []AnswersAgree
<1>1. IInv => AnswersAgree
  BY DEF IInv, Known, AnswersAgree
<1> QED
  BY <1>1, Invariance, PTL

--------------------------------------------------------------------------------
(***************************************************************************)
(* One scenario per record, when promotions of a record do not overlap     *)
(***************************************************************************)

\* No two promote requests have found the same record without a scenario.
PromotedOneAtATime ==
    \A p, q \in Promoters : p # q => promoting[p] \cap promoting[q] = {}

\* Who writes a scenario back has read it: a run its last status, a PATCH its state.
Copied(k) == req[k].step = "write_back" => scenario[req[k].copy.id] # None
Patched(q) == (patch[q] # None /\ patch[q].kind = "scenario") => scenario[patch[q].id] # None
Backed == (\A k \in Requests : Copied(k)) /\ (\A q \in Editors : Patched(q))

\* A record waiting for its scenario has none yet.
Waiting(q) == \A v \in promoting[q] : Existing(v) = {}

LibraryInv == Backed /\ (\A q \in Promoters : Waiting(q)) /\ OneScenarioPerRecord

\* A step is one of a request, or one that serves nothing.
LEMMA NextSplit ==
    ASSUME Next
    PROVE  \/ \E k \in Requests : Serve(k) \/ Fault(k)
           \/ \E k \in Requests, kind \in Kinds, p \in Policies, f \in Fixes, ids \in SUBSET Scenarios :
                 Start(k, kind, p, f, ids)
           \/ Curate
<1>1. RequiredInputs \subseteq SUBSET Scenarios /\ {} \in SUBSET Scenarios
  BY ConstantsAssumption
<1>2. ASSUME NEW k \in Requests, NEW p \in Policies, NEW f \in Fixes,
             \/ Start(k, "run", p, f, {})
             \/ \E ids \in RequiredInputs : Start(k, "run", p, f, ids)
             \/ \E kind \in {"check", "gate"} : Start(k, kind, p, f, {})
      PROVE  \E kind \in Kinds, ids \in SUBSET Scenarios : Start(k, kind, p, f, ids)
  BY <1>1, <1>2 DEF Kinds
<1> QED
  BY <1>2 DEF Next, Curate

\* The library and the policies only grow.
LEMMA StepGrows ==
    ASSUME IInv, [Next]_vars
    PROVE  Grows
<1>1. CASE UNCHANGED vars
  BY <1>1 DEF Grows, vars, rows
<1>2. ASSUME NEW k \in Requests, Serve(k) \/ Fault(k)
      PROVE  Grows
  BY <1>2, ServeFrames, FaultKeeps DEF IInv
<1>3. ASSUME NEW k \in Requests, NEW kind \in Kinds, NEW p \in Policies, NEW f \in Fixes,
             NEW ids \in SUBSET Scenarios, Start(k, kind, p, f, ids)
      PROVE  Grows
  BY <1>3, StartKeeps DEF IInv
<1>4. CASE Curate
  BY <1>4, CurateKeeps DEF IInv
<1> QED
  BY <1>1, <1>2, <1>3, <1>4, NextSplit

\* A run that writes a scenario back has read it, also after this step.
LEMMA CopiedKept ==
    ASSUME IInv, [Next]_vars, NEW k \in Requests, Copied(k)
    PROVE  Copied(k)'
<1>1. TypeOK /\ Grows /\ req \in [Requests -> Request]
  BY StepGrows DEF IInv, TypeOK
<1>2. CASE UNCHANGED req[k]
  <2>1. req[k].step = "write_back" => req[k].copy.id \in Scenarios
    BY DEF IInv, Known, Covered, Copy
  <2> QED
    BY <1>1, <1>2, <2>1 DEF Copied, Grows
<1>3. ASSUME NEW s \in Scenarios, ReadScenario(k, s)
      PROVE  Copied(k)'
  <2>1. UNCHANGED scenario
    BY <1>3 DEF ReadScenario, rows
  <2>2. CASE scenario[s] = None
    <3>1. PICK t, c : req' = [req EXCEPT ![k].todo = t, ![k].step = "refresh", ![k].copy = c]
      BY <1>3, <2>2 DEF ReadScenario
    <3>2. req'[k].step = "refresh"
      BY <1>1, <3>1 DEF Request
    <3> QED
      BY <3>2 DEF Copied
  <2>3. CASE scenario[s] # None
    <3>1. PICK c : c = [kind |-> "copy", id |-> s, row |-> scenario[s]]
      OBVIOUS
    <3>2. PICK t : req' = [req EXCEPT ![k].todo = t, ![k].step = "write_back", ![k].copy = c]
      BY <1>3, <2>3, <3>1 DEF ReadScenario
    <3>3. req'[k].copy = c
      BY <1>1, <3>2 DEF Request
    <3> QED
      BY <2>1, <2>3, <3>1, <3>3 DEF Copied
  <2> QED
    BY <2>2, <2>3
<1>4. ASSUME req'[k].step # "write_back"
      PROVE  Copied(k)'
  BY <1>4 DEF Copied
<1>5. ASSUME NEW step, step # "write_back", req' = [req EXCEPT ![k].step = step]
      PROVE  Copied(k)'
  BY <1>1, <1>4, <1>5 DEF Request
<1>6. ASSUME Raise(k)
       PROVE  Copied(k)'
  <2>1. PICK step \in {"error", "done"} : req' = [req EXCEPT ![k].step = step]
    BY <1>6 DEF Raise, Goto
  <2> QED
    BY <1>5, <2>1
<1>7. CASE \E s \in Scenarios : RunScenario(k, s)
  <2>1. PICK s \in Scenarios : RunScenario(k, s)
    BY <1>7
  <2>2. PICK o : o = IF scenario[s] = None THEN "errored" ELSE Outcome[s][req[k].fix]
    OBVIOUS
  <2>3. /\ req' = [req EXCEPT ![k].todo = req[k].todo \ {s}, ![k].results[s] = o]
        /\ req[k].step = "replay"
    BY <2>1, <2>2 DEF RunScenario, At
  <2>4. req'[k].step = "replay"
    BY <1>1, <2>3 DEF Request
  <2> QED
    BY <1>4, <2>4
<1>8. CASE ReadPolicy(k)
  <2>1. CASE Raise(k)
    BY <1>6, <2>1
  <2>2. ASSUME NEW i, req' = [req EXCEPT ![k].step = "select", ![k].ids = i]
        PROVE  Copied(k)'
    BY <1>1, <1>4, <2>2 DEF Request
  <2> QED
    BY <1>8, <2>1, <2>2 DEF ReadPolicy
<1>9. CASE SelectScenarios(k)
  <2>1. CASE Raise(k)
    BY <1>6, <2>1
  <2>2. ASSUME NEW i, req' = [req EXCEPT ![k].step = "replay", ![k].ids = i, ![k].todo = i]
        PROVE  Copied(k)'
    BY <1>1, <1>4, <2>2 DEF Request
  <2> QED
    BY <1>9, <2>1, <2>2 DEF SelectScenarios
<1>10. CASE CompleteRun(k) \/ WriteBack(k)
  <2>1. PICK t, c : \/ req' = [req EXCEPT ![k].step = "refresh", ![k].todo = t]
                    \/ req' = [req EXCEPT ![k].step = "refresh", ![k].copy = c]
    BY <1>10 DEF CompleteRun, WriteBack
  <2> QED
    BY <1>1, <1>4, <2>1 DEF Request
<1>11. CASE FinishRun(k) \/ SaveCheck(k) \/ IssueCertificate(k) \/ LinkCertificate(k)
            \/ AnswerGate(k) \/ AnswerError(k) \/ Fault(k)
  BY <1>5, <1>11 DEF FinishRun, SaveCheck, IssueCertificate, LinkCertificate, AnswerGate, AnswerError,
     SaveResult, Fault, Raise, Goto, Answered
<1>12. ASSUME NEW kind \in Kinds, NEW p \in Policies, NEW f \in Fixes, NEW ids \in SUBSET Scenarios,
              Start(k, kind, p, f, ids)
       PROVE  Copied(k)'
  <2>1. PICK step \in {"select", "policy"} :
           req' = [req EXCEPT ![k].step = step, ![k].kind = kind, ![k].policy = p,
                              ![k].fix = f, ![k].ids = ids]
    BY <1>12 DEF Start
  <2> QED
    BY <1>1, <1>4, <2>1 DEF Request
<1>13. ASSUME NEW j \in Requests, j # k,
              Serve(j) \/ Fault(j) \/ \E kind \in Kinds, p \in Policies, f \in Fixes, ids \in SUBSET Scenarios :
                                         Start(j, kind, p, f, ids)
       PROVE  Copied(k)'
  <2>1. Frame(k)
    BY <1>13, ServeFrames, FaultKeeps, StartKeeps DEF IInv
  <2> QED
    BY <1>2, <2>1 DEF Frame
<1>14. CASE Curate
  BY <1>2, <1>14, CurateKeeps DEF IInv, Frame
<1>15. CASE UNCHANGED vars
  BY <1>2, <1>15 DEF vars, slots
<1>16. Serve(k) => Copied(k)'
  BY <1>3, <1>7, <1>8, <1>9, <1>10, <1>11 DEF Serve
<1> QED
  BY <1>11, <1>12, <1>13, <1>14, <1>15, <1>16, NextSplit

\* A request serves neither promotions nor PATCHes.
LEMMA RequestsLeaveSlots ==
    ASSUME NEW k \in Requests,
           Serve(k) \/ Fault(k) \/ \E kind \in Kinds, p \in Policies, f \in Fixes, ids \in SUBSET Scenarios :
                                      Start(k, kind, p, f, ids)
    PROVE  UNCHANGED <<promoting, patch>>
BY DEF Serve, ReadPolicy, SelectScenarios, RunScenario, CompleteRun, ReadScenario, WriteBack, FinishRun,
   SaveCheck, IssueCertificate, LinkCertificate, AnswerGate, AnswerError, SaveResult, Fault, Start

\* A PATCH that writes a scenario back has read it, also after this step.
LEMMA PatchedKept ==
    ASSUME IInv, [Next]_vars, NEW q \in Editors, Patched(q)
    PROVE  Patched(q)'
<1>1. TypeOK /\ Grows /\ patch \in [Editors -> Patch \cup {None}]
  BY StepGrows DEF IInv, TypeOK
<1>2. CASE UNCHANGED patch[q]
  <2>1. (patch[q] # None /\ patch[q].kind = "scenario") => patch[q].id \in Scenarios
    BY <1>1 DEF Patch
  <2> QED
    BY <1>1, <1>2, <2>1 DEF Patched, Grows
<1>3. ASSUME NEW e \in Editors, NEW s \in Scenarios, NEW state \in {"active", "retired"},
             PatchScenario(e, s, state)
      PROVE  Patched(q)'
  <2>1. PICK row : row = [kind |-> "scenario", id |-> s, row |-> [scenario[s] EXCEPT !.state = state]]
    OBVIOUS
  <2>2. patch' = [patch EXCEPT ![e] = row] /\ UNCHANGED scenario /\ scenario[s] # None
    BY <1>3, <2>1 DEF PatchScenario, rows
  <2>3. row.id = s
    BY <2>1
  <2> QED
    BY <1>1, <1>2, <2>2, <2>3 DEF Patched
<1>4. ASSUME NEW e \in Editors, NEW p \in Policies, NEW required \in SUBSET Scenarios,
             NEW enabled \in BOOLEAN, PatchPolicy(e, p, required, enabled)
      PROVE  Patched(q)'
  <2>1. PICK row : row = [kind |-> "policy", id |-> p, row |-> [required |-> required, enabled |-> enabled]]
    OBVIOUS
  <2>2. patch' = [patch EXCEPT ![e] = row] /\ row.kind = "policy"
    BY <1>4, <2>1 DEF PatchPolicy
  <2> QED
    BY <1>1, <1>2, <2>2 DEF Patched
<1>5. ASSUME NEW e \in Editors, SavePatch(e)
      PROVE  Patched(q)'
  <2>1. patch' = [patch EXCEPT ![e] = None]
    BY <1>5 DEF SavePatch
  <2> QED
    BY <1>1, <1>2, <2>1 DEF Patched
<1>6. (\/ \E p \in Promoters, v \in Records : FindExisting(p, v)
       \/ \E p \in Promoters, s \in Scenarios : CreateScenario(p, s)
       \/ \E p \in Policies, required \in RequiredInputs : CreatePolicy(p, required)
       \/ UNCHANGED vars) => UNCHANGED patch
  BY DEF FindExisting, CreateScenario, CreatePolicy, slots, vars
<1> QED
  BY <1>2, <1>3, <1>4, <1>5, <1>6, NextSplit, RequestsLeaveSlots DEF Curate

\* Only a promotion adds a scenario to the library.
LEMMA OnlyPromotionsCreate ==
    ASSUME IInv, Backed, [Next]_vars, ~\E q \in Promoters, s \in Scenarios : CreateScenario(q, s)
    PROVE  \A s \in Scenarios : scenario'[s] # None => scenario[s] # None
<1>1. TypeOK
  BY DEF IInv
<1>2. CASE UNCHANGED scenario
  BY <1>2
<1>3. ASSUME NEW t \in Scenarios, scenario[t] # None, NEW row, scenario' = [scenario EXCEPT ![t] = row]
      PROVE  \A s \in Scenarios : scenario'[s] # None => scenario[s] # None
  BY <1>1, <1>3 DEF TypeOK
<1>4. ASSUME NEW k \in Requests, WriteBack(k)
      PROVE  \E t \in Scenarios : \E row : scenario[t] # None /\ scenario' = [scenario EXCEPT ![t] = row]
  <2>1. req[k].copy.id \in Scenarios /\ scenario[req[k].copy.id] # None
    BY <1>4 DEF IInv, Known, Covered, Copy, WriteBack, At, Backed, Copied
  <2> QED
    BY <1>4, <2>1 DEF WriteBack
<1>5. ASSUME NEW q \in Editors, SavePatch(q)
      PROVE  \/ UNCHANGED scenario
             \/ \E t \in Scenarios : \E row : scenario[t] # None /\ scenario' = [scenario EXCEPT ![t] = row]
  <2>1. CASE patch[q].kind = "scenario"
    <3>1. patch[q] \in Patch
      BY <1>1, <1>5 DEF TypeOK, SavePatch
    <3>2. patch[q].id \in Scenarios /\ scenario[patch[q].id] # None
      BY <1>5, <2>1, <3>1 DEF Patch, SavePatch, Backed, Patched
    <3> QED
      BY <1>5, <2>1, <3>2 DEF SavePatch
  <2> QED
    BY <1>5, <2>1 DEF SavePatch
<1>6. ASSUME NEW k \in Requests, Serve(k), ~WriteBack(k)
      PROVE  UNCHANGED scenario
  BY <1>6 DEF Serve, ReadPolicy, SelectScenarios, RunScenario, CompleteRun, ReadScenario,
              FinishRun, SaveCheck, IssueCertificate, LinkCertificate, AnswerGate, AnswerError,
              SaveResult, rows, created
<1>7. ASSUME NEW k \in Requests,
             Fault(k) \/ \E kind \in Kinds, p \in Policies, f \in Fixes, ids \in SUBSET Scenarios :
                            Start(k, kind, p, f, ids)
      PROVE  UNCHANGED scenario
  BY <1>7 DEF Fault, Start, rows
<1>8. (\/ \E p \in Promoters, v \in Records : FindExisting(p, v)
       \/ \E q \in Editors, s \in Scenarios, state \in {"active", "retired"} : PatchScenario(q, s, state)
       \/ \E p \in Policies, required \in RequiredInputs : CreatePolicy(p, required)
       \/ \E q \in Editors, p \in Policies, required \in SUBSET Scenarios, enabled \in BOOLEAN :
             PatchPolicy(q, p, required, enabled)
       \/ UNCHANGED vars) => UNCHANGED scenario
  BY DEF FindExisting, PatchScenario, CreatePolicy, PatchPolicy, rows, vars
<1> QED
  BY <1>2, <1>3, <1>4, <1>5, <1>6, <1>7, <1>8, NextSplit DEF Curate

\* Promotions of a record that do not overlap give it one scenario.
LEMMA LibraryStep ==
    ASSUME IInv, LibraryInv, PromotedOneAtATime, [Next]_vars
    PROVE  LibraryInv'
<1>1. TypeOK /\ Backed'
  BY CopiedKept, PatchedKept DEF IInv, LibraryInv, Backed
<1>2. ASSUME \A s \in Scenarios : scenario'[s] # None => scenario[s] # None
      PROVE  OneScenarioPerRecord' /\ \A v \in Records : Existing(v) = {} => Existing(v)' = {}
  BY <1>2 DEF LibraryInv, OneScenarioPerRecord, Existing
<1>3. ASSUME NEW q \in Promoters, NEW s \in Scenarios, CreateScenario(q, s)
      PROVE  LibraryInv'
  <2> DEFINE row == [state |-> "active", last_run_status |-> "not_started"]
  <2>1. /\ Source[s] \in promoting[q] /\ promoting' = [promoting EXCEPT ![q] = {}]
        /\ scenario' = [scenario EXCEPT ![s] = row]
    BY <1>3 DEF CreateScenario
  <2> HIDE DEF row
  <2>2. Existing(Source[s]) = {}
    BY <2>1 DEF LibraryInv, Waiting
  <2>3. OneScenarioPerRecord'
    BY <1>1, <2>1, <2>2 DEF TypeOK, LibraryInv, OneScenarioPerRecord, Existing
  <2>4. ASSUME NEW p \in Promoters, NEW v \in promoting'[p]
        PROVE  Existing(v)' = {}
    <3>1. p # q /\ v \in promoting[p]
      BY <1>1, <2>1, <2>4 DEF TypeOK
    <3>2. v # Source[s] /\ Existing(v) = {}
      BY <2>1, <3>1 DEF PromotedOneAtATime, LibraryInv, Waiting
    <3> QED
      BY <1>1, <2>1, <3>2 DEF TypeOK, Existing
  <2> QED
    BY <1>1, <2>3, <2>4 DEF LibraryInv, Waiting
<1>4. ASSUME ~\E q \in Promoters, s \in Scenarios : CreateScenario(q, s)
      PROVE  LibraryInv'
  <2>1. \A s \in Scenarios : scenario'[s] # None => scenario[s] # None
    BY <1>4, OnlyPromotionsCreate DEF LibraryInv
  <2>2. ASSUME NEW q \in Promoters, NEW v \in promoting'[q]
        PROVE  v \in Records /\ Existing(v) = {}
    <3>1. CASE UNCHANGED promoting
      BY <1>1, <2>2, <3>1 DEF TypeOK, LibraryInv, Waiting
    <3>2. ASSUME NEW p \in Promoters, NEW w \in Records, FindExisting(p, w)
          PROVE  v \in Records /\ Existing(v) = {}
      BY <1>1, <2>2, <3>2 DEF TypeOK, LibraryInv, Waiting, FindExisting
    <3>3. (\/ \E e \in Editors, s \in Scenarios, state \in {"active", "retired"} : PatchScenario(e, s, state)
           \/ \E p \in Policies, required \in RequiredInputs : CreatePolicy(p, required)
           \/ \E e \in Editors, p \in Policies, required \in SUBSET Scenarios, enabled \in BOOLEAN :
                 PatchPolicy(e, p, required, enabled)
           \/ \E e \in Editors : SavePatch(e)
           \/ UNCHANGED vars) => UNCHANGED promoting
      BY DEF PatchScenario, CreatePolicy, PatchPolicy, SavePatch, slots, vars
    <3> QED
      BY <1>4, <3>1, <3>2, <3>3, NextSplit, RequestsLeaveSlots DEF Curate
  <2> QED
    BY <1>1, <1>2, <2>1, <2>2 DEF LibraryInv, Waiting
<1> QED
  BY <1>3, <1>4

\* From a library in which every record has at most one scenario, promotions
\* served one at a time never give a record two, retired ones included.
THEOREM OneScenarioEach ==
    ASSUME \A s, t \in Seeded : Source[s] = Source[t] => s = t
    PROVE  Spec /\ []PromotedOneAtATime => []OneScenarioPerRecord
<1>1. Init => LibraryInv
  <2> SUFFICES ASSUME Init PROVE LibraryInv
    OBVIOUS
  <2>1. \A k \in Requests : Copied(k)
    BY DEF Init, Copied, NewRequest
  <2>2. \A s \in Scenarios : scenario[s] # None => s \in Seeded
    BY DEF Init
  <2> QED
    BY <2>1, <2>2 DEF Init, LibraryInv, Backed, Patched, Waiting, OneScenarioPerRecord
<1>2. IInv /\ LibraryInv /\ PromotedOneAtATime /\ [Next]_vars => LibraryInv'
  BY LibraryStep
<1>3. LibraryInv => OneScenarioPerRecord
  BY DEF LibraryInv
<1> QED
  BY <1>1, <1>2, <1>3, Invariance, PTL DEF Spec
================================================================================

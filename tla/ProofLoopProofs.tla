---------------------------- MODULE ProofLoopProofs ----------------------------
(***************************************************************************)
(* Proofs about ProofLoop, for any records, agent, requests and creators.  *)
(* Five invariants, each inductive given those before it:                  *)
(*   TypeInv     a request carries what its next step needs;               *)
(*   SoundInv    what the record loop is about to save is backed by runs   *)
(*               and tests already saved, which are only appended to;      *)
(*   RowsBacked  every row of an incident, and every copy a request holds, *)
(*               shows what its status says;                               *)
(*   LineageInv  incidents are numbered from one up, and every copy of a   *)
(*               row belongs to the record its incident was created from   *)
(*               (while counts of incidents and insertions do not overlap);*)
(*   RowsTrue    what a row, a copy or a result states is true of it.      *)
(***************************************************************************)
EXTENDS ProofLoop, TLAPS, FiniteSetTheorems

(* What each step finds in its request. *)
RequestOK(r) ==
    /\ r.step \in {"label", "check_run"} => r.row \in VerificationRecord
    /\ r.step \in {"save", "fetch", "write", "write_again"} => r.result \in Result
    /\ r.step \in {"read_back", "store"} => r.result \in [of : {"certificate"}, value : Certificate]
    /\ r.step \in {"fetch", "load_replay", "load_test", "write", "write_again", "read_back", "store"}
          => r.target \in IncidentIds
    /\ r.step \in {"load_replay", "load_test", "write", "write_again"} => r.copy \in Incident
    /\ r.step \in {"read_back", "store"} /\ r.loop = "incident" => r.copy \in Incident
    /\ r.step = "store" => r.reread \in Incident

RequestsOK == \A k \in Requests : RequestOK(req[k])
MakingOK == \A q \in Creators : making[q] # None /\ making[q].step # "count" => making[q].id \in IncidentIds
Present == \A k \in Requests : req[k].step = "read_back" => incident[req[k].target] \in Incident
TypeInv == TypeOK /\ RequestsOK /\ MakingOK /\ Present

\* A slot without a request is well formed.
LEMMA IdleType == Idle \in Request /\ Idle.step = "idle" /\ RequestOK(Idle)
<1>1. (CHOOSE v \in Records : TRUE) \in Records
  BY ConstantsAssumption
<1>2. Idle \in Request
  BY <1>1 DEF Idle, Request, Steps, Loops
<1>3. Idle.step = "idle"
  BY DEF Idle
<1>4. QED BY <1>2, <1>3 DEF RequestOK

\* Recording a result on an incident gives an incident.
LEMMA ApplyType ==
    ASSUME NEW row \in Incident, NEW loop \in Loops, NEW result \in Result
    PROVE  Apply(row, loop, result) \in Incident
<1>1. CASE result.of = "replay"
  <2>1. result.value \in RunStatuses BY <1>1 DEF Result
  <2> QED BY <1>1, <2>1 DEF Apply, Incident, IncidentStatuses
<1>2. CASE result.of = "test"
  <2>1. result.value \in MutationTest BY <1>2 DEF Result
  <2> QED BY <1>2, <2>1 DEF Apply, Incident, IncidentStatuses
<1>3. CASE result.of = "certificate"
  <2>1. result.value \in Certificate BY <1>3 DEF Result
  <2> QED BY <1>3, <2>1 DEF Apply, Incident, IncidentStatuses
<1>4. QED BY <1>1, <1>2, <1>3 DEF Result

\* One request moves: the others, and what is known of them, stay.
LEMMA RequestMoves ==
    ASSUME TypeOK, RequestsOK, NEW k \in Requests, NEW r \in Request, RequestOK(r),
           req' = [req EXCEPT ![k] = r]
    PROVE  /\ req' \in [Requests -> Request] /\ RequestsOK'
           /\ req'[k] = r /\ \A j \in Requests \ {k} : req'[j] = req[j]
<1>1. req \in [Requests -> Request] BY DEF TypeOK
<1>2. req' \in [Requests -> Request] /\ req'[k] = r /\ \A j \in Requests \ {k} : req'[j] = req[j]
  BY <1>1
<1>3. \A j \in Requests : RequestOK(req'[j])
  BY <1>2 DEF RequestsOK
<1>4. QED BY <1>2, <1>3 DEF RequestsOK

\* The initial states are well typed.
LEMMA TypeInit == Init => TypeInv
<1> SUFFICES ASSUME Init PROVE TypeInv OBVIOUS
<1>1. TypeOK
  BY IdleType DEF Init, TypeOK
<1>2. RequestsOK /\ MakingOK /\ Present
  BY IdleType DEF Init, RequestsOK, MakingOK, Present
<1>3. QED BY <1>1, <1>2 DEF TypeInv

\* An answered request is idle again.
LEMMA AnswerType ==
    ASSUME TypeInv, NEW k \in Requests, Answer(k), incident' = incident
    PROVE  req' \in [Requests -> Request] /\ RequestsOK' /\ Present'
<1>1. req' \in [Requests -> Request] /\ RequestsOK'
      /\ req'[k] = Idle /\ \A j \in Requests \ {k} : req'[j] = req[j]
  BY IdleType, RequestMoves DEF TypeInv, Answer
<1>2. Present'
  BY <1>1, IdleType DEF TypeInv, Present
<1>3. QED BY <1>1, <1>2

\* The steps of ingest and promote requests keep the types.
LEMMA CreatorsType ==
    ASSUME TypeInv, NEW q \in Creators, MakingStep(q) \/ AbortMaking(q)
    PROVE  TypeInv'
<1> USE DEF TypeInv
<1>1. ASSUME NEW v \in Records, BeginIngest(q, v)
      PROVE  TypeInv'
  <2>1. [step |-> "count", record |-> v, row |-> None, id |-> NoIncident] \in Making
    BY DEF Making, MakingSteps
  <2>2. making' \in [Creators -> Making \cup {None}]
    BY <1>1, <2>1 DEF TypeOK, BeginIngest
  <2>3. TypeOK' BY <1>1, <2>2 DEF TypeOK, BeginIngest, rows
  <2>4. MakingOK' BY <1>1 DEF TypeOK, MakingOK, BeginIngest
  <2>5. RequestsOK' /\ Present' BY <1>1 DEF RequestsOK, Present, BeginIngest, rows
  <2> QED BY <2>3, <2>4, <2>5
<1>2. ASSUME NEW v \in Records, BeginPromote(q, v)
      PROVE  TypeInv'
  <2>1. [step |-> "count", record |-> v, row |-> vr[v], id |-> NoIncident] \in Making
    BY <1>2 DEF Making, MakingSteps, BeginPromote, TypeOK
  <2>2. making' \in [Creators -> Making \cup {None}]
    BY <1>2, <2>1 DEF TypeOK, BeginPromote
  <2>3. TypeOK' BY <1>2, <2>2 DEF TypeOK, BeginPromote, rows
  <2>4. MakingOK' BY <1>2 DEF TypeOK, MakingOK, BeginPromote
  <2>5. RequestsOK' /\ Present' BY <1>2 DEF RequestsOK, Present, BeginPromote, rows
  <2> QED BY <2>3, <2>4, <2>5
<1>3. ASSUME CountIncidents(q)
      PROVE  TypeInv'
  <2>1. PICK next \in IncidentIds : making' = [making EXCEPT ![q].step = "insert", ![q].id = next]
    BY <1>3 DEF CountIncidents
  <2>2. making[q] \in Making BY <1>3 DEF CountIncidents, Making_, TypeOK
  <2>3. making' \in [Creators -> Making \cup {None}] /\ making'[q].id = next
    BY <2>1, <2>2 DEF TypeOK, Making, MakingSteps
  <2>4. TypeOK' BY <1>3, <2>3 DEF TypeOK, CountIncidents, rows
  <2>5. MakingOK' BY <2>1, <2>3 DEF TypeOK, MakingOK
  <2>6. RequestsOK' /\ Present' BY <1>3 DEF RequestsOK, Present, CountIncidents, rows
  <2> QED BY <2>4, <2>5, <2>6
<1>4. ASSUME InsertIncident(q)
      PROVE  TypeInv'
  <2>1. making[q] \in Making /\ making[q].id \in IncidentIds
    BY <1>4 DEF InsertIncident, Making_, TypeOK, MakingOK
  <2>2. Ingested(making[q].record) \in Incident
    BY <2>1 DEF Ingested, Incident, Making, IncidentStatuses
  <2>3. PICK next \in MakingSteps : making' = [making EXCEPT ![q].step = next]
    BY <1>4 DEF InsertIncident, MakingSteps
  <2>4. making' \in [Creators -> Making \cup {None}] /\ making'[q].id = making[q].id
    BY <2>1, <2>3 DEF TypeOK, Making
  <2>5. incident' \in [IncidentIds -> Incident \cup {None}]
        /\ \A i \in IncidentIds : incident[i] \in Incident => incident'[i] \in Incident
    BY <1>4, <2>1, <2>2 DEF TypeOK, InsertIncident
  <2>6. TypeOK' BY <1>4, <2>4, <2>5 DEF TypeOK, InsertIncident
  <2>7. MakingOK' BY <2>1, <2>3, <2>4 DEF TypeOK, MakingOK
  <2>8. RequestsOK' BY <1>4 DEF RequestsOK, InsertIncident
  <2>9. Present' BY <1>4, <2>5 DEF RequestsOK, RequestOK, Present, InsertIncident
  <2> QED BY <2>6, <2>7, <2>8, <2>9
<1>5. ASSUME StoreSnapshot(q)
      PROVE  TypeInv'
  <2>1. making[q] \in Making /\ making[q].id \in IncidentIds
    BY <1>5 DEF StoreSnapshot, Making_, TypeOK, MakingOK
  <2>2. PICK next \in MakingSteps : making' = [making EXCEPT ![q].step = next]
    BY <1>5 DEF StoreSnapshot, MakingSteps
  <2>3. making' \in [Creators -> Making \cup {None}] /\ making'[q].id = making[q].id
    BY <2>1, <2>2 DEF TypeOK, Making
  <2>4. snapshot' \in [IncidentIds -> Records \cup {None}]
    BY <1>5, <2>1 DEF TypeOK, StoreSnapshot, Making
  <2>5. TypeOK' BY <1>5, <2>3, <2>4 DEF TypeOK, StoreSnapshot
  <2>6. MakingOK' BY <2>1, <2>2, <2>3 DEF TypeOK, MakingOK
  <2>7. RequestsOK' /\ Present' BY <1>5 DEF RequestsOK, Present, StoreSnapshot
  <2> QED BY <2>5, <2>6, <2>7
<1>6. ASSUME LinkRecord(q)
      PROVE  TypeInv'
  <2>1. making[q] \in Making /\ making[q].id \in IncidentIds
    BY <1>6 DEF LinkRecord, Making_, TypeOK, MakingOK
  <2>2. [label |-> IF making[q].row = None THEN None ELSE making[q].row.label,
         promoted |-> making[q].id] \in VerificationRecord
    BY <2>1 DEF Making, VerificationRecord
  <2>3. vr' \in [Records -> VerificationRecord \cup {None}]
    BY <1>6, <2>1, <2>2 DEF TypeOK, LinkRecord, Making
  <2>4. TypeOK' BY <1>6, <2>3 DEF TypeOK, LinkRecord
  <2>5. MakingOK' BY <1>6 DEF TypeOK, MakingOK, LinkRecord
  <2>6. RequestsOK' /\ Present' BY <1>6 DEF RequestsOK, Present, LinkRecord
  <2> QED BY <2>4, <2>5, <2>6
<1>7. ASSUME AbortMaking(q)
      PROVE  TypeInv'
  <2>1. TypeOK' BY <1>7 DEF TypeOK, AbortMaking, rows
  <2>2. MakingOK' BY <1>7 DEF TypeOK, MakingOK, AbortMaking
  <2>3. RequestsOK' /\ Present' BY <1>7 DEF RequestsOK, Present, AbortMaking, rows
  <2> QED BY <2>1, <2>2, <2>3
<1>8. QED BY <1>1, <1>2, <1>3, <1>4, <1>5, <1>6, <1>7 DEF MakingStep

\* A request that moves on while incidents stay as they are.
LEMMA MoveType ==
    ASSUME TypeInv, NEW k \in Requests, NEW r \in Request, RequestOK(r), r.step # "read_back",
           req' = [req EXCEPT ![k] = r], incident' = incident
    PROVE  req' \in [Requests -> Request] /\ RequestsOK' /\ Present'
<1>1. req' \in [Requests -> Request] /\ RequestsOK'
      /\ req'[k] = r /\ \A j \in Requests \ {k} : req'[j] = req[j]
  BY RequestMoves DEF TypeInv
<1>2. Present'
  BY <1>1 DEF TypeInv, Present
<1>3. QED BY <1>1, <1>2

\* The steps of the record loop keep the types.
LEMMA RecordStepType ==
    ASSUME TypeInv, NEW k \in Requests, RecordStep(k)
    PROVE  TypeInv'
<1>0. /\ req[k] \in Request /\ RequestOK(req[k])
      /\ \A v \in Records : vr[v] # None => vr[v] \in VerificationRecord
  BY DEF TypeInv, TypeOK, RequestsOK
<1>1. ASSUME NEW v \in Records, BeginLabel(k, v)
      PROVE  TypeInv'
  <2>1. PICK label \in Labels \cup {vr[v].label} :
           req' = [req EXCEPT ![k].step = "label", ![k].record = v, ![k].row = [vr[v] EXCEPT !.label = label]]
    BY <1>1 DEF BeginLabel
  <2> DEFINE r == [req[k] EXCEPT !.step = "label", !.record = v, !.row = [vr[v] EXCEPT !.label = label]]
  <2>2. [vr[v] EXCEPT !.label = label] \in VerificationRecord
    BY <1>0, <1>1 DEF BeginLabel, VerificationRecord
  <2>3. r \in Request /\ RequestOK(r) /\ r.step # "read_back"
    BY <1>0, <2>2 DEF Request, RequestOK, Steps
  <2>4. req' = [req EXCEPT ![k] = r]
    BY <2>1 DEF TypeInv, TypeOK
  <2>5. req' \in [Requests -> Request] /\ RequestsOK' /\ Present'
    BY <1>1, <2>3, <2>4, MoveType DEF BeginLabel, rows
  <2>6. QED BY <1>1, <2>5 DEF TypeInv, TypeOK, MakingOK, BeginLabel, Accept, rows
<1>2. ASSUME NEW v \in Records, BeginReplay(k, v)
      PROVE  TypeInv'
  <2>1. PICK status \in ReplayOutcomes(v) :
           req' = [req EXCEPT ![k].step = "save", ![k].record = v, ![k].row = vr[v],
                              ![k].target = IF status = "incomplete" THEN NoIncident ELSE vr[v].promoted,
                              ![k].result = [of |-> "replay", value |-> status]]
    BY <1>2 DEF BeginReplay
  <2> DEFINE r == [req[k] EXCEPT !.step = "save", !.record = v, !.row = vr[v],
                                 !.target = IF status = "incomplete" THEN NoIncident ELSE vr[v].promoted,
                                 !.result = [of |-> "replay", value |-> status]]
  <2>2. status \in RunStatuses
    BY DEF ReplayOutcomes, ReplaySnapshot, RunStatuses
  <2>3. [of |-> "replay", value |-> status] \in Result
    BY <2>2 DEF Result
  <2>4. vr[v] \in VerificationRecord /\ vr[v].promoted \in IncidentIds \cup {NoIncident}
    BY <1>0, <1>2 DEF BeginReplay, VerificationRecord
  <2>5. (IF status = "incomplete" THEN NoIncident ELSE vr[v].promoted) \in IncidentIds \cup {NoIncident}
    BY <2>4
  <2>6. r \in Request /\ RequestOK(r) /\ r.step # "read_back"
    <3> DEFINE target == IF status = "incomplete" THEN NoIncident ELSE vr[v].promoted
               result == [of |-> "replay", value |-> status]
    <3>1. target \in IncidentIds \cup {NoIncident} /\ result \in Result
      BY <2>3, <2>5
    <3>2. r = [req[k] EXCEPT !.step = "save", !.record = v, !.row = vr[v], !.target = target, !.result = result]
      OBVIOUS
    <3> HIDE DEF target, result, r
    <3>3. QED BY <1>0, <2>4, <3>1, <3>2 DEF Request, RequestOK, Steps
  <2>7. req' = [req EXCEPT ![k] = r]
    BY <2>1 DEF TypeInv, TypeOK
  <2>8. req' \in [Requests -> Request] /\ RequestsOK' /\ Present'
    BY <1>2, <2>6, <2>7, MoveType DEF BeginReplay, rows
  <2>9. QED BY <1>2, <2>8 DEF TypeInv, TypeOK, MakingOK, BeginReplay, Accept, rows
<1>3. ASSUME NEW v \in Records, NEW step \in {"check_run", "check_test"}, BeginRecord(k, v, step)
      PROVE  TypeInv'
  <2> DEFINE r == [req[k] EXCEPT !.step = step, !.record = v, !.row = vr[v], !.target = vr[v].promoted]
  <2>1. vr[v] \in VerificationRecord /\ vr[v].promoted \in IncidentIds \cup {NoIncident}
    BY <1>0, <1>3 DEF BeginRecord, VerificationRecord
  <2>2. r \in Request /\ RequestOK(r) /\ r.step # "read_back"
    BY <1>0, <2>1 DEF Request, RequestOK, Steps
  <2>3. req' = [req EXCEPT ![k] = r]
    BY <1>3 DEF BeginRecord, TypeInv, TypeOK
  <2>4. req' \in [Requests -> Request] /\ RequestsOK' /\ Present'
    BY <1>3, <2>2, <2>3, MoveType DEF BeginRecord, rows
  <2>5. QED BY <1>3, <2>4 DEF TypeInv, TypeOK, MakingOK, BeginRecord, Accept, rows
<1>4. ASSUME SaveLabel(k)
      PROVE  TypeInv'
  <2>1. vr' \in [Records -> VerificationRecord \cup {None}]
    BY <1>0, <1>4 DEF SaveLabel, RequestOK, Request, TypeInv, TypeOK
  <2>2. req' \in [Requests -> Request] /\ RequestsOK' /\ Present'
    BY <1>4, AnswerType DEF SaveLabel, Answer
  <2>3. QED BY <1>4, <2>1, <2>2 DEF TypeInv, TypeOK, MakingOK, SaveLabel
<1>5. ASSUME CheckRun(k)
      PROVE  TypeInv'
  <2>1. req' \in [Requests -> Request] /\ RequestsOK' /\ Present'
    <3>1. CASE Answer(k)
      BY <1>5, <3>1, AnswerType DEF CheckRun, rows
    <3>2. CASE ~Answer(k)
      <4> DEFINE v == req[k].record
      <4>1. PICK fix \in Fixes, expected \in Submitted \cup ({req[k].row.label} \ {None}) :
               \E test \in {RunMutation(v, fix, expected), [fix |-> fix, expected |-> expected, verdict |-> "error"]} :
                  Found(k, "save", [of |-> "test", value |-> test])
        BY <1>5, <3>2 DEF CheckRun
      <4>2. PICK test \in {RunMutation(v, fix, expected), [fix |-> fix, expected |-> expected, verdict |-> "error"]} :
               Found(k, "save", [of |-> "test", value |-> test])
        BY <4>1
      <4>3. expected \in Outcomes
        BY <1>0, <1>5, ConstantsAssumption DEF CheckRun, RequestOK, VerificationRecord
      <4>4. test \in MutationTest
        BY <4>3 DEF RunMutation, MutationTest, Verdicts
      <4> DEFINE r == [req[k] EXCEPT !.step = "save", !.result = [of |-> "test", value |-> test]]
      <4>5. [of |-> "test", value |-> test] \in Result
        BY <4>4 DEF Result
      <4>6. r \in Request /\ RequestOK(r) /\ r.step # "read_back"
        BY <1>0, <4>5 DEF Request, RequestOK, Steps
      <4>7. req' = [req EXCEPT ![k] = r]
        BY <4>2 DEF Found, TypeInv, TypeOK
      <4>8. QED BY <1>5, <4>6, <4>7, MoveType DEF CheckRun, rows
    <3>3. QED BY <3>1, <3>2
  <2>2. QED BY <1>5, <2>1 DEF TypeInv, TypeOK, MakingOK, CheckRun, rows
<1>6. ASSUME CheckTest(k)
      PROVE  TypeInv'
  <2>1. req' \in [Requests -> Request] /\ RequestsOK' /\ Present'
    <3>1. CASE Answer(k)
      BY <1>6, <3>1, AnswerType DEF CheckTest, rows
    <3>2. CASE ~Answer(k)
      <4> DEFINE v == req[k].record
                 c == [loop |-> "record", claim |-> [record |-> v, fix |-> Last(tests[v]).fix,
                                                     expected |-> Last(tests[v]).expected]]
                 r == [req[k] EXCEPT !.step = "save", !.result = [of |-> "certificate", value |-> c]]
      <4>1. tests[v] # <<>> /\ req' = [req EXCEPT ![k].step = "save", ![k].result = [of |-> "certificate", value |-> c]]
        BY <1>6, <3>2 DEF CheckTest, Found
      <4>2. v \in Records /\ tests[v] \in Seq(MutationTest)
        BY <1>0 DEF Request, TypeInv, TypeOK
      <4>3. Last(tests[v]) \in MutationTest
        BY <4>1, <4>2 DEF Last
      <4>4. c \in Certificate
        BY <4>2, <4>3 DEF Certificate, Claim, Loops, MutationTest
      <4>5. [of |-> "certificate", value |-> c] \in Result
        BY <4>4 DEF Result
      <4> HIDE DEF c
      <4>6. r \in Request /\ RequestOK(r) /\ r.step # "read_back"
        BY <1>0, <4>5 DEF Request, RequestOK, Steps
      <4>7. req' = [req EXCEPT ![k] = r]
        BY <4>1 DEF TypeInv, TypeOK
      <4>8. QED BY <1>6, <4>6, <4>7, MoveType DEF CheckTest, rows
    <3>3. QED BY <3>1, <3>2
  <2>2. QED BY <1>6, <2>1 DEF TypeInv, TypeOK, MakingOK, CheckTest, rows
<1>7. ASSUME Save(k)
      PROVE  TypeInv'
  <2>1. req[k].result \in Result /\ req[k].record \in Records
    BY <1>0, <1>7 DEF Save, RequestOK, Request
  <2>2. /\ runs' \in [Records -> Seq(RunStatuses)] /\ tests' \in [Records -> Seq(MutationTest)]
        /\ proofs' \subseteq Claim
    <3>1. CASE req[k].result.of = "replay"
      <4>1. req[k].result.value \in RunStatuses BY <2>1, <3>1 DEF Result
      <4>2. Append(runs[req[k].record], req[k].result.value) \in Seq(RunStatuses)
        BY <2>1, <4>1 DEF TypeInv, TypeOK
      <4>3. QED BY <1>7, <2>1, <3>1, <4>2 DEF Save, SaveRow, TypeInv, TypeOK
    <3>2. CASE req[k].result.of = "test"
      <4>1. req[k].result.value \in MutationTest BY <2>1, <3>2 DEF Result
      <4>2. Append(tests[req[k].record], req[k].result.value) \in Seq(MutationTest)
        BY <2>1, <4>1 DEF TypeInv, TypeOK
      <4>3. QED BY <1>7, <2>1, <3>2, <4>2 DEF Save, SaveRow, TypeInv, TypeOK
    <3>3. CASE req[k].result.of = "certificate"
      <4>1. req[k].result.value.claim \in Claim BY <2>1, <3>3 DEF Result, Certificate
      <4>2. QED BY <1>7, <3>3, <4>1 DEF Save, SaveRow, TypeInv, TypeOK
    <3>4. QED BY <2>1, <3>1, <3>2, <3>3 DEF Result
  <2>3. req' \in [Requests -> Request] /\ RequestsOK' /\ Present'
    <3>1. CASE req[k].target = NoIncident
      BY <1>7, <3>1, AnswerType DEF Save
    <3>2. CASE req[k].target # NoIncident
      <4> DEFINE r == [req[k] EXCEPT !.step = "fetch"]
      <4>1. r \in Request /\ RequestOK(r) /\ r.step # "read_back"
        BY <1>0, <1>7, <3>2 DEF Save, Request, RequestOK, Steps
      <4>2. req' = [req EXCEPT ![k] = r]
        BY <1>7, <3>2 DEF Save, TypeInv, TypeOK
      <4>3. QED BY <1>7, <4>1, <4>2, MoveType DEF Save
    <3>3. QED BY <3>1, <3>2
  <2>4. QED BY <1>7, <2>2, <2>3 DEF TypeInv, TypeOK, MakingOK, Save
<1>8. ASSUME FetchIncident(k)
      PROVE  TypeInv'
  <2>1. req' \in [Requests -> Request] /\ RequestsOK' /\ Present'
    <3>1. CASE incident[req[k].target] = None
      BY <1>8, <3>1, AnswerType DEF FetchIncident, rows
    <3>2. CASE incident[req[k].target] # None
      <4> DEFINE row == Apply(incident[req[k].target], "record", req[k].result)
                 r == [req[k] EXCEPT !.step = "write", !.copy = row]
      <4>1. incident[req[k].target] \in Incident /\ req[k].result \in Result
        BY <1>0, <1>8, <3>2 DEF FetchIncident, RequestOK, TypeInv, TypeOK
      <4>2. row \in Incident
        BY <4>1, ApplyType DEF Loops
      <4> HIDE DEF row
      <4>3. r \in Request /\ RequestOK(r) /\ r.step # "read_back"
        BY <1>0, <1>8, <4>2 DEF FetchIncident, Request, RequestOK, Steps
      <4>4. req' = [req EXCEPT ![k] = r]
        BY <1>8, <3>2 DEF FetchIncident, TypeInv, TypeOK, row
      <4>5. QED BY <1>8, <4>3, <4>4, MoveType DEF FetchIncident, rows
    <3>3. QED BY <3>1, <3>2
  <2>2. QED BY <1>8, <2>1 DEF TypeInv, TypeOK, MakingOK, FetchIncident, rows
<1>9. QED BY <1>1, <1>2, <1>3, <1>4, <1>5, <1>6, <1>7, <1>8 DEF RecordStep, BeginMutation, BeginProof

\* The steps of the incident loop keep the types.
LEMMA IncidentStepType ==
    ASSUME TypeInv, NEW k \in Requests, IncidentStep(k)
    PROVE  TypeInv'
<1>0. /\ req[k] \in Request /\ RequestOK(req[k])
      /\ \A i \in IncidentIds : incident[i] # None => incident[i] \in Incident
  BY DEF TypeInv, TypeOK, RequestsOK
<1>1. ASSUME NEW i \in IncidentIds, NEW step \in {"load_replay", "load_test"}, BeginIncident(k, i, step)
      PROVE  TypeInv'
  <2> DEFINE r == [req[k] EXCEPT !.step = step, !.loop = "incident", !.target = i,
                                 !.record = incident[i].record, !.copy = incident[i]]
  <2>1. incident[i] \in Incident /\ incident[i].record \in Records
    BY <1>0, <1>1 DEF BeginIncident, Incident
  <2>2. r \in Request /\ RequestOK(r) /\ r.step # "read_back"
    BY <1>0, <2>1 DEF Request, RequestOK, Steps, Loops
  <2>3. req' = [req EXCEPT ![k] = r]
    BY <1>1 DEF BeginIncident, TypeInv, TypeOK
  <2>4. req' \in [Requests -> Request] /\ RequestsOK' /\ Present'
    BY <1>1, <2>2, <2>3, MoveType DEF BeginIncident, rows
  <2>5. QED BY <1>1, <2>4 DEF TypeInv, TypeOK, MakingOK, BeginIncident, Accept, rows
<1>2. ASSUME LoadAndReplay(k)
      PROVE  TypeInv'
  <2>1. req' \in [Requests -> Request] /\ RequestsOK' /\ Present'
    <3>1. CASE Answer(k)
      BY <1>2, <3>1, AnswerType DEF LoadAndReplay, rows
    <3>2. CASE ~Answer(k)
      <4> DEFINE result == [of |-> "replay", value |-> ReplaySnapshot(snapshot[req[k].target])]
                 row == Apply(req[k].copy, "incident", result)
                 r == [req[k] EXCEPT !.step = "write", !.result = result, !.copy = row]
      <4>1. result \in Result
        BY DEF Result, RunStatuses, ReplaySnapshot
      <4>2. req' = [req EXCEPT ![k].step = "write", ![k].result = result, ![k].copy = Apply(@, "incident", result)]
        BY <1>2, <3>2 DEF LoadAndReplay
      <4> HIDE DEF result
      <4>3. row \in Incident
        BY <1>0, <1>2, <4>1, ApplyType DEF LoadAndReplay, RequestOK, Loops
      <4>4. req' = [req EXCEPT ![k] = r]
        BY <4>2 DEF TypeInv, TypeOK
      <4> HIDE DEF row
      <4>5. r \in Request /\ RequestOK(r) /\ r.step # "read_back"
        BY <1>0, <1>2, <4>1, <4>3 DEF LoadAndReplay, Request, RequestOK, Steps
      <4>6. QED BY <1>2, <4>4, <4>5, MoveType DEF LoadAndReplay, rows
    <3>3. QED BY <3>1, <3>2
  <2>2. QED BY <1>2, <2>1 DEF TypeInv, TypeOK, MakingOK, LoadAndReplay, rows
<1>3. ASSUME LoadAndTest(k)
      PROVE  TypeInv'
  <2>1. req' \in [Requests -> Request] /\ RequestsOK' /\ Present'
    <3>1. CASE Answer(k)
      BY <1>3, <3>1, AnswerType DEF LoadAndTest, rows
    <3>2. CASE ~Answer(k)
      <4>1. PICK fix \in Fixes, expected \in Submitted \cup LabelsOf(req[k].target) :
               LET result == [of |-> "test", value |-> RunMutation(snapshot[req[k].target], fix, expected)]
               IN  req' = [req EXCEPT ![k].step = "write", ![k].result = result,
                                      ![k].copy = Apply(@, "incident", result)]
        BY <1>3, <3>2 DEF LoadAndTest
      <4> DEFINE result == [of |-> "test", value |-> RunMutation(snapshot[req[k].target], fix, expected)]
                 row == Apply(req[k].copy, "incident", result)
                 r == [req[k] EXCEPT !.step = "write", !.result = result, !.copy = row]
      <4>2. expected \in Outcomes
        BY ConstantsAssumption DEF LabelsOf, TypeInv, TypeOK, VerificationRecord
      <4>3. result \in Result
        BY <4>2 DEF Result, MutationTest, Verdicts, RunMutation
      <4> HIDE DEF result
      <4>4. row \in Incident
        BY <1>0, <1>3, <4>3, ApplyType DEF LoadAndTest, RequestOK, Loops
      <4>5. req' = [req EXCEPT ![k] = r]
        BY <4>1 DEF TypeInv, TypeOK, result
      <4> HIDE DEF row
      <4>6. r \in Request /\ RequestOK(r) /\ r.step # "read_back"
        BY <1>0, <1>3, <4>3, <4>4 DEF LoadAndTest, Request, RequestOK, Steps
      <4>7. QED BY <1>3, <4>5, <4>6, MoveType DEF LoadAndTest, rows
    <3>3. QED BY <3>1, <3>2
  <2>2. QED BY <1>3, <2>1 DEF TypeInv, TypeOK, MakingOK, LoadAndTest, rows
<1>4. ASSUME NEW i \in IncidentIds, BeginIncidentProof(k, i)
      PROVE  TypeInv'
  <2> DEFINE claim == [record |-> incident[i].record, fix |-> incident[i].mutation.fix,
                       expected |-> incident[i].mutation.expected]
             result == [of |-> "certificate", value |-> [loop |-> "incident", claim |-> claim]]
             row == Apply(incident[i], "incident", result)
             r == [step |-> "read_back", loop |-> "incident", record |-> incident[i].record,
                   row |-> None, target |-> i, copy |-> row, reread |-> None, result |-> result]
  <2>1. req' = [req EXCEPT ![k] = r]
    BY <1>4 DEF BeginIncidentProof
  <2>2. incident[i] \in Incident /\ incident[i].mutation \in MutationTest /\ incident[i].record \in Records
    BY <1>0, <1>4 DEF BeginIncidentProof, Incident
  <2>3. claim \in Claim
    BY <2>2 DEF Claim, MutationTest
  <2> HIDE DEF claim
  <2>4. result \in [of : {"certificate"}, value : Certificate]
    BY <2>3 DEF Certificate, Loops
  <2>5. result \in Result
    BY <2>4 DEF Result
  <2> HIDE DEF result
  <2>6. row \in Incident
    BY <2>2, <2>5, ApplyType DEF Loops
  <2> HIDE DEF row
  <2>7. r \in Request /\ RequestOK(r)
    BY <2>2, <2>4, <2>5, <2>6 DEF Request, RequestOK, Steps, Loops
  <2>8. /\ req' \in [Requests -> Request] /\ RequestsOK'
        /\ req'[k] = r /\ \A j \in Requests \ {k} : req'[j] = req[j]
    BY <2>1, <2>7, RequestMoves DEF TypeInv
  <2>9. Present'
    BY <1>4, <2>2, <2>8 DEF TypeInv, Present, BeginIncidentProof, rows
  <2>10. QED BY <1>4, <2>8, <2>9 DEF TypeInv, TypeOK, MakingOK, BeginIncidentProof, Accept, rows
<1>5. ASSUME Write(k)
      PROVE  TypeInv'
  <2>1. req[k].target \in IncidentIds /\ req[k].copy \in Incident /\ req[k].result \in Result
    BY <1>0, <1>5 DEF Write, RequestOK
  <2>2. /\ incident' \in [IncidentIds -> Incident \cup {None}]
        /\ incident'[req[k].target] \in Incident
        /\ \A i \in IncidentIds : incident[i] \in Incident => incident'[i] \in Incident
    BY <1>5, <2>1 DEF Write, TypeInv, TypeOK
  <2>3. PICK r \in Request : RequestOK(r) /\ r.target = (IF r = Idle THEN NoIncident ELSE req[k].target)
                            /\ req' = [req EXCEPT ![k] = r]
    <3>1. CASE req[k].step = "write" /\ req[k].loop = "incident" /\ req[k].result.of = "replay"
      <4> DEFINE r == [req[k] EXCEPT !.step = "write_again"]
      <4>1. r \in Request /\ RequestOK(r)
        BY <1>0, <1>5, <2>1, <3>1 DEF Request, RequestOK, Steps
      <4>2. r # Idle /\ r.target = req[k].target
        BY <1>0 DEF Idle, Request
      <4>3. req' = [req EXCEPT ![k] = r]
        BY <1>5, <3>1 DEF Write, TypeInv, TypeOK
      <4>4. QED BY <4>1, <4>2, <4>3
    <3>2. CASE req[k].loop = "record" /\ req[k].result.of = "certificate"
      <4> DEFINE r == [req[k] EXCEPT !.step = "read_back"]
      <4>1. req[k].result \in [of : {"certificate"}, value : Certificate]
        BY <2>1, <3>2 DEF Result
      <4>2. r \in Request /\ RequestOK(r)
        BY <1>0, <1>5, <2>1, <3>2, <4>1 DEF Request, RequestOK, Steps
      <4>3. r # Idle /\ r.target = req[k].target
        BY <1>0 DEF Idle, Request
      <4>4. req' = [req EXCEPT ![k] = r]
        BY <1>5, <3>2 DEF Write, TypeInv, TypeOK
      <4>5. QED BY <4>2, <4>3, <4>4
    <3>3. CASE Answer(k)
      BY <3>3, IdleType DEF Answer, Idle
    <3>4. QED BY <1>5, <3>1, <3>2, <3>3 DEF Write
  <2>4. /\ req' \in [Requests -> Request] /\ RequestsOK'
        /\ req'[k] = r /\ \A j \in Requests \ {k} : req'[j] = req[j]
    BY <2>3, RequestMoves DEF TypeInv
  <2>5. Present'
    BY <2>2, <2>3, <2>4, IdleType DEF TypeInv, Present, RequestsOK, RequestOK
  <2>6. QED BY <1>5, <2>2, <2>4, <2>5 DEF TypeInv, TypeOK, MakingOK, Write
<1>6. ASSUME ReadBack(k)
      PROVE  TypeInv'
  <2> DEFINE r == [req[k] EXCEPT !.step = "store", !.reread = incident[req[k].target]]
  <2>1. incident[req[k].target] \in Incident
    BY <1>6 DEF ReadBack, TypeInv, Present
  <2>2. r \in Request /\ RequestOK(r) /\ r.step # "read_back"
    BY <1>0, <1>6, <2>1 DEF ReadBack, Request, RequestOK, Steps
  <2>3. req' = [req EXCEPT ![k] = r]
    BY <1>6 DEF ReadBack, TypeInv, TypeOK
  <2>4. req' \in [Requests -> Request] /\ RequestsOK' /\ Present'
    BY <1>6, <2>2, <2>3, MoveType DEF ReadBack, rows
  <2>5. QED BY <1>6, <2>4 DEF TypeInv, TypeOK, MakingOK, ReadBack, rows
<1>7. ASSUME StoreCertificate(k)
      PROVE  TypeInv'
  <2> DEFINE row == [req[k].reread EXCEPT !.certificate = req[k].result.value]
  <2>1. /\ req[k].target \in IncidentIds /\ req[k].reread \in Incident
        /\ req[k].result \in [of : {"certificate"}, value : Certificate]
    BY <1>0, <1>7 DEF StoreCertificate, RequestOK
  <2>2. row \in Incident
    BY <2>1 DEF Incident
  <2>3. incident' = [incident EXCEPT ![req[k].target] = row]
    BY <1>7 DEF StoreCertificate
  <2> HIDE DEF row
  <2>4. /\ incident' \in [IncidentIds -> Incident \cup {None}]
        /\ \A i \in IncidentIds : incident[i] \in Incident => incident'[i] \in Incident
    BY <2>1, <2>2, <2>3 DEF TypeInv, TypeOK
  <2>5. PICK r \in Request : RequestOK(r) /\ r.step # "read_back" /\ req' = [req EXCEPT ![k] = r]
    <3>1. CASE req[k].loop = "incident"
      <4> DEFINE r == [req[k] EXCEPT !.step = "write"]
      <4>1. req[k].result \in Result
        BY <2>1 DEF Result
      <4>2. r \in Request /\ RequestOK(r) /\ r.step # "read_back"
        BY <1>0, <1>7, <2>1, <3>1, <4>1 DEF StoreCertificate, Request, RequestOK, Steps
      <4>3. req' = [req EXCEPT ![k] = r]
        BY <1>7, <3>1 DEF StoreCertificate, TypeInv, TypeOK
      <4>4. QED BY <4>2, <4>3
    <3>2. CASE req[k].loop # "incident"
      BY <1>7, <3>2, IdleType DEF StoreCertificate, Answer
    <3>3. QED BY <3>1, <3>2
  <2>6. /\ req' \in [Requests -> Request] /\ RequestsOK'
        /\ req'[k] = r /\ \A j \in Requests \ {k} : req'[j] = req[j]
    BY <2>5, RequestMoves DEF TypeInv
  <2>7. Present'
    BY <2>4, <2>5, <2>6 DEF TypeInv, Present, RequestsOK, RequestOK
  <2>8. QED BY <1>7, <2>4, <2>6, <2>7 DEF TypeInv, TypeOK, MakingOK, StoreCertificate
<1>8. QED BY <1>1, <1>2, <1>3, <1>4, <1>5, <1>6, <1>7
          DEF IncidentStep, BeginIncidentReplay, BeginIncidentMutation

\* Rows and the locals of requests are well formed, and every step finds in its
\* request what the steps before it put there.
LEMMA TypeNext == TypeInv /\ [Next]_vars => TypeInv'
<1> SUFFICES ASSUME TypeInv, [Next]_vars PROVE TypeInv' OBVIOUS
<1>1. ASSUME NEW v \in Records, Capture(v)
      PROVE  TypeInv'
  <2>1. [label |-> None, promoted |-> NoIncident] \in VerificationRecord
    BY DEF VerificationRecord
  <2>2. vr' \in [Records -> VerificationRecord \cup {None}]
    BY <1>1, <2>1 DEF Capture, TypeInv, TypeOK
  <2>3. QED BY <1>1, <2>2 DEF Capture, TypeInv, TypeOK, RequestsOK, MakingOK, Present
<1>2. ASSUME NEW k \in Requests, Abort(k)
      PROVE  TypeInv'
  <2>1. req' \in [Requests -> Request] /\ RequestsOK' /\ Present'
    BY <1>2, AnswerType DEF Abort, rows
  <2>2. QED BY <1>2, <2>1 DEF Abort, TypeInv, TypeOK, MakingOK, rows
<1>3. CASE UNCHANGED vars
  BY <1>3 DEF vars, rows, TypeInv, TypeOK, RequestsOK, MakingOK, Present
<1>4. QED BY <1>1, <1>2, <1>3, CreatorsType, RecordStepType, IncidentStepType DEF Next

\* Rows and the locals of requests are well formed.
THEOREM TypeCorrect == Spec => []TypeOK
<1>1. TypeInv => TypeOK BY DEF TypeInv
<1>2. QED BY <1>1, TypeInit, TypeNext, PTL DEF Spec

--------------------------------------------------------------------------------
(* Soundness: what is certified was verified, what is verified works. *)

Backed(v, test) ==
    test.verdict = "verified" => Works(v, test.fix, test.expected) /\ Replayed(v)

ResultBacked(r) ==
    r.step = "save" =>
        /\ r.result.of = "test" => Backed(r.record, r.result.value)
        /\ r.result.of = "certificate" =>
              r.result.value.claim \in Verified /\ CoreFlags(r.result.value.claim.record) = {}
ResultsBacked == \A k \in Requests : ResultBacked(req[k])
TestsBacked == \A v \in Records : \A n \in DOMAIN tests[v] : Backed(v, tests[v][n])
ProofsBacked == \A claim \in proofs : claim \in Verified /\ CoreFlags(claim.record) = {}
SoundInv == ResultsBacked /\ TestsBacked /\ ProofsBacked

\* Only these three actions find a result for the record loop.
LEMMA NewResults ==
    ASSUME TypeInv, [Next]_vars, NEW k \in Requests, req'[k].step = "save", req'[k] # req[k]
    PROVE  (\E v \in Records : BeginReplay(k, v)) \/ CheckRun(k) \/ CheckTest(k)
<1>0. req \in [Requests -> Request]
  BY DEF TypeInv, TypeOK
<1>1. PICK j \in Requests : RecordStep(j) \/ IncidentStep(j) \/ Abort(j)
  BY DEF Next, vars, rows, Capture, MakingStep, AbortMaking, BeginIngest, BeginPromote, CountIncidents,
         InsertIncident, StoreSnapshot, LinkRecord
<1> DEFINE Moves == req'[j].step # "save" /\ \A i \in Requests \ {j} : req'[i] = req[i]
<1>2. CASE Answer(j)
  BY <1>0, <1>2, IdleType DEF Answer
<1>3. ASSUME ~Answer(j), RecordStep(j)
      PROVE  Moves \/ (\E v \in Records : BeginReplay(j, v)) \/ CheckRun(j) \/ CheckTest(j)
  <2>1. ASSUME NEW v \in Records, BeginLabel(j, v) \/ BeginMutation(j, v) \/ BeginProof(j, v)
        PROVE  Moves
    BY <1>0, <2>1 DEF BeginLabel, BeginMutation, BeginProof, BeginRecord, Request
  <2>2. CASE SaveLabel(j) \/ Save(j) \/ FetchIncident(j)
    BY <1>0, <1>3, <2>2 DEF SaveLabel, Save, FetchIncident, Answer, Request
  <2>3. QED BY <1>3, <2>1, <2>2 DEF RecordStep
<1>4. ASSUME ~Answer(j), IncidentStep(j)
      PROVE  Moves
  <2>1. ASSUME NEW i \in IncidentIds, BeginIncidentReplay(j, i) \/ BeginIncidentMutation(j, i)
        PROVE  Moves
    BY <1>0, <2>1 DEF BeginIncidentReplay, BeginIncidentMutation, BeginIncident, Request
  <2>2. ASSUME NEW i \in IncidentIds, BeginIncidentProof(j, i)
        PROVE  Moves
    BY <1>0, <2>2 DEF BeginIncidentProof
  <2>3. CASE LoadAndReplay(j)
    BY <1>0, <1>4, <2>3 DEF LoadAndReplay, Request
  <2>4. CASE LoadAndTest(j)
    <3>1. PICK fix \in Fixes, expected \in Submitted \cup LabelsOf(req[j].target) :
             LET result == [of |-> "test", value |-> RunMutation(snapshot[req[j].target], fix, expected)]
             IN  req' = [req EXCEPT ![j].step = "write", ![j].result = result,
                                    ![j].copy = Apply(@, "incident", result)]
      BY <1>4, <2>4 DEF LoadAndTest
    <3>2. QED BY <1>0, <3>1 DEF Request
  <2>5. CASE Write(j)
    BY <1>0, <1>4, <2>5 DEF Write, Request
  <2>6. CASE ReadBack(j) \/ StoreCertificate(j)
    BY <1>0, <1>4, <2>6 DEF ReadBack, StoreCertificate, Request
  <2>7. QED BY <1>4, <2>1, <2>2, <2>3, <2>4, <2>5, <2>6 DEF IncidentStep
<1>5. ~Moves \/ j # k
  BY <1>0
<1>6. CASE j = k
  BY <1>0, <1>1, <1>2, <1>3, <1>4, <1>5, <1>6, IdleType DEF Abort, Answer
<1>7. CASE j # k
  <2>1. req'[k] = req[k]
    BY <1>0, <1>1, <1>2, <1>3, <1>4, <1>7, IdleType DEF Abort, BeginReplay, CheckRun, CheckTest, Found, Answer
  <2> QED BY <2>1
<1>8. QED BY <1>6, <1>7

\* The absent value is neither a certificate nor a test.
LEMMA NoneIsNoClaim == None \notin Certificate /\ None \notin MutationTest
  BY DEF None, Certificate, MutationTest

\* A step of the record loop that saves nothing keeps what was found.
LEMMA HistoryStays ==
    ASSUME TypeInv, [Next]_vars, ~\E k \in Requests : Save(k)
    PROVE  runs' = runs /\ tests' = tests /\ proofs' = proofs
<1>1. ASSUME NEW k \in Requests, RecordStep(k)
      PROVE  runs' = runs /\ tests' = tests /\ proofs' = proofs
  BY <1>1 DEF RecordStep, BeginLabel, BeginReplay, BeginMutation, BeginProof, BeginRecord, SaveLabel,
              CheckRun, CheckTest, FetchIncident, rows
<1>2. ASSUME NEW k \in Requests, IncidentStep(k)
      PROVE  runs' = runs /\ tests' = tests /\ proofs' = proofs
  <2>1. CASE \E i \in IncidentIds : BeginIncidentReplay(k, i) \/ BeginIncidentMutation(k, i) \/ BeginIncidentProof(k, i)
    BY <2>1 DEF BeginIncidentReplay, BeginIncidentMutation, BeginIncident, BeginIncidentProof, rows
  <2>2. CASE LoadAndReplay(k) \/ LoadAndTest(k)
    BY <2>2 DEF LoadAndReplay, LoadAndTest, rows
  <2>3. CASE Write(k) \/ ReadBack(k) \/ StoreCertificate(k)
    BY <2>3 DEF Write, ReadBack, StoreCertificate, rows
  <2>4. QED BY <1>2, <2>1, <2>2, <2>3 DEF IncidentStep
<1>3. ASSUME NEW q \in Creators, MakingStep(q) \/ AbortMaking(q)
      PROVE  runs' = runs /\ tests' = tests /\ proofs' = proofs
  BY <1>3 DEF MakingStep, AbortMaking, BeginIngest, BeginPromote, CountIncidents, InsertIncident,
              StoreSnapshot, LinkRecord, rows
<1>4. QED BY <1>1, <1>2, <1>3 DEF Next, Capture, Abort, vars, rows

\* Saving only appends: what was replayed or verified stays so.
LEMMA HistoryGrows ==
    ASSUME TypeInv, NEW k \in Requests, Save(k)
    PROVE  /\ \A v \in Records : Replayed(v) => Replayed(v)'
           /\ Verified \subseteq Verified'
<1>1. req[k].result \in Result /\ req[k].record \in Records
  BY DEF Save, TypeInv, TypeOK, RequestsOK, RequestOK, Request
<1> DEFINE u == req[k].record
           value == req[k].result.value
<1>2. CASE req[k].result.of = "replay"
  <2>1. tests' = tests /\ runs' = [runs EXCEPT ![u] = Append(runs[u], value)]
    BY <1>1, <1>2 DEF Save, SaveRow, Result
  <2>2. runs \in [Records -> Seq(RunStatuses)] /\ value \in RunStatuses
    BY <1>1, <1>2 DEF Result, TypeInv, TypeOK
  <2>3. \A v \in Records : \A n \in DOMAIN runs[v] : n \in DOMAIN runs'[v] /\ runs'[v][n] = runs[v][n]
    BY <1>1, <2>1, <2>2
  <2> QED BY <2>1, <2>3 DEF Replayed, Verified
<1>3. CASE req[k].result.of = "test"
  <2>1. runs' = runs /\ tests' = [tests EXCEPT ![u] = Append(tests[u], value)]
    BY <1>1, <1>3 DEF Save, SaveRow, Result
  <2>2. tests \in [Records -> Seq(MutationTest)] /\ value \in MutationTest
    BY <1>1, <1>3 DEF Result, TypeInv, TypeOK
  <2>3. \A v \in Records : \A n \in DOMAIN tests[v] : n \in DOMAIN tests'[v] /\ tests'[v][n] = tests[v][n]
    BY <1>1, <2>1, <2>2
  <2>4. Verified \subseteq Verified'
    BY <2>3 DEF Verified, Claim
  <2> QED BY <2>1, <2>4 DEF Replayed
<1>4. CASE req[k].result.of = "certificate"
  BY <1>1, <1>4 DEF Save, SaveRow, Result, Replayed, Verified
<1>5. QED BY <1>1, <1>2, <1>3, <1>4 DEF Result

\* Every step keeps what is recorded, and about to be recorded, backed by history.
LEMMA SoundNext ==
    ASSUME TypeInv, SoundInv, [Next]_vars
    PROVE  SoundInv'
<1>0. /\ req \in [Requests -> Request]
      /\ \A k \in Requests : req[k].record \in Records /\ RequestOK(req[k])
      /\ tests \in [Records -> Seq(MutationTest)]
  BY DEF TypeInv, TypeOK, RequestsOK, Request
<1>1. /\ \A v \in Records : Replayed(v) => Replayed(v)'
      /\ Verified \subseteq Verified'
  BY HistoryStays, HistoryGrows DEF Replayed, Verified
<1>2. \A v \in Records, test \in MutationTest : Backed(v, test) => Backed(v, test)'
  BY <1>1 DEF Backed
<1>3. ASSUME NEW k \in Requests, NEW r, r = req'[k], r.step = "save"
      PROVE  ResultBacked(r)'
  <2>1. CASE r = req[k]
    <3>1. ResultBacked(r) /\ r.record \in Records /\ r.result \in Result
      BY <1>0, <1>3, <2>1 DEF SoundInv, ResultsBacked, RequestOK
    <3>2. r.result.of = "test" => r.result.value \in MutationTest
      BY <3>1 DEF Result
    <3>3. r.result.of = "test" => Backed(r.record, r.result.value)'
      BY <1>2, <1>3, <3>1, <3>2 DEF ResultBacked
    <3>4. r.result.of = "certificate" =>
             r.result.value.claim \in Verified' /\ CoreFlags(r.result.value.claim.record) = {}
      BY <1>1, <1>3, <3>1 DEF ResultBacked
    <3>5. QED BY <3>3, <3>4 DEF ResultBacked, CoreFlags
  <2>2. ASSUME NEW v \in Records, BeginReplay(k, v)
        PROVE  ResultBacked(r)'
    <3>1. r.result.of = "replay"
      BY <1>0, <1>3, <2>2 DEF BeginReplay, Request
    <3>2. QED BY <3>1 DEF ResultBacked
  <2>3. ASSUME CheckRun(k)
        PROVE  ResultBacked(r)'
    <3>0. PICK v \in Records : v = req[k].record
      BY <1>0
    <3>1. ~Answer(k)
      BY <1>0, <1>3, IdleType DEF Answer
    <3>2. /\ runs[v] # <<>> /\ Last(runs[v]) = "replayed"
          /\ \E fix \in Fixes, expected \in Submitted \cup ({req[k].row.label} \ {None}) :
               \E test \in {RunMutation(v, fix, expected), [fix |-> fix, expected |-> expected, verdict |-> "error"]} :
                  Found(k, "save", [of |-> "test", value |-> test])
      BY <2>3, <3>0, <3>1 DEF CheckRun
    <3>3. PICK fix \in Fixes, expected \in Submitted \cup ({req[k].row.label} \ {None}) :
             \E test \in {RunMutation(v, fix, expected), [fix |-> fix, expected |-> expected, verdict |-> "error"]} :
                Found(k, "save", [of |-> "test", value |-> test])
      BY <3>2
    <3>4. PICK test \in {RunMutation(v, fix, expected), [fix |-> fix, expected |-> expected, verdict |-> "error"]} :
             Found(k, "save", [of |-> "test", value |-> test])
      BY <3>3
    <3>5. r.result = [of |-> "test", value |-> test] /\ r.record = v /\ v \in Records
      BY <1>0, <1>3, <3>0, <3>4 DEF Found, Request
    <3>6. Replayed(v)
      <4>1. runs[v] \in Seq(RunStatuses)
        BY DEF TypeInv, TypeOK
      <4>2. Len(runs[v]) \in DOMAIN runs[v]
        BY <3>2, <4>1
      <4>3. QED BY <3>2, <4>2 DEF Replayed, Last
    <3>7. Backed(v, test)
      BY <3>6 DEF Backed, RunMutation
    <3>8. test.verdict = "verified" => Works(v, test.fix, test.expected) /\ Replayed(v)'
      BY <1>1, <3>5, <3>7 DEF Backed
    <3>9. Backed(r.record, r.result.value)'
      BY <3>5, <3>8 DEF Backed, Works
    <3>10. QED BY <3>5, <3>9 DEF ResultBacked
  <2>4. ASSUME CheckTest(k)
        PROVE  ResultBacked(r)'
    <3>0. PICK v, test, claim :
             /\ v \in Records /\ v = req[k].record /\ test = Last(tests[v])
             /\ claim = [record |-> v, fix |-> test.fix, expected |-> test.expected]
      BY <1>0
    <3>1. ~Answer(k)
      BY <1>0, <1>3, IdleType DEF Answer
    <3>2. /\ tests[v] # <<>> /\ test.verdict = "verified" /\ CoreFlags(v) = {}
          /\ Found(k, "save", [of |-> "certificate", value |-> [loop |-> "record", claim |-> claim]])
      BY <2>4, <3>0, <3>1 DEF CheckTest
    <3>3. r.result = [of |-> "certificate", value |-> [loop |-> "record", claim |-> claim]] /\ v \in Records
      BY <1>0, <1>3, <3>0, <3>2 DEF Found, Request
    <3>4. Len(tests[v]) \in DOMAIN tests[v] /\ test \in MutationTest
      BY <1>0, <3>0, <3>2, <3>3 DEF Last
    <3>5. tests[v][Len(tests[v])] = [fix |-> claim.fix, expected |-> claim.expected, verdict |-> "verified"]
      BY <3>0, <3>2, <3>4 DEF Last, MutationTest
    <3>6. claim \in Claim
      BY <3>0, <3>3, <3>4 DEF Claim, MutationTest
    <3>7. claim \in Verified
      BY <3>0, <3>4, <3>5, <3>6 DEF Verified
    <3>8. claim \in Verified'
      BY <1>1, <3>7
    <3>9. r.result.of # "test" /\ r.result.value.claim = claim /\ claim.record = v
      BY <3>0, <3>3
    <3>10. CoreFlags(r.result.value.claim.record) = {}
      BY <3>2, <3>9
    <3>11. QED BY <3>8, <3>9, <3>10 DEF ResultBacked, CoreFlags
  <2>5. QED BY <1>3, <2>1, <2>2, <2>3, <2>4, NewResults
<1>4. ResultsBacked'
  <2>1. ASSUME NEW k \in Requests, NEW r, r = req'[k]
        PROVE  ResultBacked(r)'
    BY <1>3, <2>1 DEF ResultBacked
  <2>2. QED BY <2>1 DEF ResultsBacked, ResultBacked, Backed, Replayed, Verified
<1>5. TestsBacked'
  <2>1. ASSUME NEW v \in Records, NEW n, n \in DOMAIN tests'[v], NEW test, test = tests'[v][n]
        PROVE  Backed(v, test)'
    <3>1. CASE n \in DOMAIN tests[v] /\ test = tests[v][n]
      BY <1>0, <1>2, <3>1 DEF SoundInv, TestsBacked
    <3>2. CASE ~(n \in DOMAIN tests[v] /\ test = tests[v][n])
      <4>1. tests' # tests
        BY <2>1, <3>2
      <4>2. PICK k \in Requests : Save(k)
        BY <4>1, HistoryStays
      <4>3. PICK r \in Request : r = req[k]
        BY DEF TypeInv, TypeOK
      <4>4. r.result \in Result /\ r.record \in Records /\ ResultBacked(r) /\ r.step = "save"
        BY <1>0, <4>2, <4>3 DEF Save, RequestOK, SoundInv, ResultsBacked
      <4>5. r.result.of = "test" /\ tests' = [tests EXCEPT ![r.record] = Append(tests[r.record], r.result.value)]
        BY <4>1, <4>2, <4>3 DEF Save, SaveRow
      <4>6. r.result.value \in MutationTest
        BY <4>4, <4>5 DEF Result
      <4>7. v = r.record /\ test = r.result.value
        BY <1>0, <2>1, <3>2, <4>4, <4>5, <4>6
      <4>8. Backed(v, test)
        BY <4>4, <4>5, <4>7 DEF ResultBacked
      <4>9. QED BY <1>2, <4>6, <4>7, <4>8
    <3>3. QED BY <3>1, <3>2
  <2>2. QED BY <2>1 DEF TestsBacked, Backed, Replayed
<1>6. ProofsBacked'
  <2>1. ASSUME NEW claim \in proofs'
        PROVE  claim \in Verified' /\ CoreFlags(claim.record) = {}
    <3>1. CASE claim \in proofs
      BY <1>1, <3>1 DEF SoundInv, ProofsBacked
    <3>2. CASE claim \notin proofs
      <4>1. PICK k \in Requests : Save(k)
        BY <3>2, HistoryStays
      <4>2. ResultBacked(req[k])
        BY DEF SoundInv, ResultsBacked
      <4>3. req[k].result.of = "certificate" /\ claim = req[k].result.value.claim /\ req[k].step = "save"
        BY <3>2, <4>1 DEF Save, SaveRow
      <4>4. QED BY <1>1, <4>2, <4>3 DEF ResultBacked
    <3>3. QED BY <3>1, <3>2
  <2>2. QED BY <2>1 DEF ProofsBacked, CoreFlags
<1>7. QED BY <1>4, <1>5, <1>6 DEF SoundInv

\* Initially there is nothing to back.
LEMMA SoundInit == Init => SoundInv
  BY IdleType DEF Init, SoundInv, ResultsBacked, ResultBacked, TestsBacked, ProofsBacked

\* What is backed by history is sound.
LEMMA SoundImplies ==
    ASSUME TypeInv, SoundInv
    PROVE  ProofIsSound
<1> SUFFICES ASSUME NEW claim \in proofs
             PROVE  Sound(claim) /\ Replayed(claim.record) /\ CoreFlags(claim.record) = {}
  BY DEF ProofIsSound
<1>1. claim \in Verified /\ CoreFlags(claim.record) = {}
  BY DEF SoundInv, ProofsBacked
<1>2. PICK n \in DOMAIN tests[claim.record] :
         tests[claim.record][n] = [fix |-> claim.fix, expected |-> claim.expected, verdict |-> "verified"]
  BY <1>1 DEF Verified
<1>3. claim.record \in Records
  BY <1>1 DEF Verified, Claim
<1>4. Backed(claim.record, tests[claim.record][n])
  BY <1>2, <1>3 DEF SoundInv, TestsBacked
<1>5. QED BY <1>1, <1>2, <1>4 DEF Backed, Sound

\* A certificate of the record loop states a fix that works, for a record that
\* was replayed and has no blocking limitation (issue_proof_of_mitigation).
THEOREM ProofSound == Spec => []ProofIsSound
<1>1. Init => TypeInv /\ SoundInv
  BY TypeInit, SoundInit
<1>2. TypeInv /\ SoundInv /\ [Next]_vars => TypeInv' /\ SoundInv'
  BY TypeNext, SoundNext
<1>3. TypeInv /\ SoundInv => ProofIsSound
  BY SoundImplies
<1>4. QED BY <1>1, <1>2, <1>3, PTL DEF Spec

--------------------------------------------------------------------------------
(* Refinement *)

\* Initial states map to initial states.
LEMMA AbstractInit == Init => Abstract!Init
<1> SUFFICES ASSUME Init PROVE Abstract!Init OBVIOUS
<1>1. \A v \in Records : DOMAIN runs[v] = {} /\ DOMAIN tests[v] = {}
  BY DEF Init
<1>2. \A v \in Records : ~Replayed(v)
  BY <1>1 DEF Replayed
<1>3. \A claim \in Claim : DOMAIN tests[claim.record] = {}
  BY <1>1 DEF Claim
<1>4. Verified = {}
  BY <1>3 DEF Verified
<1>5. QED BY <1>2, <1>4 DEF Init, Abstract!Init

\* Every step maps to Replay, Verify, Certify or a stutter.
LEMMA AbstractNext ==
    ASSUME TypeInv, SoundInv, [Next]_vars
    PROVE  Abstract!Next \/ UNCHANGED <<{v \in Records : Replayed(v)}, Verified, proofs>>
<1>1. CASE ~\E k \in Requests : Save(k)
  BY <1>1, HistoryStays DEF Replayed, Verified
<1>2. ASSUME NEW k \in Requests, Save(k)
      PROVE  Abstract!Next \/ UNCHANGED <<{v \in Records : Replayed(v)}, Verified, proofs>>
  <2>0. PICK r \in Request : r = req[k]
    BY DEF TypeInv, TypeOK
  <2>1. r.record \in Records /\ r.result \in Result /\ ResultBacked(r) /\ r.step = "save"
    BY <1>2, <2>0 DEF Save, Request, RequestOK, TypeInv, RequestsOK, SoundInv, ResultsBacked
  <2>2. CASE r.result.of = "replay"
    <3>1. r.result.value \in RunStatuses /\ runs \in [Records -> Seq(RunStatuses)]
      BY <2>1, <2>2 DEF Result, TypeInv, TypeOK
    <3>2. runs' = [runs EXCEPT ![r.record] = Append(runs[r.record], r.result.value)] /\ tests' = tests /\ proofs' = proofs
      BY <1>2, <2>0, <2>2 DEF Save, SaveRow
    <3>3. \A v \in Records : v # r.record => (Replayed(v)' <=> Replayed(v))
      BY <3>1, <3>2 DEF Replayed
    <3>4. DOMAIN runs'[r.record] = DOMAIN runs[r.record] \cup {Len(runs[r.record]) + 1}
          /\ runs'[r.record][Len(runs[r.record]) + 1] = r.result.value
          /\ \A n \in DOMAIN runs[r.record] : runs'[r.record][n] = runs[r.record][n]
      BY <2>1, <3>1, <3>2
    <3>5. Replayed(r.record)' <=> Replayed(r.record) \/ r.result.value = "replayed"
      BY <3>4 DEF Replayed
    <3>6. Verified' = Verified
      BY <3>2 DEF Verified
    <3>7. CASE r.result.value = "replayed"
      <4>1. {v \in Records : Replayed(v)}' = {v \in Records : Replayed(v)} \cup {r.record}
        BY <2>1, <3>3, <3>5, <3>7
      <4>2. Abstract!Replay(r.record)
        BY <2>1, <3>2, <3>6, <4>1 DEF Abstract!Replay
      <4>3. QED BY <2>1, <4>2 DEF Abstract!Next
    <3>8. CASE r.result.value # "replayed"
      <4>1. \A v \in Records : Replayed(v)' <=> Replayed(v)
        BY <3>3, <3>5, <3>8
      <4>2. {v \in Records : Replayed(v)}' = {v \in Records : Replayed(v)}
        BY <4>1
      <4>3. QED BY <3>2, <3>6, <4>2
    <3>9. QED BY <3>7, <3>8
  <2>3. CASE r.result.of = "test"
    <3> DEFINE value == r.result.value
               claim == [record |-> r.record, fix |-> value.fix, expected |-> value.expected]
               u == r.record
    <3>1. value \in MutationTest /\ tests \in [Records -> Seq(MutationTest)]
      BY <2>1, <2>3 DEF Result, TypeInv, TypeOK
    <3>2. tests' = [tests EXCEPT ![u] = Append(tests[u], value)] /\ runs' = runs /\ proofs' = proofs
      BY <1>2, <2>0, <2>3 DEF Save, SaveRow
    <3>3. {v \in Records : Replayed(v)}' = {v \in Records : Replayed(v)}
      BY <3>2 DEF Replayed
    <3>4. DOMAIN tests'[u] = DOMAIN tests[u] \cup {Len(tests[u]) + 1}
          /\ tests'[u][Len(tests[u]) + 1] = value
          /\ \A n \in DOMAIN tests[u] : tests'[u][n] = tests[u][n]
      BY <2>1, <3>1, <3>2
    <3>5. \A c \in Claim : c.record # u => (c \in Verified' <=> c \in Verified)
      BY <2>1, <3>1, <3>2 DEF Verified, Claim
    <3>6. \A c \in Claim : c.record = u =>
             (c \in Verified' <=> \/ c \in Verified
                                   \/ value = [fix |-> c.fix, expected |-> c.expected, verdict |-> "verified"])
      BY <3>4 DEF Verified
    <3>7. Verified \subseteq Claim /\ Verified' \subseteq Claim
      BY DEF Verified
    <3>8. claim \in Claim
      BY <2>1, <3>1 DEF Claim, MutationTest
    <3>9. \A c \in Claim : c.record = u /\ value = [fix |-> c.fix, expected |-> c.expected, verdict |-> "verified"]
             <=> c = claim /\ value.verdict = "verified"
      BY <3>1, <3>8 DEF Claim, MutationTest
    <3> HIDE DEF value, claim, u
    <3>10. CASE value.verdict = "verified"
      <4>1. Verified' = Verified \cup {claim}
        BY <3>5, <3>6, <3>7, <3>8, <3>9, <3>10
      <4>2. Replayed(u) /\ Works(u, value.fix, value.expected)
        BY <2>1, <2>3, <3>10 DEF ResultBacked, Backed, value, u
      <4>3. claim.record = u /\ claim.fix = value.fix /\ claim.expected = value.expected /\ u \in Records
        BY <2>1 DEF claim, u
      <4>4. Abstract!Verify(claim)
        BY <3>2, <3>3, <4>1, <4>2, <4>3 DEF Abstract!Verify
      <4>5. QED BY <4>1, <4>4 DEF Abstract!Next
    <3>11. CASE value.verdict # "verified"
      <4>1. Verified' = Verified
        BY <3>5, <3>6, <3>7, <3>9, <3>11
      <4>2. QED BY <3>2, <3>3, <4>1
    <3>12. QED BY <3>10, <3>11
  <2>4. CASE r.result.of = "certificate"
    <3>1. runs' = runs /\ tests' = tests /\ proofs' = proofs \cup {r.result.value.claim}
      BY <1>2, <2>0, <2>4 DEF Save, SaveRow
    <3>2. {v \in Records : Replayed(v)}' = {v \in Records : Replayed(v)} /\ Verified' = Verified
      BY <3>1 DEF Replayed, Verified
    <3>3. PICK claim \in Verified : claim = r.result.value.claim /\ CoreFlags(claim.record) = {}
      BY <2>1, <2>4 DEF ResultBacked
    <3>4. claim.record \in {v \in Records : CoreFlags(v) = {}}
      BY <3>3 DEF Verified, Claim
    <3>5. Abstract!Certify(claim)
      BY <3>1, <3>2, <3>3, <3>4 DEF Abstract!Certify
    <3>6. QED BY <3>1, <3>3, <3>5 DEF Abstract!Next
  <2>5. QED BY <2>1, <2>2, <2>3, <2>4 DEF Result
<1>3. QED BY <1>1, <1>2

\* The record loop implements ProofOfMitigation.
THEOREM Refinement == Spec => ImplementsProof
<1>1. TypeInv /\ SoundInv /\ [Next]_vars => [Abstract!Next]_<<{v \in Records : Replayed(v)}, Verified, proofs>>
  BY AbstractNext
<1>2. Init => TypeInv /\ SoundInv
  BY TypeInit, SoundInit
<1>3. TypeInv /\ SoundInv /\ [Next]_vars => TypeInv' /\ SoundInv'
  BY TypeNext, SoundNext
<1>4. QED BY <1>1, <1>2, <1>3, AbstractInit, PTL DEF Spec, ImplementsProof, Abstract!Spec

-------------------------------------------------------------------------------
(* What an incident's status says, its row shows. *)

RowBacked(row) ==
    /\ row.status = "certified" => row.certificate # None
    /\ row.status = "mitigated" => row.mutation # None
    /\ row.status = "replayed" => row.replay # "none"

CopyBacked(r) ==
    /\ \/ r.step \in {"load_replay", "load_test", "write", "write_again"}
       \/ r.step \in {"read_back", "store"} /\ r.loop = "incident"
       => RowBacked(r.copy)
    /\ r.step = "store" => RowBacked(r.reread)

RowsBacked ==
    /\ \A i \in IncidentIds : incident[i] # None => RowBacked(incident[i])
    /\ \A k \in Requests : CopyBacked(req[k])

\* Recording a result on an incident keeps its status backed.
LEMMA ApplyBacked ==
    ASSUME NEW row \in Incident, RowBacked(row), NEW loop \in Loops, NEW result \in Result
    PROVE  RowBacked(Apply(row, loop, result))
<1>1. CASE result.of = "replay"
  <2>1. result.value # "none"
    BY <1>1 DEF Result, RunStatuses
  <2>2. QED BY <1>1, <2>1 DEF Apply, RowBacked, Incident
<1>2. CASE result.of = "test"
  <2>1. result.value # None
    BY <1>2, NoneIsNoClaim DEF Result
  <2>2. QED BY <1>2, <2>1 DEF Apply, RowBacked, Incident
<1>3. CASE result.of = "certificate"
  <2>1. result.value # None
    BY <1>3, NoneIsNoClaim DEF Result
  <2>2. QED BY <1>3, <2>1 DEF Apply, RowBacked, Incident
<1>4. QED BY <1>1, <1>2, <1>3 DEF Result

\* Steps that write no incident keep the rows backed if the copies they take are.
LEMMA RowsMove ==
    ASSUME RowsBacked, NEW k \in Requests, NEW r, CopyBacked(r),
           req \in [Requests -> Request], req' = [req EXCEPT ![k] = r],
           \A i \in IncidentIds : incident'[i] # incident[i] => RowBacked(incident'[i])
    PROVE  RowsBacked'
<1>1. \A j \in Requests : CopyBacked(req'[j])
  BY DEF RowsBacked
<1>2. \A i \in IncidentIds : incident'[i] # None => RowBacked(incident'[i])
  BY DEF RowsBacked
<1>3. QED BY <1>1, <1>2 DEF RowsBacked

\* A slot without a request holds no copy to back.
LEMMA IdleBacked == CopyBacked(Idle)
  BY IdleType DEF CopyBacked

\* The steps of the record loop keep rows and copies backed.
LEMMA RecordStepRows ==
    ASSUME TypeInv, RowsBacked, NEW k \in Requests, RecordStep(k)
    PROVE  RowsBacked'
<1>0. req \in [Requests -> Request] /\ req[k] \in Request /\ RequestOK(req[k])
  BY DEF TypeInv, TypeOK, RequestsOK
<1>1. incident' = incident
  BY DEF RecordStep, BeginLabel, BeginReplay, BeginMutation, BeginProof, BeginRecord, SaveLabel,
         CheckRun, CheckTest, Save, FetchIncident, rows
<1>2. \E r : CopyBacked(r) /\ req' = [req EXCEPT ![k] = r]
  <2>1. CASE Answer(k)
    BY <2>1, IdleBacked DEF Answer
  <2>2. CASE FetchIncident(k) /\ ~Answer(k)
    <3> DEFINE row == Apply(incident[req[k].target], "record", req[k].result)
               r == [req[k] EXCEPT !.step = "write", !.copy = row]
    <3>1. incident[req[k].target] # None /\ req' = [req EXCEPT ![k].step = "write", ![k].copy = row]
      BY <2>2 DEF FetchIncident
    <3>2. req[k].target \in IncidentIds /\ req[k].result \in Result
      BY <1>0, <2>2 DEF FetchIncident, RequestOK
    <3>3. incident[req[k].target] \in Incident /\ RowBacked(incident[req[k].target])
      BY <3>1, <3>2 DEF TypeInv, TypeOK, RowsBacked
    <3>4. RowBacked(row)
      BY <3>2, <3>3, ApplyBacked DEF Loops
    <3> HIDE DEF row
    <3>5. CopyBacked(r)
      BY <1>0, <3>4 DEF CopyBacked, Request
    <3>6. req' = [req EXCEPT ![k] = r]
      BY <1>0, <3>1
    <3>7. QED BY <3>5, <3>6
  <2>3. CASE ~FetchIncident(k) /\ ~Answer(k)
    <3>1. PICK r \in {req'[k]} : TRUE
      OBVIOUS
    <3>2. req' = [req EXCEPT ![k] = r]
          /\ r.step \in {"label", "check_run", "check_test", "save", "fetch"}
      <4>1. CASE \E v \in Records : BeginLabel(k, v)
        <5>1. PICK v, row : req' = [req EXCEPT ![k].step = "label", ![k].record = v, ![k].row = row]
          BY <4>1 DEF BeginLabel
        <5>2. QED BY <1>0, <3>1, <5>1 DEF Request
      <4>2. CASE \E v \in Records : BeginReplay(k, v)
        <5>1. PICK v \in Records : BeginReplay(k, v)
          BY <4>2
        <5>2. PICK status \in ReplayOutcomes(v) :
                 req' = [req EXCEPT ![k].step = "save", ![k].record = v, ![k].row = vr[v],
                                    ![k].target = IF status = "incomplete" THEN NoIncident ELSE vr[v].promoted,
                                    ![k].result = [of |-> "replay", value |-> status]]
          BY <5>1 DEF BeginReplay
        <5>3. QED BY <1>0, <3>1, <5>2 DEF Request
      <4>3. CASE \E v \in Records : BeginMutation(k, v) \/ BeginProof(k, v)
        BY <1>0, <3>1, <4>3 DEF BeginMutation, BeginProof, BeginRecord, Request
      <4>4. CASE CheckRun(k)
        BY <1>0, <2>3, <3>1, <4>4 DEF CheckRun, Found, Request
      <4>5. CASE CheckTest(k)
        BY <1>0, <2>3, <3>1, <4>5 DEF CheckTest, Found, Request
      <4>6. CASE Save(k)
        BY <1>0, <2>3, <3>1, <4>6 DEF Save, Request
      <4>7. ~SaveLabel(k)
        BY <2>3 DEF SaveLabel, Answer
      <4>8. QED BY <2>3, <4>1, <4>2, <4>3, <4>4, <4>5, <4>6, <4>7 DEF RecordStep
    <3>3. CopyBacked(r)
      BY <3>2 DEF CopyBacked
    <3>4. QED BY <3>2, <3>3
  <2>4. QED BY <2>1, <2>2, <2>3
<1>3. QED BY <1>0, <1>1, <1>2, RowsMove

\* The steps of the incident loop keep rows and copies backed.
LEMMA IncidentStepRows ==
    ASSUME TypeInv, RowsBacked, NEW k \in Requests, IncidentStep(k)
    PROVE  RowsBacked'
<1>0. /\ req \in [Requests -> Request] /\ req[k] \in Request /\ RequestOK(req[k])
      /\ CopyBacked(req[k])
      /\ \A i \in IncidentIds : incident[i] # None => incident[i] \in Incident /\ RowBacked(incident[i])
  BY DEF TypeInv, TypeOK, RequestsOK, RowsBacked
<1>1. CASE Answer(k) /\ incident' = incident
  BY <1>0, <1>1, IdleBacked, RowsMove DEF Answer
<1>2. ASSUME NEW i \in IncidentIds, NEW step \in {"load_replay", "load_test"}, BeginIncident(k, i, step)
      PROVE  RowsBacked'
  <2> DEFINE r == [req[k] EXCEPT !.step = step, !.loop = "incident", !.target = i,
                                 !.record = incident[i].record, !.copy = incident[i]]
  <2>1. CopyBacked(r)
    BY <1>0, <1>2 DEF CopyBacked, Request, BeginIncident
  <2>2. req' = [req EXCEPT ![k] = r]
    BY <1>0, <1>2 DEF BeginIncident
  <2>3. QED BY <1>0, <1>2, <2>1, <2>2, RowsMove DEF BeginIncident, rows
<1>3. ASSUME NEW result \in Result, req[k].step \in {"load_replay", "load_test"}, incident' = incident,
             req' = [req EXCEPT ![k].step = "write", ![k].result = result, ![k].copy = Apply(@, "incident", result)]
      PROVE  RowsBacked'
  <2> DEFINE row == Apply(req[k].copy, "incident", result)
             r == [req[k] EXCEPT !.step = "write", !.result = result, !.copy = row]
  <2>1. req[k].copy \in Incident /\ RowBacked(req[k].copy)
    BY <1>0, <1>3 DEF RequestOK, CopyBacked
  <2>2. RowBacked(row)
    BY <2>1, ApplyBacked DEF Loops
  <2>3. req' = [req EXCEPT ![k] = r]
    BY <1>0, <1>3
  <2> HIDE DEF row
  <2>4. CopyBacked(r)
    BY <1>0, <2>2 DEF CopyBacked, Request
  <2>5. QED BY <1>0, <1>3, <2>3, <2>4, RowsMove
<1>4. CASE LoadAndReplay(k)
  <2>1. PICK result : result = [of |-> "replay", value |-> ReplaySnapshot(snapshot[req[k].target])]
    OBVIOUS
  <2>2. result \in Result
    BY <2>1 DEF Result, RunStatuses, ReplaySnapshot
  <2>3. QED BY <1>1, <1>3, <1>4, <2>1, <2>2 DEF LoadAndReplay, rows
<1>5. CASE LoadAndTest(k) /\ ~Answer(k)
  <2>1. PICK fix \in Fixes, expected \in Submitted \cup LabelsOf(req[k].target) :
           LET result == [of |-> "test", value |-> RunMutation(snapshot[req[k].target], fix, expected)]
           IN  req' = [req EXCEPT ![k].step = "write", ![k].result = result,
                                  ![k].copy = Apply(@, "incident", result)]
    BY <1>5 DEF LoadAndTest
  <2>2. PICK result : result = [of |-> "test", value |-> RunMutation(snapshot[req[k].target], fix, expected)]
    OBVIOUS
  <2>3. expected \in Outcomes
    BY ConstantsAssumption DEF LabelsOf, TypeInv, TypeOK, VerificationRecord
  <2>4. result \in Result
    BY <2>2, <2>3 DEF Result, MutationTest, Verdicts, RunMutation
  <2>5. QED BY <1>3, <1>5, <2>1, <2>2, <2>4 DEF LoadAndTest, rows
<1>6. ASSUME NEW i \in IncidentIds, BeginIncidentProof(k, i)
      PROVE  RowsBacked'
  <2>1. PICK result : result = [of |-> "certificate",
           value |-> [loop |-> "incident",
                      claim |-> [record |-> incident[i].record, fix |-> incident[i].mutation.fix,
                                 expected |-> incident[i].mutation.expected]]]
    OBVIOUS
  <2> DEFINE row == Apply(incident[i], "incident", result)
             r == [step |-> "read_back", loop |-> "incident", record |-> incident[i].record,
                   row |-> None, target |-> i, copy |-> row, reread |-> None, result |-> result]
  <2>2. req' = [req EXCEPT ![k] = r]
    BY <1>6, <2>1 DEF BeginIncidentProof
  <2>3. /\ incident[i] \in Incident /\ RowBacked(incident[i])
        /\ incident[i].mutation \in MutationTest /\ incident[i].record \in Records
    BY <1>0, <1>6 DEF BeginIncidentProof, Incident
  <2>4. result \in Result
    BY <2>1, <2>3 DEF Result, Certificate, Claim, MutationTest, Loops
  <2>5. RowBacked(row)
    BY <2>3, <2>4, ApplyBacked DEF Loops
  <2> HIDE DEF row
  <2>6. CopyBacked(r)
    BY <2>5 DEF CopyBacked
  <2>7. QED BY <1>0, <1>6, <2>2, <2>6, RowsMove DEF BeginIncidentProof, rows
<1>7. CASE Write(k)
  <2>1. req[k].target \in IncidentIds /\ RowBacked(req[k].copy)
        /\ incident' = [incident EXCEPT ![req[k].target] = req[k].copy]
    BY <1>0, <1>7 DEF Write, RequestOK, CopyBacked
  <2>2. \A i \in IncidentIds : incident'[i] # incident[i] => RowBacked(incident'[i])
    BY <2>1 DEF TypeInv, TypeOK
  <2>3. \E r : CopyBacked(r) /\ req' = [req EXCEPT ![k] = r]
    <3>1. CASE Answer(k)
      BY <3>1, IdleBacked DEF Answer
    <3>2. CASE req[k].step = "write" /\ req[k].loop = "incident" /\ req[k].result.of = "replay"
      <4>1. CopyBacked([req[k] EXCEPT !.step = "write_again"])
        BY <1>0, <2>1 DEF CopyBacked, Request
      <4>2. req' = [req EXCEPT ![k] = [req[k] EXCEPT !.step = "write_again"]]
        BY <1>0, <1>7, <3>2 DEF Write
      <4>3. QED BY <4>1, <4>2
    <3>3. CASE req[k].loop = "record" /\ req[k].result.of = "certificate"
      <4>1. CopyBacked([req[k] EXCEPT !.step = "read_back"])
        BY <1>0, <3>3 DEF CopyBacked, Request
      <4>2. req' = [req EXCEPT ![k] = [req[k] EXCEPT !.step = "read_back"]]
        BY <1>0, <1>7, <3>3 DEF Write
      <4>3. QED BY <4>1, <4>2
    <3>4. QED BY <1>7, <3>1, <3>2, <3>3 DEF Write
  <2>4. QED BY <1>0, <2>2, <2>3, RowsMove
<1>8. CASE ReadBack(k)
  <2> DEFINE r == [req[k] EXCEPT !.step = "store", !.reread = incident[req[k].target]]
  <2>1. incident[req[k].target] \in Incident /\ incident[req[k].target] # None /\ req[k].target \in IncidentIds
    <3>1. incident[req[k].target] \in Incident /\ req[k].target \in IncidentIds
      BY <1>0, <1>8 DEF ReadBack, TypeInv, Present, RequestOK
    <3>2. None \notin Incident
      BY DEF None, Incident
    <3>3. QED BY <3>1, <3>2
  <2>2. RowBacked(incident[req[k].target])
    BY <1>0, <2>1
  <2>3. CopyBacked(r)
    BY <1>0, <1>8, <2>2 DEF ReadBack, CopyBacked, Request
  <2>4. req' = [req EXCEPT ![k] = r]
    BY <1>0, <1>8 DEF ReadBack
  <2>5. QED BY <1>0, <1>8, <2>3, <2>4, RowsMove DEF ReadBack, rows
<1>9. CASE StoreCertificate(k)
  <2> DEFINE row == [req[k].reread EXCEPT !.certificate = req[k].result.value]
  <2>1. /\ req[k].target \in IncidentIds /\ req[k].reread \in Incident /\ RowBacked(req[k].reread)
        /\ req[k].result.value \in Certificate
    BY <1>0, <1>9 DEF StoreCertificate, RequestOK, CopyBacked
  <2>2. RowBacked(row)
    BY <2>1, NoneIsNoClaim DEF RowBacked, Incident
  <2>3. incident' = [incident EXCEPT ![req[k].target] = row]
    BY <1>9 DEF StoreCertificate
  <2> HIDE DEF row
  <2>4. \A i \in IncidentIds : incident'[i] # incident[i] => RowBacked(incident'[i])
    BY <2>1, <2>2, <2>3 DEF TypeInv, TypeOK
  <2>5. \E r : CopyBacked(r) /\ req' = [req EXCEPT ![k] = r]
    <3>1. CASE req[k].loop = "incident"
      <4>1. CopyBacked([req[k] EXCEPT !.step = "write"])
        BY <1>0, <1>9, <3>1 DEF StoreCertificate, CopyBacked, Request
      <4>2. req' = [req EXCEPT ![k] = [req[k] EXCEPT !.step = "write"]]
        BY <1>0, <1>9, <3>1 DEF StoreCertificate
      <4>3. QED BY <4>1, <4>2
    <3>2. CASE req[k].loop # "incident"
      BY <1>9, <3>2, IdleBacked DEF StoreCertificate, Answer
    <3>3. QED BY <3>1, <3>2
  <2>6. QED BY <1>0, <2>4, <2>5, RowsMove
<1>10. QED BY <1>1, <1>2, <1>4, <1>5, <1>6, <1>7, <1>8, <1>9
           DEF IncidentStep, BeginIncidentReplay, BeginIncidentMutation, LoadAndTest, rows

\* Creators only write incidents that are freshly ingested.
LEMMA CreatorsRows ==
    ASSUME TypeInv, RowsBacked, NEW q \in Creators, MakingStep(q) \/ AbortMaking(q)
    PROVE  RowsBacked'
<1>1. req' = req
  BY DEF MakingStep, AbortMaking, BeginIngest, BeginPromote, CountIncidents, InsertIncident,
         StoreSnapshot, LinkRecord, rows
<1>2. \A i \in IncidentIds : incident'[i] # incident[i] => RowBacked(incident'[i])
  <2>1. CASE InsertIncident(q)
    <3>1. RowBacked(Ingested(making[q].record))
      BY DEF RowBacked, Ingested
    <3>2. incident' = [incident EXCEPT ![making[q].id] = Ingested(making[q].record)]
      BY <2>1 DEF InsertIncident
    <3>3. QED BY <3>1, <3>2 DEF TypeInv, TypeOK
  <2>2. CASE ~InsertIncident(q)
    BY <2>2 DEF MakingStep, AbortMaking, BeginIngest, BeginPromote, CountIncidents, StoreSnapshot, LinkRecord, rows
  <2>3. QED BY <2>1, <2>2
<1>3. QED BY <1>1, <1>2 DEF RowsBacked

\* Every step keeps rows and copies backed.
LEMMA RowsNext ==
    ASSUME TypeInv, RowsBacked, [Next]_vars
    PROVE  RowsBacked'
<1>1. ASSUME NEW k \in Requests, Abort(k)
      PROVE  RowsBacked'
  BY <1>1, IdleBacked, RowsMove DEF Abort, Answer, rows, TypeInv, TypeOK
<1>2. CASE (\E v \in Records : Capture(v)) \/ UNCHANGED vars
  BY <1>2 DEF Capture, vars, rows, RowsBacked
<1>3. QED BY <1>1, <1>2, RecordStepRows, IncidentStepRows, CreatorsRows DEF Next

\* Initially there are no incidents.
LEMMA RowsInit == Init => RowsBacked
  BY IdleBacked DEF Init, RowsBacked

\* An incident never claims a status that nothing on its row supports, however
\* requests and creators write over each other.
THEOREM StatusBacked == Spec => []StatusIsBacked
<1>1. RowsBacked => StatusIsBacked
  BY DEF RowsBacked, RowBacked, StatusIsBacked
<1>2. QED BY <1>1, TypeInit, TypeNext, RowsInit, RowsNext, PTL DEF Spec

-------------------------------------------------------------------------------
(* Incidents belong to the record they were created from. *)

\* No two creators have counted the incidents and not yet inserted their own.
\* Elsewhere any number of them may be at work, and die.
OneInsertion == \A p, q \in Creators : Making_(p, "insert") /\ Making_(q, "insert") => p = q

Of(i, v) == incident[i] # None /\ incident[i].record = v
Complete(i, v) == Of(i, v) /\ snapshot[i] = v

Used == {i \in IncidentIds : incident[i] # None}
Numbered == \E n \in 0 .. MaxIncidents : Used = 1 .. n

MakingAbout(m) ==
    /\ m.step = "insert" => Used = 1 .. (m.id - 1)
    /\ m.step \in {"custody", "snapshot", "custody_again", "link"} => Of(m.id, m.record)
    /\ m.step \in {"custody_again", "link"} => snapshot[m.id] = m.record

CopyAbout(r) ==
    /\ \/ r.step \in {"load_replay", "load_test", "write", "write_again"}
       \/ r.step \in {"read_back", "store"} /\ r.loop = "incident"
       => r.copy.record = r.record
    /\ r.step = "store" => r.reread.record = r.record

RequestAbout(r) ==
    /\ r.step = "label" /\ r.row.promoted # NoIncident => Complete(r.row.promoted, r.record)
    /\ r.step \notin {"idle", "label"} /\ r.target # NoIncident => Of(r.target, r.record)
    /\ CopyAbout(r)

RequestsAbout == \A k \in Requests : RequestAbout(req[k])

LineageInv ==
    /\ Numbered
    /\ \A q \in Creators : making[q] # None => MakingAbout(making[q])
    /\ \A i \in IncidentIds : snapshot[i] # None => Of(i, snapshot[i])
    /\ PromotionIsComplete
    /\ RequestsAbout

\* Recording a result on an incident leaves its record alone.
LEMMA ApplyKeepsRecord ==
    ASSUME NEW row \in Incident, NEW loop \in Loops, NEW result \in Result
    PROVE  Apply(row, loop, result).record = row.record
<1>1. CASE result.of = "replay"
  BY <1>1 DEF Apply, Incident
<1>2. CASE result.of = "test"
  BY <1>2 DEF Apply, Incident
<1>3. CASE result.of = "certificate"
  BY <1>3 DEF Apply, Incident
<1>4. QED BY <1>1, <1>2, <1>3 DEF Result

\* None is no row, and incident ids are not zero.
LEMMA NoneIsNoRow == None \notin Incident /\ None \notin VerificationRecord /\ NoIncident \notin IncidentIds
  BY DEF None, Incident, VerificationRecord, NoIncident, IncidentIds

\* The requests of the two loops write incidents in two actions only.
LEMMA RequestsWrite ==
    ASSUME NEW k \in Requests, RecordStep(k) \/ IncidentStep(k) \/ Abort(k)
    PROVE  /\ snapshot' = snapshot /\ making' = making
           /\ incident' = incident \/ Write(k) \/ StoreCertificate(k)
<1>1. CASE RecordStep(k)
  BY <1>1 DEF RecordStep, BeginLabel, BeginReplay, BeginMutation, BeginProof, BeginRecord, SaveLabel,
         CheckRun, CheckTest, Save, FetchIncident, rows
<1>2. CASE \E i \in IncidentIds : BeginIncidentReplay(k, i) \/ BeginIncidentMutation(k, i) \/ BeginIncidentProof(k, i)
  BY <1>2 DEF BeginIncidentReplay, BeginIncidentMutation, BeginIncidentProof, BeginIncident, rows
<1>3. CASE LoadAndReplay(k) \/ LoadAndTest(k) \/ ReadBack(k)
  BY <1>3 DEF LoadAndReplay, LoadAndTest, ReadBack, rows
<1>4. CASE Write(k) \/ StoreCertificate(k)
  BY <1>4 DEF Write, StoreCertificate
<1>5. CASE Abort(k)
  BY <1>5 DEF Abort, rows
<1>6. QED BY <1>1, <1>2, <1>3, <1>4, <1>5 DEF IncidentStep

\* A row written over an incident, other than at its insertion, keeps the record.
LEMMA WritesKeepRecord ==
    ASSUME TypeInv, LineageInv, NEW k \in Requests, Write(k) \/ StoreCertificate(k)
    PROVE  /\ Used' = Used
           /\ \A i \in IncidentIds : \A v : Of(i, v) => incident'[i] # None /\ incident'[i].record = v
<1>1. /\ req[k] \in Request /\ RequestOK(req[k]) /\ RequestAbout(req[k])
      /\ incident \in [IncidentIds -> Incident \cup {None}]
  BY DEF TypeInv, TypeOK, RequestsOK, LineageInv, RequestsAbout
<1>2. PICK i \in IncidentIds, row \in Incident :
         i = req[k].target /\ incident' = [incident EXCEPT ![i] = row] /\ row.record = req[k].record
  <2>1. CASE Write(k)
    BY <1>1, <2>1 DEF Write, RequestOK, RequestAbout, CopyAbout
  <2>2. CASE StoreCertificate(k)
    <3>1. /\ req[k].target \in IncidentIds /\ req[k].reread \in Incident
          /\ req[k].reread.record = req[k].record /\ req[k].result.value \in Certificate
      BY <1>1, <2>2 DEF StoreCertificate, RequestOK, RequestAbout, CopyAbout
    <3> DEFINE row == [req[k].reread EXCEPT !.certificate = req[k].result.value]
    <3>2. row \in Incident /\ row.record = req[k].record
      BY <3>1 DEF Incident
    <3>3. incident' = [incident EXCEPT ![req[k].target] = row]
      BY <2>2 DEF StoreCertificate
    <3> HIDE DEF row
    <3>4. QED BY <3>1, <3>2, <3>3
  <2>3. QED BY <2>1, <2>2
<1>3. Of(i, req[k].record)
  BY <1>1, <1>2, NoneIsNoRow DEF Write, StoreCertificate, RequestAbout
<1>4. QED BY <1>1, <1>2, <1>3, NoneIsNoRow DEF Of, Used

\* A creator inserts an incident under the next number, if no other one is at it.
LEMMA InsertNumbered ==
    ASSUME TypeInv, LineageInv, NEW q \in Creators, InsertIncident(q)
    PROVE  /\ \A i \in IncidentIds : \A v : Of(i, v) => incident'[i] # None /\ incident'[i].record = v
           /\ incident'[making[q].id] # None /\ incident'[making[q].id].record = making[q].record
           /\ \/ Used' = Used /\ making[q].step # "insert"
              \/ making[q].step = "insert" /\ Used' = 1 .. making[q].id
<1>1. /\ making[q] \in Making /\ making[q].id \in IncidentIds /\ making[q] # None
      /\ MakingAbout(making[q]) /\ incident \in [IncidentIds -> Incident \cup {None}]
  BY DEF InsertIncident, Making_, TypeInv, TypeOK, MakingOK, LineageInv
<1>2. PICK i \in IncidentIds, v \in Records : i = making[q].id /\ v = making[q].record
  BY <1>1 DEF Making
<1>3. Ingested(v) \in Incident /\ Ingested(v).record = v /\ Ingested(v) # None
  BY <1>2 DEF Ingested, Incident, IncidentStatuses, None
<1>4. incident' = [incident EXCEPT ![i] = Ingested(v)]
  BY <1>2 DEF InsertIncident
<1>5. CASE making[q].step = "insert"
  <2>1. Used = 1 .. (i - 1)
    BY <1>1, <1>2, <1>5 DEF MakingAbout
  <2>2. Used' = Used \cup {i}
    BY <1>1, <1>3, <1>4 DEF Used
  <2>3. Used' = 1 .. i
    BY <2>1, <2>2 DEF IncidentIds
  <2>4. i \notin Used
    BY <2>1 DEF IncidentIds
  <2>5. QED BY <1>1, <1>2, <1>3, <1>4, <1>5, <2>3, <2>4 DEF Of, Used
<1>6. CASE making[q].step \in {"custody", "custody_again"}
  <2>1. Of(i, v)
    BY <1>1, <1>2, <1>6 DEF MakingAbout
  <2>2. Used' = Used
    BY <1>1, <1>3, <1>4, <2>1 DEF Used, Of
  <2>3. QED BY <1>1, <1>2, <1>3, <1>4, <1>6, <2>1, <2>2 DEF Of
<1>7. QED BY <1>5, <1>6 DEF InsertIncident, Making_

\* An incident, once there, belongs to the same record for good.
LEMMA RecordsKept ==
    ASSUME TypeInv, LineageInv, [Next]_vars
    PROVE  \A i \in IncidentIds : \A v : Of(i, v) => incident'[i] # None /\ incident'[i].record = v
<1>1. CASE \E k \in Requests : RecordStep(k) \/ IncidentStep(k) \/ Abort(k)
  BY <1>1, RequestsWrite, WritesKeepRecord DEF Of
<1>2. CASE \E q \in Creators : MakingStep(q) \/ AbortMaking(q)
  <2>1. PICK q \in Creators : MakingStep(q) \/ AbortMaking(q)
    BY <1>2
  <2>2. incident' = incident \/ InsertIncident(q)
    BY <2>1 DEF MakingStep, AbortMaking, BeginIngest, BeginPromote, CountIncidents, StoreSnapshot, LinkRecord, rows
  <2>3. QED BY <2>2, InsertNumbered DEF Of
<1>3. CASE (\E v \in Records : Capture(v)) \/ UNCHANGED vars
  BY <1>3 DEF Capture, vars, rows, Of
<1>4. QED BY <1>1, <1>2, <1>3 DEF Next

\* An incident's snapshot, once stored, is the evidence of its record.
LEMMA SnapshotsKept ==
    ASSUME TypeInv, LineageInv, [Next]_vars
    PROVE  /\ \A i \in IncidentIds : \A v : Complete(i, v) => snapshot'[i] = v
           /\ \A i \in IncidentIds : snapshot'[i] # None =>
                incident'[i] # None /\ incident'[i].record = snapshot'[i]
<1>1. CASE \E q \in Creators : StoreSnapshot(q)
  <2>1. PICK q \in Creators : StoreSnapshot(q)
    BY <1>1
  <2>2. /\ making[q] # None /\ making[q].id \in IncidentIds /\ making[q] \in Making
        /\ Of(making[q].id, making[q].record)
    BY <2>1 DEF StoreSnapshot, Making_, LineageInv, MakingAbout, TypeInv, TypeOK, MakingOK
  <2>3. snapshot' = [snapshot EXCEPT ![making[q].id] = making[q].record] /\ incident' = incident
    BY <2>1 DEF StoreSnapshot
  <2>4. snapshot \in [IncidentIds -> Records \cup {None}]
    BY DEF TypeInv, TypeOK
  <2>5. \A i \in IncidentIds : snapshot'[i] # None => incident'[i] # None /\ incident'[i].record = snapshot'[i]
    BY <2>2, <2>3, <2>4 DEF LineageInv, Of
  <2>6. QED BY <2>2, <2>3, <2>4, <2>5 DEF Complete, Of
<1>2. CASE ~\E q \in Creators : StoreSnapshot(q)
  <2>1. snapshot' = snapshot
    <3>1. CASE \E k \in Requests : RecordStep(k) \/ IncidentStep(k) \/ Abort(k)
      BY <3>1, RequestsWrite
    <3>2. CASE \E q \in Creators : MakingStep(q) \/ AbortMaking(q)
      BY <1>2, <3>2 DEF MakingStep, AbortMaking, BeginIngest, BeginPromote, CountIncidents, InsertIncident, LinkRecord, rows
    <3>3. QED BY <3>1, <3>2 DEF Next, Capture, vars, rows
  <2>2. \A i \in IncidentIds : snapshot'[i] # None => incident'[i] # None /\ incident'[i].record = snapshot'[i]
    BY <2>1, RecordsKept DEF LineageInv
  <2>3. QED BY <2>1, <2>2 DEF Complete
<1>3. QED BY <1>1, <1>2

\* What a request knows of incidents stays so.
LEMMA AboutKept ==
    ASSUME TypeInv, LineageInv, [Next]_vars
    PROVE  /\ \A i \in IncidentIds : \A v : Of(i, v) => Of(i, v)'
           /\ \A i \in IncidentIds : \A v \in Records : Complete(i, v) => Complete(i, v)'
           /\ \A r \in Request : RequestOK(r) /\ RequestAbout(r) => RequestAbout(r)'
<1>1. \A i \in IncidentIds : \A v : Of(i, v) => Of(i, v)'
  BY RecordsKept DEF Of
<1>2. \A i \in IncidentIds : \A v \in Records : Complete(i, v) => Complete(i, v)'
  BY <1>1, SnapshotsKept DEF Complete
<1>3. ASSUME NEW r \in Request, RequestOK(r), RequestAbout(r)
      PROVE  RequestAbout(r)'
  <2>1. r.record \in Records /\ r.target \in IncidentIds \cup {NoIncident}
        /\ (r.step = "label" => r.row.promoted \in IncidentIds \cup {NoIncident})
    BY <1>3 DEF Request, RequestOK, VerificationRecord
  <2>2. QED BY <1>1, <1>2, <1>3, <2>1 DEF RequestAbout, CopyAbout
<1>4. QED BY <1>1, <1>2, <1>3

\* A slot without a request knows of no incident.
LEMMA IdleAbout == RequestAbout(Idle)'
  BY IdleType DEF RequestAbout, CopyAbout

\* One request moves: the others still know what they knew.
LEMMA AboutMoves ==
    ASSUME TypeInv, LineageInv, [Next]_vars, NEW k \in Requests, NEW r, RequestAbout(r)',
           req' = [req EXCEPT ![k] = r]
    PROVE  RequestsAbout'
<1>1. ASSUME NEW j \in Requests, NEW s, s = req'[j]
      PROVE  RequestAbout(s)'
  <2>1. CASE j = k
    BY <1>1, <2>1 DEF TypeInv, TypeOK
  <2>2. CASE j # k
    <3>1. s = req[j] /\ s \in Request /\ RequestOK(s) /\ RequestAbout(s)
      BY <1>1, <2>2 DEF TypeInv, TypeOK, RequestsOK, LineageInv, RequestsAbout
    <3>2. QED BY <3>1, AboutKept
  <2>3. QED BY <2>1, <2>2
<1>2. QED BY <1>1 DEF RequestsAbout

\* The steps of the record loop find incidents of the record they are about.
LEMMA RecordStepAbout ==
    ASSUME TypeInv, LineageInv, NEW k \in Requests, RecordStep(k)
    PROVE  RequestsAbout'
<1>0. /\ req \in [Requests -> Request] /\ req[k] \in Request /\ RequestOK(req[k]) /\ RequestAbout(req[k])
      /\ [Next]_vars
      /\ \A v \in Records : vr[v] # None =>
            /\ vr[v] \in VerificationRecord /\ vr[v].promoted \in IncidentIds \cup {NoIncident}
            /\ vr[v].promoted # NoIncident => Complete(vr[v].promoted, v)
  BY DEF TypeInv, TypeOK, RequestsOK, LineageInv, RequestsAbout, Next, VerificationRecord,
         PromotionIsComplete, Complete, Of
<1>1. CASE Answer(k)
  BY <1>0, <1>1, IdleAbout, AboutMoves DEF Answer
<1>2. ASSUME NEW v \in Records, BeginLabel(k, v)
      PROVE  RequestsAbout'
  <2>1. PICK label : req' = [req EXCEPT ![k].step = "label", ![k].record = v, ![k].row = [vr[v] EXCEPT !.label = label]]
    BY <1>2 DEF BeginLabel
  <2>2. PICK row : row = [vr[v] EXCEPT !.label = label]
    OBVIOUS
  <2>3. row.promoted = vr[v].promoted /\ vr[v] # None
    BY <1>0, <1>2, <2>2 DEF BeginLabel, VerificationRecord
  <2>4. PICK r : r = [req[k] EXCEPT !.step = "label", !.record = v, !.row = row]
    OBVIOUS
  <2>5. r.step = "label" /\ r.record = v /\ r.row = row
    BY <1>0, <2>4 DEF Request
  <2>6. r.row.promoted # NoIncident => Complete(r.row.promoted, r.record)'
    BY <1>0, <2>3, <2>5, AboutKept
  <2>7. RequestAbout(r)'
    BY <2>5, <2>6 DEF RequestAbout, CopyAbout
  <2>8. req' = [req EXCEPT ![k] = r]
    BY <1>0, <2>1, <2>2, <2>4
  <2>9. QED BY <1>0, <2>7, <2>8, AboutMoves
<1>3. ASSUME NEW v \in Records, vr[v] # None, NEW r \in Request, r.step \in {"save", "check_run", "check_test"},
             r.record = v, r.target \in {NoIncident, vr[v].promoted}, req' = [req EXCEPT ![k] = r]
      PROVE  RequestsAbout'
  <2>1. r.target # NoIncident => Of(r.target, r.record)'
    BY <1>0, <1>3, AboutKept DEF Complete
  <2>2. RequestAbout(r)'
    BY <1>3, <2>1 DEF RequestAbout, CopyAbout
  <2>3. QED BY <1>0, <1>3, <2>2, AboutMoves
<1>4. ASSUME NEW v \in Records, BeginReplay(k, v)
      PROVE  RequestsAbout'
  <2>1. PICK status \in ReplayOutcomes(v) :
           req' = [req EXCEPT ![k].step = "save", ![k].record = v, ![k].row = vr[v],
                              ![k].target = IF status = "incomplete" THEN NoIncident ELSE vr[v].promoted,
                              ![k].result = [of |-> "replay", value |-> status]]
    BY <1>4 DEF BeginReplay
  <2>2. PICK target, result : /\ target = IF status = "incomplete" THEN NoIncident ELSE vr[v].promoted
                              /\ result = [of |-> "replay", value |-> status]
    OBVIOUS
  <2>3. target \in {NoIncident, vr[v].promoted}
    BY <2>2
  <2>4. result \in Result
    BY <2>2 DEF Result, ReplayOutcomes, ReplaySnapshot, RunStatuses
  <2>5. PICK r : r = [req[k] EXCEPT !.step = "save", !.record = v, !.row = vr[v], !.target = target, !.result = result]
    OBVIOUS
  <2>6. vr[v] # None
    BY <1>4 DEF BeginReplay
  <2>7. r \in Request /\ r.step = "save" /\ r.record = v /\ r.target = target
    BY <1>0, <2>3, <2>4, <2>5, <2>6 DEF Request, Steps
  <2>8. req' = [req EXCEPT ![k] = r]
    BY <1>0, <2>1, <2>2, <2>5
  <2>9. QED BY <1>3, <2>3, <2>6, <2>7, <2>8
<1>5. ASSUME NEW v \in Records, NEW step \in {"check_run", "check_test"}, BeginRecord(k, v, step)
      PROVE  RequestsAbout'
  <2>1. PICK r : r = [req[k] EXCEPT !.step = step, !.record = v, !.row = vr[v], !.target = vr[v].promoted]
    OBVIOUS
  <2>2. vr[v] # None /\ req' = [req EXCEPT ![k] = r]
    BY <1>0, <1>5, <2>1 DEF BeginRecord
  <2>3. r \in Request /\ r.step = step /\ r.record = v /\ r.target = vr[v].promoted
    BY <1>0, <2>1, <2>2 DEF Request, Steps
  <2>4. QED BY <1>3, <2>2, <2>3
<1>6. ASSUME req'[k].step \in {"save", "fetch"}, req'[k].record = req[k].record, req'[k].target = req[k].target,
             req[k].step \in {"check_run", "check_test", "save"}, req' = [req EXCEPT ![k] = req'[k]]
      PROVE  RequestsAbout'
  <2>0. PICK r : r = req'[k]
    OBVIOUS
  <2>1. r.target # NoIncident => r.target \in IncidentIds /\ Of(r.target, r.record)
    BY <1>0, <1>6, <2>0 DEF RequestAbout, Request
  <2>2. RequestAbout(r)'
    BY <1>0, <1>6, <2>0, <2>1, AboutKept DEF RequestAbout, CopyAbout
  <2>3. QED BY <1>0, <2>0, <2>2, <1>6, AboutMoves
<1>7. CASE (CheckRun(k) \/ CheckTest(k)) /\ ~Answer(k)
  <2>1. PICK result : Found(k, "save", result)
    BY <1>7 DEF CheckRun, CheckTest
  <2>2. PICK r : r = [req[k] EXCEPT !.step = "save", !.result = result]
    OBVIOUS
  <2>3. r.step = "save" /\ r.record = req[k].record /\ r.target = req[k].target /\ req' = [req EXCEPT ![k] = r]
    BY <1>0, <2>1, <2>2 DEF Found, Request
  <2>4. req[k].step \in {"check_run", "check_test"}
    BY <1>7 DEF CheckRun, CheckTest
  <2>5. QED BY <1>0, <1>6, <2>3, <2>4
<1>8. CASE Save(k) /\ ~Answer(k)
  <2>1. PICK r : r = [req[k] EXCEPT !.step = "fetch"]
    OBVIOUS
  <2>2. r.step = "fetch" /\ r.record = req[k].record /\ r.target = req[k].target /\ req' = [req EXCEPT ![k] = r]
    BY <1>0, <1>8, <2>1 DEF Save, Request
  <2>3. req[k].step = "save"
    BY <1>8 DEF Save
  <2>4. QED BY <1>0, <1>6, <2>2, <2>3
<1>9. CASE FetchIncident(k) /\ ~Answer(k)
  <2>1. PICK i, row : i = req[k].target /\ row = Apply(incident[i], "record", req[k].result)
    OBVIOUS
  <2>2. /\ i \in IncidentIds /\ req[k].result \in Result /\ incident[i] \in Incident
        /\ req' = [req EXCEPT ![k].step = "write", ![k].copy = row]
    BY <1>0, <1>9, <2>1 DEF FetchIncident, RequestOK, TypeInv, TypeOK
  <2>3. Of(i, req[k].record)
    BY <1>0, <1>9, <2>1, <2>2, NoneIsNoRow DEF FetchIncident, RequestAbout
  <2>4. row.record = req[k].record
    BY <2>1, <2>2, <2>3, ApplyKeepsRecord DEF Of, Loops
  <2>5. PICK r : r = [req[k] EXCEPT !.step = "write", !.copy = row]
    OBVIOUS
  <2>6. r.step = "write" /\ r.target = i /\ r.record = req[k].record /\ r.copy = row
    BY <1>0, <2>1, <2>5 DEF Request
  <2>7. RequestAbout(r)'
    BY <1>0, <2>2, <2>3, <2>4, <2>6, AboutKept DEF RequestAbout, CopyAbout
  <2>8. req' = [req EXCEPT ![k] = r]
    BY <1>0, <2>2, <2>5
  <2>9. QED BY <1>0, <2>7, <2>8, AboutMoves
<1>10. QED BY <1>1, <1>2, <1>4, <1>5, <1>7, <1>8, <1>9 DEF RecordStep, BeginMutation, BeginProof, SaveLabel, Answer

\* The steps of the incident loop are about their incident's record.
LEMMA IncidentStepAbout ==
    ASSUME TypeInv, LineageInv, NEW k \in Requests, IncidentStep(k)
    PROVE  RequestsAbout'
<1>0. /\ req \in [Requests -> Request] /\ req[k] \in Request /\ RequestOK(req[k]) /\ RequestAbout(req[k])
      /\ [Next]_vars
      /\ \A i \in IncidentIds : incident[i] # None => incident[i] \in Incident /\ Of(i, incident[i].record)
  BY DEF TypeInv, TypeOK, RequestsOK, LineageInv, RequestsAbout, Next, Of
<1>1. CASE Answer(k)
  BY <1>0, <1>1, IdleAbout, AboutMoves DEF Answer
<1>2. ASSUME NEW r, NEW i \in IncidentIds, NEW v, Of(i, v), r.target = i, r.record = v,
             r.step \notin {"idle", "label"}, CopyAbout(r), req' = [req EXCEPT ![k] = r]
      PROVE  RequestsAbout'
  <2>1. RequestAbout(r)'
    BY <1>0, <1>2, AboutKept DEF RequestAbout, CopyAbout
  <2>2. QED BY <1>0, <1>2, <2>1, AboutMoves
<1>3. ASSUME NEW i \in IncidentIds, NEW step \in {"load_replay", "load_test"}, BeginIncident(k, i, step)
      PROVE  RequestsAbout'
  <2>1. PICK r : r = [req[k] EXCEPT !.step = step, !.loop = "incident", !.target = i,
                                    !.record = incident[i].record, !.copy = incident[i]]
    OBVIOUS
  <2>2. req' = [req EXCEPT ![k] = r] /\ Of(i, incident[i].record)
    BY <1>0, <1>3, <2>1 DEF BeginIncident
  <2>3. r.target = i /\ r.record = incident[i].record /\ r.copy = incident[i] /\ r.step = step
    BY <1>0, <2>1 DEF Request
  <2>4. QED BY <1>2, <2>2, <2>3 DEF CopyAbout
<1>4. ASSUME NEW result \in Result, req[k].step \in {"load_replay", "load_test"},
             req' = [req EXCEPT ![k].step = "write", ![k].result = result, ![k].copy = Apply(@, "incident", result)]
      PROVE  RequestsAbout'
  <2>1. PICK row : row = Apply(req[k].copy, "incident", result)
    OBVIOUS
  <2>2. /\ req[k].copy \in Incident /\ req[k].copy.record = req[k].record
        /\ req[k].target \in IncidentIds /\ Of(req[k].target, req[k].record)
    BY <1>0, <1>4, NoneIsNoRow DEF RequestOK, RequestAbout, CopyAbout
  <2>3. row.record = req[k].record
    BY <2>1, <2>2, ApplyKeepsRecord DEF Loops
  <2>4. PICK r : r = [req[k] EXCEPT !.step = "write", !.result = result, !.copy = row]
    OBVIOUS
  <2>5. r.step = "write" /\ r.target = req[k].target /\ r.record = req[k].record /\ r.copy = row
    BY <1>0, <2>4 DEF Request
  <2>6. req' = [req EXCEPT ![k] = r]
    BY <1>0, <1>4, <2>1, <2>4
  <2>7. QED BY <1>2, <2>2, <2>3, <2>5, <2>6 DEF CopyAbout
<1>5. CASE LoadAndReplay(k)
  <2>1. PICK result : result = [of |-> "replay", value |-> ReplaySnapshot(snapshot[req[k].target])]
    OBVIOUS
  <2>2. result \in Result
    BY <2>1 DEF Result, RunStatuses, ReplaySnapshot
  <2>3. QED BY <1>1, <1>4, <1>5, <2>1, <2>2 DEF LoadAndReplay
<1>6. CASE LoadAndTest(k) /\ ~Answer(k)
  <2>1. PICK fix \in Fixes, expected \in Submitted \cup LabelsOf(req[k].target) :
           LET result == [of |-> "test", value |-> RunMutation(snapshot[req[k].target], fix, expected)]
           IN  req' = [req EXCEPT ![k].step = "write", ![k].result = result,
                                  ![k].copy = Apply(@, "incident", result)]
    BY <1>6 DEF LoadAndTest
  <2>2. PICK result : result = [of |-> "test", value |-> RunMutation(snapshot[req[k].target], fix, expected)]
    OBVIOUS
  <2>3. expected \in Outcomes
    BY ConstantsAssumption DEF LabelsOf, TypeInv, TypeOK, VerificationRecord
  <2>4. result \in Result
    BY <2>2, <2>3 DEF Result, MutationTest, Verdicts, RunMutation
  <2>5. QED BY <1>4, <1>6, <2>1, <2>2, <2>4 DEF LoadAndTest
<1>7. ASSUME NEW i \in IncidentIds, BeginIncidentProof(k, i)
      PROVE  RequestsAbout'
  <2>1. PICK result : result = [of |-> "certificate",
           value |-> [loop |-> "incident",
                      claim |-> [record |-> incident[i].record, fix |-> incident[i].mutation.fix,
                                 expected |-> incident[i].mutation.expected]]]
    OBVIOUS
  <2>2. /\ incident[i] \in Incident /\ Of(i, incident[i].record)
        /\ incident[i].mutation \in MutationTest /\ incident[i].record \in Records
    BY <1>0, <1>7 DEF BeginIncidentProof, Incident
  <2>3. result \in Result
    BY <2>1, <2>2 DEF Result, Certificate, Claim, MutationTest, Loops
  <2>4. PICK row : row = Apply(incident[i], "incident", result)
    OBVIOUS
  <2>5. row.record = incident[i].record
    BY <2>2, <2>3, <2>4, ApplyKeepsRecord DEF Loops
  <2>6. PICK r : r = [step |-> "read_back", loop |-> "incident", record |-> incident[i].record,
                      row |-> None, target |-> i, copy |-> row, reread |-> None, result |-> result]
    OBVIOUS
  <2>7. req' = [req EXCEPT ![k] = r]
    BY <1>7, <2>1, <2>4, <2>6 DEF BeginIncidentProof
  <2>8. CopyAbout(r)
    BY <2>5, <2>6 DEF CopyAbout
  <2>9. QED BY <1>2, <2>2, <2>6, <2>7, <2>8
<1>8. ASSUME NEW step \in {"write", "write_again", "read_back"}, req' = [req EXCEPT ![k].step = step],
             req[k].target \in IncidentIds, req[k].step \notin {"idle", "label"},
             req[k].copy.record = req[k].record \/ (step = "read_back" /\ req[k].loop = "record")
      PROVE  RequestsAbout'
  <2>1. PICK r : r = [req[k] EXCEPT !.step = step]
    OBVIOUS
  <2>2. /\ r.step = step /\ r.target = req[k].target /\ r.record = req[k].record
        /\ r.copy = req[k].copy /\ r.loop = req[k].loop
    BY <1>0, <2>1 DEF Request
  <2>3. Of(req[k].target, req[k].record)
    BY <1>0, <1>8, NoneIsNoRow DEF RequestAbout
  <2>4. CopyAbout(r)
    BY <1>8, <2>2 DEF CopyAbout
  <2>5. req' = [req EXCEPT ![k] = r]
    BY <1>0, <1>8, <2>1
  <2>6. QED BY <1>2, <1>8, <2>2, <2>3, <2>4, <2>5
<1>9. CASE Write(k) /\ ~Answer(k)
  <2>1. req[k].target \in IncidentIds /\ req[k].copy.record = req[k].record /\ req[k].step \notin {"idle", "label"}
    BY <1>0, <1>9 DEF Write, RequestOK, RequestAbout, CopyAbout
  <2>2. PICK step \in {"write_again", "read_back"} : req' = [req EXCEPT ![k].step = step]
    BY <1>9 DEF Write
  <2>3. QED BY <1>8, <2>1, <2>2
<1>10. CASE ReadBack(k)
  <2>1. PICK i, row, r : /\ i = req[k].target /\ row = incident[i]
                         /\ r = [req[k] EXCEPT !.step = "store", !.reread = row]
    OBVIOUS
  <2>2. i \in IncidentIds /\ Of(i, req[k].record)
    BY <1>0, <1>10, <2>1, NoneIsNoRow DEF ReadBack, RequestOK, RequestAbout
  <2>3. /\ r.step = "store" /\ r.target = i /\ r.record = req[k].record /\ r.reread = row
        /\ r.copy = req[k].copy /\ r.loop = req[k].loop
    BY <1>0, <2>1 DEF Request
  <2>4. CopyAbout(r)
    BY <1>0, <1>10, <2>1, <2>2, <2>3 DEF ReadBack, RequestAbout, CopyAbout, Of
  <2>5. req' = [req EXCEPT ![k] = r]
    BY <1>0, <1>10, <2>1 DEF ReadBack
  <2>6. QED BY <1>2, <2>2, <2>3, <2>4, <2>5
<1>11. CASE StoreCertificate(k) /\ ~Answer(k)
  <2>1. req[k].target \in IncidentIds /\ req[k].step = "store" /\ req[k].loop = "incident"
    BY <1>0, <1>11 DEF StoreCertificate, RequestOK
  <2>2. req[k].copy.record = req[k].record
    BY <1>0, <2>1 DEF RequestAbout, CopyAbout
  <2>3. QED BY <1>8, <1>11, <2>1, <2>2 DEF StoreCertificate
<1>12. QED BY <1>1, <1>3, <1>5, <1>6, <1>7, <1>9, <1>10, <1>11
           DEF IncidentStep, BeginIncidentReplay, BeginIncidentMutation

\* Incidents stay numbered from one up, as long as no two creators count before one inserts.
LEMMA CreatorAbout ==
    ASSUME TypeInv, LineageInv, OneInsertion, NEW q \in Creators, MakingStep(q) \/ AbortMaking(q)
    PROVE  Numbered' /\ \A p \in Creators : making[p]' # None => MakingAbout(making[p])'
<1>0. /\ making \in [Creators -> Making \cup {None}]
      /\ making[q] # None => making[q] \in Making /\ MakingAbout(making[q])
      /\ making[q] # None /\ making[q].step # "count" => making[q].id \in IncidentIds
      /\ \A p \in Creators : Making_(q, "insert") /\ Making_(p, "insert") => p = q
      /\ [Next]_vars
  BY DEF TypeInv, TypeOK, MakingOK, LineageInv, OneInsertion, Next
<1>1. ASSUME Used' = Used
      PROVE  Numbered'
  BY <1>1 DEF Numbered, LineageInv
<1>2. ASSUME NEW p \in Creators, p # q, NEW m, m = making[p], m # None,
             Used' = Used \/ m.step # "insert"
      PROVE  MakingAbout(m)'
  <2>1. m \in Making /\ MakingAbout(m) /\ (m.step # "count" => m.id \in IncidentIds)
    BY <1>0, <1>2 DEF LineageInv, TypeInv, MakingOK
  <2>2. m.record \in Records /\ m.step \in MakingSteps
    BY <2>1 DEF Making
  <2>3. m.step \in {"custody", "snapshot", "custody_again", "link"} => Of(m.id, m.record)'
    BY <1>0, <2>1, AboutKept DEF MakingAbout
  <2>4. m.step \in {"custody_again", "link"} => (snapshot[m.id] = m.record)'
    BY <1>0, <2>1, SnapshotsKept DEF MakingAbout, Complete
  <2>5. QED BY <1>2, <2>1, <2>3, <2>4 DEF MakingAbout
<1>3. ASSUME Used' = Used, NEW m, MakingAbout(m)', making' = [making EXCEPT ![q] = m]
      PROVE  Numbered' /\ \A p \in Creators : making[p]' # None => MakingAbout(making[p])'
  <2>1. ASSUME NEW p \in Creators, NEW s, s = making'[p], s # None
        PROVE  MakingAbout(s)'
    BY <1>0, <1>2, <1>3, <2>1
  <2>2. QED BY <1>1, <1>3, <2>1
<1>4. ASSUME Used' = Used, making' = [making EXCEPT ![q] = None]
      PROVE  Numbered' /\ \A p \in Creators : making[p]' # None => MakingAbout(making[p])'
  <2>1. ASSUME NEW p \in Creators, NEW s, s = making'[p], s # None
        PROVE  MakingAbout(s)'
    BY <1>0, <1>2, <1>4, <2>1
  <2>2. QED BY <1>1, <1>4, <2>1
<1>5. ASSUME NEW v \in Records, BeginIngest(q, v) \/ BeginPromote(q, v)
      PROVE  Numbered' /\ \A p \in Creators : making[p]' # None => MakingAbout(making[p])'
  <2>1. PICK row : making' = [making EXCEPT ![q] = [step |-> "count", record |-> v, row |-> row, id |-> NoIncident]]
    BY <1>5 DEF BeginIngest, BeginPromote
  <2>2. PICK m : m = [step |-> "count", record |-> v, row |-> row, id |-> NoIncident]
    OBVIOUS
  <2>3. MakingAbout(m)'
    BY <2>2 DEF MakingAbout
  <2>4. Used' = Used
    BY <1>5 DEF BeginIngest, BeginPromote, rows, Used
  <2>5. QED BY <1>3, <2>1, <2>2, <2>3, <2>4
<1>6. CASE CountIncidents(q)
  <2>1. PICK n \in 0 .. MaxIncidents : Used = 1 .. n
    BY DEF LineageInv, Numbered
  <2>2. Cardinality(1 .. n) = n
    BY <2>1, FS_Interval, ConstantsAssumption
  <2>3. PICK next : /\ next = Cardinality({i \in IncidentIds : incident[i] # None}) + 1
                    /\ next \in IncidentIds /\ making[q] # None
                    /\ making' = [making EXCEPT ![q].step = "insert", ![q].id = next]
    BY <1>6 DEF CountIncidents, Making_
  <2>4. next = n + 1
    BY <2>1, <2>2, <2>3 DEF Used
  <2>5. PICK m : m = [making[q] EXCEPT !.step = "insert", !.id = next]
    OBVIOUS
  <2>6. m.step = "insert" /\ m.id = next /\ making' = [making EXCEPT ![q] = m]
    BY <1>0, <2>3, <2>5 DEF Making
  <2>7. Used' = Used
    BY <1>6 DEF CountIncidents, rows, Used
  <2>8. Used' = 1 .. (m.id - 1)
    BY <2>1, <2>4, <2>6, <2>7
  <2>9. MakingAbout(m)'
    BY <2>6, <2>8 DEF MakingAbout
  <2>10. QED BY <1>3, <2>6, <2>7, <2>9
<1>7. CASE InsertIncident(q)
  <2>0. making[q] # None /\ making[q] \in Making /\ MakingAbout(making[q]) /\ making[q].id \in IncidentIds
    BY <1>0, <1>7 DEF InsertIncident, Making_
  <2>1. PICK next \in {"custody", "snapshot", "link"} :
           /\ making' = [making EXCEPT ![q].step = next]
           /\ next = "link" => making[q].step = "custody_again"
    BY <1>7 DEF InsertIncident, Making_
  <2>2. PICK m : m = [making[q] EXCEPT !.step = next]
    OBVIOUS
  <2>3. m.step = next /\ m.id = making[q].id /\ m.record = making[q].record /\ making' = [making EXCEPT ![q] = m]
    BY <2>0, <2>1, <2>2 DEF Making
  <2>4. incident'[m.id] # None /\ incident'[m.id].record = m.record
    BY <1>7, <2>3, InsertNumbered
  <2>5. snapshot' = snapshot /\ (next = "link" => snapshot[m.id] = m.record)
    BY <1>7, <2>0, <2>1, <2>3 DEF InsertIncident, MakingAbout
  <2>6. MakingAbout(m)'
    BY <2>1, <2>3, <2>4, <2>5 DEF MakingAbout, Of
  <2>7. Numbered'
    <3>1. CASE Used' = Used
      BY <1>1, <3>1
    <3>2. CASE Used' = 1 .. making[q].id
      <4>1. PICK n : n = making[q].id
        OBVIOUS
      <4>2. n \in 0 .. MaxIncidents
        BY <2>0, <4>1 DEF IncidentIds
      <4>3. Used' = 1 .. n
        BY <3>2, <4>1
      <4>4. QED BY <4>2, <4>3 DEF Numbered
    <3>3. QED BY <1>7, <3>1, <3>2, InsertNumbered
  <2>8. ASSUME NEW p \in Creators, p # q, NEW s, s = making[p], s # None
        PROVE  MakingAbout(s)'
    <3>1. Used' = Used \/ s.step # "insert"
      <4>1. CASE making[q].step = "insert"
        BY <1>0, <2>0, <2>8, <4>1 DEF Making_
      <4>2. CASE making[q].step # "insert"
        BY <1>7, <4>2, InsertNumbered
      <4>3. QED BY <4>1, <4>2
    <3>2. QED BY <1>2, <2>8, <3>1
  <2>9. ASSUME NEW p \in Creators, NEW s, s = making'[p], s # None
        PROVE  MakingAbout(s)'
    <3>1. CASE p = q
      BY <1>0, <2>3, <2>6, <2>9, <3>1
    <3>2. CASE p # q
      <4>1. s = making[p]
        BY <1>0, <2>1, <2>9, <3>2
      <4>2. QED BY <2>8, <2>9, <3>2, <4>1
    <3>3. QED BY <3>1, <3>2
  <2>10. QED BY <2>7, <2>9
<1>8. CASE StoreSnapshot(q)
  <2>0. making[q] # None /\ making[q] \in Making /\ MakingAbout(making[q]) /\ making[q].id \in IncidentIds
    BY <1>0, <1>8 DEF StoreSnapshot, Making_
  <2>1. PICK next \in {"custody_again", "link"} : making' = [making EXCEPT ![q].step = next]
    BY <1>8 DEF StoreSnapshot
  <2>2. PICK m : m = [making[q] EXCEPT !.step = next]
    OBVIOUS
  <2>3. m.step = next /\ m.id = making[q].id /\ m.record = making[q].record /\ making' = [making EXCEPT ![q] = m]
    BY <2>0, <2>1, <2>2 DEF Making
  <2>4. Used' = Used
    BY <1>8 DEF StoreSnapshot, Used
  <2>5. snapshot'[m.id] = m.record
    BY <1>8, <2>0, <2>3 DEF StoreSnapshot, TypeInv, TypeOK
  <2>6. Of(m.id, m.record)'
    BY <1>0, <1>8, <2>0, <2>3, AboutKept DEF StoreSnapshot, Making_, MakingAbout
  <2>7. MakingAbout(m)'
    BY <2>1, <2>3, <2>5, <2>6 DEF MakingAbout
  <2>8. QED BY <1>3, <2>3, <2>4, <2>7
<1>9. CASE LinkRecord(q) \/ AbortMaking(q)
  <2>1. making' = [making EXCEPT ![q] = None] /\ Used' = Used
    BY <1>9 DEF LinkRecord, AbortMaking, rows, Used
  <2>2. QED BY <1>4, <2>1
<1>10. QED BY <1>5, <1>6, <1>7, <1>8, <1>9 DEF MakingStep

\* A record is only ever given an incident that is complete.
LEMMA PromotionsKept ==
    ASSUME TypeInv, LineageInv, [Next]_vars
    PROVE  PromotionIsComplete'
<1>0. /\ vr \in [Records -> VerificationRecord \cup {None}]
      /\ \A v \in Records : vr[v] # None /\ vr[v].promoted # NoIncident =>
            vr[v].promoted \in IncidentIds /\ Complete(vr[v].promoted, v)
  BY DEF TypeInv, TypeOK, LineageInv, VerificationRecord, PromotionIsComplete, Complete, Of
<1>1. ASSUME vr' = vr
      PROVE  PromotionIsComplete'
  <2>1. ASSUME NEW v \in Records, NEW i, i = vr'[v].promoted, vr'[v] # None, i # NoIncident
        PROVE  Complete(i, v)'
    BY <1>0, <1>1, <2>1, AboutKept
  <2>2. QED BY <2>1 DEF PromotionIsComplete, Complete, Of
<1>2. ASSUME NEW u \in Records, NEW row, vr' = [vr EXCEPT ![u] = row],
             row.promoted # NoIncident => row.promoted \in IncidentIds /\ Complete(row.promoted, u)
      PROVE  PromotionIsComplete'
  <2>1. ASSUME NEW v \in Records, NEW i, i = vr'[v].promoted, vr'[v] # None, i # NoIncident
        PROVE  Complete(i, v)'
    BY <1>0, <1>2, <2>1, AboutKept
  <2>2. QED BY <2>1 DEF PromotionIsComplete, Complete, Of
<1>3. ASSUME NEW v \in Records, Capture(v)
      PROVE  PromotionIsComplete'
  <2>1. PICK row : row = [label |-> None, promoted |-> NoIncident]
    OBVIOUS
  <2>2. QED BY <1>2, <1>3, <2>1 DEF Capture
<1>4. ASSUME NEW k \in Requests, SaveLabel(k)
      PROVE  PromotionIsComplete'
  <2>1. PICK r : r = req[k]
    OBVIOUS
  <2>2. /\ r \in Request /\ RequestOK(r) /\ RequestAbout(r) /\ r.step = "label"
        /\ vr' = [vr EXCEPT ![r.record] = r.row]
    BY <1>4, <2>1 DEF SaveLabel, TypeInv, TypeOK, RequestsOK, LineageInv, RequestsAbout
  <2>3. r.record \in Records /\ r.row \in VerificationRecord
        /\ (r.row.promoted # NoIncident => r.row.promoted \in IncidentIds /\ Complete(r.row.promoted, r.record))
    BY <2>2 DEF Request, RequestOK, RequestAbout, VerificationRecord
  <2>4. QED BY <1>2, <2>2, <2>3
<1>5. ASSUME NEW q \in Creators, LinkRecord(q)
      PROVE  PromotionIsComplete'
  <2>1. PICK m, row : /\ m = making[q]
                      /\ row = [label |-> IF m.row = None THEN None ELSE m.row.label, promoted |-> m.id]
    OBVIOUS
  <2>2. /\ m \in Making /\ m.id \in IncidentIds /\ MakingAbout(m) /\ m.step = "link"
        /\ vr' = [vr EXCEPT ![m.record] = row]
    BY <1>5, <2>1 DEF LinkRecord, Making_, TypeInv, TypeOK, MakingOK, LineageInv
  <2>3. m.record \in Records /\ row.promoted = m.id /\ Complete(m.id, m.record)
    BY <2>1, <2>2 DEF Making, MakingAbout, Complete
  <2>4. QED BY <1>2, <2>2, <2>3
<1>6. ASSUME NEW k \in Requests, RecordStep(k), ~SaveLabel(k)
      PROVE  vr' = vr
  BY <1>6 DEF RecordStep, BeginLabel, BeginReplay, BeginMutation, BeginProof, BeginRecord, CheckRun,
              CheckTest, Save, FetchIncident, rows
<1>7. ASSUME NEW k \in Requests, IncidentStep(k)
      PROVE  vr' = vr
  <2>1. CASE \E i \in IncidentIds : BeginIncidentReplay(k, i) \/ BeginIncidentMutation(k, i) \/ BeginIncidentProof(k, i)
    BY <2>1 DEF BeginIncidentReplay, BeginIncidentMutation, BeginIncident, BeginIncidentProof, rows
  <2>2. CASE LoadAndReplay(k) \/ LoadAndTest(k) \/ ReadBack(k)
    BY <2>2 DEF LoadAndReplay, LoadAndTest, ReadBack, rows
  <2>3. CASE Write(k) \/ StoreCertificate(k)
    BY <2>3 DEF Write, StoreCertificate
  <2>4. QED BY <1>7, <2>1, <2>2, <2>3 DEF IncidentStep
<1>8. ASSUME NEW q \in Creators, MakingStep(q) \/ AbortMaking(q), ~LinkRecord(q)
      PROVE  vr' = vr
  BY <1>8 DEF MakingStep, AbortMaking, BeginIngest, BeginPromote, CountIncidents, InsertIncident, StoreSnapshot, rows
<1>9. QED BY <1>1, <1>3, <1>4, <1>5, <1>6, <1>7, <1>8 DEF Next, Abort, vars, rows

\* The invariant is inductive while counts and insertions do not overlap.
LEMMA LineageNext ==
    ASSUME TypeInv, LineageInv, OneInsertion, [Next]_vars
    PROVE  LineageInv'
<1>1. RequestsAbout'
  <2>1. CASE \E k \in Requests : RecordStep(k) \/ IncidentStep(k)
    BY <2>1, RecordStepAbout, IncidentStepAbout
  <2>2. CASE \E k \in Requests : Abort(k)
    <3>1. PICK k \in Requests : Abort(k)
      BY <2>2
    <3>2. req' = [req EXCEPT ![k] = Idle]
      BY <3>1 DEF Abort, Answer
    <3>3. QED BY <3>2, IdleAbout, AboutMoves DEF RequestsAbout
  <2>3. CASE req' = req
    <3>1. ASSUME NEW j \in Requests, NEW s, s = req'[j]
          PROVE  RequestAbout(s)'
      BY <2>3, <3>1, AboutKept DEF TypeInv, TypeOK, RequestsOK, LineageInv, RequestsAbout
    <3>2. QED BY <3>1 DEF RequestsAbout
  <2>4. (\E q \in Creators : MakingStep(q) \/ AbortMaking(q)) \/ (\E v \in Records : Capture(v)) \/ UNCHANGED vars
        => req' = req
    BY DEF MakingStep, AbortMaking, BeginIngest, BeginPromote, CountIncidents, InsertIncident, StoreSnapshot,
           LinkRecord, Capture, vars, rows
  <2>5. QED BY <2>1, <2>2, <2>3, <2>4 DEF Next
<1>2. Numbered' /\ \A p \in Creators : making[p]' # None => MakingAbout(making[p])'
  <2>1. CASE \E q \in Creators : MakingStep(q) \/ AbortMaking(q)
    BY <2>1, CreatorAbout
  <2>2. CASE ~\E q \in Creators : MakingStep(q) \/ AbortMaking(q)
    <3>1. making' = making /\ Used' = Used
      <4>1. CASE \E k \in Requests : RecordStep(k) \/ IncidentStep(k) \/ Abort(k)
        BY <4>1, RequestsWrite, WritesKeepRecord DEF Used
      <4>2. CASE (\E v \in Records : Capture(v)) \/ UNCHANGED vars
        BY <4>2 DEF Capture, vars, rows, Used
      <4>3. QED BY <2>2, <4>1, <4>2 DEF Next
    <3>2. ASSUME NEW p \in Creators, NEW m, m = making'[p], m # None
          PROVE  MakingAbout(m)'
      <4>1. m \in Making /\ MakingAbout(m) /\ (m.step # "count" => m.id \in IncidentIds)
        BY <3>1, <3>2 DEF LineageInv, TypeInv, TypeOK, MakingOK
      <4>2. m.step \in MakingSteps
        BY <4>1 DEF Making
      <4>3. m.step \in {"custody", "snapshot", "custody_again", "link"} => Of(m.id, m.record)'
        BY <4>1, AboutKept DEF MakingAbout
      <4>4. m.step \in {"custody_again", "link"} => (snapshot[m.id] = m.record)'
        BY <4>1, SnapshotsKept DEF MakingAbout, Complete
      <4>5. QED BY <3>1, <4>1, <4>3, <4>4 DEF MakingAbout
    <3>3. Numbered'
      BY <3>1 DEF LineageInv, Numbered
    <3>4. QED BY <3>2, <3>3
  <2>3. QED BY <2>1, <2>2
<1>3. (\A i \in IncidentIds : snapshot[i] # None => Of(i, snapshot[i]))'
  <2>1. ASSUME NEW i \in IncidentIds, NEW v, v = snapshot'[i], v # None
        PROVE  Of(i, v)'
    BY <2>1, SnapshotsKept DEF Of
  <2>2. QED BY <2>1
<1>4. QED BY <1>1, <1>2, <1>3, PromotionsKept DEF LineageInv

\* Initially there are no incidents, and nobody knows of one.
LEMMA LineageInit == Init => LineageInv
<1> SUFFICES ASSUME Init PROVE LineageInv OBVIOUS
<1>1. Used = 1 .. 0
  BY DEF Init, Used
<1>2. Numbered
  <2>1. PICK n : n = 0
    OBVIOUS
  <2>2. n \in 0 .. MaxIncidents /\ Used = 1 .. n
    BY <1>1, <2>1, ConstantsAssumption
  <2>3. QED BY <2>2 DEF Numbered
<1>3. RequestsAbout
  BY IdleType DEF Init, RequestsAbout, RequestAbout, CopyAbout
<1>4. QED BY <1>2, <1>3 DEF Init, LineageInv, PromotionIsComplete

\* A record names an incident only once that exists, holds its snapshot and was
\* created from that record, if no two creators count the incidents before one
\* of them inserts its own (create_incident_from_vr, ingest_snapshot).
THEOREM PromotionComplete == Spec /\ []OneInsertion => []PromotionIsComplete
<1>1. LineageInv => PromotionIsComplete
  BY DEF LineageInv
<1>2. QED BY <1>1, TypeInit, TypeNext, LineageInit, LineageNext, PTL DEF Spec

\* One slot for creating incidents gives that hypothesis.
LEMMA OneSlotCreates ==
    ASSUME \A p, q \in Creators : p = q
    PROVE  []OneInsertion
<1>1. OneInsertion
  BY DEF OneInsertion
<1>2. QED BY <1>1, PTL

-------------------------------------------------------------------------------
(* What a row of an incident states is true of its record. *)

TestTrue(test, v) == test.verdict = "verified" => Works(v, test.fix, test.expected)
ClaimTrue(claim, v) == claim.record = v /\ Sound(claim)

RowTrue(row) ==
    /\ row.mutation # None => TestTrue(row.mutation, row.record)
    /\ row.certificate # None =>
          /\ ClaimTrue(row.certificate.claim, row.record)
          /\ row.certificate.loop = "record" => row.certificate.claim \in proofs

CopyTrue(r) ==
    /\ \/ r.step \in {"load_replay", "load_test", "write", "write_again"}
       \/ r.step \in {"read_back", "store"} /\ r.loop = "incident"
       => RowTrue(r.copy)
    /\ r.step = "store" => RowTrue(r.reread)

ResultTrue(r) ==
    r.step \in {"save", "fetch", "write", "write_again", "read_back", "store"} =>
        /\ r.result.of = "test" => TestTrue(r.result.value, r.record)
        /\ r.result.of = "certificate" =>
              /\ ClaimTrue(r.result.value.claim, r.record)
              /\ r.step # "save" /\ r.result.value.loop = "record" => r.result.value.claim \in proofs

RequestsTrue == \A k \in Requests : CopyTrue(req[k]) /\ ResultTrue(req[k])

RowsTrue ==
    /\ \A i \in IncidentIds : incident[i] # None => RowTrue(incident[i])
    /\ RequestsTrue

\* A result that is true of an incident's record keeps the incident's row true.
LEMMA ApplyTrue ==
    ASSUME NEW row \in Incident, RowTrue(row), NEW loop \in Loops, NEW result \in Result,
           result.of = "test" => TestTrue(result.value, row.record),
           result.of = "certificate" =>
              /\ ClaimTrue(result.value.claim, row.record)
              /\ result.value.loop = "record" => result.value.claim \in proofs
    PROVE  RowTrue(Apply(row, loop, result))
<1> PICK new : new = Apply(row, loop, result)
  OBVIOUS
<1>0. new.record = row.record
  BY ApplyKeepsRecord
<1>1. CASE result.of = "replay"
  <2>1. new.mutation = row.mutation /\ new.certificate = row.certificate
    BY <1>1 DEF Apply, Incident
  <2>2. QED BY <1>0, <2>1 DEF RowTrue
<1>2. CASE result.of = "test"
  <2>1. new.mutation = result.value /\ new.certificate = row.certificate
    BY <1>2 DEF Apply, Incident
  <2>2. QED BY <1>0, <1>2, <2>1 DEF RowTrue
<1>3. CASE result.of = "certificate"
  <2>1. new.mutation = row.mutation /\ new.certificate = result.value
    BY <1>3 DEF Apply, Incident
  <2>2. QED BY <1>0, <1>3, <2>1 DEF RowTrue
<1>4. QED BY <1>1, <1>2, <1>3 DEF Result

\* Certificates of the record loop are never withdrawn, and what was true stays so.
LEMMA TrueKept ==
    ASSUME TypeInv, [Next]_vars
    PROVE  /\ proofs \subseteq proofs'
           /\ \A row \in Incident : RowTrue(row) => RowTrue(row)'
           /\ \A r \in Request : CopyTrue(r) /\ ResultTrue(r) => CopyTrue(r)' /\ ResultTrue(r)'
<1>1. proofs \subseteq proofs'
  BY HistoryStays DEF Save, SaveRow
<1>2. ASSUME NEW row, RowTrue(row)
      PROVE  RowTrue(row)'
  BY <1>1, <1>2 DEF RowTrue, TestTrue, ClaimTrue, Sound, Works
<1>3. ASSUME NEW r \in Request, CopyTrue(r), ResultTrue(r)
      PROVE  CopyTrue(r)' /\ ResultTrue(r)'
  <2>1. CopyTrue(r)'
    BY <1>2, <1>3 DEF CopyTrue
  <2>2. ResultTrue(r)'
    BY <1>1, <1>3 DEF ResultTrue, TestTrue, ClaimTrue, Sound, Works
  <2>3. QED BY <2>1, <2>2
<1>4. QED BY <1>1, <1>2, <1>3

\* A slot without a request has found nothing.
LEMMA IdleTrue == CopyTrue(Idle)' /\ ResultTrue(Idle)'
  BY IdleType DEF CopyTrue, ResultTrue

\* One request moves: the others hold what they held.
LEMMA TrueMoves ==
    ASSUME TypeInv, RowsTrue, [Next]_vars, NEW k \in Requests, NEW r, CopyTrue(r)', ResultTrue(r)',
           req' = [req EXCEPT ![k] = r]
    PROVE  RequestsTrue'
<1>1. ASSUME NEW j \in Requests, NEW s, s = req'[j]
      PROVE  CopyTrue(s)' /\ ResultTrue(s)'
  <2>1. CASE j = k
    BY <1>1, <2>1 DEF TypeInv, TypeOK
  <2>2. CASE j # k
    <3>1. s = req[j] /\ s \in Request /\ CopyTrue(s) /\ ResultTrue(s)
      BY <1>1, <2>2 DEF TypeInv, TypeOK, RowsTrue, RequestsTrue
    <3>2. QED BY <3>1, TrueKept
  <2>3. QED BY <2>1, <2>2
<1>2. QED BY <1>1 DEF RequestsTrue

\* What the record loop finds out is true of the record.
LEMMA RecordStepTrue ==
    ASSUME TypeInv, SoundInv, LineageInv, RowsTrue, NEW k \in Requests, RecordStep(k)
    PROVE  RequestsTrue'
<1>0. /\ req \in [Requests -> Request] /\ req[k] \in Request /\ RequestOK(req[k]) /\ RequestAbout(req[k])
      /\ CopyTrue(req[k]) /\ ResultTrue(req[k]) /\ [Next]_vars
  BY DEF TypeInv, TypeOK, RequestsOK, LineageInv, RequestsAbout, RowsTrue, RequestsTrue, Next
<1>1. CASE Answer(k)
  BY <1>0, <1>1, IdleTrue, TrueMoves DEF Answer
<1>2. ASSUME NEW v \in Records, BeginLabel(k, v) \/ BeginMutation(k, v) \/ BeginProof(k, v)
      PROVE  RequestsTrue'
  <2>1. PICK r : r = req'[k]
    OBVIOUS
  <2>2. r.step \in {"label", "check_run", "check_test"} /\ req' = [req EXCEPT ![k] = r]
    BY <1>0, <1>2, <2>1 DEF BeginLabel, BeginMutation, BeginProof, BeginRecord, Request
  <2>3. CopyTrue(r)' /\ ResultTrue(r)'
    BY <2>2 DEF CopyTrue, ResultTrue
  <2>4. QED BY <1>0, <2>2, <2>3, TrueMoves
<1>3. ASSUME NEW v \in Records, BeginReplay(k, v)
      PROVE  RequestsTrue'
  <2>1. PICK r : r = req'[k]
    OBVIOUS
  <2>2. PICK status \in ReplayOutcomes(v) :
           req' = [req EXCEPT ![k].step = "save", ![k].record = v, ![k].row = vr[v],
                              ![k].target = IF status = "incomplete" THEN NoIncident ELSE vr[v].promoted,
                              ![k].result = [of |-> "replay", value |-> status]]
    BY <1>3 DEF BeginReplay
  <2>3. r.step = "save" /\ r.result.of = "replay" /\ req' = [req EXCEPT ![k] = r]
    BY <1>0, <2>1, <2>2 DEF Request
  <2>4. CopyTrue(r)' /\ ResultTrue(r)'
    BY <2>3 DEF CopyTrue, ResultTrue
  <2>5. QED BY <1>0, <2>3, <2>4, TrueMoves
<1>4. CASE CheckRun(k) /\ ~Answer(k)
  <2>1. PICK v \in Records : v = req[k].record
    BY <1>0 DEF Request
  <2>2. PICK fix \in Fixes, expected \in Submitted \cup ({req[k].row.label} \ {None}) :
           \E test \in {RunMutation(v, fix, expected), [fix |-> fix, expected |-> expected, verdict |-> "error"]} :
              Found(k, "save", [of |-> "test", value |-> test])
    BY <1>4, <2>1 DEF CheckRun
  <2>3. PICK test \in {RunMutation(v, fix, expected), [fix |-> fix, expected |-> expected, verdict |-> "error"]} :
           Found(k, "save", [of |-> "test", value |-> test])
    BY <2>2
  <2>4. TestTrue(test, v)
    BY <2>3 DEF TestTrue, RunMutation
  <2>5. PICK r : r = req'[k]
    OBVIOUS
  <2>6. r.step = "save" /\ r.result = [of |-> "test", value |-> test] /\ r.record = v /\ req' = [req EXCEPT ![k] = r]
    BY <1>0, <2>1, <2>3, <2>5 DEF Found, Request
  <2>7. CopyTrue(r)' /\ ResultTrue(r)'
    BY <2>4, <2>6 DEF CopyTrue, ResultTrue, TestTrue, Works
  <2>8. QED BY <1>0, <2>6, <2>7, TrueMoves
<1>5. CASE CheckTest(k) /\ ~Answer(k)
  <2>1. PICK v, test, claim : /\ v \in Records /\ v = req[k].record /\ test = Last(tests[v])
                              /\ claim = [record |-> v, fix |-> test.fix, expected |-> test.expected]
    BY <1>0 DEF Request
  <2>2. /\ tests[v] # <<>> /\ test.verdict = "verified"
        /\ Found(k, "save", [of |-> "certificate", value |-> [loop |-> "record", claim |-> claim]])
    BY <1>5, <2>1 DEF CheckTest
  <2>3. Len(tests[v]) \in DOMAIN tests[v] /\ test = tests[v][Len(tests[v])]
    BY <2>1, <2>2 DEF TypeInv, TypeOK, Last
  <2>4. Works(v, test.fix, test.expected)
    BY <2>1, <2>2, <2>3 DEF SoundInv, TestsBacked, Backed
  <2>5. ClaimTrue(claim, v)
    BY <2>1, <2>4 DEF ClaimTrue, Sound
  <2>6. PICK r : r = req'[k]
    OBVIOUS
  <2>7. /\ r.step = "save" /\ r.result = [of |-> "certificate", value |-> [loop |-> "record", claim |-> claim]]
        /\ r.record = v /\ req' = [req EXCEPT ![k] = r]
    BY <1>0, <2>1, <2>2, <2>6 DEF Found, Request
  <2>8. CopyTrue(r)' /\ ResultTrue(r)'
    BY <2>5, <2>7 DEF CopyTrue, ResultTrue, ClaimTrue, Sound, Works
  <2>9. QED BY <1>0, <2>7, <2>8, TrueMoves
<1>6. CASE Save(k) /\ ~Answer(k)
  <2>1. PICK r : r = req'[k]
    OBVIOUS
  <2>2. /\ r.step = "fetch" /\ r.result = req[k].result /\ r.record = req[k].record
        /\ req[k].step = "save" /\ req' = [req EXCEPT ![k] = r]
    BY <1>0, <1>6, <2>1 DEF Save, Request
  <2>3. r.result.of = "certificate" => r.result.value.claim \in proofs'
    BY <1>6, <2>2 DEF Save, SaveRow
  <2>4. CopyTrue(r)' /\ ResultTrue(r)'
    BY <1>0, <2>2, <2>3 DEF CopyTrue, ResultTrue, TestTrue, ClaimTrue, Sound, Works
  <2>5. QED BY <1>0, <2>2, <2>4, TrueMoves
<1>7. CASE FetchIncident(k) /\ ~Answer(k)
  <2>1. PICK i, row, r : /\ i = req[k].target /\ row = Apply(incident[i], "record", req[k].result)
                         /\ r = [req[k] EXCEPT !.step = "write", !.copy = row]
    OBVIOUS
  <2>2. /\ i \in IncidentIds /\ req[k].result \in Result /\ incident[i] \in Incident /\ incident[i] # None
        /\ req' = [req EXCEPT ![k].step = "write", ![k].copy = row] /\ req[k].step = "fetch"
    BY <1>0, <1>7, <2>1 DEF FetchIncident, RequestOK, TypeInv, TypeOK
  <2>3. incident[i].record = req[k].record /\ RowTrue(incident[i])
    BY <1>0, <2>1, <2>2, NoneIsNoRow DEF RequestAbout, Of, RowsTrue
  <2>4. RowTrue(row)
    BY <1>0, <2>1, <2>2, <2>3, ApplyTrue DEF ResultTrue, Loops
  <2>5. r.step = "write" /\ r.record = req[k].record /\ r.copy = row /\ r.result = req[k].result
    BY <1>0, <2>1 DEF Request
  <2>6. CopyTrue(r) /\ ResultTrue(r)
    BY <1>0, <2>2, <2>4, <2>5 DEF CopyTrue, ResultTrue
  <2>7. proofs' = proofs
    BY <1>7 DEF FetchIncident, rows
  <2>8. CopyTrue(r)' /\ ResultTrue(r)'
    BY <2>6, <2>7 DEF CopyTrue, ResultTrue, RowTrue, TestTrue, ClaimTrue, Sound, Works
  <2>9. req' = [req EXCEPT ![k] = r]
    BY <1>0, <2>1, <2>2
  <2>10. QED BY <1>0, <2>8, <2>9, TrueMoves
<1>8. QED BY <1>1, <1>2, <1>3, <1>4, <1>5, <1>6, <1>7 DEF RecordStep, SaveLabel, Answer

\* What the incident loop finds out is true of the incident's record.
LEMMA IncidentStepTrue ==
    ASSUME TypeInv, LineageInv, RowsTrue, NEW k \in Requests, IncidentStep(k)
    PROVE  RequestsTrue'
<1>0. /\ req \in [Requests -> Request] /\ req[k] \in Request /\ RequestOK(req[k]) /\ RequestAbout(req[k])
      /\ CopyTrue(req[k]) /\ ResultTrue(req[k]) /\ [Next]_vars
      /\ \A i \in IncidentIds : incident[i] # None => incident[i] \in Incident /\ RowTrue(incident[i])
  BY DEF TypeInv, TypeOK, RequestsOK, LineageInv, RequestsAbout, RowsTrue, RequestsTrue, Next
<1>p. proofs' = proofs
  <2>1. CASE \E i \in IncidentIds : BeginIncidentReplay(k, i) \/ BeginIncidentMutation(k, i) \/ BeginIncidentProof(k, i)
    BY <2>1 DEF BeginIncidentReplay, BeginIncidentMutation, BeginIncident, BeginIncidentProof, rows
  <2>2. CASE LoadAndReplay(k) \/ LoadAndTest(k) \/ ReadBack(k)
    BY <2>2 DEF LoadAndReplay, LoadAndTest, ReadBack, rows
  <2>3. CASE Write(k) \/ StoreCertificate(k)
    BY <2>3 DEF Write, StoreCertificate
  <2>4. QED BY <2>1, <2>2, <2>3 DEF IncidentStep
<1>1. CASE Answer(k)
  BY <1>0, <1>1, IdleTrue, TrueMoves DEF Answer
<1>2. ASSUME NEW r, CopyTrue(r), ResultTrue(r), req' = [req EXCEPT ![k] = r]
      PROVE  RequestsTrue'
  <2>1. CopyTrue(r)' /\ ResultTrue(r)'
    BY <1>2, <1>p DEF CopyTrue, ResultTrue, RowTrue, TestTrue, ClaimTrue, Sound, Works
  <2>2. QED BY <1>0, <1>2, <2>1, TrueMoves
<1>3. ASSUME NEW i \in IncidentIds, NEW step \in {"load_replay", "load_test"}, BeginIncident(k, i, step)
      PROVE  RequestsTrue'
  <2>1. PICK r : r = [req[k] EXCEPT !.step = step, !.loop = "incident", !.target = i,
                                    !.record = incident[i].record, !.copy = incident[i]]
    OBVIOUS
  <2>2. req' = [req EXCEPT ![k] = r] /\ incident[i] # None
    BY <1>0, <1>3, <2>1 DEF BeginIncident
  <2>3. r.copy = incident[i] /\ r.step = step
    BY <1>0, <2>1 DEF Request
  <2>4. CopyTrue(r) /\ ResultTrue(r)
    BY <1>0, <2>2, <2>3 DEF CopyTrue, ResultTrue
  <2>5. QED BY <1>2, <2>2, <2>4
<1>4. ASSUME NEW result \in Result, req[k].step \in {"load_replay", "load_test"}, result.of # "certificate",
             result.of = "test" => TestTrue(result.value, req[k].record),
             req' = [req EXCEPT ![k].step = "write", ![k].result = result, ![k].copy = Apply(@, "incident", result)]
      PROVE  RequestsTrue'
  <2>1. PICK row, r : /\ row = Apply(req[k].copy, "incident", result)
                      /\ r = [req[k] EXCEPT !.step = "write", !.result = result, !.copy = row]
    OBVIOUS
  <2>2. req[k].copy \in Incident /\ req[k].copy.record = req[k].record /\ RowTrue(req[k].copy)
    BY <1>0, <1>4 DEF RequestOK, RequestAbout, CopyAbout, CopyTrue
  <2>3. RowTrue(row)
    BY <1>4, <2>1, <2>2, ApplyTrue DEF Loops
  <2>4. r.step = "write" /\ r.record = req[k].record /\ r.copy = row /\ r.result = result
    BY <1>0, <2>1 DEF Request
  <2>5. CopyTrue(r) /\ ResultTrue(r)
    BY <1>4, <2>3, <2>4 DEF CopyTrue, ResultTrue
  <2>6. req' = [req EXCEPT ![k] = r]
    BY <1>0, <1>4, <2>1
  <2>7. QED BY <1>2, <2>5, <2>6
<1>5. CASE LoadAndReplay(k)
  <2>1. PICK result : result = [of |-> "replay", value |-> ReplaySnapshot(snapshot[req[k].target])]
    OBVIOUS
  <2>2. result \in Result /\ result.of = "replay"
    BY <2>1 DEF Result, RunStatuses, ReplaySnapshot
  <2>3. QED BY <1>1, <1>4, <1>5, <2>1, <2>2 DEF LoadAndReplay
<1>6. CASE LoadAndTest(k) /\ ~Answer(k)
  <2>0. PICK v : v = snapshot[req[k].target]
    OBVIOUS
  <2>1. PICK fix \in Fixes, expected \in Submitted \cup LabelsOf(req[k].target) :
           LET result == [of |-> "test", value |-> RunMutation(v, fix, expected)]
           IN  req' = [req EXCEPT ![k].step = "write", ![k].result = result,
                                  ![k].copy = Apply(@, "incident", result)]
    BY <1>6, <2>0 DEF LoadAndTest
  <2>2. PICK result : result = [of |-> "test", value |-> RunMutation(v, fix, expected)]
    OBVIOUS
  <2>3. expected \in Outcomes
    BY ConstantsAssumption DEF LabelsOf, TypeInv, TypeOK, VerificationRecord
  <2>4. result \in Result /\ result.of = "test"
    BY <2>2, <2>3 DEF Result, MutationTest, Verdicts, RunMutation
  <2>5. v # None /\ req[k].target \in IncidentIds /\ req[k].step = "load_test"
    BY <1>0, <1>6, <2>0 DEF LoadAndTest, RequestOK
  <2>6. v = req[k].record
    BY <1>0, <2>0, <2>5, NoneIsNoRow DEF RequestAbout, LineageInv, Of
  <2>7. TestTrue(result.value, req[k].record)
    BY <2>2, <2>6 DEF TestTrue, RunMutation
  <2>8. QED BY <1>4, <2>1, <2>2, <2>4, <2>5, <2>7
<1>7. ASSUME NEW i \in IncidentIds, BeginIncidentProof(k, i)
      PROVE  RequestsTrue'
  <2>1. PICK claim, result :
           /\ claim = [record |-> incident[i].record, fix |-> incident[i].mutation.fix,
                       expected |-> incident[i].mutation.expected]
           /\ result = [of |-> "certificate", value |-> [loop |-> "incident", claim |-> claim]]
    OBVIOUS
  <2>2. PICK row, r : /\ row = Apply(incident[i], "incident", result)
                      /\ r = [step |-> "read_back", loop |-> "incident", record |-> incident[i].record,
                              row |-> None, target |-> i, copy |-> row, reread |-> None, result |-> result]
    OBVIOUS
  <2>3. /\ incident[i] \in Incident /\ RowTrue(incident[i]) /\ incident[i].record \in Records
        /\ incident[i].mutation \in MutationTest /\ incident[i].mutation # None
        /\ incident[i].mutation.verdict = "verified" /\ req' = [req EXCEPT ![k] = r]
    BY <1>0, <1>7, <2>1, <2>2 DEF BeginIncidentProof, Incident
  <2>4. ClaimTrue(claim, incident[i].record)
    BY <2>1, <2>3 DEF RowTrue, TestTrue, ClaimTrue, Sound
  <2>5. result \in Result
    BY <2>1, <2>3 DEF Result, Certificate, Claim, MutationTest, Loops
  <2>6. RowTrue(row)
    BY <2>1, <2>2, <2>3, <2>4, <2>5, ApplyTrue DEF Loops
  <2>7. CopyTrue(r) /\ ResultTrue(r)
    BY <2>1, <2>2, <2>4, <2>6 DEF CopyTrue, ResultTrue
  <2>8. QED BY <1>2, <2>3, <2>7
<1>8. ASSUME NEW step \in {"write", "write_again", "read_back"}, req' = [req EXCEPT ![k].step = step],
             req[k].step \in {"write", "write_again", "store"},
             RowTrue(req[k].copy) \/ (step = "read_back" /\ req[k].loop = "record")
      PROVE  RequestsTrue'
  <2>1. PICK r : r = [req[k] EXCEPT !.step = step]
    OBVIOUS
  <2>2. /\ r.step = step /\ r.record = req[k].record /\ r.result = req[k].result
        /\ r.copy = req[k].copy /\ r.loop = req[k].loop
    BY <1>0, <2>1 DEF Request
  <2>3. CopyTrue(r) /\ ResultTrue(r)
    BY <1>0, <1>8, <2>2 DEF CopyTrue, ResultTrue
  <2>4. req' = [req EXCEPT ![k] = r]
    BY <1>0, <1>8, <2>1
  <2>5. QED BY <1>2, <2>3, <2>4
<1>9. CASE Write(k) /\ ~Answer(k)
  <2>1. RowTrue(req[k].copy) /\ req[k].step \in {"write", "write_again"}
    BY <1>0, <1>9 DEF Write, CopyTrue
  <2>2. PICK step \in {"write_again", "read_back"} : req' = [req EXCEPT ![k].step = step]
    BY <1>9 DEF Write
  <2>3. QED BY <1>8, <2>1, <2>2
<1>10. CASE ReadBack(k)
  <2>1. PICK row, r : row = incident[req[k].target] /\ r = [req[k] EXCEPT !.step = "store", !.reread = row]
    OBVIOUS
  <2>2. req[k].target \in IncidentIds /\ incident[req[k].target] # None /\ req[k].step = "read_back"
    BY <1>0, <1>10, NoneIsNoRow DEF ReadBack, RequestOK, TypeInv, Present
  <2>3. /\ r.step = "store" /\ r.record = req[k].record /\ r.reread = row /\ r.result = req[k].result
        /\ r.copy = req[k].copy /\ r.loop = req[k].loop
    BY <1>0, <2>1 DEF Request
  <2>4. CopyTrue(r) /\ ResultTrue(r)
    BY <1>0, <2>1, <2>2, <2>3 DEF CopyTrue, ResultTrue
  <2>5. req' = [req EXCEPT ![k] = r]
    BY <1>0, <1>10, <2>1 DEF ReadBack
  <2>6. QED BY <1>2, <2>4, <2>5
<1>11. CASE StoreCertificate(k) /\ ~Answer(k)
  <2>1. req[k].step = "store" /\ req[k].loop = "incident"
    BY <1>0, <1>11 DEF StoreCertificate
  <2>2. RowTrue(req[k].copy)
    BY <1>0, <2>1 DEF CopyTrue
  <2>3. QED BY <1>8, <1>11, <2>1, <2>2 DEF StoreCertificate
<1>12. QED BY <1>1, <1>3, <1>5, <1>6, <1>7, <1>9, <1>10, <1>11
           DEF IncidentStep, BeginIncidentReplay, BeginIncidentMutation

\* Whatever is written on an incident is true of its record.
LEMMA WrittenTrue ==
    ASSUME TypeInv, LineageInv, RowsTrue, [Next]_vars
    PROVE  \A i \in IncidentIds : (incident[i] # None => RowTrue(incident[i]))'
<1>1. ASSUME NEW i \in IncidentIds, NEW row, row = incident'[i], row # None
      PROVE  RowTrue(row)'
  <2>1. CASE row = incident[i]
    <3>1. row \in Incident /\ RowTrue(row)
      BY <1>1, <2>1 DEF TypeInv, TypeOK, RowsTrue
    <3>2. QED BY <3>1, TrueKept
  <2>2. ASSUME NEW k \in Requests, Write(k), row # incident[i]
        PROVE  RowTrue(row)'
    <3>1. req[k].copy \in Incident /\ RowTrue(req[k].copy)
      BY <2>2 DEF Write, TypeInv, RequestsOK, RequestOK, RowsTrue, RequestsTrue, CopyTrue
    <3>2. row = req[k].copy
      BY <1>1, <2>2 DEF Write, TypeInv, TypeOK
    <3>3. QED BY <3>1, <3>2, TrueKept
  <2>3. ASSUME NEW k \in Requests, StoreCertificate(k), row # incident[i]
        PROVE  RowTrue(row)'
    <3>1. /\ req[k].reread \in Incident /\ RowTrue(req[k].reread) /\ req[k].reread.record = req[k].record
          /\ req[k].result.of = "certificate" /\ req[k].result.value \in Certificate
          /\ ResultTrue(req[k]) /\ req[k].step = "store"
      BY <2>3 DEF StoreCertificate, TypeInv, RequestsOK, RequestOK, RowsTrue, RequestsTrue, CopyTrue,
                  LineageInv, RequestsAbout, RequestAbout, CopyAbout
    <3>2. row = [req[k].reread EXCEPT !.certificate = req[k].result.value]
      BY <1>1, <2>3 DEF StoreCertificate, TypeInv, TypeOK
    <3>3. /\ row \in Incident /\ row.record = req[k].record /\ row.mutation = req[k].reread.mutation
          /\ row.certificate = req[k].result.value
      BY <3>1, <3>2 DEF Incident
    <3>4. RowTrue(row)
      BY <3>1, <3>3 DEF RowTrue, ResultTrue
    <3>5. QED BY <3>3, <3>4, TrueKept
  <2>4. ASSUME NEW q \in Creators, InsertIncident(q), row # incident[i]
        PROVE  RowTrue(row)'
    <3>1. row = Ingested(making[q].record)
      BY <1>1, <2>4 DEF InsertIncident, TypeInv, TypeOK
    <3>2. row.mutation = None /\ row.certificate = None
      BY <3>1 DEF Ingested
    <3>3. QED BY <3>2 DEF RowTrue
  <2>5. \/ incident' = incident
        \/ \E k \in Requests : Write(k) \/ StoreCertificate(k)
        \/ \E q \in Creators : InsertIncident(q)
    <3>1. CASE \E q \in Creators : MakingStep(q) \/ AbortMaking(q)
      BY <3>1 DEF MakingStep, AbortMaking, BeginIngest, BeginPromote, CountIncidents, StoreSnapshot, LinkRecord, rows
    <3>2. CASE (\E v \in Records : Capture(v)) \/ UNCHANGED vars
      BY <3>2 DEF Capture, vars, rows
    <3>3. QED BY <3>1, <3>2, RequestsWrite DEF Next
  <2>6. QED BY <1>1, <2>1, <2>2, <2>3, <2>4, <2>5
<1>2. QED BY <1>1

\* Every step keeps what is written, copied and found out true.
LEMMA TrueNext ==
    ASSUME TypeInv, SoundInv, LineageInv, RowsTrue, [Next]_vars
    PROVE  RowsTrue'
<1>1. RequestsTrue'
  <2>1. CASE \E k \in Requests : RecordStep(k) \/ IncidentStep(k)
    BY <2>1, RecordStepTrue, IncidentStepTrue
  <2>2. CASE \E k \in Requests : Abort(k)
    <3>1. PICK k \in Requests : req' = [req EXCEPT ![k] = Idle]
      BY <2>2 DEF Abort, Answer
    <3>2. QED BY <3>1, IdleTrue, TrueMoves
  <2>3. CASE req' = req
    <3>1. ASSUME NEW j \in Requests, NEW s, s = req'[j]
          PROVE  CopyTrue(s)' /\ ResultTrue(s)'
      BY <2>3, <3>1, TrueKept DEF TypeInv, TypeOK, RowsTrue, RequestsTrue
    <3>2. QED BY <3>1 DEF RequestsTrue
  <2>4. (\E q \in Creators : MakingStep(q) \/ AbortMaking(q)) \/ (\E v \in Records : Capture(v)) \/ UNCHANGED vars
        => req' = req
    BY DEF MakingStep, AbortMaking, BeginIngest, BeginPromote, CountIncidents, InsertIncident, StoreSnapshot,
           LinkRecord, Capture, vars, rows
  <2>5. QED BY <2>1, <2>2, <2>3, <2>4 DEF Next
<1>2. QED BY <1>1, WrittenTrue DEF RowsTrue

\* Initially nothing is written.
LEMMA TrueInit == Init => RowsTrue
  BY IdleType DEF Init, RowsTrue, RequestsTrue, CopyTrue, ResultTrue

\* The certificate on an incident states a fix that works on the evidence the
\* incident was created from, whichever requests wrote the row over each other,
\* if no two creators count the incidents before one of them inserts its own
\* (store_certificate, update_incident).
THEOREM IncidentProofSound == Spec /\ []OneInsertion => []IncidentProofIsSound
<1>1. RowsTrue => IncidentProofIsSound
  BY DEF RowsTrue, RowTrue, ClaimTrue, IncidentProofIsSound
<1>2. QED BY <1>1, TypeInit, TypeNext, SoundInit, SoundNext, LineageInit, LineageNext, TrueInit, TrueNext, PTL DEF Spec
================================================================================

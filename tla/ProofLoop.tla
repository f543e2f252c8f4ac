------------------------------- MODULE ProofLoop -------------------------------
(***************************************************************************)
(* The proof loop: a decision is recorded, labelled, replayed, a fix is    *)
(* tested against it, and a proof of mitigation is issued.  It exists      *)
(* twice, over the same incident rows: for verification records            *)
(* (services/services.py) and for incidents (routers/incidents.py and      *)
(* routers/certificates.py).                                               *)
(*                                                                         *)
(* A request is a sequence of storage calls that interleaves with others.  *)
(* A read copies the row, a write replaces it whole.  Rows that no step    *)
(* reads back (evidence artifacts, custody, execution events, an           *)
(* incident's own replay runs) are left out.                               *)
(***************************************************************************)
EXTENDS Naturals, Sequences, FiniteSets

CONSTANTS
    Records,        \* ids of verification records that may be captured
    Evidence,       \* per record, the kinds of events that were recorded
    Supported,      \* records that an agent can replay (demo, or a runner is set)
    Fixes,          \* the fix configurations callers submit
    Outcomes,       \* decisions, as recorded, expected and replayed
    Decide,         \* what the agent decides on a record under a fix
    Labels,         \* expected outcomes that reviewers state
    Submitted,      \* expected outcomes that mutation requests state
    Requests,       \* slots for requests being served at once
    Creators,       \* slots for requests that create incidents
    MaxRecords,     \* bound: records captured
    MaxIncidents,   \* bound: incident ids
    MaxPosts        \* bound: requests of the two loops

NoFix == "no_fix"
Failed == "failed"      \* the agent raises, there is no decision
EventKinds == {"model_call", "seeded", "response", "decision"}
IncidentIds == 1 .. MaxIncidents

ASSUME ConstantsAssumption ==
    /\ Records # {} /\ Evidence \in [Records -> SUBSET EventKinds]
    /\ Supported \subseteq Records
    /\ Decide \in [Records -> [Fixes \cup {NoFix} -> Outcomes \cup {Failed}]]
    /\ Labels \subseteq Outcomes /\ Submitted \subseteq Outcomes
    /\ NoFix \notin Fixes /\ Failed \notin Outcomes
    /\ MaxRecords \in Nat /\ MaxIncidents \in Nat /\ MaxPosts \in Nat

VARIABLES
    \* --- rows of the store
    vr,             \* verification records
    runs,           \* the statuses of a record's replay runs, oldest first
    tests,          \* a record's mutation tests, oldest first
    proofs,         \* certificates of the record loop (pom rows)
    incident,       \* incidents
    snapshot,       \* the evidence object stored for an incident
    \* --- requests being served
    req,            \* position and locals of the steps of both loops
    making,         \* position and locals of ingest and promote requests
    \* --- bound
    posts           \* requests of the two loops so far

rows == <<vr, runs, tests, proofs, incident, snapshot>>
vars == <<rows, req, making, posts>>

(***************************************************************************)
(* Data                                                                    *)
(***************************************************************************)
None == [kind |-> "none"]
NoIncident == 0

RunStatuses == {"replayed", "error", "escalation_required", "unsupported_runner", "incomplete"}
Verdicts == {"verified", "not_verified", "error"}
IncidentStatuses == {"ingested", "replayed", "mitigated", "certified"}
Loops == {"record", "incident"}

VerificationRecord == [label : Labels \cup {None}, promoted : IncidentIds \cup {NoIncident}]
MutationTest == [fix : Fixes, expected : Outcomes, verdict : Verdicts]
Claim == [record : Records, fix : Fixes, expected : Outcomes]
Certificate == [loop : Loops, claim : Claim]
Incident == [record : Records, status : IncidentStatuses, replay : RunStatuses \cup {"none"},
             mutation : MutationTest \cup {None}, certificate : Certificate \cup {None}]
Ingested(v) == [record |-> v, status |-> "ingested", replay |-> "none",
                mutation |-> None, certificate |-> None]

\* What a request has found out and is about to record.
Result == [of : {"replay"}, value : RunStatuses]
            \cup [of : {"test"}, value : MutationTest]
            \cup [of : {"certificate"}, value : Certificate]
Steps == {"idle", "label", "check_run", "check_test", "save", "fetch", "load_replay", "load_test",
          "write", "write_again", "read_back", "store"}
Request == [step : Steps, loop : Loops, record : Records, row : VerificationRecord \cup {None},
            target : IncidentIds \cup {NoIncident}, copy : Incident \cup {None},
            reread : Incident \cup {None}, result : Result \cup {None}]
Idle == [step |-> "idle", loop |-> "record", record |-> CHOOSE v \in Records : TRUE, row |-> None,
         target |-> NoIncident, copy |-> None, reread |-> None, result |-> None]

MakingSteps == {"count", "insert", "custody", "snapshot", "custody_again", "link"}
Making == [step : MakingSteps, record : Records, row : VerificationRecord \cup {None},
           id : IncidentIds \cup {NoIncident}]

Init ==
    /\ vr = [v \in Records |-> None]
    /\ runs = [v \in Records |-> <<>>]
    /\ tests = [v \in Records |-> <<>>]
    /\ proofs = {}
    /\ incident = [i \in IncidentIds |-> None]
    /\ snapshot = [i \in IncidentIds |-> None]
    /\ req = [k \in Requests |-> Idle]
    /\ making = [q \in Creators |-> None]
    /\ posts = 0

(***************************************************************************)
(* Evidence                                                                *)
(***************************************************************************)

\* Records whose replay is refused; a label does not change that.
EvidenceOnly(v) == "model_call" \in Evidence[v] /\ "response" \notin Evidence[v]
MissingContext(v) == Evidence[v] \cap {"model_call", "response", "decision"} = {}

\* The limitations that block a certificate: those of severity NON_DETERMINISTIC_CORE.
CoreFlags(v) ==
    {flag \in {"llm_call", "missing_cassette", "missing_decision"} :
        \/ flag = "llm_call" /\ "model_call" \in Evidence[v] /\ "seeded" \notin Evidence[v]
        \/ flag = "missing_cassette" /\ "response" \notin Evidence[v]
        \/ flag = "missing_decision" /\ "decision" \notin Evidence[v]}

\* mutant: the engine's own status is stored.
ReplayStatusOfEngine(v) == IF Decide[v][NoFix] = Failed THEN "error" ELSE "identical"

\* The engine replays from the recording; only an agent that raises fails.
ReplaySnapshot(v) == IF Decide[v][NoFix] = Failed THEN "error" ELSE "replayed"

\* A replay of a record; a configured runner may also ask to escalate.
ReplayOutcomes(v) ==
    IF EvidenceOnly(v) \/ MissingContext(v) THEN {"incomplete"}
    ELSE IF v \in Supported THEN {ReplaySnapshot(v), "escalation_required"}
    ELSE {"unsupported_runner"}

Works(v, fix, expected) ==
    /\ Decide[v][fix] # Decide[v][NoFix]
    /\ Decide[v][fix] = expected

\* mutant: a decision that was the expected one already counts.
RunMutationUnchanged(v, fix, expected) ==
    [fix |-> fix, expected |-> expected,
     verdict |-> IF Decide[v][fix] = expected THEN "verified" ELSE "not_verified"]

\* run_mutation: the decision must change, and become the expected one.
RunMutation(v, fix, expected) ==
    [fix |-> fix, expected |-> expected,
     verdict |-> IF Works(v, fix, expected) THEN "verified" ELSE "not_verified"]

(***************************************************************************)
(* Creating records and incidents                                          *)
(***************************************************************************)

\* Ids of records are random, so nobody else is creating this one.
Fresh(v) ==
    LET taken == {u \in Records : vr[u] # None
                                    \/ \E q \in Creators : making[q] # None /\ making[q].record = u}
    IN v \notin taken /\ Cardinality(taken) < MaxRecords

\* A record without an incident: API submission, manual entry, webhook, import.
Capture(v) ==
    /\ Fresh(v)
    /\ vr' = [vr EXCEPT ![v] = [label |-> None, promoted |-> NoIncident]]
    /\ UNCHANGED <<runs, tests, proofs, incident, snapshot, req, making, posts>>

\* A snapshot is posted: an incident first, then its record.
BeginIngest(q, v) ==
    /\ making[q] = None
    /\ Fresh(v)
    /\ making' = [making EXCEPT ![q] = [step |-> "count", record |-> v, row |-> None, id |-> NoIncident]]
    /\ UNCHANGED <<rows, req, posts>>

\* A record is promoted to an incident, whether or not it has been before.
BeginPromote(q, v) ==
    /\ making[q] = None
    /\ vr[v] # None
    /\ making' = [making EXCEPT ![q] = [step |-> "count", record |-> v, row |-> vr[v], id |-> NoIncident]]
    /\ UNCHANGED <<rows, req, posts>>

Making_(q, step) == making[q] # None /\ making[q].step = step

\* The next incident id is the number of incidents plus one.
CountIncidents(q) ==
    LET next == Cardinality({i \in IncidentIds : incident[i] # None}) + 1
    IN /\ Making_(q, "count")
       /\ next \in IncidentIds
       /\ making' = [making EXCEPT ![q].step = "insert", ![q].id = next]
       /\ UNCHANGED <<rows, req, posts>>

\* mutant: the record is linked before the snapshot is stored.
InsertAndLink(q) ==
    /\ \/ Making_(q, "insert") /\ making' = [making EXCEPT ![q].step = "link"]
       \/ Making_(q, "custody") /\ making' = [making EXCEPT ![q].step = "snapshot"]
       \/ Making_(q, "custody_again") /\ making' = [making EXCEPT ![q].step = "link"]
    /\ incident' = [incident EXCEPT ![making[q].id] = Ingested(making[q].record)]
    /\ UNCHANGED <<vr, runs, tests, proofs, snapshot, req, posts>>

\* create_incident, and update_incident with a custody event, which writes the
\* same row again; an ingest does so twice.
InsertIncident(q) ==
    /\ \/ Making_(q, "insert") /\ making' = [making EXCEPT ![q].step = "custody"]
       \/ Making_(q, "custody") /\ making' = [making EXCEPT ![q].step = "snapshot"]
       \/ Making_(q, "custody_again") /\ making' = [making EXCEPT ![q].step = "link"]
    /\ incident' = [incident EXCEPT ![making[q].id] = Ingested(making[q].record)]
    /\ UNCHANGED <<vr, runs, tests, proofs, snapshot, req, posts>>

StoreSnapshot(q) ==
    /\ Making_(q, "snapshot")
    /\ snapshot' = [snapshot EXCEPT ![making[q].id] = making[q].record]
    /\ making' = [making EXCEPT ![q].step = IF making[q].row = None THEN "custody_again" ELSE "link"]
    /\ UNCHANGED <<vr, runs, tests, proofs, incident, req, posts>>

\* The record is created, or its copy written back, with the incident's id.
LinkRecord(q) ==
    /\ Making_(q, "link")
    /\ vr' = [vr EXCEPT ![making[q].record] =
                  [label |-> IF making[q].row = None THEN None ELSE making[q].row.label,
                   promoted |-> making[q].id]]
    /\ making' = [making EXCEPT ![q] = None]
    /\ UNCHANGED <<runs, tests, proofs, incident, snapshot, req, posts>>

Accept(k) ==
    /\ req[k].step = "idle"
    /\ posts < MaxPosts
    /\ posts' = posts + 1

(***************************************************************************)
(* Labels                                                                  *)
(***************************************************************************)

\* A label is added, or labels are suggested or a suggestion is rejected: the
\* record is read, and written back with what changed.
BeginLabel(k, v) ==
    /\ Accept(k)
    /\ vr[v] # None
    /\ \E label \in Labels \cup {vr[v].label} :
          req' = [req EXCEPT ![k].step = "label", ![k].record = v,
                             ![k].row = [vr[v] EXCEPT !.label = label]]
    /\ UNCHANGED <<rows, making>>

SaveLabel(k) ==
    /\ req[k].step = "label"
    /\ vr' = [vr EXCEPT ![req[k].record] = req[k].row]
    /\ req' = [req EXCEPT ![k] = Idle]
    /\ UNCHANGED <<runs, tests, proofs, incident, snapshot, making, posts>>

(***************************************************************************)
(* The record loop                                                         *)
(***************************************************************************)
Found(k, step, result) == req' = [req EXCEPT ![k].step = step, ![k].result = result]

\* Every request of the record loop reads the record, and keeps its copy.
BeginRecord(k, v, step) ==
    /\ Accept(k)
    /\ vr[v] # None
    /\ req' = [req EXCEPT ![k].step = step, ![k].record = v, ![k].row = vr[v],
                          ![k].target = vr[v].promoted]
    /\ UNCHANGED <<rows, making>>

\* The agent is run; an incomplete replay is saved but not put on the incident.
BeginReplay(k, v) ==
    /\ Accept(k)
    /\ vr[v] # None
    /\ \E status \in ReplayOutcomes(v) :
          req' = [req EXCEPT ![k].step = "save", ![k].record = v, ![k].row = vr[v],
                             ![k].target = IF status = "incomplete" THEN NoIncident ELSE vr[v].promoted,
                             ![k].result = [of |-> "replay", value |-> status]]
    /\ UNCHANGED <<rows, making>>

BeginMutation(k, v) == BeginRecord(k, v, "check_run")
BeginProof(k, v) == BeginRecord(k, v, "check_test")

Last(seq) == seq[Len(seq)]
Answer(k) == req' = [req EXCEPT ![k] = Idle]

\* mutant: any replay run will do, whatever its status.
CheckAnyRun(k) ==
    LET v == req[k].record
    IN /\ req[k].step = "check_run"
       /\ IF runs[v] # <<>>
          THEN \E fix \in Fixes, expected \in Submitted :
                  Found(k, "save", [of |-> "test", value |-> RunMutation(v, fix, expected)])
          ELSE Answer(k)
       /\ UNCHANGED <<rows, making, posts>>

\* run_mutation: only the latest run counts; the expected outcome is the
\* request's, or else the one of the label.  The engine may raise.
CheckRun(k) ==
    LET v == req[k].record
    IN /\ req[k].step = "check_run"
       /\ IF runs[v] # <<>> /\ Last(runs[v]) = "replayed"
          THEN \E fix \in Fixes, expected \in Submitted \cup ({req[k].row.label} \ {None}) :
                  \E test \in {RunMutation(v, fix, expected), [fix |-> fix, expected |-> expected, verdict |-> "error"]} :
                     Found(k, "save", [of |-> "test", value |-> test])
          ELSE Answer(k)
       /\ UNCHANGED <<rows, making, posts>>

\* issue_proof_of_mitigation: only the latest test counts.
CheckTest(k) ==
    LET v == req[k].record
    IN /\ req[k].step = "check_test"
       /\ IF tests[v] # <<>> /\ Last(tests[v]).verdict = "verified" /\ CoreFlags(v) = {}
          THEN Found(k, "save", [of |-> "certificate",
                                 value |-> [loop |-> "record",
                                            claim |-> [record |-> v, fix |-> Last(tests[v]).fix,
                                                       expected |-> Last(tests[v]).expected]]])
          ELSE Answer(k)
       /\ UNCHANGED <<rows, making, posts>>

\* The run, test or certificate is created; without an incident that was all.
SaveRow(k) ==
    LET v == req[k].record
        value == req[k].result.value
    IN \/ /\ req[k].result.of = "replay"
          /\ runs' = [runs EXCEPT ![v] = Append(@, value)]
          /\ UNCHANGED <<tests, proofs>>
       \/ /\ req[k].result.of = "test"
          /\ tests' = [tests EXCEPT ![v] = Append(@, value)]
          /\ UNCHANGED <<runs, proofs>>
       \/ /\ req[k].result.of = "certificate"
          /\ proofs' = proofs \cup {value.claim}
          /\ UNCHANGED <<runs, tests>>

Save(k) ==
    /\ req[k].step = "save"
    /\ SaveRow(k)
    /\ IF req[k].target = NoIncident THEN Answer(k) ELSE req' = [req EXCEPT ![k].step = "fetch"]
    /\ UNCHANGED <<vr, incident, snapshot, making, posts>>

\* mutant: the certificate is left to store_certificate.
ApplyStatusOnly(row, loop, result) ==
    IF result.of = "replay"
    THEN [row EXCEPT !.replay = result.value,
                     !.status = IF loop = "incident" \/ result.value = "replayed" THEN "replayed" ELSE @]
    ELSE IF result.of = "test"
    THEN [row EXCEPT !.mutation = result.value,
                     !.status = IF result.value.verdict = "verified" THEN "mitigated" ELSE @]
    ELSE [row EXCEPT !.status = "certified"]

\* How a result changes an incident.  The record loop sets the status only when
\* the replay succeeded, the incident loop always.
Apply(row, loop, result) ==
    IF result.of = "replay"
    THEN [row EXCEPT !.replay = result.value,
                     !.status = IF loop = "incident" \/ result.value = "replayed" THEN "replayed" ELSE @]
    ELSE IF result.of = "test"
    THEN [row EXCEPT !.mutation = result.value,
                     !.status = IF result.value.verdict = "verified" THEN "mitigated" ELSE @]
    ELSE [row EXCEPT !.certificate = result.value, !.status = "certified"]

FetchIncident(k) ==
    /\ req[k].step = "fetch"
    /\ IF incident[req[k].target] = None
       THEN Answer(k)
       ELSE req' = [req EXCEPT ![k].step = "write",
                               ![k].copy = Apply(incident[req[k].target], "record", req[k].result)]
    /\ UNCHANGED <<rows, making, posts>>

(***************************************************************************)
(* The incident loop                                                       *)
(***************************************************************************)
BeginIncident(k, i, step) ==
    /\ Accept(k)
    /\ incident[i] # None
    /\ req' = [req EXCEPT ![k].step = step, ![k].loop = "incident", ![k].target = i,
                          ![k].record = incident[i].record, ![k].copy = incident[i]]
    /\ UNCHANGED <<rows, making>>

BeginIncidentReplay(k, i) == BeginIncident(k, i, "load_replay")
BeginIncidentMutation(k, i) == incident[i] # None /\ incident[i].replay = "replayed" /\ BeginIncident(k, i, "load_test")

\* The snapshot is read and the agent run on it; without one the answer is 404.
LoadAndReplay(k) ==
    LET v == snapshot[req[k].target]
        result == [of |-> "replay", value |-> ReplaySnapshot(v)]
    IN /\ req[k].step = "load_replay"
       /\ IF v = None
          THEN Answer(k)
          ELSE req' = [req EXCEPT ![k].step = "write", ![k].result = result,
                                  ![k].copy = Apply(@, "incident", result)]
       /\ UNCHANGED <<rows, making, posts>>

\* The expected outcome is the request's, or else the one of the label of a
\* record promoted to this incident.
LabelsOf(i) == {vr[v].label : v \in {u \in Records : vr[u] # None /\ vr[u].promoted = i}} \ {None}

LoadAndTest(k) ==
    LET v == snapshot[req[k].target]
    IN /\ req[k].step = "load_test"
       /\ IF v = None
          THEN Answer(k)
          ELSE \E fix \in Fixes, expected \in Submitted \cup LabelsOf(req[k].target) :
                  LET result == [of |-> "test", value |-> RunMutation(v, fix, expected)]
                  IN req' = [req EXCEPT ![k].step = "write", ![k].result = result,
                                        ![k].copy = Apply(@, "incident", result)]
       /\ UNCHANGED <<rows, making, posts>>

\* mutant: the status "mitigated" is enough.
ProveMitigated(k, i) ==
    LET row == incident[i]
        claim == [record |-> row.record, fix |-> row.mutation.fix, expected |-> row.mutation.expected]
        result == [of |-> "certificate", value |-> [loop |-> "incident", claim |-> claim]]
    IN /\ Accept(k)
       /\ row # None
       /\ row.status = "mitigated"
       /\ req' = [req EXCEPT ![k] = [step |-> "read_back", loop |-> "incident", record |-> row.record,
                                     row |-> None, target |-> i,
                                     copy |-> Apply(row, "incident", result),
                                     reread |-> None, result |-> result]]
       /\ UNCHANGED <<rows, making>>

\* A certificate needs the status "mitigated" and a verified test on the row.
BeginIncidentProof(k, i) ==
    LET row == incident[i]
        claim == [record |-> row.record, fix |-> row.mutation.fix, expected |-> row.mutation.expected]
        result == [of |-> "certificate", value |-> [loop |-> "incident", claim |-> claim]]
    IN /\ Accept(k)
       /\ row # None
       /\ row.status = "mitigated" /\ row.mutation # None /\ row.mutation.verdict = "verified"
       /\ req' = [req EXCEPT ![k] = [step |-> "read_back", loop |-> "incident", record |-> row.record,
                                     row |-> None, target |-> i,
                                     copy |-> Apply(row, "incident", result),
                                     reread |-> None, result |-> result]]
       /\ UNCHANGED <<rows, making>>

(***************************************************************************)
(* Writing the incident                                                    *)
(***************************************************************************)

\* update_incident with the copy.  An incident replay writes it twice, the
\* record loop stores its certificate afterwards, the incident loop before.
Write(k) ==
    LET r == req[k]
    IN /\ r.step \in {"write", "write_again"}
       /\ incident' = [incident EXCEPT ![r.target] = r.copy]
       /\ IF r.step = "write" /\ r.loop = "incident" /\ r.result.of = "replay"
          THEN req' = [req EXCEPT ![k].step = "write_again"]
          ELSE IF r.loop = "record" /\ r.result.of = "certificate"
          THEN req' = [req EXCEPT ![k].step = "read_back"]
          ELSE Answer(k)
       /\ UNCHANGED <<vr, runs, tests, proofs, snapshot, making, posts>>

\* store_certificate reads the incident again and writes it with the certificate.
ReadBack(k) ==
    /\ req[k].step = "read_back"
    /\ req' = [req EXCEPT ![k].step = "store", ![k].reread = incident[req[k].target]]
    /\ UNCHANGED <<rows, making, posts>>

StoreCertificate(k) ==
    LET r == req[k]
    IN /\ r.step = "store"
       /\ incident' = [incident EXCEPT ![r.target] = [r.reread EXCEPT !.certificate = r.result.value]]
       /\ IF r.loop = "incident" THEN req' = [req EXCEPT ![k].step = "write"] ELSE Answer(k)
       /\ UNCHANGED <<vr, runs, tests, proofs, snapshot, making, posts>>

(***************************************************************************)
(* Faults                                                                  *)
(***************************************************************************)

\* A call raises or the process dies: what was written stays.
Abort(k) ==
    /\ req[k].step # "idle"
    /\ Answer(k)
    /\ UNCHANGED <<rows, making, posts>>

AbortMaking(q) ==
    /\ making[q] # None
    /\ making' = [making EXCEPT ![q] = None]
    /\ UNCHANGED <<rows, req, posts>>

(***************************************************************************)
(* Specification                                                           *)
(***************************************************************************)
RecordStep(k) ==
    \/ \E v \in Records : BeginLabel(k, v) \/ BeginReplay(k, v) \/ BeginMutation(k, v) \/ BeginProof(k, v)
    \/ SaveLabel(k) \/ CheckRun(k) \/ CheckTest(k) \/ Save(k) \/ FetchIncident(k)

IncidentStep(k) ==
    \/ \E i \in IncidentIds : \/ BeginIncidentReplay(k, i) \/ BeginIncidentMutation(k, i)
                              \/ BeginIncidentProof(k, i)
    \/ LoadAndReplay(k) \/ LoadAndTest(k)
    \/ Write(k) \/ ReadBack(k) \/ StoreCertificate(k)

MakingStep(q) ==
    \/ \E v \in Records : BeginIngest(q, v) \/ BeginPromote(q, v)
    \/ CountIncidents(q) \/ InsertIncident(q) \/ StoreSnapshot(q) \/ LinkRecord(q)

Next ==
    \/ \E v \in Records : Capture(v)
    \/ \E k \in Requests : RecordStep(k) \/ IncidentStep(k) \/ Abort(k)
    \/ \E q \in Creators : MakingStep(q) \/ AbortMaking(q)

Spec == Init /\ [][Next]_vars

(***************************************************************************)
(* Properties                                                              *)
(***************************************************************************)

\* Rows and the locals of requests are well formed.
TypeOK ==
    /\ vr \in [Records -> VerificationRecord \cup {None}]
    /\ runs \in [Records -> Seq(RunStatuses)]
    /\ tests \in [Records -> Seq(MutationTest)]
    /\ proofs \subseteq Claim
    /\ incident \in [IncidentIds -> Incident \cup {None}]
    /\ snapshot \in [IncidentIds -> Records \cup {None}]
    /\ req \in [Requests -> Request]
    /\ making \in [Creators -> Making \cup {None}]
    /\ posts \in Nat

Replayed(v) == \E n \in DOMAIN runs[v] : runs[v][n] = "replayed"
Sound(claim) == Works(claim.record, claim.fix, claim.expected)

Verified == {claim \in Claim : \E n \in DOMAIN tests[claim.record] :
                tests[claim.record][n] = [fix |-> claim.fix, expected |-> claim.expected, verdict |-> "verified"]}

\* A certificate of the record loop is about a record without a blocking
\* limitation that has been replayed, and its fix turns the agent's decision on
\* that record into the stated outcome (issue_proof_of_mitigation).
ProofIsSound ==
    \A claim \in proofs :
        /\ Sound(claim)
        /\ Replayed(claim.record)
        /\ CoreFlags(claim.record) = {}

\* The certificate on an incident states a fix that works on the evidence the
\* incident was created from, whichever requests wrote the row over each other;
\* one from the record loop is on record as a certificate of its own.
IncidentProofIsSound ==
    \A i \in IncidentIds : incident[i] # None /\ incident[i].certificate # None =>
        LET c == incident[i].certificate
        IN /\ c.claim.record = incident[i].record
           /\ Sound(c.claim)
           /\ c.loop = "record" => c.claim \in proofs

\* An incident never claims a status nothing on its row supports: certified has
\* a certificate, mitigated a test, replayed a replay (IncidentStatus).
StatusIsBacked ==
    \A i \in IncidentIds : incident[i] # None =>
        /\ incident[i].status = "certified" => incident[i].certificate # None
        /\ incident[i].status = "mitigated" => incident[i].mutation # None
        /\ incident[i].status = "replayed" => incident[i].replay # "none"

\* A record names an incident only once that exists, holds its snapshot and was
\* created from that record, even if ingest or promotion dies on the way
\* (create_incident_from_vr, ingest_snapshot).
PromotionIsComplete ==
    \A v \in Records : vr[v] # None /\ vr[v].promoted # NoIncident =>
        /\ incident[vr[v].promoted] # None /\ incident[vr[v].promoted].record = v
        /\ snapshot[vr[v].promoted] = v

\* A certificate on an incident that no request is still issuing stays the one
\* found there: it is the only place it can be retrieved from ("The platform
\* shall retain issued certificates so they remain retrievable").
CertificatesRetained ==
    [][\A i \in IncidentIds :
          \/ incident[i] = None \/ incident[i].certificate = None
          \/ \E k \in Requests : req[k].step # "idle" /\ req[k].target = i /\ req[k].result # None
                                   /\ req[k].result.of = "certificate"
          \/ incident'[i].certificate = incident[i].certificate]_vars

\* The record loop implements ProofOfMitigation: nothing is certified that was
\* not verified before, nothing verified that was not replayed before.
Abstract == INSTANCE ProofOfMitigation WITH
    Certifiable <- {v \in Records : CoreFlags(v) = {}},
    replayed <- {v \in Records : Replayed(v)},
    verified <- Verified,
    certified <- proofs
ImplementsProof == Abstract!Spec
================================================================================

# A verification project for the Notary platform

TLA+ models of the Notary platform (`src/notary_platform`), the TLC runs that
check them on small instances, and TLAPS proofs of the properties that matter
most. `PROJECT.json` says for every definition which lines it stands for.

## How the program executes

One uvicorn process serves FastAPI's synchronous handlers from a thread pool,
so requests run concurrently. A handler is a sequence of calls to a
`StorageBackend`; there is no transaction and no lock around the sequence. The
production backend, `PostgresS3Storage`, returns a copy of the row on a read and
upserts the whole row by id on a write. Everything the models say about
interleaving follows from this: **one storage call that others can observe is
one step, a row read is a copy, a row written replaces whatever is there.** A
request may end between any two calls, because a call raised or the process
died. `MemoryStorage` and the file backend built on it share the row objects
instead of copying them; where this makes a difference the text below says so.

## Inventory

| Component | State it keeps | Operations | What makes it hard | What makes it correct |
|---|---|---|---|---|
| Proof bridge and candidate review (`sweep/bridge.py`, `sweep/candidates.py`) | candidates, review decisions, delegations, evidence bundles; writes verification records and incidents | review, delegate, revoke, promote, retry | ten storage calls per promotion, concurrent and repeated promotes, stale authority, labels and replays that write older copies of its rows back | one promotion per candidate, always under earned authority; durable, idempotent, with append-only lineage where writes do not overlap |
| Release gate and scenario library (second half of `services/services.py`, `routers/release_gate.py`) | scenarios, policies, runs, checks, certificates, gate results | promote to scenario, edit, retire, run, check, gate | edits during a check, a policy read twice, exceptions turned into answers | a pass is earned, answers and records agree, retirement and certificates mean what they say |
| Proof loop (first half of `services/services.py`, `routers/verification.py`, `incidents.py`, `certificates.py`, `ingestion.py`) | verification records, labels, replays, mutation tests, incidents, proofs of mitigation | ingest, label, replay, test a fix, certify | order of legal calls, stale labels and statuses, repeated promotion | a certificate rests on the fix and label that were verified |
| Replay engine (`replay_engine/`) | none beyond a call: the cassette | match recorded responses, in or out of their order, replay, compare decisions under a fix | partial recordings, repeated calls, calls with and without bodies | replays answer from the recording or not at all, and report only what they followed |
| Sweep runs (`sweep/runner.py`, `planner.py`, `jobs.py`, `budgets.py`, `sufficiency.py`, evaluators) | definitions, runs, jobs, assessments, candidates | plan, start, repeat, cancel, advance, evaluate, assemble | runs planned by many writes, frozen copies of growing evidence, rules stated twice | a plan is whole, a candidate is backed by its record, the rules agree |
| DEP ingress (`discovery/ingress.py`, `dep/`, `routers/dep_ingress.py`) | resources, payloads, integrity conflicts, providers | validate, ingest one, a batch, a CloudEvent, register | redelivery, reused identifiers, batches that fail half-way | a receipt stays true, the first digest stands, conflicts recorded |
| Evidence records and context (`discovery/evidence_records.py`, `identity.py`, `context.py`) | decision evidence records, bindings, traces, conflicts | link, confirm, build, resolve in time, resolve conflicts | ranks, supersession, validity in time, identities that depend on what was built before | what is left out is explained, linked decisions agree |
| Source connections and profiling (`discovery/sources.py`, `profiling.py`) | connections, profiles, mapping versions | connect, profile, propose, edit, confirm, report coverage | read-then-write of versions and of whole mappings | versions are distinct, confirmed edits stand, coverage adds up |
| Setup engine (`setup_engine.py`, `routers/setup.py`) | plans, workflows, evidence sources, selection and field rules | create, patch, replace rows, preview, import | whole-row writes, rows replaced one by one, workflows made on demand, repeated commits | rows are one save's, made workflows are attached, updates touch what they name |
| Storage (`storage.py`) | all rows; for the shared demo backend a JSON file | create, get, list, update, save, load | copies, upserts, overlapping saves, restarts | what was acknowledged survives, ids are not given twice |

Components interact through rows only: the ingress stores the payloads that
context bindings refer to, builds make evidence records of resources, sweeps
judge these records and assemble candidates, the bridge promotes a candidate and
writes the record the proof loop tests, imports of the setup engine make records
too, the proof loop raises the candidate's evidence level and gives the
scenario library its candidates, the gate replays the scenarios. The dashboards,
the demo catalog, the reports and the SDKs read or seed those rows and keep no
logic of their own that could interleave; they are not modelled.

## Modules

| Module | What it is |
|---|---|
| `Promotion` | abstract specification of the bridge: authority is granted, a candidate is promoted in one step, once; what one disturbed by overlapping writes keeps |
| `ProofBridge` | the bridge call by call: promote requests, reviews, delegations, the clock, crashes, and the requests that write the record or the incident back |
| `MCProofBridge` | one candidate for TLC |
| `ProofBridgeProofs` | invariance proofs for the bridge, and that it implements `Promotion` |
| `ReleaseGate` | the gate call by call: runs, checks, gate checks, promotions, PATCHes, crashes |
| `MCReleaseGate` | three scenarios of two records for TLC |
| `ReleaseGateProofs` | invariance proofs for the gate |
| `ProofOfMitigation` | abstract specification of the proof loop: a record is replayed, a claim verified, the claim certified |
| `ProofLoop` | both proof loops call by call: ingest, promotion, labels, replays, mutation tests, certificates, crashes |
| `MCProofLoop` | four kinds of record for TLC |
| `ProofLoopProofs` | invariance proofs for the proof loop, and that it implements `ProofOfMitigation` |
| `Ingress` | deliveries of envelopes and registrations of providers, storage call by storage call |
| `IngressProofs` | invariance proofs for the ingress |
| `SourceProfiling` | profiles, proposed and confirmed mappings, coverage; the inference of types and mappings as operators |
| `Setup` | plans, their workflows and rows, imports; selection, forecast and assessment of records as operators |
| `FileStorage` | the shared demo backend: memory, file, overlapping saves, restarts |
| `SourceProfilingProofs`, `SetupProofs` | invariance proofs for `SourceProfiling` and `Setup` |
| `MCIntake` | `Ingress`, `SourceProfiling`, `Setup` and `FileStorage` for TLC, one scene each or more |
| `IntakeProofs` | invariance proofs for `FileStorage`, and the types of the four modules run together |
| `EvidenceContext` | links, identities, bindings and their resolution at the time of a decision |
| `Sweep` | planning, cancelling and working off sweep runs; evaluators and sufficiency levels as operators |
| `CassetteReplay` | the replay engine: recordings, cassette lookups, the status of a replay |
| `MCAssessment` | the three modules above for TLC, one scene each or more |
| `AssessmentProofs` | invariance proofs for the three modules, and their types run together |

### ProofBridge

`req[r]` is a promote request: where it stands in `ProofBridgeService.promote`
and its locals. The steps follow the code: `CheckPrerequisites`,
`ResolveReview` and `ResolveDelegation` (`check_eligibility`), `FindExisting`,
`LinkExisting` for a record already there, and `FreezeBundle`, `CreateRecord`,
`SetBridgeKey`, `CreateIncident`, `LinkIncident`, `RecordLineage` for a new one.
Rows whose id derives from the candidate (the record, the incident) are
functions of the candidate, which is what makes two concurrent promotes collide
as they do in the code. A bundle is content-addressed, so its manifest is its
identity. An `effective_period` is one of four values against the clock (open,
future, current, past) and the clock moves it. `Links` (constant) holds the
state of each row the lineage check reads, because no operation of this
component changes them.

The record and the incident of a promotion are rows that other requests work on
too, each on a copy it read and writes back whole. `work[w]` is such a request:
a label, suggested or rejected (`ReadRecord`, `SaveLabel`), a further
`promote-to-incident`, which links another incident (`Relink`), a replay or a
mutation test of the record (`ReadRecord`, `SaveProof`, `FetchIncident`,
`WriteBack`, and after a verified fix `ReadCandidate` and `RaiseLevel`), and the
replay, mutation and certificate routes addressed to the incident
(`ReadIncident`, `WriteBack`, once or twice). `Abandon` ends one anywhere. What
these write of their own (labels, results, statuses) is in `ProofLoop`; here
counts what they write back without meaning to: the bridge key, the link and
the lineage, which is part of the incident's snapshot summary.

`Abort` ends a promote at any step. `RecordReview` and `SaveLifecycle` are the
two writes of `record_review`; the second writes back the copy of the candidate,
evidence level included.

Without any crash, one promote and one such request can undo a promotion, in the
model as in the code:

- a replay reads the incident after `LinkIncident` and writes it back after
  `RecordLineage`: the lineage that was answered is gone, and every later promote
  is answered `BRIDGE_LINEAGE_INCOMPLETE`;
- a label reads the record before `SetBridgeKey` and saves it after
  `LinkIncident`, which would set the key again: the bridge key is gone, and the next promote, under another approval, makes and
  returns a second bundle;
- `promote-to-incident` on the record points it to another incident: the lineage
  stays on the bridge's, but later promotes are answered
  `BRIDGE_LINEAGE_INCOMPLETE`. This one needs no overlap, and `PromotionDurable`
  therefore asks for an incident, not for the bridge's.

The first two, and two promotes that both find no record, are the overlaps nothing in
the code prevents. Two history variables note them: `doubled`, candidates for
which a promote began to write while another was writing, and `crossed`,
candidates that a promote was writing for while another request held a copy of
the record or the incident. `PromoteIdempotent`, `PromotionDurable`,
`LineageStays` and the abstract promise exempt these candidates and no others: a
request that reads after the promotion's last write, and writes its copy back at
any time, must leave it as it is, and so must retries after a promote that died.
`PromotionAuthorised` and `LaterReviewPrevails` exempt nothing.
`NeverLeftBehind` says that a record without lineage has a promote at work on
it, a copy that crossed it, or a promote that died; a second promote is no excuse.

`ImplementsPromotion` refines `Promotion` by the mapping "granted = approving
reviews and deterministic delegations that were created, promoted = lineage on
the incident, disturbed = `doubled` and `crossed`". `Promotion` allows a
disturbed candidate to lose its bundle or to change it, but not for one without
an authority granted for it.

### ReleaseGate

`req[k]` is a POST that starts a run, a readiness check or a gate check; the
rows it creates have fresh ids and are therefore indexed by the request. Steps:
`ReadPolicy`, `SelectScenarios`, `RunScenario` for each, `CompleteRun`,
`ReadScenario` and `WriteBack` for each (the refresh of `last_run_status`),
`SaveCheck`, `IssueCertificate`, `LinkCertificate`, `AnswerGate`, and
`AnswerError` for the gate's `except Exception`. `patch[q]` and `promoting[q]`
are PATCH and promote requests between their read and their write. `Outcome`
(constant) is the replay of a scenario's source record under the caller's fix:
it compares the decision with the expected outcome and turns exceptions into
"errored". `agent_version` does not influence a replay in the code, so it is not
in the model. `Fault` raises at any call or ends the process.

Abstracted: tenancy (one organization; a row of another one is `None` to a
handler), titles and replay reports, policy versions and change history, and the
state "ready" of candidates (only "blocked" matters to promotion).
`offered` and `shelved` are history variables for the properties.

### ProofLoop

The loop exists twice over the same incident rows. The record loop
(`services.py`, behind `routers/verification.py`) keeps replay runs, mutation
tests and certificates as rows of their own and copies each result to the
incident its record was promoted to. The incident loop (`routers/incidents.py`,
`routers/certificates.py`) keeps its results on the incident alone. Nothing
orders the two.

`req[k]` is a request of either loop, or one that changes a label: `row` is its
copy of the record, `copy` and `reread` its copies of the incident, `result`
what it found out. Record loop: `BeginReplay`, `BeginMutation` and `CheckRun`,
`BeginProof` and `CheckTest`, then `Save`, `FetchIncident`, `Write`. Incident
loop: `BeginIncidentReplay` and `LoadAndReplay`, `BeginIncidentMutation` and
`LoadAndTest`, `BeginIncidentProof`, then `Write`. Both end the issuing of a
certificate with `store_certificate`, which reads and writes the incident once
more (`ReadBack`, `StoreCertificate`), the record loop after its `Write`, the
incident loop before. `making[q]` is an ingest or a promotion: `CountIncidents`
takes the next incident id, which is the number of incidents plus one,
`InsertIncident` writes the row and writes it again for each custody event, then
`StoreSnapshot` and `LinkRecord`. `Abort` and `AbortMaking` end a request
between any two calls.

`Evidence` (constant) is what a record holds; from it follow, as in the code,
whether a replay is refused and which limitations block a certificate.
`Decide` (constant) is the agent: what it decides on a record under a fix, or
that it raises. The code picks it in three ways (a configured runner, the
scenario's agent, the demo agent that `main.py` sets at startup); the model has
one agent per record.

Abstracted: signatures and seals; tenancy; rows nothing reads back (evidence
artifacts, custody, execution events, the incident's own replay runs, the copy
of a certificate in the object store); the lineage update of a candidate at the
end of `run_mutation`, which is `RaiseLevel` of `ProofBridge`.

`ImplementsProof` refines `ProofOfMitigation` by the mapping "replayed = records
with a run of that status, verified = claims of verified tests, certified =
certificates of the record loop".

### Ingress

`req[k]` is a request with its envelopes, the position in them and the receipts
it has written; requests arrive in order. `IngressService.ingest` is `Reject`,
or `Lookup` and then `RecordConflict`, or `PersistPayload` and `IndexResource`.
A digest is a function of the body alone, as `compute_digest` leaves digest and
signature out. Rows are keyed as `PostgresS3Storage` keys them: a resource by
its identifier alone, across organizations. `Die` ends a request at any storage
call. Abstracted: the schema (a flaw an envelope has or has not), signatures.
The properties exempt identifiers that two requests held at once between lookup
and write or that two organizations use (`contended`): the code takes no lock,
and the second of two such deliveries overwrites payload and row of the first.

### SourceProfiling

`ReadProfiles`, `ReadVersions` and `CreateMapping` are a proposal,
`ReadMapping` and `SaveMapping` a confirmation. `_infer_field_type` and
`_infer_mappings` are operators over kinds of values and over a table of how
alike names are (`Score`). `overlapped` holds the sources and mappings two of
them worked on at once; with an overlap two versions get one number and an edit
is undone. Lists of `PostgresS3Storage` are newest first; with `MemoryStorage`
they are oldest first (`storage.py:1229-1230`): a proposal is then made of the
oldest profile and numbered after the oldest version, so that the third proposal
repeats version 2. `VersionsDistinct` is about `PostgresS3Storage`.
`unmapped_fields` of the coverage may be negative once profile and mapping are
of different data; `CoverageAddsUp` states when it is right.

### Setup

A plan's update reads the row and writes it whole (`PatchPlan`, `SavePlan`).
Selection rules, evidence sources and field rules are replaced alike:
`DeleteRows`, a `WriteRow` for each, `RowsWritten`; a GET of an empty list seeds
it the same way (`SeedRows`). `OpenPlan` begins the three routes that make a
workflow on demand, `CreateWorkflow` and `AttachWorkflow`; `SelectRecords`
applies the rules for a preview or a commit, `ImportRecord` creates one record,
`AnswerImport` ends. `overlaid`, `doubled` and `contested` are the plans and
targets where two requests overlapped or one died. Abstracted: texts (a record
has the set of triggers its text suggests), the rows of AI systems and
connectors, what a preview shows beyond its findings.

Facts the model records: a forecast of "replayable" is never what the imported
record is, because an expected outcome is no label; a record of model calls only
is forecast to need a label and is evidence only, because the setup engine
counts a model call as a recorded response and `ReplayabilityService` does not;
rows put with the identifiers of another target move there.

The lists that the code filters (`RowsOf`, `Findings`, `Chosen` and what
`DeleteRows` leaves) are made by one recursive function, `Listed`, and not by
`SelectSeq`, of which the provers know nothing.

### FileStorage

`memory` has the counter, the incidents and one row of each sort of collection:
those whose operations save, those that are persisted when another operation
saves (assurance plans), those persisted whose values are lists (selection
rules), and those not persisted. A save is `ReadCounter`, `Collect`, `OpenTmp`,
`WriteTmp`, `ReplaceFile`, as `_save` calls the file system; two saves share the
temporary file, so the slower one truncates what the faster has written, writes
into the file that was already put in place, or finds nothing to put in place
(`ReplaceRaises`). `Restart` may come at any moment. `AnsweredIsSaved` and
`IncidentIdsStand` hold as long as every file loaded was made by a save that ran
alone (`solid`, `sound`); after overlapping saves neither does. A file that is not whole
raises in `_load` and the process does not start. Once selection rules are
saved, `_save` raises for every later operation, because it calls `to_dict` on a
list: memory keeps the write, the client gets an error, the file stays as it was
(`CollectRaises`).

### EvidenceContext

A build is `Identify` (the precedence of `DecisionIdentityResolver.resolve`),
`CreateRecord`, `Select` and `Judge` (candidate bindings, then what is expired,
superseded, of lower rank or in conflict), `CreateContextConflict` for each
conflict, `CreateTrace`, `_update_der_bindings`; the reads of one resolution are
one step. Lists of bindings are functions on positions. Links are confirmed by
read and write, and posted any number of times: a posted identifier is an
upsert, with other ends too (`CreateLinkAssertion`). Times are integers, with or
without a zone: comparing the two sorts raises in the code, and the build ends
with a record and no trace. Abstracted: relevance of a binding beyond scope and
selector; redaction is a type of its own.

`LinkedDecisionsAgree` therefore speaks of pairs of resources, not of links: `over`
remembers on a record which pairs its identity was found over, and `known` how
many records there were when it was resolved. Two records found over one pair,
the later resolved when the earlier was stored, have one identity, whatever was
posted, rejected or confirmed since; it holds because an identity that was given
is found as an exact one before any link is followed again. Of two builds that
resolve at once neither knows the other's record, and nothing is said of them.

A superseding binding is included without being judged itself; when it also was
a candidate that conflicts, the conflict names it twice.

### Sweep

The routes are `PostDefinition`, `ReadDefinition` with `ListRecords`,
`CreateRun`, `CreateJob` for each job and `StartRun`, `Rerun`, `ReadForCancel`
with `SaveCancelled`. `sweep_worker/main.py` is a stub: nothing under `src/`
calls `advance_run_status`, `complete_run`, the evaluators or the assembler. The
worker (`LoadRun` to `Assemble`) is therefore modelled from their interface, in
the order the tests use. `RecordBuilt` and `RecordResolved` stand for the builds
of `EvidenceContext`. The jobs of a run are a sequence, since each is a row of a
fresh id: a definition that names an evaluator twice gets two jobs for it, and a
job written twice would be seen. `calculate`, `recalculate_after_verification`, the
prerequisite checks of planner and evaluators, `_compare` and the evaluators are
operators.

### CassetteReplay

`Entries` is what `ResponseCassette` keeps of a recording; the recording is what
an incident was posted with or what `sdk_element_to_event` and
`_snapshot_from_vr` make of it for a record (a `tool` element answers calls only
in the second case). `Lookup` is one call of the agent, which may make any calls
and then decide or raise. `InOrder` is the strict mode, `BySignature` the
default. A body is none, empty or one of several: none and empty have the same
signature, and a call without one is answered also by a recording with one.
`Entries` is a recursive function for the reason `Listed` of `Setup` is.

## Runs

| Run | Instance | Shows |
|---|---|---|
| `BridgeSerial` | 1 candidate, promotes one after another, 1 slot for requests that write copies back, 2 reviews with periods and supersessions, 1 crash | idempotence and durability, nothing left half-way without a cause, refinement of `Promotion` |
| `BridgeLive` | 2 slots, 1 candidate, 2 reviews that approve or dismiss, 1 delegation that has yet to begin, no crash | nothing enters the proof loop without earned authority and a stored bundle, no promotion runs on an authority already overruled, and every promotion that begins to write completes |
| `BridgeStuck` | 1 slot, 1 crash | **violated**: a promotion that died half-way is never completed |
| `BridgeRace` | 2 slots, no crash | **violated**: the slower promote replaces recorded lineage |
| `GateChecks` | 1 request of any kind, 1 promoter, 1 editor, 3 edits, 1 fault | passes are earned, answers agree, one scenario per record, requests are answered, passed checks are certified |
| `GateCertificate` | as above, no fault | **violated**: a certificate names a scenario that did not run |
| `GateRetired` | as above, no fault | **violated**: a run undoes a retirement |
| `LoopChecks` | one of 4 kinds of record, 1 incident, 1 creator, 4 requests of which 2 at once, any of them may die | certificates are sound in both loops, statuses are backed, promotions complete, refinement of `ProofOfMitigation` |
| `LoopRetained` | as above, one kind of record | **violated**: a replay erases the certificate of an incident |
| `IntakeChecks` | `MCIntake`: scenes of `Ingress`, `SourceProfiling`, `Setup` and `FileStorage` | receipts, rows and registrations stand; versions, edits and coverage; rows of one save, attached workflows, updates and imports; answers are saved and ids stand |
| `AssessmentChecks` | `MCAssessment`: scenes of `EvidenceContext`, `Sweep` and `CassetteReplay` | left-out bindings are explained, linked decisions agree; plans are whole, candidates backed, rules agree; replays report what was recorded |
| `InferredIdentity` | as above | **violated**: an inferred identity becomes an exact one |

Bounds. `MaxReviews`, `MaxAborts`, `MaxEdits` and `MaxFaults` bound the history,
not the mechanism: two reviews are enough for one to overrule or supersede the
other, one crash leaves every reachable half-written state, three edits are
enough to create a policy, change it and retire a scenario. The gate's run has
one request because requests touch each other only through scenario rows they
refresh; the proof covers any number.

The two passing bridge runs divide what together is too much. `BridgeSerial` has
the requests that write older copies back: one slot is enough for each of the
overlaps named above and for copies written back after the promotion, since what
such a request holds is all that counts of it. One slot for promotes leaves
`doubled` empty, so idempotence, durability and the refinement are checked
against `crossed`; two promotes at once are covered by the proofs and shown by
`BridgeRace`. It has no delegation: an approving review gives authority enough,
and two reviews withdraw or overrule it. `BridgeLive` has two promotes, a
delegation that begins, ends or is revoked while they run, and no request that
writes copies back, because `PromotionCompletes` exempts candidates one of them
crossed; that a crossing is the only other cause is `NeverLeftBehind`, checked in
`BridgeSerial` and proved. The authority properties are proved for
any number of requests of each sort, and so are the negative cases of `Links` and of
delegations that are not deterministic.

The proof loop needs three requests to certify (replay, test, certify) and
`MaxPosts` allows one more that interferes, of either loop, also with the
issuing. `MaxRecords` is one, because records meet only through the ids of their
incidents; the four kinds of record (complete, with an unseeded model call, with
nothing to replay from, without a runner) are tried one at a time. There is one
creator of incidents: two may count the same number, take the same id and leave
a row of one record with the snapshot of the other, so that
`IncidentProofIsSound` and `PromotionIsComplete` say something only as long as no
two are between counting and inserting at once. Under that hypothesis they are
proved for any number of creators, the other properties of the loop without it,
and all of them for any number of records and requests.

`MCIntake` and `MCAssessment` compose modules that share no state; `focus`
chooses once which of them moves, so the states add up instead of multiplying.
Within a module a scene leaves out what its properties do not need. Ingress: 3
requests over 2 identifiers, 2 organizations and 1 death are enough for a
delivery, its repetition and a conflict, and for two that overlap. Profiling: 2
workers, 2 profiles, 3 versions. Setup: two requests on one plan, two that
replace the rows of targets, or imports of three records of different kinds,
each with a death. File: 2 savers, 3 writes, 2 restarts, so that a save can
follow an overlap or a restart. Context: identities over 2 resources, an alias
and a link that may be posted again with another end, with two builds at once; and 3 bindings that expire, supersede or
conflict, with one. Sweep: two requests that plan 2 runs over at most 1 record,
of a definition that may name one evaluator twice; and one worker of one run, against cancellation. Cassette: recordings of up to 3
elements, up to 3 calls, in both modes.

Deadlock is not checked: a system without further requests stops.

Fairness. `FairSpec` states weak fairness of the steps of requests that were
accepted: uvicorn runs every handler to its end unless the process dies, which
is `Abort` or `Fault`. For the bridge it adds that clients promote again, without
which a candidate nobody retries would stay as it is; `BridgeStuck` shows that
even retrying forever does not help.

## Proofs

`ProofBridgeProofs` proves, for any number of candidates, requests, reviewers,
delegations and requests that write copies back: `TypeCorrect` (`[]TypeOK`),
`PromotionIsAuthorised`, `LaterReviewsPrevail`, `NothingIsLeftBehind`,
`PromotionIsDurable`, `PromoteIsIdempotent`, `LineageIsAppendOnly` and
`Refinement` (`ImplementsPromotion`), all of `Spec` alone.
`PromotionAuthorised` is not inductive: that the
record written at `CreateRecord` is sound depends on what the request established
seven calls before, and any row may be overwritten by a copy. `IInv` adds
`RequestInv`, what a request knows from each step
on (at a proof level, sound lineage, earned authority, a stored bundle, a record),
`WorkInv`, that the copies to be written back are of the same kind, and
`LevelInv`: although stale copies overwrite evidence levels, no step moves a
level across the line between E2 and E3, so what `check_eligibility` read of it
stays true. Authority, once earned, stays earned because reviews are only
appended and delegations never return to "absent".
`LeftInv` adds to `NeverLeftBehind` that a copy without lineage was read beside a
promote or after one died. `SerialInv` is about candidates without an overlap:
at most one promote writes and nobody holds a copy meanwhile, lineage comes with
a finished record of the same bundle, a promote still writing finds none,
and every copy held agrees with the row in what matters (`Agrees`), so that writing
it back changes neither lineage, bundle nor key.

`ReleaseGateProofs` proves `TypeCorrect`, `PassesAreEarned` (`[]PassIsEarned`)
and `AnswersAlwaysAgree` (`[]AnswersAgree`). `IInv` is `TypeOK` and, for each
request, `Known(k)`: which rows it has written at each step, that every result
it holds is what the scenario really gives (`Truthful`), that what it selected
covers what the policy required at some moment since it began (`Covered`,
`Requested`), and that an error answer never follows a stored failed check.
`Frame` says what others may do to a request: policies may change what is
offered only before it is read, scenarios appear but never vanish.

`ProofLoopProofs` proves `TypeCorrect` (`[]TypeOK`), `ProofSound`
(`[]ProofIsSound`), `StatusBacked` (`[]StatusIsBacked`) and `Refinement`
(`ImplementsProof`). `TypeInv` adds to `TypeOK` what each step finds in its
request, and that an incident never disappears, so that `StoreCertificate` has a
row to write. `SoundInv` says that what a request of the record loop is about to
save rests on runs and tests that are stored: a verified test on a replayed run,
a certificate on a verified test. It stays true while the request waits because
runs and tests are only appended to, however many requests append
(`HistoryStays`, `HistoryGrows`). The same two facts give the refinement: `Save`
is `Replay`, `Verify`, `Certify` or a stutter, every other step a stutter.
`StatusIsBacked` is not inductive, since stale copies are written over newer
rows: `RowsBacked` demands it of every copy a request holds as well.

`IngressProofs` proves `IngressTypeCorrect` (`[]IngressTypeOK`),
`ReceiptsAlwaysHold` (`[]ReceiptsHold`), `IndexAlwaysBacked`
(`[]IndexIsBacked`) and `FirstStands` (`FirstRegistrationStands`), for any
number of organizations, identifiers, requests, deaths and for batches of any
length. None of them is inductive: they are about rows, and what keeps a row is
that nobody is about to write it. `Inv` therefore adds, for identifiers that are
not contended, that at most one request is between lookup and write (`Alone`) and
that there is no row as long as one is (`First`); the types need `Differs`, that a
request about to record a conflict has found a digest, and another one.
`StepWritesOwn` shows that a step writes only the rows of the key its request
holds, from which `RegistrationStands`, `ReceiptStands` and `OthersStand` carry
what was known over every step, so that one lemma (`OwnStep`) is left about what
a request knows after its own.

`SourceProfilingProofs` proves `ProfilingTypes`, `VersionsAreDistinct`,
`ConfirmationsStand` and `CoverageIsRight`. `VersionInv` and `ConfirmInv` are
about the window between a read and the write that depends on it: unless two
overlapped, the number a proposal holds is above all versions of its source, and
the row a confirmation holds is the one stored. For the coverage, an inferred
mapping has one entry for each field it maps, of a profile that never changes.

`IntakeProofs` proves `FileTypes`, `AnswersSaved` and `IncidentIdsKept`.
What a client was told is followed from memory to the file: memory has it and
what each request in flight wrote, the counter a save carries is past its own id
and all those answered although counter and collections are read in two steps
(`CounterPast`), and a save that runs alone has the temporary file for itself
(`SaveOK`), so that the file has it when the answer is given.

`SetupProofs` proves `SetupTypes` (`[]SetupTypeOK`), `WorkflowsAttached`,
`NamedFieldsOnly`, `RowsOfOneSave` and `ImportsForecast`. `UpdateInv`: an update that overlaps with no other holds the
plan as it is, changed where it names a field. `HealInv`: one request at a time
gives a plan a workflow, and the one made for the plan is the one it has in hand
until the plan has it. `RowsInv`: a target that is not contested has at most one
save, its rows are as many as that save has written, and none of those it has
still to write; what is deleted, upserted or moved is counted by identifiers.
`ImportInv`: a commit has a number of its own, a list with each finding once, and
has created only findings it is past. Both rest on `ListedOnce`: what a list made
from a function on positions holds, which is proved by the least position at
which it would fail, because induction theorems cannot be used here.

`AssessmentProofs` proves `ContextTypes` (`[]ContextTypeOK`), `LeftOutAccounted`
and `LinkedRecordsAgree` of `EvidenceContext`, `SweepTypes` (`[]SweepTypeOK`),
`PlanHolds`, `CandidatesHold` and `RulesHold` of `Sweep`, and `ReplayHolds` of
`CassetteReplay`. The types of `EvidenceContext` are the last thing its
invariants give: a record is well formed only if the bindings, trace and gaps a
build writes into it are, which rests on what each step of the build holds
(`RowsTyped`: the rows it writes are of the record it created, `Judge` and
`Candidates` select from the bindings there are). `ConsideredInv` counts the conflict rows a
resolution has still to write as written. `IdentityInv` says of a record found over a link from which end
it was followed, and that no record it knew had that end as its identity; so a
record found earlier over the same pair has the other end, and both agree.
`PlanningInv` says that what a run has of its jobs and what its planner has still
to write make up its plan. `SweepInv` says what each request holds of its run, its jobs and its record, and
that a level never exceeds what the record gives: records only grow, and the
level grows with them (`LevelGrows`). `ReplayInv` says how far the two lookups
have gone in the entries, after `EntriesAre` says what these are.

The runs check one type invariant for each of the two groups of modules that share
no state, `IntakeTypeOK` and `AssessmentTypeOK`. They are theorems too
(`IntakeTypes`, `AssessmentTypes`): a scene of the composed specification allows
some of the steps of one module and leaves the others alone, so what is proved of
each module holds of all together.

### What is proved for one at a time

Two groups of theorems have a hypothesis about requests, because what they say
is false without it:

- `OneScenarioEach` of the gate assumes that the scenarios seeded are of
  different records and `[]PromotedOneAtATime`: no two promote
  requests have found the same record without a scenario. `LibraryInv` keeps such
  a record without one until its request writes, although runs and edits write
  scenarios back meanwhile.
- `PromotionComplete` and `IncidentProofSound` of the proof loop assume
  `[]OneInsertion`: no two creators have counted the incidents and not yet
  inserted their own, since two that have take one id. Before and after that, while
  the snapshot is stored and the record linked, any number may be at work, and any
  may die. `LineageInv` says that incidents are numbered from one up and that every
  copy belongs to the record its incident was created from; `RowsTrue` that what
  a row, a copy or a result states is true of it. `OneSlotCreates` proves the
  hypothesis for one creator.

No other theorem has a hypothesis. What the exempting history variables say
(`doubled`, `crossed`, `contended`, `overlapped`, `overlaid`, `contested`, `solid`, `sound`, `known`)
is part of the properties themselves, in the runs as in the theorems.

Every theorem rests on the assumption on constants of the modules it is about,
which TLC evaluates in every run: types of data, and that lists are lists.

### What is only model-checked

- Liveness: `PromotionCompletes`, `GateAnswered`, `PassedChecksAreCertified`. It
  needs fairness and ENABLED, which the prover does not handle.
- The six violations, each of which is a behaviour.

## Where code and documentation disagree

The six violated runs are listed with their quotations under "findings" in
`PROJECT.json`. `RetirementSticks` is violated with `PostgresS3Storage`; with
`MemoryStorage` the run and the PATCH change one shared object and the
retirement stays. `CertificatesRetained` likewise: the copy is one of
`PostgresS3Storage`.

Divergences met while modelling that have no run of their own:

- `context.py:23` "Preserve equal-authority disagreement as ContextConflict": a
  binding that is both a candidate and the superseder of another conflicts with
  itself.
- `setup.py:636-637` "preview and commit never silently become a no-op because
  there are no selection rules": they do for a plan whose workflow was attached
  by an update, or whose type has a template without rules.
- `storage.py:1456` "survives process restarts": not the collections that
  `_PERSISTED_COLLECTIONS` leaves out, nor anything written after selection
  rules were saved (see `FileStorage`).
- `dep_ingress.py` says a batch is ingested atomically: it is ingested envelope
  by envelope.
- `NOTARY_PLATFORM_BLUEPRINTS.md:2638` "Expected Outcomes used for
  certificate-grade proof must carry human-approved label provenance": a record
  nobody labelled can be replayed, tested with an outcome that the request states
  and certified. The flag `missing_label` is created as blocking
  (`services.py:533`), but `from_vr_and_replay` (`services.py:984`) blocks on the
  severity only; `CoreFlags` and `CheckTest` of `ProofLoop` follow the code.
- `NOTARY_PLATFORM_REQUIREMENTS.md:1124` "the platform shall enforce the same
  call order that was captured in the incident": no route replays in strict
  order.

## Not modelled

- Authentication, platform administration, dashboards, the demo catalog,
  preflight, reports and SDKs: stateless checks, single-row routes, read-only
  presentation and seed data.
- Signatures, seals and signing keys: outside what TLC can say anything about.
- Sweep manifests, versions of evaluator contracts, suppression rules, proposals
  of links, advisory suggestions, AI systems, capture connectors, validation runs
  and decision families: rows that are written and listed, and read by no
  operation with a decision in it. Cursors of sources: nothing advances them.
- The editing of a record's replayability by a direct import
  (`verification.py:404-442`), `reset` of the file backend (demo preflight only),
  migrations.
- Rows of `MemoryStorage` are shared objects that handlers change before they
  save them; the models read copies, as with `PostgresS3Storage`.

## Plan

1. Done: `ProofBridge` with `Promotion`, `ReleaseGate`, `ProofLoop` with
   `ProofOfMitigation`, and their proofs; `Ingress` and its proofs;
   `SourceProfiling`, `Setup`, `FileStorage`, `EvidenceContext`, `Sweep`, `CassetteReplay` and their runs.
2. Done: proofs of every safety invariant, type invariant and action property
   that a passing run checks, and both refinements.
3. Worth having beyond this: a run for "a certified record was labelled", which
   `_compute_determinism` intends and `from_vr_and_replay` loses; the incident loop's demo agents as state, so that a
   demo reset between replay and mutation can be told; the hypothesis
   `OneInsertion` made a history variable that exempts only the incidents it
   touched, as the other modules do; and the merge of the state the composed
   instances keep apart (a build of `EvidenceContext` as the step `RecordBuilt`
   of `Sweep`).

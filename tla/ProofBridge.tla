------------------------------ MODULE ProofBridge ------------------------------
(***************************************************************************)
(* Promotion of assurance candidates into the proof loop (sweep/bridge.py, *)
(* sweep/candidates.py and the routes of routers/candidates.py).           *)
(*                                                                         *)
(* A promote request is a sequence of storage calls with no transaction    *)
(* around them.  Each storage call that another request can observe is one *)
(* step here, requests interleave freely, and a request may die between    *)
(* any two of its calls.  Reads return copies and writes replace the whole *)
(* row under a deterministic id, as PostgresS3Storage does: that is so of  *)
(* the promote requests, and of every other request that reads the record  *)
(* or the incident of a promotion and later writes its copy back.          *)
(***************************************************************************)
EXTENDS Naturals, Sequences, FiniteSets

CONSTANTS
    Candidates,     \* assurance candidates of one organization
    Requests,       \* slots for promote requests being served at once
    Reviewers,      \* slots for review requests being served at once
    Workers,        \* slots for label, proof-loop and incident requests
    Delegations,    \* promotion delegations the organization may create
    Links,          \* per candidate, the state of each lineage link
    InitialLevel,   \* per candidate, the evidence level it was assembled with
    Rule,           \* per delegation, what it was created to cover
    ReviewInputs,   \* the decisions and effective periods reviewers submit
    GrantPeriods,   \* the effective periods delegations are created with
    MaxReviews,     \* bound: review decisions per candidate
    MaxAborts       \* bound: promote requests that die half-way

LinkNames == {"der", "run", "definition", "resources", "bindings"}
LinkStates == {"ok", "missing", "foreign"}
Levels == {"E0", "E1", "E2", "E3", "E4"}
ProofLevels == {"E3", "E4"}
Rules == [deterministic : BOOLEAN,
          scope : SUBSET Candidates,
          level : {"any"} \cup Levels]

LifecycleOf == [approve_incident |-> "approved_incident", dismiss |-> "dismissed",
                accept_risk |-> "accepted_risk", suppress |-> "suppressed",
                instrument_next |-> "instrument_next", request_context |-> "needs_context"]
Decisions == DOMAIN LifecycleOf \cup {"supersede"}
LifecycleStates == {LifecycleOf[d] : d \in DOMAIN LifecycleOf} \cup {"reviewable"}

\* An effective_period against the clock: unbounded, not begun, running, over.
Periods == {"open", "future", "current", "past"}

ASSUME ConstantsAssumption ==
    /\ Candidates # {}
    /\ Links \in [Candidates -> [LinkNames -> LinkStates]]
    /\ InitialLevel \in [Candidates -> Levels]
    /\ Rule \in [Delegations -> Rules]
    /\ ReviewInputs \subseteq [decision : Decisions, period : Periods]
    /\ GrantPeriods \subseteq Periods
    /\ MaxReviews \in Nat /\ MaxAborts \in Nat

VARIABLES
    \* --- rows of the store
    level,          \* candidate.evidence_level
    lifecycle,      \* candidate.lifecycle_state
    reviews,        \* review decisions per candidate, by creation time
    delegation,     \* promotion delegations
    bundles,        \* evidence bundles, content-addressed
    vr,             \* the verification record whose id derives from the candidate
    incident,       \* the incident whose id derives from the candidate
    proved,         \* what the proof loop has shown on the candidate's record
    \* --- requests being served
    req,            \* promote requests: position and locals
    pending,        \* review requests between their two writes
    work,           \* label, proof-loop and incident requests, with their copies
    \* --- bounds and history
    aborts,
    returned,       \* bundle references successful promotions returned
    doubled,        \* candidates that two promotes were writing for at once
    crossed         \* candidates that a promote was writing for while another
                    \* request held a copy of the record or the incident to write back

rows == <<level, lifecycle, reviews, delegation, bundles, vr, incident, proved>>
overlaps == <<doubled, crossed>>
history == <<aborts, returned, overlaps>>
vars == <<rows, req, pending, work, history>>

(***************************************************************************)
(* Data                                                                    *)
(***************************************************************************)
Review == [decision : Decisions, supersedes : Nat, period : Periods]
Delegation == [state : {"absent", "active", "revoked"}, period : Periods]

None == [kind |-> "none"]
ReviewAuthority(i) == [kind |-> "review", review |-> i]
DelegationAuthority(d) == [kind |-> "delegation", delegation |-> d]
Authorities == [kind : {"review"}, review : Nat]
                 \cup [kind : {"delegation"}, delegation : Delegations]

\* A bundle's id is the digest of its manifest: the manifest is its identity.
Bundles == [kind : {"bundle"}, candidate : Candidates, authority : Authorities, level : Levels]
Bundle(c, a, l) == [kind |-> "bundle", candidate |-> c, authority |-> a, level |-> l]

\* promoted_to_incident names the incident the bridge created, or another one
\* that POST /verification-records/{id}/promote-to-incident created.
IncidentRefs == {"none", "bridge", "other"}
Records == [kind : {"vr"}, bundle : Bundles, bridgeKey : BOOLEAN, incident : IncidentRefs]
Record(b, k, i) == [kind |-> "vr", bundle |-> b, bridgeKey |-> k, incident |-> i]

Incidents == [kind : {"incident"}, lineage : Bundles \cup {None}]
Incident(l) == [kind |-> "incident", lineage |-> l]

Proofs == {"nothing", "replay", "fix"}

Steps == {"idle", "prerequisites", "review", "delegation", "existing", "lineage",
          "freeze", "vr", "bridge_key", "incident", "link", "record_lineage"}
Request == [step : Steps, candidate : Candidates, seen : Levels,
            authority : Authorities \cup {None}, frozen : Bundles \cup {None}, linked : IncidentRefs,
            since : Nat]    \* history: review decisions on record when it began
Idle == [step |-> "idle", candidate |-> CHOOSE c \in Candidates : TRUE, seen |-> "E0",
         authority |-> None, frozen |-> None, linked |-> "none", since |-> 0]
PendingReview == [kind : {"review"}, candidate : Candidates, level : Levels, decision : DOMAIN LifecycleOf]

\* What a request reads the record for, and the positions in which a request
\* holds a copy of the record or the incident that it will write back.  Of the
\* record's copy, a replay or a mutation test uses the bridge key and whether
\* it names the bridge's incident.
Purposes == {"label", "relink", "replay", "mutation"}
Holding == {"label", "relink", "write", "write_fix"}
WorkSteps == {"free", "fetch", "fetch_fix", "raise", "level"} \cup Purposes \cup Holding
Work == [step : WorkSteps, candidate : Candidates, record : Records \cup {None},
         keyed : BOOLEAN, linked : BOOLEAN, row : Incidents \cup {None},
         level : Levels, lifecycle : LifecycleStates]
Free == [step |-> "free", candidate |-> CHOOSE c \in Candidates : TRUE, record |-> None,
         keyed |-> FALSE, linked |-> FALSE, row |-> None,
         level |-> "E0", lifecycle |-> "reviewable"]

(***************************************************************************)
(* _period_is_active, _resolve_authority, _check_delegation                *)
(***************************************************************************)
PeriodIsActive(p) == p \in {"open", "current"}

SupersededIds(c) == {reviews[c][i].supersedes : i \in DOMAIN reviews[c]}

ActiveReviews(c) ==
    {i \in DOMAIN reviews[c] : /\ i \notin SupersededIds(c)
                               /\ reviews[c][i].decision # "supersede"
                               /\ PeriodIsActive(reviews[c][i].period)}

LatestIgnoresOrder(c) == ActiveReviews(c)                  \* mutant
LatestActive(c) == {i \in ActiveReviews(c) : \A j \in ActiveReviews(c) : j <= i}

ApprovingAnyDecision(c) == LatestActive(c)                 \* mutant
ApprovingReview(c) == {i \in LatestActive(c) : reviews[c][i].decision = "approve_incident"}

Matching(c, l) ==
    {d \in Delegations : /\ delegation[d].state = "active"
                         /\ Rule[d].deterministic
                         /\ PeriodIsActive(delegation[d].period)
                         /\ c \in Rule[d].scope
                         /\ Rule[d].level \in {"any", l}}

\* The prerequisites of check_eligibility other than the authority.
PrerequisitesMet(c, l) ==
    /\ Links[c]["der"] = "ok"
    /\ Links[c]["run"] = "ok" /\ Links[c]["definition"] = "ok"
    /\ l \in ProofLevels
    /\ Links[c]["resources"] = "ok"
    /\ Links[c]["bindings"] = "ok"

RecalculateAfterVerification(l, hasReplay, hasVerifiedMutation) ==
    IF l \in ProofLevels /\ hasReplay /\ hasVerifiedMutation THEN "E4" ELSE l

NeverFound(c) == FALSE                                     \* mutant
HasBridgeKey(c) == vr[c] # None /\ vr[c].bridgeKey

--------------------------------------------------------------------------------
Init ==
    /\ level = InitialLevel
    /\ lifecycle = [c \in Candidates |-> IF InitialLevel[c] \in {"E2", "E3", "E4"}
                                         THEN "reviewable" ELSE "needs_context"]
    /\ reviews = [c \in Candidates |-> <<>>]
    /\ delegation = [d \in Delegations |-> [state |-> "absent", period |-> "open"]]
    /\ bundles = {}
    /\ vr = [c \in Candidates |-> None]
    /\ incident = [c \in Candidates |-> None]
    /\ proved = [c \in Candidates |-> "nothing"]
    /\ req = [r \in Requests |-> Idle]
    /\ pending = [v \in Reviewers |-> None]
    /\ work = [w \in Workers |-> Free]
    /\ aborts = 0
    /\ returned = [c \in Candidates |-> {}]
    /\ doubled = {} /\ crossed = {}

(***************************************************************************)
(* Promote, one storage call (or run of calls on fixed rows) per step      *)
(***************************************************************************)
At(r, step) == req[r].step = step
Goto(r, step) == req' = [req EXCEPT ![r].step = step]
Return(r) == req' = [req EXCEPT ![r] = Idle]

Start(r, c) ==
    /\ At(r, "idle")
    /\ req' = [req EXCEPT ![r].step = "prerequisites", ![r].candidate = c,
                          ![r].since = Len(reviews[c])]
    /\ UNCHANGED <<rows, pending, work, history>>

\* The one read of the candidate row that the rest of check_eligibility uses.
CheckPrerequisites(r) ==
    /\ At(r, "prerequisites")
    /\ req' = [req EXCEPT ![r].step = "review", ![r].seen = level[req[r].candidate]]
    /\ UNCHANGED <<rows, pending, work, history>>

Eligible(r) == PrerequisitesMet(req[r].candidate, req[r].seen)

\* An active review decides alone; the delegations are read only without one.
ResolveReview(r) ==
    /\ At(r, "review")
    /\ LET c == req[r].candidate
       IN \/ /\ ActiveReviews(c) = {}
             /\ Goto(r, "delegation")
          \/ /\ Eligible(r)
             /\ \E i \in ApprovingReview(c) :
                   req' = [req EXCEPT ![r].step = "existing", ![r].authority = ReviewAuthority(i)]
          \/ /\ ActiveReviews(c) # {}
             /\ ApprovingReview(c) = {} \/ ~Eligible(r)
             /\ Return(r)
    /\ UNCHANGED <<rows, pending, work, history>>

ResolveDelegation(r) ==
    /\ At(r, "delegation")
    /\ LET matching == Matching(req[r].candidate, req[r].seen)
       IN \/ /\ Eligible(r)
             /\ \E d \in matching :
                   req' = [req EXCEPT ![r].step = "existing", ![r].authority = DelegationAuthority(d)]
          \/ /\ matching = {} \/ ~Eligible(r)
             /\ Return(r)
    /\ UNCHANGED <<rows, pending, work, history>>

\* The promotes that found no record and have yet to record lineage, and the
\* requests with a copy of the candidate's record or incident to write back.
Window == {"freeze", "vr", "bridge_key", "incident", "link", "record_lineage"}
Writers(c) == {r \in Requests : req[r].step \in Window /\ req[r].candidate = c}
Holders(c) == {w \in Workers : work[w].step \in Holding /\ work[w].candidate = c}
NoteIf(noted, c, condition) == IF condition THEN noted \cup {c} ELSE noted

FindExisting(r) ==
    /\ At(r, "existing")
    /\ LET c == req[r].candidate
       IN \/ /\ HasBridgeKey(c)
             /\ req' = [req EXCEPT ![r].step = "lineage", ![r].linked = vr[c].incident]
             /\ UNCHANGED overlaps
          \/ /\ ~HasBridgeKey(c)
             /\ Goto(r, "freeze")
             /\ doubled' = NoteIf(doubled, c, Writers(c) # {})
             /\ crossed' = NoteIf(crossed, c, Holders(c) # {})
    /\ UNCHANGED <<rows, pending, work, aborts, returned>>

\* The existing record is returned, or BRIDGE_LINEAGE_INCOMPLETE is.
LinkExisting(r) ==
    /\ At(r, "lineage")
    /\ LET c == req[r].candidate
           complete == req[r].linked = "bridge" /\ incident[c] # None /\ incident[c].lineage # None
       IN returned' = IF complete THEN [returned EXCEPT ![c] = @ \cup {incident[c].lineage}]
                                  ELSE returned
    /\ Return(r)
    /\ UNCHANGED <<rows, pending, work, aborts, overlaps>>

FreezeUnkept(r) ==                                         \* mutant
    /\ At(r, "freeze")
    /\ bundles' = bundles \cup {Bundle(req[r].candidate, req[r].authority, level[req[r].candidate])}
    /\ Goto(r, "vr")
    /\ UNCHANGED <<level, lifecycle, reviews, delegation, vr, incident, proved,
                   pending, work, history>>

FreezeBundle(r) ==
    /\ At(r, "freeze")
    /\ LET c == req[r].candidate
           replayed == HasBridgeKey(c) /\ proved[c] # "nothing"
           verified == HasBridgeKey(c) /\ proved[c] = "fix"
           b == Bundle(c, req[r].authority, RecalculateAfterVerification(level[c], replayed, verified))
       IN /\ bundles' = bundles \cup {b}
          /\ req' = [req EXCEPT ![r].step = "vr", ![r].frozen = b]
    /\ UNCHANGED <<level, lifecycle, reviews, delegation, vr, incident, proved,
                   pending, work, history>>

WriteRecord(c, record) ==
    /\ vr' = [vr EXCEPT ![c] = record]
    /\ UNCHANGED <<level, lifecycle, reviews, delegation, bundles, incident, proved,
                   pending, history>>

\* create_from_sdk_snapshot writes the record before it has a bridge key.
CreateRecord(r) ==
    /\ At(r, "vr")
    /\ WriteRecord(req[r].candidate, Record(req[r].frozen, FALSE, "none"))
    /\ Goto(r, "bridge_key") /\ UNCHANGED work

SetBridgeKey(r) ==
    /\ At(r, "bridge_key")
    /\ WriteRecord(req[r].candidate, Record(req[r].frozen, TRUE, "none"))
    /\ Goto(r, "incident") /\ UNCHANGED work

WriteIncident(c, row) ==
    /\ incident' = [incident EXCEPT ![c] = row]
    /\ UNCHANGED <<level, lifecycle, reviews, delegation, bundles, vr, proved,
                   pending, aborts, overlaps>>

CreateIncident(r) ==
    /\ At(r, "incident")
    /\ WriteIncident(req[r].candidate, Incident(None))
    /\ Goto(r, "link")
    /\ UNCHANGED <<work, returned>>

LinkDropsKey(r) ==                                         \* mutant
    /\ At(r, "link")
    /\ WriteRecord(req[r].candidate, Record(req[r].frozen, FALSE, "bridge"))
    /\ Goto(r, "record_lineage") /\ UNCHANGED work

LinkIncident(r) ==
    /\ At(r, "link")
    /\ WriteRecord(req[r].candidate, Record(req[r].frozen, TRUE, "bridge"))
    /\ Goto(r, "record_lineage") /\ UNCHANGED work

RecordNothing(r) ==                                        \* mutant
    /\ At(r, "record_lineage")
    /\ Return(r)
    /\ UNCHANGED <<rows, pending, work, history>>

\* The incident written back is the copy this request created.
RecordLineage(r) ==
    /\ At(r, "record_lineage")
    /\ WriteIncident(req[r].candidate, Incident(req[r].frozen))
    /\ returned' = [returned EXCEPT ![req[r].candidate] = @ \cup {req[r].frozen}]
    /\ Return(r) /\ UNCHANGED work

\* The process dies, or a storage call raises: the calls made stay made.
Abort(r) ==
    /\ ~At(r, "idle") /\ aborts < MaxAborts
    /\ aborts' = aborts + 1
    /\ Return(r)
    /\ UNCHANGED <<rows, pending, work, returned, overlaps>>

PromoteStep(r) ==
    \/ CheckPrerequisites(r) \/ ResolveReview(r) \/ ResolveDelegation(r)
    \/ FindExisting(r) \/ LinkExisting(r) \/ FreezeBundle(r)
    \/ CreateRecord(r) \/ SetBridgeKey(r)
    \/ CreateIncident(r) \/ LinkIncident(r) \/ RecordLineage(r)

(***************************************************************************)
(* Review decisions and delegations                                        *)
(***************************************************************************)
\* record_review reads the candidate, then appends the decision ...
RecordReview(v, c, input, s) ==
    /\ pending[v] = None /\ Len(reviews[c]) < MaxReviews
    /\ reviews' = [reviews EXCEPT ![c] =
                      Append(@, [decision |-> input.decision, supersedes |-> s, period |-> input.period])]
    /\ pending' = IF input.decision \in DOMAIN LifecycleOf /\ LifecycleOf[input.decision] # lifecycle[c]
                  THEN [pending EXCEPT ![v] = [kind |-> "review", candidate |-> c, level |-> level[c],
                                               decision |-> input.decision]]
                  ELSE pending
    /\ UNCHANGED <<level, lifecycle, delegation, bundles, vr, incident, proved,
                   req, work, history>>

\* ... and then writes back the copy it read, evidence level included.
SaveLifecycle(v) ==
    /\ pending[v] # None
    /\ pending' = [pending EXCEPT ![v] = None]
    /\ lifecycle' = [lifecycle EXCEPT ![pending[v].candidate] = LifecycleOf[pending[v].decision]]
    /\ level' = [level EXCEPT ![pending[v].candidate] = pending[v].level]
    /\ UNCHANGED <<reviews, delegation, bundles, vr, incident, proved,
                   req, work, history>>

WriteDelegation(d, row) ==
    /\ delegation' = [delegation EXCEPT ![d] = row]
    /\ UNCHANGED <<level, lifecycle, reviews, bundles, vr, incident, proved,
                   req, pending, work, history>>

CreateDelegation(d, p) ==
    /\ delegation[d].state = "absent"
    /\ WriteDelegation(d, [state |-> "active", period |-> p])

RevokeDelegation(d) ==
    /\ delegation[d].state = "active"
    /\ WriteDelegation(d, [state |-> "revoked", period |-> delegation[d].period])

\* The clock moves into, or past, an effective period.
Elapsed(p) == IF p = "future" THEN "current" ELSE "past"

ReviewPeriodElapses(c, i) ==
    /\ reviews[c][i].period \in {"future", "current"}
    /\ reviews' = [reviews EXCEPT ![c][i].period = Elapsed(@)]
    /\ UNCHANGED <<level, lifecycle, delegation, bundles, vr, incident, proved,
                   req, pending, work, history>>

DelegationPeriodElapses(d) ==
    /\ delegation[d].state # "absent" /\ delegation[d].period \in {"future", "current"}
    /\ WriteDelegation(d, [state |-> delegation[d].state, period |-> Elapsed(delegation[d].period)])

(***************************************************************************)
(* Requests that work on a promotion's rows: labels, replays, mutation     *)
(* tests, promote-to-incident and the routes addressed to the incident.    *)
(* Each works on the copy it read and writes all of it back.               *)
(***************************************************************************)
Hold(w, q) == work' = [work EXCEPT ![w] = q]
Drop(w) == Hold(w, Free)
Doing(step, c) == [Free EXCEPT !.step = step, !.candidate = c]

\* get_vr, for a label, promote-to-incident, a replay or a mutation test, which
\* demands a replay of the record.
ReadRecord(w, c, purpose) ==
    /\ work[w].step = "free" /\ vr[c] # None
    /\ purpose = "mutation" => proved[c] # "nothing"
    /\ Hold(w, IF purpose \in Holding
               THEN [Doing(purpose, c) EXCEPT !.record = vr[c]]
               ELSE [Doing(purpose, c) EXCEPT !.keyed = vr[c].bridgeKey,
                                              !.linked = vr[c].incident = "bridge"])
    /\ crossed' = NoteIf(crossed, c, purpose \in Holding /\ Writers(c) # {})
    /\ UNCHANGED <<rows, req, pending, aborts, returned, doubled>>

\* update_vr with the copy: the label itself is a row of its own.
SaveLabel(w) ==
    /\ work[w].step = "label"
    /\ WriteRecord(work[w].candidate, work[w].record)
    /\ Drop(w) /\ UNCHANGED req

\* promote-to-incident creates an incident of a fresh id, and links it.
Relink(w) ==
    /\ work[w].step = "relink"
    /\ WriteRecord(work[w].candidate, [work[w].record EXCEPT !.incident = "other"])
    /\ Drop(w) /\ UNCHANGED req

\* The replay, or the verified mutation test, is saved; the record's incident
\* is then looked up by the copy of the record.
SaveProof(w) ==
    /\ work[w].step \in {"replay", "mutation"}
    /\ LET q == work[w]
           fix == q.step = "mutation"
       IN /\ proved' = [proved EXCEPT ![q.candidate] =
                           IF fix THEN "fix" ELSE IF @ = "nothing" THEN "replay" ELSE @]
          /\ Hold(w, CASE ~q.linked -> Free
                       [] fix -> [q EXCEPT !.step = "fetch_fix"]
                       [] OTHER -> Doing("fetch", q.candidate))
    /\ UNCHANGED <<level, lifecycle, reviews, delegation, bundles, vr, incident,
                   req, pending, history>>

FetchIncident(w) ==
    /\ work[w].step \in {"fetch", "fetch_fix"}
    /\ LET q == work[w]
           next == IF q.step = "fetch_fix" THEN "write_fix" ELSE "write"
       IN IF incident[q.candidate] = None
          THEN Drop(w) /\ UNCHANGED crossed
          ELSE /\ Hold(w, [q EXCEPT !.step = next, !.row = incident[q.candidate]])
               /\ crossed' = NoteIf(crossed, q.candidate, Writers(q.candidate) # {})
    /\ UNCHANGED <<rows, req, pending, aborts, returned, doubled>>

\* The replay, mutation and certificate routes addressed to the incident.
ReadIncident(w, c) ==
    /\ work[w].step = "free" /\ incident[c] # None
    /\ Hold(w, [Doing("write", c) EXCEPT !.row = incident[c]])
    /\ crossed' = NoteIf(crossed, c, Writers(c) # {})
    /\ UNCHANGED <<rows, req, pending, aborts, returned, doubled>>

\* The whole row goes back, the lineage in its snapshot summary with it.  The
\* routes write it once or twice; a verified fix of the bridge's record goes
\* on to raise the evidence level.
WriteBack(w) ==
    /\ work[w].step \in {"write", "write_fix"}
    /\ LET q == work[w]
           bridged == q.step = "write_fix" /\ q.row.lineage # None /\ q.keyed
       IN /\ WriteIncident(q.candidate, q.row)
          /\ \/ q.step = "write" /\ UNCHANGED work
             \/ bridged /\ Hold(w, Doing("raise", q.candidate))
             \/ ~bridged /\ Drop(w)
    /\ UNCHANGED <<req, returned>>

ReadCandidate(w) ==
    /\ work[w].step = "raise"
    /\ LET c == work[w].candidate
       IN Hold(w, [work[w] EXCEPT !.step = "level", !.level = level[c], !.lifecycle = lifecycle[c]])
    /\ UNCHANGED <<rows, req, pending, history>>

RaiseLevel(w) ==
    /\ work[w].step = "level"
    /\ LET q == work[w]
       IN /\ level' = [level EXCEPT ![q.candidate] = RecalculateAfterVerification(q.level, TRUE, TRUE)]
          /\ lifecycle' = [lifecycle EXCEPT ![q.candidate] = q.lifecycle]
    /\ Drop(w)
    /\ UNCHANGED <<reviews, delegation, bundles, vr, incident, proved, req, pending, history>>

\* The request raises or its process dies, wherever it is.
Abandon(w) ==
    /\ work[w].step # "free"
    /\ Drop(w)
    /\ UNCHANGED <<rows, req, pending, history>>

WorkStep(w) ==
    \/ \E c \in Candidates : ReadIncident(w, c) \/ \E purpose \in Purposes : ReadRecord(w, c, purpose)
    \/ SaveLabel(w) \/ Relink(w) \/ SaveProof(w) \/ FetchIncident(w) \/ WriteBack(w)
    \/ ReadCandidate(w) \/ RaiseLevel(w) \/ Abandon(w)

Next ==
    \/ \E r \in Requests : PromoteStep(r) \/ Abort(r)
    \/ \E r \in Requests, c \in Candidates : Start(r, c)
    \/ \E v \in Reviewers, c \in Candidates, input \in ReviewInputs :
          \E s \in 0..Len(reviews[c]) : RecordReview(v, c, input, s)
    \/ \E v \in Reviewers : SaveLifecycle(v)
    \/ \E d \in Delegations, p \in GrantPeriods : CreateDelegation(d, p)
    \/ \E d \in Delegations : RevokeDelegation(d) \/ DelegationPeriodElapses(d)
    \/ \E c \in Candidates : \E i \in DOMAIN reviews[c] : ReviewPeriodElapses(c, i)
    \/ \E w \in Workers : WorkStep(w)

Spec == Init /\ [][Next]_vars

\* Uvicorn serves every request it accepted to its end, and clients whose
\* promotion did not succeed send it again.
FairSpec ==
    /\ Spec
    /\ \A r \in Requests : WF_vars(PromoteStep(r))
    /\ \A r \in Requests, c \in Candidates : WF_vars(Start(r, c))

--------------------------------------------------------------------------------
(***************************************************************************)
(* Properties                                                              *)
(***************************************************************************)

\* The rows and the locals of every request are well formed.
TypeOK ==
    /\ level \in [Candidates -> Levels]
    /\ lifecycle \in [Candidates -> LifecycleStates]
    /\ reviews \in [Candidates -> Seq(Review)]
    /\ delegation \in [Delegations -> Delegation]
    /\ bundles \subseteq Bundles
    /\ vr \in [Candidates -> Records \cup {None}]
    /\ incident \in [Candidates -> Incidents \cup {None}]
    /\ proved \in [Candidates -> Proofs]
    /\ req \in [Requests -> Request]
    /\ pending \in [Reviewers -> PendingReview \cup {None}]
    /\ work \in [Workers -> Work]
    /\ aborts \in Nat
    /\ returned \in [Candidates -> SUBSET Bundles]
    /\ doubled \subseteq Candidates /\ crossed \subseteq Candidates

\* An authority somebody really gave for the candidate: an approving review
\* of it, or a deterministic delegation created with it in scope.
Earned(c, a) ==
    \/ /\ a.kind = "review"
       /\ a.review \in DOMAIN reviews[c]
       /\ reviews[c][a.review].decision = "approve_incident"
    \/ /\ a.kind = "delegation"
       /\ delegation[a.delegation].state # "absent"
       /\ Rule[a.delegation].deterministic
       /\ c \in Rule[a.delegation].scope

\* A stored bundle for the candidate, at a proof level, under earned authority,
\* and nothing in the candidate's lineage missing or of another organization.
Frozen(c, b) ==
    /\ b \in bundles
    /\ b.candidate = c
    /\ b.level \in ProofLevels
    /\ Earned(c, b.authority)
    /\ \A link \in LinkNames : Links[c][link] = "ok"

\* However promote requests interleave, die and are retried, a candidate
\* enters the proof loop only with sound lineage, under an authority that was
\* really given and with its bundle already stored: every verification record and
\* every recorded lineage points at such a bundle, no incident exists without
\* the record, and no caller is handed a reference to anything else.
PromotionAuthorised ==
    \A c \in Candidates :
        /\ vr[c] # None => Frozen(c, vr[c].bundle)
        /\ incident[c] # None => vr[c] # None
        /\ incident[c] # None /\ incident[c].lineage # None => Frozen(c, incident[c].lineage)
        /\ \A b \in returned[c] : Frozen(c, b)

\* A review that stands for good: in force without end and not superseded.
Stands(c, j) ==
    /\ reviews[c][j].period = "open"
    /\ reviews[c][j].decision # "supersede"
    /\ j \notin SupersededIds(c)

\* A later disposition prevails (_resolve_authority): a promotion never runs
\* on an approval, or on a delegation, that a standing review recorded before
\* the request began had already overruled.
LaterReviewPrevails ==
    \A r \in Requests :
        LET a == req[r].authority
            c == req[r].candidate
        IN a # None =>
             \A j \in 1..req[r].since :
                (a.kind = "delegation" \/ (a.kind = "review" /\ a.review < j)) => ~Stands(c, j)

\* Candidates some promotion of which ran, from finding no record to recording
\* lineage, beside another one or beside a request about to write back a copy
\* of the record or the incident.  Nothing in the code keeps them apart.
Contended == doubled \cup crossed

\* promote is idempotent unless its writes overlap with others: all successful
\* promotions of a candidate return one and the same evidence bundle, retries
\* after a failed request included.
PromoteIdempotent ==
    \A c \in Candidates \ Contended : \A b1, b2 \in returned[c] : b1 = b2

LineageOf(c) == IF incident[c] = None THEN None ELSE incident[c].lineage

\* What the caller was handed stays true unless writes overlapped, whatever
\* labels, replays, fixes and further incidents follow: the record keeps the
\* bundle, its bridge key and an incident, and the bridge's incident the lineage.
PromotionDurable ==
    \A c \in Candidates \ Contended : \A b \in returned[c] :
        /\ vr[c] # None
        /\ vr[c].bundle = b /\ vr[c].bridgeKey /\ vr[c].incident # "none"
        /\ LineageOf(c) = b

\* Proof lineage is append-only: once recorded on the incident, no step
\* removes or replaces it.
ProofLineageAppendOnly ==
    [][\A c \in Candidates : LineageOf(c) # None => LineageOf(c)' = LineageOf(c)]_vars

\* Without an overlap the lineage is append-only, stale copies of the incident
\* that the proof loop still writes back included.
LineageStays ==
    [][\A c \in Candidates \ Contended : LineageOf(c) # None => LineageOf(c)' = LineageOf(c)]_vars

\* A promotion is never left half-way but by a request that died or by an older
\* copy written over it: a record without lineage has a promote at work on it.
NeverLeftBehind ==
    \A c \in Candidates :
        vr[c] # None /\ LineageOf(c) = None
            => Writers(c) # {} \/ c \in crossed \/ aborts > 0

\* A promotion that has begun to write ends with its lineage on the incident,
\* concurrent promotes included, unless a request writes an older copy over it.
PromotionCompletes ==
    \A c \in Candidates : (vr[c] # None) ~> (LineageOf(c) # None \/ c \in crossed)

\* What promotion promises: each candidate is promoted at most once, under
\* an authority already granted, and stays promoted with the same bundle;
\* one disturbed by an overlap may lose or change its bundle, never without
\* an authority.
Abstract == INSTANCE Promotion WITH
    granted <- UNION {
        {<<c, ReviewAuthority(i)>> : i \in {j \in DOMAIN reviews[c] :
                                               reviews[c][j].decision = "approve_incident"}}
          \cup {<<c, DelegationAuthority(d)>> : d \in {e \in Delegations : Earned(c, DelegationAuthority(e))}}
        : c \in Candidates},
    promoted <- [c \in Candidates |-> LineageOf(c)],
    disturbed <- Contended

\* The bridge implements that promise.
ImplementsPromotion == Abstract!Spec
================================================================================

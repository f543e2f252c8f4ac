--------------------------- MODULE ProofBridgeProofs ---------------------------
(***************************************************************************)
(* Proofs about ProofBridge, for any number of candidates, requests,       *)
(* reviewers, workers and delegations, any lineage and any bound.          *)
(*                                                                         *)
(* What every request, however it interleaves, may rely on is in IInv,     *)
(* PrevailInv and LeftInv: its authority was really given and not          *)
(* overruled, its bundle is stored, the copies it holds say nothing else.  *)
(* What holds of a candidate whose writes did not overlap is in SerialInv: *)
(* lineage, record, answers and the copies still to be written back agree; *)
(* and from it follows that the bridge implements Promotion.               *)
(***************************************************************************)
EXTENDS ProofBridge, SequenceTheorems, TLAPS

(***************************************************************************)
(* The inductive invariant: what a request already knows at each step.     *)
(***************************************************************************)
Authorised == {"existing", "lineage", "freeze", "vr", "bridge_key",
               "incident", "link", "record_lineage"}
Sealed == {"vr", "bridge_key", "incident", "link", "record_lineage"}
Recorded == {"bridge_key", "incident", "link", "record_lineage"}
Reading == {"label", "relink"}
Writing == {"write", "write_fix"}

Proofworthy(c) == InitialLevel[c] \in ProofLevels

\* The evidence level moves, but never across the line between E2 and E3, not
\* even when a review or a verified fix writes back a stale copy of the candidate.
LevelInv ==
    /\ \A c \in Candidates : level[c] \in ProofLevels <=> Proofworthy(c)
    /\ \A v \in Reviewers : pending[v] # None =>
          (pending[v].level \in ProofLevels <=> Proofworthy(pending[v].candidate))
    /\ \A w \in Workers : work[w].step = "level" =>
          (work[w].level \in ProofLevels <=> Proofworthy(work[w].candidate))

SoundLineage(c) == \A link \in LinkNames : Links[c][link] = "ok"

RequestInv(r) ==
    LET q == req[r]
    IN /\ q.step \in {"review", "delegation"} => (q.seen \in ProofLevels <=> Proofworthy(q.candidate))
       /\ q.step \in Authorised => /\ Proofworthy(q.candidate) /\ SoundLineage(q.candidate)
                                   /\ q.authority \in Authorities
                                   /\ Earned(q.candidate, q.authority)
       /\ q.step \in Sealed => q.frozen \in Bundles /\ Frozen(q.candidate, q.frozen)
       /\ q.step \in Recorded => vr[q.candidate] # None

\* A copy to be written back names a stored bundle under earned authority.
WorkInv(w) ==
    LET q == work[w]
    IN /\ q.step \in Reading => q.record \in Records /\ Frozen(q.candidate, q.record.bundle)
       /\ q.step \in Writing => /\ q.row \in Incidents /\ vr[q.candidate] # None
                                /\ q.row.lineage # None => Frozen(q.candidate, q.row.lineage)

IInv ==
    /\ TypeOK
    /\ LevelInv
    /\ \A r \in Requests : RequestInv(r)
    /\ \A w \in Workers : WorkInv(w)
    /\ PromotionAuthorised

--------------------------------------------------------------------------------
(***************************************************************************)
(* Constructors                                                            *)
(***************************************************************************)

\* An idle slot is a well formed request.
LEMMA IdleTyped == Idle \in Request /\ Idle.step = "idle"
<1>1. (CHOOSE c \in Candidates : TRUE) \in Candidates
  BY ConstantsAssumption
<1> QED
  BY <1>1 DEF Idle, Request, Steps, Levels, IncidentRefs

\* So is a free worker, and one that begins with one of its steps.
LEMMA WorkTyped ==
    /\ Free \in Work /\ Free.step = "free"
    /\ \A s \in WorkSteps, c \in Candidates :
          Doing(s, c) \in Work /\ Doing(s, c).step = s /\ Doing(s, c).candidate = c
<1>1. (CHOOSE c \in Candidates : TRUE) \in Candidates
  BY ConstantsAssumption
<1>2. Free \in Work /\ Free.step = "free"
  BY <1>1 DEF Free, Work, WorkSteps, Levels, LifecycleStates
<1> QED
  BY <1>2 DEF Doing, Work

\* None is no row and no authority.
LEMMA NoneDistinct ==
    /\ None \notin Authorities /\ None \notin Bundles
    /\ None \notin Records /\ None \notin Incidents /\ None \notin PendingReview
BY DEF None, Authorities, Bundles, Records, Incidents, PendingReview

\* The fields of a record of the store, and that it is one.
LEMMA RecordTyped ==
    ASSUME NEW b \in Bundles, NEW k \in BOOLEAN, NEW i \in IncidentRefs
    PROVE  /\ Record(b, k, i) \in Records /\ Record(b, k, i).bundle = b
           /\ Record(b, k, i).bridgeKey = k /\ Record(b, k, i).incident = i
BY DEF Record, Records

\* The lineage of an incident row, and that it is one.
LEMMA IncidentTyped ==
    ASSUME NEW l \in Bundles \cup {None}
    PROVE  Incident(l) \in Incidents /\ Incident(l).lineage = l
BY DEF Incident, Incidents

\* So is that of every stored row.
LEMMA IncidentFields == \A row \in Incidents : row.lineage \in Bundles \cup {None}
BY DEF Incidents

\* The fields of a bundle, and that it is one.
LEMMA BundleTyped ==
    ASSUME NEW c \in Candidates, NEW a \in Authorities, NEW l \in Levels
    PROVE  /\ Bundle(c, a, l) \in Bundles
           /\ Bundle(c, a, l).candidate = c
           /\ Bundle(c, a, l).authority = a
           /\ Bundle(c, a, l).level = l
BY DEF Bundle, Bundles

\* Recalculation yields a level, and never crosses the line between E2 and E3.
LEMMA RecalculateKeepsLine ==
    ASSUME NEW l \in Levels, NEW p \in BOOLEAN, NEW m \in BOOLEAN
    PROVE  /\ RecalculateAfterVerification(l, p, m) \in Levels
           /\ RecalculateAfterVerification(l, p, m) \in ProofLevels <=> l \in ProofLevels
BY DEF RecalculateAfterVerification, Levels, ProofLevels

\* Noting an overlap only adds the candidate.
LEMMA NoteTyped ==
    ASSUME NEW noted \in SUBSET Candidates, NEW c \in Candidates, NEW condition
    PROVE  NoteIf(noted, c, condition) \subseteq Candidates /\ noted \subseteq NoteIf(noted, c, condition)
BY DEF NoteIf

--------------------------------------------------------------------------------
(***************************************************************************)
(* What each actor's steps leave alone                                     *)
(***************************************************************************)

\* What reviewers, administrators and the clock do.
Others ==
    \/ \E v \in Reviewers : \/ SaveLifecycle(v)
                            \/ \E c \in Candidates, input \in ReviewInputs :
                                  \E s \in 0..Len(reviews[c]) : RecordReview(v, c, input, s)
    \/ \E d \in Delegations : \/ RevokeDelegation(d) \/ DelegationPeriodElapses(d)
                              \/ \E p \in GrantPeriods : CreateDelegation(d, p)
    \/ \E c \in Candidates : \E i \in DOMAIN reviews[c] : ReviewPeriodElapses(c, i)

\* A step is one of a promote request, of a worker, or of somebody else.
LEMMA NextSplit ==
    Next <=> \/ \E r \in Requests : PromoteStep(r) \/ Abort(r) \/ \E c \in Candidates : Start(r, c)
             \/ \E w \in Workers : WorkStep(w)
             \/ Others
BY DEF Next, Others

\* Reviewers, administrators and the clock touch no row of a promotion and no
\* other request.
LEMMA OthersLeave == Others => UNCHANGED <<bundles, vr, incident, proved, req, work, history>>
<1>1. (\E v \in Reviewers : \/ SaveLifecycle(v)
                            \/ \E c \in Candidates, input \in ReviewInputs :
                                  \E s \in 0..Len(reviews[c]) : RecordReview(v, c, input, s))
        => UNCHANGED <<bundles, vr, incident, proved, req, work, history>>
  BY DEF RecordReview, SaveLifecycle
<1>2. (\E d \in Delegations : \/ RevokeDelegation(d) \/ DelegationPeriodElapses(d)
                              \/ \E p \in GrantPeriods : CreateDelegation(d, p))
        => UNCHANGED <<bundles, vr, incident, proved, req, work, history>>
  BY DEF CreateDelegation, RevokeDelegation, DelegationPeriodElapses, WriteDelegation
<1>3. (\E c \in Candidates : \E i \in DOMAIN reviews[c] : ReviewPeriodElapses(c, i))
        => UNCHANGED <<bundles, vr, incident, proved, req, work, history>>
  BY DEF ReviewPeriodElapses
<1> QED
  BY <1>1, <1>2, <1>3 DEF Others

\* A promote request that begins or dies changes nothing but its own slot.
LEMMA BeginOrEndLeaves ==
    ASSUME NEW r \in Requests, Abort(r) \/ \E c \in Candidates : Start(r, c)
    PROVE  UNCHANGED <<rows, pending, work, returned, overlaps>>
BY DEF Abort, Start, history, overlaps

\* A promote request leaves candidate, reviews, proofs and other requests alone.
LEMMA PromoteLeaves ==
    ASSUME NEW r \in Requests, PromoteStep(r)
    PROVE  /\ UNCHANGED <<level, lifecycle, reviews, delegation, proved, pending, work, aborts>>
           /\ \E q : req' = [req EXCEPT ![r] = q]
<1>1. UNCHANGED <<level, lifecycle, reviews, delegation, proved, pending, work, aborts>>
  BY DEF PromoteStep, CheckPrerequisites, ResolveReview, ResolveDelegation, FindExisting, LinkExisting,
     FreezeBundle, CreateRecord, SetBridgeKey, CreateIncident, LinkIncident, RecordLineage,
     WriteRecord, WriteIncident, rows, history
<1>2. \E q : req' = [req EXCEPT ![r] = q]
  BY DEF PromoteStep, CheckPrerequisites, ResolveReview, ResolveDelegation, FindExisting,
     LinkExisting, FreezeBundle, CreateRecord, SetBridgeKey, CreateIncident, LinkIncident,
     RecordLineage, Goto, Return
<1> QED
  BY <1>1, <1>2

\* A label, proof-loop or incident request leaves what authorises a promotion,
\* the promote requests and every other worker alone.
LEMMA WorkLeaves ==
    ASSUME NEW w \in Workers, WorkStep(w)
    PROVE  /\ UNCHANGED <<reviews, delegation, bundles, req, pending, aborts, returned, doubled>>
           /\ UNCHANGED work \/ \E q : work' = [work EXCEPT ![w] = q]
<1>1. UNCHANGED <<reviews, delegation, bundles, req, pending, aborts, returned, doubled>>
  BY DEF WorkStep, ReadIncident, ReadRecord, SaveLabel, Relink, SaveProof, FetchIncident, WriteBack,
     ReadCandidate, RaiseLevel, Abandon, WriteRecord, WriteIncident, rows, history, overlaps
<1>2. UNCHANGED work \/ \E q : work' = [work EXCEPT ![w] = q]
  BY DEF WorkStep, ReadIncident, ReadRecord, SaveLabel, Relink, SaveProof, FetchIncident, WriteBack,
     ReadCandidate, RaiseLevel, Abandon, Drop, Hold
<1> QED
  BY <1>1, <1>2

--------------------------------------------------------------------------------
(***************************************************************************)
(* Type correctness                                                        *)
(***************************************************************************)

\* Whatever step a promote request takes, its locals and the rows stay well formed.
LEMMA PromoteStepTyped ==
    ASSUME IInv, NEW r \in Requests, PromoteStep(r)
    PROVE  TypeOK'
<1> DEFINE c == req[r].candidate
<1>1. TypeOK /\ RequestInv(r)
  BY DEF IInv
<1>2. req \in [Requests -> Request] /\ req[r] \in Request /\ c \in Candidates
  BY <1>1 DEF TypeOK, Request
<1>3. CASE CheckPrerequisites(r)
  <2>1. level[c] \in Levels
    BY <1>1, <1>2 DEF TypeOK
  <2>2. req' \in [Requests -> Request]
    BY <1>2, <1>3, <2>1 DEF CheckPrerequisites, Request, Steps
  <2> QED
    BY <1>1, <1>3, <2>2 DEF CheckPrerequisites, rows, history, overlaps, TypeOK
<1>4. CASE ResolveReview(r)
  <2>1. \A i \in ApprovingReview(c) : ReviewAuthority(i) \in Authorities
    BY <1>1, <1>2, LenProperties
    DEF TypeOK, ApprovingReview, LatestActive, ActiveReviews, ReviewAuthority, Authorities
  <2>2. req' \in [Requests -> Request]
    <3>1. CASE \E i \in ApprovingReview(c) :
                  req' = [req EXCEPT ![r].step = "existing", ![r].authority = ReviewAuthority(i)]
      <4>1. PICK a \in Authorities :
                  req' = [req EXCEPT ![r].step = "existing", ![r].authority = a]
        BY <2>1, <3>1
      <4> QED
        BY <1>2, <4>1 DEF Request, Steps
    <3>2. CASE req' = [req EXCEPT ![r] = Idle]
      BY <1>2, <3>2, IdleTyped
    <3>3. CASE req' = [req EXCEPT ![r].step = "delegation"]
      BY <1>2, <3>3 DEF Request, Steps
    <3> QED
      BY <1>4, <3>1, <3>2, <3>3 DEF ResolveReview, Return, Goto
  <2> QED
    BY <1>1, <1>4, <2>2 DEF ResolveReview, rows, history, overlaps, TypeOK
<1>5. CASE ResolveDelegation(r)
  <2>1. \A d \in Matching(c, req[r].seen) : DelegationAuthority(d) \in Authorities
    BY DEF Matching, DelegationAuthority, Authorities
  <2>2. req' \in [Requests -> Request]
    <3>1. CASE \E d \in Matching(c, req[r].seen) :
                  req' = [req EXCEPT ![r].step = "existing", ![r].authority = DelegationAuthority(d)]
      <4>1. PICK a \in Authorities :
                  req' = [req EXCEPT ![r].step = "existing", ![r].authority = a]
        BY <2>1, <3>1
      <4> QED
        BY <1>2, <4>1 DEF Request, Steps
    <3>2. CASE req' = [req EXCEPT ![r] = Idle]
      BY <1>2, <3>2, IdleTyped
    <3> QED
      BY <1>5, <3>1, <3>2 DEF ResolveDelegation, Return
  <2> QED
    BY <1>1, <1>5, <2>2 DEF ResolveDelegation, rows, history, overlaps, TypeOK
<1>6. CASE FindExisting(r)
  <2>1. HasBridgeKey(c) => vr[c].incident \in IncidentRefs
    BY <1>1, <1>2 DEF TypeOK, HasBridgeKey, Records
  <2>2. req' \in [Requests -> Request]
    <3>1. CASE HasBridgeKey(c)
      <4>1. PICK k \in IncidentRefs : req' = [req EXCEPT ![r].step = "lineage", ![r].linked = k]
        BY <1>6, <2>1, <3>1 DEF FindExisting
      <4> QED
        BY <1>2, <4>1 DEF Request, Steps
    <3>2. CASE ~HasBridgeKey(c)
      BY <1>2, <1>6, <3>2 DEF FindExisting, Goto, Request, Steps
    <3> QED
      BY <3>1, <3>2
  <2>3. doubled' \subseteq Candidates /\ crossed' \subseteq Candidates
    BY <1>1, <1>2, <1>6, NoteTyped DEF FindExisting, overlaps, TypeOK
  <2>4. UNCHANGED <<rows, pending, work, aborts, returned>>
    BY <1>6 DEF FindExisting
  <2> QED
    BY <1>1, <2>2, <2>3, <2>4 DEF rows, TypeOK
<1>7. CASE LinkExisting(r)
  <2>1. incident[c] # None /\ incident[c].lineage # None => incident[c].lineage \in Bundles
    BY <1>1, <1>2 DEF TypeOK, Incidents
  <2>2. returned' \in [Candidates -> SUBSET Bundles]
    BY <1>1, <1>2, <1>7, <2>1 DEF TypeOK, LinkExisting
  <2>3. req' \in [Requests -> Request]
    BY <1>2, <1>7, IdleTyped DEF LinkExisting, Return
  <2> QED
    BY <1>1, <1>7, <2>2, <2>3 DEF LinkExisting, rows, history, overlaps, TypeOK
<1>8. CASE FreezeBundle(r)
  <2>1. PICK b \in Bundles : /\ bundles' = bundles \cup {b}
                             /\ req' = [req EXCEPT ![r].step = "vr", ![r].frozen = b]
    <3>1. req[r].authority \in Authorities
      BY <1>1, <1>8 DEF FreezeBundle, At, RequestInv, Authorised
    <3> DEFINE replayed == HasBridgeKey(c) /\ proved[c] # "nothing"
               verified == HasBridgeKey(c) /\ proved[c] = "fix"
    <3>2. RecalculateAfterVerification(level[c], replayed, verified) \in Levels
      BY <1>1, <1>2, RecalculateKeepsLine DEF TypeOK
    <3> DEFINE l == RecalculateAfterVerification(level[c], replayed, verified)
               b == Bundle(c, req[r].authority, l)
    <3>3. bundles' = bundles \cup {b} /\ req' = [req EXCEPT ![r].step = "vr", ![r].frozen = b]
      BY <1>8 DEF FreezeBundle
    <3>4. l \in Levels
      BY <3>2
    <3> HIDE DEF l
    <3>5. b \in Bundles
      BY <1>2, <3>1, <3>4, BundleTyped
    <3> QED
      BY <3>3, <3>5
  <2>2. req' \in [Requests -> Request]
    BY <1>2, <2>1 DEF Request, Steps
  <2> QED
    BY <1>1, <1>8, <2>1, <2>2 DEF FreezeBundle, history, overlaps, TypeOK
<1>9. CASE CreateRecord(r) \/ SetBridgeKey(r) \/ LinkIncident(r)
  <2>1. req[r].frozen \in Bundles
    BY <1>1, <1>9 DEF CreateRecord, SetBridgeKey, LinkIncident, At, RequestInv, Sealed
  <2>2. \A k \in BOOLEAN, i \in IncidentRefs : Record(req[r].frozen, k, i) \in Records
    BY <2>1, RecordTyped
  <2>3. vr' \in [Candidates -> Records \cup {None}]
    BY <1>1, <1>2, <1>9, <2>2 DEF TypeOK, CreateRecord, SetBridgeKey, LinkIncident, WriteRecord, IncidentRefs
  <2>4. PICK s \in Steps : req' = [req EXCEPT ![r].step = s]
    BY <1>9 DEF CreateRecord, SetBridgeKey, LinkIncident, Goto, Steps
  <2>5. req' \in [Requests -> Request]
    BY <1>2, <2>4 DEF Request
  <2> QED
    BY <1>1, <1>9, <2>3, <2>5 DEF CreateRecord, SetBridgeKey, LinkIncident, WriteRecord, history, overlaps, TypeOK
<1>10. CASE CreateIncident(r)
  <2>1. incident' \in [Candidates -> Incidents \cup {None}]
    BY <1>1, <1>2, <1>10, IncidentTyped DEF TypeOK, CreateIncident, WriteIncident
  <2>2. req' \in [Requests -> Request]
    BY <1>2, <1>10 DEF CreateIncident, Goto, Request, Steps
  <2> QED
    BY <1>1, <1>10, <2>1, <2>2 DEF CreateIncident, WriteIncident, overlaps, TypeOK
<1>11. CASE RecordLineage(r)
  <2>1. req[r].frozen \in Bundles
    BY <1>1, <1>11 DEF RecordLineage, At, RequestInv, Sealed
  <2>2. incident' \in [Candidates -> Incidents \cup {None}]
    BY <1>1, <1>2, <1>11, <2>1, IncidentTyped DEF TypeOK, RecordLineage, WriteIncident
  <2>3. returned' \in [Candidates -> SUBSET Bundles]
    BY <1>1, <1>2, <1>11, <2>1 DEF TypeOK, RecordLineage
  <2>4. req' \in [Requests -> Request]
    BY <1>2, <1>11, IdleTyped DEF RecordLineage, Return
  <2> QED
    BY <1>1, <1>11, <2>2, <2>3, <2>4 DEF RecordLineage, WriteIncident, overlaps, TypeOK
<1> QED
  BY <1>3, <1>4, <1>5, <1>6, <1>7, <1>8, <1>9, <1>10, <1>11 DEF PromoteStep

\* What a label, proof-loop or incident request holds after its step is well formed.
LEMMA WorkHeld ==
    ASSUME IInv, NEW w \in Workers, WorkStep(w)
    PROVE  work' \in [Workers -> Work]
<1>1. TypeOK /\ work \in [Workers -> Work] /\ work[w] \in Work /\ work[w].candidate \in Candidates
  BY DEF IInv, TypeOK, Work
<1>2. ASSUME NEW q \in Work, Hold(w, q)
      PROVE  work' \in [Workers -> Work]
  BY <1>1, <1>2 DEF Hold
<1>3. Drop(w) => work' \in [Workers -> Work]
  BY <1>2, WorkTyped DEF Drop
<1>4. ASSUME NEW c \in Candidates, ReadIncident(w, c)
      PROVE  work' \in [Workers -> Work]
  <2>1. incident[c] \in Incidents
    BY <1>1, <1>4 DEF TypeOK, ReadIncident
  <2>2. Doing("write", c) \in Work
    BY WorkTyped DEF WorkSteps, Holding
  <2>3. [Doing("write", c) EXCEPT !.row = incident[c]] \in Work
    BY <2>1, <2>2 DEF Work
  <2> QED
    BY <1>2, <1>4, <2>3 DEF ReadIncident
<1>5. ASSUME NEW c \in Candidates, NEW purpose \in Purposes, ReadRecord(w, c, purpose)
      PROVE  work' \in [Workers -> Work]
  <2>1. vr[c] \in Records /\ vr[c].bridgeKey \in BOOLEAN
    BY <1>1, <1>5 DEF TypeOK, ReadRecord, Records
  <2>2. Doing(purpose, c) \in Work
    BY WorkTyped DEF WorkSteps
  <2>3. [Doing(purpose, c) EXCEPT !.record = vr[c]] \in Work
    BY <2>1, <2>2 DEF Work
  <2>4. [Doing(purpose, c) EXCEPT !.keyed = vr[c].bridgeKey,
                                  !.linked = vr[c].incident = "bridge"] \in Work
    <3>1. (vr[c].incident = "bridge") \in BOOLEAN
      OBVIOUS
    <3> QED
      BY <2>1, <2>2, <3>1 DEF Work
  <2>5. \/ Hold(w, [Doing(purpose, c) EXCEPT !.record = vr[c]])
        \/ Hold(w, [Doing(purpose, c) EXCEPT !.keyed = vr[c].bridgeKey,
                                             !.linked = vr[c].incident = "bridge"])
    BY <1>5 DEF ReadRecord
  <2> QED
    BY <1>2, <2>3, <2>4, <2>5
<1>6. CASE SaveProof(w)
  <2>1. [work[w] EXCEPT !.step = "fetch_fix"] \in Work
    BY <1>1 DEF Work, WorkSteps
  <2>2. Doing("fetch", work[w].candidate) \in Work
    BY <1>1, WorkTyped DEF WorkSteps
  <2>3. \/ Hold(w, Free) \/ Hold(w, [work[w] EXCEPT !.step = "fetch_fix"])
        \/ Hold(w, Doing("fetch", work[w].candidate))
    BY <1>6 DEF SaveProof
  <2> QED
    BY <1>2, <2>1, <2>2, <2>3, WorkTyped
<1>7. CASE FetchIncident(w)
  <2>1. CASE incident[work[w].candidate] = None
    BY <1>3, <1>7, <2>1 DEF FetchIncident
  <2>2. CASE incident[work[w].candidate] # None
    <3>1. incident[work[w].candidate] \in Incidents
      BY <1>1, <2>2 DEF TypeOK
    <3>2. PICK s \in {"write", "write_fix"} :
             Hold(w, [work[w] EXCEPT !.step = s, !.row = incident[work[w].candidate]])
      BY <1>7, <2>2 DEF FetchIncident
    <3>3. [work[w] EXCEPT !.step = s, !.row = incident[work[w].candidate]] \in Work
      BY <1>1, <3>1, <3>2 DEF Work, WorkSteps, Holding
    <3> QED
      BY <1>2, <3>2, <3>3
  <2> QED
    BY <2>1, <2>2
<1>8. CASE WriteBack(w)
  <2>1. Doing("raise", work[w].candidate) \in Work
    BY <1>1, WorkTyped DEF WorkSteps
  <2>2. UNCHANGED work \/ Hold(w, Doing("raise", work[w].candidate)) \/ Drop(w)
    BY <1>8 DEF WriteBack
  <2> QED
    BY <1>1, <1>2, <1>3, <2>1, <2>2
<1>9. CASE ReadCandidate(w)
  <2>1. PICK c \in Candidates : c = work[w].candidate
    BY <1>1
  <2>2. level[c] \in Levels /\ lifecycle[c] \in LifecycleStates
    BY <1>1 DEF TypeOK
  <2>3. [work[w] EXCEPT !.step = "level", !.level = level[c], !.lifecycle = lifecycle[c]] \in Work
    BY <1>1, <2>2 DEF Work, WorkSteps
  <2> QED
    BY <1>2, <1>9, <2>1, <2>3 DEF ReadCandidate
<1>10. CASE SaveLabel(w) \/ Relink(w) \/ RaiseLevel(w) \/ Abandon(w)
  BY <1>3, <1>10 DEF SaveLabel, Relink, RaiseLevel, Abandon
<1> QED
  BY <1>4, <1>5, <1>6, <1>7, <1>8, <1>9, <1>10 DEF WorkStep

\* What a worker holds after its step: what it held, nothing that it will write
\* back, or a copy it has just read, noted if a promote is writing meanwhile.
LEMMA WorkMoves ==
    ASSUME IInv, NEW w \in Workers, WorkStep(w)
    PROVE  \/ UNCHANGED work
           \/ work'[w].step \notin Reading \cup Writing \cup {"level"}
           \/ \E c \in Candidates :
                 /\ work'[w].step \in Reading /\ work'[w].candidate = c
                 /\ vr[c] # None /\ work'[w].record = vr[c]
                 /\ UNCHANGED rows /\ crossed' = NoteIf(crossed, c, Writers(c) # {})
           \/ \E c \in Candidates :
                 /\ work'[w].step \in Writing /\ work'[w].candidate = c
                 /\ incident[c] # None /\ work'[w].row = incident[c]
                 /\ UNCHANGED rows /\ crossed' = NoteIf(crossed, c, Writers(c) # {})
           \/ \E c \in Candidates :
                 /\ work'[w].step = "level" /\ work'[w].candidate = c
                 /\ work'[w].level = level[c] /\ UNCHANGED rows
<1> DEFINE Copying == Reading \cup Writing \cup {"level"}
<1>1. work \in [Workers -> Work] /\ work[w] \in Work /\ work[w].candidate \in Candidates
  BY DEF IInv, TypeOK, Work
<1>2. ASSUME NEW q, Hold(w, q)
      PROVE  work'[w] = q
  BY <1>1, <1>2 DEF Hold
<1>3. Drop(w) => work'[w].step \notin Copying
  BY <1>1, WorkTyped DEF Drop, Hold, Reading, Writing
<1>4. ASSUME NEW c \in Candidates, ReadIncident(w, c)
      PROVE  /\ work'[w].step \in Writing /\ work'[w].candidate = c
             /\ incident[c] # None /\ work'[w].row = incident[c]
             /\ UNCHANGED rows /\ crossed' = NoteIf(crossed, c, Writers(c) # {})
  <2>1. Doing("write", c) \in Work /\ Doing("write", c).step = "write" /\ Doing("write", c).candidate = c
    BY WorkTyped DEF WorkSteps, Holding
  <2>2. work'[w] = [Doing("write", c) EXCEPT !.row = incident[c]]
    BY <1>2, <1>4 DEF ReadIncident
  <2>3. work'[w].step = "write" /\ work'[w].candidate = c /\ work'[w].row = incident[c]
    BY <2>1, <2>2 DEF Work
  <2> QED
    BY <1>4, <2>3 DEF ReadIncident, Writing
<1>5. ASSUME NEW c \in Candidates, NEW purpose \in Purposes, ReadRecord(w, c, purpose)
      PROVE  \/ work'[w].step \notin Copying
             \/ /\ work'[w].step \in Reading /\ work'[w].candidate = c
                /\ vr[c] # None /\ work'[w].record = vr[c]
                /\ UNCHANGED rows /\ crossed' = NoteIf(crossed, c, Writers(c) # {})
  <2>1. /\ Doing(purpose, c) \in Work /\ Doing(purpose, c).step = purpose
        /\ Doing(purpose, c).candidate = c
    BY WorkTyped DEF WorkSteps
  <2>2. CASE purpose \in Holding
    <3>1. work'[w] = [Doing(purpose, c) EXCEPT !.record = vr[c]]
      BY <1>2, <1>5, <2>2 DEF ReadRecord
    <3>2. work'[w].step = purpose /\ work'[w].candidate = c /\ work'[w].record = vr[c]
      BY <2>1, <3>1 DEF Work
    <3>3. purpose \in Reading
      BY <2>2 DEF Holding, Purposes, Reading
    <3>4. crossed' = NoteIf(crossed, c, Writers(c) # {})
      BY <1>5, <2>2 DEF ReadRecord, NoteIf
    <3> QED
      BY <1>5, <3>2, <3>3, <3>4 DEF ReadRecord
  <2>3. CASE purpose \notin Holding
    <3>1. work'[w] = [Doing(purpose, c) EXCEPT !.keyed = vr[c].bridgeKey,
                                              !.linked = vr[c].incident = "bridge"]
      BY <1>2, <1>5, <2>3 DEF ReadRecord
    <3>2. work'[w].step = purpose
      BY <2>1, <3>1 DEF Work
    <3> QED
      BY <2>3, <3>2 DEF Holding, Purposes, Reading, Writing
  <2> QED
    BY <2>2, <2>3
<1>6. CASE SaveProof(w)
  <2>1. \/ work'[w] = Free \/ work'[w] = [work[w] EXCEPT !.step = "fetch_fix"]
        \/ work'[w] = Doing("fetch", work[w].candidate)
    BY <1>2, <1>6 DEF SaveProof
  <2>2. [work[w] EXCEPT !.step = "fetch_fix"].step = "fetch_fix"
    BY <1>1 DEF Work
  <2>3. Doing("fetch", work[w].candidate).step = "fetch"
    BY <1>1, WorkTyped DEF WorkSteps
  <2>4. work'[w].step \in {"free", "fetch_fix", "fetch"}
    BY <2>1, <2>2, <2>3, WorkTyped
  <2> QED
    BY <2>4 DEF Reading, Writing
<1>7. CASE FetchIncident(w)
  <2>1. PICK c \in Candidates : c = work[w].candidate
    BY <1>1
  <2>2. CASE incident[c] = None
    BY <1>3, <1>7, <2>1, <2>2 DEF FetchIncident
  <2>3. CASE incident[c] # None
    <3>1. PICK s \in {"write", "write_fix"} : work'[w] = [work[w] EXCEPT !.step = s, !.row = incident[c]]
      BY <1>2, <1>7, <2>1, <2>3 DEF FetchIncident
    <3>2. work'[w].step \in Writing /\ work'[w].candidate = c /\ work'[w].row = incident[c]
      BY <1>1, <2>1, <3>1 DEF Work, Writing
    <3> QED
      BY <1>7, <2>1, <2>3, <3>2 DEF FetchIncident
  <2> QED
    BY <2>2, <2>3
<1>8. CASE WriteBack(w)
  <2>1. UNCHANGED work \/ work'[w] = Doing("raise", work[w].candidate) \/ Drop(w)
    BY <1>2, <1>8 DEF WriteBack
  <2>2. Doing("raise", work[w].candidate).step = "raise"
    BY <1>1, WorkTyped DEF WorkSteps
  <2>3. work'[w] = Doing("raise", work[w].candidate) => work'[w].step \notin Copying
    BY <2>2 DEF Reading, Writing
  <2> QED
    BY <1>3, <2>1, <2>3
<1>9. CASE ReadCandidate(w)
  <2>1. PICK c \in Candidates : c = work[w].candidate
    BY <1>1
  <2>2. work'[w] = [work[w] EXCEPT !.step = "level", !.level = level[c], !.lifecycle = lifecycle[c]]
    BY <1>2, <1>9, <2>1 DEF ReadCandidate
  <2>3. work'[w].step = "level" /\ work'[w].candidate = c /\ work'[w].level = level[c]
    BY <1>1, <2>1, <2>2 DEF Work
  <2> QED
    BY <1>9, <2>3 DEF ReadCandidate
<1>10. CASE SaveLabel(w) \/ Relink(w) \/ RaiseLevel(w) \/ Abandon(w)
  BY <1>3, <1>10 DEF SaveLabel, Relink, RaiseLevel, Abandon
<1> QED
  BY <1>4, <1>5, <1>6, <1>7, <1>8, <1>9, <1>10 DEF WorkStep

\* A worker writes the record or the incident only by writing back its copy, in
\* which promote-to-incident changes the incident the record names.
LEMMA WorkRows ==
    ASSUME IInv, NEW w \in Workers, WorkStep(w), NEW c \in Candidates, c = work[w].candidate
    PROVE  \/ UNCHANGED <<vr, incident>>
           \/ /\ SaveLabel(w) \/ Relink(w)
              /\ work[w].step \in Reading /\ UNCHANGED <<incident, crossed>>
              /\ \E row \in Records :
                    /\ vr' = [vr EXCEPT ![c] = row]
                    /\ row.bundle = work[w].record.bundle
                    /\ row.bridgeKey = work[w].record.bridgeKey
                    /\ work[w].record.incident # "none" => row.incident # "none"
           \/ /\ WriteBack(w)
              /\ work[w].step \in Writing /\ UNCHANGED <<vr, crossed>>
              /\ incident' = [incident EXCEPT ![c] = work[w].row]
<1>1. TypeOK /\ WorkInv(w)
  BY DEF IInv
<1>2. CASE SaveLabel(w) \/ Relink(w)
  <2>1. work[w].step \in Reading
    BY <1>2 DEF SaveLabel, Relink, Reading
  <2>2. PICK record \in Records : record = work[w].record
    BY <1>1, <2>1 DEF WorkInv
  <2>3. UNCHANGED <<incident, crossed>>
    BY <1>2 DEF SaveLabel, Relink, WriteRecord, history, overlaps
  <2>4. CASE SaveLabel(w)
    <3>1. vr' = [vr EXCEPT ![c] = record]
      BY <2>2, <2>4 DEF SaveLabel, WriteRecord
    <3> QED
      BY <2>1, <2>2, <2>3, <2>4, <3>1
  <2>5. CASE Relink(w)
    <3> DEFINE row == [record EXCEPT !.incident = "other"]
    <3>1. /\ row \in Records /\ row.bundle = record.bundle /\ row.bridgeKey = record.bridgeKey
          /\ row.incident # "none"
      BY DEF Records, IncidentRefs
    <3>2. vr' = [vr EXCEPT ![c] = row]
      BY <2>2, <2>5 DEF Relink, WriteRecord
    <3> HIDE DEF row
    <3> QED
      BY <2>1, <2>2, <2>3, <2>5, <3>1, <3>2
  <2> QED
    BY <1>2, <2>4, <2>5
<1>3. CASE WriteBack(w)
  BY <1>3 DEF WriteBack, WriteIncident, Writing, overlaps
<1>4. CASE ~SaveLabel(w) /\ ~Relink(w) /\ ~WriteBack(w)
  BY <1>4 DEF WorkStep, ReadIncident, ReadRecord, SaveProof, FetchIncident,
     ReadCandidate, RaiseLevel, Abandon, rows
<1> QED
  BY <1>2, <1>3, <1>4

\* A worker leaves the rows well formed.
LEMMA WorkStepTyped ==
    ASSUME IInv, NEW w \in Workers, WorkStep(w)
    PROVE  TypeOK'
<1>1. TypeOK /\ WorkInv(w) /\ work[w] \in Work
  BY DEF IInv, TypeOK
<1>2. PICK c \in Candidates : c = work[w].candidate
  BY <1>1 DEF Work
<1>3. vr' \in [Candidates -> Records \cup {None}] /\ incident' \in [Candidates -> Incidents \cup {None}]
  <2>1. work[w].step \in Writing => work[w].row \in Incidents
    BY <1>1 DEF WorkInv
  <2> QED
    <3>1. vr \in [Candidates -> Records \cup {None}] /\ incident \in [Candidates -> Incidents \cup {None}]
      BY <1>1 DEF TypeOK
    <3>2. UNCHANGED vr \/ \E row \in Records : vr' = [vr EXCEPT ![c] = row]
      BY <1>2, WorkRows
    <3>3. UNCHANGED incident \/ \E row \in Incidents : incident' = [incident EXCEPT ![c] = row]
      BY <1>2, <2>1, WorkRows
    <3> QED
      BY <3>1, <3>2, <3>3
<1>4. proved' \in [Candidates -> Proofs]
  <2>1. CASE SaveProof(w)
    <3>1. PICK p \in Proofs : proved' = [proved EXCEPT ![c] = p]
      BY <1>1, <1>2, <2>1 DEF SaveProof, TypeOK, Proofs
    <3> QED
      BY <1>1, <3>1 DEF TypeOK
  <2>2. CASE ~SaveProof(w)
    BY <1>1, <2>2 DEF TypeOK, WorkStep, ReadIncident, ReadRecord, SaveLabel, Relink, FetchIncident,
       WriteBack, ReadCandidate, RaiseLevel, Abandon, WriteRecord, WriteIncident, rows
  <2> QED
    BY <2>1, <2>2
<1>5. level' \in [Candidates -> Levels] /\ lifecycle' \in [Candidates -> LifecycleStates]
  <2>1. CASE RaiseLevel(w)
    <3>1. work[w].level \in Levels /\ work[w].lifecycle \in LifecycleStates
      BY <1>1 DEF Work
    <3>2. RecalculateAfterVerification(work[w].level, TRUE, TRUE) \in Levels
      BY <3>1, RecalculateKeepsLine
    <3> QED
      BY <1>1, <2>1, <3>1, <3>2 DEF RaiseLevel, TypeOK
  <2>2. CASE ~RaiseLevel(w)
    BY <1>1, <2>2 DEF TypeOK, WorkStep, ReadIncident, ReadRecord, SaveLabel, Relink, SaveProof, FetchIncident,
       WriteBack, ReadCandidate, Abandon, WriteRecord, WriteIncident, rows
  <2> QED
    BY <2>1, <2>2
<1>6. crossed' \subseteq Candidates
  <2>1. \/ UNCHANGED crossed
        \/ \E d \in Candidates, condition \in BOOLEAN : crossed' = NoteIf(crossed, d, condition)
    <3>1. ASSUME NEW d \in Candidates, ReadIncident(w, d) \/ \E p \in Purposes : ReadRecord(w, d, p)
          PROVE  \E condition \in BOOLEAN : crossed' = NoteIf(crossed, d, condition)
      BY <3>1 DEF ReadIncident, ReadRecord
    <3>2. FetchIncident(w) => UNCHANGED crossed \/ \E condition \in BOOLEAN : crossed' = NoteIf(crossed, c, condition)
      BY <1>2 DEF FetchIncident
    <3>3. (SaveLabel(w) \/ Relink(w) \/ SaveProof(w) \/ WriteBack(w) \/ ReadCandidate(w)
             \/ RaiseLevel(w) \/ Abandon(w)) => UNCHANGED crossed
      BY DEF SaveLabel, Relink, SaveProof, WriteBack, ReadCandidate, RaiseLevel, Abandon,
         WriteRecord, WriteIncident, history, overlaps
    <3> QED
      BY <1>2, <3>1, <3>2, <3>3 DEF WorkStep
  <2> QED
    BY <1>1, <2>1, NoteTyped DEF TypeOK
<1> QED
  BY <1>1, <1>3, <1>4, <1>5, <1>6, WorkHeld, WorkLeaves DEF TypeOK

\* Every step of the system leaves the rows and the locals well formed.
LEMMA StepTyped ==
    ASSUME IInv, [Next]_vars
    PROVE  TypeOK'
<1>1. TypeOK
  BY DEF IInv
<1>2. CASE UNCHANGED vars
  BY <1>1, <1>2 DEF TypeOK, vars, rows, history, overlaps
<1>3. ASSUME NEW r \in Requests, PromoteStep(r)
      PROVE  TypeOK'
  BY <1>3, PromoteStepTyped
<1>4. ASSUME NEW r \in Requests, Abort(r)
      PROVE  TypeOK'
  BY <1>1, <1>4, IdleTyped DEF Abort, Return, rows, overlaps, TypeOK
<1>5. ASSUME NEW r \in Requests, NEW c \in Candidates, Start(r, c)
      PROVE  TypeOK'
  <2>1. PICK n \in Nat : req' = [req EXCEPT ![r].step = "prerequisites", ![r].candidate = c,
                                            ![r].since = n]
    BY <1>1, <1>5, LenProperties DEF TypeOK, Start
  <2>2. req' \in [Requests -> Request]
    <3> DEFINE q == [req[r] EXCEPT !.step = "prerequisites", !.candidate = c, !.since = n]
    <3>1. req \in [Requests -> Request]
      BY <1>1 DEF TypeOK
    <3>2. req' = [req EXCEPT ![r] = q]
      BY <2>1, <3>1
    <3>3. q \in Request
      BY <3>1 DEF Request, Steps
    <3> QED
      BY <3>1, <3>2, <3>3
  <2>3. UNCHANGED <<rows, pending, work, history>>
    BY <1>5 DEF Start
  <2> QED
    BY <1>1, <2>2, <2>3 DEF rows, history, overlaps, TypeOK
<1>6. ASSUME NEW v \in Reviewers, NEW c \in Candidates, NEW input \in ReviewInputs,
             NEW s \in 0..Len(reviews[c]), RecordReview(v, c, input, s)
      PROVE  TypeOK'
  <2>1. input.decision \in Decisions /\ input.period \in Periods
    BY ConstantsAssumption
  <2>2. [decision |-> input.decision, supersedes |-> s, period |-> input.period] \in Review
    BY <1>1, <2>1, LenProperties DEF TypeOK, Review
  <2>3. reviews' \in [Candidates -> Seq(Review)]
    BY <1>1, <1>6, <2>2, AppendProperties DEF TypeOK, RecordReview
  <2>4. pending' \in [Reviewers -> PendingReview \cup {None}]
    <3> DEFINE row == [kind |-> "review", candidate |-> c, level |-> level[c],
                       decision |-> input.decision]
    <3>1. CASE input.decision \in DOMAIN LifecycleOf /\ pending' = [pending EXCEPT ![v] = row]
      <4>1. row \in PendingReview
        BY <1>1, <3>1 DEF TypeOK, PendingReview
      <4> HIDE DEF row
      <4> QED
        BY <1>1, <3>1, <4>1 DEF TypeOK
    <3>2. CASE pending' = pending
      BY <1>1, <3>2 DEF TypeOK
    <3> QED
      BY <1>6, <3>1, <3>2 DEF RecordReview
  <2> QED
    BY <1>1, <1>6, <2>3, <2>4 DEF RecordReview, history, overlaps, TypeOK
<1>7. ASSUME NEW v \in Reviewers, SaveLifecycle(v)
      PROVE  TypeOK'
  <2>1. pending[v] \in PendingReview
    BY <1>1, <1>7 DEF TypeOK, SaveLifecycle
  <2>2. /\ pending[v].candidate \in Candidates
        /\ pending[v].level \in Levels
        /\ LifecycleOf[pending[v].decision] \in LifecycleStates
    BY <2>1 DEF PendingReview, LifecycleStates
  <2> QED
    BY <1>1, <1>7, <2>2 DEF SaveLifecycle, history, overlaps, TypeOK
<1>8. ASSUME NEW d \in Delegations, NEW p \in GrantPeriods, CreateDelegation(d, p)
      PROVE  TypeOK'
  BY <1>1, <1>8, ConstantsAssumption DEF CreateDelegation, WriteDelegation, history, overlaps, Delegation, TypeOK
<1>9. ASSUME NEW d \in Delegations, RevokeDelegation(d)
      PROVE  TypeOK'
  BY <1>1, <1>9 DEF RevokeDelegation, WriteDelegation, history, overlaps, Delegation, TypeOK
<1>10. ASSUME NEW d \in Delegations, DelegationPeriodElapses(d)
       PROVE  TypeOK'
  BY <1>1, <1>10 DEF DelegationPeriodElapses, WriteDelegation, history, overlaps, Delegation, Elapsed, Periods, TypeOK
<1>11. ASSUME NEW c \in Candidates, NEW i \in DOMAIN reviews[c], ReviewPeriodElapses(c, i)
       PROVE  TypeOK'
  <2>1. reviews[c] \in Seq(Review) /\ i \in 1..Len(reviews[c]) /\ reviews[c][i] \in Review
    BY <1>1, LenProperties, ElementOfSeq DEF TypeOK
  <2>2. [reviews[c][i] EXCEPT !.period = Elapsed(@)] \in Review
    BY <2>1 DEF Review, Elapsed, Periods
  <2>3. [reviews[c] EXCEPT ![i] = [reviews[c][i] EXCEPT !.period = Elapsed(@)]] \in Seq(Review)
    BY <2>1, <2>2, ExceptSeq
  <2>4. reviews' \in [Candidates -> Seq(Review)]
    BY <1>1, <1>11, <2>3 DEF TypeOK, ReviewPeriodElapses
  <2> QED
    BY <1>1, <1>11, <2>4 DEF ReviewPeriodElapses, history, overlaps, TypeOK
<1>12. ASSUME NEW w \in Workers, WorkStep(w)
       PROVE  TypeOK'
  BY <1>12, WorkStepTyped
<1> QED
  BY <1>2, <1>3, <1>4, <1>5, <1>6, <1>7, <1>8, <1>9, <1>10, <1>11, <1>12 DEF Next

--------------------------------------------------------------------------------
(***************************************************************************)
(* What is earned or stored stays so                                       *)
(***************************************************************************)

\* A review row keeps its decision and what it supersedes, and a period that
\* is not without end never becomes so.
Same(row, old) ==
    /\ row.decision = old.decision /\ row.supersedes = old.supersedes
    /\ row.period = "open" => old.period = "open"

\* A review keeps its place and what it says, a delegation once created never
\* goes away, and no bundle is ever dropped from the store.
LEMMA HistoryGrows ==
    ASSUME IInv, [Next]_vars
    PROVE  /\ \A c \in Candidates : \A i \in DOMAIN reviews[c] :
                 i \in DOMAIN reviews'[c] /\ Same(reviews'[c][i], reviews[c][i])
           /\ \A d \in Delegations : delegation[d].state # "absent" => delegation'[d].state # "absent"
           /\ bundles \subseteq bundles'
<1>1. TypeOK
  BY DEF IInv
<1>2. CASE UNCHANGED <<reviews, delegation, bundles>>
  BY <1>2 DEF Same
<1>3. ASSUME NEW r \in Requests, PromoteStep(r)
      PROVE  UNCHANGED <<reviews, delegation>> /\ bundles \subseteq bundles'
  BY <1>3 DEF PromoteStep, CheckPrerequisites, ResolveReview, ResolveDelegation, FindExisting, LinkExisting,
     FreezeBundle, CreateRecord, SetBridgeKey, CreateIncident, LinkIncident, RecordLineage,
     WriteRecord, WriteIncident, rows
<1>4. ASSUME NEW v \in Reviewers, NEW c \in Candidates, NEW input \in ReviewInputs,
             NEW s \in 0..Len(reviews[c]), RecordReview(v, c, input, s)
      PROVE  /\ UNCHANGED <<delegation, bundles>>
             /\ \A k \in Candidates : \A i \in DOMAIN reviews[k] :
                   i \in DOMAIN reviews'[k] /\ Same(reviews'[k][i], reviews[k][i])
  <2> DEFINE row == [decision |-> input.decision, supersedes |-> s, period |-> input.period]
  <2>1. reviews' = [reviews EXCEPT ![c] = Append(@, row)]
    BY <1>4 DEF RecordReview
  <2>2. row \in Review /\ reviews[c] \in Seq(Review)
    <3>1. input.decision \in Decisions /\ input.period \in Periods
      BY ConstantsAssumption
    <3>2. reviews[c] \in Seq(Review) /\ s \in Nat
      BY <1>1, LenProperties DEF TypeOK
    <3> QED
      BY <3>1, <3>2 DEF Review
  <2> HIDE DEF row
  <2>3. \A i \in DOMAIN reviews[c] : i \in DOMAIN Append(reviews[c], row)
                                     /\ Append(reviews[c], row)[i] = reviews[c][i]
    BY <2>2, AppendProperties, LenProperties
  <2>4. UNCHANGED <<delegation, bundles>>
    BY <1>4 DEF RecordReview
  <2> QED
    BY <1>1, <2>1, <2>3, <2>4 DEF TypeOK, Same
<1>5. ASSUME NEW d \in Delegations,
             (\E p \in GrantPeriods : CreateDelegation(d, p))
               \/ RevokeDelegation(d) \/ DelegationPeriodElapses(d)
      PROVE  /\ UNCHANGED <<reviews, bundles>>
             /\ \A e \in Delegations : delegation[e].state # "absent" => delegation'[e].state # "absent"
  <2>1. PICK row : row.state # "absent" /\ delegation' = [delegation EXCEPT ![d] = row]
    BY <1>5 DEF CreateDelegation, RevokeDelegation, DelegationPeriodElapses, WriteDelegation
  <2>2. UNCHANGED <<reviews, bundles>>
    BY <1>5 DEF CreateDelegation, RevokeDelegation, DelegationPeriodElapses, WriteDelegation
  <2> QED
    BY <1>1, <2>1, <2>2 DEF TypeOK
<1>6. ASSUME NEW c \in Candidates, NEW i \in DOMAIN reviews[c], ReviewPeriodElapses(c, i)
      PROVE  /\ UNCHANGED <<delegation, bundles>>
             /\ \A k \in Candidates : \A j \in DOMAIN reviews[k] :
                   j \in DOMAIN reviews'[k] /\ Same(reviews'[k][j], reviews[k][j])
  <2>1. reviews[c] \in Seq(Review) /\ i \in 1..Len(reviews[c]) /\ reviews[c][i] \in Review
    BY <1>1, LenProperties, ElementOfSeq DEF TypeOK
  <2> DEFINE row == [reviews[c][i] EXCEPT !.period = Elapsed(@)]
  <2>2. row \in Review /\ Same(row, reviews[c][i])
    BY <2>1 DEF Review, Elapsed, Periods, Same
  <2>3. reviews' = [reviews EXCEPT ![c] = [reviews[c] EXCEPT ![i] = row]]
    BY <1>1, <1>6 DEF TypeOK, ReviewPeriodElapses
  <2> HIDE DEF row
  <2>4. \A j \in DOMAIN reviews[c] :
           /\ j \in DOMAIN [reviews[c] EXCEPT ![i] = row]
           /\ Same([reviews[c] EXCEPT ![i] = row][j], reviews[c][j])
    BY <2>1, <2>2, LenProperties DEF Same
  <2>5. UNCHANGED <<delegation, bundles>>
    BY <1>6 DEF ReviewPeriodElapses
  <2> QED
    BY <1>1, <2>3, <2>4, <2>5 DEF TypeOK, Same
<1>7. ASSUME NEW r \in Requests, Abort(r) \/ \E c \in Candidates : Start(r, c)
      PROVE  UNCHANGED <<reviews, delegation, bundles>>
  BY <1>7, BeginOrEndLeaves DEF rows
<1>8. ASSUME NEW w \in Workers, WorkStep(w)
      PROVE  UNCHANGED <<reviews, delegation, bundles>>
  BY <1>8, WorkLeaves
<1>9. ASSUME NEW v \in Reviewers, SaveLifecycle(v)
      PROVE  UNCHANGED <<reviews, delegation, bundles>>
  BY <1>9 DEF SaveLifecycle
<1>10. UNCHANGED vars => UNCHANGED <<reviews, delegation, bundles>>
  BY DEF vars, rows
<1> QED
  BY <1>2, <1>3, <1>4, <1>5, <1>6, <1>7, <1>8, <1>9, <1>10, ConstantsAssumption DEF Next, Same

\* An earned authority stays earned.
LEMMA EarnedStable ==
    ASSUME IInv, [Next]_vars, NEW c \in Candidates, NEW a \in Authorities, Earned(c, a)
    PROVE  Earned(c, a)'
<1>1. CASE a.kind = "review"
  BY <1>1, HistoryGrows DEF Earned, Same
<1>2. CASE a.kind = "delegation"
  <2>1. a.delegation \in Delegations
    BY <1>2 DEF Authorities
  <2> QED
    BY <1>2, <2>1, HistoryGrows DEF Earned
<1> QED
  BY <1>1, <1>2 DEF Earned

\* A stored bundle stays stored, and the authority in it stays earned.
LEMMA FrozenStable ==
    ASSUME IInv, [Next]_vars, NEW c \in Candidates, NEW b \in Bundles, Frozen(c, b)
    PROVE  Frozen(c, b)'
<1>1. b.authority \in Authorities
  BY DEF Bundles
<1>2. Earned(c, b.authority)'
  BY <1>1, EarnedStable DEF Frozen
<1> QED
  BY <1>2, HistoryGrows DEF Frozen

\* A verification record is never removed.
LEMMA RecordsStay ==
    ASSUME IInv, [Next]_vars, NEW c \in Candidates, vr[c] # None
    PROVE  vr'[c] # None
<1>1. TypeOK
  BY DEF IInv
<1>2. CASE UNCHANGED vr
  BY <1>2
<1>3. ASSUME NEW r \in Requests, CreateRecord(r) \/ SetBridgeKey(r) \/ LinkIncident(r)
      PROVE  vr'[c] # None
  <2>1. req[r].frozen \in Bundles
    BY <1>3 DEF IInv, RequestInv, Sealed, At, CreateRecord, SetBridgeKey, LinkIncident
  <2>2. PICK row \in Records : vr' = [vr EXCEPT ![req[r].candidate] = row]
    BY <1>3, <2>1, RecordTyped DEF CreateRecord, SetBridgeKey, LinkIncident, WriteRecord, IncidentRefs
  <2> QED
    BY <1>1, <2>2, NoneDistinct DEF TypeOK
<1>4. ASSUME NEW r \in Requests, PromoteStep(r),
             ~(CreateRecord(r) \/ SetBridgeKey(r) \/ LinkIncident(r))
      PROVE  UNCHANGED vr
  BY <1>4 DEF PromoteStep, CheckPrerequisites, ResolveReview, ResolveDelegation, FindExisting, LinkExisting,
     FreezeBundle, CreateIncident, RecordLineage, WriteIncident, rows
<1>5. ASSUME NEW w \in Workers, WorkStep(w)
      PROVE  vr'[c] # None
  <2>1. PICK d \in Candidates : d = work[w].candidate
    BY <1>1 DEF TypeOK, Work
  <2>2. UNCHANGED vr \/ \E row \in Records : vr' = [vr EXCEPT ![d] = row]
    BY <1>5, <2>1, WorkRows
  <2> QED
    BY <1>1, <2>2, NoneDistinct DEF TypeOK
<1>6. (\E r \in Requests : Abort(r) \/ \E k \in Candidates : Start(r, k)) \/ Others \/ UNCHANGED vars
        => UNCHANGED vr
  BY BeginOrEndLeaves, OthersLeave DEF rows, vars
<1> QED
  BY <1>2, <1>3, <1>4, <1>5, <1>6, NextSplit

--------------------------------------------------------------------------------
(***************************************************************************)
(* The inductive invariant                                                 *)
(***************************************************************************)

\* The invariant holds of an empty store with every slot idle.
LEMMA InitIInv == Init => IInv
<1> SUFFICES ASSUME Init
             PROVE  IInv
  OBVIOUS
<1>1. TypeOK
  BY ConstantsAssumption, IdleTyped, WorkTyped, EmptySeq
  DEF Init, TypeOK, Delegation, Periods, Levels, LifecycleStates, LifecycleOf, Proofs
<1>2. LevelInv
  BY WorkTyped DEF Init, LevelInv, Proofworthy
<1>3. \A r \in Requests : RequestInv(r)
  BY IdleTyped DEF Init, RequestInv, Authorised, Sealed, Recorded
<1>4. \A w \in Workers : WorkInv(w)
  BY WorkTyped DEF Init, WorkInv, Reading, Writing
<1>5. PromotionAuthorised
  BY DEF Init, PromotionAuthorised
<1> QED
  BY <1>1, <1>2, <1>3, <1>4, <1>5 DEF IInv

\* No step moves a candidate across the line between E2 and E3: verification
\* raises E3 to E4 only, and a stale copy was taken on the same side.
LEMMA LevelKept ==
    ASSUME IInv, [Next]_vars
    PROVE  LevelInv'
<1>1. TypeOK /\ LevelInv
  BY DEF IInv
<1>2. CASE UNCHANGED <<level, pending, work>>
  BY <1>1, <1>2 DEF LevelInv, Proofworthy
<1>3. ASSUME NEW v \in Reviewers, NEW c \in Candidates, NEW input \in ReviewInputs,
             NEW s \in 0..Len(reviews[c]), RecordReview(v, c, input, s)
      PROVE  LevelInv'
  <2> DEFINE row == [kind |-> "review", candidate |-> c, level |-> level[c],
                     decision |-> input.decision]
  <2>1. CASE pending' = [pending EXCEPT ![v] = row]
    <3>1. row.candidate = c /\ row.level = level[c]
      OBVIOUS
    <3>2. UNCHANGED <<level, work>>
      BY <1>3 DEF RecordReview
    <3> HIDE DEF row
    <3> QED
      BY <1>1, <2>1, <3>1, <3>2 DEF TypeOK, LevelInv, Proofworthy
  <2>2. CASE UNCHANGED pending
    BY <1>2, <1>3, <2>2 DEF RecordReview
  <2> QED
    BY <1>3, <2>1, <2>2 DEF RecordReview
<1>4. ASSUME NEW v \in Reviewers, SaveLifecycle(v)
      PROVE  LevelInv'
  <2>1. pending[v].candidate \in Candidates
    BY <1>1, <1>4 DEF TypeOK, SaveLifecycle, PendingReview
  <2>2. /\ level' = [level EXCEPT ![pending[v].candidate] = pending[v].level]
        /\ pending' = [pending EXCEPT ![v] = None]
        /\ pending[v] # None /\ UNCHANGED work
    BY <1>4 DEF SaveLifecycle
  <2> QED
    BY <1>1, <2>1, <2>2 DEF TypeOK, LevelInv, Proofworthy
<1>5. ASSUME NEW w \in Workers, WorkStep(w)
      PROVE  LevelInv'
  <2>1. /\ work \in [Workers -> Work] /\ level \in [Candidates -> Levels]
        /\ work[w] \in Work /\ work[w].candidate \in Candidates
    BY <1>1 DEF TypeOK, Work
  <2>2. UNCHANGED pending /\ \A o \in Workers : o # w => UNCHANGED work[o]
    BY <1>5, <2>1, WorkLeaves
  <2>3. CASE RaiseLevel(w)
    <3>1. PICK c \in Candidates, l \in Levels :
             /\ c = work[w].candidate /\ l = RecalculateAfterVerification(work[w].level, TRUE, TRUE)
             /\ l \in ProofLevels <=> Proofworthy(c)
      <4>1. work[w].level \in Levels
        BY <2>1 DEF Work
      <4>2. work[w].level \in ProofLevels <=> Proofworthy(work[w].candidate)
        BY <1>1, <2>3 DEF LevelInv, RaiseLevel
      <4> QED
        BY <2>1, <4>1, <4>2, RecalculateKeepsLine
    <3>2. level' = [level EXCEPT ![c] = l] /\ work' = [work EXCEPT ![w] = Free]
      BY <2>3, <3>1 DEF RaiseLevel, Drop, Hold
    <3> QED
      BY <1>1, <2>1, <2>2, <3>1, <3>2, WorkTyped DEF LevelInv, Proofworthy
  <2>4. CASE ~RaiseLevel(w)
    <3>1. UNCHANGED level
      BY <1>5, <2>4 DEF WorkStep, ReadIncident, ReadRecord, SaveLabel, Relink, SaveProof, FetchIncident,
         WriteBack, ReadCandidate, Abandon, WriteRecord, WriteIncident, rows
    <3>2. \/ UNCHANGED work
          \/ work'[w].step # "level"
          \/ \E c \in Candidates : work'[w].candidate = c /\ work'[w].level = level[c]
      BY <1>5, WorkMoves DEF Reading, Writing
    <3> QED
      BY <1>1, <2>2, <3>1, <3>2 DEF LevelInv, Proofworthy
  <2> QED
    BY <2>3, <2>4
<1>6. ASSUME NEW r \in Requests, PromoteStep(r)
      PROVE  UNCHANGED <<level, pending, work>>
  BY <1>6, PromoteLeaves
<1>7. (\E r \in Requests : Abort(r) \/ \E c \in Candidates : Start(r, c))
        => UNCHANGED <<level, pending, work>>
  BY BeginOrEndLeaves DEF rows
<1>8. (\E d \in Delegations : \/ RevokeDelegation(d) \/ DelegationPeriodElapses(d)
                              \/ \E p \in GrantPeriods : CreateDelegation(d, p))
        => UNCHANGED <<level, pending, work>>
  BY DEF CreateDelegation, RevokeDelegation, DelegationPeriodElapses, WriteDelegation
<1>9. (\E c \in Candidates : \E i \in DOMAIN reviews[c] : ReviewPeriodElapses(c, i))
        => UNCHANGED <<level, pending, work>>
  BY DEF ReviewPeriodElapses
<1>10. UNCHANGED vars => UNCHANGED <<level, pending, work>>
  BY DEF vars, rows
<1> QED
  BY <1>2, <1>3, <1>4, <1>5, <1>6, <1>7, <1>8, <1>9, <1>10 DEF Next

\* A copy stays as good as it was when it was read.
LEMMA CopyKept ==
    ASSUME IInv, [Next]_vars, NEW w \in Workers, UNCHANGED work[w]
    PROVE  WorkInv(w)'
<1>1. TypeOK /\ WorkInv(w)
  BY DEF IInv
<1>2. PICK q \in Work : q = work[w] /\ q = work'[w]
  BY <1>1 DEF TypeOK
<1>3. q.candidate \in Candidates
  BY DEF Work
<1>4. ASSUME q.step \in Reading
      PROVE  q.record \in Records /\ Frozen(q.candidate, q.record.bundle)'
  <2>1. PICK b \in Bundles : b = q.record.bundle /\ Frozen(q.candidate, b)
    BY <1>1, <1>2, <1>4 DEF WorkInv, Records
  <2>2. Frozen(q.candidate, b)'
    BY <1>3, <2>1, FrozenStable
  <2> QED
    BY <1>1, <1>2, <1>4, <2>1, <2>2 DEF WorkInv
<1>5. ASSUME q.step \in Writing
      PROVE  /\ q.row \in Incidents /\ vr'[q.candidate] # None
             /\ q.row.lineage # None => Frozen(q.candidate, q.row.lineage)'
  <2>1. /\ q.row \in Incidents /\ vr[q.candidate] # None
        /\ q.row.lineage # None => Frozen(q.candidate, q.row.lineage)
    BY <1>1, <1>2, <1>5 DEF WorkInv
  <2>2. vr'[q.candidate] # None
    BY <1>3, <2>1, RecordsStay
  <2>3. ASSUME q.row.lineage # None
        PROVE  Frozen(q.candidate, q.row.lineage)'
    <3>1. PICK b \in Bundles : b = q.row.lineage /\ Frozen(q.candidate, b)
      BY <2>1, <2>3 DEF Incidents
    <3>2. Frozen(q.candidate, b)'
      BY <1>3, <3>1, FrozenStable
    <3> QED
      BY <3>1, <3>2
  <2> QED
    BY <2>1, <2>2, <2>3
<1> QED
  BY <1>2, <1>4, <1>5 DEF WorkInv, Frozen, Earned

\* Every worker keeps its invariant: a copy is one of a row that was authorised.
LEMMA CopiesKept ==
    ASSUME IInv, [Next]_vars
    PROVE  (\A w \in Workers : WorkInv(w))'
<1>1. TypeOK /\ PromotionAuthorised
  BY DEF IInv
<1>2. CASE UNCHANGED work
  <2>1. ASSUME NEW w \in Workers
        PROVE  WorkInv(w)'
    BY <1>2, <2>1, CopyKept
  <2> QED
    BY <2>1
<1>3. ASSUME NEW w \in Workers, WorkStep(w)
      PROVE  (\A o \in Workers : WorkInv(o))'
  <2>1. ASSUME NEW o \in Workers, o # w
        PROVE  WorkInv(o)'
    <3>1. UNCHANGED work[o]
      BY <1>1, <1>3, <2>1, WorkLeaves DEF TypeOK
    <3> QED
      BY <2>1, <3>1, CopyKept
  <2>2. CASE UNCHANGED work
    BY <1>2, <2>2
  <2>3. CASE work'[w].step \notin Reading \cup Writing
    BY <2>1, <2>3 DEF WorkInv
  <2>4. ASSUME NEW c \in Candidates, work'[w].step \in Reading, work'[w].candidate = c,
               vr[c] # None, work'[w].record = vr[c], UNCHANGED rows
        PROVE  WorkInv(w)'
    <3>1. PICK row \in Records : row = vr[c] /\ Frozen(c, row.bundle)
      BY <1>1, <2>4 DEF TypeOK, PromotionAuthorised
    <3>2. Frozen(c, row.bundle)'
      BY <2>4, <3>1 DEF Frozen, Earned, rows
    <3> QED
      BY <2>4, <3>1, <3>2 DEF WorkInv, Reading, Writing, Frozen, Earned
  <2>5. ASSUME NEW c \in Candidates, work'[w].step \in Writing, work'[w].candidate = c,
               incident[c] # None, work'[w].row = incident[c], UNCHANGED rows
        PROVE  WorkInv(w)'
    <3>1. PICK row \in Incidents : row = incident[c] /\ vr[c] # None
                                   /\ (row.lineage # None => Frozen(c, row.lineage))
      BY <1>1, <2>5 DEF TypeOK, PromotionAuthorised
    <3>2. vr'[c] # None /\ (row.lineage # None => Frozen(c, row.lineage)')
      BY <2>5, <3>1 DEF Frozen, Earned, rows
    <3> QED
      BY <2>5, <3>1, <3>2 DEF WorkInv, Reading, Writing, Frozen, Earned
  <2>6. CASE work'[w].step = "level"
    BY <2>3, <2>6 DEF Reading, Writing
  <2> QED
    BY <1>3, <2>1, <2>2, <2>3, <2>4, <2>5, <2>6, WorkMoves
<1>4. (\E r \in Requests : PromoteStep(r) \/ Abort(r) \/ \E c \in Candidates : Start(r, c))
        \/ Others \/ UNCHANGED vars => UNCHANGED work
  BY PromoteLeaves, BeginOrEndLeaves, OthersLeave DEF vars
<1> QED
  BY <1>2, <1>3, <1>4, NextSplit

\* What a request knows stays true while others run: the authority it holds
\* stays earned and its bundle stays stored, revocation and expiry included.
LEMMA RequestKept ==
    ASSUME IInv, [Next]_vars, NEW r \in Requests, UNCHANGED req[r]
    PROVE  RequestInv(r)'
<1>1. TypeOK /\ RequestInv(r)
  BY DEF IInv
<1>2. PICK q \in Request : q = req[r] /\ q = req'[r]
  BY <1>1 DEF TypeOK
<1>3. q.candidate \in Candidates
  BY DEF Request
<1>4. q.step \in Authorised => Earned(q.candidate, q.authority)'
  BY <1>1, <1>2, <1>3, EarnedStable DEF RequestInv
<1>5. q.step \in Sealed => Frozen(q.candidate, q.frozen)'
  BY <1>1, <1>2, <1>3, FrozenStable DEF RequestInv
<1>6. q.step \in Recorded => vr'[q.candidate] # None
  BY <1>1, <1>2, <1>3, RecordsStay DEF RequestInv
<1> QED
  BY ZenonT(30), <1>1, <1>2, <1>4, <1>5, <1>6 DEF RequestInv, Earned, Frozen, Proofworthy

\* A promote request learns what its next step relies on: it passes the
\* eligibility check only at a proof level and under an authority it read,
\* and writes no record before its bundle is stored.
LEMMA RequestAdvanced ==
    ASSUME IInv, NEW r \in Requests, PromoteStep(r)
    PROVE  RequestInv(r)'
<1>1. TypeOK /\ LevelInv /\ RequestInv(r) /\ [Next]_vars
  BY DEF IInv, Next
<1>2. PICK c \in Candidates :
         c = req[r].candidate /\ req \in [Requests -> Request] /\ req[r] \in Request
  BY <1>1 DEF TypeOK, Request
<1>3. CASE req'[r] = Idle
  BY <1>3, IdleTyped DEF RequestInv, Authorised, Sealed, Recorded
<1>4. ASSUME At(r, "existing") \/ At(r, "freeze") \/ At(r, "lineage"),
             NEW s \in {"lineage", "freeze"}, req'[r].step = s,
             req'[r].candidate = c, req'[r].authority = req[r].authority
      PROVE  RequestInv(r)'
  <2>1. Proofworthy(c) /\ SoundLineage(c) /\ req[r].authority \in Authorities /\ Earned(c, req[r].authority)
    BY <1>1, <1>2, <1>4 DEF RequestInv, At, Authorised
  <2>2. PICK a \in Authorities : a = req[r].authority /\ Earned(c, a)
    BY <2>1
  <2>3. Earned(c, a)'
    BY <1>1, <1>2, <2>2, EarnedStable
  <2> QED
    BY <1>4, <2>1, <2>2, <2>3 DEF RequestInv, Authorised, Sealed, Recorded, Earned, Proofworthy, SoundLineage
<1>5. CASE CheckPrerequisites(r)
  <2>1. req'[r].step = "review" /\ req'[r].candidate = c /\ req'[r].seen = level[c]
    BY <1>2, <1>5 DEF CheckPrerequisites, Request
  <2> QED
    BY <1>1, <1>2, <2>1 DEF LevelInv, RequestInv, Authorised, Sealed, Recorded, Proofworthy
<1>6. CASE ResolveReview(r) \/ ResolveDelegation(r)
  <2>1. req[r].step \in {"review", "delegation"}
    BY <1>6 DEF ResolveReview, ResolveDelegation, At
  <2>2. CASE req' = [req EXCEPT ![r].step = "delegation"]
    <3>1. req'[r].step = "delegation" /\ req'[r].candidate = c /\ req'[r].seen = req[r].seen
      BY <1>2, <2>2 DEF Request
    <3> QED
      BY <1>1, <1>2, <2>1, <3>1 DEF RequestInv, Authorised, Sealed, Recorded, Proofworthy
  <2>3. ASSUME NEW a \in Authorities, Eligible(r), Earned(c, a)',
               req' = [req EXCEPT ![r].step = "existing", ![r].authority = a]
        PROVE  RequestInv(r)'
    <3>1. Proofworthy(c) /\ SoundLineage(c)
      BY <1>1, <1>2, <2>1, <2>3 DEF Eligible, PrerequisitesMet, RequestInv, SoundLineage, LinkNames
    <3>2. req'[r].step = "existing" /\ req'[r].candidate = c /\ req'[r].authority = a
      BY <1>2, <2>3 DEF Request
    <3> QED
      BY <2>3, <3>1, <3>2 DEF RequestInv, Authorised, Sealed, Recorded, Earned, Proofworthy, SoundLineage
  <2>4. ASSUME NEW i \in ApprovingReview(c), UNCHANGED reviews
        PROVE  ReviewAuthority(i) \in Authorities /\ Earned(c, ReviewAuthority(i))'
    BY <1>1, <1>2, <2>4, LenProperties
    DEF TypeOK, ApprovingReview, LatestActive, ActiveReviews, ReviewAuthority, Authorities, Earned
  <2>5. ASSUME NEW d \in Matching(c, req[r].seen), UNCHANGED delegation
        PROVE  DelegationAuthority(d) \in Authorities /\ Earned(c, DelegationAuthority(d))'
    BY <2>5 DEF Matching, DelegationAuthority, Authorities, Earned
  <2>6. UNCHANGED <<reviews, delegation>>
    BY <1>6 DEF ResolveReview, ResolveDelegation, rows
  <2>7. CASE ResolveReview(r)
    <3>1. CASE /\ Eligible(r)
               /\ \E i \in ApprovingReview(c) :
                     req' = [req EXCEPT ![r].step = "existing", ![r].authority = ReviewAuthority(i)]
      BY <2>3, <2>4, <2>6, <3>1
    <3>2. CASE req' = [req EXCEPT ![r] = Idle]
      BY <1>2, <1>3, <3>2
    <3> QED
      BY <1>2, <2>2, <2>7, <3>1, <3>2 DEF ResolveReview, Goto, Return
  <2>8. CASE ResolveDelegation(r)
    <3>1. CASE /\ Eligible(r)
               /\ \E d \in Matching(c, req[r].seen) :
                     req' = [req EXCEPT ![r].step = "existing", ![r].authority = DelegationAuthority(d)]
      BY <2>3, <2>5, <2>6, <3>1
    <3>2. CASE req' = [req EXCEPT ![r] = Idle]
      BY <1>2, <1>3, <3>2
    <3> QED
      BY <1>2, <2>8, <3>1, <3>2 DEF ResolveDelegation, Return
  <2> QED
    BY <1>6, <2>7, <2>8
<1>7. CASE FindExisting(r)
  <2>1. CASE req' = [req EXCEPT ![r].step = "lineage", ![r].linked = vr[c].incident]
    <3>1. req'[r].step = "lineage" /\ req'[r].candidate = c /\ req'[r].authority = req[r].authority
      BY <1>2, <2>1 DEF Request
    <3> QED
      BY <1>4, <1>7, <3>1 DEF FindExisting
  <2>2. CASE req' = [req EXCEPT ![r].step = "freeze"]
    <3>1. req'[r].step = "freeze" /\ req'[r].candidate = c /\ req'[r].authority = req[r].authority
      BY <1>2, <2>2 DEF Request
    <3> QED
      BY <1>4, <1>7, <3>1 DEF FindExisting
  <2> QED
    BY <1>2, <1>7, <2>1, <2>2 DEF FindExisting, Goto
<1>8. CASE LinkExisting(r) \/ RecordLineage(r)
  BY <1>2, <1>3, <1>8 DEF LinkExisting, RecordLineage, Return
<1>9. CASE FreezeBundle(r)
  <2>1. Proofworthy(c) /\ SoundLineage(c) /\ req[r].authority \in Authorities /\ Earned(c, req[r].authority)
    BY <1>1, <1>2, <1>9 DEF FreezeBundle, At, RequestInv, Authorised
  <2> DEFINE replayed == HasBridgeKey(c) /\ proved[c] # "nothing"
             verified == HasBridgeKey(c) /\ proved[c] = "fix"
             l == RecalculateAfterVerification(level[c], replayed, verified)
             b == Bundle(c, req[r].authority, l)
  <2>2. l \in Levels /\ l \in ProofLevels
    BY <1>1, <1>2, <2>1, RecalculateKeepsLine DEF TypeOK, LevelInv
  <2>3. req' = [req EXCEPT ![r].step = "vr", ![r].frozen = b] /\ bundles' = bundles \cup {b}
    BY <1>2, <1>9 DEF FreezeBundle
  <2> HIDE DEF l
  <2>4. PICK k \in Bundles : /\ k = b /\ k.candidate = c
                             /\ k.authority = req[r].authority /\ k.level \in ProofLevels
    BY <1>2, <2>1, <2>2, BundleTyped
  <2> HIDE DEF b
  <2>5. PICK a \in Authorities : a = req[r].authority /\ Earned(c, a)
    BY <2>1
  <2>6. Earned(c, a)'
    BY <1>1, <1>2, <2>5, EarnedStable
  <2>7. /\ req'[r].step = "vr" /\ req'[r].candidate = c
        /\ req'[r].authority = a /\ req'[r].frozen = k
    BY <1>2, <2>3, <2>4, <2>5 DEF Request
  <2>8. Frozen(c, k)'
    BY <2>1, <2>3, <2>4, <2>5, <2>6 DEF Frozen, Earned, SoundLineage
  <2> QED
    BY <2>1, <2>4, <2>5, <2>6, <2>7, <2>8
    DEF RequestInv, Authorised, Sealed, Recorded, Earned, Frozen, Proofworthy, SoundLineage
<1>10. CASE CreateRecord(r) \/ SetBridgeKey(r) \/ CreateIncident(r) \/ LinkIncident(r)
  <2>1. PICK s \in Recorded : req' = [req EXCEPT ![r].step = s]
    BY <1>10 DEF CreateRecord, SetBridgeKey, CreateIncident, LinkIncident, Goto, Recorded
  <2>2. PICK q \in Request : q = req[r]
    BY <1>2
  <2>3. q.step \in Sealed
    BY <1>10, <2>2 DEF CreateRecord, SetBridgeKey, CreateIncident, LinkIncident, At, Sealed
  <2>4. /\ Proofworthy(c) /\ SoundLineage(c) /\ q.authority \in Authorities /\ Earned(c, q.authority)
        /\ q.frozen \in Bundles /\ Frozen(c, q.frozen)
    BY <1>1, <1>2, <2>2, <2>3 DEF RequestInv, Authorised, Sealed
  <2>5. Earned(c, q.authority)' /\ Frozen(c, q.frozen)'
    BY <1>1, <2>4, EarnedStable, FrozenStable
  <2>6. vr'[c] # None
    <3>1. CASE CreateRecord(r) \/ SetBridgeKey(r) \/ LinkIncident(r)
      <4>1. PICK row \in Records : vr' = [vr EXCEPT ![c] = row]
        BY <1>2, <2>2, <2>4, <3>1, RecordTyped DEF CreateRecord, SetBridgeKey, LinkIncident, WriteRecord, IncidentRefs
      <4> QED
        BY <1>1, <1>2, <4>1, NoneDistinct DEF TypeOK
    <3>2. CASE CreateIncident(r)
      <4>1. vr[c] # None
        BY <1>1, <1>2, <3>2 DEF CreateIncident, At, RequestInv, Recorded
      <4> QED
        BY <1>1, <1>2, <4>1, RecordsStay
    <3> QED
      BY <1>10, <3>1, <3>2
  <2>7. /\ req'[r].step = s /\ req'[r].candidate = c
        /\ req'[r].authority = q.authority /\ req'[r].frozen = q.frozen
    BY <1>2, <2>1, <2>2 DEF Request
  <2> QED
    BY <2>1, <2>4, <2>5, <2>6, <2>7
    DEF RequestInv, Authorised, Sealed, Recorded, Earned, Frozen, Proofworthy, SoundLineage
<1> QED
  BY <1>5, <1>6, <1>7, <1>8, <1>9, <1>10 DEF PromoteStep

\* Every slot keeps its invariant, the one that moves and the others.
LEMMA RequestsKept ==
    ASSUME IInv, [Next]_vars
    PROVE  (\A r \in Requests : RequestInv(r))'
<1>1. TypeOK
  BY DEF IInv
<1>2. CASE UNCHANGED req
  <2>1. ASSUME NEW r \in Requests
        PROVE  RequestInv(r)'
    BY <1>2, <2>1, RequestKept
  <2> QED
    BY <2>1
<1>3. ASSUME NEW r \in Requests, NEW q, req' = [req EXCEPT ![r] = q], RequestInv(r)'
      PROVE  (\A o \in Requests : RequestInv(o))'
  <2>1. ASSUME NEW o \in Requests, o # r
        PROVE  RequestInv(o)'
    BY <1>1, <1>3, <2>1, RequestKept DEF TypeOK
  <2> QED
    BY <1>3, <2>1
<1>4. ASSUME NEW r \in Requests, PromoteStep(r)
      PROVE  (\A o \in Requests : RequestInv(o))'
  <2>1. PICK q : req' = [req EXCEPT ![r] = q]
    BY <1>4 DEF PromoteStep, CheckPrerequisites, ResolveReview, ResolveDelegation, FindExisting,
       LinkExisting, FreezeBundle, CreateRecord, SetBridgeKey, CreateIncident, LinkIncident,
       RecordLineage, Goto, Return
  <2> QED
    BY <1>3, <1>4, <2>1, RequestAdvanced
<1>5. ASSUME NEW r \in Requests, Abort(r) \/ \E c \in Candidates : Start(r, c)
      PROVE  (\A o \in Requests : RequestInv(o))'
  <2>1. PICK q : req' = [req EXCEPT ![r] = q] /\ q.step \in {"idle", "prerequisites"}
    <3>1. CASE Abort(r)
      BY <3>1, IdleTyped DEF Abort, Return
    <3>2. CASE \E c \in Candidates : Start(r, c)
      <4>1. PICK c \in Candidates : Start(r, c)
        BY <3>2
      <4> DEFINE q == [req[r] EXCEPT !.step = "prerequisites", !.candidate = c,
                                     !.since = Len(reviews[c])]
      <4>2. req' = [req EXCEPT ![r] = q]
        BY <1>1, <4>1 DEF TypeOK, Start
      <4>3. q.step = "prerequisites"
        BY <1>1 DEF TypeOK, Request
      <4> QED
        BY <4>2, <4>3
    <3> QED
      BY <1>5, <3>1, <3>2
  <2>2. req'[r].step \in {"idle", "prerequisites"}
    BY <1>1, <2>1 DEF TypeOK
  <2>3. RequestInv(r)'
    BY <2>2 DEF RequestInv, Authorised, Sealed, Recorded
  <2> QED
    BY <1>3, <2>1, <2>3
<1>6. (\E w \in Workers : WorkStep(w)) \/ Others \/ UNCHANGED vars => UNCHANGED req
  BY WorkLeaves, OthersLeave DEF vars
<1> QED
  BY <1>2, <1>4, <1>5, <1>6, NextSplit

\* Only the steps that write the record, the incident or an answer can touch
\* the property, and each writes what its request carries, or a copy.
LEMMA PromotionStaysAuthorised ==
    ASSUME IInv, [Next]_vars
    PROVE  PromotionAuthorised'
<1>1. TypeOK /\ PromotionAuthorised
  BY DEF IInv
<1>2. \A c \in Candidates : /\ vr[c] # None => vr[c].bundle \in Bundles
                            /\ incident[c] # None => incident[c].lineage \in Bundles \cup {None}
                            /\ returned[c] \subseteq Bundles
  BY <1>1 DEF TypeOK, Records, Incidents
<1>3. ASSUME NEW c \in Candidates, NEW b \in Bundles, Frozen(c, b)
      PROVE  Frozen(c, b)'
  BY <1>3, FrozenStable
<1>4. ASSUME UNCHANGED vr \/ \E c \in Candidates, row \in Records :
                                /\ vr' = [vr EXCEPT ![c] = row]
                                /\ row.bundle \in Bundles /\ Frozen(c, row.bundle)
      PROVE  \A c \in Candidates : /\ vr'[c] # None => Frozen(c, vr[c].bundle)'
                                   /\ vr[c] # None => vr'[c] # None
  <2>1. ASSUME NEW c \in Candidates, vr'[c] # None
        PROVE  \E b \in Bundles : b = vr'[c].bundle /\ Frozen(c, b)
    BY <1>1, <1>2, <1>4, <2>1 DEF TypeOK, PromotionAuthorised
  <2>2. ASSUME NEW c \in Candidates, vr'[c] # None
        PROVE  Frozen(c, vr[c].bundle)'
    <3>1. PICK b \in Bundles : b = vr'[c].bundle /\ Frozen(c, b)
      BY <2>1, <2>2
    <3>2. Frozen(c, b)'
      BY <1>3, <3>1
    <3> QED
      BY <3>1, <3>2 DEF Frozen, Earned
  <2>3. ASSUME NEW c \in Candidates, vr[c] # None
        PROVE  vr'[c] # None
    BY <2>3, RecordsStay
  <2> QED
    BY <2>2, <2>3
<1>5. ASSUME UNCHANGED incident \/ \E c \in Candidates, row \in Incidents :
                /\ incident' = [incident EXCEPT ![c] = row]
                /\ vr[c] # None
                /\ row.lineage # None => row.lineage \in Bundles /\ Frozen(c, row.lineage)
      PROVE  \A c \in Candidates :
                /\ incident'[c] # None => vr[c] # None
                /\ incident'[c] # None /\ incident'[c].lineage # None => Frozen(c, incident[c].lineage)'
  <2>1. ASSUME NEW c \in Candidates, incident'[c] # None, incident'[c].lineage # None
        PROVE  \E b \in Bundles : b = incident'[c].lineage /\ Frozen(c, b)
    BY ZenonT(30), <1>1, <1>2, <1>5, <2>1 DEF TypeOK, PromotionAuthorised
  <2>2. ASSUME NEW c \in Candidates, incident'[c] # None, incident'[c].lineage # None
        PROVE  Frozen(c, incident[c].lineage)'
    <3>1. PICK b \in Bundles : b = incident'[c].lineage /\ Frozen(c, b)
      BY <2>1, <2>2
    <3>2. Frozen(c, b)'
      BY <1>3, <3>1
    <3> QED
      BY <3>1, <3>2 DEF Frozen, Earned
  <2>3. ASSUME NEW c \in Candidates, incident'[c] # None
        PROVE  vr[c] # None
    BY <1>1, <1>5, <2>3 DEF TypeOK, PromotionAuthorised
  <2> QED
    BY <2>2, <2>3
<1>6. ASSUME UNCHANGED returned \/ \E c \in Candidates, b \in Bundles :
                /\ returned' = [returned EXCEPT ![c] = @ \cup {b}]
                /\ Frozen(c, b)
      PROVE  \A c \in Candidates : \A b \in returned'[c] : Frozen(c, b)'
  <2>1. ASSUME NEW c \in Candidates, NEW b \in returned'[c]
        PROVE  b \in Bundles /\ Frozen(c, b)
    <3>1. \A a \in returned[c] : a \in Bundles /\ Frozen(c, a)
      BY <1>1, <1>2 DEF PromotionAuthorised
    <3>2. returned \in [Candidates -> SUBSET Bundles]
      BY <1>1 DEF TypeOK
    <3>3. CASE UNCHANGED returned
      BY <2>1, <3>1, <3>3
    <3>4. ASSUME NEW d \in Candidates, NEW e \in Bundles, Frozen(d, e),
                 returned' = [returned EXCEPT ![d] = @ \cup {e}]
          PROVE  b \in Bundles /\ Frozen(c, b)
      <4>1. CASE d = c
        <5>1. returned'[c] = returned[c] \cup {e}
          BY <3>2, <3>4, <4>1
        <5> QED
          BY <2>1, <3>1, <3>4, <4>1, <5>1
      <4>2. CASE d # c
        <5>1. returned'[c] = returned[c]
          BY <3>2, <3>4, <4>2
        <5> QED
          BY <2>1, <3>1, <5>1
      <4> QED
        BY <4>1, <4>2
    <3> QED
      BY <1>6, <3>3, <3>4
  <2> QED
    BY <1>3, <2>1
<1>7. ASSUME NEW r \in Requests, CreateRecord(r) \/ SetBridgeKey(r) \/ LinkIncident(r)
      PROVE  PromotionAuthorised'
  <2>1. PICK c \in Candidates, b \in Bundles :
           c = req[r].candidate /\ b = req[r].frozen /\ Frozen(c, b)
    BY <1>1, <1>7 DEF IInv, TypeOK, Request, RequestInv, Sealed, At, CreateRecord, SetBridgeKey, LinkIncident
  <2>2. PICK row \in Records : vr' = [vr EXCEPT ![c] = row] /\ row.bundle = b
    <3>1. PICK k \in BOOLEAN, i \in IncidentRefs : vr' = [vr EXCEPT ![c] = Record(b, k, i)]
      BY <1>7, <2>1 DEF CreateRecord, SetBridgeKey, LinkIncident, WriteRecord, IncidentRefs
    <3>2. Record(b, k, i) \in Records /\ Record(b, k, i).bundle = b
      BY RecordTyped
    <3> QED
      BY <3>1, <3>2
  <2>3. UNCHANGED <<incident, returned>>
    BY <1>7 DEF CreateRecord, SetBridgeKey, LinkIncident, WriteRecord, history
  <2> QED
    BY <1>4, <1>5, <1>6, <2>1, <2>2, <2>3 DEF PromotionAuthorised
<1>8. ASSUME NEW r \in Requests, CreateIncident(r)
      PROVE  PromotionAuthorised'
  <2>1. PICK c \in Candidates : c = req[r].candidate /\ vr[c] # None
    BY <1>1, <1>8 DEF IInv, TypeOK, Request, RequestInv, Recorded, At, CreateIncident
  <2>2. PICK row \in Incidents : incident' = [incident EXCEPT ![c] = row] /\ row.lineage = None
    BY <1>8, <2>1, IncidentTyped DEF CreateIncident, WriteIncident
  <2>3. UNCHANGED <<vr, returned>>
    BY <1>8 DEF CreateIncident, WriteIncident
  <2> QED
    BY <1>4, <1>5, <1>6, <2>1, <2>2, <2>3 DEF PromotionAuthorised
<1>9. ASSUME NEW r \in Requests, RecordLineage(r)
      PROVE  PromotionAuthorised'
  <2>1. PICK c \in Candidates, b \in Bundles :
           c = req[r].candidate /\ b = req[r].frozen /\ Frozen(c, b) /\ vr[c] # None
    BY <1>1, <1>9 DEF IInv, TypeOK, Request, RequestInv, Sealed, Recorded, At, RecordLineage
  <2>2. PICK row \in Incidents : incident' = [incident EXCEPT ![c] = row] /\ row.lineage = b
    BY <1>9, <2>1, IncidentTyped DEF RecordLineage, WriteIncident
  <2>3. UNCHANGED vr /\ returned' = [returned EXCEPT ![c] = @ \cup {b}]
    BY <1>9, <2>1 DEF RecordLineage, WriteIncident
  <2> QED
    BY <1>4, <1>5, <1>6, <2>1, <2>2, <2>3 DEF PromotionAuthorised
<1>10. ASSUME NEW r \in Requests, LinkExisting(r)
       PROVE  PromotionAuthorised'
  <2>1. PICK c \in Candidates : c = req[r].candidate
    BY <1>1 DEF TypeOK, Request
  <2>2. \/ UNCHANGED returned
        \/ \E b \in Bundles : Frozen(c, b) /\ returned' = [returned EXCEPT ![c] = @ \cup {b}]
    BY <1>1, <1>2, <1>10, <2>1 DEF LinkExisting, PromotionAuthorised
  <2>3. UNCHANGED <<vr, incident>>
    BY <1>10 DEF LinkExisting, rows
  <2> QED
    BY <1>4, <1>5, <1>6, <2>1, <2>2, <2>3 DEF PromotionAuthorised
<1>11. ASSUME NEW w \in Workers, WorkStep(w)
       PROVE  PromotionAuthorised'
  <2>1. PICK c \in Candidates : c = work[w].candidate
    BY <1>1 DEF TypeOK, Work
  <2>2. WorkInv(w) /\ UNCHANGED returned
    BY <1>11, WorkLeaves DEF IInv
  <2>3. UNCHANGED vr \/ \E row \in Records : /\ vr' = [vr EXCEPT ![c] = row]
                                            /\ row.bundle \in Bundles /\ Frozen(c, row.bundle)
    <3>1. work[w].step \in Reading => Frozen(c, work[w].record.bundle)
      BY <2>1, <2>2 DEF WorkInv
    <3>2. UNCHANGED vr \/ (work[w].step \in Reading
                             /\ \E row \in Records : /\ vr' = [vr EXCEPT ![c] = row]
                                                     /\ row.bundle = work[w].record.bundle)
      BY <1>11, <2>1, WorkRows
    <3> QED
      BY <3>1, <3>2 DEF Records
  <2>4. UNCHANGED incident \/ \E row \in Incidents :
                                /\ incident' = [incident EXCEPT ![c] = row]
                                /\ vr[c] # None
                                /\ row.lineage # None => row.lineage \in Bundles /\ Frozen(c, row.lineage)
    <3>1. work[w].step \in Writing => /\ work[w].row \in Incidents /\ vr[c] # None
                                      /\ work[w].row.lineage # None => Frozen(c, work[w].row.lineage)
      BY <2>1, <2>2 DEF WorkInv
    <3>2. UNCHANGED incident \/ (work[w].step \in Writing /\ incident' = [incident EXCEPT ![c] = work[w].row])
      BY <1>11, <2>1, WorkRows
    <3>3. CASE work[w].step \in Writing /\ incident' = [incident EXCEPT ![c] = work[w].row]
      <4>1. PICK row \in Incidents : row = work[w].row
        BY <3>1, <3>3
      <4> QED
        BY <3>1, <3>3, <4>1, IncidentFields
    <3> QED
      BY <3>2, <3>3
  <2> QED
    BY <1>4, <1>5, <1>6, <2>2, <2>3, <2>4 DEF PromotionAuthorised
<1>12. ASSUME NEW r \in Requests,
              \/ CheckPrerequisites(r) \/ ResolveReview(r) \/ ResolveDelegation(r)
              \/ FindExisting(r) \/ FreezeBundle(r)
       PROVE  UNCHANGED <<vr, incident, returned>>
  BY <1>12 DEF CheckPrerequisites, ResolveReview, ResolveDelegation, FindExisting, FreezeBundle,
     rows, history
<1>13. (\E r \in Requests : Abort(r) \/ \E c \in Candidates : Start(r, c)) \/ Others \/ UNCHANGED vars
         => UNCHANGED <<vr, incident, returned>>
  BY BeginOrEndLeaves, OthersLeave DEF vars, rows, history
<1>14. UNCHANGED <<vr, incident, returned>> => PromotionAuthorised'
  BY <1>4, <1>5, <1>6 DEF PromotionAuthorised
<1> QED
  BY <1>7, <1>8, <1>9, <1>10, <1>11, <1>12, <1>13, <1>14, NextSplit DEF PromoteStep

\* IInv is inductive, and holds in every state the system reaches.
THEOREM Invariance == Spec => []IInv
<1>1. ASSUME IInv, [Next]_vars
      PROVE  IInv'
  <2>1. TypeOK'
    BY <1>1, StepTyped
  <2>2. LevelInv'
    BY <1>1, LevelKept
  <2>3. (\A r \in Requests : RequestInv(r))'
    BY <1>1, RequestsKept
  <2>4. (\A w \in Workers : WorkInv(w))'
    BY <1>1, CopiesKept
  <2>5. PromotionAuthorised'
    BY <1>1, PromotionStaysAuthorised
  <2> QED
    BY <2>1, <2>2, <2>3, <2>4, <2>5 DEF IInv
<1> QED
  BY <1>1, InitIInv, PTL DEF Spec

\* The rows and the locals of every request stay well formed.
THEOREM TypeCorrect == Spec => []TypeOK
<1>1. IInv => TypeOK
  BY DEF IInv
<1> QED
  BY <1>1, Invariance, PTL

\* However many promote requests interleave with reviews, revocations, clock
\* ticks, labels, proof-loop requests that write old copies back and deaths
\* half-way, a candidate enters the proof loop only under an authority really
\* given and with its bundle stored.
THEOREM PromotionIsAuthorised == Spec => []PromotionAuthorised
<1>1. IInv => PromotionAuthorised
  BY DEF IInv
<1> QED
  BY <1>1, Invariance, PTL

--------------------------------------------------------------------------------
(***************************************************************************)
(* A later review prevails                                                 *)
(***************************************************************************)

\* No standing review that was on record when the request began overrules a.
Unruled(c, a, since) ==
    \A j \in 1..since :
        (a.kind = "delegation" \/ (a.kind = "review" /\ a.review < j)) => ~Stands(c, j)

\* A request that looks for a delegation found no review in force, one that has
\* an authority found none that overrules it; either only of those on record
\* when it began, for the rest may have come since.
PrevailInv(r) ==
    LET q == req[r]
    IN /\ q.step \in {"idle", "prerequisites", "review", "delegation"} => q.authority = None
       /\ q.step # "idle" => q.since <= Len(reviews[q.candidate])
       /\ q.step = "delegation" => \A j \in 1..q.since : ~Stands(q.candidate, j)
       /\ q.step \in Authorised => Unruled(q.candidate, q.authority, q.since)

\* A review in force without end, not superseded, is active.
LEMMA StandingIsActive ==
    ASSUME TypeOK, NEW c \in Candidates, NEW j \in DOMAIN reviews[c], Stands(c, j)
    PROVE  j \in ActiveReviews(c)
BY DEF Stands, ActiveReviews, PeriodIsActive

\* What no longer stands never stands again.
LEMMA NeverStandsAgain ==
    ASSUME IInv, [Next]_vars, NEW c \in Candidates, NEW j \in DOMAIN reviews[c], ~Stands(c, j)
    PROVE  ~Stands(c, j)'
<1>1. /\ j \in DOMAIN reviews'[c] /\ Same(reviews'[c][j], reviews[c][j])
      /\ \A i \in DOMAIN reviews[c] : i \in DOMAIN reviews'[c] /\ Same(reviews'[c][i], reviews[c][i])
  BY HistoryGrows
<1>2. SupersededIds(c) \subseteq SupersededIds(c)'
  BY <1>1 DEF SupersededIds, Same
<1> QED
  BY <1>1, <1>2 DEF Stands, Same

\* The reviews of a candidate only become more.
LEMMA ReviewsGrow ==
    ASSUME IInv, [Next]_vars, NEW c \in Candidates
    PROVE  /\ Len(reviews[c]) \in Nat /\ DOMAIN reviews[c] = 1..Len(reviews[c])
           /\ Len(reviews'[c]) \in Nat /\ DOMAIN reviews'[c] = 1..Len(reviews'[c])
           /\ Len(reviews[c]) <= Len(reviews'[c])
<1>1. reviews[c] \in Seq(Review) /\ reviews'[c] \in Seq(Review)
  BY StepTyped DEF IInv, TypeOK
<1>2. /\ Len(reviews[c]) \in Nat /\ DOMAIN reviews[c] = 1..Len(reviews[c])
      /\ Len(reviews'[c]) \in Nat /\ DOMAIN reviews'[c] = 1..Len(reviews'[c])
  BY <1>1, LenProperties
<1>3. \A i \in DOMAIN reviews[c] : i \in DOMAIN reviews'[c]
  BY HistoryGrows
<1> QED
  BY <1>2, <1>3

\* What did not overrule an authority does not come to overrule it.
LEMMA StaysUnruled ==
    ASSUME IInv, [Next]_vars, NEW c \in Candidates, NEW a, NEW since \in Nat,
           since <= Len(reviews[c])
    PROVE  /\ Unruled(c, a, since) => Unruled(c, a, since)'
           /\ (\A j \in 1..since : ~Stands(c, j)) => (\A j \in 1..since : ~Stands(c, j)')
<1>1. \A j \in 1..since : j \in DOMAIN reviews[c]
  BY ReviewsGrow
<1> QED
  BY <1>1, NeverStandsAgain DEF Unruled

\* A request that does not move keeps what it knows.
LEMMA PrevailKept ==
    ASSUME IInv, [Next]_vars, NEW r \in Requests, req'[r] = req[r], PrevailInv(r)
    PROVE  PrevailInv(r)'
<1>1. PICK c \in Candidates, since \in Nat : c = req[r].candidate /\ since = req[r].since
  BY DEF IInv, TypeOK, Request
<1>a. PICK a : a = req[r].authority
  OBVIOUS
<1>2. CASE req[r].step = "idle"
  BY <1>2 DEF PrevailInv, Authorised
<1>3. CASE req[r].step # "idle"
  <2>1. since <= Len(reviews[c]) /\ Len(reviews[c]) <= Len(reviews'[c])
        /\ Len(reviews[c]) \in Nat /\ Len(reviews'[c]) \in Nat
    BY <1>1, <1>3, ReviewsGrow DEF PrevailInv
  <2>2. since <= Len(reviews'[c])
    BY <2>1
  <2>3. req[r].step \in Authorised => Unruled(c, a, since)'
    BY <1>1, <1>a, <2>1, StaysUnruled DEF PrevailInv
  <2>4. req[r].step = "delegation" => \A j \in 1..since : ~Stands(c, j)'
    BY <1>1, <2>1, StaysUnruled DEF PrevailInv
  <2> QED
    BY <1>1, <1>a, <2>2, <2>3, <2>4 DEF PrevailInv, Unruled, Stands, SupersededIds
<1> QED
  BY <1>2, <1>3

\* The step in which a request finds its authority respects the reviews in force.
LEMMA PrevailAdvanced ==
    ASSUME IInv, NEW r \in Requests, PromoteStep(r), PrevailInv(r)
    PROVE  PrevailInv(r)'
<1>1. TypeOK /\ [Next]_vars
  BY DEF IInv, Next
<1>a. PICK old : old = req[r].authority
  OBVIOUS
<1>2. PICK c \in Candidates, since \in Nat :
         /\ c = req[r].candidate /\ since = req[r].since /\ old = req[r].authority
         /\ req \in [Requests -> Request] /\ req[r] \in Request
  BY <1>1, <1>a DEF TypeOK, Request
<1>3. CASE req'[r] = Idle
  BY <1>3, IdleTyped DEF PrevailInv, Authorised, Idle
<1>4. ASSUME req'[r].step \in Steps, req'[r].candidate = c, req'[r].since = since,
             req[r].step # "idle", NEW a, req'[r].authority = a,
             req'[r].step \in {"idle", "prerequisites", "review", "delegation"} => a = None,
             req'[r].step = "delegation" => \A j \in 1..since : ~Stands(c, j),
             req'[r].step \in Authorised => Unruled(c, a, since)
      PROVE  PrevailInv(r)'
  <2>1. since <= Len(reviews[c]) /\ Len(reviews[c]) <= Len(reviews'[c])
        /\ Len(reviews[c]) \in Nat /\ Len(reviews'[c]) \in Nat
    BY <1>1, <1>2, <1>4, ReviewsGrow DEF PrevailInv
  <2>2. since <= Len(reviews'[c])
    BY <2>1
  <2>3. req'[r].step \in Authorised => Unruled(c, a, since)'
    BY <1>1, <1>4, <2>1, StaysUnruled
  <2>4. req'[r].step = "delegation" => \A j \in 1..since : ~Stands(c, j)'
    BY <1>1, <1>4, <2>1, StaysUnruled
  <2> QED
    BY <1>4, <2>2, <2>3, <2>4 DEF PrevailInv, Unruled, Stands, SupersededIds
<1>5. CASE CheckPrerequisites(r)
  <2>1. /\ req'[r].step = "review" /\ req'[r].candidate = c /\ req'[r].since = since
        /\ req'[r].authority = old /\ req[r].step = "prerequisites"
    BY <1>2, <1>5 DEF CheckPrerequisites, Request, At
  <2> QED
    BY <1>2, <1>4, <2>1 DEF PrevailInv, Steps, Authorised
<1>6. CASE ResolveReview(r)
  <2>1. req[r].step = "review" /\ old = None
    BY <1>2, <1>6 DEF ResolveReview, At, PrevailInv
  <2>2. CASE ActiveReviews(c) = {} /\ req' = [req EXCEPT ![r].step = "delegation"]
    <3>1. /\ req'[r].step = "delegation" /\ req'[r].candidate = c /\ req'[r].since = since
          /\ req'[r].authority = old
      BY <1>2, <2>2 DEF Request
    <3>2. \A j \in 1..since : j \in DOMAIN reviews[c]
      BY <1>1, <1>2, <2>1, ReviewsGrow DEF PrevailInv
    <3>3. \A j \in 1..since : ~Stands(c, j)
      BY <1>1, <2>2, <3>2, StandingIsActive
    <3> QED
      BY <1>4, <2>1, <3>1, <3>3 DEF Steps, Authorised
  <2>3. ASSUME NEW i \in ApprovingReview(c),
               req' = [req EXCEPT ![r].step = "existing", ![r].authority = ReviewAuthority(i)]
        PROVE  PrevailInv(r)'
    <3>1. PICK a : a = ReviewAuthority(i)
      OBVIOUS
    <3>2. /\ req'[r].step = "existing" /\ req'[r].candidate = c /\ req'[r].since = since
          /\ req'[r].authority = a
      BY <1>2, <2>3, <3>1 DEF Request
    <3>3. \A j \in 1..since : j \in DOMAIN reviews[c]
      BY <1>1, <1>2, <2>1, ReviewsGrow DEF PrevailInv
    <3>4. i \in Nat /\ \A j \in ActiveReviews(c) : j \in Nat /\ j <= i
      BY <1>1, <2>3, ReviewsGrow DEF ApprovingReview, LatestActive, ActiveReviews
    <3>5. Unruled(c, a, since)
      BY <1>1, <3>1, <3>3, <3>4, StandingIsActive DEF Unruled, ReviewAuthority
    <3> QED
      BY <1>4, <2>1, <3>2, <3>5 DEF Steps
  <2>4. CASE req' = [req EXCEPT ![r] = Idle]
    BY <1>2, <1>3, <2>4
  <2> QED
    BY <1>2, <1>6, <2>2, <2>3, <2>4 DEF ResolveReview, Goto, Return
<1>7. CASE ResolveDelegation(r)
  <2>1. req[r].step = "delegation" /\ \A j \in 1..since : ~Stands(c, j)
    BY <1>2, <1>7 DEF ResolveDelegation, At, PrevailInv
  <2>2. ASSUME NEW d \in Matching(c, req[r].seen),
               req' = [req EXCEPT ![r].step = "existing", ![r].authority = DelegationAuthority(d)]
        PROVE  PrevailInv(r)'
    <3>1. PICK a : a = DelegationAuthority(d)
      OBVIOUS
    <3>2. /\ req'[r].step = "existing" /\ req'[r].candidate = c /\ req'[r].since = since
          /\ req'[r].authority = a
      BY <1>2, <2>2, <3>1 DEF Request
    <3>3. Unruled(c, a, since)
      BY <2>1 DEF Unruled
    <3> QED
      BY <1>4, <2>1, <3>2, <3>3 DEF Steps
  <2>3. CASE req' = [req EXCEPT ![r] = Idle]
    BY <1>2, <1>3, <2>3
  <2> QED
    BY <1>2, <1>7, <2>2, <2>3 DEF ResolveDelegation, Return
<1>8. CASE \/ FindExisting(r) \/ FreezeBundle(r) \/ CreateRecord(r)
           \/ SetBridgeKey(r) \/ CreateIncident(r) \/ LinkIncident(r)
  <2>1. /\ req'[r].step \in Authorised /\ req'[r].candidate = c /\ req'[r].since = since
        /\ req'[r].authority = old /\ req[r].step \in Authorised
    <3>1. req[r].step \in Authorised
      BY <1>8 DEF FindExisting, FreezeBundle, CreateRecord, SetBridgeKey, CreateIncident,
         LinkIncident, At, Authorised
    <3>2. CASE FindExisting(r)
      BY <1>2, <3>1, <3>2 DEF FindExisting, Goto, Authorised, Request
    <3>3. CASE FreezeBundle(r)
      <4>1. PICK b : req' = [req EXCEPT ![r].step = "vr", ![r].frozen = b]
        BY <3>3 DEF FreezeBundle
      <4> QED
        BY <1>2, <3>1, <4>1 DEF Authorised, Request
    <3>4. CASE CreateRecord(r) \/ SetBridgeKey(r) \/ CreateIncident(r) \/ LinkIncident(r)
      <4>1. PICK s \in Authorised : req' = [req EXCEPT ![r].step = s]
        BY <3>4 DEF CreateRecord, SetBridgeKey, CreateIncident, LinkIncident, Goto, Authorised
      <4> QED
        BY <1>2, <3>1, <4>1 DEF Request
    <3> QED
      BY <1>8, <3>2, <3>3, <3>4
  <2>2. Unruled(c, old, since)
    BY <1>2, <2>1 DEF PrevailInv
  <2> QED
    BY <1>4, <2>1, <2>2 DEF Steps, Authorised
<1>9. CASE LinkExisting(r) \/ RecordLineage(r)
  BY <1>2, <1>3, <1>9 DEF LinkExisting, RecordLineage, Return
<1> QED
  BY <1>5, <1>6, <1>7, <1>8, <1>9 DEF PromoteStep

\* Every slot keeps it.
LEMMA PrevailStep ==
    ASSUME IInv, [Next]_vars, \A r \in Requests : PrevailInv(r), NEW r \in Requests
    PROVE  PrevailInv(r)'
<1>1. TypeOK
  BY DEF IInv
<1>2. CASE req'[r] = req[r]
  BY <1>2, PrevailKept
<1>3. CASE PromoteStep(r)
  BY <1>3, PrevailAdvanced
<1>4. CASE Abort(r)
  <2>1. req'[r] = Idle
    BY <1>1, <1>4 DEF TypeOK, Abort, Return
  <2> QED
    BY <2>1, IdleTyped DEF PrevailInv, Authorised, Idle
<1>5. ASSUME NEW c \in Candidates, Start(r, c)
      PROVE  PrevailInv(r)'
  <2>1. /\ req'[r].step = "prerequisites" /\ req'[r].candidate = c
        /\ req'[r].since = Len(reviews[c]) /\ req'[r].authority = None
        /\ UNCHANGED reviews
    BY <1>1, <1>5 DEF TypeOK, Request, Start, At, PrevailInv, rows
  <2>2. Len(reviews[c]) \in Nat
    BY ReviewsGrow
  <2> QED
    BY <2>1, <2>2 DEF PrevailInv, Authorised
<1>6. ASSUME NEW o \in Requests, o # r, PromoteStep(o) \/ Abort(o) \/ \E c \in Candidates : Start(o, c)
      PROVE  req'[r] = req[r]
  <2>1. CASE PromoteStep(o)
    BY <1>1, <1>6, <2>1, PromoteLeaves DEF TypeOK
  <2>2. CASE Abort(o) \/ \E c \in Candidates : Start(o, c)
    BY <1>1, <1>6, <2>2 DEF TypeOK, Abort, Start, Return
  <2> QED
    BY <1>6, <2>1, <2>2
<1>7. CASE Others \/ \E w \in Workers : WorkStep(w)
  BY <1>2, <1>7, OthersLeave, WorkLeaves
<1> QED
  BY <1>2, <1>3, <1>4, <1>5, <1>6, <1>7, NextSplit DEF vars

\* A promotion never runs on an authority that a standing review, recorded
\* before the request began, had overruled; whatever interleaves.
THEOREM LaterReviewsPrevail == Spec => []LaterReviewPrevails
<1>1. Init => \A r \in Requests : PrevailInv(r)
  BY IdleTyped DEF Init, PrevailInv, Authorised, Idle
<1>2. IInv /\ (\A r \in Requests : PrevailInv(r)) /\ [Next]_vars => (\A r \in Requests : PrevailInv(r))'
  BY PrevailStep
<1>3. IInv /\ (\A r \in Requests : PrevailInv(r)) => LaterReviewPrevails
  BY DEF IInv, TypeOK, Request, Steps, PrevailInv, Authorised, Unruled, LaterReviewPrevails
<1> QED
  BY <1>1, <1>2, <1>3, Invariance, PTL DEF Spec

--------------------------------------------------------------------------------
(***************************************************************************)
(* Who writes for a candidate                                              *)
(***************************************************************************)

\* The lineage of a candidate is a bundle, or none.
LEMMA LineageTyped ==
    ASSUME TypeOK, NEW c \in Candidates
    PROVE  LineageOf(c) \in Bundles \cup {None}
BY IncidentFields DEF TypeOK, LineageOf

\* A promote request writes to no row of another candidate.
LEMMA PromoteWritesOwn ==
    ASSUME IInv, NEW r \in Requests, PromoteStep(r), NEW d \in Candidates, d # req[r].candidate
    PROVE  UNCHANGED <<vr[d], incident[d], returned[d]>>
<1>1. TypeOK
  BY DEF IInv
<1>2. CASE CreateRecord(r) \/ SetBridgeKey(r) \/ LinkIncident(r)
  BY <1>1, <1>2 DEF TypeOK, CreateRecord, SetBridgeKey, LinkIncident, WriteRecord, history
<1>3. CASE CreateIncident(r) \/ RecordLineage(r)
  BY <1>1, <1>3 DEF TypeOK, CreateIncident, RecordLineage, WriteIncident
<1>4. CASE LinkExisting(r)
  BY <1>1, <1>4 DEF TypeOK, LinkExisting, rows
<1>5. CASE CheckPrerequisites(r) \/ ResolveReview(r) \/ ResolveDelegation(r)
           \/ FindExisting(r) \/ FreezeBundle(r)
  BY <1>5 DEF CheckPrerequisites, ResolveReview, ResolveDelegation, FindExisting, FreezeBundle, rows, history
<1> QED
  BY <1>2, <1>3, <1>4, <1>5 DEF PromoteStep

\* A request that is not writing leaves record and incident alone.
LEMMA ReadersKeepRows ==
    ASSUME NEW r \in Requests, PromoteStep(r), req[r].step \notin Window
    PROVE  UNCHANGED <<vr, incident>>
BY DEF PromoteStep, CheckPrerequisites, ResolveReview, ResolveDelegation, FindExisting, LinkExisting,
   FreezeBundle, CreateRecord, SetBridgeKey, CreateIncident, LinkIncident, RecordLineage, At, Window, rows

\* A worker writes to no row but those of a candidate of which it holds a copy.
LEMMA WorkWritesHeld ==
    ASSUME IInv, NEW w \in Workers, WorkStep(w), NEW d \in Candidates, w \notin Holders(d)
    PROVE  UNCHANGED <<vr[d], incident[d]>>
<1>1. TypeOK
  BY DEF IInv
<1>2. PICK c \in Candidates : c = work[w].candidate
  BY <1>1 DEF TypeOK, Work
<1>3. CASE c # d
  <2>1. UNCHANGED vr \/ \E row : vr' = [vr EXCEPT ![c] = row]
    BY <1>2, WorkRows
  <2>2. UNCHANGED incident \/ \E row : incident' = [incident EXCEPT ![c] = row]
    BY <1>2, WorkRows
  <2> QED
    BY <1>1, <1>3, <2>1, <2>2 DEF TypeOK
<1>4. CASE c = d
  <2>1. work[w].step \notin Reading \cup Writing
    BY <1>2, <1>4 DEF Holders, Holding, Reading, Writing
  <2> QED
    BY <1>2, <2>1, WorkRows
<1> QED
  BY <1>3, <1>4

\* A request joins the writers of a candidate only where it finds no record, and
\* that is noted if there is another one, or a copy to be written back.
LEMMA WritersMove ==
    ASSUME IInv, [Next]_vars, NEW c \in Candidates
    PROVE  \/ Writers(c)' \subseteq Writers(c)
           \/ \E r \in Requests :
                 /\ FindExisting(r) /\ req[r].candidate = c /\ ~HasBridgeKey(c)
                 /\ Writers(c)' = Writers(c) \cup {r}
                 /\ Writers(c) # {} => c \in doubled'
                 /\ Holders(c) # {} => c \in crossed'
<1>1. TypeOK /\ req \in [Requests -> Request]
  BY DEF IInv, TypeOK
<1>2. CASE UNCHANGED req
  BY <1>2 DEF Writers
<1>3. ASSUME NEW r \in Requests, NEW q, req' = [req EXCEPT ![r] = q], q.step \notin Window
      PROVE  Writers(c)' \subseteq Writers(c)
  BY <1>1, <1>3 DEF Writers
<1>4. ASSUME NEW r \in Requests, req[r].step \in Window, req'[r].candidate = req[r].candidate,
             \A o \in Requests : o # r => req'[o] = req[o]
      PROVE  Writers(c)' \subseteq Writers(c)
  BY <1>1, <1>4 DEF Writers
<1>5. ASSUME NEW r \in Requests, Abort(r) \/ \E d \in Candidates : Start(r, d)
      PROVE  Writers(c)' \subseteq Writers(c)
  <2>1. CASE Abort(r)
    BY <1>3, <2>1, IdleTyped DEF Abort, Return, Window
  <2>2. CASE \E d \in Candidates : Start(r, d)
    <3>1. PICK d, n : req' = [req EXCEPT ![r].step = "prerequisites", ![r].candidate = d, ![r].since = n]
      BY <2>2 DEF Start
    <3>2. req'[r].step = "prerequisites" /\ \A o \in Requests : o # r => req'[o] = req[o]
      BY <1>1, <3>1 DEF Request
    <3> QED
      BY <3>2 DEF Writers, Window
  <2> QED
    BY <1>5, <2>1, <2>2
<1>6. ASSUME NEW r \in Requests, PromoteStep(r), ~FindExisting(r)
      PROVE  Writers(c)' \subseteq Writers(c)
  <2>1. \A o \in Requests : o # r => req'[o] = req[o]
    BY <1>1, <1>6, PromoteLeaves
  <2>2. req'[r].step \notin Window
          \/ (req[r].step \in Window /\ req'[r].candidate = req[r].candidate)
    <3>1. CASE LinkExisting(r) \/ RecordLineage(r)
      <4>1. req'[r] = Idle
        BY <1>1, <3>1 DEF LinkExisting, RecordLineage, Return
      <4> QED
        BY <4>1, IdleTyped DEF Window
    <3>2. CASE FreezeBundle(r)
      <4>1. PICK b : req' = [req EXCEPT ![r].step = "vr", ![r].frozen = b]
        BY <3>2 DEF FreezeBundle
      <4> QED
        BY <1>1, <3>2, <4>1 DEF FreezeBundle, At, Window, Request
    <3>3. CASE CreateRecord(r) \/ SetBridgeKey(r) \/ CreateIncident(r) \/ LinkIncident(r)
      <4>1. PICK s : req' = [req EXCEPT ![r].step = s]
        BY <3>3 DEF CreateRecord, SetBridgeKey, CreateIncident, LinkIncident, Goto
      <4> QED
        BY <1>1, <3>3, <4>1 DEF CreateRecord, SetBridgeKey, CreateIncident, LinkIncident, At, Window, Request
    <3>4. CASE CheckPrerequisites(r)
      BY <1>1, <3>4 DEF CheckPrerequisites, Window, Request
    <3>5. CASE ResolveReview(r) \/ ResolveDelegation(r)
      <4>1. ASSUME NEW a, req' = [req EXCEPT ![r].step = "existing", ![r].authority = a]
            PROVE  req'[r].step \notin Window
        BY <1>1, <4>1 DEF Request, Window
      <4>2. CASE req' = [req EXCEPT ![r] = Idle]
        BY <1>1, <4>2, IdleTyped DEF Window
      <4>3. CASE req' = [req EXCEPT ![r].step = "delegation"]
        BY <1>1, <4>3 DEF Request, Window
      <4> QED
        BY <3>5, <4>1, <4>2, <4>3 DEF ResolveReview, ResolveDelegation, Goto, Return
    <3> QED
      BY <1>6, <3>1, <3>2, <3>3, <3>4, <3>5 DEF PromoteStep
  <2> QED
    BY <1>4, <2>1, <2>2 DEF Writers
<1>7. ASSUME NEW r \in Requests, FindExisting(r)
      PROVE  \/ Writers(c)' \subseteq Writers(c)
             \/ /\ req[r].candidate = c /\ ~HasBridgeKey(c)
                /\ Writers(c)' = Writers(c) \cup {r}
                /\ Writers(c) # {} => c \in doubled'
                /\ Holders(c) # {} => c \in crossed'
  <2>1. PICK d \in Candidates : d = req[r].candidate
    BY <1>1 DEF Request
  <2>2. CASE HasBridgeKey(d)
    <3>1. PICK k : req' = [req EXCEPT ![r].step = "lineage", ![r].linked = k]
      BY <1>7, <2>1, <2>2 DEF FindExisting
    <3>2. req'[r].step = "lineage" /\ \A o \in Requests : o # r => req'[o] = req[o]
      BY <1>1, <3>1 DEF Request
    <3> QED
      BY <3>2 DEF Writers, Window
  <2>3. CASE ~HasBridgeKey(d)
    <3>1. /\ req' = [req EXCEPT ![r].step = "freeze"]
          /\ doubled' = NoteIf(doubled, d, Writers(d) # {})
          /\ crossed' = NoteIf(crossed, d, Holders(d) # {})
      BY <1>7, <2>1, <2>3 DEF FindExisting, Goto
    <3>2. /\ req'[r].step = "freeze" /\ req'[r].candidate = d
          /\ \A o \in Requests : o # r => req'[o] = req[o]
      BY <1>1, <2>1, <3>1 DEF Request
    <3>3. CASE d = c
      <4>1. Writers(c)' = Writers(c) \cup {r}
        <5>1. r \in Writers(c)'
          BY <3>2, <3>3 DEF Writers, Window
        <5>2. r \notin Writers(c)
          BY <1>7 DEF Writers, Window, FindExisting, At
        <5>3. \A o \in Requests : o # r => (o \in Writers(c)' <=> o \in Writers(c))
          BY <3>2 DEF Writers
        <5> QED
          BY <5>1, <5>2, <5>3 DEF Writers
      <4> QED
        BY <2>1, <2>3, <3>1, <3>3, <4>1 DEF NoteIf
    <3>4. CASE d # c
      BY <3>2, <3>4 DEF Writers
    <3> QED
      BY <3>3, <3>4
  <2> QED
    BY <2>2, <2>3
<1>8. (\E w \in Workers : WorkStep(w)) \/ Others \/ UNCHANGED vars => UNCHANGED req
  BY WorkLeaves, OthersLeave DEF vars
<1> QED
  BY <1>2, <1>5, <1>6, <1>7, <1>8, NextSplit


\* Overlaps are only ever added to, and noting one is all that such a step
\* does to the rows.
LEMMA OverlapsGrow ==
    ASSUME IInv, [Next]_vars
    PROVE  /\ doubled \subseteq doubled' /\ crossed \subseteq crossed'
           /\ UNCHANGED overlaps \/ UNCHANGED rows
<1>1. TypeOK
  BY DEF IInv
<1>2. ASSUME NEW r \in Requests, FindExisting(r)
      PROVE  /\ doubled \subseteq doubled' /\ crossed \subseteq crossed'
             /\ UNCHANGED rows
  BY <1>2 DEF FindExisting, overlaps, NoteIf
<1>3. ASSUME NEW r \in Requests, PromoteStep(r), ~FindExisting(r)
      PROVE  UNCHANGED overlaps
  BY <1>3 DEF PromoteStep, CheckPrerequisites, ResolveReview, ResolveDelegation, LinkExisting,
     FreezeBundle, CreateRecord, SetBridgeKey, CreateIncident, LinkIncident, RecordLineage,
     WriteRecord, WriteIncident, history
<1>4. ASSUME NEW w \in Workers, WorkStep(w)
      PROVE  /\ doubled \subseteq doubled' /\ crossed \subseteq crossed'
             /\ UNCHANGED overlaps \/ UNCHANGED rows
  BY <1>4 DEF WorkStep, ReadIncident, ReadRecord, SaveLabel, Relink, SaveProof, FetchIncident, WriteBack,
     ReadCandidate, RaiseLevel, Abandon, WriteRecord, WriteIncident, history, overlaps, NoteIf
<1>5. (\E r \in Requests : Abort(r) \/ \E c \in Candidates : Start(r, c)) \/ Others \/ UNCHANGED vars
        => UNCHANGED overlaps
  BY BeginOrEndLeaves, OthersLeave DEF vars, history
<1> QED
  BY <1>2, <1>3, <1>4, <1>5, NextSplit DEF overlaps

\* A request that holds a copy held it before, or has just read it, which is
\* noted if a promote is writing for the candidate.
LEMMA HoldersMove ==
    ASSUME IInv, [Next]_vars, NEW c \in Candidates, NEW w \in Workers, w \in Holders(c)'
    PROVE  \/ w \in Holders(c) /\ work'[w] = work[w]
           \/ /\ UNCHANGED <<rows, req>>
              /\ Writers(c) # {} => c \in crossed'
              /\ \/ work'[w].step \in Reading /\ vr[c] # None /\ work'[w].record = vr[c]
                 \/ work'[w].step \in Writing /\ incident[c] # None /\ work'[w].row = incident[c]
<1>1. TypeOK /\ work \in [Workers -> Work]
  BY DEF IInv, TypeOK
<1>2. work'[w].step \in Reading \cup Writing /\ work'[w].candidate = c
  BY DEF Holders, Holding, Reading, Writing
<1>3. CASE work'[w] = work[w]
  BY <1>3 DEF Holders
<1>4. CASE WorkStep(w)
  <2>1. UNCHANGED req /\ (UNCHANGED work => work'[w] = work[w])
    BY <1>4, WorkLeaves
  <2>2. crossed' = NoteIf(crossed, c, Writers(c) # {}) => (Writers(c) # {} => c \in crossed')
    BY DEF NoteIf
  <2>3. work'[w].step # "level"
    BY <1>2 DEF Reading, Writing
  <2>4. \/ UNCHANGED work
        \/ /\ UNCHANGED rows /\ crossed' = NoteIf(crossed, c, Writers(c) # {})
           /\ \/ work'[w].step \in Reading /\ vr[c] # None /\ work'[w].record = vr[c]
              \/ work'[w].step \in Writing /\ incident[c] # None /\ work'[w].row = incident[c]
    BY <1>2, <1>4, <2>3, WorkMoves
  <2> QED
    BY <1>3, <2>1, <2>2, <2>4
<1>5. ASSUME NEW o \in Workers, o # w, WorkStep(o)
      PROVE  work'[w] = work[w]
  BY <1>1, <1>5, WorkLeaves
<1>6. ASSUME NEW r \in Requests, PromoteStep(r)
      PROVE  work'[w] = work[w]
  BY <1>6, PromoteLeaves
<1>7. (\E r \in Requests : Abort(r) \/ \E d \in Candidates : Start(r, d)) \/ Others \/ UNCHANGED vars
        => work'[w] = work[w]
  BY BeginOrEndLeaves, OthersLeave DEF vars
<1> QED
  BY <1>3, <1>4, <1>5, <1>6, <1>7, NextSplit

\* A promote stays among the writers of its candidate until it has recorded
\* lineage, unless it dies.
LEMMA WritersStay ==
    ASSUME IInv, [Next]_vars, NEW c \in Candidates, NEW r \in Requests, r \in Writers(c)
    PROVE  \/ r \in Writers(c)'
           \/ Abort(r)
           \/ RecordLineage(r)
<1>1. TypeOK /\ req \in [Requests -> Request] /\ req[r].candidate = c /\ req[r].step \in Window
  BY DEF IInv, TypeOK, Writers
<1>2. CASE req'[r] = req[r]
  BY <1>2 DEF Writers
<1>3. ASSUME PromoteStep(r), ~RecordLineage(r)
      PROVE  r \in Writers(c)'
  <2>1. CASE FreezeBundle(r)
    <3>1. PICK b : req' = [req EXCEPT ![r].step = "vr", ![r].frozen = b]
      BY <2>1 DEF FreezeBundle
    <3> QED
      BY <1>1, <3>1 DEF Writers, Window, Request
  <2>2. CASE CreateRecord(r) \/ SetBridgeKey(r) \/ CreateIncident(r) \/ LinkIncident(r)
    <3>1. PICK s \in Window : req' = [req EXCEPT ![r].step = s]
      BY <2>2 DEF CreateRecord, SetBridgeKey, CreateIncident, LinkIncident, Goto, Window
    <3> QED
      BY <1>1, <3>1 DEF Writers, Request
  <2> QED
    BY <1>1, <1>3, <2>1, <2>2 DEF PromoteStep, CheckPrerequisites, ResolveReview, ResolveDelegation,
       FindExisting, LinkExisting, At, Window
<1>4. ~\E d \in Candidates : Start(r, d)
  BY <1>1 DEF Start, At, Window
<1>5. ASSUME NEW o \in Requests, o # r, PromoteStep(o) \/ Abort(o) \/ \E d \in Candidates : Start(o, d)
      PROVE  req'[r] = req[r]
  <2>1. Abort(o) => req'[r] = req[r]
    BY <1>1, <1>5 DEF Abort, Return
  <2>2. (\E d \in Candidates : Start(o, d)) => req'[r] = req[r]
    BY <1>1, <1>5 DEF Start
  <2>3. PromoteStep(o) => req'[r] = req[r]
    BY <1>1, <1>5, PromoteLeaves
  <2> QED
    BY <1>5, <2>1, <2>2, <2>3
<1>6. (\E w \in Workers : WorkStep(w)) \/ Others \/ UNCHANGED vars => req'[r] = req[r]
  BY WorkLeaves, OthersLeave DEF vars
<1> QED
  BY <1>2, <1>3, <1>4, <1>5, <1>6, NextSplit

--------------------------------------------------------------------------------
(***************************************************************************)
(* No promotion is left half-way                                           *)
(***************************************************************************)

\* A copy without lineage was read beside a promote, or after one died.
CopiesAccounted ==
    \A w \in Workers :
        LET q == work[w]
        IN /\ q.step \in Reading => vr[q.candidate] # None
           /\ q.step \in Writing /\ q.row.lineage = None => q.candidate \in crossed \/ aborts > 0

LeftInv == NeverLeftBehind /\ CopiesAccounted

\* A recorded lineage is what the request's bundle is.
LEMMA LineageRecorded ==
    ASSUME IInv, NEW r \in Requests, RecordLineage(r), NEW c \in Candidates, c = req[r].candidate
    PROVE  LineageOf(c)' = req[r].frozen /\ req[r].frozen \in Bundles
<1>1. TypeOK /\ req[r].frozen \in Bundles
  BY DEF IInv, RequestInv, RecordLineage, At, Sealed
<1>2. incident'[c] = Incident(req[r].frozen)
  BY <1>1 DEF TypeOK, RecordLineage, WriteIncident
<1>3. Incident(req[r].frozen) \in Incidents /\ Incident(req[r].frozen).lineage = req[r].frozen
  BY <1>1, IncidentTyped
<1> QED
  BY <1>1, <1>2, <1>3, NoneDistinct DEF LineageOf

\* Deaths are counted and never forgotten.
LEMMA AbortsCount ==
    ASSUME IInv, [Next]_vars
    PROVE  /\ aborts \in Nat /\ aborts' \in Nat /\ aborts <= aborts'
           /\ (\E r \in Requests : Abort(r)) => aborts' > 0
<1>1. aborts \in Nat
  BY DEF IInv, TypeOK
<1>2. (\E r \in Requests : Abort(r)) => aborts' = aborts + 1
  BY DEF Abort
<1>3. ASSUME NEW r \in Requests, PromoteStep(r) \/ \E c \in Candidates : Start(r, c)
      PROVE  aborts' = aborts
  BY <1>3, PromoteLeaves DEF Start, history
<1>4. (\E w \in Workers : WorkStep(w)) \/ Others \/ UNCHANGED vars => aborts' = aborts
  BY WorkLeaves, OthersLeave DEF vars, history
<1> QED
  BY <1>1, <1>2, <1>3, <1>4, NextSplit

\* Who reads a copy without lineage finds a promote at work, noted, or dead.
LEMMA CopiesStayAccounted ==
    ASSUME IInv, LeftInv, [Next]_vars
    PROVE  CopiesAccounted'
<1> SUFFICES ASSUME NEW w \in Workers
             PROVE  LET q == work'[w]
                    IN /\ q.step \in Reading => vr'[q.candidate] # None
                       /\ q.step \in Writing /\ q.row.lineage = None
                            => q.candidate \in crossed' \/ aborts' > 0
  BY DEF CopiesAccounted
<1>1. TypeOK /\ PromotionAuthorised
  BY DEF IInv
<1>2. work'[w] \in Work
  BY StepTyped DEF TypeOK
<1>3. PICK c \in Candidates : c = work'[w].candidate
  BY <1>2 DEF Work
<1>4. crossed \subseteq crossed' /\ (aborts > 0 => aborts' > 0)
  BY OverlapsGrow, AbortsCount
<1>5. CASE work'[w] = work[w]
  BY <1>3, <1>4, <1>5, RecordsStay DEF LeftInv, CopiesAccounted
<1>6. CASE work'[w].step \notin Reading \cup Writing
  BY <1>6
<1>7. CASE work'[w] # work[w] /\ work'[w].step \in Reading \cup Writing
  <2>1. w \in Holders(c)'
    BY <1>3, <1>7 DEF Holders, Holding, Reading, Writing
  <2>2. /\ UNCHANGED rows
        /\ Writers(c) # {} => c \in crossed'
        /\ \/ work'[w].step \in Reading /\ vr[c] # None
           \/ work'[w].step \in Writing /\ incident[c] # None /\ work'[w].row = incident[c]
    BY <1>7, <2>1, HoldersMove
  <2>3. Reading \cap Writing = {}
    BY DEF Reading, Writing
  <2>4. work'[w].step \in Reading => vr'[c] # None
    BY <2>2, <2>3 DEF rows
  <2>5. ASSUME work'[w].step \in Writing, work'[w].row.lineage = None
        PROVE  c \in crossed' \/ aborts' > 0
    <3>1. incident[c] # None /\ work'[w].row = incident[c]
      BY <2>2, <2>3, <2>5
    <3>2. vr[c] # None /\ LineageOf(c) = None
      BY <1>1, <2>5, <3>1 DEF PromotionAuthorised, LineageOf
    <3>3. Writers(c) # {} \/ c \in crossed \/ aborts > 0
      BY <3>2 DEF LeftInv, NeverLeftBehind
    <3> QED
      BY <1>4, <2>2, <3>3
  <2> QED
    BY <1>3, <2>4, <2>5
<1> QED
  BY <1>5, <1>6, <1>7

\* The last promote to leave a candidate with a record has recorded lineage or
\* died, and only a copy accounted for removes it.
LEMMA NothingLeftNow ==
    ASSUME IInv, LeftInv, [Next]_vars
    PROVE  NeverLeftBehind'
<1> SUFFICES ASSUME NEW c \in Candidates, Writers(c)' = {}, c \notin crossed', ~(aborts' > 0),
                    vr'[c] # None
             PROVE  LineageOf(c)' # None
  BY DEF NeverLeftBehind
<1>1. TypeOK /\ c \notin crossed /\ ~(aborts > 0) /\ ~\E r \in Requests : Abort(r)
  BY OverlapsGrow, AbortsCount DEF IInv
<1>2. vr[c] # None => Writers(c) # {} \/ LineageOf(c) # None
  BY <1>1 DEF LeftInv, NeverLeftBehind
<1>3. ASSUME NEW r \in Writers(c)
      PROVE  LineageOf(c)' # None
  <2>1. RecordLineage(r) /\ r \in Requests /\ c = req[r].candidate
    BY <1>1, WritersStay DEF Writers
  <2> QED
    BY <2>1, LineageRecorded, NoneDistinct
<1>4. CASE Writers(c) = {} /\ UNCHANGED <<vr[c], incident[c]>>
  BY <1>2, <1>4 DEF LineageOf
<1>5. CASE \E r \in Requests : PromoteStep(r)
  <2>1. PICK r \in Requests : PromoteStep(r)
    BY <1>5
  <2>2. CASE req[r].candidate # c
    BY <1>3, <1>4, <2>1, <2>2, PromoteWritesOwn
  <2>3. CASE req[r].candidate = c
    BY <1>3, <1>4, <2>1, <2>3, ReadersKeepRows DEF Writers
  <2> QED
    BY <2>2, <2>3
<1>6. ASSUME NEW w \in Workers, WorkStep(w)
      PROVE  LineageOf(c)' # None
  <2>1. CASE w \notin Holders(c)
    BY <1>3, <1>4, <1>6, <2>1, WorkWritesHeld
  <2>2. CASE w \in Holders(c)
    <3>1. PICK q \in Work : q = work[w]
      BY <1>1 DEF TypeOK
    <3>2. q.candidate = c /\ WorkInv(w)
      BY <2>2, <3>1 DEF Holders, IInv
    <3>3. CASE q.step \in Reading /\ UNCHANGED incident
      <4>1. vr[c] # None
        BY <3>1, <3>2, <3>3 DEF LeftInv, CopiesAccounted
      <4> QED
        BY <1>2, <1>3, <3>3, <4>1 DEF LineageOf
    <3>4. CASE q.step \in Writing /\ incident' = [incident EXCEPT ![c] = q.row]
      <4>1. incident'[c] = q.row /\ q.row \in Incidents
        BY <1>1, <3>1, <3>2, <3>4 DEF TypeOK, WorkInv
      <4>2. q.row.lineage # None
        BY <1>1, <3>1, <3>2, <3>4 DEF LeftInv, CopiesAccounted
      <4> QED
        BY <4>1, <4>2, NoneDistinct DEF LineageOf
    <3>5. CASE UNCHANGED <<vr, incident>>
      BY <1>3, <1>4, <3>5
    <3> QED
      BY <1>6, <3>1, <3>2, <3>3, <3>4, <3>5, WorkRows
  <2> QED
    BY <2>1, <2>2
<1>7. CASE Others \/ UNCHANGED vars \/ \E r \in Requests, d \in Candidates : Start(r, d)
  <2>1. UNCHANGED <<vr, incident>>
    BY <1>7, BeginOrEndLeaves, OthersLeave DEF vars, rows
  <2> QED
    BY <1>3, <1>4, <2>1
<1> QED
  BY <1>1, <1>5, <1>6, <1>7, NextSplit

\* Both hold in every state the system reaches.
THEOREM LeftInvariance == Spec => []LeftInv
<1>1. Init => LeftInv
  BY WorkTyped DEF Init, LeftInv, NeverLeftBehind, CopiesAccounted, Reading, Writing
<1>2. ASSUME IInv, LeftInv, [Next]_vars
      PROVE  LeftInv'
  BY <1>2, CopiesStayAccounted, NothingLeftNow DEF LeftInv
<1> QED
  BY <1>1, <1>2, Invariance, PTL DEF Spec

\* A record without lineage has a promote at work on it, or a promote died, or
\* an older copy was written over what a promote wrote: nothing else, however
\* promotes, reviews, labels, replays and fixes interleave, leaves one half-way.
THEOREM NothingIsLeftBehind == Spec => []NeverLeftBehind
<1>1. LeftInv => NeverLeftBehind
  BY DEF LeftInv
<1> QED
  BY <1>1, LeftInvariance, PTL

--------------------------------------------------------------------------------
(***************************************************************************)
(* A candidate whose writes did not overlap                                *)
(***************************************************************************)

Linked(c, b) == vr[c] # None /\ vr[c].bundle = b /\ vr[c].bridgeKey /\ vr[c].incident # "none"

\* What a request holds to write back changes nothing that matters.
Agrees(c, w) ==
    LET q == work[w]
    IN /\ q.step \in Reading => /\ q.record.bundle = vr[c].bundle
                                /\ q.record.bridgeKey = vr[c].bridgeKey
                                /\ LineageOf(c) # None => q.record.incident # "none"
       /\ q.step \in Writing => q.row.lineage = LineageOf(c)

\* One request at a time writes the candidate's rows; the record, the lineage,
\* what was answered and the copies still to be written back agree.
Serial(c) ==
    /\ \A r, s \in Writers(c) : r = s
    /\ Writers(c) = {} \/ Holders(c) = {}
    /\ LineageOf(c) # None => Linked(c, LineageOf(c))
    /\ \A b \in returned[c] : LineageOf(c) = b
    /\ \A r \in Writers(c) : /\ LineageOf(c) = None
                             /\ At(r, "record_lineage") => Linked(c, req[r].frozen)
    /\ \A w \in Holders(c) : Agrees(c, w)

SerialInv == \A c \in Candidates \ Contended : Serial(c)

\* Without an overlap nobody else joins a writer, and no copy is at hand.
LEMMA StaysAlone ==
    ASSUME IInv, [Next]_vars, NEW c \in Candidates, Serial(c), c \notin Contended'
    PROVE  /\ \A r, s \in Writers(c)' : r = s
           /\ Writers(c)' = {} \/ Holders(c)' = {}
           /\ Writers(c) # {} => Writers(c)' \subseteq Writers(c)
<1>1. c \notin doubled' /\ c \notin crossed'
  BY DEF Contended
<1>2. \A r, s \in Writers(c) : r = s
  BY DEF Serial
<1>3. \A r, s \in Writers(c)' : r = s
  BY <1>1, <1>2, WritersMove
<1>4. ASSUME NEW w \in Workers, w \in Holders(c)'
      PROVE  Writers(c)' = {}
  <2>1. CASE w \in Holders(c)
    BY <1>1, <2>1, WritersMove DEF Serial
  <2>2. CASE UNCHANGED req /\ (Writers(c) # {} => c \in crossed')
    BY <1>1, <2>2 DEF Writers
  <2> QED
    BY <1>4, <2>1, <2>2, HoldersMove
<1>5. Holders(c)' \subseteq Workers
  BY DEF Holders
<1> QED
  BY <1>1, <1>3, <1>4, <1>5, WritersMove

\* While the rows stay as they are, so do the copies of them.
LEMMA CopiesAgree ==
    ASSUME IInv, [Next]_vars, NEW c \in Candidates, Serial(c), UNCHANGED <<vr[c], incident[c]>>,
           NEW w \in Workers, w \in Holders(c)'
    PROVE  Agrees(c, w)'
<1>1. UNCHANGED LineageOf(c)
  BY DEF LineageOf
<1>2. CASE w \in Holders(c) /\ work'[w] = work[w]
  BY <1>1, <1>2 DEF Serial, Agrees
<1>3. CASE \/ work'[w].step \in Reading /\ vr[c] # None /\ work'[w].record = vr[c]
           \/ work'[w].step \in Writing /\ incident[c] # None /\ work'[w].row = incident[c]
  <2>1. Reading \cap Writing = {}
    BY DEF Reading, Writing
  <2>2. LineageOf(c) # None => vr[c].incident # "none"
    BY DEF Serial, Linked
  <2>3. incident[c] # None => LineageOf(c) = incident[c].lineage
    BY DEF LineageOf
  <2> QED
    BY <1>1, <1>3, <2>1, <2>2, <2>3 DEF Agrees
<1> QED
  BY <1>2, <1>3, HoldersMove

\* A step that neither writes the candidate's rows nor moves one of its writers
\* leaves everything in agreement, answers of the recorded lineage included.
LEMMA SerialFrame ==
    ASSUME IInv, [Next]_vars, NEW c \in Candidates, Serial(c), c \notin Contended',
           UNCHANGED <<vr[c], incident[c]>>,
           \A b \in returned'[c] : b \in returned[c] \/ b = LineageOf(c),
           \A r \in Writers(c) : r \in Writers(c)' => req'[r] = req[r]
    PROVE  Serial(c)'
<1>1. UNCHANGED LineageOf(c) /\ \A b : UNCHANGED Linked(c, b)
  BY DEF LineageOf, Linked
<1>2. ASSUME NEW r \in Writers(c)'
      PROVE  LineageOf(c) = None /\ (At(r, "record_lineage")' => Linked(c, req'[r].frozen))
  <2>1. CASE r \in Writers(c)
    <3>1. req'[r] = req[r]
      BY <1>2, <2>1
    <3> QED
      BY <2>1, <3>1 DEF Serial, At
  <2>2. CASE r \notin Writers(c)
    <3>1. FindExisting(r) /\ req[r].candidate = c /\ ~HasBridgeKey(c)
      BY <1>2, <2>2, WritersMove
    <3>2. LineageOf(c) = None
      BY <3>1 DEF Serial, Linked, HasBridgeKey
    <3>3. req' = [req EXCEPT ![r].step = "freeze"] /\ r \in Requests /\ req \in [Requests -> Request]
      BY <1>2, <3>1 DEF FindExisting, Goto, IInv, TypeOK, Writers
    <3>4. ~At(r, "record_lineage")'
      BY <3>3 DEF At, Request
    <3> QED
      BY <3>2, <3>4
  <2> QED
    BY <2>1, <2>2
<1>3. \A w \in Holders(c)' : Agrees(c, w)'
  BY CopiesAgree DEF Holders
<1>4. LineageOf(c)' # None => Linked(c, LineageOf(c))'
  BY <1>1 DEF Serial
<1>5. \A b \in returned'[c] : LineageOf(c)' = b
  BY <1>1 DEF Serial
<1> QED
  BY <1>1, <1>2, <1>3, <1>4, <1>5, StaysAlone DEF Serial

\* The one writer of a candidate keeps its rows in agreement at every call.
LEMMA WriterAgrees ==
    ASSUME IInv, [Next]_vars, NEW c \in Candidates, Serial(c), c \notin Contended',
           NEW r \in Requests, r \in Writers(c), PromoteStep(r)
    PROVE  Serial(c)'
<1>1. /\ TypeOK /\ req \in [Requests -> Request] /\ returned[c] \subseteq Bundles
      /\ req[r].candidate = c /\ req[r].step \in Window
  BY DEF IInv, TypeOK, Writers
<1>2. LineageOf(c) = None /\ returned[c] = {}
  BY <1>1, NoneDistinct DEF Serial
<1>3. /\ Writers(c)' \subseteq {r} /\ \A o, s \in Writers(c)' : o = s
      /\ Holders(c)' = {}
  BY StaysAlone, PromoteLeaves DEF Serial, Holders
<1>4. ASSUME LineageOf(c)' = None, returned'[c] = {},
             (At(r, "record_lineage") => Linked(c, req[r].frozen))'
      PROVE  Serial(c)'
  BY <1>3, <1>4 DEF Serial
<1>5. CASE FreezeBundle(r) \/ CreateRecord(r) \/ SetBridgeKey(r)
  <2>1. LineageOf(c)' = None /\ returned'[c] = {}
    BY <1>2, <1>5 DEF FreezeBundle, CreateRecord, SetBridgeKey, WriteRecord, history, LineageOf
  <2>2. ~At(r, "record_lineage")'
    <3>1. CASE FreezeBundle(r)
      <4>1. PICK b : req' = [req EXCEPT ![r].step = "vr", ![r].frozen = b]
        BY <3>1 DEF FreezeBundle
      <4> QED
        BY <1>1, <4>1 DEF At, Request
    <3>2. CASE CreateRecord(r) \/ SetBridgeKey(r)
      BY <1>1, <3>2 DEF CreateRecord, SetBridgeKey, Goto, At, Request
    <3> QED
      BY <1>5, <3>1, <3>2
  <2> QED
    BY <1>4, <2>1, <2>2
<1>6. CASE CreateIncident(r)
  <2>1. incident'[c] = Incident(None) /\ returned'[c] = {}
    BY <1>1, <1>2, <1>6 DEF TypeOK, CreateIncident, WriteIncident
  <2>2. LineageOf(c)' = None
    BY <2>1, IncidentTyped DEF LineageOf
  <2>3. ~At(r, "record_lineage")'
    BY <1>1, <1>6 DEF CreateIncident, Goto, At, Request
  <2> QED
    BY <1>4, <2>1, <2>2, <2>3
<1>7. CASE LinkIncident(r)
  <2>1. req[r].frozen \in Bundles
    BY <1>7 DEF IInv, RequestInv, LinkIncident, At, Sealed
  <2>2. LineageOf(c)' = None /\ returned'[c] = {}
    BY <1>2, <1>7 DEF LinkIncident, WriteRecord, history, LineageOf
  <2>3. vr'[c] = Record(req[r].frozen, TRUE, "bridge")
    BY <1>1, <1>7 DEF TypeOK, LinkIncident, WriteRecord
  <2>4. Linked(c, req[r].frozen)'
    <3>1. PICK b \in Bundles : b = req[r].frozen
      BY <2>1
    <3>2. req'[r].frozen = b
      BY <1>1, <1>7, <3>1 DEF LinkIncident, Goto, Request
    <3>3. /\ Record(b, TRUE, "bridge") \in Records /\ Record(b, TRUE, "bridge").bundle = b
          /\ Record(b, TRUE, "bridge").bridgeKey /\ Record(b, TRUE, "bridge").incident = "bridge"
      BY RecordTyped DEF IncidentRefs
    <3> QED
      BY <2>3, <3>1, <3>2, <3>3, NoneDistinct DEF Linked
  <2> QED
    BY <1>4, <2>2, <2>4
<1>8. CASE RecordLineage(r)
  <2>1. PICK b \in Bundles : b = req[r].frozen
    BY <1>1, <1>8, LineageRecorded
  <2>2. LineageOf(c)' = b
    BY <1>1, <1>8, <2>1, LineageRecorded
  <2>3. returned'[c] = {b}
    BY <1>1, <1>2, <1>8, <2>1 DEF TypeOK, RecordLineage
  <2>4. Linked(c, b)'
    BY <1>8, <2>1 DEF Serial, RecordLineage, At, WriteIncident, Linked
  <2>5. Writers(c)' = {}
    <3>1. req'[r] = Idle
      BY <1>1, <1>8 DEF RecordLineage, Return
    <3> QED
      BY <1>3, <3>1, IdleTyped DEF Writers, Window
  <2> QED
    BY <1>3, <2>2, <2>3, <2>4, <2>5 DEF Serial
<1> QED
  BY <1>1, <1>5, <1>6, <1>7, <1>8 DEF PromoteStep, CheckPrerequisites, ResolveReview, ResolveDelegation,
     FindExisting, LinkExisting, At, Window

\* A copy that agrees is written back: nothing that matters changes.
LEMMA HolderAgrees ==
    ASSUME IInv, [Next]_vars, NEW c \in Candidates, Serial(c), c \notin Contended',
           NEW w \in Workers, w \in Holders(c), WorkStep(w)
    PROVE  Serial(c)'
<1>1. TypeOK /\ WorkInv(w) /\ work[w].candidate = c /\ work[w].step \in Reading \cup Writing
  BY DEF IInv, Holders, Holding, Reading, Writing
<1>2. Agrees(c, w) /\ Writers(c) = {} /\ Writers(c)' = {}
  BY WorkLeaves DEF Serial, Writers
<1>3. UNCHANGED returned
  BY WorkLeaves
<1>4. CASE UNCHANGED <<vr[c], incident[c]>>
  BY <1>2, <1>3, <1>4, SerialFrame
<1>5. CASE ~UNCHANGED <<vr[c], incident[c]>>
  <2>1. ASSUME NEW o \in Workers, o \in Holders(c)'
        PROVE  Agrees(c, o) /\ work'[o] = work[o]
    BY <1>5, <2>1, HoldersMove DEF Serial, rows
  <2>2. CASE work[w].step \in Reading /\ UNCHANGED incident
    <3>1. PICK row \in Records :
             /\ vr' = [vr EXCEPT ![c] = row]
             /\ row.bundle = work[w].record.bundle
             /\ row.bridgeKey = work[w].record.bridgeKey
             /\ work[w].record.incident # "none" => row.incident # "none"
      <4>1. Reading \cap Writing = {}
        BY DEF Reading, Writing
      <4> QED
        BY <1>1, <1>5, <2>2, <4>1, WorkRows
    <3>2. vr'[c] = row /\ row # None /\ UNCHANGED LineageOf(c)
      BY <1>1, <2>2, <3>1, NoneDistinct DEF TypeOK, LineageOf
    <3>3. row.bundle = vr[c].bundle /\ row.bridgeKey = vr[c].bridgeKey
      BY <1>2, <2>2, <3>1 DEF Agrees
    <3>4. LineageOf(c) # None => Linked(c, LineageOf(c))'
      BY <1>2, <2>2, <3>1, <3>2, <3>3 DEF Serial, Linked, Agrees
    <3>5. \A o \in Holders(c)' : Agrees(c, o)'
      BY <2>1, <3>2, <3>3 DEF Agrees, Holders
    <3> QED
      BY <1>2, <1>3, <3>2, <3>4, <3>5 DEF Serial
  <2>3. CASE work[w].step \in Writing /\ UNCHANGED vr /\ incident' = [incident EXCEPT ![c] = work[w].row]
    <3>1. work[w].row \in Incidents /\ work[w].row.lineage = LineageOf(c)
      BY <1>1, <1>2, <2>3 DEF WorkInv, Agrees
    <3>2. UNCHANGED LineageOf(c)
      BY <1>1, <2>3, <3>1, NoneDistinct DEF TypeOK, LineageOf
    <3>3. \A o \in Holders(c)' : Agrees(c, o)'
      BY <2>1, <2>3, <3>2 DEF Agrees, Holders
    <3> QED
      BY <1>2, <1>3, <2>3, <3>2, <3>3 DEF Serial, Linked
  <2> QED
    BY <1>1, <1>5, <2>2, <2>3, WorkRows
<1> QED
  BY <1>4, <1>5

\* Whoever takes the step, a candidate without overlap stays in agreement.
LEMMA SerialKept ==
    ASSUME IInv, [Next]_vars, NEW c \in Candidates, Serial(c), c \notin Contended'
    PROVE  Serial(c)'
<1>1. TypeOK /\ req \in [Requests -> Request]
  BY DEF IInv, TypeOK
<1>2. CASE \E r \in Requests : PromoteStep(r) /\ r \notin Writers(c)
  <2>1. PICK r \in Requests : PromoteStep(r) /\ r \notin Writers(c)
    BY <1>2
  <2>2. \A o \in Writers(c) : req'[o] = req[o]
    BY <1>1, <2>1, PromoteLeaves DEF Writers
  <2>3. CASE req[r].candidate # c
    BY <2>1, <2>2, <2>3, PromoteWritesOwn, SerialFrame
  <2>4. CASE req[r].candidate = c
    <3>1. req[r].step \notin Window
      BY <2>1, <2>4 DEF Writers
    <3>2. UNCHANGED <<vr, incident>>
      BY <2>1, <3>1, ReadersKeepRows
    <3>3. \A b \in returned'[c] : b \in returned[c] \/ b = LineageOf(c)
      <4>1. CASE LinkExisting(r)
        BY <1>1, <2>4, <4>1 DEF TypeOK, LinkExisting, LineageOf
      <4>2. CASE ~LinkExisting(r)
        BY <2>1, <3>1, <4>2 DEF PromoteStep, CheckPrerequisites, ResolveReview, ResolveDelegation,
           FindExisting, FreezeBundle, CreateRecord, SetBridgeKey, CreateIncident, LinkIncident,
           RecordLineage, At, Window, history
      <4> QED
        BY <4>1, <4>2
    <3> QED
      BY <2>2, <3>2, <3>3, SerialFrame
  <2> QED
    BY <2>3, <2>4
<1>3. CASE \E r \in Requests : PromoteStep(r) /\ r \in Writers(c)
  BY <1>3, WriterAgrees
<1>4. CASE \E r \in Requests : Abort(r) \/ \E d \in Candidates : Start(r, d)
  <2>1. PICK r \in Requests : Abort(r) \/ \E d \in Candidates : Start(r, d)
    BY <1>4
  <2>2. UNCHANGED <<vr, incident, returned>>
    BY <2>1, BeginOrEndLeaves DEF rows
  <2>3. \A o \in Requests : o # r => req'[o] = req[o]
    BY <1>1, <2>1 DEF Abort, Start, Return
  <2>4. r \notin Writers(c) \/ r \notin Writers(c)'
    BY <1>1, <2>1, IdleTyped DEF Abort, Start, Return, Writers, At, Window
  <2> QED
    BY <2>2, <2>3, <2>4, SerialFrame DEF Writers
<1>5. CASE \E w \in Workers : WorkStep(w) /\ w \notin Holders(c)
  BY <1>5, WorkLeaves, WorkWritesHeld, SerialFrame
<1>6. CASE \E w \in Workers : WorkStep(w) /\ w \in Holders(c)
  BY <1>6, HolderAgrees
<1>7. CASE Others \/ UNCHANGED vars
  <2>1. UNCHANGED <<vr, incident, returned, req>>
    BY <1>7, OthersLeave DEF vars, rows, history
  <2> QED
    BY <2>1, SerialFrame
<1> QED
  BY <1>2, <1>3, <1>4, <1>5, <1>6, <1>7, NextSplit

\* It is so of every such candidate in every state the system reaches.
THEOREM SerialInvariance == Spec => []SerialInv
<1>1. Init => SerialInv
  BY IdleTyped, WorkTyped DEF Init, SerialInv, Serial, Writers, Holders, Window, Holding, LineageOf
<1>2. ASSUME IInv, SerialInv, [Next]_vars
      PROVE  SerialInv'
  <2>1. ASSUME NEW c \in Candidates, c \notin Contended'
        PROVE  Serial(c)'
    <3>1. c \notin Contended
      BY <1>2, <2>1, OverlapsGrow DEF Contended
    <3> QED
      BY <1>2, <2>1, <3>1, SerialKept DEF SerialInv
  <2> QED
    BY <2>1 DEF SerialInv
<1> QED
  BY <1>1, <1>2, Invariance, PTL DEF Spec

\* Once a bundle was returned, the record keeps it with its bridge key and an
\* incident, and the bridge's incident its lineage, whatever labels, replays,
\* fixes and further incidents follow, unless writes of the candidate overlapped.
THEOREM PromotionIsDurable == Spec => []PromotionDurable
<1>1. ASSUME IInv, SerialInv
      PROVE  PromotionDurable
  <2>1. ASSUME NEW c \in Candidates \ Contended, NEW b \in returned[c]
        PROVE  LineageOf(c) = b /\ Linked(c, b)
    <3>1. LineageOf(c) = b /\ (LineageOf(c) # None => Linked(c, LineageOf(c)))
      BY <1>1, <2>1 DEF SerialInv, Serial
    <3>2. b \in Bundles
      BY <1>1, <2>1 DEF IInv, TypeOK
    <3> QED
      BY <3>1, <3>2, NoneDistinct
  <2> QED
    BY <2>1 DEF PromotionDurable, Linked
<1> QED
  BY <1>1, Invariance, SerialInvariance, PTL

\* All successful promotions of a candidate, under whatever authority and after
\* whatever deaths, labels, replays and fixes, return one bundle, unless writes
\* of the candidate overlapped.
THEOREM PromoteIsIdempotent == Spec => []PromoteIdempotent
<1>1. SerialInv => PromoteIdempotent
  BY DEF SerialInv, Serial, PromoteIdempotent
<1> QED
  BY <1>1, SerialInvariance, PTL

--------------------------------------------------------------------------------
(***************************************************************************)
(* The bridge implements Promotion                                         *)
(***************************************************************************)

\* A step changes the lineage of one candidate at most, to a stored bundle or,
\* through an older copy, to none, and then grants nothing and notes nothing;
\* without an overlap it only ever records the first.
LEMMA LineageMoves ==
    ASSUME IInv, SerialInv, [Next]_vars
    PROVE  \/ \A c \in Candidates : UNCHANGED LineageOf(c)
           \/ /\ UNCHANGED <<reviews, delegation, overlaps>>
              /\ \E c \in Candidates :
                    /\ \A d \in Candidates : d # c => UNCHANGED LineageOf(d)
                    /\ \/ LineageOf(c)' = None
                       \/ LineageOf(c)' \in Bundles /\ Frozen(c, LineageOf(c)')
                    /\ c \in Contended \/ (LineageOf(c) = None /\ LineageOf(c)' # None)
<1>1. TypeOK
  BY DEF IInv
<1>2. CASE UNCHANGED incident
  BY <1>2 DEF LineageOf
<1>3. ASSUME NEW r \in Requests, NEW c \in Candidates, c = req[r].candidate,
             CreateIncident(r) \/ RecordLineage(r)
      PROVE  /\ UNCHANGED <<reviews, delegation, overlaps>>
             /\ \A d \in Candidates : d # c => UNCHANGED LineageOf(d)
             /\ c \in Contended \/ LineageOf(c) = None
  <2>1. PromoteStep(r) /\ r \in Writers(c)
    BY <1>3 DEF PromoteStep, Writers, CreateIncident, RecordLineage, At, Window
  <2>2. \A d \in Candidates : d # c => UNCHANGED LineageOf(d)
    BY <1>3, <2>1, PromoteWritesOwn DEF LineageOf
  <2> QED
    BY <1>3, <2>1, <2>2 DEF SerialInv, Serial, CreateIncident, RecordLineage, WriteIncident
<1>4. ASSUME NEW r \in Requests, CreateIncident(r), NEW c \in Candidates, c = req[r].candidate
      PROVE  LineageOf(c)' = None
  BY <1>1, <1>4, IncidentTyped DEF TypeOK, CreateIncident, WriteIncident, LineageOf
<1>5. ASSUME NEW r \in Requests, RecordLineage(r), NEW c \in Candidates, c = req[r].candidate
      PROVE  LineageOf(c)' \in Bundles /\ Frozen(c, LineageOf(c)')
  <2>1. Frozen(c, req[r].frozen)
    BY <1>5 DEF IInv, RequestInv, RecordLineage, At, Sealed
  <2>2. LineageOf(c)' = req[r].frozen /\ req[r].frozen \in Bundles
    BY <1>5, LineageRecorded
  <2> QED
    BY <2>1, <2>2
<1>6. ASSUME NEW w \in Workers, NEW c \in Candidates, c = work[w].candidate, WriteBack(w),
             WorkStep(w), work[w].step \in Writing, incident' = [incident EXCEPT ![c] = work[w].row]
      PROVE  /\ UNCHANGED <<reviews, delegation, overlaps>>
             /\ \A d \in Candidates : d # c => UNCHANGED LineageOf(d)
             /\ LineageOf(c)' = None \/ (LineageOf(c)' \in Bundles /\ Frozen(c, LineageOf(c)'))
             /\ c \in Contended \/ UNCHANGED LineageOf(c)
  <2>1. UNCHANGED <<reviews, delegation, overlaps>>
    BY <1>6 DEF WriteBack, WriteIncident
  <2>2. \A d \in Candidates : d # c => UNCHANGED LineageOf(d)
    BY <1>1, <1>6 DEF TypeOK, LineageOf
  <2>3. PICK row \in Incidents : row = work[w].row /\ (row.lineage # None => Frozen(c, row.lineage))
    BY <1>6 DEF IInv, WorkInv
  <2>4. LineageOf(c)' = row.lineage /\ row.lineage \in Bundles \cup {None}
    BY <1>1, <1>6, <2>3, IncidentFields, NoneDistinct DEF TypeOK, LineageOf
  <2>5. w \in Holders(c)
    BY <1>6 DEF Holders, Holding, Writing
  <2>6. c \in Contended \/ row.lineage = LineageOf(c)
    BY <1>6, <2>3, <2>5 DEF SerialInv, Serial, Agrees
  <2> QED
    BY <2>1, <2>2, <2>3, <2>4, <2>6
<1>7. CASE \E r \in Requests : PromoteStep(r)
  <2>1. PICK r \in Requests : PromoteStep(r)
    BY <1>7
  <2>2. PICK c \in Candidates : c = req[r].candidate
    BY <1>1 DEF TypeOK, Request
  <2>3. CASE CreateIncident(r)
    <3>1. /\ LineageOf(c)' = None /\ UNCHANGED <<reviews, delegation, overlaps>>
          /\ \A d \in Candidates : d # c => UNCHANGED LineageOf(d)
          /\ c \in Contended \/ LineageOf(c) = None
      BY <1>3, <1>4, <2>2, <2>3
    <3>2. CASE LineageOf(c) = None
      <4>1. ASSUME NEW d \in Candidates
            PROVE  UNCHANGED LineageOf(d)
        BY <3>1, <3>2
      <4> QED
        BY <4>1
    <3>3. CASE LineageOf(c) # None
      BY <3>1, <3>3
    <3> QED
      BY <3>2, <3>3
  <2>4. CASE RecordLineage(r)
    BY <1>3, <1>5, <2>2, <2>4, NoneDistinct
  <2>5. CASE ~CreateIncident(r) /\ ~RecordLineage(r)
    <3>1. UNCHANGED incident
      BY <2>1, <2>5 DEF PromoteStep, CheckPrerequisites, ResolveReview, ResolveDelegation, FindExisting,
         LinkExisting, FreezeBundle, CreateRecord, SetBridgeKey, LinkIncident, WriteRecord, rows
    <3> QED
      BY <1>2, <3>1
  <2> QED
    BY <2>3, <2>4, <2>5
<1>8. CASE \E w \in Workers : WorkStep(w)
  <2>1. PICK w \in Workers : WorkStep(w)
    BY <1>8
  <2>2. PICK c \in Candidates : c = work[w].candidate
    BY <1>1 DEF TypeOK, Work
  <2>3. CASE /\ WriteBack(w) /\ work[w].step \in Writing
             /\ incident' = [incident EXCEPT ![c] = work[w].row]
    <3>1. /\ UNCHANGED <<reviews, delegation, overlaps>>
          /\ \A d \in Candidates : d # c => UNCHANGED LineageOf(d)
          /\ LineageOf(c)' = None \/ (LineageOf(c)' \in Bundles /\ Frozen(c, LineageOf(c)'))
          /\ c \in Contended \/ UNCHANGED LineageOf(c)
      BY <1>6, <2>1, <2>2, <2>3
    <3>2. CASE c \in Contended
      BY <3>1, <3>2
    <3>3. CASE UNCHANGED LineageOf(c)
      <4>1. ASSUME NEW d \in Candidates
            PROVE  UNCHANGED LineageOf(d)
        BY <3>1, <3>3
      <4> QED
        BY <4>1
    <3> QED
      BY <3>1, <3>2, <3>3
  <2>4. CASE UNCHANGED incident
    BY <1>2, <2>4
  <2> QED
    BY <2>1, <2>2, <2>3, <2>4, WorkRows
<1>9. (\E r \in Requests : Abort(r) \/ \E c \in Candidates : Start(r, c)) \/ Others \/ UNCHANGED vars
        => UNCHANGED incident
  BY BeginOrEndLeaves, OthersLeave DEF vars, rows
<1> QED
  BY <1>2, <1>7, <1>8, <1>9, NextSplit

\* Recorded lineage is neither removed nor replaced, whoever writes back what,
\* unless writes of the candidate overlapped.
THEOREM LineageIsAppendOnly == Spec => LineageStays
<1>1. ASSUME IInv, SerialInv, [Next]_vars
      PROVE  [\A c \in Candidates \ Contended : LineageOf(c) # None => LineageOf(c)' = LineageOf(c)]_vars
  BY <1>1, LineageMoves
<1> QED
  BY <1>1, Invariance, SerialInvariance, PTL DEF Spec, LineageStays

\* The authorities given so far, as ImplementsPromotion maps them.
Granted == UNION {
    {<<c, ReviewAuthority(i)>> : i \in {j \in DOMAIN reviews[c] :
                                           reviews[c][j].decision = "approve_incident"}}
      \cup {<<c, DelegationAuthority(d)>> : d \in {e \in Delegations : Earned(c, DelegationAuthority(e))}}
    : c \in Candidates}

Lineages == [c \in Candidates |-> LineageOf(c)]

\* What is granted is exactly what was earned.
LEMMA GrantedIsEarned ==
    ASSUME TypeOK
    PROVE  /\ Granted \subseteq Candidates \X Authorities
           /\ \A c \in Candidates, a \in Authorities : <<c, a>> \in Granted <=> Earned(c, a)
<1>1. ASSUME NEW c \in Candidates, NEW i \in DOMAIN reviews[c],
             reviews[c][i].decision = "approve_incident"
      PROVE  ReviewAuthority(i) \in Authorities /\ Earned(c, ReviewAuthority(i))
  <2>1. i \in Nat
    BY LenProperties DEF TypeOK
  <2> QED
    BY <1>1, <2>1 DEF ReviewAuthority, Authorities, Earned
<1>2. ASSUME NEW d \in Delegations
      PROVE  DelegationAuthority(d) \in Authorities
  BY DEF DelegationAuthority, Authorities
<1>3. ASSUME NEW c \in Candidates, NEW a \in Authorities, Earned(c, a)
      PROVE  <<c, a>> \in Granted
  <2>1. CASE a.kind = "review"
    <3>1. a = ReviewAuthority(a.review) /\ a.review \in DOMAIN reviews[c]
            /\ reviews[c][a.review].decision = "approve_incident"
      BY <1>3, <2>1 DEF Authorities, ReviewAuthority, Earned
    <3> QED
      BY <3>1 DEF Granted
  <2>2. CASE a.kind = "delegation"
    <3>1. a = DelegationAuthority(a.delegation) /\ a.delegation \in Delegations
      BY <2>2 DEF Authorities, DelegationAuthority
    <3> QED
      BY <1>3, <3>1 DEF Granted
  <2> QED
    BY <2>1, <2>2 DEF Authorities
<1>4. ASSUME NEW x \in Granted
      PROVE  \E c \in Candidates, a \in Authorities : x = <<c, a>> /\ Earned(c, a)
  BY <1>1, <1>2 DEF Granted
<1> QED
  BY <1>3, <1>4

\* Authority, once given, is on record for good.
LEMMA GrantedGrows ==
    ASSUME IInv, [Next]_vars
    PROVE  Granted \subseteq Granted'
<1>1. ASSUME NEW c \in Candidates, NEW i \in DOMAIN reviews[c],
             reviews[c][i].decision = "approve_incident"
      PROVE  <<c, ReviewAuthority(i)>> \in Granted'
  BY <1>1, HistoryGrows DEF Granted, Same
<1>2. ASSUME NEW c \in Candidates, NEW d \in Delegations, Earned(c, DelegationAuthority(d))
      PROVE  <<c, DelegationAuthority(d)>> \in Granted'
  <2>1. Earned(c, DelegationAuthority(d))'
    BY <1>2, HistoryGrows DEF Earned, DelegationAuthority
  <2> QED
    BY <2>1 DEF Granted
<1> QED
  BY <1>1, <1>2 DEF Granted

\* An empty store has granted nothing, promoted nobody and noted no overlap.
LEMMA AbstractInit == Init => Abstract!Init
<1> SUFFICES ASSUME Init PROVE Abstract!Init
  OBVIOUS
<1>1. Granted = {}
  BY DEF Init, Granted, Earned, DelegationAuthority
<1>2. Lineages = [c \in Candidates |-> None] /\ Contended = {}
  BY DEF Init, Lineages, LineageOf, Contended
<1> QED
  BY <1>1, <1>2 DEF Abstract!Init, Granted, Lineages

\* Recording lineage is the promotion, and an older copy of a disturbed candidate
\* at most loses it or promotes again; every other step grants or disturbs.
LEMMA AbstractNext ==
    ASSUME IInv, SerialInv, [Next]_vars
    PROVE  Abstract!Next
<1>1. Granted \subseteq Granted' /\ Contended \subseteq Contended'
  BY GrantedGrows, OverlapsGrow DEF Contended
<1>2. UNCHANGED <<reviews, delegation>> => UNCHANGED Granted
  BY DEF Granted, Earned
<1>3. UNCHANGED overlaps => UNCHANGED Contended
  BY DEF overlaps, Contended
<1>4. CASE \A c \in Candidates : UNCHANGED LineageOf(c)
  <2>1. UNCHANGED Lineages
    BY <1>4 DEF Lineages
  <2>2. CASE UNCHANGED overlaps
    <3>1. Abstract!Grant
      BY <1>1, <1>3, <2>1, <2>2 DEF Abstract!Grant, Granted, Lineages
    <3> QED
      BY <3>1 DEF Abstract!Next
  <2>3. CASE UNCHANGED rows
    <3>1. UNCHANGED Granted
      BY <1>2, <2>3 DEF rows
    <3>2. Abstract!Disturb
      BY <1>1, <2>1, <3>1 DEF Abstract!Disturb, Granted, Lineages
    <3> QED
      BY <3>2 DEF Abstract!Next
  <2> QED
    BY <2>2, <2>3, OverlapsGrow
<1>5. ASSUME UNCHANGED <<reviews, delegation, overlaps>>, NEW c \in Candidates,
             \A d \in Candidates : d # c => UNCHANGED LineageOf(d),
             \/ LineageOf(c)' = None
             \/ LineageOf(c)' \in Bundles /\ Frozen(c, LineageOf(c)'),
             c \in Contended \/ (LineageOf(c) = None /\ LineageOf(c)' # None)
      PROVE  Abstract!Next
  <2>1. UNCHANGED Granted /\ UNCHANGED Contended
    BY <1>2, <1>3, <1>5
  <2>2. /\ Lineages' = [Lineages EXCEPT ![c] = LineageOf(c)']
        /\ Lineages[c] = LineageOf(c) /\ Lineages'[c] = LineageOf(c)'
    BY <1>5 DEF Lineages
  <2>3. CASE LineageOf(c)' = None
    <3>1. Abstract!Lose(c)
      BY <1>5, <2>1, <2>2, <2>3 DEF Abstract!Lose, Granted, Lineages
    <3> QED
      BY <3>1 DEF Abstract!Next
  <2>4. CASE LineageOf(c)' \in Bundles /\ Frozen(c, LineageOf(c)')
    <3>1. PICK b \in Bundles : b = LineageOf(c)' /\ Frozen(c, b)
      BY <2>4
    <3>2. b # None /\ b.candidate = c /\ b.authority \in Authorities /\ Earned(c, b.authority)
      BY <3>1, NoneDistinct DEF Frozen, Bundles
    <3>3. <<c, b.authority>> \in Granted
      BY <3>2, GrantedIsEarned DEF IInv
    <3>4. Lineages'[c] = b /\ Lineages' = [Lineages EXCEPT ![c] = Lineages'[c]]
      BY <2>2, <3>1
    <3>5. Lineages[c] = None \/ c \in Contended
      BY <1>5, <2>2
    <3>6. Abstract!Promote(c)
      BY <2>1, <3>2, <3>3, <3>4, <3>5 DEF Abstract!Promote, Granted, Lineages
    <3> QED
      BY <3>6 DEF Abstract!Next
  <2> QED
    BY <1>5, <2>3, <2>4
<1> QED
  BY <1>4, <1>5, LineageMoves

\* The bridge keeps the promise Promotion states: each of its steps maps to a
\* promotion, a grant, an overlap noted, or what follows from one.
THEOREM Refinement == Spec => ImplementsPromotion
<1>1. IInv /\ SerialInv /\ [Next]_vars => Abstract!Next
  BY AbstractNext
<1> QED
  BY <1>1, AbstractInit, SerialInvariance, Invariance, PTL
  DEF Spec, ImplementsPromotion, Abstract!Spec
================================================================================

--------------------------- MODULE EvidenceContext ---------------------------
(***************************************************************************)
(* Decision evidence records: the identity a record is given, and the      *)
(* context bindings that applied at the time of the decision.              *)
(*                                                                         *)
(* A build is a sequence of steps: it resolves the identity, creates the   *)
(* record, selects the candidate bindings, judges them, writes a row for   *)
(* each conflict, then the trace, then the record once more.  The reads of *)
(* one resolution are one step.  decidedAt, considered, known and over in  *)
(* the rows are history: they take no part in any decision.                *)
(***************************************************************************)
EXTENDS Integers, FiniteSets, SequencesExt

CONSTANTS
    ResourceNames,
    LinkPosts,      \* link assertions clients post: [id, ends, relationship, status]
    BindingPosts,   \* context bindings clients post; a posted id is an upsert
    Namespaces,     \* Namespaces[r]: identities the namespace mappings turn r into
    BuildPosts,     \* [resources: the ids of a build, decidedAt: its decision time]
    DepArtifacts,   \* artifact references that name a payload of the ingress
    Builders,       \* slots for requests in flight
    MaxRecords,     \* bound: decision evidence records
    MaxBindings,    \* bound: binding rows posted
    MaxCrashes,     \* bound: requests that die
    Unset           \* an empty string in a row

(* the row of a link, without what only names or dates it *)
LinkAssertion == [ends : (SUBSET ResourceNames) \ {{}},
                  relationship : {p.relationship : p \in LinkPosts},
                  status : {"inferred", "confirmed", "rejected"}]

AUTHORITY_RANK == [customer_confirmed |-> 4, provider_declared |-> 3,
                   dep_relationship |-> 2, inferred |-> 1, other |-> 0]

ASSUME ContextAssumption ==
    /\ \A p \in LinkPosts :
         /\ \E source, target \in ResourceNames : p.ends = {source, target}
         /\ p.status \in {"inferred", "confirmed", "rejected"}
    /\ \A cb \in BindingPosts : cb.authority \in DOMAIN AUTHORITY_RANK
    /\ Unset \notin LinkAssertion
    /\ \A p \in BuildPosts : p.resources \in Seq(ResourceNames) \ {<<>>}
    /\ \A r \in ResourceNames : Namespaces[r] \subseteq ResourceNames
    /\ MaxRecords \in Nat /\ MaxBindings \in Nat /\ MaxCrashes \in Nat

VARIABLES
    links,          \* link id -> its row
    bindings,       \* ContextBinding rows by creation
    posted,         \* binding posts so far
    stored,         \* payloads of DepArtifacts
    records,        \* DecisionEvidenceRecord rows
    traces,         \* ResolutionTrace rows
    contextConflicts,
    building,       \* slot -> the request it runs
    crashes

contextVars == <<links, bindings, posted, stored, records, traces, contextConflicts,
                 building, crashes>>

LinkIds == {p.id : p \in LinkPosts}
Composite(resources) == {resources[i] : i \in DOMAIN resources}

-----------------------------------------------------------------------------
(* DecisionIdentityResolver: the first rule that gives an identity.         *)

Known(identity) == \E k \in DOMAIN records : records[k].identity = identity

ConfirmedLinks(r, relationships) ==
    {l \in LinkIds : /\ links[l] # Unset
                     /\ r \in links[l].ends
                     /\ links[l].status = "confirmed"
                     /\ links[l].relationship \in relationships}
OtherEnd(l, r) == IF links[l].ends = {r} THEN r ELSE CHOOSE q \in links[l].ends : q # r

SameDecision == {"exact_match", "same_decision"}
Relationships == SameDecision \cup {"governed_by_policy"}

(* what each rule may answer for one resource id; links are in no order *)
_try_exact_id(r) == {identity \in {{r}} : Known(identity)}
_try_dep_relationship(r) == {{OtherEnd(l, r)} : l \in ConfirmedLinks(r, SameDecision)}
_try_namespace(r) == {identity \in {{n} : n \in Namespaces[r]} : Known(identity)}
_try_composite_key(resources) == {identity \in {Composite(resources)} : Known(identity)}
_try_confirmed_link_assertion(r) == {{OtherEnd(l, r)} : l \in ConfirmedLinks(r, Relationships)}

(* the first resource id a rule answers for, or no answer *)
FirstAnswer(rule(_), resources) ==
    LET answering == {i \in DOMAIN resources : rule(resources[i]) # {}}
    IN  IF answering = {} THEN {}
        ELSE rule(resources[CHOOSE i \in answering : \A j \in answering : i <= j])

\* Mutant: a link is followed before the identifier is looked for.
ResolveByLinksFirst(resources) ==
    LET answers == <<
          [method |-> "dep_relationship", found |-> FirstAnswer(_try_dep_relationship, resources)],
          [method |-> "exact_id", found |-> FirstAnswer(_try_exact_id, resources)],
          [method |-> "inferred", found |-> {{resources[1]}}] >>
    IN  answers[CHOOSE i \in DOMAIN answers :
                  answers[i].found # {} /\ \A j \in DOMAIN answers : answers[j].found # {} => i <= j]

resolve_identity(resources) ==
    LET answers == <<
          [method |-> "exact_id", found |-> FirstAnswer(_try_exact_id, resources)],
          [method |-> "dep_relationship", found |-> FirstAnswer(_try_dep_relationship, resources)],
          [method |-> "namespace", found |-> FirstAnswer(_try_namespace, resources)],
          [method |-> "composite_key", found |-> _try_composite_key(resources)],
          [method |-> "link_assertion",
           found |-> FirstAnswer(_try_confirmed_link_assertion, resources)],
          [method |-> "inferred", found |-> {{resources[1]}}] >>
    IN  answers[CHOOSE i \in DOMAIN answers :
                  answers[i].found # {} /\ \A j \in DOMAIN answers : answers[j].found # {} => i <= j]

-----------------------------------------------------------------------------
(* TemporalContextResolver: a time is a point with or without a zone, and   *)
(* comparing the two kinds raises.                                          *)

Rank(cb) == AUTHORITY_RANK[cb.authority]
GroupKey(cb) == <<cb.scope, cb.type>>

get_context_binding(id) ==
    LET at == {i \in DOMAIN bindings : bindings[i].id = id}
    IN  IF at = {} THEN Unset ELSE bindings[CHOOSE i \in at : TRUE]

(* A list here is a function on positions; what is left of a filtered list  *)
(* keeps its positions.  Exact scope and empty selector, in no order; else  *)
(* by creation, the bindings of the scope and those without one, whatever   *)
(* their selector.                                                          *)
Candidates(identity) ==
    LET exact == {cb \in Range(bindings) : cb.scope = identity /\ cb.selector = Unset}
    IN  IF exact # {} THEN SetToSeqs(exact)
        ELSE {Restrict(bindings, {i \in DOMAIN bindings : bindings[i].scope \in {identity, Unset}})}

NotYet(cb, t) == cb.effective_from # Unset /\ t.at < cb.effective_from.at
Over(cb, t) == cb.effective_until # Unset /\ t.at >= cb.effective_until.at

Superseder(cb) == IF cb.superseded_by = Unset THEN Unset ELSE get_context_binding(cb.superseded_by)
SupersederStarts(cb) ==
    IF Superseder(cb) = Unset THEN Unset ELSE Superseder(cb).effective_from
Superseded(cb, t) == SupersederStarts(cb) # Unset /\ t.at >= SupersederStarts(cb).at

_artifact_available(artifact) == artifact \notin DepArtifacts \/ artifact \in stored

Verdict(cb, t) ==
    IF NotYet(cb, t) \/ Over(cb, t) THEN "excluded"
    ELSE IF Superseded(cb, t) THEN "superseded"
    ELSE IF cb.type = "redacted" THEN "redacted"
    ELSE IF ~ _artifact_available(cb.artifact) THEN "missing"
    ELSE "included"

(* the comparisons made for a binding, up to the one that decides *)
Raises(cb, t) ==
    LET Mixed(u) == u # Unset /\ u.zoned # t.zoned
    IN  \/ Mixed(cb.effective_from)
        \/ ~ NotYet(cb, t) /\ Mixed(cb.effective_until)
        \/ ~ NotYet(cb, t) /\ ~ Over(cb, t) /\ Mixed(SupersederStarts(cb))

Judged(candidates, t, verdicts) ==
    {cb.id : cb \in {c \in Range(candidates) : Verdict(c, t) \in verdicts}}

(* a superseded binding contributes its superseder, unjudged *)
Included(candidates, t) ==
    LET Gives(verdict) == {i \in DOMAIN candidates : Verdict(candidates[i], t) = verdict}
    IN  [i \in Gives("superseded") \cup Gives("included") |->
            IF i \in Gives("superseded") THEN Superseder(candidates[i]) ELSE candidates[i]]

(* the positions of the bindings of a key with the highest rank *)
Ties(included, key) ==
    LET group == {i \in DOMAIN included : GroupKey(included[i]) = key}
    IN  {i \in group : \A j \in group : Rank(included[j]) <= Rank(included[i])}

Keys(included) == {GroupKey(cb) : cb \in Range(included)}
Top(included, key) == included[Min(Ties(included, key))]
Second(included, key) == included[Min(Ties(included, key) \ {Min(Ties(included, key))})]

Disputed(included, key) ==
    /\ Cardinality(Ties(included, key)) > 1
    /\ Top(included, key).authority # "customer_confirmed"

Conflicts(included, der) ==
    {[der |-> der, key |-> key, a |-> Top(included, key).id, b |-> Second(included, key).id,
      resolution |-> Unset] : key \in {k \in Keys(included) : Disputed(included, k)}}

\* Mutant: leaves out what the customer confirmed twice.
IncludedIfAlone(included) ==
    {Top(included, key).id : key \in {k \in Keys(included) : Cardinality(Ties(included, k)) = 1}}

FinalIncluded(included) ==
    {Top(included, key).id : key \in {k \in Keys(included) : ~ Disputed(included, k)}}

(* the ends of the confirmed links that lead from the resources to identity *)
LinksOver(resources, identity) ==
    {links[l].ends : l \in
       {m \in LinkIds : \E i \in DOMAIN resources :
          m \in ConfirmedLinks(resources[i], Relationships)
          /\ {OtherEnd(m, resources[i])} = identity}}

Free == [pc |-> "free"]

ContextInit ==
    /\ links = [l \in LinkIds |-> Unset]
    /\ bindings = <<>>
    /\ posted = 0
    /\ stored = {}
    /\ records = <<>>
    /\ traces = <<>>
    /\ contextConflicts = {}
    /\ building = [w \in Builders |-> Free]
    /\ crashes = 0

-----------------------------------------------------------------------------
(* Links and bindings. *)

(* the client names the row: a posted id is an upsert, ends and all *)
CreateLinkAssertion(p) ==
    /\ links' = [links EXCEPT ![p.id] =
         [ends |-> p.ends, relationship |-> p.relationship, status |-> p.status]]
    /\ UNCHANGED <<bindings, posted, stored, records, traces, contextConflicts, building, crashes>>

(* confirm_link and reject_link: whatever the status was *)
ReadLink(w, l, status) ==
    /\ building[w] = Free
    /\ links[l] # Unset
    /\ building' = [building EXCEPT ![w] =
         [pc |-> "link", link |-> l, row |-> [links[l] EXCEPT !.status = status]]]
    /\ UNCHANGED <<links, bindings, posted, stored, records, traces, contextConflicts, crashes>>

SaveLink(w) ==
    /\ building[w].pc = "link"
    /\ links' = [links EXCEPT ![building[w].link] = building[w].row]
    /\ building' = [building EXCEPT ![w] = Free]
    /\ UNCHANGED <<bindings, posted, stored, records, traces, contextConflicts, crashes>>

CreateContextBinding(cb) ==
    /\ posted < MaxBindings
    /\ posted' = posted + 1
    /\ bindings' = IF get_context_binding(cb.id) = Unset THEN Append(bindings, cb)
                   ELSE [i \in DOMAIN bindings |->
                           IF bindings[i].id = cb.id THEN cb ELSE bindings[i]]
    /\ UNCHANGED <<links, stored, records, traces, contextConflicts, building, crashes>>

(* the ingress stores a payload that a binding refers to *)
StorePayload(artifact) ==
    /\ artifact \notin stored
    /\ stored' = stored \cup {artifact}
    /\ UNCHANGED <<links, bindings, posted, records, traces, contextConflicts, building, crashes>>

(* resolve_conflict overwrites an earlier resolution *)
ResolveConflict(c, resolution) ==
    /\ c.resolution # resolution
    /\ contextConflicts' = (contextConflicts \ {c}) \cup {[c EXCEPT !.resolution = resolution]}
    /\ UNCHANGED <<links, bindings, posted, stored, records, traces, building, crashes>>

-----------------------------------------------------------------------------
(* Building a record. *)

(* known: how many records there were; over: the links that gave the identity *)
Identify(w, p) ==
    /\ building[w] = Free
    /\ LET answer == resolve_identity(p.resources)
       IN  \E identity \in answer.found :
             building' = [building EXCEPT ![w] =
               [pc |-> "create", decidedAt |-> p.decidedAt,
                der |-> [resources |-> p.resources, identity |-> identity,
                         method |-> answer.method, trace |-> 0, bindings |-> {},
                         known |-> Len(records),
                         over |-> IF answer.method \in {"dep_relationship", "link_assertion"}
                                  THEN LinksOver(p.resources, identity) ELSE {}]]]
    /\ UNCHANGED <<links, bindings, posted, stored, records, traces, contextConflicts, crashes>>

CreateRecord(w) ==
    /\ building[w].pc = "create"
    /\ Len(records) < MaxRecords
    /\ records' = Append(records, building[w].der)
    /\ building' = [building EXCEPT ![w] =
         [pc |-> "select", at |-> Len(records) + 1, decidedAt |-> building[w].decidedAt]]
    /\ UNCHANGED <<links, bindings, posted, stored, traces, contextConflicts, crashes>>

Select(w) ==
    /\ building[w].pc = "select"
    /\ \E candidates \in Candidates(records[building[w].at].identity) :
         building' = [building EXCEPT ![w] =
           [pc |-> "judge", at |-> building[w].at, decidedAt |-> building[w].decidedAt,
            candidates |-> candidates]]
    /\ UNCHANGED <<links, bindings, posted, stored, records, traces, contextConflicts, crashes>>

(* a comparison of two kinds of time ends the request: the record stays *)
Judge(w) ==
    /\ building[w].pc = "judge"
    /\ LET candidates == building[w].candidates
           t == building[w].decidedAt
           included == Included(candidates, t)
           der == building[w].at
       IN  building' = [building EXCEPT ![w] =
             IF \E cb \in Range(candidates) : Raises(cb, t) THEN Free ELSE
             [pc |-> "write", at |-> der, pending |-> Conflicts(included, der),
              trace |-> [der |-> der,
                         included |-> FinalIncluded(included),
                         excluded |-> Judged(candidates, t, {"excluded", "redacted", "missing"}),
                         superseded |-> Judged(candidates, t, {"superseded"}),
                         missing |-> Judged(candidates, t, {"missing"}),
                         redacted |-> Judged(candidates, t, {"redacted"}),
                         conflicted |-> {},
                         considered |-> included, decidedAt |-> t]]]
    /\ UNCHANGED <<links, bindings, posted, stored, records, traces, contextConflicts, crashes>>

CreateContextConflict(w) ==
    /\ building[w].pc = "write"
    /\ \E c \in building[w].pending :
         /\ contextConflicts' = contextConflicts \cup {c}
         /\ building' = [building EXCEPT ![w].pending = @ \ {c}]
    /\ UNCHANGED <<links, bindings, posted, stored, records, traces, crashes>>

CreateTrace(w) ==
    /\ building[w].pc = "write"
    /\ building[w].pending = {}
    /\ traces' = Append(traces, building[w].trace)
    /\ building' = [building EXCEPT ![w] =
         [pc |-> "record", at |-> building[w].at, trace |-> Len(traces) + 1]]
    /\ UNCHANGED <<links, bindings, posted, stored, records, contextConflicts, crashes>>

_update_der_bindings(w) ==
    /\ building[w].pc = "record"
    /\ records' = [records EXCEPT ![building[w].at].trace = building[w].trace,
                                  ![building[w].at].bindings = traces[building[w].trace].included]
    /\ building' = [building EXCEPT ![w] = Free]
    /\ UNCHANGED <<links, bindings, posted, stored, traces, contextConflicts, crashes>>

Crash(w) ==
    /\ crashes < MaxCrashes
    /\ building[w] # Free
    /\ building' = [building EXCEPT ![w] = Free]
    /\ crashes' = crashes + 1
    /\ UNCHANGED <<links, bindings, posted, stored, records, traces, contextConflicts>>

ContextNext ==
    \/ \E p \in LinkPosts : CreateLinkAssertion(p)
    \/ \E cb \in BindingPosts : CreateContextBinding(cb)
    \/ \E artifact \in DepArtifacts : StorePayload(artifact)
    \/ \E c \in contextConflicts, resolution \in {"resolved_use_a", "resolved_use_b"} :
         ResolveConflict(c, resolution)
    \/ \E w \in Builders :
         \/ \E l \in LinkIds, status \in {"confirmed", "rejected"} : ReadLink(w, l, status)
         \/ SaveLink(w)
         \/ \E p \in BuildPosts : Identify(w, p)
         \/ CreateRecord(w)
         \/ Select(w)
         \/ Judge(w)
         \/ CreateContextConflict(w)
         \/ CreateTrace(w)
         \/ _update_der_bindings(w)
         \/ Crash(w)

ContextSpec == ContextInit /\ [][ContextNext]_contextVars

-----------------------------------------------------------------------------
Authorities == DOMAIN AUTHORITY_RANK
Identities == (SUBSET ResourceNames) \ {{}}
Methods == {"exact_id", "dep_relationship", "namespace", "composite_key", "link_assertion", "inferred"}

(* The rows, without what only names or dates them. *)
BindingIds == {cb.id : cb \in BindingPosts}
ContextConflict == [der : DOMAIN records, key : {GroupKey(cb) : cb \in BindingPosts},
                    a : BindingIds, b : BindingIds,
                    resolution : {Unset, "resolved_use_a", "resolved_use_b"}]
ResolutionTrace == [der : DOMAIN records, included : SUBSET BindingIds,
                    excluded : SUBSET BindingIds, superseded : SUBSET BindingIds,
                    missing : SUBSET BindingIds, redacted : SUBSET BindingIds,
                    conflicted : {{}},
                    considered : UNION {[at -> BindingPosts] : at \in SUBSET (1..MaxBindings)},
                    decidedAt : {p.decidedAt : p \in BuildPosts}]
DecisionEvidenceRecord == [resources : Seq(ResourceNames), identity : Identities,
                           method : Methods, trace : 0..Len(traces),
                           bindings : SUBSET BindingIds, known : Nat,
                           over : SUBSET Identities]

(* Every variable has its type; a record that names a trace names its own,  *)
(* with the bindings that trace includes.                                   *)
ContextTypeOK ==
    /\ links \in [LinkIds -> LinkAssertion \cup {Unset}]
    /\ Range(bindings) \subseteq BindingPosts
    /\ posted \in 0..MaxBindings /\ stored \subseteq DepArtifacts /\ crashes \in 0..MaxCrashes
    /\ contextConflicts \subseteq ContextConflict
    /\ Range(traces) \subseteq ResolutionTrace
    /\ \A k \in DOMAIN records :
         /\ records[k] \in DecisionEvidenceRecord
         /\ records[k].trace # 0 =>
              /\ traces[records[k].trace].der = k
              /\ traces[records[k].trace].included = records[k].bindings

TraceOf(der) == {k \in DOMAIN traces : traces[k].der = der}

(* A binding that was found to apply and is not in the trace is accounted   *)
(* for: an included binding of the same scope and type outranks it, or is   *)
(* listed before it with the same customer's confirmation, or a conflict    *)
(* row of the record says that the authorities of its scope and type        *)
(* disagree.  The trace alone does not tell: its list of conflicted         *)
(* bindings is always empty (context.py:103-127, 138).                      *)
LeftOutIsExplained ==
    \A k \in DOMAIN traces :
        LET t == traces[k]
            Of(cb) == {x \in Range(t.considered) : GroupKey(x) = GroupKey(cb)}
        IN  \A cb \in Range(t.considered) : cb.id \notin t.included =>
              \/ \E c \in contextConflicts : c.der = t.der /\ c.key = GroupKey(cb)
              \/ \E x \in Of(cb) :
                   /\ x.id \in t.included
                   /\ \/ Rank(x) > Rank(cb)
                      \/ Rank(x) = Rank(cb) /\ x.authority = "customer_confirmed"

(* Decisions that are reached over a link between the same two resources    *)
(* have one identity, from whichever end they name, and whether the link    *)
(* was rejected, posted anew with other ends or confirmed again meanwhile:  *)
(* a link is never followed back from the identity it gave                  *)
(* (identity.py:32-48, 69-80).  Of a decision that was resolved before the  *)
(* other's record was created nothing is claimed.                           *)
LinkedDecisionsAgree ==
    \A k \in DOMAIN records : \A j \in 1..records[k].known :
        records[j].over \cap records[k].over # {} => records[j].identity = records[k].identity

(* What identity.py:18 says of a similarity proposal, and what the outcome  *)
(* evaluator relies on (expected_outcome.py:30-31): an inferred identity    *)
(* stays inferred.  A record has an exact identity only if the identity was *)
(* once found by other means than inference.                                *)
InferredStaysInferred ==
    \A k \in DOMAIN records : records[k].method = "exact_id" =>
        \E j \in DOMAIN records :
            j # k /\ records[j].identity = records[k].identity
            /\ records[j].method \notin {"exact_id", "inferred"}
=============================================================================

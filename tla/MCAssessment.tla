----------------------------- MODULE MCAssessment -----------------------------
(***************************************************************************)
(* Instances of the modules that assess evidence: decision records with    *)
(* their context, sweep runs, and replays.  focus is a scene: what happens *)
(* in a behaviour, chosen once.  Sweeps read records as EvidenceContext    *)
(* leaves them; what a sweep tells apart in a record is fixed by           *)
(* MCEvidence.                                                             *)
(***************************************************************************)
EXTENDS EvidenceContext, Sweep, CassetteReplay

CONSTANTS ra, rb, alias, w1, w2, l1, bA, bB, bC, d1

\* EvidenceContext: a link to confirm, or posted with
\* other ends; an alias that a namespace maps; two
\* policies of a provider, one of which supersedes the other, and a binding
\* that the customer confirms, whose artifact is missing, or redacted with a time without a zone.
Zoned(n) == [at |-> n, zoned |-> TRUE]
Binding(id, type, authority, from, until, by, artifact, scope) ==
    [id |-> id, scope |-> scope, selector |-> Unset, type |-> type, authority |-> authority,
     effective_from |-> from, effective_until |-> until, superseded_by |-> by,
     artifact |-> artifact]
MCLinkPosts == {[id |-> l1, ends |-> {ra, rb}, relationship |-> "same_decision",
                 status |-> "inferred"],
                [id |-> l1, ends |-> {alias, rb}, relationship |-> "governed_by_policy",
                 status |-> "confirmed"]}
MCBindingPosts ==
    {Binding(bA, "policy", "provider_declared", Zoned(1), Unset, by, "doc", {ra}) : by \in {Unset, bB}}
    \cup {Binding(bB, "policy", "provider_declared", Zoned(2), Zoned(3), Unset, "doc", {ra}),
          Binding(bB, "policy", "customer_confirmed", Zoned(1), Unset, Unset, "doc", {ra}),
          Binding(bC, "policy", "customer_confirmed", Unset, Unset, Unset, "dep", {ra}),
          Binding(bC, "redacted", "inferred", [at |-> 1, zoned |-> FALSE], Unset, Unset, "doc", Unset)}
MCNamespaces == [x \in {ra, rb, alias} |-> IF x = alias THEN {ra} ELSE {}]
MCBuildPosts == {[resources |-> <<ra>>, decidedAt |-> Zoned(2)],
                 [resources |-> <<rb>>, decidedAt |-> Zoned(4)],
                 [resources |-> <<alias, rb>>, decidedAt |-> Zoned(2)]}

\* Sweep: a record found by its identifier and an inferred one with a gap.
Found == [resources |-> TRUE, identity |-> TRUE, bindings |-> TRUE, links |-> FALSE,
          trace |-> TRUE, version |-> 1, method |-> "exact_id", gaps |-> {},
          conflicted |-> FALSE, authoritative |-> TRUE, corroborated |-> FALSE,
          missing_artifacts |-> FALSE]
MCEvidence == {Found, [Found EXCEPT !.method = "inferred", !.authoritative = FALSE,
                                    !.missing_artifacts = TRUE, !.gaps = {"missing"}]}
MCContracts == [x \in {"m", "x", "y"} |->
    CASE x = "m" -> [kind |-> "missing_evidence", prerequisites |-> {"source_resources"}]
      [] x = "x" -> [kind |-> "expected_outcome", prerequisites |-> {"context_resolved", "outcomes"}]
      [] x = "y" -> [kind |-> "replayability", prerequisites |-> {}]]
MCDefinitionPosts == {<<"x", "x">>, <<"m", "y">>}
Outcome(text, number) == [raw |-> text, text |-> text, folded |-> text, number |-> number]
MCParameters ==
    {[blocked |-> FALSE, unseen_fields |-> FALSE, actual |-> Outcome("1", 1000),
      expected |-> Outcome("2", 2000), rule |-> "numeric"],
     [blocked |-> FALSE, unseen_fields |-> FALSE, actual |-> Absent,
      expected |-> Outcome("2", 2000), rule |-> "exact"]}
MCBudgets == {[record_count |-> n, record_limit |-> 2, evaluator_count |-> 0,
               evaluator_limit |-> 2, started |-> TRUE, late |-> FALSE] : n \in {1, 2}}

\* CassetteReplay: bodies that are none, empty and two others; elements that
\* lack a request, and one that is no call.
Element(kind, request) == [kind |-> kind, request |-> request, source |-> "tool"]
Call(target, body) == [target |-> target, body |-> body]
MCElements ==
    {Element("http", Call("api", body)) : body \in {NoBody, EmptyBody, "b", "c"}}
    \cup {Element(kind, NoRequest) : kind \in {"tool", "http", "llm"}}
MCRecordings == UNION {[1..n -> MCElements] : n \in 0..3}
MCCalls == {Call("api", body) : body \in {NoBody, EmptyBody, "b"}} \cup {Call("tool", NoBody)}

VARIABLE focus

\* a cassette that no other scene plays
Blank == [strict_order |-> FALSE, entries |-> <<>>]
\* links and identities: no bindings
IdentityScene == focus = "identity" /\ posted' = 0 /\ stored' = {} /\ crashes' = 0
\* bindings: one build at a time
ContextScene == /\ focus = "context"
                /\ building'[w2] = Free /\ Len(records') <= 1 /\ links' = links
\* several requests plan runs
PlanScene == /\ focus = "plan"
             /\ \A w \in SweepSlots : task'[w].pc \notin {"worker", "cancel"}
             /\ Len(evidence') <= 1
             /\ \A k \in DOMAIN evidence' : ~ evidence'[k].trace /\ evidence'[k].method = "exact_id"
\* one worker evaluates, while the run is cancelled
WorkScene == /\ focus = "work"
             /\ task'[w2].pc \in {"free", "cancel"}
             /\ failures' = 0 /\ Len(runs') <= 1
             /\ definitions' # definitions => definitions[d1] = Absent

Build == ContextNext /\ (IdentityScene \/ ContextScene) /\ UNCHANGED <<sweepVars, cassetteVars>>
Run == SweepNext /\ (PlanScene \/ WorkScene) /\ UNCHANGED <<contextVars, cassetteVars>>
Replay == focus = "replay" /\ CassetteNext /\ UNCHANGED <<contextVars, sweepVars>>

AssessmentInit == /\ ContextInit /\ SweepInit /\ CassetteInit
                  /\ focus \in {"identity", "context", "plan", "work", "replay"}
                  /\ focus # "replay" => cassette = Blank
AssessmentNext == (Build \/ Run \/ Replay) /\ UNCHANGED focus
AssessmentSpec ==
    AssessmentInit /\ [][AssessmentNext]_<<contextVars, sweepVars, cassetteVars, focus>>

\* The variables of evidence records, their context, and sweep runs hold rows
\* of the forms their code gives them.
AssessmentTypeOK == ContextTypeOK /\ SweepTypeOK
================================================================================

------------------------------- MODULE MCIntake -------------------------------
(***************************************************************************)
(* Instances of the modules by which evidence and records come in, one run *)
(* for all.  focus is a scene: what happens in a behaviour, chosen once.   *)
(* The modules share no state, so a behaviour of several of them shows     *)
(* nothing that their behaviours by themselves do not.                     *)
(***************************************************************************)
EXTENDS Ingress, SourceProfiling, Setup, FileStorage, SequencesExt

CONSTANTS r1, r2, w1, w2, s1, sys

\* Ingress: two digests of one identifier, a batch with a bad envelope, a
\* second organization.
Envelope1(r, b) ==
    [resource |-> r, body |-> b, declared |-> compute_digest(b), flaws |-> {}]
Altered == [Envelope1(r1, "b1") EXCEPT !.declared = compute_digest("b2")]
Outdated == [Envelope1(r1, "b2") EXCEPT !.flaws = {"version"}]
Delivery(o, endpoint, es) == [org |-> o, endpoint |-> endpoint, envelopes |-> es]
MCDeliveries ==
    {Delivery("o1", "resources", <<Envelope1(r1, b)>>) : b \in {"b1", "b2"}}
    \cup {Delivery("o1", "batches", <<Envelope1(r1, "b1"), Envelope1(r2, "b2")>>),
          Delivery("o1", "batches", <<Envelope1(r2, "b2"), Altered, Envelope1(r2, "b1")>>),
          Delivery("o1", "cloudevents", <<Outdated>>),
          Delivery("o2", "cloudevents", <<Envelope1(r1, "b2")>>),
          Delivery("o2", "cloudevents", <<>>)}

\* SourceProfiling: case_id is like two DEP fields, note like none.
MCDepFields == <<"id", "case_id", "status">>
MCScore == [f \in Fields |-> [d \in DepNames |->
    CASE f = d -> 3 [] f = "case_id" /\ d = "id" -> 2 [] f = "status" /\ d = "id" -> 1 [] OTHER -> 0]]
MCSamples == {<<[f \in {"status", "case_id"} |-> IF f = "status" THEN "string" ELSE "number"]>>,
              <<[f \in {"case_id"} |-> "null"], [f \in {"case_id", "note"} |-> "number"]>>}
MCEdits == {{[source_field |-> "note", dep_field |-> "id"]}}

\* Setup: a template with rules, one without, a type without a template; of
\* three records one has a response and a mapped outcome, one a model call,
\* one no decision.
Rule(trigger, enabled) == [trigger_type |-> trigger, enabled |-> enabled]
MCTemplates == [t \in {PolicyAnswer, "lending"} |->
    IF t = PolicyAnswer THEN <<Rule("policy_answer", TRUE)>> ELSE <<>>]
MCDefaultRules == <<Rule("customer_dispute", FALSE), Rule("sample", TRUE)>>
MCDefaultSources == <<Rule("output", TRUE)>>
MCRowPosts == {<<Rule("policy_answer", TRUE)>>}
MCPatches == {[f \in {"objective"} |-> "given"], [f \in {"workflow_id"} |-> 1],
              [f \in {"ai_system_id", "evidence_contract", "capture_policy"} |-> "given"]}
MCImports ==
    {[records |-> <<[source_record_ref |-> "a", elements |-> {"decision", "http"},
                     cues |-> {"policy_answer", "customer_dispute"}, label |-> "yes"],
                    [source_record_ref |-> "b", elements |-> {"decision", "llm"},
                     cues |-> {"policy_answer"}],
                    [source_record_ref |-> "c", elements |-> {"http"}, cues |-> {"policy_answer"}]>>,
      field_mapping |-> [f \in {"expected_outcome"} |-> "label"], selected |-> {}]}

VARIABLE focus

Deliver == /\ focus = "ingress"
           /\ IngressNext
           /\ UNCHANGED <<profilingVars, setupVars, fileVars>>
\* the third version of a mapping is the last thing that happens
Profile == /\ focus = "profiling"
           /\ ProfilingNext
           /\ Len(mappings) < 3
           /\ Len(mappings') = 3 => job' = [w \in Workers |-> Idle]
           /\ UNCHANGED <<ingressVars, setupVars, fileVars>>

\* two requests on a plan: it gets its workflow, it is updated
PlanScene ==
    /\ \A p \in DOMAIN plans' : plans'[p].workflow_type = PolicyAnswer /\ plans'[p].capture_policy = Missing
    /\ plans = <<>> /\ plans' # <<>> => plans'[1].objective = Missing
    /\ 0 \notin Range(workflows')
    /\ \A w \in SetupSlots :
         /\ serving'[w].pc # "select"
         /\ serving'[w].pc \in {"replace", "write"} => serving'[w].then.pc = "attach"
\* two requests that replace rows
RowScene == plans' = <<>> /\ saves' <= 2
\* one request at a time: imports between updates
ImportScene ==
    /\ serving'[w2] = Waiting /\ Len(workflows') <= 1 /\ saves' <= 2
    /\ dropped' = 0

SetUp == /\ \/ focus = "plans" /\ SetupNext /\ PlanScene
            \/ focus = "rows" /\ SetupNext /\ RowScene
            \/ focus = "imports" /\ SetupNext /\ ImportScene
         /\ UNCHANGED <<ingressVars, profilingVars, fileVars>>

Save == /\ focus = "file"
        /\ FileNext
        /\ UNCHANGED <<ingressVars, profilingVars, setupVars>>

IntakeInit == /\ IngressInit /\ ProfilingInit /\ SetupInit /\ FileInit
              /\ focus \in {"ingress", "profiling", "plans", "rows", "imports", "file"}
IntakeNext == (Deliver \/ Profile \/ SetUp \/ Save) /\ UNCHANGED focus
IntakeSpec == IntakeInit /\ [][IntakeNext]_<<ingressVars, profilingVars, setupVars, fileVars, focus>>

\* The variables of the modules by which evidence and records come in hold
\* rows, requests and files of the forms their code gives them.
IntakeTypeOK == IngressTypeOK /\ ProfilingTypeOK /\ SetupTypeOK /\ FileTypeOK
================================================================================

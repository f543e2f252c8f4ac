------------------------------- MODULE Ingress -------------------------------
(***************************************************************************)
(* DEP ingress: POST /dep/resources, /dep/batches, /dep/cloudevents and    *)
(* /discovery/providers.                                                   *)
(*                                                                         *)
(* A request is a sequence of storage calls, one step each; a batch is     *)
(* ingested envelope by envelope.  Rows are keyed as PostgresS3Storage     *)
(* keys them: a resource by its identifier alone, whatever organization it *)
(* belongs to, a provider by organization and identifier.                  *)
(*                                                                         *)
(* Requests are numbered in the order they arrive.  contended is a history *)
(* variable: the keys that two requests held at once between the lookup    *)
(* and the write, and the identifiers that two organizations used.         *)
(***************************************************************************)
EXTENDS Integers, Sequences

CONSTANTS
    Orgs,
    ResourceIds,
    ProviderIds,
    Bodies,         \* what an envelope says, digest and signature excepted
    Deliveries,     \* what clients post to the three DEP endpoints
    MaxRequests,    \* bound: requests in a behaviour
    MaxDeaths,      \* bound: requests cut short by an exception or a crash
    None

Flaws == {"schema", "version", "type"}
Endpoints == {"resources", "batches", "cloudevents"}

(* a hash of the canonical body; digest and signature are left out of it *)
compute_digest(body) == <<"sha256", body>>
Digests == {compute_digest(b) : b \in Bodies}

Envelopes == [resource : ResourceIds, body : Bodies, declared : Digests, flaws : SUBSET Flaws]

Resource == [owner : Orgs, org : Orgs, digest : Digests]

ASSUME IngressAssumption ==
    /\ None \notin Bodies \cup Digests \cup Resource
    /\ Deliveries \subseteq [org : Orgs, endpoint : Endpoints, envelopes : Seq(Envelopes)]
    /\ \A d \in Deliveries : d.endpoint # "batches" => Len(d.envelopes) <= 1
    /\ MaxRequests \in Nat /\ MaxDeaths \in Nat

Requests == 1..MaxRequests
Keys == ResourceIds \cup (Orgs \X ProviderIds)

VARIABLES
    payloads,    \* dep://payload/{resource id} -> body of the envelope stored there
    resources,   \* the resource index
    conflicts,   \* IntegrityConflict rows
    providers,   \* ProviderRegistration rows: the request that wrote them
    req,         \* the requests
    deaths,
    contended

ingressVars == <<payloads, resources, conflicts, providers, req, deaths, contended>>

\* Mutant: the digest is not compared.
ValidateAllButDigest(e) == IF "schema" \in e.flaws THEN {"schema"} ELSE e.flaws

(* A schema error ends the validation, the other checks all run. *)
validate_envelope(e) ==
    IF "schema" \in e.flaws
    THEN {"schema"}
    ELSE e.flaws \cup (IF e.declared = compute_digest(e.body) THEN {} ELSE {"digest"})

(* a row of another organization is not found *)
get_resource(id, org) ==
    IF resources[id] # None /\ resources[id].org = org THEN resources[id] ELSE None

(* the list goes by the column, which an upsert leaves as it was *)
list_resources(org) == {id \in ResourceIds : resources[id] # None /\ resources[id].owner = org}

Status == {"accepted", "duplicate", "rejected", "quarantined"}
IntegrityConflict == [org : Orgs, resource : ResourceIds, existing : Digests, conflicting : Digests]
Receipt == [resource : ResourceIds, status : Status, digest : Digests]

DepRequest == [endpoint : Endpoints, org : Orgs, envelopes : Seq(Envelopes), at : Nat,
               receipts : Seq(Receipt), found : Digests \cup {None},
               pc : {"lookup", "conflict", "persist", "index", "done", "dead"}]
ProviderRequest == [endpoint : {"providers"}, org : Orgs, provider : ProviderIds,
                    pc : {"create", "done", "refused", "dead"}]

At(k, pc) == req[k] # None /\ req[k].pc = pc
Envelope(k) == req[k].envelopes[req[k].at]

(* the row a request is about to write, judged by a lookup it has done *)
Holds(k, key) ==
    \/ (At(k, "persist") \/ At(k, "index")) /\ key = Envelope(k).resource
    \/ At(k, "create") /\ key = <<req[k].org, req[k].provider>>

IngressInit ==
    /\ payloads = [id \in ResourceIds |-> None]
    /\ resources = [id \in ResourceIds |-> None]
    /\ conflicts = {}
    /\ providers = [key \in Orgs \X ProviderIds |-> None]
    /\ req = [k \in Requests |-> None]
    /\ deaths = 0
    /\ contended = {}

-----------------------------------------------------------------------------
(* Requests arrive. *)

Arrives(k) == req[k] = None /\ \A j \in Requests : j < k => req[j] # None

(* An empty batch and a CloudEvent without usable data are refused at once. *)
Post(k, d) ==
    /\ Arrives(k)
    /\ req' = [req EXCEPT ![k] =
         [endpoint |-> d.endpoint, org |-> d.org, envelopes |-> d.envelopes, at |-> 1,
          receipts |-> <<>>, found |-> None,
          pc |-> IF d.envelopes = <<>> THEN "done" ELSE "lookup"]]
    /\ UNCHANGED <<payloads, resources, conflicts, providers, deaths, contended>>

Contend(key, others) ==
    contended' = IF others \/ \E j \in Requests : Holds(j, key)
                 THEN contended \cup {key} ELSE contended

\* Mutant: an identifier that is taken is registered again.
RegisterUnchecked(k, o, p) ==
    /\ Arrives(k)
    /\ req' = [req EXCEPT ![k] =
                 [endpoint |-> "providers", org |-> o, provider |-> p, pc |-> "create"]]
    /\ Contend(<<o, p>>, FALSE)
    /\ UNCHANGED <<payloads, resources, conflicts, providers, deaths>>

(* register_provider looks the identifier up ... *)
PostProvider(k, o, p) ==
    /\ Arrives(k)
    /\ LET taken == providers[<<o, p>>] # None
       IN  /\ req' = [req EXCEPT ![k] = [endpoint |-> "providers", org |-> o, provider |-> p,
                                         pc |-> IF taken THEN "refused" ELSE "create"]]
           /\ IF taken THEN UNCHANGED contended ELSE Contend(<<o, p>>, FALSE)
    /\ UNCHANGED <<payloads, resources, conflicts, providers, deaths>>

(* ... and creates it *)
CreateProvider(k) ==
    /\ At(k, "create")
    /\ providers' = [providers EXCEPT ![<<req[k].org, req[k].provider>>] = k]
    /\ req' = [req EXCEPT ![k].pc = "done"]
    /\ UNCHANGED <<payloads, resources, conflicts, deaths, contended>>

-----------------------------------------------------------------------------
(* IngressService.ingest, one storage call a step. *)

(* the receipt of the current envelope; then the next one, or the answer *)
Receive(k, status) ==
    LET e == Envelope(k)
    IN  req' = [req EXCEPT ![k] =
          [req[k] EXCEPT
             !.receipts = Append(req[k].receipts, [resource |-> e.resource, status |-> status,
                                                   digest |-> e.declared]),
             !.at = req[k].at + 1,
             !.pc = IF req[k].at = Len(req[k].envelopes) THEN "done" ELSE "lookup"]]

Reject(k) ==
    /\ At(k, "lookup")
    /\ validate_envelope(Envelope(k)) # {}
    /\ Receive(k, "rejected")
    /\ UNCHANGED <<payloads, resources, conflicts, providers, deaths, contended>>

Lookup(k) ==
    /\ At(k, "lookup")
    /\ validate_envelope(Envelope(k)) = {}
    /\ LET e == Envelope(k)
           existing == get_resource(e.resource, req[k].org)
       IN  \/ /\ existing = None
              /\ req' = [req EXCEPT ![k].pc = "persist"]
              /\ Contend(e.resource, resources[e.resource] # None)
           \/ /\ existing # None /\ existing.digest = e.declared
              /\ Receive(k, "duplicate")
              /\ UNCHANGED contended
           \/ /\ existing # None /\ existing.digest # e.declared
              /\ req' = [req EXCEPT ![k].pc = "conflict", ![k].found = existing.digest]
              /\ UNCHANGED contended
    /\ UNCHANGED <<payloads, resources, conflicts, providers, deaths>>

\* Mutant: the conflict row names the digest the index has by now.
RecordConflictNow(k) ==
    /\ At(k, "conflict")
    /\ conflicts' = conflicts \cup
         {[org |-> req[k].org, resource |-> Envelope(k).resource,
           existing |-> resources[Envelope(k).resource].digest,
           conflicting |-> Envelope(k).declared]}
    /\ Receive(k, "quarantined")
    /\ UNCHANGED <<payloads, resources, providers, deaths, contended>>

(* the conflict row names the digest the lookup found *)
RecordConflict(k) ==
    /\ At(k, "conflict")
    /\ LET e == Envelope(k)
       IN  conflicts' = conflicts \cup
             {[org |-> req[k].org, resource |-> e.resource,
               existing |-> req[k].found, conflicting |-> e.declared]}
    /\ Receive(k, "quarantined")
    /\ UNCHANGED <<payloads, resources, providers, deaths, contended>>

PersistPayload(k) ==
    /\ At(k, "persist")
    /\ payloads' = [payloads EXCEPT ![Envelope(k).resource] = Envelope(k).body]
    /\ req' = [req EXCEPT ![k].pc = "index"]
    /\ UNCHANGED <<resources, conflicts, providers, deaths, contended>>

IndexResource(k) ==
    /\ At(k, "index")
    /\ LET e == Envelope(k)
       IN  resources' = [resources EXCEPT ![e.resource] =
             [owner |-> IF @ = None THEN req[k].org ELSE @.owner,
              org |-> req[k].org, digest |-> e.declared]]
    /\ Receive(k, "accepted")
    /\ UNCHANGED <<payloads, conflicts, providers, deaths, contended>>

(* An exception or a crash ends the request; what it wrote stays. *)
Die(k) ==
    /\ deaths < MaxDeaths
    /\ \E pc \in {"lookup", "conflict", "persist", "index", "create"} : At(k, pc)
    /\ req' = [req EXCEPT ![k].pc = "dead"]
    /\ deaths' = deaths + 1
    /\ UNCHANGED <<payloads, resources, conflicts, providers, contended>>

IngressNext ==
    \E k \in Requests :
        \/ \E d \in Deliveries : Post(k, d)
        \/ \E o \in Orgs, p \in ProviderIds : PostProvider(k, o, p)
        \/ CreateProvider(k)
        \/ Reject(k)
        \/ Lookup(k)
        \/ RecordConflict(k)
        \/ PersistPayload(k)
        \/ IndexResource(k)
        \/ Die(k)

IngressSpec == IngressInit /\ [][IngressNext]_ingressVars

-----------------------------------------------------------------------------
(* Every variable has its type; requests arrive in order, a request at a    *)
(* storage call has an envelope to ingest.                                  *)
IngressTypeOK ==
    /\ payloads \in [ResourceIds -> Bodies \cup {None}]
    /\ resources \in [ResourceIds -> Resource \cup {None}]
    /\ conflicts \subseteq IntegrityConflict
    /\ providers \in [Orgs \X ProviderIds -> Requests \cup {None}]
    /\ req \in [Requests -> DepRequest \cup ProviderRequest \cup {None}]
    /\ \A k \in Requests :
         At(k, "lookup") \/ At(k, "conflict") \/ At(k, "persist") \/ At(k, "index") =>
             req[k].at \in 1..Len(req[k].envelopes)
    /\ deaths \in 0..MaxDeaths
    /\ contended \subseteq Keys

Received(k) == IF req[k] # None /\ req[k].endpoint # "providers"
               THEN {req[k].receipts[i] : i \in 1..Len(req[k].receipts)} ELSE {}

(* Whatever happens afterwards, to this request (it may die before it is    *)
(* answered) or to others, an envelope acknowledged as accepted or          *)
(* duplicate is in the index of its organization with its digest and its    *)
(* payload is the one the digest was computed of; a quarantined one has     *)
(* left a conflict row that names the digest in the index.  So a client     *)
(* may repeat a request or a batch it has no answer to (ingress.py:72-127). *)
ReceiptsHold ==
    \A k \in Requests : \A r \in Received(k) :
        LET row == resources[r.resource]
        IN  r.resource \notin contended =>
              /\ r.status \in {"accepted", "duplicate"} =>
                   /\ row # None /\ row.digest = r.digest /\ row.org = req[k].org
                   /\ r.resource \in list_resources(req[k].org)
                   /\ compute_digest(payloads[r.resource]) = r.digest
              /\ r.status = "quarantined" =>
                   [org |-> req[k].org, resource |-> r.resource,
                    existing |-> row.digest, conflicting |-> r.digest] \in conflicts

(* The first registration of an identifier stands: no later delivery        *)
(* changes its index row or its payload, and no later registration its      *)
(* provider, unless two requests held the identifier at once or two         *)
(* organizations use it (ingress.py:85-121, routers/discovery.py:33-44).    *)
FirstRegistrationStands ==
    [][/\ \A id \in ResourceIds :
            resources[id] # None /\ id \notin contended =>
                resources'[id] = resources[id] /\ payloads'[id] = payloads[id]
       /\ \A key \in Orgs \X ProviderIds :
            providers[key] # None /\ key \notin contended => providers'[key] = providers[key]
      ]_ingressVars

(* Even when two requests interleave on one identifier, or one dies half-   *)
(* way, a row of the index has a stored payload, and a conflict row names   *)
(* two different digests (ingress.py:86-121).                               *)
IndexIsBacked ==
    /\ \A id \in ResourceIds : resources[id] # None => payloads[id] # None
    /\ \A c \in conflicts : c.existing # c.conflicting
=============================================================================

---------------------------- MODULE IngressProofs ----------------------------
(***************************************************************************)
(* Proofs about Ingress: types, that receipts hold, that the first         *)
(* registration stands, and that the index is backed by payloads.          *)
(*                                                                         *)
(* The argument is about the window between the lookup of an identifier    *)
(* and its row.  Unless the identifier is contended at most one request is *)
(* in its window (Alone), and there is no row yet (First); so a row, once  *)
(* there, and its payload are never written again, and what the receipts   *)
(* of earlier requests say of them stays true.                             *)
(***************************************************************************)
EXTENDS Ingress, TLAPS

Ingesting(k) == At(k, "lookup") \/ At(k, "conflict") \/ At(k, "persist") \/ At(k, "index")
Writing(k) == At(k, "persist") \/ At(k, "index")

\* What a request holds it holds alone.
Alone ==
    \A j, k \in Requests : \A key \in Keys \ contended :
        Holds(j, key) /\ Holds(k, key) => j = k

\* What a request knows of the envelope it is at: the lookup found no row.
First(k) ==
    /\ Writing(k) => validate_envelope(Envelope(k)) = {}
    /\ Writing(k) /\ Envelope(k).resource \notin contended => resources[Envelope(k).resource] = None
    /\ At(k, "create") /\ <<req[k].org, req[k].provider>> \notin contended =>
           providers[<<req[k].org, req[k].provider>>] = None
    /\ At(k, "index") =>
           /\ payloads[Envelope(k).resource] # None
           /\ Envelope(k).resource \notin contended =>
                  payloads[Envelope(k).resource] = Envelope(k).body

\* Or it found a row with another digest.
Differs(k) ==
    At(k, "conflict") =>
        /\ req[k].found \in Digests /\ req[k].found # Envelope(k).declared
        /\ Envelope(k).resource \notin contended =>
               /\ resources[Envelope(k).resource] # None
               /\ resources[Envelope(k).resource].digest = req[k].found

\* What an uncontended row says.
RowHolds(id) ==
    /\ resources[id].owner = resources[id].org
    /\ compute_digest(payloads[id]) = resources[id].digest

Backed(id) ==
    resources[id] # None => payloads[id] # None /\ (id \notin contended => RowHolds(id))

\* What a receipt says.
ReceiptHolds(org, r) ==
    r.resource \notin contended =>
        /\ resources[r.resource] # None
        /\ r.status \in {"accepted", "duplicate"} =>
               resources[r.resource].digest = r.digest /\ resources[r.resource].org = org
        /\ r.status = "quarantined" =>
               [org |-> org, resource |-> r.resource,
                existing |-> resources[r.resource].digest, conflicting |-> r.digest] \in conflicts

Kept(k) == \A r \in Received(k) : r.status # "rejected" => ReceiptHolds(req[k].org, r)

Inv ==
    /\ IngressTypeOK
    /\ Alone
    /\ \A k \in Requests : First(k) /\ Differs(k) /\ Kept(k)
    /\ \A id \in ResourceIds : Backed(id)
    /\ \A c \in conflicts : c.existing # c.conflicting

-----------------------------------------------------------------------------
(* Types. *)

\* A digest of a body is a digest.
LEMMA DigestType == \A b \in Bodies : compute_digest(b) \in Digests
BY DEF Digests

\* What the types say of a request that has an envelope to ingest.
LEMMA IngestingTypes ==
    ASSUME IngressTypeOK, NEW k \in Requests, Ingesting(k)
    PROVE  /\ req[k] \in DepRequest
           /\ req[k].at \in 1..Len(req[k].envelopes)
           /\ Envelope(k) \in Envelopes
<1>1. req[k] \in DepRequest
  BY DEF IngressTypeOK, Ingesting, At, ProviderRequest
<1>2. req[k].at \in 1..Len(req[k].envelopes)
  BY DEF IngressTypeOK, Ingesting
<1>3. req[k].envelopes \in Seq(Envelopes)
  BY <1>1 DEF DepRequest
<1> QED
  BY <1>1, <1>2, <1>3 DEF Envelope

\* ... and of one that registers a provider.
LEMMA CreatingTypes ==
    ASSUME IngressTypeOK, NEW k \in Requests, At(k, "create")
    PROVE  req[k] \in ProviderRequest
BY DEF IngressTypeOK, At, DepRequest

\* A receipt is appended, the request goes on to its next envelope.
LEMMA ReceiveEffect ==
    ASSUME IngressTypeOK, NEW k \in Requests, Ingesting(k),
           NEW status \in Status, Receive(k, status)
    PROVE  /\ req' = [req EXCEPT ![k] = req'[k]]
           /\ req'[k] \in DepRequest
           /\ req'[k].org = req[k].org
           /\ req'[k].pc \in {"lookup", "done"}
           /\ req'[k].pc = "lookup" => req'[k].at \in 1..Len(req'[k].envelopes)
           /\ Received(k)' \subseteq Received(k) \cup
                {[resource |-> Envelope(k).resource, status |-> status,
                  digest |-> Envelope(k).declared]}
<1> DEFINE receipt == [resource |-> Envelope(k).resource, status |-> status,
                       digest |-> Envelope(k).declared]
           pc == IF req[k].at = Len(req[k].envelopes) THEN "done" ELSE "lookup"
           r == [req[k] EXCEPT !.receipts = Append(req[k].receipts, receipt),
                           !.at = req[k].at + 1, !.pc = pc]
<1>1. req' = [req EXCEPT ![k] = r]
  BY DEF Receive
<1>2. /\ req[k] \in DepRequest
      /\ req[k].at \in 1..Len(req[k].envelopes)
      /\ Envelope(k) \in Envelopes
  BY IngestingTypes
<1>3. req \in [Requests -> DepRequest \cup ProviderRequest \cup {None}]
  BY DEF IngressTypeOK
<1>4. req'[k] = r
  BY <1>1, <1>3
<1>5. receipt \in Receipt
  BY <1>2 DEF Receipt, Envelopes
<1>6. pc \in {"lookup", "done"}
  OBVIOUS
<1> HIDE DEF receipt, pc
<1>7. /\ req[k].receipts \in Seq(Receipt) /\ Len(req[k].envelopes) \in Nat
      /\ req[k].at \in Nat /\ req[k].at + 1 \in Nat
  BY <1>2 DEF DepRequest
<1>8. Append(req[k].receipts, receipt) \in Seq(Receipt)
  BY <1>5, <1>7
<1>9. r \in DepRequest
  BY <1>2, <1>6, <1>7, <1>8 DEF DepRequest
<1>10. /\ r.org = req[k].org /\ r.pc = pc /\ r.at = req[k].at + 1
       /\ r.envelopes = req[k].envelopes /\ r.endpoint = req[k].endpoint
       /\ r.receipts = Append(req[k].receipts, receipt)
  BY <1>2 DEF DepRequest
<1> HIDE DEF r
<1>11. pc = "lookup" => req[k].at + 1 \in 1..Len(req[k].envelopes)
  BY <1>2, <1>7 DEF pc
<1>12. Received(k)' \subseteq Received(k) \cup {receipt}
  <2>1. req[k].endpoint # "providers" /\ r.endpoint # "providers"
    BY <1>2, <1>9 DEF DepRequest, Endpoints
  <2>2. Received(k) = {req[k].receipts[i] : i \in 1..Len(req[k].receipts)}
    BY <2>1 DEF Received, Ingesting, At
  <2>3. Received(k)' \subseteq {r.receipts[i] : i \in 1..Len(r.receipts)}
    BY <1>4 DEF Received
  <2>4. /\ Len(r.receipts) = Len(req[k].receipts) + 1
        /\ r.receipts[Len(r.receipts)] = receipt
        /\ \A i \in 1..Len(req[k].receipts) : r.receipts[i] = req[k].receipts[i]
    BY <1>5, <1>7, <1>10
  <2>5. {r.receipts[i] : i \in 1..Len(r.receipts)}
            \subseteq {req[k].receipts[i] : i \in 1..Len(req[k].receipts)} \cup {receipt}
    BY <1>7, <2>4
  <2> QED
    BY <2>2, <2>3, <2>5
<1> QED
  BY <1>1, <1>4, <1>9, <1>10, <1>11, <1>6, <1>12 DEF receipt

\* A step of one request leaves what the others are at.
LEMMA OthersKeep ==
    ASSUME IngressTypeOK, NEW k \in Requests, req' = [req EXCEPT ![k] = req'[k]],
           NEW j \in Requests \ {k}
    PROVE  /\ req'[j] = req[j] /\ Envelope(j)' = Envelope(j) /\ Received(j)' = Received(j)
           /\ \A pc : At(j, pc)' <=> At(j, pc)
           /\ \A key : Holds(j, key)' <=> Holds(j, key)
<1>1. req'[j] = req[j]
  BY DEF IngressTypeOK
<1> QED
  BY <1>1 DEF At, Envelope, Received, Holds

\* The types of the requests, when one of them takes a step.
LEMMA RequestTypes ==
    ASSUME IngressTypeOK, NEW k \in Requests, req' = [req EXCEPT ![k] = req'[k]],
           req'[k] \in DepRequest \cup ProviderRequest,
           Ingesting(k)' => req'[k].at \in 1..Len(req'[k].envelopes)
    PROVE  /\ req' \in [Requests -> DepRequest \cup ProviderRequest \cup {None}]
           /\ \A j \in Requests : Ingesting(j)' => req'[j].at \in 1..Len(req'[j].envelopes)
<1>1. req' \in [Requests -> DepRequest \cup ProviderRequest \cup {None}]
  BY DEF IngressTypeOK
<1>2. ASSUME NEW j \in Requests, Ingesting(j)'
      PROVE  req'[j].at \in 1..Len(req'[j].envelopes)
  <2>1. CASE j = k
    BY <1>2, <2>1
  <2>2. CASE j # k
    <3>1. req'[j] = req[j] /\ Ingesting(j)
      BY <1>2, <2>2, OthersKeep DEF Ingesting
    <3> QED
      BY <3>1 DEF IngressTypeOK, Ingesting
  <2> QED
    BY <2>1, <2>2
<1> QED
  BY <1>1, <1>2

\* contended only grows, by keys.
LEMMA ContendType ==
    ASSUME contended \subseteq Keys, NEW key \in Keys, NEW others \in BOOLEAN, Contend(key, others)
    PROVE  contended' \subseteq Keys
BY DEF Contend

\* There are no requests at first.
LEMMA InitType == IngressInit => IngressTypeOK
BY IngressAssumption DEF IngressInit, IngressTypeOK, At

\* A request moves to its next storage call.
LEMMA MoveTypes ==
    ASSUME IngressTypeOK, NEW k \in Requests, Ingesting(k),
           NEW pc \in {"conflict", "persist", "index", "dead"},
           req' = [req EXCEPT ![k].pc = pc]
    PROVE  /\ req' = [req EXCEPT ![k] = req'[k]]
           /\ req'[k] = [req[k] EXCEPT !.pc = pc]
           /\ req'[k] \in DepRequest
           /\ req'[k].at \in 1..Len(req'[k].envelopes)
<1>1. req[k] \in DepRequest /\ req[k].at \in 1..Len(req[k].envelopes)
  BY IngestingTypes
<1>2. req \in [Requests -> DepRequest \cup ProviderRequest \cup {None}]
  BY DEF IngressTypeOK
<1>3. req'[k] = [req[k] EXCEPT !.pc = pc]
  BY <1>2
<1>4. [req[k] EXCEPT !.pc = pc] \in DepRequest
  BY <1>1 DEF DepRequest
<1> QED
  BY <1>1, <1>2, <1>3, <1>4 DEF DepRequest

\* The steps that receive.
LEMMA ReceiveTypes ==
    ASSUME IngressTypeOK, NEW k \in Requests, Ingesting(k),
           NEW status \in Status, Receive(k, status)
    PROVE  /\ req' \in [Requests -> DepRequest \cup ProviderRequest \cup {None}]
           /\ \A j \in Requests : Ingesting(j)' => req'[j].at \in 1..Len(req'[j].envelopes)
<1>1. Ingesting(k)' => req'[k].pc = "lookup"
  BY ReceiveEffect DEF Ingesting, At
<1> QED
  BY <1>1, ReceiveEffect, RequestTypes
\* Every step preserves the types, for the lookup found a digest (Differs).
LEMMA StepType ==
    ASSUME IngressTypeOK, \A k \in Requests : Differs(k), [IngressNext]_ingressVars
    PROVE  IngressTypeOK'
<1> DEFINE Reqs == DepRequest \cup ProviderRequest \cup {None}
           ReqsTyped ==
             /\ req' \in [Requests -> Reqs]
             /\ \A j \in Requests : Ingesting(j)' => req'[j].at \in 1..Len(req'[j].envelopes)
<1>0. ASSUME ReqsTyped,
             payloads' \in [ResourceIds -> Bodies \cup {None}],
             resources' \in [ResourceIds -> Resource \cup {None}],
             conflicts' \subseteq IntegrityConflict,
             providers' \in [Orgs \X ProviderIds -> Requests \cup {None}],
             deaths' \in 0..MaxDeaths,
             contended' \subseteq Keys
      PROVE  IngressTypeOK'
  BY <1>0 DEF IngressTypeOK, Ingesting
<1>t. /\ payloads \in [ResourceIds -> Bodies \cup {None}]
      /\ resources \in [ResourceIds -> Resource \cup {None}]
      /\ conflicts \subseteq IntegrityConflict
      /\ providers \in [Orgs \X ProviderIds -> Requests \cup {None}]
      /\ req \in [Requests -> Reqs]
      /\ deaths \in 0..MaxDeaths
      /\ contended \subseteq Keys
  BY DEF IngressTypeOK
<1>1. ASSUME NEW k \in Requests, NEW d \in Deliveries, Post(k, d)
      PROVE  IngressTypeOK'
  <2> DEFINE r == [endpoint |-> d.endpoint, org |-> d.org, envelopes |-> d.envelopes, at |-> 1,
                   receipts |-> <<>>, found |-> None,
                   pc |-> IF d.envelopes = <<>> THEN "done" ELSE "lookup"]
  <2>1. req' = [req EXCEPT ![k] = r] /\ UNCHANGED <<payloads, resources, conflicts, providers, deaths, contended>>
    BY <1>1 DEF Post
  <2>2. d \in [org : Orgs, endpoint : Endpoints, envelopes : Seq(Envelopes)]
    BY IngressAssumption
  <2>3. r \in DepRequest
    BY <2>2 DEF DepRequest
  <2>4. req' = [req EXCEPT ![k] = req'[k]] /\ req'[k] = r
    BY <2>1, <1>t
  <2>5. Ingesting(k)' => req'[k].at \in 1..Len(req'[k].envelopes)
    <3>1. Ingesting(k)' => d.envelopes # <<>>
      BY <2>4 DEF Ingesting, At
    <3>2. d.envelopes # <<>> => 1 \in 1..Len(d.envelopes)
      BY <2>2
    <3> QED
      BY <3>1, <3>2, <2>4
  <2>6. req'[k] \in DepRequest
    BY <2>3, <2>4
  <2> HIDE DEF r
  <2>7. ReqsTyped
    BY <2>4, <2>5, <2>6, RequestTypes
  <2> HIDE DEF ReqsTyped
  <2> QED
    BY <1>0, <1>t, <2>1, <2>7
<1>2. ASSUME NEW k \in Requests, NEW o \in Orgs, NEW p \in ProviderIds, PostProvider(k, o, p)
      PROVE  IngressTypeOK'
  <2>1. PICK pc \in {"refused", "create"} :
          req' = [req EXCEPT ![k] = [endpoint |-> "providers", org |-> o, provider |-> p, pc |-> pc]]
    BY <1>2 DEF PostProvider
  <2>2. req' = [req EXCEPT ![k] = req'[k]] /\ req'[k] \in ProviderRequest /\ req'[k].pc = pc
    BY <2>1, <1>t DEF ProviderRequest
  <2>3. ReqsTyped
    BY <2>2, RequestTypes DEF Ingesting, At
  <2>4. contended' \subseteq Keys
    BY <1>2, <1>t, ContendType DEF PostProvider, Keys
  <2>5. UNCHANGED <<payloads, resources, conflicts, providers, deaths>>
    BY <1>2 DEF PostProvider
  <2> HIDE DEF ReqsTyped
  <2> QED
    BY <1>0, <1>t, <2>3, <2>4, <2>5
<1>3. ASSUME NEW k \in Requests, CreateProvider(k)
      PROVE  IngressTypeOK'
  <2>1. req[k] \in ProviderRequest
    BY <1>3, CreatingTypes DEF CreateProvider
  <2>2. req' = [req EXCEPT ![k].pc = "done"] /\ UNCHANGED <<payloads, resources, conflicts, deaths, contended>>
    BY <1>3 DEF CreateProvider
  <2>3. req' = [req EXCEPT ![k] = req'[k]] /\ req'[k] = [req[k] EXCEPT !.pc = "done"]
    BY <2>2, <1>t
  <2>4. req'[k] \in ProviderRequest /\ req'[k].pc = "done"
    BY <2>1, <2>3 DEF ProviderRequest
  <2>5. ReqsTyped
    BY <2>3, <2>4, RequestTypes DEF Ingesting, At
  <2>6. providers' \in [Orgs \X ProviderIds -> Requests \cup {None}]
    BY <1>3, <1>t DEF CreateProvider
  <2> HIDE DEF ReqsTyped
  <2> QED
    BY <1>0, <1>t, <2>2, <2>5, <2>6
<1>4. ASSUME NEW k \in Requests, Reject(k)
      PROVE  IngressTypeOK'
  <2>1. ReqsTyped
    BY <1>4, ReceiveTypes DEF Reject, Ingesting, Status
  <2>2. UNCHANGED <<payloads, resources, conflicts, providers, deaths, contended>>
    BY <1>4 DEF Reject
  <2> HIDE DEF ReqsTyped
  <2> QED
    BY <1>0, <1>t, <2>1, <2>2
<1>5. ASSUME NEW k \in Requests, Lookup(k)
      PROVE  IngressTypeOK'
  <2> DEFINE e == Envelope(k)
             existing == get_resource(e.resource, req[k].org)
  <2>0. Ingesting(k) /\ UNCHANGED <<payloads, resources, conflicts, providers, deaths>>
    BY <1>5 DEF Lookup, Ingesting
  <2>1. e \in Envelopes /\ req[k] \in DepRequest /\ req[k].at \in 1..Len(req[k].envelopes)
    BY <2>0, IngestingTypes
  <2>2. CASE req' = [req EXCEPT ![k].pc = "persist"] /\ Contend(e.resource, resources[e.resource] # None)
    <3>1. ReqsTyped
      BY <2>0, <2>2, MoveTypes, RequestTypes
    <3>2. contended' \subseteq Keys
      BY <2>1, <2>2, <1>t, ContendType DEF Keys, Envelopes
    <3> HIDE DEF ReqsTyped
    <3> QED
      BY <1>0, <1>t, <2>0, <3>1, <3>2
  <2>3. CASE Receive(k, "duplicate") /\ UNCHANGED contended
    <3>1. ReqsTyped
      BY <2>0, <2>3, ReceiveTypes DEF Status
    <3> HIDE DEF ReqsTyped
    <3> QED
      BY <1>0, <1>t, <2>0, <2>3, <3>1
  <2>4. CASE /\ req' = [req EXCEPT ![k].pc = "conflict", ![k].found = existing.digest]
             /\ existing # None
             /\ UNCHANGED contended
    <3>1. existing \in Resource
      BY <2>1, <2>4, <1>t DEF get_resource, Envelopes
    <3>2. existing.digest \in Digests
      BY <3>1 DEF Resource
    <3> DEFINE found == existing.digest
               r == [req[k] EXCEPT !.pc = "conflict", !.found = found]
    <3> HIDE DEF existing, e, found
    <3>3. req' = [req EXCEPT ![k] = req'[k]] /\ req'[k] = r
      BY <1>t, <2>4 DEF found
    <3>4. r \in DepRequest /\ r.at \in 1..Len(r.envelopes)
      BY <2>1, <3>2 DEF DepRequest, found
    <3> HIDE DEF r
    <3>5. ReqsTyped
      BY <3>3, <3>4, RequestTypes
    <3> HIDE DEF ReqsTyped
    <3> QED
      BY <1>0, <1>t, <2>0, <2>4, <3>5
  <2> QED
    BY <1>5, <2>2, <2>3, <2>4 DEF Lookup
<1>6. ASSUME NEW k \in Requests, RecordConflict(k)
      PROVE  IngressTypeOK'
  <2>1. Ingesting(k) /\ Receive(k, "quarantined")
        /\ UNCHANGED <<payloads, resources, providers, deaths, contended>>
    BY <1>6 DEF RecordConflict, Ingesting
  <2>2. ReqsTyped
    BY <2>1, ReceiveTypes DEF Status
  <2>3. Envelope(k) \in Envelopes /\ req[k] \in DepRequest /\ req[k].found \in Digests
    BY <1>6, <2>1, IngestingTypes DEF RecordConflict, Differs
  <2>4. conflicts' \subseteq IntegrityConflict
    BY <1>6, <1>t, <2>3 DEF RecordConflict, IntegrityConflict, Envelopes, DepRequest
  <2> HIDE DEF ReqsTyped
  <2> QED
    BY <1>0, <1>t, <2>1, <2>2, <2>4
<1>7. ASSUME NEW k \in Requests, PersistPayload(k)
      PROVE  IngressTypeOK'
  <2>1. Ingesting(k) /\ req' = [req EXCEPT ![k].pc = "index"]
        /\ UNCHANGED <<resources, conflicts, providers, deaths, contended>>
    BY <1>7 DEF PersistPayload, Ingesting
  <2>2. ReqsTyped
    BY <2>1, MoveTypes, RequestTypes
  <2>3. Envelope(k) \in Envelopes
    BY <2>1, IngestingTypes
  <2>4. payloads' \in [ResourceIds -> Bodies \cup {None}]
    BY <1>7, <1>t, <2>3 DEF PersistPayload, Envelopes
  <2> HIDE DEF ReqsTyped
  <2> QED
    BY <1>0, <1>t, <2>1, <2>2, <2>4
<1>8. ASSUME NEW k \in Requests, IndexResource(k)
      PROVE  IngressTypeOK'
  <2>1. Ingesting(k) /\ Receive(k, "accepted")
        /\ UNCHANGED <<payloads, conflicts, providers, deaths, contended>>
    BY <1>8 DEF IndexResource, Ingesting
  <2>2. ReqsTyped
    BY <2>1, ReceiveTypes DEF Status
  <2>3. Envelope(k) \in Envelopes /\ req[k] \in DepRequest
    BY <2>1, IngestingTypes
  <2>4. resources' \in [ResourceIds -> Resource \cup {None}]
    BY <1>8, <1>t, <2>3 DEF IndexResource, Envelopes, DepRequest, Resource
  <2> HIDE DEF ReqsTyped
  <2> QED
    BY <1>0, <1>t, <2>1, <2>2, <2>4
<1>9. ASSUME NEW k \in Requests, Die(k)
      PROVE  IngressTypeOK'
  <2>1. req' = [req EXCEPT ![k].pc = "dead"] /\ deaths < MaxDeaths /\ deaths' = deaths + 1
        /\ UNCHANGED <<payloads, resources, conflicts, providers, contended>>
    BY <1>9 DEF Die
  <2>2. Ingesting(k) \/ At(k, "create")
    BY <1>9 DEF Die, Ingesting
  <2>3. req' = [req EXCEPT ![k] = req'[k]] /\ req'[k] = [req[k] EXCEPT !.pc = "dead"]
    BY <2>1, <1>t
  <2>4. req[k] \in DepRequest \cup ProviderRequest
    BY <2>2, IngestingTypes, CreatingTypes
  <2>5. req'[k] \in DepRequest \cup ProviderRequest /\ req'[k].pc = "dead"
    BY <2>3, <2>4 DEF DepRequest, ProviderRequest
  <2>6. ReqsTyped
    BY <2>3, <2>5, RequestTypes DEF Ingesting, At
  <2>7. deaths' \in 0..MaxDeaths
    BY <2>1, <1>t, IngressAssumption
  <2> HIDE DEF ReqsTyped
  <2> QED
    BY <1>0, <1>t, <2>1, <2>6, <2>7
<1>10. CASE UNCHANGED ingressVars
  BY <1>10, <1>t DEF ingressVars, IngressTypeOK, At
<1> QED
  BY <1>1, <1>2, <1>3, <1>4, <1>5, <1>6, <1>7, <1>8, <1>9, <1>10 DEF IngressNext

-----------------------------------------------------------------------------
(* A request writes only what it holds: what the others know stands.        *)

Step(k) ==
    \/ \E d \in Deliveries : Post(k, d)
    \/ \E o \in Orgs, p \in ProviderIds : PostProvider(k, o, p)
    \/ CreateProvider(k)
    \/ Reject(k)
    \/ Lookup(k)
    \/ RecordConflict(k)
    \/ PersistPayload(k)
    \/ IndexResource(k)
    \/ Die(k)

WritesOwn(k) ==
    /\ req' = [req EXCEPT ![k] = req'[k]]
    /\ contended \subseteq contended' /\ conflicts \subseteq conflicts'
    /\ \A id \in ResourceIds :
         \/ resources'[id] = resources[id] /\ payloads'[id] = payloads[id]
         \/ Writing(k) /\ id = Envelope(k).resource /\ payloads'[id] # None
    /\ \A key \in Orgs \X ProviderIds :
         \/ providers'[key] = providers[key]
         \/ At(k, "create") /\ key = <<req[k].org, req[k].provider>>

\* What an ingesting request has in hand.
LEMMA EnvelopeFields ==
    ASSUME IngressTypeOK, NEW k \in Requests, Ingesting(k)
    PROVE  /\ Envelope(k).resource \in ResourceIds /\ Envelope(k).resource \in Keys
           /\ Envelope(k).body \in Bodies /\ Envelope(k).body # None
           /\ Envelope(k).declared \in Digests
           /\ req[k].org \in Orgs
BY IngestingTypes, IngressAssumption DEF Envelopes, DepRequest, Keys

\* What a registering request has in hand.
LEMMA ProviderFields ==
    ASSUME IngressTypeOK, NEW k \in Requests, At(k, "create")
    PROVE  /\ <<req[k].org, req[k].provider>> \in Orgs \X ProviderIds
           /\ req[k].endpoint = "providers"
BY CreatingTypes DEF ProviderRequest

\* Receipts are receipts.
LEMMA ReceivedType ==
    ASSUME IngressTypeOK, NEW k \in Requests, NEW r \in Received(k)
    PROVE  r \in Receipt /\ r.resource \in ResourceIds
<1>1. req[k] # None /\ req[k].endpoint # "providers"
  BY DEF Received
<1>2. req[k] \in DepRequest
  BY <1>1 DEF IngressTypeOK, ProviderRequest
<1>3. req[k].receipts \in Seq(Receipt)
  BY <1>2 DEF DepRequest
<1>4. PICK i \in 1..Len(req[k].receipts) : r = req[k].receipts[i]
  BY <1>1 DEF Received
<1>5. r \in Receipt
  BY <1>3, <1>4
<1> QED
  BY <1>5 DEF Receipt

\* Every step of a request writes only what the request holds.
LEMMA StepWritesOwn ==
    ASSUME IngressTypeOK, \A k \in Requests : First(k), NEW k \in Requests, Step(k)
    PROVE  WritesOwn(k)
<1>t. /\ payloads \in [ResourceIds -> Bodies \cup {None}]
      /\ resources \in [ResourceIds -> Resource \cup {None}]
      /\ providers \in [Orgs \X ProviderIds -> Requests \cup {None}]
      /\ req \in [Requests -> DepRequest \cup ProviderRequest \cup {None}]
  BY DEF IngressTypeOK
<1>1. ASSUME NEW d \in Deliveries, Post(k, d) PROVE WritesOwn(k)
  BY <1>1, <1>t DEF Post, WritesOwn
<1>2. ASSUME NEW o \in Orgs, NEW p \in ProviderIds, PostProvider(k, o, p) PROVE WritesOwn(k)
  BY <1>2, <1>t DEF PostProvider, WritesOwn, Contend
<1>3. CASE CreateProvider(k)
  <2>1. /\ req' = [req EXCEPT ![k].pc = "done"]
        /\ At(k, "create")
        /\ UNCHANGED <<payloads, resources, conflicts, deaths, contended>>
        /\ providers' = [providers EXCEPT ![<<req[k].org, req[k].provider>>] = k]
    BY <1>3 DEF CreateProvider
  <2>2. req' = [req EXCEPT ![k] = req'[k]]
    BY <2>1, <1>t
  <2>3. \A key \in Orgs \X ProviderIds :
          key # <<req[k].org, req[k].provider>> => providers'[key] = providers[key]
    BY <2>1, <1>t
  <2> QED
    BY <2>1, <2>2, <2>3 DEF WritesOwn
<1>4. CASE Reject(k)
  BY <1>4, ReceiveEffect DEF Reject, WritesOwn, Ingesting, Status
<1>5. CASE Lookup(k)
  <2>1. Ingesting(k) /\ UNCHANGED <<payloads, resources, conflicts, providers, deaths>>
    BY <1>5 DEF Lookup, Ingesting
  <2>2. contended \subseteq contended'
    BY <1>5 DEF Lookup, Contend
  <2>3. req' = [req EXCEPT ![k] = req'[k]]
    <3>1. CASE Receive(k, "duplicate")
      BY <2>1, <3>1, ReceiveEffect DEF Status
    <3>2. CASE req' = [req EXCEPT ![k].pc = "persist"]
      BY <1>t, <3>2
    <3>3. ASSUME NEW found, req' = [req EXCEPT ![k].pc = "conflict", ![k].found = found]
          PROVE  req' = [req EXCEPT ![k] = req'[k]]
      BY <1>t, <3>3
    <3> QED
      BY <1>5, <3>1, <3>2, <3>3 DEF Lookup
  <2> QED
    BY <2>1, <2>2, <2>3 DEF WritesOwn
<1>6. CASE RecordConflict(k)
  BY <1>6, ReceiveEffect DEF RecordConflict, WritesOwn, Ingesting, Status
<1>7. CASE PersistPayload(k)
  <2>1. /\ req' = [req EXCEPT ![k].pc = "index"]
        /\ payloads' = [payloads EXCEPT ![Envelope(k).resource] = Envelope(k).body]
        /\ UNCHANGED <<resources, conflicts, providers, deaths, contended>>
        /\ Ingesting(k) /\ Writing(k)
    BY <1>7 DEF PersistPayload, Ingesting, Writing
  <2>2. req' = [req EXCEPT ![k] = req'[k]]
    BY <2>1, <1>t
  <2>3. \A id \in ResourceIds :
          IF id = Envelope(k).resource THEN payloads'[id] # None ELSE payloads'[id] = payloads[id]
    BY <2>1, <1>t, EnvelopeFields
  <2> QED
    BY <2>1, <2>2, <2>3 DEF WritesOwn
<1>8. CASE IndexResource(k)
  <2>1. /\ Receive(k, "accepted") /\ Ingesting(k) /\ Writing(k) /\ At(k, "index")
        /\ UNCHANGED <<payloads, conflicts, providers, deaths, contended>>
    BY <1>8 DEF IndexResource, Ingesting, Writing
  <2>2. \A id \in ResourceIds : id # Envelope(k).resource => resources'[id] = resources[id]
    BY <1>8, <1>t DEF IndexResource
  <2>3. payloads[Envelope(k).resource] # None
    BY <2>1 DEF First
  <2>4. req' = [req EXCEPT ![k] = req'[k]]
    BY <2>1, ReceiveEffect DEF Status
  <2> QED
    BY <2>1, <2>2, <2>3, <2>4 DEF WritesOwn
<1>9. CASE Die(k)
  BY <1>9, <1>t DEF Die, WritesOwn
<1> QED
  BY <1>1, <1>2, <1>3, <1>4, <1>5, <1>6, <1>7, <1>8, <1>9 DEF Step

\* A row that is there, and its payload, stand; so does a provider.
LEMMA RegistrationStands ==
    ASSUME \A k \in Requests : First(k), NEW k \in Requests, WritesOwn(k)
    PROVE  /\ \A id \in ResourceIds \ contended :
                resources[id] # None => resources'[id] = resources[id] /\ payloads'[id] = payloads[id]
           /\ \A key \in (Orgs \X ProviderIds) \ contended :
                providers[key] # None => providers'[key] = providers[key]
BY DEF WritesOwn, First

\* What a receipt says stands.
LEMMA ReceiptStands ==
    ASSUME \A k \in Requests : First(k), NEW k \in Requests, WritesOwn(k),
           NEW org, NEW r, r.resource \in ResourceIds, ReceiptHolds(org, r)
    PROVE  ReceiptHolds(org, r)'
<1>1. SUFFICES ASSUME r.resource \notin contended'
               PROVE  ReceiptHolds(org, r)'
  BY DEF ReceiptHolds
<1>2. r.resource \notin contended /\ conflicts \subseteq conflicts'
  BY <1>1 DEF WritesOwn
<1>3. resources[r.resource] # None /\ resources'[r.resource] = resources[r.resource]
  BY <1>2, RegistrationStands DEF ReceiptHolds
<1> QED
  BY <1>2, <1>3 DEF ReceiptHolds

\* What the other requests know stands.
LEMMA OthersStand ==
    ASSUME Inv, NEW k \in Requests, WritesOwn(k), NEW j \in Requests \ {k}
    PROVE  First(j)' /\ Differs(j)' /\ Kept(j)'
<1>1. IngressTypeOK /\ Alone /\ (\A i \in Requests : First(i) /\ Differs(i) /\ Kept(i))
  BY DEF Inv
<1>2. req' = [req EXCEPT ![k] = req'[k]] /\ contended \subseteq contended'
  BY DEF WritesOwn
<1>3. /\ req'[j] = req[j] /\ Envelope(j)' = Envelope(j) /\ Received(j)' = Received(j)
      /\ \A pc : At(j, pc)' <=> At(j, pc)
  BY <1>1, <1>2, OthersKeep
<1>4. First(j)'
  <2>1. ASSUME Writing(j), Writing(k), Envelope(j).resource = Envelope(k).resource
        PROVE  Envelope(j).resource \in contended
    <3>1. Holds(j, Envelope(j).resource) /\ Holds(k, Envelope(j).resource)
      BY <2>1 DEF Holds, Writing
    <3>2. Envelope(j).resource \in Keys
      BY <1>1, <2>1, EnvelopeFields DEF Writing, Ingesting
    <3> QED
      BY <1>1, <3>1, <3>2 DEF Alone
  <2>2. ASSUME Writing(j)
        PROVE  /\ Envelope(j).resource \notin contended =>
                     /\ resources'[Envelope(j).resource] = resources[Envelope(j).resource]
                     /\ payloads'[Envelope(j).resource] = payloads[Envelope(j).resource]
               /\ payloads[Envelope(j).resource] # None => payloads'[Envelope(j).resource] # None
    <3>1. Envelope(j).resource \in ResourceIds
      BY <1>1, <2>2, EnvelopeFields DEF Writing, Ingesting
    <3> QED
      BY <2>1, <2>2, <3>1 DEF WritesOwn
  <2>3. ASSUME At(j, "create"), <<req[j].org, req[j].provider>> \notin contended
        PROVE  providers'[<<req[j].org, req[j].provider>>] = providers[<<req[j].org, req[j].provider>>]
    <3> DEFINE key == <<req[j].org, req[j].provider>>
    <3>1. key \in Orgs \X ProviderIds /\ key \in Keys
      BY <1>1, <2>3, ProviderFields DEF Keys
    <3>2. Holds(j, key)
      BY <2>3 DEF Holds
    <3>3. ~ (At(k, "create") /\ key = <<req[k].org, req[k].provider>>)
      BY <1>1, <2>3, <3>1, <3>2 DEF Alone, Holds
    <3> QED
      BY <3>1, <3>3 DEF WritesOwn
  <2> QED
    BY <1>1, <1>2, <1>3, <2>2, <2>3 DEF First, Writing, validate_envelope
<1>5. Differs(j)'
  <2>1. SUFFICES ASSUME At(j, "conflict")
                 PROVE  Differs(j)'
    BY <1>3 DEF Differs
  <2>2. Envelope(j).resource \in ResourceIds
    BY <1>1, <2>1, EnvelopeFields DEF Ingesting
  <2> QED
    BY <1>1, <1>2, <1>3, <2>1, <2>2, RegistrationStands DEF Differs
<1>6. Kept(j)'
  <2>1. SUFFICES ASSUME NEW r \in Received(j), r.status # "rejected"
                 PROVE  ReceiptHolds(req[j].org, r)'
    BY <1>3 DEF Kept
  <2>2. PICK org : org = req[j].org
    OBVIOUS
  <2>3. r.resource \in ResourceIds /\ ReceiptHolds(org, r)
    BY <1>1, <2>1, <2>2, ReceivedType DEF Kept
  <2>4. ReceiptHolds(org, r)'
    BY <1>1, <2>3, ReceiptStands
  <2> QED
    BY <1>3, <2>2, <2>4
<1> QED
  BY <1>4, <1>5, <1>6

-----------------------------------------------------------------------------
(* What a request knows after its own step.                                 *)

\* It holds a key only if it did before, or nobody did or the key is
\* contended now.
LEMMA StepAlone ==
    ASSUME Inv, NEW k \in Requests, Step(k), WritesOwn(k)
    PROVE  Alone'
<1>0. IngressTypeOK /\ Alone /\ req' = [req EXCEPT ![k] = req'[k]] /\ contended \subseteq contended'
  BY DEF Inv, WritesOwn
<1>t. req \in [Requests -> DepRequest \cup ProviderRequest \cup {None}]
  BY <1>0 DEF IngressTypeOK
<1>1. ASSUME NEW key \in Keys, Holds(k, key)', ~ Holds(k, key)
      PROVE  key \in contended' \/ \A j \in Requests : ~ Holds(j, key)
  <2>1. ASSUME NEW d \in Deliveries, Post(k, d) PROVE FALSE
    BY <1>1, <1>t, <2>1 DEF Post, Holds, At
  <2>2. ASSUME NEW o \in Orgs, NEW p \in ProviderIds, PostProvider(k, o, p)
        PROVE  key \in contended' \/ \A j \in Requests : ~ Holds(j, key)
    <3>1. PICK pc \in {"create", "refused"} :
            /\ req' = [req EXCEPT ![k] = [endpoint |-> "providers", org |-> o, provider |-> p, pc |-> pc]]
            /\ pc = "create" => Contend(<<o, p>>, FALSE)
      BY <2>2 DEF PostProvider
    <3>2. key = <<o, p>> /\ pc = "create"
      BY <1>1, <1>t, <3>1 DEF Holds, At
    <3> QED
      BY <3>1, <3>2 DEF Contend
  <2>3. CASE CreateProvider(k)
    BY <1>1, <1>t, <2>3 DEF CreateProvider, Holds, At
  <2>4. ASSUME Ingesting(k), NEW status \in Status, Receive(k, status) PROVE FALSE
    <3>1. req'[k].pc \in {"lookup", "done"}
      BY <1>0, <2>4, ReceiveEffect
    <3> QED
      BY <1>1, <3>1 DEF Holds, At
  <2>5. CASE Lookup(k)
    <3>1. Ingesting(k)
      BY <2>5 DEF Lookup, Ingesting
    <3>2. CASE Receive(k, "duplicate")
      BY <2>4, <3>1, <3>2 DEF Status
    <3>3. CASE /\ req' = [req EXCEPT ![k].pc = "persist"]
               /\ Contend(Envelope(k).resource, resources[Envelope(k).resource] # None)
      <4>1. req[k] \in DepRequest /\ req'[k] = [req[k] EXCEPT !.pc = "persist"]
        BY <1>0, <3>1, <3>3, MoveTypes, IngestingTypes
      <4>2. key = Envelope(k).resource
        BY <1>1, <4>1 DEF Holds, At, Envelope, DepRequest
      <4> QED
        BY <3>3, <4>2 DEF Contend
    <3>4. ASSUME NEW found, req' = [req EXCEPT ![k].pc = "conflict", ![k].found = found]
          PROVE  FALSE
      <4>1. req[k] \in DepRequest /\ req'[k] = [req[k] EXCEPT !.pc = "conflict", !.found = found]
        BY <1>0, <1>t, <3>1, <3>4, IngestingTypes
      <4>2. req'[k].pc = "conflict"
        BY <4>1 DEF DepRequest
      <4> QED
        BY <1>1, <4>2 DEF Holds, At
    <3> QED
      BY <2>5, <3>2, <3>3, <3>4 DEF Lookup
  <2>6. CASE PersistPayload(k)
    <3>1. Ingesting(k) /\ At(k, "persist") /\ req' = [req EXCEPT ![k].pc = "index"]
      BY <2>6 DEF PersistPayload, Ingesting
    <3>2. req[k] \in DepRequest /\ req'[k] = [req[k] EXCEPT !.pc = "index"]
      BY <1>0, <3>1, MoveTypes, IngestingTypes
    <3> QED
      BY <1>1, <3>1, <3>2 DEF Holds, At, Envelope, DepRequest
  <2>7. CASE Die(k)
    <3>1. req'[k] = [req[k] EXCEPT !.pc = "dead"] /\ req[k] \in DepRequest \cup ProviderRequest
      BY <1>0, <1>t, <2>7, IngestingTypes, CreatingTypes DEF Die, Ingesting
    <3>2. req'[k].pc = "dead"
      BY <3>1 DEF DepRequest, ProviderRequest
    <3> QED
      BY <1>1, <3>2 DEF Holds, At
  <2> QED
    BY <2>1, <2>2, <2>3, <2>4, <2>5, <2>6, <2>7
       DEF Step, Reject, RecordConflict, IndexResource, Ingesting, Status
<1>2. ASSUME NEW i \in Requests, NEW j \in Requests, NEW key \in Keys \ contended',
             Holds(i, key)', Holds(j, key)'
      PROVE  i = j
  <2>1. \A m \in Requests \ {k} : Holds(m, key)' <=> Holds(m, key)
    BY <1>0, OthersKeep
  <2> QED
    BY <1>0, <1>1, <1>2, <2>1 DEF Alone
<1> QED
  BY <1>2 DEF Alone

\* A request that has received is at its next lookup, or done; what its
\* receipts say holds if the new one does.
LEMMA AfterReceive ==
    ASSUME Inv, NEW k \in Requests, WritesOwn(k), Ingesting(k),
           NEW status \in Status, Receive(k, status), NEW r,
           r = [resource |-> Envelope(k).resource, status |-> status,
                digest |-> Envelope(k).declared],
           status = "rejected" \/ ReceiptHolds(req[k].org, r)'
    PROVE  First(k)' /\ Differs(k)' /\ Kept(k)'
<1> DEFINE receipt == [resource |-> Envelope(k).resource, status |-> status,
                       digest |-> Envelope(k).declared]
<1>0. IngressTypeOK /\ (\A i \in Requests : First(i) /\ Kept(i))
  BY DEF Inv
<1>1. /\ req'[k].pc \in {"lookup", "done"} /\ req'[k].org = req[k].org
      /\ Received(k)' \subseteq Received(k) \cup {receipt}
  BY <1>0, ReceiveEffect
<1>2. ~ Writing(k)' /\ ~ At(k, "create")' /\ ~ At(k, "index")' /\ ~ At(k, "conflict")'
  BY <1>1 DEF Writing, At
<1>3. ASSUME NEW old \in Received(k), old.status # "rejected"
      PROVE  ReceiptHolds(req[k].org, old)'
  <2>1. PICK org : org = req[k].org
    OBVIOUS
  <2>2. old.resource \in ResourceIds /\ ReceiptHolds(org, old)
    BY <1>0, <1>3, <2>1, ReceivedType DEF Kept
  <2>3. ReceiptHolds(org, old)'
    BY <1>0, <2>2, ReceiptStands
  <2> QED
    BY <1>1, <2>1, <2>3
<1>4. receipt.status = status
  OBVIOUS
<1> QED
  BY <1>1, <1>2, <1>3, <1>4 DEF First, Differs, Kept

\* A request that has not received keeps its receipts.
LEMMA AfterMove ==
    ASSUME Inv, NEW k \in Requests, WritesOwn(k),
           Received(k)' \subseteq Received(k), req'[k].org = req[k].org
    PROVE  Kept(k)'
<1>0. IngressTypeOK /\ (\A i \in Requests : First(i) /\ Kept(i))
  BY DEF Inv
<1>1. SUFFICES ASSUME NEW r \in Received(k), r.status # "rejected"
               PROVE  ReceiptHolds(req[k].org, r)'
  BY DEF Kept
<1>2. PICK org : org = req[k].org
  OBVIOUS
<1>3. r.resource \in ResourceIds /\ ReceiptHolds(org, r)
  BY <1>0, <1>1, <1>2, ReceivedType DEF Kept
<1>4. ReceiptHolds(org, r)'
  BY <1>0, <1>3, ReceiptStands
<1> QED
  BY <1>2, <1>4

\* What a request knows after its own step.
LEMMA OwnStep ==
    ASSUME Inv, NEW k \in Requests, Step(k), WritesOwn(k)
    PROVE  First(k)' /\ Differs(k)' /\ Kept(k)'
<1>0. /\ IngressTypeOK /\ Alone
      /\ \A i \in Requests : First(i) /\ Differs(i) /\ Kept(i)
      /\ \A id \in ResourceIds : Backed(id)
      /\ contended \subseteq contended'
  BY DEF Inv, WritesOwn
<1>t. /\ req \in [Requests -> DepRequest \cup ProviderRequest \cup {None}]
      /\ resources \in [ResourceIds -> Resource \cup {None}]
      /\ payloads \in [ResourceIds -> Bodies \cup {None}]
      /\ providers \in [Orgs \X ProviderIds -> Requests \cup {None}]
  BY <1>0 DEF IngressTypeOK
<1>1. ASSUME NEW d \in Deliveries, Post(k, d)
      PROVE  First(k)' /\ Differs(k)' /\ Kept(k)'
  <2>1. req'[k].pc \in {"lookup", "done"} /\ req'[k].receipts = <<>>
    BY <1>1, <1>t DEF Post
  <2>2. Received(k)' = {}
    BY <2>1 DEF Received
  <2> QED
    BY <2>1, <2>2 DEF First, Differs, Kept, Writing, At
<1>2. ASSUME NEW o \in Orgs, NEW p \in ProviderIds, PostProvider(k, o, p)
      PROVE  First(k)' /\ Differs(k)' /\ Kept(k)'
  <2>1. PICK pc \in {"create", "refused"} :
          /\ req' = [req EXCEPT ![k] = [endpoint |-> "providers", org |-> o, provider |-> p, pc |-> pc]]
          /\ pc = "create" => providers[<<o, p>>] = None
          /\ UNCHANGED providers
    BY <1>2 DEF PostProvider
  <2>2. /\ req'[k].pc = pc /\ req'[k].endpoint = "providers"
        /\ req'[k].org = o /\ req'[k].provider = p
    BY <2>1, <1>t
  <2>3. Received(k)' = {}
    BY <2>2 DEF Received
  <2> QED
    BY <2>1, <2>2, <2>3 DEF First, Differs, Kept, Writing, At
<1>3. CASE CreateProvider(k)
  <2>1. req[k] \in ProviderRequest /\ req'[k] = [req[k] EXCEPT !.pc = "done"]
    BY <1>0, <1>t, <1>3, CreatingTypes DEF CreateProvider
  <2>2. req'[k].pc = "done" /\ req'[k].endpoint = "providers"
    BY <2>1 DEF ProviderRequest
  <2>3. Received(k)' = {}
    BY <2>2 DEF Received
  <2> QED
    BY <2>2, <2>3 DEF First, Differs, Kept, Writing, At
<1>4. CASE Reject(k)
  <2>1. PICK r : r = [resource |-> Envelope(k).resource, status |-> "rejected",
                      digest |-> Envelope(k).declared]
    OBVIOUS
  <2> QED
    BY <1>4, <2>1, AfterReceive DEF Reject, Ingesting, Status
<1>5. CASE Lookup(k)
  <2> DEFINE e == Envelope(k)
             existing == get_resource(e.resource, req[k].org)
  <2>0. /\ Ingesting(k) /\ UNCHANGED <<payloads, resources, conflicts, providers, deaths>>
        /\ validate_envelope(e) = {}
    BY <1>5 DEF Lookup, Ingesting
  <2>1. /\ req[k] \in DepRequest /\ req[k].at \in 1..Len(req[k].envelopes)
        /\ e.resource \in ResourceIds /\ e.declared \in Digests /\ req[k].org \in Orgs
    BY <1>0, <2>0, IngestingTypes, EnvelopeFields
  <2>2. existing # None => /\ existing = resources[e.resource] /\ resources[e.resource] # None
                           /\ resources[e.resource].org = req[k].org
                           /\ existing.digest \in Digests
    BY <1>t, <2>1 DEF get_resource, Resource
  <2>3. CASE /\ existing = None
             /\ req' = [req EXCEPT ![k].pc = "persist"]
             /\ Contend(e.resource, resources[e.resource] # None)
    <3>1. req'[k] = [req[k] EXCEPT !.pc = "persist"]
      BY <1>t, <2>3
    <3>2. /\ req'[k].pc = "persist" /\ req'[k].org = req[k].org /\ Envelope(k)' = Envelope(k)
          /\ Received(k)' \subseteq Received(k)
      BY <2>0, <2>1, <3>1 DEF DepRequest, Envelope, Received, Ingesting, At
    <3>3. Kept(k)'
      BY <3>2, AfterMove
    <3>4. e.resource \notin contended' => resources[e.resource] = None
      BY <2>3 DEF Contend
    <3>5. First(k)' /\ Differs(k)'
      BY <2>0, <3>2, <3>4 DEF First, Differs, Writing, At, validate_envelope
    <3> QED
      BY <3>3, <3>5
  <2>4. CASE existing # None /\ existing.digest = e.declared /\ Receive(k, "duplicate")
    <3>1. PICK r : r = [resource |-> Envelope(k).resource, status |-> "duplicate",
                        digest |-> Envelope(k).declared]
      OBVIOUS
    <3>2. req'[k].org = req[k].org
      BY <1>0, <2>0, <2>4, ReceiveEffect DEF Status
    <3>3. /\ r.resource = e.resource /\ r.digest = e.declared /\ r.status = "duplicate"
      BY <3>1
    <3>4. ReceiptHolds(req[k].org, r)'
      BY <2>0, <2>2, <2>4, <3>2, <3>3 DEF ReceiptHolds
    <3> QED
      BY <2>0, <2>4, <3>1, <3>4, AfterReceive DEF Status
  <2>5. CASE /\ existing # None /\ existing.digest # e.declared
             /\ req' = [req EXCEPT ![k].pc = "conflict", ![k].found = existing.digest]
    <3>1. PICK found : found = existing.digest
      OBVIOUS
    <3>2. req'[k] = [req[k] EXCEPT !.pc = "conflict", !.found = found]
      BY <1>t, <2>5, <3>1
    <3>3. /\ req'[k].pc = "conflict" /\ req'[k].found = found
          /\ req'[k].org = req[k].org /\ Envelope(k)' = Envelope(k)
          /\ Received(k)' \subseteq Received(k)
      BY <2>0, <2>1, <3>2 DEF DepRequest, Envelope, Received, Ingesting, At
    <3>4. Kept(k)'
      BY <3>3, AfterMove
    <3>5. Differs(k)'
      BY <2>0, <2>2, <2>5, <3>1, <3>3 DEF Differs
    <3>6. First(k)'
      BY <3>3 DEF First, Writing, At
    <3> QED
      BY <3>4, <3>5, <3>6
  <2> QED
    BY <1>5, <2>3, <2>4, <2>5 DEF Lookup
<1>6. CASE RecordConflict(k)
  <2>1. PICK r : r = [resource |-> Envelope(k).resource, status |-> "quarantined",
                      digest |-> Envelope(k).declared]
    OBVIOUS
  <2>2. /\ Ingesting(k) /\ At(k, "conflict") /\ Receive(k, "quarantined") /\ UNCHANGED resources
        /\ conflicts' = conflicts \cup
             {[org |-> req[k].org, resource |-> Envelope(k).resource,
               existing |-> req[k].found, conflicting |-> Envelope(k).declared]}
    BY <1>6 DEF RecordConflict, Ingesting
  <2>3. req'[k].org = req[k].org
    BY <1>0, <2>2, ReceiveEffect DEF Status
  <2>4. r.resource = Envelope(k).resource /\ r.digest = Envelope(k).declared /\ r.status = "quarantined"
    BY <2>1
  <2>5. Envelope(k).resource \notin contended =>
          /\ resources[Envelope(k).resource] # None
          /\ resources[Envelope(k).resource].digest = req[k].found
    BY <1>0, <2>2 DEF Differs
  <2>6. ReceiptHolds(req[k].org, r)'
    BY <1>0, <2>2, <2>3, <2>4, <2>5 DEF ReceiptHolds
  <2> QED
    BY <2>1, <2>2, <2>6, AfterReceive DEF Status
<1>7. CASE PersistPayload(k)
  <2>1. /\ Ingesting(k) /\ Writing(k) /\ req' = [req EXCEPT ![k].pc = "index"]
        /\ payloads' = [payloads EXCEPT ![Envelope(k).resource] = Envelope(k).body]
        /\ UNCHANGED <<resources, contended>>
    BY <1>7 DEF PersistPayload, Ingesting, Writing
  <2>2. /\ req[k] \in DepRequest /\ req'[k] = [req[k] EXCEPT !.pc = "index"]
        /\ Envelope(k).resource \in ResourceIds /\ Envelope(k).body # None
    BY <1>0, <2>1, MoveTypes, IngestingTypes, EnvelopeFields
  <2>3. /\ req'[k].pc = "index" /\ req'[k].org = req[k].org /\ Envelope(k)' = Envelope(k)
        /\ Received(k)' \subseteq Received(k)
    BY <2>1, <2>2 DEF DepRequest, Envelope, Received, Ingesting, At
  <2>4. Kept(k)'
    BY <2>3, AfterMove
  <2>5. payloads'[Envelope(k).resource] = Envelope(k).body
    BY <1>t, <2>1, <2>2
  <2>6. First(k)' /\ Differs(k)'
    BY <1>0, <2>1, <2>2, <2>3, <2>5 DEF First, Differs, Writing, At, validate_envelope
  <2> QED
    BY <2>4, <2>6
<1>8. CASE IndexResource(k)
  <2>1. PICK r : r = [resource |-> Envelope(k).resource, status |-> "accepted",
                      digest |-> Envelope(k).declared]
    OBVIOUS
  <2>2. Ingesting(k) /\ Receive(k, "accepted")
    BY <1>8 DEF IndexResource, Ingesting
  <2>3. /\ req'[k].org = req[k].org
        /\ r.resource = Envelope(k).resource /\ r.digest = Envelope(k).declared /\ r.status = "accepted"
    BY <1>0, <2>1, <2>2, ReceiveEffect DEF Status
  <2>4. /\ resources'[Envelope(k).resource] # None
        /\ resources'[Envelope(k).resource].org = req[k].org
        /\ resources'[Envelope(k).resource].digest = Envelope(k).declared
    <3>1. /\ Envelope(k).resource \in ResourceIds /\ Envelope(k).declared \in Digests
          /\ req[k].org \in Orgs
      BY <1>0, <2>2, EnvelopeFields
    <3>2. PICK owner \in Orgs : resources'[Envelope(k).resource] =
            [owner |-> owner, org |-> req[k].org, digest |-> Envelope(k).declared]
      BY <1>8, <1>t, <3>1 DEF IndexResource, Resource
    <3>3. resources'[Envelope(k).resource] \in Resource
      BY <3>1, <3>2 DEF Resource
    <3> QED
      BY <3>2, <3>3, IngressAssumption
  <2>5. ReceiptHolds(req[k].org, r)'
    BY <2>3, <2>4 DEF ReceiptHolds
  <2> QED
    BY <2>1, <2>2, <2>5, AfterReceive DEF Status
<1>9. CASE Die(k)
  <2>1. /\ req'[k] = [req[k] EXCEPT !.pc = "dead"] /\ req[k] \in DepRequest \cup ProviderRequest
        /\ req[k] # None
    BY <1>0, <1>t, <1>9, IngestingTypes, CreatingTypes DEF Die, Ingesting, At
  <2>2. /\ req'[k].pc = "dead" /\ req'[k].org = req[k].org
        /\ Received(k)' \subseteq Received(k)
    <3>1. CASE req[k] \in DepRequest
      BY <2>1, <3>1 DEF DepRequest, Received
    <3>2. CASE req[k] \in ProviderRequest
      BY <2>1, <3>2 DEF ProviderRequest, Received
    <3> QED
      BY <2>1, <3>1, <3>2
  <2>3. Kept(k)'
    BY <2>2, AfterMove
  <2> QED
    BY <2>2, <2>3 DEF First, Differs, Writing, At
<1> QED
  BY <1>1, <1>2, <1>3, <1>4, <1>5, <1>6, <1>7, <1>8, <1>9 DEF Step

\* A row that is there has its payload, after every step too.
LEMMA StepBacked ==
    ASSUME Inv, NEW k \in Requests, Step(k), WritesOwn(k), NEW id \in ResourceIds
    PROVE  Backed(id)'
<1>0. /\ IngressTypeOK /\ Backed(id) /\ First(k) /\ contended \subseteq contended'
      /\ resources \in [ResourceIds -> Resource \cup {None}]
  BY DEF Inv, WritesOwn, IngressTypeOK
<1>1. CASE resources'[id] = resources[id] /\ payloads'[id] = payloads[id]
  BY <1>0, <1>1 DEF Backed, RowHolds
<1>2. CASE Writing(k) /\ id = Envelope(k).resource /\ payloads'[id] # None
  <2>1. CASE UNCHANGED resources
    BY <1>0, <1>2, <2>1 DEF Backed, First
  <2>2. CASE IndexResource(k)
    <3>1. /\ At(k, "index") /\ Ingesting(k) /\ UNCHANGED <<payloads, contended>>
      BY <2>2 DEF IndexResource, Ingesting
    <3>2. SUFFICES ASSUME id \notin contended
                   PROVE  RowHolds(id)'
      BY <1>2, <3>1 DEF Backed
    <3>3. resources[id] = None /\ payloads[id] = Envelope(k).body /\ validate_envelope(Envelope(k)) = {}
      BY <1>0, <1>2, <3>1, <3>2 DEF First
    <3>4. resources'[id] = [owner |-> req[k].org, org |-> req[k].org,
                            digest |-> Envelope(k).declared]
      BY <1>0, <1>2, <2>2, <3>3 DEF IndexResource
    <3>5. Envelope(k).declared = compute_digest(Envelope(k).body)
      BY <3>3 DEF validate_envelope
    <3> QED
      BY <3>1, <3>3, <3>4, <3>5 DEF RowHolds, compute_digest
  <2> QED
    BY <2>1, <2>2 DEF Step, Post, PostProvider, CreateProvider, Reject, Lookup, RecordConflict,
                      PersistPayload, Die
<1> QED
  BY <1>1, <1>2 DEF WritesOwn

\* A conflict row names what the lookup found, and it was another digest.
LEMMA StepDiffers ==
    ASSUME Inv, NEW k \in Requests, Step(k)
    PROVE  \A c \in conflicts' : c.existing # c.conflicting
<1>1. (\A c \in conflicts : c.existing # c.conflicting) /\ Differs(k)
  BY DEF Inv
<1>2. CASE RecordConflict(k)
  BY <1>1, <1>2 DEF RecordConflict, Differs
<1>3. CASE UNCHANGED conflicts
  BY <1>1, <1>3
<1> QED
  BY <1>2, <1>3 DEF Step, Post, PostProvider, CreateProvider, Reject, Lookup, PersistPayload,
                    IndexResource, Die

\* The invariant is inductive.
LEMMA InvInit == IngressInit => Inv
<1> SUFFICES ASSUME IngressInit
             PROVE  Inv
  OBVIOUS
<1>1. IngressTypeOK
  BY InitType
<1>2. \A k \in Requests : \A pc : ~ At(k, pc)
  BY DEF IngressInit, At
<1>3. \A k \in Requests : Received(k) = {}
  BY DEF IngressInit, Received
<1>4. \A id \in ResourceIds : resources[id] = None
  BY DEF IngressInit
<1>5. conflicts = {}
  BY DEF IngressInit
<1>6. \A k \in Requests : First(k) /\ Differs(k) /\ Kept(k)
  BY <1>2, <1>3 DEF First, Differs, Kept, Writing
<1>7. Alone
  BY <1>2 DEF Alone, Holds
<1> QED
  BY <1>1, <1>4, <1>5, <1>6, <1>7 DEF Inv, Backed

\* ... every step preserves it,
LEMMA InvStep == Inv /\ [IngressNext]_ingressVars => Inv'
<1> SUFFICES ASSUME Inv, [IngressNext]_ingressVars
             PROVE  Inv'
  OBVIOUS
<1>1. IngressTypeOK'
  BY StepType DEF Inv
<1>2. ASSUME NEW k \in Requests, Step(k)
      PROVE  Inv'
  <2>1. WritesOwn(k)
    BY <1>2, StepWritesOwn DEF Inv
  <2>2. Alone'
    BY <1>2, <2>1, StepAlone
  <2>3. \A j \in Requests : First(j)' /\ Differs(j)' /\ Kept(j)'
    BY <1>2, <2>1, OwnStep, OthersStand
  <2>4. \A id \in ResourceIds : Backed(id)'
    BY <1>2, <2>1, StepBacked
  <2>5. \A c \in conflicts' : c.existing # c.conflicting
    BY <1>2, StepDiffers
  <2> QED
    BY <1>1, <2>2, <2>3, <2>4, <2>5 DEF Inv
<1>3. CASE UNCHANGED ingressVars
  <2>1. UNCHANGED <<payloads, resources, conflicts, providers, req, deaths, contended>>
    BY <1>3 DEF ingressVars
  <2>2. Alone'
    BY <2>1 DEF Inv, Alone, Holds, At, Envelope
  <2>3. ASSUME NEW k \in Requests PROVE First(k)' /\ Differs(k)' /\ Kept(k)'
    <3>1. First(k) /\ Differs(k) /\ Kept(k)
      BY DEF Inv
    <3>2. First(k)' /\ Differs(k)'
      BY <2>1, <3>1 DEF First, Differs, Writing, At, Envelope, validate_envelope
    <3>3. Kept(k)'
      BY <2>1, <3>1 DEF Kept, Received, ReceiptHolds
    <3> QED
      BY <3>2, <3>3
  <2>4. \A id \in ResourceIds : Backed(id)'
    BY <2>1 DEF Inv, Backed, RowHolds
  <2> QED
    BY <1>1, <2>1, <2>2, <2>3, <2>4 DEF Inv
<1> QED
  BY <1>2, <1>3 DEF IngressNext, Step

-----------------------------------------------------------------------------
(* The theorems. *)

\* In every behaviour, whatever the requests and however they interleave,
\* what they know of the rows they hold is true.
THEOREM IngressInvariance == IngressSpec => []Inv
<1> QED
  BY InvInit, InvStep, PTL DEF IngressSpec

\* Every variable of the ingress always has its type.
THEOREM IngressTypeCorrect == IngressSpec => []IngressTypeOK
<1>1. Inv => IngressTypeOK
  BY DEF Inv
<1> QED
  BY <1>1, IngressInvariance, PTL

\* What a client was told of an envelope stays true (ingress.py:72-127).
THEOREM ReceiptsAlwaysHold == IngressSpec => []ReceiptsHold
<1>1. Inv => ReceiptsHold
  <2> SUFFICES ASSUME Inv, NEW k \in Requests, NEW r \in Received(k), r.resource \notin contended
               PROVE  LET row == resources[r.resource]
                      IN  /\ r.status \in {"accepted", "duplicate"} =>
                             /\ row # None /\ row.digest = r.digest /\ row.org = req[k].org
                             /\ r.resource \in list_resources(req[k].org)
                             /\ compute_digest(payloads[r.resource]) = r.digest
                          /\ r.status = "quarantined" =>
                             [org |-> req[k].org, resource |-> r.resource,
                              existing |-> row.digest, conflicting |-> r.digest] \in conflicts
    BY DEF ReceiptsHold
  <2>1. r.resource \in ResourceIds
    BY ReceivedType DEF Inv
  <2>2. r.status # "rejected" => ReceiptHolds(req[k].org, r)
    BY DEF Inv, Kept
  <2>3. resources[r.resource] # None => RowHolds(r.resource)
    BY <2>1 DEF Inv, Backed
  <2> QED
    BY <2>1, <2>2, <2>3 DEF ReceiptHolds, RowHolds, list_resources
<1> QED
  BY <1>1, IngressInvariance, PTL

\* A row of the index always has a payload, a conflict two digests
\* (ingress.py:86-121).
THEOREM IndexAlwaysBacked == IngressSpec => []IndexIsBacked
<1>1. Inv => IndexIsBacked
  BY DEF Inv, Backed, IndexIsBacked
<1> QED
  BY <1>1, IngressInvariance, PTL

\* No step changes what was registered first (ingress.py:85-121).
THEOREM FirstStands == IngressSpec => FirstRegistrationStands
<1> DEFINE Stands ==
      /\ \A id \in ResourceIds :
            resources[id] # None /\ id \notin contended =>
                resources'[id] = resources[id] /\ payloads'[id] = payloads[id]
      /\ \A key \in Orgs \X ProviderIds :
            providers[key] # None /\ key \notin contended => providers'[key] = providers[key]
<1>1. Inv /\ [IngressNext]_ingressVars => [Stands]_ingressVars
  <2> SUFFICES ASSUME Inv, NEW k \in Requests, Step(k)
               PROVE  Stands
    BY DEF IngressNext, Step
  <2>1. IngressTypeOK /\ \A i \in Requests : First(i)
    BY DEF Inv
  <2>2. WritesOwn(k)
    BY <2>1, StepWritesOwn
  <2> QED
    BY <2>1, <2>2, RegistrationStands
<1> QED
  BY <1>1, IngressInvariance, PTL DEF IngressSpec, FirstRegistrationStands
=============================================================================

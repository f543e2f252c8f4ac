--------------------------- MODULE AssessmentProofs ---------------------------
(***************************************************************************)
(* Proofs about EvidenceContext, Sweep and CassetteReplay: that a          *)
(* resolution accounts for what it leaves out, that linked records agree   *)
(* on an identity, that a sweep's plan is whole, its candidates are backed *)
(* and its rules agree with the levels they give, that a replay answers    *)
(* from the recording, and that every row of the three has its type.       *)
(*                                                                         *)
(* ConsideredInv counts the conflict rows that a request has still to      *)
(* write as written: with them, what it judged is accounted for from the   *)
(* moment it is judged (LeftOut), and rows are only added or resolved.     *)
(* IdentityInv says of each record from which end the links it was reached *)
(* over were followed, and that no record it knew had that end as its      *)
(* identity: the links themselves may be anything by now.  PlanningInv     *)
(* says that the jobs a run has and those its planner has yet to write are *)
(* its plan, SweepInv what each slot of a sweep holds of its run, its jobs *)
(* and its record, and that a level is never above the one that the record *)
(* itself gives (Ranks, LevelGrows).  ReplayInv says how far each of the   *)
(* two lookups of a replay has gone in the calls recorded.                 *)
(* The types need one thing more of each slot: RowsTyped, that the rows a  *)
(* build holds are of the record it created.                               *)
(***************************************************************************)
EXTENDS MCAssessment, TLAPS, FiniteSetTheorems, SequenceTheorems, WellFoundedInduction
-----------------------------------------------------------------------------
(* EvidenceContext: the invariant.                                          *)

ConflictFields == {"der", "key", "a", "b", "resolution"}

IsList(f) == /\ DOMAIN f \in SUBSET Nat /\ IsFiniteSet(DOMAIN f)
             /\ \A i \in DOMAIN f : f[i] \in BindingPosts

(* Every binding that was considered is in the trace or accounted for.      *)
Explained(t, rows) ==
    \A cb \in Range(t.considered) : cb.id \notin t.included =>
        \/ \E c \in rows : c.der = t.der /\ c.key = GroupKey(cb)
        \/ \E x \in Range(t.considered) :
             /\ GroupKey(x) = GroupKey(cb) /\ x.id \in t.included
             /\ \/ Rank(x) > Rank(cb)
                \/ Rank(x) = Rank(cb) /\ x.authority = "customer_confirmed"

(* The rows that a request has still to write count as written.             *)
Considers(b, rows) ==
    /\ b.pc = "judge" => IsList(b.candidates)
    /\ b.pc = "write" =>
         /\ DOMAIN b = {"pc", "at", "pending", "trace"}
         /\ \A c \in b.pending : DOMAIN c = ConflictFields
         /\ Explained(b.trace, rows \cup b.pending)

ConsideredInv ==
    /\ bindings \in Seq(BindingPosts)
    /\ \A c \in contextConflicts : DOMAIN c = ConflictFields
    /\ Len(traces) \in Nat
    /\ traces = [k \in 1..Len(traces) |-> traces[k]]
    /\ \A k \in DOMAIN traces : Explained(traces[k], contextConflicts)
    /\ DOMAIN building = Builders
    /\ \A w \in Builders : Considers(building[w], contextConflicts)

RecordFields == {"resources", "identity", "method", "trace", "bindings", "known", "over"}

(* A link between e led to the identity: one end is the identity, and the   *)
(* other was the identity of none of the records there.                     *)
LedTo(e, identity, known, rs) ==
    \E r, q \in ResourceNames :
      /\ e = {r, q} /\ identity = {q}
      /\ \A j \in 1..known : rs[j].identity # {r}

(* What a record says of its resolution.                                    *)
FoundOver(d, rs) ==
    /\ DOMAIN d = RecordFields
    /\ d.known \in 0..Len(rs)
    /\ \A e \in d.over : LedTo(e, d.identity, d.known, rs)

LinkRow == {row \in LinkAssertion : \E source, target \in ResourceNames : row.ends = {source, target}}

LinksInv ==
    /\ links \in [LinkIds -> LinkRow \cup {Unset}]
    /\ \A w \in Builders : building[w].pc = "link" =>
         building[w].link \in LinkIds /\ building[w].row \in LinkRow

IdentityInv ==
    /\ DOMAIN building = Builders
    /\ LinksInv
    /\ Len(records) \in Nat
    /\ records = [k \in 1..Len(records) |-> records[k]]
    /\ \A k \in 1..Len(records) : FoundOver(records[k], records)
    /\ \A w \in Builders : building[w].pc = "create" => FoundOver(building[w].der, records)

-----------------------------------------------------------------------------
(* EvidenceContext: ties.                                                   *)

(* A set of naturals that is not empty has a least element.                 *)
LEMMA LeastNat ==
    ASSUME NEW S, S \subseteq Nat, S # {}
    PROVE  \E m \in S : \A x \in S : m <= x
<1>1. PICK m \in S : \A x \in S : ~ (<<x, m>> \in OpToRel(<, Nat))
  BY NatLessThanWellFounded, WFMin, Zenon
<1>2. ASSUME NEW x \in S PROVE m <= x
  <2>1. ~ (<<x, m>> \in OpToRel(<, Nat))
    BY <1>1
  <2>2. x \in Nat /\ m \in Nat
    OBVIOUS
  <2>3. ~ (x < m)
    BY <2>1, <2>2 DEF OpToRel
  <2> QED BY <2>2, <2>3
<1> QED BY <1>2

(* The least element of a set of naturals is in it and below the others.    *)
LEMMA MinOf ==
    ASSUME NEW S, S \subseteq Nat, S # {}
    PROVE  Min(S) \in S /\ \A x \in S : Min(S) <= x
<1> DEFINE Least(m) == \A x \in S : m <= x
<1>1. \E m \in S : Least(m)
  BY LeastNat
<1>2. Min(S) = CHOOSE m \in S : Least(m)
  BY Zenon DEF Min
<1> HIDE DEF Least
<1>3. Min(S) \in S /\ Least(Min(S))
  BY <1>1, <1>2, Zenon
<1> QED BY <1>3 DEF Least

(* Every binding that can be posted has a rank.                             *)
LEMMA Ranked == ASSUME ContextAssumption, NEW cb \in BindingPosts PROVE Rank(cb) \in 0..4
<1>1. PICK a \in DOMAIN AUTHORITY_RANK : a = cb.authority
  BY DEF ContextAssumption
<1>2. AUTHORITY_RANK[a] \in 0..4
  BY DEF AUTHORITY_RANK
<1> QED BY <1>1, <1>2 DEF Rank

(* The first of the ties is of the key, and outranks or ties with all.      *)
LEMMA TopOf ==
    ASSUME ContextAssumption, NEW f, IsList(f), NEW n \in DOMAIN f, NEW key, key = GroupKey(f[n])
    PROVE  \E m \in Ties(f, key) :
             /\ Top(f, key) = f[m] /\ m \in DOMAIN f /\ GroupKey(f[m]) = key
             /\ Rank(f[n]) <= Rank(f[m])
<1> DEFINE group == {i \in DOMAIN f : GroupKey(f[i]) = key}
           Below == {4 - Rank(f[i]) : i \in group}
<1>1. DOMAIN f \subseteq Nat /\ \A i \in DOMAIN f : f[i] \in BindingPosts
  BY DEF IsList
<1>2. \A i \in DOMAIN f : Rank(f[i]) \in 0..4
  BY <1>1, Ranked
<1>3. n \in group
  OBVIOUS
<1>4. Below \subseteq Nat /\ Below # {}
  BY <1>2, <1>3
<1>5. PICK low \in Below : \A x \in Below : low <= x
  BY <1>4, LeastNat
<1>6. PICK i \in group : low = 4 - Rank(f[i])
  OBVIOUS
<1>7. \A j \in group : Rank(f[j]) <= Rank(f[i])
  <2>1. ASSUME NEW j \in group PROVE Rank(f[j]) <= Rank(f[i])
    <3>1. low <= 4 - Rank(f[j])
      BY <1>5
    <3>2. Rank(f[i]) \in 0..4 /\ Rank(f[j]) \in 0..4
      BY <1>2
    <3> QED BY <3>1, <3>2, <1>6
  <2> QED BY <2>1
<1>8. Ties(f, key) = {k \in group : \A j \in group : Rank(f[j]) <= Rank(f[k])}
  BY DEF Ties
<1>9. Ties(f, key) \subseteq Nat /\ Ties(f, key) # {}
  BY <1>1, <1>7, <1>8
<1>10. Min(Ties(f, key)) \in Ties(f, key)
  BY <1>9, MinOf
<1>11. PICK m \in Ties(f, key) : m = Min(Ties(f, key))
  BY <1>10
<1>12. Top(f, key) = f[m]
  BY <1>11 DEF Top
<1>13. m \in DOMAIN f /\ GroupKey(f[m]) = key /\ Rank(f[n]) <= Rank(f[m])
  BY <1>3, <1>8
<1> QED BY <1>12, <1>13

(* Two ties of a finite list are more than one.                             *)
LEMMA TwoTies ==
    ASSUME NEW f, IsList(f), NEW key, NEW m \in Ties(f, key), NEW n \in Ties(f, key), m # n
    PROVE  Cardinality(Ties(f, key)) > 1
<1> DEFINE T == Ties(f, key)
<1>1. T \subseteq DOMAIN f
  BY DEF Ties
<1>2. IsFiniteSet(T)
  BY <1>1, FS_Subset DEF IsList
<1>3. m \in T /\ n \in T
  OBVIOUS
<1> HIDE DEF T
<1>4. IsFiniteSet(T \ {m}) /\ Cardinality(T \ {m}) = Cardinality(T) - 1
  BY <1>2, <1>3, FS_RemoveElement
<1>5. Cardinality(T \ {m}) # 0
  <2>1. T \ {m} # {}
    BY <1>3
  <2> QED BY <2>1, <1>4, FS_EmptySet
<1>6. Cardinality(T \ {m}) \in Nat /\ Cardinality(T) \in Nat
  BY <1>2, <1>4, FS_CardinalityType
<1> QED BY <1>4, <1>5, <1>6 DEF T

(* What a resolution leaves out of its trace is accounted for.              *)
LEMMA LeftOut ==
    ASSUME ContextAssumption, NEW f, IsList(f), NEW der, NEW t,
           t.considered = f, t.der = der, t.included = FinalIncluded(f)
    PROVE  Explained(t, Conflicts(f, der))
<1> SUFFICES ASSUME NEW cb \in Range(f), cb.id \notin FinalIncluded(f)
             PROVE  \/ \E c \in Conflicts(f, der) : c.der = der /\ c.key = GroupKey(cb)
                    \/ \E x \in Range(f) :
                         /\ GroupKey(x) = GroupKey(cb) /\ x.id \in FinalIncluded(f)
                         /\ \/ Rank(x) > Rank(cb)
                            \/ Rank(x) = Rank(cb) /\ x.authority = "customer_confirmed"
  BY Zenon DEF Explained
<1>1. PICK n \in DOMAIN f : cb = f[n]
  BY DEF Range
<1>2. PICK key : key = GroupKey(cb)
  OBVIOUS
<1>3. key \in Keys(f)
  BY <1>2 DEF Keys
<1>4. PICK m \in Ties(f, key) :
        /\ Top(f, key) = f[m] /\ m \in DOMAIN f /\ GroupKey(f[m]) = key
        /\ Rank(f[n]) <= Rank(f[m])
  BY <1>1, <1>2, TopOf, Zenon
<1>5. PICK x : x = f[m]
  OBVIOUS
<1>6. x \in Range(f) /\ GroupKey(x) = key /\ Rank(cb) <= Rank(x)
  BY <1>1, <1>4, <1>5 DEF Range
<1>7. CASE Disputed(f, key)
  <2>1. PICK c : c = [der |-> der, key |-> key, a |-> Top(f, key).id, b |-> Second(f, key).id,
                      resolution |-> Unset]
    OBVIOUS
  <2>2. c \in Conflicts(f, der)
    BY <2>1, <1>3, <1>7 DEF Conflicts
  <2>3. c.der = der /\ c.key = key
    BY <2>1
  <2> QED BY <2>2, <2>3, <1>2
<1>8. CASE ~ Disputed(f, key)
  <2>1. x.id \in FinalIncluded(f)
    BY <1>3, <1>4, <1>5, <1>8 DEF FinalIncluded
  <2>2. CASE Rank(cb) = Rank(x)
    <3>1. n \in Ties(f, key)
      <4>1. \A j \in DOMAIN f : GroupKey(f[j]) = key => Rank(f[j]) <= Rank(f[m])
        BY DEF Ties
      <4> QED BY <4>1, <2>2, <1>1, <1>2, <1>5 DEF Ties
    <3>2. m # n
      BY <2>1, <1>1, <1>5
    <3>3. Cardinality(Ties(f, key)) > 1
      BY <3>1, <3>2, TwoTies
    <3>4. x.authority = "customer_confirmed"
      BY <3>3, <1>4, <1>5, <1>8 DEF Disputed
    <3> QED BY <3>4, <2>1, <2>2, <1>2, <1>6
  <2>3. CASE Rank(cb) # Rank(x)
    <3>1. Rank(cb) \in 0..4 /\ Rank(x) \in 0..4
      BY <1>1, <1>4, <1>5, Ranked DEF IsList
    <3>2. Rank(x) > Rank(cb)
      BY <3>1, <2>3, <1>6
    <3> QED BY <3>2, <2>1, <1>2, <1>6
  <2> QED BY <2>2, <2>3
<1> QED BY <1>7, <1>8

(* The included bindings are a list of bindings.                            *)
LEMMA IncludedIsList ==
    ASSUME bindings \in Seq(BindingPosts), NEW f, IsList(f), NEW t
    PROVE  IsList(Included(f, t))
<1> DEFINE Gives(verdict) == {i \in DOMAIN f : Verdict(f[i], t) = verdict}
           S == Gives("superseded")
           I == Gives("included")
<1>1. PICK g : g = Included(f, t)
  OBVIOUS
<1>2. g = [i \in S \cup I |-> IF i \in S THEN Superseder(f[i]) ELSE f[i]]
  BY <1>1, Zenon DEF Included
<1>3. \A i \in S : Superseder(f[i]) \in BindingPosts
  <2> SUFFICES ASSUME NEW i \in S PROVE Superseder(f[i]) \in BindingPosts
    OBVIOUS
  <2>1. PICK cb : cb = f[i]
    OBVIOUS
  <2>2. Verdict(cb, t) = "superseded"
    BY <2>1
  <2>3. Superseded(cb, t)
    <3>1. "excluded" # "superseded" /\ "redacted" # "superseded" /\ "missing" # "superseded"
          /\ "included" # "superseded"
      OBVIOUS
    <3> QED BY <2>2, <3>1, Zenon DEF Verdict
  <2>4. Superseder(cb) # Unset
    BY <2>3, Zenon DEF Superseded, SupersederStarts
  <2>5. Superseder(cb) = get_context_binding(cb.superseded_by)
    BY <2>4, Zenon DEF Superseder
  <2>6. PICK id : id = cb.superseded_by
    OBVIOUS
  <2> DEFINE at == {k \in DOMAIN bindings : bindings[k].id = id}
             one == CHOOSE k \in at : TRUE
  <2>7. get_context_binding(id) = IF at = {} THEN Unset ELSE bindings[one]
    BY Zenon DEF get_context_binding
  <2>8. at # {} /\ get_context_binding(id) = bindings[one]
    BY <2>4, <2>5, <2>6, <2>7, Zenon
  <2>9. one \in at
    BY <2>8, Zenon
  <2>10. bindings[one] \in BindingPosts
    BY <2>9
  <2> QED BY <2>1, <2>5, <2>6, <2>8, <2>10
<1>4. S \cup I \subseteq DOMAIN f
  OBVIOUS
<1>5. \A i \in DOMAIN f : f[i] \in BindingPosts
  BY DEF IsList
<1>6. IsFiniteSet(S \cup I)
  BY <1>4, FS_Subset DEF IsList
<1> HIDE DEF S, I
<1>7. DOMAIN g = S \cup I /\ \A i \in S \cup I : g[i] \in BindingPosts
  BY <1>2, <1>3, <1>4, <1>5
<1> QED BY <1>1, <1>4, <1>6, <1>7 DEF IsList

(* The candidates are lists of bindings.                                    *)
LEMMA CandidatesAreLists ==
    ASSUME bindings \in Seq(BindingPosts), NEW identity, NEW f \in Candidates(identity)
    PROVE  IsList(f)
<1> DEFINE exact == {cb \in Range(bindings) : cb.scope = identity /\ cb.selector = Unset}
           D == {i \in DOMAIN bindings : bindings[i].scope \in {identity, Unset}}
<1>1. DOMAIN bindings = 1..Len(bindings) /\ Len(bindings) \in Nat
      /\ \A i \in DOMAIN bindings : bindings[i] \in BindingPosts
  OBVIOUS
<1>2. IsFiniteSet(DOMAIN bindings)
  BY <1>1, FS_Interval
<1>3. CASE exact # {}
  <2>1. f \in SetToSeqs(exact)
    BY <1>3, Zenon DEF Candidates
  <2>2. exact \subseteq BindingPosts
    BY <1>1 DEF Range
  <2>3. IsFiniteSet(exact)
    <3>1. IsFiniteSet(Range(bindings))
      <4>1. bindings \in [DOMAIN bindings -> Range(bindings)]
        BY <1>1 DEF Range
      <4>2. bindings \in Surjection(DOMAIN bindings, Range(bindings))
        BY <4>1 DEF Surjection, Range
      <4> QED BY <4>2, <1>2, FS_Surjection
    <3> QED BY <3>1, FS_Subset
  <2> HIDE DEF exact
  <2>4. PICK n : n = Cardinality(exact)
    OBVIOUS
  <2>5. n \in Nat
    BY <2>3, <2>4, FS_CardinalityType
  <2>6. f \in [1..n -> exact]
    BY <2>1, <2>4, Zenon DEF SetToSeqs
  <2>7. DOMAIN f = 1..n /\ \A i \in DOMAIN f : f[i] \in BindingPosts
    BY <2>2, <2>6
  <2>8. IsFiniteSet(1..n)
    BY <2>5, FS_Interval
  <2> QED BY <2>5, <2>7, <2>8 DEF IsList
<1>4. CASE exact = {}
  <2>1. f = Restrict(bindings, D)
    <3>1. f \in {Restrict(bindings, D)}
      BY <1>4, Zenon DEF Candidates
    <3> QED BY <3>1
  <2>2. DOMAIN f = D /\ \A i \in D : f[i] = bindings[i]
    BY <2>1 DEF Restrict
  <2>3. IsFiniteSet(D)
    BY <1>2, FS_Subset
  <2> QED BY <2>2, <2>3, <1>1 DEF IsList
<1> QED BY <1>3, <1>4
-----------------------------------------------------------------------------
(* EvidenceContext: what was considered is accounted for.                   *)

(* Conflict rows are only added, or resolved; what they account for stays.  *)
LEMMA StaysExplained ==
    ASSUME NEW t, NEW rows, NEW more, Explained(t, rows),
           \A c \in rows : \E d \in more : d.der = c.der /\ d.key = c.key
    PROVE  Explained(t, more)
<1> SUFFICES ASSUME NEW cb \in Range(t.considered), cb.id \notin t.included
             PROVE  \/ \E c \in more : c.der = t.der /\ c.key = GroupKey(cb)
                    \/ \E x \in Range(t.considered) :
                         /\ GroupKey(x) = GroupKey(cb) /\ x.id \in t.included
                         /\ \/ Rank(x) > Rank(cb)
                            \/ Rank(x) = Rank(cb) /\ x.authority = "customer_confirmed"
  BY Zenon DEF Explained
<1>1. \/ \E c \in rows : c.der = t.der /\ c.key = GroupKey(cb)
      \/ \E x \in Range(t.considered) :
           /\ GroupKey(x) = GroupKey(cb) /\ x.id \in t.included
           /\ \/ Rank(x) > Rank(cb)
              \/ Rank(x) = Rank(cb) /\ x.authority = "customer_confirmed"
  BY Zenon DEF Explained
<1>2. ASSUME NEW c \in rows, c.der = t.der, c.key = GroupKey(cb)
      PROVE  \E d \in more : d.der = t.der /\ d.key = GroupKey(cb)
  <2>1. PICK d \in more : d.der = c.der /\ d.key = c.key
    OBVIOUS
  <2> QED BY <2>1, <1>2, Zenon
<1> QED BY <1>1, <1>2, Zenon

(* The same for a request.                                                  *)
LEMMA StaysConsidered ==
    ASSUME NEW b, NEW rows, NEW more, Considers(b, rows),
           \A c \in rows : \E d \in more : d.der = c.der /\ d.key = c.key
    PROVE  Considers(b, more)
<1>1. b.pc = "judge" => IsList(b.candidates)
  BY Zenon DEF Considers
<1>2. ASSUME b.pc = "write"
      PROVE  /\ DOMAIN b = {"pc", "at", "pending", "trace"}
             /\ \A c \in b.pending : DOMAIN c = ConflictFields
             /\ Explained(b.trace, more \cup b.pending)
  <2>1. /\ DOMAIN b = {"pc", "at", "pending", "trace"}
        /\ \A c \in b.pending : DOMAIN c = ConflictFields
        /\ Explained(b.trace, rows \cup b.pending)
    BY <1>2, Zenon DEF Considers
  <2>2. \A c \in rows \cup b.pending : \E d \in more \cup b.pending : d.der = c.der /\ d.key = c.key
    OBVIOUS
  <2>3. Explained(b.trace, more \cup b.pending)
    BY <2>1, <2>2, StaysExplained, Zenon
  <2> QED BY <2>1, <2>3, Zenon
<1> QED BY <1>1, <1>2, Zenon DEF Considers

(* A slot moves on, and the tables stay.                                    *)
LEMMA SlotConsiders ==
    ASSUME ConsideredInv, NEW w \in Builders, NEW b, Considers(b, contextConflicts),
           building' = [building EXCEPT ![w] = b],
           UNCHANGED <<bindings, traces, contextConflicts>>
    PROVE  ConsideredInv'
<1>1. DOMAIN building = Builders /\ \A v \in Builders : Considers(building[v], contextConflicts)
  BY Zenon DEF ConsideredInv
<1>2. DOMAIN building' = Builders
  BY <1>1
<1>3. ASSUME NEW v \in Builders PROVE Considers(building'[v], contextConflicts)
  <2>1. building'[v] = IF v = w THEN b ELSE building[v]
    BY <1>1
  <2> QED BY <2>1, <1>1, Zenon
<1>4. \A v \in Builders : Considers(building'[v], contextConflicts)
  BY <1>3
<1>5. \A v \in Builders : Considers(building[v], contextConflicts)'
  BY <1>4
<1> QED BY <1>2, <1>5 DEF ConsideredInv

(* Conflict rows are written, and a slot may move on.                       *)
LEMMA RowsConsidered ==
    ASSUME ConsideredInv, NEW rows, contextConflicts' = rows,
           \A c \in rows : DOMAIN c = ConflictFields,
           \A c \in contextConflicts : \E d \in rows : d.der = c.der /\ d.key = c.key,
           DOMAIN building' = Builders,
           \A w \in Builders : building'[w] = building[w] \/ Considers(building'[w], rows),
           UNCHANGED <<bindings, traces>>
    PROVE  ConsideredInv'
<1>1. /\ \A k \in DOMAIN traces : Explained(traces[k], contextConflicts)
      /\ \A w \in Builders : Considers(building[w], contextConflicts)
  BY Zenon DEF ConsideredInv
<1>2. ASSUME NEW k \in DOMAIN traces PROVE Explained(traces[k], rows)
  <2>1. Explained(traces[k], contextConflicts)
    BY <1>1
  <2> QED BY <2>1, StaysExplained
<1>3. ASSUME NEW w \in Builders PROVE Considers(building'[w], rows)
  <2>1. Considers(building[w], rows)
    <3>1. Considers(building[w], contextConflicts)
      BY <1>1
    <3> QED BY <3>1, StaysConsidered
  <2> QED BY <2>1, Zenon
<1>4. \A k \in DOMAIN traces : Explained(traces[k], contextConflicts)'
  BY <1>2
<1>5. \A w \in Builders : Considers(building[w], contextConflicts)'
  BY <1>3
<1> QED BY <1>4, <1>5 DEF ConsideredInv

(* What a resolution judged, with the rows it will write, is accounted for. *)
LEMMA JudgeConsiders ==
    ASSUME ContextAssumption, bindings \in Seq(BindingPosts), NEW f, IsList(f), NEW t, NEW der,
           NEW b, NEW g, g = Included(f, t), NEW trace,
           trace.considered = g, trace.der = der, trace.included = FinalIncluded(g),
           b = [pc |-> "write", at |-> der, pending |-> Conflicts(g, der), trace |-> trace]
    PROVE  Considers(b, contextConflicts)
<1>1. IsList(g)
  BY IncludedIsList
<1>2. PICK pending : pending = Conflicts(g, der)
  OBVIOUS
<1>3. Explained(trace, pending)
  BY <1>1, <1>2, LeftOut, Zenon
<1>4. \A c \in pending : DOMAIN c = ConflictFields
  BY <1>2 DEF Conflicts, ConflictFields
<1>5. b.pc = "write" /\ b.pending = pending /\ b.trace = trace
      /\ DOMAIN b = {"pc", "at", "pending", "trace"}
  BY <1>2
<1>6. Explained(b.trace, contextConflicts \cup b.pending)
  <2>1. \A c \in pending : \E d \in contextConflicts \cup pending : d.der = c.der /\ d.key = c.key
    OBVIOUS
  <2>2. Explained(trace, contextConflicts \cup pending)
    BY <2>1, <1>3, StaysExplained
  <2> QED BY <2>2, <1>5
<1>7. b.pc # "judge"
  BY <1>5
<1> QED BY <1>4, <1>5, <1>6, <1>7, Zenon DEF Considers

(* A free slot considers nothing.                                           *)
LEMMA OtherConsiders ==
    ASSUME NEW b, b.pc \notin {"judge", "write"}, NEW rows
    PROVE  Considers(b, rows)
BY DEF Considers

(* No step disturbs the invariant.                                          *)
LEMMA ConsideredNext ==
    ASSUME ContextAssumption, ConsideredInv, [ContextNext]_contextVars
    PROVE  ConsideredInv'
<1> DEFINE Moves(w) == \E b : /\ building' = [building EXCEPT ![w] = b]
                              /\ Considers(b, contextConflicts)
           Tables == UNCHANGED <<bindings, traces, contextConflicts>>
<1>0. ASSUME NEW w \in Builders, Moves(w), Tables PROVE ConsideredInv'
  <2>1. PICK b : building' = [building EXCEPT ![w] = b] /\ Considers(b, contextConflicts)
    BY <1>0
  <2> QED BY <2>1, <1>0, SlotConsiders
<1>1. ASSUME UNCHANGED <<bindings, building, traces, contextConflicts>> PROVE ConsideredInv'
  <2>1. Range(bindings)' = Range(bindings)
    BY <1>1
  <2> QED BY <1>1, <2>1 DEF ConsideredInv, Considers, Explained, Range, IsList
<1>2. ASSUME NEW p \in LinkPosts, CreateLinkAssertion(p) PROVE ConsideredInv'
  BY <1>1, <1>2 DEF CreateLinkAssertion
<1>3. ASSUME NEW cb \in BindingPosts, CreateContextBinding(cb) PROVE ConsideredInv'
  <2>1. bindings \in Seq(BindingPosts)
    BY DEF ConsideredInv
  <2>2. bindings' \in Seq(BindingPosts)
    <3>1. CASE get_context_binding(cb.id) = Unset
      <4>1. bindings' = Append(bindings, cb)
        BY <1>3, <3>1, Zenon DEF CreateContextBinding
      <4> QED BY <4>1, <2>1
    <3>2. CASE get_context_binding(cb.id) # Unset
      <4>1. bindings' = [i \in DOMAIN bindings |->
                           IF bindings[i].id = cb.id THEN cb ELSE bindings[i]]
        BY <1>3, <3>2, Zenon DEF CreateContextBinding
      <4> QED BY <4>1, <2>1
    <3> QED BY <3>1, <3>2
  <2>3. UNCHANGED <<building, traces, contextConflicts>>
    BY <1>3 DEF CreateContextBinding
  <2> QED BY <2>2, <2>3 DEF ConsideredInv, Considers, Explained, Range, IsList
<1>4. ASSUME NEW artifact \in DepArtifacts, StorePayload(artifact) PROVE ConsideredInv'
  BY <1>1, <1>4 DEF StorePayload
<1>5. ASSUME NEW c \in contextConflicts, NEW resolution, ResolveConflict(c, resolution)
      PROVE  ConsideredInv'
  <2>1. PICK row : row = [c EXCEPT !.resolution = resolution]
    OBVIOUS
  <2>2. PICK rows : rows = (contextConflicts \ {c}) \cup {row}
    OBVIOUS
  <2>3. contextConflicts' = rows /\ UNCHANGED <<building, bindings, traces>>
    BY <1>5, <2>1, <2>2 DEF ResolveConflict
  <2>4. \A d \in contextConflicts : DOMAIN d = ConflictFields
    BY DEF ConsideredInv
  <2>5. DOMAIN row = ConflictFields /\ row.der = c.der /\ row.key = c.key
    BY <2>1, <2>4 DEF ConflictFields
  <2>6. \A d \in rows : DOMAIN d = ConflictFields
    BY <2>2, <2>4, <2>5
  <2>7. \A d \in contextConflicts : \E e \in rows : e.der = d.der /\ e.key = d.key
    BY <2>2, <2>5
  <2>8. DOMAIN building' = Builders /\ \A w \in Builders : building'[w] = building[w]
    BY <2>3 DEF ConsideredInv
  <2> QED BY <2>3, <2>6, <2>7, <2>8, RowsConsidered
<1>6. ASSUME NEW w \in Builders, NEW l \in LinkIds, NEW status, ReadLink(w, l, status)
      PROVE  ConsideredInv'
  <2>1. PICK b : b = [pc |-> "link", link |-> l, row |-> [links[l] EXCEPT !.status = status]]
    OBVIOUS
  <2>2. Considers(b, contextConflicts)
    BY <2>1, OtherConsiders
  <2> QED BY <2>1, <2>2, <1>0, <1>6 DEF ReadLink
<1>7. ASSUME NEW w \in Builders, building' = [building EXCEPT ![w] = Free], Tables
      PROVE  ConsideredInv'
  <2>1. Considers(Free, contextConflicts)
    BY OtherConsiders DEF Free
  <2> QED BY <2>1, <1>0, <1>7
<1>8. ASSUME NEW w \in Builders, SaveLink(w) PROVE ConsideredInv'
  BY <1>7, <1>8 DEF SaveLink
<1>9. ASSUME NEW w \in Builders, NEW p \in BuildPosts, Identify(w, p) PROVE ConsideredInv'
  <2>1. PICK method, identity, over : building' = [building EXCEPT ![w] =
               [pc |-> "create", decidedAt |-> p.decidedAt,
                der |-> [resources |-> p.resources, identity |-> identity,
                         method |-> method, trace |-> 0, bindings |-> {},
                         known |-> Len(records), over |-> over]]]
    BY <1>9, Zenon DEF Identify
  <2>2. PICK b : b = [pc |-> "create", decidedAt |-> p.decidedAt,
                der |-> [resources |-> p.resources, identity |-> identity,
                         method |-> method, trace |-> 0, bindings |-> {},
                         known |-> Len(records), over |-> over]]
    OBVIOUS
  <2>3. Considers(b, contextConflicts)
    BY <2>2, OtherConsiders
  <2> QED BY <2>1, <2>2, <2>3, <1>0, <1>9 DEF Identify
<1>10. ASSUME NEW w \in Builders, CreateRecord(w) PROVE ConsideredInv'
  <2>1. PICK b : b = [pc |-> "select", at |-> Len(records) + 1, decidedAt |-> building[w].decidedAt]
    OBVIOUS
  <2>2. Considers(b, contextConflicts)
    BY <2>1, OtherConsiders
  <2> QED BY <2>1, <2>2, <1>0, <1>10 DEF CreateRecord
<1>11. ASSUME NEW w \in Builders, Select(w) PROVE ConsideredInv'
  <2>1. PICK f \in Candidates(records[building[w].at].identity) :
          building' = [building EXCEPT ![w] =
            [pc |-> "judge", at |-> building[w].at, decidedAt |-> building[w].decidedAt,
             candidates |-> f]]
    BY <1>11, Zenon DEF Select
  <2>2. PICK b : b = [pc |-> "judge", at |-> building[w].at,
                      decidedAt |-> building[w].decidedAt, candidates |-> f]
    OBVIOUS
  <2>3. bindings \in Seq(BindingPosts)
    BY DEF ConsideredInv
  <2>4. IsList(f)
    BY <2>1, <2>3, CandidatesAreLists, Zenon
  <2>5. Considers(b, contextConflicts)
    BY <2>2, <2>4 DEF Considers
  <2> QED BY <2>1, <2>2, <2>5, <1>0, <1>11 DEF Select
<1>12. ASSUME NEW w \in Builders, Judge(w) PROVE ConsideredInv'
  <2>1. PICK f : f = building[w].candidates
    OBVIOUS
  <2>2. PICK t : t = building[w].decidedAt
    OBVIOUS
  <2>3. PICK der : der = building[w].at
    OBVIOUS
  <2>4. PICK g : g = Included(f, t)
    OBVIOUS
  <2>5. PICK trace :
          trace = [der |-> der,
                   included |-> FinalIncluded(g),
                   excluded |-> Judged(f, t, {"excluded", "redacted", "missing"}),
                   superseded |-> Judged(f, t, {"superseded"}),
                   missing |-> Judged(f, t, {"missing"}),
                   redacted |-> Judged(f, t, {"redacted"}),
                   conflicted |-> {},
                   considered |-> g, decidedAt |-> t]
    OBVIOUS
  <2>6. PICK b : b = [pc |-> "write", at |-> der, pending |-> Conflicts(g, der), trace |-> trace]
    OBVIOUS
  <2>7. \/ building' = [building EXCEPT ![w] = Free]
        \/ building' = [building EXCEPT ![w] = b]
    BY <1>12, <2>1, <2>2, <2>3, <2>4, <2>5, <2>6, Zenon DEF Judge
  <2>8. Tables
    BY <1>12 DEF Judge
  <2>9. CASE building' = [building EXCEPT ![w] = b]
    <3>1. bindings \in Seq(BindingPosts) /\ Considers(building[w], contextConflicts)
      BY DEF ConsideredInv
    <3>2. building[w].pc = "judge"
      BY <1>12 DEF Judge
    <3>3. IsList(f)
      BY <3>1, <3>2, <2>1, Zenon DEF Considers
    <3>4. trace.considered = g /\ trace.der = der /\ trace.included = FinalIncluded(g)
      BY <2>5
    <3>5. Considers(b, contextConflicts)
      BY <3>1, <3>3, <3>4, <2>4, <2>6, JudgeConsiders, Zenon
    <3> QED BY <3>5, <2>8, <2>9, <1>0
  <2> QED BY <2>7, <2>8, <2>9, <1>7
<1>13. ASSUME NEW w \in Builders, CreateContextConflict(w) PROVE ConsideredInv'
  <2>1. PICK c \in building[w].pending :
          /\ contextConflicts' = contextConflicts \cup {c}
          /\ building' = [building EXCEPT ![w].pending = @ \ {c}]
          /\ UNCHANGED <<bindings, traces>>
    BY <1>13, Zenon DEF CreateContextConflict
  <2>2. building[w].pc = "write"
    BY <1>13 DEF CreateContextConflict
  <2>3. /\ DOMAIN building = Builders /\ Considers(building[w], contextConflicts)
        /\ \A d \in contextConflicts : DOMAIN d = ConflictFields
    BY DEF ConsideredInv
  <2>4. PICK a : a = building[w]
    OBVIOUS
  <2>5. /\ DOMAIN a = {"pc", "at", "pending", "trace"}
        /\ \A d \in a.pending : DOMAIN d = ConflictFields
        /\ Explained(a.trace, contextConflicts \cup a.pending)
    BY <2>2, <2>3, <2>4, Zenon DEF Considers
  <2>6. PICK rows : rows = contextConflicts \cup {c}
    OBVIOUS
  <2>7. PICK b : b = [a EXCEPT !.pending = @ \ {c}]
    OBVIOUS
  <2>8. building' = [building EXCEPT ![w] = b]
    BY <2>1, <2>3, <2>4, <2>7
  <2>9. b.pc = "write" /\ b.pending = a.pending \ {c} /\ b.trace = a.trace
        /\ DOMAIN b = {"pc", "at", "pending", "trace"}
    BY <2>2, <2>4, <2>5, <2>7
  <2>10. contextConflicts \cup a.pending = rows \cup b.pending
    BY <2>1, <2>4, <2>6, <2>9
  <2>11. Considers(b, rows)
    <3>1. b.pc # "judge"
      BY <2>9
    <3>2. Explained(b.trace, rows \cup b.pending)
      BY <2>5, <2>9, <2>10
    <3>3. \A d \in b.pending : DOMAIN d = ConflictFields
      BY <2>5, <2>9
    <3> QED BY <3>1, <3>2, <3>3, <2>9, Zenon DEF Considers
  <2>12. \A d \in rows : DOMAIN d = ConflictFields
    BY <2>1, <2>3, <2>4, <2>5, <2>6
  <2>13. \A d \in contextConflicts : \E e \in rows : e.der = d.der /\ e.key = d.key
    BY <2>6
  <2>14. DOMAIN building' = Builders
         /\ \A v \in Builders : building'[v] = building[v] \/ Considers(building'[v], rows)
    <3>1. DOMAIN building' = Builders
      BY <2>3, <2>8
    <3>2. ASSUME NEW v \in Builders
          PROVE  building'[v] = building[v] \/ Considers(building'[v], rows)
      <4>1. building'[v] = IF v = w THEN b ELSE building[v]
        BY <2>3, <2>8
      <4> QED BY <4>1, <2>11
    <3> QED BY <3>1, <3>2
  <2> QED BY <2>1, <2>6, <2>12, <2>13, <2>14, RowsConsidered
<1>14. ASSUME NEW w \in Builders, CreateTrace(w) PROVE ConsideredInv'
  <2>1. PICK trace : trace = building[w].trace
    OBVIOUS
  <2>2. PICK n \in Nat : n = Len(traces)
    BY DEF ConsideredInv
  <2>3. PICK b : b = [pc |-> "record", at |-> building[w].at, trace |-> n + 1]
    OBVIOUS
  <2>4. /\ building[w].pc = "write" /\ building[w].pending = {}
        /\ traces' = Append(traces, trace)
        /\ building' = [building EXCEPT ![w] = b]
        /\ UNCHANGED <<bindings, contextConflicts>>
    BY <1>14, <2>1, <2>2, <2>3 DEF CreateTrace
  <2>5. /\ DOMAIN building = Builders
        /\ \A v \in Builders : Considers(building[v], contextConflicts)
        /\ \A k \in DOMAIN traces : Explained(traces[k], contextConflicts)
        /\ traces = [k \in 1..n |-> traces[k]]
    BY <2>2 DEF ConsideredInv
  <2>6. Explained(trace, contextConflicts)
    <3>1. Explained(building[w].trace, contextConflicts \cup building[w].pending)
      BY <2>4, <2>5, Zenon DEF Considers
    <3>2. contextConflicts \cup building[w].pending = contextConflicts
      BY <2>4
    <3> QED BY <3>1, <3>2, <2>1
  <2>7. PICK more : more = Append(traces, trace)
    OBVIOUS
  <2>8. Len(more) = n + 1 /\ DOMAIN more = 1..(n + 1) /\ more = [k \in 1..(n + 1) |-> more[k]]
        /\ \A k \in 1..(n + 1) : more[k] = IF k = n + 1 THEN trace ELSE traces[k]
    <3>1. PICK U : U = {traces[k] : k \in 1..n} \cup {trace}
      OBVIOUS
    <3>2. \A k \in 1..n : traces[k] \in U
      BY <3>1
    <3>3. [k \in 1..n |-> traces[k]] \in Seq(U) /\ trace \in U
      BY <3>1, <3>2
    <3>4. traces = [k \in 1..n |-> traces[k]] /\ Len(traces) = n
      BY <2>2, <2>5
    <3>5. traces \in Seq(U) /\ trace \in U
      BY <3>3, <3>4, Zenon
    <3> QED BY <3>4, <3>5, <2>2, <2>7
  <2>9. \A k \in DOMAIN more : Explained(more[k], contextConflicts)
    <3>1. ASSUME NEW k \in 1..(n + 1) PROVE Explained(more[k], contextConflicts)
      <4>1. CASE k = n + 1
        <5>1. more[k] = trace
          BY <4>1, <2>8
        <5> QED BY <5>1, <2>6
      <4>2. CASE k # n + 1
        <5>1. k \in 1..n
          BY <4>2, <2>2
        <5>2. DOMAIN traces = 1..n
          BY <2>5, Zenon
        <5>3. more[k] = traces[k]
          BY <4>2, <2>8
        <5> QED BY <5>1, <5>2, <5>3, <2>5
      <4> QED BY <4>1, <4>2
    <3> QED BY <3>1, <2>8
  <2>10. Considers(b, contextConflicts)
    BY <2>3, OtherConsiders
  <2>11. DOMAIN building' = Builders
         /\ \A v \in Builders : Considers(building'[v], contextConflicts)
    <3>1. DOMAIN building' = Builders
      BY <2>4, <2>5
    <3>2. ASSUME NEW v \in Builders PROVE Considers(building'[v], contextConflicts)
      <4>1. building'[v] = IF v = w THEN b ELSE building[v]
        BY <2>4, <2>5
      <4> QED BY <4>1, <2>5, <2>10
    <3> QED BY <3>1, <3>2
  <2>12. \A v \in Builders : Considers(building'[v], contextConflicts')
    BY <2>4, <2>11
  <2>13. Len(more) \in Nat /\ more = [k \in 1..Len(more) |-> more[k]]
    BY <2>8
  <2>14. \A k \in DOMAIN traces' : Explained(traces'[k], contextConflicts')
    BY <2>4, <2>7, <2>9
  <2>15. Len(traces') \in Nat /\ traces' = [k \in 1..Len(traces') |-> traces'[k]]
    BY <2>4, <2>7, <2>13
  <2>16. bindings' \in Seq(BindingPosts)
         /\ \A c \in contextConflicts' : DOMAIN c = ConflictFields
    BY <2>4 DEF ConsideredInv
  <2> QED BY <2>11, <2>12, <2>14, <2>15, <2>16 DEF ConsideredInv
<1>15. ASSUME NEW w \in Builders, _update_der_bindings(w) PROVE ConsideredInv'
  BY <1>7, <1>15 DEF _update_der_bindings
<1>16. ASSUME NEW w \in Builders, Crash(w) PROVE ConsideredInv'
  BY <1>7, <1>16 DEF Crash
<1>17. ASSUME UNCHANGED contextVars PROVE ConsideredInv'
  BY <1>1, <1>17 DEF contextVars
<1> HIDE DEF Moves, Tables
<1> QED BY <1>2, <1>3, <1>4, <1>5, <1>6, <1>8, <1>9, <1>10, <1>11, <1>12, <1>13, <1>14, <1>15,
           <1>16, <1>17, Zenon DEF ContextNext

(* The invariant gives the property.                                        *)
LEMMA ConsideredGives ==
    ASSUME ConsideredInv PROVE LeftOutIsExplained
<1> SUFFICES ASSUME NEW k \in DOMAIN traces, NEW cb \in Range(traces[k].considered),
                    cb.id \notin traces[k].included
             PROVE  \/ \E c \in contextConflicts : c.der = traces[k].der /\ c.key = GroupKey(cb)
                    \/ \E x \in {y \in Range(traces[k].considered) : GroupKey(y) = GroupKey(cb)} :
                         /\ x.id \in traces[k].included
                         /\ \/ Rank(x) > Rank(cb)
                            \/ Rank(x) = Rank(cb) /\ x.authority = "customer_confirmed"
  BY Zenon DEF LeftOutIsExplained
<1>1. Explained(traces[k], contextConflicts)
  BY Zenon DEF ConsideredInv
<1>2. \/ \E c \in contextConflicts : c.der = traces[k].der /\ c.key = GroupKey(cb)
      \/ \E x \in Range(traces[k].considered) :
           /\ GroupKey(x) = GroupKey(cb) /\ x.id \in traces[k].included
           /\ \/ Rank(x) > Rank(cb)
              \/ Rank(x) = Rank(cb) /\ x.authority = "customer_confirmed"
  BY <1>1, Zenon DEF Explained
<1> QED BY <1>2, Zenon

(* It holds at the start.                                                   *)
LEMMA ConsideredStart == ASSUME ContextInit PROVE ConsideredInv
<1>1. bindings = <<>> /\ traces = <<>> /\ contextConflicts = {}
      /\ building = [w \in Builders |-> Free]
  BY DEF ContextInit
<1>2. \A w \in Builders : Considers(building[w], contextConflicts)
  BY <1>1, OtherConsiders DEF Free
<1>3. DOMAIN traces = {} /\ Len(traces) = 0 /\ traces = [k \in 1..Len(traces) |-> traces[k]]
  BY <1>1
<1>4. DOMAIN building = Builders /\ bindings \in Seq(BindingPosts)
  BY <1>1
<1> QED BY <1>1, <1>2, <1>3, <1>4 DEF ConsideredInv

(* Of every resolution, a binding that was found to apply and that the      *)
(* trace leaves out is accounted for by a row of the same scope and type,   *)
(* whoever resolves conflicts or posts bindings meanwhile, and wherever a   *)
(* request dies: the rows are written before the trace                      *)
(* (context.py:103-148, evidence_records.py:49-63).                         *)
THEOREM LeftOutAccounted == ContextSpec => []LeftOutIsExplained
<1>1. ContextInit => ConsideredInv
  BY ConsideredStart
<1>2. ConsideredInv /\ [ContextNext]_contextVars => ConsideredInv'
  BY ContextAssumption, ConsideredNext
<1>3. ConsideredInv => LeftOutIsExplained
  BY ConsideredGives
<1> QED BY <1>1, <1>2, <1>3, PTL DEF ContextSpec

-----------------------------------------------------------------------------
(* EvidenceContext: identities and links.                                   *)

(* Of an identifier, the rule answers an identity that is known.            *)
LEMMA ExactAnswers ==
    ASSUME NEW resources \in Seq(ResourceNames),
           NEW identity \in FirstAnswer(_try_exact_id, resources)
    PROVE  Known(identity)
<1> DEFINE A == {i \in DOMAIN resources : _try_exact_id(resources[i]) # {}}
           least == CHOOSE i \in A : \A j \in A : i <= j
<1>1. FirstAnswer(_try_exact_id, resources) = IF A = {} THEN {} ELSE _try_exact_id(resources[least])
  BY Zenon DEF FirstAnswer
<1> HIDE DEF A, least
<1>2. identity \in _try_exact_id(resources[least])
  BY <1>1
<1> QED BY <1>2 DEF _try_exact_id

(* If it answers nothing, no resource id is an identity.                    *)
LEMMA ExactSilent ==
    ASSUME NEW resources \in Seq(ResourceNames), FirstAnswer(_try_exact_id, resources) = {},
           NEW i \in DOMAIN resources
    PROVE  ~ Known({resources[i]})
<1> DEFINE A == {j \in DOMAIN resources : _try_exact_id(resources[j]) # {}}
           Least(j) == \A k \in A : j <= k
           least == CHOOSE j \in A : Least(j)
<1>1. FirstAnswer(_try_exact_id, resources) = IF A = {} THEN {} ELSE _try_exact_id(resources[least])
  BY Zenon DEF FirstAnswer
<1>2. A \subseteq Nat
  OBVIOUS
<1>3. A # {} => \E j \in A : Least(j)
  BY <1>2, LeastNat
<1> HIDE DEF Least
<1>4. A # {} => least \in A
  BY <1>3, Zenon
<1>5. A # {} => _try_exact_id(resources[least]) # {}
  BY <1>4
<1>6. A = {}
  BY <1>1, <1>5
<1>7. _try_exact_id(resources[i]) = {}
  BY <1>6
<1> QED BY <1>7 DEF _try_exact_id

(* Of a link, the rule answers the other end of one that holds the          *)
(* resource id.                                                             *)
LEMMA LinkAnswers ==
    ASSUME NEW resources \in Seq(ResourceNames),
           NEW identity \in FirstAnswer(_try_dep_relationship, resources)
    PROVE  \E i \in DOMAIN resources : \E l \in ConfirmedLinks(resources[i], SameDecision) :
             identity = {OtherEnd(l, resources[i])}
<1> DEFINE A == {i \in DOMAIN resources : _try_dep_relationship(resources[i]) # {}}
           Least(i) == \A j \in A : i <= j
           least == CHOOSE i \in A : Least(i)
<1>1. FirstAnswer(_try_dep_relationship, resources) =
        IF A = {} THEN {} ELSE _try_dep_relationship(resources[least])
  BY Zenon DEF FirstAnswer
<1>2. A # {}
  BY <1>1
<1>3. A \subseteq Nat
  OBVIOUS
<1>4. \E i \in A : Least(i)
  BY <1>2, <1>3, LeastNat
<1> HIDE DEF Least
<1>5. least \in A
  BY <1>4, Zenon
<1>6. identity \in _try_dep_relationship(resources[least])
  BY <1>1, <1>2, Zenon
<1> HIDE DEF least
<1>7. \E l \in ConfirmedLinks(resources[least], SameDecision) :
        identity = {OtherEnd(l, resources[least])}
  BY <1>6 DEF _try_dep_relationship
<1> QED BY <1>5, <1>7

(* The other end of a link is an end, and with the first it is the link.    *)
LEMMA EndOf ==
    ASSUME NEW l, NEW source, NEW target, links[l].ends = {source, target}, NEW r \in links[l].ends
    PROVE  /\ OtherEnd(l, r) \in links[l].ends
           /\ links[l].ends = {r, OtherEnd(l, r)}
<1> DEFINE Away(q) == q # r
           away == CHOOSE q \in links[l].ends : Away(q)
<1>1. OtherEnd(l, r) = IF links[l].ends = {r} THEN r ELSE away
  BY Zenon DEF OtherEnd
<1>2. CASE links[l].ends = {r}
  <2>1. OtherEnd(l, r) = r
    BY <1>1, <1>2, Zenon
  <2> QED BY <2>1, <1>2
<1>3. CASE links[l].ends # {r}
  <2>1. \E q \in links[l].ends : Away(q)
    BY <1>3
  <2> HIDE DEF Away
  <2>2. away \in links[l].ends /\ Away(away)
    BY <2>1, Zenon
  <2>3. OtherEnd(l, r) = away
    BY <1>1, <1>3, Zenon
  <2> QED BY <2>2, <2>3 DEF Away
<1> QED BY <1>2, <1>3

(* A link is followed only when no resource id is an identity.              *)
LEMMA LinksAfterExact ==
    ASSUME NEW resources \in Seq(ResourceNames), NEW answer, answer = resolve_identity(resources),
           answer.method \in {"dep_relationship", "link_assertion"}
    PROVE  FirstAnswer(_try_exact_id, resources) = {}
<1> DEFINE f1 == FirstAnswer(_try_exact_id, resources)
           f2 == FirstAnswer(_try_dep_relationship, resources)
           f3 == FirstAnswer(_try_namespace, resources)
           f4 == _try_composite_key(resources)
           f5 == FirstAnswer(_try_confirmed_link_assertion, resources)
           f6 == {{resources[1]}}
           answers == << [method |-> "exact_id", found |-> f1],
                         [method |-> "dep_relationship", found |-> f2],
                         [method |-> "namespace", found |-> f3],
                         [method |-> "composite_key", found |-> f4],
                         [method |-> "link_assertion", found |-> f5],
                         [method |-> "inferred", found |-> f6] >>
           First(i) == answers[i].found # {} /\ \A j \in DOMAIN answers : answers[j].found # {} => i <= j
           first == CHOOSE i \in DOMAIN answers : First(i)
<1>1. answer = answers[first]
  BY Zenon DEF resolve_identity
<1>2. f6 # {}
  OBVIOUS
<1> HIDE DEF f1, f2, f3, f4, f5, f6
<1>3. DOMAIN answers = 1..6
  OBVIOUS
<1>4. answers[6].found # {}
  BY <1>2
<1> DEFINE S == {i \in 1..6 : answers[i].found # {}}
<1>5. \E i \in S : \A j \in S : i <= j
  <2>1. S \subseteq Nat /\ S # {}
    BY <1>4
  <2> HIDE DEF S
  <2> QED BY <2>1, LeastNat
<1>6. \E i \in DOMAIN answers : First(i)
  <2>1. PICK i \in S : \A j \in S : i <= j
    BY <1>5
  <2>2. i \in DOMAIN answers /\ answers[i].found # {}
    BY <2>1, <1>3
  <2>3. \A j \in DOMAIN answers : answers[j].found # {} => i <= j
    BY <2>1, <1>3
  <2> QED BY <2>2, <2>3
<1>7. first \in DOMAIN answers /\ First(first)
  <2> HIDE DEF First
  <2> QED BY <1>6, Zenon
<1>8. PICK n \in 1..6 : n = first
  BY <1>3, <1>7
<1>9. /\ answer = answers[n]
      /\ \A j \in 1..6 : answers[j].found # {} => n <= j
  BY <1>1, <1>3, <1>7, <1>8
<1> HIDE DEF first, First, S
<1>10. n # 1
  <2>1. answers[1].method = "exact_id"
    OBVIOUS
  <2> QED BY <2>1, <1>9
<1>11. answers[1].found = f1
  OBVIOUS
<1> HIDE DEF answers
<1>12. f1 = {}
  BY <1>8, <1>9, <1>10, <1>11
<1> QED BY <1>12 DEF f1

(* The links that gave an identity have it as one end, and the other end    *)
(* was no identity when they did.                                           *)
LEMMA OverLinks ==
    ASSUME LinksInv, NEW n, DOMAIN records = 1..n,
           NEW resources \in Seq(ResourceNames), NEW identity,
           \A i \in DOMAIN resources : ~ Known({resources[i]}),
           NEW e, e \in LinksOver(resources, identity)
    PROVE  LedTo(e, identity, n, records)
<1>1. PICK l \in LinkIds : /\ e = links[l].ends
                           /\ \E i \in DOMAIN resources :
                                /\ l \in ConfirmedLinks(resources[i], Relationships)
                                /\ {OtherEnd(l, resources[i])} = identity
  BY DEF LinksOver
<1>2. PICK i \in DOMAIN resources : /\ l \in ConfirmedLinks(resources[i], Relationships)
                                    /\ {OtherEnd(l, resources[i])} = identity
  BY <1>1
<1>3. ~ Known({resources[i]})
  OBVIOUS
<1>4. PICK r \in ResourceNames : r = resources[i]
  OBVIOUS
<1>5. PICK q : q = OtherEnd(l, r)
  OBVIOUS
<1>6. links[l] # Unset /\ r \in links[l].ends
  BY <1>2, <1>4 DEF ConfirmedLinks
<1>7. PICK source, target \in ResourceNames : links[l].ends = {source, target}
  BY <1>6 DEF LinksInv, LinkRow
<1>8. q \in links[l].ends /\ links[l].ends = {r, q}
  <2>1. OtherEnd(l, r) \in links[l].ends /\ links[l].ends = {r, OtherEnd(l, r)}
    BY <1>6, <1>7, EndOf
  <2> QED BY <2>1, <1>5, Zenon
<1>9. q \in ResourceNames
  BY <1>7, <1>8
<1>10. identity = {q} /\ ~ Known({r})
  BY <1>2, <1>3, <1>4, <1>5, Zenon
<1>11. \A j \in 1..n : records[j].identity # {r}
  BY <1>10 DEF Known
<1>12. e = {r, q}
  BY <1>1, <1>8
<1> QED BY <1>9, <1>10, <1>11, <1>12, Zenon DEF LedTo

(* What a record says of its resolution stands while the records there then *)
(* keep their identities.                                                   *)
LEMMA FoundStays ==
    ASSUME NEW d, NEW rs, NEW ms, FoundOver(d, rs), Len(rs) \in Nat, Len(ms) \in Nat,
           Len(rs) <= Len(ms), \A j \in 1..Len(rs) : ms[j].identity = rs[j].identity
    PROVE  FoundOver(d, ms)
<1>1. DOMAIN d = RecordFields /\ d.known \in 0..Len(rs) /\ d.known \in 0..Len(ms)
  BY DEF FoundOver
<1>2. ASSUME NEW e \in d.over PROVE LedTo(e, d.identity, d.known, ms)
  <2>1. PICK r, q \in ResourceNames :
          /\ e = {r, q} /\ d.identity = {q}
          /\ \A j \in 1..d.known : rs[j].identity # {r}
    BY Zenon DEF FoundOver, LedTo
  <2>2. \A j \in 1..d.known : j \in 1..Len(rs)
    BY <1>1
  <2>3. \A j \in 1..d.known : ms[j].identity # {r}
    BY <2>1, <2>2, Zenon
  <2> QED BY <2>1, <2>3, Zenon DEF LedTo
<1> QED BY <1>1, <1>2 DEF FoundOver

(* Records are kept with their identities, and those that are new, in the   *)
(* table or in a slot, were resolved in the table as it was.                *)
LEMMA IdentityGrows ==
    ASSUME IdentityInv, LinksInv', NEW next, next = building', DOMAIN next = Builders,
           \A w \in Builders : next[w].pc = "create" => FoundOver(next[w].der, records),
           NEW more, more = records', NEW n \in Nat, n = Len(records), NEW m \in Nat, n <= m,
           Len(more) = m, more = [k \in 1..m |-> more[k]],
           \A k \in 1..n : more[k].identity = records[k].identity,
           \A k \in 1..m : FoundOver(more[k], records)
    PROVE  IdentityInv'
<1>1. ASSUME NEW d, FoundOver(d, records) PROVE FoundOver(d, more)
  BY <1>1, FoundStays
<1>2. \A k \in 1..m : FoundOver(more[k], more)
  BY <1>1
<1>3. \A w \in Builders : next[w].pc = "create" => FoundOver(next[w].der, more)
  BY <1>1
<1> QED BY <1>2, <1>3 DEF IdentityInv

(* The records stay.                                                        *)
LEMMA RecordsStay ==
    ASSUME IdentityInv, LinksInv', records' = records, NEW next, next = building',
           DOMAIN next = Builders,
           \A w \in Builders : next[w].pc = "create" =>
             next[w] = building[w] \/ FoundOver(next[w].der, records)
    PROVE  IdentityInv'
<1>1. PICK n \in Nat : n = Len(records)
  BY DEF IdentityInv
<1>2. PICK more : more = records'
  OBVIOUS
<1>3. /\ Len(more) = n /\ more = [k \in 1..n |-> more[k]]
      /\ \A k \in 1..n : more[k].identity = records[k].identity
      /\ \A k \in 1..n : FoundOver(more[k], records)
  BY <1>1, <1>2 DEF IdentityInv
<1>4. \A w \in Builders : next[w].pc = "create" => FoundOver(next[w].der, records)
  BY DEF IdentityInv
<1>5. n <= n
  BY <1>1
<1> QED BY <1>1, <1>2, <1>3, <1>4, <1>5, IdentityGrows

(* A step that leaves the links, and brings no slot to save one.            *)
LEMMA LinksStay ==
    ASSUME LinksInv, links' = links,
           \A w \in Builders : building'[w].pc = "link" => building'[w] = building[w]
    PROVE  LinksInv'
<1>1. ASSUME NEW w \in Builders, building'[w].pc = "link"
      PROVE  building'[w].link \in LinkIds /\ building'[w].row \in LinkRow
  <2>1. building'[w] = building[w]
    BY <1>1
  <2> QED BY <2>1, <1>1 DEF LinksInv
<1> QED BY <1>1 DEF LinksInv

(* Only a slot moves, and neither creates a record nor saves a link.        *)
LEMMA SlotStays ==
    ASSUME IdentityInv, NEW w \in Builders, NEW b, b.pc \notin {"link", "create"},
           building' = [building EXCEPT ![w] = b], UNCHANGED <<links, records>>
    PROVE  IdentityInv'
<1>1. DOMAIN building = Builders /\ LinksInv
  BY DEF IdentityInv
<1>2. DOMAIN building' = Builders
      /\ \A v \in Builders : building'[v] = IF v = w THEN b ELSE building[v]
  BY <1>1
<1>3. \A v \in Builders : building'[v].pc \in {"link", "create"} => building'[v] = building[v]
  BY <1>2
<1>4. LinksInv'
  BY <1>1, <1>3, LinksStay
<1>5. PICK next : next = building'
  OBVIOUS
<1> QED BY <1>2, <1>3, <1>4, <1>5, RecordsStay

(* A link is written: posted, or saved by a request that read it before.    *)
LEMMA LinkWritten ==
    ASSUME IdentityInv, NEW l \in LinkIds, NEW row \in LinkRow,
           links' = [links EXCEPT ![l] = row], records' = records,
           DOMAIN building' = Builders,
           \A w \in Builders : building'[w] = building[w] \/ building'[w] = Free
    PROVE  IdentityInv'
<1>1. LinksInv
  BY DEF IdentityInv
<1>2. links' \in [LinkIds -> LinkRow \cup {Unset}]
  BY <1>1 DEF LinksInv
<1>3. ASSUME NEW w \in Builders, building'[w].pc = "link"
      PROVE  building'[w].link \in LinkIds /\ building'[w].row \in LinkRow
  <2>1. building'[w] = building[w]
    BY <1>3 DEF Free
  <2> QED BY <2>1, <1>1, <1>3 DEF LinksInv
<1>4. LinksInv'
  BY <1>2, <1>3 DEF LinksInv
<1>5. PICK next : next = building'
  OBVIOUS
<1>6. \A w \in Builders : next[w].pc = "create" => next[w] = building[w]
  BY <1>5 DEF Free
<1> QED BY <1>4, <1>5, <1>6, RecordsStay

(* No step disturbs the invariant.                                          *)
LEMMA IdentityNext ==
    ASSUME ContextAssumption, IdentityInv, [ContextNext]_contextVars
    PROVE  IdentityInv'
<1> DEFINE Moves(w) == \E b : b.pc \notin {"link", "create"} /\ building' = [building EXCEPT ![w] = b]
<1>0. ASSUME NEW w \in Builders, Moves(w), UNCHANGED <<links, records>> PROVE IdentityInv'
  <2>1. PICK b : b.pc \notin {"link", "create"} /\ building' = [building EXCEPT ![w] = b]
    BY <1>0
  <2> QED BY <2>1, <1>0, SlotStays
<1>1. ASSUME NEW w \in Builders, building' = [building EXCEPT ![w] = Free],
             UNCHANGED <<links, records>>
      PROVE  IdentityInv'
  <2>1. Free.pc \notin {"link", "create"}
    BY DEF Free
  <2> QED BY <2>1, <1>0, <1>1
<1>2. ASSUME UNCHANGED <<links, records, building>> PROVE IdentityInv'
  <2>1. LinksInv'
    BY <1>2, LinksStay DEF IdentityInv
  <2>2. PICK next : next = building'
    OBVIOUS
  <2>3. DOMAIN next = Builders /\ \A w \in Builders : next[w] = building[w]
    BY <2>2, <1>2 DEF IdentityInv
  <2> QED BY <2>1, <2>2, <2>3, <1>2, RecordsStay
<1>3. ASSUME NEW p \in LinkPosts, CreateLinkAssertion(p) PROVE IdentityInv'
  <2>1. PICK row : row = [ends |-> p.ends, relationship |-> p.relationship, status |-> p.status]
    OBVIOUS
  <2>2. PICK l : l = p.id
    OBVIOUS
  <2>3. l \in LinkIds /\ links' = [links EXCEPT ![l] = row] /\ UNCHANGED <<records, building>>
    BY <1>3, <2>1, <2>2 DEF CreateLinkAssertion, LinkIds
  <2>4. PICK source, target \in ResourceNames : p.ends = {source, target}
    BY DEF ContextAssumption
  <2>5. p.status \in {"inferred", "confirmed", "rejected"}
    BY DEF ContextAssumption
  <2>6. row \in LinkAssertion
    BY <2>1, <2>4, <2>5 DEF LinkAssertion
  <2>7. row \in LinkRow
    BY <2>1, <2>4, <2>6 DEF LinkRow
  <2>8. DOMAIN building' = Builders
    BY <2>3 DEF IdentityInv
  <2>9. \A w \in Builders : building'[w] = building[w] \/ building'[w] = Free
    BY <2>3
  <2> QED BY <2>3, <2>7, <2>8, <2>9, LinkWritten
<1>4. ASSUME NEW w \in Builders, NEW l \in LinkIds, NEW status \in {"confirmed", "rejected"},
             ReadLink(w, l, status)
      PROVE  IdentityInv'
  <2>1. PICK row : row = [links[l] EXCEPT !.status = status]
    OBVIOUS
  <2>2. PICK b : b = [pc |-> "link", link |-> l, row |-> row]
    OBVIOUS
  <2>3. /\ links[l] # Unset /\ building' = [building EXCEPT ![w] = b]
        /\ UNCHANGED <<links, records>>
    BY <1>4, <2>1, <2>2 DEF ReadLink
  <2>4. DOMAIN building = Builders /\ LinksInv
    BY DEF IdentityInv
  <2>5. PICK old \in LinkRow : old = links[l]
    BY <2>3, <2>4 DEF LinksInv
  <2>6. row \in LinkAssertion /\ row.ends = old.ends
    BY <2>1, <2>5 DEF LinkAssertion, LinkRow
  <2>7. row \in LinkRow
    BY <2>5, <2>6 DEF LinkRow
  <2>8. PICK next : next = building'
    OBVIOUS
  <2>9. DOMAIN next = Builders /\ \A v \in Builders : next[v] = IF v = w THEN b ELSE building[v]
    BY <2>3, <2>4, <2>8
  <2>10. ASSUME NEW v \in Builders, next[v].pc = "link"
         PROVE  next[v].link \in LinkIds /\ next[v].row \in LinkRow
    <3>1. CASE v = w
      <4>1. next[v].link = l /\ next[v].row = row
        BY <3>1, <2>2, <2>9
      <4> QED BY <4>1, <2>7
    <3>2. CASE v # w
      <4>1. next[v] = building[v]
        BY <3>2, <2>9
      <4> QED BY <4>1, <2>4, <2>10 DEF LinksInv
    <3> QED BY <3>1, <3>2
  <2>11. LinksInv'
    BY <2>3, <2>4, <2>8, <2>10 DEF LinksInv
  <2>12. \A v \in Builders : next[v].pc = "create" => next[v] = building[v]
    BY <2>2, <2>9
  <2> QED BY <2>3, <2>8, <2>9, <2>11, <2>12, RecordsStay
<1>5. ASSUME NEW w \in Builders, SaveLink(w) PROVE IdentityInv'
  <2>1. DOMAIN building = Builders /\ LinksInv
    BY DEF IdentityInv
  <2>2. PICK l : l = building[w].link
    OBVIOUS
  <2>3. PICK row : row = building[w].row
    OBVIOUS
  <2>4. l \in LinkIds /\ row \in LinkRow
    BY <1>5, <2>1, <2>2, <2>3 DEF LinksInv, SaveLink
  <2>5. /\ links' = [links EXCEPT ![l] = row] /\ records' = records
        /\ building' = [building EXCEPT ![w] = Free]
    BY <1>5, <2>2, <2>3 DEF SaveLink
  <2>6. DOMAIN building' = Builders
        /\ \A v \in Builders : building'[v] = building[v] \/ building'[v] = Free
    BY <2>1, <2>5
  <2> QED BY <2>4, <2>5, <2>6, LinkWritten
<1>6. ASSUME NEW w \in Builders, NEW p \in BuildPosts, Identify(w, p) PROVE IdentityInv'
  <2>1. PICK answer : answer = resolve_identity(p.resources)
    OBVIOUS
  <2>2. PICK n \in Nat : n = Len(records) /\ DOMAIN records = 1..n
    BY DEF IdentityInv
  <2>3. PICK identity \in answer.found :
          building' = [building EXCEPT ![w] =
            [pc |-> "create", decidedAt |-> p.decidedAt,
             der |-> [resources |-> p.resources, identity |-> identity,
                      method |-> answer.method, trace |-> 0, bindings |-> {},
                      known |-> Len(records),
                      over |-> IF answer.method \in {"dep_relationship", "link_assertion"}
                               THEN LinksOver(p.resources, identity) ELSE {}]]]
    BY <1>6, <2>1, Zenon DEF Identify
  <2>4. PICK over : over = IF answer.method \in {"dep_relationship", "link_assertion"}
                           THEN LinksOver(p.resources, identity) ELSE {}
    OBVIOUS
  <2>5. PICK d : d = [resources |-> p.resources, identity |-> identity,
                      method |-> answer.method, trace |-> 0, bindings |-> {}, known |-> n,
                      over |-> over]
    OBVIOUS
  <2>6. PICK b : b = [pc |-> "create", decidedAt |-> p.decidedAt, der |-> d]
    OBVIOUS
  <2>7. building' = [building EXCEPT ![w] = b]
    BY <2>2, <2>3, <2>4, <2>5, <2>6, Zenon
  <2>8. p.resources \in Seq(ResourceNames) /\ LinksInv /\ DOMAIN building = Builders
    BY DEF ContextAssumption, IdentityInv
  <2>9. ASSUME NEW e \in over PROVE LedTo(e, identity, n, records)
    <3>1. PICK resources \in Seq(ResourceNames) : resources = p.resources
      BY <2>8
    <3>2. answer.method \in {"dep_relationship", "link_assertion"}
          /\ e \in LinksOver(resources, identity)
      BY <2>4, <2>9, <3>1
    <3>3. FirstAnswer(_try_exact_id, resources) = {}
      BY <3>1, <3>2, <2>1, LinksAfterExact, Zenon
    <3>4. LinksInv /\ DOMAIN records = 1..n /\ e \in LinksOver(resources, identity)
      BY <2>2, <2>8, <3>2
    <3>5. \A i \in DOMAIN resources : ~ Known({resources[i]})
      BY <3>3, ExactSilent
    <3> QED BY <3>4, <3>5, OverLinks
  <2>10. FoundOver(d, records)
    <3>1. DOMAIN d = RecordFields /\ d.known = n /\ d.over = over /\ d.identity = identity
      BY <2>5 DEF RecordFields
    <3>2. d.known \in 0..Len(records)
      BY <3>1, <2>2
    <3> QED BY <3>1, <3>2, <2>9 DEF FoundOver
  <2>11. PICK next : next = building'
    OBVIOUS
  <2>12. DOMAIN next = Builders /\ \A v \in Builders : next[v] = IF v = w THEN b ELSE building[v]
    BY <2>7, <2>8, <2>11
  <2>13. b.pc = "create" /\ b.der = d
    BY <2>6
  <2>14. \A v \in Builders : next[v].pc = "create" =>
           next[v] = building[v] \/ FoundOver(next[v].der, records)
    BY <2>10, <2>12, <2>13
  <2>15. records' = records /\ links' = links
    BY <1>6 DEF Identify
  <2>16. LinksInv'
    <3>1. \A v \in Builders : building'[v].pc = "link" => building'[v] = building[v]
      BY <2>11, <2>12, <2>13
    <3> QED BY <3>1, <2>8, <2>15, LinksStay
  <2> QED BY <2>11, <2>12, <2>14, <2>15, <2>16, RecordsStay
<1>7. ASSUME NEW w \in Builders, CreateRecord(w) PROVE IdentityInv'
  <2>1. PICK d : d = building[w].der
    OBVIOUS
  <2>2. PICK b : b = [pc |-> "select", at |-> Len(records) + 1, decidedAt |-> building[w].decidedAt]
    OBVIOUS
  <2>3. /\ building[w].pc = "create" /\ records' = Append(records, d)
        /\ building' = [building EXCEPT ![w] = b] /\ links' = links
    BY <1>7, <2>1, <2>2 DEF CreateRecord
  <2>4. DOMAIN building = Builders /\ LinksInv
    BY DEF IdentityInv
  <2>5. PICK next : next = building'
    OBVIOUS
  <2>6. DOMAIN next = Builders /\ \A v \in Builders : next[v] = IF v = w THEN b ELSE building[v]
    BY <2>3, <2>4, <2>5
  <2>7. b.pc \notin {"link", "create"}
    BY <2>2
  <2>8. LinksInv'
    <3>1. \A v \in Builders : building'[v].pc = "link" => building'[v] = building[v]
      BY <2>5, <2>6, <2>7
    <3> QED BY <3>1, <2>3, <2>4, LinksStay
  <2>9. \A v \in Builders : next[v].pc = "create" => FoundOver(next[v].der, records)
    <3>1. \A v \in Builders : building[v].pc = "create" => FoundOver(building[v].der, records)
      BY DEF IdentityInv
    <3> QED BY <3>1, <2>6, <2>7
  <2>10. FoundOver(d, records)
    BY <2>1, <2>3 DEF IdentityInv
  <2>11. PICK n \in Nat : n = Len(records)
    BY DEF IdentityInv
  <2>12. records = [k \in 1..n |-> records[k]] /\ \A k \in 1..n : FoundOver(records[k], records)
    BY <2>11 DEF IdentityInv
  <2>13. PICK more : more = Append(records, d)
    OBVIOUS
  <2>14. /\ Len(more) = n + 1 /\ more = [k \in 1..(n + 1) |-> more[k]]
         /\ more[n + 1] = d /\ \A k \in 1..n : more[k] = records[k]
    <3>1. PICK U : U = {records[k] : k \in 1..n} \cup {d}
      OBVIOUS
    <3>2. \A k \in 1..n : records[k] \in U
      BY <3>1
    <3>3. [k \in 1..n |-> records[k]] \in Seq(U) /\ d \in U
      BY <3>1, <3>2
    <3>4. records \in Seq(U) /\ d \in U
      BY <3>3, <2>12, Zenon
    <3>5. DOMAIN more = 1..(n + 1) /\ Len(more) = n + 1 /\ more[n + 1] = d
      BY <3>4, <2>11, <2>13
    <3>6. \A k \in 1..n : more[k] = records[k]
      BY <3>4, <2>11, <2>13
    <3>7. more = [k \in 1..(n + 1) |-> more[k]]
      <4>1. more \in Seq(U)
        BY <3>4, <2>13
      <4> QED BY <4>1, <3>5
    <3> QED BY <3>5, <3>6, <3>7
  <2>15. \A k \in 1..n : more[k].identity = records[k].identity
    BY <2>14
  <2>16. ASSUME NEW k \in 1..(n + 1) PROVE FoundOver(more[k], records)
    <3>1. CASE k = n + 1
      BY <3>1, <2>10, <2>14
    <3>2. CASE k # n + 1
      <4>1. k \in 1..n
        BY <3>2
      <4> QED BY <4>1, <2>12, <2>14
    <3> QED BY <3>1, <3>2
  <2>17. more = records' /\ n + 1 \in Nat /\ n <= n + 1
    BY <2>3, <2>13
  <2> QED BY <2>5, <2>6, <2>8, <2>9, <2>11, <2>14, <2>15, <2>16, <2>17, IdentityGrows
<1>8. ASSUME NEW w \in Builders, Select(w) PROVE IdentityInv'
  <2>1. PICK f : building' = [building EXCEPT ![w] =
           [pc |-> "judge", at |-> building[w].at, decidedAt |-> building[w].decidedAt,
            candidates |-> f]]
    BY <1>8, Zenon DEF Select
  <2>2. PICK b : b = [pc |-> "judge", at |-> building[w].at, decidedAt |-> building[w].decidedAt,
                      candidates |-> f]
    OBVIOUS
  <2>3. b.pc \notin {"link", "create"} /\ building' = [building EXCEPT ![w] = b]
    BY <2>1, <2>2
  <2> QED BY <2>3, <1>0, <1>8 DEF Select
<1>9. ASSUME NEW w \in Builders, Judge(w) PROVE IdentityInv'
  <2>1. PICK pending, trace :
          \/ building' = [building EXCEPT ![w] = Free]
          \/ building' = [building EXCEPT ![w] =
               [pc |-> "write", at |-> building[w].at, pending |-> pending, trace |-> trace]]
    BY <1>9, Zenon DEF Judge
  <2>2. UNCHANGED <<links, records>>
    BY <1>9 DEF Judge
  <2>3. PICK b : b = [pc |-> "write", at |-> building[w].at, pending |-> pending, trace |-> trace]
    OBVIOUS
  <2>4. b.pc \notin {"link", "create"}
    BY <2>3
  <2> QED BY <2>1, <2>2, <2>3, <2>4, <1>0, <1>1
<1>10. ASSUME NEW w \in Builders, CreateContextConflict(w) PROVE IdentityInv'
  <2>1. PICK c : building' = [building EXCEPT ![w].pending = @ \ {c}]
    BY <1>10, Zenon DEF CreateContextConflict
  <2>2. PICK b : b = [building[w] EXCEPT !.pending = @ \ {c}]
    OBVIOUS
  <2>3. building[w].pc = "write" /\ UNCHANGED <<links, records>>
    BY <1>10 DEF CreateContextConflict
  <2>4. DOMAIN building = Builders
    BY DEF IdentityInv
  <2>5. building' = [building EXCEPT ![w] = b]
    BY <2>1, <2>2, <2>4
  <2>6. b.pc \notin {"link", "create"}
    BY <2>2, <2>3
  <2> QED BY <2>3, <2>5, <2>6, <1>0
<1>11. ASSUME NEW w \in Builders, CreateTrace(w) PROVE IdentityInv'
  <2>1. PICK b : b = [pc |-> "record", at |-> building[w].at, trace |-> Len(traces) + 1]
    OBVIOUS
  <2>2. b.pc \notin {"link", "create"}
    BY <2>1
  <2> QED BY <2>1, <2>2, <1>0, <1>11 DEF CreateTrace
<1>12. ASSUME NEW w \in Builders, _update_der_bindings(w) PROVE IdentityInv'
  <2>1. PICK at : at = building[w].at
    OBVIOUS
  <2>2. PICK trace : trace = building[w].trace
    OBVIOUS
  <2>3. PICK included : included = traces[building[w].trace].included
    OBVIOUS
  <2>4. PICK n \in Nat : n = Len(records)
    BY DEF IdentityInv
  <2>5. records = [k \in 1..n |-> records[k]] /\ \A k \in 1..n : FoundOver(records[k], records)
    BY <2>4 DEF IdentityInv
  <2>6. PICK rows : rows = [records EXCEPT ![at].trace = trace, ![at].bindings = included]
    OBVIOUS
  <2>7. rows = records' /\ links' = links /\ building' = [building EXCEPT ![w] = Free]
    BY <1>12, <2>1, <2>2, <2>3, <2>6 DEF _update_der_bindings
  <2>8. DOMAIN rows = 1..n /\ rows = [k \in 1..n |-> rows[k]]
    BY <2>5, <2>6
  <2>9. Len(rows) = n
    BY <2>4, <2>8
  <2>10. ASSUME NEW k \in 1..n
         PROVE  /\ DOMAIN rows[k] = RecordFields
                /\ rows[k].identity = records[k].identity
                /\ rows[k].known = records[k].known /\ rows[k].over = records[k].over
    <3>1. DOMAIN records[k] = RecordFields
      BY <2>5 DEF FoundOver
    <3>2. CASE k = at
      <4>1. rows[k] = [[records[k] EXCEPT !.trace = trace] EXCEPT !.bindings = included]
        BY <3>2, <2>5, <2>6
      <4> QED BY <4>1, <3>1 DEF RecordFields
    <3>3. CASE k # at
      <4>1. rows[k] = records[k]
        BY <3>3, <2>5, <2>6
      <4> QED BY <4>1, <3>1
    <3> QED BY <3>2, <3>3
  <2>11. ASSUME NEW k \in 1..n PROVE FoundOver(rows[k], records)
    <3>1. PICK d : d = records[k]
      OBVIOUS
    <3>2. PICK e : e = rows[k]
      OBVIOUS
    <3>3. FoundOver(d, records)
      BY <2>5, <3>1
    <3>4. DOMAIN e = RecordFields /\ e.identity = d.identity /\ e.known = d.known
          /\ e.over = d.over
      BY <2>10, <3>1, <3>2
    <3>5. FoundOver(e, records)
      BY <3>3, <3>4 DEF FoundOver
    <3> QED BY <3>2, <3>5
  <2>12. DOMAIN building = Builders /\ LinksInv
    BY DEF IdentityInv
  <2>13. PICK next : next = building'
    OBVIOUS
  <2>14. DOMAIN next = Builders
         /\ \A v \in Builders : next[v].pc \in {"link", "create"} => next[v] = building[v]
    BY <2>7, <2>12, <2>13 DEF Free
  <2>15. LinksInv'
    BY <2>7, <2>12, <2>13, <2>14, LinksStay
  <2>16. \A v \in Builders : next[v].pc = "create" => FoundOver(next[v].der, records)
    <3>1. \A v \in Builders : building[v].pc = "create" => FoundOver(building[v].der, records)
      BY DEF IdentityInv
    <3> QED BY <3>1, <2>14
  <2>17. n <= n /\ \A k \in 1..n : rows[k].identity = records[k].identity
    BY <2>10
  <2> QED BY <2>4, <2>7, <2>8, <2>9, <2>11, <2>13, <2>14, <2>15, <2>16, <2>17, IdentityGrows
<1>13. ASSUME NEW w \in Builders, Crash(w) PROVE IdentityInv'
  BY <1>1, <1>13 DEF Crash
<1>14. ASSUME NEW cb \in BindingPosts, CreateContextBinding(cb) PROVE IdentityInv'
  BY <1>2, <1>14 DEF CreateContextBinding
<1>15. ASSUME NEW artifact \in DepArtifacts, StorePayload(artifact) PROVE IdentityInv'
  BY <1>2, <1>15 DEF StorePayload
<1>16. ASSUME NEW c \in contextConflicts, NEW resolution, ResolveConflict(c, resolution)
       PROVE  IdentityInv'
  BY <1>2, <1>16 DEF ResolveConflict
<1>17. ASSUME UNCHANGED contextVars PROVE IdentityInv'
  BY <1>2, <1>17 DEF contextVars
<1> HIDE DEF Moves
<1>18. ASSUME NEW w \in Builders,
              \/ \E l \in LinkIds, status \in {"confirmed", "rejected"} : ReadLink(w, l, status)
              \/ SaveLink(w) \/ (\E p \in BuildPosts : Identify(w, p)) \/ CreateRecord(w)
              \/ Select(w) \/ Judge(w) \/ CreateContextConflict(w) \/ CreateTrace(w)
              \/ _update_der_bindings(w) \/ Crash(w)
       PROVE  IdentityInv'
  <2>1. CASE \E l \in LinkIds, status \in {"confirmed", "rejected"} : ReadLink(w, l, status)
    BY <1>4, <2>1
  <2>2. CASE \E p \in BuildPosts : Identify(w, p)
    BY <1>6, <2>2
  <2>3. CASE SaveLink(w) \/ CreateRecord(w) \/ Select(w) \/ Judge(w)
    BY <1>5, <1>7, <1>8, <1>9, <2>3, Zenon
  <2>4. CASE CreateContextConflict(w) \/ CreateTrace(w) \/ _update_der_bindings(w) \/ Crash(w)
    BY <1>10, <1>11, <1>12, <1>13, <2>4, Zenon
  <2> QED BY <1>18, <2>1, <2>2, <2>3, <2>4, Zenon
<1>19. ASSUME ContextNext PROVE IdentityInv'
  BY <1>3, <1>14, <1>15, <1>16, <1>18, <1>19, Zenon DEF ContextNext
<1> QED BY <1>17, <1>19, Zenon

(* Of two records that were reached over one link, the second did not start *)
(* at the first's identity: both went to the same end.                      *)
LEMMA IdentityGives == ASSUME IdentityInv PROVE LinkedDecisionsAgree
<1> SUFFICES ASSUME NEW k \in DOMAIN records, NEW j \in 1..records[k].known,
                    records[j].over \cap records[k].over # {}
             PROVE  records[j].identity = records[k].identity
  BY DEF LinkedDecisionsAgree
<1>1. PICK n \in Nat : n = Len(records) /\ DOMAIN records = 1..n
  BY DEF IdentityInv
<1>2. FoundOver(records[k], records)
  BY <1>1 DEF IdentityInv
<1>3. records[k].known \in 0..n
  BY <1>1, <1>2 DEF FoundOver
<1>4. j \in 1..n
  BY <1>3
<1>5. FoundOver(records[j], records)
  BY <1>1, <1>4 DEF IdentityInv
<1>6. PICK e \in records[j].over : e \in records[k].over
  OBVIOUS
<1>7. PICK r, q \in ResourceNames : e = {r, q} /\ records[j].identity = {q}
  <2>1. LedTo(e, records[j].identity, records[j].known, records)
    BY <1>5, <1>6 DEF FoundOver
  <2> QED BY <2>1, Zenon DEF LedTo
<1>8. PICK s, t \in ResourceNames :
        /\ e = {s, t} /\ records[k].identity = {t}
        /\ \A i \in 1..records[k].known : records[i].identity # {s}
  <2>1. LedTo(e, records[k].identity, records[k].known, records)
    BY <1>2, <1>6 DEF FoundOver
  <2> QED BY <2>1, Zenon DEF LedTo
<1>9. records[j].identity # {s}
  BY <1>8
<1>10. q # s
  BY <1>7, <1>9
<1>11. q = t
  BY <1>7, <1>8, <1>10
<1> QED BY <1>7, <1>8, <1>11

(* It holds at the start.                                                   *)
LEMMA IdentityStart == ASSUME ContextInit PROVE IdentityInv
<1>1. links = [l \in LinkIds |-> Unset] /\ records = <<>> /\ building = [w \in Builders |-> Free]
  BY DEF ContextInit
<1>2. LinksInv
  BY <1>1 DEF LinksInv, Free
<1>3. DOMAIN building = Builders /\ \A w \in Builders : building[w].pc # "create"
  BY <1>1 DEF Free
<1>4. Len(records) = 0 /\ records = [k \in 1..Len(records) |-> records[k]]
  BY <1>1
<1> QED BY <1>2, <1>3, <1>4 DEF IdentityInv

(* For any posts of links, resources and number of builds: of two decisions *)
(* reached over a link between the same two resources, the one resolved     *)
(* after the other was recorded has its identity (identity.py:30-105),      *)
(* whatever was posted, confirmed or rejected in between.                   *)
THEOREM LinkedRecordsAgree == ContextSpec => []LinkedDecisionsAgree
<1>1. ContextInit => IdentityInv
  BY IdentityStart
<1>2. IdentityInv /\ [ContextNext]_contextVars => IdentityInv'
  BY ContextAssumption, IdentityNext
<1>3. IdentityInv => LinkedDecisionsAgree
  BY IdentityGives
<1> QED BY <1>1, <1>2, <1>3, PTL DEF ContextSpec

-----------------------------------------------------------------------------
(* EvidenceContext: the types.                                              *)

Times == {p.decidedAt : p \in BuildPosts}
GroupKeys == {GroupKey(cb) : cb \in BindingPosts}
Positions == 1..MaxBindings

(* The rows while there are n records, and while there are n traces.        *)
ConflictRow(n) == [der : 1..n, key : GroupKeys, a : BindingIds, b : BindingIds,
                   resolution : {Unset, "resolved_use_a", "resolved_use_b"}]
TraceRow(n) == [der : 1..n, included : SUBSET BindingIds, excluded : SUBSET BindingIds,
                superseded : SUBSET BindingIds, missing : SUBSET BindingIds,
                redacted : SUBSET BindingIds, conflicted : {{}},
                considered : UNION {[at -> BindingPosts] : at \in SUBSET Positions},
                decidedAt : Times]
EvidenceRow(n) == [resources : Seq(ResourceNames), identity : Identities, method : Methods,
                   trace : 0..n, bindings : SUBSET BindingIds, known : Nat,
                   over : SUBSET Identities]

(* What the record at k says of its trace.                                  *)
Traced(d, k, ts) == d.trace # 0 => ts[d.trace].der = k /\ ts[d.trace].included = d.bindings

(* What a request holds while there are n records, and the traces ts.       *)
SlotTyped(b, n, ts) ==
    /\ b.pc = "create" => b.der \in EvidenceRow(0) /\ b.decidedAt \in Times
    /\ b.pc \in {"select", "judge"} => b.at \in 1..n /\ b.decidedAt \in Times
    /\ b.pc = "judge" => DOMAIN b.candidates \subseteq Positions
    /\ b.pc = "write" => /\ b.at \in 1..n /\ b.pending \subseteq ConflictRow(n)
                         /\ b.trace \in TraceRow(n) /\ b.trace.der = b.at
    /\ b.pc = "record" => /\ b.at \in 1..n /\ b.trace \in 1..Len(ts)
                          /\ ts[b.trace].der = b.at

RowsTyped(rs, ts, cs, slots) ==
    /\ rs \in Seq(EvidenceRow(Len(ts)))
    /\ ts \in Seq(TraceRow(Len(rs)))
    /\ cs \subseteq ConflictRow(Len(rs))
    /\ \A k \in 1..Len(rs) : Traced(rs[k], k, ts)
    /\ DOMAIN slots = Builders
    /\ \A w \in Builders : SlotTyped(slots[w], Len(rs), ts)

BindingsTyped ==
    /\ bindings \in Seq(BindingPosts) /\ Len(bindings) <= posted
    /\ posted \in 0..MaxBindings /\ stored \subseteq DepArtifacts /\ crashes \in 0..MaxCrashes

ContextInv ==
    /\ BindingsTyped
    /\ ConsideredInv
    /\ IdentityInv
    /\ RowsTyped(records, traces, contextConflicts, building)

(* A free slot, or one that writes a link, holds no row.                    *)
LEMMA OtherTyped ==
    ASSUME NEW b, b.pc \in {"free", "link"}, NEW n, NEW ts
    PROVE  SlotTyped(b, n, ts)
BY DEF SlotTyped

(* The rows of few records are rows of more.                                *)
LEMMA RowsGrow ==
    ASSUME NEW n \in Nat, NEW m \in Nat, n <= m
    PROVE  /\ ConflictRow(n) \subseteq ConflictRow(m)
           /\ TraceRow(n) \subseteq TraceRow(m)
           /\ EvidenceRow(n) \subseteq EvidenceRow(m)
<1>1. 1..n \subseteq 1..m /\ 0..n \subseteq 0..m
  OBVIOUS
<1>2. ConflictRow(n) \subseteq ConflictRow(m)
  BY <1>1 DEF ConflictRow
<1>3. TraceRow(n) \subseteq TraceRow(m)
  BY <1>1 DEF TraceRow
<1>4. EvidenceRow(n) \subseteq EvidenceRow(m)
  BY <1>1 DEF EvidenceRow
<1> QED BY <1>2, <1>3, <1>4

(* What a request holds stands while records and traces are added.          *)
LEMMA SlotLater ==
    ASSUME NEW b, NEW n \in Nat, NEW m \in Nat, n <= m, NEW ts, NEW more, Len(ts) \in Nat,
           Len(more) \in Nat, Len(ts) <= Len(more), \A k \in 1..Len(ts) : more[k] = ts[k],
           SlotTyped(b, n, ts)
    PROVE  SlotTyped(b, m, more)
<1>1. ConflictRow(n) \subseteq ConflictRow(m) /\ TraceRow(n) \subseteq TraceRow(m)
  BY RowsGrow
<1>2. 1..n \subseteq 1..m /\ 1..Len(ts) \subseteq 1..Len(more)
  OBVIOUS
<1> QED BY <1>1, <1>2 DEF SlotTyped

(* A slot moves on, and conflict rows may be written.                       *)
LEMMA SlotMoves ==
    ASSUME NEW rs, NEW ts, NEW cs, NEW slots, RowsTyped(rs, ts, cs, slots),
           NEW w \in Builders, NEW b, SlotTyped(b, Len(rs), ts),
           NEW rows, rows \subseteq ConflictRow(Len(rs))
    PROVE  RowsTyped(rs, ts, rows, [slots EXCEPT ![w] = b])
<1>1. PICK next : next = [slots EXCEPT ![w] = b]
  OBVIOUS
<1>2. DOMAIN slots = Builders /\ \A v \in Builders : SlotTyped(slots[v], Len(rs), ts)
  BY Zenon DEF RowsTyped
<1>3. DOMAIN next = Builders /\ \A v \in Builders : next[v] = IF v = w THEN b ELSE slots[v]
  BY <1>1, <1>2
<1>4. \A v \in Builders : SlotTyped(next[v], Len(rs), ts)
  BY <1>2, <1>3
<1>5. RowsTyped(rs, ts, rows, next)
  BY <1>3, <1>4, Zenon DEF RowsTyped
<1> QED BY <1>1, <1>5

(* A record is created.                                                     *)
LEMMA RecordTyped ==
    ASSUME NEW rs, NEW ts, NEW cs, NEW slots, RowsTyped(rs, ts, cs, slots),
           NEW w \in Builders, NEW d \in EvidenceRow(0), NEW at \in Times,
           NEW b, b = [pc |-> "select", at |-> Len(rs) + 1, decidedAt |-> at]
    PROVE  RowsTyped(Append(rs, d), ts, cs, [slots EXCEPT ![w] = b])
<1>1. PICK next : next = [slots EXCEPT ![w] = b]
  OBVIOUS
<1>2. PICK more : more = Append(rs, d)
  OBVIOUS
<1>3. /\ rs \in Seq(EvidenceRow(Len(ts))) /\ ts \in Seq(TraceRow(Len(rs)))
      /\ cs \subseteq ConflictRow(Len(rs)) /\ DOMAIN slots = Builders
      /\ \A k \in 1..Len(rs) : Traced(rs[k], k, ts)
      /\ \A v \in Builders : SlotTyped(slots[v], Len(rs), ts)
  BY Zenon DEF RowsTyped
<1>4. PICK n \in Nat, t \in Nat : n = Len(rs) /\ t = Len(ts)
  BY <1>3
<1>5. d \in EvidenceRow(t)
  <2>1. EvidenceRow(0) \subseteq EvidenceRow(t)
    BY <1>4, RowsGrow
  <2> QED BY <2>1
<1>6. more \in Seq(EvidenceRow(t)) /\ Len(more) = n + 1
      /\ \A k \in 1..(n + 1) : more[k] = IF k = n + 1 THEN d ELSE rs[k]
  BY <1>2, <1>3, <1>4, <1>5
<1>7. ConflictRow(n) \subseteq ConflictRow(n + 1) /\ TraceRow(n) \subseteq TraceRow(n + 1)
  BY RowsGrow
<1>8. ts \in Seq(TraceRow(n + 1)) /\ cs \subseteq ConflictRow(n + 1)
  BY <1>3, <1>4, <1>7
<1>9. \A k \in 1..(n + 1) : Traced(more[k], k, ts)
  <2>1. d.trace = 0
    BY DEF EvidenceRow
  <2>2. ASSUME NEW k \in 1..(n + 1) PROVE Traced(more[k], k, ts)
    <3>1. CASE k = n + 1
      <4>1. more[k] = d
        BY <3>1, <1>6
      <4> QED BY <4>1, <2>1 DEF Traced
    <3>2. CASE k # n + 1
      <4>1. k \in 1..n /\ more[k] = rs[k]
        BY <3>2, <1>6
      <4> QED BY <4>1, <1>3, <1>4
    <3> QED BY <3>1, <3>2
  <2> QED BY <2>2
<1>10. SlotTyped(b, n + 1, ts)
  BY <1>4 DEF SlotTyped
<1>11. ASSUME NEW v \in Builders PROVE SlotTyped(next[v], n + 1, ts)
  <2>1. next[v] = IF v = w THEN b ELSE slots[v]
    BY <1>1, <1>3
  <2>2. SlotTyped(slots[v], n, ts)
    BY <1>3, <1>4
  <2>3. SlotTyped(slots[v], n + 1, ts)
    BY <2>2, <1>4, SlotLater
  <2> QED BY <2>1, <2>3, <1>10
<1>12. DOMAIN next = Builders
  BY <1>1, <1>3
<1>13. RowsTyped(more, ts, cs, next)
  BY <1>4, <1>6, <1>8, <1>9, <1>11, <1>12 DEF RowsTyped
<1> QED BY <1>1, <1>2, <1>13

(* A trace is created.                                                      *)
LEMMA TraceTyped ==
    ASSUME NEW rs, NEW ts, NEW cs, NEW slots, RowsTyped(rs, ts, cs, slots),
           NEW w \in Builders, NEW k0 \in 1..Len(rs), NEW tr \in TraceRow(Len(rs)), tr.der = k0,
           NEW b, b = [pc |-> "record", at |-> k0, trace |-> Len(ts) + 1]
    PROVE  RowsTyped(rs, Append(ts, tr), cs, [slots EXCEPT ![w] = b])
<1>1. PICK next : next = [slots EXCEPT ![w] = b]
  OBVIOUS
<1>2. PICK more : more = Append(ts, tr)
  OBVIOUS
<1>3. /\ rs \in Seq(EvidenceRow(Len(ts))) /\ ts \in Seq(TraceRow(Len(rs)))
      /\ cs \subseteq ConflictRow(Len(rs)) /\ DOMAIN slots = Builders
      /\ \A k \in 1..Len(rs) : Traced(rs[k], k, ts)
      /\ \A v \in Builders : SlotTyped(slots[v], Len(rs), ts)
  BY Zenon DEF RowsTyped
<1>4. PICK n \in Nat, t \in Nat : n = Len(rs) /\ t = Len(ts)
  BY <1>3
<1>5. more \in Seq(TraceRow(n)) /\ Len(more) = t + 1
      /\ \A k \in 1..(t + 1) : more[k] = IF k = t + 1 THEN tr ELSE ts[k]
  BY <1>2, <1>3, <1>4
<1>6. EvidenceRow(t) \subseteq EvidenceRow(t + 1)
  BY RowsGrow
<1>7. rs \in Seq(EvidenceRow(t + 1))
  BY <1>3, <1>4, <1>6
<1>8. ASSUME NEW k \in 1..n PROVE Traced(rs[k], k, more)
  <2>1. Traced(rs[k], k, ts) /\ rs[k] \in EvidenceRow(t)
    BY <1>3, <1>4
  <2>2. rs[k].trace \in 0..t
    BY <2>1 DEF EvidenceRow
  <2>3. rs[k].trace # 0 => more[rs[k].trace] = ts[rs[k].trace]
    BY <2>2, <1>5
  <2> QED BY <2>1, <2>3 DEF Traced
<1>9. SlotTyped(b, n, more)
  <2>1. t + 1 \in 1..Len(more) /\ more[t + 1] = tr
    BY <1>5
  <2> QED BY <2>1, <1>4 DEF SlotTyped
<1>10. ASSUME NEW v \in Builders PROVE SlotTyped(next[v], n, more)
  <2>1. next[v] = IF v = w THEN b ELSE slots[v]
    BY <1>1, <1>3
  <2>2. SlotTyped(slots[v], n, ts)
    BY <1>3, <1>4
  <2>3. Len(ts) \in Nat /\ Len(more) \in Nat /\ Len(ts) <= Len(more)
        /\ \A k \in 1..Len(ts) : more[k] = ts[k]
    BY <1>4, <1>5
  <2>4. SlotTyped(slots[v], n, more)
    BY <2>2, <2>3, SlotLater
  <2> QED BY <2>1, <2>4, <1>9
<1>11. DOMAIN next = Builders
  BY <1>1, <1>3
<1>12. RowsTyped(rs, more, cs, next)
  BY <1>3, <1>4, <1>5, <1>7, <1>8, <1>10, <1>11 DEF RowsTyped
<1> QED BY <1>1, <1>2, <1>12

(* A row of a table is replaced.                                            *)
LEMMA RowReplaced ==
    ASSUME NEW E, NEW s \in Seq(E), NEW k \in 1..Len(s), NEW d \in E,
           NEW rows, rows = [s EXCEPT ![k] = d]
    PROVE  /\ rows \in Seq(E) /\ Len(rows) = Len(s)
           /\ \A j \in 1..Len(s) : rows[j] = IF j = k THEN d ELSE s[j]
OBVIOUS

(* A record is given its trace and the bindings that the trace includes.    *)
LEMMA RecordUpdated ==
    ASSUME NEW rs, NEW ts, NEW cs, NEW slots, RowsTyped(rs, ts, cs, slots),
           NEW w \in Builders, NEW k0 \in 1..Len(rs), NEW t0 \in 1..Len(ts), ts[t0].der = k0,
           NEW d, d = [rs[k0] EXCEPT !.trace = t0, !.bindings = ts[t0].included],
           NEW rows, rows = [rs EXCEPT ![k0] = d]
    PROVE  RowsTyped(rows, ts, cs, [slots EXCEPT ![w] = Free])
<1>1. /\ rs \in Seq(EvidenceRow(Len(ts))) /\ ts \in Seq(TraceRow(Len(rs)))
      /\ cs \subseteq ConflictRow(Len(rs)) /\ DOMAIN slots = Builders
      /\ \A k \in 1..Len(rs) : Traced(rs[k], k, ts)
      /\ \A v \in Builders : SlotTyped(slots[v], Len(rs), ts)
  BY Zenon DEF RowsTyped
<1>2. PICK n \in Nat, t \in Nat : n = Len(rs) /\ t = Len(ts)
  <2>1. Len(rs) \in Nat /\ Len(ts) \in Nat
    BY <1>1
  <2> QED BY <2>1
<1>3. rs[k0] \in EvidenceRow(t) /\ DOMAIN rs = 1..n
  BY <1>1, <1>2
<1>4. PICK old : old = rs[k0]
  OBVIOUS
<1>5. d = [old EXCEPT !.trace = t0, !.bindings = ts[t0].included]
  BY <1>4
<1>6. ts[t0].included \in SUBSET BindingIds
  <2>1. ts[t0] \in TraceRow(n)
    BY <1>1, <1>2
  <2> QED BY <2>1 DEF TraceRow
<1>7. d \in EvidenceRow(t) /\ d.trace = t0 /\ d.bindings = ts[t0].included
  <2>1. old \in EvidenceRow(t) /\ t0 \in 0..t
    BY <1>2, <1>3, <1>4
  <2> QED BY <2>1, <1>5, <1>6 DEF EvidenceRow
<1>8. rows \in Seq(EvidenceRow(t)) /\ Len(rows) = n
      /\ \A k \in 1..n : rows[k] = IF k = k0 THEN d ELSE rs[k]
  <2>1. PICK E : E = EvidenceRow(t)
    OBVIOUS
  <2>2. rs \in Seq(E) /\ d \in E /\ k0 \in 1..Len(rs)
    BY <1>1, <1>2, <1>7, <2>1
  <2>3. rows \in Seq(E) /\ Len(rows) = Len(rs)
        /\ \A k \in 1..Len(rs) : rows[k] = IF k = k0 THEN d ELSE rs[k]
    BY <2>2, RowReplaced
  <2> QED BY <2>1, <2>3, <1>2
<1>9. ASSUME NEW k \in 1..n PROVE Traced(rows[k], k, ts)
  <2>1. CASE k = k0
    <3>1. rows[k] = d
      BY <2>1, <1>8
    <3> QED BY <3>1, <2>1, <1>7 DEF Traced
  <2>2. CASE k # k0
    <3>1. rows[k] = rs[k] /\ Traced(rs[k], k, ts)
      BY <2>2, <1>1, <1>2, <1>8
    <3> QED BY <3>1
  <2> QED BY <2>1, <2>2
<1>10. RowsTyped(rows, ts, cs, slots)
  BY <1>1, <1>2, <1>8, <1>9 DEF RowsTyped
<1>11. SlotTyped(Free, Len(rows), ts)
  BY OtherTyped DEF Free
<1>12. cs \subseteq ConflictRow(Len(rows))
  BY <1>1, <1>2, <1>8
<1> QED BY <1>10, <1>11, <1>12, SlotMoves

(* Of an identifier turned into another, the rule answers an identity that  *)
(* is known.                                                                *)
LEMMA NamespaceAnswers ==
    ASSUME NEW resources \in Seq(ResourceNames),
           NEW identity \in FirstAnswer(_try_namespace, resources)
    PROVE  Known(identity)
<1> DEFINE A == {i \in DOMAIN resources : _try_namespace(resources[i]) # {}}
           Least(i) == \A j \in A : i <= j
           least == CHOOSE i \in A : Least(i)
<1>1. FirstAnswer(_try_namespace, resources) =
        IF A = {} THEN {} ELSE _try_namespace(resources[least])
  BY Zenon DEF FirstAnswer
<1>2. identity \in _try_namespace(resources[least])
  BY <1>1, Zenon
<1> HIDE DEF least
<1> QED BY <1>2 DEF _try_namespace

(* Of a link of any relationship, the rule answers an end of one that holds *)
(* the resource id.                                                         *)
LEMMA AssertionAnswers ==
    ASSUME NEW resources \in Seq(ResourceNames),
           NEW identity \in FirstAnswer(_try_confirmed_link_assertion, resources)
    PROVE  \E i \in DOMAIN resources : \E l \in ConfirmedLinks(resources[i], Relationships) :
             identity = {OtherEnd(l, resources[i])}
<1> DEFINE A == {i \in DOMAIN resources : _try_confirmed_link_assertion(resources[i]) # {}}
           Least(i) == \A j \in A : i <= j
           least == CHOOSE i \in A : Least(i)
<1>1. FirstAnswer(_try_confirmed_link_assertion, resources) =
        IF A = {} THEN {} ELSE _try_confirmed_link_assertion(resources[least])
  BY Zenon DEF FirstAnswer
<1>2. A # {}
  BY <1>1
<1>3. A \subseteq Nat
  OBVIOUS
<1>4. \E i \in A : Least(i)
  BY <1>2, <1>3, LeastNat
<1> HIDE DEF Least
<1>5. least \in A
  BY <1>4, Zenon
<1>6. identity \in _try_confirmed_link_assertion(resources[least])
  BY <1>1, <1>2, Zenon
<1> HIDE DEF least
<1>7. \E l \in ConfirmedLinks(resources[least], Relationships) :
        identity = {OtherEnd(l, resources[least])}
  BY <1>6 DEF _try_confirmed_link_assertion
<1> QED BY <1>5, <1>7

(* The end that a link gives is a resource name.                            *)
LEMMA EndTyped ==
    ASSUME LinksInv, NEW r, NEW relationships, NEW l \in ConfirmedLinks(r, relationships)
    PROVE  {OtherEnd(l, r)} \in Identities
<1>1. l \in LinkIds /\ links[l] # Unset /\ r \in links[l].ends
  BY DEF ConfirmedLinks
<1>2. PICK source, target \in ResourceNames : links[l].ends = {source, target}
  BY <1>1 DEF LinksInv, LinkRow
<1>3. OtherEnd(l, r) \in links[l].ends
  BY <1>1, <1>2, EndOf
<1>4. OtherEnd(l, r) \in ResourceNames
  BY <1>2, <1>3
<1> QED BY <1>4 DEF Identities

(* The ends of the links that give an identity are resource names.          *)
LEMMA OverTyped ==
    ASSUME LinksInv, NEW resources, NEW identity
    PROVE  LinksOver(resources, identity) \subseteq Identities
<1> SUFFICES ASSUME NEW e \in LinksOver(resources, identity) PROVE e \in Identities
  OBVIOUS
<1>1. PICK l \in LinkIds : e = links[l].ends
                           /\ \E i \in DOMAIN resources :
                                l \in ConfirmedLinks(resources[i], Relationships)
  BY DEF LinksOver
<1>2. links[l] # Unset
  BY <1>1 DEF ConfirmedLinks
<1>3. links[l] \in LinkAssertion
  BY <1>2 DEF LinksInv, LinkRow
<1> QED BY <1>1, <1>3 DEF LinkAssertion, Identities

(* A build resolves an identity, by one of the six rules.                   *)
LEMMA ResolvesTyped ==
    ASSUME LinksInv, \A k \in DOMAIN records : records[k].identity \in Identities,
           NEW resources \in Seq(ResourceNames), resources # <<>>,
           NEW answer, answer = resolve_identity(resources), NEW identity \in answer.found
    PROVE  answer.method \in Methods /\ identity \in Identities
<1> DEFINE f1 == FirstAnswer(_try_exact_id, resources)
           f2 == FirstAnswer(_try_dep_relationship, resources)
           f3 == FirstAnswer(_try_namespace, resources)
           f4 == _try_composite_key(resources)
           f5 == FirstAnswer(_try_confirmed_link_assertion, resources)
           f6 == {{resources[1]}}
           answers == << [method |-> "exact_id", found |-> f1],
                         [method |-> "dep_relationship", found |-> f2],
                         [method |-> "namespace", found |-> f3],
                         [method |-> "composite_key", found |-> f4],
                         [method |-> "link_assertion", found |-> f5],
                         [method |-> "inferred", found |-> f6] >>
           First(i) == answers[i].found # {} /\ \A j \in DOMAIN answers : answers[j].found # {} => i <= j
           first == CHOOSE i \in DOMAIN answers : First(i)
<1>1. answer = answers[first]
  BY Zenon DEF resolve_identity
<1>2. f6 # {}
  OBVIOUS
<1>3. f6 \subseteq Identities
  <2>1. resources[1] \in ResourceNames
    OBVIOUS
  <2> QED BY <2>1 DEF Identities
<1>4. ASSUME NEW e, Known(e) PROVE e \in Identities
  BY <1>4 DEF Known
<1>5. f1 \subseteq Identities
  BY <1>4, ExactAnswers
<1>6. f2 \subseteq Identities
  BY LinkAnswers, EndTyped
<1>7. f3 \subseteq Identities
  BY <1>4, NamespaceAnswers
<1>8. f4 \subseteq Identities
  BY <1>4 DEF _try_composite_key
<1>9. f5 \subseteq Identities
  BY AssertionAnswers, EndTyped
<1> HIDE DEF f1, f2, f3, f4, f5, f6
<1>10. DOMAIN answers = 1..6
  OBVIOUS
<1> DEFINE S == {i \in 1..6 : answers[i].found # {}}
<1>11. \E i \in S : \A j \in S : i <= j
  <2>1. answers[6].found # {}
    BY <1>2
  <2>2. S \subseteq Nat /\ S # {}
    BY <2>1
  <2> HIDE DEF S
  <2> QED BY <2>2, LeastNat
<1>12. \E i \in DOMAIN answers : First(i)
  <2>1. PICK i \in S : \A j \in S : i <= j
    BY <1>11
  <2>2. i \in DOMAIN answers /\ answers[i].found # {}
    BY <2>1, <1>10
  <2>3. \A j \in DOMAIN answers : answers[j].found # {} => i <= j
    BY <2>1, <1>10
  <2> QED BY <2>2, <2>3
<1>13. first \in DOMAIN answers
  <2> HIDE DEF First
  <2> QED BY <1>12, Zenon
<1>14. PICK n \in 1..6 : answer = answers[n]
  BY <1>1, <1>10, <1>13
<1>15. \A i \in 1..6 : answers[i].method \in Methods /\ answers[i].found \subseteq Identities
  <2> SUFFICES ASSUME NEW i \in 1..6
               PROVE  answers[i].method \in Methods /\ answers[i].found \subseteq Identities
    OBVIOUS
  <2>1. i = 1 \/ i = 2 \/ i = 3 \/ i = 4 \/ i = 5 \/ i = 6
    OBVIOUS
  <2>2. /\ answers[1].method = "exact_id" /\ answers[1].found = f1
        /\ answers[2].method = "dep_relationship" /\ answers[2].found = f2
        /\ answers[3].method = "namespace" /\ answers[3].found = f3
        /\ answers[4].method = "composite_key" /\ answers[4].found = f4
        /\ answers[5].method = "link_assertion" /\ answers[5].found = f5
        /\ answers[6].method = "inferred" /\ answers[6].found = f6
    OBVIOUS
  <2> HIDE DEF answers
  <2> QED BY <2>1, <2>2, <1>3, <1>5, <1>6, <1>7, <1>8, <1>9 DEF Methods
<1> HIDE DEF answers, first, First, S
<1> QED BY <1>14, <1>15

(* The second of the ties is a binding of the list.                         *)
LEMMA SecondOf ==
    ASSUME NEW f, IsList(f), NEW key, Cardinality(Ties(f, key)) > 1
    PROVE  Second(f, key) \in BindingPosts
<1> DEFINE T == Ties(f, key)
           R == T \ {Min(T)}
<1>1. T \subseteq DOMAIN f /\ IsFiniteSet(T)
  <2>1. T \subseteq DOMAIN f
    BY DEF Ties
  <2> QED BY <2>1, FS_Subset DEF IsList
<1>2. PICK m : m = Min(T)
  OBVIOUS
<1>3. R # {}
  <2> SUFFICES ASSUME R = {} PROVE FALSE
    OBVIOUS
  <2>1. T = {} \/ T = {m}
    BY <1>2
  <2>2. Cardinality({}) = 0 /\ Cardinality({m}) = 1
    BY FS_EmptySet, FS_Singleton
  <2>3. Cardinality(T) = 0 \/ Cardinality(T) = 1
    BY <2>1, <2>2
  <2> QED BY <2>3
<1>4. R \subseteq Nat /\ R \subseteq DOMAIN f
  BY <1>1 DEF IsList
<1>5. Min(R) \in R
  <2> HIDE DEF R
  <2> QED BY <1>3, <1>4, MinOf
<1>6. Second(f, key) = f[Min(R)]
  BY Zenon DEF Second
<1> HIDE DEF R
<1> QED BY <1>4, <1>5, <1>6 DEF IsList

(* What is put in the trace, and the conflicts of a resolution.             *)
LEMMA FinalTyped ==
    ASSUME ContextAssumption, NEW f, IsList(f) PROVE FinalIncluded(f) \subseteq BindingIds
<1> SUFFICES ASSUME NEW key \in Keys(f) PROVE Top(f, key).id \in BindingIds
  BY DEF FinalIncluded
<1>1. PICK n \in DOMAIN f : key = GroupKey(f[n])
  BY DEF Keys, Range
<1>2. PICK m \in Ties(f, key) : Top(f, key) = f[m] /\ m \in DOMAIN f
  BY <1>1, TopOf, Zenon
<1>3. Top(f, key) \in BindingPosts
  BY <1>2 DEF IsList
<1> QED BY <1>3 DEF BindingIds

LEMMA ConflictsTyped ==
    ASSUME ContextAssumption, NEW f, IsList(f), NEW n \in Nat, NEW der \in 1..n
    PROVE  Conflicts(f, der) \subseteq ConflictRow(n)
<1> SUFFICES ASSUME NEW key \in Keys(f), Disputed(f, key)
             PROVE  [der |-> der, key |-> key, a |-> Top(f, key).id, b |-> Second(f, key).id,
                     resolution |-> Unset] \in ConflictRow(n)
  BY DEF Conflicts
<1>1. PICK i \in DOMAIN f : key = GroupKey(f[i])
  BY DEF Keys, Range
<1>2. PICK m \in Ties(f, key) : Top(f, key) = f[m] /\ m \in DOMAIN f
  BY <1>1, TopOf, Zenon
<1>3. Top(f, key) \in BindingPosts
  BY <1>2 DEF IsList
<1>4. Second(f, key) \in BindingPosts
  BY SecondOf DEF Disputed
<1>5. Top(f, key).id \in BindingIds /\ Second(f, key).id \in BindingIds
  BY <1>3, <1>4 DEF BindingIds
<1>6. key \in GroupKeys
  BY <1>1 DEF IsList, GroupKeys
<1> QED BY <1>5, <1>6 DEF ConflictRow

(* The candidates are at positions of the bindings.                         *)
LEMMA CandidatesTyped ==
    ASSUME bindings \in Seq(BindingPosts), NEW identity, NEW f \in Candidates(identity)
    PROVE  DOMAIN f \subseteq 1..Len(bindings)
<1> DEFINE exact == {cb \in Range(bindings) : cb.scope = identity /\ cb.selector = Unset}
           D == {i \in DOMAIN bindings : bindings[i].scope \in {identity, Unset}}
<1>1. DOMAIN bindings = 1..Len(bindings) /\ Len(bindings) \in Nat
  OBVIOUS
<1>2. IsFiniteSet(DOMAIN bindings) /\ Cardinality(DOMAIN bindings) = Len(bindings)
  BY <1>1, FS_Interval
<1>3. CASE exact # {}
  <2>1. f \in SetToSeqs(exact)
    BY <1>3, Zenon DEF Candidates
  <2>2. IsFiniteSet(Range(bindings)) /\ Cardinality(Range(bindings)) <= Len(bindings)
    <3>1. bindings \in [DOMAIN bindings -> Range(bindings)]
      BY <1>1 DEF Range
    <3>2. bindings \in Surjection(DOMAIN bindings, Range(bindings))
      BY <3>1 DEF Surjection, Range
    <3> QED BY <3>2, <1>2, FS_Surjection
  <2>3. IsFiniteSet(exact) /\ Cardinality(exact) <= Cardinality(Range(bindings))
    BY <2>2, FS_Subset
  <2>4. PICK n : n = Cardinality(exact)
    OBVIOUS
  <2>5. n \in Nat /\ n <= Len(bindings)
    <3>1. Cardinality(exact) \in Nat /\ Cardinality(Range(bindings)) \in Nat
      BY <2>2, <2>3, FS_CardinalityType
    <3> QED BY <3>1, <2>2, <2>3, <2>4, <1>1
  <2> HIDE DEF exact
  <2>6. f \in [1..n -> exact]
    BY <2>1, <2>4, Zenon DEF SetToSeqs
  <2>7. DOMAIN f = 1..n
    BY <2>6
  <2> QED BY <2>5, <2>7, <1>1
<1>4. CASE exact = {}
  <2>1. f = Restrict(bindings, D)
    <3>1. f \in {Restrict(bindings, D)}
      BY <1>4, Zenon DEF Candidates
    <3> QED BY <3>1
  <2>2. DOMAIN f = D
    BY <2>1 DEF Restrict
  <2> QED BY <2>2, <1>1
<1> QED BY <1>3, <1>4

(* What a resolution writes: the ids of bindings, and the bindings that     *)
(* were found to apply at the positions of the candidates.                  *)
LEMMA JudgeTyped ==
    ASSUME ContextAssumption, bindings \in Seq(BindingPosts),
           NEW f, IsList(f), DOMAIN f \subseteq Positions, NEW t \in Times,
           NEW n \in Nat, NEW der \in 1..n, NEW g, g = Included(f, t),
           NEW trace, trace = [der |-> der,
                         included |-> FinalIncluded(g),
                         excluded |-> Judged(f, t, {"excluded", "redacted", "missing"}),
                         superseded |-> Judged(f, t, {"superseded"}),
                         missing |-> Judged(f, t, {"missing"}),
                         redacted |-> Judged(f, t, {"redacted"}),
                         conflicted |-> {},
                         considered |-> g, decidedAt |-> t],
           NEW b, b = [pc |-> "write", at |-> der, pending |-> Conflicts(g, der), trace |-> trace],
           NEW ts
    PROVE  SlotTyped(b, n, ts)
<1>1. IsList(g)
  BY IncludedIsList
<1>2. FinalIncluded(g) \in SUBSET BindingIds
  BY <1>1, FinalTyped
<1>3. ASSUME NEW verdicts PROVE Judged(f, t, verdicts) \in SUBSET BindingIds
  <2>1. \A cb \in Range(f) : cb \in BindingPosts
    BY DEF IsList, Range
  <2> QED BY <2>1 DEF Judged, BindingIds
<1>4. DOMAIN g \subseteq DOMAIN f /\ g \in [DOMAIN g -> BindingPosts]
  <2> DEFINE S == {i \in DOMAIN f : Verdict(f[i], t) = "superseded"}
             I == {i \in DOMAIN f : Verdict(f[i], t) = "included"}
  <2>1. g = [i \in S \cup I |-> IF i \in S THEN Superseder(f[i]) ELSE f[i]]
    BY Zenon DEF Included
  <2>2. DOMAIN g = S \cup I
    BY <2>1
  <2>3. g = [i \in DOMAIN g |-> g[i]]
    BY <2>1
  <2>4. \A i \in DOMAIN g : g[i] \in BindingPosts
    BY <1>1 DEF IsList
  <2> HIDE DEF S, I
  <2>5. g \in [DOMAIN g -> BindingPosts]
    BY <2>3, <2>4
  <2> QED BY <2>2, <2>5 DEF S, I
<1>5. g \in UNION {[at -> BindingPosts] : at \in SUBSET Positions}
  <2>1. PICK at \in SUBSET Positions : at = DOMAIN g
    BY <1>4
  <2> QED BY <2>1, <1>4
<1>6. PICK considered : considered = UNION {[at -> BindingPosts] : at \in SUBSET Positions}
  OBVIOUS
<1>7. trace \in TraceRow(n)
  BY <1>2, <1>3, <1>5, <1>6 DEF TraceRow
<1>8. Conflicts(g, der) \subseteq ConflictRow(n)
  BY <1>1, ConflictsTyped
<1> QED BY <1>7, <1>8 DEF SlotTyped

(* The counters and the bindings keep their types.                          *)
LEMMA BindingsNext ==
    ASSUME ContextAssumption, BindingsTyped, [ContextNext]_contextVars
    PROVE  BindingsTyped'
<1>1. ASSUME UNCHANGED <<bindings, posted, stored, crashes>> PROVE BindingsTyped'
  BY <1>1 DEF BindingsTyped
<1>2. ASSUME NEW cb \in BindingPosts, CreateContextBinding(cb) PROVE BindingsTyped'
  <2>1. bindings \in Seq(BindingPosts) /\ Len(bindings) <= posted /\ posted \in 0..MaxBindings
        /\ MaxBindings \in Nat
    BY DEF BindingsTyped, ContextAssumption
  <2>2. posted < MaxBindings /\ posted' = posted + 1 /\ UNCHANGED <<stored, crashes>>
    BY <1>2 DEF CreateContextBinding
  <2>3. bindings' \in Seq(BindingPosts) /\ Len(bindings') <= Len(bindings) + 1
    <3>1. CASE get_context_binding(cb.id) = Unset
      <4>1. bindings' = Append(bindings, cb)
        BY <1>2, <3>1, Zenon DEF CreateContextBinding
      <4> QED BY <4>1, <2>1
    <3>2. CASE get_context_binding(cb.id) # Unset
      <4>1. bindings' = [i \in DOMAIN bindings |->
                           IF bindings[i].id = cb.id THEN cb ELSE bindings[i]]
        BY <1>2, <3>2, Zenon DEF CreateContextBinding
      <4> QED BY <4>1, <2>1
    <3> QED BY <3>1, <3>2
  <2>4. Len(bindings') \in Nat /\ Len(bindings) \in Nat
    BY <2>1, <2>3
  <2>5. Len(bindings') <= posted' /\ posted' \in 0..MaxBindings
    BY <2>1, <2>2, <2>3, <2>4
  <2> QED BY <2>2, <2>3, <2>5 DEF BindingsTyped
<1>3. ASSUME NEW artifact \in DepArtifacts, StorePayload(artifact) PROVE BindingsTyped'
  <2>1. stored' = stored \cup {artifact} /\ UNCHANGED <<bindings, posted, crashes>>
    BY <1>3 DEF StorePayload
  <2> QED BY <2>1 DEF BindingsTyped
<1>4. ASSUME NEW w \in Builders, Crash(w) PROVE BindingsTyped'
  <2>1. crashes < MaxCrashes /\ crashes' = crashes + 1 /\ UNCHANGED <<bindings, posted, stored>>
    BY <1>4 DEF Crash
  <2>2. MaxCrashes \in Nat /\ crashes \in 0..MaxCrashes
    BY DEF ContextAssumption, BindingsTyped
  <2>3. crashes' \in 0..MaxCrashes
    BY <2>1, <2>2
  <2> QED BY <2>1, <2>3 DEF BindingsTyped
<1>5. ASSUME NEW p \in LinkPosts, CreateLinkAssertion(p) PROVE BindingsTyped'
  BY <1>1, <1>5 DEF CreateLinkAssertion
<1>6. ASSUME NEW c \in contextConflicts, NEW resolution, ResolveConflict(c, resolution)
      PROVE  BindingsTyped'
  BY <1>1, <1>6 DEF ResolveConflict
<1>7. ASSUME NEW w \in Builders, NEW l \in LinkIds, NEW status, ReadLink(w, l, status)
      PROVE  BindingsTyped'
  BY <1>1, <1>7 DEF ReadLink
<1>8. ASSUME NEW w \in Builders, SaveLink(w) PROVE BindingsTyped'
  BY <1>1, <1>8 DEF SaveLink
<1>9. ASSUME NEW w \in Builders, NEW p \in BuildPosts, Identify(w, p) PROVE BindingsTyped'
  BY <1>1, <1>9 DEF Identify
<1>10. ASSUME NEW w \in Builders, CreateRecord(w) PROVE BindingsTyped'
  BY <1>1, <1>10 DEF CreateRecord
<1>11. ASSUME NEW w \in Builders, Select(w) PROVE BindingsTyped'
  BY <1>1, <1>11 DEF Select
<1>12. ASSUME NEW w \in Builders, Judge(w) PROVE BindingsTyped'
  BY <1>1, <1>12 DEF Judge
<1>13. ASSUME NEW w \in Builders, CreateContextConflict(w) PROVE BindingsTyped'
  BY <1>1, <1>13 DEF CreateContextConflict
<1>14. ASSUME NEW w \in Builders, CreateTrace(w) PROVE BindingsTyped'
  BY <1>1, <1>14 DEF CreateTrace
<1>15. ASSUME NEW w \in Builders, _update_der_bindings(w) PROVE BindingsTyped'
  BY <1>1, <1>15 DEF _update_der_bindings
<1>16. ASSUME UNCHANGED contextVars PROVE BindingsTyped'
  BY <1>1, <1>16 DEF contextVars
<1> QED BY <1>2, <1>3, <1>4, <1>5, <1>6, <1>7, <1>8, <1>9, <1>10, <1>11, <1>12, <1>13, <1>14,
           <1>15, <1>16, Zenon DEF ContextNext

(* The rows keep their types, and a record its own trace.                   *)
LEMMA RowsNext ==
    ASSUME ContextAssumption, ContextInv, [ContextNext]_contextVars
    PROVE  RowsTyped(records', traces', contextConflicts', building')
<1> DEFINE Typed(slots) == RowsTyped(records, traces, contextConflicts, slots)
           Next == RowsTyped(records', traces', contextConflicts', building')
           Tables == UNCHANGED <<records, traces, contextConflicts>>
<1>1. RowsTyped(records, traces, contextConflicts, building)
  BY DEF ContextInv
<1>2. PICK n \in Nat : n = Len(records)
  BY <1>1 DEF RowsTyped
<1>3. /\ DOMAIN building = Builders
      /\ \A w \in Builders : SlotTyped(building[w], n, traces)
      /\ contextConflicts \subseteq ConflictRow(n)
  BY <1>1, <1>2, Zenon DEF RowsTyped
<1>4. ASSUME NEW w \in Builders, NEW b, SlotTyped(b, n, traces),
             building' = [building EXCEPT ![w] = b], Tables
      PROVE  Next
  <2>1. RowsTyped(records, traces, contextConflicts, [building EXCEPT ![w] = b])
    BY <1>1, <1>2, <1>3, <1>4, SlotMoves
  <2> QED BY <2>1, <1>4
<1>5. ASSUME NEW w \in Builders, building' = [building EXCEPT ![w] = Free], Tables PROVE Next
  <2>1. SlotTyped(Free, n, traces)
    BY OtherTyped DEF Free
  <2> QED BY <2>1, <1>4, <1>5
<1>6. ASSUME UNCHANGED <<records, traces, contextConflicts, building>> PROVE Next
  BY <1>1, <1>6
<1> HIDE DEF Next, Tables
<1>7. ASSUME NEW p \in LinkPosts, CreateLinkAssertion(p) PROVE Next
  BY <1>6, <1>7 DEF CreateLinkAssertion
<1>8. ASSUME NEW cb \in BindingPosts, CreateContextBinding(cb) PROVE Next
  BY <1>6, <1>8 DEF CreateContextBinding
<1>9. ASSUME NEW artifact \in DepArtifacts, StorePayload(artifact) PROVE Next
  BY <1>6, <1>9 DEF StorePayload
<1>10. ASSUME NEW c \in contextConflicts, NEW resolution \in {"resolved_use_a", "resolved_use_b"},
              ResolveConflict(c, resolution)
       PROVE  Next
  <2>1. PICK row : row = [c EXCEPT !.resolution = resolution]
    OBVIOUS
  <2>2. contextConflicts' = (contextConflicts \ {c}) \cup {row}
        /\ UNCHANGED <<records, traces, building>>
    BY <1>10, <2>1 DEF ResolveConflict
  <2>3. row \in ConflictRow(n)
    <3>1. c \in ConflictRow(n)
      BY <1>3
    <3> QED BY <3>1, <2>1 DEF ConflictRow
  <2>4. PICK rows : rows = (contextConflicts \ {c}) \cup {row}
    OBVIOUS
  <2>5. rows \subseteq ConflictRow(n)
    BY <1>3, <2>3, <2>4
  <2>6. RowsTyped(records, traces, rows, building)
    BY <1>1, <1>2, <2>5, Zenon DEF RowsTyped
  <2> QED BY <2>2, <2>4, <2>6 DEF Next
<1>11. ASSUME NEW w \in Builders, NEW l \in LinkIds, NEW status, ReadLink(w, l, status) PROVE Next
  <2>1. PICK b : b = [pc |-> "link", link |-> l, row |-> [links[l] EXCEPT !.status = status]]
    OBVIOUS
  <2>2. SlotTyped(b, n, traces)
    BY <2>1, OtherTyped
  <2> QED BY <2>1, <2>2, <1>4, <1>11 DEF ReadLink, Tables
<1>12. ASSUME NEW w \in Builders, SaveLink(w) PROVE Next
  BY <1>5, <1>12 DEF SaveLink, Tables
<1>13. ASSUME NEW w \in Builders, NEW p \in BuildPosts, Identify(w, p) PROVE Next
  <2>1. PICK answer : answer = resolve_identity(p.resources)
    OBVIOUS
  <2>2. PICK linked : linked = (answer.method \in {"dep_relationship", "link_assertion"})
    OBVIOUS
  <2>3. PICK identity \in answer.found :
          building' = [building EXCEPT ![w] =
            [pc |-> "create", decidedAt |-> p.decidedAt,
             der |-> [resources |-> p.resources, identity |-> identity,
                      method |-> answer.method, trace |-> 0, bindings |-> {},
                      known |-> Len(records),
                      over |-> IF linked THEN LinksOver(p.resources, identity) ELSE {}]]]
    BY <1>13, <2>1, <2>2, Zenon DEF Identify
  <2>over. PICK over : over = IF linked THEN LinksOver(p.resources, identity) ELSE {}
    OBVIOUS
  <2>4. PICK d : d = [resources |-> p.resources, identity |-> identity,
                      method |-> answer.method, trace |-> 0, bindings |-> {},
                      known |-> Len(records), over |-> over]
    OBVIOUS
  <2>5. PICK b : b = [pc |-> "create", decidedAt |-> p.decidedAt, der |-> d]
    OBVIOUS
  <2>6. \A k \in DOMAIN records : records[k].identity \in Identities
    <3>1. records \in Seq(EvidenceRow(Len(traces)))
      BY <1>1 DEF RowsTyped
    <3>2. \A k \in DOMAIN records : records[k] \in EvidenceRow(Len(traces))
      BY <3>1
    <3> QED BY <3>2 DEF EvidenceRow
  <2>7. LinksInv
    BY DEF ContextInv, IdentityInv
  <2>8. p.resources \in Seq(ResourceNames) /\ p.resources # <<>>
    BY DEF ContextAssumption
  <2>9. answer.method \in Methods /\ identity \in Identities
    BY <2>1, <2>6, <2>7, <2>8, ResolvesTyped
  <2>10. d \in EvidenceRow(0)
    <3>1. over \subseteq Identities
      BY <2>over, <2>7, OverTyped
    <3>2. Len(records) \in Nat
      BY DEF ContextInv, IdentityInv
    <3> QED BY <3>1, <3>2, <2>4, <2>8, <2>9 DEF EvidenceRow
  <2>11. SlotTyped(b, n, traces)
    BY <2>5, <2>10 DEF SlotTyped, Times
  <2>12. building' = [building EXCEPT ![w] = b]
    BY <2>3, <2>over, <2>4, <2>5, Zenon
  <2> QED BY <2>11, <2>12, <1>4, <1>13 DEF Identify, Tables
<1>14. ASSUME NEW w \in Builders, CreateRecord(w) PROVE Next
  <2>1. PICK d, at : d = building[w].der /\ at = building[w].decidedAt
    OBVIOUS
  <2>2. d \in EvidenceRow(0) /\ at \in Times
    BY <2>1, <1>3, <1>14 DEF CreateRecord, SlotTyped
  <2>3. PICK b : b = [pc |-> "select", at |-> Len(records) + 1, decidedAt |-> at]
    OBVIOUS
  <2>4. RowsTyped(Append(records, d), traces, contextConflicts, [building EXCEPT ![w] = b])
    BY <1>1, <2>2, <2>3, RecordTyped
  <2>5. records' = Append(records, d) /\ building' = [building EXCEPT ![w] = b]
        /\ UNCHANGED <<traces, contextConflicts>>
    BY <1>14, <2>1, <2>3 DEF CreateRecord
  <2> QED BY <2>4, <2>5 DEF Next
<1>15. ASSUME NEW w \in Builders, Select(w) PROVE Next
  <2>1. PICK f \in Candidates(records[building[w].at].identity) :
          building' = [building EXCEPT ![w] =
            [pc |-> "judge", at |-> building[w].at, decidedAt |-> building[w].decidedAt,
             candidates |-> f]]
    BY <1>15, Zenon DEF Select
  <2>2. PICK b : b = [pc |-> "judge", at |-> building[w].at,
                      decidedAt |-> building[w].decidedAt, candidates |-> f]
    OBVIOUS
  <2>3. bindings \in Seq(BindingPosts) /\ Len(bindings) <= posted /\ posted \in 0..MaxBindings
        /\ MaxBindings \in Nat
    BY DEF ContextInv, BindingsTyped, ContextAssumption
  <2>4. DOMAIN f \subseteq 1..Len(bindings)
    BY <2>1, <2>3, CandidatesTyped, Zenon
  <2>5. DOMAIN f \subseteq Positions
    <3>1. Len(bindings) \in Nat
      BY <2>3
    <3> QED BY <3>1, <2>3, <2>4 DEF Positions
  <2>6. building[w].at \in 1..n /\ building[w].decidedAt \in Times
    BY <1>3, <1>15 DEF Select, SlotTyped
  <2>7. SlotTyped(b, n, traces)
    BY <2>2, <2>5, <2>6 DEF SlotTyped
  <2> QED BY <2>1, <2>2, <2>7, <1>4, <1>15 DEF Select, Tables
<1>16. ASSUME NEW w \in Builders, Judge(w) PROVE Next
  <2>1. PICK f, t, der : f = building[w].candidates /\ t = building[w].decidedAt
                         /\ der = building[w].at
    OBVIOUS
  <2>2. PICK g : g = Included(f, t)
    OBVIOUS
  <2>3. PICK trace :
          trace = [der |-> der,
                   included |-> FinalIncluded(g),
                   excluded |-> Judged(f, t, {"excluded", "redacted", "missing"}),
                   superseded |-> Judged(f, t, {"superseded"}),
                   missing |-> Judged(f, t, {"missing"}),
                   redacted |-> Judged(f, t, {"redacted"}),
                   conflicted |-> {},
                   considered |-> g, decidedAt |-> t]
    OBVIOUS
  <2>4. PICK b : b = [pc |-> "write", at |-> der, pending |-> Conflicts(g, der), trace |-> trace]
    OBVIOUS
  <2>5. \/ building' = [building EXCEPT ![w] = Free]
        \/ building' = [building EXCEPT ![w] = b]
    BY <1>16, <2>1, <2>2, <2>3, <2>4, Zenon DEF Judge
  <2>6. Tables /\ building[w].pc = "judge"
    BY <1>16 DEF Judge, Tables
  <2>7. der \in 1..n /\ t \in Times /\ DOMAIN f \subseteq Positions
    BY <1>3, <2>1, <2>6 DEF SlotTyped
  <2>8. bindings \in Seq(BindingPosts) /\ Considers(building[w], contextConflicts)
    BY Zenon DEF ContextInv, ConsideredInv
  <2>9. IsList(f)
    BY <2>1, <2>6, <2>8, Zenon DEF Considers
  <2>10. SlotTyped(b, n, traces)
    BY <2>2, <2>3, <2>4, <2>7, <2>8, <2>9, JudgeTyped
  <2> QED BY <2>5, <2>6, <2>10, <1>4, <1>5
<1>17. ASSUME NEW w \in Builders, CreateContextConflict(w) PROVE Next
  <2>1. PICK c \in building[w].pending :
          /\ contextConflicts' = contextConflicts \cup {c}
          /\ building' = [building EXCEPT ![w].pending = @ \ {c}]
          /\ UNCHANGED <<records, traces>>
    BY <1>17, Zenon DEF CreateContextConflict
  <2>2. building[w].pc = "write"
    BY <1>17 DEF CreateContextConflict
  <2>3. PICK a : a = building[w]
    OBVIOUS
  <2>4. DOMAIN a = {"pc", "at", "pending", "trace"}
    <3>1. Considers(building[w], contextConflicts)
      BY Zenon DEF ContextInv, ConsideredInv
    <3> QED BY <3>1, <2>2, <2>3, Zenon DEF Considers
  <2>5. a.at \in 1..n /\ a.pending \subseteq ConflictRow(n) /\ a.trace \in TraceRow(n)
        /\ a.trace.der = a.at
    BY <1>3, <2>2, <2>3 DEF SlotTyped
  <2>6. PICK b : b = [a EXCEPT !.pending = @ \ {c}]
    OBVIOUS
  <2>7. building' = [building EXCEPT ![w] = b]
    BY <1>3, <2>1, <2>3, <2>6
  <2>8. b.pc = "write" /\ b.pending = a.pending \ {c} /\ b.trace = a.trace /\ b.at = a.at
    BY <2>2, <2>3, <2>4, <2>6
  <2>9. SlotTyped(b, n, traces)
    BY <2>5, <2>8 DEF SlotTyped
  <2>10. contextConflicts \cup {c} \subseteq ConflictRow(n)
    BY <1>3, <2>1, <2>3, <2>5
  <2>11. RowsTyped(records, traces, contextConflicts \cup {c}, [building EXCEPT ![w] = b])
    BY <1>1, <1>2, <2>9, <2>10, SlotMoves
  <2> QED BY <2>1, <2>7, <2>11 DEF Next
<1>18. ASSUME NEW w \in Builders, CreateTrace(w) PROVE Next
  <2>1. PICK tr, at : tr = building[w].trace /\ at = building[w].at
    OBVIOUS
  <2>2. at \in 1..n /\ tr \in TraceRow(n) /\ tr.der = at
    BY <1>3, <1>18, <2>1 DEF CreateTrace, SlotTyped
  <2>3. PICK b : b = [pc |-> "record", at |-> at, trace |-> Len(traces) + 1]
    OBVIOUS
  <2>4. RowsTyped(records, Append(traces, tr), contextConflicts, [building EXCEPT ![w] = b])
    BY <1>1, <1>2, <2>2, <2>3, TraceTyped
  <2>5. traces' = Append(traces, tr) /\ building' = [building EXCEPT ![w] = b]
        /\ UNCHANGED <<records, contextConflicts>>
    BY <1>18, <2>1, <2>3 DEF CreateTrace
  <2> QED BY <2>4, <2>5 DEF Next
<1>19. ASSUME NEW w \in Builders, _update_der_bindings(w) PROVE Next
  <2>1. PICK at, t : at = building[w].at /\ t = building[w].trace
    OBVIOUS
  <2>2. at \in 1..n /\ t \in 1..Len(traces) /\ traces[t].der = at
    BY <1>3, <1>19, <2>1 DEF _update_der_bindings, SlotTyped
  <2>3. PICK d : d = [records[at] EXCEPT !.trace = t, !.bindings = traces[t].included]
    OBVIOUS
  <2>4. PICK rows : rows = [records EXCEPT ![at] = d]
    OBVIOUS
  <2>5. records' = rows
    <3>1. records' = [records EXCEPT ![at].trace = t, ![at].bindings = traces[t].included]
      BY <1>19, <2>1 DEF _update_der_bindings
    <3>2. at \in DOMAIN records
      BY <1>1, <1>2, <2>2 DEF RowsTyped
    <3> QED BY <3>1, <3>2, <2>3, <2>4
  <2>6. building' = [building EXCEPT ![w] = Free] /\ UNCHANGED <<traces, contextConflicts>>
    BY <1>19 DEF _update_der_bindings
  <2>7. RowsTyped(rows, traces, contextConflicts, [building EXCEPT ![w] = Free])
    BY <1>1, <1>2, <2>2, <2>3, <2>4, RecordUpdated
  <2> QED BY <2>5, <2>6, <2>7 DEF Next
<1>20. ASSUME NEW w \in Builders, Crash(w) PROVE Next
  BY <1>5, <1>20 DEF Crash, Tables
<1>21. ASSUME UNCHANGED contextVars PROVE Next
  BY <1>6, <1>21 DEF contextVars
<1>22. Next
  BY <1>7, <1>8, <1>9, <1>10, <1>11, <1>12, <1>13, <1>14, <1>15, <1>16, <1>17, <1>18, <1>19,
     <1>20, <1>21, Zenon DEF ContextNext
<1> QED BY <1>22 DEF Next

(* The invariant gives the types.                                           *)
LEMMA ContextGives ==
    ASSUME ContextInv PROVE ContextTypeOK
<1>1. /\ bindings \in Seq(BindingPosts) /\ posted \in 0..MaxBindings /\ stored \subseteq DepArtifacts
      /\ crashes \in 0..MaxCrashes
  BY DEF ContextInv, BindingsTyped
<1>2. Range(bindings) \subseteq BindingPosts
  BY <1>1 DEF Range
<1>3. links \in [LinkIds -> LinkAssertion \cup {Unset}]
  BY DEF ContextInv, IdentityInv, LinksInv, LinkRow
<1>4. /\ records \in Seq(EvidenceRow(Len(traces))) /\ traces \in Seq(TraceRow(Len(records)))
      /\ contextConflicts \subseteq ConflictRow(Len(records))
      /\ \A k \in 1..Len(records) : Traced(records[k], k, traces)
  BY Zenon DEF ContextInv, RowsTyped
<1>5. DOMAIN records = 1..Len(records)
  BY <1>4
<1>6. TraceRow(Len(records)) = ResolutionTrace /\ ConflictRow(Len(records)) = ContextConflict
      /\ EvidenceRow(Len(traces)) = DecisionEvidenceRecord
  BY <1>5, Zenon DEF TraceRow, ResolutionTrace, ConflictRow, ContextConflict, EvidenceRow,
                     DecisionEvidenceRecord, Times, Positions, GroupKeys
<1>7. Range(traces) \subseteq ResolutionTrace
  <2>1. traces \in Seq(ResolutionTrace)
    BY <1>4, <1>6
  <2> QED BY <2>1 DEF Range
<1>8. ASSUME NEW k \in DOMAIN records
      PROVE  /\ records[k] \in DecisionEvidenceRecord
             /\ records[k].trace # 0 =>
                  /\ traces[records[k].trace].der = k
                  /\ traces[records[k].trace].included = records[k].bindings
  <2>1. records \in Seq(DecisionEvidenceRecord)
    BY <1>4, <1>6
  <2>2. records[k] \in DecisionEvidenceRecord
    BY <2>1
  <2>3. Traced(records[k], k, traces)
    BY <1>4, <1>5
  <2> QED BY <2>2, <2>3 DEF Traced
<1> QED BY <1>1, <1>2, <1>3, <1>4, <1>6, <1>7, <1>8 DEF ContextTypeOK

(* Every record, trace and conflict row has its type, whoever builds at the *)
(* same time and wherever a request dies; and a record that names a trace   *)
(* names its own, with the bindings that this trace includes: writing the   *)
(* trace and then the record once more (context.py:129-148) never gives a   *)
(* record the trace of another build.                                       *)
THEOREM ContextTypes == ContextSpec => []ContextTypeOK
<1>1. ContextInit => ContextInv
  <2> SUFFICES ASSUME ContextInit PROVE ContextInv
    OBVIOUS
  <2>1. /\ links = [l \in LinkIds |-> Unset] /\ bindings = <<>> /\ posted = 0 /\ stored = {}
        /\ records = <<>> /\ traces = <<>> /\ contextConflicts = {}
        /\ building = [w \in Builders |-> Free] /\ crashes = 0
    BY DEF ContextInit
  <2>2. BindingsTyped
    BY <2>1, ContextAssumption DEF BindingsTyped, ContextAssumption
  <2>3. \A w \in Builders : SlotTyped(building[w], 0, <<>>)
    BY <2>1, OtherTyped DEF Free
  <2>4. DOMAIN building = Builders
    BY <2>1
  <2>5. <<>> \in Seq(EvidenceRow(0)) /\ <<>> \in Seq(TraceRow(0)) /\ Len(<<>>) = 0
    OBVIOUS
  <2>6. RowsTyped(records, traces, contextConflicts, building)
    BY <2>1, <2>3, <2>4, <2>5 DEF RowsTyped
  <2>7. ConsideredInv
    BY ConsideredStart
  <2>8. IdentityInv
    BY IdentityStart
  <2> QED BY <2>2, <2>6, <2>7, <2>8 DEF ContextInv
<1>2. ContextInv /\ [ContextNext]_contextVars => ContextInv'
  <2> SUFFICES ASSUME ContextInv, [ContextNext]_contextVars PROVE ContextInv'
    OBVIOUS
  <2>1. BindingsTyped'
    BY ContextAssumption, BindingsNext DEF ContextInv
  <2>2. ConsideredInv'
    BY ContextAssumption, ConsideredNext DEF ContextInv
  <2>3. IdentityInv'
    BY ContextAssumption, IdentityNext DEF ContextInv
  <2>4. RowsTyped(records', traces', contextConflicts', building')
    BY ContextAssumption, RowsNext
  <2> QED BY <2>1, <2>2, <2>3, <2>4 DEF ContextInv
<1>3. ContextInv => ContextTypeOK
  BY ContextGives
<1> QED BY <1>1, <1>2, <1>3, PTL DEF ContextSpec

-----------------------------------------------------------------------------
(* Sweep: the invariant.                                                    *)

Statuses == {"queued", "profiling", "resolving", "evaluating", "assembling", "completed",
             "completed_with_errors", "failed", "cancelled"}
RunRow == [definition : DefinitionIds, status : Statuses, evaluators : DefinitionPosts,
           answered : BOOLEAN]
JobRow(k, Ders) == [run : {k}, type : {"profile", "resolve", "evaluate", "assemble"},
                    evaluator : STRING \cup {Absent}, ders : Ders]

(* What a slot holds; only runs whose creation was answered are worked on   *)
(* or cancelled, and they have left "queued".                               *)
TaskOK(t) ==
    /\ t.pc \in {"free", "list", "run", "jobs", "cancel", "worker", "record", "assemble"}
    /\ t.pc \in {"list", "run"} => t.definition \in DefinitionIds /\ t.evaluators \in DefinitionPosts
    /\ t.pc = "run" => t.ders \subseteq DOMAIN evidence
    /\ t.pc = "jobs" =>
         /\ DOMAIN t = {"pc", "run", "todo"}
         /\ t.run \in DOMAIN runs /\ t.todo \in Seq(JobRow(t.run, SUBSET Nat))
         /\ runs[t.run].status = "queued" /\ ~ runs[t.run].answered
    /\ t.pc \in {"cancel", "worker"} => t.run \in DOMAIN runs /\ runs[t.run].answered
    /\ t.pc = "worker" => DOMAIN t = {"pc", "run", "status"} /\ t.status \in Statuses \ {"queued"}

(* The jobs: each run's own, none before the run.                           *)
Rows ==
    /\ DOMAIN jobs = 1..MaxRuns /\ Len(runs) <= MaxRuns
    /\ \A k \in DOMAIN jobs : jobs[k] \in Seq(JobRow(k, SUBSET Nat))
    /\ \A k \in DOMAIN jobs \ DOMAIN runs : jobs[k] = <<>>

SweepTypeInv ==
    /\ \A d \in DefinitionIds : definitions[d] \in DefinitionPosts \cup {Absent}
    /\ DOMAIN definitions = DefinitionIds
    /\ evidence \in Seq(EvidenceRecord)
    /\ runs \in Seq(RunRow)
    /\ \A k \in DOMAIN runs : runs[k].answered => runs[k].status # "queued"
    /\ Rows
    /\ DOMAIN task = SweepSlots
    /\ \A w \in SweepSlots : TaskOK(task[w])
    /\ \A v, w \in SweepSlots :
         task[v].pc = "jobs" /\ task[w].pc = "jobs" /\ task[v].run = task[w].run => v = w

(* The jobs there are begin the run's plan, and those that the request has  *)
(* still to write are the rest of it.                                       *)
Begins(s, p) == \E n \in 0..Len(p) : s = SubSeq(p, 1, n)
PlannedBy(k, D) == Plan(k, runs[k].evaluators, D)
PlanningInv ==
    \A k \in DOMAIN runs :
        \E D \in SUBSET DOMAIN evidence :
          /\ Begins(jobs[k], PlannedBy(k, D))
          /\ runs[k].status # "queued" => jobs[k] = PlannedBy(k, D)
          /\ \A w \in SweepSlots : task[w].pc = "jobs" /\ task[w].run = k =>
               PlannedBy(k, D) = jobs[k] \o task[w].todo

(* A copy of a record, and the record as it is: the same, or resolved since.*)
Held(copy, e) == copy \in EvidenceRecord /\ (copy = e \/ (copy = Unresolved(e) /\ e.trace))

Backed(a) ==
    /\ a.der \in DOMAIN evidence /\ a.run \in DOMAIN jobs
    /\ \E j \in JobsOf(a.run) : j.evaluator = a.evaluator /\ a.der \in j.ders
    /\ a.result.finding = "expected_outcome_mismatch" => evidence[a.der].method # "inferred"

(* What a worker holds of a record while it evaluates and assembles.        *)
HoldsRecord(t) ==
    /\ t.pc = "record" => Backed(t.row) /\ Held(t.frozen, evidence[t.row.der])
    /\ t.pc = "assemble" =>
         t.assessment \in DOMAIN assessments /\ Held(t.frozen, evidence[assessments[t.assessment].der])

CandidateOK(c) ==
    /\ c.assessment \in DOMAIN assessments
    /\ assessments[c.assessment].der = c.der
    /\ assessments[c.assessment].result.finding = c.type
    /\ LevelRank(c.level) \in 0..5
    /\ LevelRank(c.level) <= LevelRank(calculate(evidence[c.der], FALSE, FALSE).level)
    /\ c.lifecycle = "reviewable" =>
         evidence[c.der].bindings /\ ~ evidence[c.der].conflicted /\ LevelRank(c.level) >= 3

EvaluationInv ==
    /\ Len(assessments) \in Nat
    /\ assessments = [i \in 1..Len(assessments) |-> assessments[i]]
    /\ \A i \in DOMAIN assessments : Backed(assessments[i])
    /\ \A w \in SweepSlots : HoldsRecord(task[w])
    /\ \A c \in assembled : CandidateOK(c)

-----------------------------------------------------------------------------
(* What level i asks for beyond the level below it. *)
Reaches(e, replayed, verified, i) ==
    /\ i = 1 => e.resources \/ e.identity
    /\ i = 2 => e.bindings /\ ~ e.conflicted
    /\ i = 3 => e.authoritative \/ e.corroborated
    /\ i = 4 => e.version >= 1 /\ (e.trace \/ replayed)
    /\ i = 5 => replayed /\ verified

(* What a level asks for, as a set of truth values.                         *)
LEMMA Asked ==
    ASSUME NEW e \in EvidenceRecord, NEW replayed \in BOOLEAN, NEW verified \in BOOLEAN, NEW i \in 1..5
    PROVE  FALSE \notin Predicates(e, replayed, verified)[Levels[i]] <=> Reaches(e, replayed, verified, i)
<1> /\ e.resources \in BOOLEAN /\ e.identity \in BOOLEAN /\ e.bindings \in BOOLEAN
    /\ e.conflicted \in BOOLEAN /\ e.authoritative \in BOOLEAN /\ e.corroborated \in BOOLEAN
    /\ e.trace \in BOOLEAN /\ e.version \in 0..1
  BY DEF EvidenceRecord
<1>1a. PICK b1 \in BOOLEAN : b1 = (e.resources \/ e.identity)
  OBVIOUS
<1>1b. PICK b3 \in BOOLEAN : b3 = (~ e.conflicted)
  OBVIOUS
<1>1c. PICK b4 \in BOOLEAN : b4 = (e.version >= 1)
  <2>1. CASE e.version = 1
    <3>1. TRUE = (e.version >= 1)
      BY <2>1
    <3> QED BY <3>1, Zenon
  <2>2. CASE e.version = 0
    <3>1. FALSE = (e.version >= 1)
      BY <2>2
    <3> QED BY <3>1, Zenon
  <2> QED BY <2>1, <2>2
<1>1d. PICK b5 \in BOOLEAN : b5 = (e.trace \/ replayed)
  OBVIOUS
<1>1e. PICK b6 \in BOOLEAN : b6 = (e.authoritative \/ e.corroborated)
  OBVIOUS
<1>2. PICK b2 \in BOOLEAN : b2 = e.bindings
  OBVIOUS
<1>3. Predicates(e, replayed, verified)
        = [E0 |-> {b1}, E1 |-> {b2, b3}, E2 |-> {b6}, E3 |-> {b4, b5}, E4 |-> {replayed, verified}]
  BY <1>1a, <1>1b, <1>1c, <1>1d, <1>1e, <1>2, Zenon DEF Predicates
<1>4. Reaches(e, replayed, verified, i) <=>
        /\ i = 1 => b1
        /\ i = 2 => b2 /\ b3
        /\ i = 3 => b6
        /\ i = 4 => b4 /\ b5
        /\ i = 5 => replayed /\ verified
  BY <1>1a, <1>1b, <1>1c, <1>1d, <1>1e, <1>2 DEF Reaches
<1>5. /\ Levels[1] = "E0" /\ Levels[2] = "E1" /\ Levels[3] = "E2" /\ Levels[4] = "E3"
      /\ Levels[5] = "E4"
  BY DEF Levels
<1>6. CASE i = 1
  <2>1. Predicates(e, replayed, verified)[Levels[i]] = {b1}
    BY <1>3, <1>5, <1>6
  <2>2. FALSE \notin {b1} <=> b1
    OBVIOUS
  <2>3. Reaches(e, replayed, verified, i) <=> b1
    BY <1>4, <1>6
  <2> QED BY <2>1, <2>2, <2>3, Zenon
<1>7. CASE i = 2
  <2>1. Predicates(e, replayed, verified)[Levels[i]] = {b2, b3}
    BY <1>3, <1>5, <1>7
  <2>2. FALSE \notin {b2, b3} <=> b2 /\ b3
    OBVIOUS
  <2>3. Reaches(e, replayed, verified, i) <=> b2 /\ b3
    BY <1>4, <1>7
  <2> QED BY <2>1, <2>2, <2>3, Zenon
<1>8. CASE i = 3
  <2>1. Predicates(e, replayed, verified)[Levels[i]] = {b6}
    BY <1>3, <1>5, <1>8
  <2>2. FALSE \notin {b6} <=> b6
    OBVIOUS
  <2>3. Reaches(e, replayed, verified, i) <=> b6
    BY <1>4, <1>8
  <2> QED BY <2>1, <2>2, <2>3, Zenon
<1>9. CASE i = 4
  <2>1. Predicates(e, replayed, verified)[Levels[i]] = {b4, b5}
    BY <1>3, <1>5, <1>9
  <2>2. FALSE \notin {b4, b5} <=> b4 /\ b5
    OBVIOUS
  <2>3. Reaches(e, replayed, verified, i) <=> b4 /\ b5
    BY <1>4, <1>9
  <2> QED BY <2>1, <2>2, <2>3, Zenon
<1>10. CASE i = 5
  <2>1. Predicates(e, replayed, verified)[Levels[i]] = {replayed, verified}
    BY <1>3, <1>5, <1>10
  <2>2. FALSE \notin {replayed, verified} <=> replayed /\ verified
    OBVIOUS
  <2>3. Reaches(e, replayed, verified, i) <=> replayed /\ verified
    BY <1>4, <1>10
  <2> QED BY <2>1, <2>2, <2>3, Zenon
<1>11. i = 1 \/ i = 2 \/ i = 3 \/ i = 4 \/ i = 5
  OBVIOUS
<1> QED BY <1>6, <1>7, <1>8, <1>9, <1>10, <1>11

(* The rank of each level.                                                  *)
LEMMA Ranks == /\ \A i \in 1..5 : LevelRank(Levels[i]) = i /\ Levels[i] # ""
               /\ LevelRank("") = 0
<1>1. /\ Levels[1] = "E0" /\ Levels[2] = "E1" /\ Levels[3] = "E2" /\ Levels[4] = "E3"
      /\ Levels[5] = "E4" /\ DOMAIN Levels = 1..5
  BY DEF Levels
<1>0. \A i \in 1..5 : i = 1 \/ i = 2 \/ i = 3 \/ i = 4 \/ i = 5
  OBVIOUS
<1>2. \A i, j \in 1..5 : Levels[i] = Levels[j] => i = j
  BY <1>0, <1>1
<1>3. \A i \in 1..5 : Levels[i] # ""
  BY <1>0, <1>1
<1>4. ASSUME NEW i \in 1..5 PROVE LevelRank(Levels[i]) = i
  <2>1. (CHOOSE j \in DOMAIN Levels : Levels[j] = Levels[i]) = i
    BY <1>1, <1>2
  <2> QED BY <2>1, <1>3 DEF LevelRank
<1> QED BY <1>3, <1>4 DEF LevelRank

(* The level of a record is the last one that all levels up to it are       *)
(* reached for.                                                             *)
LEMMA LevelIs ==
    ASSUME NEW e \in EvidenceRecord, NEW replayed \in BOOLEAN, NEW verified \in BOOLEAN
    PROVE  \E n \in 0..5 :
             /\ \A i \in 1..n : Reaches(e, replayed, verified, i)
             /\ n < 5 => ~ Reaches(e, replayed, verified, n + 1)
             /\ calculate(e, replayed, verified).level = IF n = 0 THEN "" ELSE Levels[n]
             /\ LevelRank(calculate(e, replayed, verified).level) = n
             /\ \A i \in 1..5 : ~ Reaches(e, replayed, verified, i) =>
                  Levels[i] \in calculate(e, replayed, verified).failed
<1> DEFINE R(i) == Reaches(e, replayed, verified, i)
           asked == Predicates(e, replayed, verified)
           Given(i) == FALSE \notin asked[Levels[i]]
           reached == {i \in 0..5 : \A j \in 1..i : Given(j)}
           Above(i) == \A j \in reached : j <= i
           top == CHOOSE i \in reached : Above(i)
<1>1. \A i \in 1..5 : Given(i) <=> R(i)
  BY Asked
<1> HIDE DEF R, asked, Given
<1>2. PICK n \in 0..5 : (\A i \in 1..n : R(i)) /\ (n < 5 => ~ R(n + 1))
  <2>1. CASE ~ R(1)
    BY <2>1
  <2>2. CASE R(1) /\ ~ R(2)
    BY <2>2
  <2>3. CASE R(1) /\ R(2) /\ ~ R(3)
    BY <2>3
  <2>4. CASE R(1) /\ R(2) /\ R(3) /\ ~ R(4)
    BY <2>4
  <2>5. CASE R(1) /\ R(2) /\ R(3) /\ R(4) /\ ~ R(5)
    BY <2>5
  <2>6. CASE R(1) /\ R(2) /\ R(3) /\ R(4) /\ R(5)
    BY <2>6
  <2> QED BY <2>1, <2>2, <2>3, <2>4, <2>5, <2>6
<1>3. n \in reached
  BY <1>1, <1>2
<1>4. ASSUME NEW j \in reached PROVE j <= n
  BY <1>1, <1>2
<1>5. \A i \in reached : i \in 0..5
  OBVIOUS
<1> HIDE DEF reached
<1>6. top \in reached /\ Above(top)
  <2>1. Above(n)
    BY <1>4 DEF Above
  <2> HIDE DEF Above
  <2> QED BY <2>1, <1>3, Zenon
<1> HIDE DEF top
<1>7. top = n
  BY <1>3, <1>4, <1>5, <1>6 DEF Above
<1> DEFINE level == IF top = 0 THEN "" ELSE Levels[top]
           lacking == {l \in {Levels[i] : i \in 1..5} : FALSE \in asked[l]}
<1>8. PICK c : c = calculate(e, replayed, verified)
  OBVIOUS
<1>9. c = [level |-> level, satisfied |-> {Levels[i] : i \in 1..top}, failed |-> lacking]
  BY <1>8, Zenon DEF calculate, reached, asked, Given, top, Above
<1> HIDE DEF level, lacking
<1>10. c.level = level /\ c.failed = lacking
  BY <1>9
<1>11. c.level = IF n = 0 THEN "" ELSE Levels[n]
  BY <1>7, <1>10 DEF level
<1>12. LevelRank(c.level) = n
  <2>1. CASE n = 0
    <3>1. c.level = ""
      BY <1>11, <2>1
    <3> QED BY <3>1, <2>1, Ranks
  <2>2. CASE n # 0
    <3>1. n \in 1..5 /\ c.level = Levels[n]
      BY <1>11, <2>2
    <3> QED BY <3>1, Ranks
  <2> QED BY <2>1, <2>2
<1>13. ASSUME NEW i \in 1..5, ~ R(i) PROVE Levels[i] \in c.failed
  <2>1. FALSE \in asked[Levels[i]]
    BY <1>1, <1>13 DEF Given
  <2> QED BY <2>1, <1>10 DEF lacking
<1> QED BY <1>2, <1>8, <1>11, <1>12, <1>13, Zenon DEF R
(* What is known of a record before its context is resolved is a record,    *)
(* of the same decision, and supports at most the first level.              *)
LEMMA Before ==
    ASSUME NEW e \in EvidenceRecord
    PROVE  /\ Unresolved(e) \in EvidenceRecord
           /\ ~ Unresolved(e).bindings /\ ~ Unresolved(e).trace
           /\ Unresolved(e).method = e.method
           /\ Unresolved(e).resources = e.resources /\ Unresolved(e).identity = e.identity
<1> DEFINE F == {"resources", "identity", "bindings", "links", "trace", "version", "method", "gaps",
                 "conflicted", "authoritative", "corroborated", "missing_artifacts"}
           O == ContextFields \cup {"bindings", "trace"}
<1>1. DOMAIN e = F
  BY DEF EvidenceRecord
<1>2. PICK u : u = Unresolved(e)
  OBVIOUS
<1>3. u = [f \in F |-> IF f \in O THEN FALSE ELSE IF f = "gaps" THEN {} ELSE e[f]]
  BY <1>1, <1>2, Zenon DEF Unresolved
<1>4. /\ u["bindings"] = FALSE /\ u["trace"] = FALSE /\ u["conflicted"] = FALSE
      /\ u["authoritative"] = FALSE /\ u["corroborated"] = FALSE /\ u["missing_artifacts"] = FALSE
  BY <1>3 DEF ContextFields
<1>5. /\ u["resources"] = e.resources /\ u["identity"] = e.identity /\ u["links"] = e.links
      /\ u["version"] = e.version /\ u["method"] = e.method /\ u["gaps"] = {}
  BY <1>3 DEF ContextFields
<1>6. u = [f \in F |-> u[f]]
  BY <1>3
<1>7. u = [resources |-> u["resources"], identity |-> u["identity"], bindings |-> u["bindings"],
           links |-> u["links"], trace |-> u["trace"], version |-> u["version"],
           method |-> u["method"], gaps |-> u["gaps"], conflicted |-> u["conflicted"],
           authoritative |-> u["authoritative"], corroborated |-> u["corroborated"],
           missing_artifacts |-> u["missing_artifacts"]]
  BY <1>6
<1>8. /\ e.resources \in BOOLEAN /\ e.identity \in BOOLEAN /\ e.links \in BOOLEAN
      /\ e.version \in 0..1 /\ e.method \in STRING
  BY DEF EvidenceRecord
<1>9. u \in EvidenceRecord
  BY <1>4, <1>5, <1>7, <1>8 DEF EvidenceRecord
<1> QED BY <1>2, <1>4, <1>5, <1>9

(* What a copy of a record supports, the record supports.                   *)
LEMMA LevelGrows ==
    ASSUME NEW e \in EvidenceRecord, NEW f, Held(f, e)
    PROVE  /\ LevelRank(calculate(f, FALSE, FALSE).level) <= LevelRank(calculate(e, FALSE, FALSE).level)
           /\ LevelRank(calculate(f, FALSE, FALSE).level) >= 3 =>
                e.bindings /\ ~ e.conflicted
<1>1. e = f \/ (f = Unresolved(e) /\ f \in EvidenceRecord)
  BY DEF Held
<1> DEFINE level(x) == calculate(x, FALSE, FALSE).level
           A(i) == Reaches(e, FALSE, FALSE, i)
           B(i) == Reaches(f, FALSE, FALSE, i)
<1>2. PICK n \in 0..5 : /\ \A i \in 1..n : A(i)
                        /\ n < 5 => ~ A(n + 1)
                        /\ LevelRank(level(e)) = n
  BY LevelIs
<1>3. PICK m \in 0..5 : /\ \A i \in 1..m : B(i)
                        /\ LevelRank(level(f)) = m
  BY LevelIs, <1>1
<1>6. /\ A(1) <=> e.resources \/ e.identity
      /\ A(2) => e.bindings /\ ~ e.conflicted
      /\ B(1) <=> f.resources \/ f.identity
      /\ B(2) => f.bindings
  BY DEF Reaches
<1> HIDE DEF level, A, B
<1>4. CASE e = f
  <2>1. m = n
    BY <1>2, <1>3, <1>4
  <2>2. n >= 3 => A(2)
    BY <1>2
  <2>3. LevelRank(level(f)) = LevelRank(level(e)) /\ LevelRank(level(f)) = n
    BY <2>1, <1>2, <1>3
  <2>4. LevelRank(level(f)) >= 3 => e.bindings /\ ~ e.conflicted
    BY <2>2, <2>3, <1>6
  <2>5. LevelRank(level(f)) <= LevelRank(level(e))
    BY <2>3
  <2> QED BY <2>4, <2>5 DEF level
<1>5. CASE f = Unresolved(e) /\ f \in EvidenceRecord
  <2>1. ~ f.bindings /\ f.resources = e.resources /\ f.identity = e.identity
    BY <1>5, Before
  <2>2. m \notin 2..5
    BY <2>1, <1>3, <1>6
  <2>3. m = 1 => A(1)
    BY <2>1, <1>3, <1>6
  <2>4. m = 1 => n # 0
    BY <2>3, <1>2
  <2>5. m <= n /\ ~ m >= 3
    BY <2>2, <2>4
  <2> QED BY <2>5, <1>2, <1>3 DEF level
<1> QED BY <1>1, <1>4, <1>5

(* A level raised after a verified replay, against an evaluation anew.      *)
LEMMA RaisedRight ==
    ASSUME NEW e \in EvidenceRecord
    PROVE  LET frozen == calculate(e, FALSE, FALSE).level
               raised == recalculate_after_verification(frozen, TRUE, TRUE)
               anew == calculate(e, TRUE, TRUE).level
           IN  /\ LevelRank(raised) <= LevelRank(anew)
               /\ e.trace => raised = anew
               /\ frozen # "E4" => Levels[LevelRank(frozen) + 1] \in calculate(e, FALSE, FALSE).failed
<1> DEFINE A(i) == Reaches(e, FALSE, FALSE, i)
           B(i) == Reaches(e, TRUE, TRUE, i)
           before == calculate(e, FALSE, FALSE)
           after == calculate(e, TRUE, TRUE)
<1>0. PICK frozen, raised, anew : /\ frozen = before.level
                                  /\ raised = recalculate_after_verification(frozen, TRUE, TRUE)
                                  /\ anew = after.level
  OBVIOUS
<1>1. PICK n \in 0..5 : /\ \A i \in 1..n : A(i)
                        /\ n < 5 => ~ A(n + 1)
                        /\ frozen = (IF n = 0 THEN "" ELSE Levels[n])
                        /\ LevelRank(frozen) = n
                        /\ \A i \in 1..5 : ~ A(i) =>
                             Levels[i] \in before.failed
  BY LevelIs, <1>0
<1>2. PICK m \in 0..5 : /\ \A i \in 1..m : B(i)
                        /\ m < 5 => ~ B(m + 1)
                        /\ anew = (IF m = 0 THEN "" ELSE Levels[m])
                        /\ LevelRank(anew) = m
  BY LevelIs, <1>0
<1>6. /\ \A i \in 1..5 : A(i) => B(i)
      /\ ~ A(5) /\ B(5)
      /\ \A i : e.trace /\ i # 5 /\ B(i) => A(i)
  BY DEF Reaches
<1> HIDE DEF A, B, before, after
<1>a. (\A i \in 1..n : A(i)) /\ (n < 5 => ~ A(n + 1))
  BY <1>1, Zenon
<1>b. frozen = (IF n = 0 THEN "" ELSE Levels[n]) /\ LevelRank(frozen) = n
  BY <1>1, Zenon
<1>c. (\A i \in 1..m : B(i)) /\ (m < 5 => ~ B(m + 1))
  BY <1>2, Zenon
<1>d. anew = (IF m = 0 THEN "" ELSE Levels[m]) /\ LevelRank(anew) = m
  BY <1>2, Zenon
<1>3. n < 5
  <2>1. ~ A(5)
    BY <1>6
  <2> QED BY <2>1, <1>a
<1>4. /\ Levels[4] = "E3" /\ Levels[5] = "E4" /\ "" # "E3" /\ "" # "E4"
      /\ \A i \in 1..3 : Levels[i] # "E3" /\ Levels[i] # "E4"
  <2>1. \A i \in 1..3 : i = 1 \/ i = 2 \/ i = 3
    OBVIOUS
  <2> QED BY <2>1 DEF Levels
<1>5. raised = IF n = 4 THEN "E4" ELSE frozen
  <2>1. n = 4 => frozen = "E3"
    BY <1>b, <1>4
  <2>2. n # 4 => frozen # "E3" /\ frozen # "E4"
    <3>1. n = 0 \/ n \in 1..3 \/ n = 4
      BY <1>3
    <3> QED BY <3>1, <1>b, <1>4
  <2> QED BY <2>1, <2>2, <1>0 DEF recalculate_after_verification
<1>8. n <= m
  <2>1. SUFFICES ASSUME m < n PROVE FALSE
    OBVIOUS
  <2>2. m + 1 \in 1..n
    BY <2>1
  <2> QED BY <2>1, <2>2, <1>a, <1>c, <1>6
<1>9. n = 4 => m = 5
  BY <1>a, <1>c, <1>6, <1>8
<1>10. LevelRank(raised) <= LevelRank(anew)
  <2>1. LevelRank(Levels[5]) = 5
    <3>1. 5 \in 1..5
      OBVIOUS
    <3> QED BY <3>1, Ranks, Zenon
  <2>2. LevelRank("E4") = 5
    BY <2>1, <1>4, Zenon
  <2>3. n = 4 => LevelRank(raised) = 5 /\ LevelRank(anew) = 5
    BY <2>2, <1>5, <1>9, <1>d
  <2>4. n # 4 => LevelRank(raised) = n /\ LevelRank(anew) = m
    BY <1>b, <1>d, <1>5
  <2> QED BY <2>3, <2>4, <1>8
<1>11. ASSUME e.trace PROVE raised = anew
  <2>1. CASE n = 4
    BY <2>1, <1>d, <1>4, <1>5, <1>9
  <2>2. CASE n # 4
    <3>1. ~ A(n + 1) /\ n + 1 # 5
      BY <2>2, <1>a, <1>3
    <3>2. ~ B(n + 1)
      BY <3>1, <1>6, <1>11
    <3>3. m <= n
      BY <3>2, <1>c
    <3>4. m = n
      BY <3>3, <1>8
    <3> QED BY <3>4, <2>2, <1>b, <1>d, <1>5
  <2> QED BY <2>1, <2>2
<1>12. Levels[LevelRank(frozen) + 1] \in before.failed
  <2>1. n + 1 \in 1..5 /\ ~ A(n + 1)
    BY <1>a, <1>3
  <2>2. Levels[n + 1] \in before.failed
    BY <2>1, <1>1, Zenon
  <2> QED BY <2>2, <1>b, Zenon
<1> QED BY <1>0, <1>10, <1>11, <1>12 DEF before, after
-----------------------------------------------------------------------------
(* Sweep: types.                                                            *)

(* A job of a run.                                                          *)
JobBy(k, Ids, Ders) == [run : {k}, type : {"profile", "resolve", "evaluate", "assemble"},
                        evaluator : Ids \cup {Absent}, ders : Ders]
LEMMA JobRows ==
    ASSUME NEW k, NEW type \in {"profile", "resolve", "evaluate", "assemble"}, NEW Ids,
           NEW evaluator \in Ids \cup {Absent}, NEW Ders, NEW ders \in Ders
    PROVE  [run |-> k, type |-> type, evaluator |-> evaluator, ders |-> ders] \in JobBy(k, Ids, Ders)
BY Zenon DEF JobBy

(* A plan is a sequence of jobs of its run.                                 *)
LEMMA PlanBy ==
    ASSUME NEW k, NEW Ids, NEW evaluators \in Seq(Ids), NEW Ders, {} \in Ders, NEW D \in Ders
    PROVE  Plan(k, evaluators, D) \in Seq(JobBy(k, Ids, Ders))
<1> DEFINE T == {"profile", "resolve", "evaluate", "assemble"}
<1>2. "profile" \in T /\ "resolve" \in T /\ "evaluate" \in T /\ "assemble" \in T
  OBVIOUS
<1>3. PICK profile \in T, resolve \in T, ev \in T, assemble \in T :
          profile = "profile" /\ resolve = "resolve" /\ ev = "evaluate" /\ assemble = "assemble"
  BY <1>2, Zenon
<1>4. PICK none \in Ders : none = {}
  OBVIOUS
<1>5. PICK nobody \in Ids \cup {Absent} : nobody = Absent
  OBVIOUS
<1> DEFINE J == JobBy(k, Ids, Ders)
           p == [run |-> k, type |-> profile, evaluator |-> nobody, ders |-> none]
           r == [run |-> k, type |-> resolve, evaluator |-> nobody, ders |-> D]
           a == [run |-> k, type |-> assemble, evaluator |-> nobody, ders |-> none]
           E(id) == [run |-> k, type |-> ev, evaluator |-> id, ders |-> D]
           first == <<p, r>>
           middle == [i \in DOMAIN evaluators |-> E(evaluators[i])]
           last == <<a>>
<1>6. Plan(k, evaluators, D) = first \o middle \o last
  BY <1>3, <1>4, <1>5, Zenon DEF Plan
<1>7. p \in J /\ r \in J /\ a \in J
  BY JobRows, Zenon
<1>8. \A id \in Ids : E(id) \in J
  <2>1. \A id \in Ids : id \in Ids \cup {Absent}
    OBVIOUS
  <2> QED BY <2>1, JobRows, Zenon
<1> HIDE DEF J, p, r, a, E
<1>9. first \in Seq(J) /\ last \in Seq(J)
  BY <1>7
<1>10. middle \in Seq(J)
  <2>1. PICK m \in Nat : DOMAIN evaluators = 1..m
    OBVIOUS
  <2>2. \A i \in 1..m : E(evaluators[i]) \in J
    <3>1. \A i \in 1..m : evaluators[i] \in Ids
      BY <2>1
    <3> QED BY <3>1, <1>8, Zenon
  <2>3. middle \in [1..m -> J]
    BY <2>1, <2>2
  <2> QED BY <2>3
<1> HIDE DEF first, middle, last
<1>11. first \o middle \in Seq(J)
  BY <1>9, <1>10
<1>12. first \o middle \o last \in Seq(J)
  BY <1>9, <1>11
<1> QED BY <1>6, <1>12 DEF J

LEMMA PlanJobs ==
    ASSUME SweepAssumption, NEW k, NEW evaluators \in DefinitionPosts, NEW Ders, {} \in Ders,
           NEW D \in Ders
    PROVE  Plan(k, evaluators, D) \in Seq(JobRow(k, Ders))
<1>1. evaluators \in Seq(STRING)
  BY DEF SweepAssumption
<1>2. JobRow(k, Ders) = JobBy(k, STRING, Ders)
  BY DEF JobRow, JobBy
<1> QED BY <1>1, <1>2, PlanBy

(* The slots when no request or worker moves.                               *)
LEMMA SameTasks ==
    ASSUME SweepTypeInv, UNCHANGED <<task, runs>>, DOMAIN evidence \subseteq DOMAIN evidence'
    PROVE  /\ DOMAIN task' = SweepSlots
           /\ (\A v \in SweepSlots : TaskOK(task[v]))'
           /\ (\A v, u \in SweepSlots :
                 task[v].pc = "jobs" /\ task[u].pc = "jobs" /\ task[v].run = task[u].run => v = u)'
<1>1. ASSUME NEW v \in SweepSlots PROVE TaskOK(task[v])'
  <2>1. PICK s : s = task[v]
    OBVIOUS
  <2>2. TaskOK(s)
    BY <2>1 DEF SweepTypeInv
  <2>3. TaskOK(s)'
    BY <2>2 DEF TaskOK
  <2> QED BY <2>1, <2>3
<1> QED BY <1>1 DEF SweepTypeInv

(* The slots after a step of one of them.                                   *)
LEMMA OneTask ==
    ASSUME SweepTypeInv, NEW w \in SweepSlots, NEW t, task' = [task EXCEPT ![w] = t],
           DOMAIN evidence \subseteq DOMAIN evidence', DOMAIN runs \subseteq DOMAIN runs',
           \A k \in DOMAIN runs : runs[k].answered => runs'[k].answered,
           \A v \in SweepSlots \ {w} : task[v].pc = "jobs" =>
             /\ runs'[task[v].run] = runs[task[v].run]
             /\ t.pc = "jobs" => task[v].run # t.run,
           TaskOK(t)'
    PROVE  /\ DOMAIN task' = SweepSlots
           /\ (\A v \in SweepSlots : TaskOK(task[v]))'
           /\ (\A v, u \in SweepSlots :
                 task[v].pc = "jobs" /\ task[u].pc = "jobs" /\ task[v].run = task[u].run => v = u)'
<1>1. DOMAIN task' = SweepSlots /\ task'[w] = t
  BY DEF SweepTypeInv
<1>2. \A v \in SweepSlots : v # w => task'[v] = task[v]
  BY DEF SweepTypeInv
<1>3. ASSUME NEW v \in SweepSlots PROVE TaskOK(task[v])'
  <2>1. CASE v = w
    <3>1. task'[v] = t
      BY <1>1, <2>1
    <3> QED BY <3>1
  <2>2. CASE v # w
    <3>1. PICK s : s = task[v]
      OBVIOUS
    <3>2. TaskOK(s) /\ (s.pc = "jobs" => runs'[s.run] = runs[s.run])
      BY <3>1, <2>2 DEF SweepTypeInv
    <3>3. TaskOK(s)'
      BY <3>2 DEF TaskOK
    <3> QED BY <3>1, <3>3, <2>2, <1>2
  <2> QED BY <2>1, <2>2
<1>4. ASSUME NEW v \in SweepSlots, NEW u \in SweepSlots,
             task'[v].pc = "jobs", task'[u].pc = "jobs", task'[v].run = task'[u].run
      PROVE  v = u
  <2>1. CASE v # w /\ u # w
    BY <2>1, <1>2, <1>4 DEF SweepTypeInv
  <2>2. CASE v = w /\ u # w
    BY <2>2, <1>1, <1>2, <1>4
  <2>3. CASE v # w /\ u = w
    BY <2>3, <1>1, <1>2, <1>4
  <2>4. CASE v = w /\ u = w
    BY <2>4
  <2> QED BY <2>1, <2>2, <2>3, <2>4
<1> QED BY <1>1, <1>3, <1>4

(* A row that is replaced.                                                  *)
LEMMA RunReplaced ==
    ASSUME NEW rs \in Seq(RunRow), NEW k \in DOMAIN rs, NEW row \in RunRow, NEW after,
           after = [rs EXCEPT ![k] = row]
    PROVE  /\ after \in Seq(RunRow) /\ DOMAIN after = DOMAIN rs /\ Len(after) = Len(rs)
           /\ \A j \in DOMAIN rs : j # k => after[j] = rs[j]
           /\ after[k] = row
<1> HIDE DEF RunRow
<1> QED OBVIOUS

(* The row of a run whose status is saved.                                  *)
LEMMA SavedRow ==
    ASSUME NEW r \in RunRow, NEW s \in Statuses, NEW row, row = [r EXCEPT !.status = s]
    PROVE  row \in RunRow /\ row.status = s /\ row.answered = r.answered /\ row.evaluators = r.evaluators
BY DEF RunRow

(* The row of a run that is started.                                        *)
LEMMA StartedRow ==
    ASSUME NEW rs \in Seq(RunRow), NEW k \in DOMAIN rs
    PROVE  \E row \in RunRow :
             /\ [rs EXCEPT ![k].status = "profiling", ![k].answered = TRUE] = [rs EXCEPT ![k] = row]
             /\ row.status = "profiling" /\ row.answered /\ row.evaluators = rs[k].evaluators
<1>1. PICK row : row = [rs[k] EXCEPT !.status = "profiling", !.answered = TRUE]
  OBVIOUS
<1>2. rs[k] \in RunRow
  OBVIOUS
<1>3. /\ row \in RunRow /\ row.status = "profiling" /\ row.answered
      /\ row.evaluators = rs[k].evaluators
  BY <1>1, <1>2 DEF RunRow, Statuses
<1>4. [rs EXCEPT ![k].status = "profiling", ![k].answered = TRUE] = [rs EXCEPT ![k] = row]
  BY <1>1
<1> QED BY <1>3, <1>4, Zenon

(* A run that moves on leaves "queued" behind.                              *)
LEMMA StageNames ==
    ASSUME NEW status \in Statuses
    PROVE  NextStage(status) \in Statuses /\ (status # "queued" => NextStage(status) # "queued")
<1>1. /\ Stages[1] = "profiling" /\ Stages[2] = "resolving" /\ Stages[3] = "evaluating"
      /\ Stages[4] = "assembling" /\ Stages[5] = "completed"
  BY DEF Stages
<1>2. \A i \in 1..4 : i = 1 \/ i = 2 \/ i = 3 \/ i = 4
  OBVIOUS
<1> DEFINE At(i) == Stages[i] = status
           found == CHOOSE i \in 1..4 : At(i)
<1>3. \A i \in 1..4 : Stages[1 + i] \in Statuses /\ Stages[1 + i] # "queued"
  BY <1>1, <1>2 DEF Statuses
<1> HIDE DEF At
<1>4. CASE \E i \in 1..4 : At(i)
  <2>1. found \in 1..4
    BY <1>4, Zenon
  <2>2. NextStage(status) = Stages[1 + found]
    BY <1>4, Zenon DEF NextStage, At
  <2> QED BY <2>1, <2>2, <1>3
<1>5. CASE ~ \E i \in 1..4 : At(i)
  BY <1>5, Zenon DEF NextStage, At
<1> QED BY <1>4, <1>5

(* Nothing has been posted yet.                                            *)
LEMMA SweepTypesStart == SweepAssumption /\ SweepInit => SweepTypeInv
<1> SUFFICES ASSUME SweepAssumption, SweepInit PROVE SweepTypeInv
  OBVIOUS
<1>1. /\ evidence \in Seq(EvidenceRecord) /\ runs \in Seq(RunRow)
      /\ DOMAIN runs = {}
  BY DEF SweepInit
<1>3. Rows
  <2>1. Len(runs) <= MaxRuns
    BY DEF SweepInit, SweepAssumption
  <2>2. DOMAIN jobs = 1..MaxRuns /\ \A k \in DOMAIN jobs : jobs[k] = <<>>
    BY DEF SweepInit
  <2>3. \A k \in DOMAIN jobs : jobs[k] \in Seq(JobRow(k, SUBSET Nat))
    <3>1. \A S : <<>> \in Seq(S)
      OBVIOUS
    <3> QED BY <3>1, <2>2, Zenon
  <2> QED BY <2>1, <2>2, <2>3 DEF Rows
<1>2. ASSUME NEW w \in SweepSlots PROVE task[w].pc = "free" /\ TaskOK(task[w])
  <2>1. PICK t : t = task[w]
    OBVIOUS
  <2>2. t.pc = "free"
    BY <2>1 DEF SweepInit, NoTask
  <2>3. TaskOK(t)
    BY <2>2 DEF TaskOK
  <2> QED BY <2>1, <2>2, <2>3
<1> QED BY <1>1, <1>2, <1>3 DEF SweepInit, SweepTypeInv

(* Every step keeps the types.                                              *)
LEMMA SweepTypesStep ==
    ASSUME SweepAssumption, SweepTypeInv, SweepNext PROVE SweepTypeInv'
<1> DEFINE Tasks ==
      /\ DOMAIN task' = SweepSlots
      /\ (\A v \in SweepSlots : TaskOK(task[v]))'
      /\ (\A v, u \in SweepSlots :
            task[v].pc = "jobs" /\ task[u].pc = "jobs" /\ task[v].run = task[u].run => v = u)'
    Others ==
      /\ UNCHANGED <<definitions, evidence, runs, jobs>>
<1>A. /\ evidence \in Seq(EvidenceRecord) /\ runs \in Seq(RunRow)
      /\ \A k \in DOMAIN runs : runs[k].answered => runs[k].status # "queued"
      /\ Rows
      /\ \A w \in SweepSlots : TaskOK(task[w])
  BY DEF SweepTypeInv
<1>G. ASSUME UNCHANGED jobs, Len(runs') = Len(runs), DOMAIN runs' = DOMAIN runs PROVE Rows'
  BY <1>G, <1>A DEF Rows
<1>B. ASSUME Tasks, Others PROVE SweepTypeInv'
  <2>1. Rows'
    BY <1>B, <1>G
  <2> QED BY <2>1, <1>B DEF SweepTypeInv
<1>C. ASSUME NEW w \in SweepSlots, NEW t, task' = [task EXCEPT ![w] = t], Others, t.pc # "jobs", TaskOK(t)'
      PROVE  SweepTypeInv'
  <2>1. Tasks
    BY <1>C, OneTask
  <2> QED BY <2>1, <1>B, <1>C
<1> HIDE DEF Tasks
<1>1. ASSUME NEW d \in DefinitionIds, NEW evaluators \in DefinitionPosts, PostDefinition(d, evaluators)
      PROVE  SweepTypeInv'
  <2>1. UNCHANGED <<task, runs, evidence, jobs>> /\ definitions' = [definitions EXCEPT ![d] = evaluators]
    BY <1>1 DEF PostDefinition
  <2>2. Tasks
    BY <2>1, SameTasks DEF Tasks
  <2>3. /\ DOMAIN definitions' = DefinitionIds
        /\ \A c \in DefinitionIds : definitions'[c] \in DefinitionPosts \cup {Absent}
    BY <2>1 DEF SweepTypeInv
  <2>4. Rows'
    BY <2>1, <1>G
  <2> QED BY <2>1, <2>2, <2>3, <2>4 DEF SweepTypeInv, Tasks
<1>2. ASSUME NEW e \in Evidence, RecordBuilt(e) PROVE SweepTypeInv'
  <2>1. UNCHANGED <<task, runs, definitions, jobs>> /\ evidence' = Append(evidence, Unresolved(e))
    BY <1>2 DEF RecordBuilt
  <2>2. PICK u \in EvidenceRecord : u = Unresolved(e)
    BY Before DEF SweepAssumption
  <2>3. evidence' \in Seq(EvidenceRecord) /\ DOMAIN evidence \subseteq DOMAIN evidence'
    <3> HIDE DEF EvidenceRecord
    <3> QED BY <2>1, <2>2, <1>A
  <2>4. Tasks
    BY <2>1, <2>3, SameTasks DEF Tasks
  <2>5. Rows'
    BY <2>1, <1>G
  <2> QED BY <2>1, <2>3, <2>4, <2>5 DEF SweepTypeInv, Tasks
<1>3. ASSUME NEW e \in Evidence, NEW k \in DOMAIN evidence, RecordResolved(k, e) PROVE SweepTypeInv'
  <2>1. UNCHANGED <<task, runs, definitions, jobs>> /\ evidence' = [evidence EXCEPT ![k] = e]
    BY <1>3 DEF RecordResolved
  <2>2. e \in EvidenceRecord
    BY DEF SweepAssumption
  <2>3. evidence' \in Seq(EvidenceRecord) /\ DOMAIN evidence = DOMAIN evidence'
    <3> HIDE DEF EvidenceRecord
    <3> QED BY <2>1, <2>2, <1>A
  <2>4. Tasks
    BY <2>1, <2>3, SameTasks DEF Tasks
  <2>5. Rows'
    BY <2>1, <1>G
  <2> QED BY <2>1, <2>3, <2>4, <2>5 DEF SweepTypeInv, Tasks
<1>4. ASSUME NEW w \in SweepSlots, NEW d \in DefinitionIds, ReadDefinition(w, d) PROVE SweepTypeInv'
  <2>1. PICK t : t = [pc |-> "list", evaluators |-> definitions[d], definition |-> d]
    OBVIOUS
  <2>2. definitions[d] \in DefinitionPosts
    BY <1>4 DEF ReadDefinition, SweepTypeInv
  <2>3. t.pc = "list" /\ t.definition \in DefinitionIds /\ t.evaluators \in DefinitionPosts
    BY <2>1, <2>2
  <2>4. TaskOK(t)'
    BY <2>3 DEF TaskOK
  <2>5. task' = [task EXCEPT ![w] = t] /\ Others
    BY <1>4, <2>1 DEF ReadDefinition, Becomes
  <2> QED BY <2>3, <2>4, <2>5, <1>C
<1>5. ASSUME NEW w \in SweepSlots, NEW k \in DOMAIN runs, Rerun(w, k) PROVE SweepTypeInv'
  <2>1. runs[k].definition \in DefinitionIds
    <3>1. runs[k] \in RunRow
      BY <1>A
    <3> QED BY <3>1 DEF RunRow
  <2>2. ReadDefinition(w, runs[k].definition)
    BY <1>5 DEF Rerun
  <2> QED BY <2>1, <2>2, <1>4
<1>6. ASSUME NEW w \in SweepSlots, ListRecords(w) PROVE SweepTypeInv'
  <2>1. PICK t : t = [pc |-> "run", evaluators |-> task[w].evaluators,
                      definition |-> task[w].definition, ders |-> DOMAIN evidence]
    OBVIOUS
  <2>2. task[w].definition \in DefinitionIds /\ task[w].evaluators \in DefinitionPosts
    BY <1>6, <1>A DEF ListRecords, TaskOK
  <2>3. /\ t.pc = "run" /\ t.definition \in DefinitionIds /\ t.evaluators \in DefinitionPosts
        /\ t.ders = DOMAIN evidence
    BY <2>1, <2>2
  <2>5. task' = [task EXCEPT ![w] = t] /\ Others
    BY <1>6, <2>1 DEF ListRecords, Becomes
  <2>4. TaskOK(t)'
    BY <2>3, <2>5 DEF TaskOK
  <2> QED BY <2>3, <2>4, <2>5, <1>C
<1>7. ASSUME NEW w \in SweepSlots, CreateRun(w) PROVE SweepTypeInv'
  <2>1. /\ task[w].definition \in DefinitionIds /\ task[w].evaluators \in DefinitionPosts
        /\ task[w].ders \subseteq DOMAIN evidence
    BY <1>7, <1>A DEF CreateRun, TaskOK
  <2>2. PICK n : n = Len(runs) + 1
    OBVIOUS
  <2>3. PICK row : row = [definition |-> task[w].definition, status |-> "queued",
                          evaluators |-> task[w].evaluators, answered |-> FALSE]
    OBVIOUS
  <2>4. row \in RunRow /\ row.status = "queued" /\ ~ row.answered
    BY <2>1, <2>3 DEF RunRow, Statuses
  <2>5. runs' = Append(runs, row) /\ UNCHANGED <<definitions, evidence, jobs>>
    BY <1>7, <2>3 DEF CreateRun
  <2>6. /\ runs' \in Seq(RunRow) /\ n \in DOMAIN runs' /\ runs'[n] = row
        /\ DOMAIN runs \subseteq DOMAIN runs' /\ n \notin DOMAIN runs
        /\ DOMAIN runs' = DOMAIN runs \cup {n}
        /\ \A k \in DOMAIN runs : runs'[k] = runs[k]
    <3> HIDE DEF RunRow
    <3>1. row \in RunRow
      BY <2>4
    <3> QED BY <2>2, <2>5, <3>1, <1>A
  <2>7. PICK todo : todo = Plan(n, task[w].evaluators, task[w].ders)
    OBVIOUS
  <2>8. todo \in Seq(JobRow(n, SUBSET Nat))
    <3>1. task[w].ders \in SUBSET Nat
      BY <2>1, <1>A
    <3> QED BY <2>1, <3>1, <2>7, PlanJobs
  <2>9. PICK t : t = [pc |-> "jobs", run |-> n, todo |-> todo]
    OBVIOUS
  <2>10. task' = [task EXCEPT ![w] = t]
    BY <1>7, <2>2, <2>7, <2>9, Zenon DEF CreateRun, Becomes
  <2>11. t.pc = "jobs" /\ t.run = n /\ t.todo = todo /\ DOMAIN t = {"pc", "run", "todo"}
    BY <2>9
  <2>12. TaskOK(t)'
    BY <2>11, <2>8, <2>6, <2>4 DEF TaskOK
  <2>13. \A v \in SweepSlots : task[v].pc = "jobs" => task[v].run \in DOMAIN runs
    BY <1>A DEF TaskOK
  <2>14. Tasks
    <3>1. \A v \in SweepSlots \ {w} : task[v].pc = "jobs" =>
            /\ runs'[task[v].run] = runs[task[v].run]
            /\ t.pc = "jobs" => task[v].run # t.run
      BY <2>6, <2>11, <2>13
    <3>2. \A k \in DOMAIN runs : runs[k].answered => runs'[k].answered
      BY <2>6
    <3>3. DOMAIN evidence \subseteq DOMAIN evidence'
      BY <2>5
    <3> QED BY <3>1, <3>2, <3>3, <2>6, <2>10, <2>12, OneTask DEF Tasks
  <2>15. \A k \in DOMAIN runs' : runs'[k].answered => runs'[k].status # "queued"
    BY <2>4, <2>6, <1>A
  <2>16. Rows'
    <3>1. DOMAIN jobs' = 1..MaxRuns /\ jobs' = jobs
      BY <2>5, <1>A DEF Rows
    <3>2. Len(runs') <= MaxRuns
      <4>1. Len(runs) < MaxRuns
        BY <1>7 DEF CreateRun
      <4>2. Len(runs') = Len(runs) + 1
        BY <2>5, <1>A
      <4> QED BY <4>1, <4>2, <1>A DEF SweepAssumption
    <3>3. \A k \in DOMAIN jobs' \ DOMAIN runs' : jobs'[k] = <<>>
      BY <3>1, <2>6, <1>A DEF Rows
    <3> QED BY <3>1, <3>2, <3>3, <1>A DEF Rows
  <2> QED BY <2>5, <2>6, <2>14, <2>15, <2>16, <1>A DEF SweepTypeInv, Tasks
<1>8. ASSUME NEW w \in SweepSlots, CreateJob(w) PROVE SweepTypeInv'
  <2>1. PICK n, todo : n = task[w].run /\ todo = task[w].todo
    OBVIOUS
  <2>2. /\ DOMAIN task[w] = {"pc", "run", "todo"}
        /\ n \in DOMAIN runs /\ todo \in Seq(JobRow(n, SUBSET Nat))
        /\ runs[n].status = "queued" /\ ~ runs[n].answered /\ todo # <<>>
        /\ task[w].pc = "jobs"
    BY <1>8, <2>1, <1>A DEF CreateJob, TaskOK
  <2>3. Tail(todo) \in Seq(JobRow(n, SUBSET Nat)) /\ Head(todo) \in JobRow(n, SUBSET Nat)
    <3> HIDE DEF JobRow
    <3> QED BY <2>2
  <2>4. PICK t : t = [task[w] EXCEPT !.todo = Tail(todo)]
    OBVIOUS
  <2>5. t.pc = "jobs" /\ t.run = n /\ t.todo = Tail(todo) /\ DOMAIN t = {"pc", "run", "todo"}
    BY <2>1, <2>2, <2>4
  <2>6. task' = [task EXCEPT ![w] = t] /\ UNCHANGED <<definitions, evidence, runs>>
        /\ jobs' = [jobs EXCEPT ![n] = Append(@, Head(todo))]
    BY <1>8, <2>1, <2>4 DEF CreateJob
  <2>7. TaskOK(t)'
    BY <2>5, <2>6, <2>2, <2>3 DEF TaskOK
  <2>8. Tasks
    <3>1. \A v \in SweepSlots \ {w} : task[v].pc = "jobs" => task[v].run # t.run
      BY <2>1, <2>2, <2>5 DEF SweepTypeInv
    <3> QED BY <3>1, <2>6, <2>7, OneTask DEF Tasks
  <2>9. Rows'
    <3>1. jobs[n] \in Seq(JobRow(n, SUBSET Nat)) /\ n \in DOMAIN jobs
      <4>1. n \in 1..MaxRuns
        BY <2>2, <1>A DEF Rows, SweepAssumption
      <4> QED BY <4>1, <1>A DEF Rows
    <3>2. PICK row : row = Append(jobs[n], Head(todo))
      OBVIOUS
    <3>3. row \in Seq(JobRow(n, SUBSET Nat))
      <4> HIDE DEF JobRow
      <4> QED BY <3>1, <3>2, <2>3
    <3>4. /\ DOMAIN jobs' = DOMAIN jobs /\ jobs'[n] = row
          /\ \A k \in DOMAIN jobs : k # n => jobs'[k] = jobs[k]
      BY <3>1, <3>2, <2>6
    <3>5. \A k \in DOMAIN jobs : jobs'[k] \in Seq(JobRow(k, SUBSET Nat))
      <4> SUFFICES ASSUME NEW k \in DOMAIN jobs PROVE jobs'[k] \in Seq(JobRow(k, SUBSET Nat))
        OBVIOUS
      <4> HIDE DEF JobRow
      <4>1. CASE k = n
        BY <4>1, <3>3, <3>4
      <4>2. CASE k # n
        BY <4>2, <3>4, <1>A DEF Rows
      <4> QED BY <4>1, <4>2
    <3>6. \A k \in DOMAIN jobs \ DOMAIN runs : jobs'[k] = <<>>
      BY <3>4, <2>2, <1>A DEF Rows
    <3> HIDE DEF JobRow
    <3> QED BY <3>4, <3>5, <3>6, <2>6, <1>A DEF Rows
  <2> QED BY <2>6, <2>8, <2>9 DEF SweepTypeInv, Tasks
<1>D. ASSUME NEW w \in SweepSlots, NEW t, task' = [task EXCEPT ![w] = t], t.pc # "jobs", TaskOK(t)',
             NEW k \in DOMAIN runs, runs[k].answered \/ (task[w].pc = "jobs" /\ task[w].run = k),
             runs' \in Seq(RunRow), DOMAIN runs' = DOMAIN runs,
             \A j \in DOMAIN runs : j # k => runs'[j] = runs[j],
             runs'[k].answered, runs'[k].status # "queued",
             UNCHANGED <<definitions, evidence, jobs>>
      PROVE  SweepTypeInv'
  <2>5. Rows'
    <3>1. Len(runs') = Len(runs)
      <4> HIDE DEF RunRow
      <4> QED BY <1>D, <1>A
    <3> QED BY <3>1, <1>D, <1>G
  <2>1. \A v \in SweepSlots \ {w} : task[v].pc = "jobs" =>
          /\ runs'[task[v].run] = runs[task[v].run]
          /\ t.pc = "jobs" => task[v].run # t.run
    <3>1. ASSUME NEW v \in SweepSlots \ {w}, task[v].pc = "jobs" PROVE task[v].run # k
      <4>1. task[v].run \in DOMAIN runs /\ ~ runs[task[v].run].answered
        BY <3>1, <1>A DEF TaskOK
      <4>2. task[w].pc = "jobs" => task[v].run # task[w].run
        BY <3>1 DEF SweepTypeInv
      <4> QED BY <4>1, <4>2, <1>D
    <3>2. \A v \in SweepSlots : task[v].pc = "jobs" => task[v].run \in DOMAIN runs
      BY <1>A DEF TaskOK
    <3> QED BY <3>1, <3>2, <1>D
  <2>2. \A j \in DOMAIN runs : runs[j].answered => runs'[j].answered
    BY <1>D
  <2>3. Tasks
    BY <2>1, <2>2, <1>D, OneTask DEF Tasks
  <2>4. \A j \in DOMAIN runs' : runs'[j].answered => runs'[j].status # "queued"
    BY <1>D, <1>A
  <2> QED BY <2>3, <2>4, <2>5, <1>D, <1>A DEF SweepTypeInv, Tasks
<1>E. TaskOK(NoTask)' /\ NoTask.pc = "free"
  <2>1. PICK t : t = NoTask
    OBVIOUS
  <2>2. t.pc = "free"
    BY <2>1 DEF NoTask
  <2>3. TaskOK(t)'
    BY <2>2 DEF TaskOK
  <2> QED BY <2>1, <2>2, <2>3
<1>9. ASSUME NEW w \in SweepSlots, StartRun(w) PROVE SweepTypeInv'
  <2>1. PICK k : k = task[w].run
    OBVIOUS
  <2>2. k \in DOMAIN runs /\ task[w].pc = "jobs"
    BY <1>9, <2>1, <1>A DEF StartRun, TaskOK
  <2>3. PICK row \in RunRow :
          /\ [runs EXCEPT ![k].status = "profiling", ![k].answered = TRUE] = [runs EXCEPT ![k] = row]
          /\ row.status = "profiling" /\ row.answered /\ row.evaluators = runs[k].evaluators
    BY <2>2, <1>A, StartedRow, Zenon
  <2>4. runs' = [runs EXCEPT ![k] = row]
    BY <1>9, <2>1, <2>3, Zenon DEF StartRun
  <2>5. /\ runs' \in Seq(RunRow) /\ DOMAIN runs' = DOMAIN runs
        /\ \A j \in DOMAIN runs : j # k => runs'[j] = runs[j]
        /\ runs'[k] = row
    BY <2>2, <2>4, <1>A, RunReplaced
  <2>6. runs'[k].answered /\ runs'[k].status # "queued"
    BY <2>3, <2>5
  <2>7. task' = [task EXCEPT ![w] = NoTask] /\ UNCHANGED <<definitions, evidence, jobs>>
    BY <1>9 DEF StartRun, Becomes
  <2> QED BY <2>1, <2>2, <2>5, <2>6, <2>7, <1>D, <1>E
<1>10. ASSUME NEW w \in SweepSlots, NEW k \in DOMAIN runs, ReadForCancel(w, k) PROVE SweepTypeInv'
  <2>1. PICK t : t = [pc |-> "cancel", run |-> k]
    OBVIOUS
  <2>2. task' = [task EXCEPT ![w] = t] /\ Others /\ runs[k].answered
    BY <1>10, <2>1 DEF ReadForCancel, Becomes
  <2>3. t.pc = "cancel" /\ t.run = k
    BY <2>1
  <2>4. TaskOK(t)'
    BY <2>2, <2>3 DEF TaskOK
  <2> QED BY <2>2, <2>3, <2>4, <1>C
<1>11. ASSUME NEW w \in SweepSlots, NEW k \in DOMAIN runs, LoadRun(w, k) PROVE SweepTypeInv'
  <2>1. PICK t : t = [pc |-> "worker", run |-> k, status |-> runs[k].status]
    OBVIOUS
  <2>2. task' = [task EXCEPT ![w] = t] /\ Others /\ runs[k].answered
    BY <1>11, <2>1 DEF LoadRun, Becomes
  <2>3. t.pc = "worker" /\ t.run = k /\ t.status = runs[k].status /\ DOMAIN t = {"pc", "run", "status"}
    BY <2>1
  <2>4. runs[k].status \in Statuses \ {"queued"}
    <3>1. runs[k] \in RunRow
      BY <1>A
    <3> QED BY <2>2, <3>1, <1>A DEF RunRow
  <2>5. TaskOK(t)'
    BY <2>2, <2>3, <2>4 DEF TaskOK
  <2> QED BY <2>2, <2>3, <2>5, <1>C
<1>F. ASSUME NEW w \in SweepSlots, task[w].pc \in {"cancel", "worker"}, NEW k, k = task[w].run,
             NEW s \in Statuses \ {"queued"}, runs' = [runs EXCEPT ![k].status = s],
             NEW t, task' = [task EXCEPT ![w] = t], t.pc # "jobs", TaskOK(t)',
             UNCHANGED <<definitions, evidence, jobs>>
      PROVE  SweepTypeInv'
  <2>1. k \in DOMAIN runs /\ runs[k].answered
    BY <1>F, <1>A DEF TaskOK
  <2>2. s \in Statuses
    OBVIOUS
  <2>a. PICK row : row = [runs[k] EXCEPT !.status = s]
    OBVIOUS
  <2>b. runs[k] \in RunRow
    BY <2>1, <1>A
  <2>3. row \in RunRow /\ row.status = s /\ row.answered = runs[k].answered
    BY <2>a, <2>b, <2>2, SavedRow
  <2>4. runs' = [runs EXCEPT ![k] = row]
    BY <2>a, <1>F
  <2>5. /\ runs' \in Seq(RunRow) /\ DOMAIN runs' = DOMAIN runs
        /\ \A j \in DOMAIN runs : j # k => runs'[j] = runs[j]
        /\ runs'[k] = row
    BY <2>1, <2>3, <2>4, <1>A, RunReplaced
  <2>6. runs'[k].answered /\ runs'[k].status # "queued"
    BY <2>1, <2>3, <2>5
  <2> QED BY <2>1, <2>5, <2>6, <1>F, <1>D
<1>12. ASSUME NEW w \in SweepSlots, SaveCancelled(w) PROVE SweepTypeInv'
  <2>1. PICK k, s : k = task[w].run /\ s = "cancelled"
    OBVIOUS
  <2>2. /\ task[w].pc = "cancel" /\ runs' = [runs EXCEPT ![k].status = s]
        /\ task' = [task EXCEPT ![w] = NoTask] /\ UNCHANGED <<definitions, evidence, jobs>>
    BY <1>12, <2>1 DEF SaveCancelled, Becomes
  <2>3. s \in Statuses \ {"queued"}
    BY <2>1 DEF Statuses
  <2> QED BY <2>1, <2>2, <2>3, <1>E, <1>F
<1>13. ASSUME NEW w \in SweepSlots, NEW status \in {"completed", "completed_with_errors"},
              CompleteRun(w, status)
       PROVE  SweepTypeInv'
  <2>1. PICK k : k = task[w].run
    OBVIOUS
  <2>2. /\ task[w].pc = "worker" /\ runs' = [runs EXCEPT ![k].status = status]
        /\ task' = [task EXCEPT ![w] = NoTask] /\ UNCHANGED <<definitions, evidence, jobs>>
    BY <1>13, <2>1 DEF CompleteRun, Becomes
  <2>3. status \in Statuses \ {"queued"}
    BY DEF Statuses
  <2> QED BY <2>1, <2>2, <2>3, <1>E, <1>F
<1>14. ASSUME NEW w \in SweepSlots, NEW b \in Budgets, AdvanceRunStatus(w, b) PROVE SweepTypeInv'
  <2>1. PICK k, s : k = task[w].run /\ s = (IF check(b) THEN NextStage(task[w].status) ELSE "failed")
    OBVIOUS
  <2>2. /\ task[w].pc = "worker" /\ runs' = [runs EXCEPT ![k].status = s]
        /\ task' = [task EXCEPT ![w].status = s] /\ UNCHANGED <<definitions, evidence, jobs>>
    BY <1>14, <2>1, Zenon DEF AdvanceRunStatus
  <2>3. /\ task[w].status \in Statuses \ {"queued"} /\ k \in DOMAIN runs /\ runs[k].answered
        /\ DOMAIN task[w] = {"pc", "run", "status"}
    BY <2>1, <2>2, <1>A DEF TaskOK
  <2>4. s \in Statuses \ {"queued"}
    <3>1. CASE check(b)
      <4>1. NextStage(task[w].status) \in Statuses /\ NextStage(task[w].status) # "queued"
        BY <2>3, StageNames
      <4>2. s = NextStage(task[w].status)
        BY <2>1, <3>1, Zenon
      <4> QED BY <4>1, <4>2
    <3>2. CASE ~ check(b)
      <4>1. s = "failed"
        BY <2>1, <3>2, Zenon
      <4> QED BY <4>1 DEF Statuses
    <3> QED BY <3>1, <3>2
  <2>5. PICK t : t = [task[w] EXCEPT !.status = s]
    OBVIOUS
  <2>6. /\ t.pc = "worker" /\ t.run = k /\ t.status = s /\ DOMAIN t = {"pc", "run", "status"}
        /\ task' = [task EXCEPT ![w] = t]
    BY <2>1, <2>2, <2>3, <2>5
  <2>7. TaskOK(t)'
    <3>1. k \in DOMAIN runs' /\ runs'[k].answered
      <4>1. s \in Statuses
        BY <2>4
      <4>a. PICK row : row = [runs[k] EXCEPT !.status = s]
        OBVIOUS
      <4>b. runs[k] \in RunRow
        BY <2>3, <1>A
      <4>2. row \in RunRow /\ row.answered = runs[k].answered
        BY <4>1, <4>a, <4>b, SavedRow
      <4>3. runs' = [runs EXCEPT ![k] = row]
        BY <4>a, <2>2
      <4>4. DOMAIN runs' = DOMAIN runs /\ runs'[k] = row
        BY <4>2, <4>3, <2>3, <1>A, RunReplaced
      <4> QED BY <4>2, <4>4, <2>3
    <3> QED BY <3>1, <2>4, <2>6 DEF TaskOK
  <2> QED BY <2>1, <2>2, <2>4, <2>6, <2>7, <1>F
<1>15. ASSUME NEW w \in SweepSlots, NEW j \in AllJobs, NEW p \in Parameters, NEW k \in j.ders,
              Evaluate(w, j, k, p)
       PROVE  SweepTypeInv'
  <2>1. PICK row : row = [run |-> j.run, der |-> k, evaluator |-> j.evaluator,
                          result |-> evaluate(j.evaluator, evidence[k], p)]
    OBVIOUS
  <2>2. PICK t : t = [pc |-> "record", der |-> k, frozen |-> evidence[k], row |-> row]
    OBVIOUS
  <2>3. task' = [task EXCEPT ![w] = t] /\ Others
    BY <1>15, <2>1, <2>2, Zenon DEF Evaluate, Becomes
  <2>4. t.pc = "record"
    BY <2>2
  <2>5. TaskOK(t)'
    BY <2>4 DEF TaskOK
  <2> QED BY <2>3, <2>4, <2>5, <1>C
<1>16. ASSUME NEW w \in SweepSlots, RecordEvaluation(w) PROVE SweepTypeInv'
  <2>1. PICK t : t = [pc |-> "assemble", assessment |-> Len(assessments) + 1,
                      frozen |-> task[w].frozen]
    OBVIOUS
  <2>2. task' = [task EXCEPT ![w] = t] /\ Others
    BY <1>16, <2>1 DEF RecordEvaluation, Becomes
  <2>3. t.pc = "assemble"
    BY <2>1
  <2>4. TaskOK(t)'
    BY <2>3 DEF TaskOK
  <2> QED BY <2>2, <2>3, <2>4, <1>C
<1>17. ASSUME NEW w \in SweepSlots, Assemble(w) \/ Fail(w) PROVE SweepTypeInv'
  <2>1. task' = [task EXCEPT ![w] = NoTask] /\ Others
    BY <1>17, Zenon DEF Assemble, Fail, Becomes
  <2> QED BY <2>1, <1>C, <1>E
<1> QED BY <1>1, <1>2, <1>3, <1>4, <1>5, <1>6, <1>7, <1>8, <1>9, <1>10, <1>11, <1>12, <1>13, <1>14,
           <1>15, <1>16, <1>17, Zenon DEF SweepNext

-----------------------------------------------------------------------------
(* Sweep: a run's plan.                                                     *)

(* A plan that is written from the front.                                   *)
LEMMA WrittenOn ==
    ASSUME NEW S, NEW s \in Seq(S), NEW t \in Seq(S)
    PROVE  /\ Begins(s, s \o t)
           /\ t # <<>> => Append(s, Head(t)) \o Tail(t) = s \o t
           /\ <<>> \o t = t /\ s \o <<>> = s
<1>1. PICK p : p = s \o t
  OBVIOUS
<1>2. p \in Seq(S) /\ Len(p) = Len(s) + Len(t) /\ Len(s) \in 0..Len(p)
  BY <1>1
<1>3. \A i \in 1..Len(s) : p[i] = s[i]
  BY <1>1
<1>4. SubSeq(p, 1, Len(s)) = s
  BY <1>2, <1>3
<1>5. Begins(s, p)
  BY <1>2, <1>4 DEF Begins
<1>6. ASSUME t # <<>> PROVE Append(s, Head(t)) \o Tail(t) = s \o t
  <2>1. PICK h, b : h = Head(t) /\ b = Tail(t)
    OBVIOUS
  <2>2. h \in S /\ b \in Seq(S) /\ t = <<h>> \o b
    <3>1. Len(t) \in Nat \ {0} /\ 1 \in 1..Len(t) /\ Len(t) \in 1..Len(t)
      BY <1>6, EmptySeq
    <3>2. SubSeq(t, 1, Len(t)) = <<t[1]>> \o SubSeq(t, 1 + 1, Len(t))
      BY <3>1, SubSeqRecursiveFirst
    <3>3. SubSeq(t, 1, Len(t)) = t /\ 1 + 1 = 2
      BY <3>1
    <3>4. Tail(t) = SubSeq(t, 2, Len(t)) /\ Head(t) = t[1]
      BY <1>6, TailIsSubSeq
    <3>5. Head(t) \in S /\ Tail(t) \in Seq(S)
      BY <1>6, HeadTailProperties
    <3>6. t = <<Head(t)>> \o Tail(t)
      BY <3>2, <3>3, <3>4
    <3> QED BY <2>1, <3>5, <3>6
  <2>3. Append(s, h) = s \o <<h>>
    BY <2>2
  <2>4. (s \o <<h>>) \o b = s \o (<<h>> \o b)
    BY <2>2, ConcatAssociative
  <2>5. s \o (<<h>> \o b) = s \o t
    BY <2>2
  <2>6. Append(s, h) \o b = s \o t
    BY <2>3, <2>4, <2>5, Zenon
  <2> QED BY <2>1, <2>6, Zenon
<1>7. <<>> \o t = t /\ s \o <<>> = s
  BY ConcatEmptySeq
<1> QED BY <1>1, <1>5, <1>6, <1>7, Zenon

(* A plan with its first job still to write.                                *)
LEMMA NothingWritten ==
    ASSUME NEW S, NEW t \in Seq(S) PROVE Begins(<<>>, t) /\ <<>> \o t = t
<1>1. <<>> \in Seq(S)
  OBVIOUS
<1>2. Begins(<<>>, <<>> \o t) /\ <<>> \o t = t
  BY <1>1, WrittenOn
<1> QED BY <1>2

(* The plans after a step that keeps what each run asks for.                *)
LEMMA PlanningLater ==
    ASSUME DOMAIN runs' = DOMAIN runs, DOMAIN evidence' = DOMAIN evidence,
           \A k \in DOMAIN runs : runs'[k].evaluators = runs[k].evaluators,
           \A k \in DOMAIN runs :
             \E D \in SUBSET DOMAIN evidence :
               /\ Begins(jobs'[k], PlannedBy(k, D))
               /\ runs'[k].status # "queued" => jobs'[k] = PlannedBy(k, D)
               /\ \A v \in SweepSlots : task'[v].pc = "jobs" /\ task'[v].run = k =>
                    PlannedBy(k, D) = jobs'[k] \o task'[v].todo
    PROVE  PlanningInv'
<1> SUFFICES ASSUME NEW k \in DOMAIN runs'
             PROVE  \E D \in SUBSET DOMAIN evidence' :
                      /\ Begins(jobs'[k], Plan(k, runs'[k].evaluators, D))
                      /\ runs'[k].status # "queued" => jobs'[k] = Plan(k, runs'[k].evaluators, D)
                      /\ \A w \in SweepSlots : task'[w].pc = "jobs" /\ task'[w].run = k =>
                           Plan(k, runs'[k].evaluators, D) = jobs'[k] \o task'[w].todo
  BY Zenon DEF PlanningInv, PlannedBy
<1>1. k \in DOMAIN runs
  OBVIOUS
<1>2. PICK D \in SUBSET DOMAIN evidence :
        /\ Begins(jobs'[k], PlannedBy(k, D))
        /\ runs'[k].status # "queued" => jobs'[k] = PlannedBy(k, D)
        /\ \A v \in SweepSlots : task'[v].pc = "jobs" /\ task'[v].run = k =>
             PlannedBy(k, D) = jobs'[k] \o task'[v].todo
  BY <1>1, Zenon
<1>3. runs'[k].evaluators = runs[k].evaluators
  BY <1>1
<1>4. Plan(k, runs'[k].evaluators, D) = PlannedBy(k, D)
  BY <1>3, Zenon DEF PlannedBy
<1>5. D \in SUBSET DOMAIN evidence'
  OBVIOUS
<1>6. /\ Begins(jobs'[k], Plan(k, runs'[k].evaluators, D))
      /\ runs'[k].status # "queued" => jobs'[k] = Plan(k, runs'[k].evaluators, D)
      /\ \A w \in SweepSlots : task'[w].pc = "jobs" /\ task'[w].run = k =>
           Plan(k, runs'[k].evaluators, D) = jobs'[k] \o task'[w].todo
  <2> DEFINE J == jobs'[k]
             P == PlannedBy(k, D)
             Q == Plan(k, runs'[k].evaluators, D)
  <2>1. Begins(J, P)
    BY <1>2
  <2>2. runs'[k].status # "queued" => J = P
    BY <1>2
  <2>3. \A w \in SweepSlots : task'[w].pc = "jobs" /\ task'[w].run = k => P = J \o task'[w].todo
    BY <1>2
  <2>4. Q = P
    BY <1>4
  <2> HIDE DEF J, P, Q
  <2>5. /\ Begins(J, Q)
        /\ runs'[k].status # "queued" => J = Q
        /\ \A w \in SweepSlots : task'[w].pc = "jobs" /\ task'[w].run = k => Q = J \o task'[w].todo
    BY <2>1, <2>2, <2>3, <2>4
  <2> QED BY <2>5 DEF J, Q
<1> QED BY <1>5, <1>6, Zenon

(* A step that writes no job, starts no run and touches no request that     *)
(* writes jobs keeps every plan.                                            *)
LEMMA PlansKept ==
    ASSUME PlanningInv, UNCHANGED jobs, DOMAIN runs' = DOMAIN runs,
           DOMAIN evidence \subseteq DOMAIN evidence',
           \A k \in DOMAIN runs : runs'[k].evaluators = runs[k].evaluators,
           \A k \in DOMAIN runs : runs[k].status = "queued" => runs'[k].status = "queued",
           \A w \in SweepSlots : task'[w].pc = "jobs" => task'[w] = task[w]
    PROVE  PlanningInv'
<1> SUFFICES ASSUME NEW k \in DOMAIN runs
             PROVE  \E D \in SUBSET DOMAIN evidence' :
                      /\ Begins(jobs'[k], Plan(k, runs'[k].evaluators, D))
                      /\ runs'[k].status # "queued" => jobs'[k] = Plan(k, runs'[k].evaluators, D)
                      /\ \A w \in SweepSlots : task'[w].pc = "jobs" /\ task'[w].run = k =>
                           Plan(k, runs'[k].evaluators, D) = jobs'[k] \o task'[w].todo
  BY Zenon DEF PlanningInv, PlannedBy
<1>1. PICK D \in SUBSET DOMAIN evidence :
        /\ Begins(jobs[k], PlannedBy(k, D))
        /\ runs[k].status # "queued" => jobs[k] = PlannedBy(k, D)
        /\ \A w \in SweepSlots : task[w].pc = "jobs" /\ task[w].run = k =>
             PlannedBy(k, D) = jobs[k] \o task[w].todo
  BY Zenon DEF PlanningInv
<1>2. jobs'[k] = jobs[k]
  OBVIOUS
<1>3. PICK P : P = PlannedBy(k, D)
  OBVIOUS
<1>4. Plan(k, runs'[k].evaluators, D) = P
  BY <1>3, Zenon DEF PlannedBy
<1>5. D \in SUBSET DOMAIN evidence'
  OBVIOUS
<1>6. Begins(jobs'[k], P)
  BY <1>1, <1>2, <1>3, Zenon
<1>7. runs'[k].status # "queued" => jobs'[k] = P
  BY <1>1, <1>2, <1>3, Zenon
<1>8. \A w \in SweepSlots : task'[w].pc = "jobs" /\ task'[w].run = k =>
        P = jobs'[k] \o task'[w].todo
  BY <1>1, <1>2, <1>3, Zenon
<1> QED BY <1>4, <1>5, <1>6, <1>7, <1>8, Zenon

(* A status saved in the row of a run that is under way.                    *)
LEMMA StatusSaved ==
    ASSUME SweepTypeInv, NEW w \in SweepSlots, task[w].pc \in {"cancel", "worker"}, NEW s,
           runs' = [runs EXCEPT ![task[w].run].status = s]
    PROVE  /\ DOMAIN runs' = DOMAIN runs
           /\ \A j \in DOMAIN runs : runs'[j].evaluators = runs[j].evaluators
           /\ \A j \in DOMAIN runs : runs[j].status = "queued" => runs'[j].status = "queued"
<1>1. PICK k : k = task[w].run
  OBVIOUS
<1>2. k \in DOMAIN runs /\ runs[k].answered
  BY <1>1 DEF SweepTypeInv, TaskOK
<1>3. runs[k] \in RunRow /\ runs \in Seq(RunRow)
  BY <1>2 DEF SweepTypeInv
<1>4. PICK row : row = [runs[k] EXCEPT !.status = s]
  OBVIOUS
<1>5. row.evaluators = runs[k].evaluators
  BY <1>3, <1>4 DEF RunRow
<1>6. runs' = [runs EXCEPT ![k] = row]
  BY <1>1, <1>4
<1>7. DOMAIN runs' = DOMAIN runs /\ runs'[k] = row /\ \A j \in DOMAIN runs : j # k => runs'[j] = runs[j]
  BY <1>2, <1>6
<1>8. runs[k].status # "queued"
  BY <1>2 DEF SweepTypeInv
<1> QED BY <1>5, <1>7, <1>8

(* Every step keeps the plans.                                              *)
LEMMA PlanningStep ==
    ASSUME SweepAssumption, SweepTypeInv, PlanningInv, SweepNext PROVE PlanningInv'
<1>A. /\ evidence \in Seq(EvidenceRecord) /\ runs \in Seq(RunRow)
      /\ \A k \in DOMAIN runs : runs[k].answered => runs[k].status # "queued"
      /\ Rows
      /\ \A w \in SweepSlots : TaskOK(task[w])
      /\ DOMAIN task = SweepSlots
  BY DEF SweepTypeInv
<1>B. ASSUME UNCHANGED <<jobs, runs>>, DOMAIN evidence \subseteq DOMAIN evidence',
             \A w \in SweepSlots : task'[w].pc = "jobs" => task'[w] = task[w]
      PROVE  PlanningInv'
  BY <1>B, PlansKept
<1>C. ASSUME NEW w \in SweepSlots, NEW t, task' = [task EXCEPT ![w] = t], t.pc # "jobs"
      PROVE  \A v \in SweepSlots : task'[v].pc = "jobs" => task'[v] = task[v]
  BY <1>C, <1>A
<1>D. ASSUME NEW w \in SweepSlots, NEW t, task' = [task EXCEPT ![w] = t], t.pc # "jobs",
             task[w].pc \in {"cancel", "worker"}, NEW s,
             runs' = [runs EXCEPT ![task[w].run].status = s], UNCHANGED <<jobs, evidence>>
      PROVE  PlanningInv'
  <2>1. /\ DOMAIN runs' = DOMAIN runs
        /\ \A j \in DOMAIN runs : runs'[j].evaluators = runs[j].evaluators
        /\ \A j \in DOMAIN runs : runs[j].status = "queued" => runs'[j].status = "queued"
    BY <1>D, StatusSaved, Zenon
  <2>2. \A v \in SweepSlots : task'[v].pc = "jobs" => task'[v] = task[v]
    BY <1>C, <1>D
  <2> QED BY <2>1, <2>2, <1>D, PlansKept
<1>E. NoTask.pc # "jobs"
  BY DEF NoTask
<1>1. ASSUME NEW d \in DefinitionIds, NEW evaluators \in DefinitionPosts, PostDefinition(d, evaluators)
      PROVE  PlanningInv'
  BY <1>1, <1>B DEF PostDefinition
<1>2. ASSUME NEW e \in Evidence, RecordBuilt(e) PROVE PlanningInv'
  <2>1. UNCHANGED <<jobs, runs, task>>
    BY <1>2 DEF RecordBuilt
  <2>2. PICK u \in EvidenceRecord : u = Unresolved(e)
    BY Before DEF SweepAssumption
  <2>3. DOMAIN evidence \subseteq DOMAIN evidence'
    <3>1. evidence' = Append(evidence, u)
      BY <1>2, <2>2 DEF RecordBuilt
    <3> HIDE DEF EvidenceRecord
    <3> QED BY <3>1, <1>A
  <2> QED BY <2>1, <2>3, <1>B
<1>3. ASSUME NEW e \in Evidence, NEW k \in DOMAIN evidence, RecordResolved(k, e) PROVE PlanningInv'
  <2>1. UNCHANGED <<jobs, runs, task>> /\ DOMAIN evidence' = DOMAIN evidence
    BY <1>3, <1>A DEF RecordResolved
  <2> QED BY <2>1, <1>B
<1>4. ASSUME NEW w \in SweepSlots, NEW d, ReadDefinition(w, d) PROVE PlanningInv'
  <2>1. PICK t : t = [pc |-> "list", evaluators |-> definitions[d], definition |-> d]
    OBVIOUS
  <2>2. t.pc # "jobs"
    BY <2>1
  <2>3. task' = [task EXCEPT ![w] = t] /\ UNCHANGED <<jobs, runs, evidence>>
    BY <1>4, <2>1 DEF ReadDefinition, Becomes
  <2> QED BY <2>2, <2>3, <1>B, <1>C
<1>5. ASSUME NEW w \in SweepSlots, NEW k \in DOMAIN runs, Rerun(w, k) PROVE PlanningInv'
  BY <1>4, <1>5 DEF Rerun
<1>6. ASSUME NEW w \in SweepSlots, ListRecords(w) PROVE PlanningInv'
  <2>1. PICK t : t = [pc |-> "run", evaluators |-> task[w].evaluators,
                      definition |-> task[w].definition, ders |-> DOMAIN evidence]
    OBVIOUS
  <2>2. t.pc # "jobs"
    BY <2>1
  <2>3. task' = [task EXCEPT ![w] = t] /\ UNCHANGED <<jobs, runs, evidence>>
    BY <1>6, <2>1 DEF ListRecords, Becomes
  <2> QED BY <2>2, <2>3, <1>B, <1>C
<1>7. ASSUME NEW w \in SweepSlots, CreateRun(w) PROVE PlanningInv'
  <2>1. PICK n, evaluators, ders : n = Len(runs) + 1 /\ evaluators = task[w].evaluators
                                   /\ ders = task[w].ders
    OBVIOUS
  <2>2. ders \in SUBSET DOMAIN evidence
    BY <1>7, <2>1, <1>A DEF CreateRun, TaskOK
  <2>3. PICK row : row = [definition |-> task[w].definition, status |-> "queued",
                          evaluators |-> evaluators, answered |-> FALSE]
    OBVIOUS
  <2>4. row.status = "queued" /\ row.evaluators = evaluators
    BY <2>3
  <2>5. runs' = Append(runs, row) /\ UNCHANGED <<jobs, evidence>>
    BY <1>7, <2>1, <2>3 DEF CreateRun
  <2>6. /\ runs'[n] = row /\ n \notin DOMAIN runs /\ DOMAIN runs' = DOMAIN runs \cup {n}
        /\ \A k \in DOMAIN runs : runs'[k] = runs[k]
    <3>1. PICK S : S = RunRow \cup {row}
      OBVIOUS
    <3>2. runs \in Seq(S) /\ row \in S
      BY <3>1, <1>A
    <3> QED BY <2>1, <2>5, <3>2
  <2>7. PICK todo : todo = Plan(n, evaluators, ders)
    OBVIOUS
  <2>8. PICK t : t = [pc |-> "jobs", run |-> n, todo |-> todo]
    OBVIOUS
  <2>9. task' = [task EXCEPT ![w] = t]
    BY <1>7, <2>1, <2>7, <2>8, Zenon DEF CreateRun, Becomes
  <2>10. /\ task'[w].run = n /\ task'[w].todo = todo
         /\ \A v \in SweepSlots : v # w => task'[v] = task[v]
    BY <2>8, <2>9, <1>A
  <2>11. \A v \in SweepSlots : task[v].pc = "jobs" => task[v].run \in DOMAIN runs
    BY <1>A DEF TaskOK
  <2>12. \A k \in DOMAIN runs : jobs'[k] = jobs[k]
    BY <2>5
  <2>13. jobs'[n] = <<>>
    <3>1. n \in 1..MaxRuns
      <4>1. Len(runs) < MaxRuns
        BY <1>7 DEF CreateRun
      <4>2. Len(runs) \in Nat
        BY <1>A
      <4> QED BY <4>1, <4>2, <2>1 DEF SweepAssumption
    <3> QED BY <3>1, <2>5, <2>6, <1>A DEF Rows
  <2>16. todo \in Seq(JobRow(n, SUBSET Nat))
    <3>1. evaluators \in DefinitionPosts
      BY <1>7, <2>1, <1>A DEF CreateRun, TaskOK
    <3>2. ders \in SUBSET Nat
      BY <2>2, <1>A
    <3> QED BY <3>1, <3>2, <2>7, PlanJobs
  <2> SUFFICES ASSUME NEW k \in DOMAIN runs'
               PROVE  \E D \in SUBSET DOMAIN evidence :
                        /\ Begins(jobs'[k], Plan(k, runs'[k].evaluators, D))
                        /\ runs'[k].status # "queued" =>
                             jobs'[k] = Plan(k, runs'[k].evaluators, D)
                        /\ \A v \in SweepSlots : task'[v].pc = "jobs" /\ task'[v].run = k =>
                             Plan(k, runs'[k].evaluators, D) = jobs'[k] \o task'[v].todo
    BY <2>5, Zenon DEF PlanningInv, PlannedBy
  <2>14. CASE k = n
    <3>1. Plan(k, runs'[k].evaluators, ders) = todo
      BY <2>14, <2>4, <2>6, <2>7
    <3>2. jobs'[k] = <<>> /\ runs'[k].status = "queued"
      BY <2>14, <2>4, <2>6, <2>13
    <3>3. ASSUME NEW v \in SweepSlots, task'[v].pc = "jobs", task'[v].run = k PROVE task'[v].todo = todo
      <4>1. v = w
        BY <3>3, <2>14, <2>10, <2>11, <2>6
      <4> QED BY <4>1, <2>10
    <3>4. /\ Begins(jobs'[k], todo)
          /\ \A v \in SweepSlots : task'[v].pc = "jobs" /\ task'[v].run = k =>
               todo = jobs'[k] \o task'[v].todo
      <4>1. Begins(<<>>, todo) /\ todo = <<>> \o todo
        BY <2>16, NothingWritten
      <4> QED BY <4>1, <3>2, <3>3
    <3> QED BY <3>1, <3>2, <3>4, <2>2, Zenon
  <2>15. CASE k # n
    <3>1. k \in DOMAIN runs /\ runs'[k] = runs[k] /\ jobs'[k] = jobs[k]
      BY <2>15, <2>6, <2>12
    <3>2. PICK D \in SUBSET DOMAIN evidence :
            /\ Begins(jobs[k], PlannedBy(k, D))
            /\ runs[k].status # "queued" => jobs[k] = PlannedBy(k, D)
            /\ \A v \in SweepSlots : task[v].pc = "jobs" /\ task[v].run = k =>
                 PlannedBy(k, D) = jobs[k] \o task[v].todo
      BY <3>1, Zenon DEF PlanningInv
    <3>3. \A v \in SweepSlots : task'[v].pc = "jobs" /\ task'[v].run = k => task'[v] = task[v]
      BY <2>10, <2>15
    <3>4. PlannedBy(k, D) = Plan(k, runs'[k].evaluators, D)
      BY <3>1, Zenon DEF PlannedBy
    <3> QED BY <3>1, <3>2, <3>3, <3>4, Zenon
  <2> QED BY <2>14, <2>15
<1>8. ASSUME NEW w \in SweepSlots, CreateJob(w) PROVE PlanningInv'
  <2>1. PICK n, todo : n = task[w].run /\ todo = task[w].todo
    OBVIOUS
  <2>2. /\ DOMAIN task[w] = {"pc", "run", "todo"} /\ task[w].pc = "jobs"
        /\ n \in DOMAIN runs /\ todo \in Seq(JobRow(n, SUBSET Nat)) /\ todo # <<>>
    BY <1>8, <2>1, <1>A DEF CreateJob, TaskOK
  <2>3. n \in DOMAIN jobs /\ jobs[n] \in Seq(JobRow(n, SUBSET Nat))
    <3>1. n \in 1..MaxRuns
      BY <2>2, <1>A DEF Rows, SweepAssumption
    <3> QED BY <3>1, <1>A DEF Rows
  <2>4. PICK t : t = [task[w] EXCEPT !.todo = Tail(todo)]
    OBVIOUS
  <2>5. t.run = n /\ t.todo = Tail(todo)
    BY <2>1, <2>2, <2>4
  <2>6. task' = [task EXCEPT ![w] = t] /\ UNCHANGED <<evidence, runs>>
        /\ jobs' = [jobs EXCEPT ![n] = Append(@, Head(todo))]
    BY <1>8, <2>1, <2>4 DEF CreateJob
  <2>7. task'[w] = t /\ \A v \in SweepSlots : v # w => task'[v] = task[v]
    BY <2>6, <1>A
  <2>9. \A k \in DOMAIN runs : k # n => jobs'[k] = jobs[k]
    <3>1. DOMAIN runs \subseteq DOMAIN jobs
      BY <1>A DEF Rows, SweepAssumption
    <3> QED BY <3>1, <2>6
  <2>10. jobs'[n] = Append(jobs[n], Head(todo))
    BY <2>3, <2>6
  <2>11. \A v \in SweepSlots : task[v].pc = "jobs" /\ task[v].run = n => v = w
    BY <2>1, <2>2 DEF SweepTypeInv
  <2>12. runs[n].status = "queued"
    BY <2>1, <2>2, <1>A DEF TaskOK
  <2> SUFFICES ASSUME NEW k \in DOMAIN runs
               PROVE  \E D \in SUBSET DOMAIN evidence :
                        /\ Begins(jobs'[k], PlannedBy(k, D))
                        /\ runs[k].status # "queued" => jobs'[k] = PlannedBy(k, D)
                        /\ \A v \in SweepSlots : task'[v].pc = "jobs" /\ task'[v].run = k =>
                             PlannedBy(k, D) = jobs'[k] \o task'[v].todo
    <3>1. /\ DOMAIN runs' = DOMAIN runs /\ DOMAIN evidence' = DOMAIN evidence
          /\ \A k \in DOMAIN runs : runs'[k] = runs[k]
      BY <2>6
    <3> QED BY <3>1, PlanningLater
  <2>13. PICK D \in SUBSET DOMAIN evidence :
            /\ Begins(jobs[k], PlannedBy(k, D))
            /\ runs[k].status # "queued" => jobs[k] = PlannedBy(k, D)
            /\ \A v \in SweepSlots : task[v].pc = "jobs" /\ task[v].run = k =>
                 PlannedBy(k, D) = jobs[k] \o task[v].todo
    BY Zenon DEF PlanningInv
  <2>14. PICK P : P = PlannedBy(k, D)
    OBVIOUS
  <2>15. CASE k = n
    <3>1. P = jobs[n] \o todo
      BY <2>1, <2>2, <2>13, <2>14, <2>15
    <3>2. P = jobs'[n] \o Tail(todo) /\ Begins(jobs'[n], P)
      <4> HIDE DEF JobRow
      <4>1. /\ jobs'[n] \in Seq(JobRow(n, SUBSET Nat))
            /\ Tail(todo) \in Seq(JobRow(n, SUBSET Nat))
        BY <2>2, <2>3, <2>10
      <4>2. jobs'[n] \o Tail(todo) = jobs[n] \o todo
        BY <2>2, <2>3, <2>10, WrittenOn
      <4>3. Begins(jobs'[n], jobs'[n] \o Tail(todo))
        BY <4>1, WrittenOn
      <4> QED BY <4>2, <4>3, <3>1
    <3>3. \A v \in SweepSlots : task'[v].pc = "jobs" /\ task'[v].run = n => task'[v].todo = Tail(todo)
      BY <2>5, <2>7, <2>11
    <3>4. /\ Begins(jobs'[k], P)
          /\ \A v \in SweepSlots : task'[v].pc = "jobs" /\ task'[v].run = k =>
               P = jobs'[k] \o task'[v].todo
      BY <3>2, <3>3, <2>15
    <3> QED BY <3>4, <2>12, <2>14, <2>15, Zenon
  <2>16. CASE k # n
    <3>1. jobs'[k] = jobs[k]
      BY <2>9, <2>16
    <3>2. \A v \in SweepSlots : task'[v].pc = "jobs" /\ task'[v].run = k => task'[v] = task[v]
      BY <2>5, <2>7, <2>16
    <3> QED BY <3>1, <3>2, <2>13, Zenon
  <2> QED BY <2>15, <2>16
<1>9. ASSUME NEW w \in SweepSlots, StartRun(w) PROVE PlanningInv'
  <2>1. PICK n : n = task[w].run
    OBVIOUS
  <2>2. n \in DOMAIN runs /\ task[w].pc = "jobs" /\ task[w].todo = <<>>
    BY <1>9, <2>1, <1>A DEF StartRun, TaskOK
  <2>3. PICK row \in RunRow :
          /\ [runs EXCEPT ![n].status = "profiling", ![n].answered = TRUE] = [runs EXCEPT ![n] = row]
          /\ row.status = "profiling" /\ row.answered /\ row.evaluators = runs[n].evaluators
    BY <2>2, <1>A, StartedRow, Zenon
  <2>4. runs' = [runs EXCEPT ![n] = row]
    BY <1>9, <2>1, <2>3, Zenon DEF StartRun
  <2>5. /\ DOMAIN runs' = DOMAIN runs /\ runs'[n] = row
        /\ \A j \in DOMAIN runs : j # n => runs'[j] = runs[j]
    BY <2>2, <2>4, <1>A, RunReplaced
  <2>6. task' = [task EXCEPT ![w] = NoTask] /\ UNCHANGED <<evidence, jobs>>
    BY <1>9 DEF StartRun, Becomes
  <2>7. \A v \in SweepSlots : task'[v].pc = "jobs" => v # w /\ task'[v] = task[v]
    BY <2>6, <1>A, <1>E
  <2>8. \A v \in SweepSlots : task[v].pc = "jobs" /\ task[v].run = n => v = w
    BY <2>1, <2>2 DEF SweepTypeInv
  <2>9. \A k \in DOMAIN runs : jobs'[k] = jobs[k] /\ runs'[k].evaluators = runs[k].evaluators
    <3>1. \A k \in DOMAIN runs : jobs'[k] = jobs[k]
      BY <2>6
    <3> QED BY <3>1, <2>3, <2>5
  <2> SUFFICES ASSUME NEW k \in DOMAIN runs
               PROVE  \E D \in SUBSET DOMAIN evidence :
                        /\ Begins(jobs'[k], PlannedBy(k, D))
                        /\ runs'[k].status # "queued" => jobs'[k] = PlannedBy(k, D)
                        /\ \A v \in SweepSlots : task'[v].pc = "jobs" /\ task'[v].run = k =>
                             PlannedBy(k, D) = jobs'[k] \o task'[v].todo
    <3>1. DOMAIN evidence' = DOMAIN evidence
      BY <2>6
    <3> QED BY <3>1, <2>5, <2>9, PlanningLater
  <2>10. PICK D \in SUBSET DOMAIN evidence :
            /\ Begins(jobs[k], PlannedBy(k, D))
            /\ runs[k].status # "queued" => jobs[k] = PlannedBy(k, D)
            /\ \A v \in SweepSlots : task[v].pc = "jobs" /\ task[v].run = k =>
                 PlannedBy(k, D) = jobs[k] \o task[v].todo
    BY Zenon DEF PlanningInv
  <2>11. CASE k = n
    <3>1. PlannedBy(k, D) = jobs[k] \o task[w].todo
      BY <2>1, <2>2, <2>10, <2>11, Zenon
    <3>2. jobs[k] \o <<>> = jobs[k]
      <4>1. k \in DOMAIN jobs
        BY <1>A DEF Rows, SweepAssumption
      <4>2. PICK S : jobs[k] \in Seq(S)
        BY <4>1, <1>A DEF Rows
      <4> QED BY <4>2
    <3>3. PlannedBy(k, D) = jobs[k]
      BY <3>1, <3>2, <2>2
    <3>4. \A v \in SweepSlots : ~ (task'[v].pc = "jobs" /\ task'[v].run = k)
      BY <2>7, <2>8, <2>11, Zenon
    <3>5. Begins(jobs'[k], PlannedBy(k, D)) /\ jobs'[k] = PlannedBy(k, D)
      BY <3>3, <2>9, <2>10
    <3> QED BY <3>4, <3>5, Zenon
  <2>12. CASE k # n
    <3>1. runs'[k] = runs[k] /\ jobs'[k] = jobs[k]
      BY <2>5, <2>9, <2>12
    <3> QED BY <3>1, <2>7, <2>10, Zenon
  <2> QED BY <2>11, <2>12
<1>10. ASSUME NEW w \in SweepSlots, NEW k \in DOMAIN runs, ReadForCancel(w, k) PROVE PlanningInv'
  <2>1. PICK t : t = [pc |-> "cancel", run |-> k]
    OBVIOUS
  <2>2. task' = [task EXCEPT ![w] = t] /\ UNCHANGED <<jobs, runs, evidence>> /\ t.pc # "jobs"
    BY <1>10, <2>1 DEF ReadForCancel, Becomes
  <2> QED BY <2>2, <1>B, <1>C
<1>11. ASSUME NEW w \in SweepSlots, NEW k \in DOMAIN runs, LoadRun(w, k) PROVE PlanningInv'
  <2>1. PICK t : t = [pc |-> "worker", run |-> k, status |-> runs[k].status]
    OBVIOUS
  <2>2. task' = [task EXCEPT ![w] = t] /\ UNCHANGED <<jobs, runs, evidence>> /\ t.pc # "jobs"
    BY <1>11, <2>1 DEF LoadRun, Becomes
  <2> QED BY <2>2, <1>B, <1>C
<1>12. ASSUME NEW w \in SweepSlots, SaveCancelled(w) PROVE PlanningInv'
  BY <1>12, <1>D, <1>E DEF SaveCancelled, Becomes
<1>13. ASSUME NEW w \in SweepSlots, NEW status, CompleteRun(w, status) PROVE PlanningInv'
  BY <1>13, <1>D, <1>E DEF CompleteRun, Becomes
<1>14. ASSUME NEW w \in SweepSlots, NEW b \in Budgets, AdvanceRunStatus(w, b) PROVE PlanningInv'
  <2>1. PICK s : s = (IF check(b) THEN NextStage(task[w].status) ELSE "failed")
    OBVIOUS
  <2>2. /\ task[w].pc = "worker" /\ runs' = [runs EXCEPT ![task[w].run].status = s]
        /\ task' = [task EXCEPT ![w].status = s] /\ UNCHANGED <<evidence, jobs>>
    BY <1>14, <2>1, Zenon DEF AdvanceRunStatus
  <2>3. PICK t : t = [task[w] EXCEPT !.status = s]
    OBVIOUS
  <2>4. DOMAIN task[w] = {"pc", "run", "status"}
    BY <2>2, <1>A DEF TaskOK
  <2>5. t.pc = "worker" /\ task' = [task EXCEPT ![w] = t]
    BY <2>2, <2>3, <2>4
  <2> QED BY <2>2, <2>5, <1>D
<1>15. ASSUME NEW w \in SweepSlots, NEW j \in AllJobs, NEW p \in Parameters, NEW k \in j.ders,
              Evaluate(w, j, k, p)
       PROVE  PlanningInv'
  <2>1. PICK row : row = [run |-> j.run, der |-> k, evaluator |-> j.evaluator,
                          result |-> evaluate(j.evaluator, evidence[k], p)]
    OBVIOUS
  <2>2. PICK t : t = [pc |-> "record", der |-> k, frozen |-> evidence[k], row |-> row]
    OBVIOUS
  <2>3. task' = [task EXCEPT ![w] = t] /\ UNCHANGED <<jobs, runs, evidence>>
    BY <1>15, <2>1, <2>2, Zenon DEF Evaluate, Becomes
  <2>4. t.pc # "jobs"
    BY <2>2
  <2> QED BY <2>3, <2>4, <1>B, <1>C
<1>16. ASSUME NEW w \in SweepSlots, RecordEvaluation(w) PROVE PlanningInv'
  <2>1. PICK t : t = [pc |-> "assemble", assessment |-> Len(assessments) + 1,
                      frozen |-> task[w].frozen]
    OBVIOUS
  <2>2. task' = [task EXCEPT ![w] = t] /\ UNCHANGED <<jobs, runs, evidence>>
    BY <1>16, <2>1 DEF RecordEvaluation, Becomes
  <2>3. t.pc # "jobs"
    BY <2>1
  <2> QED BY <2>2, <2>3, <1>B, <1>C
<1>17. ASSUME NEW w \in SweepSlots, Assemble(w) \/ Fail(w) PROVE PlanningInv'
  <2>1. task' = [task EXCEPT ![w] = NoTask] /\ UNCHANGED <<jobs, runs, evidence>>
    BY <1>17, Zenon DEF Assemble, Fail, Becomes
  <2> QED BY <2>1, <1>B, <1>C, <1>E
<1> QED BY <1>1, <1>2, <1>3, <1>4, <1>5, <1>6, <1>7, <1>8, <1>9, <1>10, <1>11, <1>12, <1>13, <1>14,
           <1>15, <1>16, <1>17, Zenon DEF SweepNext

-----------------------------------------------------------------------------
(* Sweep: evaluations and candidates.                                       *)

(* A job is one of the plan of its run.                                     *)
LEMMA JobPlanned ==
    ASSUME SweepAssumption, SweepTypeInv, PlanningInv, NEW k \in DOMAIN jobs, NEW j \in JobsOf(k)
    PROVE  /\ k \in DOMAIN runs /\ j.run = k
           /\ \E D \in SUBSET DOMAIN evidence : j \in Range(PlannedBy(k, D))
<1>1. PICK s : s = jobs[k]
  OBVIOUS
<1>2. PICK i \in DOMAIN s : j = s[i]
  BY <1>1 DEF JobsOf, Range
<1>3. s \in Seq(JobRow(k, SUBSET Nat)) /\ s # <<>>
  <2>1. s \in Seq(JobRow(k, SUBSET Nat))
    BY <1>1 DEF SweepTypeInv, Rows
  <2> HIDE DEF JobRow
  <2> QED BY <2>1, <1>2
<1>4. k \in DOMAIN runs
  BY <1>1, <1>3 DEF SweepTypeInv, Rows
<1>5. j.run = k
  <2>1. j \in JobRow(k, SUBSET Nat)
    <3> HIDE DEF JobRow
    <3> QED BY <1>2, <1>3
  <2> QED BY <2>1 DEF JobRow
<1>6. PICK D \in SUBSET DOMAIN evidence : Begins(s, PlannedBy(k, D))
  BY <1>1, <1>4, Zenon DEF PlanningInv
<1>7. PICK p : p = PlannedBy(k, D)
  OBVIOUS
<1>8. p \in Seq(JobRow(k, SUBSET D))
  <2>1. {} \in SUBSET D /\ D \in SUBSET D
    OBVIOUS
  <2>2. runs[k].evaluators \in DefinitionPosts
    <3>1. runs[k] \in RunRow
      BY <1>4 DEF SweepTypeInv
    <3> QED BY <3>1 DEF RunRow
  <2> QED BY <2>1, <2>2, <1>7, PlanJobs DEF PlannedBy
<1>9. PICK n \in 0..Len(p) : s = SubSeq(p, 1, n)
  BY <1>6, <1>7 DEF Begins
<1>10. i \in DOMAIN p /\ s[i] = p[i]
  <2> HIDE DEF JobRow
  <2> QED BY <1>2, <1>8, <1>9
<1>11. j \in Range(p)
  BY <1>2, <1>10 DEF Range
<1> QED BY <1>4, <1>5, <1>7, <1>11

(* A job covers records that there are.                                     *)
LEMMA JobsCover ==
    ASSUME SweepAssumption, SweepTypeInv, PlanningInv, NEW j \in AllJobs
    PROVE  j.ders \subseteq DOMAIN evidence
<1>1. PICK k \in DOMAIN jobs : j \in JobsOf(k)
  BY DEF AllJobs
<1>2. k \in DOMAIN runs
  BY <1>1, JobPlanned
<1>3. PICK D \in SUBSET DOMAIN evidence : j \in Range(PlannedBy(k, D))
  BY <1>1, JobPlanned
<1>4. PICK evaluators \in DefinitionPosts : evaluators = runs[k].evaluators
  <2>1. runs[k] \in RunRow
    BY <1>2 DEF SweepTypeInv
  <2> QED BY <2>1 DEF RunRow
<1>5. PICK plan : plan = Plan(k, evaluators, D)
  OBVIOUS
<1>6. plan \in Seq(JobRow(k, SUBSET D))
  <2>1. {} \in SUBSET D /\ D \in SUBSET D
    OBVIOUS
  <2> QED BY <2>1, <1>5, PlanJobs
<1>7. j \in Range(plan)
  BY <1>3, <1>4, <1>5, Zenon DEF PlannedBy
<1>8. j \in JobRow(k, SUBSET D)
  <2> HIDE DEF JobRow
  <2> QED BY <1>6, <1>7 DEF Range
<1> QED BY <1>8 DEF JobRow

(* What an evaluator makes of an inferred identity is no mismatch.          *)
LEMMA NoMismatch ==
    ASSUME SweepAssumption, NEW id \in DOMAIN Contracts, NEW e, NEW p,
           evaluate(id, e, p).finding = "expected_outcome_mismatch"
    PROVE  e.method # "inferred"
<1> SUFFICES ASSUME e.method = "inferred" PROVE FALSE
  OBVIOUS
<1>0. PICK r : r = evaluate(id, e, p)
  OBVIOUS
<1>1. r.finding = "expected_outcome_mismatch"
  BY <1>0
<1>2. Skipped.finding = "none"
  BY DEF Skipped
<1>3. \A f, m : Assessed(f, m).finding = f
  BY DEF Assessed
<1>4. ExpectedOutcome(e, p) = Skipped
  BY DEF ExpectedOutcome
<1>5. MissingEvidence(e, p).finding # "expected_outcome_mismatch"
  <2>1. PICK m, n : /\ m = (~ e.resources \/ "missing" \in e.gaps \/ p.unseen_fields)
                    /\ n = (IF m \/ e.gaps # {} THEN "missing_evidence" ELSE "none")
    BY Zenon
  <2>2. MissingEvidence(e, p) = Assessed(n, m)
    BY <2>1, Zenon DEF MissingEvidence
  <2>3. n # "expected_outcome_mismatch"
    <3>1. n = "missing_evidence" \/ n = "none"
      BY <2>1, Zenon
    <3> QED BY <3>1
  <2> QED BY <2>2, <2>3, <1>3
<1>6. Replayability(e, p).finding # "expected_outcome_mismatch"
  <2>1. PICK n : n = (IF p.blocked \/ e.version < 1 \/ e.missing_artifacts
                      THEN "replayability_failure" ELSE "none")
    OBVIOUS
  <2>2. Replayability(e, p) = Assessed(n, FALSE)
    BY <2>1, Zenon DEF Replayability
  <2>3. n # "expected_outcome_mismatch"
    <3>1. n = "replayability_failure" \/ n = "none"
      BY <2>1, Zenon
    <3> QED BY <3>1
  <2>4. PICK no : no = FALSE
    OBVIOUS
  <2>5. Replayability(e, p) = Assessed(n, no)
    BY <2>2, <2>4, Zenon
  <2> QED BY <2>3, <2>5, <1>3
<1>7. CASE EvaluatorMissing(id, e) # {}
  <2>1. r = Skipped
    BY <1>0, <1>7, Zenon DEF evaluate
  <2> QED BY <2>1, <1>1, <1>2
<1>8. CASE EvaluatorMissing(id, e) = {}
  <2>0. PICK kind : kind = Contracts[id].kind
    OBVIOUS
  <2>1. kind = "missing_evidence" \/ kind = "expected_outcome" \/ kind = "replayability"
    BY <2>0 DEF SweepAssumption, EvaluatorKinds
  <2>2. r = CASE kind = "missing_evidence" -> MissingEvidence(e, p)
              [] kind = "expected_outcome" -> ExpectedOutcome(e, p)
              [] kind = "replayability" -> Replayability(e, p)
    BY <1>0, <1>8, <2>0, Zenon DEF evaluate
  <2>3. "missing_evidence" # "expected_outcome" /\ "missing_evidence" # "replayability"
        /\ "expected_outcome" # "replayability"
    OBVIOUS
  <2>4. r = MissingEvidence(e, p) \/ r = ExpectedOutcome(e, p) \/ r = Replayability(e, p)
    BY <2>1, <2>2, <2>3, Zenon
  <2> QED BY <2>4, <1>1, <1>2, <1>4, <1>5, <1>6
<1> QED BY <1>7, <1>8

(* The level that an evaluation finds without a replay.                     *)
LEMMA RankRange ==
    ASSUME NEW e \in EvidenceRecord
    PROVE  /\ LevelRank(calculate(e, FALSE, FALSE).level) \in 0..5
           /\ calculate(e, FALSE, FALSE).level \in {"E2", "E3", "E4"} =>
                LevelRank(calculate(e, FALSE, FALSE).level) >= 3
<1> DEFINE level(x) == calculate(x, FALSE, FALSE).level
<1>1. PICK n \in 0..5 : /\ level(e) = IF n = 0 THEN "" ELSE Levels[n]
                        /\ LevelRank(level(e)) = n
  BY LevelIs
<1>2. Levels[1] = "E0" /\ Levels[2] = "E1"
  BY DEF Levels
<1> HIDE DEF level
<1>3. level(e) \in {"E2", "E3", "E4"} => n >= 3
  <2>1. n = 0 \/ n = 1 \/ n = 2 \/ n >= 3
    OBVIOUS
  <2> QED BY <2>1, <1>1, <1>2
<1>4. LevelRank(level(e)) \in 0..5 /\ (level(e) \in {"E2", "E3", "E4"} => LevelRank(level(e)) >= 3)
  BY <1>1, <1>3
<1> QED BY <1>4 DEF level

(* Records are added, or resolved once; jobs and assessments are added.     *)
Grown ==
    /\ DOMAIN evidence \subseteq DOMAIN evidence'
    /\ \A k \in DOMAIN evidence : evidence'[k] \in EvidenceRecord /\ Held(evidence[k], evidence'[k])
    /\ \A k \in DOMAIN jobs : k \in DOMAIN jobs' /\ JobsOf(k) \subseteq JobsOf(k)'
    /\ DOMAIN assessments \subseteq DOMAIN assessments'
    /\ \A i \in DOMAIN assessments : assessments'[i] = assessments[i]

(* A copy of a record stays one.                                            *)
LEMMA HeldStays ==
    ASSUME SweepTypeInv, Grown, NEW k \in DOMAIN evidence, NEW f, Held(f, evidence[k])
    PROVE  Held(f, evidence'[k])
<1>1. PICK e, d : e = evidence[k] /\ d = evidence'[k]
  OBVIOUS
<1>2. e \in EvidenceRecord /\ d \in EvidenceRecord /\ Held(e, d) /\ Held(f, e)
  BY <1>1 DEF SweepTypeInv, Grown
<1>3. CASE f = e
  BY <1>1, <1>2, <1>3, Zenon
<1>4. CASE f # e
  <2>1. f \in EvidenceRecord /\ f = Unresolved(e) /\ e.trace
    BY <1>2, <1>4 DEF Held
  <2>2. e # Unresolved(d)
    <3>1. ~ Unresolved(d).trace
      BY <1>2, Before, Zenon
    <3> QED BY <3>1, <2>1
  <2>3. e = d
    BY <1>2, <2>2 DEF Held
  <2> QED BY <1>1, <1>2, <2>3, Zenon
<1> QED BY <1>3, <1>4

(* What was backed stays backed.                                            *)
LEMMA BackedStays ==
    ASSUME SweepTypeInv, Grown, NEW a, Backed(a)
    PROVE  Backed(a)'
<1>1. PICK k : k = a.der
  OBVIOUS
<1>2. k \in DOMAIN evidence /\ k \in DOMAIN evidence'
  BY <1>1 DEF Backed, Grown
<1>3. PICK e, d : e = evidence[k] /\ d = evidence'[k]
  OBVIOUS
<1>4. e \in EvidenceRecord /\ d \in EvidenceRecord /\ Held(e, d)
  BY <1>2, <1>3 DEF SweepTypeInv, Grown
<1>5. d.method = e.method
  <2>1. Unresolved(d).method = d.method
    BY <1>4, Before, Zenon
  <2> QED BY <2>1, <1>4 DEF Held
<1>6. a.result.finding = "expected_outcome_mismatch" => evidence'[k].method # "inferred"
  BY <1>1, <1>3, <1>5 DEF Backed
<1>7. /\ a.run \in DOMAIN jobs'
      /\ \E j \in JobsOf(a.run)' : j.evaluator = a.evaluator /\ a.der \in j.ders
  <2>1. PICK j \in JobsOf(a.run) : j.evaluator = a.evaluator /\ a.der \in j.ders
    BY DEF Backed
  <2>3. PICK n : n = a.run
    OBVIOUS
  <2>4. n \in DOMAIN jobs /\ j \in JobsOf(n)
    BY <2>1, <2>3 DEF Backed
  <2>5. n \in DOMAIN jobs' /\ j \in JobsOf(n)'
    BY <2>4 DEF Grown
  <2>2. a.run \in DOMAIN jobs' /\ j \in JobsOf(a.run)'
    <3>1. n \in DOMAIN jobs' /\ j \in Range(jobs'[n])
      BY <2>5 DEF JobsOf
    <3> QED BY <3>1, <2>3 DEF JobsOf
  <2> QED BY <2>1, <2>2
<1> QED BY <1>1, <1>2, <1>6, <1>7 DEF Backed

(* What a worker holds of a record stays a copy of it.                      *)
LEMMA HoldsStays ==
    ASSUME SweepTypeInv, EvaluationInv, Grown, NEW t, HoldsRecord(t)
    PROVE  HoldsRecord(t)'
<1>1. ASSUME t.pc = "record" PROVE (Backed(t.row) /\ Held(t.frozen, evidence[t.row.der]))'
  <2>1. PICK row, k : row = t.row /\ k = t.row.der
    OBVIOUS
  <2>2. Backed(row) /\ Held(t.frozen, evidence[k]) /\ k \in DOMAIN evidence
    BY <1>1, <2>1 DEF HoldsRecord, Backed
  <2>3. Backed(row)'
    BY <2>2, BackedStays
  <2>4. Held(t.frozen, evidence'[k])
    BY <2>2, HeldStays
  <2> QED BY <2>1, <2>3, <2>4
<1>2. ASSUME t.pc = "assemble"
      PROVE  (t.assessment \in DOMAIN assessments /\ Held(t.frozen, evidence[assessments[t.assessment].der]))'
  <2>1. PICK i, k : i = t.assessment /\ k = assessments[t.assessment].der
    OBVIOUS
  <2>2. i \in DOMAIN assessments /\ Held(t.frozen, evidence[k])
    BY <1>2, <2>1 DEF HoldsRecord
  <2>3. k \in DOMAIN evidence
    BY <2>1, <2>2 DEF EvaluationInv, Backed
  <2>4. Held(t.frozen, evidence'[k])
    BY <2>2, <2>3, HeldStays
  <2>5. i \in DOMAIN assessments' /\ assessments'[i] = assessments[i]
    BY <2>2 DEF Grown
  <2> QED BY <2>1, <2>4, <2>5
<1> QED BY <1>1, <1>2 DEF HoldsRecord

(* A candidate stays supported.                                             *)
LEMMA CandidateStays ==
    ASSUME SweepTypeInv, EvaluationInv, Grown, NEW c, CandidateOK(c)
    PROVE  CandidateOK(c)'
<1>1. PICK k, i : k = c.der /\ i = c.assessment
  OBVIOUS
<1>2. i \in DOMAIN assessments /\ assessments[i].der = k /\ assessments[i].result.finding = c.type
  BY <1>1 DEF CandidateOK
<1>3. i \in DOMAIN assessments' /\ assessments'[i] = assessments[i] /\ k \in DOMAIN evidence
  BY <1>2 DEF Grown, EvaluationInv, Backed
<1>4. PICK e, d : e = evidence[k] /\ d = evidence'[k]
  OBVIOUS
<1>5. e \in EvidenceRecord /\ d \in EvidenceRecord /\ Held(e, d)
  BY <1>3, <1>4 DEF SweepTypeInv, Grown
<1>6. PICK r, re, rd : /\ r = LevelRank(c.level)
                       /\ re = LevelRank(calculate(e, FALSE, FALSE).level)
                       /\ rd = LevelRank(calculate(d, FALSE, FALSE).level)
  OBVIOUS
<1>7. re <= rd
  BY <1>5, <1>6, LevelGrows, Zenon
<1>8. re \in 0..5 /\ rd \in 0..5
  BY <1>5, <1>6, RankRange, Zenon
<1>9. r \in 0..5 /\ r <= re
  BY <1>1, <1>4, <1>6, Zenon DEF CandidateOK
<1>10. r <= rd
  BY <1>7, <1>8, <1>9
<1>11. ASSUME c.lifecycle = "reviewable" PROVE d.bindings /\ ~ d.conflicted /\ r >= 3
  <2>1. e.bindings /\ ~ e.conflicted /\ r >= 3
    BY <1>1, <1>4, <1>6, <1>11, Zenon DEF CandidateOK
  <2>2. ~ Unresolved(d).bindings
    BY <1>5, Before, Zenon
  <2>3. e = d
    BY <2>1, <2>2, <1>5 DEF Held
  <2> QED BY <2>1, <2>3
<1> QED BY <1>1, <1>2, <1>3, <1>4, <1>6, <1>9, <1>10, <1>11, Zenon DEF CandidateOK

(* What a step does to the records, the jobs and the assessments.           *)
LEMMA StepGrows ==
    ASSUME SweepAssumption, SweepTypeInv, EvaluationInv, SweepNext
    PROVE  Grown
<1>A. /\ evidence \in Seq(EvidenceRecord)
      /\ Len(assessments) \in Nat
      /\ assessments = [i \in 1..Len(assessments) |-> assessments[i]]
  BY DEF SweepTypeInv, EvaluationInv
<1>B. \A k \in DOMAIN evidence : evidence[k] \in EvidenceRecord /\ Held(evidence[k], evidence[k])
  <2>1. \A k \in DOMAIN evidence : evidence[k] \in EvidenceRecord
    BY <1>A
  <2> QED BY <2>1 DEF Held
<1>C. ASSUME UNCHANGED jobs
      PROVE  \A k \in DOMAIN jobs : k \in DOMAIN jobs' /\ JobsOf(k) \subseteq JobsOf(k)'
  BY <1>C DEF JobsOf
<1>1. ASSUME UNCHANGED <<evidence, assessments>>,
             \A k \in DOMAIN jobs : k \in DOMAIN jobs' /\ JobsOf(k) \subseteq JobsOf(k)'
      PROVE  Grown
  BY <1>1, <1>B DEF Grown
<1>2. ASSUME NEW e \in Evidence, RecordBuilt(e) PROVE Grown
  <2>1. PICK u \in EvidenceRecord : u = Unresolved(e)
    BY Before DEF SweepAssumption
  <2>2. evidence' = Append(evidence, u) /\ UNCHANGED <<jobs, assessments>>
    BY <1>2, <2>1 DEF RecordBuilt
  <2>3. DOMAIN evidence \subseteq DOMAIN evidence' /\ \A k \in DOMAIN evidence : evidence'[k] = evidence[k]
    <3> HIDE DEF EvidenceRecord
    <3> QED BY <2>2, <1>A
  <2> QED BY <2>2, <2>3, <1>B, <1>C DEF Grown
<1>3. ASSUME NEW e \in Evidence, NEW n \in DOMAIN evidence, RecordResolved(n, e) PROVE Grown
  <2>1. e \in EvidenceRecord
    BY DEF SweepAssumption
  <2>2. /\ evidence' = [evidence EXCEPT ![n] = e] /\ UNCHANGED <<jobs, assessments>>
        /\ evidence[n] = Unresolved(e) /\ e.trace
    BY <1>3 DEF RecordResolved
  <2>3. /\ DOMAIN evidence' = DOMAIN evidence /\ evidence'[n] = e
        /\ \A k \in DOMAIN evidence : k # n => evidence'[k] = evidence[k]
    BY <2>2, <1>A
  <2>4. Held(evidence[n], e)
    BY <2>2, <1>B DEF Held
  <2>5. \A k \in DOMAIN evidence : evidence'[k] \in EvidenceRecord /\ Held(evidence[k], evidence'[k])
    BY <2>1, <2>3, <2>4, <1>B
  <2> QED BY <2>2, <2>3, <2>5, <1>C DEF Grown
<1>4. ASSUME NEW w \in SweepSlots, RecordEvaluation(w) PROVE Grown
  <2>1. PICK row : row = task[w].row
    OBVIOUS
  <2>2. assessments' = Append(assessments, row) /\ UNCHANGED <<evidence, jobs>>
    BY <1>4, <2>1 DEF RecordEvaluation
  <2>3. PICK S : S = {assessments[i] : i \in 1..Len(assessments)} \cup {row}
    OBVIOUS
  <2>4. assessments \in Seq(S) /\ row \in S
    BY <2>3, <1>A
  <2>5. DOMAIN assessments \subseteq DOMAIN assessments'
        /\ \A i \in DOMAIN assessments : assessments'[i] = assessments[i]
    BY <2>2, <2>4
  <2> QED BY <2>2, <2>5, <1>B, <1>C DEF Grown
<1>5. ASSUME NEW w \in SweepSlots, CreateJob(w) PROVE Grown
  <2>1. PICK n, j : n = task[w].run /\ j = Head(task[w].todo)
    OBVIOUS
  <2>2. jobs' = [jobs EXCEPT ![n] = Append(@, j)] /\ UNCHANGED <<evidence, assessments>>
    BY <2>1, <1>5 DEF CreateJob
  <2>3. ASSUME NEW k \in DOMAIN jobs PROVE k \in DOMAIN jobs' /\ JobsOf(k) \subseteq JobsOf(k)'
    <3>1. PICK s, S : s = jobs[k] /\ S = JobRow(k, SUBSET Nat) \cup {j}
      OBVIOUS
    <3>2. s \in Seq(S) /\ j \in S
      <4>1. s \in Seq(JobRow(k, SUBSET Nat))
        BY <3>1 DEF SweepTypeInv, Rows
      <4> HIDE DEF JobRow
      <4> QED BY <4>1, <3>1
    <3>3. PICK u : u = Append(s, j)
      OBVIOUS
    <3>4. DOMAIN s \subseteq DOMAIN u /\ \A i \in DOMAIN s : u[i] = s[i]
      BY <3>2, <3>3
    <3>5. Range(s) \subseteq Range(u)
      BY <3>4 DEF Range
    <3>6. DOMAIN jobs' = DOMAIN jobs /\ (jobs'[k] = s \/ jobs'[k] = u)
      BY <2>2, <3>1, <3>3
    <3> QED BY <3>1, <3>5, <3>6 DEF JobsOf
  <2> QED BY <2>2, <2>3, <1>1
<1>6. ASSUME NEW w \in SweepSlots,
             \/ \E d \in DefinitionIds : ReadDefinition(w, d)
             \/ \E k \in DOMAIN runs : Rerun(w, k) \/ ReadForCancel(w, k) \/ LoadRun(w, k)
             \/ ListRecords(w)
             \/ CreateRun(w)
             \/ StartRun(w)
             \/ SaveCancelled(w)
             \/ \E b \in Budgets : AdvanceRunStatus(w, b)
             \/ \E status \in {"completed", "completed_with_errors"} : CompleteRun(w, status)
             \/ \E j \in AllJobs, p \in Parameters : \E k \in j.ders : Evaluate(w, j, k, p)
             \/ Assemble(w)
             \/ Fail(w)
      PROVE  Grown
  <2>1. UNCHANGED <<evidence, assessments, jobs>>
    BY <1>6, Zenon DEF ReadDefinition, Rerun, ReadForCancel, LoadRun, ListRecords, CreateRun, StartRun,
       SaveCancelled, AdvanceRunStatus, CompleteRun, Evaluate, Assemble, Fail
  <2> QED BY <2>1, <1>1, <1>C
<1>7. ASSUME NEW d \in DefinitionIds, NEW evaluators \in DefinitionPosts, PostDefinition(d, evaluators)
      PROVE  Grown
  BY <1>1, <1>7, <1>C DEF PostDefinition
<1> QED BY <1>2, <1>3, <1>4, <1>5, <1>6, <1>7, Zenon DEF SweepNext

(* Every step keeps what evaluations and candidates say.                    *)
LEMMA EvaluationStep ==
    ASSUME SweepAssumption, SweepTypeInv, PlanningInv, EvaluationInv, SweepNext
    PROVE  EvaluationInv'
<1>A. Grown
  BY StepGrows
<1>B. /\ Len(assessments) \in Nat
      /\ assessments = [i \in 1..Len(assessments) |-> assessments[i]]
      /\ DOMAIN assessments = 1..Len(assessments)
      /\ DOMAIN task = SweepSlots
      /\ evidence \in Seq(EvidenceRecord)
  BY DEF SweepTypeInv, EvaluationInv
<1>C. \A i \in DOMAIN assessments : Backed(assessments[i])'
  <2>1. ASSUME NEW i \in DOMAIN assessments PROVE Backed(assessments[i])'
    <3>1. PICK a : a = assessments[i]
      OBVIOUS
    <3>2. Backed(a)
      BY <3>1 DEF EvaluationInv
    <3>3. Backed(a)'
      BY <3>2, <1>A, BackedStays
    <3>4. assessments'[i] = a
      BY <3>1, <1>A DEF Grown
    <3> QED BY <3>3, <3>4
  <2> QED BY <2>1
<1>D. \A w \in SweepSlots : task'[w] = task[w] => HoldsRecord(task[w])'
  <2>1. ASSUME NEW w \in SweepSlots, task'[w] = task[w] PROVE HoldsRecord(task[w])'
    <3>1. PICK t : t = task[w]
      OBVIOUS
    <3>2. HoldsRecord(t)
      BY <3>1 DEF EvaluationInv
    <3>3. HoldsRecord(t)'
      BY <3>2, <1>A, HoldsStays
    <3> QED BY <3>1, <3>3, <2>1
  <2> QED BY <2>1
<1>E. \A c \in assembled : CandidateOK(c)'
  <2>1. ASSUME NEW c \in assembled PROVE CandidateOK(c)'
    <3>1. CandidateOK(c)
      BY DEF EvaluationInv
    <3> QED BY <3>1, <1>A, CandidateStays
  <2> QED BY <2>1
<1>F. ASSUME UNCHANGED <<assessments, assembled>>, (\A w \in SweepSlots : HoldsRecord(task[w]))'
      PROVE  EvaluationInv'
  <2>1. (Len(assessments) \in Nat /\ assessments = [i \in 1..Len(assessments) |-> assessments[i]])'
    BY <1>B, <1>F
  <2>2. (\A i \in DOMAIN assessments : Backed(assessments[i]))'
    BY <1>C, <1>F
  <2>3. (\A c \in assembled : CandidateOK(c))'
    BY <1>E, <1>F
  <2> QED BY <2>1, <2>2, <2>3, <1>F DEF EvaluationInv
<1>G. ASSUME NEW w \in SweepSlots, NEW t, task' = [task EXCEPT ![w] = t], HoldsRecord(t)'
      PROVE  (\A v \in SweepSlots : HoldsRecord(task[v]))'
  <2>1. ASSUME NEW v \in SweepSlots PROVE HoldsRecord(task[v])'
    <3>1. CASE v = w
      <4>1. task'[v] = t
        BY <3>1, <1>B, <1>G
      <4> QED BY <4>1, <1>G
    <3>2. CASE v # w
      <4>1. task'[v] = task[v]
        BY <3>2, <1>B, <1>G
      <4> QED BY <4>1, <1>D
    <3> QED BY <3>1, <3>2
  <2> QED BY <2>1
<1>H. ASSUME NEW w \in SweepSlots, NEW t, task' = [task EXCEPT ![w] = t], t.pc \notin {"record", "assemble"},
             UNCHANGED <<assessments, assembled>>
      PROVE  EvaluationInv'
  <2>1. HoldsRecord(t)'
    BY <1>H DEF HoldsRecord
  <2> QED BY <2>1, <1>F, <1>G, <1>H
<1>I. ASSUME UNCHANGED <<task, assessments, assembled>> PROVE EvaluationInv'
  <2>1. (\A w \in SweepSlots : HoldsRecord(task[w]))'
    BY <1>D, <1>I
  <2> QED BY <2>1, <1>F, <1>I
<1>J. NoTask.pc = "free"
  BY DEF NoTask
<1>1. ASSUME NEW d \in DefinitionIds, NEW evaluators \in DefinitionPosts, PostDefinition(d, evaluators)
      PROVE  EvaluationInv'
  BY <1>1, <1>I DEF PostDefinition
<1>2. ASSUME NEW e \in Evidence, RecordBuilt(e) PROVE EvaluationInv'
  BY <1>2, <1>I DEF RecordBuilt
<1>3. ASSUME NEW e \in Evidence, NEW k \in DOMAIN evidence, RecordResolved(k, e) PROVE EvaluationInv'
  BY <1>3, <1>I DEF RecordResolved
<1>4. ASSUME NEW w \in SweepSlots, NEW d, ReadDefinition(w, d) PROVE EvaluationInv'
  <2>1. PICK t : t = [pc |-> "list", evaluators |-> definitions[d], definition |-> d]
    OBVIOUS
  <2>2. t.pc = "list"
    BY <2>1
  <2>3. task' = [task EXCEPT ![w] = t] /\ UNCHANGED <<assessments, assembled>>
    BY <1>4, <2>1 DEF ReadDefinition, Becomes
  <2> QED BY <2>2, <2>3, <1>H
<1>5. ASSUME NEW w \in SweepSlots, NEW k \in DOMAIN runs, Rerun(w, k) PROVE EvaluationInv'
  BY <1>4, <1>5 DEF Rerun
<1>6. ASSUME NEW w \in SweepSlots, ListRecords(w) PROVE EvaluationInv'
  <2>1. PICK t : t = [pc |-> "run", evaluators |-> task[w].evaluators,
                      definition |-> task[w].definition, ders |-> DOMAIN evidence]
    OBVIOUS
  <2>2. t.pc = "run"
    BY <2>1
  <2>3. task' = [task EXCEPT ![w] = t] /\ UNCHANGED <<assessments, assembled>>
    BY <1>6, <2>1 DEF ListRecords, Becomes
  <2> QED BY <2>2, <2>3, <1>H
<1>7. ASSUME NEW w \in SweepSlots, CreateRun(w) PROVE EvaluationInv'
  <2>1. PICK t : t = [pc |-> "jobs", run |-> Len(runs) + 1,
                      todo |-> Plan(Len(runs) + 1, task[w].evaluators, task[w].ders)]
    OBVIOUS
  <2>2. t.pc = "jobs"
    BY <2>1
  <2>3. task' = [task EXCEPT ![w] = t] /\ UNCHANGED <<assessments, assembled>>
    BY <1>7, <2>1, Zenon DEF CreateRun, Becomes
  <2> QED BY <2>2, <2>3, <1>H
<1>8. ASSUME NEW w \in SweepSlots, CreateJob(w) PROVE EvaluationInv'
  <2>1. PICK t : t = [task[w] EXCEPT !.todo = Tail(@)]
    OBVIOUS
  <2>2. DOMAIN task[w] = {"pc", "run", "todo"} /\ task[w].pc = "jobs"
    BY <1>8 DEF CreateJob, SweepTypeInv, TaskOK
  <2>3. t.pc = "jobs"
    BY <2>1, <2>2
  <2>4. task' = [task EXCEPT ![w] = t] /\ UNCHANGED <<assessments, assembled>>
    BY <1>8, <2>1 DEF CreateJob
  <2> QED BY <2>3, <2>4, <1>H
<1>9. ASSUME NEW w \in SweepSlots, StartRun(w) \/ SaveCancelled(w) \/ Fail(w) PROVE EvaluationInv'
  <2>1. task' = [task EXCEPT ![w] = NoTask] /\ UNCHANGED <<assessments, assembled>>
    BY <1>9, Zenon DEF StartRun, SaveCancelled, Fail, Becomes
  <2> QED BY <2>1, <1>H, <1>J
<1>10. ASSUME NEW w \in SweepSlots, NEW k \in DOMAIN runs, ReadForCancel(w, k) PROVE EvaluationInv'
  <2>1. PICK t : t = [pc |-> "cancel", run |-> k]
    OBVIOUS
  <2>2. task' = [task EXCEPT ![w] = t] /\ t.pc = "cancel" /\ UNCHANGED <<assessments, assembled>>
    BY <1>10, <2>1 DEF ReadForCancel, Becomes
  <2> QED BY <2>2, <1>H
<1>11. ASSUME NEW w \in SweepSlots, NEW k \in DOMAIN runs, LoadRun(w, k) PROVE EvaluationInv'
  <2>1. PICK t : t = [pc |-> "worker", run |-> k, status |-> runs[k].status]
    OBVIOUS
  <2>2. task' = [task EXCEPT ![w] = t] /\ t.pc = "worker" /\ UNCHANGED <<assessments, assembled>>
    BY <1>11, <2>1 DEF LoadRun, Becomes
  <2> QED BY <2>2, <1>H
<1>12. ASSUME NEW w \in SweepSlots, NEW b \in Budgets, AdvanceRunStatus(w, b) PROVE EvaluationInv'
  <2>1. PICK s : s = (IF check(b) THEN NextStage(task[w].status) ELSE "failed")
    OBVIOUS
  <2>2. /\ task[w].pc = "worker" /\ task' = [task EXCEPT ![w].status = s]
        /\ UNCHANGED <<assessments, assembled>>
    BY <1>12, <2>1, Zenon DEF AdvanceRunStatus
  <2>3. PICK t : t = [task[w] EXCEPT !.status = s]
    OBVIOUS
  <2>4. DOMAIN task[w] = {"pc", "run", "status"}
    BY <2>2 DEF SweepTypeInv, TaskOK
  <2>5. t.pc = "worker" /\ task' = [task EXCEPT ![w] = t]
    BY <2>2, <2>3, <2>4
  <2> QED BY <2>2, <2>5, <1>H
<1>13. ASSUME NEW w \in SweepSlots, NEW status, CompleteRun(w, status) PROVE EvaluationInv'
  <2>1. task' = [task EXCEPT ![w] = NoTask] /\ UNCHANGED <<assessments, assembled>>
    BY <1>13 DEF CompleteRun, Becomes
  <2> QED BY <2>1, <1>H, <1>J
<1>14. ASSUME NEW w \in SweepSlots, NEW j \in AllJobs, NEW p \in Parameters, NEW k \in j.ders,
              Evaluate(w, j, k, p)
       PROVE  EvaluationInv'
  <2>1. PICK id, e, r : id = j.evaluator /\ e = evidence[k] /\ r = evaluate(id, e, p)
    OBVIOUS
  <2>2. PICK row : row = [run |-> j.run, der |-> k, evaluator |-> id, result |-> r]
    OBVIOUS
  <2>3. PICK t : t = [pc |-> "record", der |-> k, frozen |-> e, row |-> row]
    OBVIOUS
  <2>4. task' = [task EXCEPT ![w] = t] /\ id \in DOMAIN Contracts
        /\ UNCHANGED <<assessments, assembled, evidence, jobs>>
    BY <1>14, <2>1, <2>2, <2>3, Zenon DEF Evaluate, Becomes
  <2>5. k \in DOMAIN evidence
    BY JobsCover
  <2>6. r.finding = "expected_outcome_mismatch" => e.method # "inferred"
    BY <2>1, <2>4, NoMismatch, Zenon
  <2>7. row.der = k /\ row.run = j.run /\ row.evaluator = id /\ row.result = r
    BY <2>2
  <2>8. Backed(row)
    <3>1. /\ row.run \in DOMAIN jobs /\ j \in JobsOf(row.run)
          /\ j.evaluator = row.evaluator /\ row.der \in j.ders
      <4>1. PICK n \in DOMAIN jobs : j \in JobsOf(n)
        BY DEF AllJobs
      <4>2. j.run = n
        BY <4>1, JobPlanned
      <4> QED BY <4>1, <4>2, <2>1, <2>7
    <3> QED BY <3>1, <2>1, <2>5, <2>6, <2>7 DEF Backed
  <2>9. Held(e, evidence[k])
    BY <2>1, <2>5, <1>B DEF Held
  <2>10. t.pc = "record" /\ t.row = row /\ t.frozen = e
    BY <2>3
  <2>11. HoldsRecord(t)'
    <3>1. Backed(row)'
      BY <2>8, <1>A, BackedStays
    <3>2. Held(e, evidence'[k])
      BY <2>4, <2>9
    <3> QED BY <3>1, <3>2, <2>7, <2>10 DEF HoldsRecord
  <2> QED BY <2>4, <2>11, <1>F, <1>G
<1>15. ASSUME NEW w \in SweepSlots, RecordEvaluation(w) PROVE EvaluationInv'
  <2>1. PICK row, f, n : row = task[w].row /\ f = task[w].frozen /\ n = Len(assessments) + 1
    OBVIOUS
  <2>2. PICK t : t = [pc |-> "assemble", assessment |-> n, frozen |-> f]
    OBVIOUS
  <2>3. /\ task' = [task EXCEPT ![w] = t] /\ assessments' = Append(assessments, row)
        /\ UNCHANGED <<evidence, assembled>> /\ task[w].pc = "record"
    BY <1>15, <2>1, <2>2 DEF RecordEvaluation, Becomes
  <2>4. Backed(row) /\ Held(f, evidence[row.der])
    BY <2>1, <2>3 DEF EvaluationInv, HoldsRecord
  <2>5. Backed(row)'
    BY <2>4, <1>A, BackedStays
  <2>6. PICK S : S = {assessments[i] : i \in 1..Len(assessments)} \cup {row}
    OBVIOUS
  <2>7. assessments \in Seq(S) /\ row \in S
    BY <2>6, <1>B
  <2>8. /\ assessments' \in Seq(S) /\ assessments'[n] = row /\ DOMAIN assessments' = DOMAIN assessments \cup {n}
        /\ \A i \in DOMAIN assessments : assessments'[i] = assessments[i]
    BY <2>1, <2>3, <2>7
  <2>9. (Len(assessments) \in Nat /\ assessments = [i \in 1..Len(assessments) |-> assessments[i]])'
    <3>1. PICK s : s = assessments'
      OBVIOUS
    <3>2. s \in Seq(S)
      BY <2>8, <3>1
    <3>3. Len(s) \in Nat /\ s = [i \in 1..Len(s) |-> s[i]]
      BY <3>2
    <3> QED BY <3>1, <3>3, Zenon
  <2>10. (\A i \in DOMAIN assessments : Backed(assessments[i]))'
    BY <2>5, <2>8, <1>C
  <2>11. t.pc = "assemble" /\ t.assessment = n /\ t.frozen = f
    BY <2>2
  <2>12. HoldsRecord(t)'
    <3>1. n \in DOMAIN assessments' /\ Held(f, evidence'[assessments'[n].der])
      BY <2>3, <2>4, <2>8
    <3> QED BY <3>1, <2>11 DEF HoldsRecord
  <2>13. (\A v \in SweepSlots : HoldsRecord(task[v]))'
    BY <2>3, <2>12, <1>G
  <2>14. (\A c \in assembled : CandidateOK(c))'
    BY <2>3, <1>E
  <2> QED BY <2>9, <2>10, <2>13, <2>14 DEF EvaluationInv
<1>16. ASSUME NEW w \in SweepSlots, Assemble(w) PROVE EvaluationInv'
  <2>1. PICK i, f : i = task[w].assessment /\ f = task[w].frozen
    OBVIOUS
  <2>2. task[w].pc = "assemble" /\ task' = [task EXCEPT ![w] = NoTask] /\ UNCHANGED <<assessments, evidence>>
    BY <1>16 DEF Assemble, Becomes
  <2>3. i \in DOMAIN assessments /\ Held(f, evidence[assessments[i].der])
    BY <2>1, <2>2 DEF EvaluationInv, HoldsRecord
  <2>4. PICK a, e, level : a = assessments[i] /\ e = evidence[a.der] /\ level = calculate(f, FALSE, FALSE).level
    OBVIOUS
  <2>5. PICK lifecycle : lifecycle = IF level \in {"E2", "E3", "E4"} THEN "reviewable" ELSE "needs_context"
    OBVIOUS
  <2>6. PICK c : c = [assessment |-> i, der |-> a.der, type |-> a.result.finding, level |-> level,
                      severity |-> _assess_severity(a.result), lifecycle |-> lifecycle]
    OBVIOUS
  <2>7. assembled' = assembled \/ assembled' = assembled \cup {c}
    BY <1>16, <2>1, <2>4, <2>5, <2>6, Zenon DEF Assemble
  <2>8. a.der \in DOMAIN evidence /\ e \in EvidenceRecord /\ Held(f, e) /\ f \in EvidenceRecord
    <3>1. a.der \in DOMAIN evidence
      BY <2>3, <2>4 DEF EvaluationInv, Backed
    <3> QED BY <3>1, <2>3, <2>4, <1>B DEF Held
  <2>9. /\ c.assessment = i /\ c.der = a.der /\ c.type = a.result.finding /\ c.level = level
        /\ c.lifecycle = lifecycle
    BY <2>6
  <2>10. /\ LevelRank(level) <= LevelRank(calculate(e, FALSE, FALSE).level)
         /\ LevelRank(level) >= 3 => e.bindings /\ ~ e.conflicted
    BY <2>4, <2>8, LevelGrows, Zenon
  <2>11. LevelRank(level) \in 0..5 /\ (level \in {"E2", "E3", "E4"} => LevelRank(level) >= 3)
    BY <2>4, <2>8, RankRange, Zenon
  <2>12. lifecycle = "reviewable" => LevelRank(level) >= 3
    BY <2>5, <2>11
  <2>13. CandidateOK(c)
    <3>1. c.assessment \in DOMAIN assessments /\ assessments[c.assessment] = a /\ evidence[c.der] = e
      BY <2>3, <2>4, <2>9
    <3>2. c.lifecycle = "reviewable" => e.bindings /\ ~ e.conflicted /\ LevelRank(c.level) >= 3
      BY <2>9, <2>10, <2>12
    <3> QED BY <3>1, <3>2, <2>9, <2>10, <2>11, Zenon DEF CandidateOK
  <2>14. CandidateOK(c)'
    BY <2>13, <1>A, CandidateStays
  <2>15. (\A d \in assembled : CandidateOK(d))'
    BY <2>7, <2>14, <1>E
  <2>16. (Len(assessments) \in Nat /\ assessments = [n \in 1..Len(assessments) |-> assessments[n]])'
    BY <2>2, <1>B
  <2>17. (\A n \in DOMAIN assessments : Backed(assessments[n]))'
    BY <2>2, <1>C
  <2>18. HoldsRecord(NoTask)'
    <3>1. PICK t : t = NoTask
      OBVIOUS
    <3>2. HoldsRecord(t)'
      BY <3>1, <1>J DEF HoldsRecord
    <3> QED BY <3>1, <3>2
  <2>19. (\A v \in SweepSlots : HoldsRecord(task[v]))'
    BY <2>2, <2>18, <1>G
  <2> QED BY <2>15, <2>16, <2>17, <2>19 DEF EvaluationInv
<1> QED BY <1>1, <1>2, <1>3, <1>4, <1>5, <1>6, <1>7, <1>8, <1>9, <1>10, <1>11, <1>12, <1>13, <1>14,
           <1>15, <1>16, Zenon DEF SweepNext

(* The invariant of a sweep.                                                *)
SweepInv == SweepTypeInv /\ PlanningInv /\ EvaluationInv

(* Every state of a sweep meets it.                                         *)
LEMMA SweepInvariant == SweepSpec => []SweepInv
<1>1. SweepInit => SweepInv
  <2> SUFFICES ASSUME SweepInit PROVE SweepInv
    OBVIOUS
  <2>1. SweepTypeInv
    BY SweepTypesStart, SweepAssumption
  <2>2. PlanningInv
    BY DEF SweepInit, PlanningInv
  <2>3. EvaluationInv
    <3>1. \A w \in SweepSlots : task[w] = NoTask
      BY DEF SweepInit
    <3>2. HoldsRecord(NoTask)
      <4>1. PICK t : t = NoTask
        OBVIOUS
      <4>2. HoldsRecord(t)
        BY <4>1 DEF HoldsRecord, NoTask
      <4> QED BY <4>1, <4>2
    <3>3. /\ Len(assessments) \in Nat /\ assessments = [i \in 1..Len(assessments) |-> assessments[i]]
          /\ DOMAIN assessments = {} /\ assembled = {}
      BY DEF SweepInit
    <3>4. \A w \in SweepSlots : HoldsRecord(task[w])
      BY <3>1, <3>2
    <3> QED BY <3>3, <3>4 DEF EvaluationInv
  <2> QED BY <2>1, <2>2, <2>3 DEF SweepInv
<1>2. SweepInv /\ [SweepNext]_sweepVars => SweepInv'
  <2>1. ASSUME SweepInv, SweepNext PROVE SweepInv'
    BY <2>1, SweepAssumption, SweepTypesStep, PlanningStep, EvaluationStep DEF SweepInv
  <2>2. ASSUME SweepInv, UNCHANGED sweepVars PROVE SweepInv'
    <3>1. UNCHANGED <<definitions, evidence, runs, jobs, assessments, assembled, task>>
      BY <2>2 DEF sweepVars
    <3>2. SweepTypeInv'
      BY <2>2, <3>1, SameTasks DEF SweepInv, SweepTypeInv, Rows
    <3>3. PlanningInv'
      BY <2>2, <3>1, PlansKept DEF SweepInv
    <3>4. EvaluationInv'
      BY <2>2, <3>1, Zenon DEF SweepInv, EvaluationInv, HoldsRecord, Backed, CandidateOK, JobsOf
    <3> QED BY <3>2, <3>3, <3>4 DEF SweepInv
  <2> QED BY <2>1, <2>2
<1> QED BY <1>1, <1>2, PTL DEF SweepSpec

(* A run that has left "queued" has exactly the jobs its definition asked   *)
(* for, one for each evaluator it names, in that order and all over the     *)
(* same records; one whose planning died has the first of them (planner.py: *)
(* 21-70, runner.py:22-30).                                                 *)
THEOREM PlanHolds == SweepSpec => []PlanIsWhole
<1>1. SweepInv => PlanIsWhole
  BY Zenon DEF SweepInv, PlanningInv, PlanIsWhole, PlannedBy, Begins
<1> QED BY <1>1, SweepInvariant, PTL

(* A candidate never claims more than the record's evidence supports, nor   *)
(* another finding than the assessment it was assembled from (candidates.py:*)
(* 28-63, sufficiency.py:29-101, expected_outcome.py:30-45).                *)
THEOREM CandidatesHold == SweepSpec => []CandidatesAreBacked
<1>1. SweepInv => CandidatesAreBacked
  <2> SUFFICES ASSUME SweepInv, NEW c \in assembled
               PROVE  LET a == assessments[c.assessment]
                          e == evidence[c.der]
                      IN  /\ a.der = c.der /\ a.result.finding = c.type
                          /\ \E j \in JobsOf(a.run) : j.evaluator = a.evaluator /\ c.der \in j.ders
                          /\ LevelRank(c.level) <= LevelRank(calculate(e, FALSE, FALSE).level)
                          /\ c.lifecycle = "reviewable" =>
                               e.bindings /\ ~ e.conflicted /\ LevelRank(c.level) >= 3
                          /\ c.type = "expected_outcome_mismatch" => e.method # "inferred"
    BY Zenon DEF CandidatesAreBacked
  <2>1. CandidateOK(c)
    BY DEF SweepInv, EvaluationInv
  <2>2. Backed(assessments[c.assessment])
    BY <2>1 DEF SweepInv, EvaluationInv, CandidateOK
  <2> QED BY <2>1, <2>2, Zenon DEF CandidateOK, Backed
<1> QED BY <1>1, SweepInvariant, PTL

(* The rules that the code has twice agree on every record there can be     *)
(* (sufficiency.py:29-156, planner.py:72-94, evaluators/base.py:78-93).     *)
THEOREM RulesHold == SweepSpec => []RulesAgree
<1>1. SweepInv => RulesAgree
  <2> SUFFICES ASSUME SweepInv, NEW k \in DOMAIN evidence
               PROVE  LET e == evidence[k]
                          frozen == calculate(e, FALSE, FALSE).level
                          raised == recalculate_after_verification(frozen, TRUE, TRUE)
                          anew == calculate(e, TRUE, TRUE).level
                      IN  /\ LevelRank(raised) <= LevelRank(anew)
                          /\ e.trace => raised = anew
                          /\ frozen # "E4" =>
                               Levels[LevelRank(frozen) + 1] \in calculate(e, FALSE, FALSE).failed
                          /\ \A id \in DOMAIN Contracts :
                               PlannerMissing(id, e) = {} => EvaluatorMissing(id, e) = {}
    BY Zenon DEF RulesAgree
  <2>1. evidence[k] \in EvidenceRecord
    BY DEF SweepInv, SweepTypeInv
  <2>2. PICK e \in EvidenceRecord : e = evidence[k]
    BY <2>1
  <2>3. \A id \in DOMAIN Contracts : PlannerMissing(id, e) = {} => EvaluatorMissing(id, e) = {}
    BY DEF PlannerMissing, EvaluatorMissing
  <2>4. LET frozen == calculate(e, FALSE, FALSE).level
            raised == recalculate_after_verification(frozen, TRUE, TRUE)
            anew == calculate(e, TRUE, TRUE).level
        IN  /\ LevelRank(raised) <= LevelRank(anew)
            /\ e.trace => raised = anew
            /\ frozen # "E4" => Levels[LevelRank(frozen) + 1] \in calculate(e, FALSE, FALSE).failed
    BY RaisedRight
  <2> QED BY <2>2, <2>3, <2>4, Zenon
<1> QED BY <1>1, SweepInvariant, PTL
-----------------------------------------------------------------------------
(* Sweep: the types of the rows.                                            *)

Results == [status : {"assessed", "skipped"}, finding : FindingTypes, missing : BOOLEAN]
AssessedRow(a) ==
    /\ a = [run |-> a.run, der |-> a.der, evaluator |-> a.evaluator, result |-> a.result]
    /\ a.evaluator \in DOMAIN Contracts /\ a.result \in Results
AssembledRow(c) ==
    /\ c = [assessment |-> c.assessment, der |-> c.der, type |-> c.type, level |-> c.level,
            severity |-> c.severity, lifecycle |-> c.lifecycle]
    /\ c.type # "none" /\ c.level \in Range(Levels) \cup {""}
    /\ c.severity \in {"high", "medium", "low"} /\ c.lifecycle \in {"reviewable", "needs_context"}
RowTypes ==
    /\ definitions \in [DefinitionIds -> DefinitionPosts \cup {Absent}]
    /\ \A i \in DOMAIN assessments : AssessedRow(assessments[i])
    /\ \A w \in SweepSlots : task[w].pc = "record" => AssessedRow(task[w].row)
    /\ \A c \in assembled : AssembledRow(c)
    /\ failures \in 0..MaxFailures

(* What an evaluator answers is a result.                                   *)
LEMMA EvaluationResult ==
    ASSUME SweepAssumption, NEW id \in DOMAIN Contracts, NEW e, NEW p
    PROVE  evaluate(id, e, p) \in Results
<1>1. Skipped \in Results
  BY DEF Skipped, Results, FindingTypes
<1>2. \A finding \in FindingTypes, b \in BOOLEAN : Assessed(finding, b) \in Results
  BY DEF Assessed, Results
<1>3. MissingEvidence(e, p) \in Results
  <2>1. PICK b \in BOOLEAN : b = (~ e.resources \/ "missing" \in e.gaps \/ p.unseen_fields)
    OBVIOUS
  <2>2. MissingEvidence(e, p) = Assessed(IF b \/ e.gaps # {} THEN "missing_evidence" ELSE "none", b)
    BY <2>1, Zenon DEF MissingEvidence
  <2>3. (IF b \/ e.gaps # {} THEN "missing_evidence" ELSE "none") \in FindingTypes
    BY DEF FindingTypes
  <2> QED BY <2>2, <2>3, <1>2
<1>4. ExpectedOutcome(e, p) \in Results
  <2>1. \/ ExpectedOutcome(e, p) = Skipped
        \/ \E finding \in FindingTypes : ExpectedOutcome(e, p) = Assessed(finding, FALSE)
    BY DEF ExpectedOutcome, FindingTypes
  <2> QED BY <2>1, <1>1, <1>2
<1>5. Replayability(e, p) \in Results
  <2>1. \E finding \in FindingTypes : Replayability(e, p) = Assessed(finding, FALSE)
    BY DEF Replayability, FindingTypes
  <2> QED BY <2>1, <1>2
<1>6. Contracts[id].kind \in {"missing_evidence", "expected_outcome", "replayability"}
  BY DEF SweepAssumption, EvaluatorKinds
<1> QED BY <1>1, <1>3, <1>4, <1>5, <1>6 DEF evaluate

(* A level that a record is given is a level.                               *)
LEMMA LevelGiven ==
    ASSUME NEW e \in EvidenceRecord
    PROVE  calculate(e, FALSE, FALSE).level \in Range(Levels) \cup {""}
<1>1. PICK n \in 0..5 : calculate(e, FALSE, FALSE).level = IF n = 0 THEN "" ELSE Levels[n]
  BY LevelIs
<1>2. DOMAIN Levels = 1..5
  BY DEF Levels
<1>3. ASSUME NEW i \in 1..5 PROVE Levels[i] \in Range(Levels)
  <2>1. i \in DOMAIN Levels
    BY <1>2
  <2> QED BY <2>1 DEF Range
<1>4. CASE n = 0
  BY <1>1, <1>4
<1>5. CASE n # 0
  <2>1. n \in 1..5
    BY <1>5
  <2>2. calculate(e, FALSE, FALSE).level = Levels[n]
    BY <1>1, <1>5, Zenon
  <2> QED BY <2>1, <2>2, <1>3, Zenon
<1> QED BY <1>4, <1>5

(* A slot that does not hold an evaluation.                                 *)
LEMMA RowsKept ==
    ASSUME RowTypes, SweepTypeInv, NEW w \in SweepSlots, NEW t, task' = [task EXCEPT ![w] = t],
           t.pc # "record", UNCHANGED <<definitions, assessments, assembled>>,
           failures' \in 0..MaxFailures
    PROVE  RowTypes'
<1>1. task'[w] = t /\ \A v \in SweepSlots : v # w => task'[v] = task[v]
  BY DEF SweepTypeInv
<1> QED BY <1>1 DEF RowTypes

(* The rows have their types after every step.                              *)
LEMMA RowTypesNext ==
    ASSUME SweepAssumption, SweepTypeInv, PlanningInv, EvaluationInv, RowTypes, SweepNext
    PROVE  RowTypes'
<1>A. /\ DOMAIN task = SweepSlots /\ failures \in 0..MaxFailures
      /\ evidence \in Seq(EvidenceRecord)
      /\ \A w \in SweepSlots : TaskOK(task[w])
  BY DEF SweepTypeInv, RowTypes
<1>B. ASSUME NEW w \in SweepSlots, NEW t, task' = [task EXCEPT ![w] = t], t.pc # "record",
             UNCHANGED <<definitions, assessments, assembled, failures>>
      PROVE  RowTypes'
  <2>1. failures' \in 0..MaxFailures
    BY <1>A, <1>B
  <2> QED BY <2>1, <1>B, RowsKept
<1>C. ASSUME UNCHANGED <<definitions, assessments, assembled, failures, task>> PROVE RowTypes'
  BY <1>C DEF RowTypes
<1>D. NoTask.pc = "free"
  BY DEF NoTask
<1>1. ASSUME NEW d \in DefinitionIds, NEW evaluators \in DefinitionPosts, PostDefinition(d, evaluators)
      PROVE  RowTypes'
  <2>1. /\ definitions' = [definitions EXCEPT ![d] = evaluators]
        /\ UNCHANGED <<assessments, assembled, failures, task>>
    BY <1>1 DEF PostDefinition
  <2>2. definitions' \in [DefinitionIds -> DefinitionPosts \cup {Absent}]
    BY <2>1 DEF RowTypes
  <2> QED BY <2>1, <2>2 DEF RowTypes
<1>2. ASSUME \/ \E e \in Evidence : RecordBuilt(e) \/ \E k \in DOMAIN evidence : RecordResolved(k, e)
      PROVE  RowTypes'
  BY <1>2, <1>C DEF RecordBuilt, RecordResolved
<1>3. ASSUME NEW w \in SweepSlots, NEW d, ReadDefinition(w, d) PROVE RowTypes'
  <2>1. PICK t : t = [pc |-> "list", evaluators |-> definitions[d], definition |-> d]
    OBVIOUS
  <2>2. t.pc # "record"
    BY <2>1
  <2>3. task' = [task EXCEPT ![w] = t] /\ UNCHANGED <<definitions, assessments, assembled, failures>>
    BY <1>3, <2>1 DEF ReadDefinition, Becomes
  <2> QED BY <2>2, <2>3, <1>B
<1>4. ASSUME NEW w \in SweepSlots, NEW k, Rerun(w, k) PROVE RowTypes'
  BY <1>3, <1>4 DEF Rerun
<1>5. ASSUME NEW w \in SweepSlots, ListRecords(w) PROVE RowTypes'
  <2>1. PICK t : t = [pc |-> "run", evaluators |-> task[w].evaluators,
                      definition |-> task[w].definition, ders |-> DOMAIN evidence]
    OBVIOUS
  <2>2. t.pc # "record"
    BY <2>1
  <2>3. task' = [task EXCEPT ![w] = t] /\ UNCHANGED <<definitions, assessments, assembled, failures>>
    BY <1>5, <2>1 DEF ListRecords, Becomes
  <2> QED BY <2>2, <2>3, <1>B
<1>6. ASSUME NEW w \in SweepSlots, CreateRun(w) PROVE RowTypes'
  <2>1. PICK n, todo : n = Len(runs) + 1 /\ todo = Plan(n, task[w].evaluators, task[w].ders)
    OBVIOUS
  <2>2. PICK t : t = [pc |-> "jobs", run |-> n, todo |-> todo]
    OBVIOUS
  <2>3. t.pc # "record"
    BY <2>2
  <2>4. task' = [task EXCEPT ![w] = t] /\ UNCHANGED <<definitions, assessments, assembled, failures>>
    BY <1>6, <2>1, <2>2, Zenon DEF CreateRun, Becomes
  <2> QED BY <2>3, <2>4, <1>B
<1>7. ASSUME NEW w \in SweepSlots, CreateJob(w) PROVE RowTypes'
  <2>1. PICK t : t = [task[w] EXCEPT !.todo = Tail(task[w].todo)]
    OBVIOUS
  <2>2. /\ task[w].pc = "jobs" /\ task' = [task EXCEPT ![w] = t]
        /\ UNCHANGED <<definitions, assessments, assembled, failures>>
    BY <1>7, <2>1 DEF CreateJob
  <2>3. DOMAIN task[w] = {"pc", "run", "todo"}
    BY <2>2, <1>A DEF TaskOK
  <2>4. t.pc # "record"
    BY <2>1, <2>2, <2>3
  <2> QED BY <2>2, <2>4, <1>B
<1>8. ASSUME NEW w \in SweepSlots,
             \/ StartRun(w) \/ SaveCancelled(w)
             \/ \E status \in {"completed", "completed_with_errors"} : CompleteRun(w, status)
      PROVE  RowTypes'
  <2>1. task' = [task EXCEPT ![w] = NoTask] /\ UNCHANGED <<definitions, assessments, assembled, failures>>
    BY <1>8, Zenon DEF StartRun, SaveCancelled, CompleteRun, Becomes
  <2> QED BY <2>1, <1>B, <1>D
<1>9. ASSUME NEW w \in SweepSlots, NEW k, ReadForCancel(w, k) PROVE RowTypes'
  <2>1. PICK t : t = [pc |-> "cancel", run |-> k]
    OBVIOUS
  <2>2. t.pc # "record"
    BY <2>1
  <2>3. task' = [task EXCEPT ![w] = t] /\ UNCHANGED <<definitions, assessments, assembled, failures>>
    BY <1>9, <2>1 DEF ReadForCancel, Becomes
  <2> QED BY <2>2, <2>3, <1>B
<1>10. ASSUME NEW w \in SweepSlots, NEW k, LoadRun(w, k) PROVE RowTypes'
  <2>1. PICK t : t = [pc |-> "worker", run |-> k, status |-> runs[k].status]
    OBVIOUS
  <2>2. t.pc # "record"
    BY <2>1
  <2>3. task' = [task EXCEPT ![w] = t] /\ UNCHANGED <<definitions, assessments, assembled, failures>>
    BY <1>10, <2>1 DEF LoadRun, Becomes
  <2> QED BY <2>2, <2>3, <1>B
<1>11. ASSUME NEW w \in SweepSlots, NEW b, AdvanceRunStatus(w, b) PROVE RowTypes'
  <2>1. PICK s : s = IF check(b) THEN NextStage(task[w].status) ELSE "failed"
    OBVIOUS
  <2>2. PICK t : t = [task[w] EXCEPT !.status = s]
    OBVIOUS
  <2>3. /\ task[w].pc = "worker" /\ task' = [task EXCEPT ![w] = t]
        /\ UNCHANGED <<definitions, assessments, assembled, failures>>
    BY <1>11, <2>1, <2>2, Zenon DEF AdvanceRunStatus
  <2>4. DOMAIN task[w] = {"pc", "run", "status"}
    BY <2>3, <1>A DEF TaskOK
  <2>5. t.pc # "record"
    BY <2>2, <2>3, <2>4
  <2> QED BY <2>3, <2>5, <1>B
<1>12. ASSUME NEW w \in SweepSlots, NEW j \in AllJobs, NEW p \in Parameters, NEW k \in j.ders,
              Evaluate(w, j, k, p)
       PROVE  RowTypes'
  <2>1. PICK row, result : row = [run |-> j.run, der |-> k, evaluator |-> j.evaluator, result |-> result]
                           /\ result = evaluate(j.evaluator, evidence[k], p)
    OBVIOUS
  <2>2. PICK t : t = [pc |-> "record", der |-> k, frozen |-> evidence[k], row |-> row]
    OBVIOUS
  <2>3. /\ task' = [task EXCEPT ![w] = t] /\ j.evaluator \in DOMAIN Contracts
        /\ UNCHANGED <<definitions, assessments, assembled, failures>>
    BY <1>12, <2>1, <2>2, Zenon DEF Evaluate, Becomes
  <2>4. result \in Results
    BY <2>1, <2>3, EvaluationResult
  <2>5. AssessedRow(row)
    <3>1. /\ row.run = j.run /\ row.der = k /\ row.evaluator = j.evaluator /\ row.result = result
      BY <2>1
    <3>2. row = [run |-> row.run, der |-> row.der, evaluator |-> row.evaluator, result |-> row.result]
      BY <2>1, <3>1
    <3> QED BY <3>1, <3>2, <2>3, <2>4 DEF AssessedRow
  <2>6. task'[w] = t /\ \A v \in SweepSlots : v # w => task'[v] = task[v]
    BY <2>3, <1>A
  <2>7. t.row = row
    BY <2>2
  <2> QED BY <2>3, <2>5, <2>6, <2>7 DEF RowTypes
<1>13. ASSUME NEW w \in SweepSlots, RecordEvaluation(w) PROVE RowTypes'
  <2>1. PICK n, t, row : n = Len(assessments) + 1 /\ row = task[w].row
                         /\ t = [pc |-> "assemble", assessment |-> n, frozen |-> task[w].frozen]
    OBVIOUS
  <2>2. /\ task[w].pc = "record" /\ task' = [task EXCEPT ![w] = t] /\ assessments' = Append(assessments, row)
        /\ UNCHANGED <<definitions, assembled, failures>>
    BY <1>13, <2>1 DEF RecordEvaluation, Becomes
  <2>3. AssessedRow(row)
    BY <2>1, <2>2 DEF RowTypes
  <2>4. \A i \in DOMAIN assessments' : AssessedRow(assessments'[i])
    <3>1. PICK m \in Nat : m = Len(assessments) /\ assessments = [i \in 1..m |-> assessments[i]]
      BY DEF EvaluationInv
    <3>2. PICK S : S = {assessments[i] : i \in 1..m} \cup {row}
      OBVIOUS
    <3>3. assessments \in Seq(S) /\ row \in S
      <4>1. \A i \in 1..m : assessments[i] \in S
        BY <3>2
      <4>2. PICK f : f = [i \in 1..m |-> assessments[i]]
        OBVIOUS
      <4>3. f \in [1..m -> S]
        BY <4>1, <4>2
      <4>4. f \in Seq(S)
        BY <4>3
      <4> QED BY <3>1, <3>2, <4>2, <4>4
    <3>4. \A i \in DOMAIN assessments' :
            (i \in DOMAIN assessments /\ assessments'[i] = assessments[i]) \/ assessments'[i] = row
      BY <2>2, <3>3
    <3> QED BY <3>4, <2>3 DEF RowTypes
  <2>5. task'[w] = t /\ \A v \in SweepSlots : v # w => task'[v] = task[v]
    BY <2>2, <1>A
  <2>6. t.pc # "record"
    BY <2>1
  <2> QED BY <2>2, <2>4, <2>5, <2>6 DEF RowTypes
<1>14. ASSUME NEW w \in SweepSlots, Assemble(w) PROVE RowTypes'
  <2>1. PICK n, a, level : /\ n = task[w].assessment /\ a = assessments[n]
                           /\ level = calculate(task[w].frozen, FALSE, FALSE).level
    OBVIOUS
  <2>2. PICK c : c = [assessment |-> n, der |-> a.der, type |-> a.result.finding,
                      level |-> level, severity |-> _assess_severity(a.result),
                      lifecycle |-> IF level \in {"E2", "E3", "E4"} THEN "reviewable" ELSE "needs_context"]
    OBVIOUS
  <2>3. /\ task[w].pc = "assemble" /\ task' = [task EXCEPT ![w] = NoTask]
        /\ UNCHANGED <<definitions, assessments, failures>>
        /\ assembled' = (IF a.result.status # "assessed" \/ a.result.finding = "none" THEN assembled
                         ELSE assembled \cup {c})
    BY <1>14, <2>1, <2>2, Zenon DEF Assemble, Becomes
  <2>4. task[w].frozen \in EvidenceRecord
    BY <2>3 DEF EvaluationInv, HoldsRecord, Held
  <2>5. level \in Range(Levels) \cup {""}
    BY <2>1, <2>4, LevelGiven
  <2>6. _assess_severity(a.result) \in {"high", "medium", "low"}
    BY DEF _assess_severity
  <2>7. a.result.finding # "none" => AssembledRow(c)
    <3>1. /\ c.assessment = n /\ c.der = a.der /\ c.type = a.result.finding /\ c.level = level
          /\ c.severity = _assess_severity(a.result)
          /\ c.lifecycle = (IF level \in {"E2", "E3", "E4"} THEN "reviewable" ELSE "needs_context")
      BY <2>2
    <3>2. c = [assessment |-> c.assessment, der |-> c.der, type |-> c.type, level |-> c.level,
               severity |-> c.severity, lifecycle |-> c.lifecycle]
      BY <2>2, <3>1
    <3> QED BY <3>1, <3>2, <2>5, <2>6 DEF AssembledRow
  <2>8. \A x \in assembled' : AssembledRow(x)
    BY <2>3, <2>7 DEF RowTypes
  <2>9. task'[w] = NoTask /\ \A v \in SweepSlots : v # w => task'[v] = task[v]
    BY <2>3, <1>A
  <2> QED BY <2>3, <2>8, <2>9, <1>D DEF RowTypes
<1>15. ASSUME NEW w \in SweepSlots, Fail(w) PROVE RowTypes'
  <2>1. /\ failures < MaxFailures /\ failures' = failures + 1 /\ task' = [task EXCEPT ![w] = NoTask]
        /\ UNCHANGED <<definitions, assessments, assembled>>
    BY <1>15 DEF Fail, Becomes
  <2>2. failures' \in 0..MaxFailures
    BY <2>1, <1>A DEF SweepAssumption
  <2> QED BY <2>1, <2>2, <1>D, RowsKept
<1> QED BY <1>1, <1>2, <1>3, <1>4, <1>5, <1>6, <1>7, <1>8, <1>9, <1>10, <1>11, <1>12, <1>13, <1>14,
           <1>15, Zenon DEF SweepNext

(* The jobs of a run are of the kinds of its plan.                          *)
LEMMA JobsTyped ==
    ASSUME SweepAssumption, SweepTypeInv, PlanningInv, NEW j \in AllJobs
    PROVE  j \in SweepJob
<1>0. PICK k \in DOMAIN jobs : j \in JobsOf(k)
  BY DEF AllJobs
<1>1. k \in DOMAIN runs /\ k = j.run
  BY <1>0, JobPlanned
<1>3. PICK D \in SUBSET DOMAIN evidence : j \in Range(PlannedBy(k, D))
  BY <1>0, JobPlanned
<1>4. PICK evaluators \in DefinitionPosts : evaluators = runs[k].evaluators
  <2>1. runs[k] \in RunRow
    BY <1>1 DEF SweepTypeInv
  <2> QED BY <2>1 DEF RunRow
<1>5. evaluators \in Seq(EvaluatorIds)
  <2>1. evaluators \in Seq(STRING)
    BY DEF SweepAssumption
  <2>2. PICK m \in Nat : DOMAIN evaluators = 1..m /\ m = Len(evaluators)
    BY <2>1
  <2>3. \A i \in 1..m : evaluators[i] \in EvaluatorIds
    BY <2>2 DEF EvaluatorIds
  <2> QED BY <2>1, <2>2, <2>3
<1>6. Plan(k, evaluators, D) \in Seq(JobBy(k, EvaluatorIds, SUBSET DOMAIN evidence))
  BY <1>5, PlanBy
<1>7. j \in JobBy(k, EvaluatorIds, SUBSET DOMAIN evidence)
  <2>1. PICK i \in DOMAIN Plan(k, evaluators, D) : j = Plan(k, evaluators, D)[i]
    BY <1>3, <1>4 DEF PlannedBy, Range
  <2> QED BY <2>1, <1>6
<1> QED BY <1>1, <1>7 DEF JobBy, SweepJob

(* Every row of a sweep has its type and names rows that exist, whatever is *)
(* posted, built, cancelled or lost in between: a job the records and the   *)
(* evaluators of its plan, an assessment its run and its record, a          *)
(* candidate its assessment (planner.py:21-70, runner.py:22-121,            *)
(* candidates.py:28-63).                                                    *)
THEOREM SweepTypes == SweepSpec => []SweepTypeOK
<1>1. SweepInit => RowTypes
  <2> SUFFICES ASSUME SweepInit PROVE RowTypes
    OBVIOUS
  <2>1. /\ definitions = [d \in DefinitionIds |-> Absent] /\ assessments = <<>> /\ assembled = {}
        /\ failures = 0 /\ \A w \in SweepSlots : task[w].pc = "free"
    BY DEF SweepInit, NoTask
  <2>2. 0 \in 0..MaxFailures
    BY SweepAssumption DEF SweepAssumption
  <2> QED BY <2>1, <2>2 DEF RowTypes
<1>2. SweepInv /\ RowTypes /\ [SweepNext]_sweepVars => RowTypes'
  <2>1. ASSUME SweepInv, RowTypes, SweepNext PROVE RowTypes'
    BY <2>1, SweepAssumption, RowTypesNext DEF SweepInv
  <2>2. ASSUME RowTypes, UNCHANGED sweepVars PROVE RowTypes'
    BY <2>2 DEF sweepVars, RowTypes
  <2> QED BY <2>1, <2>2
<1>3. SweepInv /\ RowTypes => SweepTypeOK
  <2> SUFFICES ASSUME SweepInv, RowTypes PROVE SweepTypeOK
    OBVIOUS
  <2>1. SweepTypeInv /\ PlanningInv /\ EvaluationInv
    BY DEF SweepInv
  <2>2. definitions \in [DefinitionIds -> SweepDefinition \cup {Absent}] /\ failures \in 0..MaxFailures
    BY DEF RowTypes, SweepDefinition
  <2>3. \A k \in DOMAIN evidence : evidence[k] \in EvidenceRecord
    BY <2>1 DEF SweepTypeInv
  <2>4. Range(runs) \subseteq SweepRun
    <3>1. Statuses \subseteq RunStatuses
      <4>1. /\ Stages[1] = "profiling" /\ Stages[2] = "resolving" /\ Stages[3] = "evaluating"
            /\ Stages[4] = "assembling" /\ Stages[5] = "completed" /\ DOMAIN Stages = 1..5
        BY DEF Stages
      <4>2. {"profiling", "resolving", "evaluating", "assembling"} \subseteq {Stages[i] : i \in DOMAIN Stages}
        BY <4>1
      <4> QED BY <4>2 DEF Statuses, RunStatuses, Finished
    <3>2. \A k \in DOMAIN runs : runs[k] \in RunRow
      BY <2>1 DEF SweepTypeInv
    <3>3. \A r \in RunRow : r \in SweepRun
      BY <3>1 DEF RunRow, SweepRun
    <3> QED BY <3>2, <3>3 DEF Range
  <2>5. AllJobs \subseteq SweepJob
    BY <2>1, JobsTyped, SweepAssumption
  <2>6. \A i \in DOMAIN assessments :
          /\ assessments[i].run \in DOMAIN runs /\ assessments[i].der \in DOMAIN evidence
          /\ AssessedRow(assessments[i])
    <3> SUFFICES ASSUME NEW i \in DOMAIN assessments
                 PROVE  assessments[i].run \in DOMAIN runs /\ assessments[i].der \in DOMAIN evidence
      BY DEF RowTypes
    <3>1. Backed(assessments[i])
      BY <2>1 DEF EvaluationInv
    <3>2. PICK n \in DOMAIN jobs : n = assessments[i].run /\ JobsOf(n) # {}
      BY <3>1 DEF Backed
    <3>3. n \in DOMAIN runs
      BY <3>2, <2>1, JobPlanned, SweepAssumption
    <3> QED BY <3>1, <3>2, <3>3 DEF Backed
  <2>7. Range(assessments) \subseteq AssessmentRecord
    <3>1. \A i \in DOMAIN assessments : assessments[i] \in AssessmentRecord
      BY <2>6 DEF AssessedRow, AssessmentRecord, Results
    <3> QED BY <3>1 DEF Range
  <2>8. assembled \subseteq AssuranceCandidate
    <3> SUFFICES ASSUME NEW c \in assembled PROVE c \in AssuranceCandidate
      OBVIOUS
    <3>1. PICK i \in DOMAIN assessments :
            i = c.assessment /\ assessments[i].der = c.der /\ assessments[i].result.finding = c.type
      BY <2>1 DEF EvaluationInv, CandidateOK
    <3>2. c.der \in DOMAIN evidence /\ c.type \in FindingTypes
      BY <3>1, <2>6 DEF AssessedRow, Results
    <3>3. AssembledRow(c)
      BY DEF RowTypes
    <3> QED BY <3>1, <3>2, <3>3 DEF AssembledRow, AssuranceCandidate
  <2> QED BY <2>2, <2>3, <2>4, <2>5, <2>7, <2>8 DEF SweepTypeOK
<1> QED BY <1>1, <1>2, <1>3, SweepInvariant, PTL DEF SweepSpec

-----------------------------------------------------------------------------
(* CassetteReplay.                                                          *)

(* What the i-th element of a recording adds to its entries.                *)
Plays(elements, i) == elements[i].kind \in {"http", "tool_call", "api_response"}
Asks(elements, i) == IF elements[i].request = NoRequest THEN Nowhere ELSE elements[i].request
Extends(f, elements, i) ==
    IF i = 0 THEN <<>> ELSE IF ~ Plays(elements, i) THEN f[i - 1]
    ELSE Append(f[i - 1], Asks(elements, i))
Builds(f, elements, n) == f = [i \in 0..n |-> Extends(f, elements, i)]

(* A property of the first lengths of a list that holds of none and is      *)
(* passed on holds of all: the least length without it is not there.        *)
LEMMA ToTheEnd ==
    ASSUME NEW n \in Nat, NEW S \in SUBSET (0..n), 0 \in S,
           \A i \in 1..n : i - 1 \in S => i \in S
    PROVE  S = 0..n
<1> SUFFICES ASSUME S # 0..n PROVE FALSE
  OBVIOUS
<1> DEFINE Rest == (0..n) \ S
<1>1. Rest # {} /\ Rest \subseteq Nat
  <2>1. \A x \in S : x \in 0..n
    OBVIOUS
  <2>2. \E x \in 0..n : x \notin S
    BY <2>1, Zenon
  <2> QED BY <2>2
<1>2. PICK m \in Rest : \A x \in Rest : m <= x
  BY <1>1, LeastNat
<1>3. m \in 1..n /\ m - 1 \in 0..n /\ ~ (m <= m - 1)
  BY <1>2
<1>4. m - 1 \in S
  BY <1>2, <1>3
<1> QED BY <1>2, <1>3, <1>4

(* The recursion that collects the entries has a solution.                  *)
LEMMA EntriesExist ==
    ASSUME NEW elements, NEW n \in Nat
    PROVE  \E f : Builds(f, elements, n)
<1> DEFINE S == {m \in 0..n : \E f : Builds(f, elements, m)}
<1>1. 0 \in S
  <2>1. PICK f : f = [i \in 0..0 |-> <<>>]
    OBVIOUS
  <2>2. \A i \in 0..0 : Extends(f, elements, i) = <<>>
    BY DEF Extends
  <2>3. Builds(f, elements, 0)
    BY <2>1, <2>2, Zenon DEF Builds
  <2> QED BY <2>3
<1>2. ASSUME NEW m \in 1..n, m - 1 \in S
      PROVE  m \in S
  <2>1. PICK f : Builds(f, elements, m - 1)
    BY <1>2
  <2>2. PICK g : g = [i \in 0..m |-> IF i = m THEN Extends(f, elements, m) ELSE f[i]]
    OBVIOUS
  <2>3. ASSUME NEW i \in 0..m PROVE g[i] = Extends(g, elements, i)
    <3>1. CASE i = m
      <4>1. m # 0 /\ m - 1 \in 0..m /\ m - 1 # m
        OBVIOUS
      <4>2. g[m - 1] = f[m - 1]
        BY <2>2, <4>1
      <4>3. g[m] = Extends(f, elements, m)
        BY <2>2
      <4> QED BY <3>1, <4>1, <4>2, <4>3 DEF Extends
    <3>2. CASE i # m
      <4>1. i \in 0..(m - 1) /\ g[i] = f[i]
        BY <2>2, <3>2
      <4>2. f[i] = Extends(f, elements, i)
        BY <2>1, <4>1 DEF Builds
      <4>3. i # 0 => i - 1 \in 0..m /\ i - 1 # m
        BY <4>1
      <4>4. i # 0 => g[i - 1] = f[i - 1]
        BY <2>2, <4>3
      <4> QED BY <4>1, <4>2, <4>4 DEF Extends
    <3> QED BY <3>1, <3>2
  <2>4. DOMAIN g = 0..m
    BY <2>2
  <2>5. g = [i \in 0..m |-> Extends(g, elements, i)]
    <3>1. g = [i \in 0..m |-> g[i]]
      BY <2>2
    <3> QED BY <2>3, <3>1
  <2> QED BY <2>5 DEF Builds
<1>3. S = 0..n
  <2> HIDE DEF S
  <2>1. S \in SUBSET (0..n)
    BY DEF S
  <2> QED BY <1>1, <1>2, <2>1, ToTheEnd
<1> QED BY <1>3

(* The entries are the requests of elements of the recording.               *)
LEMMA EntriesAre ==
    ASSUME NEW elements, NEW S, Len(elements) \in Nat,
           \A i \in 1..Len(elements) : Asks(elements, i) \in S
    PROVE  Entries(elements) \in Seq(S)
<1> DEFINE n == Len(elements)
           Played(f) == f = [i \in 0..n |->
                IF i = 0 THEN <<>>
                ELSE IF elements[i].kind \notin {"http", "tool_call", "api_response"} THEN f[i - 1]
                ELSE Append(f[i - 1],
                            IF elements[i].request = NoRequest THEN Nowhere ELSE elements[i].request)]
<1>1. \A f : Builds(f, elements, n) <=> Played(f)
  BY Zenon DEF Builds, Extends, Plays, Asks
<1>2. \E f : Played(f)
  BY <1>1, EntriesExist
<1>3. PICK g : g = CHOOSE f : Played(f)
  OBVIOUS
<1>4. Entries(elements) = g[n]
  BY <1>3, Zenon DEF Entries
<1> HIDE DEF Played
<1>5. Builds(g, elements, n)
  BY <1>1, <1>2, <1>3, Zenon
<1> DEFINE T == {i \in 0..n : g[i] \in Seq(S)}
<1>6. 0 \in T
  BY <1>5 DEF Builds, Extends
<1>7. ASSUME NEW i \in 1..n, i - 1 \in T
      PROVE  i \in T
  <2>1. i \in 0..n /\ i # 0 /\ g[i - 1] \in Seq(S) /\ Asks(elements, i) \in S
    BY <1>7
  <2>2. g[i] = Extends(g, elements, i)
    BY <1>5, <2>1 DEF Builds
  <2>3. Append(g[i - 1], Asks(elements, i)) \in Seq(S)
    BY <2>1
  <2>4. g[i] \in Seq(S)
    BY <2>1, <2>2, <2>3 DEF Extends
  <2> QED BY <2>1, <2>4
<1>8. n \in T
  <2> HIDE DEF T
  <2>1. T \in SUBSET (0..n)
    BY DEF T
  <2> QED BY <1>6, <1>7, <2>1, ToTheEnd
<1> QED BY <1>4, <1>8

(* Recordings, and what is made of them, have their requests.               *)
LEMMA RecordingAsks ==
    ASSUME CassetteAssumption, NEW r \in Recordings, NEW promoted \in BOOLEAN,
           NEW elements, elements = IF promoted THEN _snapshot_from_vr(r) ELSE r
    PROVE  /\ Len(elements) \in Nat
           /\ \A i \in 1..Len(elements) : IsCall(Asks(elements, i))
<1>1. r \in Seq(Range(r))
  BY Zenon DEF CassetteAssumption
<1>2. Len(r) \in Nat /\ DOMAIN r = 1..Len(r) /\ \A i \in 1..Len(r) : r[i] \in Range(r)
  <2>1. \A T : r \in Seq(T) => Len(r) \in Nat /\ DOMAIN r = 1..Len(r)
    OBVIOUS
  <2> QED BY <1>1, <2>1 DEF Range
<1>3. Len(elements) = Len(r)
  <2>1. DOMAIN _snapshot_from_vr(r) = 1..Len(r)
    BY <1>2, Zenon DEF _snapshot_from_vr
  <2>2. _snapshot_from_vr(r) = [i \in 1..Len(r) |-> Wrapped(sdk_element_to_event(r[i]))]
    BY <1>2, Zenon DEF _snapshot_from_vr
  <2>3. Len([i \in 1..Len(r) |-> Wrapped(sdk_element_to_event(r[i]))]) = Len(r)
    BY <1>2
  <2> QED BY <2>2, <2>3
<1>4. IsCall(Nowhere)
  BY DEF IsCall, Nowhere
<1>5. ASSUME NEW i \in 1..Len(r)
      PROVE  /\ r[i].request = NoRequest \/ IsCall(r[i].request)
             /\ elements[i].request = NoRequest \/ IsCall(elements[i].request)
  <2>1. PICK e : e = r[i]
    OBVIOUS
  <2>2. /\ e = [kind |-> e.kind, request |-> e.request, source |-> e.source]
        /\ e.request = NoRequest \/ IsCall(e.request)
    BY <1>2, <2>1, Zenon DEF CassetteAssumption
  <2>3. PICK g : g = sdk_element_to_event(e)
    OBVIOUS
  <2>4. g.request = e.request /\ DOMAIN g = {"kind", "request", "source"}
    BY <2>2, <2>3 DEF sdk_element_to_event
  <2>5. Wrapped(g).request = NoRequest \/ IsCall(Wrapped(g).request)
    BY <2>2, <2>4 DEF Wrapped, IsCall
  <2>6. promoted => elements[i] = Wrapped(g)
    BY <1>2, <2>1, <2>3 DEF _snapshot_from_vr
  <2>7. CASE promoted
    <3>1. elements[i] = Wrapped(g)
      BY <2>6, <2>7
    <3> QED BY <2>1, <2>2, <2>5, <3>1
  <2>8. CASE ~ promoted
    BY <2>1, <2>2, <2>8
  <2> QED BY <2>7, <2>8
<1> QED BY <1>2, <1>3, <1>4, <1>5 DEF Asks

(* The greatest element of a set of positions is in it.                     *)
LEMMA MaxOf ==
    ASSUME NEW n \in Nat, NEW S \in SUBSET (1..n), S # {}
    PROVE  Max(S) \in S
<1> DEFINE Most(m) == \A x \in S : m >= x
           Below == {n - x : x \in S}
<1>1. Below \subseteq Nat /\ Below # {}
  <2>1. \A x \in S : n - x \in Nat
    OBVIOUS
  <2> QED BY <2>1
<1>2. PICK d \in Below : \A x \in Below : d <= x
  BY <1>1, LeastNat
<1>3. PICK m \in S : d = n - m
  BY <1>2
<1>4. Most(m)
  <2> SUFFICES ASSUME NEW x \in S PROVE m >= x
    OBVIOUS
  <2>1. n - x \in Below
    OBVIOUS
  <2>0. x \in 1..n /\ m \in 1..n
    BY <1>3, Zenon
  <2>2. d <= n - x
    BY <1>2, <2>1
  <2> QED BY <1>3, <2>0, <2>2
<1>5. \E x \in S : Most(x)
  BY <1>3, <1>4
<1>6. Max(S) = CHOOSE x \in S : Most(x)
  BY Zenon DEF Max
<1> HIDE DEF Most
<1> QED BY <1>5, <1>6, Zenon

(* Out of order, a call is answered from a recording of its target and, if  *)
(* it has a body, of that body; a request recorded once has its own answer. *)
LEMMA SignatureAnswers ==
    ASSUME NEW entries, NEW n \in Nat, DOMAIN entries = 1..n,
           \A i \in 1..n : IsCall(entries[i]),
           NEW call, IsCall(call), NEW got, got = BySignature(entries, call)
    PROVE  /\ got \in 0..n
           /\ got # 0 =>
                /\ entries[got].target = call.target
                /\ call.body \notin {NoBody, EmptyBody} => entries[got].body = call.body
           /\ \A k \in 1..n :
                (/\ entries[k] = call
                 /\ \A j \in (1..n) \ {k} : _call_signature(entries[j]) # _call_signature(entries[k]))
                => got = k
<1> DEFINE Signed(c) == {i \in DOMAIN entries : _call_signature(entries[i]) = _call_signature(c)}
           similar == {i \in DOMAIN entries : entries[i].target = call.target /\ entries[i].body # NoBody}
<1>1. got = IF Signed(call) # {} THEN Max(Signed(call))
            ELSE IF call.body = NoBody /\ similar # {} THEN Max(Signed(entries[Min(similar)]))
            ELSE 0
  BY Zenon DEF BySignature
<1>2. \A c : Signed(c) \in SUBSET (1..n)
  OBVIOUS
<1>3. \A c : Signed(c) # {} => Max(Signed(c)) \in Signed(c)
  <2> SUFFICES ASSUME NEW c, Signed(c) # {} PROVE Max(Signed(c)) \in Signed(c)
    OBVIOUS
  <2>1. Signed(c) \in SUBSET (1..n)
    BY <1>2
  <2> HIDE DEF Signed
  <2> QED BY <2>1, MaxOf
<1>4. ASSUME NEW c, IsCall(c), NEW d, IsCall(d), _call_signature(c) = _call_signature(d)
      PROVE  /\ c.target = d.target
             /\ d.body \notin {NoBody, EmptyBody} => c.body = d.body
  <2>1. /\ _call_signature(c).target = c.target
        /\ _call_signature(c).body = IF c.body = EmptyBody THEN NoBody ELSE c.body
    BY <1>4 DEF _call_signature, IsCall
  <2>2. /\ _call_signature(d).target = d.target
        /\ _call_signature(d).body = IF d.body = EmptyBody THEN NoBody ELSE d.body
    BY <1>4 DEF _call_signature, IsCall
  <2> QED BY <1>4, <2>1, <2>2 DEF NoBody, EmptyBody
<1>5. CASE Signed(call) # {}
  <2>1. got = Max(Signed(call)) /\ got \in Signed(call)
    BY <1>1, <1>3, <1>5
  <2>2. got \in 1..n /\ _call_signature(entries[got]) = _call_signature(call)
    BY <2>1
  <2>3. IsCall(entries[got])
    BY <2>2
  <2>4. /\ entries[got].target = call.target
        /\ call.body \notin {NoBody, EmptyBody} => entries[got].body = call.body
    BY <1>4, <2>2, <2>3
  <2>5. ASSUME NEW k \in 1..n, entries[k] = call,
               \A j \in (1..n) \ {k} : _call_signature(entries[j]) # _call_signature(entries[k])
        PROVE  got = k
    BY <2>2, <2>5
  <2> QED BY <2>2, <2>4, <2>5
<1>6. CASE Signed(call) = {}
  <2>1. \A k \in 1..n : entries[k] # call
    BY <1>6
  <2>2. CASE call.body = NoBody /\ similar # {}
    <3>1. PICK m : m = Min(similar)
      OBVIOUS
    <3>2. m \in similar
      <4>1. similar \subseteq Nat
        OBVIOUS
      <4> HIDE DEF similar
      <4> QED BY <2>2, <3>1, <4>1, MinOf
    <3>3. m \in 1..n /\ entries[m].target = call.target
      BY <3>2
    <3>4. got = Max(Signed(entries[m]))
      BY <1>1, <1>6, <2>2, <3>1
    <3>5. m \in Signed(entries[m])
      BY <3>3
    <3>6. got \in Signed(entries[m])
      BY <1>3, <3>4, <3>5
    <3>7. got \in 1..n /\ _call_signature(entries[got]) = _call_signature(entries[m])
      BY <3>6
    <3>8. IsCall(entries[got]) /\ IsCall(entries[m])
      BY <3>3, <3>7
    <3>9. entries[got].target = call.target
      BY <1>4, <3>3, <3>7, <3>8
    <3> QED BY <2>1, <2>2, <3>7, <3>9
  <2>3. CASE ~ (call.body = NoBody /\ similar # {})
    <3>1. got = 0
      BY <1>1, <1>6, <2>3
    <3> QED BY <2>1, <3>1
  <2> QED BY <2>2, <2>3
<1> QED BY <1>5, <1>6

(* What a replay has found so far.  In order, as long as nothing was missed *)
(* the calls are the first entries, one by one; out of order, each answer   *)
(* is the one that its call has in the cassette.                            *)
Answer == [call : Calls, got : Nat]
FollowsOrder(c, s) ==
    s.misses = 0 =>
        /\ s.cursor = Len(s.answers)
        /\ \A i \in DOMAIN s.answers :
             s.answers[i].got = i /\ _matches(c.entries[i], s.answers[i].call)
FollowsSignatures(c, s) ==
    \A i \in DOMAIN s.answers : s.answers[i].got = BySignature(c.entries, s.answers[i].call)

ReplayInv ==
    /\ DOMAIN cassette = {"strict_order", "entries"}
    /\ cassette.strict_order \in BOOLEAN
    /\ cassette.entries \in Seq({cassette.entries[i] : i \in DOMAIN cassette.entries})
    /\ \A i \in DOMAIN cassette.entries : IsCall(cassette.entries[i])
    /\ session \in [cursor : 0..Len(cassette.entries), misses : Nat, answers : Seq(Answer)]
    /\ outcome \in {"running", "replayed", "escalation_required", "error"}
    /\ cassette.strict_order => FollowsOrder(cassette, session)
    /\ ~ cassette.strict_order => FollowsSignatures(cassette, session)
    /\ cassette.strict_order /\ outcome = "replayed" =>
         session.misses = 0 /\ session.cursor = Len(cassette.entries)

(* Both adapters have answered nothing yet.                                 *)
LEMMA ReplayStart == ASSUME CassetteAssumption, CassetteInit PROVE ReplayInv
<1>1. PICK r \in Recordings, strict \in BOOLEAN, promoted \in BOOLEAN :
        cassette = [strict_order |-> strict,
                    entries |-> Entries(IF promoted THEN _snapshot_from_vr(r) ELSE r)]
  BY DEF CassetteInit
<1>2. PICK elements : elements = IF promoted THEN _snapshot_from_vr(r) ELSE r
  OBVIOUS
<1>3. cassette = [strict_order |-> strict, entries |-> Entries(elements)]
  BY <1>1, <1>2
<1>4. Len(elements) \in Nat /\ \A i \in 1..Len(elements) : IsCall(Asks(elements, i))
  BY <1>2, RecordingAsks
<1>5. PICK S : S = {Asks(elements, i) : i \in 1..Len(elements)}
  OBVIOUS
<1>6. Entries(elements) \in Seq(S)
  BY <1>4, <1>5, EntriesAre
<1>7. PICK es \in Seq(S) : es = Entries(elements)
  BY <1>6
<1>8. \A i \in DOMAIN es : IsCall(es[i])
  <2>1. \A i \in DOMAIN es : es[i] \in S
    OBVIOUS
  <2> QED BY <1>4, <1>5, <2>1
<1>9. es \in Seq({es[i] : i \in DOMAIN es}) /\ Len(es) \in Nat
  OBVIOUS
<1>10. cassette.entries = es /\ DOMAIN cassette = {"strict_order", "entries"} /\ cassette.strict_order \in BOOLEAN
  BY <1>3, <1>7
<1>11. session = [cursor |-> 0, misses |-> 0, answers |-> <<>>] /\ outcome = "running"
  BY DEF CassetteInit, NewSession
<1>12. session \in [cursor : 0..Len(cassette.entries), misses : Nat, answers : Seq(Answer)]
  BY <1>9, <1>10, <1>11
<1>13. session.cursor = 0 /\ session.answers = <<>> /\ DOMAIN session.answers = {} /\ Len(session.answers) = 0
  BY <1>11
<1>14. FollowsOrder(cassette, session) /\ FollowsSignatures(cassette, session)
  BY <1>13 DEF FollowsOrder, FollowsSignatures
<1> QED BY <1>8, <1>9, <1>10, <1>11, <1>12, <1>14 DEF ReplayInv

(* A lookup moves both on, each by its own rule.                            *)
LEMMA ReplayLookup ==
    ASSUME CassetteAssumption, ReplayInv, NEW call \in Calls, Lookup(call)
    PROVE  ReplayInv'
<1>1. PICK got : got = lookup(call)
  OBVIOUS
<1>2. IsCall(call)
  BY Zenon DEF CassetteAssumption
<1>3. PICK es : es = cassette.entries
  OBVIOUS
<1>4. DOMAIN es = 1..Len(es) /\ Len(es) \in Nat /\ \A i \in 1..Len(es) : IsCall(es[i])
  BY <1>3 DEF ReplayInv
<1>5. BySignature(es, call) \in 0..Len(es)
  <2>1. PICK g : g = BySignature(es, call)
    OBVIOUS
  <2>2. g \in 0..Len(es)
    BY <1>2, <1>4, <2>1, SignatureAnswers
  <2> QED BY <2>1, <2>2
<1>6. PICK s : s = session
  OBVIOUS
<1>7. s \in [cursor : 0..Len(es), misses : Nat, answers : Seq(Answer)]
  BY <1>3, <1>6 DEF ReplayInv
<1>8. s.cursor \in 0..Len(es) /\ s.misses \in Nat /\ s.answers \in Seq(Answer)
  BY <1>7
<1>9. PICK strict \in BOOLEAN : strict <=> cassette.strict_order
  OBVIOUS
<1>10. /\ strict => got = InOrder(es, s.cursor, call)
       /\ ~ strict => got = BySignature(es, call)
  BY <1>1, <1>3, <1>6, <1>9, Zenon DEF lookup
<1>11. strict => \/ got = 0
                 \/ got = s.cursor + 1 /\ got \in 1..Len(es) /\ _matches(es[got], call)
  BY <1>4, <1>8, <1>10 DEF InOrder
<1>12. got \in 0..Len(es)
  BY <1>4, <1>5, <1>10, <1>11
<1>13. PICK t : t = session'
  OBVIOUS
<1>14. PICK a : a = [call |-> call, got |-> got]
  OBVIOUS
<1>15. a \in Answer /\ a.call = call /\ a.got = got
  BY <1>4, <1>12, <1>14 DEF Answer
<1>16. t = [cursor |-> IF strict /\ got # 0 THEN got ELSE s.cursor,
            misses |-> s.misses + (IF got = 0 THEN 1 ELSE 0), answers |-> Append(s.answers, a)]
  BY <1>1, <1>6, <1>9, <1>13, <1>14, Zenon DEF Lookup
<1>17. /\ t.cursor = IF strict /\ got # 0 THEN got ELSE s.cursor
       /\ t.misses = s.misses + (IF got = 0 THEN 1 ELSE 0)
       /\ t.answers = Append(s.answers, a)
  BY <1>16
<1>18. t \in [cursor : 0..Len(es), misses : Nat, answers : Seq(Answer)]
  <2>1. Append(s.answers, a) \in Seq(Answer)
    BY <1>8, <1>15
  <2> QED BY <1>8, <1>12, <1>16, <2>1
<1>19. /\ DOMAIN t.answers = 1..(Len(s.answers) + 1) /\ Len(t.answers) = Len(s.answers) + 1
       /\ Len(s.answers) \in Nat /\ DOMAIN s.answers = 1..Len(s.answers)
       /\ t.answers[Len(s.answers) + 1] = a
       /\ \A i \in DOMAIN s.answers : t.answers[i] = s.answers[i]
  BY <1>8, <1>15, <1>17
<1>20. cassette' = cassette /\ outcome' = outcome /\ outcome = "running"
  BY DEF Lookup
<1>21. strict /\ FollowsOrder(cassette, s) => FollowsOrder(cassette, t)
  <2> SUFFICES ASSUME strict, FollowsOrder(cassette, s), t.misses = 0
               PROVE  /\ t.cursor = Len(t.answers)
                      /\ \A i \in DOMAIN t.answers :
                           t.answers[i].got = i /\ _matches(es[i], t.answers[i].call)
    BY <1>3 DEF FollowsOrder
  <2>1. s.misses = 0 /\ got # 0
    BY <1>8, <1>17
  <2>2. s.cursor = Len(s.answers) /\ \A i \in DOMAIN s.answers :
             s.answers[i].got = i /\ _matches(es[i], s.answers[i].call)
    BY <1>3, <2>1 DEF FollowsOrder
  <2>3. got = Len(s.answers) + 1 /\ _matches(es[got], call)
    BY <1>11, <2>1, <2>2
  <2>4. t.cursor = Len(t.answers)
    BY <1>17, <1>19, <2>1, <2>3
  <2>5. ASSUME NEW i \in DOMAIN t.answers
        PROVE  t.answers[i].got = i /\ _matches(es[i], t.answers[i].call)
    <3>1. CASE i = Len(s.answers) + 1
      BY <1>15, <1>19, <2>3, <3>1
    <3>2. CASE i \in DOMAIN s.answers
      BY <1>19, <2>2, <3>2
    <3> QED BY <1>19, <3>1, <3>2
  <2> QED BY <2>4, <2>5
<1>22. ~ strict /\ FollowsSignatures(cassette, s) => FollowsSignatures(cassette, t)
  <2> SUFFICES ASSUME ~ strict, FollowsSignatures(cassette, s), NEW i \in DOMAIN t.answers
               PROVE  t.answers[i].got = BySignature(es, t.answers[i].call)
    BY <1>3 DEF FollowsSignatures
  <2>1. CASE i = Len(s.answers) + 1
    BY <1>10, <1>15, <1>19, <2>1
  <2>2. CASE i \in DOMAIN s.answers
    BY <1>3, <1>19, <2>2 DEF FollowsSignatures
  <2> QED BY <1>19, <2>1, <2>2
<1> HIDE DEF FollowsOrder, FollowsSignatures
<1>23. /\ session' \in [cursor : 0..Len(cassette'.entries), misses : Nat, answers : Seq(Answer)]
       /\ cassette'.strict_order => FollowsOrder(cassette', session')
       /\ ~ cassette'.strict_order => FollowsSignatures(cassette', session')
  BY <1>3, <1>6, <1>9, <1>13, <1>18, <1>20, <1>21, <1>22 DEF ReplayInv
<1> QED BY <1>20, <1>23 DEF ReplayInv

(* The invariant holds after every step.                                    *)
LEMMA ReplayStep ==
    ASSUME CassetteAssumption, ReplayInv, [CassetteNext]_cassetteVars
    PROVE  ReplayInv'
<1>1. CASE \E call \in Calls : Lookup(call)
  BY <1>1, ReplayLookup
<1>2. CASE Decide
  <2>1. session.misses \in Nat /\ session.cursor \in 0..Len(cassette.entries) /\ Len(cassette.entries) \in Nat
    BY DEF ReplayInv
  <2>2. cassette' = cassette /\ session' = session
    BY <1>2 DEF Decide
  <2>3. /\ outcome' \in {"replayed", "escalation_required"}
        /\ cassette.strict_order /\ outcome' = "replayed" =>
             ~ (session.misses > 0 \/ Len(cassette.entries) - session.cursor > 0)
    BY <1>2 DEF Decide, unconsumed_count
  <2>4. cassette.strict_order /\ outcome' = "replayed" =>
             session.misses = 0 /\ session.cursor = Len(cassette.entries)
    BY <2>1, <2>3
  <2> HIDE DEF FollowsOrder, FollowsSignatures
  <2> QED BY <2>2, <2>3, <2>4 DEF ReplayInv
<1>3. CASE Raise
  BY <1>3 DEF Raise, ReplayInv, FollowsOrder, FollowsSignatures
<1>4. CASE UNCHANGED cassetteVars
  BY <1>4 DEF cassetteVars, ReplayInv, FollowsOrder, FollowsSignatures
<1> QED BY <1>1, <1>2, <1>3, <1>4 DEF CassetteNext

(* Whatever was recorded and whatever the agent calls, a replay reports     *)
(* what was recorded (replay.py:129-146, cassette.py:63-106).               *)
THEOREM ReplayHolds == CassetteSpec => []ReplayIsFaithful
<1>1. ReplayInv => InTheirOrder
  <2> SUFFICES ASSUME ReplayInv, cassette.strict_order, outcome = "replayed"
               PROVE  /\ Len(session.answers) = Len(cassette.entries)
                      /\ \A i \in DOMAIN session.answers :
                           /\ session.answers[i].got = i
                           /\ session.answers[i].call \in {cassette.entries[i], [cassette.entries[i] EXCEPT !.body = NoBody]}
    BY DEF InTheirOrder
  <2>1. /\ session.misses = 0 /\ session.cursor = Len(cassette.entries)
        /\ FollowsOrder(cassette, session)
    BY DEF ReplayInv
  <2>2. session.answers \in Seq(Answer) /\ DOMAIN cassette.entries = 1..Len(cassette.entries)
    BY DEF ReplayInv
  <2>3. Len(session.answers) = Len(cassette.entries)
    BY <2>1 DEF FollowsOrder
  <2>4. ASSUME NEW i \in DOMAIN session.answers
        PROVE  /\ session.answers[i].got = i
               /\ session.answers[i].call \in {cassette.entries[i], [cassette.entries[i] EXCEPT !.body = NoBody]}
    <3>1. session.answers[i].got = i /\ _matches(cassette.entries[i], session.answers[i].call)
      BY <2>1 DEF FollowsOrder
    <3>2. i \in DOMAIN cassette.entries /\ session.answers[i] \in Answer
      BY <2>2, <2>3
    <3>3. IsCall(cassette.entries[i])
      BY <3>2 DEF ReplayInv
    <3>4. IsCall(session.answers[i].call)
      BY <3>2, CassetteAssumption, Zenon DEF CassetteAssumption, Answer
    <3>5. PICK e, c : e = cassette.entries[i] /\ c = session.answers[i].call
      OBVIOUS
    <3>6. e.target = c.target /\ (c.body = NoBody \/ c.body = e.body) /\ IsCall(e) /\ IsCall(c)
      BY <3>1, <3>3, <3>4, <3>5 DEF _matches
    <3>7. c = e \/ c = [e EXCEPT !.body = NoBody]
      BY <3>6 DEF IsCall
    <3> QED BY <3>1, <3>5, <3>7
  <2> QED BY <2>3, <2>4
<1>2. ReplayInv => InAnyOrder
  <2> SUFFICES ASSUME ReplayInv, ~ cassette.strict_order, NEW i \in DOMAIN session.answers
               PROVE  LET answer == session.answers[i]
                          entries == cassette.entries
                      IN  /\ \A j \in DOMAIN session.answers :
                               session.answers[j].call = answer.call => session.answers[j] = answer
                          /\ answer.got # 0 =>
                               /\ entries[answer.got].target = answer.call.target
                               /\ answer.call.body \notin {NoBody, EmptyBody} =>
                                    entries[answer.got].body = answer.call.body
                          /\ \A k \in DOMAIN entries :
                               (/\ entries[k] = answer.call
                                /\ \A n \in DOMAIN entries \ {k} :
                                     _call_signature(entries[n]) # _call_signature(entries[k]))
                                 => answer.got = k
    BY Zenon DEF InAnyOrder
  <2>1. FollowsSignatures(cassette, session) /\ session.answers \in Seq(Answer)
    BY DEF ReplayInv
  <2>2. PICK es : es = cassette.entries
    OBVIOUS
  <2>3. DOMAIN es = 1..Len(es) /\ Len(es) \in Nat /\ \A k \in 1..Len(es) : IsCall(es[k])
    BY <2>2 DEF ReplayInv
  <2>4. ASSUME NEW j \in DOMAIN session.answers
        PROVE  /\ session.answers[j] = [call |-> session.answers[j].call, got |-> session.answers[j].got]
               /\ session.answers[j].call \in Calls
               /\ session.answers[j].got = BySignature(es, session.answers[j].call)
    <3>1. session.answers[j] \in Answer
      BY <2>1
    <3> QED BY <2>1, <2>2, <3>1 DEF Answer, FollowsSignatures
  <2>5. ASSUME NEW j \in DOMAIN session.answers, session.answers[j].call = session.answers[i].call
        PROVE  session.answers[j] = session.answers[i]
    BY <2>4, <2>5
  <2>6. PICK c : c = session.answers[i].call
    OBVIOUS
  <2>7. IsCall(c) /\ session.answers[i].got = BySignature(es, c)
    BY <2>4, <2>6, CassetteAssumption, Zenon DEF CassetteAssumption
  <2>8. PICK got : got = BySignature(es, c)
    OBVIOUS
  <2>9. /\ got # 0 =>
             /\ es[got].target = c.target
             /\ c.body \notin {NoBody, EmptyBody} => es[got].body = c.body
        /\ \A k \in 1..Len(es) :
             (/\ es[k] = c
              /\ \A n \in (1..Len(es)) \ {k} : _call_signature(es[n]) # _call_signature(es[k]))
             => got = k
    <3>1. PICK m \in Nat : m = Len(es)
      BY <2>3
    <3>2. DOMAIN es = 1..m /\ \A k \in 1..m : IsCall(es[k])
      BY <2>3, <3>1
    <3>3. IsCall(c)
      BY <2>7
    <3> HIDE DEF IsCall
    <3>4. got # 0 =>
               /\ es[got].target = c.target
               /\ c.body \notin {NoBody, EmptyBody} => es[got].body = c.body
      BY <2>8, <3>1, <3>2, <3>3, SignatureAnswers
    <3>5. \A k \in 1..m :
               (/\ es[k] = c
                /\ \A j \in (1..m) \ {k} : _call_signature(es[j]) # _call_signature(es[k]))
               => got = k
      BY <2>8, <3>1, <3>2, <3>3, SignatureAnswers
    <3> QED BY <3>1, <3>4, <3>5
  <2> QED BY <2>2, <2>3, <2>5, <2>6, <2>7, <2>8, <2>9, Zenon
<1> QED BY <1>1, <1>2, ReplayStart, ReplayStep, CassetteAssumption, PTL DEF CassetteSpec, ReplayIsFaithful

-----------------------------------------------------------------------------
(* The modules together.                                                    *)

\* Run together, whatever the scene, evidence records, their context and sweep
\* runs stay well formed: a scene allows some of the steps of one module.
THEOREM AssessmentTypes == AssessmentSpec => []AssessmentTypeOK
<1>1. AssessmentInit => ContextInit /\ SweepInit
  BY DEF AssessmentInit
<1>2. [AssessmentNext]_<<contextVars, sweepVars, cassetteVars, focus>>
        => [ContextNext]_contextVars /\ [SweepNext]_sweepVars
  BY DEF AssessmentNext, Build, Run, Replay
<1>3. ContextTypeOK /\ SweepTypeOK => AssessmentTypeOK
  BY DEF AssessmentTypeOK
<1>4. QED BY <1>1, <1>2, <1>3, ContextTypes, SweepTypes, PTL DEF AssessmentSpec, ContextSpec, SweepSpec
=============================================================================

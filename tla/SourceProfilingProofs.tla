------------------------ MODULE SourceProfilingProofs ------------------------
(***************************************************************************)
(* Proofs about SourceProfiling: types, that versions are distinct, that   *)
(* confirmations stand, and that the coverage report adds up.              *)
(*                                                                         *)
(* The first two are about the window between a read and the write that    *)
(* depends on it: unless two overlapped, the number that a proposal holds  *)
(* is above all versions of its source, and the row that a confirmation    *)
(* holds has the entries of the mapping as it is.  The third is about a    *)
(* profile, which is never changed, and the mapping inferred from it: the  *)
(* entries are as many as the fields they map.                             *)
(*                                                                         *)
(* The newest version of a source exists because a set of naturals has a   *)
(* least element, which the well-foundedness of the order gives.           *)
(***************************************************************************)
EXTENDS SourceProfiling, TLAPS, FiniteSetTheorems

(* A profile has the fields of the records sent. *)
ProfileRows == {SourceProfile(sample) : sample \in Samples}

Row == [source : SourceIds, org : Tenants, version : Nat, status : {"inferred", "confirmed"},
        entries : SUBSET Entries, basis : 0..MaxProfiles]
Job ==
    [pc : {"profiled"}, source : SourceIds, org : Tenants, basis : 1..MaxProfiles, fields : SUBSET Fields]
      \cup [pc : {"numbered"}, source : SourceIds, org : Tenants, basis : 1..MaxProfiles,
            fields : SUBSET Fields, version : Nat]
      \cup [pc : {"confirming"}, mapping : 1..MaxMappings, edited : BOOLEAN, row : Row]

ProfilingTypeInv ==
    /\ connections \in [SourceIds -> Tenants \cup {Nobody}]
    /\ profiles \in [SourceIds -> Seq(ProfileRows)]
    /\ \A s \in SourceIds : Len(profiles[s]) <= MaxProfiles
    /\ mappings \in Seq(Row) /\ Len(mappings) <= MaxMappings
    /\ job \in [Workers -> Job \cup {Idle}]
    /\ overlapped \subseteq SourceIds \cup 1..MaxMappings

(* The versions of a source have different numbers, and the number that a   *)
(* proposal holds is new, unless two proposals for the source overlapped.   *)
Numbered(w) == job[w].pc = "numbered"
VersionInv ==
    /\ \A m \in DOMAIN mappings : mappings[m].version \in 1..Len(mappings)
    /\ \A w \in Workers : Numbered(w) => job[w].version \in 1..(Len(mappings) + 1)
    /\ \A w \in Workers, m \in DOMAIN mappings :
         Numbered(w) /\ mappings[m].source = job[w].source /\ job[w].source \notin overlapped
         => mappings[m].version < job[w].version
    /\ \A v, w \in Workers :
         v # w /\ Numbered(v) /\ Numbered(w) /\ job[v].source = job[w].source
         => job[w].source \in overlapped
    /\ VersionsDistinct

(* A confirmation holds the row it read, with its edits. *)
Confirming(w) == job[w].pc = "confirming"
ConfirmInv ==
    /\ \A w \in Workers : Confirming(w) =>
         /\ job[w].mapping \in DOMAIN mappings
         /\ job[w].row.source = mappings[job[w].mapping].source
         /\ job[w].row.version = mappings[job[w].mapping].version
         /\ job[w].row.status = "confirmed"
         /\ ~ job[w].edited /\ job[w].mapping \notin overlapped =>
              job[w].row.entries = mappings[job[w].mapping].entries
    /\ \A v, w \in Workers :
         v # w /\ Confirming(v) /\ Confirming(w) /\ job[v].mapping = job[w].mapping
         => job[w].mapping \in overlapped

(* The basis of a row or of a proposal is a profile of its source, and      *)
(* entries with a basis were inferred from that profile.                    *)
FieldsOf(s, b) == DOMAIN profiles[s][b].fields
FromBasis(row) ==
    /\ profiles[row.source] # <<>>
    /\ row.basis # 0 => /\ row.basis \in DOMAIN profiles[row.source]
                        /\ row.entries = _infer_mappings(FieldsOf(row.source, row.basis))
BasisInv ==
    /\ \A m \in DOMAIN mappings : FromBasis(mappings[m])
    /\ \A w \in Workers : Confirming(w) => FromBasis(job[w].row)
    /\ \A w \in Workers : job[w].pc \in {"profiled", "numbered"} =>
         /\ job[w].basis \in DOMAIN profiles[job[w].source]
         /\ job[w].fields = FieldsOf(job[w].source, job[w].basis)

-----------------------------------------------------------------------------
(* Numbers and algorithms. *)

\* A set of naturals has a least one.
LEMMA LeastVersion ==
    ASSUME NEW T \in SUBSET Nat, T # {}
    PROVE  \E n \in T : \A m \in T : n <= m
<1>1. PICK R : R = OpToRel(<, Nat)
  OBVIOUS
<1>2. IsWellFoundedOn(R, Nat)
  BY <1>1, NatLessThanWellFounded
<1>3. PICK n \in T : \A y \in T : ~ (<<y, n>> \in R)
  BY <1>2, WFMin
<1>4. ASSUME NEW m \in T, m < n
      PROVE  FALSE
  <2>1. <<m, n>> \in R
    BY <1>1, <1>4 DEF OpToRel
  <2>2. QED BY <1>3, <2>1
<1>5. \A m \in T : n <= m
  BY <1>4
<1>6. QED BY <1>5

\* What is inferred maps given fields to DEP fields, a field once at most.
LEMMA InferredMappings ==
    ASSUME NEW fields \in SUBSET Fields
    PROVE  /\ _infer_mappings(fields) \subseteq Entries
           /\ \A e \in _infer_mappings(fields) : e.source_field \in fields
           /\ \A e, g \in _infer_mappings(fields) : e.source_field = g.source_field => e = g
<1> DEFINE Best(f) == {i \in DOMAIN DEP_FIELDS :
                      /\ Score[f][DEP_FIELDS[i]] > 0
                      /\ \A j \in DOMAIN DEP_FIELDS :
                           /\ Score[f][DEP_FIELDS[j]] <= Score[f][DEP_FIELDS[i]]
                           /\ j < i => Score[f][DEP_FIELDS[j]] < Score[f][DEP_FIELDS[i]]}
<1>1. \A e \in _infer_mappings(fields) : \E f \in fields : \E i \in Best(f) :
          e = [source_field |-> f, dep_field |-> DEP_FIELDS[i]]
  BY DEF _infer_mappings
<1>2. \A i \in DOMAIN DEP_FIELDS : DEP_FIELDS[i] \in DepNames /\ i \in Int
  BY ProfilingAssumption DEF DepNames
<1>3. ASSUME NEW f \in fields, NEW i \in Best(f), NEW j \in Best(f)
      PROVE  i = j
  <2>1. /\ i \in DOMAIN DEP_FIELDS /\ j \in DOMAIN DEP_FIELDS
        /\ j < i => Score[f][DEP_FIELDS[j]] < Score[f][DEP_FIELDS[i]]
        /\ i < j => Score[f][DEP_FIELDS[i]] < Score[f][DEP_FIELDS[j]]
        /\ Score[f][DEP_FIELDS[i]] <= Score[f][DEP_FIELDS[j]]
        /\ Score[f][DEP_FIELDS[j]] <= Score[f][DEP_FIELDS[i]]
    OBVIOUS
  <2>2. Score[f][DEP_FIELDS[i]] \in Int /\ Score[f][DEP_FIELDS[j]] \in Int
    BY <1>2, <2>1, ProfilingAssumption
  <2>3. QED BY <1>2, <2>1, <2>2
<1>4. \A f \in fields : Best(f) \subseteq DOMAIN DEP_FIELDS
  OBVIOUS
<1> HIDE DEF Best
<1>5. QED BY <1>1, <1>2, <1>3, <1>4 DEF Entries

\* The entries inferred are as many as the fields they map.
LEMMA OneEntryAField ==
    ASSUME NEW fields \in SUBSET Fields, IsFiniteSet(fields),
           NEW entries, entries = _infer_mappings(fields)
    PROVE  LET mapped == {e.source_field : e \in entries}
           IN  /\ Cardinality(entries) = Cardinality(mapped)
               /\ Cardinality(fields \ mapped) = Cardinality(fields) - Cardinality(mapped)
<1> DEFINE mapped == {e.source_field : e \in entries}
           f == [e \in entries |-> e.source_field]
<1>1. mapped \subseteq fields /\ \A e, g \in entries : e.source_field = g.source_field => e = g
  BY InferredMappings
<1>2. IsFiniteSet(mapped)
  BY <1>1, FS_Subset
<1>3. f \in [entries -> mapped]
  OBVIOUS
<1>4. /\ \A e, g \in entries : f[e] = f[g] => e = g
      /\ \A x \in mapped : \E e \in entries : f[e] = x
  BY <1>1
<1> HIDE DEF f, mapped
<1>5. f \in Injection(entries, mapped) /\ f \in Surjection(entries, mapped)
  BY <1>3, <1>4 DEF Injection, IsInjective, Surjection
<1>6. IsFiniteSet(entries)
  BY <1>2, <1>5, FS_Injection
<1>7. Cardinality(mapped) = Cardinality(entries)
  BY <1>5, <1>6, FS_Surjection
<1>8. fields \cap mapped = mapped
  BY <1>1
<1>9. Cardinality(fields \ mapped) = Cardinality(fields) - Cardinality(mapped)
  BY <1>8, FS_Difference
<1>10. QED BY <1>7, <1>9 DEF mapped

\* A profile has finitely many fields.
LEMMA ProfileFields ==
    ASSUME NEW p \in ProfileRows
    PROVE  DOMAIN p.fields \in SUBSET Fields /\ IsFiniteSet(DOMAIN p.fields)
<1>1. PICK sample \in Samples : p = SourceProfile(sample)
  BY DEF ProfileRows
<1> DEFINE S == {DOMAIN sample[i] : i \in DOMAIN sample}
           f == [i \in DOMAIN sample |-> DOMAIN sample[i]]
<1>2. DOMAIN p.fields = UNION S
  BY <1>1 DEF SourceProfile
<1>3. IsFiniteSet(DOMAIN sample) /\ \A T \in S : T \subseteq Fields /\ IsFiniteSet(T)
  BY ProfilingAssumption
<1>4. f \in Surjection(DOMAIN sample, S)
  BY DEF Surjection
<1>5. IsFiniteSet(S)
  BY <1>3, <1>4, FS_Surjection
<1>6. IsFiniteSet(UNION S)
  BY <1>3, <1>5, FS_UNION
<1>7. QED BY <1>2, <1>3, <1>6

\* The newest version of a source is one of its versions, with the highest
\* number.
LEMMA NewestIs ==
    ASSUME ProfilingTypeInv, VersionInv, NEW s, VersionsOf(s) # {}
    PROVE  /\ NewestVersion(s) \in VersionsOf(s)
           /\ \A m \in VersionsOf(s) : mappings[m].version <= mappings[NewestVersion(s)].version
<1>1. /\ VersionsOf(s) \subseteq 1..Len(mappings) /\ Len(mappings) \in Nat
      /\ \A m \in VersionsOf(s) : m \in 1..Len(mappings) /\ mappings[m].version \in 1..Len(mappings)
  BY DEF ProfilingTypeInv, VersionInv, VersionsOf
<1>2. PICK top \in VersionsOf(s) : \A m \in VersionsOf(s) : mappings[m].version <= mappings[top].version
  <2> DEFINE Below == {n \in Nat : \E m \in VersionsOf(s) : n = Len(mappings) - mappings[m].version}
  <2>1. Below \in SUBSET Nat /\ Below # {}
    <3>1. PICK m \in VersionsOf(s) : TRUE
      OBVIOUS
    <3>2. Len(mappings) - mappings[m].version \in Below
      BY <1>1
    <3>3. QED BY <3>2
  <2>2. PICK n \in Below : \A k \in Below : n <= k
    BY <2>1, LeastVersion
  <2>3. PICK top \in VersionsOf(s) : n = Len(mappings) - mappings[top].version
    BY <2>2
  <2>4. ASSUME NEW m \in VersionsOf(s)
        PROVE  mappings[m].version <= mappings[top].version
    <3>1. Len(mappings) - mappings[m].version \in Below
      BY <1>1, <2>4
    <3>2. n <= Len(mappings) - mappings[m].version
      BY <2>2, <3>1
    <3>3. QED BY <1>1, <2>3, <3>2
  <2>5. QED BY <2>4
<1>3. PICK first \in VersionsOf(s) : \A m \in VersionsOf(s) :
          \/ mappings[m].version < mappings[first].version
          \/ mappings[m].version = mappings[first].version /\ first <= m
  <2> DEFINE Tied == {m \in VersionsOf(s) : mappings[m].version = mappings[top].version}
  <2>1. Tied \in SUBSET Nat /\ top \in Tied
    BY <1>1, <1>2
  <2>2. PICK first \in Tied : \A m \in Tied : first <= m
    BY <2>1, LeastVersion
  <2>3. ASSUME NEW m \in VersionsOf(s), mappings[m].version # mappings[first].version
        PROVE  mappings[m].version < mappings[first].version
    BY <1>1, <1>2, <2>2, <2>3
  <2>4. QED BY <2>2, <2>3
<1>4. /\ NewestVersion(s) \in VersionsOf(s)
      /\ \A m \in VersionsOf(s) :
           \/ mappings[m].version < mappings[NewestVersion(s)].version
           \/ mappings[m].version = mappings[NewestVersion(s)].version /\ NewestVersion(s) <= m
  <2> DEFINE Highest(m) == \A n \in VersionsOf(s) :
                  \/ mappings[n].version < mappings[m].version
                  \/ mappings[n].version = mappings[m].version /\ m <= n
  <2>1. NewestVersion(s) = CHOOSE m \in VersionsOf(s) : Highest(m)
    BY DEF NewestVersion
  <2>2. \E m \in VersionsOf(s) : Highest(m)
    BY <1>3
  <2> HIDE DEF Highest
  <2>3. NewestVersion(s) \in VersionsOf(s) /\ Highest(NewestVersion(s))
    BY <2>1, <2>2, Zenon
  <2>4. QED BY <2>3 DEF Highest
<1>5. QED BY <1>1, <1>4

-----------------------------------------------------------------------------
(* Types. *)

LEMMA ProfilingTypeInit == ProfilingInit => ProfilingTypeInv /\ VersionInv /\ ConfirmInv /\ BasisInv
<1> SUFFICES ASSUME ProfilingInit PROVE ProfilingTypeInv /\ VersionInv /\ ConfirmInv /\ BasisInv
  OBVIOUS
<1>1. ProfilingTypeInv
  BY ProfilingAssumption DEF ProfilingInit, ProfilingTypeInv, Idle
<1>2. \A w \in Workers : job[w].pc = "idle"
  BY DEF ProfilingInit, Idle
<1>3. DOMAIN mappings = {} /\ Len(mappings) = 0
  BY DEF ProfilingInit
<1>4. VersionInv /\ ConfirmInv /\ BasisInv
  BY <1>2, <1>3 DEF VersionInv, ConfirmInv, BasisInv, Numbered, Confirming, VersionsDistinct
<1>5. QED BY <1>1, <1>4

\* What a worker holds, by where it is.
LEMMA JobHolds ==
    ASSUME ProfilingTypeInv, NEW w \in Workers
    PROVE  /\ job[w].pc = "profiled" => job[w] \in
                [pc : {"profiled"}, source : SourceIds, org : Tenants, basis : 1..MaxProfiles, fields : SUBSET Fields]
           /\ Numbered(w) => job[w] \in
                [pc : {"numbered"}, source : SourceIds, org : Tenants, basis : 1..MaxProfiles,
                 fields : SUBSET Fields, version : Nat]
           /\ Confirming(w) => job[w] \in
                [pc : {"confirming"}, mapping : 1..MaxMappings, edited : BOOLEAN, row : Row]
           /\ job[w].pc \in {"idle", "profiled", "numbered", "confirming"}
           /\ job[w].pc = "idle" => job[w] = Idle
<1>1. job[w] \in Job \/ job[w] = Idle
  BY DEF ProfilingTypeInv
<1>2. QED BY <1>1 DEF Job, Idle, Numbered, Confirming

\* The rows proposed and confirmed are rows.
LEMMA ProposedRow ==
    ASSUME ProfilingTypeInv, NEW w \in Workers, Numbered(w),
           NEW row, row = [source |-> job[w].source, org |-> job[w].org, version |-> job[w].version,
                           status |-> "inferred", entries |-> _infer_mappings(job[w].fields),
                           basis |-> job[w].basis]
    PROVE  row \in Row
  BY JobHolds, InferredMappings, ProfilingAssumption DEF Row

Confirmed(m, edits) ==
    [mappings[m] EXCEPT !.status = "confirmed",
                        !.entries = IF edits # {} THEN edits ELSE @,
                        !.basis = IF edits # {} THEN 0 ELSE @]

LEMMA ConfirmedRow ==
    ASSUME ProfilingTypeInv, NEW m \in DOMAIN mappings, NEW edits \in Edits \cup {{}},
           NEW row, row = Confirmed(m, edits)
    PROVE  /\ row \in Row /\ row.source = mappings[m].source /\ row.version = mappings[m].version
           /\ row.status = "confirmed" /\ row.org = mappings[m].org
           /\ edits # {} => row.entries = edits /\ row.basis = 0
           /\ edits = {} => row.entries = mappings[m].entries /\ row.basis = mappings[m].basis
<1>1. mappings[m] \in Row
  BY DEF ProfilingTypeInv
<1>2. PICK e : e = IF edits # {} THEN edits ELSE mappings[m].entries
  OBVIOUS
<1>3. PICK b : b = IF edits # {} THEN 0 ELSE mappings[m].basis
  OBVIOUS
<1>4. row = [mappings[m] EXCEPT !.status = "confirmed", !.entries = e, !.basis = b]
  BY <1>2, <1>3 DEF Confirmed
<1>5. e \in SUBSET Entries /\ b \in 0..MaxProfiles
  BY <1>1, <1>2, <1>3, ProfilingAssumption DEF Row
<1>6. QED BY <1>1, <1>2, <1>3, <1>4, <1>5 DEF Row

LEMMA ProfilingTypeNext == ProfilingTypeInv /\ VersionInv /\ ConfirmInv /\ [ProfilingNext]_profilingVars => ProfilingTypeInv'
<1> SUFFICES ASSUME ProfilingTypeInv, VersionInv, ConfirmInv, [ProfilingNext]_profilingVars PROVE ProfilingTypeInv'
  OBVIOUS
<1>1. CASE UNCHANGED profilingVars
  BY <1>1 DEF ProfilingTypeInv, profilingVars
<1>2. ASSUME NEW s \in SourceIds, NEW o \in Tenants, CreateSource(s, o)
      PROVE  ProfilingTypeInv'
  BY <1>2 DEF ProfilingTypeInv, CreateSource
<1>3. ASSUME NEW s \in SourceIds, NEW o \in Tenants, NEW sample \in Samples, ProfileRecords(s, o, sample)
      PROVE  ProfilingTypeInv'
  <2>1. PICK p \in ProfileRows : profiles' = [profiles EXCEPT ![s] = Append(profiles[s], p)]
    BY <1>3 DEF ProfileRecords, ProfileRows
  <2>2. profiles' \in [SourceIds -> Seq(ProfileRows)] /\ \A t \in SourceIds : Len(profiles'[t]) <= MaxProfiles
    BY <1>3, <2>1, ProfilingAssumption DEF ProfilingTypeInv, ProfileRecords
  <2>3. QED BY <1>3, <2>2 DEF ProfilingTypeInv, ProfileRecords
<1>4. ASSUME NEW s \in SourceIds, NEW o \in Tenants, NEW w \in Workers, ReadProfiles(w, s, o)
      PROVE  ProfilingTypeInv'
  <2>1. Len(profiles[s]) \in 1..MaxProfiles /\ Newest(profiles[s]) \in ProfileRows
    BY <1>4, ProfilingAssumption DEF ProfilingTypeInv, ReadProfiles, Newest
  <2>2. DOMAIN Newest(profiles[s]).fields \in SUBSET Fields
    BY <2>1, ProfileFields
  <2>3. job'[w] \in Job
    BY <1>4, <2>1, <2>2 DEF ProfilingTypeInv, ReadProfiles, Job
  <2>4. job' \in [Workers -> Job \cup {Idle}]
    BY <1>4, <2>3 DEF ProfilingTypeInv, ReadProfiles
  <2>5. QED BY <1>4, <2>4 DEF ProfilingTypeInv, ReadProfiles
<1>5. ASSUME NEW s \in SourceIds, NEW o \in Tenants, NEW w \in Workers,
             NEW m \in DOMAIN mappings, NEW edits \in Edits \cup {{}}, ReadMapping(w, s, o, m, edits)
      PROVE  ProfilingTypeInv'
  <2>1. PICK row : row = Confirmed(m, edits)
    OBVIOUS
  <2>2. row \in Row /\ m \in 1..MaxMappings
    <3>1. row \in Row
      BY <2>1, ConfirmedRow
    <3>2. m \in 1..MaxMappings
      BY ProfilingAssumption DEF ProfilingTypeInv
    <3>3. QED BY <3>1, <3>2
  <2>3. job' = [job EXCEPT ![w] = [pc |-> "confirming", mapping |-> m, edited |-> edits # {}, row |-> row]]
    BY <1>5, <2>1 DEF ReadMapping, Confirmed
  <2>4. PICK b \in BOOLEAN : b = (edits # {})
    OBVIOUS
  <2>5. [pc |-> "confirming", mapping |-> m, edited |-> b, row |-> row] \in Job
    BY <2>2 DEF Job
  <2>6. job' \in [Workers -> Job \cup {Idle}]
    BY <2>3, <2>4, <2>5 DEF ProfilingTypeInv
  <2>7. overlapped' \subseteq overlapped \cup {m}
    BY <1>5 DEF ReadMapping
  <2>8. QED BY <1>5, <2>2, <2>6, <2>7 DEF ProfilingTypeInv, ReadMapping
<1>6. ASSUME NEW w \in Workers, ReadVersions(w)
      PROVE  ProfilingTypeInv'
  <2>1. job[w].source \in SourceIds /\ job[w].org \in Tenants /\ job[w].basis \in 1..MaxProfiles
        /\ job[w].fields \in SUBSET Fields
    BY <1>6, JobHolds DEF ReadVersions
  <2>2. NextVersion(job[w].source) \in Nat
    <3>1. CASE VersionsOf(job[w].source) = {}
      BY <3>1 DEF NextVersion
    <3>2. CASE VersionsOf(job[w].source) # {}
      <4>1. NewestVersion(job[w].source) \in DOMAIN mappings
        BY <3>2, NewestIs DEF VersionsOf
      <4>2. mappings[NewestVersion(job[w].source)] \in Row
        BY <4>1 DEF ProfilingTypeInv
      <4>3. mappings[NewestVersion(job[w].source)].version \in Nat
        BY <4>2 DEF Row
      <4>4. QED BY <3>2, <4>3 DEF NextVersion
    <3>3. QED BY <3>1, <3>2
  <2>3. job'[w] \in Job /\ job' = [job EXCEPT ![w] = job'[w]]
    BY <1>6, <2>1, <2>2 DEF ProfilingTypeInv, ReadVersions, Job
  <2>4. job' \in [Workers -> Job \cup {Idle}]
    BY <2>3 DEF ProfilingTypeInv
  <2>5. overlapped' \subseteq overlapped \cup {job[w].source}
    BY <1>6 DEF ReadVersions
  <2>6. QED BY <1>6, <2>1, <2>4, <2>5 DEF ProfilingTypeInv, ReadVersions
<1>7. ASSUME NEW w \in Workers, CreateMapping(w)
      PROVE  ProfilingTypeInv'
  <2>1. PICK row \in Row : mappings' = Append(mappings, row)
    BY <1>7, ProposedRow DEF CreateMapping, Numbered
  <2>2. mappings' \in Seq(Row) /\ Len(mappings') <= MaxMappings
    BY <1>7, <2>1, ProfilingAssumption DEF ProfilingTypeInv, CreateMapping
  <2>3. QED BY <1>7, <2>2 DEF ProfilingTypeInv, CreateMapping
<1>8. ASSUME NEW w \in Workers, SaveMapping(w)
      PROVE  ProfilingTypeInv'
  <2>1. job[w].row \in Row
    BY <1>8, JobHolds DEF SaveMapping, Confirming
  <2>2. PICK row \in Row, k \in DOMAIN mappings : row = job[w].row /\ k = job[w].mapping
    BY <1>8, <2>1 DEF ConfirmInv, SaveMapping, Confirming
  <2>3. mappings' = [mappings EXCEPT ![k] = row] /\ mappings \in Seq(Row)
    BY <1>8, <2>2 DEF ProfilingTypeInv, SaveMapping
  <2>4. mappings' \in Seq(Row) /\ Len(mappings') = Len(mappings)
    BY <2>3
  <2>5. job' \in [Workers -> Job \cup {Idle}]
    BY <1>8 DEF ProfilingTypeInv, SaveMapping
  <2>6. QED BY <1>8, <2>4, <2>5 DEF ProfilingTypeInv, SaveMapping
<1>9. QED BY <1>1, <1>2, <1>3, <1>4, <1>5, <1>6, <1>7, <1>8 DEF ProfilingNext

-----------------------------------------------------------------------------
(* Versions. *)

\* A proposal or confirmation that is not idle is of its worker; where no
\* mapping is written the versions stay, if no new number is read.
LEMMA VersionsStay ==
    ASSUME ProfilingTypeInv, VersionInv, UNCHANGED mappings, overlapped \subseteq overlapped',
           \A w \in Workers : Numbered(w)' => Numbered(w) /\ job'[w] = job[w]
    PROVE  VersionInv'
  BY DEF VersionInv, VersionsDistinct, Numbered

LEMMA VersionNext == ProfilingTypeInv /\ VersionInv /\ ConfirmInv /\ [ProfilingNext]_profilingVars => VersionInv'
<1> SUFFICES ASSUME ProfilingTypeInv, VersionInv, ConfirmInv, [ProfilingNext]_profilingVars PROVE VersionInv'
  OBVIOUS
<1>0. job \in [Workers -> Job \cup {Idle}] /\ mappings \in Seq(Row) /\ Idle.pc = "idle"
  BY DEF ProfilingTypeInv, Idle
<1>1. CASE UNCHANGED profilingVars
  BY <1>1, VersionsStay DEF profilingVars, Numbered
<1>2. ASSUME NEW s \in SourceIds, NEW o \in Tenants,
             CreateSource(s, o) \/ (\E sample \in Samples : ProfileRecords(s, o, sample))
      PROVE  VersionInv'
  BY <1>2, VersionsStay DEF CreateSource, ProfileRecords, Numbered
<1>3. ASSUME NEW s \in SourceIds, NEW o \in Tenants, NEW w \in Workers, ReadProfiles(w, s, o)
      PROVE  VersionInv'
  BY <1>0, <1>3, VersionsStay DEF ReadProfiles, Numbered
<1>4. ASSUME NEW s \in SourceIds, NEW o \in Tenants, NEW w \in Workers,
             NEW m \in DOMAIN mappings, NEW edits \in Edits \cup {{}}, ReadMapping(w, s, o, m, edits)
      PROVE  VersionInv'
  <2>1. \A v \in Workers : IF v = w THEN job'[v].pc = "confirming" ELSE job'[v] = job[v]
    BY <1>0, <1>4 DEF ReadMapping
  <2>2. UNCHANGED mappings /\ overlapped \subseteq overlapped'
    BY <1>4 DEF ReadMapping
  <2>3. QED BY <2>1, <2>2, VersionsStay DEF Numbered
<1>5. ASSUME NEW w \in Workers, ReadVersions(w)
      PROVE  VersionInv'
  <2>1. PICK s : s = job[w].source
    OBVIOUS
  <2>2. PICK n : n = NextVersion(s)
    OBVIOUS
  <2>3. job'[w].pc = "numbered" /\ job'[w].source = s /\ job'[w].version = n
        /\ \A v \in Workers : v # w => job'[v] = job[v]
    BY <1>0, <1>5, <2>1, <2>2 DEF ReadVersions
  <2>4. UNCHANGED mappings /\ overlapped \subseteq overlapped'
        /\ ~ Numbered(w)
        /\ ((\E v \in Workers : Numbered(v) /\ job[v].source = s) => s \in overlapped')
    BY <1>5, <2>1 DEF ReadVersions, Numbered
  <2>5. n \in 1..(Len(mappings) + 1) /\ \A m \in VersionsOf(s) : mappings[m].version < n
    <3>1. CASE VersionsOf(s) = {}
      BY <1>0, <2>2, <3>1 DEF NextVersion
    <3>2. CASE VersionsOf(s) # {}
      <4>1. PICK m : m = NewestVersion(s)
        OBVIOUS
      <4>2. m \in DOMAIN mappings /\ \A k \in VersionsOf(s) : mappings[k].version <= mappings[m].version
        BY <3>2, <4>1, NewestIs DEF VersionsOf
      <4>3. n = mappings[m].version + 1
        BY <2>2, <3>2, <4>1 DEF NextVersion
      <4>4. \A k \in DOMAIN mappings : mappings[k].version \in 1..Len(mappings)
        BY DEF VersionInv
      <4>5. Len(mappings) \in Nat /\ VersionsOf(s) \subseteq DOMAIN mappings
        BY <1>0 DEF VersionsOf
      <4>6. QED BY <4>2, <4>3, <4>4, <4>5
    <3>3. QED BY <3>1, <3>2
  <2>6. \A v \in Workers : Numbered(v)' => \/ v = w
                                           \/ v # w /\ Numbered(v) /\ job'[v] = job[v]
    BY <2>3 DEF Numbered
  <2>7. \A v \in Workers : Numbered(v)' => job'[v].version \in 1..(Len(mappings) + 1)
    BY <2>3, <2>5, <2>6 DEF VersionInv
  <2>8. \A v \in Workers, m \in DOMAIN mappings :
          Numbered(v)' /\ mappings[m].source = job'[v].source /\ job'[v].source \notin overlapped'
          => mappings[m].version < job'[v].version
    BY <2>3, <2>4, <2>5, <2>6 DEF VersionInv, VersionsOf
  <2>9. \A u, v \in Workers :
          u # v /\ Numbered(u)' /\ Numbered(v)' /\ job'[u].source = job'[v].source
          => job'[v].source \in overlapped'
    BY <2>3, <2>4, <2>6 DEF VersionInv
  <2>10. QED BY <2>4, <2>7, <2>8, <2>9 DEF VersionInv, VersionsDistinct
<1>6. ASSUME NEW w \in Workers, CreateMapping(w)
      PROVE  VersionInv'
  <2>1. PICK row \in Row : /\ mappings' = Append(mappings, row) /\ row.source = job[w].source
                           /\ row.version = job[w].version
    BY <1>6, ProposedRow DEF CreateMapping, Numbered
  <2>2. /\ Len(mappings') = Len(mappings) + 1 /\ Len(mappings) \in Nat
        /\ DOMAIN mappings' = DOMAIN mappings \cup {Len(mappings) + 1}
        /\ DOMAIN mappings = 1..Len(mappings)
        /\ mappings'[Len(mappings) + 1] = row
        /\ \A m \in DOMAIN mappings : mappings'[m] = mappings[m]
    BY <1>0, <2>1
  <2>3. UNCHANGED overlapped /\ Numbered(w) /\ job[w].version \in 1..(Len(mappings) + 1)
        /\ \A v \in Workers : Numbered(v)' => v # w /\ Numbered(v) /\ job'[v] = job[v]
    BY <1>0, <1>6 DEF CreateMapping, Numbered, VersionInv
  <2>4. \A m \in DOMAIN mappings' : mappings'[m].version \in 1..Len(mappings')
    BY <2>1, <2>2, <2>3 DEF VersionInv
  <2>5. \A v \in Workers : Numbered(v)' => job'[v].version \in 1..(Len(mappings') + 1)
    BY <2>2, <2>3 DEF VersionInv
  <2>6. \A v \in Workers, m \in DOMAIN mappings' :
          Numbered(v)' /\ mappings'[m].source = job'[v].source /\ job'[v].source \notin overlapped'
          => mappings'[m].version < job'[v].version
    BY <2>1, <2>2, <2>3 DEF VersionInv
  <2>7. \A u, v \in Workers :
          u # v /\ Numbered(u)' /\ Numbered(v)' /\ job'[u].source = job'[v].source
          => job'[v].source \in overlapped'
    BY <2>3 DEF VersionInv
  <2>8. \A m \in DOMAIN mappings : mappings[m].source = row.source /\ row.source \notin overlapped
          => mappings[m].version # row.version
    <3>0. \A m \in DOMAIN mappings : mappings[m] \in Row
      BY <1>0
    <3>1. \A m \in DOMAIN mappings : mappings[m].version \in Nat /\ row.version \in Nat
      BY <3>0 DEF Row
    <3>2. QED BY <2>1, <2>3, <3>1 DEF VersionInv
  <2>9. VersionsDistinct'
    BY <2>2, <2>3, <2>8 DEF VersionInv, VersionsDistinct
  <2>10. QED BY <2>4, <2>5, <2>6, <2>7, <2>9 DEF VersionInv
<1>7. ASSUME NEW w \in Workers, SaveMapping(w)
      PROVE  VersionInv'
  <2>0. PICK row : row = job[w].row
    OBVIOUS
  <2>1. PICK k \in DOMAIN mappings : row = job[w].row /\ k = job[w].mapping
                /\ row.source = mappings[k].source /\ row.version = mappings[k].version
    BY <1>7, <2>0 DEF ConfirmInv, Confirming, SaveMapping
  <2>2. mappings' = [mappings EXCEPT ![k] = row]
    BY <1>7, <2>1 DEF SaveMapping
  <2>3. /\ DOMAIN mappings' = DOMAIN mappings /\ Len(mappings') = Len(mappings)
        /\ \A m \in DOMAIN mappings : /\ mappings'[m].source = mappings[m].source
                                      /\ mappings'[m].version = mappings[m].version
    BY <1>0, <2>1, <2>2
  <2>4. UNCHANGED overlapped /\ \A v \in Workers : Numbered(v)' => Numbered(v) /\ job'[v] = job[v]
    BY <1>0, <1>7 DEF SaveMapping, Numbered
  <2>5. QED BY <2>3, <2>4 DEF VersionInv, VersionsDistinct
<1>8. QED BY <1>1, <1>2, <1>3, <1>4, <1>5, <1>6, <1>7 DEF ProfilingNext

-----------------------------------------------------------------------------
(* Confirmations. *)

LEMMA ConfirmStays ==
    ASSUME ProfilingTypeInv, ConfirmInv, UNCHANGED mappings, overlapped \subseteq overlapped',
           \A w \in Workers : Confirming(w)' => Confirming(w) /\ job'[w] = job[w]
    PROVE  ConfirmInv'
  BY DEF ConfirmInv, Confirming

LEMMA ConfirmNext == ProfilingTypeInv /\ ConfirmInv /\ [ProfilingNext]_profilingVars => ConfirmInv'
<1> SUFFICES ASSUME ProfilingTypeInv, ConfirmInv, [ProfilingNext]_profilingVars PROVE ConfirmInv'
  OBVIOUS
<1>0. job \in [Workers -> Job \cup {Idle}] /\ mappings \in Seq(Row) /\ Idle.pc = "idle"
  BY DEF ProfilingTypeInv, Idle
<1>1. CASE UNCHANGED profilingVars
  BY <1>1, ConfirmStays DEF profilingVars, Confirming
<1>2. ASSUME NEW s \in SourceIds, NEW o \in Tenants,
             CreateSource(s, o) \/ (\E sample \in Samples : ProfileRecords(s, o, sample))
      PROVE  ConfirmInv'
  BY <1>2, ConfirmStays DEF CreateSource, ProfileRecords, Confirming
<1>3. ASSUME NEW s \in SourceIds, NEW o \in Tenants, NEW w \in Workers, ReadProfiles(w, s, o)
      PROVE  ConfirmInv'
  BY <1>0, <1>3, ConfirmStays DEF ReadProfiles, Confirming
<1>4. ASSUME NEW w \in Workers, ReadVersions(w)
      PROVE  ConfirmInv'
  <2>1. \A v \in Workers : IF v = w THEN job'[v].pc = "numbered" ELSE job'[v] = job[v]
    BY <1>0, <1>4 DEF ReadVersions
  <2>2. UNCHANGED mappings /\ overlapped \subseteq overlapped'
    BY <1>4 DEF ReadVersions
  <2>3. QED BY <2>1, <2>2, ConfirmStays DEF Confirming
<1>5. ASSUME NEW w \in Workers, CreateMapping(w)
      PROVE  ConfirmInv'
  <2>1. PICK row : mappings' = Append(mappings, row)
    BY <1>5 DEF CreateMapping
  <2>2. \A m \in DOMAIN mappings : m \in DOMAIN mappings' /\ mappings'[m] = mappings[m]
    BY <1>0, <2>1
  <2>3. UNCHANGED overlapped /\ \A v \in Workers : Confirming(v)' => Confirming(v) /\ job'[v] = job[v]
    BY <1>0, <1>5 DEF CreateMapping, Confirming
  <2>4. QED BY <2>2, <2>3 DEF ConfirmInv
<1>6. ASSUME NEW s \in SourceIds, NEW o \in Tenants, NEW w \in Workers,
             NEW m \in DOMAIN mappings, NEW edits \in Edits \cup {{}}, ReadMapping(w, s, o, m, edits)
      PROVE  ConfirmInv'
  <2>1. PICK row : row = Confirmed(m, edits)
    OBVIOUS
  <2>2. job'[w] = [pc |-> "confirming", mapping |-> m, edited |-> edits # {}, row |-> row]
        /\ \A v \in Workers : v # w => job'[v] = job[v]
    BY <1>0, <1>6, <2>1 DEF ReadMapping, Confirmed
  <2>3. /\ row.source = mappings[m].source /\ row.version = mappings[m].version
        /\ row.status = "confirmed" /\ (edits = {} => row.entries = mappings[m].entries)
    BY <2>1, ConfirmedRow
  <2>4. UNCHANGED mappings /\ overlapped \subseteq overlapped' /\ ~ Confirming(w)
        /\ ((\E v \in Workers : Confirming(v) /\ job[v].mapping = m) => m \in overlapped')
    BY <1>0, <1>6 DEF ReadMapping, Confirming
  <2>5. \A v \in Workers : Confirming(v)' => \/ v = w
                                             \/ v # w /\ Confirming(v) /\ job'[v] = job[v]
    BY <2>2 DEF Confirming
  <2>6. job'[w].mapping = m /\ job'[w].row = row /\ (~ job'[w].edited => edits = {})
    <3>1. PICK b \in BOOLEAN : b = (edits # {})
      OBVIOUS
    <3>2. job'[w] = [pc |-> "confirming", mapping |-> m, edited |-> b, row |-> row]
      BY <2>2, <3>1
    <3>3. job'[w].edited = b
      BY <3>2
    <3>4. ~ b => edits = {}
      BY <3>1
    <3>5. job'[w].mapping = m /\ job'[w].row = row
      BY <3>2
    <3>6. QED BY <3>3, <3>4, <3>5
  <2>7. ASSUME NEW v \in Workers, Confirming(v)'
        PROVE  /\ job'[v].mapping \in DOMAIN mappings'
               /\ job'[v].row.source = mappings'[job'[v].mapping].source
               /\ job'[v].row.version = mappings'[job'[v].mapping].version
               /\ job'[v].row.status = "confirmed"
               /\ ~ job'[v].edited /\ job'[v].mapping \notin overlapped' =>
                    job'[v].row.entries = mappings'[job'[v].mapping].entries
    <3>1. CASE v = w
      BY <2>3, <2>4, <2>6, <3>1
    <3>2. CASE v # w
      BY <2>4, <2>5, <2>7, <3>2 DEF ConfirmInv
    <3>3. QED BY <3>1, <3>2
  <2>8. \A u, v \in Workers :
          u # v /\ Confirming(u)' /\ Confirming(v)' /\ job'[u].mapping = job'[v].mapping
          => job'[v].mapping \in overlapped'
    BY <2>4, <2>5, <2>6 DEF ConfirmInv
  <2>9. QED BY <2>7, <2>8 DEF ConfirmInv
<1>7. ASSUME NEW w \in Workers, SaveMapping(w)
      PROVE  ConfirmInv'
  <2>0. PICK row : row = job[w].row
    OBVIOUS
  <2>1. PICK k \in DOMAIN mappings : row = job[w].row /\ k = job[w].mapping
                /\ row.source = mappings[k].source /\ row.version = mappings[k].version
    BY <1>7, <2>0 DEF ConfirmInv, Confirming, SaveMapping
  <2>2. mappings' = [mappings EXCEPT ![k] = row]
    BY <1>7, <2>1 DEF SaveMapping
  <2>3. /\ DOMAIN mappings' = DOMAIN mappings
        /\ \A m \in DOMAIN mappings : /\ mappings'[m].source = mappings[m].source
                                      /\ mappings'[m].version = mappings[m].version
                                      /\ m # k => mappings'[m] = mappings[m]
    BY <1>0, <2>1, <2>2
  <2>4. UNCHANGED overlapped /\ Confirming(w)
        /\ \A v \in Workers : Confirming(v)' => v # w /\ Confirming(v) /\ job'[v] = job[v]
    BY <1>0, <1>7 DEF SaveMapping, Confirming
  <2>5. \A v \in Workers : Confirming(v)' /\ job[v].mapping = k => k \in overlapped
    BY <2>1, <2>4 DEF ConfirmInv
  <2>6. ASSUME NEW v \in Workers, Confirming(v)'
        PROVE  /\ job'[v].mapping \in DOMAIN mappings'
               /\ job'[v].row.source = mappings'[job'[v].mapping].source
               /\ job'[v].row.version = mappings'[job'[v].mapping].version
               /\ job'[v].row.status = "confirmed"
               /\ ~ job'[v].edited /\ job'[v].mapping \notin overlapped' =>
                    job'[v].row.entries = mappings'[job'[v].mapping].entries
    BY <2>3, <2>4, <2>5, <2>6 DEF ConfirmInv
  <2>7. QED BY <2>4, <2>6 DEF ConfirmInv
<1>8. QED BY <1>1, <1>2, <1>3, <1>4, <1>5, <1>6, <1>7 DEF ProfilingNext

-----------------------------------------------------------------------------
(* What mappings were inferred from. *)

\* A profile, once there, stays.
LEMMA ProfilesStay ==
    ASSUME ProfilingTypeInv, BasisInv, NEW s \in SourceIds, NEW p, profiles' = [profiles EXCEPT ![s] = Append(@, p)],
           UNCHANGED <<mappings, job>>
    PROVE  BasisInv'
<1>1. ASSUME NEW t \in SourceIds
      PROVE  /\ profiles[t] # <<>> => profiles'[t] # <<>>
             /\ \A b \in DOMAIN profiles[t] : b \in DOMAIN profiles'[t] /\ FieldsOf(t, b)' = FieldsOf(t, b)
  <2>1. profiles[t] \in Seq(ProfileRows) /\ profiles'[t] = IF t = s THEN Append(profiles[t], p) ELSE profiles[t]
    BY DEF ProfilingTypeInv
  <2>2. /\ profiles[t] # <<>> => profiles'[t] # <<>>
        /\ \A b \in DOMAIN profiles[t] : b \in DOMAIN profiles'[t] /\ profiles'[t][b] = profiles[t][b]
    BY <2>1
  <2>3. QED BY <2>2 DEF FieldsOf
<1>2. ASSUME NEW row \in Row, FromBasis(row)
      PROVE  FromBasis(row)'
  <2>1. row.source \in SourceIds
    BY DEF Row
  <2>2. QED BY <1>1, <1>2, <2>1 DEF FromBasis
<1>3. \A m \in DOMAIN mappings : mappings[m] \in Row
  BY DEF ProfilingTypeInv
<1>4. ASSUME NEW w \in Workers
      PROVE  /\ Confirming(w) => job[w].row \in Row
             /\ job[w].pc \in {"profiled", "numbered"} => job[w].source \in SourceIds
  BY JobHolds DEF Numbered
<1>5. \A m \in DOMAIN mappings' : FromBasis(mappings[m])'
  BY <1>2, <1>3 DEF BasisInv
<1>6. \A w \in Workers : Confirming(w)' => FromBasis(job[w].row)'
  BY <1>2, <1>4 DEF BasisInv, Confirming
<1>7. \A w \in Workers : (job[w].pc)' \in {"profiled", "numbered"} =>
         /\ (job[w].basis)' \in DOMAIN profiles'[job'[w].source]
         /\ (job[w].fields)' = FieldsOf(job[w].source, job[w].basis)'
  BY <1>1, <1>4 DEF BasisInv
<1>8. QED BY <1>5, <1>6, <1>7 DEF BasisInv

\* What workers and rows hold is of profiles that stay.
LEMMA BasisKept ==
    ASSUME BasisInv, UNCHANGED profiles,
           \A m \in DOMAIN mappings' : \/ m \in DOMAIN mappings /\ mappings'[m] = mappings[m]
                                       \/ FromBasis(mappings[m])',
           \A w \in Workers : \/ job'[w] = job[w]
                              \/ job'[w] = Idle
                              \/ Confirming(w)' /\ FromBasis(job[w].row)'
                              \/ /\ (job[w].pc)' \in {"profiled", "numbered"}
                                 /\ (job[w].basis)' \in DOMAIN profiles'[job'[w].source]
                                 /\ (job[w].fields)' = FieldsOf(job[w].source, job[w].basis)'
    PROVE  BasisInv'
<1>1. \A row : FromBasis(row)' = FromBasis(row)
  BY DEF FromBasis, FieldsOf
<1>2. \A s, b : FieldsOf(s, b)' = FieldsOf(s, b)
  BY DEF FieldsOf
<1>3. \A m \in DOMAIN mappings' : FromBasis(mappings[m])'
  BY <1>1 DEF BasisInv, FromBasis, FieldsOf
<1>4. Idle.pc = "idle"
  BY DEF Idle
<1>5. \A w \in Workers : Confirming(w)' => FromBasis(job[w].row)'
  BY <1>4 DEF BasisInv, Confirming, FromBasis, FieldsOf
<1>6. \A w \in Workers : (job[w].pc)' \in {"profiled", "numbered"} =>
         /\ (job[w].basis)' \in DOMAIN profiles'[job'[w].source]
         /\ (job[w].fields)' = FieldsOf(job[w].source, job[w].basis)'
  BY <1>4 DEF BasisInv, FieldsOf, Confirming
<1>7. QED BY <1>3, <1>5, <1>6 DEF BasisInv

LEMMA BasisNext == ProfilingTypeInv /\ ConfirmInv /\ BasisInv /\ [ProfilingNext]_profilingVars => BasisInv'
<1> SUFFICES ASSUME ProfilingTypeInv, ConfirmInv, BasisInv, [ProfilingNext]_profilingVars PROVE BasisInv'
  OBVIOUS
<1>0. job \in [Workers -> Job \cup {Idle}] /\ mappings \in Seq(Row)
  BY DEF ProfilingTypeInv
<1>1. CASE UNCHANGED profilingVars
  BY <1>1, BasisKept DEF profilingVars
<1>2. ASSUME NEW s \in SourceIds, NEW o \in Tenants, CreateSource(s, o)
      PROVE  BasisInv'
  BY <1>2, BasisKept DEF CreateSource
<1>3. ASSUME NEW s \in SourceIds, NEW o \in Tenants, NEW sample \in Samples, ProfileRecords(s, o, sample)
      PROVE  BasisInv'
  BY <1>3, ProfilesStay DEF ProfileRecords
<1>4. ASSUME NEW s \in SourceIds, NEW o \in Tenants, NEW w \in Workers, ReadProfiles(w, s, o)
      PROVE  BasisInv'
  <2>1. UNCHANGED <<profiles, mappings>> /\ \A v \in Workers : v # w => job'[v] = job[v]
    BY <1>0, <1>4 DEF ReadProfiles
  <2>2. job'[w].pc = "profiled" /\ job'[w].source = s /\ job'[w].basis = Len(profiles[s])
        /\ job'[w].fields = DOMAIN profiles[s][Len(profiles[s])].fields
    BY <1>0, <1>4 DEF ReadProfiles, Newest
  <2>3. Len(profiles[s]) \in DOMAIN profiles[s]
    BY <1>4 DEF ReadProfiles, ProfilingTypeInv
  <2>4. QED BY <2>1, <2>2, <2>3, BasisKept DEF FieldsOf
<1>5. ASSUME NEW w \in Workers, ReadVersions(w)
      PROVE  BasisInv'
  <2>1. UNCHANGED <<profiles, mappings>> /\ \A v \in Workers : v # w => job'[v] = job[v]
    BY <1>0, <1>5 DEF ReadVersions
  <2>2. job[w].pc = "profiled" /\ job'[w].pc = "numbered" /\ job'[w].source = job[w].source
        /\ job'[w].basis = job[w].basis /\ job'[w].fields = job[w].fields
    BY <1>0, <1>5 DEF ReadVersions
  <2>3. job[w].basis \in DOMAIN profiles[job[w].source]
        /\ job[w].fields = FieldsOf(job[w].source, job[w].basis)
    BY <2>2 DEF BasisInv
  <2>4. QED BY <2>1, <2>2, <2>3, BasisKept DEF FieldsOf
<1>6. ASSUME NEW w \in Workers, CreateMapping(w)
      PROVE  BasisInv'
  <2>1. PICK row : row = [source |-> job[w].source, org |-> job[w].org, version |-> job[w].version,
                          status |-> "inferred", entries |-> _infer_mappings(job[w].fields),
                          basis |-> job[w].basis]
    OBVIOUS
  <2>2. mappings' = Append(mappings, row) /\ UNCHANGED profiles
        /\ \A v \in Workers : job'[v] = IF v = w THEN Idle ELSE job[v]
    BY <1>0, <1>6, <2>1 DEF CreateMapping
  <2>3. job[w].basis \in DOMAIN profiles[job[w].source] /\ profiles[job[w].source] # <<>>
        /\ job[w].fields = FieldsOf(job[w].source, job[w].basis)
    <3>1. job[w].basis \in DOMAIN profiles[job[w].source]
          /\ job[w].fields = FieldsOf(job[w].source, job[w].basis)
      BY <1>6 DEF BasisInv, CreateMapping
    <3>2. QED BY <3>1
  <2>4. FromBasis(row)'
    BY <2>1, <2>2, <2>3 DEF FromBasis, FieldsOf
  <2>5. \A m \in DOMAIN mappings' : \/ m \in DOMAIN mappings /\ mappings'[m] = mappings[m]
                                    \/ mappings'[m] = row
    BY <1>0, <2>2
  <2>6. \A m \in DOMAIN mappings' : \/ m \in DOMAIN mappings /\ mappings'[m] = mappings[m]
                                    \/ FromBasis(mappings[m])'
    BY <2>4, <2>5 DEF FromBasis
  <2>7. QED BY <2>2, <2>6, BasisKept
<1>7. ASSUME NEW s \in SourceIds, NEW o \in Tenants, NEW w \in Workers,
             NEW m \in DOMAIN mappings, NEW edits \in Edits \cup {{}}, ReadMapping(w, s, o, m, edits)
      PROVE  BasisInv'
  <2>1. PICK row : row = Confirmed(m, edits)
    OBVIOUS
  <2>2. UNCHANGED <<profiles, mappings>> /\ (\A v \in Workers : v # w => job'[v] = job[v])
        /\ job'[w].pc = "confirming" /\ job'[w].row = row
    BY <1>0, <1>7, <2>1 DEF ReadMapping, Confirmed
  <2>3. /\ row.source = mappings[m].source
        /\ edits # {} => row.basis = 0
        /\ edits = {} => row.entries = mappings[m].entries /\ row.basis = mappings[m].basis
    BY <2>1, ConfirmedRow
  <2>4. FromBasis(mappings[m])
    BY DEF BasisInv
  <2>5. FromBasis(job[w].row)'
    BY <2>2, <2>3, <2>4 DEF FromBasis, FieldsOf
  <2>6. QED BY <2>2, <2>5, BasisKept DEF Confirming
<1>8. ASSUME NEW w \in Workers, SaveMapping(w)
      PROVE  BasisInv'
  <2>1. FromBasis(job[w].row) /\ job[w].mapping \in DOMAIN mappings
    BY <1>8 DEF BasisInv, ConfirmInv, SaveMapping, Confirming
  <2>2. PICK row, k : row = job[w].row /\ k = job[w].mapping
    OBVIOUS
  <2>3. mappings' = [mappings EXCEPT ![k] = row] /\ UNCHANGED profiles
        /\ \A v \in Workers : job'[v] = IF v = w THEN Idle ELSE job[v]
    BY <1>0, <1>8, <2>2 DEF SaveMapping
  <2>4. FromBasis(row)'
    BY <2>1, <2>2, <2>3 DEF FromBasis, FieldsOf
  <2>5. \A m \in DOMAIN mappings' : \/ m \in DOMAIN mappings /\ mappings'[m] = mappings[m]
                                    \/ mappings'[m] = row
    BY <1>0, <2>3
  <2>6. \A m \in DOMAIN mappings' : \/ m \in DOMAIN mappings /\ mappings'[m] = mappings[m]
                                    \/ FromBasis(mappings[m])'
    BY <2>4, <2>5 DEF FromBasis
  <2>7. QED BY <2>3, <2>6, BasisKept
<1>9. QED BY <1>1, <1>2, <1>3, <1>4, <1>5, <1>6, <1>7, <1>8 DEF ProfilingNext

-----------------------------------------------------------------------------
(* Theorems. *)

ProfilingInv == ProfilingTypeInv /\ VersionInv /\ ConfirmInv /\ BasisInv

LEMMA ProfilingInvariant == ProfilingSpec => []ProfilingInv
  BY ProfilingTypeInit, ProfilingTypeNext, VersionNext, ConfirmNext, BasisNext, PTL DEF ProfilingSpec, ProfilingInv

\* Every variable has its type, and a version is no more than the mappings
\* there may be (discovery/profiling.py).
THEOREM ProfilingTypes == ProfilingSpec => []ProfilingTypeOK
<1>1. ASSUME ProfilingInv
      PROVE  ProfilingTypeOK
  <2>1. ASSUME NEW m \in DOMAIN mappings
        PROVE  mappings[m] \in MappingRow
    <3>1. mappings[m] \in Row /\ mappings[m].version \in 1..MaxMappings
      BY <1>1, ProfilingAssumption DEF ProfilingInv, ProfilingTypeInv, VersionInv
    <3>2. QED BY <3>1 DEF Row, MappingRow
  <2>2. \A w \in Workers : job[w].pc \in {"idle", "profiled", "numbered", "confirming"}
    BY <1>1, JobHolds DEF ProfilingInv
  <2>3. QED BY <1>1, <2>1, <2>2 DEF ProfilingInv, ProfilingTypeInv, ProfilingTypeOK
<1>2. QED BY <1>1, ProfilingInvariant, PTL

\* Versions of a source whose proposals did not overlap have different
\* numbers (propose_mappings).
THEOREM VersionsAreDistinct == ProfilingSpec => []VersionsDistinct
<1>1. ProfilingInv => VersionsDistinct
  BY DEF ProfilingInv, VersionInv
<1>2. QED BY <1>1, ProfilingInvariant, PTL

\* A confirmed version stays confirmed, and its entries change only by a
\* confirmation that edits them, unless two of them overlapped
\* (confirm_mapping).
THEOREM ConfirmationsStand == ProfilingSpec => ConfirmedEditsStand
<1>1. ASSUME ProfilingInv, ProfilingInv', [ProfilingNext]_profilingVars, NEW m \in DOMAIN mappings
      PROVE  /\ mappings[m].status = "confirmed" => mappings'[m].status = "confirmed"
             /\ mappings'[m].entries # mappings[m].entries =>
                  \/ m \in overlapped
                  \/ \E w \in Workers : job[w].pc = "confirming" /\ job[w].mapping = m /\ job[w].edited
  <2>0. mappings \in Seq(Row)
    BY <1>1 DEF ProfilingInv, ProfilingTypeInv
  <2>1. CASE UNCHANGED mappings
    BY <2>1
  <2>2. ASSUME NEW w \in Workers, CreateMapping(w)
        PROVE  mappings'[m] = mappings[m]
    BY <2>0, <2>2 DEF CreateMapping
  <2>3. ASSUME NEW w \in Workers, SaveMapping(w)
        PROVE  /\ mappings[m].status = "confirmed" => mappings'[m].status = "confirmed"
               /\ mappings'[m].entries # mappings[m].entries =>
                    \/ m \in overlapped
                    \/ job[w].pc = "confirming" /\ job[w].mapping = m /\ job[w].edited
    <3>1. mappings'[m] = IF m = job[w].mapping THEN job[w].row ELSE mappings[m]
      BY <2>0, <2>3 DEF SaveMapping
    <3>2. Confirming(w) /\ job[w].row.status = "confirmed" /\
          (~ job[w].edited /\ job[w].mapping \notin overlapped =>
             job[w].row.entries = mappings[job[w].mapping].entries)
      BY <1>1, <2>3 DEF ProfilingInv, ConfirmInv, Confirming, SaveMapping
    <3>3. QED BY <3>1, <3>2 DEF Confirming
  <2>4. QED BY <1>1, <2>1, <2>2, <2>3
          DEF ProfilingNext, profilingVars, CreateSource, ProfileRecords, ReadProfiles, ReadVersions, ReadMapping
<1>2. ASSUME ProfilingInv, ProfilingInv', [ProfilingNext]_profilingVars
      PROVE  [\A m \in DOMAIN mappings :
                /\ mappings[m].status = "confirmed" => mappings'[m].status = "confirmed"
                /\ mappings'[m].entries # mappings[m].entries =>
                     \/ m \in overlapped
                     \/ \E w \in Workers : job[w].pc = "confirming" /\ job[w].mapping = m /\ job[w].edited
             ]_profilingVars
  BY <1>1, <1>2
<1>3. QED BY <1>2, ProfilingInvariant, PTL DEF ProfilingSpec, ConfirmedEditsStand

\* For a mapping inferred from the newest profile the report's difference is
\* the number of fields that no entry maps (get_coverage).
THEOREM CoverageIsRight == ProfilingSpec => []CoverageAddsUp
<1>1. ASSUME ProfilingInv, NEW s \in SourceIds, VersionsOf(s) # {},
             mappings[NewestVersion(s)].basis = Len(profiles[s])
      PROVE  LET mapped == {e.source_field : e \in mappings[NewestVersion(s)].entries}
             IN  Coverage(s).unmapped_fields =
                   Cardinality(DOMAIN Newest(profiles[s]).fields \ mapped)
  <2>1. PICK k : k = NewestVersion(s)
    OBVIOUS
  <2>2. k \in DOMAIN mappings /\ mappings[k].source = s
    BY <1>1, <2>1, NewestIs DEF ProfilingInv, VersionsOf
  <2>3. profiles[s] # <<>> /\ profiles[s] \in Seq(ProfileRows) /\ mappings[k].basis = Len(profiles[s])
        /\ FromBasis(mappings[k])
    BY <1>1, <2>1, <2>2 DEF ProfilingInv, BasisInv, FromBasis, ProfilingTypeInv
  <2>4. PICK fields : fields = DOMAIN Newest(profiles[s]).fields
    OBVIOUS
  <2>5. Newest(profiles[s]) \in ProfileRows /\ Len(profiles[s]) # 0
    BY <2>3 DEF Newest
  <2>6. fields \in SUBSET Fields /\ IsFiniteSet(fields)
    BY <2>4, <2>5, ProfileFields
  <2>7. PICK entries : entries = mappings[k].entries
    OBVIOUS
  <2>8. entries = _infer_mappings(fields)
    BY <2>2, <2>3, <2>4, <2>5, <2>7 DEF FromBasis, FieldsOf, Newest
  <2>9. LET mapped == {e.source_field : e \in entries}
        IN  /\ Cardinality(entries) = Cardinality(mapped)
            /\ Cardinality(fields \ mapped) = Cardinality(fields) - Cardinality(mapped)
    BY <2>6, <2>8, OneEntryAField
  <2>10. Coverage(s).unmapped_fields = Cardinality(fields) - Cardinality(entries)
    BY <1>1, <2>1, <2>3, <2>4, <2>7 DEF Coverage
  <2>11. QED BY <2>1, <2>4, <2>7, <2>9, <2>10
<1>2. ProfilingInv => CoverageAddsUp
  BY <1>1 DEF CoverageAddsUp
<1>3. QED BY <1>2, ProfilingInvariant, PTL
=============================================================================

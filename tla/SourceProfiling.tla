--------------------------- MODULE SourceProfiling ---------------------------
(***************************************************************************)
(* Source connections, profiles of their records and field mappings.       *)
(*                                                                         *)
(* profiles[s] and the versions of a source are listed newest first by     *)
(* PostgresS3Storage; here rows are appended, so the newest is the last.   *)
(* A proposal and a confirmation are read-then-write sequences, one step a *)
(* storage call.  overlapped is a history variable: the sources and the    *)
(* mappings that two of them worked on at once.                            *)
(***************************************************************************)
EXTENDS Integers, Sequences, FiniteSets

CONSTANTS
    Tenants,
    SourceIds,
    Fields,         \* field names of source records
    DEP_FIELDS,     \* the sequence of DEP field names
    Score,          \* Score[f][d]: 3 equal, 2 contains, 1 contained in, 0 unrelated
    Samples,        \* batches of records a client sends for profiling
    Edits,          \* mappings a client may put in place of the proposed ones
    MaxProfiles,    \* bound: profiles of a source
    MaxMappings,    \* bound: mapping rows
    Workers         \* slots for proposals and confirmations in flight

Kinds == {"null", "boolean", "number", "timestamp", "json", "string"}
DepNames == {DEP_FIELDS[i] : i \in DOMAIN DEP_FIELDS}
Entries == [source_field : Fields, dep_field : DepNames]
Nobody == "nobody"

ASSUME ProfilingAssumption ==
    /\ DEP_FIELDS \in Seq(STRING) /\ Score \in [Fields -> [DepNames -> 0..3]]
    /\ \A sample \in Samples : IsFiniteSet(DOMAIN sample) /\ \A i \in DOMAIN sample :
         /\ DOMAIN sample[i] \subseteq Fields /\ IsFiniteSet(DOMAIN sample[i])
         /\ \A f \in DOMAIN sample[i] : sample[i][f] \in Kinds
    /\ Edits \subseteq SUBSET Entries
    /\ MaxProfiles \in Nat /\ MaxMappings \in Nat /\ Nobody \notin Tenants

VARIABLES
    connections,    \* source id -> its organization
    profiles,       \* source id -> SourceProfile rows, oldest first
    mappings,       \* FieldMappingVersion rows of all sources, by creation
    job,            \* worker slot -> the proposal or confirmation it runs
    overlapped

profilingVars == <<connections, profiles, mappings, job, overlapped>>

-----------------------------------------------------------------------------
(* The algorithms. *)

(* A field has the kind of more than half of its values, nulls counted, and *)
(* is a string otherwise.                                                   *)
_infer_field_type(values) ==
    LET major == {t \in {"boolean", "number", "timestamp", "json"} :
                    2 * Cardinality({i \in DOMAIN values : values[i] = t}) > Len(values)}
    IN  IF major = {} THEN "string" ELSE CHOOSE t \in major : TRUE

\* Mutant: an entry for every DEP field the name is like.
MapAllAlike(fields) ==
    {[source_field |-> p[1], dep_field |-> p[2]] :
        p \in {q \in fields \X DepNames : Score[q[1]][q[2]] > 0}}

(* One entry at most per field: the first DEP field with the best score.    *)
_infer_mappings(fields) ==
    LET Best(f) == {i \in DOMAIN DEP_FIELDS :
                      /\ Score[f][DEP_FIELDS[i]] > 0
                      /\ \A j \in DOMAIN DEP_FIELDS :
                           /\ Score[f][DEP_FIELDS[j]] <= Score[f][DEP_FIELDS[i]]
                           /\ j < i => Score[f][DEP_FIELDS[j]] < Score[f][DEP_FIELDS[i]]}
    IN  UNION {{[source_field |-> f, dep_field |-> DEP_FIELDS[i]] : i \in Best(f)} : f \in fields}

(* the values of a field, record by record *)
Values(sample, f) ==
    LET having == SelectSeq(sample, LAMBDA r : f \in DOMAIN r)
    IN  [i \in DOMAIN having |-> having[i][f]]

FieldProfile(sample, f) ==
    LET values == Values(sample, f)
    IN  [field_type |-> _infer_field_type(values),
         null_count |-> Cardinality({i \in DOMAIN values : values[i] = "null"}),
         total_count |-> Len(values)]

SourceProfile(sample) ==
    [record_count |-> Len(sample),
     fields |-> [f \in UNION {DOMAIN sample[i] : i \in DOMAIN sample} |-> FieldProfile(sample, f)]]

-----------------------------------------------------------------------------
Newest(rows) == rows[Len(rows)]

VersionsOf(s) == {m \in DOMAIN mappings : mappings[m].source = s}
NewestVersion(s) ==
    CHOOSE m \in VersionsOf(s) : \A n \in VersionsOf(s) :
        \/ mappings[n].version < mappings[m].version
        \/ mappings[n].version = mappings[m].version /\ m <= n

\* Mutant: takes the list of versions to begin with the newest.
VersionAfterFirst(s) ==
    IF VersionsOf(s) = {} THEN 1
    ELSE mappings[CHOOSE m \in VersionsOf(s) : \A n \in VersionsOf(s) : m <= n].version + 1

NextVersion(s) == IF VersionsOf(s) = {} THEN 1 ELSE mappings[NewestVersion(s)].version + 1

(* get_coverage sets the newest profile against the newest mapping *)
Coverage(s) ==
    LET field_count == IF profiles[s] = <<>> THEN 0
                       ELSE Cardinality(DOMAIN Newest(profiles[s]).fields)
        entries == IF VersionsOf(s) = {} THEN {} ELSE mappings[NewestVersion(s)].entries
    IN  [profiled |-> profiles[s] # <<>>,
         field_count |-> field_count,
         mapped_fields |-> Cardinality(entries),
         mapping_confirmed |-> VersionsOf(s) # {} /\ mappings[NewestVersion(s)].status = "confirmed",
         unmapped_fields |-> field_count - Cardinality(entries)]

Idle == [pc |-> "idle"]

ProfilingInit ==
    /\ connections = [s \in SourceIds |-> Nobody]
    /\ profiles = [s \in SourceIds |-> <<>>]
    /\ mappings = <<>>
    /\ job = [w \in Workers |-> Idle]
    /\ overlapped = {}

(* POST /discovery/sources upserts under the id in the body *)
CreateSource(s, o) ==
    /\ connections[s] # o
    /\ connections' = [connections EXCEPT ![s] = o]
    /\ UNCHANGED <<profiles, mappings, job, overlapped>>

(* POST .../profile: 404 without the source, 422 without records *)
ProfileRecords(s, o, sample) ==
    /\ connections[s] = o
    /\ sample # <<>>
    /\ Len(profiles[s]) < MaxProfiles
    /\ profiles' = [profiles EXCEPT ![s] = Append(@, SourceProfile(sample))]
    /\ UNCHANGED <<connections, mappings, job, overlapped>>

(* propose_mappings: the newest profile; without one the answer is a        *)
(* version 1 that no row backs                                              *)
ReadProfiles(w, s, o) ==
    /\ job[w] = Idle
    /\ connections[s] = o
    /\ profiles[s] # <<>>
    /\ job' = [job EXCEPT ![w] =
         [pc |-> "profiled", source |-> s, org |-> o, basis |-> Len(profiles[s]),
          fields |-> DOMAIN Newest(profiles[s]).fields]]
    /\ UNCHANGED <<connections, profiles, mappings, overlapped>>

ReadVersions(w) ==
    /\ job[w].pc = "profiled"
    /\ LET s == job[w].source
       IN  /\ job' = [job EXCEPT ![w] =
                [pc |-> "numbered", source |-> s, org |-> job[w].org, basis |-> job[w].basis,
                 fields |-> job[w].fields,
                 version |-> NextVersion(s)]]
           /\ overlapped' = overlapped \cup
                {s : v \in {u \in Workers : job[u].pc = "numbered" /\ job[u].source = s}}
    /\ UNCHANGED <<connections, profiles, mappings>>

CreateMapping(w) ==
    /\ job[w].pc = "numbered"
    /\ Len(mappings) < MaxMappings
    /\ mappings' = Append(mappings,
         [source |-> job[w].source, org |-> job[w].org, version |-> job[w].version,
          status |-> "inferred", entries |-> _infer_mappings(job[w].fields), basis |-> job[w].basis])
    /\ job' = [job EXCEPT ![w] = Idle]
    /\ UNCHANGED <<connections, profiles, overlapped>>

\* Mutant: a confirmation without edits takes the empty list of them.
ReadMappingForEdits(w, s, o, m, edits) ==
    /\ job[w] = Idle
    /\ connections[s] = o
    /\ job' = [job EXCEPT ![w] =
         [pc |-> "confirming", mapping |-> m, edited |-> edits # {},
          row |-> [mappings[m] EXCEPT !.status = "confirmed", !.entries = edits, !.basis = 0]]]
    /\ overlapped' = overlapped \cup
         {m : v \in {u \in Workers : job[u].pc = "confirming" /\ job[u].mapping = m}}
    /\ UNCHANGED <<connections, profiles, mappings>>

(* confirm_mapping: the source is checked, the mapping is found by its id   *)
(* alone; basis 0 marks entries that were edited                            *)
ReadMapping(w, s, o, m, edits) ==
    /\ job[w] = Idle
    /\ connections[s] = o
    /\ job' = [job EXCEPT ![w] =
         [pc |-> "confirming", mapping |-> m, edited |-> edits # {},
          row |-> [mappings[m] EXCEPT !.status = "confirmed",
                                      !.entries = IF edits # {} THEN edits ELSE @,
                                      !.basis = IF edits # {} THEN 0 ELSE @]]]
    /\ overlapped' = overlapped \cup
         {m : v \in {u \in Workers : job[u].pc = "confirming" /\ job[u].mapping = m}}
    /\ UNCHANGED <<connections, profiles, mappings>>

SaveMapping(w) ==
    /\ job[w].pc = "confirming"
    /\ mappings' = [mappings EXCEPT ![job[w].mapping] = job[w].row]
    /\ job' = [job EXCEPT ![w] = Idle]
    /\ UNCHANGED <<connections, profiles, overlapped>>

ProfilingNext ==
    \/ \E s \in SourceIds, o \in Tenants :
         \/ CreateSource(s, o)
         \/ \E sample \in Samples : ProfileRecords(s, o, sample)
         \/ \E w \in Workers :
              \/ ReadProfiles(w, s, o)
              \/ \E m \in DOMAIN mappings, edits \in Edits \cup {{}} :
                   ReadMapping(w, s, o, m, edits)
    \/ \E w \in Workers :
         \/ ReadVersions(w)
         \/ CreateMapping(w)
         \/ SaveMapping(w)

ProfilingSpec == ProfilingInit /\ [][ProfilingNext]_profilingVars

-----------------------------------------------------------------------------
MappingRow == [source : SourceIds, org : Tenants, version : 1..MaxMappings,
               status : {"inferred", "confirmed"}, entries : SUBSET Entries, basis : 0..MaxProfiles]

(* Every variable has its type. *)
ProfilingTypeOK ==
    /\ connections \in [SourceIds -> Tenants \cup {Nobody}]
    /\ \A s \in SourceIds : Len(profiles[s]) <= MaxProfiles
    /\ \A m \in DOMAIN mappings : mappings[m] \in MappingRow
    /\ \A w \in Workers : job[w].pc \in {"idle", "profiled", "numbered", "confirming"}
    /\ overlapped \subseteq SourceIds \cup 1..MaxMappings

(* Two versions of a source have different numbers, however profiles,       *)
(* proposals and confirmations follow one another, unless two proposals     *)
(* read the list of versions before either wrote (profiling.py:153-163).    *)
VersionsDistinct ==
    \A m, n \in DOMAIN mappings :
        /\ m # n /\ mappings[m].source = mappings[n].source
        /\ mappings[m].source \notin overlapped
        => mappings[m].version # mappings[n].version

(* A confirmed version stays confirmed, and the entries its last            *)
(* confirmation put in place change only by another one that edits them,    *)
(* unless two confirmations of it overlapped: the slower one writes back    *)
(* the row it read (profiling.py:165-172).                                  *)
ConfirmedEditsStand ==
    [][\A m \in DOMAIN mappings :
         /\ mappings[m].status = "confirmed" => mappings'[m].status = "confirmed"
         /\ mappings'[m].entries # mappings[m].entries =>
              \/ m \in overlapped
              \/ \E w \in Workers : job[w].pc = "confirming" /\ job[w].mapping = m /\ job[w].edited
      ]_profilingVars

(* The coverage report subtracts the entries of the newest mapping from the *)
(* fields of the newest profile.  When the mapping was inferred from that   *)
(* profile the difference is the number of fields no entry maps; after a    *)
(* new profile or an edit it need not be (profiling.py:174-191).            *)
CoverageAddsUp ==
    \A s \in SourceIds :
        /\ VersionsOf(s) # {} /\ mappings[NewestVersion(s)].basis = Len(profiles[s])
        => LET mapped == {e.source_field : e \in mappings[NewestVersion(s)].entries}
           IN  Coverage(s).unmapped_fields =
                 Cardinality(DOMAIN Newest(profiles[s]).fields \ mapped)
=============================================================================

----------------------------- MODULE IntakeProofs -----------------------------
(***************************************************************************)
(* Proofs about FileStorage: types, that an answer is in the file, and     *)
(* that incident ids stand.                                                *)
(*                                                                         *)
(* The argument follows what a client was told (HasAnswered) from memory   *)
(* to the file.  Memory has it, and what each request in flight wrote,     *)
(* because each value is the newest one (TypeInv counts them) and because  *)
(* the counter is past each id.  The counter and the collections are taken *)
(* in two steps: the counter that a save carries is past its own id and    *)
(* those answered (CounterPast), and no other request is answered before   *)
(* it ends if it is alone.  So what it writes has all that was answered    *)
(* (SaveOK), and alone it has the temporary file for itself.               *)
(*                                                                         *)
(* At the end, the types of all the modules by which evidence and records  *)
(* come in, run together as in MCIntake; those of the others are proved in *)
(* their own proof modules.                                                *)
(***************************************************************************)
EXTENDS MCIntake, IngressProofs, SourceProfilingProofs, SetupProofs, TLAPS

(* What is stored when no more than n values have been written. *)
StoredBy(n) ==
    [counter : 0..n, incidents : UNION {[ids -> 1..n] : ids \in SUBSET (1..n)}, rows : [Rows -> 0..n]]
FileBy(n) == [is : {"absent", "partial", "torn", "whole"}, data : StoredBy(n)]
WrittenBy(n) == [of : {"incident"}, id : 1..n, value : 1..n] \cup [of : {"row"}, id : SavedRows, value : 1..n]

(* A save that runs: its request wrote one value. *)
SavingBy(n) ==
    [pc : {"save"}, written : WrittenBy(n)]
      \cup [pc : {"collect"}, written : WrittenBy(n), counter : 0..n, alone : BOOLEAN]
      \cup [pc : {"open", "write", "replace"}, written : WrittenBy(n), alone : BOOLEAN,
            data : StoredBy(n), to : {"tmp", "file", "replaced"}]

TypeInv ==
    /\ puts \in 0..MaxPuts /\ restarts \in 0..MaxRestarts
    /\ memory \in StoredBy(puts)
    /\ file \in FileBy(puts) /\ tmp \in FileBy(puts)
    /\ saver \in [Savers -> SavingBy(puts) \cup {Free, Down}]
    /\ answered \in [ids : SUBSET [of : {"incident"}, id : 1..puts, value : 1..puts],
                     rows : [SavedRows -> 0..puts]]
    /\ solid \in BOOLEAN /\ sound \in BOOLEAN

(* A save that says it is alone is the only one. *)
AloneInv == \A w \in InSave : saver[w].alone => InSave = {w}

(* data has what was written, and the counter that ends is past its id. *)
Has(data, written) ==
    IF written.of = "incident"
    THEN /\ written.id \in DOMAIN data.incidents /\ data.incidents[written.id] = written.value
         /\ written.id <= data.counter
    ELSE written.value <= data.rows[written.id]

(* data has all that clients were told. *)
HasAnswered(data) ==
    /\ \A i \in answered.ids : Has(data, i)
    /\ \A r \in SavedRows : answered.rows[r] <= data.rows[r]

Busy == {w \in Savers : saver[w] # Free /\ saver[w] # Down}

(* A counter past the incidents answered, and that of the request itself. *)
CounterPast(s) ==
    /\ \A i \in answered.ids : i.id <= s.counter
    /\ s.written.of = "incident" => s.written.id <= s.counter

(* What a save that is alone carries to the file. *)
SaveOK(s) ==
    /\ s.pc = "collect" => CounterPast(s)
    /\ s.pc \in {"open", "write", "replace"} =>
          s.to = "tmp" /\ HasAnswered(s.data) /\ Has(s.data, s.written)
    /\ s.pc = "write" => tmp = Truncated
    /\ s.pc = "replace" => tmp = Contents("whole", s.data)

(* Memory has what was answered, and what the requests in flight wrote. *)
MemoryInv == sound =>
    /\ HasAnswered(memory)
    /\ \A w \in Busy : Has(memory, saver[w].written)
SavesInv == sound => \A w \in InSave : saver[w].alone => SaveOK(saver[w])

(* A file made by one save alone is one that can be loaded. *)
FileInv ==
    /\ sound /\ solid => file.is \in {"absent", "whole"} /\ HasAnswered(file.data)
    /\ \A w \in Savers :
         /\ saver[w].pc = "open" => saver[w].to = "tmp"
         /\ solid /\ saver[w].pc = "write" => saver[w].to = "tmp"
StorageInv == AloneInv /\ MemoryInv /\ SavesInv /\ FileInv

\* What fits the values written so far fits once another is written.
LEMMA MoreWritten ==
    ASSUME NEW n \in Nat
    PROVE  /\ StoredBy(n) \subseteq StoredBy(n + 1) /\ FileBy(n) \subseteq FileBy(n + 1)
           /\ SavingBy(n) \subseteq SavingBy(n + 1)
<1>1. 0..n \subseteq 0..(n + 1) /\ 1..n \subseteq 1..(n + 1)
  OBVIOUS
<1>2. ASSUME NEW f \in UNION {[ids -> 1..n] : ids \in SUBSET (1..n)}
      PROVE  f \in UNION {[ids -> 1..(n + 1)] : ids \in SUBSET (1..(n + 1))}
  <2>1. PICK ids \in SUBSET (1..n) : f \in [ids -> 1..n]
    OBVIOUS
  <2>2. ids \in SUBSET (1..(n + 1)) /\ f \in [ids -> 1..(n + 1)]
    BY <1>1, <2>1
  <2>3. QED BY <2>2
<1>3. StoredBy(n) \subseteq StoredBy(n + 1)
  BY <1>1, <1>2 DEF StoredBy
<1>4. WrittenBy(n) \subseteq WrittenBy(n + 1)
  BY <1>1 DEF WrittenBy
<1>5. QED BY <1>1, <1>3, <1>4 DEF FileBy, SavingBy

\* The incidents stored are a function on ids that were given.
LEMMA StoredIncidents ==
    ASSUME NEW n \in Nat, NEW data \in StoredBy(n)
    PROVE  /\ data.counter \in 0..n /\ data.rows \in [Rows -> 0..n]
           /\ data.incidents \in [DOMAIN data.incidents -> 1..n]
           /\ DOMAIN data.incidents \subseteq 1..n
<1>1. data.incidents \in UNION {[ids -> 1..n] : ids \in SUBSET (1..n)}
  BY DEF StoredBy
<1>2. PICK ids \in SUBSET (1..n) : data.incidents \in [ids -> 1..n]
  BY <1>1
<1>3. QED BY <1>2 DEF StoredBy

\* A function on given ids can be stored.
LEMMA IncidentsStored ==
    ASSUME NEW n \in Nat, NEW ids \in SUBSET (1..n), NEW f \in [ids -> 1..n],
           NEW c \in 0..n, NEW rs \in [Rows -> 0..n]
    PROVE  [counter |-> c, incidents |-> f, rows |-> rs] \in StoredBy(n)
  BY DEF StoredBy

\* An empty memory can be stored.
LEMMA EmptyStored == Empty \in StoredBy(0)
<1>1. {} \in SUBSET (1..0) /\ [i \in {} |-> 0] \in [{} -> 1..0]
  OBVIOUS
<1>2. [r \in Rows |-> 0] \in [Rows -> 0..0] /\ 0 \in 0..0
  OBVIOUS
<1>3. QED BY <1>1, <1>2, IncidentsStored DEF Empty

\* Slots that are free or down are not saving.
LEMMA NotSaving ==
    ASSUME NEW n
    PROVE  Free \notin SavingBy(n) /\ Down \notin SavingBy(n) /\ Free # Down
  BY DEF Free, Down, SavingBy

\* The initial states are well typed.
LEMMA TypeInit == FileInit => TypeInv
<1> SUFFICES ASSUME FileInit PROVE TypeInv OBVIOUS
<1>1. NoFile \in FileBy(0)
  BY EmptyStored DEF NoFile, Contents, FileBy
<1>2. QED BY <1>1, EmptyStored, FileAssumption DEF FileInit, TypeInv

\* Writing a value keeps the types of what is not written.
LEMMA PutType ==
    ASSUME TypeInv, puts < MaxPuts, puts' = puts + 1,
           UNCHANGED <<file, tmp, restarts, answered, solid, sound>>,
           memory' \in StoredBy(puts + 1), saver' \in [Savers -> SavingBy(puts + 1) \cup {Free, Down}]
    PROVE  TypeInv'
<1>1. puts \in Nat /\ puts + 1 \in 0..MaxPuts
  BY FileAssumption DEF TypeInv
<1>2. file' \in FileBy(puts + 1) /\ tmp' \in FileBy(puts + 1)
  BY <1>1, MoreWritten DEF TypeInv
<1>3. 0..puts \subseteq 0..(puts + 1) /\ 1..puts \subseteq 1..(puts + 1)
  BY <1>1
<1>4. answered' \in [ids : SUBSET [of : {"incident"}, id : 1..(puts + 1), value : 1..(puts + 1)],
                     rows : [SavedRows -> 0..(puts + 1)]]
  <2>1. answered.rows \in [SavedRows -> 0..(puts + 1)]
    BY <1>3 DEF TypeInv
  <2>2. answered.ids \in SUBSET [of : {"incident"}, id : 1..(puts + 1), value : 1..(puts + 1)]
    BY <1>3 DEF TypeInv
  <2>3. QED BY <2>1, <2>2 DEF TypeInv
<1>5. QED BY <1>1, <1>2, <1>4 DEF TypeInv

\* Rows written in memory can be stored.
LEMMA RowPut ==
    ASSUME TypeInv, NEW r \in Rows, memory' = [memory EXCEPT !.rows[r] = puts + 1]
    PROVE  /\ memory' \in StoredBy(puts + 1)
           /\ memory'.counter = memory.counter /\ memory'.incidents = memory.incidents
           /\ memory'.rows = [memory.rows EXCEPT ![r] = puts + 1]
<1>1. puts \in Nat /\ memory \in StoredBy(puts + 1)
  BY MoreWritten DEF TypeInv
<1>2. puts + 1 \in 0..(puts + 1) /\ memory.rows \in [Rows -> 0..(puts + 1)]
  BY <1>1 DEF StoredBy
<1>3. [memory.rows EXCEPT ![r] = puts + 1] \in [Rows -> 0..(puts + 1)]
  BY <1>2
<1>4. memory' = [memory EXCEPT !.rows = [memory.rows EXCEPT ![r] = puts + 1]]
  OBVIOUS
<1>5. QED BY <1>1, <1>3, <1>4 DEF StoredBy

\* An incident gets an id that none has, and the others keep theirs.
LEMMA IncidentPut ==
    ASSUME TypeInv, NEW w \in Savers, CreateIncident(w)
    PROVE  LET id == memory.counter + 1 IN
           /\ id \in 1..(puts + 1) /\ memory' \in StoredBy(puts + 1)
           /\ memory'.counter = id /\ memory'.rows = memory.rows
           /\ DOMAIN memory'.incidents = DOMAIN memory.incidents \cup {id}
           /\ memory'.incidents[id] = puts + 1
           /\ \A i \in DOMAIN memory.incidents : i # id => memory'.incidents[i] = memory.incidents[i]
<1> DEFINE id == memory.counter + 1
           ids == DOMAIN memory.incidents \cup {id}
           f == [i \in ids |-> IF i = id THEN puts + 1 ELSE memory.incidents[i]]
<1>1. puts \in Nat /\ memory \in StoredBy(puts)
  BY DEF TypeInv
<1>2. /\ memory.counter \in 0..puts /\ memory.rows \in [Rows -> 0..puts]
      /\ memory.incidents \in [DOMAIN memory.incidents -> 1..puts] /\ DOMAIN memory.incidents \subseteq 1..puts
  BY <1>1, StoredIncidents
<1>3. memory' = [memory EXCEPT !.counter = id, !.incidents = f]
  BY DEF CreateIncident
<1>4. memory = [counter |-> memory.counter, incidents |-> memory.incidents, rows |-> memory.rows]
  BY <1>1 DEF StoredBy
<1>5. memory' = [counter |-> id, incidents |-> f, rows |-> memory.rows]
  <2> HIDE DEF f, id
  <2>1. QED BY <1>3, <1>4
<1>6. id \in 1..(puts + 1) /\ ids \in SUBSET (1..(puts + 1)) /\ f \in [ids -> 1..(puts + 1)]
  BY <1>1, <1>2
<1>7. id \in 0..(puts + 1) /\ memory.rows \in [Rows -> 0..(puts + 1)]
  BY <1>1, <1>2, <1>6
<1>8. memory' \in StoredBy(puts + 1)
  <2> HIDE DEF f, id, ids
  <2>1. QED BY <1>1, <1>5, <1>6, <1>7, IncidentsStored
<1>9. QED BY <1>5, <1>6, <1>8

\* A slot that moves on, while what is written and stored stays.
LEMMA SaverType ==
    ASSUME TypeInv, NEW w \in Savers, NEW s \in SavingBy(puts) \cup {Free, Down},
           saver' = [saver EXCEPT ![w] = s], UNCHANGED <<memory, puts, restarts, answered, sound>>,
           file' \in FileBy(puts), tmp' \in FileBy(puts), solid' \in BOOLEAN
    PROVE  TypeInv'
  BY DEF TypeInv

\* Each step keeps the types.
LEMMA TypeNext == TypeInv /\ [FileNext]_fileVars => TypeInv'
<1> SUFFICES ASSUME TypeInv, FileNext PROVE TypeInv'
  BY DEF fileVars, TypeInv
<1>0. /\ puts \in Nat /\ memory \in StoredBy(puts) /\ file \in FileBy(puts) /\ tmp \in FileBy(puts)
      /\ saver \in [Savers -> SavingBy(puts) \cup {Free, Down}] /\ solid \in BOOLEAN /\ sound \in BOOLEAN
      /\ puts < MaxPuts => puts + 1 \in 0..MaxPuts
      /\ SavingBy(puts) \subseteq SavingBy(puts + 1)
  BY MoreWritten, FileAssumption DEF TypeInv
<1>1. ASSUME NEW r \in Rows, WriteUnsaved(r)
      PROVE  TypeInv'
  <2>1. memory' \in StoredBy(puts + 1) /\ saver' \in [Savers -> SavingBy(puts + 1) \cup {Free, Down}]
    BY <1>0, <1>1, RowPut DEF WriteUnsaved
  <2>2. QED BY <1>1, <2>1, PutType DEF WriteUnsaved
<1>2. ASSUME NEW w \in Savers, CreateIncident(w)
      PROVE  TypeInv'
  <2>1. memory' \in StoredBy(puts + 1) /\ memory.counter + 1 \in 1..(puts + 1) /\ puts + 1 \in 1..(puts + 1)
    BY <1>0, <1>2, IncidentPut
  <2>2. [pc |-> "save", written |-> [of |-> "incident", id |-> memory.counter + 1, value |-> puts + 1]]
          \in SavingBy(puts + 1)
    BY <2>1 DEF SavingBy, WrittenBy
  <2>3. saver' \in [Savers -> SavingBy(puts + 1) \cup {Free, Down}]
    BY <1>0, <1>2, <2>2 DEF CreateIncident
  <2>4. QED BY <1>2, <2>1, <2>3, PutType DEF CreateIncident
<1>3. ASSUME NEW w \in Savers, NEW r \in SavedRows, SaveRow(w, r)
      PROVE  TypeInv'
  <2>1. memory' \in StoredBy(puts + 1) /\ puts + 1 \in 1..(puts + 1)
    BY <1>0, <1>3, RowPut DEF SaveRow, Rows
  <2>2. [pc |-> "save", written |-> [of |-> "row", id |-> r, value |-> puts + 1]] \in SavingBy(puts + 1)
    BY <2>1 DEF SavingBy, WrittenBy
  <2>3. saver' \in [Savers -> SavingBy(puts + 1) \cup {Free, Down}]
    BY <1>0, <1>3, <2>2 DEF SaveRow
  <2>4. QED BY <1>3, <2>1, <2>3, PutType DEF SaveRow
<1>4. ASSUME NEW w \in Savers, ReadCounter(w)
      PROVE  TypeInv'
  <2>1. saver[w] \in [pc : {"save"}, written : WrittenBy(puts)]
    BY <1>0, <1>4 DEF ReadCounter, SavingBy, Free, Down
  <2>2. ASSUME NEW v \in Savers
        PROVE  saver'[v] \in SavingBy(puts) \cup {Free, Down}
    <3>1. CASE v = w
      <4>1. memory.counter \in 0..puts
        BY <1>0 DEF StoredBy
      <4>2. saver'[v] = [pc |-> "collect", written |-> saver[w].written, counter |-> memory.counter,
                         alone |-> InSave = {}]
        BY <1>4, <3>1 DEF ReadCounter
      <4>3. (InSave = {}) \in BOOLEAN
        OBVIOUS
      <4> HIDE DEF InSave
      <4>4. QED BY <2>1, <4>1, <4>2, <4>3 DEF SavingBy
    <3>2. CASE v # w /\ v \in InSave
      <4>1. saver'[v] = [saver[v] EXCEPT !.alone = FALSE]
        BY <1>4, <3>2 DEF ReadCounter
      <4>2. saver[v] \in SavingBy(puts) /\ saver[v].pc \in {"collect", "open", "write", "replace"}
        BY <1>0, <3>2 DEF InSave, Free, Down
      <4>3. QED BY <4>1, <4>2 DEF SavingBy
    <3>3. CASE v # w /\ v \notin InSave
      BY <1>0, <1>4, <3>3 DEF ReadCounter
    <3>4. QED BY <3>1, <3>2, <3>3
  <2>3. saver' \in [Savers -> SavingBy(puts) \cup {Free, Down}]
    <3>1. DOMAIN saver' = Savers /\ saver' = [v \in Savers |-> saver'[v]]
      BY <1>4 DEF ReadCounter
    <3>2. QED BY <2>2, <3>1
  <2>4. QED BY <1>4, <2>3 DEF ReadCounter, TypeInv
<1>5. ASSUME NEW w \in Savers, Collect(w)
      PROVE  TypeInv'
  <2>1. saver[w] \in [pc : {"collect"}, written : WrittenBy(puts), counter : 0..puts, alone : BOOLEAN]
    BY <1>0, <1>5 DEF Collect, SavingBy, Free, Down
  <2>2. Collected(w) \in StoredBy(puts)
    <3> DEFINE rs == [r \in Rows |-> IF r \in PersistedRows THEN memory.rows[r] ELSE 0]
    <3>1. /\ memory.incidents \in [DOMAIN memory.incidents -> 1..puts]
          /\ DOMAIN memory.incidents \subseteq 1..puts /\ memory.rows \in [Rows -> 0..puts]
      BY <1>0, StoredIncidents
    <3>2. rs \in [Rows -> 0..puts]
      BY <1>0, <3>1
    <3>3. Collected(w) = [counter |-> saver[w].counter, incidents |-> memory.incidents, rows |-> rs]
      BY DEF Collected
    <3> HIDE DEF rs
    <3>4. QED BY <1>0, <2>1, <3>1, <3>2, <3>3, IncidentsStored
  <2>3. PICK s : s = [pc |-> "open", written |-> saver[w].written, alone |-> saver[w].alone,
                      data |-> Collected(w), to |-> "tmp"]
    OBVIOUS
  <2>4. s \in SavingBy(puts)
    BY <2>1, <2>2, <2>3 DEF SavingBy
  <2>5. QED BY <1>0, <1>5, <2>3, <2>4, SaverType DEF Collect
<1>6. ASSUME NEW w \in Savers, CollectRaises(w) \/ ReplaceRaises(w)
      PROVE  TypeInv'
  BY <1>0, <1>6, SaverType DEF CollectRaises, ReplaceRaises
<1>7. ASSUME NEW w \in Savers, OpenTmp(w)
      PROVE  TypeInv'
  <2>1. PICK s : s = [saver[w] EXCEPT !.pc = "write"]
    OBVIOUS
  <2>2. s \in SavingBy(puts)
    BY <1>0, <1>7, <2>1 DEF OpenTmp, SavingBy, Free, Down
  <2>3. Truncated \in FileBy(puts)
    BY <1>0, EmptyStored DEF Truncated, Contents, FileBy, StoredBy
  <2>4. QED BY <1>0, <1>7, <2>1, <2>2, <2>3, SaverType DEF OpenTmp
<1>8. ASSUME NEW w \in Savers, WriteTmp(w)
      PROVE  TypeInv'
  <2>1. PICK s : s = [saver[w] EXCEPT !.pc = "replace"]
    OBVIOUS
  <2>2. s \in SavingBy(puts) /\ saver[w].data \in StoredBy(puts) /\ saver[w].to \in {"tmp", "file", "replaced"}
    BY <1>0, <1>8, <2>1 DEF WriteTmp, SavingBy, Free, Down
  <2>3. \A current : Outcomes(w, current) \subseteq FileBy(puts)
    <3>1. Contents("whole", saver[w].data) \in FileBy(puts)
      BY <2>2 DEF Contents, FileBy
    <3>2. TornFile \in FileBy(puts)
      BY <1>0, EmptyStored DEF TornFile, Contents, FileBy, StoredBy
    <3>3. QED BY <3>1, <3>2 DEF Outcomes
  <2>4. file' \in FileBy(puts) /\ tmp' \in FileBy(puts)
    BY <1>0, <1>8, <2>2, <2>3 DEF WriteTmp
  <2>5. QED BY <1>0, <1>8, <2>1, <2>2, <2>4, SaverType DEF WriteTmp
<1>9. ASSUME NEW w \in Savers, ReplaceFile(w)
      PROVE  TypeInv'
  <2>1. saver[w] \in [pc : {"open", "write", "replace"}, written : WrittenBy(puts), alone : BOOLEAN,
                      data : StoredBy(puts), to : {"tmp", "file", "replaced"}]
    BY <1>0, <1>9 DEF ReplaceFile, SavingBy, Free, Down
  <2>2. ASSUME NEW v \in Savers
        PROVE  saver'[v] \in SavingBy(puts) \cup {Free, Down}
    <3>1. CASE v = w
      BY <1>9, <3>1 DEF ReplaceFile
    <3>2. CASE v # w /\ saver[v].pc = "write" /\ saver[v].to = "tmp"
      <4>1. saver'[v] = [saver[v] EXCEPT !.to = "file"]
        BY <1>9, <3>2 DEF ReplaceFile
      <4>2. QED BY <1>0, <3>2, <4>1 DEF SavingBy, Free, Down
    <3>3. CASE v # w /\ saver[v].pc = "write" /\ saver[v].to = "file"
      <4>1. saver'[v] = [saver[v] EXCEPT !.to = "replaced"]
        BY <1>9, <3>3 DEF ReplaceFile
      <4>2. QED BY <1>0, <3>3, <4>1 DEF SavingBy, Free, Down
    <3>4. CASE /\ v # w /\ ~ (saver[v].pc = "write" /\ saver[v].to = "tmp")
               /\ ~ (saver[v].pc = "write" /\ saver[v].to = "file")
      BY <1>0, <1>9, <3>4 DEF ReplaceFile
    <3>5. QED BY <3>1, <3>2, <3>3, <3>4
  <2>3. saver' \in [Savers -> SavingBy(puts) \cup {Free, Down}]
    <3>1. saver' = [v \in Savers |-> saver'[v]]
      BY <1>9 DEF ReplaceFile
    <3>2. QED BY <2>2, <3>1
  <2>4. answered' \in [ids : SUBSET [of : {"incident"}, id : 1..puts, value : 1..puts], rows : [SavedRows -> 0..puts]]
    <3>1. answered' = Answered(saver[w].written)
      BY <1>9 DEF ReplaceFile
    <3>2. CASE saver[w].written.of = "incident"
      <4>1. saver[w].written \in [of : {"incident"}, id : 1..puts, value : 1..puts]
        BY <2>1, <3>2 DEF WrittenBy
      <4>2. QED BY <3>1, <3>2, <4>1 DEF Answered, TypeInv
    <3>3. CASE saver[w].written.of # "incident"
      <4>1. saver[w].written.id \in SavedRows /\ saver[w].written.value \in 0..puts
        BY <1>0, <2>1, <3>3 DEF WrittenBy
      <4>2. PICK value \in 0..puts :
               answered' = [answered EXCEPT !.rows[saver[w].written.id] = value]
        BY <3>1, <3>3, <4>1 DEF Answered, TypeInv
      <4>3. QED BY <4>1, <4>2 DEF TypeInv
    <3>4. QED BY <3>2, <3>3
  <2>5. NoFile \in FileBy(puts) /\ saver[w].alone \in BOOLEAN
    BY <1>0, <2>1, EmptyStored DEF NoFile, Contents, FileBy, StoredBy
  <2>6. QED BY <1>0, <1>9, <2>3, <2>4, <2>5 DEF ReplaceFile, TypeInv
<1>10. CASE Restart
  <2>1. saver' \in [Savers -> SavingBy(puts) \cup {Free, Down}]
    BY <1>10 DEF Restart
  <2>2. memory' \in StoredBy(puts)
    BY <1>0, <1>10 DEF Restart, Load, FileBy
  <2>3. restarts' \in 0..MaxRestarts
    BY <1>10, FileAssumption DEF Restart, TypeInv
  <2>4. QED BY <1>0, <1>10, <2>1, <2>2, <2>3 DEF Restart, TypeInv
<1>11. QED BY <1>1, <1>2, <1>3, <1>4, <1>5, <1>6, <1>7, <1>8, <1>9, <1>10 DEF FileNext, Rows

\* What each slot holds, by its position.
LEMMA SlotHolds ==
    ASSUME TypeInv, NEW w \in Savers
    PROVE  /\ w \in InSave => w \in Busy /\ saver[w] \in SavingBy(puts)
           /\ w \in Busy <=> saver[w] \in SavingBy(puts)
           /\ w \in Busy => saver[w].written \in WrittenBy(puts)
           /\ saver[w].pc = "save" => w \in Busy
           /\ w \in InSave => saver[w].alone \in BOOLEAN
           /\ saver[w].pc = "collect" => saver[w].counter \in 0..puts
           /\ saver[w].pc \in {"open", "write", "replace"} =>
                 saver[w].data \in StoredBy(puts) /\ saver[w].to \in {"tmp", "file", "replaced"}
           /\ w \notin Busy => saver[w].pc \in {"free", "down"}
<1>1. saver[w] \in SavingBy(puts) \cup {Free, Down}
  BY DEF TypeInv
<1>2. Free \notin SavingBy(puts) /\ Down \notin SavingBy(puts)
  BY NotSaving
<1>3. Free.pc = "free" /\ Down.pc = "down"
  BY DEF Free, Down
<1>4. QED BY <1>1, <1>2, <1>3 DEF InSave, Busy, SavingBy

\* Where one save is going on, no other one is alone.
LEMMA NoneElseAlone ==
    ASSUME AloneInv, NEW w \in InSave, NEW v \in InSave, saver[v].alone
    PROVE  v = w /\ InSave = {w}
  BY DEF AloneInv

\* A step of one save leaves all to show about it, if the others keep their slots.
LEMMA SaveMoves ==
    ASSUME TypeInv, AloneInv, NEW w \in InSave, saver' = [saver EXCEPT ![w] = saver'[w]],
           w \in InSave' => saver'[w].alone = saver[w].alone /\ (sound' /\ saver'[w].alone => SaveOK(saver[w])')
    PROVE  AloneInv' /\ SavesInv'
<1>1. w \in Savers /\ saver \in [Savers -> SavingBy(puts) \cup {Free, Down}]
  BY DEF TypeInv, InSave
<1>2. \A v \in Savers : v # w => saver'[v] = saver[v] /\ (v \in InSave' <=> v \in InSave)
  BY <1>1 DEF InSave
<1>3. InSave' \subseteq InSave
  BY <1>1, <1>2 DEF InSave
<1>4. ASSUME NEW v \in InSave', saver'[v].alone
      PROVE  v = w /\ InSave = {w}
  <2>1. v \in Savers /\ v \in InSave
    BY <1>3, <1>4 DEF InSave
  <2>2. saver[v].alone
    BY <1>2, <1>4, <2>1
  <2>3. QED BY <2>1, <2>2, NoneElseAlone
<1>5. AloneInv'
  BY <1>3, <1>4 DEF AloneInv
<1>6. ASSUME sound', NEW v \in InSave', saver'[v].alone
      PROVE  SaveOK(saver[v])'
  BY <1>4, <1>6
<1>7. QED BY <1>5, <1>6 DEF SavesInv

\* What was written stays written when another value is.
LEMMA PutKeeps ==
    ASSUME TypeInv, \/ \E w \in Savers : CreateIncident(w)
                    \/ \E r \in Rows : memory' = [memory EXCEPT !.rows[r] = puts + 1]
    PROVE  /\ \A x \in WrittenBy(puts) : Has(memory, x) => Has(memory', x)
           /\ \A r \in SavedRows : memory.rows[r] <= memory'.rows[r]
<1>0. puts \in Nat /\ memory \in StoredBy(puts) /\ memory.counter \in 0..puts /\ memory.rows \in [Rows -> 0..puts]
  BY DEF TypeInv, StoredBy
<1>1. ASSUME NEW w \in Savers, CreateIncident(w)
      PROVE  /\ \A x \in WrittenBy(puts) : Has(memory, x) => Has(memory', x)
             /\ \A r \in SavedRows : memory.rows[r] <= memory'.rows[r]
  <2>1. PICK id : id = memory.counter + 1
    OBVIOUS
  <2>2. /\ id \in 1..(puts + 1) /\ memory'.counter = id /\ memory'.rows = memory.rows
        /\ DOMAIN memory'.incidents = DOMAIN memory.incidents \cup {id}
        /\ \A i \in DOMAIN memory.incidents : i # id => memory'.incidents[i] = memory.incidents[i]
    BY <1>1, <2>1, IncidentPut
  <2>3. ASSUME NEW x \in WrittenBy(puts), Has(memory, x)
        PROVE  Has(memory', x)
    <3>1. CASE x.of = "incident"
      <4>1. x.id \in 1..puts /\ x.id <= memory.counter /\ x.id \in DOMAIN memory.incidents
            /\ memory.incidents[x.id] = x.value
        BY <2>3, <3>1 DEF Has, WrittenBy
      <4>2. x.id # id /\ x.id <= id
        BY <1>0, <2>1, <4>1
      <4>3. QED BY <2>2, <3>1, <4>1, <4>2 DEF Has
    <3>2. CASE x.of # "incident"
      BY <2>2, <2>3, <3>2 DEF Has
    <3>3. QED BY <3>1, <3>2
  <2>4. QED BY <1>0, <2>2, <2>3 DEF Rows
<1>2. ASSUME NEW r \in Rows, memory' = [memory EXCEPT !.rows[r] = puts + 1]
      PROVE  /\ \A x \in WrittenBy(puts) : Has(memory, x) => Has(memory', x)
             /\ \A q \in SavedRows : memory.rows[q] <= memory'.rows[q]
  <2>1. /\ memory'.counter = memory.counter /\ memory'.incidents = memory.incidents
        /\ memory'.rows = [memory.rows EXCEPT ![r] = puts + 1]
    BY <1>2, RowPut
  <2>2. \A q \in Rows : memory.rows[q] \in 0..puts /\ memory'.rows[q] \in 0..(puts + 1) /\ memory.rows[q] <= memory'.rows[q]
    BY <1>0, <2>1
  <2>3. ASSUME NEW x \in WrittenBy(puts), Has(memory, x)
        PROVE  Has(memory', x)
    <3>1. CASE x.of = "incident"
      BY <2>1, <2>3, <3>1 DEF Has
    <3>2. CASE x.of # "incident"
      <4>1. x.id \in Rows /\ x.value \in 1..puts /\ x.value <= memory.rows[x.id]
        BY <2>3, <3>2 DEF Has, WrittenBy, Rows
      <4>2. x.value <= memory'.rows[x.id]
        BY <1>0, <2>2, <4>1
      <4>3. QED BY <3>2, <4>2 DEF Has
    <3>3. QED BY <3>1, <3>2
  <2>4. QED BY <2>2, <2>3 DEF Rows
<1>3. QED BY <1>1, <1>2

\* Answers are of what was written.
LEMMA AnsweredWritten ==
    ASSUME TypeInv
    PROVE  /\ \A i \in answered.ids : i \in WrittenBy(puts) /\ i.of = "incident" /\ i.id \in 1..puts
           /\ \A r \in SavedRows : answered.rows[r] \in 0..puts
  BY DEF TypeInv, WrittenBy

\* A value written to memory takes nothing from what was written before.
LEMMA PutStorage ==
    ASSUME TypeInv, StorageInv, UNCHANGED <<file, tmp, restarts, answered, solid, sound>>,
           \/ \E r \in Rows : WriteUnsaved(r)
           \/ \E w \in Savers : CreateIncident(w) \/ \E r \in SavedRows : SaveRow(w, r)
    PROVE  StorageInv'
<1>0. /\ puts \in Nat /\ saver \in [Savers -> SavingBy(puts) \cup {Free, Down}]
      /\ memory \in StoredBy(puts) /\ memory.rows \in [Rows -> 0..puts]
  BY DEF TypeInv, StoredBy
<1>1. /\ \A x \in WrittenBy(puts) : Has(memory, x) => Has(memory', x)
      /\ \A r \in SavedRows : memory.rows[r] <= memory'.rows[r] /\ memory'.rows[r] \in 0..(puts + 1)
  <2>1. memory' \in StoredBy(puts + 1)
    BY RowPut, IncidentPut DEF WriteUnsaved, SaveRow, Rows
  <2>2. \/ \E w \in Savers : CreateIncident(w)
        \/ \E r \in Rows : memory' = [memory EXCEPT !.rows[r] = puts + 1]
    BY DEF WriteUnsaved, SaveRow, Rows
  <2>3. memory'.rows \in [Rows -> 0..(puts + 1)]
    BY <2>1 DEF StoredBy
  <2>4. \A r \in SavedRows : memory'.rows[r] \in 0..(puts + 1)
    BY <2>3 DEF Rows
  <2>5. QED BY <2>2, <2>4, PutKeeps
<1>2. \A v \in Savers : saver'[v] = saver[v] \/ (saver[v] = Free /\ saver'[v].pc = "save")
  <2>1. ASSUME NEW w \in Savers, NEW written, saver[w] = Free,
               saver' = [saver EXCEPT ![w] = [pc |-> "save", written |-> written]]
        PROVE  \A v \in Savers : saver'[v] = saver[v] \/ (saver[v] = Free /\ saver'[v].pc = "save")
    BY <1>0, <2>1
  <2>2. CASE \E r \in Rows : WriteUnsaved(r)
    BY <2>2 DEF WriteUnsaved
  <2>3. CASE \E w \in Savers : CreateIncident(w)
    BY <2>1, <2>3 DEF CreateIncident
  <2>4. CASE \E w \in Savers : \E r \in SavedRows : SaveRow(w, r)
    BY <2>1, <2>4 DEF SaveRow
  <2>5. QED BY <2>2, <2>3, <2>4
<1>3. InSave' = InSave /\ \A v \in InSave : saver'[v] = saver[v]
  BY <1>2 DEF InSave, Free
<1>4. AloneInv'
  BY <1>3 DEF StorageInv, AloneInv
<1>5. SavesInv'
  <2>1. ASSUME sound', NEW v \in InSave, NEW s, s = saver'[v], s.alone
        PROVE  SaveOK(s)'
    <3>1. SaveOK(s)
      BY <1>3, <2>1 DEF StorageInv, SavesInv
    <3>2. QED BY <3>1 DEF SaveOK, CounterPast, HasAnswered, Has
  <2>2. QED BY <1>3, <2>1 DEF SavesInv
<1>6. FileInv'
  BY <1>2 DEF StorageInv, FileInv, HasAnswered, Has, Free
<1>7. ASSUME sound'
      PROVE  (HasAnswered(memory) /\ \A v \in Busy : Has(memory, saver[v].written))'
  <2>1. HasAnswered(memory) /\ \A v \in Busy : Has(memory, saver[v].written)
    BY <1>7 DEF StorageInv, MemoryInv
  <2>2. \A i \in answered'.ids : Has(memory', i)
    BY <1>1, <2>1, AnsweredWritten DEF HasAnswered
  <2>3. \A r \in SavedRows : answered'.rows[r] <= memory'.rows[r]
    BY <1>0, <1>1, <2>1, AnsweredWritten DEF HasAnswered, Rows
  <2>4. ASSUME NEW v \in Busy'
        PROVE  Has(memory', saver'[v].written)
    <3>0. v \in Savers
      BY DEF Busy
    <3>1. CASE saver'[v] = saver[v]
      <4>1. v \in Busy /\ saver[v].written \in WrittenBy(puts)
        BY <3>0, <3>1, <2>4, SlotHolds DEF Busy
      <4>2. QED BY <1>1, <2>1, <3>1, <4>1
    <3>2. CASE saver'[v] # saver[v]
      <4>1. CASE CreateIncident(v)
        <5>1. PICK id : id = memory.counter + 1
          OBVIOUS
        <5>2. saver'[v].written = [of |-> "incident", id |-> id, value |-> puts + 1]
          BY <1>0, <3>0, <4>1, <5>1 DEF CreateIncident
        <5>3. /\ memory'.counter = id /\ id \in DOMAIN memory'.incidents /\ id \in 1..(puts + 1)
              /\ memory'.incidents[id] = puts + 1
          BY <3>0, <4>1, <5>1, IncidentPut
        <5>4. QED BY <5>2, <5>3 DEF Has
      <4>2. CASE \E r \in SavedRows : SaveRow(v, r)
        <5>1. PICK r \in SavedRows : SaveRow(v, r)
          BY <4>2
        <5>2. saver'[v].written = [of |-> "row", id |-> r, value |-> puts + 1]
          BY <1>0, <3>0, <5>1 DEF SaveRow
        <5>3. memory'.rows[r] = puts + 1
          <6>1. r \in Rows
            BY DEF Rows
          <6>2. memory'.rows = [memory.rows EXCEPT ![r] = puts + 1]
            BY <5>1, <6>1, RowPut DEF SaveRow
          <6>3. QED BY <1>0, <6>1, <6>2
        <5>4. puts + 1 <= memory'.rows[r] /\ "row" # "incident"
          BY <1>0, <5>3
        <5>5. QED BY <5>2, <5>4 DEF Has
      <4>3. \A w \in Savers : CreateIncident(w) => w = v
        BY <1>0, <3>0, <3>2 DEF CreateIncident
      <4>4. \A w \in Savers : \A r \in SavedRows : SaveRow(w, r) => w = v
        BY <1>0, <3>0, <3>2 DEF SaveRow
      <4>5. ~\E r \in Rows : WriteUnsaved(r)
        BY <3>2 DEF WriteUnsaved
      <4>6. QED BY <4>1, <4>2, <4>3, <4>4, <4>5
    <3>3. QED BY <3>1, <3>2
  <2>5. QED BY <2>2, <2>3, <2>4 DEF HasAnswered
<1>8. QED BY <1>4, <1>5, <1>6, <1>7 DEF StorageInv, MemoryInv

\* While its request moves on and memory stays, what was written stays there.
LEMMA WrittenStays ==
    ASSUME TypeInv, MemoryInv, UNCHANGED <<memory, answered, sound>>,
           \A v \in Savers : \/ saver'[v] = Free
                             \/ v \in Busy /\ saver'[v].written = saver[v].written
                             \/ saver'[v] = saver[v]
    PROVE  MemoryInv'
<1>1. ASSUME sound', NEW v \in Busy'
      PROVE  Has(memory, saver[v].written)'
  <2>1. v \in Busy /\ saver'[v].written = saver[v].written
    BY <1>1 DEF Busy
  <2>2. QED BY <1>1, <2>1 DEF MemoryInv
<1>2. sound' => HasAnswered(memory)'
  BY DEF MemoryInv, HasAnswered, Has
<1>3. QED BY <1>1, <1>2 DEF MemoryInv

\* Saves collect, and request answers come, without touching memory.
LEMMA SlotSteps ==
    ASSUME TypeInv, NEW w \in Savers
    PROVE  /\ ReadCounter(w) => \A v \in Savers :
                \/ v = w /\ v \in Busy /\ saver'[v].written = saver[v].written
                \/ v # w /\ v \in InSave /\ v \in Busy /\ saver'[v] = [saver[v] EXCEPT !.alone = FALSE]
                         /\ saver'[v].written = saver[v].written /\ saver'[v].pc = saver[v].pc
                \/ v # w /\ v \notin InSave /\ saver'[v] = saver[v]
           /\ ReplaceFile(w) => \A v \in Savers :
                \/ v = w /\ saver'[v] = Free
                \/ v # w /\ v \in Busy /\ saver[v].pc = "write" /\ saver'[v].pc = "write"
                         /\ saver'[v].alone = saver[v].alone /\ saver'[v].written = saver[v].written
                \/ v # w /\ saver[v].pc # "write" /\ saver'[v] = saver[v]
                \/ v # w /\ v \in Busy /\ saver'[v] = saver[v]
<1>1. ASSUME ReadCounter(w), NEW v \in Savers
      PROVE  \/ v = w /\ v \in Busy /\ saver'[v].written = saver[v].written
             \/ v # w /\ v \in InSave /\ v \in Busy /\ saver'[v] = [saver[v] EXCEPT !.alone = FALSE]
                      /\ saver'[v].written = saver[v].written /\ saver'[v].pc = saver[v].pc
             \/ v # w /\ v \notin InSave /\ saver'[v] = saver[v]
  <2>1. CASE v = w
    BY <1>1, <2>1, SlotHolds DEF ReadCounter
  <2>2. CASE v # w /\ v \in InSave
    <3>1. saver'[v] = [saver[v] EXCEPT !.alone = FALSE]
      BY <1>1, <2>2 DEF ReadCounter
    <3>2. saver[v] \in SavingBy(puts) /\ v \in Busy
      BY <2>2, SlotHolds
    <3>3. saver'[v].written = saver[v].written /\ saver'[v].pc = saver[v].pc
      BY <3>1, <3>2 DEF SavingBy
    <3>4. QED BY <2>2, <3>1, <3>2, <3>3
  <2>3. CASE v # w /\ v \notin InSave
    BY <1>1, <2>3 DEF ReadCounter
  <2>4. QED BY <2>1, <2>2, <2>3
<1>2. ASSUME ReplaceFile(w), NEW v \in Savers
      PROVE  \/ v = w /\ saver'[v] = Free
             \/ v # w /\ v \in Busy /\ saver[v].pc = "write" /\ saver'[v].pc = "write"
                      /\ saver'[v].alone = saver[v].alone /\ saver'[v].written = saver[v].written
             \/ v # w /\ saver[v].pc # "write" /\ saver'[v] = saver[v]
             \/ v # w /\ v \in Busy /\ saver'[v] = saver[v]
  <2>1. CASE v = w
    BY <1>2, <2>1 DEF ReplaceFile
  <2>2. ASSUME v # w, saver[v].pc = "write", NEW to, saver'[v] = [saver[v] EXCEPT !.to = to]
        PROVE  /\ v \in Busy /\ saver'[v].pc = "write" /\ saver'[v].alone = saver[v].alone
               /\ saver'[v].written = saver[v].written
    <3>1. v \in Busy /\ saver[v] \in SavingBy(puts)
      BY <2>2, SlotHolds
    <3>2. QED BY <2>2, <3>1 DEF SavingBy
  <2>3. CASE v # w /\ saver[v].pc = "write" /\ saver[v].to = "tmp"
    <3>1. saver'[v] = [saver[v] EXCEPT !.to = "file"]
      BY <1>2, <2>3 DEF ReplaceFile
    <3>2. QED BY <2>2, <2>3, <3>1
  <2>4. CASE v # w /\ saver[v].pc = "write" /\ saver[v].to = "file"
    <3>1. saver'[v] = [saver[v] EXCEPT !.to = "replaced"]
      BY <1>2, <2>4 DEF ReplaceFile
    <3>2. QED BY <2>2, <2>4, <3>1
  <2>5. CASE v # w /\ saver[v].pc = "write" /\ saver[v].to \notin {"tmp", "file"}
    <3>1. saver'[v] = saver[v]
      BY <1>2, <2>5 DEF ReplaceFile
    <3>2. QED BY <2>5, <3>1, SlotHolds
  <2>6. CASE v # w /\ saver[v].pc # "write"
    BY <1>2, <2>6 DEF ReplaceFile
  <2>7. QED BY <2>1, <2>3, <2>4, <2>5, <2>6
<1>3. QED BY <1>1, <1>2

\* The counter is read.
LEMMA ReadCounterStorage ==
    ASSUME TypeInv, StorageInv, NEW w \in Savers, ReadCounter(w)
    PROVE  StorageInv'
<1>0. AloneInv /\ MemoryInv /\ FileInv /\ UNCHANGED <<memory, file, tmp, puts, restarts, answered, solid, sound>>
  BY DEF StorageInv, ReadCounter
<1>1. saver'[w] = [pc |-> "collect", written |-> saver[w].written, counter |-> memory.counter, alone |-> InSave = {}]
  BY DEF ReadCounter
<1>2. w \in Busy /\ saver[w].pc = "save" /\ w \notin InSave
  BY SlotHolds DEF ReadCounter, InSave
<1>3. \A v \in Savers \ {w} : \/ v \in InSave /\ v \in InSave' /\ ~saver'[v].alone
                              \/ v \notin InSave /\ v \notin InSave'
  <2>1. ASSUME NEW v \in Savers, v # w, v \in InSave
        PROVE  v \in InSave' /\ ~saver'[v].alone
    <3>1. saver'[v] = [saver[v] EXCEPT !.alone = FALSE] /\ saver'[v].pc = saver[v].pc
      BY <2>1, SlotSteps
    <3>2. saver[v] \in SavingBy(puts) /\ saver[v].pc \in {"collect", "open", "write", "replace"}
      BY <2>1, SlotHolds DEF InSave
    <3>3. ~saver'[v].alone
      BY <3>1, <3>2 DEF SavingBy
    <3>4. QED BY <3>1, <3>2, <3>3 DEF InSave
  <2>2. ASSUME NEW v \in Savers, v # w, v \notin InSave
        PROVE  v \notin InSave'
    <3>1. saver'[v] = saver[v]
      BY <2>2, SlotSteps
    <3>2. QED BY <2>2, <3>1 DEF InSave
  <2>3. QED BY <2>1, <2>2
<1>4. ASSUME NEW v \in InSave', saver'[v].alone
      PROVE  v = w /\ InSave' = {w}
  <2>1. InSave' \subseteq Savers /\ InSave \subseteq Savers
    BY DEF InSave
  <2>2. v = w
    BY <1>3, <1>4, <2>1
  <2>3. InSave = {}
    <3>1. PICK b \in BOOLEAN : b = (InSave = {})
      OBVIOUS
    <3>2. saver'[w].alone = b
      BY <1>1, <3>1
    <3>3. QED BY <1>4, <2>2, <3>1, <3>2
  <2>4. w \in InSave'
    BY <1>4, <2>2
  <2>5. QED BY <1>3, <2>1, <2>2, <2>3, <2>4
<1>5. AloneInv'
  BY <1>4 DEF AloneInv
<1>6. MemoryInv'
  <2>1. \A v \in Savers : \/ v \in Busy /\ saver'[v].written = saver[v].written
                          \/ saver'[v] = saver[v]
    BY SlotSteps
  <2>2. QED BY <1>0, <2>1, WrittenStays
<1>7. SavesInv'
  <2>1. ASSUME sound', NEW v \in InSave', saver'[v].alone, NEW s, s = saver'[v]
        PROVE  SaveOK(s)'
    <3>1. s.pc = "collect" /\ s.counter = memory.counter /\ s.written = saver[w].written
      BY <1>1, <1>4, <2>1
    <3>2. HasAnswered(memory) /\ Has(memory, saver[w].written)
      BY <1>0, <1>2, <2>1 DEF MemoryInv
    <3>3. \A i \in answered.ids : i.id <= memory.counter
      BY <3>2, AnsweredWritten DEF HasAnswered, Has
    <3>4. s.written.of = "incident" => s.written.id <= memory.counter
      BY <3>1, <3>2 DEF Has
    <3>5. CounterPast(s)'
      BY <1>0, <3>1, <3>3, <3>4 DEF CounterPast
    <3>6. QED BY <3>1, <3>5 DEF SaveOK
  <2>2. QED BY <2>1 DEF SavesInv
<1>8. FileInv'
  <2>1. ASSUME NEW v \in Savers
        PROVE  /\ saver'[v].pc = "open" => saver'[v].to = "tmp"
               /\ solid' /\ saver'[v].pc = "write" => saver'[v].to = "tmp"
    <3>1. CASE v = w
      BY <1>1, <3>1
    <3>2. CASE v # w /\ v \in InSave
      <4>1. saver'[v] = [saver[v] EXCEPT !.alone = FALSE] /\ saver'[v].pc = saver[v].pc
        BY <3>2, SlotSteps
      <4>2. saver[v] \in SavingBy(puts)
        BY <3>2, SlotHolds
      <4>3. saver[v].pc \in {"open", "write"} => saver'[v].to = saver[v].to
        BY <4>1, <4>2 DEF SavingBy
      <4>4. QED BY <1>0, <4>1, <4>3 DEF FileInv
    <3>3. CASE v # w /\ v \notin InSave
      <4>1. saver'[v] = saver[v]
        BY <3>3, SlotSteps
      <4>2. QED BY <1>0, <4>1 DEF FileInv
    <3>4. QED BY <3>1, <3>2, <3>3
  <2>2. sound' /\ solid' => file'.is \in {"absent", "whole"} /\ HasAnswered(file.data)'
    BY <1>0 DEF FileInv, HasAnswered, Has
  <2>3. QED BY <2>1, <2>2 DEF FileInv
<1>9. QED BY <1>5, <1>6, <1>7, <1>8 DEF StorageInv

\* The file stays as it is, and so does what is known of those who write it.
LEMMA FileStays ==
    ASSUME FileInv, UNCHANGED <<file, answered, solid, sound>>,
           NEW w \in Savers, saver' = [saver EXCEPT ![w] = saver'[w]], saver \in [Savers -> SavingBy(puts) \cup {Free, Down}],
           /\ saver'[w].pc = "open" => saver'[w].to = "tmp"
           /\ solid /\ saver'[w].pc = "write" => saver'[w].to = "tmp"
    PROVE  FileInv'
<1>1. \A v \in Savers : v # w => saver'[v] = saver[v]
  OBVIOUS
<1>2. sound' /\ solid' => file'.is \in {"absent", "whole"} /\ HasAnswered(file.data)'
  BY DEF FileInv, HasAnswered, Has
<1>3. \A v \in Savers : /\ saver'[v].pc = "open" => saver'[v].to = "tmp"
                        /\ solid' /\ saver'[v].pc = "write" => saver'[v].to = "tmp"
  BY <1>1 DEF FileInv
<1>4. QED BY <1>2, <1>3 DEF FileInv

\* The collections are taken; or the request fails.
LEMMA CollectStorage ==
    ASSUME TypeInv, StorageInv, NEW w \in Savers, Collect(w) \/ CollectRaises(w) \/ ReplaceRaises(w)
    PROVE  StorageInv'
<1>0. /\ AloneInv /\ MemoryInv /\ SavesInv /\ FileInv
      /\ UNCHANGED <<memory, file, tmp, puts, restarts, answered, solid, sound>>
      /\ saver \in [Savers -> SavingBy(puts) \cup {Free, Down}]
  BY DEF StorageInv, Collect, CollectRaises, ReplaceRaises, TypeInv
<1>1. w \in InSave /\ w \in Busy
  BY SlotHolds DEF Collect, CollectRaises, ReplaceRaises, InSave
<1>2. saver' = [saver EXCEPT ![w] = saver'[w]] /\ \A v \in Savers : v # w => saver'[v] = saver[v]
  BY <1>0 DEF Collect, CollectRaises, ReplaceRaises
<1>3. CASE saver'[w] = Free
  <2>1. Free.pc = "free"
    BY DEF Free
  <2>2. w \notin InSave'
    BY <1>3, <2>1 DEF InSave
  <2>3. AloneInv' /\ SavesInv'
    BY <1>0, <1>1, <1>2, <2>2, SaveMoves
  <2>4. MemoryInv'
    BY <1>0, <1>2, <1>3, WrittenStays
  <2>5. FileInv'
    BY <1>0, <1>2, <1>3, <2>1, FileStays
  <2>6. QED BY <2>3, <2>4, <2>5 DEF StorageInv
<1>4. CASE Collect(w)
  <2>1. saver'[w] = [pc |-> "open", written |-> saver[w].written, alone |-> saver[w].alone,
                     data |-> Collected(w), to |-> "tmp"]
    BY <1>0, <1>4 DEF Collect
  <2>2. sound /\ saver[w].alone => SaveOK(saver[w]) /\ HasAnswered(memory) /\ Has(memory, saver[w].written)
    BY <1>0, <1>1 DEF SavesInv, MemoryInv
  <2>3. /\ saver[w].written \in WrittenBy(puts) /\ saver[w].pc = "collect"
        /\ Collected(w).counter = saver[w].counter /\ Collected(w).incidents = memory.incidents
        /\ \A r \in SavedRows : Collected(w).rows[r] = memory.rows[r]
    BY <1>1, <1>4, SlotHolds DEF Collect, Collected, Rows, PersistedRows
  <2>4. ASSUME sound, saver[w].alone
        PROVE  HasAnswered(Collected(w)) /\ Has(Collected(w), saver[w].written)
    <3>1. CounterPast(saver[w]) /\ HasAnswered(memory) /\ Has(memory, saver[w].written)
      BY <2>2, <2>3, <2>4 DEF SaveOK
    <3>2. \A i \in answered.ids : Has(Collected(w), i)
      BY <2>3, <3>1, AnsweredWritten DEF Has, HasAnswered, CounterPast
    <3>3. Has(Collected(w), saver[w].written)
      BY <2>3, <3>1 DEF Has, CounterPast, WrittenBy
    <3>4. QED BY <2>3, <3>1, <3>2, <3>3 DEF HasAnswered
  <2>5. PICK s : s = saver'[w]
    OBVIOUS
  <2>6. s.pc = "open" /\ s.written = saver[w].written /\ s.alone = saver[w].alone
        /\ s.data = Collected(w) /\ s.to = "tmp"
    BY <2>1, <2>5
  <2>7. sound' /\ s.alone => SaveOK(s)'
    BY <1>0, <2>4, <2>6 DEF SaveOK, HasAnswered, Has
  <2>8. AloneInv' /\ SavesInv'
    BY <1>0, <1>1, <1>2, <2>5, <2>6, <2>7, SaveMoves
  <2>9. MemoryInv'
    BY <1>0, <1>1, <1>2, <2>5, <2>6, WrittenStays
  <2>10. FileInv'
    BY <1>0, <1>2, <2>5, <2>6, FileStays
  <2>11. QED BY <2>8, <2>9, <2>10 DEF StorageInv
<1>5. QED BY <1>0, <1>3, <1>4 DEF CollectRaises, ReplaceRaises

\* The temporary file is opened, and written.
LEMMA TmpStorage ==
    ASSUME TypeInv, StorageInv, NEW w \in Savers, OpenTmp(w) \/ WriteTmp(w)
    PROVE  StorageInv'
<1>0. /\ AloneInv /\ MemoryInv /\ SavesInv /\ FileInv
      /\ UNCHANGED <<memory, puts, restarts, answered, solid, sound>>
      /\ saver \in [Savers -> SavingBy(puts) \cup {Free, Down}]
  BY DEF StorageInv, OpenTmp, WriteTmp, TypeInv
<1>1. w \in InSave /\ w \in Busy
  BY SlotHolds DEF OpenTmp, WriteTmp, InSave
<1>2. saver' = [saver EXCEPT ![w] = saver'[w]] /\ \A v \in Savers : v # w => saver'[v] = saver[v]
  BY <1>0 DEF OpenTmp, WriteTmp
<1>3. PICK s : s = saver'[w]
  OBVIOUS
<1>4. /\ s.written = saver[w].written /\ s.alone = saver[w].alone /\ s.data = saver[w].data /\ s.to = saver[w].to
      /\ OpenTmp(w) => s.pc = "write"
      /\ WriteTmp(w) => s.pc = "replace"
  BY <1>0, <1>1, <1>3, SlotHolds DEF OpenTmp, WriteTmp, SavingBy
<1>5. MemoryInv'
  BY <1>0, <1>1, <1>2, <1>3, <1>4, WrittenStays
<1>6. sound /\ saver[w].alone => SaveOK(saver[w])
  BY <1>0, <1>1 DEF SavesInv
<1>7. CASE OpenTmp(w)
  <2>1. saver[w].pc = "open" /\ tmp' = Truncated /\ file' = file /\ saver[w].to = "tmp"
    BY <1>0, <1>7 DEF OpenTmp, FileInv
  <2>2. sound' /\ s.alone => SaveOK(s)'
    BY <1>0, <1>4, <1>6, <1>7, <2>1 DEF SaveOK, HasAnswered, Has
  <2>3. AloneInv' /\ SavesInv'
    BY <1>0, <1>1, <1>2, <1>3, <1>4, <2>2, SaveMoves
  <2>4. FileInv'
    BY <1>0, <1>2, <1>3, <1>4, <1>7, <2>1, FileStays
  <2>5. QED BY <1>5, <2>3, <2>4 DEF StorageInv
<1>8. CASE WriteTmp(w)
  <2>1. ASSUME sound, saver[w].alone
        PROVE  tmp' = Contents("whole", saver[w].data)
    <3>1. saver[w].pc = "write" /\ saver[w].to = "tmp" /\ tmp = Truncated
      BY <1>6, <1>8, <2>1 DEF SaveOK, WriteTmp
    <3>2. InSave = {w}
      BY <1>0, <1>1, <2>1 DEF AloneInv
    <3>3. \A v \in Savers \ {w} : saver[v].pc # "write"
      BY <3>2 DEF InSave
    <3>4. Outcomes(w, tmp) = {Contents("whole", saver[w].data)}
      BY <3>1, <3>3 DEF Outcomes
    <3>5. tmp' \in Outcomes(w, tmp)
      BY <1>8, <3>1 DEF WriteTmp
    <3>6. QED BY <3>4, <3>5
  <2>2. saver[w].pc = "write"
    BY <1>8 DEF WriteTmp
  <2>3. sound' /\ s.alone => SaveOK(s)'
    BY <1>0, <1>4, <1>6, <1>8, <2>1, <2>2 DEF SaveOK, HasAnswered, Has
  <2>4. AloneInv' /\ SavesInv'
    BY <1>0, <1>1, <1>2, <1>3, <1>4, <2>3, SaveMoves
  <2>5. FileInv'
    <3>1. CASE solid
      <4>1. saver[w].to = "tmp"
        BY <1>0, <2>2, <3>1 DEF FileInv
      <4>2. file' = file
        BY <1>8, <4>1 DEF WriteTmp
      <4>3. QED BY <1>0, <1>2, <1>3, <1>4, <1>8, <4>2, FileStays
    <3>2. CASE ~solid
      <4>1. \A v \in Savers : saver'[v].pc = "open" => saver'[v].to = "tmp"
        BY <1>0, <1>2, <1>3, <1>4, <1>8 DEF FileInv
      <4>2. QED BY <1>0, <3>2, <4>1 DEF FileInv
    <3>3. QED BY <3>1, <3>2
  <2>6. QED BY <1>5, <2>4, <2>5 DEF StorageInv
<1>9. QED BY <1>7, <1>8

\* The temporary file replaces the file, and the request is answered.
LEMMA ReplaceStorage ==
    ASSUME TypeInv, StorageInv, NEW w \in Savers, ReplaceFile(w)
    PROVE  StorageInv'
<1>0. /\ AloneInv /\ MemoryInv /\ SavesInv /\ FileInv
      /\ UNCHANGED <<memory, puts, restarts, sound>> /\ file' = tmp /\ solid' = saver[w].alone
      /\ saver[w].pc = "replace"
  BY DEF StorageInv, ReplaceFile
<1>1. w \in InSave /\ w \in Busy /\ saver[w].written \in WrittenBy(puts)
  BY SlotHolds DEF ReplaceFile, InSave
<1>2. \A v \in InSave' : v # w /\ v \in InSave /\ saver'[v].alone = saver[v].alone
  <2>1. ASSUME NEW v \in InSave'
        PROVE  v # w /\ v \in InSave /\ saver'[v].alone = saver[v].alone
    <3>1. v \in Savers /\ saver'[v].pc \in {"collect", "open", "write", "replace"} /\ Free.pc = "free"
      BY <2>1 DEF InSave, Free
    <3>2. QED BY <3>1, SlotSteps DEF InSave
  <2>2. QED BY <2>1
<1>3. \A v \in InSave' : ~saver'[v].alone
  <2>1. ASSUME NEW v \in InSave', saver'[v].alone
        PROVE  FALSE
    BY <1>0, <1>1, <1>2, <2>1, NoneElseAlone
  <2>2. \A v \in InSave' : saver'[v].alone \in BOOLEAN
    BY <1>2, SlotHolds DEF InSave
  <2>3. QED BY <2>1, <2>2
<1>4. AloneInv' /\ SavesInv'
  BY <1>3 DEF AloneInv, SavesInv
<1>5. ASSUME NEW data, HasAnswered(data), Has(data, saver[w].written)
      PROVE  HasAnswered(data)'
  <2>0. answered' = Answered(saver[w].written)
    BY DEF ReplaceFile
  <2>1. CASE saver[w].written.of = "incident"
    <3>1. answered'.ids = answered.ids \cup {saver[w].written} /\ answered'.rows = answered.rows
      BY <2>0, <2>1 DEF Answered, TypeInv
    <3>2. QED BY <1>5, <3>1 DEF HasAnswered
  <2>2. CASE saver[w].written.of # "incident"
    <3>1. saver[w].written.id \in SavedRows /\ saver[w].written.value <= data.rows[saver[w].written.id]
      BY <1>1, <1>5, <2>2 DEF WrittenBy, Has
    <3>2. PICK value : /\ value \in {answered.rows[saver[w].written.id], saver[w].written.value}
                       /\ answered' = [answered EXCEPT !.rows[saver[w].written.id] = value]
      BY <2>0, <2>2, <3>1 DEF Answered, TypeInv
    <3>3. answered'.ids = answered.ids /\ answered'.rows = [answered.rows EXCEPT ![saver[w].written.id] = value]
      BY <3>2 DEF TypeInv
    <3>4. \A r \in SavedRows : answered'.rows[r] <= data.rows[r]
      BY <1>5, <3>1, <3>2, <3>3 DEF HasAnswered, TypeInv
    <3>5. QED BY <1>5, <3>3, <3>4 DEF HasAnswered
  <2>3. QED BY <2>1, <2>2
<1>6. MemoryInv'
  <2>1. ASSUME sound
        PROVE  HasAnswered(memory)'
    <3>1. PICK data : data = memory
      OBVIOUS
    <3>2. HasAnswered(data)'
      BY <1>0, <1>1, <1>5, <2>1, <3>1 DEF MemoryInv
    <3>3. QED BY <1>0, <3>1, <3>2
  <2>2. ASSUME sound, NEW v \in Busy'
        PROVE  Has(memory, saver[v].written)'
    <3>1. v \in Savers /\ saver'[v] # Free
      BY <2>2 DEF Busy
    <3>2. v \in Busy /\ saver'[v].written = saver[v].written
      BY <2>2, <3>1, SlotSteps DEF Busy
    <3>3. QED BY <1>0, <2>2, <3>2 DEF MemoryInv
  <2>3. QED BY <1>0, <2>1, <2>2 DEF MemoryInv
<1>7. CASE saver[w].alone
  <2>1. InSave = {w}
    BY <1>0, <1>1, <1>7 DEF AloneInv
  <2>2. InSave' = {}
    BY <1>2, <2>1
  <2>3. \A v \in Savers : saver'[v].pc \notin {"open", "write"}
    BY <2>2 DEF InSave
  <2>4. ASSUME sound
        PROVE  file'.is = "whole" /\ HasAnswered(file.data)'
    <3>1. PICK data : data = saver[w].data
      OBVIOUS
    <3>2. tmp = Contents("whole", data) /\ HasAnswered(data) /\ Has(data, saver[w].written)
      BY <1>0, <1>1, <1>7, <2>4, <3>1 DEF SavesInv, SaveOK
    <3>3. HasAnswered(data)'
      BY <1>5, <3>2
    <3>4. file'.is = "whole" /\ file'.data = data
      BY <1>0, <3>2 DEF Contents
    <3>5. QED BY <3>3, <3>4
  <2>5. FileInv'
    BY <1>0, <2>3, <2>4 DEF FileInv
  <2>6. QED BY <1>4, <1>6, <2>5 DEF StorageInv
<1>8. CASE ~saver[w].alone
  <2>1. \A v \in Savers : saver'[v].pc = "open" => saver'[v].to = "tmp"
    <3>1. ASSUME NEW v \in Savers, saver'[v].pc = "open"
          PROVE  saver'[v].to = "tmp"
      <4>1. saver'[v] = saver[v]
        BY <3>1, SlotSteps DEF Free
      <4>2. QED BY <1>0, <3>1, <4>1 DEF FileInv
    <3>2. QED BY <3>1
  <2>2. FileInv'
    BY <1>0, <1>8, <2>1 DEF FileInv
  <2>3. QED BY <1>4, <1>6, <2>2 DEF StorageInv
<1>9. QED BY <1>7, <1>8

\* The process starts from the file.
LEMMA RestartStorage ==
    ASSUME TypeInv, StorageInv, Restart
    PROVE  StorageInv'
<1>1. \A v \in Savers : saver'[v] \in {Free, Down} /\ saver'[v].pc \in {"free", "down"}
  BY DEF Restart, Free, Down
<1>2. InSave' = {} /\ Busy' = {}
  BY <1>1 DEF InSave, Busy
<1>3. /\ memory' = file.data /\ UNCHANGED <<file, tmp, puts, answered, solid>> /\ sound' = (sound /\ solid)
      /\ FileInv
  BY DEF Restart, Load, StorageInv
<1>4. MemoryInv'
  BY <1>2, <1>3 DEF MemoryInv, FileInv, HasAnswered
<1>5. FileInv'
  BY <1>1, <1>3 DEF FileInv, HasAnswered
<1>6. QED BY <1>2, <1>4, <1>5 DEF StorageInv, AloneInv, SavesInv

\* Every step keeps the invariant.
LEMMA StorageNext == TypeInv /\ StorageInv /\ [FileNext]_fileVars => StorageInv'
<1> SUFFICES ASSUME TypeInv, StorageInv, [FileNext]_fileVars PROVE StorageInv'
  OBVIOUS
<1>1. CASE UNCHANGED fileVars
  BY <1>1 DEF fileVars, StorageInv, AloneInv, MemoryInv, SavesInv, FileInv, InSave, Busy, SaveOK, HasAnswered,
              Has, CounterPast
<1>2. CASE \/ \E r \in Rows \ SavedRows : WriteUnsaved(r)
           \/ \E w \in Savers : CreateIncident(w) \/ \E r \in SavedRows : SaveRow(w, r)
  BY <1>2, PutStorage DEF WriteUnsaved, CreateIncident, SaveRow
<1>3. QED BY <1>1, <1>2, ReadCounterStorage, CollectStorage, TmpStorage, ReplaceStorage, RestartStorage DEF FileNext

\* Initially nothing was answered and nothing is being saved.
LEMMA StorageInit == FileInit => StorageInv
<1> SUFFICES ASSUME FileInit PROVE StorageInv OBVIOUS
<1>1. InSave = {} /\ Busy = {} /\ \A w \in Savers : saver[w].pc = "free"
  BY DEF FileInit, InSave, Busy, Free
<1>2. HasAnswered(memory) /\ HasAnswered(file.data) /\ file.is = "absent"
  BY DEF FileInit, HasAnswered, Empty, NoFile, Contents, Rows
<1>3. QED BY <1>1, <1>2 DEF StorageInv, AloneInv, MemoryInv, SavesInv, FileInv

-----------------------------------------------------------------------------
(* Theorems. *)

\* Every variable of the file backend has its type, and only a save that is
\* alone says so (SharedDemoFileStorage).
THEOREM FileTypes == FileSpec => []FileTypeOK
<1>1. ASSUME TypeInv, AloneInv
      PROVE  FileTypeOK
  <2>1. puts \in Nat /\ puts <= MaxPuts /\ 0..puts \subseteq 0..MaxPuts /\ 1..puts \subseteq 1..MaxPuts
    BY <1>1, FileAssumption DEF TypeInv
  <2>2. ASSUME NEW data \in StoredBy(puts)
        PROVE  data \in Stored
    <3>1. data.incidents \in UNION {[ids -> 1..MaxPuts] : ids \in SUBSET (1..MaxPuts)}
      <4>1. /\ data.incidents \in [DOMAIN data.incidents -> 1..puts]
            /\ DOMAIN data.incidents \subseteq 1..puts
        BY <2>1, <2>2, StoredIncidents
      <4>2. PICK ids : ids = DOMAIN data.incidents
        OBVIOUS
      <4>3. ids \in SUBSET (1..MaxPuts) /\ data.incidents \in [ids -> 1..MaxPuts]
        BY <2>1, <4>1, <4>2
      <4>4. QED BY <4>3
    <3>2. data.counter \in 0..MaxPuts /\ data.rows \in [Rows -> 0..MaxPuts]
      BY <2>1, <2>2 DEF StoredBy
    <3>3. QED BY <3>1, <3>2 DEF StoredBy, Stored
  <2>3. memory \in Stored /\ {file, tmp} \subseteq [is : {"absent", "partial", "torn", "whole"}, data : Stored]
    BY <1>1, <2>2 DEF TypeInv, FileBy
  <2>4. QED BY <1>1, <2>3 DEF TypeInv, AloneInv, FileTypeOK
<1>2. QED BY <1>1, TypeInit, TypeNext, StorageInit, StorageNext, PTL DEF FileSpec, StorageInv

\* What a client was told is in the file, and the file can be loaded, at every
\* moment at which the process may die, unless the save that made the file
\* overlapped with another one, or an earlier start loaded such a file
\* (SharedDemoFileStorage._save and _load).
THEOREM AnswersSaved == FileSpec => []AnsweredIsSaved
<1>1. TypeInv /\ StorageInv => AnsweredIsSaved
  BY AnsweredWritten DEF StorageInv, FileInv, HasAnswered, Has, AnsweredIsSaved
<1>2. QED BY <1>1, TypeInit, TypeNext, StorageInit, StorageNext, PTL DEF FileSpec

\* An incident id that a client was given names that incident from then on,
\* across restarts, though the counter and the incidents are collected at
\* different moments (MemoryStorage.create_incident, _save).
THEOREM IncidentIdsKept == FileSpec => []IncidentIdsStand
<1>1. TypeInv /\ StorageInv => IncidentIdsStand
  BY AnsweredWritten DEF StorageInv, MemoryInv, HasAnswered, Has, IncidentIdsStand
<1>2. QED BY <1>1, TypeInit, TypeNext, StorageInit, StorageNext, PTL DEF FileSpec

-----------------------------------------------------------------------------
(* The modules together.                                                    *)

\* Run together, whatever the scene, the ingress, the profiling, the setup engine
\* and the file backend keep rows, requests and files well formed: a scene allows
\* some of the steps of one module.
THEOREM IntakeTypes == IntakeSpec => []IntakeTypeOK
<1>1. IntakeInit => IngressInit /\ ProfilingInit /\ SetupInit /\ FileInit
  BY DEF IntakeInit
<1>2. [IntakeNext]_<<ingressVars, profilingVars, setupVars, fileVars, focus>>
        => /\ [IngressNext]_ingressVars /\ [ProfilingNext]_profilingVars
           /\ [SetupNext]_setupVars /\ [FileNext]_fileVars
  BY DEF IntakeNext, Deliver, Profile, SetUp, Save
<1>3. IngressTypeOK /\ ProfilingTypeOK /\ SetupTypeOK /\ FileTypeOK => IntakeTypeOK
  BY DEF IntakeTypeOK
<1>4. QED
  BY <1>1, <1>2, <1>3, IngressTypeCorrect, ProfilingTypes, SetupTypes, FileTypes, PTL
     DEF IntakeSpec, IngressSpec, ProfilingSpec, SetupSpec, FileSpec
=============================================================================

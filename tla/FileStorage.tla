----------------------------- MODULE FileStorage -----------------------------
(***************************************************************************)
(* The shared demo backend: all rows are in memory, and an operation that  *)
(* saves writes all collections that are persisted to one JSON file, by    *)
(* way of a temporary file that replaces it.                               *)
(*                                                                         *)
(* Requests run in threads of one process and take no lock: a save is a    *)
(* step for the counter, one for the collections, and one for each call to *)
(* the file system.  Two saves share the temporary file.                   *)
(*                                                                         *)
(* answered, solid and sound are history: what clients were told; that the *)
(* save which made the file ran alone; that every file loaded was one.     *)
(***************************************************************************)
EXTENDS Integers, FiniteSets

CONSTANTS
    SavedRows,      \* rows of collections whose operations save
    ListedRows,     \* of collections that are persisted, and do not save
    ListRows,       \* the same, with a list as the value of a key
    VolatileRows,   \* of collections that are not persisted
    Savers,         \* requests in flight
    MaxPuts,        \* bound: rows and incidents written
    MaxRestarts     \* bound: restarts of the process

Rows == SavedRows \cup ListedRows \cup ListRows \cup VolatileRows
PersistedRows == SavedRows \cup ListedRows

ASSUME FileAssumption == MaxPuts \in Nat /\ MaxRestarts \in Nat

VARIABLES
    memory,         \* [counter, incidents, rows]: incident id -> what was written, row -> ditto
    file,           \* the file: absent, partial, torn or whole
    tmp,            \* the temporary file
    saver,          \* slot -> the request it runs
    puts, restarts,
    answered,       \* [ids: incident ids answered, with what was written; rows]
    solid, sound

fileVars == <<memory, file, tmp, saver, puts, restarts, answered, solid, sound>>

-----------------------------------------------------------------------------
Empty == [counter |-> 0, incidents |-> [i \in {} |-> 0], rows |-> [r \in Rows |-> 0]]
Contents(is, data) == [is |-> is, data |-> data]
NoFile == Contents("absent", Empty)
Truncated == Contents("partial", Empty)
TornFile == Contents("torn", Empty)

Free == [pc |-> "free"]
Down == [pc |-> "down"]     \* the process does not start

FileInit ==
    /\ memory = Empty
    /\ file = NoFile /\ tmp = NoFile
    /\ saver = [w \in Savers |-> Free]
    /\ puts = 0 /\ restarts = 0
    /\ answered = [ids |-> {}, rows |-> [r \in SavedRows |-> 0]]
    /\ solid = TRUE /\ sound = TRUE

Running == \E w \in Savers : saver[w] # Down

-----------------------------------------------------------------------------
(* MemoryStorage: each written value is told from all others by its number. *)

(* the next id, for an incident that has none of its own *)
CreateIncident(w) ==
    /\ saver[w] = Free
    /\ puts < MaxPuts
    /\ LET id == memory.counter + 1
           ids == DOMAIN memory.incidents \cup {id}
       IN  /\ memory' = [memory EXCEPT !.counter = id,
                           !.incidents = [i \in ids |-> IF i = id THEN puts + 1 ELSE @[i]]]
           /\ saver' = [saver EXCEPT ![w] =
                [pc |-> "save", written |-> [of |-> "incident", id |-> id, value |-> puts + 1]]]
    /\ puts' = puts + 1
    /\ UNCHANGED <<file, tmp, restarts, answered, solid, sound>>

SaveRow(w, r) ==
    /\ saver[w] = Free
    /\ puts < MaxPuts
    /\ memory' = [memory EXCEPT !.rows[r] = puts + 1]
    /\ saver' = [saver EXCEPT ![w] =
         [pc |-> "save", written |-> [of |-> "row", id |-> r, value |-> puts + 1]]]
    /\ puts' = puts + 1
    /\ UNCHANGED <<file, tmp, restarts, answered, solid, sound>>

(* the operations that SharedDemoFileStorage inherits *)
WriteUnsaved(r) ==
    /\ Running
    /\ puts < MaxPuts
    /\ memory' = [memory EXCEPT !.rows[r] = puts + 1]
    /\ puts' = puts + 1
    /\ UNCHANGED <<file, tmp, saver, restarts, answered, solid, sound>>

-----------------------------------------------------------------------------
(* _save. *)

InSave == {w \in Savers : saver[w].pc \in {"collect", "open", "write", "replace"}}

ReadCounter(w) ==
    /\ saver[w].pc = "save"
    /\ saver' = [v \in Savers |->
         IF v = w THEN [pc |-> "collect", written |-> saver[w].written,
                        counter |-> memory.counter, alone |-> InSave = {}]
         ELSE IF v \in InSave THEN [saver[v] EXCEPT !.alone = FALSE] ELSE saver[v]]
    /\ UNCHANGED <<memory, file, tmp, puts, restarts, answered, solid, sound>>

Collected(w) ==
    [counter |-> saver[w].counter, incidents |-> memory.incidents,
     rows |-> [r \in Rows |-> IF r \in PersistedRows THEN memory.rows[r] ELSE 0]]

Collect(w) ==
    /\ saver[w].pc = "collect"
    /\ \A r \in ListRows : memory.rows[r] = 0
    /\ saver' = [saver EXCEPT ![w] =
         [pc |-> "open", written |-> saver[w].written, alone |-> saver[w].alone,
          data |-> Collected(w), to |-> "tmp"]]
    /\ UNCHANGED <<memory, file, tmp, puts, restarts, answered, solid, sound>>

(* a list has no to_dict, and a collection that another request changes     *)
(* cannot be iterated: the request fails, what it wrote stays in memory     *)
CollectRaises(w) ==
    /\ saver[w].pc = "collect"
    /\ \/ \E r \in ListRows : memory.rows[r] # 0
       \/ \E v \in Savers \ {w} : saver[v] # Free
    /\ saver' = [saver EXCEPT ![w] = Free]
    /\ UNCHANGED <<memory, file, tmp, puts, restarts, answered, solid, sound>>

\* Mutant: the file is written in its place.
OpenFile(w) ==
    /\ saver[w].pc = "open"
    /\ file' = Truncated
    /\ tmp' = Truncated
    /\ saver' = [saver EXCEPT ![w].pc = "write"]
    /\ UNCHANGED <<memory, puts, restarts, answered, solid, sound>>

(* the temporary file is created, or truncated under whoever has it open *)
OpenTmp(w) ==
    /\ saver[w].pc = "open"
    /\ tmp' = Truncated
    /\ saver' = [saver EXCEPT ![w].pc = "write"]
    /\ UNCHANGED <<memory, file, puts, restarts, answered, solid, sound>>

(* what two writers leave in one file may be neither's *)
Outcomes(w, current) ==
    {Contents("whole", saver[w].data)} \cup
        IF \/ current # Truncated
           \/ \E v \in Savers \ {w} : saver[v].pc = "write" /\ saver[v].to = saver[w].to
        THEN {TornFile} ELSE {}

(* an open file is still open under its new name, or when it has none *)
WriteTmp(w) ==
    /\ saver[w].pc = "write"
    /\ CASE saver[w].to = "tmp" -> tmp' \in Outcomes(w, tmp) /\ UNCHANGED file
         [] saver[w].to = "file" -> file' \in Outcomes(w, file) /\ UNCHANGED tmp
         [] saver[w].to = "replaced" -> UNCHANGED <<file, tmp>>
    /\ saver' = [saver EXCEPT ![w].pc = "replace"]
    /\ UNCHANGED <<memory, puts, restarts, answered, solid, sound>>

Answered(written) ==
    IF written.of = "incident" THEN [answered EXCEPT !.ids = @ \cup {written}]
    ELSE [answered EXCEPT !.rows[written.id] = IF @ < written.value THEN written.value ELSE @]

(* ... and the request is answered *)
ReplaceFile(w) ==
    /\ saver[w].pc = "replace"
    /\ tmp # NoFile
    /\ file' = tmp
    /\ tmp' = NoFile
    /\ saver' = [v \in Savers |->
         CASE v = w -> Free
           [] v # w /\ saver[v].pc = "write" /\ saver[v].to = "tmp" -> [saver[v] EXCEPT !.to = "file"]
           [] v # w /\ saver[v].pc = "write" /\ saver[v].to = "file" -> [saver[v] EXCEPT !.to = "replaced"]
           [] OTHER -> saver[v]]
    /\ answered' = Answered(saver[w].written)
    /\ solid' = saver[w].alone
    /\ UNCHANGED <<memory, puts, restarts, sound>>

(* another save has taken the temporary file: FileNotFoundError *)
ReplaceRaises(w) ==
    /\ saver[w].pc = "replace"
    /\ tmp = NoFile
    /\ saver' = [saver EXCEPT ![w] = Free]
    /\ UNCHANGED <<memory, file, tmp, puts, restarts, answered, solid, sound>>

-----------------------------------------------------------------------------
(* _load: a file that is not whole raises, and the process does not start.  *)

\* Mutant: the ids start again.
LoadWithoutCounter(contents) == [contents.data EXCEPT !.counter = 0]

Load(contents) == contents.data

Restart ==
    /\ restarts < MaxRestarts
    /\ restarts' = restarts + 1
    /\ memory' = Load(file)
    /\ saver' = [w \in Savers |-> IF file.is \in {"absent", "whole"} THEN Free ELSE Down]
    /\ sound' = (sound /\ solid)
    /\ UNCHANGED <<file, tmp, puts, answered, solid>>

FileNext ==
    \/ \E r \in Rows \ SavedRows : WriteUnsaved(r)
    \/ \E w \in Savers :
         \/ CreateIncident(w)
         \/ \E r \in SavedRows : SaveRow(w, r)
         \/ ReadCounter(w)
         \/ Collect(w)
         \/ CollectRaises(w)
         \/ OpenTmp(w)
         \/ WriteTmp(w)
         \/ ReplaceFile(w)
         \/ ReplaceRaises(w)
    \/ Restart

FileSpec == FileInit /\ [][FileNext]_fileVars

-----------------------------------------------------------------------------
Stored == [counter : 0..MaxPuts, incidents : UNION {[ids -> 1..MaxPuts] : ids \in SUBSET (1..MaxPuts)},
           rows : [Rows -> 0..MaxPuts]]

(* Every variable has its type; only a save that is alone among the savers  *)
(* says so.                                                                 *)
FileTypeOK ==
    /\ memory \in Stored
    /\ {file, tmp} \subseteq [is : {"absent", "partial", "torn", "whole"}, data : Stored]
    /\ \A w \in InSave : saver[w].alone => InSave = {w}
    /\ puts \in 0..MaxPuts /\ restarts \in 0..MaxRestarts
    /\ solid \in BOOLEAN /\ sound \in BOOLEAN

(* What a client was told is in the file, and the file can be loaded, at    *)
(* every moment at which the process may die: in the middle of a save, with *)
(* a temporary file left from an earlier one, and again after saves that    *)
(* overlapped as soon as one has run alone.  Not so of the file that        *)
(* overlapping saves leave: it may be older than an answer, or not even be  *)
(* JSON (storage.py:1456, 1473-1502).                                       *)
AnsweredIsSaved ==
    sound /\ solid =>
        /\ file.is \in {"absent", "whole"}
        /\ \A i \in answered.ids :
             i.id \in DOMAIN file.data.incidents /\ file.data.incidents[i.id] = i.value
        /\ \A r \in SavedRows : file.data.rows[r] >= answered.rows[r]

(* An incident id that a client was given names that incident from then on, *)
(* across restarts: no other incident gets it, though the counter and the   *)
(* incidents are collected at different moments (storage.py:746-765, 1477,  *)
(* 1491-1492).                                                              *)
IncidentIdsStand ==
    sound => \A i \in answered.ids :
        /\ i.id \in DOMAIN memory.incidents
        /\ memory.incidents[i.id] = i.value
=============================================================================

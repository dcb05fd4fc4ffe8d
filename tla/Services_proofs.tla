--------------------------- MODULE Services_proofs ---------------------------
(***************************************************************************)
(* Proofs about module Services: a behaviour of it is one of each service, *)
(* so what a service keeps is kept here.  The proofs about Llm and Mcp are *)
(* in modules of their own, which Services instantiates; those about       *)
(* Embed, Snapshots and Schema are here, for any numbers of rows, changes, *)
(* failures, restarts, windows, saves, programs and statements.            *)
(***************************************************************************)
EXTENDS Services, TLAPS

-----------------------------------------------------------------------------
(* Embed.                                                                  *)

Typed ==
  /\ DOMAIN table = Vectors!Id /\ table = [i \in Vectors!Id |-> table[i]]
  /\ text = [i \in Vectors!Id |-> text[i]]
  /\ DOMAIN worker.batch \subseteq Vectors!Id
  /\ raced \subseteq Vectors!Id

(* An id that was never given out has left nothing anywhere.               *)
Unborn == \A i \in Vectors!Id \ born : table[i] = Vectors!NoVec /\ text[i] = 0 /\ i \notin DOMAIN worker.batch

IInv == Typed /\ Unborn /\ Vectors!CacheMatchesTable /\ Vectors!StaleOnlyByRace

LEMMA Initial == Vectors!Init => IInv
  BY DEF Vectors!Init, IInv, Typed, Unborn, Vectors!CacheMatchesTable, Vectors!StaleOnlyByRace, Vectors!Idle, Vectors!NoBatch, Vectors!Empty

(* What is written to the table and its copy is the same.                  *)
LEMMA Copied ==
  ASSUME NEW new, Typed, Vectors!CacheMatchesTable, Vectors!Write(new)
  PROVE  /\ Vectors!CacheMatchesTable'
         /\ table' = [i \in Vectors!Id |-> table'[i]] /\ DOMAIN table' = Vectors!Id
         /\ \A i \in Vectors!Id : table'[i] = IF i \in DOMAIN new THEN new[i] ELSE table[i]
  BY DEF Vectors!Write, Vectors!Update, Vectors!CacheUpdate, Vectors!CacheMatchesTable, Typed, Vectors!Empty

LEMMA Adding ==
  ASSUME IInv, NEW i \in Vectors!Id, Vectors!NoteAdd(i)
  PROVE  IInv'
<1>1. /\ i \notin born /\ table[i] = Vectors!NoVec /\ i \notin DOMAIN worker.batch
      /\ text' = [text EXCEPT ![i] = 1] /\ born' = born \cup {i} /\ worker' = worker /\ raced' = raced
  BY DEF Vectors!NoteAdd, IInv, Unborn
<1>2. /\ Vectors!CacheMatchesTable'
      /\ table' = [k \in Vectors!Id |-> table'[k]] /\ DOMAIN table' = Vectors!Id
      /\ \A k \in Vectors!Id \ {i} : table'[k] = table[k]
      /\ table'[i] = Vectors!NoVec \/ table'[i].text = 1
  <2>1. CASE indexing
    BY <1>1, <2>1 DEF Vectors!NoteAdd, IInv, Typed, Vectors!CacheMatchesTable
  <2>2. CASE ~indexing
    <3>. DEFINE new == [k \in {i} |-> [model |-> "local", text |-> 1]]
    <3>1. Vectors!Write(new) /\ DOMAIN new = {i} /\ new[i].text = 1
      BY <2>2 DEF Vectors!NoteAdd
    <3>. HIDE DEF new
    <3>. QED
      BY <3>1, Copied DEF IInv
  <2>. QED
    BY <2>1, <2>2
<1>3. text' = [k \in Vectors!Id |-> text'[k]] /\ text'[i] = 1 /\ \A k \in Vectors!Id \ {i} : text'[k] = text[k]
  BY <1>1 DEF IInv, Typed
<1>4. Typed' /\ Unborn'
  BY <1>1, <1>2, <1>3 DEF IInv, Typed, Unborn
<1>5. Vectors!StaleOnlyByRace'
  BY <1>1, <1>2, <1>3 DEF IInv, Vectors!StaleOnlyByRace
<1>. QED
  BY <1>2, <1>4, <1>5 DEF IInv

LEMMA Deleting ==
  ASSUME IInv, NEW i \in Vectors!Id, Vectors!NoteDelete(i)
  PROVE  IInv'
<1>1. text' = [text EXCEPT ![i] = 0] /\ born' = born /\ worker' = worker /\ raced' = raced
  BY DEF Vectors!NoteDelete
<1>2. /\ Vectors!CacheMatchesTable'
      /\ table' = [k \in Vectors!Id |-> table'[k]] /\ DOMAIN table' = Vectors!Id
      /\ \A k \in Vectors!Id \ {i} : table'[k] = table[k]
      /\ table'[i] = Vectors!NoVec
  <2>. DEFINE new == [k \in {i} |-> Vectors!NoVec]
  <2>1. Vectors!Write(new) /\ DOMAIN new = {i} /\ new[i] = Vectors!NoVec
    BY DEF Vectors!NoteDelete
  <2>. HIDE DEF new
  <2>. QED
    BY <2>1, Copied DEF IInv
<1>3. text' = [k \in Vectors!Id |-> text'[k]] /\ text'[i] = 0 /\ \A k \in Vectors!Id \ {i} : text'[k] = text[k]
  BY <1>1 DEF IInv, Typed
<1>4. Typed' /\ Unborn'
  BY <1>1, <1>2, <1>3 DEF IInv, Typed, Unborn
<1>5. Vectors!StaleOnlyByRace'
  BY <1>1, <1>2, <1>3 DEF IInv, Vectors!StaleOnlyByRace
<1>. QED
  BY <1>2, <1>4, <1>5 DEF IInv

(* A host is saved or goes: its vector goes, and so does the copy.         *)
LEMMA Hosting ==
  ASSUME IInv, NEW i \in Vectors!Id, Vectors!HostSave(i) \/ Vectors!HostDelete(i)
  PROVE  IInv'
<1>1. /\ born \subseteq born' /\ (i \in born' \/ text'[i] = 0)
      /\ worker' = worker /\ raced' = raced /\ cache' = Vectors!Empty
      /\ table' = [table EXCEPT ![i] = Vectors!NoVec]
  BY DEF Vectors!HostSave, Vectors!HostDelete, Vectors!WithoutVec, IInv, Typed
<1>2. text' = [k \in Vectors!Id |-> text'[k]] /\ \A k \in Vectors!Id \ {i} : text'[k] = text[k]
  BY DEF Vectors!HostSave, Vectors!HostDelete, IInv, Typed
<1>3. /\ table' = [k \in Vectors!Id |-> table'[k]] /\ DOMAIN table' = Vectors!Id
      /\ table'[i] = Vectors!NoVec /\ \A k \in Vectors!Id \ {i} : table'[k] = table[k]
  BY <1>1 DEF IInv, Typed
<1>4. Typed' /\ Unborn'
  BY <1>1, <1>2, <1>3 DEF IInv, Typed, Unborn
<1>5. Vectors!StaleOnlyByRace' /\ Vectors!CacheMatchesTable'
  BY <1>1, <1>2, <1>3 DEF IInv, Vectors!StaleOnlyByRace, Vectors!CacheMatchesTable
<1>. QED
  BY <1>4, <1>5 DEF IInv

(* A batch is of rows there are.                                           *)
LEMMA Reading == ASSUME IInv, Vectors!ReadBatch PROVE IInv'
<1>1. DOMAIN worker'.batch \subseteq Vectors!Live
  <2>1. PICK ids \in SUBSET Vectors!Pending(worker.model) :
          worker' = IF ids = {} THEN Vectors!Idle ELSE [worker EXCEPT !.at = "batch", !.batch = [i \in ids |-> text[i]]]
    BY DEF Vectors!ReadBatch
  <2>2. ids \subseteq Vectors!Live
    BY DEF Vectors!Pending
  <2>. QED
    BY <2>1, <2>2 DEF Vectors!Idle, Vectors!NoBatch
<1>2. UNCHANGED <<text, born, table, cache, indexing, raced, budget>>
  BY DEF Vectors!ReadBatch
<1>3. Typed' /\ Unborn'
  BY <1>1, <1>2 DEF IInv, Typed, Unborn, Vectors!Live
<1>4. Vectors!CacheMatchesTable' /\ Vectors!StaleOnlyByRace'
  BY <1>2 DEF IInv, Vectors!CacheMatchesTable, Vectors!StaleOnlyByRace
<1>. QED
  BY <1>3, <1>4 DEF IInv

(* A vector that is stored is of the text of now, or its row is noted.     *)
LEMMA Storing == ASSUME IInv, Vectors!StoreBatch PROVE IInv'
<1>. DEFINE new == [i \in DOMAIN worker.batch |-> [model |-> worker.model, text |-> worker.batch[i]]]
<1>1. Vectors!Write(new) /\ DOMAIN new = DOMAIN worker.batch /\ \A i \in DOMAIN new : new[i].text = worker.batch[i]
  BY DEF Vectors!StoreBatch
<1>2. /\ text' = text /\ born' = born /\ worker' = Vectors!Idle /\ DOMAIN Vectors!Idle.batch = {}
      /\ raced' = (raced \ DOMAIN worker.batch) \cup {i \in DOMAIN worker.batch : text[i] # worker.batch[i]}
  BY DEF Vectors!StoreBatch, Vectors!Idle, Vectors!NoBatch
<1>. HIDE DEF new
<1>3. /\ Vectors!CacheMatchesTable'
      /\ table' = [i \in Vectors!Id |-> table'[i]] /\ DOMAIN table' = Vectors!Id
      /\ \A i \in Vectors!Id : table'[i] = IF i \in DOMAIN new THEN new[i] ELSE table[i]
  BY <1>1, Copied DEF IInv
<1>4. Typed' /\ Unborn'
  BY <1>1, <1>2, <1>3 DEF IInv, Typed, Unborn
<1>5. Vectors!StaleOnlyByRace'
  BY <1>1, <1>2, <1>3 DEF IInv, Vectors!StaleOnlyByRace
<1>. QED
  BY <1>3, <1>4, <1>5 DEF IInv

LEMMA Others ==
  ASSUME IInv,
         \/ Vectors!SetIndexing \/ Vectors!Search \/ Vectors!Restart
         \/ Vectors!ChooseModel \/ Vectors!BatchFails \/ UNCHANGED Vectors!vars
  PROVE  IInv'
<1>1. /\ text' = text /\ born' = born /\ table' = table /\ raced' = raced
      /\ cache' \in {cache, table, Vectors!Empty}
  BY DEF Vectors!SetIndexing, Vectors!Search, Vectors!Restart, Vectors!ChooseModel, Vectors!BatchFails, Vectors!vars
<1>2. DOMAIN worker'.batch \subseteq DOMAIN worker.batch
  <2>1. Vectors!Idle.batch = Vectors!NoBatch /\ DOMAIN Vectors!NoBatch = {}
    BY DEF Vectors!Idle, Vectors!NoBatch
  <2>2. Vectors!ChooseModel => worker'.batch = Vectors!NoBatch
    BY DEF Vectors!ChooseModel, Vectors!Idle
  <2>3. ~Vectors!ChooseModel => worker' \in {worker, Vectors!Idle}
    BY DEF Vectors!SetIndexing, Vectors!Search, Vectors!Restart, Vectors!BatchFails, Vectors!vars
  <2>. QED
    BY <2>1, <2>2, <2>3
<1>. QED
  BY <1>1, <1>2 DEF IInv, Typed, Unborn, Vectors!CacheMatchesTable, Vectors!StaleOnlyByRace

LEMMA TrueVectors == Vectors!Spec => []IInv
<1>1. IInv /\ [Vectors!Next]_(Vectors!vars) => IInv'
  BY Adding, Deleting, Hosting, Reading, Storing, Others DEF Vectors!Next, Vectors!Worker
<1>. QED
  BY <1>1, Initial, PTL DEF Vectors!Spec

-----------------------------------------------------------------------------
(* Snapshots, for any windows, saves and loads.                            *)

SaverPlace == {"idle", "valid", "locked", "open", "written"}

SaversTyped ==
  /\ saver \in [Savers -> [at : SaverPlace, n : Nat]]
  /\ saves \in Nat /\ done \in Seq(Nat \ {0}) /\ reported = Len(done)

(* A save is a number of its own, and between lock and rename it has the   *)
(* temporary file to itself.                                               *)
Begun     == \A w \in Savers : saver[w].at # "idle" => saver[w].n # 0
Exclusive == \A w \in Savers : saver[w].at \in {"locked", "open", "written"} => lock = {w}
TempIsWritten   == \A w \in Savers : saver[w].at = "written" => temp = saver[w].n

(* The file is the last save that took effect.                             *)
FileIsLast == file = IF done = <<>> THEN Stores!Missing ELSE done[Len(done)]

(* What was loaded is a save, as new as what had been reported.            *)
LoadedIsSave ==
  \/ loaded.got = Stores!Missing /\ loaded.least = 0
  \/ \E i \in 1 .. Len(done) : done[i] = loaded.got /\ i >= loaded.least

StoresInv == SaversTyped /\ Begun /\ Exclusive /\ TempIsWritten /\ FileIsLast /\ LoadedIsSave

LEMMA SaverWent ==
  ASSUME SaversTyped, NEW w \in Savers, NEW l \in SaverPlace, Stores!Goto(w, l)
  PROVE  /\ saver' \in [Savers -> [at : SaverPlace, n : Nat]]
         /\ \A v \in Savers \ {w} : saver'[v] = saver[v]
         /\ saver'[w].at = l /\ saver'[w].n = saver[w].n
  BY DEF SaversTyped, Stores!Goto

LEMMA StoresInitial == Stores!Init => StoresInv
  BY DEF Stores!Init, StoresInv, SaversTyped, Begun, Exclusive, TempIsWritten, FileIsLast, LoadedIsSave, SaverPlace

LEMMA SaveBegins ==
  ASSUME StoresInv, NEW w \in Savers, Stores!Save(w)
  PROVE  StoresInv'
<1>1. SaversTyped' /\ saver'[w].at = "valid" /\ saver'[w].n # 0 /\ \A v \in Savers \ {w} : saver'[v] = saver[v]
  BY DEF StoresInv, SaversTyped, Stores!Save, SaverPlace
<1>2. Begun' /\ Exclusive' /\ TempIsWritten'
  BY <1>1 DEF StoresInv, Begun, Exclusive, TempIsWritten, Stores!Save
<1>3. FileIsLast' /\ LoadedIsSave'
  BY DEF StoresInv, FileIsLast, LoadedIsSave, Stores!Save
<1>. QED
  BY <1>1, <1>2, <1>3 DEF StoresInv

LEMMA SaveLocks ==
  ASSUME StoresInv, NEW w \in Savers, Stores!Lock(w)
  PROVE  StoresInv'
<1>1. "locked" \in SaverPlace /\ Stores!Goto(w, "locked") /\ SaversTyped
  BY DEF SaverPlace, Stores!Lock, StoresInv
<1>2. SaversTyped' /\ Begun' /\ Exclusive' /\ TempIsWritten'
  BY <1>1, SaverWent DEF StoresInv, SaversTyped, Begun, Exclusive, TempIsWritten, Stores!Lock
<1>3. FileIsLast' /\ LoadedIsSave'
  BY DEF StoresInv, FileIsLast, LoadedIsSave, Stores!Lock
<1>. QED
  BY <1>2, <1>3 DEF StoresInv

LEMMA SaveTruncates ==
  ASSUME StoresInv, NEW w \in Savers, Stores!Truncate(w)
  PROVE  StoresInv'
<1>1. "open" \in SaverPlace /\ Stores!Goto(w, "open") /\ SaversTyped /\ lock = {w}
  BY DEF SaverPlace, Stores!Truncate, StoresInv, Exclusive
<1>2. SaversTyped' /\ Begun' /\ Exclusive' /\ TempIsWritten'
  BY <1>1, SaverWent DEF StoresInv, SaversTyped, Begun, Exclusive, TempIsWritten, Stores!Truncate
<1>3. FileIsLast' /\ LoadedIsSave'
  BY DEF StoresInv, FileIsLast, LoadedIsSave, Stores!Truncate
<1>. QED
  BY <1>2, <1>3 DEF StoresInv

LEMMA SaveWrites ==
  ASSUME StoresInv, NEW w \in Savers, Stores!Write(w)
  PROVE  StoresInv'
<1>1. {"written", "idle"} \subseteq SaverPlace /\ SaversTyped /\ lock = {w}
  BY DEF SaverPlace, Stores!Write, StoresInv, Exclusive
<1>2. SaversTyped' /\ Begun' /\ Exclusive' /\ TempIsWritten'
  <2>1. CASE Stores!Goto(w, "written") /\ temp' = saver[w].n /\ lock' = lock
    BY <1>1, <2>1, SaverWent DEF StoresInv, SaversTyped, Begun, Exclusive, TempIsWritten, Stores!Write
  <2>2. CASE Stores!Goto(w, "idle")
    BY <1>1, <2>2, SaverWent DEF StoresInv, SaversTyped, Begun, Exclusive, TempIsWritten, Stores!Write
  <2>. QED
    BY <2>1, <2>2 DEF Stores!Write
<1>3. FileIsLast' /\ LoadedIsSave'
  BY DEF StoresInv, FileIsLast, LoadedIsSave, Stores!Write
<1>. QED
  BY <1>2, <1>3 DEF StoresInv

(* Only here does the file change, and by one whole save.                  *)
LEMMA SaveRenames ==
  ASSUME StoresInv, NEW w \in Savers, Stores!Rename(w)
  PROVE  StoresInv'
<1>1. /\ "idle" \in SaverPlace /\ Stores!Goto(w, "idle") /\ SaversTyped /\ lock = {w}
      /\ saver[w].n \in Nat \ {0} /\ temp = saver[w].n
  BY DEF SaverPlace, Stores!Rename, StoresInv, Exclusive, TempIsWritten, Begun, SaversTyped
<1>2. /\ done' \in Seq(Nat \ {0}) /\ Len(done') = Len(done) + 1 /\ done'[Len(done')] = saver[w].n
      /\ \A i \in 1 .. Len(done) : i \in 1 .. Len(done') /\ done'[i] = done[i]
  BY <1>1 DEF Stores!Rename, SaversTyped
<1>3. SaversTyped' /\ Begun' /\ Exclusive' /\ TempIsWritten'
  <2>1. /\ saver' \in [Savers -> [at : SaverPlace, n : Nat]] /\ saver'[w].at = "idle"
        /\ \A v \in Savers \ {w} : saver'[v] = saver[v]
    BY <1>1, SaverWent
  <2>2. SaversTyped'
    BY <1>1, <1>2, <2>1 DEF SaversTyped, Stores!Rename
  <2>3. \A v \in Savers \ {w} : saver[v].at \notin {"locked", "open", "written"}
    BY <1>1 DEF StoresInv, Exclusive
  <2>4. Begun' /\ Exclusive' /\ TempIsWritten'
    BY <2>1, <2>3 DEF StoresInv, Begun, Exclusive, TempIsWritten
  <2>. QED
    BY <2>2, <2>4
<1>4. FileIsLast'
  BY <1>1, <1>2 DEF FileIsLast, Stores!Rename
<1>5. LoadedIsSave'
  <2>1. loaded' = loaded
    BY DEF Stores!Rename
  <2>. QED
    BY <1>2, <2>1 DEF StoresInv, LoadedIsSave
<1>. QED
  BY <1>3, <1>4, <1>5 DEF StoresInv

LEMMA SaverDies ==
  ASSUME StoresInv, NEW w \in Savers, Stores!Die(w)
  PROVE  StoresInv'
<1>1. "idle" \in SaverPlace /\ Stores!Goto(w, "idle") /\ SaversTyped
  BY DEF SaverPlace, Stores!Die, StoresInv
<1>2. SaversTyped' /\ Begun' /\ Exclusive' /\ TempIsWritten'
  <2>1. /\ saver' \in [Savers -> [at : SaverPlace, n : Nat]] /\ saver'[w].at = "idle"
        /\ \A v \in Savers \ {w} : saver'[v] = saver[v]
    BY <1>1, SaverWent
  <2>2. SaversTyped' /\ temp' = temp /\ lock' = lock \ {w}
    BY <1>1, <2>1 DEF SaversTyped, Stores!Die
  <2>3. Begun' /\ Exclusive' /\ TempIsWritten'
    BY <2>1, <2>2 DEF StoresInv, Begun, Exclusive, TempIsWritten
  <2>. QED
    BY <2>2, <2>3
<1>3. FileIsLast' /\ LoadedIsSave'
  BY DEF StoresInv, FileIsLast, LoadedIsSave, Stores!Die
<1>. QED
  BY <1>2, <1>3 DEF StoresInv

LEMMA LoadReads == ASSUME StoresInv, Stores!Load PROVE StoresInv'
<1>1. SaversTyped' /\ Begun' /\ Exclusive' /\ TempIsWritten' /\ FileIsLast'
  BY DEF StoresInv, SaversTyped, Begun, Exclusive, TempIsWritten, FileIsLast, Stores!Load
<1>2. LoadedIsSave'
  <2>1. loaded'.got = file /\ loaded'.least = Len(done) /\ done' = done
    BY DEF StoresInv, SaversTyped, Stores!Load
  <2>2. CASE done = <<>>
    BY <2>1, <2>2 DEF StoresInv, FileIsLast, LoadedIsSave
  <2>3. CASE done # <<>>
    <3>1. Len(done) \in 1 .. Len(done) /\ done[Len(done)] = file
      BY <2>3 DEF StoresInv, SaversTyped, FileIsLast
    <3>. QED
      BY <2>1, <3>1 DEF LoadedIsSave
  <2>. QED
    BY <2>2, <2>3
<1>. QED
  BY <1>1, <1>2 DEF StoresInv

LEMMA TrueStores == Stores!Spec => []StoresInv
<1>1. StoresInv /\ [Stores!Next]_(Stores!vars) => StoresInv'
  <2>. SUFFICES ASSUME StoresInv, [Stores!Next]_(Stores!vars) PROVE StoresInv'
    OBVIOUS
  <2>1. CASE UNCHANGED Stores!vars
    BY <2>1 DEF Stores!vars, StoresInv, SaversTyped, Begun, Exclusive, TempIsWritten, FileIsLast, LoadedIsSave
  <2>2. CASE Stores!Next
    BY <2>2, SaveBegins, SaveLocks, SaveTruncates, SaveWrites, SaveRenames, SaverDies, LoadReads DEF Stores!Next
  <2>. QED
    BY <2>1, <2>2
<1>. QED
  BY <1>1, StoresInitial, PTL DEF Stores!Spec

LEMMA SavesStayWhole == Stores!Spec => []Stores!SavesAreWhole
<1>1. StoresInv => Stores!SavesAreWhole
  <2>. SUFFICES ASSUME StoresInv PROVE Stores!SavesAreWhole
    OBVIOUS
  <2>1. \A i \in 1 .. Len(done) : done[i] \in Nat \ {0}
    BY DEF StoresInv, SaversTyped
  <2>2. loaded.got = Stores!Missing => loaded.least = 0
    BY <2>1 DEF StoresInv, LoadedIsSave, Stores!Missing
  <2>3. loaded.got # Stores!Partial /\ (loaded.got > 0 => \E i \in 1 .. Len(done) : done[i] = loaded.got /\ i >= loaded.least)
    BY <2>1 DEF StoresInv, LoadedIsSave, Stores!Missing, Stores!Partial
  <2>4. file # Stores!Partial
    BY <2>1 DEF StoresInv, SaversTyped, FileIsLast, Stores!Missing, Stores!Partial
  <2>. QED
    BY <2>2, <2>3, <2>4 DEF Stores!SavesAreWhole
<1>. QED
  BY <1>1, TrueStores, PTL

-----------------------------------------------------------------------------
(* Schema, for any programs, versions and statements.                      *)

Sizes == Versions \in Nat /\ Statements \in Nat \ {0} /\ MaxRuns \in Nat

ProgramPlace == {"off", "table", "current", "batch", "row", "ready", "failed"}

Position == [at : ProgramPlace, version : Nat \ {0}, step : Nat \ {0}, runs : Nat]

ProgramsTyped ==
  /\ program \in [Programs -> Position]
  /\ tables \subseteq Schemas!Statement

(* The rows of migrations are those up to some version, and stand for the  *)
(* statements of all of them.                                              *)
UpTo(v)  == {s \in Schemas!Statement : s[1] <= v}
Gapless  == \E h \in 0 .. Versions : applied = 1 .. h /\ UpTo(h) \subseteq tables

(* A program has done what comes before the place where it is.             *)
Done(p) ==
  /\ program[p].at \in {"batch", "row", "ready"} =>
       /\ program[p].version <= Versions + 1
       /\ 1 .. program[p].version - 1 \subseteq applied
  /\ program[p].at \in {"batch", "row"} => program[p].version <= Versions
  /\ program[p].at = "batch" =>
       /\ program[p].step <= Statements
       /\ \A k \in 1 .. program[p].step - 1 : <<program[p].version, k>> \in tables
  /\ program[p].at = "row" => \A k \in 1 .. Statements : <<program[p].version, k>> \in tables
  /\ program[p].at = "ready" => program[p].version = Versions + 1

SchemaInv == ProgramsTyped /\ Gapless /\ \A p \in Programs : Done(p)

LEMMA ProgramWent ==
  ASSUME ProgramsTyped, NEW p \in Programs, NEW l \in ProgramPlace, Schemas!Goto(p, l)
  PROVE  /\ program' \in [Programs -> Position]
         /\ \A q \in Programs \ {p} : program'[q] = program[q]
         /\ program'[p].at = l
  BY DEF ProgramsTyped, Schemas!Goto, Position

(* A program goes to a place, a version and a statement.                   *)
ProgramSets(p, l, v, k) == program' = [program EXCEPT ![p] = [@ EXCEPT !.at = l, !.version = v, !.step = k]]

LEMMA ProgramSet ==
  ASSUME ProgramsTyped, NEW p \in Programs, NEW l \in ProgramPlace, NEW v \in Nat \ {0}, NEW k \in Nat \ {0}, ProgramSets(p, l, v, k)
  PROVE  /\ program' \in [Programs -> Position]
         /\ \A q \in Programs \ {p} : program'[q] = program[q]
         /\ program'[p].at = l /\ program'[p].version = v /\ program'[p].step = k
<1>1. ASSUME NEW x \in Position
      PROVE  LET r == [x EXCEPT !.at = l, !.version = v, !.step = k]
             IN  r \in Position /\ r.at = l /\ r.version = v /\ r.step = k
  BY DEF Position
<1>2. program'[p] = [program[p] EXCEPT !.at = l, !.version = v, !.step = k]
  BY DEF ProgramsTyped, ProgramSets
<1>. QED
  BY <1>1, <1>2 DEF ProgramsTyped, ProgramSets

LEMMA ProgramGone ==
  ASSUME Sizes, ProgramsTyped, NEW p \in Programs, NEW v \in Nat \ {0}, Schemas!Go(p, v)
  PROVE  /\ program' \in [Programs -> Position]
         /\ \A q \in Programs \ {p} : program'[q] = program[q]
         /\ program'[p].at = (IF v > Versions THEN "ready" ELSE "batch")
         /\ program'[p].version = v /\ program'[p].step = 1
<1>1. (IF v > Versions THEN "ready" ELSE "batch") \in ProgramPlace /\ 1 \in Nat \ {0}
  BY DEF ProgramPlace
<1>2. ProgramSets(p, IF v > Versions THEN "ready" ELSE "batch", v, 1)
  BY DEF Schemas!Go, ProgramSets
<1>. QED
  BY <1>1, <1>2, ProgramSet

LEMMA HighestIs == ASSUME NEW h \in Nat PROVE Schemas!Highest(1 .. h) = h
<1>1. CASE h = 0
  <2>1. 1 .. h = {}
    BY <1>1
  <2>. QED
    BY <1>1, <2>1 DEF Schemas!Highest
<1>2. CASE h # 0
  <2>1. h \in 1 .. h /\ \A w \in 1 .. h : w <= h
    BY <1>2
  <2>2. \A v \in 1 .. h : (\A w \in 1 .. h : w <= v) => v = h
    BY <2>1
  <2>. QED
    BY <2>1, <2>2 DEF Schemas!Highest
<1>. QED
  BY <1>1, <1>2

LEMMA SchemaInitial == ASSUME Sizes PROVE Schemas!Init => SchemaInv
<1>. SUFFICES ASSUME Schemas!Init PROVE SchemaInv
  OBVIOUS
<1>1. ProgramsTyped
  BY DEF Schemas!Init, ProgramsTyped, ProgramPlace, Position
<1>2. Gapless
  <2>1. applied = 1 .. 0 /\ UpTo(0) = {} /\ 0 \in 0 .. Versions
    BY DEF Schemas!Init, Sizes, UpTo, Schemas!Statement
  <2>. QED
    BY <2>1 DEF Gapless
<1>3. \A p \in Programs : Done(p)
  BY DEF Schemas!Init, Done
<1>. QED
  BY <1>1, <1>2, <1>3 DEF SchemaInv

(* What others have done stays done while tables and rows only grow.       *)
LEMMA OthersDone ==
  ASSUME SchemaInv, tables \subseteq tables', applied \subseteq applied',
         NEW p \in Programs, \A q \in Programs \ {p} : program'[q] = program[q], Done(p)'
  PROVE  \A q \in Programs : Done(q)'
<1>. SUFFICES ASSUME NEW q \in Programs \ {p} PROVE Done(q)'
  OBVIOUS
<1>1. program'[q] = program[q] /\ Done(q)
  BY DEF SchemaInv
<1>. QED
  BY <1>1 DEF Done

LEMMA ProgramQuiet ==
  ASSUME Sizes, SchemaInv, NEW p \in Programs, Schemas!OpenDefault(p) \/ Schemas!MigrationsTable(p) \/ Schemas!Quit(p)
  PROVE  SchemaInv'
<1>1. /\ program' \in [Programs -> Position]
      /\ \A q \in Programs \ {p} : program'[q] = program[q]
      /\ program'[p].at \in {"off", "table", "current", "failed"}
  <2>1. CASE Schemas!OpenDefault(p)
    BY <2>1 DEF SchemaInv, ProgramsTyped, Schemas!OpenDefault, ProgramPlace, Position
  <2>2. CASE Schemas!MigrationsTable(p)
    BY <2>2, ProgramWent DEF SchemaInv, Schemas!MigrationsTable, ProgramPlace
  <2>3. CASE Schemas!Quit(p)
    BY <2>3, ProgramWent DEF SchemaInv, Schemas!Quit, ProgramPlace
  <2>. QED
    BY <2>1, <2>2, <2>3
<1>2. tables' = tables /\ applied' = applied
  BY DEF Schemas!OpenDefault, Schemas!MigrationsTable, Schemas!Quit
<1>3. Done(p)'
  BY <1>1 DEF Done
<1>4. \A q \in Programs : Done(q)'
  BY <1>1, <1>2, <1>3, OthersDone
<1>. QED
  BY <1>1, <1>2, <1>4 DEF SchemaInv, ProgramsTyped, Gapless, UpTo, Position

LEMMA MigrationContinues ==
  ASSUME Sizes, SchemaInv, NEW p \in Programs, Schemas!Current(p)
  PROVE  SchemaInv'
<1>1. PICK h \in 0 .. Versions : applied = 1 .. h /\ UpTo(h) \subseteq tables
  BY DEF SchemaInv, Gapless
<1>2. Schemas!Go(p, h + 1) /\ h + 1 \in Nat \ {0} /\ tables' = tables /\ applied' = applied
  BY <1>1, HighestIs DEF Schemas!Current, Sizes
<1>3. ProgramsTyped /\ ProgramsTyped' /\ \A q \in Programs \ {p} : program'[q] = program[q]
  BY <1>2, ProgramGone DEF SchemaInv, ProgramsTyped, Position
<1>4. Done(p)'
  BY <1>1, <1>2, <1>3, ProgramGone DEF Done, Sizes
<1>5. \A q \in Programs : Done(q)'
  BY <1>2, <1>3, <1>4, OthersDone
<1>. QED
  BY <1>2, <1>3, <1>5 DEF SchemaInv, Gapless, UpTo

LEMMA MigrationExecutes ==
  ASSUME Sizes, SchemaInv, NEW p \in Programs, Schemas!Execute(p)
  PROVE  SchemaInv'
<1>. DEFINE v == program[p].version
            k == program[p].step
<1>1. /\ program[p].at = "batch" /\ v \in 1 .. Versions /\ k \in 1 .. Statements
      /\ 1 .. v - 1 \subseteq applied /\ \A j \in 1 .. k - 1 : <<v, j>> \in tables
  BY DEF SchemaInv, ProgramsTyped, Done, Schemas!Execute, Sizes, Position
<1>2. CASE Schemas!Goto(p, "failed") /\ UNCHANGED tables
  <2>1. ProgramsTyped' /\ Done(p)' /\ applied' = applied /\ \A q \in Programs \ {p} : program'[q] = program[q]
    BY <1>2, ProgramWent DEF SchemaInv, ProgramsTyped, Done, ProgramPlace, Schemas!Execute, Position
  <2>2. \A q \in Programs : Done(q)'
    BY <1>2, <2>1, OthersDone
  <2>. QED
    BY <1>2, <2>1, <2>2 DEF SchemaInv, Gapless, UpTo
<1>3. CASE /\ tables' = tables \cup {<<v, k>>}
           /\ program' = [program EXCEPT ![p] = [@ EXCEPT !.at = IF k = Statements THEN "row" ELSE "batch", !.version = v, !.step = k + 1]]
  <2>1. /\ program' \in [Programs -> Position]
        /\ \A q \in Programs \ {p} : program'[q] = program[q]
        /\ program'[p].at = (IF k = Statements THEN "row" ELSE "batch")
        /\ program'[p].version = v /\ program'[p].step = k + 1
    <3>1. (IF k = Statements THEN "row" ELSE "batch") \in ProgramPlace /\ v \in Nat \ {0} /\ k + 1 \in Nat \ {0} /\ ProgramsTyped
      BY <1>1 DEF SchemaInv, ProgramPlace, Sizes
    <3>2. ProgramSets(p, IF k = Statements THEN "row" ELSE "batch", v, k + 1)
      BY <1>3 DEF ProgramSets
    <3>. HIDE DEF v, k
    <3>. QED
      BY <3>1, <3>2, ProgramSet
  <2>2. <<v, k>> \in Schemas!Statement /\ applied' = applied
    BY <1>1 DEF Schemas!Statement, Schemas!Execute
  <2>3. ProgramsTyped'
    BY <1>3, <2>1, <2>2 DEF SchemaInv, ProgramsTyped, Position
  <2>4. \A j \in 1 .. k : <<v, j>> \in tables'
    BY <1>1, <1>3
  <2>5. Done(p)'
    BY <1>1, <2>1, <2>2, <2>4 DEF Done, Sizes
  <2>6. \A q \in Programs : Done(q)'
    BY <1>3, <2>1, <2>2, <2>5, OthersDone
  <2>7. Gapless'
    BY <1>3, <2>2 DEF SchemaInv, Gapless, UpTo
  <2>. QED
    BY <2>3, <2>6, <2>7 DEF SchemaInv
<1>. QED
  BY <1>2, <1>3 DEF Schemas!Execute

(* The row is written when all of its version is there, and by one.        *)
LEMMA MigrationRecords ==
  ASSUME Sizes, SchemaInv, NEW p \in Programs, Schemas!Row(p)
  PROVE  SchemaInv'
<1>. DEFINE v == program[p].version
<1>1. /\ v \in 1 .. Versions /\ 1 .. v - 1 \subseteq applied
      /\ \A k \in 1 .. Statements : <<v, k>> \in tables
      /\ tables' = tables
  BY DEF SchemaInv, ProgramsTyped, Done, Schemas!Row, Sizes, Position
<1>2. CASE v \in applied
  <2>1. Schemas!Goto(p, "failed") /\ applied' = applied
    BY <1>2 DEF Schemas!Row
  <2>2. ProgramsTyped' /\ Done(p)' /\ \A q \in Programs \ {p} : program'[q] = program[q]
    BY <1>1, <2>1, ProgramWent DEF SchemaInv, ProgramsTyped, Done, ProgramPlace, Position
  <2>3. \A q \in Programs : Done(q)'
    BY <1>1, <2>1, <2>2, OthersDone
  <2>. QED
    BY <1>1, <2>1, <2>2, <2>3 DEF SchemaInv, Gapless, UpTo
<1>3. CASE v \notin applied
  <2>1. PICK h \in 0 .. Versions : applied = 1 .. h /\ UpTo(h) \subseteq tables
    BY DEF SchemaInv, Gapless
  <2>2. h = v - 1
    <3>1. h < v
      BY <1>1, <1>3, <2>1 DEF Sizes
    <3>2. v - 1 = 0 \/ v - 1 \in 1 .. v - 1
      BY <1>1 DEF Sizes
    <3>. QED
      BY <1>1, <2>1, <3>1, <3>2 DEF Sizes
  <2>3. applied' = 1 .. v /\ Schemas!Go(p, v + 1) /\ v + 1 \in Nat \ {0}
    <3>1. applied' = applied \cup {v} /\ Schemas!Go(p, v + 1)
      BY <1>3 DEF Schemas!Row
    <3>2. (1 .. v - 1) \cup {v} = 1 .. v /\ v + 1 \in Nat \ {0}
      BY <1>1 DEF Sizes
    <3>. QED
      BY <2>1, <2>2, <3>1, <3>2
  <2>4. \A s \in UpTo(v) : s \in UpTo(h) \/ \E k \in 1 .. Statements : s = <<v, k>>
    BY <1>1, <2>2 DEF UpTo, Schemas!Statement, Sizes
  <2>5. Gapless'
    BY <1>1, <2>1, <2>3, <2>4 DEF Gapless, UpTo
  <2>6. ProgramsTyped /\ ProgramsTyped' /\ \A q \in Programs \ {p} : program'[q] = program[q]
    BY <1>1, <2>3, ProgramGone DEF SchemaInv, ProgramsTyped, Position
  <2>7. Done(p)'
    BY <1>1, <2>3, <2>6, ProgramGone DEF Done, Sizes
  <2>8. \A q \in Programs : Done(q)'
    BY <1>1, <2>1, <2>2, <2>3, <2>6, <2>7, OthersDone
  <2>. QED
    BY <2>5, <2>6, <2>8 DEF SchemaInv
<1>. QED
  BY <1>2, <1>3

LEMMA TrueSchema == ASSUME Sizes PROVE Schemas!Spec => []SchemaInv
<1>1. Schemas!Init => SchemaInv
  BY SchemaInitial
<1>2. SchemaInv /\ [Schemas!Next]_(Schemas!vars) => SchemaInv'
  <2>. SUFFICES ASSUME SchemaInv, [Schemas!Next]_(Schemas!vars) PROVE SchemaInv'
    OBVIOUS
  <2>1. CASE UNCHANGED Schemas!vars
    BY <2>1 DEF Schemas!vars, SchemaInv, ProgramsTyped, Gapless, UpTo, Done, Position
  <2>2. CASE Schemas!Next
    BY <2>2, ProgramQuiet, MigrationContinues, MigrationExecutes, MigrationRecords DEF Schemas!Next
  <2>. QED
    BY <2>1, <2>2
<1>. QED
  BY <1>1, <1>2, PTL DEF Schemas!Spec

LEMMA SchemaStaysComplete == ASSUME Sizes PROVE Schemas!Spec => []Schemas!SchemaIsComplete
<1>1. SchemaInv => Schemas!SchemaIsComplete
  <2>. SUFFICES ASSUME SchemaInv PROVE Schemas!SchemaIsComplete
    OBVIOUS
  <2>1. PICK h \in 0 .. Versions : applied = 1 .. h /\ UpTo(h) \subseteq tables
    BY DEF SchemaInv, Gapless
  <2>2. \A v \in applied : \A s \in Schemas!Statement : s[1] <= v => s \in tables
    BY <2>1 DEF UpTo, Schemas!Statement, Sizes
  <2>3. ASSUME NEW p \in Programs, program[p].at = "ready"
        PROVE  tables = Schemas!Statement /\ applied = 1 .. Versions
    <3>1. 1 .. Versions \subseteq applied
      BY <2>3 DEF SchemaInv, ProgramsTyped, Done, Sizes, Position
    <3>2. h = Versions
      BY <2>1, <3>1 DEF Sizes
    <3>3. UpTo(Versions) = Schemas!Statement
      BY DEF UpTo, Schemas!Statement, Sizes
    <3>. QED
      BY <2>1, <3>2, <3>3 DEF SchemaInv, ProgramsTyped, Position
  <2>. QED
    BY <2>2, <2>3 DEF Schemas!SchemaIsComplete
<1>. QED
  BY <1>1, TrueSchema, PTL

-----------------------------------------------------------------------------
(* Every step is a step of each service, or leaves it alone.               *)
LEMMA Steps ==
  [Next]_vars => /\ [Answers!Next]_(Answers!vars)
                 /\ [Vectors!Next]_(Vectors!vars)
                 /\ [Tools!Next]_(Tools!vars)
                 /\ [Stores!Next]_(Stores!vars)
                 /\ [Schemas!Next]_(Schemas!vars)
  BY DEF Next, vars, answerVars, vectorVars, toolVars, storeVars, schemaVars,
         Answers!vars, Vectors!vars, Tools!vars, Tools!serverVars, Tools!inboxVars, Stores!vars, Schemas!vars

LEMMA Each == Spec => Answers!Spec /\ Vectors!Spec /\ Tools!Spec /\ Stores!Spec /\ Schemas!Spec
<1>1. Init => Answers!Init /\ Vectors!Init /\ Tools!Init /\ Stores!Init /\ Schemas!Init
  BY DEF Init
<1>. QED
  BY <1>1, Steps, PTL DEF Spec, Answers!Spec, Vectors!Spec, Tools!Spec, Stores!Spec, Schemas!Spec

(* Whatever the provider sends and whenever the interface polls, the       *)
(* answer a client ends with is the answer that was sent, complete and in  *)
(* order (llm.rs:747, scenes/ai.lua:1177).                                 *)
THEOREM WholeAnswers == Spec => []AnswersAreWhole
<1>1. NoReq \notin Req
  BY ServicesAssumption DEF ServicesAssumption
<1>2. Answers!Spec => []Answers!AnswersAreWhole
  BY <1>1, Answers!WholeAnswers
<1>. QED
  BY <1>2, Each, PTL DEF AnswersAreWhole

(* A cancelled request stays DONE (llm.rs:533, 591).                       *)
THEOREM CancelIsFinal == Spec => []CancelSticks
<1>1. NoReq \notin Req
  BY ServicesAssumption DEF ServicesAssumption
<1>2. Answers!Spec => []Answers!CancelSticks
  BY <1>1, Answers!CancelIsFinal
<1>. QED
  BY <1>2, Each, PTL DEF CancelSticks

(* Searches never see a vector the table does not have, and a vector is of *)
(* its row's text unless the row changed while it was in a batch at work   *)
(* (embed.rs:276-325, 394-417).                                            *)
THEOREM VectorsStayTrue == Spec => []VectorsAreTrue
<1>1. IInv => VectorsAreTrue
  BY DEF IInv, VectorsAreTrue, Vectors!VectorsAreTrue
<1>. QED
  BY <1>1, Each, TrueVectors, PTL

(* Whatever clients send and whenever servers are started and stopped,     *)
(* every item in the inbox is from a request with the token of now, read   *)
(* whole before its server was told to stop (mcp.rs:76-87, 579-586, 636).  *)
THEOREM OnlyAuthorised == Spec => []ItemsAreAuthorised
<1>1. Tools!Spec => []Tools!ItemsAreAuthorised
  BY Tools!OnlyAuthorised
<1>. QED
  BY <1>1, Each, PTL DEF ItemsAreAuthorised

(* However the calls of connections mix with takes, the inbox and what was *)
(* taken from it are in order, without repetition, and lack only what      *)
(* MaxInbox newer items have pushed out (mcp.rs:117-135).                  *)
THEOREM NewestKept == Spec => []NewestAreKept
<1>1. MaxInbox \in Nat \ {0}
  BY ServicesAssumption DEF ServicesAssumption
<1>2. Tools!Spec => []Tools!NewestAreKept
  BY <1>1, Tools!InboxKeepsNewest
<1>. QED
  BY <1>2, Each, PTL DEF NewestAreKept

(* However many windows save at once and wherever they die, a load returns *)
(* one whole save, and no older one than had been reported before          *)
(* (store.rs:38-84).                                                       *)
THEOREM LoadsAreSaves == Spec => []SavesAreWhole
<1>1. Stores!Spec => []Stores!SavesAreWhole
  BY SavesStayWhole
<1>. QED
  BY <1>1, Each, PTL DEF SavesAreWhole

(* However many programs migrate at once and wherever they die, one that   *)
(* has its database has all of the schema, and a row of migrations stands  *)
(* for its version and those before (db.rs:168-199).                       *)
THEOREM MigratedIsComplete == Spec => []SchemaIsComplete
<1>1. Sizes
  BY ServicesAssumption DEF ServicesAssumption, Sizes
<1>2. Schemas!Spec => []Schemas!SchemaIsComplete
  BY <1>1, SchemaStaysComplete
<1>. QED
  BY <1>2, Each, PTL DEF SchemaIsComplete
=============================================================================

------------------------------- MODULE Embed -------------------------------
(***************************************************************************)
(* The vectors of semantic search (embed.rs, and the writers of the rows   *)
(* they are made from: notes.rs, db.rs).  The table `embeddings` and its   *)
(* copy in memory are changed under the database lock; the worker reads    *)
(* its batch under that lock, computes the vectors without it, and takes   *)
(* it again to store them.  Meanwhile rows come, change and go, and the    *)
(* user switches the provider.                                             *)
(*                                                                         *)
(* A text is a version number: 0 for no row, greater with every change.    *)
(* Ids are never used again (AUTOINCREMENT).                               *)
(***************************************************************************)
EXTENDS Integers, FiniteSets

CONSTANTS
  Notes,       \* ids of notes: added, deleted
  Hosts,       \* ids of hosts: saved any number of times, deleted
  Batch,       \* rows in one batch of the worker
  MaxVersion,  \* bound: saves of one host
  MaxToggles,  \* bound: switches of the provider
  MaxFailures, \* bound: batches the provider refuses
  MaxRestarts  \* bound: restarts of the program

Id == Notes \cup Hosts

VARIABLES
  text,     \* the row's text
  born,     \* ids that have been given out
  table,    \* embeddings
  cache,    \* CACHE: empty, or a copy of the table
  indexing, \* api_key_with(): indexing is on and there is a key
  worker,   \* cbo-embed: where it is, the model it chose, its batch
  raced,    \* history: rows that had changed when the worker last stored them
  budget    \* how often each bounded thing has happened

vars == <<text, born, table, cache, indexing, worker, raced, budget>>

Model == {"openai", "local"}
NoVec == [model |-> "none", text |-> 0]
Vec   == [model : Model, text : 1 .. MaxVersion]
Empty == <<>>

NoBatch == [i \in {} |-> 0]
Idle    == [at |-> "idle", model |-> "local", batch |-> NoBatch]

TypeOK ==
  /\ text \in [Id -> 0 .. MaxVersion]
  /\ born \subseteq Id
  /\ table \in [Id -> Vec \cup {NoVec}]
  /\ cache \in {Empty} \cup [Id -> Vec \cup {NoVec}]
  /\ indexing \in BOOLEAN
  /\ worker.at \in {"idle", "chosen", "batch"}
  /\ worker.model \in Model
  /\ DOMAIN worker.batch \subseteq Id
  /\ \A i \in DOMAIN worker.batch : worker.batch[i] \in 1 .. MaxVersion
  /\ raced \subseteq Id

Init ==
  /\ text = [i \in Id |-> 0] /\ born = {}
  /\ table = [i \in Id |-> NoVec] /\ cache = Empty
  /\ indexing \in BOOLEAN
  /\ worker = Idle
  /\ raced = {}
  /\ budget = [toggles |-> 0, failures |-> 0, restarts |-> 0]

Spend(what) == budget' = [budget EXCEPT ![what] = @ + 1]

CurrentModel == IF indexing THEN "openai" ELSE "local"
Live == {i \in Id : text[i] > 0}

-----------------------------------------------------------------------------
(* The table and its copy: update(e, new) gives e with the vectors of new. *)

Update(e, new) == [i \in Id |-> IF i \in DOMAIN new THEN new[i] ELSE e[i]]

\* Mutant: store() writes the table only.
CacheUpdate_None(new) == cache

\* What store() and remove() do to the copy, if it is loaded.
CacheUpdate(new) == IF cache = Empty THEN Empty ELSE Update(cache, new)

Write(new) ==
  /\ table' = Update(table, new)
  /\ cache' = CacheUpdate(new)

-----------------------------------------------------------------------------
(* Rows. *)

\* notes::add: without the provider the vector is made at once.
NoteAdd(i) ==
  /\ i \in Notes \ born
  /\ text' = [text EXCEPT ![i] = 1]
  /\ born' = born \cup {i}
  /\ IF indexing
     THEN UNCHANGED <<table, cache>>
     ELSE Write([k \in {i} |-> [model |-> "local", text |-> 1]])
  /\ UNCHANGED <<indexing, worker, raced, budget>>

\* notes::delete.
NoteDelete(i) ==
  /\ i \in Notes /\ text[i] > 0
  /\ text' = [text EXCEPT ![i] = 0]
  /\ Write([k \in {i} |-> NoVec])
  /\ UNCHANGED <<born, indexing, worker, raced, budget>>

\* The vector of the old text goes.
WithoutVec(i) == [table EXCEPT ![i] = NoVec]

\* db::host_upsert: a new row, or a change of the one there is; the copy is
\* thrown away.
HostSave(i) ==
  /\ i \in Hosts /\ text[i] < MaxVersion /\ (i \in born => text[i] > 0)
  /\ text' = [text EXCEPT ![i] = @ + 1]
  /\ born' = born \cup {i}
  /\ table' = WithoutVec(i) /\ cache' = Empty
  /\ UNCHANGED <<indexing, worker, raced, budget>>

\* db::host_delete.
HostDelete(i) ==
  /\ i \in Hosts /\ text[i] > 0
  /\ text' = [text EXCEPT ![i] = 0]
  /\ table' = [table EXCEPT ![i] = NoVec] /\ cache' = Empty
  /\ UNCHANGED <<born, indexing, worker, raced, budget>>

\* kv "embed.enabled" or the key changes.
SetIndexing ==
  /\ budget.toggles < MaxToggles
  /\ Spend("toggles")
  /\ indexing' = ~indexing
  /\ UNCHANGED <<text, born, table, cache, worker, raced>>

\* A search reads the table once and the copy from then on.
Search ==
  /\ cache = Empty
  /\ cache' = table
  /\ UNCHANGED <<text, born, table, indexing, worker, raced, budget>>

-----------------------------------------------------------------------------
(* The worker: run_once(). *)

ChooseModel ==
  /\ worker.at = "idle"
  /\ worker' = [Idle EXCEPT !.at = "chosen", !.model = CurrentModel]
  /\ UNCHANGED <<text, born, table, cache, indexing, raced, budget>>

\* Mutant: a row with a vector of another model does not wait.
Pending_NoVec(model) == {i \in Live : table[i] = NoVec}

Pending(model) == {i \in Live : table[i].model # model}

ReadBatch ==
  /\ worker.at = "chosen"
  /\ \E ids \in SUBSET Pending(worker.model) :
       /\ Cardinality(ids) = IF Cardinality(Pending(worker.model)) < Batch
                             THEN Cardinality(Pending(worker.model)) ELSE Batch
       /\ worker' = IF ids = {} THEN Idle
                    ELSE [worker EXCEPT !.at = "batch", !.batch = [i \in ids |-> text[i]]]
  /\ UNCHANGED <<text, born, table, cache, indexing, raced, budget>>

\* The provider refuses the batch; the worker tries again later.
BatchFails ==
  /\ worker.at = "batch" /\ worker.model = "openai"
  /\ budget.failures < MaxFailures
  /\ Spend("failures")
  /\ worker' = Idle
  /\ UNCHANGED <<text, born, table, cache, indexing, raced>>

StoreBatch ==
  /\ worker.at = "batch"
  /\ Write([i \in DOMAIN worker.batch |->
              [model |-> worker.model, text |-> worker.batch[i]]])
  /\ raced' = (raced \ DOMAIN worker.batch)
                \cup {i \in DOMAIN worker.batch : text[i] # worker.batch[i]}
  /\ worker' = Idle
  /\ UNCHANGED <<text, born, indexing, budget>>

Restart ==
  /\ budget.restarts < MaxRestarts
  /\ Spend("restarts")
  /\ cache' = Empty /\ worker' = Idle
  /\ UNCHANGED <<text, born, table, indexing, raced>>

Worker == ChooseModel \/ ReadBatch \/ StoreBatch

Next ==
  \/ \E i \in Id : NoteAdd(i) \/ NoteDelete(i) \/ HostSave(i) \/ HostDelete(i)
  \/ SetIndexing \/ Search \/ Restart
  \/ Worker \/ BatchFails

Spec == Init /\ [][Next]_vars

-----------------------------------------------------------------------------
(* Properties. *)

\* A search never sees vectors the table does not have: all writers of the
\* table keep the copy up or drop it (embed.rs:276, 325, db.rs:451, 466).
CacheMatchesTable == cache # Empty => cache = table

\* The vector of a text that changed, or of a row that went, is there only if
\* that happened while the worker had the row in its batch (embed.rs:394-417).
StaleOnlyByRace ==
  \A i \in Id : table[i] # NoVec /\ table[i].text # text[i] => i \in raced

\* So a search finds what the rows say, but for rows that changed under a
\* batch.
VectorsAreTrue == CacheMatchesTable /\ StaleOnlyByRace

\* "switching providers re-embeds in the background" (embed.rs:5-6): once
\* rows and provider stay as they are, every row gets a vector of the model
\* that searches use, whatever the batches at work when they changed.
EverythingIndexed == <>[](\A i \in Live : table[i].model = CurrentModel)
=============================================================================

------------------------------ MODULE Services ------------------------------
(***************************************************************************)
(* The services that have threads and files of their own: requests to a    *)
(* model (Llm), vectors (Embed), the tool server (Mcp), the files of rows  *)
(* (Snapshots) and the database's schema (Schema).  No two of them share a *)
(* lock or a variable of the program, so their steps need not be           *)
(* interleaved: a behaviour is one of one service, chosen at the start,    *)
(* and their states add up instead of multiplying.                         *)
(***************************************************************************)
EXTENDS Integers, Sequences

CONSTANTS
  Req, MaxRequests, Client, MaxPieces, NoReq,       \* of Llm
  Notes, Hosts, Batch, MaxVersion, MaxToggles, MaxFailures, MaxRestarts,  \* of Embed
  Conns, MaxStarts, MaxActive, MaxInbox, MaxCalls,  \* of Mcp
  Savers, MaxSaves, MaxLoads,                       \* of Snapshots
  Programs, Versions, Statements, MaxRuns           \* of Schema

ASSUME ServicesAssumption ==
  /\ MaxRequests \in Nat \ {0} /\ NoReq \notin Req
  /\ Notes \cap Hosts = {}
  /\ {Batch, MaxVersion, MaxActive, MaxInbox, Versions, Statements} \subseteq Nat \ {0}
  /\ {MaxPieces, MaxToggles, MaxFailures, MaxRestarts, MaxStarts, MaxCalls, MaxSaves,
      MaxLoads, MaxRuns} \subseteq Nat

VARIABLES
  stage,
  reg, state, cancel, delta, parts, thread, event, sent, client, results,
  text, born, table, cache, indexing, worker, raced, budget,
  token, server, starts, stopped, joining, listener, active, conn, nextId, inbox, taken, by, notes,
  file, temp, lock, saver, saves, done, reported, loads, loaded,
  tables, applied, program

\* The modules with the proofs, where there is one: Services_proofs cites their theorems.
Answers == INSTANCE Llm_proofs WITH calls <- parts, worker <- thread
Vectors == INSTANCE Embed
Tools   == INSTANCE Mcp_proofs
Stores  == INSTANCE Snapshots
Schemas == INSTANCE Schema

answerVars == <<reg, state, cancel, delta, parts, thread, event, sent, client, results>>
vectorVars == <<text, born, table, cache, indexing, worker, raced, budget>>
toolVars   == <<token, server, starts, stopped, joining, listener, active, conn, nextId, inbox, taken, by, notes>>
storeVars  == <<file, temp, lock, saver, saves, done, reported, loads, loaded>>
schemaVars == <<tables, applied, program>>
vars       == <<stage, answerVars, vectorVars, toolVars, storeVars, schemaVars>>

\* What has several initial values has one of them while another service is looked at.
Init ==
  /\ stage \in {"answers", "vectors", "tools", "stores", "schema"}
  /\ Answers!Init /\ Schemas!Init
  /\ Vectors!Init /\ (stage # "vectors" => ~indexing)
  /\ Tools!Init   /\ (stage # "tools" => token = "random")
  /\ Stores!Init  /\ (stage # "stores" => temp = 0)

Next ==
  \/ stage = "answers" /\ Answers!Next /\ UNCHANGED <<stage, vectorVars, toolVars, storeVars, schemaVars>>
  \/ stage = "vectors" /\ Vectors!Next /\ UNCHANGED <<stage, answerVars, toolVars, storeVars, schemaVars>>
  \/ stage = "tools"   /\ Tools!Next   /\ UNCHANGED <<stage, answerVars, vectorVars, storeVars, schemaVars>>
  \/ stage = "stores"  /\ Stores!Next  /\ UNCHANGED <<stage, answerVars, vectorVars, toolVars, schemaVars>>
  \/ stage = "schema"  /\ Schemas!Next /\ UNCHANGED <<stage, answerVars, vectorVars, toolVars, storeVars>>

\* A request's thread always takes its next step, as connecting, reading and
\* writing have timeouts (llm.rs:690), and frames go on.
AnswersFair ==
  /\ \A r \in Req : WF_answerVars(stage = "answers" /\ Answers!Worker(r))
  /\ \A c \in Client : WF_answerVars(stage = "answers" /\ Answers!Frame(c))

\* The worker's thread loops for as long as the program runs (embed.rs:436).
VectorsFair == WF_vectorVars(stage = "vectors" /\ Vectors!Worker)

\* Threads run and time passes; what clients and the user do is not awaited.
ToolsFair ==
  /\ WF_toolVars(stage = "tools" /\ Tools!Joined)
  /\ \A s \in Tools!Server : WF_toolVars(stage = "tools" /\ Tools!Accepting(s))
  /\ \A c \in Conns : WF_toolVars(stage = "tools" /\ (Tools!Deadline(c) \/ Tools!Own(c)))

Spec == Init /\ [][Next]_vars /\ AnswersFair /\ VectorsFair /\ ToolsFair

-----------------------------------------------------------------------------
(* Properties, each stated and explained by the module it belongs to. *)

\* Llm: a cancelled request stays cancelled (llm.rs:533, 591).
CancelSticks == Answers!CancelSticks

\* Llm: what a client ends with is the whole answer (ai.lua:1177, llm.rs:747).
AnswersAreWhole == Answers!AnswersAreWhole

\* Llm: a freed request leaves no thread behind (llm.rs:732).
FreedWorkerLeaves == Answers!FreedWorkerLeaves

\* Embed: searches see the table, and a vector is of its row's text but for a
\* batch that was at work (embed.rs:276-325, 394-417).
VectorsAreTrue == Vectors!VectorsAreTrue

\* Embed: every row is indexed for the model of now in the end (embed.rs:5-6).
EverythingIndexed == Vectors!EverythingIndexed

\* Mcp: the inbox loses only its oldest (mcp.rs:117-135).
NewestAreKept == Tools!NewestAreKept

\* Mcp: nothing is carried out for an old token or begun after a stop
\* (mcp.rs:76-87, 579-586, 636).
ItemsAreAuthorised == Tools!ItemsAreAuthorised

\* Mcp: neither a thread nor the interface waits for ever (mcp.rs:430-468, 767).
NobodyIsHeld == Tools!NobodyIsHeld

\* Snapshots: a load is one save, whole (store.rs:38-84).
SavesAreWhole == Stores!SavesAreWhole

\* Schema: an open database has its schema (db.rs:168-199).
SchemaIsComplete == Schemas!SchemaIsComplete
=============================================================================

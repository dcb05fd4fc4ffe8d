# Causeway Bay Office: TLA+ models and proofs

Causeway Bay Office is an SSH client with a Rust core (`rust/src`, a C ABI
declared in `rust/include/cbo.h`) and a Lua/LÖVE interface (`love2d/src`). The
core keeps sessions, their terminals and recordings, file transfers, LLM
requests, an MCP server and a SQLite database with notes and embeddings. This
directory models the parts whose correctness depends on the order in which
threads, calls and failures meet.

## 1. Inventory

| Component | State it keeps | Operations | What is hard |
| --- | --- | --- | --- |
| Sessions (`session.rs`, `ssh.rs` `spawn`/`run`, `lib.rs` session calls) | registry of 64 slots; per session the atomics `state`, `epoch`, `close_requested`, the recorder slot | open, reconnect, close, free, shutdown; one worker thread per connection | the UI thread and every worker ever spawned for a session write the same atomics without a common lock; a worker learns that it was replaced only by comparing epochs |
| Data path of a connection (`ssh.rs` pump loop) | `outgoing` queue, `pending_out`, `resize_request`, terminal, `close_requested` | send, resize, flush, read, keepalive, close | two locks taken one after the other, partial writes, a requested close against data still queued |
| Recording (`record.rs`, `db.rs` session rows) | recorder slot of each session, rows of `sessions`, the queue of pending writes, `ENABLED` | start, end, input, output, switch on and off, flush, prune | worker, UI thread and flusher meet in the recorder slot and in the queue; the row must be ended exactly when its connection ends, and what was captured must reach the database |
| LLM requests (`llm.rs`) | registry of 64 requests; per request text buffer, state, cancel flag, tool calls | start, poll, state, cancel, free; one thread per request | text and state are read by two calls of the UI; cancellation races the end of the stream; slots are used again |
| File jobs (`files.rs`) | the job list; per job state, cancel flag; remote and local names | upload, download, overwrite swap, cancel, status | a failure between the two renames of a swap; cancel seen only between chunks; a name that must always hold one complete version |
| Embeddings and notes (`embed.rs`, `notes.rs`, `db.rs`) | `notes`, their FTS rows and vectors, the vector cache, the status counters | note add, update, delete, local embedding worker, search | the worker reads under the lock, computes outside it, and stores under it again |
| MCP server (`mcp.rs`) | the inbox of asks, the number of open connections, the `running` flag | start, stop, accept, tool calls, inbox push and take | bounded inbox that drops the oldest, bounded connections, stop while connections are served |
| Terminal and inline graphics (`term.rs`, `graphics.rs`) | screen, scrollback, images, placements, the open upload | feed, transfer, place, delete, clear, evict, prune | a store bounded in bytes whose eviction must not leave placements without image; sequences split over reads |
| Host keys (`ssh.rs` `check_host_key`) | `known_hosts.json` | trust on first use, compare | two first connections at once; the file is rewritten as a whole |
| Stores, favourites, history, names (`store.rs`, `favorites.rs`, `input_history.rs`, `names.rs`) | JSON files | load, save (temporary file and rename) | a crash in the middle of a save; two writers |
| Search (`search.rs`, `fuzzy.rs`) | none | hybrid ranking over FTS, fuzzy and vectors | a filter after a truncation |
| Assist, learning (`assist.rs`, `learning.rs`, `context.rs`, `patterns.rs`) | line buffer, command statistics | keystroke capture, suggestion | what the remote echoes against what was typed |
| Interface: sessions (`sessions.lua`) | list of machines, restore list, hosts file | open, close, rename, poll, save and restore | closing waits for the core's state; the restore list is written at every change |
| Interface: assistant (`scenes/ai.lua`, `tools.lua`) | conversation, queue of tool calls, rounds, approval | send, stream, approve, deny, run tools, continue, cancel | a turn that is cancelled while a tool waits for the user |
| Interface: drawing, maps, games (`gfx.lua`, `fx.lua`, `scenes/map*.lua`, ...) | animation state | drawing | no logic that outlives a frame |

The UI thread is the only caller of the C ABI. It polls: the core never calls
back. Core threads are the session workers, the recording flusher, one thread
per LLM request and per file job, the embedding worker, and the MCP server's
accept and connection threads.

The table names the properties only by their difficulty; what each component
must guarantee is:

* sessions: what is shown is what the current connection does; a replaced worker
  never interferes and leaves; every attempt is answered; a close is carried out.
* recording: an open row has exactly one recorder that will close it; off means
  off; nothing captured disappears except where the code says so; commits keep
  the order of capture.
* LLM requests: a client ends with the whole answer or an error; cancelled stays
  cancelled; no thread is left behind.
* file jobs: one job per session at a time; an upload lands whole or leaves the
  file alone; nothing is overwritten; no temporary file is left.
* embeddings: the copy in memory is the table; a vector is that of its row's text;
  every row is indexed in the end.
* AI panel: calls and results stay paired; nothing is typed without permission,
  nor after its call was answered; rounds are bounded.
* Connection data path: what is typed goes out once, in order, on the connection
  it was typed for; the size asked for is the size the channel is told.
* Terminal: what is understood of the output does not depend on where the network
  cuts it. Graphics: no placement without its image, the budget holds, pictures
  stay at their lines.
* Host keys: a host is trusted with one key, nothing is offered before that.
* MCP server: the inbox stays bounded and keeps the newest, nothing is carried out
  for an old token or after a stop, nobody waits for ever.
* Stores: a load is one whole save. Schema: an open database has all of it.
* Search: a page is the fusion of its two lists. Learning: what is learned is a line
  that was entered, and never the answer to a question.

The hazards behind these, each with its line in the source, are the "hazards" of
`PROJECT.json`. Lesser ones found on the way and not listed there: a note, its FTS row
and its vector are written without a transaction (`notes.rs:47-66`); rows of sessions
that were open when the program died stay open (`db.rs:533`); an OpenAI chunk with
both text and tool calls loses the calls (`llm.rs:339-347`); a tool job whose marker
scrolls off the screen waits for ever (`tools.lua:197`); a temporary file that a
broken connection left makes later overwrites of that name fail (`files.rs:278`);
after a cancel a new MCP item may be delivered ahead of older ones (`ai.lua:1230`);
the splitter's handling of a split UTF-8 character depends on where the chunk ends
(`record.rs:101`).

## 2. Modules

| Module | Models | Correspondence |
| --- | --- | --- |
| `Session` | `session.rs`, `ssh.rs` `spawn` and `run`, the session calls of `lib.rs` | `reg` is `SESSIONS`; `state`, `epoch`, `cr`, `rec` are the session's atomics and its recorder slot; `pc[o][e]` is the thread spawned for epoch `e`. One action per check of a worker and per store another thread can see: `CheckCancel` / `ReportConnected`, `ExitCheck` / `Settle` / `EndRecording` are separate because the code holds no lock across them. The UI thread's calls are split the same way (`ConnectReset`, `ConnectRecord`, `ConnectSpawn`, `CloseCheck`, `CloseAbandon`, `ShutdownSession`). |
| `Session_proofs` | | the theorems about `Session` |
| `Recording` | `record.rs`, session rows of `db.rs`, the part of `session.rs` and `lib.rs` that calls them | `rec[o]` is the recorder (row, waiting lines, unfinished line), `queue`/`qbytes` the bounded queue and its counter, `batch` what a flusher took while it holds `FLUSH_LOCK`, `rows` the table `sessions`, `ending` the three steps of `session_ended`. A piece of output is a number. |
| `Llm` | `llm.rs` and the polling in `scenes/ai.lua` | `worker[r]` is the request's thread, `event` the stream line it has just read, `client` the interface's sequence drain, poll, drain again, take calls, free. |
| `Files` | `files.rs` | `jobs` is the list of jobs per session slot, `job[j]` a thread with its place, `file` what each remote path holds (the name, the temporary `.cbo-hot`, the backup, a download's destination). |
| `Replacement` | what an upload promises (`files.rs:22-25`) | abstract: an upload lands, fails or, with its connection broken, leaves open which of the two |
| `Embed` | `embed.rs`, `notes.rs`, host rows of `db.rs` | `table` is `embeddings`, `cache` is `CACHE`, `worker` the thread between its two visits to the database, `text` the rows (a version number per text). |
| `AiTurn` | `scenes/ai.lua`, jobs of `tools.lua` | one step is one frame or one input event; `messages`, `req`, `job`, `queue`, `rounds`, `pending`, `coding` are the panel's fields of those names. |
| `HostKeys` | `check_host_key`, `authenticate` and their place in `run` (`ssh.rs`) | `dial[c]` is a connection between its socket and its authentication, of any window; `file`, `legacy`, `temp`, `lock` are the files in the data directory. One action per file operation, and `Die` at every place. |
| `Typing` | `LineAssembler` (`record.rs`), `learning.rs` | `editor` is what the shell makes of the keys, `assembler` and `learning` what the program makes of them; a write is one key, or up to `MaxFeed` pasted letters with or without an Enter. |
| `Pump` | the pump loop (`ssh.rs`), `write`, `resize` and `connect` (`session.rs`) | `at[e]` is where epoch `e`'s worker is in its iteration: each of its locks is a step, since a reconnect may come between any two. |
| `Stream` | `split` (`graphics.rs`), `scan_osc7`, `scan_csi` (`term.rs`), the stripper of `record.rs` | the state machines, byte by byte, next to what the pieces of the output mean; `cut` is where a read ends. |
| `Graphics` | `graphics.rs` commands and store, anchoring in `term.rs` | `store` is `Graphics` with the set of its images, each with the time of its use, `pending` the upload in pieces, `screen` the lines. `Evict` says which images a loop that drops the least recently used one ends up dropping. One action per command or text run of a read, prune included. |
| `Mcp` | `mcp.rs` | `listener[s]` the accepting thread of server `s`, `conn[c]` a connection's thread, `active` the permits, `inbox`/`nextId`/`taken` the items. |
| `Wire` | `llm.rs`: fragments of calls, conversations of both providers | `PushToolDelta` (fragments into calls), `CallsJson` (calls to the panel), `NormalizeMessages` (the conversation in either provider's form), driven by answers in any order of fragments. |
| `Search` | `search.rs`, query vectors of `embed.rs` | one search; every lookup is a step, rows and provider change between them. `Rrf` is the set of orders by score: rows of the same score come in any order, since what the code breaks ties by (their age) is not modelled. |
| `Snapshots` | `store.rs` and its callers | `saver[w]` a window in the middle of a save; `file`, `temp`, `lock` are files; a version number stands for the rows of a save. |
| `Schema` | `open_default` and `migrate` (`db.rs`) | `program[p]` a program at one of its statements, `tables` and `applied` what is on disk. |
| `Terminal`, `Assistant`, `Services` | | the compositions below |
| `Recording_proofs`, `Llm_proofs`, `Mcp_proofs`, `Files_proofs`, `Services_proofs` (with `Embed`, `Snapshots`, `Schema`), `Terminal_proofs` (with `HostKeys`, `Pump`, `Stream`, `Graphics`, `Typing`), `Assistant_proofs` (with `AiTurn`, `Wire`, `Search`) | | theorems |

### How the modules are put together

Components that share a variable of the program are composed where they share it:
`Recording` and `Files` carry the part of `Session` they see (connect, end, close,
replace) as their environment, with the same steps in the same order; `Pump` carries
the epoch. `Files` implements `Replacement` (`UploadsReplaceOrLeave`); the refinement
mapping is at the end of `Files.tla`: the abstract content is the version under the
file's name or, between the two renames, the one under the backup name.

Components that share none are brought together by one module for each part of the
program, and checked in one run:

* `Terminal`: `HostKeys`, `Typing`, `Pump`, `Stream`, `Graphics`, the way between the keys,
  a channel and the screen. A stage hands the next one a finished value under one
  lock and never looks back.
* `Assistant`: `AiTurn`, `Wire`, `Search`. The turn hands the other two a finished
  conversation or question in one call and gets a value back.
* `Services`: `Llm`, `Embed`, `Mcp`, `Snapshots`, `Schema`. No two share a lock or a
  variable.

Each has a variable `stage`, chosen by `Init`, and takes only that component's steps.
This is all there is to check: a property of one component depends on that
component's variables only, no step of another changes them, and so every
behaviour of all together is, seen by one of them, a behaviour of that one with
stutters. It says nothing about properties that relate two components, and none is
stated. Their states add up instead of multiplying, which is what keeps such runs
within minutes.

### Order of work

Done, in this order: `Session` with its proofs; `Recording`, `Llm`, `Files` / `Replacement`,
`Embed`, `AiTurn`; `Pump`, `Stream`, `Graphics`, `HostKeys`, `Typing`; `Mcp`, `Wire`, `Search`,
`Snapshots`, `Schema`; the proofs of section 4.

Left: the screen's selection and text view, and the fuzzy matcher, as operators
checked against a definition; the restore list of `sessions.lua`; two sessions that
upload to one name while swaps are refused (`files.rs:313`). Every safety invariant and
action property of a passing run has a theorem.

## 3. Runs

Runs that pass:

| Run | Instance | Shows |
| --- | --- | --- |
| `session` | one session object, one slot, three epochs | four invariants and two liveness properties. Three epochs allow a worker to be replaced twice, so two stale workers and the current one run at once. Sessions share nothing but the registry, and slots are checked for any number by the proofs. |
| `recording` | one session, two connects, two rows, two pieces, a queue of three | every invariant of the recorder, its rows and the queue. Two connects let an old worker end its recording beside a new one; a queue of three fills up (two pieces give two chunks and their text, and a command). |
| `files` | two slots, three session objects, two jobs at once, two closes or reconnects, no faults | jobs that outlive their slot, two of them on one remote file. |
| `files_swap` | one session, three uploads one after another, refusals and broken connections | the refinement of `Replacement`, and nothing left behind. Three uploads let a later one meet what two earlier ones left. |
| `terminal` | `HostKeys`: three connections, one host, two keys. `Typing`: three letters, one the question mark, lines of four bytes, pastes of up to two. `Pump`: three epochs, two pieces, one size. `Stream`: three pieces of output, cut everywhere. `Graphics`: one id, one number, images of up to two units in a store of three, a screen of two rows with one line of history | three connections: one that writes, one that waits, one that reads an old file. Three epochs: two replaced workers at once. Three pieces: an unfinished sequence between two others. The store holds one large image or some small ones, so uploads evict; three lines scroll past the history. |
| `assistant` | `AiTurn`: two questions, two rounds, three calls of at most two per answer, jobs of two commands, one MCP item, one message removed, one switch to code mode. `Wire`: answers of two calls in up to two fragments each, two answers. `Search`: two notes, two commands, pages of one and two | the code allows six rounds; two are enough for a last round that is not the first. Two calls can be confused with each other, two answers with each other. |
| `services` | `Llm`: two requests on one slot, streams of up to two pieces. `Embed`: two notes and one host of up to three versions, batches of two, two switches, a refused batch, a restart. `Mcp`: two servers, two clients, one permit, an inbox of one, two calls. `Snapshots`: two windows, three saves, two loads. `Schema`: two programs, three versions of two statements, each started twice | slots are used again; three rows make more than one batch; an inbox of one is full at once; a permit is contended; a third version has one before and one after it. |

Runs that find a violation, each a disagreement between the code and what is
written about it:

* `session_stale_write`: a comment in `ssh.rs:33` says that a stale worker must not
  touch the state. The check and the store are two steps; a reconnect between them
  is overwritten, and its recorder taken.
* `session_close_stuck`: `cbo.h:59` promises that close leads to CLOSED. A cancel
  between the worker's last check (`ssh.rs:275`) and its store of CONNECTED leaves a
  CONNECTED session without a worker, which no later close can end. The run uses
  the specification with fairness: the session is stuck although every thread runs.
* `recording_enable`: `session_ended` is said to close the row (`record.rs:511`). Turning
  recording on while the session ends attaches a recorder nobody will end.
* `files_restore`: the original is said to be restored if the swap fails
  (`SPEC.md:301`). When the connection breaks between the renames it stays under the
  backup name.
* `typing_history`: `learning.rs:4-5` says that history keys invalidate the line rather
  than have it guessed. The bytes of such a key after its ESC are kept as typed; once
  Backspace has removed as many, the line is trusted again and a fragment is learned.

A sixth is stated as a passing property instead: `SPEC.md:268` says that deleting a
note removes its vector, but a worker that has the note in its batch stores the
vector again afterwards (`embed.rs:412`). `VectorsAreTrue` shows that this is the only
way to a stale vector; the row never counts as waiting again, so it stays.

A worker that holds the recorder it has just taken while `cbo_shutdown` flushes
queues its last window after that flush (`lib.rs:106`); `NothingVanishes` counts it as
still queued.

Deadlock is not checked in any run: the counters of each model are bounded, and
the program itself may stop (after `cbo_shutdown`, or when nobody does anything).
Where something has to happen a liveness property says so.

Bounds that are not in the code are named and commented where each module declares
its CONSTANTS (`MaxEpoch`, `MaxGen`, `MaxPieces`, `MaxRunning`, `MaxToggles`, `MaxStarts`, ...). Each caps
how often the environment acts: connects, captured pieces, edits, questions. The
limits of the code (slots, permits, inbox, store, rounds) are constants too, and small,
so that they are reached.
No symmetry is used.

### Fairness

* `Session`: weak fairness of every worker and of the UI thread's unfinished call
  (`UiContinue`), none of the calls themselves. Every blocking phase of `run` has a
  timeout (`ssh.rs:18-19`), so a worker always moves on; the user need not act. For
  the same reason a pump iteration may go on for ever, but its checks are made
  in each.
* `Llm`: weak fairness of a request's thread (reads time out) and of a client's frame
  (the interface polls every frame). Nothing is assumed of the provider: a stream may
  go on.
* `Embed`: weak fairness of the worker's loop. Provider failures are bounded, since a
  provider that always refuses leaves rows waiting for ever.
* `Mcp`: weak fairness of the interface's join, of the accepting threads, and of what a
  connection's thread does by itself, its deadline included (`mcp.rs:430`). Neither
  clients nor the user are awaited.
* The other modules are checked for safety only.

## 4. Proofs

`Session_proofs` proves for any set of sessions, any number of slots and any number of
epochs, from `SessionAssumption` (there is at least one slot, `MaxEpoch` is a natural
number, and no session is `NoSession`):

* `TypeCorrect`: `TypeOK`
* `ShownStateIsTrue`: `StateMatchesWorker`
* `NoOrphanedConnecting`: `ConnectingIsServed`
* `RecorderIsCurrent`: `RecorderOfCurrentConnection`
* `FreedIsNobodys`: `FreedSessionsHaveNoOwner`

None of these is inductive. `IInv` adds what each relies on: an epoch not handed out
yet has no worker (`EpochsHandedOut`); a session never allocated is as `Init` left it
(`Unborn`); no session sits in two slots (`RegistryInjective`); what the UI thread is in
the middle of fits the session it works on (`UiInv`); a live session without a worker
is one the UI thread is about to give one or to close, or one that has ended
(`NobodyMissing`); the owner's place agrees with the state unless a replaced worker
wrote to the session (`OwnerAgrees`); and where the recorder may be (`RecorderInv`).
The central argument is about *owners*: the only worker that matters to a session is
the one of its current epoch. `OwnerAfterStep` says that a worker's step moves the
owner's place only if it is the owner, `OwnerAfterBump` that taking the epoch leaves
no owner; with `QuietStep`, which covers every worker step that changes nothing but
its place, each action has a short proof of its own, and `Inductive` collects them.

Sessions that a replaced worker has written to (`tainted`) are excluded from
`StateMatchesWorker` and from one part of `RecorderInv`, because the code does not
protect them (run `session_stale_write`); `ConnectingIsServed` and
`FreedSessionsHaveNoOwner` hold for them as well.

The other proof modules, each from the assumption of the module it is about and for all
values of the constants otherwise:

**Recording.** `OffIsOff`: `OffMeansOff`. While recording is being turned off, a recorder that
is still there is of a session that will be visited or is being visited (`Ended`), because
only a session that was connected once has one (`OnlyLive`) and those are the ones visited.
`OpenRowsKept`, `QueueIsAccounted`, `NothingIsLost` and `CommitsInOrder` (`OpenRowsAreKept`,
`QueueAccounted`, `NothingVanishes`, `CommittedInOrder`) come from one invariant, `Books`: who
is inside `session_ended`, and where (`Inside`); the session a recorder is about to be
attached to has none (`Vacant`); a row that is kept is open, of its keeper's session and
nobody else's, and an open row is kept (`Kept`); what is committed was captured before what
is being committed, and that before what is queued, with one committer at a time (`Ordered`).
`Vacant` is what makes an attach lose no recorder, `Kept` what makes an end close one row.

**Llm.** `WholeAnswers` and `CancelIsFinal`: `AnswersAreWhole`, `CancelSticks`, from
`NoReq \notin Req`. What the client has, what waits for it and the line being
handled make the text that arrived (`TextIsThere`, `CallsAreThere`); a final state that
is not a cancel's comes last (`Ends`); a request is held by one client (`HeldOnce`).
`ThreadStep` and `ClientStep` say whom a step concerns, so that each action's proof
is about one request and one client.

**Files**, in two layers. For any number of threads at once (`InvA`): `JobsTakeTurns`,
`JobsAreReachable`, `ReadersSeeWholeFiles` and the action property `NothingIsOverwritten`. Each
session has its slot, and a running job whose session has none is of a session that is
closing, so that it does not come back to start another (`Registry`); whoever writes the
temporary file has it to itself, since a second upload's create is refused (`Staged`).
For one thread at a time (`Single`, `InvB`): `NothingIsLeft` and the refinement
`UploadsImplementReplacement`, that every step of `Files` is, under the mapping at the end of
`Files.tla`, a step of `Replacement` or a stutter. The point of the argument is `Cover`: a
version that stands under its backup name only is about to be swapped or put back, or the
temporary name is taken for good, so that no later upload gets as far as removing that
backup. With two uploads of one name and refused renames both fail: a clean-up
removes by name (`files.rs:313`), also what another upload has just put there.
`FilesAssumption` asks for as many sessions as slots, which is how the model starts.

**Terminal.** Of `HostKeys`, `TrustOnFirstUse` (`OneKeyPerHost`), if there is a host and a key: the
lock is held by whoever is between reading and renaming (`Exclusive`), so what it has read
is still what is there (`UpToDate`), and only a host without an entry gets one
(`FirstUse`). Of `Pump`, `TypedGoesOut` (`ConnectionGetsItsOwn`): what is behind the queue is older
than what is in it (`InTurn`), so whichever worker takes the queue takes what comes next, and
a worker that takes from a queue of another connection is one that was caught in its
iteration (`Meant`, `Reached`). Of `Graphics`, `AnchorsKept` (`AnchorsStay`) with `Counted`;
`StoreHolds` (`StoreHoldsWhatIsShown`) and the action property `UploadsKeep`
(`UploadsKeepShown`) with `ShowInv`. The bytes of a store are a sum over a set, so these
last rest on inductions over finite sets of images: a smallest set of which the claim is
false (`Smallest`) has none smaller. Eviction reaches only images that nothing shows, and
the new one, which nothing shows yet, is among those, so there is always enough to evict.
Of `Typing`, `LinesStayTrue` (`LinesAreNotMistaken`), for any letters, pastes, prompts and amounts
of echo: between writes the assembler is in no escape sequence and all three have the same
line while it is only typed (`Same`), and what is kept as the prompt is what asked when the
line began (`Prompted`). A write is letters and one last key, or one key of several bytes
(`FeedsAre`); `FlatWrite` carries `Same` through the letters, `NoAnswer` and `NoPassword` say
what the three ways of finding the prompt can find on a line that is not a shell's. The
assumption is that letters are not control keys. Proving it showed what the property has
to except: an answer that has a question mark itself, whose echo is behind, reads like the
end of the question and is learned; the run has that letter.
Of `Stream`, `ReadsMatterNot` (`ReadsDoNotMatter`), for any sequence of the pieces and any
reads that cut it. What a scanner makes of a sequence (`Ran`) is what its fold computes
(`SplitFold`, `OscFold`, `StripFold`), and two parts read one after the other make what both
make at once (`RanJoined`). So `StreamInv` need not speak of reads: the splitter and the
stripper are as one read of everything so far would leave them (`SplitAsWhole`,
`StripAsWhole`), up to half a character that is held back, and what the terminal found is
what its scanners make of the text they were fed (`Scanned`). `LinkedRead` says that handling
segments after the read was split is the same as handling each byte as it comes, and
`TailJoined` charges an erasure over the border of two runs to the cut. What remains is about
whole outputs and goes piece by piece (`AllMeant`, `AllStripped`). The assumption, `MaxBody >= 2`,
is that no body of a piece is longer than what the splitter keeps.

**Services.** Of `Embed`, `VectorsStayTrue` (`VectorsAreTrue`): an id that was not given out has left
nothing anywhere (`Unborn`). Of `Mcp`, `OnlyAuthorised` (`ItemsAreAuthorised`): there is no
connection before the first start, which has renewed the token, and who has sent an
item is at its calls or has ended, and has shown the token (`Sender`); and `NewestKept`
(`NewestAreKept`): what waits has no gap (`Waiting`), so the item a full inbox loses is older
than as many as the inbox holds (`Missed`), and what was taken is older than all that waits
(`Older`). Of `Snapshots`, `LoadsAreSaves` (`SavesAreWhole`): the file is the last save that took
effect (`FileIsLast`), as the temporary file belongs to the holder of the lock. Of
`Schema`, `MigratedIsComplete` (`SchemaIsComplete`): the rows of migrations are those up to
some version and stand for the statements of all of them (`Gapless`); a program has done
what comes before the place where it is (`Done`). It rests on every statement being
repeatable (`IF NOT EXISTS`).

**Assistant.** Of `AiTurn`, `AccessAsked`, `PairsWhole`, `SentPaired` and the action property
`QuietStays` (`AccessIsAsked`, `PairsAreWhole`, `SentIsPaired`, `QuietAfterAnswer`), for any number
of rounds, calls, cancels and removed messages. That calls and results are paired
is not inductive, since most of the time results are still owed. `TurnInv` looks
ahead: calls are numbered as they are made, those at work are the last ones, and the
conversation continued with the results owed to them (`Plan`) is paired as long as nothing
was removed. Starting, skipping or cancelling a call turns an owed result into a given one
and leaves the plan as it is, so each action has to be looked at only for what it adds.
`SentPaired` says what `sanitize` does with a conversation of which anything may have been
removed: `CleanedIs` and `SanitizeIs` find its blocks, by induction over the messages.
Of `Search`, `PagesFused` (`PagesAreFused`), for any finite set of rows, any `K` and any page:
what each pass listed is a list of distinct rows that are there or went since, no longer
than the pool (`SearchInv`); `TwoOutweighOne` is the arithmetic of two reciprocal ranks
against one, which is where the bound `K + 1` on the lists comes from.
Of `Wire`, `CallsWhole` (`CallsComeBackWhole`), for any calls, any order of their fragments and
either provider. `WireInv` says where each fragment belongs: a call's place bounds the index
of its fragments (`Placed`), so a fragment fills up the call it is of, or one made for it
(`PushNew`, `PushMore`), and names the call once. An answer with its results is a `Block`;
appended to the conversation it `Joins` what stands there, and the conversion of the whole
is that of what was there with the block's own appended (`FillGrows`, `NormalizeGoesOn`),
except that Anthropic's results gather in one message (`Merges`), which belongs to this block
alone since the block's calls stand before it.

The compositions keep what their parts keep: `Steps` and `Each` of `Services_proofs`,
`Connects`, `Transmits`, `Streams` and `Scrolls` of `Terminal_proofs`, `Takes`, `Looks` and `Carries` of
`Assistant_proofs` say that every behaviour of the composition is one of the part. So the
theorems are about the `Spec` of the composition, which is the one its run checks, with the
constants' assumptions taken from the composition's. `Llm_proofs` and `Mcp_proofs` are about
the components' own `Spec`; `Services` instantiates the modules with the proofs, which
extend the components, so that the theorems come along.

Induction. The theorems of the library that say "by induction" take the property as a
parameter, which the provers cannot supply. What they can use is that a well-founded
relation has minimal elements in every non-empty set: `UpToAll` derives from it that a set of
numbers with 0 and all successors of its members is all of `Nat`, `Smallest` that a
non-empty family of subsets of a finite set has a smallest; and a claim is then
proved of all numbers, or all subsets, by looking at the set of those it holds for. That
a recursive function exists (`UpToExists`, `FlatExists`, `FoldExists`) is shown the same way, since its
definition only chooses one that satisfies the equation.

What proving changed in the models: where two arms of a CASE could apply at once
(`AiTurn`, `Typing`) its value is any of them to the logic and the first one to TLC, so
the order is now said with IF; sorting rows of equal score by a comparison has no
defined result, so `Search` says which orders are possible, and its scores are fractions;
the eviction of `Graphics` is a closed form instead of a loop; `Wire` filters with folds
whose steps have names, because the library's `SelectSeq` is a recursion inside a definition
that cannot be unfolded; `Stream` handles one segment at a time (`Process`), as the code does, and
sums up the pieces with a fold (`All`). TLC finds the same in each.

Only model-checked: liveness (temporal reasoning under fairness is out of the prover's
reach). The proofs use types of their own (`Typed`,
`Shape`), no stronger than they need, or `TypeOK` itself (`Session`, `Files`, `Pump`).

## 5. Not modelled

* Data: the emulator's screen (a library), pixels, JSON, SQL beyond the rows named above,
  the arithmetic of vectors and of ranking. They are pure, and tested as such.
* Crashes of the operating system and corrupted files. Programs die between any two
  steps in `HostKeys`, `Snapshots` and `Schema`, whose files outlive them, and `Embed` has a
  restart, because its table outlives its cache; the other components keep nothing
  across restarts that the models speak about.
* Failures of single SQL statements outside the flusher's transaction and the
  migrations.
* Contents of screens: a tool job in `AiTurn` ends when its marker is seen, at any
  frame or never.
* The rest of the components table in `PROJECT.json`, with the reason for each.

------------------------------ MODULE Recording ------------------------------
(***************************************************************************)
(* Session recording in cbo_core: the recorder attached to a session, the  *)
(* queue that three kinds of threads push to, the flusher that commits it, *)
(* the rows of the sessions table, and the switch that turns recording on  *)
(* and off while sessions run.                                             *)
(*                                                                         *)
(* Sessions are reduced to what recording sees of them: the state, the     *)
(* epoch and the workers (module Session has the whole life).  What is     *)
(* captured is a numbered piece; piece n of the remote's output goes to    *)
(* the database twice, as a raw chunk and as text of the transcript.       *)
(***************************************************************************)
EXTENDS Integers, Sequences, FiniteSets, Functions

CONSTANTS
  Obj,         \* sessions
  MaxGen,      \* bound: connects of a session
  MaxRows,     \* bound: rows of the sessions table
  MaxPieces,   \* bound: pieces captured
  QueueCap,    \* MAX_QUEUE_BYTES, in pieces
  WindowLines, \* WINDOW_LINES, in pieces
  BigPart,     \* MAX_WINDOW_BYTES of a line without its end, in pieces
  NoRec,       \* no recorder attached
  NoObj        \* no session; the UI thread, where a worker's session would stand

ASSUME RecordingAssumption ==
  /\ MaxGen \in Nat /\ MaxRows \in Nat /\ MaxPieces \in Nat
  /\ QueueCap \in Nat /\ WindowLines \in Nat \ {0} /\ BigPart \in Nat \ {0}
  /\ NoObj \notin Obj
  /\ NoRec \notin [row : Nat, lines : Seq(Nat), part : Seq(Nat)]

Gen     == 1 .. MaxGen
Ui      == <<NoObj, 0>>
Ender   == {Ui} \cup (Obj \X Gen)   \* who can be inside session_ended
Flusher == {"thread", "ui"}          \* who calls flush_now

VARIABLES
  state,    \* Session.state: connecting, connected or ended
  gen,      \* Session.epoch
  worker,   \* worker[o][g]: none, dial, rise, run, store, gone
  rec,      \* Session.rec: NoRec or [row, lines, part]
  rows,     \* the sessions table: rows[r] = [obj, closed]
  ending,   \* ending[p]: the session_ended p is inside of: [step, obj, rec]
  ui,       \* the UI thread's call: [op, obj, todo, then]
  enabled,  \* ENABLED
  queue,    \* QUEUE: items [kind, row, ns]
  qbytes,   \* QUEUE_BYTES
  batch,    \* batch[f]: what f took to commit; FLUSH_LOCK is held while it has some
  db,       \* the items committed, in order
  pieces,   \* pieces captured so far
  texts,    \* history: the pieces that carry text
  lost,     \* history: <<kind, n>> of what was dropped on the way
  adrift    \* history: rows whose recorder was dropped or whose update failed

vars == <<state, gen, worker, rec, rows, ending, ui, enabled, queue, qbytes,
          batch, db, pieces, texts, lost, adrift>>

sessionVars == <<state, gen, worker>>
queueVars   == <<queue, qbytes>>
storeVars   == <<batch, db>>

Item(kind, row, ns) == [kind |-> kind, row |-> row, ns |-> ns]
Size(item) == Len(item.ns)
Marks(items) == UNION {{<<items[i].kind, items[i].ns[j]>> : j \in DOMAIN items[i].ns} :
                         i \in DOMAIN items}

NotEnding == [step |-> "none", obj |-> NoObj, rec |-> NoRec]
Idle == [op |-> "idle", obj |-> NoObj, todo |-> {}, then |-> "idle"]
Live == {o \in Obj : gen[o] > 0}

Init ==
  /\ state = [o \in Obj |-> "ended"]
  /\ gen = [o \in Obj |-> 0]
  /\ worker = [o \in Obj |-> [g \in Gen |-> "none"]]
  /\ rec = [o \in Obj |-> NoRec]
  /\ rows = <<>>
  /\ ending = [p \in Ender |-> NotEnding]
  /\ ui = Idle
  /\ enabled \in BOOLEAN
  /\ queue = <<>>
  /\ qbytes = 0
  /\ batch = [f \in Flusher |-> <<>>]
  /\ db = <<>>
  /\ pieces = 0
  /\ texts = {}
  /\ lost = {}
  /\ adrift = {}

-----------------------------------------------------------------------------
(* The queue. *)

Queue     == [items |-> queue, bytes |-> qbytes, lost |-> lost]
Queued(q) == queue' = q.items /\ qbytes' = q.bytes /\ lost' = q.lost

(* push: an item that would take the queue over its bound is dropped.      *)
Push(q, item) ==
  IF q.bytes + Size(item) > QueueCap
    THEN [q EXCEPT !.lost = @ \cup Marks(<<item>>)]
    ELSE [q EXCEPT !.items = Append(@, item), !.bytes = @ + Size(item)]

(* A window of the transcript is queued when there is something in it.     *)
PushText(q, row, window) == IF window = <<>> THEN q ELSE Push(q, Item("text", row, window))

(* Mutant: the byte count is left to the commit. *)
FlushTake_KeepsBytes(f) ==
  /\ \A h \in Flusher : batch[h] = <<>>
  /\ batch' = [batch EXCEPT ![f] = queue]
  /\ queue' = <<>>
  /\ UNCHANGED qbytes

(* Mutant: flush_now does not take FLUSH_LOCK. *)
FlushTake_NoLock(f) ==
  /\ batch[f] = <<>>
  /\ batch' = [batch EXCEPT ![f] = queue]
  /\ queue' = <<>>
  /\ qbytes' = 0

(* flush_now: under FLUSH_LOCK, take everything queued ... *)
FlushTake(f) ==
  /\ \A h \in Flusher : batch[h] = <<>>
  /\ batch' = [batch EXCEPT ![f] = queue]
  /\ queue' = <<>>
  /\ qbytes' = 0

(* ... and commit it in one transaction, or lose it with the error. *)
FlushCommit(f) ==
  /\ batch[f] # <<>>
  /\ batch' = [batch EXCEPT ![f] = <<>>]
  /\ \/ db' = db \o batch[f] /\ UNCHANGED lost
     \/ lost' = lost \cup Marks(batch[f]) /\ UNCHANGED db

(* The flusher thread, every FLUSH_INTERVAL or when woken. *)
FlusherTake ==
  /\ queue # <<>>
  /\ FlushTake("thread")
  /\ UNCHANGED <<sessionVars, rec, rows, ending, ui, enabled, db, pieces, texts, lost, adrift>>

FlusherCommit ==
  /\ FlushCommit("thread")
  /\ UNCHANGED <<sessionVars, rec, rows, ending, ui, enabled, queueVars, pieces, texts, adrift>>

-----------------------------------------------------------------------------
(* session_ended, called by a worker or by the UI thread. *)

Enter(p, o) == ending' = [ending EXCEPT ![p] = [step |-> "take", obj |-> o, rec |-> NoRec]]

(* Take the recorder attached now, whoever's it is. *)
TakeRecorder(p) ==
  LET o == ending[p].obj IN
  /\ ending[p].step = "take"
  /\ ending' = [ending EXCEPT ![p] =
                  IF rec[o] = NoRec THEN NotEnding ELSE [@ EXCEPT !.step = "push", !.rec = rec[o]]]
  /\ rec' = [rec EXCEPT ![o] = NoRec]
  /\ UNCHANGED <<sessionVars, rows, ui, enabled, queueVars, storeVars, pieces, texts, lost, adrift>>

(* Mutant: the line that has no end yet is forgotten. *)
PushWindow_LinesOnly(p) ==
  LET r == ending[p].rec IN
  /\ ending[p].step = "push"
  /\ Queued(PushText(Queue, r.row, r.lines))
  /\ ending' = [ending EXCEPT ![p].step = "row"]
  /\ UNCHANGED <<sessionVars, rec, rows, ui, enabled, storeVars, pieces, texts, adrift>>

(* Queue its last window, the unfinished line included. *)
PushWindow(p) ==
  LET r == ending[p].rec IN
  /\ ending[p].step = "push"
  /\ Queued(PushText(Queue, r.row, r.lines \o r.part))
  /\ ending' = [ending EXCEPT ![p].step = "row"]
  /\ UNCHANGED <<sessionVars, rec, rows, ui, enabled, storeVars, pieces, texts, adrift>>

(* Close its row; a database error leaves the row open for good. *)
CloseRow(p) ==
  LET r == ending[p].rec.row IN
  /\ ending[p].step = "row"
  /\ ending' = [ending EXCEPT ![p] = NotEnding]
  /\ \/ rows' = [rows EXCEPT ![r].closed = TRUE] /\ UNCHANGED adrift
     \/ adrift' = adrift \cup {r} /\ UNCHANGED rows
  /\ UNCHANGED <<sessionVars, rec, ui, enabled, queueVars, storeVars, pieces, texts, lost>>

(* session_started: a new row and a recorder for it; nothing when          *)
(* recording is off or the row cannot be written.                          *)
Started(o) ==
  \/ /\ enabled
     /\ Len(rows) < MaxRows
     /\ rows' = Append(rows, [obj |-> o, closed |-> FALSE])
     /\ rec' = [rec EXCEPT ![o] = [row |-> Len(rows) + 1, lines |-> <<>>, part |-> <<>>]]
  \/ UNCHANGED <<rows, rec>>

-----------------------------------------------------------------------------
(* Capture: under the lock of the recorder. *)

(* Recording was turned off meanwhile: the recorder is dropped as it is. *)
Drop(o) ==
  /\ ~enabled
  /\ rec[o] # NoRec
  /\ rec' = [rec EXCEPT ![o] = NoRec]
  /\ adrift' = adrift \cup {rec[o].row}
  /\ lost' = lost \cup {<<"text", n>> : n \in Range(rec[o].lines \o rec[o].part)}
  /\ UNCHANGED <<queueVars, pieces, texts>>

(* on_input: a chunk, and the command line it may complete. *)
Input(o) ==
  /\ ui = Idle
  /\ o \in Live
  /\ \/ Drop(o)
     \/ LET n == pieces + 1
            chunked == Push(Queue, Item("chunk", rec[o].row, <<n>>))
        IN
        /\ enabled /\ rec[o] # NoRec /\ pieces < MaxPieces
        /\ pieces' = n
        /\ Queued(chunked) \/ Queued(Push(chunked, Item("command", rec[o].row, <<n>>)))
        /\ UNCHANGED <<rec, texts, adrift>>
  /\ UNCHANGED <<sessionVars, rows, ending, ui, enabled, storeVars>>

(* The transcript's share of one piece of output: the window it completes  *)
(* and the recorder that keeps the rest.  A long line without its end is   *)
(* queued by itself, ahead of the lines that wait for their window.        *)
Transcribe(r, n) ==
  LET open  == Append(r.part, n)
      lines == r.lines \o open
  IN { [window |-> <<>>, rec |-> r, text |-> FALSE],               \* escapes only
       IF Len(open) < BigPart                                       \* no line end
       THEN [window |-> <<>>, rec |-> [r EXCEPT !.part = open], text |-> TRUE]
       ELSE [window |-> open, rec |-> [r EXCEPT !.part = <<>>], text |-> TRUE],
       IF Len(lines) < WindowLines                                  \* a line end
       THEN [window |-> <<>>, rec |-> [r EXCEPT !.lines = lines, !.part = <<>>], text |-> TRUE]
       ELSE [window |-> lines, rec |-> [r EXCEPT !.lines = <<>>, !.part = <<>>], text |-> TRUE] }

(* on_output, from the pump loop of a worker that may be a replaced one. *)
Output(o, g) ==
  /\ worker[o][g] = "run"
  /\ \/ Drop(o)
     \/ LET n == pieces + 1 IN
        /\ enabled /\ rec[o] # NoRec /\ pieces < MaxPieces
        /\ pieces' = n
        /\ \E t \in Transcribe(rec[o], n) :
             /\ Queued(PushText(Push(Queue, Item("chunk", rec[o].row, <<n>>)), rec[o].row, t.window))
             /\ rec' = [rec EXCEPT ![o] = t.rec]
             /\ texts' = IF t.text THEN texts \cup {n} ELSE texts
        /\ UNCHANGED adrift
  /\ UNCHANGED <<sessionVars, rows, ending, ui, enabled, storeVars>>

-----------------------------------------------------------------------------
(* The workers, as far as recording is concerned. *)

rest == <<rec, rows, ui, enabled, queueVars, storeVars, pieces, texts, lost, adrift>>

Place(o, g, w) == worker' = [worker EXCEPT ![o][g] = w]

(* A phase of run() or a round of the pump loop ends: the connection goes  *)
(* on, or the worker leaves and checks that it was not replaced.           *)
Advance(o, g) ==
  /\ worker[o][g] \in {"dial", "run"}
  /\ \/ worker[o][g] = "dial" /\ gen[o] = g /\ Place(o, g, "rise")
     \/ Place(o, g, IF gen[o] = g THEN "store" ELSE "gone")
  /\ UNCHANGED <<state, gen, ending, rest>>

ReportConnected(o, g) ==
  /\ worker[o][g] = "rise"
  /\ Place(o, g, "run")
  /\ state' = [state EXCEPT ![o] = "connected"]
  /\ UNCHANGED <<gen, ending, rest>>

(* set_state(CLOSED or ERROR): the store, then session_ended. *)
StoreEnded(o, g) ==
  /\ worker[o][g] = "store"
  /\ Place(o, g, "gone")
  /\ state' = [state EXCEPT ![o] = "ended"]
  /\ Enter(<<o, g>>, o)
  /\ UNCHANGED <<gen, rest>>

-----------------------------------------------------------------------------
(* The UI thread's calls; one is a sequence of the steps below. *)

Calls(op, o, todo, then) == ui' = [op |-> op, obj |-> o, todo |-> todo, then |-> then]
Free(p) == ending[p].step = "none"
At(op) == ui.op = op /\ Free(Ui)

(* connect(): take the epoch, end the old recording ... *)
Connect(o) ==
  /\ ui = Idle
  /\ gen[o] < MaxGen
  /\ gen' = [gen EXCEPT ![o] = @ + 1]
  /\ Enter(Ui, o)
  /\ Calls("show", o, {}, "idle")
  /\ UNCHANGED <<state, worker, rec, rows, enabled, queueVars, storeVars, pieces, texts, lost, adrift>>

(* ... show CONNECTING and start a new one ... *)
ConnectStart(o) ==
  /\ At("show") /\ ui.obj = o
  /\ state' = [state EXCEPT ![o] = "connecting"]
  /\ Started(o)
  /\ Calls("spawn", o, {}, "idle")
  /\ UNCHANGED <<gen, worker, ending, enabled, queueVars, storeVars, pieces, texts, lost, adrift>>

(* ... and spawn the worker; without a thread the session ends at once. *)
ConnectSpawn(o) ==
  /\ At("spawn") /\ ui.obj = o
  /\ \/ /\ Place(o, gen[o], "dial")
        /\ UNCHANGED <<state, ending>>
     \/ /\ state' = [state EXCEPT ![o] = "ended"]
        /\ Enter(Ui, o)
        /\ UNCHANGED worker
  /\ Calls("return", NoObj, {}, "idle")
  /\ UNCHANGED <<gen, rec, rows, enabled, queueVars, storeVars, pieces, texts, lost, adrift>>

(* cbo_session_close of a session still connecting. *)
Abandon(o) ==
  /\ ui = Idle
  /\ state[o] = "connecting"
  /\ gen' = [gen EXCEPT ![o] = @ + 1]
  /\ state' = [state EXCEPT ![o] = "ended"]
  /\ Enter(Ui, o)
  /\ Calls("return", NoObj, {}, "idle")
  /\ UNCHANGED <<worker, rec, rows, enabled, queueVars, storeVars, pieces, texts, lost, adrift>>

(* cbo_record_enable: the flag first, then every live session. *)
SetEnabled(on) ==
  /\ ui = Idle
  /\ enabled' = on
  /\ Calls(IF on THEN "on" ELSE "off", NoObj, Live, "idle")
  /\ UNCHANGED <<sessionVars, rec, rows, ending, queueVars, storeVars, pieces, texts, lost, adrift>>

(* Mutant: a session that is being recorded is started once more. *)
EnableCheck_Again(o) ==
  /\ At("on") /\ o \in ui.todo
  /\ IF state[o] # "ended"
     THEN Calls("attach", o, ui.todo \ {o}, "idle")
     ELSE Calls("on", NoObj, ui.todo \ {o}, "idle")
  /\ UNCHANGED <<sessionVars, rec, rows, ending, enabled, queueVars, storeVars, pieces, texts, lost, adrift>>

(* Turned on: a session that is up and not recorded ... *)
EnableCheck(o) ==
  /\ At("on") /\ o \in ui.todo
  /\ IF state[o] # "ended" /\ rec[o] = NoRec
     THEN Calls("attach", o, ui.todo \ {o}, "idle")
     ELSE Calls("on", NoObj, ui.todo \ {o}, "idle")
  /\ UNCHANGED <<sessionVars, rec, rows, ending, enabled, queueVars, storeVars, pieces, texts, lost, adrift>>

(* ... gets a recorder. *)
EnableAttach(o) ==
  /\ At("attach") /\ ui.obj = o
  /\ Started(o)
  /\ Calls("on", NoObj, ui.todo, "idle")
  /\ UNCHANGED <<sessionVars, ending, enabled, queueVars, storeVars, pieces, texts, lost, adrift>>

(* Mutant: a session that has already ended is passed over. *)
DisableVisit_OpenOnly(o) ==
  /\ At("off") /\ o \in ui.todo
  /\ IF state[o] = "ended" THEN UNCHANGED ending ELSE Enter(Ui, o)
  /\ Calls("off", NoObj, ui.todo \ {o}, "idle")
  /\ UNCHANGED <<sessionVars, rec, rows, enabled, queueVars, storeVars, pieces, texts, lost, adrift>>

(* Turned off: end the recording of every live session. *)
DisableVisit(o) ==
  /\ At("off") /\ o \in ui.todo
  /\ Enter(Ui, o)
  /\ Calls("off", NoObj, ui.todo \ {o}, "idle")
  /\ UNCHANGED <<sessionVars, rec, rows, enabled, queueVars, storeVars, pieces, texts, lost, adrift>>

(* cbo_shutdown: take the epoch from every live session, show it CLOSED    *)
(* and end its recording.                                                  *)
Shutdown ==
  /\ ui = Idle
  /\ Calls("shutdown", NoObj, Live, "down")
  /\ UNCHANGED <<sessionVars, rec, rows, ending, enabled, queueVars, storeVars, pieces, texts, lost, adrift>>

ShutdownVisit(o) ==
  /\ At("shutdown") /\ o \in ui.todo
  /\ gen' = [gen EXCEPT ![o] = @ + 1]
  /\ state' = [state EXCEPT ![o] = "ended"]
  /\ Enter(Ui, o)
  /\ Calls("shutdown", NoObj, ui.todo \ {o}, "down")
  /\ UNCHANGED <<worker, rec, rows, enabled, queueVars, storeVars, pieces, texts, lost, adrift>>

(* All sessions visited: turning off and shutting down flush. *)
Visited ==
  /\ ui.op \in {"on", "off", "shutdown", "return"} /\ Free(Ui) /\ ui.todo = {}
  /\ IF ui.op \in {"off", "shutdown"}
     THEN Calls("flush", NoObj, {}, ui.then)
     ELSE ui' = Idle
  /\ UNCHANGED <<sessionVars, rec, rows, ending, enabled, queueVars, storeVars, pieces, texts, lost, adrift>>

UiFlush ==
  /\ At("flush")
  /\ FlushTake("ui")
  /\ Calls("commit", NoObj, {}, ui.then)
  /\ UNCHANGED <<sessionVars, rec, rows, ending, enabled, db, pieces, texts, lost, adrift>>

UiCommit ==
  /\ At("commit")
  /\ \/ FlushCommit("ui")
     \/ batch["ui"] = <<>> /\ UNCHANGED <<storeVars, lost>>
  /\ Calls(ui.then, NoObj, {}, "idle")
  /\ UNCHANGED <<sessionVars, rec, rows, ending, enabled, queueVars, pieces, texts, adrift>>

-----------------------------------------------------------------------------
EndStep(p) == TakeRecorder(p) \/ PushWindow(p) \/ CloseRow(p)

UiContinue ==
  \/ EndStep(Ui)
  \/ \E o \in Obj : \/ ConnectStart(o) \/ ConnectSpawn(o)
                    \/ EnableCheck(o) \/ EnableAttach(o) \/ DisableVisit(o)
                    \/ ShutdownVisit(o)
  \/ Visited \/ UiFlush \/ UiCommit

UiCall ==
  \/ \E o \in Obj : Connect(o) \/ Abandon(o) \/ Input(o)
  \/ \E on \in BOOLEAN : SetEnabled(on)
  \/ Shutdown

Worker(o, g) ==
  \/ Advance(o, g) \/ ReportConnected(o, g) \/ StoreEnded(o, g)
  \/ Output(o, g) \/ EndStep(<<o, g>>)

FlusherThread == FlusherTake \/ FlusherCommit

Next ==
  \/ UiCall \/ UiContinue \/ FlusherThread
  \/ \E o \in Obj, g \in Gen : Worker(o, g)

Spec == Init /\ [][Next]_vars

-----------------------------------------------------------------------------
(* Properties. *)

Recorder == [row : 1 .. MaxRows, lines : Seq(1 .. MaxPieces), part : Seq(1 .. MaxPieces)]
IsItems(s) ==
  \A i \in DOMAIN s : /\ s[i].kind \in {"chunk", "command", "text"}
                      /\ s[i].row \in DOMAIN rows
                      /\ Range(s[i].ns) \subseteq 1 .. pieces

TypeOK ==
  /\ state \in [Obj -> {"connecting", "connected", "ended"}]
  /\ gen \in [Obj -> Nat]
  /\ worker \in [Obj -> [Gen -> {"none", "dial", "rise", "run", "store", "gone"}]]
  /\ \A o \in Obj : rec[o] = NoRec \/ (rec[o] \in Recorder /\ rec[o].row \in DOMAIN rows)
  /\ \A p \in Ender : /\ ending[p].step \in {"none", "take", "push", "row"}
                      /\ (ending[p].rec = NoRec) <=> (ending[p].step \in {"none", "take"})
  /\ enabled \in BOOLEAN
  /\ IsItems(queue) /\ IsItems(db) /\ \A f \in Flusher : IsItems(batch[f])
  /\ texts \subseteq 1 .. pieces

(* QUEUE_BYTES is what is queued, and is bounded, although it is a counter *)
(* of its own next to the queue (record.rs:288, 365): there are running    *)
(* totals of the items' sizes that end with it and stay below the bound.   *)
QueueAccounted ==
  \E total \in [0 .. Len(queue) -> 0 .. QueueCap] :
    /\ total[0] = 0
    /\ \A i \in 1 .. Len(queue) : total[i] = total[i - 1] + Size(queue[i])
    /\ qbytes = total[Len(queue)]

Held(r) == IF r = NoRec THEN {} ELSE {<<"text", n>> : n \in Range(r.lines \o r.part)}
HeldText == UNION {Held(rec[o]) : o \in Obj}
HeldByEnders == UNION {IF ending[p].step = "push" THEN Held(ending[p].rec) ELSE {} : p \in Ender}
UnderWay == Marks(queue) \cup UNION {Marks(batch[f]) : f \in Flusher}

(* Nothing captured vanishes: every piece of output, and its text, is with *)
(* a recorder, queued, being committed or in the database, unless the      *)
(* queue was full, the database refused it, or recording was turned off    *)
(* under it (record.rs:290, 373, 601).                                     *)
NothingVanishes ==
  LET kept == HeldText \cup HeldByEnders \cup UnderWay \cup Marks(db) \cup lost IN
  /\ \A n \in 1 .. pieces : <<"chunk", n>> \in kept
  /\ \A n \in texts : <<"text", n>> \in kept

(* Two threads flush, and their transactions commit in the order of        *)
(* capture (FLUSH_LOCK, record.rs:364): a transcript is read back in the    *)
(* order of the rows (record.rs:803).                                      *)
CommittedInOrder ==
  \A i, j \in DOMAIN db :
    i < j /\ db[i].kind = "chunk" /\ db[j].kind = "chunk" => db[i].ns[1] < db[j].ns[1]

(* A row of the sessions table that is not closed has one recorder that    *)
(* will close it, attached to its own session or already taken; the rows   *)
(* whose recorder was dropped by turning recording off, or whose update    *)
(* failed, are the exceptions (record.rs:341, 528).                        *)
KeepersOf(r) ==
  {<<o, 0>> : o \in {o \in Obj : rec[o] # NoRec /\ rec[o].row = r /\ rows[r].obj = o}}
  \cup {p \in Ender : ending[p].rec # NoRec /\ ending[p].rec.row = r /\ rows[r].obj = ending[p].obj}

OpenRowsAreKept ==
  \A r \in DOMAIN rows : Cardinality(KeepersOf(r)) = IF rows[r].closed \/ r \in adrift THEN 0 ELSE 1

(* Once cbo_record_enable(0) has returned nothing is recorded any more,    *)
(* whatever state its sessions were in (docs/REPAIR_REPORT.md:38).         *)
OffMeansOff ==
  ~enabled /\ ui.op # "off" => \A o \in Obj : rec[o] = NoRec

(* record.rs:511, of session_ended: "Close the sessions row; flushes the   *)
(* last transcript window."  A session that has ended, with nobody left    *)
(* inside session_ended, has no open row but those the database refused.   *)
EndedSessionsAreClosed ==
  \A r \in DOMAIN rows :
    LET o == rows[r].obj IN
    /\ state[o] = "ended" /\ ui.obj # o
    /\ \A p \in Ender : ending[p].obj # o
    /\ \A g \in Gen : worker[o][g] \in {"none", "gone"}
    => rows[r].closed \/ r \in adrift
=============================================================================

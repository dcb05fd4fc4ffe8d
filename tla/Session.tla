------------------------------- MODULE Session -------------------------------
(***************************************************************************)
(* The life of SSH sessions in cbo_core: the registry of slots, the calls  *)
(* the UI thread makes on them (open, reconnect, close, free, shutdown)    *)
(* and the one worker thread each (re)connect spawns.                      *)
(*                                                                         *)
(* A session object is shared by the UI thread and by every worker that    *)
(* was ever spawned for it, through atomics that are read and written one  *)
(* at a time.  The epoch is what tells a worker that it has been replaced: *)
(* it compares the session's epoch with its own before it goes on.  The    *)
(* comparison and the write it protects are two steps, and the model keeps *)
(* them apart.  Steps of the UI thread are merged only where no worker can *)
(* tell the difference.                                                    *)
(***************************************************************************)
EXTENDS Integers, FiniteSets

CONSTANTS
  Obj,          \* the session objects that can ever be allocated
  MaxSessions,  \* slots of the registry (MAX_SESSIONS)
  MaxEpoch,     \* bound: the largest epoch a connect may hand out
  NoSession     \* an empty slot, and "no session" of the UI thread

ASSUME SessionAssumption ==
  /\ MaxSessions \in Nat \ {0}
  /\ MaxEpoch \in Nat
  /\ NoSession \notin Obj

Slot  == 0 .. MaxSessions - 1
Epoch == 1 .. MaxEpoch

States == {"IDLE", "CONNECTING", "CONNECTED", "CLOSED", "ERROR"}
Ended  == {"CLOSED", "ERROR"}

(* Where a worker is: the blocking phases before the shell runs, the two   *)
(* last checks before it reports CONNECTED, the pump loop, and the way out *)
(* (epoch check, state store, end of the recording).                       *)
Dialing == {"tcp", "handshake", "hostkey", "auth", "channel"}
Rising  == Dialing \cup {"cancel", "up"}
Pumping == {"top", "pump"}
Leaving == {"exit_ok", "exit_err"}
Settling == {"set_closed", "set_error"}
Alive   == Rising \cup Pumping \cup Leaving \cup Settling \cup {"end"}
WorkerPC == Alive \cup {"none", "gone"}

(* What the UI thread is in the middle of. *)
UiOps == {"idle", "record", "spawn", "close", "abandon", "shutdown", "down"}

VARIABLES
  reg,      \* registry: slot -> session object or NoSession
  born,     \* objects allocated so far
  state,    \* Session.state
  epoch,    \* Session.epoch
  cr,       \* Session.close_requested
  rec,      \* Session.rec: the epoch whose recorder is attached, 0 for none
  pc,       \* pc[o][e]: the worker spawned for epoch e of session o
  ui,       \* [op, obj]: the UI thread's current call and its session
  todo,     \* sessions cbo_shutdown has still to visit
  tainted   \* history: sessions a replaced worker wrote since their last connect

vars == <<reg, born, state, epoch, cr, rec, pc, ui, todo, tainted>>

Live == {reg[s] : s \in Slot} \ {NoSession}

Idle == [op |-> "idle", obj |-> NoSession]
UiAt(op, o) == ui = [op |-> op, obj |-> o]
Goto(op, o) == ui' = [op |-> op, obj |-> o]

Stale(o, e) == epoch[o] # e
Step(o, e, next) == pc' = [pc EXCEPT ![o][e] = next]

(* The worker that currently owns the session, if there is one. *)
Owner(o) == IF epoch[o] \in Epoch THEN pc[o][epoch[o]] ELSE "none"

TypeOK ==
  /\ reg \in [Slot -> Obj \cup {NoSession}]
  /\ born \subseteq Obj
  /\ state \in [Obj -> States]
  /\ epoch \in [Obj -> Nat]
  /\ cr \in [Obj -> BOOLEAN]
  /\ rec \in [Obj -> Nat]
  /\ pc \in [Obj -> [Epoch -> WorkerPC]]
  /\ ui \in [op : UiOps, obj : Obj \cup {NoSession}]
  /\ todo \subseteq Obj
  /\ tainted \subseteq Obj

Init ==
  /\ reg = [s \in Slot |-> NoSession]
  /\ born = {}
  /\ state = [o \in Obj |-> "IDLE"]
  /\ epoch = [o \in Obj |-> 0]
  /\ cr = [o \in Obj |-> FALSE]
  /\ rec = [o \in Obj |-> 0]
  /\ pc = [o \in Obj |-> [e \in Epoch |-> "none"]]
  /\ ui = Idle
  /\ todo = {}
  /\ tainted = {}

-----------------------------------------------------------------------------
(* The UI thread. *)

(* Mutant: the recording of the replaced connection is not ended. *)
ConnectReset_KeepsRecorder(o) ==
  /\ epoch[o] < MaxEpoch
  /\ epoch' = [epoch EXCEPT ![o] = @ + 1]
  /\ cr' = [cr EXCEPT ![o] = FALSE]
  /\ state' = [state EXCEPT ![o] = "CONNECTING"]
  /\ tainted' = tainted \ {o}
  /\ Goto("record", o)
  /\ UNCHANGED rec

(* connect(), first part: a new epoch, the cancel flag cleared, the old     *)
(* recording ended, CONNECTING shown.  Workers see the stores one by one,  *)
(* but each of their steps touches one of them only, so a step that fell   *)
(* between two of the stores could as well have come before or after all.  *)
ConnectReset(o) ==
  /\ epoch[o] < MaxEpoch
  /\ epoch' = [epoch EXCEPT ![o] = @ + 1]
  /\ cr' = [cr EXCEPT ![o] = FALSE]
  /\ rec' = [rec EXCEPT ![o] = 0]
  /\ state' = [state EXCEPT ![o] = "CONNECTING"]
  /\ tainted' = tainted \ {o}
  /\ Goto("record", o)

(* cbo_session_open: the first free slot, then connect(). *)
Open(o, s) ==
  /\ ui = Idle
  /\ o \notin born
  /\ reg[s] = NoSession
  /\ \A t \in Slot : t < s => reg[t] # NoSession
  /\ reg' = [reg EXCEPT ![s] = o]
  /\ born' = born \cup {o}
  /\ ConnectReset(o)
  /\ UNCHANGED <<pc, todo>>

(* cbo_session_reconnect: connect() again, whatever the state. *)
Reconnect(o) ==
  /\ ui = Idle
  /\ o \in Live
  /\ ConnectReset(o)
  /\ UNCHANGED <<reg, born, pc, todo>>

(* connect(), session_started: attach a recorder; not when recording is    *)
(* off or its row cannot be written.                                       *)
ConnectRecord(o) ==
  /\ UiAt("record", o)
  /\ rec' = [rec EXCEPT ![o] = epoch[o]] \/ UNCHANGED rec
  /\ Goto("spawn", o)
  /\ UNCHANGED <<reg, born, state, epoch, cr, pc, todo, tainted>>

(* Mutant: a thread that cannot be spawned is not reported. *)
ConnectSpawn_Silent(o) ==
  /\ UiAt("spawn", o)
  /\ ui' = Idle
  /\ Step(o, epoch[o], "tcp") \/ UNCHANGED pc
  /\ UNCHANGED <<reg, born, state, epoch, cr, rec, todo, tainted>>

(* ssh::spawn: start the worker of this epoch; when no thread can be had   *)
(* the session goes to ERROR at once.                                      *)
ConnectSpawn(o) ==
  /\ UiAt("spawn", o)
  /\ ui' = Idle
  /\ \/ /\ Step(o, epoch[o], "tcp")
        /\ UNCHANGED <<state, rec>>
     \/ /\ state' = [state EXCEPT ![o] = "ERROR"]
        /\ rec' = [rec EXCEPT ![o] = 0]
        /\ UNCHANGED pc
  /\ UNCHANGED <<reg, born, epoch, cr, todo, tainted>>

(* cbo_session_close, first read of the state: ask a running worker to     *)
(* stop.  (IDLE is never seen here: open connects before it returns.)      *)
CloseRequest(o) ==
  /\ ui = Idle
  /\ o \in Live
  /\ state[o] \in {"CONNECTED", "CONNECTING"}
  /\ cr' = [cr EXCEPT ![o] = TRUE]
  /\ Goto("close", o)
  /\ UNCHANGED <<reg, born, state, epoch, rec, pc, todo, tainted>>

(* Mutant: an abandoned worker keeps its epoch. *)
CloseCheck_KeepsEpoch(o) ==
  /\ UiAt("close", o)
  /\ IF state[o] = "CONNECTING" THEN Goto("abandon", o) ELSE ui' = Idle
  /\ UNCHANGED <<reg, born, state, epoch, cr, rec, pc, todo, tainted>>

(* cbo_session_close, second read: a session still CONNECTING is abandoned *)
(* by taking the epoch from its worker.                                    *)
CloseCheck(o) ==
  /\ UiAt("close", o)
  /\ \/ /\ state[o] = "CONNECTING"
        /\ epoch' = [epoch EXCEPT ![o] = @ + 1]
        /\ Goto("abandon", o)
     \/ /\ state[o] # "CONNECTING"
        /\ ui' = Idle
        /\ UNCHANGED epoch
  /\ UNCHANGED <<reg, born, state, cr, rec, pc, todo, tainted>>

(* ... and shown CLOSED, its recording ended. *)
CloseAbandon(o) ==
  /\ UiAt("abandon", o)
  /\ state' = [state EXCEPT ![o] = "CLOSED"]
  /\ rec' = [rec EXCEPT ![o] = 0]
  /\ ui' = Idle
  /\ UNCHANGED <<reg, born, epoch, cr, pc, todo, tainted>>

(* Mutant: a slot is given back without taking the epoch from its worker. *)
Free_KeepsEpoch(s) ==
  LET o == reg[s] IN
  /\ ui = Idle
  /\ o # NoSession
  /\ state[o] \in Ended
  /\ cr' = [cr EXCEPT ![o] = TRUE]
  /\ reg' = [reg EXCEPT ![s] = NoSession]
  /\ UNCHANGED <<born, state, epoch, rec, pc, ui, todo, tainted>>

(* cbo_session_free: only a CLOSED or ERROR session gives its slot back. *)
Free(s) ==
  LET o == reg[s] IN
  /\ ui = Idle
  /\ o # NoSession
  /\ state[o] \in Ended
  /\ cr' = [cr EXCEPT ![o] = TRUE]
  /\ epoch' = [epoch EXCEPT ![o] = @ + 1]
  /\ reg' = [reg EXCEPT ![s] = NoSession]
  /\ UNCHANGED <<born, state, rec, pc, ui, todo, tainted>>

(* cbo_shutdown: take the epoch from every live session in turn and show   *)
(* it CLOSED.  The UI makes no call after it.                              *)
ShutdownBegin ==
  /\ ui = Idle
  /\ Goto("shutdown", NoSession)
  /\ todo' = Live
  /\ UNCHANGED <<reg, born, state, epoch, cr, rec, pc, tainted>>

ShutdownSession(o) ==
  /\ UiAt("shutdown", NoSession)
  /\ o \in todo
  /\ todo' = todo \ {o}
  /\ cr' = [cr EXCEPT ![o] = TRUE]
  /\ epoch' = [epoch EXCEPT ![o] = @ + 1]
  /\ state' = [state EXCEPT ![o] = "CLOSED"]
  /\ rec' = [rec EXCEPT ![o] = 0]
  /\ UNCHANGED <<reg, born, pc, ui, tainted>>

ShutdownEnd ==
  /\ UiAt("shutdown", NoSession)
  /\ todo = {}
  /\ Goto("down", NoSession)
  /\ UNCHANGED <<reg, born, state, epoch, cr, rec, pc, todo, tainted>>

-----------------------------------------------------------------------------
(* A worker: the thread spawned for epoch e of session o. *)

AfterPhase ==
  [tcp |-> "handshake", handshake |-> "hostkey", hostkey |-> "auth",
   auth |-> "channel", channel |-> "cancel"]

Shared == <<reg, born, epoch, cr, ui, todo>>

(* One blocking phase of run(): it fails, or it succeeds and the epoch is  *)
(* checked before the next one.  Each has a timeout.                       *)
Dial(o, e) ==
  /\ pc[o][e] \in Dialing
  /\ \/ Step(o, e, "exit_err")
     \/ Stale(o, e) /\ Step(o, e, "exit_ok")
     \/ ~Stale(o, e) /\ Step(o, e, AfterPhase[pc[o][e]])
  /\ UNCHANGED <<Shared, state, rec, tainted>>

(* The last look at close_requested before CONNECTED. *)
CheckCancel(o, e) ==
  /\ pc[o][e] = "cancel"
  /\ Step(o, e, IF cr[o] THEN "exit_ok" ELSE "up")
  /\ UNCHANGED <<Shared, state, rec, tainted>>

(* A write to the session by a worker that has been replaced is recorded. *)
Taint(o, e) ==
  tainted' = IF Stale(o, e) THEN tainted \cup {o} ELSE tainted

ReportConnected(o, e) ==
  /\ pc[o][e] = "up"
  /\ state' = [state EXCEPT ![o] = "CONNECTED"]
  /\ Taint(o, e)
  /\ Step(o, e, "top")
  /\ UNCHANGED <<Shared, rec>>

(* Mutant: the pump loop does not look at the epoch. *)
LoopTop_NoCheck(o, e) ==
  /\ pc[o][e] = "top"
  /\ Step(o, e, "pump")
  /\ UNCHANGED <<Shared, state, rec, tainted>>

(* Top of the pump loop: a replaced worker leaves. *)
LoopTop(o, e) ==
  /\ pc[o][e] = "top"
  /\ Step(o, e, IF Stale(o, e) THEN "exit_ok" ELSE "pump")
  /\ UNCHANGED <<Shared, state, rec, tainted>>

(* Mutant: the pump loop does not look at close_requested. *)
PumpRound_IgnoresClose(o, e) ==
  /\ pc[o][e] = "pump"
  /\ \E next \in {"exit_ok", "exit_err", "top"} : Step(o, e, next)
  /\ UNCHANGED <<Shared, state, rec, tainted>>

(* The rest of an iteration: a requested close, the remote's close, a lost *)
(* connection, or another round.  What flows meanwhile is module Pump.     *)
PumpRound(o, e) ==
  /\ pc[o][e] = "pump"
  /\ IF cr[o]
     THEN Step(o, e, "exit_ok")
     ELSE \E next \in {"exit_ok", "exit_err", "top"} : Step(o, e, next)
  /\ UNCHANGED <<Shared, state, rec, tainted>>

(* After run(): a replaced worker must not touch the session. *)
ExitCheck(o, e) ==
  /\ pc[o][e] \in Leaving
  /\ Step(o, e, IF Stale(o, e) THEN "gone"
                ELSE IF pc[o][e] = "exit_ok" THEN "set_closed" ELSE "set_error")
  /\ UNCHANGED <<Shared, state, rec, tainted>>

(* set_state(CLOSED) or set_error: the store of the state. *)
Settle(o, e) ==
  /\ pc[o][e] \in Settling
  /\ state' = [state EXCEPT ![o] = IF pc[o][e] = "set_closed" THEN "CLOSED" ELSE "ERROR"]
  /\ Taint(o, e)
  /\ Step(o, e, "end")
  /\ UNCHANGED <<Shared, rec>>

(* record::session_ended, the second half of set_state: take whatever      *)
(* recorder is attached now.                                               *)
EndRecording(o, e) ==
  /\ pc[o][e] = "end"
  /\ rec' = [rec EXCEPT ![o] = 0]
  /\ tainted' = IF Stale(o, e) /\ rec[o] # 0 THEN tainted \cup {o} ELSE tainted
  /\ Step(o, e, "gone")
  /\ UNCHANGED <<Shared, state>>

-----------------------------------------------------------------------------
UiContinue ==
  \/ \E o \in Obj : \/ ConnectRecord(o)
                    \/ ConnectSpawn(o)
                    \/ CloseCheck(o)
                    \/ CloseAbandon(o)
                    \/ ShutdownSession(o)
  \/ ShutdownEnd

UiCall ==
  \/ \E o \in Obj, s \in Slot : Open(o, s)
  \/ \E o \in Obj : Reconnect(o) \/ CloseRequest(o)
  \/ \E s \in Slot : Free(s)
  \/ ShutdownBegin

Worker(o, e) ==
  \/ Dial(o, e)
  \/ CheckCancel(o, e)
  \/ ReportConnected(o, e)
  \/ LoopTop(o, e)
  \/ PumpRound(o, e)
  \/ ExitCheck(o, e)
  \/ Settle(o, e)
  \/ EndRecording(o, e)

Next ==
  \/ UiCall
  \/ UiContinue
  \/ \E o \in Obj, e \in Epoch : Worker(o, e)

(* A call once begun returns, and every thread gets to run; nobody is      *)
(* bound to make a call.  A worker's blocking phases all time out.         *)
Fairness ==
  /\ WF_vars(UiContinue)
  /\ \A o \in Obj, e \in Epoch : WF_vars(Worker(o, e))

Spec == Init /\ [][Next]_vars
FairSpec == Spec /\ Fairness

-----------------------------------------------------------------------------
(* Properties. *)

(* The UI thread is between calls on o. *)
Settled(o) == ui.obj # o /\ o \in Live /\ o \notin tainted /\ o \notin todo

(* What the UI is shown is what the current connection is doing, unless a  *)
(* replaced worker wrote to the session (ssh.rs checks the epoch before    *)
(* each write, session.rs:85): a CONNECTING or CONNECTED session has a     *)
(* worker that will still report how it ends, and a CLOSED or ERROR one,   *)
(* which free would release, has no worker left that serves a connection.  *)
StateMatchesWorker ==
  \A o \in Obj : Settled(o) =>
    \/ state[o] = "CONNECTING" /\ Owner(o) \in Rising \cup Leaving \cup Settling
    \/ state[o] = "CONNECTED" /\ Owner(o) \in Pumping \cup Leaving \cup Settling
    \/ state[o] \in Ended /\ Owner(o) \in {"none", "end", "gone"}

(* A session never hangs in CONNECTING: even when a replaced worker writes *)
(* to it, CONNECTING is shown only while its current worker is still alive *)
(* or connect() has not returned.                                          *)
ConnectingIsServed ==
  \A o \in Live : state[o] = "CONNECTING" =>
    Owner(o) \in Alive \/ ui.obj = o

(* The recorder attached to a session records the connection that is shown *)
(* (session.rs:205 ends the old recording before a new one starts): never  *)
(* one left over from an earlier epoch, and none on an ended session whose *)
(* worker has left.                                                        *)
RecorderOfCurrentConnection ==
  \A o \in Live :
    /\ rec[o] # 0 /\ ui.obj # o => rec[o] = epoch[o]
    /\ Settled(o) /\ state[o] \in Ended /\ Owner(o) # "end" => rec[o] = 0

(* A session given back with free is nobody's: whatever worker is left is a *)
(* replaced one, even if a replaced worker's write made the session look   *)
(* ended while its connection was up (session.rs:269, "make sure any       *)
(* lingering worker gives up").                                            *)
FreedSessionsHaveNoOwner ==
  \A o \in born \ Live : Owner(o) = "none"

(* A worker that lost its epoch (reconnect, cancel, free, shutdown) goes   *)
(* away by itself (session.rs:85, "a worker whose epoch is stale exits").  *)
StaleWorkersExit ==
  \A o \in Obj, e \in Epoch :
    (pc[o][e] \in Alive /\ Stale(o, e)) ~> (pc[o][e] = "gone")

(* A close asked of a session is carried out, as long as no replaced       *)
(* worker overwrites the outcome (cbo.h:59).                               *)
CloseTakesEffect ==
  \A o \in Obj : cr[o] ~>
    \/ state[o] \in Ended
    \/ ~cr[o]
    \/ o \in tainted

(* ssh.rs:33: "A stale worker (reconnect / free happened meanwhile) must   *)
(* not touch state."                                                       *)
StaleWorkerKeepsOff ==
  [][\A o \in Obj, e \in Epoch :
       Stale(o, e) /\ pc[o][e] # pc'[o][e] /\ ui' = ui
         => state'[o] = state[o] /\ rec'[o] = rec[o]]_vars

(* cbo.h:59: cbo_session_close is "graceful; state -> CLOSED".  (Sessions   *)
(* freed or reconnected since, and the shutdown, are left out.)            *)
CloseReachesClosed ==
  \A o \in Obj :
    (cr[o] /\ o \in Live /\ ui.op \notin {"shutdown", "down"}) ~>
      (state[o] \in Ended \/ ~cr[o] \/ o \notin Live)
=============================================================================

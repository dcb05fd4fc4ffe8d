--------------------------- MODULE Session_proofs ---------------------------
(***************************************************************************)
(* Proofs about module Session, for any number of session objects, slots   *)
(* and epochs.                                                             *)
(***************************************************************************)
EXTENDS Session, TLAPS

(* A session has workers only for the epochs it has handed out, and none   *)
(* before it is opened; it occupies one slot.                              *)
EpochsHandedOut ==
  \A o \in Obj : \A e \in Epoch : e > epoch[o] => pc[o][e] = "none"

Unborn ==
  \A o \in Obj \ born :
    epoch[o] = 0 /\ state[o] = "IDLE" /\ o \notin tainted \cup todo

RegistryInjective ==
  /\ Live \subseteq born
  /\ \A s, t \in Slot : reg[s] = reg[t] /\ reg[s] # NoSession => s = t

(* Where the UI thread stands in the middle of a call. *)
UiInv ==
  /\ ui.op \in {"record", "spawn", "close", "abandon"} => ui.obj \in Live
  /\ ui.op \in {"idle", "shutdown", "down"} => ui.obj = NoSession
  /\ ui.op \in {"record", "spawn"} =>
       /\ epoch[ui.obj] \in Epoch
       /\ Owner(ui.obj) = "none"
       /\ ui.obj \in tainted \/ state[ui.obj] = "CONNECTING"
  /\ ui.op = "abandon" => Owner(ui.obj) = "none"
  /\ ui.op = "close" => cr[ui.obj]

(* The UI thread is about to give o a worker or to show it CLOSED. *)
Attending(o) == ui.op \in {"record", "spawn", "abandon"} /\ ui.obj = o

(* A session whose owner has left, or that never got one, is not waiting   *)
(* for anybody.                                                            *)
NobodyMissing ==
  \A o \in born :
    /\ Owner(o) \in {"end", "gone"} => state[o] # "CONNECTING"
    /\ Owner(o) = "none" /\ state[o] = "CONNECTING"
         => o \notin Live \/ Attending(o)

(* The owner's place against the state shown, for sessions no replaced     *)
(* worker has written.                                                     *)
OwnerAgreesWith(o) ==
  /\ Owner(o) \in Rising => state[o] = "CONNECTING"
  /\ Owner(o) \in Pumping => state[o] = "CONNECTED"
  /\ Owner(o) \in Leaving \cup Settling => state[o] \in {"CONNECTING", "CONNECTED"}
  /\ Owner(o) \in {"end", "gone"} => state[o] \in Ended
  /\ Owner(o) = "none" => state[o] \in Ended \/ Attending(o)

OwnerAgrees == \A o \in Live \ tainted : OwnerAgreesWith(o)

(* The recorder attached belongs to the current epoch, and goes with its   *)
(* worker.                                                                 *)
RecorderInv ==
  \A o \in Live :
    /\ rec[o] # 0 => rec[o] = epoch[o] \/ UiAt("abandon", o)
    /\ UiAt("record", o) => rec[o] = 0
    /\ /\ o \notin tainted
       /\ Owner(o) \in {"none", "gone"}
       /\ ~Attending(o)
       => rec[o] = 0

IInv ==
  /\ TypeOK
  /\ EpochsHandedOut
  /\ Unborn
  /\ RegistryInjective
  /\ UiInv
  /\ NobodyMissing
  /\ OwnerAgrees
  /\ RecorderInv
  /\ FreedSessionsHaveNoOwner

-----------------------------------------------------------------------------
LEMMA InitIInv == Init => IInv
<1> SUFFICES ASSUME Init PROVE IInv
  OBVIOUS
<1> USE DEF Init, Idle
<1>1. TypeOK
  BY SessionAssumption DEF TypeOK, States, WorkerPC, UiOps
<1>2. Live = {}
  BY DEF Live
<1>. QED
  BY <1>1, <1>2 DEF IInv, EpochsHandedOut, Unborn, RegistryInjective, UiInv,
     NobodyMissing, OwnerAgrees, OwnerAgreesWith, RecorderInv, FreedSessionsHaveNoOwner, Owner

(* A worker's step moves the owner's place only if the worker is the owner. *)
LEMMA OwnerAfterStep ==
  ASSUME TypeOK, NEW o \in Obj, NEW e \in Epoch, NEW next,
         Step(o, e, next), epoch' = epoch
  PROVE  \A p \in Obj :
           Owner(p)' = IF p = o /\ epoch[o] = e THEN next ELSE Owner(p)
BY DEF TypeOK, Step, Owner

(* Taking the epoch from a session leaves it without an owner. *)
LEMMA OwnerAfterBump ==
  ASSUME TypeOK, EpochsHandedOut, NEW o \in Obj,
         epoch' = [epoch EXCEPT ![o] = @ + 1], pc' = pc
  PROVE  \A p \in Obj : Owner(p)' = IF p = o THEN "none" ELSE Owner(p)
<1> SUFFICES ASSUME NEW p \in Obj
             PROVE  Owner(p)' = IF p = o THEN "none" ELSE Owner(p)
  OBVIOUS
<1>1. CASE p = o
  <2>1. epoch'[o] = epoch[o] + 1 /\ epoch[o] \in Nat
    BY DEF TypeOK
  <2>. QED
    BY <1>1, <2>1 DEF Owner, EpochsHandedOut
<1>2. CASE p # o
  BY <1>2 DEF Owner, TypeOK
<1>. QED
  BY <1>1, <1>2

LEMMA OwnerType == TypeOK => \A o \in Obj : Owner(o) \in WorkerPC
BY DEF TypeOK, Owner, WorkerPC

LEMMA LiveType == TypeOK => Live \subseteq Obj
BY DEF TypeOK, Live

-----------------------------------------------------------------------------
(* Worker steps.  Those before the state store and the exit check change   *)
(* nothing but the worker's place.                                         *)
LEMMA QuietStep ==
  ASSUME IInv, NEW o \in Obj, NEW e \in Epoch, NEW next \in Alive \cup {"gone"},
         Step(o, e, next), pc[o][e] \in Alive,
         UNCHANGED <<Shared, state, rec, tainted>>,
         epoch[o] = e =>
           \/ pc[o][e] \in Rising /\ next \in Rising \cup Leaving
           \/ pc[o][e] \in Pumping /\ next \in Pumping \cup Leaving
           \/ pc[o][e] \in Leaving /\ next \in Settling
  PROVE  IInv'
<1> USE DEF IInv
<1>1. TypeOK'
  BY DEF TypeOK, Step, Shared, WorkerPC
<1>2. \A p \in Obj : Owner(p)' = IF p = o /\ epoch[o] = e THEN next ELSE Owner(p)
  BY OwnerAfterStep DEF Shared
<1>3. epoch[o] = e => Owner(o) = pc[o][e]
  BY DEF Owner
<1>4. Live' = Live /\ Live \subseteq Obj
  BY LiveType DEF Live, Shared
<1>0. pc[o][e] # "none"
  BY DEF Alive, Rising, Dialing, Pumping, Leaving, Settling
<1>5. EpochsHandedOut'
  BY <1>0 DEF EpochsHandedOut, Shared, Step, TypeOK
<1>6. Unborn' /\ RegistryInjective'
  BY <1>4 DEF Unborn, RegistryInjective, Shared
<1>7. UiInv'
  BY <1>0, <1>2, <1>3, <1>4 DEF UiInv, Shared
<1>8. NobodyMissing'
  BY <1>2, <1>3, <1>4 DEF NobodyMissing, Shared, Alive, Rising, Dialing, Pumping,
     Leaving, Settling, TypeOK, Attending
<1>9. OwnerAgrees'
  BY <1>2, <1>3, <1>4 DEF OwnerAgrees, OwnerAgreesWith, Shared, Alive, Rising, Dialing, Pumping,
     Leaving, Settling, TypeOK, Attending, Live
<1>10. RecorderInv'
  BY <1>2, <1>3, <1>4 DEF RecorderInv, Shared, Alive, Rising, Dialing, Pumping,
     Leaving, Settling, TypeOK, Attending, UiAt, Live
<1>11. FreedSessionsHaveNoOwner'
  BY <1>2, <1>3, <1>4 DEF FreedSessionsHaveNoOwner, Shared, TypeOK, Alive, Rising,
     Dialing, Pumping, Leaving, Settling
<1>. QED
  BY <1>1, <1>5, <1>6, <1>7, <1>8, <1>9, <1>10, <1>11

LEMMA DialStep ==
  ASSUME IInv, NEW o \in Obj, NEW e \in Epoch, Dial(o, e)
  PROVE  IInv'
<1>1. pc[o][e] \in Dialing /\ AfterPhase[pc[o][e]] \in Dialing \cup {"cancel"}
  BY DEF Dial, Dialing, AfterPhase
<1>2. PICK next \in {"exit_err", "exit_ok", AfterPhase[pc[o][e]]} : Step(o, e, next)
  BY DEF Dial
<1>. QED
  BY <1>1, <1>2, QuietStep DEF Dial, Alive, Rising, Leaving

LEMMA CheckCancelStep ==
  ASSUME IInv, NEW o \in Obj, NEW e \in Epoch, CheckCancel(o, e)
  PROVE  IInv'
BY QuietStep DEF CheckCancel, Alive, Rising, Leaving

LEMMA LoopTopStep ==
  ASSUME IInv, NEW o \in Obj, NEW e \in Epoch, LoopTop(o, e)
  PROVE  IInv'
BY QuietStep DEF LoopTop, Alive, Pumping, Leaving

LEMMA PumpRoundStep ==
  ASSUME IInv, NEW o \in Obj, NEW e \in Epoch, PumpRound(o, e)
  PROVE  IInv'
<1>1. PICK next \in {"exit_ok", "exit_err", "top"} : Step(o, e, next)
  BY DEF PumpRound
<1>. QED
  BY <1>1, QuietStep DEF PumpRound, Alive, Pumping, Leaving

LEMMA ExitCheckStep ==
  ASSUME IInv, NEW o \in Obj, NEW e \in Epoch, ExitCheck(o, e)
  PROVE  IInv'
BY QuietStep DEF ExitCheck, Stale, Alive, Leaving, Settling

(* The state store: by the owner it agrees with what the owner does next;  *)
(* by a replaced worker it taints the session.                             *)
LEMMA StoreStep ==
  ASSUME IInv, NEW o \in Obj, NEW e \in Epoch, NEW next, NEW st,
         Step(o, e, next),
         state' = [state EXCEPT ![o] = st],
         Taint(o, e),
         UNCHANGED <<Shared, rec>>,
         \/ pc[o][e] = "up" /\ next = "top" /\ st = "CONNECTED"
         \/ pc[o][e] \in Settling /\ next = "end" /\ st \in Ended
  PROVE  IInv'
<1> USE DEF IInv
<1>1. pc[o][e] # "none" /\ next \in Alive /\ st \in States /\ st # "CONNECTING"
  BY DEF Settling, Alive, Pumping, Ended, States
<1>2. TypeOK'
  BY <1>1 DEF TypeOK, Step, Shared, WorkerPC, Taint
<1>3. \A p \in Obj : Owner(p)' = IF p = o /\ epoch[o] = e THEN next ELSE Owner(p)
  BY OwnerAfterStep DEF Shared
<1>4. epoch[o] = e => Owner(o) = pc[o][e]
  BY DEF Owner
<1>5. Live' = Live /\ Live \subseteq Obj
  BY LiveType DEF Live, Shared
<1>6. \A p \in Obj : state'[p] = IF p = o THEN st ELSE state[p]
  BY DEF TypeOK
<1>7. EpochsHandedOut'
  BY <1>1 DEF EpochsHandedOut, Shared, Step, TypeOK
<1>8. o \in born
  BY <1>1 DEF Unborn, EpochsHandedOut, Epoch
<1>9. Unborn' /\ RegistryInjective'
  BY <1>5, <1>6, <1>8 DEF Unborn, RegistryInjective, Shared, Taint
<1>10. UiInv'
  BY <1>1, <1>3, <1>4, <1>5, <1>6 DEF UiInv, Shared, Taint, Stale
<1>11. NobodyMissing'
  <2>1. born' = born /\ born \subseteq Obj /\ ui' = ui
    BY DEF Shared, TypeOK
  <2>. QED
    BY <1>1, <1>3, <1>4, <1>5, <1>6, <2>1 DEF NobodyMissing, Attending, Settling
<1>12. OwnerAgrees'
  <2>1. ui' = ui /\ tainted \subseteq tainted' /\ (epoch[o] # e => o \in tainted')
    BY DEF Shared, Taint, Stale
  <2>2. ASSUME NEW p \in Live, p \notin tainted', p = o, epoch[o] = e
        PROVE  OwnerAgreesWith(p)'
    BY <1>3, <1>6, <2>2, <1>5 DEF OwnerAgreesWith, Settling, Rising, Dialing, Pumping, Leaving, Ended, Attending
  <2>3. ASSUME NEW p \in Live, p \notin tainted', p # o
        PROVE  OwnerAgreesWith(p)'
    BY <1>3, <1>5, <1>6, <2>1, <2>3 DEF OwnerAgrees, OwnerAgreesWith, Attending
  <2>. QED
    BY <1>5, <2>1, <2>2, <2>3 DEF OwnerAgrees
<1>13. RecorderInv'
  <2>1. ui' = ui /\ epoch' = epoch /\ rec' = rec /\ tainted \subseteq tainted'
    BY DEF Shared, Taint
  <2>. QED
    BY <1>1, <1>3, <1>4, <1>5, <2>1 DEF RecorderInv, UiAt, Attending, Alive, Rising, Dialing, Pumping, Leaving, Settling
<1>14. FreedSessionsHaveNoOwner'
  <2>1. born' = born /\ born \subseteq Obj
    BY DEF Shared, TypeOK
  <2>. QED
    BY <1>1, <1>3, <1>4, <1>5, <2>1 DEF FreedSessionsHaveNoOwner
<1>. QED
  BY <1>2, <1>7, <1>9, <1>10, <1>11, <1>12, <1>13, <1>14

LEMMA ReportConnectedStep ==
  ASSUME IInv, NEW o \in Obj, NEW e \in Epoch, ReportConnected(o, e)
  PROVE  IInv'
BY StoreStep DEF ReportConnected

LEMMA SettleStep ==
  ASSUME IInv, NEW o \in Obj, NEW e \in Epoch, Settle(o, e)
  PROVE  IInv'
BY StoreStep DEF Settle, Ended

LEMMA EndRecordingStep ==
  ASSUME IInv, NEW o \in Obj, NEW e \in Epoch, EndRecording(o, e)
  PROVE  IInv'
<1> USE DEF IInv
<1>1. pc[o][e] = "end" /\ Step(o, e, "gone") /\ state' = state
  BY DEF EndRecording
<1>2. TypeOK'
  BY DEF TypeOK, Step, Shared, WorkerPC, EndRecording
<1>3. \A p \in Obj : Owner(p)' = IF p = o /\ epoch[o] = e THEN "gone" ELSE Owner(p)
  BY <1>1, OwnerAfterStep DEF Shared, EndRecording
<1>4. epoch[o] = e => Owner(o) = "end"
  BY <1>1 DEF Owner
<1>5. Live' = Live /\ Live \subseteq Obj /\ ui' = ui /\ born' = born /\ born \subseteq Obj
  BY LiveType DEF Live, Shared, EndRecording, TypeOK
<1>6. tainted \subseteq tainted' /\ (rec[o] # 0 /\ epoch[o] # e => o \in tainted')
  BY DEF EndRecording, Stale
<1>7. EpochsHandedOut'
  BY <1>1 DEF EpochsHandedOut, Shared, Step, TypeOK, EndRecording
<1>8. o \in born
  BY <1>1 DEF Unborn, EpochsHandedOut, Epoch
<1>9. Unborn' /\ RegistryInjective'
  BY <1>5, <1>8 DEF Unborn, RegistryInjective, Shared, EndRecording
<1>10. UiInv'
  BY <1>1, <1>3, <1>4, <1>5, <1>6 DEF UiInv, Shared, EndRecording
<1>11. NobodyMissing'
  BY <1>1, <1>3, <1>4, <1>5 DEF NobodyMissing, Attending
<1>12. OwnerAgrees'
  BY <1>1, <1>3, <1>4, <1>5, <1>6 DEF OwnerAgrees, OwnerAgreesWith, Attending,
     Rising, Dialing, Pumping, Leaving, Settling
<1>13. RecorderInv'
  <2>1. rec' = [rec EXCEPT ![o] = 0] /\ epoch' = epoch
    BY DEF EndRecording, Shared
  <2>. QED
    BY <1>3, <1>4, <1>5, <1>6, <2>1 DEF RecorderInv, Attending, UiAt, TypeOK
<1>14. FreedSessionsHaveNoOwner'
  BY <1>3, <1>4, <1>5 DEF FreedSessionsHaveNoOwner
<1>. QED
  BY <1>2, <1>7, <1>9, <1>10, <1>11, <1>12, <1>13, <1>14

-----------------------------------------------------------------------------
(* Steps of the UI thread.  connect()'s first part, for a session that is  *)
(* in the registry afterwards and has handed out no later epoch.           *)
LEMMA ConnectResetStep ==
  ASSUME IInv, NEW o \in Obj, ConnectReset(o), ui = Idle,
         RegistryInjective', reg' \in [Slot -> Obj \cup {NoSession}],
         Live' = Live \cup {o}, born' = born \cup {o},
         pc' = pc, todo' = todo
  PROVE  IInv'
<1> USE DEF IInv
<1>1. epoch[o] \in Nat /\ epoch'[o] = epoch[o] + 1 /\ epoch'[o] \in Epoch
  BY SessionAssumption DEF ConnectReset, TypeOK, Epoch
<1>2. TypeOK'
  BY DEF TypeOK, ConnectReset, Goto, States, UiOps
<1>3. \A p \in Obj : Owner(p)' = IF p = o THEN "none" ELSE Owner(p)
  BY OwnerAfterBump DEF ConnectReset
<1>4. ui' = [op |-> "record", obj |-> o] /\ ui.op = "idle"
      /\ ui.obj = NoSession /\ o # NoSession
  BY SessionAssumption DEF ConnectReset, Goto, Idle
<1>5. Live \subseteq Obj /\ born \subseteq Obj
  BY LiveType DEF TypeOK
<1>6. \A p \in Obj : p # o => /\ epoch'[p] = epoch[p] /\ state'[p] = state[p]
                            /\ rec'[p] = rec[p] /\ (p \in tainted' <=> p \in tainted)
  BY DEF ConnectReset, TypeOK
<1>7. state'[o] = "CONNECTING" /\ rec'[o] = 0
  BY DEF ConnectReset, TypeOK
<1>8. EpochsHandedOut'
  BY <1>1 DEF EpochsHandedOut, ConnectReset, TypeOK, Epoch
<1>9. Unborn'
  BY <1>6 DEF Unborn, ConnectReset
<1>10. UiInv'
  BY <1>1, <1>3, <1>4, <1>7 DEF UiInv
<1>11. NobodyMissing'
  BY <1>3, <1>4, <1>5, <1>6 DEF NobodyMissing, Attending
<1>12. OwnerAgrees'
  <2>1. OwnerAgreesWith(o)'
    BY <1>3, <1>4 DEF OwnerAgreesWith, Attending, Rising, Dialing, Pumping, Leaving, Settling
  <2>2. ASSUME NEW p \in Live, p # o, p \notin tainted'
        PROVE  OwnerAgreesWith(p)'
    BY <1>3, <1>4, <1>5, <1>6, <2>2 DEF OwnerAgrees, OwnerAgreesWith, Attending
  <2>. QED
    BY <2>1, <2>2 DEF OwnerAgrees
<1>13. RecorderInv'
  BY <1>3, <1>4, <1>5, <1>6, <1>7 DEF RecorderInv, Attending, UiAt
<1>14. FreedSessionsHaveNoOwner'
  BY <1>3, <1>5 DEF FreedSessionsHaveNoOwner
<1>. QED
  BY <1>2, <1>8, <1>9, <1>10, <1>11, <1>12, <1>13, <1>14

LEMMA OpenStep ==
  ASSUME IInv, NEW o \in Obj, NEW s \in Slot, Open(o, s)
  PROVE  IInv'
<1>1. ConnectReset(o) /\ ui = Idle /\ pc' = pc /\ todo' = todo /\ born' = born \cup {o}
  BY DEF Open
<1>2. reg' = [reg EXCEPT ![s] = o] /\ reg[s] = NoSession /\ o \notin Live /\ o # NoSession
  BY SessionAssumption DEF Open, IInv, RegistryInjective
<1>3. reg' \in [Slot -> Obj \cup {NoSession}]
  BY <1>2 DEF IInv, TypeOK
<1>4. Live' = Live \cup {o}
  BY <1>2 DEF Live, IInv, TypeOK
<1>5. RegistryInjective'
  BY <1>1, <1>2, <1>4 DEF RegistryInjective, Live, IInv, TypeOK
<1>. QED
  BY <1>1, <1>3, <1>4, <1>5, ConnectResetStep

LEMMA ReconnectStep ==
  ASSUME IInv, NEW o \in Obj, Reconnect(o)
  PROVE  IInv'
<1>1. Live' = Live /\ o \in Live /\ born' = born /\ o \in born
  BY DEF Reconnect, Live, IInv, RegistryInjective
<1>2. RegistryInjective' /\ reg' \in [Slot -> Obj \cup {NoSession}]
  BY <1>1 DEF Reconnect, RegistryInjective, IInv, TypeOK
<1>. QED
  BY <1>1, <1>2, ConnectResetStep DEF Reconnect

LEMMA ConnectRecordStep ==
  ASSUME IInv, NEW o \in Obj, ConnectRecord(o)
  PROVE  IInv'
<1> USE DEF IInv
<1>1. /\ ui = [op |-> "record", obj |-> o] /\ ui' = [op |-> "spawn", obj |-> o]
      /\ \A p \in Obj : p # o => rec'[p] = rec[p]
      /\ rec'[o] \in {0, epoch[o]}
      /\ UNCHANGED <<reg, born, state, epoch, cr, pc, todo, tainted>>
  BY DEF ConnectRecord, UiAt, Goto, RecorderInv, UiInv, TypeOK
<1>2. TypeOK'
  BY <1>1 DEF TypeOK, UiOps, ConnectRecord
<1>3. Live' = Live /\ Live \subseteq Obj /\ \A p \in Obj : Owner(p)' = Owner(p)
  BY <1>1, LiveType DEF Live, Owner
<1>4. EpochsHandedOut' /\ Unborn' /\ RegistryInjective' /\ FreedSessionsHaveNoOwner'
  BY <1>1, <1>3 DEF EpochsHandedOut, Unborn, RegistryInjective, FreedSessionsHaveNoOwner, TypeOK
<1>5. UiInv'
  BY <1>1, <1>3 DEF UiInv
<1>6. NobodyMissing' /\ OwnerAgrees'
  BY <1>1, <1>3 DEF NobodyMissing, OwnerAgrees, OwnerAgreesWith, Attending, TypeOK
<1>7. RecorderInv'
  BY <1>1, <1>3 DEF RecorderInv, Attending, UiAt
<1>. QED
  BY <1>2, <1>4, <1>5, <1>6, <1>7

LEMMA ConnectSpawnStep ==
  ASSUME IInv, NEW o \in Obj, ConnectSpawn(o)
  PROVE  IInv'
<1> USE DEF IInv
<1>1. /\ ui = [op |-> "spawn", obj |-> o] /\ ui' = [op |-> "idle", obj |-> NoSession]
      /\ UNCHANGED <<reg, born, epoch, cr, todo, tainted>>
      /\ epoch[o] \in Epoch /\ o \in Live /\ Owner(o) = "none"
  BY DEF ConnectSpawn, UiAt, Idle, UiInv
<1>2. Live' = Live /\ Live \subseteq Obj /\ o # NoSession /\ born \subseteq Obj /\ Live \subseteq born
  BY <1>1, LiveType, SessionAssumption DEF Live, TypeOK, RegistryInjective
<1>3. CASE Step(o, epoch[o], "tcp") /\ UNCHANGED <<state, rec>>
  <2>1. TypeOK'
    BY <1>1, <1>3 DEF TypeOK, UiOps, Step, WorkerPC, Alive, Rising, Dialing
  <2>2. \A p \in Obj : Owner(p)' = IF p = o THEN "tcp" ELSE Owner(p)
    BY <1>1, <1>3, OwnerAfterStep
  <2>3. EpochsHandedOut' /\ Unborn' /\ RegistryInjective'
    BY <1>1, <1>2, <1>3 DEF EpochsHandedOut, Unborn, RegistryInjective, TypeOK, Step
  <2>4. UiInv'
    BY <1>1 DEF UiInv
  <2>5. NobodyMissing'
    BY <1>1, <1>2, <1>3, <2>2 DEF NobodyMissing, Attending
  <2>6. OwnerAgrees'
    BY <1>1, <1>2, <1>3, <2>2 DEF OwnerAgrees, OwnerAgreesWith, Attending, UiInv,
       Rising, Dialing, Pumping, Leaving, Settling
  <2>7. RecorderInv'
    BY <1>1, <1>2, <1>3, <2>2 DEF RecorderInv, Attending, UiAt
  <2>8. FreedSessionsHaveNoOwner'
    BY <1>1, <1>2, <2>2 DEF FreedSessionsHaveNoOwner
  <2>. QED
    BY <2>1, <2>3, <2>4, <2>5, <2>6, <2>7, <2>8
<1>4. CASE /\ state' = [state EXCEPT ![o] = "ERROR"]
           /\ rec' = [rec EXCEPT ![o] = 0]
           /\ UNCHANGED pc
  <2>1. TypeOK'
    BY <1>1, <1>4 DEF TypeOK, UiOps, States
  <2>2. \A p \in Obj : Owner(p)' = Owner(p)
    BY <1>1, <1>4 DEF Owner
  <2>3. \A p \in Obj : /\ state'[p] = IF p = o THEN "ERROR" ELSE state[p]
                       /\ rec'[p] = IF p = o THEN 0 ELSE rec[p]
    BY <1>4 DEF TypeOK
  <2>4. EpochsHandedOut' /\ Unborn' /\ RegistryInjective' /\ FreedSessionsHaveNoOwner'
    BY <1>1, <1>2, <1>4, <2>2, <2>3
    DEF EpochsHandedOut, Unborn, RegistryInjective, FreedSessionsHaveNoOwner
  <2>5. UiInv'
    BY <1>1 DEF UiInv
  <2>6. NobodyMissing' /\ OwnerAgrees'
    BY <1>1, <1>2, <2>2, <2>3 DEF NobodyMissing, OwnerAgrees, OwnerAgreesWith, Attending,
       Ended, Rising, Dialing, Pumping, Leaving, Settling
  <2>7. RecorderInv'
    BY <1>1, <1>2, <2>2, <2>3 DEF RecorderInv, Attending, UiAt
  <2>. QED
    BY <2>1, <2>4, <2>5, <2>6, <2>7
<1>. QED
  BY <1>3, <1>4 DEF ConnectSpawn

LEMMA CloseRequestStep ==
  ASSUME IInv, NEW o \in Obj, CloseRequest(o)
  PROVE  IInv'
<1> USE DEF IInv
<1>1. /\ ui = Idle /\ ui' = [op |-> "close", obj |-> o] /\ o \in Live
      /\ cr' = [cr EXCEPT ![o] = TRUE]
      /\ UNCHANGED <<reg, born, state, epoch, rec, pc, todo, tainted>>
  BY DEF CloseRequest, Goto
<1>2. TypeOK'
  BY <1>1 DEF TypeOK, UiOps
<1>3. Live' = Live /\ Live \subseteq Obj /\ \A p \in Obj : Owner(p)' = Owner(p)
  BY <1>1, LiveType DEF Live, Owner
<1>4. EpochsHandedOut' /\ Unborn' /\ RegistryInjective' /\ FreedSessionsHaveNoOwner'
  BY <1>1, <1>3 DEF EpochsHandedOut, Unborn, RegistryInjective, FreedSessionsHaveNoOwner, TypeOK
<1>5. UiInv'
  BY <1>1, <1>3 DEF UiInv, TypeOK
<1>6. NobodyMissing' /\ OwnerAgrees'
  BY <1>1, <1>3 DEF NobodyMissing, OwnerAgrees, OwnerAgreesWith, Attending, TypeOK, Idle
<1>7. RecorderInv'
  BY <1>1, <1>3 DEF RecorderInv, Attending, UiAt, Idle
<1>. QED
  BY <1>2, <1>4, <1>5, <1>6, <1>7

LEMMA CloseCheckStep ==
  ASSUME IInv, NEW o \in Obj, CloseCheck(o)
  PROVE  IInv'
<1> USE DEF IInv
<1>1. /\ ui = [op |-> "close", obj |-> o] /\ o \in Live
      /\ UNCHANGED <<reg, born, state, cr, rec, pc, todo, tainted>>
  BY DEF CloseCheck, UiAt, UiInv
<1>2. Live' = Live /\ Live \subseteq Obj /\ born \subseteq Obj /\ Live \subseteq born
  BY <1>1, LiveType DEF Live, TypeOK, RegistryInjective
<1>3. CASE ui' = Idle /\ UNCHANGED epoch
  <2>1. TypeOK' /\ \A p \in Obj : Owner(p)' = Owner(p)
    BY <1>1, <1>3 DEF TypeOK, UiOps, Owner, Idle
  <2>2. EpochsHandedOut' /\ Unborn' /\ RegistryInjective' /\ FreedSessionsHaveNoOwner'
    BY <1>1, <1>2, <1>3, <2>1
    DEF EpochsHandedOut, Unborn, RegistryInjective, FreedSessionsHaveNoOwner
  <2>3. UiInv' /\ NobodyMissing' /\ OwnerAgrees'
    BY <1>1, <1>2, <1>3, <2>1
    DEF UiInv, NobodyMissing, OwnerAgrees, OwnerAgreesWith, Attending, Idle
  <2>4. RecorderInv'
    BY <1>1, <1>2, <1>3, <2>1 DEF RecorderInv, Attending, UiAt, Idle
  <2>. QED
    BY <2>1, <2>2, <2>3, <2>4
<1>4. CASE /\ epoch' = [epoch EXCEPT ![o] = @ + 1]
           /\ ui' = [op |-> "abandon", obj |-> o]
  <2>1. TypeOK'
    BY <1>1, <1>4 DEF TypeOK, UiOps
  <2>2. \A p \in Obj : Owner(p)' = IF p = o THEN "none" ELSE Owner(p)
    BY <1>1, <1>4, OwnerAfterBump
  <2>3. epoch[o] \in Nat /\ \A p \in Obj : epoch'[p] = IF p = o THEN epoch[p] + 1 ELSE epoch[p]
    BY <1>4 DEF TypeOK
  <2>4. EpochsHandedOut' /\ Unborn' /\ RegistryInjective' /\ FreedSessionsHaveNoOwner'
    <3>1. ASSUME NEW p \in Obj, NEW e \in Epoch, e > epoch'[p]
          PROVE  pc[p][e] = "none"
      <4>1. epoch[p] \in Nat /\ e \in Int
        BY SessionAssumption DEF TypeOK, Epoch
      <4>2. e > epoch[p]
        BY ONLY <2>3, <3>1, <4>1
      <4>. QED
        BY <4>2 DEF EpochsHandedOut
    <3>2. Unborn' /\ RegistryInjective'
      BY <1>1, <1>2, <2>3 DEF Unborn, RegistryInjective
    <3>3. FreedSessionsHaveNoOwner'
      BY <1>1, <1>2, <2>2 DEF FreedSessionsHaveNoOwner
    <3>. QED
      BY <1>1, <3>1, <3>2, <3>3 DEF EpochsHandedOut
  <2>5. UiInv'
    <3>1. ui'.op = "abandon" /\ ui'.obj = o /\ o \in Live' /\ Owner(o)' = "none"
      BY <1>1, <1>2, <1>4, <2>2
    <3>. QED
      BY ONLY <3>1 DEF UiInv
  <2>6. NobodyMissing'
    BY <1>1, <1>2, <1>4, <2>2 DEF NobodyMissing, Attending
  <2>7. OwnerAgrees'
    <3>1. OwnerAgreesWith(o)'
      BY <1>4, <2>2, <1>2, <1>1 DEF OwnerAgreesWith, Attending, Rising, Dialing, Pumping, Leaving, Settling
    <3>2. ASSUME NEW p \in Live, p # o, p \notin tainted
          PROVE  OwnerAgreesWith(p)'
      BY <1>1, <1>2, <1>4, <2>2, <3>2 DEF OwnerAgrees, OwnerAgreesWith, Attending
    <3>. QED
      BY <1>1, <1>2, <3>1, <3>2 DEF OwnerAgrees
  <2>8. RecorderInv'
    BY <1>1, <1>2, <1>4, <2>2, <2>3 DEF RecorderInv, Attending, UiAt
  <2>. QED
    BY <2>1, <2>4, <2>5, <2>6, <2>7, <2>8
<1>. QED
  BY <1>3, <1>4 DEF CloseCheck, Goto

LEMMA CloseAbandonStep ==
  ASSUME IInv, NEW o \in Obj, CloseAbandon(o)
  PROVE  IInv'
<1> USE DEF IInv
<1>1. /\ ui = [op |-> "abandon", obj |-> o] /\ ui' = Idle /\ o \in Live /\ Owner(o) = "none"
      /\ UNCHANGED <<reg, born, epoch, cr, pc, todo, tainted>>
  BY DEF CloseAbandon, UiAt, UiInv
<1>2. TypeOK'
  BY <1>1 DEF CloseAbandon, TypeOK, UiOps, States, Idle
<1>3. Live' = Live /\ Live \subseteq Obj /\ born \subseteq Obj /\ Live \subseteq born
  BY <1>1, LiveType DEF Live, TypeOK, RegistryInjective
<1>4. \A p \in Obj : /\ Owner(p)' = Owner(p)
                     /\ state'[p] = IF p = o THEN "CLOSED" ELSE state[p]
                     /\ rec'[p] = IF p = o THEN 0 ELSE rec[p]
  BY <1>1 DEF CloseAbandon, TypeOK, Owner
<1>5. EpochsHandedOut' /\ Unborn' /\ RegistryInjective' /\ FreedSessionsHaveNoOwner'
  BY <1>1, <1>3, <1>4
  DEF EpochsHandedOut, Unborn, RegistryInjective, FreedSessionsHaveNoOwner
<1>6. UiInv' /\ NobodyMissing' /\ OwnerAgrees'
  BY <1>1, <1>3, <1>4 DEF UiInv, NobodyMissing, OwnerAgrees, OwnerAgreesWith, Attending,
     Idle, Ended, Rising, Dialing, Pumping, Leaving, Settling
<1>7. RecorderInv'
  BY <1>1, <1>3, <1>4 DEF RecorderInv, Attending, UiAt, Idle
<1>. QED
  BY <1>2, <1>5, <1>6, <1>7

LEMMA FreeStep ==
  ASSUME IInv, NEW s \in Slot, Free(s)
  PROVE  IInv'
<1> USE DEF IInv
<1> DEFINE o == reg[s]
<1>1. o \in Obj /\ o \in Live /\ o # NoSession
  BY DEF Free, TypeOK, Live
<1>2. /\ ui = Idle
      /\ epoch' = [epoch EXCEPT ![o] = @ + 1]
      /\ reg' = [reg EXCEPT ![s] = NoSession]
      /\ UNCHANGED <<born, state, rec, pc, ui, todo, tainted>>
  BY DEF Free
<1>3. TypeOK'
  BY <1>1, <1>2 DEF TypeOK, Free
<1>4. Live' = Live \ {o}
  BY <1>1, <1>2 DEF Live, RegistryInjective, TypeOK
<1>5. Live \subseteq Obj /\ born \subseteq Obj /\ Live \subseteq born
  BY LiveType DEF TypeOK, RegistryInjective
<1>6. \A p \in Obj : Owner(p)' = IF p = o THEN "none" ELSE Owner(p)
  BY <1>1, <1>2, OwnerAfterBump
<1>7. epoch[o] \in Nat /\ \A p \in Obj : epoch'[p] = IF p = o THEN epoch[p] + 1 ELSE epoch[p]
  BY <1>1, <1>2 DEF TypeOK
<1>8. EpochsHandedOut' /\ Unborn'
  BY <1>1, <1>2, <1>5, <1>7 DEF EpochsHandedOut, Unborn, Epoch, TypeOK
<1>9. RegistryInjective'
  BY <1>2, <1>4, <1>5 DEF RegistryInjective, TypeOK
<1>10. UiInv'
  BY <1>2 DEF UiInv, Idle
<1>11. NobodyMissing' /\ OwnerAgrees' /\ FreedSessionsHaveNoOwner'
  BY <1>1, <1>2, <1>4, <1>5, <1>6
  DEF NobodyMissing, OwnerAgrees, OwnerAgreesWith, FreedSessionsHaveNoOwner, Attending, Idle
<1>12. RecorderInv'
  BY <1>2, <1>4, <1>5, <1>6, <1>7 DEF RecorderInv, Attending, UiAt
<1>. QED
  BY <1>3, <1>8, <1>9, <1>10, <1>11, <1>12

LEMMA ShutdownBeginStep ==
  ASSUME IInv, ShutdownBegin
  PROVE  IInv'
<1> USE DEF IInv
<1>1. /\ ui = Idle /\ ui' = [op |-> "shutdown", obj |-> NoSession] /\ todo' = Live
      /\ UNCHANGED <<reg, born, state, epoch, cr, rec, pc, tainted>>
  BY DEF ShutdownBegin, Goto
<1>2. Live' = Live /\ Live \subseteq Obj /\ Live \subseteq born /\ born \subseteq Obj
      /\ \A p \in Obj : Owner(p)' = Owner(p)
  BY <1>1, LiveType DEF Live, Owner, TypeOK, RegistryInjective
<1>3. TypeOK'
  BY <1>1, <1>2 DEF TypeOK, UiOps
<1>4. EpochsHandedOut' /\ Unborn' /\ RegistryInjective' /\ FreedSessionsHaveNoOwner' /\ UiInv'
  BY <1>1, <1>2 DEF EpochsHandedOut, Unborn, RegistryInjective, FreedSessionsHaveNoOwner, UiInv
<1>5. NobodyMissing' /\ OwnerAgrees' /\ RecorderInv'
  BY <1>1, <1>2 DEF NobodyMissing, OwnerAgrees, OwnerAgreesWith, RecorderInv, Attending, UiAt, Idle
<1>. QED
  BY <1>3, <1>4, <1>5

LEMMA ShutdownSessionStep ==
  ASSUME IInv, NEW o \in Obj, ShutdownSession(o)
  PROVE  IInv'
<1> USE DEF IInv
<1>1. /\ ui = [op |-> "shutdown", obj |-> NoSession] /\ o \in todo /\ o \in born
      /\ todo' = todo \ {o}
      /\ epoch' = [epoch EXCEPT ![o] = @ + 1]
      /\ UNCHANGED <<reg, born, pc, ui, tainted>>
  BY DEF ShutdownSession, UiAt, Unborn
<1>2. Live' = Live /\ Live \subseteq Obj /\ Live \subseteq born /\ born \subseteq Obj
  BY <1>1, LiveType DEF Live, TypeOK, RegistryInjective
<1>3. TypeOK'
  BY <1>1 DEF ShutdownSession, TypeOK, States
<1>4. \A p \in Obj : Owner(p)' = IF p = o THEN "none" ELSE Owner(p)
  BY <1>1, OwnerAfterBump
<1>5. epoch[o] \in Nat
      /\ \A p \in Obj : /\ epoch'[p] = IF p = o THEN epoch[p] + 1 ELSE epoch[p]
                        /\ state'[p] = IF p = o THEN "CLOSED" ELSE state[p]
                        /\ rec'[p] = IF p = o THEN 0 ELSE rec[p]
  BY DEF ShutdownSession, TypeOK
<1>6. EpochsHandedOut' /\ Unborn' /\ RegistryInjective'
  BY <1>1, <1>2, <1>5 DEF EpochsHandedOut, Unborn, RegistryInjective, Epoch, TypeOK
<1>7. UiInv' /\ FreedSessionsHaveNoOwner'
  BY <1>1, <1>2, <1>4 DEF UiInv, FreedSessionsHaveNoOwner
<1>8. NobodyMissing'
  BY <1>1, <1>2, <1>4, <1>5 DEF NobodyMissing, Attending
<1>9. OwnerAgrees'
  <2>1. OwnerAgreesWith(o)'
    BY <1>4, <1>5 DEF OwnerAgreesWith, Ended, Rising, Dialing, Pumping, Leaving, Settling
  <2>2. ASSUME NEW p \in Live, p # o, p \notin tainted
        PROVE  OwnerAgreesWith(p)'
    BY <1>1, <1>2, <1>4, <1>5, <2>2 DEF OwnerAgrees, OwnerAgreesWith, Attending
  <2>. QED
    BY <1>1, <1>2, <2>1, <2>2 DEF OwnerAgrees
<1>10. RecorderInv'
  BY <1>1, <1>2, <1>4, <1>5 DEF RecorderInv, Attending, UiAt
<1>. QED
  BY <1>3, <1>6, <1>7, <1>8, <1>9, <1>10

LEMMA ShutdownEndStep ==
  ASSUME IInv, ShutdownEnd
  PROVE  IInv'
<1> USE DEF IInv
<1>1. /\ ui = [op |-> "shutdown", obj |-> NoSession] /\ ui' = [op |-> "down", obj |-> NoSession]
      /\ UNCHANGED <<reg, born, state, epoch, cr, rec, pc, todo, tainted>>
  BY DEF ShutdownEnd, Goto, UiAt
<1>2. Live' = Live /\ Live \subseteq Obj /\ born \subseteq Obj /\ \A p \in Obj : Owner(p)' = Owner(p)
  BY <1>1, LiveType DEF Live, Owner, TypeOK
<1>3. TypeOK'
  BY <1>1 DEF TypeOK, UiOps
<1>4. EpochsHandedOut' /\ Unborn' /\ RegistryInjective' /\ FreedSessionsHaveNoOwner' /\ UiInv'
  BY <1>1, <1>2 DEF EpochsHandedOut, Unborn, RegistryInjective, FreedSessionsHaveNoOwner, UiInv
<1>5. NobodyMissing' /\ OwnerAgrees' /\ RecorderInv'
  BY <1>1, <1>2 DEF NobodyMissing, OwnerAgrees, OwnerAgreesWith, RecorderInv, Attending, UiAt
<1>. QED
  BY <1>3, <1>4, <1>5

LEMMA StutterStep ==
  ASSUME IInv, UNCHANGED vars
  PROVE  IInv'
<1> USE DEF IInv, vars
<1>1. Live' = Live /\ \A p \in Obj : Owner(p)' = Owner(p)
  BY DEF Live, Owner
<1>2. Live \subseteq Obj /\ born \subseteq Obj
  BY LiveType DEF TypeOK
<1>3. TypeOK' /\ EpochsHandedOut' /\ Unborn' /\ RegistryInjective'
  BY <1>1 DEF TypeOK, EpochsHandedOut, Unborn, RegistryInjective
<1>4. UiInv' /\ FreedSessionsHaveNoOwner' /\ NobodyMissing'
  BY <1>1, <1>2 DEF UiInv, FreedSessionsHaveNoOwner, NobodyMissing, Attending, Idle
<1>5. OwnerAgrees' /\ RecorderInv'
  BY <1>1, <1>2 DEF OwnerAgrees, OwnerAgreesWith, RecorderInv, Attending, UiAt
<1>. QED
  BY <1>3, <1>4, <1>5

LEMMA NextIInv ==
  ASSUME IInv, [Next]_vars
  PROVE  IInv'
<1>1. CASE UiCall
  BY <1>1, OpenStep, ReconnectStep, CloseRequestStep, FreeStep, ShutdownBeginStep DEF UiCall
<1>2. CASE UiContinue
  BY <1>2, ConnectRecordStep, ConnectSpawnStep, CloseCheckStep, CloseAbandonStep,
     ShutdownSessionStep, ShutdownEndStep DEF UiContinue
<1>3. ASSUME NEW o \in Obj, NEW e \in Epoch, Worker(o, e)
      PROVE  IInv'
  BY <1>3, DialStep, CheckCancelStep, ReportConnectedStep, LoopTopStep, PumpRoundStep,
     ExitCheckStep, SettleStep, EndRecordingStep DEF Worker
<1>4. CASE UNCHANGED vars
  BY <1>4, StutterStep
<1>. QED
  BY <1>1, <1>2, <1>3, <1>4 DEF Next

-----------------------------------------------------------------------------
(* The inductive invariant holds of every behaviour.                       *)
THEOREM Inductive == Spec => []IInv
<1>1. Init => IInv
  BY InitIInv
<1>2. IInv /\ [Next]_vars => IInv'
  BY NextIInv
<1>. QED
  BY <1>1, <1>2, PTL DEF Spec

(* The atomics of a session, the registry and the workers only ever hold   *)
(* the values session.rs and ssh.rs give them.                             *)
THEOREM TypeCorrect == Spec => []TypeOK
<1>1. IInv => TypeOK
  BY DEF IInv
<1>. QED
  BY <1>1, Inductive, PTL

(* What the UI is shown is what the current connection is doing, as long   *)
(* as no replaced worker has written to the session since its last connect *)
(* (session.rs:85, ssh.rs:34).                                             *)
THEOREM ShownStateIsTrue == Spec => []StateMatchesWorker
<1>1. ASSUME IInv, NEW o \in Obj, Settled(o)
      PROVE  \/ state[o] = "CONNECTING" /\ Owner(o) \in Rising \cup Leaving \cup Settling
             \/ state[o] = "CONNECTED" /\ Owner(o) \in Pumping \cup Leaving \cup Settling
             \/ state[o] \in Ended /\ Owner(o) \in {"none", "end", "gone"}
  <2>1. OwnerAgreesWith(o) /\ ~Attending(o) /\ Owner(o) \in WorkerPC
    BY <1>1, OwnerType DEF IInv, OwnerAgrees, Settled, Attending
  <2>. QED
    BY <2>1 DEF OwnerAgreesWith, WorkerPC, Alive
<1>2. IInv => StateMatchesWorker
  BY <1>1 DEF StateMatchesWorker
<1>. QED
  BY <1>2, Inductive, PTL

(* A session never hangs in CONNECTING without a worker to resolve it,     *)
(* whatever replaced workers do (session.rs:205, ssh.rs:20).               *)
THEOREM NoOrphanedConnecting == Spec => []ConnectingIsServed
<1>1. ASSUME IInv, NEW o \in Live, state[o] = "CONNECTING"
      PROVE  Owner(o) \in Alive \/ ui.obj = o
  <2>1. o \in Obj /\ o \in born /\ Owner(o) \in WorkerPC
    BY <1>1, LiveType, OwnerType DEF IInv, RegistryInjective
  <2>. QED
    BY <1>1, <2>1 DEF IInv, NobodyMissing, Attending, WorkerPC
<1>2. IInv => ConnectingIsServed
  BY <1>1 DEF ConnectingIsServed
<1>. QED
  BY <1>2, Inductive, PTL

(* The recorder attached to a session is the current connection's, and an  *)
(* ended session keeps none (session.rs:205, record.rs:512).               *)
THEOREM RecorderIsCurrent == Spec => []RecorderOfCurrentConnection
<1>1. ASSUME IInv, NEW o \in Live
      PROVE  /\ rec[o] # 0 /\ ui.obj # o => rec[o] = epoch[o]
             /\ Settled(o) /\ state[o] \in Ended /\ Owner(o) # "end" => rec[o] = 0
  <2>1. o \in Obj /\ Owner(o) \in WorkerPC
    BY <1>1, LiveType, OwnerType DEF IInv
  <2>2. rec[o] # 0 /\ ui.obj # o => rec[o] = epoch[o]
    BY <1>1 DEF IInv, RecorderInv, UiAt
  <2>3. ASSUME Settled(o), state[o] \in Ended, Owner(o) # "end"
        PROVE  rec[o] = 0
    <3>1. Owner(o) \in {"none", "gone"}
      BY <1>1, <2>1, <2>3 DEF IInv, OwnerAgrees, OwnerAgreesWith, Settled, WorkerPC, Alive, Ended
    <3>. QED
      BY <1>1, <2>3, <3>1 DEF IInv, RecorderInv, Settled, Attending
  <2>. QED
    BY <2>2, <2>3
<1>2. IInv => RecorderOfCurrentConnection
  BY <1>1 DEF RecorderOfCurrentConnection
<1>. QED
  BY <1>2, Inductive, PTL

(* No worker owns a session that was given back with free                  *)
(* (session.rs:269).                                                       *)
THEOREM FreedIsNobodys == Spec => []FreedSessionsHaveNoOwner
<1>1. IInv => FreedSessionsHaveNoOwner
  BY DEF IInv
<1>. QED
  BY <1>1, Inductive, PTL
=============================================================================

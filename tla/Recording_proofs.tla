-------------------------- MODULE Recording_proofs --------------------------
(***************************************************************************)
(* Proofs about module Recording, for any sessions, connects, rows, pieces *)
(* and limits of the queue.                                                *)
(***************************************************************************)
EXTENDS Recording, FiniteSetTheorems, TLAPS

Shape == DOMAIN ending = Ender /\ DOMAIN rec = Obj /\ gen \in [Obj -> Nat]

(* Only a session that was connected once has a recorder.                  *)
OnlyLive == \A o \in Obj : rec[o] # NoRec => gen[o] > 0

(* The UI thread attaches recorders to such sessions only.                 *)
Visits == ui.op \in {"show", "attach"} => ui.obj \in Obj /\ gen[ui.obj] > 0
Todo   == ui.op \in {"on", "attach"} => ui.todo \subseteq Live
After  == ui.then \in {"idle", "down"}

(* The flag is what the call that goes on has set.                         *)
Switch == (ui.op \in {"on", "attach"} => enabled) /\ (ui.op = "off" => ~enabled)

(* While recording is being turned off, a recorder that is still there is  *)
(* of a session that will be visited or is being visited.                  *)
Covered(o) == o \in ui.todo \/ (ending[Ui].step = "take" /\ ending[Ui].obj = o)

Ended == ~enabled => \A o \in Obj : rec[o] # NoRec => ui.op = "off" /\ Covered(o)

IInv == Shape /\ OnlyLive /\ Visits /\ Todo /\ After /\ Switch /\ Ended

LEMMA Enders == Ui \in Ender /\ \A o \in Obj, g \in Gen : <<o, g>> # Ui /\ <<o, g>> \in Ender
  BY DEF Ender, Ui, Gen

LEMMA Initial == Init => IInv
  BY DEF Init, IInv, Shape, OnlyLive, Visits, Todo, After, Switch, Ended, Idle

Grows == gen' \in [Obj -> Nat] /\ \A o \in Obj : gen'[o] >= gen[o]

(* A step of another thread, or a capture, attaches no recorder.           *)
LEMMA NoneAttached ==
  ASSUME IInv, Grows, DOMAIN rec' = Obj, DOMAIN ending' = Ender, ui' = ui, enabled' = enabled,
         ending'[Ui] = ending[Ui], \A o \in Obj : rec'[o] # NoRec => rec[o] # NoRec
  PROVE  IInv'
<1>1. Shape' /\ OnlyLive' /\ Switch' /\ After'
  BY DEF IInv, Shape, OnlyLive, Switch, After, Grows
<1>2. Todo'
  BY DEF IInv, Shape, Todo, Live, Grows
<1>3. Ended'
  BY DEF IInv, Ended, Covered
<1>4. Visits'
  BY DEF IInv, Shape, Visits, Grows
<1>. QED
  BY <1>1, <1>2, <1>3, <1>4 DEF IInv

(* A step of the UI thread that is not about turning recording off.        *)
LEMMA Elsewhere ==
  ASSUME IInv, Grows, DOMAIN rec' = Obj, DOMAIN ending' = Ender, enabled' = enabled,
         ui.op # "off", ui'.op # "off",
         \A o \in Obj : rec'[o] # NoRec => rec[o] # NoRec \/ (enabled /\ gen[o] > 0),
         Visits', Todo', After', Switch'
  PROVE  IInv'
<1>1. Shape' /\ OnlyLive'
  BY DEF IInv, Shape, OnlyLive, Grows
<1>2. Ended'
  BY DEF IInv, Ended
<1>. QED
  BY <1>1, <1>2 DEF IInv

LEMMA ThreadStep ==
  ASSUME IInv, FlusherThread \/ (\E o \in Obj, g \in Gen : Worker(o, g))
               \/ (\E o \in Obj : Input(o))
  PROVE  IInv'
<1>1. Shape
  BY DEF IInv
<1>2. ui' = ui /\ enabled' = enabled /\ Grows
  <2>1. ui' = ui /\ enabled' = enabled /\ gen' = gen
    BY DEF FlusherThread, FlusherTake, FlusherCommit, Worker, Advance, ReportConnected, StoreEnded, Output,
           EndStep, TakeRecorder, PushWindow, CloseRow, Input, sessionVars, rest
  <2>. QED
    BY <1>1, <2>1 DEF Shape, Grows
<1>3. CASE FlusherThread
  <2>1. rec' = rec /\ ending' = ending
    BY <1>3 DEF FlusherThread, FlusherTake, FlusherCommit
  <2>. QED
    BY <1>1, <1>2, <2>1, NoneAttached DEF Shape
<1>4. ASSUME NEW o \in Obj, NEW g \in Gen, Worker(o, g)
      PROVE  IInv'
  <2>. DEFINE p == <<o, g>>
  <2>1. p # Ui /\ p \in Ender
    BY Enders
  <2>. HIDE DEF p
  <2>2. /\ DOMAIN ending' = Ender /\ ending'[Ui] = ending[Ui]
        /\ ending' = ending \/ \E v : ending' = [ending EXCEPT ![p] = v]
    <3>1. ending' = ending \/ \E v : ending' = [ending EXCEPT ![p] = v]
      BY <1>4 DEF p, Worker, Advance, ReportConnected, StoreEnded, Enter, Output, EndStep, TakeRecorder,
                  PushWindow, CloseRow, rest
    <3>. QED
      BY <1>1, <2>1, <3>1, Enders DEF Shape
  <2>3. CASE Output(o, g)
    <3>1. /\ rec' = rec \/ \E v : rec' = [rec EXCEPT ![o] = v]
          /\ rec[o] # NoRec \/ rec' = rec
      BY <2>3 DEF Output, Drop
    <3>2. DOMAIN rec' = Obj /\ \A q \in Obj : rec'[q] # NoRec => rec[q] # NoRec
      BY <1>1, <3>1 DEF Shape
    <3>. QED
      BY <1>2, <2>2, <3>2, NoneAttached
  <2>4. CASE ~Output(o, g)
    <3>1. rec' = rec \/ \E q : rec' = [rec EXCEPT ![q] = NoRec]
      BY <1>4, <2>4 DEF Worker, Advance, ReportConnected, StoreEnded, EndStep, TakeRecorder, PushWindow, CloseRow, rest
    <3>2. DOMAIN rec' = Obj /\ \A q \in Obj : rec'[q] # NoRec => rec[q] # NoRec
      BY <1>1, <3>1 DEF Shape
    <3>. QED
      BY <1>2, <2>2, <3>2, NoneAttached
  <2>. QED
    BY <2>3, <2>4
<1>5. ASSUME NEW o \in Obj, Input(o)
      PROVE  IInv'
  <2>1. ending' = ending /\ (rec' = rec \/ rec' = [rec EXCEPT ![o] = NoRec])
    BY <1>5 DEF Input, Drop
  <2>2. DOMAIN rec' = Obj /\ \A q \in Obj : rec'[q] # NoRec => rec[q] # NoRec
    BY <1>1, <2>1 DEF Shape
  <2>. QED
    BY <1>1, <1>2, <2>1, <2>2, NoneAttached DEF Shape
<1>. QED
  BY <1>3, <1>4, <1>5

(* The UI thread inside session_ended: the recorder it takes is gone.      *)
LEMMA UiEnds == ASSUME IInv, EndStep(Ui) PROVE IInv'
<1>1. Shape /\ OnlyLive /\ Visits /\ Todo /\ After /\ Switch /\ Ended
  BY DEF IInv
<1>2. ui' = ui /\ enabled' = enabled /\ gen' = gen
  BY DEF EndStep, TakeRecorder, PushWindow, CloseRow, sessionVars
<1>3. DOMAIN ending' = Ender
  <2>1. \E v : ending' = [ending EXCEPT ![Ui] = v]
    BY DEF EndStep, TakeRecorder, PushWindow, CloseRow
  <2>. QED
    BY <1>1, <2>1 DEF Shape
<1>4. /\ DOMAIN rec' = Obj
      /\ \A o \in Obj : rec'[o] # NoRec => rec[o] # NoRec /\ ~(ending[Ui].step = "take" /\ ending[Ui].obj = o)
  <2>1. CASE TakeRecorder(Ui)
    <3>1. rec' = [rec EXCEPT ![ending[Ui].obj] = NoRec]
      BY <2>1 DEF TakeRecorder
    <3>. QED
      BY <1>1, <3>1 DEF Shape
  <2>2. CASE PushWindow(Ui) \/ CloseRow(Ui)
    <3>1. rec' = rec /\ ending[Ui].step # "take"
      BY <2>2 DEF PushWindow, CloseRow
    <3>. QED
      BY <1>1, <3>1 DEF Shape
  <2>. QED
    BY <2>1, <2>2 DEF EndStep
<1>5. Ended'
  BY <1>1, <1>2, <1>4 DEF Ended, Covered
<1>6. Shape' /\ OnlyLive' /\ Visits' /\ After' /\ Switch'
  BY <1>1, <1>2, <1>3, <1>4 DEF Shape, OnlyLive, Visits, After, Switch
<1>7. Todo'
  BY <1>1, <1>2 DEF Todo, Live
<1>. QED
  BY <1>5, <1>6, <1>7 DEF IInv

LEMMA OneMore == ASSUME Shape, NEW o \in Obj, gen' = [gen EXCEPT ![o] = @ + 1]
                 PROVE  Grows /\ gen'[o] > 0
  BY DEF Shape, Grows

LEMMA Entered == ASSUME Shape, NEW o, Enter(Ui, o)
                 PROVE  DOMAIN ending' = Ender /\ ending'[Ui].step = "take" /\ ending'[Ui].obj = o
<1>1. ending' = [ending EXCEPT ![Ui] = [step |-> "take", obj |-> o, rec |-> NoRec]] /\ DOMAIN ending = Ender
  BY DEF Enter, Shape
<1>. QED
  BY <1>1, Enders

(* A session_started attaches a recorder while recording is on.            *)
LEMMA Attached == ASSUME Shape, NEW o \in Obj, gen[o] > 0, Started(o)
                  PROVE  /\ DOMAIN rec' = Obj
                         /\ \A q \in Obj : rec'[q] # NoRec => rec[q] # NoRec \/ (enabled /\ gen[q] > 0)
<1>1. rec' = rec \/ (enabled /\ \E v : rec' = [rec EXCEPT ![o] = v])
  BY DEF Started
<1>. QED
  BY <1>1 DEF Shape

LEMMA ConnectSteps ==
  ASSUME IInv, NEW o \in Obj,
         Connect(o) \/ ConnectStart(o) \/ ConnectSpawn(o) \/ Abandon(o) \/ ShutdownVisit(o)
  PROVE  IInv'
<1>1. Shape /\ OnlyLive /\ Visits /\ Todo /\ After /\ Switch /\ Ended
  BY DEF IInv
<1>2. CASE Connect(o)
  <2>1. /\ Grows /\ gen'[o] > 0 /\ DOMAIN ending' = Ender
        /\ rec' = rec /\ enabled' = enabled /\ ui.op = "idle"
    BY <1>1, <1>2, OneMore, Entered DEF Connect, Idle
  <2>2. ui'.op = "show" /\ ui'.obj = o /\ ui'.then = "idle"
    BY <1>2 DEF Connect, Calls
  <2>3. Visits' /\ Todo' /\ After' /\ Switch'
    BY <2>1, <2>2 DEF Visits, Todo, After, Switch
  <2>. QED
    BY <1>1, <2>1, <2>2, <2>3, Elsewhere DEF Shape
<1>3. CASE ConnectStart(o)
  <2>1. /\ ending' = ending /\ gen' = gen /\ enabled' = enabled /\ ui.op = "show" /\ ui.obj = o /\ Started(o)
        /\ ui'.op = "spawn" /\ ui'.then = "idle"
    BY <1>3 DEF ConnectStart, At, Calls
  <2>2. gen[o] > 0 /\ Grows
    BY <1>1, <2>1 DEF Visits, Shape, Grows
  <2>3. Visits' /\ Todo' /\ After' /\ Switch'
    BY <2>1 DEF Visits, Todo, After, Switch
  <2>4. /\ DOMAIN rec' = Obj
        /\ \A q \in Obj : rec'[q] # NoRec => rec[q] # NoRec \/ (enabled /\ gen[q] > 0)
    BY <1>1, <2>1, <2>2, Attached
  <2>. QED
    BY <1>1, <2>1, <2>2, <2>3, <2>4, Elsewhere DEF Shape
<1>4. CASE ConnectSpawn(o)
  <2>1. /\ gen' = gen /\ rec' = rec /\ enabled' = enabled /\ ui.op = "spawn"
        /\ ui'.op = "return" /\ ui'.then = "idle" /\ (ending' = ending \/ Enter(Ui, o))
    BY <1>4 DEF ConnectSpawn, At, Calls
  <2>2. Grows /\ DOMAIN ending' = Ender
    BY <1>1, <2>1, Entered DEF Shape, Grows
  <2>3. Visits' /\ Todo' /\ After' /\ Switch'
    BY <2>1 DEF Visits, Todo, After, Switch
  <2>. QED
    BY <1>1, <2>1, <2>2, <2>3, Elsewhere DEF Shape
<1>5. CASE Abandon(o) \/ ShutdownVisit(o)
  <2>1. /\ Enter(Ui, o) /\ gen' = [gen EXCEPT ![o] = @ + 1] /\ rec' = rec /\ enabled' = enabled
        /\ ui.op # "off" /\ ui'.op \in {"return", "shutdown"} /\ ui'.then \in {"idle", "down"}
    BY <1>5 DEF Abandon, ShutdownVisit, Calls, At, Idle
  <2>2. Grows /\ DOMAIN ending' = Ender
    BY <1>1, <2>1, OneMore, Entered
  <2>3. Visits' /\ Todo' /\ After' /\ Switch'
    BY <2>1 DEF Visits, Todo, After, Switch
  <2>. QED
    BY <1>1, <2>1, <2>2, <2>3, Elsewhere DEF Shape
<1>. QED
  BY <1>2, <1>3, <1>4, <1>5

LEMMA EnableSteps ==
  ASSUME IInv, NEW o \in Obj, EnableCheck(o) \/ EnableAttach(o)
  PROVE  IInv'
<1>1. Shape /\ OnlyLive /\ Visits /\ Todo /\ After /\ Switch /\ Ended
  BY DEF IInv
<1>2. gen' = gen /\ ending' = ending /\ enabled' = enabled /\ Grows /\ Live' = Live
  BY <1>1 DEF EnableCheck, EnableAttach, sessionVars, Grows, Shape, Live
<1>3. CASE EnableCheck(o)
  <2>1. /\ rec' = rec /\ ui.op = "on" /\ o \in ui.todo /\ ui'.todo = ui.todo \ {o} /\ ui'.then = "idle"
        /\ (ui'.op = "attach" /\ ui'.obj = o) \/ ui'.op = "on"
    BY <1>3 DEF EnableCheck, At, Calls, sessionVars
  <2>2. gen[o] > 0 /\ enabled /\ ui.todo \subseteq Live
    BY <1>1, <2>1 DEF Todo, Switch, Live
  <2>3. Visits' /\ Todo' /\ After' /\ Switch'
    BY <1>2, <2>1, <2>2 DEF Visits, Todo, After, Switch
  <2>. QED
    BY <1>1, <1>2, <2>1, <2>3, Elsewhere DEF Shape
<1>4. CASE EnableAttach(o)
  <2>1. /\ Started(o) /\ ui.op = "attach" /\ ui.obj = o /\ ui'.todo = ui.todo /\ ui'.op = "on" /\ ui'.then = "idle"
    BY <1>4 DEF EnableAttach, At, Calls
  <2>2. gen[o] > 0 /\ enabled /\ ui.todo \subseteq Live
    BY <1>1, <2>1 DEF Visits, Todo, Switch
  <2>3. Visits' /\ Todo' /\ After' /\ Switch'
    BY <1>2, <2>1, <2>2 DEF Visits, Todo, After, Switch
  <2>4. /\ DOMAIN rec' = Obj
        /\ \A q \in Obj : rec'[q] # NoRec => rec[q] # NoRec \/ (enabled /\ gen[q] > 0)
    BY <1>1, <2>1, <2>2, Attached
  <2>. QED
    BY <1>1, <1>2, <2>1, <2>3, <2>4, Elsewhere DEF Shape
<1>. QED
  BY <1>3, <1>4

(* Turning off and on: first the flag, then every session that is live.    *)
LEMMA SetEnabledStep == ASSUME IInv, NEW on \in BOOLEAN, SetEnabled(on) PROVE IInv'
<1>1. Shape /\ OnlyLive
  BY DEF IInv
<1>2. /\ enabled' = on /\ gen' = gen /\ rec' = rec /\ ending' = ending
      /\ ui'.op = (IF on THEN "on" ELSE "off") /\ ui'.todo = Live /\ ui'.then = "idle"
  BY DEF SetEnabled, Calls, sessionVars
<1>3. Shape' /\ OnlyLive' /\ Live' = Live
  BY <1>1, <1>2 DEF Shape, OnlyLive, Live
<1>4. Visits' /\ Todo' /\ After' /\ Switch'
  BY <1>2, <1>3 DEF Visits, Todo, After, Switch
<1>5. Ended'
  BY <1>1, <1>2 DEF Ended, Covered, OnlyLive, Live
<1>. QED
  BY <1>3, <1>4, <1>5 DEF IInv

LEMMA DisableVisitStep == ASSUME IInv, NEW o \in Obj, DisableVisit(o) PROVE IInv'
<1>1. Shape /\ OnlyLive /\ Switch /\ Ended
  BY DEF IInv
<1>2. /\ gen' = gen /\ rec' = rec /\ enabled' = enabled /\ Enter(Ui, o)
      /\ ui.op = "off" /\ ending[Ui].step = "none" /\ ui'.op = "off" /\ ui'.todo = ui.todo \ {o} /\ ui'.then = "idle"
  BY DEF DisableVisit, Calls, sessionVars, At, Free
<1>3. DOMAIN ending' = Ender /\ ending'[Ui].step = "take" /\ ending'[Ui].obj = o
  BY <1>1, <1>2, Entered
<1>4. Shape' /\ OnlyLive' /\ Visits' /\ Todo' /\ After' /\ Switch'
  BY <1>1, <1>2, <1>3 DEF Shape, OnlyLive, Visits, Todo, After, Switch
<1>5. Ended'
  BY <1>1, <1>2, <1>3 DEF Ended, Covered
<1>. QED
  BY <1>4, <1>5 DEF IInv

(* The last session was visited, and session_ended has returned.           *)
LEMMA VisitedSteps == ASSUME IInv, Shutdown \/ Visited \/ UiFlush \/ UiCommit PROVE IInv'
<1>1. Shape /\ OnlyLive /\ Visits /\ Todo /\ After /\ Switch /\ Ended
  BY DEF IInv
<1>2. /\ gen' = gen /\ rec' = rec /\ enabled' = enabled /\ ending' = ending
      /\ ui'.op \in {"shutdown", "flush", "commit", "idle", "down"} /\ ui'.then \in {"idle", "down"}
  BY <1>1 DEF Shutdown, Visited, UiFlush, UiCommit, Calls, Idle, sessionVars, After
<1>3. Shape' /\ OnlyLive' /\ Visits' /\ Todo' /\ After' /\ Switch'
  BY <1>1, <1>2 DEF Shape, OnlyLive, Visits, Todo, After, Switch
<1>4. ~enabled => \A o \in Obj : rec[o] = NoRec
  <2>1. CASE ui.op = "off"
    <3>1. ui.todo = {} /\ ending[Ui].step = "none"
      BY <2>1 DEF Shutdown, Visited, UiFlush, UiCommit, At, Free, Idle
    <3>. QED
      BY <1>1, <3>1 DEF Ended, Covered
  <2>2. CASE ui.op # "off"
    BY <1>1, <2>2 DEF Ended
  <2>. QED
    BY <2>1, <2>2
<1>5. Ended'
  BY <1>2, <1>4 DEF Ended
<1>. QED
  BY <1>3, <1>5 DEF IInv

LEMMA Inductive == ASSUME IInv, [Next]_vars PROVE IInv'
<1>1. CASE FlusherThread \/ (\E o \in Obj, g \in Gen : Worker(o, g)) \/ (\E o \in Obj : Input(o))
  BY <1>1, ThreadStep
<1>2. CASE EndStep(Ui)
  BY <1>2, UiEnds
<1>3. ASSUME NEW o \in Obj,
             \/ Connect(o) \/ ConnectStart(o) \/ ConnectSpawn(o) \/ Abandon(o) \/ ShutdownVisit(o)
             \/ EnableCheck(o) \/ EnableAttach(o) \/ DisableVisit(o)
      PROVE  IInv'
  BY <1>3, ConnectSteps, EnableSteps, DisableVisitStep
<1>4. ASSUME NEW on \in BOOLEAN, SetEnabled(on) PROVE IInv'
  BY <1>4, SetEnabledStep
<1>5. CASE Shutdown \/ Visited \/ UiFlush \/ UiCommit
  BY <1>5, VisitedSteps
<1>6. CASE UNCHANGED vars
  BY <1>6 DEF vars, IInv, Shape, OnlyLive, Visits, Todo, After, Switch, Ended, Covered, Live
<1>. QED
  BY <1>1, <1>2, <1>3, <1>4, <1>5, <1>6 DEF Next, UiCall, UiContinue

(* Once recording was turned off no session is recorded, whatever state    *)
(* it was in and whoever else was ending it (docs/REPAIR_REPORT.md:38).    *)
THEOREM OffIsOff == Spec => []OffMeansOff
<1>1. IInv => OffMeansOff
  BY DEF IInv, Ended, OffMeansOff
<1>. QED
  BY <1>1, Initial, Inductive, PTL DEF Spec

-----------------------------------------------------------------------------
(* What is recorded: rows and their keepers, the queue and what it holds.  *)

RecType  == [row : Nat, lines : Seq(Nat), part : Seq(Nat)]
ItemType == [kind : {"chunk", "command", "text"}, row : Nat, ns : Seq(Nat)]
EndType  == [step : {"none", "take", "push", "row"}, obj : Obj \cup {NoObj}, rec : RecType \cup {NoRec}]
Places   == {"none", "dial", "rise", "run", "store", "gone"}

Typed ==
  /\ gen \in [Obj -> Nat]
  /\ worker \in [Obj -> [Gen -> Places]]
  /\ rec \in [Obj -> RecType \cup {NoRec}]
  /\ rows \in Seq([obj : Obj, closed : BOOLEAN])
  /\ ending \in [Ender -> EndType]
  /\ queue \in Seq(ItemType) /\ db \in Seq(ItemType) /\ batch \in [Flusher -> Seq(ItemType)]
  /\ qbytes \in Nat /\ pieces \in Nat /\ texts \subseteq 1 .. pieces

(* Who is inside session_ended: it has taken a recorder between "take" and *)
(* its end, and a worker gets there once, when it is gone.                 *)
Inside ==
  /\ \A p \in Ender : /\ ending[p].rec = NoRec <=> ending[p].step \in {"none", "take"}
                      /\ ending[p].step # "none" => ending[p].obj \in Obj
  /\ \A o \in Obj, g \in Gen : worker[o][g] # "gone" => ending[<<o, g>>].step = "none"
  /\ \A o \in Obj, g \in Gen : g > gen[o] => worker[o][g] = "none"
  /\ ui.op \notin {"show", "return", "off", "shutdown"} => ending[Ui].step = "none"

(* The session a recorder is about to be attached to has none.             *)
Vacant ==
  /\ ui.op \in {"show", "spawn"} => gen[ui.obj] \in Gen /\ worker[ui.obj][gen[ui.obj]] = "none"
  /\ ui.op = "show" => ui.obj \in Obj /\ (rec[ui.obj] = NoRec \/ (ending[Ui].step = "take" /\ ending[Ui].obj = ui.obj))
  /\ ui.op = "spawn" => ui.obj \in Obj
  /\ ui.op = "attach" => ui.obj \in Obj /\ rec[ui.obj] = NoRec

Open(r) == r \in DOMAIN rows /\ ~rows[r].closed /\ r \notin adrift

Attaches(o, r) == rec[o] # NoRec /\ rec[o].row = r
Finishes(p, r) == ending[p].rec # NoRec /\ ending[p].rec.row = r

(* A row that is kept is open and of its keeper's session, nobody else     *)
(* keeps it, and an open row is kept.                                      *)
Kept ==
  /\ adrift \subseteq DOMAIN rows
  /\ \A o \in Obj : rec[o] # NoRec => Open(rec[o].row) /\ rows[rec[o].row].obj = o
  /\ \A p \in Ender : ending[p].rec # NoRec =>
       /\ Open(ending[p].rec.row) /\ rows[ending[p].rec.row].obj = ending[p].obj
       /\ \A o \in Obj : ~Attaches(o, ending[p].rec.row)
       /\ \A q \in Ender : Finishes(q, ending[p].rec.row) => q = p
  /\ \A r \in DOMAIN rows : Open(r) => (\E o \in Obj : Attaches(o, r)) \/ \E p \in Ender : Finishes(p, r)

IsChunk(it) == it.kind = "chunk"
InOrder(s) == \A i, j \in DOMAIN s : i < j /\ IsChunk(s[i]) /\ IsChunk(s[j]) => s[i].ns[1] < s[j].ns[1]
Before(s, t) == \A i \in DOMAIN s, j \in DOMAIN t : IsChunk(s[i]) /\ IsChunk(t[j]) => s[i].ns[1] < t[j].ns[1]
Captured(s) == \A i \in DOMAIN s : IsChunk(s[i]) => s[i].ns[1] \in 1 .. pieces

(* What is committed was captured before what is being committed, and that *)
(* before what is queued; one thread commits at a time.                    *)
Ordered ==
  /\ InOrder(db) /\ InOrder(queue) /\ \A f \in Flusher : InOrder(batch[f])
  /\ Before(db, queue) /\ \A f \in Flusher : Before(db, batch[f]) /\ Before(batch[f], queue)
  /\ \A f, h \in Flusher : f # h => batch[f] = <<>> \/ batch[h] = <<>>
  /\ Captured(db) /\ Captured(queue) /\ \A f \in Flusher : Captured(batch[f])

(* Every mark that is somewhere, or was given up.                          *)
Everywhere == HeldText \cup HeldByEnders \cup UnderWay \cup Marks(db) \cup lost

Books == Typed /\ Inside /\ Vacant /\ Kept /\ Ordered /\ QueueAccounted /\ NothingVanishes


-----------------------------------------------------------------------------
(* The queue: what a push adds to it.                                      *)

Contents(i, b, l) == [items |-> i, bytes |-> b, lost |-> l]

Accounted(i, b) ==
  \E total \in [0 .. Len(i) -> 0 .. QueueCap] :
    /\ total[0] = 0
    /\ \A k \in 1 .. Len(i) : total[k] = total[k - 1] + Size(i[k])
    /\ b = total[Len(i)]

(* The longer queue has at most one more chunk, n, right after the old end. *)
Follows(i, i2, n) ==
  /\ Len(i2) >= Len(i)
  /\ \A k \in 1 .. Len(i) : i2[k] = i[k]
  /\ \A k \in Len(i) + 1 .. Len(i2) : IsChunk(i2[k]) => k = Len(i) + 1 /\ i2[k].ns[1] = n

Trails(i, i2) ==
  /\ Len(i2) >= Len(i)
  /\ \A k \in 1 .. Len(i) : i2[k] = i[k]
  /\ \A k \in Len(i) + 1 .. Len(i2) : ~IsChunk(i2[k])

(* Nothing is lost without a mark, and the bytes are still accounted for.  *)
Filled(i, b, l, i2, b2, l2, new) ==
  /\ i2 \in Seq(ItemType) /\ b2 \in Nat
  /\ Marks(i) \subseteq Marks(i2) /\ l \subseteq l2
  /\ new \subseteq Marks(i2) \cup l2
  /\ Accounted(i, b) => Accounted(i2, b2)

Texts(window) == {<<"text", window[j]>> : j \in DOMAIN window}

LEMMA MarksOf ==
  ASSUME NEW s, NEW m
  PROVE  m \in Marks(s) <=> \E i \in DOMAIN s : \E j \in DOMAIN s[i].ns : m = <<s[i].kind, s[i].ns[j]>>
  BY DEF Marks

LEMMA MarksWithin ==
  ASSUME NEW s, NEW t, \A i \in DOMAIN s : \E k \in DOMAIN t : t[k] = s[i]
  PROVE  Marks(s) \subseteq Marks(t)
<1>. SUFFICES ASSUME NEW m \in Marks(s) PROVE m \in Marks(t)
  OBVIOUS
<1>1. PICK i \in DOMAIN s : \E j \in DOMAIN s[i].ns : m = <<s[i].kind, s[i].ns[j]>>
  BY MarksOf
<1>2. PICK k \in DOMAIN t : t[k] = s[i]
  OBVIOUS
<1>. QED
  BY <1>1, <1>2, MarksOf

LEMMA MarksAppend ==
  ASSUME NEW s \in Seq(ItemType), NEW it \in ItemType
  PROVE  Marks(s) \subseteq Marks(Append(s, it)) /\ Marks(<<it>>) \subseteq Marks(Append(s, it))
<1>1. /\ \A i \in DOMAIN s : i \in DOMAIN Append(s, it) /\ Append(s, it)[i] = s[i]
      /\ Len(s) + 1 \in DOMAIN Append(s, it) /\ Append(s, it)[Len(s) + 1] = it
  OBVIOUS
<1>2. \A i \in DOMAIN <<it>> : <<it>>[i] = it
  OBVIOUS
<1>. QED
  BY <1>1, <1>2, MarksWithin

LEMMA MarksConcat ==
  ASSUME NEW s \in Seq(ItemType), NEW t \in Seq(ItemType)
  PROVE  Marks(s \o t) = Marks(s) \cup Marks(t)
<1>1. /\ Len(s) \in Nat /\ Len(t) \in Nat /\ DOMAIN (s \o t) = 1 .. Len(s) + Len(t)
      /\ DOMAIN s = 1 .. Len(s) /\ DOMAIN t = 1 .. Len(t)
      /\ \A i \in 1 .. Len(s) : (s \o t)[i] = s[i]
      /\ \A i \in 1 .. Len(t) : (s \o t)[Len(s) + i] = t[i]
  OBVIOUS
<1>2. /\ \A i \in DOMAIN s : \E k \in DOMAIN (s \o t) : (s \o t)[k] = s[i]
      /\ \A i \in DOMAIN t : \E k \in DOMAIN (s \o t) : (s \o t)[k] = t[i]
  <2>1. \A i \in DOMAIN s : i \in DOMAIN (s \o t)
    BY <1>1
  <2>2. \A i \in DOMAIN t : Len(s) + i \in DOMAIN (s \o t)
    BY <1>1
  <2>. QED
    BY <1>1, <2>1, <2>2
<1>3. Marks(s) \subseteq Marks(s \o t) /\ Marks(t) \subseteq Marks(s \o t)
  BY <1>2, MarksWithin
<1>4. ASSUME NEW m \in Marks(s \o t) PROVE m \in Marks(s) \cup Marks(t)
  <2>1. PICK i \in DOMAIN (s \o t) : \E j \in DOMAIN (s \o t)[i].ns : m = <<(s \o t)[i].kind, (s \o t)[i].ns[j]>>
    BY <1>4, MarksOf
  <2>2. CASE i \in 1 .. Len(s)
    BY <1>1, <2>1, <2>2, MarksOf
  <2>3. CASE i \notin 1 .. Len(s)
    <3>1. i - Len(s) \in DOMAIN t /\ (s \o t)[i] = t[i - Len(s)]
      BY <1>1, <2>3
    <3>. QED
      BY <2>1, <3>1, MarksOf
  <2>. QED
    BY <2>2, <2>3
<1>. QED
  BY <1>3, <1>4

(* One item more has one running total more.                               *)
LEMMA AccountedAppend ==
  ASSUME NEW i \in Seq(ItemType), NEW b \in Nat, NEW it \in ItemType,
         Accounted(i, b), b + Size(it) <= QueueCap
  PROVE  Accounted(Append(i, it), b + Size(it))
<1>1. PICK total \in [0 .. Len(i) -> 0 .. QueueCap] :
        /\ total[0] = 0
        /\ \A k \in 1 .. Len(i) : total[k] = total[k - 1] + Size(i[k])
        /\ b = total[Len(i)]
  BY DEF Accounted
<1>. DEFINE more == [k \in 0 .. Len(i) + 1 |-> IF k = Len(i) + 1 THEN b + Size(it) ELSE total[k]]
<1>2. Len(i) \in Nat /\ Len(Append(i, it)) = Len(i) + 1 /\ Size(it) \in Nat
  BY DEF Size, ItemType
<1>3. b + Size(it) \in 0 .. QueueCap
  BY <1>2
<1>4. more \in [0 .. Len(i) + 1 -> 0 .. QueueCap]
  BY <1>2, <1>3
<1>5. more[0] = 0 /\ more[Len(i) + 1] = b + Size(it)
  BY <1>1, <1>2
<1>6. ASSUME NEW k \in 1 .. Len(i) + 1 PROVE more[k] = more[k - 1] + Size(Append(i, it)[k])
  <2>1. CASE k = Len(i) + 1
    <3>1. Append(i, it)[k] = it /\ more[k - 1] = b
      BY <1>1, <1>2, <2>1
    <3>. QED
      BY <1>5, <2>1, <3>1
  <2>2. CASE k # Len(i) + 1
    <3>1. k \in 1 .. Len(i)
      BY <1>2, <2>2
    <3>2. Append(i, it)[k] = i[k] /\ more[k - 1] = total[k - 1] /\ more[k] = total[k]
      BY <1>2, <3>1
    <3>. QED
      BY <1>1, <3>1, <3>2
  <2>. QED
    BY <2>1, <2>2
<1>. HIDE DEF more
<1>. QED
  BY <1>2, <1>4, <1>5, <1>6 DEF Accounted

LEMMA Pushing ==
  ASSUME NEW i \in Seq(ItemType), NEW b \in Nat, NEW l, NEW it \in ItemType
  PROVE  \E i2, b2, l2 :
           /\ i2 \in Seq(ItemType) /\ b2 \in Nat
           /\ Push(Contents(i, b, l), it) = Contents(i2, b2, l2)
           /\ Filled(i, b, l, i2, b2, l2, Marks(<<it>>))
           /\ i2 = i \/ i2 = Append(i, it)
<1>1. Size(it) \in Nat
  BY DEF Size, ItemType
<1>2. CASE b + Size(it) > QueueCap
  <2>1. Push(Contents(i, b, l), it) = Contents(i, b, l \cup Marks(<<it>>))
    BY <1>2 DEF Push, Contents
  <2>2. Filled(i, b, l, i, b, l \cup Marks(<<it>>), Marks(<<it>>))
    BY DEF Filled
  <2>. QED
    BY <2>1, <2>2
<1>3. CASE ~(b + Size(it) > QueueCap)
  <2>1. Push(Contents(i, b, l), it) = Contents(Append(i, it), b + Size(it), l)
    BY <1>3 DEF Push, Contents
  <2>2. b + Size(it) <= QueueCap /\ b + Size(it) \in Nat /\ Append(i, it) \in Seq(ItemType)
    BY <1>1, <1>3, RecordingAssumption DEF RecordingAssumption
  <2>3. Filled(i, b, l, Append(i, it), b + Size(it), l, Marks(<<it>>))
    BY <2>2, MarksAppend, AccountedAppend DEF Filled
  <2>. QED
    BY <2>1, <2>2, <2>3
<1>. QED
  BY <1>2, <1>3

LEMMA FollowsAppend ==
  ASSUME NEW i \in Seq(ItemType), NEW it \in ItemType, NEW n, NEW i2, i2 = i \/ i2 = Append(i, it)
  PROVE  /\ IsChunk(it) /\ it.ns[1] = n => Follows(i, i2, n)
         /\ ~IsChunk(it) => Trails(i, i2)
<1>1. CASE i2 = i
  BY <1>1 DEF Follows, Trails
<1>2. CASE i2 = Append(i, it)
  <2>1. Len(i) \in Nat /\ Len(i2) = Len(i) + 1 /\ i2[Len(i) + 1] = it /\ \A k \in 1 .. Len(i) : i2[k] = i[k]
    BY <1>2
  <2>. QED
    BY <2>1 DEF Follows, Trails
<1>. QED
  BY <1>1, <1>2

LEMMA FollowsTrails ==
  ASSUME NEW i \in Seq(ItemType), NEW i1 \in Seq(ItemType), NEW i2 \in Seq(ItemType), NEW n,
         Follows(i, i1, n), Trails(i1, i2)
  PROVE  Follows(i, i2, n)
<1>1. Len(i) \in Nat /\ Len(i1) \in Nat /\ Len(i2) \in Nat
  OBVIOUS
<1>. QED
  BY <1>1 DEF Follows, Trails

LEMMA FilledTwice ==
  ASSUME NEW i, NEW b, NEW l, NEW i1, NEW b1, NEW l1, NEW i2, NEW b2, NEW l2, NEW m1, NEW m2,
         Filled(i, b, l, i1, b1, l1, m1), Filled(i1, b1, l1, i2, b2, l2, m2)
  PROVE  Filled(i, b, l, i2, b2, l2, m1 \cup m2)
  BY DEF Filled

(* The window of a transcript goes behind what is queued already.          *)
LEMMA PushingText ==
  ASSUME NEW i \in Seq(ItemType), NEW b \in Nat, NEW l, NEW row \in Nat, NEW window \in Seq(Nat)
  PROVE  \E i2, b2, l2 :
           /\ PushText(Contents(i, b, l), row, window) = Contents(i2, b2, l2)
           /\ Filled(i, b, l, i2, b2, l2, Texts(window))
           /\ Trails(i, i2)
<1>1. CASE window = <<>>
  <2>1. PushText(Contents(i, b, l), row, window) = Contents(i, b, l) /\ Texts(window) = {}
    BY <1>1 DEF PushText, Texts
  <2>2. Trails(i, i)
    BY DEF Trails
  <2>. QED
    BY <2>1, <2>2 DEF Filled
<1>2. CASE window # <<>>
  <2>. DEFINE it == Item("text", row, window)
  <2>1. it \in ItemType /\ ~IsChunk(it) /\ PushText(Contents(i, b, l), row, window) = Push(Contents(i, b, l), it)
    BY <1>2 DEF PushText, Item, ItemType, IsChunk
  <2>2. Texts(window) \subseteq Marks(<<it>>)
    <3>1. DOMAIN <<it>> = {1} /\ <<it>>[1] = it /\ it.kind = "text" /\ it.ns = window
      BY DEF Item
    <3>. QED
      BY <3>1, MarksOf DEF Texts
  <2>. HIDE DEF it
  <2>3. PICK i2, b2, l2 :
          /\ i2 \in Seq(ItemType) /\ b2 \in Nat
          /\ Push(Contents(i, b, l), it) = Contents(i2, b2, l2)
          /\ Filled(i, b, l, i2, b2, l2, Marks(<<it>>))
          /\ i2 = i \/ i2 = Append(i, it)
    BY <2>1, Pushing
  <2>4. Trails(i, i2)
    BY <2>1, <2>3, FollowsAppend
  <2>5. Filled(i, b, l, i2, b2, l2, Texts(window))
    BY <2>2, <2>3 DEF Filled
  <2>. QED
    BY <2>1, <2>3, <2>4, <2>5
<1>. QED
  BY <1>1, <1>2

LEMMA PushingChunk ==
  ASSUME NEW i \in Seq(ItemType), NEW b \in Nat, NEW l, NEW row \in Nat, NEW n \in Nat
  PROVE  \E i2, b2, l2 :
           /\ Push(Contents(i, b, l), Item("chunk", row, <<n>>)) = Contents(i2, b2, l2)
           /\ Filled(i, b, l, i2, b2, l2, {<<"chunk", n>>})
           /\ Follows(i, i2, n)
<1>. DEFINE it == Item("chunk", row, <<n>>)
<1>1. it \in ItemType /\ IsChunk(it) /\ it.ns[1] = n
  BY DEF Item, ItemType, IsChunk
<1>2. {<<"chunk", n>>} \subseteq Marks(<<it>>)
  <2>1. DOMAIN <<it>> = {1} /\ <<it>>[1] = it /\ it.kind = "chunk" /\ it.ns = <<n>> /\ 1 \in DOMAIN it.ns /\ it.ns[1] = n
    BY DEF Item
  <2>. QED
    BY <2>1, MarksOf
<1>. HIDE DEF it
<1>3. PICK i2, b2, l2 :
        /\ i2 \in Seq(ItemType) /\ b2 \in Nat
        /\ Push(Contents(i, b, l), it) = Contents(i2, b2, l2)
        /\ Filled(i, b, l, i2, b2, l2, Marks(<<it>>))
        /\ i2 = i \/ i2 = Append(i, it)
  BY <1>1, Pushing
<1>4. Follows(i, i2, n)
  BY <1>1, <1>3, FollowsAppend
<1>5. Filled(i, b, l, i2, b2, l2, {<<"chunk", n>>})
  BY <1>2, <1>3 DEF Filled
<1>. QED
  BY <1>3, <1>4, <1>5 DEF it

(* A step puts new marks into the queue, and chunk n if any.               *)
Fills(new, n) == Filled(queue, qbytes, lost, queue', qbytes', lost', new) /\ Follows(queue, queue', n)

LEMMA InputFills ==
  ASSUME Typed, NEW o \in Obj, Input(o), ~Drop(o)
  PROVE  /\ Fills({<<"chunk", pieces + 1>>}, pieces + 1) /\ pieces' = pieces + 1
         /\ UNCHANGED <<sessionVars, rec, rows, ending, ui, enabled, storeVars, texts, adrift>>
         /\ ui = Idle
<1>. DEFINE n == pieces + 1
            row == rec[o].row
            chunked == Push(Queue, Item("chunk", row, <<n>>))
<1>1. /\ rec[o] # NoRec /\ pieces' = n
      /\ Queued(chunked) \/ Queued(Push(chunked, Item("command", row, <<n>>)))
  BY DEF Input
<1>2. row \in Nat /\ n \in Nat /\ queue \in Seq(ItemType) /\ qbytes \in Nat
  BY <1>1 DEF Typed, RecType
<1>3. UNCHANGED <<sessionVars, rec, rows, ending, ui, enabled, storeVars, texts, adrift>> /\ ui = Idle
  BY DEF Input
<1>4. Queue = Contents(queue, qbytes, lost)
  BY DEF Queue, Contents
<1>. HIDE DEF n, row
<1>5. PICK i1, b1, l1 : /\ chunked = Contents(i1, b1, l1)
                        /\ Filled(queue, qbytes, lost, i1, b1, l1, {<<"chunk", n>>})
                        /\ Follows(queue, i1, n)
  BY <1>2, <1>4, PushingChunk
<1>. HIDE DEF chunked
<1>6. CASE Queued(chunked)
  <2>1. queue' = i1 /\ qbytes' = b1 /\ lost' = l1
    BY <1>5, <1>6 DEF Queued, Contents
  <2>. QED
    BY <1>1, <1>3, <1>5, <2>1 DEF Fills, n
<1>7. CASE Queued(Push(chunked, Item("command", row, <<n>>)))
  <2>. DEFINE it == Item("command", row, <<n>>)
  <2>1. it \in ItemType /\ ~IsChunk(it)
    BY <1>2 DEF Item, ItemType, IsChunk
  <2>. HIDE DEF it
  <2>2. i1 \in Seq(ItemType) /\ b1 \in Nat
    BY <1>5 DEF Filled
  <2>3. PICK i2, b2, l2 :
          /\ i2 \in Seq(ItemType) /\ b2 \in Nat
          /\ Push(Contents(i1, b1, l1), it) = Contents(i2, b2, l2)
          /\ Filled(i1, b1, l1, i2, b2, l2, Marks(<<it>>))
          /\ i2 = i1 \/ i2 = Append(i1, it)
    BY <2>1, <2>2, Pushing
  <2>4. queue' = i2 /\ qbytes' = b2 /\ lost' = l2
    BY <1>5, <1>7, <2>3 DEF Queued, Contents, it
  <2>5. Follows(queue, i2, n)
    BY <1>2, <1>5, <2>1, <2>2, <2>3, FollowsAppend, FollowsTrails
  <2>6. Filled(queue, qbytes, lost, i2, b2, l2, {<<"chunk", n>>})
    BY <1>5, <2>3 DEF Filled
  <2>. QED
    BY <1>1, <1>3, <2>4, <2>5, <2>6 DEF Fills, n
<1>. QED
  BY <1>1, <1>6, <1>7 DEF n, row

Parts(r) == {r.lines[i] : i \in DOMAIN r.lines} \cup {r.part[i] : i \in DOMAIN r.part}

LEMMA RangeConcat ==
  ASSUME NEW s \in Seq(Nat), NEW t \in Seq(Nat)
  PROVE  Range(s \o t) = {s[i] : i \in DOMAIN s} \cup {t[i] : i \in DOMAIN t}
<1>1. /\ Len(s) \in Nat /\ Len(t) \in Nat /\ DOMAIN (s \o t) = 1 .. Len(s) + Len(t)
      /\ DOMAIN s = 1 .. Len(s) /\ DOMAIN t = 1 .. Len(t)
      /\ \A i \in 1 .. Len(s) : (s \o t)[i] = s[i]
      /\ \A i \in 1 .. Len(t) : (s \o t)[Len(s) + i] = t[i]
  OBVIOUS
<1>2. ASSUME NEW x \in Range(s \o t) PROVE x \in {s[i] : i \in DOMAIN s} \cup {t[i] : i \in DOMAIN t}
  <2>1. PICK i \in 1 .. Len(s) + Len(t) : x = (s \o t)[i]
    BY <1>1, <1>2 DEF Range
  <2>2. CASE i \in 1 .. Len(s)
    BY <1>1, <2>1, <2>2
  <2>3. CASE i \notin 1 .. Len(s)
    <3>1. i - Len(s) \in 1 .. Len(t) /\ (s \o t)[i] = t[i - Len(s)]
      BY <1>1, <2>3
    <3>. QED
      BY <1>1, <2>1, <3>1
  <2>. QED
    BY <2>2, <2>3
<1>3. ASSUME NEW i \in DOMAIN s PROVE s[i] \in Range(s \o t)
  BY <1>1 DEF Range
<1>4. ASSUME NEW i \in DOMAIN t PROVE t[i] \in Range(s \o t)
  <2>1. Len(s) + i \in 1 .. Len(s) + Len(t)
    BY <1>1
  <2>. QED
    BY <1>1, <2>1 DEF Range
<1>. QED
  BY <1>2, <1>3, <1>4

LEMMA HeldParts == ASSUME NEW r \in RecType PROVE Held(r) = {<<"text", x>> : x \in Parts(r)}
<1>1. r # NoRec /\ r.lines \in Seq(Nat) /\ r.part \in Seq(Nat)
  BY RecordingAssumption DEF RecordingAssumption, RecType
<1>. QED
  BY <1>1, RangeConcat DEF Held, Parts

(* A piece's text is in the window that is queued or still held.           *)
LEMMA Transcribed ==
  ASSUME NEW r \in RecType, NEW n \in Nat, NEW t \in Transcribe(r, n)
  PROVE  /\ t.rec \in RecType /\ t.rec.row = r.row /\ t.window \in Seq(Nat)
         /\ Parts(r) \subseteq Parts(t.rec) \cup {t.window[j] : j \in DOMAIN t.window}
         /\ t.text => n \in Parts(t.rec) \cup {t.window[j] : j \in DOMAIN t.window}
<1>. DEFINE open == Append(r.part, n)
            lines == r.lines \o open
            In(s) == {s[j] : j \in DOMAIN s}
<1>1. /\ r.lines \in Seq(Nat) /\ r.part \in Seq(Nat) /\ open \in Seq(Nat) /\ lines \in Seq(Nat)
      /\ r = [row |-> r.row, lines |-> r.lines, part |-> r.part] /\ r.row \in Nat
  BY DEF RecType
<1>2. In(r.part) \subseteq In(open) /\ n \in In(open)
  <2>1. \A j \in DOMAIN r.part : j \in DOMAIN open /\ open[j] = r.part[j]
    BY <1>1
  <2>2. Len(r.part) + 1 \in DOMAIN open /\ open[Len(r.part) + 1] = n
    BY <1>1
  <2>. QED
    BY <2>1, <2>2
<1>. HIDE DEF open
<1>3. In(lines) = In(r.lines) \cup In(open)
  BY <1>1, RangeConcat DEF Range
<1>4. In(<<>>) = {}
  OBVIOUS
<1>. HIDE DEF lines
<1>5. \/ t = [window |-> <<>>, rec |-> r, text |-> FALSE]
      \/ t = [window |-> <<>>, rec |-> [r EXCEPT !.part = open], text |-> TRUE]
      \/ t = [window |-> open, rec |-> [r EXCEPT !.part = <<>>], text |-> TRUE]
      \/ t = [window |-> <<>>, rec |-> [r EXCEPT !.lines = lines, !.part = <<>>], text |-> TRUE]
      \/ t = [window |-> lines, rec |-> [r EXCEPT !.lines = <<>>, !.part = <<>>], text |-> TRUE]
  BY DEF Transcribe, open, lines
<1>. DEFINE parted(p) == [r EXCEPT !.part = p]
            moved(q, p) == [r EXCEPT !.lines = q, !.part = p]
<1>53. \/ t.rec = r /\ t.window = <<>> /\ ~t.text
       \/ t.rec = parted(open) /\ t.window = <<>>
       \/ t.rec = parted(<<>>) /\ t.window = open
       \/ t.rec = moved(lines, <<>>) /\ t.window = <<>>
       \/ t.rec = moved(<<>>, <<>>) /\ t.window = lines
  BY <1>5
<1>54. \A p \in Seq(Nat) : /\ parted(p) \in RecType
                          /\ parted(p).row = r.row /\ parted(p).lines = r.lines /\ parted(p).part = p
  BY DEF RecType
<1>55. \A p, q \in Seq(Nat) : moved(q, p) \in RecType /\ moved(q, p).row = r.row /\ moved(q, p).lines = q
  BY DEF RecType
<1>56. <<>> \in Seq(Nat)
  OBVIOUS
<1>. HIDE DEF parted, moved
<1>6. /\ t.rec \in RecType /\ t.rec.row = r.row
      /\ \/ t.rec = r /\ t.window = <<>> /\ ~t.text
         \/ t.rec.lines = r.lines /\ t.rec.part = open /\ t.window = <<>>
         \/ t.rec.lines = r.lines /\ t.window = open
         \/ t.rec.lines = lines /\ t.window = <<>>
         \/ t.window = lines
  <2>1. CASE t.rec = r /\ t.window = <<>> /\ ~t.text
    BY <2>1
  <2>2. CASE t.rec = parted(open) /\ t.window = <<>>
    BY <1>1, <1>54, <2>2
  <2>3. CASE t.rec = parted(<<>>) /\ t.window = open
    BY <1>54, <1>56, <2>3
  <2>4. CASE t.rec = moved(lines, <<>>) /\ t.window = <<>>
    <3>1. lines \in Seq(Nat)
      BY <1>1
    <3>2. moved(lines, <<>>) \in RecType /\ moved(lines, <<>>).row = r.row /\ moved(lines, <<>>).lines = lines
      BY <1>55, <1>56, <3>1
    <3>. QED
      BY <2>4, <3>2
  <2>5. CASE t.rec = moved(<<>>, <<>>) /\ t.window = lines
    BY <1>55, <1>56, <2>5
  <2>. QED
    BY <1>53, <2>1, <2>2, <2>3, <2>4, <2>5
<1>7. t.rec \in RecType /\ t.rec.row = r.row /\ t.window \in Seq(Nat)
  BY <1>1, <1>6, <1>56
<1>8. Parts(r) = In(r.lines) \cup In(r.part) /\ Parts(t.rec) = In(t.rec.lines) \cup In(t.rec.part)
  BY DEF Parts
<1>9. \/ t.rec = r /\ ~t.text
      \/ In(t.rec.lines) = In(r.lines) /\ In(t.rec.part) = In(open)
      \/ In(t.rec.lines) = In(r.lines) /\ In(t.window) = In(open)
      \/ In(t.rec.lines) = In(lines)
      \/ In(t.window) = In(lines)
  BY <1>6
<1>. HIDE DEF In
<1>10. Parts(r) \subseteq Parts(t.rec) \cup In(t.window) /\ (t.text => n \in Parts(t.rec) \cup In(t.window))
  BY <1>2, <1>3, <1>8, <1>9
<1>. QED
  BY <1>7, <1>10 DEF In

LEMMA OutputFills ==
  ASSUME Typed, NEW o \in Obj, NEW g \in Gen, Output(o, g), ~Drop(o)
  PROVE  /\ rec[o] \in RecType /\ pieces' = pieces + 1
         /\ UNCHANGED <<sessionVars, rows, ending, ui, enabled, storeVars, adrift>>
         /\ \E t \in Transcribe(rec[o], pieces + 1) :
              /\ Fills({<<"chunk", pieces + 1>>} \cup Texts(t.window), pieces + 1)
              /\ rec' = [rec EXCEPT ![o] = t.rec]
              /\ texts' = IF t.text THEN texts \cup {pieces + 1} ELSE texts
<1>. DEFINE n == pieces + 1
            row == rec[o].row
            chunked == Push(Queue, Item("chunk", row, <<n>>))
<1>1. /\ rec[o] # NoRec /\ pieces' = n
      /\ UNCHANGED <<sessionVars, rows, ending, ui, enabled, storeVars, adrift>>
  BY DEF Output
<1>2. PICK t \in Transcribe(rec[o], n) :
        /\ Queued(PushText(chunked, row, t.window))
        /\ rec' = [rec EXCEPT ![o] = t.rec]
        /\ texts' = IF t.text THEN texts \cup {n} ELSE texts
  BY DEF Output
<1>3. rec[o] \in RecType /\ row \in Nat /\ n \in Nat /\ queue \in Seq(ItemType) /\ qbytes \in Nat
  BY <1>1 DEF Typed, RecType
<1>4. Queue = Contents(queue, qbytes, lost)
  BY DEF Queue, Contents
<1>5. t.window \in Seq(Nat)
  BY <1>3, Transcribed
<1>. HIDE DEF n, row
<1>6. PICK i1, b1, l1 : /\ chunked = Contents(i1, b1, l1)
                        /\ Filled(queue, qbytes, lost, i1, b1, l1, {<<"chunk", n>>})
                        /\ Follows(queue, i1, n)
  BY <1>3, <1>4, PushingChunk
<1>. HIDE DEF chunked
<1>7. i1 \in Seq(ItemType) /\ b1 \in Nat
  BY <1>6 DEF Filled
<1>8. PICK i2, b2, l2 :
        /\ PushText(Contents(i1, b1, l1), row, t.window) = Contents(i2, b2, l2)
        /\ Filled(i1, b1, l1, i2, b2, l2, Texts(t.window))
        /\ Trails(i1, i2)
  BY <1>3, <1>5, <1>7, PushingText
<1>9. queue' = i2 /\ qbytes' = b2 /\ lost' = l2
  BY <1>2, <1>6, <1>8 DEF Queued, Contents
<1>10. Follows(queue, i2, n)
  <2>1. i2 \in Seq(ItemType)
    BY <1>8 DEF Filled
  <2>. QED
    BY <1>3, <1>6, <1>7, <1>8, <2>1, FollowsTrails
<1>11. Filled(queue, qbytes, lost, i2, b2, l2,
              {<<"chunk", n>>} \cup Texts(t.window))
  BY <1>6, <1>8, FilledTwice
<1>12. Fills({<<"chunk", n>>} \cup Texts(t.window), n)
  BY <1>9, <1>10, <1>11 DEF Fills
<1>. QED
  BY <1>1, <1>2, <1>3, <1>12 DEF n

LEMMA WindowFills ==
  ASSUME Typed, Inside, NEW p \in Ender, PushWindow(p)
  PROVE  /\ ending[p].rec \in RecType
         /\ Fills(Held(ending[p].rec), pieces) /\ Trails(queue, queue')
<1>. DEFINE r == ending[p].rec
<1>1. r \in RecType
  BY DEF PushWindow, Inside, Typed, EndType
<1>. HIDE DEF r
<1>2. r.row \in Nat /\ r.lines \o r.part \in Seq(Nat) /\ queue \in Seq(ItemType) /\ qbytes \in Nat
  BY <1>1 DEF RecType, Typed
<1>3. Queue = Contents(queue, qbytes, lost)
  BY DEF Queue, Contents
<1>4. Queued(PushText(Contents(queue, qbytes, lost), r.row, r.lines \o r.part))
  BY <1>3 DEF PushWindow, r
<1>. DEFINE window == r.lines \o r.part
<1>5. Held(r) = Texts(window)
  BY <1>1, RecordingAssumption DEF Texts, Held, Range, RecType, RecordingAssumption
<1>. HIDE DEF window
<1>6. PICK i2, b2, l2 :
        /\ PushText(Contents(queue, qbytes, lost), r.row, window) = Contents(i2, b2, l2)
        /\ Filled(queue, qbytes, lost, i2, b2, l2, Texts(window))
        /\ Trails(queue, i2)
  BY <1>2, PushingText DEF window
<1>7. queue' = i2 /\ qbytes' = b2 /\ lost' = l2
  BY <1>4, <1>6 DEF Queued, Contents, window
<1>8. Follows(queue, queue', pieces)
  BY <1>6, <1>7 DEF Trails, Follows
<1>. QED
  BY <1>1, <1>5, <1>6, <1>7, <1>8 DEF Fills, r
-----------------------------------------------------------------------------
(* What a step does to the books, by what it touches.                      *)

LEMMA EndingAt ==
  ASSUME Typed, NEW p \in Ender, NEW v \in EndType, ending' = [ending EXCEPT ![p] = v]
  PROVE  /\ ending' \in [Ender -> EndType] /\ ending'[p] = v
         /\ \A q \in Ender : q # p => ending'[q] = ending[q]
  BY DEF Typed

LEMMA EnteredAt ==
  ASSUME Typed, NEW p \in Ender, NEW o \in Obj, Enter(p, o)
  PROVE  /\ ending' \in [Ender -> EndType]
         /\ ending'[p].step = "take" /\ ending'[p].obj = o /\ ending'[p].rec = NoRec
         /\ \A q \in Ender : q # p => ending'[q] = ending[q]
<1>. DEFINE v == [step |-> "take", obj |-> o, rec |-> NoRec]
<1>1. v \in EndType /\ v.step = "take" /\ v.obj = o /\ v.rec = NoRec
  BY DEF EndType
<1>2. ending' = [ending EXCEPT ![p] = v]
  BY DEF Enter
<1>. HIDE DEF v
<1>. QED
  BY <1>1, <1>2, EndingAt

(* A step of an ender, or of nobody, leaves the others where they are.     *)
LEMMA InsideKept ==
  ASSUME Inside, UNCHANGED <<gen, worker, ui>>, NEW p \in Ender,
         ending[p].step # "none", \A q \in Ender : q # p => ending'[q] = ending[q],
         ending'[p].rec = NoRec <=> ending'[p].step \in {"none", "take"},
         ending'[p].step # "none" => ending'[p].obj \in Obj
  PROVE  Inside'
<1>1. /\ \A q \in Ender : /\ ending[q].rec = NoRec <=> ending[q].step \in {"none", "take"}
                          /\ ending[q].step # "none" => ending[q].obj \in Obj
      /\ \A o \in Obj, g \in Gen : worker[o][g] # "gone" => ending[<<o, g>>].step = "none"
      /\ \A o \in Obj, g \in Gen : g > gen[o] => worker[o][g] = "none"
      /\ ui.op \notin {"show", "return", "off", "shutdown"} => ending[Ui].step = "none"
  BY DEF Inside
<1>2. \A q \in Ender : ending[q].step = "none" => ending'[q].step = "none"
  OBVIOUS
<1>3. Ui \in Ender /\ \A o \in Obj, g \in Gen : <<o, g>> \in Ender
  BY Enders
<1>4. \A q \in Ender : /\ ending'[q].rec = NoRec <=> ending'[q].step \in {"none", "take"}
                       /\ ending'[q].step # "none" => ending'[q].obj \in Obj
  BY <1>1
<1>. QED
  BY <1>1, <1>2, <1>3, <1>4 DEF Inside

LEMMA InsideStill == ASSUME Inside, UNCHANGED <<gen, worker, ui, ending>> PROVE Inside'
  BY DEF Inside

(* No recorder is attached where there was none.                           *)
LEMMA VacantKept ==
  ASSUME Vacant, UNCHANGED <<gen, worker, ui>>, \A o \in Obj : rec[o] = NoRec => rec'[o] = NoRec,
         \/ ending'[Ui] = ending[Ui]
         \/ ending[Ui].step = "take" /\ ending[Ui].obj \in Obj => rec'[ending[Ui].obj] = NoRec
  PROVE  Vacant'
  BY DEF Vacant

(* Nobody's row changes hands.                                             *)
Same == /\ rows' = rows /\ adrift' = adrift
        /\ \A o \in Obj : /\ rec'[o] = NoRec <=> rec[o] = NoRec
                          /\ rec[o] # NoRec => rec'[o].row = rec[o].row
        /\ \A p \in Ender : /\ ending'[p].rec = ending[p].rec
                            /\ ending[p].rec # NoRec => ending'[p].obj = ending[p].obj

LEMMA SameKept == ASSUME Kept, Same PROVE Kept'
<1>1. \A o, r : /\ o \in Obj => (Attaches(o, r)' <=> Attaches(o, r))
                /\ o \in Ender => (Finishes(o, r)' <=> Finishes(o, r))
  BY DEF Same, Attaches, Finishes
<1>2. \A r : Open(r)' <=> Open(r)
  BY DEF Same, Open
<1>. QED
  BY <1>1, <1>2 DEF Kept, Same

(* A step that neither captures nor queues nor commits anything.           *)
Quiet == UNCHANGED <<queueVars, storeVars, pieces, texts>> /\ lost \subseteq lost'

LEMMA QuietKept == ASSUME Ordered, QueueAccounted, Quiet PROVE Ordered' /\ QueueAccounted'
<1>1. /\ queue' = queue /\ qbytes' = qbytes /\ batch' = batch /\ db' = db /\ pieces' = pieces
  BY DEF Quiet, queueVars, storeVars
<1>2. Ordered'
  BY <1>1 DEF Ordered, Captured
<1>3. QueueAccounted'
  BY <1>1 DEF QueueAccounted
<1>. QED
  BY <1>2, <1>3

LEMMA QuietMarks ==
  ASSUME NothingVanishes, Quiet, HeldText \cup HeldByEnders \subseteq HeldText' \cup HeldByEnders' \cup lost'
  PROVE  NothingVanishes'
<1>1. /\ queue' = queue /\ batch' = batch /\ db' = db /\ pieces' = pieces /\ texts' = texts /\ lost \subseteq lost'
  BY DEF Quiet, queueVars, storeVars
<1>2. UnderWay' = UnderWay /\ Marks(db)' = Marks(db)
  BY <1>1 DEF UnderWay
<1>. QED
  BY <1>1, <1>2 DEF NothingVanishes

(* A step that touches neither rows nor recorders nor the queue, and       *)
(* enters session_ended at most.                                           *)
LEMMA QuietStep ==
  ASSUME Books, Quiet, UNCHANGED <<rec, rows, adrift>>,
         gen' \in [Obj -> Nat], worker' \in [Obj -> [Gen -> Places]], Inside', Vacant',
         ending' = ending \/ \E p \in Ender, o \in Obj : ending[p].step = "none" /\ Enter(p, o)
  PROVE  Books'
<1>1. Typed /\ Inside /\ Kept /\ Ordered /\ QueueAccounted /\ NothingVanishes
  BY DEF Books
<1>2. /\ ending' \in [Ender -> EndType]
      /\ \A q \in Ender : \/ ending'[q] = ending[q]
                          \/ /\ ending[q].rec = NoRec /\ ending'[q].rec = NoRec
                             /\ ending[q].step = "none" /\ ending'[q].step = "take"
  <2>1. CASE ending' = ending
    BY <1>1, <2>1 DEF Typed
  <2>2. ASSUME NEW p \in Ender, NEW o \in Obj, ending[p].step = "none", Enter(p, o)
        PROVE  <1>2
    <3>1. ending[p].rec = NoRec
      BY <1>1, <2>2 DEF Inside
    <3>. QED
      BY <1>1, <2>2, <3>1, EnteredAt
  <2>. QED
    BY <2>1, <2>2
<1>3. Typed'
  BY <1>1, <1>2 DEF Typed, Quiet, queueVars, storeVars
<1>4. Same
  BY <1>2 DEF Same
<1>5. HeldText' = HeldText /\ HeldByEnders' = HeldByEnders
  BY <1>2 DEF HeldText, HeldByEnders
<1>. QED
  BY <1>1, <1>3, <1>4, <1>5, SameKept, QuietKept, QuietMarks DEF Books
LEMMA Placed ==
  ASSUME Typed, NEW o \in Obj, NEW g \in Gen, NEW w \in Places, Place(o, g, w)
  PROVE  /\ worker' \in [Obj -> [Gen -> Places]] /\ worker'[o][g] = w
         /\ \A q \in Obj, h \in Gen : <<q, h>> # <<o, g>> => worker'[q][h] = worker[q][h]
<1>1. worker \in [Obj -> [Gen -> Places]] /\ worker' = [worker EXCEPT ![o][g] = w]
  BY DEF Place, Typed
<1>. QED
  BY <1>1

(* The workers: on its way out a worker enters session_ended, once.        *)
LEMMA WorkerMoves ==
  ASSUME Books, NEW o \in Obj, NEW g \in Gen, Advance(o, g) \/ ReportConnected(o, g) \/ StoreEnded(o, g)
  PROVE  Books'
<1>1. Typed /\ Inside /\ Vacant
  BY DEF Books
<1>2. /\ UNCHANGED <<rec, rows, adrift, ui, gen>> /\ Quiet
      /\ worker[o][g] \in {"dial", "run", "rise", "store"}
      /\ \E w \in Places \ {"none"} : Place(o, g, w)
      /\ \/ ending' = ending
         \/ Enter(<<o, g>>, o) /\ Place(o, g, "gone")
  BY DEF Advance, ReportConnected, StoreEnded, rest, Quiet, queueVars, storeVars, Places
<1>3. PICK w \in Places \ {"none"} : Place(o, g, w)
  BY <1>2
<1>4. /\ worker' \in [Obj -> [Gen -> Places]] /\ worker'[o][g] = w
      /\ \A q \in Obj, h \in Gen : <<q, h>> # <<o, g>> => worker'[q][h] = worker[q][h]
  BY <1>1, <1>3, Placed
<1>5. /\ <<o, g>> \in Ender /\ <<o, g>> # Ui /\ Ui \in Ender /\ ending[<<o, g>>].step = "none"
      /\ \A q \in Obj, h \in Gen : <<q, h>> \in Ender
  BY <1>1, <1>2, Enders DEF Inside
<1>6. /\ \A q \in Ender : q # <<o, g>> => ending'[q] = ending[q]
      /\ \/ ending' = ending
         \/ /\ ending'[<<o, g>>].step = "take" /\ ending'[<<o, g>>].obj = o /\ ending'[<<o, g>>].rec = NoRec
            /\ worker'[o][g] = "gone"
  <2>1. CASE ending' = ending
    BY <2>1
  <2>2. CASE Enter(<<o, g>>, o) /\ Place(o, g, "gone")
    <3>1. "gone" \in Places
      BY DEF Places
    <3>. QED
      BY <1>1, <1>5, <2>2, <3>1, EnteredAt, Placed
  <2>. QED
    BY <1>2, <2>1, <2>2
<1>7. Inside'
  BY <1>1, <1>2, <1>4, <1>5, <1>6 DEF Inside
<1>8. Vacant'
  BY <1>1, <1>2, <1>4, <1>5, <1>6 DEF Vacant
<1>9. gen' \in [Obj -> Nat]
  BY <1>1, <1>2 DEF Typed
<1>. QED
  BY <1>2, <1>4, <1>5, <1>7, <1>8, <1>9, QuietStep

(* The UI thread's moves between the calls it makes.                       *)
LEMMA UiMove ==
  ASSUME Books, Quiet, UNCHANGED <<rec, rows, adrift, worker>>, ending[Ui].step = "none", Vacant',
         gen' = gen \/ \E o \in Obj : gen' = [gen EXCEPT ![o] = @ + 1],
         \/ ending' = ending
         \/ ui'.op \in {"show", "return", "off", "shutdown"} /\ \E o \in Obj : Enter(Ui, o)
  PROVE  Books'
<1>1. Typed /\ Inside
  BY DEF Books
<1>2. gen' \in [Obj -> Nat] /\ \A o \in Obj : gen'[o] >= gen[o]
  BY <1>1 DEF Typed
<1>3. /\ Ui \in Ender /\ \A o \in Obj, g \in Gen : <<o, g>> # Ui /\ <<o, g>> \in Ender
  BY Enders
<1>4. /\ \A q \in Ender : q # Ui => ending'[q] = ending[q]
      /\ \/ ending' = ending
         \/ /\ ui'.op \in {"show", "return", "off", "shutdown"}
            /\ ending'[Ui].step = "take" /\ ending'[Ui].obj \in Obj /\ ending'[Ui].rec = NoRec
  BY <1>1, <1>3, EnteredAt
<1>5. Inside'
  <2>1. \A q \in Ender : /\ ending'[q].rec = NoRec <=> ending'[q].step \in {"none", "take"}
                         /\ ending'[q].step # "none" => ending'[q].obj \in Obj
    BY <1>1, <1>4 DEF Inside
  <2>2. \A o \in Obj, g \in Gen : worker'[o][g] # "gone" => ending'[<<o, g>>].step = "none"
    BY <1>1, <1>3, <1>4 DEF Inside
  <2>4. ASSUME NEW o \in Obj, NEW g \in Gen, g > gen'[o] PROVE worker'[o][g] = "none"
    <3>1. g \in Nat /\ gen[o] \in Nat /\ gen'[o] \in Nat /\ gen'[o] >= gen[o]
      BY <1>1, <1>2 DEF Gen, Typed
    <3>. QED
      BY <1>1, <2>4, <3>1 DEF Inside
  <2>3. ui'.op \notin {"show", "return", "off", "shutdown"} => ending'[Ui].step = "none"
    BY <1>4
  <2>. QED
    BY <2>1, <2>2, <2>3, <2>4 DEF Inside
<1>6. worker' \in [Obj -> [Gen -> Places]]
  BY <1>1 DEF Typed
<1>7. ending' = ending \/ \E p \in Ender, o \in Obj : ending[p].step = "none" /\ Enter(p, o)
  BY <1>3
<1>. QED
  BY <1>2, <1>5, <1>6, <1>7, QuietStep

LEMMA UiMoves ==
  ASSUME Books,
         \/ \E o \in Obj : Connect(o) \/ ConnectSpawn(o) \/ Abandon(o) \/ EnableCheck(o) \/ DisableVisit(o) \/ ShutdownVisit(o)
         \/ \E on \in BOOLEAN : SetEnabled(on)
         \/ Shutdown \/ Visited
  PROVE  Books'
<1>1. Typed /\ Inside /\ Vacant
  BY DEF Books
<1>2. ui = Idle => ending[Ui].step = "none"
  BY <1>1 DEF Inside, Idle
<1>3. ASSUME NEW o \in Obj, Connect(o) PROVE Books'
  <2>1. /\ Quiet /\ UNCHANGED <<rec, rows, adrift, worker>> /\ ending[Ui].step = "none" /\ gen[o] < MaxGen
        /\ gen' = [gen EXCEPT ![o] = @ + 1] /\ Enter(Ui, o) /\ ui'.op = "show" /\ ui'.obj = o
    BY <1>2, <1>3 DEF Connect, Calls, Quiet
  <2>2. gen[o] \in Nat /\ gen'[o] = gen[o] + 1 /\ gen'[o] \in Gen /\ gen'[o] > gen[o]
    BY <1>1, <2>1, RecordingAssumption DEF RecordingAssumption, Typed, Gen
  <2>3. ending'[Ui].step = "take" /\ ending'[Ui].obj = o
    BY <1>1, <2>1, EnteredAt, Enders
  <2>4. worker'[o][gen'[o]] = "none"
    <3>1. \A h \in Gen : h > gen[o] => worker[o][h] = "none"
      BY <1>1 DEF Inside
    <3>. QED
      BY <2>1, <2>2, <3>1
  <2>5. Vacant'
    BY <2>1, <2>2, <2>3, <2>4 DEF Vacant
  <2>. QED
    BY <2>1, <2>5, UiMove
<1>4. ASSUME NEW o \in Obj, ConnectSpawn(o) PROVE Books'
  <2>1. /\ Quiet /\ UNCHANGED <<rec, rows, adrift, gen>> /\ ui.op = "spawn" /\ ui.obj = o /\ ui'.op = "return"
        /\ ending[Ui].step = "none"
    BY <1>4 DEF ConnectSpawn, At, Free, Calls, Quiet
  <2>2. Vacant'
    BY <2>1 DEF Vacant
  <2>3. CASE Enter(Ui, o) /\ UNCHANGED worker
    BY <2>1, <2>2, <2>3, UiMove
  <2>4. CASE Place(o, gen[o], "dial") /\ UNCHANGED ending
    <3>1. gen[o] \in Gen /\ worker[o][gen[o]] = "none" /\ gen[o] \in Nat
      BY <1>1, <2>1 DEF Vacant, Typed
    <3>2. /\ worker' \in [Obj -> [Gen -> Places]] /\ worker'[o][gen[o]] = "dial"
          /\ \A q \in Obj, h \in Gen : <<q, h>> # <<o, gen[o]>> => worker'[q][h] = worker[q][h]
      <4>1. "dial" \in Places
        BY DEF Places
      <4>. QED
        BY <1>1, <2>4, <3>1, <4>1, Placed
    <3>3. \A q \in Obj, h \in Gen : h > gen'[q] => worker'[q][h] = "none"
      BY <1>1, <2>1, <3>1, <3>2 DEF Inside
    <3>31. \A q \in Obj, h \in Gen : worker'[q][h] # "gone" => ending'[<<q, h>>].step = "none"
      BY <1>1, <2>4, <3>1, <3>2 DEF Inside
    <3>4. Inside'
      BY <1>1, <2>1, <2>4, <3>3, <3>31 DEF Inside
    <3>5. gen' \in [Obj -> Nat]
      BY <1>1, <2>1 DEF Typed
    <3>. QED
      BY <2>1, <2>2, <2>4, <3>2, <3>4, <3>5, QuietStep
  <2>. QED
    BY <1>4, <2>3, <2>4 DEF ConnectSpawn
<1>5. ASSUME NEW o \in Obj, Abandon(o) \/ DisableVisit(o) \/ ShutdownVisit(o) PROVE Books'
  <2>1. /\ Quiet /\ UNCHANGED <<rec, rows, adrift, worker>> /\ ending[Ui].step = "none" /\ Enter(Ui, o)
        /\ gen' = gen \/ gen' = [gen EXCEPT ![o] = @ + 1]
        /\ ui'.op \in {"return", "off", "shutdown"}
    BY <1>2, <1>5 DEF Abandon, DisableVisit, ShutdownVisit, At, Free, Calls, Quiet, sessionVars
  <2>2. Vacant'
    BY <2>1 DEF Vacant
  <2>. QED
    BY <2>1, <2>2, UiMove
<1>6. ASSUME NEW o \in Obj, EnableCheck(o) PROVE Books'
  <2>1. /\ Quiet /\ UNCHANGED <<rec, rows, adrift, worker, gen, ending>> /\ ending[Ui].step = "none"
        /\ ui'.op = "on" \/ (ui'.op = "attach" /\ ui'.obj = o /\ rec[o] = NoRec)
    BY <1>6 DEF EnableCheck, At, Free, Calls, Quiet, sessionVars
  <2>2. Vacant'
    BY <2>1 DEF Vacant
  <2>. QED
    BY <2>1, <2>2, UiMove
<1>7. ASSUME (\E on \in BOOLEAN : SetEnabled(on)) \/ Shutdown \/ Visited PROVE Books'
  <2>1. /\ Quiet /\ UNCHANGED <<rec, rows, adrift, worker, gen, ending>> /\ ending[Ui].step = "none"
        /\ ui'.op \in {"on", "off", "shutdown", "flush", "idle"}
    BY <1>2, <1>7 DEF SetEnabled, Shutdown, Visited, Free, Calls, Quiet, Idle, sessionVars
  <2>2. Vacant'
    BY <2>1 DEF Vacant
  <2>. QED
    BY <2>1, <2>2, UiMove
<1>. QED
  BY <1>3, <1>4, <1>5, <1>6, <1>7
(* A session is recorded: a new row, and a recorder where there was none.  *)
LEMMA StartedStep ==
  ASSUME Books, NEW o \in Obj, Started(o), Quiet, UNCHANGED <<adrift, ending, gen, worker>>,
         ending[Ui].step = "none", ui.obj = o,
         \/ ui.op = "show" /\ ui'.op = "spawn" /\ ui'.obj = o
         \/ ui.op = "attach" /\ ui'.op = "on"
  PROVE  Books'
<1>1. Typed /\ Inside /\ Vacant /\ Kept /\ Ordered /\ QueueAccounted /\ NothingVanishes
  BY DEF Books
<1>2. Inside'
  BY <1>1 DEF Inside
<1>3. Vacant' /\ rec[o] = NoRec
  BY <1>1 DEF Vacant
<1>4. CASE UNCHANGED <<rows, rec>>
  <2>1. gen' \in [Obj -> Nat] /\ worker' \in [Obj -> [Gen -> Places]]
    BY <1>1 DEF Typed
  <2>. QED
    BY <1>2, <1>3, <1>4, <2>1, QuietStep
<1>5. CASE /\ rows' = Append(rows, [obj |-> o, closed |-> FALSE])
           /\ rec' = [rec EXCEPT ![o] = [row |-> Len(rows) + 1, lines |-> <<>>, part |-> <<>>]]
  <2>0. PICK n : n = Len(rows) + 1
    OBVIOUS
  <2>. DEFINE new == [row |-> n, lines |-> <<>>, part |-> <<>>]
  <2>1. /\ Len(rows) \in Nat /\ DOMAIN rows' = DOMAIN rows \cup {n} /\ n \notin DOMAIN rows
        /\ rows'[n].obj = o /\ ~rows'[n].closed /\ \A k \in DOMAIN rows : rows'[k] = rows[k]
        /\ rows' \in Seq([obj : Obj, closed : BOOLEAN])
    <3>. DEFINE e == [obj |-> o, closed |-> FALSE]
    <3>1. rows \in Seq([obj : Obj, closed : BOOLEAN]) /\ e \in [obj : Obj, closed : BOOLEAN] /\ e.obj = o /\ ~e.closed
      BY <1>1 DEF Typed
    <3>2. rows' = Append(rows, e)
      BY <1>5
    <3>. HIDE DEF e
    <3>3. rows' \in Seq([obj : Obj, closed : BOOLEAN]) /\ n = Len(rows) + 1 /\ Len(rows) \in Nat /\ DOMAIN rows = 1 .. Len(rows)
      BY <2>0, <3>1, <3>2
    <3>4. DOMAIN rows' = 1 .. Len(rows) + 1 /\ rows'[Len(rows) + 1] = e
      BY <3>1, <3>2, <3>3
    <3>5. \A k \in 1 .. Len(rows) : rows'[k] = rows[k]
      BY <3>1, <3>2, <3>3
    <3>. QED
      BY <3>1, <3>3, <3>4, <3>5
  <2>2. new \in RecType /\ new # NoRec /\ new.row = n
    <3>1. n \in Nat /\ <<>> \in Seq(Nat)
      BY <2>0, <2>1
    <3>2. new \in RecType /\ new.row = n
      BY <3>1 DEF RecType
    <3>. QED
      BY <3>2, RecordingAssumption DEF RecType, RecordingAssumption
  <2>. HIDE DEF new
  <2>3. rec' = [rec EXCEPT ![o] = new] /\ rec \in [Obj -> RecType \cup {NoRec}]
    BY <1>1, <1>5, <2>0 DEF new, Typed
  <2>4. rec'[o] = new /\ \A q \in Obj : q # o => rec'[q] = rec[q]
    BY <2>3
  <2>5. rec' \in [Obj -> RecType \cup {NoRec}]
    BY <2>2, <2>3
  <2>6. Typed'
    BY <1>1, <2>1, <2>5 DEF Typed, Quiet, queueVars, storeVars
  <2>7. /\ Open(n)' /\ \A r : r # n => (Open(r)' <=> Open(r))
        /\ \A r \in DOMAIN rows : rows'[r].obj = rows[r].obj
    <3>1. adrift' = adrift /\ n \notin adrift
      BY <1>1, <2>1 DEF Kept
    <3>. QED
      BY <2>1, <3>1 DEF Open
  <2>8. /\ \A r : \A q \in Obj : Attaches(q, r)' <=> Attaches(q, r) \/ (q = o /\ r = n)
        /\ \A r : \A p \in Ender : Finishes(p, r)' <=> Finishes(p, r)
    BY <1>3, <2>2, <2>4 DEF Attaches, Finishes
  <2>9. \A r : Open(r) => r \in DOMAIN rows /\ r # n
    BY <2>1 DEF Open
  <2>10. Kept'
    <3>1. (adrift \subseteq DOMAIN rows)'
      BY <1>1, <2>1 DEF Kept
    <3>2. ASSUME NEW q \in Obj, rec'[q] # NoRec PROVE Open(rec[q].row)' /\ rows'[rec'[q].row].obj = q
      <4>1. CASE q = o
        BY <2>1, <2>2, <2>4, <2>7, <4>1
      <4>2. CASE q # o
        BY <1>1, <2>4, <2>7, <2>9, <3>2, <4>2 DEF Kept
      <4>. QED
        BY <4>1, <4>2
    <3>3. ASSUME NEW p \in Ender, ending'[p].rec # NoRec
          PROVE  /\ Open(ending[p].rec.row)' /\ rows'[ending'[p].rec.row].obj = ending'[p].obj
                 /\ \A q \in Obj : ~Attaches(q, ending[p].rec.row)'
                 /\ \A q \in Ender : Finishes(q, ending[p].rec.row)' => q = p
      BY <1>1, <2>7, <2>8, <2>9, <3>3 DEF Kept
    <3>4. ASSUME NEW r \in DOMAIN rows', Open(r)'
          PROVE  (\E q \in Obj : Attaches(q, r)') \/ \E p \in Ender : Finishes(p, r)'
      BY <1>1, <2>1, <2>7, <2>8, <3>4 DEF Kept
    <3>. QED
      BY <3>1, <3>2, <3>3, <3>4 DEF Kept
  <2>11. HeldText \subseteq HeldText' /\ HeldByEnders' = HeldByEnders
    BY <1>3, <2>4 DEF HeldText, HeldByEnders, Held
  <2>. QED
    BY <1>1, <1>2, <1>3, <2>6, <2>10, <2>11, QuietKept, QuietMarks DEF Books
<1>. QED
  BY <1>4, <1>5 DEF Started

LEMMA StartSteps == ASSUME Books, NEW o \in Obj, ConnectStart(o) \/ EnableAttach(o) PROVE Books'
<1>1. /\ Started(o) /\ Quiet /\ UNCHANGED <<adrift, ending, gen, worker>> /\ ending[Ui].step = "none" /\ ui.obj = o
      /\ \/ ui.op = "show" /\ ui'.op = "spawn" /\ ui'.obj = o
         \/ ui.op = "attach" /\ ui'.op = "on"
  BY DEF ConnectStart, EnableAttach, At, Free, Calls, Quiet, sessionVars
<1>. QED
  BY <1>1, StartedStep

(* The recorder that is attached goes to whoever ends the session.         *)
LEMMA TakeStep == ASSUME Books, NEW p \in Ender, TakeRecorder(p) PROVE Books'
<1>. DEFINE o == ending[p].obj
            v == IF rec[o] = NoRec THEN NotEnding ELSE [ending[p] EXCEPT !.step = "push", !.rec = rec[o]]
<1>1. Typed /\ Inside /\ Vacant /\ Kept /\ Ordered /\ QueueAccounted /\ NothingVanishes
  BY DEF Books
<1>2. /\ ending[p].step = "take" /\ ending' = [ending EXCEPT ![p] = v] /\ rec' = [rec EXCEPT ![o] = NoRec]
      /\ UNCHANGED <<gen, worker, rows, ui, adrift>> /\ Quiet
  BY DEF TakeRecorder, sessionVars, Quiet
<1>3. o \in Obj /\ ending[p].rec = NoRec /\ ending[p] \in EndType /\ rec \in [Obj -> RecType \cup {NoRec}]
  BY <1>1, <1>2 DEF Inside, Typed
<1>4. v \in EndType /\ v.rec = rec[o] /\ v.step = (IF rec[o] = NoRec THEN "none" ELSE "push")
      /\ (rec[o] # NoRec => v.obj = o)
  <2>1. CASE rec[o] = NoRec
    BY <2>1 DEF NotEnding, EndType
  <2>2. CASE rec[o] # NoRec
    BY <1>3, <2>2 DEF EndType
  <2>. QED
    BY <2>1, <2>2
<1>. HIDE DEF v
<1>5. /\ ending' \in [Ender -> EndType] /\ ending'[p] = v
      /\ \A q \in Ender : q # p => ending'[q] = ending[q]
  BY <1>1, <1>2, <1>4, EndingAt
<1>. HIDE DEF o
<1>6. /\ rec' \in [Obj -> RecType \cup {NoRec}] /\ rec'[o] = NoRec
      /\ \A q \in Obj : q # o => rec'[q] = rec[q]
  BY <1>2, <1>3
<1>7. Typed'
  BY <1>1, <1>2, <1>5, <1>6 DEF Typed, Quiet, queueVars, storeVars
<1>8. Inside'
  BY <1>1, <1>2, <1>3, <1>4, <1>5, InsideKept
<1>9. Vacant'
  <2>1. ending'[Ui] = ending[Ui] \/ rec'[ending[Ui].obj] = NoRec
    BY <1>5, <1>6, Enders DEF o
  <2>. QED
    BY <1>1, <1>2, <1>3, <1>6, <2>1, VacantKept
<1>10. \A r : /\ Open(r)' <=> Open(r)
              /\ \A q \in Obj : Attaches(q, r)' <=> Attaches(q, r) /\ q # o
              /\ \A q \in Ender : Finishes(q, r)' <=> Finishes(q, r) \/ (q = p /\ Attaches(o, r))
  BY <1>2, <1>3, <1>4, <1>5, <1>6 DEF Open, Attaches, Finishes
<1>11. Kept'
  <2>1. ASSUME NEW q \in Obj, rec'[q] # NoRec PROVE Open(rec[q].row)' /\ rows'[rec'[q].row].obj = q
    BY <1>1, <1>2, <1>6, <1>10, <2>1 DEF Kept
  <2>2. ASSUME NEW q \in Ender, ending'[q].rec # NoRec
        PROVE  /\ Open(ending[q].rec.row)' /\ rows'[ending'[q].rec.row].obj = ending'[q].obj
               /\ \A u \in Obj : ~Attaches(u, ending[q].rec.row)'
               /\ \A u \in Ender : Finishes(u, ending[q].rec.row)' => u = q
    <3>1. CASE q = p
      <4>1. ending'[q].rec = rec[o] /\ rec[o] # NoRec /\ ending'[q].obj = o /\ Attaches(o, rec[o].row)
        BY <1>4, <1>5, <2>2, <3>1 DEF Attaches
      <4>2. Open(rec[o].row) /\ rows[rec[o].row].obj = o
        BY <1>1, <1>3, <4>1 DEF Kept
      <4>3. ASSUME NEW u \in Obj, u # o PROVE ~Attaches(u, rec[o].row)
        BY <1>1, <4>2, <4>3 DEF Kept, Attaches
      <4>4. ASSUME NEW u \in Ender, u # p PROVE ~Finishes(u, rec[o].row)
        BY <1>1, <1>3, <4>1, <4>4 DEF Kept, Finishes
      <4>. QED
        BY <1>2, <1>10, <3>1, <4>1, <4>2, <4>3, <4>4
    <3>2. CASE q # p
      <4>1. ending'[q] = ending[q]
        BY <1>5, <3>2
      <4>. QED
        BY <1>1, <1>2, <1>3, <1>10, <2>2, <3>2, <4>1 DEF Kept
    <3>. QED
      BY <3>1, <3>2
  <2>3. ASSUME NEW r \in DOMAIN rows', Open(r)'
        PROVE  (\E q \in Obj : Attaches(q, r)') \/ \E q \in Ender : Finishes(q, r)'
    BY <1>1, <1>2, <1>10, <2>3 DEF Kept
  <2>. QED
    BY <1>1, <1>2, <2>1, <2>2, <2>3 DEF Kept
<1>12. HeldText \cup HeldByEnders \subseteq HeldText' \cup HeldByEnders'
  <2>1. ASSUME NEW m \in HeldText PROVE m \in HeldText' \cup HeldByEnders'
    <3>1. PICK q \in Obj : m \in Held(rec[q])
      BY <2>1 DEF HeldText
    <3>2. CASE q # o
      BY <1>6, <3>1, <3>2 DEF HeldText
    <3>3. CASE q = o
      <4>1. rec[o] # NoRec
        BY <3>1, <3>3 DEF Held
      <4>. QED
        BY <1>4, <1>5, <3>1, <3>3, <4>1 DEF HeldByEnders
    <3>. QED
      BY <3>2, <3>3
  <2>2. ASSUME NEW m \in HeldByEnders PROVE m \in HeldByEnders'
    <3>1. PICK q \in Ender : ending[q].step = "push" /\ m \in Held(ending[q].rec)
      BY <2>2 DEF HeldByEnders
    <3>2. ending'[q] = ending[q]
      BY <1>2, <1>5, <3>1
    <3>. QED
      BY <3>1, <3>2 DEF HeldByEnders
  <2>. QED
    BY <2>1, <2>2
<1>. QED
  BY <1>1, <1>2, <1>7, <1>8, <1>9, <1>11, <1>12, QuietKept, QuietMarks DEF Books
(* A row is closed, or its update is refused: nobody keeps it any more.    *)
LEMMA CloseStep == ASSUME Books, NEW p \in Ender, CloseRow(p) PROVE Books'
<1>1. Typed /\ Inside /\ Vacant /\ Kept /\ Ordered /\ QueueAccounted /\ NothingVanishes
  BY DEF Books
<1>0. PICK r : r = ending[p].rec.row
  OBVIOUS
<1>2. /\ ending[p].step = "row" /\ ending' = [ending EXCEPT ![p] = NotEnding]
      /\ UNCHANGED <<gen, worker, rec, ui>> /\ Quiet
      /\ \/ rows' = [rows EXCEPT ![r].closed = TRUE] /\ adrift' = adrift
         \/ adrift' = adrift \cup {r} /\ rows' = rows
  BY <1>0 DEF CloseRow, sessionVars, Quiet
<1>3. NotEnding \in EndType /\ NotEnding.step = "none" /\ NotEnding.rec = NoRec
  BY DEF NotEnding, EndType
<1>4. /\ ending' \in [Ender -> EndType] /\ ending'[p] = NotEnding
      /\ \A q \in Ender : q # p => ending'[q] = ending[q]
  BY <1>1, <1>2, <1>3, EndingAt
<1>5. ending[p].rec # NoRec /\ ending[p].rec.row = r
  BY <1>0, <1>1, <1>2 DEF Inside
<1>6. /\ Open(r) /\ \A o \in Obj : ~Attaches(o, r)
      /\ \A q \in Ender : Finishes(q, r) => q = p
  BY <1>1, <1>5 DEF Kept
<1>7. /\ rows' \in Seq([obj : Obj, closed : BOOLEAN]) /\ DOMAIN rows' = DOMAIN rows /\ adrift' \subseteq DOMAIN rows
      /\ \A k \in DOMAIN rows : rows'[k].obj = rows[k].obj /\ (k # r => rows'[k] = rows[k])
      /\ rows'[r].closed \/ r \in adrift'
      /\ adrift \subseteq adrift' /\ adrift' \subseteq adrift \cup {r}
  <2>1. rows \in Seq([obj : Obj, closed : BOOLEAN]) /\ r \in DOMAIN rows /\ adrift \subseteq DOMAIN rows
    BY <1>1, <1>6 DEF Typed, Kept, Open
  <2>2. CASE adrift' = adrift \cup {r} /\ rows' = rows
    BY <2>1, <2>2
  <2>3. CASE rows' = [rows EXCEPT ![r].closed = TRUE] /\ adrift' = adrift
    <3>. DEFINE S == [obj : Obj, closed : BOOLEAN]
                shut == [rows[r] EXCEPT !.closed = TRUE]
    <3>0. rows \in Seq(S) /\ r \in DOMAIN rows /\ rows' = [rows EXCEPT ![r] = shut]
      BY <2>1, <2>3
    <3>1. \A e \in S : [e EXCEPT !.closed = TRUE] \in S /\ [e EXCEPT !.closed = TRUE].closed
                      /\ [e EXCEPT !.closed = TRUE].obj = e.obj
      OBVIOUS
    <3>. HIDE DEF S
    <3>3. Len(rows) \in Nat /\ rows \in [1 .. Len(rows) -> S] /\ DOMAIN rows = 1 .. Len(rows)
      BY <3>0
    <3>2. shut \in S /\ shut.closed /\ shut.obj = rows[r].obj
      BY <3>0, <3>1, <3>3
    <3>. HIDE DEF shut
    <3>4. /\ rows' \in [1 .. Len(rows) -> S] /\ DOMAIN rows' = DOMAIN rows /\ rows'[r] = shut
          /\ \A k \in DOMAIN rows : k # r => rows'[k] = rows[k]
      BY <3>0, <3>2, <3>3
    <3>5. rows' \in Seq(S)
      BY <3>3, <3>4
    <3>. QED
      BY <2>1, <2>3, <3>2, <3>4, <3>5 DEF S
  <2>. QED
    BY <1>2, <2>2, <2>3
<1>8. Typed'
  BY <1>1, <1>2, <1>4, <1>7 DEF Typed, Quiet, queueVars, storeVars
<1>9. Inside'
  BY <1>1, <1>2, <1>3, <1>4, InsideKept
<1>10. Vacant'
  <2>1. ending'[Ui] = ending[Ui] \/ ending[Ui].step # "take"
    BY <1>2, <1>4, Enders
  <2>. QED
    BY <1>1, <1>2, <2>1, VacantKept
<1>11. \A k : /\ Open(k)' <=> Open(k) /\ k # r
              /\ \A o \in Obj : Attaches(o, k)' <=> Attaches(o, k)
              /\ \A q \in Ender : Finishes(q, k)' <=> Finishes(q, k) /\ q # p
  BY <1>2, <1>3, <1>4, <1>7 DEF Open, Attaches, Finishes
<1>12. Kept'
  <2>1. ASSUME NEW q \in Obj, rec'[q] # NoRec PROVE Open(rec[q].row)' /\ rows'[rec'[q].row].obj = q
    <3>1. rec'[q] = rec[q] /\ Open(rec[q].row) /\ rows[rec[q].row].obj = q /\ Attaches(q, rec[q].row)
      BY <1>1, <1>2, <2>1 DEF Kept, Attaches
    <3>. QED
      BY <1>6, <1>7, <1>11, <3>1 DEF Open
  <2>2. ASSUME NEW q \in Ender, ending'[q].rec # NoRec
        PROVE  /\ Open(ending[q].rec.row)' /\ rows'[ending'[q].rec.row].obj = ending'[q].obj
               /\ \A u \in Obj : ~Attaches(u, ending[q].rec.row)'
               /\ \A u \in Ender : Finishes(u, ending[q].rec.row)' => u = q
    <3>1. q # p /\ ending'[q] = ending[q]
      BY <1>3, <1>4, <2>2
    <3>2. /\ Open(ending[q].rec.row) /\ rows[ending[q].rec.row].obj = ending[q].obj
          /\ Finishes(q, ending[q].rec.row) /\ \A u \in Obj : ~Attaches(u, ending[q].rec.row)
          /\ \A u \in Ender : Finishes(u, ending[q].rec.row) => u = q
      BY <1>1, <2>2, <3>1 DEF Kept, Finishes
    <3>. QED
      BY <1>6, <1>7, <1>11, <3>1, <3>2 DEF Open
  <2>3. ASSUME NEW k \in DOMAIN rows', Open(k)'
        PROVE  (\E q \in Obj : Attaches(q, k)') \/ \E q \in Ender : Finishes(q, k)'
    BY <1>1, <1>5, <1>7, <1>11, <2>3 DEF Kept, Finishes
  <2>. QED
    BY <1>7, <2>1, <2>2, <2>3 DEF Kept
<1>13. HeldText' = HeldText /\ HeldByEnders \subseteq HeldByEnders'
  <2>1. ASSUME NEW m \in HeldByEnders PROVE m \in HeldByEnders'
    <3>1. PICK q \in Ender : ending[q].step = "push" /\ m \in Held(ending[q].rec)
      BY <2>1 DEF HeldByEnders
    <3>2. ending'[q] = ending[q]
      BY <1>2, <1>4, <3>1
    <3>. QED
      BY <3>1, <3>2 DEF HeldByEnders
  <2>. QED
    BY <1>2, <2>1 DEF HeldText
<1>. QED
  BY <1>1, <1>2, <1>8, <1>9, <1>10, <1>12, <1>13, QuietKept, QuietMarks DEF Books

(* A recorder that finds recording off is dropped, and its row with it.    *)
LEMMA DropStep ==
  ASSUME Books, NEW o \in Obj, Drop(o), UNCHANGED <<sessionVars, rows, ending, ui, storeVars>>
  PROVE  Books'
<1>1. Typed /\ Inside /\ Vacant /\ Kept /\ Ordered /\ QueueAccounted /\ NothingVanishes
  BY DEF Books
<1>0. PICK r : r = rec[o].row
  OBVIOUS
<1>2. /\ rec[o] # NoRec /\ rec' = [rec EXCEPT ![o] = NoRec] /\ adrift' = adrift \cup {r}
      /\ UNCHANGED <<gen, worker, rows, ending, ui>> /\ Quiet /\ lost' = lost \cup Held(rec[o])
  BY <1>0 DEF Drop, Quiet, sessionVars, Held
<1>3. /\ rec' \in [Obj -> RecType \cup {NoRec}] /\ rec'[o] = NoRec
      /\ \A q \in Obj : q # o => rec'[q] = rec[q]
  BY <1>1, <1>2 DEF Typed
<1>4. Typed'
  BY <1>1, <1>2, <1>3 DEF Typed, Quiet, queueVars, storeVars
<1>5. Inside'
  BY <1>1, <1>2, InsideStill
<1>6. Vacant'
  BY <1>1, <1>2, <1>3, VacantKept
<1>7. Open(r) /\ rows[r].obj = o /\ Attaches(o, r) /\ r \in DOMAIN rows
  BY <1>0, <1>1, <1>2 DEF Kept, Attaches, Open
<1>8. \A k : /\ Open(k)' <=> Open(k) /\ k # r
             /\ \A q \in Obj : Attaches(q, k)' <=> Attaches(q, k) /\ q # o
             /\ \A q \in Ender : Finishes(q, k)' <=> Finishes(q, k)
  BY <1>2, <1>3 DEF Open, Attaches, Finishes
<1>9. Kept'
  <2>1. ASSUME NEW q \in Obj, rec'[q] # NoRec PROVE Open(rec[q].row)' /\ rows'[rec'[q].row].obj = q
    BY <1>1, <1>2, <1>3, <1>7, <1>8, <2>1 DEF Kept
  <2>2. ASSUME NEW q \in Ender, ending'[q].rec # NoRec
        PROVE  /\ Open(ending[q].rec.row)' /\ rows'[ending'[q].rec.row].obj = ending'[q].obj
               /\ \A u \in Obj : ~Attaches(u, ending[q].rec.row)'
               /\ \A u \in Ender : Finishes(u, ending[q].rec.row)' => u = q
    <3>1. /\ Open(ending[q].rec.row) /\ rows[ending[q].rec.row].obj = ending[q].obj
          /\ \A u \in Obj : ~Attaches(u, ending[q].rec.row)
          /\ \A u \in Ender : Finishes(u, ending[q].rec.row) => u = q
      BY <1>1, <1>2, <2>2 DEF Kept
    <3>. QED
      BY <1>2, <1>7, <1>8, <3>1
  <2>3. ASSUME NEW k \in DOMAIN rows', Open(k)'
        PROVE  (\E q \in Obj : Attaches(q, k)') \/ \E q \in Ender : Finishes(q, k)'
    <3>1. Open(k) /\ k # r /\ k \in DOMAIN rows /\ ~Attaches(o, k)
      BY <1>0, <1>2, <1>8, <2>3 DEF Attaches
    <3>. QED
      BY <1>1, <1>8, <3>1 DEF Kept
  <2>4. (adrift \subseteq DOMAIN rows)'
    BY <1>1, <1>2, <1>7 DEF Kept
  <2>. QED
    BY <2>1, <2>2, <2>3, <2>4 DEF Kept
<1>10. HeldText \cup HeldByEnders \subseteq HeldText' \cup HeldByEnders' \cup lost'
  <2>1. HeldByEnders' = HeldByEnders
    BY <1>2 DEF HeldByEnders
  <2>2. ASSUME NEW m \in HeldText PROVE m \in HeldText' \cup lost'
    <3>1. PICK q \in Obj : m \in Held(rec[q])
      BY <2>2 DEF HeldText
    <3>2. CASE q = o
      BY <1>2, <3>1, <3>2
    <3>3. CASE q # o
      BY <1>3, <3>1, <3>3 DEF HeldText
    <3>. QED
      BY <3>2, <3>3
  <2>. QED
    BY <2>1, <2>2
<1>. QED
  BY <1>1, <1>2, <1>4, <1>5, <1>6, <1>9, <1>10, QuietKept, QuietMarks DEF Books
(* What is queued was captured in order, and what was captured is queued.  *)
LEMMA FillKept ==
  ASSUME Typed, Ordered, QueueAccounted, NothingVanishes, NEW new, NEW n \in Nat, Fills(new, n),
         UNCHANGED storeVars,
         \/ Trails(queue, queue') /\ pieces' = pieces
         \/ pieces' = n /\ n = pieces + 1 /\ <<"chunk", n>> \in new,
         \A x \in texts' \ texts : x = n /\ <<"text", n>> \in new \cup HeldText',
         HeldText \cup HeldByEnders \subseteq HeldText' \cup HeldByEnders' \cup new
  PROVE  Ordered' /\ QueueAccounted' /\ NothingVanishes'
<1>1. /\ batch' = batch /\ db' = db /\ pieces \in Nat /\ pieces' \in Nat /\ pieces' >= pieces
      /\ queue \in Seq(ItemType) /\ queue' \in Seq(ItemType)
  BY DEF storeVars, Typed, Fills, Filled
<1>2. /\ Len(queue) \in Nat /\ Len(queue') \in Nat /\ Len(queue') >= Len(queue)
      /\ DOMAIN queue = 1 .. Len(queue) /\ DOMAIN queue' = 1 .. Len(queue')
      /\ \A k \in 1 .. Len(queue) : queue'[k] = queue[k]
  BY <1>1 DEF Fills, Follows
<1>3. \A k \in DOMAIN queue' :
        IsChunk(queue'[k]) => \/ k \in DOMAIN queue /\ queue'[k] = queue[k]
                              \/ k = Len(queue) + 1 /\ queue'[k].ns[1] = n /\ pieces' = n /\ n = pieces + 1
  BY <1>1, <1>2 DEF Fills, Follows, Trails
<1>4. \A s : Captured(s) => Captured(s)'
  <2>. SUFFICES ASSUME NEW s, Captured(s) PROVE \A i \in DOMAIN s : IsChunk(s[i]) => s[i].ns[1] \in 1 .. pieces'
    BY DEF Captured
  <2>. QED
    BY <1>1 DEF Captured
<1>5. ASSUME NEW s, Captured(s), Before(s, queue) PROVE Before(s, queue')
  BY <1>1, <1>3, <1>5 DEF Captured, Before
<1>6. InOrder(queue') /\ Captured(queue)'
  <2>1. InOrder(queue')
    BY <1>1, <1>2, <1>3 DEF Ordered, InOrder, Captured
  <2>2. \A k \in DOMAIN queue' : IsChunk(queue'[k]) => queue'[k].ns[1] \in 1 .. pieces'
    BY <1>1, <1>3 DEF Ordered, Captured
  <2>. QED
    BY <2>1, <2>2 DEF Captured
<1>7. Ordered'
  <2>1. /\ InOrder(db) /\ Captured(db) /\ Before(db, queue)
        /\ \A f \in Flusher : InOrder(batch[f]) /\ Captured(batch[f]) /\ Before(db, batch[f]) /\ Before(batch[f], queue)
        /\ \A f, h \in Flusher : f # h => batch[f] = <<>> \/ batch[h] = <<>>
    BY DEF Ordered
  <2>2. Before(db, queue') /\ \A f \in Flusher : Before(batch[f], queue')
    BY <1>5, <2>1
  <2>3. Captured(db)' /\ \A f \in Flusher : Captured(batch[f])'
    BY <1>1, <1>4, <2>1 DEF Captured
  <2>. QED
    BY <1>1, <1>6, <2>1, <2>2, <2>3 DEF Ordered
<1>8. QueueAccounted'
  <2>1. Accounted(queue, qbytes)
    BY DEF QueueAccounted, Accounted
  <2>2. Accounted(queue', qbytes')
    BY <2>1 DEF Fills, Filled
  <2>. QED
    BY <2>2 DEF QueueAccounted, Accounted
<1>9. Everywhere \cup new \subseteq Everywhere'
  <2>1. /\ Marks(queue) \subseteq Marks(queue') /\ lost \subseteq lost'
        /\ new \subseteq Marks(queue') \cup lost'
    BY DEF Fills, Filled
  <2>2. UnderWay \cup Marks(queue') \subseteq UnderWay' /\ Marks(db)' = Marks(db)
    BY <1>1, <2>1 DEF UnderWay
  <2>. QED
    BY <2>1, <2>2 DEF Everywhere
<1>10. NothingVanishes'
  <2>1. /\ \A x \in 1 .. pieces : <<"chunk", x>> \in Everywhere
        /\ \A x \in texts : <<"text", x>> \in Everywhere
    BY DEF NothingVanishes, Everywhere
  <2>2. \A x \in 1 .. pieces' : <<"chunk", x>> \in Everywhere'
    <3>1. ASSUME NEW x \in 1 .. pieces', x \notin 1 .. pieces PROVE <<"chunk", x>> \in new
      BY <1>1, <3>1
    <3>. QED
      BY <1>9, <2>1, <3>1
  <2>3. HeldText' \subseteq Everywhere'
    BY DEF Everywhere
  <2>4. \A x \in texts' : <<"text", x>> \in Everywhere'
    BY <1>9, <2>1, <2>3
  <2>. QED
    BY <2>2, <2>4 DEF NothingVanishes, Everywhere
<1>. QED
  BY <1>7, <1>8, <1>10

LEMMA InputStep == ASSUME Books, NEW o \in Obj, Input(o) PROVE Books'
<1>1. Typed /\ Inside /\ Vacant /\ Kept /\ Ordered /\ QueueAccounted /\ NothingVanishes
  BY DEF Books
<1>2. CASE Drop(o)
  BY <1>2, DropStep DEF Input
<1>3. CASE ~Drop(o)
  <2>0. pieces \in Nat /\ pieces + 1 \in Nat
    BY <1>1 DEF Typed
  <2>1. /\ Fills({<<"chunk", pieces + 1>>}, pieces + 1) /\ pieces' = pieces + 1
        /\ UNCHANGED <<sessionVars, rec, rows, ending, ui, storeVars, texts, adrift>>
    BY <1>1, <1>3, InputFills
  <2>2. Typed'
    BY <1>1, <2>0, <2>1 DEF Typed, Fills, Filled, sessionVars, storeVars
  <2>3. Inside' /\ Vacant'
    BY <1>1, <2>1, InsideStill, VacantKept DEF sessionVars
  <2>4. Kept'
    BY <1>1, <2>1, SameKept DEF Same
  <2>5. HeldText' = HeldText /\ HeldByEnders' = HeldByEnders
    BY <2>1 DEF HeldText, HeldByEnders
  <2>6. Ordered' /\ QueueAccounted' /\ NothingVanishes'
    BY <1>1, <2>0, <2>1, <2>5, FillKept
  <2>. QED
    BY <2>2, <2>3, <2>4, <2>6 DEF Books
<1>. QED
  BY <1>2, <1>3

(* The last window is queued: the ender holds it no longer.                *)
LEMMA PushStep == ASSUME Books, NEW p \in Ender, PushWindow(p) PROVE Books'
<1>. DEFINE v == [ending[p] EXCEPT !.step = "row"]
<1>1. Typed /\ Inside /\ Vacant /\ Kept /\ Ordered /\ QueueAccounted /\ NothingVanishes
  BY DEF Books
<1>2. /\ ending[p].step = "push" /\ ending' = [ending EXCEPT ![p] = v]
      /\ UNCHANGED <<gen, worker, rec, rows, ui, adrift, pieces, texts>> /\ UNCHANGED storeVars
  BY DEF PushWindow, sessionVars
<1>3. /\ ending[p].rec \in RecType /\ Fills(Held(ending[p].rec), pieces) /\ Trails(queue, queue')
  BY <1>1, WindowFills
<1>4. v \in EndType /\ v.step = "row" /\ v.rec = ending[p].rec /\ v.obj = ending[p].obj
  BY <1>1 DEF Typed, EndType
<1>. HIDE DEF v
<1>5. /\ ending' \in [Ender -> EndType] /\ ending'[p] = v
      /\ \A q \in Ender : q # p => ending'[q] = ending[q]
  BY <1>1, <1>2, <1>4, EndingAt
<1>6. Typed'
  BY <1>1, <1>2, <1>3, <1>5 DEF Typed, Fills, Filled, storeVars
<1>7. ending[p].rec # NoRec /\ ending[p].obj \in Obj
  BY <1>1, <1>2 DEF Inside
<1>8. Inside'
  BY <1>1, <1>2, <1>4, <1>5, <1>7, InsideKept
<1>9. Vacant'
  <2>1. ending'[Ui] = ending[Ui] \/ ending[Ui].step # "take"
    BY <1>2, <1>5, Enders
  <2>. QED
    BY <1>1, <1>2, <2>1, VacantKept
<1>10. Kept'
  <2>1. Same
    BY <1>2, <1>4, <1>5 DEF Same
  <2>. QED
    BY <1>1, <2>1, SameKept
<1>11. HeldText' = HeldText /\ HeldByEnders \subseteq HeldByEnders' \cup Held(ending[p].rec)
  <2>1. ASSUME NEW m \in HeldByEnders, m \notin Held(ending[p].rec) PROVE m \in HeldByEnders'
    <3>1. PICK q \in Ender : ending[q].step = "push" /\ m \in Held(ending[q].rec)
      BY <2>1 DEF HeldByEnders
    <3>2. ending'[q] = ending[q]
      BY <1>5, <2>1, <3>1
    <3>. QED
      BY <3>1, <3>2 DEF HeldByEnders
  <2>. QED
    BY <1>2, <2>1 DEF HeldText
<1>12. Ordered' /\ QueueAccounted' /\ NothingVanishes'
  <2>1. pieces \in Nat /\ texts' = texts /\ pieces' = pieces
    BY <1>1, <1>2 DEF Typed
  <2>. HIDE DEF v
  <2>. QED
    BY <1>1, <1>2, <1>3, <1>11, <2>1, FillKept
<1>. QED
  BY <1>6, <1>8, <1>9, <1>10, <1>12 DEF Books

LEMMA OutputStep == ASSUME Books, NEW o \in Obj, NEW g \in Gen, Output(o, g) PROVE Books'
<1>1. Typed /\ Inside /\ Vacant /\ Kept /\ Ordered /\ QueueAccounted /\ NothingVanishes
  BY DEF Books
<1>2. CASE Drop(o)
  BY <1>2, DropStep DEF Output
<1>3. CASE ~Drop(o)
  <2>1. PICK n : n = pieces + 1
    OBVIOUS
  <2>0. pieces \in Nat /\ n \in Nat
    BY <1>1, <2>1 DEF Typed
  <2>2. /\ rec[o] \in RecType /\ pieces' = n
        /\ UNCHANGED <<sessionVars, rows, ending, ui, storeVars, adrift>>
        /\ \E t \in Transcribe(rec[o], n) :
             /\ Fills({<<"chunk", n>>} \cup Texts(t.window), n)
             /\ rec' = [rec EXCEPT ![o] = t.rec]
             /\ texts' = IF t.text THEN texts \cup {n} ELSE texts
    BY <1>1, <1>3, <2>1, OutputFills
  <2>3. PICK t \in Transcribe(rec[o], n) :
             /\ Fills({<<"chunk", n>>} \cup Texts(t.window), n)
             /\ rec' = [rec EXCEPT ![o] = t.rec]
             /\ texts' = IF t.text THEN texts \cup {n} ELSE texts
    BY <2>2
  <2>. DEFINE new == {<<"chunk", n>>} \cup Texts(t.window)
  <2>4. /\ t.rec \in RecType /\ t.rec.row = rec[o].row
        /\ Parts(rec[o]) \subseteq Parts(t.rec) \cup {t.window[j] : j \in DOMAIN t.window}
        /\ t.text => n \in Parts(t.rec) \cup {t.window[j] : j \in DOMAIN t.window}
    BY <2>0, <2>2, Transcribed
  <2>5. /\ Held(rec[o]) \subseteq Held(t.rec) \cup new
        /\ t.text => <<"text", n>> \in Held(t.rec) \cup new
    <3>1. Held(rec[o]) = {<<"text", x>> : x \in Parts(rec[o])} /\ Held(t.rec) = {<<"text", x>> : x \in Parts(t.rec)}
      BY <2>2, <2>4, HeldParts
    <3>. QED
      BY <2>4, <3>1 DEF Texts
  <2>6. rec[o] # NoRec /\ t.rec # NoRec
    BY <2>2, <2>4, RecordingAssumption DEF RecordingAssumption, RecType
  <2>7. /\ rec' \in [Obj -> RecType \cup {NoRec}] /\ rec'[o] = t.rec
        /\ \A q \in Obj : q # o => rec'[q] = rec[q]
    BY <1>1, <2>3, <2>4 DEF Typed
  <2>8. texts' \subseteq 1 .. pieces' /\ queue' \in Seq(ItemType) /\ qbytes' \in Nat
    BY <1>1, <2>0, <2>1, <2>2, <2>3 DEF Typed, Fills, Filled
  <2>. HIDE DEF new
  <2>9. Typed'
    BY <1>1, <2>0, <2>2, <2>7, <2>8 DEF Typed, sessionVars, storeVars
  <2>10. Inside' /\ Vacant'
    BY <1>1, <2>2, <2>6, <2>7, InsideStill, VacantKept DEF sessionVars
  <2>11. Kept'
    <3>1. Same
      BY <2>2, <2>4, <2>6, <2>7 DEF Same
    <3>. QED
      BY <1>1, <3>1, SameKept
  <2>12. HeldText \cup HeldByEnders \subseteq HeldText' \cup HeldByEnders' \cup new
    <3>1. HeldByEnders' = HeldByEnders
      BY <2>2 DEF HeldByEnders
    <3>2. Held(t.rec) \subseteq HeldText'
      BY <2>7 DEF HeldText
    <3>3. \A q \in Obj : q # o => Held(rec[q]) \subseteq HeldText'
      BY <2>7 DEF HeldText
    <3>4. \A m \in HeldText : \E q \in Obj : m \in Held(rec[q])
      BY DEF HeldText
    <3>. QED
      BY <2>5, <3>1, <3>2, <3>3, <3>4
  <2>13. \A x \in texts' \ texts : x = n /\ <<"text", n>> \in new \cup HeldText'
    <3>1. Held(t.rec) \subseteq HeldText'
      BY <2>7 DEF HeldText
    <3>. QED
      BY <2>3, <2>5, <3>1
  <2>14. Fills(new, n) /\ <<"chunk", n>> \in new
    BY <2>3 DEF new
  <2>15. Ordered' /\ QueueAccounted' /\ NothingVanishes'
    BY <1>1, <2>0, <2>1, <2>2, <2>12, <2>13, <2>14, FillKept
  <2>. QED
    BY <2>9, <2>10, <2>11, <2>15 DEF Books
<1>. QED
  BY <1>2, <1>3
-----------------------------------------------------------------------------
(* The flushers.                                                           *)

LEMMA InOrderConcat ==
  ASSUME NEW s \in Seq(ItemType), NEW t \in Seq(ItemType)
  PROVE  /\ InOrder(s) /\ InOrder(t) /\ Before(s, t) => InOrder(s \o t)
         /\ \A u : Before(s, u) /\ Before(t, u) => Before(s \o t, u)
         /\ \A n : /\ \A i \in DOMAIN s : IsChunk(s[i]) => s[i].ns[1] \in 1 .. n
                   /\ \A i \in DOMAIN t : IsChunk(t[i]) => t[i].ns[1] \in 1 .. n
                   => \A i \in DOMAIN (s \o t) : IsChunk((s \o t)[i]) => (s \o t)[i].ns[1] \in 1 .. n
<1>1. /\ Len(s) \in Nat /\ Len(t) \in Nat /\ DOMAIN (s \o t) = 1 .. Len(s) + Len(t)
      /\ DOMAIN s = 1 .. Len(s) /\ DOMAIN t = 1 .. Len(t)
      /\ \A i \in 1 .. Len(s) : (s \o t)[i] = s[i]
      /\ \A i \in 1 .. Len(t) : (s \o t)[Len(s) + i] = t[i]
  OBVIOUS
<1>2. \A i \in DOMAIN (s \o t) : \/ i \in DOMAIN s /\ (s \o t)[i] = s[i]
                                 \/ /\ i > Len(s) /\ i - Len(s) \in DOMAIN t
                                    /\ (s \o t)[i] = t[i - Len(s)]
  <2>1. TAKE i \in DOMAIN (s \o t)
  <2>2. CASE i \in 1 .. Len(s)
    BY <1>1, <2>2
  <2>3. CASE i \notin 1 .. Len(s)
    <3>1. i - Len(s) \in 1 .. Len(t) /\ Len(s) + (i - Len(s)) = i /\ i > Len(s)
      BY <1>1, <2>3
    <3>. QED
      BY <1>1, <3>1
  <2>. QED
    BY <2>2, <2>3
<1>. DEFINE c == s \o t
<1>3. DOMAIN c \subseteq Nat /\ DOMAIN s = 1 .. Len(s)
  BY <1>1
<1>4. \A i \in DOMAIN c : \/ i \in DOMAIN s /\ c[i] = s[i]
                          \/ i > Len(s) /\ i - Len(s) \in DOMAIN t /\ c[i] = t[i - Len(s)]
  BY <1>2
<1>. HIDE DEF c
<1>5. ASSUME InOrder(s), InOrder(t), Before(s, t) PROVE InOrder(c)
  <2>. SUFFICES ASSUME NEW i \in DOMAIN c, NEW j \in DOMAIN c, i < j, IsChunk(c[i]), IsChunk(c[j])
                PROVE  c[i].ns[1] < c[j].ns[1]
    BY DEF InOrder
  <2>0. Len(s) \in Nat /\ i \in Nat /\ j \in Nat
    BY <1>1, <1>3
  <2>1. CASE i \in DOMAIN s /\ c[i] = s[i] /\ j \in DOMAIN s /\ c[j] = s[j]
    BY <1>5, <2>1 DEF InOrder
  <2>2. CASE i \in DOMAIN s /\ c[i] = s[i] /\ j - Len(s) \in DOMAIN t /\ c[j] = t[j - Len(s)]
    BY <1>5, <2>2 DEF Before
  <2>3. CASE i - Len(s) \in DOMAIN t /\ c[i] = t[i - Len(s)] /\ j - Len(s) \in DOMAIN t /\ c[j] = t[j - Len(s)]
    <3>1. i - Len(s) < j - Len(s)
      BY <2>0
    <3>. QED
      BY <1>5, <2>3, <3>1 DEF InOrder
  <2>4. CASE i > Len(s) /\ j \in DOMAIN s
    BY <1>3, <2>0, <2>4
  <2>. QED
    BY <1>4, <2>1, <2>2, <2>3, <2>4
<1>6. ASSUME NEW u, Before(s, u), Before(t, u) PROVE Before(c, u)
  BY <1>4, <1>6 DEF Before
<1>7. ASSUME NEW n, \A i \in DOMAIN s : IsChunk(s[i]) => s[i].ns[1] \in 1 .. n,
             \A i \in DOMAIN t : IsChunk(t[i]) => t[i].ns[1] \in 1 .. n
      PROVE  \A i \in DOMAIN c : IsChunk(c[i]) => c[i].ns[1] \in 1 .. n
  BY <1>4, <1>7
<1>. QED
  BY <1>5, <1>6, <1>7 DEF c

LEMMA Empty ==
  /\ InOrder(<<>>) /\ Captured(<<>>)' /\ \A s : Before(s, <<>>) /\ Before(<<>>, s)
  /\ Marks(<<>>) = {} /\ Accounted(<<>>, 0)
<1>1. InOrder(<<>>) /\ Captured(<<>>)' /\ \A s : Before(s, <<>>) /\ Before(<<>>, s)
  BY DEF InOrder, Captured, Before
<1>2. Marks(<<>>) = {}
  BY DEF Marks
<1>3. Accounted(<<>>, 0)
  <2>. DEFINE total == [k \in 0 .. 0 |-> 0]
  <2>1. total \in [0 .. 0 -> 0 .. QueueCap] /\ total[0] = 0
    BY RecordingAssumption DEF RecordingAssumption
  <2>. HIDE DEF total
  <2>2. Len(<<>>) = 0
    OBVIOUS
  <2>. QED
    BY <2>1, <2>2 DEF Accounted
<1>. QED
  BY <1>1, <1>2, <1>3

(* Neither flusher's step touches a recorder or a row.                     *)
OnlyFlushes ==
  /\ UNCHANGED <<gen, worker, rec, rows, ending, adrift, pieces, texts>>
  /\ Inside' /\ Vacant'

LEMMA TakeKept ==
  ASSUME Books, NEW f \in Flusher, FlushTake(f), OnlyFlushes, UNCHANGED <<db, lost>>
  PROVE  Books'
<1>1. Typed /\ Kept /\ Ordered /\ NothingVanishes
  BY DEF Books
<1>2. /\ \A h \in Flusher : batch[h] = <<>>
      /\ batch' = [batch EXCEPT ![f] = queue] /\ queue' = <<>> /\ qbytes' = 0
      /\ db' = db /\ lost' = lost /\ pieces' = pieces /\ texts' = texts
      /\ UNCHANGED <<gen, worker, rec, rows, ending, adrift>>
  BY DEF FlushTake, OnlyFlushes
<1>3. /\ queue \in Seq(ItemType) /\ batch \in [Flusher -> Seq(ItemType)] /\ <<>> \in Seq(ItemType)
  BY <1>1 DEF Typed
<1>4. /\ batch' \in [Flusher -> Seq(ItemType)] /\ batch'[f] = queue
      /\ \A h \in Flusher : h # f => batch'[h] = <<>>
  BY <1>2, <1>3
<1>5. Typed'
  BY <1>1, <1>2, <1>3, <1>4 DEF Typed
<1>6. Kept'
  BY <1>1, <1>2, SameKept DEF Same
<1>7. Ordered'
  <2>1. /\ InOrder(db) /\ InOrder(queue) /\ Before(db, queue) /\ Captured(db)'
        /\ \A i \in DOMAIN queue : IsChunk(queue[i]) => queue[i].ns[1] \in 1 .. pieces'
    BY <1>1, <1>2 DEF Ordered, Captured
  <2>2. \A h \in Flusher : Captured(batch[h])'
    BY <1>4, <2>1 DEF Captured
  <2>3. \A h \in Flusher : InOrder(batch'[h]) /\ Before(db', batch'[h]) /\ Before(batch'[h], queue')
    BY <1>2, <1>4, <2>1, Empty
  <2>4. \A g, h \in Flusher : g # h => batch'[g] = <<>> \/ batch'[h] = <<>>
    BY <1>4
  <2>5. Captured(queue)'
    BY <1>2 DEF Captured
  <2>. QED
    BY <1>2, <2>1, <2>2, <2>3, <2>4, <2>5, Empty DEF Ordered
<1>8. QueueAccounted'
  BY <1>2, Empty DEF QueueAccounted, Accounted
<1>9. NothingVanishes'
  <2>1. Marks(queue) \subseteq UnderWay'
    BY <1>4 DEF UnderWay
  <2>2. UnderWay \subseteq UnderWay'
    BY <1>2, <2>1, Empty DEF UnderWay
  <2>3. HeldText' = HeldText /\ HeldByEnders' = HeldByEnders
    BY <1>2 DEF HeldText, HeldByEnders
  <2>. QED
    BY <1>1, <1>2, <2>2, <2>3 DEF NothingVanishes
<1>. QED
  BY <1>5, <1>6, <1>7, <1>8, <1>9 DEF Books, OnlyFlushes

LEMMA CommitKept ==
  ASSUME Books, NEW f \in Flusher, FlushCommit(f), OnlyFlushes, UNCHANGED queueVars
  PROVE  Books'
<1>1. Typed /\ Kept /\ Ordered /\ QueueAccounted /\ NothingVanishes
  BY DEF Books
<1>2. /\ batch[f] # <<>> /\ batch' = [batch EXCEPT ![f] = <<>>]
      /\ queue' = queue /\ qbytes' = qbytes /\ pieces' = pieces /\ texts' = texts
      /\ UNCHANGED <<gen, worker, rec, rows, ending, adrift>>
      /\ \/ db' = db \o batch[f] /\ lost' = lost
         \/ lost' = lost \cup Marks(batch[f]) /\ db' = db
  BY DEF FlushCommit, OnlyFlushes, queueVars
<1>3. db \in Seq(ItemType) /\ batch \in [Flusher -> Seq(ItemType)] /\ <<>> \in Seq(ItemType)
  BY <1>1 DEF Typed
<1>4. /\ batch' \in [Flusher -> Seq(ItemType)] /\ batch'[f] = <<>> /\ batch[f] \in Seq(ItemType)
      /\ \A h \in Flusher : h # f => batch'[h] = batch[h] /\ batch[h] = <<>>
  BY <1>1, <1>2, <1>3 DEF Ordered
<1>5. db' \in Seq(ItemType)
  <2>1. \A b \in Seq(ItemType) : db \o b \in Seq(ItemType)
    BY <1>3
  <2>. QED
    BY <1>2, <1>3, <1>4, <2>1
<1>6. Typed'
  BY <1>1, <1>2, <1>4, <1>5 DEF Typed
<1>7. Kept'
  BY <1>1, <1>2, SameKept DEF Same
<1>8. Ordered'
  <2>1. /\ InOrder(db) /\ InOrder(queue) /\ InOrder(batch[f]) /\ Before(db, queue) /\ Before(db, batch[f]) /\ Before(batch[f], queue)
    BY <1>1 DEF Ordered
  <2>2. /\ \A i \in DOMAIN db : IsChunk(db[i]) => db[i].ns[1] \in 1 .. pieces'
        /\ \A i \in DOMAIN batch[f] : IsChunk(batch[f][i]) => batch[f][i].ns[1] \in 1 .. pieces'
        /\ Captured(queue)'
    BY <1>1, <1>2 DEF Ordered, Captured
  <2>3. InOrder(db') /\ Before(db', queue') /\ Captured(db)'
    <3>1. CASE db' = db
      BY <1>2, <2>1, <2>2, <3>1 DEF Captured
    <3>2. CASE db' = db \o batch[f]
      <4>1. InOrder(db') /\ Before(db', queue)
        BY <1>3, <1>4, <2>1, <3>2, InOrderConcat
      <4>2. \A i \in DOMAIN db' : IsChunk(db'[i]) => db'[i].ns[1] \in 1 .. pieces'
        BY <1>3, <1>4, <2>2, <3>2, InOrderConcat
      <4>. QED
        BY <1>2, <4>1, <4>2 DEF Captured
    <3>. QED
      BY <1>2, <3>1, <3>2
  <2>4. \A h \in Flusher : batch'[h] = <<>>
    BY <1>4
  <2>5. \A h \in Flusher : Captured(batch[h])'
    BY <2>4 DEF Captured
  <2>. QED
    BY <1>2, <2>1, <2>2, <2>3, <2>4, <2>5, Empty DEF Ordered
<1>9. QueueAccounted'
  BY <1>1, <1>2 DEF QueueAccounted
<1>10. NothingVanishes'
  <2>1. Marks(db) \subseteq Marks(db') /\ lost \subseteq lost' /\ Marks(batch[f]) \subseteq Marks(db') \cup lost'
    <3>1. Marks(db \o batch[f]) = Marks(db) \cup Marks(batch[f])
      BY <1>3, <1>4, MarksConcat
    <3>. QED
      BY <1>2, <3>1
  <2>2. UnderWay \subseteq UnderWay' \cup Marks(batch[f])
    <3>1. ASSUME NEW h \in Flusher PROVE Marks(batch[h]) \subseteq Marks(batch[f])
      BY <1>4, Empty
    <3>. QED
      BY <1>2, <3>1 DEF UnderWay
  <2>3. HeldText' = HeldText /\ HeldByEnders' = HeldByEnders
    BY <1>2 DEF HeldText, HeldByEnders
  <2>. QED
    BY <1>1, <1>2, <2>1, <2>2, <2>3 DEF NothingVanishes
<1>. QED
  BY <1>6, <1>7, <1>8, <1>9, <1>10 DEF Books, OnlyFlushes

LEMMA FlushSteps == ASSUME Books, After, FlusherThread \/ UiFlush \/ UiCommit PROVE Books'
<1>0. Inside /\ Vacant /\ "ui" \in Flusher /\ "thread" \in Flusher
  BY DEF Books, Flusher
<1>1. CASE FlusherThread
  <2>1. UNCHANGED <<gen, worker, rec, rows, ending, adrift, pieces, texts, ui>>
    BY <1>1 DEF FlusherThread, FlusherTake, FlusherCommit, sessionVars
  <2>2. OnlyFlushes
    BY <1>0, <2>1, InsideStill, VacantKept DEF OnlyFlushes
  <2>. QED
    BY <1>0, <1>1, <2>2, TakeKept, CommitKept DEF FlusherThread, FlusherTake, FlusherCommit
<1>2. CASE UiFlush \/ UiCommit
  <2>1. /\ UNCHANGED <<gen, worker, rec, rows, ending, adrift, pieces, texts>> /\ ending[Ui].step = "none"
        /\ ui.op \in {"flush", "commit"} /\ ui'.op \in {"commit", "idle", "down"}
    BY <1>2 DEF UiFlush, UiCommit, At, Free, sessionVars, Calls, After
  <2>2. Inside'
    BY <1>0, <2>1 DEF Inside
  <2>3. Vacant'
    BY <2>1 DEF Vacant
  <2>4. OnlyFlushes
    BY <2>1, <2>2, <2>3 DEF OnlyFlushes
  <2>5. CASE UiFlush
    BY <1>0, <2>4, <2>5, TakeKept DEF UiFlush
  <2>6. CASE UiCommit /\ FlushCommit("ui")
    BY <1>0, <2>4, <2>6, CommitKept DEF UiCommit
  <2>7. CASE UiCommit /\ UNCHANGED <<storeVars, lost>>
    <3>1. /\ Quiet /\ gen' \in [Obj -> Nat] /\ worker' \in [Obj -> [Gen -> Places]]
      BY <2>1, <2>7 DEF UiCommit, Quiet, Books, Typed
    <3>. QED
      BY <2>1, <2>2, <2>3, <3>1, QuietStep
  <2>. QED
    BY <1>2, <2>5, <2>6, <2>7 DEF UiCommit
<1>. QED
  BY <1>1, <1>2

-----------------------------------------------------------------------------
LEMMA BooksInitial == Init => Books
<1>. SUFFICES ASSUME Init PROVE Books
  OBVIOUS
<1>1. /\ gen = [o \in Obj |-> 0] /\ worker = [o \in Obj |-> [g \in Gen |-> "none"]]
      /\ rec = [o \in Obj |-> NoRec] /\ rows = <<>> /\ ending = [p \in Ender |-> NotEnding]
      /\ ui.op = "idle" /\ queue = <<>> /\ qbytes = 0 /\ batch = [f \in Flusher |-> <<>>] /\ db = <<>>
      /\ pieces = 0 /\ texts = {} /\ adrift = {}
  BY DEF Init, Idle
<1>2. NotEnding \in EndType /\ NotEnding.step = "none" /\ NotEnding.rec = NoRec
  BY DEF NotEnding, EndType
<1>3. Typed
  <2>1. "none" \in Places /\ \A S : <<>> \in Seq(S)
    BY DEF Places
  <2>. QED
    BY <1>1, <1>2, <2>1 DEF Typed
<1>4. Inside
  BY <1>1, <1>2, Enders DEF Inside
<1>5. Vacant
  BY <1>1 DEF Vacant
<1>6. Kept
  BY <1>1, <1>2 DEF Kept, Finishes
<1>7. Ordered
  BY <1>1 DEF Ordered, InOrder, Before, Captured
<1>8. QueueAccounted
  BY <1>1, Empty DEF QueueAccounted, Accounted
<1>9. NothingVanishes
  BY <1>1 DEF NothingVanishes
<1>. QED
  BY <1>3, <1>4, <1>5, <1>6, <1>7, <1>8, <1>9 DEF Books

LEMMA BooksInductive == ASSUME Books, After, [Next]_vars PROVE Books'
<1>1. CASE FlusherThread \/ UiFlush \/ UiCommit
  BY <1>1, FlushSteps
<1>2. ASSUME NEW p \in Ender, EndStep(p) PROVE Books'
  BY <1>2, TakeStep, PushStep, CloseStep DEF EndStep
<1>3. ASSUME NEW o \in Obj, NEW g \in Gen, Worker(o, g) PROVE Books'
  BY <1>2, <1>3, WorkerMoves, OutputStep, Enders DEF Worker
<1>4. ASSUME NEW o \in Obj, Input(o) PROVE Books'
  BY <1>4, InputStep
<1>5. ASSUME NEW o \in Obj, ConnectStart(o) \/ EnableAttach(o) PROVE Books'
  BY <1>5, StartSteps
<1>6. CASE \/ \E o \in Obj : Connect(o) \/ ConnectSpawn(o) \/ Abandon(o) \/ EnableCheck(o) \/ DisableVisit(o) \/ ShutdownVisit(o)
           \/ \E on \in BOOLEAN : SetEnabled(on)
           \/ Shutdown \/ Visited
  BY <1>6, UiMoves
<1>7. CASE UNCHANGED vars
  <2>1. /\ UNCHANGED <<gen, worker, rec, rows, ending, adrift, ui>> /\ Quiet
    BY <1>7 DEF vars, Quiet, queueVars, storeVars
  <2>2. Inside' /\ Vacant' /\ gen' \in [Obj -> Nat] /\ worker' \in [Obj -> [Gen -> Places]]
    BY <2>1, InsideStill, VacantKept DEF Books, Typed
  <2>. QED
    BY <2>1, <2>2, QuietStep
<1>. QED
  BY <1>1, <1>2, <1>3, <1>4, <1>5, <1>6, <1>7, Enders DEF Next, UiCall, UiContinue

LEMMA BooksHold == Spec => [](Books /\ IInv)
<1>1. IInv => After
  BY DEF IInv
<1>. QED
  BY <1>1, Initial, Inductive, BooksInitial, BooksInductive, PTL DEF Spec
(* Each open row of the sessions table is closed by one recorder, which    *)
(* nobody else has (record.rs:341, 528): that is so of every session that  *)
(* is connected again, turned off, abandoned or replaced meanwhile.        *)
THEOREM OpenRowsKept == Spec => []OpenRowsAreKept
<1>1. ASSUME Books PROVE OpenRowsAreKept
  <2>. SUFFICES ASSUME NEW r \in DOMAIN rows
                PROVE  Cardinality(KeepersOf(r)) = IF rows[r].closed \/ r \in adrift THEN 0 ELSE 1
    BY DEF OpenRowsAreKept
  <2>. DEFINE Keeps(k) == \/ \E o \in Obj : k = <<o, 0>> /\ Attaches(o, r) /\ rows[r].obj = o
                          \/ k \in Ender /\ Finishes(k, r) /\ rows[r].obj = ending[k].obj
  <2>1. \A k : k \in KeepersOf(r) <=> Keeps(k)
    BY DEF KeepersOf, Attaches, Finishes
  <2>2. Typed /\ Kept
    BY <1>1 DEF Books
  <2>3. \A o \in Obj : Attaches(o, r) => Open(r) /\ rows[r].obj = o
    BY <2>2 DEF Kept, Attaches
  <2>4. \A p \in Ender : Finishes(p, r) => /\ Open(r) /\ rows[r].obj = ending[p].obj
                                           /\ \A o \in Obj : ~Attaches(o, r)
                                           /\ \A q \in Ender : Finishes(q, r) => q = p
    BY <2>2 DEF Kept, Finishes
  <2>5. CASE ~Open(r)
    <3>1. KeepersOf(r) = {}
      BY <2>1, <2>3, <2>4, <2>5
    <3>2. rows[r].closed \/ r \in adrift
      BY <2>5 DEF Open
    <3>. QED
      BY <3>1, <3>2, FS_EmptySet
  <2>6. CASE Open(r)
    <3>1. ~(rows[r].closed \/ r \in adrift)
      BY <2>6 DEF Open
    <3>2. \E k : KeepersOf(r) = {k}
      <4>1. CASE \E o \in Obj : Attaches(o, r)
        <5>1. PICK o \in Obj : Attaches(o, r)
          BY <4>1
        <5>2. \A k : Keeps(k) <=> k = <<o, 0>>
          <6>1. rows[r].obj = o /\ \A q \in Obj : Attaches(q, r) => q = o
            BY <2>3, <5>1
          <6>2. \A p \in Ender : ~Finishes(p, r)
            BY <2>4, <5>1
          <6>. QED
            BY <5>1, <6>1, <6>2
        <5>. HIDE DEF Keeps
        <5>3. KeepersOf(r) = {<<o, 0>>}
          BY <2>1, <5>2
        <5>. QED
          BY <5>3
      <4>2. CASE ~\E o \in Obj : Attaches(o, r)
        <5>1. PICK p \in Ender : Finishes(p, r)
          BY <2>2, <2>6, <4>2 DEF Kept
        <5>2. \A k : Keeps(k) <=> k = p
          BY <2>4, <4>2, <5>1
        <5>. QED
          BY <2>1, <5>2
      <4>. QED
        BY <4>1, <4>2
    <3>3. Cardinality(KeepersOf(r)) = 1
      BY <3>2, FS_Singleton
    <3>. QED
      BY <3>1, <3>3
  <2>. QED
    BY <2>5, <2>6
<1>. QED
  BY <1>1, BooksHold, PTL

(* The byte count that bounds the queue is what is queued, whoever pushes  *)
(* and whichever thread takes it (record.rs:288, 365).                     *)
THEOREM QueueIsAccounted == Spec => []QueueAccounted
<1>1. Books => QueueAccounted
  BY DEF Books
<1>. QED
  BY <1>1, BooksHold, PTL

(* Nothing captured vanishes without having been given up: through the     *)
(* recorder, its last window, the queue and the batch, to the database     *)
(* (record.rs:290, 373, 601).                                              *)
THEOREM NothingIsLost == Spec => []NothingVanishes
<1>1. Books => NothingVanishes
  BY DEF Books
<1>. QED
  BY <1>1, BooksHold, PTL

(* Two threads flush and the chunks are still committed in the order of    *)
(* their capture (record.rs:364, 803).                                     *)
THEOREM CommitsInOrder == Spec => []CommittedInOrder
<1>1. Books => CommittedInOrder
  BY DEF Books, Ordered, InOrder, IsChunk, CommittedInOrder
<1>. QED
  BY <1>1, BooksHold, PTL
=============================================================================

----------------------------- MODULE Mcp_proofs -----------------------------
(***************************************************************************)
(* Proofs about module Mcp, for any connections, servers, permits, inbox   *)
(* and requests.                                                           *)
(***************************************************************************)
EXTENDS Mcp, TLAPS

Connection == [at : At, server : Int, late : BOOLEAN, key : Keys, clear : BOOLEAN, calls : Seq(Tool)]

Typed == conn \in [Conns -> Connection] /\ by \in Seq(Conns) /\ token \in Keys

(* Once a server was started the stored token is of the new format, and    *)
(* there is no connection before.                                          *)
Renewed == starts > 0 => token = "random"

NobodyBefore ==
  /\ starts \in Nat
  /\ \A s \in Server : listener[s] # "none" => starts > 0
  /\ \A c \in Conns : conn[c].at # "none" => starts > 0

(* What a connection has shown when it is where it is.                     *)
Shown(c) ==
  /\ conn[c].at \in {"body", "read", "calls"} => conn[c].key = "random"
  /\ conn[c].at = "calls" => conn[c].clear

(* Who has sent an item is carrying out its calls, or has ended.           *)
Sender(c) == conn[c].at \in {"calls", "gone"} /\ conn[c].key = "random" /\ conn[c].clear

IInv ==
  /\ Typed /\ Renewed /\ NobodyBefore
  /\ \A c \in Conns : Shown(c)
  /\ \A n \in 1 .. Len(by) : Sender(by[n])

LEMMA Initial == Init => IInv
<1>. SUFFICES ASSUME Init PROVE IInv
  OBVIOUS
<1>1. Nobody \in Connection /\ Nobody.at = "none"
  BY DEF Nobody, Connection, At, Keys
<1>2. conn = [c \in Conns |-> Nobody] /\ by = <<>> /\ starts = 0 /\ listener = [s \in Server |-> "none"]
  BY DEF Init
<1>3. Typed /\ \A c \in Conns : conn[c].at = "none"
  BY <1>1, <1>2 DEF Typed, Init
<1>4. Renewed /\ NobodyBefore
  BY <1>2, <1>3 DEF Renewed, NobodyBefore
<1>. QED
  BY <1>2, <1>3, <1>4 DEF IInv, Shown

(* A step that changes the entry of one connection, which then shows no    *)
(* less than before.                                                       *)
LEMMA OneMoves ==
  ASSUME IInv, NEW c \in Conns, NEW v \in Connection, conn' = [conn EXCEPT ![c] = v],
         token' = token, starts' = starts, by' = by,
         listener' = listener \/ \E s \in Server : \E to : listener' = [listener EXCEPT ![s] = to] /\ listener[s] # "none",
         starts > 0,
         v.at \in {"body", "read", "calls"} => v.key = "random",
         v.at = "calls" => v.clear,
         Sender(c) => v.at \in {"calls", "gone"} /\ v.key = "random" /\ v.clear
  PROVE  IInv'
<1>1. /\ conn' \in [Conns -> Connection] /\ conn'[c] = v
      /\ \A d \in Conns \ {c} : conn'[d] = conn[d]
  BY DEF IInv, Typed
<1>2. Typed' /\ Renewed'
  BY <1>1 DEF IInv, Typed, Renewed
<1>3. NobodyBefore'
  BY <1>1 DEF IInv, NobodyBefore
<1>4. ASSUME NEW d \in Conns PROVE Shown(d)'
  BY <1>1 DEF IInv, Shown
<1>5. ASSUME NEW n \in 1 .. Len(by) PROVE Sender(by[n])'
  <2>1. by[n] \in Conns /\ Sender(by[n])
    BY <1>5 DEF IInv, Typed
  <2>. QED
    BY <1>1, <2>1 DEF Sender
<1>. QED
  BY <1>2, <1>3, <1>4, <1>5 DEF IInv

(* A step that leaves connections and items alone.                         *)
LEMMA NothingMoves ==
  ASSUME IInv, UNCHANGED <<conn, by>>, starts' \in Nat, starts' >= starts,
         token' \in Keys, starts' > 0 => token' = "random",
         \A s \in Server : listener'[s] # "none" => listener[s] # "none" \/ starts' > 0
  PROVE  IInv'
<1>1. NobodyBefore' /\ Renewed' /\ Typed'
  BY DEF IInv, NobodyBefore, Renewed, Typed
<1>. QED
  BY <1>1 DEF IInv, Shown, Sender

LEMMA InterfaceStep == ASSUME IInv, Start \/ Stop \/ Joined \/ TakeInbox PROVE IInv'
<1>1. Typed /\ Renewed /\ NobodyBefore
  BY DEF IInv
<1>2. CASE Start
  <2>1. token' = "random"
    BY <1>1, <1>2 DEF Start, TokenForStart, Typed, Keys
  <2>2. UNCHANGED <<conn, by>> /\ starts' \in Nat /\ starts' >= starts
    BY <1>1, <1>2 DEF Start, inboxVars, NobodyBefore
  <2>3. \A s \in Server : listener'[s] # "none" => listener[s] # "none" \/ starts' > 0
    BY <1>1, <1>2 DEF Start, NobodyBefore
  <2>. QED
    BY <2>1, <2>2, <2>3, NothingMoves DEF Keys
<1>3. CASE Stop \/ Joined \/ TakeInbox
  <2>1. UNCHANGED <<conn, by, starts, token, listener>>
    BY <1>3 DEF Stop, Joined, TakeInbox, inboxVars, serverVars
  <2>. QED
    BY <1>1, <2>1, NothingMoves DEF Typed, Renewed, NobodyBefore
<1>. QED
  BY <1>2, <1>3

(* A connection is there only when a server was.                           *)
LEMMA Alive == ASSUME IInv, NEW c \in Conns, conn[c].at # "none" PROVE starts > 0 /\ conn[c] \in Connection
  BY DEF IInv, NobodyBefore, Typed

LEMMA KnockStep == ASSUME IInv, NEW c \in Conns, Knock(c) PROVE IInv'
<1>1. PICK s \in Server : /\ listener[s] \in {"top", "accept"}
                          /\ conn' = [conn EXCEPT ![c] = [Nobody EXCEPT !.at = "waiting", !.server = s]]
  BY DEF Knock
<1>. DEFINE v == [Nobody EXCEPT !.at = "waiting", !.server = s]
<1>2. v \in Connection /\ v.at = "waiting"
  <2>1. Nobody \in Connection
    BY DEF Nobody, Connection, At, Keys
  <2>2. s \in Int /\ "waiting" \in At
    BY DEF Server, At
  <2>. HIDE DEF Nobody, At
  <2>. QED
    BY <2>1, <2>2 DEF Connection
<1>3. conn' = [conn EXCEPT ![c] = v]
  BY <1>1
<1>4. UNCHANGED <<token, starts, by, listener>> /\ conn[c].at = "none"
  BY DEF Knock, serverVars, inboxVars
<1>5. starts > 0
  BY <1>1 DEF IInv, NobodyBefore
<1>6. ~Sender(c)
  BY <1>4 DEF Sender
<1>. HIDE DEF v
<1>. QED
  BY <1>2, <1>3, <1>4, <1>5, <1>6, OneMoves

(* A thread ends its connection, or takes it one step on.                  *)
LEMMA LeaveStep ==
  ASSUME IInv, NEW c \in Conns, conn[c].at # "none", Leave(c), UNCHANGED <<token, starts, by, listener>>
  PROVE  IInv'
<1>. DEFINE v == [conn[c] EXCEPT !.at = "gone", !.calls = <<>>]
<1>1. starts > 0 /\ conn[c] \in Connection /\ conn \in [Conns -> Connection]
  BY Alive DEF IInv, Typed
<1>2. v \in Connection /\ v.at = "gone" /\ v.key = conn[c].key /\ v.clear = conn[c].clear
  <2>1. <<>> \in Seq(Tool) /\ "gone" \in At
    BY DEF At
  <2>. QED
    BY <1>1, <2>1 DEF Connection
<1>3. conn' = [conn EXCEPT ![c] = v]
  BY <1>1 DEF Leave, Connection
<1>. HIDE DEF v
<1>. QED
  BY <1>1, <1>2, <1>3, OneMoves DEF Sender

LEMMA DeadlineStep == ASSUME IInv, NEW c \in Conns, Deadline(c) PROVE IInv'
<1>. DEFINE v == [conn[c] EXCEPT !.late = TRUE]
<1>1. conn[c].at \in {"head", "body"} /\ UNCHANGED <<token, starts, by, listener>>
  BY DEF Deadline, serverVars, inboxVars
<1>2. starts > 0 /\ conn[c] \in Connection /\ conn \in [Conns -> Connection] /\ Shown(c)
  BY <1>1, Alive DEF IInv, Typed
<1>3. v \in Connection /\ v.at = conn[c].at /\ v.key = conn[c].key /\ v.clear = conn[c].clear
  BY <1>2 DEF Connection
<1>4. conn' = [conn EXCEPT ![c] = v]
  BY <1>2 DEF Deadline, Connection
<1>. HIDE DEF v
<1>. QED
  BY <1>1, <1>2, <1>3, <1>4, OneMoves DEF Sender, Shown

(* A head that is let in names the token of now.                           *)
LEMMA ReadHeadStep == ASSUME IInv, NEW c \in Conns, ReadHead(c) PROVE IInv'
<1>1. conn[c].at = "head" /\ UNCHANGED <<token, starts, by, listener>>
  BY DEF ReadHead, serverVars, inboxVars
<1>2. /\ starts > 0 /\ conn[c] \in Connection /\ conn \in [Conns -> Connection]
      /\ token = "random"
  BY <1>1, Alive DEF IInv, Typed, Renewed
<1>3. CASE Leave(c)
  BY <1>1, <1>3, LeaveStep
<1>4. ASSUME NEW h \in Heads, Verdict(h) = "200", conn' = [conn EXCEPT ![c].at = "body", ![c].key = h.key]
      PROVE  IInv'
  <2>. DEFINE v == [conn[c] EXCEPT !.at = "body", !.key = h.key]
  <2>1. h.key = "random"
    BY <1>2, <1>4 DEF Verdict
  <2>2. v \in Connection /\ v.at = "body" /\ v.key = "random"
    BY <1>2, <2>1 DEF Connection, At, Keys
  <2>3. conn' = [conn EXCEPT ![c] = v]
    BY <1>2, <1>4 DEF Connection
  <2>4. ~Sender(c)
    BY <1>1 DEF Sender
  <2>. HIDE DEF v
  <2>. QED
    BY <1>1, <1>2, <2>2, <2>3, <2>4, OneMoves
<1>. QED
  BY <1>3, <1>4 DEF ReadHead

LEMMA ReadBodyStep == ASSUME IInv, NEW c \in Conns, ReadBody(c) PROVE IInv'
<1>1. conn[c].at = "body" /\ UNCHANGED <<token, starts, by, listener>>
  BY DEF ReadBody, serverVars, inboxVars
<1>2. /\ starts > 0 /\ conn[c] \in Connection /\ conn \in [Conns -> Connection] /\ conn[c].key = "random"
  BY <1>1, Alive DEF IInv, Typed, Shown
<1>3. PICK b \in Bodies : conn' = [conn EXCEPT ![c].at = "read", ![c].calls = b]
  BY DEF ReadBody
<1>. DEFINE v == [conn[c] EXCEPT !.at = "read", !.calls = b]
<1>4. b \in Seq(Tool)
  BY <1>3 DEF Bodies
<1>5. v \in Connection /\ v.at = "read" /\ v.key = "random"
  BY <1>2, <1>4 DEF Connection, At
<1>6. conn' = [conn EXCEPT ![c] = v]
  BY <1>2, <1>3 DEF Connection
<1>7. ~Sender(c)
  BY <1>1 DEF Sender
<1>. HIDE DEF v
<1>. QED
  BY <1>1, <1>2, <1>5, <1>6, <1>7, OneMoves

(* The last look at the flag.                                              *)
LEMMA ServeStep == ASSUME IInv, NEW c \in Conns, Serve(c) PROVE IInv'
<1>1. conn[c].at = "read" /\ UNCHANGED <<token, starts, by, listener>>
  BY DEF Serve, serverVars, inboxVars
<1>2. /\ starts > 0 /\ conn[c] \in Connection /\ conn \in [Conns -> Connection] /\ conn[c].key = "random"
  BY <1>1, Alive DEF IInv, Typed, Shown
<1>3. CASE Leave(c)
  BY <1>1, <1>3, LeaveStep
<1>4. CASE ~Stopped(c) /\ conn' = [conn EXCEPT ![c].at = "calls", ![c].clear = ~Stopped(c)]
  <2>. DEFINE v == [conn[c] EXCEPT !.at = "calls", !.clear = TRUE]
  <2>1. v \in Connection /\ v.at = "calls" /\ v.key = "random" /\ v.clear
    BY <1>2 DEF Connection, At
  <2>2. conn' = [conn EXCEPT ![c] = v]
    <3>1. ~Stopped(c) = TRUE
      BY <1>4
    <3>2. conn' = [conn EXCEPT ![c].at = "calls", ![c].clear = TRUE]
      BY <1>4, <3>1
    <3>. QED
      BY <1>2, <3>2 DEF Connection
  <2>. HIDE DEF v
  <2>. QED
    BY <1>1, <1>2, <2>1, <2>2, OneMoves
<1>. QED
  BY <1>3, <1>4 DEF Serve

(* Carrying out a call may send an item; the connection goes on.           *)
LEMMA CallStep == ASSUME IInv, NEW c \in Conns, Call(c) PROVE IInv'
<1>. DEFINE v == [conn[c] EXCEPT !.calls = Tail(@)]
<1>1. conn[c].at = "calls" /\ conn[c].calls # <<>> /\ UNCHANGED <<token, starts, listener>>
  BY DEF Call, serverVars
<1>2. /\ Typed /\ Renewed /\ NobodyBefore /\ conn[c] \in Connection /\ conn \in [Conns -> Connection]
      /\ conn[c].key = "random" /\ conn[c].clear /\ conn[c].calls \in Seq(Tool)
  BY <1>1 DEF IInv, Typed, Shown, Connection
<1>3. v \in Connection /\ v.at = "calls" /\ v.key = conn[c].key /\ v.clear = conn[c].clear
  <2>1. Tail(conn[c].calls) \in Seq(Tool)
    BY <1>1, <1>2
  <2>. QED
    BY <1>1, <1>2, <2>1 DEF Connection
<1>4. conn' = [conn EXCEPT ![c] = v]
  BY <1>2 DEF Call, Connection
<1>. HIDE DEF v
<1>5. /\ conn' \in [Conns -> Connection] /\ Sender(c)'
      /\ \A d \in Conns \ {c} : conn'[d] = conn[d]
  BY <1>2, <1>3, <1>4 DEF Sender
<1>6. by' \in Seq(Conns) /\ \A n \in 1 .. Len(by') : by'[n] = c \/ (n \in 1 .. Len(by) /\ by'[n] = by[n])
  <2>1. by' = by \/ by' = Append(by, c)
    BY DEF Call, PushInbox
  <2>. QED
    BY <1>2, <2>1 DEF Typed
<1>7. Typed' /\ Renewed' /\ NobodyBefore'
  BY <1>1, <1>2, <1>5, <1>6 DEF Typed, Renewed, NobodyBefore
<1>8. ASSUME NEW d \in Conns PROVE Shown(d)'
  BY <1>5 DEF IInv, Shown, Sender
<1>9. ASSUME NEW n \in 1 .. Len(by') PROVE Sender(by[n])'
  <2>1. CASE by'[n] = c
    BY <1>5, <2>1
  <2>2. CASE n \in 1 .. Len(by) /\ by'[n] = by[n] /\ by[n] # c
    <3>1. Sender(by[n]) /\ by[n] \in Conns
      BY <1>2, <2>2 DEF IInv, Typed
    <3>. QED
      BY <1>5, <2>2, <3>1 DEF Sender
  <2>. QED
    BY <1>6, <2>1, <2>2
<1>. QED
  BY <1>7, <1>8, <1>9 DEF IInv

LEMMA ConnectionStep ==
  ASSUME IInv, NEW c \in Conns,
         Knock(c) \/ Deadline(c) \/ HangUp(c) \/ ReadHead(c) \/ ReadBody(c) \/ Own(c)
  PROVE  IInv'
<1>1. CASE HangUp(c) \/ Break(c) \/ Respond(c)
  <2>1. conn[c].at # "none" /\ Leave(c) /\ UNCHANGED <<token, starts, by, listener>>
    BY <1>1 DEF HangUp, Break, Respond, serverVars, inboxVars
  <2>. QED
    BY <2>1, LeaveStep
<1>. QED
  BY <1>1, KnockStep, DeadlineStep, ReadHeadStep, ReadBodyStep, ServeStep, CallStep DEF Own

(* With a listener go the connections that wait for it.                    *)
LEMMA TopStep == ASSUME IInv, NEW s \in Server, Top(s) PROVE IInv'
<1>1. /\ Typed /\ Renewed /\ NobodyBefore /\ UNCHANGED <<token, starts, by>>
      /\ listener[s] = "top" /\ starts > 0
  BY DEF IInv, Top, serverVars, inboxVars, NobodyBefore
<1>2. \A t \in Server : listener'[t] # "none" => listener[t] # "none" \/ starts > 0
  BY <1>1
<1>3. CASE UNCHANGED conn
  BY <1>1, <1>2, <1>3, NothingMoves DEF Typed, Renewed, NobodyBefore
<1>4. CASE conn' = [c \in Conns |-> IF conn[c].at = "waiting" /\ conn[c].server = s
                                      THEN [conn[c] EXCEPT !.at = "gone"] ELSE conn[c]]
  <2>1. ASSUME NEW c \in Conns
        PROVE  /\ conn'[c] \in Connection
               /\ conn'[c] = conn[c] \/ (conn[c].at = "waiting" /\ conn'[c].at = "gone")
    <3>1. conn[c] \in Connection
      BY <1>1 DEF Typed
    <3>. QED
      BY <1>4, <3>1 DEF Connection, At
  <2>2. conn' \in [Conns -> Connection]
    BY <1>4, <2>1
  <2>3. Typed' /\ Renewed' /\ NobodyBefore'
    BY <1>1, <1>2, <2>2 DEF Typed, Renewed, NobodyBefore
  <2>4. \A c \in Conns : Shown(c)'
    BY <2>1 DEF IInv, Shown
  <2>5. ASSUME NEW n \in 1 .. Len(by) PROVE Sender(by[n])'
    <3>1. by[n] \in Conns /\ Sender(by[n])
      BY <1>1, <2>5 DEF IInv, Typed
    <3>. QED
      BY <1>1, <2>1, <3>1 DEF Sender
  <2>. QED
    BY <1>1, <2>3, <2>4, <2>5 DEF IInv
<1>. QED
  BY <1>3, <1>4 DEF Top

LEMMA AcceptStep == ASSUME IInv, NEW s \in Server, Accept(s) PROVE IInv'
<1>1. /\ Typed /\ Renewed /\ NobodyBefore /\ UNCHANGED <<token, starts, by>>
      /\ listener[s] = "accept" /\ starts > 0 /\ listener' = [listener EXCEPT ![s] = "top"]
  BY DEF IInv, Accept, serverVars, inboxVars, NobodyBefore
<1>2. CASE UNCHANGED conn
  BY <1>1, <1>2, NothingMoves DEF Typed, Renewed, NobodyBefore
<1>3. ASSUME NEW c \in Conns, conn[c].at = "waiting", Admit(c, s) PROVE IInv'
  <2>1. PICK to \in {"head", "gone"} : conn' = [conn EXCEPT ![c].at = to]
    BY <1>3 DEF Admit
  <2>. DEFINE v == [conn[c] EXCEPT !.at = to]
  <2>2. conn[c] \in Connection /\ conn \in [Conns -> Connection]
    BY <1>1 DEF Typed
  <2>3. v \in Connection /\ v.at = to
    BY <2>2 DEF Connection, At
  <2>4. conn' = [conn EXCEPT ![c] = v]
    BY <2>1, <2>2 DEF Connection
  <2>5. ~Sender(c)
    BY <1>3 DEF Sender
  <2>. HIDE DEF v
  <2>6. \E t \in Server : \E n : listener' = [listener EXCEPT ![t] = n] /\ listener[t] # "none"
    BY <1>1
  <2>. QED
    BY <1>1, <2>3, <2>4, <2>5, <2>6, OneMoves
<1>. QED
  BY <1>2, <1>3 DEF Accept

LEMMA Inductive == ASSUME IInv, [Next]_vars PROVE IInv'
<1>1. CASE Start \/ Stop \/ Joined \/ TakeInbox
  BY <1>1, InterfaceStep
<1>2. ASSUME NEW s \in Server, Accepting(s) PROVE IInv'
  BY <1>2, TopStep, AcceptStep DEF Accepting
<1>3. ASSUME NEW c \in Conns,
             Knock(c) \/ Deadline(c) \/ HangUp(c) \/ ReadHead(c) \/ ReadBody(c) \/ Own(c)
      PROVE  IInv'
  BY <1>3, ConnectionStep
<1>4. CASE UNCHANGED vars
  BY <1>4 DEF vars, serverVars, inboxVars, IInv, Typed, Renewed, NobodyBefore, Shown, Sender
<1>. QED
  BY <1>1, <1>2, <1>3, <1>4 DEF Next

(* Whatever clients send and whenever servers are started and stopped,     *)
(* every item in the inbox is from a request with the token of now, read   *)
(* whole before its server was told to stop (mcp.rs:76-87, 579-586, 636).  *)
THEOREM OnlyAuthorised == Spec => []ItemsAreAuthorised
<1>1. IInv => ItemsAreAuthorised
  BY DEF IInv, Sender, ItemsAreAuthorised
<1>. QED
  BY <1>1, Initial, Inductive, PTL DEF Spec

-----------------------------------------------------------------------------
(* The inbox.                                                              *)

(* What waits is the last that was sent, without a gap; what was taken is  *)
(* older, in order; and what is in neither was there when MaxInbox newer   *)
(* ones came.  (That what waits has no gap is what makes the item that a   *)
(* full inbox loses old enough.)                                           *)
Gone == nextId - Len(inbox)

Waiting ==
  /\ nextId \in Nat /\ inbox \in Seq(Int) /\ taken \in Seq(Int)
  /\ Len(inbox) <= MaxInbox /\ Gone \in Nat
  /\ \A i \in 1 .. Len(inbox) : inbox[i] = Gone + i

Older ==
  /\ \A i \in 1 .. Len(taken) : taken[i] <= Gone
  /\ \A i, j \in 1 .. Len(taken) : i < j => taken[i] < taken[j]

Missed ==
  \A n \in 1 .. nextId :
    \/ \E i \in 1 .. Len(taken) : taken[i] = n
    \/ n > Gone
    \/ nextId >= n + MaxInbox

InOrder == Waiting /\ Older /\ Missed

LEMMA InitialOrder ==
  ASSUME MaxInbox \in Nat \ {0}, Init
  PROVE  InOrder
  BY DEF Init, InOrder, Waiting, Older, Missed, Gone

(* A run of numbers after a sequence that stays below it.                  *)
LEMMA RunAfter ==
  ASSUME NEW old \in Seq(Int), NEW run \in Seq(Int), NEW g \in Nat,
         \A i \in 1 .. Len(old) : old[i] <= g,
         \A i, j \in 1 .. Len(old) : i < j => old[i] < old[j],
         \A i \in 1 .. Len(run) : run[i] = g + i
  PROVE  /\ old \o run \in Seq(Int)
         /\ \A i \in 1 .. Len(old \o run) : (old \o run)[i] <= g + Len(run)
         /\ \A i, j \in 1 .. Len(old \o run) : i < j => (old \o run)[i] < (old \o run)[j]
         /\ \A i \in 1 .. Len(old) : \E k \in 1 .. Len(old \o run) : (old \o run)[k] = old[i]
         /\ \A n \in g + 1 .. g + Len(run) :
              \E k \in 1 .. Len(old \o run) : (old \o run)[k] = n
<1>1. PICK l \in Nat, m \in Nat : l = Len(old) /\ m = Len(run)
  OBVIOUS
<1>2. PICK all : all = old \o run
  OBVIOUS
<1>3. all \in Seq(Int) /\ Len(all) = l + m
  BY <1>1, <1>2
<1>4. \A i \in 1 .. l : all[i] = old[i] /\ old[i] \in Int
  BY <1>1, <1>2
<1>5. \A i \in 1 .. l + m : i > l => all[i] = run[i - l]
  BY <1>1, <1>2
<1>6. \A i \in 1 .. l + m : i > l => all[i] = g + (i - l)
  <2>. SUFFICES ASSUME NEW i \in 1 .. l + m, i > l PROVE all[i] = g + (i - l)
    OBVIOUS
  <2>1. i - l \in 1 .. m
    OBVIOUS
  <2>2. run[i - l] = g + (i - l)
    BY <1>1, <2>1
  <2>. QED
    BY <1>5, <2>2
<1>7. \A i \in 1 .. l : all[i] \in Int /\ all[i] <= g
  BY <1>1, <1>4
<1>8. \A i \in 1 .. l + m : all[i] <= g + m
  BY <1>6, <1>7
<1>9. \A i, j \in 1 .. l : i < j => all[i] < all[j]
  BY <1>1, <1>4
<1>10. \A i, j \in 1 .. l + m : i < j => all[i] < all[j]
  <2>. SUFFICES ASSUME NEW i \in 1 .. l + m, NEW j \in 1 .. l + m, i < j
                PROVE  all[i] < all[j]
    OBVIOUS
  <2>1. CASE j <= l
    BY <1>9, <2>1
  <2>2. CASE i <= l /\ j > l
    <3>1. all[i] \in Int /\ all[i] <= g
      BY <1>7, <2>2
    <3>2. all[j] = g + (j - l)
      BY <1>6, <2>2
    <3>. QED
      BY <2>2, <3>1, <3>2
  <2>3. CASE i > l
    <3>1. all[i] = g + (i - l) /\ all[j] = g + (j - l)
      BY <1>6, <2>3
    <3>. QED
      BY <3>1
  <2>. QED
    BY <2>1, <2>2, <2>3
<1>11. \A i \in 1 .. l : \E k \in 1 .. l + m : all[k] = old[i]
  BY <1>4
<1>12. \A n \in g + 1 .. g + m : \E k \in 1 .. l + m : all[k] = n
  <2>. SUFFICES ASSUME NEW n \in g + 1 .. g + m PROVE \E k \in 1 .. l + m : all[k] = n
    OBVIOUS
  <2>1. PICK k \in Int : k = (n - g) + l
    OBVIOUS
  <2>2. k \in 1 .. l + m /\ k > l /\ g + (k - l) = n
    BY <2>1
  <2>3. all[k] = n
    BY <1>6, <2>2
  <2>. QED
    BY <2>2, <2>3
<1>. QED
  BY <1>1, <1>2, <1>3, <1>8, <1>10, <1>11, <1>12

(* All that was sent and neither taken nor lost, taken or still waiting.   *)
LEMMA TakenAndWaiting ==
  ASSUME MaxInbox \in Nat \ {0}, InOrder, NEW seen, seen = taken \o inbox
  PROVE  /\ seen \in Seq(Int)
         /\ \A i \in 1 .. Len(seen) : seen[i] <= nextId
         /\ \A i, j \in 1 .. Len(seen) : i < j => seen[i] < seen[j]
         /\ \A n \in 1 .. nextId :
              (\E i \in 1 .. Len(seen) : seen[i] = n) \/ nextId >= n + MaxInbox
<1>1. /\ nextId \in Nat /\ inbox \in Seq(Int) /\ taken \in Seq(Int)
      /\ \A i \in 1 .. Len(inbox) : inbox[i] = Gone + i
      /\ \A i \in 1 .. Len(taken) : taken[i] <= Gone
      /\ \A i, j \in 1 .. Len(taken) : i < j => taken[i] < taken[j]
  BY DEF InOrder, Waiting, Older
<1>2. PICK g \in Nat : g = Gone
  BY DEF InOrder, Waiting
<1>3. Len(inbox) \in Nat /\ g + Len(inbox) = nextId
  BY <1>1, <1>2 DEF Gone
<1>4. /\ seen \in Seq(Int)
      /\ \A i \in 1 .. Len(seen) : seen[i] <= g + Len(inbox)
      /\ \A i, j \in 1 .. Len(seen) : i < j => seen[i] < seen[j]
      /\ \A i \in 1 .. Len(taken) : \E k \in 1 .. Len(seen) : seen[k] = taken[i]
      /\ \A n \in g + 1 .. g + Len(inbox) : \E k \in 1 .. Len(seen) : seen[k] = n
  <2>1. /\ \A i \in 1 .. Len(inbox) : inbox[i] = g + i
        /\ \A i \in 1 .. Len(taken) : taken[i] <= g
    BY <1>1, <1>2
  <2>2. /\ taken \o inbox \in Seq(Int)
        /\ \A i \in 1 .. Len(taken \o inbox) : (taken \o inbox)[i] <= g + Len(inbox)
        /\ \A i, j \in 1 .. Len(taken \o inbox) :
             i < j => (taken \o inbox)[i] < (taken \o inbox)[j]
        /\ \A i \in 1 .. Len(taken) :
             \E k \in 1 .. Len(taken \o inbox) : (taken \o inbox)[k] = taken[i]
        /\ \A n \in g + 1 .. g + Len(inbox) :
             \E k \in 1 .. Len(taken \o inbox) : (taken \o inbox)[k] = n
    BY <1>1, <2>1, RunAfter
  <2>. QED
    BY <2>2, Zenon
<1>5. ASSUME NEW n \in 1 .. nextId
      PROVE  (\E i \in 1 .. Len(seen) : seen[i] = n) \/ nextId >= n + MaxInbox
  <2>1. CASE n > g
    <3>1. n \in g + 1 .. g + Len(inbox)
      BY <1>1, <1>3, <2>1
    <3>. QED
      BY <1>4, <3>1
  <2>2. CASE \E i \in 1 .. Len(taken) : taken[i] = n
    BY <1>4, <2>2
  <2>. QED
    BY <1>2, <2>1, <2>2 DEF InOrder, Missed
<1>. QED
  BY <1>3, <1>4, <1>5

LEMMA InOrderIsKept ==
  ASSUME MaxInbox \in Nat \ {0}, InOrder
  PROVE  NewestAreKept
<1>1. PICK seen : seen = taken \o inbox
  OBVIOUS
<1>2. /\ \A i, j \in 1 .. Len(seen) : i < j => seen[i] < seen[j]
      /\ \A n \in 1 .. nextId :
           (\E i \in 1 .. Len(seen) : seen[i] = n) \/ nextId >= n + MaxInbox
  BY <1>1, TakenAndWaiting
<1>3. Len(inbox) <= MaxInbox
  BY DEF InOrder, Waiting
<1>. QED
  BY <1>1, <1>2, <1>3 DEF NewestAreKept

(* The interface takes all that waits.                                     *)
LEMMA TakeKeepsOrder ==
  ASSUME MaxInbox \in Nat \ {0}, InOrder, TakeInbox
  PROVE  InOrder'
<1>1. taken' = taken \o inbox /\ inbox' = <<>> /\ nextId' = nextId
  BY DEF TakeInbox
<1>2. nextId \in Nat
  BY DEF InOrder, Waiting
<1>3. /\ taken' \in Seq(Int)
      /\ \A i \in 1 .. Len(taken') : taken'[i] <= nextId
      /\ \A i, j \in 1 .. Len(taken') : i < j => taken'[i] < taken'[j]
      /\ \A n \in 1 .. nextId :
           (\E i \in 1 .. Len(taken') : taken'[i] = n) \/ nextId >= n + MaxInbox
  BY <1>1, TakenAndWaiting
<1>4. inbox' \in Seq(Int) /\ Len(inbox') = 0
  BY <1>1
<1>5. Gone' = nextId
  BY <1>1, <1>2, <1>4 DEF Gone
<1>6. Waiting'
  BY <1>1, <1>2, <1>3, <1>4, <1>5 DEF Waiting
<1>7. Older' /\ Missed'
  BY <1>1, <1>3, <1>5 DEF Older, Missed
<1>. QED
  BY <1>6, <1>7 DEF InOrder

(* A run of numbers, one longer at its end or one shorter at its front.     *)
LEMMA RunGrows ==
  ASSUME NEW run \in Seq(Int), NEW g \in Nat, \A i \in 1 .. Len(run) : run[i] = g + i,
         NEW n \in Nat, n = g + Len(run)
  PROVE  /\ Append(run, n + 1) \in Seq(Int) /\ Len(Append(run, n + 1)) = Len(run) + 1
         /\ \A i \in 1 .. Len(run) + 1 : Append(run, n + 1)[i] = g + i
<1>1. PICK m \in Nat : m = Len(run)
  OBVIOUS
<1>2. PICK all : all = Append(run, n + 1)
  OBVIOUS
<1>3. all \in Seq(Int) /\ Len(all) = m + 1 /\ all[m + 1] = n + 1
  BY <1>1, <1>2
<1>4. \A i \in 1 .. m : all[i] = run[i]
  BY <1>1, <1>2
<1>5. \A i \in 1 .. m : all[i] = g + i
  BY <1>1, <1>4
<1>6. \A i \in 1 .. m + 1 : all[i] = g + i
  BY <1>1, <1>3, <1>5
<1>. QED
  BY <1>1, <1>2, <1>3, <1>6

LEMMA RunLosesFirst ==
  ASSUME NEW run \in Seq(Int), NEW g \in Nat, \A i \in 1 .. Len(run) : run[i] = g + i,
         Len(run) > 0
  PROVE  /\ Tail(run) \in Seq(Int) /\ Len(Tail(run)) = Len(run) - 1
         /\ \A i \in 1 .. Len(Tail(run)) : Tail(run)[i] = (g + 1) + i
<1>1. /\ Tail(run) \in Seq(Int) /\ Len(Tail(run)) = Len(run) - 1 /\ Len(run) \in Nat
      /\ \A i \in 1 .. Len(Tail(run)) : Tail(run)[i] = run[i + 1]
  OBVIOUS
<1>2. ASSUME NEW i \in 1 .. Len(Tail(run)) PROVE Tail(run)[i] = (g + 1) + i
  <2>1. i + 1 \in 1 .. Len(run)
    BY <1>1
  <2>2. run[i + 1] = g + (i + 1)
    BY <2>1
  <2>. QED
    BY <1>1, <2>2
<1>. QED
  BY <1>1, <1>2

(* A new item, and in a full inbox the oldest gone: the rest is a run from  *)
(* g on.                                                                   *)
LEMMA PushKeepsOrder ==
  ASSUME MaxInbox \in Nat \ {0}, InOrder, NEW c, PushInbox(c), taken' = taken
  PROVE  InOrder'
<1>. DEFINE rest == IF Len(inbox) >= MaxInbox THEN Tail(inbox) ELSE inbox
<1>1. nextId' = nextId + 1 /\ inbox' = Append(rest, nextId + 1)
  BY DEF PushInbox
<1>2. /\ nextId \in Nat /\ Gone \in Nat /\ Len(inbox) \in Nat /\ inbox \in Seq(Int)
      /\ Len(inbox) <= MaxInbox /\ Gone = nextId - Len(inbox)
      /\ \A i \in 1 .. Len(inbox) : inbox[i] = Gone + i
  BY DEF InOrder, Waiting, Gone
<1>3. PICK h \in Nat : h = Gone
  BY <1>2
<1>4. \E g \in Nat :
        /\ rest \in Seq(Int) /\ nextId = g + Len(rest) /\ Len(rest) <= MaxInbox - 1
        /\ \A i \in 1 .. Len(rest) : rest[i] = g + i
        /\ g = h \/ (g = h + 1 /\ nextId = h + MaxInbox)
  <2>0. \A i \in 1 .. Len(inbox) : inbox[i] = h + i
    BY <1>2, <1>3
  <2>1. CASE Len(inbox) >= MaxInbox
    <3>1. rest = Tail(inbox) /\ Len(inbox) = MaxInbox /\ Len(inbox) > 0
      BY <1>2, <2>1
    <3>2. /\ Tail(inbox) \in Seq(Int) /\ Len(Tail(inbox)) = Len(inbox) - 1
          /\ \A i \in 1 .. Len(Tail(inbox)) : Tail(inbox)[i] = (h + 1) + i
      BY <1>2, <2>0, <3>1, RunLosesFirst
    <3>3. PICK g \in Nat : g = h + 1
      OBVIOUS
    <3>. HIDE DEF rest
    <3>4. /\ rest \in Seq(Int) /\ Len(rest) = Len(inbox) - 1
          /\ \A i \in 1 .. Len(rest) : rest[i] = g + i
      BY <3>1, <3>2, <3>3
    <3>5. nextId = g + Len(rest) /\ Len(rest) <= MaxInbox - 1 /\ nextId = h + MaxInbox
      BY <1>2, <1>3, <3>1, <3>3, <3>4
    <3>. QED
      BY <3>3, <3>4, <3>5
  <2>2. CASE Len(inbox) < MaxInbox
    <3>1. rest = inbox
      BY <1>2, <2>2
    <3>. HIDE DEF rest
    <3>2. nextId = h + Len(rest) /\ Len(rest) <= MaxInbox - 1
      BY <1>2, <1>3, <2>2, <3>1
    <3>. QED
      BY <1>2, <2>0, <3>1, <3>2
  <2>3. Len(inbox) >= MaxInbox \/ Len(inbox) < MaxInbox
    BY <1>2
  <2>. HIDE DEF rest
  <2>. QED
    BY <2>1, <2>2, <2>3
<1>. HIDE DEF rest
<1>5. PICK g \in Nat :
        /\ rest \in Seq(Int) /\ nextId = g + Len(rest) /\ Len(rest) <= MaxInbox - 1
        /\ \A i \in 1 .. Len(rest) : rest[i] = g + i
        /\ g = h \/ (g = h + 1 /\ nextId = h + MaxInbox)
  BY <1>4
<1>6. /\ inbox' \in Seq(Int) /\ Len(inbox') = Len(rest) + 1
      /\ \A i \in 1 .. Len(rest) + 1 : inbox'[i] = g + i
  <2>1. /\ Append(rest, nextId + 1) \in Seq(Int)
        /\ Len(Append(rest, nextId + 1)) = Len(rest) + 1
        /\ \A i \in 1 .. Len(rest) + 1 : Append(rest, nextId + 1)[i] = g + i
    BY <1>2, <1>5, RunGrows
  <2>. QED
    BY <1>1, <2>1, Zenon
<1>7. Gone' = g /\ Len(rest) \in Nat
  BY <1>1, <1>2, <1>5, <1>6 DEF Gone
<1>8. Waiting'
  <2>1. taken' \in Seq(Int) /\ nextId' \in Nat
    BY <1>1, <1>2 DEF InOrder, Waiting
  <2>2. Len(inbox') <= MaxInbox
    BY <1>5, <1>6, <1>7
  <2>3. \A i \in 1 .. Len(inbox') : inbox'[i] = Gone' + i
    BY <1>6, <1>7
  <2>. QED
    BY <1>6, <1>7, <2>1, <2>2, <2>3 DEF Waiting
<1>9. Older'
  <2>1. \A i \in 1 .. Len(taken) : taken[i] \in Int /\ taken[i] <= h
    BY <1>3 DEF InOrder, Waiting, Older
  <2>2. \A i \in 1 .. Len(taken) : taken[i] <= g
    BY <1>5, <2>1
  <2>. QED
    BY <1>7, <2>2 DEF InOrder, Older
<1>10. Missed'
  <2>. SUFFICES ASSUME NEW n \in 1 .. nextId',
                       ~\E i \in 1 .. Len(taken) : taken[i] = n, ~(n > g)
                PROVE  nextId' >= n + MaxInbox
    BY <1>7 DEF Missed
  <2>1. n \in 1 .. nextId
    BY <1>1, <1>2, <1>5, <1>7
  <2>2. CASE n > h
    BY <1>1, <1>2, <1>5, <2>1, <2>2
  <2>3. CASE ~(n > h)
    <3>1. nextId >= n + MaxInbox
      BY <1>3, <2>1, <2>3 DEF InOrder, Missed
    <3>. QED
      BY <1>1, <1>2, <2>1, <3>1
  <2>. QED
    BY <2>2, <2>3
<1>. QED
  BY <1>8, <1>9, <1>10 DEF InOrder

LEMMA OrderInductive ==
  ASSUME MaxInbox \in Nat \ {0}, InOrder, [Next]_vars
  PROVE  InOrder'
<1>1. ASSUME UNCHANGED <<nextId, inbox, taken>> PROVE InOrder'
  BY <1>1 DEF InOrder, Waiting, Older, Missed, Gone
<1>2. ASSUME NEW c \in Conns, Call(c) PROVE InOrder'
  <2>1. CASE PushInbox(c)
    BY <1>2, <2>1, PushKeepsOrder DEF Call
  <2>2. CASE UNCHANGED <<nextId, inbox>>
    BY <1>1, <1>2, <2>2 DEF Call
  <2>. QED
    BY <1>2, <2>1, <2>2 DEF Call
<1>3. ASSUME NEW c \in Conns,
             Knock(c) \/ Deadline(c) \/ HangUp(c) \/ ReadHead(c) \/ ReadBody(c) \/ Own(c)
      PROVE  InOrder'
  BY <1>1, <1>2, <1>3 DEF Knock, Deadline, HangUp, ReadHead, ReadBody, Own, Break, Serve, Respond, inboxVars
<1>4. ASSUME NEW s \in Server, Accepting(s) PROVE InOrder'
  BY <1>1, <1>4 DEF Accepting, Top, Accept, inboxVars
<1>5. CASE Start \/ Stop \/ Joined
  BY <1>1, <1>5 DEF Start, Stop, Joined, inboxVars
<1>6. CASE UNCHANGED vars
  BY <1>1, <1>6 DEF vars, inboxVars
<1>. QED
  BY <1>3, <1>4, <1>5, <1>6, TakeKeepsOrder DEF Next

(* However the calls of connections mix with takes, the inbox and what was *)
(* taken from it are in order, without repetition, and lack only what      *)
(* MaxInbox newer items have pushed out (mcp.rs:117-135).                  *)
THEOREM InboxKeepsNewest ==
  ASSUME MaxInbox \in Nat \ {0}
  PROVE  Spec => []NewestAreKept
<1>1. Init => InOrder
  BY InitialOrder
<1>2. InOrder /\ [Next]_vars => InOrder'
  BY OrderInductive
<1>3. InOrder => NewestAreKept
  BY InOrderIsKept
<1>. QED
  BY <1>1, <1>2, <1>3, PTL DEF Spec
=============================================================================

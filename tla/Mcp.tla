-------------------------------- MODULE Mcp --------------------------------
(***************************************************************************)
(* The local tool server (mcp.rs): the interface starts and stops it and   *)
(* takes what clients sent from the inbox; a thread of each server accepts *)
(* connections and gives each a thread of its own, as many as there are    *)
(* permits; a connection reads one request, head before body, against a    *)
(* deadline, and carries out its calls one after the other.  A stop waits  *)
(* for the accepting thread and for nobody else.                           *)
(* What a tool reads (screens, folders, notes) changes nothing and is one  *)
(* call, "look"; the row of office_note_add is counted.                    *)
(***************************************************************************)
EXTENDS Integers, Sequences, FiniteSets

CONSTANTS
  Conns,     \* connections that clients may open
  MaxStarts, \* bound: servers started
  MaxActive, \* MAX_CONNECTIONS
  MaxInbox,  \* MAX_INBOX
  MaxCalls   \* bound: messages in a request

Server == 1 .. MaxStarts
Tool   == {"push", "look", "note"}
Keys   == {"legacy", "random"}

VARIABLES
  token,     \* kv mcp.token
  server,    \* STATE.server, 0 when there is none
  starts,    \* servers started
  stopped,   \* servers whose flag is set
  joining,   \* the server whose thread the interface waits for, or 0
  listener,  \* listener[s]: where its accepting thread is
  active,    \* active[s]: permits given out
  conn,      \* conn[c]: a connection and its thread
  nextId,    \* STATE.next_id
  inbox,     \* ids of the items that wait
  taken,     \* ids the interface took
  by,        \* by[n]: the connection that sent item n
  notes      \* notes saved

serverVars == <<token, server, starts, stopped, joining>>
inboxVars  == <<nextId, inbox, taken, by, notes>>
vars       == <<serverVars, listener, active, conn, inboxVars>>

At == {"none", "waiting", "head", "body", "read", "calls", "gone"}

TypeOK ==
  /\ token \in Keys /\ server \in 0 .. MaxStarts /\ starts \in 0 .. MaxStarts
  /\ stopped \subseteq Server /\ joining \in 0 .. MaxStarts
  /\ listener \in [Server -> {"none", "top", "accept", "gone"}]
  /\ active \in [Server -> 0 .. MaxActive]
  /\ \A c \in Conns : conn[c].at \in At /\ conn[c].server \in 0 .. MaxStarts
  /\ nextId \in Nat /\ Len(by) = nextId /\ notes \in Nat

Nobody == [at |-> "none", server |-> 0, late |-> FALSE, key |-> "legacy", clear |-> FALSE, calls |-> <<>>]

Init ==
  /\ token \in Keys
  /\ server = 0 /\ starts = 0 /\ stopped = {} /\ joining = 0
  /\ listener = [s \in Server |-> "none"]
  /\ active = [s \in Server |-> 0]
  /\ conn = [c \in Conns |-> Nobody]
  /\ nextId = 0 /\ inbox = <<>> /\ taken = <<>> /\ by = <<>> /\ notes = 0

-----------------------------------------------------------------------------
(* The interface.  While it joins a thread it does nothing else. *)

\* Mutant: whatever is stored is kept.
TokenForStart_Any(existing) == existing

\* A token of the old format does not survive a start.
TokenForStart(existing) == IF existing = "legacy" THEN "random" ELSE existing

\* The token is stored before the port is bound, which may fail.
Start ==
  /\ joining = 0 /\ server = 0 /\ starts < MaxStarts
  /\ token' = TokenForStart(token)
  /\ \/ /\ starts' = starts + 1
        /\ server' = starts + 1
        /\ listener' = [listener EXCEPT ![starts + 1] = "top"]
     \/ UNCHANGED <<starts, server, listener>>
  /\ UNCHANGED <<stopped, joining, active, conn, inboxVars>>

Stop ==
  /\ joining = 0 /\ server # 0
  /\ stopped' = stopped \cup {server}
  /\ joining' = server
  /\ server' = 0
  /\ UNCHANGED <<token, starts, listener, active, conn, inboxVars>>

Joined ==
  /\ joining # 0 /\ listener[joining] = "gone"
  /\ joining' = 0
  /\ UNCHANGED <<token, server, starts, stopped, listener, active, conn, inboxVars>>

TakeInbox ==
  /\ joining = 0 /\ inbox # <<>>
  /\ taken' = taken \o inbox
  /\ inbox' = <<>>
  /\ UNCHANGED <<serverVars, listener, active, conn, nextId, by, notes>>

-----------------------------------------------------------------------------
(* The accepting thread of a server. *)

\* A client connects as long as the listener is open.
Knock(c) ==
  /\ conn[c].at = "none"
  /\ \E s \in Server :
       /\ listener[s] \in {"top", "accept"}
       /\ conn' = [conn EXCEPT ![c] = [Nobody EXCEPT !.at = "waiting", !.server = s]]
  /\ UNCHANGED <<serverVars, listener, active, inboxVars>>

\* The flag is looked at between two accepts; with the listener go those that
\* were not accepted yet.
Top(s) ==
  /\ listener[s] = "top"
  /\ IF s \in stopped
       THEN /\ listener' = [listener EXCEPT ![s] = "gone"]
            /\ conn' = [c \in Conns |-> IF conn[c].at = "waiting" /\ conn[c].server = s
                                          THEN [conn[c] EXCEPT !.at = "gone"] ELSE conn[c]]
       ELSE listener' = [listener EXCEPT ![s] = "accept"] /\ UNCHANGED conn
  /\ UNCHANGED <<serverVars, active, inboxVars>>

Acquired(s) == active[s] < MaxActive

\* A permit and a thread; a thread that cannot be started gives the permit
\* back; without a permit the socket is dropped.
Admit(c, s) ==
  \/ /\ Acquired(s)
     /\ active' = [active EXCEPT ![s] = @ + 1]
     /\ conn' = [conn EXCEPT ![c].at = "head"]
  \/ /\ conn' = [conn EXCEPT ![c].at = "gone"]
     /\ UNCHANGED active

Accept(s) ==
  /\ listener[s] = "accept"
  /\ listener' = [listener EXCEPT ![s] = "top"]
  /\ \/ \E c \in Conns : /\ conn[c].at = "waiting" /\ conn[c].server = s
                         /\ Admit(c, s)
     \/ /\ \A c \in Conns : ~(conn[c].at = "waiting" /\ conn[c].server = s)
        /\ UNCHANGED <<conn, active>>
  /\ UNCHANGED <<serverVars, inboxVars>>

-----------------------------------------------------------------------------
(* The thread of a connection. *)

Stopped(c) == conn[c].server \in stopped

\* Mutant: only the flag ends a read.
Expired_Never(c) == Stopped(c)

\* DeadlineReader: every read first looks at the flag and at the deadline.
Expired(c) == Stopped(c) \/ conn[c].late

\* The connection ends, with an answer or without, and gives its permit back.
Leave(c) ==
  /\ conn' = [conn EXCEPT ![c].at = "gone", ![c].calls = <<>>]
  /\ active' = [active EXCEPT ![conn[c].server] = @ - 1]

\* Fifteen seconds after the accept.
Deadline(c) ==
  /\ conn[c].at \in {"head", "body"} /\ ~conn[c].late
  /\ conn' = [conn EXCEPT ![c].late = TRUE]
  /\ UNCHANGED <<serverVars, listener, active, inboxVars>>

\* Stopped, too slow, or closed by the client in the middle.
Break(c) ==
  /\ conn[c].at \in {"head", "body"} /\ Expired(c)
  /\ Leave(c)
  /\ UNCHANGED <<serverVars, listener, inboxVars>>

HangUp(c) ==
  /\ conn[c].at \in {"head", "body"}
  /\ Leave(c)
  /\ UNCHANGED <<serverVars, listener, inboxVars>>

\* A request head: its form, where it says it comes from, the token of its
\* path and the length it announces.
Heads == [form : {"fine", "malformed"}, local : BOOLEAN, key : Keys, small : BOOLEAN]

\* A line that is too long, ends wrongly or holds control characters; a field
\* twice; an encoding.
Malformed(h) == h.form = "malformed"

\* Host and Origin, when there is one, name this machine and port.
Forbidden(h) == ~h.local

\* In this order, and all of it before any of the body is read.
Verdict(h) ==
  IF Malformed(h) THEN "400" ELSE IF Forbidden(h) THEN "403"
  ELSE IF h.key # token THEN "404" ELSE IF ~h.small THEN "413" ELSE "200"

ReadHead(c) ==
  /\ conn[c].at = "head" /\ ~Expired(c)
  /\ \E h \in Heads :
       IF Verdict(h) = "200"
         THEN conn' = [conn EXCEPT ![c].at = "body", ![c].key = h.key] /\ UNCHANGED active
         ELSE Leave(c)
  /\ UNCHANGED <<serverVars, listener, inboxVars>>

Bodies == UNION {[1 .. n -> Tool] : n \in 0 .. MaxCalls}

\* The whole of the body; a batch is its messages in order.
ReadBody(c) ==
  /\ conn[c].at = "body" /\ ~Expired(c)
  /\ \E b \in Bodies : conn' = [conn EXCEPT ![c].at = "read", ![c].calls = b]
  /\ UNCHANGED <<serverVars, listener, active, inboxVars>>

\* The last look at the flag; clear remembers it for the properties.  Only a
\* POST is carried out.
Serve(c) ==
  /\ conn[c].at = "read"
  /\ \/ Stopped(c) /\ Leave(c)
     \/ ~Stopped(c) /\ conn' = [conn EXCEPT ![c].at = "calls", ![c].clear = ~Stopped(c)] /\ UNCHANGED active
     \/ ~Stopped(c) /\ Leave(c)
  /\ UNCHANGED <<serverVars, listener, inboxVars>>

\* Mutant: a full inbox keeps its oldest items.
PushInbox_Refuses(c) ==
  /\ nextId' = nextId + 1
  /\ by' = Append(by, c)
  /\ inbox' = IF Len(inbox) >= MaxInbox THEN inbox ELSE Append(inbox, nextId + 1)

\* A full inbox loses its oldest item.
PushInbox(c) ==
  /\ nextId' = nextId + 1
  /\ by' = Append(by, c)
  /\ inbox' = Append(IF Len(inbox) >= MaxInbox THEN Tail(inbox) ELSE inbox, nextId + 1)

\* One message, answered or not; a tool that refuses its arguments is a look.
Call(c) ==
  /\ conn[c].at = "calls" /\ conn[c].calls # <<>>
  /\ \/ conn[c].calls[1] = "push" /\ PushInbox(c) /\ UNCHANGED notes
     \/ conn[c].calls[1] = "note" /\ notes' = notes + 1 /\ UNCHANGED <<nextId, inbox, by>>
     \/ conn[c].calls[1] = "look" /\ UNCHANGED <<nextId, inbox, by, notes>>
  /\ conn' = [conn EXCEPT ![c].calls = Tail(@)]
  /\ UNCHANGED <<serverVars, listener, active, taken>>

Respond(c) ==
  /\ conn[c].at = "calls" /\ conn[c].calls = <<>>
  /\ Leave(c)
  /\ UNCHANGED <<serverVars, listener, inboxVars>>

\* What a connection's thread does by itself, whatever its client does.
Own(c) == Break(c) \/ Serve(c) \/ Call(c) \/ Respond(c)

\* The accepting thread.
Accepting(s) == Top(s) \/ Accept(s)

Next ==
  \/ Start \/ Stop \/ Joined \/ TakeInbox
  \/ \E s \in Server : Accepting(s)
  \/ \E c \in Conns : Knock(c) \/ Deadline(c) \/ HangUp(c) \/ ReadHead(c) \/ ReadBody(c) \/ Own(c)

Spec == Init /\ [][Next]_vars

-----------------------------------------------------------------------------
(* Properties. *)

\* What the interface took and what waits for it is in the order it was sent,
\* with nothing twice, and an item is missing only when the inbox was full of
\* newer ones (mcp.rs:117-135), however the calls of connections mix with a
\* take.
NewestAreKept ==
  LET seen == taken \o inbox
  IN  /\ \A i, j \in 1 .. Len(seen) : i < j => seen[i] < seen[j]
      /\ \A n \in 1 .. nextId : n \in {seen[i] : i \in 1 .. Len(seen)} \/ nextId >= n + MaxInbox
      /\ Len(inbox) <= MaxInbox

\* Every item was sent by a request that named the token of now, not one of
\* an old format, and that was complete before its server was told to stop
\* (mcp.rs:76-87, 579-586, 636): a stop does not wait for the connections, but
\* it lets none of them begin.
ItemsAreAuthorised == \A n \in 1 .. Len(by) : conn[by[n]].key = "random" /\ conn[by[n]].clear

\* A client that is slow, or silent, does not keep its thread (mcp.rs:430-468),
\* the interface comes back from a stop (mcp.rs:767-775), and every permit of a
\* server that was stopped comes back, whichever way its connection ended
\* (mcp.rs:669-745).
NobodyIsHeld ==
  /\ \A c \in Conns : conn[c].at = "head" ~> conn[c].at = "gone"
  /\ \A s \in Server : s \in stopped ~> joining # s /\ active[s] = 0
=============================================================================

----------------------------- MODULE Llm_proofs -----------------------------
(***************************************************************************)
(* Proofs about module Llm, for any requests, slots, clients and streams.  *)
(***************************************************************************)
EXTENDS Llm, TLAPS

Pieces == Seq(Nat)
Stream == [text : Pieces, calls : Pieces, done : BOOLEAN]
Holder == [at : ClientPC, slot : Slot \cup {NoSlot}, text : Pieces, calls : Pieces, seen : States]

Typed ==
  /\ reg \in [Slot -> Req \cup {NoReq}]
  /\ state \in [Req -> States] /\ cancel \in [Req -> BOOLEAN]
  /\ delta \in [Req -> Pieces] /\ calls \in [Req -> Pieces]
  /\ worker \in [Req -> WorkerPC]
  /\ event \in [Req -> {"none", "text", "tools", "done", "bad"}]
  /\ sent \in [Req -> Stream]
  /\ client \in [Client -> Holder]

InFlight(r, ev) == worker[r] = "handle" /\ event[r] = ev

(* What a request holds of its stream, and what its state says of it.      *)
CallsAreThere(r) ==
  IF InFlight(r, "tools") THEN Append(calls[r], Count(r)) = sent[r].calls ELSE calls[r] = sent[r].calls

Ends(r) ==
  ~cancel[r] =>
    /\ worker[r] = "ok" \/ InFlight(r, "done") => sent[r].done
    /\ state[r] = "DONE"  => worker[r] = "gone" /\ sent[r].done
    /\ state[r] = "ERROR" => worker[r] = "gone"

Untouched(r) ==
  worker[r] = "none" => delta[r] = <<>> /\ calls[r] = <<>> /\ sent[r].text = <<>> /\ sent[r].calls = <<>>

Sticks(r) == cancel[r] => state[r] = "DONE"

RequestInv(r) == CallsAreThere(r) /\ Ends(r) /\ Untouched(r) /\ Sticks(r)

(* A client's text, what waits for it and what is being handled make the   *)
(* text that arrived.                                                      *)
TextIsThere(r, t) ==
  IF InFlight(r, "text") THEN Append(t \o delta[r], Count(r)) = sent[r].text ELSE t \o delta[r] = sent[r].text

(* A client holds a request of its own, which it alone cancels.            *)
Holds(c) == client[c].at # "idle"

ClientInv(c) ==
  Holds(c) =>
    /\ client[c].slot \in Slot /\ Held(c) \in Req /\ worker[Held(c)] # "none"
    /\ client[c].at # "cancelled" => ~cancel[Held(c)] /\ TextIsThere(Held(c), client[c].text)
    /\ client[c].at \in {"again", "calls", "free"} => client[c].seen \in Final /\ state[Held(c)] = client[c].seen
    /\ client[c].at = "calls" => client[c].seen = "DONE"
    /\ client[c].at \in {"calls", "free"} => delta[Held(c)] = <<>>
    /\ client[c].at # "free" => client[c].calls = <<>>
    /\ client[c].at = "free" =>
         client[c].calls = IF client[c].seen = "DONE" THEN calls[Held(c)] ELSE <<>>

HeldOnce == \A c, d \in Client : Holds(c) /\ Holds(d) /\ Held(c) = Held(d) => c = d

ResultsAreLast == \A x \in results : x.req \in Req /\ worker[x.req] = "gone"

IInv ==
  /\ Typed
  /\ \A r \in Req : RequestInv(r)
  /\ \A c \in Client : ClientInv(c)
  /\ HeldOnce
  /\ ResultsAreLast /\ AnswersAreWhole

LEMMA Sequences ==
  /\ <<>> \in Pieces
  /\ \A s \in Pieces : s \o <<>> = s /\ Len(s) \in Nat
  /\ \A s \in Pieces, n \in Nat : Append(s, n) \in Pieces
  /\ \A s, t \in Pieces : s \o t \in Pieces
  /\ \A s, t \in Pieces, n \in Nat : s \o Append(t, n) = Append(s \o t, n)
  BY DEF Pieces

LEMMA Lengths ==
  ASSUME NEW s \in Pieces, NEW t \in Pieces, NEW n \in Nat
  PROVE  /\ Len(s) + Len(t) \in Nat
         /\ Len(Append(s, n)) + Len(t) = Len(s) + Len(t) + 1
         /\ Len(s) + Len(Append(t, n)) = Len(s) + Len(t) + 1
  BY DEF Pieces

LEMMA Counts == ASSUME Typed, NEW r \in Req PROVE Count(r) \in Nat
<1>1. sent[r].text \in Pieces /\ sent[r].calls \in Pieces
  BY DEF Typed, Stream
<1>. QED
  BY <1>1, Lengths DEF Count

LEMMA Initial == ASSUME NoReq \notin Req PROVE Init => IInv
<1>. SUFFICES ASSUME Init PROVE IInv
  OBVIOUS
<1>1. Typed
  <2>1. NoClient \in Holder
    BY Sequences DEF NoClient, Holder, ClientPC, States
  <2>2. [text |-> <<>>, calls |-> <<>>, done |-> FALSE] \in Stream
    BY Sequences DEF Stream
  <2>. QED
    BY <2>1, <2>2, Sequences DEF Init, Typed, States, WorkerPC
<1>2. \A c \in Client : client[c].at = "idle"
  BY DEF Init, NoClient
<1>3. \A r \in Req : RequestInv(r)
  BY DEF Init, RequestInv, CallsAreThere, Ends, Untouched, Sticks, InFlight
<1>. QED
  BY <1>1, <1>2, <1>3 DEF Init, IInv, ClientInv, Holds, HeldOnce, ResultsAreLast, AnswersAreWhole

(* A step of a request's thread concerns nobody but the request and the    *)
(* client that holds it, and that client has not yet seen its end.         *)
LEMMA ThreadStep ==
  ASSUME IInv, NEW r \in Req, worker[r] \notin {"none", "gone"}, worker'[r] # "none", Typed',
         reg' = reg, cancel' = cancel, client' = client, results' = results,
         \A q \in Req \ {r} : /\ state'[q] = state[q] /\ delta'[q] = delta[q] /\ calls'[q] = calls[q]
                              /\ worker'[q] = worker[q] /\ event'[q] = event[q] /\ sent'[q] = sent[q],
         RequestInv(r)',
         \A t \in Pieces : ~cancel[r] /\ TextIsThere(r, t) => TextIsThere(r, t)'
  PROVE  IInv'
<1>1. \A q \in Req : RequestInv(q)'
  <2>. SUFFICES ASSUME NEW q \in Req \ {r} PROVE RequestInv(q)'
    OBVIOUS
  <2>1. RequestInv(q)
    BY DEF IInv
  <2>. QED
    BY <2>1 DEF RequestInv, CallsAreThere, Ends, Untouched, Sticks, InFlight, Count
<1>2. ASSUME NEW c \in Client
      PROVE  ClientInv(c)'
  <2>1. ClientInv(c) /\ client[c].text \in Pieces
    BY DEF IInv, Typed, Holder
  <2>2. CASE ~Holds(c)
    BY <2>2 DEF ClientInv, Holds
  <2>3. CASE Holds(c) /\ Held(c) # r
    <3>1. Held(c)' = Held(c) /\ (\A t : TextIsThere(Held(c), t)' <=> TextIsThere(Held(c), t))
      BY <2>1, <2>3 DEF ClientInv, Holds, Held, TextIsThere, InFlight, Count
    <3>. QED
      BY <2>1, <2>3, <3>1 DEF ClientInv, Holds, Held, TextIsThere, InFlight, Count
  <2>4. CASE Holds(c) /\ Held(c) = r
    <3>1. client[c].at # "cancelled" => client[c].at \notin {"again", "calls", "free"}
      <4>1. Ends(r)
        BY DEF IInv, RequestInv
      <4>. QED
        BY <2>1, <2>4, <4>1 DEF ClientInv, Ends, Final
    <3>2. client[c].at # "cancelled" => ~cancel[r] /\ TextIsThere(r, client[c].text)'
      BY <2>1, <2>4 DEF ClientInv
    <3>. QED
      BY <2>1, <2>4, <3>1, <3>2 DEF ClientInv, Holds, Held, TextIsThere, InFlight, Count
  <2>. QED
    BY <2>2, <2>3, <2>4
<1>3. HeldOnce'
  BY DEF IInv, HeldOnce, Holds, Held
<1>4. ResultsAreLast' /\ AnswersAreWhole'
  BY DEF IInv, ResultsAreLast, AnswersAreWhole
<1>. QED
  BY <1>1, <1>2, <1>3, <1>4 DEF IInv

(* What a variable holds after one request's entry of it is replaced.      *)
LEMMA Replaced ==
  ASSUME NEW S, NEW T, NEW f \in [S -> T], NEW r \in S, NEW v \in T, NEW g, g = [f EXCEPT ![r] = v]
  PROVE  g \in [S -> T] /\ g[r] = v /\ \A q \in S \ {r} : g[q] = f[q]
  OBVIOUS

(* A thread that only moves on between two lines of the stream.            *)
Between == {"connect", "checked", "loop", "read"}

LEMMA MovesOn ==
  ASSUME IInv, NEW r \in Req, worker[r] \in Between,
         NEW to \in {"checked", "loop", "read", "ok", "err"}, to = "ok" => cancel[r], Moves(r, to),
         state' \in [Req -> States], \A q \in Req \ {r} : state'[q] = state[q],
         IF cancel[r] THEN state'[r] = "DONE" ELSE state'[r] \notin Final,
         UNCHANGED <<reg, cancel, delta, calls, event, sent, client, results>>
  PROVE  IInv'
<1>1. Typed /\ RequestInv(r)
  BY DEF IInv
<1>2. /\ worker' \in [Req -> WorkerPC] /\ worker'[r] = to
      /\ \A q \in Req \ {r} : worker'[q] = worker[q]
  BY <1>1, Replaced DEF Typed, Moves, WorkerPC
<1>4. Typed'
  BY <1>1, <1>2 DEF Typed
<1>5. RequestInv(r)'
  BY <1>1, <1>2 DEF RequestInv, CallsAreThere, Ends, Untouched, Sticks, InFlight, Count, Between, Final
<1>6. \A t : TextIsThere(r, t) => TextIsThere(r, t)'
  BY <1>2 DEF TextIsThere, InFlight, Count, Between
<1>. QED
  BY <1>1, <1>2, <1>4, <1>5, <1>6, ThreadStep DEF Between

LEMMA BetweenSteps ==
  ASSUME IInv, NEW r \in Req, Post(r) \/ LoopTop(r) \/ ReportStreaming(r)
  PROVE  IInv'
<1>1. Typed /\ Ends(r) /\ Sticks(r) /\ worker[r] \in Between
  BY DEF IInv, RequestInv, Post, LoopTop, ReportStreaming, Between
<1>2. IF cancel[r] THEN state[r] = "DONE" ELSE state[r] \notin Final
  BY <1>1 DEF Ends, Sticks, Final, Between
<1>3. CASE Post(r) \/ LoopTop(r)
  <2>1. PICK to \in {"checked", "loop", "read", "ok", "err"} : Moves(r, to) /\ (to = "ok" => cancel[r])
    BY <1>3 DEF Post, LoopTop
  <2>2. UNCHANGED <<reg, state, cancel, delta, calls, event, sent, client, results>>
    BY <1>3 DEF Post, LoopTop, reqVars
  <2>3. state' \in [Req -> States] /\ \A q \in Req \ {r} : state'[q] = state[q]
    BY <1>1, <2>2 DEF Typed
  <2>. QED
    BY <1>1, <1>2, <2>1, <2>2, <2>3, MovesOn
<1>4. CASE ReportStreaming(r)
  <2>1. /\ state' \in [Req -> States] /\ \A q \in Req \ {r} : state'[q] = state[q]
        /\ state'[r] = IF cancel[r] THEN "DONE" ELSE "STREAMING"
    BY <1>1, <1>4, Replaced DEF ReportStreaming, SetState, Typed, States
  <2>2. Moves(r, "loop") /\ UNCHANGED <<reg, cancel, delta, calls, event, sent, client, results>>
    BY <1>4 DEF ReportStreaming
  <2>3. IF cancel[r] THEN state'[r] = "DONE" ELSE state'[r] \notin Final
    BY <2>1 DEF Final
  <2>. QED
    BY <1>1, <2>1, <2>2, <2>3, MovesOn
<1>. QED
  BY <1>3, <1>4

(* A line that carries something: the stream has it, the request not yet.  *)
LEMMA ReadLineStep ==
  ASSUME IInv, NEW r \in Req, ReadLine(r)
  PROVE  IInv'
<1>1. Typed /\ RequestInv(r) /\ worker[r] = "read"
  BY DEF IInv, ReadLine
<1>2. reg' = reg /\ state' = state /\ cancel' = cancel /\ delta' = delta /\ calls' = calls
      /\ client' = client /\ results' = results
  BY DEF ReadLine, reqVars
<1>3. CASE UNCHANGED <<event, sent>> /\ \E to \in {"ok", "err", "loop"} : Moves(r, to) /\ (to = "ok" => cancel[r])
  <2>1. IF cancel[r] THEN state[r] = "DONE" ELSE state[r] \notin Final
    BY <1>1 DEF RequestInv, Ends, Sticks, Final
  <2>2. state' \in [Req -> States] /\ \A q \in Req \ {r} : state'[q] = state[q]
    BY <1>1, <1>2 DEF Typed
  <2>3. worker[r] \in Between
    BY <1>1 DEF Between
  <2>. QED
    BY <1>1, <1>2, <1>3, <2>1, <2>2, <2>3, MovesOn
<1>4. ASSUME NEW ev \in {"text", "tools", "done", "bad"}, NEW n, n = Count(r) + 1, ~cancel[r],
             event' = [event EXCEPT ![r] = ev],
             sent' = [sent EXCEPT ![r] =
                       [text  |-> IF ev = "text" THEN Append(@.text, n) ELSE @.text,
                        calls |-> IF ev = "tools" THEN Append(@.calls, n) ELSE @.calls,
                        done  |-> ev = "done"]],
             Moves(r, "handle")
      PROVE  IInv'
  <2>1. sent[r].text \in Pieces /\ sent[r].calls \in Pieces /\ n \in Nat /\ n = Count(r) + 1
    <3>1. n = Count(r) + 1
      BY <1>4
    <3>2. sent[r].text \in Pieces /\ sent[r].calls \in Pieces
      BY <1>1 DEF Typed, Stream
    <3>3. Count(r) \in Nat
      BY <1>1, Counts
    <3>. QED
      BY <3>1, <3>2, <3>3
  <2>2. /\ worker' \in [Req -> WorkerPC] /\ worker'[r] = "handle"
        /\ \A q \in Req \ {r} : worker'[q] = worker[q]
    BY <1>1, <1>4, Replaced DEF Typed, Moves, WorkerPC
  <2>3. /\ event' \in [Req -> {"none", "text", "tools", "done", "bad"}] /\ event'[r] = ev
        /\ \A q \in Req \ {r} : event'[q] = event[q]
    BY <1>1, <1>4 DEF Typed
  <2>4. /\ sent' \in [Req -> Stream] /\ (\A q \in Req \ {r} : sent'[q] = sent[q])
        /\ sent'[r].text = IF ev = "text" THEN Append(sent[r].text, n) ELSE sent[r].text
        /\ sent'[r].calls = IF ev = "tools" THEN Append(sent[r].calls, n) ELSE sent[r].calls
        /\ sent'[r].done = (ev = "done")
    <3>1. [text  |-> IF ev = "text" THEN Append(sent[r].text, n) ELSE sent[r].text,
           calls |-> IF ev = "tools" THEN Append(sent[r].calls, n) ELSE sent[r].calls,
           done  |-> ev = "done"] \in Stream
      BY <2>1, Sequences DEF Stream
    <3>2. sent \in [Req -> Stream]
      BY <1>1 DEF Typed
    <3>. QED
      BY <1>4, <3>1, <3>2
  <2>5. ev \in {"text", "tools"} => Count(r)' = n
    <3>1. /\ Len(Append(sent[r].text, n)) + Len(sent[r].calls) = Len(sent[r].text) + Len(sent[r].calls) + 1
          /\ Len(sent[r].text) + Len(Append(sent[r].calls, n)) = Len(sent[r].text) + Len(sent[r].calls) + 1
      BY <2>1, Lengths
    <3>2. n = Len(sent[r].text) + Len(sent[r].calls) + 1
      BY <2>1 DEF Count
    <3>3. Count(r)' = Len(sent'[r].text) + Len(sent'[r].calls)
      BY DEF Count
    <3>4. CASE ev = "text"
      <4>1. sent'[r].text = Append(sent[r].text, n) /\ sent'[r].calls = sent[r].calls
        BY <2>4, <3>4
      <4>. QED
        BY <3>1, <3>2, <3>3, <4>1
    <3>5. CASE ev = "tools"
      <4>1. sent'[r].text = sent[r].text /\ sent'[r].calls = Append(sent[r].calls, n)
        BY <2>4, <3>5
      <4>. QED
        BY <3>1, <3>2, <3>3, <4>1
    <3>. QED
      BY <3>4, <3>5
  <2>6. Typed'
    BY <1>1, <1>2, <2>2, <2>3, <2>4 DEF Typed
  <2>7. RequestInv(r)'
    BY <1>1, <1>2, <1>4, <2>2, <2>3, <2>4, <2>5
       DEF RequestInv, CallsAreThere, Ends, Untouched, Sticks, InFlight
  <2>8. \A t \in Pieces : TextIsThere(r, t) => TextIsThere(r, t)'
    BY <1>1, <1>2, <2>2, <2>3, <2>4, <2>5 DEF TextIsThere, InFlight
  <2>9. worker[r] \notin {"none", "gone"} /\ worker'[r] # "none"
    BY <1>1, <2>2
  <2>. QED
    BY <1>2, <2>2, <2>3, <2>4, <2>6, <2>7, <2>8, <2>9, ThreadStep
<1>. QED
  BY <1>1, <1>3, <1>4 DEF ReadLine

(* What was read is handed over.                                           *)
LEMMA HandleStep ==
  ASSUME IInv, NEW r \in Req, Handle(r)
  PROVE  IInv'
<1>1. Typed /\ RequestInv(r) /\ worker[r] = "handle"
  BY DEF IInv, Handle
<1>2. reg' = reg /\ event' = event /\ sent' = sent /\ client' = client /\ results' = results
  BY DEF Handle
<1>3. /\ delta[r] \in Pieces /\ calls[r] \in Pieces /\ Count(r) \in Nat
      /\ Count(r)' = Count(r)
  <2>1. delta[r] \in Pieces /\ calls[r] \in Pieces
    BY <1>1 DEF Typed
  <2>2. Count(r) \in Nat
    BY <1>1, Counts
  <2>3. Count(r)' = Count(r)
    BY <1>2 DEF Count
  <2>. QED
    BY <2>1, <2>2, <2>3
<1>4. ASSUME NEW to \in {"loop", "ok", "err"}, Moves(r, to)
      PROVE  /\ worker' \in [Req -> WorkerPC] /\ worker'[r] = to
             /\ \A q \in Req \ {r} : worker'[q] = worker[q]
  BY <1>1, <1>4, Replaced DEF Typed, Moves, WorkerPC
<1>5. CASE PushText(r)
  <2>1. /\ worker' \in [Req -> WorkerPC] /\ worker'[r] = "loop"
        /\ \A q \in Req \ {r} : worker'[q] = worker[q]
    BY <1>4, <1>5 DEF PushText
  <2>2. event[r] = "text" /\ state' = state /\ cancel' = cancel /\ calls' = calls
    BY <1>5 DEF PushText
  <2>3. /\ delta' \in [Req -> Pieces] /\ (\A q \in Req \ {r} : delta'[q] = delta[q])
        /\ delta'[r] = IF cancel[r] THEN delta[r] ELSE Append(delta[r], Count(r))
    <3>1. Append(delta[r], Count(r)) \in Pieces /\ delta \in [Req -> Pieces]
      BY <1>1, <1>3, Sequences DEF Typed
    <3>2. delta' = IF cancel[r] THEN delta ELSE [delta EXCEPT ![r] = Append(delta[r], Count(r))]
      BY <1>5 DEF PushText
    <3>. QED
      BY <3>1, <3>2, Replaced
  <2>4. Typed'
    BY <1>1, <1>2, <2>1, <2>2, <2>3 DEF Typed
  <2>5. RequestInv(r)'
    BY <1>1, <1>2, <1>3, <2>1, <2>2
       DEF RequestInv, CallsAreThere, Ends, Untouched, Sticks, InFlight
  <2>6. ASSUME NEW t \in Pieces, ~cancel[r], TextIsThere(r, t)
        PROVE  TextIsThere(r, t)'
    <3>1. Append(t \o delta[r], Count(r)) = sent[r].text
      BY <1>1, <2>2, <2>6 DEF TextIsThere, InFlight
    <3>2. t \o Append(delta[r], Count(r)) = Append(t \o delta[r], Count(r))
      BY <1>3, Sequences
    <3>3. delta'[r] = Append(delta[r], Count(r)) /\ ~(worker'[r] = "handle")
      BY <2>1, <2>3, <2>6
    <3>4. t \o delta'[r] = sent'[r].text
      BY <1>2, <3>1, <3>2, <3>3
    <3>. QED
      BY <3>3, <3>4 DEF TextIsThere, InFlight
  <2>7. worker[r] \notin {"none", "gone"} /\ worker'[r] # "none"
    BY <1>1, <2>1
  <2>. QED
    BY <1>2, <2>1, <2>2, <2>3, <2>4, <2>5, <2>6, <2>7, ThreadStep
<1>6. CASE PushTool(r)
  <2>1. /\ worker' \in [Req -> WorkerPC] /\ worker'[r] = "loop"
        /\ \A q \in Req \ {r} : worker'[q] = worker[q]
    BY <1>4, <1>6 DEF PushTool
  <2>2. event[r] = "tools" /\ state' = state /\ cancel' = cancel /\ delta' = delta
    BY <1>6 DEF PushTool
  <2>3. /\ calls' \in [Req -> Pieces] /\ (\A q \in Req \ {r} : calls'[q] = calls[q])
        /\ calls'[r] = Append(calls[r], Count(r))
    <3>1. Append(calls[r], Count(r)) \in Pieces /\ calls \in [Req -> Pieces]
      BY <1>1, <1>3, Sequences DEF Typed
    <3>2. calls' = [calls EXCEPT ![r] = Append(calls[r], Count(r))]
      BY <1>6 DEF PushTool
    <3>. QED
      BY <3>1, <3>2, Replaced
  <2>4. Typed'
    BY <1>1, <1>2, <2>1, <2>2, <2>3 DEF Typed
  <2>5. RequestInv(r)'
    BY <1>1, <1>2, <1>3, <2>1, <2>2, <2>3
       DEF RequestInv, CallsAreThere, Ends, Untouched, Sticks, InFlight
  <2>6. \A t : TextIsThere(r, t) => TextIsThere(r, t)'
    BY <1>1, <1>2, <2>1, <2>2 DEF TextIsThere, InFlight
  <2>7. worker[r] \notin {"none", "gone"} /\ worker'[r] # "none"
    BY <1>1, <2>1
  <2>. QED
    BY <1>2, <2>1, <2>2, <2>3, <2>4, <2>5, <2>6, <2>7, ThreadStep
<1>7. CASE Close(r)
  <2>1. PICK to \in {"ok", "err"} : Moves(r, to) /\ event[r] = IF to = "ok" THEN "done" ELSE "bad"
    BY <1>7 DEF Close
  <2>2. /\ worker' \in [Req -> WorkerPC] /\ worker'[r] = to
        /\ \A q \in Req \ {r} : worker'[q] = worker[q]
    BY <1>4, <2>1
  <2>3. state' = state /\ cancel' = cancel /\ delta' = delta /\ calls' = calls
    BY <1>7 DEF Close, reqVars
  <2>4. Typed'
    BY <1>1, <1>2, <2>2, <2>3 DEF Typed
  <2>5. RequestInv(r)'
    BY <1>1, <1>2, <1>3, <2>1, <2>2, <2>3
       DEF RequestInv, CallsAreThere, Ends, Untouched, Sticks, InFlight
  <2>6. \A t : TextIsThere(r, t) => TextIsThere(r, t)'
    BY <1>1, <1>2, <2>1, <2>2, <2>3 DEF TextIsThere, InFlight
  <2>7. worker[r] \notin {"none", "gone"} /\ worker'[r] # "none"
    BY <1>1, <2>2
  <2>. QED
    BY <1>2, <2>2, <2>3, <2>4, <2>5, <2>6, <2>7, ThreadStep
<1>. QED
  BY <1>5, <1>6, <1>7 DEF Handle

(* The thread's last step.                                                 *)
LEMMA FinishStep ==
  ASSUME IInv, NEW r \in Req, Finish(r)
  PROVE  IInv'
<1>1. Typed /\ RequestInv(r) /\ worker[r] \in {"ok", "err"}
  BY DEF IInv, Finish
<1>2. /\ reg' = reg /\ cancel' = cancel /\ delta' = delta /\ calls' = calls /\ event' = event
      /\ sent' = sent /\ client' = client /\ results' = results
  BY DEF Finish
<1>3. /\ worker' \in [Req -> WorkerPC] /\ worker'[r] = "gone"
      /\ \A q \in Req \ {r} : worker'[q] = worker[q]
  BY <1>1, Replaced DEF Finish, Typed, Moves, WorkerPC
<1>4. /\ state' \in [Req -> States] /\ \A q \in Req \ {r} : state'[q] = state[q]
      /\ state'[r] = IF cancel[r] \/ worker[r] = "ok" THEN "DONE" ELSE "ERROR"
  BY <1>1, Replaced DEF Finish, SetState, Typed, States
<1>5. Typed'
  BY <1>1, <1>2, <1>3, <1>4 DEF Typed
<1>6. RequestInv(r)'
  BY <1>1, <1>2, <1>3, <1>4 DEF RequestInv, CallsAreThere, Ends, Untouched, Sticks, InFlight, Count
<1>7. \A t : TextIsThere(r, t) => TextIsThere(r, t)'
  BY <1>1, <1>2, <1>3 DEF TextIsThere, InFlight
<1>8. worker[r] \notin {"none", "gone"} /\ worker'[r] # "none"
  BY <1>1, <1>3
<1>. QED
  BY <1>2, <1>3, <1>4, <1>5, <1>6, <1>7, <1>8, ThreadStep

LEMMA WorkerStep ==
  ASSUME IInv, NEW r \in Req, Worker(r)
  PROVE  IInv'
  BY BetweenSteps, ReadLineStep, HandleStep, FinishStep DEF Worker

(* A step of a client concerns nobody but the client and its request.      *)
LEMMA ClientStep ==
  ASSUME IInv, Typed', NEW c \in Client, Holds(c), NEW h \in Req, h = Held(c),
         worker' = worker, event' = event, sent' = sent, calls' = calls,
         \A s \in Slot \ {client[c].slot} : reg'[s] = reg[s],
         \A q \in Req \ {h} : state'[q] = state[q] /\ cancel'[q] = cancel[q] /\ delta'[q] = delta[q],
         (state'[h] = state[h] /\ cancel'[h] = cancel[h]) \/ (cancel'[h] /\ state'[h] = "DONE"),
         \A d \in Client \ {c} : client'[d] = client[d],
         ClientInv(c)', Holds(c)' => Held(c)' = h,
         ResultsAreLast', AnswersAreWhole'
  PROVE  IInv'
<1>1. ClientInv(c) /\ worker[h] # "none"
  BY DEF IInv, ClientInv
<1>2. ASSUME NEW q \in Req
      PROVE  RequestInv(q)'
  <2>1. RequestInv(q)
    BY DEF IInv
  <2>2. CASE q # h
    BY <2>1, <2>2 DEF RequestInv, CallsAreThere, Ends, Untouched, Sticks, InFlight, Count
  <2>3. CASE q = h
    BY <1>1, <2>1, <2>3 DEF RequestInv, CallsAreThere, Ends, Untouched, Sticks, InFlight, Count
  <2>. QED
    BY <2>2, <2>3
<1>3. ASSUME NEW d \in Client \ {c}, Holds(d)
      PROVE  client[d].slot \in Slot /\ Held(d) \in Req \ {h} /\ Held(d)' = Held(d)
  <2>1. client[d].slot \in Slot /\ Held(d) \in Req
    BY <1>3 DEF IInv, ClientInv
  <2>2. Held(d) # h
    BY <1>3 DEF IInv, HeldOnce
  <2>3. client[d].slot # client[c].slot
    BY <2>2 DEF Held
  <2>. QED
    BY <2>1, <2>2, <2>3 DEF Held
<1>4. ASSUME NEW d \in Client
      PROVE  ClientInv(d)'
  <2>1. CASE d # c /\ Holds(d)
    <3>1. ClientInv(d) /\ Holds(d) /\ client'[d] = client[d]
      BY <2>1 DEF IInv
    <3>2. client[d].slot \in Slot /\ Held(d) \in Req \ {h} /\ Held(d)' = Held(d)
      BY <1>3, <2>1
    <3>3. \A t : TextIsThere(Held(d), t)' <=> TextIsThere(Held(d), t)
      BY <3>2 DEF TextIsThere, InFlight, Count
    <3>. QED
      BY <3>1, <3>2, <3>3 DEF ClientInv, Holds
  <2>2. CASE d # c /\ ~Holds(d)
    BY <2>2 DEF ClientInv, Holds
  <2>. QED
    BY <2>1, <2>2
<1>5. HeldOnce'
  <2>1. \A d \in Client \ {c} : Holds(d)' <=> Holds(d)
    BY DEF Holds
  <2>. QED
    BY <1>3, <2>1 DEF IInv, HeldOnce
<1>. QED
  BY <1>2, <1>4, <1>5 DEF IInv

(* Taking the text moves it from the request to its client.                *)
LEMMA TakeDeltaStep ==
  ASSUME IInv, NEW c \in Client, Drain(c) \/ DrainAgain(c)
  PROVE  IInv'
<1>1. PICK to \in {"poll", "drain", "calls", "free"} :
        /\ TakeDelta(c, to)
        /\ to \in {"calls", "free"} => client[c].at = "again" /\ (to = "calls" <=> client[c].seen = "DONE")
  BY DEF Drain, DrainAgain
<1>2. client[c].at \in {"drain", "again"} /\ Holds(c)
  BY DEF Drain, DrainAgain, Holds
<1>3. /\ Typed /\ ClientInv(c) /\ Held(c) \in Req /\ ResultsAreLast /\ AnswersAreWhole
      /\ client[c].slot \in Slot
  BY <1>2 DEF IInv, ClientInv
<1>4. /\ reg' = reg /\ state' = state /\ cancel' = cancel /\ calls' = calls /\ worker' = worker
      /\ event' = event /\ sent' = sent /\ results' = results
  BY <1>1 DEF TakeDelta, workerVars
<1>5. /\ client[c] \in Holder /\ client[c].text \in Pieces /\ delta[Held(c)] \in Pieces
      /\ client[c].text \o delta[Held(c)] \in Pieces
  BY <1>3, Sequences DEF Typed, Holder
<1>6. /\ client' \in [Client -> Holder] /\ (\A d \in Client \ {c} : client'[d] = client[d])
      /\ client'[c].text = client[c].text \o delta[Held(c)] /\ client'[c].at = to
      /\ client'[c].slot = client[c].slot /\ client'[c].seen = client[c].seen
      /\ client'[c].calls = client[c].calls
  <2>1. client' = [client EXCEPT ![c].text = client[c].text \o delta[Held(c)], ![c].at = to]
    BY <1>1 DEF TakeDelta
  <2>2. to \in ClientPC /\ client \in [Client -> Holder]
    BY <1>3 DEF ClientPC, Typed
  <2>. QED
    BY <1>5, <2>1, <2>2 DEF Holder
<1>7. /\ delta' \in [Req -> Pieces] /\ delta'[Held(c)] = <<>>
      /\ \A q \in Req \ {Held(c)} : delta'[q] = delta[q]
  <2>1. delta' = [delta EXCEPT ![Held(c)] = <<>>] /\ delta \in [Req -> Pieces]
    BY <1>1, <1>3 DEF TakeDelta, Typed
  <2>. QED
    BY <1>3, <2>1, Sequences, Replaced
<1>8. Typed'
  BY <1>3, <1>4, <1>6, <1>7 DEF Typed
<1>9. Held(c)' = Held(c) /\ Holds(c)'
  BY <1>1, <1>4, <1>6 DEF Held, Holds
<1>10. ClientInv(c)'
  <2>1. TextIsThere(Held(c), client[c].text) /\ ~cancel[Held(c)]
    BY <1>2, <1>3 DEF ClientInv
  <2>2. client'[c].text \o delta'[Held(c)] = client[c].text \o delta[Held(c)]
    BY <1>5, <1>6, <1>7, Sequences
  <2>3. TextIsThere(Held(c), client[c].text)' 
        <=> IF InFlight(Held(c), "text")
            THEN Append(client'[c].text \o delta'[Held(c)], Count(Held(c))) = sent[Held(c)].text
            ELSE client'[c].text \o delta'[Held(c)] = sent[Held(c)].text
    BY <1>4, <1>9 DEF TextIsThere, InFlight, Count
  <2>4. TextIsThere(Held(c), client[c].text)'
    BY <2>1, <2>2, <2>3 DEF TextIsThere
  <2>5. to \in {"calls", "free"} => client[c].seen \in Final /\ state[Held(c)] = client[c].seen
    BY <1>1, <1>2, <1>3 DEF ClientInv
  <2>. QED
    BY <1>1, <1>2, <1>3, <1>4, <1>6, <1>7, <1>9, <2>1, <2>4, <2>5 DEF ClientInv
<1>11. ResultsAreLast' /\ AnswersAreWhole'
  BY <1>3, <1>4 DEF ResultsAreLast, AnswersAreWhole
<1>. QED
  BY <1>2, <1>3, <1>4, <1>6, <1>7, <1>8, <1>9, <1>10, <1>11, ClientStep

(* Looking at the state or taking the calls changes the client only.       *)
LEMMA LookStep ==
  ASSUME IInv, NEW c \in Client, Poll(c) \/ TakeCalls(c)
  PROVE  IInv'
<1>1. client[c].at \in {"poll", "calls"} /\ Holds(c)
  BY DEF Poll, TakeCalls, Holds
<1>2. /\ Typed /\ ClientInv(c) /\ Held(c) \in Req /\ ResultsAreLast /\ AnswersAreWhole
      /\ client[c].slot \in Slot
  BY <1>1 DEF IInv, ClientInv
<1>3. /\ reg' = reg /\ state' = state /\ cancel' = cancel /\ calls' = calls /\ worker' = worker
      /\ event' = event /\ sent' = sent /\ results' = results /\ delta' = delta
  BY DEF Poll, TakeCalls, workerVars, reqVars
<1>4. client \in [Client -> Holder] /\ client[c] \in Holder /\ state[Held(c)] \in States /\ calls[Held(c)] \in Pieces
  BY <1>2 DEF Typed
<1>5. PICK to \in ClientPC, st \in States, cs \in Pieces :
        /\ client' = [client EXCEPT ![c] = [client[c] EXCEPT !.at = to, !.seen = st, !.calls = cs]]
        /\ \/ client[c].at = "poll" /\ st = state[Held(c)] /\ cs = client[c].calls
              /\ to = IF st \in Final THEN "again" ELSE "drain"
           \/ client[c].at = "calls" /\ st = client[c].seen /\ cs = calls[Held(c)] /\ to = "free"
  <2>1. CASE Poll(c)
    <3>1. client' = [client EXCEPT ![c] = [client[c] EXCEPT !.at = IF state[Held(c)] \in Final THEN "again" ELSE "drain",
                                           !.seen = state[Held(c)], !.calls = client[c].calls]]
      BY <1>4, <2>1 DEF Poll, Holder
    <3>2. client[c].at = "poll" /\ client[c].calls \in Pieces
      BY <1>4, <2>1 DEF Poll, Holder
    <3>3. "again" \in ClientPC /\ "drain" \in ClientPC
      BY DEF ClientPC
    <3>. QED
      BY <1>4, <3>1, <3>2, <3>3
  <2>2. CASE TakeCalls(c)
    <3>1. client' = [client EXCEPT ![c] = [client[c] EXCEPT !.at = "free",
                                           !.seen = client[c].seen, !.calls = calls[Held(c)]]]
      BY <1>4, <2>2 DEF TakeCalls, Holder
    <3>2. client[c].at = "calls" /\ client[c].seen \in States
      BY <1>4, <2>2 DEF TakeCalls, Holder
    <3>3. "free" \in ClientPC
      BY DEF ClientPC
    <3>. QED
      BY <1>4, <3>1, <3>2, <3>3
  <2>. QED
    BY <2>1, <2>2
<1>6. /\ client' \in [Client -> Holder] /\ (\A d \in Client \ {c} : client'[d] = client[d])
      /\ client'[c].text = client[c].text /\ client'[c].slot = client[c].slot
      /\ client'[c].at = to /\ client'[c].seen = st /\ client'[c].calls = cs
  BY <1>4, <1>5 DEF Holder
<1>7. Typed'
  BY <1>2, <1>3, <1>6 DEF Typed
<1>8. Held(c)' = Held(c)
  BY <1>3, <1>6 DEF Held
<1>9. ClientInv(c)'
  <2>1. TextIsThere(Held(c), client[c].text)' <=> TextIsThere(Held(c), client[c].text)
    BY <1>3, <1>6, <1>8 DEF TextIsThere, InFlight, Count
  <2>. QED
    BY <1>1, <1>2, <1>3, <1>5, <1>6, <1>8, <2>1 DEF ClientInv, Holds
<1>10. ResultsAreLast' /\ AnswersAreWhole'
  BY <1>2, <1>3 DEF ResultsAreLast, AnswersAreWhole
<1>. QED
  BY <1>1, <1>2, <1>3, <1>6, <1>7, <1>8, <1>9, <1>10, ClientStep

LEMMA Cancels ==
  ASSUME Typed, NEW h \in Req, Cancelled(h)
  PROVE  /\ state' \in [Req -> States] /\ cancel' \in [Req -> BOOLEAN] /\ delta' = delta /\ calls' = calls
         /\ cancel'[h] /\ state'[h] = "DONE"
         /\ \A q \in Req \ {h} : state'[q] = state[q] /\ cancel'[q] = cancel[q]
<1>1. state' = [state EXCEPT ![h] = "DONE"] /\ state \in [Req -> States] /\ "DONE" \in States
  BY DEF Cancelled, Typed, States
<1>2. cancel' = [cancel EXCEPT ![h] = TRUE] /\ cancel \in [Req -> BOOLEAN]
  BY DEF Cancelled, Typed
<1>3. delta' = delta /\ calls' = calls
  BY DEF Cancelled
<1>. QED
  BY <1>1, <1>2, <1>3, Replaced

LEMMA CancelStep ==
  ASSUME IInv, NEW c \in Client, Cancel(c)
  PROVE  IInv'
<1>1. client[c].at = "drain" /\ Holds(c)
  BY DEF Cancel, Holds
<1>2. /\ Typed /\ ClientInv(c) /\ Held(c) \in Req /\ ResultsAreLast /\ AnswersAreWhole
      /\ client[c].slot \in Slot
  BY <1>1 DEF IInv, ClientInv
<1>3. /\ reg' = reg /\ worker' = worker /\ event' = event /\ sent' = sent /\ results' = results
      /\ Cancelled(Held(c))
  BY DEF Cancel, workerVars
<1>4. /\ state' \in [Req -> States] /\ cancel' \in [Req -> BOOLEAN] /\ delta' = delta /\ calls' = calls
      /\ cancel'[Held(c)] /\ state'[Held(c)] = "DONE"
      /\ \A q \in Req \ {Held(c)} : state'[q] = state[q] /\ cancel'[q] = cancel[q]
  BY <1>2, <1>3, Cancels
<1>5. /\ client' \in [Client -> Holder] /\ (\A d \in Client \ {c} : client'[d] = client[d])
      /\ client'[c].slot = client[c].slot /\ client'[c].at = "cancelled"
      /\ client'[c].calls = client[c].calls
  <2>1. client' = [client EXCEPT ![c].at = "cancelled"]
    BY DEF Cancel, Goes
  <2>2. "cancelled" \in ClientPC /\ client \in [Client -> Holder]
    BY <1>2 DEF ClientPC, Typed
  <2>. QED
    BY <2>1, <2>2 DEF Holder
<1>6. Typed'
  BY <1>2, <1>3, <1>4, <1>5 DEF Typed
<1>7. Held(c)' = Held(c) /\ Holds(c)'
  BY <1>3, <1>5 DEF Held, Holds
<1>8. ClientInv(c)'
  BY <1>1, <1>2, <1>3, <1>5, <1>7 DEF ClientInv
<1>9. ResultsAreLast' /\ AnswersAreWhole'
  BY <1>2, <1>3 DEF ResultsAreLast, AnswersAreWhole
<1>. QED
  BY <1>1, <1>2, <1>3, <1>4, <1>5, <1>6, <1>7, <1>8, <1>9, ClientStep

(* A client that ends with its answer has all of it.                       *)
LEMMA WholeAtEnd ==
  ASSUME IInv, NEW c \in Client, client[c].at = "free"
  PROVE  /\ Held(c) \in Req /\ worker[Held(c)] = "gone"
         /\ client[c].text = sent[Held(c)].text
         /\ client[c].seen = "DONE" => sent[Held(c)].done /\ client[c].calls = sent[Held(c)].calls
         /\ client[c].seen = "ERROR" => client[c].calls = <<>>
<1>1. ClientInv(c) /\ Holds(c) /\ Typed
  BY DEF IInv, Holds
<1>2. /\ Held(c) \in Req /\ ~cancel[Held(c)] /\ TextIsThere(Held(c), client[c].text)
      /\ client[c].seen \in Final /\ state[Held(c)] = client[c].seen /\ delta[Held(c)] = <<>>
      /\ client[c].calls = IF client[c].seen = "DONE" THEN calls[Held(c)] ELSE <<>>
  BY <1>1 DEF ClientInv
<1>3. Ends(Held(c)) /\ CallsAreThere(Held(c))
  BY <1>2 DEF IInv, RequestInv
<1>4. worker[Held(c)] = "gone" /\ (client[c].seen = "DONE" => sent[Held(c)].done)
  BY <1>2, <1>3 DEF Ends, Final
<1>5. client[c].text \o <<>> = sent[Held(c)].text /\ calls[Held(c)] = sent[Held(c)].calls
  BY <1>2, <1>3, <1>4 DEF TextIsThere, CallsAreThere, InFlight
<1>6. client[c].text \in Pieces
  BY <1>1 DEF Typed, Holder
<1>7. client[c].text = sent[Held(c)].text
  BY <1>5, <1>6, Sequences
<1>. QED
  BY <1>2, <1>4, <1>5, <1>7

LEMMA ReleaseStep ==
  ASSUME NoReq \notin Req, IInv, NEW c \in Client, Free(c) \/ FreeCancelled(c)
  PROVE  IInv'
<1>1. client[c].at \in {"free", "cancelled"} /\ Holds(c) /\ Release(c)
  BY DEF Free, FreeCancelled, Holds
<1>2. /\ Typed /\ ClientInv(c) /\ Held(c) \in Req /\ ResultsAreLast /\ AnswersAreWhole
      /\ client[c].slot \in Slot
  BY <1>1 DEF IInv, ClientInv
<1>3. worker' = worker /\ event' = event /\ sent' = sent /\ Cancelled(Held(c))
  BY <1>1 DEF Release, workerVars
<1>4. /\ state' \in [Req -> States] /\ cancel' \in [Req -> BOOLEAN] /\ delta' = delta /\ calls' = calls
      /\ cancel'[Held(c)] /\ state'[Held(c)] = "DONE"
      /\ \A q \in Req \ {Held(c)} : state'[q] = state[q] /\ cancel'[q] = cancel[q]
  BY <1>2, <1>3, Cancels
<1>5. /\ client' \in [Client -> Holder] /\ (\A d \in Client \ {c} : client'[d] = client[d])
      /\ client'[c].at = "idle"
  <2>1. client' = [client EXCEPT ![c] = NoClient] /\ client \in [Client -> Holder]
    BY <1>1, <1>2 DEF Release, Typed
  <2>2. NoClient \in Holder /\ NoClient.at = "idle"
    BY Sequences DEF NoClient, Holder, ClientPC, States
  <2>. QED
    BY <2>1, <2>2, Replaced
<1>6. reg' \in [Slot -> Req \cup {NoReq}] /\ \A s \in Slot \ {client[c].slot} : reg'[s] = reg[s]
  <2>1. reg' = [reg EXCEPT ![client[c].slot] = NoReq] /\ reg \in [Slot -> Req \cup {NoReq}]
    BY <1>1, <1>2 DEF Release, Typed
  <2>. QED
    BY <1>2, <2>1, Replaced
<1>7. Typed'
  BY <1>2, <1>3, <1>4, <1>5, <1>6 DEF Typed
<1>8. ~Holds(c)' /\ ClientInv(c)'
  BY <1>5 DEF Holds, ClientInv
<1>9. ResultsAreLast' /\ AnswersAreWhole'
  <2>1. CASE FreeCancelled(c)
    BY <1>2, <1>3, <2>1 DEF FreeCancelled, ResultsAreLast, AnswersAreWhole
  <2>2. CASE Free(c)
    <3>. DEFINE y == [req |-> Held(c), st |-> client[c].seen, text |-> client[c].text, calls |-> client[c].calls]
    <3>1. /\ results' = results \cup {y} /\ y.req = Held(c) /\ y.st = client[c].seen
          /\ y.text = client[c].text /\ y.calls = client[c].calls
      BY <2>2 DEF Free
    <3>. HIDE DEF y
    <3>2. client[c].at = "free"
      BY <2>2 DEF Free
    <3>3. /\ worker[y.req] = "gone" /\ y.text = sent[y.req].text
          /\ y.st = "DONE" => sent[y.req].done /\ y.calls = sent[y.req].calls
          /\ y.st = "ERROR" => y.calls = <<>>
      BY <3>1, <3>2, WholeAtEnd
    <3>. QED
      BY <1>2, <1>3, <3>1, <3>3 DEF ResultsAreLast, AnswersAreWhole
  <2>. QED
    BY <1>1, <2>1, <2>2
<1>. QED
  BY <1>1, <1>2, <1>3, <1>4, <1>5, <1>6, <1>7, <1>8, <1>9, ClientStep

(* A new request, with or without a thread, is held by nobody else.        *)
LEMMA StartStep ==
  ASSUME NoReq \notin Req, IInv, NEW c \in Client, NEW r \in Req, NEW s \in Slot, Start(c, r, s)
  PROVE  IInv'
<1>1. /\ client[c].at = "idle" /\ worker[r] = "none" /\ state[r] = "PENDING" /\ ~cancel[r] /\ reg[s] = NoReq
      /\ cancel' = cancel /\ delta' = delta /\ calls' = calls /\ event' = event /\ sent' = sent /\ results' = results
  BY DEF Start
<1>2. Typed /\ RequestInv(r) /\ ResultsAreLast /\ AnswersAreWhole
  BY DEF IInv
<1>3. reg' \in [Slot -> Req \cup {NoReq}] /\ reg'[s] = r /\ \A t \in Slot \ {s} : reg'[t] = reg[t]
  BY <1>2, Replaced DEF Start, Typed
<1>4. /\ client' \in [Client -> Holder] /\ (\A d \in Client \ {c} : client'[d] = client[d])
      /\ client'[c].at = "drain" /\ client'[c].slot = s /\ client'[c].text = <<>> /\ client'[c].calls = <<>>
  <2>. DEFINE new == [NoClient EXCEPT !.at = "drain", !.slot = s]
  <2>1. client' = [client EXCEPT ![c] = new] /\ client \in [Client -> Holder]
    BY <1>2 DEF Start, Typed
  <2>2. NoClient \in Holder /\ NoClient.text = <<>> /\ NoClient.calls = <<>>
    BY Sequences DEF NoClient, Holder, ClientPC, States
  <2>3. new \in Holder /\ new.at = "drain" /\ new.slot = s /\ new.text = <<>> /\ new.calls = <<>>
    <3>1. "drain" \in ClientPC /\ s \in Slot \cup {NoSlot}
      BY DEF ClientPC
    <3>. HIDE DEF NoClient
    <3>. QED
      BY <2>2, <3>1 DEF Holder
  <2>. HIDE DEF new
  <2>. QED
    BY <2>1, <2>3, Replaced
<1>5. /\ state' \in [Req -> States] /\ worker' \in [Req -> WorkerPC]
      /\ \A q \in Req \ {r} : state'[q] = state[q] /\ worker'[q] = worker[q]
      /\ (worker'[r] = "connect" /\ state'[r] = "PENDING") \/ (worker'[r] = "gone" /\ state'[r] = "ERROR")
  <2>1. CASE Moves(r, "connect") /\ UNCHANGED state
    BY <1>1, <1>2, <2>1, Replaced DEF Typed, Moves, WorkerPC
  <2>2. CASE state' = [state EXCEPT ![r] = "ERROR"] /\ Moves(r, "gone")
    BY <1>2, <2>2, Replaced DEF Typed, Moves, WorkerPC, States
  <2>. QED
    BY <2>1, <2>2 DEF Start
<1>6. Typed'
  BY <1>1, <1>2, <1>3, <1>4, <1>5 DEF Typed
<1>7. ASSUME NEW q \in Req
      PROVE  RequestInv(q)'
  <2>1. RequestInv(q)
    BY DEF IInv
  <2>2. CASE q # r
    BY <1>1, <1>5, <2>1, <2>2 DEF RequestInv, CallsAreThere, Ends, Untouched, Sticks, InFlight, Count
  <2>3. CASE q = r
    BY <1>1, <1>5, <2>1, <2>3 DEF RequestInv, CallsAreThere, Ends, Untouched, Sticks, InFlight, Count
  <2>. QED
    BY <2>2, <2>3
<1>8. ASSUME NEW d \in Client \ {c}, Holds(d)
      PROVE  client[d].slot \in Slot /\ Held(d) \in Req \ {r} /\ Held(d)' = Held(d) /\ client'[d] = client[d]
  <2>1. client[d].slot \in Slot /\ Held(d) \in Req /\ worker[Held(d)] # "none"
    BY <1>8 DEF IInv, ClientInv
  <2>2. client[d].slot # s
    BY <1>1, <2>1 DEF Held
  <2>. QED
    BY <1>1, <1>3, <1>4, <2>1, <2>2 DEF Held
<1>9. ASSUME NEW d \in Client
      PROVE  ClientInv(d)'
  <2>1. CASE d # c /\ Holds(d)
    <3>1. ClientInv(d) /\ Holds(d)
      BY <2>1 DEF IInv
    <3>2. client[d].slot \in Slot /\ Held(d) \in Req \ {r} /\ Held(d)' = Held(d) /\ client'[d] = client[d]
      BY <1>8, <2>1
    <3>3. \A t : TextIsThere(Held(d), t)' <=> TextIsThere(Held(d), t)
      BY <1>1, <1>5, <3>2 DEF TextIsThere, InFlight, Count
    <3>. QED
      BY <1>1, <1>5, <3>1, <3>2, <3>3 DEF ClientInv, Holds
  <2>2. CASE d # c /\ ~Holds(d)
    BY <1>4, <2>2 DEF ClientInv, Holds
  <2>3. CASE d = c
    <3>1. Held(c)' = r
      BY <1>3, <1>4 DEF Held
    <3>2. client'[c].text \o delta'[r] = sent'[r].text /\ worker'[r] # "handle" /\ worker'[r] # "none"
      <4>1. delta[r] = <<>> /\ sent[r].text = <<>>
        BY <1>1, <1>2 DEF RequestInv, Untouched
      <4>. QED
        BY <1>1, <1>4, <1>5, <4>1, Sequences
    <3>3. TextIsThere(r, client[c].text)'
      BY <3>2 DEF TextIsThere, InFlight
    <3>. QED
      BY <1>1, <1>4, <2>3, <3>1, <3>2, <3>3 DEF ClientInv
  <2>. QED
    BY <2>1, <2>2, <2>3
<1>10. HeldOnce'
  <2>1. Held(c)' = r /\ \A d \in Client \ {c} : Holds(d)' <=> Holds(d)
    BY <1>3, <1>4 DEF Held, Holds
  <2>. QED
    BY <1>8, <2>1 DEF IInv, HeldOnce
<1>11. ResultsAreLast' /\ AnswersAreWhole'
  BY <1>1, <1>2, <1>5 DEF ResultsAreLast, AnswersAreWhole
<1>. QED
  BY <1>6, <1>7, <1>9, <1>10, <1>11 DEF IInv

LEMMA Inductive == ASSUME NoReq \notin Req, IInv, [Next]_vars PROVE IInv'
<1>1. ASSUME NEW r \in Req, Worker(r) PROVE IInv'
  BY <1>1, WorkerStep
<1>2. ASSUME NEW c \in Client, Frame(c) \/ Cancel(c) PROVE IInv'
  BY <1>2, TakeDeltaStep, LookStep, ReleaseStep, CancelStep DEF Frame
<1>3. ASSUME NEW c \in Client, NEW r \in Req, NEW s \in Slot, Start(c, r, s) PROVE IInv'
  BY <1>3, StartStep
<1>4. CASE UNCHANGED vars
  BY <1>4 DEF vars, IInv, Typed, RequestInv, CallsAreThere, Ends, Untouched, Sticks, InFlight, Count,
              ClientInv, Holds, Held, TextIsThere, HeldOnce, ResultsAreLast, AnswersAreWhole
<1>. QED
  BY <1>1, <1>2, <1>3, <1>4 DEF Next

(* Whatever the provider sends and whenever the interface polls, the       *)
(* answer a client ends with is the answer that was sent, complete and in  *)
(* order (llm.rs:747, scenes/ai.lua:1177).                                 *)
THEOREM WholeAnswers == ASSUME NoReq \notin Req PROVE Spec => []AnswersAreWhole
<1>1. IInv => AnswersAreWhole
  BY DEF IInv
<1>. QED
  BY <1>1, Initial, Inductive, PTL DEF Spec

(* A cancelled request stays DONE (llm.rs:533, 591).                       *)
THEOREM CancelIsFinal == ASSUME NoReq \notin Req PROVE Spec => []CancelSticks
<1>1. IInv => CancelSticks
  BY DEF IInv, RequestInv, Sticks, CancelSticks
<1>. QED
  BY <1>1, Initial, Inductive, PTL DEF Spec
=============================================================================

--------------------------------- MODULE Llm ---------------------------------
(***************************************************************************)
(* Streaming LLM requests of cbo_core (llm.rs) and the interface that      *)
(* polls them (scenes/ai.lua): a registry of request slots, one worker     *)
(* thread per request that reads the provider's stream, and clients (the   *)
(* conversation, the automatic note) that drain text, read the state, take *)
(* tool calls, cancel and free.  Each of those is a call of its own, and   *)
(* the worker runs between any two of them.                                *)
(*                                                                         *)
(* The provider's stream is a sequence of events; pieces of text and of    *)
(* tool calls are numbered in the order in which they arrive.              *)
(***************************************************************************)
EXTENDS Integers, Sequences, FiniteSets

CONSTANTS
  Req,         \* request objects
  MaxRequests, \* slots (MAX_REQUESTS)
  Client,      \* who holds request ids in the interface
  MaxPieces,   \* bound: pieces of one stream
  NoReq        \* an empty slot

Slot == 0 .. MaxRequests - 1
NoSlot == -1

States == {"PENDING", "STREAMING", "DONE", "ERROR"}
Final  == {"DONE", "ERROR"}

VARIABLES
  reg,     \* REQUESTS: slot -> request or NoReq
  state,   \* LlmReq.state
  cancel,  \* LlmReq.cancel
  delta,   \* LlmReq.delta: text not yet taken
  calls,   \* LlmReq.calls: pieces of tool calls
  worker,  \* worker[r]: where the request's thread is
  event,   \* event[r]: what the line just read holds
  sent,    \* history: [text, calls, done] the stream has carried
  client,  \* client[c]: [at, slot, text, calls, seen]
  results  \* history: what clients ended with: [req, st, text, calls]

vars == <<reg, state, cancel, delta, calls, worker, event, sent, client, results>>

reqVars == <<state, cancel, delta, calls>>
workerVars == <<worker, event, sent>>

WorkerPC == {"none", "connect", "checked", "loop", "read", "handle", "ok", "err", "gone"}
ClientPC == {"idle", "drain", "poll", "again", "calls", "free", "cancelled"}
NoClient == [at |-> "idle", slot |-> NoSlot, text |-> <<>>, calls |-> <<>>, seen |-> "PENDING"]

TypeOK ==
  /\ reg \in [Slot -> Req \cup {NoReq}]
  /\ state \in [Req -> States]
  /\ cancel \in [Req -> BOOLEAN]
  /\ delta \in [Req -> Seq(1 .. MaxPieces)]
  /\ calls \in [Req -> Seq(1 .. MaxPieces)]
  /\ worker \in [Req -> WorkerPC]
  /\ event \in [Req -> {"none", "text", "tools", "done", "bad"}]
  /\ \A c \in Client : /\ client[c].at \in ClientPC
                       /\ client[c].slot \in Slot \cup {NoSlot}
                       /\ client[c].at = "idle" <=> client[c].slot = NoSlot

Init ==
  /\ reg = [s \in Slot |-> NoReq]
  /\ state = [r \in Req |-> "PENDING"]
  /\ cancel = [r \in Req |-> FALSE]
  /\ delta = [r \in Req |-> <<>>]
  /\ calls = [r \in Req |-> <<>>]
  /\ worker = [r \in Req |-> "none"]
  /\ event = [r \in Req |-> "none"]
  /\ sent = [r \in Req |-> [text |-> <<>>, calls |-> <<>>, done |-> FALSE]]
  /\ client = [c \in Client |-> NoClient]
  /\ results = {}

-----------------------------------------------------------------------------
(* A request's thread. *)

Moves(r, to) == worker' = [worker EXCEPT ![r] = to]

(* Mutant: the state is stored without looking at the cancel flag. *)
SetState_Blind(r, st) == state' = [state EXCEPT ![r] = st]

(* set_state, under the lock that cancel takes: a cancelled request is     *)
(* DONE whatever its thread has to say.                                    *)
SetState(r, st) == state' = [state EXCEPT ![r] = IF cancel[r] THEN "DONE" ELSE st]

(* The request is posted: an error, a cancelled request, or a stream. *)
Post(r) ==
  /\ worker[r] = "connect"
  /\ Moves(r, "err") \/ Moves(r, IF cancel[r] THEN "ok" ELSE "checked")
  /\ UNCHANGED <<reg, reqVars, event, sent, client, results>>

ReportStreaming(r) ==
  /\ worker[r] = "checked"
  /\ SetState(r, "STREAMING")
  /\ Moves(r, "loop")
  /\ UNCHANGED <<reg, cancel, delta, calls, event, sent, client, results>>

LoopTop(r) ==
  /\ worker[r] = "loop"
  /\ Moves(r, IF cancel[r] THEN "ok" ELSE "read")
  /\ UNCHANGED <<reg, reqVars, event, sent, client, results>>

Count(r) == Len(sent[r].text) + Len(sent[r].calls)

(* A line of the stream: text, a piece of a tool call, the end, or         *)
(* something that ends it early (an error event, the end of the response,  *)
(* a read error or timeout, a limit), or nothing, as often as the provider *)
(* likes.  What arrives once the request is cancelled is dropped.          *)
ReadLine(r) ==
  LET n == Count(r) + 1 IN
  /\ worker[r] = "read"
  /\ \/ /\ cancel[r]
        /\ Moves(r, "ok")
        /\ UNCHANGED <<event, sent>>
     \/ /\ ~cancel[r]
        /\ \E ev \in {"text", "tools", "done", "bad"} :
             /\ ev \in {"text", "tools"} => n <= MaxPieces
             /\ event' = [event EXCEPT ![r] = ev]
             /\ sent' = [sent EXCEPT ![r] =
                          [text  |-> IF ev = "text" THEN Append(@.text, n) ELSE @.text,
                           calls |-> IF ev = "tools" THEN Append(@.calls, n) ELSE @.calls,
                           done  |-> ev = "done"]]
        /\ Moves(r, "handle")
     \/ /\ ~cancel[r]
        /\ Moves(r, "err") \/ Moves(r, "loop")
        /\ UNCHANGED <<event, sent>>
  /\ UNCHANGED <<reg, reqVars, client, results>>

(* Text goes to the buffer unless the request was cancelled meanwhile. *)
PushText(r) ==
  /\ event[r] = "text"
  /\ delta' = IF cancel[r] THEN delta ELSE [delta EXCEPT ![r] = Append(@, Count(r))]
  /\ Moves(r, "loop")
  /\ UNCHANGED <<state, cancel, calls>>

(* push_tool_delta does not ask whether the request was cancelled. *)
PushTool(r) ==
  /\ event[r] = "tools"
  /\ calls' = [calls EXCEPT ![r] = Append(@, Count(r))]
  /\ Moves(r, "loop")
  /\ UNCHANGED <<state, cancel, delta>>

Close(r) ==
  /\ event[r] \in {"done", "bad"}
  /\ Moves(r, IF event[r] = "done" THEN "ok" ELSE "err")
  /\ UNCHANGED reqVars

Handle(r) ==
  /\ worker[r] = "handle"
  /\ PushText(r) \/ PushTool(r) \/ Close(r)
  /\ UNCHANGED <<reg, event, sent, client, results>>

(* run() has returned: DONE, or ERROR with the message. *)
Finish(r) ==
  /\ worker[r] \in {"ok", "err"}
  /\ SetState(r, IF worker[r] = "ok" THEN "DONE" ELSE "ERROR")
  /\ Moves(r, "gone")
  /\ UNCHANGED <<reg, cancel, delta, calls, event, sent, client, results>>

-----------------------------------------------------------------------------
(* The interface. *)

(* cbo_llm_start: the first free slot and a thread; when no thread can be  *)
(* had the request is there and fails.                                     *)
Start(c, r, s) ==
  /\ client[c].at = "idle"
  /\ worker[r] = "none" /\ state[r] = "PENDING" /\ ~cancel[r]
  /\ reg[s] = NoReq
  /\ \A t \in Slot : t < s => reg[t] # NoReq
  /\ reg' = [reg EXCEPT ![s] = r]
  /\ client' = [client EXCEPT ![c] = [NoClient EXCEPT !.at = "drain", !.slot = s]]
  /\ \/ Moves(r, "connect") /\ UNCHANGED state
     \/ state' = [state EXCEPT ![r] = "ERROR"] /\ Moves(r, "gone")
  /\ UNCHANGED <<cancel, delta, calls, event, sent, results>>

Held(c) == reg[client[c].slot]
Goes(c, to) == client' = [client EXCEPT ![c].at = to]

(* take_delta: whatever is there, with nothing left behind. *)
TakeDelta(c, to) ==
  /\ client' = [client EXCEPT ![c].text = @ \o delta[Held(c)], ![c].at = to]
  /\ delta' = [delta EXCEPT ![Held(c)] = <<>>]
  /\ UNCHANGED <<reg, state, cancel, calls, workerVars, results>>

(* Every frame: take the text ... *)
Drain(c) ==
  /\ client[c].at = "drain"
  /\ TakeDelta(c, "poll")

(* Mutant: a final state is acted on with the text of the first drain. *)
Poll_NoSecondDrain(c) ==
  LET st == state[Held(c)] IN
  /\ client[c].at = "poll"
  /\ client' = [client EXCEPT ![c].seen = st,
                              ![c].at = IF st = "DONE" THEN "calls"
                                        ELSE IF st = "ERROR" THEN "free" ELSE "drain"]
  /\ UNCHANGED <<reg, reqVars, workerVars, results>>

(* ... read the state ... *)
Poll(c) ==
  LET st == state[Held(c)] IN
  /\ client[c].at = "poll"
  /\ client' = [client EXCEPT ![c].seen = st, ![c].at = IF st \in Final THEN "again" ELSE "drain"]
  /\ UNCHANGED <<reg, reqVars, workerVars, results>>

(* ... and, when it is final, take what came between the two.  While the   *)
(* text is still being typed out, the next frame starts over.              *)
DrainAgain(c) ==
  /\ client[c].at = "again"
  /\ \/ TakeDelta(c, IF client[c].seen = "DONE" THEN "calls" ELSE "free")
     \/ TakeDelta(c, "drain")

TakeCalls(c) ==
  /\ client[c].at = "calls"
  /\ client' = [client EXCEPT ![c].calls = calls[Held(c)], ![c].at = "free"]
  /\ UNCHANGED <<reg, reqVars, workerVars, results>>

(* Mutant: the request is shown DONE, but its thread is not told. *)
Cancelled_NotTold(r) ==
  /\ state' = [state EXCEPT ![r] = "DONE"]
  /\ UNCHANGED <<cancel, delta, calls>>

(* cancel: under the lock of the text buffer. *)
Cancelled(r) ==
  /\ cancel' = [cancel EXCEPT ![r] = TRUE]
  /\ state' = [state EXCEPT ![r] = "DONE"]
  /\ UNCHANGED <<delta, calls>>

(* free: the slot is empty, the request cancelled for its thread. *)
Release(c) ==
  /\ reg' = [reg EXCEPT ![client[c].slot] = NoReq]
  /\ client' = [client EXCEPT ![c] = NoClient]
  /\ Cancelled(Held(c))
  /\ UNCHANGED workerVars

Free(c) ==
  /\ client[c].at = "free"
  /\ results' = results \cup {[req |-> Held(c), st |-> client[c].seen,
                               text |-> client[c].text, calls |-> client[c].calls]}
  /\ Release(c)

(* Esc between two frames: cancel ... *)
Cancel(c) ==
  /\ client[c].at = "drain"
  /\ Goes(c, "cancelled")
  /\ Cancelled(Held(c))
  /\ UNCHANGED <<reg, workerVars, results>>

(* ... and free; nothing of the answer is used. *)
FreeCancelled(c) ==
  /\ client[c].at = "cancelled"
  /\ Release(c)
  /\ UNCHANGED results

-----------------------------------------------------------------------------
Worker(r) ==
  \/ Post(r) \/ ReportStreaming(r) \/ LoopTop(r) \/ ReadLine(r) \/ Handle(r) \/ Finish(r)

Frame(c) == Drain(c) \/ Poll(c) \/ DrainAgain(c) \/ TakeCalls(c) \/ Free(c) \/ FreeCancelled(c)

Next ==
  \/ \E r \in Req : Worker(r)
  \/ \E c \in Client : \/ Frame(c) \/ Cancel(c)
                       \/ \E r \in Req, s \in Slot : Start(c, r, s)

Spec == Init /\ [][Next]_vars

-----------------------------------------------------------------------------
(* Properties. *)

(* A cancelled request stays DONE, whatever its thread was about to store  *)
(* (set_state and cancel meet under one lock, llm.rs:533, 591).            *)
CancelSticks ==
  \A r \in Req : cancel[r] => state[r] = "DONE"

(* What a client ends with is the whole answer, in order, and only that:   *)
(* all the text that arrived before DONE or ERROR, and all the pieces of   *)
(* the tool calls, although text and state are read by separate calls      *)
(* (scenes/ai.lua:1177); it is shown as finished only when the provider    *)
(* said so, as a stream that breaks off is an error (llm.rs:747).          *)
AnswersAreWhole ==
  \A x \in results :
    /\ x.text = sent[x.req].text
    /\ x.st = "DONE" => sent[x.req].done /\ x.calls = sent[x.req].calls
    /\ x.st = "ERROR" => x.calls = <<>>

(* A request that was freed leaves no thread behind, even when the         *)
(* provider goes on talking (llm.rs:732).                                  *)
FreedWorkerLeaves ==
  \A r \in Req :
    (worker[r] # "none" /\ \A s \in Slot : reg[s] # r) ~> (worker[r] = "gone")

=============================================================================

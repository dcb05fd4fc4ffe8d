------------------------------- MODULE AiTurn -------------------------------
(***************************************************************************)
(* A turn of the AI panel (scenes/ai.lua) and the jobs its tools start     *)
(* (tools.lua): the question, the request to the provider, the calls it    *)
(* answers with, the user's approval of each, the results that go back,    *)
(* and what may happen at any frame in between: cancel, removing a message *)
(* from the conversation, switching to code mode, items pushed over MCP.   *)
(*                                                                         *)
(* Everything runs on the interface's thread; a frame or an input event is *)
(* one step.  A call is a number, in the order the provider makes them.    *)
(***************************************************************************)
EXTENDS Integers, Sequences, SequencesExt

CONSTANTS
  MaxRounds,    \* MAX_TOOL_ROUNDS
  MaxCalls,     \* bound: calls made by the provider
  CallsPerTurn, \* bound: calls in one answer
  MaxSteps,     \* bound: commands one file job types
  MaxAsked,     \* bound: questions
  MaxItems,     \* bound: MCP items
  MaxClears,    \* bound: messages removed by the user
  MaxToggles    \* bound: switches of code mode

Call == 1 .. MaxCalls

VARIABLES
  messages, \* self.messages
  req,      \* self.req: none, or whether tools were offered
  job,      \* self.toolJob
  queue,    \* self.toolQueue
  rounds,   \* self.toolRounds
  pending,  \* self.mcpPending, as a count
  coding,   \* self.coding
  typed,    \* history: commands typed into the terminal for each call
  access,   \* history: calls that had to be allowed
  allowed,  \* history: calls the user approved
  budget    \* how often each bounded thing has happened

vars == <<messages, req, job, queue, rounds, pending, coding,
          typed, access, allowed, budget>>

Message(kind)  == [kind |-> kind, calls |-> <<>>, id |-> 0, how |-> "none"]
Calls(cs)      == [Message("calls") EXCEPT !.calls = cs]
Result(c, how) == [Message("tool") EXCEPT !.id = c, !.how = how]
Results(cs, how) == [i \in DOMAIN cs |-> Result(cs[i], how)]

NoJob == [call |-> 0, kind |-> "none", st |-> "none"]
HasJob == job # NoJob

\* ran: the tool's own answer, a refusal by the user included.
Hows == {"none", "ran", "partial", "notrun"}

TypeOK ==
  /\ \A i \in DOMAIN messages :
       /\ messages[i].kind \in {"user", "text", "mcp", "calls", "tool"}
       /\ messages[i].calls \in Seq(Call)
       /\ messages[i].id \in Call \cup {0}
       /\ messages[i].how \in Hows
  /\ req \in {"none", "tools", "plain"}
  /\ job \in {NoJob} \cup [call : Call, kind : {"shell", "file", "outside"},
                           st : {"ask", "run", "over", "declined"}]
  /\ queue \in Seq(Call)
  /\ rounds \in 0 .. MaxRounds
  /\ pending \in 0 .. MaxItems
  /\ coding \in BOOLEAN
  /\ typed \in [Call -> 0 .. MaxSteps]
  /\ access \subseteq Call /\ allowed \subseteq Call

Init ==
  /\ messages = <<>> /\ req = "none" /\ job = NoJob /\ queue = <<>>
  /\ rounds = 0 /\ pending = 0 /\ coding = FALSE
  /\ typed = [c \in Call |-> 0] /\ access = {} /\ allowed = {}
  /\ budget = [calls |-> 0, asked |-> 0, items |-> 0, clears |-> 0, toggles |-> 0]

Spend(what, n) == budget' = [budget EXCEPT ![what] = @ + n]

Busy == req # "none" \/ HasJob \/ queue # <<>>

-----------------------------------------------------------------------------
(* Messages for the provider. *)

\* Results that follow the calls at i without a break.
Following(ms, i) ==
  {ms[k].id : k \in {k \in i + 1 .. Len(ms) : \A l \in i + 1 .. k : ms[l].kind = "tool"}}

ResultOf(ms, i, c) ==
  LET k == CHOOSE k \in i + 1 .. Len(ms) : ms[k].kind = "tool" /\ ms[k].id = c
  IN ms[k]

\* What message i becomes: calls with all their results, else the text that
\* came with them (the code skips it when empty); a result by itself is left
\* out; the rest as it is.
Cleaned(ms, i) ==
  LET m == ms[i]
  IN CASE m.kind = "tool" -> <<>>
       [] m.kind = "calls" ->
            IF ToSet(m.calls) \subseteq Following(ms, i)
            THEN <<m>> \o [n \in DOMAIN m.calls |-> ResultOf(ms, i, m.calls[n])]
            ELSE <<Message("text")>>
       [] OTHER -> <<m>>

\* Mutant: calls go out with whatever results are left.
Sanitize_KeepsCalls(ms) == ms

Sanitize(ms) == FlattenSeq([i \in DOMAIN ms |-> Cleaned(ms, i)])

-----------------------------------------------------------------------------
(* The turn. *)

\* Tools are switched on.
Offer(r) == IF r < MaxRounds THEN "tools" ELSE "plain"

\* What waits for the end of a turn is delivered in the frame that ends it.
Delivered(ms) == ms \o [i \in 1 .. pending |-> Message("mcp")]

\* request(), with Sanitize(ms) for its messages: it may fail to start.
Request(ms, r) ==
  /\ job' = NoJob /\ queue' = <<>>
  /\ \/ /\ req' = Offer(r)
        /\ messages' = ms
        /\ UNCHANGED pending
     \/ /\ req' = "none"
        /\ messages' = Delivered(ms)
        /\ pending' = 0

\* continueTurn(): every call is answered, ask again.
Continue(ms) ==
  /\ rounds' = rounds + 1
  /\ IF rounds + 1 > MaxRounds
     THEN /\ req' = "none" /\ job' = NoJob /\ queue' = <<>>
          /\ messages' = Delivered(ms) /\ pending' = 0
     ELSE Request(ms, rounds + 1)

\* approve(): the first command is typed, or the terminal does not show the
\* session any more and the job will end with that.
Approved(c, kind) ==
  \/ /\ job' = [call |-> c, kind |-> kind, st |-> "run"]
     /\ typed' = [typed EXCEPT ![c] = @ + 1]
  \/ /\ job' = [call |-> c, kind |-> kind, st |-> "over"]
     /\ UNCHANGED typed

\* A file inside the workspace is written without asking in code mode;
\* shell commands and paths outside always ask.
Begin(c, kind) ==
  IF kind = "file" /\ coding
  THEN Approved(c, kind)
  ELSE /\ job' = [call |-> c, kind |-> kind, st |-> "ask"]
       /\ UNCHANGED typed

\* nextTool(): calls are answered at once until one becomes a job.
NextTool(ms, q) ==
  \/ \E n \in 0 .. Len(q) - 1, kind \in {"shell", "file", "outside"} :
       LET c == q[n + 1]
       IN /\ messages' = ms \o Results(SubSeq(q, 1, n), "ran")
          /\ Begin(c, kind)
          /\ queue' = SubSeq(q, n + 2, Len(q))
          /\ access' = IF kind \in {"shell", "outside"} THEN access \cup {c} ELSE access
          /\ req' = "none"
          /\ UNCHANGED <<pending, rounds>>
  \/ /\ Continue(ms \o Results(q, "ran"))
     /\ UNCHANGED <<typed, access>>

Send ==
  /\ ~Busy
  /\ budget.asked < MaxAsked
  /\ Spend("asked", 1)
  /\ rounds' = 0
  /\ \/ /\ req' = Offer(0)
        /\ messages' = Append(messages, Message("user"))
     \/ UNCHANGED <<req, messages>>
  /\ UNCHANGED <<job, queue, pending, coding, typed, access, allowed>>

\* The frame in which a request is seen to have ended without calls to run:
\* with its text, or with an error and the text so far.
EndAnswer ==
  /\ req # "none"
  /\ \E text \in {<<>>, <<Message("text")>>} : messages' = Delivered(messages \o text)
  /\ req' = "none"
  /\ pending' = 0
  /\ UNCHANGED <<job, queue, rounds, coding, typed, access, allowed, budget>>

MayRun == rounds < MaxRounds

\* The frame in which a request is seen to have ended with calls.
AnswerWithCalls ==
  /\ req # "none"
  /\ MayRun
  /\ \E n \in 1 .. CallsPerTurn :
       /\ budget.calls + n <= MaxCalls
       /\ LET q == [i \in 1 .. n |-> budget.calls + i]
          IN NextTool(Append(messages, Calls(q)), q)
       /\ Spend("calls", n)
  /\ UNCHANGED <<coding, allowed>>

Approve ==
  /\ job.st = "ask"
  /\ Approved(job.call, job.kind)
  /\ allowed' = allowed \cup {job.call}
  /\ UNCHANGED <<messages, req, queue, rounds, pending, coding, access, budget>>

Deny ==
  /\ job.st = "ask"
  /\ job' = [job EXCEPT !.st = "declined"]
  /\ UNCHANGED <<messages, req, queue, rounds, pending, coding, typed, access, allowed, budget>>

\* Mutant: code mode lets any waiting job go.
Lets_Any == job.st = "ask"
Lets == job.st = "ask" /\ job.kind = "file"

ToggleCoding ==
  /\ budget.toggles < MaxToggles
  /\ Spend("toggles", 1)
  /\ coding' = ~coding
  /\ IF coding' /\ Lets THEN Approved(job.call, job.kind) ELSE UNCHANGED <<job, typed>>
  /\ UNCHANGED <<messages, req, queue, rounds, pending, access, allowed>>

\* FileJob:update(): the screen shows the end of one command, the next is
\* typed.
JobStep ==
  /\ job.st = "run" /\ job.kind # "shell"
  /\ typed[job.call] < MaxSteps
  /\ typed' = [typed EXCEPT ![job.call] = @ + 1]
  /\ UNCHANGED <<messages, req, job, queue, rounds, pending, coding, access, allowed, budget>>

\* updateTools(): the job is over, or the screen shows that it now is; it is
\* answered and the next call begins in the same frame.
JobOver ==
  /\ job.st \in {"run", "over", "declined"}
  /\ NextTool(Append(messages, Result(job.call, "ran")), queue)
  /\ UNCHANGED <<coding, allowed, budget>>

\* abortTools(): the job and every queued call are answered.
Cancelled == Results(queue, "notrun")

HowCancelled == IF job.st \in {"run", "over"} THEN "partial" ELSE "notrun"

\* Mutant: the job goes on after its cancellation was recorded.
JobAfterCancel_Same == job
JobAfterCancel == NoJob

\* Esc, STOP, or leaving the panel.
Cancel ==
  /\ Busy
  /\ messages' = messages \o (IF HasJob THEN <<Result(job.call, HowCancelled)>> ELSE <<>>)
                          \o Cancelled
  /\ req' = "none" /\ job' = JobAfterCancel /\ queue' = <<>>
  /\ UNCHANGED <<rounds, pending, coding, typed, access, allowed, budget>>

\* The x on a message, at any time.
ClearMessage ==
  /\ budget.clears < MaxClears
  /\ \E i \in DOMAIN messages : messages' = RemoveAt(messages, i)
  /\ Spend("clears", 1)
  /\ UNCHANGED <<req, job, queue, rounds, pending, coding, typed, access, allowed>>

\* CLEAR: cancel what runs, then forget everything.
ClearAll ==
  /\ messages # <<>>
  /\ budget.clears < MaxClears
  /\ messages' = <<>>
  /\ req' = "none" /\ job' = NoJob /\ queue' = <<>>
  /\ Spend("clears", 1)
  /\ UNCHANGED <<rounds, pending, coding, typed, access, allowed>>

\* Mutant: an item is shown when it comes.
Waits_Never == FALSE
Waits == Busy

McpItem ==
  /\ budget.items < MaxItems
  /\ Spend("items", 1)
  /\ IF Waits
     THEN pending' = pending + 1 /\ UNCHANGED messages
     ELSE messages' = Append(messages, Message("mcp")) /\ UNCHANGED pending
  /\ UNCHANGED <<req, job, queue, rounds, coding, typed, access, allowed>>

\* A frame with nothing at work delivers what waited.
Deliver ==
  /\ ~Busy /\ pending > 0
  /\ messages' = Delivered(messages)
  /\ pending' = 0
  /\ UNCHANGED <<req, job, queue, rounds, coding, typed, access, allowed, budget>>

Next ==
  \/ Send \/ EndAnswer \/ AnswerWithCalls
  \/ Approve \/ Deny \/ ToggleCoding \/ JobStep \/ JobOver
  \/ Cancel \/ ClearMessage \/ ClearAll \/ McpItem \/ Deliver

-----------------------------------------------------------------------------
(* Properties. *)

\* Position n of the results of the calls at i.
Answered(ms, i, n) ==
  i + n \in DOMAIN ms /\ ms[i + n].kind = "tool" /\ ms[i + n].id = ms[i].calls[n]

AllAnswered(ms) ==
  \A i \in DOMAIN ms : \A n \in DOMAIN ms[i].calls : Answered(ms, i, n)

NoStrayResult(ms) ==
  \A k \in DOMAIN ms : ms[k].kind = "tool" =>
    \E i \in 1 .. k - 1 : k - i \in DOMAIN ms[i].calls /\ Answered(ms, i, k - i)

\* "MCP items wait for an active tool turn to finish so they cannot split
\* call/result pairs", "tool cancellation records results" (SPEC.md:383-385,
\* ai.lua:1077-1092): as long as the user removes nothing, every call is
\* followed by the results so far, and by all of them when no tool is at work.
PairsAreWhole ==
  budget.clears = 0 =>
    /\ NoStrayResult(messages)
    /\ HasJob \/ queue # <<>> \/ AllAnswered(messages)

\* "a tool result must follow the assistant call it answers" (ai.lua:959):
\* what a request carries is paired whatever the user has removed, and
\* carries every pair that is still whole.
SentIsPaired ==
  LET out == Sanitize(messages)
  IN /\ AllAnswered(out) /\ NoStrayResult(out)
     /\ AllAnswered(messages) /\ NoStrayResult(messages) => out = messages

\* "Access reviews remain mandatory" (ai.lua:464): nothing is typed for a
\* shell command or an outside path that the user has not approved.
AccessIsAsked == \A c \in access : typed[c] > 0 => c \in allowed

\* "late calls cannot run" (SPEC.md:382): nothing is typed for a call that
\* has its answer, nor for one that is no longer at work.
QuietAfterAnswer ==
  [][\A c \in Call : typed'[c] # typed[c] =>
       /\ job'.call = c
       /\ \A i \in DOMAIN messages : messages[i].kind = "tool" => messages[i].id # c]_vars
=============================================================================

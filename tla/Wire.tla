-------------------------------- MODULE Wire --------------------------------
(***************************************************************************)
(* Tool calls on their way from a provider's stream into the conversation  *)
(* and back to a provider (llm.rs): fragments are folded into calls by     *)
(* their index, a finished answer and the results of its calls become      *)
(* messages of a neutral form, and the next request puts all of them into  *)
(* the form of the provider it goes to, which the user may have changed.   *)
(* AiTurn says how calls are run and how results come about; here they are *)
(* all there, in order, as AiTurn's SentIsPaired has it.                   *)
(***************************************************************************)
EXTENDS Integers, Sequences, SequencesExt

CONSTANTS
  MaxCalls,    \* bound: calls in one answer
  MaxPieces,   \* bound: fragments of the arguments of one call
  MaxAnswers   \* bound: answers

Providers == {"anthropic", "openai"}

VARIABLES
  calls,    \* LlmReq.calls: the calls as they are assembled
  given,    \* what the provider meant by its fragments: calls in order
  conv,     \* the conversation, in neutral messages
  meant     \* history: the calls of finished answers, as the provider meant them

vars == <<calls, given, conv, meant>>

\* A call: the index of its fragments, its id, whether it has a name, the
\* pieces of its arguments.
TypeOK ==
  /\ \A i \in DOMAIN calls : calls[i].index \in Nat /\ calls[i].args \in Seq(1 .. MaxPieces)
  /\ Len(given) <= MaxCalls
  /\ \A i \in DOMAIN conv : conv[i].role \in {"user", "assistant", "tool"}

Init == calls = <<>> /\ given = <<>> /\ conv = <<>> /\ meant = <<>>

-----------------------------------------------------------------------------
(* The stream. *)

\* Mutant: a fragment belongs to the newest call.
PushToolDelta_Last(cs, d) ==
  IF d.id # 0 THEN Append(cs, [index |-> d.index, id |-> d.id, named |-> d.named, args |-> d.args])
  ELSE [cs EXCEPT ![Len(cs)].args = @ \o d.args]

\* What a call gets of a fragment: its id and its name if it has them, and
\* its arguments.
Taking(c, d) ==
  [c EXCEPT !.id = IF d.id # 0 THEN d.id ELSE @, !.named = @ \/ d.named, !.args = @ \o d.args]

\* push_tool_delta: the call of that index, or a new one, takes the fragment.
PushToolDelta(cs, d) ==
  LET at   == {i \in DOMAIN cs : cs[i].index = d.index}
      all  == IF at = {} THEN Append(cs, [index |-> d.index, id |-> 0, named |-> FALSE, args |-> <<>>]) ELSE cs
      i    == IF at = {} THEN Len(all) ELSE CHOOSE k \in at : TRUE
  IN  [all EXCEPT ![i] = Taking(@, d)]

\* A call begins, its name with it or not (which is no call); it may stand at
\* any index, as blocks of text have indices too.
Begins ==
  /\ Len(given) < MaxCalls
  /\ \E named \in BOOLEAN, gap \in {0, 1} :
       LET n == Len(given) + 1
           d == [index |-> 2 * n + gap, id |-> 10 * Len(meant) + n, named |-> named, args |-> <<>>]
       IN  /\ calls' = PushToolDelta(calls, d)
           /\ given' = Append(given, d)
  /\ UNCHANGED <<conv, meant>>

\* More of the arguments of any call that began.
Goes ==
  /\ \E i \in DOMAIN given :
       /\ Len(given[i].args) < MaxPieces
       /\ LET d == [index |-> given[i].index, id |-> 0, named |-> FALSE, args |-> <<Len(given[i].args) + 1>>]
          IN  /\ calls' = PushToolDelta(calls, d)
              /\ given' = [given EXCEPT ![i].args = @ \o d.args]
  /\ UNCHANGED <<conv, meant>>

\* calls_json: what has no name is no call.
ToJson(out, c) == IF c.named THEN Append(out, [id |-> c.id, args |-> c.args]) ELSE out
CallsJson(cs)  == FoldLeft(ToJson, <<>>, cs)

Message(role, text, cs, id) == [role |-> role, text |-> text, calls |-> cs, id |-> id]

\* The answer is complete: it joins the conversation with the results of its
\* calls, or with the user's next question.
Finish ==
  /\ Len(meant) < MaxAnswers
  /\ meant' = Append(meant, CallsJson(given))
  /\ \E text \in BOOLEAN :
       conv' = conv \o <<Message("assistant", text, CallsJson(calls), 0)>> \o
                 (IF CallsJson(calls) = <<>> THEN <<Message("user", TRUE, <<>>, 0)>>
                  ELSE [i \in DOMAIN CallsJson(calls) |-> Message("tool", TRUE, <<>>, CallsJson(calls)[i].id)])
  /\ calls' = <<>> /\ given' = <<>>

Next == Begins \/ Goes \/ Finish

-----------------------------------------------------------------------------
(* The form of a provider. *)

Sent(role, text, uses, results) == [role |-> role, text |-> text, uses |-> uses, results |-> results]

\* An answer with calls: blocks of one message, or a message with a list.
Uses(m) == Sent("assistant", m.text, m.calls, <<>>)

\* A result: a block of the message before when that holds results, for one
\* provider, a message for the other.
ToolResult(p, out, m) ==
  IF p = "anthropic" /\ out # <<>> /\ Last(out).role = "user" /\ Last(out).results # <<>>
    THEN [out EXCEPT ![Len(out)].results = Append(@, m.id)]
    ELSE Append(out, Sent(IF p = "anthropic" THEN "user" ELSE "tool", FALSE, <<>>, <<m.id>>))

NormalizeOne(p, out, m) ==
  IF m.calls # <<>> THEN Append(out, Uses(m))
  ELSE IF m.role = "tool" THEN ToolResult(p, out, m)
  ELSE Append(out, Sent(m.role, m.text, <<>>, <<>>))

NormalizeMessages(p, ms) == FoldLeft(LAMBDA out, m : NormalizeOne(p, out, m), <<>>, ms)

-----------------------------------------------------------------------------
(* Properties. *)

Ids(cs) == [i \in DOMAIN cs |-> cs[i].id]

\* The lists of calls that are not empty, in order.
NotEmpty(out, cs) == IF cs = <<>> THEN out ELSE Append(out, cs)
NonEmpty(lists)   == FoldLeft(NotEmpty, <<>>, lists)

\* Whatever the order of its fragments, a call goes back to either provider
\* with the id and the arguments it came with, and the results of an answer
\* follow it at once, all of them and no others: in one message where the
\* provider wants one, else a message each (llm.rs:148-245, 495-528).
CallsComeBackWhole ==
  \A p \in Providers :
    LET w == NormalizeMessages(p, conv)
    IN  /\ NonEmpty([i \in DOMAIN w |-> w[i].uses]) = NonEmpty(meant)
        /\ \A i \in DOMAIN w : w[i].uses # <<>> =>
             LET n == IF p = "anthropic" THEN 1 ELSE Len(w[i].uses)
             IN  /\ i + n <= Len(w)
                 /\ \A k \in 1 .. n :
                      w[i + k].results = IF p = "anthropic" THEN Ids(w[i].uses) ELSE <<w[i].uses[k].id>>
                 /\ i + n < Len(w) => w[i + n + 1].results = <<>>
=============================================================================

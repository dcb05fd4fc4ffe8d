----------------------------- MODULE Assistant -----------------------------
(***************************************************************************)
(* What the AI panel rests on: the turn with its tools (AiTurn), the calls *)
(* on their way from and to a provider (Wire), and the search that the     *)
(* panel and its tools ask (Search).  The turn hands the other two a       *)
(* finished conversation or question in one call and gets a value back, so *)
(* their steps need not be interleaved: a behaviour is one of one of the   *)
(* three, chosen at the start.                                             *)
(***************************************************************************)
EXTENDS Integers, Sequences, FiniteSets

CONSTANTS
  MaxRounds, MaxCalls, CallsPerTurn, MaxSteps, MaxAsked, MaxItems, MaxClears, MaxToggles,  \* of AiTurn
  AnswerCalls, MaxPieces, MaxAnswers,          \* of Wire
  Notes, Commands, Limits, K    \* of Search

ASSUME AssistantAssumption ==
  /\ {MaxRounds, CallsPerTurn, MaxSteps, K} \subseteq Nat \ {0}
  /\ {MaxCalls, MaxAsked, MaxItems, MaxClears, MaxToggles, AnswerCalls, MaxPieces, MaxAnswers} \subseteq Nat
  /\ Notes \cap Commands = {}
  /\ Notes \cup Commands \subseteq Nat /\ IsFiniteSet(Notes \cup Commands)
  /\ Limits \subseteq Nat \ {0}

VARIABLES
  stage,
  messages, req, job, queue, rounds, pending, coding, typed, access, allowed, budget,
  calls, given, conv, meant,
  live, vectors, model, at, ask, lex, sem, filter, qv, page, gone, changes

Turn   == INSTANCE AiTurn
Calls  == INSTANCE Wire WITH MaxCalls <- AnswerCalls
Finder == INSTANCE Search

turnVars   == <<messages, req, job, queue, rounds, pending, coding, typed, access, allowed, budget>>
callVars   == <<calls, given, conv, meant>>
finderVars == <<live, vectors, model, at, ask, lex, sem, filter, qv, page, gone, changes>>
vars       == <<stage, turnVars, callVars, finderVars>>

\* A search that is not looked at is for nothing.
NoSearch ==
  /\ model = "local" /\ ask.words = <<>>
  /\ ask.kinds = Finder!Kinds /\ ask.limit = CHOOSE l \in Limits : TRUE
  /\ ask.neural = {} /\ ask.near = CHOOSE s \in Finder!Orders : TRUE

Init ==
  /\ stage \in {"turn", "calls", "finder"}
  /\ Turn!Init /\ Calls!Init
  /\ Finder!Init /\ (stage # "finder" => NoSearch)

Next ==
  \/ stage = "turn"   /\ Turn!Next   /\ UNCHANGED <<stage, callVars, finderVars>>
  \/ stage = "calls"  /\ Calls!Next  /\ UNCHANGED <<stage, turnVars, finderVars>>
  \/ stage = "finder" /\ Finder!Next /\ UNCHANGED <<stage, turnVars, callVars>>

Spec == Init /\ [][Next]_vars

-----------------------------------------------------------------------------
(* Properties, each stated and explained by the module it belongs to. *)

\* AiTurn: every call has its result behind it (ai.lua:1077-1092).
PairsAreWhole == Turn!PairsAreWhole

\* AiTurn: what is sent is paired (ai.lua:959-1002).
SentIsPaired == Turn!SentIsPaired

\* AiTurn: nothing runs that had to be allowed and was not (ai.lua:464-478).
AccessIsAsked == Turn!AccessIsAsked

\* AiTurn: nothing is typed for a call that has its answer (SPEC.md:382).
QuietAfterAnswer == Turn!QuietAfterAnswer

\* Wire: calls and results come back whole and in place (llm.rs:148-245).
CallsComeBackWhole == Calls!CallsComeBackWhole

\* Search: a page is the fusion of its two lists (search.rs:369-380, 502-540).
PagesAreFused == Finder!PagesAreFused
=============================================================================

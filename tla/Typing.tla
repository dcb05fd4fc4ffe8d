------------------------------- MODULE Typing -------------------------------
(***************************************************************************)
(* What the program makes of keys on their way to a shell: the recorder's  *)
(* LineAssembler (record.rs) rebuilds the lines that were entered, and     *)
(* Learning (learning.rs) keeps those that the cursor's line showed, never *)
(* what was typed at a question for a password.  Both are fed the bytes as *)
(* they are sent, in pieces; Learning gets the cursor's line of that       *)
(* moment, on which the echo may still be behind.                          *)
(*                                                                         *)
(* A letter is a byte, "h" and "t" are the two bytes of another character; *)
(* blanks and the limits of a line's length are left out.                  *)
(***************************************************************************)
EXTENDS Integers, Sequences, SequencesExt

CONSTANTS
  Letters, \* what can be typed
  MaxLine, \* bound: bytes that a line, as any of them sees it, has before a write
  MaxFeed  \* bound: letters that are pasted

Up       == <<"esc", "[", "A">>
Pieces   == {<<l>> : l \in Letters} \cup {<<"h", "t">>, Up, <<"esc", "a">>}
              \cup {<<c>> : c \in {"enter", "back", "kill", "tab"}}

Byte     == UNION {Range(p) : p \in Pieces}

\* What asks for input, and the line it asks on.  A password is not shown;
\* a program that has the whole screen has no line to type at.
Ask == [shell |-> <<"$">>, password |-> <<"s", "w">>, question |-> <<"?">>, screen |-> <<>>]
Mode == DOMAIN Ask

VARIABLES
  mode,      \* what asks
  editor,    \* the line as whoever asks has it: text, and whether it was only typed
  assembler, \* LineAssembler: buf, esc
  learning,  \* Learning: bytes, prompt, trusted, and the command to learn
  entered,   \* what was entered, when the last write ended in an Enter
  shown      \* the line that was looked at when it was

vars == <<mode, editor, assembler, learning, entered, shown>>

NoLine == [on |-> FALSE, text |-> <<>>]

TypeOK ==
  /\ mode \in Mode
  /\ assembler.esc \in {"none", "intro", "csi"}
  /\ assembler.buf \in Seq(Byte) /\ learning.bytes \in Seq(Byte) /\ editor.text \in Seq(Byte)
  /\ learning.trusted \in BOOLEAN

Fresh == [text |-> <<>>, plain |-> TRUE]

Init ==
  /\ mode = "shell"
  /\ assembler = [buf |-> <<>>, esc |-> "none", line |-> <<>>]
  /\ learning = [bytes |-> <<>>, prompt |-> <<>>, trusted |-> FALSE, cmd |-> <<>>]
  /\ editor = Fresh
  /\ entered = Fresh
  /\ shown = <<>>

-----------------------------------------------------------------------------
(* Lines. *)

\* One character, which may be two bytes.
PopChar(s) ==
  IF s = <<>> THEN s
  ELSE IF Last(s) = "t" /\ Len(s) > 1 THEN SubSeq(s, 1, Len(s) - 2) ELSE Front(s)

\* The key that calls back the line before.
Recalled == <<"w", "a", "w">>

\* The line editor of a shell, a key: it knows more than the two that follow.
Edit(e, piece) ==
  CASE piece = <<"enter">> -> e
    [] piece = <<"back">>  -> [e EXCEPT !.text = PopChar(e.text)]
    [] piece = <<"kill">>  -> [e EXCEPT !.text = <<>>]
    [] piece = Up          -> [text |-> IF mode = "shell" THEN Recalled ELSE e.text, plain |-> FALSE]
    [] piece \in {<<"tab">>, <<"esc", "a">>} -> [e EXCEPT !.plain = FALSE]
    [] OTHER -> [e EXCEPT !.text = e.text \o piece]

\* ESC [ and all that follows up to a letter, which "?" is not here, or ESC
\* and one more byte.
Escape(esc, b) ==
  IF esc = "intro" /\ b = "[" THEN "csi"
  ELSE IF esc = "csi" /\ b \notin (Letters \cup {"A", "["}) \ {"?"} THEN "csi" ELSE "none"

\* LineAssembler::feed, a byte: line is what Enter commits.
Assemble(a, b) ==
  IF a.esc # "none" THEN [a EXCEPT !.esc = Escape(a.esc, b)]
  ELSE CASE b = "enter" -> [a EXCEPT !.buf = <<>>, !.line = a.buf]
         [] b = "back"  -> [a EXCEPT !.buf = PopChar(a.buf)]
         [] b = "kill"  -> [a EXCEPT !.buf = <<>>]
         [] b = "esc"   -> [a EXCEPT !.esc = "intro"]
         [] b = "tab"   -> a
         [] OTHER       -> [a EXCEPT !.buf = Append(a.buf, b)]

-----------------------------------------------------------------------------
(* What may be learned. *)

\* The text in front of what is typed, when that is on the line.
EchoedPrompt(text, typed) == SubSeq(text, 1, Len(text) - Len(typed))

Whole(bytes) == bytes = <<>> \/ Last(bytes) # "h"

\* What the shell asked with, found in one of three ways: all of the echo, or
\* some of it; the typed text at the cursor; the end of a wrapped line.
CaughtUp(l, text) ==
  \/ text = l.prompt \o l.bytes
  \/ IsPrefix(text, l.prompt \o l.bytes) /\ Len(text) > Len(l.prompt)

NotAsked(before) == before = <<>> \/ Last(before) # "?"

\* Mutant: what a line shows is not looked at once the line was trusted.
Ready_Trusting(l, line) == line.on /\ l.trusted

\* Learning::ready with something typed.
Ready(l, line) ==
  /\ line.on /\ l.trusted /\ Whole(l.bytes)
  /\ IF CaughtUp(l, line.text) THEN NotAsked(l.prompt)
     ELSE IF IsSuffix(l.bytes, line.text) THEN NotAsked(EchoedPrompt(line.text, l.bytes))
     ELSE line.text # <<>> /\ IsSuffix(line.text, l.bytes) /\ Len(line.text) < Len(l.bytes)

\* Learning::feed, a byte: cmd is what Enter gives to learn.
Learn(l, b, line) ==
  CASE b = "enter" -> [l EXCEPT !.bytes = <<>>, !.trusted = FALSE,
                                !.cmd = IF l.bytes # <<>> /\ Ready(l, line) THEN l.bytes ELSE <<>>]
    [] b = "back" -> [l EXCEPT !.bytes = PopChar(l.bytes)]
    [] b = "kill" -> [l EXCEPT !.bytes = <<>>, !.trusted = FALSE]
    [] b \in {"tab", "esc"} -> [l EXCEPT !.trusted = FALSE]
    [] OTHER -> [l EXCEPT !.bytes = Append(l.bytes, b)]

\* With nothing typed yet, the line there is becomes the prompt.
Begin(l, line) ==
  IF l.bytes = <<>> THEN [l EXCEPT !.trusted = line.on, !.prompt = line.text, !.cmd = <<>>]
  ELSE [l EXCEPT !.cmd = <<>>]

-----------------------------------------------------------------------------
\* The line the cursor is on: the question, and as much of the line as was
\* echoed by now.
Lines ==
  IF mode = "screen" THEN {NoLine}
  ELSE {[on |-> TRUE, text |-> Ask[mode] \o SubSeq(editor.text, 1, n)] :
          n \in 0 .. (IF mode = "password" THEN 0 ELSE Len(editor.text))}

\* A key is a write of its own; what is pasted is one too.
Pastes == UNION {[1 .. n -> {<<l>> : l \in Letters}] : n \in 1 .. MaxFeed}
Feeds  == {<<p>> : p \in Pieces} \cup Pastes \cup {Append(p, <<"enter">>) : p \in Pastes}

\* One write of keys, with on_input of both; an Enter ends it.
Type ==
  \E feed \in Feeds, line \in Lines :
    LET bytes == FlattenSeq(feed)
        e == FoldLeft(Edit, editor, feed)
        a == FoldLeft(Assemble, [assembler EXCEPT !.line = <<>>], bytes)
        l == FoldLeft(LAMBDA x, b : Learn(x, b, line), Begin(learning, line), bytes)
    IN  /\ \A s \in {editor.text, assembler.buf, learning.bytes} : Len(s) < MaxLine
        /\ assembler' = a /\ learning' = l
        /\ IF Last(feed) = <<"enter">>
             THEN entered' = e /\ editor' = Fresh /\ shown' = line.text
             ELSE entered' = Fresh /\ editor' = e /\ shown' = <<>>
        /\ UNCHANGED mode

\* Something else asks, in the middle of a line too.
Asks ==
  /\ mode' \in Mode \ {mode}
  /\ assembler' = [assembler EXCEPT !.line = <<>>] /\ learning' = [learning EXCEPT !.cmd = <<>>]
  /\ entered' = Fresh /\ shown' = <<>>
  /\ UNCHANGED editor

Next == Type \/ Asks

Spec == Init /\ [][Next]_vars

-----------------------------------------------------------------------------
(* Properties. *)

\* A line that was only typed is recorded as it was entered, and learned like
\* that or not at all (record.rs:152-188), not at all when it answers a
\* question, unless the answer has a question mark as well; nothing typed where
\* a password is asked for is learned, unless it reads like the end of that
\* question itself (learning.rs:1-5, 56-74).
LinesAreNotMistaken ==
  /\ entered.plain /\ assembler.line # <<>> => assembler.line = entered.text
  /\ entered.plain /\ learning.cmd # <<>>   =>
       learning.cmd = entered.text /\ (mode = "question" => "?" \in Range(learning.cmd))
  /\ mode = "password" /\ learning.cmd # <<>> => IsSuffix(learning.cmd, shown) \/ IsSuffix(shown, learning.cmd)

\* "Editing/history/full-screen input invalidates the line rather than
\* guessing" (learning.rs:4-5): what is learned is what was entered, whatever
\* keys were pressed.
EditedIsNotLearned == learning.cmd # <<>> => learning.cmd = entered.text
=============================================================================

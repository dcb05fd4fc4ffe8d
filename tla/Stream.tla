------------------------------- MODULE Stream -------------------------------
(***************************************************************************)
(* The scanners that one read of the channel passes through: the splitter  *)
(* that takes graphics commands out of the text (graphics.rs split), the   *)
(* scanners of the text for the directory report and for erasures (term.rs *)
(* scan_osc7, scan_csi), and the stripper that makes the transcript        *)
(* (record.rs).  The server sends whole pieces of known meaning; where the *)
(* reads cut them is up to the network.                                    *)
(*                                                                         *)
(* A byte is a character: "E" stands for ESC, "B" for BEL, "S" and "A"     *)
(* for a semicolon and an underscore, "u" and "v" for the two bytes of one *)
(* character.                                                              *)
(***************************************************************************)
EXTENDS Integers, Sequences, SequencesExt, FiniteSets

CONSTANTS
  MaxPieces,  \* bound: pieces of output
  MaxBody     \* bytes of a command's body or of a report that are kept

\* What the server says: the bytes, what of them is text for the emulator
\* and for the transcript, the command, the directory, the erasures in them.
Piece(bytes, text, plain, body, dir, erases) ==
  [bytes |-> bytes, text |-> text, plain |-> plain, body |-> body, dir |-> dir, erases |-> erases]

Text(bytes, plain, dir, erases) == Piece(bytes, bytes, plain, <<>>, dir, erases)

Lone == Text(<<"E">>, <<>>, <<>>, 0)   \* its meaning depends on what follows

Pieces == {
  Lone,
  Text(<<"x">>, <<"x">>, <<>>, 0),
  Text(<<"u", "v">>, <<"u", "v">>, <<>>, 0),
  Text(<<"E", "[", "2", "J">>, <<>>, <<>>, 1),
  Text(<<"E", "]", "7", "S", "p", "B">>, <<>>, <<"p">>, 0),
  Text(<<"E", "]", "7", "S", "q", "E", "\\">>, <<>>, <<"q">>, 0),
  \* the transcript knows no commands: it keeps their bodies as text
  Piece(<<"E", "A", "G", "d", "E", "\\">>, <<>>, <<"G", "d">>, <<"G", "d">>, <<>>, 0)}

VARIABLES
  out,     \* the pieces the server sends
  pos,     \* how many of their bytes were read
  split,   \* Split: [st, body]
  osc7,    \* Osc7 and osc7_cwd: [st, body, cwd]
  strip,   \* AnsiStripper: [st, pending]
  bodies,  \* commands handed to Graphics::command
  fed,     \* text handed to the emulator
  erased,  \* erasures scan_csi found
  cut,     \* erasures that were cut by the end of a text run
  kept     \* text of the transcript

vars == <<out, pos, split, osc7, strip, bodies, fed, erased, cut, kept>>

TypeOK ==
  /\ out \in Seq(Pieces) /\ pos \in Nat
  /\ split.st \in {"ground", "esc", "apc", "apcEsc"}
  /\ osc7.st \in {"ground", "esc", "bracket", "seven", "body", "bodyEsc"}
  /\ strip.st \in {"none", "intro", "csi", "osc", "oscEnd"}
  /\ Len(split.body) <= MaxBody + 1 /\ Len(osc7.body) <= MaxBody /\ Len(strip.pending) <= 1
  /\ erased \in Nat /\ cut \in Nat

Init ==
  /\ out \in UNION {[1 .. n -> Pieces] : n \in 0 .. MaxPieces}
  /\ pos = 0
  /\ split = [st |-> "ground", body |-> <<>>]
  /\ osc7 = [st |-> "ground", body |-> <<>>, cwd |-> <<>>]
  /\ strip = [st |-> "none", pending |-> <<>>]
  /\ bodies = <<>> /\ fed = <<>> /\ erased = 0 /\ cut = 0 /\ kept = <<>>

\* What a sequence of pieces says in all: its directory is the last one reported.
Nothing == [bytes |-> <<>>, text |-> <<>>, plain |-> <<>>, bodies |-> <<>>, dir |-> <<>>, erases |-> 0]

Said(m, p) ==
  [bytes  |-> m.bytes \o p.bytes,
   text   |-> m.text \o p.text,
   plain  |-> m.plain \o p.plain,
   bodies |-> IF p.body = <<>> THEN m.bodies ELSE Append(m.bodies, p.body),
   dir    |-> IF p.dir = <<>> THEN m.dir ELSE p.dir,
   erases |-> m.erases + p.erases]

All(ps) == FoldLeft(Said, Nothing, ps)

-----------------------------------------------------------------------------
(* The splitter: state, text run under way, segments so far. *)

\* Mutant: an ESC that was held back is not given back.
Emit_DropsEsc(s, bytes) == [s EXCEPT !.st = "ground", !.run = Append(@, Last(bytes))]
Emit(s, bytes) == [s EXCEPT !.st = "ground", !.run = @ \o bytes]
CloseRun(s)    == IF s.run = <<>> THEN s
                  ELSE [s EXCEPT !.run = <<>>, !.segs = Append(@, [text |-> s.run, body |-> <<>>])]
Grow(body, bytes) == IF Len(body) < MaxBody THEN body \o bytes ELSE body

SplitByte(s, b) ==
  CASE s.st = "ground" -> IF b = "E" THEN [s EXCEPT !.st = "esc"] ELSE Emit(s, <<b>>)
    [] s.st = "esc" ->
         IF b = "A" THEN [CloseRun(s) EXCEPT !.st = "apc", !.body = <<>>]
         ELSE IF b = "E" THEN [s EXCEPT !.run = @ \o <<"E">>]
         ELSE Emit(s, <<"E", b>>)
    [] s.st = "apc" ->
         IF b = "E" THEN [s EXCEPT !.st = "apcEsc"] ELSE [s EXCEPT !.body = Grow(@, <<b>>)]
    [] s.st = "apcEsc" ->
         IF b = "\\" THEN [s EXCEPT !.st = "ground", !.body = <<>>,
                                    !.segs = Append(@, [text |-> <<>>, body |-> s.body])]
         ELSE [s EXCEPT !.st = "apc", !.body = Grow(@, <<"E", b>>)]

Splitted(bytes) ==
  CloseRun(FoldLeft(SplitByte, [st |-> split.st, body |-> split.body, run |-> <<>>, segs |-> <<>>], bytes))

-----------------------------------------------------------------------------
(* The scanners of the text. *)

Osc7Byte(s, b) ==
  LET to(st) == [s EXCEPT !.st = st]
      start  == IF b = "E" THEN to("esc") ELSE to("ground")
  IN CASE s.st = "ground"  -> start
       [] s.st = "esc"     -> IF b = "]" THEN to("bracket") ELSE start
       [] s.st = "bracket" -> IF b = "7" THEN to("seven") ELSE start
       [] s.st = "seven"   -> IF b = "S" THEN [s EXCEPT !.st = "body", !.body = <<>>] ELSE start
       [] s.st = "body"    ->
            IF b = "B" THEN [s EXCEPT !.st = "ground", !.cwd = s.body]
            ELSE IF b = "E" THEN to("bodyEsc")
            ELSE [s EXCEPT !.body = IF Len(@) < MaxBody THEN Append(@, b) ELSE @]
       [] s.st = "bodyEsc" ->
            [s EXCEPT !.st = "ground", !.cwd = IF b = "\\" THEN s.body ELSE @]

\* Erasures that lie wholly in a text run; nothing is carried to the next.
Erasure == <<"E", "[", "2", "J">>
Erasures(t) == {i \in 1 .. Len(t) - 3 : SubSeq(t, i, i + 3) = Erasure}

\* A run whose end may be the beginning of one.
CutAt(t) == \E n \in 1 .. 3 : n <= Len(t) /\ SubSeq(t, Len(t) - n + 1, Len(t)) = SubSeq(Erasure, 1, n)

Found(t) == Cardinality(Erasures(t))

\* One segment: a command for the graphics, or a run for the scanners.
Process(t, g) ==
  IF g.text = <<>> THEN [t EXCEPT !.bodies = Append(@, g.body)]
  ELSE [t EXCEPT !.fed = @ \o g.text, !.osc7 = FoldLeft(Osc7Byte, @, g.text),
                 !.erased = @ + Found(g.text), !.cut = @ + IF CutAt(g.text) THEN 1 ELSE 0]

-----------------------------------------------------------------------------
(* The stripper. *)

Finals == {"J", "x", "G", "d", "p", "q", "[", "]", "\\", "A"}   \* 0x40..0x7e

StripByte(s, b) ==
  LET to(st) == [s EXCEPT !.st = st]
  IN CASE s.st = "none"   -> IF b = "E" THEN to("intro")
                             ELSE IF b = "B" THEN s
                             ELSE [s EXCEPT !.text = Append(@, b)]
       [] s.st = "intro"  -> IF b = "[" THEN to("csi") ELSE IF b = "]" THEN to("osc") ELSE to("none")
       [] s.st = "csi"    -> IF b \in Finals THEN to("none") ELSE s
       [] s.st = "osc"    -> IF b = "B" THEN to("none") ELSE IF b = "E" THEN to("oscEnd") ELSE s
       [] s.st = "oscEnd" -> IF b = "\\" THEN to("none") ELSE to("osc")

\* Well-formed up to its end, where the first half of a character may stand.
Halved(t) ==
  /\ t # <<>> /\ Last(t) = "u" /\ Head(t) # "v"
  /\ \A i \in 1 .. Len(t) - 1 : t[i] = "u" <=> t[i + 1] = "v"

Whole(t) == IF Halved(t) THEN Len(t) - 1 ELSE Len(t)

\* from_utf8_lossy: half a character becomes a character of its own.
Lossy(t) ==
  LET half(i) == \/ t[i] = "u" /\ (i = Len(t) \/ t[i + 1] # "v")
                 \/ t[i] = "v" /\ (i = 1 \/ t[i - 1] # "u")
  IN [i \in DOMAIN t |-> IF half(i) THEN "?" ELSE t[i]]

-----------------------------------------------------------------------------
\* One turn of the pump: n bytes are read, fed to the terminal segment by
\* segment, then to the recorder.
Read(n) ==
  LET bytes == SubSeq(All(out).bytes, pos + 1, pos + n)
      s     == Splitted(bytes)
      t     == FoldLeft(Process, [bodies |-> bodies, fed |-> fed, osc7 |-> osc7, erased |-> erased, cut |-> cut], s.segs)
      p     == FoldLeft(StripByte, [st |-> strip.st, text |-> strip.pending], bytes)
      w     == Whole(p.text)
  IN /\ pos + n <= Len(All(out).bytes)
     /\ pos' = pos + n
     /\ split' = [st |-> s.st, body |-> s.body]
     /\ bodies' = t.bodies /\ fed' = t.fed /\ osc7' = t.osc7 /\ erased' = t.erased /\ cut' = t.cut
     /\ strip' = [st |-> p.st, pending |-> SubSeq(p.text, w + 1, Len(p.text))]
     /\ kept' = kept \o Lossy(SubSeq(p.text, 1, w))
     /\ UNCHANGED out

Next == \E n \in 1 .. Len(All(out).bytes) : Read(n)

-----------------------------------------------------------------------------
(* Properties, about every way to cut the same output. *)

AllRead == pos = Len(All(out).bytes)

\* "so a sequence may straddle chunk boundaries" (graphics.rs:303-306): text
\* and commands are those of the pieces, in order, whatever the reads were;
\* what is missing is an ESC at the end that may begin something.
SplitKeepsAll ==
  /\ IsPrefix(fed, All(out).text)
  /\ AllRead =>
       /\ bodies = All(out).bodies
       /\ fed \o (IF split.st = "esc" THEN <<"E">> ELSE <<>>) = All(out).text

\* The scanners of the text miss nothing: the directory is the one reported
\* last ("so a report may straddle reads", term.rs:96), though commands stand
\* in between; every erasure takes the images off (SPEC.md:197, term.rs:303),
\* except one that the end of a text run cuts.
ScansMissNothing ==
  AllRead =>
    /\ osc7.cwd = All(out).dir
    /\ erased <= All(out).erases /\ All(out).erases <= erased + cut

\* The transcript is the text without the escapes (record.rs:33-99), and does
\* not depend on the reads: no half characters, none lost.
TranscriptIsText ==
  Lone \notin ToSet(out) =>
    /\ IsPrefix(kept, All(out).plain)
    /\ AllRead => kept = All(out).plain
=============================================================================

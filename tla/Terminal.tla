------------------------------ MODULE Terminal ------------------------------
(***************************************************************************)
(* The way between the keys, a channel and the screen, in its five stages: *)
(* HostKeys lets a connection in, Typing looks at the keys that are sent,  *)
(* Pump moves bytes on the connection, Stream takes what was read apart,   *)
(* Graphics does what the commands and the text say.  A stage hands the    *)
(* next one a finished value under one lock and never looks back, so their *)
(* steps need not be interleaved: a behaviour is one of one stage, chosen  *)
(* at the start, and the stages' states add up instead of multiplying.     *)
(***************************************************************************)
EXTENDS Integers, Sequences

CONSTANTS
  Dials, Hosts, HostKey,                   \* of HostKeys
  Letters, MaxLine, MaxFeed,               \* of Typing
  MaxEpoch, MaxQueued, MaxSizes,           \* of Pump
  MaxPieces, MaxBody,                      \* of Stream
  Ids, Numbers, Tags, MaxImage, MaxStore,  \* of Graphics
  Rows, Heights, Cap, MaxKeys, MaxShown, MaxLines

ASSUME TerminalAssumption ==
  /\ MaxLine \in Nat /\ MaxFeed \in Nat
  /\ Letters \cap {"enter", "back", "kill", "tab", "esc"} = {}
  /\ MaxEpoch \in Nat \ {0} /\ MaxQueued \in Nat /\ MaxSizes \in Nat
  /\ MaxPieces \in Nat /\ MaxBody \in Nat /\ MaxBody >= 2  \* no body of a piece is longer
  /\ Ids \subseteq Nat \ {0} /\ Numbers \subseteq Nat \ {0} /\ Tags \subseteq Nat \ {0}
  /\ MaxImage \in Nat \ {0} /\ MaxStore \in Nat /\ MaxImage <= MaxStore
  /\ Rows \in Nat \ {0} /\ Heights \subseteq Nat \ {0} /\ Cap \in Nat \ {0}
  /\ MaxKeys \in Nat /\ MaxShown \in Nat /\ MaxLines \in Nat

VARIABLES
  stage,
  known, legacy, knownTemp, knownLock, dial, trusted,
  mode, editor, assembler, learning, entered, shown,
  epoch, closing, outgoing, asked, meant, sizes, at, mine, sent, told, missed, caught,
  out, pos, split, osc7, strip, bodies, fed, erased, cut, kept,
  store, pending, screen, scrolled, slipped, unlucky

Door    == INSTANCE HostKeys WITH file <- known, temp <- knownTemp, lock <- knownLock
Typed   == INSTANCE Typing
Channel == INSTANCE Pump
Read    == INSTANCE Stream
Screen  == INSTANCE Graphics

doorVars    == <<known, legacy, knownTemp, knownLock, dial, trusted>>
typedVars   == <<mode, editor, assembler, learning, entered, shown>>
channelVars == <<epoch, closing, outgoing, asked, meant, sizes, at, mine, sent, told, missed, caught>>
readVars    == <<out, pos, split, osc7, strip, bodies, fed, erased, cut, kept>>
screenVars  == <<store, pending, screen, scrolled, slipped, unlucky>>
vars        == <<stage, doorVars, typedVars, channelVars, readVars, screenVars>>

\* What has several initial values has one of them while another stage is looked at.
Init ==
  /\ stage \in {"door", "typed", "channel", "read", "screen"}
  /\ Door!Init /\ (stage # "door" => legacy = {})
  /\ Typed!Init /\ Channel!Init /\ Screen!Init
  /\ Read!Init /\ (stage # "read" => out = <<>>)

Next ==
  \/ stage = "door"    /\ Door!Next    /\ UNCHANGED <<stage, typedVars, channelVars, readVars, screenVars>>
  \/ stage = "typed"   /\ Typed!Next   /\ UNCHANGED <<stage, doorVars, channelVars, readVars, screenVars>>
  \/ stage = "channel" /\ Channel!Next /\ UNCHANGED <<stage, doorVars, typedVars, readVars, screenVars>>
  \/ stage = "read"    /\ Read!Next    /\ UNCHANGED <<stage, doorVars, typedVars, channelVars, screenVars>>
  \/ stage = "screen"  /\ Screen!Next  /\ UNCHANGED <<stage, doorVars, typedVars, channelVars, readVars>>

Spec == Init /\ [][Next]_vars

-----------------------------------------------------------------------------
(* Properties, each stated and explained by the stage it belongs to. *)

\* HostKeys: a host is trusted with one key, and that is kept (ssh.rs:66-122).
OneKeyPerHost == Door!OneKeyPerHost

\* Typing: lines are recorded and learned as they were entered, and no answers
\* (record.rs:152-188, learning.rs:56-74).
LinesAreNotMistaken == Typed!LinesAreNotMistaken

\* Pump: what is typed goes out once, in order, on the connection it was typed
\* for, and the size asked for is the size told (ssh.rs:355-392).
ConnectionGetsItsOwn == Channel!TypedReachesItsConnection /\ Channel!SizeReachesConnection

\* Stream: text, commands, directory, erasures and transcript do not depend on
\* where the reads cut the output, but for an erasure that is cut
\* (graphics.rs:303-360, term.rs:230-324, record.rs:33-112).
ReadsDoNotMatter == Read!SplitKeepsAll /\ Read!ScansMissNothing /\ Read!TranscriptIsText

\* Graphics: what is placed is stored, unless evicted on arrival, and what has
\* no name goes with its last placement (graphics.rs:494-571, 773-793).
StoreHoldsWhatIsShown == Screen!PlacedImagesExist /\ Screen!OrphansAreFreed

\* Graphics: an upload takes nothing off a screen (graphics.rs:517-537, 797-814).
UploadsKeepShown == [][Screen!UploadKeepsShown]_screenVars

\* Graphics and its screen: lines keep their numbers (term.rs:195-225).
AnchorsStay == Screen!AnchorsStay
=============================================================================

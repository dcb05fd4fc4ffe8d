------------------------------ MODULE Graphics ------------------------------
(***************************************************************************)
(* Inline images of a terminal (graphics.rs) on a screen that scrolls      *)
(* (term.rs): uploads in one or several commands, the store with its byte  *)
(* budget, placements anchored to absolute lines, and everything that      *)
(* takes an image or a placement away.  A read of the channel is split     *)
(* into text runs and commands and ends with a prune (Term::process); a    *)
(* step is a read of one of them, since an earlier prune takes nothing     *)
(* that a later one would leave.                                           *)
(*                                                                         *)
(* Pixels, columns and z-order are left out.  The emulator behind the      *)
(* screen is a library: a text run is what it does to the lines.           *)
(***************************************************************************)
EXTENDS Integers, Sequences, FiniteSets, FiniteSetsExt

CONSTANTS
  Ids,        \* image ids a client uses; 0 stands for none
  Numbers,    \* image numbers a client uses; 0 stands for none
  Tags,       \* placement ids a client uses; 0 stands for none
  MaxImage,   \* bytes of the largest image accepted
  MaxStore,   \* bytes of images kept
  Rows,       \* rows of the screen
  Heights,    \* rows an image takes
  Cap,        \* SCROLLBACK_LINES, also FORGET_LINES
  MaxKeys,    \* bound: images stored
  MaxShown,   \* bound: placements
  MaxLines    \* bound: lines scrolled off

VARIABLES
  store,    \* [images, placements, stored, nextKey, nextAuto]
  pending,  \* the upload whose end is outstanding: <<>> or <<[ctrl, size]>>
  screen,   \* [alt, row, len, base]: alternate screen?, cursor row, scrollback length, scroll_base
  scrolled, \* lines that really scrolled off the main screen
  slipped,  \* a text run ran past the end of the scrollback
  unlucky   \* keys of images evicted on arrival

vars == <<store, pending, screen, scrolled, slipped, unlucky>>

AutoId == 100   \* next_auto_id starts far above the ids clients use

\* Control data of a command, as far as anything depends on it.
Ctrl == {c \in [id : Ids \cup {0}, number : Numbers \cup {0}, tag : Tags \cup {0},
                show : BOOLEAN, rows : Heights, stay : BOOLEAN] :
           /\ c.id = 0 \/ c.number = 0
           /\ ~c.show => c.tag = 0 /\ c.stay /\ \A r \in Heights : c.rows <= r}

TypeOK ==
  /\ store.images \subseteq [key : 1 .. MaxKeys, id : Nat, number : Numbers \cup {0},
                             size : 0 .. MaxImage, nameless : BOOLEAN]
  /\ store.placements \subseteq [key : 1 .. MaxKeys, tag : Tags \cup {0}, line : Nat,
                                 rows : Heights, alt : BOOLEAN]
  /\ store.stored \in Nat /\ store.nextKey \in 1 .. MaxKeys + 1 /\ store.nextAuto \in Nat
  /\ pending = <<>> \/ pending[1].size \in 0 .. MaxImage
  /\ screen \in [alt : BOOLEAN, row : 0 .. Rows - 1, len : 0 .. Cap, base : Nat]
  /\ slipped \in BOOLEAN
  /\ scrolled \in 0 .. MaxLines
  /\ unlucky \subseteq 1 .. MaxKeys

Init ==
  /\ store = [images |-> {}, placements |-> {}, stored |-> 0, nextKey |-> 1, nextAuto |-> AutoId]
  /\ pending = <<>>
  /\ screen = [alt |-> FALSE, row |-> 0, len |-> 0, base |-> 0]
  /\ scrolled = 0
  /\ slipped = FALSE
  /\ unlucky = {}

-----------------------------------------------------------------------------
(* The store.  Operators from a store to the next one.  Images are kept in *)
(* the order they came in, which is that of their keys.                    *)

Bytes(images) == MapThenSumSet(LAMBDA im : im.size, images)
KeysOf(images) == {im.key : im \in images}
Shown(st)     == {p.key : p \in st.placements}
Nameless(im)  == im.id = 0 /\ im.number = 0

\* The images with these keys go, and their placements with them.
RemoveImages(st, gone) ==
  LET kept == {im \in st.images : im.key \notin gone}
  IN IF kept = st.images THEN st
     ELSE [st EXCEPT !.images = kept, !.stored = Bytes(kept),
                     !.placements = {p \in @ : p.key \notin gone}]

KeysWhere(st, f, value) == {im.key : im \in {x \in st.images : x[f] = value}}

\* What has no name and is nowhere shown.
GcAnonymous(st) ==
  RemoveImages(st, (KeysWhere(st, "id", 0) \cap KeysWhere(st, "number", 0)) \ Shown(st))

\* These placements go, then the images only they kept.
Forget(st, gone) == GcAnonymous([st EXCEPT !.placements = @ \ gone])

\* Mutant: as kitty does, the old image goes together with what it shows.
Reuse_Deletes(st, id) ==
  IF id = 0 THEN st ELSE RemoveImages(st, KeysWhere(st, "id", id))

\* The image that held this id loses it; it stays while something shows it.
Reuse(st, id) ==
  IF id = 0 THEN st
  ELSE LET orphaned(im) == IF im.id = id THEN [im EXCEPT !.id = 0, !.number = 0] ELSE im
       IN GcAnonymous([st EXCEPT !.images = {orphaned(im) : im \in @}])

\* Mutant: the oldest images go, shown or not, but their placements stay.
Evict_Oldest(st) ==
  LET gone == {im \in st.images :
                 st.stored - Bytes({o \in st.images : o.key < im.key}) > MaxStore}
  IN [st EXCEPT !.images = @ \ gone, !.stored = @ - Bytes(gone)]

\* The order in which evict's loop takes images: those nothing shows, then the
\* others, and the oldest first.
Sooner(st, a, b) ==
  \/ a.key \notin Shown(st) /\ b.key \in Shown(st)
  \/ (a.key \in Shown(st) <=> b.key \in Shown(st)) /\ a.key < b.key

\* The loop comes to an image if there is still too much without the sooner ones.
Evicted(st) ==
  {im \in st.images : st.stored - Bytes({o \in st.images : Sooner(st, o, im)}) > MaxStore}

Evict(st) ==
  LET gone == Evicted(st)
  IN [st EXCEPT !.images = @ \ gone, !.stored = @ - Bytes(gone),
                !.placements = {p \in @ : p.key \notin KeysOf(gone)}]

\* The absolute line of the top row, and of the cursor on the screen in use.
\* The library has a separate grid for the alternate screen, without scrollback.
LenNow(sc) == IF sc.alt THEN 0 ELSE sc.len
AbsTop(sc) == sc.base + LenNow(sc)
Anchor(sc) == IF sc.alt THEN sc.row ELSE AbsTop(sc) + sc.row

\* A placement of image key at the cursor; a tag replaces its predecessor.
Place(st, c, key) ==
  [st EXCEPT !.placements =
     {p \in @ : ~(c.tag # 0 /\ p.key = key /\ p.tag = c.tag)} \cup
     {[key |-> key, tag |-> c.tag, line |-> Anchor(screen), rows |-> c.rows, alt |-> screen.alt]}]

OnScreen(p, sc) ==
  LET row == IF p.alt THEN p.line ELSE p.line - AbsTop(sc)
  IN p.alt = sc.alt /\ row + p.rows > 0 /\ row < Rows

Visible == {p \in store.placements : OnScreen(p, screen)}

-----------------------------------------------------------------------------
(* The screen. *)

\* feed_text on n line feeds: what scrolls off is added to the scrollback,
\* or, once that is full, estimated and added to scroll_base.
\* Mutant: the estimate is one line short.
Feed_OneShort(sc, n) ==
  LET over == IF sc.row + n > Rows - 1 THEN sc.row + n - (Rows - 1) ELSE 0
      len  == IF sc.len + over > Cap THEN Cap ELSE sc.len + over
  IN [sc EXCEPT !.row = IF @ + n > Rows - 1 THEN Rows - 1 ELSE @ + n,
                !.len = IF sc.alt THEN @ ELSE len,
                !.base = IF sc.alt \/ sc.len < Cap \/ over = 0 THEN @ ELSE @ + over - 1]

Feed(sc, n) ==
  LET over == IF sc.row + n > Rows - 1 THEN sc.row + n - (Rows - 1) ELSE 0
      len  == IF sc.len + over > Cap THEN Cap ELSE sc.len + over
  IN [sc EXCEPT !.row = IF @ + n > Rows - 1 THEN Rows - 1 ELSE @ + n,
                !.len = IF sc.alt THEN @ ELSE len,
                !.base = IF sc.alt \/ sc.len < Cap THEN @ ELSE @ + over]

Over(sc, n) == IF sc.alt \/ sc.row + n <= Rows - 1 THEN 0 ELSE sc.row + n - (Rows - 1)

\* Placements far above the scrollback are forgotten at the end of a read.
Far(p, sc) == ~p.alt /\ p.line + p.rows <= AbsTop(sc) - Cap

Pruned(st, sc) ==
  LET far == {p \in st.placements : Far(p, sc)}
  IN IF far = {} THEN st ELSE Forget(st, far)

\* A read leaves the store st, before the prune, and n line feeds fed.
Reads(st, n) ==
  /\ Cardinality(st.placements) <= MaxShown
  /\ scrolled + Over(screen, n) <= MaxLines
  /\ store' = Pruned(st, Feed(screen, n))
  /\ screen' = Feed(screen, n)
  /\ scrolled' = scrolled + Over(screen, n)
  /\ slipped' = (slipped \/ (screen.len < Cap /\ screen.len + Over(screen, n) > Cap))

Text ==
  /\ \E n \in 1 .. 2 : Reads(store, n)
  /\ UNCHANGED <<pending, unlucky>>

\* The cursor is moved up by the program on the other side.
Home ==
  /\ screen.row # 0
  /\ screen' = [screen EXCEPT !.row = 0]
  /\ UNCHANGED <<store, pending, scrolled, slipped, unlucky>>

\* ESC[2J or ESC[3J found by scan_csi; the latter also empties the
\* scrollback, and scroll_base takes over its lines.
Erase ==
  /\ store' = Forget(store, Visible)
  /\ \/ UNCHANGED screen
     \/ ~screen.alt /\ screen' = [screen EXCEPT !.len = 0, !.base = @ + screen.len]
  /\ UNCHANGED <<pending, scrolled, slipped, unlucky>>

\* The scrollback seems to have been cleared, and is back on leaving.
EnterAlt ==
  /\ ~screen.alt
  /\ screen.base + 2 * screen.len <= MaxLines   \* bound
  /\ screen' = [screen EXCEPT !.alt = TRUE, !.base = @ + screen.len]
  /\ slipped' = (slipped \/ screen.len > 0)
  /\ UNCHANGED <<store, pending, scrolled, unlucky>>

LeaveAlt ==
  /\ screen.alt
  /\ screen' = [screen EXCEPT !.alt = FALSE]
  /\ store' = Pruned(Forget(store, {p \in store.placements : p.alt}), screen')
  /\ UNCHANGED <<pending, scrolled, slipped, unlucky>>

-----------------------------------------------------------------------------
(* Commands. *)

\* Line feeds that take the cursor behind an image just shown.
Behind(c) == IF c.show /\ ~c.stay THEN c.rows - 1 ELSE 0

\* finish: the image is stored, the budget enforced, then the image shown.
Finish(c, size) ==
  LET named == Reuse(store, c.id)
      auto  == c.id = 0 /\ c.number # 0
      key   == store.nextKey
      image == [key |-> key, id |-> IF auto THEN store.nextAuto + 1 ELSE c.id,
                number |-> c.number, size |-> size, nameless |-> c.id = 0 /\ c.number = 0]
      kept  == Evict([named EXCEPT !.images = @ \cup {image}, !.stored = @ + size,
                                   !.nextKey = key + 1, !.nextAuto = IF auto THEN @ + 1 ELSE @])
  IN /\ key <= MaxKeys
     /\ Reads(IF c.show THEN Place(kept, c, key) ELSE kept, Behind(c))
     /\ unlucky' = IF key \in KeysOf(kept.images) THEN unlucky ELSE unlucky \cup {key}

\* A part of an upload is kept until the next command.
Keep(c, size) ==
  /\ pending' = <<[ctrl |-> c, size |-> size]>>
  /\ UNCHANGED <<store, screen, scrolled, slipped, unlucky>>

\* An upload in one command, or the first part of one in several.  One that
\* validate, the base64 or its size refuses changes nothing.
Transmit(c, size) ==
  /\ pending = <<>>
  /\ Keep(c, size) \/ (Finish(c, size) /\ UNCHANGED pending)

\* While an upload is open every command is its continuation, whatever it
\* says: more, the end, or something that is not base64 or too much.
Continue(size) ==
  LET c == pending[1].ctrl
      total == pending[1].size + size
  IN /\ pending # <<>>
     /\ \/ total <= MaxImage /\ Keep(c, total)
        \/ total <= MaxImage /\ Finish(c, total) /\ pending' = <<>>
        \/ pending' = <<>> /\ UNCHANGED <<store, screen, scrolled, slipped, unlucky>>

\* a=p: the newest image of that id, or else of that number.
Put(c) ==
  LET found == {im \in store.images :
                  IF c.id # 0 THEN im.id = c.id ELSE c.number # 0 /\ im.number = c.number}
      newest == CHOOSE im \in found : \A other \in found : other.key <= im.key
  IN /\ pending = <<>> /\ c.show
     /\ found # {}
     /\ Reads(Place(store, c, newest.key), Behind(c))
     /\ UNCHANGED <<pending, unlucky>>

\* a=d by visibility, id, number, and by cell or z, where which placements
\* are hit is left open; a capital letter frees the images too.
DeleteBy(hit, freed) ==
  store' = GcAnonymous(RemoveImages([store EXCEPT !.placements = @ \ hit], freed))

OfImages(keys) == {p \in store.placements : p.key \in keys}

Delete ==
  /\ pending = <<>>
  /\ \E free \in BOOLEAN :
       LET Freed(keys) == IF free THEN keys ELSE {}
       IN \/ DeleteBy(Visible, Freed({p.key : p \in Visible}))
          \/ \E id \in Ids, tag \in Tags \cup {0} :
               LET keys == KeysWhere(store, "id", id)
               IN DeleteBy({p \in OfImages(keys) : tag \in {0, p.tag}},
                           IF tag = 0 THEN Freed(keys) ELSE {})
          \/ \E number \in Numbers :
               LET keys == KeysWhere(store, "number", number)
               IN DeleteBy(OfImages(keys), Freed(keys))
          \/ \E hit \in SUBSET store.placements : DeleteBy(hit, {})
  /\ UNCHANGED <<pending, screen, scrolled, slipped, unlucky>>

-----------------------------------------------------------------------------
Next ==
  \/ Text \/ Home \/ Erase \/ EnterAlt \/ LeaveAlt \/ Delete
  \/ \E c \in Ctrl, size \in 1 .. MaxImage : Transmit(c, size)
  \/ \E size \in 0 .. MaxImage : Continue(size)
  \/ \E c \in Ctrl : Put(c)

-----------------------------------------------------------------------------
(* Properties. *)

\* What the interface draws it can fetch (graphics.rs:797-814, 778-793): a
\* placement's image is in the store, unless it was evicted by its own
\* arrival, when every older image is on a screen.
PlacedImagesExist ==
  \A p \in store.placements : p.key \in KeysOf(store.images) \cup unlucky

\* "the old image just loses its id and is freed once nothing shows it"
\* (SPEC.md:189, graphics.rs:517-537): whichever way its last placement went.
OrphansAreFreed ==
  \A im \in store.images : Nameless(im) /\ ~im.nameless => im.key \in Shown(store)

\* An upload takes nothing off a screen (graphics.rs:517-521, 795): neither
\* by using an id again nor to make room, only by scrolling it out of reach.
UploadKeepsShown ==
  store'.nextKey # store.nextKey =>
    store.placements \subseteq store'.placements \cup {p \in store.placements : Far(p, screen')}

\* "so abs_top() keeps growing and image anchors stay put" (term.rs:86): the
\* absolute line of the top row is the number of lines that scrolled off,
\* unless one text run filled the scrollback and went on, or the alternate
\* screen was entered with lines in the scrollback.
AnchorsStay == slipped \/ AbsTop(screen) = scrolled
=============================================================================

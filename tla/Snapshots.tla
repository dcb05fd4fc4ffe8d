----------------------------- MODULE Snapshots -----------------------------
(***************************************************************************)
(* A store of rows in one file (store.rs, and favorites.rs for the two     *)
(* snapshots of hosts): saves of several windows of the program replace    *)
(* the file as a whole, loads read it at any time and without a lock, and  *)
(* a program may die in the middle of a save.                              *)
(***************************************************************************)
EXTENDS Integers, Sequences

CONSTANTS
  Savers,   \* windows that save, one after the other or at once
  MaxSaves, \* bound: saves
  MaxLoads  \* bound: loads

\* What a file holds: the rows of save n, part of some rows, or it is missing.
Partial == -1
Missing == 0
Content == -1 .. MaxSaves

VARIABLES
  file, temp,  \* <name>.jsonl and <name>.jsonl.tmp
  lock,        \* who holds <name>.lock
  saver,       \* saver[w]: where a save is and which
  saves,       \* saves begun
  done,        \* the saves that took effect, in order
  reported,    \* the length of done when the last save reported success
  loads,       \* loads done
  loaded       \* what the last load returned, and what the file had to be at least

vars == <<file, temp, lock, saver, saves, done, reported, loads, loaded>>

TypeOK ==
  /\ file \in Content /\ temp \in Content
  /\ lock \subseteq Savers
  /\ \A w \in Savers : saver[w].n \in 0 .. MaxSaves /\ saver[w].at \in {"idle", "valid", "locked", "open", "written"}
  /\ saves \in 0 .. MaxSaves /\ loads \in 0 .. MaxLoads

Init ==
  /\ file = Missing /\ temp \in {Missing, Partial}
  /\ lock = {}
  /\ saver = [w \in Savers |-> [at |-> "idle", n |-> 0]]
  /\ saves = 0 /\ done = <<>> /\ reported = 0
  /\ loads = 0 /\ loaded = [got |-> Missing, least |-> 0]

Goto(w, l) == saver' = [saver EXCEPT ![w].at = l]

-----------------------------------------------------------------------------
\* Names, sizes and rows are looked at before anything is touched; what is
\* refused changes nothing.
Save(w) ==
  /\ saver[w].at = "idle" /\ saves < MaxSaves
  /\ saves' = saves + 1
  /\ saver' = [saver EXCEPT ![w] = [at |-> "valid", n |-> saves + 1]]
  /\ UNCHANGED <<file, temp, lock, done, reported, loads, loaded>>

\* Mutant: the saves of two windows do not wait for each other.
Lock_None(w) ==
  /\ saver[w].at = "valid"
  /\ Goto(w, "locked")
  /\ UNCHANGED <<file, temp, lock, saves, done, reported, loads, loaded>>

Lock(w) ==
  /\ saver[w].at = "valid" /\ lock = {}
  /\ lock' = {w}
  /\ Goto(w, "locked")
  /\ UNCHANGED <<file, temp, saves, done, reported, loads, loaded>>

\* private_file with truncate: what a dead save left is emptied.
Truncate(w) ==
  /\ saver[w].at = "locked"
  /\ temp' = Partial
  /\ Goto(w, "open")
  /\ UNCHANGED <<file, lock, saves, done, reported, loads, loaded>>

\* write_all and sync_all, or an error of either.
Write(w) ==
  /\ saver[w].at = "open"
  /\ \/ temp' = saver[w].n /\ Goto(w, "written") /\ UNCHANGED lock
     \/ Goto(w, "idle") /\ lock' = lock \ {w} /\ UNCHANGED temp
  /\ UNCHANGED <<file, saves, done, reported, loads, loaded>>

\* Success is reported after the rename.
Rename(w) ==
  /\ saver[w].at = "written"
  /\ file' = temp /\ temp' = Missing
  /\ done' = Append(done, saver[w].n)
  /\ reported' = Len(done) + 1
  /\ lock' = lock \ {w}
  /\ Goto(w, "idle")
  /\ UNCHANGED <<saves, loads, loaded>>

\* The program dies; its locks go, its files stay.
Die(w) ==
  /\ saver[w].at # "idle"
  /\ Goto(w, "idle") /\ lock' = lock \ {w}
  /\ UNCHANGED <<file, temp, saves, done, reported, loads, loaded>>

\* The file as it is when it is opened; temporary files are never looked at.
Load ==
  /\ loads < MaxLoads
  /\ loads' = loads + 1
  /\ loaded' = [got |-> file, least |-> reported]
  /\ UNCHANGED <<file, temp, lock, saver, saves, done, reported>>

Next == (\E w \in Savers : Save(w) \/ Lock(w) \/ Truncate(w) \/ Write(w) \/ Rename(w) \/ Die(w)) \/ Load

Spec == Init /\ [][Next]_vars

-----------------------------------------------------------------------------
(* Properties. *)

\* A load returns all the rows of one save and nothing else, however the
\* saves of two windows meet and wherever one of them dies, and once a save
\* was reported it returns that one or one that came after it
\* (store.rs:38-84, favorites.rs:8-53).
SavesAreWhole ==
  /\ loaded.got # Partial /\ file # Partial
  /\ loaded.got = Missing => loaded.least = 0
  /\ loaded.got > 0 => \E i \in 1 .. Len(done) : done[i] = loaded.got /\ i >= loaded.least
=============================================================================

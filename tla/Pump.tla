-------------------------------- MODULE Pump --------------------------------
(***************************************************************************)
(* What goes out on a connection (pump loop of ssh.rs, write and resize of *)
(* session.rs): the interface queues what is typed and asks for sizes; a   *)
(* worker takes the queue into a buffer of its own and writes as much as   *)
(* the channel accepts.  A reconnect clears the queue and starts a worker  *)
(* of a new epoch while the old one may be anywhere in its iteration; its  *)
(* queue and its lock are the same.                                        *)
(***************************************************************************)
EXTENDS Integers, Sequences, SequencesExt, FiniteSets

CONSTANTS
  MaxEpoch,  \* bound: connections
  MaxQueued, \* bound: pieces meant, typed or answered
  MaxSizes   \* bound: resizes

Epoch == 1 .. MaxEpoch
Loop  == {"top", "read", "size", "take", "send"}

VARIABLES
  epoch,    \* the session's epoch
  closing,  \* close_requested
  outgoing, \* the queue; a piece is its number
  asked,    \* resize_request or a changed cell size is waiting
  meant,    \* meant[n]: the epoch piece n was queued for
  sizes,    \* resizes so far
  at,       \* at[e]: where worker e is
  mine,     \* mine[e]: pending_out
  sent,     \* sent[e]: what connection e has transmitted
  told,     \* told[e]: the size connection e was told last
  missed,   \* a size was refused by the channel or taken by a replaced worker
  caught    \* workers that were replaced in the middle of an iteration

vars == <<epoch, closing, outgoing, asked, meant, sizes, at, mine, sent, told, missed, caught>>

Piece == 1 .. MaxQueued

TypeOK ==
  /\ epoch \in 1 .. MaxEpoch
  /\ closing \in BOOLEAN /\ asked \in BOOLEAN /\ missed \in BOOLEAN
  /\ outgoing \in Seq(Piece)
  /\ meant \in Seq(Epoch) /\ sizes \in 0 .. MaxSizes
  /\ at \in [Epoch -> Loop \cup {"none", "dial", "gone"}]
  /\ mine \in [Epoch -> Seq(Piece)] /\ sent \in [Epoch -> Seq(Piece)]
  /\ told \in [Epoch -> 0 .. MaxSizes]
  /\ caught \subseteq Epoch

Init ==
  /\ epoch = 1
  /\ closing = FALSE /\ asked = FALSE /\ missed = FALSE
  /\ outgoing = <<>>
  /\ meant = <<>> /\ sizes = 0
  /\ at = [e \in Epoch |-> IF e = 1 THEN "dial" ELSE "none"]
  /\ mine = [e \in Epoch |-> <<>>] /\ sent = [e \in Epoch |-> <<>>]
  /\ told = [e \in Epoch |-> 0]
  /\ caught = {}

-----------------------------------------------------------------------------
(* The interface. *)

Queue(e) ==
  /\ Len(meant) < MaxQueued
  /\ meant' = Append(meant, e)
  /\ outgoing' = Append(outgoing, Len(meant) + 1)

\* What is typed before the shell is there waits in the queue.
Write ==
  /\ at[epoch] # "gone"
  /\ Queue(epoch)
  /\ UNCHANGED <<epoch, closing, asked, sizes, at, mine, sent, told, missed, caught>>

\* resize and set_cell_px.
Resize ==
  /\ sizes < MaxSizes
  /\ sizes' = sizes + 1
  /\ asked' = TRUE
  /\ UNCHANGED <<epoch, closing, outgoing, meant, at, mine, sent, told, missed, caught>>

Close ==
  /\ ~closing
  /\ closing' = TRUE
  /\ UNCHANGED <<epoch, outgoing, asked, meant, sizes, at, mine, sent, told, missed, caught>>

\* Mutant: the queue of the old connection is left for the new one.
Connect_KeepsQueue ==
  /\ epoch < MaxEpoch
  /\ epoch' = epoch + 1
  /\ closing' = FALSE
  /\ at' = [at EXCEPT ![epoch + 1] = "dial"]
  /\ caught' = IF at[epoch] \in Loop \ {"top"} THEN caught \cup {epoch} ELSE caught
  /\ UNCHANGED <<outgoing, asked, meant, sizes, mine, sent, told, missed>>

\* connect: a new epoch, no close requested, an empty queue, a worker.
Connect ==
  /\ epoch < MaxEpoch
  /\ epoch' = epoch + 1
  /\ closing' = FALSE
  /\ outgoing' = <<>>
  /\ at' = [at EXCEPT ![epoch + 1] = "dial"]
  /\ caught' = IF at[epoch] \in Loop \ {"top"} THEN caught \cup {epoch} ELSE caught
  /\ UNCHANGED <<asked, meant, sizes, mine, sent, told, missed>>

-----------------------------------------------------------------------------
(* Worker e. *)

Go(e, there) == at' = [at EXCEPT ![e] = there]
Stale(e) == epoch # e

\* The pty is requested in the size of the moment; later ones are in asked.
Dial(e) ==
  /\ at[e] = "dial"
  /\ \/ ~Stale(e) /\ ~closing /\ Go(e, "top") /\ told' = [told EXCEPT ![e] = sizes]
     \/ Go(e, "gone") /\ UNCHANGED told
  /\ UNCHANGED <<epoch, closing, outgoing, asked, meant, sizes, mine, sent, missed, caught>>

Top(e) ==
  /\ at[e] = "top"
  /\ Go(e, IF Stale(e) \/ closing THEN "gone" ELSE "read")
  /\ UNCHANGED <<epoch, closing, outgoing, asked, meant, sizes, mine, sent, told, missed, caught>>

\* Output is fed to the terminal, whose answers join the queue; or the
\* connection ends, by an error or by the other side.
Input(e) ==
  /\ at[e] = "read"
  /\ \/ Go(e, "size") /\ UNCHANGED <<outgoing, meant>>
     \/ Go(e, "size") /\ Queue(e)
     \/ Go(e, "gone") /\ UNCHANGED <<outgoing, meant>>
  /\ UNCHANGED <<epoch, closing, asked, sizes, mine, sent, told, missed, caught>>

\* The answer of request_pty_size is not looked at.
Size(e) ==
  /\ at[e] = "size"
  /\ Go(e, "take")
  /\ asked' = FALSE
  /\ \/ told' = [told EXCEPT ![e] = IF asked THEN sizes ELSE @]
        /\ missed' = (missed \/ (asked /\ Stale(e)))
     \/ missed' = (missed \/ asked) /\ UNCHANGED told
  /\ UNCHANGED <<epoch, closing, outgoing, meant, sizes, mine, sent, caught>>

Take(e) ==
  /\ at[e] = "take"
  /\ Go(e, "send")
  /\ mine' = [mine EXCEPT ![e] = @ \o outgoing]
  /\ outgoing' = <<>>
  /\ UNCHANGED <<epoch, closing, asked, meant, sizes, sent, told, missed, caught>>

Rest(e, n) == SubSeq(mine[e], n + 1, Len(mine[e]))

\* The channel takes the first n pieces, or breaks after them; then the keepalive.
Send(e) ==
  /\ at[e] = "send"
  /\ \E n \in 0 .. Len(mine[e]) :
       /\ sent' = [sent EXCEPT ![e] = @ \o SubSeq(mine[e], 1, n)]
       /\ mine' = [mine EXCEPT ![e] = Rest(e, n)]
  /\ Go(e, "top") \/ Go(e, "gone")
  /\ UNCHANGED <<epoch, closing, outgoing, asked, meant, sizes, told, missed, caught>>

Worker(e) == Dial(e) \/ Top(e) \/ Input(e) \/ Size(e) \/ Take(e) \/ Send(e)

Next == Write \/ Resize \/ Close \/ Connect \/ \E e \in Epoch : Worker(e)

Spec == Init /\ [][Next]_vars

-----------------------------------------------------------------------------
(* Properties. *)

Path(e) == sent[e] \o mine[e] \o (IF e = epoch THEN outgoing ELSE <<>>)

\* What is typed goes out once, in order, on the connection it was typed for
\* (session.rs:156-164, ssh.rs:369-392): while that one lives nothing of it is
\* missing, and only a worker caught in the middle of its iteration by a
\* reconnect mixes it with another's (ssh.rs:293-297).
TypedReachesItsConnection ==
  \A e \in Epoch :
    /\ \A i, j \in DOMAIN Path(e) : i < j => Path(e)[i] < Path(e)[j]
    /\ \A i \in DOMAIN Path(e) : meant[Path(e)[i]] # e => {e, meant[Path(e)[i]]} \cap caught # {}
    /\ e = epoch /\ at[e] \in Loop =>
         \A n \in DOMAIN meant : meant[n] = e =>
           \E d \in caught \cup {e} : n \in ToSet(Path(d))

\* The size the interface asked for is the one the connection was told
\* (session.rs:166-172, ssh.rs:355-367), once nothing is asked any more; a
\* refused request and one taken by a replaced worker are lost for good.
SizeReachesConnection ==
  at[epoch] \in Loop /\ ~asked => told[epoch] = sizes \/ missed
=============================================================================

----------------------------- MODULE Replacement -----------------------------
(***************************************************************************)
(* What an upload promises about the remote file it writes (files.rs       *)
(* lines 22-25 and 293-296): it either lands whole, or fails and leaves    *)
(* the file as it was, with no moment between.  Only a broken connection   *)
(* leaves open which of the two it was.                                    *)
(***************************************************************************)
CONSTANTS Job, Contents0

VARIABLES
  content,  \* which version the remote file holds
  outcome   \* outcome[j]: none, landed, failed or broken

Init ==
  /\ content \in Contents0
  /\ outcome = [j \in Job |-> "none"]

Land(j) ==
  /\ outcome[j] = "none"
  /\ content' = j
  /\ outcome' = [outcome EXCEPT ![j] = "landed"]

Fail(j) ==
  /\ outcome[j] = "none"
  /\ outcome' = [outcome EXCEPT ![j] = "failed"]
  /\ UNCHANGED content

Break(j) ==
  /\ outcome[j] = "none"
  /\ content' \in {content, j}
  /\ outcome' = [outcome EXCEPT ![j] = "broken"]

Next == \E j \in Job : Land(j) \/ Fail(j) \/ Break(j)

Spec == Init /\ [][Next]_<<content, outcome>>
=============================================================================

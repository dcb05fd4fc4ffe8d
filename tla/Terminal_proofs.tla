--------------------------- MODULE Terminal_proofs ---------------------------
(***************************************************************************)
(* Proofs about module Terminal, for any constants: of HostKeys, that a    *)
(* host has one key; of Pump, that what is typed goes out once, in order   *)
(* and on its connection; of Graphics, that lines keep their numbers, that *)
(* the store holds what is shown, and that an upload takes nothing off; of *)
(* Typing, that lines are recorded and learned as they were entered; of    *)
(* Stream, that it does not matter where the reads cut the output.         *)
(***************************************************************************)
EXTENDS Terminal, SequenceTheorems, FiniteSetTheorems, TLAPS

Attempt == [at : Door!At, as : Door!Entry, known : SUBSET Door!Entry, left : Seq(Door!Way), offered : SUBSET Door!Way]

DialsTyped == dial \in [Dials -> Attempt]

Known == known \cup legacy

(* Whoever is between the lock and the rename has the lock to itself, and  *)
(* what it has read is still what is there.                                *)
Writing   == {"read", "add", "rename"}
Exclusive == \A c \in Dials : dial[c].at \in Writing \cup {"locked"} => knownLock = {c}
UpToDate  == \A c \in Dials : dial[c].at \in Writing => dial[c].known = Known

(* Only a host without an entry gets one.                                  *)
Unknown(e) == \A k \in Known : k[1] # e[1]
FirstUse ==
  \A c \in Dials :
    /\ dial[c].at \in {"add", "rename"} => Unknown(dial[c].as)
    /\ dial[c].at = "rename" => knownTemp.keys = Known \cup {dial[c].as}

(* A connection offers itself after it was let pass.                       *)
PassedFirst ==
  \A c \in Dials :
    /\ dial[c].at \notin {"trusted", "in", "out"} => dial[c].offered = {}
    /\ dial[c].at = "trusted" \/ dial[c].offered # {} => dial[c].as \in trusted

IInv ==
  /\ DialsTyped
  /\ Known \subseteq Door!Entry /\ Door!Single(Known) /\ trusted \subseteq Known
  /\ Exclusive /\ UpToDate /\ FirstUse /\ PassedFirst

LEMMA OffersTyped == \A a, b \in BOOLEAN : Door!Offers(a, b) \in Seq(Door!Way)
<1>1. <<"key">> \in Seq(Door!Way) /\ <<"agent", "default">> \in Seq(Door!Way) /\ <<"password">> \in Seq(Door!Way) /\ <<>> \in Seq(Door!Way)
  BY DEF Door!Way
<1>2. \A s, t \in Seq(Door!Way) : s \o t \in Seq(Door!Way)
  OBVIOUS
<1>. QED
  BY <1>1, <1>2 DEF Door!Offers

LEMMA Went ==
  ASSUME DialsTyped, NEW c \in Dials, NEW l \in Door!At, Door!Goto(c, l)
  PROVE  /\ DialsTyped'
         /\ \A d \in Dials \ {c} : dial'[d] = dial[d]
         /\ dial'[c].at = l /\ dial'[c].as = dial[c].as /\ dial'[c].known = dial[c].known
         /\ dial'[c].left = dial[c].left /\ dial'[c].offered = dial[c].offered
<1>1. dial[c] \in Attempt
  BY DEF DialsTyped
<1>2. [dial[c] EXCEPT !.at = l] \in Attempt
  BY <1>1 DEF Attempt
<1>. QED
  BY <1>1, <1>2 DEF Door!Goto, DialsTyped, Attempt

LEMMA Initial == ASSUME Door!Entry # {} PROVE Door!Init => IInv
<1>. SUFFICES ASSUME Door!Init PROVE IInv
  OBVIOUS
<1>1. Door!Nothing \in Attempt /\ Door!Nothing.at = "none" /\ Door!Nothing.offered = {}
  BY DEF Door!Nothing, Attempt, Door!At
<1>2. DialsTyped /\ \A c \in Dials : dial[c].at = "none" /\ dial[c].offered = {}
  BY <1>1 DEF Door!Init, DialsTyped
<1>3. Known \subseteq Door!Entry /\ Door!Single(Known) /\ trusted \subseteq Known
  BY DEF Door!Init, Known
<1>4. Exclusive /\ UpToDate /\ FirstUse /\ PassedFirst
  BY <1>2 DEF Exclusive, UpToDate, FirstUse, PassedFirst, Writing
<1>. QED
  BY <1>2, <1>3, <1>4 DEF IInv

(* A connection outside the lock goes somewhere outside the lock.          *)
LEMMA Outside ==
  ASSUME IInv, NEW c \in Dials, DialsTyped',
         \A d \in Dials \ {c} : dial'[d] = dial[d],
         dial[c].at \notin Writing \cup {"locked"}, dial'[c].at \notin Writing \cup {"locked"},
         dial'[c].at \notin {"trusted", "in", "out"} => dial'[c].offered = {},
         dial'[c].at = "trusted" \/ dial'[c].offered # {} => dial'[c].as \in trusted,
         UNCHANGED <<known, legacy, knownTemp, knownLock, trusted>>
  PROVE  IInv'
<1>1. Known' = Known
  BY DEF Known
<1>2. Exclusive' /\ UpToDate'
  BY <1>1 DEF IInv, Exclusive, UpToDate
<1>3. FirstUse'
  <2>1. \A d \in Dials : dial'[d].at \in {"add", "rename"} => dial'[d] = dial[d]
    BY DEF Writing
  <2>. QED
    BY <1>1, <2>1 DEF IInv, FirstUse, Unknown
<1>4. PassedFirst'
  BY DEF IInv, PassedFirst
<1>. QED
  BY <1>1, <1>2, <1>3, <1>4 DEF IInv, Door!Single

LEMMA Dialling ==
  ASSUME IInv, NEW c \in Dials, Door!TcpConnect(c)
  PROVE  IInv'
<1>1. dial[c] \in Attempt /\ dial[c].at = "none" /\ dial[c].offered = {}
  BY DEF IInv, DialsTyped, Door!TcpConnect, PassedFirst
<1>2. CASE Door!Goto(c, "out")
  <2>1. "out" \in Door!At
    BY DEF Door!At
  <2>. QED
    BY <1>1, <1>2, <2>1, Went, Outside DEF IInv, Door!TcpConnect, Writing, PassedFirst
<1>3. ASSUME NEW e \in Door!Entry, dial' = [dial EXCEPT ![c].at = "shaken", ![c].as = e]
      PROVE  IInv'
  <2>1. [[dial[c] EXCEPT !.at = "shaken"] EXCEPT !.as = e] \in Attempt
    BY <1>1 DEF Attempt, Door!At
  <2>2. DialsTyped' /\ dial'[c].at = "shaken" /\ dial'[c].offered = {} /\ \A d \in Dials \ {c} : dial'[d] = dial[d]
    BY <1>1, <1>3, <2>1 DEF IInv, DialsTyped, Attempt
  <2>. QED
    BY <1>1, <2>2, Outside DEF Door!TcpConnect, Writing
<1>. QED
  BY <1>2, <1>3 DEF Door!TcpConnect

LEMMA Replaced ==
  ASSUME IInv, NEW c \in Dials, Door!Superseded(c)
  PROVE  IInv'
<1>1. "out" \in Door!At /\ Door!Goto(c, "out") /\ DialsTyped
  BY DEF Door!At, Door!Superseded, IInv
<1>2. dial'[c].offered # {} => dial'[c].as \in trusted
  BY <1>1, Went DEF IInv, PassedFirst
<1>. QED
  BY <1>1, <1>2, Went, Outside DEF Door!Superseded, Writing

LEMMA Offering ==
  ASSUME IInv, NEW c \in Dials, Door!Authenticate(c)
  PROVE  IInv'
<1>1. dial[c] \in Attempt /\ dial[c].at = "trusted" /\ dial[c].as \in trusted
  BY DEF IInv, DialsTyped, Door!Authenticate, PassedFirst
<1>2. CASE dial[c].left = <<>>
  <2>1. "out" \in Door!At /\ Door!Goto(c, "out") /\ DialsTyped
    BY <1>2 DEF Door!At, Door!Authenticate, IInv
  <2>. QED
    BY <1>1, <2>1, Went, Outside DEF Door!Authenticate, Writing
<1>3. CASE dial[c].left # <<>>
  <2>1. PICK ok \in BOOLEAN :
          dial' = [dial EXCEPT ![c].at = IF ok THEN "in" ELSE "trusted",
                               ![c].left = Tail(@), ![c].offered = @ \cup {Head(dial[c].left)}]
    BY <1>3 DEF Door!Authenticate
  <2>2. Tail(dial[c].left) \in Seq(Door!Way) /\ Head(dial[c].left) \in Door!Way
    BY <1>1, <1>3 DEF Attempt
  <2>3. (IF ok THEN "in" ELSE "trusted") \in Door!At
    BY DEF Door!At
  <2>4. /\ dial'[c] \in Attempt
        /\ dial'[c].at = (IF ok THEN "in" ELSE "trusted") /\ dial'[c].as = dial[c].as
        /\ \A d \in Dials \ {c} : dial'[d] = dial[d]
    BY <1>1, <2>1, <2>2, <2>3 DEF IInv, DialsTyped, Attempt
  <2>5. DialsTyped'
    BY <2>1, <2>4 DEF IInv, DialsTyped
  <2>. QED
    BY <1>1, <2>4, <2>5, Outside DEF Door!Authenticate, Writing
<1>. QED
  BY <1>2, <1>3

LEMMA Locking ==
  ASSUME IInv, NEW c \in Dials, Door!Lock(c)
  PROVE  IInv'
<1>1. "locked" \in Door!At /\ Door!Goto(c, "locked") /\ DialsTyped
  BY DEF Door!At, Door!Lock, IInv
<1>2. \A d \in Dials : dial[d].at \notin Writing \cup {"locked"}
  BY DEF IInv, Exclusive, Door!Lock
<1>3. Exclusive' /\ UpToDate' /\ FirstUse'
  BY <1>1, <1>2, Went DEF Exclusive, UpToDate, FirstUse, Writing, Door!Lock
<1>4. PassedFirst'
  BY <1>1, Went DEF IInv, PassedFirst, Door!Lock
<1>. QED
  BY <1>1, <1>3, <1>4, Went DEF IInv, Door!Single, Known, Door!Lock

LEMMA ReadingKnown ==
  ASSUME IInv, NEW c \in Dials, Door!ReadKnown(c)
  PROVE  IInv'
<1>1. dial[c] \in Attempt /\ dial[c].at = "locked" /\ dial[c].offered = {} /\ knownLock = {c}
  BY DEF IInv, DialsTyped, Door!ReadKnown, PassedFirst, Exclusive
<1>2. /\ dial'[c] \in Attempt
      /\ dial'[c].at = "read" /\ dial'[c].as = dial[c].as /\ dial'[c].known = Known /\ dial'[c].offered = {}
      /\ \A d \in Dials \ {c} : dial'[d] = dial[d]
  BY <1>1 DEF IInv, DialsTyped, Door!ReadKnown, Attempt, Door!At, Known
<1>3. DialsTyped' /\ Known' = Known /\ knownTemp' = knownTemp /\ knownLock' = knownLock /\ trusted' = trusted
  BY <1>2 DEF IInv, DialsTyped, Door!ReadKnown, Known
<1>4. Exclusive' /\ UpToDate'
  BY <1>1, <1>2, <1>3 DEF IInv, Exclusive, UpToDate, Writing
<1>5. FirstUse'
  BY <1>2, <1>3 DEF IInv, FirstUse, Unknown
<1>6. PassedFirst'
  BY <1>1, <1>2, <1>3 DEF IInv, PassedFirst
<1>. QED
  BY <1>3, <1>4, <1>5, <1>6 DEF IInv, Door!Single

(* A host with another key is turned away, one without an entry gets one,  *)
(* and one that shows the key of its entry passes.                         *)
LEMMA Checking ==
  ASSUME IInv, NEW c \in Dials, Door!CheckHostKey(c)
  PROVE  IInv'
<1>1. /\ dial[c] \in Attempt /\ dial[c].at = "read" /\ dial[c].offered = {}
      /\ knownLock = {c} /\ dial[c].known = Known
      /\ \A d \in Dials \ {c} : dial[d].at \notin Writing \cup {"locked"}
  BY DEF IInv, DialsTyped, Door!CheckHostKey, PassedFirst, Exclusive, UpToDate, Writing
<1>2. Known' = Known /\ knownTemp' = knownTemp
  BY DEF Known, Door!CheckHostKey
<1>3. CASE Door!CheckPort(dial[c].known, dial[c].as) = "match"
  <2>1. dial[c].as \in Known
    BY <1>1, <1>3 DEF Door!CheckPort
  <2>2. Door!Pass(c) /\ Door!Unlock(c)
    BY <1>3 DEF Door!CheckHostKey
  <2>3. PICK a \in BOOLEAN, b \in BOOLEAN :
          dial' = [dial EXCEPT ![c].at = "trusted", ![c].left = Door!Offers(a, b)]
    BY <2>2 DEF Door!Pass
  <2>4. /\ dial'[c] \in Attempt
        /\ dial'[c].at = "trusted" /\ dial'[c].as = dial[c].as /\ dial'[c].offered = {}
        /\ \A d \in Dials \ {c} : dial'[d] = dial[d]
    BY <1>1, <2>3, OffersTyped DEF IInv, DialsTyped, Attempt, Door!At
  <2>5. DialsTyped' /\ trusted' = trusted \cup {dial[c].as}
    BY <2>2, <2>3, <2>4 DEF IInv, DialsTyped, Door!Pass
  <2>6. Exclusive' /\ UpToDate' /\ FirstUse'
    BY <1>1, <1>2, <2>4 DEF Exclusive, UpToDate, FirstUse, Writing
  <2>7. PassedFirst'
    BY <2>4, <2>5 DEF IInv, PassedFirst
  <2>. QED
    BY <1>2, <2>1, <2>5, <2>6, <2>7 DEF IInv, Door!Single
<1>4. CASE Door!CheckPort(dial[c].known, dial[c].as) = "mismatch"
  <2>1. "out" \in Door!At /\ DialsTyped /\ Door!Goto(c, "out") /\ trusted' = trusted
    BY <1>4 DEF Door!At, IInv, Door!CheckHostKey
  <2>2. Exclusive' /\ UpToDate' /\ FirstUse'
    BY <1>1, <1>2, <2>1, Went DEF Exclusive, UpToDate, FirstUse, Writing
  <2>3. PassedFirst'
    BY <1>1, <2>1, Went DEF IInv, PassedFirst
  <2>. QED
    BY <1>2, <2>1, <2>2, <2>3, Went DEF IInv, Door!Single
<1>5. CASE Door!CheckPort(dial[c].known, dial[c].as) = "notfound"
  <2>1. "add" \in Door!At /\ DialsTyped /\ Door!Goto(c, "add") /\ trusted' = trusted /\ knownLock' = knownLock
    BY <1>5 DEF Door!At, IInv, Door!CheckHostKey
  <2>2. \A k \in Known : k[1] # dial[c].as[1]
    BY <1>1, <1>5 DEF Door!CheckPort
  <2>3. Exclusive' /\ UpToDate'
    BY <1>1, <1>2, <2>1, Went DEF IInv, Exclusive, UpToDate, Writing
  <2>4. FirstUse' /\ PassedFirst'
    BY <1>1, <1>2, <2>1, <2>2, Went DEF IInv, FirstUse, Unknown, PassedFirst, Writing
  <2>. QED
    BY <1>2, <2>1, <2>3, <2>4, Went DEF IInv, Door!Single
<1>. QED
  BY <1>3, <1>4, <1>5 DEF Door!CheckPort

LEMMA Writes ==
  ASSUME IInv, NEW c \in Dials, Door!WriteFile(c)
  PROVE  IInv'
<1>1. /\ dial[c].at = "add" /\ dial[c].offered = {} /\ knownLock = {c} /\ dial[c].known = Known
      /\ \A d \in Dials \ {c} : dial[d].at \notin Writing \cup {"locked"}
      /\ \A k \in Known : k[1] # dial[c].as[1]
  BY DEF IInv, Door!WriteFile, PassedFirst, Exclusive, UpToDate, FirstUse, Unknown, Writing
<1>2. Known' = Known /\ trusted' = trusted /\ DialsTyped /\ {"rename", "out"} \subseteq Door!At
  BY DEF Known, Door!WriteFile, IInv, Door!At
<1>3. CASE Door!Goto(c, "rename") /\ knownLock' = knownLock /\ knownTemp' = [whole |-> TRUE, keys |-> dial[c].known \cup {dial[c].as}]
  <2>1. Exclusive' /\ UpToDate'
    BY <1>1, <1>2, <1>3, Went DEF IInv, Exclusive, UpToDate, Writing
  <2>2. FirstUse' /\ PassedFirst'
    BY <1>1, <1>2, <1>3, Went DEF IInv, FirstUse, Unknown, PassedFirst, Writing
  <2>. QED
    BY <1>2, <1>3, <2>1, <2>2, Went DEF IInv, Door!Single
<1>4. CASE Door!Goto(c, "out")
  <2>1. Exclusive' /\ UpToDate' /\ FirstUse' /\ PassedFirst'
    BY <1>1, <1>2, <1>4, Went DEF IInv, Exclusive, UpToDate, FirstUse, PassedFirst, Writing
  <2>. QED
    BY <1>2, <1>4, <2>1, Went DEF IInv, Door!Single
<1>. QED
  BY <1>3, <1>4 DEF Door!WriteFile

(* The new file holds what there was and one more host.                    *)
LEMMA Renaming ==
  ASSUME IInv, NEW c \in Dials, Door!Rename(c)
  PROVE  IInv'
<1>1. /\ dial[c] \in Attempt /\ dial[c].at = "rename" /\ dial[c].offered = {} /\ knownLock = {c}
      /\ knownTemp.keys = Known \cup {dial[c].as}
      /\ \A d \in Dials \ {c} : dial[d].at \notin Writing \cup {"locked"}
      /\ \A k \in Known : k[1] # dial[c].as[1]
  BY DEF IInv, DialsTyped, Door!Rename, PassedFirst, Exclusive, FirstUse, Unknown, Writing
<1>2. CASE known' = knownTemp.keys /\ Door!Pass(c)
  <2>1. Known' = Known \cup {dial[c].as}
    BY <1>1, <1>2 DEF Known, Door!Rename
  <2>2. Door!Single(Known') /\ Known' \subseteq Door!Entry
    BY <1>1, <2>1 DEF IInv, Door!Single, Attempt
  <2>3. PICK a \in BOOLEAN, b \in BOOLEAN :
          dial' = [dial EXCEPT ![c].at = "trusted", ![c].left = Door!Offers(a, b)]
    BY <1>2 DEF Door!Pass
  <2>4. /\ dial'[c] \in Attempt
        /\ dial'[c].at = "trusted" /\ dial'[c].as = dial[c].as /\ dial'[c].offered = {}
        /\ \A d \in Dials \ {c} : dial'[d] = dial[d]
    BY <1>1, <2>3, OffersTyped DEF IInv, DialsTyped, Attempt, Door!At
  <2>5. DialsTyped' /\ trusted' = trusted \cup {dial[c].as}
    BY <1>2, <2>3, <2>4 DEF IInv, DialsTyped, Door!Pass
  <2>6. Exclusive' /\ UpToDate' /\ FirstUse'
    BY <1>1, <2>4 DEF Exclusive, UpToDate, FirstUse, Writing
  <2>7. PassedFirst'
    BY <2>4, <2>5 DEF IInv, PassedFirst
  <2>. QED
    BY <2>1, <2>2, <2>5, <2>6, <2>7 DEF IInv, Door!Single
<1>3. CASE Door!Goto(c, "out") /\ UNCHANGED <<known, trusted>>
  <2>1. "out" \in Door!At /\ DialsTyped /\ Known' = Known
    BY <1>3 DEF Door!At, IInv, Known, Door!Rename
  <2>2. Exclusive' /\ UpToDate' /\ FirstUse' /\ PassedFirst'
    BY <1>1, <1>3, <2>1, Went DEF IInv, Exclusive, UpToDate, FirstUse, PassedFirst, Writing
  <2>. QED
    BY <1>3, <2>1, <2>2, Went DEF IInv, Door!Single
<1>. QED
  BY <1>2, <1>3 DEF Door!Rename

LEMMA Dying ==
  ASSUME IInv, NEW c \in Dials, Door!Die(c)
  PROVE  IInv'
<1>1. "out" \in Door!At /\ DialsTyped /\ Door!Goto(c, "out") /\ Known' = Known /\ trusted' = trusted
  BY DEF Door!At, IInv, Known, Door!Die
<1>2. \A d \in Dials \ {c} : dial[d].at \in Writing \cup {"locked"} => knownLock = {d} /\ knownLock' = {d} /\ knownTemp' = knownTemp
  BY DEF IInv, Exclusive, Door!Die, Door!Unlock, Writing
<1>3. Exclusive' /\ UpToDate'
  BY <1>1, <1>2, Went DEF IInv, Exclusive, UpToDate, Writing
<1>4. FirstUse' /\ PassedFirst'
  BY <1>1, <1>2, Went DEF IInv, FirstUse, Unknown, PassedFirst, Writing
<1>. QED
  BY <1>1, <1>3, <1>4, Went DEF IInv, Door!Single

LEMMA KeysInductive == ASSUME Door!Entry # {} PROVE Door!Spec => []IInv
<1>1. Door!Init => IInv
  BY Initial
<1>2. IInv /\ [Door!Next]_(Door!vars) => IInv'
  <2>. SUFFICES ASSUME IInv, [Door!Next]_(Door!vars) PROVE IInv'
    OBVIOUS
  <2>1. CASE UNCHANGED Door!vars
    <3>1. DialsTyped' /\ Known' = Known
      BY <2>1 DEF Door!vars, IInv, DialsTyped, Known
    <3>2. Exclusive' /\ UpToDate' /\ FirstUse' /\ PassedFirst'
      BY <2>1, <3>1 DEF Door!vars, IInv, Exclusive, UpToDate, FirstUse, Unknown, PassedFirst
    <3>. QED
      BY <2>1, <3>1, <3>2 DEF Door!vars, IInv, Door!Single
  <2>2. CASE Door!Next
    BY <2>2, Dialling, Replaced, Offering, Locking, ReadingKnown, Checking, Writes, Renaming, Dying DEF Door!Next
  <2>. QED
    BY <2>1, <2>2
<1>. QED
  BY <1>1, <1>2, PTL DEF Door!Spec

-----------------------------------------------------------------------------
(* Every step is a step of the connections or leaves them alone.           *)
LEMMA Connects == Spec => Door!Spec
<1>1. Init => Door!Init
  BY DEF Init
<1>2. [Next]_vars => [Door!Next]_(Door!vars)
  BY DEF Next, vars, doorVars, typedVars, channelVars, readVars, screenVars, Door!vars
<1>. QED
  BY <1>1, <1>2, PTL DEF Spec, Door!Spec

(* However many connections of however many processes meet at the file,    *)
(* and wherever they die, every host was trusted with one key, the file    *)
(* has it, and nothing was offered to any other (ssh.rs:66-122).           *)
THEOREM TrustOnFirstUse == ASSUME Hosts # {}, HostKey # {} PROVE Spec => []OneKeyPerHost
<1>1. Door!Entry # {}
  <2>1. PICK h \in Hosts, k \in HostKey : TRUE
    OBVIOUS
  <2>2. <<h, k>> \in Hosts \X HostKey
    OBVIOUS
  <2>. QED
    BY <2>2 DEF Door!Entry
<1>2. IInv => OneKeyPerHost
  BY DEF IInv, OneKeyPerHost, Door!OneKeyPerHost, Door!Single, Known, PassedFirst
<1>. QED
  BY <1>1, <1>2, Connects, KeysInductive, PTL
-----------------------------------------------------------------------------
(* Sequences of numbers.                                                   *)

Of(s)     == {s[i] : i \in DOMAIN s}
Rising(s) == \A i, j \in DOMAIN s : i < j => s[i] < s[j]

LEMMA OfConcat ==
  ASSUME NEW S, NEW s \in Seq(S), NEW t \in Seq(S)
  PROVE  s \o t \in Seq(S) /\ Of(s \o t) = Of(s) \cup Of(t)
<1>1. PICK l \in Nat, m \in Nat : l = Len(s) /\ m = Len(t)
  OBVIOUS
<1>2. PICK all : all = s \o t
  OBVIOUS
<1>3. all \in Seq(S) /\ DOMAIN all = 1 .. l + m /\ DOMAIN s = 1 .. l /\ DOMAIN t = 1 .. m
  BY <1>1, <1>2
<1>4. /\ \A i \in 1 .. l : all[i] = s[i]
      /\ \A i \in 1 .. l + m : i > l => all[i] = t[i - l]
  BY <1>1, <1>2
<1>5. ASSUME NEW x \in Of(all) PROVE x \in Of(s) \cup Of(t)
  <2>1. PICK i \in 1 .. l + m : x = all[i]
    BY <1>3 DEF Of
  <2>2. CASE i <= l
    BY <1>3, <1>4, <2>1, <2>2 DEF Of
  <2>3. CASE i > l
    <3>1. i - l \in 1 .. m /\ x = t[i - l]
      BY <1>4, <2>1, <2>3
    <3>. QED
      BY <1>3, <3>1 DEF Of
  <2>. QED
    BY <2>2, <2>3
<1>6. ASSUME NEW x \in Of(s) PROVE x \in Of(all)
  <2>1. PICK i \in 1 .. l : x = s[i]
    BY <1>3 DEF Of
  <2>2. i \in 1 .. l + m /\ x = all[i]
    BY <1>4, <2>1
  <2>. QED
    BY <1>3, <2>2 DEF Of
<1>7. ASSUME NEW x \in Of(t) PROVE x \in Of(all)
  <2>1. PICK i \in 1 .. m : x = t[i]
    BY <1>3 DEF Of
  <2>2. PICK k \in Int : k = i + l
    OBVIOUS
  <2>3. k \in 1 .. l + m /\ k > l /\ k - l = i
    BY <2>2
  <2>4. x = all[k]
    BY <1>4, <2>1, <2>3
  <2>. QED
    BY <1>3, <2>3, <2>4 DEF Of
<1>8. Of(all) = Of(s) \cup Of(t)
  BY <1>5, <1>6, <1>7
<1>. QED
  BY <1>2, <1>3, <1>8

LEMMA RisingConcat ==
  ASSUME NEW s \in Seq(Int), NEW t \in Seq(Int), Rising(s), Rising(t),
         \A x \in Of(s), y \in Of(t) : x < y
  PROVE  Rising(s \o t)
<1>1. PICK l \in Nat, m \in Nat : l = Len(s) /\ m = Len(t)
  OBVIOUS
<1>2. PICK all : all = s \o t
  OBVIOUS
<1>3. DOMAIN all = 1 .. l + m /\ DOMAIN s = 1 .. l /\ DOMAIN t = 1 .. m
  BY <1>1, <1>2
<1>4. /\ \A i \in 1 .. l : all[i] = s[i]
      /\ \A i \in 1 .. l + m : i > l => all[i] = t[i - l]
  BY <1>1, <1>2
<1>5. ASSUME NEW i \in 1 .. l + m, NEW j \in 1 .. l + m, i < j
      PROVE  all[i] < all[j]
  <2>1. CASE j <= l
    <3>1. i \in 1 .. l /\ j \in 1 .. l
      BY <1>5, <2>1
    <3>2. s[i] < s[j]
      BY <1>3, <1>5, <3>1 DEF Rising
    <3>. QED
      BY <1>4, <3>1, <3>2
  <2>2. CASE i <= l /\ j > l
    <3>1. all[i] \in Of(s)
      BY <1>3, <1>4, <2>2 DEF Of
    <3>2. j - l \in 1 .. m /\ all[j] = t[j - l]
      BY <1>4, <2>2
    <3>3. all[j] \in Of(t)
      BY <1>3, <3>2 DEF Of
    <3>. QED
      BY <3>1, <3>3
  <2>3. CASE i > l
    <3>1. /\ i - l \in 1 .. m /\ j - l \in 1 .. m /\ i - l < j - l
          /\ all[i] = t[i - l] /\ all[j] = t[j - l]
      BY <1>4, <1>5, <2>3
    <3>. QED
      BY <1>3, <3>1 DEF Rising
  <2>. QED
    BY <2>1, <2>2, <2>3
<1>. QED
  BY <1>2, <1>3, <1>5 DEF Rising

(* A piece moved from the front of t to the end of s.                      *)
LEMMA Moved ==
  ASSUME NEW S, NEW s \in Seq(S), NEW t \in Seq(S), NEW n \in 0 .. Len(t)
  PROVE  /\ s \o SubSeq(t, 1, n) \in Seq(S) /\ SubSeq(t, n + 1, Len(t)) \in Seq(S)
         /\ (s \o SubSeq(t, 1, n)) \o SubSeq(t, n + 1, Len(t)) = s \o t
<1>1. Len(t) \in Nat /\ \A i \in 1 .. Len(t) : t[i] \in S
  OBVIOUS
<1>2. SubSeq(t, 1, n) \in Seq(S)
  <2>1. \A i \in 1 .. n : t[i] \in S
    BY <1>1
  <2>. QED
    BY <1>1, <2>1, SubSeqProperties
<1>3. SubSeq(t, n + 1, Len(t)) \in Seq(S)
  <2>1. \A i \in n + 1 .. Len(t) : t[i] \in S
    BY <1>1
  <2>. QED
    BY <1>1, <2>1, SubSeqProperties
<1>4. SubSeq(t, 1, n) \o SubSeq(t, n + 1, Len(t)) = t
  <2>1. 1 \in 1 .. Len(t) + 1 /\ n \in 1 - 1 .. Len(t) /\ Len(t) \in n .. Len(t)
    BY <1>1
  <2>2. SubSeq(t, 1, n) \o SubSeq(t, n + 1, Len(t)) = SubSeq(t, 1, Len(t))
    BY <2>1, ConcatAdjacentSubSeq
  <2>3. SubSeq(t, 1, Len(t)) = t
    BY SubSeqFull
  <2>. QED
    BY <2>2, <2>3
<1>5. (s \o SubSeq(t, 1, n)) \o SubSeq(t, n + 1, Len(t))
        = s \o (SubSeq(t, 1, n) \o SubSeq(t, n + 1, Len(t)))
  <2>1. ASSUME NEW u \in Seq(S), NEW v \in Seq(S) PROVE (s \o u) \o v = s \o (u \o v)
    BY ConcatAssociative
  <2>. QED
    BY <1>2, <1>3, <2>1, Zenon
<1>6. s \o SubSeq(t, 1, n) \in Seq(S)
  BY <1>2, ConcatProperties
<1>. QED
  BY <1>3, <1>4, <1>5, <1>6

LEMMA OneMore ==
  ASSUME NEW s \in Seq(Int), NEW x \in Int, Rising(s), \A y \in Of(s) : y < x
  PROVE  /\ Append(s, x) \in Seq(Int) /\ Of(Append(s, x)) = Of(s) \cup {x}
         /\ Rising(Append(s, x))
<1>1. <<x>> \in Seq(Int) /\ Of(<<x>>) = {x} /\ Rising(<<x>>)
  BY DEF Of, Rising
<1>2. Append(s, x) = s \o <<x>>
  BY AppendIsConcat
<1>3. PICK t \in Seq(Int) : t = <<x>> /\ Of(t) = {x} /\ Rising(t)
  BY <1>1
<1>4. s \o t \in Seq(Int) /\ Of(s \o t) = Of(s) \cup Of(t)
  BY OfConcat
<1>5. Rising(s \o t)
  BY <1>3, RisingConcat
<1>. QED
  BY <1>2, <1>3, <1>4, <1>5

-----------------------------------------------------------------------------
(* The pieces on their way.  What is behind the queue is older than what   *)
(* is in it, so that whichever worker takes the queue takes what comes     *)
(* next; a worker that takes from a queue of another connection is one     *)
(* that was caught in its iteration.                                       *)
Taken(e) == sent[e] \o mine[e]

Before ==
  \A e \in Channel!Epoch : e > epoch => at[e] = "none" /\ sent[e] = <<>> /\ mine[e] = <<>>

Caught == \A e \in Channel!Epoch : at[e] \in Channel!Loop \ {"top"} => e = epoch \/ e \in caught

Numbered ==
  /\ \A n \in DOMAIN meant : meant[n] <= epoch
  /\ Of(outgoing) \subseteq DOMAIN meant
  /\ \A e \in Channel!Epoch : Of(Taken(e)) \subseteq DOMAIN meant

InTurn ==
  /\ Rising(outgoing)
  /\ \A e \in Channel!Epoch : Rising(Taken(e))
  /\ \A e \in Channel!Epoch : \A x \in Of(Taken(e)), y \in Of(outgoing) : x < y

Meant ==
  /\ \A n \in Of(outgoing) : meant[n] = epoch \/ meant[n] \in caught
  /\ \A e \in Channel!Epoch : \A n \in Of(Taken(e)) : meant[n] = e \/ e \in caught \/ meant[n] \in caught

Reached ==
  \A n \in DOMAIN meant : meant[n] = epoch =>
    n \in Of(outgoing) \/ \E d \in caught \cup {epoch} : n \in Of(Taken(d))

Pieces == Numbered /\ InTurn /\ Meant /\ Reached

PumpInv == Channel!TypeOK /\ Before /\ Caught /\ Pieces /\ Channel!SizeReachesConnection

Bounds == MaxEpoch \in Nat \ {0} /\ MaxQueued \in Nat /\ MaxSizes \in Nat

LEMMA ChannelStarts == ASSUME Bounds, Channel!Init PROVE PumpInv
<1>1. 1 \in Channel!Epoch /\ <<>> \in Seq(Channel!Piece) /\ <<>> \in Seq(Channel!Epoch)
  BY DEF Bounds, Channel!Epoch
<1>2. Channel!TypeOK
  <2>1. epoch \in 1 .. MaxEpoch /\ sizes \in 0 .. MaxSizes /\ 0 \in 0 .. MaxSizes
    BY DEF Bounds, Channel!Init
  <2>2. at \in [Channel!Epoch -> Channel!Loop \cup {"none", "dial", "gone"}]
    BY DEF Channel!Init
  <2>. QED
    BY <1>1, <2>1, <2>2 DEF Channel!Init, Channel!TypeOK
<1>3. Before /\ Caught /\ Channel!SizeReachesConnection
  BY <1>1 DEF Channel!Init, Before, Caught, Channel!Epoch, Channel!Loop, Channel!SizeReachesConnection
<1>4. Of(<<>>) = {} /\ Rising(<<>>)
  BY DEF Of, Rising
<1>5. \A e \in Channel!Epoch : Taken(e) = <<>>
  BY DEF Taken, Channel!Init
<1>6. Pieces
  BY <1>4, <1>5 DEF Pieces, Numbered, InTurn, Meant, Reached, Channel!Init
<1>. QED
  BY <1>2, <1>3, <1>6 DEF PumpInv

LEMMA TakenTyped ==
  ASSUME Bounds, Channel!TypeOK, NEW e \in Channel!Epoch
  PROVE  /\ sent[e] \in Seq(Int) /\ mine[e] \in Seq(Int) /\ outgoing \in Seq(Int)
         /\ Taken(e) \in Seq(Int) /\ Of(Taken(e)) \subseteq Int /\ Of(outgoing) \subseteq Int
<1>1. Channel!Piece \subseteq Int
  BY DEF Bounds, Channel!Piece
<1>2. sent[e] \in Seq(Channel!Piece) /\ mine[e] \in Seq(Channel!Piece) /\ outgoing \in Seq(Channel!Piece)
  BY DEF Channel!TypeOK
<1>3. sent[e] \in Seq(Int) /\ mine[e] \in Seq(Int) /\ outgoing \in Seq(Int)
  BY <1>1, <1>2, SeqMonotonic
<1>4. Taken(e) \in Seq(Int)
  BY <1>3, ConcatProperties DEF Taken
<1>. QED
  BY <1>3, <1>4 DEF Of

(* Steps that move no piece.                                               *)
LEMMA Still ==
  ASSUME Pieces, UNCHANGED <<epoch, outgoing, meant, caught>>,
         \A e \in Channel!Epoch : Taken(e)' = Taken(e), epoch \in Channel!Epoch, caught \subseteq Channel!Epoch
  PROVE  Pieces'
<1>1. Numbered' /\ InTurn' /\ Meant'
  BY DEF Pieces, Numbered, InTurn, Meant
<1>2. Reached'
  <2>1. \A d \in caught \cup {epoch} : Taken(d)' = Taken(d)
    OBVIOUS
  <2>. QED
    BY <2>1 DEF Pieces, Reached
<1>. QED
  BY <1>1, <1>2 DEF Pieces

LEMMA Queued ==
  ASSUME Bounds, Channel!TypeOK, Pieces, NEW f \in Channel!Epoch, f = epoch \/ f \in caught,
         f <= epoch, Channel!Queue(f), UNCHANGED <<epoch, sent, mine, caught>>
  PROVE  /\ Pieces'
         /\ outgoing' \in Seq(Channel!Piece) /\ meant' \in Seq(Channel!Epoch)
<1>1. PICK n \in Nat : n = Len(meant) + 1
  BY DEF Channel!TypeOK
<1>2. meant' = Append(meant, f) /\ outgoing' = Append(outgoing, n) /\ n \in Channel!Piece
  BY <1>1 DEF Channel!Queue, Channel!Piece, Channel!TypeOK, Bounds
<1>3. /\ meant' \in Seq(Channel!Epoch) /\ DOMAIN meant' = DOMAIN meant \cup {n}
      /\ n \notin DOMAIN meant /\ meant'[n] = f
      /\ \A m \in DOMAIN meant : meant'[m] = meant[m] /\ m < n /\ m \in Int
  BY <1>1, <1>2 DEF Channel!TypeOK
<1>4. outgoing' \in Seq(Channel!Piece)
  BY <1>2 DEF Channel!TypeOK
<1>5. \A e \in Channel!Epoch : Taken(e)' = Taken(e)
  BY DEF Taken
<1>6. Of(outgoing) \subseteq DOMAIN meant /\ Rising(outgoing)
  BY DEF Pieces, Numbered, InTurn
<1>7. Of(outgoing') = Of(outgoing) \cup {n} /\ Rising(outgoing')
  <2>1. outgoing \in Seq(Int) /\ n \in Int
    BY TakenTyped
  <2>. QED
    BY <1>2, <1>3, <1>6, <2>1, OneMore
<1>8. Numbered'
  BY <1>3, <1>5, <1>7 DEF Pieces, Numbered
<1>9. InTurn'
  BY <1>3, <1>5, <1>7 DEF Pieces, Numbered, InTurn
<1>10. Meant'
  BY <1>3, <1>5, <1>7 DEF Pieces, Numbered, Meant
<1>11. Reached'
  <2>1. epoch \in Channel!Epoch /\ caught \subseteq Channel!Epoch
    BY DEF Channel!TypeOK, Channel!Epoch
  <2>2. \A d \in caught \cup {epoch} : Taken(d)' = Taken(d)
    BY <1>5, <2>1
  <2>. QED
    BY <1>3, <1>7, <2>2 DEF Pieces, Reached
<1>. QED
  BY <1>3, <1>4, <1>8, <1>9, <1>10, <1>11 DEF Pieces

-----------------------------------------------------------------------------
(* The steps of the interface and of the workers.                          *)
LEMMA WriteKeeps == ASSUME Bounds, PumpInv, Channel!Write PROVE PumpInv'
<1>1. epoch \in Channel!Epoch /\ epoch <= epoch
  BY DEF PumpInv, Channel!TypeOK, Channel!Epoch
<1>2. Pieces' /\ outgoing' \in Seq(Channel!Piece) /\ meant' \in Seq(Channel!Epoch)
  BY <1>1, Queued DEF PumpInv, Channel!Write
<1>3. Channel!TypeOK'
  BY <1>2 DEF PumpInv, Channel!TypeOK, Channel!Write
<1>4. Before' /\ Caught' /\ Channel!SizeReachesConnection'
  BY DEF PumpInv, Before, Caught, Channel!SizeReachesConnection, Channel!Write
<1>. QED
  BY <1>2, <1>3, <1>4 DEF PumpInv

LEMMA AskKeeps == ASSUME Bounds, PumpInv, Channel!Resize \/ Channel!Close PROVE PumpInv'
<1>1. epoch \in Channel!Epoch /\ caught \subseteq Channel!Epoch
  BY DEF PumpInv, Channel!TypeOK, Channel!Epoch
<1>2. /\ UNCHANGED <<epoch, outgoing, meant, caught, sent, mine, at, told, missed>>
      /\ sizes' \in 0 .. MaxSizes /\ asked' \in BOOLEAN /\ closing' \in BOOLEAN
      /\ asked' \/ (asked' = asked /\ sizes' = sizes)
  <2>1. sizes \in 0 .. MaxSizes /\ asked \in BOOLEAN /\ closing \in BOOLEAN
    BY DEF PumpInv, Channel!TypeOK
  <2>2. CASE Channel!Resize
    <3>1. sizes' = sizes + 1 /\ sizes < MaxSizes /\ asked' = TRUE
      BY <2>2 DEF Channel!Resize
    <3>2. sizes' \in 0 .. MaxSizes
      BY <2>1, <3>1 DEF Bounds
    <3>. QED
      BY <2>1, <2>2, <3>1, <3>2 DEF Channel!Resize
  <2>3. CASE Channel!Close
    BY <2>1, <2>3 DEF Channel!Close
  <2>. QED
    BY <2>2, <2>3
<1>3. Channel!TypeOK'
  BY <1>2 DEF PumpInv, Channel!TypeOK
<1>4. Before' /\ Caught' /\ Channel!SizeReachesConnection'
  BY <1>2 DEF PumpInv, Before, Caught, Channel!SizeReachesConnection
<1>5. \A e \in Channel!Epoch : Taken(e)' = Taken(e)
  BY <1>2 DEF Taken
<1>6. Pieces'
  BY <1>1, <1>2, <1>5, Still DEF PumpInv
<1>. QED
  BY <1>3, <1>4, <1>6 DEF PumpInv

(* Nothing was typed for the new connection yet.                           *)
LEMMA ConnectKeeps == ASSUME Bounds, PumpInv, Channel!Connect PROVE PumpInv'
<1>1. /\ epoch \in Channel!Epoch /\ epoch' = epoch + 1 /\ epoch + 1 \in Channel!Epoch
      /\ outgoing' = <<>> /\ caught \subseteq caught' /\ caught' \subseteq Channel!Epoch
      /\ at[epoch] \in Channel!Loop \ {"top"} => epoch \in caught'
      /\ at' = [at EXCEPT ![epoch + 1] = "dial"]
      /\ UNCHANGED <<asked, meant, sizes, mine, sent, told, missed>>
  BY DEF Bounds, PumpInv, Channel!TypeOK, Channel!Connect, Channel!Epoch
<1>2. /\ at \in [Channel!Epoch -> Channel!Loop \cup {"none", "dial", "gone"}]
      /\ \A e \in Channel!Epoch : at'[e] = IF e = epoch + 1 THEN "dial" ELSE at[e]
  BY <1>1 DEF PumpInv, Channel!TypeOK
<1>3. Channel!TypeOK'
  <2>1. epoch' \in 1 .. MaxEpoch /\ closing' \in BOOLEAN
    BY <1>1 DEF Channel!Connect, Channel!Epoch
  <2>2. at' \in [Channel!Epoch -> Channel!Loop \cup {"none", "dial", "gone"}]
    BY <1>1, <1>2
  <2>. QED
    BY <1>1, <2>1, <2>2 DEF PumpInv, Channel!TypeOK
<1>4. Before'
  <2>1. \A e \in Channel!Epoch : e > epoch + 1 => e > epoch /\ e # epoch + 1
    BY <1>1 DEF Channel!Epoch
  <2>. QED
    BY <1>1, <1>2, <2>1 DEF PumpInv, Before
<1>5. Caught'
  <2>1. "dial" \notin Channel!Loop
    BY DEF Channel!Loop
  <2>. QED
    BY <1>1, <1>2, <2>1 DEF PumpInv, Caught
<1>6. Channel!SizeReachesConnection'
  BY <1>1, <1>2 DEF Channel!SizeReachesConnection, Channel!Loop
<1>7. \A e \in Channel!Epoch : Taken(e)' = Taken(e)
  BY <1>1 DEF Taken
<1>8. Of(<<>>) = {} /\ Rising(<<>>)
  BY DEF Of, Rising
<1>9. meant \in Seq(Channel!Epoch) /\ \A n \in DOMAIN meant : meant[n] \in Int /\ meant[n] <= epoch
  <2>1. meant \in Seq(Channel!Epoch) /\ Channel!Epoch \subseteq Int
    BY DEF PumpInv, Channel!TypeOK, Channel!Epoch
  <2>2. \A n \in DOMAIN meant : meant[n] \in Channel!Epoch
    BY <2>1
  <2>. QED
    BY <2>1, <2>2 DEF PumpInv, Pieces, Numbered
<1>10. Numbered' /\ Reached'
  BY <1>1, <1>7, <1>8, <1>9 DEF PumpInv, Pieces, Numbered, Reached, Channel!Epoch
<1>11. InTurn' /\ Meant'
  BY <1>1, <1>7, <1>8 DEF PumpInv, Pieces, InTurn, Meant
<1>. QED
  BY <1>3, <1>4, <1>5, <1>6, <1>10, <1>11 DEF PumpInv, Pieces

(* A worker goes on; one that does so in the middle of its iteration was   *)
(* at its top of the current epoch.                                        *)
LEMMA Moves ==
  ASSUME Bounds, PumpInv, NEW e \in Channel!Epoch, at[e] # "none",
         NEW there \in Channel!Loop \cup {"none", "dial", "gone"},
         Channel!Go(e, there), UNCHANGED <<epoch, caught>>,
         there \in {"top", "gone"} \/ e = epoch \/ at[e] \in Channel!Loop \ {"top"},
         \A d \in Channel!Epoch \ {e} : sent'[d] = sent[d] /\ mine'[d] = mine[d]
  PROVE  /\ at' \in [Channel!Epoch -> Channel!Loop \cup {"none", "dial", "gone"}]
         /\ \A d \in Channel!Epoch : at'[d] = IF d = e THEN there ELSE at[d]
         /\ e <= epoch /\ epoch \in Channel!Epoch
         /\ at[e] \in Channel!Loop \ {"top"} => e = epoch \/ e \in caught
         /\ Before' /\ Caught'
<1>1. at \in [Channel!Epoch -> Channel!Loop \cup {"none", "dial", "gone"}]
  BY DEF PumpInv, Channel!TypeOK
<1>2. /\ at' \in [Channel!Epoch -> Channel!Loop \cup {"none", "dial", "gone"}]
      /\ \A d \in Channel!Epoch : at'[d] = IF d = e THEN there ELSE at[d]
  BY <1>1 DEF Channel!Go
<1>3. ~(e > epoch)
  BY DEF PumpInv, Before
<1>4. e <= epoch /\ epoch \in Channel!Epoch
  BY <1>3 DEF PumpInv, Channel!TypeOK, Channel!Epoch
<1>5. at[e] \in Channel!Loop \ {"top"} => e = epoch \/ e \in caught
  BY DEF PumpInv, Caught
<1>6. Before'
  BY <1>2, <1>3 DEF PumpInv, Before
<1>7. Caught'
  BY <1>2, <1>5 DEF PumpInv, Caught, Channel!Loop
<1>. QED
  BY <1>2, <1>4, <1>5, <1>6, <1>7

LEMMA DialKeeps ==
  ASSUME Bounds, PumpInv, NEW e \in Channel!Epoch, Channel!Dial(e)
  PROVE  PumpInv'
<1>1. /\ at[e] = "dial" /\ UNCHANGED <<epoch, closing, outgoing, asked, meant, sizes, mine, sent, missed, caught>>
      /\ epoch \in Channel!Epoch /\ caught \subseteq Channel!Epoch
  BY DEF Channel!Dial, PumpInv, Channel!TypeOK, Channel!Epoch
<1>2. \A d \in Channel!Epoch : Taken(d)' = Taken(d)
  BY <1>1 DEF Taken
<1>3. Pieces'
  BY <1>1, <1>2, Still DEF PumpInv
<1>4. told \in [Channel!Epoch -> 0 .. MaxSizes] /\ sizes \in 0 .. MaxSizes
  BY DEF PumpInv, Channel!TypeOK
<1>5. CASE Channel!Go(e, "top") /\ told' = [told EXCEPT ![e] = sizes]
  <2>1. "top" \in Channel!Loop /\ "dial" # "none"
    BY DEF Channel!Loop
  <2>2. /\ at' \in [Channel!Epoch -> Channel!Loop \cup {"none", "dial", "gone"}]
        /\ \A d \in Channel!Epoch : at'[d] = IF d = e THEN "top" ELSE at[d]
        /\ Before' /\ Caught'
    BY <1>1, <1>5, <2>1, Moves
  <2>3. Channel!SizeReachesConnection'
    BY <1>1, <1>4, <1>5, <2>2 DEF PumpInv, Channel!SizeReachesConnection
  <2>4. Channel!TypeOK'
    BY <1>1, <1>4, <1>5, <2>2 DEF PumpInv, Channel!TypeOK
  <2>. QED
    BY <1>3, <2>2, <2>3, <2>4 DEF PumpInv
<1>6. CASE Channel!Go(e, "gone") /\ told' = told
  <2>1. "dial" # "none"
    OBVIOUS
  <2>2. /\ at' \in [Channel!Epoch -> Channel!Loop \cup {"none", "dial", "gone"}]
        /\ \A d \in Channel!Epoch : at'[d] = IF d = e THEN "gone" ELSE at[d]
        /\ Before' /\ Caught'
    BY <1>1, <1>6, <2>1, Moves
  <2>3. Channel!SizeReachesConnection'
    BY <1>1, <1>6, <2>2 DEF PumpInv, Channel!SizeReachesConnection, Channel!Loop
  <2>4. Channel!TypeOK'
    BY <1>1, <1>6, <2>2 DEF PumpInv, Channel!TypeOK
  <2>. QED
    BY <1>3, <2>2, <2>3, <2>4 DEF PumpInv
<1>. QED
  BY <1>5, <1>6 DEF Channel!Dial

LEMMA TopKeeps ==
  ASSUME Bounds, PumpInv, NEW e \in Channel!Epoch, Channel!Top(e)
  PROVE  PumpInv'
<1>1. /\ at[e] = "top" /\ epoch \in Channel!Epoch /\ caught \subseteq Channel!Epoch
      /\ UNCHANGED <<epoch, closing, outgoing, asked, meant, sizes, mine, sent, told, missed, caught>>
  BY DEF Channel!Top, PumpInv, Channel!TypeOK, Channel!Epoch
<1>2. PICK there : /\ there \in {"gone", "read"} /\ Channel!Go(e, there)
                   /\ there = "gone" \/ e = epoch
  BY DEF Channel!Top, Channel!Stale
<1>3. "top" \in Channel!Loop /\ "top" # "none" /\ there \in Channel!Loop \cup {"none", "dial", "gone"}
  BY <1>2 DEF Channel!Loop
<1>4. /\ at' \in [Channel!Epoch -> Channel!Loop \cup {"none", "dial", "gone"}]
      /\ \A d \in Channel!Epoch : at'[d] = IF d = e THEN there ELSE at[d]
      /\ Before' /\ Caught'
  BY <1>1, <1>2, <1>3, Moves
<1>5. \A d \in Channel!Epoch : Taken(d)' = Taken(d)
  BY <1>1 DEF Taken
<1>6. Pieces'
  BY <1>1, <1>5, Still DEF PumpInv
<1>7. Channel!SizeReachesConnection'
  BY <1>1, <1>2, <1>3, <1>4 DEF PumpInv, Channel!SizeReachesConnection, Channel!Loop
<1>8. Channel!TypeOK'
  BY <1>1, <1>4 DEF PumpInv, Channel!TypeOK
<1>. QED
  BY <1>4, <1>6, <1>7, <1>8 DEF PumpInv

LEMMA InputKeeps ==
  ASSUME Bounds, PumpInv, NEW e \in Channel!Epoch, Channel!Input(e)
  PROVE  PumpInv'
<1>1. /\ at[e] = "read" /\ epoch \in Channel!Epoch /\ caught \subseteq Channel!Epoch
      /\ UNCHANGED <<epoch, closing, asked, sizes, mine, sent, told, missed, caught>>
  BY DEF Channel!Input, PumpInv, Channel!TypeOK, Channel!Epoch
<1>2. PICK there \in {"gone", "size"} : Channel!Go(e, there)
  BY DEF Channel!Input
<1>3. "read" \in Channel!Loop \ {"top"} /\ "read" # "none" /\ there \in Channel!Loop \cup {"none", "dial", "gone"}
  BY <1>2 DEF Channel!Loop
<1>4. /\ at' \in [Channel!Epoch -> Channel!Loop \cup {"none", "dial", "gone"}]
      /\ \A d \in Channel!Epoch : at'[d] = IF d = e THEN there ELSE at[d]
      /\ e <= epoch /\ (e = epoch \/ e \in caught)
      /\ Before' /\ Caught'
  BY <1>1, <1>2, <1>3, Moves
<1>5. \A d \in Channel!Epoch : Taken(d)' = Taken(d)
  BY <1>1 DEF Taken
<1>6. Pieces' /\ outgoing' \in Seq(Channel!Piece) /\ meant' \in Seq(Channel!Epoch)
  <2>1. CASE UNCHANGED <<outgoing, meant>>
    <3>1. Pieces'
      BY <1>1, <1>5, <2>1, Still DEF PumpInv
    <3>. QED
      BY <2>1, <3>1 DEF PumpInv, Channel!TypeOK
  <2>2. CASE Channel!Queue(e)
    BY <1>1, <1>4, <2>2, Queued DEF PumpInv
  <2>. QED
    BY <2>1, <2>2 DEF Channel!Input
<1>7. Channel!SizeReachesConnection'
  BY <1>1, <1>3, <1>4 DEF PumpInv, Channel!SizeReachesConnection, Channel!Loop
<1>8. Channel!TypeOK'
  BY <1>1, <1>4, <1>6 DEF PumpInv, Channel!TypeOK
<1>. QED
  BY <1>4, <1>6, <1>7, <1>8 DEF PumpInv

(* A size that a replaced worker takes is missed, and nothing else is.     *)
LEMMA SizeKeeps ==
  ASSUME Bounds, PumpInv, NEW e \in Channel!Epoch, Channel!Size(e)
  PROVE  PumpInv'
<1>1. /\ at[e] = "size" /\ epoch \in Channel!Epoch /\ caught \subseteq Channel!Epoch /\ asked' = FALSE
      /\ Channel!Go(e, "take")
      /\ UNCHANGED <<epoch, closing, outgoing, meant, sizes, mine, sent, caught>>
  BY DEF Channel!Size, PumpInv, Channel!TypeOK, Channel!Epoch
<1>2. "size" \in Channel!Loop \ {"top"} /\ "size" # "none" /\ "take" \in Channel!Loop
  BY DEF Channel!Loop
<1>3. /\ at' \in [Channel!Epoch -> Channel!Loop \cup {"none", "dial", "gone"}]
      /\ \A d \in Channel!Epoch : at'[d] = IF d = e THEN "take" ELSE at[d]
      /\ Before' /\ Caught'
  BY <1>1, <1>2, Moves
<1>4. \A d \in Channel!Epoch : Taken(d)' = Taken(d)
  BY <1>1 DEF Taken
<1>5. Pieces'
  BY <1>1, <1>4, Still DEF PumpInv
<1>6. told \in [Channel!Epoch -> 0 .. MaxSizes] /\ sizes \in 0 .. MaxSizes /\ missed \in BOOLEAN /\ asked \in BOOLEAN
  BY DEF PumpInv, Channel!TypeOK
<1>7. /\ told' \in [Channel!Epoch -> 0 .. MaxSizes] /\ missed' \in BOOLEAN
      /\ missed => missed'
      /\ asked => (e = epoch /\ told'[e] = sizes) \/ missed'
      /\ ~asked => told' = told
  <2>1. CASE told' = [told EXCEPT ![e] = IF asked THEN sizes ELSE @] /\ missed' = (missed \/ (asked /\ epoch # e))
    <3>1. CASE asked
      BY <1>6, <2>1, <3>1
    <3>2. CASE ~asked
      BY <1>6, <2>1, <3>2
    <3>. QED
      BY <3>1, <3>2
  <2>2. CASE missed' = (missed \/ asked) /\ told' = told
    BY <1>6, <2>2
  <2>. QED
    BY <2>1, <2>2 DEF Channel!Size, Channel!Stale
<1>8. Channel!SizeReachesConnection'
  <2>1. at'[epoch] \in Channel!Loop => at[epoch] \in Channel!Loop
    BY <1>1, <1>2, <1>3
  <2>. QED
    BY <1>1, <1>6, <1>7, <2>1 DEF PumpInv, Channel!SizeReachesConnection
<1>9. Channel!TypeOK'
  BY <1>1, <1>3, <1>7 DEF PumpInv, Channel!TypeOK
<1>. QED
  BY <1>3, <1>5, <1>8, <1>9 DEF PumpInv

(* Whoever takes the queue has what was next, and a queue for another      *)
(* connection only if one of the two was caught.                           *)
LEMMA TakeKeeps ==
  ASSUME Bounds, PumpInv, NEW e \in Channel!Epoch, Channel!Take(e)
  PROVE  PumpInv'
<1>1. /\ at[e] = "take" /\ epoch \in Channel!Epoch /\ caught \subseteq Channel!Epoch
      /\ Channel!Go(e, "send") /\ outgoing' = <<>>
      /\ UNCHANGED <<epoch, closing, asked, meant, sizes, sent, told, missed, caught>>
  BY DEF Channel!Take, PumpInv, Channel!TypeOK, Channel!Epoch
<1>2. "take" \in Channel!Loop \ {"top"} /\ "take" # "none" /\ "send" \in Channel!Loop
  BY DEF Channel!Loop
<1>3. /\ mine \in [Channel!Epoch -> Seq(Channel!Piece)]
      /\ outgoing \in Seq(Channel!Piece) /\ <<>> \in Seq(Channel!Piece)
      /\ \A d \in Channel!Epoch : mine'[d] = IF d = e THEN mine[e] \o outgoing ELSE mine[d]
      /\ mine' \in [Channel!Epoch -> Seq(Channel!Piece)]
  <2>1. mine \in [Channel!Epoch -> Seq(Channel!Piece)] /\ outgoing \in Seq(Channel!Piece)
    BY DEF PumpInv, Channel!TypeOK
  <2>2. mine[e] \o outgoing \in Seq(Channel!Piece)
    BY <2>1, ConcatProperties
  <2>. QED
    BY <2>1, <2>2 DEF Channel!Take
<1>4. /\ at' \in [Channel!Epoch -> Channel!Loop \cup {"none", "dial", "gone"}]
      /\ \A d \in Channel!Epoch : at'[d] = IF d = e THEN "send" ELSE at[d]
      /\ (e = epoch \/ e \in caught) /\ Before' /\ Caught'
  BY <1>1, <1>2, <1>3, Moves
<1>5. /\ \A d \in Channel!Epoch \ {e} : Taken(d)' = Taken(d)
      /\ Taken(e)' = Taken(e) \o outgoing
  <2>1. sent[e] \in Seq(Int) /\ mine[e] \in Seq(Int) /\ outgoing \in Seq(Int)
    BY TakenTyped DEF PumpInv
  <2>2. (sent[e] \o mine[e]) \o outgoing = sent[e] \o (mine[e] \o outgoing)
    <3>1. ASSUME NEW a \in Seq(Int), NEW b \in Seq(Int), NEW c \in Seq(Int)
          PROVE  (a \o b) \o c = a \o (b \o c)
      BY ConcatAssociative
    <3>. QED
      BY <2>1, <3>1, Zenon
  <2>. QED
    BY <1>1, <1>3, <2>2 DEF Taken
<1>6. Of(Taken(e)') = Of(Taken(e)) \cup Of(outgoing) /\ Rising(Taken(e)')
  <2>1. PICK t \in Seq(Int) : t = Taken(e)
    BY TakenTyped DEF PumpInv
  <2>2. outgoing \in Seq(Int)
    BY TakenTyped DEF PumpInv
  <2>3. Rising(t) /\ Rising(outgoing) /\ \A x \in Of(t), y \in Of(outgoing) : x < y
    BY <2>1 DEF PumpInv, Pieces, InTurn
  <2>4. Of(t \o outgoing) = Of(t) \cup Of(outgoing)
    BY <2>2, OfConcat
  <2>5. Rising(t \o outgoing)
    BY <2>2, <2>3, RisingConcat
  <2>. QED
    BY <1>5, <2>1, <2>4, <2>5
<1>7. Of(outgoing') = {} /\ Rising(outgoing')
  BY <1>1 DEF Of, Rising
<1>8. Numbered' /\ InTurn'
  BY <1>1, <1>5, <1>6, <1>7 DEF PumpInv, Pieces, Numbered, InTurn
<1>9. Meant'
  BY <1>1, <1>4, <1>5, <1>6, <1>7 DEF PumpInv, Pieces, Meant
<1>10. Reached'
  <2>. SUFFICES ASSUME NEW n \in DOMAIN meant, meant[n] = epoch
                PROVE  \E d \in caught \cup {epoch} : n \in Of(Taken(d)')
    BY <1>1 DEF Reached
  <2>1. CASE n \in Of(outgoing)
    BY <1>4, <1>6, <2>1
  <2>2. CASE \E d \in caught \cup {epoch} : n \in Of(Taken(d))
    BY <1>1, <1>5, <1>6, <2>2
  <2>. QED
    BY <2>1, <2>2 DEF PumpInv, Pieces, Reached
<1>11. Channel!SizeReachesConnection'
  BY <1>1, <1>2, <1>4 DEF PumpInv, Channel!SizeReachesConnection
<1>12. Channel!TypeOK'
  BY <1>1, <1>3, <1>4 DEF PumpInv, Channel!TypeOK
<1>. QED
  BY <1>4, <1>8, <1>9, <1>10, <1>11, <1>12 DEF PumpInv, Pieces

LEMMA SendKeeps ==
  ASSUME Bounds, PumpInv, NEW e \in Channel!Epoch, Channel!Send(e)
  PROVE  PumpInv'
<1>1. /\ at[e] = "send" /\ epoch \in Channel!Epoch /\ caught \subseteq Channel!Epoch
      /\ UNCHANGED <<epoch, closing, outgoing, asked, meant, sizes, told, missed, caught>>
  BY DEF Channel!Send, PumpInv, Channel!TypeOK, Channel!Epoch
<1>2. PICK there \in {"top", "gone"} : Channel!Go(e, there)
  BY DEF Channel!Send
<1>3. "send" \in Channel!Loop \ {"top"} /\ "send" # "none" /\ there \in Channel!Loop \cup {"none", "dial", "gone"}
  BY <1>2 DEF Channel!Loop
<1>4. PICK n \in 0 .. Len(mine[e]) :
        /\ sent' = [sent EXCEPT ![e] = @ \o SubSeq(mine[e], 1, n)]
        /\ mine' = [mine EXCEPT ![e] = SubSeq(mine[e], n + 1, Len(mine[e]))]
  BY DEF Channel!Send, Channel!Rest
<1>5. /\ mine \in [Channel!Epoch -> Seq(Channel!Piece)]
      /\ sent \in [Channel!Epoch -> Seq(Channel!Piece)]
  BY DEF PumpInv, Channel!TypeOK
<1>6. /\ sent[e] \o SubSeq(mine[e], 1, n) \in Seq(Channel!Piece)
      /\ SubSeq(mine[e], n + 1, Len(mine[e])) \in Seq(Channel!Piece)
      /\ (sent[e] \o SubSeq(mine[e], 1, n)) \o SubSeq(mine[e], n + 1, Len(mine[e])) = sent[e] \o mine[e]
  <2>1. mine[e] \in Seq(Channel!Piece) /\ sent[e] \in Seq(Channel!Piece)
    BY <1>5
  <2>. QED
    BY <2>1, Moved
<1>7. /\ sent' \in [Channel!Epoch -> Seq(Channel!Piece)]
      /\ mine' \in [Channel!Epoch -> Seq(Channel!Piece)]
      /\ \A d \in Channel!Epoch \ {e} : sent'[d] = sent[d] /\ mine'[d] = mine[d]
      /\ sent'[e] = sent[e] \o SubSeq(mine[e], 1, n)
      /\ mine'[e] = SubSeq(mine[e], n + 1, Len(mine[e]))
  BY <1>4, <1>5, <1>6, Zenon
<1>8. \A d \in Channel!Epoch : Taken(d)' = Taken(d)
  <2>1. Taken(e)' = Taken(e)
    BY <1>6, <1>7, Zenon DEF Taken
  <2>2. \A d \in Channel!Epoch \ {e} : Taken(d)' = Taken(d)
    BY <1>7, Zenon DEF Taken
  <2>. QED
    BY <2>1, <2>2
<1>9. /\ at' \in [Channel!Epoch -> Channel!Loop \cup {"none", "dial", "gone"}]
      /\ \A d \in Channel!Epoch : at'[d] = IF d = e THEN there ELSE at[d]
      /\ Before' /\ Caught'
  BY <1>1, <1>2, <1>3, <1>7, Moves
<1>10. Pieces'
  BY <1>1, <1>8, Still DEF PumpInv
<1>11. Channel!SizeReachesConnection'
  BY <1>1, <1>3, <1>9 DEF PumpInv, Channel!SizeReachesConnection
<1>12. Channel!TypeOK'
  BY <1>1, <1>7, <1>9 DEF PumpInv, Channel!TypeOK
<1>. QED
  BY <1>9, <1>10, <1>11, <1>12 DEF PumpInv

LEMMA PumpInductive == ASSUME Bounds PROVE Channel!Spec => []PumpInv
<1>1. Channel!Init => PumpInv
  BY ChannelStarts
<1>2. PumpInv /\ [Channel!Next]_(Channel!vars) => PumpInv'
  <2>. SUFFICES ASSUME PumpInv, [Channel!Next]_(Channel!vars) PROVE PumpInv'
    OBVIOUS
  <2>1. CASE UNCHANGED Channel!vars
    <3>1. epoch \in Channel!Epoch /\ caught \subseteq Channel!Epoch
      BY DEF PumpInv, Channel!TypeOK, Channel!Epoch
    <3>2. \A d \in Channel!Epoch : Taken(d)' = Taken(d)
      BY <2>1 DEF Taken, Channel!vars
    <3>3. Pieces'
      BY <2>1, <3>1, <3>2, Still DEF PumpInv, Channel!vars
    <3>4. Channel!TypeOK'
      BY <2>1 DEF PumpInv, Channel!vars, Channel!TypeOK
    <3>5. Before' /\ Caught' /\ Channel!SizeReachesConnection'
      BY <2>1 DEF PumpInv, Channel!vars, Before, Caught, Channel!SizeReachesConnection
    <3>. QED
      BY <3>3, <3>4, <3>5 DEF PumpInv
  <2>2. CASE Channel!Write \/ Channel!Resize \/ Channel!Close \/ Channel!Connect
    BY <2>2, WriteKeeps, AskKeeps, ConnectKeeps
  <2>3. ASSUME NEW e \in Channel!Epoch, Channel!Worker(e) PROVE PumpInv'
    BY <2>3, DialKeeps, TopKeeps, InputKeeps, SizeKeeps, TakeKeeps, SendKeeps DEF Channel!Worker
  <2>. QED
    BY <2>1, <2>2, <2>3 DEF Channel!Next
<1>. QED
  BY <1>1, <1>2, PTL DEF Channel!Spec

(* What is behind the queue and the queue, put together.                   *)
LEMMA PathsAreInTurn ==
  ASSUME Bounds, PumpInv
  PROVE  Channel!TypedReachesItsConnection
<1>1. ASSUME NEW e \in Channel!Epoch
      PROVE  /\ Rising(Channel!Path(e))
             /\ Of(Channel!Path(e)) = Of(Taken(e)) \cup (IF e = epoch THEN Of(outgoing) ELSE {})
  <2>1. PICK t \in Seq(Int) : t = Taken(e)
    BY TakenTyped DEF PumpInv
  <2>2. outgoing \in Seq(Int) /\ sent[e] \in Seq(Int) /\ mine[e] \in Seq(Int)
    BY TakenTyped DEF PumpInv
  <2>3. Rising(t) /\ Rising(outgoing) /\ \A x \in Of(t), y \in Of(outgoing) : x < y
    BY <2>1 DEF PumpInv, Pieces, InTurn
  <2>4. CASE e = epoch
    <3>1. Channel!Path(e) = t \o outgoing
      <4>1. Channel!Path(e) = sent[e] \o (mine[e] \o outgoing) \/ Channel!Path(e) = (sent[e] \o mine[e]) \o outgoing
        BY <2>4 DEF Channel!Path
      <4>2. (sent[e] \o mine[e]) \o outgoing = sent[e] \o (mine[e] \o outgoing)
        <5>1. ASSUME NEW a \in Seq(Int), NEW b \in Seq(Int), NEW c \in Seq(Int)
              PROVE  (a \o b) \o c = a \o (b \o c)
          BY ConcatAssociative
        <5>. QED
          BY <2>2, <5>1, Zenon
      <4>. QED
        BY <2>1, <4>1, <4>2 DEF Taken
    <3>2. Of(t \o outgoing) = Of(t) \cup Of(outgoing)
      BY <2>2, OfConcat
    <3>3. Rising(t \o outgoing)
      BY <2>2, <2>3, RisingConcat
    <3>. QED
      BY <2>1, <2>4, <3>1, <3>2, <3>3
  <2>5. CASE e # epoch
    <3>1. Channel!Path(e) = t \o <<>> \/ Channel!Path(e) = sent[e] \o (mine[e] \o <<>>)
      BY <2>1, <2>5 DEF Channel!Path, Taken
    <3>2. t \o <<>> = t /\ mine[e] \o <<>> = mine[e]
      BY <2>2, ConcatEmptySeq
    <3>3. Channel!Path(e) = t
      BY <2>1, <3>1, <3>2 DEF Taken
    <3>. QED
      BY <2>1, <2>3, <2>5, <3>3
  <2>. QED
    BY <2>4, <2>5
<1>2. ASSUME NEW e \in Channel!Epoch
      PROVE  \A i, j \in DOMAIN Channel!Path(e) : i < j => Channel!Path(e)[i] < Channel!Path(e)[j]
  BY <1>1 DEF Rising
<1>3. ASSUME NEW e \in Channel!Epoch, NEW i \in DOMAIN Channel!Path(e),
             meant[Channel!Path(e)[i]] # e
      PROVE  {e, meant[Channel!Path(e)[i]]} \cap caught # {}
  <2>1. PICK n : n = Channel!Path(e)[i]
    OBVIOUS
  <2>2. n \in Of(Channel!Path(e))
    BY <2>1 DEF Of
  <2>3. n \in Of(Taken(e)) \/ (n \in Of(outgoing) /\ e = epoch)
    BY <1>1, <2>2
  <2>4. e \in caught \/ meant[n] \in caught
    BY <1>3, <2>1, <2>3 DEF PumpInv, Pieces, Meant
  <2>. QED
    BY <2>1, <2>4
<1>4. ASSUME NEW e \in Channel!Epoch, e = epoch, NEW n \in DOMAIN meant, meant[n] = e
      PROVE  \E d \in caught \cup {e} : n \in Channel!ToSet(Channel!Path(d))
  <2>1. PICK d \in caught \cup {epoch} : n \in Of(Taken(d)) \/ (n \in Of(outgoing) /\ d = epoch)
    BY <1>4 DEF PumpInv, Pieces, Reached
  <2>2. d \in Channel!Epoch
    BY <1>4 DEF PumpInv, Channel!TypeOK
  <2>3. n \in Of(Channel!Path(d))
    BY <1>1, <2>1, <2>2
  <2>. QED
    BY <1>4, <2>3 DEF Of, Channel!ToSet
<1>. QED
  BY <1>2, <1>3, <1>4 DEF Channel!TypedReachesItsConnection

LEMMA Transmits == Spec => Channel!Spec
<1>1. Init => Channel!Init
  BY DEF Init
<1>2. [Next]_vars => [Channel!Next]_(Channel!vars)
  BY DEF Next, vars, doorVars, typedVars, channelVars, readVars, screenVars, Channel!vars
<1>. QED
  BY <1>1, <1>2, PTL DEF Spec, Channel!Spec

(* However often and wherever in an iteration of its worker a connection   *)
(* is replaced, what is typed goes out once, in order, on the connection   *)
(* it was typed for, and is mixed with another's only by a worker that was *)
(* caught in its iteration; and the size asked for is the size told, or a  *)
(* known miss (session.rs:156-172, ssh.rs:293-392).                        *)
THEOREM TypedGoesOut == Spec => []ConnectionGetsItsOwn
<1>1. Bounds
  BY TerminalAssumption DEF TerminalAssumption, Bounds
<1>2. Channel!Spec => []PumpInv
  BY <1>1, PumpInductive
<1>3. PumpInv => ConnectionGetsItsOwn
  BY <1>1, PathsAreInTurn DEF PumpInv, ConnectionGetsItsOwn
<1>. QED
  BY <1>2, <1>3, Transmits, PTL

-----------------------------------------------------------------------------
(* The screen and its lines.  While the alternate screen is shown the main *)
(* one has no scrollback, unless the count is lost already.                *)
Surface == [alt : BOOLEAN, row : 0 .. Rows - 1, len : 0 .. Cap, base : Nat]

Counted ==
  /\ screen \in Surface /\ scrolled \in Nat /\ slipped \in BOOLEAN
  /\ pending # <<>> => pending[1].ctrl.rows \in Nat \ {0}
  /\ slipped \/ (Screen!AbsTop(screen) = scrolled /\ (screen.alt => screen.len = 0))

Lines == Rows \in Nat \ {0} /\ Cap \in Nat \ {0} /\ Heights \subseteq Nat \ {0}

(* n line feeds and what the screen and the counters make of them.         *)
LEMMA FeedCounts ==
  ASSUME Lines, Counted, NEW n \in Nat, screen' = Screen!Feed(screen, n),
         scrolled' = scrolled + Screen!Over(screen, n),
         slipped' = (slipped \/ (screen.len < Cap /\ screen.len + Screen!Over(screen, n) > Cap))
  PROVE  /\ screen' \in Surface /\ scrolled' \in Nat /\ slipped' \in BOOLEAN
         /\ slipped' \/ (Screen!AbsTop(screen)' = scrolled' /\ (screen'.alt => screen'.len = 0))
<1>1. /\ screen.alt \in BOOLEAN /\ screen.row \in 0 .. Rows - 1 /\ screen.len \in 0 .. Cap
      /\ screen.base \in Nat /\ scrolled \in Nat /\ slipped \in BOOLEAN /\ screen \in Surface
  BY DEF Counted, Surface
<1>2. PICK over : over = IF screen.row + n > Rows - 1 THEN screen.row + n - (Rows - 1) ELSE 0
  OBVIOUS
<1>3. over \in Nat
  BY <1>1, <1>2 DEF Lines
<1>4. PICK row : row = IF screen.row + n > Rows - 1 THEN Rows - 1 ELSE screen.row + n
  OBVIOUS
<1>5. PICK len : len = IF screen.alt THEN screen.len
                       ELSE IF screen.len + over > Cap THEN Cap ELSE screen.len + over
  OBVIOUS
<1>6. PICK base : base = IF screen.alt \/ screen.len < Cap THEN screen.base ELSE screen.base + over
  OBVIOUS
<1>7. row \in 0 .. Rows - 1 /\ len \in 0 .. Cap /\ base \in Nat
  BY <1>1, <1>3, <1>4, <1>5, <1>6 DEF Lines
<1>8. screen' = [screen EXCEPT !.row = row, !.len = len, !.base = base]
  BY <1>1, <1>2, <1>4, <1>5, <1>6 DEF Screen!Feed
<1>9. /\ screen' \in Surface /\ screen'.alt = screen.alt /\ screen'.len = len /\ screen'.base = base
  BY <1>1, <1>7, <1>8 DEF Surface
<1>10. Screen!Over(screen, n) = IF screen.alt THEN 0 ELSE over
  BY <1>1, <1>2 DEF Screen!Over, Lines
<1>11. Screen!AbsTop(screen) = screen.base + (IF screen.alt THEN 0 ELSE screen.len)
  BY DEF Screen!AbsTop, Screen!LenNow
<1>12. Screen!AbsTop(screen)' = base + (IF screen.alt THEN 0 ELSE len)
  BY <1>9 DEF Screen!AbsTop, Screen!LenNow
<1>13. scrolled' \in Nat /\ slipped' \in BOOLEAN
  BY <1>1, <1>3, <1>10
<1>14. CASE slipped'
  BY <1>9, <1>13, <1>14
<1>15. CASE ~slipped'
  <2>1. /\ ~slipped /\ Screen!AbsTop(screen) = scrolled /\ (screen.alt => screen.len = 0)
        /\ ~(screen.len < Cap /\ screen.len + Screen!Over(screen, n) > Cap)
    BY <1>1, <1>15 DEF Counted
  <2>2. CASE screen.alt
    BY <1>1, <1>5, <1>6, <1>9, <1>10, <1>11, <1>12, <1>13, <2>1, <2>2
  <2>3. CASE ~screen.alt /\ screen.len < Cap
    BY <1>1, <1>3, <1>5, <1>6, <1>9, <1>10, <1>11, <1>12, <1>13, <2>1, <2>3
  <2>4. CASE ~screen.alt /\ screen.len = Cap
    <3>1. len = Cap /\ base = screen.base + over
      BY <1>1, <1>3, <1>5, <1>6, <2>4 DEF Lines
    <3>. QED
      BY <1>1, <1>3, <1>9, <1>10, <1>11, <1>12, <1>13, <2>1, <2>4, <3>1
  <2>5. screen.len < Cap \/ screen.len = Cap
    BY <1>1 DEF Lines
  <2>. QED
    BY <2>2, <2>3, <2>4, <2>5
<1>. QED
  BY <1>14, <1>15

LEMMA ReadsCount ==
  ASSUME Lines, Counted, NEW st, NEW n \in Nat, Screen!Reads(st, n),
         pending' # <<>> => pending'[1].ctrl.rows \in Nat \ {0}
  PROVE  Counted'
BY FeedCounts DEF Screen!Reads, Counted

LEMMA FinishCounts ==
  ASSUME Lines, Counted, NEW c, c.rows \in Nat \ {0}, NEW size, Screen!Finish(c, size),
         pending' # <<>> => pending'[1].ctrl.rows \in Nat \ {0}
  PROVE  Counted'
<1>1. Screen!Behind(c) \in Nat
  BY DEF Screen!Behind
<1>2. PICK st : Screen!Reads(st, Screen!Behind(c))
  BY DEF Screen!Finish
<1>. QED
  BY <1>1, <1>2, ReadsCount

LEMMA KeepCounts ==
  ASSUME Counted, NEW c, c.rows \in Nat \ {0}, NEW size, Screen!Keep(c, size)
  PROVE  Counted'
<1>1. pending'[1].ctrl.rows \in Nat \ {0}
  BY DEF Screen!Keep
<1>. QED
  BY <1>1 DEF Screen!Keep, Counted

LEMMA CountedInductive ==
  ASSUME Lines, Counted, [Screen!Next]_(Screen!vars)
  PROVE  Counted'
<1>0. \A c \in Screen!Ctrl : c.rows \in Nat \ {0}
  BY DEF Screen!Ctrl, Lines
<1>1. CASE UNCHANGED <<screen, scrolled, slipped>> /\ (pending' = pending \/ pending' = <<>>)
  BY <1>1 DEF Counted
<1>2. CASE Screen!Text
  BY <1>2, ReadsCount DEF Screen!Text, Counted
<1>3. CASE Screen!Home
  <2>1. screen' = [screen EXCEPT !.row = 0] /\ 0 \in 0 .. Rows - 1
    BY <1>3 DEF Screen!Home, Lines
  <2>2. screen' \in Surface /\ screen'.alt = screen.alt /\ screen'.len = screen.len /\ screen'.base = screen.base
    BY <2>1 DEF Counted, Surface
  <2>. QED
    BY <1>3, <2>2 DEF Screen!Home, Counted, Screen!AbsTop, Screen!LenNow
<1>4. CASE Screen!Erase
  <2>1. CASE screen' = screen
    BY <1>4, <2>1 DEF Screen!Erase, Counted
  <2>2. CASE ~screen.alt /\ screen' = [screen EXCEPT !.len = 0, !.base = @ + screen.len]
    <3>1. /\ screen.len \in Nat /\ screen.base \in Nat /\ screen \in Surface
          /\ 0 \in 0 .. Cap /\ screen.base + screen.len \in Nat
      BY DEF Counted, Surface, Lines
    <3>2. /\ screen' \in Surface /\ screen'.alt = screen.alt /\ screen'.len = 0
          /\ screen'.base = screen.base + screen.len
      BY <2>2, <3>1 DEF Surface
    <3>. QED
      BY <1>4, <2>2, <3>1, <3>2 DEF Screen!Erase, Counted, Screen!AbsTop, Screen!LenNow
  <2>. QED
    BY <1>4, <2>1, <2>2 DEF Screen!Erase
<1>5. CASE Screen!EnterAlt
  <2>1. /\ screen.len \in Nat /\ screen.base \in Nat /\ screen \in Surface
        /\ screen.base + screen.len \in Nat
    BY DEF Counted, Surface, Lines
  <2>2. ~screen.alt /\ screen' = [screen EXCEPT !.alt = TRUE, !.base = @ + screen.len]
    BY <1>5 DEF Screen!EnterAlt
  <2>3. /\ screen' \in Surface /\ screen'.alt = TRUE /\ screen'.len = screen.len
        /\ screen'.base = screen.base + screen.len
    BY <2>1, <2>2 DEF Surface
  <2>4. slipped' = (slipped \/ screen.len > 0) /\ pending' = pending /\ scrolled' = scrolled
    BY <1>5 DEF Screen!EnterAlt
  <2>5. CASE screen.len > 0
    BY <2>3, <2>4, <2>5 DEF Counted
  <2>6. CASE screen.len = 0
    <3>1. Screen!AbsTop(screen)' = screen.base /\ Screen!AbsTop(screen) = screen.base
      BY <2>1, <2>2, <2>3, <2>6 DEF Screen!AbsTop, Screen!LenNow
    <3>. QED
      BY <2>3, <2>4, <2>6, <3>1 DEF Counted
  <2>. QED
    BY <2>1, <2>5, <2>6
<1>6. CASE Screen!LeaveAlt
  <2>1. screen.alt /\ screen' = [screen EXCEPT !.alt = FALSE] /\ screen \in Surface
    BY <1>6 DEF Screen!LeaveAlt, Counted
  <2>2. /\ screen' \in Surface /\ screen'.alt = FALSE /\ screen'.len = screen.len
        /\ screen'.base = screen.base
    BY <2>1 DEF Surface
  <2>3. slipped' = slipped /\ pending' = pending /\ scrolled' = scrolled
    BY <1>6 DEF Screen!LeaveAlt
  <2>. QED
    BY <2>1, <2>2, <2>3 DEF Counted, Surface, Screen!AbsTop, Screen!LenNow
<1>7. ASSUME NEW c \in Screen!Ctrl, NEW size, Screen!Transmit(c, size) PROVE Counted'
  BY <1>0, <1>7, KeepCounts, FinishCounts DEF Screen!Transmit
<1>8. ASSUME NEW size, Screen!Continue(size) PROVE Counted'
  <2>1. pending # <<>> /\ pending[1].ctrl.rows \in Nat \ {0}
    BY <1>8 DEF Screen!Continue, Counted
  <2>. QED
    BY <1>1, <1>8, <2>1, KeepCounts, FinishCounts DEF Screen!Continue
<1>9. ASSUME NEW c \in Screen!Ctrl, Screen!Put(c) PROVE Counted'
  <2>1. Screen!Behind(c) \in Nat
    BY <1>0 DEF Screen!Behind
  <2>2. PICK st : Screen!Reads(st, Screen!Behind(c))
    BY <1>9 DEF Screen!Put
  <2>. QED
    BY <1>9, <2>1, <2>2, ReadsCount DEF Screen!Put, Counted
<1>10. CASE Screen!Delete \/ UNCHANGED Screen!vars
  BY <1>1, <1>10 DEF Screen!Delete, Screen!vars
<1>. QED
  BY <1>2, <1>3, <1>4, <1>5, <1>6, <1>7, <1>8, <1>9, <1>10 DEF Screen!Next

LEMMA CountedStarts == ASSUME Lines, Screen!Init PROVE Counted
<1>1. screen = [alt |-> FALSE, row |-> 0, len |-> 0, base |-> 0] /\ 0 \in 0 .. Rows - 1 /\ 0 \in 0 .. Cap
  BY DEF Screen!Init, Lines
<1>2. screen \in Surface
  BY <1>1 DEF Surface
<1>3. Screen!AbsTop(screen) = 0 /\ screen.alt = FALSE
  BY <1>1 DEF Screen!AbsTop, Screen!LenNow
<1>. QED
  BY <1>2, <1>3 DEF Screen!Init, Counted

LEMMA Scrolls == Spec => Screen!Init /\ [][Screen!Next]_(Screen!vars)
<1>1. Init => Screen!Init
  BY DEF Init
<1>2. [Next]_vars => [Screen!Next]_(Screen!vars)
  BY DEF Next, vars, doorVars, typedVars, channelVars, readVars, screenVars, Screen!vars
<1>. QED
  BY <1>1, <1>2, PTL DEF Spec

(* However output, erasures, images and the alternate screen mix, the      *)
(* absolute line of the top row is the number of lines that scrolled off,  *)
(* until one run fills the scrollback and goes on, or the alternate screen *)
(* is entered with lines in it (term.rs:86, 195-225).                      *)
THEOREM AnchorsKept == Spec => []AnchorsStay
<1>1. Lines
  BY TerminalAssumption DEF TerminalAssumption, Lines
<1>2. Screen!Init => Counted
  BY <1>1, CountedStarts
<1>3. Counted /\ [Screen!Next]_(Screen!vars) => Counted'
  BY <1>1, CountedInductive
<1>4. Counted => AnchorsStay
  BY DEF Counted, AnchorsStay, Screen!AnchorsStay
<1>. QED
  BY <1>2, <1>3, <1>4, Scrolls, PTL

-----------------------------------------------------------------------------
(* The sum that Bytes is.  A set of subsets of a finite set has a minimal  *)
(* one: what is to be shown of every subset is shown of a smallest that it *)
(* could be false of.                                                      *)
LEMMA Smallest ==
  ASSUME NEW S, IsFiniteSet(S), NEW T, T \subseteq SUBSET S, T # {}
  PROVE  \E s \in T : \A u \in T : u \subseteq s => u = s
<1>1. T \subseteq FiniteSubsetsOf(S)
  BY FS_FiniteSubsetsOfFinite
<1>2. PICK s \in T : \A u \in T : ~(<<u, s>> \in StrictSubsetOrdering(S))
  BY <1>1, FS_StrictSubsetOrderingWellFounded, WFMin
<1>3. ASSUME NEW u \in T, u \subseteq s, u # s PROVE FALSE
  <2>1. <<u, s>> \in StrictSubsetOrdering(S)
    BY <1>3 DEF StrictSubsetOrdering
  <2>. QED
    BY <1>2, <2>1
<1>. QED
  BY <1>3

Step(g, s) == IF s = {} THEN 0 ELSE LET x == CHOOSE y \in s : TRUE IN x.size + g[s \ {x}]
IsSum(g, S) == g = [s \in SUBSET S |-> Step(g, s)]

LEMMA BytesIsSum == \A S : Screen!Bytes(S) = (CHOOSE g : IsSum(g, S))[S]
  BY DEF Screen!Bytes, Screen!MapThenSumSet, Screen!MapThenFoldSet, IsSum, Step

LEMMA StepOf == 
  ASSUME NEW s, s # {}
  PROVE  \E x \in s : \A g : Step(g, s) = x.size + g[s \ {x}]
<1>1. (CHOOSE y \in s : TRUE) \in s
  OBVIOUS
<1>. QED
  BY <1>1 DEF Step

(* Two sums agree where both are defined.                                  *)
LEMMA SumsAgree ==
  ASSUME NEW S, IsFiniteSet(S), NEW A, NEW B, S \subseteq A, S \subseteq B,
         NEW g, IsSum(g, A), NEW h, IsSum(h, B)
  PROVE  g[S] = h[S]
<1>. SUFFICES ASSUME g[S] # h[S] PROVE FALSE
  OBVIOUS
<1>. DEFINE T == {s \in SUBSET S : g[s] # h[s]}
<1>1. PICK s \in T : \A u \in T : u \subseteq s => u = s
  <2>1. T \subseteq SUBSET S /\ S \in T
    OBVIOUS
  <2>. HIDE DEF T
  <2>. QED
    BY <2>1, Smallest
<1>2. s \subseteq S /\ g[s] # h[s]
  OBVIOUS
<1>3. g[s] = Step(g, s) /\ h[s] = Step(h, s)
  BY <1>2 DEF IsSum
<1>4. CASE s = {}
  BY <1>2, <1>3, <1>4 DEF Step
<1>5. CASE s # {}
  <2>1. PICK x \in s : \A f : Step(f, s) = x.size + f[s \ {x}]
    BY <1>5, StepOf
  <2>2. g[s \ {x}] = h[s \ {x}]
    BY <1>1, <1>2, <2>1
  <2>. QED
    BY <1>2, <1>3, <2>1, <2>2
<1>. QED
  BY <1>4, <1>5

LEMMA SumExists ==
  ASSUME NEW S, IsFiniteSet(S)
  PROVE  \E g : IsSum(g, S)
<1>. DEFINE T == {s \in SUBSET S : ~\E g : IsSum(g, s)}
     Sum(s) == (CHOOSE g : IsSum(g, s))[s]
<1>. SUFFICES ASSUME T # {} PROVE FALSE
  OBVIOUS
<1>1. PICK s \in T : \A u \in T : u \subseteq s => u = s
  <2>1. T \subseteq SUBSET S
    OBVIOUS
  <2>. HIDE DEF T
  <2>. QED
    BY <2>1, Smallest
<1>2. /\ s \subseteq S
      /\ \A u \in SUBSET s : u # s => \E g : IsSum(g, u)
  BY <1>1
<1>3. \A u \in SUBSET s : u # s => IsSum(CHOOSE g : IsSum(g, u), u)
  BY <1>2
<1>4. \A u \in SUBSET s : IsFiniteSet(u)
  BY <1>2, FS_Subset
<1>5. \A u \in SUBSET s : \A v \in SUBSET u : u # s /\ v # s => Sum(v) = (CHOOSE g : IsSum(g, u))[v]
  <2>. SUFFICES ASSUME NEW u \in SUBSET s, NEW v \in SUBSET u, u # s, v # s
                PROVE  Sum(v) = (CHOOSE g : IsSum(g, u))[v]
    OBVIOUS
  <2>1. PICK g : g = CHOOSE f : IsSum(f, u)
    OBVIOUS
  <2>2. PICK h : h = CHOOSE f : IsSum(f, v)
    OBVIOUS
  <2>3. IsSum(g, u) /\ IsSum(h, v) /\ IsFiniteSet(v)
    BY <1>3, <1>4, <2>1, <2>2
  <2>4. h[v] = g[v]
    BY <2>3, SumsAgree
  <2>. QED
    BY <2>1, <2>2, <2>4
<1>. DEFINE all == [u \in SUBSET s |->
                      IF u # s THEN Sum(u)
                      ELSE IF u = {} THEN 0
                      ELSE LET x == CHOOSE y \in u : TRUE IN x.size + Sum(u \ {x})]
<1>6. ASSUME NEW u \in SUBSET s PROVE all[u] = Step(all, u)
  <2>1. CASE u = {}
    <3>1. CASE u = s
      BY <2>1, <3>1 DEF Step
    <3>2. CASE u # s
      <4>1. PICK g : g = CHOOSE f : IsSum(f, u)
        OBVIOUS
      <4>2. IsSum(g, u)
        BY <1>3, <3>2, <4>1
      <4>3. g[u] = 0
        BY <2>1, <4>2 DEF IsSum, Step
      <4>4. all[u] = g[u]
        BY <3>2, <4>1
      <4>. QED
        BY <2>1, <4>3, <4>4 DEF Step
    <3>. QED
      BY <3>1, <3>2
  <2>2. CASE u # {}
    <3>1. PICK x : x = CHOOSE y \in u : TRUE
      OBVIOUS
    <3>2. x \in u /\ u \ {x} \in SUBSET u /\ u \ {x} # s /\ u \ {x} \in SUBSET s
      BY <2>2, <3>1
    <3>3. all[u \ {x}] = Sum(u \ {x})
      BY <3>2
    <3>4. CASE u = s
      <4>1. all[u] = x.size + Sum(u \ {x})
        BY <2>2, <3>1, <3>4
      <4>2. Step(all, u) = x.size + all[u \ {x}]
        BY <2>2, <3>1 DEF Step
      <4>. QED
        BY <3>3, <4>1, <4>2
    <3>5. CASE u # s
      <4>1. PICK g : g = CHOOSE f : IsSum(f, u)
        OBVIOUS
      <4>2. IsSum(g, u)
        BY <1>3, <3>5, <4>1
      <4>3. g[u] = x.size + g[u \ {x}]
        BY <2>2, <3>1, <4>2 DEF IsSum, Step
      <4>4. Sum(u \ {x}) = g[u \ {x}]
        BY <1>5, <3>2, <3>5, <4>1
      <4>5. all[u] = g[u]
        BY <3>5, <4>1
      <4>6. Step(all, u) = x.size + all[u \ {x}]
        BY <2>2, <3>1 DEF Step
      <4>. QED
        BY <3>3, <4>3, <4>4, <4>5, <4>6
    <3>. QED
      BY <3>4, <3>5
  <2>. QED
    BY <2>1, <2>2
<1>7. IsSum(all, s)
  <2>1. all = [u \in SUBSET s |-> all[u]]
    OBVIOUS
  <2>. HIDE DEF all
  <2>2. all = [u \in SUBSET s |-> Step(all, u)]
    BY <1>6, <2>1
  <2>. QED
    BY <2>2 DEF IsSum
<1>. QED
  BY <1>1, <1>7

LEMMA BytesStep ==
  ASSUME NEW S, IsFiniteSet(S)
  PROVE  /\ S = {} => Screen!Bytes(S) = 0
         /\ S # {} => \E x \in S : Screen!Bytes(S) = x.size + Screen!Bytes(S \ {x})
<1>1. PICK g : g = CHOOSE f : IsSum(f, S)
  OBVIOUS
<1>2. IsSum(g, S) /\ Screen!Bytes(S) = g[S]
  BY <1>1, SumExists, BytesIsSum
<1>3. g[S] = Step(g, S)
  BY <1>2 DEF IsSum
<1>4. S = {} => Screen!Bytes(S) = 0
  BY <1>2, <1>3 DEF Step
<1>5. ASSUME S # {} PROVE \E x \in S : Screen!Bytes(S) = x.size + Screen!Bytes(S \ {x})
  <2>1. PICK x \in S : \A f : Step(f, S) = x.size + f[S \ {x}]
    BY <1>5, StepOf
  <2>2. IsFiniteSet(S \ {x})
    BY FS_Subset
  <2>3. PICK h : h = CHOOSE f : IsSum(f, S \ {x})
    OBVIOUS
  <2>4. IsSum(h, S \ {x}) /\ Screen!Bytes(S \ {x}) = h[S \ {x}]
    BY <2>2, <2>3, SumExists, BytesIsSum
  <2>5. h[S \ {x}] = g[S \ {x}]
    BY <1>2, <2>2, <2>4, SumsAgree
  <2>. QED
    BY <1>2, <1>3, <2>1, <2>4, <2>5
<1>. QED
  BY <1>4, <1>5

Sized(S) == IsFiniteSet(S) /\ \A x \in S : x.size \in Nat

LEMMA BytesNat == ASSUME NEW S, Sized(S) PROVE Screen!Bytes(S) \in Nat
<1>. DEFINE T == {s \in SUBSET S : Screen!Bytes(s) \notin Nat}
<1>. SUFFICES ASSUME T # {} PROVE FALSE
  OBVIOUS
<1>1. PICK s \in T : \A u \in T : u \subseteq s => u = s
  <2>1. T \subseteq SUBSET S
    OBVIOUS
  <2>. HIDE DEF T
  <2>. QED
    BY <2>1, Smallest DEF Sized
<1>2. s \subseteq S /\ Screen!Bytes(s) \notin Nat /\ IsFiniteSet(s)
  BY FS_Subset DEF Sized
<1>3. CASE s = {}
  BY <1>2, <1>3, BytesStep
<1>4. CASE s # {}
  <2>1. PICK x \in s : Screen!Bytes(s) = x.size + Screen!Bytes(s \ {x})
    BY <1>2, <1>4, BytesStep
  <2>2. Screen!Bytes(s \ {x}) \in Nat /\ x.size \in Nat
    BY <1>1, <1>2, <2>1 DEF Sized
  <2>. QED
    BY <1>2, <2>1, <2>2
<1>. QED
  BY <1>3, <1>4

(* The order in which Bytes adds does not matter.                          *)
LEMMA BytesWithout ==
  ASSUME NEW S, Sized(S), NEW y \in S
  PROVE  Screen!Bytes(S) = y.size + Screen!Bytes(S \ {y})
<1>. DEFINE T == {s \in SUBSET S : \E z \in s : Screen!Bytes(s) # z.size + Screen!Bytes(s \ {z})}
<1>. SUFFICES ASSUME T # {} PROVE FALSE
  OBVIOUS
<1>1. PICK s \in T : \A u \in T : u \subseteq s => u = s
  <2>1. T \subseteq SUBSET S
    OBVIOUS
  <2>. HIDE DEF T
  <2>. QED
    BY <2>1, Smallest DEF Sized
<1>2. PICK z \in s : Screen!Bytes(s) # z.size + Screen!Bytes(s \ {z})
  OBVIOUS
<1>3. s \subseteq S /\ IsFiniteSet(s)
  BY FS_Subset DEF Sized
<1>4. PICK x \in s : Screen!Bytes(s) = x.size + Screen!Bytes(s \ {x})
  BY <1>2, <1>3, BytesStep
<1>5. x # z
  BY <1>2, <1>4
<1>6. \A u \in SUBSET s : u # s => \A w \in u : Screen!Bytes(u) = w.size + Screen!Bytes(u \ {w})
  BY <1>1, <1>3
<1>. HIDE DEF T
<1>7. PICK a, b, c : a = s \ {x} /\ b = s \ {z} /\ c = (s \ {x}) \ {z}
  OBVIOUS
<1>8. /\ a \in SUBSET s /\ a # s /\ z \in a /\ a \ {z} = c
      /\ b \in SUBSET s /\ b # s /\ x \in b /\ b \ {x} = c
  BY <1>2, <1>4, <1>5, <1>7
<1>9. Screen!Bytes(a) = z.size + Screen!Bytes(c) /\ Screen!Bytes(b) = x.size + Screen!Bytes(c)
  BY <1>6, <1>8
<1>10. Sized(c)
  BY <1>3, <1>7, FS_Subset DEF Sized
<1>11. Screen!Bytes(c) \in Nat /\ x.size \in Nat /\ z.size \in Nat
  BY <1>3, <1>10, BytesNat DEF Sized
<1>12. Screen!Bytes(s) = x.size + Screen!Bytes(a) /\ Screen!Bytes(s) # z.size + Screen!Bytes(b)
  BY <1>2, <1>4, <1>7
<1>. QED
  BY <1>9, <1>11, <1>12

LEMMA BytesPart ==
  ASSUME NEW S, Sized(S), NEW A \in SUBSET S
  PROVE  /\ Screen!Bytes(S) \in Nat /\ Screen!Bytes(A) \in Nat /\ Screen!Bytes(S \ A) \in Nat
         /\ Screen!Bytes(S \ A) = Screen!Bytes(S) - Screen!Bytes(A)
         /\ Screen!Bytes(A) <= Screen!Bytes(S)
<1>1. \A s \in SUBSET S : Sized(s)
  BY FS_Subset DEF Sized
<1>2. \A s \in SUBSET S : Screen!Bytes(s) \in Nat
  BY <1>1, BytesNat
<1>. DEFINE T == {s \in SUBSET A : Screen!Bytes(S \ s) + Screen!Bytes(s) # Screen!Bytes(S)}
<1>3. T = {}
  <2>. SUFFICES ASSUME T # {} PROVE FALSE
    OBVIOUS
  <2>1. PICK s \in T : \A u \in T : u \subseteq s => u = s
    <3>1. T \subseteq SUBSET S
      OBVIOUS
    <3>. HIDE DEF T
    <3>. QED
      BY <3>1, Smallest DEF Sized
  <2>2. s \subseteq A /\ s \subseteq S /\ Screen!Bytes(S \ s) + Screen!Bytes(s) # Screen!Bytes(S)
    OBVIOUS
  <2>3. CASE s = {}
    <3>1. Screen!Bytes(s) = 0 /\ S \ s = S
      BY <1>1, <2>2, <2>3, BytesStep DEF Sized
    <3>2. Screen!Bytes(S) \in Nat
      BY <1>2
    <3>3. Screen!Bytes(S \ s) = Screen!Bytes(S)
      BY <3>1
    <3>. QED
      BY <2>2, <3>1, <3>2, <3>3
  <2>4. CASE s # {}
    <3>1. PICK x \in s : TRUE
      BY <2>4
    <3>2. PICK u : u = s \ {x}
      OBVIOUS
    <3>3. u \in SUBSET A /\ u \subseteq s /\ u # s
      BY <2>2, <3>1, <3>2
    <3>4. Screen!Bytes(S \ u) + Screen!Bytes(u) = Screen!Bytes(S)
      BY <2>1, <3>3
    <3>. HIDE DEF T
    <3>5. Screen!Bytes(s) = x.size + Screen!Bytes(u)
      BY <1>1, <2>2, <3>2, BytesWithout
    <3>6. Screen!Bytes(S \ u) = x.size + Screen!Bytes(S \ s)
      <4>1. x \in S \ u /\ (S \ u) \ {x} = S \ s /\ S \ u \in SUBSET S
        BY <2>2, <3>1, <3>2
      <4>. QED
        BY <1>1, <4>1, BytesWithout
    <3>7. /\ Screen!Bytes(u) \in Nat /\ Screen!Bytes(S \ s) \in Nat /\ x.size \in Nat
          /\ Screen!Bytes(S) \in Nat
      BY <1>2, <2>2, <3>1, <3>2 DEF Sized
    <3>. QED
      BY <2>2, <3>4, <3>5, <3>6, <3>7
  <2>. QED
    BY <2>3, <2>4
<1>4. Screen!Bytes(S \ A) + Screen!Bytes(A) = Screen!Bytes(S)
  BY <1>3
<1>5. Screen!Bytes(S) \in Nat /\ Screen!Bytes(A) \in Nat /\ Screen!Bytes(S \ A) \in Nat
  BY <1>2
<1>. HIDE DEF T
<1>. QED
  BY <1>4, <1>5

-----------------------------------------------------------------------------
(* The store.                                                              *)
Image  == [key : Nat, id : Nat, number : Nat, size : Nat, nameless : BOOLEAN]
Spot   == [key : Nat, tag : Nat, line : Int, rows : Nat, alt : BOOLEAN]
Stores == [images : SUBSET Image, placements : SUBSET Spot, stored : Nat, nextKey : Nat, nextAuto : Nat]

(* A key is of one image and given once; stored is the sum it stands for.  *)
Sound(st) ==
  /\ st \in Stores /\ IsFiniteSet(st.images)
  /\ \A a, b \in st.images : a.key = b.key => a = b
  /\ \A im \in st.images : im.key < st.nextKey
  /\ \A p \in st.placements : p.key < st.nextKey
  /\ st.stored = Screen!Bytes(st.images)

Backed(st, gone) == \A p \in st.placements : p.key \in Screen!KeysOf(st.images) \cup gone
Rooted(st) == \A im \in st.images : Screen!Nameless(im) /\ ~im.nameless => im.key \in Screen!Shown(st)

LEMMA SoundSized == \A st : Sound(st) => Sized(st.images) /\ st.images \subseteq Image
  BY DEF Sound, Sized, Stores, Image

LEMMA Removing ==
  ASSUME NEW st, Sound(st), NEW gone, NEW r, r = Screen!RemoveImages(st, gone)
  PROVE  /\ Sound(r) /\ r.stored <= st.stored /\ r.nextKey = st.nextKey /\ r.nextAuto = st.nextAuto
         /\ r.images = {im \in st.images : im.key \notin gone}
         /\ r.placements \subseteq st.placements
         /\ \A p \in st.placements : p.key \notin gone => p \in r.placements
         /\ \A u : Backed(st, u) => Backed(r, u)
<1>1. PICK rest : rest = {im \in st.images : im.key \notin gone}
  OBVIOUS
<1>2. PICK still : still = {p \in st.placements : p.key \notin gone}
  OBVIOUS
<1>3. /\ st \in Stores /\ st.images \in SUBSET Image /\ st.placements \in SUBSET Spot
      /\ st.stored \in Nat /\ st.stored = Screen!Bytes(st.images) /\ rest \in SUBSET st.images
      /\ still \in SUBSET st.placements
  BY <1>1, <1>2 DEF Sound, Stores
<1>4. CASE rest = st.images
  <2>1. r = st
    BY <1>1, <1>4 DEF Screen!RemoveImages
  <2>. QED
    BY <1>1, <1>3, <1>4, <2>1
<1>5. CASE rest # st.images
  <2>1. Screen!Bytes(rest) \in Nat /\ Screen!Bytes(rest) <= st.stored
    BY <1>3, SoundSized, BytesPart
  <2>2. r = [st EXCEPT !.images = rest, !.stored = Screen!Bytes(rest), !.placements = still]
    BY <1>1, <1>2, <1>5 DEF Screen!RemoveImages
  <2>3. /\ r \in Stores /\ r.images = rest /\ r.placements = still /\ r.stored = Screen!Bytes(rest)
        /\ r.nextKey = st.nextKey /\ r.nextAuto = st.nextAuto
    BY <1>3, <2>1, <2>2 DEF Stores
  <2>4. IsFiniteSet(rest)
    BY <1>3, FS_Subset DEF Sound
  <2>5. Sound(r)
    BY <1>3, <2>3, <2>4 DEF Sound
  <2>6. ASSUME NEW u, Backed(st, u) PROVE Backed(r, u)
    BY <1>1, <1>2, <2>3, <2>6 DEF Backed, Screen!KeysOf
  <2>. QED
    BY <1>1, <1>2, <1>3, <2>1, <2>3, <2>5, <2>6
<1>. QED
  BY <1>4, <1>5

LEMMA Collecting ==
  ASSUME NEW st, Sound(st), NEW r, r = Screen!GcAnonymous(st)
  PROVE  /\ Sound(r) /\ r.stored <= st.stored /\ r.nextKey = st.nextKey /\ r.nextAuto = st.nextAuto
         /\ r.placements = st.placements /\ Rooted(r)
         /\ \A u : Backed(st, u) => Backed(r, u)
<1>1. PICK gone : gone = (Screen!KeysWhere(st, "id", 0) \cap Screen!KeysWhere(st, "number", 0))
                            \ Screen!Shown(st)
  OBVIOUS
<1>2. r = Screen!RemoveImages(st, gone)
  BY <1>1 DEF Screen!GcAnonymous
<1>3. /\ Sound(r) /\ r.stored <= st.stored /\ r.nextKey = st.nextKey /\ r.nextAuto = st.nextAuto
      /\ r.images = {im \in st.images : im.key \notin gone}
      /\ r.placements \subseteq st.placements
      /\ \A p \in st.placements : p.key \notin gone => p \in r.placements
      /\ \A u : Backed(st, u) => Backed(r, u)
  BY <1>2, Removing
<1>4. \A p \in st.placements : p.key \notin gone
  BY <1>1 DEF Screen!Shown
<1>5. r.placements = st.placements
  BY <1>3, <1>4
<1>6. ASSUME NEW im \in r.images, Screen!Nameless(im) PROVE im.key \in Screen!Shown(r)
  <2>1. im \in st.images /\ im.key \notin gone /\ im.id = 0 /\ im.number = 0
    BY <1>3, <1>6 DEF Screen!Nameless
  <2>2. im["id"] = 0 /\ im["number"] = 0
    BY <2>1
  <2>3. im.key \in Screen!KeysWhere(st, "id", 0) /\ im.key \in Screen!KeysWhere(st, "number", 0)
    BY <2>1, <2>2 DEF Screen!KeysWhere
  <2>4. im.key \in Screen!Shown(st)
    BY <1>1, <2>1, <2>3
  <2>. QED
    BY <1>5, <2>4 DEF Screen!Shown
<1>. QED
  BY <1>3, <1>5, <1>6 DEF Rooted

(* A store with other placements of the images it has.                     *)
LEMMA Showing ==
  ASSUME NEW st, Sound(st), NEW spots \in SUBSET Spot,
         \A p \in spots : p.key < st.nextKey,
         NEW r, r = [st EXCEPT !.placements = spots]
  PROVE  /\ Sound(r) /\ r.stored = st.stored /\ r.nextKey = st.nextKey /\ r.nextAuto = st.nextAuto
         /\ r.images = st.images /\ r.placements = spots
<1>1. st \in Stores
  BY DEF Sound
<1>2. /\ r \in Stores /\ r.stored = st.stored /\ r.nextKey = st.nextKey /\ r.nextAuto = st.nextAuto
      /\ r.images = st.images /\ r.placements = spots
  BY <1>1 DEF Stores
<1>. QED
  BY <1>2 DEF Sound

LEMMA Forgetting ==
  ASSUME NEW st, Sound(st), NEW gone, NEW r, r = Screen!Forget(st, gone)
  PROVE  /\ Sound(r) /\ r.stored <= st.stored /\ r.nextKey = st.nextKey /\ r.nextAuto = st.nextAuto
         /\ r.placements = st.placements \ gone /\ Rooted(r)
         /\ \A u : Backed(st, u) => Backed(r, u)
<1>1. PICK less : less = [st EXCEPT !.placements = st.placements \ gone]
  OBVIOUS
<1>2. PICK spots \in SUBSET Spot : spots = st.placements \ gone
  BY DEF Sound, Stores
<1>3. /\ Sound(less) /\ less.stored = st.stored /\ less.nextKey = st.nextKey /\ less.nextAuto = st.nextAuto
      /\ less.images = st.images /\ less.placements = st.placements \ gone
  <2>1. \A p \in spots : p.key < st.nextKey
    BY <1>2 DEF Sound
  <2>. QED
    BY <1>1, <1>2, <2>1, Showing
<1>4. r = Screen!GcAnonymous(less)
  BY <1>1 DEF Screen!Forget
<1>5. \A u : Backed(st, u) => Backed(less, u)
  BY <1>3 DEF Backed
<1>. QED
  BY <1>3, <1>4, <1>5, Collecting

(* An image that lost its name has its key and its size.                   *)
Orphan(im, id) == IF im.id = id THEN [im EXCEPT !.id = 0, !.number = 0] ELSE im

LEMMA OrphanIsImage ==
  ASSUME NEW im \in Image, NEW id
  PROVE  /\ Orphan(im, id) \in Image /\ Orphan(im, id).key = im.key
         /\ Orphan(im, id).size = im.size /\ Orphan(im, id).nameless = im.nameless
<1>1. CASE im.id = id
  <2>1. PICK r : r = [im EXCEPT !.id = 0, !.number = 0]
    OBVIOUS
  <2>2. r \in Image /\ r.key = im.key /\ r.size = im.size /\ r.nameless = im.nameless
    BY <2>1 DEF Image
  <2>. QED
    BY <1>1, <2>1, <2>2 DEF Orphan
<1>2. CASE im.id # id
  BY <1>2 DEF Orphan
<1>. QED
  BY <1>1, <1>2

Orphans(S, id) == {Orphan(im, id) : im \in S}

LEMMA OrphanBytes ==
  ASSUME NEW S \in SUBSET Image, IsFiniteSet(S), \A a, b \in S : a.key = b.key => a = b, NEW id
  PROVE  /\ Screen!Bytes(Orphans(S, id)) = Screen!Bytes(S)
         /\ Orphans(S, id) \in SUBSET Image /\ IsFiniteSet(Orphans(S, id))
<1>1. \A s \in SUBSET S : Sized(s)
  BY FS_Subset DEF Sized, Image
<1>2. IsFiniteSet(Orphans(S, id))
  <2>1. PICK f : f = [im \in S |-> Orphan(im, id)]
    OBVIOUS
  <2>2. f \in Surjection(S, Orphans(S, id))
    BY <2>1 DEF Surjection, Orphans
  <2>. QED
    BY <2>2, FS_Surjection
<1>3. /\ Orphans(S, id) \in SUBSET Image
      /\ \A im \in S : Orphan(im, id).key = im.key /\ Orphan(im, id).size = im.size
  BY OrphanIsImage DEF Orphans
<1>4. \A s \in SUBSET S : Orphans(s, id) \in SUBSET Orphans(S, id)
  BY DEF Orphans
<1>5. Sized(Orphans(S, id))
  BY <1>2, <1>3 DEF Sized, Image
<1>6. \A s \in SUBSET S : Sized(Orphans(s, id))
  BY <1>4, <1>5, FS_Subset DEF Sized
<1>. DEFINE T == {s \in SUBSET S : Screen!Bytes(Orphans(s, id)) # Screen!Bytes(s)}
<1>7. T = {}
  <2>. SUFFICES ASSUME T # {} PROVE FALSE
    OBVIOUS
  <2>1. PICK s \in T : \A u \in T : u \subseteq s => u = s
    <3>1. T \subseteq SUBSET S
      OBVIOUS
    <3>. HIDE DEF T
    <3>. QED
      BY <3>1, Smallest
  <2>2. s \in SUBSET S /\ Screen!Bytes(Orphans(s, id)) # Screen!Bytes(s)
    OBVIOUS
  <2>3. CASE s = {}
    <3>1. Orphans(s, id) = {}
      BY <2>3 DEF Orphans
    <3>. QED
      BY <2>2, <2>3, <3>1
  <2>4. CASE s # {}
    <3>1. PICK x \in s : TRUE
      BY <2>4
    <3>2. PICK u : u = s \ {x}
      OBVIOUS
    <3>3. u \in SUBSET S /\ u \subseteq s /\ u # s
      BY <2>2, <3>1, <3>2
    <3>4. Screen!Bytes(Orphans(u, id)) = Screen!Bytes(u)
      BY <2>1, <3>3
    <3>. HIDE DEF T
    <3>5. Screen!Bytes(s) = x.size + Screen!Bytes(u)
      BY <1>1, <2>2, <3>1, <3>2, BytesWithout
    <3>6. PICK o : o = Orphan(x, id)
      OBVIOUS
    <3>7. o \in Orphans(s, id) /\ o.size = x.size
      BY <1>3, <2>2, <3>1, <3>6 DEF Orphans
    <3>8. Orphans(s, id) \ {o} = Orphans(u, id)
      <4>1. ASSUME NEW y \in u PROVE Orphan(y, id) # o
        BY <1>3, <2>2, <3>1, <3>2, <3>6, <4>1
      <4>2. ASSUME NEW y \in s, Orphan(y, id) # o PROVE y \in u
        BY <3>2, <3>6, <4>2
      <4>. QED
        BY <3>3, <4>1, <4>2 DEF Orphans
    <3>9. Screen!Bytes(Orphans(s, id)) = x.size + Screen!Bytes(Orphans(u, id))
      BY <1>6, <2>2, <3>7, <3>8, BytesWithout
    <3>. QED
      BY <2>2, <3>4, <3>5, <3>9
  <2>. QED
    BY <2>3, <2>4
<1>. QED
  BY <1>2, <1>3, <1>7

LEMMA Reusing ==
  ASSUME NEW st, Sound(st), Rooted(st), NEW id, NEW r, r = Screen!Reuse(st, id)
  PROVE  /\ Sound(r) /\ r.stored <= st.stored /\ r.nextKey = st.nextKey /\ r.nextAuto = st.nextAuto
         /\ r.placements = st.placements /\ Rooted(r)
         /\ \A u : Backed(st, u) => Backed(r, u)
<1>1. CASE id = 0
  <2>1. r = st /\ st.stored \in Nat
    BY <1>1 DEF Screen!Reuse, Sound, Stores
  <2>. QED
    BY <2>1
<1>2. CASE id # 0
  <2>1. PICK all : all = Orphans(st.images, id)
    OBVIOUS
  <2>2. PICK mid : mid = [st EXCEPT !.images = all]
    OBVIOUS
  <2>3. r = Screen!GcAnonymous(mid)
    BY <1>2, <2>1, <2>2 DEF Screen!Reuse, Orphans, Orphan
  <2>4. /\ st \in Stores /\ st.images \in SUBSET Image /\ IsFiniteSet(st.images)
        /\ \A a, b \in st.images : a.key = b.key => a = b
    BY DEF Sound, Stores
  <2>5. Screen!Bytes(all) = Screen!Bytes(st.images) /\ all \in SUBSET Image /\ IsFiniteSet(all)
    BY <2>1, <2>4, OrphanBytes
  <2>6. /\ mid \in Stores /\ mid.images = all /\ mid.placements = st.placements
        /\ mid.stored = st.stored /\ mid.nextKey = st.nextKey /\ mid.nextAuto = st.nextAuto
    BY <2>2, <2>4, <2>5 DEF Stores
  <2>7. \A o \in all : \E im \in st.images : o = Orphan(im, id) /\ o.key = im.key
    BY <2>1, <2>4, OrphanIsImage DEF Orphans
  <2>8. \A im \in st.images : \E o \in all : o.key = im.key
    BY <2>1, <2>4, OrphanIsImage DEF Orphans
  <2>9. \A a, b \in all : a.key = b.key => a = b
    BY <2>4, <2>7
  <2>10. \A o \in all : o.key < st.nextKey
    BY <2>7 DEF Sound
  <2>11. Sound(mid)
    BY <2>5, <2>6, <2>9, <2>10 DEF Sound
  <2>12. ASSUME NEW u, Backed(st, u) PROVE Backed(mid, u)
    BY <2>6, <2>8, <2>12 DEF Backed, Screen!KeysOf
  <2>. QED
    BY <2>3, <2>6, <2>11, <2>12, Collecting
<1>. QED
  BY <1>1, <1>2

(* evict's order, and what it takes.                                       *)
Sooners(st, im) == {o \in st.images : Screen!Sooner(st, o, im)}

LEMMA SoonerOrders ==
  ASSUME NEW st, Sound(st), NEW a \in st.images, NEW b \in st.images
  PROVE  /\ a \notin Sooners(st, a)
         /\ a \in Sooners(st, b) => Sooners(st, a) \subseteq Sooners(st, b)
<1>1. \A im \in st.images : im.key \in Nat
  BY DEF Sound, Stores, Image
<1>2. a \notin Sooners(st, a)
  BY <1>1 DEF Sooners, Screen!Sooner
<1>3. ASSUME a \in Sooners(st, b), NEW o \in Sooners(st, a) PROVE o \in Sooners(st, b)
  <2>1. o \in st.images /\ o.key \in Nat /\ a.key \in Nat /\ b.key \in Nat
    BY <1>1, <1>3 DEF Sooners
  <2>2. Screen!Sooner(st, o, a) /\ Screen!Sooner(st, a, b)
    BY <1>3 DEF Sooners
  <2>3. Screen!Sooner(st, o, b)
    BY <2>1, <2>2 DEF Screen!Sooner
  <2>. QED
    BY <2>1, <2>3 DEF Sooners
<1>. QED
  BY <1>2, <1>3

LEMMA EnoughGoes ==
  ASSUME MaxStore \in Nat, NEW st, Sound(st)
  PROVE  st.stored - Screen!Bytes(Screen!Evicted(st)) <= MaxStore
<1>1. Sized(st.images) /\ st.stored = Screen!Bytes(st.images) /\ IsFiniteSet(st.images)
  BY SoundSized DEF Sound
<1>2. PICK gone : gone = Screen!Evicted(st)
  OBVIOUS
<1>3. gone = {im \in st.images : st.stored - Screen!Bytes(Sooners(st, im)) > MaxStore}
  BY <1>2 DEF Screen!Evicted, Sooners
<1>4. CASE gone = st.images
  <2>1. Screen!Bytes(st.images) \in Nat
    BY <1>1, BytesNat
  <2>. QED
    BY <1>1, <1>2, <1>4, <2>1
<1>5. CASE gone # st.images
  <2>. DEFINE T == {Sooners(st, im) : im \in st.images \ gone}
  <2>1. T \subseteq SUBSET st.images /\ T # {}
    BY <1>3, <1>5 DEF Sooners
  <2>2. PICK s \in T : \A u \in T : u \subseteq s => u = s
    <3>. HIDE DEF T
    <3>. QED
      BY <1>1, <2>1, Smallest
  <2>3. PICK im \in st.images \ gone : s = Sooners(st, im)
    OBVIOUS
  <2>4. ASSUME NEW o \in Sooners(st, im), o \notin gone PROVE FALSE
    <3>1. o \in st.images
      BY <2>4 DEF Sooners
    <3>2. Sooners(st, o) \in T
      BY <2>4, <3>1
    <3>. HIDE DEF T
    <3>3. Sooners(st, o) \subseteq Sooners(st, im) /\ o \notin Sooners(st, o)
      BY <2>4, <3>1, SoonerOrders
    <3>. QED
      BY <2>2, <2>3, <2>4, <3>2, <3>3
  <2>. HIDE DEF T
  <2>5. Sooners(st, im) \in SUBSET gone /\ gone \in SUBSET st.images
    BY <1>3, <2>4
  <2>6. Sized(gone)
    BY <1>1, <2>5, FS_Subset DEF Sized
  <2>7. /\ Screen!Bytes(Sooners(st, im)) <= Screen!Bytes(gone)
        /\ Screen!Bytes(Sooners(st, im)) \in Nat /\ Screen!Bytes(gone) \in Nat
    BY <2>5, <2>6, BytesPart
  <2>8. Screen!Bytes(st.images) \in Nat
    BY <1>1, BytesNat
  <2>9. ~(st.stored - Screen!Bytes(Sooners(st, im)) > MaxStore)
    BY <1>3, <2>3
  <2>. QED
    BY <1>1, <1>2, <2>7, <2>8, <2>9
<1>. QED
  BY <1>4, <1>5

LEMMA Evicting ==
  ASSUME MaxStore \in Nat, NEW st, Sound(st), NEW r, r = Screen!Evict(st)
  PROVE  /\ Sound(r) /\ r.stored <= MaxStore /\ r.nextKey = st.nextKey /\ r.nextAuto = st.nextAuto
         /\ r.images \subseteq st.images /\ r.placements \subseteq st.placements
         /\ Rooted(st) => Rooted(r)
         /\ \A u : Backed(st, u) => Backed(r, u)
         /\ (\A im \in Screen!Evicted(st) : im.key \notin Screen!Shown(st)) => r.placements = st.placements
<1>1. PICK gone : gone = Screen!Evicted(st)
  OBVIOUS
<1>2. PICK rest : rest = st.images \ gone
  OBVIOUS
<1>3. PICK spots : spots = {p \in st.placements : p.key \notin Screen!KeysOf(gone)}
  OBVIOUS
<1>4. PICK bytes : bytes = st.stored - Screen!Bytes(gone)
  OBVIOUS
<1>5. /\ st \in Stores /\ st.images \in SUBSET Image /\ st.placements \in SUBSET Spot
      /\ gone \in SUBSET st.images /\ rest \in SUBSET st.images /\ spots \in SUBSET st.placements
  BY <1>1, <1>2, <1>3 DEF Sound, Stores, Screen!Evicted
<1>6. bytes \in Nat /\ bytes = Screen!Bytes(rest) /\ bytes <= MaxStore
  <2>1. /\ Screen!Bytes(st.images \ gone) \in Nat
        /\ Screen!Bytes(st.images \ gone) = Screen!Bytes(st.images) - Screen!Bytes(gone)
    BY <1>5, SoundSized, BytesPart
  <2>2. bytes <= MaxStore
    BY <1>1, <1>4, EnoughGoes
  <2>. QED
    BY <1>2, <1>4, <2>1, <2>2 DEF Sound
<1>7. r = [st EXCEPT !.images = rest, !.stored = bytes, !.placements = spots]
  BY <1>1, <1>2, <1>3, <1>4 DEF Screen!Evict
<1>8. /\ r \in Stores /\ r.images = rest /\ r.stored = bytes /\ r.placements = spots
      /\ r.nextKey = st.nextKey /\ r.nextAuto = st.nextAuto
  BY <1>5, <1>6, <1>7 DEF Stores
<1>9. IsFiniteSet(rest)
  BY <1>5, FS_Subset DEF Sound
<1>10. Sound(r)
  BY <1>5, <1>6, <1>8, <1>9 DEF Sound
<1>11. ASSUME Rooted(st) PROVE Rooted(r)
  <2>. SUFFICES ASSUME NEW im \in rest, Screen!Nameless(im), ~im.nameless
                PROVE  im.key \in Screen!Shown(r)
    BY <1>8 DEF Rooted
  <2>1. im \in st.images /\ im \notin gone
    BY <1>2
  <2>2. PICK p \in st.placements : p.key = im.key
    BY <1>11, <2>1 DEF Rooted, Screen!Shown
  <2>3. im.key \notin Screen!KeysOf(gone)
    BY <1>5, <2>1 DEF Screen!KeysOf, Sound
  <2>4. p \in spots
    BY <1>3, <2>2, <2>3
  <2>. QED
    BY <1>8, <2>2, <2>4 DEF Screen!Shown
<1>12. ASSUME NEW u, Backed(st, u) PROVE Backed(r, u)
  BY <1>2, <1>3, <1>8, <1>12 DEF Backed, Screen!KeysOf
<1>13. ASSUME \A im \in gone : im.key \notin Screen!Shown(st) PROVE spots = st.placements
  BY <1>3, <1>13 DEF Screen!KeysOf, Screen!Shown
<1>. QED
  BY <1>1, <1>5, <1>6, <1>8, <1>10, <1>11, <1>12, <1>13

(* A new image: it has a key nobody has, and nothing shows it yet.         *)
Fits(st) == Sound(st) /\ Rooted(st) /\ st.stored <= MaxStore
Fresh(image, st) ==
  image \in Image /\ image.key = st.nextKey /\ (Screen!Nameless(image) => image.nameless)
Grown(st, image, auto) ==
  [st EXCEPT !.images = @ \cup {image}, !.stored = @ + image.size,
             !.nextKey = image.key + 1, !.nextAuto = auto]

LEMMA Arriving ==
  ASSUME MaxStore \in Nat, NEW st, Fits(st), NEW image, Fresh(image, st), NEW auto \in Nat,
         NEW r, r = Grown(st, image, auto)
  PROVE  /\ Sound(r) /\ Rooted(r) /\ \A u : Backed(st, u) => Backed(r, u)
         /\ r.placements = st.placements /\ r.nextKey = st.nextKey + 1
         /\ image.key \notin Screen!Shown(r)
         /\ \A im \in Screen!Evicted(r) : im.key \notin Screen!Shown(r)
<1>1. /\ Sound(st) /\ Rooted(st) /\ st.stored <= MaxStore
      /\ image \in Image /\ image.key = st.nextKey /\ (Screen!Nameless(image) => image.nameless)
  BY DEF Fits, Fresh
<1>2. PICK all, bytes, next :
         all = st.images \cup {image} /\ bytes = st.stored + image.size /\ next = image.key + 1
  OBVIOUS
<1>3. /\ st \in Stores /\ st.images \in SUBSET Image /\ st.placements \in SUBSET Spot
      /\ st.stored \in Nat /\ st.nextKey \in Nat /\ image.key \in Nat /\ image.size \in Nat
      /\ all \in SUBSET Image
  BY <1>1, <1>2 DEF Sound, Stores, Image
<1>4. bytes \in Nat /\ next \in Nat
  BY <1>1, <1>2, <1>3
<1>5. r = [st EXCEPT !.images = all, !.stored = bytes, !.nextKey = next, !.nextAuto = auto]
  BY <1>2 DEF Grown
<1>6. /\ r \in Stores /\ r.images = all /\ r.placements = st.placements /\ r.stored = bytes
      /\ r.nextKey = next
  BY <1>3, <1>4, <1>5 DEF Stores
<1>7. \A im \in st.images : im.key \in Nat /\ im.key < image.key
  BY <1>1, <1>2, <1>3 DEF Sound, Image
<1>8. \A p \in st.placements : p.key \in Nat /\ p.key < image.key
  BY <1>1, <1>2, <1>3 DEF Sound, Spot
<1>9. image \notin st.images /\ all \ {image} = st.images
  BY <1>1, <1>2, <1>3, <1>7
<1>10. IsFiniteSet(all)
  BY <1>1, <1>2, FS_AddElement DEF Sound
<1>11. Sized(all)
  BY <1>1, <1>2, <1>3, <1>10 DEF Sized, Image
<1>12. Screen!Bytes(all) = bytes
  <2>1. image \in all
    BY <1>1, <1>2
  <2>2. Screen!Bytes(all) = image.size + Screen!Bytes(st.images)
    BY <1>9, <1>11, <2>1, BytesWithout
  <2>. QED
    BY <1>1, <1>2, <1>3, <1>4, <2>2 DEF Sound
<1>13. Sound(r)
  <2>1. \A a, b \in all : a.key = b.key => a = b
    BY <1>1, <1>2, <1>3, <1>7 DEF Sound
  <2>2. \A im \in all : im.key < next
    BY <1>1, <1>2, <1>3, <1>7
  <2>3. \A p \in st.placements : p.key < next
    BY <1>1, <1>2, <1>3, <1>8
  <2>. QED
    BY <1>1, <1>2, <1>6, <1>10, <1>12, <2>1, <2>2, <2>3 DEF Sound
<1>14. Screen!Shown(r) = Screen!Shown(st) /\ image.key \notin Screen!Shown(r)
  BY <1>1, <1>2, <1>3, <1>6, <1>8 DEF Screen!Shown
<1>15. Rooted(r)
  BY <1>1, <1>2, <1>6, <1>14 DEF Rooted
<1>16. ASSUME NEW u, Backed(st, u) PROVE Backed(r, u)
  BY <1>1, <1>2, <1>6, <1>16 DEF Backed, Screen!KeysOf
<1>17. ASSUME NEW im \in all, im.key \in Screen!Shown(r) PROVE im \notin Screen!Evicted(r)
  <2>1. PICK s : s = Sooners(r, im)
    BY <1>1, <1>2
  <2>2. image \in s /\ s \in SUBSET all
    BY <1>1, <1>2, <1>6, <1>14, <1>17, <2>1 DEF Sooners, Screen!Sooner
  <2>3. Sized(s) /\ Sized(s \ {image})
    BY <1>11, <2>2, FS_Subset DEF Sized
  <2>4. image.size <= Screen!Bytes(s) /\ Screen!Bytes(s) \in Nat
    <3>1. Screen!Bytes(s) = image.size + Screen!Bytes(s \ {image})
      BY <2>2, <2>3, BytesWithout
    <3>2. PICK rest \in Nat : rest = Screen!Bytes(s \ {image})
      BY <2>3, BytesNat
    <3>. QED
      BY <1>1, <1>2, <1>3, <3>1, <3>2
  <2>5. ~(bytes - Screen!Bytes(Sooners(r, im)) > MaxStore)
    BY <1>1, <1>2, <1>3, <1>4, <2>1, <2>4
  <2>. QED
    BY <1>1, <1>2, <1>6, <2>5 DEF Screen!Evicted, Sooners
<1>18. Screen!Evicted(r) \subseteq all
  BY <1>1, <1>2, <1>6 DEF Screen!Evicted
<1>. QED
  BY <1>1, <1>2, <1>3, <1>6, <1>13, <1>14, <1>15, <1>16, <1>17, <1>18

(* A placement, at the cursor.                                             *)
LEMMA Placing ==
  ASSUME screen \in Surface, NEW st, Sound(st), NEW c, c.tag \in Nat, c.rows \in Nat,
         NEW key \in Nat, key < st.nextKey, NEW r, r = Screen!Place(st, c, key)
  PROVE  /\ Sound(r) /\ r.stored = st.stored /\ r.nextKey = st.nextKey /\ r.nextAuto = st.nextAuto
         /\ Rooted(st) => Rooted(r)
         /\ \A u : Backed(st, u) /\ key \in Screen!KeysOf(st.images) \cup u => Backed(r, u)
         /\ key \notin Screen!Shown(st) => st.placements \subseteq r.placements
<1>1. PICK spot : spot = [key |-> key, tag |-> c.tag, line |-> Screen!Anchor(screen),
                          rows |-> c.rows, alt |-> screen.alt]
  OBVIOUS
<1>2. spot \in Spot /\ spot.key = key
  <2>1. Screen!Anchor(screen) \in Int /\ screen.alt \in BOOLEAN
    BY DEF Surface, Screen!Anchor, Screen!AbsTop, Screen!LenNow
  <2>. QED
    BY <1>1, <2>1 DEF Spot
<1>3. PICK others : others = {p \in st.placements : ~(c.tag # 0 /\ p.key = key /\ p.tag = c.tag)}
  OBVIOUS
<1>4. PICK spots \in SUBSET Spot : spots = others \cup {spot}
  BY <1>2, <1>3 DEF Sound, Stores
<1>5. r = [st EXCEPT !.placements = spots]
  BY <1>1, <1>3, <1>4 DEF Screen!Place
<1>6. \A p \in spots : p.key < st.nextKey
  BY <1>2, <1>3, <1>4 DEF Sound
<1>7. /\ Sound(r) /\ r.stored = st.stored /\ r.nextKey = st.nextKey /\ r.nextAuto = st.nextAuto
      /\ r.images = st.images /\ r.placements = spots
  BY <1>5, <1>6, Showing
<1>8. Screen!Shown(st) \subseteq Screen!Shown(r)
  BY <1>2, <1>3, <1>4, <1>7 DEF Screen!Shown
<1>9. Rooted(st) => Rooted(r)
  BY <1>7, <1>8 DEF Rooted
<1>10. ASSUME NEW u, Backed(st, u), key \in Screen!KeysOf(st.images) \cup u PROVE Backed(r, u)
  BY <1>2, <1>3, <1>4, <1>7, <1>10 DEF Backed
<1>11. key \notin Screen!Shown(st) => st.placements \subseteq r.placements
  BY <1>3, <1>4, <1>7 DEF Screen!Shown
<1>. QED
  BY <1>7, <1>9, <1>10, <1>11

LEMMA Pruning ==
  ASSUME NEW st, Sound(st), Rooted(st), NEW sc, NEW r, r = Screen!Pruned(st, sc)
  PROVE  /\ Sound(r) /\ Rooted(r) /\ r.stored <= st.stored /\ r.nextKey = st.nextKey
         /\ r.placements = st.placements \ {p \in st.placements : Screen!Far(p, sc)}
         /\ \A u : Backed(st, u) => Backed(r, u)
<1>1. PICK far : far = {p \in st.placements : Screen!Far(p, sc)}
  OBVIOUS
<1>2. CASE far = {}
  <2>1. r = st /\ st.stored \in Nat
    BY <1>1, <1>2 DEF Screen!Pruned, Sound, Stores
  <2>. QED
    BY <1>1, <1>2, <2>1
<1>3. CASE far # {}
  <2>1. r = Screen!Forget(st, far)
    BY <1>1, <1>3 DEF Screen!Pruned
  <2>. QED
    BY <1>1, <2>1, Forgetting
<1>. QED
  BY <1>2, <1>3

(* A finite set of images has a last one.                                  *)
LEMMA LastComes ==
  ASSUME NEW S, IsFiniteSet(S), S # {}, \A im \in S : im.key \in Nat
  PROVE  (CHOOSE im \in S : \A other \in S : other.key <= im.key) \in S
<1>. DEFINE T == {s \in SUBSET S : s # {} /\ ~\E im \in s : \A other \in s : other.key <= im.key}
<1>1. T = {}
  <2>. SUFFICES ASSUME T # {} PROVE FALSE
    OBVIOUS
  <2>1. PICK s \in T : \A v \in T : v \subseteq s => v = s
    <3>1. T \subseteq SUBSET S
      OBVIOUS
    <3>. HIDE DEF T
    <3>. QED
      BY <3>1, Smallest
  <2>2. s \subseteq S /\ s # {} /\ ~\E im \in s : \A other \in s : other.key <= im.key
    OBVIOUS
  <2>3. PICK a \in s : TRUE
    BY <2>2
  <2>4. PICK less : less = s \ {a}
    OBVIOUS
  <2>5. less \in SUBSET S /\ less # s /\ less \subseteq s
    BY <2>2, <2>3, <2>4
  <2>6. less \notin T
    BY <2>1, <2>5
  <2>7. CASE less = {}
    BY <2>2, <2>3, <2>4, <2>7
  <2>8. CASE less # {}
    <3>1. PICK im \in less : \A other \in less : other.key <= im.key
      BY <2>5, <2>6, <2>8
    <3>2. im.key \in Nat /\ a.key \in Nat /\ im \in s /\ \A other \in s : other.key \in Nat
      BY <2>2, <2>3, <2>4, <3>1
    <3>3. CASE a.key <= im.key
      BY <2>2, <2>3, <2>4, <3>1, <3>2, <3>3
    <3>4. CASE im.key <= a.key
      BY <2>2, <2>3, <2>4, <3>1, <3>2, <3>4
    <3>. QED
      BY <3>2, <3>3, <3>4
  <2>. QED
    BY <2>7, <2>8
<1>2. S \in SUBSET S
  OBVIOUS
<1>3. \E im \in S : \A other \in S : other.key <= im.key
  BY <1>1, <1>2
<1>. QED
  BY <1>3

(* What every step has to keep, of a store and the keys evicted on arrival. *)
Holds(st, u) == Sound(st) /\ st.stored <= MaxStore /\ Backed(st, u) /\ Rooted(st)

ShowInv ==
  /\ Holds(store, unlucky)
  /\ pending # <<>> => pending[1].ctrl \in Screen!Ctrl /\ pending[1].size \in Nat

Budgets ==
  /\ MaxStore \in Nat /\ MaxImage \in Nat
  /\ Ids \subseteq Nat \ {0} /\ Numbers \subseteq Nat \ {0} /\ Tags \subseteq Nat \ {0}

LEMMA CtrlNumbers ==
  ASSUME Budgets, Lines, NEW c \in Screen!Ctrl
  PROVE  /\ c.id \in Nat /\ c.number \in Nat /\ c.tag \in Nat /\ c.rows \in Nat \ {0}
         /\ c.show \in BOOLEAN
<1>1. /\ c.id \in Ids \cup {0} /\ c.number \in Numbers \cup {0} /\ c.tag \in Tags \cup {0}
      /\ c.rows \in Heights /\ c.show \in BOOLEAN
  BY DEF Screen!Ctrl
<1>2. c.id \in Nat /\ c.number \in Nat /\ c.tag \in Nat
  <2>1. \A x \in Ids \cup {0} : x \in Nat
    BY DEF Budgets
  <2>2. \A x \in Numbers \cup {0} : x \in Nat
    BY DEF Budgets
  <2>3. \A x \in Tags \cup {0} : x \in Nat
    BY DEF Budgets
  <2>. QED
    BY <1>1, <2>1, <2>2, <2>3
<1>3. c.rows \in Nat \ {0}
  BY <1>1 DEF Lines
<1>. QED
  BY <1>1, <1>2, <1>3

(* The end of a read: it only prunes.                                      *)
LEMMA ReadsHold ==
  ASSUME Budgets, NEW st, NEW u, Holds(st, u), NEW n, Screen!Reads(st, n)
  PROVE  /\ Holds(store', u) /\ store'.nextKey = st.nextKey
         /\ \A p \in st.placements : p \in store'.placements \/ Screen!Far(p, screen')
<1>1. PICK sc : sc = Screen!Feed(screen, n)
  OBVIOUS
<1>2. screen' = sc /\ store' = Screen!Pruned(st, sc)
  BY <1>1 DEF Screen!Reads
<1>3. PICK r : r = store'
  OBVIOUS
<1>4. Sound(st) /\ Rooted(st) /\ Backed(st, u) /\ st.stored <= MaxStore
  BY DEF Holds
<1>5. /\ Sound(r) /\ Rooted(r) /\ r.stored <= st.stored /\ r.nextKey = st.nextKey
      /\ r.placements = st.placements \ {p \in st.placements : Screen!Far(p, sc)}
      /\ \A w : Backed(st, w) => Backed(r, w)
  BY <1>2, <1>3, <1>4, Pruning
<1>6. r.stored <= MaxStore
  <2>1. r.stored \in Nat /\ st.stored \in Nat
    BY <1>4, <1>5 DEF Sound, Stores
  <2>. QED
    BY <1>4, <1>5, <2>1 DEF Budgets
<1>7. Holds(r, u)
  BY <1>4, <1>5, <1>6 DEF Holds
<1>. QED
  BY <1>2, <1>3, <1>5, <1>7

(* A placement goes, and the images only it kept.                          *)
LEMMA ForgetHolds ==
  ASSUME Budgets, NEW st, NEW u, Holds(st, u), NEW gone, NEW r, r = Screen!Forget(st, gone)
  PROVE  Holds(r, u) /\ r.nextKey = st.nextKey
<1>1. Sound(st) /\ Rooted(st) /\ Backed(st, u) /\ st.stored <= MaxStore
  BY DEF Holds
<1>2. /\ Sound(r) /\ r.stored <= st.stored /\ r.nextKey = st.nextKey /\ Rooted(r) /\ Backed(r, u)
  BY <1>1, Forgetting
<1>3. r.stored \in Nat /\ st.stored \in Nat
  BY <1>1, <1>2 DEF Sound, Stores
<1>4. r.stored <= MaxStore
  BY <1>1, <1>2, <1>3 DEF Budgets
<1>. QED
  BY <1>1, <1>2, <1>4 DEF Holds

LEMMA DeleteHolds ==
  ASSUME Budgets, Holds(store, unlucky), NEW hit, NEW freed, Screen!DeleteBy(hit, freed)
  PROVE  Holds(store', unlucky) /\ store'.nextKey = store.nextKey
<1>1. PICK spots : spots = store.placements \ hit
  OBVIOUS
<1>2. PICK less : less = [store EXCEPT !.placements = spots]
  OBVIOUS
<1>3. PICK rest : rest = Screen!RemoveImages(less, freed)
  OBVIOUS
<1>4. PICK r : r = store'
  OBVIOUS
<1>5. r = Screen!GcAnonymous(rest)
  BY <1>1, <1>2, <1>3, <1>4 DEF Screen!DeleteBy
<1>6. Sound(store) /\ Rooted(store) /\ Backed(store, unlucky) /\ store.stored <= MaxStore
  BY DEF Holds
<1>7. spots \in SUBSET Spot /\ \A p \in spots : p.key < store.nextKey
  BY <1>1, <1>6 DEF Sound, Stores
<1>8. /\ Sound(less) /\ less.stored = store.stored /\ less.nextKey = store.nextKey
      /\ less.images = store.images /\ less.placements = spots
  BY <1>2, <1>6, <1>7, Showing
<1>9. Backed(less, unlucky)
  BY <1>1, <1>6, <1>8 DEF Backed
<1>10. Sound(rest) /\ rest.stored <= less.stored /\ rest.nextKey = less.nextKey /\ Backed(rest, unlucky)
  BY <1>3, <1>8, <1>9, Removing
<1>11. /\ Sound(r) /\ r.stored <= rest.stored /\ r.nextKey = rest.nextKey /\ Rooted(r) /\ Backed(r, unlucky)
  BY <1>5, <1>10, Collecting
<1>12. r.stored \in Nat /\ rest.stored \in Nat /\ store.stored \in Nat
  BY <1>6, <1>10, <1>11 DEF Sound, Stores
<1>13. r.stored <= MaxStore
  BY <1>6, <1>8, <1>10, <1>11, <1>12 DEF Budgets
<1>14. Holds(r, unlucky)
  BY <1>11, <1>13 DEF Holds
<1>. QED
  BY <1>4, <1>8, <1>10, <1>11, <1>14

(* An upload is complete: the id changes hands, the image comes, what is   *)
(* too much goes, the image is shown and the read ends.                    *)
LEMMA FinishHolds ==
  ASSUME Budgets, Lines, Counted, ShowInv, NEW c \in Screen!Ctrl, NEW size \in Nat, Screen!Finish(c, size)
  PROVE  /\ Holds(store', unlucky')
         /\ \A p \in store.placements : p \in store'.placements \/ Screen!Far(p, screen')
<1>0. /\ c.id \in Nat /\ c.number \in Nat /\ c.tag \in Nat /\ c.rows \in Nat \ {0}
      /\ Sound(store) /\ Rooted(store) /\ Backed(store, unlucky) /\ store.stored <= MaxStore
  BY CtrlNumbers DEF ShowInv, Holds
<1>1. PICK named : named = Screen!Reuse(store, c.id)
  OBVIOUS
<1>2. /\ Sound(named) /\ named.stored <= store.stored /\ named.nextKey = store.nextKey
      /\ named.nextAuto = store.nextAuto /\ named.placements = store.placements /\ Rooted(named)
      /\ Backed(named, unlucky)
  BY <1>0, <1>1, Reusing
<1>3. PICK auto : auto = (c.id = 0 /\ c.number # 0)
  OBVIOUS
<1>4. PICK key : key = store.nextKey
  OBVIOUS
<1>5. store.nextKey \in Nat /\ store.nextAuto \in Nat /\ store.stored \in Nat /\ named.stored \in Nat
  BY <1>0, <1>2 DEF Sound, Stores
<1>6. PICK id : id = IF auto THEN store.nextAuto + 1 ELSE c.id
  OBVIOUS
<1>7. PICK image : image = [key |-> key, id |-> id, number |-> c.number, size |-> size,
                            nameless |-> c.id = 0 /\ c.number = 0]
  OBVIOUS
<1>8. image \in Image /\ image.key = key /\ image.size = size
  <2>1. id \in Nat /\ key \in Nat
    BY <1>0, <1>4, <1>5, <1>6
  <2>. QED
    BY <1>0, <1>7, <2>1 DEF Image
<1>9. Screen!Nameless(image) => image.nameless
  <2>. SUFFICES ASSUME image.id = 0, image.number = 0 PROVE image.nameless
    BY DEF Screen!Nameless
  <2>1. id = 0 /\ c.number = 0
    BY <1>7
  <2>2. c.id = 0
    BY <1>3, <1>6, <2>1
  <2>. QED
    BY <1>7, <2>1, <2>2
<1>10. PICK next : next = IF auto THEN named.nextAuto + 1 ELSE named.nextAuto
  OBVIOUS
<1>11. next \in Nat
  BY <1>2, <1>5, <1>10
<1>12. PICK more : more = Grown(named, image, next)
  OBVIOUS
<1>13. PICK r : r = Screen!Evict(more)
  OBVIOUS
<1>14. /\ Screen!Reads(IF c.show THEN Screen!Place(r, c, key) ELSE r, Screen!Behind(c))
       /\ unlucky' = IF key \in Screen!KeysOf(r.images) THEN unlucky ELSE unlucky \cup {key}
  BY <1>1, <1>3, <1>4, <1>6, <1>7, <1>8, <1>10, <1>12, <1>13 DEF Screen!Finish, Grown
<1>15. /\ Sound(more) /\ Rooted(more) /\ Backed(more, unlucky)
       /\ more.placements = named.placements /\ more.nextKey = named.nextKey + 1
       /\ image.key \notin Screen!Shown(more)
       /\ \A im \in Screen!Evicted(more) : im.key \notin Screen!Shown(more)
  <2>1. named.stored <= MaxStore /\ MaxStore \in Nat
    BY <1>0, <1>2, <1>5 DEF Budgets
  <2>2. image.key = named.nextKey
    BY <1>2, <1>4, <1>8
  <2>3. Fits(named) /\ Fresh(image, named)
    BY <1>2, <1>8, <1>9, <2>1, <2>2 DEF Fits, Fresh
  <2>4. /\ Sound(more) /\ Rooted(more) /\ \A w : Backed(named, w) => Backed(more, w)
        /\ more.placements = named.placements /\ more.nextKey = named.nextKey + 1
        /\ image.key \notin Screen!Shown(more)
        /\ \A im \in Screen!Evicted(more) : im.key \notin Screen!Shown(more)
    BY <1>11, <1>12, <2>1, <2>3, Arriving
  <2>. QED
    BY <1>2, <2>4
<1>16. /\ Sound(r) /\ r.stored <= MaxStore /\ r.nextKey = more.nextKey
       /\ Rooted(r) /\ Backed(r, unlucky) /\ r.placements = more.placements
  BY <1>13, <1>15, Evicting DEF Budgets
<1>17. PICK u : u = unlucky'
  OBVIOUS
<1>18. Backed(r, u) /\ key \in Screen!KeysOf(r.images) \cup u
  BY <1>14, <1>16, <1>17 DEF Backed
<1>19. key \in Nat /\ key < r.nextKey /\ key \notin Screen!Shown(r)
  BY <1>2, <1>4, <1>5, <1>8, <1>15, <1>16 DEF Screen!Shown
<1>20. PICK st : st = IF c.show THEN Screen!Place(r, c, key) ELSE r
  OBVIOUS
<1>21. Holds(st, u) /\ store.placements \subseteq st.placements
  <2>1. CASE ~c.show
    BY <1>2, <1>15, <1>16, <1>18, <1>20, <2>1 DEF Holds
  <2>2. CASE c.show
    <3>1. screen \in Surface /\ c.rows \in Nat
      BY <1>0 DEF Counted
    <3>2. /\ Sound(st) /\ st.stored = r.stored /\ Rooted(st) /\ Backed(st, u)
          /\ r.placements \subseteq st.placements
      BY <1>0, <1>16, <1>18, <1>19, <1>20, <2>2, <3>1, Placing
    <3>. QED
      BY <1>2, <1>15, <1>16, <3>2 DEF Holds
  <2>. QED
    BY <2>1, <2>2
<1>22. Screen!Reads(st, Screen!Behind(c))
  BY <1>14, <1>20
<1>. QED
  BY <1>17, <1>21, <1>22, ReadsHold

LEMMA ShowInvInductive ==
  ASSUME Budgets, Lines, Counted, ShowInv, [Screen!Next]_(Screen!vars)
  PROVE  /\ ShowInv'
         /\ store'.nextKey # store.nextKey =>
              \A p \in store.placements : p \in store'.placements \/ Screen!Far(p, screen')
<1>0. /\ Holds(store, unlucky)
      /\ pending # <<>> => pending[1].ctrl \in Screen!Ctrl /\ pending[1].size \in Nat
  BY DEF ShowInv
<1>1. CASE UNCHANGED <<store, unlucky>> /\ (pending' = pending \/ pending' = <<>>)
  BY <1>0, <1>1 DEF ShowInv
<1>2. CASE Screen!Text
  <2>1. PICK n : Screen!Reads(store, n)
    BY <1>2 DEF Screen!Text
  <2>2. Holds(store', unlucky) /\ store'.nextKey = store.nextKey
    BY <1>0, <2>1, ReadsHold
  <2>. QED
    BY <1>0, <1>2, <2>2 DEF Screen!Text, ShowInv
<1>3. CASE Screen!Home \/ Screen!EnterAlt \/ UNCHANGED Screen!vars
  BY <1>1, <1>3 DEF Screen!Home, Screen!EnterAlt, Screen!vars
<1>4. CASE Screen!Erase
  <2>1. store' = Screen!Forget(store, Screen!Visible) /\ pending' = pending /\ unlucky' = unlucky
    BY <1>4 DEF Screen!Erase
  <2>2. Holds(store', unlucky) /\ store'.nextKey = store.nextKey
    BY <1>0, <2>1, ForgetHolds
  <2>. QED
    BY <1>0, <2>1, <2>2 DEF ShowInv
<1>5. CASE Screen!LeaveAlt
  <2>1. PICK less : less = Screen!Forget(store, {p \in store.placements : p.alt})
    OBVIOUS
  <2>2. store' = Screen!Pruned(less, screen') /\ pending' = pending /\ unlucky' = unlucky
    BY <1>5, <2>1 DEF Screen!LeaveAlt
  <2>3. Holds(less, unlucky) /\ less.nextKey = store.nextKey
    BY <1>0, <2>1, ForgetHolds
  <2>4. PICK far : far = {p \in less.placements : Screen!Far(p, screen')}
    OBVIOUS
  <2>5. store' = less \/ store' = Screen!Forget(less, far)
    BY <2>2, <2>4 DEF Screen!Pruned
  <2>6. Holds(store', unlucky) /\ store'.nextKey = store.nextKey
    BY <2>3, <2>5, ForgetHolds
  <2>. QED
    BY <1>0, <2>2, <2>6 DEF ShowInv
<1>6. CASE Screen!Delete
  <2>1. PICK hit, freed : Screen!DeleteBy(hit, freed)
    BY <1>6 DEF Screen!Delete
  <2>2. Holds(store', unlucky) /\ store'.nextKey = store.nextKey
    BY <1>0, <2>1, DeleteHolds
  <2>. QED
    BY <1>0, <1>6, <2>2 DEF Screen!Delete, ShowInv
<1>7. ASSUME NEW c \in Screen!Ctrl, NEW size \in Nat, Screen!Keep(c, size)
      PROVE  ShowInv' /\ store' = store
  <2>1. pending'[1].ctrl = c /\ pending'[1].size = size
    BY <1>7 DEF Screen!Keep
  <2>. QED
    BY <1>0, <1>7, <2>1 DEF Screen!Keep, ShowInv
<1>8. ASSUME NEW c \in Screen!Ctrl, NEW size \in Nat, Screen!Finish(c, size),
             pending' = pending \/ pending' = <<>>
      PROVE  /\ ShowInv'
             /\ \A p \in store.placements : p \in store'.placements \/ Screen!Far(p, screen')
  <2>1. /\ Holds(store', unlucky')
        /\ \A p \in store.placements : p \in store'.placements \/ Screen!Far(p, screen')
    BY <1>8, FinishHolds
  <2>. QED
    BY <1>0, <1>8, <2>1 DEF ShowInv
<1>9. ASSUME NEW c \in Screen!Ctrl, NEW size \in 1 .. MaxImage, Screen!Transmit(c, size)
      PROVE  /\ ShowInv'
             /\ store'.nextKey # store.nextKey =>
                  \A p \in store.placements : p \in store'.placements \/ Screen!Far(p, screen')
  BY <1>7, <1>8, <1>9 DEF Screen!Transmit, Budgets
<1>10. ASSUME NEW size \in 0 .. MaxImage, Screen!Continue(size)
       PROVE  /\ ShowInv'
              /\ store'.nextKey # store.nextKey =>
                   \A p \in store.placements : p \in store'.placements \/ Screen!Far(p, screen')
  <2>1. PICK c : c = pending[1].ctrl
    OBVIOUS
  <2>2. PICK total : total = pending[1].size + size
    OBVIOUS
  <2>3. c \in Screen!Ctrl /\ total \in Nat
    BY <1>0, <1>10, <2>1, <2>2 DEF Screen!Continue, Budgets
  <2>4. \/ Screen!Keep(c, total)
        \/ Screen!Finish(c, total) /\ pending' = <<>>
        \/ pending' = <<>> /\ UNCHANGED <<store, unlucky>>
    BY <1>10, <2>1, <2>2 DEF Screen!Continue
  <2>. QED
    BY <1>1, <1>7, <1>8, <2>3, <2>4
<1>11. ASSUME NEW c \in Screen!Ctrl, Screen!Put(c)
       PROVE  ShowInv' /\ store'.nextKey = store.nextKey
  <2>1. PICK found : found = {im \in store.images : IF c.id # 0 THEN im.id = c.id
                                                    ELSE c.number # 0 /\ im.number = c.number}
    OBVIOUS
  <2>2. PICK newest : newest = CHOOSE im \in found : \A other \in found : other.key <= im.key
    OBVIOUS
  <2>3. PICK st : st = Screen!Place(store, c, newest.key)
    OBVIOUS
  <2>4. /\ found # {} /\ Screen!Reads(st, Screen!Behind(c)) /\ pending' = pending /\ unlucky' = unlucky
    BY <1>11, <2>1, <2>2, <2>3 DEF Screen!Put
  <2>5. found \subseteq store.images /\ IsFiniteSet(found) /\ \A im \in found : im.key \in Nat
    BY <1>0, <2>1, FS_Subset DEF Holds, Sound, Stores, Image
  <2>6. newest \in found
    BY <2>2, <2>4, <2>5, LastComes
  <2>7. PICK key : key = newest.key
    OBVIOUS
  <2>8. key \in Nat /\ key < store.nextKey /\ key \in Screen!KeysOf(store.images) \cup unlucky
    BY <1>0, <2>5, <2>6, <2>7 DEF Holds, Sound, Screen!KeysOf
  <2>9. screen \in Surface /\ c.tag \in Nat /\ c.rows \in Nat
    BY CtrlNumbers DEF Counted
  <2>10. Sound(store) /\ Rooted(store) /\ Backed(store, unlucky) /\ store.stored <= MaxStore
    BY <1>0 DEF Holds
  <2>11. /\ Sound(st) /\ st.stored = store.stored /\ st.nextKey = store.nextKey /\ Rooted(st)
         /\ Backed(st, unlucky)
    BY <2>3, <2>7, <2>8, <2>9, <2>10, Placing
  <2>12. Holds(st, unlucky)
    BY <2>10, <2>11 DEF Holds
  <2>13. Holds(store', unlucky) /\ store'.nextKey = store.nextKey
    BY <2>4, <2>11, <2>12, ReadsHold
  <2>. QED
    BY <1>0, <2>4, <2>13 DEF ShowInv
<1>. QED
  BY <1>2, <1>3, <1>4, <1>5, <1>6, <1>9, <1>10, <1>11 DEF Screen!Next

LEMMA ShowInvStarts == ASSUME Budgets, Screen!Init PROVE ShowInv
<1>1. store = [images |-> {}, placements |-> {}, stored |-> 0, nextKey |-> 1, nextAuto |-> 100]
  BY DEF Screen!Init, Screen!AutoId
<1>2. store \in Stores /\ store.images = {} /\ store.placements = {} /\ store.stored = 0
  BY <1>1 DEF Stores
<1>3. IsFiniteSet(store.images) /\ Screen!Bytes(store.images) = 0
  BY <1>2, FS_EmptySet, BytesStep
<1>4. Sound(store)
  BY <1>2, <1>3 DEF Sound
<1>5. Holds(store, unlucky)
  BY <1>2, <1>4 DEF Holds, Backed, Rooted, Budgets
<1>. QED
  BY <1>5 DEF Screen!Init, ShowInv

LEMMA ShowInvAlways == Spec => []ShowInv /\ []Counted
<1>1. Lines /\ Budgets
  BY TerminalAssumption DEF TerminalAssumption, Lines, Budgets
<1>2. Screen!Init => ShowInv /\ Counted
  BY <1>1, ShowInvStarts, CountedStarts
<1>3. ShowInv /\ Counted /\ [Screen!Next]_(Screen!vars) => (ShowInv /\ Counted)'
  BY <1>1, ShowInvInductive, CountedInductive
<1>. QED
  BY <1>2, <1>3, Scrolls, PTL

(* Whatever is uploaded, shown, replaced, evicted, deleted and erased, in  *)
(* one command or in parts: a placement's image is in the store, unless it *)
(* did not fit in when it came, and what lost its name goes with its last  *)
(* placement (graphics.rs:494-571, 773-814).                               *)
THEOREM StoreHolds == Spec => []StoreHoldsWhatIsShown
<1>1. ShowInv => StoreHoldsWhatIsShown
  BY DEF ShowInv, Holds, Backed, Rooted, StoreHoldsWhatIsShown, Screen!PlacedImagesExist,
         Screen!OrphansAreFreed
<1>. QED
  BY <1>1, ShowInvAlways, PTL

(* An upload takes nothing off the screen: an image shown is evicted only  *)
(* for bytes the images sooner than it do not free, and the new one, which *)
(* nothing shows yet, is among those (graphics.rs:517-537, 795-814).       *)
THEOREM UploadsKeep == Spec => UploadsKeepShown
<1>1. Lines /\ Budgets
  BY TerminalAssumption DEF TerminalAssumption, Lines, Budgets
<1>2. ShowInv /\ Counted /\ [Screen!Next]_(Screen!vars) => [Screen!UploadKeepsShown]_screenVars
  <2>. SUFFICES ASSUME ShowInv, Counted, [Screen!Next]_(Screen!vars) PROVE Screen!UploadKeepsShown
    OBVIOUS
  <2>1. store'.nextKey # store.nextKey =>
          \A p \in store.placements : p \in store'.placements \/ Screen!Far(p, screen')
    BY <1>1, ShowInvInductive
  <2>. QED
    BY <2>1 DEF Screen!UploadKeepsShown
<1>. QED
  BY <1>2, ShowInvAlways, Scrolls, PTL DEF UploadsKeepShown

-----------------------------------------------------------------------------
(* Typing.  The editor, the assembler and the learner are folds over a     *)
(* write, of keys for the one and of bytes for the others.  Between writes *)
(* all three have the same line while it is only typed (Same), and what is *)
(* kept as the prompt is what asked then (Prompted).                       *)

LEMMA UpToAll ==
  ASSUME NEW S, 0 \in S, \A n \in Nat : n \in S => n + 1 \in S
  PROVE  Nat \subseteq S
<1>. SUFFICES ASSUME Nat \ S # {} PROVE FALSE
  OBVIOUS
<1>1. PICK n \in Nat \ S : \A m \in Nat \ S : ~(<<m, n>> \in OpToRel(<, Nat))
  BY NatLessThanWellFounded, WFMin
<1>2. n # 0 /\ n - 1 \in Nat
  OBVIOUS
<1>3. <<n - 1, n>> \in OpToRel(<, Nat)
  BY <1>2 DEF OpToRel
<1>4. n - 1 \in S
  BY <1>1, <1>2, <1>3, Zenon
<1>5. (n - 1) + 1 = n
  OBVIOUS
<1>. QED
  BY <1>2, <1>4, <1>5

(* Folds.  Sequences are folded over sets of their positions, the last of  *)
(* which comes last: such a function there is, for any step that is a      *)
(* function.                                                               *)
Top(S) == CHOOSE x \in S : \A y \in S : x >= y

LEMMA TopIs == ASSUME NEW n \in Nat, NEW S, S \subseteq 1 .. n + 1, n + 1 \in S PROVE Top(S) = n + 1
<1>1. \A x \in S : x \in Nat /\ x <= n + 1
  OBVIOUS
<1>2. \A x \in S : (\A y \in S : x >= y) => x = n + 1
  BY <1>1
<1>3. \A y \in S : n + 1 >= y
  BY <1>1
<1>. QED
  BY <1>2, <1>3 DEF Top

Folds(g, f, base, s, n) ==
  g = [S \in SUBSET (1 .. n) |-> IF S = {} THEN base ELSE f[<<g[S \ {Top(S)}], s[Top(S)]>>]]

Foldable(X, Y, f, base, s, n) ==
  f \in [X \X Y -> X] /\ base \in X /\ n \in Nat /\ \A i \in 1 .. n : s[i] \in Y

LEMMA FoldExists ==
  ASSUME NEW X, NEW Y, NEW f, NEW base, NEW s, NEW n, Foldable(X, Y, f, base, s, n)
  PROVE  \E g : Folds(g, f, base, s, n) /\ \A S \in SUBSET (1 .. n) : g[S] \in X
<1>. DEFINE Fine(g, k) == Folds(g, f, base, s, k) /\ \A S \in SUBSET (1 .. k) : g[S] \in X
            Folded == {k \in Nat : k <= n => \E g : Fine(g, k)}
<1>. f \in [X \X Y -> X] /\ base \in X /\ n \in Nat /\ \A i \in 1 .. n : s[i] \in Y
  BY DEF Foldable
<1>1. 0 \in Folded
  <2>1. PICK g : g = [S \in {{}} |-> base]
    OBVIOUS
  <2>2. SUBSET (1 .. 0) = {{}}
    OBVIOUS
  <2>3. Fine(g, 0)
    BY <2>1, <2>2 DEF Folds
  <2>. QED
    BY <2>3
<1>2. ASSUME NEW k \in Nat, k \in Folded PROVE k + 1 \in Folded
  <2>. SUFFICES ASSUME k + 1 <= n PROVE \E g : Fine(g, k + 1)
    OBVIOUS
  <2>1. PICK g : Fine(g, k)
    BY <1>2
  <2>2. PICK m \in Nat : m = k + 1
    OBVIOUS
  <2>3. s[m] \in Y /\ m \in 1 .. m
    BY <2>2
  <2>4. PICK h : h = [S \in SUBSET (1 .. m) |-> IF m \in S THEN f[<<g[S \ {m}], s[m]>>] ELSE g[S]]
    OBVIOUS
  <2>5. \A S \in SUBSET (1 .. m) : S \ {m} \in SUBSET (1 .. k) /\ (m \notin S => S \in SUBSET (1 .. k) /\ S \ {m} = S)
    BY <2>2
  <2>6. \A S \in SUBSET (1 .. k) : S \in SUBSET (1 .. m) /\ m \notin S /\ g[S] \in X
    BY <2>1, <2>2
  <2>7. \A S \in SUBSET (1 .. k) : h[S] = g[S]
    BY <2>4, <2>6
  <2>8. \A S \in SUBSET (1 .. m) : h[S] \in X
    <3>1. \A x \in X : f[<<x, s[m]>>] \in X
      BY <2>3
    <3>2. \A S \in SUBSET (1 .. m) : m \in S => g[S \ {m}] \in X
      BY <2>5, <2>6
    <3>. QED
      BY <2>4, <2>5, <2>6, <3>1, <3>2
  <2>9. ASSUME NEW S \in SUBSET (1 .. m)
        PROVE  h[S] = IF S = {} THEN base ELSE f[<<h[S \ {Top(S)}], s[Top(S)]>>]
    <3>1. CASE m \in S
      <4>1. Top(S) = m
        BY <2>2, <3>1, TopIs
      <4>2. h[S \ {m}] = g[S \ {m}]
        BY <2>5, <2>7
      <4>. QED
        BY <2>4, <3>1, <4>1, <4>2
    <3>2. CASE m \notin S
      <4>1. S \in SUBSET (1 .. k) /\ h[S] = g[S]
        BY <2>5, <2>7, <3>2
      <4>2. g[S] = IF S = {} THEN base ELSE f[<<g[S \ {Top(S)}], s[Top(S)]>>]
        BY <2>1, <4>1 DEF Folds
      <4>3. PICK T : T = S \ {Top(S)}
        OBVIOUS
      <4>4. T \in SUBSET (1 .. k)
        BY <4>1, <4>3
      <4>5. h[T] = g[T]
        BY <2>7, <4>4
      <4>. QED
        BY <4>1, <4>2, <4>3, <4>5
    <3>. QED
      BY <3>1, <3>2
  <2>10. h = [S \in SUBSET (1 .. m) |-> h[S]]
    BY <2>4
  <2>11. Folds(h, f, base, s, m)
    BY <2>9, <2>10 DEF Folds
  <2>12. Fine(h, m)
    BY <2>8, <2>11
  <2>. QED
    BY <2>2, <2>12
<1>3. Nat \subseteq Folded
  <2>. HIDE DEF Folded
  <2>. QED
    BY <1>1, <1>2, UpToAll
<1>4. n \in Folded /\ n <= n
  BY <1>3
<1>. QED
  BY <1>4

LEMMA FirstOnes ==
  ASSUME NEW n \in Nat, NEW k \in 0 .. n - 1
  PROVE  /\ 1 .. k + 1 \in SUBSET (1 .. n) /\ 1 .. k \in SUBSET (1 .. n) /\ 1 .. k + 1 # {}
         /\ Top(1 .. k + 1) = k + 1 /\ (1 .. k + 1) \ {k + 1} = 1 .. k
<1>1. k \in Nat /\ k + 1 \in 1 .. k + 1 /\ 1 .. k + 1 \subseteq 1 .. k + 1
  OBVIOUS
<1>2. Top(1 .. k + 1) = k + 1
  BY <1>1, TopIs
<1>. QED
  BY <1>2

-----------------------------------------------------------------------------
(* Keys.                                                                   *)
Special == {"enter", "back", "kill", "tab", "esc"}
Key     == Letters \cup Special \cup {"h", "t", "[", "A", "a"}
Sign    == Key \cup {"w", "$", "s", "?"}

KeysAre == Letters \cap Special = {} /\ MaxFeed \in Nat

Line  == [text : Seq(Sign), plain : BOOLEAN]
Rebuilt == [buf : Seq(Key), esc : {"none", "intro", "csi"}, line : Seq(Key)]
Learned == [bytes : Seq(Key), prompt : Seq(Sign), trusted : BOOLEAN, cmd : Seq(Key)]

LEMMA Distinct ==
  ASSUME KeysAre, NEW l \in Letters
  PROVE  /\ <<l>> # <<"enter">> /\ <<l>> # <<"back">> /\ <<l>> # <<"kill">> /\ <<l>> # <<"tab">>
         /\ <<l>> # Typed!Up /\ <<l>> # <<"esc", "a">> /\ <<l>> # <<"h", "t">>
<1>1. l \notin Special
  BY DEF KeysAre
<1>2. \A a : Len(<<a>>) = 1 /\ <<a>>[1] = a
  OBVIOUS
<1>3. Len(Typed!Up) = 3 /\ Len(<<"esc", "a">>) = 2 /\ Len(<<"h", "t">>) = 2
  BY DEF Typed!Up
<1>4. \A a, b : <<a>> = <<b>> => a = b
  OBVIOUS
<1>. QED
  BY <1>1, <1>2, <1>3, <1>4 DEF Special

LEMMA Lengths ==
  /\ \A a : Len(<<a>>) = 1 /\ \A b : Len(<<a, b>>) = 2
  /\ Len(Typed!Up) = 3
BY DEF Typed!Up

(* What a key does to the line of whoever asks.                            *)
LEMMA EditIs ==
  ASSUME KeysAre, NEW e
  PROVE  /\ Typed!Edit(e, <<"enter">>) = e
         /\ Typed!Edit(e, <<"back">>) = [e EXCEPT !.text = Typed!PopChar(e.text)]
         /\ Typed!Edit(e, <<"kill">>) = [e EXCEPT !.text = <<>>]
         /\ Typed!Edit(e, Typed!Up) = [text |-> IF mode = "shell" THEN Typed!Recalled ELSE e.text, plain |-> FALSE]
         /\ Typed!Edit(e, <<"tab">>) = [e EXCEPT !.plain = FALSE]
         /\ Typed!Edit(e, <<"esc", "a">>) = [e EXCEPT !.plain = FALSE]
         /\ Typed!Edit(e, <<"h", "t">>) = [e EXCEPT !.text = e.text \o <<"h", "t">>]
         /\ \A l \in Letters : Typed!Edit(e, <<l>>) = [e EXCEPT !.text = e.text \o <<l>>]
<1>1. \A a, b : <<a>> = <<b>> => a = b
  OBVIOUS
<1>2. <<"enter">> # <<"back">> /\ <<"enter">> # <<"kill">> /\ <<"back">> # <<"kill">> /\ <<"tab">> # <<"enter">>
      /\ <<"tab">> # <<"back">> /\ <<"tab">> # <<"kill">>
  BY <1>1
<1>3. \A a : <<a>> # Typed!Up /\ <<a>> # <<"esc", "a">>
  BY Lengths
<1>4. /\ <<"esc", "a">> # Typed!Up /\ <<"h", "t">> # Typed!Up
      /\ \A a : <<"h", "t">> # <<a>>
  BY Lengths
<1>5. <<"h", "t">> # <<"esc", "a">>
  OBVIOUS
<1>6. \A l \in Letters : /\ <<l>> # <<"enter">> /\ <<l>> # <<"back">> /\ <<l>> # <<"kill">> /\ <<l>> # <<"tab">>
                         /\ <<l>> # Typed!Up /\ <<l>> # <<"esc", "a">>
  BY Distinct
<1>. QED
  BY <1>2, <1>3, <1>4, <1>5, <1>6 DEF Typed!Edit

LEMMA Popped == ASSUME NEW X, NEW s \in Seq(X) PROVE Typed!PopChar(s) \in Seq(X)
<1>1. CASE s = <<>>
  BY <1>1 DEF Typed!PopChar
<1>2. CASE s # <<>>
  <2>1. Len(s) \in Nat \ {0}
    BY <1>2, EmptySeq
  <2>2. SubSeq(s, 1, Len(s) - 1) \in Seq(X)
    BY <2>1
  <2>3. Len(s) > 1 => SubSeq(s, 1, Len(s) - 2) \in Seq(X)
    BY <2>1
  <2>. QED
    BY <1>2, <2>1, <2>2, <2>3 DEF Typed!PopChar, Typed!Front
<1>. QED
  BY <1>1, <1>2

(* What is typed, a piece or a byte at a time.                             *)
Single == {<<l>> : l \in Letters} \cup {<<"enter">>, <<"back">>, <<"kill">>, <<"tab">>}

LEMMA PiecesAre ==
  ASSUME NEW p \in Typed!Pieces
  PROVE  p \in Single \/ p = <<"h", "t">> \/ p = Typed!Up \/ p = <<"esc", "a">>
<1>1. \A c \in {"enter", "back", "kill", "tab"} : <<c>> \in Single
  BY DEF Single
<1>. QED
  BY <1>1 DEF Typed!Pieces, Single

LEMMA EditTyped ==
  ASSUME KeysAre, NEW e \in Line, NEW p \in Typed!Pieces
  PROVE  Typed!Edit(e, p) \in Line
<1>1. e.text \in Seq(Sign) /\ e.plain \in BOOLEAN
  BY DEF Line
<1>2. Typed!PopChar(e.text) \in Seq(Sign)
  BY <1>1, Popped
<1>3. \A t \in Seq(Sign) : [e EXCEPT !.text = t] \in Line
  BY DEF Line
<1>4. [e EXCEPT !.plain = FALSE] \in Line
  BY DEF Line
<1>5. e.text \o <<"h", "t">> \in Seq(Sign) /\ <<>> \in Seq(Sign)
  BY <1>1 DEF Sign, Key
<1>6. \A l \in Letters : e.text \o <<l>> \in Seq(Sign)
  BY <1>1 DEF Sign, Key
<1>7. Typed!Recalled \in Seq(Sign)
  BY DEF Typed!Recalled, Sign, Key
<1>8. [text |-> IF mode = "shell" THEN Typed!Recalled ELSE e.text, plain |-> FALSE] \in Line
  BY <1>1, <1>7 DEF Line
<1>9. CASE p \in Single
  <2>1. Typed!Edit(e, <<"enter">>) \in Line /\ Typed!Edit(e, <<"back">>) \in Line
        /\ Typed!Edit(e, <<"kill">>) \in Line /\ Typed!Edit(e, <<"tab">>) \in Line
    BY <1>2, <1>3, <1>4, <1>5, EditIs, Zenon
  <2>2. \A l \in Letters : Typed!Edit(e, <<l>>) \in Line
    BY <1>3, <1>6, EditIs, Zenon
  <2>3. (\E l \in Letters : p = <<l>>) \/ p = <<"enter">> \/ p = <<"back">> \/ p = <<"kill">> \/ p = <<"tab">>
    BY <1>9 DEF Single
  <2>. QED
    BY <2>1, <2>2, <2>3, Zenon
<1>10. Typed!Edit(e, <<"h", "t">>) \in Line
  BY <1>3, <1>5, EditIs, Zenon
<1>11. Typed!Edit(e, Typed!Up) \in Line
  BY <1>8, EditIs, Zenon
<1>12. Typed!Edit(e, <<"esc", "a">>) \in Line
  BY <1>4, EditIs, Zenon
<1>. QED
  BY <1>9, <1>10, <1>11, <1>12, PiecesAre, Zenon

(* What a fold over a sequence does, a step at a time.                     *)
LEMMA TopIn ==
  ASSUME NEW n \in Nat, NEW S \in SUBSET (1 .. n), S # {}
  PROVE  Top(S) \in 1 .. n /\ S \ {Top(S)} \in SUBSET (1 .. n)
<1>. DEFINE Has == {k \in Nat : \A T \in SUBSET (1 .. k) : T # {} => \E x \in T : \A y \in T : x >= y}
<1>1. 0 \in Has
  <2>1. 1 .. 0 = {}
    OBVIOUS
  <2>. QED
    BY <2>1
<1>2. ASSUME NEW k \in Nat, k \in Has PROVE k + 1 \in Has
  <2>. SUFFICES ASSUME NEW T \in SUBSET (1 .. k + 1), T # {} PROVE \E x \in T : \A y \in T : x >= y
    OBVIOUS
  <2>1. CASE k + 1 \in T
    <3>1. \A y \in T : k + 1 >= y
      OBVIOUS
    <3>. QED
      BY <2>1, <3>1
  <2>2. CASE k + 1 \notin T
    <3>1. T \in SUBSET (1 .. k)
      BY <2>2
    <3>. QED
      BY <1>2, <3>1
  <2>. QED
    BY <2>1, <2>2
<1>3. Nat \subseteq Has
  <2>. HIDE DEF Has
  <2>. QED
    BY <1>1, <1>2, UpToAll
<1>4. \E x \in S : \A y \in S : x >= y
  BY <1>3
<1>5. Top(S) \in S
  BY <1>4 DEF Top
<1>. QED
  BY <1>5

LEMMA Run ==
  ASSUME NEW n \in Nat, NEW G, NEW h, h = [i \in 0 .. n |-> G[1 .. i]]
  PROVE  h[0] = G[{}] /\ h[n] = G[1 .. n] /\ \A i \in 0 .. n - 1 : h[i] = G[1 .. i] /\ h[i + 1] = G[1 .. i + 1]
<1>1. 1 .. 0 = {}
  OBVIOUS
<1>. QED
  BY <1>1

Made(s, n, Y) == n \in Nat /\ DOMAIN s = 1 .. n /\ \A i \in 1 .. n : s[i] \in Y

Edited(e, feed)        == Typed!FoldLeft(Typed!Edit, e, feed)
Assembled(a, bytes)    == Typed!FoldLeft(Typed!Assemble, a, bytes)
Looked(l, bytes, line) == Typed!FoldLeft(LAMBDA x, b : Typed!Learn(x, b, line), l, bytes)

EditRuns(h, base, s, n) ==
  /\ h[0] = base /\ h[n] = Edited(base, s)
  /\ \A i \in 0 .. n - 1 : h[i + 1] = Typed!Edit(h[i], s[i + 1])
AssembleRuns(h, base, s, n) ==
  /\ h[0] = base /\ h[n] = Assembled(base, s)
  /\ \A i \in 0 .. n - 1 : h[i + 1] = Typed!Assemble(h[i], s[i + 1])
LearnRuns(h, base, s, n, line) ==
  /\ h[0] = base /\ h[n] = Looked(base, s, line)
  /\ \A i \in 0 .. n - 1 : h[i + 1] = Typed!Learn(h[i], s[i + 1], line)

LEMMA EditRun ==
  ASSUME KeysAre, NEW base \in Line, NEW s, NEW n, Made(s, n, Typed!Pieces)
  PROVE  \E h : EditRuns(h, base, s, n)
<1>. n \in Nat /\ DOMAIN s = 1 .. n /\ \A i \in 1 .. n : s[i] \in Typed!Pieces
  BY DEF Made
<1>. DEFINE It(g) == g = [S \in SUBSET (1 .. n) |-> IF S = {} THEN base ELSE Typed!Edit(g[S \ {Top(S)}], s[Top(S)])]
<1>1. PICK f : f = [x \in Line \X Typed!Pieces |-> Typed!Edit(x[1], x[2])]
  OBVIOUS
<1>2. \A e \in Line, p \in Typed!Pieces : f[<<e, p>>] = Typed!Edit(e, p)
  BY <1>1
<1>3. f \in [Line \X Typed!Pieces -> Line]
  BY <1>1, EditTyped
<1>4. PICK g : Folds(g, f, base, s, n) /\ \A S \in SUBSET (1 .. n) : g[S] \in Line
  <2>1. Foldable(Line, Typed!Pieces, f, base, s, n)
    BY <1>3 DEF Foldable
  <2>. QED
    BY <2>1, FoldExists
<1>5. \A S \in SUBSET (1 .. n) : S # {} => Top(S) \in 1 .. n /\ S \ {Top(S)} \in SUBSET (1 .. n)
  BY TopIn
<1>6. \A S \in SUBSET (1 .. n) : g[S] = IF S = {} THEN base ELSE Typed!Edit(g[S \ {Top(S)}], s[Top(S)])
  BY <1>2, <1>4, <1>5 DEF Folds
<1>7. g = [S \in SUBSET (1 .. n) |-> g[S]]
  BY <1>4 DEF Folds
<1>8. It(g)
  BY <1>6, <1>7
<1>9. PICK G : G = CHOOSE k : It(k)
  OBVIOUS
<1>10. It(G)
  BY <1>8, <1>9
<1>11. Edited(base, s) = G[1 .. n]
  BY <1>9, Zenon DEF Edited, Typed!FoldLeft, Typed!MapThenFoldSet, Typed!Max, Top
<1>12. PICK h : h = [i \in 0 .. n |-> G[1 .. i]]
  OBVIOUS
<1>13. h[0] = base
  <2>1. {} \in SUBSET (1 .. n)
    OBVIOUS
  <2>2. G[{}] = base
    BY <1>10, <2>1
  <2>. QED
    BY <1>12, <2>2, Run
<1>14. ASSUME NEW i \in 0 .. n - 1 PROVE h[i + 1] = Typed!Edit(h[i], s[i + 1])
  <2>1. /\ 1 .. i + 1 \in SUBSET (1 .. n) /\ 1 .. i + 1 # {}
        /\ Top(1 .. i + 1) = i + 1 /\ (1 .. i + 1) \ {i + 1} = 1 .. i
    BY FirstOnes
  <2>2. h[i] = G[1 .. i] /\ h[i + 1] = G[1 .. i + 1]
    BY <1>12
  <2>3. PICK T : T = 1 .. i + 1
    OBVIOUS
  <2>4. G[T] = Typed!Edit(G[T \ {Top(T)}], s[Top(T)])
    BY <1>10, <2>1, <2>3, Zenon
  <2>. QED
    BY <2>1, <2>2, <2>3, <2>4
<1>15. h[n] = G[1 .. n]
  BY <1>12
<1>. QED
  BY <1>11, <1>13, <1>14, <1>15 DEF EditRuns

LEMMA AssembleTyped ==
  ASSUME KeysAre, NEW a \in Rebuilt, NEW b \in Key
  PROVE  Typed!Assemble(a, b) \in Rebuilt
<1>1. /\ a.buf \in Seq(Key) /\ a.esc \in {"none", "intro", "csi"} /\ a.line \in Seq(Key)
      /\ a = [buf |-> a.buf, esc |-> a.esc, line |-> a.line]
  BY DEF Rebuilt
<1>2. /\ Typed!PopChar(a.buf) \in Seq(Key) /\ <<>> \in Seq(Key) /\ Append(a.buf, b) \in Seq(Key)
      /\ Typed!Escape(a.esc, b) \in {"none", "intro", "csi"}
  BY <1>1, Popped DEF Typed!Escape
<1>3. /\ \A t \in Seq(Key) : [a EXCEPT !.buf = t] \in Rebuilt
      /\ \A t \in Seq(Key), u \in Seq(Key) : [a EXCEPT !.buf = t, !.line = u] \in Rebuilt
      /\ \A e \in {"none", "intro", "csi"} : [a EXCEPT !.esc = e] \in Rebuilt
  BY <1>1 DEF Rebuilt
<1>4. CASE a.esc # "none"
  BY <1>2, <1>3, <1>4 DEF Typed!Assemble
<1>5. CASE a.esc = "none"
  <2>1. [a EXCEPT !.buf = <<>>, !.line = a.buf] \in Rebuilt /\ [a EXCEPT !.buf = Typed!PopChar(a.buf)] \in Rebuilt
        /\ [a EXCEPT !.buf = <<>>] \in Rebuilt /\ [a EXCEPT !.esc = "intro"] \in Rebuilt
        /\ [a EXCEPT !.buf = Append(a.buf, b)] \in Rebuilt
    BY <1>1, <1>2, <1>3
  <2>. QED
    BY <1>5, <2>1, Zenon DEF Typed!Assemble
<1>. QED
  BY <1>4, <1>5

LEMMA LearnTyped ==
  ASSUME KeysAre, NEW line, NEW l \in Learned, NEW b \in Key
  PROVE  Typed!Learn(l, b, line) \in Learned
<1>1. l.bytes \in Seq(Key) /\ l.prompt \in Seq(Sign) /\ l.trusted \in BOOLEAN /\ l.cmd \in Seq(Key)
  BY DEF Learned
<1>2. /\ Typed!PopChar(l.bytes) \in Seq(Key) /\ <<>> \in Seq(Key) /\ Append(l.bytes, b) \in Seq(Key)
  BY <1>1, Popped
<1>3. /\ \A t \in Seq(Key) : [l EXCEPT !.bytes = t] \in Learned /\ [l EXCEPT !.bytes = t, !.trusted = FALSE] \in Learned
      /\ \A t \in Seq(Key), u \in Seq(Key) : [l EXCEPT !.bytes = t, !.trusted = FALSE, !.cmd = u] \in Learned
      /\ [l EXCEPT !.trusted = FALSE] \in Learned
  BY <1>1 DEF Learned
<1>4. (IF l.bytes # <<>> /\ Typed!Ready(l, line) THEN l.bytes ELSE <<>>) \in Seq(Key)
  BY <1>1, <1>2, Zenon
<1>5. CASE b = "enter"
  BY <1>2, <1>3, <1>4, <1>5, Zenon DEF Typed!Learn
<1>6. CASE b # "enter"
  BY <1>2, <1>3, <1>6 DEF Typed!Learn
<1>. QED
  BY <1>5, <1>6

LEMMA AssembleRun ==
  ASSUME KeysAre, NEW base \in Rebuilt, NEW s, NEW n, Made(s, n, Key)
  PROVE  \E h : AssembleRuns(h, base, s, n)
<1>. n \in Nat /\ DOMAIN s = 1 .. n /\ \A i \in 1 .. n : s[i] \in Key
  BY DEF Made
<1>. DEFINE It(g) == g = [S \in SUBSET (1 .. n) |-> IF S = {} THEN base ELSE Typed!Assemble(g[S \ {Top(S)}], s[Top(S)])]
<1>1. PICK f : f = [x \in Rebuilt \X Key |-> Typed!Assemble(x[1], x[2])]
  OBVIOUS
<1>2. \A e \in Rebuilt, p \in Key : f[<<e, p>>] = Typed!Assemble(e, p)
  BY <1>1
<1>3. f \in [Rebuilt \X Key -> Rebuilt]
  BY <1>1, AssembleTyped
<1>4. PICK g : Folds(g, f, base, s, n) /\ \A S \in SUBSET (1 .. n) : g[S] \in Rebuilt
  <2>1. Foldable(Rebuilt, Key, f, base, s, n)
    BY <1>3 DEF Foldable
  <2>. QED
    BY <2>1, FoldExists
<1>5. \A S \in SUBSET (1 .. n) : S # {} => Top(S) \in 1 .. n /\ S \ {Top(S)} \in SUBSET (1 .. n)
  BY TopIn
<1>6. \A S \in SUBSET (1 .. n) : g[S] = IF S = {} THEN base ELSE Typed!Assemble(g[S \ {Top(S)}], s[Top(S)])
  BY <1>2, <1>4, <1>5 DEF Folds
<1>7. g = [S \in SUBSET (1 .. n) |-> g[S]]
  BY <1>4 DEF Folds
<1>8. It(g)
  BY <1>6, <1>7
<1>9. PICK G : G = CHOOSE k : It(k)
  OBVIOUS
<1>10. It(G)
  BY <1>8, <1>9
<1>11. Assembled(base, s) = G[1 .. n]
  BY <1>9, Zenon DEF Assembled, Typed!FoldLeft, Typed!MapThenFoldSet, Typed!Max, Top
<1>12. PICK h : h = [i \in 0 .. n |-> G[1 .. i]]
  OBVIOUS
<1>13. h[0] = base
  <2>1. {} \in SUBSET (1 .. n)
    OBVIOUS
  <2>2. G[{}] = base
    BY <1>10, <2>1
  <2>. QED
    BY <1>12, <2>2, Run
<1>14. ASSUME NEW i \in 0 .. n - 1 PROVE h[i + 1] = Typed!Assemble(h[i], s[i + 1])
  <2>1. /\ 1 .. i + 1 \in SUBSET (1 .. n) /\ 1 .. i + 1 # {}
        /\ Top(1 .. i + 1) = i + 1 /\ (1 .. i + 1) \ {i + 1} = 1 .. i
    BY FirstOnes
  <2>2. h[i] = G[1 .. i] /\ h[i + 1] = G[1 .. i + 1]
    BY <1>12
  <2>3. PICK T : T = 1 .. i + 1
    OBVIOUS
  <2>4. G[T] = Typed!Assemble(G[T \ {Top(T)}], s[Top(T)])
    BY <1>10, <2>1, <2>3, Zenon
  <2>. QED
    BY <2>1, <2>2, <2>3, <2>4
<1>15. h[n] = G[1 .. n]
  BY <1>12
<1>. QED
  BY <1>11, <1>13, <1>14, <1>15 DEF AssembleRuns

LEMMA LearnRun ==
  ASSUME KeysAre, NEW line, NEW base \in Learned, NEW s, NEW n, Made(s, n, Key)
  PROVE  \E h : LearnRuns(h, base, s, n, line)
<1>. n \in Nat /\ DOMAIN s = 1 .. n /\ \A i \in 1 .. n : s[i] \in Key
  BY DEF Made
<1>. DEFINE It(g) == g = [S \in SUBSET (1 .. n) |-> IF S = {} THEN base ELSE Typed!Learn(g[S \ {Top(S)}], s[Top(S)], line)]
<1>1. PICK f : f = [x \in Learned \X Key |-> Typed!Learn(x[1], x[2], line)]
  OBVIOUS
<1>2. \A e \in Learned, p \in Key : f[<<e, p>>] = Typed!Learn(e, p, line)
  BY <1>1
<1>3. f \in [Learned \X Key -> Learned]
  BY <1>1, LearnTyped
<1>4. PICK g : Folds(g, f, base, s, n) /\ \A S \in SUBSET (1 .. n) : g[S] \in Learned
  <2>1. Foldable(Learned, Key, f, base, s, n)
    BY <1>3 DEF Foldable
  <2>. QED
    BY <2>1, FoldExists
<1>5. \A S \in SUBSET (1 .. n) : S # {} => Top(S) \in 1 .. n /\ S \ {Top(S)} \in SUBSET (1 .. n)
  BY TopIn
<1>6. \A S \in SUBSET (1 .. n) : g[S] = IF S = {} THEN base ELSE Typed!Learn(g[S \ {Top(S)}], s[Top(S)], line)
  BY <1>2, <1>4, <1>5 DEF Folds
<1>7. g = [S \in SUBSET (1 .. n) |-> g[S]]
  BY <1>4 DEF Folds
<1>8. It(g)
  BY <1>6, <1>7
<1>9. PICK G : G = CHOOSE k : It(k)
  OBVIOUS
<1>10. It(G)
  BY <1>8, <1>9
<1>11. Looked(base, s, line) = G[1 .. n]
  BY <1>9, Zenon DEF Looked, Typed!FoldLeft, Typed!MapThenFoldSet, Typed!Max, Top
<1>12. PICK h : h = [i \in 0 .. n |-> G[1 .. i]]
  OBVIOUS
<1>13. h[0] = base
  <2>1. {} \in SUBSET (1 .. n)
    OBVIOUS
  <2>2. G[{}] = base
    BY <1>10, <2>1
  <2>. QED
    BY <1>12, <2>2, Run
<1>14. ASSUME NEW i \in 0 .. n - 1 PROVE h[i + 1] = Typed!Learn(h[i], s[i + 1], line)
  <2>1. /\ 1 .. i + 1 \in SUBSET (1 .. n) /\ 1 .. i + 1 # {}
        /\ Top(1 .. i + 1) = i + 1 /\ (1 .. i + 1) \ {i + 1} = 1 .. i
    BY FirstOnes
  <2>2. h[i] = G[1 .. i] /\ h[i + 1] = G[1 .. i + 1]
    BY <1>12
  <2>3. PICK T : T = 1 .. i + 1
    OBVIOUS
  <2>4. G[T] = Typed!Learn(G[T \ {Top(T)}], s[Top(T)], line)
    BY <1>10, <2>1, <2>3, Zenon
  <2>. QED
    BY <2>1, <2>2, <2>3, <2>4
<1>15. h[n] = G[1 .. n]
  BY <1>12
<1>. QED
  BY <1>11, <1>13, <1>14, <1>15 DEF LearnRuns

-----------------------------------------------------------------------------
(* What they make of a line that was only typed is the same for all three. *)
Same(e, a, l) ==
  /\ e \in Line /\ a \in Rebuilt /\ l \in Learned
  /\ a.esc = "none"
  /\ e.plain => e.text = a.buf /\ e.text = l.bytes

\* What changes and what stays, with one more letter.
Longer(e, a, l, e2, a2, l2) ==
  /\ e2.plain = e.plain /\ Len(e2.text) > Len(e.text)
  /\ a2.line = a.line
  /\ l2.prompt = l.prompt /\ l2.trusted = l.trusted /\ l2.cmd = l.cmd

LEMMA LetterStep ==
  ASSUME KeysAre, NEW e, NEW a, NEW l, Same(e, a, l), NEW x \in Letters, NEW line,
         NEW e2, e2 = Typed!Edit(e, <<x>>), NEW a2, a2 = Typed!Assemble(a, x), NEW l2, l2 = Typed!Learn(l, x, line)
  PROVE  Same(e2, a2, l2) /\ Longer(e, a, l, e2, a2, l2)
<1>1. x \notin Special /\ x \in Key
  BY DEF KeysAre, Key
<1>2. e2 = [e EXCEPT !.text = e.text \o <<x>>]
  BY EditIs
<1>3. a2 = [a EXCEPT !.buf = Append(a.buf, x)]
  BY <1>1 DEF Typed!Assemble, Same, Special
<1>4. l2 = [l EXCEPT !.bytes = Append(l.bytes, x)]
  BY <1>1 DEF Typed!Learn, Special
<1>5. /\ e \in Line /\ a \in Rebuilt /\ l \in Learned /\ a.esc = "none"
      /\ e.plain => e.text = a.buf /\ e.text = l.bytes
  BY DEF Same
<1>6. /\ e2.text = e.text \o <<x>> /\ e2.plain = e.plain /\ a2.buf = Append(a.buf, x) /\ a2.esc = a.esc /\ a2.line = a.line
      /\ l2.bytes = Append(l.bytes, x) /\ l2.prompt = l.prompt /\ l2.trusted = l.trusted /\ l2.cmd = l.cmd
  BY <1>2, <1>3, <1>4, <1>5 DEF Line, Rebuilt, Learned
<1>7. a2 \in Rebuilt /\ l2 \in Learned
  BY <1>1, <1>5, AssembleTyped, LearnTyped
<1>8. e2 \in Line
  <2>1. <<x>> \in Typed!Pieces
    BY DEF Typed!Pieces
  <2>. QED
    BY <1>5, <2>1, EditTyped
<1>9. e.text \in Seq(Sign) /\ a.buf \in Seq(Key) /\ l.bytes \in Seq(Key) /\ x \in Sign
  BY <1>1, <1>5 DEF Line, Rebuilt, Learned, Sign
<1>10. Len(e2.text) > Len(e.text)
  BY <1>6, <1>9
<1>11. \A s \in Seq(Sign) : Append(s, x) = s \o <<x>>
  BY <1>9, AppendIsConcat
<1>12. e.plain => e2.text = a2.buf /\ e2.text = l2.bytes
  BY <1>5, <1>6, <1>9, <1>11
<1>. QED
  BY <1>5, <1>6, <1>7, <1>8, <1>10, <1>12 DEF Same, Longer

\* A key that changes the line and enters nothing.
Quiet(e, a, l, e2, a2, l2) ==
  /\ e2.plain => e.plain
  /\ a2.line = a.line
  /\ l2.prompt = l.prompt /\ (l2.trusted => l.trusted) /\ l2.cmd = l.cmd

LEMMA ControlStep ==
  ASSUME KeysAre, NEW e, NEW a, NEW l, Same(e, a, l), NEW x \in {"back", "kill", "tab"}, NEW line,
         NEW e2, e2 = Typed!Edit(e, <<x>>), NEW a2, a2 = Typed!Assemble(a, x), NEW l2, l2 = Typed!Learn(l, x, line)
  PROVE  Same(e2, a2, l2) /\ Quiet(e, a, l, e2, a2, l2)
<1>1. x \in Special /\ x \in Key
  BY DEF Special, Key
<1>2. /\ e \in Line /\ a \in Rebuilt /\ l \in Learned /\ a.esc = "none"
      /\ e.plain => e.text = a.buf /\ e.text = l.bytes
  BY DEF Same
<1>3. a2 \in Rebuilt /\ l2 \in Learned
  BY <1>1, <1>2, AssembleTyped, LearnTyped
<1>4. e2 \in Line
  <2>1. <<x>> \in Typed!Pieces
    BY DEF Typed!Pieces
  <2>. QED
    BY <1>2, <2>1, EditTyped
<1>5. CASE x = "back"
  <2>1. e2 = [e EXCEPT !.text = Typed!PopChar(e.text)]
    BY <1>5, EditIs
  <2>2. a2 = [a EXCEPT !.buf = Typed!PopChar(a.buf)]
    BY <1>2, <1>5 DEF Typed!Assemble
  <2>3. l2 = [l EXCEPT !.bytes = Typed!PopChar(l.bytes)]
    BY <1>5 DEF Typed!Learn
  <2>4. /\ e2.text = Typed!PopChar(e.text) /\ e2.plain = e.plain /\ a2.buf = Typed!PopChar(a.buf) /\ a2.esc = a.esc /\ a2.line = a.line
        /\ l2.bytes = Typed!PopChar(l.bytes) /\ l2.prompt = l.prompt /\ l2.trusted = l.trusted /\ l2.cmd = l.cmd
    BY <1>2, <2>1, <2>2, <2>3 DEF Line, Rebuilt, Learned
  <2>. QED
    BY <1>2, <1>3, <1>4, <2>4 DEF Same, Quiet
<1>6. CASE x = "kill"
  <2>1. e2 = [e EXCEPT !.text = <<>>]
    BY <1>6, EditIs
  <2>2. a2 = [a EXCEPT !.buf = <<>>]
    BY <1>2, <1>6 DEF Typed!Assemble
  <2>3. l2 = [l EXCEPT !.bytes = <<>>, !.trusted = FALSE]
    BY <1>6 DEF Typed!Learn
  <2>4. /\ e2.text = <<>> /\ e2.plain = e.plain /\ a2.buf = <<>> /\ a2.esc = a.esc /\ a2.line = a.line
        /\ l2.bytes = <<>> /\ l2.prompt = l.prompt /\ l2.trusted = FALSE /\ l2.cmd = l.cmd
    BY <1>2, <2>1, <2>2, <2>3 DEF Line, Rebuilt, Learned
  <2>. QED
    BY <1>2, <1>3, <1>4, <2>4 DEF Same, Quiet
<1>7. CASE x = "tab"
  <2>1. e2 = [e EXCEPT !.plain = FALSE]
    BY <1>7, EditIs
  <2>2. a2 = a
    BY <1>2, <1>7 DEF Typed!Assemble
  <2>3. l2 = [l EXCEPT !.trusted = FALSE]
    BY <1>7 DEF Typed!Learn
  <2>4. e2.plain = FALSE /\ a2.esc = a.esc /\ a2.line = a.line /\ l2.prompt = l.prompt /\ l2.trusted = FALSE /\ l2.cmd = l.cmd
    BY <1>2, <2>1, <2>2, <2>3 DEF Line, Rebuilt, Learned
  <2>. QED
    BY <1>2, <1>3, <1>4, <2>4 DEF Same, Quiet
<1>. QED
  BY <1>5, <1>6, <1>7

\* What Enter makes of a line.
Ended(e, a, l, line, e2, a2, l2) ==
  /\ e2 = e /\ a2 \in Rebuilt /\ l2 \in Learned
  /\ a2.esc = "none" /\ a2.buf = <<>> /\ a2.line = a.buf
  /\ l2.bytes = <<>> /\ l2.trusted = FALSE
  /\ l2.cmd # <<>> => l2.cmd = l.bytes /\ Typed!Ready(l, line)

LEMMA EnterStep ==
  ASSUME KeysAre, NEW e, NEW a, NEW l, Same(e, a, l), NEW line,
         NEW e2, e2 = Typed!Edit(e, <<"enter">>), NEW a2, a2 = Typed!Assemble(a, "enter"), NEW l2, l2 = Typed!Learn(l, "enter", line)
  PROVE  Ended(e, a, l, line, e2, a2, l2)
<1>1. "enter" \in Key
  BY DEF Special, Key
<1>2. a \in Rebuilt /\ l \in Learned /\ a.esc = "none"
  BY DEF Same
<1>3. a2 \in Rebuilt /\ l2 \in Learned
  BY <1>1, <1>2, AssembleTyped, LearnTyped
<1>4. a2 = [a EXCEPT !.buf = <<>>, !.line = a.buf]
  BY <1>2 DEF Typed!Assemble
<1>5. PICK c : c = IF l.bytes # <<>> /\ Typed!Ready(l, line) THEN l.bytes ELSE <<>>
  OBVIOUS
<1>6. l2 = [l EXCEPT !.bytes = <<>>, !.trusted = FALSE, !.cmd = c]
  BY <1>5, Zenon DEF Typed!Learn
<1>7. a2.esc = "none" /\ a2.buf = <<>> /\ a2.line = a.buf
  BY <1>2, <1>4 DEF Rebuilt
<1>8. l2.bytes = <<>> /\ l2.trusted = FALSE /\ l2.cmd = c
  BY <1>2, <1>6 DEF Learned
<1>9. c # <<>> => c = l.bytes /\ Typed!Ready(l, line)
  BY <1>5, Zenon
<1>10. e2 = e
  BY EditIs
<1>. QED
  BY <1>3, <1>7, <1>8, <1>9, <1>10 DEF Ended

-----------------------------------------------------------------------------
(* What the line must show.                                                *)
Leads(s, t) == Len(s) <= Len(t) /\ \A i \in 1 .. Len(s) : s[i] = t[i]

LEMMA PrefixIs == ASSUME NEW X, NEW s \in Seq(X), NEW t \in Seq(X) PROVE Typed!IsPrefix(s, t) <=> Leads(s, t)
<1>1. CASE Len(s) <= Len(t)
  <2>1. PICK u : u = SubSeq(s, 1, Len(s))
    OBVIOUS
  <2>2. PICK v : v = SubSeq(t, 1, Len(s))
    OBVIOUS
  <2>3. u \in Seq(X) /\ v \in Seq(X) /\ Len(u) = Len(s) /\ Len(v) = Len(s) /\ \A i \in 1 .. Len(s) : u[i] = s[i] /\ v[i] = t[i]
    BY <1>1, <2>1, <2>2
  <2>4. u = v <=> \A i \in 1 .. Len(s) : u[i] = v[i]
    BY <2>3, SeqEqual
  <2>. QED
    BY <1>1, <2>1, <2>2, <2>3, <2>4 DEF Typed!IsPrefix, Leads
<1>2. CASE ~(Len(s) <= Len(t))
  BY <1>2 DEF Typed!IsPrefix, Leads
<1>. QED
  BY <1>1, <1>2

LEMMA SuffixIs ==
  ASSUME NEW X, NEW s \in Seq(X), NEW t \in Seq(X)
  PROVE  Typed!IsSuffix(s, t) <=> Len(s) <= Len(t) /\ \A i \in 1 .. Len(s) : s[i] = t[Len(t) - Len(s) + i]
<1>1. PICK r : r = Typed!Reverse(s)
  OBVIOUS
<1>2. PICK q : q = Typed!Reverse(t)
  OBVIOUS
<1>3. PICK m \in Nat : m = Len(s)
  OBVIOUS
<1>4. PICK n \in Nat : n = Len(t)
  OBVIOUS
<1>5. r \in Seq(X) /\ Len(r) = m /\ \A i \in 1 .. m : r[i] = s[(m - i) + 1]
  BY <1>1, <1>3 DEF Typed!Reverse
<1>6. q \in Seq(X) /\ Len(q) = n /\ \A i \in 1 .. n : q[i] = t[(n - i) + 1]
  BY <1>2, <1>4 DEF Typed!Reverse
<1>7. Typed!IsSuffix(s, t) <=> m <= n /\ \A i \in 1 .. m : r[i] = q[i]
  <2>1. Typed!IsSuffix(s, t) <=> Typed!IsPrefix(r, q)
    BY <1>1, <1>2 DEF Typed!IsSuffix
  <2>2. Typed!IsPrefix(r, q) <=> Leads(r, q)
    BY <1>5, <1>6, PrefixIs
  <2>. QED
    BY <1>5, <1>6, <2>1, <2>2 DEF Leads
<1>8. ASSUME m <= n PROVE (\A i \in 1 .. m : r[i] = q[i]) <=> (\A i \in 1 .. m : s[i] = t[n - m + i])
  <2>1. \A i \in 1 .. m : (m - i) + 1 \in 1 .. m /\ (m - ((m - i) + 1)) + 1 = i /\ i \in 1 .. n /\ (n - i) + 1 = n - m + ((m - i) + 1)
    BY <1>8
  <2>2. ASSUME \A i \in 1 .. m : r[i] = q[i], NEW i \in 1 .. m PROVE s[i] = t[n - m + i]
    <3>1. PICK k \in 1 .. m : k = (m - i) + 1
      BY <2>1
    <3>2. r[k] = q[k] /\ k \in 1 .. n /\ (m - k) + 1 = i /\ (n - k) + 1 = n - m + i
      BY <1>8, <2>2, <3>1
    <3>. QED
      BY <1>5, <1>6, <3>2
  <2>3. ASSUME \A i \in 1 .. m : s[i] = t[n - m + i], NEW i \in 1 .. m PROVE r[i] = q[i]
    <3>1. PICK k \in 1 .. m : k = (m - i) + 1
      BY <2>1
    <3>2. s[k] = t[n - m + k] /\ i \in 1 .. n /\ (n - i) + 1 = n - m + k
      BY <1>8, <2>3, <3>1
    <3>. QED
      BY <1>5, <1>6, <3>1, <3>2
  <2>. QED
    BY <2>2, <2>3
<1>. QED
  BY <1>3, <1>4, <1>7, <1>8

\* What a trusted prompt reads like.
Prompts == {<<"$">>, <<"s", "w">>, <<"?">>}

\* What is learned at the question for a password is on its line, or that on it.
LEMMA NoPassword ==
  ASSUME NEW l \in Learned, NEW line, line.text = <<"s", "w">>, Typed!Ready(l, line),
         l.prompt # <<>>, Len(l.prompt) = 1 => l.prompt[1] # "s"
  PROVE  Typed!IsSuffix(l.bytes, line.text) \/ Typed!IsSuffix(line.text, l.bytes)
<1>1. PICK t \in Seq(Sign) : t = <<"s", "w">>
  <2>1. "s" \in Sign /\ "w" \in Sign
    BY DEF Sign
  <2>2. <<"s", "w">> \in Seq(Sign)
    BY <2>1
  <2>. QED
    BY <2>2
<1>2. PICK p \in Seq(Sign) : p = l.prompt
  BY DEF Learned
<1>3. PICK b \in Seq(Sign) : b = l.bytes
  BY DEF Learned, Sign
<1>4. Len(t) = 2 /\ t[1] = "s" /\ t[2] = "w"
  BY <1>1
<1>5. Len(p) \in Nat /\ Len(p) # 0 /\ Len(b) \in Nat
  BY <1>2, EmptySeq
<1>10. PICK m \in Nat : m = Len(p)
  BY <1>5
<1>11. PICK n \in Nat : n = Len(b)
  BY <1>5
<1>6. PICK w \in Seq(Sign) : w = p \o b
  <2>1. p \o b \in Seq(Sign)
    OBVIOUS
  <2>. QED
    BY <2>1
<1>7. Len(w) = m + n /\ m # 0 /\ w[1] = p[1] /\ \A i \in 1 .. n : w[m + i] = b[i]
  BY <1>5, <1>6, <1>10, <1>11
<1>8. CASE Typed!CaughtUp(l, line.text)
  <2>1. t = w \/ (Typed!IsPrefix(t, w) /\ Len(t) > Len(p))
    BY <1>1, <1>2, <1>3, <1>6, <1>8 DEF Typed!CaughtUp
  <2>2. CASE t = w
    <3>1. Len(t) = m + n
      BY <1>7, <2>2
    <3>2. n <= Len(t) /\ Len(t) - n = m
      BY <3>1
    <3>3. Len(b) <= Len(t) /\ \A i \in 1 .. Len(b) : b[i] = t[Len(t) - Len(b) + i]
      BY <1>7, <1>11, <2>2, <3>2
    <3>4. Typed!IsSuffix(b, t)
      BY <3>3, SuffixIs, Zenon
    <3>. QED
      BY <1>1, <1>3, <3>4
  <2>3. CASE Typed!IsPrefix(t, w) /\ Len(t) > Len(p)
    <3>1. Len(t) <= Len(w) /\ \A i \in 1 .. Len(t) : t[i] = w[i]
      BY <2>3, PrefixIs DEF Leads
    <3>2. t[1] = w[1]
      BY <1>4, <3>1
    <3>3. Len(p) = 1
      BY <1>4, <1>7, <1>10, <2>3
    <3>. QED
      BY <1>2, <1>4, <1>7, <3>2, <3>3
  <2>. QED
    BY <2>1, <2>2, <2>3
<1>9. CASE ~Typed!CaughtUp(l, line.text)
  BY <1>9, Zenon DEF Typed!Ready
<1>. QED
  BY <1>8, <1>9

\* Nothing is learned at a question, when what was typed is at least what is
\* shown and asks nothing itself.
LEMMA NoAnswer ==
  ASSUME NEW l \in Learned, NEW line, NEW old \in Seq(Sign), NEW k \in 0 .. Len(old),
         line.text = <<"?">> \o SubSeq(old, 1, k), Typed!Ready(l, line),
         l.prompt \in Prompts, Len(l.bytes) >= Len(old), \A i \in 1 .. Len(l.bytes) : l.bytes[i] # "?"
  PROVE  FALSE
<1>4. PICK v \in Seq(Sign) : v = SubSeq(old, 1, k) /\ Len(v) = k
  <2>1. SubSeq(old, 1, k) \in Seq(Sign) /\ Len(SubSeq(old, 1, k)) = k
    OBVIOUS
  <2>. QED
    BY <2>1
<1>1. PICK t \in Seq(Sign) : t = line.text
  <2>1. "?" \in Sign
    BY DEF Sign
  <2>2. <<"?">> \o v \in Seq(Sign)
    BY <2>1
  <2>. QED
    BY <1>4, <2>2
<1>2. PICK p \in Seq(Sign) : p = l.prompt
  BY DEF Learned
<1>3. PICK b \in Seq(Sign) : b = l.bytes
  BY DEF Learned, Sign
<1>5. Len(t) = k + 1 /\ t[1] = "?"
  <2>1. "?" \in Sign
    BY DEF Sign
  <2>2. t = <<"?">> \o v
    BY <1>1, <1>4
  <2>. QED
    BY <1>4, <2>1, <2>2
<1>6. \A i \in 1 .. Len(b) : b[i] # "?"
  BY <1>3
<1>7. Len(b) \in Nat /\ Len(b) >= Len(old) /\ Len(b) >= k /\ k \in Nat
  BY <1>3
<1>8. CASE Typed!CaughtUp(l, line.text)
  <2>1. PICK w \in Seq(Sign) : w = p \o b
    <3>1. p \o b \in Seq(Sign)
      OBVIOUS
    <3>. QED
      BY <3>1
  <2>2. Len(p) \in Nat /\ Len(p) # 0
    <3>1. Len(<<"$">>) = 1 /\ Len(<<"s", "w">>) = 2 /\ Len(<<"?">>) = 1
      OBVIOUS
    <3>2. l.prompt = <<"$">> \/ l.prompt = <<"s", "w">> \/ l.prompt = <<"?">>
      BY DEF Prompts
    <3>3. Len(l.prompt) = 1 \/ Len(l.prompt) = 2
      BY <3>1, <3>2, Zenon
    <3>4. Len(p) = 1 \/ Len(p) = 2
      BY <1>2, <3>3, Zenon
    <3>5. \A c : c = 1 \/ c = 2 => c \in Nat /\ c # 0
      OBVIOUS
    <3>. QED
      BY <3>4, <3>5, Zenon
  <2>3. Len(w) = Len(p) + Len(b) /\ w[1] = p[1]
    BY <2>1, <2>2
  <2>4. t = w \/ Typed!IsPrefix(t, w)
    BY <1>1, <1>2, <1>3, <1>8, <2>1 DEF Typed!CaughtUp
  <2>5. t[1] = w[1]
    <3>1. CASE Typed!IsPrefix(t, w)
      <4>1. \A i \in 1 .. Len(t) : t[i] = w[i]
        BY <3>1, PrefixIs DEF Leads
      <4>. QED
        BY <1>5, <1>7, <4>1
    <3>. QED
      BY <2>4, <3>1
  <2>6. p = <<"?">>
    <3>1. p \in Prompts /\ p[1] = "?"
      BY <1>2, <1>5, <2>3, <2>5
    <3>. QED
      BY <3>1 DEF Prompts
  <2>7. ~Typed!NotAsked(l.prompt)
    BY <1>2, <2>6 DEF Typed!NotAsked, Typed!Last
  <2>. QED
    BY <1>8, <2>7, Zenon DEF Typed!Ready
<1>9. CASE ~Typed!CaughtUp(l, line.text) /\ Typed!IsSuffix(l.bytes, line.text)
  <2>1. Len(b) <= Len(t) /\ \A i \in 1 .. Len(b) : b[i] = t[Len(t) - Len(b) + i]
    BY <1>1, <1>3, <1>9, SuffixIs
  <2>2. CASE Len(b) = Len(t)
    <3>1. 1 \in 1 .. Len(b) /\ b[1] = t[1]
      BY <1>5, <1>7, <2>1, <2>2
    <3>. QED
      BY <1>5, <1>6, <3>1
  <2>3. CASE Len(b) # Len(t)
    <3>1. Len(b) = k /\ Len(t) - Len(b) = 1
      BY <1>5, <1>7, <2>1, <2>3
    <3>2. PICK e \in Seq(Sign) : e = SubSeq(t, 1, 1) /\ Len(e) = 1 /\ e[1] = t[1]
      <4>1. 1 <= Len(t) /\ Len(t) \in Nat
        BY <1>5, <1>7
      <4>2. SubSeq(t, 1, 1) \in Seq(Sign) /\ Len(SubSeq(t, 1, 1)) = 1 /\ SubSeq(t, 1, 1)[1] = t[1]
        BY <4>1
      <4>. QED
        BY <4>2
    <3>3. Typed!EchoedPrompt(line.text, l.bytes) = e
      BY <1>1, <1>3, <3>1, <3>2 DEF Typed!EchoedPrompt
    <3>4. ~Typed!NotAsked(e)
      <4>1. e # <<>>
        <5>1. e = <<>> => Len(e) = 0
          OBVIOUS
        <5>. QED
          BY <3>2, <5>1
      <4>. QED
        BY <1>5, <3>2, <4>1 DEF Typed!NotAsked, Typed!Last
    <3>. QED
      BY <1>9, <3>3, <3>4, Zenon DEF Typed!Ready
  <2>. QED
    BY <2>2, <2>3
<1>10. CASE ~Typed!CaughtUp(l, line.text) /\ ~Typed!IsSuffix(l.bytes, line.text)
  <2>1. Typed!IsSuffix(t, b)
    BY <1>1, <1>3, <1>10, Zenon DEF Typed!Ready
  <2>2. Len(t) <= Len(b) /\ \A i \in 1 .. Len(t) : t[i] = b[Len(b) - Len(t) + i]
    BY <2>1, SuffixIs
  <2>3. Len(b) - Len(t) + 1 \in 1 .. Len(b) /\ t[1] = b[Len(b) - Len(t) + 1]
    BY <1>5, <1>7, <2>2
  <2>. QED
    BY <1>5, <1>6, <2>3
<1>. QED
  BY <1>8, <1>9, <1>10

-----------------------------------------------------------------------------
(* A write, piece by piece and byte by byte.                                *)
IsFlat(f, s, n) == f = [i \in 1 .. n |-> IF i = 1 THEN s[i] ELSE f[i - 1] \o s[i]]

LEMMA FlatExists ==
  ASSUME NEW s, NEW n \in Nat
  PROVE  \E f : IsFlat(f, s, n)
<1>. DEFINE S == {k \in Nat : \E f : IsFlat(f, s, k)}
<1>1. 0 \in S
  <2>1. PICK f : f = [i \in {} |-> 0]
    OBVIOUS
  <2>2. 1 .. 0 = {}
    OBVIOUS
  <2>3. IsFlat(f, s, 0)
    BY <2>1, <2>2 DEF IsFlat
  <2>. QED
    BY <2>3
<1>2. ASSUME NEW k \in Nat, k \in S PROVE k + 1 \in S
  <2>1. PICK f : IsFlat(f, s, k)
    BY <1>2
  <2>2. PICK g : g = [i \in 1 .. k + 1 |-> IF i = k + 1 THEN (IF i = 1 THEN s[i] ELSE f[i - 1] \o s[i]) ELSE f[i]]
    OBVIOUS
  <2>3. \A i \in 1 .. k + 1 : i # k + 1 => i \in 1 .. k /\ g[i] = f[i]
    BY <2>2
  <2>4. \A i \in 1 .. k : f[i] = IF i = 1 THEN s[i] ELSE f[i - 1] \o s[i]
    BY <2>1 DEF IsFlat
  <2>5. \A i \in 1 .. k + 1 : i # 1 => i - 1 \in 1 .. k /\ g[i - 1] = f[i - 1]
    BY <2>2
  <2>6. \A i \in 1 .. k + 1 : g[i] = IF i = 1 THEN s[i] ELSE g[i - 1] \o s[i]
    BY <2>2, <2>3, <2>4, <2>5
  <2>7. g = [i \in 1 .. k + 1 |-> g[i]]
    BY <2>2
  <2>8. IsFlat(g, s, k + 1)
    BY <2>6, <2>7 DEF IsFlat
  <2>. QED
    BY <2>8
<1>3. Nat \subseteq S
  <2>. HIDE DEF S
  <2>. QED
    BY <1>1, <1>2, UpToAll
<1>. QED
  BY <1>3

\* A write of pieces of one byte; only the last may be something but a letter.
Flatly(feed, b, n) ==
  /\ n \in Nat \ {0} /\ DOMAIN feed = 1 .. n /\ Len(feed) = n
  /\ b \in Seq(Key) /\ Len(b) = n
  /\ \A i \in 1 .. n : feed[i] = <<b[i]>> /\ feed[i] \in Typed!Pieces
  /\ \A i \in 1 .. n - 1 : b[i] \in Letters
  /\ b[n] \in Letters \cup {"enter", "back", "kill", "tab"}

LEMMA FlatIs ==
  ASSUME NEW feed, NEW n \in Nat \ {0}, Len(feed) = n
  PROVE  \E f : Typed!FlattenSeq(feed) = f[n] /\ f[1] = feed[1] /\ \A i \in 1 .. n - 1 : f[i + 1] = f[i] \o feed[i + 1]
<1>1. PICK f : f = CHOOSE g : IsFlat(g, feed, n)
  OBVIOUS
<1>2. IsFlat(f, feed, n)
  BY <1>1, FlatExists
<1>3. Typed!FlattenSeq(feed) = f[n]
  BY <1>1 DEF Typed!FlattenSeq, IsFlat
<1>4. \A i \in 1 .. n : f[i] = IF i = 1 THEN feed[i] ELSE f[i - 1] \o feed[i]
  BY <1>2 DEF IsFlat
<1>5. 1 \in 1 .. n
  OBVIOUS
<1>6. f[1] = feed[1]
  BY <1>4, <1>5, Zenon
<1>7. ASSUME NEW i \in 1 .. n - 1 PROVE f[i + 1] = f[i] \o feed[i + 1]
  <2>1. PICK j \in 1 .. n : j = i + 1 /\ j # 1 /\ j - 1 = i
    OBVIOUS
  <2>2. f[j] = f[j - 1] \o feed[j]
    BY <1>4, <2>1, Zenon
  <2>. QED
    BY <2>1, <2>2
<1>. QED
  BY <1>3, <1>6, <1>7

LEMMA FlatBytes ==
  ASSUME NEW feed, NEW b, NEW n, Flatly(feed, b, n)
  PROVE  Typed!FlattenSeq(feed) = b
<1>1. n \in Nat \ {0} /\ Len(feed) = n /\ b \in Seq(Key) /\ Len(b) = n /\ \A i \in 1 .. n : feed[i] = <<b[i]>>
  BY DEF Flatly
<1>2. PICK f : Typed!FlattenSeq(feed) = f[n] /\ f[1] = feed[1] /\ \A i \in 1 .. n - 1 : f[i + 1] = f[i] \o feed[i + 1]
  BY <1>1, FlatIs
<1>. DEFINE Got == {i \in Nat : i + 1 \in 1 .. n => f[i + 1] = SubSeq(b, 1, i + 1)}
<1>3. 0 \in Got
  <2>1. 1 \in 1 .. n /\ f[1] = <<b[1]>>
    BY <1>1, <1>2
  <2>2. b[1] \in Key
    BY <1>1, <2>1
  <2>3. PICK u \in Seq(Key) : u = SubSeq(b, 1, 1) /\ Len(u) = 1 /\ u[1] = b[1]
    <3>1. SubSeq(b, 1, 1) \in Seq(Key) /\ Len(SubSeq(b, 1, 1)) = 1 /\ SubSeq(b, 1, 1)[1] = b[1]
      BY <1>1
    <3>. QED
      BY <3>1
  <2>4. <<b[1]>> \in Seq(Key) /\ Len(<<b[1]>>) = 1 /\ <<b[1]>>[1] = b[1]
    BY <2>2
  <2>5. u = <<b[1]>>
    <3>1. PICK v \in Seq(Key) : v = <<b[1]>> /\ Len(v) = 1 /\ v[1] = b[1]
      BY <2>4
    <3>2. \A i \in 1 .. Len(u) : u[i] = v[i]
      BY <2>3, <3>1
    <3>3. u = v
      BY <2>3, <3>1, <3>2, SeqEqual
    <3>. QED
      BY <3>1, <3>3
  <2>. QED
    BY <2>1, <2>3, <2>5
<1>4. ASSUME NEW i \in Nat, i \in Got PROVE i + 1 \in Got
  <2>. SUFFICES ASSUME (i + 1) + 1 \in 1 .. n PROVE f[(i + 1) + 1] = SubSeq(b, 1, (i + 1) + 1)
    OBVIOUS
  <2>1. PICK j \in 1 .. n - 1 : j = i + 1
    BY <1>1
  <2>2. PICK k \in 1 .. n : k = j + 1
    BY <1>1
  <2>3. f[j] = SubSeq(b, 1, j)
    BY <1>1, <1>4, <2>1
  <2>4. f[k] = f[j] \o <<b[k]>>
    BY <1>1, <1>2, <2>2
  <2>5. b[k] \in Key
    BY <1>1
  <2>6. PICK u \in Seq(Key) : u = SubSeq(b, 1, j) /\ Len(u) = j /\ \A m \in 1 .. j : u[m] = b[m]
    <3>1. SubSeq(b, 1, j) \in Seq(Key) /\ Len(SubSeq(b, 1, j)) = j /\ \A m \in 1 .. j : SubSeq(b, 1, j)[m] = b[m]
      BY <1>1
    <3>. QED
      BY <3>1
  <2>7. PICK v \in Seq(Key) : v = SubSeq(b, 1, k) /\ Len(v) = k /\ \A m \in 1 .. k : v[m] = b[m]
    <3>1. SubSeq(b, 1, k) \in Seq(Key) /\ Len(SubSeq(b, 1, k)) = k /\ \A m \in 1 .. k : SubSeq(b, 1, k)[m] = b[m]
      BY <1>1
    <3>. QED
      BY <3>1
  <2>8. u \o <<b[k]>> \in Seq(Key) /\ Len(u \o <<b[k]>>) = k /\ \A m \in 1 .. k : (u \o <<b[k]>>)[m] = b[m]
    BY <2>2, <2>5, <2>6
  <2>9. u \o <<b[k]>> = v
    BY <2>7, <2>8, SeqEqual
  <2>. QED
    BY <2>1, <2>2, <2>3, <2>4, <2>6, <2>7, <2>9
<1>5. Nat \subseteq Got
  <2>. HIDE DEF Got
  <2>. QED
    BY <1>3, <1>4, UpToAll
<1>6. f[n] = SubSeq(b, 1, n)
  <2>1. n - 1 \in Nat /\ (n - 1) + 1 = n /\ n \in 1 .. n
    BY <1>1
  <2>. QED
    BY <1>5, <2>1
<1>7. SubSeq(b, 1, Len(b)) = b
  BY <1>1, SubSeqFull
<1>. QED
  BY <1>1, <1>2, <1>6, <1>7

LEMMA FeedsAre ==
  ASSUME KeysAre, NEW feed \in Typed!Feeds
  PROVE  \/ \E b, n : Flatly(feed, b, n)
         \/ feed = <<<<"h", "t">>>> \/ feed = <<Typed!Up>> \/ feed = <<<<"esc", "a">>>>
<1>1. \A x \in Letters : x \in Key /\ <<x>> \in Typed!Pieces
  BY DEF Key, Typed!Pieces
<1>2. \A x \in {"enter", "back", "kill", "tab"} : x \in Key /\ <<x>> \in Typed!Pieces
  BY DEF Key, Special, Typed!Pieces
<1>3. ASSUME NEW x \in Letters \cup {"enter", "back", "kill", "tab"}, feed = <<<<x>>>>
      PROVE  \E b, n : Flatly(feed, b, n)
  <2>1. x \in Key /\ <<x>> \in Typed!Pieces
    BY <1>1, <1>2
  <2>2. PICK b : b = <<x>>
    OBVIOUS
  <2>3. b \in Seq(Key) /\ Len(b) = 1 /\ b[1] = x
    BY <2>1, <2>2
  <2>4. DOMAIN feed = 1 .. 1 /\ Len(feed) = 1 /\ feed[1] = <<x>>
    BY <1>3
  <2>5. 1 .. 1 = {1} /\ 1 .. 1 - 1 = {} /\ 1 \in Nat \ {0}
    OBVIOUS
  <2>6. Flatly(feed, b, 1)
    BY <2>1, <2>3, <2>4, <2>5 DEF Flatly
  <2>. QED
    BY <2>6
<1>4. ASSUME NEW p \in Typed!Pieces, feed = <<p>>
      PROVE  \/ \E b, n : Flatly(feed, b, n)
             \/ feed = <<<<"h", "t">>>> \/ feed = <<Typed!Up>> \/ feed = <<<<"esc", "a">>>>
  <2>1. p \in Single => \E x \in Letters \cup {"enter", "back", "kill", "tab"} : p = <<x>>
    BY DEF Single
  <2>. QED
    BY <1>3, <1>4, <2>1, PiecesAre, Zenon
<1>5. ASSUME NEW p \in Typed!Pastes
      PROVE  \E m \in Nat \ {0} : \E c \in [1 .. m -> Letters] :
                DOMAIN p = 1 .. m /\ Len(p) = m /\ p \in Seq({<<l>> : l \in Letters}) /\ \A i \in 1 .. m : p[i] = <<c[i]>>
  <2>1. PICK m \in 1 .. MaxFeed : p \in [1 .. m -> {<<l>> : l \in Letters}]
    BY DEF Typed!Pastes
  <2>2. m \in Nat \ {0}
    BY DEF KeysAre
  <2>3. p \in Seq({<<l>> : l \in Letters}) /\ DOMAIN p = 1 .. m /\ Len(p) = m
    BY <2>1, <2>2
  <2>4. PICK c : c = [i \in 1 .. m |-> CHOOSE l \in Letters : p[i] = <<l>>]
    OBVIOUS
  <2>5. \A i \in 1 .. m : \E l \in Letters : p[i] = <<l>>
    BY <2>1
  <2>6. \A i \in 1 .. m : c[i] \in Letters /\ p[i] = <<c[i]>>
    BY <2>4, <2>5
  <2>7. c \in [1 .. m -> Letters]
    BY <2>4, <2>6
  <2>. QED
    BY <2>2, <2>3, <2>6, <2>7
<1>6. ASSUME feed \in Typed!Pastes PROVE \E b, n : Flatly(feed, b, n)
  <2>1. PICK m \in Nat \ {0} : \E c \in [1 .. m -> Letters] :
          DOMAIN feed = 1 .. m /\ Len(feed) = m /\ feed \in Seq({<<l>> : l \in Letters}) /\ \A i \in 1 .. m : feed[i] = <<c[i]>>
    BY <1>5, <1>6
  <2>2. PICK c \in [1 .. m -> Letters] :
          DOMAIN feed = 1 .. m /\ Len(feed) = m /\ feed \in Seq({<<l>> : l \in Letters}) /\ \A i \in 1 .. m : feed[i] = <<c[i]>>
    BY <2>1
  <2>3. c \in Seq(Key) /\ Len(c) = m
    <3>1. c \in [1 .. m -> Key]
      BY <1>1
    <3>. QED
      BY <3>1
  <2>4. \A i \in 1 .. m : c[i] \in Letters /\ feed[i] \in Typed!Pieces
    BY <1>1, <2>2
  <2>5. m \in 1 .. m /\ \A i \in 1 .. m - 1 : i \in 1 .. m
    OBVIOUS
  <2>6. Flatly(feed, c, m)
    BY <2>2, <2>3, <2>4, <2>5 DEF Flatly
  <2>. QED
    BY <2>6
<1>7. ASSUME NEW p \in Typed!Pastes, feed = Append(p, <<"enter">>) PROVE \E b, n : Flatly(feed, b, n)
  <2>1. PICK m \in Nat \ {0} : \E c \in [1 .. m -> Letters] :
          DOMAIN p = 1 .. m /\ Len(p) = m /\ p \in Seq({<<l>> : l \in Letters}) /\ \A i \in 1 .. m : p[i] = <<c[i]>>
    BY <1>5
  <2>2. PICK c \in [1 .. m -> Letters] :
          DOMAIN p = 1 .. m /\ Len(p) = m /\ p \in Seq({<<l>> : l \in Letters}) /\ \A i \in 1 .. m : p[i] = <<c[i]>>
    BY <2>1
  <2>3. PICK n \in Nat \ {0} : n = m + 1
    OBVIOUS
  <2>4. PICK b : b = [i \in 1 .. n |-> IF i = n THEN "enter" ELSE c[i]]
    OBVIOUS
  <2>5. \A i \in 1 .. n : i # n => i \in 1 .. m
    BY <2>3
  <2>6. b \in Seq(Key) /\ Len(b) = n
    <3>1. b \in [1 .. n -> Key]
      BY <1>1, <1>2, <2>4, <2>5
    <3>. QED
      BY <2>4, <3>1
  <2>7. DOMAIN feed = 1 .. n /\ Len(feed) = n /\ feed[n] = <<"enter">> /\ \A i \in 1 .. m : feed[i] = p[i]
    BY <1>7, <2>2, <2>3
  <2>8. b[n] = "enter" /\ \A i \in 1 .. n : i # n => b[i] = c[i] /\ b[i] \in Letters
    BY <2>3, <2>4, <2>5
  <2>9. \A i \in 1 .. n : feed[i] = <<b[i]>> /\ feed[i] \in Typed!Pieces
    BY <1>1, <1>2, <2>2, <2>5, <2>7, <2>8
  <2>10. \A i \in 1 .. n - 1 : i \in 1 .. n /\ i # n
    OBVIOUS
  <2>11. Flatly(feed, b, n)
    BY <2>6, <2>7, <2>8, <2>9, <2>10 DEF Flatly
  <2>. QED
    BY <2>11
<1>. QED
  BY <1>4, <1>6, <1>7 DEF Typed!Feeds

\* What is kept while letters are typed.
Carried(e, a, l, e2, a2, l2) ==
  /\ e2.plain = e.plain /\ Len(e2.text) >= Len(e.text)
  /\ a2.line = a.line
  /\ l2.prompt = l.prompt /\ l2.trusted = l.trusted /\ l2.cmd = l.cmd

\* What all three make of a write of one-byte pieces: letters, then the last.
LEMMA FlatWrite ==
  ASSUME KeysAre, NEW e, NEW a, NEW l, Same(e, a, l), NEW feed, NEW b, NEW n, Flatly(feed, b, n), NEW line
  PROVE  \E e1, a1, l1 :
           /\ Same(e1, a1, l1) /\ Carried(e, a, l, e1, a1, l1)
           /\ Edited(e, feed) = Typed!Edit(e1, <<b[n]>>)
           /\ Assembled(a, b) = Typed!Assemble(a1, b[n])
           /\ Looked(l, b, line) = Typed!Learn(l1, b[n], line)
<1>1. /\ n \in Nat \ {0} /\ DOMAIN feed = 1 .. n /\ Len(feed) = n /\ b \in Seq(Key) /\ Len(b) = n
      /\ \A i \in 1 .. n : feed[i] = <<b[i]>> /\ feed[i] \in Typed!Pieces
      /\ \A i \in 1 .. n - 1 : b[i] \in Letters
  BY DEF Flatly
<1>2. DOMAIN b = 1 .. n /\ \A i \in 1 .. n : b[i] \in Key
  BY <1>1
<1>3. e \in Line /\ a \in Rebuilt /\ l \in Learned
  BY DEF Same
<1>14. Made(feed, n, Typed!Pieces) /\ Made(b, n, Key)
  BY <1>1, <1>2 DEF Made
<1>15. PICK he : EditRuns(he, e, feed, n)
  BY <1>3, <1>14, EditRun
<1>16. PICK ha : AssembleRuns(ha, a, b, n)
  BY <1>3, <1>14, AssembleRun
<1>17. PICK hl : LearnRuns(hl, l, b, n, line)
  BY <1>3, <1>14, LearnRun
<1>4. he[0] = e /\ he[n] = Edited(e, feed) /\ \A i \in 0 .. n - 1 : he[i + 1] = Typed!Edit(he[i], feed[i + 1])
  BY <1>15 DEF EditRuns
<1>5. ha[0] = a /\ ha[n] = Assembled(a, b) /\ \A i \in 0 .. n - 1 : ha[i + 1] = Typed!Assemble(ha[i], b[i + 1])
  BY <1>16 DEF AssembleRuns
<1>6. hl[0] = l /\ hl[n] = Looked(l, b, line) /\ \A i \in 0 .. n - 1 : hl[i + 1] = Typed!Learn(hl[i], b[i + 1], line)
  BY <1>17 DEF LearnRuns
<1>. DEFINE Agreed(i) == Same(he[i], ha[i], hl[i]) /\ Carried(e, a, l, he[i], ha[i], hl[i])
            Fit == {i \in Nat : i <= n - 1 => Agreed(i)}
<1>7. 0 \in Fit
  <2>1. Len(e.text) >= Len(e.text)
    BY <1>3 DEF Line
  <2>. QED
    BY <1>4, <1>5, <1>6, <2>1 DEF Carried
<1>8. ASSUME NEW i \in Nat, i \in Fit PROVE i + 1 \in Fit
  <2>. SUFFICES ASSUME i + 1 <= n - 1 PROVE Agreed(i + 1)
    OBVIOUS
  <2>1. Agreed(i) /\ i \in 0 .. n - 1 /\ i + 1 \in 1 .. n /\ i + 1 \in 1 .. n - 1
    BY <1>1, <1>8
  <2>2. PICK x \in Letters : x = b[i + 1] /\ feed[i + 1] = <<x>>
    BY <1>1, <2>1
  <2>3. /\ he[i + 1] = Typed!Edit(he[i], <<x>>) /\ ha[i + 1] = Typed!Assemble(ha[i], x)
        /\ hl[i + 1] = Typed!Learn(hl[i], x, line)
    BY <1>4, <1>5, <1>6, <2>1, <2>2
  <2>4. PICK p, q, r : p = he[i] /\ q = ha[i] /\ r = hl[i]
    OBVIOUS
  <2>5. PICK p2, q2, r2 : p2 = he[i + 1] /\ q2 = ha[i + 1] /\ r2 = hl[i + 1]
    OBVIOUS
  <2>6. Same(p, q, r) /\ Carried(e, a, l, p, q, r)
    BY <2>1, <2>4
  <2>7. p2 = Typed!Edit(p, <<x>>) /\ q2 = Typed!Assemble(q, x) /\ r2 = Typed!Learn(r, x, line)
    BY <2>3, <2>4, <2>5, Zenon
  <2>8. Same(p2, q2, r2) /\ Longer(p, q, r, p2, q2, r2)
    BY <2>6, <2>7, LetterStep
  <2>9. p.text \in Seq(Sign) /\ p2.text \in Seq(Sign) /\ e.text \in Seq(Sign)
    BY <1>3, <2>6, <2>8 DEF Same, Line
  <2>10. Carried(e, a, l, p2, q2, r2)
    BY <2>6, <2>8, <2>9 DEF Carried, Longer
  <2>. QED
    BY <2>5, <2>8, <2>10
<1>9. Nat \subseteq Fit
  <2>. HIDE DEF Fit
  <2>. QED
    BY <1>7, <1>8, UpToAll
<1>10. n - 1 \in Nat /\ n - 1 \in 0 .. n - 1 /\ (n - 1) + 1 = n /\ n \in 1 .. n
  BY <1>1
<1>11. Agreed(n - 1)
  BY <1>9, <1>10
<1>12. /\ he[n] = Typed!Edit(he[n - 1], feed[n]) /\ ha[n] = Typed!Assemble(ha[n - 1], b[n])
       /\ hl[n] = Typed!Learn(hl[n - 1], b[n], line) /\ feed[n] = <<b[n]>>
  BY <1>1, <1>4, <1>5, <1>6, <1>10
<1>13. WITNESS he[n - 1], ha[n - 1], hl[n - 1]
<1>. QED
  BY <1>4, <1>5, <1>6, <1>11, <1>12

(* A write of one key that is several bytes.                               *)
LEMMA OneKey ==
  ASSUME KeysAre, NEW e \in Line, NEW p \in Typed!Pieces, NEW feed, feed = <<p>>
  PROVE  Typed!FlattenSeq(feed) = p /\ Edited(e, feed) = Typed!Edit(e, p)
<1>1. DOMAIN feed = 1 .. 1 /\ Len(feed) = 1 /\ feed[1] = p /\ 1 \in Nat \ {0} /\ 1 .. 1 = {1} /\ 0 .. 1 - 1 = {0} /\ 0 + 1 = 1
  OBVIOUS
<1>2. Made(feed, 1, Typed!Pieces)
  BY <1>1 DEF Made
<1>3. PICK h : EditRuns(h, e, feed, 1)
  BY <1>2, EditRun
<1>4. h[0] = e /\ h[1] = Edited(e, feed) /\ h[0 + 1] = Typed!Edit(h[0], feed[0 + 1])
  BY <1>1, <1>3 DEF EditRuns
<1>5. Edited(e, feed) = Typed!Edit(e, p)
  BY <1>1, <1>4
<1>6. PICK f : Typed!FlattenSeq(feed) = f[1] /\ f[1] = feed[1]
  BY <1>1, FlatIs
<1>. QED
  BY <1>1, <1>5, <1>6

LEMMA TwoBytes ==
  ASSUME KeysAre, NEW a \in Rebuilt, NEW l \in Learned, NEW line, NEW x \in Key, NEW y \in Key, NEW p, p = <<x, y>>
  PROVE  /\ Assembled(a, p) = Typed!Assemble(Typed!Assemble(a, x), y)
         /\ Looked(l, p, line) = Typed!Learn(Typed!Learn(l, x, line), y, line)
<1>1. DOMAIN p = 1 .. 2 /\ p[1] = x /\ p[2] = y /\ 1 .. 2 = {1, 2} /\ 0 \in 0 .. 2 - 1 /\ 1 \in 0 .. 2 - 1 /\ 0 + 1 = 1 /\ 1 + 1 = 2
  OBVIOUS
<1>2. Made(p, 2, Key)
  BY <1>1 DEF Made
<1>3. PICK h : AssembleRuns(h, a, p, 2)
  BY <1>2, AssembleRun
<1>4. h[0] = a /\ h[2] = Assembled(a, p) /\ h[0 + 1] = Typed!Assemble(h[0], p[0 + 1]) /\ h[1 + 1] = Typed!Assemble(h[1], p[1 + 1])
  BY <1>1, <1>3 DEF AssembleRuns
<1>5. PICK g : LearnRuns(g, l, p, 2, line)
  BY <1>2, LearnRun
<1>6. g[0] = l /\ g[2] = Looked(l, p, line) /\ g[0 + 1] = Typed!Learn(g[0], p[0 + 1], line) /\ g[1 + 1] = Typed!Learn(g[1], p[1 + 1], line)
  BY <1>1, <1>5 DEF LearnRuns
<1>. QED
  BY <1>1, <1>4, <1>6

LEMMA ThreeBytes ==
  ASSUME KeysAre, NEW a \in Rebuilt, NEW l \in Learned, NEW line,
         NEW x \in Key, NEW y \in Key, NEW z \in Key, NEW p, p = <<x, y, z>>
  PROVE  /\ Assembled(a, p) = Typed!Assemble(Typed!Assemble(Typed!Assemble(a, x), y), z)
         /\ Looked(l, p, line) = Typed!Learn(Typed!Learn(Typed!Learn(l, x, line), y, line), z, line)
<1>1. /\ DOMAIN p = 1 .. 3 /\ p[1] = x /\ p[2] = y /\ p[3] = z /\ 1 .. 3 = {1, 2, 3}
      /\ 0 \in 0 .. 3 - 1 /\ 1 \in 0 .. 3 - 1 /\ 2 \in 0 .. 3 - 1 /\ 0 + 1 = 1 /\ 1 + 1 = 2 /\ 2 + 1 = 3
  OBVIOUS
<1>2. Made(p, 3, Key)
  BY <1>1 DEF Made
<1>3. PICK h : AssembleRuns(h, a, p, 3)
  BY <1>2, AssembleRun
<1>4. /\ h[0] = a /\ h[3] = Assembled(a, p) /\ h[0 + 1] = Typed!Assemble(h[0], p[0 + 1])
      /\ h[1 + 1] = Typed!Assemble(h[1], p[1 + 1]) /\ h[2 + 1] = Typed!Assemble(h[2], p[2 + 1])
  BY <1>1, <1>3 DEF AssembleRuns
<1>5. PICK g : LearnRuns(g, l, p, 3, line)
  BY <1>2, LearnRun
<1>6. /\ g[0] = l /\ g[3] = Looked(l, p, line) /\ g[0 + 1] = Typed!Learn(g[0], p[0 + 1], line)
      /\ g[1 + 1] = Typed!Learn(g[1], p[1 + 1], line) /\ g[2 + 1] = Typed!Learn(g[2], p[2 + 1], line)
  BY <1>1, <1>5 DEF LearnRuns
<1>. QED
  BY <1>1, <1>4, <1>6

LEMMA OddWrite ==
  ASSUME KeysAre, NEW e, NEW a, NEW l, Same(e, a, l), NEW p \in {<<"h", "t">>, Typed!Up, <<"esc", "a">>},
         NEW feed, feed = <<p>>, NEW line, NEW e2, e2 = Edited(e, feed), NEW a2, a2 = Assembled(a, p), NEW l2, l2 = Looked(l, p, line)
  PROVE  Typed!FlattenSeq(feed) = p /\ Same(e2, a2, l2) /\ Quiet(e, a, l, e2, a2, l2)
<1>1. /\ e \in Line /\ a \in Rebuilt /\ l \in Learned /\ a.esc = "none"
      /\ e.plain => e.text = a.buf /\ e.text = l.bytes
  BY DEF Same
<1>2. p \in Typed!Pieces
  BY DEF Typed!Pieces
<1>3. Typed!FlattenSeq(feed) = p /\ e2 = Typed!Edit(e, p)
  BY <1>1, <1>2, OneKey
<1>4. e2 \in Line
  BY <1>1, <1>2, <1>3, EditTyped
<1>5. "h" \in Key /\ "t" \in Key /\ "esc" \in Key /\ "a" \in Key /\ "[" \in Key /\ "A" \in Key
  BY DEF Key, Special
<1>6. CASE p = <<"h", "t">>
  <2>1. PICK a1 : a1 = Typed!Assemble(a, "h")
    OBVIOUS
  <2>2. PICK l1 : l1 = Typed!Learn(l, "h", line)
    OBVIOUS
  <2>3. a1 \in Rebuilt /\ l1 \in Learned
    BY <1>1, <1>5, <2>1, <2>2, AssembleTyped, LearnTyped
  <2>4. a2 = Typed!Assemble(a1, "t") /\ l2 = Typed!Learn(l1, "t", line)
    BY <1>1, <1>5, <1>6, <2>1, <2>2, TwoBytes
  <2>5. a2 \in Rebuilt /\ l2 \in Learned
    BY <1>5, <2>3, <2>4, AssembleTyped, LearnTyped
  <2>6. a1 = [a EXCEPT !.buf = Append(a.buf, "h")] /\ l1 = [l EXCEPT !.bytes = Append(l.bytes, "h")]
    BY <1>1, <2>1, <2>2 DEF Typed!Assemble, Typed!Learn
  <2>7. /\ a1.esc = "none" /\ a1.buf = Append(a.buf, "h") /\ a1.line = a.line
        /\ l1.bytes = Append(l.bytes, "h") /\ l1.prompt = l.prompt /\ l1.trusted = l.trusted /\ l1.cmd = l.cmd
    BY <1>1, <2>6 DEF Rebuilt, Learned
  <2>8. a2 = [a1 EXCEPT !.buf = Append(a1.buf, "t")] /\ l2 = [l1 EXCEPT !.bytes = Append(l1.bytes, "t")]
    BY <2>4, <2>7 DEF Typed!Assemble, Typed!Learn
  <2>9. /\ a2.esc = "none" /\ a2.buf = Append(a1.buf, "t") /\ a2.line = a.line
        /\ l2.bytes = Append(l1.bytes, "t") /\ l2.prompt = l.prompt /\ l2.trusted = l.trusted /\ l2.cmd = l.cmd
    BY <2>3, <2>7, <2>8 DEF Rebuilt, Learned
  <2>10. e2.text = e.text \o <<"h", "t">> /\ e2.plain = e.plain
    <3>1. e2 = [e EXCEPT !.text = e.text \o <<"h", "t">>]
      BY <1>3, <1>6, EditIs
    <3>. QED
      BY <1>1, <3>1 DEF Line
  <2>11. \A s \in Seq(Sign) : Append(Append(s, "h"), "t") = s \o <<"h", "t">>
    BY <1>5 DEF Sign
  <2>12. e.text \in Seq(Sign)
    BY <1>1 DEF Line
  <2>13. e2.plain => e2.text = a2.buf /\ e2.text = l2.bytes
    BY <1>1, <2>7, <2>9, <2>10, <2>11, <2>12
  <2>. QED
    BY <1>3, <1>4, <2>5, <2>9, <2>10, <2>13 DEF Same, Quiet
<1>7. CASE p = Typed!Up
  <2>1. PICK a1, a3 : a1 = Typed!Assemble(a, "esc") /\ a3 = Typed!Assemble(a1, "[")
    OBVIOUS
  <2>2. PICK l1, l3 : l1 = Typed!Learn(l, "esc", line) /\ l3 = Typed!Learn(l1, "[", line)
    OBVIOUS
  <2>3. a1 \in Rebuilt /\ l1 \in Learned
    BY <1>1, <1>5, <2>1, <2>2, AssembleTyped, LearnTyped
  <2>4. a3 \in Rebuilt /\ l3 \in Learned
    BY <1>5, <2>1, <2>2, <2>3, AssembleTyped, LearnTyped
  <2>5. a2 = Typed!Assemble(a3, "A") /\ l2 = Typed!Learn(l3, "A", line)
    BY <1>1, <1>5, <1>7, <2>1, <2>2, ThreeBytes DEF Typed!Up
  <2>6. a2 \in Rebuilt /\ l2 \in Learned
    BY <1>5, <2>4, <2>5, AssembleTyped, LearnTyped
  <2>7. a1 = [a EXCEPT !.esc = "intro"] /\ l1 = [l EXCEPT !.trusted = FALSE]
    BY <1>1, <2>1, <2>2 DEF Typed!Assemble, Typed!Learn
  <2>8. /\ a1.esc = "intro" /\ a1.line = a.line
        /\ l1.prompt = l.prompt /\ l1.trusted = FALSE /\ l1.cmd = l.cmd
    BY <1>1, <2>7 DEF Rebuilt, Learned
  <2>9. a3 = [a1 EXCEPT !.esc = "csi"] /\ l3 = [l1 EXCEPT !.bytes = Append(l1.bytes, "[")]
    BY <2>1, <2>2, <2>8 DEF Typed!Assemble, Typed!Learn, Typed!Escape
  <2>10. /\ a3.esc = "csi" /\ a3.line = a.line
         /\ l3.prompt = l.prompt /\ l3.trusted = FALSE /\ l3.cmd = l.cmd
    BY <2>3, <2>8, <2>9 DEF Rebuilt, Learned
  <2>11. a2 = [a3 EXCEPT !.esc = "none"] /\ l2 = [l3 EXCEPT !.bytes = Append(l3.bytes, "A")]
    BY <2>5, <2>10 DEF Typed!Assemble, Typed!Learn, Typed!Escape
  <2>12. /\ a2.esc = "none" /\ a2.line = a.line
         /\ l2.prompt = l.prompt /\ l2.trusted = FALSE /\ l2.cmd = l.cmd
    BY <2>4, <2>10, <2>11 DEF Rebuilt, Learned
  <2>13. e2.plain = FALSE
    <3>1. PICK c : c = IF mode = "shell" THEN Typed!Recalled ELSE e.text
      OBVIOUS
    <3>2. e2 = [text |-> c, plain |-> FALSE]
      BY <1>3, <1>7, <3>1, EditIs, Zenon
    <3>. QED
      BY <3>2
  <2>. QED
    BY <1>3, <1>4, <2>6, <2>12, <2>13 DEF Same, Quiet
<1>8. CASE p = <<"esc", "a">>
  <2>1. PICK a1 : a1 = Typed!Assemble(a, "esc")
    OBVIOUS
  <2>2. PICK l1 : l1 = Typed!Learn(l, "esc", line)
    OBVIOUS
  <2>3. a1 \in Rebuilt /\ l1 \in Learned
    BY <1>1, <1>5, <2>1, <2>2, AssembleTyped, LearnTyped
  <2>4. a2 = Typed!Assemble(a1, "a") /\ l2 = Typed!Learn(l1, "a", line)
    BY <1>1, <1>5, <1>8, <2>1, <2>2, TwoBytes
  <2>5. a2 \in Rebuilt /\ l2 \in Learned
    BY <1>5, <2>3, <2>4, AssembleTyped, LearnTyped
  <2>6. a1 = [a EXCEPT !.esc = "intro"] /\ l1 = [l EXCEPT !.trusted = FALSE]
    BY <1>1, <2>1, <2>2 DEF Typed!Assemble, Typed!Learn
  <2>7. /\ a1.esc = "intro" /\ a1.line = a.line
        /\ l1.prompt = l.prompt /\ l1.trusted = FALSE /\ l1.cmd = l.cmd
    BY <1>1, <2>6 DEF Rebuilt, Learned
  <2>8. a2 = [a1 EXCEPT !.esc = "none"] /\ l2 = [l1 EXCEPT !.bytes = Append(l1.bytes, "a")]
    BY <2>4, <2>7 DEF Typed!Assemble, Typed!Learn, Typed!Escape
  <2>9. /\ a2.esc = "none" /\ a2.line = a.line
        /\ l2.prompt = l.prompt /\ l2.trusted = FALSE /\ l2.cmd = l.cmd
    BY <2>3, <2>7, <2>8 DEF Rebuilt, Learned
  <2>10. e2.plain = FALSE
    <3>1. e2 = [e EXCEPT !.plain = FALSE]
      BY <1>3, <1>8, EditIs
    <3>. QED
      BY <1>1, <3>1 DEF Line
  <2>. QED
    BY <1>3, <1>4, <2>5, <2>9, <2>10 DEF Same, Quiet
<1>. QED
  BY <1>6, <1>7, <1>8

-----------------------------------------------------------------------------
(* The line that is looked at, and the prompt that is kept of it.          *)
LEMMA AskIs ==
  /\ Typed!Ask["shell"] = <<"$">> /\ Typed!Ask["password"] = <<"s", "w">> /\ Typed!Ask["question"] = <<"?">>
  /\ Typed!Mode = {"shell", "password", "question", "screen"}
BY DEF Typed!Ask, Typed!Mode

Prompted(e, l) ==
  l.trusted => /\ l.prompt # <<>> /\ (Len(l.prompt) = 1 => l.prompt[1] # "s")
               /\ e.plain => l.prompt \in Prompts

TypedInv ==
  /\ mode \in Typed!Mode
  /\ Same(editor, assembler, learning)
  /\ Prompted(editor, learning)
  /\ Typed!LinesAreNotMistaken

LEMMA LineIs ==
  ASSUME mode \in Typed!Mode, editor \in Line, NEW line \in Typed!Lines
  PROVE  /\ line.on \in BOOLEAN /\ line.text \in Seq(Sign)
         /\ line.on => mode # "screen"
         /\ mode = "password" => line.text = <<"s", "w">>
         /\ mode # "screen" => \E k \in 0 .. Len(editor.text) : line.text = Typed!Ask[mode] \o SubSeq(editor.text, 1, k)
<1>1. editor.text \in Seq(Sign) /\ Len(editor.text) \in Nat
  BY DEF Line
<1>2. CASE mode = "screen"
  <2>1. line = [on |-> FALSE, text |-> <<>>]
    BY <1>2 DEF Typed!Lines, Typed!NoLine
  <2>. QED
    BY <1>2, <2>1
<1>3. CASE mode # "screen"
  <2>1. PICK k \in 0 .. (IF mode = "password" THEN 0 ELSE Len(editor.text)) :
          line = [on |-> TRUE, text |-> Typed!Ask[mode] \o SubSeq(editor.text, 1, k)]
    BY <1>3 DEF Typed!Lines
  <2>2. k \in 0 .. Len(editor.text) /\ (mode = "password" => k = 0)
    BY <1>1, <2>1
  <2>3. line.on = TRUE /\ line.text = Typed!Ask[mode] \o SubSeq(editor.text, 1, k)
    BY <2>1
  <2>4. SubSeq(editor.text, 1, k) \in Seq(Sign) /\ (k = 0 => SubSeq(editor.text, 1, k) = <<>>)
    BY <1>1, <2>2
  <2>5. mode = "shell" \/ mode = "password" \/ mode = "question"
    BY <1>3, AskIs
  <2>6. <<"$">> \in Seq(Sign) /\ <<"s", "w">> \in Seq(Sign) /\ <<"?">> \in Seq(Sign)
    <3>1. "$" \in Sign /\ "s" \in Sign /\ "w" \in Sign /\ "?" \in Sign
      BY DEF Sign
    <3>. QED
      BY <3>1
  <2>7. Typed!Ask[mode] \in Seq(Sign)
    BY <2>5, <2>6, AskIs
  <2>8. Typed!Ask[mode] \o SubSeq(editor.text, 1, k) \in Seq(Sign)
    BY <2>4, <2>7
  <2>9. mode = "password" => line.text = <<"s", "w">>
    <3>1. <<"s", "w">> \o <<>> = <<"s", "w">>
      BY <2>6, ConcatEmptySeq
    <3>. QED
      BY <2>2, <2>3, <2>4, <3>1, AskIs
  <2>. QED
    BY <1>3, <2>2, <2>3, <2>8, <2>9
<1>. QED
  BY <1>2, <1>3

LEMMA BeginIs ==
  ASSUME TypedInv, NEW line \in Typed!Lines,
         NEW a, a = [assembler EXCEPT !.line = <<>>], NEW l, l = Typed!Begin(learning, line)
  PROVE  Same(editor, a, l) /\ Prompted(editor, l) /\ a.line = <<>> /\ l.cmd = <<>>
<1>1. /\ mode \in Typed!Mode /\ editor \in Line /\ assembler \in Rebuilt /\ learning \in Learned
      /\ assembler.esc = "none" /\ (editor.plain => editor.text = assembler.buf /\ editor.text = learning.bytes)
      /\ Prompted(editor, learning)
  BY DEF TypedInv, Same
<1>2. /\ line.on \in BOOLEAN /\ line.text \in Seq(Sign)
      /\ line.on => mode # "screen"
      /\ mode = "password" => line.text = <<"s", "w">>
      /\ mode # "screen" => \E k \in 0 .. Len(editor.text) : line.text = Typed!Ask[mode] \o SubSeq(editor.text, 1, k)
  BY <1>1, LineIs
<1>3. a \in Rebuilt /\ a.esc = assembler.esc /\ a.buf = assembler.buf /\ a.line = <<>>
  <2>1. <<>> \in Seq(Key)
    OBVIOUS
  <2>. QED
    BY <1>1, <2>1 DEF Rebuilt
<1>4. CASE learning.bytes = <<>>
  <2>1. l = [learning EXCEPT !.trusted = line.on, !.prompt = line.text, !.cmd = <<>>]
    BY <1>4 DEF Typed!Begin
  <2>2. l \in Learned /\ l.bytes = learning.bytes /\ l.cmd = <<>> /\ l.trusted = line.on /\ l.prompt = line.text
    <3>1. <<>> \in Seq(Key)
      OBVIOUS
    <3>. QED
      BY <1>1, <1>2, <2>1, <3>1 DEF Learned
  <2>3. ASSUME line.on
        PROVE  /\ line.text # <<>> /\ (Len(line.text) = 1 => line.text[1] # "s")
               /\ editor.plain => line.text \in Prompts
    <3>1. mode # "screen"
      BY <1>2, <2>3
    <3>2. PICK k \in 0 .. Len(editor.text) : line.text = Typed!Ask[mode] \o SubSeq(editor.text, 1, k)
      BY <1>2, <3>1
    <3>3. mode = "shell" \/ mode = "password" \/ mode = "question"
      BY <1>1, <3>1, AskIs
    <3>4. PICK v \in Seq(Sign) : v = SubSeq(editor.text, 1, k)
      <4>1. SubSeq(editor.text, 1, k) \in Seq(Sign)
        BY <1>1 DEF Line
      <4>. QED
        BY <4>1
    <3>5. PICK t \in Seq(Sign) : t = line.text
      BY <1>2
    <3>6. CASE mode = "password"
      <4>1. Len(t) = 2 /\ t # <<>>
        <5>1. t = <<"s", "w">>
          BY <1>2, <3>5, <3>6
        <5>2. Len(<<"s", "w">>) = 2
          OBVIOUS
        <5>3. t = <<>> => Len(t) = 0
          OBVIOUS
        <5>. QED
          BY <5>1, <5>2, <5>3
      <4>. QED
        BY <1>2, <3>5, <3>6, <4>1 DEF Prompts
    <3>7. ASSUME NEW x \in {"$", "?"}, Typed!Ask[mode] = <<x>>
          PROVE  t[1] = x /\ Len(t) # 0 /\ (editor.plain => t = <<x>>)
      <4>1. t = <<x>> \o v /\ x \in Sign
        BY <3>2, <3>4, <3>5, <3>7 DEF Sign
      <4>2. t[1] = x /\ Len(t) # 0
        BY <4>1
      <4>3. ASSUME editor.plain PROVE t = <<x>>
        <5>1. editor.text = <<>>
          BY <1>1, <1>4, <4>3
        <5>2. v = <<>>
          BY <3>4, <5>1
        <5>3. <<x>> \in Seq(Sign)
          BY <4>1
        <5>. QED
          BY <4>1, <5>2, <5>3, ConcatEmptySeq
      <4>. QED
        BY <4>2, <4>3
    <3>8. CASE mode # "password"
      <4>1. PICK x \in {"$", "?"} : Typed!Ask[mode] = <<x>>
        BY <3>3, <3>8, AskIs
      <4>2. t[1] = x /\ Len(t) # 0 /\ (editor.plain => t = <<x>>)
        BY <3>7, <4>1
      <4>3. t # <<>>
        <5>1. t = <<>> => Len(t) = 0
          OBVIOUS
        <5>. QED
          BY <4>2, <5>1
      <4>. QED
        BY <3>5, <4>2, <4>3 DEF Prompts
    <3>. QED
      BY <3>6, <3>8
  <2>. QED
    BY <1>1, <1>3, <2>2, <2>3 DEF Same, Prompted
<1>5. CASE learning.bytes # <<>>
  <2>1. l = [learning EXCEPT !.cmd = <<>>]
    BY <1>5 DEF Typed!Begin
  <2>2. l \in Learned /\ l.bytes = learning.bytes /\ l.cmd = <<>> /\ l.trusted = learning.trusted /\ l.prompt = learning.prompt
    <3>1. <<>> \in Seq(Key)
      OBVIOUS
    <3>. QED
      BY <1>1, <2>1, <3>1 DEF Learned
  <2>. QED
    BY <1>1, <1>3, <2>2 DEF Same, Prompted
<1>. QED
  BY <1>4, <1>5

\* What a write leaves that entered nothing.
Unentered(e, a, l) == Same(e, a, l) /\ Prompted(e, l) /\ a.line = <<>> /\ l.cmd = <<>>

\* What one leaves that entered the line e.
Committed(e, a, l, line) ==
  /\ a \in Rebuilt /\ l \in Learned /\ a.esc = "none" /\ a.buf = <<>> /\ l.bytes = <<>> /\ l.trusted = FALSE
  /\ e.plain /\ a.line # <<>> => a.line = e.text
  /\ e.plain /\ l.cmd # <<>> => l.cmd = e.text /\ (mode = "question" => "?" \in Typed!Range(l.cmd))
  /\ mode = "password" /\ l.cmd # <<>> => Typed!IsSuffix(l.cmd, line.text) \/ Typed!IsSuffix(line.text, l.cmd)

LEMMA WriteIs ==
  ASSUME KeysAre, TypedInv, NEW feed \in Typed!Feeds, NEW line \in Typed!Lines,
         NEW bytes, bytes = Typed!FlattenSeq(feed),
         NEW a, a = [assembler EXCEPT !.line = <<>>], NEW l, l = Typed!Begin(learning, line),
         NEW e2, e2 = Edited(editor, feed), NEW a2, a2 = Assembled(a, bytes), NEW l2, l2 = Looked(l, bytes, line)
  PROVE  IF Typed!Last(feed) = <<"enter">> THEN Committed(e2, a2, l2, line) ELSE Unentered(e2, a2, l2)
<1>1. Same(editor, a, l) /\ Prompted(editor, l) /\ a.line = <<>> /\ l.cmd = <<>>
  BY BeginIs
<1>2. mode \in Typed!Mode /\ editor \in Line /\ editor.text \in Seq(Sign)
  BY DEF TypedInv, Same, Line
<1>3. /\ line.on => mode # "screen"
      /\ mode = "password" => line.text = <<"s", "w">>
      /\ mode # "screen" => \E k \in 0 .. Len(editor.text) : line.text = Typed!Ask[mode] \o SubSeq(editor.text, 1, k)
  BY <1>2, LineIs
<1>4. ASSUME NEW p \in {<<"h", "t">>, Typed!Up, <<"esc", "a">>}, feed = <<p>>
      PROVE  Typed!Last(feed) # <<"enter">> /\ Unentered(e2, a2, l2)
  <2>1. Typed!Last(feed) = p
    BY <1>4 DEF Typed!Last
  <2>2. p # <<"enter">>
    <3>1. Len(p) # 1
      BY Lengths
    <3>2. Len(<<"enter">>) = 1
      OBVIOUS
    <3>. QED
      BY <3>1, <3>2
  <2>3. Typed!FlattenSeq(feed) = p
    <3>1. p \in Typed!Pieces
      BY DEF Typed!Pieces
    <3>. QED
      BY <1>2, <1>4, <3>1, OneKey
  <2>4. a2 = Assembled(a, p) /\ l2 = Looked(l, p, line)
    BY <2>3
  <2>5. Same(e2, a2, l2) /\ Quiet(editor, a, l, e2, a2, l2)
    BY <1>1, <1>4, <2>4, OddWrite
  <2>. QED
    BY <1>1, <2>1, <2>2, <2>5 DEF Unentered, Quiet, Prompted
<1>5. ASSUME NEW b, NEW n, Flatly(feed, b, n)
      PROVE  IF Typed!Last(feed) = <<"enter">> THEN Committed(e2, a2, l2, line) ELSE Unentered(e2, a2, l2)
  <2>1. bytes = b
    BY <1>5, FlatBytes
  <2>2. PICK x : x = b[n]
    OBVIOUS
  <2>3. Typed!Last(feed) = <<x>> /\ x \in Letters \cup {"enter", "back", "kill", "tab"}
    <3>1. n \in 1 .. n /\ Len(feed) = n /\ \A i \in 1 .. n : feed[i] = <<b[i]>>
      BY <1>5 DEF Flatly
    <3>2. feed[n] = <<b[n]>>
      BY <3>1
    <3>. QED
      BY <1>5, <2>2, <3>1, <3>2 DEF Flatly, Typed!Last
  <2>4. PICK e1, a1, l1 :
           /\ Same(e1, a1, l1) /\ Carried(editor, a, l, e1, a1, l1)
           /\ Edited(editor, feed) = Typed!Edit(e1, <<b[n]>>)
           /\ Assembled(a, b) = Typed!Assemble(a1, b[n])
           /\ Looked(l, b, line) = Typed!Learn(l1, b[n], line)
    BY <1>1, <1>5, FlatWrite
  <2>5. e2 = Typed!Edit(e1, <<x>>) /\ a2 = Typed!Assemble(a1, x) /\ l2 = Typed!Learn(l1, x, line)
    BY <2>1, <2>2, <2>4
  <2>6. Prompted(e1, l1) /\ a1.line = <<>> /\ l1.cmd = <<>>
    BY <1>1, <2>4 DEF Carried, Prompted
  <2>7. <<x>> = <<"enter">> <=> x = "enter"
    OBVIOUS
  <2>8. CASE x \in Letters
    <3>1. Same(e2, a2, l2) /\ Longer(e1, a1, l1, e2, a2, l2)
      BY <2>4, <2>5, <2>8, LetterStep
    <3>2. x # "enter"
      BY <2>8 DEF KeysAre, Special
    <3>. QED
      BY <2>3, <2>6, <2>7, <3>1, <3>2 DEF Unentered, Longer, Prompted
  <2>9. CASE x \in {"back", "kill", "tab"}
    <3>1. Same(e2, a2, l2) /\ Quiet(e1, a1, l1, e2, a2, l2)
      BY <2>4, <2>5, <2>9, ControlStep
    <3>. QED
      BY <2>3, <2>6, <2>7, <2>9, <3>1 DEF Unentered, Quiet, Prompted
  <2>10. CASE x = "enter"
    <3>1. /\ e2 = e1 /\ a2 \in Rebuilt /\ l2 \in Learned
          /\ a2.esc = "none" /\ a2.buf = <<>> /\ a2.line = a1.buf
          /\ l2.bytes = <<>> /\ l2.trusted = FALSE
          /\ l2.cmd # <<>> => l2.cmd = l1.bytes /\ Typed!Ready(l1, line)
      <4>1. e2 = Typed!Edit(e1, <<"enter">>) /\ a2 = Typed!Assemble(a1, "enter") /\ l2 = Typed!Learn(l1, "enter", line)
        BY <2>5, <2>10
      <4>2. Ended(e1, a1, l1, line, e2, a2, l2)
        BY <2>4, <4>1, EnterStep
      <4>. QED
        BY <4>2 DEF Ended
    <3>2. /\ l1 \in Learned
          /\ e1.plain => e1.text = a1.buf /\ e1.text = l1.bytes
      BY <2>4 DEF Same
    <3>3. ASSUME l2.cmd # <<>>
          PROVE  /\ line.on /\ mode # "screen" /\ Typed!Ready(l1, line)
                 /\ l1.prompt # <<>> /\ (Len(l1.prompt) = 1 => l1.prompt[1] # "s")
                 /\ e1.plain => l1.prompt \in Prompts
      <4>1. Typed!Ready(l1, line)
        BY <3>1, <3>3
      <4>2. line.on /\ l1.trusted
        BY <4>1, Zenon DEF Typed!Ready
      <4>. QED
        BY <1>3, <2>6, <4>1, <4>2 DEF Prompted
    <3>4. ASSUME e1.plain, l2.cmd # <<>>, mode = "question" PROVE "?" \in Typed!Range(l2.cmd)
      <4>. SUFFICES ASSUME "?" \notin Typed!Range(l2.cmd) PROVE FALSE
        OBVIOUS
      <4>6. \A i \in 1 .. Len(l1.bytes) : l1.bytes[i] # "?"
        <5>1. l2.cmd = l1.bytes
          BY <3>1, <3>4
        <5>2. DOMAIN l1.bytes = 1 .. Len(l1.bytes)
          BY <3>2 DEF Learned
        <5>. QED
          BY <5>1, <5>2 DEF Typed!Range
      <4>1. PICK k \in 0 .. Len(editor.text) : line.text = <<"?">> \o SubSeq(editor.text, 1, k)
        BY <1>3, <3>3, <3>4, AskIs
      <4>2. Len(l1.bytes) >= Len(editor.text)
        BY <2>4, <3>2, <3>4 DEF Carried
      <4>3. Typed!Ready(l1, line) /\ l1.prompt \in Prompts
        BY <3>3, <3>4
      <4>4. PICK old \in Seq(Sign) : old = editor.text
        BY <1>2
      <4>5. /\ k \in 0 .. Len(old) /\ line.text = <<"?">> \o SubSeq(old, 1, k) /\ Len(l1.bytes) >= Len(old)
        BY <4>1, <4>2, <4>4
      <4>. QED
        BY <3>2, <4>3, <4>5, <4>6, NoAnswer
    <3>5. ASSUME mode = "password", l2.cmd # <<>>
          PROVE  Typed!IsSuffix(l2.cmd, line.text) \/ Typed!IsSuffix(line.text, l2.cmd)
      <4>1. line.text = <<"s", "w">>
        BY <1>3, <3>5
      <4>2. Typed!IsSuffix(l1.bytes, line.text) \/ Typed!IsSuffix(line.text, l1.bytes)
        BY <3>2, <3>3, <3>5, <4>1, NoPassword
      <4>. QED
        BY <3>1, <3>5, <4>2
    <3>6. Committed(e2, a2, l2, line)
      BY <3>1, <3>2, <3>4, <3>5 DEF Committed
    <3>. QED
      BY <2>3, <2>10, <3>6
  <2>. QED
    BY <2>3, <2>8, <2>9, <2>10
<1>. QED
  BY <1>4, <1>5, FeedsAre

-----------------------------------------------------------------------------
LEMMA TypedInit == ASSUME Typed!Init PROVE TypedInv
<1>1. /\ mode = "shell" /\ editor = [text |-> <<>>, plain |-> TRUE] /\ entered = [text |-> <<>>, plain |-> TRUE]
      /\ assembler = [buf |-> <<>>, esc |-> "none", line |-> <<>>]
      /\ learning = [bytes |-> <<>>, prompt |-> <<>>, trusted |-> FALSE, cmd |-> <<>>]
  BY DEF Typed!Init, Typed!Fresh
<1>2. <<>> \in Seq(Key) /\ <<>> \in Seq(Sign)
  OBVIOUS
<1>3. Same(editor, assembler, learning)
  BY <1>1, <1>2 DEF Same, Line, Rebuilt, Learned
<1>4. Prompted(editor, learning)
  BY <1>1 DEF Prompted
<1>5. Typed!LinesAreNotMistaken
  BY <1>1 DEF Typed!LinesAreNotMistaken
<1>. QED
  BY <1>1, <1>3, <1>4, <1>5, AskIs DEF TypedInv

LEMMA TypeKeeps == ASSUME KeysAre, TypedInv, Typed!Type PROVE TypedInv'
<1>1. PICK feed \in Typed!Feeds, line \in Typed!Lines :
        /\ assembler' = Assembled([assembler EXCEPT !.line = <<>>], Typed!FlattenSeq(feed))
        /\ learning' = Looked(Typed!Begin(learning, line), Typed!FlattenSeq(feed), line)
        /\ IF Typed!Last(feed) = <<"enter">>
             THEN entered' = Edited(editor, feed) /\ editor' = Typed!Fresh /\ shown' = line.text
             ELSE entered' = Typed!Fresh /\ editor' = Edited(editor, feed) /\ shown' = <<>>
        /\ mode' = mode
  BY Zenon DEF Typed!Type, Edited, Assembled, Looked
<1>2. PICK bytes : bytes = Typed!FlattenSeq(feed)
  OBVIOUS
<1>3. PICK e2 : e2 = Edited(editor, feed)
  OBVIOUS
<1>4. PICK a, a2 : a = [assembler EXCEPT !.line = <<>>] /\ a2 = Assembled(a, bytes)
  OBVIOUS
<1>5. PICK l, l2 : l = Typed!Begin(learning, line) /\ l2 = Looked(l, bytes, line)
  OBVIOUS
<1>6. IF Typed!Last(feed) = <<"enter">> THEN Committed(e2, a2, l2, line) ELSE Unentered(e2, a2, l2)
  BY <1>2, <1>3, <1>4, <1>5, WriteIs
<1>7. assembler' = a2 /\ learning' = l2 /\ mode' = mode
  BY <1>1, <1>2, <1>4, <1>5
<1>8. mode' \in Typed!Mode
  BY <1>7 DEF TypedInv
<1>9. CASE Typed!Last(feed) = <<"enter">>
  <2>1. entered' = e2 /\ editor' = [text |-> <<>>, plain |-> TRUE] /\ shown' = line.text
    BY <1>1, <1>3, <1>9 DEF Typed!Fresh
  <2>2. Committed(e2, a2, l2, line)
    BY <1>6, <1>9
  <2>3. <<>> \in Seq(Sign)
    OBVIOUS
  <2>4. Same(editor, assembler, learning)'
    BY <1>7, <2>1, <2>2, <2>3 DEF Same, Committed, Line
  <2>5. Prompted(editor, learning)'
    BY <1>7, <2>2 DEF Prompted, Committed
  <2>6. Typed!LinesAreNotMistaken'
    BY <1>7, <2>1, <2>2 DEF Typed!LinesAreNotMistaken, Committed
  <2>. QED
    BY <1>8, <2>4, <2>5, <2>6 DEF TypedInv
<1>10. CASE Typed!Last(feed) # <<"enter">>
  <2>1. entered' = Typed!Fresh /\ editor' = e2
    BY <1>1, <1>3, <1>10
  <2>2. Unentered(e2, a2, l2)
    BY <1>6, <1>10
  <2>3. Same(editor, assembler, learning)' /\ Prompted(editor, learning)'
    BY <1>7, <2>1, <2>2 DEF Unentered, Same, Prompted
  <2>4. Typed!LinesAreNotMistaken'
    BY <1>7, <2>1, <2>2 DEF Typed!LinesAreNotMistaken, Unentered
  <2>. QED
    BY <1>8, <2>3, <2>4 DEF TypedInv
<1>. QED
  BY <1>9, <1>10

LEMMA AsksKeeps == ASSUME TypedInv, Typed!Asks PROVE TypedInv'
<1>1. /\ mode' \in Typed!Mode /\ editor' = editor
      /\ assembler' = [assembler EXCEPT !.line = <<>>] /\ learning' = [learning EXCEPT !.cmd = <<>>]
  BY DEF Typed!Asks
<1>2. Same(editor, assembler, learning) /\ Prompted(editor, learning)
  BY DEF TypedInv
<1>3. <<>> \in Seq(Key)
  OBVIOUS
<1>4. /\ assembler' \in Rebuilt /\ assembler'.esc = assembler.esc /\ assembler'.buf = assembler.buf /\ assembler'.line = <<>>
      /\ learning' \in Learned /\ learning'.bytes = learning.bytes /\ learning'.cmd = <<>>
      /\ learning'.trusted = learning.trusted /\ learning'.prompt = learning.prompt
  BY <1>1, <1>2, <1>3 DEF Same, Rebuilt, Learned
<1>5. Same(editor, assembler, learning)' /\ Prompted(editor, learning)'
  BY <1>1, <1>2, <1>4 DEF Same, Prompted
<1>6. Typed!LinesAreNotMistaken'
  BY <1>4 DEF Typed!LinesAreNotMistaken
<1>. QED
  BY <1>1, <1>5, <1>6 DEF TypedInv

LEMMA TypedRests == ASSUME TypedInv, UNCHANGED typedVars PROVE TypedInv'
<1>1. mode' = mode /\ editor' = editor /\ assembler' = assembler /\ learning' = learning /\ entered' = entered /\ shown' = shown
  BY DEF typedVars
<1>. QED
  BY <1>1 DEF TypedInv, Same, Prompted, Typed!LinesAreNotMistaken

(* A line that was only typed is recorded as it was entered, and learned   *)
(* like that or not at all; no answer to a question is learned, unless it  *)
(* has a question mark as well, and nothing typed at one for a password,   *)
(* unless it reads like the end of that question (record.rs:152-188,       *)
(* learning.rs:56-74).                                                     *)
THEOREM LinesStayTrue == Spec => []LinesAreNotMistaken
<1>0. KeysAre
  BY TerminalAssumption DEF TerminalAssumption, KeysAre, Special
<1>1. Init => TypedInv
  BY TypedInit DEF Init
<1>2. TypedInv /\ [Next]_vars => TypedInv'
  <2>. SUFFICES ASSUME TypedInv, [Next]_vars PROVE TypedInv'
    OBVIOUS
  <2>1. CASE Typed!Next
    BY <1>0, <2>1, TypeKeeps, AsksKeeps DEF Typed!Next
  <2>2. CASE UNCHANGED typedVars
    BY <2>2, TypedRests
  <2>. QED
    BY <2>1, <2>2 DEF Next, vars
<1>3. TypedInv => LinesAreNotMistaken
  BY DEF TypedInv, LinesAreNotMistaken
<1>. QED
  BY <1>1, <1>2, <1>3, PTL DEF Spec

-----------------------------------------------------------------------------
(* Stream.  A scanner is a function of a state and a byte; what it makes   *)
(* of a sequence (Ran) is what the model folds.  Two parts read one after  *)
(* the other make what both make read at once (RanJoined), and what every  *)
(* step keeps, of one scanner or of two that read the same, the whole      *)
(* keeps (RanStays, RanPaired).                                            *)
Follows(h, f, base, s) == h[0] = base /\ \A k \in 1 .. Len(s) : h[k] = f[<<h[k - 1], s[k]>>]

Running(h, f, base, s) == h = [k \in 0 .. Len(s) |-> IF k = 0 THEN base ELSE f[<<h[k - 1], s[k]>>]]

Scans(X, Y, f, base, s) == f \in [X \X Y -> X] /\ base \in X /\ s \in Seq(Y)

Ran(f, base, s) == (CHOOSE h : Running(h, f, base, s))[Len(s)]

Runs(h, X, f, base, s) ==
  h \in [0 .. Len(s) -> X] /\ Follows(h, f, base, s) /\ h[Len(s)] = Ran(f, base, s)

LEMMA SameRun ==
  ASSUME NEW X, NEW Y, NEW f, NEW base, NEW s, Scans(X, Y, f, base, s),
         NEW g, Follows(g, f, base, s), NEW h, Follows(h, f, base, s)
  PROVE  \A k \in 0 .. Len(s) : h[k] = g[k] /\ h[k] \in X
<1>. DEFINE Alike == {k \in Nat : k <= Len(s) => h[k] = g[k] /\ h[k] \in X}
<1>. f \in [X \X Y -> X] /\ base \in X /\ s \in Seq(Y)
  BY DEF Scans
<1>. Len(s) \in Nat /\ \A k \in 1 .. Len(s) : s[k] \in Y
  OBVIOUS
<1>1. 0 \in Alike
  BY DEF Follows
<1>2. ASSUME NEW k \in Nat, k \in Alike PROVE k + 1 \in Alike
  <2>. SUFFICES ASSUME k + 1 <= Len(s) PROVE h[k + 1] = g[k + 1] /\ h[k + 1] \in X
    OBVIOUS
  <2>1. k + 1 \in 1 .. Len(s) /\ (k + 1) - 1 = k
    OBVIOUS
  <2>2. h[k] = g[k] /\ h[k] \in X
    BY <1>2
  <2>3. h[k + 1] = f[<<h[k], s[k + 1]>>] /\ g[k + 1] = f[<<g[k], s[k + 1]>>]
    BY <2>1 DEF Follows
  <2>. QED
    BY <2>1, <2>2, <2>3
<1>3. Nat \subseteq Alike
  <2>. HIDE DEF Alike
  <2>. QED
    BY <1>1, <1>2, UpToAll
<1>. QED
  BY <1>3

LEMMA RunExists ==
  ASSUME NEW X, NEW Y, NEW f, NEW base, NEW s, Scans(X, Y, f, base, s)
  PROVE  \E h : Runs(h, X, f, base, s)
<1>. f \in [X \X Y -> X] /\ base \in X /\ s \in Seq(Y)
  BY DEF Scans
<1>. Len(s) \in Nat /\ \A k \in 1 .. Len(s) : s[k] \in Y
  OBVIOUS
<1>1. PICK n \in Nat : n = Len(s)
  OBVIOUS
<1>2. PICK g : Folds(g, f, base, s, n) /\ \A S \in SUBSET (1 .. n) : g[S] \in X
  <2>1. Foldable(X, Y, f, base, s, n)
    BY <1>1 DEF Foldable
  <2>. QED
    BY <2>1, FoldExists
<1>3. PICK r : r = [k \in 0 .. n |-> g[1 .. k]]
  OBVIOUS
<1>4. r[0] = base
  <2>1. 1 .. 0 = {} /\ {} \in SUBSET (1 .. n)
    OBVIOUS
  <2>2. g[{}] = base
    BY <1>2, <2>1 DEF Folds
  <2>. QED
    BY <1>3, <2>1, <2>2
<1>5. ASSUME NEW k \in 1 .. n PROVE r[k] = f[<<r[k - 1], s[k]>>]
  <2>1. PICK i \in 0 .. n - 1 : i = k - 1
    OBVIOUS
  <2>2. /\ 1 .. i + 1 \in SUBSET (1 .. n) /\ 1 .. i + 1 # {}
        /\ Top(1 .. i + 1) = i + 1 /\ (1 .. i + 1) \ {i + 1} = 1 .. i
    BY FirstOnes
  <2>3. PICK T : T = 1 .. i + 1
    OBVIOUS
  <2>4. g[T] = f[<<g[T \ {Top(T)}], s[Top(T)]>>]
    BY <1>2, <2>2, <2>3 DEF Folds
  <2>5. i + 1 = k /\ r[k] = g[T] /\ r[k - 1] = g[1 .. i]
    BY <1>3, <2>1, <2>3
  <2>. QED
    BY <2>2, <2>3, <2>4, <2>5
<1>6. Running(r, f, base, s)
  <2>1. r = [k \in 0 .. Len(s) |-> r[k]]
    BY <1>1, <1>3
  <2>2. \A k \in 0 .. Len(s) : r[k] = IF k = 0 THEN base ELSE f[<<r[k - 1], s[k]>>]
    BY <1>1, <1>4, <1>5
  <2>. QED
    BY <2>1, <2>2 DEF Running
<1>7. PICK h : h = CHOOSE w : Running(w, f, base, s)
  OBVIOUS
<1>8. Running(h, f, base, s)
  BY <1>6, <1>7
<1>9. Follows(h, f, base, s)
  BY <1>8 DEF Running, Follows
<1>10. \A k \in 0 .. Len(s) : h[k] \in X
  BY <1>9, SameRun
<1>11. h \in [0 .. Len(s) -> X]
  BY <1>8, <1>10 DEF Running
<1>. QED
  BY <1>7, <1>9, <1>11 DEF Ran, Runs

LEMMA RunIs ==
  ASSUME NEW X, NEW Y, NEW f, NEW base, NEW s, Scans(X, Y, f, base, s),
         NEW h, Follows(h, f, base, s)
  PROVE  h[Len(s)] = Ran(f, base, s)
<1>1. PICK g : Runs(g, X, f, base, s)
  BY RunExists
<1>2. Follows(g, f, base, s)
  BY <1>1 DEF Runs
<1>3. h[Len(s)] = g[Len(s)]
  <2>1. Len(s) \in 0 .. Len(s)
    BY DEF Scans
  <2>. QED
    BY <1>2, <2>1, SameRun
<1>. QED
  BY <1>1, <1>3 DEF Runs

LEMMA RanEmpty ==
  ASSUME NEW X, NEW Y, NEW f, NEW base, Scans(X, Y, f, base, <<>>)
  PROVE  Ran(f, base, <<>>) = base
<1>2. PICK g : Runs(g, X, f, base, <<>>)
  BY RunExists
<1>. QED
  BY <1>2 DEF Runs, Follows

LEMMA RanIn ==
  ASSUME NEW X, NEW Y, NEW f, NEW base, NEW s, Scans(X, Y, f, base, s)
  PROVE  Ran(f, base, s) \in X
<1>1. PICK g : Runs(g, X, f, base, s)
  BY RunExists
<1>. QED
  BY <1>1 DEF Runs, Scans

LEMMA RanAppend ==
  ASSUME NEW X, NEW Y, NEW f, NEW base, NEW s, Scans(X, Y, f, base, s), NEW y \in Y
  PROVE  Ran(f, base, Append(s, y)) = f[<<Ran(f, base, s), y>>]
<1>. s \in Seq(Y)
  BY DEF Scans
<1>. Append(s, y) \in Seq(Y)
  OBVIOUS
<1>1. PICK w \in Seq(Y) : w = Append(s, y)
  OBVIOUS
<1>2. PICK n \in Nat : n = Len(s)
  OBVIOUS
<1>3. Len(w) = n + 1 /\ w[n + 1] = y /\ \A k \in 1 .. n : w[k] = s[k]
  BY <1>1, <1>2
<1>a. Scans(X, Y, f, base, w)
  BY DEF Scans
<1>4. PICK h : Runs(h, X, f, base, w)
  BY <1>a, RunExists
<1>b. Follows(h, f, base, w) /\ h[Len(w)] = Ran(f, base, w)
  BY <1>4 DEF Runs
<1>5. Follows(h, f, base, s)
  <2>1. h[0] = base
    BY <1>b DEF Follows
  <2>2. ASSUME NEW k \in 1 .. Len(s) PROVE h[k] = f[<<h[k - 1], s[k]>>]
    <3>1. k \in 1 .. Len(w) /\ w[k] = s[k]
      BY <1>2, <1>3
    <3>. QED
      BY <1>b, <3>1 DEF Follows
  <2>. QED
    BY <2>1, <2>2 DEF Follows
<1>6. h[n] = Ran(f, base, s)
  BY <1>2, <1>5, RunIs
<1>7. h[n + 1] = f[<<h[n], y>>]
  <2>1. n + 1 \in 1 .. Len(w) /\ (n + 1) - 1 = n
    BY <1>3
  <2>. QED
    BY <1>3, <1>b, <2>1 DEF Follows
<1>. QED
  BY <1>1, <1>3, <1>b, <1>6, <1>7

LEMMA RanJoined ==
  ASSUME NEW X, NEW Y, NEW f, NEW base, NEW s, Scans(X, Y, f, base, s), NEW t \in Seq(Y)
  PROVE  Ran(f, base, s \o t) = Ran(f, Ran(f, base, s), t)
<1>. s \in Seq(Y)
  BY DEF Scans
<1>. s \o t \in Seq(Y)
  OBVIOUS
<1>1. PICK w \in Seq(Y) : w = s \o t
  OBVIOUS
<1>2. PICK n \in Nat : n = Len(s)
  OBVIOUS
<1>3. PICK m \in Nat : m = Len(t)
  OBVIOUS
<1>4. Len(w) = n + m /\ (\A k \in 1 .. n : w[k] = s[k]) /\ \A k \in 1 .. m : w[n + k] = t[k]
  BY <1>1, <1>2, <1>3
<1>a. Scans(X, Y, f, base, w)
  BY DEF Scans
<1>5. PICK h : Runs(h, X, f, base, w)
  BY <1>a, RunExists
<1>b. Follows(h, f, base, w) /\ h[Len(w)] = Ran(f, base, w)
  BY <1>5 DEF Runs
<1>6. Follows(h, f, base, s)
  <2>1. h[0] = base
    BY <1>b DEF Follows
  <2>2. ASSUME NEW k \in 1 .. Len(s) PROVE h[k] = f[<<h[k - 1], s[k]>>]
    <3>1. k \in 1 .. Len(w) /\ w[k] = s[k]
      BY <1>2, <1>4
    <3>. QED
      BY <1>b, <3>1 DEF Follows
  <2>. QED
    BY <2>1, <2>2 DEF Follows
<1>7. h[n] = Ran(f, base, s)
  BY <1>2, <1>6, RunIs
<1>8. PICK r : r = [k \in 0 .. m |-> h[n + k]]
  OBVIOUS
<1>c. PICK c : c = h[n]
  OBVIOUS
<1>d. c \in X
  BY <1>7, <1>c, RanIn
<1>9. Follows(r, f, c, t)
  <2>1. r[0] = c
    BY <1>8, <1>c
  <2>2. ASSUME NEW k \in 1 .. Len(t) PROVE r[k] = f[<<r[k - 1], t[k]>>]
    <3>1. n + k \in 1 .. Len(w) /\ k - 1 \in 0 .. m /\ n + (k - 1) = (n + k) - 1 /\ k \in 1 .. m /\ k \in 0 .. m
      BY <1>2, <1>3, <1>4
    <3>2. h[n + k] = f[<<h[(n + k) - 1], w[n + k]>>]
      BY <1>b, <3>1 DEF Follows
    <3>3. r[k] = h[n + k] /\ r[k - 1] = h[(n + k) - 1] /\ w[n + k] = t[k]
      BY <1>4, <1>8, <3>1
    <3>. QED
      BY <3>2, <3>3
  <2>. QED
    BY <2>1, <2>2 DEF Follows
<1>10. r[m] = Ran(f, c, t)
  <2>1. Scans(X, Y, f, c, t)
    BY <1>d DEF Scans
  <2>. QED
    BY <1>3, <1>9, <2>1, RunIs
<1>. QED
  BY <1>1, <1>4, <1>b, <1>7, <1>8, <1>10, <1>c

(* Reading the same, two scanners step together.                           *)
Together(X, Y, Z, f, g, V, R) ==
  /\ f \in [X \X Y -> X] /\ g \in [Z \X Y -> Z] /\ V \subseteq Y
  /\ \A x \in X, z \in Z, y \in V : <<x, z>> \in R => <<f[<<x, y>>], g[<<z, y>>]>> \in R

LEMMA RanPaired ==
  ASSUME NEW X, NEW Y, NEW Z, NEW f, NEW g, NEW V, NEW R, Together(X, Y, Z, f, g, V, R),
         NEW a \in X, NEW c \in Z, <<a, c>> \in R, NEW s \in Seq(V)
  PROVE  <<Ran(f, a, s), Ran(g, c, s)>> \in R
<1>0. f \in [X \X Y -> X] /\ g \in [Z \X Y -> Z] /\ V \subseteq Y
  BY DEF Together
<1>. s \in Seq(Y) /\ Len(s) \in Nat /\ \A k \in 1 .. Len(s) : s[k] \in V
  BY <1>0
<1>a. Scans(X, Y, f, a, s) /\ Scans(Z, Y, g, c, s)
  BY <1>0 DEF Scans
<1>b. PICK h : Runs(h, X, f, a, s)
  BY <1>a, RunExists
<1>c. PICK r : Runs(r, Z, g, c, s)
  BY <1>a, RunExists
<1>1. h \in [0 .. Len(s) -> X] /\ Follows(h, f, a, s) /\ h[Len(s)] = Ran(f, a, s)
  BY <1>b DEF Runs
<1>2. r \in [0 .. Len(s) -> Z] /\ Follows(r, g, c, s) /\ r[Len(s)] = Ran(g, c, s)
  BY <1>c DEF Runs
<1>. DEFINE Paired == {k \in Nat : k <= Len(s) => <<h[k], r[k]>> \in R}
<1>3. 0 \in Paired
  BY <1>1, <1>2 DEF Follows
<1>4. ASSUME NEW k \in Nat, k \in Paired PROVE k + 1 \in Paired
  <2>. SUFFICES ASSUME k + 1 <= Len(s) PROVE <<h[k + 1], r[k + 1]>> \in R
    OBVIOUS
  <2>1. k + 1 \in 1 .. Len(s) /\ (k + 1) - 1 = k /\ k \in 0 .. Len(s)
    OBVIOUS
  <2>2. h[k + 1] = f[<<h[k], s[k + 1]>>] /\ r[k + 1] = g[<<r[k], s[k + 1]>>]
    BY <1>1, <1>2, <2>1 DEF Follows
  <2>3. <<h[k], r[k]>> \in R /\ h[k] \in X /\ r[k] \in Z /\ s[k + 1] \in V
    BY <1>1, <1>2, <1>4, <2>1
  <2>4. <<f[<<h[k], s[k + 1]>>], g[<<r[k], s[k + 1]>>]>> \in R
    BY <2>3 DEF Together
  <2>. QED
    BY <2>2, <2>4
<1>5. Nat \subseteq Paired
  <2>. HIDE DEF Paired
  <2>. QED
    BY <1>3, <1>4, UpToAll
<1>6. <<h[Len(s)], r[Len(s)]>> \in R
  BY <1>5
<1>. QED
  BY <1>1, <1>2, <1>6

LEMMA RanStays ==
  ASSUME NEW X, NEW Y, NEW f, NEW V, V \subseteq Y, NEW R, f \in [X \X Y -> X],
         NEW a \in X, a \in R, NEW s \in Seq(V),
         \A x \in X, y \in V : x \in R => f[<<x, y>>] \in R
  PROVE  Ran(f, a, s) \in R
<1>1. PICK Q : Q = R \X R
  OBVIOUS
<1>2. <<a, a>> \in Q
  BY <1>1
<1>3. Together(X, Y, X, f, f, V, Q)
  BY <1>1 DEF Together
<1>4. <<Ran(f, a, s), Ran(f, a, s)>> \in Q
  BY <1>2, <1>3, RanPaired
<1>. QED
  BY <1>1, <1>4

(* The bytes the pieces are made of, and the scanners' states.             *)
Byte  == {"E", "B", "x", "u", "v", "[", "2", "J", "]", "7", "S", "p", "q", "\\", "A", "G", "d"}
Bytes == Seq(Byte)

TextRun    == [text : Bytes, body : Bytes]
Splits == [st : {"ground", "esc", "apc", "apcEsc"}, body : Bytes, run : Bytes, segs : Seq(TextRun)]
Oscs   == [st : {"ground", "esc", "bracket", "seven", "body", "bodyEsc"}, body : Bytes, cwd : Bytes]
Strips == [st : {"none", "intro", "csi", "osc", "oscEnd"}, text : Bytes]
Terms  == [bodies : Seq(Bytes), fed : Bytes, osc7 : Oscs, erased : Nat, cut : Nat]
Sums   == [bytes : Bytes, text : Bytes, plain : Bytes, bodies : Seq(Bytes), dir : Bytes, erases : Nat]

\* A body of a piece fits.
BodiesFit == MaxBody \in Nat /\ MaxBody >= 2

LEMMA ByteSeqs ==
  /\ <<>> \in Bytes /\ \A a, b \in Bytes : a \o b \in Bytes /\ \A y \in Byte : Append(a, y) \in Bytes
  /\ \A y \in Byte : <<y>> \in Bytes /\ <<"E", y>> \in Bytes
  /\ <<"E">> \in Bytes
<1>1. "E" \in Byte
  BY DEF Byte
<1>2. \A y \in Byte : <<y>> \in Seq(Byte) /\ \A z \in Byte : <<z, y>> \in Seq(Byte)
  OBVIOUS
<1>3. <<>> \in Seq(Byte) /\ \A a, b \in Seq(Byte) : a \o b \in Seq(Byte)
  OBVIOUS
<1>4. \A a \in Seq(Byte), y \in Byte : Append(a, y) \in Seq(Byte)
  OBVIOUS
<1>. QED
  BY <1>1, <1>2, <1>3, <1>4 DEF Bytes

(* The scanner of directories, state by state.                             *)
OscStep(s, b, o) ==
  /\ o \in Oscs
  /\ s.st \in {"ground", "esc", "bracket", "seven"} /\ b = "E" => o.st = "esc" /\ o.body = s.body /\ o.cwd = s.cwd
  /\ s.st = "ground" /\ b # "E" => o.st = "ground" /\ o.body = s.body /\ o.cwd = s.cwd
  /\ s.st = "esc" /\ b # "E" => o.st = (IF b = "]" THEN "bracket" ELSE "ground") /\ o.body = s.body /\ o.cwd = s.cwd
  /\ s.st = "bracket" /\ b # "E" => o.st = (IF b = "7" THEN "seven" ELSE "ground") /\ o.body = s.body /\ o.cwd = s.cwd
  /\ s.st = "seven" /\ b = "S" => o.st = "body" /\ o.body = <<>> /\ o.cwd = s.cwd
  /\ s.st = "body" /\ b = "B" => o.st = "ground" /\ o.cwd = s.body
  /\ s.st = "body" /\ b = "E" => o.st = "bodyEsc" /\ o.body = s.body /\ o.cwd = s.cwd
  /\ s.st = "body" /\ b \notin {"B", "E"} =>
       /\ o.st = "body" /\ o.cwd = s.cwd
       /\ o.body = IF Len(s.body) < MaxBody THEN Append(s.body, b) ELSE s.body
  /\ s.st = "bodyEsc" => o.st = "ground" /\ o.cwd = IF b = "\\" THEN s.body ELSE s.cwd

LEMMA OscIs == ASSUME NEW s \in Oscs, NEW b \in Byte PROVE OscStep(s, b, Read!Osc7Byte(s, b))
<1>1. Append(s.body, b) \in Bytes /\ <<>> \in Bytes
  BY ByteSeqs DEF Oscs
<1>2. PICK o : o = Read!Osc7Byte(s, b)
  OBVIOUS
<1>3. CASE s.st = "ground"
  <2>1. o = [s EXCEPT !.st = IF b = "E" THEN "esc" ELSE "ground"]
    BY <1>2, <1>3 DEF Read!Osc7Byte
  <2>. QED
    BY <1>2, <1>3, <2>1 DEF OscStep, Oscs
<1>4. CASE s.st = "esc"
  <2>1. o = [s EXCEPT !.st = IF b = "]" THEN "bracket" ELSE IF b = "E" THEN "esc" ELSE "ground"]
    BY <1>2, <1>4 DEF Read!Osc7Byte
  <2>. QED
    BY <1>2, <1>4, <2>1 DEF OscStep, Oscs
<1>5. CASE s.st = "bracket"
  <2>1. o = [s EXCEPT !.st = IF b = "7" THEN "seven" ELSE IF b = "E" THEN "esc" ELSE "ground"]
    BY <1>2, <1>5 DEF Read!Osc7Byte
  <2>. QED
    BY <1>2, <1>5, <2>1 DEF OscStep, Oscs
<1>6. CASE s.st = "seven"
  <2>1. o = IF b = "S" THEN [s EXCEPT !.st = "body", !.body = <<>>] ELSE [s EXCEPT !.st = IF b = "E" THEN "esc" ELSE "ground"]
    BY <1>2, <1>6 DEF Read!Osc7Byte
  <2>. QED
    BY <1>1, <1>2, <1>6, <2>1 DEF OscStep, Oscs
<1>7. CASE s.st = "body"
  <2>1. o = IF b = "B" THEN [s EXCEPT !.st = "ground", !.cwd = s.body]
            ELSE IF b = "E" THEN [s EXCEPT !.st = "bodyEsc"]
            ELSE [s EXCEPT !.body = IF Len(s.body) < MaxBody THEN Append(s.body, b) ELSE s.body]
    BY <1>2, <1>7 DEF Read!Osc7Byte, Oscs
  <2>. QED
    BY <1>1, <1>2, <1>7, <2>1 DEF OscStep, Oscs
<1>8. CASE s.st = "bodyEsc"
  <2>1. o = [s EXCEPT !.st = "ground", !.cwd = IF b = "\\" THEN s.body ELSE s.cwd]
    BY <1>2, <1>8 DEF Read!Osc7Byte, Oscs
  <2>. QED
    BY <1>1, <1>2, <1>8, <2>1 DEF OscStep, Oscs
<1>. QED
  BY <1>3, <1>4, <1>5, <1>6, <1>7, <1>8 DEF Oscs

OscFn == [x \in Oscs \X Byte |-> Read!Osc7Byte(x[1], x[2])]

LEMMA OscTyped ==
  /\ OscFn \in [Oscs \X Byte -> Oscs] /\ \A e \in Oscs, y \in Byte : OscFn[<<e, y>>] = Read!Osc7Byte(e, y)
<1>1. \A e \in Oscs, y \in Byte : Read!Osc7Byte(e, y) \in Oscs
  BY OscIs DEF OscStep
<1>. QED
  BY <1>1 DEF OscFn

(* The stripper.                                                           *)
StripStep(s, b, o) ==
  /\ o \in Strips
  /\ s.st = "none" => /\ o.st = (IF b = "E" THEN "intro" ELSE "none")
                      /\ o.text = IF b \in {"E", "B"} THEN s.text ELSE Append(s.text, b)
  /\ s.st # "none" => o.text = s.text
  /\ s.st = "intro" => o.st = IF b = "[" THEN "csi" ELSE IF b = "]" THEN "osc" ELSE "none"
  /\ s.st = "csi" => o.st = IF b \in Read!Finals THEN "none" ELSE "csi"
  /\ s.st = "osc" => o.st = IF b = "B" THEN "none" ELSE IF b = "E" THEN "oscEnd" ELSE "osc"
  /\ s.st = "oscEnd" => o.st = IF b = "\\" THEN "none" ELSE "osc"

LEMMA StripIs == ASSUME NEW s \in Strips, NEW b \in Byte PROVE StripStep(s, b, Read!StripByte(s, b))
<1>1. Append(s.text, b) \in Bytes
  BY ByteSeqs DEF Strips
<1>2. PICK o : o = Read!StripByte(s, b)
  OBVIOUS
<1>3. CASE s.st = "none"
  <2>1. o = IF b = "E" THEN [s EXCEPT !.st = "intro"] ELSE IF b = "B" THEN s ELSE [s EXCEPT !.text = Append(s.text, b)]
    BY <1>2, <1>3 DEF Read!StripByte
  <2>2. CASE b = "E"
    BY <1>2, <1>3, <2>1, <2>2 DEF StripStep, Strips
  <2>3. CASE b = "B"
    BY <1>2, <1>3, <2>1, <2>3 DEF StripStep, Strips
  <2>4. CASE b \notin {"E", "B"}
    <3>1. o = [s EXCEPT !.text = Append(s.text, b)]
      BY <2>1, <2>4
    <3>2. o \in Strips /\ o.st = "none" /\ o.text = Append(s.text, b)
      BY <1>1, <1>3, <3>1 DEF Strips
    <3>. QED
      BY <1>2, <1>3, <2>4, <3>2 DEF StripStep
  <2>. QED
    BY <2>2, <2>3, <2>4
<1>4. CASE s.st = "intro"
  <2>1. o = [s EXCEPT !.st = IF b = "[" THEN "csi" ELSE IF b = "]" THEN "osc" ELSE "none"]
    BY <1>2, <1>4 DEF Read!StripByte
  <2>. QED
    BY <1>2, <1>4, <2>1 DEF StripStep, Strips
<1>5. CASE s.st = "csi"
  <2>1. o = IF b \in Read!Finals THEN [s EXCEPT !.st = "none"] ELSE s
    BY <1>2, <1>5 DEF Read!StripByte
  <2>. QED
    BY <1>2, <1>5, <2>1 DEF StripStep, Strips
<1>6. CASE s.st = "osc"
  <2>1. o = IF b = "B" THEN [s EXCEPT !.st = "none"] ELSE IF b = "E" THEN [s EXCEPT !.st = "oscEnd"] ELSE s
    BY <1>2, <1>6 DEF Read!StripByte
  <2>. QED
    BY <1>2, <1>6, <2>1 DEF StripStep, Strips
<1>7. CASE s.st = "oscEnd"
  <2>1. o = [s EXCEPT !.st = IF b = "\\" THEN "none" ELSE "osc"]
    BY <1>2, <1>7 DEF Read!StripByte
  <2>. QED
    BY <1>2, <1>7, <2>1 DEF StripStep, Strips
<1>. QED
  BY <1>3, <1>4, <1>5, <1>6, <1>7 DEF Strips

StripFn == [x \in Strips \X Byte |-> Read!StripByte(x[1], x[2])]

LEMMA StripTyped ==
  /\ StripFn \in [Strips \X Byte -> Strips] /\ \A e \in Strips, y \in Byte : StripFn[<<e, y>>] = Read!StripByte(e, y)
<1>1. \A e \in Strips, y \in Byte : Read!StripByte(e, y) \in Strips
  BY StripIs DEF StripStep
<1>. QED
  BY <1>1 DEF StripFn

(* Pieces add up.                                                          *)
PieceRec == [bytes : Bytes, text : Bytes, plain : Bytes, body : Bytes, dir : Bytes, erases : Nat]

LEMMA PieceTyped == Read!Pieces \subseteq PieceRec
<1>. DEFINE P(b, t, l, c, d, e) == [bytes |-> b, text |-> t, plain |-> l, body |-> c, dir |-> d, erases |-> e]
<1>1. \A b, t, l, c, d \in Bytes, e \in Nat : P(b, t, l, c, d, e) \in PieceRec
  BY DEF PieceRec
<1>2. /\ <<>> \in Bytes /\ <<"E">> \in Bytes /\ <<"x">> \in Bytes /\ <<"u", "v">> \in Bytes /\ <<"E", "[", "2", "J">> \in Bytes
      /\ <<"E", "]", "7", "S", "p", "B">> \in Bytes /\ <<"p">> \in Bytes /\ <<"q">> \in Bytes /\ <<"G", "d">> \in Bytes
      /\ <<"E", "]", "7", "S", "q", "E", "\\">> \in Bytes /\ <<"E", "A", "G", "d", "E", "\\">> \in Bytes
      /\ 0 \in Nat /\ 1 \in Nat
  BY DEF Bytes, Byte
<1>3. Read!Pieces = {P(<<"E">>, <<"E">>, <<>>, <<>>, <<>>, 0), P(<<"x">>, <<"x">>, <<"x">>, <<>>, <<>>, 0),
        P(<<"u", "v">>, <<"u", "v">>, <<"u", "v">>, <<>>, <<>>, 0),
        P(<<"E", "[", "2", "J">>, <<"E", "[", "2", "J">>, <<>>, <<>>, <<>>, 1),
        P(<<"E", "]", "7", "S", "p", "B">>, <<"E", "]", "7", "S", "p", "B">>, <<>>, <<>>, <<"p">>, 0),
        P(<<"E", "]", "7", "S", "q", "E", "\\">>, <<"E", "]", "7", "S", "q", "E", "\\">>, <<>>, <<>>, <<"q">>, 0),
        P(<<"E", "A", "G", "d", "E", "\\">>, <<>>, <<"G", "d">>, <<"G", "d">>, <<>>, 0)}
  BY DEF Read!Pieces, Read!Lone, Read!Text, Read!Piece
<1>. HIDE DEF P
<1>4. \A p \in Read!Pieces : \E b, t, l, c, d \in Bytes, e \in Nat : p = P(b, t, l, c, d, e)
  <2>. TAKE p \in Read!Pieces
  <2>1. CASE p = P(<<"E">>, <<"E">>, <<>>, <<>>, <<>>, 0)
    BY <1>2, <2>1
  <2>2. CASE p = P(<<"x">>, <<"x">>, <<"x">>, <<>>, <<>>, 0)
    BY <1>2, <2>2
  <2>3. CASE p = P(<<"u", "v">>, <<"u", "v">>, <<"u", "v">>, <<>>, <<>>, 0)
    BY <1>2, <2>3
  <2>4. CASE p = P(<<"E", "[", "2", "J">>, <<"E", "[", "2", "J">>, <<>>, <<>>, <<>>, 1)
    BY <1>2, <2>4
  <2>5. CASE p = P(<<"E", "]", "7", "S", "p", "B">>, <<"E", "]", "7", "S", "p", "B">>, <<>>, <<>>, <<"p">>, 0)
    BY <1>2, <2>5
  <2>6. CASE p = P(<<"E", "]", "7", "S", "q", "E", "\\">>, <<"E", "]", "7", "S", "q", "E", "\\">>, <<>>, <<>>, <<"q">>, 0)
    BY <1>2, <2>6
  <2>7. CASE p = P(<<"E", "A", "G", "d", "E", "\\">>, <<>>, <<"G", "d">>, <<"G", "d">>, <<>>, 0)
    BY <1>2, <2>7
  <2>. QED
    BY <1>3, <2>1, <2>2, <2>3, <2>4, <2>5, <2>6, <2>7
<1>. QED
  BY <1>1, <1>4

SaidFn == [x \in Sums \X Read!Pieces |-> Read!Said(x[1], x[2])]

LEMMA SaidTyped ==
  /\ SaidFn \in [Sums \X Read!Pieces -> Sums] /\ \A m \in Sums, p \in Read!Pieces : SaidFn[<<m, p>>] = Read!Said(m, p)
<1>1. ASSUME NEW m \in Sums, NEW p \in Read!Pieces PROVE Read!Said(m, p) \in Sums
  <2>1. p \in PieceRec
    BY PieceTyped
  <2>2. /\ m.bytes \o p.bytes \in Bytes /\ m.text \o p.text \in Bytes /\ m.plain \o p.plain \in Bytes
        /\ m.erases + p.erases \in Nat /\ m.dir \in Bytes /\ p.dir \in Bytes
    BY <2>1, ByteSeqs DEF Sums, PieceRec
  <2>3. m.bodies \in Seq(Bytes) /\ Append(m.bodies, p.body) \in Seq(Bytes)
    BY <2>1 DEF Sums, PieceRec
  <2>. QED
    BY <2>2, <2>3 DEF Read!Said, Sums
<1>. QED
  BY <1>1 DEF SaidFn

(* Erasures.  In two parts read as one there are those of each and, at     *)
(* most, one over the border, which only the second part's first byte and  *)
(* the first part's end make possible.                                     *)
ErasedAt(t, i) == t[i] = "E" /\ t[i + 1] = "[" /\ t[i + 2] = "2" /\ t[i + 3] = "J"

EndsWith(t, n) ==
  /\ n \in 1 .. 3 /\ n <= Len(t)
  /\ t[Len(t) - n + 1] = "E" /\ (n >= 2 => t[Len(t) - n + 2] = "[") /\ (n = 3 => t[Len(t)] = "2")

LEMMA Spelt ==
  ASSUME NEW t \in Bytes
  PROVE  /\ Read!Erasures(t) = {i \in 1 .. Len(t) - 3 : ErasedAt(t, i)}
         /\ Read!CutAt(t) <=> \E n \in 1 .. 3 : EndsWith(t, n)
         /\ Len(t) \in Nat
<1>0. t \in Seq(Byte) /\ Len(t) \in Nat
  BY DEF Bytes
<1>1. /\ Read!Erasure \in Seq(Byte) /\ Len(Read!Erasure) = 4 /\ Read!Erasure[1] = "E" /\ Read!Erasure[2] = "["
      /\ Read!Erasure[3] = "2" /\ Read!Erasure[4] = "J"
  BY DEF Read!Erasure, Byte
<1>2. PICK e \in Seq(Byte) : e = Read!Erasure
  BY <1>1
<1>3. ASSUME NEW i \in 1 .. Len(t) - 3 PROVE SubSeq(t, i, i + 3) = e <=> ErasedAt(t, i)
  <2>1. SubSeq(t, i, i + 3) \in Seq(Byte)
    BY <1>0
  <2>2. PICK q \in Seq(Byte) : q = SubSeq(t, i, i + 3)
    BY <2>1
  <2>3. Len(q) = 4 /\ q[1] = t[i] /\ q[2] = t[i + 1] /\ q[3] = t[i + 2] /\ q[4] = t[i + 3]
    BY <1>0, <2>2
  <2>4. q[1] = e[1] /\ q[2] = e[2] /\ q[3] = e[3] /\ q[4] = e[4] => q = e
    <3>1. Len(e) = 4
      BY <1>1, <1>2
    <3>2. \A j \in 1 .. 4 : j = 1 \/ j = 2 \/ j = 3 \/ j = 4
      OBVIOUS
    <3>. QED
      BY <2>3, <3>1, <3>2
  <2>. QED
    BY <1>1, <1>2, <2>2, <2>3, <2>4 DEF ErasedAt
<1>4. ASSUME NEW n \in 1 .. 3, n <= Len(t)
      PROVE  SubSeq(t, Len(t) - n + 1, Len(t)) = SubSeq(e, 1, n) <=> EndsWith(t, n)
  <2>0. PICK p \in 1 .. Len(t) : p = Len(t) - n + 1
    BY <1>0, <1>4
  <2>a. SubSeq(t, p, Len(t)) \in Seq(Byte)
    BY <1>0
  <2>b. Len(e) = 4 /\ SubSeq(e, 1, n) \in Seq(Byte)
    BY <1>1, <1>2
  <2>1. SubSeq(t, Len(t) - n + 1, Len(t)) \in Seq(Byte) /\ SubSeq(e, 1, n) \in Seq(Byte)
    BY <2>0, <2>a, <2>b
  <2>2. PICK q \in Seq(Byte) : q = SubSeq(t, Len(t) - n + 1, Len(t))
    BY <2>1
  <2>3. PICK r \in Seq(Byte) : r = SubSeq(e, 1, n)
    BY <2>1
  <2>4. Len(q) = n /\ \A j \in 1 .. n : q[j] = t[Len(t) - n + j]
    BY <1>0, <2>2
  <2>5. Len(r) = n /\ \A j \in 1 .. n : r[j] = e[j]
    BY <1>1, <1>2, <2>3
  <2>6. q = r <=> \A j \in 1 .. n : t[Len(t) - n + j] = e[j]
    BY <2>4, <2>5
  <2>7. CASE n = 1
    BY <1>0, <1>1, <1>2, <1>4, <2>2, <2>3, <2>6, <2>7 DEF EndsWith
  <2>8. CASE n = 2
    <3>1. \A j \in 1 .. 2 : j = 1 \/ j = 2
      OBVIOUS
    <3>. QED
      BY <1>0, <1>1, <1>2, <1>4, <2>2, <2>3, <2>6, <2>8, <3>1 DEF EndsWith
  <2>9. CASE n = 3
    <3>1. \A j \in 1 .. 3 : j = 1 \/ j = 2 \/ j = 3
      OBVIOUS
    <3>2. Len(t) - n + 3 = Len(t)
      BY <1>0, <2>9
    <3>. QED
      BY <1>0, <1>1, <1>2, <1>4, <2>2, <2>3, <2>6, <2>9, <3>1, <3>2 DEF EndsWith
  <2>. QED
    BY <2>7, <2>8, <2>9
<1>5. Read!Erasures(t) = {i \in 1 .. Len(t) - 3 : ErasedAt(t, i)}
  BY <1>2, <1>3 DEF Read!Erasures
<1>6. Read!CutAt(t) <=> \E n \in 1 .. 3 : EndsWith(t, n)
  <2>1. \A n \in 1 .. 3 : EndsWith(t, n) => n <= Len(t)
    BY DEF EndsWith
  <2>. QED
    BY <1>2, <1>4, <2>1 DEF Read!CutAt
<1>. QED
  BY <1>0, <1>5, <1>6

Over(a, b) == {i \in Read!Erasures(a \o b) : i <= Len(a) /\ i + 3 > Len(a)}

LEMMA JoinedBytes ==
  ASSUME NEW a \in Bytes, NEW b \in Bytes
  PROVE  /\ a \o b \in Bytes /\ Len(a \o b) = Len(a) + Len(b) /\ Len(a) \in Nat /\ Len(b) \in Nat
         /\ \A i \in 1 .. Len(a) : (a \o b)[i] = a[i]
         /\ \A i \in 1 .. Len(b) : (a \o b)[Len(a) + i] = b[i]
BY DEF Bytes

LEMMA OverIs ==
  ASSUME NEW a \in Bytes, NEW b \in Bytes, NEW i \in Over(a, b)
  PROVE  /\ Read!CutAt(a) /\ b # <<>> /\ b[1] \in {"[", "2", "J"}
         /\ i \in Nat /\ i + 3 <= Len(a) + Len(b) /\ b[i + 3 - Len(a)] = "J"
<1>1. PICK w \in Bytes : w = a \o b
  BY JoinedBytes
<1>2. PICK m \in Nat : m = Len(a)
  BY JoinedBytes
<1>3. PICK n \in Nat : n = Len(b)
  BY JoinedBytes
<1>4. /\ Len(w) = m + n /\ (\A k \in 1 .. m : w[k] = a[k]) /\ \A k \in 1 .. n : w[m + k] = b[k]
  BY <1>1, <1>2, <1>3, JoinedBytes
<1>5. i \in 1 .. m + n - 3 /\ ErasedAt(w, i) /\ i <= m /\ i + 3 > m
  <2>1. Read!Erasures(w) = {k \in 1 .. Len(w) - 3 : ErasedAt(w, k)}
    BY Spelt
  <2>2. i \in Read!Erasures(w) /\ i <= m /\ i + 3 > m
    BY <1>1, <1>2 DEF Over
  <2>. QED
    BY <1>4, <2>1, <2>2
<1>6. w[i] = "E" /\ w[i + 1] = "[" /\ w[i + 2] = "2" /\ w[i + 3] = "J"
  BY <1>5 DEF ErasedAt
<1>7. PICK k \in 1 .. 3 : m = i + k - 1
  <2>1. m - i + 1 \in 1 .. 3
    BY <1>2, <1>5
  <2>. QED
    BY <1>2, <1>5, <2>1
<1>8. EndsWith(a, k)
  <2>1. a[i] = "E" /\ (k >= 2 => a[i + 1] = "[") /\ (k = 3 => a[i + 2] = "2")
    BY <1>2, <1>4, <1>5, <1>6, <1>7
  <2>2. m - k + 1 = i /\ m - k + 2 = i + 1 /\ (k = 3 => m = i + 2) /\ k <= m
    BY <1>5, <1>7
  <2>. QED
    BY <1>2, <2>1, <2>2 DEF EndsWith
<1>9. n # 0 /\ b[1] = w[i + k]
  <2>1. 1 \in 1 .. n /\ m + 1 = i + k
    BY <1>3, <1>5, <1>7
  <2>. QED
    BY <1>4, <2>1
<1>10. w[i + k] \in {"[", "2", "J"}
  BY <1>6
<1>11. b[i + 3 - m] = "J"
  <2>1. i + 3 - m \in 1 .. n /\ m + (i + 3 - m) = i + 3
    BY <1>2, <1>3, <1>5
  <2>. QED
    BY <1>4, <1>6, <2>1
<1>12. b # <<>>
  BY <1>3, <1>9
<1>. QED
  BY <1>2, <1>3, <1>5, <1>8, <1>9, <1>10, <1>11, <1>12, Spelt

LEMMA OneOver ==
  ASSUME NEW a \in Bytes, NEW b \in Bytes, NEW i \in Over(a, b), NEW j \in Over(a, b)
  PROVE  i = j
<1>1. PICK w \in Bytes : w = a \o b
  BY JoinedBytes
<1>2. PICK m \in Nat : m = Len(a)
  BY JoinedBytes
<1>3. \A k \in Over(a, b) : k \in Nat /\ ErasedAt(w, k) /\ k <= m /\ k + 3 > m
  BY <1>1, <1>2, Spelt DEF Over
<1>4. \A k, l \in Over(a, b) : ~(k < l)
  <2>. SUFFICES ASSUME NEW k \in Over(a, b), NEW l \in Over(a, b), k < l PROVE FALSE
    OBVIOUS
  <2>1. l = k + 1 \/ l = k + 2
    BY <1>2, <1>3
  <2>2. w[l] = "E" /\ w[k + 1] = "[" /\ w[k + 2] = "2"
    BY <1>3 DEF ErasedAt
  <2>. QED
    BY <2>1, <2>2
<1>. QED
  BY <1>3, <1>4

LEMMA FoundCounts == \A t : Read!Found(t) = Cardinality(Read!Erasures(t))
<1>1. \A S : Read!Cardinality(S) = Cardinality(S)
  BY Zenon DEF Read!Cardinality, Cardinality
<1>. QED
  BY <1>1 DEF Read!Found

LEMMA FoundIn == ASSUME NEW t \in Bytes PROVE IsFiniteSet(Read!Erasures(t)) /\ Read!Found(t) \in Nat
<1>1. Read!Erasures(t) \subseteq 1 .. Len(t) /\ Len(t) \in Nat
  BY Spelt
<1>2. IsFiniteSet(1 .. Len(t))
  BY <1>1, FS_Interval
<1>3. IsFiniteSet(Read!Erasures(t))
  BY <1>1, <1>2, FS_Subset
<1>. QED
  BY <1>3, FS_CardinalityType, FoundCounts

LEMMA FoundJoined ==
  ASSUME NEW a \in Bytes, NEW b \in Bytes
  PROVE  Read!Found(a \o b) = Read!Found(a) + Read!Found(b) + (IF Over(a, b) = {} THEN 0 ELSE 1)
<1>1. PICK w \in Bytes : w = a \o b
  BY JoinedBytes
<1>2. PICK m \in Nat : m = Len(a)
  BY JoinedBytes
<1>3. PICK n \in Nat : n = Len(b)
  BY JoinedBytes
<1>4. /\ Len(w) = m + n /\ (\A k \in 1 .. m : w[k] = a[k]) /\ \A k \in 1 .. n : w[m + k] = b[k]
  BY <1>1, <1>2, <1>3, JoinedBytes
<1>. DEFINE A == Read!Erasures(a)
            B == Read!Erasures(b)
            C == {i \in Read!Erasures(w) : i > m}
            D == Over(a, b)
<1>5. Read!Erasures(w) = A \cup C \cup D
  <2>1. ASSUME NEW i \in 1 .. m - 3 PROVE ErasedAt(w, i) <=> ErasedAt(a, i)
    <3>1. i \in 1 .. m /\ i + 1 \in 1 .. m /\ i + 2 \in 1 .. m /\ i + 3 \in 1 .. m
      BY <1>2
    <3>. QED
      BY <1>4, <3>1 DEF ErasedAt
  <2>2. A = {i \in Read!Erasures(w) : i + 3 <= m}
    <3>1. A = {i \in 1 .. m - 3 : ErasedAt(a, i)}
      BY <1>2, Spelt
    <3>2. Read!Erasures(w) = {i \in 1 .. m + n - 3 : ErasedAt(w, i)}
      BY <1>4, Spelt
    <3>. QED
      BY <1>2, <1>3, <2>1, <3>1, <3>2
  <2>3. \A i \in Read!Erasures(w) : i \in Nat
    BY Spelt
  <2>. QED
    BY <1>1, <1>2, <2>2, <2>3 DEF Over
<1>6. \A i \in A : i + 3 <= m /\ i \in Nat
  BY <1>2, Spelt
<1>7. A \cap C = {} /\ A \cap D = {} /\ C \cap D = {}
  <2>1. \A i \in C : i > m /\ i \in Nat
    BY Spelt
  <2>2. \A i \in D : i <= m /\ i + 3 > m /\ i \in Nat
    BY <1>2, OverIs DEF Over
  <2>. QED
    BY <1>2, <1>6, <2>1, <2>2
<1>8. IsFiniteSet(A) /\ IsFiniteSet(B) /\ IsFiniteSet(Read!Erasures(w))
  BY FoundIn
<1>9. IsFiniteSet(C) /\ IsFiniteSet(D)
  <2>1. C \subseteq Read!Erasures(w) /\ D \subseteq Read!Erasures(w)
    BY <1>5
  <2>. QED
    BY <1>8, <2>1, FS_Subset
<1>10. Cardinality(C) = Cardinality(B)
  <2>1. ASSUME NEW i \in 1 .. n - 3 PROVE ErasedAt(w, m + i) <=> ErasedAt(b, i)
    <3>1. i \in 1 .. n /\ i + 1 \in 1 .. n /\ i + 2 \in 1 .. n /\ i + 3 \in 1 .. n
      BY <1>3
    <3>2. (m + i) + 1 = m + (i + 1) /\ (m + i) + 2 = m + (i + 2) /\ (m + i) + 3 = m + (i + 3)
      BY <1>2, <1>3
    <3>. QED
      BY <1>4, <3>1, <3>2 DEF ErasedAt
  <2>2. B = {i \in 1 .. n - 3 : ErasedAt(b, i)}
    BY <1>3, Spelt
  <2>3. Read!Erasures(w) = {i \in 1 .. m + n - 3 : ErasedAt(w, i)}
    BY <1>4, Spelt
  <2>4. PICK f : f = [i \in B |-> m + i]
    OBVIOUS
  <2>5. \A i \in B : m + i \in C
    <3>1. ASSUME NEW i \in B PROVE m + i \in Read!Erasures(w) /\ m + i > m
      <4>1. i \in 1 .. n - 3 /\ ErasedAt(b, i)
        BY <2>2
      <4>2. m + i \in 1 .. m + n - 3 /\ m + i > m
        BY <1>2, <1>3, <4>1
      <4>3. ErasedAt(w, m + i)
        BY <2>1, <4>1
      <4>. QED
        BY <2>3, <4>2, <4>3
    <3>. QED
      BY <3>1
  <2>6. \A c \in C : \E i \in B : c = m + i
    <3>. TAKE c \in C
    <3>1. c \in 1 .. m + n - 3 /\ c > m /\ ErasedAt(w, c)
      BY <2>3
    <3>2. c - m \in 1 .. n - 3 /\ m + (c - m) = c
      BY <1>2, <1>3, <3>1
    <3>3. c - m \in B
      BY <2>1, <2>2, <3>1, <3>2
    <3>. QED
      BY <3>2, <3>3
  <2>7. \A i, j \in B : m + i = m + j => i = j
    BY <1>2, <1>3, <2>2
  <2>8. f \in Bijection(B, C)
    <3>. HIDE DEF B, C
    <3>1. f \in [B -> C]
      BY <2>4, <2>5
    <3>2. f \in Surjection(B, C)
      BY <2>4, <2>6, <3>1 DEF Surjection
    <3>3. f \in Injection(B, C)
      BY <2>4, <2>7, <3>1 DEF Injection, IsInjective
    <3>. QED
      BY <3>2, <3>3 DEF Bijection
  <2>. QED
    BY <1>8, <2>8, FS_Bijection DEF ExistsBijection
<1>11. Cardinality(D) = IF D = {} THEN 0 ELSE 1
  <2>1. CASE D = {}
    BY <2>1, FS_EmptySet
  <2>2. CASE D # {}
    <3>1. PICK i : i \in D
      BY <2>2
    <3>2. D = {i}
      BY <3>1, OneOver
    <3>. QED
      BY <3>2, FS_Singleton
  <2>. QED
    BY <2>1, <2>2
<1>12. Cardinality(A \cup C \cup D) = Cardinality(A) + Cardinality(C) + Cardinality(D)
  <2>. HIDE DEF A, C, D
  <2>1. IsFiniteSet(A \cup C) /\ Cardinality(A \cup C) = Cardinality(A) + Cardinality(C) - Cardinality(A \cap C)
    BY <1>8, <1>9, FS_Union
  <2>2. Cardinality((A \cup C) \cup D) = Cardinality(A \cup C) + Cardinality(D) - Cardinality((A \cup C) \cap D)
    BY <1>9, <2>1, FS_Union
  <2>3. (A \cup C) \cap D = {} /\ Cardinality({}) = 0
    BY <1>7, FS_EmptySet
  <2>4. Cardinality(A) \in Nat /\ Cardinality(C) \in Nat /\ Cardinality(D) \in Nat
    BY <1>8, <1>9, FS_CardinalityType
  <2>5. Cardinality(A \cap C) = 0 /\ Cardinality((A \cup C) \cap D) = 0
    <3>1. A \cap C = {}
      BY <1>7
    <3>. QED
      BY <2>3, <3>1, Zenon
  <2>6. PICK x \in Nat, y \in Nat, z \in Nat : x = Cardinality(A) /\ y = Cardinality(C) /\ z = Cardinality(D)
    BY <2>4
  <2>7. Cardinality(A \cup C) = x + y
    <3>1. Cardinality(A \cup C) = x + y - 0
      BY <2>1, <2>5, <2>6, Zenon
    <3>. QED
      BY <2>6, <3>1
  <2>8. Cardinality(A \cup C \cup D) = (x + y) + z
    <3>1. Cardinality((A \cup C) \cup D) = (x + y) + z - 0
      BY <2>2, <2>5, <2>6, <2>7, Zenon
    <3>. QED
      BY <2>6, <3>1
  <2>. QED
    BY <2>6, <2>8
<1>. QED
  <2>1. Read!Found(a) = Cardinality(A) /\ Read!Found(b) = Cardinality(B) /\ Read!Found(w) = Cardinality(Read!Erasures(w))
    BY FoundCounts
  <2>. QED
    BY <1>1, <1>5, <1>10, <1>11, <1>12, <2>1

(* An end that may be the beginning of an erasure is one of the second     *)
(* part, or the first part has such an end and no erasure is over it.      *)
TailOf(t) == IF Read!CutAt(t) THEN 1 ELSE 0

LEMMA TailJoined ==
  ASSUME NEW a \in Bytes, NEW b \in Bytes
  PROVE  (IF Over(a, b) = {} THEN 0 ELSE 1) + TailOf(a \o b) <= TailOf(a) + TailOf(b)
<1>1. PICK w \in Bytes : w = a \o b
  BY JoinedBytes
<1>2. PICK m \in Nat : m = Len(a)
  BY JoinedBytes
<1>3. PICK n \in Nat : n = Len(b)
  BY JoinedBytes
<1>4. /\ Len(w) = m + n /\ (\A k \in 1 .. m : w[k] = a[k]) /\ \A k \in 1 .. n : w[m + k] = b[k]
  BY <1>1, <1>2, <1>3, JoinedBytes
<1>5. Over(a, b) # {} => Read!CutAt(a)
  BY OverIs
<1>6. ASSUME NEW k \in 1 .. 3, EndsWith(w, k), k <= n PROVE Read!CutAt(b)
  <2>1. EndsWith(b, k)
    <3>1. w[m + n - k + 1] = b[n - k + 1]
      <4>1. n - k + 1 \in 1 .. n /\ m + (n - k + 1) = m + n - k + 1
        BY <1>2, <1>3, <1>6
      <4>. QED
        BY <1>4, <4>1
    <3>2. k >= 2 => w[m + n - k + 2] = b[n - k + 2]
      <4>1. k >= 2 => n - k + 2 \in 1 .. n /\ m + (n - k + 2) = m + n - k + 2
        BY <1>2, <1>3, <1>6
      <4>. QED
        BY <1>4, <4>1
    <3>3. w[m + n] = b[n]
      <4>1. n \in 1 .. n
        BY <1>3, <1>6
      <4>. QED
        BY <1>4, <4>1
    <3>. QED
      BY <1>3, <1>4, <1>6, <3>1, <3>2, <3>3 DEF EndsWith
  <2>. QED
    BY <2>1, Spelt
<1>7. ASSUME NEW k \in 1 .. 3, EndsWith(w, k), k > n PROVE Read!CutAt(a) /\ Over(a, b) = {}
  <2>1. PICK j \in 1 .. 3 : j = k - n
    BY <1>3, <1>7
  <2>2. k <= m + n
    BY <1>4, <1>7 DEF EndsWith
  <2>3. EndsWith(a, j)
    <3>1. j <= m /\ m - j + 1 = m + n - k + 1 /\ m - j + 1 \in 1 .. m
      BY <1>2, <1>3, <2>1, <2>2
    <3>2. j >= 2 => k >= 2 /\ m - j + 2 = m + n - k + 2 /\ m - j + 2 \in 1 .. m
      BY <1>2, <1>3, <2>1, <2>2
    <3>3. j = 3 => k = 3 /\ n = 0 /\ m + n = m /\ m \in 1 .. m
      BY <1>2, <1>3, <2>1, <2>2
    <3>. QED
      BY <1>2, <1>4, <1>7, <3>1, <3>2, <3>3 DEF EndsWith
  <2>4. ASSUME NEW i \in Over(a, b) PROVE FALSE
    <3>1. b # <<>> /\ i \in Nat /\ i + 3 <= m + n /\ b[i + 3 - m] = "J" /\ i + 3 > m
      BY <1>2, <1>3, OverIs DEF Over
    <3>2. PICK c \in 1 .. n : c = i + 3 - m
      BY <1>2, <1>3, <3>1
    <3>3. w[m + c] = "J"
      BY <1>4, <3>1, <3>2
    <3>4. m + c = m + n - k + 1 \/ (k >= 2 /\ m + c = m + n - k + 2) \/ (k = 3 /\ m + c = m + n)
      BY <1>2, <1>3, <1>7, <3>2
    <3>. QED
      BY <1>4, <1>7, <3>3, <3>4 DEF EndsWith
  <2>. QED
    BY <2>3, <2>4, Spelt
<1>8. CASE Read!CutAt(w)
  <2>1. PICK k \in 1 .. 3 : EndsWith(w, k)
    BY <1>8, Spelt
  <2>2. CASE k <= n
    BY <1>1, <1>5, <1>6, <2>1, <2>2 DEF TailOf
  <2>3. CASE k > n
    BY <1>1, <1>7, <1>8, <2>1, <2>3 DEF TailOf
  <2>. QED
    BY <1>3, <2>2, <2>3
<1>9. CASE ~Read!CutAt(w)
  BY <1>1, <1>5, <1>9 DEF TailOf
<1>. QED
  BY <1>8, <1>9

(* The splitter, state by state.                                           *)
SplitStep(s, b, o) ==
  /\ o \in Splits
  /\ s.st = "ground" /\ b # "E" => o.st = "ground" /\ o.body = s.body /\ o.run = s.run \o <<b>> /\ o.segs = s.segs
  /\ s.st = "ground" /\ b = "E" => o.st = "esc" /\ o.body = s.body /\ o.run = s.run /\ o.segs = s.segs
  /\ s.st = "esc" /\ b = "A" => /\ o.st = "apc" /\ o.body = <<>> /\ o.run = <<>>
                                /\ o.segs = IF s.run = <<>> THEN s.segs ELSE Append(s.segs, [text |-> s.run, body |-> <<>>])
  /\ s.st = "esc" /\ b = "E" => o.st = "esc" /\ o.body = s.body /\ o.run = s.run \o <<"E">> /\ o.segs = s.segs
  /\ s.st = "esc" /\ b \notin {"A", "E"} =>
       o.st = "ground" /\ o.body = s.body /\ o.run = s.run \o <<"E", b>> /\ o.segs = s.segs
  /\ s.st = "apc" /\ b = "E" => o.st = "apcEsc" /\ o.body = s.body /\ o.run = s.run /\ o.segs = s.segs
  /\ s.st = "apc" /\ b # "E" => o.st = "apc" /\ o.body = Read!Grow(s.body, <<b>>) /\ o.run = s.run /\ o.segs = s.segs
  /\ s.st = "apcEsc" /\ b = "\\" => /\ o.st = "ground" /\ o.body = <<>> /\ o.run = s.run
                                    /\ o.segs = Append(s.segs, [text |-> <<>>, body |-> s.body])
  /\ s.st = "apcEsc" /\ b # "\\" =>
       o.st = "apc" /\ o.body = Read!Grow(s.body, <<"E", b>>) /\ o.run = s.run /\ o.segs = s.segs

LEMMA Grows ==
  ASSUME NEW a \in Bytes, NEW y \in Byte
  PROVE  Read!Grow(a, <<y>>) \in Bytes /\ Read!Grow(a, <<"E", y>>) \in Bytes
BY ByteSeqs DEF Read!Grow

LEMMA CloseIs ==
  ASSUME NEW s \in Splits
  PROVE  /\ Read!CloseRun(s) \in Splits
         /\ Read!CloseRun(s).st = s.st /\ Read!CloseRun(s).body = s.body /\ Read!CloseRun(s).run = <<>>
         /\ Read!CloseRun(s).segs = IF s.run = <<>> THEN s.segs ELSE Append(s.segs, [text |-> s.run, body |-> <<>>])
<1>1. PICK g \in TextRun : g = [text |-> s.run, body |-> <<>>]
  BY ByteSeqs DEF Splits, TextRun
<1>2. Append(s.segs, g) \in Seq(TextRun) /\ <<>> \in Bytes
  BY ByteSeqs DEF Splits
<1>3. PICK o : o = Read!CloseRun(s)
  OBVIOUS
<1>4. CASE s.run = <<>>
  BY <1>4 DEF Read!CloseRun
<1>5. CASE s.run # <<>>
  <2>1. o = [s EXCEPT !.run = <<>>, !.segs = Append(s.segs, g)]
    BY <1>1, <1>3, <1>5 DEF Read!CloseRun, Splits
  <2>2. o \in Splits /\ o.st = s.st /\ o.body = s.body /\ o.run = <<>> /\ o.segs = Append(s.segs, g)
    BY <1>2, <2>1 DEF Splits
  <2>. QED
    BY <1>1, <1>3, <1>5, <2>2
<1>. QED
  BY <1>4, <1>5

LEMMA SplitIs == ASSUME NEW s \in Splits, NEW b \in Byte PROVE SplitStep(s, b, Read!SplitByte(s, b))
<1>. s.run \in Bytes /\ s.body \in Bytes /\ s.segs \in Seq(TextRun)
  BY DEF Splits
<1>1. PICK o : o = Read!SplitByte(s, b)
  OBVIOUS
<1>2. CASE s.st = "ground" /\ b # "E"
  <2>1. o = [s EXCEPT !.st = "ground", !.run = s.run \o <<b>>]
    BY <1>1, <1>2 DEF Read!SplitByte, Read!Emit, Splits
  <2>2. s.run \o <<b>> \in Bytes
    BY ByteSeqs
  <2>. QED
    BY <1>1, <1>2, <2>1, <2>2 DEF SplitStep, Splits
<1>3. CASE s.st = "ground" /\ b = "E"
  <2>1. o = [s EXCEPT !.st = "esc"]
    BY <1>1, <1>3 DEF Read!SplitByte
  <2>. QED
    BY <1>1, <1>3, <2>1 DEF SplitStep, Splits
<1>4. CASE s.st = "esc" /\ b = "A"
  <2>1. PICK c \in Splits : c = Read!CloseRun(s)
    BY CloseIs
  <2>2. o = [c EXCEPT !.st = "apc", !.body = <<>>]
    BY <1>1, <1>4, <2>1 DEF Read!SplitByte
  <2>3. o \in Splits /\ o.st = "apc" /\ o.body = <<>> /\ o.run = c.run /\ o.segs = c.segs
    BY <2>2, ByteSeqs DEF Splits
  <2>4. c.run = <<>> /\ c.segs = IF s.run = <<>> THEN s.segs ELSE Append(s.segs, [text |-> s.run, body |-> <<>>])
    BY <2>1, CloseIs
  <2>. QED
    BY <1>1, <1>4, <2>3, <2>4 DEF SplitStep
<1>5. CASE s.st = "esc" /\ b = "E"
  <2>1. o = [s EXCEPT !.run = s.run \o <<"E">>]
    BY <1>1, <1>5 DEF Read!SplitByte, Splits
  <2>2. s.run \o <<"E">> \in Bytes
    BY ByteSeqs
  <2>. QED
    BY <1>1, <1>5, <2>1, <2>2 DEF SplitStep, Splits
<1>6. CASE s.st = "esc" /\ b \notin {"A", "E"}
  <2>1. o = [s EXCEPT !.st = "ground", !.run = s.run \o <<"E", b>>]
    BY <1>1, <1>6 DEF Read!SplitByte, Read!Emit, Splits
  <2>2. s.run \o <<"E", b>> \in Bytes
    BY ByteSeqs
  <2>. QED
    BY <1>1, <1>6, <2>1, <2>2 DEF SplitStep, Splits
<1>7. CASE s.st = "apc" /\ b = "E"
  <2>1. o = [s EXCEPT !.st = "apcEsc"]
    BY <1>1, <1>7 DEF Read!SplitByte
  <2>. QED
    BY <1>1, <1>7, <2>1 DEF SplitStep, Splits
<1>8. CASE s.st = "apc" /\ b # "E"
  <2>1. PICK w \in Bytes : w = Read!Grow(s.body, <<b>>)
    BY Grows
  <2>2. o = [s EXCEPT !.body = w]
    BY <1>1, <1>8, <2>1 DEF Read!SplitByte, Splits
  <2>3. o \in Splits /\ o.st = "apc" /\ o.body = w /\ o.run = s.run /\ o.segs = s.segs
    BY <1>8, <2>2 DEF Splits
  <2>. QED
    BY <1>1, <1>8, <2>1, <2>3 DEF SplitStep
<1>9. CASE s.st = "apcEsc" /\ b = "\\"
  <2>1. PICK g \in TextRun : g = [text |-> <<>>, body |-> s.body]
    BY ByteSeqs DEF TextRun
  <2>2. o = [s EXCEPT !.st = "ground", !.body = <<>>, !.segs = Append(s.segs, g)]
    BY <1>1, <1>9, <2>1 DEF Read!SplitByte, Splits
  <2>3. Append(s.segs, g) \in Seq(TextRun) /\ <<>> \in Bytes
    BY ByteSeqs
  <2>4. o \in Splits /\ o.st = "ground" /\ o.body = <<>> /\ o.run = s.run /\ o.segs = Append(s.segs, g)
    BY <2>2, <2>3 DEF Splits
  <2>. QED
    BY <1>1, <1>9, <2>1, <2>4 DEF SplitStep
<1>10. CASE s.st = "apcEsc" /\ b # "\\"
  <2>1. PICK w \in Bytes : w = Read!Grow(s.body, <<"E", b>>)
    BY Grows
  <2>2. o = [s EXCEPT !.st = "apc", !.body = w]
    BY <1>1, <1>10, <2>1 DEF Read!SplitByte, Splits
  <2>3. o \in Splits /\ o.st = "apc" /\ o.body = w /\ o.run = s.run /\ o.segs = s.segs
    BY <2>2 DEF Splits
  <2>. QED
    BY <1>1, <1>10, <2>1, <2>3 DEF SplitStep
<1>. QED
  BY <1>2, <1>3, <1>4, <1>5, <1>6, <1>7, <1>8, <1>9, <1>10 DEF Splits

SplitFn == [x \in Splits \X Byte |-> Read!SplitByte(x[1], x[2])]

LEMMA SplitTyped ==
  /\ SplitFn \in [Splits \X Byte -> Splits] /\ \A e \in Splits, y \in Byte : SplitFn[<<e, y>>] = Read!SplitByte(e, y)
<1>1. \A e \in Splits, y \in Byte : Read!SplitByte(e, y) \in Splits
  BY SplitIs DEF SplitStep
<1>. QED
  BY <1>1 DEF SplitFn

(* What is folded is what a scanner makes of it.                           *)
LEMMA SplitFold ==
  ASSUME NEW base \in Splits, NEW s \in Seq(Byte)
  PROVE  Read!FoldLeft(Read!SplitByte, base, s) = Ran(SplitFn, base, s)
<1>. Len(s) \in Nat /\ DOMAIN s = 1 .. Len(s) /\ \A k \in 1 .. Len(s) : s[k] \in Byte
  OBVIOUS
<1>. DEFINE It(g, n) == g = [S \in SUBSET (1 .. n) |-> IF S = {} THEN base ELSE Read!SplitByte(g[S \ {Top(S)}], s[Top(S)])]
<1>1. PICK n \in Nat : n = Len(s)
  OBVIOUS
<1>2. SplitFn \in [Splits \X Byte -> Splits] /\ \A e \in Splits, y \in Byte : SplitFn[<<e, y>>] = Read!SplitByte(e, y)
  BY SplitTyped
<1>3. PICK g : Folds(g, SplitFn, base, s, n) /\ \A S \in SUBSET (1 .. n) : g[S] \in Splits
  <2>1. Foldable(Splits, Byte, SplitFn, base, s, n)
    BY <1>1, <1>2 DEF Foldable
  <2>. QED
    BY <2>1, FoldExists
<1>4. It(g, n)
  <2>1. \A S \in SUBSET (1 .. n) : S # {} => s[Top(S)] \in Byte /\ S \ {Top(S)} \in SUBSET (1 .. n)
    BY <1>1, TopIn
  <2>2. \A S \in SUBSET (1 .. n) : g[S] = IF S = {} THEN base ELSE Read!SplitByte(g[S \ {Top(S)}], s[Top(S)])
    BY <1>2, <1>3, <2>1 DEF Folds
  <2>3. g = [S \in SUBSET (1 .. n) |-> g[S]]
    BY <1>3 DEF Folds
  <2>. QED
    BY <2>2, <2>3
<1>5. PICK G : G = CHOOSE k : It(k, n)
  OBVIOUS
<1>6. It(G, n)
  BY <1>4, <1>5
<1>7. Read!FoldLeft(Read!SplitByte, base, s) = G[1 .. n]
  BY <1>1, <1>5, Zenon DEF Read!FoldLeft, Read!MapThenFoldSet, Read!Max, Top
<1>8. PICK h : Runs(h, Splits, SplitFn, base, s)
  <2>1. Scans(Splits, Byte, SplitFn, base, s)
    BY <1>2 DEF Scans
  <2>. QED
    BY <2>1, RunExists
<1>9. h \in [0 .. n -> Splits] /\ Follows(h, SplitFn, base, s) /\ h[n] = Ran(SplitFn, base, s)
  BY <1>1, <1>8 DEF Runs
<1>. DEFINE Alike == {k \in Nat : k <= n => h[k] = G[1 .. k]}
<1>10. 0 \in Alike
  <2>1. 1 .. 0 = {} /\ {} \in SUBSET (1 .. n)
    OBVIOUS
  <2>2. G[{}] = base
    BY <1>6, <2>1
  <2>. QED
    BY <1>9, <2>1, <2>2 DEF Follows
<1>11. ASSUME NEW k \in Nat, k \in Alike PROVE k + 1 \in Alike
  <2>. SUFFICES ASSUME k + 1 <= n PROVE h[k + 1] = G[1 .. k + 1]
    OBVIOUS
  <2>1. k \in 0 .. n - 1 /\ k + 1 \in 1 .. Len(s) /\ (k + 1) - 1 = k /\ k \in 0 .. n
    BY <1>1
  <2>2. /\ 1 .. k + 1 \in SUBSET (1 .. n) /\ 1 .. k + 1 # {}
        /\ Top(1 .. k + 1) = k + 1 /\ (1 .. k + 1) \ {k + 1} = 1 .. k
    BY <2>1, FirstOnes
  <2>3. PICK T : T = 1 .. k + 1
    OBVIOUS
  <2>4. G[T] = Read!SplitByte(G[T \ {Top(T)}], s[Top(T)])
    BY <1>6, <2>2, <2>3, Zenon
  <2>5. h[k] = G[1 .. k]
    BY <1>11
  <2>6. h[k + 1] = SplitFn[<<h[k], s[k + 1]>>]
    BY <1>9, <2>1 DEF Follows
  <2>7. PICK e \in Splits : e = h[k]
    BY <1>9, <2>1
  <2>8. PICK y \in Byte : y = s[k + 1]
    BY <2>1
  <2>9. SplitFn[<<e, y>>] = Read!SplitByte(e, y)
    BY <1>2
  <2>10. G[T] = Read!SplitByte(e, y)
    BY <2>2, <2>3, <2>4, <2>5, <2>7, <2>8
  <2>. QED
    BY <2>3, <2>6, <2>7, <2>8, <2>9, <2>10
<1>12. Nat \subseteq Alike
  <2>. HIDE DEF Alike, It
  <2>. QED
    BY <1>10, <1>11, UpToAll
<1>13. h[n] = G[1 .. n]
  BY <1>12
<1>. QED
  BY <1>7, <1>9, <1>13


LEMMA OscFold ==
  ASSUME NEW base \in Oscs, NEW s \in Seq(Byte)
  PROVE  Read!FoldLeft(Read!Osc7Byte, base, s) = Ran(OscFn, base, s)
<1>. Len(s) \in Nat /\ DOMAIN s = 1 .. Len(s) /\ \A k \in 1 .. Len(s) : s[k] \in Byte
  OBVIOUS
<1>. DEFINE It(g, n) == g = [S \in SUBSET (1 .. n) |-> IF S = {} THEN base ELSE Read!Osc7Byte(g[S \ {Top(S)}], s[Top(S)])]
<1>1. PICK n \in Nat : n = Len(s)
  OBVIOUS
<1>2. OscFn \in [Oscs \X Byte -> Oscs] /\ \A e \in Oscs, y \in Byte : OscFn[<<e, y>>] = Read!Osc7Byte(e, y)
  BY OscTyped
<1>3. PICK g : Folds(g, OscFn, base, s, n) /\ \A S \in SUBSET (1 .. n) : g[S] \in Oscs
  <2>1. Foldable(Oscs, Byte, OscFn, base, s, n)
    BY <1>1, <1>2 DEF Foldable
  <2>. QED
    BY <2>1, FoldExists
<1>4. It(g, n)
  <2>1. \A S \in SUBSET (1 .. n) : S # {} => s[Top(S)] \in Byte /\ S \ {Top(S)} \in SUBSET (1 .. n)
    BY <1>1, TopIn
  <2>2. \A S \in SUBSET (1 .. n) : g[S] = IF S = {} THEN base ELSE Read!Osc7Byte(g[S \ {Top(S)}], s[Top(S)])
    BY <1>2, <1>3, <2>1 DEF Folds
  <2>3. g = [S \in SUBSET (1 .. n) |-> g[S]]
    BY <1>3 DEF Folds
  <2>. QED
    BY <2>2, <2>3
<1>5. PICK G : G = CHOOSE k : It(k, n)
  OBVIOUS
<1>6. It(G, n)
  BY <1>4, <1>5
<1>7. Read!FoldLeft(Read!Osc7Byte, base, s) = G[1 .. n]
  BY <1>1, <1>5, Zenon DEF Read!FoldLeft, Read!MapThenFoldSet, Read!Max, Top
<1>8. PICK h : Runs(h, Oscs, OscFn, base, s)
  <2>1. Scans(Oscs, Byte, OscFn, base, s)
    BY <1>2 DEF Scans
  <2>. QED
    BY <2>1, RunExists
<1>9. h \in [0 .. n -> Oscs] /\ Follows(h, OscFn, base, s) /\ h[n] = Ran(OscFn, base, s)
  BY <1>1, <1>8 DEF Runs
<1>. DEFINE Alike == {k \in Nat : k <= n => h[k] = G[1 .. k]}
<1>10. 0 \in Alike
  <2>1. 1 .. 0 = {} /\ {} \in SUBSET (1 .. n)
    OBVIOUS
  <2>2. G[{}] = base
    BY <1>6, <2>1
  <2>. QED
    BY <1>9, <2>1, <2>2 DEF Follows
<1>11. ASSUME NEW k \in Nat, k \in Alike PROVE k + 1 \in Alike
  <2>. SUFFICES ASSUME k + 1 <= n PROVE h[k + 1] = G[1 .. k + 1]
    OBVIOUS
  <2>1. k \in 0 .. n - 1 /\ k + 1 \in 1 .. Len(s) /\ (k + 1) - 1 = k /\ k \in 0 .. n
    BY <1>1
  <2>2. /\ 1 .. k + 1 \in SUBSET (1 .. n) /\ 1 .. k + 1 # {}
        /\ Top(1 .. k + 1) = k + 1 /\ (1 .. k + 1) \ {k + 1} = 1 .. k
    BY <2>1, FirstOnes
  <2>3. PICK T : T = 1 .. k + 1
    OBVIOUS
  <2>4. G[T] = Read!Osc7Byte(G[T \ {Top(T)}], s[Top(T)])
    BY <1>6, <2>2, <2>3, Zenon
  <2>5. h[k] = G[1 .. k]
    BY <1>11
  <2>6. h[k + 1] = OscFn[<<h[k], s[k + 1]>>]
    BY <1>9, <2>1 DEF Follows
  <2>7. PICK e \in Oscs : e = h[k]
    BY <1>9, <2>1
  <2>8. PICK y \in Byte : y = s[k + 1]
    BY <2>1
  <2>9. OscFn[<<e, y>>] = Read!Osc7Byte(e, y)
    BY <1>2
  <2>10. G[T] = Read!Osc7Byte(e, y)
    BY <2>2, <2>3, <2>4, <2>5, <2>7, <2>8
  <2>. QED
    BY <2>3, <2>6, <2>7, <2>8, <2>9, <2>10
<1>12. Nat \subseteq Alike
  <2>. HIDE DEF Alike, It
  <2>. QED
    BY <1>10, <1>11, UpToAll
<1>13. h[n] = G[1 .. n]
  BY <1>12
<1>. QED
  BY <1>7, <1>9, <1>13


LEMMA StripFold ==
  ASSUME NEW base \in Strips, NEW s \in Seq(Byte)
  PROVE  Read!FoldLeft(Read!StripByte, base, s) = Ran(StripFn, base, s)
<1>. Len(s) \in Nat /\ DOMAIN s = 1 .. Len(s) /\ \A k \in 1 .. Len(s) : s[k] \in Byte
  OBVIOUS
<1>. DEFINE It(g, n) == g = [S \in SUBSET (1 .. n) |-> IF S = {} THEN base ELSE Read!StripByte(g[S \ {Top(S)}], s[Top(S)])]
<1>1. PICK n \in Nat : n = Len(s)
  OBVIOUS
<1>2. StripFn \in [Strips \X Byte -> Strips] /\ \A e \in Strips, y \in Byte : StripFn[<<e, y>>] = Read!StripByte(e, y)
  BY StripTyped
<1>3. PICK g : Folds(g, StripFn, base, s, n) /\ \A S \in SUBSET (1 .. n) : g[S] \in Strips
  <2>1. Foldable(Strips, Byte, StripFn, base, s, n)
    BY <1>1, <1>2 DEF Foldable
  <2>. QED
    BY <2>1, FoldExists
<1>4. It(g, n)
  <2>1. \A S \in SUBSET (1 .. n) : S # {} => s[Top(S)] \in Byte /\ S \ {Top(S)} \in SUBSET (1 .. n)
    BY <1>1, TopIn
  <2>2. \A S \in SUBSET (1 .. n) : g[S] = IF S = {} THEN base ELSE Read!StripByte(g[S \ {Top(S)}], s[Top(S)])
    BY <1>2, <1>3, <2>1 DEF Folds
  <2>3. g = [S \in SUBSET (1 .. n) |-> g[S]]
    BY <1>3 DEF Folds
  <2>. QED
    BY <2>2, <2>3
<1>5. PICK G : G = CHOOSE k : It(k, n)
  OBVIOUS
<1>6. It(G, n)
  BY <1>4, <1>5
<1>7. Read!FoldLeft(Read!StripByte, base, s) = G[1 .. n]
  BY <1>1, <1>5, Zenon DEF Read!FoldLeft, Read!MapThenFoldSet, Read!Max, Top
<1>8. PICK h : Runs(h, Strips, StripFn, base, s)
  <2>1. Scans(Strips, Byte, StripFn, base, s)
    BY <1>2 DEF Scans
  <2>. QED
    BY <2>1, RunExists
<1>9. h \in [0 .. n -> Strips] /\ Follows(h, StripFn, base, s) /\ h[n] = Ran(StripFn, base, s)
  BY <1>1, <1>8 DEF Runs
<1>. DEFINE Alike == {k \in Nat : k <= n => h[k] = G[1 .. k]}
<1>10. 0 \in Alike
  <2>1. 1 .. 0 = {} /\ {} \in SUBSET (1 .. n)
    OBVIOUS
  <2>2. G[{}] = base
    BY <1>6, <2>1
  <2>. QED
    BY <1>9, <2>1, <2>2 DEF Follows
<1>11. ASSUME NEW k \in Nat, k \in Alike PROVE k + 1 \in Alike
  <2>. SUFFICES ASSUME k + 1 <= n PROVE h[k + 1] = G[1 .. k + 1]
    OBVIOUS
  <2>1. k \in 0 .. n - 1 /\ k + 1 \in 1 .. Len(s) /\ (k + 1) - 1 = k /\ k \in 0 .. n
    BY <1>1
  <2>2. /\ 1 .. k + 1 \in SUBSET (1 .. n) /\ 1 .. k + 1 # {}
        /\ Top(1 .. k + 1) = k + 1 /\ (1 .. k + 1) \ {k + 1} = 1 .. k
    BY <2>1, FirstOnes
  <2>3. PICK T : T = 1 .. k + 1
    OBVIOUS
  <2>4. G[T] = Read!StripByte(G[T \ {Top(T)}], s[Top(T)])
    BY <1>6, <2>2, <2>3, Zenon
  <2>5. h[k] = G[1 .. k]
    BY <1>11
  <2>6. h[k + 1] = StripFn[<<h[k], s[k + 1]>>]
    BY <1>9, <2>1 DEF Follows
  <2>7. PICK e \in Strips : e = h[k]
    BY <1>9, <2>1
  <2>8. PICK y \in Byte : y = s[k + 1]
    BY <2>1
  <2>9. StripFn[<<e, y>>] = Read!StripByte(e, y)
    BY <1>2
  <2>10. G[T] = Read!StripByte(e, y)
    BY <2>2, <2>3, <2>4, <2>5, <2>7, <2>8
  <2>. QED
    BY <2>3, <2>6, <2>7, <2>8, <2>9, <2>10
<1>12. Nat \subseteq Alike
  <2>. HIDE DEF Alike, It
  <2>. QED
    BY <1>10, <1>11, UpToAll
<1>13. h[n] = G[1 .. n]
  BY <1>12
<1>. QED
  BY <1>7, <1>9, <1>13


LEMMA SaidFold ==
  ASSUME NEW base \in Sums, NEW s \in Seq(Read!Pieces)
  PROVE  Read!FoldLeft(Read!Said, base, s) = Ran(SaidFn, base, s)
<1>. Len(s) \in Nat /\ DOMAIN s = 1 .. Len(s) /\ \A k \in 1 .. Len(s) : s[k] \in Read!Pieces
  OBVIOUS
<1>. DEFINE It(g, n) == g = [S \in SUBSET (1 .. n) |-> IF S = {} THEN base ELSE Read!Said(g[S \ {Top(S)}], s[Top(S)])]
<1>1. PICK n \in Nat : n = Len(s)
  OBVIOUS
<1>2. SaidFn \in [Sums \X Read!Pieces -> Sums] /\ \A e \in Sums, y \in Read!Pieces : SaidFn[<<e, y>>] = Read!Said(e, y)
  BY SaidTyped
<1>3. PICK g : Folds(g, SaidFn, base, s, n) /\ \A S \in SUBSET (1 .. n) : g[S] \in Sums
  <2>1. Foldable(Sums, Read!Pieces, SaidFn, base, s, n)
    BY <1>1, <1>2 DEF Foldable
  <2>. QED
    BY <2>1, FoldExists
<1>4. It(g, n)
  <2>1. \A S \in SUBSET (1 .. n) : S # {} => s[Top(S)] \in Read!Pieces /\ S \ {Top(S)} \in SUBSET (1 .. n)
    BY <1>1, TopIn
  <2>2. \A S \in SUBSET (1 .. n) : g[S] = IF S = {} THEN base ELSE Read!Said(g[S \ {Top(S)}], s[Top(S)])
    BY <1>2, <1>3, <2>1 DEF Folds
  <2>3. g = [S \in SUBSET (1 .. n) |-> g[S]]
    BY <1>3 DEF Folds
  <2>. QED
    BY <2>2, <2>3
<1>5. PICK G : G = CHOOSE k : It(k, n)
  OBVIOUS
<1>6. It(G, n)
  BY <1>4, <1>5
<1>7. Read!FoldLeft(Read!Said, base, s) = G[1 .. n]
  BY <1>1, <1>5, Zenon DEF Read!FoldLeft, Read!MapThenFoldSet, Read!Max, Top
<1>8. PICK h : Runs(h, Sums, SaidFn, base, s)
  <2>1. Scans(Sums, Read!Pieces, SaidFn, base, s)
    BY <1>2 DEF Scans
  <2>. QED
    BY <2>1, RunExists
<1>9. h \in [0 .. n -> Sums] /\ Follows(h, SaidFn, base, s) /\ h[n] = Ran(SaidFn, base, s)
  BY <1>1, <1>8 DEF Runs
<1>. DEFINE Alike == {k \in Nat : k <= n => h[k] = G[1 .. k]}
<1>10. 0 \in Alike
  <2>1. 1 .. 0 = {} /\ {} \in SUBSET (1 .. n)
    OBVIOUS
  <2>2. G[{}] = base
    BY <1>6, <2>1
  <2>. QED
    BY <1>9, <2>1, <2>2 DEF Follows
<1>11. ASSUME NEW k \in Nat, k \in Alike PROVE k + 1 \in Alike
  <2>. SUFFICES ASSUME k + 1 <= n PROVE h[k + 1] = G[1 .. k + 1]
    OBVIOUS
  <2>1. k \in 0 .. n - 1 /\ k + 1 \in 1 .. Len(s) /\ (k + 1) - 1 = k /\ k \in 0 .. n
    BY <1>1
  <2>2. /\ 1 .. k + 1 \in SUBSET (1 .. n) /\ 1 .. k + 1 # {}
        /\ Top(1 .. k + 1) = k + 1 /\ (1 .. k + 1) \ {k + 1} = 1 .. k
    BY <2>1, FirstOnes
  <2>3. PICK T : T = 1 .. k + 1
    OBVIOUS
  <2>4. G[T] = Read!Said(G[T \ {Top(T)}], s[Top(T)])
    BY <1>6, <2>2, <2>3, Zenon
  <2>5. h[k] = G[1 .. k]
    BY <1>11
  <2>6. h[k + 1] = SaidFn[<<h[k], s[k + 1]>>]
    BY <1>9, <2>1 DEF Follows
  <2>7. PICK e \in Sums : e = h[k]
    BY <1>9, <2>1
  <2>8. PICK y \in Read!Pieces : y = s[k + 1]
    BY <2>1
  <2>9. SaidFn[<<e, y>>] = Read!Said(e, y)
    BY <1>2
  <2>10. G[T] = Read!Said(e, y)
    BY <2>2, <2>3, <2>4, <2>5, <2>7, <2>8
  <2>. QED
    BY <2>3, <2>6, <2>7, <2>8, <2>9, <2>10
<1>12. Nat \subseteq Alike
  <2>. HIDE DEF Alike, It
  <2>. QED
    BY <1>10, <1>11, UpToAll
<1>13. h[n] = G[1 .. n]
  BY <1>12
<1>. QED
  BY <1>7, <1>9, <1>13


(* A segment that is processed.                                            *)
ProcessStep(t, g, p) ==
  /\ p \in Terms
  /\ g.text = <<>> => /\ p.bodies = Append(t.bodies, g.body)
                      /\ p.fed = t.fed /\ p.osc7 = t.osc7 /\ p.erased = t.erased /\ p.cut = t.cut
  /\ g.text # <<>> => /\ p.bodies = t.bodies /\ p.fed = t.fed \o g.text /\ p.osc7 = Ran(OscFn, t.osc7, g.text)
                      /\ p.erased = t.erased + Read!Found(g.text) /\ p.cut = t.cut + TailOf(g.text)

LEMMA ProcessIs == ASSUME NEW t \in Terms, NEW g \in TextRun PROVE ProcessStep(t, g, Read!Process(t, g))
<1>. g.text \in Bytes /\ g.body \in Bytes /\ t.osc7 \in Oscs
  BY DEF TextRun, Terms
<1>1. PICK p : p = Read!Process(t, g)
  OBVIOUS
<1>2. CASE g.text = <<>>
  <2>1. p = [t EXCEPT !.bodies = Append(t.bodies, g.body)]
    BY <1>1, <1>2 DEF Read!Process, Terms
  <2>2. Append(t.bodies, g.body) \in Seq(Bytes)
    BY DEF Terms
  <2>. QED
    BY <1>1, <1>2, <2>1, <2>2 DEF ProcessStep, Terms
<1>3. CASE g.text # <<>>
  <2>1. PICK o \in Oscs : o = Ran(OscFn, t.osc7, g.text)
    <3>1. Scans(Oscs, Byte, OscFn, t.osc7, g.text)
      BY OscTyped DEF Scans, Bytes
    <3>. QED
      BY <3>1, RanIn
  <2>2. Read!FoldLeft(Read!Osc7Byte, t.osc7, g.text) = o
    BY <2>1, OscFold DEF Bytes
  <2>3. PICK f \in Nat : f = Read!Found(g.text)
    BY FoundIn
  <2>4. PICK c \in Nat : c = TailOf(g.text)
    BY DEF TailOf
  <2>5. p = [t EXCEPT !.fed = t.fed \o g.text, !.osc7 = o, !.erased = t.erased + f, !.cut = t.cut + c]
    BY <1>1, <1>3, <2>2, <2>3, <2>4 DEF Read!Process, Terms, TailOf
  <2>6. t.fed \o g.text \in Bytes /\ t.erased + f \in Nat /\ t.cut + c \in Nat
    BY ByteSeqs DEF Terms
  <2>7. p \in Terms /\ p.bodies = t.bodies /\ p.fed = t.fed \o g.text /\ p.osc7 = o /\ p.erased = t.erased + f /\ p.cut = t.cut + c
    BY <2>5, <2>6 DEF Terms
  <2>. QED
    BY <1>1, <1>3, <2>1, <2>3, <2>4, <2>7 DEF ProcessStep
<1>. QED
  BY <1>2, <1>3

ProcessFn == [x \in Terms \X TextRun |-> Read!Process(x[1], x[2])]

LEMMA ProcessTyped ==
  /\ ProcessFn \in [Terms \X TextRun -> Terms] /\ \A e \in Terms, y \in TextRun : ProcessFn[<<e, y>>] = Read!Process(e, y)
<1>1. \A e \in Terms, y \in TextRun : Read!Process(e, y) \in Terms
  BY ProcessIs DEF ProcessStep
<1>. QED
  BY <1>1 DEF ProcessFn

LEMMA ProcessFold ==
  ASSUME NEW base \in Terms, NEW s \in Seq(TextRun)
  PROVE  Read!FoldLeft(Read!Process, base, s) = Ran(ProcessFn, base, s)
<1>. Len(s) \in Nat /\ DOMAIN s = 1 .. Len(s) /\ \A k \in 1 .. Len(s) : s[k] \in TextRun
  OBVIOUS
<1>. DEFINE It(g, n) == g = [S \in SUBSET (1 .. n) |-> IF S = {} THEN base ELSE Read!Process(g[S \ {Top(S)}], s[Top(S)])]
<1>1. PICK n \in Nat : n = Len(s)
  OBVIOUS
<1>2. ProcessFn \in [Terms \X TextRun -> Terms] /\ \A e \in Terms, y \in TextRun : ProcessFn[<<e, y>>] = Read!Process(e, y)
  BY ProcessTyped
<1>3. PICK g : Folds(g, ProcessFn, base, s, n) /\ \A S \in SUBSET (1 .. n) : g[S] \in Terms
  <2>1. Foldable(Terms, TextRun, ProcessFn, base, s, n)
    BY <1>1, <1>2 DEF Foldable
  <2>. QED
    BY <2>1, FoldExists
<1>4. It(g, n)
  <2>1. \A S \in SUBSET (1 .. n) : S # {} => s[Top(S)] \in TextRun /\ S \ {Top(S)} \in SUBSET (1 .. n)
    BY <1>1, TopIn
  <2>2. \A S \in SUBSET (1 .. n) : g[S] = IF S = {} THEN base ELSE Read!Process(g[S \ {Top(S)}], s[Top(S)])
    BY <1>2, <1>3, <2>1 DEF Folds
  <2>3. g = [S \in SUBSET (1 .. n) |-> g[S]]
    BY <1>3 DEF Folds
  <2>. QED
    BY <2>2, <2>3
<1>5. PICK G : G = CHOOSE k : It(k, n)
  OBVIOUS
<1>6. It(G, n)
  BY <1>4, <1>5
<1>7. Read!FoldLeft(Read!Process, base, s) = G[1 .. n]
  BY <1>1, <1>5, Zenon DEF Read!FoldLeft, Read!MapThenFoldSet, Read!Max, Top
<1>8. PICK h : Runs(h, Terms, ProcessFn, base, s)
  <2>1. Scans(Terms, TextRun, ProcessFn, base, s)
    BY <1>2 DEF Scans
  <2>. QED
    BY <2>1, RunExists
<1>9. h \in [0 .. n -> Terms] /\ Follows(h, ProcessFn, base, s) /\ h[n] = Ran(ProcessFn, base, s)
  BY <1>1, <1>8 DEF Runs
<1>. DEFINE Alike == {k \in Nat : k <= n => h[k] = G[1 .. k]}
<1>10. 0 \in Alike
  <2>1. 1 .. 0 = {} /\ {} \in SUBSET (1 .. n)
    OBVIOUS
  <2>2. G[{}] = base
    BY <1>6, <2>1
  <2>. QED
    BY <1>9, <2>1, <2>2 DEF Follows
<1>11. ASSUME NEW k \in Nat, k \in Alike PROVE k + 1 \in Alike
  <2>. SUFFICES ASSUME k + 1 <= n PROVE h[k + 1] = G[1 .. k + 1]
    OBVIOUS
  <2>1. k \in 0 .. n - 1 /\ k + 1 \in 1 .. Len(s) /\ (k + 1) - 1 = k /\ k \in 0 .. n
    BY <1>1
  <2>2. /\ 1 .. k + 1 \in SUBSET (1 .. n) /\ 1 .. k + 1 # {}
        /\ Top(1 .. k + 1) = k + 1 /\ (1 .. k + 1) \ {k + 1} = 1 .. k
    BY <2>1, FirstOnes
  <2>3. PICK T : T = 1 .. k + 1
    OBVIOUS
  <2>4. G[T] = Read!Process(G[T \ {Top(T)}], s[Top(T)])
    BY <1>6, <2>2, <2>3, Zenon
  <2>5. h[k] = G[1 .. k]
    BY <1>11
  <2>6. h[k + 1] = ProcessFn[<<h[k], s[k + 1]>>]
    BY <1>9, <2>1 DEF Follows
  <2>7. PICK e \in Terms : e = h[k]
    BY <1>9, <2>1
  <2>8. PICK y \in TextRun : y = s[k + 1]
    BY <2>1
  <2>9. ProcessFn[<<e, y>>] = Read!Process(e, y)
    BY <1>2
  <2>10. G[T] = Read!Process(e, y)
    BY <2>2, <2>3, <2>4, <2>5, <2>7, <2>8
  <2>. QED
    BY <2>3, <2>6, <2>7, <2>8, <2>9, <2>10
<1>12. Nat \subseteq Alike
  <2>. HIDE DEF Alike, It
  <2>. QED
    BY <1>10, <1>11, UpToAll
<1>13. h[n] = G[1 .. n]
  BY <1>12
<1>. QED
  BY <1>7, <1>9, <1>13

(* What the splitter would hand on of all bytes so far if they came in one *)
(* read: text and commands, without the runs the text comes in.            *)
Heards == [st : {"ground", "esc", "apc", "apcEsc"}, body : Bytes, fed : Bytes, bodies : Seq(Bytes)]

HearByte(a, b) ==
  [st     |-> IF a.st = "ground" THEN IF b = "E" THEN "esc" ELSE "ground"
              ELSE IF a.st = "esc" THEN IF b = "A" THEN "apc" ELSE IF b = "E" THEN "esc" ELSE "ground"
              ELSE IF a.st = "apc" THEN IF b = "E" THEN "apcEsc" ELSE "apc"
              ELSE IF b = "\\" THEN "ground" ELSE "apc",
   body   |-> IF a.st = "ground" THEN a.body
              ELSE IF a.st = "esc" THEN IF b = "A" THEN <<>> ELSE a.body
              ELSE IF a.st = "apc" THEN IF b = "E" THEN a.body ELSE Read!Grow(a.body, <<b>>)
              ELSE IF b = "\\" THEN <<>> ELSE Read!Grow(a.body, <<"E", b>>),
   fed    |-> IF a.st = "ground" THEN IF b = "E" THEN a.fed ELSE a.fed \o <<b>>
              ELSE IF a.st = "esc" THEN IF b = "A" THEN a.fed ELSE IF b = "E" THEN a.fed \o <<"E">> ELSE a.fed \o <<"E", b>>
              ELSE a.fed,
   bodies |-> IF a.st = "apcEsc" /\ b = "\\" THEN Append(a.bodies, a.body) ELSE a.bodies]

HearFn == [x \in Heards \X Byte |-> HearByte(x[1], x[2])]

LEMMA HearTyped ==
  /\ HearFn \in [Heards \X Byte -> Heards] /\ \A e \in Heards, y \in Byte : HearFn[<<e, y>>] = HearByte(e, y)
<1>1. ASSUME NEW a \in Heards, NEW b \in Byte PROVE HearByte(a, b) \in Heards
  <2>1. a.body \in Bytes /\ a.fed \in Bytes /\ a.bodies \in Seq(Bytes)
    BY DEF Heards
  <2>2. /\ Read!Grow(a.body, <<b>>) \in Bytes /\ Read!Grow(a.body, <<"E", b>>) \in Bytes
        /\ a.fed \o <<b>> \in Bytes /\ a.fed \o <<"E", b>> \in Bytes /\ a.fed \o <<"E">> \in Bytes /\ <<>> \in Bytes
    BY <2>1, Grows, ByteSeqs
  <2>3. Append(a.bodies, a.body) \in Seq(Bytes)
    BY <2>1
  <2>. QED
    BY <2>1, <2>2, <2>3 DEF HearByte, Heards
<1>. QED
  BY <1>1 DEF HearFn

Linked(e, t, a) == e.st = a.st /\ e.body = a.body /\ t.fed \o e.run = a.fed /\ t.bodies = a.bodies

LinkKept(e, t, o, c) ==
  \/ o.segs = e.segs /\ Linked(o, t, c)
  \/ \E g \in TextRun : o.segs = Append(e.segs, g) /\ Linked(o, Read!Process(t, g), c)

LEMMA Joining ==
  ASSUME NEW a \in Bytes, NEW b \in Bytes
  PROVE  (\A c \in Bytes : (a \o b) \o c = a \o (b \o c)) /\ a \o <<>> = a /\ <<>> \o a = a
<1>1. \A c \in Bytes : (a \o b) \o c = a \o (b \o c)
  BY ConcatAssociative DEF Bytes
<1>. QED
  BY <1>1, ConcatEmptySeq DEF Bytes

LEMMA LinkStep ==
  ASSUME NEW e \in Splits, NEW t \in Terms, NEW a \in Heards, NEW b \in Byte, Linked(e, t, a)
  PROVE  LinkKept(e, t, Read!SplitByte(e, b), HearByte(a, b))
<1>. e.run \in Bytes /\ t.fed \in Bytes /\ e.segs \in Seq(TextRun) /\ e.body \in Bytes /\ <<>> \in Bytes /\ <<b>> \in Bytes /\ <<"E", b>> \in Bytes /\ <<"E">> \in Bytes
  BY ByteSeqs DEF Splits, Terms
<1>1. PICK o : o = Read!SplitByte(e, b)
  OBVIOUS
<1>2. PICK c : c = HearByte(a, b)
  OBVIOUS
<1>3. SplitStep(e, b, o)
  BY <1>1, SplitIs
<1>4. e.st = a.st /\ e.body = a.body /\ t.fed \o e.run = a.fed /\ t.bodies = a.bodies
  BY DEF Linked
<1>5. CASE e.st = "ground" /\ b # "E"
  <2>1. o.st = "ground" /\ o.body = e.body /\ o.run = e.run \o <<b>> /\ o.segs = e.segs
    BY <1>3, <1>5 DEF SplitStep
  <2>2. c.st = "ground" /\ c.body = a.body /\ c.fed = a.fed \o <<b>> /\ c.bodies = a.bodies
    BY <1>2, <1>4, <1>5 DEF HearByte
  <2>3. t.fed \o (e.run \o <<b>>) = (t.fed \o e.run) \o <<b>>
    <3>1. \A w \in Bytes : (t.fed \o e.run) \o w = t.fed \o (e.run \o w)
      BY Joining
    <3>. QED
      BY <3>1, Zenon
  <2>. QED
    BY <1>1, <1>2, <1>4, <2>1, <2>2, <2>3 DEF LinkKept, Linked
<1>6. CASE e.st = "ground" /\ b = "E"
  <2>1. o.st = "esc" /\ o.body = e.body /\ o.run = e.run /\ o.segs = e.segs
    BY <1>3, <1>6 DEF SplitStep
  <2>2. c.st = "esc" /\ c.body = a.body /\ c.fed = a.fed /\ c.bodies = a.bodies
    BY <1>2, <1>4, <1>6 DEF HearByte
  <2>. QED
    BY <1>1, <1>2, <1>4, <2>1, <2>2 DEF LinkKept, Linked
<1>7. CASE e.st = "esc" /\ b = "A"
  <2>1. o.st = "apc" /\ o.body = <<>> /\ o.run = <<>>
        /\ o.segs = IF e.run = <<>> THEN e.segs ELSE Append(e.segs, [text |-> e.run, body |-> <<>>])
    BY <1>3, <1>7 DEF SplitStep
  <2>2. c.st = "apc" /\ c.body = <<>> /\ c.fed = a.fed /\ c.bodies = a.bodies
    BY <1>2, <1>4, <1>7 DEF HearByte
  <2>3. CASE e.run = <<>>
    BY <1>1, <1>2, <1>4, <2>1, <2>2, <2>3 DEF LinkKept, Linked
  <2>4. CASE e.run # <<>>
    <3>1. PICK g \in TextRun : g = [text |-> e.run, body |-> <<>>]
      BY DEF TextRun
    <3>2. PICK p : p = Read!Process(t, g)
      OBVIOUS
    <3>3. p \in Terms /\ p.bodies = t.bodies /\ p.fed = t.fed \o e.run
      BY <2>4, <3>1, <3>2, ProcessIs DEF ProcessStep
    <3>4. p.fed \o <<>> = p.fed
      BY <3>3, Joining DEF Terms
    <3>5. Linked(o, p, c)
      BY <1>4, <2>1, <2>2, <3>3, <3>4 DEF Linked
    <3>. QED
      BY <1>1, <1>2, <2>1, <2>4, <3>1, <3>2, <3>5 DEF LinkKept
  <2>. QED
    BY <2>3, <2>4
<1>8. CASE e.st = "esc" /\ b = "E"
  <2>1. o.st = "esc" /\ o.body = e.body /\ o.run = e.run \o <<"E">> /\ o.segs = e.segs
    BY <1>3, <1>8 DEF SplitStep
  <2>2. c.st = "esc" /\ c.body = a.body /\ c.fed = a.fed \o <<"E">> /\ c.bodies = a.bodies
    BY <1>2, <1>4, <1>8 DEF HearByte
  <2>3. t.fed \o (e.run \o <<"E">>) = (t.fed \o e.run) \o <<"E">>
    <3>1. \A w \in Bytes : (t.fed \o e.run) \o w = t.fed \o (e.run \o w)
      BY Joining
    <3>. QED
      BY <3>1, Zenon
  <2>. QED
    BY <1>1, <1>2, <1>4, <2>1, <2>2, <2>3 DEF LinkKept, Linked
<1>9. CASE e.st = "esc" /\ b \notin {"A", "E"}
  <2>1. o.st = "ground" /\ o.body = e.body /\ o.run = e.run \o <<"E", b>> /\ o.segs = e.segs
    BY <1>3, <1>9 DEF SplitStep
  <2>2. c.st = "ground" /\ c.body = a.body /\ c.fed = a.fed \o <<"E", b>> /\ c.bodies = a.bodies
    BY <1>2, <1>4, <1>9 DEF HearByte
  <2>3. t.fed \o (e.run \o <<"E", b>>) = (t.fed \o e.run) \o <<"E", b>>
    <3>1. \A w \in Bytes : (t.fed \o e.run) \o w = t.fed \o (e.run \o w)
      BY Joining
    <3>. QED
      BY <3>1, Zenon
  <2>. QED
    BY <1>1, <1>2, <1>4, <2>1, <2>2, <2>3 DEF LinkKept, Linked
<1>10. CASE e.st = "apc"
  <2>1. /\ o.st = (IF b = "E" THEN "apcEsc" ELSE "apc") /\ o.run = e.run /\ o.segs = e.segs
        /\ o.body = IF b = "E" THEN e.body ELSE Read!Grow(e.body, <<b>>)
    BY <1>3, <1>10 DEF SplitStep
  <2>2. /\ c.st = (IF b = "E" THEN "apcEsc" ELSE "apc") /\ c.fed = a.fed /\ c.bodies = a.bodies
        /\ c.body = IF b = "E" THEN a.body ELSE Read!Grow(a.body, <<b>>)
    BY <1>2, <1>4, <1>10 DEF HearByte
  <2>. QED
    BY <1>1, <1>2, <1>4, <2>1, <2>2 DEF LinkKept, Linked
<1>11. CASE e.st = "apcEsc" /\ b = "\\"
  <2>1. PICK g \in TextRun : g = [text |-> <<>>, body |-> e.body]
    BY DEF TextRun
  <2>2. o.st = "ground" /\ o.body = <<>> /\ o.run = e.run /\ o.segs = Append(e.segs, g)
    BY <1>3, <1>11, <2>1 DEF SplitStep
  <2>3. c.st = "ground" /\ c.body = <<>> /\ c.fed = a.fed /\ c.bodies = Append(a.bodies, a.body)
    BY <1>2, <1>4, <1>11 DEF HearByte
  <2>4. PICK p : p = Read!Process(t, g)
    OBVIOUS
  <2>5. p.bodies = Append(t.bodies, e.body) /\ p.fed = t.fed
    BY <2>1, <2>4, ProcessIs DEF ProcessStep
  <2>6. Linked(o, p, c)
    BY <1>4, <2>2, <2>3, <2>5 DEF Linked
  <2>. QED
    BY <1>1, <1>2, <2>2, <2>4, <2>6 DEF LinkKept
<1>12. CASE e.st = "apcEsc" /\ b # "\\"
  <2>1. o.st = "apc" /\ o.run = e.run /\ o.segs = e.segs /\ o.body = Read!Grow(e.body, <<"E", b>>)
    BY <1>3, <1>12 DEF SplitStep
  <2>2. c.st = "apc" /\ c.fed = a.fed /\ c.bodies = a.bodies /\ c.body = Read!Grow(a.body, <<"E", b>>)
    BY <1>2, <1>4, <1>12 DEF HearByte
  <2>. QED
    BY <1>1, <1>2, <1>4, <2>1, <2>2 DEF LinkKept, Linked
<1>. QED
  BY <1>5, <1>6, <1>7, <1>8, <1>9, <1>10, <1>11, <1>12 DEF Splits

(* A read: the runs are processed after the splitting is done.             *)
LEMMA LinkedRead ==
  ASSUME NEW e \in Splits, e.segs = <<>>, NEW t \in Terms, NEW a \in Heards, Linked(e, t, a), NEW bytes \in Bytes
  PROVE  LET s == Ran(SplitFn, e, bytes) IN Linked(s, Ran(ProcessFn, t, s.segs), Ran(HearFn, a, bytes))
<1>. DEFINE R == {x \in Splits \X Heards : Linked(x[1], Ran(ProcessFn, t, x[1].segs), x[2])}
<1>0. ProcessFn \in [Terms \X TextRun -> Terms]
  BY ProcessTyped
<1>1. <<e, a>> \in R
  <2>1. Ran(ProcessFn, t, <<>>) = t
    <3>1. Scans(Terms, TextRun, ProcessFn, t, <<>>)
      BY <1>0 DEF Scans
    <3>. QED
      BY <3>1, RanEmpty
  <2>. QED
    BY <2>1
<1>2. ASSUME NEW x \in Splits, NEW z \in Heards, NEW y \in Byte, <<x, z>> \in R
      PROVE  <<SplitFn[<<x, y>>], HearFn[<<z, y>>]>> \in R
  <2>1. PICK o \in Splits : o = SplitFn[<<x, y>>] /\ o = Read!SplitByte(x, y)
    BY SplitTyped
  <2>2. PICK c \in Heards : c = HearFn[<<z, y>>] /\ c = HearByte(z, y)
    BY HearTyped
  <2>3. Scans(Terms, TextRun, ProcessFn, t, x.segs)
    BY <1>0 DEF Scans, Splits
  <2>4. PICK p \in Terms : p = Ran(ProcessFn, t, x.segs)
    BY <2>3, RanIn
  <2>5. LinkKept(x, p, o, c)
    BY <1>2, <2>1, <2>2, <2>4, LinkStep
  <2>6. Linked(o, Ran(ProcessFn, t, o.segs), c)
    <3>1. CASE o.segs = x.segs /\ Linked(o, p, c)
      BY <2>4, <3>1
    <3>2. CASE \E g \in TextRun : o.segs = Append(x.segs, g) /\ Linked(o, Read!Process(p, g), c)
      <4>1. PICK g \in TextRun : o.segs = Append(x.segs, g) /\ Linked(o, Read!Process(p, g), c)
        BY <3>2
      <4>2. Ran(ProcessFn, t, Append(x.segs, g)) = ProcessFn[<<p, g>>]
        BY <2>3, <2>4, RanAppend
      <4>3. ProcessFn[<<p, g>>] = Read!Process(p, g)
        BY ProcessTyped
      <4>. QED
        BY <4>1, <4>2, <4>3
    <3>. QED
      BY <2>5, <3>1, <3>2 DEF LinkKept
  <2>. QED
    BY <2>1, <2>2, <2>6
<1>3. Together(Splits, Byte, Heards, SplitFn, HearFn, Byte, R)
  <2>. HIDE DEF R
  <2>. QED
    BY <1>2, SplitTyped, HearTyped DEF Together
<1>4. <<Ran(SplitFn, e, bytes), Ran(HearFn, a, bytes)>> \in R
  <2>. HIDE DEF R
  <2>. QED
    BY <1>1, <1>3, RanPaired DEF Bytes
<1>. QED
  BY <1>4

(* What the scanners of the text have seen is all that was fed.            *)
OscStart == [st |-> "ground", body |-> <<>>, cwd |-> <<>>]

Scanned ==
  {t \in Terms :
     /\ t.osc7 = Ran(OscFn, OscStart, t.fed)
     /\ t.erased <= Read!Found(t.fed)
     /\ Read!Found(t.fed) + TailOf(t.fed) <= t.erased + t.cut}

LEMMA ProcessKeeps ==
  ASSUME NEW t \in Scanned, NEW g \in TextRun
  PROVE  Read!Process(t, g) \in Scanned
<1>. t \in Terms /\ g.text \in Bytes /\ t.fed \in Bytes
  BY DEF Scanned, Terms, TextRun
<1>1. PICK p : p = Read!Process(t, g)
  OBVIOUS
<1>2. ProcessStep(t, g, p)
  BY <1>1, ProcessIs
<1>3. CASE g.text = <<>>
  <2>1. p \in Terms /\ p.fed = t.fed /\ p.osc7 = t.osc7 /\ p.erased = t.erased /\ p.cut = t.cut
    BY <1>2, <1>3 DEF ProcessStep
  <2>. QED
    BY <1>1, <2>1 DEF Scanned
<1>4. CASE g.text # <<>>
  <2>1. /\ p \in Terms /\ p.fed = t.fed \o g.text /\ p.osc7 = Ran(OscFn, t.osc7, g.text)
        /\ p.erased = t.erased + Read!Found(g.text) /\ p.cut = t.cut + TailOf(g.text)
    BY <1>2, <1>4 DEF ProcessStep
  <2>2. p.osc7 = Ran(OscFn, OscStart, p.fed)
    <3>1. Scans(Oscs, Byte, OscFn, OscStart, t.fed)
      BY OscTyped, ByteSeqs DEF Scans, OscStart, Oscs, Bytes
    <3>2. Ran(OscFn, OscStart, t.fed \o g.text) = Ran(OscFn, Ran(OscFn, OscStart, t.fed), g.text)
      BY <3>1, RanJoined DEF Bytes
    <3>. QED
      BY <2>1, <3>2 DEF Scanned
  <2>3. PICK over \in {0, 1} : over = IF Over(t.fed, g.text) = {} THEN 0 ELSE 1
    OBVIOUS
  <2>4. Read!Found(p.fed) = Read!Found(t.fed) + Read!Found(g.text) + over
    BY <2>1, <2>3, FoundJoined
  <2>5. over + TailOf(p.fed) <= TailOf(t.fed) + TailOf(g.text)
    BY <2>1, <2>3, TailJoined
  <2>6. t.erased <= Read!Found(t.fed) /\ Read!Found(t.fed) + TailOf(t.fed) <= t.erased + t.cut
    BY DEF Scanned
  <2>7. /\ Read!Found(p.fed) \in Nat /\ Read!Found(t.fed) \in Nat /\ Read!Found(g.text) \in Nat
        /\ t.erased \in Nat /\ t.cut \in Nat /\ p.fed \in Bytes
    BY <2>1, FoundIn DEF Terms
  <2>8. TailOf(p.fed) \in {0, 1} /\ TailOf(t.fed) \in {0, 1} /\ TailOf(g.text) \in {0, 1}
    BY DEF TailOf
  <2>9. p.erased <= Read!Found(p.fed) /\ Read!Found(p.fed) + TailOf(p.fed) <= p.erased + p.cut
    BY <2>1, <2>3, <2>4, <2>5, <2>6, <2>7, <2>8
  <2>. QED
    BY <1>1, <2>1, <2>2, <2>9 DEF Scanned
<1>. QED
  BY <1>3, <1>4

LEMMA AllScanned ==
  ASSUME NEW t \in Scanned, NEW segs \in Seq(TextRun)
  PROVE  Ran(ProcessFn, t, segs) \in Scanned
<1>1. t \in Terms
  BY DEF Scanned
<1>2. ASSUME NEW x \in Terms, NEW y \in TextRun, x \in Scanned PROVE ProcessFn[<<x, y>>] \in Scanned
  BY <1>2, ProcessKeeps, ProcessTyped
<1>3. ProcessFn \in [Terms \X TextRun -> Terms]
  BY ProcessTyped
<1>. QED
  BY <1>1, <1>2, <1>3, RanStays

(* One piece, and what the scanners make of it when they stand where a     *)
(* piece may begin.                                                        *)
IsPiece(p, bytes, text, plain, body, dir, erases) ==
  p.bytes = bytes /\ p.text = text /\ p.plain = plain /\ p.body = body /\ p.dir = dir /\ p.erases = erases

LEMMA PieceIs ==
  ASSUME NEW p \in Read!Pieces
  PROVE  \/ IsPiece(p, <<"E">>, <<"E">>, <<>>, <<>>, <<>>, 0) /\ p = Read!Lone
         \/ IsPiece(p, <<"x">>, <<"x">>, <<"x">>, <<>>, <<>>, 0)
         \/ IsPiece(p, <<"u", "v">>, <<"u", "v">>, <<"u", "v">>, <<>>, <<>>, 0)
         \/ IsPiece(p, <<"E", "[", "2", "J">>, <<"E", "[", "2", "J">>, <<>>, <<>>, <<>>, 1)
         \/ IsPiece(p, <<"E", "]", "7", "S", "p", "B">>, <<"E", "]", "7", "S", "p", "B">>, <<>>, <<>>, <<"p">>, 0)
         \/ IsPiece(p, <<"E", "]", "7", "S", "q", "E", "\\">>, <<"E", "]", "7", "S", "q", "E", "\\">>, <<>>, <<>>, <<"q">>, 0)
         \/ IsPiece(p, <<"E", "A", "G", "d", "E", "\\">>, <<>>, <<"G", "d">>, <<"G", "d">>, <<>>, 0)
<1>1. Read!Lone = [bytes |-> <<"E">>, text |-> <<"E">>, plain |-> <<>>, body |-> <<>>, dir |-> <<>>, erases |-> 0]
  BY DEF Read!Lone, Read!Text, Read!Piece
<1>2. \/ p = Read!Lone
      \/ p = [bytes |-> <<"x">>, text |-> <<"x">>, plain |-> <<"x">>, body |-> <<>>, dir |-> <<>>, erases |-> 0]
      \/ p = [bytes |-> <<"u", "v">>, text |-> <<"u", "v">>, plain |-> <<"u", "v">>, body |-> <<>>, dir |-> <<>>, erases |-> 0]
      \/ p = [bytes |-> <<"E", "[", "2", "J">>, text |-> <<"E", "[", "2", "J">>, plain |-> <<>>, body |-> <<>>, dir |-> <<>>, erases |-> 1]
      \/ p = [bytes |-> <<"E", "]", "7", "S", "p", "B">>, text |-> <<"E", "]", "7", "S", "p", "B">>, plain |-> <<>>, body |-> <<>>, dir |-> <<"p">>, erases |-> 0]
      \/ p = [bytes |-> <<"E", "]", "7", "S", "q", "E", "\\">>, text |-> <<"E", "]", "7", "S", "q", "E", "\\">>, plain |-> <<>>, body |-> <<>>, dir |-> <<"q">>, erases |-> 0]
      \/ p = [bytes |-> <<"E", "A", "G", "d", "E", "\\">>, text |-> <<>>, plain |-> <<"G", "d">>, body |-> <<"G", "d">>, dir |-> <<>>, erases |-> 0]
  BY DEF Read!Pieces, Read!Text, Read!Piece
<1>3. CASE p = Read!Lone
  BY <1>1, <1>3 DEF IsPiece
<1>4. CASE p = [bytes |-> <<"x">>, text |-> <<"x">>, plain |-> <<"x">>, body |-> <<>>, dir |-> <<>>, erases |-> 0]
  BY <1>4 DEF IsPiece
<1>5. CASE p = [bytes |-> <<"u", "v">>, text |-> <<"u", "v">>, plain |-> <<"u", "v">>, body |-> <<>>, dir |-> <<>>, erases |-> 0]
  BY <1>5 DEF IsPiece
<1>6. CASE p = [bytes |-> <<"E", "[", "2", "J">>, text |-> <<"E", "[", "2", "J">>, plain |-> <<>>, body |-> <<>>, dir |-> <<>>, erases |-> 1]
  BY <1>6 DEF IsPiece
<1>7. CASE p = [bytes |-> <<"E", "]", "7", "S", "p", "B">>, text |-> <<"E", "]", "7", "S", "p", "B">>, plain |-> <<>>, body |-> <<>>, dir |-> <<"p">>, erases |-> 0]
  BY <1>7 DEF IsPiece
<1>8. CASE p = [bytes |-> <<"E", "]", "7", "S", "q", "E", "\\">>, text |-> <<"E", "]", "7", "S", "q", "E", "\\">>, plain |-> <<>>, body |-> <<>>, dir |-> <<"q">>, erases |-> 0]
  BY <1>8 DEF IsPiece
<1>9. CASE p = [bytes |-> <<"E", "A", "G", "d", "E", "\\">>, text |-> <<>>, plain |-> <<"G", "d">>, body |-> <<"G", "d">>, dir |-> <<>>, erases |-> 0]
  BY <1>9 DEF IsPiece
<1>. QED
  BY <1>2, <1>3, <1>4, <1>5, <1>6, <1>7, <1>8, <1>9

OscSteps(h, a, t) ==
  /\ h[0] = a /\ h[Len(t)] = Ran(OscFn, a, t)
  /\ \A k \in 1 .. Len(t) : OscStep(h[k - 1], t[k], h[k])

LEMMA OscStepsExist == ASSUME NEW a \in Oscs, NEW t \in Bytes PROVE \E h : OscSteps(h, a, t)
<1>1. Scans(Oscs, Byte, OscFn, a, t)
  BY OscTyped DEF Scans, Bytes
<1>2. PICK h : Runs(h, Oscs, OscFn, a, t)
  BY <1>1, RunExists
<1>3. h \in [0 .. Len(t) -> Oscs] /\ Follows(h, OscFn, a, t) /\ h[Len(t)] = Ran(OscFn, a, t)
  BY <1>2 DEF Runs
<1>4. ASSUME NEW k \in 1 .. Len(t) PROVE OscStep(h[k - 1], t[k], h[k])
  <2>1. k - 1 \in 0 .. Len(t) /\ t[k] \in Byte
    BY DEF Bytes
  <2>2. PICK x \in Oscs : x = h[k - 1]
    BY <1>3, <2>1
  <2>3. PICK y \in Byte : y = t[k]
    BY <2>1
  <2>4. h[k] = OscFn[<<x, y>>]
    BY <1>3, <2>2, <2>3 DEF Follows
  <2>5. OscFn[<<x, y>>] = Read!Osc7Byte(x, y)
    BY OscTyped
  <2>. QED
    BY <2>2, <2>3, <2>4, <2>5, OscIs
<1>. QED
  BY <1>3, <1>4 DEF Follows, OscSteps

LEMMA OscPiece ==
  ASSUME BodiesFit, NEW p \in Read!Pieces, NEW a \in Oscs, a.st \in {"ground", "esc"}
  PROVE  /\ Ran(OscFn, a, p.text).st \in {"ground", "esc"}
         /\ Ran(OscFn, a, p.text).cwd = IF p.dir = <<>> THEN a.cwd ELSE p.dir
<1>1. CASE p.text = <<"E">> /\ p.dir = <<>>
  <2>u1. <<"E">> \in Bytes
    BY DEF Bytes, Byte
  <2>u2. PICK t \in Bytes : t = <<"E">>
    BY <2>u1
  <2>u3. Len(t) = 1 /\ t[1] = "E"
    BY <2>u2
  <2>u4. PICK h : OscSteps(h, a, t)
    BY OscStepsExist
  <2>0. h[0] = a /\ h[1] = Ran(OscFn, a, t)
    BY <2>u3, <2>u4 DEF OscSteps
  <2>1. h[1].st = "esc" /\ h[1].cwd = a.cwd
    <3>1. 1 \in 1 .. Len(t) /\ 1 - 1 = 0
      BY <2>u3
    <3>2. OscStep(h[0], "E", h[1])
      BY <2>u3, <2>u4, <3>1 DEF OscSteps
    <3>. QED
      BY <2>0, <3>2 DEF OscStep
  <2>. QED
    BY <1>1, <2>u2, <2>0, <2>1
<1>2. CASE p.text = <<"x">> /\ p.dir = <<>>
  <2>u1. <<"x">> \in Bytes
    BY DEF Bytes, Byte
  <2>u2. PICK t \in Bytes : t = <<"x">>
    BY <2>u1
  <2>u3. Len(t) = 1 /\ t[1] = "x"
    BY <2>u2
  <2>u4. PICK h : OscSteps(h, a, t)
    BY OscStepsExist
  <2>0. h[0] = a /\ h[1] = Ran(OscFn, a, t)
    BY <2>u3, <2>u4 DEF OscSteps
  <2>1. h[1].st = "ground" /\ h[1].cwd = a.cwd
    <3>1. 1 \in 1 .. Len(t) /\ 1 - 1 = 0
      BY <2>u3
    <3>2. OscStep(h[0], "x", h[1])
      BY <2>u3, <2>u4, <3>1 DEF OscSteps
    <3>. QED
      BY <2>0, <3>2 DEF OscStep
  <2>. QED
    BY <1>2, <2>u2, <2>0, <2>1
<1>3. CASE p.text = <<"u", "v">> /\ p.dir = <<>>
  <2>u1. <<"u", "v">> \in Bytes
    BY DEF Bytes, Byte
  <2>u2. PICK t \in Bytes : t = <<"u", "v">>
    BY <2>u1
  <2>u3. Len(t) = 2 /\ t[1] = "u" /\ t[2] = "v"
    BY <2>u2
  <2>u4. PICK h : OscSteps(h, a, t)
    BY OscStepsExist
  <2>0. h[0] = a /\ h[2] = Ran(OscFn, a, t)
    BY <2>u3, <2>u4 DEF OscSteps
  <2>1. h[1].st = "ground" /\ h[1].cwd = a.cwd
    <3>1. 1 \in 1 .. Len(t) /\ 1 - 1 = 0
      BY <2>u3
    <3>2. OscStep(h[0], "u", h[1])
      BY <2>u3, <2>u4, <3>1 DEF OscSteps
    <3>. QED
      BY <2>0, <3>2 DEF OscStep
  <2>2. h[2].st = "ground" /\ h[2].cwd = a.cwd
    <3>1. 2 \in 1 .. Len(t) /\ 2 - 1 = 1
      BY <2>u3
    <3>2. OscStep(h[1], "v", h[2])
      BY <2>u3, <2>u4, <3>1 DEF OscSteps
    <3>. QED
      BY <2>0, <2>1, <3>2 DEF OscStep
  <2>. QED
    BY <1>3, <2>u2, <2>0, <2>2
<1>4. CASE p.text = <<"E", "[", "2", "J">> /\ p.dir = <<>>
  <2>u1. <<"E", "[", "2", "J">> \in Bytes
    BY DEF Bytes, Byte
  <2>u2. PICK t \in Bytes : t = <<"E", "[", "2", "J">>
    BY <2>u1
  <2>u3. Len(t) = 4 /\ t[1] = "E" /\ t[2] = "[" /\ t[3] = "2" /\ t[4] = "J"
    BY <2>u2
  <2>u4. PICK h : OscSteps(h, a, t)
    BY OscStepsExist
  <2>0. h[0] = a /\ h[4] = Ran(OscFn, a, t)
    BY <2>u3, <2>u4 DEF OscSteps
  <2>1. h[1].st = "esc" /\ h[1].cwd = a.cwd
    <3>1. 1 \in 1 .. Len(t) /\ 1 - 1 = 0
      BY <2>u3
    <3>2. OscStep(h[0], "E", h[1])
      BY <2>u3, <2>u4, <3>1 DEF OscSteps
    <3>. QED
      BY <2>0, <3>2 DEF OscStep
  <2>2. h[2].st = "ground" /\ h[2].cwd = a.cwd
    <3>1. 2 \in 1 .. Len(t) /\ 2 - 1 = 1
      BY <2>u3
    <3>2. OscStep(h[1], "[", h[2])
      BY <2>u3, <2>u4, <3>1 DEF OscSteps
    <3>. QED
      BY <2>0, <2>1, <3>2 DEF OscStep
  <2>3. h[3].st = "ground" /\ h[3].cwd = a.cwd
    <3>1. 3 \in 1 .. Len(t) /\ 3 - 1 = 2
      BY <2>u3
    <3>2. OscStep(h[2], "2", h[3])
      BY <2>u3, <2>u4, <3>1 DEF OscSteps
    <3>. QED
      BY <2>0, <2>2, <3>2 DEF OscStep
  <2>4. h[4].st = "ground" /\ h[4].cwd = a.cwd
    <3>1. 4 \in 1 .. Len(t) /\ 4 - 1 = 3
      BY <2>u3
    <3>2. OscStep(h[3], "J", h[4])
      BY <2>u3, <2>u4, <3>1 DEF OscSteps
    <3>. QED
      BY <2>0, <2>3, <3>2 DEF OscStep
  <2>. QED
    BY <1>4, <2>u2, <2>0, <2>4
<1>5. CASE p.text = <<"E", "]", "7", "S", "p", "B">> /\ p.dir = <<"p">>
  <2>u1. <<"E", "]", "7", "S", "p", "B">> \in Bytes
    BY DEF Bytes, Byte
  <2>u2. PICK t \in Bytes : t = <<"E", "]", "7", "S", "p", "B">>
    BY <2>u1
  <2>u3. Len(t) = 6 /\ t[1] = "E" /\ t[2] = "]" /\ t[3] = "7" /\ t[4] = "S" /\ t[5] = "p" /\ t[6] = "B"
    BY <2>u2
  <2>u4. PICK h : OscSteps(h, a, t)
    BY OscStepsExist
  <2>0. h[0] = a /\ h[6] = Ran(OscFn, a, t)
    BY <2>u3, <2>u4 DEF OscSteps
  <2>1. h[1].st = "esc"
    <3>1. 1 \in 1 .. Len(t) /\ 1 - 1 = 0
      BY <2>u3
    <3>2. OscStep(h[0], "E", h[1])
      BY <2>u3, <2>u4, <3>1 DEF OscSteps
    <3>. QED
      BY <2>0, <3>2 DEF OscStep
  <2>2. h[2].st = "bracket"
    <3>1. 2 \in 1 .. Len(t) /\ 2 - 1 = 1
      BY <2>u3
    <3>2. OscStep(h[1], "]", h[2])
      BY <2>u3, <2>u4, <3>1 DEF OscSteps
    <3>. QED
      BY <2>0, <2>1, <3>2 DEF OscStep
  <2>3. h[3].st = "seven"
    <3>1. 3 \in 1 .. Len(t) /\ 3 - 1 = 2
      BY <2>u3
    <3>2. OscStep(h[2], "7", h[3])
      BY <2>u3, <2>u4, <3>1 DEF OscSteps
    <3>. QED
      BY <2>0, <2>2, <3>2 DEF OscStep
  <2>4. h[4].st = "body" /\ h[4].body = <<>>
    <3>1. 4 \in 1 .. Len(t) /\ 4 - 1 = 3
      BY <2>u3
    <3>2. OscStep(h[3], "S", h[4])
      BY <2>u3, <2>u4, <3>1 DEF OscSteps
    <3>. QED
      BY <2>0, <2>3, <3>2 DEF OscStep
  <2>5. h[5].st = "body" /\ h[5].body = <<"p">>
    <3>1. 5 \in 1 .. Len(t) /\ 5 - 1 = 4
      BY <2>u3
    <3>2. OscStep(h[4], "p", h[5])
      BY <2>u3, <2>u4, <3>1 DEF OscSteps
    <3>. QED
      <4>1. Append(<<>>, "p") = <<"p">> /\ Len(<<>>) = 0 /\ 0 < MaxBody
      BY DEF BodiesFit
    <4>. QED
      BY <2>0, <2>4, <3>2, <4>1 DEF OscStep
  <2>6. h[6].st = "ground" /\ h[6].cwd = <<"p">>
    <3>1. 6 \in 1 .. Len(t) /\ 6 - 1 = 5
      BY <2>u3
    <3>2. OscStep(h[5], "B", h[6])
      BY <2>u3, <2>u4, <3>1 DEF OscSteps
    <3>. QED
      BY <2>0, <2>5, <3>2 DEF OscStep
  <2>. QED
    BY <1>5, <2>u2, <2>0, <2>6
<1>6. CASE p.text = <<"E", "]", "7", "S", "q", "E", "\\">> /\ p.dir = <<"q">>
  <2>u1. <<"E", "]", "7", "S", "q", "E", "\\">> \in Bytes
    BY DEF Bytes, Byte
  <2>u2. PICK t \in Bytes : t = <<"E", "]", "7", "S", "q", "E", "\\">>
    BY <2>u1
  <2>u3. Len(t) = 7 /\ t[1] = "E" /\ t[2] = "]" /\ t[3] = "7" /\ t[4] = "S" /\ t[5] = "q" /\ t[6] = "E" /\ t[7] = "\\"
    BY <2>u2
  <2>u4. PICK h : OscSteps(h, a, t)
    BY OscStepsExist
  <2>0. h[0] = a /\ h[7] = Ran(OscFn, a, t)
    BY <2>u3, <2>u4 DEF OscSteps
  <2>1. h[1].st = "esc"
    <3>1. 1 \in 1 .. Len(t) /\ 1 - 1 = 0
      BY <2>u3
    <3>2. OscStep(h[0], "E", h[1])
      BY <2>u3, <2>u4, <3>1 DEF OscSteps
    <3>. QED
      BY <2>0, <3>2 DEF OscStep
  <2>2. h[2].st = "bracket"
    <3>1. 2 \in 1 .. Len(t) /\ 2 - 1 = 1
      BY <2>u3
    <3>2. OscStep(h[1], "]", h[2])
      BY <2>u3, <2>u4, <3>1 DEF OscSteps
    <3>. QED
      BY <2>0, <2>1, <3>2 DEF OscStep
  <2>3. h[3].st = "seven"
    <3>1. 3 \in 1 .. Len(t) /\ 3 - 1 = 2
      BY <2>u3
    <3>2. OscStep(h[2], "7", h[3])
      BY <2>u3, <2>u4, <3>1 DEF OscSteps
    <3>. QED
      BY <2>0, <2>2, <3>2 DEF OscStep
  <2>4. h[4].st = "body" /\ h[4].body = <<>>
    <3>1. 4 \in 1 .. Len(t) /\ 4 - 1 = 3
      BY <2>u3
    <3>2. OscStep(h[3], "S", h[4])
      BY <2>u3, <2>u4, <3>1 DEF OscSteps
    <3>. QED
      BY <2>0, <2>3, <3>2 DEF OscStep
  <2>5. h[5].st = "body" /\ h[5].body = <<"q">>
    <3>1. 5 \in 1 .. Len(t) /\ 5 - 1 = 4
      BY <2>u3
    <3>2. OscStep(h[4], "q", h[5])
      BY <2>u3, <2>u4, <3>1 DEF OscSteps
    <3>. QED
      <4>1. Append(<<>>, "q") = <<"q">> /\ Len(<<>>) = 0 /\ 0 < MaxBody
      BY DEF BodiesFit
    <4>. QED
      BY <2>0, <2>4, <3>2, <4>1 DEF OscStep
  <2>6. h[6].st = "bodyEsc" /\ h[6].body = <<"q">>
    <3>1. 6 \in 1 .. Len(t) /\ 6 - 1 = 5
      BY <2>u3
    <3>2. OscStep(h[5], "E", h[6])
      BY <2>u3, <2>u4, <3>1 DEF OscSteps
    <3>. QED
      BY <2>0, <2>5, <3>2 DEF OscStep
  <2>7. h[7].st = "ground" /\ h[7].cwd = <<"q">>
    <3>1. 7 \in 1 .. Len(t) /\ 7 - 1 = 6
      BY <2>u3
    <3>2. OscStep(h[6], "\\", h[7])
      BY <2>u3, <2>u4, <3>1 DEF OscSteps
    <3>. QED
      BY <2>0, <2>6, <3>2 DEF OscStep
  <2>. QED
    BY <1>6, <2>u2, <2>0, <2>7
<1>7. CASE p.text = <<>> /\ p.dir = <<>>
  <2>1. Scans(Oscs, Byte, OscFn, a, <<>>)
    BY OscTyped DEF Scans
  <2>. QED
    BY <1>7, <2>1, RanEmpty

<1>. QED
  BY <1>1, <1>2, <1>3, <1>4, <1>5, <1>6, <1>7, PieceIs DEF IsPiece

(* The splitter on a piece: text comes out as it is, a command as one.     *)
HearStep(a, b, o) ==
  /\ o \in Heards
  /\ a.st = "ground" /\ b = "E" => o.st = "esc" /\ o.fed = a.fed /\ o.bodies = a.bodies
  /\ a.st = "ground" /\ b # "E" => o.st = "ground" /\ o.fed = a.fed \o <<b>> /\ o.bodies = a.bodies
  /\ a.st = "esc" /\ b = "A" => o.st = "apc" /\ o.body = <<>> /\ o.fed = a.fed /\ o.bodies = a.bodies
  /\ a.st = "esc" /\ b = "E" => o.st = "esc" /\ o.fed = a.fed \o <<"E">> /\ o.bodies = a.bodies
  /\ a.st = "esc" /\ b \notin {"A", "E"} => o.st = "ground" /\ o.fed = a.fed \o <<"E", b>> /\ o.bodies = a.bodies
  /\ a.st = "apc" => /\ o.st = (IF b = "E" THEN "apcEsc" ELSE "apc") /\ o.fed = a.fed /\ o.bodies = a.bodies
                     /\ o.body = IF b = "E" THEN a.body ELSE Read!Grow(a.body, <<b>>)
  /\ a.st = "apcEsc" /\ b = "\\" => o.st = "ground" /\ o.fed = a.fed /\ o.bodies = Append(a.bodies, a.body)
  /\ a.st = "apcEsc" /\ b # "\\" => o.fed = a.fed /\ o.bodies = a.bodies

LEMMA HearIs == ASSUME NEW a \in Heards, NEW b \in Byte PROVE HearStep(a, b, HearByte(a, b))
<1>1. PICK o \in Heards : o = HearByte(a, b)
  BY HearTyped
<1>2. a.st \in {"ground", "esc", "apc", "apcEsc"}
  BY DEF Heards
<1>3. CASE a.st = "ground"
  BY <1>1, <1>3 DEF HearByte, HearStep
<1>4. CASE a.st = "esc"
  BY <1>1, <1>4 DEF HearByte, HearStep
<1>5. CASE a.st = "apc"
  BY <1>1, <1>5 DEF HearByte, HearStep
<1>6. CASE a.st = "apcEsc"
  BY <1>1, <1>6 DEF HearByte, HearStep
<1>. QED
  BY <1>2, <1>3, <1>4, <1>5, <1>6

HearSteps(h, a, t) ==
  /\ h[0] = a /\ h[Len(t)] = Ran(HearFn, a, t)
  /\ \A k \in 1 .. Len(t) : HearStep(h[k - 1], t[k], h[k])

LEMMA HearStepsExist == ASSUME NEW a \in Heards, NEW t \in Bytes PROVE \E h : HearSteps(h, a, t)
<1>1. Scans(Heards, Byte, HearFn, a, t)
  BY HearTyped DEF Scans, Bytes
<1>2. PICK h : Runs(h, Heards, HearFn, a, t)
  BY <1>1, RunExists
<1>3. h \in [0 .. Len(t) -> Heards] /\ Follows(h, HearFn, a, t) /\ h[Len(t)] = Ran(HearFn, a, t)
  BY <1>2 DEF Runs
<1>4. ASSUME NEW k \in 1 .. Len(t) PROVE HearStep(h[k - 1], t[k], h[k])
  <2>1. k - 1 \in 0 .. Len(t) /\ t[k] \in Byte
    BY DEF Bytes
  <2>2. PICK x \in Heards : x = h[k - 1]
    BY <1>3, <2>1
  <2>3. PICK y \in Byte : y = t[k]
    BY <2>1
  <2>4. h[k] = HearFn[<<x, y>>]
    BY <1>3, <2>2, <2>3 DEF Follows
  <2>5. HearFn[<<x, y>>] = HearByte(x, y)
    BY HearTyped
  <2>. QED
    BY <2>2, <2>3, <2>4, <2>5, HearIs
<1>. QED
  BY <1>3, <1>4 DEF Follows, HearSteps

AppendFn == [x \in Bytes \X Byte |-> Append(x[1], x[2])]

LEMMA AppendTyped ==
  /\ AppendFn \in [Bytes \X Byte -> Bytes] /\ \A e \in Bytes, y \in Byte : AppendFn[<<e, y>>] = Append(e, y)
BY ByteSeqs DEF AppendFn

LEMMA RanAppends ==
  ASSUME NEW F \in Bytes, NEW t \in Bytes
  PROVE  Ran(AppendFn, F, t) = F \o t
<1>. DEFINE h == [k \in 0 .. Len(t) |-> F \o SubSeq(t, 1, k)]
<1>1. Len(t) \in Nat /\ t \in Seq(Byte)
  BY DEF Bytes
<1>2. h[0] = F /\ h[Len(t)] = F \o t
  <2>1. SubSeq(t, 1, 0) = <<>> /\ SubSeq(t, 1, Len(t)) = t
    BY <1>1, SubSeqEmpty, SubSeqFull
  <2>2. 0 \in 0 .. Len(t) /\ Len(t) \in 0 .. Len(t)
    BY <1>1
  <2>. QED
    BY <2>1, <2>2, Joining
<1>3. ASSUME NEW k \in 1 .. Len(t) PROVE h[k] = AppendFn[<<h[k - 1], t[k]>>]
  <2>1. SubSeq(t, 1, k) = Append(SubSeq(t, 1, k - 1), t[k]) /\ SubSeq(t, 1, k - 1) \in Bytes
    BY <1>1 DEF Bytes
  <2>2. PICK c \in Bytes : c = SubSeq(t, 1, k - 1)
    BY <2>1
  <2>3. t[k] \in Byte /\ k - 1 \in 0 .. Len(t) /\ k \in 0 .. Len(t)
    BY <1>1
  <2>4. h[k] = F \o Append(c, t[k]) /\ h[k - 1] = F \o c
    BY <2>1, <2>2, <2>3
  <2>5. F \o Append(c, t[k]) = Append(F \o c, t[k])
    BY <2>3 DEF Bytes
  <2>6. AppendFn[<<F \o c, t[k]>>] = Append(F \o c, t[k])
    BY <2>3, AppendTyped, ByteSeqs
  <2>. QED
    BY <2>4, <2>5, <2>6
<1>4. Scans(Bytes, Byte, AppendFn, F, t)
  BY <1>1, AppendTyped DEF Scans
<1>5. Follows(h, AppendFn, F, t)
  <2>. HIDE DEF h
  <2>. QED
    BY <1>2, <1>3 DEF Follows
<1>6. h[Len(t)] = Ran(AppendFn, F, t)
  <2>. HIDE DEF h
  <2>. QED
    BY <1>4, <1>5, RunIs
<1>. QED
  BY <1>2, <1>6

Held(st) == IF st = "esc" THEN <<"E">> ELSE <<>>

\* What was handed on, with the ESC that is held back.
Heard(a) == a.fed \o Held(a.st)

Apart(a) == a.st \in {"ground", "esc"}

LEMMA TextTaken ==
  ASSUME NEW a \in Heards, Apart(a), NEW t \in Seq(Byte \ {"A"})
  PROVE  LET o == Ran(HearFn, a, t) IN Apart(o) /\ Heard(o) = Heard(a) \o t /\ o.bodies = a.bodies
<1>. DEFINE R == {x \in Heards \X Bytes : Apart(x[1]) /\ Heard(x[1]) = x[2] /\ x[1].bodies = a.bodies}
<1>0. \A x \in Heards : x.fed \in Bytes /\ Held(x.st) \in Bytes /\ Heard(x) \in Bytes
  BY ByteSeqs DEF Heards, Heard, Held
<1>1. <<a, Heard(a)>> \in R
  BY <1>0
<1>2. ASSUME NEW x \in Heards, NEW z \in Bytes, NEW y \in Byte \ {"A"}, <<x, z>> \in R
      PROVE  <<HearFn[<<x, y>>], AppendFn[<<z, y>>]>> \in R
  <2>1. PICK o \in Heards : o = HearFn[<<x, y>>] /\ o = HearByte(x, y)
    BY HearTyped
  <2>2. HearStep(x, y, o)
    BY <2>1, HearIs
  <2>3. Apart(x) /\ Heard(x) = z /\ x.bodies = a.bodies
    BY <1>2
  <2>a. y \in Byte
    OBVIOUS
  <2>4. x.fed \in Bytes /\ o.fed \in Bytes /\ z \in Bytes /\ Append(z, y) \in Bytes
    BY <1>0, <2>a, ByteSeqs
  <2>5. AppendFn[<<z, y>>] = Append(z, y) /\ Append(z, y) = z \o <<y>>
    BY <2>a, AppendTyped DEF Bytes
  <2>6. \A c \in Bytes : c \o <<>> = c /\ Append(c, y) = c \o <<y>> /\ (c \o <<"E">>) \o <<y>> = c \o <<"E", y>>
    BY DEF Bytes, Byte
  <2>7. Apart(o) /\ o.bodies = a.bodies
    BY <2>2, <2>3 DEF HearStep, Apart
  <2>8. Heard(o) = z \o <<y>>
    <3>1. CASE x.st = "ground" /\ y = "E"
      <4>1. o.st = "esc" /\ o.fed = x.fed
        BY <2>2, <3>1 DEF HearStep
      <4>. QED
        BY <2>3, <2>4, <2>6, <3>1, <4>1 DEF Heard, Held
    <3>2. CASE x.st = "ground" /\ y # "E"
      <4>1. o.st = "ground" /\ o.fed = x.fed \o <<y>>
        BY <2>2, <3>2 DEF HearStep
      <4>. QED
        BY <2>3, <2>4, <2>6, <3>2, <4>1 DEF Heard, Held
    <3>3. CASE x.st = "esc" /\ y = "E"
      <4>1. o.st = "esc" /\ o.fed = x.fed \o <<"E">>
        BY <2>2, <3>3 DEF HearStep
      <4>. QED
        BY <2>3, <2>4, <3>3, <4>1 DEF Heard, Held
    <3>4. CASE x.st = "esc" /\ y # "E"
      <4>1. o.st = "ground" /\ o.fed = x.fed \o <<"E", y>>
        BY <2>2, <3>4 DEF HearStep
      <4>. QED
        BY <2>3, <2>4, <2>6, <3>4, <4>1 DEF Heard, Held
    <3>. QED
      BY <2>3, <3>1, <3>2, <3>3, <3>4 DEF Apart
  <2>. QED
    BY <2>1, <2>4, <2>5, <2>7, <2>8
<1>3. Together(Heards, Byte, Bytes, HearFn, AppendFn, Byte \ {"A"}, R)
  <2>. HIDE DEF R
  <2>. QED
    BY <1>2, AppendTyped, HearTyped DEF Together
<1>4. <<Ran(HearFn, a, t), Ran(AppendFn, Heard(a), t)>> \in R
  <2>. HIDE DEF R
  <2>. QED
    BY <1>0, <1>1, <1>3, RanPaired
<1>5. Ran(AppendFn, Heard(a), t) = Heard(a) \o t
  <2>1. Len(t) \in Nat /\ \A k \in 1 .. Len(t) : t[k] \in Byte
    OBVIOUS
  <2>2. t \in Bytes
    BY <2>1 DEF Bytes
  <2>. QED
    BY <1>0, <2>2, RanAppends
<1>. QED
  BY <1>4, <1>5

LEMMA CommandTaken ==
  ASSUME BodiesFit, NEW a \in Heards, Apart(a)
  PROVE  LET o == Ran(HearFn, a, <<"E", "A", "G", "d", "E", "\\">>)
         IN  Apart(o) /\ Heard(o) = Heard(a) /\ o.bodies = Append(a.bodies, <<"G", "d">>)
<1>a. a.fed \in Bytes /\ Heard(a) \in Bytes
  BY ByteSeqs DEF Heards, Heard, Held
<1>b. Read!Grow(<<>>, <<"G">>) = <<"G">> /\ Read!Grow(<<"G">>, <<"d">>) = <<"G", "d">>
  <2>0. <<"G">> \in Bytes /\ <<"d">> \in Bytes
    BY DEF Bytes, Byte
  <2>1. PICK x \in Bytes : x = <<"G">>
    BY <2>0
  <2>2. PICK y \in Bytes : y = <<"d">>
    BY <2>0
  <2>3. <<>> \o x = x
    BY Joining
  <2>4. x \o y = <<"G", "d">>
    <3>1. Len(x) = 1 /\ Len(y) = 1 /\ x[1] = "G" /\ y[1] = "d"
      BY <2>1, <2>2
    <3>2. PICK w \in Bytes : w = x \o y
      BY ByteSeqs
    <3>3. /\ Len(w) = Len(x) + Len(y) /\ (\A i \in 1 .. Len(x) : w[i] = x[i])
          /\ \A i \in 1 .. Len(y) : w[Len(x) + i] = y[i]
      BY <3>2, JoinedBytes
    <3>4. Len(w) = 2 /\ w[1] = "G" /\ w[1 + 1] = "d" /\ 1 + 1 = 2
      BY <3>1, <3>3
    <3>5. w = <<w[1], w[2]>>
      BY <3>4 DEF Bytes
    <3>. QED
      BY <3>2, <3>4, <3>5
  <2>5. Len(<<>>) = 0 /\ Len(x) = 1
    BY <2>1
  <2>. QED
    BY <2>1, <2>2, <2>3, <2>4, <2>5 DEF BodiesFit, Read!Grow
<1>u1. <<"E", "A", "G", "d", "E", "\\">> \in Bytes
  BY DEF Bytes, Byte
<1>u2. PICK t \in Bytes : t = <<"E", "A", "G", "d", "E", "\\">>
  BY <1>u1
<1>u3. Len(t) = 6 /\ t[1] = "E" /\ t[2] = "A" /\ t[3] = "G" /\ t[4] = "d" /\ t[5] = "E" /\ t[6] = "\\"
  BY <1>u2
<1>u4. PICK h : HearSteps(h, a, t)
  BY HearStepsExist
<1>0. h[0] = a /\ h[6] = Ran(HearFn, a, t)
  BY <1>u3, <1>u4 DEF HearSteps
<1>1. h[1].st = "esc" /\ h[1].fed = Heard(a) /\ h[1] \in Heards /\ h[1].bodies = a.bodies
  <2>1. 1 \in 1 .. Len(t) /\ 1 - 1 = 0
    BY <1>u3
  <2>2. HearStep(h[0], "E", h[1])
    BY <1>u3, <1>u4, <2>1 DEF HearSteps
  <2>. QED
    BY <1>0, <1>a, <2>2, Joining DEF HearStep, Apart, Heard, Held
<1>2. h[2].st = "apc" /\ h[2].body = <<>> /\ h[2].fed = Heard(a) /\ h[2] \in Heards /\ h[2].bodies = a.bodies
  <2>1. 2 \in 1 .. Len(t) /\ 2 - 1 = 1
    BY <1>u3
  <2>2. HearStep(h[1], "A", h[2])
    BY <1>u3, <1>u4, <2>1 DEF HearSteps
  <2>. QED
    BY <1>0, <1>1, <2>2 DEF HearStep
<1>3. h[3].st = "apc" /\ h[3].body = <<"G">> /\ h[3].fed = Heard(a) /\ h[3] \in Heards /\ h[3].bodies = a.bodies
  <2>1. 3 \in 1 .. Len(t) /\ 3 - 1 = 2
    BY <1>u3
  <2>2. HearStep(h[2], "G", h[3])
    BY <1>u3, <1>u4, <2>1 DEF HearSteps
  <2>. QED
    BY <1>0, <1>2, <1>b, <2>2 DEF HearStep
<1>4. h[4].st = "apc" /\ h[4].body = <<"G", "d">> /\ h[4].fed = Heard(a) /\ h[4] \in Heards /\ h[4].bodies = a.bodies
  <2>1. 4 \in 1 .. Len(t) /\ 4 - 1 = 3
    BY <1>u3
  <2>2. HearStep(h[3], "d", h[4])
    BY <1>u3, <1>u4, <2>1 DEF HearSteps
  <2>. QED
    BY <1>0, <1>3, <1>b, <2>2 DEF HearStep
<1>5. h[5].st = "apcEsc" /\ h[5].body = <<"G", "d">> /\ h[5].fed = Heard(a) /\ h[5] \in Heards /\ h[5].bodies = a.bodies
  <2>1. 5 \in 1 .. Len(t) /\ 5 - 1 = 4
    BY <1>u3
  <2>2. HearStep(h[4], "E", h[5])
    BY <1>u3, <1>u4, <2>1 DEF HearSteps
  <2>. QED
    BY <1>0, <1>4, <2>2 DEF HearStep
<1>6. h[6].st = "ground" /\ h[6].fed = Heard(a) /\ h[6].bodies = Append(a.bodies, <<"G", "d">>)
  <2>1. 6 \in 1 .. Len(t) /\ 6 - 1 = 5
    BY <1>u3
  <2>2. HearStep(h[5], "\\", h[6])
    BY <1>u3, <1>u4, <2>1 DEF HearSteps
  <2>. QED
    BY <1>0, <1>5, <2>2 DEF HearStep

<1>7. h[6].fed \o <<>> = h[6].fed
  BY <1>a, <1>6, Joining
<1>. QED
  BY <1>u2, <1>0, <1>6, <1>7 DEF Apart, Heard, Held

LEMMA HeardPiece ==
  ASSUME BodiesFit, NEW p \in Read!Pieces, NEW a \in Heards, Apart(a)
  PROVE  LET o == Ran(HearFn, a, p.bytes)
         IN  /\ Apart(o) /\ Heard(o) = Heard(a) \o p.text
             /\ o.bodies = IF p.body = <<>> THEN a.bodies ELSE Append(a.bodies, p.body)
<1>0. <<"G", "d">> # <<>>
  OBVIOUS
<1>1. CASE p.body = <<>>
  <2>1. /\ p.bytes = p.text
        /\ \/ p.text = <<"E">> \/ p.text = <<"x">> \/ p.text = <<"u", "v">> \/ p.text = <<"E", "[", "2", "J">>
           \/ p.text = <<"E", "]", "7", "S", "p", "B">> \/ p.text = <<"E", "]", "7", "S", "q", "E", "\\">>
    BY <1>0, <1>1, PieceIs DEF IsPiece
  <2>2. PICK V : V = Byte \ {"A"}
    OBVIOUS
  <2>3. {"E", "x", "u", "v", "[", "2", "J", "]", "7", "S", "p", "q", "B", "\\"} \subseteq V
    BY <2>2 DEF Byte
  <2>4. p.text \in Seq(V)
    <3>1. /\ <<"E">> \in Seq(V) /\ <<"x">> \in Seq(V) /\ <<"u", "v">> \in Seq(V) /\ <<"E", "[", "2", "J">> \in Seq(V)
          /\ <<"E", "]", "7", "S", "p", "B">> \in Seq(V) /\ <<"E", "]", "7", "S", "q", "E", "\\">> \in Seq(V)
      BY <2>3
    <3>. QED
      BY <2>1, <3>1
  <2>. QED
    BY <1>1, <2>1, <2>2, <2>4, TextTaken
<1>2. CASE p.body # <<>>
  <2>1. p.bytes = <<"E", "A", "G", "d", "E", "\\">> /\ p.text = <<>> /\ p.body = <<"G", "d">>
    BY <1>0, <1>2, PieceIs DEF IsPiece
  <2>2. Heard(a) \o <<>> = Heard(a)
    BY ByteSeqs, Joining DEF Heards, Heard, Held
  <2>. QED
    BY <1>2, <2>1, <2>2, CommandTaken
<1>. QED
  BY <1>1, <1>2

(* The erasures of a piece: none lies over its beginning.                  *)
LEMMA FoundPiece ==
  ASSUME NEW p \in Read!Pieces, NEW a \in Bytes
  PROVE  Read!Found(a \o p.text) = Read!Found(a) + p.erases
<1>1. p.text \in Bytes /\ p \in PieceRec
  BY PieceTyped DEF PieceRec
<1>2. PICK t \in Bytes : t = p.text
  BY <1>1
<1>3. /\ Len(t) \in Nat /\ Read!Erasures(t) = {i \in 1 .. Len(t) - 3 : ErasedAt(t, i)}
  BY Spelt
<1>4. /\ (Read!Erasures(t) = {} /\ p.erases = 0) \/ (Read!Erasures(t) = {1} /\ p.erases = 1)
      /\ t # <<>> => t[1] \notin {"[", "2", "J"}
  <2>1. CASE t = <<"E">> /\ p.erases = 0
    <3>1. Len(t) = 1 /\ t[1] = "E"
      BY <2>1
    <3>2. Read!Erasures(t) = {}
      BY <1>3, <3>1
    <3>. QED
      BY <2>1, <3>1, <3>2
  <2>2. CASE t = <<"x">> /\ p.erases = 0
    <3>1. Len(t) = 1 /\ t[1] = "x"
      BY <2>2
    <3>2. Read!Erasures(t) = {}
      BY <1>3, <3>1
    <3>. QED
      BY <2>2, <3>1, <3>2
  <2>3. CASE t = <<"u", "v">> /\ p.erases = 0
    <3>1. Len(t) = 2 /\ t[1] = "u"
      BY <2>3
    <3>2. Read!Erasures(t) = {}
      BY <1>3, <3>1
    <3>. QED
      BY <2>3, <3>1, <3>2
  <2>4. CASE t = <<"E", "[", "2", "J">> /\ p.erases = 1
    <3>1. Len(t) = 4 /\ t[1] = "E" /\ t[2] = "[" /\ t[3] = "2" /\ t[4] = "J"
      BY <2>4
    <3>2. ErasedAt(t, 1)
      BY <3>1 DEF ErasedAt
    <3>. QED
      BY <1>3, <2>4, <3>1, <3>2
  <2>5. CASE t = <<"E", "]", "7", "S", "p", "B">> /\ p.erases = 0
    <3>1. Len(t) = 6 /\ t[1] = "E" /\ t[2] = "]" /\ t[3] = "7"
      BY <2>5
    <3>2. ~ErasedAt(t, 1) /\ ~ErasedAt(t, 2) /\ ~ErasedAt(t, 3)
      BY <3>1 DEF ErasedAt
    <3>3. Read!Erasures(t) = {}
      BY <1>3, <3>1, <3>2
    <3>. QED
      BY <2>5, <3>1, <3>3
  <2>6. CASE t = <<"E", "]", "7", "S", "q", "E", "\\">> /\ p.erases = 0
    <3>1. Len(t) = 7 /\ t[1] = "E" /\ t[2] = "]" /\ t[3] = "7" /\ t[4] = "S"
      BY <2>6
    <3>2. ~ErasedAt(t, 1) /\ ~ErasedAt(t, 2) /\ ~ErasedAt(t, 3) /\ ~ErasedAt(t, 4)
      BY <3>1 DEF ErasedAt
    <3>3. Read!Erasures(t) = {}
      BY <1>3, <3>1, <3>2
    <3>. QED
      BY <2>6, <3>1, <3>3
  <2>7. CASE t = <<>> /\ p.erases = 0
    <3>1. Len(t) = 0
      BY <2>7
    <3>2. Read!Erasures(t) = {}
      BY <1>3, <3>1
    <3>. QED
      BY <2>7, <3>2
  <2>. QED
    BY <1>2, <2>1, <2>2, <2>3, <2>4, <2>5, <2>6, <2>7, PieceIs DEF IsPiece
<1>5. Over(a, t) = {}
  BY <1>4, OverIs
<1>6. Read!Found(a \o t) = Read!Found(a) + Read!Found(t)
  BY <1>5, FoundJoined, FoundIn
<1>7. Read!Found(t) = p.erases
  BY <1>4, FoundCounts, FS_EmptySet, FS_Singleton
<1>. QED
  BY <1>2, <1>6, <1>7

(* The stripper on a piece.                                                *)
StripSteps(h, a, t) ==
  /\ h[0] = a /\ h[Len(t)] = Ran(StripFn, a, t)
  /\ \A k \in 1 .. Len(t) : StripStep(h[k - 1], t[k], h[k])

LEMMA StripStepsExist == ASSUME NEW a \in Strips, NEW t \in Bytes PROVE \E h : StripSteps(h, a, t)
<1>1. Scans(Strips, Byte, StripFn, a, t)
  BY StripTyped DEF Scans, Bytes
<1>2. PICK h : Runs(h, Strips, StripFn, a, t)
  BY <1>1, RunExists
<1>3. h \in [0 .. Len(t) -> Strips] /\ Follows(h, StripFn, a, t) /\ h[Len(t)] = Ran(StripFn, a, t)
  BY <1>2 DEF Runs
<1>4. ASSUME NEW k \in 1 .. Len(t) PROVE StripStep(h[k - 1], t[k], h[k])
  <2>1. k - 1 \in 0 .. Len(t) /\ t[k] \in Byte
    BY DEF Bytes
  <2>2. PICK x \in Strips : x = h[k - 1]
    BY <1>3, <2>1
  <2>3. PICK y \in Byte : y = t[k]
    BY <2>1
  <2>4. h[k] = StripFn[<<x, y>>]
    BY <1>3, <2>2, <2>3 DEF Follows
  <2>5. StripFn[<<x, y>>] = Read!StripByte(x, y)
    BY StripTyped
  <2>. QED
    BY <2>2, <2>3, <2>4, <2>5, StripIs
<1>. QED
  BY <1>3, <1>4 DEF Follows, StripSteps

LEMMA TwoAppended ==
  ASSUME NEW c \in Bytes, NEW y \in Byte, NEW z \in Byte
  PROVE  Append(Append(c, y), z) = c \o <<y, z>> /\ Append(c, y) = c \o <<y>> /\ c \o <<>> = c
<1>1. PICK d \in Bytes : d = Append(c, y)
  BY ByteSeqs
<1>2. <<y, z>> \in Bytes /\ <<y>> \in Bytes
  BY DEF Bytes
<1>3. PICK w \in Bytes : w = <<y, z>>
  BY <1>2
<1>4. Len(w) = 2 /\ w[1] = y /\ w[2] = z
  BY <1>3
<1>5. PICK e \in Bytes : e = c \o w
  BY ByteSeqs
<1>6. PICK o \in Bytes : o = Append(d, z)
  BY ByteSeqs
<1>7. PICK n \in Nat : n = Len(c)
  BY DEF Bytes
<1>8. Len(d) = n + 1 /\ d[n + 1] = y /\ \A i \in 1 .. n : d[i] = c[i]
  BY <1>1, <1>7 DEF Bytes
<1>9. Len(o) = n + 2 /\ o[n + 2] = z /\ \A i \in 1 .. n + 1 : o[i] = d[i]
  BY <1>6, <1>8 DEF Bytes
<1>10. Len(e) = n + 2 /\ (\A i \in 1 .. n : e[i] = c[i]) /\ e[n + 1] = y /\ e[n + 2] = z
  <2>1. Len(e) = n + Len(w) /\ (\A i \in 1 .. n : e[i] = c[i]) /\ \A i \in 1 .. Len(w) : e[n + i] = w[i]
    BY <1>5, <1>7, JoinedBytes
  <2>. QED
    BY <1>4, <2>1
<1>11. \A i \in 1 .. n + 2 : e[i] = o[i]
  BY <1>8, <1>9, <1>10
<1>12. e = o
  BY <1>9, <1>10, <1>11 DEF Bytes
<1>13. Append(c, y) = c \o <<y>> /\ c \o <<>> = c
  BY DEF Bytes
<1>. QED
  BY <1>1, <1>3, <1>5, <1>6, <1>12, <1>13

LEMMA StripPiece ==
  ASSUME NEW p \in Read!Pieces, p # Read!Lone, NEW a \in Strips, a.st = "none"
  PROVE  LET s == Ran(StripFn, a, p.bytes) IN s.st = "none" /\ s.text = a.text \o p.plain
<1>a. /\ a.text \o <<>> = a.text /\ Append(a.text, "x") = a.text \o <<"x">>
      /\ Append(Append(a.text, "u"), "v") = a.text \o <<"u", "v">>
      /\ Append(Append(a.text, "G"), "d") = a.text \o <<"G", "d">>
  <2>1. {"x", "u", "v", "G", "d"} \subseteq Byte /\ a.text \in Bytes
    BY DEF Byte, Strips
  <2>. QED
    BY <2>1, TwoAppended
<1>1. CASE p.bytes = <<"x">> /\ p.plain = <<"x">>
  <2>u1. <<"x">> \in Bytes
    BY DEF Bytes, Byte
  <2>u2. PICK t \in Bytes : t = <<"x">>
    BY <2>u1
  <2>u3. Len(t) = 1 /\ t[1] = "x"
    BY <2>u2
  <2>u4. PICK h : StripSteps(h, a, t)
    BY StripStepsExist
  <2>0. h[0] = a /\ h[1] = Ran(StripFn, a, t)
    BY <2>u3, <2>u4 DEF StripSteps
  <2>1. h[1].st = "none" /\ h[1].text = Append(a.text, "x")
    <3>1. 1 \in 1 .. Len(t) /\ 1 - 1 = 0
      BY <2>u3
    <3>2. StripStep(h[0], "x", h[1])
      BY <2>u3, <2>u4, <3>1 DEF StripSteps
    <3>. QED
      BY <2>0, <3>2 DEF StripStep, Read!Finals
  <2>. QED
    BY <1>1, <1>a, <2>u2, <2>0, <2>1
<1>2. CASE p.bytes = <<"u", "v">> /\ p.plain = <<"u", "v">>
  <2>u1. <<"u", "v">> \in Bytes
    BY DEF Bytes, Byte
  <2>u2. PICK t \in Bytes : t = <<"u", "v">>
    BY <2>u1
  <2>u3. Len(t) = 2 /\ t[1] = "u" /\ t[2] = "v"
    BY <2>u2
  <2>u4. PICK h : StripSteps(h, a, t)
    BY StripStepsExist
  <2>0. h[0] = a /\ h[2] = Ran(StripFn, a, t)
    BY <2>u3, <2>u4 DEF StripSteps
  <2>1. h[1].st = "none" /\ h[1].text = Append(a.text, "u")
    <3>1. 1 \in 1 .. Len(t) /\ 1 - 1 = 0
      BY <2>u3
    <3>2. StripStep(h[0], "u", h[1])
      BY <2>u3, <2>u4, <3>1 DEF StripSteps
    <3>. QED
      BY <2>0, <3>2 DEF StripStep, Read!Finals
  <2>2. h[2].st = "none" /\ h[2].text = Append(Append(a.text, "u"), "v")
    <3>1. 2 \in 1 .. Len(t) /\ 2 - 1 = 1
      BY <2>u3
    <3>2. StripStep(h[1], "v", h[2])
      BY <2>u3, <2>u4, <3>1 DEF StripSteps
    <3>. QED
      BY <2>0, <2>1, <3>2 DEF StripStep, Read!Finals
  <2>. QED
    BY <1>2, <1>a, <2>u2, <2>0, <2>2
<1>3. CASE p.bytes = <<"E", "[", "2", "J">> /\ p.plain = <<>>
  <2>u1. <<"E", "[", "2", "J">> \in Bytes
    BY DEF Bytes, Byte
  <2>u2. PICK t \in Bytes : t = <<"E", "[", "2", "J">>
    BY <2>u1
  <2>u3. Len(t) = 4 /\ t[1] = "E" /\ t[2] = "[" /\ t[3] = "2" /\ t[4] = "J"
    BY <2>u2
  <2>u4. PICK h : StripSteps(h, a, t)
    BY StripStepsExist
  <2>0. h[0] = a /\ h[4] = Ran(StripFn, a, t)
    BY <2>u3, <2>u4 DEF StripSteps
  <2>1. h[1].st = "intro" /\ h[1].text = a.text
    <3>1. 1 \in 1 .. Len(t) /\ 1 - 1 = 0
      BY <2>u3
    <3>2. StripStep(h[0], "E", h[1])
      BY <2>u3, <2>u4, <3>1 DEF StripSteps
    <3>. QED
      BY <2>0, <3>2 DEF StripStep, Read!Finals
  <2>2. h[2].st = "csi" /\ h[2].text = a.text
    <3>1. 2 \in 1 .. Len(t) /\ 2 - 1 = 1
      BY <2>u3
    <3>2. StripStep(h[1], "[", h[2])
      BY <2>u3, <2>u4, <3>1 DEF StripSteps
    <3>. QED
      BY <2>0, <2>1, <3>2 DEF StripStep, Read!Finals
  <2>3. h[3].st = "csi" /\ h[3].text = a.text
    <3>1. 3 \in 1 .. Len(t) /\ 3 - 1 = 2
      BY <2>u3
    <3>2. StripStep(h[2], "2", h[3])
      BY <2>u3, <2>u4, <3>1 DEF StripSteps
    <3>. QED
      BY <2>0, <2>2, <3>2 DEF StripStep, Read!Finals
  <2>4. h[4].st = "none" /\ h[4].text = a.text
    <3>1. 4 \in 1 .. Len(t) /\ 4 - 1 = 3
      BY <2>u3
    <3>2. StripStep(h[3], "J", h[4])
      BY <2>u3, <2>u4, <3>1 DEF StripSteps
    <3>. QED
      BY <2>0, <2>3, <3>2 DEF StripStep, Read!Finals
  <2>. QED
    BY <1>3, <1>a, <2>u2, <2>0, <2>4
<1>4. CASE p.bytes = <<"E", "]", "7", "S", "p", "B">> /\ p.plain = <<>>
  <2>u1. <<"E", "]", "7", "S", "p", "B">> \in Bytes
    BY DEF Bytes, Byte
  <2>u2. PICK t \in Bytes : t = <<"E", "]", "7", "S", "p", "B">>
    BY <2>u1
  <2>u3. Len(t) = 6 /\ t[1] = "E" /\ t[2] = "]" /\ t[3] = "7" /\ t[4] = "S" /\ t[5] = "p" /\ t[6] = "B"
    BY <2>u2
  <2>u4. PICK h : StripSteps(h, a, t)
    BY StripStepsExist
  <2>0. h[0] = a /\ h[6] = Ran(StripFn, a, t)
    BY <2>u3, <2>u4 DEF StripSteps
  <2>1. h[1].st = "intro" /\ h[1].text = a.text
    <3>1. 1 \in 1 .. Len(t) /\ 1 - 1 = 0
      BY <2>u3
    <3>2. StripStep(h[0], "E", h[1])
      BY <2>u3, <2>u4, <3>1 DEF StripSteps
    <3>. QED
      BY <2>0, <3>2 DEF StripStep, Read!Finals
  <2>2. h[2].st = "osc" /\ h[2].text = a.text
    <3>1. 2 \in 1 .. Len(t) /\ 2 - 1 = 1
      BY <2>u3
    <3>2. StripStep(h[1], "]", h[2])
      BY <2>u3, <2>u4, <3>1 DEF StripSteps
    <3>. QED
      BY <2>0, <2>1, <3>2 DEF StripStep, Read!Finals
  <2>3. h[3].st = "osc" /\ h[3].text = a.text
    <3>1. 3 \in 1 .. Len(t) /\ 3 - 1 = 2
      BY <2>u3
    <3>2. StripStep(h[2], "7", h[3])
      BY <2>u3, <2>u4, <3>1 DEF StripSteps
    <3>. QED
      BY <2>0, <2>2, <3>2 DEF StripStep, Read!Finals
  <2>4. h[4].st = "osc" /\ h[4].text = a.text
    <3>1. 4 \in 1 .. Len(t) /\ 4 - 1 = 3
      BY <2>u3
    <3>2. StripStep(h[3], "S", h[4])
      BY <2>u3, <2>u4, <3>1 DEF StripSteps
    <3>. QED
      BY <2>0, <2>3, <3>2 DEF StripStep, Read!Finals
  <2>5. h[5].st = "osc" /\ h[5].text = a.text
    <3>1. 5 \in 1 .. Len(t) /\ 5 - 1 = 4
      BY <2>u3
    <3>2. StripStep(h[4], "p", h[5])
      BY <2>u3, <2>u4, <3>1 DEF StripSteps
    <3>. QED
      BY <2>0, <2>4, <3>2 DEF StripStep, Read!Finals
  <2>6. h[6].st = "none" /\ h[6].text = a.text
    <3>1. 6 \in 1 .. Len(t) /\ 6 - 1 = 5
      BY <2>u3
    <3>2. StripStep(h[5], "B", h[6])
      BY <2>u3, <2>u4, <3>1 DEF StripSteps
    <3>. QED
      BY <2>0, <2>5, <3>2 DEF StripStep, Read!Finals
  <2>. QED
    BY <1>4, <1>a, <2>u2, <2>0, <2>6
<1>5. CASE p.bytes = <<"E", "]", "7", "S", "q", "E", "\\">> /\ p.plain = <<>>
  <2>u1. <<"E", "]", "7", "S", "q", "E", "\\">> \in Bytes
    BY DEF Bytes, Byte
  <2>u2. PICK t \in Bytes : t = <<"E", "]", "7", "S", "q", "E", "\\">>
    BY <2>u1
  <2>u3. Len(t) = 7 /\ t[1] = "E" /\ t[2] = "]" /\ t[3] = "7" /\ t[4] = "S" /\ t[5] = "q" /\ t[6] = "E" /\ t[7] = "\\"
    BY <2>u2
  <2>u4. PICK h : StripSteps(h, a, t)
    BY StripStepsExist
  <2>0. h[0] = a /\ h[7] = Ran(StripFn, a, t)
    BY <2>u3, <2>u4 DEF StripSteps
  <2>1. h[1].st = "intro" /\ h[1].text = a.text
    <3>1. 1 \in 1 .. Len(t) /\ 1 - 1 = 0
      BY <2>u3
    <3>2. StripStep(h[0], "E", h[1])
      BY <2>u3, <2>u4, <3>1 DEF StripSteps
    <3>. QED
      BY <2>0, <3>2 DEF StripStep, Read!Finals
  <2>2. h[2].st = "osc" /\ h[2].text = a.text
    <3>1. 2 \in 1 .. Len(t) /\ 2 - 1 = 1
      BY <2>u3
    <3>2. StripStep(h[1], "]", h[2])
      BY <2>u3, <2>u4, <3>1 DEF StripSteps
    <3>. QED
      BY <2>0, <2>1, <3>2 DEF StripStep, Read!Finals
  <2>3. h[3].st = "osc" /\ h[3].text = a.text
    <3>1. 3 \in 1 .. Len(t) /\ 3 - 1 = 2
      BY <2>u3
    <3>2. StripStep(h[2], "7", h[3])
      BY <2>u3, <2>u4, <3>1 DEF StripSteps
    <3>. QED
      BY <2>0, <2>2, <3>2 DEF StripStep, Read!Finals
  <2>4. h[4].st = "osc" /\ h[4].text = a.text
    <3>1. 4 \in 1 .. Len(t) /\ 4 - 1 = 3
      BY <2>u3
    <3>2. StripStep(h[3], "S", h[4])
      BY <2>u3, <2>u4, <3>1 DEF StripSteps
    <3>. QED
      BY <2>0, <2>3, <3>2 DEF StripStep, Read!Finals
  <2>5. h[5].st = "osc" /\ h[5].text = a.text
    <3>1. 5 \in 1 .. Len(t) /\ 5 - 1 = 4
      BY <2>u3
    <3>2. StripStep(h[4], "q", h[5])
      BY <2>u3, <2>u4, <3>1 DEF StripSteps
    <3>. QED
      BY <2>0, <2>4, <3>2 DEF StripStep, Read!Finals
  <2>6. h[6].st = "oscEnd" /\ h[6].text = a.text
    <3>1. 6 \in 1 .. Len(t) /\ 6 - 1 = 5
      BY <2>u3
    <3>2. StripStep(h[5], "E", h[6])
      BY <2>u3, <2>u4, <3>1 DEF StripSteps
    <3>. QED
      BY <2>0, <2>5, <3>2 DEF StripStep, Read!Finals
  <2>7. h[7].st = "none" /\ h[7].text = a.text
    <3>1. 7 \in 1 .. Len(t) /\ 7 - 1 = 6
      BY <2>u3
    <3>2. StripStep(h[6], "\\", h[7])
      BY <2>u3, <2>u4, <3>1 DEF StripSteps
    <3>. QED
      BY <2>0, <2>6, <3>2 DEF StripStep, Read!Finals
  <2>. QED
    BY <1>5, <1>a, <2>u2, <2>0, <2>7
<1>6. CASE p.bytes = <<"E", "A", "G", "d", "E", "\\">> /\ p.plain = <<"G", "d">>
  <2>u1. <<"E", "A", "G", "d", "E", "\\">> \in Bytes
    BY DEF Bytes, Byte
  <2>u2. PICK t \in Bytes : t = <<"E", "A", "G", "d", "E", "\\">>
    BY <2>u1
  <2>u3. Len(t) = 6 /\ t[1] = "E" /\ t[2] = "A" /\ t[3] = "G" /\ t[4] = "d" /\ t[5] = "E" /\ t[6] = "\\"
    BY <2>u2
  <2>u4. PICK h : StripSteps(h, a, t)
    BY StripStepsExist
  <2>0. h[0] = a /\ h[6] = Ran(StripFn, a, t)
    BY <2>u3, <2>u4 DEF StripSteps
  <2>1. h[1].st = "intro" /\ h[1].text = a.text
    <3>1. 1 \in 1 .. Len(t) /\ 1 - 1 = 0
      BY <2>u3
    <3>2. StripStep(h[0], "E", h[1])
      BY <2>u3, <2>u4, <3>1 DEF StripSteps
    <3>. QED
      BY <2>0, <3>2 DEF StripStep, Read!Finals
  <2>2. h[2].st = "none" /\ h[2].text = a.text
    <3>1. 2 \in 1 .. Len(t) /\ 2 - 1 = 1
      BY <2>u3
    <3>2. StripStep(h[1], "A", h[2])
      BY <2>u3, <2>u4, <3>1 DEF StripSteps
    <3>. QED
      BY <2>0, <2>1, <3>2 DEF StripStep, Read!Finals
  <2>3. h[3].st = "none" /\ h[3].text = Append(a.text, "G")
    <3>1. 3 \in 1 .. Len(t) /\ 3 - 1 = 2
      BY <2>u3
    <3>2. StripStep(h[2], "G", h[3])
      BY <2>u3, <2>u4, <3>1 DEF StripSteps
    <3>. QED
      BY <2>0, <2>2, <3>2 DEF StripStep, Read!Finals
  <2>4. h[4].st = "none" /\ h[4].text = Append(Append(a.text, "G"), "d")
    <3>1. 4 \in 1 .. Len(t) /\ 4 - 1 = 3
      BY <2>u3
    <3>2. StripStep(h[3], "d", h[4])
      BY <2>u3, <2>u4, <3>1 DEF StripSteps
    <3>. QED
      BY <2>0, <2>3, <3>2 DEF StripStep, Read!Finals
  <2>5. h[5].st = "intro" /\ h[5].text = Append(Append(a.text, "G"), "d")
    <3>1. 5 \in 1 .. Len(t) /\ 5 - 1 = 4
      BY <2>u3
    <3>2. StripStep(h[4], "E", h[5])
      BY <2>u3, <2>u4, <3>1 DEF StripSteps
    <3>. QED
      BY <2>0, <2>4, <3>2 DEF StripStep, Read!Finals
  <2>6. h[6].st = "none" /\ h[6].text = Append(Append(a.text, "G"), "d")
    <3>1. 6 \in 1 .. Len(t) /\ 6 - 1 = 5
      BY <2>u3
    <3>2. StripStep(h[5], "\\", h[6])
      BY <2>u3, <2>u4, <3>1 DEF StripSteps
    <3>. QED
      BY <2>0, <2>5, <3>2 DEF StripStep, Read!Finals
  <2>. QED
    BY <1>6, <1>a, <2>u2, <2>0, <2>6

<1>. QED
  BY <1>1, <1>2, <1>3, <1>4, <1>5, <1>6, PieceIs DEF IsPiece

(* What the pieces mean is what one read of all their bytes would find.    *)
Paired(t) ==
  \A i \in 1 .. Len(t) :
    /\ t[i] = "u" => i < Len(t) /\ t[i + 1] = "v"
    /\ t[i] = "v" => i > 1 /\ t[i - 1] = "u"

LEMMA PairedJoined ==
  ASSUME NEW a \in Bytes, NEW b \in Bytes, Paired(a), Paired(b)
  PROVE  Paired(a \o b)
<1>1. PICK w \in Bytes : w = a \o b
  BY JoinedBytes
<1>2. PICK m \in Nat : m = Len(a)
  BY JoinedBytes
<1>3. PICK n \in Nat : n = Len(b)
  BY JoinedBytes
<1>4. Len(w) = m + n /\ (\A i \in 1 .. m : w[i] = a[i]) /\ \A i \in 1 .. n : w[m + i] = b[i]
  BY <1>1, <1>2, <1>3, JoinedBytes
<1>5. ASSUME NEW i \in 1 .. m + n
      PROVE  (w[i] = "u" => i < m + n /\ w[i + 1] = "v") /\ (w[i] = "v" => i > 1 /\ w[i - 1] = "u")
  <2>1. CASE i <= m
    <3>1. i \in 1 .. m /\ w[i] = a[i]
      BY <1>4, <2>1
    <3>2. (a[i] = "u" => i < m /\ a[i + 1] = "v") /\ (a[i] = "v" => i > 1 /\ a[i - 1] = "u")
      BY <1>2, <3>1 DEF Paired
    <3>3. (i < m => w[i + 1] = a[i + 1]) /\ (i > 1 => w[i - 1] = a[i - 1])
      BY <1>4, <3>1
    <3>. QED
      BY <3>1, <3>2, <3>3
  <2>2. CASE i > m
    <3>1. PICK j \in 1 .. n : i = m + j
      <4>1. i - m \in 1 .. n /\ i = m + (i - m)
        BY <2>2
      <4>. QED
        BY <4>1
    <3>2. (b[j] = "u" => j < n /\ b[j + 1] = "v") /\ (b[j] = "v" => j > 1 /\ b[j - 1] = "u")
      BY <1>3 DEF Paired
    <3>3. w[i] = b[j] /\ (j < n => w[m + (j + 1)] = b[j + 1]) /\ (j > 1 => w[m + (j - 1)] = b[j - 1])
      BY <1>4, <3>1
    <3>4. m + (j + 1) = i + 1 /\ m + (j - 1) = i - 1 /\ (j < n => i < m + n) /\ (j > 1 => i > 1)
      BY <3>1
    <3>. QED
      BY <3>2, <3>3, <3>4
  <2>. QED
    BY <2>1, <2>2
<1>. QED
  BY <1>1, <1>4, <1>5 DEF Paired

LEMMA PairedPiece == ASSUME NEW p \in Read!Pieces PROVE Paired(p.plain)
<1>1. PICK t : t = p.plain
  OBVIOUS
<1>2. CASE t = <<>>
  BY <1>1, <1>2 DEF Paired
<1>3. CASE t = <<"x">>
  <2>1. Len(t) = 1 /\ t[1] = "x"
    BY <1>3
  <2>. QED
    BY <1>1, <2>1 DEF Paired
<1>4. CASE t = <<"u", "v">>
  <2>1. Len(t) = 2 /\ t[1] = "u" /\ t[2] = "v" /\ 1 + 1 = 2 /\ 2 - 1 = 1 /\ 1 .. 2 = {1, 2}
    BY <1>4
  <2>. QED
    BY <1>1, <2>1 DEF Paired
<1>5. CASE t = <<"G", "d">>
  <2>1. Len(t) = 2 /\ t[1] = "G" /\ t[2] = "d" /\ 1 .. 2 = {1, 2}
    BY <1>5
  <2>. QED
    BY <1>1, <2>1 DEF Paired
<1>. QED
  BY <1>1, <1>2, <1>3, <1>4, <1>5, PieceIs DEF IsPiece

HeardStart == [st |-> "ground", body |-> <<>>, fed |-> <<>>, bodies |-> <<>>]
StripStart == [st |-> "none", text |-> <<>>]

LEMMA Starts ==
  /\ HeardStart \in Heards /\ StripStart \in Strips /\ OscStart \in Oscs /\ Read!Nothing \in Sums
BY ByteSeqs DEF HeardStart, Heards, StripStart, Strips, OscStart, Oscs, Read!Nothing, Sums

AsMeant ==
  {m \in Sums :
     /\ LET a == Ran(HearFn, HeardStart, m.bytes) IN Apart(a) /\ Heard(a) = m.text /\ a.bodies = m.bodies
     /\ LET o == Ran(OscFn, OscStart, m.text) IN o.st \in {"ground", "esc"} /\ o.cwd = m.dir
     /\ Read!Found(m.text) = m.erases}

Stripped ==
  {m \in Sums :
     /\ LET s == Ran(StripFn, StripStart, m.bytes) IN s.st = "none" /\ s.text = m.plain
     /\ Paired(m.plain)}

LEMMA NothingMeant == Read!Nothing \in AsMeant /\ Read!Nothing \in Stripped
<1>1. PICK m \in Sums : m = Read!Nothing
  BY Starts
<1>2. /\ m.bytes = <<>> /\ m.text = <<>> /\ m.plain = <<>> /\ m.bodies = <<>> /\ m.dir = <<>> /\ m.erases = 0
  BY <1>1 DEF Read!Nothing
<1>3. Ran(HearFn, HeardStart, <<>>) = HeardStart
  <2>1. Scans(Heards, Byte, HearFn, HeardStart, <<>>)
    BY HearTyped, Starts DEF Scans
  <2>. QED
    BY <2>1, RanEmpty
<1>4. Ran(OscFn, OscStart, <<>>) = OscStart
  <2>1. Scans(Oscs, Byte, OscFn, OscStart, <<>>)
    BY OscTyped, Starts DEF Scans
  <2>. QED
    BY <2>1, RanEmpty
<1>5. Ran(StripFn, StripStart, <<>>) = StripStart
  <2>1. Scans(Strips, Byte, StripFn, StripStart, <<>>)
    BY StripTyped, Starts DEF Scans
  <2>. QED
    BY <2>1, RanEmpty
<1>6. Read!Found(<<>>) = 0
  <2>1. Read!Erasures(<<>>) = {}
    <3>1. Read!Erasures(<<>>) = {i \in 1 .. Len(<<>>) - 3 : ErasedAt(<<>>, i)} /\ Len(<<>>) = 0
      BY Spelt, ByteSeqs
    <3>. QED
      BY <3>1
  <2>. QED
    BY <2>1, FoundCounts, FS_EmptySet
<1>7. Apart(HeardStart) /\ Heard(HeardStart) = <<>> /\ HeardStart.bodies = <<>>
  BY ByteSeqs, Joining DEF HeardStart, Apart, Heard, Held
<1>8. Paired(<<>>)
  BY DEF Paired
<1>9. m \in AsMeant
  BY <1>2, <1>3, <1>4, <1>6, <1>7 DEF AsMeant, OscStart
<1>10. m \in Stripped
  BY <1>2, <1>5, <1>8 DEF Stripped, StripStart
<1>. QED
  BY <1>1, <1>9, <1>10

LEMMA MeantStep ==
  ASSUME BodiesFit, NEW m \in AsMeant, NEW p \in Read!Pieces
  PROVE  Read!Said(m, p) \in AsMeant
<1>1. m \in Sums /\ p \in PieceRec
  BY PieceTyped DEF AsMeant
<1>2. /\ m.bytes \in Bytes /\ m.text \in Bytes /\ p.bytes \in Bytes /\ p.text \in Bytes
      /\ p.bytes \in Seq(Byte) /\ p.text \in Seq(Byte)
  BY <1>1 DEF Sums, PieceRec, Bytes
<1>3. PICK w \in Sums : w = Read!Said(m, p)
  BY <1>1, SaidTyped
<1>4. /\ w.bytes = m.bytes \o p.bytes /\ w.text = m.text \o p.text /\ w.erases = m.erases + p.erases
      /\ w.bodies = IF p.body = <<>> THEN m.bodies ELSE Append(m.bodies, p.body)
      /\ w.dir = IF p.dir = <<>> THEN m.dir ELSE p.dir
  BY <1>3 DEF Read!Said
<1>5. PICK a : a = Ran(HearFn, HeardStart, m.bytes)
  OBVIOUS
<1>6. a \in Heards /\ Apart(a) /\ Heard(a) = m.text /\ a.bodies = m.bodies
      /\ Ran(HearFn, HeardStart, w.bytes) = Ran(HearFn, a, p.bytes)
  <2>1. Scans(Heards, Byte, HearFn, HeardStart, m.bytes)
    BY <1>2, HearTyped, Starts DEF Scans, Bytes
  <2>2. Ran(HearFn, HeardStart, m.bytes) \in Heards
    BY <2>1, RanIn
  <2>3. Ran(HearFn, HeardStart, m.bytes \o p.bytes) = Ran(HearFn, Ran(HearFn, HeardStart, m.bytes), p.bytes)
    BY <1>2, <2>1, RanJoined
  <2>. QED
    BY <1>4, <1>5, <2>2, <2>3 DEF AsMeant
<1>7. PICK o : o = Ran(OscFn, OscStart, m.text)
  OBVIOUS
<1>8. o \in Oscs /\ o.st \in {"ground", "esc"} /\ o.cwd = m.dir
      /\ Ran(OscFn, OscStart, w.text) = Ran(OscFn, o, p.text)
  <2>1. Scans(Oscs, Byte, OscFn, OscStart, m.text)
    BY <1>2, OscTyped, Starts DEF Scans, Bytes
  <2>2. Ran(OscFn, OscStart, m.text) \in Oscs
    BY <2>1, RanIn
  <2>3. Ran(OscFn, OscStart, m.text \o p.text) = Ran(OscFn, Ran(OscFn, OscStart, m.text), p.text)
    BY <1>2, <2>1, RanJoined
  <2>. QED
    BY <1>4, <1>7, <2>2, <2>3 DEF AsMeant
<1>9. PICK b : b = Ran(HearFn, HeardStart, w.bytes)
  OBVIOUS
<1>10. Apart(b) /\ Heard(b) = w.text /\ b.bodies = w.bodies
  BY <1>4, <1>6, <1>9, HeardPiece
<1>11. PICK q : q = Ran(OscFn, OscStart, w.text)
  OBVIOUS
<1>12. q.st \in {"ground", "esc"} /\ q.cwd = w.dir
  BY <1>4, <1>8, <1>11, OscPiece
<1>13. Read!Found(w.text) = w.erases
  BY <1>2, <1>4, FoundPiece DEF AsMeant
<1>. QED
  BY <1>3, <1>9, <1>10, <1>11, <1>12, <1>13 DEF AsMeant

LEMMA StrippedStep ==
  ASSUME NEW m \in Stripped, NEW p \in Read!Pieces, p # Read!Lone
  PROVE  Read!Said(m, p) \in Stripped
<1>1. m \in Sums /\ p \in PieceRec
  BY PieceTyped DEF Stripped
<1>2. /\ m.bytes \in Bytes /\ p.bytes \in Seq(Byte) /\ m.plain \in Bytes /\ p.plain \in Bytes
  BY <1>1 DEF Sums, PieceRec, Bytes
<1>3. PICK w \in Sums : w = Read!Said(m, p)
  BY <1>1, SaidTyped
<1>4. w.bytes = m.bytes \o p.bytes /\ w.plain = m.plain \o p.plain
  BY <1>3 DEF Read!Said
<1>5. PICK a : a = Ran(StripFn, StripStart, m.bytes)
  OBVIOUS
<1>6. a \in Strips /\ a.st = "none" /\ a.text = m.plain
      /\ Ran(StripFn, StripStart, w.bytes) = Ran(StripFn, a, p.bytes)
  <2>1. Scans(Strips, Byte, StripFn, StripStart, m.bytes)
    BY <1>2, StripTyped, Starts DEF Scans, Bytes
  <2>2. Ran(StripFn, StripStart, m.bytes) \in Strips
    BY <2>1, RanIn
  <2>3. Ran(StripFn, StripStart, m.bytes \o p.bytes) = Ran(StripFn, Ran(StripFn, StripStart, m.bytes), p.bytes)
    BY <1>2, <2>1, RanJoined
  <2>. QED
    BY <1>4, <1>5, <2>2, <2>3 DEF Stripped
<1>7. PICK b : b = Ran(StripFn, StripStart, w.bytes)
  OBVIOUS
<1>8. b.st = "none" /\ b.text = w.plain
  BY <1>4, <1>6, <1>7, StripPiece
<1>9. Paired(w.plain)
  <2>1. Paired(m.plain)
    BY DEF Stripped
  <2>. QED
    BY <1>2, <1>4, <2>1, PairedPiece, PairedJoined
<1>. QED
  BY <1>3, <1>7, <1>8, <1>9 DEF Stripped

LEMMA AllMeant ==
  ASSUME BodiesFit, NEW ps \in Seq(Read!Pieces)
  PROVE  Read!All(ps) \in AsMeant
<1>1. Read!All(ps) = Ran(SaidFn, Read!Nothing, ps)
  BY SaidFold, Starts DEF Read!All
<1>2. ASSUME NEW x \in Sums, NEW y \in Read!Pieces, x \in AsMeant PROVE SaidFn[<<x, y>>] \in AsMeant
  <2>1. SaidFn[<<x, y>>] = Read!Said(x, y)
    BY SaidTyped
  <2>. QED
    BY <1>2, <2>1, MeantStep
<1>3. SaidFn \in [Sums \X Read!Pieces -> Sums]
  BY SaidTyped
<1>4. PICK z \in Sums : z = Read!Nothing
  BY Starts
<1>5. z \in AsMeant
  BY <1>4, NothingMeant
<1>6. Ran(SaidFn, z, ps) \in AsMeant
  BY <1>2, <1>3, <1>5, RanStays
<1>. QED
  BY <1>1, <1>4, <1>6

LEMMA AllStripped ==
  ASSUME NEW ps \in Seq(Read!Pieces), Read!Lone \notin Read!ToSet(ps)
  PROVE  Read!All(ps) \in Stripped
<1>1. Read!All(ps) = Ran(SaidFn, Read!Nothing, ps)
  BY SaidFold, Starts DEF Read!All
<1>2. PICK V : V = Read!Pieces \ {Read!Lone}
  OBVIOUS
<1>3. ASSUME NEW x \in Sums, NEW y \in V, x \in Stripped PROVE SaidFn[<<x, y>>] \in Stripped
  <2>1. y \in Read!Pieces /\ y # Read!Lone
    BY <1>2
  <2>2. SaidFn[<<x, y>>] = Read!Said(x, y)
    BY <2>1, SaidTyped
  <2>. QED
    BY <1>3, <2>1, <2>2, StrippedStep
<1>4. SaidFn \in [Sums \X Read!Pieces -> Sums] /\ V \subseteq Read!Pieces
  BY <1>2, SaidTyped
<1>5. ps \in Seq(V)
  <2>1. Len(ps) \in Nat /\ \A k \in 1 .. Len(ps) : ps[k] \in Read!Pieces
    OBVIOUS
  <2>2. \A k \in 1 .. Len(ps) : ps[k] # Read!Lone
    BY DEF Read!ToSet
  <2>3. \A k \in 1 .. Len(ps) : ps[k] \in V
    BY <1>2, <2>1, <2>2
  <2>. QED
    BY <2>3
<1>6. PICK z \in Sums : z = Read!Nothing
  BY Starts
<1>7. z \in Stripped
  BY <1>6, NothingMeant
<1>8. Ran(SaidFn, z, ps) \in Stripped
  BY <1>3, <1>4, <1>5, <1>7, RanStays
<1>. QED
  BY <1>1, <1>6, <1>8

(* Parts of what was sent.                                                 *)
LEMMA Parts ==
  ASSUME NEW w \in Bytes, NEW i \in 0 .. Len(w), NEW n \in Nat, i + n <= Len(w)
  PROVE  /\ SubSeq(w, 1, i) \in Bytes /\ Len(SubSeq(w, 1, i)) = i
         /\ SubSeq(w, i + 1, i + n) \in Bytes /\ Len(SubSeq(w, i + 1, i + n)) = n
         /\ SubSeq(w, 1, i + n) = SubSeq(w, 1, i) \o SubSeq(w, i + 1, i + n)
<1>0. Len(w) \in Nat /\ i \in Nat /\ \A k \in 1 .. Len(w) : w[k] \in Byte
  BY DEF Bytes
<1>1. SubSeq(w, 1, i) \in Seq(Byte) /\ Len(SubSeq(w, 1, i)) = i /\ \A k \in 1 .. i : SubSeq(w, 1, i)[k] = w[k]
  <2>1. \A k \in 1 .. i : w[k] \in Byte
    BY <1>0
  <2>. QED
    BY <1>0, <2>1, SubSeqProperties
<1>2. /\ SubSeq(w, i + 1, i + n) \in Seq(Byte) /\ Len(SubSeq(w, i + 1, i + n)) = n
      /\ \A k \in 1 .. n : SubSeq(w, i + 1, i + n)[k] = w[i + k]
  <2>1. \A k \in i + 1 .. i + n : w[k] \in Byte
    BY <1>0
  <2>. QED
    BY <1>0, <2>1, SubSeqProperties
<1>3. /\ SubSeq(w, 1, i + n) \in Seq(Byte) /\ Len(SubSeq(w, 1, i + n)) = i + n
      /\ \A k \in 1 .. i + n : SubSeq(w, 1, i + n)[k] = w[k]
  <2>1. \A k \in 1 .. i + n : w[k] \in Byte
    BY <1>0
  <2>. QED
    BY <1>0, <2>1, SubSeqProperties
<1>4. PICK a \in Bytes : a = SubSeq(w, 1, i)
  BY <1>1 DEF Bytes
<1>5. PICK b \in Bytes : b = SubSeq(w, i + 1, i + n)
  BY <1>2 DEF Bytes
<1>6. PICK c \in Bytes : c = SubSeq(w, 1, i + n)
  BY <1>3 DEF Bytes
<1>7. PICK d \in Bytes : d = a \o b
  BY ByteSeqs
<1>8. Len(d) = i + n /\ (\A k \in 1 .. i : d[k] = w[k]) /\ \A k \in 1 .. n : d[i + k] = w[i + k]
  <2>1. /\ Len(d) = Len(a) + Len(b) /\ (\A k \in 1 .. Len(a) : d[k] = a[k])
        /\ \A k \in 1 .. Len(b) : d[Len(a) + k] = b[k]
    BY <1>7, JoinedBytes
  <2>2. Len(a) = i /\ Len(b) = n /\ (\A k \in 1 .. i : a[k] = w[k]) /\ \A k \in 1 .. n : b[k] = w[i + k]
    BY <1>1, <1>2, <1>4, <1>5
  <2>. QED
    BY <2>1, <2>2
<1>9. \A k \in 1 .. i + n : d[k] = c[k]
  <2>. TAKE k \in 1 .. i + n
  <2>1. CASE k <= i
    BY <1>0, <1>3, <1>6, <1>8, <2>1
  <2>2. CASE k > i
    <3>1. k - i \in 1 .. n /\ i + (k - i) = k
      BY <1>0, <2>2
    <3>. QED
      BY <1>3, <1>6, <1>8, <3>1
  <2>. QED
    BY <1>0, <2>1, <2>2
<1>10. d = c
  BY <1>3, <1>6, <1>8, <1>9 DEF Bytes
<1>. QED
  BY <1>1, <1>2, <1>4, <1>5, <1>6, <1>7, <1>10 DEF Bytes

LEMMA PrefixOfJoined ==
  ASSUME NEW a \in Bytes, NEW b \in Bytes
  PROVE  Read!IsPrefix(a, a \o b)
<1>1. PICK w \in Bytes : w = a \o b
  BY JoinedBytes
<1>2. Len(a) \in Nat /\ Len(b) \in Nat /\ Len(w) = Len(a) + Len(b) /\ \A k \in 1 .. Len(a) : w[k] = a[k]
  BY <1>1, JoinedBytes
<1>3. SubSeq(a, 1, Len(a)) = a
  BY SubSeqFull DEF Bytes
<1>4. PICK s : s = SubSeq(w, 1, Len(a))
  OBVIOUS
<1>5. s \in Seq(Byte) /\ Len(s) = Len(a) /\ \A k \in 1 .. Len(a) : s[k] = w[k]
  <2>1. \A k \in 1 .. Len(a) : w[k] \in Byte
    BY <1>2 DEF Bytes
  <2>. QED
    BY <1>2, <1>4, <2>1, SubSeqProperties
<1>6. s = a
  BY <1>2, <1>5 DEF Bytes
<1>. QED
  BY <1>1, <1>2, <1>3, <1>4, <1>6 DEF Read!IsPrefix

(* What has been handed on stays, whatever comes.                          *)
LEMMA HearGrows ==
  ASSUME NEW a \in Heards, NEW t \in Bytes
  PROVE  \E u \in Bytes : Ran(HearFn, a, t).fed = a.fed \o u
<1>. DEFINE R == {x \in Heards : \E u \in Bytes : x.fed = a.fed \o u}
<1>0. a.fed \in Bytes /\ <<>> \in Bytes /\ <<"E">> \in Bytes
  BY ByteSeqs DEF Heards
<1>1. a \in R
  BY <1>0, Joining
<1>2. ASSUME NEW x \in Heards, NEW y \in Byte, x \in R PROVE HearFn[<<x, y>>] \in R
  <2>1. PICK o \in Heards : o = HearFn[<<x, y>>] /\ o = HearByte(x, y)
    BY HearTyped
  <2>2. PICK u \in Bytes : x.fed = a.fed \o u
    BY <1>2
  <2>3. PICK v \in Bytes : o.fed = x.fed \o v
    <3>1. /\ x.fed \in Bytes /\ <<y>> \in Bytes /\ <<"E", y>> \in Bytes /\ x.fed \o <<>> = x.fed
      BY <1>0, ByteSeqs, Joining DEF Heards
    <3>2. o.fed = x.fed \/ o.fed = x.fed \o <<y>> \/ o.fed = x.fed \o <<"E">> \/ o.fed = x.fed \o <<"E", y>>
      BY <2>1 DEF HearByte
    <3>. QED
      BY <1>0, <3>1, <3>2
  <2>4. o.fed = a.fed \o (u \o v) /\ u \o v \in Bytes
    <3>1. \A z \in Bytes : (a.fed \o u) \o z = a.fed \o (u \o z)
      BY <1>0, Joining
    <3>2. o.fed = (a.fed \o u) \o v
      BY <2>2, <2>3
    <3>. QED
      BY <3>1, <3>2, ByteSeqs, Zenon
  <2>. QED
    BY <2>1, <2>4
<1>3. HearFn \in [Heards \X Byte -> Heards] /\ t \in Seq(Byte)
  BY HearTyped DEF Bytes
<1>4. Ran(HearFn, a, t) \in R
  <2>. HIDE DEF R
  <2>. QED
    BY <1>1, <1>2, <1>3, RanStays
<1>. QED
  BY <1>4

(* The stripper does not look at what it has kept.                         *)
Shifted(x, a, c) == c.st = a.st /\ c.text = x \o a.text

LEMMA StripShift ==
  ASSUME NEW x \in Bytes, NEW a \in Strips, NEW c \in Strips, Shifted(x, a, c), NEW t \in Bytes
  PROVE  Shifted(x, Ran(StripFn, a, t), Ran(StripFn, c, t))
<1>. DEFINE R == {r \in Strips \X Strips : r[1].st = r[2].st /\ r[1].text = x \o r[2].text}
<1>1. <<c, a>> \in R
  BY DEF Shifted
<1>2. ASSUME NEW d \in Strips, NEW e \in Strips, NEW y \in Byte, <<d, e>> \in R
      PROVE  <<StripFn[<<d, y>>], StripFn[<<e, y>>]>> \in R
  <2>1. PICK o \in Strips : o = StripFn[<<d, y>>] /\ StripStep(d, y, o)
    BY StripTyped, StripIs
  <2>2. PICK q \in Strips : q = StripFn[<<e, y>>] /\ StripStep(e, y, q)
    BY StripTyped, StripIs
  <2>3. d.st = e.st /\ d.text = x \o e.text /\ e.text \in Bytes
    BY <1>2 DEF Strips
  <2>4. Append(x \o e.text, y) = x \o Append(e.text, y)
    <3>1. PICK z \in Bytes : z = e.text
      BY <2>3
    <3>2. Append(x \o z, y) = x \o Append(z, y)
      <4>1. Append(x \o z, y) = (x \o z) \o <<y>> /\ Append(z, y) = z \o <<y>> /\ <<y>> \in Bytes
        BY TwoAppended, ByteSeqs
      <4>2. \A v \in Bytes : (x \o z) \o v = x \o (z \o v)
        BY Joining
      <4>. QED
        BY <4>1, <4>2, Zenon
    <3>. QED
      BY <3>1, <3>2
  <2>5. o.st = q.st
    BY <2>1, <2>2, <2>3 DEF StripStep, Strips
  <2>6. o.text = x \o q.text
    <3>1. CASE d.st = "none" /\ y \notin {"E", "B"}
      BY <2>1, <2>2, <2>3, <2>4, <3>1 DEF StripStep
    <3>2. CASE d.st # "none" \/ y \in {"E", "B"}
      BY <2>1, <2>2, <2>3, <3>2 DEF StripStep
    <3>. QED
      BY <3>1, <3>2
  <2>. QED
    BY <2>1, <2>2, <2>5, <2>6
<1>3. Together(Strips, Byte, Strips, StripFn, StripFn, Byte, R)
  <2>. HIDE DEF R
  <2>. QED
    BY <1>2, StripTyped DEF Together
<1>4. <<Ran(StripFn, c, t), Ran(StripFn, a, t)>> \in R
  <2>. HIDE DEF R
  <2>. QED
    BY <1>1, <1>3, RanPaired DEF Bytes
<1>. QED
  BY <1>4 DEF Shifted

LEMMA StripGrows ==
  ASSUME NEW a \in Strips, NEW t \in Bytes
  PROVE  \E u \in Bytes : Ran(StripFn, a, t).text = a.text \o u
<1>1. PICK e \in Strips : e = [st |-> a.st, text |-> <<>>]
  BY ByteSeqs DEF Strips
<1>2. a.text \in Bytes /\ a.text \o <<>> = a.text
  BY ByteSeqs, Joining DEF Strips
<1>3. Ran(StripFn, a, t).text = a.text \o Ran(StripFn, e, t).text
  <2>1. Shifted(a.text, e, a)
    BY <1>1, <1>2 DEF Shifted
  <2>2. Shifted(a.text, Ran(StripFn, e, t), Ran(StripFn, a, t))
    BY <1>2, <2>1, StripShift
  <2>. QED
    BY <2>2 DEF Shifted
<1>4. Ran(StripFn, e, t) \in Strips
  <2>1. Scans(Strips, Byte, StripFn, e, t)
    BY StripTyped DEF Scans, Bytes
  <2>. QED
    BY <2>1, RanIn
<1>. QED
  BY <1>3, <1>4 DEF Strips

(* An ESC that is held back reports and erases nothing.                    *)
LEMMA HeldSaysNothing ==
  ASSUME NEW F \in Bytes, NEW st
  PROVE  /\ Ran(OscFn, OscStart, F \o Held(st)).cwd = Ran(OscFn, OscStart, F).cwd
         /\ Read!Found(F \o Held(st)) = Read!Found(F)
<1>1. CASE st # "esc"
  <2>1. F \o <<>> = F
    BY ByteSeqs, Joining
  <2>. QED
    BY <1>1, <2>1 DEF Held
<1>2. CASE st = "esc"
  <2>0. "E" \in Byte
    BY DEF Byte
  <2>1. F \o <<"E">> = Append(F, "E")
    BY <2>0, TwoAppended
  <2>2. Scans(Oscs, Byte, OscFn, OscStart, F)
    BY OscTyped, Starts DEF Scans, Bytes
  <2>3. PICK o \in Oscs : o = Ran(OscFn, OscStart, F)
    BY <2>2, RanIn
  <2>4. Ran(OscFn, OscStart, Append(F, "E")) = Read!Osc7Byte(o, "E")
    <3>1. \A y \in Byte : Ran(OscFn, OscStart, Append(F, y)) = OscFn[<<Ran(OscFn, OscStart, F), y>>]
      BY <2>2, RanAppend
    <3>2. OscFn[<<o, "E">>] = Read!Osc7Byte(o, "E")
      BY <2>0, OscTyped
    <3>. QED
      BY <2>0, <2>3, <3>1, <3>2
  <2>5. OscStep(o, "E", Read!Osc7Byte(o, "E"))
    BY <2>0, OscIs
  <2>6. Read!Osc7Byte(o, "E").cwd = o.cwd
    BY <2>5 DEF OscStep, Oscs
  <2>7. Read!Found(F \o <<"E">>) = Read!Found(F)
    <3>1. Read!Lone \in Read!Pieces /\ Read!Lone.text = <<"E">> /\ Read!Lone.erases = 0
      BY DEF Read!Pieces, Read!Lone, Read!Text, Read!Piece
    <3>2. PICK p \in Read!Pieces : p = Read!Lone
      BY <3>1
    <3>3. Read!Found(F \o p.text) = Read!Found(F) + p.erases
      BY FoundPiece
    <3>. QED
      BY <3>1, <3>2, <3>3, FoundIn
  <2>. QED
    BY <1>2, <2>1, <2>3, <2>4, <2>6, <2>7 DEF Held
<1>. QED
  BY <1>1, <1>2

(* Half a character at the end waits; nothing before it is lost.           *)
LEMMA WholeKept ==
  ASSUME NEW t \in Bytes, t # <<>> => t[1] # "v", \A i \in 1 .. Len(t) - 1 : t[i] = "u" <=> t[i + 1] = "v"
  PROVE  LET w == Read!Whole(t)
         IN  /\ w \in 0 .. Len(t)
             /\ Read!Lossy(SubSeq(t, 1, w)) = SubSeq(t, 1, w)
             /\ SubSeq(t, w + 1, Len(t)) \in {<<>>, <<"u">>}
             /\ w > 0 => t[w] # "u"
<1>1. Len(t) \in Nat /\ t \in Seq(Byte) /\ Head(t) = t[1] /\ Read!Last(t) = t[Len(t)]
  BY DEF Bytes, Read!Last
<1>2. PICK w : w = Read!Whole(t)
  OBVIOUS
<1>3. Read!Halved(t) <=> t # <<>> /\ t[Len(t)] = "u"
  BY <1>1 DEF Read!Halved
<1>4. w \in 0 .. Len(t) /\ (w > 0 => t[w] # "u")
      /\ (w = Len(t) \/ (w = Len(t) - 1 /\ t[Len(t)] = "u"))
  <2>1. CASE t # <<>> /\ t[Len(t)] = "u"
    <3>1. w = Len(t) - 1 /\ Len(t) > 0
      BY <1>1, <1>2, <1>3, <2>1 DEF Read!Whole
    <3>2. w > 0 => w \in 1 .. Len(t) - 1 /\ t[w + 1] = "u"
      BY <1>1, <2>1, <3>1
    <3>. QED
      BY <1>1, <2>1, <3>1, <3>2
  <2>2. CASE ~(t # <<>> /\ t[Len(t)] = "u")
    <3>1. w = Len(t)
      BY <1>2, <1>3, <2>2 DEF Read!Whole
    <3>. QED
      BY <1>1, <2>2, <3>1
  <2>. QED
    BY <2>1, <2>2
<1>5. PICK s : s = SubSeq(t, 1, w)
  OBVIOUS
<1>6. s \in Bytes /\ Len(s) = w /\ \A k \in 1 .. w : s[k] = t[k]
  <2>1. \A k \in 1 .. w : t[k] \in Byte
    BY <1>1, <1>4
  <2>. QED
    BY <1>1, <1>4, <1>5, <2>1, SubSeqProperties DEF Bytes
<1>7. Read!Lossy(s) = s
  <2>1. ASSUME NEW i \in 1 .. w
        PROVE  ~(s[i] = "u" /\ (i = w \/ s[i + 1] # "v")) /\ ~(s[i] = "v" /\ (i = 1 \/ s[i - 1] # "u"))
    <3>1. s[i] = t[i] /\ (i < w => s[i + 1] = t[i + 1]) /\ (i > 1 => s[i - 1] = t[i - 1])
      BY <1>1, <1>4, <1>6
    <3>2. i < w => (t[i] = "u" => t[i + 1] = "v")
      BY <1>1, <1>4
    <3>3. i > 1 => (t[i] = "v" => t[i - 1] = "u")
      <4>. SUFFICES ASSUME i > 1 PROVE t[i] = "v" => t[i - 1] = "u"
        OBVIOUS
      <4>1. i - 1 \in 1 .. Len(t) - 1 /\ (i - 1) + 1 = i
        BY <1>1, <1>4
      <4>. QED
        BY <4>1
    <3>4. t # <<>>
      BY <1>1, <1>4
    <3>. QED
      BY <1>4, <3>1, <3>2, <3>3, <3>4
  <2>2. DOMAIN s = 1 .. w /\ s = [i \in DOMAIN s |-> s[i]]
    BY <1>6 DEF Bytes
  <2>3. Read!Lossy(s) = [i \in DOMAIN s |-> s[i]]
    BY <1>6, <2>1, <2>2 DEF Read!Lossy
  <2>. QED
    BY <2>2, <2>3
<1>8. SubSeq(t, w + 1, Len(t)) \in {<<>>, <<"u">>}
  <2>1. CASE w = Len(t)
    <3>1. Len(t) < w + 1 /\ w + 1 \in Int /\ Len(t) \in Int
      BY <1>1, <2>1
    <3>2. SubSeq(t, w + 1, Len(t)) = <<>>
      BY <3>1, SubSeqEmpty
    <3>. QED
      BY <3>2
  <2>2. CASE w = Len(t) - 1 /\ t[Len(t)] = "u"
    <3>0. w + 1 \in Int /\ Len(t) \in Int /\ w + 1 = Len(t) /\ Len(t) \in 1 .. Len(t)
      BY <1>1, <1>4, <2>2
    <3>1. \A k \in w + 1 .. Len(t) : t[k] \in Byte
      BY <1>1, <1>4
    <3>2. PICK q : q = SubSeq(t, w + 1, Len(t))
      OBVIOUS
    <3>3. q \in Seq(Byte) /\ Len(q) = 1 /\ q[1] = "u"
      <4>1. q \in Seq(Byte) /\ Len(q) = (IF w + 1 <= Len(t) THEN Len(t) - (w + 1) + 1 ELSE 0)
            /\ \A i \in 1 .. Len(t) - (w + 1) + 1 : q[i] = t[(w + 1) + i - 1]
        BY <3>0, <3>1, <3>2, SubSeqProperties
      <4>. QED
        BY <2>2, <3>0, <4>1
    <3>4. q = <<"u">>
      BY <3>3
    <3>. QED
      BY <3>2, <3>4
  <2>. QED
    BY <1>4, <2>1, <2>2
<1>. QED
  BY <1>2, <1>4, <1>5, <1>7, <1>8

(* The end of a read closes the run under way.                             *)
LEMMA LinkedClose ==
  ASSUME NEW x \in Splits, NEW t \in Terms, NEW a \in Heards, Linked(x, Ran(ProcessFn, t, x.segs), a)
  PROVE  LET c == Read!CloseRun(x)
             p == Ran(ProcessFn, t, c.segs)
         IN  c \in Splits /\ c.st = a.st /\ c.body = a.body /\ p.fed = a.fed /\ p.bodies = a.bodies
<1>0. ProcessFn \in [Terms \X TextRun -> Terms]
  BY ProcessTyped
<1>1. PICK c \in Splits : c = Read!CloseRun(x)
  BY CloseIs
<1>2. c.st = x.st /\ c.body = x.body
      /\ c.segs = IF x.run = <<>> THEN x.segs ELSE Append(x.segs, [text |-> x.run, body |-> <<>>])
  BY <1>1, CloseIs
<1>3. Scans(Terms, TextRun, ProcessFn, t, x.segs)
  BY <1>0 DEF Scans, Splits
<1>4. PICK q \in Terms : q = Ran(ProcessFn, t, x.segs)
  BY <1>3, RanIn
<1>5. x.st = a.st /\ x.body = a.body /\ q.fed \o x.run = a.fed /\ q.bodies = a.bodies
  BY <1>4 DEF Linked
<1>6. CASE x.run = <<>>
  <2>1. q.fed \o <<>> = q.fed
    BY ByteSeqs, Joining DEF Terms
  <2>. QED
    BY <1>1, <1>2, <1>4, <1>5, <1>6, <2>1
<1>7. CASE x.run # <<>>
  <2>1. PICK g \in TextRun : g = [text |-> x.run, body |-> <<>>]
    BY ByteSeqs DEF Splits, TextRun
  <2>2. Ran(ProcessFn, t, Append(x.segs, g)) = ProcessFn[<<q, g>>]
    BY <1>3, <1>4, RanAppend
  <2>3. PICK p \in Terms : p = Read!Process(q, g)
    BY ProcessTyped
  <2>4. ProcessFn[<<q, g>>] = p
    BY <2>3, ProcessTyped
  <2>5. ProcessStep(q, g, p)
    BY <2>3, ProcessIs
  <2>6. p.bodies = q.bodies /\ p.fed = q.fed \o x.run
    BY <1>7, <2>1, <2>5 DEF ProcessStep
  <2>7. c.segs = Append(x.segs, g)
    BY <1>2, <1>7, <2>1
  <2>. QED
    BY <1>1, <1>2, <1>5, <2>2, <2>4, <2>6, <2>7
<1>. QED
  BY <1>6, <1>7

(* The state is what one read of all that was read would leave: of the     *)
(* splitter what it hands on, of the scanners what they make of the text   *)
(* they were fed, of the stripper its text, half a character of it held.   *)
Gone == SubSeq(Read!All(out).bytes, 1, pos)

Scan == [bodies |-> bodies, fed |-> fed, osc7 |-> osc7, erased |-> erased, cut |-> cut]

SplitAsWhole(a) == split.st = a.st /\ split.body = a.body /\ fed = a.fed /\ bodies = a.bodies

StripAsWhole(s) ==
  /\ strip.st = s.st /\ kept \o strip.pending = s.text /\ kept \in Bytes
  /\ strip.pending \in {<<>>, <<"u">>} /\ (kept # <<>> => kept[Len(kept)] # "u")

StreamInv ==
  /\ out \in Seq(Read!Pieces) /\ pos \in 0 .. Len(Read!All(out).bytes)
  /\ SplitAsWhole(Ran(HearFn, HeardStart, Gone))
  /\ Scan \in Scanned
  /\ Read!Lone \notin Read!ToSet(out) => StripAsWhole(Ran(StripFn, StripStart, Gone))

LEMMA SentTyped ==
  ASSUME BodiesFit, NEW ps \in Seq(Read!Pieces)
  PROVE  Read!All(ps) \in Sums /\ Read!All(ps).bytes \in Bytes /\ Len(Read!All(ps).bytes) \in Nat
<1>1. Read!All(ps) \in Sums
  BY AllMeant DEF AsMeant
<1>. QED
  BY <1>1 DEF Sums, Bytes

LEMMA StreamInit == ASSUME BodiesFit, Read!Init PROVE StreamInv
<1>1. out \in Seq(Read!Pieces)
  BY DEF Read!Init
<1>2. pos = 0 /\ split = [st |-> "ground", body |-> <<>>] /\ osc7 = OscStart
      /\ strip = [st |-> "none", pending |-> <<>>] /\ bodies = <<>> /\ fed = <<>> /\ erased = 0 /\ cut = 0 /\ kept = <<>>
  BY DEF Read!Init, OscStart
<1>3. pos \in 0 .. Len(Read!All(out).bytes) /\ Gone = <<>>
  <2>1. Len(Read!All(out).bytes) \in Nat
    BY <1>1, SentTyped
  <2>2. SubSeq(Read!All(out).bytes, 1, 0) = <<>>
    BY SubSeqEmpty
  <2>. QED
    BY <1>2, <2>1, <2>2 DEF Gone
<1>4. Ran(HearFn, HeardStart, <<>>) = HeardStart
  <2>1. Scans(Heards, Byte, HearFn, HeardStart, <<>>)
    BY HearTyped, Starts DEF Scans
  <2>. QED
    BY <2>1, RanEmpty
<1>5. Ran(StripFn, StripStart, <<>>) = StripStart
  <2>1. Scans(Strips, Byte, StripFn, StripStart, <<>>)
    BY StripTyped, Starts DEF Scans
  <2>. QED
    BY <2>1, RanEmpty
<1>6. SplitAsWhole(HeardStart)
  BY <1>2 DEF SplitAsWhole, HeardStart
<1>7. StripAsWhole(StripStart)
  BY <1>2, ByteSeqs, Joining DEF StripAsWhole, StripStart
<1>8. Scan \in Scanned
  <2>0. <<>> \in Seq(Bytes) /\ <<>> \in Bytes /\ osc7 \in Oscs
    BY <1>2, Starts, ByteSeqs
  <2>1. PICK t \in Terms : t = Scan
    BY <1>2, <2>0 DEF Scan, Terms
  <2>2. t.fed = <<>> /\ t.osc7 = OscStart /\ t.erased = 0 /\ t.cut = 0
    BY <1>2, <2>1 DEF Scan
  <2>3. Ran(OscFn, OscStart, <<>>) = OscStart
    <3>1. Scans(Oscs, Byte, OscFn, OscStart, <<>>)
      BY OscTyped, Starts DEF Scans
    <3>. QED
      BY <3>1, RanEmpty
  <2>4. Read!Found(<<>>) = 0 /\ TailOf(<<>>) = 0
    <3>1. /\ Read!Erasures(<<>>) = {i \in 1 .. Len(<<>>) - 3 : ErasedAt(<<>>, i)} /\ Len(<<>>) = 0
          /\ Read!CutAt(<<>>) <=> \E n \in 1 .. 3 : EndsWith(<<>>, n)
      BY Spelt, ByteSeqs
    <3>2. Read!Erasures(<<>>) = {}
      BY <3>1
    <3>3. ~Read!CutAt(<<>>)
      BY <3>1 DEF EndsWith
    <3>. QED
      BY <3>2, <3>3, FoundCounts, FS_EmptySet DEF TailOf
  <2>. QED
    BY <2>1, <2>2, <2>3, <2>4 DEF Scanned
<1>. QED
  BY <1>1, <1>3, <1>4, <1>5, <1>6, <1>7, <1>8 DEF StreamInv

StripTurn(w, q, s, bytes, d, p, k, h) ==
  /\ w \in Bytes /\ Paired(w) /\ q \in Bytes /\ w = d.text \o q
  /\ s \in Strips /\ StripAsWhole(s) /\ bytes \in Bytes /\ d \in Strips /\ d = Ran(StripFn, s, bytes)
  /\ p = Read!FoldLeft(Read!StripByte, [st |-> strip.st, text |-> strip.pending], bytes)
  /\ k = kept \o Read!Lossy(SubSeq(p.text, 1, Read!Whole(p.text)))
  /\ h = SubSeq(p.text, Read!Whole(p.text) + 1, Len(p.text))

LEMMA StripRead ==
  ASSUME NEW w, NEW q, NEW s, NEW bytes, NEW d, NEW p, NEW k, NEW h, StripTurn(w, q, s, bytes, d, p, k, h)
  PROVE  p.st = d.st /\ k \o h = d.text /\ k \in Bytes /\ h \in {<<>>, <<"u">>} /\ (k # <<>> => k[Len(k)] # "u")
<1>. /\ w \in Bytes /\ Paired(w) /\ q \in Bytes /\ w = d.text \o q
     /\ s \in Strips /\ StripAsWhole(s) /\ bytes \in Bytes /\ d \in Strips /\ d = Ran(StripFn, s, bytes)
     /\ p = Read!FoldLeft(Read!StripByte, [st |-> strip.st, text |-> strip.pending], bytes)
     /\ k = kept \o Read!Lossy(SubSeq(p.text, 1, Read!Whole(p.text)))
     /\ h = SubSeq(p.text, Read!Whole(p.text) + 1, Len(p.text))
  BY DEF StripTurn
<1>1. strip.st = s.st /\ kept \o strip.pending = s.text /\ kept \in Bytes /\ strip.pending \in Bytes
      /\ (kept # <<>> => kept[Len(kept)] # "u")
  <2>1. <<>> \in Bytes /\ <<"u">> \in Bytes
    BY DEF Bytes, Byte
  <2>. QED
    BY <2>1 DEF StripAsWhole
<1>2. PICK b \in Strips : b = [st |-> strip.st, text |-> strip.pending]
  BY <1>1 DEF Strips
<1>3. p = Ran(StripFn, b, bytes)
  BY <1>2, StripFold DEF Bytes
<1>4. p \in Strips /\ p.text \in Bytes
  <2>1. Scans(Strips, Byte, StripFn, b, bytes)
    BY StripTyped DEF Scans, Bytes
  <2>2. Ran(StripFn, b, bytes) \in Strips
    BY <2>1, RanIn
  <2>. QED
    BY <1>3, <2>2 DEF Strips
<1>5. p.st = d.st /\ d.text = kept \o p.text
  <2>1. Shifted(kept, b, s)
    BY <1>1, <1>2 DEF Shifted
  <2>2. Shifted(kept, Ran(StripFn, b, bytes), Ran(StripFn, s, bytes))
    BY <1>1, <2>1, StripShift
  <2>. QED
    BY <1>3, <2>2 DEF Shifted
<1>6. PICK t \in Bytes : t = p.text
  BY <1>4
<1>7. PICK m \in Nat : m = Len(kept)
  BY <1>1 DEF Bytes
<1>8. PICK r \in Bytes : r = kept \o t
  BY <1>1, ByteSeqs
<1>9. /\ Len(r) = m + Len(t) /\ Len(t) \in Nat /\ (\A i \in 1 .. m : r[i] = kept[i])
      /\ \A i \in 1 .. Len(t) : r[m + i] = t[i]
  BY <1>1, <1>7, <1>8, JoinedBytes
<1>10. Len(w) = Len(r) + Len(q) /\ Len(q) \in Nat /\ \A i \in 1 .. Len(r) : w[i] = r[i]
  <2>1. w = r \o q
    BY <1>5, <1>6, <1>8
  <2>2. Len(r \o q) = Len(r) + Len(q) /\ Len(q) \in Nat /\ \A i \in 1 .. Len(r) : (r \o q)[i] = r[i]
    BY JoinedBytes
  <2>. QED
    BY <2>1, <2>2
<1>11. t # <<>> => t[1] # "v"
  <2>. SUFFICES ASSUME t # <<>>, t[1] = "v" PROVE FALSE
    OBVIOUS
  <2>1. Len(t) > 0
    BY <1>9 DEF Bytes
  <2>2. m + 1 \in 1 .. Len(w) /\ w[m + 1] = "v"
    <3>1. m + 1 \in 1 .. Len(r) /\ 1 \in 1 .. Len(t)
      BY <1>9, <2>1
    <3>2. r[m + 1] = t[1] /\ w[m + 1] = r[m + 1]
      BY <1>9, <1>10, <3>1
    <3>3. m + 1 \in 1 .. Len(w)
      BY <1>7, <1>9, <1>10, <3>1
    <3>4. w[m + 1] = "v"
      BY <3>2
    <3>. QED
      BY <3>3, <3>4
  <2>3. m + 1 > 1 /\ w[(m + 1) - 1] = "u"
    BY <2>2 DEF Paired
  <2>4. m \in 1 .. m /\ kept[m] = "u"
    BY <1>9, <1>10, <2>3
  <2>. QED
    BY <1>1, <1>7, <2>4
<1>12. \A i \in 1 .. Len(t) - 1 : t[i] = "u" <=> t[i + 1] = "v"
  <2>. TAKE i \in 1 .. Len(t) - 1
  <2>1. /\ m + i \in 1 .. Len(w) /\ (m + i) + 1 \in 1 .. Len(w) /\ ((m + i) + 1) - 1 = m + i
        /\ m + (i + 1) = (m + i) + 1 /\ i \in 1 .. Len(t) /\ i + 1 \in 1 .. Len(t)
    BY <1>9, <1>10
  <2>2. w[m + i] = t[i] /\ w[(m + i) + 1] = t[i + 1]
    <3>1. m + i \in 1 .. Len(r) /\ (m + i) + 1 \in 1 .. Len(r)
      BY <1>9
    <3>2. r[m + i] = t[i] /\ r[m + (i + 1)] = t[i + 1]
      BY <1>9, <2>1
    <3>3. w[m + i] = r[m + i] /\ w[(m + i) + 1] = r[(m + i) + 1]
      BY <1>10, <3>1
    <3>. QED
      BY <2>1, <3>2, <3>3
  <2>3. /\ w[m + i] = "u" => w[(m + i) + 1] = "v"
        /\ w[(m + i) + 1] = "v" => w[m + i] = "u"
    BY <2>1 DEF Paired
  <2>. QED
    BY <2>2, <2>3
<1>13. PICK e : e = Read!Whole(t)
  OBVIOUS
<1>14. /\ e \in 0 .. Len(t) /\ Read!Lossy(SubSeq(t, 1, e)) = SubSeq(t, 1, e)
       /\ SubSeq(t, e + 1, Len(t)) \in {<<>>, <<"u">>} /\ (e > 0 => t[e] # "u")
  BY <1>11, <1>12, <1>13, WholeKept
<1>15. PICK l : l = Len(t) - e
  OBVIOUS
<1>16. /\ SubSeq(t, 1, e) \in Bytes /\ Len(SubSeq(t, 1, e)) = e /\ SubSeq(t, e + 1, Len(t)) \in Bytes
       /\ SubSeq(t, 1, Len(t)) = SubSeq(t, 1, e) \o SubSeq(t, e + 1, Len(t))
  <2>1. l \in Nat /\ e + l = Len(t) /\ e + l <= Len(t)
    BY <1>9, <1>14, <1>15
  <2>2. /\ SubSeq(t, 1, e) \in Bytes /\ Len(SubSeq(t, 1, e)) = e /\ SubSeq(t, e + 1, e + l) \in Bytes
        /\ SubSeq(t, 1, e + l) = SubSeq(t, 1, e) \o SubSeq(t, e + 1, e + l)
    BY <1>14, <2>1, Parts
  <2>. QED
    BY <2>1, <2>2
<1>17. PICK f \in Bytes : f = SubSeq(t, 1, e)
  BY <1>16
<1>18. k = kept \o f /\ h = SubSeq(t, e + 1, Len(t)) /\ h \in Bytes /\ h \in {<<>>, <<"u">>} /\ f \o h = t
  <2>1. SubSeq(t, 1, Len(t)) = t
    BY SubSeqFull DEF Bytes
  <2>. QED
    BY <1>6, <1>13, <1>14, <1>16, <1>17, <2>1
<1>19. k \in Bytes /\ k \o h = kept \o t
  <2>1. \A v \in Bytes : (kept \o f) \o v = kept \o (f \o v)
    BY <1>1, Joining
  <2>2. (kept \o f) \o h = kept \o (f \o h)
    BY <1>18, <2>1
  <2>. QED
    BY <1>1, <1>18, <2>2, ByteSeqs
<1>20. k # <<>> => k[Len(k)] # "u"
  <2>1. CASE e = 0
    <3>1. f = <<>>
      BY <1>16, <1>17, <2>1 DEF Bytes
    <3>2. k = kept
      BY <1>1, <1>18, <3>1, Joining
    <3>. QED
      BY <1>1, <3>2
  <2>2. CASE e > 0
    <3>1. f[e] = t[e]
      <4>1. \A i \in 1 .. e : t[i] \in Byte
        BY <1>9, <1>14 DEF Bytes
      <4>2. \A i \in 1 .. e - 1 + 1 : f[i] = t[1 + i - 1]
        BY <1>14, <1>17, <4>1, SubSeqProperties
      <4>. QED
        BY <1>9, <1>14, <2>2, <4>2
    <3>2. Len(k) = m + Len(f) /\ \A i \in 1 .. Len(f) : k[m + i] = f[i]
      <4>1. PICK v \in Bytes : v = kept \o f
        BY <1>1, ByteSeqs
      <4>2. Len(v) = Len(kept) + Len(f) /\ \A i \in 1 .. Len(f) : v[Len(kept) + i] = f[i]
        BY <1>1, <4>1, JoinedBytes
      <4>. QED
        BY <1>7, <1>18, <4>1, <4>2
    <3>3. Len(f) = e /\ k[m + e] = f[e] /\ Len(k) = m + e
      BY <1>14, <1>16, <1>17, <2>2, <3>2
    <3>. QED
      BY <1>14, <2>2, <3>1, <3>3
  <2>. QED
    BY <1>9, <1>14, <2>1, <2>2
<1>. QED
  BY <1>5, <1>6, <1>18, <1>19, <1>20

LEMMA Rest ==
  ASSUME NEW w \in Bytes, NEW i \in 0 .. Len(w)
  PROVE  \E rest \in Bytes : w = SubSeq(w, 1, i) \o rest /\ (i = Len(w) => rest = <<>>)
<1>1. Len(w) \in Nat /\ i \in Nat
  BY DEF Bytes
<1>2. PICK n \in Nat : i + n = Len(w)
  <2>1. Len(w) - i \in Nat /\ i + (Len(w) - i) = Len(w)
    BY <1>1
  <2>. QED
    BY <2>1
<1>3. /\ SubSeq(w, i + 1, i + n) \in Bytes /\ Len(SubSeq(w, i + 1, i + n)) = n
      /\ SubSeq(w, 1, i + n) = SubSeq(w, 1, i) \o SubSeq(w, i + 1, i + n)
  <2>1. i + n <= Len(w)
    BY <1>1, <1>2
  <2>. QED
    BY <2>1, Parts
<1>4. SubSeq(w, 1, Len(w)) = w
  BY SubSeqFull DEF Bytes
<1>5. PICK r \in Bytes : r = SubSeq(w, i + 1, i + n)
  BY <1>3
<1>6. i = Len(w) => r = <<>>
  BY <1>1, <1>2, <1>3, <1>5 DEF Bytes
<1>. QED
  BY <1>2, <1>3, <1>4, <1>5, <1>6

LEMMA StreamReads == ASSUME BodiesFit, StreamInv, NEW n \in Nat, Read!Read(n) PROVE StreamInv'
<1>1. out \in Seq(Read!Pieces) /\ pos \in 0 .. Len(Read!All(out).bytes) /\ SplitAsWhole(Ran(HearFn, HeardStart, Gone))
      /\ Scan \in Scanned /\ (Read!Lone \notin Read!ToSet(out) => StripAsWhole(Ran(StripFn, StripStart, Gone)))
  BY DEF StreamInv
<1>2. PICK w \in Bytes : w = Read!All(out).bytes
  BY <1>1, SentTyped
<1>3. PICK bytes : bytes = SubSeq(w, pos + 1, pos + n)
  OBVIOUS
<1>4. PICK s : s = Read!Splitted(bytes)
  OBVIOUS
<1>5. PICK t : t = Read!FoldLeft(Read!Process, Scan, s.segs)
  OBVIOUS
<1>6. PICK p : p = Read!FoldLeft(Read!StripByte, [st |-> strip.st, text |-> strip.pending], bytes)
  OBVIOUS
<1>7. PICK l : l = Read!Whole(p.text)
  OBVIOUS
<1>8. /\ pos + n <= Len(w) /\ pos' = pos + n /\ out' = out
      /\ split' = [st |-> s.st, body |-> s.body]
      /\ bodies' = t.bodies /\ fed' = t.fed /\ osc7' = t.osc7 /\ erased' = t.erased /\ cut' = t.cut
      /\ strip' = [st |-> p.st, pending |-> SubSeq(p.text, l + 1, Len(p.text))]
      /\ kept' = kept \o Read!Lossy(SubSeq(p.text, 1, l))
  BY <1>2, <1>3, <1>4, <1>5, <1>6, <1>7 DEF Read!Read, Scan
<1>9. PICK g \in Bytes : g = Gone
  <2>1. pos \in 0 .. Len(w) /\ 0 \in Nat /\ pos + 0 <= Len(w) /\ Len(w) \in Nat
    BY <1>1, <1>2 DEF Bytes
  <2>. QED
    BY <1>2, <2>1, Parts DEF Gone
<1>10. bytes \in Bytes /\ SubSeq(w, 1, pos + n) = g \o bytes /\ g \o bytes \in Bytes
  <2>1. pos \in 0 .. Len(w)
    BY <1>1, <1>2
  <2>2. SubSeq(w, pos + 1, pos + n) \in Bytes /\ SubSeq(w, 1, pos + n) = SubSeq(w, 1, pos) \o SubSeq(w, pos + 1, pos + n)
    BY <1>8, <2>1, Parts
  <2>. QED
    BY <1>2, <1>3, <1>9, <2>2, ByteSeqs DEF Gone
<1>11. PICK a \in Heards : a = Ran(HearFn, HeardStart, g)
  <2>1. Scans(Heards, Byte, HearFn, HeardStart, g)
    BY HearTyped, Starts DEF Scans, Bytes
  <2>. QED
    BY <2>1, RanIn
<1>12. PICK b \in Heards : b = Ran(HearFn, a, bytes) /\ b = Ran(HearFn, HeardStart, g \o bytes)
  <2>1. Scans(Heards, Byte, HearFn, HeardStart, g) /\ bytes \in Seq(Byte)
    BY <1>10, HearTyped, Starts DEF Scans, Bytes
  <2>2. Ran(HearFn, HeardStart, g \o bytes) = Ran(HearFn, Ran(HearFn, HeardStart, g), bytes)
    BY <2>1, RanJoined
  <2>3. Scans(Heards, Byte, HearFn, a, bytes)
    BY <2>1, HearTyped DEF Scans
  <2>4. Ran(HearFn, a, bytes) \in Heards
    BY <2>3, RanIn
  <2>. QED
    BY <1>11, <2>2, <2>4
<1>13. split.st = a.st /\ split.body = a.body /\ fed = a.fed /\ bodies = a.bodies
  BY <1>1, <1>9, <1>11 DEF SplitAsWhole
<1>14. PICK e \in Splits : e = [st |-> split.st, body |-> split.body, run |-> <<>>, segs |-> <<>>]
  <2>1. <<>> \in Bytes /\ <<>> \in Seq(TextRun)
    BY ByteSeqs
  <2>. QED
    BY <1>13, <2>1 DEF Splits, Heards
<1>15. PICK q \in Terms : q = Scan
  BY <1>1 DEF Scanned
<1>16. Linked(e, q, a)
  <2>1. fed \o <<>> = fed
    BY <1>13, ByteSeqs, Joining DEF Heards
  <2>. QED
    BY <1>13, <1>14, <1>15, <2>1 DEF Linked, Scan
<1>17. PICK x \in Splits : x = Ran(SplitFn, e, bytes)
  <2>1. Scans(Splits, Byte, SplitFn, e, bytes)
    BY <1>10, SplitTyped DEF Scans, Bytes
  <2>. QED
    BY <2>1, RanIn
<1>18. s = Read!CloseRun(x)
  <2>1. Read!FoldLeft(Read!SplitByte, e, bytes) = Ran(SplitFn, e, bytes)
    BY <1>10, SplitFold DEF Bytes
  <2>. QED
    BY <1>4, <1>14, <1>17, <2>1 DEF Read!Splitted
<1>19. Linked(x, Ran(ProcessFn, q, x.segs), b)
  <2>1. e.segs = <<>>
    BY <1>14
  <2>. QED
    BY <1>10, <1>12, <1>16, <1>17, <2>1, LinkedRead
<1>20. s \in Splits /\ s.st = b.st /\ s.body = b.body
       /\ Ran(ProcessFn, q, s.segs).fed = b.fed /\ Ran(ProcessFn, q, s.segs).bodies = b.bodies
  BY <1>18, <1>19, LinkedClose
<1>21. t = Ran(ProcessFn, q, s.segs) /\ t \in Scanned /\ t \in Terms
  <2>1. s.segs \in Seq(TextRun)
    BY <1>20 DEF Splits
  <2>2. PICK segs \in Seq(TextRun) : segs = s.segs
    BY <2>1
  <2>3. Read!FoldLeft(Read!Process, q, segs) = Ran(ProcessFn, q, segs)
    BY ProcessFold
  <2>4. q \in Scanned
    BY <1>1, <1>15
  <2>5. Ran(ProcessFn, q, segs) \in Scanned
    BY <2>4, AllScanned
  <2>. QED
    BY <1>5, <1>15, <2>2, <2>3, <2>5 DEF Scanned
<1>22. Scan' \in Scanned
  <2>1. Scan' = [bodies |-> t.bodies, fed |-> t.fed, osc7 |-> t.osc7, erased |-> t.erased, cut |-> t.cut]
    BY <1>8 DEF Scan
  <2>2. t = [bodies |-> t.bodies, fed |-> t.fed, osc7 |-> t.osc7, erased |-> t.erased, cut |-> t.cut]
    BY <1>21 DEF Terms
  <2>. QED
    BY <1>21, <2>1, <2>2
<1>23. Gone' = g \o bytes
  <2>1. Read!All(out') = Read!All(out)
    BY <1>8
  <2>. QED
    BY <1>2, <1>8, <1>10, <2>1 DEF Gone
<1>24. SplitAsWhole(Ran(HearFn, HeardStart, Gone))'
  <2>1. split'.st = b.st /\ split'.body = b.body /\ fed' = b.fed /\ bodies' = b.bodies
    BY <1>8, <1>20, <1>21
  <2>. QED
    BY <1>12, <1>23, <2>1 DEF SplitAsWhole
<1>25. ASSUME Read!Lone \notin Read!ToSet(out) PROVE StripAsWhole(Ran(StripFn, StripStart, Gone))'
  <2>1. Read!All(out) \in Stripped
    BY <1>1, <1>25, AllStripped
  <2>2. PICK z \in Strips : z = Ran(StripFn, StripStart, g)
    <3>1. Scans(Strips, Byte, StripFn, StripStart, g)
      BY StripTyped, Starts DEF Scans, Bytes
    <3>. QED
      BY <3>1, RanIn
  <2>3. StripAsWhole(z)
    BY <1>1, <1>9, <1>25, <2>2
  <2>4. PICK d \in Strips : d = Ran(StripFn, z, bytes) /\ d = Ran(StripFn, StripStart, g \o bytes)
    <3>1. Scans(Strips, Byte, StripFn, StripStart, g) /\ bytes \in Seq(Byte)
      BY <1>10, StripTyped, Starts DEF Scans, Bytes
    <3>2. Ran(StripFn, StripStart, g \o bytes) = Ran(StripFn, Ran(StripFn, StripStart, g), bytes)
      BY <3>1, RanJoined
    <3>3. Scans(Strips, Byte, StripFn, z, bytes)
      BY <3>1, StripTyped DEF Scans
    <3>4. Ran(StripFn, z, bytes) \in Strips
      BY <3>3, RanIn
    <3>. QED
      BY <2>2, <3>2, <3>4
  <2>5. PICK plain \in Bytes : plain = Read!All(out).plain
    BY <2>1 DEF Stripped, Sums
  <2>6. Paired(plain) /\ plain = Ran(StripFn, StripStart, w).text
    BY <1>2, <2>1, <2>5 DEF Stripped
  <2>7. PICK rest \in Bytes : w = (g \o bytes) \o rest
    <3>1. pos + n \in 0 .. Len(w)
      BY <1>1, <1>2, <1>8
    <3>2. \E rest \in Bytes : w = SubSeq(w, 1, pos + n) \o rest
      BY <3>1, Rest
    <3>. QED
      BY <1>10, <3>2
  <2>8. PICK v \in Bytes : Ran(StripFn, d, rest).text = d.text \o v
    BY StripGrows
  <2>9. plain = d.text \o v
    <3>1. Scans(Strips, Byte, StripFn, StripStart, g \o bytes) /\ rest \in Seq(Byte)
      BY <1>10, StripTyped, Starts DEF Scans, Bytes
    <3>2. Ran(StripFn, StripStart, (g \o bytes) \o rest) = Ran(StripFn, Ran(StripFn, StripStart, g \o bytes), rest)
      BY <3>1, RanJoined
    <3>. QED
      BY <2>4, <2>6, <2>7, <2>8, <3>2
  <2>10. PICK k : k = kept'
    OBVIOUS
  <2>11. PICK h : h = strip'.pending
    OBVIOUS
  <2>12. k = kept \o Read!Lossy(SubSeq(p.text, 1, Read!Whole(p.text))) /\ h = SubSeq(p.text, Read!Whole(p.text) + 1, Len(p.text))
         /\ strip'.st = p.st
    BY <1>7, <1>8, <2>10, <2>11
  <2>13. p.st = d.st /\ k \o h = d.text /\ k \in Bytes /\ h \in {<<>>, <<"u">>} /\ (k # <<>> => k[Len(k)] # "u")
    <3>1. StripTurn(plain, v, z, bytes, d, p, k, h)
      BY <1>6, <1>10, <2>3, <2>4, <2>6, <2>9, <2>12 DEF StripTurn
    <3>. QED
      BY <3>1, StripRead
  <2>. QED
    BY <1>23, <2>4, <2>10, <2>11, <2>12, <2>13 DEF StripAsWhole
<1>26. out' \in Seq(Read!Pieces) /\ pos' \in 0 .. Len(Read!All(out').bytes)
  BY <1>1, <1>2, <1>8
<1>. QED
  BY <1>8, <1>22, <1>24, <1>25, <1>26 DEF StreamInv

LEMMA StreamRests == ASSUME StreamInv, UNCHANGED readVars PROVE StreamInv'
<1>1. out' = out /\ pos' = pos /\ split' = split /\ osc7' = osc7 /\ strip' = strip /\ bodies' = bodies /\ fed' = fed
      /\ erased' = erased /\ cut' = cut /\ kept' = kept
  BY DEF readVars
<1>2. Gone' = Gone /\ Scan' = Scan
  BY <1>1 DEF Gone, Scan
<1>. QED
  BY <1>1, <1>2 DEF StreamInv, SplitAsWhole, StripAsWhole

LEMMA StreamKeepsAll == ASSUME BodiesFit, StreamInv PROVE Read!SplitKeepsAll
<1>1. out \in Seq(Read!Pieces) /\ pos \in 0 .. Len(Read!All(out).bytes) /\ SplitAsWhole(Ran(HearFn, HeardStart, Gone))
  BY DEF StreamInv
<1>2. PICK w \in Bytes : w = Read!All(out).bytes
  BY <1>1, SentTyped
<1>3. PICK rest \in Bytes : w = Gone \o rest /\ (pos = Len(w) => rest = <<>>)
  BY <1>1, <1>2, Rest DEF Gone
<1>4. PICK g \in Bytes : g = Gone
  <2>1. pos \in 0 .. Len(w) /\ 0 \in Nat /\ pos + 0 <= Len(w) /\ Len(w) \in Nat
    BY <1>1, <1>2 DEF Bytes
  <2>. QED
    BY <1>2, <2>1, Parts DEF Gone
<1>5. Scans(Heards, Byte, HearFn, HeardStart, g) /\ rest \in Seq(Byte)
  BY HearTyped, Starts DEF Scans, Bytes
<1>6. PICK a \in Heards : a = Ran(HearFn, HeardStart, g)
  BY <1>5, RanIn
<1>7. Ran(HearFn, HeardStart, g \o rest) = Ran(HearFn, Ran(HearFn, HeardStart, g), rest)
  BY <1>5, RanJoined
<1>8. PICK b : b = Ran(HearFn, a, rest)
  OBVIOUS
<1>9. b = Ran(HearFn, HeardStart, w)
  BY <1>3, <1>4, <1>6, <1>7, <1>8
<1>10. Apart(b) /\ Heard(b) = Read!All(out).text /\ b.bodies = Read!All(out).bodies
  <2>1. Read!All(out) \in AsMeant
    BY <1>1, AllMeant
  <2>. QED
    BY <1>2, <1>9, <2>1 DEF AsMeant
<1>11. split.st = a.st /\ fed = a.fed /\ bodies = a.bodies /\ fed \in Bytes
  BY <1>1, <1>4, <1>6 DEF SplitAsWhole, Heards
<1>12. PICK u \in Bytes : b.fed = a.fed \o u
  BY <1>8, HearGrows
<1>13. Read!IsPrefix(fed, Read!All(out).text)
  <2>1. PICK h \in Bytes : h = Held(b.st)
    BY ByteSeqs DEF Held
  <2>2. u \o h \in Bytes /\ \A v \in Bytes : (fed \o u) \o v = fed \o (u \o v)
    BY <1>11, Joining, ByteSeqs
  <2>3. Read!All(out).text = (fed \o u) \o h
    BY <1>10, <1>11, <1>12, <2>1 DEF Heard
  <2>4. Read!All(out).text = fed \o (u \o h)
    BY <2>2, <2>3
  <2>. QED
    BY <1>11, <2>2, <2>4, PrefixOfJoined
<1>14. ASSUME Read!AllRead
       PROVE  bodies = Read!All(out).bodies /\ fed \o (IF split.st = "esc" THEN <<"E">> ELSE <<>>) = Read!All(out).text
  <2>1. rest = <<>>
    BY <1>2, <1>3, <1>14 DEF Read!AllRead
  <2>2. Scans(Heards, Byte, HearFn, a, <<>>)
    BY HearTyped DEF Scans
  <2>3. b = a
    BY <1>8, <2>1, <2>2, RanEmpty
  <2>. QED
    BY <1>10, <1>11, <2>3 DEF Heard, Held
<1>. QED
  BY <1>13, <1>14 DEF Read!SplitKeepsAll

LEMMA StreamMissesNothing == ASSUME BodiesFit, StreamInv, Read!SplitKeepsAll PROVE Read!ScansMissNothing
<1>. SUFFICES ASSUME Read!AllRead
              PROVE  /\ osc7.cwd = Read!All(out).dir
                     /\ erased <= Read!All(out).erases /\ Read!All(out).erases <= erased + cut
  BY DEF Read!ScansMissNothing
<1>1. out \in Seq(Read!Pieces) /\ Scan \in Scanned
  BY DEF StreamInv
<1>2. PICK t \in Scanned : t = Scan
  BY <1>1
<1>3. t.fed = fed /\ t.osc7 = osc7 /\ t.erased = erased /\ t.cut = cut /\ t \in Terms
  BY <1>2 DEF Scan, Scanned
<1>4. fed \in Bytes /\ erased \in Nat /\ cut \in Nat /\ osc7 = Ran(OscFn, OscStart, fed)
      /\ erased <= Read!Found(fed) /\ Read!Found(fed) + TailOf(fed) <= erased + cut
  BY <1>2, <1>3 DEF Scanned, Terms
<1>5. fed \o Held(split.st) = Read!All(out).text
  BY DEF Read!SplitKeepsAll, Held
<1>6. Ran(OscFn, OscStart, Read!All(out).text).cwd = osc7.cwd /\ Read!Found(Read!All(out).text) = Read!Found(fed)
  BY <1>4, <1>5, HeldSaysNothing
<1>7. Read!All(out) \in AsMeant
  BY <1>1, AllMeant
<1>8. Read!Found(fed) \in Nat /\ TailOf(fed) \in Nat
  BY <1>4, FoundIn DEF TailOf
<1>9. Ran(OscFn, OscStart, Read!All(out).text).cwd = Read!All(out).dir /\ Read!Found(Read!All(out).text) = Read!All(out).erases
  BY <1>7 DEF AsMeant
<1>. QED
  BY <1>4, <1>6, <1>8, <1>9

LEMMA StreamTranscribes == ASSUME BodiesFit, StreamInv PROVE Read!TranscriptIsText
<1>. SUFFICES ASSUME Read!Lone \notin Read!ToSet(out)
              PROVE  /\ Read!IsPrefix(kept, Read!All(out).plain)
                     /\ Read!AllRead => kept = Read!All(out).plain
  BY DEF Read!TranscriptIsText
<1>1. out \in Seq(Read!Pieces) /\ pos \in 0 .. Len(Read!All(out).bytes) /\ StripAsWhole(Ran(StripFn, StripStart, Gone))
  BY DEF StreamInv
<1>2. PICK w \in Bytes : w = Read!All(out).bytes
  BY <1>1, SentTyped
<1>3. PICK rest \in Bytes : w = Gone \o rest /\ (pos = Len(w) => rest = <<>>)
  BY <1>1, <1>2, Rest DEF Gone
<1>4. PICK g \in Bytes : g = Gone
  <2>1. pos \in 0 .. Len(w) /\ 0 \in Nat /\ pos + 0 <= Len(w) /\ Len(w) \in Nat
    BY <1>1, <1>2 DEF Bytes
  <2>. QED
    BY <1>2, <2>1, Parts DEF Gone
<1>5. Scans(Strips, Byte, StripFn, StripStart, g) /\ rest \in Seq(Byte)
  BY StripTyped, Starts DEF Scans, Bytes
<1>6. PICK s \in Strips : s = Ran(StripFn, StripStart, g)
  BY <1>5, RanIn
<1>7. Ran(StripFn, StripStart, g \o rest) = Ran(StripFn, Ran(StripFn, StripStart, g), rest)
  BY <1>5, RanJoined
<1>8. PICK u \in Bytes : Ran(StripFn, s, rest).text = s.text \o u
  BY StripGrows
<1>9. PICK plain \in Bytes : plain = Read!All(out).plain /\ Paired(plain) /\ plain = Ran(StripFn, StripStart, w).text
  <2>1. Read!All(out) \in Stripped
    BY <1>1, AllStripped
  <2>. QED
    BY <1>2, <2>1 DEF Stripped, Sums
<1>10. plain = s.text \o u
  BY <1>3, <1>4, <1>6, <1>7, <1>8, <1>9
<1>11. kept \o strip.pending = s.text /\ kept \in Bytes /\ strip.pending \in {<<>>, <<"u">>}
  BY <1>1, <1>4, <1>6 DEF StripAsWhole
<1>12. PICK h \in Bytes : h = strip.pending
  <2>1. <<>> \in Bytes /\ <<"u">> \in Bytes
    BY DEF Bytes, Byte
  <2>. QED
    BY <1>11, <2>1
<1>13. Read!IsPrefix(kept, plain)
  <2>1. h \o u \in Bytes /\ \A v \in Bytes : (kept \o h) \o v = kept \o (h \o v)
    BY <1>11, Joining, ByteSeqs
  <2>2. plain = (kept \o h) \o u
    BY <1>10, <1>11, <1>12
  <2>3. plain = kept \o (h \o u)
    BY <2>1, <2>2
  <2>. QED
    BY <1>11, <2>1, <2>3, PrefixOfJoined
<1>14. ASSUME Read!AllRead PROVE kept = plain
  <2>1. rest = <<>>
    BY <1>2, <1>3, <1>14 DEF Read!AllRead
  <2>2. Scans(Strips, Byte, StripFn, s, <<>>)
    BY StripTyped DEF Scans
  <2>3. Ran(StripFn, s, rest) = s
    BY <2>1, <2>2, RanEmpty
  <2>4. plain = kept \o h
    BY <1>3, <1>4, <1>6, <1>7, <1>9, <1>11, <1>12, <2>3
  <2>5. h # <<"u">>
    <3>. SUFFICES ASSUME h = <<"u">> PROVE FALSE
      OBVIOUS
    <3>1. Len(h) = 1 /\ h[1] = "u" /\ 1 \in 1 .. Len(h)
      OBVIOUS
    <3>2. Len(kept \o h) = Len(kept) + Len(h) /\ (kept \o h)[Len(kept) + 1] = h[1] /\ Len(kept) \in Nat
      BY <1>11, <3>1, JoinedBytes
    <3>3. PICK m \in Nat : m = Len(kept)
      BY <3>2
    <3>4. Len(plain) = m + 1 /\ plain[m + 1] = "u" /\ m + 1 \in 1 .. Len(plain)
      BY <2>4, <3>1, <3>2, <3>3
    <3>5. m + 1 < Len(plain)
      BY <1>9, <3>4 DEF Paired
    <3>. QED
      BY <3>3, <3>4, <3>5
  <2>6. h = <<>>
    BY <1>11, <1>12, <2>5
  <2>. QED
    BY <1>11, <2>4, <2>6, Joining
<1>. QED
  BY <1>9, <1>13, <1>14

LEMMA Streams == Spec => Read!Init /\ [][Read!Next]_readVars
<1>1. Init => Read!Init
  BY DEF Init
<1>2. [Next]_vars => [Read!Next]_readVars
  BY DEF Next, vars, doorVars, typedVars, channelVars, readVars, screenVars
<1>. QED
  BY <1>1, <1>2, PTL DEF Spec

(* Wherever the reads cut the output: text and commands reach the terminal *)
(* as they were said, the directory is the one reported last, no erasure   *)
(* is missed that the end of a run does not cut, and the transcript is the *)
(* text (graphics.rs:303-360, term.rs:181-324, record.rs:33-112).          *)
THEOREM ReadsMatterNot == Spec => []ReadsDoNotMatter
<1>1. BodiesFit
  BY TerminalAssumption DEF TerminalAssumption, BodiesFit
<1>2. Read!Init => StreamInv
  BY <1>1, StreamInit
<1>3. StreamInv /\ [Read!Next]_readVars => StreamInv'
  <2>. SUFFICES ASSUME StreamInv, [Read!Next]_readVars PROVE StreamInv'
    OBVIOUS
  <2>1. CASE Read!Next
    <3>1. PICK n \in 1 .. Len(Read!All(out).bytes) : Read!Read(n)
      BY <2>1 DEF Read!Next
    <3>2. Len(Read!All(out).bytes) \in Nat
      BY <1>1, SentTyped DEF StreamInv
    <3>3. n \in Nat
      BY <3>1, <3>2
    <3>. QED
      BY <1>1, <3>1, <3>3, StreamReads
  <2>2. CASE UNCHANGED readVars
    BY <2>2, StreamRests
  <2>. QED
    BY <2>1, <2>2
<1>4. StreamInv => ReadsDoNotMatter
  BY <1>1, StreamKeepsAll, StreamMissesNothing, StreamTranscribes DEF ReadsDoNotMatter
<1>. QED
  BY <1>2, <1>3, <1>4, Streams, PTL
=============================================================================

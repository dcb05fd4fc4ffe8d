------------------------------ MODULE HostKeys ------------------------------
(***************************************************************************)
(* From the socket to a session that is logged in (run, check_host_key and *)
(* authenticate of ssh.rs), for connections of threads and of other        *)
(* processes of the program, which all share one file of known keys.  The  *)
(* key a host presents is whatever it is that day.  A process may die at   *)
(* any point; the lock dies with it.                                       *)
(***************************************************************************)
EXTENDS Integers, Sequences, FiniteSets

CONSTANTS Dials, Hosts, HostKey

Entry == Hosts \X HostKey
Way   == {"key", "agent", "default", "password"}

VARIABLES
  file,     \* known_hosts
  legacy,   \* what can be read of the file of old versions
  temp,     \* known_hosts.tmp
  lock,     \* who holds known_hosts.lock, a set of at most one
  dial,     \* dial[c]: a connection attempt
  trusted   \* what the checks let pass so far

vars == <<file, legacy, temp, lock, dial, trusted>>

At == {"none", "shaken", "locked", "read", "add", "rename", "trusted", "in", "out"}

Single(S) == \A a, b \in S : a[1] = b[1] => a = b

Nothing == [at |-> "none", as |-> CHOOSE e \in Entry : TRUE, known |-> {}, left |-> <<>>, offered |-> {}]

TypeOK ==
  /\ file \subseteq Entry /\ legacy \subseteq Entry /\ trusted \subseteq Entry
  /\ temp.keys \subseteq Entry /\ temp.whole \in BOOLEAN
  /\ lock \subseteq Dials /\ Cardinality(lock) <= 1
  /\ \A c \in Dials : dial[c].at \in At /\ dial[c].as \in Entry

Init ==
  /\ file = {} /\ temp = [whole |-> FALSE, keys |-> {}]
  /\ legacy \in {S \in SUBSET Entry : Single(S) /\ Cardinality(S) <= 1}
  /\ lock = {} /\ trusted = {}
  /\ dial = [c \in Dials |-> Nothing]

Goto(c, l) == dial' = [dial EXCEPT ![c].at = l]
Unlock(c)  == lock' = lock \ {c}

-----------------------------------------------------------------------------
\* The addresses are tried in turn, then the handshake says the key; an
\* attempt that was replaced meanwhile ends.
TcpConnect(c) ==
  /\ dial[c].at = "none"
  /\ \/ \E e \in Entry : dial' = [dial EXCEPT ![c].at = "shaken", ![c].as = e]
     \/ Goto(c, "out")
  /\ UNCHANGED <<file, legacy, temp, lock, trusted>>

\* Between the steps of the connection, not within the check of the key.
Superseded(c) ==
  /\ dial[c].at \in {"shaken", "trusted"}
  /\ Goto(c, "out")
  /\ UNCHANGED <<file, legacy, temp, lock, trusted>>

\* Mutant: the threads of a process do not exclude one another.
Lock_Shared(c) ==
  /\ dial[c].at = "shaken"
  /\ Goto(c, "locked")
  /\ UNCHANGED <<file, legacy, temp, lock, trusted>>

Lock(c) ==
  /\ dial[c].at = "shaken" /\ lock = {}
  /\ lock' = {c}
  /\ Goto(c, "locked")
  /\ UNCHANGED <<file, legacy, temp, trusted>>

\* Both files, under the lock.
ReadKnown(c) ==
  /\ dial[c].at = "locked"
  /\ dial' = [dial EXCEPT ![c].at = "read", ![c].known = file \cup legacy]
  /\ UNCHANGED <<file, legacy, temp, lock, trusted>>

\* check_port of libssh2: the key, another key of that host, or no entry.
CheckPort(known, e) ==
  IF e \in known THEN "match" ELSE IF \E k \in known : k[1] = e[1] THEN "mismatch" ELSE "notfound"

\* A key file that was named is the only key that is tried.
Offers(keypath, password) ==
  (IF keypath THEN <<"key">> ELSE <<"agent", "default">>) \o (IF password THEN <<"password">> ELSE <<>>)

Pass(c) ==
  /\ trusted' = trusted \cup {dial[c].as}
  /\ \E keypath, password \in BOOLEAN :
       dial' = [dial EXCEPT ![c].at = "trusted", ![c].left = Offers(keypath, password)]

CheckHostKey(c) ==
  /\ dial[c].at = "read"
  /\ CASE CheckPort(dial[c].known, dial[c].as) = "match"    -> Pass(c) /\ Unlock(c)
       [] CheckPort(dial[c].known, dial[c].as) = "mismatch" -> Goto(c, "out") /\ Unlock(c) /\ UNCHANGED trusted
       [] OTHER -> Goto(c, "add") /\ UNCHANGED <<lock, trusted>>
  /\ UNCHANGED <<file, legacy, temp>>

\* The entries of both files and the new one, to a file beside it.
WriteFile(c) ==
  /\ dial[c].at = "add"
  /\ \/ /\ temp' = [whole |-> TRUE, keys |-> dial[c].known \cup {dial[c].as}]
        /\ Goto(c, "rename") /\ UNCHANGED lock
     \/ /\ temp' = [whole |-> FALSE, keys |-> {}]
        /\ Goto(c, "out") /\ Unlock(c)
  /\ UNCHANGED <<file, legacy, trusted>>

Rename(c) ==
  /\ dial[c].at = "rename"
  /\ \/ file' = temp.keys /\ Pass(c)
     \/ Goto(c, "out") /\ UNCHANGED <<file, trusted>>
  /\ Unlock(c)
  /\ UNCHANGED <<legacy, temp>>

\* One offer after the other until one is accepted.
Authenticate(c) ==
  /\ dial[c].at = "trusted"
  /\ IF dial[c].left = <<>>
       THEN Goto(c, "out")
       ELSE \E ok \in BOOLEAN :
              dial' = [dial EXCEPT ![c].at = IF ok THEN "in" ELSE "trusted",
                                   ![c].left = Tail(@), ![c].offered = @ \cup {Head(dial[c].left)}]
  /\ UNCHANGED <<file, legacy, temp, lock, trusted>>

\* The program dies; what it was writing stays as it is.
Die(c) ==
  /\ dial[c].at \notin {"none", "in", "out"}
  /\ IF dial[c].at = "add" THEN temp' \in {temp, [whole |-> FALSE, keys |-> {}]} ELSE UNCHANGED temp
  /\ Goto(c, "out") /\ Unlock(c)
  /\ UNCHANGED <<file, legacy, trusted>>

Next == \E c \in Dials :
  \/ TcpConnect(c) \/ Superseded(c) \/ Lock(c) \/ ReadKnown(c) \/ CheckHostKey(c)
  \/ WriteFile(c) \/ Rename(c) \/ Authenticate(c) \/ Die(c)

Spec == Init /\ [][Next]_vars

-----------------------------------------------------------------------------
(* Properties. *)

\* Whatever connections meet at the file and wherever programs die, a host was
\* only ever trusted with one key, what was trusted is on disk, and nothing
\* (a key, the agent, a password) was offered to a host that was not
\* (ssh.rs:66-122, 259-269): a lost update would forget a key and the next
\* one presented would be the trusted one.
OneKeyPerHost ==
  /\ Single(trusted)
  /\ trusted \subseteq file \cup legacy
  /\ \A c \in Dials : dial[c].offered # {} => dial[c].as \in trusted
=============================================================================

-------------------------------- MODULE Files --------------------------------
(***************************************************************************)
(* File jobs of cbo_core (files.rs): a registry with one job per session   *)
(* slot, a thread per job that works over an SFTP connection of its own,   *)
(* and the remote names an upload goes through when it replaces a file.    *)
(* The thread runs beside the interface, which starts, cancels, closes,    *)
(* reconnects and replaces sessions; a job outlives its slot, so two jobs  *)
(* may be at work on one remote file.                                      *)
(*                                                                         *)
(* A file's content is named by the job that wrote it; how much of it is   *)
(* there is how many pieces that job has written.                          *)
(***************************************************************************)
EXTENDS Integers, FiniteSets

CONSTANTS
  Slot,       \* session ids
  Owner,      \* session objects
  Job,        \* file jobs
  Ops,        \* the operations started here
  Faults,     \* "refuse": the server may refuse a step; "lose": the connection may break
  Pieces,     \* pieces of a transferred file
  MaxRunning, \* bound: threads alive at once
  MaxToggles, \* bound: closings and reconnections
  First,      \* the content before any job
  NoFile, NoJob, NoOwner

ASSUME FilesAssumption ==
  /\ Ops \subseteq {"replace", "create", "download"}
  /\ Faults \subseteq {"refuse", "lose"}
  /\ Pieces \in Nat \ {0}
  /\ MaxRunning \in Nat
  /\ MaxToggles \in Nat
  /\ NoJob \notin Job /\ NoOwner \notin Owner
  /\ First \notin Job /\ NoFile \notin Job /\ NoFile # First
  /\ \E f \in [Slot -> Owner] : \A s, t \in Slot : s # t => f[s] # f[t]

Path == {"name", "hot", "bak", "dest"}

VARIABLES
  holder,  \* SESSIONS: slot -> session object
  up,      \* up[o]: state is CONNECTED
  closing, \* close_requested
  jobs,    \* JOBS: slot -> job
  job,     \* job[j]: [owner, op, cancel, st, at, target, wrote, link]
  file,    \* what each path holds
  toggles  \* closings and reconnections so far

vars == <<holder, up, closing, jobs, job, file, toggles>>

sessionVars == <<holder, up, closing, toggles>>

PC == {"none", "begin", "stat", "open", "create", "copy", "write", "last", "close",
       "clearbak", "backup", "swap", "restore", "dropbak", "ok", "clean", "err", "gone"}

TypeOK ==
  /\ holder \in [Slot -> Owner]
  /\ up \in [Owner -> BOOLEAN]
  /\ closing \in [Owner -> BOOLEAN]
  /\ jobs \in [Slot -> Job \cup {NoJob}]
  /\ job \in [Job -> [owner : Owner \cup {NoOwner}, op : Ops \cup {"none"}, cancel : BOOLEAN,
                      st : {"none", "running", "done", "cancelled", "error"}, at : PC,
                      target : Path, wrote : 0 .. Pieces, link : BOOLEAN]]
  /\ file \in [Path -> Job \cup {First, NoFile}]
  /\ toggles \in 0 .. MaxToggles

Fresh == [owner |-> NoOwner, op |-> "none", cancel |-> FALSE, st |-> "none", at |-> "none",
          target |-> "name", wrote |-> 0, link |-> TRUE]

\* Every slot has a session of its own; which is which makes no difference.
FirstHolder == CHOOSE f \in [Slot -> Owner] : \A s, t \in Slot : s # t => f[s] # f[t]

Init ==
  /\ holder = FirstHolder
  /\ up = [o \in Owner |-> TRUE]
  /\ closing = [o \in Owner |-> FALSE]
  /\ jobs = [s \in Slot |-> NoJob]
  /\ job = [j \in Job |-> Fresh]
  /\ file \in {[p \in Path |-> IF p = "name" THEN c ELSE NoFile] : c \in {First, NoFile}}
  /\ toggles = 0

Exists(p) == file[p] # NoFile
Whole(c)  == c = First \/ (c \in Job /\ job[c].wrote = Pieces)

-----------------------------------------------------------------------------
(* The interface's calls. *)


\* Jobs in the registry whose session is no longer the one in the slot.
Stale(t) == jobs[t] # NoJob /\ job[jobs[t]].owner # holder[t]

\* Mutant: a running job is replaced by the next one.
Busy_Never(s) == FALSE
Busy(s) == jobs[s] # NoJob /\ ~Stale(s) /\ job[jobs[s]].st = "running"

\* Mutant: the jobs that retain drops are not cancelled.
Told_None(j) == FALSE
Told(j) == \E t \in Slot : Stale(t) /\ jobs[t] = j

\* start_in: drop the jobs of sessions that are gone, refuse while one is
\* running, then spawn the thread (or fail to).
Start(s, op) ==
  LET o == holder[s]
      kept == [t \in Slot |-> IF Stale(t) THEN NoJob ELSE jobs[t]]
      told == [k \in Job |-> IF Told(k) THEN [job[k] EXCEPT !.cancel = TRUE] ELSE job[k]]
  IN /\ up[o]
     /\ Cardinality({k \in Job : job[k].st = "running"}) < MaxRunning
     /\ \/ /\ Busy(s)
           /\ \E t \in Slot : Stale(t)
           /\ jobs' = kept
           /\ job' = told
        \/ /\ ~Busy(s)
           /\ \E j \in Job, spawned \in IF "refuse" \in Faults THEN BOOLEAN ELSE {TRUE} :
                /\ job[j].st = "none"
                /\ jobs' = [kept EXCEPT ![s] = j]
                /\ job' = [told EXCEPT ![j] =
                     [Fresh EXCEPT !.owner = o, !.op = op,
                                   !.st = IF spawned THEN "running" ELSE "error",
                                   !.at = IF spawned THEN "begin" ELSE "gone"]]
     /\ UNCHANGED <<sessionVars, file>>

\* filesCancel, from CANCEL or from leaving the HOT NOTE overlay.
Cancel(s) ==
  /\ jobs[s] # NoJob
  /\ ~job[jobs[s]].cancel
  /\ job' = [job EXCEPT ![jobs[s]].cancel = TRUE]
  /\ UNCHANGED <<sessionVars, jobs, file>>

\* cbo_session_close asks; the terminal's thread ends the session, then or by
\* an error of its own.
CloseSession(s) ==
  /\ toggles < MaxToggles
  /\ up[holder[s]] /\ ~closing[holder[s]]
  /\ closing' = [closing EXCEPT ![holder[s]] = TRUE]
  /\ toggles' = toggles + 1
  /\ UNCHANGED <<holder, up, jobs, job, file>>

SessionEnds(s) ==
  /\ up[holder[s]]
  /\ closing[holder[s]] \/ "lose" \in Faults
  /\ up' = [up EXCEPT ![holder[s]] = FALSE]
  /\ UNCHANGED <<holder, closing, toggles, jobs, job, file>>

\* connect clears close_requested; the terminal's new connection is up.
Reconnect(s) ==
  /\ toggles < MaxToggles
  /\ ~up[holder[s]] \/ closing[holder[s]]
  /\ closing' = [closing EXCEPT ![holder[s]] = FALSE]
  /\ up' = [up EXCEPT ![holder[s]] = TRUE]
  /\ toggles' = toggles + 1
  /\ UNCHANGED <<holder, jobs, job, file>>

\* An ended session is freed and its slot taken by a new one, since connected.
Replace(s) ==
  \E o \in Owner :
    /\ ~up[holder[s]]
    /\ \A t \in Slot : holder[t] # o
    /\ up[o] /\ ~closing[o]
    /\ holder' = [holder EXCEPT ![s] = o]
    /\ closing' = [closing EXCEPT ![holder[s]] = TRUE]
    /\ UNCHANGED <<up, jobs, job, file, toggles>>

Interface ==
  \/ \E s \in Slot, op \in Ops : Start(s, op)
  \/ \E s \in Slot :
       Cancel(s) \/ CloseSession(s) \/ SessionEnds(s) \/ Reconnect(s) \/ Replace(s)

-----------------------------------------------------------------------------
(* The job's thread. *)

Cancelled(j) == job[j].cancel \/ closing[job[j].owner]

Go(j, there) == job' = [job EXCEPT ![j].at = there]

\* A request to the server: it works when it can, may be refused where the
\* model says so, and may be the one at which the connection breaks, before
\* or after the server acted on it.  Nothing works on a broken connection.
Request(j, can, result, good, bad, refusable) ==
  \/ /\ job[j].link /\ can
     /\ file' = result
     /\ Go(j, good)
  \/ /\ ~can \/ ~job[j].link \/ (refusable /\ "refuse" \in Faults)
     /\ Go(j, bad)
     /\ UNCHANGED file
  \/ /\ job[j].link /\ "lose" \in Faults
     /\ file' \in IF can THEN {file, result} ELSE {file}
     /\ job' = [job EXCEPT ![j].at = bad, ![j].link = FALSE]

\* What an error leaves of the connection.
Held(j) == {job[j].link} \cup IF "lose" \in Faults THEN {FALSE} ELSE {}

Rename(from, to) == [file EXCEPT ![to] = file[from], ![from] = NoFile]
MayRename(from, to) == Exists(from) /\ ~Exists(to)

\* run: connect, verify the host, authenticate; cancelled jobs stop here.
Begin(j) ==
  /\ job[j].at = "begin"
  /\ \/ Cancelled(j) /\ Go(j, "err")
     \/ ~Cancelled(j) /\ Go(j, IF job[j].op = "download" THEN "open" ELSE "stat")
     \/ Faults # {} /\ Go(j, "err")
  /\ UNCHANGED file

\* An overwriting upload of a file that is there goes to the sibling name;
\* a failed stat counts as a file that is not there.
Target(j) == IF job[j].op = "replace" /\ Exists("name") THEN "hot" ELSE "name"

Stat(j) ==
  /\ job[j].at = "stat"
  /\ \/ /\ job[j].link
        /\ job' = [job EXCEPT ![j].at = "create", ![j].target = Target(j)]
     \/ /\ Faults # {}
        /\ \E held \in Held(j) :
             job' = [job EXCEPT ![j].at = "create", ![j].target = "name", ![j].link = held]
  /\ UNCHANGED file

\* A download opens its source first; its destination is local.
OpenSource(j) ==
  /\ job[j].at = "open"
  /\ \/ /\ Exists("name")
        /\ job' = [job EXCEPT ![j].at = "create", ![j].target = "dest"]
     \/ /\ ~Exists("name") \/ Faults # {}
        /\ Go(j, "err")
  /\ UNCHANGED file

\* Mutant: opened without EXCLUSIVE, an existing file is truncated.
MayCreate_Any(p) == TRUE
MayCreate(p) == ~Exists(p)

Create(j) ==
  /\ job[j].at = "create"
  /\ Request(j, MayCreate(job[j].target), [file EXCEPT ![job[j].target] = j], "copy", "err", TRUE)

\* Mutant: a cancelled copy ends as if the source had ended.
CheckPiece_Break(j) ==
  /\ job[j].at = "copy"
  /\ Go(j, IF Cancelled(j) THEN "close" ELSE "write")
  /\ UNCHANGED file

\* copy: the check before each piece, the piece, the check after the last.
CheckPiece(j) ==
  /\ job[j].at = "copy"
  /\ Go(j, IF Cancelled(j) THEN "clean" ELSE "write")
  /\ UNCHANGED file

WritePiece(j) ==
  /\ job[j].at = "write"
  /\ \/ /\ job[j].link
        /\ job[j].wrote < Pieces
        /\ job' = [job EXCEPT ![j].at = "copy", ![j].wrote = @ + 1]
     \/ /\ job[j].wrote = Pieces
        /\ Go(j, "last")
     \/ /\ Faults # {}
        /\ \E held \in Held(j) : job' = [job EXCEPT ![j].at = "clean", ![j].link = held]
  /\ UNCHANGED file

\* A source whose size changed meanwhile is an error.
AfterLast(j) ==
  IF Cancelled(j) THEN {"clean"} ELSE IF Faults = {} THEN {"close"} ELSE {"close", "clean"}

CheckLast(j) ==
  /\ job[j].at = "last"
  /\ \E there \in AfterLast(j) : Go(j, there)
  /\ UNCHANGED file

CloseTarget(j) ==
  /\ job[j].at = "close"
  /\ Request(j, TRUE, file, IF job[j].target = "hot" THEN "clearbak" ELSE "ok", "clean", TRUE)

\* The swap: old backup away, original to the backup, new file to the name.
ClearBackup(j) ==
  /\ job[j].at = "clearbak"
  /\ Request(j, Exists("bak"), [file EXCEPT !["bak"] = NoFile], "backup", "backup", FALSE)

\* Mutant: the original is removed, not renamed.
Backup_Delete(j) ==
  /\ job[j].at = "backup"
  /\ Request(j, Exists("name"), [file EXCEPT !["name"] = NoFile], "swap", "clean", TRUE)

Backup(j) ==
  /\ job[j].at = "backup"
  /\ Request(j, MayRename("name", "bak"), Rename("name", "bak"), "swap", "clean", TRUE)

Swap(j) ==
  /\ job[j].at = "swap"
  /\ Request(j, MayRename("hot", "name"), Rename("hot", "name"), "dropbak", "restore", TRUE)

Restore(j) ==
  /\ job[j].at = "restore"
  /\ Request(j, MayRename("bak", "name"), Rename("bak", "name"), "clean", "clean", FALSE)

DropBackup(j) ==
  /\ job[j].at = "dropbak"
  /\ Request(j, Exists("bak"), [file EXCEPT !["bak"] = NoFile], "ok", "ok", FALSE)

\* Mutant: the incomplete destination stays.
CleanUp_Not(j) ==
  /\ job[j].at = "clean"
  /\ Go(j, "err")
  /\ UNCHANGED file

\* On any error the target is removed by its name; a local one needs no server.
CleanUp(j) ==
  LET p == job[j].target
  IN /\ job[j].at = "clean"
     /\ \/ /\ p = "dest"
           /\ file' = [file EXCEPT ![p] = NoFile]
           /\ Go(j, "err")
        \/ /\ p # "dest"
           /\ Request(j, Exists(p), [file EXCEPT ![p] = NoFile], "err", "err", FALSE)

\* Closing the session stops a job with "Cancelled", published as an error.
Verdict(j) ==
  IF job[j].at = "ok" THEN "done" ELSE IF job[j].cancel THEN "cancelled" ELSE "error"

Settle(j) ==
  /\ job[j].at \in {"ok", "err"}
  /\ job' = [job EXCEPT ![j].at = "gone", ![j].st = Verdict(j)]
  /\ UNCHANGED file

Worker(j) ==
  /\ \/ Begin(j) \/ Stat(j) \/ OpenSource(j) \/ Create(j)
     \/ CheckPiece(j) \/ WritePiece(j) \/ CheckLast(j) \/ CloseTarget(j)
     \/ ClearBackup(j) \/ Backup(j) \/ Swap(j) \/ Restore(j) \/ DropBackup(j)
     \/ CleanUp(j) \/ Settle(j)
  /\ UNCHANGED <<sessionVars, jobs>>

Next == Interface \/ \E j \in Job : Worker(j)

Spec == Init /\ [][Next]_vars

-----------------------------------------------------------------------------
(* Properties. *)

Running(j) == job[j].st = "running"

\* One job at a time (cbo.h "One job at a time", files.rs:72-83): the jobs at
\* work at one moment belong to different sessions.
OneJobPerSession ==
  \A i, j \in Job : Running(i) /\ Running(j) /\ i # j => job[i].owner # job[j].owner

\* A running job is one the interface can still ask about and cancel, or it
\* has been cancelled when its registry entry went (files.rs:65-71).
NoJobIsForgotten ==
  \A j \in Job : Running(j) => job[j].cancel \/ \E s \in Slot : jobs[s] = j

\* Replacing goes beside the file (files.rs:263-266): what a reader finds
\* under the name is whole, unless an upload is creating it there.
ReaderSeesWhole ==
  Exists("name") => \/ Whole(file["name"])
                    \/ job[file["name"]].target = "name"

\* When no job is at work and every connection held, neither the temporary
\* file nor the backup is left (files.rs:289-315), so that the next
\* exclusive open of the temporary name can succeed.
NothingLeftBehind ==
  (\A j \in Job : ~Running(j) /\ job[j].link) => ~Exists("hot") /\ ~Exists("bak")

\* "Existing destination files are never overwritten" (cbo.h:77, files.rs:245):
\* content at a path gives way only through the swap or its writer's clean-up.
NeverOverwrites ==
  [][\A p \in Path : Exists(p) /\ file'[p] # file[p] => file'[p] = NoFile]_file

Upload(j) == job[j].op \in {"replace", "create"}
Landed(j) == job[j].at \in {"dropbak", "ok"} \/ job[j].st = "done"
Broken(j) == ~Landed(j) /\ ~job[j].link

\* A version that is not taken back any more.
Standing(p) ==
  \/ file[p] = First
  \/ /\ file[p] \in Job /\ Whole(file[p])
     /\ LET w == file[p] IN Landed(w) \/ Broken(w)

Contract == INSTANCE Replacement WITH
  Contents0 <- {First, NoFile},
  content <- IF Standing("name") THEN file["name"]
             ELSE IF Standing("bak") THEN file["bak"] ELSE NoFile,
  outcome <- [j \in Job |-> IF ~Upload(j) THEN "none"
                            ELSE IF Landed(j) THEN "landed"
                            ELSE IF Broken(j) THEN "broken"
                            ELSE IF job[j].at \in {"err", "gone"} THEN "failed"
                            ELSE "none"]

\* "a failed or cancelled upload leaves the original untouched"
\* (files.rs:22-25): uploads implement Replacement, where the file's content
\* is the version under the name, or failing that under the backup name.
UploadsReplaceOrLeave == Contract!Spec

\* "the original is restored if the swap fails" (SPEC.md:301, files.rs:295):
\* once every upload has ended, no file is there under its backup name only.
OriginalIsThere ==
  (\A j \in Job : ~Running(j)) /\ Exists("bak") => Exists("name")
=============================================================================

----------------------------- MODULE Files_proofs -----------------------------
(***************************************************************************)
(* Proofs about file jobs (Files), in two layers.                          *)
(*                                                                         *)
(* For any number of threads at once: the registry's promises (one job at  *)
(* a time, none forgotten), that nothing is overwritten, and that a reader *)
(* finds whole files (InvA).                                               *)
(*                                                                         *)
(* For one thread at a time: that nothing is left behind and that uploads  *)
(* implement Replacement (InvB).  With two threads and refused renames     *)
(* neither holds: a clean-up removes by name (files.rs:313), also what     *)
(* another upload has just put there.                                      *)
(***************************************************************************)
EXTENDS Files, FiniteSetTheorems, TLAPS

-----------------------------------------------------------------------------
(* What a step of a job's thread does to the job's record. *)

JobRecord ==
  [owner : Owner \cup {NoOwner}, op : Ops \cup {"none"}, cancel : BOOLEAN,
   st : {"none", "running", "done", "cancelled", "error"}, at : PC,
   target : Path, wrote : 0 .. Pieces, link : BOOLEAN]

Content == Job \cup {First, NoFile}

\* Only job j changes, and not who started it, as what, and who cancelled it.
Only(j) ==
  /\ job' \in [Job -> JobRecord]
  /\ \A k \in Job : k # j => job'[k] = job[k]
  /\ job'[j].owner = job[j].owner
  /\ job'[j].op = job[j].op
  /\ job'[j].cancel = job[j].cancel

\* It goes on at a, with or without its connection; all else stays.
Stepped(j, a, l) ==
  /\ Only(j)
  /\ job'[j].at = a
  /\ job'[j].link = l
  /\ job'[j].st = job[j].st
  /\ job'[j].target = job[j].target
  /\ job'[j].wrote = job[j].wrote

JobsTyped == job \in [Job -> JobRecord]
FileTyped == file \in [Path -> Content]

\* Going somewhere is a step.
LEMMA GoSteps ==
  ASSUME JobsTyped, NEW j \in Job, NEW a \in PC, Go(j, a)
  PROVE  Stepped(j, a, job[j].link)
  <1>1. job' \in [Job -> JobRecord]
    BY DEF JobsTyped, JobRecord, Go
  <1>2. job'[j].at = a /\ job'[j].link = job[j].link
    BY DEF JobsTyped, JobRecord, Go
  <1> QED
    BY <1>1, <1>2 DEF JobsTyped, JobRecord, Go, Stepped, Only

\* So is going somewhere with the connection as it is now.
LEMMA LostSteps ==
  ASSUME JobsTyped, NEW j \in Job, NEW a \in PC, NEW l \in BOOLEAN,
         job' = [job EXCEPT ![j].at = a, ![j].link = l]
  PROVE  Stepped(j, a, l)
  <1>1. job' \in [Job -> JobRecord]
    BY DEF JobsTyped, JobRecord
  <1>2. job'[j].at = a /\ job'[j].link = l
    BY DEF JobsTyped, JobRecord
  <1> QED
    BY <1>1, <1>2 DEF JobsTyped, JobRecord, Stepped, Only

-----------------------------------------------------------------------------
(* What a step of each kind does. *)

\* A request worked, did not (and why), or broke the connection.
Asked(j, can, result, good, bad, refusable) ==
  \/ /\ job[j].link /\ can /\ file' = result
     /\ Stepped(j, good, job[j].link)
  \/ /\ ~can \/ ~job[j].link \/ refusable
     /\ file' = file
     /\ Stepped(j, bad, job[j].link)
  \/ /\ job[j].link
     /\ file' = file \/ (can /\ file' = result)
     /\ Stepped(j, bad, FALSE)

LEMMA RequestSteps ==
  ASSUME JobsTyped, NEW j \in Job, NEW STATE can, NEW STATE result,
         NEW good \in PC, NEW bad \in PC, NEW refusable \in BOOLEAN,
         Request(j, can, result, good, bad, refusable)
  PROVE  Asked(j, can, result, good, bad, refusable)
  <1>1. CASE job[j].link /\ can /\ file' = result /\ Go(j, good)
    BY <1>1, GoSteps DEF Asked
  <1>2. CASE /\ ~can \/ ~job[j].link \/ (refusable /\ "refuse" \in Faults)
             /\ Go(j, bad) /\ UNCHANGED file
    BY <1>2, GoSteps DEF Asked
  <1>3. CASE /\ job[j].link /\ "lose" \in Faults
             /\ file' \in IF can THEN {file, result} ELSE {file}
             /\ job' = [job EXCEPT ![j].at = bad, ![j].link = FALSE]
    <2>1. Stepped(j, bad, FALSE)
      BY <1>3, LostSteps
    <2> QED
      BY <1>3, <2>1 DEF Asked
  <1> QED
    BY <1>1, <1>2, <1>3 DEF Request

LEMMA BeginSteps ==
  ASSUME JobsTyped, NEW j \in Job, Begin(j)
  PROVE  /\ job[j].at = "begin" /\ file' = file
         /\ \/ Stepped(j, "err", job[j].link)
            \/ job[j].op = "download" /\ Stepped(j, "open", job[j].link)
            \/ job[j].op # "download" /\ Stepped(j, "stat", job[j].link)
  BY GoSteps DEF Begin, PC

LEMMA StatSteps ==
  ASSUME JobsTyped, NEW j \in Job, Stat(j)
  PROVE  /\ job[j].at = "stat" /\ file' = file
         /\ Only(j)
         /\ job'[j].at = "create"
         /\ job'[j].st = job[j].st
         /\ job'[j].wrote = job[j].wrote
         /\ \/ job'[j].target = Target(j) /\ job'[j].link = job[j].link
            \/ job'[j].target = "name" /\ job'[j].link \in {job[j].link, FALSE}
  <1>1. CASE /\ job[j].link
             /\ job' = [job EXCEPT ![j].at = "create", ![j].target = Target(j)]
    <2> DEFINE t == Target(j)
    <2>1. t \in Path /\ "create" \in PC
      BY DEF Target, Path, PC
    <2>2. job' = [job EXCEPT ![j].at = "create", ![j].target = t]
      BY <1>1
    <2> HIDE DEF t
    <2>3. job' \in [Job -> JobRecord]
      BY <2>1, <2>2 DEF JobsTyped, JobRecord
    <2>4. Only(j) /\ job'[j].at = "create" /\ job'[j].st = job[j].st
          /\ job'[j].wrote = job[j].wrote /\ job'[j].target = t /\ job'[j].link = job[j].link
      BY <2>1, <2>2, <2>3 DEF JobsTyped, JobRecord, Only
    <2> QED
      BY <2>4, <1>1 DEF t, Stat
  <1>2. CASE \E held \in Held(j) :
               job' = [job EXCEPT ![j].at = "create", ![j].target = "name", ![j].link = held]
    <2>1. PICK held \in Held(j) :
               job' = [job EXCEPT ![j].at = "create", ![j].target = "name", ![j].link = held]
      BY <1>2
    <2>2. held \in {job[j].link, FALSE} /\ held \in BOOLEAN
      BY DEF Held, JobsTyped, JobRecord
    <2>a. "create" \in PC /\ "name" \in Path
      BY DEF PC, Path
    <2> DEFINE r == [job[j] EXCEPT !.at = "create", !.target = "name", !.link = held]
    <2>b. job[j] \in JobRecord
      BY DEF JobsTyped
    <2>c. r \in JobRecord
      BY <2>2, <2>a, <2>b DEF JobRecord
    <2>d. job' = [job EXCEPT ![j] = r]
      BY <2>1
    <2>3. job' \in [Job -> JobRecord]
      <3> HIDE DEF r
      <3> QED
        BY <2>c, <2>d DEF JobsTyped
    <2>4. Only(j) /\ job'[j].at = "create" /\ job'[j].st = job[j].st
          /\ job'[j].wrote = job[j].wrote /\ job'[j].target = "name" /\ job'[j].link = held
      BY <2>1, <2>2, <2>3 DEF JobsTyped, JobRecord, Only
    <2> QED
      BY <2>4, <2>2, <1>2 DEF Stat
  <1> QED
    BY <1>1, <1>2 DEF Stat

LEMMA OpenSourceSteps ==
  ASSUME JobsTyped, NEW j \in Job, OpenSource(j)
  PROVE  /\ job[j].at = "open" /\ file' = file
         /\ \/ Stepped(j, "err", job[j].link)
            \/ /\ Only(j)
               /\ job'[j].at = "create"
               /\ job'[j].target = "dest"
               /\ job'[j].st = job[j].st
               /\ job'[j].wrote = job[j].wrote
               /\ job'[j].link = job[j].link
  <1>1. CASE job' = [job EXCEPT ![j].at = "create", ![j].target = "dest"]
    <2>a. "create" \in PC /\ "dest" \in Path
      BY DEF PC, Path
    <2>1. job' \in [Job -> JobRecord]
      BY <1>1, <2>a DEF JobsTyped, JobRecord
    <2> QED
      BY <1>1, <2>1 DEF JobsTyped, JobRecord, Only, OpenSource
  <1>2. CASE Go(j, "err")
    BY <1>2, GoSteps DEF OpenSource, PC
  <1> QED
    BY <1>1, <1>2 DEF OpenSource

LEMMA CreateSteps ==
  ASSUME JobsTyped, NEW j \in Job, Create(j)
  PROVE  /\ job[j].at = "create"
         /\ Asked(j, MayCreate(job[j].target), [file EXCEPT ![job[j].target] = j],
                  "copy", "err", TRUE)
  <1>1. "copy" \in PC /\ "err" \in PC
    BY DEF PC
  <1> QED
    BY <1>1, RequestSteps DEF Create

LEMMA CheckPieceSteps ==
  ASSUME JobsTyped, NEW j \in Job, CheckPiece(j)
  PROVE  /\ job[j].at = "copy" /\ file' = file
         /\ Stepped(j, "clean", job[j].link) \/ Stepped(j, "write", job[j].link)
  BY GoSteps DEF CheckPiece, PC

LEMMA WritePieceSteps ==
  ASSUME FilesAssumption, JobsTyped, NEW j \in Job, WritePiece(j)
  PROVE  /\ job[j].at = "write" /\ file' = file
         /\ \/ /\ Only(j)
               /\ job'[j].at = "copy"
               /\ job'[j].wrote = job[j].wrote + 1 /\ job[j].wrote < Pieces
               /\ job[j].link
               /\ job'[j].st = job[j].st
               /\ job'[j].target = job[j].target
               /\ job'[j].link = job[j].link
            \/ job[j].wrote = Pieces /\ Stepped(j, "last", job[j].link)
            \/ Stepped(j, "clean", job[j].link)
            \/ Stepped(j, "clean", FALSE)
  <1>1. CASE /\ job[j].link
             /\ job[j].wrote < Pieces
             /\ job' = [job EXCEPT ![j].at = "copy", ![j].wrote = @ + 1]
    <2>1. Pieces \in Nat /\ job[j].wrote \in 0 .. Pieces
      BY DEF JobsTyped, JobRecord, FilesAssumption
    <2>2. job[j].wrote + 1 \in 0 .. Pieces
      BY <1>1, <2>1
    <2>3. job' = [job EXCEPT ![j].at = "copy", ![j].wrote = job[j].wrote + 1]
      BY <1>1
    <2>4. job' \in [Job -> JobRecord]
      BY <2>2, <2>3 DEF JobsTyped, JobRecord, PC
    <2>5. /\ Only(j) /\ job'[j].at = "copy" /\ job'[j].wrote = job[j].wrote + 1
          /\ job'[j].st = job[j].st /\ job'[j].target = job[j].target
          /\ job'[j].link = job[j].link
      BY <2>2, <2>3, <2>4 DEF JobsTyped, JobRecord, Only
    <2> QED
      BY <1>1, <2>5 DEF WritePiece
  <1>2. CASE job[j].wrote = Pieces /\ Go(j, "last")
    BY <1>2, GoSteps DEF WritePiece, PC
  <1>3. CASE \E held \in Held(j) : job' = [job EXCEPT ![j].at = "clean", ![j].link = held]
    <2>1. PICK held \in Held(j) : job' = [job EXCEPT ![j].at = "clean", ![j].link = held]
      BY <1>3
    <2>2. held \in {job[j].link, FALSE} /\ held \in BOOLEAN /\ "clean" \in PC
      BY DEF Held, JobsTyped, JobRecord, PC
    <2>3. Stepped(j, "clean", held)
      BY <2>1, <2>2, LostSteps
    <2> QED
      BY <2>2, <2>3 DEF WritePiece
  <1> QED
    BY <1>1, <1>2, <1>3 DEF WritePiece

LEMMA CheckLastSteps ==
  ASSUME JobsTyped, NEW j \in Job, CheckLast(j)
  PROVE  /\ job[j].at = "last" /\ file' = file
         /\ Stepped(j, "clean", job[j].link) \/ Stepped(j, "close", job[j].link)
  <1>1. PICK there \in AfterLast(j) : Go(j, there)
    BY DEF CheckLast
  <1>2. there \in {"clean", "close"} /\ there \in PC
    BY DEF AfterLast, PC
  <1> QED
    BY <1>1, <1>2, GoSteps DEF CheckLast

LEMMA CloseTargetSteps ==
  ASSUME JobsTyped, NEW j \in Job, CloseTarget(j)
  PROVE  /\ job[j].at = "close" /\ file' = file
         /\ \/ job[j].target = "hot" /\ job[j].link /\ Stepped(j, "clearbak", job[j].link)
            \/ job[j].target # "hot" /\ job[j].link /\ Stepped(j, "ok", job[j].link)
            \/ Stepped(j, "clean", job[j].link)
            \/ Stepped(j, "clean", FALSE)
  <1> DEFINE good == IF job[j].target = "hot" THEN "clearbak" ELSE "ok"
  <1>1. CASE job[j].link /\ file' = file /\ Go(j, good)
    <2>1. CASE job[j].target = "hot"
      <3>1. Go(j, "clearbak") /\ "clearbak" \in PC
        BY <1>1, <2>1 DEF PC
      <3> QED
        BY <1>1, <2>1, <3>1, GoSteps DEF CloseTarget
    <2>2. CASE job[j].target # "hot"
      <3>1. Go(j, "ok") /\ "ok" \in PC
        BY <1>1, <2>2 DEF PC
      <3> QED
        BY <1>1, <2>2, <3>1, GoSteps DEF CloseTarget
    <2> QED
      BY <2>1, <2>2
  <1>2. CASE file' = file /\ Go(j, "clean")
    BY <1>2, GoSteps DEF CloseTarget, PC
  <1>3. CASE file' = file /\ job' = [job EXCEPT ![j].at = "clean", ![j].link = FALSE]
    BY <1>3, LostSteps DEF CloseTarget, PC
  <1> QED
    BY <1>1, <1>2, <1>3 DEF CloseTarget, Request

LEMMA ClearBackupSteps ==
  ASSUME JobsTyped, NEW j \in Job, ClearBackup(j)
  PROVE  /\ job[j].at = "clearbak"
         /\ Asked(j, Exists("bak"), [file EXCEPT !["bak"] = NoFile], "backup", "backup", FALSE)
  <1>1. "backup" \in PC
    BY DEF PC
  <1> QED
    BY <1>1, RequestSteps DEF ClearBackup

LEMMA BackupSteps ==
  ASSUME JobsTyped, NEW j \in Job, Backup(j)
  PROVE  /\ job[j].at = "backup"
         /\ Asked(j, MayRename("name", "bak"), Rename("name", "bak"), "swap", "clean", TRUE)
  <1>1. "swap" \in PC /\ "clean" \in PC
    BY DEF PC
  <1> QED
    BY <1>1, RequestSteps DEF Backup

LEMMA SwapSteps ==
  ASSUME JobsTyped, NEW j \in Job, Swap(j)
  PROVE  /\ job[j].at = "swap"
         /\ Asked(j, MayRename("hot", "name"), Rename("hot", "name"), "dropbak", "restore", TRUE)
  <1>1. "dropbak" \in PC /\ "restore" \in PC
    BY DEF PC
  <1> QED
    BY <1>1, RequestSteps DEF Swap

LEMMA RestoreSteps ==
  ASSUME JobsTyped, NEW j \in Job, Restore(j)
  PROVE  /\ job[j].at = "restore"
         /\ Asked(j, MayRename("bak", "name"), Rename("bak", "name"), "clean", "clean", FALSE)
  <1>1. "clean" \in PC
    BY DEF PC
  <1> QED
    BY <1>1, RequestSteps DEF Restore

LEMMA DropBackupSteps ==
  ASSUME JobsTyped, NEW j \in Job, DropBackup(j)
  PROVE  /\ job[j].at = "dropbak"
         /\ Asked(j, Exists("bak"), [file EXCEPT !["bak"] = NoFile], "ok", "ok", FALSE)
  <1>1. "ok" \in PC
    BY DEF PC
  <1> QED
    BY <1>1, RequestSteps DEF DropBackup

LEMMA CleanUpSteps ==
  ASSUME JobsTyped, NEW j \in Job, CleanUp(j)
  PROVE  /\ job[j].at = "clean"
         /\ \/ /\ job[j].target = "dest"
               /\ file' = [file EXCEPT !["dest"] = NoFile]
               /\ Stepped(j, "err", job[j].link)
            \/ /\ job[j].target # "dest"
               /\ Asked(j, Exists(job[j].target), [file EXCEPT ![job[j].target] = NoFile],
                        "err", "err", FALSE)
  <1>1. "err" \in PC
    BY DEF PC
  <1> QED
    BY <1>1, RequestSteps, GoSteps DEF CleanUp

LEMMA SettleSteps ==
  ASSUME JobsTyped, NEW j \in Job, Settle(j)
  PROVE  /\ job[j].at \in {"ok", "err"} /\ file' = file
         /\ Only(j)
         /\ job'[j].at = "gone"
         /\ job'[j].st \in {"done", "cancelled", "error"}
         /\ (job'[j].st = "done") = (job[j].at = "ok")
         /\ job'[j].target = job[j].target
         /\ job'[j].wrote = job[j].wrote
         /\ job'[j].link = job[j].link
  <1> DEFINE v == Verdict(j)
  <1>1. v \in {"done", "cancelled", "error"} /\ (v = "done") = (job[j].at = "ok")
    BY DEF Verdict
  <1>2. job' = [job EXCEPT ![j].at = "gone", ![j].st = v]
    BY DEF Settle
  <1> HIDE DEF v
  <1>a. "gone" \in PC
    BY DEF PC
  <1>3. job' \in [Job -> JobRecord]
    BY <1>1, <1>2, <1>a DEF JobsTyped, JobRecord
  <1>4. /\ Only(j) /\ job'[j].at = "gone" /\ job'[j].st = v /\ job'[j].target = job[j].target
        /\ job'[j].wrote = job[j].wrote /\ job'[j].link = job[j].link
    BY <1>1, <1>2, <1>3 DEF JobsTyped, JobRecord, Only
  <1> QED
    BY <1>1, <1>4 DEF Settle

-----------------------------------------------------------------------------
(* What the interface's steps do. *)

\* All fields but cancel as before; cancelled now if c says so.
Retold(k, c) ==
  /\ job'[k].cancel = (c \/ job[k].cancel)
  /\ job'[k].owner = job[k].owner
  /\ job'[k].op = job[k].op
  /\ job'[k].st = job[k].st
  /\ job'[k].at = job[k].at
  /\ job'[k].target = job[k].target
  /\ job'[k].wrote = job[k].wrote
  /\ job'[k].link = job[k].link

\* What retain leaves in slot t.
Kept(t) == IF Stale(t) THEN NoJob ELSE jobs[t]

\* Job j is new, started by the session in slot s.
Begun(j, s, op) ==
  /\ job[j].st = "none"
  /\ job'[j].owner = holder[s]
  /\ job'[j].op = op
  /\ ~job'[j].cancel
  /\ \/ job'[j].st = "running" /\ job'[j].at = "begin"
     \/ job'[j].st = "error" /\ job'[j].at = "gone"
  /\ job'[j].target = "name"
  /\ job'[j].wrote = 0
  /\ job'[j].link

LEMMA StartSteps ==
  ASSUME FilesAssumption, TypeOK, NEW s \in Slot, NEW op \in Ops, Start(s, op)
  PROVE  /\ job' \in [Job -> JobRecord]
         /\ jobs' \in [Slot -> Job \cup {NoJob}]
         /\ \/ /\ \A t \in Slot : jobs'[t] = Kept(t)
               /\ \A k \in Job : Retold(k, Told(k))
            \/ /\ ~Busy(s)
               /\ \E j \in Job :
                    /\ Begun(j, s, op)
                    /\ jobs'[s] = j
                    /\ \A t \in Slot : t # s => jobs'[t] = Kept(t)
                    /\ \A k \in Job : k # j => Retold(k, Told(k))
  <1> DEFINE kept == [t \in Slot |-> IF Stale(t) THEN NoJob ELSE jobs[t]]
             told == [k \in Job |-> IF Told(k) THEN [job[k] EXCEPT !.cancel = TRUE] ELSE job[k]]
  <1>1. kept \in [Slot -> Job \cup {NoJob}] /\ \A t \in Slot : kept[t] = Kept(t)
    BY DEF TypeOK, Kept
  <1>2. ASSUME NEW k \in Job
        PROVE  /\ told[k] \in JobRecord
               /\ told[k].cancel = (Told(k) \/ job[k].cancel)
               /\ told[k].owner = job[k].owner
               /\ told[k].op = job[k].op
               /\ told[k].st = job[k].st
               /\ told[k].at = job[k].at
               /\ told[k].target = job[k].target
               /\ told[k].wrote = job[k].wrote
               /\ told[k].link = job[k].link
    <2>1. job[k] \in JobRecord
      BY DEF TypeOK, JobRecord
    <2>2. CASE Told(k)
      <3>1. told[k] = [job[k] EXCEPT !.cancel = TRUE]
        BY <2>2
      <3> HIDE DEF told
      <3> QED
        BY <2>1, <2>2, <3>1 DEF JobRecord
    <2>3. CASE ~Told(k)
      <3>1. told[k] = job[k]
        BY <2>3
      <3>2. job[k].cancel \in BOOLEAN
        BY <2>1 DEF JobRecord
      <3> HIDE DEF told
      <3> QED
        BY <2>1, <2>3, <3>1, <3>2
    <2> QED
      BY <2>2, <2>3
  <1>3. told \in [Job -> JobRecord]
    BY <1>2
  <1> HIDE DEF kept, told
  <1>4. CASE jobs' = kept /\ job' = told
    BY <1>1, <1>2, <1>3, <1>4 DEF Retold
  <1>5. ASSUME NEW j \in Job, NEW spawned \in BOOLEAN, ~Busy(s),
               job[j].st = "none",
               jobs' = [kept EXCEPT ![s] = j],
               job' = [told EXCEPT ![j] =
                         [Fresh EXCEPT !.owner = holder[s], !.op = op,
                                       !.st = IF spawned THEN "running" ELSE "error",
                                       !.at = IF spawned THEN "begin" ELSE "gone"]]
        PROVE  /\ job' \in [Job -> JobRecord]
               /\ jobs' \in [Slot -> Job \cup {NoJob}]
               /\ Begun(j, s, op)
               /\ jobs'[s] = j
               /\ \A t \in Slot : t # s => jobs'[t] = Kept(t)
               /\ \A k \in Job : k # j => Retold(k, Told(k))
    <2> DEFINE st == IF spawned THEN "running" ELSE "error"
               at == IF spawned THEN "begin" ELSE "gone"
               r == [Fresh EXCEPT !.owner = holder[s], !.op = op, !.st = st, !.at = at]
    <2>1. /\ \/ st = "running" /\ at = "begin"
             \/ st = "error" /\ at = "gone"
          /\ at \in PC /\ "name" \in Path
          /\ holder[s] \in Owner
          /\ 0 \in 0 .. Pieces
      BY DEF TypeOK, FilesAssumption, PC, Path
    <2>3. job' = [told EXCEPT ![j] = r]
      BY <1>5
    <2> HIDE DEF st, at
    <2>2. /\ r \in JobRecord
          /\ r.owner = holder[s] /\ r.op = op /\ r.cancel = FALSE /\ r.target = "name"
          /\ r.wrote = 0 /\ r.link = TRUE
          /\ r.st = st /\ r.at = at
      BY <2>1 DEF JobRecord, Fresh
    <2> HIDE DEF r
    <2>4. job' \in [Job -> JobRecord] /\ job'[j] = r /\ \A k \in Job : k # j => job'[k] = told[k]
      BY <2>2, <2>3, <1>3
    <2>5. /\ jobs' \in [Slot -> Job \cup {NoJob}]
          /\ jobs'[s] = j
          /\ \A t \in Slot : t # s => jobs'[t] = Kept(t)
      BY <1>1, <1>5
    <2>6. Begun(j, s, op)
      BY <1>5, <2>1, <2>2, <2>4 DEF Begun
    <2>7. ASSUME NEW k \in Job, k # j
          PROVE  Retold(k, Told(k))
      BY <1>2, <2>4, <2>7 DEF Retold
    <2> QED
      BY <2>4, <2>5, <2>6, <2>7
  <1>6. CASE Busy(s) /\ jobs' = kept /\ job' = told
    BY <1>4, <1>6
  <1>7. CASE /\ ~Busy(s)
             /\ \E j \in Job, spawned \in IF "refuse" \in Faults THEN BOOLEAN ELSE {TRUE} :
                  /\ job[j].st = "none"
                  /\ jobs' = [kept EXCEPT ![s] = j]
                  /\ job' = [told EXCEPT ![j] =
                       [Fresh EXCEPT !.owner = holder[s], !.op = op,
                                     !.st = IF spawned THEN "running" ELSE "error",
                                     !.at = IF spawned THEN "begin" ELSE "gone"]]
    BY <1>5, <1>7
  <1> QED
    BY <1>6, <1>7 DEF Start, kept, told

\* Every other step of the interface leaves a job as it is, or cancels it.
LEMMA InterfaceSteps ==
  ASSUME FilesAssumption, TypeOK, NEW s \in Slot,
         Cancel(s) \/ CloseSession(s) \/ SessionEnds(s) \/ Reconnect(s) \/ Replace(s)
  PROVE  /\ TypeOK'
         /\ jobs' = jobs /\ file' = file
         /\ \A k \in Job : Retold(k, FALSE) \/ Retold(k, TRUE)
  <1>1. CASE Cancel(s)
    <2> DEFINE c == jobs[s]
    <2>1. c \in Job /\ job' = [job EXCEPT ![c].cancel = TRUE]
      BY <1>1 DEF Cancel, TypeOK
    <2>2. JobsTyped
      BY DEF TypeOK, JobsTyped, JobRecord
    <2> HIDE DEF c
    <2>3. job' \in [Job -> JobRecord] /\ \A k \in Job : Retold(k, FALSE) \/ Retold(k, TRUE)
      BY <2>1, <2>2 DEF JobsTyped, JobRecord, Retold
    <2> QED
      BY <1>1, <2>3 DEF Cancel, sessionVars, TypeOK, JobRecord
  <1>2. ASSUME UNCHANGED <<jobs, job, file>>
        PROVE  \A k \in Job : Retold(k, FALSE) \/ Retold(k, TRUE)
    <2>1. \A k \in Job : job[k].cancel \in BOOLEAN
      BY DEF TypeOK
    <2> QED
      BY <1>2, <2>1 DEF Retold
  <1>3. CASE CloseSession(s)
    <2>1. toggles + 1 \in 0 .. MaxToggles
      BY <1>3 DEF CloseSession, TypeOK, FilesAssumption
    <2> QED
      BY <1>2, <1>3, <2>1 DEF CloseSession, TypeOK
  <1>4. CASE SessionEnds(s)
    BY <1>2, <1>4 DEF SessionEnds, TypeOK
  <1>5. CASE Reconnect(s)
    <2>1. toggles + 1 \in 0 .. MaxToggles
      BY <1>5 DEF Reconnect, TypeOK, FilesAssumption
    <2> QED
      BY <1>2, <1>5, <2>1 DEF Reconnect, TypeOK
  <1>6. CASE Replace(s)
    <2>1. PICK o \in Owner :
            /\ holder' = [holder EXCEPT ![s] = o]
            /\ closing' = [closing EXCEPT ![holder[s]] = TRUE]
            /\ UNCHANGED <<up, jobs, job, file, toggles>>
      BY <1>6 DEF Replace
    <2>2. holder' \in [Slot -> Owner] /\ closing' \in [Owner -> BOOLEAN]
      BY <2>1 DEF TypeOK
    <2>3. TypeOK'
      BY <2>1, <2>2 DEF TypeOK
    <2> QED
      BY <1>2, <2>1, <2>3
  <1> QED
    BY <1>1, <1>3, <1>4, <1>5, <1>6

-----------------------------------------------------------------------------
(* The invariant that holds for any number of threads. *)

Before  == {"none", "begin", "stat", "open", "create"}
Working == {"copy", "write", "last", "close", "clearbak", "backup", "swap", "restore", "clean"}
Placing == {"clearbak", "backup", "swap", "restore", "dropbak"}
Online  == {"none", "begin", "stat", "open", "copy", "write", "last", "close",
            "clearbak", "swap", "dropbak"}

\* What a job's record says of itself: it runs between start and Settle; it has
\* written nothing before and all after the copy; the swap is for a sibling
\* name; a download writes locally, and only there; and where the thread can
\* only be while its connection holds.
Fit(r) ==
  /\ r.st = "none" <=> r.at = "none"
  /\ r.st = "running" <=> r.at \notin {"none", "gone"}
  /\ r.at \in Before => r.wrote = 0
  /\ r.at \in {"last", "close", "ok"} \cup Placing => r.wrote = Pieces
  /\ r.at \in Placing => r.target = "hot"
  /\ r.target # "bak"
  /\ r.op # "download" => r.target # "dest"
  /\ r.op = "download" => r.target # "hot" /\ r.at # "stat"
  /\ r.at = "open" => r.op = "download"
  /\ r.at # "none" => r.op # "none"
  /\ r.op = "download" /\ r.at \in {"create"} \cup Working => r.target = "dest"
  /\ r.at \in Online => r.link

AllFit == \A j \in Job : Fit(job[j])

\* Who writes beside the name has the temporary file to itself.
Staged ==
  \A j \in Job : job[j].at \in Working /\ job[j].link /\ job[j].target = "hot" => file["hot"] = j

\* A path holds what some job has created.
Made == \A p \in Path : file[p] \in Job => job[file[p]].at \notin Before

\* What is or was under the name is whole, or was created there.
Shown ==
  \A p \in {"name", "bak"} : file[p] \in Job => Whole(file[p]) \/ job[file[p]].target = "name"

\* Each session has its slot; a session's running job is in its slot's entry;
\* whoever has a running job and no slot is closing, and so cannot come back.
Differ  == \A s, t \in Slot : s # t => holder[s] # holder[t]
Entered == \A j \in Job, s \in Slot : Running(j) /\ job[j].owner = holder[s] => jobs[s] = j
Retired == \A j \in Job : Running(j) =>
             /\ job[j].owner \in Owner
             /\ closing[job[j].owner] \/ \E s \in Slot : holder[s] = job[j].owner

Registry == Differ /\ Entered /\ Retired /\ OneJobPerSession /\ NoJobIsForgotten

Paths == Staged /\ Made /\ Shown

InvA == TypeOK /\ Registry /\ AllFit /\ Paths

LEMMA InitInvA ==
  ASSUME FilesAssumption, Init
  PROVE  InvA
  <1>1. PICK f \in [Slot -> Owner] : \A s, t \in Slot : s # t => f[s] # f[t]
    BY DEF FilesAssumption
  <1>2. /\ FirstHolder \in [Slot -> Owner]
        /\ \A s, t \in Slot : s # t => FirstHolder[s] # FirstHolder[t]
    BY <1>1 DEF FirstHolder
  <1>3. \A j \in Job : job[j] = Fresh
    BY DEF Init
  <1>4. job \in [Job -> JobRecord]
    <2>1. 0 \in 0 .. Pieces
      BY DEF FilesAssumption
    <2>2. Fresh \in JobRecord
      BY <2>1 DEF Fresh, JobRecord, PC, Path
    <2> QED
      BY <2>2 DEF Init
  <1>5. \A p \in Path : file[p] \in {First, NoFile}
    BY DEF Init
  <1>6. TypeOK
    <2>1. file \in [Path -> Job \cup {First, NoFile}]
      BY DEF Init
    <2>2. toggles \in 0 .. MaxToggles
      BY DEF Init, FilesAssumption
    <2> QED
      BY <1>2, <1>4, <2>1, <2>2 DEF Init, TypeOK, JobRecord
  <1>7. Fit(Fresh)
    BY DEF Fit, Fresh, Before, Placing, Working, Online
  <1>8. AllFit
    BY <1>3, <1>7 DEF AllFit
  <1>9. \A j \in Job : ~Running(j) /\ job[j].at \notin Working
    BY <1>3 DEF Fresh, Running, Working
  <1>10. Registry
    BY <1>2, <1>9 DEF Registry, Differ, Entered, Retired, OneJobPerSession, NoJobIsForgotten, Init
  <1>11. Paths
    <2>1. "name" \in Path /\ "bak" \in Path
      BY DEF Path
    <2>2. \A p \in Path : file[p] \notin Job
      BY <1>5 DEF FilesAssumption
    <2> QED
      BY <1>9, <2>1, <2>2 DEF Paths, Staged, Made, Shown
  <1> QED
    BY <1>6, <1>8, <1>10, <1>11 DEF InvA

LEMMA StartKeepsRegistry ==
  ASSUME FilesAssumption, InvA, NEW s \in Slot, NEW op \in Ops, Start(s, op)
  PROVE  Registry'
  <1> USE DEF InvA
  <1>a. UNCHANGED <<holder, up, closing>>
    BY DEF Start, sessionVars
  <1>b. holder \in [Slot -> Owner] /\ jobs \in [Slot -> Job \cup {NoJob}] /\ NoJob \notin Job
    BY DEF TypeOK, FilesAssumption
  <1>d. Differ'
    BY <1>a DEF Registry, Differ
  <1>1. CASE /\ \A t \in Slot : jobs'[t] = Kept(t)
             /\ \A k \in Job : Retold(k, Told(k))
    <2>1. \A k \in Job : Running(k)' <=> Running(k)
      BY <1>1 DEF Retold, Running
    <2>2. Entered'
      <3> SUFFICES ASSUME NEW k \in Job, NEW t \in Slot, Running(k)', job'[k].owner = holder'[t]
                   PROVE  jobs'[t] = k
        BY DEF Entered
      <3>1. jobs[t] = k /\ job[k].owner = holder[t]
        BY <1>1, <1>a, <2>1 DEF Registry, Entered, Retold
      <3> QED
        BY <1>1, <3>1 DEF Kept, Stale
    <2>3. Retired' /\ OneJobPerSession'
      BY <1>1, <1>a, <2>1 DEF Registry, Retired, OneJobPerSession, Retold
    <2>4. NoJobIsForgotten'
      <3> SUFFICES ASSUME NEW k \in Job, Running(k)', ~job'[k].cancel
                   PROVE  \E t \in Slot : jobs'[t] = k
        BY DEF NoJobIsForgotten
      <3>1. ~Told(k) /\ ~job[k].cancel /\ Running(k)
        BY <1>1, <2>1 DEF Retold
      <3>2. PICK t \in Slot : jobs[t] = k
        BY <3>1 DEF Registry, NoJobIsForgotten
      <3> QED
        BY <1>1, <3>1, <3>2 DEF Told, Kept
    <2> QED
      BY <1>d, <2>2, <2>3, <2>4 DEF Registry
  <1>2. ASSUME NEW j \in Job, ~Busy(s),
               Begun(j, s, op),
               jobs'[s] = j,
               \A t \in Slot : t # s => jobs'[t] = Kept(t),
               \A k \in Job : k # j => Retold(k, Told(k))
        PROVE  Registry'
    <2>1. \A k \in Job : k # j => (Running(k)' <=> Running(k)) /\ job'[k].owner = job[k].owner
      BY <1>2 DEF Retold, Running
    <2>2. ~Running(j) /\ job'[j].owner = holder[s]
      BY <1>2 DEF Begun, Running
    <2>3. \A k \in Job : Running(k) => job[k].owner # holder[s]
      <3> SUFFICES ASSUME NEW k \in Job, Running(k), job[k].owner = holder[s]
                   PROVE  FALSE
        OBVIOUS
      <3>1. jobs[s] = k
        BY DEF Registry, Entered
      <3> QED
        BY <1>2, <1>b, <3>1 DEF Busy, Stale, Running
    <2>4. Entered'
      <3> SUFFICES ASSUME NEW k \in Job, NEW t \in Slot, Running(k)', job'[k].owner = holder'[t]
                   PROVE  jobs'[t] = k
        BY DEF Entered
      <3>1. CASE k = j
        <4>1. t = s
          BY <1>a, <2>2, <3>1 DEF Registry, Differ
        <4> QED
          BY <1>2, <3>1, <4>1
      <3>2. CASE k # j
        <4>1. jobs[t] = k /\ job[k].owner = holder[t] /\ t # s
          BY <1>a, <2>1, <2>3, <3>2 DEF Registry, Entered
        <4> QED
          BY <1>2, <4>1 DEF Kept, Stale
      <3> QED
        BY <3>1, <3>2
    <2>5. Retired'
      <3> SUFFICES ASSUME NEW k \in Job, Running(k)'
                   PROVE  /\ job'[k].owner \in Owner
                          /\ closing[job'[k].owner] \/ \E t \in Slot : holder[t] = job'[k].owner
        BY <1>a DEF Retired
      <3> QED
        BY <1>b, <2>1, <2>2 DEF Registry, Retired
    <2>6. OneJobPerSession'
      BY <2>1, <2>2, <2>3 DEF Registry, OneJobPerSession
    <2>7. NoJobIsForgotten'
      <3> SUFFICES ASSUME NEW k \in Job, Running(k)', ~job'[k].cancel
                   PROVE  \E t \in Slot : jobs'[t] = k
        BY DEF NoJobIsForgotten
      <3>1. CASE k = j
        BY <1>2, <3>1
      <3>2. CASE k # j
        <4>1. ~Told(k) /\ ~job[k].cancel /\ Running(k)
          BY <1>2, <2>1, <3>2 DEF Retold
        <4>2. PICK t \in Slot : jobs[t] = k
          BY <4>1 DEF Registry, NoJobIsForgotten
        <4>3. ~Stale(t)
          BY <4>1, <4>2 DEF Told
        <4>4. t # s
          BY <1>2, <1>b, <4>1, <4>2, <4>3 DEF Busy, Running
        <4> QED
          BY <1>2, <4>2, <4>3, <4>4 DEF Kept
      <3> QED
        BY <3>1, <3>2
    <2> QED
      BY <1>d, <2>4, <2>5, <2>6, <2>7 DEF Registry
  <1> QED
    BY <1>1, <1>2, StartSteps

\* Sessions come and go: who leaves a slot is closing, who enters has no job.
LEMMA SessionsKeepRegistry ==
  ASSUME FilesAssumption, InvA, NEW s \in Slot,
         Cancel(s) \/ CloseSession(s) \/ SessionEnds(s) \/ Reconnect(s) \/ Replace(s)
  PROVE  Registry'
  <1> USE DEF InvA
  <1>1. jobs' = jobs /\ \A k \in Job : Retold(k, FALSE) \/ Retold(k, TRUE)
    BY InterfaceSteps
  <1>2. \A k \in Job : /\ Running(k)' <=> Running(k)
                       /\ job'[k].owner = job[k].owner
                       /\ job[k].cancel => job'[k].cancel
    BY <1>1 DEF Retold, Running
  <1>3. OneJobPerSession' /\ NoJobIsForgotten'
    BY <1>1, <1>2 DEF Registry, OneJobPerSession, NoJobIsForgotten
  <1>4. holder \in [Slot -> Owner] /\ closing \in [Owner -> BOOLEAN]
    BY DEF TypeOK
  <1>5. CASE UNCHANGED holder
    <2>1. Differ' /\ Entered'
      BY <1>1, <1>2, <1>5 DEF Registry, Differ, Entered
    <2>2. \A o \in Owner : closing[o] => closing'[o] \/ o = holder[s]
      BY <1>4, <1>5 DEF Cancel, CloseSession, SessionEnds, Reconnect, Replace, sessionVars
    <2>3. Retired'
      <3> SUFFICES ASSUME NEW k \in Job, Running(k)
                   PROVE  /\ job[k].owner \in Owner
                          /\ closing'[job[k].owner] \/ \E t \in Slot : holder[t] = job[k].owner
        BY <1>2, <1>5 DEF Retired
      <3> QED
        BY <2>2 DEF Registry, Retired
    <2> QED
      BY <1>3, <2>1, <2>3 DEF Registry
  <1>6. CASE Replace(s)
    <2>1. PICK o \in Owner :
            /\ \A t \in Slot : holder[t] # o
            /\ ~closing[o]
            /\ holder' = [holder EXCEPT ![s] = o]
            /\ closing' = [closing EXCEPT ![holder[s]] = TRUE]
      BY <1>6 DEF Replace
    <2>2. \A k \in Job : Running(k) => job[k].owner # o
      BY <2>1 DEF Registry, Retired
    <2>3. Differ'
      BY <1>4, <2>1 DEF Registry, Differ
    <2>4. Entered'
      BY <1>1, <1>2, <1>4, <2>1, <2>2 DEF Registry, Entered
    <2>5. Retired'
      <3> SUFFICES ASSUME NEW k \in Job, Running(k)
                   PROVE  /\ job[k].owner \in Owner
                          /\ closing'[job[k].owner] \/ \E t \in Slot : holder'[t] = job[k].owner
        BY <1>2 DEF Retired
      <3>a. job[k].owner \in Owner
        BY DEF Registry, Retired
      <3>1. CASE closing[job[k].owner]
        BY <1>4, <2>1, <3>1, <3>a
      <3>2. CASE \E t \in Slot : holder[t] = job[k].owner
        <4>1. PICK t \in Slot : holder[t] = job[k].owner
          BY <3>2
        <4>2. CASE t = s
          BY <1>4, <2>1, <4>1, <4>2, <3>a
        <4>3. CASE t # s
          BY <1>4, <2>1, <4>1, <4>3, <3>a
        <4> QED
          BY <4>2, <4>3
      <3> QED
        BY <3>1, <3>2 DEF Registry, Retired
    <2> QED
      BY <1>3, <2>3, <2>4, <2>5 DEF Registry
  <1> QED
    BY <1>5, <1>6 DEF Cancel, CloseSession, SessionEnds, Reconnect, sessionVars

\* The interface touches no file, and starts a job or at most cancels it.
LEMMA InterfaceTouches ==
  ASSUME FilesAssumption, TypeOK, Interface
  PROVE  /\ TypeOK' /\ file' = file
         /\ \A k \in Job : \/ Retold(k, FALSE) \/ Retold(k, TRUE)
                           \/ \E s \in Slot, op \in Ops : Begun(k, s, op)
  <1>1. ASSUME NEW s \in Slot, NEW op \in Ops, Start(s, op)
        PROVE  /\ TypeOK' /\ file' = file
               /\ \A k \in Job : \/ Retold(k, Told(k))
                                 \/ Begun(k, s, op)
    <2>1. job' \in [Job -> JobRecord] /\ jobs' \in [Slot -> Job \cup {NoJob}]
      BY <1>1, StartSteps
    <2>2. UNCHANGED <<holder, up, closing, toggles, file>>
      BY <1>1 DEF Start, sessionVars
    <2>3. TypeOK'
      BY <2>1, <2>2 DEF TypeOK, JobRecord
    <2> QED
      BY <1>1, <2>2, <2>3, StartSteps
  <1>2. \A k \in Job : Told(k) \in BOOLEAN
    BY DEF Told
  <1> QED
    BY <1>1, <1>2, InterfaceSteps DEF Interface

\* It leaves the records' shape and the files alone.
LEMMA InterfaceKeepsPaths ==
  ASSUME FilesAssumption, InvA, Interface
  PROVE  TypeOK' /\ AllFit' /\ Paths'
  <1> USE DEF InvA
  <1>2. TypeOK' /\ file' = file /\
        \A k \in Job : \/ Retold(k, FALSE) \/ Retold(k, TRUE)
                       \/ \E s \in Slot, op \in Ops : Begun(k, s, op)
    BY InterfaceTouches
  <1>3. ASSUME NEW k \in Job
        PROVE  /\ Fit(job'[k])
               /\ job'[k].at \in Working => Retold(k, TRUE) \/ Retold(k, FALSE)
               /\ job[k].at \notin Before => Retold(k, TRUE) \/ Retold(k, FALSE)
    <2>1. CASE Retold(k, FALSE) \/ Retold(k, TRUE)
      BY <2>1 DEF AllFit, Fit, Retold
    <2>2. CASE \E s \in Slot, op \in Ops : Begun(k, s, op)
      <3>1. Fit(job'[k]) /\ job'[k].at \notin Working
        BY <2>2 DEF Begun, Fit, Before, Working, Placing, Online
      <3>2. job[k].at \in Before
        BY <2>2 DEF Begun, AllFit, Fit, Before
      <3> QED
        BY <3>1, <3>2
    <2> QED
      BY <1>2, <2>1, <2>2
  <1>4. AllFit'
    BY <1>3 DEF AllFit
  <1>5. Staged'
    BY <1>2, <1>3 DEF Paths, Staged, Retold
  <1>6. ASSUME NEW p \in Path, file[p] \in Job
        PROVE  job'[file[p]].at \notin Before
    BY <1>3, <1>6 DEF Paths, Made, Retold
  <1>7. ASSUME NEW p \in {"name", "bak"}, file[p] \in Job
        PROVE  job'[file[p]].wrote = Pieces \/ job'[file[p]].target = "name"
    <2>1. p \in Path /\ file[p] # First
      BY <1>7 DEF Path, FilesAssumption
    <2>2. job[file[p]].at \notin Before
      BY <1>7, <2>1 DEF Paths, Made
    <2> QED
      BY <1>3, <1>7, <2>1, <2>2 DEF Paths, Shown, Whole, Retold
  <1> QED
    BY <1>2, <1>4, <1>5, <1>6, <1>7 DEF Paths, Made, Shown, Whole

-----------------------------------------------------------------------------
(* A step of a job's thread. *)

\* It stays running or ends.
Calm(j) ==
  /\ Only(j)
  /\ Fit(job'[j])
  /\ job'[j].st = "running" => job[j].st = "running"

LEMMA WorkerIsCalm ==
  ASSUME FilesAssumption, InvA, NEW j \in Job, Worker(j)
  PROVE  Calm(j) /\ Running(j)
  <1> USE DEF InvA
  <1>1. JobsTyped /\ Fit(job[j]) /\ Pieces \in Nat \ {0} /\ job[j].wrote \in 0 .. Pieces
    BY DEF TypeOK, JobsTyped, JobRecord, AllFit, FilesAssumption
  <1> USE DEF Fit, Calm, Running, Only
  <1>2. CASE Begin(j)
    BY <1>1, <1>2, BeginSteps DEF Before, Working, Placing, Online, Stepped
  <1>3. CASE Stat(j)
    BY <1>1, <1>3, StatSteps DEF Before, Working, Placing, Online, Stepped, Target
  <1>4. CASE OpenSource(j)
    BY <1>1, <1>4, OpenSourceSteps DEF Before, Working, Placing, Online, Stepped
  <1>5. CASE Create(j)
    BY <1>1, <1>5, CreateSteps DEF Before, Working, Placing, Online, Stepped, Asked
  <1>6. CASE CheckPiece(j)
    BY <1>1, <1>6, CheckPieceSteps DEF Before, Working, Placing, Online, Stepped
  <1>7. CASE WritePiece(j)
    BY <1>1, <1>7, WritePieceSteps DEF Before, Working, Placing, Online, Stepped
  <1>8. CASE CheckLast(j)
    BY <1>1, <1>8, CheckLastSteps DEF Before, Working, Placing, Online, Stepped
  <1>9. CASE CloseTarget(j)
    BY <1>1, <1>9, CloseTargetSteps DEF Before, Working, Placing, Online, Stepped
  <1>10. CASE ClearBackup(j)
    BY <1>1, <1>10, ClearBackupSteps DEF Before, Working, Placing, Online, Stepped, Asked
  <1>11. CASE Backup(j)
    BY <1>1, <1>11, BackupSteps DEF Before, Working, Placing, Online, Stepped, Asked
  <1>12. CASE Swap(j)
    BY <1>1, <1>12, SwapSteps DEF Before, Working, Placing, Online, Stepped, Asked
  <1>13. CASE Restore(j)
    BY <1>1, <1>13, RestoreSteps DEF Before, Working, Placing, Online, Stepped, Asked
  <1>14. CASE DropBackup(j)
    BY <1>1, <1>14, DropBackupSteps DEF Before, Working, Placing, Online, Stepped, Asked
  <1>15. CASE CleanUp(j)
    BY <1>1, <1>15, CleanUpSteps DEF Before, Working, Placing, Online, Stepped, Asked
  <1>16. CASE Settle(j)
    BY <1>1, <1>16, SettleSteps DEF Before, Working, Placing, Online
  <1> QED
    BY <1>2, <1>3, <1>4, <1>5, <1>6, <1>7, <1>8, <1>9, <1>10, <1>11, <1>12, <1>13, <1>14, <1>15, <1>16 DEF Worker

\* The registry does not notice a thread's steps but its end.
LEMMA CalmKeepsRegistry ==
  ASSUME InvA, NEW j \in Job, Calm(j), UNCHANGED <<holder, closing, jobs>>
  PROVE  Registry'
  <1> USE DEF InvA
  <1>1. \A k \in Job : /\ Running(k)' => Running(k)
                       /\ job'[k].owner = job[k].owner
                       /\ job'[k].cancel = job[k].cancel
    BY DEF Calm, Only, Running
  <1> QED
    BY <1>1 DEF Registry, Differ, Entered, Retired, OneJobPerSession, NoJobIsForgotten

\* A thread goes forward: what it created it keeps the name of, what it wrote
\* stays written, and what it works on it has created with this connection.
Forward(j) ==
  /\ job[j].at \notin Before =>
       /\ job'[j].at \notin Before
       /\ job'[j].target = job[j].target
       /\ job[j].wrote = Pieces => job'[j].wrote = Pieces
  /\ job'[j].at \in Working =>
       /\ job[j].at \in {"create"} \cup Working
       /\ job'[j].link => job[j].link
       /\ job'[j].target = job[j].target

\* The thread's program: where each step leads, and what it changes on the way.
Route(j) ==
  /\ job[j].at = "begin"    => job'[j].at \in {"stat", "open", "err"}
  /\ job[j].at = "stat"     => job'[j].at = "create"
  /\ job[j].at = "open"     => job'[j].at \in {"create", "err"}
  /\ job[j].at = "create"   => job'[j].at \in {"copy", "err"}
  /\ job[j].at = "copy"     => job'[j].at \in {"write", "clean"}
  /\ job[j].at = "write"    => job'[j].at \in {"copy", "last", "clean"}
  /\ job[j].at = "last"     => job'[j].at \in {"close", "clean"}
  /\ job[j].at = "close"    => \/ job'[j].at = "clearbak" /\ job[j].target = "hot"
                               \/ job'[j].at = "ok" /\ job[j].target # "hot" /\ job'[j].link
                               \/ job'[j].at = "clean"
  /\ job[j].at = "clearbak" => job'[j].at = "backup"
  /\ job[j].at = "backup"   => job'[j].at \in {"swap", "clean"}
  /\ job[j].at = "swap"     => job'[j].at \in {"dropbak", "restore"}
  /\ job[j].at = "restore"  => job'[j].at = "clean"
  /\ job[j].at = "dropbak"  => job'[j].at = "ok"
  /\ job[j].at = "clean"    => job'[j].at = "err"
  /\ job[j].at \in {"ok", "err"} =>
       job'[j].at = "gone" /\ (job'[j].st = "done") = (job[j].at = "ok") /\ job'[j].link = job[j].link
  /\ job[j].at \notin {"ok", "err"} => job'[j].st = job[j].st
  /\ job[j].at \notin {"none", "gone"}
  /\ job[j].at \notin {"stat", "open"} => job'[j].target = job[j].target
  /\ job[j].wrote = Pieces => job'[j].wrote = Pieces
  /\ job'[j].wrote # job[j].wrote =>
       job[j].at = "write" /\ job'[j].at = "copy" /\ job'[j].link
  /\ job'[j].link => job[j].link

LEMMA WorkerRoute ==
  ASSUME FilesAssumption, JobsTyped, NEW j \in Job, Worker(j)
  PROVE  Route(j)
  <1> USE DEF Route
  <1>1. Pieces \in Nat /\ job[j].wrote \in Nat
    BY DEF JobsTyped, JobRecord, FilesAssumption
  <1>2. CASE Begin(j)
    BY <1>1, <1>2, BeginSteps DEF Stepped
  <1>3. CASE Stat(j)
    BY <1>1, <1>3, StatSteps
  <1>4. CASE OpenSource(j)
    BY <1>1, <1>4, OpenSourceSteps DEF Stepped
  <1>5. CASE Create(j)
    BY <1>1, <1>5, CreateSteps DEF Stepped, Asked
  <1>6. CASE CheckPiece(j)
    BY <1>1, <1>6, CheckPieceSteps DEF Stepped
  <1>7. CASE WritePiece(j)
    <2>1. job[j].at = "write" /\ job'[j].at \in {"copy", "last", "clean"} /\ job'[j].st = job[j].st
      BY <1>7, WritePieceSteps DEF Stepped
    <2>2. job'[j].target = job[j].target /\ job'[j].link \in {job[j].link, FALSE}
      BY <1>7, WritePieceSteps DEF Stepped
    <2>3. job'[j].wrote # job[j].wrote =>
            job[j].wrote < Pieces /\ job'[j].at = "copy" /\ job[j].link /\ job'[j].link = job[j].link
      BY <1>7, WritePieceSteps DEF Stepped
    <2>4. job[j].wrote = Pieces => ~(job[j].wrote < Pieces)
      BY <1>1
    <2> QED
      BY <2>1, <2>2, <2>3, <2>4
  <1>8. CASE CheckLast(j)
    BY <1>1, <1>8, CheckLastSteps DEF Stepped
  <1>9. CASE CloseTarget(j)
    BY <1>1, <1>9, CloseTargetSteps DEF Stepped
  <1>10. CASE ClearBackup(j)
    BY <1>1, <1>10, ClearBackupSteps DEF Stepped, Asked
  <1>11. CASE Backup(j)
    BY <1>1, <1>11, BackupSteps DEF Stepped, Asked
  <1>12. CASE Swap(j)
    BY <1>1, <1>12, SwapSteps DEF Stepped, Asked
  <1>13. CASE Restore(j)
    BY <1>1, <1>13, RestoreSteps DEF Stepped, Asked
  <1>14. CASE DropBackup(j)
    BY <1>1, <1>14, DropBackupSteps DEF Stepped, Asked
  <1>15. CASE CleanUp(j)
    BY <1>1, <1>15, CleanUpSteps DEF Stepped, Asked
  <1>16. CASE Settle(j)
    BY <1>1, <1>16, SettleSteps
  <1> QED
    BY <1>2, <1>3, <1>4, <1>5, <1>6, <1>7, <1>8, <1>9, <1>10, <1>11, <1>12, <1>13, <1>14, <1>15, <1>16 DEF Worker

LEMMA WorkerGoesForward ==
  ASSUME FilesAssumption, JobsTyped, NEW j \in Job, Worker(j)
  PROVE  Forward(j)
  <1>1. Route(j) /\ job[j].at \in PC
    BY WorkerRoute DEF JobsTyped, JobRecord
  <1> QED
    BY <1>1 DEF Route, Forward, Before, Working, PC

\* What a thread's step does to the paths, from where, and why nothing if so.
FileStep(j) ==
  \/ /\ file' = file
     /\ job[j].at = "create" => job'[j].at = "err"
     /\ job'[j].at \notin {"swap", "dropbak"}
     /\ job[j].at = "restore" /\ job'[j].link => ~MayRename("bak", "name")
     /\ job[j].at = "dropbak" /\ job'[j].link => ~Exists("bak")
     /\ job[j].at = "clean" /\ job'[j].link /\ job[j].target # "dest" => ~Exists(job[j].target)
  \/ /\ job[j].at = "create" /\ ~Exists(job[j].target)
     /\ file' = [file EXCEPT ![job[j].target] = j]
     /\ job'[j].at = "copy" \/ (job'[j].at = "err" /\ ~job'[j].link)
     /\ job'[j].target = job[j].target
  \/ /\ job[j].at \in {"clearbak", "dropbak"} /\ job[j].link
     /\ file' = [file EXCEPT !["bak"] = NoFile]
  \/ /\ job[j].at = "backup" /\ job[j].link /\ MayRename("name", "bak")
     /\ file' = Rename("name", "bak")
     /\ job'[j].at = "swap" \/ (job'[j].at = "clean" /\ ~job'[j].link)
  \/ /\ job[j].at = "swap" /\ job[j].link /\ MayRename("hot", "name")
     /\ file' = Rename("hot", "name")
     /\ job'[j].at = "dropbak" \/ (job'[j].at = "restore" /\ ~job'[j].link)
  \/ /\ job[j].at = "restore" /\ job[j].link /\ MayRename("bak", "name")
     /\ file' = Rename("bak", "name")
  \/ /\ job[j].at = "clean" /\ (job[j].link \/ job[j].target = "dest")
     /\ file' = [file EXCEPT ![job[j].target] = NoFile]
     /\ job'[j].at = "err"

LEMMA WorkerFileSteps ==
  ASSUME FilesAssumption, JobsTyped, NEW j \in Job, Worker(j)
  PROVE  FileStep(j)
  <1> USE DEF FileStep
  <1>1. CASE Begin(j)
    BY <1>1, BeginSteps DEF Stepped
  <1>2. CASE Stat(j)
    BY <1>2, StatSteps
  <1>3. CASE OpenSource(j)
    BY <1>3, OpenSourceSteps DEF Stepped
  <1>4. CASE Create(j)
    BY <1>4, CreateSteps DEF Stepped, Asked, MayCreate
  <1>5. CASE CheckPiece(j)
    BY <1>5, CheckPieceSteps DEF Stepped
  <1>6. CASE WritePiece(j)
    BY <1>6, WritePieceSteps DEF Stepped
  <1>7. CASE CheckLast(j)
    BY <1>7, CheckLastSteps DEF Stepped
  <1>8. CASE CloseTarget(j)
    BY <1>8, CloseTargetSteps DEF Stepped
  <1>9. CASE ClearBackup(j)
    BY <1>9, ClearBackupSteps DEF Stepped, Asked
  <1>10. CASE Backup(j)
    BY <1>10, BackupSteps DEF Stepped, Asked
  <1>11. CASE Swap(j)
    BY <1>11, SwapSteps DEF Stepped, Asked
  <1>12. CASE Restore(j)
    BY <1>12, RestoreSteps DEF Stepped, Asked
  <1>13. CASE DropBackup(j)
    BY <1>13, DropBackupSteps DEF Stepped, Asked
  <1>14. CASE CleanUp(j)
    BY <1>14, CleanUpSteps DEF Stepped, Asked
  <1>15. CASE Settle(j)
    BY <1>15, SettleSteps
  <1> QED
    BY <1>1, <1>2, <1>3, <1>4, <1>5, <1>6, <1>7, <1>8, <1>9, <1>10, <1>11, <1>12, <1>13, <1>14, <1>15 DEF Worker

\* Every path holds a content.
LEMMA WorkerFileTyped ==
  ASSUME FilesAssumption, JobsTyped, FileTyped, NEW j \in Job, FileStep(j)
  PROVE  FileTyped'
  <1>1. j \in Content /\ NoFile \in Content /\ job[j].target \in Path
    BY DEF Content, JobsTyped, JobRecord
  <1>2. "name" \in Path /\ "hot" \in Path /\ "bak" \in Path
    BY DEF Path
  <1> QED
    BY <1>1, <1>2 DEF FileStep, FileTyped, Rename

LEMMA WorkerKeepsPaths ==
  ASSUME FilesAssumption, InvA, NEW j \in Job, Worker(j)
  PROVE  Paths'
  <1> USE DEF InvA
  <1>1. /\ Calm(j) /\ Running(j) /\ Forward(j) /\ FileStep(j)
        /\ JobsTyped /\ FileTyped
    BY WorkerIsCalm, WorkerGoesForward, WorkerFileSteps
       DEF TypeOK, JobsTyped, JobRecord, FileTyped, Content
  <1>2. /\ Fit(job[j]) /\ Fit(job'[j])
        /\ \A k \in Job : k # j => job'[k] = job[k]
        /\ job[j].target \in Path
        /\ {"name", "hot", "bak"} \subseteq Path
        /\ NoFile \notin Job /\ First \notin Job
    BY <1>1 DEF Calm, Only, AllFit, JobsTyped, JobRecord, Path, FilesAssumption
  <1>3. Staged'
    <2> SUFFICES ASSUME NEW k \in Job, job'[k].at \in Working, job'[k].link, job'[k].target = "hot"
                 PROVE  file'["hot"] = k
      BY DEF Staged
    <2>1. CASE k # j
      <3>1. file["hot"] = k
        BY <1>2, <2>1 DEF Paths, Staged
      <3>2. job[j].at \in Working /\ job[j].link => job[j].target # "hot"
        BY <2>1, <3>1 DEF Paths, Staged
      <3> QED
        BY <1>1, <1>2, <2>1, <3>1, <3>2 DEF FileStep, FileTyped, Rename, Exists, Working, Fit, Placing
    <2>2. CASE k = j
      <3>1. job[j].at \in {"create"} \cup Working /\ job[j].link /\ job[j].target = "hot"
        BY <1>1, <2>2 DEF Forward
      <3>2. job[j].at \in Working => file["hot"] = j
        BY <3>1 DEF Paths, Staged
      <3> QED
        BY <1>1, <1>2, <2>2, <3>1, <3>2 DEF FileStep, FileTyped, Rename, Working
    <2> QED
      BY <2>1, <2>2
  <1>4. Made'
    <2> SUFFICES ASSUME NEW p \in Path, file'[p] \in Job
                 PROVE  job'[file'[p]].at \notin Before
      BY DEF Made
    <2>1. (\E q \in Path : file'[p] = file[q]) \/ (file'[p] = j /\ job'[j].at \in {"copy", "err"})
      BY <1>1, <1>2 DEF FileStep, FileTyped, Rename
    <2>2. CASE \E q \in Path : file'[p] = file[q]
      <3>1. PICK q \in Path : file'[p] = file[q]
        BY <2>2
      <3>2. job[file'[p]].at \notin Before
        BY <3>1 DEF Paths, Made
      <3> QED
        BY <1>1, <1>2, <3>2 DEF Forward
    <2>3. CASE file'[p] = j /\ job'[j].at \in {"copy", "err"}
      BY <2>3 DEF Before
    <2> QED
      BY <2>1, <2>2, <2>3
  <1>5. Shown'
    <2> DEFINE Good(c) == job[c].wrote = Pieces \/ job[c].target = "name"
               Good2(c) == job'[c].wrote = Pieces \/ job'[c].target = "name"
    <2> SUFFICES ASSUME NEW p \in {"name", "bak"}, file'[p] \in Job
                 PROVE  Good2(file'[p])
      BY DEF Shown, Whole
    <2>1. \/ \E q \in {"name", "bak"} : file'[p] = file[q]
          \/ file'[p] = j /\ job'[j].target = "name"
          \/ file'[p] = j /\ job[j].at = "swap"
      <3>1. job[j].at = "swap" /\ job[j].link => file["hot"] = j
        BY <1>2 DEF Paths, Staged, Working, Fit, Placing
      <3> QED
        BY <1>1, <1>2, <3>1 DEF FileStep, FileTyped, Rename, Fit
    <2>2. CASE \E q \in {"name", "bak"} : file'[p] = file[q]
      <3>1. PICK q \in {"name", "bak"} : file'[p] = file[q]
        BY <2>2
      <3>2. job[file[q]].at \notin Before /\ Good(file[q])
        BY <3>1, <1>2 DEF Paths, Made, Shown, Whole
      <3> QED
        BY <1>1, <1>2, <3>1, <3>2 DEF Forward
    <2>3. CASE file'[p] = j /\ job'[j].target = "name"
      BY <2>3
    <2>4. CASE file'[p] = j /\ job[j].at = "swap"
      BY <1>1, <1>2, <2>4 DEF Forward, Before, Fit, Placing
    <2> QED
      BY <2>1, <2>2, <2>3, <2>4
  <1> QED
    BY <1>3, <1>4, <1>5 DEF Paths

LEMMA NextKeepsInvA ==
  ASSUME FilesAssumption, InvA, [Next]_vars
  PROVE  InvA'
  <1>1. CASE Interface
    <2>1. Registry'
      BY <1>1, StartKeepsRegistry, SessionsKeepRegistry DEF Interface
    <2> QED
      BY <1>1, <2>1, InterfaceKeepsPaths DEF InvA
  <1>2. ASSUME NEW j \in Job, Worker(j)
        PROVE  InvA'
    <2>1. JobsTyped /\ FileTyped /\ TypeOK /\ AllFit
      BY DEF InvA, TypeOK, JobsTyped, JobRecord, FileTyped, Content
    <2>2. Calm(j) /\ Paths' /\ FileTyped'
      BY <1>2, <2>1, WorkerIsCalm, WorkerKeepsPaths, WorkerFileSteps, WorkerFileTyped
    <2>3. UNCHANGED <<holder, up, closing, toggles, jobs>>
      BY <1>2 DEF Worker, sessionVars
    <2>4. TypeOK'
      BY <2>1, <2>2, <2>3 DEF TypeOK, Calm, Only, JobRecord, FileTyped, Content
    <2>5. AllFit'
      BY <2>1, <2>2 DEF AllFit, Calm, Only
    <2>6. Registry'
      BY <2>2, <2>3, CalmKeepsRegistry
    <2> QED
      BY <2>2, <2>4, <2>5, <2>6 DEF InvA
  <1>3. CASE UNCHANGED vars
    BY <1>3 DEF vars, InvA, TypeOK, Registry, Differ, Entered, Retired, OneJobPerSession,
                NoJobIsForgotten, AllFit, Paths, Staged, Made, Shown, Whole, Running
  <1> QED
    BY <1>1, <1>2, <1>3 DEF Next

LEMMA InvAHolds ==
  ASSUME FilesAssumption
  PROVE  Spec => []InvA
  <1>1. Init => InvA
    BY InitInvA
  <1>2. InvA /\ [Next]_vars => InvA'
    BY NextKeepsInvA
  <1> QED
    BY <1>1, <1>2, PTL DEF Spec

-----------------------------------------------------------------------------
(* What follows for any number of threads. *)

\* One job at a time: the jobs at work belong to different sessions, however
\* sessions end, reconnect and take each other's slots (files.rs:72-83).
THEOREM JobsTakeTurns ==
  ASSUME FilesAssumption
  PROVE  Spec => []OneJobPerSession
  <1>1. InvA => OneJobPerSession
    BY DEF InvA, Registry
  <1> QED
    BY <1>1, InvAHolds, PTL

\* A running job is in the registry or was cancelled when it left it
\* (files.rs:65-71).
THEOREM JobsAreReachable ==
  ASSUME FilesAssumption
  PROVE  Spec => []NoJobIsForgotten
  <1>1. InvA => NoJobIsForgotten
    BY DEF InvA, Registry
  <1> QED
    BY <1>1, InvAHolds, PTL

\* What a reader finds under the name is whole or being created there, with
\* any number of uploads at once and wherever a connection breaks
\* (files.rs:263-266).
THEOREM ReadersSeeWholeFiles ==
  ASSUME FilesAssumption
  PROVE  Spec => []ReaderSeesWhole
  <1>1. InvA => ReaderSeesWhole
    <2>1. "name" \in Path
      BY DEF Path
    <2> QED
      BY <2>1 DEF InvA, TypeOK, Paths, Shown, ReaderSeesWhole, Exists, Whole
  <1> QED
    BY <1>1, InvAHolds, PTL

\* Content gives way to nothing but absence, at every path, in every step
\* (files.rs:245, 293-315).
THEOREM NothingIsOverwritten ==
  ASSUME FilesAssumption
  PROVE  Spec => NeverOverwrites
  <1> DEFINE Step == \A p \in Path : Exists(p) /\ file'[p] # file[p] => file'[p] = NoFile
  <1>1. ASSUME InvA, NEW j \in Job, Worker(j)
        PROVE  Step
    <2>1. FileStep(j) /\ FileTyped /\ {"name", "hot", "bak"} \subseteq Path
      BY <1>1, WorkerFileSteps DEF InvA, TypeOK, JobsTyped, JobRecord, FileTyped, Content, Path
    <2>2. job[j].target \in Path
      BY <1>1 DEF InvA, TypeOK
    <2> QED
      BY <2>1, <2>2 DEF FileStep, FileTyped, Rename, MayRename, Exists
  <1>2. ASSUME Interface
        PROVE  file' = file
    BY <1>2 DEF Interface, Start, Cancel, CloseSession, SessionEnds, Reconnect, Replace
  <1>3. InvA /\ [Next]_vars => [Step]_file
    BY <1>1, <1>2 DEF Next, vars
  <1> QED
    BY <1>3, InvAHolds, PTL DEF Spec, NeverOverwrites

-----------------------------------------------------------------------------
(* The invariant that holds for one thread at a time. *)

\* One thread at a time, of finitely many jobs.
Single == MaxRunning <= 1 /\ IsFiniteSet(Job)

Alone == \A i, j \in Job : Running(i) /\ Running(j) => i = j

\* A job at work is the one whose content is at the path it works on.
Mine == \A j \in Job : job[j].at \in Working /\ job[j].link => file[job[j].target] = j

\* Its content is nowhere else, but under the name once it has been swapped.
Own ==
  \A j \in Job, p \in Path : Running(j) /\ file[p] = j =>
    \/ p = job[j].target
    \/ p = "name" /\ (job[j].at \in {"dropbak", "ok"} \/ ~job[j].link)

Swapped == \A j \in Job : job[j].at = "dropbak" => file["name"] = j

\* Between backup and swap the name is free and the backup there.
Apart ==
  \A j \in Job : job[j].at = "swap" \/ (job[j].at = "restore" /\ job[j].link) =>
    ~Exists("name") /\ Exists("bak")

\* Downloads write none of the three names.
Uploaded == \A p \in {"name", "hot", "bak"} : file[p] \in Job => Upload(file[p])

\* A version that stands under the backup name only: either its job is about
\* to swap or to put it back, or the temporary name is taken for good, so that
\* no later job comes to remove the backup.
Cover ==
  Standing("bak") /\ ~Standing("name") =>
    /\ file["hot"] \in Job
    /\ Broken(file["hot"]) \/ job[file["hot"]].at \in {"swap", "restore"}

\* As long as no connection broke, the temporary file and the backup belong to
\* a job at work.
Tidy ==
  (\A j \in Job : job[j].link) =>
    /\ Exists("hot") => /\ file["hot"] \in Job
                        /\ job[file["hot"]].at \in Working
                        /\ job[file["hot"]].target = "hot"
    /\ Exists("bak") => \E j \in Job : job[j].at \in {"swap", "restore", "dropbak"}

Places == Mine /\ Own /\ Swapped /\ Apart /\ Uploaded

InvB == Alone /\ Places /\ Cover /\ Tidy

\* A content whose version stands: Standing, said of the content.
Stands(c) ==
  c = First \/ (c \in Job /\ job[c].wrote = Pieces /\ (Landed(c) \/ ~job[c].link))

LEMMA StandingIsStands ==
  ASSUME FilesAssumption, NEW p
  PROVE  /\ Standing(p) <=> Stands(file[p])
         /\ Standing(p)' <=> Stands(file[p])'
  BY DEF FilesAssumption, Standing, Stands, Whole, Broken

LEMMA InitInvB ==
  ASSUME FilesAssumption, Init
  PROVE  InvB
  <1>1. \A j \in Job : job[j] = Fresh
    BY DEF Init
  <1>2. /\ \A p \in Path : file[p] \notin Job
        /\ \A p \in {"hot", "bak"} : file[p] = NoFile
    BY DEF Init, FilesAssumption, Path
  <1>3. \A j \in Job : ~Running(j) /\ job[j].at = "none"
    BY <1>1 DEF Fresh, Running
  <1>4. Alone /\ Mine /\ Own /\ Swapped /\ Apart
    BY <1>3 DEF Alone, Mine, Own, Swapped, Apart, Working
  <1>5. Uploaded
    BY <1>2 DEF Uploaded, Path
  <1>6. Cover
    <2>1. ~Stands(file["bak"])
      BY <1>2 DEF Stands, FilesAssumption
    <2> QED
      BY <2>1, StandingIsStands DEF Cover
  <1>7. Tidy
    BY <1>2 DEF Tidy, Exists
  <1> QED
    BY <1>4, <1>5, <1>6, <1>7 DEF InvB, Places

\* The guard of Start lets no second thread in.
LEMMA StartKeepsAlone ==
  ASSUME FilesAssumption, Single, InvA, InvB, NEW s \in Slot, NEW op \in Ops, Start(s, op)
  PROVE  Alone'
  <1> DEFINE R == {k \in Job : job[k].st = "running"}
  <1>1. IsFiniteSet(R)
    BY FS_Subset DEF Single
  <1>2. Cardinality(R) \in Nat /\ Cardinality(R) < MaxRunning /\ MaxRunning \in Nat
    BY <1>1, FS_CardinalityType DEF Start, FilesAssumption
  <1>3. Cardinality(R) = 0
    <2> HIDE DEF R
    <2> QED
      BY <1>2 DEF Single
  <1>4. R = {}
    BY <1>1, <1>3, FS_EmptySet
  <1>5. \A k \in Job : ~Running(k)
    BY <1>4 DEF Running
  <1>6. TypeOK
    BY DEF InvA
  <1>7. CASE \A k \in Job : Retold(k, Told(k))
    BY <1>5, <1>7 DEF Alone, Running, Retold
  <1>8. ASSUME NEW j \in Job, \A k \in Job : k # j => Retold(k, Told(k))
        PROVE  Alone'
    BY <1>5, <1>8 DEF Alone, Running, Retold
  <1> QED
    BY <1>6, <1>7, <1>8, StartSteps

LEMMA InterfaceKeepsInvB ==
  ASSUME FilesAssumption, Single, InvA, InvB, Interface
  PROVE  InvB'
  <1> DEFINE Still(k) == Retold(k, FALSE) \/ Retold(k, TRUE)
  <1>1. file' = file /\ \A k \in Job : Still(k) \/ \E s \in Slot, op \in Ops : Begun(k, s, op)
    BY InterfaceTouches DEF InvA
  <1>2. ASSUME NEW k \in Job, ~Still(k)
        PROVE  /\ \A p \in Path : file[p] # k
               /\ job[k].at = "none" /\ job[k].link
               /\ job'[k].link /\ job'[k].at \in {"begin", "gone"}
    <2>2. job[k].st = "none" /\ job'[k].link /\ job'[k].at \in {"begin", "gone"}
      BY <1>1, <1>2 DEF Begun
    <2>3. job[k].at = "none" /\ job[k].link
      BY <2>2 DEF InvA, AllFit, Fit, Online
    <2>4. \A p \in Path : file[p] # k
      BY <2>3 DEF InvA, Paths, Made, Before
    <2> QED
      BY <2>2, <2>3, <2>4
  <1>3. \A k \in Job : Still(k) =>
          /\ job'[k].at = job[k].at /\ job'[k].st = job[k].st /\ job'[k].op = job[k].op
          /\ job'[k].target = job[k].target /\ job'[k].wrote = job[k].wrote
          /\ job'[k].link = job[k].link
    BY DEF Retold
  <1> HIDE DEF Still
  <1>4. Alone'
    <2>1. CASE \E s \in Slot, op \in Ops : Start(s, op)
      BY <2>1, StartKeepsAlone
    <2>2. CASE \E s \in Slot :
                 Cancel(s) \/ CloseSession(s) \/ SessionEnds(s) \/ Reconnect(s) \/ Replace(s)
      <3>1. \A k \in Job : Retold(k, FALSE) \/ Retold(k, TRUE)
        BY <2>2, InterfaceSteps DEF InvA
      <3> QED
        BY <3>1 DEF InvB, Alone, Running, Retold
    <2> QED
      BY <2>1, <2>2 DEF Interface
  <1>5. Places'
    <2>1. {"name", "hot", "bak"} \subseteq Path
      BY DEF Path
    <2>2. Mine' /\ Swapped' /\ Apart'
      BY <1>1, <1>2, <1>3 DEF InvB, Places, Mine, Swapped, Apart, Working, Exists
    <2>3. Own'
      BY <1>1, <1>2, <1>3 DEF InvB, Places, Own, Running
    <2>4. Uploaded'
      BY <1>1, <1>2, <1>3, <2>1 DEF InvB, Places, Uploaded, Upload
    <2> QED
      BY <2>2, <2>3, <2>4 DEF Places
  <1>6. ASSUME NEW p \in Path
        PROVE  Stands(file[p])' <=> Stands(file[p])
    BY <1>1, <1>2, <1>3 DEF Stands, Landed
  <1>7. Cover'
    <2> SUFFICES ASSUME Standing("bak")', ~Standing("name")'
                 PROVE  /\ file["hot"] \in Job
                        /\ Broken(file["hot"])' \/ job'[file["hot"]].at \in {"swap", "restore"}
      BY <1>1 DEF Cover
    <2>1. Stands(file["bak"])' /\ ~Stands(file["name"])'
      BY StandingIsStands
    <2>2. "bak" \in Path /\ "name" \in Path /\ "hot" \in Path
      BY DEF Path
    <2>3. Standing("bak") /\ ~Standing("name")
      BY <2>1, <2>2, <1>6, StandingIsStands
    <2> QED
      BY <1>1, <1>2, <1>3, <2>2, <2>3 DEF InvB, Cover, Broken, Landed
  <1>8. Tidy'
    <2> SUFFICES ASSUME \A j \in Job : job'[j].link
                 PROVE  /\ Exists("hot") => /\ file["hot"] \in Job
                                            /\ job'[file["hot"]].at \in Working
                                            /\ job'[file["hot"]].target = "hot"
                        /\ Exists("bak") => \E j \in Job : job'[j].at \in {"swap", "restore", "dropbak"}
      BY <1>1 DEF Tidy, Exists
    <2>1. \A j \in Job : job[j].link
      BY <1>2, <1>3
    <2> QED
      BY <1>1, <1>2, <1>3, <2>1 DEF InvB, Tidy, Working
  <1> QED
    BY <1>4, <1>5, <1>7, <1>8 DEF InvB

-----------------------------------------------------------------------------
(* A thread's step, when it is the only one. *)

\* What such a step relies on.
Solo(j) ==
  /\ Fit(job[j]) /\ Fit(job'[j])
  /\ Route(j) /\ FileStep(j) /\ Running(j)
  /\ job'[j].op = job[j].op
  /\ \A k \in Job : k # j => job'[k] = job[k]
  /\ \A k \in Job : k # j => job[k].at \in {"none", "gone"} /\ job[k].st # "running"
  /\ \A p \in Path : file[p] = j => job[j].at \notin Before
  /\ FileTyped /\ FileTyped'
  /\ job[j].target \in Path /\ job[j].at \in PC /\ job[j].link \in BOOLEAN
  /\ job[j].op \in {"replace", "create", "download", "none"}
  /\ {"name", "hot", "bak"} \subseteq Path
  /\ NoFile \notin Job /\ First \notin Job /\ NoFile # First /\ Pieces # 0

LEMMA WorkerIsSolo ==
  ASSUME FilesAssumption, InvA, InvB, NEW j \in Job, Worker(j)
  PROVE  Solo(j)
  <1>1. JobsTyped /\ FileTyped
    BY DEF InvA, TypeOK, JobsTyped, JobRecord, FileTyped, Content
  <1>2. Calm(j) /\ Running(j) /\ Route(j) /\ FileStep(j) /\ FileTyped'
    BY <1>1, WorkerIsCalm, WorkerRoute, WorkerFileSteps, WorkerFileTyped
  <1>3. Fit(job[j]) /\ Fit(job'[j]) /\ \A k \in Job : k # j => job'[k] = job[k]
    BY <1>2 DEF Calm, Only, InvA, AllFit
  <1>4. ASSUME NEW k \in Job, k # j
        PROVE  job[k].at \in {"none", "gone"} /\ job[k].st # "running"
    <2>1. ~Running(k) /\ Fit(job[k])
      BY <1>2, <1>4 DEF InvA, InvB, Alone, AllFit
    <2> QED
      BY <2>1 DEF Running, Fit
  <1>5. \A p \in Path : file[p] = j => job[j].at \notin Before
    BY DEF InvA, Paths, Made
  <1>6. /\ job[j].target \in Path /\ job[j].at \in PC /\ job[j].link \in BOOLEAN
        /\ job[j].op \in {"replace", "create", "download", "none"}
        /\ {"name", "hot", "bak"} \subseteq Path
        /\ NoFile \notin Job /\ First \notin Job /\ NoFile # First /\ Pieces # 0
    BY <1>1 DEF JobsTyped, JobRecord, Path, FilesAssumption
  <1> QED
    BY <1>1, <1>2, <1>3, <1>4, <1>5, <1>6 DEF Solo, Calm, Only

LEMMA WorkerKeepsAlone ==
  ASSUME InvB, NEW j \in Job, Solo(j)
  PROVE  Alone'
  BY DEF InvB, Alone, Solo, Running

LEMMA WorkerKeepsMine ==
  ASSUME InvB, NEW j \in Job, Solo(j)
  PROVE  Mine'
  <1> USE DEF Solo
  <1> SUFFICES ASSUME job'[j].at \in Working, job'[j].link
               PROVE  file'[job'[j].target] = j
    BY DEF Mine, Working
  <1>1. /\ job[j].at \in {"create"} \cup Working /\ job[j].link
        /\ job'[j].target = job[j].target
    BY DEF Route, Working, PC
  <1>2. job[j].at \in Working => file[job[j].target] = j
    BY <1>1 DEF InvB, Places, Mine
  <1> QED
    BY <1>1, <1>2 DEF FileStep, FileTyped, Rename, Working, Fit, Placing

LEMMA WorkerKeepsOwn ==
  ASSUME InvB, NEW j \in Job, Solo(j)
  PROVE  Own'
  <1> USE DEF Solo
  <1> SUFFICES ASSUME NEW p \in Path, job'[j].st = "running", file'[p] = j
               PROVE  \/ p = job'[j].target
                      \/ p = "name" /\ (job'[j].at \in {"dropbak", "ok"} \/ ~job'[j].link)
    <2>1. \A k \in Job : Running(k)' => k = j
      BY DEF Running, Fit
    <2> QED
      BY <2>1 DEF Own, Running
  <1>1. \A q \in Path : file[q] = j =>
          \/ q = job[j].target
          \/ q = "name" /\ (job[j].at \in {"dropbak", "ok"} \/ ~job[j].link)
    BY DEF InvB, Places, Own
  <1>2. job[j].at \notin {"stat", "open"} => job'[j].target = job[j].target
    BY DEF Route
  <1>3. CASE file[p] = j
    <2>1. job[j].at \notin Before
      BY <1>3
    <2>2. CASE p = job[j].target
      BY <1>2, <2>1, <2>2 DEF Before
    <2>3. CASE p = "name" /\ ~job[j].link
      BY <2>3 DEF Route
    <2>4. CASE p = "name" /\ job[j].at \in {"dropbak", "ok"}
      BY <2>4 DEF Route, Fit
    <2> QED
      BY <1>1, <1>3, <2>2, <2>3, <2>4
  <1>4. CASE file[p] # j
    <2>1. \/ p = job[j].target /\ job[j].at = "create"
          \/ p = "bak" /\ file["name"] = j /\ job[j].at = "backup" /\ job[j].link
          \/ p = "name" /\ (job'[j].at = "dropbak" \/ ~job'[j].link)
          \/ p = "name" /\ file["bak"] = j /\ job[j].at = "restore" /\ job[j].link
      BY <1>4 DEF FileStep, FileTyped, Rename
    <2>2. job[j].at \in {"backup", "restore"} => job[j].target = "hot"
      BY DEF Fit, Placing
    <2> QED
      BY <1>1, <1>2, <2>1, <2>2
  <1> QED
    BY <1>3, <1>4

LEMMA WorkerKeepsPlaces ==
  ASSUME InvB, NEW j \in Job, Solo(j)
  PROVE  Places'
  <1> USE DEF Solo
  <1>1. job[j].at \in Working /\ job[j].link => file[job[j].target] = j
    BY DEF InvB, Places, Mine
  <1>2. Swapped'
    <2> SUFFICES ASSUME job'[j].at = "dropbak"
                 PROVE  file'["name"] = j
      BY DEF Swapped
    <2>1. job[j].at = "swap" /\ job[j].link /\ job[j].target = "hot"
      BY DEF Route, PC, Fit, Placing, Online
    <2>2. file["hot"] = j
      BY <1>1, <2>1 DEF Working
    <2> QED
      BY <2>1, <2>2 DEF FileStep, FileTyped, Rename
  <1>3. Apart'
    <2> SUFFICES ASSUME job'[j].at = "swap" \/ (job'[j].at = "restore" /\ job'[j].link)
                 PROVE  ~Exists("name")' /\ Exists("bak")'
      BY DEF Apart
    <2>1. CASE job'[j].at = "swap"
      <3>1. job[j].at = "backup"
        BY <2>1 DEF Route, PC
      <3> QED
        BY <2>1, <3>1 DEF FileStep, FileTyped, Rename, MayRename, Exists
    <2>2. CASE job'[j].at = "restore" /\ job'[j].link
      <3>1. job[j].at = "swap"
        BY <2>2 DEF Route, PC
      <3>2. ~Exists("name") /\ Exists("bak")
        BY <3>1 DEF InvB, Places, Apart
      <3>3. file' = file
        BY <2>2, <3>1 DEF FileStep
      <3> QED
        BY <3>2, <3>3 DEF Exists
    <2> QED
      BY <2>1, <2>2
  <1>4. Uploaded'
    <2> SUFFICES ASSUME NEW p \in {"name", "hot", "bak"}, file'[p] \in Job
                 PROVE  job'[file'[p]].op \in {"replace", "create"}
      BY DEF Uploaded, Upload
    <2>1. \/ \E q \in {"name", "hot", "bak"} : file'[p] = file[q]
          \/ file'[p] = j /\ p = job[j].target /\ job[j].at = "create"
      BY DEF FileStep, FileTyped, Rename
    <2>2. CASE \E q \in {"name", "hot", "bak"} : file'[p] = file[q]
      BY <2>2 DEF InvB, Places, Uploaded, Upload
    <2>3. CASE file'[p] = j /\ p = job[j].target /\ job[j].at = "create"
      <3>1. job'[j].op \in {"replace", "create"}
        BY <2>3 DEF Fit
      <3> QED
        BY <2>3, <3>1
    <2> QED
      BY <2>1, <2>2, <2>3
  <1> QED
    BY <1>2, <1>3, <1>4, WorkerKeepsMine, WorkerKeepsOwn DEF Places

\* A version that stands goes on standing; one that does not can only come to
\* stand if it is j's, when j lands or loses its connection.
LEMMA StandingStays ==
  ASSUME NEW j \in Job, Solo(j), NEW c
  PROVE  /\ Stands(c) => Stands(c)'
         /\ Stands(c)' /\ ~Stands(c) =>
              /\ c = j
              /\ ~Landed(j) /\ job[j].link /\ job[j].wrote = Pieces
              /\ Landed(j)' \/ ~job'[j].link
         /\ c # j => (Stands(c)' <=> Stands(c))
  <1> USE DEF Solo
  <1>1. Landed(j) => Landed(j)'
    BY DEF Landed, Route, Fit
  <1>2. job[j].wrote = Pieces => job'[j].wrote = Pieces
    BY DEF Route
  <1>3. ~job[j].link => ~job'[j].link
    BY DEF Route
  <1>4. job[j].wrote # Pieces /\ job'[j].wrote = Pieces => ~Landed(j)' /\ job'[j].link
    BY DEF Route, Landed, Fit
  <1> QED
    BY <1>1, <1>2, <1>3, <1>4 DEF Stands, Landed

LEMMA WorkerKeepsCover ==
  ASSUME FilesAssumption, InvB, NEW j \in Job, Solo(j)
  PROVE  Cover'
  <1> USE DEF Solo
  <1> DEFINE Guarded(h) == h \in Job /\ (Broken(h) \/ job[h].at \in {"swap", "restore"})
  <1> SUFFICES ASSUME Stands(file["bak"])', ~Stands(file["name"])'
               PROVE  /\ file'["hot"] \in Job
                      /\ Broken(file["hot"])' \/ job'[file'["hot"]].at \in {"swap", "restore"}
    BY StandingIsStands DEF Cover
  <1>1. file'["bak"] # NoFile
    BY DEF Stands
  <1>2. Stands(file["bak"]) /\ ~Stands(file["name"]) => Guarded(file["hot"])
    BY StandingIsStands DEF InvB, Cover
  <1>3. \A p \in Path : file[p] = j =>
          p = job[j].target \/ (p = "name" /\ (job[j].at \in {"dropbak", "ok"} \/ ~job[j].link))
    BY DEF InvB, Places, Own
  <1>4. job[j].at \in Working /\ job[j].link => file[job[j].target] = j
    BY DEF InvB, Places, Mine
  <1>5. file["bak"] # j
    BY <1>3 DEF Fit
  <1>6. ASSUME NEW h, h # j, Guarded(h)
        PROVE  h \in Job /\ Broken(h)' /\ Broken(h)
    BY <1>6 DEF Broken, Landed
  <1> HIDE DEF Guarded
  <1>7. CASE file' = file
    <2>1. Stands(file["bak"])
      BY <1>5, <1>7, StandingStays
    <2>2. ~Stands(file["name"])
      BY <1>7, StandingStays
    <2>3. Guarded(file["hot"])
      BY <1>2, <2>1, <2>2
    <2>4. CASE file["hot"] # j
      BY <1>6, <1>7, <2>3, <2>4
    <2>5. CASE file["hot"] = j /\ ~job[j].link
      <3>1. ~Landed(j)
        BY <2>3, <2>5 DEF Guarded, Broken, Fit, Online, Landed
      <3>2. Broken(j)'
        BY <2>5, <3>1 DEF Broken, Landed, Route, Fit, Online, PC
      <3> QED
        BY <1>7, <2>5, <3>2
    <2>6. CASE file["hot"] = j /\ job[j].link
      <3>1. job[j].at \in {"swap", "restore"}
        BY <2>3, <2>6 DEF Guarded, Broken
      <3>2. CASE job[j].at = "swap"
        <4>1. job'[j].at = "restore"
          BY <1>7, <3>2 DEF Route, FileStep, FileTyped, Rename, MayRename, Exists
        <4> QED
          BY <1>7, <2>6, <4>1
      <3>3. CASE job[j].at = "restore"
        <4>1. ~Exists("name") /\ Exists("bak")
          BY <2>6, <3>3 DEF InvB, Places, Apart
        <4>2. ~job'[j].link
          BY <1>7, <3>3, <4>1 DEF FileStep, MayRename, FileTyped, Rename, Exists
        <4>3. Broken(j)'
          BY <3>3, <4>2 DEF Broken, Landed, Route, Fit
        <4> QED
          BY <1>7, <2>6, <4>3
      <3> QED
        BY <3>1, <3>2, <3>3
    <2> QED
      BY <2>4, <2>5, <2>6
  <1>8. CASE /\ job[j].at = "create" /\ ~Exists(job[j].target)
             /\ file' = [file EXCEPT ![job[j].target] = j]
    <2>1. file["hot"] # j /\ file["name"] # j
      BY <1>8 DEF Before
    <2>2. job[j].target # "bak" /\ file'["bak"] = file["bak"]
      BY <1>8 DEF Fit, FileTyped
    <2>3. Stands(file["bak"])
      BY <1>5, <2>2, StandingStays
    <2>4. ~Stands(file["name"])
      <3>1. CASE job[j].target = "name"
        BY <1>8, <3>1 DEF Exists, Stands
      <3>2. CASE job[j].target # "name"
        <4>1. file'["name"] = file["name"]
          BY <1>8, <3>2 DEF FileTyped
        <4> QED
          BY <4>1, StandingStays
      <3> QED
        BY <3>1, <3>2
    <2>5. Guarded(file["hot"])
      BY <1>2, <2>3, <2>4
    <2>6. job[j].target # "hot"
      BY <1>8, <2>5 DEF Guarded, Exists
    <2>7. file'["hot"] = file["hot"]
      BY <1>8, <2>6 DEF FileTyped
    <2> QED
      BY <1>6, <2>1, <2>5, <2>7
  <1>9. CASE /\ job[j].at = "backup" /\ job[j].link
             /\ file' = Rename("name", "bak")
             /\ job'[j].at = "swap" \/ (job'[j].at = "clean" /\ ~job'[j].link)
    <2>1. file["hot"] = j
      BY <1>4, <1>9 DEF Working, Fit, Placing
    <2>2. file'["hot"] = j
      BY <1>9, <2>1 DEF Rename, FileTyped
    <2>3. job'[j].at = "clean" /\ ~job'[j].link => Broken(j)'
      BY DEF Broken, Landed, Fit
    <2> QED
      BY <1>9, <2>2, <2>3
  <1>10. CASE /\ job[j].at = "swap" /\ job[j].link
              /\ file' = Rename("hot", "name")
              /\ job'[j].at = "dropbak" \/ (job'[j].at = "restore" /\ ~job'[j].link)
    <2>1. file["hot"] = j
      BY <1>4, <1>10 DEF Working, Fit, Placing
    <2>2. file'["name"] = j /\ job'[j].wrote = Pieces
      BY <1>10, <2>1 DEF Rename, FileTyped, Route, Fit, Placing
    <2>3. Stands(file["name"])'
      BY <1>10, <2>2 DEF Stands, Landed
    <2> QED
      BY <2>3
  <1>11. CASE /\ job[j].at = "clean" /\ (job[j].link \/ job[j].target = "dest")
              /\ file' = [file EXCEPT ![job[j].target] = NoFile]
    <2>1. file'["bak"] = file["bak"]
      BY <1>11 DEF FileTyped, Fit
    <2>2. Stands(file["bak"])
      BY <1>5, <2>1, StandingStays
    <2>3. job[j].target # "dest" => file[job[j].target] = j /\ ~Landed(j) /\ job[j].link
      BY <1>4, <1>11 DEF Working, Landed, Fit
    <2>4. ~Stands(file["name"])
      <3>1. CASE job[j].target = "name"
        BY <2>3, <3>1 DEF Stands
      <3>2. CASE job[j].target # "name"
        <4>1. file'["name"] = file["name"]
          BY <1>11, <3>2 DEF FileTyped
        <4> QED
          BY <4>1, StandingStays
      <3> QED
        BY <3>1, <3>2
    <2>5. Guarded(file["hot"])
      BY <1>2, <2>2, <2>4
    <2>6. file["hot"] = j => job[j].target = "hot"
      BY <1>3
    <2>7. job[j].target # "hot"
      BY <1>11, <2>3, <2>5 DEF Guarded, Broken
    <2>8. file'["hot"] = file["hot"]
      BY <1>11, <2>7 DEF FileTyped
    <2> QED
      BY <1>6, <2>5, <2>6, <2>7, <2>8
  <1>12. CASE file' = [file EXCEPT !["bak"] = NoFile] \/ file' = Rename("bak", "name")
    BY <1>1, <1>12 DEF Rename, FileTyped
  <1> QED
    BY <1>7, <1>8, <1>9, <1>10, <1>11, <1>12 DEF FileStep

LEMMA WorkerKeepsTidy ==
  ASSUME InvB, NEW j \in Job, Solo(j)
  PROVE  Tidy'
  <1> USE DEF Solo
  <1> SUFFICES ASSUME \A k \in Job : job'[k].link
               PROVE  /\ file'["hot"] # NoFile => /\ file'["hot"] \in Job
                                                  /\ job'[file'["hot"]].at \in Working
                                                  /\ job'[file'["hot"]].target = "hot"
                      /\ file'["bak"] # NoFile =>
                           \E k \in Job : job'[k].at \in {"swap", "restore", "dropbak"}
    BY DEF Tidy, Exists
  <1>1. \A k \in Job : job[k].link
    BY DEF Route
  <1>2. ASSUME file["hot"] # NoFile
        PROVE  file["hot"] = j /\ job[j].at \in Working /\ job[j].target = "hot"
    BY <1>1, <1>2 DEF InvB, Tidy, Exists, Working
  <1>3. ASSUME file["bak"] # NoFile
        PROVE  job[j].at \in {"swap", "restore", "dropbak"}
    BY <1>1, <1>3 DEF InvB, Tidy, Exists
  <1>4. ASSUME file'["hot"] # NoFile
        PROVE  file'["hot"] = j /\ job'[j].at \in Working /\ job'[j].target = "hot"
    <2>1. CASE job[j].at = "create"
      BY <1>2, <1>4, <2>1 DEF FileStep, FileTyped, Rename, Working
    <2>2. CASE job[j].at # "create"
      <3>1. file["hot"] # NoFile /\ file'["hot"] = file["hot"]
        BY <1>4, <2>2 DEF FileStep, FileTyped, Rename
      <3>2. file["hot"] = j /\ job[j].at \in Working /\ job[j].target = "hot"
        BY <1>2, <3>1
      <3>3. job'[j].at \in Working \cup {"dropbak", "err"} /\ job'[j].target = "hot"
        BY <3>2 DEF Route, Working
      <3>4. job'[j].at # "dropbak"
        BY <1>4, <3>2 DEF Route, Working, FileStep, FileTyped, Rename
      <3>5. job'[j].at # "err"
        BY <1>4, <3>1, <3>2 DEF Route, Working, FileStep, FileTyped, Rename, Exists
      <3> QED
        BY <3>1, <3>2, <3>3, <3>4, <3>5
    <2> QED
      BY <2>1, <2>2
  <1>5. ASSUME file'["bak"] # NoFile
        PROVE  job'[j].at \in {"swap", "restore", "dropbak"}
    <2>1. CASE file["bak"] = NoFile
      BY <1>5, <2>1 DEF FileStep, FileTyped, Rename, Fit
    <2>2. CASE file["bak"] # NoFile
      <3>1. job[j].at \in {"swap", "restore", "dropbak"}
        BY <1>3, <2>2
      <3>2. job[j].at # "restore"
        <4> SUFFICES ASSUME job[j].at = "restore" PROVE FALSE
          OBVIOUS
        <4>1. MayRename("bak", "name")
          BY <1>1 DEF InvB, Places, Apart, MayRename
        <4> QED
          BY <1>5, <4>1 DEF FileStep, FileTyped, Rename
      <3>3. job[j].at # "dropbak"
        BY <1>5, <2>2 DEF FileStep, FileTyped, Rename, Exists
      <3> QED
        BY <3>1, <3>2, <3>3 DEF Route
    <2> QED
      BY <2>1, <2>2
  <1> QED
    BY <1>4, <1>5

LEMMA InvBHolds ==
  ASSUME FilesAssumption, Single
  PROVE  Spec => [](InvA /\ InvB)
  <1>1. Init => InvA /\ InvB
    BY InitInvA, InitInvB
  <1>2. ASSUME InvA, InvB, NEW j \in Job, Worker(j)
        PROVE  InvB'
    <2>1. Solo(j)
      BY <1>2, WorkerIsSolo
    <2> QED
      BY <1>2, <2>1, WorkerKeepsAlone, WorkerKeepsPlaces, WorkerKeepsCover, WorkerKeepsTidy DEF InvB
  <1>3. InvA /\ InvB /\ UNCHANGED vars => InvB'
    BY DEF vars, InvB, Places, Alone, Mine, Own, Swapped, Apart, Uploaded, Cover, Tidy,
           Running, Exists, Upload, Standing, Whole, Broken, Landed
  <1>4. InvA /\ InvB /\ [Next]_vars => InvA' /\ InvB'
    BY <1>2, <1>3, NextKeepsInvA, InterfaceKeepsInvB DEF Next
  <1> QED
    BY <1>1, <1>4, PTL DEF Spec

\* After the last job ended neither the temporary file nor the backup is left,
\* if no connection broke (files.rs:289-315).
THEOREM NothingIsLeft ==
  ASSUME FilesAssumption, Single
  PROVE  Spec => []NothingLeftBehind
  <1>1. InvA /\ InvB => NothingLeftBehind
    <2> SUFFICES ASSUME InvA, InvB, \A j \in Job : ~Running(j) /\ job[j].link
                 PROVE  ~Exists("hot") /\ ~Exists("bak")
      BY DEF NothingLeftBehind
    <2>1. \A j \in Job : job[j].at \in {"none", "gone"}
      BY DEF InvA, AllFit, Fit, Running
    <2> QED
      BY <2>1 DEF InvB, Tidy, Working
  <1> QED
    BY <1>1, InvBHolds, PTL

-----------------------------------------------------------------------------
(* Uploads implement Replacement, one thread at a time.                    *)

\* The refinement mapping of Contract.
Version ==
  IF Standing("name") THEN file["name"]
  ELSE IF Standing("bak") THEN file["bak"] ELSE NoFile

Outcome(j) ==
  IF ~Upload(j) THEN "none"
  ELSE IF Landed(j) THEN "landed"
  ELSE IF Broken(j) THEN "broken"
  ELSE IF job[j].at \in {"err", "gone"} THEN "failed"
  ELSE "none"

Outcomes == [j \in Job |-> Outcome(j)]

LEMMA InitImplements ==
  ASSUME FilesAssumption, Init
  PROVE  Contract!Init
  <1>1. \A j \in Job : job[j] = Fresh
    BY DEF Init
  <1>2. \A j \in Job : Outcome(j) = "none"
    BY <1>1 DEF Outcome, Upload, Fresh
  <1>3. file["name"] \in {First, NoFile} /\ file["bak"] = NoFile
    BY DEF Init, Path
  <1>4. Version \in {First, NoFile}
    BY <1>3 DEF Version, Standing, FilesAssumption
  <1> QED
    BY <1>2, <1>4 DEF Contract!Init, Version, Outcome

\* The version changes only to j's, when j's upload lands or its connection
\* breaks; and when it lands, it does.
LEMMA VersionSteps ==
  ASSUME FilesAssumption, InvB, NEW j \in Job, Solo(j)
  PROVE  /\ \/ Version' = Version
            \/ /\ Version' = j /\ Upload(j)
               /\ ~Landed(j) /\ job[j].link
               /\ Landed(j)' \/ ~job'[j].link
         /\ Upload(j) /\ ~Landed(j) /\ Landed(j)' => Version' = j
  <1> USE DEF Solo
  <1> DEFINE n  == file["name"]
             b  == file["bak"]
             Fresher == ~Landed(j) /\ Landed(j)'
  <1>1. /\ Version = IF Stands(n) THEN n ELSE IF Stands(b) THEN b ELSE NoFile
        /\ Version' = IF Stands(n)' THEN n' ELSE IF Stands(b)' THEN b' ELSE NoFile
    BY StandingIsStands DEF Version
  <1>2. \A p \in Path : file[p] = j =>
          p = job[j].target \/ (p = "name" /\ (job[j].at \in {"dropbak", "ok"} \/ ~job[j].link))
    BY DEF InvB, Places, Own
  <1>3. job[j].at \in Working /\ job[j].link => file[job[j].target] = j
    BY DEF InvB, Places, Mine
  <1>4. b # j
    BY <1>2 DEF Fit
  <1>5. \A p \in {"name", "hot", "bak"} : file[p] = j => Upload(j)
    BY DEF InvB, Places, Uploaded
  <1>6. Fresher => /\ job[j].link /\ job'[j].link
                   /\ \/ job[j].at = "close" /\ job'[j].at = "ok" /\ job[j].target # "hot"
                      \/ job[j].at = "swap" /\ job'[j].at = "dropbak"
    BY DEF Landed, Route, Fit, PC, Online
  <1>7. ~Stands(NoFile) /\ ~Stands(NoFile)'
    BY DEF Stands
  <1>8. CASE file' = file
    <2>1. Stands(b)' <=> Stands(b)
      BY <1>4, <1>8, StandingStays
    <2>2. CASE n # j
      <3>1. Stands(n)' <=> Stands(n)
        BY <1>8, <2>2, StandingStays
      <3>2. Upload(j) => ~Fresher
        <4> SUFFICES ASSUME Upload(j), Fresher PROVE FALSE
          OBVIOUS
        <4>1. job[j].at = "close" /\ job[j].link /\ job[j].target # "hot"
          BY <1>6, <1>8 DEF FileStep, FileTyped, Rename, MayRename, Exists
        <4>2. job[j].target = "name"
          BY <4>1 DEF Upload, Fit, Path
        <4> QED
          BY <1>3, <2>2, <4>1, <4>2 DEF Working
      <3> QED
        BY <1>1, <1>8, <2>1, <3>1, <3>2
    <2>3. CASE n = j /\ Stands(j)
      <3>1. ~Fresher
        BY <1>6, <2>3 DEF Stands, FilesAssumption
      <3>2. Stands(n)'
        BY <1>8, <2>3, StandingStays
      <3> QED
        BY <1>1, <1>8, <2>3, <3>1, <3>2
    <2>4. CASE n = j /\ ~Stands(j) /\ Stands(j)'
      <3>1. ~Landed(j) /\ job[j].link /\ (Landed(j)' \/ ~job'[j].link)
        BY <2>4, StandingStays
      <3>2. Version' = j
        BY <1>1, <1>8, <2>4 DEF Stands
      <3> QED
        BY <1>5, <2>4, <3>1, <3>2
    <2>5. CASE n = j /\ ~Stands(j) /\ ~Stands(j)'
      <3>1. ~Stands(n)'
        BY <1>8, <2>5 DEF Stands
      <3>2. ~Fresher
        BY <1>6, <2>5 DEF Stands, Fit, Placing, Route
      <3> QED
        BY <1>1, <1>8, <2>1, <2>5, <3>1, <3>2
    <2> QED
      BY <2>2, <2>3, <2>4, <2>5
  <1>9. CASE /\ job[j].at = "create" /\ ~Exists(job[j].target)
             /\ file' = [file EXCEPT ![job[j].target] = j]
    <2>1. ~Fresher /\ n # j /\ b # j
      BY <1>4, <1>6, <1>9 DEF Before
    <2>2. b' = b /\ (Stands(b)' <=> Stands(b))
      BY <1>4, <1>9, StandingStays DEF Fit, FileTyped
    <2>3. CASE job[j].target = "name"
      <3>1. ~Stands(n)
        BY <1>7, <1>9, <2>3 DEF Exists
      <3>2. n' = j /\ job'[j].wrote # Pieces
        BY <1>9, <2>3 DEF FileTyped, Route, Fit, Before
      <3>3. ~Stands(n)'
        BY <3>2 DEF Stands
      <3> QED
        BY <1>1, <2>1, <2>2, <3>1, <3>3
    <2>4. CASE job[j].target # "name"
      <3>1. n' = n /\ (Stands(n)' <=> Stands(n))
        BY <1>9, <2>1, <2>4, StandingStays DEF FileTyped
      <3> QED
        BY <1>1, <2>1, <2>2, <3>1
    <2> QED
      BY <2>3, <2>4
  <1>10. CASE /\ job[j].at = "clearbak" /\ job[j].link
              /\ file' = [file EXCEPT !["bak"] = NoFile]
    <2>1. ~Fresher /\ job[j].target = "hot" /\ file["hot"] = j
      BY <1>3, <1>6, <1>10 DEF Fit, Placing, Working
    <2>2. n # j
      BY <1>2, <1>10, <2>1
    <2>3. Stands(b) => Stands(n)
      BY <1>10, <2>1, StandingIsStands DEF InvB, Cover, Broken
    <2>4. n' = n /\ b' = NoFile /\ (Stands(n)' <=> Stands(n))
      BY <1>10, <2>2, StandingStays DEF FileTyped
    <2> QED
      BY <1>1, <1>7, <2>1, <2>3, <2>4
  <1>11. CASE /\ job[j].at = "dropbak"
              /\ file' = [file EXCEPT !["bak"] = NoFile]
    <2>1. ~Fresher /\ n = j /\ Stands(n)
      BY <1>6, <1>11 DEF InvB, Places, Swapped, Fit, Placing, Stands, Landed
    <2>2. n' = n /\ Stands(n)'
      BY <1>11, <2>1, StandingStays DEF FileTyped
    <2> QED
      BY <1>1, <2>1, <2>2
  <1>12. CASE /\ job[j].at = "backup" /\ job[j].link /\ MayRename("name", "bak")
              /\ file' = Rename("name", "bak")
    <2>1. ~Fresher /\ job[j].target = "hot"
      BY <1>6, <1>12 DEF Fit, Placing
    <2>2. n # j /\ b = NoFile
      BY <1>2, <1>12, <2>1 DEF MayRename, Exists
    <2>3. n' = NoFile /\ b' = n /\ (Stands(b)' <=> Stands(n))
      BY <1>12, <2>2, StandingStays DEF Rename, FileTyped
    <2> QED
      BY <1>1, <1>7, <2>1, <2>2, <2>3
  <1>13. CASE /\ job[j].at = "swap" /\ job[j].link /\ MayRename("hot", "name")
              /\ file' = Rename("hot", "name")
              /\ job'[j].at = "dropbak" \/ (job'[j].at = "restore" /\ ~job'[j].link)
    <2>1. file["hot"] = j /\ ~Landed(j)
      BY <1>3, <1>13 DEF Fit, Placing, Working, Landed
    <2>2. n' = j /\ job'[j].wrote = Pieces
      BY <1>13, <2>1 DEF Rename, FileTyped, Fit, Placing, Route
    <2>3. Landed(j)' \/ ~job'[j].link
      BY <1>13 DEF Landed
    <2>4. Stands(n)'
      BY <2>2, <2>3 DEF Stands
    <2> QED
      BY <1>1, <1>5, <1>13, <2>1, <2>2, <2>3, <2>4
  <1>14. CASE /\ job[j].at = "restore" /\ job[j].link /\ MayRename("bak", "name")
              /\ file' = Rename("bak", "name")
    <2>1. ~Fresher /\ n = NoFile
      BY <1>6, <1>14 DEF MayRename, Exists
    <2>2. n' = b /\ b' = NoFile /\ (Stands(n)' <=> Stands(b))
      BY <1>4, <1>14, StandingStays DEF Rename, FileTyped
    <2> QED
      BY <1>1, <1>7, <2>1, <2>2
  <1>15. CASE /\ job[j].at = "clean" /\ (job[j].link \/ job[j].target = "dest")
              /\ file' = [file EXCEPT ![job[j].target] = NoFile]
    <2>1. ~Fresher
      BY <1>6, <1>15
    <2>2. b' = b /\ (Stands(b)' <=> Stands(b))
      BY <1>4, <1>15, StandingStays DEF Fit, FileTyped
    <2>3. CASE job[j].target = "name"
      <3>1. n = j /\ ~Stands(n)
        BY <1>3, <1>15, <2>3 DEF Working, Stands, Landed, Fit
      <3>2. n' = NoFile
        BY <1>15, <2>3 DEF FileTyped
      <3> QED
        BY <1>1, <1>7, <2>1, <2>2, <3>1, <3>2
    <2>4. CASE job[j].target # "name"
      <3>1. n # j
        <4>1. job[j].target = "dest" => ~Upload(j)
          BY DEF Fit, Upload
        <4> QED
          BY <1>2, <1>5, <1>15, <2>4, <4>1
      <3>2. n' = n /\ (Stands(n)' <=> Stands(n))
        BY <1>15, <2>4, <3>1, StandingStays DEF FileTyped
      <3> QED
        BY <1>1, <2>1, <2>2, <3>2
    <2> QED
      BY <2>3, <2>4
  <1> QED
    BY <1>8, <1>9, <1>10, <1>11, <1>12, <1>13, <1>14, <1>15 DEF FileStep

\* An outcome, once there, stays; and how it comes.
LEMMA OutcomeSteps ==
  ASSUME NEW j \in Job, Solo(j)
  PROVE  /\ \A k \in Job : k # j => Outcome(k)' = Outcome(k)
         /\ Outcome(j) # "none" => Outcome(j)' = Outcome(j)
         /\ Outcome(j)' \in {"none", "landed", "broken", "failed"}
         /\ Outcome(j) = "none" =>
              /\ Outcome(j)' = "landed" => Upload(j) /\ ~Landed(j) /\ Landed(j)'
              /\ Upload(j) /\ (Landed(j)' \/ ~job'[j].link) => Outcome(j)' \in {"landed", "broken"}
         /\ Upload(j) /\ ~Landed(j) /\ job[j].link /\ (Landed(j)' \/ ~job'[j].link)
              => Outcome(j) = "none"
  <1> USE DEF Solo
  <1>1. Upload(j)' <=> Upload(j)
    BY DEF Upload
  <1>2. Landed(j) => Landed(j)'
    BY DEF Landed, Route, Fit
  <1>3. ~job[j].link => ~job'[j].link
    BY DEF Route
  <1>4. ~job[j].link /\ ~Landed(j) => ~Landed(j)'
    BY DEF Landed, Route, Fit, Online, PC
  <1>5. job[j].at \in {"err", "gone"} => /\ job'[j].at = "gone"
                                         /\ Landed(j)' => Landed(j)
                                         /\ job'[j].link = job[j].link
    BY DEF Landed, Route, Fit
  <1>6. \A k \in Job : k # j => Outcome(k)' = Outcome(k)
    BY DEF Outcome, Upload, Landed, Broken
  <1> QED
    BY <1>1, <1>2, <1>3, <1>4, <1>5, <1>6 DEF Outcome, Broken

\* Steps of Replacement, said of the mapping.
LEMMA AbstractSteps ==
  ASSUME NEW j \in Job,
         \A k \in Job : k # j => Outcome(k)' = Outcome(k),
         \/ Outcome(j)' = Outcome(j) /\ Version' = Version
         \/ /\ Outcome(j) = "none"
            /\ \/ Outcome(j)' = "landed" /\ Version' = j
               \/ Outcome(j)' = "failed" /\ Version' = Version
               \/ Outcome(j)' = "broken" /\ Version' \in {Version, j}
  PROVE  [Contract!Next]_<<Version, Outcomes>>
  <1>1. /\ Outcomes = [k \in Job |-> Outcome(k)]
        /\ Outcomes' = [k \in Job |-> Outcome(k)']
    BY DEF Outcomes
  <1>2. CASE Outcome(j)' = Outcome(j) /\ Version' = Version
    <2>1. Outcomes' = Outcomes
      BY <1>1, <1>2
    <2> QED
      BY <1>2, <2>1
  <1>3. Outcomes' = [Outcomes EXCEPT ![j] = Outcome(j)']
    BY <1>1
  <1>4. Outcomes[j] = Outcome(j)
    BY <1>1
  <1>5. CASE Outcome(j) = "none" /\ Outcome(j)' = "landed" /\ Version' = j
    <2>1. Outcomes[j] = "none" /\ Version' = j /\ Outcomes' = [Outcomes EXCEPT ![j] = "landed"]
      BY <1>3, <1>4, <1>5
    <2>2. Contract!Land(j)
      BY <2>1 DEF Contract!Land, Version, Outcomes, Outcome
    <2> QED
      BY <2>2 DEF Contract!Next
  <1>6. CASE Outcome(j) = "none" /\ Outcome(j)' = "failed" /\ Version' = Version
    <2>1. Outcomes[j] = "none" /\ Version' = Version /\ Outcomes' = [Outcomes EXCEPT ![j] = "failed"]
      BY <1>3, <1>4, <1>6
    <2>2. Contract!Fail(j)
      BY <2>1 DEF Contract!Fail, Version, Outcomes, Outcome
    <2> QED
      BY <2>2 DEF Contract!Next
  <1>7. CASE Outcome(j) = "none" /\ Outcome(j)' = "broken" /\ Version' \in {Version, j}
    <2>1. Outcomes[j] = "none" /\ Version' \in {Version, j} /\ Outcomes' = [Outcomes EXCEPT ![j] = "broken"]
      BY <1>3, <1>4, <1>7
    <2>2. Contract!Break(j)
      BY <2>1 DEF Contract!Break, Version, Outcomes, Outcome
    <2> QED
      BY <2>2 DEF Contract!Next
  <1> QED
    BY <1>2, <1>5, <1>6, <1>7

LEMMA WorkerImplements ==
  ASSUME FilesAssumption, InvB, NEW j \in Job, Solo(j)
  PROVE  [Contract!Next]_<<Version, Outcomes>>
  <1>1. \/ Version' = Version
        \/ /\ Version' = j /\ Upload(j) /\ ~Landed(j) /\ job[j].link
           /\ Landed(j)' \/ ~job'[j].link
    BY VersionSteps
  <1>2. Upload(j) /\ ~Landed(j) /\ Landed(j)' => Version' = j
    BY VersionSteps
  <1>3. CASE Outcome(j) # "none"
    <2>1. Outcome(j)' = Outcome(j) /\ Version' = Version
      BY <1>1, <1>3, OutcomeSteps
    <2> QED
      BY <2>1, OutcomeSteps, AbstractSteps
  <1>4. CASE Outcome(j) = "none"
    <2>1. CASE Outcome(j)' = "landed"
      <3>1. Version' = j
        BY <1>2, <1>4, <2>1, OutcomeSteps
      <3> QED
        BY <1>4, <2>1, <3>1, OutcomeSteps, AbstractSteps
    <2>2. CASE Outcome(j)' \in {"none", "failed"}
      <3>1. Version' = Version
        BY <1>1, <1>4, <2>2, OutcomeSteps
      <3> QED
        BY <1>4, <2>2, <3>1, OutcomeSteps, AbstractSteps
    <2>3. CASE Outcome(j)' = "broken"
      <3>1. Version' \in {Version, j}
        BY <1>1
      <3> QED
        BY <1>4, <2>3, <3>1, OutcomeSteps, AbstractSteps
    <2> QED
      BY <2>1, <2>2, <2>3, OutcomeSteps
  <1> QED
    BY <1>3, <1>4

\* To Replacement, the interface's steps are nothing, or a job that failed at once.
LEMMA InterfaceImplements ==
  ASSUME FilesAssumption, InvA, Interface
  PROVE  [Contract!Next]_<<Version, Outcomes>>
  <1> DEFINE Still(k) == Retold(k, FALSE) \/ Retold(k, TRUE)
  <1>1. ASSUME NEW k \in Job, Still(k)
        PROVE  /\ Outcome(k)' = Outcome(k)
               /\ Stands(k)' <=> Stands(k)
    BY <1>1 DEF Retold, Outcome, Upload, Landed, Broken, Stands
  <1>2. ASSUME NEW k \in Job, NEW s \in Slot, NEW op \in Ops, Begun(k, s, op)
        PROVE  /\ Outcome(k) = "none" /\ Outcome(k)' \in {"none", "failed"}
               /\ file["name"] # k /\ file["bak"] # k
    <2>1. job[k].at = "none" /\ job[k].st = "none" /\ job[k].link
      BY <1>2 DEF Begun, InvA, AllFit, Fit, Online
    <2>2. "name" \in Path /\ "bak" \in Path
      BY DEF Path
    <2>3. file["name"] # k /\ file["bak"] # k
      BY <2>1, <2>2 DEF InvA, Paths, Made, Before
    <2>4. Outcome(k) = "none"
      BY <2>1 DEF Outcome, Landed, Broken
    <2>5. Outcome(k)' \in {"none", "failed"}
      BY <1>2 DEF Outcome, Landed, Broken, Begun
    <2> QED
      BY <2>3, <2>4, <2>5
  <1>3. /\ file' = file
        /\ \A k \in Job : Still(k) \/ \E s \in Slot, op \in Ops : Begun(k, s, op)
    BY InterfaceTouches DEF InvA
  <1> HIDE DEF Still
  <1>4. Version' = Version
    <2>1. ASSUME NEW p \in {"name", "bak"}
          PROVE  Stands(file[p])' <=> Stands(file[p])
      <3>1. CASE file[p] \in Job
        <4>1. Still(file[p])
          BY <1>2, <1>3, <3>1
        <4>2. Stands(file[p])' <=> Stands(file[p])
          <5> DEFINE c == file[p]
          <5>1. c' = c
            BY <1>3
          <5>2. PICK d : d = c
            OBVIOUS
          <5>3. d \in Job /\ Still(d)
            BY <3>1, <4>1, <5>2
          <5>4. Stands(d)' <=> Stands(d)
            BY <1>1, <5>3
          <5> QED
            BY <5>1, <5>2, <5>4, <1>3 DEF Stands, Landed
        <4> QED
          BY <4>2
      <3>2. CASE file[p] \notin Job
        BY <1>3, <3>2 DEF Stands
      <3> QED
        BY <3>1, <3>2
    <2>2. /\ Stands(file["name"])' <=> Stands(file["name"])
          /\ Stands(file["bak"])' <=> Stands(file["bak"])
      BY <2>1
    <2> QED
      BY <1>3, <2>2, StandingIsStands DEF Version
  <1>5. CASE \A k \in Job : Still(k)
    <2>1. Outcomes' = Outcomes
      BY <1>1, <1>5 DEF Outcomes
    <2> QED
      BY <1>4, <2>1
  <1>6. CASE \E j \in Job, s \in Slot, op \in Ops :
               /\ Begun(j, s, op)
               /\ \A k \in Job : k # j => Still(k)
    <2>1. PICK j \in Job, s \in Slot, op \in Ops :
               /\ Begun(j, s, op)
               /\ \A k \in Job : k # j => Still(k)
      BY <1>6
    <2>2. \A k \in Job : k # j => Outcome(k)' = Outcome(k)
      BY <1>1, <2>1
    <2>3. Outcome(j) = "none" /\ Outcome(j)' \in {"none", "failed"}
      BY <1>2, <2>1
    <2> QED
      BY <1>4, <2>2, <2>3, AbstractSteps
  <1>7. ASSUME NEW s \in Slot, NEW op \in Ops, Start(s, op)
        PROVE  \/ \A k \in Job : Still(k)
               \/ \E j \in Job :
                    /\ Begun(j, s, op)
                    /\ \A k \in Job : k # j => Still(k)
    <2>1. \A k \in Job : Retold(k, Told(k)) => Still(k)
      BY DEF Retold, Still
    <2>2. TypeOK
      BY DEF InvA
    <2> QED
      BY <1>7, <2>1, <2>2, StartSteps
  <1>8. ASSUME NEW s \in Slot,
               Cancel(s) \/ CloseSession(s) \/ SessionEnds(s) \/ Reconnect(s) \/ Replace(s)
        PROVE  \A k \in Job : Still(k)
    BY <1>8, InterfaceSteps DEF InvA, Still
  <1> QED
    BY <1>5, <1>6, <1>7, <1>8 DEF Interface

\* "a failed or cancelled upload leaves the original untouched": with one
\* thread at a time, uploads land whole or leave the version that was there,
\* whatever the server refuses, and only a broken connection leaves open which
\* (files.rs:22-25, 293-315).
THEOREM UploadsImplementReplacement ==
  ASSUME FilesAssumption, Single
  PROVE  Spec => UploadsReplaceOrLeave
  <1>1. Init => Contract!Init
    BY InitImplements
  <1>2. ASSUME InvA, InvB, [Next]_vars
        PROVE  [Contract!Next]_<<Version, Outcomes>>
    <2>1. CASE Interface
      BY <1>2, <2>1, InterfaceImplements
    <2>2. ASSUME NEW j \in Job, Worker(j)
          PROVE  [Contract!Next]_<<Version, Outcomes>>
      <3>1. Solo(j)
        BY <1>2, <2>2, WorkerIsSolo
      <3> QED
        BY <1>2, <3>1, WorkerImplements
    <2>3. CASE UNCHANGED vars
      <3>1. Version' = Version /\ Outcomes' = Outcomes
        BY <2>3 DEF vars, Version, Outcomes, Outcome, Standing, Whole, Landed, Broken, Upload
      <3> QED
        BY <3>1
    <2> QED
      BY <1>2, <2>1, <2>2, <2>3 DEF Next
  <1>3. Spec => Contract!Init /\ [][Contract!Next]_<<Version, Outcomes>>
    BY <1>1, <1>2, InvBHolds, PTL DEF Spec
  <1> QED
    BY <1>3, PTL DEF UploadsReplaceOrLeave, Contract!Spec, Version, Outcomes, Outcome
=============================================================================

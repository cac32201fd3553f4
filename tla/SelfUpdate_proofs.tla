-------------------------- MODULE SelfUpdate_proofs --------------------------
(***************************************************************************)
(* What one job at a time is good for, and when there is one.  The first   *)
(* theorems on safety assume []OneJob, what the job slot is meant to       *)
(* ensure: everything installed is whole, there is a binary to start, and  *)
(* the binary that runs is kept, for every size, every number of requests, *)
(* retries, crashes and restarts.  With two handlers the slot does not     *)
(* ensure it (README, section 7); the last theorems say what does: that    *)
(* no two requests are between the test of the slot and its setting.       *)
(***************************************************************************)
EXTENDS SelfUpdate, SequenceTheorems, TLAPS

-----------------------------------------------------------------------------
(* The invariants *)

Downloading == {"stat", "request", "stream"}
Downloaded == {"verify", "chmod", "backup", "replace"}

(* A job has a version in hand, and what it needs of it. *)
InHand ==
    \A h \in Handlers :
        /\ proc[h].pc # "idle" => proc[h].want \in Versions
        /\ proc[h].pc \notin {"idle", "start"} => proc[h].bin < MaxPrev
        /\ proc[h].pc \in Downloading => proc[h].file \in Files

TypeInv == TypeOK /\ InHand

Partial(s, v) ==
    /\ Len(s) <= Size
    /\ \A k \in 1 .. Len(s) : s[k] = <<v, k>>

(* The files of jobs, binaries and the running binary are different files, *)
(* and no two names stand for one file.                                    *)
Separate ==
    /\ \A v \in Versions : parts[v] # Nothing =>
          /\ \A u \in Versions : parts[u] = parts[v] => u = v
          /\ \A n \in Names : bins[n] # parts[v]
          /\ run.file # parts[v]
    /\ \A m, n \in Names : bins[m] # Nothing /\ bins[m] = bins[n] => m = n

PartsPartial == \A v \in Versions : parts[v] # Nothing => Partial(content[parts[v]], v)

(* How far a job's file and its descriptor are, step by step. *)
ProgressAt(l) ==
    LET length == Len(content[l.file]) IN
    /\ l.pc \in {"start", "fetch", "open"} => l.offset = 0
    /\ l.pc \in Downloading \cup Downloaded => l.file \in Files /\ parts[l.want] = l.file
    /\ l.pc \in {"stat", "request"} => (length = 0 => l.offset = 0)
    /\ l.pc = "request" => l.existing = length
    /\ l.pc = "stream" => l.pos = length /\ l.offset = length
    /\ l.pc \in Downloaded => length = Size

Progress == \A h \in Handlers : ProgressAt(proc[h])

DownloadInv == Separate /\ PartsPartial /\ Progress /\ InstalledWhole

(* Nothing at the binary's name means a job between its renames, or one    *)
(* that ended there.                                                       *)
BinaryInPlace ==
    /\ bins[0] = Nothing => interrupted \/ \E h \in Handlers :
                                proc[h].pc = "replace" /\ proc[h].bin = 0
    /\ \A h \in Handlers :
          /\ proc[h].pc = "replace" /\ proc[h].bin = 0
          /\ bins[0] = Nothing /\ bins[1] = Nothing
          => interrupted

(* Where the content of the running binary is. *)
AsRunning(n) == bins[n] # Nothing /\ content[bins[n]] = content[run.file]

Down == ~up => \A h \in Handlers : proc[h].pc = "idle"

(* The running binary is at name b; or the binary was renamed from there   *)
(* and neither it nor the next one could be renamed back.                  *)
KeptAt(b) ==
    \/ AsRunning(b)
    \/ /\ bins[b] = Nothing
       /\ b + 1 \in Names /\ AsRunning(b + 1) /\ bins[b + 1] # run.file

KeptAtItsName ==
    up /\ ~restarting /\ ~closed /\ ~unsaved =>
        /\ \A h \in Handlers :
              /\ proc[h].pc \notin {"idle", "start"} => proc[h].bin \in Names
              /\ proc[h].pc \notin {"idle", "start", "replace", "finish"} =>
                    proc[h].bin = run.path
              /\ proc[h].pc \in {"replace", "finish"} => AsRunning(proc[h].bin + 1)
              /\ proc[h].pc = "replace" =>
                    /\ run.path = IF bins[proc[h].bin + 1] = run.file
                                  THEN proc[h].bin + 1 ELSE proc[h].bin
                    /\ bins[proc[h].bin] # Nothing => AsRunning(proc[h].bin)
        /\ (\A h \in Handlers : proc[h].pc \notin {"replace", "finish"}) => KeptAt(run.path)

-----------------------------------------------------------------------------
(* Files as sequences of chunks *)

LEMMA Sized == Size \in Nat /\ Size >= 1
BY UpdateAssumption

LEMMA WriteAtType ==
    ASSUME NEW s \in Seq(Chunks), NEW offset \in Nat, NEW chunk \in Chunks
    PROVE  /\ WriteAt(s, offset, chunk) \in Seq(Chunks)
           /\ offset = Len(s) =>
                 /\ Len(WriteAt(s, offset, chunk)) = Len(s) + 1
                 /\ \A k \in 1 .. Len(s) + 1 :
                       WriteAt(s, offset, chunk)[k] = IF k = Len(s) + 1 THEN chunk ELSE s[k]
<1> DEFINE n == IF offset < Len(s) THEN Len(s) ELSE offset + 1
           c(k) == IF k = offset + 1 THEN chunk
                   ELSE IF k <= Len(s) THEN s[k] ELSE <<Nothing, 0>>
<1>1. Len(s) \in Nat /\ \A k \in 1 .. Len(s) : s[k] \in Chunks
  OBVIOUS
<1>2. n \in Nat /\ \A k \in 1 .. n : c(k) \in Chunks
  BY <1>1 DEF Chunks
<1>3. WriteAt(s, offset, chunk) = [k \in 1 .. n |-> c(k)]
  BY DEF WriteAt
<1> HIDE DEF n, c
<1>4. [k \in 1 .. n |-> c(k)] \in Seq(Chunks) /\ Len([k \in 1 .. n |-> c(k)]) = n
  BY <1>2
<1>5. \A k \in 1 .. n : [j \in 1 .. n |-> c(j)][k] = c(k)
  OBVIOUS
<1>6. offset = Len(s) => n = Len(s) + 1
  BY <1>1 DEF n
<1>7. \A k \in 1 .. Len(s) + 1 :
        offset = Len(s) => c(k) = IF k = Len(s) + 1 THEN chunk ELSE s[k]
  BY <1>1 DEF c
<1> QED
  BY <1>3, <1>4, <1>5, <1>6, <1>7

LEMMA WholeType ==
    ASSUME NEW v \in Versions
    PROVE  /\ Whole(v) \in Seq(Chunks)
           /\ Len(Whole(v)) = Size
           /\ \A k \in 1 .. Size : Whole(v)[k] = <<v, k>>
<1>1. \A k \in 1 .. Size : <<v, k>> \in Chunks
  BY DEF Chunks
<1> QED
  BY <1>1, Sized DEF Whole

(* A partial file that has all the chunks is the asset. *)
LEMMA PartialWhole ==
    ASSUME NEW v \in Versions, NEW s \in Seq(Chunks), Partial(s, v), Len(s) = Size
    PROVE  s = Whole(v)
<1>1. \A k \in 1 .. Len(s) : s[k] = Whole(v)[k]
  BY WholeType DEF Partial
<1> QED
  BY <1>1, WholeType, SeqEqual

LEMMA EmptyPartial ==
    ASSUME NEW v \in Versions
    PROVE  <<>> \in Seq(Chunks) /\ Len(<<>>) = 0 /\ Partial(<<>>, v)
BY Sized DEF Partial

LEMMA NextChunkPartial ==
    ASSUME NEW v \in Versions, NEW s \in Seq(Chunks), Partial(s, v), Len(s) < Size
    PROVE  LET t == WriteAt(s, Len(s), <<v, Len(s) + 1>>) IN
           Partial(t, v) /\ Len(t) = Len(s) + 1
<1> DEFINE chunk == <<v, Len(s) + 1>>
           t == WriteAt(s, Len(s), chunk)
<1>1. Len(s) \in Nat /\ chunk \in Chunks
  BY Sized DEF Chunks
<1> HIDE DEF chunk
<1>2. /\ Len(t) = Len(s) + 1
      /\ \A k \in 1 .. Len(s) + 1 : t[k] = IF k = Len(s) + 1 THEN chunk ELSE s[k]
  BY <1>1, WriteAtType
<1>3. \A k \in 1 .. Len(t) : t[k] = <<v, k>>
  BY <1>1, <1>2 DEF Partial, chunk
<1>4. Partial(t, v) /\ Len(t) = Len(s) + 1
  BY <1>1, <1>2, <1>3, Sized DEF Partial
<1> QED
  BY <1>4 DEF chunk

-----------------------------------------------------------------------------
(* Types *)

LEMMA Names01 == 0 \in Names /\ Names \subseteq Nat
BY UpdateAssumption DEF Names

Procs == [pc : Steps, want : Versions \cup {Nothing}, bin : Names,
          file : Files \cup {Nothing}, known : BOOLEAN, existing : Nat, offset : Nat,
          pos : 0 .. Size, attempt : 0 .. MaxDownloadRetries - 1]

Equipped(l) ==
    /\ l.pc # "idle" => l.want \in Versions
    /\ l.pc \notin {"idle", "start"} => l.bin < MaxPrev
    /\ l.pc \in Downloading => l.file \in Files

LEMMA IdleType == Idle \in Procs /\ Idle.pc = "idle" /\ Equipped(Idle)
BY Names01, Sized, UpdateAssumption DEF Idle, Procs, Steps, Equipped, Downloading

(* What a job has in hand after a step of its own. *)
LEMMA JobLocals ==
    ASSUME TypeInv, NEW h \in Handlers, Apply(h) \/ JobStep(h)
    PROVE  \E r \in Procs : Equipped(r) /\ proc' = [proc EXCEPT ![h] = r]
<1> DEFINE l == proc[h]
           Goal == \E r \in Procs : Equipped(r) /\ proc' = [proc EXCEPT ![h] = r]
<1>1. l \in Procs /\ Equipped(l)
  BY DEF TypeInv, TypeOK, InHand, Procs, Equipped
<1>2. ASSUME Stopped(h) PROVE Goal
  BY <1>2, IdleType DEF Stopped
<1>3. ASSUME NEW offset \in Nat, NextAttempt(h, offset), l.pc \in Downloading
      PROVE  Goal
  <2>1. CASE l.attempt + 1 < MaxDownloadRetries
    <3> DEFINE r == [l EXCEPT !.pc = "stat", !.attempt = @ + 1, !.offset = offset]
    <3>1. l.attempt + 1 \in 0 .. MaxDownloadRetries - 1
      BY <1>1, <2>1, UpdateAssumption DEF Procs
    <3>2. r \in Procs /\ Equipped(r)
      BY <1>1, <1>3, <3>1 DEF Procs, Equipped, Downloading, Steps
    <3>3. proc' = [proc EXCEPT ![h].pc = "stat", ![h].attempt = @ + 1, ![h].offset = offset]
      BY <1>3, <2>1 DEF NextAttempt
    <3>4. proc' = [proc EXCEPT ![h] = r]
      BY <3>3
    <3> QED
      BY <3>2, <3>4
  <2> QED
    BY <1>2, <1>3, <2>1 DEF NextAttempt
<1>4. ASSUME NEW from \in 0 .. Size, NEW offset \in Nat, Answered(h, from, offset),
             l.pc = "request"
      PROVE  Goal
  <2> DEFINE r == [l EXCEPT !.pc = "stream", !.known = TRUE, !.pos = from, !.offset = offset]
  <2>1. r \in Procs /\ Equipped(r)
    BY <1>1, <1>4 DEF Procs, Equipped, Downloading, Steps
  <2> QED
    BY <1>4, <2>1 DEF Answered
<1>5. l.pc \in Downloading => content[l.file] \in Seq(Chunks) /\ Len(content[l.file]) \in Nat
  BY <1>1 DEF Equipped, TypeInv, TypeOK
<1>6. CASE Apply(h)
  <2>1. PICK v \in Versions : proc' = [proc EXCEPT ![h] = [Idle EXCEPT !.pc = "start", !.want = v]]
    BY <1>6 DEF Apply
  <2>2. [Idle EXCEPT !.pc = "start", !.want = v] \in Procs
        /\ Equipped([Idle EXCEPT !.pc = "start", !.want = v])
    BY IdleType DEF Procs, Steps, Equipped, Downloading
  <2> QED
    BY <2>1, <2>2
<1>7. CASE Start(h)
  <2>1. [l EXCEPT !.pc = "fetch", !.bin = run.path] \in Procs
        /\ Equipped([l EXCEPT !.pc = "fetch", !.bin = run.path])
    BY <1>1, <1>7 DEF Start, TypeInv, TypeOK, Procs, Steps, Equipped, Downloading
  <2> QED
    BY <1>7, <2>1 DEF Start
<1>8. CASE Fail(h)
  BY <1>2, <1>8 DEF Fail
<1>9. CASE Fetch(h)
  <2>1. ASSUME NEW known \in BOOLEAN
        PROVE  [l EXCEPT !.pc = "open", !.known = known] \in Procs
               /\ Equipped([l EXCEPT !.pc = "open", !.known = known])
    BY <1>1, <1>9 DEF Fetch, Procs, Steps, Equipped, Downloading
  <2> QED
    BY <1>2, <1>9, <2>1 DEF Fetch
<1>10. CASE Open(h)
  <2>1. ASSUME NEW f \in Files
        PROVE  [l EXCEPT !.pc = "stat", !.file = f] \in Procs
               /\ Equipped([l EXCEPT !.pc = "stat", !.file = f])
    BY <1>1, <1>10 DEF Open, Procs, Steps, Equipped, Downloading
  <2>2. CASE Stopped(h)
    BY <1>2, <2>2
  <2>3. CASE parts[l.want] # Nothing /\ proc' = [proc EXCEPT ![h].pc = "stat", ![h].file = parts[l.want]]
    <3>1. parts[l.want] \in Files
      BY <1>1, <1>10, <2>3 DEF Open, Equipped, TypeInv, TypeOK
    <3> QED
      BY <2>1, <2>3, <3>1
  <2>4. CASE Free # {} /\ proc' = [proc EXCEPT ![h].pc = "stat", ![h].file = CHOOSE f \in Free : TRUE]
    <3>1. (CHOOSE f \in Free : TRUE) \in Files
      BY <2>4 DEF Free
    <3> QED
      BY <2>1, <2>4, <3>1
  <2> QED
    BY <1>10, <2>2, <2>3, <2>4 DEF Open
<1>11. CASE Stat(h)
  <2>1. [l EXCEPT !.pc = "verify"] \in Procs /\ Equipped([l EXCEPT !.pc = "verify"])
    BY <1>1, <1>11 DEF Stat, Procs, Steps, Equipped, Downloading
  <2> DEFINE r == [l EXCEPT !.pc = "request", !.existing = Len(content[l.file])]
  <2>2. r \in Procs
    <3>1. Len(content[l.file]) \in Nat
      BY <1>5, <1>11 DEF Stat, Downloading
    <3> QED
      BY <1>1, <3>1 DEF Procs, Steps
  <2>3. Equipped(r)
    BY <1>1, <1>11 DEF Stat, Procs, Equipped, Downloading
  <2> QED
    BY <1>11, <2>1, <2>2, <2>3 DEF Stat
<1>12. CASE Broken(h)
  BY <1>1, <1>3, <1>12 DEF Broken, Procs, Downloading
<1>13. CASE BeyondTheEnd(h)
  BY <1>3, <1>13 DEF BeyondTheEnd, Downloading
<1>14. CASE FromTheStart(h)
  <2>1. (IF l.existing > 0 THEN 0 ELSE l.offset) \in Nat /\ 0 \in 0 .. Size
    BY <1>1, Sized DEF Procs
  <2> QED
    BY <1>4, <1>14, <2>1 DEF FromTheStart
<1>15. CASE Resume(h)
  BY <1>4, <1>5, <1>15, Sized DEF Resume, Downloading
<1>16. CASE Receive(h)
  <2> DEFINE r == [l EXCEPT !.pos = @ + 1, !.offset = @ + 1]
  <2>1. l.pos + 1 \in 0 .. Size /\ l.offset + 1 \in Nat
    BY <1>1, <1>16, Sized DEF Receive, Procs
  <2>2. r \in Procs /\ Equipped(r)
    BY <1>1, <1>16, <2>1 DEF Receive, Procs, Equipped
  <2> QED
    BY <1>16, <2>2 DEF Receive
<1>17. ASSUME NEW next \in {"verify", "chmod", "backup", "replace", "finish"},
              l.pc \in {"stream", "verify", "chmod", "backup", "replace"},
              proc' = [proc EXCEPT ![h].pc = next]
       PROVE  Goal
  <2>1. [l EXCEPT !.pc = next] \in Procs /\ Equipped([l EXCEPT !.pc = next])
    BY <1>1, <1>17 DEF Procs, Steps, Equipped, Downloading
  <2> QED
    BY <1>17, <2>1
<1>18. CASE Received(h)
  BY <1>17, <1>18 DEF Received
<1>19. CASE Unverified(h)
  BY <1>17, <1>19 DEF Unverified
<1>20. CASE Verify(h)
  BY <1>2, <1>17, <1>20 DEF Verify
<1>21. CASE Chmod(h)
  BY <1>2, <1>17, <1>21 DEF Chmod
<1>22. CASE Backup(h)
  BY <1>17, <1>22 DEF Backup
<1>23. CASE BackupCopies(h)
  BY <1>17, <1>23 DEF BackupCopies
<1>24. CASE Replace(h)
  BY <1>17, <1>24 DEF Replace
<1>25. CASE ReplaceFails(h)
  BY <1>2, <1>25 DEF ReplaceFails
<1>26. CASE Finish(h)
  BY <1>26, IdleType DEF Finish
<1> QED
  BY <1>6, <1>7, <1>8, <1>9, <1>10, <1>11, <1>12, <1>13, <1>14, <1>15, <1>16, <1>18,
     <1>19, <1>20, <1>21, <1>22, <1>23, <1>24, <1>25, <1>26 DEF JobStep

Statuses == Resting \cup {"downloading", "verifying", "replacing", "restarting"}

DiskType ==
    /\ bins \in [Names -> Files \cup {Nothing}]
    /\ parts \in [Versions -> Files \cup {Nothing}]
    /\ content \in [Files -> Seq(Chunks)]
    /\ run \in [file : Files, path : Names]
    /\ torn \subseteq Files

LEMMA FreeFile == Free # {} => (CHOOSE f \in Free : TRUE) \in Files /\ ~InUse(CHOOSE f \in Free : TRUE)
BY DEF Free

LEMMA CreatedIsFile ==
    ASSUME DiskType, NEW name \in Names, Created(name)
    PROVE  CreatedFile(name) \in Files
<1>1. CASE bins[name] = Nothing
  BY <1>1, FreeFile DEF Created, CreatedFile
<1>2. CASE bins[name] # Nothing
  BY <1>2 DEF CreatedFile, DiskType
<1> QED
  BY <1>1, <1>2

(* What io.Copy has copied. *)
LEMMA CopyOf ==
    ASSUME NEW old \in Seq(Chunks), NEW n \in 0 .. Len(old)
    PROVE  /\ SubSeq(old, 1, n) \in Seq(Chunks)
           /\ n = Len(old) => SubSeq(old, 1, n) = old
<1>1. Len(old) \in Nat /\ \A k \in 1 .. Len(old) : old[k] \in Chunks
  OBVIOUS
<1>2. n \in Nat /\ n <= Len(old)
  BY <1>1
<1>3. \A k \in 1 .. n : old[k] \in Chunks
  BY <1>1, <1>2
<1>4. /\ SubSeq(old, 1, n) \in Seq(Chunks)
      /\ Len(SubSeq(old, 1, n)) = n
      /\ \A k \in 1 .. n : SubSeq(old, 1, n)[k] = old[k]
  BY <1>2, <1>3, SubSeqProperties
<1>5. ASSUME n = Len(old) PROVE SubSeq(old, 1, n) = old
  BY <1>1, <1>4, <1>5, SeqEqual
<1> QED
  BY <1>4, <1>5

(* The disk after a step of a job. *)
LEMMA JobDisk ==
    ASSUME TypeInv, NEW h \in Handlers, Apply(h) \/ JobStep(h)
    PROVE  DiskType'
<1> DEFINE l == proc[h]
<1>1. DiskType /\ l \in Procs /\ Equipped(l)
  BY DEF TypeInv, TypeOK, InHand, Procs, Equipped, DiskType
<1>2. CASE UNCHANGED <<disk, run>>
  BY <1>1, <1>2 DEF DiskType, disk
<1>3. CASE Open(h)
  <2> DEFINE others == [u \in Versions |-> IF u = l.want THEN parts[l.want] ELSE Nothing]
             new == CHOOSE f \in Free : TRUE
  <2>1. l.want \in Versions /\ others \in [Versions -> Files \cup {Nothing}]
    BY <1>1, <1>3 DEF DiskType, Open, Equipped
  <2>2. CASE parts' = others /\ UNCHANGED <<content, torn, bins, run>>
    BY <1>1, <2>1, <2>2 DEF DiskType
  <2>3. CASE /\ Free # {} /\ parts' = [others EXCEPT ![l.want] = new]
             /\ content' = [content EXCEPT ![new] = <<>>] /\ torn' = torn \ {new}
             /\ UNCHANGED <<bins, run>>
    <3>1. new \in Files
      BY <2>3, FreeFile
    <3>2. parts' \in [Versions -> Files \cup {Nothing}]
      BY <2>1, <2>3, <3>1
    <3>3. content' \in [Files -> Seq(Chunks)]
      BY <1>1, <2>3, <3>1 DEF DiskType
    <3> QED
      BY <1>1, <2>3, <3>2, <3>3 DEF DiskType
  <2> QED
    BY <1>3, <2>2, <2>3 DEF Open
<1>4. CASE BeyondTheEnd(h) \/ FromTheStart(h)
  <2>1. l.file \in Files
    BY <1>1, <1>4 DEF BeyondTheEnd, FromTheStart, Equipped, Downloading
  <2>2. [content EXCEPT ![l.file] = <<>>] \in [Files -> Seq(Chunks)]
    BY <1>1, <2>1 DEF DiskType
  <2> QED
    BY <1>1, <1>4, <2>2 DEF BeyondTheEnd, FromTheStart, DiskType
<1>5. CASE Receive(h)
  <2> DEFINE chunk == <<l.want, l.pos + 1>>
             written == WriteAt(content[l.file], l.offset, chunk)
  <2>1. l.file \in Files /\ content[l.file] \in Seq(Chunks) /\ l.offset \in Nat
    BY <1>1, <1>5 DEF Receive, Equipped, Downloading, DiskType, Procs
  <2>2. l.want \in Versions /\ l.pos + 1 \in 1 .. Size
    BY <1>1, <1>5, Sized DEF Receive, Equipped, Procs
  <2>3. chunk \in Chunks
    BY <2>2 DEF Chunks
  <2> HIDE DEF chunk
  <2>4. written \in Seq(Chunks)
    BY <2>1, <2>3, WriteAtType
  <2>5. content' = [content EXCEPT ![l.file] = written] /\ UNCHANGED <<bins, parts, torn, run>>
    BY <1>5 DEF Receive, chunk
  <2> QED
    BY <1>1, <2>1, <2>4, <2>5 DEF DiskType
<1>6. CASE Verify(h) \/ Chmod(h)
  BY <1>1, <1>6 DEF Verify, Chmod, DiskType, Equipped
<1>7. ASSUME l.pc \in {"backup", "replace"}
      PROVE  l.bin \in Names /\ l.bin + 1 \in Names /\ l.want \in Versions
  BY <1>1, <1>7, UpdateAssumption DEF Equipped, Procs, Names
<1>8. CASE Backup(h)
  BY <1>1, <1>7, <1>8 DEF Backup, Renamed, DiskType
<1>9. CASE BackupCopies(h)
  <2> DEFINE copy == CreatedFile(l.bin + 1)
             old == content[bins[l.bin]]
  <2>1. CASE UNCHANGED <<bins, content, torn, parts, run>>
    BY <1>1, <2>1 DEF DiskType
  <2>2. ASSUME Created(l.bin + 1), NEW n \in 0 .. Len(old), CopyTo(l.bin, copy, n),
               UNCHANGED <<parts, run>>
        PROVE  DiskType'
    <3>1. copy \in Files
      BY <1>1, <1>7, <1>9, <2>2, CreatedIsFile DEF BackupCopies
    <3>2. bins[l.bin] \in Files /\ old \in Seq(Chunks)
      BY <1>1, <1>7, <1>9 DEF BackupCopies, DiskType
    <3>3. SubSeq(old, 1, n) \in Seq(Chunks)
      BY <2>2, <3>2, CopyOf
    <3>4. /\ bins' = [bins EXCEPT ![l.bin + 1] = copy]
          /\ content' = [content EXCEPT ![copy] = SubSeq(old, 1, n)]
          /\ torn' \in {torn \cup {copy}, torn \ {copy}}
      BY <2>2 DEF CopyTo
    <3> HIDE DEF copy, old
    <3>5. /\ bins' \in [Names -> Files \cup {Nothing}]
          /\ content' \in [Files -> Seq(Chunks)]
      BY <1>1, <3>1, <3>3, <3>4 DEF DiskType
    <3>6. torn' \subseteq Files
      BY <1>1, <3>1, <3>4 DEF DiskType
    <3> QED
      BY <1>1, <2>2, <3>5, <3>6 DEF DiskType
  <2> QED
    BY <1>9, <2>1, <2>2 DEF BackupCopies
<1>10. CASE Replace(h)
  BY <1>1, <1>7, <1>10 DEF Replace, DiskType
<1>11. CASE ReplaceFails(h)
  BY <1>1, <1>7, <1>11 DEF ReplaceFails, Renamed, DiskType
<1> QED
  BY <1>2, <1>3, <1>4, <1>5, <1>6, <1>8, <1>9, <1>10, <1>11
  DEF JobStep, Apply, Start, Fail, Fetch, Stat, Broken, Resume, Received, Unverified,
      Finish, disk

LEMMA JobMemory ==
    ASSUME TypeInv, NEW h \in Handlers, Apply(h) \/ JobStep(h)
    PROVE  /\ up' \in BOOLEAN /\ restarting' \in BOOLEAN
           /\ closed' \in BOOLEAN /\ interrupted' \in BOOLEAN /\ unsaved' \in BOOLEAN
           /\ status' \in Statuses /\ version' \in Versions \cup {Nothing}
           /\ requests' \in Nat /\ crashes' \in Nat
<1>1. proc[h].pc # "idle" => proc[h].want \in Versions
  BY DEF TypeInv, InHand
<1>2. /\ up' = up /\ restarting' \in {restarting, TRUE} /\ closed' = closed
      /\ crashes' = crashes
  BY DEF JobStep, Apply, Start, Fail, Fetch, Open, Stat, Broken, BeyondTheEnd, FromTheStart,
         Resume, Receive, Received, Unverified, Verify, Chmod, Backup, BackupCopies, Replace,
         ReplaceFails, Finish, memory, bounds
<1>3. /\ requests' \in {requests, requests + 1}
      /\ version' \in {version, Nothing} \/ (Fetch(h) /\ version' = proc[h].want)
  BY DEF JobStep, Apply, Start, Fail, Fetch, Open, Stat, Broken, BeyondTheEnd, FromTheStart,
         Resume, Receive, Received, Unverified, Verify, Chmod, Backup, BackupCopies, Replace,
         ReplaceFails, Finish, memory, bounds
<1>4. status' \in Statuses \cup {status}
  BY DEF JobStep, Apply, Start, Fail, Fetch, Open, Stat, Broken, BeyondTheEnd, FromTheStart,
         Resume, Receive, Received, Unverified, Verify, Chmod, Backup, BackupCopies, Replace,
         ReplaceFails, Finish, NextAttempt, Stopped, memory, Statuses, Resting
<1>5. Fetch(h) => proc[h].want \in Versions
  BY <1>1 DEF Fetch
<1>6. up' \in BOOLEAN /\ restarting' \in BOOLEAN /\ closed' \in BOOLEAN
  BY <1>2 DEF TypeInv, TypeOK
<1>9. interrupted \in BOOLEAN /\ unsaved \in BOOLEAN
  BY DEF TypeInv, TypeOK
<1>10. interrupted' \in BOOLEAN /\ unsaved' \in BOOLEAN
  <2>1. CASE ReplaceFails(h)
    BY <1>9, <2>1 DEF ReplaceFails
  <2>2. CASE BackupCopies(h)
    BY <1>9, <2>2 DEF BackupCopies, CopyTo
  <2>3. CASE ~(ReplaceFails(h) \/ BackupCopies(h))
    <3>1. UNCHANGED <<interrupted, unsaved>>
      BY <2>3 DEF JobStep, Apply, Start, Fail, Fetch, Open, Stat, Broken, BeyondTheEnd,
         FromTheStart, Resume, Receive, Received, Unverified, Verify, Chmod, Backup, Replace,
         Finish, bounds
    <3> QED
      BY <1>9, <3>1
  <2> QED
    BY <2>1, <2>2, <2>3
<1>7. requests' \in Nat /\ crashes' \in Nat /\ version' \in Versions \cup {Nothing}
  BY <1>2, <1>3, <1>5 DEF TypeInv, TypeOK
<1>8. status' \in Statuses
  BY <1>4 DEF TypeInv, TypeOK, Statuses
<1> QED
  BY <1>6, <1>7, <1>8, <1>10

LEMMA EndsType ==
    ASSUME TypeInv, Ends, up' \in BOOLEAN, crashes' \in Nat, run' \in [file : Files, path : Names]
    PROVE  TypeInv'
<1>1. \A h \in Handlers : proc'[h] = Idle
  BY DEF Ends
<1>2. proc' \in [Handlers -> Procs] /\ \A h \in Handlers : Equipped(proc'[h])
  BY <1>1, IdleType DEF Ends
<1>3. interrupted' \in BOOLEAN /\ unsaved' \in BOOLEAN
  BY DEF Ends, TypeInv, TypeOK
<1> QED
  BY <1>2, <1>3 DEF TypeInv, TypeOK, InHand, Ends, Resting, disk, Procs, Equipped

LEMMA TypeInitially == Init => TypeInv
<1> SUFFICES ASSUME Init PROVE TypeInv
  OBVIOUS
<1> DEFINE f == CHOOSE g \in Files : TRUE
<1>1. f \in Files
  BY UpdateAssumption
<1> HIDE DEF f
<1>2. content = [g \in Files |-> IF g = f THEN Whole(Installed) ELSE <<>>]
  BY DEF Init, f
<1>3. content \in [Files -> Seq(Chunks)]
  BY <1>2, WholeType, UpdateAssumption
<1>4. bins = [n \in Names |-> IF n = 0 THEN f ELSE Nothing] /\ run = [file |-> f, path |-> 0]
  BY DEF Init, f
<1>5. /\ bins \in [Names -> Files \cup {Nothing}]
      /\ run \in [file : Files, path : Names]
  BY <1>1, <1>4, Names01
<1>6. proc \in [Handlers -> Procs] /\ \A h \in Handlers : Equipped(proc[h])
  BY IdleType DEF Init
<1> QED
  BY <1>3, <1>5, <1>6 DEF Init, TypeInv, TypeOK, InHand, Resting, Procs, Equipped

LEMMA TypeStep == TypeInv /\ [Next]_vars => TypeInv'
<1> SUFFICES ASSUME TypeInv, [Next]_vars PROVE TypeInv'
  OBVIOUS
<1>1. ASSUME NEW h \in Handlers, Apply(h) \/ JobStep(h)
      PROVE  TypeInv'
  <2>1. PICK r \in Procs : Equipped(r) /\ proc' = [proc EXCEPT ![h] = r]
    BY <1>1, JobLocals
  <2>2. proc' \in [Handlers -> Procs] /\ \A i \in Handlers : Equipped(proc'[i])
    BY <2>1 DEF TypeInv, TypeOK, InHand, Procs, Equipped
  <2>3. DiskType'
    BY <1>1, JobDisk
  <2> QED
    BY <1>1, <2>2, <2>3, JobMemory DEF TypeInv, TypeOK, InHand, DiskType, Procs, Equipped, Statuses
<1>2. ASSUME NEW path \in Names, Startable(path), Runs(path)
      PROVE  run' \in [file : Files, path : Names]
  BY <1>2 DEF Startable, Runs, TypeInv, TypeOK
<1>3. CASE Restart
  <2>1. CASE RestartBySystemd
    BY <2>1, EndsType DEF RestartBySystemd, TypeInv, TypeOK
  <2>2. CASE RestartByExec
    BY <1>2, <2>2, EndsType DEF RestartByExec, TypeInv, TypeOK
  <2>3. CASE RestartFails
    BY <2>3 DEF RestartFails, TypeInv, TypeOK, InHand, disk, bounds
  <2> QED
    BY <1>3, <2>1, <2>2, <2>3 DEF Restart
<1>4. CASE Crash
  <2>1. Ends /\ crashes' \in Nat /\ run' \in [file : Files, path : Names]
    BY <1>4 DEF Crash, TypeInv, TypeOK
  <2>2. up' \in BOOLEAN
    BY <1>4 DEF Crash
  <2> QED
    BY <2>1, <2>2, EndsType
<1>5. CASE Boot
  <2>1. run' \in [file : Files, path : Names]
    BY <1>2, <1>5, Names01 DEF Boot
  <2> QED
    BY <1>5, <2>1 DEF Boot, TypeInv, TypeOK, InHand, disk, memory, bounds
<1>6. CASE UNCHANGED vars
  BY <1>6 DEF TypeInv, TypeOK, InHand, vars, disk, memory, bounds
<1> QED
  BY <1>1, <1>3, <1>4, <1>5, <1>6 DEF Next

(***************************************************************************)
(* Every variable keeps its type, and a job has what its step needs: a     *)
(* version, a name with room for its backup, a file to write to.           *)
(***************************************************************************)
THEOREM TypeCorrect == Spec => []TypeOK
<1>1. Spec => []TypeInv
  BY TypeInitially, TypeStep, PTL DEF Spec
<1> QED
  BY <1>1, PTL DEF TypeInv

-----------------------------------------------------------------------------
(* One job: what is installed is whole *)

LEMMA Typed ==
    ASSUME TypeInv
    PROVE  /\ DiskType
           /\ proc \in [Handlers -> Procs]
           /\ \A h \in Handlers : Equipped(proc[h])
BY DEF TypeInv, TypeOK, InHand, DiskType, Procs, Equipped

LEMMA LengthType ==
    ASSUME DiskType, NEW f \in Files
    PROVE  content[f] \in Seq(Chunks) /\ Len(content[f]) \in Nat
BY DEF DiskType

(* The job's file, as its step left it. *)
LEMMA JobFile ==
    ASSUME TypeInv, DownloadInv, NEW h \in Handlers, proc[h].pc \in Downloading \cup Downloaded
    PROVE  /\ proc[h].file \in Files /\ proc[h].want \in Versions
           /\ parts[proc[h].want] = proc[h].file /\ proc[h].file # Nothing
           /\ content[proc[h].file] \in Seq(Chunks)
           /\ Partial(content[proc[h].file], proc[h].want)
<1>1. proc[h].pc # "idle" /\ proc[h].want \in Versions
  BY Typed DEF Equipped, Downloading, Downloaded
<1>2. proc[h].file \in Files /\ parts[proc[h].want] = proc[h].file
  BY DEF DownloadInv, Progress, ProgressAt
<1> QED
  BY <1>1, <1>2, Typed, LengthType, UpdateAssumption DEF DownloadInv, PartsPartial

(* A step that leaves the disk as it is leaves what is said of it. *)
LEMMA SameDisk ==
    ASSUME TypeInv, DownloadInv, NEW h \in Handlers, UNCHANGED <<disk, run>>,
           \A i \in Handlers \ {h} : proc'[i] = proc[i], ProgressAt(proc[h])'
    PROVE  DownloadInv'
<1>1. Separate' /\ PartsPartial' /\ InstalledWhole'
  BY DEF DownloadInv, Separate, PartsPartial, InstalledWhole, IsWhole, disk
<1>2. ASSUME NEW i \in Handlers \ {h} PROVE ProgressAt(proc[i])'
  BY <1>2 DEF DownloadInv, Progress, ProgressAt, disk
<1> QED
  BY <1>1, <1>2 DEF DownloadInv, Progress

(* While a job runs the others have nothing in hand that a step disturbs. *)
LEMMA OthersRest ==
    ASSUME TypeInv, DownloadInv, OneJob, NEW h \in Handlers, proc[h].pc \notin {"idle", "start"},
           NEW i \in Handlers \ {h}, proc'[i] = proc[i]
    PROVE  ProgressAt(proc[i])'
<1>1. proc[i].pc \in {"idle", "start"} /\ ProgressAt(proc[i])
  BY DEF OneJob, DownloadInv, Progress
<1> QED
  BY <1>1 DEF ProgressAt, Downloading, Downloaded

LEMMA EmptyFile ==
    ASSUME TypeInv, DownloadInv, NEW h \in Handlers, proc[h].pc \in Downloading,
           content' = [content EXCEPT ![proc[h].file] = <<>>],
           UNCHANGED <<bins, parts, torn, run>>
    PROVE  Separate' /\ PartsPartial' /\ InstalledWhole' /\ content'[proc[h].file] = <<>>
<1> DEFINE l == proc[h]
<1>1. l.file \in Files /\ l.want \in Versions /\ parts[l.want] = l.file /\ l.file # Nothing
  BY JobFile
<1>2. /\ content'[l.file] = <<>>
      /\ \A f \in Files \ {l.file} : content'[f] = content[f]
  BY <1>1, Typed DEF DiskType
<1>3. \A n \in Names : bins[n] # l.file
  BY <1>1 DEF DownloadInv, Separate
<1>4. InstalledWhole'
  BY <1>2, <1>3, Typed DEF DownloadInv, InstalledWhole, IsWhole, DiskType
<1>5. PartsPartial'
  <2> SUFFICES ASSUME NEW v \in Versions, parts[v] # Nothing
               PROVE  Partial(content'[parts[v]], v)
    BY DEF PartsPartial, Partial
  <2>1. CASE parts[v] = l.file
    BY <1>2, <2>1, EmptyPartial
  <2>2. CASE parts[v] # l.file
    <3>1. parts[v] \in Files
      BY Typed DEF DiskType
    <3> QED
      BY <1>2, <2>2, <3>1 DEF DownloadInv, PartsPartial
  <2> QED
    BY <2>1, <2>2
<1>6. Separate'
  BY DEF DownloadInv, Separate
<1> QED
  BY <1>2, <1>4, <1>5, <1>6

(* A job's record after its step. *)
LEMMA Moved ==
    ASSUME TypeInv, NEW h \in Handlers, Apply(h) \/ JobStep(h)
    PROVE  /\ proc'[h] \in Procs /\ Equipped(proc'[h])
           /\ \A i \in Handlers \ {h} : proc'[i] = proc[i]
BY JobLocals, Typed

LEMMA IdleProgress ==
    ASSUME NEW h \in Handlers, proc'[h] = Idle
    PROVE  ProgressAt(proc[h])'
BY DEF ProgressAt, Idle, Downloading, Downloaded

LEMMA StoppedProgress ==
    ASSUME TypeInv, NEW h \in Handlers, Stopped(h)
    PROVE  ProgressAt(proc[h])' /\ \A i \in Handlers \ {h} : proc'[i] = proc[i]
BY Typed, IdleProgress DEF Stopped

LEMMA RetryProgress ==
    ASSUME TypeInv, NEW h \in Handlers, NEW offset, NextAttempt(h, offset), UNCHANGED parts,
           proc[h].file \in Files, parts[proc[h].want] = proc[h].file,
           Len(content'[proc[h].file]) = 0 => offset = 0
    PROVE  ProgressAt(proc[h])'
<1>1. CASE Stopped(h)
  BY <1>1, StoppedProgress
<1>2. CASE proc' = [proc EXCEPT ![h].pc = "stat", ![h].attempt = @ + 1, ![h].offset = offset]
  <2>1. /\ proc'[h].pc = "stat" /\ proc'[h].offset = offset
        /\ proc'[h].file = proc[h].file /\ proc'[h].want = proc[h].want
    BY <1>2, Typed DEF Procs
  <2> QED
    BY <2>1 DEF ProgressAt, Downloading, Downloaded
<1> QED
  BY <1>1, <1>2 DEF NextAttempt

(* The steps of a job that change no file. *)
LEMMA PassiveStep ==
    ASSUME TypeInv, DownloadInv, NEW h \in Handlers,
           Apply(h) \/ Start(h) \/ Fail(h) \/ Fetch(h) \/ Stat(h) \/ Broken(h) \/ Resume(h)
             \/ Received(h) \/ Unverified(h) \/ Finish(h),
           \A i \in Handlers \ {h} : proc'[i] = proc[i]
    PROVE  DownloadInv'
<1> DEFINE l == proc[h]
<1>1. UNCHANGED <<disk, run>>
  BY DEF Apply, Start, Fail, Fetch, Stat, Broken, Resume, Received, Unverified, Finish
<1> SUFFICES ProgressAt(proc[h])'
  BY <1>1, SameDisk
<1>2. l \in Procs /\ Equipped(l) /\ ProgressAt(l) /\ DiskType
  BY Typed DEF DownloadInv, Progress
<1>3. UNCHANGED <<bins, parts, content>>
  BY <1>1 DEF disk
<1>4. l.pc \in Downloading \cup Downloaded =>
        /\ l.file \in Files /\ parts[l.want] = l.file
        /\ Len(content[l.file]) \in Nat /\ Len(content[l.file]) <= Size
  BY JobFile DEF Partial
<1>6. ASSUME NEW pc, NEW offset, pc \in {"start", "fetch", "open"}, offset = 0,
             proc'[h].pc = pc, proc'[h].offset = offset
      PROVE  ProgressAt(proc[h])'
  BY <1>6 DEF ProgressAt, Downloading, Downloaded
<1>7. CASE Apply(h)
  <2>1. PICK v \in Versions : proc' = [proc EXCEPT ![h] = [Idle EXCEPT !.pc = "start", !.want = v]]
    BY <1>7 DEF Apply
  <2>2. proc'[h] = [Idle EXCEPT !.pc = "start", !.want = v]
    BY <2>1, Typed
  <2>3. proc'[h].pc = "start" /\ proc'[h].offset = 0
    BY <2>2 DEF Idle
  <2> QED
    BY <1>6, <2>3
<1>8. CASE Start(h)
  <2>1. proc'[h].pc = "fetch" /\ proc'[h].offset = l.offset /\ l.pc = "start"
    BY <1>2, <1>8, Typed DEF Start, Procs
  <2> QED
    BY <1>2, <1>6, <2>1 DEF ProgressAt
<1>9. CASE Fail(h)
  BY <1>9, StoppedProgress DEF Fail
<1>10. CASE Fetch(h)
  <2>1. CASE Stopped(h)
    BY <2>1, StoppedProgress
  <2>2. CASE \E known \in BOOLEAN : proc' = [proc EXCEPT ![h].pc = "open", ![h].known = known]
    <3>1. proc \in [Handlers -> Procs] /\ l.pc = "fetch"
      BY <1>10, Typed DEF Fetch
    <3>2. proc'[h].pc = "open" /\ proc'[h].offset = l.offset
      BY <2>2, <3>1 DEF Procs
    <3> QED
      BY <1>2, <1>6, <3>1, <3>2 DEF ProgressAt
  <2> QED
    BY <1>10, <2>1, <2>2 DEF Fetch
<1>11. CASE Stat(h)
  <2>1. l.pc = "stat" /\ (Len(content[l.file]) = 0 => l.offset = 0)
    BY <1>2, <1>11 DEF Stat, ProgressAt
  <2>2. CASE proc' = [proc EXCEPT ![h].pc = "verify"] /\ Len(content[l.file]) >= Size
    <3>1. proc'[h].pc = "verify" /\ proc'[h].file = l.file /\ proc'[h].want = l.want
      BY <1>2, <2>2, Typed DEF Procs
    <3>2. Len(content[l.file]) = Size
      BY <1>4, <2>1, <2>2, Sized DEF Downloading
    <3> QED
      BY <1>3, <1>4, <2>1, <3>1, <3>2 DEF ProgressAt, Downloading, Downloaded
  <2>3. CASE proc' = [proc EXCEPT ![h].pc = "request", ![h].existing = Len(content[l.file])]
    <3>1. /\ proc'[h].pc = "request" /\ proc'[h].file = l.file /\ proc'[h].want = l.want
          /\ proc'[h].offset = l.offset /\ proc'[h].existing = Len(content[l.file])
      BY <1>2, <2>3, Typed DEF Procs
    <3> QED
      BY <1>3, <1>4, <2>1, <3>1 DEF ProgressAt, Downloading, Downloaded
  <2> QED
    BY <1>11, <2>2, <2>3 DEF Stat
<1>12. CASE Broken(h)
  <2>1. l.pc \in {"request", "stream"} /\ NextAttempt(h, l.offset)
    BY <1>12 DEF Broken
  <2>2. Len(content[l.file]) = 0 => l.offset = 0
    BY <1>2, <2>1 DEF ProgressAt
  <2> QED
    BY <1>3, <1>4, <2>1, <2>2, RetryProgress DEF Downloading
<1>13. CASE Resume(h)
  <2>1. l.pc = "request" /\ l.existing = Len(content[l.file])
    BY <1>2, <1>13 DEF Resume, ProgressAt
  <2>2. /\ proc'[h].pc = "stream" /\ proc'[h].file = l.file /\ proc'[h].want = l.want
        /\ proc'[h].pos = l.existing /\ proc'[h].offset = Len(content[l.file])
    BY <1>2, <1>13, Typed DEF Resume, Answered, Procs
  <2> QED
    BY <1>3, <1>4, <2>1, <2>2 DEF ProgressAt, Downloading, Downloaded
<1>14. ASSUME NEW pc, pc \in Downloaded, proc' = [proc EXCEPT ![h].pc = pc],
              l.pc \in Downloading \cup Downloaded, Len(content[l.file]) = Size
       PROVE  ProgressAt(proc[h])'
  <2>1. proc'[h].pc = pc /\ proc'[h].file = l.file /\ proc'[h].want = l.want
    BY <1>2, <1>14, Typed DEF Procs
  <2> QED
    BY <1>3, <1>4, <1>14, <2>1 DEF ProgressAt, Downloading, Downloaded
<1>15. CASE Received(h)
  BY <1>2, <1>14, <1>15 DEF Received, ProgressAt, Downloading, Downloaded
<1>16. CASE Unverified(h)
  BY <1>2, <1>14, <1>16 DEF Unverified, ProgressAt, Downloading, Downloaded
<1>18. CASE Finish(h)
  BY <1>18, Typed, IdleProgress DEF Finish
<1> QED
  BY <1>7, <1>8, <1>9, <1>10, <1>11, <1>12, <1>13, <1>15, <1>16, <1>18

(* What is left to show of a step of the one job. *)
LEMMA WorkingStep ==
    ASSUME TypeInv, DownloadInv, OneJob, NEW h \in Handlers, proc[h].pc \notin {"idle", "start"},
           \A i \in Handlers \ {h} : proc'[i] = proc[i],
           Separate', PartsPartial', InstalledWhole', ProgressAt(proc[h])'
    PROVE  DownloadInv'
<1>1. \A i \in Handlers \ {h} : ProgressAt(proc[i])'
  BY OthersRest
<1> QED
  BY <1>1 DEF DownloadInv, Progress

(* A partial file is removed, or the name of one. *)
LEMMA FewerParts ==
    ASSUME DownloadInv, \A v \in Versions : parts'[v] \in {parts[v], Nothing},
           UNCHANGED <<bins, content, torn, run>>
    PROVE  Separate' /\ PartsPartial' /\ InstalledWhole'
<1>1. Separate'
  BY DEF DownloadInv, Separate
<1>2. PartsPartial'
  BY DEF DownloadInv, PartsPartial
<1>3. InstalledWhole'
  BY DEF DownloadInv, InstalledWhole, IsWhole
<1> QED
  BY <1>1, <1>2, <1>3

LEMMA OpenStep ==
    ASSUME TypeInv, DownloadInv, NEW h \in Handlers, Open(h)
    PROVE  Separate' /\ PartsPartial' /\ InstalledWhole' /\ ProgressAt(proc[h])'
<1> DEFINE l == proc[h]
           w == l.want
           others == [u \in Versions |-> IF u = w THEN parts[w] ELSE Nothing]
           new == CHOOSE f \in Free : TRUE
<1>1. /\ l \in Procs /\ DiskType /\ w \in Versions /\ l.offset = 0
      /\ UNCHANGED <<bins, run>>
  BY Typed DEF Open, DownloadInv, Progress, ProgressAt, Equipped
<1>2. CASE /\ parts[w] # Nothing /\ parts' = others /\ UNCHANGED <<content, torn>>
           /\ proc' = [proc EXCEPT ![h].pc = "stat", ![h].file = parts[w]]
  <2>1. Separate' /\ PartsPartial' /\ InstalledWhole'
    BY <1>1, <1>2, FewerParts
  <2>2. /\ proc'[h].pc = "stat" /\ proc'[h].file = parts[w] /\ proc'[h].want = w
        /\ proc'[h].offset = 0
    BY <1>1, <1>2, Typed DEF Procs
  <2>3. parts'[w] = parts[w] /\ parts[w] \in Files
    BY <1>1, <1>2 DEF DiskType
  <2> QED
    BY <2>1, <2>2, <2>3 DEF ProgressAt, Downloading, Downloaded
<1>3. CASE /\ parts[w] = Nothing /\ Free # {} /\ parts' = [others EXCEPT ![w] = new]
           /\ content' = [content EXCEPT ![new] = <<>>] /\ torn' = torn \ {new}
           /\ proc' = [proc EXCEPT ![h].pc = "stat", ![h].file = new]
  <2>1. new \in Files /\ ~InUse(new)
    BY <1>3, FreeFile
  <2> HIDE DEF new
  <2>2. parts'[w] = new /\ \A u \in Versions \ {w} : parts'[u] = Nothing
    BY <1>1, <1>3
  <2>3. content'[new] = <<>> /\ \A f \in Files \ {new} : content'[f] = content[f]
    BY <1>1, <1>3, <2>1 DEF DiskType
  <2>4. run.file # new /\ \A n \in Names : bins[n] # new
    BY <2>1 DEF InUse
  <2>5. Separate'
    BY <1>1, <2>2, <2>4 DEF DownloadInv, Separate
  <2>6. PartsPartial'
    BY <1>1, <2>2, <2>3, EmptyPartial DEF PartsPartial
  <2>7. InstalledWhole'
    BY <1>1, <1>3, <2>3, <2>4 DEF DownloadInv, InstalledWhole, IsWhole, DiskType
  <2>8. /\ proc'[h].pc = "stat" /\ proc'[h].file = new /\ proc'[h].want = w
        /\ proc'[h].offset = 0
    BY <1>1, <1>3, Typed DEF Procs
  <2> QED
    BY <2>1, <2>2, <2>5, <2>6, <2>7, <2>8 DEF ProgressAt, Downloading, Downloaded
<1>4. CASE parts' = others /\ UNCHANGED <<content, torn>> /\ Stopped(h)
  <2>1. Separate' /\ PartsPartial' /\ InstalledWhole'
    BY <1>1, <1>4, FewerParts
  <2> QED
    BY <1>4, <2>1, StoppedProgress
<1> QED
  BY <1>2, <1>3, <1>4 DEF Open

LEMMA BeyondTheEndStep ==
    ASSUME TypeInv, DownloadInv, NEW h \in Handlers, BeyondTheEnd(h)
    PROVE  Separate' /\ PartsPartial' /\ InstalledWhole' /\ ProgressAt(proc[h])'
<1>1. /\ proc[h].pc \in Downloading /\ UNCHANGED <<bins, parts, torn, run>>
      /\ content' = [content EXCEPT ![proc[h].file] = <<>>] /\ NextAttempt(h, 0)
  BY DEF BeyondTheEnd, Downloading
<1>2. Separate' /\ PartsPartial' /\ InstalledWhole'
  BY <1>1, EmptyFile
<1>3. ProgressAt(proc[h])'
  BY <1>1, JobFile, RetryProgress
<1> QED
  BY <1>2, <1>3

LEMMA FromTheStartStep ==
    ASSUME TypeInv, DownloadInv, NEW h \in Handlers, FromTheStart(h)
    PROVE  Separate' /\ PartsPartial' /\ InstalledWhole' /\ ProgressAt(proc[h])'
<1> DEFINE l == proc[h]
<1>1. /\ l \in Procs /\ l.pc = "request" /\ UNCHANGED <<bins, parts, torn, run>>
      /\ l.existing = Len(content[l.file]) /\ (Len(content[l.file]) = 0 => l.offset = 0)
  BY Typed DEF FromTheStart, DownloadInv, Progress, ProgressAt
<1>2. l.file \in Files /\ parts[l.want] = l.file /\ content[l.file] \in Seq(Chunks)
  BY <1>1, JobFile DEF Downloading
<1>3. /\ Separate' /\ PartsPartial' /\ InstalledWhole'
      /\ Len(content'[l.file]) = 0
  <2>1. CASE l.existing > 0
    BY <1>1, <2>1, EmptyFile DEF FromTheStart, Downloading
  <2>2. CASE ~(l.existing > 0)
    <3>1. UNCHANGED content /\ Len(content[l.file]) = 0
      BY <1>1, <1>2, <2>2 DEF FromTheStart
    <3> QED
      BY <1>1, <3>1, FewerParts
  <2> QED
    BY <2>1, <2>2
<1>4. /\ proc'[h].pc = "stream" /\ proc'[h].file = l.file /\ proc'[h].want = l.want
      /\ proc'[h].pos = 0 /\ proc'[h].offset = IF l.existing > 0 THEN 0 ELSE l.offset
  BY <1>1, Typed DEF FromTheStart, Answered, Procs
<1>5. proc'[h].offset = 0
  BY <1>1, <1>2, <1>4 DEF Procs
<1> QED
  BY <1>1, <1>2, <1>3, <1>4, <1>5 DEF ProgressAt, Downloading, Downloaded

LEMMA ReceiveStep ==
    ASSUME TypeInv, DownloadInv, NEW h \in Handlers, Receive(h)
    PROVE  Separate' /\ PartsPartial' /\ InstalledWhole' /\ ProgressAt(proc[h])'
<1> DEFINE l == proc[h]
           w == l.want
           old == content[l.file]
           t == WriteAt(old, Len(old), <<w, Len(old) + 1>>)
<1>1. /\ l \in Procs /\ l.pc = "stream" /\ l.pos < Size /\ UNCHANGED <<bins, parts, torn, run>>
      /\ l.pos = Len(old) /\ l.offset = Len(old)
  BY Typed DEF Receive, DownloadInv, Progress, ProgressAt
<1>2. /\ l.file \in Files /\ l.file # Nothing /\ w \in Versions /\ parts[w] = l.file
      /\ old \in Seq(Chunks) /\ Partial(old, w)
  BY <1>1, JobFile DEF Downloading
<1>3. Partial(t, w) /\ Len(t) = Len(old) + 1
  BY <1>1, <1>2, NextChunkPartial
<1>4. content' = [content EXCEPT ![l.file] = t]
  BY <1>1 DEF Receive
<1> HIDE DEF t
<1>5. content'[l.file] = t /\ \A f \in Files \ {l.file} : content'[f] = content[f]
  BY <1>2, <1>4, Typed DEF DiskType
<1>6. Separate'
  BY <1>1 DEF DownloadInv, Separate
<1>7. \A v \in Versions \ {w} : parts[v] # Nothing => parts[v] # l.file
  BY <1>2 DEF DownloadInv, Separate
<1>8. PartsPartial'
  BY <1>1, <1>2, <1>3, <1>5, <1>7, Typed DEF DownloadInv, PartsPartial, DiskType
<1>9. \A n \in Names : bins[n] # l.file
  BY <1>2 DEF DownloadInv, Separate
<1>10. InstalledWhole'
  BY <1>1, <1>5, <1>9, Typed DEF DownloadInv, InstalledWhole, IsWhole, DiskType
<1>11. /\ proc'[h].pc = "stream" /\ proc'[h].file = l.file /\ proc'[h].want = w
       /\ proc'[h].pos = l.pos + 1 /\ proc'[h].offset = l.offset + 1
  BY <1>1, Typed DEF Receive, Procs
<1> QED
  BY <1>1, <1>2, <1>3, <1>5, <1>6, <1>8, <1>10, <1>11 DEF ProgressAt, Downloading, Downloaded

(* The partial file is kept and the job goes on, or neither. *)
LEMMA CheckStep ==
    ASSUME TypeInv, DownloadInv, NEW h \in Handlers, Verify(h) \/ Chmod(h)
    PROVE  Separate' /\ PartsPartial' /\ InstalledWhole' /\ ProgressAt(proc[h])'
<1> DEFINE l == proc[h]
<1>1. /\ l \in Procs /\ DiskType /\ l.pc \in {"verify", "chmod"} /\ ProgressAt(l)
      /\ UNCHANGED <<bins, content, torn, run>>
  BY Typed DEF Verify, Chmod, DownloadInv, Progress
<1>2. ASSUME NEW next \in {"chmod", "backup"}, UNCHANGED parts,
             proc' = [proc EXCEPT ![h].pc = next]
      PROVE  Separate' /\ PartsPartial' /\ InstalledWhole' /\ ProgressAt(proc[h])'
  <2>1. proc'[h].pc = next /\ proc'[h].file = l.file /\ proc'[h].want = l.want
    BY <1>1, <1>2, Typed DEF Procs
  <2>2. Separate' /\ PartsPartial' /\ InstalledWhole'
    BY <1>1, <1>2, FewerParts
  <2> QED
    BY <1>1, <1>2, <2>1, <2>2 DEF ProgressAt, Downloading, Downloaded
<1>3. CASE parts' = [parts EXCEPT ![l.want] = Nothing] /\ Stopped(h)
  <2>1. \A v \in Versions : parts'[v] \in {parts[v], Nothing}
    BY <1>1, <1>3 DEF DiskType
  <2>2. Separate' /\ PartsPartial' /\ InstalledWhole'
    BY <1>1, <2>1, FewerParts
  <2> QED
    BY <1>3, <2>2, StoppedProgress
<1> QED
  BY <1>2, <1>3 DEF Verify, Chmod

(* The name of the binary and that of its backup. *)
LEMMA BinaryNames ==
    ASSUME TypeInv, NEW h \in Handlers, proc[h].pc \in {"backup", "replace"}
    PROVE  proc[h].bin \in Names /\ proc[h].bin + 1 \in Names /\ proc[h].bin # proc[h].bin + 1
<1>1. proc[h] \in Procs /\ proc[h].bin < MaxPrev
  BY Typed DEF Equipped
<1> QED
  BY <1>1, UpdateAssumption DEF Procs, Names

(* Names of binaries stand for files that binaries had before. *)
LEMMA OldBinaries ==
    ASSUME DownloadInv, run'.file = run.file, UNCHANGED <<parts, content, torn>>,
           \A n \in Names : bins'[n] = Nothing \/ \E m \in Names : bins'[n] = bins[m],
           \A m, n \in Names : bins'[m] # Nothing /\ bins'[m] = bins'[n] => m = n
    PROVE  Separate' /\ PartsPartial' /\ InstalledWhole'
<1>1. Separate'
  <2> SUFFICES ASSUME NEW v \in Versions, parts[v] # Nothing, NEW n \in Names
               PROVE  bins'[n] # parts[v]
    BY DEF DownloadInv, Separate
  <2>1. \A m \in Names : bins[m] # parts[v]
    BY DEF DownloadInv, Separate
  <2> QED
    BY <2>1
<1>2. PartsPartial'
  BY DEF DownloadInv, PartsPartial
<1>3. InstalledWhole'
  <2> SUFFICES ASSUME NEW n \in Names, bins'[n] # Nothing
               PROVE  bins'[n] \in torn \/ \E v \in Versions : content[bins'[n]] = Whole(v)
    BY DEF InstalledWhole, IsWhole
  <2>1. PICK m \in Names : bins'[n] = bins[m]
    OBVIOUS
  <2> QED
    BY <2>1 DEF DownloadInv, InstalledWhole, IsWhole
<1> QED
  BY <1>1, <1>2, <1>3

(* A binary gets another name. *)
LEMMA RenameBinary ==
    ASSUME TypeInv, DownloadInv, NEW from \in Names, NEW to \in Names, from # to,
           bins' = [bins EXCEPT ![to] = bins[from], ![from] = Nothing],
           run'.file = run.file, UNCHANGED <<parts, content, torn>>
    PROVE  Separate' /\ PartsPartial' /\ InstalledWhole'
<1>1. \A n \in Names : bins'[n] = IF n = to THEN bins[from] ELSE IF n = from THEN Nothing ELSE bins[n]
  BY Typed DEF DiskType
<1>2. \A n \in Names : bins'[n] = Nothing \/ \E m \in Names : bins'[n] = bins[m]
  BY <1>1
<1>3. \A m, n \in Names : bins'[m] # Nothing /\ bins'[m] = bins'[n] => m = n
  BY <1>1 DEF DownloadInv, Separate
<1> QED
  BY <1>2, <1>3, OldBinaries

LEMMA BackupStep ==
    ASSUME TypeInv, DownloadInv, NEW h \in Handlers, Backup(h)
    PROVE  Separate' /\ PartsPartial' /\ InstalledWhole' /\ ProgressAt(proc[h])'
<1> DEFINE l == proc[h]
           b == l.bin
<1>1. /\ l \in Procs /\ DiskType /\ l.pc = "backup" /\ ProgressAt(l)
      /\ UNCHANGED <<parts, content, torn>>
  BY Typed DEF Backup, DownloadInv, Progress
<1>2. b \in Names /\ b + 1 \in Names /\ b # b + 1
  BY <1>1, BinaryNames
<1>3. Separate' /\ PartsPartial' /\ InstalledWhole'
  <2>1. CASE UNCHANGED <<bins, run>>
    BY <1>1, <2>1, FewerParts
  <2>2. CASE bins[b] # Nothing
    <3>1. run'.file = run.file
      BY <1>1, <2>2 DEF Backup, Renamed, DiskType
    <3>2. bins' = [bins EXCEPT ![b + 1] = bins[b], ![b] = Nothing]
      BY <1>1, <1>2, <2>2 DEF Backup, DiskType
    <3> QED
      BY <1>1, <1>2, <3>1, <3>2, RenameBinary
  <2> QED
    BY <2>1, <2>2 DEF Backup
<1>4. proc'[h].pc = "replace" /\ proc'[h].file = l.file /\ proc'[h].want = l.want
  BY <1>1, Typed DEF Backup, Procs
<1> QED
  BY <1>1, <1>3, <1>4 DEF ProgressAt, Downloading, Downloaded

(* The file a copy is written to is no other binary, none that runs and no *)
(* partial file.                                                           *)
LEMMA CreatedApart ==
    ASSUME TypeInv, DownloadInv, NEW name \in Names, Created(name)
    PROVE  LET copy == CreatedFile(name) IN
           /\ copy \in Files /\ copy # Nothing /\ copy # run.file
           /\ \A n \in Names \ {name} : bins[n] # copy
           /\ \A v \in Versions : parts[v] # copy
<1> DEFINE copy == CreatedFile(name)
<1>1. DiskType /\ copy \in Files /\ copy # Nothing
  BY Typed, CreatedIsFile, UpdateAssumption
<1>2. CASE bins[name] = Nothing
  <2>1. ~InUse(copy)
    BY <1>2, FreeFile DEF Created, CreatedFile
  <2> QED
    BY <1>1, <2>1 DEF InUse
<1>3. CASE bins[name] # Nothing
  <2>1. copy = bins[name] /\ copy # run.file
    BY <1>3 DEF Created, CreatedFile
  <2> QED
    BY <1>1, <1>3, <2>1 DEF DownloadInv, Separate
<1> QED
  BY <1>2, <1>3

LEMMA BackupCopiesStep ==
    ASSUME TypeInv, DownloadInv, NEW h \in Handlers, BackupCopies(h)
    PROVE  Separate' /\ PartsPartial' /\ InstalledWhole' /\ ProgressAt(proc[h])'
<1> DEFINE l == proc[h]
           b == l.bin
           copy == CreatedFile(b + 1)
           old == content[bins[b]]
<1>1. /\ l \in Procs /\ DiskType /\ l.pc = "backup" /\ ProgressAt(l) /\ UNCHANGED <<parts, run>>
      /\ bins[b] # Nothing
  BY Typed DEF BackupCopies, DownloadInv, Progress
<1>2. b \in Names /\ b + 1 \in Names /\ b # b + 1
  BY <1>1, BinaryNames
<1>3. /\ proc'[h].pc = "replace" /\ proc'[h].file = l.file /\ proc'[h].want = l.want
      /\ l.file \in Files /\ parts[l.want] = l.file /\ l.want \in Versions
  BY <1>1, Typed DEF BackupCopies, Procs, ProgressAt, Downloaded, Equipped
<1>4. CASE UNCHANGED <<bins, content, torn>>
  <2>1. Separate' /\ PartsPartial' /\ InstalledWhole'
    BY <1>1, <1>4, FewerParts
  <2> QED
    BY <1>1, <1>3, <1>4, <2>1 DEF ProgressAt, Downloading, Downloaded
<1>5. ASSUME Created(b + 1), NEW n \in 0 .. Len(old), CopyTo(b, copy, n)
      PROVE  Separate' /\ PartsPartial' /\ InstalledWhole' /\ ProgressAt(proc[h])'
  <2>1. /\ copy \in Files /\ copy # Nothing /\ copy # run.file
        /\ \A m \in Names \ {b + 1} : bins[m] # copy
        /\ \A v \in Versions : parts[v] # copy
    BY <1>2, <1>5, CreatedApart
  <2>2. old \in Seq(Chunks) /\ bins[b] \in Files
    BY <1>1, <1>2 DEF DiskType
  <2>3. n = Len(old) => SubSeq(old, 1, n) = old
    BY <1>5, <2>2, CopyOf
  <2>4. /\ bins' = [bins EXCEPT ![b + 1] = copy]
        /\ content' = [content EXCEPT ![copy] = SubSeq(old, 1, n)]
        /\ torn' \in {torn \cup {copy}, torn \ {copy}}
        /\ copy \in torn' \/ (n = Len(old) /\ bins[b] \notin torn)
    BY <1>5 DEF CopyTo
  <2> HIDE DEF copy, old
  <2>5. /\ \A m \in Names : bins'[m] = IF m = b + 1 THEN copy ELSE bins[m]
        /\ content'[copy] = SubSeq(old, 1, n)
        /\ \A f \in Files \ {copy} : content'[f] = content[f]
        /\ \A f \in Files \ {copy} : f \in torn => f \in torn'
    BY <1>1, <2>1, <2>4 DEF DiskType
  <2>6. Separate'
    BY <1>1, <2>1, <2>5 DEF DownloadInv, Separate
  <2>7. PartsPartial'
    BY <1>1, <2>1, <2>5 DEF DownloadInv, PartsPartial, DiskType
  <2>8. InstalledWhole'
    <3>1. ASSUME NEW m \in Names, m # b + 1, bins'[m] # Nothing
          PROVE  bins'[m] \in torn' \/ \E v \in Versions : content'[bins'[m]] = Whole(v)
      <4>1. bins'[m] = bins[m] /\ bins[m] \in Files \ {copy}
        BY <1>1, <2>1, <2>5, <3>1 DEF DiskType
      <4> QED
        BY <2>5, <3>1, <4>1 DEF DownloadInv, InstalledWhole, IsWhole
    <3>2. copy \in torn' \/ \E v \in Versions : content'[copy] = Whole(v)
      <4>1. CASE n = Len(old) /\ bins[b] \notin torn
        <5>1. PICK v \in Versions : content[bins[b]] = Whole(v)
          BY <1>1, <1>2, <4>1 DEF DownloadInv, InstalledWhole, IsWhole
        <5>2. content'[copy] = old
          BY <2>3, <2>5, <4>1
        <5> QED
          BY <5>1, <5>2 DEF old
      <4> QED
        BY <2>4, <4>1
    <3> QED
      BY <2>5, <3>1, <3>2 DEF InstalledWhole, IsWhole
  <2>9. content'[l.file] = content[l.file]
    BY <1>3, <2>1, <2>5
  <2> QED
    BY <1>1, <1>3, <2>6, <2>7, <2>8, <2>9 DEF ProgressAt, Downloading, Downloaded
<1> QED
  BY <1>4, <1>5 DEF BackupCopies

(* The one step that installs: what has all the chunks is the asset. *)
LEMMA ReplaceStep ==
    ASSUME TypeInv, DownloadInv, NEW h \in Handlers, Replace(h)
    PROVE  Separate' /\ PartsPartial' /\ InstalledWhole' /\ ProgressAt(proc[h])'
<1> DEFINE l == proc[h]
           b == l.bin
           w == l.want
<1>1. /\ l \in Procs /\ DiskType /\ l.pc = "replace" /\ ProgressAt(l)
      /\ UNCHANGED <<content, torn, run>>
      /\ parts[w] # Nothing
      /\ bins' = [bins EXCEPT ![b] = parts[w]] /\ parts' = [parts EXCEPT ![w] = Nothing]
  BY Typed DEF Replace, DownloadInv, Progress
<1>2. b \in Names
  BY <1>1, BinaryNames
<1>3. /\ w \in Versions /\ parts[w] = l.file /\ content[l.file] \in Seq(Chunks)
      /\ Partial(content[l.file], w) /\ Len(content[l.file]) = Size
  BY <1>1, JobFile DEF Downloaded, ProgressAt
<1>4. content[parts[w]] = Whole(w)
  BY <1>3, PartialWhole
<1>5. /\ \A n \in Names : bins'[n] = IF n = b THEN parts[w] ELSE bins[n]
      /\ \A v \in Versions : parts'[v] = IF v = w THEN Nothing ELSE parts[v]
  BY <1>1, <1>2, <1>3 DEF DiskType
<1>6. Separate'
  BY <1>1, <1>3, <1>5 DEF DownloadInv, Separate
<1>7. PartsPartial'
  BY <1>1, <1>5 DEF DownloadInv, PartsPartial
<1>8. InstalledWhole'
  BY <1>1, <1>3, <1>4, <1>5 DEF DownloadInv, InstalledWhole, IsWhole
<1>9. proc'[h].pc = "finish"
  BY <1>1, Typed DEF Replace, Procs
<1> QED
  BY <1>6, <1>7, <1>8, <1>9 DEF ProgressAt, Downloading, Downloaded

LEMMA ReplaceFailsStep ==
    ASSUME TypeInv, DownloadInv, NEW h \in Handlers, ReplaceFails(h)
    PROVE  Separate' /\ PartsPartial' /\ InstalledWhole' /\ ProgressAt(proc[h])'
<1> DEFINE b == proc[h].bin
<1>1. DiskType /\ proc[h].pc = "replace" /\ UNCHANGED <<parts, content, torn>> /\ Stopped(h)
  BY Typed DEF ReplaceFails
<1>2. b \in Names /\ b + 1 \in Names /\ b # b + 1
  BY <1>1, BinaryNames
<1>3. CASE UNCHANGED <<bins, run>>
  BY <1>1, <1>3, FewerParts, StoppedProgress
<1>4. CASE bins' = [bins EXCEPT ![b] = bins[b + 1], ![b + 1] = Nothing] /\ Renamed(b + 1, b)
  <2>1. run'.file = run.file
    BY <1>1, <1>4 DEF Renamed, DiskType
  <2> QED
    BY <1>1, <1>2, <1>4, <2>1, RenameBinary, StoppedProgress
<1> QED
  BY <1>3, <1>4 DEF ReplaceFails

(* The process ends, or another one runs a binary. *)
LEMMA ProcessStep ==
    ASSUME TypeInv, DownloadInv, UNCHANGED disk,
           \A h \in Handlers : proc'[h] \in {Idle, proc[h]},
           run'.file = run.file \/ \E path \in Names : bins[path] # Nothing /\ run'.file = bins[path]
    PROVE  DownloadInv'
<1>1. UNCHANGED <<bins, parts, content, torn>>
  BY DEF disk
<1>2. Separate'
  <2> SUFFICES ASSUME NEW v \in Versions, parts[v] # Nothing
               PROVE  run'.file # parts[v]
    BY <1>1 DEF DownloadInv, Separate
  <2> QED
    BY DEF DownloadInv, Separate
<1>3. PartsPartial' /\ InstalledWhole'
  BY <1>1 DEF DownloadInv, PartsPartial, InstalledWhole, IsWhole
<1>4. ASSUME NEW h \in Handlers PROVE ProgressAt(proc[h])'
  <2>1. CASE proc'[h] = Idle
    BY <2>1, IdleProgress
  <2>2. CASE proc'[h] = proc[h]
    BY <1>1, <2>2 DEF DownloadInv, Progress, ProgressAt
  <2> QED
    BY <2>1, <2>2
<1> QED
  BY <1>2, <1>3, <1>4 DEF DownloadInv, Progress

LEMMA DownloadInitially == Init => DownloadInv
<1> SUFFICES ASSUME Init PROVE DownloadInv
  OBVIOUS
<1> DEFINE f == CHOOSE g \in Files : TRUE
<1>1. f \in Files
  BY UpdateAssumption
<1>2. /\ \A n \in Names : bins[n] = IF n = 0 THEN f ELSE Nothing
      /\ \A v \in Versions : parts[v] = Nothing
      /\ \A h \in Handlers : proc[h] = Idle
      /\ content = [g \in Files |-> IF g = f THEN Whole(Installed) ELSE <<>>]
  BY DEF Init
<1> HIDE DEF f
<1>3. InstalledWhole
  BY <1>1, <1>2, UpdateAssumption DEF InstalledWhole, IsWhole
<1>4. Separate /\ PartsPartial
  BY <1>2 DEF Separate, PartsPartial
<1>5. Progress
  BY <1>2 DEF Progress, ProgressAt, Idle, Downloading, Downloaded
<1> QED
  BY <1>3, <1>4, <1>5 DEF DownloadInv

LEMMA DownloadStep == TypeInv /\ DownloadInv /\ OneJob /\ [Next]_vars => DownloadInv'
<1> SUFFICES ASSUME TypeInv, DownloadInv, OneJob, [Next]_vars PROVE DownloadInv'
  OBVIOUS
<1>1. ASSUME NEW h \in Handlers, Apply(h) \/ JobStep(h) PROVE DownloadInv'
  <2>1. \A i \in Handlers \ {h} : proc'[i] = proc[i]
    BY <1>1, Moved
  <2>2. CASE Apply(h) \/ Start(h) \/ Fail(h) \/ Fetch(h) \/ Stat(h) \/ Broken(h) \/ Resume(h)
               \/ Received(h) \/ Unverified(h) \/ Finish(h)
    BY <2>1, <2>2, PassiveStep
  <2>3. CASE Open(h)
    BY <2>1, <2>3, OpenStep, WorkingStep DEF Open
  <2>4. CASE BeyondTheEnd(h)
    BY <2>1, <2>4, BeyondTheEndStep, WorkingStep DEF BeyondTheEnd
  <2>5. CASE FromTheStart(h)
    BY <2>1, <2>5, FromTheStartStep, WorkingStep DEF FromTheStart
  <2>6. CASE Receive(h)
    BY <2>1, <2>6, ReceiveStep, WorkingStep DEF Receive
  <2>7. CASE Verify(h) \/ Chmod(h)
    BY <2>1, <2>7, CheckStep, WorkingStep DEF Verify, Chmod
  <2>8. CASE Backup(h)
    BY <2>1, <2>8, BackupStep, WorkingStep DEF Backup
  <2>9. CASE BackupCopies(h)
    BY <2>1, <2>9, BackupCopiesStep, WorkingStep DEF BackupCopies
  <2>10. CASE Replace(h)
    BY <2>1, <2>10, ReplaceStep, WorkingStep DEF Replace
  <2>11. CASE ReplaceFails(h)
    BY <2>1, <2>11, ReplaceFailsStep, WorkingStep DEF ReplaceFails
  <2> QED
    BY <1>1, <2>2, <2>3, <2>4, <2>5, <2>6, <2>7, <2>8, <2>9, <2>10, <2>11 DEF JobStep
<1>2. ASSUME Ends PROVE \A h \in Handlers : proc'[h] \in {Idle, proc[h]}
  BY <1>2 DEF Ends
<1>3. ASSUME NEW path \in Names, Startable(path), Runs(path)
      PROVE  \E n \in Names : bins[n] # Nothing /\ run'.file = bins[n]
  BY <1>3 DEF Startable, Runs
<1>4. CASE Restart
  <2>1. CASE RestartBySystemd
    BY <1>2, <2>1, ProcessStep DEF RestartBySystemd, Ends
  <2>2. CASE RestartByExec
    BY <1>2, <1>3, <2>2, ProcessStep, Typed DEF RestartByExec, Ends, DiskType
  <2>3. CASE RestartFails
    BY <2>3, ProcessStep DEF RestartFails
  <2> QED
    BY <1>4, <2>1, <2>2, <2>3 DEF Restart
<1>5. CASE Crash
  BY <1>2, <1>5, ProcessStep DEF Crash, Ends
<1>6. CASE Boot
  BY <1>3, <1>6, ProcessStep, Names01 DEF Boot
<1>7. CASE UNCHANGED vars
  BY <1>7, ProcessStep DEF vars
<1> QED
  BY <1>1, <1>4, <1>5, <1>6, <1>7 DEF Next

(***************************************************************************)
(* While there is one job at a time, what a job installs and what it keeps *)
(* as a backup is all of one version, checked by its hash or not, except a *)
(* copy for a backup that broke off (also where it is renamed back): the   *)
(* file of a download holds a beginning of its asset at every step,        *)
(* retried, resumed or left behind by an earlier process, and is renamed   *)
(* when it has the asset's size.                                           *)
(***************************************************************************)
THEOREM InstalledIsWhole == Spec /\ []OneJob => []InstalledWhole
<1>1. Spec => []TypeInv
  BY TypeInitially, TypeStep, PTL DEF Spec
<1>2. Spec /\ []OneJob => []DownloadInv
  BY <1>1, DownloadInitially, DownloadStep, PTL DEF Spec
<1>3. DownloadInv => InstalledWhole
  BY DEF DownloadInv
<1> QED
  BY <1>2, <1>3, PTL

-----------------------------------------------------------------------------
(* One job: there is a binary to start *)

Renaming(h) == Backup(h) \/ BackupCopies(h) \/ Replace(h) \/ ReplaceFails(h)

(* The steps of a job that leave the names of binaries alone. *)
LEMMA QuietStep ==
    ASSUME TypeInv, NEW h \in Handlers, Apply(h) \/ JobStep(h), ~Renaming(h)
    PROVE  /\ UNCHANGED <<bins, run, interrupted, unsaved, up, closed>>
           /\ proc[h].pc # "replace" /\ proc'[h].pc # "replace" /\ proc'[h].pc # "finish"
           /\ \/ proc'[h].pc \in {"idle", "start"}
              \/ proc[h].pc = "start" /\ proc'[h].bin = run.path
              \/ proc[h].pc \notin {"idle", "start"} /\ proc'[h].bin = proc[h].bin
           /\ Finish(h) => restarting'
           /\ ~Finish(h) => proc[h].pc # "finish" /\ UNCHANGED restarting
<1> DEFINE l == proc[h]
           Goal == /\ UNCHANGED <<bins, run, interrupted, unsaved, up, closed>>
                   /\ l.pc # "replace" /\ proc'[h].pc # "replace" /\ proc'[h].pc # "finish"
                   /\ \/ proc'[h].pc \in {"idle", "start"}
                      \/ l.pc = "start" /\ proc'[h].bin = run.path
                      \/ l.pc \notin {"idle", "start"} /\ proc'[h].bin = l.bin
                   /\ Finish(h) => restarting'
                   /\ ~Finish(h) => l.pc # "finish" /\ UNCHANGED restarting
<1>1. proc \in [Handlers -> Procs] /\ Idle.pc = "idle"
  BY Typed DEF Idle
<1>2. ASSUME Stopped(h) PROVE proc'[h].pc = "idle"
  BY <1>1, <1>2 DEF Stopped
<1>3. ASSUME NEW offset, NextAttempt(h, offset)
      PROVE  proc'[h].pc = "idle" \/ (proc'[h].pc = "stat" /\ proc'[h].bin = l.bin)
  BY <1>1, <1>2, <1>3 DEF NextAttempt, Procs
<1>4. ASSUME NEW from, NEW offset, Answered(h, from, offset)
      PROVE  proc'[h].pc = "stream" /\ proc'[h].bin = l.bin
  BY <1>1, <1>4 DEF Answered, Procs
<1>5. CASE Apply(h)
  <2>1. PICK v \in Versions : proc' = [proc EXCEPT ![h] = [Idle EXCEPT !.pc = "start", !.want = v]]
    BY <1>5 DEF Apply
  <2>2. proc'[h].pc = "start"
    BY <1>1, <2>1 DEF Idle
  <2> QED
    BY <1>5, <2>2 DEF Apply, Finish, disk
<1>6. CASE Start(h)
  <2>1. proc'[h].pc = "fetch" /\ proc'[h].bin = run.path
    BY <1>1, <1>6 DEF Start, Procs
  <2> QED
    BY <1>6, <2>1 DEF Start, Finish, disk, bounds
<1>7. CASE Fail(h)
  BY <1>2, <1>7 DEF Fail, Finish, disk, bounds
<1>8. CASE Fetch(h)
  <2>1. proc'[h].pc = "idle" \/ (proc'[h].pc = "open" /\ proc'[h].bin = l.bin)
    BY <1>1, <1>2, <1>8 DEF Fetch, Procs
  <2> QED
    BY <1>8, <2>1 DEF Fetch, Finish, disk, bounds
<1>9. CASE Open(h)
  <2>1. proc'[h].pc = "idle" \/ (proc'[h].pc = "stat" /\ proc'[h].bin = l.bin)
    BY <1>1, <1>2, <1>9 DEF Open, Procs
  <2> QED
    BY <1>9, <2>1 DEF Open, Finish, bounds
<1>10. CASE Stat(h)
  <2>1. proc'[h].pc \in {"verify", "request"} /\ proc'[h].bin = l.bin
    BY <1>1, <1>10 DEF Stat, Procs
  <2> QED
    BY <1>10, <2>1 DEF Stat, Finish, disk, bounds
<1>11. CASE Broken(h)
  BY <1>3, <1>11 DEF Broken, Finish, disk, bounds
<1>12. CASE BeyondTheEnd(h)
  BY <1>3, <1>12 DEF BeyondTheEnd, Finish, bounds
<1>13. CASE FromTheStart(h)
  BY <1>4, <1>13 DEF FromTheStart, Finish, memory, bounds
<1>14. CASE Resume(h)
  BY <1>4, <1>14 DEF Resume, Finish, disk, memory, bounds
<1>15. CASE Receive(h)
  <2>1. proc'[h].pc = "stream" /\ proc'[h].bin = l.bin
    BY <1>1, <1>15 DEF Receive, Procs
  <2> QED
    BY <1>15, <2>1 DEF Receive, Finish, memory, bounds
<1>16. CASE Received(h) \/ Unverified(h)
  <2>1. proc'[h].pc \in {"verify", "chmod"} /\ proc'[h].bin = l.bin
    BY <1>1, <1>16 DEF Received, Unverified, Procs
  <2> QED
    BY <1>16, <2>1 DEF Received, Unverified, Finish, disk, bounds
<1>17. CASE Verify(h)
  <2>1. proc'[h].pc = "idle" \/ (proc'[h].pc = "chmod" /\ proc'[h].bin = l.bin)
    BY <1>1, <1>2, <1>17 DEF Verify, Procs
  <2> QED
    BY <1>17, <2>1 DEF Verify, Finish, bounds
<1>18. CASE Chmod(h)
  <2>1. proc'[h].pc = "idle" \/ (proc'[h].pc = "backup" /\ proc'[h].bin = l.bin)
    BY <1>1, <1>2, <1>18 DEF Chmod, Procs
  <2> QED
    BY <1>18, <2>1 DEF Chmod, Finish, disk, bounds
<1>19. CASE Finish(h)
  BY <1>1, <1>19 DEF Finish, disk, bounds
<1> QED
  BY <1>5, <1>6, <1>7, <1>8, <1>9, <1>10, <1>11, <1>12, <1>13, <1>14, <1>15, <1>16,
     <1>17, <1>18, <1>19 DEF JobStep, Renaming

LEMMA Alone ==
    ASSUME OneJob, NEW h \in Handlers, proc[h].pc \notin {"idle", "start"}
    PROVE  \A i \in Handlers \ {h} : proc[i].pc \in {"idle", "start"}
BY DEF OneJob

LEMMA BinaryInitially == Init => BinaryInPlace
<1> SUFFICES ASSUME Init PROVE BinaryInPlace
  OBVIOUS
<1>1. bins[0] # Nothing
  BY Names01, UpdateAssumption DEF Init
<1> QED
  BY <1>1 DEF BinaryInPlace

LEMMA BinaryStep == TypeInv /\ BinaryInPlace /\ OneJob /\ [Next]_vars => BinaryInPlace'
<1> SUFFICES ASSUME TypeInv, BinaryInPlace, OneJob, [Next]_vars PROVE BinaryInPlace'
  OBVIOUS
<1>1. ASSUME NEW h \in Handlers, Apply(h) \/ JobStep(h) PROVE BinaryInPlace'
  <2> DEFINE l == proc[h]
             b == l.bin
  <2>1. l \in Procs /\ DiskType /\ \A i \in Handlers \ {h} : proc'[i] = proc[i]
    BY <1>1, Moved, Typed
  <2>2. CASE ~Renaming(h)
    <3>1. /\ UNCHANGED <<bins, interrupted>>
          /\ l.pc # "replace" /\ proc'[h].pc # "replace"
      BY <1>1, <2>2, QuietStep
    <3> QED
      BY <2>1, <3>1 DEF BinaryInPlace
  <2>3. CASE Renaming(h)
    <3>1. l.pc \in {"backup", "replace"}
      BY <2>3 DEF Renaming, Backup, BackupCopies, Replace, ReplaceFails
    <3>2. /\ b \in Names /\ b + 1 \in Names /\ 0 \in Names
          /\ b + 1 # b /\ b + 1 # 0
      BY <3>1, BinaryNames, Names01 DEF Names
    <3>3. \A i \in Handlers \ {h} : proc[i].pc # "replace" /\ proc'[i].pc # "replace"
      BY <2>1, <3>1, Alone
    <3>4. CASE Backup(h)
      <4>1. /\ l.pc = "backup" /\ proc'[h].pc = "replace" /\ proc'[h].bin = b
            /\ UNCHANGED interrupted
        BY <2>1, <3>4, Typed DEF Backup, Procs, bounds
      <4>2. bins[0] = Nothing => interrupted
        BY <3>3, <4>1 DEF BinaryInPlace
      <4>3. CASE bins[b] = Nothing
        <5>1. UNCHANGED bins
          BY <3>4, <4>3 DEF Backup
        <5> QED
          BY <3>3, <4>1, <4>2, <4>3, <5>1 DEF BinaryInPlace
      <4>4. CASE bins[b] # Nothing
        <5>1. bins' = [bins EXCEPT ![b] = Nothing, ![b + 1] = bins[b]]
          BY <3>4, <4>4 DEF Backup
        <5>2. /\ bins'[b + 1] # Nothing
              /\ bins'[0] = IF b = 0 THEN Nothing ELSE bins[0]
          BY <2>1, <3>2, <4>4, <5>1 DEF DiskType
        <5>3. b = 0 => bins'[1] # Nothing
          BY <5>2
        <5> QED
          BY <3>3, <4>1, <4>2, <5>2, <5>3 DEF BinaryInPlace
      <4> QED
        BY <4>3, <4>4
    <3>5. CASE BackupCopies(h)
      <4>1. /\ l.pc = "backup" /\ proc'[h].pc = "replace" /\ proc'[h].bin = b
            /\ UNCHANGED interrupted
        BY <2>1, <3>5, Typed DEF BackupCopies, Procs
      <4>2. bins[0] = Nothing => interrupted
        BY <3>3, <4>1 DEF BinaryInPlace
      <4>3. UNCHANGED bins \/ bins' = [bins EXCEPT ![b + 1] = CreatedFile(b + 1)]
        BY <3>5 DEF BackupCopies, CopyTo
      <4>4. bins'[0] = bins[0]
        BY <2>1, <3>2, <4>3 DEF DiskType
      <4> QED
        BY <3>3, <4>1, <4>2, <4>4 DEF BinaryInPlace
    <3>6. CASE Replace(h)
      <4>1. l.pc = "replace" /\ proc'[h].pc = "finish" /\ UNCHANGED interrupted
        BY <2>1, <3>6, Typed DEF Replace, Procs, bounds
      <4>2. \E f : f # Nothing /\ bins' = [bins EXCEPT ![b] = f]
        BY <3>6 DEF Replace
      <4>3. /\ b # 0 => bins'[0] = bins[0]
            /\ b = 0 => bins'[0] # Nothing
        BY <2>1, <3>2, <4>2 DEF DiskType
      <4> QED
        BY <3>3, <4>1, <4>3 DEF BinaryInPlace
    <3>7. CASE ReplaceFails(h)
      <4>1. l.pc = "replace" /\ proc'[h].pc = "idle"
        BY <3>7, Typed, IdleType DEF ReplaceFails, Stopped
      <4>2. \A i \in Handlers : proc'[i].pc # "replace"
        BY <3>3, <4>1
      <4>3. bins[0] = Nothing => interrupted \/ b = 0
        BY <3>3 DEF BinaryInPlace
      <4>4. CASE /\ bins[b + 1] # Nothing /\ UNCHANGED interrupted
                 /\ bins' = [bins EXCEPT ![b] = bins[b + 1], ![b + 1] = Nothing]
        <5>1. bins'[0] = IF b = 0 THEN bins[b + 1] ELSE bins[0]
          BY <2>1, <3>2, <4>4 DEF DiskType
        <5> QED
          BY <4>2, <4>3, <4>4, <5>1 DEF BinaryInPlace
      <4>5. CASE /\ interrupted' = (interrupted \/ (bins[b] = Nothing /\ bins[b + 1] # Nothing))
                 /\ UNCHANGED bins
        <5>1. bins[0] = Nothing /\ b = 0 => interrupted \/ bins[1] # Nothing
          BY <4>1 DEF BinaryInPlace
        <5>2. bins[0] = Nothing => interrupted'
          <6>1. CASE b = 0
            <7>1. bins[b] = bins[0] /\ bins[b + 1] = bins[1]
              BY <6>1
            <7> QED
              BY <4>5, <5>1, <6>1, <7>1, Zenon
          <6>2. CASE b # 0
            BY <4>3, <4>5, <6>2
          <6> QED
            BY <6>1, <6>2
        <5> QED
          BY <4>2, <4>5, <5>2 DEF BinaryInPlace
      <4> QED
        BY <3>7, <4>4, <4>5 DEF ReplaceFails
    <3> QED
      BY <2>3, <3>4, <3>5, <3>6, <3>7 DEF Renaming
  <2> QED
    BY <2>2, <2>3
<1>2. ASSUME Ends PROVE BinaryInPlace'
  <2>1. \A h \in Handlers : proc'[h].pc = "idle"
    BY <1>2, IdleType DEF Ends
  <2>2. UNCHANGED bins /\ interrupted' = (interrupted \/ BetweenRenames)
    BY <1>2 DEF Ends, disk
  <2> QED
    BY <2>1, <2>2 DEF BinaryInPlace, BetweenRenames
<1>3. CASE Restart
  BY <1>2, <1>3 DEF Restart, RestartBySystemd, RestartByExec, RestartFails, BinaryInPlace, disk, bounds
<1>4. CASE Crash
  BY <1>2, <1>4 DEF Crash
<1>5. CASE Boot
  BY <1>5 DEF Boot, BinaryInPlace, disk, bounds
<1>6. CASE UNCHANGED vars
  BY <1>6 DEF BinaryInPlace, vars, disk, bounds
<1> QED
  BY <1>1, <1>3, <1>4, <1>5, <1>6 DEF Next

(***************************************************************************)
(* While there is one job at a time, the service can be started after any  *)
(* update, failed or not, any number of times: the name of the binary is   *)
(* empty between a job's two renames only, if the process ended there, or  *)
(* if the second and the undoing of the first both failed; and what stands *)
(* there is a whole binary unless a torn copy was renamed back to it.      *)
(***************************************************************************)
THEOREM BinaryToStart == Spec /\ []OneJob => []Bootable
<1>1. Spec => []TypeInv
  BY TypeInitially, TypeStep, PTL DEF Spec
<1>2. Spec /\ []OneJob => []BinaryInPlace
  BY <1>1, BinaryInitially, BinaryStep, PTL DEF Spec
<1>3. BinaryInPlace /\ InstalledWhole => Bootable
  BY Names01 DEF BinaryInPlace, InstalledWhole, Bootable, Startable, BetweenRenames
<1> QED
  BY <1>2, <1>3, InstalledIsWhole, PTL

-----------------------------------------------------------------------------
(* One job: the running binary is kept *)

(* No step of a job but the copy for a backup writes to a binary. *)
LEMMA BinariesUntouched ==
    ASSUME TypeInv, DownloadInv, NEW h \in Handlers, Apply(h) \/ JobStep(h), ~BackupCopies(h)
    PROVE  /\ content'[run.file] = content[run.file]
           /\ \A n \in Names : bins[n] # Nothing => content'[bins[n]] = content[bins[n]]
<1> DEFINE l == proc[h]
           new == CHOOSE f \in Free : TRUE
<1>1. DiskType /\ run.file \in Files /\ \A n \in Names : bins[n] # Nothing => bins[n] \in Files
  BY Typed DEF DiskType
<1>2. ASSUME NEW f \in Files, run.file # f, \A n \in Names : bins[n] # f,
             \A g \in Files \ {f} : content'[g] = content[g]
      PROVE  /\ content'[run.file] = content[run.file]
             /\ \A n \in Names : bins[n] # Nothing => content'[bins[n]] = content[bins[n]]
  BY <1>1, <1>2
<1>3. CASE UNCHANGED content
  BY <1>3
<1>4. CASE Free # {} /\ \E s : content' = [content EXCEPT ![new] = s]
  <2>1. new \in Files /\ ~InUse(new)
    BY <1>4, FreeFile
  <2> HIDE DEF new
  <2>2. run.file # new /\ \A n \in Names : bins[n] # new
    BY <2>1 DEF InUse
  <2>3. \A g \in Files \ {new} : content'[g] = content[g]
    BY <1>1, <1>4 DEF DiskType
  <2> QED
    BY <1>2, <2>1, <2>2, <2>3
<1>5. CASE l.pc \in Downloading /\ \E s : content' = [content EXCEPT ![l.file] = s]
  <2>1. l.file \in Files /\ l.want \in Versions /\ parts[l.want] = l.file /\ l.file # Nothing
    BY <1>5, JobFile
  <2>2. run.file # l.file /\ \A n \in Names : bins[n] # l.file
    BY <2>1 DEF DownloadInv, Separate
  <2>3. \A g \in Files \ {l.file} : content'[g] = content[g]
    BY <1>1, <1>5 DEF DiskType
  <2> QED
    BY <1>2, <2>1, <2>2, <2>3
<1>6. CASE Open(h)
  BY <1>3, <1>4, <1>6 DEF Open
<1>7. CASE BeyondTheEnd(h)
  BY <1>5, <1>7 DEF BeyondTheEnd, Downloading
<1>8. CASE FromTheStart(h)
  BY <1>3, <1>5, <1>8 DEF FromTheStart, Downloading
<1>9. CASE Receive(h)
  BY <1>5, <1>9 DEF Receive, Downloading
<1>11. CASE ~(Open(h) \/ BeyondTheEnd(h) \/ FromTheStart(h) \/ Receive(h))
  <2>1. UNCHANGED content
    BY <1>11 DEF JobStep, Apply, Start, Fail, Fetch, Stat, Broken, Resume, Received, Unverified,
                 Verify, Chmod, Backup, Replace, ReplaceFails, Finish, disk
  <2> QED
    BY <1>3, <2>1
<1> QED
  BY <1>6, <1>7, <1>8, <1>9, <1>11

RunInv == Down /\ KeptAtItsName

LEMMA RunInitially == Init => RunInv
<1> SUFFICES ASSUME Init PROVE RunInv
  OBVIOUS
<1>1. /\ AsRunning(0) /\ run.path = 0 /\ \A h \in Handlers : proc[h].pc = "idle"
  BY Names01, UpdateAssumption DEF Init, AsRunning, Idle
<1> QED
  BY <1>1 DEF RunInv, Down, KeptAtItsName, KeptAt

(* A step of the only job that renames. *)
LEMMA RenamingKeeps ==
    ASSUME TypeInv, DownloadInv, RunInv, OneJob, NEW h \in Handlers, Renaming(h), up,
           ~restarting, ~closed, ~unsaved, \A i \in Handlers \ {h} : proc'[i] = proc[i]
    PROVE  KeptAtItsName'
<1> DEFINE l == proc[h]
           b == l.bin
<1>1. l.pc \in {"backup", "replace"} /\ UNCHANGED <<restarting, closed, up>>
  BY DEF Renaming, Backup, BackupCopies, Replace, ReplaceFails
<1>2. /\ l \in Procs /\ DiskType /\ b \in Names /\ b + 1 \in Names /\ b + 1 # b
  BY <1>1, BinaryNames, Typed
<1>3. \A i \in Handlers \ {h} : proc[i].pc \in {"idle", "start"} /\ proc'[i].pc \in {"idle", "start"}
  BY <1>1, Alone
<1>4. /\ l.pc = "backup" => b = run.path /\ KeptAt(b)
      /\ l.pc = "replace" =>
            /\ AsRunning(b + 1)
            /\ run.path = IF bins[b + 1] = run.file THEN b + 1 ELSE b
            /\ bins[b] # Nothing => AsRunning(b)
  BY <1>1, <1>3 DEF RunInv, KeptAtItsName
<1>5. ASSUME proc'[h].pc \in {"replace", "finish"}, proc'[h].bin = b, AsRunning(b + 1)',
             proc'[h].pc = "replace" =>
                /\ run'.path = IF bins'[b + 1] = run'.file THEN b + 1 ELSE b
                /\ bins'[b] # Nothing => AsRunning(b)'
      PROVE  KeptAtItsName'
  BY <1>2, <1>3, <1>5 DEF KeptAtItsName
<1>6. ASSUME proc'[h].pc = "idle", KeptAt(run.path)'
      PROVE  KeptAtItsName'
  BY <1>3, <1>6 DEF KeptAtItsName
<1>7. CASE Backup(h)
  <2>1. l.pc = "backup" /\ proc'[h].pc = "replace" /\ proc'[h].bin = b /\ UNCHANGED content
    BY <1>2, <1>7, Typed DEF Backup, Procs
  <2>2. CASE bins[b] = Nothing
    <3>1. UNCHANGED <<bins, run>> /\ AsRunning(b + 1) /\ bins[b + 1] # run.file
      BY <1>4, <1>7, <2>1, <2>2 DEF Backup, KeptAt, AsRunning
    <3> QED
      BY <1>4, <1>5, <2>1, <2>2, <3>1 DEF AsRunning
  <2>3. CASE bins[b] # Nothing
    <3>1. bins' = [bins EXCEPT ![b] = Nothing, ![b + 1] = bins[b]] /\ Renamed(b, b + 1)
      BY <1>7, <2>3 DEF Backup
    <3>2. bins'[b + 1] = bins[b] /\ bins'[b] = Nothing
      BY <1>2, <3>1 DEF DiskType
    <3>3. run'.file = run.file /\ run'.path = IF bins[b] = run.file THEN b + 1 ELSE b
      BY <1>2, <1>4, <2>1, <3>1 DEF Renamed, DiskType
    <3>4. AsRunning(b)
      BY <1>4, <2>1, <2>3 DEF KeptAt
    <3> QED
      BY <1>5, <2>1, <3>2, <3>3, <3>4 DEF AsRunning
  <2> QED
    BY <2>2, <2>3
<1>8. CASE BackupCopies(h)
  <2> DEFINE copy == CreatedFile(b + 1)
             old == content[bins[b]]
  <2>1. /\ l.pc = "backup" /\ proc'[h].pc = "replace" /\ proc'[h].bin = b /\ UNCHANGED run
        /\ bins[b] # Nothing
    BY <1>2, <1>8, Typed DEF BackupCopies, Procs
  <2>2. CASE unsaved'
    BY <2>2 DEF KeptAtItsName
  <2>3. ASSUME ~unsaved', Created(b + 1), NEW n \in 0 .. Len(old), CopyTo(b, copy, n)
        PROVE  KeptAtItsName'
    <3>1. /\ copy \in Files /\ copy # Nothing /\ copy # run.file
          /\ \A m \in Names \ {b + 1} : bins[m] # copy
      BY <1>2, <2>3, CreatedApart
    <3>2. bins[b] \in Files /\ old \in Seq(Chunks) /\ AsRunning(b) /\ run.file \in Files
      BY <1>2, <1>4, <2>1 DEF DiskType, KeptAt
    <3>3. n = Len(old) => SubSeq(old, 1, n) = old
      BY <2>3, <3>2, CopyOf
    <3>4. /\ bins' = [bins EXCEPT ![b + 1] = copy]
          /\ content' = [content EXCEPT ![copy] = SubSeq(old, 1, n)]
          /\ n = Len(old)
      BY <2>3 DEF CopyTo
    <3> HIDE DEF copy, old
    <3>5. /\ bins'[b + 1] = copy /\ bins'[b] = bins[b]
          /\ content'[copy] = old
          /\ content'[run.file] = content[run.file]
          /\ content'[bins[b]] = content[bins[b]]
      BY <1>2, <3>1, <3>2, <3>3, <3>4 DEF DiskType
    <3>6. AsRunning(b + 1)' /\ AsRunning(b)'
      BY <2>1, <3>1, <3>2, <3>5 DEF AsRunning, old
    <3> QED
      BY <1>4, <1>5, <2>1, <3>1, <3>5, <3>6
  <2> QED
    BY <1>8, <2>2, <2>3 DEF BackupCopies
<1>9. CASE Replace(h)
  <2>1. /\ l.pc = "replace" /\ proc'[h].pc = "finish" /\ proc'[h].bin = b
        /\ UNCHANGED <<run, content>> /\ bins'[b + 1] = bins[b + 1]
    BY <1>2, <1>9, Typed DEF Replace, Procs, DiskType
  <2> QED
    BY <1>4, <1>5, <2>1 DEF AsRunning
<1>10. CASE ReplaceFails(h)
  <2>1. l.pc = "replace" /\ proc'[h].pc = "idle" /\ UNCHANGED content
    BY <1>10, Typed, IdleType DEF ReplaceFails, Stopped
  <2>2. CASE bins' = [bins EXCEPT ![b] = bins[b + 1], ![b + 1] = Nothing] /\ Renamed(b + 1, b)
    <3>1. bins'[b] = bins[b + 1]
      BY <1>2, <2>2 DEF DiskType
    <3>2. run'.file = run.file /\ run'.path = b
      BY <1>2, <1>4, <2>1, <2>2 DEF Renamed, DiskType
    <3>3. AsRunning(run.path)'
      BY <1>4, <2>1, <3>1, <3>2 DEF AsRunning
    <3> QED
      BY <1>6, <2>1, <3>3 DEF KeptAt
  <2>3. CASE UNCHANGED <<bins, run>>
    <3>1. KeptAt(run.path)
      BY <1>2, <1>4, <2>1 DEF KeptAt
    <3> QED
      BY <1>6, <2>1, <2>3, <3>1 DEF KeptAt, AsRunning
  <2> QED
    BY <1>10, <2>2, <2>3 DEF ReplaceFails
<1> QED
  BY <1>7, <1>8, <1>9, <1>10 DEF Renaming

LEMMA QuietKeeps ==
    ASSUME TypeInv, DownloadInv, RunInv, OneJob, NEW h \in Handlers, Apply(h) \/ JobStep(h),
           ~Renaming(h), up, ~restarting', ~closed, ~unsaved
    PROVE  KeptAtItsName'
<1> DEFINE l == proc[h]
<1>1. /\ UNCHANGED <<bins, run>>
      /\ \A i \in Handlers \ {h} : proc'[i] = proc[i]
  BY Moved, QuietStep
<1>2. /\ ~restarting /\ l.pc \notin {"replace", "finish"} /\ proc'[h].pc \notin {"replace", "finish"}
  BY QuietStep
<1>3. proc'[h].pc \notin {"idle", "start"} => proc'[h].bin = run.path
  BY <1>2, QuietStep DEF RunInv, KeptAtItsName
<1>4. run.path \in Names
  BY Typed DEF DiskType
<1>5. \A n \in Names : AsRunning(n) => AsRunning(n)'
  BY <1>1, BinariesUntouched DEF AsRunning, Renaming
<1>6. \A i \in Handlers \ {h} :
        proc[i].pc \in {"replace", "finish"} => proc[i].bin + 1 \in Names
  <2> SUFFICES ASSUME NEW i \in Handlers \ {h}, proc[i].pc \in {"replace", "finish"}
               PROVE  proc[i].bin + 1 \in Names
    OBVIOUS
  <2>1. proc[i] \in Procs /\ proc[i].bin < MaxPrev
    BY Typed DEF Equipped
  <2> QED
    BY <2>1, UpdateAssumption DEF Procs, Names
<1>7. CASE \A i \in Handlers : proc[i].pc \notin {"replace", "finish"}
  <2>1. KeptAt(run.path)'
    BY <1>1, <1>2, <1>4, <1>5, <1>7 DEF RunInv, KeptAtItsName, KeptAt
  <2> QED
    BY <1>1, <1>2, <1>3, <1>4, <1>7, <2>1 DEF RunInv, KeptAtItsName
<1>8. CASE ~\A i \in Handlers : proc[i].pc \notin {"replace", "finish"}
  <2>1. PICK j \in Handlers \ {h} : proc[j].pc \in {"replace", "finish"}
    BY <1>2, <1>8
  <2>2. ~\A i \in Handlers : proc'[i].pc \notin {"replace", "finish"}
    BY <1>1, <2>1
  <2> QED
    BY <1>1, <1>2, <1>3, <1>4, <1>5, <1>6, <2>2 DEF RunInv, KeptAtItsName
<1> QED
  BY <1>7, <1>8

LEMMA RunStep == TypeInv /\ DownloadInv /\ RunInv /\ OneJob /\ [Next]_vars => RunInv'
<1> SUFFICES ASSUME TypeInv, DownloadInv, RunInv, OneJob, [Next]_vars PROVE RunInv'
  OBVIOUS
<1>1. ASSUME NEW h \in Handlers, Apply(h) \/ JobStep(h) PROVE RunInv'
  <2>1. up /\ up' = up
    BY <1>1, QuietStep DEF Apply, JobStep, Renaming, Backup, BackupCopies, Replace, ReplaceFails
  <2>2. Down'
    BY <2>1 DEF Down
  <2>3. closed' = closed /\ (restarting => restarting')
    BY <1>1, QuietStep DEF Renaming, Backup, BackupCopies, Replace, ReplaceFails
  <2>4. CASE Renaming(h) /\ ~restarting /\ ~closed /\ ~unsaved
    BY <1>1, <2>1, <2>2, <2>4, Moved, RenamingKeeps DEF RunInv
  <2>5. CASE ~Renaming(h) /\ ~restarting' /\ ~closed /\ ~unsaved
    BY <1>1, <2>1, <2>2, <2>5, QuietKeeps DEF RunInv
  <2>6. CASE restarting' \/ closed' \/ unsaved'
    BY <2>2, <2>6 DEF RunInv, KeptAtItsName
  <2>7. unsaved => unsaved'
    BY <1>1, QuietStep DEF Renaming, Backup, BackupCopies, CopyTo, Replace, ReplaceFails, bounds
  <2> QED
    BY <2>3, <2>4, <2>5, <2>6, <2>7
<1>2. ASSUME Ends PROVE \A h \in Handlers : proc'[h].pc = "idle"
  BY <1>2, IdleType DEF Ends
<1>3. ASSUME NEW path \in Names, Startable(path), Runs(path), UNCHANGED disk,
             \A h \in Handlers : proc'[h].pc = "idle"
      PROVE  RunInv'
  <2>1. AsRunning(run.path)'
    BY <1>3 DEF Startable, Runs, AsRunning, disk
  <2> QED
    BY <1>3, <2>1 DEF RunInv, Down, KeptAtItsName, KeptAt
<1>4. CASE Restart
  <2>1. CASE RestartBySystemd
    BY <1>2, <2>1 DEF RestartBySystemd, RunInv, Down, KeptAtItsName
  <2>2. CASE RestartByExec
    BY <1>2, <1>3, <2>2, Typed DEF RestartByExec, Ends, DiskType
  <2>3. CASE RestartFails
    BY <2>3 DEF RestartFails, RunInv, Down, KeptAtItsName
  <2> QED
    BY <1>4, <2>1, <2>2, <2>3 DEF Restart
<1>5. CASE Crash
  BY <1>2, <1>5 DEF Crash, RunInv, Down, KeptAtItsName
<1>6. CASE Boot
  <2>1. UNCHANGED <<disk, proc>> /\ \A h \in Handlers : proc[h].pc = "idle"
    BY <1>6 DEF Boot, RunInv, Down
  <2> QED
    BY <1>3, <1>6, <2>1, Names01 DEF Boot
<1>7. CASE UNCHANGED vars
  BY <1>7 DEF RunInv, Down, KeptAtItsName, KeptAt, AsRunning, vars, disk, memory, bounds
<1> QED
  BY <1>1, <1>4, <1>5, <1>6, <1>7 DEF Next

(***************************************************************************)
(* While there is one job at a time, an update can be taken back until the *)
(* process restarts: whatever failed but the copy for a backup, be it the  *)
(* undoing of a rename, the binary that runs has a name, its own or that   *)
(* of its backup, or a copy there, although the name that is renamed is    *)
(* the one the operating system reports by now.                            *)
(***************************************************************************)
THEOREM RunningIsKept == Spec /\ []OneJob => []RunningKept
<1>1. Spec => []TypeInv
  BY TypeInitially, TypeStep, PTL DEF Spec
<1>2. Spec /\ []OneJob => []DownloadInv
  BY <1>1, DownloadInitially, DownloadStep, PTL DEF Spec
<1>3. Spec /\ []OneJob => []RunInv
  BY <1>1, <1>2, RunInitially, RunStep, PTL DEF Spec
<1>4. TypeInv /\ RunInv => RunningKept
  <2> SUFFICES ASSUME TypeInv, RunInv, up, ~restarting, ~closed, ~unsaved
               PROVE  \E n \in Names : AsRunning(n)
    BY DEF RunningKept, AsRunning
  <2>1. CASE \A h \in Handlers : proc[h].pc \notin {"replace", "finish"}
    BY <2>1, Typed DEF RunInv, KeptAtItsName, KeptAt, DiskType
  <2>2. ASSUME NEW h \in Handlers, proc[h].pc \in {"replace", "finish"}
        PROVE  \E n \in Names : AsRunning(n)
    <3>1. proc[h] \in Procs /\ proc[h].bin < MaxPrev
      BY <2>2, Typed DEF Equipped
    <3>2. proc[h].bin + 1 \in Names
      BY <3>1, UpdateAssumption DEF Procs, Names
    <3> QED
      BY <2>2, <3>2 DEF RunInv, KeptAtItsName
  <2> QED
    BY <2>1, <2>2
<1> QED
  BY <1>1, <1>3, <1>4, PTL

-----------------------------------------------------------------------------
(* What the slot lacks *)

Working(h) == proc[h].pc \notin {"idle", "start"}

(* While a job works the status says so; and while a request has passed    *)
(* the test and not taken the slot, no job works.                          *)
SlotInv ==
    /\ \A h \in Handlers : Working(h) => status \notin Resting
    /\ \A h, i \in Handlers : proc[h].pc = "start" => ~Working(i)
    /\ OneJob

(* A step of a job ends it, or goes on with it under a status that says so. *)
LEMMA JobGoesOn ==
    ASSUME TypeInv, NEW h \in Handlers, Working(h) => status \notin Resting, JobStep(h)
    PROVE  /\ proc[h].pc # "idle"
           /\ \A i \in Handlers \ {h} : proc'[i] = proc[i]
           /\ \/ proc'[h].pc = "idle"
              \/ proc'[h].pc \notin {"idle", "start"} /\ status' \notin Resting
<1>1. proc \in [Handlers -> Procs] /\ Idle.pc = "idle"
  BY Typed DEF Idle
<1>2. Stopped(h) => proc'[h].pc = "idle" /\ \A i \in Handlers \ {h} : proc'[i] = proc[i]
  BY <1>1 DEF Stopped
<1>3. ASSUME NEW offset, NextAttempt(h, offset), Working(h)
      PROVE  /\ \A i \in Handlers \ {h} : proc'[i] = proc[i]
             /\ proc'[h].pc = "idle" \/ (proc'[h].pc = "stat" /\ status' \notin Resting)
  BY <1>1, <1>2, <1>3 DEF NextAttempt, Procs
<1>4. CASE Start(h)
  BY <1>1, <1>4 DEF Start, Procs, Resting
<1>5. CASE Fail(h)
  BY <1>2, <1>5 DEF Fail
<1>6. CASE Fetch(h)
  BY <1>1, <1>2, <1>6 DEF Fetch, Procs, Resting
<1>7. CASE Open(h)
  BY <1>1, <1>2, <1>7 DEF Open, Procs, Resting
<1>8. CASE Stat(h)
  BY <1>1, <1>8 DEF Stat, Procs, Resting, Working
<1>9. CASE Broken(h)
  BY <1>3, <1>9 DEF Broken, Working
<1>10. CASE BeyondTheEnd(h)
  BY <1>3, <1>10 DEF BeyondTheEnd, Working
<1>11. CASE FromTheStart(h) \/ Resume(h)
  BY <1>1, <1>11 DEF FromTheStart, Resume, Answered, Procs, Working, memory
<1>12. CASE Receive(h)
  BY <1>1, <1>12 DEF Receive, Procs, Working, memory
<1>13. CASE Received(h) \/ Unverified(h)
  BY <1>1, <1>13 DEF Received, Unverified, Procs, Resting
<1>14. CASE Verify(h)
  BY <1>1, <1>2, <1>14 DEF Verify, Procs, Resting
<1>15. CASE Chmod(h)
  BY <1>1, <1>2, <1>15 DEF Chmod, Procs, Resting
<1>16. CASE Backup(h) \/ BackupCopies(h)
  BY <1>1, <1>16 DEF Backup, BackupCopies, Procs, Resting
<1>17. CASE Replace(h)
  BY <1>1, <1>17 DEF Replace, Procs, Resting
<1>18. CASE ReplaceFails(h)
  BY <1>2, <1>18 DEF ReplaceFails
<1>19. CASE Finish(h)
  BY <1>1, <1>19 DEF Finish
<1> QED
  BY <1>4, <1>5, <1>6, <1>7, <1>8, <1>9, <1>10, <1>11, <1>12, <1>13, <1>14, <1>15, <1>16,
     <1>17, <1>18, <1>19 DEF JobStep

LEMMA SlotStep == TypeInv /\ SlotInv /\ Apart /\ [Next]_vars => SlotInv'
<1> SUFFICES ASSUME TypeInv, SlotInv, Apart, [Next]_vars PROVE SlotInv'
  OBVIOUS
<1>1. ASSUME NEW h \in Handlers, Apply(h) PROVE SlotInv'
  <2>1. PICK v \in Versions : proc' = [proc EXCEPT ![h] = [Idle EXCEPT !.pc = "start", !.want = v]]
    BY <1>1 DEF Apply
  <2>2. proc'[h].pc = "start" /\ \A i \in Handlers \ {h} : proc'[i] = proc[i]
    BY <2>1, Typed DEF Idle
  <2>3. \A i \in Handlers : ~Working(i)
    BY <1>1 DEF Apply, SlotInv
  <2>4. \A i \in Handlers : proc'[i].pc \in {"idle", "start"}
    BY <2>2, <2>3 DEF Working
  <2> QED
    BY <2>4 DEF SlotInv, OneJob, Working
<1>2. ASSUME NEW h \in Handlers, JobStep(h) PROVE SlotInv'
  <2>1. /\ proc[h].pc # "idle"
        /\ \A i \in Handlers \ {h} : proc'[i] = proc[i]
        /\ \/ proc'[h].pc = "idle"
           \/ proc'[h].pc \notin {"idle", "start"} /\ status' \notin Resting
    BY <1>2, JobGoesOn DEF SlotInv
  <2>2. \A i \in Handlers \ {h} : ~Working(i)
    BY <2>1 DEF SlotInv, OneJob, Working
  <2>3. Working(h) => \A i \in Handlers : proc[i].pc # "start"
    BY DEF SlotInv
  <2>4. ~Working(h) => \A i \in Handlers \ {h} : proc[i].pc # "start"
    BY <2>1 DEF Apart, Working
  <2>5. \A i \in Handlers \ {h} : proc'[i].pc = "idle"
    BY <2>1, <2>2, <2>3, <2>4 DEF Working
  <2> QED
    BY <2>1, <2>5 DEF SlotInv, OneJob, Working
<1>3. ASSUME Ends PROVE SlotInv'
  BY <1>3 DEF Ends, Idle, SlotInv, OneJob, Working
<1>4. ASSUME UNCHANGED <<proc, status>> PROVE SlotInv'
  BY <1>4 DEF SlotInv, OneJob, Working
<1> QED
  BY <1>1, <1>2, <1>3, <1>4 DEF Next, vars, memory, Restart, RestartBySystemd, RestartByExec,
     RestartFails, Crash, Boot

(***************************************************************************)
(* The slot lets in one job at a time, through downloads, failures,        *)
(* crashes and restarts, unless two requests are together between the test *)
(* of the status and its setting (updater.go, applyUpdateHandler): that    *)
(* window is the whole of what is missing.                                 *)
(***************************************************************************)
THEOREM OneJobUnlessTogether == Spec /\ []Apart => []OneJob
<1>1. Spec => []TypeInv
  BY TypeInitially, TypeStep, PTL DEF Spec
<1>2. Init => SlotInv
  BY DEF Init, Idle, SlotInv, OneJob, Working
<1>3. SlotInv => OneJob
  BY DEF SlotInv
<1> QED
  BY <1>1, <1>2, <1>3, SlotStep, PTL DEF Spec

(***************************************************************************)
(* So it is for the safety of updates too: unless two requests come into   *)
(* that window, what is installed is whole, there is a binary to start,    *)
(* and the one that runs is kept, with the exceptions each property names  *)
(* and however many requests the server takes at a time.                   *)
(***************************************************************************)
THEOREM SafeUnlessTogether ==
    Spec /\ []Apart => [](InstalledWhole /\ Bootable /\ RunningKept)
BY OneJobUnlessTogether, InstalledIsWhole, BinaryToStart, RunningIsKept, PTL
=============================================================================

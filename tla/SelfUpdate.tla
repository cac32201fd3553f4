------------------------------ MODULE SelfUpdate ------------------------------
(***************************************************************************)
(* The self-update of the running binary.                                  *)
(*                                                                         *)
(*   internal/api/updater.go      the job: slot, download, verify, replace *)
(*   internal/restart/restart.go  systemd or exec                          *)
(*   cmd/gokych/main.go           the restart hook                         *)
(*                                                                         *)
(* A binary is a sequence of Size chunks of one version.  Files are what   *)
(* paths and descriptors refer to: a rename moves a path, a job that has   *)
(* the partial file open keeps writing to the same file.  The name of the  *)
(* binary with n times ".prev" behind it is the number n.  A step is one   *)
(* system call or HTTP exchange, or one stretch under the job's mutex.     *)
(***************************************************************************)
EXTENDS Integers, Sequences, FiniteSets

CONSTANTS
    Versions,            \* the releases an owner may ask for
    Installed,           \* the version that runs at the start
    Size,                \* chunks of a binary
    Files,               \* what names refer to; enough that one is always free
    Handlers,            \* requests served at the same time, each with its job
    MaxDownloadRetries,
    MaxRequests,         \* bound: requests
    MaxPrev,             \* bound: times ".prev" behind a name
    MaxCrashes,          \* bound: ends of the process
    Nothing              \* not a file, not a version

ASSUME UpdateAssumption ==
    /\ Installed \in Versions
    /\ Size \in Nat \ {0}
    /\ MaxDownloadRetries \in Nat \ {0}
    /\ MaxRequests \in Nat
    /\ MaxPrev \in Nat
    /\ Files # {}
    /\ MaxCrashes \in Nat
    /\ Nothing \notin Files \cup Versions

VARIABLES
    bins,        \* bins[n]: the file named binary.prev...prev, n times
    parts,       \* parts[v]: the file .gokych-update-v.part
    content,     \* content[f]: its chunks
    run,         \* the running binary and the name it has by now
    up,          \* does the process run?
    restarting,  \* the timer of the restart hook runs
    closed,      \* the hook has closed the database
    status,      \* updater.status
    version,     \* updater.version
    proc,        \* the locals of each handler and then of its job
    requests,    \* requests accepted so far
    crashes,     \* ends of the process so far
    torn,        \* history: the files that are copies which broke off
    unsaved,     \* history: the copy for the backup of what runs has failed
    interrupted  \* history: the process ended between the two renames, or
                 \* the second failed and then the undoing of the first

disk == <<bins, parts, content, torn>>
memory == <<status, version, restarting, closed>>
bounds == <<requests, crashes, unsaved, interrupted>>
vars == <<disk, run, up, memory, proc, bounds>>

Names == 0 .. MaxPrev
Chunks == (Versions \X (1 .. Size)) \cup {<<Nothing, 0>>}
Whole(v) == [k \in 1 .. Size |-> <<v, k>>]
IsWhole(f) == \E v \in Versions : content[f] = Whole(v)

(* A write behind the end of a file leaves a hole in front of it. *)
WriteAt(s, offset, chunk) ==
    [k \in 1 .. (IF offset < Len(s) THEN Len(s) ELSE offset + 1) |->
        IF k = offset + 1 THEN chunk
        ELSE IF k <= Len(s) THEN s[k] ELSE <<Nothing, 0>>]

Idle == [pc |-> "idle", want |-> Nothing, bin |-> 0, file |-> Nothing,
         known |-> FALSE, existing |-> 0, offset |-> 0, pos |-> 0, attempt |-> 0]

Steps == {"idle", "start", "fetch", "open", "stat", "request", "stream",
          "verify", "chmod", "backup", "replace", "finish"}

Resting == {"idle", "done", "error"}

TypeOK ==
    /\ bins \in [Names -> Files \cup {Nothing}]
    /\ parts \in [Versions -> Files \cup {Nothing}]
    /\ content \in [Files -> Seq(Chunks)]
    /\ run \in [file : Files, path : Names]
    /\ up \in BOOLEAN /\ restarting \in BOOLEAN
    /\ closed \in BOOLEAN /\ torn \subseteq Files
    /\ unsaved \in BOOLEAN /\ interrupted \in BOOLEAN
    /\ status \in Resting \cup {"downloading", "verifying", "replacing", "restarting"}
    /\ version \in Versions \cup {Nothing}
    /\ proc \in [Handlers -> [pc : Steps, want : Versions \cup {Nothing}, bin : Names,
                              file : Files \cup {Nothing}, known : BOOLEAN,
                              existing : Nat, offset : Nat, pos : 0 .. Size,
                              attempt : 0 .. MaxDownloadRetries - 1]]
    /\ requests \in Nat /\ crashes \in Nat

Init ==
    LET f == CHOOSE g \in Files : TRUE IN
        /\ bins = [n \in Names |-> IF n = 0 THEN f ELSE Nothing]
        /\ parts = [v \in Versions |-> Nothing]
        /\ content = [g \in Files |-> IF g = f THEN Whole(Installed) ELSE <<>>]
        /\ run = [file |-> f, path |-> 0]
        /\ up = TRUE /\ restarting = FALSE /\ closed = FALSE
        /\ status = "idle" /\ version = Nothing
        /\ proc = [h \in Handlers |-> Idle]
        /\ requests = 0 /\ crashes = 0
        /\ torn = {} /\ unsaved = FALSE /\ interrupted = FALSE

-----------------------------------------------------------------------------
(* The handler *)

(* applyUpdateHandler, under the mutex: the slot is tested and reset, ...  *)
(* (the owner cannot be told from others once the database is closed)      *)
Apply(h) ==
    /\ up /\ ~closed
    /\ proc[h].pc = "idle"
    /\ requests < MaxRequests
    /\ status \in Resting
    /\ status' = "idle"
    /\ version' = Nothing
    /\ \E v \in Versions : proc' = [proc EXCEPT ![h] = [Idle EXCEPT !.pc = "start", !.want = v]]
    /\ requests' = requests + 1
    /\ UNCHANGED <<disk, run, up, restarting, closed, crashes, unsaved, interrupted>>

(* ... and taken once the binary is found and its directory writable.      *)
(* Mutant: the configured path in place of os.Executable's.                *)
StartAtDefault(h) ==
    /\ proc[h].pc = "start"
    /\ status' = "downloading"
    /\ proc' = [proc EXCEPT ![h].pc = "fetch", ![h].bin = 0]
    /\ UNCHANGED <<disk, run, up, version, restarting, closed, bounds>>

Start(h) ==
    /\ proc[h].pc = "start"
    /\ run.path < MaxPrev
    /\ status' = "downloading"
    /\ proc' = [proc EXCEPT ![h].pc = "fetch", ![h].bin = run.path]
    /\ UNCHANGED <<disk, run, up, version, restarting, closed, bounds>>

-----------------------------------------------------------------------------
(* runUpdate *)

(* setErr and return. *)
Stopped(h) ==
    /\ status' = "error"
    /\ proc' = [proc EXCEPT ![h] = Idle]

(* A directory without write permission, no release, an HTTP status that   *)
(* is no answer, a write that fails: what has been received stays.         *)
Fail(h) ==
    /\ proc[h].pc \in {"start", "fetch", "request", "stream"}
    /\ Stopped(h)
    /\ UNCHANGED <<disk, run, up, version, restarting, closed, bounds>>

(* The release; a release may lack the asset, an asset its size. *)
Fetch(h) ==
    /\ proc[h].pc = "fetch"
    /\ version' = proc[h].want
    /\ \/ /\ status' = "downloading"
          /\ \E known \in BOOLEAN :
                proc' = [proc EXCEPT ![h].pc = "open", ![h].known = known]
       \/ Stopped(h)
    /\ UNCHANGED <<disk, run, up, restarting, closed, bounds>>

InUse(f) ==
    \/ \E n \in Names : bins[n] = f
    \/ \E v \in Versions : parts[v] = f
    \/ \E h \in Handlers : proc[h].file = f
    \/ run.file = f

Free == {f \in Files : ~InUse(f)}

(* cleanupStaleParts, then the partial file of this version is opened, or  *)
(* created, or cannot be.                                                  *)
Open(h) ==
    /\ proc[h].pc = "open"
    /\ LET v == proc[h].want
           others == [u \in Versions |-> IF u = v THEN parts[v] ELSE Nothing] IN
       \/ /\ parts[v] # Nothing
          /\ parts' = others
          /\ proc' = [proc EXCEPT ![h].pc = "stat", ![h].file = parts[v]]
          /\ status' = "downloading"
          /\ UNCHANGED <<content, torn>>
       \/ /\ parts[v] = Nothing
          /\ Free # {}
          /\ LET new == CHOOSE f \in Free : TRUE IN
             /\ parts' = [others EXCEPT ![v] = new]
             /\ content' = [content EXCEPT ![new] = <<>>]
             /\ torn' = torn \ {new}
             /\ proc' = [proc EXCEPT ![h].pc = "stat", ![h].file = new]
          /\ status' = "downloading"
       \/ /\ parts' = others
          /\ Stopped(h)
          /\ UNCHANGED <<content, torn>>
    /\ UNCHANGED <<bins, run, up, version, restarting, closed, bounds>>

(***************************************************************************)
(* downloadToFileWithProgress: each attempt asks for what the file lacks,  *)
(* and for nothing if the size is known and the file has it.               *)
(***************************************************************************)
Stat(h) ==
    /\ proc[h].pc = "stat"
    /\ LET existing == Len(content[proc[h].file]) IN
       IF proc[h].known /\ existing >= Size
       THEN /\ proc' = [proc EXCEPT ![h].pc = "verify"]
            /\ status' = "verifying"
       ELSE /\ proc' = [proc EXCEPT ![h].pc = "request", ![h].existing = existing]
            /\ status' = IF proc[h].attempt > 0 THEN "downloading" ELSE status
    /\ UNCHANGED <<disk, run, up, version, restarting, closed, bounds>>

(* Mutant: a retry is not counted. *)
NextAttemptUncounted(h, offset) ==
    /\ proc' = [proc EXCEPT ![h].pc = "stat", ![h].offset = offset]
    /\ UNCHANGED status

NextAttempt(h, offset) ==
    IF proc[h].attempt + 1 < MaxDownloadRetries
    THEN /\ proc' = [proc EXCEPT ![h].pc = "stat", ![h].attempt = @ + 1, ![h].offset = offset]
         /\ UNCHANGED status
    ELSE Stopped(h)

(* No connection, or the connection breaks in the middle of the body. *)
Broken(h) ==
    /\ proc[h].pc \in {"request", "stream"}
    /\ NextAttempt(h, proc[h].offset)
    /\ UNCHANGED <<disk, run, up, version, restarting, closed, bounds>>

(* 416: the file has all of the asset, or more: it is emptied. *)
BeyondTheEnd(h) ==
    /\ proc[h].pc = "request"
    /\ proc[h].existing >= Size
    /\ content' = [content EXCEPT ![proc[h].file] = <<>>]
    /\ NextAttempt(h, 0)
    /\ UNCHANGED <<bins, parts, torn, run, up, version, restarting, closed, bounds>>

Answered(h, from, offset) ==
    proc' = [proc EXCEPT ![h].pc = "stream", ![h].known = TRUE,
                         ![h].pos = from, ![h].offset = offset]

(* 200: the whole asset.  What the file holds is dropped. *)
FromTheStart(h) ==
    /\ proc[h].pc = "request"
    /\ content' = IF proc[h].existing > 0
                  THEN [content EXCEPT ![proc[h].file] = <<>>] ELSE content
    /\ Answered(h, 0, IF proc[h].existing > 0 THEN 0 ELSE proc[h].offset)
    /\ UNCHANGED <<bins, parts, torn, run, up, memory, bounds>>

(* 206: the rest of the asset, written behind what the file holds by now. *)
(* Mutant: it is written where the descriptor is. *)
ResumeInPlace(h) ==
    /\ proc[h].pc = "request"
    /\ proc[h].existing \in 1 .. Size - 1
    /\ Answered(h, proc[h].existing, proc[h].offset)
    /\ UNCHANGED <<disk, run, up, memory, bounds>>

Resume(h) ==
    /\ proc[h].pc = "request"
    /\ proc[h].existing \in 1 .. Size - 1
    /\ Answered(h, proc[h].existing, Len(content[proc[h].file]))
    /\ UNCHANGED <<disk, run, up, memory, bounds>>

(* A chunk of the body arrives, ... *)
Receive(h) ==
    /\ proc[h].pc = "stream"
    /\ proc[h].pos < Size
    /\ LET l == proc[h] IN
       content' = [content EXCEPT ![l.file] = WriteAt(@, l.offset, <<l.want, l.pos + 1>>)]
    /\ proc' = [proc EXCEPT ![h].pos = @ + 1, ![h].offset = @ + 1]
    /\ UNCHANGED <<bins, parts, torn, run, up, memory, bounds>>

(* ... and then its end. *)
Received(h) ==
    /\ proc[h].pc = "stream"
    /\ proc[h].pos = Size
    /\ proc' = [proc EXCEPT ![h].pc = "verify"]
    /\ status' = "verifying"
    /\ UNCHANGED <<disk, run, up, version, restarting, closed, bounds>>

(* SHA256SUMS cannot be fetched or does not list the asset: no check. *)
Unverified(h) ==
    /\ proc[h].pc = "verify"
    /\ proc' = [proc EXCEPT ![h].pc = "chmod"]
    /\ status' = "replacing"
    /\ UNCHANGED <<disk, run, up, version, restarting, closed, bounds>>

(* The hash of the file that has the name of the partial file by now. *)
Verify(h) ==
    /\ proc[h].pc = "verify"
    /\ LET v == proc[h].want IN
       IF parts[v] # Nothing /\ content[parts[v]] = Whole(v)
       THEN /\ proc' = [proc EXCEPT ![h].pc = "chmod"]
            /\ status' = "replacing"
            /\ UNCHANGED parts
       ELSE /\ parts' = [parts EXCEPT ![v] = Nothing]
            /\ Stopped(h)
    /\ UNCHANGED <<bins, content, torn, run, up, version, restarting, closed, bounds>>

(* What cannot be made executable is removed. *)
Chmod(h) ==
    /\ proc[h].pc = "chmod"
    /\ LET v == proc[h].want IN
       \/ /\ parts[v] # Nothing
          /\ proc' = [proc EXCEPT ![h].pc = "backup"]
          /\ status' = "replacing"
          /\ UNCHANGED parts
       \/ /\ parts' = [parts EXCEPT ![v] = Nothing]
          /\ Stopped(h)
    /\ UNCHANGED <<bins, content, torn, run, up, version, restarting, closed, bounds>>

(* What os.Executable says of the running binary follows its renames. *)
Renamed(from, to) ==
    run' = IF bins[from] = run.file THEN [run EXCEPT !.path = to] ELSE run

(* The binary is renamed to binary.prev, if it is there. *)
Backup(h) ==
    /\ proc[h].pc = "backup"
    /\ LET b == proc[h].bin IN
       IF bins[b] # Nothing
       THEN /\ bins' = [bins EXCEPT ![b] = Nothing, ![b + 1] = bins[b]]
            /\ Renamed(b, b + 1)
       ELSE UNCHANGED <<bins, run>>
    /\ proc' = [proc EXCEPT ![h].pc = "replace"]
    /\ status' = "replacing"
    /\ UNCHANGED <<parts, content, torn, up, version, restarting, closed, bounds>>

(* io.Copy: the first n chunks of the binary. *)
CopyTo(b, dst, n) ==
    /\ bins' = [bins EXCEPT ![b + 1] = dst]
    /\ content' = [content EXCEPT ![dst] = SubSeq(content[bins[b]], 1, n)]
    /\ IF n = Len(content[bins[b]])
       THEN /\ torn' = IF bins[b] \in torn THEN torn \cup {dst} ELSE torn \ {dst}
            /\ UNCHANGED unsaved
       ELSE /\ torn' = torn \cup {dst}
            /\ unsaved' = TRUE

(* os.Create empties the file that has the name, which fails with one that *)
(* is being executed, or makes one.                                        *)
Created(name) ==
    IF bins[name] = Nothing THEN Free # {} ELSE bins[name] # run.file

CreatedFile(name) ==
    IF bins[name] = Nothing THEN CHOOSE f \in Free : TRUE ELSE bins[name]

(***************************************************************************)
(* The binary is there and cannot be renamed: a copy is the backup.  When  *)
(* a file cannot be opened or created there is none, an older backup that  *)
(* is there stays, and when the copy breaks off what has been copied is    *)
(* the backup: none of these errors is looked at.                          *)
(***************************************************************************)
BackupCopies(h) ==
    /\ proc[h].pc = "backup"
    /\ LET b == proc[h].bin IN
       /\ bins[b] # Nothing
       /\ \/ /\ unsaved' = TRUE
             /\ UNCHANGED <<bins, content, torn>>
          \/ /\ Created(b + 1)
             /\ \E n \in 0 .. Len(content[bins[b]]) : CopyTo(b, CreatedFile(b + 1), n)
    /\ proc' = [proc EXCEPT ![h].pc = "replace"]
    /\ status' = "replacing"
    /\ UNCHANGED <<parts, run, up, version, restarting, closed, requests, crashes, interrupted>>

(* The partial file is renamed to the binary. *)
Replace(h) ==
    /\ proc[h].pc = "replace"
    /\ LET b == proc[h].bin
           v == proc[h].want IN
       /\ parts[v] # Nothing
       /\ bins' = [bins EXCEPT ![b] = parts[v]]
       /\ parts' = [parts EXCEPT ![v] = Nothing]
    /\ proc' = [proc EXCEPT ![h].pc = "finish"]
    /\ status' = "restarting"
    /\ UNCHANGED <<content, torn, run, up, version, restarting, closed, bounds>>

(* Mutant: the backup keeps its name. *)
ReplaceFailsForGood(h) ==
    /\ proc[h].pc = "replace"
    /\ Stopped(h)
    /\ UNCHANGED <<disk, run, up, version, restarting, closed, bounds>>

(***************************************************************************)
(* It cannot be: what stands at the backup's name is renamed to the        *)
(* binary, be it the binary, its copy, a part of one or an older backup.   *)
(* The error of this rename is dropped.                                    *)
(***************************************************************************)
ReplaceFails(h) ==
    /\ proc[h].pc = "replace"
    /\ LET b == proc[h].bin IN
       \/ /\ bins[b + 1] # Nothing
          /\ bins' = [bins EXCEPT ![b] = bins[b + 1], ![b + 1] = Nothing]
          /\ Renamed(b + 1, b)
          /\ UNCHANGED interrupted
       \/ /\ interrupted' = (interrupted \/ (bins[b] = Nothing /\ bins[b + 1] # Nothing))
          /\ UNCHANGED <<bins, run>>
    /\ Stopped(h)
    /\ UNCHANGED <<parts, content, torn, up, version, restarting, closed,
                   requests, crashes, unsaved>>

(* The restart hook is called in a goroutine of its own. *)
Finish(h) ==
    /\ proc[h].pc = "finish"
    /\ restarting' = TRUE
    /\ status' = "done"
    /\ proc' = [proc EXCEPT ![h] = Idle]
    /\ UNCHANGED <<disk, run, up, version, closed, bounds>>

JobStep(h) ==
    /\ up
    /\ \/ Start(h) \/ Fail(h) \/ Fetch(h) \/ Open(h) \/ Stat(h) \/ Broken(h)
       \/ BeyondTheEnd(h) \/ FromTheStart(h) \/ Resume(h) \/ Receive(h) \/ Received(h)
       \/ Unverified(h) \/ Verify(h) \/ Chmod(h) \/ Backup(h) \/ BackupCopies(h)
       \/ Replace(h) \/ ReplaceFails(h) \/ Finish(h)

-----------------------------------------------------------------------------
(* The process *)

BetweenRenames == \E h \in Handlers : proc[h].pc = "replace"

(* All a process has in memory goes with it. *)
Ends ==
    /\ status' = "idle" /\ version' = Nothing
    /\ restarting' = FALSE /\ closed' = FALSE
    /\ proc' = [h \in Handlers |-> Idle]
    /\ interrupted' = (interrupted \/ BetweenRenames)
    /\ unsaved' = FALSE
    /\ UNCHANGED <<disk, requests>>

Crash ==
    /\ up
    /\ crashes < MaxCrashes
    /\ up' = FALSE
    /\ crashes' = crashes + 1
    /\ Ends
    /\ UNCHANGED run

Runs(path) == run' = [file |-> bins[path], path |-> path]

Startable(path) == bins[path] # Nothing /\ IsWhole(bins[path])

(* A service that is down is started from the path it is installed at. *)
Boot ==
    /\ ~up
    /\ Startable(0)
    /\ Runs(0)
    /\ up' = TRUE
    /\ UNCHANGED <<disk, memory, proc, bounds>>

(* systemctl restart: SIGTERM, and then the service is down and booted. *)
RestartBySystemd ==
    /\ up /\ restarting
    /\ up' = FALSE
    /\ Ends
    /\ UNCHANGED <<run, crashes>>

(* Not under systemd, or when sudo cannot be run: exec of os.Executable. *)
RestartByExec ==
    /\ up /\ restarting
    /\ Startable(run.path)
    /\ Runs(run.path)
    /\ Ends
    /\ UNCHANGED <<up, crashes>>

(* systemctl or exec fails: the process goes on, its database closed. *)
RestartFails ==
    /\ up /\ restarting
    /\ restarting' = FALSE
    /\ closed' = TRUE
    /\ UNCHANGED <<disk, run, up, status, version, proc, bounds>>

Restart == RestartBySystemd \/ RestartByExec \/ RestartFails

Next ==
    \/ \E h \in Handlers : Apply(h) \/ JobStep(h)
    \/ Restart \/ Crash \/ Boot

Spec == Init /\ [][Next]_vars

(* A job that has a step to take takes it. *)
FairSpec == Spec /\ \A h \in Handlers : WF_vars(JobStep(h))

-----------------------------------------------------------------------------
(* Properties *)

(***************************************************************************)
(* Whatever a download had to retry or resume, in this process or a later  *)
(* one, and although the check of the hash is skipped when SHA256SUMS      *)
(* cannot be had: what stands at the binary's name, or at its backup's, is *)
(* all of one version, unless it is a copy for a backup that broke off.    *)
(* (downloadToFileWithProgress, runUpdate.)                                *)
(***************************************************************************)
InstalledWhole == \A n \in Names : bins[n] # Nothing => IsWhole(bins[n]) \/ bins[n] \in torn

(***************************************************************************)
(* There is a binary to start, except while the new one is renamed into    *)
(* the place of the old, and for ever after if the process ends there or   *)
(* if both that rename and its undoing fail; and it is a whole one unless  *)
(* a copy that broke off was renamed back to it.  (runUpdate.)             *)
(***************************************************************************)
Bootable ==
    \/ Startable(0)
    \/ bins[0] = Nothing /\ (BetweenRenames \/ interrupted)
    \/ bins[0] \in torn

(***************************************************************************)
(* Up to the restart the binary that runs stays on disk, under its name or *)
(* as a backup or copied there, so that the update can be taken back:      *)
(* whatever fails but the copy of a binary that cannot be renamed, and     *)
(* however often updates fail.  (runUpdate.)                               *)
(***************************************************************************)
RunningKept ==
    up /\ ~restarting /\ ~closed /\ ~unsaved =>
        \E n \in Names : bins[n] # Nothing /\ content[bins[n]] = content[run.file]

(***************************************************************************)
(* A job does not download for ever: the slot is free again, in the end.   *)
(***************************************************************************)
UpdateEnds == \A h \in Handlers : (proc[h].pc # "idle") ~> (proc[h].pc = "idle")

(***************************************************************************)
(* "we never run two concurrent self-updates" (updater.go:427).            *)
(***************************************************************************)
OneJob ==
    \A h, i \in Handlers :
        h # i => proc[h].pc \in {"idle", "start"} \/ proc[i].pc \in {"idle", "start"}

(***************************************************************************)
(* No two requests are between the test of the status and its setting at   *)
(* once.  Nothing in the code sees to that (applyUpdateHandler unlocks in  *)
(* between); it is all that the slot lacks.                                *)
(***************************************************************************)
Apart == \A h, i \in Handlers : h # i => ~(proc[h].pc = "start" /\ proc[i].pc = "start")

(***************************************************************************)
(* "ExecRestart replaces the current process with the new binary"          *)
(* (restart.go:110): after an update that is done, the new process runs    *)
(* the version it reports as installed.                                    *)
(***************************************************************************)
RestartsIntoTheUpdate ==
    [][restarting /\ ~restarting' /\ up' /\ ~closed' /\ status = "done"
            => content[run'.file] = Whole(version)]_vars
=============================================================================

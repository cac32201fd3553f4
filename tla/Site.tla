-------------------------------- MODULE Site --------------------------------
(***************************************************************************)
(* The site around the articles: settings.yml (core/settings), the themes  *)
(* on disk (core/themes, api/themes.go), the uploaded files (api/files.go) *)
(* and what the home page shows of settings and tables (api/site.go,       *)
(* api/sidebar_cards.go, the features of api/admin.go), with the copies    *)
(* the frontends keep of it.                                               *)
(*                                                                         *)
(* Files have no transactions.  os.WriteFile empties the file and then     *)
(* writes it; RemoveAll removes one entry after the other; a request may   *)
(* come between any two of these, and so may a crash.  A settings file is  *)
(* read whole, empty (which Load takes for the defaults) or torn (which it *)
(* refuses).  Of the settings the three keys are kept that programs read   *)
(* or change one at a time; of a stylesheet, whether it is all there.      *)
(***************************************************************************)
EXTENDS Frontends, FiniteSets

CONSTANTS
    Home,         \* the page
    Sunset,       \* the theme of the defaults, built in
    Custom,       \* names of themes somebody may upload
    Contents,     \* contents of uploads; a file is named by its hash
    People, Managers,  \* who uploads; Managers are administrators
    Slots,
    Forms,        \* bound: the settings the form sends
    Mixes,        \* bound: the sets of kinds of request made in one behaviour
    MaxRequests,  \* bound: requests made
    MaxCrashes    \* bound: crashes

Themes == {Sunset} \cup Custom
Settings == [theme : Themes, manage : BOOLEAN, source : {"github", "gitcode"}]
Default == [theme |-> Sunset, manage |-> FALSE, source |-> "github"]

ASSUME SiteAssumption ==
    /\ Pages = {Home} /\ Sunset \notin Custom /\ Managers \subseteq People
    /\ Contents # {} /\ People # {} /\ Forms \subseteq Settings
    /\ MaxRequests \in Nat /\ MaxCrashes \in Nat

VARIABLES
    yml,       \* settings.yml: [st, cfg]
    themes,    \* [Themes -> [yaml: theme.yaml is there, css: theme.css]]
    disk,      \* [Contents -> "none", "part" or "whole"]
    files,     \* [Contents -> row of static_files: [id, by]], id 0 when there is none
    listed,    \* rows the home page lists, of all its tables
    ids,       \* rows inserted so far
    req,       \* [Slots -> request]
    requests, crashes, mix,
    \* history, read by no action
    asked,     \* the settings as they were asked for
    mixed,     \* the file was written from a copy that was not up to date
    excused,   \* themes whose stylesheet went missing in one of the ways listed below
    spoiled,   \* contents whose copy broke off
    crossed    \* contents deleted and uploaded at the same time

history == <<asked, mixed, excused, spoiled, crossed>>
uploads == <<disk, files, spoiled, crossed>>
rest == <<yml, themes, disk, files, listed, ids, req, requests, crashes, mix, history>>
vars == <<shown, frontends, rest>>

AnyUser == CHOOSE u \in People : TRUE
AnyContent == CHOOSE f \in Contents : TRUE
NoRow == [id |-> 0, by |-> AnyUser]

Ops == {"", "form", "source", "activate", "drop", "install", "upload", "unfile", "item"}
Stages == {"free", "save", "write", "purge", "load", "rest", "static", "css", "fill",
           "copy", "insert", "delete", "unlink"}

\* stale: another save came between this request's look at the file and its own
\* save; raced: so did the removal of the stylesheet of the theme it is going to
\* write, the one it activates or, for setUpdateSource, the one it read, which a
\* deletion has taken from the file since; gone: the file it has open was unlinked.
Request == [op : Ops, st : Stages, theme : Themes, f : Contents, cfg : Settings, id : Nat,
            by : People, stale : BOOLEAN, raced : BOOLEAN, gone : BOOLEAN]
Free == [op |-> "", st |-> "free", theme |-> Sunset, f |-> AnyContent,
         cfg |-> Default, id |-> 0, by |-> AnyUser, stale |-> FALSE, raced |-> FALSE, gone |-> FALSE]

TypeOK ==
    /\ FrontendsTypeOK
    /\ yml \in [st : {"empty", "torn", "whole"}, cfg : Settings]
    /\ themes \in [Themes -> [yaml : BOOLEAN, css : {"nodir", "none", "empty", "part", "whole"}]]
    /\ disk \in [Contents -> {"none", "part", "whole"}]
    /\ files \in [Contents -> [id : Nat, by : People]]
    /\ listed \in Nat /\ ids \in Nat
    /\ req \in [Slots -> Request]
    /\ requests \in 0 .. MaxRequests /\ crashes \in 0 .. MaxCrashes /\ mix \in Mixes
    /\ asked \in Settings /\ mixed \in BOOLEAN
    /\ excused \subseteq Themes /\ spoiled \subseteq Contents /\ crossed \subseteq Contents

\* The first start is over: the defaults and the built-in themes are written.
\* What was uploaded before is there or not.
Init ==
    /\ FrontendsInit
    /\ yml = [st |-> "whole", cfg |-> Default]
    /\ \E there \in SUBSET Custom :
         themes = [t \in Themes |-> IF t \in {Sunset} \cup there
                                    THEN [yaml |-> TRUE, css |-> "whole"]
                                    ELSE [yaml |-> FALSE, css |-> "nodir"]]
    /\ \E there \in SUBSET Contents, u \in People :
         /\ disk = [f \in Contents |-> IF f \in there THEN "whole" ELSE "none"]
         /\ files = [f \in Contents |-> IF f \in there THEN [id |-> 1, by |-> u] ELSE NoRow]
    /\ listed = 0 /\ ids = 1
    /\ req = [r \in Slots |-> Free] /\ requests = 0 /\ crashes = 0 /\ mix \in Mixes
    /\ asked = Default /\ mixed = FALSE
    /\ excused = {} /\ spoiled = {} /\ crossed = {}

-----------------------------------------------------------------------------
(* The settings file. *)

Readable == yml.st # "torn"

\* Load: an empty file parses, as no settings at all.
Load == IF yml.st = "whole" THEN yml.cfg ELSE Default

\* getSite answers appearance and features, which theme and manage belong to, and
\* not where updates come from; with the defaults when the file does not parse.
Shows(y) == LET cfg == IF y.st = "whole" THEN y.cfg ELSE Default
            IN <<cfg.theme, cfg.manage>>

\* What a change of the file means for the home page: it is shown from now on.
ShowsFrom(y) == IF Shows(y) = Shows(yml) THEN UNCHANGED shown ELSE Changed(Home)

\* The saves that are followed by a purge.
Purging == {"form", "activate"}
Quiet(r) == IF req[r].op \in Purging \/ shown' = shown THEN UNCHANGED frontends
            ELSE Unannounced(Home)

\* Who has looked at the file, or emptied it, and is going to write it.
Holding(r) == req[r].st \in {"save", "write"}

Arrive(r, q) ==
    /\ req[r].st = "free" /\ requests < MaxRequests /\ q.op \in mix
    /\ req' = [req EXCEPT ![r] = q]
    /\ requests' = requests + 1
    /\ UNCHANGED <<crashes, mix>>

Step(r, q) == req' = [req EXCEPT ![r] = q] /\ UNCHANGED <<requests, crashes, mix>>
Done(r) == Step(r, Free)

\* Save: os.WriteFile opens and empties the file.
Truncate(r) ==
    /\ req[r].st = "save"
    /\ yml' = [yml EXCEPT !.st = "empty"]
    /\ req' = [s \in Slots |-> IF s = r THEN [req[s] EXCEPT !.st = "write"]
                               ELSE IF Holding(s) THEN [req[s] EXCEPT !.stale = TRUE] ELSE req[s]]
    /\ ShowsFrom(yml') /\ Quiet(r)
    /\ UNCHANGED <<requests, crashes, mix, themes, disk, files, listed, ids, history>>

\* The key, or all of them, the request asked for.
Asked(q) == CASE q.op = "form" -> q.cfg
              [] q.op \in {"activate", "drop"} -> [asked EXCEPT !.theme = q.cfg.theme]
              [] q.op = "source" -> [asked EXCEPT !.source = q.cfg.source]

\* ... and writes it.  A file that another save has filled meanwhile may keep
\* the end of what that one wrote.
Write(r) ==
    LET q == req[r]
    IN /\ q.st = "write"
       /\ yml' \in {[st |-> "whole", cfg |-> q.cfg]} \cup
                   (IF yml.st = "empty" THEN {} ELSE {[st |-> "torn", cfg |-> q.cfg]})
       /\ ShowsFrom(yml') /\ Quiet(r)
       /\ req' = [s \in Slots |->
                    IF s = r THEN IF q.op \in Purging THEN [q EXCEPT !.st = "purge"] ELSE Free
                    ELSE IF Holding(s) THEN [req[s] EXCEPT !.stale = TRUE] ELSE req[s]]
       /\ asked' = Asked(q)
       /\ mixed' = IF q.op = "form" THEN q.stale ELSE mixed \/ q.stale
       /\ excused' = IF themes[q.cfg.theme].css # "whole" /\ (q.op = "form" \/ q.raced)
                     THEN excused \cup {q.cfg.theme} ELSE excused
       /\ UNCHANGED <<requests, crashes, mix, themes, disk, files, listed, ids, spoiled, crossed>>

\* The disk is full: the file stays as it is, or has half of it; nothing is purged.
WriteFails(r) ==
    /\ req[r].st = "write"
    /\ yml' \in {yml, [yml EXCEPT !.st = "torn"]}
    /\ ShowsFrom(yml') /\ Unannounced(Home)
    /\ Done(r)
    /\ mixed' = TRUE
    /\ UNCHANGED <<themes, disk, files, listed, ids, asked, excused, spoiled, crossed>>

Purge(r) ==
    /\ req[r].st = "purge"
    /\ Revalidate(Home) /\ Done(r)
    /\ UNCHANGED <<shown, yml, themes, disk, files, listed, ids, history>>

\* A request that holds settings it has just loaded.
Loaded(q, cfg) == [q EXCEPT !.st = "save", !.cfg = cfg, !.stale = yml.st # "whole"
                                                              \/ \E s \in Slots : Holding(s),
                            !.raced = @ \/ themes[cfg.theme].css # "whole"]

\* updateSettings: whatever the client sends is saved.
SaveForm(r, cfg) ==
    /\ Arrive(r, [Free EXCEPT !.op = "form", !.st = "save", !.cfg = cfg,
                              !.stale = \E s \in Slots : Holding(s)])
    /\ UNCHANGED <<shown, frontends, yml, themes, disk, files, listed, ids, history>>

\* Mutant: the settings are not merged over the defaults.
SetSourceAlone(r, source) ==
    /\ Readable
    /\ Arrive(r, Loaded([Free EXCEPT !.op = "source"], [Default EXCEPT !.source = source]))
    /\ UNCHANGED <<shown, frontends, yml, themes, disk, files, listed, ids, history>>

\* setUpdateSource.
SetSource(r, source) ==
    /\ Readable
    /\ Arrive(r, Loaded([Free EXCEPT !.op = "source"], [Load EXCEPT !.source = source]))
    /\ UNCHANGED <<shown, frontends, yml, themes, disk, files, listed, ids, history>>

-----------------------------------------------------------------------------
(* Themes. *)

\* readTheme: theme.yaml must be there; theme.css may be, and not be empty.
Whole(t) == themes[t].yaml
HasCSS(t) == themes[t].css \in {"part", "whole"}

\* adminActivateTheme: Get, then Load and Save.
Activate(r, t) ==
    /\ Whole(t) /\ HasCSS(t)
    /\ Arrive(r, [Free EXCEPT !.op = "activate", !.st = "load", !.theme = t])
    /\ UNCHANGED <<shown, frontends, yml, themes, disk, files, listed, ids, history>>

LoadToActivate(r) ==
    LET q == req[r]
    IN /\ q.op = "activate" /\ q.st = "load"
       /\ IF Readable THEN Step(r, Loaded(q, [Load EXCEPT !.theme = q.theme])) ELSE Done(r)
       /\ UNCHANGED <<shown, frontends, yml, themes, disk, files, listed, ids, history>>

\* The requests when r goes on as q and the stylesheet of t is removed.
WithoutCSS(r, q, t) ==
    [s \in Slots |->
       IF s = r THEN q
       ELSE IF req[s].op = "install" /\ req[s].theme = t THEN [req[s] EXCEPT !.gone = TRUE]
       ELSE IF t \in {req[s].theme, req[s].cfg.theme} THEN [req[s] EXCEPT !.raced = TRUE]
       ELSE req[s]]

\* adminDeleteTheme: RemoveAll takes the entries in the order of the directory,
\* static/ first ...
DropTheme(r, t) ==
    /\ t \in Custom /\ themes[t] # [yaml |-> FALSE, css |-> "nodir"]
    /\ req[r].st = "free" /\ requests < MaxRequests /\ "drop" \in mix
    /\ req' = WithoutCSS(r, [Free EXCEPT !.op = "drop", !.st = "rest", !.theme = t], t)
    /\ requests' = requests + 1
    /\ themes' = [themes EXCEPT ![t].css = "nodir"]
    /\ UNCHANGED <<shown, frontends, yml, disk, files, listed, ids, crashes, mix, history>>

\* ... or theme.yaml ...
DropManifest(r, t) ==
    /\ t \in Custom /\ themes[t] # [yaml |-> FALSE, css |-> "nodir"]
    /\ Arrive(r, [Free EXCEPT !.op = "drop", !.st = "static", !.theme = t])
    /\ themes' = [themes EXCEPT ![t].yaml = FALSE]
    /\ UNCHANGED <<shown, frontends, yml, disk, files, listed, ids, history>>

\* ... then the other and the directory, which may have been filled again: the
\* deletion is answered 400 and the settings stay as they are.
DropRest(r) ==
    LET q == req[r] empty == themes[q.theme].css = "nodir"
    IN /\ q.op = "drop" /\ q.st = "rest"
       /\ themes' = [themes EXCEPT ![q.theme].yaml = FALSE]
       /\ excused' = IF empty THEN excused ELSE excused \cup {q.theme}
       /\ IF empty THEN Step(r, [q EXCEPT !.st = "load"]) ELSE Done(r)
       /\ UNCHANGED <<shown, frontends, yml, disk, files, listed, ids, asked, mixed, spoiled, crossed>>

DropStatic(r) ==
    LET q == req[r] empty == ~themes[q.theme].yaml
    IN /\ q.op = "drop" /\ q.st = "static"
       /\ themes' = [themes EXCEPT ![q.theme].css = "nodir"]
       /\ excused' = IF empty THEN excused ELSE excused \cup {q.theme}
       /\ req' = WithoutCSS(r, IF empty THEN [q EXCEPT !.st = "load"] ELSE Free, q.theme)
       /\ UNCHANGED <<shown, frontends, yml, disk, files, listed, ids, requests, crashes, mix,
                      asked, mixed, spoiled, crossed>>

\* Or RemoveAll fails before the second, with the same answer.
DropFails(r) ==
    LET q == req[r]
    IN /\ q.op = "drop" /\ q.st \in {"rest", "static"}
       /\ excused' = excused \cup {q.theme}
       /\ Done(r)
       /\ UNCHANGED <<shown, frontends, yml, themes, disk, files, listed, ids,
                      asked, mixed, spoiled, crossed>>

\* Mutant: the site is left with the theme it had.
ResetTheme(r) ==
    /\ req[r].op = "drop" /\ req[r].st = "load"
    /\ Done(r)
    /\ UNCHANGED <<shown, frontends, yml, themes, disk, files, listed, ids, history>>

\* If it was the active theme the site goes back to the default; no purge.
LoadToReset(r) ==
    LET q == req[r]
    IN /\ q.op = "drop" /\ q.st = "load"
       /\ IF Readable /\ Load.theme = q.theme
          THEN Step(r, Loaded(q, [Load EXCEPT !.theme = Sunset])) ELSE Done(r)
       /\ UNCHANGED <<shown, frontends, yml, themes, disk, files, listed, ids, history>>

\* InstallFromZip, InstallFromCSS: the directories and theme.yaml ...
Install(r, t) ==
    /\ t \in Custom
    /\ Arrive(r, [Free EXCEPT !.op = "install", !.st = "css", !.theme = t])
    /\ themes' = [themes EXCEPT ![t] = [yaml |-> TRUE, css |-> IF @.css = "nodir" THEN "none" ELSE @.css]]
    /\ UNCHANGED <<shown, frontends, yml, disk, files, listed, ids, history>>

\* ... then theme.css, emptied ...
EmptyCSS(r) ==
    LET q == req[r] t == q.theme
    IN /\ q.op = "install" /\ q.st = "css"
       /\ IF themes[t].css = "nodir"
          THEN Done(r) /\ UNCHANGED themes
          ELSE /\ themes' = [themes EXCEPT ![t].css = "empty"]
               /\ req' = [s \in Slots |->
                            IF s = r THEN [q EXCEPT !.st = "fill", !.gone = FALSE]
                            ELSE IF t \in {req[s].theme, req[s].cfg.theme}
                            THEN [req[s] EXCEPT !.raced = TRUE] ELSE req[s]]
               /\ UNCHANGED <<requests, crashes, mix>>
       /\ UNCHANGED <<shown, frontends, yml, disk, files, listed, ids, history>>

\* ... and written; the write may fail, or go to a file that was unlinked.
FillCSS(r) ==
    LET q == req[r] t == q.theme
    IN /\ q.op = "install" /\ q.st = "fill"
       /\ \/ /\ themes' = IF q.gone THEN themes ELSE [themes EXCEPT ![t].css = "whole"]
             /\ excused' = IF q.gone THEN excused ELSE excused \ {t}
          \/ /\ excused' = excused \cup {t}
             /\ UNCHANGED themes
       /\ Done(r)
       /\ UNCHANGED <<shown, frontends, yml, disk, files, listed, ids, asked, mixed, spoiled, crossed>>

-----------------------------------------------------------------------------
(* Uploaded files. *)

\* resolveFileAccess.
MayManage(u) == u \in Managers \/ (Readable /\ Load.manage)

Quietly == UNCHANGED <<shown, frontends, yml, themes, listed, asked, mixed, excused>>

\* The uploads of the same content that are past their look at the disk.
Trusting(f) == {r \in Slots : req[r].op = "upload" /\ req[r].st = "insert" /\ req[r].f = f}
Unlinking(f) == {r \in Slots : req[r].st = "unlink" /\ req[r].f = f}

\* uploadFile up to the file: O_EXCL creates it, or finds it and trusts it.
Upload(r, f, u) ==
    /\ MayManage(u)
    /\ Arrive(r, [Free EXCEPT !.op = "upload", !.st = IF disk[f] = "none" THEN "copy" ELSE "insert",
                              !.f = f, !.by = u])
    /\ disk' = IF disk[f] = "none" THEN [disk EXCEPT ![f] = "part"] ELSE disk
    /\ spoiled' = IF disk[f] = "none" THEN spoiled \ {f} ELSE spoiled
    /\ crossed' = IF disk[f] = "none" /\ files[f].id = 0 /\ Trusting(f) = {} THEN crossed \ {f} ELSE crossed
    /\ Quietly /\ UNCHANGED <<files, ids>>

\* The bytes, unless the copy breaks off, which leaves the file as it is.
CopyUpload(r) ==
    LET q == req[r]
    IN /\ q.op = "upload" /\ q.st = "copy"
       /\ \/ /\ disk' = IF q.gone THEN disk ELSE [disk EXCEPT ![q.f] = "whole"]
             /\ Step(r, [q EXCEPT !.st = "insert"]) /\ UNCHANGED spoiled
          \/ /\ spoiled' = spoiled \cup {q.f}
             /\ Done(r) /\ UNCHANGED disk
       /\ Quietly /\ UNCHANGED <<files, ids, crossed>>

\* The record, unless there is one; or the client has gone and there is none.
InsertFile(r) ==
    LET q == req[r]
    IN /\ q.op = "upload" /\ q.st = "insert"
       /\ \/ /\ files[q.f].id = 0
             /\ ids' = ids + 1
             /\ files' = [files EXCEPT ![q.f] = [id |-> ids', by |-> q.by]]
             /\ crossed' = IF Unlinking(q.f) # {} THEN crossed \cup {q.f} ELSE crossed
          \/ UNCHANGED <<files, ids, crossed>>
       /\ Done(r)
       /\ Quietly /\ UNCHANGED <<disk, spoiled>>

\* deleteFile: the record by its id, everybody's for an administrator ...
DeleteFile(r, f, u) ==
    /\ MayManage(u) /\ files[f].id # 0 /\ (u \in Managers \/ files[f].by = u)
    /\ Arrive(r, [Free EXCEPT !.op = "unfile", !.st = "delete", !.f = f, !.by = u, !.id = files[f].id])
    /\ Quietly /\ UNCHANGED <<uploads, ids>>

\* Mutant: nobody asks whether the DELETE found a row.
DeleteRecordUnchecked(r) ==
    LET q == req[r]
    IN /\ q.op = "unfile" /\ q.st = "delete"
       /\ files' = IF files[q.f].id = q.id THEN [files EXCEPT ![q.f] = NoRow] ELSE files
       /\ Step(r, [q EXCEPT !.st = "unlink"])
       /\ Quietly /\ UNCHANGED <<disk, ids, spoiled, crossed>>

\* ... deleted, if it is still that one ...
DeleteRecord(r) ==
    LET q == req[r] found == files[q.f].id = q.id
    IN /\ q.op = "unfile" /\ q.st = "delete"
       /\ files' = IF found THEN [files EXCEPT ![q.f] = NoRow] ELSE files
       /\ IF found THEN Step(r, [q EXCEPT !.st = "unlink"]) ELSE Done(r)
       /\ Quietly /\ UNCHANGED <<disk, ids, spoiled, crossed>>

\* ... and the file, best effort.
Unlink(r) ==
    LET f == req[r].f
    IN /\ req[r].st = "unlink"
       /\ disk' \in {disk, [disk EXCEPT ![f] = "none"]}
       /\ req' = [s \in Slots |-> IF s = r THEN Free
                    ELSE IF req[s].st = "copy" /\ req[s].f = f /\ disk' # disk
                    THEN [req[s] EXCEPT !.gone = TRUE] ELSE req[s]]
       /\ crossed' = IF Trusting(f) # {} \/ \E s \in Slots : req[s].st = "copy" /\ req[s].f = f
                     THEN crossed \cup {f} ELSE crossed
       /\ Quietly /\ UNCHANGED <<requests, crashes, mix, files, ids, spoiled>>

-----------------------------------------------------------------------------
(* The rows the home page lists: cards, links, featured articles, notices. *)

\* Mutant: nothing is purged.
AddItemQuietly(r) ==
    /\ listed' = listed + 1
    /\ Changed(Home) /\ Arrive(r, [Free EXCEPT !.op = "item"])
    /\ UNCHANGED <<frontends, yml, themes, disk, files, ids, history>>

AddItem(r) ==
    /\ listed' = listed + 1
    /\ Changed(Home) /\ Arrive(r, [Free EXCEPT !.op = "item", !.st = "purge"])
    /\ UNCHANGED <<frontends, yml, themes, disk, files, ids, history>>

\* An update or a deletion that finds no row is a 404 without a purge.
ChangeItem(r) ==
    /\ listed > 0 /\ listed' \in {listed, listed - 1}
    /\ Changed(Home) /\ Arrive(r, [Free EXCEPT !.op = "item", !.st = "purge"])
    /\ UNCHANGED <<frontends, yml, themes, disk, files, ids, history>>

-----------------------------------------------------------------------------

\* The process dies with its requests and the POSTs it was sending, and starts
\* again; Ensure finds a settings file, EnsureBuiltins the built-in themes.
Crash ==
    LET half == {req[r].theme : r \in {s \in Slots : req[s].op \in {"install", "drop"}}}
        copying == {req[r].f : r \in {s \in Slots : req[s].st = "copy"}}
        saving == \E r \in Slots : req[r].st \in {"write", "purge"}
    IN /\ crashes < MaxCrashes /\ crashes' = crashes + 1
       /\ req' = [r \in Slots |-> Free]
       /\ purges' = [c \in Clients |-> [p \in Pages |-> 0]]
       /\ missed' = missed \cup {x \in Clients \X Pages : saving \/ purges[x[1]][x[2]] > 0}
       /\ mixed' = (mixed \/ \E r \in Slots : req[r].st = "write")
       /\ excused' = excused \cup half
       /\ spoiled' = spoiled \cup copying
       /\ themes' \in {themes, [t \in Themes |-> IF themes[t].css = "empty"
                                                THEN [themes[t] EXCEPT !.css = "part"] ELSE themes[t]]}
       /\ UNCHANGED <<shown, copy, fetch, yml, disk, files, listed, ids, requests, mix, asked, crossed>>

Arrival(r) ==
    \/ \E cfg \in Forms : SaveForm(r, cfg)
    \/ \E source \in {"github", "gitcode"} : SetSource(r, source)
    \/ \E t \in Themes : Activate(r, t) \/ DropTheme(r, t) \/ DropManifest(r, t) \/ Install(r, t)
    \/ \E f \in Contents, u \in People : Upload(r, f, u) \/ DeleteFile(r, f, u)
    \/ AddItem(r) \/ ChangeItem(r)

Handling(r) ==
    \/ Truncate(r) \/ Write(r) \/ WriteFails(r) \/ Purge(r)
    \/ LoadToActivate(r) \/ DropRest(r) \/ DropStatic(r) \/ DropFails(r) \/ LoadToReset(r)
    \/ EmptyCSS(r) \/ FillCSS(r)
    \/ CopyUpload(r) \/ InsertFile(r) \/ DeleteRecord(r) \/ Unlink(r)

Next ==
    \/ \E r \in Slots : Arrival(r) \/ Handling(r)
    \/ FrontendsNext /\ UNCHANGED rest
    \/ Crash

Spec == Init /\ [][Next]_vars

-----------------------------------------------------------------------------

\* The settings are those that were asked for, key by key, whichever handlers
\* changed one key and wrote the whole file: unless a save was written from a
\* copy another save had overtaken, or from a file that was not whole.
SettingsAsAsked == yml.st = "whole" /\ ~mixed => yml.cfg = asked

\* The active theme has a stylesheet.  The ways it does not: it is being
\* installed or deleted, an install or a deletion failed or crashed half-way,
\* the settings form named it unchecked, or a request wrote it while it went:
\* activating it, or writing back the settings from before its deletion.
ActiveHasCSS ==
    LET t == yml.cfg.theme
    IN yml.st = "whole" /\ t \notin excused =>
         \/ themes[t].css = "whole"
         \/ \E r \in Slots : req[r].theme = t /\ req[r].op \in {"install", "drop"}

\* A recorded upload is on the disk, however uploads and deletions of the same
\* content overlap: unless a copy broke off, or is still being made, or a
\* deletion removed the file between another upload's look at it and its record.
RecordsHaveFiles ==
    \A f \in Contents \ (spoiled \cup crossed) :
        files[f].id # 0 => \/ disk[f] = "whole"
                           \/ \E r \in Slots : req[r].st = "copy" /\ req[r].f = f

\* A frontend shows an old home page only while a purge is due or under way, or
\* after a change that none was sent for.
HomeFollows ==
    \A c \in Clients :
        Behind(c, Home) =>
            \/ PurgeUnderWay(c, Home) \/ <<c, Home>> \in missed
            \/ \E r \in Slots : \/ req[r].st = "purge"
                                \/ req[r].st = "write" /\ req[r].op \in Purging

=============================================================================

----------------------------- MODULE Site_proofs -----------------------------
(***************************************************************************)
(* Proofs about Site, for any themes, files, people and frontends, any     *)
(* number of requests at a time and every choice of what is written half.  *)
(* The invariant has a part per subject: the settings file, the active     *)
(* theme's stylesheet, the uploaded files and the frontends' copies.  Most *)
(* steps concern one of them and leave what the others speak of (Kept).    *)
(***************************************************************************)
EXTENDS Site, TLAPS

-----------------------------------------------------------------------------
(* The invariant *)

(* Where a request of each kind can be. *)
StagesOf(op) ==
    CASE op = ""         -> {"free"}
      [] op = "form"     -> {"save", "write", "purge"}
      [] op = "source"   -> {"save", "write"}
      [] op = "activate" -> {"load", "save", "write", "purge"}
      [] op = "drop"     -> {"rest", "static", "load", "save", "write"}
      [] op = "install"  -> {"css", "fill"}
      [] op = "upload"   -> {"copy", "insert"}
      [] op = "unfile"   -> {"delete", "unlink"}
      [] op = "item"     -> {"purge"}
State == TypeOK /\ \A r \in Slots : req[r].st \in StagesOf(req[r].op)

(* What the file says was asked for, and so does every copy in hand that no *)
(* save has overtaken, apart from the key its request changes.              *)
InHand(q) == q.st \in {"save", "write"} /\ q.op # "form" /\ ~q.stale
OneKey(op, cfg, a) == cfg = IF op = "source" THEN [a EXCEPT !.source = cfg.source]
                                             ELSE [a EXCEPT !.theme = cfg.theme]
SettingsInv ==
    /\ SettingsAsAsked
    /\ ~mixed => \A r \in Slots : InHand(req[r]) => OneKey(req[r].op, req[r].cfg, asked)

(* A theme that is about to be named has its stylesheet, if it did not go   *)
(* since; the active theme has it, or a request will put that right.        *)
Names(q) == q.st \in {"save", "write"} /\ q.op # "form" /\ ~q.raced
Resets(q, t) == q.op = "drop" /\ q.theme = t /\ q.st \in {"rest", "static", "load", "save"}
Fills(q, t) == q.op = "install" /\ q.theme = t /\ (q.st = "css" \/ ~q.gone)
Styled(t) ==
    \/ themes[t].css = "whole"
    \/ \E r \in Slots : Resets(req[r], t)
    \/ themes[t].css # "nodir" /\ \E r \in Slots : Fills(req[r], t)
ThemesInv ==
    /\ \A r \in Slots : Names(req[r]) => themes[req[r].cfg.theme].css = "whole"
    /\ yml.st = "whole" /\ yml.cfg.theme \notin excused => Styled(yml.cfg.theme)

(* Whoever relies on a file finds it there, or another request is copying   *)
(* it: unless a copy broke off, or an upload crossed a deletion.            *)
CopiedBy(r, f) == req[r].st = "copy" /\ req[r].f = f /\ ~req[r].gone
Backed(f) == disk[f] = "whole" \/ \E r \in Slots : CopiedBy(r, f)
Relies(r, f) == req[r].st \in {"copy", "insert"} /\ req[r].f = f
Claimed(f) == files[f].id # 0 \/ \E r \in Slots : Relies(r, f)
FileAt(f) ==
    /\ Claimed(f) /\ f \notin spoiled \cup crossed => Backed(f)
    /\ disk[f] = "part" /\ f \notin spoiled => Backed(f)
    /\ files[f].id # 0 /\ Unlinking(f) # {} => f \in crossed
FilesInv == \A f \in Contents : FileAt(f)

(* What is old, in a frontend's copy or on its way there, is being announced. *)
Announces(q) == q.st = "purge" \/ (q.st = "write" /\ q.op \in Purging)
Announced(c) ==
    \/ PurgeUnderWay(c, Home)
    \/ <<c, Home>> \in missed
    \/ \E r \in Slots : Announces(req[r])
FollowsAt(c) ==
    /\ copy[c][Home] \notin {0, shown[Home]} \/ fetch[c][Home] \notin {0, shown[Home]} => Announced(c)
    /\ copy[c][Home] = 0 \/ fetch[c][Home] = 0
HomeInv == \A c \in Clients : FollowsAt(c)

Inv == State /\ SettingsInv /\ ThemesInv /\ FilesInv /\ HomeInv

-----------------------------------------------------------------------------
(* Requests *)

LEMMA SettingsType ==
    /\ Default \in Settings /\ Sunset \in Themes
    /\ \A cfg \in Settings : \A t \in Themes : [cfg EXCEPT !.theme = t] \in Settings
    /\ \A cfg \in Settings : \A s \in {"github", "gitcode"} : [cfg EXCEPT !.source = s] \in Settings
BY DEF Default, Settings, Themes

LEMMA FreeType ==
    /\ Free \in Request /\ Free.st = "free" /\ Free.op = "" /\ ~Free.gone
    /\ NoRow \in [id : Nat, by : People] /\ NoRow.id = 0
<1>1. AnyUser \in People /\ AnyContent \in Contents
  BY SiteAssumption DEF AnyUser, AnyContent
<1> QED
  BY <1>1, SettingsType DEF Free, Request, Ops, Stages, NoRow

(* What a step of another request leaves of one. *)
Kept(p, q) ==
    /\ q.op = p.op /\ q.st = p.st /\ q.theme = p.theme /\ q.f = p.f /\ q.cfg = p.cfg
    /\ (p.stale => q.stale) /\ (p.raced => q.raced)
Moves(r, q) ==
    /\ req' \in [Slots -> Request] /\ req'[r] = q
    /\ \A s \in Slots \ {r} : Kept(req[s], req'[s])
Alone(r) == \A s \in Slots \ {r} : req'[s] = req[s]

LEMMA Stepped ==
    ASSUME TypeOK, NEW r \in Slots, NEW q \in Request, req' = [req EXCEPT ![r] = q]
    PROVE  Moves(r, q) /\ Alone(r)
BY DEF TypeOK, Moves, Alone, Kept

(* One that arrives finds its slot free. *)
LEMMA Arrivals ==
    ASSUME State, NEW r \in Slots, NEW q \in Request, Arrive(r, q)
    PROVE  /\ req' = [req EXCEPT ![r] = q] /\ Moves(r, q) /\ Alone(r)
           /\ req[r].st = "free" /\ req[r].op = ""
           /\ requests' \in 0 .. MaxRequests /\ UNCHANGED <<crashes, mix>>
<1>1. req' = [req EXCEPT ![r] = q] /\ req[r].st = "free"
  BY DEF Arrive
<1>2. req[r].st \in StagesOf(req[r].op) /\ req[r].op \in Ops
  BY DEF State, TypeOK, Request
<1>3. req[r].op = ""
  BY <1>1, <1>2 DEF StagesOf, Ops
<1>4. requests' \in 0 .. MaxRequests /\ UNCHANGED <<crashes, mix>>
  BY SiteAssumption DEF Arrive, State, TypeOK
<1> QED
  BY <1>1, <1>3, <1>4, Stepped DEF State

(* The kinds of request that can be at a stage. *)
LEMMA AtStage ==
    ASSUME State, NEW r \in Slots
    PROVE  /\ req[r] \in Request
           /\ req[r].st \in {"copy", "insert"} => req[r].op = "upload"
           /\ req[r].st \in {"css", "fill"} => req[r].op = "install"
           /\ req[r].st \in {"save", "write"} => req[r].op \in {"form", "source", "activate", "drop"}
           /\ req[r].st = "load" => req[r].op \in {"activate", "drop"}
           /\ req[r].st \in {"rest", "static"} => req[r].op = "drop"
           /\ req[r].op = "install" => req[r].st \in {"css", "fill"}
<1>1. req[r].st \in StagesOf(req[r].op) /\ req[r].op \in Ops /\ req[r] \in Request
  BY DEF State, TypeOK, Request
<1> QED
  BY <1>1 DEF StagesOf, Ops

LEMMA StateMoves ==
    ASSUME State, NEW r \in Slots, NEW q, Moves(r, q), q.st \in StagesOf(q.op), TypeOK'
    PROVE  State'
BY DEF State, Moves, Kept

-----------------------------------------------------------------------------
(* What a step leaves alone stays as it should be. *)

LEMMA SettingsKept ==
    ASSUME SettingsInv, NEW r \in Slots, NEW q, Moves(r, q), UNCHANGED <<yml, asked, mixed>>,
           InHand(q) /\ ~mixed => OneKey(q.op, q.cfg, asked)
    PROVE  SettingsInv'
<1>1. SettingsAsAsked'
  BY DEF SettingsInv, SettingsAsAsked
<1>2. ASSUME NEW s \in Slots, InHand(req'[s]), ~mixed PROVE OneKey(req'[s].op, req'[s].cfg, asked')
  <2>1. CASE s = r
    BY <1>2, <2>1 DEF Moves
  <2>2. CASE s # r
    <3>1. Kept(req[s], req'[s]) /\ InHand(req[s])
      BY <1>2, <2>2 DEF Moves, Kept, InHand
    <3>2. OneKey(req[s].op, req[s].cfg, asked)
      BY <1>2, <3>1 DEF SettingsInv
    <3> QED
      BY <3>1, <3>2 DEF Kept
  <2> QED
    BY <2>1, <2>2
<1> QED
  BY <1>1, <1>2 DEF SettingsInv, InHand

LEMMA ThemesKept ==
    ASSUME ThemesInv, NEW r \in Slots, NEW q, Moves(r, q), UNCHANGED <<themes, excused>>,
           yml'.st = "whole" => yml' = yml,
           \A s \in Slots \ {r} : req[s].op = "install" => req'[s].gone = req[s].gone,
           Names(q) => themes[q.cfg.theme].css = "whole",
           \A t : Fills(req[r], t) => Fills(q, t),
           \A t : Resets(req[r], t) => Resets(q, t) \/ yml.st # "whole" \/ yml.cfg.theme # t
    PROVE  ThemesInv'
<1>1. ASSUME NEW s \in Slots, Names(req'[s]) PROVE themes[req'[s].cfg.theme].css = "whole"
  BY <1>1 DEF ThemesInv, Names, Moves, Kept
<1>2. ASSUME yml'.st = "whole", yml.cfg.theme \notin excused PROVE Styled(yml.cfg.theme)'
  <2>1. Styled(yml.cfg.theme)
    BY <1>2 DEF ThemesInv
  <2>2. \A s \in Slots : Resets(req[s], yml.cfg.theme) => Resets(req'[s], yml.cfg.theme)
    BY <1>2 DEF Resets, Moves, Kept
  <2>3. \A s \in Slots : Fills(req[s], yml.cfg.theme) => Fills(req'[s], yml.cfg.theme)
    BY <1>2 DEF Fills, Moves, Kept
  <2> QED
    BY <1>2, <2>1, <2>2, <2>3 DEF Styled
<1> QED
  BY <1>1, <1>2 DEF ThemesInv

FileStages == {"copy", "insert", "unlink"}

LEMMA FileKept ==
    ASSUME NEW f, FileAt(f), NEW r \in Slots, NEW q, Moves(r, q),
           disk'[f] = disk[f], files'[f] = files[f],
           f \in spoiled => f \in spoiled', f \in crossed => f \in crossed',
           req[r].st \notin FileStages \/ req[r].f # f, q.st \notin FileStages \/ q.f # f,
           \A s \in Slots \ {r} : req[s].st = "copy" /\ req[s].f = f => req'[s].gone = req[s].gone
    PROVE  FileAt(f)'
<1>1. \A s \in Slots : CopiedBy(s, f) => CopiedBy(s, f)'
  BY DEF CopiedBy, Moves, Kept, FileStages
<1>2. \A s \in Slots : Relies(s, f)' => Relies(s, f)
  BY DEF Relies, Moves, Kept, FileStages
<1>3. Unlinking(f)' # {} => Unlinking(f) # {}
  BY DEF Unlinking, Moves, Kept, FileStages
<1> QED
  BY <1>1, <1>2, <1>3 DEF FileAt, Backed, Claimed

LEMMA FilesKept ==
    ASSUME FilesInv, NEW r \in Slots, NEW q, Moves(r, q), UNCHANGED uploads,
           req[r].st \notin FileStages, q.st \notin FileStages,
           \A s \in Slots \ {r} : req[s].st = "copy" => req'[s].gone = req[s].gone
    PROVE  FilesInv'
BY FileKept DEF FilesInv, uploads

LEMMA HomeKept ==
    ASSUME HomeInv, NEW r \in Slots, NEW q, Moves(r, q), UNCHANGED <<shown, frontends>>,
           Announces(req[r]) => Announces(q)
    PROVE  HomeInv'
<1>1. \A s \in Slots : Announces(req[s]) => Announces(req'[s])
  BY DEF Announces, Moves, Kept
<1> QED
  BY <1>1 DEF HomeInv, FollowsAt, Announced, PurgeUnderWay, frontends

(* A change that the request will announce. *)
LEMMA HomeAnnounced ==
    ASSUME HomeInv, NEW r \in Slots, NEW q, Moves(r, q), UNCHANGED frontends, Announces(q)
    PROVE  HomeInv'
<1>1. \A c \in Clients : Announced(c)'
  BY DEF Announced, Moves
<1> QED
  BY <1>1 DEF HomeInv, FollowsAt, frontends

(* A change nobody is told of. *)
LEMMA HomeUnannounced ==
    ASSUME HomeInv, Unannounced(Home)
    PROVE  HomeInv'
<1>1. \A c \in Clients : Announced(c)'
  BY DEF Announced, Unannounced
<1> QED
  BY <1>1 DEF HomeInv, FollowsAt, Unannounced

LEMMA UnannouncedType ==
    ASSUME FrontendsTypeOK, Unannounced(Home), shown' \in [Pages -> Nat \ {0}]
    PROVE  FrontendsTypeOK'
BY SiteAssumption DEF FrontendsTypeOK, Unannounced

LEMMA ChangedType ==
    ASSUME FrontendsTypeOK, Changed(Home) \/ UNCHANGED shown
    PROVE  shown' \in [Pages -> Nat \ {0}]
BY SiteAssumption DEF FrontendsTypeOK, Changed


-----------------------------------------------------------------------------
(* Requests that look and do not touch. *)

LEMMA LoadedType ==
    ASSUME TypeOK, NEW q \in Request, NEW cfg \in Settings
    PROVE  /\ Loaded(q, cfg) \in Request
           /\ Loaded(q, cfg).st = "save" /\ Loaded(q, cfg).op = q.op
           /\ Loaded(q, cfg).theme = q.theme /\ Loaded(q, cfg).cfg = cfg
           /\ ~Loaded(q, cfg).stale => yml.st = "whole"
           /\ ~Loaded(q, cfg).raced => themes[cfg.theme].css = "whole"
BY DEF Loaded, Request, Stages

(* A copy of the settings is what was asked for, but for the key to change. *)
LEMMA LoadSettings ==
    ASSUME State, SettingsInv
    PROVE  /\ Load \in Settings
           /\ \A t \in Themes : [Load EXCEPT !.theme = t] \in Settings /\ [Load EXCEPT !.theme = t].theme = t
           /\ \A s \in {"github", "gitcode"} : [Load EXCEPT !.source = s] \in Settings
           /\ yml.st = "whole" /\ ~mixed =>
                /\ \A op \in {"activate", "drop"}, t \in Themes : OneKey(op, [Load EXCEPT !.theme = t], asked)
                /\ \A s \in {"github", "gitcode"} : OneKey("source", [Load EXCEPT !.source = s], asked)
<1>1. Load \in Settings
  BY SettingsType DEF Load, State, TypeOK
<1>2. \A t \in Themes : [Load EXCEPT !.theme = t] \in Settings /\ [Load EXCEPT !.theme = t].theme = t
  BY <1>1 DEF Settings
<1>3. \A s \in {"github", "gitcode"} : [Load EXCEPT !.source = s] \in Settings
  BY <1>1 DEF Settings
<1>4. ASSUME yml.st = "whole", ~mixed
      PROVE  /\ \A op \in {"activate", "drop"}, t \in Themes : OneKey(op, [Load EXCEPT !.theme = t], asked)
             /\ \A s \in {"github", "gitcode"} : OneKey("source", [Load EXCEPT !.source = s], asked)
  <2>1. Load = asked /\ asked \in Settings
    BY <1>4 DEF SettingsInv, SettingsAsAsked, Load, State, TypeOK
  <2> QED
    BY <2>1 DEF OneKey, Settings
<1> QED
  BY <1>1, <1>2, <1>3, <1>4

LEMMA AsideInv ==
    ASSUME Inv, NEW r \in Slots, NEW q \in Request, req' = [req EXCEPT ![r] = q],
           requests' \in 0 .. MaxRequests,
           UNCHANGED <<shown, frontends, yml, themes, disk, files, listed, ids, crashes, mix, history>>,
           req[r].st \in {"free", "load"}, q.st \in {"free", "save", "load", "delete"},
           q.st \in StagesOf(q.op),
           InHand(q) /\ ~mixed => OneKey(q.op, q.cfg, asked),
           Names(q) => themes[q.cfg.theme].css = "whole",
           \A t : Resets(req[r], t) => Resets(q, t) \/ yml.st # "whole" \/ yml.cfg.theme # t
    PROVE  Inv'
<1>1. Moves(r, q) /\ Alone(r)
  BY Stepped DEF Inv, State
<1>2. TypeOK'
  BY <1>1 DEF Inv, State, TypeOK, FrontendsTypeOK, frontends, history, Moves
<1>3. State'
  BY <1>1, <1>2, StateMoves DEF Inv
<1>4. SettingsInv'
  BY <1>1, SettingsKept DEF Inv, history
<1>5. req[r].op # "install"
  BY AtStage DEF Inv
<1>6. ThemesInv'
  <2>1. \A t : Fills(req[r], t) => Fills(q, t)
    BY <1>5 DEF Fills
  <2>2. \A s \in Slots \ {r} : req[s].op = "install" => req'[s].gone = req[s].gone
    BY <1>1 DEF Alone
  <2> QED
    BY <1>1, <2>1, <2>2, ThemesKept DEF Inv, history
<1>7. FilesInv'
  BY <1>1, FilesKept DEF Inv, history, uploads, FileStages, Alone
<1>8. HomeInv'
  BY <1>1, HomeKept DEF Inv, Announces
<1> QED
  BY <1>3, <1>4, <1>6, <1>7, <1>8 DEF Inv

LEMMA SaveFormInv ==
    ASSUME Inv, NEW r \in Slots, NEW cfg \in Forms, SaveForm(r, cfg)
    PROVE  Inv'
<1> DEFINE x == \E s \in Slots : Holding(s)
           q == [Free EXCEPT !.op = "form", !.st = "save", !.cfg = cfg, !.stale = x]
<1>1. q \in Request /\ q.op = "form" /\ q.st = "save"
  BY FreeType, SiteAssumption DEF Request, Ops, Stages
<1>2. Arrive(r, q)
  BY DEF SaveForm
<1>3. UNCHANGED <<shown, frontends, yml, themes, disk, files, listed, ids, history>>
  BY DEF SaveForm
<1> HIDE DEF q
<1>4. /\ req' = [req EXCEPT ![r] = q] /\ req[r].st = "free" /\ req[r].op = ""
      /\ requests' \in 0 .. MaxRequests /\ UNCHANGED <<crashes, mix>>
  BY <1>1, <1>2, Arrivals DEF Inv
<1> QED
  BY <1>1, <1>3, <1>4, AsideInv DEF StagesOf, InHand, Names, Resets

LEMMA SetSourceInv ==
    ASSUME Inv, NEW r \in Slots, NEW source \in {"github", "gitcode"}, SetSource(r, source)
    PROVE  Inv'
<1> DEFINE p == [Free EXCEPT !.op = "source"]
           cfg == [Load EXCEPT !.source = source]
           q == Loaded(p, cfg)
<1>1. p \in Request /\ p.op = "source"
  BY FreeType DEF Request, Ops
<1>2. /\ cfg \in Settings
      /\ yml.st = "whole" /\ ~mixed => OneKey("source", cfg, asked)
  BY LoadSettings DEF Inv
<1>3. Arrive(r, q)
  BY DEF SetSource
<1>4. UNCHANGED <<shown, frontends, yml, themes, disk, files, listed, ids, history>>
  BY DEF SetSource
<1> HIDE DEF p, cfg
<1>5. /\ q \in Request /\ q.st = "save" /\ q.op = "source" /\ q.cfg = cfg
      /\ ~q.stale => yml.st = "whole"
      /\ ~q.raced => themes[cfg.theme].css = "whole"
  BY <1>1, <1>2, LoadedType DEF Inv, State
<1> HIDE DEF q
<1>6. /\ req' = [req EXCEPT ![r] = q] /\ req[r].st = "free" /\ req[r].op = ""
      /\ requests' \in 0 .. MaxRequests /\ UNCHANGED <<crashes, mix>>
  BY <1>3, <1>5, Arrivals DEF Inv
<1> QED
  BY <1>2, <1>4, <1>5, <1>6, AsideInv DEF StagesOf, InHand, Names, Resets

LEMMA ActivateInv ==
    ASSUME Inv, NEW r \in Slots, NEW t \in Themes, Activate(r, t)
    PROVE  Inv'
<1> DEFINE q == [Free EXCEPT !.op = "activate", !.st = "load", !.theme = t]
<1>1. q \in Request /\ q.op = "activate" /\ q.st = "load"
  BY FreeType DEF Request, Ops, Stages
<1>2. Arrive(r, q)
  BY DEF Activate
<1>3. UNCHANGED <<shown, frontends, yml, themes, disk, files, listed, ids, history>>
  BY DEF Activate
<1> HIDE DEF q
<1>4. /\ req' = [req EXCEPT ![r] = q] /\ req[r].st = "free" /\ req[r].op = ""
      /\ requests' \in 0 .. MaxRequests /\ UNCHANGED <<crashes, mix>>
  BY <1>1, <1>2, Arrivals DEF Inv
<1> QED
  BY <1>1, <1>3, <1>4, AsideInv DEF StagesOf, InHand, Names, Resets

(* A request that stops where it is. *)
LEMMA DoneInv ==
    ASSUME Inv, NEW r \in Slots, Done(r), req[r].st = "load",
           UNCHANGED <<shown, frontends, yml, themes, disk, files, listed, ids, history>>,
           \A t : Resets(req[r], t) => yml.st # "whole" \/ yml.cfg.theme # t
    PROVE  Inv'
<1>1. req' = [req EXCEPT ![r] = Free] /\ requests' \in 0 .. MaxRequests /\ UNCHANGED <<crashes, mix>>
  BY DEF Done, Step, Inv, State, TypeOK
<1> QED
  BY <1>1, FreeType, AsideInv DEF StagesOf, InHand, Names

LEMMA LoadToActivateInv ==
    ASSUME Inv, NEW r \in Slots, LoadToActivate(r)
    PROVE  Inv'
<1>1. /\ req[r].op = "activate" /\ req[r].st = "load"
      /\ UNCHANGED <<shown, frontends, yml, themes, disk, files, listed, ids, history>>
  BY DEF LoadToActivate
<1>2. CASE Readable
  <2> DEFINE p == req[r]
             cfg == [Load EXCEPT !.theme = p.theme]
             q == Loaded(p, cfg)
  <2>1. p \in Request /\ p.op = "activate" /\ p.theme \in Themes
    BY <1>1 DEF Inv, State, TypeOK, Request
  <2>2. /\ cfg \in Settings
        /\ yml.st = "whole" /\ ~mixed => OneKey("activate", cfg, asked)
    BY <2>1, LoadSettings DEF Inv
  <2>3. Step(r, q)
    BY <1>2 DEF LoadToActivate
  <2> HIDE DEF cfg
  <2>4. /\ q \in Request /\ q.st = "save" /\ q.op = "activate" /\ q.cfg = cfg
        /\ ~q.stale => yml.st = "whole"
        /\ ~q.raced => themes[cfg.theme].css = "whole"
    BY <2>1, <2>2, LoadedType DEF Inv, State
  <2> HIDE DEF q
  <2>5. req' = [req EXCEPT ![r] = q] /\ requests' \in 0 .. MaxRequests /\ UNCHANGED <<crashes, mix>>
    BY <2>3 DEF Step, Inv, State, TypeOK
  <2> QED
    BY <1>1, <2>2, <2>4, <2>5, AsideInv DEF StagesOf, InHand, Names, Resets
<1>3. CASE ~Readable
  <2>1. Done(r)
    BY <1>3 DEF LoadToActivate
  <2> QED
    BY <1>1, <2>1, DoneInv DEF Resets
<1> QED
  BY <1>2, <1>3

LEMMA LoadToResetInv ==
    ASSUME Inv, NEW r \in Slots, LoadToReset(r)
    PROVE  Inv'
<1>1. /\ req[r].op = "drop" /\ req[r].st = "load"
      /\ UNCHANGED <<shown, frontends, yml, themes, disk, files, listed, ids, history>>
  BY DEF LoadToReset
<1>2. CASE Readable /\ Load.theme = req[r].theme
  <2> DEFINE p == req[r]
             cfg == [Load EXCEPT !.theme = Sunset]
             q == Loaded(p, cfg)
  <2>1. p \in Request /\ p.op = "drop"
    BY <1>1 DEF Inv, State, TypeOK
  <2>2. /\ cfg \in Settings
        /\ yml.st = "whole" /\ ~mixed => OneKey("drop", cfg, asked)
    BY SettingsType, LoadSettings DEF Inv
  <2>3. Step(r, q)
    BY <1>2 DEF LoadToReset
  <2> HIDE DEF cfg
  <2>4. /\ q \in Request /\ q.st = "save" /\ q.op = "drop" /\ q.cfg = cfg /\ q.theme = req[r].theme
        /\ ~q.stale => yml.st = "whole"
        /\ ~q.raced => themes[cfg.theme].css = "whole"
    BY <2>1, <2>2, LoadedType DEF Inv, State
  <2> HIDE DEF q
  <2>5. req' = [req EXCEPT ![r] = q] /\ requests' \in 0 .. MaxRequests /\ UNCHANGED <<crashes, mix>>
    BY <2>3 DEF Step, Inv, State, TypeOK
  <2>6. \A t : Resets(req[r], t) => Resets(q, t)
    BY <2>4 DEF Resets
  <2> QED
    BY <1>1, <2>2, <2>4, <2>5, <2>6, AsideInv DEF StagesOf, InHand, Names
<1>3. CASE ~(Readable /\ Load.theme = req[r].theme)
  <2>1. Done(r)
    BY <1>3 DEF LoadToReset
  <2>2. yml.st # "whole" \/ yml.cfg.theme # req[r].theme
    BY <1>3 DEF Readable, Load
  <2> QED
    BY <1>1, <2>1, <2>2, DoneInv DEF Resets
<1> QED
  BY <1>2, <1>3

-----------------------------------------------------------------------------
(* The saves *)

LEMMA HeldMoves ==
    ASSUME TypeOK, NEW r \in Slots, NEW q \in Request,
           req' = [s \in Slots |-> IF s = r THEN q
                                   ELSE IF Holding(s) THEN [req[s] EXCEPT !.stale = TRUE] ELSE req[s]]
    PROVE  /\ Moves(r, q)
           /\ \A s \in Slots \ {r} : ~InHand(req'[s]) /\ req'[s].gone = req[s].gone
<1>1. \A s \in Slots : req[s] \in Request
  BY DEF TypeOK
<1>2. ASSUME NEW s \in Slots \ {r}
      PROVE  /\ req'[s] \in Request /\ Kept(req[s], req'[s])
             /\ ~InHand(req'[s]) /\ req'[s].gone = req[s].gone
  <2>1. CASE Holding(s)
    <3>1. req'[s] = [req[s] EXCEPT !.stale = TRUE]
      BY <2>1
    <3> QED
      BY <1>1, <3>1 DEF Request, Kept, InHand
  <2>2. CASE ~Holding(s)
    <3>1. req'[s] = req[s]
      BY <2>2
    <3> QED
      BY <1>1, <2>2, <3>1 DEF Kept, InHand, Holding
  <2> QED
    BY <2>1, <2>2
<1>3. req'[r] = q
  OBVIOUS
<1>4. req' \in [Slots -> Request]
  BY <1>1 DEF Request
<1> QED
  BY <1>2, <1>3, <1>4 DEF Moves

(* What a save shows, it announces, or nobody is told. *)
LEMMA SavedHome ==
    ASSUME State, HomeInv, NEW r \in Slots, NEW q, Moves(r, q), NEW y, ShowsFrom(y), Quiet(r),
           req[r].st \in {"save", "write"}, req[r].op \in Purging => Announces(q)
    PROVE  HomeInv' /\ FrontendsTypeOK'
<1>1. shown' \in [Pages -> Nat \ {0}]
  BY ChangedType DEF ShowsFrom, State, TypeOK
<1>2. CASE Unannounced(Home)
  BY <1>1, <1>2, HomeUnannounced, UnannouncedType DEF State, TypeOK
<1>3. CASE UNCHANGED frontends
  <2>1. FrontendsTypeOK'
    BY <1>1, <1>3 DEF State, TypeOK, FrontendsTypeOK, frontends
  <2>2. CASE req[r].op \in Purging
    BY <1>3, <2>1, <2>2, HomeAnnounced
  <2>3. CASE req[r].op \notin Purging /\ UNCHANGED shown
    BY <1>3, <2>1, <2>3, HomeKept DEF Announces
  <2>4. CASE req[r].op \notin Purging /\ shown' # shown
    BY <1>1, <2>4, HomeUnannounced, UnannouncedType DEF Quiet, State, TypeOK
  <2> QED
    BY <2>2, <2>3, <2>4
<1> QED
  BY <1>2, <1>3 DEF Quiet

LEMMA TruncateInv ==
    ASSUME Inv, NEW r \in Slots, Truncate(r)
    PROVE  Inv'
<1> DEFINE q == [req[r] EXCEPT !.st = "write"]
<1>1. /\ req[r].st = "save" /\ yml' = [yml EXCEPT !.st = "empty"]
      /\ UNCHANGED <<requests, crashes, mix, themes, disk, files, listed, ids, history>>
      /\ ShowsFrom(yml') /\ Quiet(r)
  BY DEF Truncate
<1>2. req' = [s \in Slots |-> IF s = r THEN q
                              ELSE IF Holding(s) THEN [req[s] EXCEPT !.stale = TRUE] ELSE req[s]]
  BY DEF Truncate
<1>3. /\ q \in Request /\ q.st = "write" /\ q.op = req[r].op /\ q.cfg = req[r].cfg
      /\ q.stale = req[r].stale /\ q.raced = req[r].raced
  <2>1. req[r] \in Request
    BY DEF Inv, State, TypeOK
  <2> QED
    BY <2>1 DEF Request, Stages
<1>4. req[r].op \in {"form", "source", "activate", "drop"}
  BY <1>1, AtStage DEF Inv
<1> HIDE DEF q
<1>5. Moves(r, q) /\ \A s \in Slots \ {r} : ~InHand(req'[s]) /\ req'[s].gone = req[s].gone
  BY <1>2, <1>3, HeldMoves DEF Inv, State
<1>6. HomeInv' /\ FrontendsTypeOK'
  <2>1. req[r].op \in Purging => Announces(q)
    BY <1>3 DEF Announces
  <2>2. PICK y : y = yml'
    OBVIOUS
  <2> QED
    BY <1>1, <1>5, <2>1, <2>2, SavedHome DEF Inv
<1>7. yml'.st = "empty" /\ yml' \in [st : {"empty", "torn", "whole"}, cfg : Settings]
  BY <1>1 DEF Inv, State, TypeOK
<1>8. TypeOK'
  BY <1>1, <1>5, <1>6, <1>7 DEF Inv, State, TypeOK, history, Moves
<1>9. State'
  BY <1>3, <1>4, <1>5, <1>8, StateMoves DEF Inv, StagesOf
<1>10. SettingsInv'
  <2>1. ASSUME ~mixed, NEW s \in Slots, InHand(req'[s]) PROVE OneKey(req'[s].op, req'[s].cfg, asked)
    <3>1. s = r
      BY <1>5, <2>1
    <3>2. InHand(req[r])
      BY <1>1, <1>3, <1>5, <2>1, <3>1 DEF InHand, Moves
    <3> QED
      BY <1>3, <1>5, <2>1, <3>1, <3>2 DEF Inv, SettingsInv, Moves
  <2>2. UNCHANGED <<asked, mixed>>
    BY <1>1 DEF history
  <2> QED
    BY <1>7, <2>1, <2>2 DEF SettingsInv, SettingsAsAsked, InHand
<1>11. ThemesInv'
  <2>1. ASSUME NEW s \in Slots, Names(req'[s]) PROVE themes[req'[s].cfg.theme].css = "whole"
    <3>1. Names(req[s]) /\ req'[s].cfg = req[s].cfg
      BY <1>1, <1>3, <1>5, <2>1 DEF Names, Moves, Kept
    <3> QED
      BY <3>1 DEF Inv, ThemesInv
  <2>2. UNCHANGED themes
    BY <1>1
  <2> QED
    BY <1>7, <2>1, <2>2 DEF ThemesInv, Names
<1>12. FilesInv'
  BY <1>1, <1>3, <1>5, FilesKept DEF Inv, history, uploads, FileStages
<1> QED
  BY <1>6, <1>9, <1>10, <1>11, <1>12 DEF Inv

LEMMA WriteInv ==
    ASSUME Inv, NEW r \in Slots, Write(r)
    PROVE  Inv'
<1>1. PICK q : q = IF req[r].op \in Purging THEN [req[r] EXCEPT !.st = "purge"] ELSE Free
  OBVIOUS
<1>2. /\ req[r].st = "write"
      /\ UNCHANGED <<requests, crashes, mix, themes, disk, files, listed, ids, spoiled, crossed>>
      /\ ShowsFrom(yml') /\ Quiet(r)
      /\ yml'.cfg = req[r].cfg
      /\ asked' = Asked(req[r])
      /\ mixed' = IF req[r].op = "form" THEN req[r].stale ELSE mixed \/ req[r].stale
      /\ excused' = IF themes[req[r].cfg.theme].css # "whole" /\ (req[r].op = "form" \/ req[r].raced)
                    THEN excused \cup {req[r].cfg.theme} ELSE excused
  BY DEF Write
<1>3. yml' \in [st : {"empty", "torn", "whole"}, cfg : Settings]
  <2>1. yml' \in {[st |-> "whole", cfg |-> req[r].cfg], [st |-> "torn", cfg |-> req[r].cfg]}
    BY DEF Write
  <2>2. req[r].cfg \in Settings
    BY DEF Inv, State, TypeOK, Request
  <2> QED
    BY <2>1, <2>2
<1>4. req' = [s \in Slots |-> IF s = r THEN q
                              ELSE IF Holding(s) THEN [req[s] EXCEPT !.stale = TRUE] ELSE req[s]]
  BY <1>1 DEF Write
<1>5. /\ req[r].op \in {"form", "source", "activate", "drop"} /\ req[r] \in Request
      /\ req[r].cfg \in Settings /\ req[r].cfg.theme \in Themes
  BY <1>2, AtStage DEF Inv, Request, Settings
<1>6. /\ q \in Request /\ q.st \in {"purge", "free"} /\ q.st \in StagesOf(q.op)
      /\ req[r].op \in Purging => q.st = "purge"
  <2>1. CASE req[r].op \in Purging
    <3>1. q = [req[r] EXCEPT !.st = "purge"]
      BY <1>1, <2>1
    <3>2. q \in Request /\ q.st = "purge" /\ q.op = req[r].op
      BY <1>5, <3>1 DEF Request, Stages
    <3> QED
      BY <2>1, <3>2 DEF StagesOf, Purging
  <2>2. CASE req[r].op \notin Purging
    BY <1>1, <2>2, FreeType DEF StagesOf
  <2> QED
    BY <2>1, <2>2
<1>7. Moves(r, q) /\ \A s \in Slots \ {r} : ~InHand(req'[s]) /\ req'[s].gone = req[s].gone
  BY <1>4, <1>6, HeldMoves DEF Inv, State
<1>8. HomeInv' /\ FrontendsTypeOK'
  <2>1. req[r].op \in Purging => Announces(q)
    BY <1>6 DEF Announces
  <2>2. PICK y : y = yml'
    OBVIOUS
  <2> QED
    BY <1>2, <1>7, <2>1, <2>2, SavedHome DEF Inv
<1>9. /\ asked' \in Settings
      /\ req[r].op = "form" => asked' = req[r].cfg
      /\ req[r].op # "form" /\ OneKey(req[r].op, req[r].cfg, asked) => asked' = req[r].cfg
  BY <1>2, <1>5 DEF Asked, OneKey, Settings, Inv, State, TypeOK
<1>10. mixed' \in BOOLEAN /\ excused' \subseteq Themes
  BY <1>2, <1>5 DEF Inv, State, TypeOK, Request
<1>11. TypeOK'
  BY <1>2, <1>3, <1>7, <1>8, <1>9, <1>10 DEF Inv, State, TypeOK, Moves
<1>12. State'
  BY <1>6, <1>7, <1>11, StateMoves DEF Inv
<1>13. SettingsInv'
  <2>1. \A s \in Slots : ~InHand(req'[s])
    BY <1>6, <1>7 DEF InHand, Moves
  <2>2. ASSUME ~mixed' PROVE asked' = req[r].cfg
    <3>1. CASE req[r].op = "form"
      BY <1>9, <3>1
    <3>2. CASE req[r].op # "form"
      <4>1. ~mixed /\ InHand(req[r])
        BY <1>2, <2>2, <3>2 DEF InHand
      <4> QED
        BY <1>9, <3>2, <4>1 DEF Inv, SettingsInv
    <3> QED
      BY <3>1, <3>2
  <2> QED
    BY <1>2, <2>1, <2>2 DEF SettingsInv, SettingsAsAsked, InHand
<1>14. ThemesInv'
  <2>1. ASSUME NEW s \in Slots, Names(req'[s]) PROVE themes[req'[s].cfg.theme].css = "whole"
    <3>1. Names(req[s]) /\ req'[s].cfg = req[s].cfg
      BY <1>6, <1>7, <2>1 DEF Names, Moves, Kept
    <3> QED
      BY <3>1 DEF Inv, ThemesInv
  <2>2. ASSUME req[r].cfg.theme \notin excused' PROVE themes[req[r].cfg.theme].css = "whole"
    <3>1. CASE req[r].op = "form" \/ req[r].raced
      BY <1>2, <2>2, <3>1
    <3>2. CASE req[r].op # "form" /\ ~req[r].raced
      BY <1>2, <3>2 DEF Inv, ThemesInv, Names
    <3> QED
      BY <3>1, <3>2
  <2>3. UNCHANGED themes
    BY <1>2
  <2> QED
    BY <1>2, <2>1, <2>2, <2>3 DEF ThemesInv, Names, Styled
<1>15. FilesInv'
  BY <1>2, <1>6, <1>7, FilesKept DEF Inv, uploads, FileStages
<1> QED
  BY <1>8, <1>12, <1>13, <1>14, <1>15 DEF Inv

LEMMA WriteFailsInv ==
    ASSUME Inv, NEW r \in Slots, WriteFails(r)
    PROVE  Inv'
<1>1. /\ req[r].st = "write" /\ req' = [req EXCEPT ![r] = Free] /\ mixed'
      /\ UNCHANGED <<requests, crashes, mix, themes, disk, files, listed, ids, asked, excused, spoiled, crossed>>
      /\ ShowsFrom(yml') /\ Unannounced(Home)
  BY DEF WriteFails, Done, Step
<1>2. /\ yml' \in [st : {"empty", "torn", "whole"}, cfg : Settings]
      /\ yml'.st = "whole" => yml' = yml
  <2>1. yml' \in {yml, [yml EXCEPT !.st = "torn"]}
    BY DEF WriteFails
  <2> QED
    BY <2>1 DEF Inv, State, TypeOK
<1>3. Moves(r, Free) /\ Alone(r)
  BY <1>1, FreeType, Stepped DEF Inv, State
<1>4. HomeInv' /\ FrontendsTypeOK'
  <2>1. shown' \in [Pages -> Nat \ {0}]
    BY <1>1, ChangedType DEF ShowsFrom, Inv, State, TypeOK
  <2> QED
    BY <1>1, <2>1, HomeUnannounced, UnannouncedType DEF Inv, State, TypeOK
<1>5. TypeOK'
  BY <1>1, <1>2, <1>3, <1>4 DEF WriteFails, Inv, State, TypeOK, Moves
<1>6. State'
  BY <1>3, <1>5, FreeType, StateMoves DEF Inv, StagesOf
<1>7. SettingsInv'
  BY <1>1 DEF SettingsInv, SettingsAsAsked
<1>8. ThemesInv'
  <2>1. req[r].op # "install"
    BY <1>1, AtStage DEF Inv
  <2>2. \A t : ~Fills(req[r], t) /\ ~Resets(req[r], t)
    BY <1>1, <2>1 DEF Fills, Resets
  <2>3. ~Names(Free)
    BY FreeType DEF Names
  <2> QED
    BY <1>1, <1>2, <1>3, <2>2, <2>3, ThemesKept DEF Inv, Alone
<1>9. FilesInv'
  BY <1>1, <1>3, FreeType, FilesKept DEF Inv, uploads, FileStages, Alone
<1> QED
  BY <1>4, <1>6, <1>7, <1>8, <1>9 DEF Inv

LEMMA PurgeInv ==
    ASSUME Inv, NEW r \in Slots, Purge(r)
    PROVE  Inv'
<1>1. /\ req[r].st = "purge" /\ req' = [req EXCEPT ![r] = Free] /\ Revalidate(Home)
      /\ UNCHANGED <<requests, crashes, mix, shown, yml, themes, disk, files, listed, ids, history>>
  BY DEF Purge, Done, Step
<1>2. Moves(r, Free) /\ Alone(r)
  BY <1>1, FreeType, Stepped DEF Inv, State
<1>3. FrontendsTypeOK' /\ \A c \in Clients : purges'[c][Home] > 0
  <2>1. \A c \in Clients : purges[c] \in [Pages -> Nat]
    BY DEF Inv, State, TypeOK, FrontendsTypeOK
  <2>2. purges' = [c \in Clients |-> [purges[c] EXCEPT ![Home] = @ + 1]]
    BY <1>1 DEF Revalidate
  <2>3. \A c \in Clients : purges'[c] \in [Pages -> Nat] /\ purges'[c][Home] > 0
    BY <2>1, <2>2, SiteAssumption
  <2> QED
    BY <1>1, <2>2, <2>3 DEF Revalidate, Inv, State, TypeOK, FrontendsTypeOK
<1>4. HomeInv'
  <2>1. \A c \in Clients : Announced(c)'
    BY <1>3 DEF Announced, PurgeUnderWay
  <2> QED
    BY <1>1, <2>1 DEF Inv, HomeInv, FollowsAt, Revalidate
<1>5. TypeOK'
  BY <1>1, <1>2, <1>3 DEF Inv, State, TypeOK, history, Moves
<1>6. State'
  BY <1>2, <1>5, FreeType, StateMoves DEF Inv, StagesOf
<1>7. SettingsInv'
  BY <1>1, <1>2, FreeType, SettingsKept DEF Inv, history, InHand
<1>8. ThemesInv'
  <2>1. req[r].op # "install"
    BY <1>1, AtStage DEF Inv
  <2>2. \A t : ~Fills(req[r], t) /\ ~Resets(req[r], t)
    BY <1>1, <2>1 DEF Fills, Resets
  <2>3. ~Names(Free)
    BY FreeType DEF Names
  <2> QED
    BY <1>1, <1>2, <2>2, <2>3, ThemesKept DEF Inv, Alone, history
<1>9. FilesInv'
  BY <1>1, <1>2, FreeType, FilesKept DEF Inv, uploads, history, FileStages, Alone
<1> QED
  BY <1>4, <1>6, <1>7, <1>8, <1>9 DEF Inv

-----------------------------------------------------------------------------
(* Themes *)

ThemeType == [yaml : BOOLEAN, css : {"nodir", "none", "empty", "part", "whole"}]

(* A step that touches themes and a request at most says nothing of the rest. *)
LEMMA ThemeStep ==
    ASSUME Inv, NEW r \in Slots, NEW q \in Request, Moves(r, q),
           requests' \in 0 .. MaxRequests,
           UNCHANGED <<shown, frontends, yml, disk, files, listed, ids, crashes, mix, asked, mixed, spoiled, crossed>>,
           themes' \in [Themes -> ThemeType],
           excused' \subseteq Themes,
           req[r].op \in {"", "install", "drop"}, req[r].st \in {"free", "rest", "static", "css", "fill"},
           q.op \in {"", "install", "drop"}, q.st \in {"free", "rest", "static", "load", "css", "fill"},
           q.st \in StagesOf(q.op),
           \A s \in Slots \ {r} : req[s].op # "install" => req'[s].gone = req[s].gone,
           ThemesInv'
    PROVE  Inv'
<1>1. TypeOK'
  BY DEF Inv, State, TypeOK, FrontendsTypeOK, frontends, Moves, ThemeType
<1>2. State'
  BY <1>1, StateMoves DEF Inv
<1>3. SettingsInv'
  BY SettingsKept DEF Inv, InHand
<1>4. FilesInv'
  <2>1. ASSUME NEW s \in Slots \ {r}, req[s].st = "copy" PROVE req'[s].gone = req[s].gone
    <3>1. req[s].op = "upload"
      BY <2>1, AtStage DEF Inv
    <3> QED
      BY <3>1
  <2> QED
    BY <2>1, FilesKept DEF Inv, uploads, FileStages
<1>5. HomeInv'
  BY HomeKept DEF Inv, Announces
<1> QED
  BY <1>2, <1>3, <1>4, <1>5 DEF Inv

LEMMA StyledKept ==
    ASSUME NEW r \in Slots, NEW q, Moves(r, q), NEW t, Styled(t),
           themes[t].css = "whole" => themes'[t].css = "whole",
           themes[t].css # "nodir" => themes'[t].css # "nodir",
           \A s \in Slots \ {r} : req[s].op = "install" /\ req[s].theme = t => req'[s].gone = req[s].gone,
           themes[t].css # "nodir" /\ Fills(req[r], t) => Fills(q, t),
           Resets(req[r], t) => Resets(q, t)
    PROVE  themes'[t].css = "whole"
           \/ (\E s \in Slots : Resets(req'[s], t))
           \/ (themes'[t].css # "nodir" /\ \E s \in Slots : Fills(req'[s], t))
<1>1. CASE themes[t].css = "whole"
  BY <1>1
<1>2. CASE \E s \in Slots : Resets(req[s], t)
  <2>1. PICK s \in Slots : Resets(req[s], t)
    BY <1>2
  <2>2. Resets(req'[s], t)
    BY <2>1 DEF Moves, Kept, Resets
  <2> QED
    BY <2>2
<1>3. CASE themes[t].css # "nodir" /\ \E s \in Slots : Fills(req[s], t)
  <2>1. PICK s \in Slots : Fills(req[s], t)
    BY <1>3
  <2>2. CASE s = r
    BY <1>3, <2>1, <2>2 DEF Moves
  <2>3. CASE s # r
    <3>1. Fills(req'[s], t)
      BY <2>1, <2>3 DEF Moves, Kept, Fills
    <3> QED
      BY <1>3, <3>1
  <2> QED
    BY <2>2, <2>3
<1> QED
  BY <1>1, <1>2, <1>3 DEF Styled

(* Those about to name a theme hear of it when its stylesheet goes. *)
Hears(p, q, t, hit) ==
    q = IF p.op = hit /\ p.theme = t THEN [p EXCEPT !.gone = TRUE]
        ELSE IF t \in {p.theme, p.cfg.theme} THEN [p EXCEPT !.raced = TRUE] ELSE p
OnSlots(f) == f = [s \in Slots |-> f[s]]

LEMMA RacedMoves ==
    ASSUME State, NEW r \in Slots, NEW q \in Request, NEW t, NEW hit \in {"install", "none"},
           OnSlots(req'), req'[r] = q, \A s \in Slots \ {r} : Hears(req[s], req'[s], t, hit)
    PROVE  /\ Moves(r, q)
           /\ \A s \in Slots \ {r} :
                /\ Names(req'[s]) => Names(req[s]) /\ req[s].cfg.theme # t
                /\ req[s].op # hit \/ req[s].theme # t => req'[s].gone = req[s].gone
<1>1. \A s \in Slots : req[s] \in Request
  BY DEF State, TypeOK
<1>2. ASSUME NEW s \in Slots \ {r}
      PROVE  /\ req'[s] \in Request /\ Kept(req[s], req'[s])
             /\ Names(req'[s]) => Names(req[s]) /\ req[s].cfg.theme # t
             /\ req[s].op # hit \/ req[s].theme # t => req'[s].gone = req[s].gone
  <2>1. CASE req[s].op = hit /\ req[s].theme = t
    <3>1. req'[s] = [req[s] EXCEPT !.gone = TRUE]
      BY <2>1 DEF Hears
    <3>2. req'[s] \in Request /\ Kept(req[s], req'[s])
      BY <1>1, <3>1 DEF Request, Kept
    <3>3. ~Names(req'[s])
      BY <2>1, <3>2, AtStage DEF Kept, Names
    <3> QED
      BY <2>1, <3>2, <3>3
  <2>2. CASE ~(req[s].op = hit /\ req[s].theme = t) /\ t \in {req[s].theme, req[s].cfg.theme}
    <3>1. req'[s] = [req[s] EXCEPT !.raced = TRUE]
      BY <2>2 DEF Hears
    <3> QED
      BY <1>1, <3>1 DEF Request, Kept, Names
  <2>3. CASE ~(req[s].op = hit /\ req[s].theme = t) /\ t \notin {req[s].theme, req[s].cfg.theme}
    <3>1. req'[s] = req[s]
      BY <2>3 DEF Hears
    <3> QED
      BY <1>1, <2>3, <3>1 DEF Kept
  <2> QED
    BY <2>1, <2>2, <2>3
<1>3. req'[r] = q
  OBVIOUS
<1>4. req' \in [Slots -> Request]
  <2>1. \A s \in Slots : req'[s] \in Request
    BY <1>2, <1>3
  <2> QED
    BY <2>1 DEF OnSlots
<1> QED
  BY <1>2, <1>3, <1>4 DEF Moves

(* The stylesheet goes, and a request sees to it or the theme is excused. *)
LEMMA WithoutCSSInv ==
    ASSUME Inv, NEW r \in Slots, NEW t \in Themes, NEW q \in Request,
           req' = WithoutCSS(r, q, t), themes' = [themes EXCEPT ![t].css = "nodir"],
           UNCHANGED <<shown, frontends, yml, disk, files, listed, ids, crashes, mix, asked, mixed, spoiled, crossed>>,
           requests' \in 0 .. MaxRequests,
           excused \subseteq excused', excused' \subseteq Themes,
           req[r].op \in {"", "drop"}, req[r].st \in {"free", "static"},
           q.op \in {"", "drop"}, q.st \in {"free", "rest", "load"}, q.st \in StagesOf(q.op),
           Resets(q, t) \/ t \in excused',
           \A u : Resets(req[r], u) => u = t
    PROVE  Inv'
<1>1. OnSlots(req') /\ req'[r] = q /\ \A s \in Slots \ {r} : Hears(req[s], req'[s], t, "install")
  BY DEF WithoutCSS, OnSlots, Hears
<1>2. /\ Moves(r, q)
      /\ \A s \in Slots \ {r} :
           /\ Names(req'[s]) => Names(req[s]) /\ req[s].cfg.theme # t
           /\ req[s].op # "install" \/ req[s].theme # t => req'[s].gone = req[s].gone
  BY <1>1, RacedMoves DEF Inv
<1>3. /\ themes' \in [Themes -> ThemeType]
      /\ \A u \in Themes \ {t} : themes'[u] = themes[u]
  BY DEF Inv, State, TypeOK, ThemeType
<1>4. ThemesInv'
  <2>1. ASSUME NEW s \in Slots, Names(req'[s]) PROVE themes'[req'[s].cfg.theme].css = "whole"
    <3>1. s # r
      BY <1>2, <2>1 DEF Moves, Names
    <3>2. Names(req[s]) /\ req'[s].cfg.theme # t /\ req'[s].cfg = req[s].cfg
      BY <1>2, <2>1, <3>1 DEF Moves, Kept
    <3>3. req'[s].cfg.theme \in Themes
      BY <1>2 DEF Moves, Request, Settings
    <3> QED
      BY <1>3, <3>2, <3>3 DEF Inv, ThemesInv
  <2>2. ASSUME yml.st = "whole", yml.cfg.theme \notin excused' PROVE Styled(yml.cfg.theme)'
    <3>1. CASE yml.cfg.theme = t
      <4>1. Resets(req'[r], t)
        BY <1>2, <2>2, <3>1 DEF Moves
      <4> QED
        BY <3>1, <4>1 DEF Styled
    <3>2. CASE yml.cfg.theme # t
      <4>1. Styled(yml.cfg.theme) /\ yml.cfg.theme \in Themes
        BY <2>2 DEF Inv, ThemesInv, State, TypeOK, Settings
      <4>2. themes'[yml.cfg.theme] = themes[yml.cfg.theme]
        BY <1>3, <3>2, <4>1
      <4>3. ~Fills(req[r], yml.cfg.theme) /\ ~Resets(req[r], yml.cfg.theme)
        BY <3>2 DEF Fills
      <4>4. PICK u : u = yml.cfg.theme
        OBVIOUS
      <4> QED
        BY <1>2, <3>2, <4>1, <4>2, <4>3, <4>4, StyledKept DEF Styled
    <3> QED
      BY <3>1, <3>2
  <2> QED
    BY <2>1, <2>2 DEF ThemesInv
<1>5. \A s \in Slots \ {r} : req[s].op # "install" => req'[s].gone = req[s].gone
  BY <1>2
<1> QED
  BY <1>2, <1>3, <1>4, <1>5, ThemeStep

LEMMA DropThemeInv ==
    ASSUME Inv, NEW r \in Slots, NEW t \in Themes, DropTheme(r, t)
    PROVE  Inv'
<1>1. PICK q : q = [Free EXCEPT !.op = "drop", !.st = "rest", !.theme = t]
  OBVIOUS
<1>2. /\ req[r].st = "free" /\ requests < MaxRequests /\ requests' = requests + 1
      /\ req' = WithoutCSS(r, q, t) /\ themes' = [themes EXCEPT ![t].css = "nodir"]
      /\ UNCHANGED <<shown, frontends, yml, disk, files, listed, ids, crashes, mix, history>>
  BY <1>1 DEF DropTheme
<1>3. /\ q \in Request /\ q.op = "drop" /\ q.st = "rest"
      /\ q.st \in StagesOf(q.op) /\ Resets(q, t)
  BY <1>1, FreeType DEF Request, Ops, Stages, StagesOf, Resets
<1>4. req[r].op = ""
  <2>1. req[r].st \in StagesOf(req[r].op) /\ req[r].op \in Ops
    BY DEF Inv, State, TypeOK, Request
  <2> QED
    BY <1>2, <2>1 DEF StagesOf, Ops
<1>5. requests' \in 0 .. MaxRequests /\ excused' \subseteq Themes
  BY <1>2, SiteAssumption DEF Inv, State, TypeOK, history
<1>6. UNCHANGED <<asked, mixed, excused, spoiled, crossed>>
  BY <1>2 DEF history
<1>7. \A u : ~Resets(req[r], u)
  BY <1>4 DEF Resets
<1> QED
  BY <1>2, <1>3, <1>4, <1>5, <1>6, <1>7, WithoutCSSInv

(* When themes keep their stylesheets, or get more. *)
LEMMA ThemesMove ==
    ASSUME Inv, NEW r \in Slots, NEW q, Moves(r, q), Alone(r), UNCHANGED yml, ~Names(q),
           \A t \in Themes : /\ themes[t].css = "whole" => themes'[t].css = "whole"
                             /\ themes[t].css # "nodir" => themes'[t].css # "nodir",
           \A t \in Themes : \/ (Fills(req[r], t) => Fills(q, t)) /\ (Resets(req[r], t) => Resets(q, t))
                                /\ (t \in excused => t \in excused')
                             \/ t \in excused'
                             \/ themes'[t].css = "whole"
    PROVE  ThemesInv'
<1>1. ASSUME NEW s \in Slots, Names(req'[s]) PROVE themes'[req'[s].cfg.theme].css = "whole"
  <2>1. s # r /\ req'[s] = req[s]
    BY <1>1 DEF Moves, Alone
  <2>2. req[s].cfg.theme \in Themes
    BY DEF Inv, State, TypeOK, Request, Settings
  <2> QED
    BY <1>1, <2>1, <2>2 DEF Inv, ThemesInv
<1>2. ASSUME yml.st = "whole", yml.cfg.theme \notin excused' PROVE Styled(yml.cfg.theme)'
  <2>1. PICK t : t = yml.cfg.theme
    OBVIOUS
  <2>2. t \in Themes
    BY <2>1 DEF Inv, State, TypeOK, Settings
  <2>3. CASE themes'[t].css = "whole"
    BY <2>1, <2>3 DEF Styled
  <2>4. CASE themes'[t].css # "whole"
    <3>1. /\ Fills(req[r], t) => Fills(q, t)
          /\ Resets(req[r], t) => Resets(q, t)
          /\ t \notin excused
      BY <1>2, <2>1, <2>2, <2>4
    <3>2. Styled(t)
      BY <1>2, <2>1, <3>1 DEF Inv, ThemesInv
    <3>3. /\ themes[t].css = "whole" => themes'[t].css = "whole"
          /\ themes[t].css # "nodir" => themes'[t].css # "nodir"
      BY <2>2
    <3>4. \A s \in Slots \ {r} : req'[s].gone = req[s].gone
      BY DEF Alone
    <3>5. themes'[t].css = "whole"
          \/ (\E s \in Slots : Resets(req'[s], t))
          \/ (themes'[t].css # "nodir" /\ \E s \in Slots : Fills(req'[s], t))
      BY <3>1, <3>2, <3>3, <3>4, StyledKept
    <3> QED
      BY <2>1, <3>5 DEF Styled
  <2> QED
    BY <2>3, <2>4
<1> QED
  BY <1>1, <1>2 DEF ThemesInv

LEMMA DropRestInv ==
    ASSUME Inv, NEW r \in Slots, DropRest(r)
    PROVE  Inv'
<1>1. PICK q : q = IF themes[req[r].theme].css = "nodir" THEN [req[r] EXCEPT !.st = "load"] ELSE Free
  OBVIOUS
<1>2. /\ req[r].op = "drop" /\ req[r].st = "rest" /\ req' = [req EXCEPT ![r] = q]
      /\ themes' = [themes EXCEPT ![req[r].theme].yaml = FALSE]
      /\ excused' = IF themes[req[r].theme].css = "nodir" THEN excused ELSE excused \cup {req[r].theme}
      /\ UNCHANGED <<requests, crashes, mix, shown, frontends, yml, disk, files, listed, ids, asked, mixed, spoiled, crossed>>
  BY <1>1 DEF DropRest, Step, Done
<1>3. req[r] \in Request /\ req[r].theme \in Themes
  BY DEF Inv, State, TypeOK, Request
<1>4. /\ q \in Request
      /\ q.op \in {"", "drop"} /\ q.st \in {"free", "load"} /\ q.st \in StagesOf(q.op)
      /\ themes[req[r].theme].css = "nodir" => q.op = "drop" /\ q.st = "load" /\ q.theme = req[r].theme
  <2>1. CASE themes[req[r].theme].css = "nodir"
    <3>1. q = [req[r] EXCEPT !.st = "load"]
      BY <1>1, <2>1
    <3>2. q \in Request /\ q.op = "drop" /\ q.st = "load" /\ q.theme = req[r].theme
      BY <1>2, <1>3, <3>1 DEF Request, Stages
    <3> QED
      BY <3>2 DEF StagesOf
  <2>2. CASE themes[req[r].theme].css # "nodir"
    BY <1>1, <2>2, FreeType DEF StagesOf
  <2> QED
    BY <2>1, <2>2
<1>5. Moves(r, q) /\ Alone(r)
  BY <1>2, <1>4, Stepped DEF Inv, State
<1>6. /\ themes' \in [Themes -> ThemeType]
      /\ \A t \in Themes : themes'[t].css = themes[t].css
  <2>1. themes \in [Themes -> ThemeType]
    BY DEF Inv, State, TypeOK, ThemeType
  <2> QED
    BY <1>2, <1>3, <2>1 DEF ThemeType
<1>7. ThemesInv'
  <2>1. ~Names(q)
    BY <1>4 DEF Names
  <2>2. \A t : ~Fills(req[r], t)
    BY <1>2 DEF Fills
  <2>3. \A t : Resets(req[r], t) => Resets(q, t) \/ t \in excused'
    BY <1>2, <1>4 DEF Resets
  <2>4. excused \subseteq excused' /\ UNCHANGED yml
    BY <1>2
  <2> QED
    BY <1>5, <1>6, <2>1, <2>2, <2>3, <2>4, ThemesMove
<1>8. excused' \subseteq Themes /\ requests' \in 0 .. MaxRequests
  BY <1>2, <1>3 DEF Inv, State, TypeOK
<1>9. \A s \in Slots \ {r} : req[s].op # "install" => req'[s].gone = req[s].gone
  BY <1>5 DEF Alone
<1> QED
  BY <1>2, <1>4, <1>5, <1>6, <1>7, <1>8, <1>9, ThemeStep

LEMMA DropManifestInv ==
    ASSUME Inv, NEW r \in Slots, NEW t \in Themes, DropManifest(r, t)
    PROVE  Inv'
<1>1. PICK q : q = [Free EXCEPT !.op = "drop", !.st = "static", !.theme = t]
  OBVIOUS
<1>2. /\ Arrive(r, q) /\ themes' = [themes EXCEPT ![t].yaml = FALSE]
      /\ UNCHANGED <<shown, frontends, yml, disk, files, listed, ids, history>>
  BY <1>1 DEF DropManifest
<1>3. q \in Request /\ q.op = "drop" /\ q.st = "static" /\ q.st \in StagesOf(q.op)
  BY <1>1, FreeType DEF Request, Ops, Stages, StagesOf
<1>4. /\ req' = [req EXCEPT ![r] = q] /\ req[r].st = "free" /\ req[r].op = ""
      /\ requests' \in 0 .. MaxRequests /\ UNCHANGED <<crashes, mix>>
      /\ Moves(r, q) /\ Alone(r)
  BY <1>2, <1>3, Arrivals DEF Inv
<1>5. /\ themes' \in [Themes -> ThemeType]
      /\ \A u \in Themes : themes'[u].css = themes[u].css
  <2>1. themes \in [Themes -> ThemeType]
    BY DEF Inv, State, TypeOK, ThemeType
  <2> QED
    BY <1>2, <2>1 DEF ThemeType
<1>6. UNCHANGED <<asked, mixed, excused, spoiled, crossed>>
  BY <1>2 DEF history
<1>7. ThemesInv'
  <2>1. ~Names(q) /\ \A u : ~Fills(req[r], u) /\ ~Resets(req[r], u)
    BY <1>3, <1>4 DEF Names, Fills, Resets
  <2> QED
    BY <1>2, <1>4, <1>5, <1>6, <2>1, ThemesMove
<1>8. excused' \subseteq Themes
  BY <1>6 DEF Inv, State, TypeOK
<1>9. \A s \in Slots \ {r} : req[s].op # "install" => req'[s].gone = req[s].gone
  BY <1>4 DEF Alone
<1> QED
  BY <1>2, <1>3, <1>4, <1>5, <1>6, <1>7, <1>8, <1>9, ThemeStep

LEMMA DropStaticInv ==
    ASSUME Inv, NEW r \in Slots, DropStatic(r)
    PROVE  Inv'
<1>1. PICK t : t = req[r].theme
  OBVIOUS
<1>2. PICK q : q = IF ~themes[t].yaml THEN [req[r] EXCEPT !.st = "load"] ELSE Free
  OBVIOUS
<1>3. /\ req[r].op = "drop" /\ req[r].st = "static" /\ req' = WithoutCSS(r, q, t)
      /\ themes' = [themes EXCEPT ![t].css = "nodir"]
      /\ excused' = IF ~themes[t].yaml THEN excused ELSE excused \cup {t}
      /\ UNCHANGED <<shown, frontends, yml, disk, files, listed, ids, requests, crashes, mix,
                     asked, mixed, spoiled, crossed>>
  BY <1>1, <1>2 DEF DropStatic
<1>4. req[r] \in Request /\ t \in Themes
  BY <1>1 DEF Inv, State, TypeOK, Request
<1>5. /\ q \in Request /\ q.op \in {"", "drop"} /\ q.st \in {"free", "load"} /\ q.st \in StagesOf(q.op)
      /\ ~themes[t].yaml => Resets(q, t)
  <2>1. CASE ~themes[t].yaml
    <3>1. q = [req[r] EXCEPT !.st = "load"]
      BY <1>2, <2>1
    <3>2. q \in Request /\ q.op = "drop" /\ q.st = "load" /\ q.theme = t
      BY <1>1, <1>3, <1>4, <3>1 DEF Request, Stages
    <3> QED
      BY <3>2 DEF StagesOf, Resets
  <2>2. CASE themes[t].yaml
    BY <1>2, <2>2, FreeType DEF StagesOf
  <2> QED
    BY <2>1, <2>2
<1>6. Resets(q, t) \/ t \in excused'
  BY <1>3, <1>5
<1>7. excused \subseteq excused' /\ excused' \subseteq Themes /\ requests' \in 0 .. MaxRequests
  BY <1>3, <1>4 DEF Inv, State, TypeOK
<1>8. \A u : Resets(req[r], u) => u = t
  BY <1>1 DEF Resets
<1> QED
  BY <1>3, <1>4, <1>5, <1>6, <1>7, <1>8, WithoutCSSInv

LEMMA DropFailsInv ==
    ASSUME Inv, NEW r \in Slots, DropFails(r)
    PROVE  Inv'
<1>1. /\ req[r].op = "drop" /\ req[r].st \in {"rest", "static"} /\ req' = [req EXCEPT ![r] = Free]
      /\ excused' = excused \cup {req[r].theme}
      /\ UNCHANGED <<requests, crashes, mix, shown, frontends, yml, themes, disk, files, listed, ids,
                     asked, mixed, spoiled, crossed>>
  BY DEF DropFails, Step, Done
<1>2. Free \in Request /\ Free.op = "" /\ Free.st = "free" /\ Free.st \in StagesOf(Free.op)
  BY FreeType DEF StagesOf
<1>3. Moves(r, Free) /\ Alone(r)
  BY <1>1, <1>2, Stepped DEF Inv, State
<1>4. themes' \in [Themes -> ThemeType] /\ excused' \subseteq Themes /\ requests' \in 0 .. MaxRequests
  BY <1>1 DEF Inv, State, TypeOK, ThemeType, Request
<1>5. ThemesInv'
  <2>1. ~Names(Free) /\ \A t : ~Fills(req[r], t)
    BY <1>1, <1>2 DEF Names, Fills
  <2>2. \A t : Resets(req[r], t) => t \in excused'
    BY <1>1 DEF Resets
  <2> QED
    BY <1>1, <1>2, <1>3, <2>1, <2>2, ThemesMove
<1>6. \A s \in Slots \ {r} : req[s].op # "install" => req'[s].gone = req[s].gone
  BY <1>3 DEF Alone
<1> QED
  BY <1>1, <1>2, <1>3, <1>4, <1>5, <1>6, ThemeStep

LEMMA InstallInv ==
    ASSUME Inv, NEW r \in Slots, NEW t \in Themes, Install(r, t)
    PROVE  Inv'
<1>1. PICK q : q = [Free EXCEPT !.op = "install", !.st = "css", !.theme = t]
  OBVIOUS
<1>2. /\ Arrive(r, q)
      /\ themes' = [themes EXCEPT ![t] = [yaml |-> TRUE, css |-> IF @.css = "nodir" THEN "none" ELSE @.css]]
      /\ UNCHANGED <<shown, frontends, yml, disk, files, listed, ids, history>>
  BY <1>1 DEF Install
<1>3. q \in Request /\ q.op = "install" /\ q.st = "css"
  BY <1>1, FreeType DEF Request, Ops, Stages
<1>4. /\ req' = [req EXCEPT ![r] = q] /\ req[r].st = "free" /\ req[r].op = ""
      /\ requests' \in 0 .. MaxRequests /\ UNCHANGED <<crashes, mix>>
      /\ Moves(r, q) /\ Alone(r)
  BY <1>2, <1>3, Arrivals DEF Inv
<1>5. /\ themes' \in [Themes -> ThemeType]
      /\ \A u \in Themes : /\ themes[u].css = "whole" => themes'[u].css = "whole"
                           /\ themes[u].css # "nodir" => themes'[u].css # "nodir"
  <2>1. themes \in [Themes -> ThemeType]
    BY DEF Inv, State, TypeOK, ThemeType
  <2> QED
    BY <1>2, <2>1 DEF ThemeType
<1>6. UNCHANGED <<asked, mixed, excused, spoiled, crossed>>
  BY <1>2 DEF history
<1>7. ThemesInv'
  <2>1. ~Names(q) /\ \A u : ~Fills(req[r], u) /\ ~Resets(req[r], u)
    BY <1>3, <1>4 DEF Names, Fills, Resets
  <2> QED
    BY <1>2, <1>4, <1>5, <1>6, <2>1, ThemesMove
<1>8. excused' \subseteq Themes
  BY <1>6 DEF Inv, State, TypeOK
<1>9. \A s \in Slots \ {r} : req[s].op # "install" => req'[s].gone = req[s].gone
  BY <1>4 DEF Alone
<1>10. q.st \in StagesOf(q.op)
  BY <1>3 DEF StagesOf
<1> QED
  BY <1>2, <1>3, <1>4, <1>5, <1>6, <1>7, <1>8, <1>9, <1>10, ThemeStep

LEMMA FillCSSInv ==
    ASSUME Inv, NEW r \in Slots, FillCSS(r)
    PROVE  Inv'
<1>1. PICK t : t = req[r].theme
  OBVIOUS
<1>2. /\ req[r].op = "install" /\ req[r].st = "fill" /\ req' = [req EXCEPT ![r] = Free]
      /\ \/ /\ themes' = IF req[r].gone THEN themes ELSE [themes EXCEPT ![t].css = "whole"]
            /\ excused' = IF req[r].gone THEN excused ELSE excused \ {t}
         \/ /\ excused' = excused \cup {t}
            /\ UNCHANGED themes
      /\ UNCHANGED <<requests, crashes, mix, shown, frontends, yml, disk, files, listed, ids, asked, mixed, spoiled, crossed>>
  BY <1>1 DEF FillCSS, Done, Step
<1>3. t \in Themes
  BY <1>1 DEF Inv, State, TypeOK, Request
<1>4. Moves(r, Free) /\ Alone(r)
  BY <1>2, FreeType, Stepped DEF Inv, State
<1>5. /\ themes' \in [Themes -> ThemeType]
      /\ \A u \in Themes : themes'[u] = themes[u] \/ themes'[u].css = "whole"
      /\ ~req[r].gone => themes'[t].css = "whole" \/ t \in excused'
      /\ \A u \in Themes : themes[u].css = "whole" => themes'[u].css = "whole"
  <2>1. themes \in [Themes -> ThemeType]
    BY DEF Inv, State, TypeOK, ThemeType
  <2>2. CASE UNCHANGED themes
    BY <1>2, <1>3, <2>1, <2>2 DEF ThemeType
  <2>3. CASE themes' = [themes EXCEPT ![t].css = "whole"]
    BY <1>3, <2>1, <2>3 DEF ThemeType
  <2> QED
    BY <1>2, <2>2, <2>3
<1>6. ThemesInv'
  <2>1. ~Names(Free) /\ \A u : ~Resets(req[r], u)
    BY <1>2, FreeType DEF Names, Resets
  <2>2. \A u \in Themes : \/ ~Fills(req[r], u) /\ (u \in excused => u \in excused')
                          \/ u \in excused' \/ themes'[u].css = "whole"
    BY <1>1, <1>2, <1>3, <1>5 DEF Fills
  <2> QED
    BY <1>2, <1>4, <1>5, <2>1, <2>2, ThemesMove
<1>7. excused' \subseteq Themes /\ requests' \in 0 .. MaxRequests
  BY <1>2, <1>3 DEF Inv, State, TypeOK
<1>8. \A s \in Slots \ {r} : req[s].op # "install" => req'[s].gone = req[s].gone
  BY <1>4 DEF Alone
<1>9. Free.st \in StagesOf(Free.op)
  BY FreeType DEF StagesOf
<1> QED
  BY <1>2, <1>4, <1>5, <1>6, <1>7, <1>8, <1>9, FreeType, ThemeStep

LEMMA EmptyCSSInv ==
    ASSUME Inv, NEW r \in Slots, EmptyCSS(r)
    PROVE  Inv'
<1>1. PICK t : t = req[r].theme
  OBVIOUS
<1>2. /\ req[r].op = "install" /\ req[r].st = "css" /\ req[r] \in Request /\ t \in Themes
      /\ UNCHANGED <<shown, frontends, yml, disk, files, listed, ids, history>>
  BY <1>1 DEF EmptyCSS, Inv, State, TypeOK, Request
<1>3. UNCHANGED <<asked, mixed, excused, spoiled, crossed>>
  BY <1>2 DEF history
<1>4. excused' \subseteq Themes
  BY <1>3 DEF Inv, State, TypeOK
<1>5. themes \in [Themes -> ThemeType]
  BY DEF Inv, State, TypeOK, ThemeType
<1>6. CASE themes[t].css = "nodir"
  <2>1. req' = [req EXCEPT ![r] = Free] /\ UNCHANGED <<requests, crashes, mix, themes>>
    BY <1>1, <1>6 DEF EmptyCSS, Done, Step
  <2>2. Moves(r, Free) /\ Alone(r)
    BY <2>1, FreeType, Stepped DEF Inv, State
  <2>3. ThemesInv'
    <3>1. ASSUME NEW s \in Slots, Names(req'[s]) PROVE themes[req'[s].cfg.theme].css = "whole"
      <4>1. s # r /\ req'[s] = req[s]
        BY <2>2, <3>1, FreeType DEF Moves, Alone, Names
      <4> QED
        BY <3>1, <4>1 DEF Inv, ThemesInv
    <3>2. ASSUME yml.st = "whole", yml.cfg.theme \notin excused PROVE Styled(yml.cfg.theme)'
      <4>1. PICK u : u = yml.cfg.theme
        OBVIOUS
      <4>2. Styled(u) /\ ~Resets(req[r], u)
        BY <1>2, <3>2, <4>1 DEF Inv, ThemesInv, Resets
      <4>3. themes[u].css # "nodir" => ~Fills(req[r], u)
        BY <1>1, <1>6 DEF Fills
      <4>4. \A s \in Slots \ {r} : req'[s].gone = req[s].gone
        BY <2>2 DEF Alone
      <4>5. themes'[u].css = "whole"
            \/ (\E s \in Slots : Resets(req'[s], u))
            \/ (themes'[u].css # "nodir" /\ \E s \in Slots : Fills(req'[s], u))
        BY <2>1, <2>2, <4>2, <4>3, <4>4, StyledKept
      <4> QED
        BY <1>2, <4>1, <4>5 DEF Styled
    <3> QED
      BY <1>2, <1>3, <2>1, <3>1, <3>2 DEF ThemesInv
  <2>4. requests' \in 0 .. MaxRequests
    BY <2>1 DEF Inv, State, TypeOK
  <2>5. \A s \in Slots \ {r} : req[s].op # "install" => req'[s].gone = req[s].gone
    BY <2>2 DEF Alone
  <2>6. Free.st \in StagesOf(Free.op)
    BY FreeType DEF StagesOf
  <2> QED
    BY <1>2, <1>3, <1>4, <1>5, <2>1, <2>2, <2>3, <2>4, <2>5, <2>6, FreeType, ThemeStep
<1>7. CASE themes[t].css # "nodir"
  <2>1. PICK q : q = [req[r] EXCEPT !.st = "fill", !.gone = FALSE]
    OBVIOUS
  <2>2. /\ themes' = [themes EXCEPT ![t].css = "empty"]
        /\ UNCHANGED <<requests, crashes, mix>>
    BY <1>1, <1>7 DEF EmptyCSS
  <2>3. req' = [s \in Slots |-> IF s = r THEN q
                                ELSE IF t \in {req[s].theme, req[s].cfg.theme}
                                THEN [req[s] EXCEPT !.raced = TRUE] ELSE req[s]]
    BY <1>1, <1>7, <2>1 DEF EmptyCSS
  <2>4. q \in Request /\ q.op = "install" /\ q.st = "fill" /\ q.theme = t /\ ~q.gone
    BY <1>1, <1>2, <2>1 DEF Request, Stages
  <2>5. /\ Moves(r, q)
        /\ \A s \in Slots \ {r} :
             /\ Names(req'[s]) => Names(req[s]) /\ req[s].cfg.theme # t
             /\ req'[s].gone = req[s].gone
    <3>1. \A s \in Slots : req[s].op # "none"
      BY DEF Inv, State, TypeOK, Request, Ops
    <3>2. OnSlots(req') /\ req'[r] = q /\ \A s \in Slots \ {r} : Hears(req[s], req'[s], t, "none")
      BY <2>3, <3>1 DEF OnSlots, Hears
    <3> QED
      BY <2>4, <3>1, <3>2, RacedMoves DEF Inv
  <2>6. /\ themes' \in [Themes -> ThemeType] /\ themes'[t].css = "empty"
        /\ \A u \in Themes \ {t} : themes'[u] = themes[u]
    BY <1>2, <1>5, <2>2 DEF ThemeType
  <2>7. ThemesInv'
    <3>1. ASSUME NEW s \in Slots, Names(req'[s]) PROVE themes'[req'[s].cfg.theme].css = "whole"
      <4>1. s # r
        BY <2>4, <2>5, <3>1 DEF Moves, Names
      <4>2. Names(req[s]) /\ req'[s].cfg.theme # t /\ req'[s].cfg = req[s].cfg
        BY <2>5, <3>1, <4>1 DEF Moves, Kept
      <4>3. req'[s].cfg.theme \in Themes
        BY <2>5 DEF Moves, Request, Settings
      <4> QED
        BY <2>6, <4>2, <4>3 DEF Inv, ThemesInv
    <3>2. ASSUME yml.st = "whole", yml.cfg.theme \notin excused PROVE Styled(yml.cfg.theme)'
      <4>1. PICK u : u = yml.cfg.theme
        OBVIOUS
      <4>2. u \in Themes
        BY <4>1 DEF Inv, State, TypeOK, Settings
      <4>3. CASE u = t
        <5>1. Fills(req'[r], u)
          BY <2>4, <2>5, <4>3 DEF Moves, Fills
        <5> QED
          BY <1>2, <2>6, <4>1, <4>3, <5>1 DEF Styled
      <4>4. CASE u # t
        <5>1. Styled(u) /\ ~Resets(req[r], u) /\ ~Fills(req[r], u)
          BY <1>1, <1>2, <3>2, <4>1, <4>4 DEF Inv, ThemesInv, Resets, Fills
        <5>2. themes'[u] = themes[u]
          BY <2>6, <4>2, <4>4
        <5>3. \A s \in Slots \ {r} : req'[s].gone = req[s].gone
          BY <2>5
        <5>4. themes'[u].css = "whole"
              \/ (\E s \in Slots : Resets(req'[s], u))
              \/ (themes'[u].css # "nodir" /\ \E s \in Slots : Fills(req'[s], u))
          BY <2>5, <5>1, <5>2, <5>3, StyledKept
        <5> QED
          BY <1>2, <4>1, <5>4 DEF Styled
      <4> QED
        BY <4>3, <4>4
    <3> QED
      BY <1>2, <1>3, <3>1, <3>2 DEF ThemesInv
  <2>8. requests' \in 0 .. MaxRequests
    BY <2>2 DEF Inv, State, TypeOK
  <2>9. \A s \in Slots \ {r} : req[s].op # "install" => req'[s].gone = req[s].gone
    BY <2>5
  <2>10. q.st \in StagesOf(q.op)
    BY <2>4 DEF StagesOf
  <2> QED
    BY <1>2, <1>3, <1>4, <2>2, <2>4, <2>5, <2>6, <2>7, <2>8, <2>9, <2>10, ThemeStep
<1> QED
  BY <1>6, <1>7

-----------------------------------------------------------------------------
(* Uploaded files *)

RowType == [id : Nat, by : People]

(* A step that touches files and a request at most says nothing of the rest. *)
LEMMA FileStep ==
    ASSUME Inv, NEW r \in Slots, NEW q \in Request, Moves(r, q),
           requests' \in 0 .. MaxRequests,
           UNCHANGED <<shown, frontends, yml, themes, listed, crashes, mix, asked, mixed, excused>>,
           disk' \in [Contents -> {"none", "part", "whole"}], files' \in [Contents -> RowType],
           ids' \in Nat, spoiled' \subseteq Contents, crossed' \subseteq Contents,
           req[r].op \in {"", "upload", "unfile"}, req[r].st \in {"free", "delete"} \cup FileStages,
           q.op \in {"", "upload", "unfile"}, q.st \in {"free", "delete"} \cup FileStages,
           q.st \in StagesOf(q.op),
           \A s \in Slots \ {r} : req[s].op = "install" => req'[s].gone = req[s].gone,
           FilesInv'
    PROVE  Inv'
<1>1. TypeOK'
  BY DEF Inv, State, TypeOK, FrontendsTypeOK, frontends, Moves, RowType
<1>2. State'
  BY <1>1, StateMoves DEF Inv
<1>3. SettingsInv'
  BY SettingsKept DEF Inv, InHand, FileStages
<1>4. ThemesInv'
  <2>1. ~Names(q) /\ \A t : ~Resets(req[r], t) /\ ~Fills(req[r], t)
    BY DEF Names, Resets, Fills, FileStages
  <2> QED
    BY <2>1, ThemesKept DEF Inv
<1>5. HomeInv'
  BY HomeKept DEF Inv, Announces, FileStages
<1> QED
  BY <1>2, <1>3, <1>4, <1>5 DEF Inv

(* What the files look like before a step. *)
LEMMA FileTypes ==
    ASSUME Inv
    PROVE  /\ disk \in [Contents -> {"none", "part", "whole"}] /\ files \in [Contents -> RowType]
           /\ ids \in Nat /\ spoiled \subseteq Contents /\ crossed \subseteq Contents
           /\ requests \in 0 .. MaxRequests
           /\ \A s \in Slots : req[s] \in Request /\ req[s].f \in Contents
BY DEF Inv, State, TypeOK, RowType, Request

LEMMA UploadInv ==
    ASSUME Inv, NEW r \in Slots, NEW f \in Contents, NEW u \in People, Upload(r, f, u)
    PROVE  Inv'
<1>1. PICK q : q = [Free EXCEPT !.op = "upload", !.st = IF disk[f] = "none" THEN "copy" ELSE "insert",
                                !.f = f, !.by = u]
  OBVIOUS
<1>2. /\ Arrive(r, q)
      /\ disk' = IF disk[f] = "none" THEN [disk EXCEPT ![f] = "part"] ELSE disk
      /\ spoiled' = IF disk[f] = "none" THEN spoiled \ {f} ELSE spoiled
      /\ crossed' = IF disk[f] = "none" /\ files[f].id = 0 /\ Trusting(f) = {} THEN crossed \ {f} ELSE crossed
      /\ UNCHANGED <<files, ids, shown, frontends, yml, themes, listed, asked, mixed, excused>>
  BY <1>1 DEF Upload, Quietly
<1>3. /\ q \in Request /\ q.op = "upload" /\ q.f = f /\ ~q.gone
      /\ q.st = IF disk[f] = "none" THEN "copy" ELSE "insert"
  BY <1>1, FreeType DEF Request, Ops, Stages
<1>4. /\ req' = [req EXCEPT ![r] = q] /\ req[r].st = "free" /\ req[r].op = ""
      /\ requests' \in 0 .. MaxRequests /\ UNCHANGED <<crashes, mix>>
      /\ Moves(r, q) /\ Alone(r)
  BY <1>2, <1>3, Arrivals DEF Inv
<1>5. /\ disk' \in [Contents -> {"none", "part", "whole"}] /\ files' \in [Contents -> RowType]
      /\ ids' \in Nat /\ spoiled' \subseteq Contents /\ crossed' \subseteq Contents
      /\ \A g \in Contents \ {f} : disk'[g] = disk[g]
      /\ disk'[f] = IF disk[f] = "none" THEN "part" ELSE disk[f]
  BY <1>2, FileTypes
<1>6. \A s \in Slots \ {r} : req'[s].gone = req[s].gone
  BY <1>4 DEF Alone
<1>7. FileAt(f)'
  <2>1. Unlinking(f)' # {} => Unlinking(f) # {}
    BY <1>3, <1>4 DEF Unlinking, Moves, Kept
  <2>2. FileAt(f)
    BY DEF Inv, FilesInv
  <2>3. CASE disk[f] = "none"
    <3>1. CopiedBy(r, f)'
      BY <1>3, <1>4, <2>3 DEF CopiedBy, Moves
    <3>2. Backed(f)'
      BY <3>1 DEF Backed
    <3> QED
      BY <1>2, <2>1, <2>2, <3>2 DEF FileAt
  <2>4. CASE disk[f] # "none"
    <3>1. \A s \in Slots : CopiedBy(s, f) => CopiedBy(s, f)'
      BY <1>4 DEF CopiedBy, Moves, Alone
    <3>2. f \notin spoiled => Backed(f)
      BY <2>2, <2>4, FileTypes DEF FileAt, Backed
    <3>3. f \notin spoiled => Backed(f)'
      BY <1>2, <2>4, <3>1, <3>2 DEF Backed
    <3> QED
      BY <1>2, <2>1, <2>2, <2>4, <3>3 DEF FileAt
  <2> QED
    BY <2>3, <2>4
<1>8. ASSUME NEW g \in Contents \ {f} PROVE FileAt(g)'
  <2>1. FileAt(g) /\ disk'[g] = disk[g] /\ files'[g] = files[g]
    BY <1>2, <1>5 DEF Inv, FilesInv
  <2>2. (g \in spoiled => g \in spoiled') /\ (g \in crossed => g \in crossed')
    BY <1>2
  <2>3. req[r].st \notin FileStages
    BY <1>4 DEF FileStages
  <2> QED
    BY <1>3, <1>4, <1>6, <2>1, <2>2, <2>3, FileKept
<1>9. FilesInv'
  BY <1>7, <1>8 DEF FilesInv
<1>10. q.st \in StagesOf(q.op) /\ q.st \in FileStages
  BY <1>3 DEF StagesOf, FileStages
<1> QED
  BY <1>2, <1>3, <1>4, <1>5, <1>6, <1>9, <1>10, FileStep

LEMMA CopyUploadInv ==
    ASSUME Inv, NEW r \in Slots, CopyUpload(r)
    PROVE  Inv'
<1>1. PICK f : f = req[r].f
  OBVIOUS
<1>2. /\ req[r].op = "upload" /\ req[r].st = "copy" /\ req[r] \in Request /\ f \in Contents
      /\ UNCHANGED <<files, ids, crossed, shown, frontends, yml, themes, listed, asked, mixed, excused>>
  BY <1>1, FileTypes DEF CopyUpload, Quietly
<1>3. CASE spoiled' = spoiled \cup {f} /\ Done(r) /\ UNCHANGED disk
  <2>1. req' = [req EXCEPT ![r] = Free] /\ UNCHANGED <<requests, crashes, mix>>
    BY <1>3 DEF Done, Step
  <2>2. Moves(r, Free) /\ Alone(r)
    BY <2>1, FreeType, Stepped DEF Inv, State
  <2>3. \A s \in Slots \ {r} : req'[s].gone = req[s].gone
    BY <2>2 DEF Alone
  <2>4. ASSUME NEW g \in Contents PROVE FileAt(g)'
    <3>1. FileAt(g)
      BY DEF Inv, FilesInv
    <3>2. CASE g = f
      <4>1. Unlinking(g)' # {} => Unlinking(g) # {}
        <5>1. Free.st = "free"
          BY FreeType
        <5>2. Unlinking(g)' \subseteq Unlinking(g)
          BY <2>2, <5>1 DEF Unlinking, Moves, Alone
        <5> QED
          BY <5>2
      <4>2. g \in spoiled' /\ UNCHANGED <<files, crossed>>
        BY <1>2, <1>3, <3>2
      <4> QED
        BY <3>1, <4>1, <4>2 DEF FileAt
    <3>3. CASE g # f
      <4>1. Free.st \notin FileStages
        BY FreeType DEF FileStages
      <4> QED
        BY <1>1, <1>2, <1>3, <2>2, <2>3, <3>1, <3>3, <4>1, FileKept
    <3> QED
      BY <3>2, <3>3
  <2>5. FilesInv'
    BY <2>4 DEF FilesInv
  <2>6. /\ disk' \in [Contents -> {"none", "part", "whole"}] /\ files' \in [Contents -> RowType]
        /\ ids' \in Nat /\ spoiled' \subseteq Contents /\ crossed' \subseteq Contents
        /\ requests' \in 0 .. MaxRequests
    BY <1>2, <1>3, <2>1, FileTypes
  <2>7. /\ Free.op = "" /\ Free.st = "free" /\ Free.st \in StagesOf(Free.op) /\ Free \in Request
        /\ req[r].st \in FileStages
    BY <1>2, FreeType DEF StagesOf, FileStages
  <2> QED
    BY <1>2, <2>1, <2>2, <2>3, <2>5, <2>6, <2>7, FileStep
<1>4. CASE /\ disk' = IF req[r].gone THEN disk ELSE [disk EXCEPT ![f] = "whole"]
           /\ Step(r, [req[r] EXCEPT !.st = "insert"]) /\ UNCHANGED spoiled
  <2>1. PICK q : q = [req[r] EXCEPT !.st = "insert"]
    OBVIOUS
  <2>2. req' = [req EXCEPT ![r] = q] /\ UNCHANGED <<requests, crashes, mix>>
    BY <1>4, <2>1 DEF Step
  <2>3. q \in Request /\ q.op = "upload" /\ q.st = "insert" /\ q.f = f
    BY <1>1, <1>2, <2>1 DEF Request, Stages
  <2>4. Moves(r, q) /\ Alone(r)
    BY <2>2, <2>3, Stepped DEF Inv, State
  <2>5. \A s \in Slots \ {r} : req'[s].gone = req[s].gone
    BY <2>4 DEF Alone
  <2>6. /\ disk' \in [Contents -> {"none", "part", "whole"}]
        /\ \A g \in Contents \ {f} : disk'[g] = disk[g]
        /\ disk'[f] = "whole" \/ (req[r].gone /\ UNCHANGED disk)
    <3>1. CASE req[r].gone
      BY <1>4, <3>1, FileTypes
    <3>2. CASE ~req[r].gone
      <4>1. disk' = [disk EXCEPT ![f] = "whole"]
        BY <1>4, <3>2
      <4> QED
        BY <1>2, <4>1, FileTypes
    <3> QED
      BY <3>1, <3>2
  <2>7. ASSUME NEW g \in Contents PROVE FileAt(g)'
    <3>1. FileAt(g)
      BY DEF Inv, FilesInv
    <3>2. CASE g = f
      <4>1. Unlinking(g)' # {} => Unlinking(g) # {}
        BY <2>3, <2>4 DEF Unlinking, Moves, Kept
      <4>2. CASE disk'[f] = "whole"
        <5>1. Backed(g)'
          BY <3>2, <4>2 DEF Backed
        <5> QED
          BY <1>2, <3>1, <4>1, <5>1 DEF FileAt
      <4>3. CASE req[r].gone /\ UNCHANGED disk
        <5>1. \A s \in Slots : CopiedBy(s, g) => CopiedBy(s, g)'
          BY <2>4, <4>3 DEF CopiedBy, Moves, Alone
        <5>2. Backed(g) => Backed(g)'
          BY <4>3, <5>1 DEF Backed
        <5>3. Claimed(g)
          BY <1>1, <1>2, <3>2 DEF Claimed, Relies
        <5> QED
          BY <1>2, <1>4, <3>1, <4>1, <4>3, <5>2, <5>3 DEF FileAt
      <4> QED
        BY <2>6, <4>2, <4>3
    <3>3. CASE g # f
      BY <1>1, <1>2, <1>4, <2>3, <2>4, <2>5, <2>6, <3>1, <3>3, FileKept
    <3> QED
      BY <3>2, <3>3
  <2>8. FilesInv'
    BY <2>7 DEF FilesInv
  <2>9. /\ files' \in [Contents -> RowType]
        /\ ids' \in Nat /\ spoiled' \subseteq Contents /\ crossed' \subseteq Contents
        /\ requests' \in 0 .. MaxRequests
    BY <1>2, <1>4, <2>2, FileTypes
  <2>10. q.st \in StagesOf(q.op) /\ q.st \in FileStages /\ req[r].st \in FileStages
    BY <1>2, <2>3 DEF StagesOf, FileStages
  <2> QED
    BY <1>2, <2>2, <2>3, <2>4, <2>5, <2>6, <2>8, <2>9, <2>10, FileStep
<1> QED
  BY <1>1, <1>3, <1>4 DEF CopyUpload

LEMMA InsertFileInv ==
    ASSUME Inv, NEW r \in Slots, InsertFile(r)
    PROVE  Inv'
<1>1. PICK f : f = req[r].f
  OBVIOUS
<1>2. /\ req[r].op = "upload" /\ req[r].st = "insert" /\ req[r] \in Request /\ f \in Contents
      /\ req' = [req EXCEPT ![r] = Free]
      /\ UNCHANGED <<requests, crashes, mix, disk, spoiled, shown, frontends, yml, themes, listed, asked, mixed, excused>>
  BY <1>1, FileTypes DEF InsertFile, Quietly, Done, Step
<1>3. \/ /\ files[f].id = 0 /\ ids' = ids + 1
         /\ files' = [files EXCEPT ![f] = [id |-> ids', by |-> req[r].by]]
         /\ crossed' = IF Unlinking(f) # {} THEN crossed \cup {f} ELSE crossed
      \/ UNCHANGED <<files, ids, crossed>>
  BY <1>1 DEF InsertFile
<1>4. Moves(r, Free) /\ Alone(r) /\ Free.st \notin FileStages
  BY <1>2, FreeType, Stepped DEF Inv, State, FileStages
<1>5. \A s \in Slots \ {r} : req'[s].gone = req[s].gone
  BY <1>4 DEF Alone
<1>6. /\ files' \in [Contents -> RowType] /\ ids' \in Nat
      /\ \A g \in Contents \ {f} : files'[g] = files[g]
      /\ crossed \subseteq crossed' /\ crossed' \subseteq Contents
      /\ files'[f].id = 0 \/ files' = files \/ Unlinking(f) = {} \/ f \in crossed'
  <2>1. CASE UNCHANGED <<files, ids, crossed>>
    BY <2>1, FileTypes
  <2>2. CASE /\ ids' = ids + 1 /\ files' = [files EXCEPT ![f] = [id |-> ids', by |-> req[r].by]]
             /\ crossed' = IF Unlinking(f) # {} THEN crossed \cup {f} ELSE crossed
    <3>1. req[r].by \in People
      BY <1>2 DEF Request
    <3>2. [id |-> ids', by |-> req[r].by] \in RowType
      BY <2>2, <3>1, FileTypes DEF RowType
    <3>3. files \in [Contents -> RowType] /\ ids \in Nat /\ crossed \subseteq Contents
      BY FileTypes
    <3> QED
      BY <1>2, <2>2, <3>2, <3>3
  <2> QED
    BY <1>3, <2>1, <2>2
<1>7. FileAt(f)'
  <2>1. FileAt(f) /\ Claimed(f)
    BY <1>1, <1>2 DEF Inv, FilesInv, Claimed, Relies
  <2>2. Backed(f) => Backed(f)'
    BY <1>2, <1>4 DEF Backed, CopiedBy, Moves, Alone
  <2>3. Unlinking(f)' # {} => Unlinking(f) # {}
    BY <1>4 DEF Unlinking, Moves, Kept, FileStages
  <2> QED
    BY <1>2, <1>6, <2>1, <2>2, <2>3 DEF FileAt
<1>8. ASSUME NEW g \in Contents \ {f} PROVE FileAt(g)'
  <2>1. FileAt(g) /\ disk'[g] = disk[g] /\ files'[g] = files[g]
    BY <1>2, <1>6 DEF Inv, FilesInv
  <2>2. (g \in spoiled => g \in spoiled') /\ (g \in crossed => g \in crossed')
    BY <1>2, <1>6
  <2> QED
    BY <1>1, <1>4, <1>5, <2>1, <2>2, FileKept
<1>9. FilesInv'
  BY <1>7, <1>8 DEF FilesInv
<1>10. /\ disk' \in [Contents -> {"none", "part", "whole"}] /\ spoiled' \subseteq Contents
       /\ requests' \in 0 .. MaxRequests
  BY <1>2, FileTypes
<1>11. /\ Free.op = "" /\ Free.st = "free" /\ Free.st \in StagesOf(Free.op) /\ Free \in Request
       /\ req[r].st \in FileStages
  BY <1>2, FreeType DEF StagesOf, FileStages
<1> QED
  BY <1>2, <1>4, <1>5, <1>6, <1>9, <1>10, <1>11, FileStep

LEMMA DeleteFileInv ==
    ASSUME Inv, NEW r \in Slots, NEW f \in Contents, NEW u \in People, DeleteFile(r, f, u)
    PROVE  Inv'
<1>1. PICK q : q = [Free EXCEPT !.op = "unfile", !.st = "delete", !.f = f, !.by = u, !.id = files[f].id]
  OBVIOUS
<1>2. /\ Arrive(r, q)
      /\ UNCHANGED <<shown, frontends, yml, themes, disk, files, listed, ids, history>>
  BY <1>1 DEF DeleteFile, Quietly, uploads, history
<1>3. q \in Request /\ q.op = "unfile" /\ q.st = "delete"
  <2>1. files[f].id \in Nat
    BY FileTypes DEF RowType
  <2> QED
    BY <1>1, <2>1, FreeType DEF Request, Ops, Stages
<1>4. /\ req' = [req EXCEPT ![r] = q] /\ req[r].st = "free" /\ req[r].op = ""
      /\ requests' \in 0 .. MaxRequests /\ UNCHANGED <<crashes, mix>>
  BY <1>2, <1>3, Arrivals DEF Inv
<1> QED
  BY <1>2, <1>3, <1>4, AsideInv DEF StagesOf, InHand, Names, Resets

LEMMA DeleteRecordInv ==
    ASSUME Inv, NEW r \in Slots, DeleteRecord(r)
    PROVE  Inv'
<1>1. PICK f : f = req[r].f
  OBVIOUS
<1>2. /\ req[r].op = "unfile" /\ req[r].st = "delete" /\ req[r] \in Request /\ f \in Contents
      /\ UNCHANGED <<disk, ids, spoiled, crossed, shown, frontends, yml, themes, listed, asked, mixed, excused>>
  BY <1>1, FileTypes DEF DeleteRecord, Quietly
<1>3. PICK q : q = IF files[f].id = req[r].id THEN [req[r] EXCEPT !.st = "unlink"] ELSE Free
  OBVIOUS
<1>4. /\ req' = [req EXCEPT ![r] = q] /\ UNCHANGED <<requests, crashes, mix>>
      /\ files' = IF files[f].id = req[r].id THEN [files EXCEPT ![f] = NoRow] ELSE files
  BY <1>1, <1>3 DEF DeleteRecord, Done, Step
<1>5. /\ q \in Request /\ q.op \in {"", "unfile"} /\ q.st \in {"free", "unlink"} /\ q.st \in StagesOf(q.op)
      /\ files[f].id = req[r].id => q.f = f
      /\ files[f].id # req[r].id => q.st = "free"
  <2>1. CASE files[f].id = req[r].id
    <3>1. q = [req[r] EXCEPT !.st = "unlink"]
      BY <1>3, <2>1
    <3>2. q \in Request /\ q.op = "unfile" /\ q.st = "unlink" /\ q.f = f
      BY <1>1, <1>2, <3>1 DEF Request, Stages
    <3> QED
      BY <2>1, <3>2 DEF StagesOf
  <2>2. CASE files[f].id # req[r].id
    BY <1>3, <2>2, FreeType DEF StagesOf
  <2> QED
    BY <2>1, <2>2
<1>6. Moves(r, q) /\ Alone(r)
  BY <1>4, <1>5, Stepped DEF Inv, State
<1>7. \A s \in Slots \ {r} : req'[s].gone = req[s].gone
  BY <1>6 DEF Alone
<1>8. /\ files' \in [Contents -> RowType]
      /\ \A g \in Contents \ {f} : files'[g] = files[g]
      /\ files[f].id = req[r].id => files'[f].id = 0
  <2>1. files \in [Contents -> RowType] /\ NoRow \in RowType /\ NoRow.id = 0
    BY FileTypes, FreeType DEF RowType
  <2> QED
    BY <1>2, <1>4, <2>1
<1>9. ASSUME NEW g \in Contents PROVE FileAt(g)'
  <2>1. FileAt(g)
    BY DEF Inv, FilesInv
  <2>2. CASE g = f /\ files[f].id = req[r].id
    <3>1. \A s \in Slots : CopiedBy(s, g) => CopiedBy(s, g)'
      BY <1>2, <1>6 DEF CopiedBy, Moves, Alone
    <3>2. Backed(g) => Backed(g)'
      BY <1>2, <3>1 DEF Backed
    <3>3. \A s \in Slots : Relies(s, g)' => Relies(s, g)
      BY <1>5, <1>6 DEF Relies, Moves, Kept
    <3>4. Claimed(g)' => Claimed(g)
      BY <1>8, <2>2, <3>3 DEF Claimed
    <3> QED
      BY <1>2, <1>8, <2>1, <2>2, <3>2, <3>4 DEF FileAt
  <2>3. CASE g # f \/ files[f].id # req[r].id
    <3>1. files'[g] = files[g]
      BY <1>4, <1>8, <2>3
    <3>2. q.st \notin FileStages \/ q.f # g
      BY <1>5, <2>3 DEF FileStages
    <3>3. req[r].st \notin FileStages
      BY <1>2 DEF FileStages
    <3> QED
      BY <1>2, <1>6, <1>7, <2>1, <3>1, <3>2, <3>3, FileKept
  <2> QED
    BY <2>2, <2>3
<1>10. FilesInv'
  BY <1>9 DEF FilesInv
<1>11. /\ disk' \in [Contents -> {"none", "part", "whole"}] /\ ids' \in Nat
       /\ spoiled' \subseteq Contents /\ crossed' \subseteq Contents
       /\ requests' \in 0 .. MaxRequests
  BY <1>2, <1>4, FileTypes
<1>12. q.st \in {"free", "delete"} \cup FileStages
  BY <1>5 DEF FileStages
<1> QED
  BY <1>2, <1>4, <1>5, <1>6, <1>7, <1>8, <1>10, <1>11, <1>12, FileStep

LEMMA UnlinkInv ==
    ASSUME Inv, NEW r \in Slots, Unlink(r)
    PROVE  Inv'
<1>1. PICK f : f = req[r].f
  OBVIOUS
<1>2. /\ req[r].st = "unlink" /\ req[r] \in Request /\ f \in Contents
      /\ disk' \in {disk, [disk EXCEPT ![f] = "none"]}
      /\ crossed' = IF Trusting(f) # {} \/ \E s \in Slots : req[s].st = "copy" /\ req[s].f = f
                    THEN crossed \cup {f} ELSE crossed
      /\ UNCHANGED <<requests, crashes, mix, files, ids, spoiled, shown, frontends, yml, themes, listed, asked, mixed, excused>>
  BY <1>1, FileTypes DEF Unlink, Quietly
<1>3. req' = [s \in Slots |-> IF s = r THEN Free
                ELSE IF req[s].st = "copy" /\ req[s].f = f /\ disk' # disk
                THEN [req[s] EXCEPT !.gone = TRUE] ELSE req[s]]
  BY <1>1 DEF Unlink
<1>4. req[r].op = "unfile"
  <2>1. req[r].st \in StagesOf(req[r].op) /\ req[r].op \in Ops
    BY DEF Inv, State, TypeOK, Request
  <2> QED
    BY <1>2, <2>1 DEF StagesOf, Ops
<1>5. ASSUME NEW s \in Slots \ {r}
      PROVE  /\ req'[s] \in Request /\ Kept(req[s], req'[s])
             /\ req[s].st # "copy" \/ req[s].f # f \/ UNCHANGED disk => req'[s].gone = req[s].gone
  <2>1. req[s] \in Request
    BY DEF Inv, State, TypeOK
  <2>2. CASE req[s].st = "copy" /\ req[s].f = f /\ disk' # disk
    <3>1. req'[s] = [req[s] EXCEPT !.gone = TRUE]
      BY <1>3, <2>2
    <3> QED
      BY <2>1, <2>2, <3>1 DEF Request, Kept
  <2>3. CASE ~(req[s].st = "copy" /\ req[s].f = f /\ disk' # disk)
    <3>1. req'[s] = req[s]
      BY <1>3, <2>3
    <3> QED
      BY <2>1, <3>1 DEF Kept
  <2> QED
    BY <2>2, <2>3
<1>6. Moves(r, Free) /\ Free.st \notin FileStages
  <2>1. req'[r] = Free
    BY <1>3
  <2>2. \A s \in Slots : req'[s] \in Request
    BY <1>5, <2>1, FreeType
  <2>3. req' \in [Slots -> Request]
    BY <1>3, <2>2
  <2> QED
    BY <1>5, <2>1, <2>3, FreeType DEF Moves, FileStages
<1>7. /\ disk' \in [Contents -> {"none", "part", "whole"}]
      /\ \A g \in Contents \ {f} : disk'[g] = disk[g]
      /\ UNCHANGED disk \/ disk'[f] = "none"
  BY <1>2, FileTypes
<1>8. FileAt(f)'
  <2>1. FileAt(f)
    BY <1>2 DEF Inv, FilesInv
  <2>2. Unlinking(f) # {}
    BY <1>1, <1>2 DEF Unlinking
  <2>3. Unlinking(f)' # {} => Unlinking(f) # {}
    BY <2>2
  <2>4. ASSUME f \notin spoiled \cup crossed' PROVE ~Claimed(f)'
    <3>1. f \notin crossed /\ files[f].id = 0
      BY <1>2, <2>1, <2>2, <2>4 DEF FileAt
    <3>2. Trusting(f) = {} /\ \A s \in Slots : ~(req[s].st = "copy" /\ req[s].f = f)
      BY <1>2, <2>4
    <3>3. \A s \in Slots : ~Relies(s, f)
      BY <3>2, AtStage DEF Relies, Trusting, Inv
    <3>4. \A s \in Slots : ~Relies(s, f)'
      BY <1>6, <3>3 DEF Relies, Moves, Kept, FileStages
    <3> QED
      BY <1>2, <3>1, <3>4 DEF Claimed
  <2>5. ASSUME disk'[f] = "part", f \notin spoiled PROVE Backed(f)'
    <3>1. UNCHANGED disk
      BY <1>7, <2>5
    <3>2. Backed(f)
      BY <2>1, <2>5, <3>1 DEF FileAt
    <3>3. \A s \in Slots : CopiedBy(s, f) => CopiedBy(s, f)'
      BY <1>2, <1>5, <1>6, <3>1 DEF CopiedBy, Moves, Kept
    <3> QED
      BY <3>1, <3>2, <3>3 DEF Backed
  <2> QED
    BY <1>2, <2>1, <2>2, <2>4, <2>5 DEF FileAt
<1>9. ASSUME NEW g \in Contents \ {f} PROVE FileAt(g)'
  <2>1. FileAt(g) /\ disk'[g] = disk[g] /\ files'[g] = files[g]
    BY <1>2, <1>7 DEF Inv, FilesInv
  <2>2. (g \in spoiled => g \in spoiled') /\ (g \in crossed => g \in crossed')
    BY <1>2
  <2>3. \A s \in Slots \ {r} : req[s].st = "copy" /\ req[s].f = g => req'[s].gone = req[s].gone
    BY <1>5
  <2> QED
    BY <1>1, <1>6, <2>1, <2>2, <2>3, FileKept
<1>10. FilesInv'
  BY <1>8, <1>9 DEF FilesInv
<1>11. /\ files' \in [Contents -> RowType] /\ ids' \in Nat
       /\ spoiled' \subseteq Contents /\ crossed' \subseteq Contents
       /\ requests' \in 0 .. MaxRequests
  BY <1>2, FileTypes
<1>12. /\ Free.op = "" /\ Free.st = "free" /\ Free.st \in StagesOf(Free.op) /\ Free \in Request
       /\ req[r].st \in FileStages
  BY <1>2, FreeType DEF StagesOf, FileStages
<1>13. \A s \in Slots \ {r} : req[s].op = "install" => req'[s].gone = req[s].gone
  BY <1>5, AtStage DEF Inv
<1> QED
  BY <1>2, <1>4, <1>6, <1>7, <1>10, <1>11, <1>12, <1>13, FileStep

-----------------------------------------------------------------------------
(* The rows the home page lists *)

LEMMA ItemStep ==
    ASSUME Inv, NEW r \in Slots, NEW q \in Request, req' = [req EXCEPT ![r] = q],
           q.op = "item", q.st = "purge", requests' \in 0 .. MaxRequests,
           Changed(Home), listed' \in Nat,
           UNCHANGED <<frontends, yml, themes, disk, files, ids, crashes, mix, history>>,
           req[r].st = "free"
    PROVE  Inv'
<1>1. Moves(r, q) /\ Alone(r)
  BY Stepped DEF Inv, State
<1>2. FrontendsTypeOK'
  BY ChangedType DEF Inv, State, TypeOK, FrontendsTypeOK, frontends
<1>3. TypeOK'
  BY <1>1, <1>2 DEF Inv, State, TypeOK, history, Moves
<1>4. State'
  BY <1>1, <1>3, StateMoves DEF Inv, StagesOf
<1>5. SettingsInv'
  BY <1>1, SettingsKept DEF Inv, history, InHand
<1>6. ThemesInv'
  <2>1. req[r].op # "install"
    BY AtStage DEF Inv
  <2>2. ~Names(q) /\ \A t : ~Fills(req[r], t) /\ ~Resets(req[r], t)
    BY <2>1 DEF Names, Fills, Resets
  <2> QED
    BY <1>1, <2>2, ThemesKept DEF Inv, history, Alone
<1>7. FilesInv'
  BY <1>1, FilesKept DEF Inv, history, uploads, FileStages, Alone
<1>8. HomeInv'
  BY <1>1, HomeAnnounced DEF Inv, Announces
<1> QED
  BY <1>4, <1>5, <1>6, <1>7, <1>8 DEF Inv

LEMMA AddItemInv ==
    ASSUME Inv, NEW r \in Slots, AddItem(r)
    PROVE  Inv'
<1>1. PICK q : q = [Free EXCEPT !.op = "item", !.st = "purge"]
  OBVIOUS
<1>2. q \in Request /\ q.op = "item" /\ q.st = "purge"
  BY <1>1, FreeType DEF Request, Ops, Stages
<1>3. /\ Changed(Home) /\ Arrive(r, q) /\ listed' = listed + 1
      /\ UNCHANGED <<frontends, yml, themes, disk, files, ids, history>>
  BY <1>1 DEF AddItem
<1>4. /\ req' = [req EXCEPT ![r] = q] /\ req[r].st = "free"
      /\ requests' \in 0 .. MaxRequests /\ UNCHANGED <<crashes, mix>>
  BY <1>2, <1>3, Arrivals DEF Inv
<1>5. listed' \in Nat
  BY <1>3 DEF Inv, State, TypeOK
<1> QED
  BY <1>2, <1>3, <1>4, <1>5, ItemStep

LEMMA ChangeItemInv ==
    ASSUME Inv, NEW r \in Slots, ChangeItem(r)
    PROVE  Inv'
<1>1. PICK q : q = [Free EXCEPT !.op = "item", !.st = "purge"]
  OBVIOUS
<1>2. q \in Request /\ q.op = "item" /\ q.st = "purge"
  BY <1>1, FreeType DEF Request, Ops, Stages
<1>3. /\ Changed(Home) /\ Arrive(r, q) /\ listed > 0 /\ listed' \in {listed, listed - 1}
      /\ UNCHANGED <<frontends, yml, themes, disk, files, ids, history>>
  BY <1>1 DEF ChangeItem
<1>4. /\ req' = [req EXCEPT ![r] = q] /\ req[r].st = "free"
      /\ requests' \in 0 .. MaxRequests /\ UNCHANGED <<crashes, mix>>
  BY <1>2, <1>3, Arrivals DEF Inv
<1>5. listed' \in Nat
  BY <1>3 DEF Inv, State, TypeOK
<1> QED
  BY <1>2, <1>3, <1>4, <1>5, ItemStep

-----------------------------------------------------------------------------
(* The frontends, and a crash *)

LEMMA OneCopy ==
    ASSUME Inv, UNCHANGED rest, UNCHANGED shown, FrontendsTypeOK', NEW c \in Clients, FollowsAt(c)',
           \A d \in Clients \ {c} : /\ copy'[d][Home] = copy[d][Home] /\ fetch'[d][Home] = fetch[d][Home]
                                    /\ purges'[d][Home] = purges[d][Home]
                                    /\ (<<d, Home>> \in missed' <=> <<d, Home>> \in missed)
    PROVE  Inv'
<1>1. State'
  <2>1. TypeOK'
    BY DEF Inv, State, TypeOK, rest, history
  <2> QED
    BY <2>1 DEF Inv, State, rest
<1>2. SettingsInv'
  BY DEF Inv, SettingsInv, SettingsAsAsked, rest, history
<1>3. ThemesInv'
  BY DEF Inv, ThemesInv, Styled, rest, history
<1>4. FilesInv'
  BY DEF Inv, FilesInv, FileAt, Claimed, Backed, CopiedBy, Relies, Unlinking, rest, history
<1>5. ASSUME NEW d \in Clients \ {c} PROVE FollowsAt(d)'
  BY DEF Inv, HomeInv, FollowsAt, Announced, PurgeUnderWay, rest
<1> QED
  BY <1>1, <1>2, <1>3, <1>4, <1>5 DEF Inv, HomeInv

LEMMA FrontendsInv ==
    ASSUME Inv, FrontendsNext, UNCHANGED rest
    PROVE  Inv'
<1>1. /\ FrontendsTypeOK /\ UNCHANGED req /\ Home \in Pages
      /\ \A c \in Clients : /\ copy[c] \in [Pages -> Nat] /\ fetch[c] \in [Pages -> Nat]
                            /\ purges[c] \in [Pages -> Nat]
  BY SiteAssumption DEF Inv, State, TypeOK, FrontendsTypeOK, rest
<1>2. PICK c \in Clients :
        Deliver(c, Home) \/ Undelivered(c, Home) \/ Fetch(c, Home) \/ Store(c, Home) \/ Expire(c, Home)
  BY SiteAssumption DEF FrontendsNext
<1>3. FollowsAt(c)
  BY DEF Inv, HomeInv
<1> DEFINE Others == \A d \in Clients \ {c} :
              /\ copy'[d][Home] = copy[d][Home] /\ fetch'[d][Home] = fetch[d][Home]
              /\ purges'[d][Home] = purges[d][Home] /\ (<<d, Home>> \in missed' <=> <<d, Home>> \in missed)
<1>4. CASE Deliver(c, Home)
  <2>1. FrontendsTypeOK' /\ copy'[c][Home] = 0 /\ UNCHANGED <<shown, fetch>>
    BY <1>1, <1>4 DEF Deliver, FrontendsTypeOK
  <2>2. Others
    BY <1>1, <1>4 DEF Deliver, FrontendsTypeOK
  <2>3. fetch[c][Home] \notin {0, shown[Home]} => <<c, Home>> \in missed'
    BY <1>4 DEF Deliver
  <2>4. FollowsAt(c)'
    BY <2>1, <2>3 DEF FollowsAt, Announced
  <2> QED
    BY <2>1, <2>2, <2>4, OneCopy
<1>5. CASE Undelivered(c, Home)
  <2>1. FrontendsTypeOK' /\ <<c, Home>> \in missed' /\ UNCHANGED <<shown, copy, fetch>>
    BY <1>1, <1>5 DEF Undelivered, FrontendsTypeOK
  <2>2. Others
    BY <1>1, <1>5 DEF Undelivered, FrontendsTypeOK
  <2>3. FollowsAt(c)'
    BY <1>3, <2>1 DEF FollowsAt, Announced
  <2> QED
    BY <2>1, <2>2, <2>3, OneCopy
<1>6. CASE Fetch(c, Home)
  <2>1. FrontendsTypeOK' /\ copy'[c][Home] = 0 /\ fetch'[c][Home] = shown[Home] /\ UNCHANGED shown
    BY <1>1, <1>6 DEF Fetch, FrontendsTypeOK
  <2>2. Others
    BY <1>1, <1>6 DEF Fetch, FrontendsTypeOK
  <2>3. FollowsAt(c)'
    BY <2>1 DEF FollowsAt
  <2> QED
    BY <2>1, <2>2, <2>3, OneCopy
<1>7. CASE Store(c, Home)
  <2>1. /\ FrontendsTypeOK' /\ copy'[c][Home] = fetch[c][Home] /\ fetch'[c][Home] = 0
        /\ UNCHANGED <<shown, purges, missed>>
    BY <1>1, <1>7 DEF Store, FrontendsTypeOK
  <2>2. Others
    BY <1>1, <1>7 DEF Store, FrontendsTypeOK
  <2>3. FollowsAt(c)'
    BY <1>1, <1>3, <2>1 DEF FollowsAt, Announced, PurgeUnderWay
  <2> QED
    BY <2>1, <2>2, <2>3, OneCopy
<1>8. CASE Expire(c, Home)
  <2>1. FrontendsTypeOK' /\ copy'[c][Home] = 0 /\ fetch'[c][Home] = fetch[c][Home] /\ UNCHANGED shown
    BY <1>1, <1>8 DEF Expire, FrontendsTypeOK
  <2>2. Others
    BY <1>1, <1>8 DEF Expire, FrontendsTypeOK
  <2>3. FollowsAt(c)'
    BY <1>3, <1>8, <2>1 DEF FollowsAt, Expire
  <2> QED
    BY <2>1, <2>2, <2>3, OneCopy
<1> QED
  BY <1>2, <1>4, <1>5, <1>6, <1>7, <1>8

LEMMA CrashInv ==
    ASSUME Inv, Crash
    PROVE  Inv'
<1> DEFINE half == {req[r].theme : r \in {s \in Slots : req[s].op \in {"install", "drop"}}}
           copying == {req[r].f : r \in {s \in Slots : req[s].st = "copy"}}
           saving == \E r \in Slots : req[r].st \in {"write", "purge"}
<1>1. /\ crashes < MaxCrashes /\ crashes' = crashes + 1
      /\ req' = [r \in Slots |-> Free]
      /\ mixed' = (mixed \/ \E r \in Slots : req[r].st = "write")
      /\ excused' = excused \cup half
      /\ spoiled' = spoiled \cup copying
      /\ UNCHANGED <<shown, copy, fetch, yml, disk, files, listed, ids, requests, mix, asked, crossed>>
  BY DEF Crash
<1>2. /\ purges' = [c \in Clients |-> [p \in Pages |-> 0]]
      /\ missed' = missed \cup {x \in Clients \X Pages : saving \/ purges[x[1]][x[2]] > 0}
  BY DEF Crash
<1>3. /\ themes' \in [Themes -> ThemeType]
      /\ \A t \in Themes : themes[t].css = "whole" => themes'[t].css = "whole"
  <2>1. themes \in [Themes -> ThemeType]
    BY DEF Inv, State, TypeOK, ThemeType
  <2>2. CASE UNCHANGED themes
    BY <2>1, <2>2
  <2>3. CASE themes' = [t \in Themes |-> IF themes[t].css = "empty"
                                         THEN [themes[t] EXCEPT !.css = "part"] ELSE themes[t]]
    BY <2>1, <2>3 DEF ThemeType
  <2> QED
    BY <2>2, <2>3 DEF Crash
<1>4. \A r \in Slots : req[r] \in Request /\ req[r].theme \in Themes /\ req[r].f \in Contents
  BY DEF Inv, State, TypeOK, Request
<1>5. req' \in [Slots -> Request] /\ \A r \in Slots : req'[r] = Free
  BY <1>1, FreeType
<1>6. FrontendsTypeOK'
  BY <1>1, <1>2 DEF Inv, State, TypeOK, FrontendsTypeOK
<1>7. excused' \subseteq Themes /\ spoiled' \subseteq Contents /\ mixed' \in BOOLEAN
  BY <1>1, <1>4 DEF Inv, State, TypeOK
<1>8. crashes' \in 0 .. MaxCrashes
  BY <1>1, SiteAssumption DEF Inv, State, TypeOK
<1>9. TypeOK'
  BY <1>1, <1>3, <1>5, <1>6, <1>7, <1>8 DEF Inv, State, TypeOK, ThemeType
<1>10. State'
  BY <1>5, <1>9, FreeType DEF State, StagesOf
<1>11. SettingsInv'
  BY <1>1, <1>5, FreeType DEF Inv, SettingsInv, SettingsAsAsked, InHand
<1>12. ThemesInv'
  <2>1. \A r \in Slots : ~Names(req'[r])
    BY <1>5, FreeType DEF Names
  <2>2. ASSUME yml.st = "whole", yml.cfg.theme \notin excused' PROVE themes'[yml.cfg.theme].css = "whole"
    <3>1. PICK t : t = yml.cfg.theme
      OBVIOUS
    <3>2. t \in Themes /\ t \notin excused
      BY <1>1, <2>2, <3>1 DEF Inv, State, TypeOK, Settings
    <3>3. \A r \in Slots : ~Resets(req[r], t)
      BY <1>1, <2>2, <3>1 DEF Resets
    <3>4. \A r \in Slots : ~Fills(req[r], t)
      BY <1>1, <2>2, <3>1 DEF Fills
    <3>5. Styled(t)
      BY <2>2, <3>1, <3>2 DEF Inv, ThemesInv
    <3> QED
      BY <1>3, <3>1, <3>2, <3>3, <3>4, <3>5 DEF Styled
  <2> QED
    BY <1>1, <2>1, <2>2 DEF ThemesInv, Styled
<1>13. FilesInv'
  <2>1. ASSUME NEW f \in Contents PROVE FileAt(f)'
    <3>1. FileAt(f)
      BY DEF Inv, FilesInv
    <3>2. ~(\E r \in Slots : Relies(r, f)') /\ Unlinking(f)' = {}
      BY <1>5, FreeType DEF Relies, Unlinking
    <3>3. \A r \in Slots : CopiedBy(r, f) => f \in spoiled'
      BY <1>1 DEF CopiedBy
    <3> QED
      BY <1>1, <3>1, <3>2, <3>3 DEF FileAt, Claimed, Backed
  <2> QED
    BY <2>1 DEF FilesInv
<1>14. HomeInv'
  <2>1. ASSUME NEW c \in Clients, Announced(c) PROVE Announced(c)'
    <3>1. <<c, Home>> \in Clients \X Pages /\ <<c, Home>>[1] = c /\ <<c, Home>>[2] = Home
      BY SiteAssumption
    <3>2. saving \/ purges[c][Home] > 0 => <<c, Home>> \in missed'
      BY <1>2, <3>1
    <3>3. (\E r \in Slots : Announces(req[r])) => saving
      BY DEF Announces
    <3>4. <<c, Home>> \in missed => <<c, Home>> \in missed'
      BY <1>2
    <3>5. <<c, Home>> \in missed'
      BY <2>1, <3>2, <3>3, <3>4 DEF Announced, PurgeUnderWay
    <3> QED
      BY <3>5 DEF Announced
  <2>2. UNCHANGED <<shown, copy, fetch>>
    BY <1>1
  <2> QED
    BY <2>1, <2>2 DEF Inv, HomeInv, FollowsAt
<1> QED
  BY <1>10, <1>11, <1>12, <1>13, <1>14 DEF Inv

-----------------------------------------------------------------------------
(* The theorems *)

LEMMA InitInv == Init => Inv
<1> SUFFICES ASSUME Init PROVE Inv
  OBVIOUS
<1>1. \A r \in Slots : req[r] = Free
  BY DEF Init
<1>2. FrontendsTypeOK
  BY DEF Init, FrontendsInit, FrontendsTypeOK
<1>3. themes \in [Themes -> ThemeType] /\ themes[Sunset].css = "whole"
  <2>1. PICK there \in SUBSET Custom :
          themes = [t \in Themes |-> IF t \in {Sunset} \cup there
                                     THEN [yaml |-> TRUE, css |-> "whole"]
                                     ELSE [yaml |-> FALSE, css |-> "nodir"]]
    BY DEF Init
  <2> QED
    BY <2>1 DEF ThemeType, Themes
<1>4. /\ disk \in [Contents -> {"none", "part", "whole"}] /\ files \in [Contents -> RowType]
      /\ \A f \in Contents : disk[f] # "part" /\ (files[f].id # 0 => disk[f] = "whole")
  <2>1. PICK there \in SUBSET Contents, u \in People :
          /\ disk = [f \in Contents |-> IF f \in there THEN "whole" ELSE "none"]
          /\ files = [f \in Contents |-> IF f \in there THEN [id |-> 1, by |-> u] ELSE NoRow]
    BY DEF Init
  <2>2. NoRow \in RowType /\ NoRow.id = 0
    BY FreeType DEF RowType
  <2> QED
    BY <2>1, <2>2 DEF RowType
<1>5. /\ yml = [st |-> "whole", cfg |-> Default] /\ asked = Default /\ Default.theme = Sunset
      /\ mixed = FALSE /\ excused = {} /\ spoiled = {} /\ crossed = {}
  BY DEF Init, Default
<1>6. TypeOK
  <2>1. listed \in Nat /\ ids \in Nat /\ req \in [Slots -> Request]
    BY FreeType DEF Init
  <2>2. requests \in 0 .. MaxRequests /\ crashes \in 0 .. MaxCrashes /\ mix \in Mixes
    BY SiteAssumption DEF Init
  <2> QED
    BY <1>2, <1>3, <1>4, <1>5, <2>1, <2>2, SettingsType DEF TypeOK, ThemeType, RowType
<1>7. State
  BY <1>1, <1>6, FreeType DEF State, StagesOf
<1>8. SettingsInv
  BY <1>1, <1>5, FreeType DEF SettingsInv, SettingsAsAsked, InHand
<1>9. ThemesInv
  BY <1>1, <1>3, <1>5, FreeType DEF ThemesInv, Names, Styled
<1>10. FilesInv
  BY <1>1, <1>4, FreeType DEF FilesInv, FileAt, Claimed, Relies, Backed, Unlinking
<1>11. HomeInv
  BY SiteAssumption DEF HomeInv, FollowsAt, Init, FrontendsInit
<1> QED
  BY <1>7, <1>8, <1>9, <1>10, <1>11 DEF Inv

LEMMA StutterInv ==
    ASSUME Inv, UNCHANGED vars
    PROVE  Inv'
<1>1. State'
  <2>1. TypeOK'
    BY DEF Inv, State, TypeOK, FrontendsTypeOK, vars, rest, history, frontends
  <2> QED
    BY <2>1 DEF Inv, State, vars, rest
<1>2. SettingsInv'
  BY DEF Inv, SettingsInv, SettingsAsAsked, vars, rest, history
<1>3. ThemesInv'
  BY DEF Inv, ThemesInv, Styled, vars, rest, history
<1>4. FilesInv'
  BY DEF Inv, FilesInv, FileAt, Claimed, Backed, CopiedBy, Relies, Unlinking, vars, rest, history
<1>5. HomeInv'
  BY DEF Inv, HomeInv, FollowsAt, Announced, PurgeUnderWay, vars, rest, frontends
<1> QED
  BY <1>1, <1>2, <1>3, <1>4, <1>5 DEF Inv

LEMMA NextInv ==
    ASSUME Inv, [Next]_vars
    PROVE  Inv'
<1>1. ASSUME NEW r \in Slots, Arrival(r) PROVE Inv'
  <2>1. CASE \E cfg \in Forms : SaveForm(r, cfg)
    BY <2>1, SaveFormInv
  <2>2. CASE \E source \in {"github", "gitcode"} : SetSource(r, source)
    BY <2>2, SetSourceInv
  <2>3. CASE \E t \in Themes : \/ Activate(r, t) \/ DropTheme(r, t)
                                   \/ DropManifest(r, t) \/ Install(r, t)
    BY <2>3, ActivateInv, DropThemeInv, DropManifestInv, InstallInv
  <2>4. CASE \E f \in Contents, u \in People : Upload(r, f, u) \/ DeleteFile(r, f, u)
    BY <2>4, UploadInv, DeleteFileInv
  <2>5. CASE AddItem(r) \/ ChangeItem(r)
    BY <2>5, AddItemInv, ChangeItemInv
  <2> QED
    BY <1>1, <2>1, <2>2, <2>3, <2>4, <2>5 DEF Arrival
<1>2. ASSUME NEW r \in Slots, Handling(r) PROVE Inv'
  <2>1. CASE Truncate(r) \/ Write(r) \/ WriteFails(r) \/ Purge(r)
    BY <2>1, TruncateInv, WriteInv, WriteFailsInv, PurgeInv
  <2>2. CASE LoadToActivate(r) \/ LoadToReset(r) \/ DropRest(r) \/ DropStatic(r) \/ DropFails(r)
             \/ EmptyCSS(r) \/ FillCSS(r)
    BY <2>2, LoadToActivateInv, LoadToResetInv, DropRestInv, DropStaticInv, DropFailsInv, EmptyCSSInv, FillCSSInv
  <2>3. CASE CopyUpload(r) \/ InsertFile(r) \/ DeleteRecord(r) \/ Unlink(r)
    BY <2>3, CopyUploadInv, InsertFileInv, DeleteRecordInv, UnlinkInv
  <2> QED
    BY <1>2, <2>1, <2>2, <2>3 DEF Handling
<1> QED
  BY <1>1, <1>2, FrontendsInv, CrashInv, StutterInv DEF Next

LEMMA Invariance == Spec => []Inv
BY InitInv, NextInv, PTL DEF Spec

(* Every file, theme, request, page and copy stays of its type, whichever of   *)
(* two half-done steps of other requests a handler meets.                      *)
THEOREM Types == Spec => []TypeOK
<1>1. Inv => TypeOK
  BY DEF Inv, State
<1> QED
  BY <1>1, Invariance, PTL

(* Handlers that change one key and write the whole settings file lose nothing *)
(* that was asked for, unless a save overtook another's copy or a write failed *)
(* or was cut short (Save in core/settings, setUpdateSource in api/updater.go, *)
(* adminActivateTheme and adminDeleteTheme in api/themes.go).                  *)
THEOREM SettingsAreAsAsked == Spec => []SettingsAsAsked
<1>1. Inv => SettingsAsAsked
  BY DEF Inv, SettingsInv
<1> QED
  BY <1>1, Invariance, PTL

(* The active theme has its stylesheet, or a request is putting that right,    *)
(* unless it went in one of the listed ways (core/themes, api/themes.go).      *)
THEOREM ActiveThemeIsStyled == Spec => []ActiveHasCSS
<1>1. Inv => ActiveHasCSS
  BY DEF Inv, ThemesInv, Styled, Resets, Fills, ActiveHasCSS
<1> QED
  BY <1>1, Invariance, PTL

(* A recorded upload is on the disk however uploads and deletions of the same  *)
(* content overlap, but for the listed exceptions (uploadFile and deleteFile   *)
(* in api/files.go).                                                           *)
THEOREM RecordedFilesAreThere == Spec => []RecordsHaveFiles
<1>1. Inv => RecordsHaveFiles
  BY DEF Inv, FilesInv, FileAt, Claimed, Backed, CopiedBy, RecordsHaveFiles
<1> QED
  BY <1>1, Invariance, PTL

(* A frontend's old home page is being purged or was never announced: every    *)
(* handler that changes what the page shows announces it or is listed          *)
(* (revalidateFrontend in api/revalidate.go and its callers).                  *)
THEOREM HomeIsFollowed == Spec => []HomeFollows
<1>1. Inv => HomeFollows
  BY DEF Inv, HomeInv, FollowsAt, Announced, Announces, HomeFollows, Behind
<1> QED
  BY <1>1, Invariance, PTL
=============================================================================

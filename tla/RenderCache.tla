----------------------------- MODULE RenderCache -----------------------------
(***************************************************************************)
(* The cache of rendered pages: articles.rendered_html, the edges of       *)
(* article_deps that say which pages must be rendered again when an        *)
(* article changes, and the handlers that render.                          *)
(*                                                                         *)
(*   internal/content/render_cache.go  rendering, saving, invalidating     *)
(*   internal/content/articles.go      create, update, delete              *)
(*   internal/content/tags.go          setting the tags of an article      *)
(*   internal/api/admin.go             renaming and deleting a tag         *)
(*   internal/api/articles.go          the view that fills the cache       *)
(*   cmd/gokych/main.go                the warm-up at the start            *)
(*                                                                         *)
(* A page is reduced to the revisions it was rendered from: of the article *)
(* and of the articles it includes (one level: an included page is         *)
(* rendered without a lookup of its own), and of the title and tags, which *)
(* appear in it as variables.  Every SQL statement outside a transaction   *)
(* is a step, and so is every transaction.  Articles that are not typst.   *)
(***************************************************************************)
EXTENDS Integers, FiniteSets

CONSTANTS
    Articles,      \* article ids
    Includes,      \* Includes[a][r]: the articles revision r of a includes
    Handlers,      \* goroutines that may render at the same time
    Ops,           \* what they may be started for
    Impatient,     \* may a client close its connection before the answer?
    Seeded,        \* articles that exist at the start, not rendered yet
    MaxRevision,   \* bound: revisions of an article
    MaxRequests,   \* bound: requests
    MaxCrashes     \* bound: ends of the process

AllOps == {"create", "update", "retitle", "retag", "tags", "delete", "view", "warm"}
Revisions == 0 .. MaxRevision

ASSUME RenderAssumption ==
    /\ MaxRevision \in Nat \ {0}
    /\ Includes \in [Articles -> [Revisions -> SUBSET Articles]]
    /\ Ops \subseteq AllOps
    /\ Impatient \in BOOLEAN
    /\ Seeded \subseteq Articles
    /\ MaxRequests \in Nat
    /\ MaxCrashes \in Nat

VARIABLES
    rev,         \* rev[a]: revisions of a committed, 0 before it exists
    meta,        \* meta[a]: changes of its title and tags
    gone,        \* articles that have been deleted
    rendered,    \* articles.rendered_html, NoPage for NULL
    links,       \* article_deps: pairs <<article, article it depends on>>
    proc,        \* the locals of every handler
    requests,    \* requests received so far
    warming,     \* the warm-up of this process has not begun yet
    crashes,     \* ends of the process so far
    disturbed    \* history: articles that changed under a render, see Disturb

db == <<rev, meta, gone, rendered, links>>
vars == <<db, proc, requests, warming, crashes, disturbed>>

-----------------------------------------------------------------------------
(* Data *)

(* What a page was rendered from; parts[d] = 0: d is not in it. *)
Pages == [parts : [Articles -> Revisions], meta : Nat]
NoPage == [parts |-> [d \in Articles |-> 0], meta |-> 0]

Exists(a) == rev[a] > 0 /\ a \notin gone

(* The revision of d a lookup finds: 0 when there is none. *)
Found(d) == IF Exists(d) THEN rev[d] ELSE 0

(* GetArticle: what a render of a starts from. *)
Loaded(a) == [parts |-> [d \in Articles |-> IF d = a THEN rev[a] ELSE 0],
              meta |-> meta[a]]

(* The includes a revision looks up: never the article itself. *)
Included(a, r) == Includes[a][r] \ {a}

Steps == {"reload", "invalidate", "load", "include", "clear", "link"}
Active == [pc     : Steps,
           op     : AllOps,
           art    : Articles,
           page   : Pages,              \* the render in progress
           wanted : SUBSET Articles,    \* includes to look up, edges to insert
           todo   : SUBSET Articles,    \* to invalidate, then to render
           seen   : SUBSET Articles]    \* visited by the invalidation
Idle == [pc |-> "idle"]

TypeOK ==
    /\ rev \in [Articles -> Revisions]
    /\ meta \in [Articles -> Nat]
    /\ gone \subseteq Articles
    /\ rendered \in [Articles -> Pages]
    /\ links \subseteq Articles \X Articles
    /\ proc \in [Handlers -> Active \cup {Idle}]
    /\ requests \in Nat
    /\ warming \in BOOLEAN
    /\ crashes \in Nat
    /\ disturbed \subseteq Articles

Init ==
    /\ rev = [a \in Articles |-> IF a \in Seeded THEN 1 ELSE 0]
    /\ meta = [a \in Articles |-> 0]
    /\ gone = {}
    /\ rendered = [a \in Articles |-> NoPage]
    /\ links = {}
    /\ proc = [h \in Handlers |-> Idle]
    /\ requests = 0
    /\ warming = TRUE
    /\ crashes = 0
    /\ disturbed = {}

-----------------------------------------------------------------------------
(* Rendering: RenderAndSave. *)

(* The handler starts to render a: the page as loaded, includes to look up. *)
Rendering(l, a) == [l EXCEPT !.pc = "include", !.art = a, !.page = Loaded(a),
                             !.wanted = Included(a, rev[a])]

(* The handler has rendered one page: the next, or it is done. *)
Continue(l) ==
    IF l.todo = {} THEN Idle ELSE [l EXCEPT !.pc = "load", !.page = NoPage]

(* renderAndSaveByID of the next page; one that is gone is passed over. *)
Load(h) ==
    /\ proc[h].pc = "load"
    /\ \E a \in proc[h].todo :
          LET l == [proc[h] EXCEPT !.todo = @ \ {a}] IN
          proc' = [proc EXCEPT ![h] = IF Exists(a) THEN Rendering(l, a) ELSE Continue(l)]
    /\ UNCHANGED <<db, requests, warming, crashes, disturbed>>

(* IncludeBySlug: one query per included article. *)
LookupInclude(h) ==
    /\ proc[h].pc = "include"
    /\ \E d \in proc[h].wanted :
          proc' = [proc EXCEPT ![h].page.parts[d] = Found(d), ![h].wanted = @ \ {d}]
    /\ UNCHANGED <<db, requests, warming, crashes, disturbed>>

(* Mutant: the page saved is the article as it is by now. *)
SavePageReloaded(h) ==
    /\ proc[h].pc = "include"
    /\ proc[h].wanted = {}
    /\ LET a == proc[h].art IN
       rendered' = IF Exists(a)
                   THEN [rendered EXCEPT ![a] = [proc[h].page EXCEPT !.parts[a] = rev[a]]]
                   ELSE rendered
    /\ proc' = [proc EXCEPT ![h].pc = "clear"]
    /\ UNCHANGED <<rev, meta, gone, links, requests, warming, crashes, disturbed>>

(* saveRenderedHTML: UPDATE articles SET rendered_html ... *)
SavePage(h) ==
    /\ proc[h].pc = "include"
    /\ proc[h].wanted = {}
    /\ LET a == proc[h].art IN
       rendered' = IF Exists(a) THEN [rendered EXCEPT ![a] = proc[h].page] ELSE rendered
    /\ proc' = [proc EXCEPT ![h].pc = "clear"]
    /\ UNCHANGED <<rev, meta, gone, links, requests, warming, crashes, disturbed>>

(* Mutant: the old edges are kept. *)
ClearLinksNot(h) ==
    /\ proc[h].pc = "clear"
    /\ proc' = [proc EXCEPT ![h].pc = "link",
                  ![h].wanted = {d \in Articles : proc[h].page.parts[d] > 0} \ {proc[h].art}]
    /\ UNCHANGED <<db, requests, warming, crashes, disturbed>>

(* ... DELETE FROM article_deps ... *)
ClearLinks(h) ==
    /\ proc[h].pc = "clear"
    /\ links' = {k \in links : k[1] # proc[h].art}
    /\ proc' = [proc EXCEPT ![h].pc = "link",
                  ![h].wanted = {d \in Articles : proc[h].page.parts[d] > 0} \ {proc[h].art}]
    /\ UNCHANGED <<rev, meta, gone, rendered, requests, warming, crashes, disturbed>>

(* Mutant: no foreign keys on article_deps. *)
InsertLinkUnchecked(h) ==
    /\ proc[h].pc = "link"
    /\ \E d \in proc[h].wanted :
          /\ links' = links \cup {<<proc[h].art, d>>}
          /\ proc' = [proc EXCEPT ![h].wanted = @ \ {d}]
    /\ UNCHANGED <<rev, meta, gone, rendered, requests, warming, crashes, disturbed>>

(* ... INSERT IGNORE: an edge of an article that is gone is dropped. *)
InsertLink(h) ==
    /\ proc[h].pc = "link"
    /\ \E d \in proc[h].wanted :
          /\ links' = IF Exists(d) /\ Exists(proc[h].art)
                      THEN links \cup {<<proc[h].art, d>>} ELSE links
          /\ proc' = [proc EXCEPT ![h].wanted = @ \ {d}]
    /\ UNCHANGED <<rev, meta, gone, rendered, requests, warming, crashes, disturbed>>

Finish(h) ==
    /\ proc[h].pc = "link"
    /\ proc[h].wanted = {}
    /\ proc' = [proc EXCEPT ![h] = Continue(@)]
    /\ UNCHANGED <<db, requests, warming, crashes, disturbed>>

-----------------------------------------------------------------------------
(* What a change of a disturbs: the renders under way that have read a or  *)
(* are going to.                                                           *)
Underway(h, x) == proc[h] # Idle /\ proc[h].art = x /\ proc[h].page.parts[x] > 0

Disturbs(a) ==
    {x \in Articles : \E h \in Handlers :
        /\ Underway(h, x)
        /\ x = a \/ a \in Includes[x][proc[h].page.parts[x]]}

Includers(a) == {x \in Articles : a \in Included(x, rev[x])}

(* An idle handler is started for article a. *)
Start(h, op, a, where) ==
    /\ op \in Ops
    /\ proc[h] = Idle
    /\ requests < MaxRequests
    /\ requests' = requests + 1
    /\ proc' = [proc EXCEPT ![h] =
          [pc |-> where, op |-> op, art |-> a, page |-> NoPage, wanted |-> {},
           todo |-> {a}, seen |-> {a}]]
    /\ UNCHANGED <<warming, crashes>>

(* CreateArticle: the transaction. *)
Create(h, a) ==
    /\ rev[a] = 0
    /\ rev' = [rev EXCEPT ![a] = 1]
    /\ Start(h, "create", a, "reload")
    /\ disturbed' = disturbed \cup Disturbs(a) \cup Includers(a)
    /\ UNCHANGED <<meta, gone, rendered, links>>

(* UpdateArticle with changed content: the transaction. *)
Update(h, a) ==
    /\ Exists(a)
    /\ rev[a] < MaxRevision
    /\ rev' = [rev EXCEPT ![a] = @ + 1]
    /\ Start(h, "update", a, "reload")
    /\ disturbed' = disturbed \cup Disturbs(a)
    /\ UNCHANGED <<meta, gone, rendered, links>>

(***************************************************************************)
(* UpdateArticle with the same content: the title changes, and that is     *)
(* all.  The handler has nothing left to do.                               *)
(***************************************************************************)
Retitle(h, a) ==
    /\ "retitle" \in Ops
    /\ proc[h] = Idle
    /\ requests < MaxRequests
    /\ requests' = requests + 1
    /\ Exists(a)
    /\ meta' = [meta EXCEPT ![a] = @ + 1]
    /\ disturbed' = disturbed \cup {a}
    /\ UNCHANGED <<rev, gone, rendered, links, proc, warming, crashes>>

(* renameTag, deleteTag: the tag of the articles in S, and no invalidation. *)
EditTag(h, S) ==
    /\ "tags" \in Ops
    /\ proc[h] = Idle
    /\ requests < MaxRequests
    /\ requests' = requests + 1
    /\ S # {} /\ \A a \in S : Exists(a)
    /\ meta' = [a \in Articles |-> IF a \in S THEN meta[a] + 1 ELSE meta[a]]
    /\ disturbed' = disturbed \cup S
    /\ UNCHANGED <<rev, gone, rendered, links, proc, warming, crashes>>

(* SetArticleTags: the transaction, then InvalidateArticleCache. *)
Retag(h, a) ==
    /\ Exists(a)
    /\ meta' = [meta EXCEPT ![a] = @ + 1]
    /\ Start(h, "retag", a, "invalidate")
    /\ disturbed' = disturbed \cup Disturbs(a)
    /\ UNCHANGED <<rev, gone, rendered, links>>

(* DeleteArticle: ON DELETE CASCADE takes the edges on both sides along. *)
Delete(h, a) ==
    /\ Exists(a)
    /\ gone' = gone \cup {a}
    /\ rendered' = [rendered EXCEPT ![a] = NoPage]
    /\ links' = {k \in links : k[1] # a /\ k[2] # a}
    /\ Start(h, "delete", a, "invalidate")
    /\ disturbed' = disturbed \cup Disturbs(a) \cup Includers(a)
    /\ UNCHANGED <<rev, meta>>

(* GetArticle after the commit. *)
Reload(h) ==
    /\ proc[h].pc = "reload"
    /\ LET a == proc[h].art IN
       proc' = [proc EXCEPT ![h] =
          IF ~Exists(a) THEN Idle
          ELSE IF @.op = "create" THEN [Rendering(@, a) EXCEPT !.todo = {}]
          ELSE [@ EXCEPT !.pc = "invalidate", !.page = Loaded(a)]]
    /\ UNCHANGED <<db, requests, warming, crashes, disturbed>>

(***************************************************************************)
(* After the invalidation, an update renders the article as it was loaded  *)
(* before it and then the others; the others are loaded one by one.        *)
(***************************************************************************)
AfterInvalidation(l) ==
    LET others == [l EXCEPT !.todo = l.seen \ {l.art}] IN
    CASE l.op = "update" ->
            [others EXCEPT !.pc = "include",
                           !.wanted = Included(l.art, l.page.parts[l.art])]
      [] l.op = "retag"  -> [l EXCEPT !.pc = "load", !.todo = l.seen]
      [] OTHER           -> Continue(others)

(* Mutant: the walk does not remember where it has been. *)
InvalidateAgain(h) ==
    /\ proc[h].pc = "invalidate"
    /\ \E cur \in proc[h].todo :
          LET new  == {d \in Articles : <<d, cur>> \in links}
              next == [proc[h] EXCEPT !.todo = (@ \ {cur}) \cup new,
                                      !.seen = @ \cup new] IN
          /\ rendered' = [rendered EXCEPT ![cur] = NoPage]
          /\ proc' = [proc EXCEPT ![h] =
                         IF next.todo # {} THEN next ELSE AfterInvalidation(next)]
    /\ UNCHANGED <<rev, meta, gone, links, requests, warming, crashes, disturbed>>

(* Mutant: the walk stops after the first turn. *)
InvalidateAlone(h) ==
    /\ proc[h].pc = "invalidate"
    /\ \E cur \in proc[h].todo :
          LET next == [proc[h] EXCEPT !.todo = {}] IN
          /\ rendered' = [rendered EXCEPT ![cur] = NoPage]
          /\ proc' = [proc EXCEPT ![h] = AfterInvalidation(next)]
    /\ UNCHANGED <<rev, meta, gone, links, requests, warming, crashes, disturbed>>

(***************************************************************************)
(* InvalidateCacheCascading: breadth first over article_deps.  A step is   *)
(* one turn of its loop: an UPDATE of articles, a SELECT of article_deps.  *)
(***************************************************************************)
Invalidate(h) ==
    /\ proc[h].pc = "invalidate"
    /\ \E cur \in proc[h].todo :
          LET new  == {d \in Articles : <<d, cur>> \in links} \ proc[h].seen
              next == [proc[h] EXCEPT !.todo = (@ \ {cur}) \cup new,
                                      !.seen = @ \cup new] IN
          /\ rendered' = [rendered EXCEPT ![cur] = NoPage]
          /\ proc' = [proc EXCEPT ![h] =
                         IF next.todo # {} THEN next ELSE AfterInvalidation(next)]
    /\ UNCHANGED <<rev, meta, gone, links, requests, warming, crashes, disturbed>>

(* A view of an article that is not cached fills the cache, in a goroutine *)
(* of its own, from the article as the request loaded it.                  *)
View(h, a) ==
    /\ "view" \in Ops
    /\ proc[h] = Idle
    /\ requests < MaxRequests
    /\ requests' = requests + 1
    /\ Exists(a)
    /\ rendered[a] = NoPage
    /\ proc' = [proc EXCEPT ![h] =
          [pc |-> "include", op |-> "view", art |-> a, page |-> Loaded(a),
           wanted |-> Included(a, rev[a]), todo |-> {}, seen |-> {}]]
    /\ UNCHANGED <<db, warming, crashes, disturbed>>

(* WarmCache, once per process: renders what is not cached when it begins. *)
Warm(h) ==
    /\ "warm" \in Ops
    /\ warming
    /\ warming' = FALSE
    /\ proc[h] = Idle
    /\ LET uncached == {x \in Articles : Exists(x) /\ rendered[x] = NoPage} IN
       \/ uncached = {} /\ UNCHANGED proc
       \/ \E a \in uncached :
             proc' = [proc EXCEPT ![h] =
                [pc |-> "load", op |-> "warm", art |-> a, page |-> NoPage,
                 wanted |-> {}, todo |-> uncached, seen |-> {}]]
    /\ UNCHANGED <<db, requests, crashes, disturbed>>

(***************************************************************************)
(* The client has gone: net/http cancels the context of its request, and   *)
(* every statement the handler has not executed yet fails.  The fill after *)
(* a view and the warm-up have contexts of their own.                      *)
(***************************************************************************)
ClientGone(h) ==
    /\ Impatient
    /\ proc[h] # Idle
    /\ proc[h].op \notin {"view", "warm"}
    /\ proc' = [proc EXCEPT ![h] = Idle]
    /\ disturbed' = LET a == proc[h].art IN
          disturbed \cup {a} \cup proc[h].seen \cup proc[h].todo
                    \cup {x \in Articles : rendered[x].parts[a] > 0}
    /\ UNCHANGED <<db, requests, warming, crashes>>

(* The process ends; every handler is where it is, and the next process    *)
(* starts with the tables as they are.                                     *)
Crash ==
    /\ crashes < MaxCrashes
    /\ crashes' = crashes + 1
    /\ warming' = TRUE
    /\ proc' = [h \in Handlers |-> Idle]
    /\ disturbed' = IF \A h \in Handlers : proc[h] = Idle THEN disturbed ELSE Articles
    /\ UNCHANGED <<db, requests>>

-----------------------------------------------------------------------------
Request(h) ==
    \/ Warm(h)
    \/ \E a \in Articles :
          \/ Create(h, a) \/ Update(h, a) \/ Retitle(h, a) \/ Retag(h, a)
          \/ Delete(h, a) \/ View(h, a)
    \/ \E S \in SUBSET Articles : EditTag(h, S)

Step(h) ==
    \/ Reload(h) \/ Invalidate(h) \/ Load(h) \/ LookupInclude(h)
    \/ SavePage(h) \/ ClearLinks(h) \/ InsertLink(h) \/ Finish(h)

Next == Crash \/ \E h \in Handlers : Request(h) \/ Step(h) \/ ClientGone(h)

Spec == Init /\ [][Next]_vars

(* Goroutines are scheduled; what starts or ends them is not the program's. *)
FairSpec == Spec /\ \A h \in Handlers : WF_vars(Step(h))

-----------------------------------------------------------------------------
(* Properties *)

Quiet == \A h \in Handlers : proc[h] = Idle

(* What rendering a now would give. *)
Fresh(a) ==
    [parts |-> [d \in Articles |->
                  IF d = a THEN rev[a]
                  ELSE IF d \in Included(a, rev[a]) THEN Found(d) ELSE 0],
     meta |-> meta[a]]

(***************************************************************************)
(* When no handler runs, a cached page is what rendering it again would    *)
(* give, unless something it is made of changed while it was rendered, or  *)
(* changed in a way nothing follows (a title alone, the name of a tag, an  *)
(* included article that came or went), or the handler that was to follow was cut short.    *)
(* In particular an update reaches every page that includes the article,   *)
(* through edges other renders replace meanwhile.                          *)
(* (InvalidateCacheCascading, UpdateArticle, RenderAndSave.)               *)
(***************************************************************************)
PagesFollowEdits ==
    Quiet => \A a \in Articles \ disturbed :
        rendered[a] # NoPage => rendered[a] = Fresh(a)

(***************************************************************************)
(* The edges of such a page are those of its includes: no more, or every   *)
(* edit would render it in vain, and no less, or the next one would miss   *)
(* it.  (saveRenderedHTML.)                                                *)
(***************************************************************************)
EdgesMatchPages ==
    Quiet => \A a \in Articles \ disturbed :
        rendered[a] # NoPage =>
            {k[2] : k \in {l \in links : l[1] = a}}
                = {d \in Articles \ {a} : rendered[a].parts[d] > 0}

(***************************************************************************)
(* A cached page is of a piece, however the renders overlap: made from one *)
(* committed revision of its article and, of the articles that revision    *)
(* includes and no others, committed revisions.  (RenderAndSave renders    *)
(* what GetArticle returned.)                                              *)
(***************************************************************************)
OfAPiece(page, a) ==
    /\ page.parts[a] > 0
    /\ page.meta <= meta[a]
    /\ \A d \in Articles :
          /\ page.parts[d] <= rev[d]
          /\ page.parts[d] > 0 /\ d # a => d \in Includes[a][page.parts[a]]

PagesOfAPiece == \A a \in Articles : rendered[a] # NoPage => OfAPiece(rendered[a], a)

(***************************************************************************)
(* What the proofs add: the page a handler is rendering is of a piece      *)
(* already, and what it still looks up is what its revision includes.      *)
(***************************************************************************)
Piece(l) ==
    /\ l.pc \in {"include", "clear", "link"} => OfAPiece(l.page, l.art)
    /\ l.pc = "include" => l.wanted \subseteq Included(l.art, l.page.parts[l.art])
    /\ l.pc = "invalidate" /\ l.op = "update" => OfAPiece(l.page, l.art)

PiecesInHand == \A h \in Handlers : Piece(proc[h])

(***************************************************************************)
(* Nothing is cached of a deleted article and no edge leads to or from it, *)
(* although renders that began before the deletion still save their page   *)
(* and their edges.  (DeleteArticle, the foreign keys of article_deps.)    *)
(***************************************************************************)
DeletedLeavesNothing ==
    \A a \in gone : rendered[a] = NoPage /\ \A k \in links : k[1] # a /\ k[2] # a

(***************************************************************************)
(* Every handler gets to its end, also when articles include each other in *)
(* a circle.  (InvalidateCacheCascading's visited set.)                    *)
(***************************************************************************)
HandlersEnd == <>[]Quiet

-----------------------------------------------------------------------------
(* What comments and docs say of the code and the code does not do.        *)

(***************************************************************************)
(* schema.go: "when article X changes, every article that depends on X     *)
(* must have its rendered_html cleared and re-rendered".  So once all is   *)
(* quiet, no page shows an old revision of what it includes.               *)
(***************************************************************************)
DependentsRendered ==
    Quiet => \A a \in Articles : \A d \in Articles \ {a} :
        rendered[a] # NoPage /\ rendered[a].parts[d] > 0
            => rendered[a].parts[d] = Found(d)
=============================================================================

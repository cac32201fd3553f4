# GoKYCH in TLA+

GoKYCH is a wiki: a Go server on MySQL that stores articles in several markup
languages, renders them, compiles typst articles with the typst command line in
the background, and keeps a history of every article. This directory holds
TLA+ modules translated from the Go source, the TLC configurations that check
them on small instances, and proofs the TLA+ proof system checks for every
instance. `PROJECT.json` maps every definition to the lines it stands for.

    tlc -config typst_workers.cfg MCTypstQueue.tla      # a run
    tlapm TypstQueue_proofs.tla                         # a proof module

Contents: 1 the system, 2 what makes it hard, 3 the modules, 4 the runs,
5 fairness, 6 what is proved, 7 where code and text disagree, 8 what is left
out, 9 the plan.

## 1. The system

| Component | State it keeps | Operations | Correct when |
|---|---|---|---|
| Typst queue and workers (`internal/typst/worker.go`) | `typst_compile_queue` (status, attempts), worker goroutines | enqueue, claim, finish, retry, cascade to dependents, recovery at start, stop | no row is lost or stranded, retries and cascades end, the last revision gets compiled |
| Typst compilation (`typst.go`, `resolve.go`) | `typst_cache` (HTML, PDF, dependencies), `article_deps`, workspace files | resolve `@import`s, compile, store, walk dependents | only complete, acyclic documents are published; nothing of a deleted article |
| Article handlers (`content/articles.go`, `api/articles.go`) | `articles` | create, update, restore, delete, view, recompile | every change reaches what shows it |
| Revision history (`content/revisions.go`) | `article_revisions`: snapshots and diffs | append in the writer's transaction, rebuild, restore | every revision can be rebuilt as it was saved |
| Render cache (`content/render_cache.go`) | `articles.rendered_html`, `article_deps` | render and save, invalidate with cascade, fill after a view, warm up | a cached page is what rendering would give, its edges are its includes |
| Tags (`content/tags.go`, `api/admin.go`) | `tags`, `article_tags` | set, rename, delete | pages that show a tag follow it |
| Process (`cmd/gokych/main.go`, `internal/restart`) | pool, workers, HTTP server | start, warm-up, shutdown, restart after an update | restart loses nothing |
| Accounts (`internal/auth/*`, `api/auth.go`, `api/middleware.go`, `api/admin.go`, `api/passkey.go`, `api/apikey.go`) | users, passkeys, API keys; the session is a cookie the browser keeps | login, rotation, forced logout and reset, roles, creation and deletion, profile, passkey ceremonies, keys | nobody acts on a session that was ended, roles are what was granted, no password is lost, there is always an owner |
| Login limiter (`auth/ratelimit`) | failures and lockouts in memory | check, record, reset, sweep | failures are counted and bounded |
| Discussions, comments, ratings (`content/*`, `api/*` of the same names) | threads, replies, counter, remarks, votes | create, reply, delete, remark, vote | counters equal what they count, nothing outlives its article |
| Article responses (`api/articles.go`) | `updated_at`, ETag | conditional GET | a 304 is never a lie |
| Frontend revalidation (`api/revalidate.go`, `web/app/revalidate`) | POSTs under way, pages the Next.js frontends keep | purge after a change | frontends follow the API |
| Settings and themes (`core/settings`, `core/themes`, `api/themes.go`, `api/site.go`) | `settings.yml`, one directory per theme | form, source, activate, install, drop, reset | no change is lost, the active theme has a stylesheet |
| Files (`api/files.go`) | records and files named by their hash | upload, delete | a record has its file |
| Sidebar cards, links, features (`api/sidebar_cards.go`, `api/admin.go`) | rows | add, change, delete | the home page follows them |
| Self-update (`api/updater.go`) | status of the one job, partial download, binary and backup | check, apply, resume, replace, restart | a binary to start at any moment, and a whole one |
| Database export and import (`api/database.go`) | whole tables | export, import | an import leaves chains that rebuild |
| Wikidot parser (`content/parsers/wikidot_*.go`) | stored blocks, footnotes and headings of a render; a pool of parsers and one table of variables shared by all | render a page: phases, nested calls, includes | every placeholder comes back, notes and headings are found, renders do not touch each other |
| Other parsers | none | markup to HTML | pure functions |
| Frontend (`src/web`) | server cache of the Next.js client | fetch, store, expire | external |

How they interact: a handler commits its change in a transaction (article, tags,
revision row), and then, outside it, invalidates `rendered_html` of the article
and of everything `article_deps` says depends on it, renders those again, and for
typst articles puts rows into the compile queue. Worker goroutines claim rows,
read sources and imports, run the CLI, store the result in `typst_cache` and
`rendered_html`, enqueue the dependents and run a hook of `main.go` that renders
pages. A view reads the cache and, finding nothing, fills it in a goroutine of its
own or enqueues a compile. Nothing but the row locks of one transaction
coordinates these; foreign keys with ON DELETE CASCADE clean up after a deletion,
whoever still writes. A request passes a middleware that turns its cookie or its
API key into a caller; handlers decide on what they read there. Changes of what
the frontends keep are POSTed to each of them by a goroutine. A render of wikidot
markup takes a parser from a pool and calls itself for what is nested.

## 2. What makes it hard

* **Interleaving.** Apart from a few transactions every SQL statement commits by
  itself: storing a result takes five of them, a cascade any number. Two workers,
  several handlers and the fill after a view write the same rows.
* **Stale reads.** Dependents are looked up in tables that the same operation, or
  another one, has just deleted; results are saved for articles changed meanwhile.
* **Crash and restart.** The queue outlives the process; recovery runs once.
* **Retries and cascades** must come to an end although each compile enqueues others.
* **Cancelled requests.** When the client leaves, the request's context fails
  every later statement: an operation stops half-way.
* **Failing statements.** Most errors after the commit of a change are logged or
  dropped, and the code goes on with the next statement.
* **Locks and a bounded pool** shared by transactions that take a second connection.
* **Copies.** A session is a cookie: overlapping requests work on copies and the
  last answer wins. Settings are read, changed and written back whole. Frontends
  store pages they fetched before a purge.
* **Files without transactions**: emptied before they are written, removed one
  entry after the other, recorded in a table by another statement.
* **Time in whole seconds** for kicks, ETags and limits.
* **Order of phases.** The parser finishes constructs in an order that is not the
  text's; what it numbers, stores and restores must still fit together.

`PROJECT.json` lists the single hazards at their lines with the properties that
cover them, or why none does yet.

## 3. The modules

    TypstBuilds      what a compiled document is made of and when it is sound
      Publication    abstract specification: what readers are promised
      TypstQueue     queue, workers, resolution, handlers, crash; implements Publication
        TypstQueue_proofs
    VersionHistory   abstract specification: what readers of the history are promised
    Revisions        transactions, locks, pool, chain of revisions; implements VersionHistory
        Revisions_proofs
    RenderCache      rendered_html, its edges, the handlers that render
        RenderCache_proofs
    SelfUpdate       job slot, partial file, renames, restart, crash
        SelfUpdate_proofs
    LoginLimiter     the limiter's state and methods
      Accounts       users, sessions, passwords, passkeys, keys; calls the limiter
        Accounts_proofs
    Frontends        purges, fetches and copies of the pages
      Community      discussions, comments, ratings, ETags; announces to Frontends
        Community_proofs
      Site           settings, themes, files, home page; announces to Frontends
        Site_proofs
    Wikidot          renders of the wikidot parser, several at a time
        Wikidot_proofs
    MCTypstQueue, MCRevisions, MCRenderCache,
    MCAccounts, MCSite, MCWikidot               small instances for TLC

`SelfUpdate` and `Community` need no constants but sets and numbers, which their
configurations give; they are checked directly.

Common conventions. A goroutine is a record `proc[p]` with a program counter and
the locals it carries from one step to the next; a step is one SQL statement
outside a transaction, or a transaction. Text is reduced to what the properties
tell apart: a revision number (with constant functions that say what a revision
imports or includes), or a member of a small set of contents. Article ids are
never reused.

### TypstQueue

| TLA+ | code |
|---|---|
| `status`, `attempts` | a row of `typst_compile_queue` |
| `cache`, `rendered`, `links` | `typst_cache`, `articles.rendered_html`, `article_deps` |
| `rev`, `gone` | revisions committed, articles deleted |
| `Claim`, `ReadSource`, `LookupImport`, `ResolveError`, `Compile`, `StoreCache`, `ClearLinks`, `InsertLink`, `AfterCompile`, `MarkSuccess`, `MarkError` | the life of a job: `runWorker`, `claimNextJobCtx`, `compileAndStoreCtx`, `resolveDependenciesCtx`, `compileBothCtx`, `storeCompileResultCtx` |
| `Walk`, `EnqueueDependent`, `Rewalk`, `Sweep` | `InvalidateDependentsCtx`: walk, enqueue each, walk again, delete from the cache |
| `Create`, `Update`, `Reload`, `InvalidateRendered`, `DropCache`, `Requeue`, `Delete`, `Retag`, `Recompile`, `View`, `LookAtCache` | the handlers |
| `Stop`, `Exit`, `Restart`, `Recover` | SIGTERM or restart hook, end of the process (also a kill), `StartWorker`, `recoverStaleJobs` |
| `WarmUp`, `WarmPage` | the typst half of `WarmCacheCtx`: the one query (what it found is `warm`), and the UPDATE of each page it found |
| `ClientGone` | the request's context is cancelled: statements fail, except those that use `context.TODO()` |
| `ClaimUnanswered`, `CompileFails`, `StoringGoesOn`, `ReportFails`, `CascadeFails` | a statement of a worker fails: the answer to the COMMIT of a claim is lost; the error of a compile; edges, a page or (in the hook) `rendered_html` are not written and the job goes on; the final UPDATE is only logged (`worker.go:312-314`, `323-325`); a walk, an enqueue or a removal of the cascade is passed over |
| `InvalidationFails`, `HandlerFails` | a statement of a handler fails after its commit |
| `CliChange` | the CLI appears or disappears between two looks at `Available()` |

The dependency walk is not an action of its own: the breadth-first search of
`transitiveDependents` runs on one map read by one query, so `Dependents` is the
least closed set over `cache` at that moment. The imports are read one query at a
time (`LookupImport`), so edits interleave with a resolution. A compile may fail
because a revision is `Broken`, or for no visible reason if `Flaky`. The age test
of `recoverStaleJobs` is a choice of any subset of the orphaned rows. Only typst
articles are modelled here; a change of the title alone does nothing to the
pipeline; a restore does to it what an update does. Which statements may fail is the
constant `Failing`. `disturbed` is a history variable: articles a compile of which met
a concurrent change, or for which a statement failed that was to enqueue them or to
write their page. `orphaned` and `abandoned` are the rows that an ended process and a
live one have left "compiling": a live one in two ways, when its final UPDATE fails and
when the answer to the COMMIT of its claim is lost. Nothing takes up such a row but the
next enqueue, the deletion of the article, or recovery after the next start.

### Revisions

| TLA+ | code |
|---|---|
| `article`, `chain` | rows of `articles` and `article_revisions` |
| `Connect`, `Lock`, `LoadChain`, `ReadLast`, `Save` | `BeginTx` on a free connection; `SELECT ... FOR UPDATE`; `GetAllRevisionsForArticleCtx` on a second connection and `RebuildToSeq`; the last seq; the new row, the article and the commit |
| `Create`, `Delete` | the transactions of `CreateArticleCtx` and `DeleteArticleCtx` |
| `Fail` | time-out or a client that has gone: rollback |
| `Connections`, `ConnectionFree`, `Wedged` | `SetMaxOpenConns` (`db.go:78`); handlers are not bounded. `Wedged`: no connection is free and all who hold one wait, for a second one or for the row lock of one who does |
| `ShouldSnapshot`, `NewRow`, `ApplyPatch`, `Rebuilt` | the functions of `revisions.go` |
| `Shown` | what `getRevision` answers for every seq: the row's title, the rebuilt content |
| `history` | history variable: what each revision was saved as |

A diff is the pair of contents it was computed from and applies to the first
only; the text format of the diff library is left out. The lock is held from
`FOR UPDATE` to the commit, and the first consistent read of the transaction
comes after it, so `ReadLast` sees what the previous holder committed.

### RenderCache

| TLA+ | code |
|---|---|
| `rendered`, `links` | `rendered_html`, `article_deps` |
| `rev`, `meta` | revisions; changes of title and tags, which pages show as variables |
| `Reload`, `Invalidate`, `Load`, `Include`, `SavePage`, `ClearLinks`, `InsertLink`, `Continue` | `GetArticleCtx`; one turn of `InvalidateCacheCascadingCtx`; `RenderAndSaveCtx` and `saveRenderedHTMLCtx` |
| `Create`, `Update`, `Retitle`, `Retag`, `Delete`, `View`, `Warm` | the handlers, the fill after a view, the warm-up of articles that are not typst |
| `EditTag` | `renameTag` and `deleteTag`: one transaction that changes what the pages of any set of articles show, and invalidates none |
| `ClientGone`, `Crash` | cancelled request, end of the process |

One turn of the invalidation, an UPDATE and a SELECT on different tables, is one
step. An included page is rendered without includes of its own, so one level is
enough. A restore shares the path of an update. `disturbed` collects the articles
whose page may differ from a fresh one for a reason the code knowingly or
unknowingly leaves open: a title that changed alone, a tag renamed or deleted, an
included article created or deleted, a change during the render, a handler cut
short, a crash.

### SelfUpdate

| TLA+ | code |
|---|---|
| `bins`, `parts`, `content` | the names `binary`, `binary.prev`, ... and `.gokych-update-<version>.part`, and the files they stand for |
| `run`, `up`, `restarting`, `closed` | the running binary with the name the kernel reports for it; the process; the timer and the closed database of the restart hook |
| `status`, `version`, `proc` | `updateJobState`; the locals of each handler and its job |
| `Apply`, `Start`, `Fail` | `applyUpdateHandler`: the slot tested, the slot taken, an error before or in the job |
| `Fetch`, `Open` | `runUpdate`: the release and its asset; `cleanupStaleParts` and `OpenFile` |
| `Stat`, `Broken`, `BeyondTheEnd`, `FromTheStart`, `Resume`, `Receive`, `Received` | `downloadToFileWithProgress`: size of the file, no answer, 416, 200, 206, a chunk, the end of the body |
| `Unverified`, `Verify`, `Chmod`, `Backup`, `BackupCopies`, `Replace`, `ReplaceFails`, `Finish` | the rest of `runUpdate` |
| `RestartBySystemd`, `RestartByExec`, `RestartFails`, `Boot`, `Crash` | the hook of `main.go` and `internal/restart`; the start by systemd; any end of the process |

A binary is a sequence of chunks, each of which knows its version and place, so a
chunk written twice, left out or put behind a hole is seen. Writes go to where the
descriptor is; renames move names and leave descriptors and running code with
their files. On Linux `os.Executable` reads `/proc/self/exe`, which follows a
rename; the number of `.prev` behind a name is what it reports. The server is
taken to answer as HTTP demands (a 206 continues where it was asked to). The copy that
stands in for the first rename may not be made at all or break off after any chunk,
because `updater.go:779-786` looks at none of its errors, and the rename that undoes a
failed replacement may fail too (`updater.go:797`). Three history variables say so:
`torn`, files that are a broken-off copy; `unsaved`, that a job went on without a whole
backup; `interrupted`, that a job left no binary behind. A loss of power and other
writers in the directory are not modelled.

### LoginLimiter and Accounts

| TLA+ | code |
|---|---|
| `users`, `passkeys`, `keys` | the tables; a password is the number under which it was generated, `cut` is `session_invalidated_at` |
| `jar` | what each browser keeps: `id`, `login` and `last` second, whether there is a CSRF token, the keys of captcha and ceremonies |
| `req` | a request: caller `by` and cookie `mem` as the middleware left them, the answer's cookie `out`, the password `tell` it shows |
| `Arrived`, `Take`, `Step`, `Answer` | `loadCurrentUser`, `csrfMiddleware`, `require...`; a handler's first statement; the next; the answer reaching the browser |
| `SessionUser`, `KeyUser`, `Cleared` | `CurrentUserCtx`, `VerifyCtx`, `ClearInvalidated` |
| `Login`, `VerifyPassword`, `PasskeyGate`, `RotateForLogin`, `OpenSession` | `postLogin` |
| `FinishRegistration`, `SaveCredential`, `FinishPasskeyLogin`, `ValidateAssertion`, `PersistSignCount` | the ceremonies |
| `CreateUser`, `Target`, `WriteRole`, `WriteDelete`, `WriteFlag`, `WriteKick`, `WriteRotate` | the handlers of `admin.go`: target looked up, then written |
| `ChangePassword`, `VerifyOld`, `UpdateProfile`, `WriteProfile` | what users do to themselves |
| `failures`, `ipFailures`, `lockouts`; `CheckAllowed`, `Checked`, `RecordFailure`, `Reset`, `Cleanup` | the limiter: each method holds its mutex, so each is one step |

The server keeps nothing of a session, so nothing is atomic about it: an answer
computed before a kick still sets the old cookie after it. `PersistSession` runs
after the handler, and an answer with a body has sent its headers by then, so only
answers without one carry the idle timer. One client address is modelled.

### Frontends and Community

| TLA+ | code |
|---|---|
| `shown[p]` | how often what the API answers for page `p` has changed |
| `copy`, `fetch` | the page a frontend keeps, the one it has read and not stored (external) |
| `purges`; `Revalidate`, `Deliver`, `Undelivered` | POSTs of `revalidateFrontend`, each sent once |
| `Unannounced` | a change no purge is sent for |
| `articles`, `comments`, `ratings`, `threads`, `replies` | rows, known by id; a slug deleted and made again is another row |
| `Remark`, `WriteComment`, `WriteRating`, `DeleteRating`, `ReadBack`, `Purge` | `addComment`, `setRating`, `deleteRating`: slug to id, the write, the row read back, the purge |
| `Edit`, `WriteText`, `DeleteArticle`, `CreateArticle` | the commit of a change of an article |
| `ReadBack` | `getCommentByIDCtx`, the summary of a rating, `GetArticleCtx` after a commit: when it fails the answer is a 500 and nothing is purged, although the change is committed |
| `Render`, `RenderedFor`, `Untold` | the article and what includes it are rendered and saved; the purge that follows names the article alone (`revalidate.go:70-91`), and after a restore there is none |
| `Compiled` | the hook of a typst compile that has ended: pages change, nobody is told |
| `SaveRendered` | a page filled after a view: `updated_at` changes, the answer does not |
| `GetArticle`, `ETag` | a conditional GET: `id` and `updated_at` in seconds |
| `CreateDiscussion`, `InsertDiscussion`, `OnDiscussion`, `InsertReply`, `CountReply`, `DeleteDiscussion` | `discussions.go` |

`missed`, `uncounted` and `hurried` are history: copies no purge will drop, replies
whose count failed, articles changed twice within a second. A process that ends
between a commit and its purge comes to the same as a read-back that fails, so there is
no action for it. `NotModifiedHolds` is about the text of the article, which the ETag is
made for; comments, votes and included pages change what is shown and not the ETag.

### Site

| TLA+ | code |
|---|---|
| `yml` | `settings.yml`: empty, torn or whole, and the three keys somebody changes alone |
| `themes` | `theme.yaml` there or not; `theme.css` without directory, missing, empty, partly or wholly written |
| `disk`, `files` | the file under its hash, the row of `static_files` |
| `listed` | how many rows the home page lists: cards, links, features, notices. Their order is left out |
| `Shows` | what `getSite` answers of the settings: theme and features; not where updates come from |
| `Truncate`, `Write`, `WriteFails` | `os.WriteFile` in `Save` |
| `SaveForm`, `SetSource`, `Activate`, `LoadToActivate` | load, change, save |
| `DropTheme`, `DropManifest`, `DropRest`, `DropStatic`, `DropFails`, `LoadToReset` | `Delete`: `RemoveAll` entry by entry, `static/` or `theme.yaml` first, then the active theme reset to the default; when it fails part-way the answer is a 400 and nothing is reset |
| `Install`, `EmptyCSS`, `FillCSS` | an uploaded theme unpacked |
| `Upload`, `CopyUpload`, `InsertFile`, `DeleteFile`, `DeleteRecord`, `Unlink` | `files.go` |
| `AddItem`, `ChangeItem` | a row inserted; a row changed or deleted |
| `Crash` | end of the process with its requests and POSTs, and the next start |

`excused` and `mixed` are history: themes whose install or deletion failed half-way or
that the form named unchecked, and a file written from a copy that was not up to date.
`raced` of a request says that the theme it is going to write lost its stylesheet
meanwhile: the one it activates, or the one `setUpdateSource` has read and writes back
after a deletion has reset it.

### Wikidot

| TLA+ | code |
|---|---|
| a text | a sequence of tokens; markup that encloses something is a pair of tokens |
| `Pairs`, `Each` | `ReplaceAllStringFunc` over a pair, over a single construct |
| `blocks`, `storeBlock`, `Restore` | `wp.blocks` and the placeholders; phase 10, pass by pass |
| `frames` | the calls of `convertInternal` on the stack, each with the phase it is in |
| `parsers`, `wpPool` | a parser of its own for the page and for each page it includes; `wpGet`, `wpPut` |
| `inlineVars` | the package's table: set by every call that begins, cleared by every one that ends |
| `ctx` of a frame | the `RenderContext` of its parser: whose table, and whether there is a `PageLookup` |
| `by` of a token, `given` | the steps at which a variable was looked up; the table each such step found |
| `OpenText`, `Collapsibles`, `Tables`, `Include`, `Modules`, `Divs`, `Floats`, `Spans`, `Tabs`, `Anchors`, `Marks`, `Boxes`, `Lists`, `Restore`, `Close` | the phases in their order; a construct whose body is converted by a call of its own is left to `Within` |
| `Footnotes`, `FootnoteBlocks`, `References`, `Headings`, `TocHeadings`, `renderTOC`, `renderFootnoteList` | the functions of these names or phases |

Constructs that a phase treats alike are one token (`raw`: code, html and math;
`cell`: cells, captions, form texts; `span`: whatever `inlineOnly` is applied to in
place). What a construct looks like in HTML is left out. What `inlineOnly` makes of a
variable depends on whose table is there at that moment. The text therefore keeps the
steps that looked a variable up, and `given` the tables they found, of which the first
has replaced it: the same information as in the replaced text, and the rest of the
text is a function of the page.

### Publication

The abstract specification: `typst_cache` and `rendered_html` of an article
hold nothing or a complete document, built from committed revisions of the
article and all it imports, of an article that exists. It promises nothing about
how current a document is; that is `StaleOnlyIfDisturbed`, about what `getArticle`
shows (`Shown`).

### VersionHistory

The abstract specification of the history: an article has its version of now and
the versions it was saved as, and four operations (`Create`, `Write`, `Retitle`,
`Delete`). There are no rows, diffs, seqs, locks or connections in it. The refinement
maps `past` to what `getRevision` answers from the rows (`Shown`), not to the history
variable of Revisions, and so says that "the content is exactly what
articles.content was at that save" (`api/articles.go:828`).

## 4. The runs

A bound is a constant of the module (`Max...`, `Connections`, the sets of
goroutines, slots and articles); the modules have no other limit. `Ops`, `Calls`
and `Mixes` say which kinds of request an instance makes.

| Run | Instance | Shows |
|---|---|---|
| `typst_workers` | lib and doc, which imports lib; 2 workers, 1 handler; update, delete; clients leave; 1 request, 2 revisions; every statement may fail but those of the compile itself | `CompilingOwned`, `StaleOnlyIfDisturbed`, `DeletedLeavesNothing`: the two workers compile an article and what it imports while it is updated or deleted and statements fail |
| `typst_requests` | 1 worker, 1 handler, all six requests, 3 of them; lib exists, doc is created; the second revision of lib imports doc back (a cycle), that of doc is rejected; clients leave; edges that are not cleared and a cache that cannot be read | `PublishedSound` and the refinement `Publishes` |
| `typst_restarts` | as above without rejects, 1 update, flaky CLI that comes and goes, 2 tries, 1 end of the process at any step, recovery and warm-up after it; results and pages that cannot be stored; fair | `CompilingOwned`, `Quiesces` |
| `revisions_history` | 1 article, 2 handlers, 3 contents one of whose rewrites is bulky, 2 titles, snapshots every 4, 2 connections, requests while a chain has fewer than 3 revisions (so it reaches 4); fair, deadlock checked | the chain: `ChainLinked`, `SeqsNeverCollide`, `HistoryRebuilds`, `ShortRebuilds`, `RestoresTheTarget`, the refinement `KeepsVersions`, `Served` |
| `render_pages` | nav and page, which include each other in turns as they are revised; 2 handlers, all operations, 3 requests, clients leave, 1 crash; fair | `PagesFollowEdits`, `EdgesMatchPages`, `PagesOfAPiece`, `DeletedLeavesNothing`, `HandlersEnd` |
| `update_jobs` | 2 versions of 3 chunks, 1 handler, 3 requests, 3 tries per download, 3 names behind the binary's, 2 ends of the process at any step; fair | `InstalledWhole`, `Bootable`, `RunningKept`, `UpdateEnds` |
| `accounts` | an owner and a user in a browser each, a name that is free; 2 slots, 4 requests out of administration, profile, passwords and keys, 2 seconds | `OwnerRemains`, `RolesAsGranted`, `KicksHold` |
| `logins` | the same people; logins, captchas, passkeys, forced resets; 4 requests, 3 seconds; 1 failure allowed per user and 3 per address, in a window of 2 | `PasswordsReachable`, `FailuresBounded` |
| `community` | 1 article, 1 frontend, 2 users one of whom is an administrator, 2 slots, 3 requests of any kind or compiles that end, 2 seconds | `RepliesCounted`, `RemarksBelong`, `PagesFollow`, `NotModifiedHolds` |
| `site` | the built-in theme and one uploaded, 1 file content, 2 people, 1 frontend; 2 slots, 3 requests, 1 crash; four mixes of requests: settings and themes, themes, settings and home page, uploads and settings | `SettingsAsAsked`, `ActiveHasCSS`, `RecordsHaveFiles`, `HomeFollows` |
| `wikidot_pages` | every page made of two of 21 units that together hold every construct (nested, with variables, literals, notes, headings, lists of either, includes), a page it includes; 2 slots, 2 renders | `NothingLeaks`, `NotesFound`, `TocComplete`, `SamePage` |
| `wikidot_vars` | the same | expects `OwnVars` violated: section 7 |

Why the bounds are enough. Two articles give every shape the properties tell
apart: one imports the other, both import each other, one is created, deleted or
broken under the other. Two workers on one article, or a worker and a handler, are
the races; the cascade's bookkeeping is per goroutine, so a third adds nothing new
to the database. Two revisions per article tell old from new; every request adds
one. The chain of revisions reaches a snapshot at 1, two diffs in a row, a bulky
snapshot in between and the periodic snapshot at 4. Three requests let a third
arrive while two are at work or after a change, its invalidation and a view. One
crash at any step with a restart after it covers recovery, since recovery reads
nothing but the rows a crash leaves. Which statements fail is divided among the three
typst runs to keep each small; between them every one does, and the theorems have any
set of them. The warm-up next to two workers is left to `ReadersAreCurrent`. Two
connections for two writers are enough to run out of: two restores wedge the pool, and
one update waits for the connection another handler gives back. For the self-update three chunks have a
beginning, a middle and an end to resume at, three tries let one resume what another
has resumed, and two ends of the process leave a partial file to a job that
leaves it to a third. For the accounts, two requests at once are what a stale
read and a lost answer take; four let a deletion, a creation under the same name
and a third request meet; seconds matter only as the same, the next, or out of the
window. The limiter's own sizes (5 and 20 failures in 60 seconds, 10 to lock out)
are scaled down: the code compares with them and nothing else. Of the
community, an article deleted, made again and remarked on takes three requests. With
one article, that a page changes because of one it includes is seen as a change of its
own that is not announced; with two TLC does not end in useful time, and
`PagesAreFollowed` holds for any number.
What a site's request writes depends on one other request at most, and on a crash;
the mixes keep requests together that touch the same state. In the parser a
construct disturbs another by what it stores, numbers or converts, which two units
in either order, or one inside the other, show. The
theorems of section 6 hold without any of these bounds.

Symmetry: slots and workers are interchangeable in the runs that use it, all of
which check invariants only.

What the properties about readers do not say. `StaleOnlyIfDisturbed`,
`PagesFollowEdits`, `EdgesMatchPages`, `SettingsAsAsked`, `ActiveHasCSS`,
`RecordsHaveFiles`, `RolesAsGranted`, `PasswordsReachable`, `PagesFollow` and
`HomeFollows` except the races their hazards describe, because the code has these
races (section 7 lists them): they do not catch them. What they show is that there
are no others, that is, that whatever a race has not touched is as it should be,
through every interleaving, failure and crash of the instance. The exceptions are
history variables that only the steps of the race itself set.

Every property of a passing run has a mutant in `PROJECT.json`: a plausible bug in
a modelled function (a dropped lock, a missing foreign key, an invalidation that
does not cascade) with which TLC finds the property violated in the same run. The
mutants stand next to the definitions they change and are marked as such.

## 5. Fairness

Only the scheduler is trusted: a goroutine that has a step to do takes it
(`WF` on each worker's and each handler's steps; the Go scheduler is preemptive
and every statement has a time-out). For the process: one that was told to stop
exits, one that has ended is started again by systemd, and recovery, which
`StartWorker` runs in a goroutine, gets to run. Requests, crashes, clients leaving,
the warm-up and the CLI's appearance are the environment's and never forced.
`SelfUpdate` asks the same of a job: every request it waits for has a time-out or a
retry, and a retry is counted. What the restart hook and systemd do is not forced.
`Revisions` assumes strong fairness for taking a connection and a row lock:
`database/sql` serves waiting requests, and InnoDB waiting transactions, first
come first served, so a waiter whose turn comes again and again is not passed
over for ever. That does not save a pool that restores have wedged, since nobody in it
can move until a client leaves or a time-out fires, which is not forced: `Served`
excepts a wedge that lasts. In `Community`, `Site`, `Accounts` and `Wikidot` nothing is
forced; they have safety properties only.

## 6. What is proved

The proofs hold for every number of articles, goroutines, requests and crashes.
They assume what the modules' ASSUMEs say and nothing else: `BuildsAssumption`,
`ConstantsOK`, `RevisionsAssumption`, `RenderAssumption`, `UpdateAssumption`,
`LimiterAssumption`, `AccountsAssumption`, `CommunityAssumption` and
`SiteAssumption`, which give the constants their types, at least one revision, one
chunk and one try, disjoint sets of workers and handlers, finitely many slots, and
an owner among the accounts there are at the start.

* `TypstQueue_proofs`. `TypeCorrect`: a goroutine that is not idle has an article
  in hand at a known step. `NoStrandedRow` (`CompilingOwned`) and
  `NothingOfTheDeleted` by the inductive invariant `QueueInv`: `CompilingOwned`
  alone is not inductive, because an exit makes rows ownerless; it needs
  `OrphansCompiling`, that what is counted as orphaned does say "compiling", and
  the deletion needs `GoneWereCreated`, that what is gone once existed, so that no
  statement finds it again. One lemma per action. `ReadersAreCurrent`
  (`StaleOnlyIfDisturbed`) by `StaleInv`, about every article that is not disturbed:
  at most one worker holds it, its row says "compiling", and what the worker has read
  is current (`InGoodHands`); once its row says "success", either store and page
  are current or a handler still owes it a compile (`Settled`, `Owed`): the
  update that has yet to re-queue the article, has yet to look up who depends on it,
  or has looked and has yet to enqueue it. Every action that makes something old
  hands the debt on, pays it, or disturbs the article.
  `PublishedIsSound` and `PipelinePublishes`, the
  refinement of `Publication`, by `BuildInv`: what is published is sound *and* what
  each worker has in hand is so far (`BuildInHand`): only committed revisions while
  it resolves, a sound build once the compile has passed; *and* what the warm-up
  has read and not written is sound (`WarmSound`). A step of the pipeline
  maps to the step of `Publication` it publishes, removes or withdraws by, or to a
  stutter.
* `Revisions_proofs`. `Inv` is `TypeOK`, `LockExclusive` and `ChainLinked`
  together: a diff is right because the holder of the lock has read the content
  the article still has, and that content is the one the last row stands for.
  From it `LocksExclude`, `NoSeqTwice` and the action property `NothingRewritten`.
  `EveryRevisionRebuilds` (`HistoryRebuilds`): what `Rebuilt` computes from row to row is
  the only function that solves its recursion; by `ChainLinked` the saved contents
  solve it too, and if the two differed, they would at a least seq, where both are
  the same diff applied to the same content: a least element does for the
  induction that is out of the prover's reach. `RebuildsAreShort`: of the
  rows up to any one, the one at the last multiple of `SnapshotEveryN`, or else the
  first, is a snapshot and closer than `SnapshotEveryN`. `RestoresAreRight` by steps: the lock is held from
  the reading of the target to the write, and nobody else extends the chain.
  `HistoryKept` is the refinement of `VersionHistory` (`KeepsVersions`): by
  `EveryRevisionRebuilds` what is shown equals what was saved, and each step then is
  one of the four operations or a stutter; that every `Write` is a change needs
  `SavesAChange`, that what a handler is going to save differs from what it has read.
* `RenderCache_proofs`. `PagesAreOfAPiece` and `NothingOfTheDeleted`; the
  strengthening `PiecesInHand` says that the page a handler is rendering is of a
  piece already and what it has still to look up is what its revision includes.
  `EditsReachPages` and `EdgesOfPages` by `FollowInv`, about what nothing disturbed: a
  render under way has in hand the page it would get if it began now
  (`RendersFresh`); a walk begins at the article that changed and visits it once
  (`WalksWhole`); a cached page is fresh, or a handler has yet to clear it, as the
  article it changed or through the edges of one (`CachedFollow`). The last needs
  the edges to be those of the page, which they are not while a render
  replaces them; but then the page is what that render has just saved.
* `SelfUpdate_proofs`. `TypeCorrect` holds of the code as it is. `InstalledIsWhole`,
  `BinaryToStart` and `RunningIsKept` hold of every behaviour with one job at a
  time (`[]OneJob`): that is what the slot is for, and it does not ensure it
  (section 7); with two jobs TLC finds each of the three violated.
  `OneJobUnlessTogether` says that the window between the test of the status and
  its setting is all that is missing: unless two requests are in it together
  (`Apart`), the slot holds through failures, crashes and restarts (`SlotInv`). So
  the three hold of a server with one handler without more ado
  (`OneHandlerIsSafe`). The
  argument for the first is `DownloadInv`: partial files are separate from
  binaries, each holds a beginning of its asset, and a job's descriptor and
  counters agree with its length, so a file of full size is the asset, whether
  or not there was a hash to check. `BinaryInPlace` and `KeptAtItsName` say where
  the binaries are before, between and after the two renames, and that a job
  renames the name the running binary still has.
* `Accounts_proofs`. `TheOwnerRemains`, `RolesStay` (`RolesAsGranted`),
  `KicksAreKept` (`KicksHold`) and `PasswordsAreShown` (`PasswordsReachable`) by
  `Inv`. None is inductive: a handler writes what it decided on earlier, so
  `RequestsInv` says for each request under way what still holds of what it has
  read (the target of a role change or a deletion is not the first owner; the role a
  profile save carries is the granted one or the name is blurred; a password to be
  shown waits for an answer), `Rows` that ids are unique and never reused, that the
  cut of a row is as late as its last completed kick and that there is none of a row
  to come, and `Cookies` that a cookie naming a user has the second of its login, so
  that one opened before a kick is refused whichever answer put it back.
  `LimitsHold` (`FailuresBounded`) and `AddressLimitHolds` by a budget (`Counts`): the
  failures within the window and the attempts that have passed the check and not
  been counted are together fewer than the limit plus the slots. It rests on
  lemmas about `cleanOld`: what it returns is within the window, an entry more
  makes it longer by at most one, and time only makes it shorter.
* `Community_proofs`. `RepliesAreCounted`, `RemarksOfArticles`, `PagesAreFollowed` and
  `TagsAreOfTexts` by `Inv`. `Found` says that what a request has found of a row was
  there (and, ids never being reused, can only have gone); `Counted` is
  the equation between replies and counter with those whose UPDATE is to come, and
  that nothing is counted for an id yet to come; `IdsLeft` that ids do not run out
  before the requests do; `Follows` that an old copy of a page, or an old one about
  to be stored, has a purge to come or is accounted for in `missed`, and that a
  frontend fetches only what it does not keep; `Tags` that what a browser holds
  under an ETag is the text it stood for, or was overtaken within the second.

* `Site_proofs`. `SettingsAreAsAsked`, `ActiveThemeIsStyled`, `RecordedFilesAreThere`
  and `HomeIsFollowed` by `Inv`, which has a part for each and one (`State`) that
  says which steps an operation has. `SettingsInv`: every copy of the settings in
  hand that no save has overtaken is what was asked for but for its own key.
  `ThemesInv`: a request that is going to name a theme found it styled and would
  know had it gone; a theme without a stylesheet is being filled or its deletion is
  going to reset the settings. `FilesInv`: who relies on a file that is there holds
  off, or is counted among those crossed by, the deletion that unlinks it.
  `HomeInv`: the same argument as `Follows` of Community.
* `Wikidot_proofs`. `PagesAreTheSame` (`SamePage`), for any texts of the pages, any
  number of renders and of renders at a time: a parser of the pool is a clean one,
  because `wpPut` resets it; so the next state of a render is a function of its
  state and of the pages (`Advance`), and every render passes through the states any
  other render of its page passes through (`Rendering`). If two differed they would at
  a least step, where both have the same state before (`SameStates`); the last state is
  the only one that is done, so they end in the same one. Nothing is used of what
  the phases compute. `OwnVarsAlone`: as long as no two renders overlap, `OwnVars`
  holds, because every call under way has the table of the page (`Mine`) and
  the package's table is that one or none; the run `wikidot_vars` shows that two
  at a time are enough to break it.

The types, `LockExclusive` and `AppendOnly`, which the refinement contains, are proved
and not run.
Only model-checked:

* the liveness properties `Quiesces`, `Served`, `HandlersEnd`, `UpdateEnds` and
  `PagesRefresh`: fairness and ENABLED are beyond the prover;
* three properties of `Wikidot` (`NothingLeaks`, `NotesFound`, `TocComplete`): they are
  about what the phases compute, by folds over tokens, and hold for the texts
  `MCDocs` puts together, not for every sequence of tokens (a placeholder may stand in
  the source, a construct may be left open).

## 7. Where code and text disagree

The run `wikidot_vars`: `inlineVars` is one variable of the package that every call
of `convertInternal` sets when it begins and clears when it ends. A page rendered
meanwhile shows the variables of the other, or none, in cells, lists and modules.
`wikidot_main.go:951-954` says that renders do not share state. (A nested call
clears the table for the rest of its own page too; `SamePage` therefore says which steps
looked a variable up, not what they found.)

Stated in the modules without a run, with the instance on which TLC finds them
violated:

* `LastUpdateCompiled` (TypstQueue): an update during a compile re-queues the
  article, and the final UPDATE of the running job turns 'pending' into 'success'.
  One worker, one handler, one update of a seeded article.
* `StuckJobsReprocessed` (TypstQueue, FairSpec): recovery looks once and passes over
  young rows, so after a quick restart a row says 'compiling' for ever. One crash.
* The pool (Revisions, deadlock): as many restores as the pool has connections wait
  for each other. Two writers and two connections.
* `DependentsRendered` (RenderCache): the deletion takes the edges along before the
  invalidation reads them. One handler, two requests.
* `OneJob` (SelfUpdate): two requests test the job's status before either sets it, and
  two jobs write the same partial file and rename the same binary. Two handlers.
* `RestartsIntoTheUpdate` (SelfUpdate): after the renames the running binary is called
  `.prev`, so a restart by exec starts the old version again.

Met while modelling, and what the properties that hold except:

* A failed compile leaves no cache row, so the repair of what it imports does not
  find it as a dependent (`worker.go:98`).
* Two tables say who depends on a typst article, and they need not agree. An
  update drops pages along `article_deps` (`render_cache.go:196`) and enqueues along
  `typst_cache.dependencies` (`worker.go:98`). When the cache row of an article in the
  middle was dropped, what imports it loses its pre-rendered page and is not
  enqueued. Readers are still shown the compiled document, which is current
  (`api/articles.go:239`), so `StaleOnlyIfDisturbed` speaks of what is shown; the page
  is missing until the next warm-up. Three articles: y imports x and then does
  not, d imports y, two updates.
* The warm-up writes typst pages by id, however long after it has read them: an old
  page may replace the one a worker has just stored (`render_cache.go:321`).
  `StaleOnlyIfDisturbed` excepts the article when it does.
* A restore that differs in the title only changes nothing (`articles.go:473`).
* A client that leaves after the commit cancels the invalidation (`articles.go:354`).
* A second update before the restart of the first, or after a restart that failed,
  takes the backup for the binary and renames it to `.prev.prev` (`updater.go:296`).
* An enqueue during a compile makes the row claimable, so two workers do take one
  task (`worker.go:57`; docs/网站typst实现原理.typ:234 says SKIP LOCKED prevents it).
* The second dependency walk reads `typst_cache` again and may delete a row nobody
  enqueued (`typst.go:810`; `worker.go:85-86`: "so the two BFS walks stay identical").
* The upsert keeps `attempts`, so a job re-queued after three failures is tried once
  more and counted as 4/3 (`worker.go:57`).
* The fill after a view may save a page older than the one an update has rendered
  meanwhile (`api/articles.go:262`).
* A change of the title alone leaves pages that show the title (`articles.go:326`);
  so does renaming or deleting a tag (`admin.go:377`), which also purges no article
  of the frontends.
* A profile save writes back the role its caller had when the request came in, and
  undoes a role given meanwhile (`admin.go:924`; `RolesAsGranted` excepts it).
* A login that rotates a password and then cannot open its session leaves a password
  nobody was shown (`auth.go:382`; `lost`).
* Attempts that overlap pass the limiter together (`ratelimit.go:69`):
  `FailuresBounded` allows as many more as there are requests at once.
* A restore purges no page of the frontends (`api/articles.go:549`), and neither does
  a remark that was stored and could not be read back.
* Comments and votes do not change an article's ETag, so a 304 hides them
  (`api/articles.go:118`); two edits within a second share one.
* A reply whose UPDATE of the counter fails is never counted (`discussions.go:222`).
* Settings saved at the same time overwrite each other, and a read between the
  emptying of the file and its writing finds defaults (`settings.go:124`; `mixed`).
* The form may name a theme that is not there, and a theme may be activated while it
  is deleted (`themes.go:252`; `excused`).
* An upload that trusts a file another request then unlinks records a file that is
  not there (`files.go:258`; `crossed`), and so does a copy that breaks off (`spoiled`).
* A footnote whose text holds a stored construct shows its placeholder: the list is
  put together after the placeholders were replaced (`NothingLeaks` excepts it).
* If such a page is included, the placeholder that is left over is in a block of the
  including page and may have that block's own number. Phase 10 ("Loop until a full
  pass over the map makes no more substitutions", `wikidot_main.go:2137-2138`) then
  puts the block into itself and never ends. `Restore` does so too: page 1 is
  `<<Tok("include", 2)>>`, page 2 a footnote that holds a literal, one render.
* Footnotes and headings of nested constructs are numbered before those of the text
  around them; `[[footnoteblock]]` in a nested construct lists the notes so far and
  suppresses the list at the end.
* `[[footnote]]` takes the first number without a definition, where
  `wikidot_main.go:1532-1540` says it starts after the highest.
* Definitions of footnotes and variables inside `[[code]]` are taken out of it
  (`wikidot_main.go:976-986` says the code stays verbatim), and code inside a tab or an
  anchor is looked at again.
* Ids of headings collide between a page and the one it includes.

## 8. What is left out

Formats (markup, diffs, JSON, HTTP), wording, logging and metrics. Of the
modelled components: the files concurrent compiles share in a workspace, and the
slots of `compileSem`; dependencies between typst articles and others; the batch
limit of the warm-up; the ownership check before an edit; edges to user profiles
and page lists; the seeding of first revisions and the import; listings of
articles, users, tags and files; a tag that is made and set nowhere; the values of
a theme's own settings; notification texts. Of the accounts: signing and
encryption of the cookie (taken as unforgeable), other client addresses, the
captcha's image. Of the parser: what a construct looks like in HTML, the nesting of
lists and tables, a construct inside one of its own kind other than a div, note
texts other than words, literals, variables and references; bbcode, markdown and
the post-processing are functions of their text without state. Article ids are never
reused, so a slug created again after a deletion is a new article. The components
without a module are listed with the reason in `PROJECT.json`.

Two hazards have no property yet: the `.dep_N.typ` files of concurrent compiles
(`typst.go:260`; in the models a compile that may fail) and the rows an import skips
(`database.go:642`). The after-compile hook across the two kinds of article
(`main.go:134`) waits for the composition below.

## 9. The plan

In this order:

1. Seeding and import in Revisions (a gap in the chain makes `RebuildToSeq`, which
   goes by index, return another revision).
2. The composition of TypstQueue and RenderCache: one `article_deps` for both, with
   the after-compile hook and deletions across them.
3. `Workspace`: dependency files under concurrent compiles, and the slots of
   `compileSem`.
4. `DependencyWalk` and `ImportResolver`: the breadth-first walk and the
   depth-first resolution as algorithms against the set definitions used here.
5. List nesting of the parser as a function against a reference definition.

Proofs to come: of the composition (2), that an article of either kind is enqueued or
rendered again after what it depends on was deleted; of the walk (4), that the
breadth-first search of the code returns `Dependents`, by a loop invariant.

------------------------------ MODULE TypstQueue ------------------------------
(***************************************************************************)
(* The asynchronous typst compilation of GoKYCH: the queue table           *)
(* typst_compile_queue, the worker goroutines that drain it, the compiled  *)
(* output (typst_cache, articles.rendered_html, article_deps) and the HTTP *)
(* handlers that edit articles meanwhile.                                  *)
(*                                                                         *)
(*   internal/typst/worker.go        queue, workers, cascade               *)
(*   internal/typst/typst.go         storing a result, dependency walks    *)
(*   internal/typst/resolve.go       reading the @imports                  *)
(*   internal/content/articles.go    create, update, delete                *)
(*   internal/content/render_cache.go  invalidation, warm-up               *)
(*   internal/api/articles.go        view, recompile                       *)
(*   cmd/gokych/main.go              after-compile hook, start and stop    *)
(*                                                                         *)
(* Every SQL statement that runs outside a transaction is one step, and so *)
(* is every transaction.  The text of an article is reduced to its         *)
(* revision number: Imports and Broken say what a revision imports and     *)
(* whether the typst CLI rejects it.  A compiled document is reduced to    *)
(* the revision of each article it was built from (see Builds).  A         *)
(* statement may fail (a lost connection, a lock time-out): what the code  *)
(* does then, mostly to log it and go on, is a step of its own.            *)
(***************************************************************************)
EXTENDS TypstBuilds

CONSTANTS
    Workers,      \* worker goroutines (StartWorker's numWorkers)
    Editors,      \* HTTP handlers that may run at the same time
    Flaky,        \* may a compile of sound source fail (time-out, I/O)?
    CliStates,    \* the values Available() may return: a subset of BOOLEAN
    Ops,          \* the requests the handlers receive
    Impatient,    \* may a client close its connection before the answer?
    Failing,      \* the statements that may fail, named for their step
    Seeded,       \* articles already published and queued when the run starts
    FirstWarmUp,  \* is the warm-up of the first process still to come?
    MaxAttempts,  \* maxQueueAttempts
    MaxRequests,  \* bound: requests
    MaxCrashes,   \* bound: ends of the process
    Nobody        \* not an article

Procs == Workers \cup Editors
AllOps == {"create", "update", "delete", "recompile", "view", "retag"}

Steps == {"read", "resolve", "store", "clear", "link", "succeed", "fail",
          "reload", "invalidate", "drop", "requeue", "look",
          "walk", "enqueue", "sweep"}

(* "hook" is the UPDATE of the after-compile hook, "commit" the COMMIT of  *)
(* a claim or of a deletion, "warm" an UPDATE of the warm-up.              *)
Statements == Steps \cup {"hook", "commit", "warm"}

ASSUME ConstantsOK ==
    /\ Flaky \in BOOLEAN
    /\ CliStates \subseteq BOOLEAN
    /\ Ops \subseteq AllOps
    /\ Impatient \in BOOLEAN
    /\ Failing \subseteq Statements
    /\ Seeded \subseteq Articles
    /\ FirstWarmUp \in BOOLEAN
    /\ MaxAttempts \in Nat \ {0}
    /\ MaxRequests \in Nat
    /\ MaxCrashes \in Nat
    /\ Workers \cap Editors = {}
    /\ Nobody \notin Articles

VARIABLES
    rev,         \* rev[a]: revisions of a ever committed, 0 before it exists
    gone,        \* articles that have been deleted (an id is never reused)
    status,      \* typst_compile_queue.status, "none" without a row
    attempts,    \* typst_compile_queue.attempts
    cache,       \* typst_cache, NoBuild without a row
    rendered,    \* articles.rendered_html, NoBuild for NULL
    links,       \* article_deps: pairs <<article, article it depends on>>
    proc,        \* the program counter and locals of every goroutine
    up,          \* "running", "stopping" (workers cancelled) or "down"
    recovering,  \* recoverStaleJobs has been started and has not run yet
    warming,     \* the warm-up of this process has not read the tables yet
    warm,        \* the rows it has read and not written: warm[a], NoBuild for none
    cli,         \* what Available() returns
    requests,    \* requests received so far
    crashes,     \* ends of the process so far
    orphaned,    \* history: rows whose worker died with the row "compiling"
    abandoned,   \* history: rows a live worker has left "compiling"
    disturbed    \* history: articles whose compile met a concurrent change, or
                 \* of which a failed statement may have left something old

db == <<rev, gone, status, attempts, cache, rendered, links>>
env == <<up, recovering, warming, warm, cli, requests, crashes>>
hist == <<orphaned, abandoned, disturbed>>
vars == <<db, proc, env, hist>>

-----------------------------------------------------------------------------
(* Data *)

Statuses == {"none", "pending", "compiling", "success", "failed"}

Exists(a) == rev[a] > 0 /\ a \notin gone

(* The locals of a goroutine with an article in hand, and of one without. *)
Active == [pc    : Steps,
           req   : AllOps \cup {"job"},
           art   : Articles,
           todo  : SUBSET Articles,
           seen  : SUBSET Articles,
           built : Builds,
           tries : Nat]

Idle == [pc |-> "idle", req |-> "none", art |-> Nobody, todo |-> {},
         seen |-> {}, built |-> NoBuild, tries |-> 0]

NoRows == [a \in Articles |-> NoBuild]

InFlight(a) == \E w \in Workers : proc[w].art = a

CompilingRows == {a \in Articles : status[a] = "compiling"}

(***************************************************************************)
(* transitiveDependents over the map buildReverseDepMap reads from         *)
(* typst_cache.dependencies: the least set of articles, a excluded, that   *)
(* holds whatever depends on a or on a member.                             *)
(***************************************************************************)
DependsOn(d, x) == x \in Deps(cache[d], d)

ClosedUnder(S, a) == \A d \in Articles \ {a} :
                         (\E x \in S \cup {a} : DependsOn(d, x)) => d \in S

Dependents(a) == {d \in Articles \ {a} :
                      \A S \in SUBSET (Articles \ {a}) :
                          ClosedUnder(S, a) => d \in S}

TypeOK ==
    /\ rev \in [Articles -> Revisions]
    /\ gone \subseteq Articles
    /\ status \in [Articles -> Statuses]
    /\ attempts \in [Articles -> Nat]
    /\ cache \in [Articles -> Builds]
    /\ rendered \in [Articles -> Builds]
    /\ links \subseteq Articles \X Articles
    /\ proc \in [Procs -> Active \cup {Idle}]
    /\ up \in {"running", "stopping", "down"}
    /\ recovering \in BOOLEAN
    /\ warming \in BOOLEAN
    /\ warm \in [Articles -> Builds]
    /\ cli \in BOOLEAN
    /\ requests \in Nat
    /\ crashes \in Nat
    /\ orphaned \subseteq Articles
    /\ abandoned \subseteq Articles
    /\ disturbed \subseteq Articles

Init ==
    /\ rev = [a \in Articles |-> IF a \in Seeded THEN 1 ELSE 0]
    /\ gone = {}
    /\ status = [a \in Articles |-> IF a \in Seeded THEN "pending" ELSE "none"]
    /\ attempts = [a \in Articles |-> 0]
    /\ cache = [a \in Articles |-> NoBuild]
    /\ rendered = [a \in Articles |-> NoBuild]
    /\ links = {}
    /\ proc = [p \in Procs |-> Idle]
    /\ up = "running"
    /\ recovering = TRUE
    /\ warming = FirstWarmUp
    /\ warm = NoRows
    /\ cli \in CliStates
    /\ requests = 0
    /\ crashes = 0
    /\ orphaned = {}
    /\ abandoned = {}
    /\ disturbed = {}

-----------------------------------------------------------------------------
(* EnqueueCompile: the upsert.  A row of a deleted article violates the    *)
(* foreign key: nothing is written.  attempts of an existing row is kept.  *)
EnqueueCompile(a) ==
    IF ~Exists(a) THEN UNCHANGED <<status, attempts, hist>>
    ELSE /\ status' = [status EXCEPT ![a] = IF cli THEN "pending" ELSE "failed"]
         /\ attempts' = IF cli THEN attempts ELSE [attempts EXCEPT ![a] = 0]
         /\ orphaned' = orphaned \ {a}
         /\ abandoned' = abandoned \ {a}
         /\ disturbed' = IF InFlight(a) THEN disturbed \cup {a} ELSE disturbed

Goto(p, where) == proc' = [proc EXCEPT ![p].pc = where]

(* The caller's next statement after EnqueueDependents returns. *)
AfterCascade(p) == IF p \in Workers THEN [proc[p] EXCEPT !.pc = "succeed"] ELSE Idle

-----------------------------------------------------------------------------
(* EnqueueDependents(art), run by a worker after a compile and by the      *)
(* handlers after an update or a delete.                                   *)

(* First walk: the articles to enqueue. *)
Walk(p) ==
    /\ proc[p].pc = "walk"
    /\ LET found == Dependents(proc[p].art) IN
       proc' = [proc EXCEPT ![p] =
                  IF found = {} THEN AfterCascade(p)
                  ELSE [@ EXCEPT !.pc = "enqueue", !.todo = found, !.seen = found]]
    /\ UNCHANGED <<db, env, hist>>

EnqueueDependent(p) ==
    /\ proc[p].pc = "enqueue"
    /\ \E d \in proc[p].todo :
          /\ EnqueueCompile(d)
          /\ proc' = [proc EXCEPT ![p].todo = @ \ {d}]
    /\ UNCHANGED <<rev, gone, cache, rendered, links, env>>

(* InvalidateDependents: the same walk again, over the cache as it is now. *)
Rewalk(p) ==
    /\ proc[p].pc = "enqueue"
    /\ proc[p].todo = {}
    /\ LET found == Dependents(proc[p].art) IN
       proc' = [proc EXCEPT ![p] =
                  IF found = {} THEN AfterCascade(p)
                  ELSE [@ EXCEPT !.pc = "sweep", !.todo = found]]
    /\ UNCHANGED <<db, env, hist>>

(* ... and its DELETE FROM typst_cache. *)
Sweep(p) ==
    /\ proc[p].pc = "sweep"
    /\ cache' = [a \in Articles |-> IF a \in proc[p].todo THEN NoBuild ELSE cache[a]]
    /\ proc' = [proc EXCEPT ![p] = AfterCascade(p)]
    /\ disturbed' = disturbed \cup {a \in proc[p].todo : status[a] # "pending"}
    /\ UNCHANGED <<rev, gone, status, attempts, rendered, links, env, orphaned, abandoned>>

-----------------------------------------------------------------------------
(* The worker loop: runWorker and compileAndStore. *)

(***************************************************************************)
(* claimNextJob: one transaction.  SKIP LOCKED passes over a row another   *)
(* statement holds and created_at has one-second granularity, so any       *)
(* pending row may be the one claimed.                                     *)
(***************************************************************************)
Claim(w) ==
    /\ up = "running"
    /\ proc[w].pc = "idle"
    /\ \E a \in Articles :
          /\ status[a] = "pending"
          /\ status' = [status EXCEPT ![a] = "compiling"]
          /\ proc' = [proc EXCEPT ![w] = [Idle EXCEPT !.pc = "read", !.req = "job",
                                            !.art = a, !.tries = attempts[a]]]
    /\ UNCHANGED <<rev, gone, attempts, cache, rendered, links, env, hist>>

(* What w has read so far, and the content of d as it is now. *)
Reading(w, d) == [proc[w].built EXCEPT ![d] = rev[d]]

(* SELECT content.  An article that is gone leaves the queue and counts as *)
(* a success.                                                              *)
ReadSource(w) ==
    /\ proc[w].pc = "read"
    /\ LET a == proc[w].art IN
       IF Exists(a)
       THEN /\ proc' = [proc EXCEPT ![w].pc = "resolve", ![w].built = Reading(w, a)]
            /\ UNCHANGED <<db, orphaned, abandoned>>
       ELSE /\ status' = [status EXCEPT ![a] = "none"]
            /\ attempts' = [attempts EXCEPT ![a] = 0]
            /\ orphaned' = orphaned \ {a}
            /\ abandoned' = abandoned \ {a}
            /\ Goto(w, "succeed")
            /\ UNCHANGED <<rev, gone, cache, rendered, links>>
    /\ UNCHANGED <<env, disturbed>>

(***************************************************************************)
(* resolveDependencies reads one imported article per query.  The order of *)
(* the depth-first walk is the order of the text; here it is any order.    *)
(***************************************************************************)
LookupImport(w) ==
    /\ proc[w].pc = "resolve"
    /\ cli
    /\ \E d \in Unresolved(proc[w].built) :
          /\ Exists(d)
          /\ proc' = [proc EXCEPT ![w].built = Reading(w, d)]
    /\ UNCHANGED <<db, env, hist>>

(* Unknown @slug (an import written twice is looked up twice), import of   *)
(* the article itself, import cycle, or no CLI.                            *)
ResolveError(w) ==
    /\ proc[w].pc = "resolve"
    /\ LET b == proc[w].built IN
       \/ ~cli
       \/ Cyclic(b, proc[w].art)
       \/ \E d \in Wanted(b) :
             ~Exists(d) /\ (b[d] = 0 \/ Cardinality(Importers(b, d)) > 1)
    /\ Goto(w, "fail")
    /\ UNCHANGED <<db, env, hist>>

(* Both typst runs, on what was read: the CLI never sees the database. *)
Compile(w) ==
    /\ proc[w].pc = "resolve"
    /\ LET b == proc[w].built IN
       /\ Unresolved(b) = {}
       /\ ~Cyclic(b, proc[w].art)
       /\ \/ cli /\ Compilable(b) /\ Goto(w, "store")
          \/ (Flaky \/ ~Compilable(b)) /\ Goto(w, "fail")
    /\ UNCHANGED <<db, env, hist>>

(* Mutant: typst_cache.article_id has no foreign key. *)
StoreCacheUnchecked(w) ==
    /\ proc[w].pc = "store"
    /\ cache' = [cache EXCEPT ![proc[w].art] = proc[w].built]
    /\ Goto(w, "clear")
    /\ UNCHANGED <<rev, gone, status, attempts, rendered, links, env, hist>>

(* Mutant: the output is stored as that of the revision committed by now. *)
StoreCacheAsLatest(w) ==
    /\ proc[w].pc = "store"
    /\ LET a == proc[w].art IN
       IF Exists(a)
       THEN /\ cache' = [cache EXCEPT ![a] = Reading(w, a)]
            /\ Goto(w, "clear")
       ELSE /\ Goto(w, "fail")
            /\ UNCHANGED cache
    /\ UNCHANGED <<rev, gone, status, attempts, rendered, links, env, hist>>

(* storeCompileResult: typst_cache first; its foreign key may reject it. *)
StoreCache(w) ==
    /\ proc[w].pc = "store"
    /\ LET a == proc[w].art IN
       IF Exists(a)
       THEN /\ cache' = [cache EXCEPT ![a] = proc[w].built]
            /\ Goto(w, "clear")
       ELSE /\ Goto(w, "fail")
            /\ UNCHANGED cache
    /\ UNCHANGED <<rev, gone, status, attempts, rendered, links, env, hist>>

ClearLinks(w) ==
    /\ proc[w].pc = "clear"
    /\ links' = {l \in links : l[1] # proc[w].art}
    /\ proc' = [proc EXCEPT ![w].pc = "link",
                            ![w].todo = Deps(proc[w].built, proc[w].art)]
    /\ UNCHANGED <<rev, gone, status, attempts, cache, rendered, env, hist>>

(* INSERT IGNORE: a foreign-key violation is dropped. *)
InsertLink(w) ==
    /\ proc[w].pc = "link"
    /\ \E d \in proc[w].todo :
          /\ links' = IF Exists(d) /\ Exists(proc[w].art)
                      THEN links \cup {<<proc[w].art, d>>} ELSE links
          /\ proc' = [proc EXCEPT ![w].todo = @ \ {d}]
    /\ UNCHANGED <<rev, gone, status, attempts, cache, rendered, env, hist>>

(* The hook main.go installs writes rendered_html.  Its loop over depIDs   *)
(* re-renders dependencies that are not typst: here there are none.        *)
AfterCompile(w) ==
    /\ proc[w].pc = "link"
    /\ proc[w].todo = {}
    /\ LET a == proc[w].art IN
       rendered' = IF Exists(a) THEN [rendered EXCEPT ![a] = proc[w].built] ELSE rendered
    /\ Goto(w, "walk")
    /\ UNCHANGED <<rev, gone, status, attempts, cache, links, env, hist>>

(* UPDATE ... WHERE article_id = ?: no test of the status it overwrites. *)
MarkSuccess(w) ==
    /\ proc[w].pc = "succeed"
    /\ LET a == proc[w].art IN
       /\ status' = IF status[a] = "none" THEN status ELSE [status EXCEPT ![a] = "success"]
       /\ orphaned' = orphaned \ {a}
       /\ abandoned' = abandoned \ {a}
    /\ proc' = [proc EXCEPT ![w] = Idle]
    /\ UNCHANGED <<rev, gone, attempts, cache, rendered, links, env, disturbed>>

(* Mutant: a job out of retries is left as it is. *)
MarkErrorIgnoring(w) ==
    /\ proc[w].pc = "fail"
    /\ LET a == proc[w].art
           n == proc[w].tries + 1 IN
       IF status[a] = "none" \/ n >= MaxAttempts THEN UNCHANGED <<status, attempts, orphaned, abandoned>>
       ELSE /\ status' = [status EXCEPT ![a] = "pending"]
            /\ attempts' = [attempts EXCEPT ![a] = n]
            /\ orphaned' = orphaned \ {a}
            /\ abandoned' = abandoned \ {a}
    /\ proc' = [proc EXCEPT ![w] = Idle]
    /\ UNCHANGED <<rev, gone, cache, rendered, links, env, disturbed>>

(* Mutant: retries without a limit. *)
MarkErrorForever(w) ==
    /\ proc[w].pc = "fail"
    /\ LET a == proc[w].art IN
       IF status[a] = "none" THEN UNCHANGED <<status, orphaned, abandoned>>
       ELSE /\ status' = [status EXCEPT ![a] = "pending"]
            /\ orphaned' = orphaned \ {a}
            /\ abandoned' = abandoned \ {a}
    /\ proc' = [proc EXCEPT ![w] = Idle]
    /\ UNCHANGED <<rev, gone, attempts, cache, rendered, links, env, disturbed>>

(* The retry count is the one read when the job was claimed, plus one. *)
MarkError(w) ==
    /\ proc[w].pc = "fail"
    /\ LET a == proc[w].art
           n == proc[w].tries + 1 IN
       IF status[a] = "none" THEN UNCHANGED <<status, attempts, orphaned, abandoned>>
       ELSE /\ status' = [status EXCEPT ![a] = IF n < MaxAttempts THEN "pending" ELSE "failed"]
            /\ attempts' = [attempts EXCEPT ![a] = n]
            /\ orphaned' = orphaned \ {a}
            /\ abandoned' = abandoned \ {a}
    /\ proc' = [proc EXCEPT ![w] = Idle]
    /\ UNCHANGED <<rev, gone, cache, rendered, links, env, disturbed>>

-----------------------------------------------------------------------------
(* The handlers. *)

(* An idle handler takes a request.  After SIGTERM the server still serves *)
(* the requests it has (Shutdown runs after StopWorker).                   *)
Receive(e, op) ==
    /\ up # "down"
    /\ op \in Ops
    /\ proc[e].pc = "idle"
    /\ requests < MaxRequests
    /\ requests' = requests + 1
    /\ UNCHANGED <<up, recovering, warming, warm, cli, crashes>>

Start(e, op, a, where) ==
    proc' = [proc EXCEPT ![e] = [Idle EXCEPT !.pc = where, !.req = op, !.art = a,
                                             !.todo = {a}, !.seen = {a}]]

(* Compiles in flight when an article changes may have read the old state. *)
Disturb == disturbed' = disturbed \cup {a \in Articles : InFlight(a)}

(* CreateArticle commits the row and its first revision, then enqueues. *)
Create(e, a) ==
    /\ Receive(e, "create")
    /\ rev[a] = 0
    /\ rev' = [rev EXCEPT ![a] = 1]
    /\ proc' = [proc EXCEPT ![e] = [Idle EXCEPT !.pc = "requeue", !.req = "create",
                                                !.art = a]]
    /\ Disturb
    /\ UNCHANGED <<gone, status, attempts, cache, rendered, links, orphaned, abandoned>>

(* UpdateArticle with changed content: one transaction under FOR UPDATE. *)
Update(e, a) ==
    /\ Receive(e, "update")
    /\ Exists(a)
    /\ rev[a] < MaxRevision
    /\ rev' = [rev EXCEPT ![a] = @ + 1]
    /\ Start(e, "update", a, "reload")
    /\ Disturb
    /\ UNCHANGED <<gone, status, attempts, cache, rendered, links, orphaned, abandoned>>

(* GetArticle after the commit: the handler gives up if it is gone. *)
Reload(e) ==
    /\ proc[e].pc = "reload"
    /\ IF Exists(proc[e].art) THEN Goto(e, "invalidate")
       ELSE proc' = [proc EXCEPT ![e] = Idle]
    /\ UNCHANGED <<db, env, hist>>

(* Mutant: typst_cache does not cascade. *)
DeleteWithoutCascade(e, a) ==
    /\ Receive(e, "delete")
    /\ Exists(a)
    /\ gone' = gone \cup {a}
    /\ status' = [status EXCEPT ![a] = "none"]
    /\ attempts' = [attempts EXCEPT ![a] = 0]
    /\ rendered' = [rendered EXCEPT ![a] = NoBuild]
    /\ links' = {l \in links : l[1] # a /\ l[2] # a}
    /\ orphaned' = orphaned \ {a}
    /\ abandoned' = abandoned \ {a}
    /\ Start(e, "delete", a, "invalidate")
    /\ Disturb
    /\ UNCHANGED <<rev, cache>>

(* DeleteArticle: ON DELETE CASCADE takes the cache row, the queue row and *)
(* the article_deps rows on both sides along in the same transaction.      *)
Delete(e, a) ==
    /\ Receive(e, "delete")
    /\ Exists(a)
    /\ gone' = gone \cup {a}
    /\ status' = [status EXCEPT ![a] = "none"]
    /\ attempts' = [attempts EXCEPT ![a] = 0]
    /\ cache' = [cache EXCEPT ![a] = NoBuild]
    /\ rendered' = [rendered EXCEPT ![a] = NoBuild]
    /\ links' = {l \in links : l[1] # a /\ l[2] # a}
    /\ orphaned' = orphaned \ {a}
    /\ abandoned' = abandoned \ {a}
    /\ Start(e, "delete", a, "invalidate")
    /\ Disturb
    /\ UNCHANGED rev

(* InvalidateArticleCache, which a change of an article's tags calls. *)
Retag(e, a) ==
    /\ Receive(e, "retag")
    /\ Exists(a)
    /\ Start(e, "retag", a, "invalidate")
    /\ UNCHANGED <<db, hist>>

(* POST recompile: drop the cache row, enqueue. *)
Recompile(e, a) ==
    /\ Receive(e, "recompile")
    /\ Exists(a)
    /\ cli
    /\ Start(e, "recompile", a, "drop")
    /\ UNCHANGED <<db, hist>>

(* A reader of an article that has no queue row ... *)
View(e, a) ==
    /\ Receive(e, "view")
    /\ Exists(a)
    /\ status[a] = "none"
    /\ cli
    /\ Start(e, "view", a, "look")
    /\ UNCHANGED <<db, hist>>

(* ... and no cache row either puts it into the queue. *)
LookAtCache(e) ==
    /\ proc[e].pc = "look"
    /\ proc' = [proc EXCEPT ![e] = IF cache[proc[e].art] = NoBuild
                                   THEN [@ EXCEPT !.pc = "requeue", !.todo = {}]
                                   ELSE Idle]
    /\ UNCHANGED <<db, env, hist>>

(***************************************************************************)
(* InvalidateCacheCascading: breadth first over article_deps, clearing     *)
(* rendered_html.  One step is one turn of its loop: an UPDATE of articles *)
(* and a SELECT of article_deps, which touch different tables.             *)
(***************************************************************************)
AfterInvalidation(l, visited) ==
    IF l.req = "delete" THEN [l EXCEPT !.pc = "walk", !.todo = {}]
    ELSE [l EXCEPT !.pc = "drop", !.todo = IF l.req = "retag" THEN visited ELSE {l.art}]

InvalidateRendered(e) ==
    /\ proc[e].pc = "invalidate"
    /\ \E cur \in proc[e].todo :
          LET new  == {d \in Articles : <<d, cur>> \in links} \ proc[e].seen
              rest == (proc[e].todo \ {cur}) \cup new
              all  == proc[e].seen \cup new IN
          /\ rendered' = [rendered EXCEPT ![cur] = NoBuild]
          /\ proc' = [proc EXCEPT ![e] =
                IF rest # {} THEN [@ EXCEPT !.todo = rest, !.seen = all]
                ELSE AfterInvalidation(@, all)]
    /\ UNCHANGED <<rev, gone, status, attempts, cache, links, env, hist>>

(* DELETE FROM typst_cache WHERE article_id = ? *)
DropCache(e) ==
    /\ proc[e].pc = "drop"
    /\ \E d \in proc[e].todo :
          /\ cache' = [cache EXCEPT ![d] = NoBuild]
          /\ proc' = [proc EXCEPT ![e].pc = "requeue", ![e].art = d,
                                  ![e].todo = @ \ {d}]
    /\ UNCHANGED <<rev, gone, status, attempts, rendered, links, env, hist>>

(* A retag goes on with its next article, an update with the cascade. *)
AfterRequeue(l) ==
    IF l.todo # {} THEN [l EXCEPT !.pc = "drop"]
    ELSE IF l.req = "update" THEN [l EXCEPT !.pc = "walk"]
    ELSE Idle

(* Mutant: an update of the content forgets the dependents. *)
RequeueAlone(e) ==
    /\ proc[e].pc = "requeue"
    /\ EnqueueCompile(proc[e].art)
    /\ proc' = [proc EXCEPT ![e] =
                  IF @.todo # {} THEN [@ EXCEPT !.pc = "drop"] ELSE Idle]
    /\ UNCHANGED <<rev, gone, cache, rendered, links, env>>

Requeue(e) ==
    /\ proc[e].pc = "requeue"
    /\ EnqueueCompile(proc[e].art)
    /\ proc' = [proc EXCEPT ![e] = AfterRequeue(@)]
    /\ UNCHANGED <<rev, gone, cache, rendered, links, env>>

(***************************************************************************)
(* The client has gone: net/http cancels the context of its request, and   *)
(* the statements the handler runs with that context fail.  One that has   *)
(* not read its article back gives up, and so does one whose enqueue has   *)
(* the context too.                                                        *)
(***************************************************************************)
GivesUp(l) ==
    \/ l.pc \in {"reload", "look"}
    \/ l.pc \in {"drop", "requeue"} /\ l.req \in {"create", "recompile", "view"}
    \/ l.pc \in {"invalidate", "drop"} /\ l.req = "retag"

(***************************************************************************)
(* The other enqueues have a context of their own: the rest of the         *)
(* invalidation and the DELETE are skipped, the enqueue is still run.      *)
(***************************************************************************)
Hurried(l) ==
    CASE l.req = "update" /\ l.pc \in {"invalidate", "drop"} ->
            {[l EXCEPT !.pc = "requeue", !.todo = {}]}
      [] l.req = "delete" /\ l.pc = "invalidate" -> {[l EXCEPT !.pc = "walk", !.todo = {}]}
      [] l.req = "retag" /\ l.pc = "drop" ->
            {[l EXCEPT !.pc = "requeue", !.art = d, !.todo = {}] : d \in l.todo}
      [] l.req = "retag" /\ l.pc = "requeue" -> {[l EXCEPT !.todo = {}]}
      [] OTHER -> {}

BuiltFrom(d) == {a \in Articles : d \in Parts(cache[a])}

(* What may stay as it was before the change. *)
LeftBehind(l) ==
    CASE l.pc = "reload"     -> BuiltFrom(l.art)
      [] l.req = "retag"     -> l.seen
      [] l.req = "recompile" -> {l.art}
      [] OTHER               -> {}

ClientGone(e) ==
    /\ Impatient
    /\ \/ GivesUp(proc[e]) /\ proc' = [proc EXCEPT ![e] = Idle]
       \/ \E l \in Hurried(proc[e]) : proc' = [proc EXCEPT ![e] = l]
    /\ disturbed' = disturbed \cup LeftBehind(proc[e])
    /\ UNCHANGED <<db, env, orphaned, abandoned>>

-----------------------------------------------------------------------------
(* Statements that fail. *)

(* The COMMIT of a claim is executed and its answer lost: the worker takes *)
(* the claim for failed and looks for another job.                         *)
ClaimUnanswered(w) ==
    /\ "commit" \in Failing
    /\ up = "running"
    /\ proc[w].pc = "idle"
    /\ \E a \in Articles :
          /\ status[a] = "pending"
          /\ status' = [status EXCEPT ![a] = "compiling"]
          /\ abandoned' = abandoned \cup {a}
    /\ UNCHANGED <<rev, gone, attempts, cache, rendered, links, proc, env,
                   orphaned, disturbed>>

(* An error while the sources are read or the output is stored is the      *)
(* error of the compile.                                                   *)
CompileFails(w) ==
    /\ proc[w].pc \in Failing \cap {"read", "resolve", "store"}
    /\ Goto(w, "fail")
    /\ UNCHANGED <<db, env, hist>>

(* Edges that cannot be cleared are not replaced; one that cannot be       *)
(* inserted is left out; a page that cannot be written stays.              *)
StoringGoesOn(w) ==
    /\ \/ /\ proc[w].pc = "clear"
          /\ "clear" \in Failing
          /\ Goto(w, "link")
          /\ UNCHANGED disturbed
       \/ /\ proc[w].pc = "link"
          /\ "link" \in Failing
          /\ \E d \in proc[w].todo : proc' = [proc EXCEPT ![w].todo = @ \ {d}]
          /\ UNCHANGED disturbed
       \/ /\ proc[w].pc = "link"
          /\ proc[w].todo = {}
          /\ "hook" \in Failing
          /\ Goto(w, "walk")
          /\ disturbed' = disturbed \cup {proc[w].art}
    /\ UNCHANGED <<db, env, orphaned, abandoned>>

(* The UPDATE after the compile, the retry included, is not tried again:   *)
(* the row stays as it is and the worker takes the next job.               *)
ReportFails(w) ==
    /\ proc[w].pc \in Failing \cap {"succeed", "fail"}
    /\ proc' = [proc EXCEPT ![w] = Idle]
    /\ abandoned' = abandoned \cup ({proc[w].art} \cap CompilingRows)
    /\ UNCHANGED <<db, env, orphaned, disturbed>>

(* A walk that fails ends the cascade, a dependent that cannot be enqueued *)
(* is passed over, and so is the removal of the old documents.             *)
CascadeFails(p) ==
    /\ proc[p].pc \in Failing
    /\ \/ /\ proc[p].pc = "walk"
          /\ proc' = [proc EXCEPT ![p] = AfterCascade(p)]
          /\ disturbed' = disturbed \cup BuiltFrom(proc[p].art)
       \/ /\ proc[p].pc = "enqueue"
          /\ \E d \in proc[p].todo :
                /\ proc' = [proc EXCEPT ![p].todo = @ \ {d}]
                /\ disturbed' = disturbed \cup {d}
       \/ /\ \/ proc[p].pc = "enqueue" /\ proc[p].todo = {}
             \/ proc[p].pc = "sweep"
          /\ proc' = [proc EXCEPT ![p] = AfterCascade(p)]
          /\ UNCHANGED disturbed
    /\ UNCHANGED <<db, env, orphaned, abandoned>>

(* The turn of the invalidation that fails passes over the dependents of   *)
(* its article, whether or not its page was cleared.                       *)
InvalidationFails(e) ==
    /\ proc[e].pc = "invalidate"
    /\ "invalidate" \in Failing
    /\ LET l == proc[e] IN
       \E cur \in l.todo :
          /\ rendered' \in {rendered, [rendered EXCEPT ![cur] = NoBuild]}
          /\ proc' = [proc EXCEPT ![e] =
                IF l.todo # {cur} THEN [l EXCEPT !.todo = l.todo \ {cur}]
                ELSE AfterInvalidation(l, l.seen)]
    /\ UNCHANGED <<rev, gone, status, attempts, cache, links, env, hist>>

(* A handler whose article cannot be read back, or whose deletion seems to *)
(* have failed, gives up; one that cannot drop or enqueue goes on, and one *)
(* that cannot look into the cache takes it for empty.                     *)
HandlerFails(e) ==
    /\ LET l == proc[e] IN
       \/ /\ \/ l.pc = "reload" /\ "reload" \in Failing
             \/ l.pc = "invalidate" /\ l.req = "delete" /\ "commit" \in Failing
          /\ proc' = [proc EXCEPT ![e] = Idle]
          /\ disturbed' = disturbed \cup BuiltFrom(l.art)
       \/ /\ l.pc = "drop" /\ "drop" \in Failing
          /\ \E d \in l.todo :
                proc' = [proc EXCEPT ![e].pc = "requeue", ![e].art = d,
                                     ![e].todo = @ \ {d}]
          /\ UNCHANGED disturbed
       \/ /\ l.pc = "requeue" /\ "requeue" \in Failing
          /\ proc' = [proc EXCEPT ![e] = AfterRequeue(@)]
          /\ disturbed' = disturbed \cup {l.art}
       \/ /\ l.pc = "look" /\ "look" \in Failing
          /\ proc' = [proc EXCEPT ![e].pc = "requeue", ![e].todo = {}]
          /\ UNCHANGED disturbed
    /\ UNCHANGED <<db, env, orphaned, abandoned>>

WorkerFails(w) ==
    \/ ClaimUnanswered(w) \/ CompileFails(w) \/ StoringGoesOn(w)
    \/ ReportFails(w) \/ CascadeFails(w)

EditorFails(e) == InvalidationFails(e) \/ HandlerFails(e) \/ CascadeFails(e)

-----------------------------------------------------------------------------
(* The process. *)

(***************************************************************************)
(* SIGTERM: StopWorker cancels the workers' context.  A statement they     *)
(* have not executed yet, the final UPDATE of the row included, fails.     *)
(***************************************************************************)
Stop ==
    /\ up = "running"
    /\ crashes < MaxCrashes
    /\ up' = "stopping"
    /\ recovering' = FALSE
    /\ proc' = [p \in Procs |-> IF p \in Workers THEN Idle ELSE proc[p]]
    /\ orphaned' = orphaned \cup CompilingRows
    /\ abandoned' = {}
    /\ disturbed' = disturbed \cup {a \in Articles : InFlight(a)}
    /\ UNCHANGED <<db, warming, warm, cli, requests, crashes>>

(* The process ends: after Stop, killed, or replaced by a self-update. *)
Exit ==
    /\ up # "down"
    /\ crashes < MaxCrashes
    /\ crashes' = crashes + 1
    /\ up' = "down"
    /\ recovering' = FALSE
    /\ warming' = FALSE
    /\ warm' = NoRows
    /\ proc' = [p \in Procs |-> Idle]
    /\ orphaned' = orphaned \cup CompilingRows
    /\ abandoned' = {}
    /\ disturbed' = IF \A p \in Procs : proc[p] = Idle THEN disturbed ELSE Articles
    /\ UNCHANGED <<db, cli, requests>>

(* main: StartWorker and the warm-up on the tables the last process left. *)
Restart ==
    /\ up = "down"
    /\ up' = "running"
    /\ recovering' = TRUE
    /\ warming' = TRUE
    /\ UNCHANGED <<db, proc, warm, cli, requests, crashes, hist>>

(***************************************************************************)
(* recoverStaleJobs, once per start: the rows left "compiling" whose       *)
(* updated_at is more than staleCompileTimeout old.  Which of them are     *)
(* that old depends on how long the restart took: any subset.              *)
(***************************************************************************)
Recover ==
    /\ recovering
    /\ recovering' = FALSE
    /\ \E old \in SUBSET orphaned :
          /\ status' = [a \in Articles |-> IF a \in old THEN "pending" ELSE status[a]]
          /\ orphaned' = orphaned \ old
          /\ abandoned' = abandoned \ old
    /\ UNCHANGED <<rev, gone, attempts, cache, rendered, links, proc,
                   up, warming, warm, cli, requests, crashes, disturbed>>

(***************************************************************************)
(* WarmCache, a goroutine of its own with a context of its own: the pages  *)
(* that are compiled and not shown, all read by one query (of its batch) ...*)
(***************************************************************************)
WarmUp ==
    /\ warming
    /\ warming' = FALSE
    /\ warm' = [a \in Articles |-> IF rendered[a] = NoBuild THEN cache[a] ELSE NoBuild]
    /\ UNCHANGED <<db, proc, up, recovering, cli, requests, crashes, hist>>

(* ... and written one by one, whatever has become of them meanwhile; an   *)
(* error goes to the log.                                                  *)
WarmPage(a) ==
    /\ warm[a] # NoBuild
    /\ warm' = [warm EXCEPT ![a] = NoBuild]
    /\ \/ rendered' = IF Exists(a) THEN [rendered EXCEPT ![a] = warm[a]] ELSE rendered
       \/ "warm" \in Failing /\ UNCHANGED rendered
    /\ disturbed' = IF warm[a] = cache[a] THEN disturbed ELSE disturbed \cup {a}
    /\ UNCHANGED <<rev, gone, status, attempts, cache, links, proc,
                   up, recovering, warming, cli, requests, crashes, orphaned, abandoned>>

(* typst is installed or removed. *)
CliChange ==
    /\ cli' \in CliStates \ {cli}
    /\ UNCHANGED <<db, proc, up, recovering, warming, warm, requests, crashes, hist>>

-----------------------------------------------------------------------------
Cascade(p) == Walk(p) \/ EnqueueDependent(p) \/ Rewalk(p) \/ Sweep(p)

CompileStep(w) ==
    \/ ReadSource(w) \/ LookupImport(w) \/ ResolveError(w) \/ Compile(w)
    \/ StoreCache(w) \/ ClearLinks(w) \/ InsertLink(w) \/ AfterCompile(w)
    \/ Cascade(w) \/ MarkSuccess(w) \/ MarkError(w)

WorkerStep(w) == Claim(w) \/ CompileStep(w)

Request(e) ==
    \E a \in Articles :
       \/ Create(e, a) \/ Update(e, a) \/ Delete(e, a)
       \/ Retag(e, a) \/ Recompile(e, a) \/ View(e, a)

EditorStep(e) ==
    \/ Reload(e) \/ LookAtCache(e) \/ InvalidateRendered(e)
    \/ DropCache(e) \/ Requeue(e) \/ Cascade(e)

Next ==
    \/ \E w \in Workers : WorkerStep(w) \/ WorkerFails(w)
    \/ \E e \in Editors : Request(e) \/ EditorStep(e) \/ ClientGone(e) \/ EditorFails(e)
    \/ \E a \in Articles : WarmPage(a)
    \/ Stop \/ Exit \/ Restart \/ Recover \/ WarmUp \/ CliChange

Spec == Init /\ [][Next]_vars

(***************************************************************************)
(* Goroutines are scheduled: a worker that has something to do does it, a  *)
(* handler runs to its end, a process that has gone is started again.      *)
(* Requests, crashes and the CLI are the environment's: no fairness.       *)
(***************************************************************************)
Fairness ==
    /\ \A w \in Workers : WF_vars(WorkerStep(w))
    /\ \A e \in Editors : WF_vars(EditorStep(e))
    /\ WF_vars(up = "stopping" /\ Exit)
    /\ WF_vars(Restart)
    /\ WF_vars(Recover)

FairSpec == Spec /\ Fairness

-----------------------------------------------------------------------------
(* Properties *)

(***************************************************************************)
(* A row is "compiling" only while a live worker has the article in hand,  *)
(* unless a worker of an ended process left it so, or a live one did whose *)
(* last UPDATE of the row, or the answer to whose claim, failed (nothing   *)
(* but the next enqueue, deletion or start takes such a row up again):     *)
(* claim, concurrent enqueues, stale writes of a second worker, deletions  *)
(* and the failure of any other statement never strand a row.              *)
(* (worker.go: claimNextJobCtx, runWorker, compileAndStoreCtx.)            *)
(***************************************************************************)
CompilingOwned ==
    \A a \in Articles :
        status[a] = "compiling" => InFlight(a) \/ a \in orphaned \/ a \in abandoned

(***************************************************************************)
(* Whatever is published, in typst_cache or rendered_html, was built from  *)
(* everything it imports, directly or through an import, from committed    *)
(* revisions only, and never from an import cycle or a rejected source,    *)
(* however many edits ran during the compile.  (resolve.go.)               *)
(***************************************************************************)
Committed(b) == \A d \in Articles : b[d] <= rev[d]

PublishedSound ==
    \A a \in Articles : \A b \in {cache[a], rendered[a]} :
        b # NoBuild => Sound(b, a) /\ Committed(b)

(***************************************************************************)
(* A deleted article leaves no queue row, no cache row and no edge behind, *)
(* although a worker that had it in hand keeps writing.  (DeleteArticleCtx *)
(* and the foreign keys of schema.go.)                                     *)
(***************************************************************************)
DeletedLeavesNothing ==
    \A a \in gone :
        /\ status[a] = "none"
        /\ cache[a] = NoBuild
        /\ rendered[a] = NoBuild
        /\ \A l \in links : a # l[1] /\ a # l[2]

Current(b) == \A d \in Parts(b) : Exists(d) /\ b[d] = rev[d]

Quiet ==
    /\ up = "running"
    /\ \A p \in Procs : proc[p] = Idle
    /\ \A a \in Articles : status[a] \notin {"pending", "compiling"}

(* getArticle of an article that is not being compiled: the page stored    *)
(* with it, or else (while the CLI is installed) the compiled document.    *)
Shown(a) == IF rendered[a] # NoBuild THEN rendered[a] ELSE cache[a]

(***************************************************************************)
(* When nothing is left to do, readers of an article whose compile         *)
(* succeeded get the current revision of it and of all it imports, unless  *)
(* one of its compiles met a concurrent change or a statement that was to  *)
(* enqueue it or to write its page failed: the update and delete cascades  *)
(* reach whatever was built from the article, and the page and the         *)
(* compiled document never differ.  Errors of all other statements, those  *)
(* on article_deps and the removals from typst_cache, leave nothing old.   *)
(* (UpdateArticleCtx, DeleteArticle, EnqueueDependentsCtx; getArticle.)    *)
(***************************************************************************)
StaleOnlyIfDisturbed ==
    Quiet =>
        \A a \in Articles \ disturbed :
            status[a] = "success" =>
                /\ Shown(a) # NoBuild
                /\ Shown(a) = cache[a]
                /\ Current(Shown(a))

(***************************************************************************)
(* The inductive invariant the proofs use.  What a worker has read while   *)
(* it resolves imports is committed and starts with its own article; what  *)
(* it stores, and what the warm-up is going to write, is sound; the        *)
(* orphans and the abandoned rows say "compiling".                         *)
(***************************************************************************)
OrphansCompiling == orphaned \cup abandoned \subseteq CompilingRows

GoneWereCreated == \A a \in gone : rev[a] > 0

BuildInHand ==
    \A w \in Workers :
        LET b == proc[w].built
            a == proc[w].art IN
        /\ proc[w].pc = "read" => b = NoBuild
        /\ proc[w].pc = "resolve" => b[a] > 0 /\ Committed(b)
        /\ proc[w].pc \in {"store", "clear", "link"} => Sound(b, a) /\ Committed(b)

WarmSound ==
    \A a \in Articles : warm[a] # NoBuild => Sound(warm[a], a) /\ Committed(warm[a])

QueueInv == CompilingOwned /\ OrphansCompiling /\ GoneWereCreated /\ DeletedLeavesNothing
BuildInv == PublishedSound /\ BuildInHand /\ WarmSound

(***************************************************************************)
(* A finite number of requests and crashes causes a finite amount of work: *)
(* retries stop at maxQueueAttempts and no cascade feeds itself, whatever  *)
(* the import graph looks like on the way; in the end every goroutine is   *)
(* idle and no row is left pending.  (runWorker, EnqueueDependentsCtx.)    *)
(***************************************************************************)
Quiesces ==
    <>[](/\ \A p \in Procs : proc[p] = Idle
         /\ \A a \in Articles : status[a] # "pending")

(***************************************************************************)
(* The pipeline implements what Publication promises its readers.          *)
(***************************************************************************)
P == INSTANCE Publication
        WITH rev <- rev, gone <- gone, cache <- cache, rendered <- rendered

Publishes == P!Spec

-----------------------------------------------------------------------------
(* What comments and docs say of the code and the code does not do.        *)

(***************************************************************************)
(* docs: when an article is updated concurrently, the upsert resets its    *)
(* row to pending and the last update triggers a recompile.  So once all   *)
(* is quiet a compiled article shows its own last revision.                *)
(***************************************************************************)
LastUpdateCompiled ==
    Quiet => \A a \in Articles :
        status[a] = "success" /\ cache[a] # NoBuild => cache[a][a] = rev[a]

(***************************************************************************)
(* recoverStaleJobs resets "any jobs stuck in 'compiling' state (from a    *)
(* previous crash)": a row never stays "compiling" for ever.               *)
(***************************************************************************)
StuckJobsReprocessed ==
    \A a \in Articles : status[a] = "compiling" ~> status[a] # "compiling"
=============================================================================

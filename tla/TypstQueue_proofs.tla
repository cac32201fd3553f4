-------------------------- MODULE TypstQueue_proofs --------------------------
(***************************************************************************)
(* Proofs about TypstQueue, for every number of articles, workers and      *)
(* handlers, every import graph and every bound.                           *)
(***************************************************************************)
EXTENDS TypstQueue, TLAPS

(* Facts about the data. *)

LEMMA NoBuildType == NoBuild \in Builds
BY BuildsAssumption DEF NoBuild, Builds, Revisions

LEMMA DependentsType == \A a : Dependents(a) \in SUBSET Articles
BY DEF Dependents

(* A goroutine that is not idle has an article in hand. *)
LEMMA Working ==
    ASSUME TypeOK, NEW p \in Procs, proc[p].pc # "idle"
    PROVE  proc[p] \in Active
BY DEF TypeOK, Idle

LEMMA AfterCascadeType ==
    ASSUME NEW p \in Procs, proc[p] \in Active
    PROVE  AfterCascade(p) \in Active \cup {Idle}
BY DEF AfterCascade, Active, Steps

LEMMA ReadingType ==
    ASSUME TypeOK, NEW w \in Workers, proc[w] \in Active, NEW d \in Articles
    PROVE  Reading(w, d) \in Builds
<1>1. proc[w].built \in Builds /\ rev[d] \in Revisions
  BY DEF TypeOK, Active
<1> QED
  BY <1>1 DEF Reading, Builds

(* EnqueueCompile keeps the types of what it writes. *)
LEMMA EnqueueType ==
    ASSUME TypeOK, NEW a \in Articles, EnqueueCompile(a)
    PROVE  /\ status' \in [Articles -> Statuses]
           /\ attempts' \in [Articles -> Nat]
           /\ orphaned' \subseteq Articles
           /\ abandoned' \subseteq Articles
           /\ disturbed' \subseteq Articles
BY DEF TypeOK, EnqueueCompile, Statuses, hist

LEMMA InitType == Init => TypeOK
<1> SUFFICES ASSUME Init PROVE TypeOK
  OBVIOUS
<1>1. rev \in [Articles -> Revisions]
  BY BuildsAssumption DEF Init, Revisions
<1>2. cli \in BOOLEAN
  BY ConstantsOK DEF Init
<1>3. proc \in [Procs -> Active \cup {Idle}]
  BY DEF Init
<1>4. warm \in [Articles -> Builds] /\ warming \in BOOLEAN
  BY NoBuildType, ConstantsOK DEF Init, NoRows
<1> QED
  BY <1>1, <1>2, <1>3, <1>4, NoBuildType DEF Init, TypeOK, Statuses

(***************************************************************************)
(* Every step keeps every variable in its type.  First the steps of the    *)
(* cascade, then those of a worker, of a handler, of the process.          *)
(***************************************************************************)
LEMMA CascadeType == ASSUME TypeOK, NEW p \in Procs, Cascade(p) PROVE TypeOK'
<1> USE DEF TypeOK
<1>0. proc[p] \in Active
  BY Working DEF Cascade, Walk, EnqueueDependent, Rewalk, Sweep
<1>1. CASE Walk(p)
  <2> DEFINE found == Dependents(proc[p].art)
             next == [proc[p] EXCEPT !.pc = "enqueue", !.todo = found, !.seen = found]
  <2>1. next \in Active
    BY <1>0, DependentsType DEF Active, Steps
  <2>2. (IF found = {} THEN AfterCascade(p) ELSE next) \in Active \cup {Idle}
    BY <1>0, <2>1, AfterCascadeType
  <2>3. proc' \in [Procs -> Active \cup {Idle}]
    BY <1>1, <2>2 DEF Walk
  <2> QED
    BY <1>1, <2>3 DEF Walk, db, env, hist
<1>2. CASE EnqueueDependent(p)
  <2>1. PICK d \in proc[p].todo : EnqueueCompile(d) /\ proc' = [proc EXCEPT ![p].todo = @ \ {d}]
    BY <1>2 DEF EnqueueDependent
  <2>2. d \in Articles
    BY <1>0, <2>1 DEF Active
  <2>3. [proc[p] EXCEPT !.todo = @ \ {d}] \in Active
    BY <1>0 DEF Active
  <2>4. proc' \in [Procs -> Active \cup {Idle}]
    BY <2>1, <2>3
  <2> QED
    BY <1>2, <2>1, <2>2, <2>4, EnqueueType DEF EnqueueDependent, env
<1>3. CASE Rewalk(p)
  <2> DEFINE found == Dependents(proc[p].art)
             next == [proc[p] EXCEPT !.pc = "sweep", !.todo = found]
  <2>1. next \in Active
    BY <1>0, DependentsType DEF Active, Steps
  <2>2. (IF found = {} THEN AfterCascade(p) ELSE next) \in Active \cup {Idle}
    BY <1>0, <2>1, AfterCascadeType
  <2>3. proc' \in [Procs -> Active \cup {Idle}]
    BY <1>3, <2>2 DEF Rewalk
  <2> QED
    BY <1>3, <2>3 DEF Rewalk, db, env, hist
<1>4. CASE Sweep(p)
  <2>1. proc' \in [Procs -> Active \cup {Idle}]
    BY <1>0, <1>4, AfterCascadeType DEF Sweep
  <2>2. cache' \in [Articles -> Builds]
    BY <1>4, NoBuildType DEF Sweep
  <2>3. disturbed' \subseteq Articles
    BY <1>0, <1>4 DEF Sweep, Active
  <2> QED
    BY <1>4, <2>1, <2>2, <2>3 DEF Sweep, env
<1> QED
  BY <1>1, <1>2, <1>3, <1>4 DEF Cascade

(* Goto changes the program counter of a goroutine at work only. *)
LEMMA GotoType ==
    ASSUME TypeOK, NEW p \in Procs, proc[p] \in Active, NEW where \in Steps, Goto(p, where)
    PROVE  proc' \in [Procs -> Active \cup {Idle}]
<1>1. [proc[p] EXCEPT !.pc = where] \in Active
  BY DEF Active
<1> QED
  BY <1>1 DEF Goto, TypeOK

LEMMA WorkerType == ASSUME TypeOK, NEW w \in Workers, WorkerStep(w) PROVE TypeOK'
<1> USE DEF TypeOK
<1>0. w \in Procs
  BY DEF Procs
<1>c. ASSUME proc[w].pc # "idle" PROVE proc[w] \in Active
  BY <1>0, <1>c, Working
<1>1. CASE Claim(w)
  <2>1. PICK a \in Articles :
           /\ status' = [status EXCEPT ![a] = "compiling"]
           /\ proc' = [proc EXCEPT ![w] = [Idle EXCEPT !.pc = "read", !.req = "job",
                                             !.art = a, !.tries = attempts[a]]]
    BY <1>1 DEF Claim
  <2>2. [Idle EXCEPT !.pc = "read", !.req = "job", !.art = a, !.tries = attempts[a]] \in Active
    BY <2>1, NoBuildType DEF Idle, Active, Steps
  <2> QED
    BY <1>0, <1>1, <2>1, <2>2 DEF Claim, env, hist, Statuses
<1>2. CASE ReadSource(w)
  <2>1. proc[w] \in Active
    BY <1>2, <1>c DEF ReadSource
  <2>2. Reading(w, proc[w].art) \in Builds /\ proc[w].art \in Articles
    BY <2>1, ReadingType DEF Active
  <2>3. [proc[w] EXCEPT !.pc = "resolve", !.built = Reading(w, proc[w].art)] \in Active
    BY <2>1, <2>2 DEF Active, Steps
  <2>4. [proc[w] EXCEPT !.pc = "succeed"] \in Active
    BY <2>1 DEF Active, Steps
  <2>5. \/ proc' = [proc EXCEPT ![w] = [proc[w] EXCEPT !.pc = "resolve",
                                       !.built = Reading(w, proc[w].art)]]
        \/ proc' = [proc EXCEPT ![w] = [proc[w] EXCEPT !.pc = "succeed"]]
    BY <1>2 DEF ReadSource, Goto
  <2>6. proc' \in [Procs -> Active \cup {Idle}]
    BY <1>0, <2>3, <2>4, <2>5
  <2> QED
    BY <1>2, <2>2, <2>6 DEF ReadSource, db, env, Statuses
<1>3. CASE LookupImport(w)
  <2>1. proc[w] \in Active
    BY <1>3, <1>c DEF LookupImport
  <2>2. PICK d \in Unresolved(proc[w].built) : proc' = [proc EXCEPT ![w].built = Reading(w, d)]
    BY <1>3 DEF LookupImport
  <2>3. Reading(w, d) \in Builds
    BY <2>1, <2>2, ReadingType DEF Unresolved, Wanted
  <2>4. [proc[w] EXCEPT !.built = Reading(w, d)] \in Active
    BY <2>1, <2>3 DEF Active
  <2> QED
    BY <1>0, <1>3, <2>2, <2>4 DEF LookupImport, db, env, hist
<1>4. CASE ResolveError(w)
  <2>1. proc[w] \in Active
    BY <1>4, <1>c DEF ResolveError
  <2>2. proc' \in [Procs -> Active \cup {Idle}]
    BY <1>0, <1>4, <2>1, GotoType DEF ResolveError, Steps
  <2> QED
    BY <1>4, <2>1, <2>2 DEF ResolveError, db, env, hist
<1>5. CASE Compile(w)
  <2>1. proc[w] \in Active
    BY <1>5, <1>c DEF Compile
  <2>2. proc' \in [Procs -> Active \cup {Idle}]
    BY <1>0, <1>5, <2>1, GotoType DEF Compile, Steps
  <2> QED
    BY <1>5, <2>1, <2>2 DEF Compile, db, env, hist
<1>6. CASE StoreCache(w)
  <2>1. proc[w] \in Active
    BY <1>6, <1>c DEF StoreCache
  <2>2. proc' \in [Procs -> Active \cup {Idle}]
    BY <1>0, <1>6, <2>1, GotoType DEF StoreCache, Steps
  <2> QED
    BY <1>6, <2>1, <2>2 DEF StoreCache, env, hist, Active
<1>7. CASE ClearLinks(w)
  <2>1. proc[w] \in Active
    BY <1>7, <1>c DEF ClearLinks
  <2>2. [proc[w] EXCEPT !.pc = "link", !.todo = Deps(proc[w].built, proc[w].art)] \in Active
    BY <2>1 DEF Active, Steps, Deps, Parts
  <2> QED
    BY <1>0, <1>7, <2>2 DEF ClearLinks, env, hist
<1>8. CASE InsertLink(w)
  <2>1. proc[w] \in Active
    BY <1>8, <1>c DEF InsertLink
  <2>2. PICK d \in proc[w].todo :
           /\ links' = IF Exists(d) /\ Exists(proc[w].art)
                       THEN links \cup {<<proc[w].art, d>>} ELSE links
           /\ proc' = [proc EXCEPT ![w].todo = @ \ {d}]
    BY <1>8 DEF InsertLink
  <2>3. d \in Articles /\ proc[w].art \in Articles
    BY <2>1, <2>2 DEF Active
  <2>4. [proc[w] EXCEPT !.todo = @ \ {d}] \in Active
    BY <2>1 DEF Active
  <2>5. links' \subseteq Articles \X Articles
    BY <2>2, <2>3
  <2>6. proc' \in [Procs -> Active \cup {Idle}]
    BY <1>0, <2>2, <2>4
  <2> QED
    BY <1>8, <2>5, <2>6 DEF InsertLink, env, hist
<1>9. CASE AfterCompile(w)
  <2>1. proc[w] \in Active
    BY <1>9, <1>c DEF AfterCompile
  <2>2. proc' \in [Procs -> Active \cup {Idle}]
    BY <1>0, <1>9, <2>1, GotoType DEF AfterCompile, Steps
  <2> QED
    BY <1>9, <2>1, <2>2 DEF AfterCompile, env, hist, Active
<1>10. CASE MarkSuccess(w)
  <2>1. proc[w] \in Active
    BY <1>10, <1>c DEF MarkSuccess
  <2>2. proc' \in [Procs -> Active \cup {Idle}]
    BY <1>0, <1>10 DEF MarkSuccess
  <2> QED
    BY <1>10, <2>1, <2>2 DEF MarkSuccess, env, Active, Statuses
<1>11. CASE MarkError(w)
  <2>1. proc[w] \in Active
    BY <1>11, <1>c DEF MarkError
  <2>2. proc' \in [Procs -> Active \cup {Idle}]
    BY <1>0, <1>11 DEF MarkError
  <2> QED
    BY <1>11, <2>1, <2>2 DEF MarkError, env, Active, Statuses
<1>12. CASE Cascade(w)
  BY <1>0, <1>12, CascadeType
<1> QED
  BY <1>1, <1>2, <1>3, <1>4, <1>5, <1>6, <1>7, <1>8, <1>9, <1>10, <1>11, <1>12 DEF WorkerStep, CompileStep

(* A handler that starts on article a. *)
LEMMA StartType ==
    ASSUME TypeOK, NEW e \in Editors, NEW op \in AllOps, NEW a \in Articles,
           NEW where \in Steps, Start(e, op, a, where)
    PROVE  proc' \in [Procs -> Active \cup {Idle}]
<1>1. [Idle EXCEPT !.pc = where, !.req = op, !.art = a, !.todo = {a}, !.seen = {a}] \in Active
  BY NoBuildType DEF Idle, Active
<1> QED
  BY <1>1 DEF TypeOK, Procs, Start

LEMMA RequestType == ASSUME TypeOK, NEW e \in Editors, Request(e) PROVE TypeOK'
<1> USE DEF TypeOK, AllOps, Steps
<1>0. PICK a \in Articles : \/ Create(e, a) \/ Update(e, a) \/ Delete(e, a)
                            \/ Retag(e, a) \/ Recompile(e, a) \/ View(e, a)
  BY DEF Request
<1>e. e \in Procs
  BY DEF Procs
<1>d. \A S \in SUBSET Articles : {x \in Articles : InFlight(x)} \cup S \subseteq Articles
  OBVIOUS
<1>1. CASE Create(e, a)
  <2>1. [Idle EXCEPT !.pc = "requeue", !.req = "create", !.art = a] \in Active
    BY NoBuildType DEF Idle, Active
  <2> QED
    BY <1>1, <1>e, <2>1, BuildsAssumption DEF Create, Receive, Disturb, Revisions
<1>2. CASE Update(e, a)
  <2>1. proc' \in [Procs -> Active \cup {Idle}]
    BY <1>2, StartType DEF Update
  <2> QED
    BY <1>2, <2>1, BuildsAssumption DEF Update, Receive, Disturb, Revisions
<1>3. CASE Delete(e, a)
  <2>1. proc' \in [Procs -> Active \cup {Idle}]
    BY <1>3, StartType DEF Delete
  <2> QED
    BY <1>3, <2>1, NoBuildType DEF Delete, Receive, Disturb, Statuses
<1>4. CASE Retag(e, a)
  <2>1. proc' \in [Procs -> Active \cup {Idle}]
    BY <1>4, StartType DEF Retag
  <2> QED
    BY <1>4, <2>1 DEF Retag, Receive, db, hist
<1>5. CASE Recompile(e, a)
  <2>1. proc' \in [Procs -> Active \cup {Idle}]
    BY <1>5, StartType DEF Recompile
  <2> QED
    BY <1>5, <2>1 DEF Recompile, Receive, db, hist
<1>6. CASE View(e, a)
  <2>1. proc' \in [Procs -> Active \cup {Idle}]
    BY <1>6, StartType DEF View
  <2> QED
    BY <1>6, <2>1 DEF View, Receive, db, hist
<1> QED
  BY <1>0, <1>1, <1>2, <1>3, <1>4, <1>5, <1>6

LEMMA EditorType == ASSUME TypeOK, NEW e \in Editors, EditorStep(e) PROVE TypeOK'
<1> USE DEF TypeOK
<1>0. e \in Procs
  BY DEF Procs
<1>c. ASSUME proc[e].pc # "idle" PROVE proc[e] \in Active
  BY <1>0, <1>c, Working
<1>1. CASE Reload(e)
  <2>1. proc[e] \in Active
    BY <1>1, <1>c DEF Reload
  <2>2. proc' \in [Procs -> Active \cup {Idle}]
    BY <1>0, <1>1, <2>1, GotoType DEF Reload, Steps
  <2> QED
    BY <1>1, <2>2 DEF Reload, db, env, hist
<1>2. CASE LookAtCache(e)
  <2>1. proc[e] \in Active
    BY <1>2, <1>c DEF LookAtCache
  <2>2. [proc[e] EXCEPT !.pc = "requeue", !.todo = {}] \in Active
    BY <2>1 DEF Active, Steps
  <2>3. proc' \in [Procs -> Active \cup {Idle}]
    BY <1>0, <1>2, <2>2 DEF LookAtCache
  <2> QED
    BY <1>2, <2>3 DEF LookAtCache, db, env, hist
<1>3. CASE InvalidateRendered(e)
  <2>1. proc[e] \in Active
    BY <1>3, <1>c DEF InvalidateRendered
  <2>2. PICK cur \in proc[e].todo : InvalidateRendered(e)!2!(cur)
    BY <1>3 DEF InvalidateRendered
  <2> DEFINE new  == {d \in Articles : <<d, cur>> \in links} \ proc[e].seen
             rest == (proc[e].todo \ {cur}) \cup new
             all  == proc[e].seen \cup new
  <2>3. rest \subseteq Articles /\ all \subseteq Articles /\ cur \in Articles
    BY <2>1, <2>2 DEF Active
  <2>4. [proc[e] EXCEPT !.todo = rest, !.seen = all] \in Active
    BY <2>1, <2>3 DEF Active
  <2>5. AfterInvalidation(proc[e], all) \in Active
    BY <2>1, <2>3 DEF AfterInvalidation, Active, Steps
  <2>6. proc' \in [Procs -> Active \cup {Idle}]
    BY <1>0, <2>2, <2>4, <2>5
  <2>7. rendered' \in [Articles -> Builds]
    BY <2>2, <2>3, NoBuildType
  <2> QED
    BY <1>3, <2>6, <2>7 DEF InvalidateRendered, env, hist
<1>4. CASE DropCache(e)
  <2>1. proc[e] \in Active
    BY <1>4, <1>c DEF DropCache
  <2>2. PICK d \in proc[e].todo :
           /\ cache' = [cache EXCEPT ![d] = NoBuild]
           /\ proc' = [proc EXCEPT ![e].pc = "requeue", ![e].art = d, ![e].todo = @ \ {d}]
    BY <1>4 DEF DropCache
  <2>3. d \in Articles
    BY <2>1, <2>2 DEF Active
  <2>4. [proc[e] EXCEPT !.pc = "requeue", !.art = d, !.todo = @ \ {d}] \in Active
    BY <2>1, <2>3 DEF Active, Steps
  <2>5. cache' \in [Articles -> Builds]
    BY <2>2, NoBuildType
  <2>6. proc' \in [Procs -> Active \cup {Idle}]
    BY <1>0, <2>2, <2>4
  <2> QED
    BY <1>4, <2>5, <2>6 DEF DropCache, env, hist
<1>5. CASE Requeue(e)
  <2>1. proc[e] \in Active
    BY <1>5, <1>c DEF Requeue
  <2>2. AfterRequeue(proc[e]) \in Active \cup {Idle}
    BY <2>1 DEF AfterRequeue, Active, Steps
  <2>3. proc' \in [Procs -> Active \cup {Idle}]
    BY <1>0, <1>5, <2>2 DEF Requeue
  <2>4. proc[e].art \in Articles /\ EnqueueCompile(proc[e].art)
    BY <1>5, <2>1 DEF Requeue, Active
  <2> QED
    BY <1>5, <2>3, <2>4, EnqueueType DEF Requeue, env
<1>6. CASE Cascade(e)
  BY <1>0, <1>6, CascadeType
<1> QED
  BY <1>1, <1>2, <1>3, <1>4, <1>5, <1>6 DEF EditorStep

(* What a client that leaves makes of its handler. *)
LEMMA LeavingHandler ==
    ASSUME TypeOK, NEW e \in Editors, ClientGone(e)
    PROVE  \E r \in Active \cup {Idle} : proc' = [proc EXCEPT ![e] = r]
<1>1. CASE GivesUp(proc[e]) /\ proc' = [proc EXCEPT ![e] = Idle]
  BY <1>1
<1>2. ASSUME NEW l \in Hurried(proc[e]), proc' = [proc EXCEPT ![e] = l]
      PROVE  l \in Active
  <2>1. proc[e].pc # "idle"
    <3>1. CASE proc[e].pc = "idle"
      BY <1>2, <3>1 DEF Hurried
    <3> QED
      BY <3>1
  <2>2. proc[e] \in Active
    BY <2>1, Working DEF Procs
  <2>3. \A d \in proc[e].todo : d \in Articles
    BY <2>2 DEF Active
  <2>4. CASE proc[e].req = "retag" /\ proc[e].pc = "drop"
    <3>1. PICK d \in proc[e].todo : l = [proc[e] EXCEPT !.pc = "requeue", !.art = d, !.todo = {}]
      BY <1>2, <2>4 DEF Hurried
    <3> QED
      BY <2>2, <2>3, <3>1 DEF Active, Steps
  <2>5. CASE ~(proc[e].req = "retag" /\ proc[e].pc = "drop")
    <3>1. l \in {[proc[e] EXCEPT !.pc = "requeue", !.todo = {}],
                 [proc[e] EXCEPT !.pc = "walk", !.todo = {}], [proc[e] EXCEPT !.todo = {}]}
      BY <1>2, <2>5 DEF Hurried
    <3> QED
      BY <2>2, <3>1 DEF Active, Steps
  <2> QED
    BY <2>4, <2>5
<1> QED
  BY <1>1, <1>2 DEF ClientGone

LEMMA LeavingType == ASSUME TypeOK, NEW e \in Editors, ClientGone(e) PROVE TypeOK'
<1>1. PICK r \in Active \cup {Idle} : proc' = [proc EXCEPT ![e] = r]
  BY LeavingHandler
<1>2. LeftBehind(proc[e]) \subseteq Articles
  <2>1. CASE proc[e].pc = "idle"
    BY <2>1 DEF ClientGone, GivesUp, Hurried
  <2>2. CASE proc[e].pc # "idle"
    <3>1. proc[e] \in Active
      BY <2>2, Working DEF Procs
    <3> QED
      BY <3>1 DEF LeftBehind, BuiltFrom, Active
  <2> QED
    BY <2>1, <2>2
<1> QED
  BY <1>1, <1>2 DEF TypeOK, ClientGone, db, env

(***************************************************************************)
(* What a failing statement does: a goroutine moves itself only, and       *)
(* hardly anything stored changes.                                         *)
(***************************************************************************)
LEMMA CascadeFailsEffect ==
    ASSUME TypeOK, NEW p \in Procs, CascadeFails(p)
    PROVE  /\ UNCHANGED <<db, env, orphaned, abandoned>>
           /\ disturbed \subseteq disturbed' /\ disturbed' \subseteq Articles
           /\ proc[p] \in Active /\ proc[p].pc \in {"walk", "enqueue", "sweep"}
           /\ \E r \in Active \cup {Idle} :
                 /\ proc' = [proc EXCEPT ![p] = r]
                 /\ \/ r = AfterCascade(p)
                    \/ \E T \in SUBSET proc[p].todo : r = [proc[p] EXCEPT !.todo = T]
<1>0. proc[p] \in Active
  BY Working DEF CascadeFails
<1>1. disturbed \subseteq disturbed' /\ disturbed' \subseteq Articles
  BY <1>0 DEF CascadeFails, BuiltFrom, TypeOK, Active
<1>2. AfterCascade(p) \in Active \cup {Idle}
  BY <1>0, AfterCascadeType
<1>3. CASE proc' = [proc EXCEPT ![p] = AfterCascade(p)]
  BY <1>0, <1>1, <1>2, <1>3 DEF CascadeFails
<1>4. ASSUME NEW d \in proc[p].todo, proc' = [proc EXCEPT ![p].todo = @ \ {d}]
      PROVE  \E r \in Active \cup {Idle} :
                 /\ proc' = [proc EXCEPT ![p] = r]
                 /\ \E T \in SUBSET proc[p].todo : r = [proc[p] EXCEPT !.todo = T]
  <2> DEFINE r == [proc[p] EXCEPT !.todo = proc[p].todo \ {d}]
  <2>1. r \in Active /\ proc' = [proc EXCEPT ![p] = r]
    BY <1>0, <1>4 DEF Active
  <2> QED
    BY <2>1
<1> QED
  BY <1>0, <1>1, <1>3, <1>4 DEF CascadeFails

LEMMA WorkerFailsEffect ==
    ASSUME TypeOK, NEW w \in Workers, WorkerFails(w)
    PROVE  /\ UNCHANGED <<rev, gone, attempts, cache, rendered, links, env, orphaned>>
           /\ status' \in [Articles -> Statuses]
           /\ abandoned' \subseteq Articles
           /\ disturbed \subseteq disturbed' /\ disturbed' \subseteq Articles
           /\ \E r \in Active \cup {Idle} : proc' = [proc EXCEPT ![w] = r]
<1>0. w \in Procs
  BY DEF Procs
<1>1. CASE ClaimUnanswered(w)
  <2>1. proc' = [proc EXCEPT ![w] = proc[w]] /\ proc[w] \in Active \cup {Idle}
    BY <1>0, <1>1 DEF ClaimUnanswered, TypeOK
  <2> QED
    BY <1>1, <2>1 DEF ClaimUnanswered, TypeOK, Statuses
<1>2. CASE CompileFails(w)
  <2>1. proc[w] \in Active
    BY <1>0, <1>2, Working DEF CompileFails
  <2>2. [proc[w] EXCEPT !.pc = "fail"] \in Active
    BY <2>1 DEF Active, Steps
  <2>3. proc' = [proc EXCEPT ![w] = [proc[w] EXCEPT !.pc = "fail"]]
    BY <1>2 DEF CompileFails, Goto
  <2> QED
    BY <1>2, <2>2, <2>3 DEF CompileFails, TypeOK, db, hist
<1>3. CASE StoringGoesOn(w)
  <2>1. proc[w] \in Active /\ proc[w].art \in Articles
    BY <1>0, <1>3, Working DEF StoringGoesOn, Active
  <2>2. \E r \in Active : proc' = [proc EXCEPT ![w] = r]
    <3>1. CASE \E q \in {"link", "walk"} : Goto(w, q)
      <4>1. PICK q \in {"link", "walk"} : Goto(w, q)
        BY <3>1
      <4>2. [proc[w] EXCEPT !.pc = q] \in Active
        BY <2>1 DEF Active, Steps
      <4> QED
        BY <4>1, <4>2 DEF Goto
    <3>2. ASSUME NEW d \in proc[w].todo, proc' = [proc EXCEPT ![w].todo = @ \ {d}]
          PROVE  \E r \in Active : proc' = [proc EXCEPT ![w] = r]
      <4> DEFINE r == [proc[w] EXCEPT !.todo = proc[w].todo \ {d}]
      <4>1. r \in Active /\ proc' = [proc EXCEPT ![w] = r]
        BY <2>1, <3>2 DEF Active
      <4> QED
        BY <4>1
    <3> QED
      BY <1>3, <3>1, <3>2 DEF StoringGoesOn
  <2>3. disturbed \subseteq disturbed' /\ disturbed' \subseteq Articles
    BY <1>3, <2>1 DEF StoringGoesOn, TypeOK
  <2> QED
    BY <1>3, <2>2, <2>3 DEF StoringGoesOn, TypeOK, db
<1>4. CASE ReportFails(w)
  BY <1>4 DEF ReportFails, CompilingRows, TypeOK, db
<1>5. CASE CascadeFails(w)
  BY <1>0, <1>5, CascadeFailsEffect DEF TypeOK, db
<1> QED
  BY <1>1, <1>2, <1>3, <1>4, <1>5 DEF WorkerFails

LEMMA EditorFailsEffect ==
    ASSUME TypeOK, NEW e \in Editors, EditorFails(e)
    PROVE  /\ UNCHANGED <<rev, gone, status, attempts, cache, links, env, orphaned, abandoned>>
           /\ rendered' \in [Articles -> Builds]
           /\ \A a \in Articles : rendered'[a] \in {rendered[a], NoBuild}
           /\ disturbed \subseteq disturbed' /\ disturbed' \subseteq Articles
           /\ proc[e] \in Active
           /\ \E r \in Active \cup {Idle} : proc' = [proc EXCEPT ![e] = r]
<1>0. e \in Procs
  BY DEF Procs
<1>a. proc[e] \in Active
  BY <1>0, Working DEF EditorFails, InvalidationFails, HandlerFails, CascadeFails
<1>1. CASE InvalidationFails(e)
  <2>1. PICK cur \in proc[e].todo :
           /\ rendered' \in {rendered, [rendered EXCEPT ![cur] = NoBuild]}
           /\ proc' = [proc EXCEPT ![e] =
                 IF proc[e].todo # {cur} THEN [proc[e] EXCEPT !.todo = proc[e].todo \ {cur}]
                 ELSE AfterInvalidation(proc[e], proc[e].seen)]
    BY <1>1 DEF InvalidationFails
  <2>2. /\ [proc[e] EXCEPT !.todo = proc[e].todo \ {cur}] \in Active
        /\ AfterInvalidation(proc[e], proc[e].seen) \in Active
    BY <1>a DEF AfterInvalidation, Active, Steps
  <2> DEFINE r == IF proc[e].todo # {cur} THEN [proc[e] EXCEPT !.todo = proc[e].todo \ {cur}]
                  ELSE AfterInvalidation(proc[e], proc[e].seen)
  <2>3. r \in Active /\ proc' = [proc EXCEPT ![e] = r]
    BY <2>1, <2>2
  <2>4. rendered' \in [Articles -> Builds] /\ \A a \in Articles : rendered'[a] \in {rendered[a], NoBuild}
    BY <2>1, NoBuildType DEF TypeOK
  <2> QED
    BY <1>1, <1>a, <2>3, <2>4 DEF InvalidationFails, TypeOK, hist
<1>2. CASE HandlerFails(e)
  <2>1. disturbed \subseteq disturbed' /\ disturbed' \subseteq Articles
    BY <1>2, <1>a DEF HandlerFails, BuiltFrom, TypeOK, Active
  <2>2. \E r \in Active \cup {Idle} : proc' = [proc EXCEPT ![e] = r]
    <3>1. ASSUME NEW d \in proc[e].todo,
                 proc' = [proc EXCEPT ![e].pc = "requeue", ![e].art = d, ![e].todo = @ \ {d}]
          PROVE  \E r \in Active : proc' = [proc EXCEPT ![e] = r]
      <4> DEFINE r == [proc[e] EXCEPT !.pc = "requeue", !.art = d, !.todo = proc[e].todo \ {d}]
      <4>1. r \in Active /\ proc' = [proc EXCEPT ![e] = r]
        BY <1>0, <1>a, <3>1 DEF Active, Steps, TypeOK
      <4> QED
        BY <4>1
    <3>2. AfterRequeue(proc[e]) \in Active \cup {Idle}
      BY <1>a DEF AfterRequeue, Active, Steps
    <3>3. ASSUME proc' = [proc EXCEPT ![e].pc = "requeue", ![e].todo = {}]
          PROVE  \E r \in Active : proc' = [proc EXCEPT ![e] = r]
      <4> DEFINE r == [proc[e] EXCEPT !.pc = "requeue", !.todo = {}]
      <4>1. r \in Active /\ proc' = [proc EXCEPT ![e] = r]
        BY <1>0, <1>a, <3>3 DEF Active, Steps, TypeOK
      <4> QED
        BY <4>1
    <3> QED
      BY <1>2, <3>1, <3>2, <3>3 DEF HandlerFails
  <2> QED
    BY <1>2, <1>a, <2>1, <2>2 DEF HandlerFails, TypeOK, db
<1>3. CASE CascadeFails(e)
  BY <1>0, <1>3, CascadeFailsEffect DEF TypeOK, db
<1> QED
  BY <1>1, <1>2, <1>3 DEF EditorFails

LEMMA FailureType ==
    ASSUME TypeOK,
           (\E w \in Workers : WorkerFails(w)) \/ (\E e \in Editors : EditorFails(e))
    PROVE  TypeOK'
<1>1. ASSUME NEW w \in Workers, WorkerFails(w) PROVE TypeOK'
  BY <1>1, WorkerFailsEffect DEF TypeOK, Procs, env
<1>2. ASSUME NEW e \in Editors, EditorFails(e) PROVE TypeOK'
  BY <1>2, EditorFailsEffect DEF TypeOK, Procs, env
<1> QED
  BY <1>1, <1>2

LEMMA ProcessType ==
    ASSUME TypeOK, Stop \/ Exit \/ Restart \/ Recover \/ CliChange
    PROVE  TypeOK'
<1> USE DEF TypeOK
<1>1. CASE Stop
  BY <1>1 DEF Stop, CompilingRows, db
<1>2. CASE Exit
  <2>1. orphaned' \subseteq Articles /\ disturbed' \subseteq Articles
    BY <1>2 DEF Exit, CompilingRows
  <2>2. crashes' \in Nat
    BY <1>2 DEF Exit
  <2>3. warm' \in [Articles -> Builds]
    BY <1>2, NoBuildType DEF Exit, NoRows
  <2> QED
    BY <1>2, <2>1, <2>2, <2>3 DEF Exit, db
<1>3. CASE Restart
  BY <1>3 DEF Restart, db, hist
<1>4. CASE Recover
  <2>1. PICK old \in SUBSET orphaned :
           /\ status' = [a \in Articles |-> IF a \in old THEN "pending" ELSE status[a]]
           /\ orphaned' = orphaned \ old /\ abandoned' = abandoned \ old
    BY <1>4 DEF Recover
  <2> QED
    BY <1>4, <2>1 DEF Recover, Statuses
<1>5. CASE CliChange
  BY <1>5, ConstantsOK DEF CliChange, db, hist
<1> QED
  BY <1>1, <1>2, <1>3, <1>4, <1>5

(* The warm-up reads documents of the tables and writes what it has read. *)
LEMMA WarmUpType ==
    ASSUME TypeOK, WarmUp \/ \E a \in Articles : WarmPage(a)
    PROVE  TypeOK'
<1> USE DEF TypeOK
<1>1. CASE WarmUp
  BY <1>1, NoBuildType DEF WarmUp, db, hist
<1>2. ASSUME NEW a \in Articles, WarmPage(a) PROVE TypeOK'
  <2>1. warm' \in [Articles -> Builds] /\ rendered' \in [Articles -> Builds]
    BY <1>2, NoBuildType DEF WarmPage
  <2> QED
    BY <1>2, <2>1 DEF WarmPage
<1> QED
  BY <1>1, <1>2

LEMMA StepType == TypeOK /\ [Next]_vars => TypeOK'
<1> SUFFICES ASSUME TypeOK, [Next]_vars PROVE TypeOK'
  OBVIOUS
<1>1. CASE Next
  BY <1>1, WorkerType, RequestType, EditorType, LeavingType, FailureType, ProcessType, WarmUpType
     DEF Next
<1>2. CASE UNCHANGED vars
  BY <1>2 DEF vars, db, env, hist, TypeOK
<1> QED
  BY <1>1, <1>2

(***************************************************************************)
(* Type correctness: no interleaving of workers, handlers, crashes and     *)
(* restarts takes a variable out of its type; in particular a goroutine    *)
(* that is not idle always has an article in hand.                         *)
(***************************************************************************)
THEOREM TypeCorrect == Spec => []TypeOK
<1>1. Init => TypeOK
  BY InitType
<1>2. TypeOK /\ [Next]_vars => TypeOK'
  BY StepType
<1> QED
  BY <1>1, <1>2, PTL DEF Spec

-----------------------------------------------------------------------------
(***************************************************************************)
(* The rows of the queue.  QueueInv talks about who has an article in      *)
(* hand, and only Claim, the two Marks and the end of the process change   *)
(* that; every other step leaves the articles the workers hold.            *)
(***************************************************************************)
HandsKept == \A w \in Workers : proc'[w].art = proc[w].art

LEMMA HandsKeptInFlight == ASSUME HandsKept PROVE \A a : InFlight(a)' <=> InFlight(a)
BY DEF HandsKept, InFlight

(* A step that writes neither the queue nor what deletion clears. *)
LEMMA QueueUntouched ==
    ASSUME QueueInv, HandsKept, rev' = rev,
           UNCHANGED <<gone, status, orphaned, abandoned, cache, rendered, links>>
    PROVE  QueueInv'
BY HandsKeptInFlight DEF QueueInv, CompilingOwned, OrphansCompiling, CompilingRows,
     GoneWereCreated, DeletedLeavesNothing

LEMMA EnqueueQueue ==
    ASSUME TypeOK, QueueInv, HandsKept, NEW a \in Articles, EnqueueCompile(a),
           UNCHANGED <<rev, gone, cache, rendered, links>>
    PROVE  QueueInv'
<1> USE DEF QueueInv, CompilingOwned, OrphansCompiling, CompilingRows, GoneWereCreated
<1>1. CASE ~Exists(a)
  BY <1>1, QueueUntouched DEF EnqueueCompile, hist
<1>2. CASE Exists(a)
  <2>1. /\ status' = [status EXCEPT ![a] = IF cli THEN "pending" ELSE "failed"]
        /\ orphaned' = orphaned \ {a} /\ abandoned' = abandoned \ {a}
    BY <1>2 DEF EnqueueCompile
  <2>2. a \notin gone
    BY <1>2 DEF Exists
  <2>3. CompilingOwned' /\ OrphansCompiling' /\ GoneWereCreated'
    BY <2>1, HandsKeptInFlight DEF TypeOK
  <2>4. DeletedLeavesNothing'
    BY <2>1, <2>2 DEF DeletedLeavesNothing, TypeOK
  <2> QED
    BY <2>3, <2>4
<1> QED
  BY <1>1, <1>2

LEMMA CascadeQueue ==
    ASSUME TypeOK, QueueInv, NEW p \in Procs, Cascade(p)
    PROVE  QueueInv'
<1>0. proc[p] \in Active /\ proc \in [Procs -> Active \cup {Idle}]
  BY Working DEF Cascade, Walk, EnqueueDependent, Rewalk, Sweep, TypeOK
<1>h. HandsKept
  <2>1. p \in Workers => AfterCascade(p).art = proc[p].art
    BY <1>0 DEF AfterCascade, Active
  <2>2. CASE Walk(p)
    BY <1>0, <2>1, <2>2 DEF Walk, HandsKept, Procs, Active
  <2>3. CASE EnqueueDependent(p)
    BY <1>0, <2>3 DEF EnqueueDependent, HandsKept, Procs, Active
  <2>4. CASE Rewalk(p)
    BY <1>0, <2>1, <2>4 DEF Rewalk, HandsKept, Procs, Active
  <2>5. CASE Sweep(p)
    BY <1>0, <2>1, <2>5 DEF Sweep, HandsKept, Procs
  <2> QED
    BY <2>2, <2>3, <2>4, <2>5 DEF Cascade
<1>1. CASE Walk(p)
  BY <1>1, <1>h, QueueUntouched DEF Walk, db, hist
<1>2. CASE EnqueueDependent(p)
  <2>1. PICK d \in proc[p].todo : EnqueueCompile(d)
    BY <1>2 DEF EnqueueDependent
  <2>2. d \in Articles
    BY <1>0, <2>1 DEF Active
  <2> QED
    BY <1>2, <1>h, <2>1, <2>2, EnqueueQueue DEF EnqueueDependent
<1>3. CASE Rewalk(p)
  BY <1>3, <1>h, QueueUntouched DEF Rewalk, db, hist
<1>4. CASE Sweep(p)
  <2>1. \A a \in gone : cache'[a] = NoBuild
    BY <1>4 DEF Sweep, QueueInv, DeletedLeavesNothing, TypeOK
  <2> QED
    BY <1>4, <1>h, <2>1, HandsKeptInFlight
       DEF Sweep, QueueInv, CompilingOwned, OrphansCompiling, CompilingRows,
           GoneWereCreated, DeletedLeavesNothing
<1> QED
  BY <1>1, <1>2, <1>3, <1>4 DEF Cascade

LEMMA WorkerQueue ==
    ASSUME TypeOK, QueueInv, NEW w \in Workers, WorkerStep(w)
    PROVE  QueueInv'
<1> USE DEF QueueInv, CompilingOwned, OrphansCompiling, CompilingRows, GoneWereCreated
<1>0. w \in Procs /\ proc \in [Procs -> Active \cup {Idle}]
  BY DEF Procs, TypeOK
<1>c. proc[w].pc # "idle" => proc[w] \in Active
  BY <1>0, Working
<1>i. proc[w].pc = "idle" => proc[w].art = Nobody
  BY <1>0 DEF Active, Steps, Idle
<1>1. CASE Claim(w)
  <2>1. PICK a \in Articles :
           /\ status[a] = "pending"
           /\ status' = [status EXCEPT ![a] = "compiling"]
           /\ proc' = [proc EXCEPT ![w] = [Idle EXCEPT !.pc = "read", !.req = "job",
                                             !.art = a, !.tries = attempts[a]]]
    BY <1>1 DEF Claim
  <2>2. proc'[w].art = a /\ \A v \in Workers : v # w => proc'[v] = proc[v]
    BY <1>0, <2>1 DEF Idle, Procs
  <2>3. \A x \in Articles : InFlight(x) => InFlight(x)'
    BY <1>1, <1>i, <2>2, ConstantsOK DEF InFlight, Claim
  <2>4. InFlight(a)'
    BY <2>2 DEF InFlight
  <2>5. CompilingOwned' /\ OrphansCompiling' /\ GoneWereCreated'
    BY <1>1, <2>1, <2>3, <2>4 DEF Claim, TypeOK, hist
  <2>6. DeletedLeavesNothing'
    BY <1>1, <2>1 DEF Claim, TypeOK, DeletedLeavesNothing
  <2> QED
    BY <2>5, <2>6
<1>2. CASE ReadSource(w)
  <2> DEFINE a == proc[w].art
  <2>1. a \in Articles /\ HandsKept
    BY <1>0, <1>2, <1>c DEF ReadSource, Goto, HandsKept, Active, Procs
  <2>2. CASE Exists(a)
    BY <1>2, <2>1, <2>2, QueueUntouched DEF ReadSource, db
  <2>3. CASE ~Exists(a)
    <3>1. /\ status' = [status EXCEPT ![a] = "none"]
          /\ orphaned' = orphaned \ {a} /\ abandoned' = abandoned \ {a}
          /\ UNCHANGED <<rev, gone, cache, rendered, links>>
      BY <1>2, <2>3 DEF ReadSource
    <3>2. CompilingOwned' /\ OrphansCompiling' /\ GoneWereCreated'
      BY <2>1, <3>1, HandsKeptInFlight DEF TypeOK
    <3>3. DeletedLeavesNothing'
      BY <2>1, <3>1 DEF DeletedLeavesNothing, TypeOK
    <3> QED
      BY <3>2, <3>3
  <2> QED
    BY <2>2, <2>3
<1>3. CASE LookupImport(w)
  <2>1. HandsKept
    BY <1>0, <1>3, <1>c DEF LookupImport, Goto, HandsKept, Active, Procs
  <2> QED
    BY <1>3, <2>1, QueueUntouched DEF LookupImport, db, hist
<1>4. CASE ResolveError(w)
  <2>1. HandsKept
    BY <1>0, <1>4, <1>c DEF ResolveError, Goto, HandsKept, Active, Procs
  <2> QED
    BY <1>4, <2>1, QueueUntouched DEF ResolveError, db, hist
<1>5. CASE Compile(w)
  <2>1. HandsKept
    BY <1>0, <1>5, <1>c DEF Compile, Goto, HandsKept, Active, Procs
  <2> QED
    BY <1>5, <2>1, QueueUntouched DEF Compile, db, hist
<1>6. CASE StoreCache(w)
  <2>1. HandsKept
    BY <1>0, <1>6, <1>c DEF StoreCache, Goto, HandsKept, Active, Procs
  <2>2. \A x \in gone : cache'[x] = cache[x]
    BY <1>6 DEF StoreCache, Exists, TypeOK
  <2> QED
    BY <1>6, <2>1, <2>2, HandsKeptInFlight DEF StoreCache, DeletedLeavesNothing, hist
<1>7. CASE ClearLinks(w)
  <2>1. HandsKept
    BY <1>0, <1>7, <1>c DEF ClearLinks, HandsKept, Active, Procs
  <2>2. links' \subseteq links
    BY <1>7 DEF ClearLinks
  <2> QED
    BY <1>7, <2>1, <2>2, HandsKeptInFlight DEF ClearLinks, DeletedLeavesNothing, hist
<1>8. CASE InsertLink(w)
  <2>1. HandsKept
    BY <1>0, <1>8, <1>c DEF InsertLink, HandsKept, Active, Procs
  <2>2. \A l \in links' : l \in links \/ (l[1] \notin gone /\ l[2] \notin gone)
    BY <1>8 DEF InsertLink, Exists
  <2> QED
    BY <1>8, <2>1, <2>2, HandsKeptInFlight DEF InsertLink, DeletedLeavesNothing, hist
<1>9. CASE AfterCompile(w)
  <2>1. HandsKept
    BY <1>0, <1>9, <1>c DEF AfterCompile, Goto, HandsKept, Active, Procs
  <2>2. \A x \in gone : rendered'[x] = rendered[x]
    BY <1>9 DEF AfterCompile, Exists, TypeOK
  <2> QED
    BY <1>9, <2>1, <2>2, HandsKeptInFlight DEF AfterCompile, DeletedLeavesNothing, hist
<1>10. CASE MarkSuccess(w)
  <2> DEFINE a == proc[w].art
  <2>1. a \in Articles
    BY <1>10, <1>c DEF MarkSuccess, Active
  <2>2. \A x \in Articles : x # a /\ InFlight(x) => InFlight(x)'
    BY <1>0, <1>10 DEF MarkSuccess, InFlight, Procs
  <2>3. status'[a] # "compiling" /\ (status[a] = "none" => status'[a] = "none")
    BY <1>10, <2>1 DEF MarkSuccess, TypeOK
  <2>4. \A x \in Articles : x # a => status'[x] = status[x]
    BY <1>10, <2>1 DEF MarkSuccess, TypeOK
  <2>5. /\ orphaned' \subseteq orphaned /\ (\A x \in orphaned : x # a => x \in orphaned')
        /\ abandoned' \subseteq abandoned /\ (\A x \in abandoned : x # a => x \in abandoned')
    BY <1>10 DEF MarkSuccess
  <2>6. a \notin orphaned' /\ a \notin abandoned'
    BY <1>10, <2>3 DEF MarkSuccess
  <2>7. UNCHANGED <<rev, gone, cache, rendered, links>>
    BY <1>10 DEF MarkSuccess
  <2>8. CompilingOwned' /\ OrphansCompiling' /\ GoneWereCreated'
    BY <2>2, <2>3, <2>4, <2>5, <2>6, <2>7
  <2>9. DeletedLeavesNothing'
    BY <2>3, <2>4, <2>7 DEF DeletedLeavesNothing, TypeOK
  <2> QED
    BY <2>8, <2>9
<1>11. CASE MarkError(w)
  <2> DEFINE a == proc[w].art
  <2>1. a \in Articles
    BY <1>11, <1>c DEF MarkError, Active
  <2>2. \A x \in Articles : x # a /\ InFlight(x) => InFlight(x)'
    BY <1>0, <1>11 DEF MarkError, InFlight, Procs
  <2>3. status'[a] # "compiling" /\ (status[a] = "none" => status'[a] = "none")
    BY <1>11, <2>1 DEF MarkError, TypeOK
  <2>4. \A x \in Articles : x # a => status'[x] = status[x]
    BY <1>11, <2>1 DEF MarkError, TypeOK
  <2>5. /\ orphaned' \subseteq orphaned /\ (\A x \in orphaned : x # a => x \in orphaned')
        /\ abandoned' \subseteq abandoned /\ (\A x \in abandoned : x # a => x \in abandoned')
    BY <1>11 DEF MarkError
  <2>6. a \notin orphaned' /\ a \notin abandoned'
    BY <1>11, <2>3 DEF MarkError
  <2>7. UNCHANGED <<rev, gone, cache, rendered, links>>
    BY <1>11 DEF MarkError
  <2>8. CompilingOwned' /\ OrphansCompiling' /\ GoneWereCreated'
    BY <2>2, <2>3, <2>4, <2>5, <2>6, <2>7
  <2>9. DeletedLeavesNothing'
    BY <2>3, <2>4, <2>7 DEF DeletedLeavesNothing, TypeOK
  <2> QED
    BY <2>8, <2>9
<1>12. CASE Cascade(w)
  BY <1>0, <1>12, CascadeQueue
<1> QED
  BY <1>1, <1>2, <1>3, <1>4, <1>5, <1>6, <1>7, <1>8, <1>9, <1>10, <1>11, <1>12 DEF WorkerStep, CompileStep

LEMMA EditorHands == ASSUME NEW e \in Editors, NEW r, proc' = [proc EXCEPT ![e] = r], TypeOK
                     PROVE  HandsKept
BY ConstantsOK DEF HandsKept, TypeOK, Procs

LEMMA RequestQueue ==
    ASSUME TypeOK, QueueInv, NEW e \in Editors, Request(e)
    PROVE  QueueInv'
<1>0. PICK a \in Articles : \/ Create(e, a) \/ Update(e, a) \/ Delete(e, a)
                            \/ Retag(e, a) \/ Recompile(e, a) \/ View(e, a)
  BY DEF Request
<1>h. HandsKept
  <2>1. \E r : proc' = [proc EXCEPT ![e] = r]
    BY <1>0 DEF Create, Update, Delete, Retag, Recompile, View, Start
  <2> QED
    BY <2>1, EditorHands
<1>1. CASE Create(e, a)
  <2>1. \A x \in gone : rev'[x] = rev[x]
    BY <1>1 DEF Create, QueueInv, GoneWereCreated, TypeOK, Revisions
  <2> QED
    BY <1>1, <1>h, <2>1, HandsKeptInFlight
       DEF Create, QueueInv, CompilingOwned, OrphansCompiling, CompilingRows,
           GoneWereCreated, DeletedLeavesNothing
<1>2. CASE Update(e, a)
  <2>1. \A x \in gone : rev'[x] = rev[x]
    BY <1>2 DEF Update, Exists, TypeOK
  <2> QED
    BY <1>2, <1>h, <2>1, HandsKeptInFlight
       DEF Update, QueueInv, CompilingOwned, OrphansCompiling, CompilingRows,
           GoneWereCreated, DeletedLeavesNothing
<1>3. CASE Delete(e, a)
  <2>1. CompilingOwned' /\ OrphansCompiling' /\ GoneWereCreated'
    BY <1>3, <1>h, HandsKeptInFlight
       DEF Delete, QueueInv, CompilingOwned, OrphansCompiling, CompilingRows,
           GoneWereCreated, TypeOK, Exists
  <2>2. DeletedLeavesNothing'
    <3> SUFFICES ASSUME NEW x \in gone'
                 PROVE  /\ status'[x] = "none" /\ cache'[x] = NoBuild /\ rendered'[x] = NoBuild
                        /\ \A l \in links' : x # l[1] /\ x # l[2]
      BY DEF DeletedLeavesNothing
    <3>1. CASE x = a
      BY <1>3, <3>1 DEF Delete, TypeOK
    <3>2. CASE x # a
      <4>1. x \in gone /\ x \in Articles
        BY <1>3, <3>2 DEF Delete, TypeOK
      <4> QED
        BY <1>3, <3>2, <4>1 DEF Delete, TypeOK, QueueInv, DeletedLeavesNothing
    <3> QED
      BY <3>1, <3>2
  <2> QED
    BY <2>1, <2>2 DEF QueueInv
<1>4. CASE Retag(e, a)
  BY <1>4, <1>h, QueueUntouched DEF Retag, db, hist
<1>5. CASE Recompile(e, a)
  BY <1>5, <1>h, QueueUntouched DEF Recompile, db, hist
<1>6. CASE View(e, a)
  BY <1>6, <1>h, QueueUntouched DEF View, db, hist
<1> QED
  BY <1>0, <1>1, <1>2, <1>3, <1>4, <1>5, <1>6

LEMMA EditorQueue ==
    ASSUME TypeOK, QueueInv, NEW e \in Editors, EditorStep(e)
    PROVE  QueueInv'
<1>0. e \in Procs /\ e \notin Workers
  BY ConstantsOK DEF Procs
<1>c. proc[e].pc # "idle" => proc[e] \in Active
  BY <1>0, Working
<1>1. CASE Reload(e)
  <2>1. \E r : proc' = [proc EXCEPT ![e] = r]
    <3>1. CASE Exists(proc[e].art)
      BY <1>1, <3>1 DEF Reload, Goto
    <3>2. CASE ~Exists(proc[e].art)
      BY <1>1, <3>2 DEF Reload
    <3> QED
      BY <3>1, <3>2
  <2>3. HandsKept
    BY <2>1, EditorHands
  <2> QED
    BY <1>1, <2>3, QueueUntouched DEF Reload, db, hist
<1>2. CASE LookAtCache(e)
  <2>1. HandsKept
    BY <1>0, <1>2 DEF LookAtCache, HandsKept, TypeOK
  <2> QED
    BY <1>2, <2>1, QueueUntouched DEF LookAtCache, db, hist
<1>3. CASE InvalidateRendered(e)
  <2>1. \E r : proc' = [proc EXCEPT ![e] = r]
    BY <1>3 DEF InvalidateRendered
  <2>2. HandsKept
    BY <2>1, EditorHands
  <2>3. PICK cur : rendered' = [rendered EXCEPT ![cur] = NoBuild]
    BY <1>3 DEF InvalidateRendered
  <2>4. \A x \in gone : rendered'[x] = NoBuild
    BY <2>3 DEF QueueInv, DeletedLeavesNothing, TypeOK
  <2>5. UNCHANGED <<rev, gone, status, cache, links, orphaned, abandoned>>
    BY <1>3 DEF InvalidateRendered, hist
  <2> QED
    BY <2>2, <2>4, <2>5, HandsKeptInFlight
       DEF QueueInv, CompilingOwned, OrphansCompiling, CompilingRows,
           GoneWereCreated, DeletedLeavesNothing
<1>4. CASE DropCache(e)
  <2>1. PICK d \in proc[e].todo :
           /\ cache' = [cache EXCEPT ![d] = NoBuild]
           /\ proc' = [proc EXCEPT ![e].pc = "requeue", ![e].art = d, ![e].todo = @ \ {d}]
    BY <1>4 DEF DropCache
  <2>3. HandsKept
    <3>1. \A v \in Workers : proc'[v] = proc[v]
      BY <1>0, <2>1 DEF TypeOK, Procs
    <3> QED
      BY <3>1 DEF HandsKept
  <2>2. \A x \in gone : cache'[x] = NoBuild
    BY <2>1 DEF QueueInv, DeletedLeavesNothing, TypeOK
  <2>4. UNCHANGED <<rev, gone, status, rendered, links, orphaned, abandoned>>
    BY <1>4 DEF DropCache, hist
  <2> QED
    BY <2>2, <2>3, <2>4, HandsKeptInFlight
       DEF QueueInv, CompilingOwned, OrphansCompiling, CompilingRows,
           GoneWereCreated, DeletedLeavesNothing
<1>5. CASE Requeue(e)
  <2>1. HandsKept
    BY <1>0, <1>5 DEF Requeue, HandsKept, TypeOK
  <2>2. proc[e].art \in Articles
    BY <1>5, <1>c DEF Requeue, Active
  <2> QED
    BY <1>5, <2>1, <2>2, EnqueueQueue DEF Requeue
<1>6. CASE Cascade(e)
  BY <1>0, <1>6, CascadeQueue
<1> QED
  BY <1>1, <1>2, <1>3, <1>4, <1>5, <1>6 DEF EditorStep

LEMMA LeavingQueue ==
    ASSUME TypeOK, QueueInv, NEW e \in Editors, ClientGone(e)
    PROVE  QueueInv'
<1>1. HandsKept
  BY LeavingHandler, EditorHands
<1> QED
  BY <1>1, QueueUntouched DEF ClientGone, db

(* A worker whose last UPDATE fails, or that does not learn of its claim,  *)
(* leaves the row among the abandoned; no other failure lets go of one.    *)
LEMMA FailureQueue ==
    ASSUME TypeOK, QueueInv,
           (\E w \in Workers : WorkerFails(w)) \/ (\E e \in Editors : EditorFails(e))
    PROVE  QueueInv'
<1>1. ASSUME NEW w \in Workers, WorkerFails(w) PROVE QueueInv'
  <2> USE DEF QueueInv, CompilingOwned, OrphansCompiling, CompilingRows, GoneWereCreated
  <2>0. w \in Procs /\ w \in DOMAIN proc
    BY DEF Procs, TypeOK
  <2>u. UNCHANGED <<rev, gone, cache, rendered, links, orphaned>>
    BY <1>1, WorkerFailsEffect
  <2>1. CASE ClaimUnanswered(w)
    <3>1. PICK a \in Articles : /\ status[a] = "pending"
                                /\ status' = [status EXCEPT ![a] = "compiling"]
                                /\ abandoned' = abandoned \cup {a}
      BY <2>1 DEF ClaimUnanswered
    <3>2. HandsKept
      BY <2>1 DEF ClaimUnanswered, HandsKept
    <3>3. CompilingOwned' /\ OrphansCompiling' /\ GoneWereCreated'
      BY <2>u, <3>1, <3>2, HandsKeptInFlight DEF TypeOK
    <3>4. DeletedLeavesNothing'
      BY <2>u, <3>1 DEF DeletedLeavesNothing, TypeOK
    <3> QED
      BY <3>3, <3>4
  <2>2. CASE ReportFails(w)
    <3> DEFINE a == proc[w].art
    <3>1. UNCHANGED status /\ abandoned' = abandoned \cup ({a} \cap CompilingRows)
      BY <2>2 DEF ReportFails, db
    <3>2. \A x \in Articles : x # a /\ InFlight(x) => InFlight(x)'
      BY <2>0, <2>2 DEF ReportFails, InFlight, Procs
    <3>3. CompilingOwned' /\ OrphansCompiling' /\ GoneWereCreated'
      BY <2>u, <3>1, <3>2
    <3>4. DeletedLeavesNothing'
      BY <2>u, <3>1 DEF DeletedLeavesNothing
    <3> QED
      BY <3>3, <3>4
  <2>3. CASE CompileFails(w) \/ StoringGoesOn(w)
    <3>1. proc[w] \in Active
      BY <2>0, <2>3, Working DEF CompileFails, StoringGoesOn
    <3>2. HandsKept
      <4>1. ASSUME NEW q, Goto(w, q) PROVE HandsKept
        BY <2>0, <3>1, <4>1 DEF Goto, HandsKept, Active, Procs
      <4>2. ASSUME NEW T, proc' = [proc EXCEPT ![w].todo = T] PROVE HandsKept
        BY <2>0, <3>1, <4>2 DEF HandsKept, Active, Procs
      <4> QED
        BY <2>3, <4>1, <4>2 DEF CompileFails, StoringGoesOn
    <3>3. UNCHANGED <<status, abandoned>>
      BY <2>3 DEF CompileFails, StoringGoesOn, db, hist
    <3> QED
      BY <2>u, <3>2, <3>3, QueueUntouched
  <2>4. CASE CascadeFails(w)
    <3>1. PICK r : /\ proc' = [proc EXCEPT ![w] = r]
                   /\ \/ r = AfterCascade(w)
                      \/ \E T \in SUBSET proc[w].todo : r = [proc[w] EXCEPT !.todo = T]
      BY <2>0, <2>4, CascadeFailsEffect
    <3>2. proc[w] \in Active
      BY <2>0, <2>4, CascadeFailsEffect
    <3>3. r.art = proc[w].art
      BY <3>1, <3>2 DEF AfterCascade, Active
    <3>4. HandsKept
      BY <2>0, <3>1, <3>3 DEF HandsKept, Procs
    <3>5. UNCHANGED <<status, abandoned>>
      BY <2>0, <2>4, CascadeFailsEffect DEF db
    <3> QED
      BY <2>u, <3>4, <3>5, QueueUntouched
  <2> QED
    BY <1>1, <2>1, <2>2, <2>3, <2>4 DEF WorkerFails
<1>2. ASSUME NEW e \in Editors, EditorFails(e) PROVE QueueInv'
  <2>1. HandsKept
    BY <1>2, EditorFailsEffect, EditorHands
  <2>2. /\ UNCHANGED <<rev, gone, status, cache, links, orphaned, abandoned>>
        /\ \A a \in Articles : rendered'[a] \in {rendered[a], NoBuild}
    BY <1>2, EditorFailsEffect
  <2>3. \A x \in gone : rendered'[x] = NoBuild
    BY <2>2 DEF QueueInv, DeletedLeavesNothing, TypeOK
  <2> QED
    BY <2>1, <2>2, <2>3, HandsKeptInFlight
       DEF QueueInv, CompilingOwned, OrphansCompiling, CompilingRows,
           GoneWereCreated, DeletedLeavesNothing
<1> QED
  BY <1>1, <1>2

LEMMA ProcessQueue ==
    ASSUME TypeOK, QueueInv, Stop \/ Exit \/ Restart \/ Recover \/ CliChange
    PROVE  QueueInv'
<1> USE DEF QueueInv, CompilingOwned, OrphansCompiling, CompilingRows,
            GoneWereCreated, DeletedLeavesNothing
<1>1. CASE Stop
  BY <1>1 DEF Stop, db
<1>2. CASE Exit
  BY <1>2 DEF Exit, db
<1>3. CASE Restart
  BY <1>3 DEF Restart, db, hist, InFlight
<1>4. CASE Recover
  <2>1. PICK old \in SUBSET orphaned :
           /\ status' = [x \in Articles |-> IF x \in old THEN "pending" ELSE status[x]]
           /\ orphaned' = orphaned \ old /\ abandoned' = abandoned \ old
    BY <1>4 DEF Recover
  <2>2. \A x \in gone : x \in Articles /\ x \notin old
    BY DEF TypeOK
  <2> QED
    BY <1>4, <2>1, <2>2 DEF Recover, InFlight, TypeOK
<1>5. CASE CliChange
  BY <1>5 DEF CliChange, db, hist, InFlight
<1> QED
  BY <1>1, <1>2, <1>3, <1>4, <1>5

(* The warm-up writes the page of an article only while there is one. *)
LEMMA WarmUpQueue ==
    ASSUME TypeOK, QueueInv, WarmUp \/ \E a \in Articles : WarmPage(a)
    PROVE  QueueInv'
<1>1. HandsKept
  BY DEF WarmUp, WarmPage, HandsKept
<1>2. CASE WarmUp
  BY <1>1, <1>2, QueueUntouched DEF WarmUp, db, hist
<1>3. ASSUME NEW a \in Articles, WarmPage(a) PROVE QueueInv'
  <2>1. \A x \in gone : rendered'[x] = rendered[x]
    BY <1>3 DEF WarmPage, Exists, TypeOK
  <2> QED
    BY <1>1, <1>3, <2>1, HandsKeptInFlight
       DEF WarmPage, QueueInv, CompilingOwned, OrphansCompiling, CompilingRows,
           GoneWereCreated, DeletedLeavesNothing
<1> QED
  BY <1>2, <1>3

LEMMA InitQueue == Init => QueueInv
BY DEF Init, QueueInv, CompilingOwned, OrphansCompiling, CompilingRows,
       GoneWereCreated, DeletedLeavesNothing

LEMMA StepQueue == TypeOK /\ QueueInv /\ [Next]_vars => QueueInv'
<1> SUFFICES ASSUME TypeOK, QueueInv, [Next]_vars PROVE QueueInv'
  OBVIOUS
<1>1. CASE Next
  BY <1>1, WorkerQueue, RequestQueue, EditorQueue, LeavingQueue, FailureQueue, ProcessQueue,
     WarmUpQueue DEF Next
<1>2. CASE UNCHANGED vars
  BY <1>2, QueueUntouched DEF vars, db, hist, HandsKept
<1> QED
  BY <1>1, <1>2

(***************************************************************************)
(* No row is stranded in state "compiling": some worker has the article in *)
(* hand, or a worker of an ended process had it, or the last UPDATE of its *)
(* worker, or the answer to a claim, was lost.  Neither two workers with   *)
(* the same article, nor a deletion, an enqueue or the failure of any      *)
(* other statement takes a row out of all hands.                           *)
(***************************************************************************)
THEOREM NoStrandedRow == Spec => []CompilingOwned
<1>1. Init => TypeOK /\ QueueInv
  BY InitType, InitQueue
<1>2. TypeOK /\ QueueInv /\ [Next]_vars => (TypeOK /\ QueueInv)'
  BY StepType, StepQueue
<1>3. QueueInv => CompilingOwned
  BY DEF QueueInv
<1> QED
  BY <1>1, <1>2, <1>3, PTL DEF Spec

(***************************************************************************)
(* A deleted article leaves nothing behind, whatever a worker that had it  *)
(* in hand, a cascade that found it or a restart still writes.             *)
(***************************************************************************)
THEOREM NothingOfTheDeleted == Spec => []DeletedLeavesNothing
<1>1. Init => TypeOK /\ QueueInv
  BY InitType, InitQueue
<1>2. TypeOK /\ QueueInv /\ [Next]_vars => (TypeOK /\ QueueInv)'
  BY StepType, StepQueue
<1>3. QueueInv => DeletedLeavesNothing
  BY DEF QueueInv
<1> QED
  BY <1>1, <1>2, <1>3, PTL DEF Spec

-----------------------------------------------------------------------------
(***************************************************************************)
(* Readers get the current document.  For an article none of whose         *)
(* compiles met a concurrent change: at most one worker has it in hand,    *)
(* its row says "compiling" meanwhile, and what the worker has read is     *)
(* still current; and once its compile has succeeded, what is stored is    *)
(* current, or a handler that has changed a part of it has not come to its *)
(* enqueue yet.                                                            *)
(***************************************************************************)

(* The handler with locals l has dropped the compiled document of a and is *)
(* about to enqueue a.                                                     *)
Requeues(l, a) == l.pc = "requeue" /\ l.req \in {"update", "retag", "recompile"} /\ l.art = a

(* It has changed an article a was built from and not walked the cache.    *)
HasChanged(l, a) ==
    /\ l.art \in Parts(cache[a])
    /\ \/ l.req = "update" /\ l.pc = "reload" /\ Exists(l.art)
       \/ l.req = "update" /\ l.pc \in {"invalidate", "drop", "requeue"}
       \/ l.req = "update" /\ l.pc = "walk" /\ l.art # a
       \/ l.req = "delete" /\ l.pc \in {"invalidate", "walk"} /\ l.art # a

(* Its walk has found a. *)
HasFound(l, a) == l.pc = "enqueue" /\ a \in l.todo

Requeued(a) == \E e \in Editors : Requeues(proc[e], a)

Owed(a) == \E e \in Editors :
    Requeues(proc[e], a) \/ HasChanged(proc[e], a) \/ HasFound(proc[e], a)

Fresh(a) ==
    /\ cache[a] # NoBuild
    /\ rendered[a] \in {NoBuild, cache[a]}
    /\ Current(cache[a])

(* What worker w does with the article a it has in hand. *)
Stored == {"clear", "link", "walk", "enqueue", "sweep", "succeed"}
Rendered == {"walk", "enqueue", "sweep", "succeed"}

Holds(w, a) ==
    LET b == proc[w].built IN
    /\ status[a] = "compiling"
    /\ a \notin orphaned
    /\ \A v \in Workers : proc[v].art = a => v = w
    /\ proc[w].pc = "read" => b = NoBuild
    /\ proc[w].pc \notin {"read", "fail"} => b[a] > 0 /\ Current(b)
    /\ proc[w].pc \in Stored => (cache[a] = b \/ (cache[a] = NoBuild /\ Requeued(a)))
    /\ proc[w].pc \in Rendered => rendered[a] \in {NoBuild, b}

(* A worker that goes on with the same document, in the cascade if it is   *)
(* there already.                                                          *)
GoesOn(l, m) ==
    /\ m.art = l.art
    /\ m.built = l.built
    /\ m.pc = l.pc \/ {l.pc, m.pc} \subseteq Rendered

InGoodHands(a) == \A w \in Workers : proc[w].art = a => Holds(w, a)

Settled(a) == status[a] = "success" => Fresh(a) \/ Owed(a)

(* The steps a handler takes for each request. *)
Shape(l) ==
    /\ l.pc = "reload" => l.req = "update"
    /\ l.pc = "invalidate" => l.req \in {"update", "delete", "retag"}
    /\ l.pc = "drop" => l.req \in {"update", "retag", "recompile"}
    /\ l.pc = "drop" /\ l.req # "retag" => l.todo = {l.art}
    /\ l.pc = "requeue" /\ l.req # "retag" => l.todo = {}

Shapes == \A e \in Editors : Shape(proc[e])

RowsExist == \A a \in Articles : status[a] # "none" => Exists(a)

StaleInv ==
    /\ Shapes
    /\ RowsExist
    /\ \A a \in Articles \ disturbed : InGoodHands(a) /\ Settled(a)

(* A step that leaves what is stored for a, and the workers that hold it.  *)
(* The document may go if a handler is about to enqueue a, and the page    *)
(* may be cleared or written anew from the document.                       *)
LEMMA HandKept ==
    ASSUME NEW a \in Articles, InGoodHands(a), UNCHANGED <<rev, gone>>,
           status'[a] = status[a], a \in orphaned' => a \in orphaned,
           \A v \in Workers : proc'[v].art = a => GoesOn(proc[v], proc'[v]),
           \/ cache'[a] = cache[a] /\ (Requeued(a) => Requeued(a)')
           \/ cache'[a] = NoBuild /\ Requeued(a)',
           rendered'[a] \in {rendered[a], NoBuild, cache[a]}
    PROVE  InGoodHands(a)'
<1> SUFFICES ASSUME NEW w \in Workers, proc'[w].art = a PROVE Holds(w, a)'
  BY DEF InGoodHands
<1>1. GoesOn(proc[w], proc'[w]) /\ proc[w].art = a /\ Holds(w, a)
  BY DEF InGoodHands, GoesOn
<1>2. \A b : Current(b)' <=> Current(b)
  BY DEF Current, Exists
<1>3. \A v \in Workers : proc'[v].art = a => v = w
  <2> SUFFICES ASSUME NEW v \in Workers, proc'[v].art = a PROVE v = w
    OBVIOUS
  <2>1. proc[v].art = a
    BY DEF GoesOn
  <2> QED
    BY <1>1, <2>1 DEF Holds
<1>4. /\ Rendered \subseteq Stored
      /\ Stored \cap {"read", "fail"} = {}
  BY DEF Rendered, Stored
<1>5. /\ proc'[w].pc = "read" => proc[w].pc = "read"
      /\ proc'[w].pc \notin {"read", "fail"} => proc[w].pc \notin {"read", "fail"}
      /\ proc'[w].pc \in Stored => proc[w].pc \in Stored
      /\ proc'[w].pc \in Rendered => proc[w].pc \in Rendered
  BY <1>1, <1>4 DEF GoesOn
<1> DEFINE b == proc[w].built
<1>6. /\ proc'[w].built = b
      /\ Holds(w, a)
  BY <1>1 DEF GoesOn
<1>7. /\ proc'[w].pc = "read" => b = NoBuild
      /\ proc'[w].pc \notin {"read", "fail"} => b[a] > 0 /\ Current(b)
  BY <1>5, <1>6 DEF Holds
<1>8. proc'[w].pc \in Stored => (cache'[a] = b \/ (cache'[a] = NoBuild /\ Requeued(a)'))
  BY <1>5, <1>6 DEF Holds
<1>9. proc'[w].pc \in Rendered => rendered'[a] \in {NoBuild, b}
  BY <1>4, <1>5, <1>6 DEF Holds
<1> QED
  BY <1>2, <1>3, <1>6, <1>7, <1>8, <1>9 DEF Holds

(* Nobody holds a. *)
LEMMA HandEmpty ==
    ASSUME NEW a \in Articles, \A v \in Workers : proc'[v].art # a
    PROVE  InGoodHands(a)'
BY DEF InGoodHands

(* What is stored for a stays as it is, or a has left the state "success". *)
LEMMA SettledKept ==
    ASSUME NEW a \in Articles, Settled(a), UNCHANGED <<rev, gone>>,
           status'[a] \in {status[a], "none", "pending", "compiling", "failed"},
           cache'[a] = cache[a],
           rendered'[a] \in {rendered[a], NoBuild, cache[a]},
           status'[a] = "success" /\ Owed(a) => Owed(a)'
    PROVE  Settled(a)'
<1>1. \A b : Current(b)' <=> Current(b)
  BY DEF Current, Exists
<1> QED
  BY <1>1 DEF Settled, Fresh

(* The handlers are where they were. *)
LEMMA OwedKept ==
    ASSUME NEW a \in Articles, UNCHANGED <<rev, gone>>, cache'[a] = cache[a],
           \A e \in Editors : proc'[e] = proc[e]
    PROVE  /\ Owed(a) <=> Owed(a)'
           /\ Requeued(a) <=> Requeued(a)'
<1>1. \A l : HasChanged(l, a)' <=> HasChanged(l, a)
  BY DEF HasChanged, Exists
<1> QED
  BY <1>1 DEF Owed, Requeued, Requeues, HasFound

(* An article that is not disturbed and not in hand stays out of hand. *)
LEMMA NotInFlight ==
    ASSUME NEW a, ~InFlight(a), HandsKept
    PROVE  \A v \in Workers : proc'[v].art # a
BY DEF InFlight, HandsKept

(***************************************************************************)
(* The shape of the handlers, and that only existing articles have rows.   *)
(***************************************************************************)
LEMMA ShapeOthers ==
    ASSUME Shapes, NEW e \in Editors, Shape(proc'[e]),
           \A f \in Editors \ {e} : proc'[f] = proc[f]
    PROVE  Shapes'
BY DEF Shapes, Shape

LEMMA EditorAt == ASSUME TypeOK, NEW e \in Editors, NEW r, proc' = [proc EXCEPT ![e] = r]
                  PROVE  /\ proc'[e] = r
                         /\ \A f \in Editors \ {e} : proc'[f] = proc[f]
                         /\ \A v \in Workers : proc'[v] = proc[v]
BY ConstantsOK DEF TypeOK, Procs

LEMMA WorkerAt == ASSUME TypeOK, NEW w \in Workers, NEW r, proc' = [proc EXCEPT ![w] = r]
                  PROVE  /\ proc'[w] = r
                         /\ \A f \in Editors : proc'[f] = proc[f]
                         /\ \A v \in Workers \ {w} : proc'[v] = proc[v]
BY ConstantsOK DEF TypeOK, Procs

LEMMA IdleShape == Shape(Idle)
BY DEF Shape, Idle

(* A goroutine moves itself only. *)
LEMMA CascadeMoves == ASSUME NEW p \in Procs, Cascade(p) PROVE \E r : proc' = [proc EXCEPT ![p] = r]
BY DEF Cascade, Walk, EnqueueDependent, Rewalk, Sweep

LEMMA WorkerMoves == ASSUME NEW w \in Workers, WorkerStep(w) PROVE \E r : proc' = [proc EXCEPT ![w] = r]
<1>0. w \in Procs
  BY DEF Procs
<1>1. CASE Claim(w)
  BY <1>1 DEF Claim
<1>2. CASE ReadSource(w) \/ LookupImport(w) \/ ResolveError(w)
  BY <1>2 DEF ReadSource, LookupImport, ResolveError, Goto
<1>3. CASE Compile(w) \/ StoreCache(w) \/ AfterCompile(w)
  BY <1>3 DEF Compile, StoreCache, AfterCompile, Goto
<1>4. CASE ClearLinks(w)
  BY <1>4 DEF ClearLinks
<1>5. CASE InsertLink(w)
  BY <1>5 DEF InsertLink
<1>6. CASE MarkSuccess(w) \/ MarkError(w)
  BY <1>6 DEF MarkSuccess, MarkError
<1> QED
  BY <1>0, <1>1, <1>2, <1>3, <1>4, <1>5, <1>6, CascadeMoves DEF WorkerStep, CompileStep

LEMMA RequestMoves == ASSUME NEW e \in Editors, Request(e) PROVE \E r : proc' = [proc EXCEPT ![e] = r]
BY DEF Request, Create, Update, Delete, Retag, Recompile, View, Start

LEMMA EditorMoves ==
    ASSUME NEW e \in Editors, EditorStep(e)
    PROVE  \E r : proc' = [proc EXCEPT ![e] = r]
<1>0. e \in Procs
  BY DEF Procs
<1>1. CASE Reload(e)
  BY <1>1 DEF Reload, Goto
<1>2. CASE LookAtCache(e) \/ Requeue(e)
  BY <1>2 DEF LookAtCache, Requeue
<1>3. CASE InvalidateRendered(e)
  BY <1>3 DEF InvalidateRendered
<1>4. CASE DropCache(e)
  BY <1>4 DEF DropCache
<1> QED
  BY <1>0, <1>1, <1>2, <1>3, <1>4, CascadeMoves DEF EditorStep

LEMMA RequestShapes ==
    ASSUME TypeOK, Shapes, NEW e \in Editors, Request(e)
    PROVE  Shapes'
<1>0. PICK a \in Articles : \/ Create(e, a) \/ Update(e, a) \/ Delete(e, a)
                            \/ Retag(e, a) \/ Recompile(e, a) \/ View(e, a)
  BY DEF Request
<1>1. PICK r : proc' = [proc EXCEPT ![e] = r]
  BY RequestMoves
<1>2. proc'[e] = r /\ \A f \in Editors \ {e} : proc'[f] = proc[f]
  BY <1>1, EditorAt
<1>e. e \in DOMAIN proc
  BY DEF TypeOK, Procs
<1>3. Shape(proc'[e])
  <2>1. CASE Create(e, a)
    BY <2>1, <1>e DEF Create, Shape, Idle
  <2>2. CASE Update(e, a)
    BY <2>2, <1>e DEF Update, Start, Shape, Idle
  <2>3. CASE Delete(e, a)
    BY <2>3, <1>e DEF Delete, Start, Shape, Idle
  <2>4. CASE Retag(e, a)
    BY <2>4, <1>e DEF Retag, Start, Shape, Idle
  <2>5. CASE Recompile(e, a)
    BY <2>5, <1>e DEF Recompile, Start, Shape, Idle
  <2>6. CASE View(e, a)
    BY <2>6, <1>e DEF View, Start, Shape, Idle
  <2> QED
    BY <1>0, <2>1, <2>2, <2>3, <2>4, <2>5, <2>6
<1> QED
  BY <1>2, <1>3, ShapeOthers

LEMMA AfterRequeueShape ==
    ASSUME NEW l \in Active, Shape(l), l.pc = "requeue"
    PROVE  Shape(AfterRequeue(l))
BY IdleShape DEF AfterRequeue, Shape, Active

LEMMA EditorShapes ==
    ASSUME TypeOK, Shapes, NEW e \in Editors, EditorStep(e)
    PROVE  Shapes'
<1>0. e \in DOMAIN proc /\ e \in Procs /\ e \notin Workers
  BY ConstantsOK DEF TypeOK, Procs
<1>1. PICK r : proc' = [proc EXCEPT ![e] = r]
  BY EditorMoves
<1>2. proc'[e] = r /\ \A f \in Editors \ {e} : proc'[f] = proc[f]
  BY <1>1, EditorAt
<1>3. proc[e] \in Active
  BY <1>0, Working DEF EditorStep, Reload, LookAtCache, InvalidateRendered, DropCache, Requeue,
                        Cascade, Walk, EnqueueDependent, Rewalk, Sweep
<1>4. Shape(proc[e])
  BY DEF Shapes
<1>5. Shape(proc'[e])
  <2>1. CASE Reload(e)
    <3>1. proc'[e] \in {[proc[e] EXCEPT !.pc = "invalidate"], Idle}
      BY <1>0, <2>1 DEF Reload, Goto
    <3>2. proc[e].req = "update"
      BY <1>4, <2>1 DEF Reload, Shape
    <3> QED
      BY <1>3, <3>1, <3>2, IdleShape DEF Shape, Active
  <2>2. CASE LookAtCache(e)
    <3>1. proc'[e] \in {[proc[e] EXCEPT !.pc = "requeue", !.todo = {}], Idle}
      BY <1>0, <2>2 DEF LookAtCache
    <3> QED
      BY <1>3, <3>1, IdleShape DEF Shape, Active
  <2>3. CASE InvalidateRendered(e)
    <3>1. PICK cur \in proc[e].todo : InvalidateRendered(e)!2!(cur)
      BY <2>3 DEF InvalidateRendered
    <3> DEFINE new  == {d \in Articles : <<d, cur>> \in links} \ proc[e].seen
               rest == (proc[e].todo \ {cur}) \cup new
               all  == proc[e].seen \cup new
    <3>2. proc'[e] \in {[proc[e] EXCEPT !.todo = rest, !.seen = all], AfterInvalidation(proc[e], all)}
      BY <1>0, <3>1
    <3>3. proc[e].pc = "invalidate" /\ proc[e].req \in {"update", "delete", "retag"}
      BY <1>4, <2>3 DEF InvalidateRendered, Shape
    <3>4. Shape([proc[e] EXCEPT !.todo = rest, !.seen = all])
      BY <1>3, <3>3 DEF Shape, Active
    <3>5. Shape(AfterInvalidation(proc[e], all))
      BY <1>3, <3>3 DEF Shape, Active, AfterInvalidation
    <3> QED
      BY <3>2, <3>4, <3>5
  <2>4. CASE DropCache(e)
    <3>1. PICK d \in proc[e].todo :
             proc' = [proc EXCEPT ![e].pc = "requeue", ![e].art = d, ![e].todo = @ \ {d}]
      BY <2>4 DEF DropCache
    <3>2. proc'[e] = [proc[e] EXCEPT !.pc = "requeue", !.art = d, !.todo = @ \ {d}]
      BY <1>0, <3>1
    <3>3. proc[e].req # "retag" => proc[e].todo \ {d} = {}
      BY <1>4, <2>4, <3>1 DEF Shape, DropCache
    <3>4. /\ proc'[e].pc = "requeue" /\ proc'[e].req = proc[e].req
          /\ proc'[e].todo = proc[e].todo \ {d}
      BY <1>3, <3>2 DEF Active
    <3> QED
      BY <3>3, <3>4 DEF Shape
  <2>5. CASE Requeue(e)
    <3>1. proc'[e] = AfterRequeue(proc[e])
      BY <1>0, <2>5 DEF Requeue
    <3> QED
      BY <1>3, <1>4, <2>5, <3>1, AfterRequeueShape DEF Requeue
  <2>6. CASE Cascade(e)
    <3> SUFFICES proc'[e].pc \in {"idle", "enqueue", "sweep"}
      BY DEF Shape
    <3>1. AfterCascade(e).pc = "idle"
      BY <1>0 DEF AfterCascade, Idle
    <3>2. CASE Walk(e)
      BY <1>0, <1>3, <3>1, <3>2 DEF Walk, Active
    <3>3. CASE EnqueueDependent(e)
      BY <1>0, <1>3, <3>3 DEF EnqueueDependent, Active
    <3>4. CASE Rewalk(e)
      BY <1>0, <1>3, <3>1, <3>4 DEF Rewalk, Active
    <3>5. CASE Sweep(e)
      BY <1>0, <3>1, <3>5 DEF Sweep
    <3> QED
      BY <2>6, <3>2, <3>3, <3>4, <3>5 DEF Cascade
  <2> QED
    BY <2>1, <2>2, <2>3, <2>4, <2>5, <2>6 DEF EditorStep
<1> QED
  BY <1>2, <1>5, ShapeOthers

LEMMA LeavingShapes ==
    ASSUME TypeOK, Shapes, NEW e \in Editors, ClientGone(e)
    PROVE  Shapes'
<1>0. e \in DOMAIN proc /\ Shape(proc[e])
  BY DEF TypeOK, Procs, Shapes
<1>1. CASE proc' = [proc EXCEPT ![e] = Idle]
  BY <1>0, <1>1, IdleShape, ShapeOthers, EditorAt
<1>2. ASSUME NEW l \in Hurried(proc[e]), proc' = [proc EXCEPT ![e] = l]
      PROVE  Shapes'
  <2>1. proc[e] \in Active
    <3>1. proc[e].pc # "idle"
      BY <1>2 DEF Hurried
    <3> QED
      BY <3>1, Working DEF Procs
  <2>2. l.pc \in {"requeue", "walk"} /\ l.todo = {}
    BY <1>2, <2>1 DEF Hurried, Active
  <2>3. Shape(l)
    BY <2>2 DEF Shape
  <2> QED
    BY <1>0, <1>2, <2>3, ShapeOthers, EditorAt
<1> QED
  BY <1>1, <1>2 DEF ClientGone

LEMMA FailureShapes ==
    ASSUME TypeOK, Shapes, NEW e \in Editors, EditorFails(e)
    PROVE  Shapes'
<1>0. e \in DOMAIN proc /\ e \in Procs /\ e \notin Workers
  BY ConstantsOK DEF TypeOK, Procs
<1>1. PICK r : proc' = [proc EXCEPT ![e] = r]
  BY EditorFailsEffect
<1>2. proc'[e] = r /\ \A f \in Editors \ {e} : proc'[f] = proc[f]
  BY <1>1, EditorAt
<1>3. proc[e] \in Active
  BY EditorFailsEffect
<1>4. Shape(proc[e])
  BY DEF Shapes
<1>5. Shape(proc'[e])
  <2>1. CASE InvalidationFails(e)
    <3>1. PICK cur \in proc[e].todo :
             proc'[e] = IF proc[e].todo # {cur} THEN [proc[e] EXCEPT !.todo = proc[e].todo \ {cur}]
                        ELSE AfterInvalidation(proc[e], proc[e].seen)
      BY <1>0, <2>1 DEF InvalidationFails
    <3>2. proc[e].pc = "invalidate" /\ proc[e].req \in {"update", "delete", "retag"}
      BY <1>4, <2>1 DEF InvalidationFails, Shape
    <3>3. Shape([proc[e] EXCEPT !.todo = proc[e].todo \ {cur}])
      BY <1>3, <3>2 DEF Shape, Active
    <3>4. Shape(AfterInvalidation(proc[e], proc[e].seen))
      BY <1>3, <3>2 DEF Shape, Active, AfterInvalidation
    <3> QED
      BY <3>1, <3>3, <3>4
  <2>2. CASE HandlerFails(e)
    <3>1. CASE proc' = [proc EXCEPT ![e] = Idle]
      BY <1>0, <3>1, IdleShape
    <3>2. ASSUME proc[e].pc = "drop", NEW d \in proc[e].todo,
                 proc' = [proc EXCEPT ![e].pc = "requeue", ![e].art = d, ![e].todo = @ \ {d}]
          PROVE  Shape(proc'[e])
      <4>1. /\ proc'[e].pc = "requeue" /\ proc'[e].req = proc[e].req
            /\ proc'[e].todo = proc[e].todo \ {d}
        BY <1>0, <1>3, <3>2 DEF Active
      <4>2. proc[e].req # "retag" => proc[e].todo \ {d} = {}
        BY <1>4, <3>2 DEF Shape
      <4> QED
        BY <4>1, <4>2 DEF Shape
    <3>3. CASE proc[e].pc = "requeue" /\ proc' = [proc EXCEPT ![e] = AfterRequeue(@)]
      <4>1. proc'[e] = AfterRequeue(proc[e])
        BY <1>0, <3>3
      <4> QED
        BY <1>3, <1>4, <3>3, <4>1, AfterRequeueShape
    <3>4. CASE proc' = [proc EXCEPT ![e].pc = "requeue", ![e].todo = {}]
      <4>1. proc'[e].pc = "requeue" /\ proc'[e].todo = {}
        BY <1>0, <1>3, <3>4 DEF Active
      <4> QED
        BY <4>1 DEF Shape
    <3> QED
      BY <2>2, <3>1, <3>2, <3>3, <3>4 DEF HandlerFails
  <2>3. CASE CascadeFails(e)
    <3>1. PICK q : /\ proc' = [proc EXCEPT ![e] = q]
                   /\ \/ q = AfterCascade(e)
                      \/ \E T \in SUBSET proc[e].todo : q = [proc[e] EXCEPT !.todo = T]
      BY <1>0, <2>3, CascadeFailsEffect
    <3>2. proc'[e] = q /\ proc[e].pc \in {"walk", "enqueue", "sweep"}
      BY <1>0, <2>3, <3>1, CascadeFailsEffect
    <3>3. q.pc \in {"idle", "walk", "enqueue", "sweep"}
      BY <1>0, <1>3, <3>1, <3>2 DEF AfterCascade, Idle, Active
    <3> QED
      BY <3>2, <3>3 DEF Shape
  <2> QED
    BY <2>1, <2>2, <2>3 DEF EditorFails
<1> QED
  BY <1>2, <1>5, ShapeOthers

LEMMA StepShapes == ASSUME TypeOK, Shapes, [Next]_vars PROVE Shapes'
<1>1. ASSUME NEW w \in Workers, WorkerStep(w) \/ WorkerFails(w) PROVE Shapes'
  BY <1>1, WorkerMoves, WorkerFailsEffect, WorkerAt DEF Shapes
<1>2. CASE Stop
  BY <1>2, ConstantsOK DEF Stop, Shapes, Procs
<1>3. CASE Exit
  BY <1>3, IdleShape DEF Exit, Shapes, Procs
<1>4. CASE UNCHANGED proc
  BY <1>4 DEF Shapes
<1>5. Restart \/ Recover \/ WarmUp \/ CliChange \/ (\E a \in Articles : WarmPage(a))
         \/ UNCHANGED vars => UNCHANGED proc
  BY DEF Restart, Recover, WarmUp, CliChange, WarmPage, vars
<1> QED
  BY <1>1, <1>2, <1>3, <1>4, <1>5, RequestShapes, EditorShapes, LeavingShapes, FailureShapes
     DEF Next

(* Only existing articles have a row.  The cascade and the handlers: *)
LEMMA EnqueueRows ==
    ASSUME TypeOK, RowsExist, NEW a \in Articles, EnqueueCompile(a), UNCHANGED <<rev, gone>>
    PROVE  RowsExist'
BY DEF RowsExist, EnqueueCompile, Exists, TypeOK

LEMMA RowsKept == ASSUME RowsExist, UNCHANGED <<rev, gone, status>> PROVE RowsExist'
BY DEF RowsExist, Exists

LEMMA CascadeRows == ASSUME TypeOK, RowsExist, NEW p \in Procs, Cascade(p) PROVE RowsExist'
<1>1. CASE EnqueueDependent(p)
  <2>1. PICK d \in proc[p].todo : EnqueueCompile(d)
    BY <1>1 DEF EnqueueDependent
  <2>2. proc[p] \in Active
    BY <1>1, Working DEF EnqueueDependent
  <2>3. d \in Articles
    BY <2>1, <2>2 DEF Active
  <2> QED
    BY <1>1, <2>1, <2>3, EnqueueRows DEF EnqueueDependent
<1>2. CASE Walk(p) \/ Rewalk(p) \/ Sweep(p)
  BY <1>2, RowsKept DEF Walk, Rewalk, Sweep, db
<1> QED
  BY <1>1, <1>2 DEF Cascade

LEMMA WorkerRows ==
    ASSUME TypeOK, RowsExist, NEW w \in Workers, WorkerStep(w)
    PROVE  RowsExist'
<1>0. w \in Procs
  BY DEF Procs
<1>1. CASE Claim(w)
  BY <1>1 DEF Claim, RowsExist, Exists, TypeOK
<1>2. CASE ReadSource(w)
  BY <1>2 DEF ReadSource, RowsExist, Exists, TypeOK, db
<1>3. CASE LookupImport(w) \/ ResolveError(w) \/ Compile(w) \/ StoreCache(w)
             \/ ClearLinks(w) \/ InsertLink(w) \/ AfterCompile(w)
  BY <1>3, RowsKept DEF LookupImport, ResolveError, Compile, StoreCache, ClearLinks,
                        InsertLink, AfterCompile, db
<1>4. CASE MarkSuccess(w)
  BY <1>4 DEF MarkSuccess, RowsExist, Exists, TypeOK
<1>5. CASE MarkError(w)
  BY <1>5 DEF MarkError, RowsExist, Exists, TypeOK
<1> QED
  BY <1>0, <1>1, <1>2, <1>3, <1>4, <1>5, CascadeRows DEF WorkerStep, CompileStep

LEMMA RequestRows ==
    ASSUME TypeOK, RowsExist, NEW e \in Editors, Request(e)
    PROVE  RowsExist'
<1>0. PICK a \in Articles : \/ Create(e, a) \/ Update(e, a) \/ Delete(e, a)
                            \/ Retag(e, a) \/ Recompile(e, a) \/ View(e, a)
  BY DEF Request
<1>t. rev \in [Articles -> Revisions] /\ status \in [Articles -> Statuses] /\ Revisions \subseteq Nat
  BY BuildsAssumption DEF TypeOK, Revisions
<1>1. CASE Create(e, a)
  BY <1>t, <1>1 DEF Create, RowsExist, Exists
<1>2. CASE Update(e, a)
  <2>1. \A x \in Articles : rev[x] > 0 => rev'[x] > 0
    <3>1. rev' = [rev EXCEPT ![a] = rev[a] + 1] /\ rev[a] \in Nat
      BY <1>t, <1>2 DEF Update
    <3> QED
      BY <1>t, <3>1
  <2> QED
    BY <1>2, <2>1 DEF Update, RowsExist, Exists
<1>3. CASE Delete(e, a)
  BY <1>t, <1>3 DEF Delete, RowsExist, Exists
<1>4. CASE Retag(e, a) \/ Recompile(e, a) \/ View(e, a)
  BY <1>4, RowsKept DEF Retag, Recompile, View, db
<1> QED
  BY <1>0, <1>1, <1>2, <1>3, <1>4

LEMMA EditorRows ==
    ASSUME TypeOK, RowsExist, NEW e \in Editors, EditorStep(e)
    PROVE  RowsExist'
<1>0. e \in Procs
  BY DEF Procs
<1>1. CASE Requeue(e)
  <2>1. proc[e] \in Active
    BY <1>0, <1>1, Working DEF Requeue
  <2> QED
    BY <1>1, <2>1, EnqueueRows DEF Requeue, Active
<1>2. CASE Reload(e) \/ LookAtCache(e) \/ InvalidateRendered(e) \/ DropCache(e)
  BY <1>2, RowsKept DEF Reload, LookAtCache, InvalidateRendered, DropCache, db
<1> QED
  BY <1>0, <1>1, <1>2, CascadeRows DEF EditorStep

LEMMA StepRows == ASSUME TypeOK, QueueInv, RowsExist, [Next]_vars PROVE RowsExist'
<1>1. CASE Recover
  BY <1>1 DEF Recover, RowsExist, Exists, TypeOK, QueueInv, OrphansCompiling, CompilingRows
<1>2. CASE Stop \/ Exit \/ Restart \/ CliChange \/ WarmUp \/ (\E a \in Articles : WarmPage(a))
             \/ (\E e \in Editors : ClientGone(e)) \/ UNCHANGED vars
  BY <1>2, RowsKept DEF Stop, Exit, Restart, CliChange, WarmUp, WarmPage, ClientGone, vars, db
<1>3. ASSUME NEW w \in Workers, WorkerFails(w) PROVE RowsExist'
  <2>1. CASE ClaimUnanswered(w)
    BY <2>1 DEF ClaimUnanswered, RowsExist, Exists, TypeOK
  <2>2. CASE CompileFails(w) \/ StoringGoesOn(w) \/ ReportFails(w) \/ CascadeFails(w)
    BY <2>2, RowsKept DEF CompileFails, StoringGoesOn, ReportFails, CascadeFails, db
  <2> QED
    BY <1>3, <2>1, <2>2 DEF WorkerFails
<1>4. ASSUME NEW e \in Editors, EditorFails(e) PROVE RowsExist'
  BY <1>4, EditorFailsEffect, RowsKept
<1> QED
  BY <1>1, <1>2, <1>3, <1>4, WorkerRows, RequestRows, EditorRows DEF Next

-----------------------------------------------------------------------------
(***************************************************************************)
(* The steps, for one article a.  The cascade first: it enqueues a, or     *)
(* drops its document, or leaves it.                                       *)
(***************************************************************************)
LEMMA EnqueueHand ==
    ASSUME TypeOK, RowsExist, NEW a \in Articles, InGoodHands(a), NEW x \in Articles, EnqueueCompile(x),
           HandsKept, \A v \in Workers : proc'[v].art = a => GoesOn(proc[v], proc'[v]),
           UNCHANGED <<rev, gone, cache, rendered>>, a \notin disturbed',
           x # a => (Requeued(a) => Requeued(a)')
    PROVE  InGoodHands(a)'
<1>1. CASE x = a /\ Exists(x)
  <2>1. ~InFlight(a)
    BY <1>1 DEF EnqueueCompile
  <2> QED
    BY <2>1, NotInFlight, HandEmpty
<1>2. CASE x = a /\ ~Exists(x)
  <2>1. status[a] = "none"
    BY <1>2 DEF RowsExist
  <2>2. ~InFlight(a)
    BY <2>1 DEF InGoodHands, Holds, InFlight
  <2> QED
    BY <2>2, NotInFlight, HandEmpty
<1>3. CASE x # a
  <2>1. status'[a] = status[a] /\ orphaned' \subseteq orphaned
    BY <1>3 DEF EnqueueCompile, TypeOK, hist
  <2> QED
    BY <1>3, <2>1, HandKept
<1> QED
  BY <1>1, <1>2, <1>3

(* A walk finds every article built from the one that has changed. *)
LEMMA WalkFinds ==
    ASSUME NEW x \in Articles, NEW a \in Articles \ {x}, x \in Parts(cache[a])
    PROVE  a \in Dependents(x)
BY DEF Dependents, ClosedUnder, DependsOn, Deps

(***************************************************************************)
(* One handler e moves and nothing else: what is owed by the others stays. *)
(***************************************************************************)
Pending(l, a) == Requeues(l, a) \/ HasChanged(l, a) \/ HasFound(l, a)

LEMMA OwedByOthers ==
    ASSUME NEW e \in Editors, NEW a \in Articles, UNCHANGED <<rev, gone>>, cache'[a] = cache[a],
           \A f \in Editors \ {e} : proc'[f] = proc[f],
           Requeues(proc[e], a) => Requeues(proc'[e], a),
           Pending(proc[e], a) => Pending(proc'[e], a)
    PROVE  /\ Requeued(a) => Requeued(a)'
           /\ Owed(a) => Owed(a)'
<1>1. \A l : /\ HasChanged(l, a)' <=> HasChanged(l, a)
             /\ Requeues(l, a)' <=> Requeues(l, a)
             /\ HasFound(l, a)' <=> HasFound(l, a)
  BY DEF HasChanged, Requeues, HasFound, Exists
<1>2. Pending(proc'[e], a) => \/ Requeues(proc[e], a)' \/ HasChanged(proc[e], a)'
                             \/ HasFound(proc[e], a)'
  BY DEF Pending, HasChanged, Requeues, HasFound, Exists
<1>3. Requeues(proc'[e], a) => Requeues(proc[e], a)'
  BY DEF Requeues
<1> QED
  BY <1>1, <1>2, <1>3 DEF Owed, Requeued, Requeues, HasChanged, HasFound, Pending, Exists

(***************************************************************************)
(* The cascade, run by a worker or by a handler.                           *)
(***************************************************************************)
LEMMA CascadeGoesOn ==
    ASSUME TypeOK, NEW p \in Procs, Cascade(p)
    PROVE  /\ \A v \in Workers : GoesOn(proc[v], proc'[v])
           /\ \A a : Requeued(a) => Requeued(a)'
<1>0. proc[p] \in Active /\ p \in DOMAIN proc
  BY Working DEF Cascade, Walk, EnqueueDependent, Rewalk, Sweep, TypeOK
<1>1. PICK r : proc' = [proc EXCEPT ![p] = r]
  BY CascadeMoves
<1>2. proc[p].pc \in {"walk", "enqueue", "sweep"}
  BY DEF Cascade, Walk, EnqueueDependent, Rewalk, Sweep
<1>3. p \in Workers => GoesOn(proc[p], proc'[p])
  <2> SUFFICES ASSUME p \in Workers PROVE GoesOn(proc[p], proc'[p])
    OBVIOUS
  <2>1. AfterCascade(p) = [proc[p] EXCEPT !.pc = "succeed"]
    BY DEF AfterCascade
  <2>2. \A S \in SUBSET Articles, T \in SUBSET Articles :
           proc'[p] \in {AfterCascade(p), [proc[p] EXCEPT !.pc = "enqueue", !.todo = S, !.seen = S],
                         [proc[p] EXCEPT !.todo = T], [proc[p] EXCEPT !.pc = "sweep", !.todo = S]}
             => GoesOn(proc[p], proc'[p])
    BY <1>0, <1>2, <2>1 DEF GoesOn, Rendered, Active
  <2>3. CASE Walk(p)
    BY <1>0, <2>2, <2>3, DependentsType DEF Walk
  <2>4. CASE EnqueueDependent(p)
    <3>1. PICK d \in proc[p].todo : proc' = [proc EXCEPT ![p].todo = @ \ {d}]
      BY <2>4 DEF EnqueueDependent
    <3>2. proc'[p] = [proc[p] EXCEPT !.todo = proc[p].todo \ {d}]
      BY <1>0, <3>1
    <3> QED
      BY <1>0, <2>2, <3>2 DEF Active
  <2>5. CASE Rewalk(p)
    BY <1>0, <2>2, <2>5, DependentsType DEF Rewalk
  <2>6. CASE Sweep(p)
    BY <1>0, <2>2, <2>6 DEF Sweep
  <2> QED
    BY <2>3, <2>4, <2>5, <2>6 DEF Cascade
<1>4. \A q \in Procs \ {p} : proc'[q] = proc[q]
  BY <1>1 DEF TypeOK
<1>5. \A v \in Workers : GoesOn(proc[v], proc'[v])
  BY <1>3, <1>4 DEF GoesOn, Procs
<1>6. \A a : Requeued(a) => Requeued(a)'
  <2> SUFFICES ASSUME NEW a, NEW e \in Editors, Requeues(proc[e], a) PROVE Requeued(a)'
    BY DEF Requeued
  <2>1. e # p
    BY <1>2 DEF Requeues
  <2> QED
    BY <1>4, <2>1 DEF Requeued, Requeues, Procs
<1> QED
  BY <1>5, <1>6

LEMMA CascadeHand ==
    ASSUME TypeOK, RowsExist, NEW p \in Procs, Cascade(p),
           NEW a \in Articles \ disturbed', InGoodHands(a)
    PROVE  InGoodHands(a)'
<1>0. proc[p] \in Active
  BY Working DEF Cascade, Walk, EnqueueDependent, Rewalk, Sweep
<1>1. /\ \A v \in Workers : GoesOn(proc[v], proc'[v])
      /\ Requeued(a) => Requeued(a)'
  BY CascadeGoesOn
<1>h. HandsKept
  BY <1>1 DEF HandsKept, GoesOn
<1>2. CASE Walk(p) \/ Rewalk(p)
  BY <1>1, <1>2, HandKept DEF Walk, Rewalk, db, hist
<1>3. CASE EnqueueDependent(p)
  <2>1. PICK d \in proc[p].todo : EnqueueCompile(d)
    BY <1>3 DEF EnqueueDependent
  <2>2. d \in Articles /\ UNCHANGED <<rev, gone, cache, rendered>>
    BY <1>0, <1>3, <2>1 DEF Active, EnqueueDependent
  <2> QED
    BY <1>1, <1>h, <2>1, <2>2, EnqueueHand
<1>4. CASE Sweep(p)
  <2>1. CASE a \in proc[p].todo
    <3>1. status[a] = "pending"
      BY <1>4, <2>1 DEF Sweep
    <3>2. ~InFlight(a)
      BY <3>1 DEF InGoodHands, Holds, InFlight
    <3> QED
      BY <1>h, <3>2, NotInFlight, HandEmpty
  <2>2. CASE a \notin proc[p].todo
    <3>1. cache'[a] = cache[a]
      BY <1>4, <2>2 DEF Sweep
    <3> QED
      BY <1>1, <1>4, <3>1, HandKept DEF Sweep
  <2> QED
    BY <2>1, <2>2
<1> QED
  BY <1>2, <1>3, <1>4 DEF Cascade

(* A worker's cascade settles or unsettles nothing. *)
LEMMA EnqueueSettles ==
    ASSUME TypeOK, RowsExist, NEW a \in Articles, NEW x \in Articles, EnqueueCompile(x),
           Settled(a), UNCHANGED <<rev, gone, cache, rendered>>,
           x # a /\ Owed(a) => Owed(a)'
    PROVE  Settled(a)'
<1>1. CASE x = a
  <2>1. status'[a] # "success"
    BY <1>1 DEF EnqueueCompile, RowsExist, TypeOK
  <2> QED
    BY <2>1 DEF Settled
<1>2. CASE x # a
  <2>1. status'[a] = status[a]
    BY <1>2 DEF EnqueueCompile, TypeOK, hist
  <2> QED
    BY <1>2, <2>1, SettledKept
<1> QED
  BY <1>1, <1>2

LEMMA SweepSettles ==
    ASSUME TypeOK, NEW p \in Procs, Sweep(p), NEW a \in Articles \ disturbed', Settled(a),
           cache'[a] = cache[a] /\ Owed(a) => Owed(a)'
    PROVE  Settled(a)'
<1>1. UNCHANGED <<rev, gone, status, rendered>>
  BY DEF Sweep
<1>2. CASE a \in proc[p].todo
  BY <1>1, <1>2 DEF Sweep, Settled
<1>3. CASE a \notin proc[p].todo
  <2>1. cache'[a] = cache[a]
    BY <1>3 DEF Sweep
  <2> QED
    BY <1>1, <2>1, SettledKept
<1> QED
  BY <1>2, <1>3

(***************************************************************************)
(* The steps of a handler.                                                 *)
(***************************************************************************)
LEMMA EditorSettled ==
    ASSUME TypeOK, Shapes, RowsExist, NEW e \in Editors, EditorStep(e),
           NEW a \in Articles \ disturbed', InGoodHands(a), Settled(a)
    PROVE  InGoodHands(a)' /\ Settled(a)'
<1>0. e \in DOMAIN proc /\ e \in Procs /\ e \notin Workers
  BY ConstantsOK DEF TypeOK, Procs
<1>1. PICK r : proc' = [proc EXCEPT ![e] = r]
  BY EditorMoves
<1>2. /\ proc'[e] = r
      /\ \A f \in Editors \ {e} : proc'[f] = proc[f]
      /\ \A v \in Workers : GoesOn(proc[v], proc'[v])
  BY <1>1, EditorAt DEF GoesOn
<1>h. HandsKept
  BY <1>2 DEF HandsKept, GoesOn
<1>3. proc[e] \in Active
  BY <1>0, Working DEF EditorStep, Reload, LookAtCache, InvalidateRendered, DropCache, Requeue,
                        Cascade, Walk, EnqueueDependent, Rewalk, Sweep
<1>4. Shape(proc[e])
  BY DEF Shapes
<1>6. CASE Reload(e)
  <2>1. UNCHANGED <<rev, gone, status, cache, rendered, orphaned>>
    BY <1>6 DEF Reload, db, hist
  <2>2. proc'[e] = IF Exists(proc[e].art) THEN [proc[e] EXCEPT !.pc = "invalidate"] ELSE Idle
    BY <1>0, <1>6 DEF Reload, Goto
  <2>3. ~Requeues(proc[e], a) /\ (Pending(proc[e], a) => Pending(proc'[e], a))
    BY <1>3, <1>6, <2>2 DEF Pending, Requeues, HasChanged, HasFound, Reload, Active
  <2>4. (Requeued(a) => Requeued(a)') /\ (Owed(a) => Owed(a)')
    BY <1>2, <2>1, <2>3, OwedByOthers
  <2> QED
    BY <1>2, <2>1, <2>4, HandKept, SettledKept
<1>7. CASE LookAtCache(e)
  <2>1. UNCHANGED <<rev, gone, status, cache, rendered, orphaned>>
    BY <1>7 DEF LookAtCache, db, hist
  <2>2. ~Requeues(proc[e], a) /\ ~Pending(proc[e], a)
    BY <1>7 DEF Pending, Requeues, HasChanged, HasFound, LookAtCache
  <2>3. (Requeued(a) => Requeued(a)') /\ (Owed(a) => Owed(a)')
    BY <1>2, <2>1, <2>2, OwedByOthers
  <2> QED
    BY <1>2, <2>1, <2>3, HandKept, SettledKept
<1>8. CASE InvalidateRendered(e)
  <2>1. UNCHANGED <<rev, gone, status, cache, orphaned>>
    BY <1>8 DEF InvalidateRendered, hist
  <2>2. PICK cur \in proc[e].todo : InvalidateRendered(e)!2!(cur)
    BY <1>8 DEF InvalidateRendered
  <2> DEFINE new  == {d \in Articles : <<d, cur>> \in links} \ proc[e].seen
             rest == (proc[e].todo \ {cur}) \cup new
             all  == proc[e].seen \cup new
  <2>3. proc'[e] \in {[proc[e] EXCEPT !.todo = rest, !.seen = all], AfterInvalidation(proc[e], all)}
    BY <1>0, <2>2
  <2>4. /\ proc'[e].art = proc[e].art /\ proc'[e].req = proc[e].req
        /\ \/ proc'[e].pc = "invalidate"
           \/ proc[e].req = "update" /\ proc'[e].pc = "drop"
           \/ proc[e].req = "delete" /\ proc'[e].pc = "walk"
           \/ proc[e].req = "retag"
    BY <1>3, <1>4, <1>8, <2>3 DEF InvalidateRendered, Shape, AfterInvalidation, Active
  <2>5. ~Requeues(proc[e], a) /\ (Pending(proc[e], a) => Pending(proc'[e], a))
    BY <1>8, <2>4 DEF Pending, Requeues, HasChanged, HasFound, InvalidateRendered
  <2>6. (Requeued(a) => Requeued(a)') /\ (Owed(a) => Owed(a)')
    BY <1>2, <2>1, <2>5, OwedByOthers
  <2>7. rendered'[a] \in {rendered[a], NoBuild}
    BY <2>2 DEF TypeOK
  <2> QED
    BY <1>2, <2>1, <2>6, <2>7, HandKept, SettledKept
<1>9. CASE DropCache(e)
  <2>1. UNCHANGED <<rev, gone, status, rendered, orphaned>>
    BY <1>9 DEF DropCache, hist
  <2>2. PICK d \in proc[e].todo :
           /\ cache' = [cache EXCEPT ![d] = NoBuild]
           /\ proc' = [proc EXCEPT ![e].pc = "requeue", ![e].art = d, ![e].todo = @ \ {d}]
    BY <1>9 DEF DropCache
  <2>3. /\ proc[e].pc = "drop"
        /\ proc'[e] = [proc[e] EXCEPT !.pc = "requeue", !.art = d, !.todo = @ \ {d}]
    BY <1>0, <1>9, <2>2 DEF DropCache
  <2>4. CASE d = a
    <3>1. Requeues(proc'[e], a)
      BY <1>3, <1>4, <2>3, <2>4 DEF Shape, Requeues, Active
    <3>2. Requeued(a)' /\ Owed(a)'
      BY <3>1 DEF Requeued, Owed, Requeues
    <3>3. cache'[a] = NoBuild
      BY <2>2, <2>4 DEF TypeOK
    <3> QED
      BY <1>2, <2>1, <3>2, <3>3, HandKept DEF Settled
  <2>5. CASE d # a
    <3>1. cache'[a] = cache[a]
      BY <2>2, <2>5 DEF TypeOK
    <3>2. proc[e].req = "update" => d = proc[e].art
      BY <1>4, <2>2, <2>3 DEF Shape
    <3>3. proc'[e].pc = "requeue" /\ proc'[e].req = proc[e].req /\ proc'[e].art = d
      BY <1>3, <2>3 DEF Active
    <3>4. ~Requeues(proc[e], a) /\ (Pending(proc[e], a) => Pending(proc'[e], a))
      BY <2>3, <3>2, <3>3 DEF Pending, Requeues, HasChanged, HasFound
    <3>5. (Requeued(a) => Requeued(a)') /\ (Owed(a) => Owed(a)')
      BY <1>2, <2>1, <3>1, <3>4, OwedByOthers
    <3> QED
      BY <1>2, <2>1, <3>1, <3>5, HandKept, SettledKept
  <2> QED
    BY <2>4, <2>5
<1>10. CASE Requeue(e)
  <2> DEFINE x == proc[e].art
  <2>1. /\ UNCHANGED <<rev, gone, cache, rendered>>
        /\ EnqueueCompile(x) /\ x \in Articles
    BY <1>3, <1>10 DEF Requeue, Active
  <2>2. proc'[e] = IF proc[e].todo # {} THEN [proc[e] EXCEPT !.pc = "drop"]
                   ELSE IF proc[e].req = "update" THEN [proc[e] EXCEPT !.pc = "walk"]
                   ELSE Idle
    BY <1>0, <1>10 DEF Requeue, AfterRequeue
  <2>3. x # a => ~Requeues(proc[e], a) /\ (Pending(proc[e], a) => Pending(proc'[e], a))
    BY <1>3, <1>4, <1>10, <2>2 DEF Pending, Requeues, HasChanged, HasFound, Requeue, Shape, Active
  <2>4. x # a => (Requeued(a) => Requeued(a)') /\ (Owed(a) => Owed(a)')
    BY <1>2, <2>1, <2>3, OwedByOthers
  <2>5. InGoodHands(a)'
    BY <1>2, <1>h, <2>1, <2>4, EnqueueHand
  <2>6. Settled(a)'
    BY <2>1, <2>4, EnqueueSettles
  <2> QED
    BY <2>5, <2>6
<1>11. CASE Cascade(e)
  <2>1. InGoodHands(a)'
    BY <1>0, <1>11, CascadeHand
  <2>2. AfterCascade(e) = Idle
    BY <1>0 DEF AfterCascade
  <2>3. CASE Walk(e)
    <3> DEFINE found == Dependents(proc[e].art)
    <3>1. proc'[e] = IF found = {} THEN Idle
                     ELSE [proc[e] EXCEPT !.pc = "enqueue", !.todo = found, !.seen = found]
      BY <1>0, <2>2, <2>3 DEF Walk
    <3>2. HasChanged(proc[e], a) => a \in found
      BY <1>3, <2>3, WalkFinds DEF HasChanged, Walk, Active
    <3>3. ~Requeues(proc[e], a) /\ (Pending(proc[e], a) => Pending(proc'[e], a))
      BY <1>3, <2>3, <3>1, <3>2 DEF Pending, Requeues, HasFound, Walk, Active
    <3>4. UNCHANGED <<rev, gone, status, cache, rendered>>
      BY <2>3 DEF Walk, db
    <3>5. Owed(a) => Owed(a)'
      BY <1>2, <3>3, <3>4, OwedByOthers
    <3> QED
      BY <2>1, <3>4, <3>5, SettledKept
  <2>4. CASE EnqueueDependent(e)
    <3>1. PICK d \in proc[e].todo : /\ EnqueueCompile(d)
                                    /\ proc' = [proc EXCEPT ![e].todo = @ \ {d}]
      BY <2>4 DEF EnqueueDependent
    <3>2. d \in Articles /\ UNCHANGED <<rev, gone, cache, rendered>>
      BY <1>3, <2>4, <3>1 DEF EnqueueDependent, Active
    <3>3. proc'[e] = [proc[e] EXCEPT !.todo = proc[e].todo \ {d}]
      BY <1>0, <3>1
    <3>4. d # a => ~Requeues(proc[e], a) /\ (Pending(proc[e], a) => Pending(proc'[e], a))
      BY <1>3, <2>4, <3>3 DEF Pending, Requeues, HasChanged, HasFound, EnqueueDependent, Active
    <3>5. d # a => (Owed(a) => Owed(a)')
      BY <1>2, <3>2, <3>4, OwedByOthers
    <3> QED
      BY <2>1, <3>1, <3>2, <3>5, EnqueueSettles
  <2>5. ASSUME Rewalk(e) \/ Sweep(e), cache'[a] = cache[a] PROVE Owed(a) => Owed(a)'
    <3>1. ~Requeues(proc[e], a) /\ ~Pending(proc[e], a)
      BY <2>5 DEF Pending, Requeues, HasChanged, HasFound, Rewalk, Sweep
    <3>2. UNCHANGED <<rev, gone>>
      BY <2>5 DEF Rewalk, Sweep, db
    <3> QED
      BY <1>2, <2>5, <3>1, <3>2, OwedByOthers
  <2>6. CASE Rewalk(e)
    <3>1. UNCHANGED <<rev, gone, status, cache, rendered>>
      BY <2>6 DEF Rewalk, db
    <3> QED
      BY <2>1, <2>5, <2>6, <3>1, SettledKept
  <2>7. CASE Sweep(e)
    BY <1>0, <2>1, <2>5, <2>7, SweepSettles
  <2> QED
    BY <1>11, <2>3, <2>4, <2>6, <2>7 DEF Cascade
<1> QED
  BY <1>6, <1>7, <1>8, <1>9, <1>10, <1>11 DEF EditorStep

(* A client that leaves. *)
LEMMA LeavingSettled ==
    ASSUME TypeOK, Shapes, NEW e \in Editors, ClientGone(e),
           NEW a \in Articles \ disturbed', InGoodHands(a), Settled(a)
    PROVE  InGoodHands(a)' /\ Settled(a)'
<1>0. a \notin LeftBehind(proc[e])
  BY DEF ClientGone
<1>1. UNCHANGED <<rev, gone, status, cache, rendered, orphaned>>
  BY DEF ClientGone, db
<1>2. PICK l \in {Idle} \cup Hurried(proc[e]) :
         /\ proc' = [proc EXCEPT ![e] = l]
         /\ l = Idle => GivesUp(proc[e]) \/ Idle \in Hurried(proc[e])
  BY DEF ClientGone
<1>3. /\ proc'[e] = l
      /\ \A f \in Editors \ {e} : proc'[f] = proc[f]
      /\ \A v \in Workers : GoesOn(proc[v], proc'[v])
  BY <1>2, EditorAt DEF GoesOn
<1>4. proc[e] \in Active
  <2>1. proc[e].pc # "idle"
    BY <1>2 DEF GivesUp, Hurried
  <2> QED
    BY <2>1, Working DEF Procs
<1>5. Requeues(proc[e], a) => Requeues(l, a)
  <2> SUFFICES ASSUME Requeues(proc[e], a) PROVE Requeues(l, a)
    OBVIOUS
  <2>1. proc[e].pc = "requeue" /\ proc[e].req \in {"update", "retag"} /\ proc[e].art = a
    BY <1>0 DEF Requeues, LeftBehind
  <2>2. l = [proc[e] EXCEPT !.todo = {}]
    BY <1>2, <1>4, <2>1 DEF GivesUp, Hurried
  <2> QED
    BY <1>4, <2>1, <2>2 DEF Requeues, Active
<1>6. HasChanged(proc[e], a) => Pending(l, a)
  <2> SUFFICES ASSUME HasChanged(proc[e], a) PROVE Pending(l, a)
    OBVIOUS
  <2>1. proc[e].pc # "reload"
    BY <1>0 DEF HasChanged, LeftBehind, BuiltFrom
  <2>2. proc[e].art \in Parts(cache[a]) /\ proc[e].req \in {"update", "delete"}
    BY DEF HasChanged
  <2>3. l \in Hurried(proc[e])
    BY <1>2, <2>1, <2>2 DEF GivesUp, HasChanged
  <2>4. CASE proc[e].req = "update"
    <3>1. l = [proc[e] EXCEPT !.pc = "requeue", !.todo = {}]
      BY <2>3, <2>4 DEF Hurried
    <3>2. l.art = proc[e].art /\ l.req = "update" /\ l.pc = "requeue"
      BY <1>4, <2>4, <3>1 DEF Active
    <3> QED
      BY <2>2, <3>2 DEF HasChanged, Pending
  <2>5. CASE proc[e].req = "delete"
    <3>1. l = [proc[e] EXCEPT !.pc = "walk", !.todo = {}]
      BY <2>3, <2>5 DEF Hurried
    <3>2. l.art = proc[e].art /\ l.req = "delete" /\ l.pc = "walk"
      BY <1>4, <2>5, <3>1 DEF Active
    <3>3. proc[e].art # a
      BY <2>5 DEF HasChanged
    <3> QED
      BY <2>2, <3>2, <3>3 DEF HasChanged, Pending
  <2> QED
    BY <2>2, <2>4, <2>5
<1>7. ~HasFound(proc[e], a)
  BY <1>2 DEF HasFound, GivesUp, Hurried
<1>8. Pending(proc[e], a) => Pending(proc'[e], a)
  BY <1>3, <1>5, <1>6, <1>7 DEF Pending
<1>9. (Requeued(a) => Requeued(a)') /\ (Owed(a) => Owed(a)')
  BY <1>1, <1>3, <1>5, <1>8, OwedByOthers
<1> QED
  BY <1>1, <1>3, <1>9, HandKept, SettledKept

(***************************************************************************)
(* A new request.  An article changed while a worker has a in hand         *)
(* disturbs a; else a is fresh still, or owed by the handler that starts.  *)
(***************************************************************************)
LEMMA RequestSettled ==
    ASSUME TypeOK, RowsExist, NEW e \in Editors, Request(e),
           NEW a \in Articles \ disturbed', InGoodHands(a), Settled(a)
    PROVE  InGoodHands(a)' /\ Settled(a)'
<1>0. PICK x \in Articles : \/ Create(e, x) \/ Update(e, x) \/ Delete(e, x)
                            \/ Retag(e, x) \/ Recompile(e, x) \/ View(e, x)
  BY DEF Request
<1>t. /\ e \in DOMAIN proc
      /\ rev \in [Articles -> Revisions] /\ Revisions \subseteq Nat
  BY BuildsAssumption DEF TypeOK, Procs, Revisions
<1>1. PICK r : proc' = [proc EXCEPT ![e] = r]
  BY RequestMoves
<1>2. /\ proc'[e] = r
      /\ \A f \in Editors \ {e} : proc'[f] = proc[f]
      /\ \A v \in Workers : proc'[v] = proc[v]
  BY <1>1, EditorAt
<1>3. /\ \A v \in Workers : GoesOn(proc[v], proc'[v])
      /\ HandsKept
  BY <1>2 DEF GoesOn, HandsKept
<1>4. ~Requeues(proc[e], a) /\ ~HasChanged(proc[e], a) /\ ~HasFound(proc[e], a)
  BY <1>0 DEF Create, Update, Delete, Retag, Recompile, View, Receive,
              Requeues, HasChanged, HasFound
<1>5. Retag(e, x) \/ Recompile(e, x) \/ View(e, x) => InGoodHands(a)' /\ Settled(a)'
  <2> SUFFICES ASSUME Retag(e, x) \/ Recompile(e, x) \/ View(e, x) PROVE InGoodHands(a)' /\ Settled(a)'
    OBVIOUS
  <2>1. UNCHANGED <<rev, gone, status, cache, rendered, orphaned>>
    BY DEF Retag, Recompile, View, db, hist
  <2>2. (Requeued(a) => Requeued(a)') /\ (Owed(a) => Owed(a)')
    BY <1>2, <1>4, <2>1, OwedByOthers DEF Pending
  <2> QED
    BY <1>3, <2>1, <2>2, HandKept, SettledKept
<1>6. Create(e, x) \/ Update(e, x) \/ Delete(e, x) => InGoodHands(a)'
  <2>1. Create(e, x) \/ Update(e, x) \/ Delete(e, x) => ~InFlight(a)
    BY DEF Create, Update, Delete, Disturb
  <2> QED
    BY <1>3, <2>1, NotInFlight, HandEmpty
(* What the others owe. *)
<1>7. ASSUME \A y \in Articles : Exists(y) /\ ~Exists(y)' => y \notin Parts(cache[a]),
             cache'[a] = cache[a]
      PROVE  Owed(a) => Owed(a)'
  <2> SUFFICES ASSUME NEW f \in Editors,
                      Requeues(proc[f], a) \/ HasChanged(proc[f], a) \/ HasFound(proc[f], a)
               PROVE  Owed(a)'
    BY DEF Owed
  <2>1. f # e /\ proc'[f] = proc[f]
    BY <1>2, <1>4
  <2>2. HasChanged(proc[f], a) => HasChanged(proc[f], a)'
    BY <1>7, <2>1 DEF HasChanged, Parts
  <2> QED
    BY <2>1, <2>2 DEF Owed, Requeues, HasFound
<1>8. CASE Create(e, x)
  <2>1. /\ UNCHANGED <<gone, status, cache, rendered>>
        /\ rev[x] = 0 /\ rev' = [rev EXCEPT ![x] = 1]
    BY <1>8 DEF Create
  <2>2. Owed(a) => Owed(a)'
    BY <1>t, <1>7, <2>1 DEF Exists
  <2>3. Fresh(a) => Fresh(a)'
    BY <1>t, <2>1 DEF Fresh, Current, Exists, Parts
  <2> QED
    BY <1>6, <1>8, <2>1, <2>2, <2>3 DEF Settled
<1>9. CASE Update(e, x)
  <2>1. /\ UNCHANGED <<gone, status, cache, rendered>>
        /\ rev' = [rev EXCEPT ![x] = rev[x] + 1]
        /\ Exists(x)
    BY <1>9 DEF Update
  <2>2. rev[x] \in Nat /\ Exists(x)'
    <3>1. rev[x] \in Nat /\ rev'[x] = rev[x] + 1
      BY <1>t, <2>1
    <3> QED
      BY <2>1, <3>1 DEF Exists
  <2>3. Owed(a) => Owed(a)'
    <3>1. \A y \in Articles : y # x => rev'[y] = rev[y]
      BY <1>t, <2>1
    <3>2. \A y \in Articles : Exists(y) => Exists(y)'
      BY <2>1, <2>2, <3>1 DEF Exists
    <3> QED
      BY <1>7, <2>1, <3>2
  <2>4. CASE x \in Parts(cache[a])
    <3>1. proc'[e].pc = "reload" /\ proc'[e].req = "update" /\ proc'[e].art = x
      BY <1>t, <1>9 DEF Update, Start, Idle
    <3>2. HasChanged(proc[e], a)'
      BY <2>1, <2>2, <2>4, <3>1 DEF HasChanged, Parts
    <3>3. Owed(a)'
      BY <3>2 DEF Owed
    <3> QED
      BY <1>6, <1>9, <3>3 DEF Settled
  <2>5. CASE x \notin Parts(cache[a])
    <3>1. Fresh(a) => Fresh(a)'
      BY <1>t, <2>1, <2>5 DEF Fresh, Current, Exists, Parts
    <3> QED
      BY <1>6, <1>9, <2>1, <2>3, <3>1 DEF Settled
  <2> QED
    BY <2>4, <2>5
<1>10. CASE Delete(e, x)
  <2>1. /\ UNCHANGED rev /\ gone' = gone \cup {x}
        /\ status' = [status EXCEPT ![x] = "none"]
        /\ cache' = [cache EXCEPT ![x] = NoBuild]
        /\ rendered' = [rendered EXCEPT ![x] = NoBuild]
    BY <1>10 DEF Delete
  <2>2. CASE x = a
    <3>1. status'[a] = "none"
      BY <2>1, <2>2 DEF TypeOK
    <3> QED
      BY <1>6, <1>10, <3>1 DEF Settled
  <2>3. CASE x # a /\ x \in Parts(cache[a])
    <3>1. proc'[e].pc = "invalidate" /\ proc'[e].req = "delete" /\ proc'[e].art = x
      BY <1>t, <1>10 DEF Delete, Start, Idle
    <3>2. cache'[a] = cache[a]
      BY <2>1, <2>3 DEF TypeOK
    <3>3. HasChanged(proc[e], a)'
      BY <2>3, <3>1, <3>2 DEF HasChanged, Parts
    <3>4. Owed(a)'
      BY <3>3 DEF Owed
    <3> QED
      BY <1>6, <1>10, <3>4 DEF Settled
  <2>4. CASE x # a /\ x \notin Parts(cache[a])
    <3>1. cache'[a] = cache[a] /\ rendered'[a] = rendered[a] /\ status'[a] = status[a]
      BY <2>1, <2>4 DEF TypeOK
    <3>2. Fresh(a) => Fresh(a)'
      BY <2>1, <2>4, <3>1 DEF Fresh, Current, Exists
    <3>3. Owed(a) => Owed(a)'
      BY <1>7, <2>1, <2>4, <3>1 DEF Exists
    <3> QED
      BY <1>6, <1>10, <3>1, <3>2, <3>3 DEF Settled
  <2> QED
    BY <2>2, <2>3, <2>4
<1> QED
  BY <1>0, <1>5, <1>8, <1>9, <1>10

(***************************************************************************)
(* The steps of a worker w.  An article it does not hold stays in the      *)
(* hands it is in; the one it holds goes through the states of Holds.      *)
(***************************************************************************)
LEMMA OtherArticle ==
    ASSUME TypeOK, NEW w \in Workers, NEW a \in Articles, InGoodHands(a), Settled(a),
           \A f \in Editors : proc'[f] = proc[f],
           \A v \in Workers \ {w} : proc'[v] = proc[v], proc'[w].art # a,
           UNCHANGED <<rev, gone>>, status'[a] = status[a], a \in orphaned' => a \in orphaned,
           cache'[a] = cache[a], rendered'[a] = rendered[a]
    PROVE  InGoodHands(a)' /\ Settled(a)'
<1>1. (Owed(a) => Owed(a)') /\ (Requeued(a) => Requeued(a)')
  BY OwedKept
<1>2. \A v \in Workers : proc'[v].art = a => GoesOn(proc[v], proc'[v])
  BY DEF GoesOn
<1> QED
  BY <1>1, <1>2, HandKept, SettledKept

(* The worker that holds a: nobody else does. *)
LEMMA OwnArticle ==
    ASSUME NEW w \in Workers, NEW a \in Articles, InGoodHands(a), proc[w].art = a,
           \A v \in Workers \ {w} : proc'[v] = proc[v], Holds(w, a)'
    PROVE  InGoodHands(a)'
<1>1. \A v \in Workers : proc'[v].art = a => v = w
  BY DEF InGoodHands, Holds
<1> QED
  BY <1>1 DEF InGoodHands

(* It goes on compiling: the row is not written. *)
LEMMA StillCompiling ==
    ASSUME NEW w \in Workers, NEW a \in Articles, InGoodHands(a), proc[w].art = a,
           proc'[w].art = a, \A v \in Workers \ {w} : proc'[v] = proc[v],
           UNCHANGED <<rev, gone, status, orphaned>>,
           proc'[w].pc \notin {"read"} \cup Stored,
           proc'[w].pc # "fail" => proc'[w].built[a] > 0 /\ Current(proc'[w].built)
    PROVE  InGoodHands(a)' /\ Settled(a)'
<1>1. status[a] = "compiling" /\ a \notin orphaned /\ \A v \in Workers : proc[v].art = a => v = w
  BY DEF InGoodHands, Holds
<1>2. \A v \in Workers : proc'[v].art = a => v = w
  BY <1>1
<1>3. \A b : Current(b)' <=> Current(b)
  BY DEF Current, Exists
<1>4. Holds(w, a)'
  BY <1>1, <1>2, <1>3 DEF Holds, Stored, Rendered
<1>5. Settled(a)'
  BY <1>1 DEF Settled
<1> QED
  BY <1>4, <1>5, OwnArticle

(* It goes on with a document it has stored. *)
LEMMA StillStored ==
    ASSUME NEW w \in Workers, NEW a \in Articles, InGoodHands(a), proc[w].art = a,
           \A v \in Workers \ {w} : proc'[v] = proc[v],
           \A f \in Editors : proc'[f] = proc[f],
           UNCHANGED <<rev, gone, status, orphaned, cache>>,
           proc[w].pc \in Stored, proc'[w].pc \in Stored,
           proc'[w].art = a, proc'[w].built = proc[w].built,
           proc'[w].pc \in Rendered => rendered'[a] \in {NoBuild, proc[w].built}
    PROVE  InGoodHands(a)' /\ Settled(a)'
<1>1. Holds(w, a)
  BY DEF InGoodHands
<1>2. \A v \in Workers : proc'[v].art = a => v = w
  BY <1>1 DEF Holds
<1>3. \A b : Current(b)' <=> Current(b)
  BY DEF Current, Exists
<1>4. Requeued(a) <=> Requeued(a)'
  BY OwedKept
<1>5. proc'[w].pc \notin {"read", "fail"} /\ proc[w].pc \notin {"read", "fail"}
  BY DEF Stored
<1>6. Holds(w, a)'
  BY <1>1, <1>2, <1>3, <1>4, <1>5 DEF Holds
<1>7. Settled(a)'
  BY <1>1 DEF Settled, Holds
<1> QED
  BY <1>6, <1>7, OwnArticle

(* What it reads is what is committed. *)
LEMMA ReadingCurrent ==
    ASSUME TypeOK, NEW w \in Workers, proc[w] \in Active, NEW d \in Articles, Exists(d),
           Current(proc[w].built)
    PROVE  /\ Current(Reading(w, d))
           /\ Reading(w, d)[d] > 0
           /\ \A a \in Articles : proc[w].built[a] > 0 => Reading(w, d)[a] > 0
<1>1. proc[w].built \in [Articles -> Revisions] /\ rev[d] > 0
  BY DEF Active, Builds, Exists
<1>2. \A a \in Articles : Reading(w, d)[a] = IF a = d THEN rev[d] ELSE proc[w].built[a]
  BY <1>1 DEF Reading
<1> QED
  BY <1>1, <1>2 DEF Current, Parts

LEMMA NoBuildCurrent == Current(NoBuild)
BY DEF Current, Parts, NoBuild

LEMMA WorkerSettled ==
    ASSUME TypeOK, QueueInv, RowsExist, NEW w \in Workers, WorkerStep(w),
           NEW a \in Articles \ disturbed', InGoodHands(a), Settled(a)
    PROVE  InGoodHands(a)' /\ Settled(a)'
<1>0. w \in DOMAIN proc /\ w \in Procs /\ w \notin Editors
  BY ConstantsOK DEF TypeOK, Procs
<1>1. PICK r : proc' = [proc EXCEPT ![w] = r]
  BY WorkerMoves
<1>2. /\ proc'[w] = r
      /\ \A f \in Editors : proc'[f] = proc[f]
      /\ \A v \in Workers \ {w} : proc'[v] = proc[v]
  BY <1>1, WorkerAt
<1>3. CASE Claim(w)
  <2>1. PICK x \in Articles :
           /\ status[x] = "pending"
           /\ status' = [status EXCEPT ![x] = "compiling"]
           /\ proc' = [proc EXCEPT ![w] = [Idle EXCEPT !.pc = "read", !.req = "job",
                                             !.art = x, !.tries = attempts[x]]]
    BY <1>3 DEF Claim
  <2>2. proc'[w].pc = "read" /\ proc'[w].art = x /\ proc'[w].built = NoBuild
    BY <1>0, <2>1 DEF Idle
  <2>3. UNCHANGED <<rev, gone, cache, rendered, orphaned>>
    BY <1>3 DEF Claim, hist
  <2>4. CASE x = a
    <3>1. a \notin orphaned /\ status'[a] = "compiling"
      BY <2>1, <2>4 DEF QueueInv, OrphansCompiling, CompilingRows, TypeOK
    <3>2. \A v \in Workers : proc[v].art # a
      BY <2>1, <2>4 DEF InGoodHands, Holds
    <3>3. \A v \in Workers : proc'[v].art = a => v = w
      BY <1>2, <3>2
    <3>4. Holds(w, a)'
      BY <2>2, <2>3, <3>1, <3>3 DEF Holds, Stored, Rendered
    <3>5. InGoodHands(a)'
      BY <3>3, <3>4 DEF InGoodHands
    <3> QED
      BY <3>1, <3>5 DEF Settled
  <2>5. CASE x # a
    <3>1. status'[a] = status[a]
      BY <2>1, <2>5 DEF TypeOK
    <3> QED
      BY <1>2, <2>2, <2>3, <2>5, <3>1, OtherArticle
  <2> QED
    BY <2>4, <2>5
<1>4. CASE Cascade(w)
  <2>1. InGoodHands(a)'
    BY <1>0, <1>4, CascadeHand
  <2>2. UNCHANGED <<rev, gone>> /\ cache'[a] = cache[a] /\ Owed(a) => Owed(a)'
    BY <1>2, OwedKept
  <2>3. CASE Walk(w) \/ Rewalk(w)
    <3>1. UNCHANGED <<rev, gone, status, cache, rendered>>
      BY <2>3 DEF Walk, Rewalk, db
    <3> QED
      BY <2>1, <2>2, <3>1, SettledKept
  <2>4. CASE EnqueueDependent(w)
    <3>1. PICK d \in proc[w].todo : EnqueueCompile(d)
      BY <2>4 DEF EnqueueDependent
    <3>2. proc[w] \in Active
      BY <1>0, <2>4, Working DEF EnqueueDependent
    <3>3. d \in Articles /\ UNCHANGED <<rev, gone, cache, rendered>>
      BY <2>4, <3>1, <3>2 DEF EnqueueDependent, Active
    <3> QED
      BY <2>1, <2>2, <3>1, <3>3, EnqueueSettles
  <2>5. CASE Sweep(w)
    <3>1. UNCHANGED <<rev, gone>>
      BY <2>5 DEF Sweep
    <3> QED
      BY <1>0, <2>1, <2>2, <2>5, <3>1, SweepSettles
  <2> QED
    BY <1>4, <2>3, <2>4, <2>5 DEF Cascade
<1>5. CASE CompileStep(w) /\ ~Cascade(w)
  <2> USE <1>5
  <2> DEFINE x == proc[w].art
             b == proc[w].built
  <2>1. proc[w] \in Active
    BY <1>0, Working DEF CompileStep, ReadSource, LookupImport, ResolveError, Compile, StoreCache,
                         ClearLinks, InsertLink, AfterCompile, MarkSuccess, MarkError
  <2>2. x \in Articles /\ b \in Builds
    BY <2>1 DEF Active
  <2>3. UNCHANGED <<rev, gone>>
    BY DEF CompileStep, ReadSource, LookupImport, ResolveError, Compile, StoreCache,
           ClearLinks, InsertLink, AfterCompile, MarkSuccess, MarkError, db
  (* Another article. *)
  <2>4. ASSUME x # a PROVE InGoodHands(a)' /\ Settled(a)'
    <3>1. proc'[w].art # a
      <4>1. proc'[w].art = x \/ proc'[w] = Idle
        BY <1>0, <2>1 DEF CompileStep, ReadSource, LookupImport, ResolveError, Compile, StoreCache,
           ClearLinks, InsertLink, AfterCompile, MarkSuccess, MarkError, Goto, Active
      <4> QED
        BY <2>4, <4>1, ConstantsOK DEF Idle
    <3>2. status'[a] = status[a] /\ orphaned' \subseteq orphaned
      BY <2>4 DEF CompileStep, ReadSource, LookupImport, ResolveError, Compile, StoreCache,
         ClearLinks, InsertLink, AfterCompile, MarkSuccess, MarkError, db, hist, TypeOK
    <3>3. cache'[a] = cache[a] /\ rendered'[a] = rendered[a]
      BY <2>4 DEF CompileStep, ReadSource, LookupImport, ResolveError, Compile, StoreCache,
         ClearLinks, InsertLink, AfterCompile, MarkSuccess, MarkError, db, TypeOK
    <3> QED
      BY <1>2, <2>3, <3>1, <3>2, <3>3, OtherArticle
  (* Its own. *)
  <2>5. ASSUME x = a PROVE InGoodHands(a)' /\ Settled(a)'
    <3>1. Holds(w, a)
      BY <2>5 DEF InGoodHands
    <3>2. status[a] = "compiling" /\ Exists(a)
      BY <3>1 DEF Holds, RowsExist
    <3>3. \A v \in Workers \ {w} : proc'[v].art # a
      BY <1>2, <3>1 DEF Holds
    <3>4. CASE ReadSource(w)
      <4>1. b = NoBuild
        BY <3>1, <3>4 DEF Holds, ReadSource
      <4>2. Current(Reading(w, a)) /\ Reading(w, a)[a] > 0
        BY <2>1, <3>2, <4>1, NoBuildCurrent, ReadingCurrent
      <4>3. UNCHANGED <<status, orphaned>>
        BY <2>5, <3>2, <3>4 DEF ReadSource, db
      <4>4. proc'[w] = [proc[w] EXCEPT !.pc = "resolve", !.built = Reading(w, a)]
        BY <1>0, <2>5, <3>2, <3>4 DEF ReadSource
      <4>5. proc'[w].pc = "resolve" /\ proc'[w].art = a /\ proc'[w].built = Reading(w, a)
        BY <2>1, <2>5, <4>4 DEF Active
      <4> QED
        BY <1>2, <2>3, <2>5, <4>2, <4>3, <4>5, StillCompiling DEF Stored
    <3>5. CASE LookupImport(w)
      <4>1. PICK d \in Unresolved(b) : Exists(d) /\ proc' = [proc EXCEPT ![w].built = Reading(w, d)]
        BY <3>5 DEF LookupImport
      <4>2. proc[w].pc = "resolve" /\ b[a] > 0 /\ Current(b)
        BY <3>1, <3>5 DEF Holds, LookupImport
      <4>3. Current(Reading(w, d)) /\ Reading(w, d)[a] > 0
        BY <2>1, <4>1, <4>2, ReadingCurrent DEF Unresolved, Wanted
      <4>4. proc'[w] = [proc[w] EXCEPT !.built = Reading(w, d)]
        BY <1>0, <4>1
      <4>5. proc'[w].pc = "resolve" /\ proc'[w].art = a /\ proc'[w].built = Reading(w, d)
        BY <2>1, <2>5, <4>2, <4>4 DEF Active
      <4>6. UNCHANGED <<status, orphaned>>
        BY <3>5 DEF LookupImport, db, hist
      <4> QED
        BY <1>2, <2>3, <2>5, <4>3, <4>5, <4>6, StillCompiling DEF Stored
    <3>6. CASE ResolveError(w) \/ Compile(w)
      <4>1. proc[w].pc = "resolve" /\ b[a] > 0 /\ Current(b)
        BY <3>1, <3>6 DEF Holds, ResolveError, Compile
      <4>2. \E q \in {"fail", "store"} : proc'[w] = [proc[w] EXCEPT !.pc = q]
        BY <1>0, <3>6 DEF ResolveError, Compile, Goto
      <4>3. proc'[w].pc \in {"fail", "store"} /\ proc'[w].art = a /\ proc'[w].built = b
        BY <2>1, <2>5, <4>2 DEF Active
      <4>4. UNCHANGED <<status, orphaned>>
        BY <3>6 DEF ResolveError, Compile, db, hist
      <4> QED
        BY <1>2, <2>3, <2>5, <4>1, <4>3, <4>4, StillCompiling DEF Stored
    <3>7. CASE StoreCache(w)
      <4>1. b[a] > 0 /\ Current(b)
        BY <3>1, <3>7 DEF Holds, StoreCache
      <4>2. proc'[w] = [proc[w] EXCEPT !.pc = "clear"] /\ cache' = [cache EXCEPT ![a] = b]
        BY <1>0, <2>5, <3>2, <3>7 DEF StoreCache, Goto
      <4>3. proc'[w].pc = "clear" /\ proc'[w].art = a /\ proc'[w].built = b /\ cache'[a] = b
        BY <2>1, <2>5, <4>2 DEF Active, TypeOK
      <4>4. UNCHANGED <<status, orphaned, rendered>>
        BY <3>7 DEF StoreCache, hist
      <4>5. \A c : Current(c)' <=> Current(c)
        BY <2>3 DEF Current, Exists
      <4>6. \A v \in Workers : proc'[v].art = a => v = w
        BY <3>3
      <4>7. Holds(w, a)'
        BY <3>1, <4>1, <4>3, <4>4, <4>5, <4>6 DEF Holds, Rendered
      <4>8. InGoodHands(a)'
        BY <4>6, <4>7 DEF InGoodHands
      <4> QED
        BY <3>2, <4>4, <4>8 DEF Settled
    <3>8. CASE ClearLinks(w) \/ InsertLink(w) \/ AfterCompile(w)
      <4>1. UNCHANGED <<status, orphaned, cache>> /\ proc[w].pc \in {"clear", "link"}
        BY <3>8 DEF ClearLinks, InsertLink, AfterCompile, hist
      <4>2. proc'[w].art = a /\ proc'[w].built = b
        BY <1>0, <2>1, <2>5, <3>8 DEF ClearLinks, InsertLink, AfterCompile, Goto, Active
      <4>3. \/ proc'[w].pc = "link"
            \/ proc'[w].pc = "walk" /\ AfterCompile(w)
        BY <1>0, <2>1, <3>8 DEF ClearLinks, InsertLink, AfterCompile, Goto, Active
      <4>4. AfterCompile(w) => rendered'[a] = b
        BY <2>5, <3>2 DEF AfterCompile, TypeOK
      <4> QED
        BY <1>2, <2>3, <2>5, <4>1, <4>2, <4>3, <4>4, StillStored DEF Stored, Rendered
    <3>9. CASE MarkSuccess(w)
      <4>1. proc'[w].art # a
        BY <1>0, <3>9, ConstantsOK DEF MarkSuccess, Idle
      <4>2. InGoodHands(a)'
        BY <3>3, <4>1, HandEmpty
      <4>3. UNCHANGED <<cache, rendered>> /\ status' = [status EXCEPT ![a] = "success"]
        BY <2>5, <3>2, <3>9 DEF MarkSuccess
      <4>4. /\ b[a] > 0 /\ Current(b)
            /\ cache[a] = b \/ (cache[a] = NoBuild /\ Requeued(a))
            /\ rendered[a] \in {NoBuild, b}
        BY <3>1, <3>9 DEF Holds, MarkSuccess, Stored, Rendered
      <4>5. CASE cache[a] = b
        <5>1. b # NoBuild
          BY <4>4 DEF NoBuild
        <5>2. \A c : Current(c)' <=> Current(c)
          BY <2>3 DEF Current, Exists
        <5>3. Fresh(a)'
          BY <4>3, <4>4, <4>5, <5>1, <5>2 DEF Fresh
        <5> QED
          BY <4>2, <5>3 DEF Settled
      <4>6. CASE Requeued(a)
        <5>1. Requeued(a)'
          BY <1>2, <2>3, <4>3, <4>6, OwedKept
        <5>2. Owed(a)'
          BY <5>1 DEF Requeued, Owed
        <5> QED
          BY <4>2, <5>2 DEF Settled
      <4> QED
        BY <4>4, <4>5, <4>6
    <3>10. CASE MarkError(w)
      <4>1. proc'[w].art # a
        BY <1>0, <3>10, ConstantsOK DEF MarkError, Idle
      <4>2. InGoodHands(a)'
        BY <3>3, <4>1, HandEmpty
      <4>3. status'[a] \in {"pending", "failed"}
        BY <2>5, <3>2, <3>10 DEF MarkError, TypeOK
      <4> QED
        BY <4>2, <4>3 DEF Settled
    <3> QED
      BY <3>4, <3>5, <3>6, <3>7, <3>8, <3>9, <3>10 DEF CompileStep
  <2> QED
    BY <2>4, <2>5
<1> QED
  BY <1>3, <1>4, <1>5 DEF WorkerStep

(***************************************************************************)
(* The process and the warm-up, and a step that moves no goroutine.        *)
(***************************************************************************)
LEMMA StandStill ==
    ASSUME NEW a \in Articles, InGoodHands(a), Settled(a),
           UNCHANGED <<rev, gone, proc>>, cache'[a] = cache[a], status'[a] = status[a],
           a \in orphaned' => a \in orphaned, rendered'[a] \in {rendered[a], NoBuild, cache[a]}
    PROVE  InGoodHands(a)' /\ Settled(a)'
<1>1. (Owed(a) => Owed(a)') /\ (Requeued(a) => Requeued(a)')
  BY OwedKept
<1>2. \A v \in Workers : GoesOn(proc[v], proc'[v])
  BY DEF GoesOn
<1> QED
  BY <1>1, <1>2, HandKept, SettledKept

LEMMA ProcessSettled ==
    ASSUME TypeOK, Stop \/ Exit \/ Restart \/ Recover \/ CliChange \/ WarmUp
                     \/ (\E x \in Articles : WarmPage(x)),
           NEW a \in Articles \ disturbed', InGoodHands(a), Settled(a)
    PROVE  InGoodHands(a)' /\ Settled(a)'
<1>1. CASE Stop
  <2>1. UNCHANGED <<rev, gone, status, cache, rendered>>
    BY <1>1 DEF Stop, db
  <2>2. /\ \A v \in Workers : proc'[v] = Idle
        /\ \A f \in Editors : proc'[f] = proc[f]
    BY <1>1, ConstantsOK DEF Stop, Procs
  <2>3. InGoodHands(a)'
    BY <2>2, HandEmpty, ConstantsOK DEF Idle
  <2>4. Owed(a) => Owed(a)'
    BY <2>1, <2>2, OwedKept
  <2> QED
    BY <2>1, <2>3, <2>4, SettledKept
<1>2. CASE Exit
  <2>1. UNCHANGED <<rev, gone, status, cache, rendered>>
    BY <1>2 DEF Exit, db
  <2>2. \A p \in Procs : proc[p] = Idle /\ proc'[p] = Idle
    BY <1>2 DEF Exit
  <2>3. InGoodHands(a)'
    BY <2>2, HandEmpty, ConstantsOK DEF Idle, Procs
  <2>4. Owed(a) => Owed(a)'
    BY <2>1, <2>2, OwedKept DEF Procs
  <2> QED
    BY <2>1, <2>3, <2>4, SettledKept
<1>3. CASE Restart \/ CliChange \/ WarmUp
  BY <1>3, StandStill DEF Restart, CliChange, WarmUp, db, hist
<1>4. CASE Recover
  <2>1. PICK old \in SUBSET orphaned :
           /\ status' = [x \in Articles |-> IF x \in old THEN "pending" ELSE status[x]]
           /\ orphaned' = orphaned \ old /\ abandoned' = abandoned \ old
    BY <1>4 DEF Recover
  <2>2. UNCHANGED <<rev, gone, cache, rendered, proc>>
    BY <1>4 DEF Recover
  <2>3. CASE a \in old
    <3>1. \A v \in Workers : proc'[v].art # a
      BY <2>2, <2>3 DEF InGoodHands, Holds
    <3> QED
      BY <2>1, <2>3, <3>1, HandEmpty DEF Settled
  <2>4. CASE a \notin old
    BY <2>1, <2>2, <2>4, StandStill
  <2> QED
    BY <2>3, <2>4
<1>5. ASSUME NEW x \in Articles, WarmPage(x) PROVE InGoodHands(a)' /\ Settled(a)'
  <2>1. UNCHANGED <<rev, gone, status, cache, proc, orphaned>>
    BY <1>5 DEF WarmPage
  <2>2. rendered'[a] \in {rendered[a], cache[a]}
    BY <1>5 DEF WarmPage, TypeOK
  <2> QED
    BY <2>1, <2>2, StandStill
<1> QED
  BY <1>1, <1>2, <1>3, <1>4, <1>5

(***************************************************************************)
(* The statements that fail.  A worker lets go of its article, or goes on  *)
(* as if the statement had been executed; the page it has not written, and *)
(* the articles it does not come to enqueue, are disturbed.                *)
(***************************************************************************)
LEMMA WorkerFailsSettled ==
    ASSUME TypeOK, NEW w \in Workers, WorkerFails(w),
           NEW a \in Articles \ disturbed', InGoodHands(a), Settled(a)
    PROVE  InGoodHands(a)' /\ Settled(a)'
<1>0. w \in DOMAIN proc /\ w \in Procs /\ w \notin Editors
  BY ConstantsOK DEF TypeOK, Procs
<1>u. UNCHANGED <<rev, gone, cache, rendered, links, orphaned>>
  BY WorkerFailsEffect
<1>1. PICK r : proc' = [proc EXCEPT ![w] = r]
  BY WorkerFailsEffect
<1>2. /\ proc'[w] = r
      /\ \A f \in Editors : proc'[f] = proc[f]
      /\ \A v \in Workers \ {w} : proc'[v] = proc[v]
  BY <1>1, WorkerAt
<1>3. CASE ClaimUnanswered(w)
  <2>1. PICK x \in Articles : status[x] = "pending" /\ status' = [status EXCEPT ![x] = "compiling"]
    BY <1>3 DEF ClaimUnanswered
  <2>2. UNCHANGED proc
    BY <1>3 DEF ClaimUnanswered
  <2>3. CASE x = a
    <3>1. \A v \in Workers : proc'[v].art # a
      BY <2>1, <2>2, <2>3 DEF InGoodHands, Holds
    <3>2. status'[a] = "compiling"
      BY <2>1, <2>3 DEF TypeOK
    <3> QED
      BY <3>1, <3>2, HandEmpty DEF Settled
  <2>4. CASE x # a
    <3>1. status'[a] = status[a]
      BY <2>1, <2>4 DEF TypeOK
    <3> QED
      BY <1>u, <2>2, <3>1, StandStill
  <2> QED
    BY <2>3, <2>4
<1>s. ASSUME ~ClaimUnanswered(w) PROVE UNCHANGED status
  BY <1>s, CascadeFailsEffect, <1>0
     DEF WorkerFails, CompileFails, StoringGoesOn, ReportFails, db
<1>4. CASE CascadeFails(w)
  <2>1. PICK q : /\ proc' = [proc EXCEPT ![w] = q]
                 /\ \/ q = AfterCascade(w)
                    \/ \E T \in SUBSET proc[w].todo : q = [proc[w] EXCEPT !.todo = T]
    BY <1>0, <1>4, CascadeFailsEffect
  <2>2. /\ proc[w] \in Active /\ proc[w].pc \in {"walk", "enqueue", "sweep"}
        /\ UNCHANGED status /\ proc'[w] = q
    BY <1>0, <1>4, <2>1, CascadeFailsEffect DEF db
  <2>3. GoesOn(proc[w], proc'[w])
    BY <2>1, <2>2 DEF AfterCascade, GoesOn, Rendered, Active
  <2>4. \A v \in Workers : GoesOn(proc[v], proc'[v])
    BY <1>2, <2>3 DEF GoesOn
  <2>5. (Owed(a) => Owed(a)') /\ (Requeued(a) => Requeued(a)')
    BY <1>2, <1>u, OwedKept
  <2> QED
    BY <1>u, <2>2, <2>4, <2>5, HandKept, SettledKept
<1>5. CASE CompileFails(w) \/ StoringGoesOn(w) \/ ReportFails(w)
  <2>1. proc[w] \in Active
    BY <1>0, <1>5, Working DEF CompileFails, StoringGoesOn, ReportFails
  <2>s. UNCHANGED status
    BY <1>5 DEF CompileFails, StoringGoesOn, ReportFails, db
  <2>2. CASE proc[w].art # a
    <3>1. proc'[w].art # a
      <4>1. ASSUME NEW q, Goto(w, q) PROVE proc'[w].art = proc[w].art
        BY <1>0, <2>1, <4>1 DEF Goto, Active
      <4>2. ASSUME NEW T, proc' = [proc EXCEPT ![w].todo = T] PROVE proc'[w].art = proc[w].art
        BY <1>0, <2>1, <4>2 DEF Active
      <4>3. ReportFails(w) => proc'[w].art # a
        BY <1>0, ConstantsOK DEF ReportFails, Idle
      <4> QED
        BY <1>5, <2>2, <4>1, <4>2, <4>3 DEF CompileFails, StoringGoesOn
    <3> QED
      BY <1>2, <1>u, <2>s, <3>1, OtherArticle
  <2>3. CASE proc[w].art = a
    <3>1. Holds(w, a)
      BY <2>3 DEF InGoodHands
    <3>2. CASE CompileFails(w)
      <4>1. proc'[w].pc = "fail" /\ proc'[w].art = a
        BY <1>0, <2>1, <2>3, <3>2 DEF CompileFails, Goto, Active
      <4> QED
        BY <1>2, <1>u, <2>s, <2>3, <4>1, StillCompiling DEF Stored
    <3>3. CASE StoringGoesOn(w)
      <4>1. /\ proc[w].pc \in {"clear", "link"} /\ proc'[w].pc = "link"
            /\ proc'[w].art = a /\ proc'[w].built = proc[w].built
        <5>1. CASE proc[w].pc = "clear" /\ Goto(w, "link")
          BY <1>0, <2>1, <2>3, <5>1 DEF Goto, Active
        <5>2. ASSUME proc[w].pc = "link", NEW d \in proc[w].todo,
                     proc' = [proc EXCEPT ![w].todo = @ \ {d}]
              PROVE  /\ proc'[w].pc = "link"
                     /\ proc'[w].art = a /\ proc'[w].built = proc[w].built
          BY <1>0, <2>1, <2>3, <5>2 DEF Active
        <5>3. disturbed' # disturbed \cup {proc[w].art}
          BY <2>3
        <5> QED
          BY <3>3, <5>1, <5>2, <5>3 DEF StoringGoesOn
      <4>2. proc[w].pc \in Stored /\ proc'[w].pc \in Stored /\ proc'[w].pc \notin Rendered
        BY <4>1 DEF Stored, Rendered
      <4> QED
        BY <1>2, <1>u, <2>s, <2>3, <4>1, <4>2, StillStored
    <3>4. CASE ReportFails(w)
      <4>1. proc'[w].art # a
        BY <1>0, <3>4, ConstantsOK DEF ReportFails, Idle
      <4>2. \A v \in Workers : proc'[v].art # a
        BY <1>2, <3>1, <4>1 DEF Holds
      <4>3. status[a] = "compiling"
        BY <3>1 DEF Holds
      <4> QED
        BY <2>s, <4>2, <4>3, HandEmpty DEF Settled
    <3> QED
      BY <1>5, <3>2, <3>3, <3>4
  <2> QED
    BY <2>2, <2>3
<1> QED
  BY <1>3, <1>4, <1>5 DEF WorkerFails

(* A handler leaves off what it owes only if that disturbs the article. *)
LEMMA EditorFailsSettled ==
    ASSUME TypeOK, Shapes, NEW e \in Editors, EditorFails(e),
           NEW a \in Articles \ disturbed', InGoodHands(a), Settled(a)
    PROVE  InGoodHands(a)' /\ Settled(a)'
<1>0. e \in DOMAIN proc /\ e \in Procs /\ e \notin Workers
  BY ConstantsOK DEF TypeOK, Procs
<1>u. /\ UNCHANGED <<rev, gone, status, cache, orphaned>>
      /\ rendered'[a] \in {rendered[a], NoBuild}
  BY EditorFailsEffect
<1>1. PICK r : proc' = [proc EXCEPT ![e] = r]
  BY EditorFailsEffect
<1>2. /\ proc'[e] = r
      /\ \A f \in Editors \ {e} : proc'[f] = proc[f]
      /\ \A v \in Workers : GoesOn(proc[v], proc'[v])
  BY <1>1, EditorAt DEF GoesOn
<1>3. proc[e] \in Active /\ Shape(proc[e])
  BY EditorFailsEffect DEF Shapes
<1>b. ASSUME BuiltFrom(proc[e].art) \subseteq disturbed' PROVE ~HasChanged(proc[e], a)
  BY <1>b DEF BuiltFrom, HasChanged
<1>4. /\ Requeues(proc[e], a) => Requeues(proc'[e], a)
      /\ Pending(proc[e], a) => Pending(proc'[e], a)
  <2>1. CASE InvalidationFails(e)
    <3>1. PICK cur \in proc[e].todo :
             proc'[e] = IF proc[e].todo # {cur} THEN [proc[e] EXCEPT !.todo = proc[e].todo \ {cur}]
                        ELSE AfterInvalidation(proc[e], proc[e].seen)
      BY <1>0, <2>1 DEF InvalidationFails
    <3>2. proc[e].pc = "invalidate" /\ proc[e].req \in {"update", "delete", "retag"}
      BY <1>3, <2>1 DEF InvalidationFails, Shape
    <3>3. /\ proc'[e].art = proc[e].art /\ proc'[e].req = proc[e].req
          /\ \/ proc'[e].pc = "invalidate"
             \/ proc[e].req = "update" /\ proc'[e].pc = "drop"
             \/ proc[e].req = "delete" /\ proc'[e].pc = "walk"
             \/ proc[e].req = "retag"
      BY <1>3, <3>1, <3>2 DEF AfterInvalidation, Active
    <3> QED
      BY <3>2, <3>3 DEF Pending, Requeues, HasChanged, HasFound
  <2>2. CASE HandlerFails(e)
    <3>1. CASE /\ proc[e].pc \in {"reload", "invalidate"}
               /\ disturbed' = disturbed \cup BuiltFrom(proc[e].art)
      BY <1>b, <3>1 DEF Pending, Requeues, HasFound
    <3>2. ASSUME proc[e].pc = "drop", NEW d \in proc[e].todo,
                 proc' = [proc EXCEPT ![e].pc = "requeue", ![e].art = d, ![e].todo = @ \ {d}]
          PROVE  ~Requeues(proc[e], a) /\ (Pending(proc[e], a) => Pending(proc'[e], a))
      <4>1. proc'[e].pc = "requeue" /\ proc'[e].req = proc[e].req /\ proc'[e].art = d
        BY <1>0, <1>3, <3>2 DEF Active
      <4>2. proc[e].req = "update" => d = proc[e].art
        BY <1>3, <3>2 DEF Shape
      <4> QED
        BY <3>2, <4>1, <4>2 DEF Pending, Requeues, HasChanged, HasFound
    <3>3. CASE /\ proc[e].pc = "requeue" /\ proc' = [proc EXCEPT ![e] = AfterRequeue(@)]
               /\ disturbed' = disturbed \cup {proc[e].art}
      <4>1. proc'[e] = AfterRequeue(proc[e]) /\ proc[e].art # a
        BY <1>0, <3>3
      <4>2. HasChanged(proc[e], a) => HasChanged(proc'[e], a)
        BY <1>3, <3>3, <4>1 DEF AfterRequeue, HasChanged, Shape, Active
      <4> QED
        BY <3>3, <4>1, <4>2 DEF Pending, Requeues, HasFound
    <3>4. CASE proc[e].pc = "look"
      BY <3>4 DEF Pending, Requeues, HasChanged, HasFound
    <3> QED
      BY <2>2, <3>1, <3>2, <3>3, <3>4 DEF HandlerFails
  <2>3. CASE CascadeFails(e)
    <3>1. CASE proc[e].pc = "walk"
      <4>1. disturbed' = disturbed \cup BuiltFrom(proc[e].art)
        BY <2>3, <3>1 DEF CascadeFails
      <4> QED
        BY <1>b, <3>1, <4>1 DEF Pending, Requeues, HasFound
    <3>2. CASE proc[e].pc = "enqueue" /\ proc[e].todo # {}
      <4>1. PICK d \in proc[e].todo : /\ proc' = [proc EXCEPT ![e].todo = @ \ {d}]
                                      /\ disturbed' = disturbed \cup {d}
        BY <2>3, <3>2 DEF CascadeFails
      <4>2. proc'[e].pc = "enqueue" /\ proc'[e].todo = proc[e].todo \ {d}
        BY <1>0, <1>3, <3>2, <4>1 DEF Active
      <4> QED
        BY <3>2, <4>1, <4>2 DEF Pending, Requeues, HasChanged, HasFound
    <3>3. CASE (proc[e].pc = "enqueue" /\ proc[e].todo = {}) \/ proc[e].pc = "sweep"
      BY <3>3 DEF Pending, Requeues, HasChanged, HasFound
    <3> QED
      BY <2>3, <3>1, <3>2, <3>3 DEF CascadeFails
  <2> QED
    BY <2>1, <2>2, <2>3 DEF EditorFails
<1>5. (Requeued(a) => Requeued(a)') /\ (Owed(a) => Owed(a)')
  BY <1>2, <1>4, <1>u, OwedByOthers
<1> QED
  BY <1>2, <1>5, <1>u, HandKept, SettledKept

(***************************************************************************)
(* The invariant, and what it says once nothing is left to do.             *)
(***************************************************************************)
LEMMA InitStale == Init => StaleInv
<1> SUFFICES ASSUME Init PROVE StaleInv
  OBVIOUS
<1>1. Shapes
  BY IdleShape DEF Init, Shapes, Procs
<1>2. RowsExist
  BY DEF Init, RowsExist, Exists
<1>3. \A a \in Articles : InGoodHands(a) /\ Settled(a)
  BY ConstantsOK DEF Init, InGoodHands, Settled, Idle, Procs
<1> QED
  BY <1>1, <1>2, <1>3 DEF StaleInv

LEMMA DisturbedGrows == ASSUME TypeOK, [Next]_vars PROVE disturbed \subseteq disturbed'
<1>1. ASSUME NEW x, EnqueueCompile(x) PROVE disturbed \subseteq disturbed'
  BY <1>1 DEF EnqueueCompile, hist
<1>2. ASSUME NEW p, Cascade(p) PROVE disturbed \subseteq disturbed'
  <2>1. CASE EnqueueDependent(p)
    BY <1>1, <2>1 DEF EnqueueDependent
  <2>2. CASE Walk(p) \/ Rewalk(p) \/ Sweep(p)
    BY <2>2 DEF Walk, Rewalk, Sweep, hist
  <2> QED
    BY <1>2, <2>1, <2>2 DEF Cascade
<1>3. ASSUME NEW w \in Workers, WorkerStep(w) PROVE disturbed \subseteq disturbed'
  BY <1>2, <1>3 DEF WorkerStep, CompileStep, Claim, ReadSource, LookupImport, ResolveError, Compile,
     StoreCache, ClearLinks, InsertLink, AfterCompile, MarkSuccess, MarkError, hist
<1>4. ASSUME NEW e \in Editors, Request(e) \/ EditorStep(e) \/ ClientGone(e)
      PROVE  disturbed \subseteq disturbed'
  <2>1. CASE Request(e)
    BY <2>1 DEF Request, Create, Update, Delete, Retag, Recompile, View, Disturb, hist
  <2>2. CASE Requeue(e)
    BY <1>1, <2>2 DEF Requeue
  <2>3. CASE EditorStep(e) /\ ~Requeue(e)
    BY <1>2, <2>3 DEF EditorStep, Reload, LookAtCache, InvalidateRendered, DropCache, hist
  <2>4. CASE ClientGone(e)
    BY <2>4 DEF ClientGone
  <2> QED
    BY <1>4, <2>1, <2>2, <2>3, <2>4
<1>5. CASE Stop \/ Restart \/ Recover \/ CliChange \/ WarmUp \/ (\E a \in Articles : WarmPage(a))
             \/ UNCHANGED vars
  BY <1>5 DEF Stop, Restart, Recover, CliChange, WarmUp, WarmPage, hist, vars
<1>6. CASE Exit
  BY <1>6 DEF Exit, TypeOK
<1>7. ASSUME (\E w \in Workers : WorkerFails(w)) \/ (\E e \in Editors : EditorFails(e))
      PROVE  disturbed \subseteq disturbed'
  BY <1>7, WorkerFailsEffect, EditorFailsEffect
<1> QED
  BY <1>3, <1>4, <1>5, <1>6, <1>7 DEF Next

LEMMA StepStale == TypeOK /\ QueueInv /\ StaleInv /\ [Next]_vars => StaleInv'
<1> SUFFICES ASSUME TypeOK, QueueInv, StaleInv, [Next]_vars PROVE StaleInv'
  OBVIOUS
<1>1. Shapes /\ RowsExist /\ Shapes' /\ RowsExist'
  BY StepShapes, StepRows DEF StaleInv
<1>2. ASSUME NEW a \in Articles \ disturbed' PROVE InGoodHands(a)' /\ Settled(a)'
  <2>1. InGoodHands(a) /\ Settled(a)
    BY DisturbedGrows DEF StaleInv
  <2>2. CASE UNCHANGED vars
    BY <2>1, <2>2, StandStill DEF vars, db, hist
  <2> QED
    BY <1>1, <2>1, <2>2, WorkerSettled, RequestSettled, EditorSettled, LeavingSettled,
       WorkerFailsSettled, EditorFailsSettled, ProcessSettled DEF Next
<1> QED
  BY <1>1, <1>2 DEF StaleInv

(***************************************************************************)
(* When nothing is left to do, readers of an article whose compile         *)
(* succeeded, and met neither a concurrent change nor a failed statement   *)
(* that was to enqueue it or to write its page, get the current revision   *)
(* of it and of everything it was built from: the cascades of updates and  *)
(* deletions forget nobody, however many handlers and workers run, clients *)
(* leave, other statements fail and the warm-up or a restart come between. *)
(***************************************************************************)
THEOREM ReadersAreCurrent == Spec => []StaleOnlyIfDisturbed
<1>1. Init => TypeOK /\ QueueInv /\ StaleInv
  BY InitType, InitQueue, InitStale
<1>2. TypeOK /\ QueueInv /\ StaleInv /\ [Next]_vars => (TypeOK /\ QueueInv /\ StaleInv)'
  BY StepType, StepQueue, StepStale
<1>3. StaleInv => StaleOnlyIfDisturbed
  <2> SUFFICES ASSUME StaleInv, Quiet, NEW a \in Articles \ disturbed, status[a] = "success"
               PROVE  Shown(a) # NoBuild /\ Shown(a) = cache[a] /\ Current(Shown(a))
    BY DEF StaleOnlyIfDisturbed
  <2>1. Fresh(a) \/ Owed(a)
    BY DEF StaleInv, Settled
  <2>2. ~Owed(a)
    BY DEF Quiet, Procs, Owed, Requeues, HasChanged, HasFound, Idle
  <2> QED
    BY <2>1, <2>2 DEF Fresh, Shown
<1> QED
  BY <1>1, <1>2, <1>3, PTL DEF Spec

-----------------------------------------------------------------------------
(* The pipeline implements Publication, and whatever it publishes is sound.
   What a worker or the warm-up has in hand is right; so every step is a step
   of Publication; and a step of Publication keeps what is published sound. *)

(* Publication talks about the same documents. *)
LEMMA SameDocuments ==
    /\ P!Builds = Builds /\ P!NoBuild = NoBuild /\ P!Revisions = Revisions
    /\ \A b, a : P!Sound(b, a) = Sound(b, a)
    /\ \A b : P!Committed(b) = Committed(b)
<1>1. P!Builds = Builds /\ P!NoBuild = NoBuild /\ P!Revisions = Revisions
  BY DEF P!Builds, Builds, P!NoBuild, NoBuild, P!Revisions, Revisions
<1>2. \A b, a : P!Cyclic(b, a) = Cyclic(b, a)
  BY DEF P!Cyclic, Cyclic, P!Wanted, Wanted, P!Importers, Importers,
         P!Deps, Deps, P!Parts, Parts
<1>3. \A b : P!Unresolved(b) = Unresolved(b)
  BY DEF P!Unresolved, Unresolved, P!Wanted, Wanted, P!Importers, Importers, P!Parts, Parts
<1>4. \A b : P!Compilable(b) = Compilable(b)
  BY DEF P!Compilable, Compilable, P!Parts, Parts
<1>5. \A b, a : P!Sound(b, a) = Sound(b, a)
  BY <1>1, <1>2, <1>3, <1>4 DEF P!Sound, Sound
<1> QED
  BY <1>1, <1>5 DEF P!Committed, Committed

(* A step of one goroutine leaves the locals of the others alone. *)
LEMMA OthersKept ==
    ASSUME TypeOK, NEW p \in Procs,
           \/ p \in Workers /\ WorkerStep(p)
           \/ p \in Editors /\ (Request(p) \/ EditorStep(p) \/ ClientGone(p))
    PROVE  \A q \in Procs \ {p} : proc'[q] = proc[q]
<1>1. CASE WorkerStep(p)
  BY <1>1 DEF WorkerStep, CompileStep, Cascade, Claim, ReadSource, LookupImport, ResolveError,
     Compile, StoreCache, ClearLinks, InsertLink, AfterCompile, MarkSuccess, MarkError,
     Walk, EnqueueDependent, Rewalk, Sweep, Goto, TypeOK
<1>2. CASE Request(p)
  BY <1>2 DEF Request, Create, Update, Delete, Retag, Recompile, View, Start, TypeOK
<1>3. CASE EditorStep(p)
  <2>1. CASE Reload(p)
    BY <2>1 DEF Reload, Goto, TypeOK
  <2>2. CASE LookAtCache(p)
    BY <2>2 DEF LookAtCache, TypeOK
  <2>3. CASE InvalidateRendered(p)
    BY <2>3 DEF InvalidateRendered, TypeOK
  <2>4. CASE DropCache(p)
    BY <2>4 DEF DropCache, TypeOK
  <2>5. CASE Requeue(p)
    BY <2>5 DEF Requeue, TypeOK
  <2>6. CASE Cascade(p)
    BY <2>6 DEF Cascade, Walk, EnqueueDependent, Rewalk, Sweep, TypeOK
  <2> QED
    BY <1>3, <2>1, <2>2, <2>3, <2>4, <2>5, <2>6 DEF EditorStep
<1>4. CASE p \in Editors /\ ClientGone(p)
  BY <1>4, LeavingHandler DEF TypeOK
<1> QED
  BY <1>1, <1>2, <1>3, <1>4

(* Revisions are only ever added, and only by a request. *)
LEMMA RevisionsGrow ==
    ASSUME TypeOK, [Next]_vars
    PROVE  \A d \in Articles : rev[d] <= rev'[d]
<1>0. \A d \in Articles : rev[d] \in Int
  BY BuildsAssumption DEF TypeOK, Revisions
<1>1. CASE rev' = rev
  BY <1>0, <1>1
<1>2. ASSUME NEW e \in Editors, NEW a \in Articles, Create(e, a) \/ Update(e, a)
      PROVE  \A d \in Articles : rev[d] <= rev'[d]
  BY <1>0, <1>2 DEF Create, Update, TypeOK
<1>3. ASSUME Next PROVE rev' = rev \/ \E e \in Editors, a \in Articles : Create(e, a) \/ Update(e, a)
  <2>1. ASSUME NEW p, Cascade(p) PROVE rev' = rev
    BY <2>1 DEF Cascade, Walk, EnqueueDependent, Rewalk, Sweep, db
  <2>2. ASSUME NEW w \in Workers, WorkerStep(w) PROVE rev' = rev
    BY <2>1, <2>2 DEF WorkerStep, CompileStep, Claim, ReadSource, LookupImport, ResolveError,
       Compile, StoreCache, ClearLinks, InsertLink, AfterCompile, MarkSuccess, MarkError, db
  <2>3. ASSUME NEW e \in Editors, EditorStep(e) PROVE rev' = rev
    BY <2>1, <2>3 DEF EditorStep, Reload, LookAtCache, InvalidateRendered, DropCache, Requeue, db
  <2>4. ASSUME NEW e \in Editors, Request(e)
        PROVE  rev' = rev \/ \E a \in Articles : Create(e, a) \/ Update(e, a)
    BY <2>4 DEF Request, Delete, Retag, Recompile, View, db
  <2>5. ASSUME Stop \/ Exit \/ Restart \/ Recover \/ WarmUp \/ CliChange PROVE rev' = rev
    BY <2>5 DEF Stop, Exit, Restart, Recover, WarmUp, CliChange, db
  <2>6. ASSUME NEW e \in Editors, ClientGone(e) PROVE rev' = rev
    BY <2>6 DEF ClientGone, db
  <2>7. ASSUME NEW a \in Articles, WarmPage(a) PROVE rev' = rev
    BY <2>7 DEF WarmPage
  <2>8. ASSUME (\E w \in Workers : WorkerFails(w)) \/ (\E e \in Editors : EditorFails(e))
        PROVE  rev' = rev
    BY <2>8, WorkerFailsEffect, EditorFailsEffect
  <2> QED
    BY <1>3, <2>2, <2>3, <2>4, <2>5, <2>6, <2>7, <2>8 DEF Next
<1> QED
  BY <1>1, <1>2, <1>3 DEF vars, db

(* A document of committed revisions stays one. *)
LEMMA CommittedStays ==
    ASSUME TypeOK, TypeOK', NEW b \in Builds, Committed(b),
           \A d \in Articles : rev[d] <= rev'[d]
    PROVE  Committed(b)'
<1> SUFFICES ASSUME NEW d \in Articles PROVE b[d] <= rev'[d]
  BY DEF Committed
<1>1. b[d] \in Int /\ rev[d] \in Int /\ rev'[d] \in Int
  BY BuildsAssumption DEF Builds, Revisions, TypeOK
<1> QED
  BY <1>1 DEF Committed

-----------------------------------------------------------------------------
(***************************************************************************)
(* What a worker has in hand.                                              *)
(***************************************************************************)
InHand(w) ==
    LET b == proc[w].built
        a == proc[w].art IN
    /\ proc[w].pc = "read" => b = NoBuild
    /\ proc[w].pc = "resolve" => b[a] > 0 /\ Committed(b)
    /\ proc[w].pc \in {"store", "clear", "link"} => Sound(b, a) /\ Committed(b)

(* The steps that leave what w has read as it is. *)
LEMMA InHandCarried ==
    ASSUME TypeOK, TypeOK', NEW w \in Workers, InHand(w),
           \A d \in Articles : rev[d] <= rev'[d],
           \/ proc'[w].pc \notin {"read", "resolve", "store", "clear", "link"}
           \/ /\ proc'[w].built = proc[w].built
              /\ proc'[w].art = proc[w].art
              /\ \/ proc'[w].pc = proc[w].pc
                 \/ /\ proc[w].pc \in {"store", "clear", "link"}
                    /\ proc'[w].pc \in {"store", "clear", "link"}
    PROVE  InHand(w)'
<1>1. CASE proc'[w].pc \notin {"read", "resolve", "store", "clear", "link"}
  BY <1>1 DEF InHand
<1>2. CASE /\ proc'[w].pc \in {"read", "resolve", "store", "clear", "link"}
           /\ proc'[w].built = proc[w].built
           /\ proc'[w].art = proc[w].art
           /\ \/ proc'[w].pc = proc[w].pc
              \/ /\ proc[w].pc \in {"store", "clear", "link"}
                 /\ proc'[w].pc \in {"store", "clear", "link"}
  <2>1. proc[w].built \in Builds
    BY NoBuildType DEF TypeOK, Procs, Active, Idle
  <2>2. Committed(proc[w].built) => Committed(proc[w].built)'
    <3> DEFINE b == proc[w].built
    <3>1. Committed(proc[w].built)' = \A d \in Articles : proc'[w].built[d] <= rev'[d]
      BY DEF Committed
    <3>2. \A d \in Articles : b[d] \in Int /\ rev[d] \in Int /\ rev'[d] \in Int
      BY <2>1, BuildsAssumption DEF Builds, Revisions, TypeOK
    <3> QED
      BY <1>2, <3>1, <3>2 DEF Committed
  <2> QED
    BY <1>2, <2>2 DEF InHand
<1> QED
  BY <1>1, <1>2

(* What w reads is committed when it reads it. *)
LEMMA ReadingCommitted ==
    ASSUME TypeOK, NEW w \in Workers, proc[w] \in Active, Committed(proc[w].built),
           NEW d \in Articles
    PROVE  Committed(Reading(w, d))
<1> SUFFICES ASSUME NEW x \in Articles PROVE Reading(w, d)[x] <= rev[x]
  BY DEF Committed
<1>1. proc[w].built \in Builds /\ rev[x] \in Int
  BY BuildsAssumption DEF Active, TypeOK, Revisions
<1> QED
  BY <1>1 DEF Reading, Committed, Builds

LEMMA NothingCommitted == ASSUME TypeOK PROVE Committed(NoBuild)
<1> SUFFICES ASSUME NEW d \in Articles PROVE NoBuild[d] <= rev[d]
  BY DEF Committed
<1>1. rev[d] \in Nat
  BY BuildsAssumption DEF TypeOK, Revisions
<1> QED
  BY <1>1 DEF NoBuild

LEMMA WorkerInHand ==
    ASSUME TypeOK, TypeOK', NEW w \in Workers, InHand(w), WorkerStep(w),
           \A d \in Articles : rev[d] <= rev'[d]
    PROVE  InHand(w)'
<1>0. w \in Procs /\ proc \in [Procs -> Active \cup {Idle}]
  BY DEF Procs, TypeOK
<1>c. proc[w].pc # "idle" => proc[w] \in Active
  BY <1>0, Working
<1>1. CASE Claim(w)
  <2>1. proc'[w].pc = "read" /\ proc'[w].built = NoBuild
    BY <1>0, <1>1 DEF Claim, Idle
  <2> QED
    BY <2>1 DEF InHand
<1>2. CASE ReadSource(w)
  <2> DEFINE a == proc[w].art
  <2>1. proc[w] \in Active /\ a \in Articles /\ proc[w].built = NoBuild /\ rev' = rev
    BY <1>2, <1>c DEF ReadSource, Active, InHand, db
  <2>2. CASE Exists(a)
    <3>1. proc'[w].pc = "resolve" /\ proc'[w].built = Reading(w, a)
      BY <1>0, <1>2, <2>1, <2>2 DEF ReadSource, Active
    <3>2. Reading(w, a)[a] > 0
      BY <2>1, <2>2 DEF Reading, Exists, NoBuild
    <3>3. Committed(Reading(w, a))
      BY <2>1, NothingCommitted, ReadingCommitted
    <3>4. proc'[w].art = a
      BY <1>0, <1>2, <2>1, <2>2 DEF ReadSource, Active
    <3>5. Committed(proc[w].built)'
      BY <2>1, <3>1, <3>3 DEF Committed
    <3> QED
      BY <3>1, <3>2, <3>4, <3>5 DEF InHand
  <2>3. CASE ~Exists(a)
    <3>1. proc'[w].pc = "succeed"
      BY <1>0, <1>2, <2>1, <2>3 DEF ReadSource, Goto, Active
    <3> QED
      BY <3>1 DEF InHand
  <2> QED
    BY <2>2, <2>3
<1>3. CASE LookupImport(w)
  <2>1. proc[w] \in Active /\ proc[w].pc = "resolve" /\ rev' = rev
    BY <1>3, <1>c DEF LookupImport, db
  <2>2. PICK d \in Unresolved(proc[w].built) :
           Exists(d) /\ proc' = [proc EXCEPT ![w].built = Reading(w, d)]
    BY <1>3 DEF LookupImport
  <2>3. d \in Articles
    BY DEF Unresolved, Wanted
  <2>4. proc'[w].pc = "resolve" /\ proc'[w].built = Reading(w, d) /\ proc'[w].art = proc[w].art
    BY <1>0, <2>1, <2>2 DEF Active
  <2>5. Committed(proc[w].built)'
    BY <2>1, <2>3, <2>4, ReadingCommitted DEF InHand, Committed
  <2>6. Reading(w, d)[proc[w].art] > 0
    BY <2>1, <2>2, <2>3 DEF Reading, Exists, InHand, Active, Builds
  <2> QED
    BY <2>4, <2>5, <2>6 DEF InHand
<1>4. CASE ResolveError(w)
  <2>1. proc'[w].pc = "fail"
    BY <1>0, <1>4, <1>c DEF ResolveError, Goto, Active
  <2> QED
    BY <2>1 DEF InHand
<1>5. CASE Compile(w)
  <2> DEFINE b == proc[w].built
  <2>1. /\ proc[w] \in Active /\ proc[w].pc = "resolve" /\ rev' = rev
        /\ Unresolved(b) = {} /\ ~Cyclic(b, proc[w].art)
    BY <1>5, <1>c DEF Compile, db
  <2>2. CASE Compilable(b) /\ Goto(w, "store")
    <3>1. Sound(b, proc[w].art) /\ Committed(b)
      BY <2>1, <2>2 DEF Sound, InHand, Active
    <3>2. proc'[w].pc = "store" /\ proc'[w].built = b /\ proc'[w].art = proc[w].art
      BY <1>0, <2>1, <2>2 DEF Goto, Active
    <3>3. Committed(proc[w].built)'
      BY <2>1, <3>1, <3>2 DEF Committed
    <3> QED
      BY <3>1, <3>2, <3>3 DEF InHand
  <2>3. CASE Goto(w, "fail")
    <3>1. proc'[w].pc = "fail"
      BY <1>0, <2>1, <2>3 DEF Goto, Active
    <3> QED
      BY <3>1 DEF InHand
  <2> QED
    BY <1>5, <2>2, <2>3 DEF Compile
<1>6. CASE StoreCache(w)
  <2>1. /\ proc[w].pc = "store" /\ proc'[w].pc \in {"clear", "fail"}
        /\ proc'[w].built = proc[w].built /\ proc'[w].art = proc[w].art
    BY <1>0, <1>6, <1>c DEF StoreCache, Goto, Active
  <2> QED
    BY <2>1, InHandCarried
<1>7. CASE ClearLinks(w)
  <2>1. /\ proc[w].pc = "clear" /\ proc'[w].pc = "link"
        /\ proc'[w].built = proc[w].built /\ proc'[w].art = proc[w].art
    BY <1>0, <1>7, <1>c DEF ClearLinks, Active
  <2> QED
    BY <2>1, InHandCarried
<1>8. CASE InsertLink(w)
  <2>1. /\ proc'[w].pc = proc[w].pc
        /\ proc'[w].built = proc[w].built /\ proc'[w].art = proc[w].art
    BY <1>0, <1>8, <1>c DEF InsertLink, Active
  <2> QED
    BY <2>1, InHandCarried
<1>9. CASE \/ AfterCompile(w) \/ MarkSuccess(w) \/ MarkError(w)
  <2>1. proc'[w].pc \in {"walk", "idle"}
    BY <1>0, <1>9, <1>c DEF AfterCompile, MarkSuccess, MarkError, Goto, Active, Idle
  <2> QED
    BY <2>1 DEF InHand
<1>10. CASE Cascade(w)
  <2>1. proc[w] \in Active
    BY <1>10, <1>c DEF Cascade, Walk, EnqueueDependent, Rewalk, Sweep
  <2>2. AfterCascade(w).pc = "succeed"
    BY <2>1 DEF AfterCascade, Active
  <2>3. Walk(w) \/ Rewalk(w) => proc'[w].pc \in {"enqueue", "succeed", "sweep"}
    <3> DEFINE found == Dependents(proc[w].art)
    <3>1. Walk(w) => proc'[w] = IF found = {} THEN AfterCascade(w)
                                ELSE [proc[w] EXCEPT !.pc = "enqueue", !.todo = found, !.seen = found]
      BY <1>0 DEF Walk
    <3>2. Rewalk(w) => proc'[w] = IF found = {} THEN AfterCascade(w)
                                  ELSE [proc[w] EXCEPT !.pc = "sweep", !.todo = found]
      BY <1>0 DEF Rewalk
    <3>3. /\ [proc[w] EXCEPT !.pc = "enqueue", !.todo = found, !.seen = found].pc = "enqueue"
          /\ [proc[w] EXCEPT !.pc = "sweep", !.todo = found].pc = "sweep"
      BY <2>1 DEF Active
    <3> QED
      BY <2>2, <3>1, <3>2, <3>3
  <2>4. EnqueueDependent(w) => proc'[w].pc = "enqueue"
    BY <1>0, <2>1 DEF EnqueueDependent, Active
  <2>5. Sweep(w) => proc'[w].pc = "succeed"
    BY <1>0, <2>2 DEF Sweep
  <2> QED
    BY <1>10, <2>3, <2>4, <2>5 DEF Cascade, InHand
<1> QED
  BY <1>1, <1>2, <1>3, <1>4, <1>5, <1>6, <1>7, <1>8, <1>9, <1>10 DEF WorkerStep, CompileStep

LEMMA FailureInHand ==
    ASSUME TypeOK, TypeOK', NEW w \in Workers, InHand(w), WorkerFails(w),
           \A d \in Articles : rev[d] <= rev'[d]
    PROVE  InHand(w)'
<1>0. w \in Procs /\ proc \in [Procs -> Active \cup {Idle}]
  BY DEF Procs, TypeOK
<1>1. CASE ClaimUnanswered(w)
  BY <1>1, InHandCarried DEF ClaimUnanswered
<1>2. CASE CompileFails(w) \/ ReportFails(w)
  <2>1. proc[w] \in Active
    BY <1>0, <1>2, Working DEF CompileFails, ReportFails
  <2>2. proc'[w].pc \in {"fail", "idle"}
    BY <1>0, <1>2, <2>1 DEF CompileFails, ReportFails, Goto, Active, Idle
  <2> QED
    BY <2>2 DEF InHand
<1>3. CASE StoringGoesOn(w)
  <2>1. proc[w] \in Active /\ proc[w].pc \in {"clear", "link"}
    BY <1>0, <1>3, Working DEF StoringGoesOn
  <2>2. ASSUME NEW q \in {"link", "walk"}, Goto(w, q) PROVE InHand(w)'
    <3>1. proc'[w].pc = q /\ proc'[w].art = proc[w].art /\ proc'[w].built = proc[w].built
      BY <1>0, <2>1, <2>2 DEF Goto, Active
    <3> QED
      BY <2>1, <3>1, InHandCarried
  <2>3. ASSUME NEW T, proc' = [proc EXCEPT ![w].todo = T] PROVE InHand(w)'
    <3>1. /\ proc'[w].pc = proc[w].pc /\ proc'[w].art = proc[w].art
          /\ proc'[w].built = proc[w].built
      BY <1>0, <2>1, <2>3 DEF Active
    <3> QED
      BY <2>1, <3>1, InHandCarried
  <2> QED
    BY <1>3, <2>2, <2>3 DEF StoringGoesOn
<1>4. CASE CascadeFails(w)
  <2>1. PICK r : /\ proc' = [proc EXCEPT ![w] = r]
                 /\ \/ r = AfterCascade(w)
                    \/ \E T \in SUBSET proc[w].todo : r = [proc[w] EXCEPT !.todo = T]
    BY <1>0, <1>4, CascadeFailsEffect
  <2>2. proc[w] \in Active /\ proc[w].pc \in {"walk", "enqueue", "sweep"} /\ proc'[w] = r
    BY <1>0, <1>4, <2>1, CascadeFailsEffect
  <2>3. r.pc \in {"succeed", "walk", "enqueue", "sweep"}
    BY <2>1, <2>2 DEF AfterCascade, Active
  <2> QED
    BY <2>2, <2>3 DEF InHand
<1> QED
  BY <1>1, <1>2, <1>3, <1>4 DEF WorkerFails

LEMMA StepInHand ==
    ASSUME TypeOK, TypeOK', BuildInHand, [Next]_vars
    PROVE  BuildInHand'
<1>1. \A d \in Articles : rev[d] <= rev'[d]
  BY RevisionsGrow
<1>2. BuildInHand <=> \A w \in Workers : InHand(w)
  BY DEF BuildInHand, InHand
<1>3. BuildInHand' <=> \A w \in Workers : InHand(w)'
  BY DEF BuildInHand, InHand
<1> SUFFICES ASSUME NEW w \in Workers PROVE InHand(w)'
  BY <1>3
<1>4. CASE WorkerStep(w)
  BY <1>1, <1>2, <1>4, WorkerInHand
<1>5. CASE proc'[w] = proc[w]
  BY <1>1, <1>2, <1>5, InHandCarried
<1>6. CASE proc'[w] = Idle
  BY <1>6 DEF InHand, Idle
<1>7. ASSUME NEW v \in Workers, WorkerStep(v), v # w PROVE proc'[w] = proc[w]
  BY <1>7, OthersKept DEF Procs
<1>8. ASSUME NEW e \in Editors, Request(e) \/ EditorStep(e) \/ ClientGone(e)
      PROVE  proc'[w] = proc[w]
  BY <1>8, OthersKept, ConstantsOK DEF Procs
<1>9. ASSUME \/ Stop \/ Exit \/ Restart \/ Recover \/ WarmUp \/ CliChange
             \/ \E a \in Articles : WarmPage(a)
      PROVE  proc'[w] = proc[w] \/ proc'[w] = Idle
  BY <1>9 DEF Stop, Exit, Restart, Recover, WarmUp, WarmPage, CliChange, Procs
<1>10. CASE WorkerFails(w)
  BY <1>1, <1>2, <1>10, FailureInHand
<1>11. ASSUME NEW v \in Workers, WorkerFails(v), v # w PROVE proc'[w] = proc[w]
  BY <1>11, WorkerFailsEffect, WorkerAt
<1>12. ASSUME NEW e \in Editors, EditorFails(e) PROVE proc'[w] = proc[w]
  BY <1>12, EditorFailsEffect, EditorAt
<1> QED
  BY <1>4, <1>5, <1>6, <1>7, <1>8, <1>9, <1>10, <1>11, <1>12 DEF Next, vars

(* What the warm-up has read stays sound until it is written or forgotten. *)
LEMMA StepWarm ==
    ASSUME TypeOK, TypeOK', BuildInv, [Next]_vars
    PROVE  WarmSound'
<1>1. \A d \in Articles : rev[d] <= rev'[d]
  BY RevisionsGrow
<1>2. ASSUME \A x \in Articles :
                \/ warm'[x] = NoBuild
                \/ Sound(warm'[x], x) /\ warm'[x] \in Builds /\ Committed(warm'[x])
      PROVE  WarmSound'
  <2> SUFFICES ASSUME NEW x \in Articles, warm'[x] # NoBuild
               PROVE  Sound(warm'[x], x) /\ \A d \in Articles : warm'[x][d] <= rev'[d]
    BY DEF WarmSound, Committed
  <2>1. Sound(warm'[x], x) /\ warm'[x] \in Builds /\ Committed(warm'[x])
    BY <1>2
  <2>2. Committed(warm'[x]) => \A d \in Articles : warm'[x][d] <= rev[d]
    BY DEF Committed
  <2>3. \A d \in Articles : warm'[x][d] \in Int /\ rev[d] \in Int /\ rev'[d] \in Int
    BY <2>1, BuildsAssumption DEF Builds, Revisions, TypeOK
  <2> QED
    BY <1>1, <2>1, <2>2, <2>3
<1>3. CASE WarmUp
  BY <1>2, <1>3 DEF WarmUp, BuildInv, PublishedSound, TypeOK
<1>4. ASSUME NEW a \in Articles, WarmPage(a) PROVE WarmSound'
  BY <1>2, <1>4 DEF WarmPage, BuildInv, WarmSound, TypeOK
<1>5. CASE Exit
  BY <1>2, <1>5 DEF Exit, NoRows
<1>6. CASE warm' = warm
  BY <1>2, <1>6 DEF BuildInv, WarmSound, TypeOK
<1>7. ASSUME NEW p, Cascade(p) PROVE warm' = warm
  BY <1>7 DEF Cascade, Walk, EnqueueDependent, Rewalk, Sweep, env
<1>8. ASSUME NEW w \in Workers, WorkerStep(w) PROVE warm' = warm
  BY <1>7, <1>8 DEF WorkerStep, CompileStep, Claim, ReadSource, LookupImport, ResolveError,
     Compile, StoreCache, ClearLinks, InsertLink, AfterCompile, MarkSuccess, MarkError, env
<1>9. ASSUME NEW e \in Editors, Request(e) \/ EditorStep(e) \/ ClientGone(e) PROVE warm' = warm
  <2>1. CASE Request(e)
    BY <2>1 DEF Request, Create, Update, Delete, Retag, Recompile, View, Receive
  <2>2. CASE EditorStep(e)
    BY <1>7, <2>2 DEF EditorStep, Reload, LookAtCache, InvalidateRendered, DropCache, Requeue, env
  <2>3. CASE ClientGone(e)
    BY <2>3 DEF ClientGone, env
  <2> QED
    BY <1>9, <2>1, <2>2, <2>3
<1>10. ASSUME Stop \/ Restart \/ Recover \/ CliChange PROVE warm' = warm
  BY <1>10 DEF Stop, Restart, Recover, CliChange
<1>11. ASSUME (\E w \in Workers : WorkerFails(w)) \/ (\E e \in Editors : EditorFails(e))
       PROVE  warm' = warm
  BY <1>11, WorkerFailsEffect, EditorFailsEffect DEF env
<1> QED
  BY <1>3, <1>4, <1>5, <1>6, <1>8, <1>9, <1>10, <1>11 DEF Next, vars, env

-----------------------------------------------------------------------------
(***************************************************************************)
(* Every step of the pipeline is a step of Publication or changes nothing  *)
(* that Publication talks about.                                           *)
(***************************************************************************)
LEMMA InitPublishes == Init => P!Init
BY SameDocuments, BuildsAssumption DEF Init, P!Init, Revisions

(* A cascade withdraws what it found; nothing else of it is published. *)
LEMMA CascadePublishes ==
    ASSUME TypeOK, NEW p \in Procs, Cascade(p)
    PROVE  [P!Next]_P!pvars
<1>1. CASE Walk(p) \/ EnqueueDependent(p) \/ Rewalk(p)
  BY <1>1 DEF Walk, EnqueueDependent, Rewalk, db, P!pvars
<1>2. CASE Sweep(p)
  <2>1. proc[p].todo \in SUBSET Articles
    BY <1>2, Working DEF Sweep, Active
  <2>2. P!Withdraw(proc[p].todo)
    BY <1>2, SameDocuments DEF Sweep, P!Withdraw
  <2> QED
    BY <2>1, <2>2 DEF P!Next
<1> QED
  BY <1>1, <1>2 DEF Cascade

LEMMA WorkerPublishes ==
    ASSUME TypeOK, NEW w \in Workers, InHand(w), WorkerStep(w)
    PROVE  [P!Next]_P!pvars
<1>0. w \in Procs
  BY DEF Procs
<1>1. CASE \/ Claim(w) \/ ReadSource(w) \/ LookupImport(w) \/ ResolveError(w) \/ Compile(w)
           \/ ClearLinks(w) \/ InsertLink(w) \/ MarkSuccess(w) \/ MarkError(w)
  BY <1>1 DEF Claim, ReadSource, LookupImport, ResolveError, Compile, ClearLinks, InsertLink,
     MarkSuccess, MarkError, db, P!pvars
<1>2. CASE StoreCache(w)
  <2> DEFINE a == proc[w].art
             b == proc[w].built
  <2>1. a \in Articles /\ Sound(b, a) /\ Committed(b)
    BY <1>0, <1>2, Working DEF StoreCache, Active, InHand
  <2>2. b \in P!Documents(a)
    BY <2>1, SameDocuments DEF P!Documents, Sound
  <2>3. CASE Exists(a)
    <3>1. P!PublishCache(a)
      BY <1>2, <2>2, <2>3 DEF StoreCache, P!PublishCache, Exists
    <3> QED
      BY <2>1, <3>1 DEF P!Next
  <2>4. CASE ~Exists(a)
    BY <1>2, <2>4 DEF StoreCache, P!pvars
  <2> QED
    BY <2>3, <2>4
<1>3. CASE AfterCompile(w)
  <2> DEFINE a == proc[w].art
             b == proc[w].built
  <2>1. a \in Articles /\ Sound(b, a) /\ Committed(b)
    BY <1>0, <1>3, Working DEF AfterCompile, Active, InHand
  <2>2. b \in P!Documents(a)
    BY <2>1, SameDocuments DEF P!Documents, Sound
  <2>3. CASE Exists(a)
    <3>1. P!PublishRendered(a)
      BY <1>3, <2>2, <2>3 DEF AfterCompile, P!PublishRendered, Exists
    <3> QED
      BY <2>1, <3>1 DEF P!Next
  <2>4. CASE ~Exists(a)
    BY <1>3, <2>4 DEF AfterCompile, P!pvars
  <2> QED
    BY <2>3, <2>4
<1>4. CASE Cascade(w)
  BY <1>0, <1>4, CascadePublishes
<1> QED
  BY <1>1, <1>2, <1>3, <1>4 DEF WorkerStep, CompileStep

LEMMA RequestPublishes ==
    ASSUME TypeOK, QueueInv, NEW e \in Editors, Request(e)
    PROVE  [P!Next]_P!pvars
<1>0. PICK a \in Articles : \/ Create(e, a) \/ Update(e, a) \/ Delete(e, a)
                            \/ Retag(e, a) \/ Recompile(e, a) \/ View(e, a)
  BY DEF Request
<1>1. CASE Create(e, a)
  <2>1. a \notin gone
    BY <1>1 DEF Create, QueueInv, GoneWereCreated
  <2>2. rev' = [rev EXCEPT ![a] = @ + 1] /\ rev[a] < MaxRevision
    BY <1>1, BuildsAssumption DEF Create, TypeOK
  <2>3. P!Commit(a)
    BY <1>1, <2>1, <2>2 DEF Create, P!Commit
  <2> QED
    BY <2>3 DEF P!Next
<1>2. CASE Update(e, a)
  <2>1. P!Commit(a)
    BY <1>2 DEF Update, Exists, P!Commit
  <2> QED
    BY <2>1 DEF P!Next
<1>3. CASE Delete(e, a)
  <2>1. P!Remove(a)
    BY <1>3, SameDocuments DEF Delete, Exists, P!Remove
  <2> QED
    BY <2>1 DEF P!Next
<1>4. CASE Retag(e, a) \/ Recompile(e, a) \/ View(e, a)
  BY <1>4 DEF Retag, Recompile, View, db, P!pvars
<1> QED
  BY <1>0, <1>1, <1>2, <1>3, <1>4

LEMMA EditorPublishes ==
    ASSUME TypeOK, NEW e \in Editors, EditorStep(e)
    PROVE  [P!Next]_P!pvars
<1>0. e \in Procs
  BY DEF Procs
<1>1. CASE Reload(e) \/ LookAtCache(e) \/ Requeue(e)
  BY <1>1 DEF Reload, LookAtCache, Requeue, db, P!pvars
<1>2. CASE InvalidateRendered(e)
  <2>1. proc[e] \in Active
    BY <1>0, <1>2, Working DEF InvalidateRendered
  <2>2. PICK cur \in proc[e].todo : rendered' = [rendered EXCEPT ![cur] = NoBuild]
    BY <1>2 DEF InvalidateRendered
  <2>3. cur \in Articles /\ P!Hide(cur)
    BY <1>2, <2>1, <2>2, SameDocuments DEF InvalidateRendered, P!Hide, Active
  <2> QED
    BY <2>3 DEF P!Next
<1>3. CASE DropCache(e)
  <2>1. proc[e] \in Active
    BY <1>0, <1>3, Working DEF DropCache
  <2>2. PICK d \in proc[e].todo : cache' = [cache EXCEPT ![d] = NoBuild]
    BY <1>3 DEF DropCache
  <2>3. d \in Articles
    BY <2>1, <2>2 DEF Active
  <2>4. cache' = [x \in Articles |-> IF x \in {d} THEN NoBuild ELSE cache[x]]
    BY <2>2, <2>3 DEF TypeOK
  <2>5. P!Withdraw({d})
    BY <1>3, <2>4, SameDocuments DEF DropCache, P!Withdraw
  <2> QED
    BY <2>3, <2>5 DEF P!Next
<1>4. CASE Cascade(e)
  BY <1>0, <1>4, CascadePublishes
<1> QED
  BY <1>1, <1>2, <1>3, <1>4 DEF EditorStep

(* A statement that fails publishes nothing; it may hide a page. *)
LEMMA FailurePublishes ==
    ASSUME TypeOK,
           (\E w \in Workers : WorkerFails(w)) \/ (\E e \in Editors : EditorFails(e))
    PROVE  [P!Next]_P!pvars
<1>1. ASSUME NEW w \in Workers, WorkerFails(w) PROVE [P!Next]_P!pvars
  BY <1>1, WorkerFailsEffect DEF P!pvars
<1>2. ASSUME NEW e \in Editors, HandlerFails(e) \/ CascadeFails(e) PROVE [P!Next]_P!pvars
  BY <1>2 DEF HandlerFails, CascadeFails, db, P!pvars
<1>3. ASSUME NEW e \in Editors, InvalidationFails(e) PROVE [P!Next]_P!pvars
  <2>1. proc[e] \in Active
    BY <1>3, Working DEF InvalidationFails, Procs
  <2>2. PICK cur \in proc[e].todo : rendered' \in {rendered, [rendered EXCEPT ![cur] = NoBuild]}
    BY <1>3 DEF InvalidationFails
  <2>3. UNCHANGED <<rev, gone, cache>> /\ cur \in Articles
    BY <1>3, <2>1, <2>2 DEF InvalidationFails, Active
  <2>4. UNCHANGED P!pvars \/ P!Hide(cur)
    BY <2>2, <2>3, SameDocuments DEF P!pvars, P!Hide
  <2> QED
    BY <2>3, <2>4 DEF P!Next
<1> QED
  BY <1>1, <1>2, <1>3 DEF EditorFails

(* A page of the warm-up is a document, if an old one. *)
LEMMA WarmPublishes ==
    ASSUME TypeOK, WarmSound, NEW a \in Articles, WarmPage(a)
    PROVE  [P!Next]_P!pvars
<1>1. Sound(warm[a], a) /\ Committed(warm[a]) /\ warm[a] \in Builds
  BY DEF WarmPage, WarmSound, TypeOK
<1>2. warm[a] \in P!Documents(a)
  BY <1>1, SameDocuments DEF P!Documents
<1>3. CASE Exists(a) /\ rendered' = [rendered EXCEPT ![a] = warm[a]]
  <2>1. P!PublishRendered(a)
    BY <1>2, <1>3 DEF WarmPage, P!PublishRendered, Exists
  <2> QED
    BY <2>1 DEF P!Next
<1>4. CASE UNCHANGED rendered
  BY <1>4 DEF WarmPage, P!pvars
<1> QED
  BY <1>3, <1>4 DEF WarmPage

LEMMA StepPublishes ==
    ASSUME TypeOK, QueueInv, BuildInHand, WarmSound, [Next]_vars
    PROVE  [P!Next]_P!pvars
<1>1. ASSUME NEW w \in Workers, WorkerStep(w) PROVE [P!Next]_P!pvars
  BY <1>1, WorkerPublishes DEF BuildInHand, InHand
<1>2. ASSUME NEW e \in Editors, Request(e) \/ EditorStep(e) PROVE [P!Next]_P!pvars
  BY <1>2, RequestPublishes, EditorPublishes
<1>3. CASE Stop \/ Exit \/ Restart \/ Recover \/ WarmUp \/ CliChange
  BY <1>3 DEF Stop, Exit, Restart, Recover, WarmUp, CliChange, db, P!pvars
<1>4. CASE UNCHANGED vars
  BY <1>4 DEF vars, db, P!pvars
<1>5. ASSUME NEW e \in Editors, ClientGone(e) PROVE [P!Next]_P!pvars
  BY <1>5 DEF ClientGone, db, P!pvars
<1>6. ASSUME NEW a \in Articles, WarmPage(a) PROVE [P!Next]_P!pvars
  BY <1>6, WarmPublishes
<1> QED
  BY <1>1, <1>2, <1>3, <1>4, <1>5, <1>6, FailurePublishes DEF Next

-----------------------------------------------------------------------------
(* Publication keeps what is published sound. *)
LEMMA PublicationSound ==
    ASSUME TypeOK, TypeOK', PublishedSound, [P!Next]_P!pvars,
           \A d \in Articles : rev[d] <= rev'[d]
    PROVE  PublishedSound'
<1> DEFINE Good(b, a) == b = NoBuild \/ (Sound(b, a) /\ Committed(b))
<1>1. \A a \in Articles : Good(cache[a], a) /\ Good(rendered[a], a)
  BY DEF PublishedSound
<1>2. ASSUME NEW a \in Articles, NEW b \in Builds, Good(b, a)
      PROVE  b = NoBuild \/ (Sound(b, a) /\ \A d \in Articles : b[d] <= rev'[d])
  BY <1>2, CommittedStays DEF Committed
<1>3. ASSUME NEW a \in Articles PROVE Good(cache'[a], a) /\ Good(rendered'[a], a)
  <2>1. CASE UNCHANGED P!pvars
    BY <1>1, <2>1 DEF P!pvars
  <2>2. ASSUME NEW x \in Articles, P!Commit(x) \/ P!Remove(x) \/ P!Hide(x)
        PROVE  Good(cache'[a], a) /\ Good(rendered'[a], a)
    BY <1>1, <2>2, SameDocuments DEF P!Commit, P!Remove, P!Hide, TypeOK
  <2>3. ASSUME NEW x \in Articles, P!PublishCache(x) \/ P!PublishRendered(x)
        PROVE  Good(cache'[a], a) /\ Good(rendered'[a], a)
    BY <1>1, <2>3, SameDocuments DEF P!PublishCache, P!PublishRendered, P!Documents, TypeOK
  <2>4. ASSUME NEW S \in SUBSET Articles, P!Withdraw(S)
        PROVE  Good(cache'[a], a) /\ Good(rendered'[a], a)
    BY <1>1, <2>4, SameDocuments DEF P!Withdraw, TypeOK
  <2> QED
    BY <2>1, <2>2, <2>3, <2>4 DEF P!Next
<1>4. \A a \in Articles : cache'[a] \in Builds /\ rendered'[a] \in Builds
  BY DEF TypeOK
<1> QED
  BY <1>2, <1>3, <1>4 DEF PublishedSound, Committed

LEMMA InitBuilds == Init => BuildInv
<1> SUFFICES ASSUME Init PROVE BuildInv
  OBVIOUS
<1>1. PublishedSound
  BY DEF Init, PublishedSound
<1>2. \A w \in Workers : proc[w].pc = "idle"
  BY DEF Init, Procs, Idle
<1>3. BuildInHand
  BY <1>2 DEF BuildInHand
<1>4. WarmSound
  BY DEF Init, WarmSound, NoRows
<1> QED
  BY <1>1, <1>3, <1>4 DEF BuildInv

LEMMA StepBuilds == TypeOK /\ QueueInv /\ BuildInv /\ [Next]_vars => BuildInv'
<1> SUFFICES ASSUME TypeOK, QueueInv, BuildInv, [Next]_vars PROVE BuildInv'
  OBVIOUS
<1>1. TypeOK'
  BY StepType
<1>2. BuildInHand'
  BY <1>1, StepInHand DEF BuildInv
<1>3. PublishedSound'
  BY <1>1, StepPublishes, RevisionsGrow, PublicationSound DEF BuildInv
<1>4. WarmSound'
  BY <1>1, StepWarm
<1> QED
  BY <1>2, <1>3, <1>4 DEF BuildInv

(***************************************************************************)
(* Whatever is published, in typst_cache or rendered_html, is a complete,  *)
(* acyclic document of committed revisions, however the import graph       *)
(* changes while it is being compiled.                                     *)
(***************************************************************************)
THEOREM PublishedIsSound == Spec => []PublishedSound
<1>1. Init => TypeOK /\ QueueInv /\ BuildInv
  BY InitType, InitQueue, InitBuilds
<1>2. TypeOK /\ QueueInv /\ BuildInv /\ [Next]_vars => (TypeOK /\ QueueInv /\ BuildInv)'
  BY StepType, StepQueue, StepBuilds
<1>3. BuildInv => PublishedSound
  BY DEF BuildInv
<1> QED
  BY <1>1, <1>2, <1>3, PTL DEF Spec

(***************************************************************************)
(* The queue, the workers, the handlers and the restarts implement         *)
(* Publication.                                                            *)
(***************************************************************************)
THEOREM PipelinePublishes == Spec => Publishes
<1>1. Init => TypeOK /\ QueueInv /\ BuildInv
  BY InitType, InitQueue, InitBuilds
<1>2. TypeOK /\ QueueInv /\ BuildInv /\ [Next]_vars => (TypeOK /\ QueueInv /\ BuildInv)'
  BY StepType, StepQueue, StepBuilds
<1>3. TypeOK /\ QueueInv /\ BuildInv /\ [Next]_vars => [P!Next]_P!pvars
  BY StepPublishes DEF BuildInv
<1> QED
  BY <1>1, <1>2, <1>3, InitPublishes, PTL DEF Spec, Publishes, P!Spec
=============================================================================

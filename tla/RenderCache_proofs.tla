-------------------------- MODULE RenderCache_proofs --------------------------
(***************************************************************************)
(* Proofs about RenderCache, for every set of articles, whatever they      *)
(* include, and every number of handlers.  The order of the argument: what *)
(* a handler has in hand after its step (Locals); so types are kept and    *)
(* what is in hand stays of a piece; so what is saved is of a piece; and   *)
(* nothing is saved of an article that is gone.  Then, in a part of its    *)
(* own, that pages follow edits: FollowInv says who still owes a page      *)
(* something, and every action pays or passes on the debt.                 *)
(***************************************************************************)
EXTENDS RenderCache, TLAPS

Locals == Active \cup {Idle}

Inv == TypeOK /\ PiecesInHand /\ PagesOfAPiece /\ DeletedLeavesNothing

LEMMA RevisionsAreNumbers == \A r \in Revisions : r \in Nat
BY RenderAssumption DEF Revisions

LEMMA NoPageType ==
    /\ NoPage \in Pages
    /\ \A d \in Articles : NoPage.parts[d] = 0
BY RenderAssumption DEF NoPage, Pages, Revisions

LEMMA Working ==
    ASSUME TypeOK, NEW h \in Handlers, proc[h] # Idle \/ proc[h].pc # "idle"
    PROVE  proc[h] \in Active
BY DEF TypeOK, Idle

(* A page a render starts from. *)
LEMMA LoadedPiece ==
    ASSUME TypeOK, NEW a \in Articles, Exists(a)
    PROVE  /\ Loaded(a) \in Pages
           /\ Loaded(a).parts[a] = rev[a]
           /\ OfAPiece(Loaded(a), a)
<1>1. Loaded(a) \in Pages
  BY RenderAssumption DEF Loaded, Pages, TypeOK, Revisions
<1>2. /\ Loaded(a).parts = [d \in Articles |-> IF d = a THEN rev[a] ELSE 0]
      /\ Loaded(a).meta = meta[a]
  BY DEF Loaded
<1>3. \A d \in Articles : rev[d] \in Nat /\ meta[d] \in Nat
  BY RevisionsAreNumbers DEF TypeOK
<1> QED
  BY <1>1, <1>2, <1>3 DEF OfAPiece, Exists

(* The includes of a revision are articles. *)
LEMMA IncludedType ==
    ASSUME NEW a \in Articles, NEW r \in Revisions
    PROVE  Included(a, r) \in SUBSET Articles
BY RenderAssumption DEF Included

LEMMA RenderingPiece ==
    ASSUME TypeOK, NEW a \in Articles, Exists(a), NEW l \in Active
    PROVE  Rendering(l, a) \in Active /\ Piece(Rendering(l, a))
<1>1. Included(a, rev[a]) \in SUBSET Articles
  BY IncludedType DEF TypeOK
<1>2. Rendering(l, a) = [l EXCEPT !.pc = "include", !.art = a, !.page = Loaded(a),
                                  !.wanted = Included(a, rev[a])]
  BY DEF Rendering
<1>3. Rendering(l, a) \in Active
  BY <1>1, <1>2, LoadedPiece DEF Active, Steps
<1>4. /\ Rendering(l, a).pc = "include" /\ Rendering(l, a).art = a
      /\ Rendering(l, a).page = Loaded(a) /\ Rendering(l, a).wanted = Included(a, rev[a])
  BY <1>2 DEF Active
<1> QED
  BY <1>3, <1>4, LoadedPiece DEF Piece

LEMMA ContinuePiece ==
    ASSUME NEW l \in Active
    PROVE  Continue(l) \in Locals /\ Piece(Continue(l))
<1>1. CASE l.todo = {}
  BY <1>1 DEF Continue, Idle, Locals, Piece
<1>2. CASE l.todo # {}
  <2>1. Continue(l) = [l EXCEPT !.pc = "load", !.page = NoPage]
    BY <1>2 DEF Continue
  <2>2. Continue(l) \in Active /\ Continue(l).pc = "load"
    BY <2>1, NoPageType DEF Active, Steps
  <2> QED
    BY <2>2 DEF Locals, Piece
<1> QED
  BY <1>1, <1>2

(***************************************************************************)
(* What a handler has in hand after a step of its own.                     *)
(***************************************************************************)
Becomes(h) == \E r \in Locals : proc' = [proc EXCEPT ![h] = r] /\ Piece(r)

LEMMA RenderLocals ==
    ASSUME TypeOK, PiecesInHand, NEW h \in Handlers,
           Load(h) \/ LookupInclude(h) \/ SavePage(h) \/ ClearLinks(h)
             \/ InsertLink(h) \/ Finish(h)
    PROVE  Becomes(h)
<1>1. proc[h] \in Active
  BY Working DEF Load, LookupInclude, SavePage, ClearLinks, InsertLink, Finish
<1>2. Piece(proc[h])
  BY DEF PiecesInHand
<1>3. CASE Load(h)
  <2>1. PICK a \in proc[h].todo :
           LET l == [proc[h] EXCEPT !.todo = @ \ {a}] IN
           proc' = [proc EXCEPT ![h] = IF Exists(a) THEN Rendering(l, a) ELSE Continue(l)]
    BY <1>3 DEF Load
  <2> DEFINE l == [proc[h] EXCEPT !.todo = @ \ {a}]
  <2>2. a \in Articles /\ l \in Active
    BY <1>1, <2>1 DEF Active
  <2>3. CASE Exists(a)
    <3>1. Rendering(l, a) \in Locals /\ Piece(Rendering(l, a))
      BY <2>2, <2>3, RenderingPiece DEF Locals
    <3> QED
      BY <2>1, <2>3, <3>1 DEF Becomes
  <2>4. CASE ~Exists(a)
    <3>1. Continue(l) \in Locals /\ Piece(Continue(l))
      BY <2>2, ContinuePiece
    <3> QED
      BY <2>1, <2>4, <3>1 DEF Becomes
  <2> QED
    BY <2>3, <2>4
<1>4. CASE LookupInclude(h)
  <2>1. PICK d \in proc[h].wanted :
           proc' = [proc EXCEPT ![h].page.parts[d] = Found(d), ![h].wanted = @ \ {d}]
    BY <1>4 DEF LookupInclude
  <2> DEFINE l == proc[h]
             r == [l EXCEPT !.page.parts[d] = Found(d), !.wanted = @ \ {d}]
  <2>2. /\ l.pc = "include" /\ d \in Articles /\ l.art \in Articles /\ l.page \in Pages
        /\ OfAPiece(l.page, l.art)
        /\ l.wanted \subseteq Included(l.art, l.page.parts[l.art])
    BY <1>1, <1>2, <1>4, <2>1 DEF LookupInclude, Active, Piece
  <2>3. d # l.art /\ d \in Includes[l.art][l.page.parts[l.art]]
    BY <2>1, <2>2 DEF Included
  <2>4. Found(d) \in Revisions /\ Found(d) <= rev[d]
    BY <2>2, RenderAssumption DEF Found, TypeOK, Revisions
  <2>5. /\ r.pc = "include" /\ r.art = l.art /\ r.wanted = l.wanted \ {d}
        /\ r.page = [l.page EXCEPT !.parts[d] = Found(d)]
        /\ r \in Active
    BY <1>1, <2>2, <2>4 DEF Active, Pages
  <2>6. /\ r.page.parts = [l.page.parts EXCEPT ![d] = Found(d)]
        /\ r.page.meta = l.page.meta
    BY <2>2, <2>5 DEF Pages
  <2>7. /\ r.page.parts[l.art] = l.page.parts[l.art]
        /\ r.page.parts[d] = Found(d)
        /\ \A x \in Articles \ {d} : r.page.parts[x] = l.page.parts[x]
    BY <2>2, <2>3, <2>6 DEF Pages
  <2>8. OfAPiece(r.page, r.art)
    BY <2>2, <2>3, <2>4, <2>5, <2>6, <2>7 DEF OfAPiece
  <2>9. Piece(r)
    BY <2>2, <2>5, <2>7, <2>8 DEF Piece
  <2>10. proc' = [proc EXCEPT ![h] = r]
    BY <2>1
  <2> QED
    BY <2>5, <2>9, <2>10 DEF Becomes, Locals
<1>5. CASE SavePage(h)
  <2>1. [proc[h] EXCEPT !.pc = "clear"] \in Active /\ Piece([proc[h] EXCEPT !.pc = "clear"])
    BY <1>1, <1>2, <1>5 DEF SavePage, Active, Steps, Piece
  <2>2. proc' = [proc EXCEPT ![h] = [proc[h] EXCEPT !.pc = "clear"]]
    BY <1>5 DEF SavePage
  <2> QED
    BY <2>1, <2>2 DEF Becomes, Locals
<1>6. CASE ClearLinks(h)
  <2> DEFINE r == [proc[h] EXCEPT !.pc = "link",
                      !.wanted = {d \in Articles : proc[h].page.parts[d] > 0} \ {proc[h].art}]
  <2>1. r \in Active /\ Piece(r)
    BY <1>1, <1>2, <1>6 DEF ClearLinks, Active, Steps, Piece
  <2>2. proc' = [proc EXCEPT ![h] = r]
    BY <1>6 DEF ClearLinks
  <2> QED
    BY <2>1, <2>2 DEF Becomes, Locals
<1>7. CASE InsertLink(h)
  <2>1. PICK d \in proc[h].wanted : proc' = [proc EXCEPT ![h].wanted = @ \ {d}]
    BY <1>7 DEF InsertLink
  <2> DEFINE r == [proc[h] EXCEPT !.wanted = @ \ {d}]
  <2>2. r \in Active /\ Piece(r)
    BY <1>1, <1>2, <1>7, <2>1 DEF InsertLink, Active, Piece
  <2>3. proc' = [proc EXCEPT ![h] = r]
    BY <2>1
  <2> QED
    BY <2>2, <2>3 DEF Becomes, Locals
<1>8. CASE Finish(h)
  <2>1. proc' = [proc EXCEPT ![h] = Continue(proc[h])]
    BY <1>8 DEF Finish
  <2> QED
    BY <1>1, <2>1, ContinuePiece DEF Becomes
<1> QED
  BY <1>3, <1>4, <1>5, <1>6, <1>7, <1>8

LEMMA InvalidationLocals ==
    ASSUME TypeOK, NEW h \in Handlers, NEW l \in Active, Piece(l), l.pc = "invalidate"
    PROVE  AfterInvalidation(l) \in Locals /\ Piece(AfterInvalidation(l))
<1> DEFINE others == [l EXCEPT !.todo = l.seen \ {l.art}]
<1>1. others \in Active
  BY DEF Active
<1>2. CASE l.op = "update"
  <2> DEFINE r == [others EXCEPT !.pc = "include",
                                 !.wanted = Included(l.art, l.page.parts[l.art])]
  <2>1. AfterInvalidation(l) = r
    BY <1>2 DEF AfterInvalidation
  <2>2. l.art \in Articles /\ l.page.parts[l.art] \in Revisions
    BY DEF Active, Pages
  <2>3. Included(l.art, l.page.parts[l.art]) \in SUBSET Articles
    BY <2>2, IncludedType
  <2>4. r \in Active
    BY <1>1, <2>3 DEF Active, Steps
  <2>5. /\ r.pc = "include" /\ r.page = l.page /\ r.art = l.art
        /\ r.wanted = Included(l.art, l.page.parts[l.art])
    BY <1>1 DEF Active
  <2>6. Piece(r)
    BY <1>2, <2>5 DEF Piece
  <2> QED
    BY <2>1, <2>4, <2>6 DEF Locals
<1>3. CASE l.op = "retag"
  <2> DEFINE r == [l EXCEPT !.pc = "load", !.todo = l.seen]
  <2>1. AfterInvalidation(l) = r
    BY <1>3 DEF AfterInvalidation
  <2>2. r \in Active /\ r.pc = "load"
    BY DEF Active, Steps
  <2> QED
    BY <2>1, <2>2 DEF Locals, Piece
<1>4. CASE l.op \notin {"update", "retag"}
  <2>1. AfterInvalidation(l) = Continue(others)
    BY <1>4 DEF AfterInvalidation
  <2> QED
    BY <1>1, <2>1, ContinuePiece
<1> QED
  BY <1>2, <1>3, <1>4

LEMMA ChangeLocals ==
    ASSUME TypeOK, PiecesInHand, NEW h \in Handlers, Reload(h) \/ Invalidate(h)
    PROVE  Becomes(h)
<1>1. proc[h] \in Active
  BY Working DEF Reload, Invalidate
<1>2. Piece(proc[h])
  BY DEF PiecesInHand
<1>3. CASE Reload(h)
  <2> DEFINE a == proc[h].art
             l == proc[h]
  <2>0. a \in Articles
    BY <1>1 DEF Active
  <2>1. CASE ~Exists(a)
    <3>1. proc' = [proc EXCEPT ![h] = Idle]
      BY <1>3, <2>1 DEF Reload
    <3>2. Idle \in Locals /\ Piece(Idle)
      BY DEF Locals, Piece, Idle
    <3> QED
      BY <3>1, <3>2 DEF Becomes
  <2>2. CASE Exists(a) /\ l.op = "create"
    <3> DEFINE r == [Rendering(l, a) EXCEPT !.todo = {}]
    <3>1. proc' = [proc EXCEPT ![h] = r]
      BY <1>3, <2>2 DEF Reload
    <3>2. Rendering(l, a) \in Active /\ Piece(Rendering(l, a))
      BY <1>1, <2>0, <2>2, RenderingPiece
    <3>3. r \in Active /\ Piece(r)
      BY <3>2 DEF Active, Piece
    <3> QED
      BY <3>1, <3>3 DEF Becomes, Locals
  <2>3. CASE Exists(a) /\ l.op # "create"
    <3> DEFINE r == [l EXCEPT !.pc = "invalidate", !.page = Loaded(a)]
    <3>1. proc' = [proc EXCEPT ![h] = r]
      BY <1>3, <2>3 DEF Reload
    <3>2. Loaded(a) \in Pages /\ OfAPiece(Loaded(a), a)
      BY <2>0, <2>3, LoadedPiece
    <3>3. r \in Active /\ r.pc = "invalidate" /\ r.page = Loaded(a) /\ r.art = a
      BY <1>1, <3>2 DEF Active, Steps
    <3>4. Piece(r)
      BY <3>2, <3>3 DEF Piece
    <3> QED
      BY <3>1, <3>3, <3>4 DEF Becomes, Locals
  <2> QED
    BY <2>1, <2>2, <2>3
<1>4. CASE Invalidate(h)
  <2>1. PICK cur \in proc[h].todo : Invalidate(h)!2!(cur)
    BY <1>4 DEF Invalidate
  <2> DEFINE new  == {d \in Articles : <<d, cur>> \in links} \ proc[h].seen
             next == [proc[h] EXCEPT !.todo = (@ \ {cur}) \cup new, !.seen = @ \cup new]
  <2>2. next \in Active
    BY <1>1 DEF Active
  <2>3. /\ next.pc = "invalidate" /\ next.op = proc[h].op
        /\ next.page = proc[h].page /\ next.art = proc[h].art
    BY <1>1, <1>4 DEF Invalidate, Active
  <2>4. Piece(next)
    BY <1>2, <1>4, <2>3 DEF Piece, Invalidate
  <2>5. proc' = [proc EXCEPT ![h] = IF next.todo # {} THEN next ELSE AfterInvalidation(next)]
    BY <2>1
  <2>6. CASE next.todo # {}
    BY <2>2, <2>4, <2>5, <2>6 DEF Becomes, Locals
  <2>7. CASE next.todo = {}
    <3>1. AfterInvalidation(next) \in Locals /\ Piece(AfterInvalidation(next))
      BY <2>2, <2>3, <2>4, InvalidationLocals
    <3> QED
      BY <2>5, <2>7, <3>1 DEF Becomes
  <2> QED
    BY <2>6, <2>7
<1> QED
  BY <1>3, <1>4

LEMMA RequestLocals ==
    ASSUME TypeOK, PiecesInHand, NEW h \in Handlers, Request(h) \/ ClientGone(h)
    PROVE  Becomes(h)
<1>1. CASE ClientGone(h)
  <2>1. Idle \in Locals /\ Piece(Idle)
    BY DEF Locals, Piece, Idle
  <2> QED
    BY <1>1, <2>1 DEF ClientGone, Becomes
<1>2. CASE Warm(h)
  <2> DEFINE uncached == {x \in Articles : Exists(x) /\ rendered[x] = NoPage}
             r(a) == [pc |-> "load", op |-> "warm", art |-> a, page |-> NoPage,
                      wanted |-> {}, todo |-> uncached, seen |-> {}]
  <2>1. CASE \E a \in Articles : proc' = [proc EXCEPT ![h] = r(a)]
    <3>1. PICK a \in Articles : proc' = [proc EXCEPT ![h] = r(a)]
      BY <2>1
    <3>2. r(a) \in Active /\ Piece(r(a))
      BY NoPageType DEF Active, Steps, AllOps, Piece
    <3> QED
      BY <3>1, <3>2 DEF Becomes, Locals
  <2>2. CASE UNCHANGED proc
    <3>1. proc[h] = Idle /\ proc' = [proc EXCEPT ![h] = Idle]
      BY <1>2, <2>2 DEF Warm, TypeOK
    <3>2. Idle \in Locals /\ Piece(Idle)
      BY DEF Locals, Piece, Idle
    <3> QED
      BY <3>1, <3>2 DEF Becomes
  <2> QED
    BY <1>2, <2>1, <2>2 DEF Warm
<1>3. ASSUME NEW a \in Articles, View(h, a) PROVE Becomes(h)
  <2> DEFINE r == [pc |-> "include", op |-> "view", art |-> a, page |-> Loaded(a),
                   wanted |-> Included(a, rev[a]), todo |-> {}, seen |-> {}]
  <2>1. proc' = [proc EXCEPT ![h] = r] /\ Exists(a)
    BY <1>3 DEF View
  <2>2. Included(a, rev[a]) \in SUBSET Articles
    BY IncludedType DEF TypeOK
  <2>3. r \in Active
    BY <2>1, <2>2, LoadedPiece DEF Active, Steps, AllOps
  <2>4. Piece(r)
    BY <2>1, LoadedPiece DEF Piece
  <2> QED
    BY <2>1, <2>3, <2>4 DEF Becomes, Locals
<1>4. ASSUME NEW a \in Articles, Retitle(h, a) PROVE Becomes(h)
  <2>1. proc' = [proc EXCEPT ![h] = proc[h]]
    BY <1>4 DEF Retitle, TypeOK
  <2> QED
    BY <2>1 DEF Becomes, Locals, TypeOK, PiecesInHand
<1>5. ASSUME NEW a \in Articles,
             Create(h, a) \/ Update(h, a) \/ Retag(h, a) \/ Delete(h, a)
      PROVE  Becomes(h)
  <2> DEFINE r(op, where) == [pc |-> where, op |-> op, art |-> a, page |-> NoPage,
                              wanted |-> {}, todo |-> {a}, seen |-> {a}]
  <2>1. \/ proc' = [proc EXCEPT ![h] = r("create", "reload")]
        \/ proc' = [proc EXCEPT ![h] = r("update", "reload")]
        \/ proc' = [proc EXCEPT ![h] = r("retag", "invalidate")]
        \/ proc' = [proc EXCEPT ![h] = r("delete", "invalidate")]
    BY <1>5 DEF Create, Update, Retag, Delete, Start
  <2>2. \A op \in AllOps, where \in {"reload", "invalidate"} :
           /\ r(op, where) \in Active
           /\ where = "reload" \/ op # "update" => Piece(r(op, where))
    BY NoPageType DEF Active, Steps, Piece
  <2> QED
    BY <2>1, <2>2 DEF Becomes, Locals, AllOps
<1>6. ASSUME NEW S \in SUBSET Articles, EditTag(h, S) PROVE Becomes(h)
  <2>1. proc' = [proc EXCEPT ![h] = proc[h]]
    BY <1>6 DEF EditTag, TypeOK
  <2> QED
    BY <2>1 DEF Becomes, Locals, TypeOK, PiecesInHand
<1> QED
  BY <1>1, <1>2, <1>3, <1>4, <1>5, <1>6 DEF Request

LEMMA StepLocals ==
    ASSUME TypeOK, PiecesInHand, NEW h \in Handlers, Request(h) \/ Step(h) \/ ClientGone(h)
    PROVE  Becomes(h)
BY RequestLocals, ChangeLocals, RenderLocals DEF Step

-----------------------------------------------------------------------------
(* The tables. *)

(* Revisions and the versions of title and tags are only added to. *)
LEMMA CountersGrow ==
    ASSUME TypeOK, [Next]_vars
    PROVE  /\ \A d \in Articles : rev[d] <= rev'[d]
           /\ \A d \in Articles : meta[d] <= meta'[d]
<1>0. \A d \in Articles : rev[d] \in Nat /\ meta[d] \in Nat
  BY RevisionsAreNumbers DEF TypeOK
<1>1. CASE rev' = rev /\ meta' = meta
  BY <1>0, <1>1
<1>2. ASSUME NEW h \in Handlers, NEW a \in Articles, Create(h, a) \/ Update(h, a)
      PROVE  /\ \A d \in Articles : rev[d] <= rev'[d]
             /\ \A d \in Articles : meta[d] <= meta'[d]
  BY <1>0, <1>2 DEF Create, Update, TypeOK
<1>3. ASSUME NEW h \in Handlers, NEW a \in Articles, Retitle(h, a) \/ Retag(h, a)
      PROVE  /\ \A d \in Articles : rev[d] <= rev'[d]
             /\ \A d \in Articles : meta[d] <= meta'[d]
  BY <1>0, <1>3 DEF Retitle, Retag, TypeOK
<1>4. ASSUME NEW h \in Handlers, Warm(h) \/ Step(h) \/ ClientGone(h)
      PROVE  rev' = rev /\ meta' = meta
  BY <1>4 DEF Warm, ClientGone, Step, Reload, Invalidate, Load, LookupInclude,
              SavePage, ClearLinks, InsertLink, Finish, db
<1>5. ASSUME NEW h \in Handlers, NEW a \in Articles, Delete(h, a) \/ View(h, a)
      PROVE  rev' = rev /\ meta' = meta
  BY <1>5 DEF Delete, View, db
<1>6. ASSUME Crash \/ UNCHANGED vars PROVE rev' = rev /\ meta' = meta
  BY <1>6 DEF Crash, vars, db
<1>7. ASSUME NEW h \in Handlers, NEW S \in SUBSET Articles, EditTag(h, S)
      PROVE  /\ \A d \in Articles : rev[d] <= rev'[d]
             /\ \A d \in Articles : meta[d] <= meta'[d]
  BY <1>0, <1>7 DEF EditTag
<1> QED
  BY <1>1, <1>2, <1>3, <1>4, <1>5, <1>6, <1>7 DEF Next, Request

(* What was of a piece stays of a piece. *)
LEMMA PieceStays ==
    ASSUME TypeOK, TypeOK', NEW page \in Pages, NEW a \in Articles, OfAPiece(page, a),
           \A d \in Articles : rev[d] <= rev'[d],
           \A d \in Articles : meta[d] <= meta'[d]
    PROVE  OfAPiece(page, a)'
<1>1. \A d \in Articles : /\ rev[d] \in Nat /\ rev'[d] \in Nat
                          /\ meta[d] \in Nat /\ meta'[d] \in Nat
                          /\ page.parts[d] \in Nat
  BY RevisionsAreNumbers DEF TypeOK, Pages
<1>2. page.meta \in Nat
  BY DEF Pages
<1>3. \A d \in Articles : page.parts[d] <= rev[d] /\ page.parts[d] <= rev'[d]
  BY <1>1 DEF OfAPiece
<1>4. page.meta <= meta'[a]
  BY <1>1, <1>2 DEF OfAPiece
<1> QED
  BY <1>3, <1>4 DEF OfAPiece

(* The tables keep their types. *)
Tables ==
    /\ rev \in [Articles -> Revisions]
    /\ meta \in [Articles -> Nat]
    /\ gone \subseteq Articles
    /\ rendered \in [Articles -> Pages]
    /\ links \subseteq Articles \X Articles
    /\ requests \in Nat
    /\ warming \in BOOLEAN
    /\ crashes \in Nat
    /\ disturbed \subseteq Articles

LEMMA TablesType == ASSUME TypeOK, [Next]_vars PROVE Tables'
<1> USE DEF TypeOK
<1>1. ASSUME NEW h \in Handlers, NEW a \in Articles, Create(h, a) \/ Update(h, a)
      PROVE  rev' \in [Articles -> Revisions]
  <2>1. CASE Create(h, a)
    BY <2>1, RenderAssumption DEF Create, Revisions
  <2>2. CASE Update(h, a)
    <3>1. rev[a] + 1 \in Revisions
      BY <2>2, RenderAssumption DEF Update, Revisions
    <3> QED
      BY <2>2, <3>1 DEF Update
  <2> QED
    BY <1>1, <2>1, <2>2
<1>2. ASSUME NEW h \in Handlers, NEW a \in Articles,
             \/ Create(h, a) \/ Update(h, a) \/ Retitle(h, a) \/ Retag(h, a) \/ View(h, a)
      PROVE  UNCHANGED <<gone, rendered, links, warming, crashes>> /\ requests' \in Nat
             /\ disturbed' \subseteq Articles /\ meta' \in [Articles -> Nat]
  <2>1. UNCHANGED <<gone, rendered, links, warming, crashes>> /\ requests' \in Nat
    BY <1>2 DEF Create, Update, Retitle, Retag, View, Start, db
  <2>2. disturbed' \subseteq Articles
    BY <1>2 DEF Create, Update, Retitle, Retag, View, Disturbs, Includers
  <2>3. meta' \in [Articles -> Nat]
    BY <1>2 DEF Create, Update, Retitle, Retag, View, db
  <2> QED
    BY <2>1, <2>2, <2>3
<1>3. ASSUME NEW h \in Handlers, NEW a \in Articles, Retitle(h, a) \/ Retag(h, a) \/ View(h, a)
      PROVE  rev' = rev
  BY <1>3 DEF Retitle, Retag, View, db
<1>4. ASSUME NEW h \in Handlers, NEW a \in Articles, Delete(h, a)
      PROVE  /\ UNCHANGED <<rev, meta, warming, crashes>> /\ requests' \in Nat
             /\ gone' \subseteq Articles /\ rendered' \in [Articles -> Pages]
             /\ links' \subseteq Articles \X Articles /\ disturbed' \subseteq Articles
  BY <1>4, NoPageType DEF Delete, Start, Disturbs, Includers
<1>5. ASSUME NEW h \in Handlers, Warm(h)
      PROVE  UNCHANGED <<db, requests, crashes, disturbed>> /\ warming' \in BOOLEAN
  BY <1>5 DEF Warm
<1>6. ASSUME NEW h \in Handlers, ClientGone(h)
      PROVE  UNCHANGED <<db, requests, warming, crashes>> /\ disturbed' \subseteq Articles
  <2>1. proc[h] \in Active
    BY <1>6, Working DEF ClientGone
  <2> QED
    BY <1>6, <2>1 DEF ClientGone, Active
<1>7. ASSUME NEW h \in Handlers, Reload(h) \/ Load(h) \/ LookupInclude(h) \/ Finish(h)
      PROVE  UNCHANGED <<db, requests, warming, crashes, disturbed>>
  BY <1>7 DEF Reload, Load, LookupInclude, Finish
<1>8. ASSUME NEW h \in Handlers, SavePage(h) \/ Invalidate(h)
      PROVE  /\ UNCHANGED <<rev, meta, gone, links, requests, warming, crashes, disturbed>>
             /\ rendered' \in [Articles -> Pages]
  <2>1. proc[h] \in Active
    BY <1>8, Working DEF SavePage, Invalidate
  <2>2. CASE SavePage(h)
    <3>1. proc[h].page \in Pages
      BY <2>1 DEF Active
    <3> QED
      BY <2>2, <3>1 DEF SavePage
  <2>3. CASE Invalidate(h)
    <3>1. UNCHANGED <<rev, meta, gone, links, requests, warming, crashes, disturbed>>
      BY <2>3 DEF Invalidate
    <3>2. rendered' \in [Articles -> Pages]
      BY <2>3, NoPageType DEF Invalidate
    <3> QED
      BY <3>1, <3>2
  <2> QED
    BY <1>8, <2>2, <2>3
<1>9. ASSUME NEW h \in Handlers, ClearLinks(h) \/ InsertLink(h)
      PROVE  /\ UNCHANGED <<rev, meta, gone, rendered, requests, warming, crashes, disturbed>>
             /\ links' \subseteq Articles \X Articles
  <2>1. proc[h] \in Active
    BY <1>9, Working DEF ClearLinks, InsertLink
  <2>2. CASE ClearLinks(h)
    BY <2>2 DEF ClearLinks
  <2>3. CASE InsertLink(h)
    BY <2>1, <2>3 DEF InsertLink, Active
  <2> QED
    BY <1>9, <2>2, <2>3
<1>10. ASSUME Crash
       PROVE  /\ UNCHANGED <<db, requests>> /\ warming' \in BOOLEAN
              /\ crashes' \in Nat /\ disturbed' \subseteq Articles
  BY <1>10 DEF Crash
<1>11. CASE UNCHANGED vars
  BY <1>11 DEF vars, db, Tables
<1>12. CASE Crash
  BY <1>10, <1>12 DEF db, Tables
<1>13. ASSUME NEW h \in Handlers, Request(h) PROVE Tables'
  <2>1. CASE Warm(h)
    BY <1>5, <2>1 DEF db, Tables
  <2>2. ASSUME NEW a \in Articles, Create(h, a) \/ Update(h, a) PROVE Tables'
    BY <1>1, <1>2, <2>2 DEF Tables
  <2>3. ASSUME NEW a \in Articles, Retitle(h, a) \/ Retag(h, a) \/ View(h, a) PROVE Tables'
    BY <1>2, <1>3, <2>3 DEF Tables
  <2>4. ASSUME NEW a \in Articles, Delete(h, a) PROVE Tables'
    BY <1>4, <2>4 DEF Tables
  <2>5. ASSUME NEW S \in SUBSET Articles, EditTag(h, S) PROVE Tables'
    <3>1. meta' \in [Articles -> Nat] /\ disturbed' \subseteq Articles /\ requests' \in Nat
      BY <2>5 DEF EditTag
    <3> QED
      BY <2>5, <3>1 DEF EditTag, Tables
  <2> QED
    BY <1>13, <2>1, <2>2, <2>3, <2>4, <2>5 DEF Request
<1>14. ASSUME NEW h \in Handlers, Step(h) PROVE Tables'
  BY <1>7, <1>8, <1>9, <1>14 DEF Step, db, Tables
<1>15. ASSUME NEW h \in Handlers, ClientGone(h) PROVE Tables'
  BY <1>6, <1>15 DEF db, Tables
<1> QED
  BY <1>11, <1>12, <1>13, <1>14, <1>15 DEF Next

LEMMA StepType ==
    ASSUME TypeOK, PiecesInHand, [Next]_vars
    PROVE  TypeOK'
<1>1. proc' \in [Handlers -> Locals]
  <2>1. CASE UNCHANGED vars
    BY <2>1 DEF vars, TypeOK, Locals
  <2>2. CASE Crash
    BY <2>2 DEF Crash, Locals
  <2>3. ASSUME NEW h \in Handlers, Request(h) \/ Step(h) \/ ClientGone(h)
        PROVE  proc' \in [Handlers -> Locals]
    <3>1. PICK r \in Locals : proc' = [proc EXCEPT ![h] = r]
      BY <2>3, StepLocals DEF Becomes
    <3> QED
      BY <3>1 DEF TypeOK, Locals
  <2> QED
    BY <2>1, <2>2, <2>3 DEF Next
<1> QED
  BY <1>1, TablesType DEF Tables, TypeOK, Locals

(* What the handlers have in hand stays of a piece. *)
LEMMA StepPieces ==
    ASSUME TypeOK, TypeOK', PiecesInHand, [Next]_vars
    PROVE  PiecesInHand'
<1>1. ASSUME NEW l \in Locals, Piece(l) PROVE Piece(l)'
  <2>1. CASE l = Idle
    BY <2>1 DEF Piece, Idle
  <2>2. CASE l \in Active
    <3>1. l.page \in Pages /\ l.art \in Articles
      BY <2>2 DEF Active
    <3>2. OfAPiece(l.page, l.art) => OfAPiece(l.page, l.art)'
      BY <3>1, PieceStays, CountersGrow
    <3> QED
      BY <1>1, <3>2 DEF Piece, Included
  <2> QED
    BY <2>1, <2>2 DEF Locals
<1>2. \A h \in Handlers : proc[h] \in Locals /\ Piece(proc[h])
  BY DEF TypeOK, Locals, PiecesInHand
<1>3. CASE UNCHANGED vars
  <2>1. \A h \in Handlers : proc'[h] = proc[h]
    BY <1>3 DEF vars
  <2> QED
    BY <1>1, <1>2, <2>1 DEF PiecesInHand
<1>4. CASE Crash
  <2>1. Idle \in Locals /\ Piece(Idle)
    BY DEF Idle, Locals, Piece
  <2>2. \A h \in Handlers : proc'[h] = Idle
    BY <1>4 DEF Crash
  <2> QED
    BY <1>1, <2>1, <2>2 DEF PiecesInHand
<1>5. ASSUME NEW g \in Handlers, Request(g) \/ Step(g) \/ ClientGone(g)
      PROVE  PiecesInHand'
  <2>1. PICK r \in Locals : proc' = [proc EXCEPT ![g] = r] /\ Piece(r)
    BY <1>5, StepLocals DEF Becomes
  <2>2. \A h \in Handlers : proc'[h] = r \/ proc'[h] = proc[h]
    BY <2>1 DEF TypeOK
  <2>3. \A h \in Handlers : proc'[h] \in Locals /\ Piece(proc'[h])
    BY <1>2, <2>1, <2>2
  <2> QED
    BY <1>1, <2>3 DEF PiecesInHand
<1> QED
  BY <1>3, <1>4, <1>5 DEF Next

(* Only SavePage writes a page. *)
LEMMA PagesWritten ==
    ASSUME TypeOK, PiecesInHand, [Next]_vars, NEW a \in Articles
    PROVE  \/ rendered'[a] = rendered[a]
           \/ rendered'[a] = NoPage
           \/ a \notin gone' /\ OfAPiece(rendered'[a], a)
<1>1. ASSUME NEW h \in Handlers, SavePage(h)
      PROVE  \/ rendered'[a] = rendered[a]
             \/ a \notin gone' /\ OfAPiece(rendered'[a], a)
  <2>1. proc[h].pc = "include" /\ Piece(proc[h])
    BY <1>1 DEF SavePage, PiecesInHand
  <2>2. CASE a = proc[h].art /\ Exists(a)
    <3>1. rendered'[a] = proc[h].page /\ a \notin gone'
      BY <1>1, <2>2 DEF SavePage, Exists, TypeOK
    <3> QED
      BY <2>1, <2>2, <3>1 DEF Piece
  <2>3. CASE ~(a = proc[h].art /\ Exists(a))
    BY <1>1, <2>3 DEF SavePage, TypeOK
  <2> QED
    BY <2>2, <2>3
<1>2. ASSUME NEW h \in Handlers, Invalidate(h)
      PROVE  rendered'[a] = rendered[a] \/ rendered'[a] = NoPage
  BY <1>2 DEF Invalidate, TypeOK
<1>3. ASSUME NEW h \in Handlers, NEW x \in Articles, Delete(h, x)
      PROVE  rendered'[a] = rendered[a] \/ rendered'[a] = NoPage
  BY <1>3 DEF Delete, TypeOK
<1>4. ASSUME NEW h \in Handlers, Step(h), ~SavePage(h), ~Invalidate(h)
      PROVE  rendered' = rendered
  BY <1>4 DEF Step, Reload, Load, LookupInclude, ClearLinks, InsertLink, Finish, db
<1>5. ASSUME NEW h \in Handlers, NEW x \in Articles,
             \/ Create(h, x) \/ Update(h, x) \/ Retitle(h, x) \/ Retag(h, x) \/ View(h, x)
      PROVE  rendered' = rendered
  BY <1>5 DEF Create, Update, Retitle, Retag, View, db
<1>6. ASSUME NEW h \in Handlers, Warm(h) \/ ClientGone(h) PROVE rendered' = rendered
  BY <1>6 DEF Warm, ClientGone, db
<1>7. ASSUME Crash \/ UNCHANGED vars PROVE rendered' = rendered
  BY <1>7 DEF Crash, vars, db
<1>8. ASSUME NEW h \in Handlers, NEW S \in SUBSET Articles, EditTag(h, S) PROVE rendered' = rendered
  BY <1>8 DEF EditTag
<1> QED
  BY <1>1, <1>2, <1>3, <1>4, <1>5, <1>6, <1>7, <1>8 DEF Next, Request

LEMMA StepPages ==
    ASSUME TypeOK, TypeOK', PiecesInHand, PagesOfAPiece, [Next]_vars
    PROVE  PagesOfAPiece'
<1>1. ASSUME NEW a \in Articles, NEW page \in Pages, page = rendered'[a], page # NoPage
      PROVE  OfAPiece(page, a)'
  <2>1. OfAPiece(page, a)
    BY <1>1, PagesWritten DEF PagesOfAPiece
  <2> QED
    BY <2>1, PieceStays, CountersGrow
<1>2. \A a \in Articles : rendered'[a] \in Pages
  BY DEF TypeOK
<1>3. NoPage' = NoPage
  BY DEF NoPage
<1> QED
  BY <1>1, <1>2, <1>3 DEF PagesOfAPiece

(* Only InsertLink adds an edge, and only Delete an article that is gone. *)
LEMMA StepDeleted ==
    ASSUME TypeOK, PiecesInHand, DeletedLeavesNothing, [Next]_vars
    PROVE  DeletedLeavesNothing'
<1>1. ASSUME NEW h \in Handlers, NEW x \in Articles, Delete(h, x)
      PROVE  DeletedLeavesNothing'
  BY <1>1 DEF Delete, DeletedLeavesNothing, TypeOK, NoPage
<1>2. ASSUME gone' = gone,
             \A k \in links' : k \in links \/ (k[1] \notin gone /\ k[2] \notin gone)
      PROVE  DeletedLeavesNothing'
  <2>1. \A a \in gone : a \in Articles /\ rendered'[a] = NoPage
    BY <1>2, PagesWritten DEF DeletedLeavesNothing, TypeOK
  <2>2. \A a \in gone : \A k \in links' : k[1] # a /\ k[2] # a
    BY <1>2 DEF DeletedLeavesNothing
  <2> QED
    BY <1>2, <2>1, <2>2 DEF DeletedLeavesNothing, NoPage
<1>3. ASSUME NEW h \in Handlers, InsertLink(h) PROVE DeletedLeavesNothing'
  <2>1. PICK d \in proc[h].wanted :
           links' = IF Exists(d) /\ Exists(proc[h].art)
                    THEN links \cup {<<proc[h].art, d>>} ELSE links
    BY <1>3 DEF InsertLink
  <2>2. \A k \in links' : k \in links \/ (k[1] \notin gone /\ k[2] \notin gone)
    BY <2>1 DEF Exists
  <2> QED
    BY <1>2, <1>3, <2>2 DEF InsertLink
<1>4. ASSUME NEW h \in Handlers, Step(h), ~InsertLink(h)
      PROVE  gone' = gone /\ links' \subseteq links
  BY <1>4 DEF Step, Reload, Invalidate, Load, LookupInclude, SavePage, ClearLinks, Finish, db
<1>5. ASSUME NEW h \in Handlers, NEW x \in Articles,
             \/ Create(h, x) \/ Update(h, x) \/ Retitle(h, x) \/ Retag(h, x) \/ View(h, x)
      PROVE  gone' = gone /\ links' = links
  BY <1>5 DEF Create, Update, Retitle, Retag, View, db
<1>6. ASSUME NEW h \in Handlers, Warm(h) \/ ClientGone(h) PROVE gone' = gone /\ links' = links
  BY <1>6 DEF Warm, ClientGone, db
<1>7. ASSUME Crash \/ UNCHANGED vars PROVE gone' = gone /\ links' = links
  BY <1>7 DEF Crash, vars, db
<1>8. CASE gone' = gone /\ links' \subseteq links
  BY <1>2, <1>8
<1>9. ASSUME NEW h \in Handlers, NEW S \in SUBSET Articles, EditTag(h, S)
      PROVE  gone' = gone /\ links' = links
  BY <1>9 DEF EditTag
<1> QED
  BY <1>1, <1>3, <1>4, <1>5, <1>6, <1>7, <1>8, <1>9 DEF Next, Request

-----------------------------------------------------------------------------
LEMMA InitInv == Init => Inv
<1> SUFFICES ASSUME Init PROVE Inv
  OBVIOUS
<1>1. TypeOK
  BY RenderAssumption, NoPageType DEF Init, TypeOK, Revisions
<1> QED
  BY <1>1 DEF Init, Inv, PiecesInHand, Piece, Idle, PagesOfAPiece, DeletedLeavesNothing

(* The invariant that carries the three theorems below: inductive. *)
THEOREM Invariance == Spec => []Inv
<1>1. Inv /\ [Next]_vars => Inv'
  <2> SUFFICES ASSUME Inv, [Next]_vars PROVE Inv'
    OBVIOUS
  <2>1. TypeOK'
    BY StepType DEF Inv
  <2> QED
    BY <2>1, StepPieces, StepPages, StepDeleted DEF Inv
<1> QED
  BY <1>1, InitInv, PTL DEF Spec

(***************************************************************************)
(* Type correctness; in particular a handler that is not idle always has   *)
(* an article and a page in hand.                                          *)
(***************************************************************************)
THEOREM TypeCorrect == Spec => []TypeOK
BY Invariance, PTL DEF Inv

(***************************************************************************)
(* A cached page was rendered from one committed revision of its article   *)
(* and of what that revision includes, however many renders, edits and     *)
(* crashes overlap.                                                        *)
(***************************************************************************)
THEOREM PagesAreOfAPiece == Spec => []PagesOfAPiece
BY Invariance, PTL DEF Inv

(***************************************************************************)
(* Nothing is ever cached of a deleted article, and no edge names it.      *)
(***************************************************************************)
THEOREM NothingOfTheDeleted == Spec => []DeletedLeavesNothing
BY Invariance, PTL DEF Inv

-----------------------------------------------------------------------------
(***************************************************************************)
(* Pages follow edits.                                                     *)
(*                                                                         *)
(* A cached page that nothing disturbed is fresh, or some handler is yet   *)
(* to clear it: as the article it changed (Doomed), or through the edges   *)
(* of an article it changed (Owed).  The second needs the edges to be      *)
(* those of the page, which they are not while a render replaces them; but *)
(* then the page is what that render has just saved, and fresh.            *)
(***************************************************************************)
Edges(x) == {d \in Articles : <<x, d>> \in links}
Parts(page, x) == {d \in Articles \ {x} : page.parts[d] > 0}

(* What a handler has in hand of x, if nothing disturbed x: the page it *)
(* would have if it began now.                                          *)
Looked(x, wanted) ==
    [Fresh(x) EXCEPT !.parts = [d \in Articles |-> IF d \in wanted THEN 0 ELSE Fresh(x).parts[d]]]
Renders(l, x) ==
    /\ l.pc = "invalidate" /\ l.op = "update" => l.page = Loaded(x)
    /\ l.pc = "include" => l.wanted \subseteq Included(x, rev[x]) /\ l.page = Looked(x, l.wanted)
    /\ l.pc \in {"clear", "link"} => l.page = Fresh(x)
    /\ l.pc = "link" => l.wanted \subseteq Parts(l.page, x)
RendersFresh ==
    \A h \in Handlers : proc[h] # Idle /\ proc[h].art \notin disturbed => Renders(proc[h], proc[h].art)

(* The walk over the edges begins at the article, and visits it once. *)
Whole(l) ==
    /\ l.pc = "reload" => l.todo = {l.art}
    /\ l.pc \in {"reload", "invalidate"} =>
          l.art \in l.seen /\ l.todo \subseteq l.seen /\ (l.art \in l.todo => l.seen = {l.art})
WalksWhole == \A h \in Handlers : Whole(proc[h])

(* A handler that will clear the page of x; one that will follow the edges *)
(* to x; one that replaces the edges from x.                               *)
Dooms(l, x) == \/ l.pc = "reload" /\ l.op = "update" /\ l.art = x
               \/ l.pc = "invalidate" /\ x \in l.todo
Doomed(x) == \E h \in Handlers : Dooms(proc[h], x)
Owes(l, d) == l.pc \in {"reload", "invalidate"} /\ l.art = d /\ Dooms(l, d)
Owed(d) == \E h \in Handlers : Owes(proc[h], d)
Clears(l, x) == l.pc = "clear" /\ l.art = x
Links(l, x) == l.pc = "link" /\ l.art = x
Saving(x) == \E h \in Handlers : Clears(proc[h], x) \/ Links(proc[h], x)

Linked(x) ==
    LET D == Parts(rendered[x], x)
    IN \/ Edges(x) = D
       \/ \E g \in Handlers : Clears(proc[g], x)
       \/ \E g \in Handlers : /\ Links(proc[g], x) /\ Edges(x) \subseteq D
                              /\ D \subseteq Edges(x) \cup proc[g].wanted
Reached(x, d) ==
    \/ rendered[x].parts[d] = Found(d)
    \/ rendered[x].parts[d] > 0 /\ Exists(d) /\ Owed(d)
Follows(x) ==
    /\ rendered[x].parts[x] = rev[x] /\ rendered[x].meta = meta[x]
    /\ \A d \in Included(x, rev[x]) : Reached(x, d)
    /\ Linked(x)
Cached(x) ==
    /\ Saving(x) => rendered[x] = Fresh(x)
    /\ ~Doomed(x) => Follows(x)
CachedFollow == \A x \in Articles \ disturbed : rendered[x] # NoPage => Cached(x)

FollowInv == RendersFresh /\ WalksWhole /\ CachedFollow

(* There is a page only of an article that exists, and of its includes. *)
LEMMA PageExists ==
    ASSUME Inv, NEW x \in Articles, rendered[x] # NoPage
    PROVE  /\ Exists(x) /\ rendered[x] \in Pages
           /\ rendered[x].parts[x] = rev[x] => \A d \in Articles : rendered[x].parts[d] > 0 /\ d # x => d \in Included(x, rev[x])
<1>1. rendered[x] \in Pages /\ OfAPiece(rendered[x], x)
  BY DEF Inv, TypeOK, PagesOfAPiece
<1>2. rendered[x].parts[x] \in Nat /\ rev[x] \in Nat
  BY <1>1, RevisionsAreNumbers DEF Pages, Inv, TypeOK
<1>3. rev[x] > 0 /\ x \notin gone
  BY <1>1, <1>2 DEF OfAPiece, Inv, DeletedLeavesNothing
<1> QED
  BY <1>1, <1>3 DEF Exists, OfAPiece, Included

LEMMA FreshType ==
    ASSUME TypeOK, NEW x \in Articles
    PROVE  /\ Fresh(x) \in Pages /\ Fresh(x).parts[x] = rev[x] /\ Fresh(x).meta = meta[x]
           /\ \A d \in Articles \ {x} :
                Fresh(x).parts[d] = IF d \in Included(x, rev[x]) THEN Found(d) ELSE 0
<1>1. Fresh(x).parts = [d \in Articles |-> IF d = x THEN rev[x]
                                           ELSE IF d \in Included(x, rev[x]) THEN Found(d) ELSE 0]
      /\ Fresh(x).meta = meta[x]
  BY DEF Fresh
<1>2. \A d \in Articles : Found(d) \in Revisions /\ rev[d] \in Revisions /\ 0 \in Revisions
  BY RenderAssumption DEF Found, TypeOK, Revisions
<1>3. Fresh(x) \in Pages
  BY <1>2 DEF Fresh, Pages, TypeOK
<1> QED
  BY <1>1, <1>3

(* A lookup begins with nothing looked up and ends with the fresh page. *)
LEMMA LookedFor ==
    ASSUME TypeOK, NEW a \in Articles
    PROVE  /\ Looked(a, Included(a, rev[a])) = Loaded(a)
           /\ Looked(a, {}) = Fresh(a)
           /\ \A w \in SUBSET Included(a, rev[a]) : \A d \in w :
                 [Looked(a, w) EXCEPT !.parts[d] = Found(d)] = Looked(a, w \ {d})
<1>1. a \notin Included(a, rev[a]) /\ Included(a, rev[a]) \subseteq Articles
  BY IncludedType DEF Included, TypeOK
<1>2. Looked(a, Included(a, rev[a])) = Loaded(a)
  <2>1. \A d \in Articles : (IF d \in Included(a, rev[a]) THEN 0 ELSE Fresh(a).parts[d])
                              = IF d = a THEN rev[a] ELSE 0
    BY <1>1 DEF Fresh
  <2>2. [d \in Articles |-> IF d \in Included(a, rev[a]) THEN 0 ELSE Fresh(a).parts[d]]
          = [d \in Articles |-> IF d = a THEN rev[a] ELSE 0]
    BY <2>1
  <2>3. PICK f : f = [d \in Articles |-> IF d \in Included(a, rev[a]) THEN 0 ELSE Fresh(a).parts[d]]
    OBVIOUS
  <2>4. Looked(a, Included(a, rev[a])) = [Fresh(a) EXCEPT !.parts = f]
    BY <2>3 DEF Looked
  <2>5. \E p : Fresh(a) = [parts |-> p, meta |-> meta[a]]
    BY DEF Fresh
  <2> QED
    BY <2>2, <2>3, <2>4, <2>5 DEF Loaded
<1>3. Looked(a, {}) = Fresh(a)
  BY DEF Looked, Fresh
<1>4. ASSUME NEW w \in SUBSET Included(a, rev[a]), NEW d \in w
      PROVE  [Looked(a, w) EXCEPT !.parts[d] = Found(d)] = Looked(a, w \ {d})
  BY <1>1 DEF Looked, Fresh
<1> QED
  BY <1>2, <1>3, <1>4

LEMMA FoundType ==
    ASSUME TypeOK, NEW d \in Articles
    PROVE  Found(d) \in Nat /\ rev[d] \in Nat /\ (Found(d) > 0 <=> Exists(d))
BY RevisionsAreNumbers, RenderAssumption DEF Found, Exists, TypeOK, Revisions

(* Handlers and the pages they are at. *)
LEMMA UnderwayPiece ==
    ASSUME Inv, NEW h \in Handlers, proc[h] # Idle,
           proc[h].pc \in {"include", "clear", "link"} \/ (proc[h].pc = "invalidate" /\ proc[h].op = "update")
    PROVE  Underway(h, proc[h].art) /\ proc[h].art \in Articles /\ OfAPiece(proc[h].page, proc[h].art)
<1>1. proc[h] \in Active /\ Piece(proc[h])
  BY Working DEF Inv, PiecesInHand
<1>2. OfAPiece(proc[h].page, proc[h].art)
  BY <1>1 DEF Piece
<1> QED
  BY <1>1, <1>2 DEF Underway, OfAPiece, Active

-----------------------------------------------------------------------------
(* What a step leaves as it is. *)

(* x, and what its includes are found to be. *)
Unmoved(x) ==
    /\ rev'[x] = rev[x] /\ meta'[x] = meta[x]
    /\ \A d \in Included(x, rev[x]) : Found(d)' = Found(d)

LEMMA UnmovedFresh ==
    ASSUME NEW x \in Articles, Unmoved(x)
    PROVE  /\ Fresh(x)' = Fresh(x) /\ Loaded(x)' = Loaded(x)
           /\ Included(x, rev[x])' = Included(x, rev[x])
           /\ \A w : Looked(x, w)' = Looked(x, w)
<1>1. Included(x, rev[x])' = Included(x, rev[x])
  BY DEF Unmoved, Included
<1>2. Fresh(x)' = Fresh(x) /\ Loaded(x)' = Loaded(x)
  BY <1>1 DEF Unmoved, Fresh, Loaded
<1> QED
  BY <1>1, <1>2 DEF Looked

(* Most steps of a handler change no revision, no title and delete nothing. *)
Same == UNCHANGED <<rev, meta, gone, disturbed>>

LEMMA SameUnmoved ==
    ASSUME Same
    PROVE  /\ \A x \in Articles : Unmoved(x)
           /\ \A d : Found(d)' = Found(d) /\ Exists(d)' = Exists(d)
BY DEF Same, Unmoved, Found, Exists

(* The page in hand stays what a render would have, unless its article, or *)
(* something that includes, moves.                                         *)
LEMMA RendersKept ==
    ASSUME Inv, FollowInv, NEW g \in Handlers, proc[g] # Idle,
           NEW x \in Articles, proc[g].art = x, x \notin disturbed,
           Underway(g, x) /\ proc[g].page.parts[x] = rev[x] => Unmoved(x),
           NEW l, l = proc[g]
    PROVE  Renders(l, x)'
<1>1. Renders(l, x)
  BY DEF FollowInv, RendersFresh
<1>2. CASE \/ l.pc \in {"include", "clear", "link"}
           \/ l.pc = "invalidate" /\ l.op = "update"
  <2>1. Underway(g, x)
    BY <1>2, UnderwayPiece
  <2>2. /\ Loaded(x).parts[x] = rev[x] /\ Fresh(x).parts[x] = rev[x]
        /\ \A w \in SUBSET Included(x, rev[x]) : Looked(x, w).parts[x] = rev[x]
    BY DEF Loaded, Fresh, Looked, Included
  <2>3. l.page.parts[x] = rev[x]
    BY <1>1, <1>2, <2>2 DEF Renders
  <2>4. Unmoved(x)
    BY <2>1, <2>3
  <2> QED
    BY <1>1, <2>4, UnmovedFresh DEF Renders, Parts
<1>3. CASE ~(\/ l.pc \in {"include", "clear", "link"}
             \/ l.pc = "invalidate" /\ l.op = "update")
  BY <1>3 DEF Renders
<1> QED
  BY <1>2, <1>3

LEMMA HandlerRenders ==
    ASSUME Inv, FollowInv, NEW h \in Handlers, NEW r, proc' = [proc EXCEPT ![h] = r],
           disturbed \subseteq disturbed',
           \A x \in Articles \ disturbed' : \A g \in Handlers :
              Underway(g, x) /\ proc[g].page.parts[x] = rev[x] => Unmoved(x),
           r # Idle /\ r.art \notin disturbed' => Renders(r, r.art)',
           Whole(r)
    PROVE  RendersFresh' /\ WalksWhole'
<1>1. proc'[h] = r /\ \A g \in Handlers \ {h} : proc'[g] = proc[g]
  BY DEF Inv, TypeOK
<1>2. WalksWhole'
  BY <1>1 DEF FollowInv, WalksWhole, Whole
<1>3. ASSUME NEW g \in Handlers \ {h}, NEW l, l = proc[g], l # Idle, l.art \notin disturbed'
      PROVE  Renders(l, l.art)'
  <2>1. l.art \in Articles
    BY <1>3, Working DEF Inv, Active
  <2> QED
    BY <1>3, <2>1, RendersKept
<1>4. RendersFresh'
  BY <1>1, <1>3 DEF RendersFresh, Idle
<1> QED
  BY <1>2, <1>4

(* The same for a step in which no article changes. *)
LEMMA AsideRenders ==
    ASSUME Inv, FollowInv, NEW h \in Handlers, NEW r, proc' = [proc EXCEPT ![h] = r], Same,
           r # Idle => r.art \in Articles,
           r # Idle /\ r.art \notin disturbed => Renders(r, r.art),
           Whole(r)
    PROVE  RendersFresh' /\ WalksWhole'
<1>1. \A x \in Articles : Unmoved(x)
  BY SameUnmoved
<1>2. ASSUME NEW x \in Articles, Renders(r, x) PROVE Renders(r, x)'
  BY <1>1, <1>2, UnmovedFresh DEF Renders, Parts
<1>3. r # Idle /\ r.art \notin disturbed' => Renders(r, r.art)'
  BY <1>2 DEF Same
<1> QED
  BY <1>1, <1>3, HandlerRenders DEF Same

(* What holds of a page is kept by a step that leaves the page alone, takes *)
(* nothing it is owed and does not spoil its edges.                         *)
LEMMA KeepsCached ==
    ASSUME Inv, NEW x \in Articles, Cached(x), rendered'[x] = rendered[x],
           rev'[x] = rev[x], meta'[x] = meta[x],
           Doomed(x) => Doomed(x)',
           \A d \in Included(x, rev[x]) : Reached(x, d) => Reached(x, d)' \/ Doomed(x)',
           Follows(x) => Linked(x)' \/ Doomed(x)',
           Saving(x)' => Saving(x) /\ Fresh(x)' = Fresh(x)
    PROVE  Cached(x)'
<1>1. Included(x, rev[x])' = Included(x, rev[x])
  BY DEF Included
<1>2. Saving(x)' => rendered'[x] = Fresh(x)'
  BY DEF Cached
<1>3. ASSUME ~Doomed(x)' PROVE Follows(x)'
  BY <1>1, <1>3 DEF Cached, Follows
<1> QED
  BY <1>2, <1>3 DEF Cached

LEMMA LinkedStays ==
    ASSUME NEW x \in Articles, Linked(x), rendered'[x] = rendered[x], Edges(x)' = Edges(x),
           \A g \in Handlers : Clears(proc[g], x) \/ Links(proc[g], x) => proc'[g] = proc[g]
    PROVE  Linked(x)'
BY DEF Linked, Clears, Links, Parts

(* A page just saved. *)
LEMMA FreshCached ==
    ASSUME Inv, Same, NEW x \in Articles, rendered'[x] = Fresh(x), Linked(x)'
    PROVE  Cached(x)'
<1>1. Fresh(x)' = Fresh(x) /\ Included(x, rev[x])' = Included(x, rev[x])
  BY SameUnmoved, UnmovedFresh
<1>2. \A d \in Included(x, rev[x]) : d \in Articles \ {x}
  BY IncludedType DEF Inv, TypeOK, Included
<1>3. /\ rendered'[x].parts[x] = rev'[x] /\ rendered'[x].meta = meta'[x]
      /\ \A d \in Included(x, rev[x]) : rendered'[x].parts[d] = Found(d)'
  BY <1>2, FreshType, SameUnmoved DEF Inv, Same
<1>4. Follows(x)'
  BY <1>1, <1>3 DEF Follows, Reached
<1> QED
  BY <1>1, <1>4 DEF Cached

(* A handler that begins or goes on, with no walk and no edges of x in hand. *)
Elsewhere(h, r, x) ==
    /\ proc' = [proc EXCEPT ![h] = r]
    /\ proc[h].pc \notin {"reload", "invalidate"}
    /\ proc[h].pc \in {"clear", "link"} => proc[h].art # x
    /\ r.pc \in {"clear", "link"} => r.art # x

LEMMA NothingTaken ==
    ASSUME Inv, NEW h \in Handlers, NEW r, NEW x \in Articles, Elsewhere(h, r, x)
    PROVE  /\ Doomed(x) => Doomed(x)'
           /\ \A d \in Articles : Owed(d) => Owed(d)'
           /\ Saving(x)' => Saving(x)
           /\ \A g \in Handlers : Clears(proc[g], x) \/ Links(proc[g], x) => proc'[g] = proc[g]
<1>1. proc'[h] = r /\ \A g \in Handlers \ {h} : proc'[g] = proc[g]
  BY DEF Inv, TypeOK, Elsewhere
<1>2. Doomed(x) => Doomed(x)'
  BY <1>1 DEF Doomed, Dooms, Elsewhere
<1>3. \A d \in Articles : Owed(d) => Owed(d)'
  BY <1>1 DEF Owed, Owes, Dooms, Elsewhere
<1>4. Saving(x)' => Saving(x)
  BY <1>1 DEF Saving, Clears, Links, Elsewhere
<1>5. \A g \in Handlers : Clears(proc[g], x) \/ Links(proc[g], x) => proc'[g] = proc[g]
  BY <1>1 DEF Clears, Links, Elsewhere
<1> QED
  BY <1>2, <1>3, <1>4, <1>5

(* What a step of h that renders another page, or edits nothing, leaves of *)
(* page x.                                                                 *)
LEMMA OtherPage ==
    ASSUME Inv, FollowInv, NEW h \in Handlers, NEW r, Same,
           NEW x \in Articles, x \notin disturbed, rendered'[x] # NoPage,
           rendered'[x] = rendered[x], Edges(x)' = Edges(x), Elsewhere(h, r, x)
    PROVE  Cached(x)'
<1>1. Cached(x)
  BY DEF FollowInv, CachedFollow
<1>2. /\ Doomed(x) => Doomed(x)'
      /\ \A d \in Articles : Owed(d) => Owed(d)'
      /\ Saving(x)' => Saving(x)
      /\ \A g \in Handlers : Clears(proc[g], x) \/ Links(proc[g], x) => proc'[g] = proc[g]
  BY NothingTaken
<1>3. Fresh(x)' = Fresh(x) /\ rev'[x] = rev[x] /\ meta'[x] = meta[x]
  BY SameUnmoved, UnmovedFresh DEF Same
<1>4. \A d \in Included(x, rev[x]) : Reached(x, d) => Reached(x, d)'
  BY <1>2, SameUnmoved, IncludedType DEF Reached, Inv, TypeOK
<1>5. Follows(x) => Linked(x)'
  BY <1>2, LinkedStays DEF Follows
<1> QED
  BY <1>1, <1>2, <1>3, <1>4, <1>5, KeepsCached

-----------------------------------------------------------------------------
(* Steps that change neither pages nor edges. *)

LEMMA AsideCached ==
    ASSUME Inv, FollowInv, NEW h \in Handlers, NEW r, proc' = [proc EXCEPT ![h] = r], Same,
           UNCHANGED <<rendered, links>>,
           proc[h].pc \notin {"reload", "invalidate", "clear", "link"}, r.pc \notin {"clear", "link"}
    PROVE  CachedFollow'
<1>1. \A x \in Articles : Edges(x)' = Edges(x)
  BY DEF Edges
<1>2. ASSUME NEW x \in Articles \ disturbed, rendered'[x] # NoPage PROVE Cached(x)'
  BY <1>1, <1>2, OtherPage DEF Elsewhere
<1> QED
  BY <1>2 DEF CachedFollow, Same, NoPage

(* A page as it is loaded is what a lookup begins with. *)
LEMMA LoadedRenders ==
    ASSUME TypeOK, NEW a \in Articles, NEW r,
           r.pc = "include", r.page = Loaded(a), r.wanted = Included(a, rev[a])
    PROVE  Renders(r, a)
BY LookedFor DEF Renders

LEMMA LoadFollows ==
    ASSUME Inv, FollowInv, NEW h \in Handlers, Load(h)
    PROVE  FollowInv'
<1>1. PICK a \in proc[h].todo :
         LET l == [proc[h] EXCEPT !.todo = @ \ {a}] IN
         proc' = [proc EXCEPT ![h] = IF Exists(a) THEN Rendering(l, a) ELSE Continue(l)]
  BY DEF Load
<1>2. PICK l : l = [proc[h] EXCEPT !.todo = @ \ {a}]
  OBVIOUS
<1>3. PICK r : r = IF Exists(a) THEN Rendering(l, a) ELSE Continue(l)
  OBVIOUS
<1>4. proc' = [proc EXCEPT ![h] = r] /\ Same /\ UNCHANGED <<rendered, links>>
  BY <1>1, <1>2, <1>3 DEF Load, Same, db
<1>5. proc[h] \in Active /\ proc[h].pc = "load" /\ l \in Active /\ a \in Articles
  BY <1>1, <1>2, Working DEF Load, Inv, Active
<1>6. /\ r # Idle => r.art \in Articles /\ Renders(r, r.art)
      /\ r.pc \notin {"reload", "invalidate", "clear", "link"}
  <2>1. CASE Exists(a)
    <3>1. /\ r.pc = "include" /\ r.art = a /\ r.page = Loaded(a)
          /\ r.wanted = Included(a, rev[a])
      BY <1>3, <1>5, <2>1 DEF Rendering, Active
    <3> QED
      BY <1>5, <3>1, LoadedRenders DEF Inv
  <2>2. CASE ~Exists(a)
    <3>1. r = Idle \/ r = [l EXCEPT !.pc = "load", !.page = NoPage]
      BY <1>3, <2>2 DEF Continue
    <3>2. r = Idle \/ (r.pc = "load" /\ r.art = l.art)
      BY <1>5, <3>1 DEF Active
    <3> QED
      BY <1>5, <3>2 DEF Renders, Active, Idle
  <2> QED
    BY <2>1, <2>2
<1>7. Whole(r)
  BY <1>6 DEF Whole
<1> QED
  BY <1>4, <1>5, <1>6, <1>7, AsideRenders, AsideCached DEF FollowInv

LEMMA LookupFollows ==
    ASSUME Inv, FollowInv, NEW h \in Handlers, LookupInclude(h)
    PROVE  FollowInv'
<1>1. PICK d \in proc[h].wanted :
         proc' = [proc EXCEPT ![h].page.parts[d] = Found(d), ![h].wanted = @ \ {d}]
  BY DEF LookupInclude
<1>2. PICK l, page, r : /\ l = proc[h] /\ page = [l.page EXCEPT !.parts[d] = Found(d)]
                        /\ r = [l EXCEPT !.page = page, !.wanted = @ \ {d}]
  OBVIOUS
<1>3. proc' = [proc EXCEPT ![h] = r] /\ Same /\ UNCHANGED <<rendered, links>>
  BY <1>1, <1>2 DEF LookupInclude, Same, db
<1>4. l \in Active /\ l.pc = "include" /\ l # Idle
  BY <1>2, Working DEF LookupInclude, Inv, Idle
<1>5. r.pc = "include" /\ r.art = l.art /\ r.page = page /\ r.wanted = l.wanted \ {d}
  BY <1>2, <1>4 DEF Active
<1>6. ASSUME l.art \notin disturbed PROVE Renders(r, r.art)
  <2>1. Renders(l, l.art)
    BY <1>2, <1>4, <1>6 DEF FollowInv, RendersFresh
  <2>2. l.wanted \subseteq Included(l.art, rev[l.art]) /\ l.page = Looked(l.art, l.wanted)
    BY <1>4, <2>1 DEF Renders
  <2>3. page = Looked(l.art, l.wanted \ {d})
    BY <1>1, <1>2, <1>4, <2>2, LookedFor DEF Inv, Active
  <2> QED
    BY <1>5, <2>2, <2>3 DEF Renders
<1>7. Whole(r)
  BY <1>5 DEF Whole
<1> QED
  BY <1>2, <1>3, <1>4, <1>5, <1>6, <1>7, AsideRenders, AsideCached DEF FollowInv, Active

LEMMA ViewFollows ==
    ASSUME Inv, FollowInv, NEW h \in Handlers, NEW a \in Articles, View(h, a)
    PROVE  FollowInv'
<1>1. PICK r : r = [pc |-> "include", op |-> "view", art |-> a, page |-> Loaded(a),
                    wanted |-> Included(a, rev[a]), todo |-> {}, seen |-> {}]
  OBVIOUS
<1>2. proc' = [proc EXCEPT ![h] = r] /\ Same /\ UNCHANGED <<rendered, links>> /\ proc[h] = Idle
  BY <1>1 DEF View, Same, db
<1>3. r.pc = "include" /\ r.art = a /\ Renders(r, a)
  BY <1>1, LoadedRenders DEF Inv
<1>4. Whole(r)
  BY <1>3 DEF Whole
<1>5. RendersFresh' /\ WalksWhole'
  BY <1>2, <1>3, <1>4, AsideRenders
<1>6. Idle.pc = "idle"
  BY DEF Idle
<1>7. CachedFollow'
  BY <1>2, <1>3, <1>6, AsideCached
<1> QED
  BY <1>5, <1>7 DEF FollowInv

LEMMA WarmFollows ==
    ASSUME Inv, FollowInv, NEW h \in Handlers, Warm(h)
    PROVE  FollowInv'
<1>1. Same /\ UNCHANGED <<rendered, links>> /\ proc[h] = Idle
  BY DEF Warm, Same, db
<1>2. CASE UNCHANGED proc
  <2>1. proc' = [proc EXCEPT ![h] = Idle]
    BY <1>1, <1>2 DEF Inv, TypeOK
  <2>2. Whole(Idle) /\ Idle.pc = "idle"
    BY DEF Idle, Whole
  <2>3. RendersFresh' /\ WalksWhole'
    BY <1>1, <2>1, <2>2, AsideRenders
  <2>4. CachedFollow'
    BY <1>1, <2>1, <2>2, AsideCached
  <2> QED
    BY <2>3, <2>4 DEF FollowInv
<1>3. CASE ~UNCHANGED proc
  <2>0. PICK a \in Articles : \E r : /\ proc' = [proc EXCEPT ![h] = r]
                                    /\ r.pc = "load" /\ r.art = a
    BY <1>3 DEF Warm
  <2>1. PICK r : /\ proc' = [proc EXCEPT ![h] = r]
                 /\ r.pc = "load" /\ r.art = a
    BY <2>0
  <2>2. Renders(r, a) /\ Whole(r) /\ Idle.pc = "idle"
    BY <2>1 DEF Idle, Renders, Whole
  <2>3. RendersFresh' /\ WalksWhole'
    BY <1>1, <2>1, <2>2, AsideRenders
  <2>4. CachedFollow'
    BY <1>1, <2>1, <2>2, AsideCached
  <2> QED
    BY <2>3, <2>4 DEF FollowInv
<1> QED
  BY <1>2, <1>3

-----------------------------------------------------------------------------
(* Steps that save a page and replace its edges. *)

LEMMA SaveFollows ==
    ASSUME Inv, FollowInv, NEW h \in Handlers, SavePage(h)
    PROVE  FollowInv'
<1>1. PICK l, r : l = proc[h] /\ r = [l EXCEPT !.pc = "clear"]
  OBVIOUS
<1>2. /\ proc' = [proc EXCEPT ![h] = r] /\ Same /\ links' = links
      /\ rendered' = IF Exists(l.art) THEN [rendered EXCEPT ![l.art] = l.page] ELSE rendered
      /\ l.pc = "include" /\ l.wanted = {}
  BY <1>1 DEF SavePage, Same
<1>3. l \in Active /\ l # Idle /\ l.art \in Articles
  BY <1>1, <1>2, Working DEF Inv, Idle, Active
<1>4. r.pc = "clear" /\ r.art = l.art /\ r.page = l.page
  BY <1>1, <1>3 DEF Active
<1>5. l.art \notin disturbed => l.page = Fresh(l.art)
  BY <1>1, <1>2, <1>3, LookedFor DEF FollowInv, RendersFresh, Renders, Inv
<1>6. RendersFresh' /\ WalksWhole'
  <2>1. l.art \notin disturbed => Renders(r, r.art)
    BY <1>4, <1>5 DEF Renders
  <2>2. Whole(r)
    BY <1>4 DEF Whole
  <2> QED
    BY <1>2, <1>3, <1>4, <2>1, <2>2, AsideRenders
<1>7. ASSUME NEW x \in Articles, x \notin disturbed, rendered'[x] # NoPage PROVE Cached(x)'
  <2>0. Edges(x)' = Edges(x)
    BY <1>2 DEF Edges
  <2>1. CASE x = l.art
    <3>1. Exists(x)
      BY <1>2, <1>7, <2>1, PageExists
    <3>2. rendered'[x] = Fresh(x)
      BY <1>2, <1>5, <1>7, <2>1, <3>1 DEF Inv, TypeOK
    <3>3. Clears(proc'[h], x)
      BY <1>2, <1>4, <2>1 DEF Clears, Inv, TypeOK
    <3>4. Linked(x)'
      BY <3>3 DEF Linked, Clears
    <3> QED
      BY <1>2, <3>2, <3>4, FreshCached
  <2>2. CASE x # l.art
    <3>1. rendered'[x] = rendered[x]
      BY <1>2, <1>3, <2>2 DEF Inv, TypeOK
    <3>2. Elsewhere(h, r, x)
      BY <1>1, <1>2, <1>4, <2>2 DEF Elsewhere
    <3> QED
      BY <1>2, <1>7, <2>0, <3>1, <3>2, OtherPage
  <2> QED
    BY <2>1, <2>2
<1>8. CachedFollow'
  BY <1>2, <1>7 DEF CachedFollow, Same, NoPage
<1> QED
  BY <1>6, <1>8 DEF FollowInv

LEMMA ClearLinksFollows ==
    ASSUME Inv, FollowInv, NEW h \in Handlers, ClearLinks(h)
    PROVE  FollowInv'
<1>1. PICK l, r : /\ l = proc[h]
                  /\ r = [l EXCEPT !.pc = "link",
                                   !.wanted = {d \in Articles : l.page.parts[d] > 0} \ {l.art}]
  OBVIOUS
<1>2. /\ proc' = [proc EXCEPT ![h] = r] /\ Same /\ rendered' = rendered
      /\ links' = {k \in links : k[1] # l.art} /\ l.pc = "clear"
  BY <1>1 DEF ClearLinks, Same
<1>3. l \in Active /\ l # Idle /\ l.art \in Articles
  BY <1>1, <1>2, Working DEF Inv, Idle, Active
<1>4. r.pc = "link" /\ r.art = l.art /\ r.page = l.page /\ r.wanted = Parts(l.page, l.art)
  BY <1>1, <1>3 DEF Active, Parts
<1>5. l.art \notin disturbed => l.page = Fresh(l.art)
  BY <1>1, <1>2, <1>3 DEF FollowInv, RendersFresh, Renders
<1>6. RendersFresh' /\ WalksWhole'
  <2>1. l.art \notin disturbed => Renders(r, r.art)
    BY <1>4, <1>5 DEF Renders
  <2>2. Whole(r)
    BY <1>4 DEF Whole
  <2> QED
    BY <1>2, <1>3, <1>4, <2>1, <2>2, AsideRenders
<1>7. ASSUME NEW x \in Articles, x \notin disturbed, rendered'[x] # NoPage PROVE Cached(x)'
  <2>1. CASE x = l.art
    <3>1. rendered'[x] = Fresh(x) /\ rendered'[x] = l.page
      <4>1. Saving(x)
        BY <1>1, <1>2, <2>1 DEF Saving, Clears
      <4> QED
        BY <1>2, <1>5, <1>7, <2>1, <4>1 DEF FollowInv, CachedFollow, Cached
    <3>2. Edges(x)' = {}
      BY <1>2, <2>1 DEF Edges
    <3>3. proc'[h] = r
      BY <1>2 DEF Inv, TypeOK
    <3>4. /\ Links(proc'[h], x) /\ Edges(x)' \subseteq Parts(rendered'[x], x)
          /\ Parts(rendered'[x], x) \subseteq Edges(x)' \cup proc'[h].wanted
      BY <1>4, <2>1, <3>1, <3>2, <3>3 DEF Links
    <3>5. Linked(x)'
      BY <3>4 DEF Linked, Links, Parts
    <3> QED
      BY <1>2, <3>1, <3>5, FreshCached
  <2>2. CASE x # l.art
    <3>1. Edges(x)' = Edges(x)
      BY <1>2, <2>2 DEF Edges
    <3>2. Elsewhere(h, r, x)
      BY <1>1, <1>2, <1>4, <2>2 DEF Elsewhere
    <3> QED
      BY <1>2, <1>7, <3>1, <3>2, OtherPage
  <2> QED
    BY <2>1, <2>2
<1>8. CachedFollow'
  BY <1>2, <1>7 DEF CachedFollow, Same, NoPage
<1> QED
  BY <1>6, <1>8 DEF FollowInv

(* The page whose edges h is inserting: it is fresh, and its edges stay as *)
(* they should be when those in hand are.                                  *)
LEMMA LinkingCached ==
    ASSUME Inv, FollowInv, NEW h \in Handlers, NEW r, proc' = [proc EXCEPT ![h] = r], Same,
           NEW x \in Articles, x \notin disturbed, rendered[x] # NoPage, rendered' = rendered,
           Links(proc[h], x), r.pc \notin {"reload", "invalidate"},
           Linked(x) => Linked(x)'
    PROVE  Cached(x)'
<1>1. proc'[h] = r /\ \A g \in Handlers \ {h} : proc'[g] = proc[g]
  BY DEF Inv, TypeOK
<1>2. Cached(x) /\ Saving(x)
  BY DEF FollowInv, CachedFollow, Saving
<1>3. Doomed(x) => Doomed(x)'
  BY <1>1 DEF Doomed, Dooms, Links
<1>4. \A d \in Articles : Owed(d) => Owed(d)'
  BY <1>1 DEF Owed, Owes, Dooms, Links
<1>5. \A d \in Included(x, rev[x]) : Reached(x, d) => Reached(x, d)'
  BY <1>4, SameUnmoved, IncludedType DEF Reached, Inv, TypeOK
<1>6. Fresh(x)' = Fresh(x) /\ rev'[x] = rev[x] /\ meta'[x] = meta[x]
  BY SameUnmoved, UnmovedFresh DEF Same
<1>7. Follows(x) => Linked(x)'
  BY DEF Follows
<1> QED
  BY <1>2, <1>3, <1>5, <1>6, <1>7, KeepsCached

LEMMA InsertLinkFollows ==
    ASSUME Inv, FollowInv, NEW h \in Handlers, InsertLink(h)
    PROVE  FollowInv'
<1>1. PICK d \in proc[h].wanted :
         /\ links' = IF Exists(d) /\ Exists(proc[h].art)
                     THEN links \cup {<<proc[h].art, d>>} ELSE links
         /\ proc' = [proc EXCEPT ![h].wanted = @ \ {d}]
  BY DEF InsertLink
<1>2. PICK l, r : l = proc[h] /\ r = [l EXCEPT !.wanted = @ \ {d}]
  OBVIOUS
<1>3. /\ proc' = [proc EXCEPT ![h] = r] /\ Same /\ rendered' = rendered
      /\ links' = (IF Exists(d) /\ Exists(l.art) THEN links \cup {<<l.art, d>>} ELSE links)
      /\ l.pc = "link"
  BY <1>1, <1>2 DEF InsertLink, Same
<1>4. l \in Active /\ l # Idle /\ l.art \in Articles /\ d \in Articles
  BY <1>1, <1>2, <1>3, Working DEF Inv, Idle, Active
<1>5. r.pc = "link" /\ r.art = l.art /\ r.page = l.page /\ r.wanted = l.wanted \ {d}
  BY <1>2, <1>3, <1>4 DEF Active
<1>6. l.art \notin disturbed => l.page = Fresh(l.art) /\ l.wanted \subseteq Parts(l.page, l.art)
  BY <1>2, <1>3, <1>4 DEF FollowInv, RendersFresh, Renders
<1>7. RendersFresh' /\ WalksWhole'
  <2>1. l.art \notin disturbed => Renders(r, r.art)
    BY <1>5, <1>6 DEF Renders
  <2>2. Whole(r)
    BY <1>5 DEF Whole
  <2> QED
    BY <1>3, <1>4, <1>5, <2>1, <2>2, AsideRenders
<1>8. ASSUME NEW x \in Articles, x \notin disturbed, rendered'[x] # NoPage PROVE Cached(x)'
  <2>1. CASE x = l.art
    <3>1. Links(proc[h], x)
      BY <1>2, <1>3, <2>1 DEF Links
    <3>2. rendered[x] = l.page
      <4>1. Saving(x)
        BY <3>1 DEF Saving
      <4> QED
        BY <1>3, <1>6, <1>8, <2>1, <4>1 DEF FollowInv, CachedFollow, Cached
    <3>3. d \in Parts(rendered[x], x)
      BY <1>1, <1>2, <1>6, <1>8, <2>1, <3>2
    <3>4. Exists(d) /\ Exists(x)
      <4>1. d \in Articles \ {x} /\ Fresh(x).parts[d] > 0
        BY <1>6, <1>8, <2>1, <3>2, <3>3 DEF Parts
      <4> QED
        BY <1>3, <1>8, <4>1, FreshType, FoundType, PageExists DEF Inv
    <3>5. Edges(x)' = Edges(x) \cup {d}
      BY <1>3, <1>4, <2>1, <3>4 DEF Edges
    <3>6. ASSUME Linked(x) PROVE Linked(x)'
      <4> DEFINE D == Parts(rendered[x], x)
      <4>0. proc'[h] = r /\ \A g \in Handlers \ {h} : proc'[g] = proc[g]
        BY <1>3 DEF Inv, TypeOK
      <4>1. CASE Edges(x) = D
        <5>1. Edges(x)' = D
          BY <3>3, <3>5, <4>1
        <5> QED
          BY <1>3, <5>1 DEF Linked, Parts
      <4>2. ASSUME NEW g \in Handlers, Clears(proc[g], x) PROVE Linked(x)'
        <5>1. proc'[g] = proc[g]
          BY <3>1, <4>0, <4>2 DEF Clears, Links
        <5> QED
          BY <4>2, <5>1 DEF Linked, Clears
      <4>3. ASSUME NEW g \in Handlers, Links(proc[g], x), Edges(x) \subseteq D,
                   D \subseteq Edges(x) \cup proc[g].wanted
            PROVE  Linked(x)'
        <5>1. Links(proc'[g], x) /\ proc[g].wanted \subseteq proc'[g].wanted \cup {d}
          BY <1>2, <1>3, <1>5, <4>0, <4>3 DEF Links
        <5>2. Edges(x)' \subseteq D /\ D \subseteq Edges(x)' \cup proc'[g].wanted
          BY <3>3, <3>5, <4>3, <5>1
        <5>3. D = Parts(rendered'[x], x)
          BY <1>3
        <5> HIDE DEF D
        <5> QED
          BY <5>1, <5>2, <5>3 DEF Linked, Links, Parts
      <4> QED
        BY <3>6, <4>1, <4>2, <4>3 DEF Linked
    <3> QED
      BY <1>3, <1>5, <1>8, <3>1, <3>6, LinkingCached
  <2>2. CASE x # l.art
    <3>1. Edges(x)' = Edges(x)
      BY <1>3, <2>2 DEF Edges
    <3>2. Elsewhere(h, r, x)
      BY <1>2, <1>3, <1>5, <2>2 DEF Elsewhere
    <3> QED
      BY <1>3, <1>8, <3>1, <3>2, OtherPage
  <2> QED
    BY <2>1, <2>2
<1>9. CachedFollow'
  BY <1>3, <1>8 DEF CachedFollow, Same, NoPage
<1> QED
  BY <1>7, <1>9 DEF FollowInv

LEMMA FinishFollows ==
    ASSUME Inv, FollowInv, NEW h \in Handlers, Finish(h)
    PROVE  FollowInv'
<1>1. PICK l, r : l = proc[h] /\ r = Continue(l)
  OBVIOUS
<1>2. /\ proc' = [proc EXCEPT ![h] = r] /\ Same /\ UNCHANGED <<rendered, links>>
      /\ l.pc = "link" /\ l.wanted = {}
  BY <1>1 DEF Finish, Same, db
<1>3. l \in Active /\ l # Idle /\ l.art \in Articles
  BY <1>1, <1>2, Working DEF Inv, Idle, Active
<1>4. r = Idle \/ (r.pc = "load" /\ r.art = l.art)
  BY <1>1, <1>3 DEF Continue, Active
<1>5. r.pc \in {"idle", "load"}
  BY <1>4 DEF Idle
<1>6. RendersFresh' /\ WalksWhole'
  <2>1. Renders(r, r.art) /\ Whole(r)
    BY <1>5 DEF Renders, Whole
  <2> QED
    BY <1>2, <1>3, <1>4, <2>1, AsideRenders
<1>7. ASSUME NEW x \in Articles, x \notin disturbed, rendered'[x] # NoPage PROVE Cached(x)'
  <2>0. Edges(x)' = Edges(x)
    BY <1>2 DEF Edges
  <2>1. CASE x = l.art
    <3>1. Links(proc[h], x)
      BY <1>1, <1>2, <2>1 DEF Links
    <3>2. proc'[h] = r /\ \A g \in Handlers \ {h} : proc'[g] = proc[g]
      BY <1>2 DEF Inv, TypeOK
    <3>3. ASSUME Linked(x) PROVE Linked(x)'
      <4> DEFINE D == Parts(rendered[x], x)
      <4>1. CASE Edges(x) = D
        BY <1>2, <2>0, <4>1 DEF Linked, Parts
      <4>2. ASSUME NEW g \in Handlers, Clears(proc[g], x) PROVE Linked(x)'
        <5>1. proc'[g] = proc[g]
          BY <3>1, <3>2, <4>2 DEF Clears, Links
        <5> QED
          BY <4>2, <5>1 DEF Linked, Clears
      <4>3. ASSUME NEW g \in Handlers, g # h, Links(proc[g], x), Edges(x) \subseteq D,
                   D \subseteq Edges(x) \cup proc[g].wanted
            PROVE  Linked(x)'
        <5>1. proc'[g] = proc[g] /\ D = Parts(rendered'[x], x)
          BY <1>2, <3>2, <4>3
        <5> HIDE DEF D
        <5> QED
          BY <2>0, <4>3, <5>1 DEF Linked, Links, Parts
      <4>4. CASE Edges(x) \subseteq D /\ D \subseteq Edges(x) \cup proc[h].wanted
        BY <1>1, <1>2, <4>1, <4>4
      <4> QED
        BY <3>3, <4>1, <4>2, <4>3, <4>4 DEF Linked
    <3> QED
      BY <1>2, <1>5, <1>7, <3>1, <3>3, LinkingCached
  <2>2. CASE x # l.art
    <3>1. Elsewhere(h, r, x)
      BY <1>1, <1>2, <1>5, <2>2 DEF Elsewhere
    <3> QED
      BY <1>2, <1>7, <2>0, <3>1, OtherPage
  <2> QED
    BY <2>1, <2>2
<1>8. CachedFollow'
  BY <1>2, <1>7 DEF CachedFollow, Same, NoPage
<1> QED
  BY <1>6, <1>8 DEF FollowInv

-----------------------------------------------------------------------------
(* Steps that load a changed article and walk over the edges. *)

LEMMA ReloadFollows ==
    ASSUME Inv, FollowInv, NEW h \in Handlers, Reload(h)
    PROVE  FollowInv'
<1>1. PICK l, a, r : /\ l = proc[h] /\ a = l.art
                     /\ r = IF ~Exists(a) THEN Idle
                            ELSE IF l.op = "create" THEN [Rendering(l, a) EXCEPT !.todo = {}]
                            ELSE [l EXCEPT !.pc = "invalidate", !.page = Loaded(a)]
  OBVIOUS
<1>2. /\ proc' = [proc EXCEPT ![h] = r] /\ Same /\ UNCHANGED <<rendered, links>>
      /\ l.pc = "reload"
  BY <1>1 DEF Reload, Same, db
<1>3. l \in Active /\ l # Idle /\ a \in Articles /\ a = l.art /\ l = proc[h]
  BY <1>1, <1>2, Working DEF Inv, Idle, Active
<1>4. l.todo = {a} /\ l.seen = {a}
  BY <1>1, <1>2 DEF FollowInv, WalksWhole, Whole
<1>5. \/ r = Idle /\ ~Exists(a)
      \/ r.pc = "include" /\ r.art = a /\ r.page = Loaded(a)
           /\ r.wanted = Included(a, rev[a]) /\ l.op = "create"
      \/ r.pc = "invalidate" /\ r.art = a /\ r.page = Loaded(a) /\ r.op = l.op
           /\ r.todo = {a} /\ r.seen = {a}
  <2>1. CASE ~Exists(a)
    BY <1>1, <2>1
  <2>2. CASE Exists(a) /\ l.op = "create"
    BY <1>1, <1>3, <2>2 DEF Rendering, Active
  <2>3. CASE Exists(a) /\ l.op # "create"
    BY <1>1, <1>3, <1>4, <2>3 DEF Active
  <2> QED
    BY <2>1, <2>2, <2>3
<1>6. RendersFresh' /\ WalksWhole'
  <2>1. r # Idle => r.art \in Articles /\ Renders(r, r.art)
    BY <1>3, <1>5, LoadedRenders DEF Renders, Inv
  <2>2. Whole(r)
    BY <1>5 DEF Whole, Idle
  <2> QED
    BY <1>2, <2>1, <2>2, AsideRenders
<1>7. ASSUME NEW x \in Articles, x \notin disturbed, rendered[x] # NoPage PROVE Cached(x)'
  <2>0. proc'[h] = r /\ \A g \in Handlers \ {h} : proc'[g] = proc[g]
    BY <1>2 DEF Inv, TypeOK
  <2>1. Cached(x)
    BY <1>7 DEF FollowInv, CachedFollow
  <2>2. ASSUME NEW y \in Articles, Exists(y), Dooms(l, y) PROVE Dooms(r, y) /\ Owes(r, a)
    <3>1. y = a /\ l.op = "update"
      BY <1>2, <1>3, <2>2 DEF Dooms
    <3>2. r.pc = "invalidate" /\ r.art = a /\ r.todo = {a}
      BY <1>5, <2>2, <3>1
    <3> QED
      BY <3>1, <3>2 DEF Dooms, Owes
  <2>3. Doomed(x) => Doomed(x)'
    BY <1>3, <1>7, <2>0, <2>2, PageExists DEF Doomed, Dooms
  <2>4. ASSUME NEW d \in Articles, Owed(d), Exists(d) PROVE Owed(d)'
    <3>1. PICK g \in Handlers : Owes(proc[g], d)
      BY <2>4 DEF Owed
    <3>2. CASE g = h
      <4>1. d = a /\ Owes(r, a)
        BY <1>3, <2>2, <2>4, <3>1, <3>2 DEF Owes
      <4> QED
        BY <2>0, <4>1 DEF Owed, Owes, Dooms
    <3>3. CASE g # h
      BY <2>0, <3>1, <3>3 DEF Owed, Owes, Dooms
    <3> QED
      BY <3>2, <3>3
  <2>5. \A d \in Included(x, rev[x]) : Reached(x, d) => Reached(x, d)'
    BY <1>2, <2>4, SameUnmoved, IncludedType DEF Reached, Inv, TypeOK
  <2>6. r.pc \notin {"clear", "link"}
    BY <1>5 DEF Idle
  <2>7. Saving(x)' => Saving(x)
    BY <2>0, <2>6 DEF Saving, Clears, Links
  <2>8. Linked(x) => Linked(x)'
    <3>1. \A g \in Handlers : Clears(proc[g], x) \/ Links(proc[g], x) => proc'[g] = proc[g]
      BY <1>1, <1>2, <2>0 DEF Clears, Links
    <3> QED
      BY <1>2, <3>1, LinkedStays DEF Edges
  <2>9. Fresh(x)' = Fresh(x)
    BY <1>2, SameUnmoved, UnmovedFresh
  <2> QED
    BY <1>2, <2>1, <2>3, <2>5, <2>7, <2>8, <2>9, KeepsCached DEF Follows, Same
<1>8. CachedFollow'
  BY <1>2, <1>7 DEF CachedFollow, Same, NoPage
<1> QED
  BY <1>6, <1>8 DEF FollowInv

(* What the handler of an invalidation has in hand after a turn. *)
LEMMA TurnRenders ==
    ASSUME Inv, NEW l \in Active, l.pc = "invalidate", NEW r, r = AfterInvalidation(l),
           NEW x \in Articles, x = l.art, l.op = "update" => l.page = Loaded(x)
    PROVE  /\ r = Idle \/ r.art = x
           /\ r.pc \in {"include", "load", "idle"}
           /\ Renders(r, x)
<1>1. PICK others : others = [l EXCEPT !.todo = l.seen \ {l.art}]
  OBVIOUS
<1>2. others \in Active /\ others.art = x
  BY <1>1 DEF Active
<1>3. CASE l.op = "update"
  <2>1. r = [others EXCEPT !.pc = "include", !.wanted = Included(x, l.page.parts[x])]
    BY <1>1, <1>3 DEF AfterInvalidation
  <2>2. others.page = l.page /\ l.page.parts[x] = rev[x]
    BY <1>1, <1>3 DEF Loaded, Active
  <2>3. r.pc = "include" /\ r.art = x /\ r.page = Loaded(x) /\ r.wanted = Included(x, rev[x])
    BY <1>2, <1>3, <2>1, <2>2 DEF Active
  <2> QED
    BY <2>3, LoadedRenders DEF Inv
<1>4. CASE l.op = "retag"
  <2>1. r = [l EXCEPT !.pc = "load", !.todo = l.seen]
    BY <1>4 DEF AfterInvalidation
  <2>2. r.pc = "load" /\ r.art = x
    BY <2>1 DEF Active
  <2> QED
    BY <2>2 DEF Renders
<1>5. CASE l.op \notin {"update", "retag"}
  <2>1. r = Continue(others)
    BY <1>1, <1>5 DEF AfterInvalidation
  <2>2. r = Idle \/ (r.pc = "load" /\ r.art = x)
    BY <1>2, <2>1 DEF Continue, Active
  <2> QED
    BY <2>2 DEF Renders, Idle
<1> QED
  BY <1>3, <1>4, <1>5

LEMMA InvalidateFollows ==
    ASSUME Inv, FollowInv, NEW h \in Handlers, Invalidate(h)
    PROVE  FollowInv'
<1>1. PICK cur \in proc[h].todo : Invalidate(h)!2!(cur)
  BY DEF Invalidate
<1>2. PICK l, new, next, r :
         /\ l = proc[h]
         /\ new = {d \in Articles : <<d, cur>> \in links} \ l.seen
         /\ next = [l EXCEPT !.todo = (@ \ {cur}) \cup new, !.seen = @ \cup new]
         /\ r = IF next.todo # {} THEN next ELSE AfterInvalidation(next)
  OBVIOUS
<1>3. /\ proc' = [proc EXCEPT ![h] = r] /\ Same /\ links' = links
      /\ rendered' = [rendered EXCEPT ![cur] = NoPage]
      /\ l.pc = "invalidate"
  BY <1>1, <1>2 DEF Invalidate, Same
<1>4. l \in Active /\ l # Idle /\ l.art \in Articles /\ cur \in Articles
  BY <1>1, <1>2, <1>3, Working DEF Inv, Idle, Active
<1>5. /\ next \in Active /\ next.pc = "invalidate" /\ next.op = l.op /\ next.art = l.art
      /\ next.page = l.page /\ next.todo = (l.todo \ {cur}) \cup new
      /\ next.seen = l.seen \cup new
  BY <1>2, <1>3, <1>4 DEF Active
<1>6. l.art \in l.seen /\ l.todo \subseteq l.seen /\ (l.art \in l.todo => l.seen = {l.art})
  BY <1>2, <1>3 DEF FollowInv, WalksWhole, Whole
<1>7. ASSUME l.art \notin disturbed PROVE l.op = "update" => l.page = Loaded(l.art)
  BY <1>2, <1>3, <1>4, <1>7 DEF FollowInv, RendersFresh, Renders
<1>8. /\ r = Idle \/ r.art = l.art
      /\ r.pc \in {"invalidate", "include", "load", "idle"}
      /\ l.art \notin disturbed => Renders(r, l.art)
      /\ Whole(r)
  <2>1. CASE next.todo # {}
    <3>1. r = next
      BY <1>2, <2>1
    <3>2. next.art \in next.todo => FALSE
      BY <1>1, <1>2, <1>5, <1>6
    <3>3. Whole(next)
      BY <1>5, <1>6, <3>2 DEF Whole
    <3>4. l.art \notin disturbed => Renders(next, l.art)
      BY <1>5, <1>7 DEF Renders
    <3> QED
      BY <1>5, <3>1, <3>3, <3>4
  <2>2. CASE next.todo = {}
    <3>1. r = AfterInvalidation(next)
      BY <1>2, <2>2
    <3>2. \/ r = Idle \/ r.art = l.art
      BY <1>5, <3>1 DEF AfterInvalidation, Continue, Active
    <3>3. r.pc \in {"include", "load", "idle"}
      BY <1>5, <3>1 DEF AfterInvalidation, Continue, Active, Idle
    <3>4. l.art \notin disturbed => Renders(r, l.art)
      BY <1>4, <1>5, <1>7, <3>1, TurnRenders
    <3> QED
      BY <3>2, <3>3, <3>4 DEF Whole
  <2> QED
    BY <2>1, <2>2
<1>9. RendersFresh' /\ WalksWhole'
  BY <1>3, <1>4, <1>8, AsideRenders
<1>10. ASSUME NEW x \in Articles, x \notin disturbed, rendered'[x] # NoPage PROVE Cached(x)'
  <2>0. proc'[h] = r /\ \A g \in Handlers \ {h} : proc'[g] = proc[g]
    BY <1>3 DEF Inv, TypeOK
  <2>1. x # cur /\ rendered'[x] = rendered[x] /\ Edges(x)' = Edges(x)
    BY <1>3, <1>10 DEF Inv, TypeOK, Edges
  <2>2. Cached(x)
    BY <1>10, <2>1 DEF FollowInv, CachedFollow
  <2>3. x \in next.todo => Doomed(x)'
    <3>1. next.todo # {} => r = next
      BY <1>2
    <3>2. x \in next.todo => proc'[h].pc = "invalidate" /\ x \in proc'[h].todo
      BY <1>5, <2>0, <3>1
    <3> QED
      BY <3>2 DEF Doomed, Dooms
  <2>4. Doomed(x) => Doomed(x)'
    <3>1. Dooms(proc[h], x) => x \in next.todo
      BY <1>2, <1>3, <1>5, <2>1 DEF Dooms
    <3> QED
      BY <2>0, <2>3, <3>1 DEF Doomed, Dooms
  <2>5. Saving(x)' => Saving(x)
    BY <1>8, <2>0 DEF Saving, Clears, Links
  <2>6. ASSUME NEW d \in Included(x, rev[x]), Reached(x, d), ~Doomed(x)' PROVE Reached(x, d)'
    <3>0. d \in Articles \ {x}
      BY <2>6, IncludedType DEF Inv, TypeOK, Included
    <3>1. CASE rendered[x].parts[d] = Found(d)
      BY <1>3, <2>1, <3>1, SameUnmoved DEF Reached
    <3>2. CASE rendered[x].parts[d] # Found(d)
      <4>1. rendered[x].parts[d] > 0 /\ Exists(d) /\ Owed(d)
        BY <2>6, <3>2 DEF Reached
      <4>2. ~Saving(x)
        BY <2>2, <2>6, <3>0, <3>2, FreshType DEF Cached, Inv
      <4>3. Linked(x)
        BY <2>2, <2>4, <2>6 DEF Cached, Follows
      <4>4. Edges(x) = Parts(rendered[x], x)
        BY <4>2, <4>3 DEF Linked, Saving
      <4>5. <<x, d>> \in links
        BY <3>0, <4>1, <4>4 DEF Edges, Parts
      <4>6. PICK g \in Handlers : Owes(proc[g], d)
        BY <4>1 DEF Owed
      <4>7. CASE g = h
        <5>1. d = l.art /\ d \in l.todo
          BY <1>2, <1>3, <4>6, <4>7 DEF Owes, Dooms
        <5>2. d = cur /\ l.seen = {d}
          BY <1>1, <1>2, <1>6, <5>1
        <5>3. x \in next.todo
          BY <1>2, <1>5, <3>0, <4>5, <5>2
        <5> QED
          BY <2>3, <2>6, <5>3
      <4>8. CASE g # h
        <5>1. Owed(d)'
          BY <2>0, <4>6, <4>8 DEF Owed, Owes, Dooms
        <5> QED
          BY <1>3, <2>1, <4>1, <5>1, SameUnmoved DEF Reached
      <4> QED
        BY <4>7, <4>8
    <3> QED
      BY <3>1, <3>2
  <2>7. Linked(x) => Linked(x)'
    <3>1. \A g \in Handlers : Clears(proc[g], x) \/ Links(proc[g], x) => proc'[g] = proc[g]
      BY <1>2, <1>3, <2>0 DEF Clears, Links
    <3> QED
      BY <2>1, <3>1, LinkedStays
  <2>8. Fresh(x)' = Fresh(x)
    BY <1>3, SameUnmoved, UnmovedFresh
  <2> QED
    BY <1>3, <2>1, <2>2, <2>4, <2>5, <2>6, <2>7, <2>8, KeepsCached DEF Follows, Same
<1>11. CachedFollow'
  BY <1>3, <1>10 DEF CachedFollow, Same, NoPage
<1> QED
  BY <1>9, <1>11 DEF FollowInv

-----------------------------------------------------------------------------
(* Edits, and what is cut short. *)

(* The handler that begins is doing nothing of a page yet. *)
LEMMA StartRenders ==
    ASSUME Inv, FollowInv, NEW h \in Handlers, NEW r, proc' = [proc EXCEPT ![h] = r],
           disturbed \subseteq disturbed',
           \A x \in Articles \ disturbed' : \A g \in Handlers :
              Underway(g, x) /\ proc[g].page.parts[x] = rev[x] => Unmoved(x),
           r.pc \in {"idle", "reload", "invalidate"}, r.pc = "invalidate" => r.op # "update",
           Whole(r)
    PROVE  RendersFresh' /\ WalksWhole'
<1>1. r # Idle /\ r.art \notin disturbed' => Renders(r, r.art)'
  BY DEF Renders
<1> QED
  BY <1>1, HandlerRenders

(* A request in hand as it starts. *)
LEMMA Started ==
    ASSUME NEW a \in Articles, NEW op, NEW where, NEW r,
           r = [pc |-> where, op |-> op, art |-> a, page |-> NoPage, wanted |-> {},
                todo |-> {a}, seen |-> {a}]
    PROVE  /\ r.pc = where /\ r.op = op /\ r.art = a /\ r.todo = {a}
           /\ Whole(r)
BY DEF Whole

(* An edit of a leaves the other pages as they are cached, when a is not *)
(* one of their includes or is owed to them.                             *)
LEMMA EditCached ==
    ASSUME Inv, FollowInv, NEW h \in Handlers, NEW r, NEW x \in Articles, x \notin disturbed,
           rendered[x] # NoPage, rendered'[x] = rendered[x],
           Elsewhere(h, r, x), rev'[x] = rev[x], meta'[x] = meta[x],
           \A d \in Included(x, rev[x]) : Reached(x, d) => Reached(x, d)',
           Linked(x) /\ Follows(x) => Linked(x)',
           \A g \in Handlers : Underway(g, x) /\ proc[g].page.parts[x] = rev[x] => Unmoved(x)
    PROVE  Cached(x)'
<1>1. Cached(x)
  BY DEF FollowInv, CachedFollow
<1>2. Doomed(x) => Doomed(x)'
  BY NothingTaken
<1>3. ASSUME Saving(x)' PROVE Saving(x) /\ Fresh(x)' = Fresh(x)
  <2>1. Saving(x)
    BY <1>3, NothingTaken
  <2>2. PICK g \in Handlers : Clears(proc[g], x) \/ Links(proc[g], x)
    BY <2>1 DEF Saving
  <2>3. proc[g] # Idle /\ proc[g].art = x /\ proc[g].pc \in {"clear", "link"}
    BY <2>2 DEF Clears, Links, Idle
  <2>4. Underway(g, x) /\ proc[g].page = Fresh(x)
    BY <2>3, UnderwayPiece DEF FollowInv, RendersFresh, Renders
  <2>5. proc[g].page.parts[x] = rev[x]
    BY <2>4, FreshType DEF Inv
  <2> QED
    BY <2>1, <2>4, <2>5, UnmovedFresh
<1>4. Follows(x) => Linked(x)'
  BY DEF Follows
<1> QED
  BY <1>1, <1>2, <1>3, <1>4, KeepsCached

(* The edges of a page that nothing touches. *)
LEMMA EditLinked ==
    ASSUME Inv, NEW h \in Handlers, NEW r, NEW x \in Articles, Elsewhere(h, r, x),
           rendered'[x] = rendered[x], Edges(x)' = Edges(x)
    PROVE  Linked(x) => Linked(x)'
<1>1. \A g \in Handlers : Clears(proc[g], x) \/ Links(proc[g], x) => proc'[g] = proc[g]
  BY NothingTaken
<1> QED
  BY <1>1, LinkedStays

LEMMA CreateFollows ==
    ASSUME Inv, FollowInv, NEW h \in Handlers, NEW a \in Articles, Create(h, a)
    PROVE  FollowInv'
<1>1. PICK r : r = [pc |-> "reload", op |-> "create", art |-> a, page |-> NoPage, wanted |-> {},
                    todo |-> {a}, seen |-> {a}]
  OBVIOUS
<1>2. /\ proc' = [proc EXCEPT ![h] = r] /\ proc[h] = Idle
      /\ rev[a] = 0 /\ rev' = [rev EXCEPT ![a] = 1]
      /\ disturbed' = disturbed \cup Disturbs(a) \cup Includers(a)
      /\ UNCHANGED <<meta, gone, rendered, links>>
  BY <1>1 DEF Create, Start
<1>3. r.pc = "reload" /\ r.op = "create" /\ r.art = a /\ Whole(r)
  BY <1>1, Started
<1>4. \A d \in Articles \ {a} : rev'[d] = rev[d] /\ Found(d)' = Found(d) /\ Exists(d)' = Exists(d)
  BY <1>2 DEF Found, Exists, Inv, TypeOK
<1>5. ASSUME NEW x \in Articles \ disturbed', x # a PROVE Unmoved(x)
  <2>1. a \notin Included(x, rev[x]) /\ Included(x, rev[x]) \subseteq Articles
    BY <1>2, <1>5, IncludedType DEF Includers, Inv, TypeOK
  <2> QED
    BY <1>2, <1>4, <1>5, <2>1 DEF Unmoved
<1>6. RendersFresh' /\ WalksWhole'
  <2>1. ASSUME NEW x \in Articles \ disturbed', NEW g \in Handlers, Underway(g, x) PROVE x # a
    BY <1>2, <2>1 DEF Disturbs
  <2> QED
    BY <1>2, <1>3, <1>5, <2>1, StartRenders
<1>7. ASSUME NEW x \in Articles, x \notin disturbed', rendered[x] # NoPage PROVE Cached(x)'
  <2>1. x # a
    BY <1>2, <1>7, PageExists, FoundType DEF Exists, Inv
  <2>2. Unmoved(x)
    BY <1>5, <1>7, <2>1
  <2>3. Elsewhere(h, r, x)
    BY <1>2, <1>3 DEF Elsewhere, Idle
  <2>4. ASSUME NEW d \in Included(x, rev[x]), Reached(x, d) PROVE Reached(x, d)'
    <3>1. d \in Articles \ {a}
      BY <1>2, <1>7, <2>1, IncludedType DEF Includers, Inv, TypeOK
    <3>2. Owed(d) => Owed(d)'
      BY <2>3, <3>1, NothingTaken
    <3> QED
      BY <1>2, <1>4, <2>4, <3>1, <3>2 DEF Reached
  <2>5. Linked(x) => Linked(x)'
    BY <1>2, <2>3, EditLinked DEF Edges
  <2> QED
    BY <1>2, <1>7, <2>2, <2>3, <2>4, <2>5, EditCached DEF Unmoved
<1>8. CachedFollow'
  BY <1>2, <1>7 DEF CachedFollow, NoPage
<1> QED
  BY <1>6, <1>8 DEF FollowInv

LEMMA UpdateFollows ==
    ASSUME Inv, FollowInv, NEW h \in Handlers, NEW a \in Articles, Update(h, a)
    PROVE  FollowInv'
<1>1. PICK r : r = [pc |-> "reload", op |-> "update", art |-> a, page |-> NoPage, wanted |-> {},
                    todo |-> {a}, seen |-> {a}]
  OBVIOUS
<1>2. /\ proc' = [proc EXCEPT ![h] = r] /\ proc[h] = Idle /\ Exists(a)
      /\ rev' = [rev EXCEPT ![a] = @ + 1]
      /\ disturbed' = disturbed \cup Disturbs(a)
      /\ UNCHANGED <<meta, gone, rendered, links>>
  BY <1>1 DEF Update, Start
<1>3. r.pc = "reload" /\ r.op = "update" /\ r.art = a /\ Whole(r) /\ proc'[h] = r
  BY <1>1, <1>2, Started DEF Inv, TypeOK
<1>4. \A d \in Articles \ {a} : rev'[d] = rev[d] /\ Found(d)' = Found(d) /\ Exists(d)' = Exists(d)
  BY <1>2 DEF Found, Exists, Inv, TypeOK
<1>5. Exists(a)' /\ Found(a) > 0 /\ Owed(a)' /\ Doomed(a)'
  <2>1. Exists(a)' /\ Found(a) > 0
    BY <1>2, FoundType DEF Exists, Inv, TypeOK
  <2>2. Dooms(proc'[h], a) /\ Owes(proc'[h], a)
    BY <1>3 DEF Dooms, Owes
  <2> QED
    BY <2>1, <2>2 DEF Owed, Doomed, Owes, Dooms
<1>6. ASSUME NEW x \in Articles \ disturbed', NEW g \in Handlers,
             Underway(g, x), proc[g].page.parts[x] = rev[x]
      PROVE  x # a /\ Unmoved(x)
  <2>1. x # a /\ a \notin Includes[x][rev[x]]
    BY <1>2, <1>6 DEF Disturbs
  <2>2. a \notin Included(x, rev[x]) /\ Included(x, rev[x]) \subseteq Articles
    BY <2>1, IncludedType DEF Included, Inv, TypeOK
  <2> QED
    BY <1>2, <1>4, <2>1, <2>2 DEF Unmoved
<1>7. RendersFresh' /\ WalksWhole'
  BY <1>2, <1>3, <1>6, StartRenders
<1>8. ASSUME NEW x \in Articles, x \notin disturbed', rendered[x] # NoPage PROVE Cached(x)'
  <2>0. Elsewhere(h, r, x)
    BY <1>2, <1>3 DEF Elsewhere, Idle
  <2>1. CASE x = a
    <3>1. ASSUME Saving(a)' PROVE FALSE
      <4>1. PICK g \in Handlers : Clears(proc[g], a) \/ Links(proc[g], a)
        BY <2>0, <2>1, <3>1, NothingTaken DEF Saving
      <4>2. Underway(g, a)
        BY <4>1, UnderwayPiece DEF Clears, Links, Idle
      <4> QED
        BY <1>2, <1>8, <2>1, <4>2 DEF Disturbs
    <3> QED
      BY <1>5, <2>1, <3>1 DEF Cached
  <2>2. CASE x # a
    <3>1. ASSUME NEW d \in Included(x, rev[x]), Reached(x, d) PROVE Reached(x, d)'
      <4>1. d \in Articles
        BY IncludedType DEF Inv, TypeOK
      <4>2. CASE d = a
        BY <1>2, <1>5, <3>1, <4>2 DEF Reached
      <4>3. CASE d # a
        <5>1. Owed(d) => Owed(d)'
          BY <2>0, <4>1, NothingTaken
        <5> QED
          BY <1>2, <1>4, <3>1, <4>1, <4>3, <5>1 DEF Reached
      <4> QED
        BY <4>2, <4>3
    <3>2. Linked(x) => Linked(x)'
      BY <1>2, <2>0, EditLinked DEF Edges
    <3>3. \A g \in Handlers : Underway(g, x) /\ proc[g].page.parts[x] = rev[x] => Unmoved(x)
      BY <1>6, <1>8
    <3>4. rev'[x] = rev[x] /\ meta'[x] = meta[x]
      BY <1>2, <1>4, <2>2
    <3> QED
      BY <1>2, <1>8, <2>0, <3>1, <3>2, <3>3, <3>4, EditCached
  <2> QED
    BY <2>1, <2>2
<1>9. CachedFollow'
  BY <1>2, <1>8 DEF CachedFollow, NoPage
<1> QED
  BY <1>7, <1>9 DEF FollowInv

(* Only the titles and tags of the articles in S change. *)
LEMMA MetaCached ==
    ASSUME Inv, FollowInv, NEW h \in Handlers, NEW r, NEW x \in Articles, x \notin disturbed,
           rendered[x] # NoPage, Elsewhere(h, r, x), UNCHANGED <<rev, gone, rendered, links>>,
           meta'[x] = meta[x]
    PROVE  Cached(x)'
<1>1. \A d : Found(d)' = Found(d) /\ Exists(d)' = Exists(d)
  BY DEF Found, Exists
<1>2. Unmoved(x)
  BY <1>1 DEF Unmoved
<1>3. \A d \in Articles : Owed(d) => Owed(d)'
  BY NothingTaken
<1>4. \A d \in Included(x, rev[x]) : Reached(x, d) => Reached(x, d)'
  BY <1>1, <1>3, IncludedType DEF Reached, Inv, TypeOK
<1>5. Linked(x) => Linked(x)'
  BY EditLinked DEF Edges
<1> QED
  BY <1>2, <1>4, <1>5, EditCached

LEMMA RetagFollows ==
    ASSUME Inv, FollowInv, NEW h \in Handlers, NEW a \in Articles, Retag(h, a)
    PROVE  FollowInv'
<1>1. PICK r : r = [pc |-> "invalidate", op |-> "retag", art |-> a, page |-> NoPage, wanted |-> {},
                    todo |-> {a}, seen |-> {a}]
  OBVIOUS
<1>2. /\ proc' = [proc EXCEPT ![h] = r] /\ proc[h] = Idle
      /\ meta' = [meta EXCEPT ![a] = @ + 1]
      /\ disturbed' = disturbed \cup Disturbs(a)
      /\ UNCHANGED <<rev, gone, rendered, links>>
  BY <1>1 DEF Retag, Start
<1>3. r.pc = "invalidate" /\ r.op = "retag" /\ r.art = a /\ r.todo = {a} /\ Whole(r) /\ proc'[h] = r
  BY <1>1, <1>2, Started DEF Inv, TypeOK
<1>4. ASSUME NEW x \in Articles, x # a PROVE Unmoved(x)
  BY <1>2, <1>4 DEF Unmoved, Found, Exists, Inv, TypeOK
<1>5. ASSUME NEW x \in Articles \ disturbed', NEW g \in Handlers, Underway(g, x) PROVE x # a
  BY <1>2, <1>5 DEF Disturbs
<1>6. RendersFresh' /\ WalksWhole'
  BY <1>2, <1>3, <1>4, <1>5, StartRenders
<1>7. ASSUME NEW x \in Articles, x \notin disturbed', rendered[x] # NoPage PROVE Cached(x)'
  <2>0. Elsewhere(h, r, x)
    BY <1>2, <1>3 DEF Elsewhere, Idle
  <2>1. CASE x = a
    <3>1. ASSUME Saving(a)' PROVE FALSE
      <4>1. PICK g \in Handlers : Clears(proc[g], a) \/ Links(proc[g], a)
        BY <2>0, <2>1, <3>1, NothingTaken DEF Saving
      <4>2. Underway(g, a)
        BY <4>1, UnderwayPiece DEF Clears, Links, Idle
      <4> QED
        BY <1>5, <1>7, <2>1, <4>2
    <3>2. Doomed(a)'
      BY <1>3 DEF Doomed, Dooms
    <3> QED
      BY <2>1, <3>1, <3>2 DEF Cached
  <2>2. CASE x # a
    BY <1>2, <1>4, <1>7, <2>0, <2>2, MetaCached DEF Unmoved
  <2> QED
    BY <2>1, <2>2
<1>8. CachedFollow'
  BY <1>2, <1>7 DEF CachedFollow, NoPage
<1> QED
  BY <1>6, <1>8 DEF FollowInv

(* Changes of titles and tags that nothing follows. *)
LEMMA UnfollowedFollows ==
    ASSUME Inv, FollowInv, NEW h \in Handlers, proc[h] = Idle,
           UNCHANGED <<rev, gone, rendered, links, proc>>, disturbed \subseteq disturbed',
           \A x \in Articles \ disturbed' : meta'[x] = meta[x]
    PROVE  FollowInv'
<1>1. proc' = [proc EXCEPT ![h] = Idle]
  BY DEF Inv, TypeOK
<1>2. \A x \in Articles \ disturbed' : Unmoved(x)
  BY DEF Unmoved, Found, Exists
<1>3. Idle.pc = "idle" /\ Whole(Idle)
  BY DEF Idle, Whole
<1>4. RendersFresh' /\ WalksWhole'
  BY <1>1, <1>2, <1>3, StartRenders
<1>5. ASSUME NEW x \in Articles, x \notin disturbed', rendered[x] # NoPage PROVE Cached(x)'
  <2>1. Elsewhere(h, Idle, x)
    BY <1>1, <1>3 DEF Elsewhere
  <2> QED
    BY <1>5, <2>1, MetaCached
<1>6. CachedFollow'
  BY <1>5 DEF CachedFollow, NoPage
<1> QED
  BY <1>4, <1>6 DEF FollowInv

LEMMA DeleteFollows ==
    ASSUME Inv, FollowInv, NEW h \in Handlers, NEW a \in Articles, Delete(h, a)
    PROVE  FollowInv'
<1>1. PICK r : r = [pc |-> "invalidate", op |-> "delete", art |-> a, page |-> NoPage, wanted |-> {},
                    todo |-> {a}, seen |-> {a}]
  OBVIOUS
<1>2. /\ proc' = [proc EXCEPT ![h] = r] /\ proc[h] = Idle
      /\ gone' = gone \cup {a} /\ rendered' = [rendered EXCEPT ![a] = NoPage]
      /\ links' = {k \in links : k[1] # a /\ k[2] # a}
      /\ disturbed' = disturbed \cup Disturbs(a) \cup Includers(a)
      /\ UNCHANGED <<rev, meta>>
  BY <1>1 DEF Delete, Start
<1>3. r.pc = "invalidate" /\ r.op = "delete" /\ r.art = a /\ Whole(r)
  BY <1>1, Started
<1>4. \A d \in Articles \ {a} : Found(d)' = Found(d) /\ Exists(d)' = Exists(d)
  BY <1>2 DEF Found, Exists
<1>5. ASSUME NEW x \in Articles \ disturbed'
      PROVE  /\ Unmoved(x)
             /\ a \notin Included(x, rev[x]) /\ Included(x, rev[x]) \subseteq Articles
  <2>1. a \notin Included(x, rev[x]) /\ Included(x, rev[x]) \subseteq Articles
    BY <1>2, <1>5, IncludedType DEF Includers, Inv, TypeOK
  <2> QED
    BY <1>2, <1>4, <2>1 DEF Unmoved
<1>6. RendersFresh' /\ WalksWhole'
  BY <1>2, <1>3, <1>5, StartRenders
<1>7. ASSUME NEW x \in Articles, x \notin disturbed', rendered'[x] # NoPage PROVE Cached(x)'
  <2>1. x # a /\ rendered'[x] = rendered[x]
    BY <1>2, <1>7 DEF Inv, TypeOK
  <2>2. Elsewhere(h, r, x)
    BY <1>2, <1>3 DEF Elsewhere, Idle
  <2>3. ASSUME NEW d \in Included(x, rev[x]), Reached(x, d) PROVE Reached(x, d)'
    <3>1. d \in Articles \ {a}
      BY <1>5, <1>7, <2>3
    <3>2. Owed(d) => Owed(d)'
      BY <2>2, <3>1, NothingTaken
    <3> QED
      BY <1>4, <2>1, <2>3, <3>1, <3>2 DEF Reached
  <2>4. ASSUME Linked(x), Follows(x) PROVE Linked(x)'
    <3>1. a \notin Parts(rendered[x], x)
      BY <1>5, <1>7, <2>1, <2>4, PageExists DEF Follows, Parts
    <3>2. Edges(x)' = Edges(x) \ {a}
      BY <1>2, <2>1 DEF Edges
    <3>3. \A g \in Handlers : Clears(proc[g], x) \/ Links(proc[g], x) => proc'[g] = proc[g]
      BY <2>2, NothingTaken
    <3>4. CASE a \notin Edges(x)
      BY <2>1, <2>4, <3>2, <3>3, <3>4, LinkedStays
    <3>5. CASE \E g \in Handlers : Clears(proc[g], x)
      BY <3>3, <3>5 DEF Linked, Clears
    <3> QED
      BY <2>4, <3>1, <3>4, <3>5 DEF Linked
  <2> QED
    BY <1>2, <1>5, <1>7, <2>1, <2>2, <2>3, <2>4, EditCached DEF Unmoved
<1>8. CachedFollow'
  BY <1>7 DEF CachedFollow, NoPage
<1> QED
  BY <1>6, <1>8 DEF FollowInv

LEMMA ClientGoneFollows ==
    ASSUME Inv, FollowInv, NEW h \in Handlers, ClientGone(h)
    PROVE  FollowInv'
<1>1. PICK l : l = proc[h]
  OBVIOUS
<1>2. /\ proc' = [proc EXCEPT ![h] = Idle] /\ l # Idle
      /\ disturbed' = disturbed \cup {l.art} \cup l.seen \cup l.todo
                         \cup {x \in Articles : rendered[x].parts[l.art] > 0}
      /\ UNCHANGED <<rev, meta, gone, rendered, links>>
  BY <1>1 DEF ClientGone, db
<1>3. \A x \in Articles : Unmoved(x)
  BY <1>2 DEF Unmoved, Found, Exists
<1>4. Idle.pc = "idle" /\ Whole(Idle)
  BY DEF Idle, Whole
<1>5. RendersFresh' /\ WalksWhole'
  BY <1>2, <1>3, <1>4, StartRenders
<1>6. proc'[h] = Idle /\ \A g \in Handlers \ {h} : proc'[g] = proc[g]
  BY <1>2 DEF Inv, TypeOK
<1>7. ASSUME NEW x \in Articles, x \notin disturbed', rendered[x] # NoPage PROVE Cached(x)'
  <2>0. x \notin disturbed /\ Cached(x)
    BY <1>2, <1>7 DEF FollowInv, CachedFollow
  <2>1. x # l.art /\ x \notin l.todo /\ ~(rendered[x].parts[l.art] > 0)
    BY <1>2, <1>7
  <2>2. Doomed(x) => Doomed(x)'
    BY <1>1, <1>6, <2>1 DEF Doomed, Dooms
  <2>3. ASSUME NEW d \in Articles, Owed(d), rendered[x].parts[d] > 0 PROVE Owed(d)'
    <3>1. PICK g \in Handlers : Owes(proc[g], d)
      BY <2>3 DEF Owed
    <3>2. g # h
      BY <1>1, <2>1, <2>3, <3>1 DEF Owes
    <3> QED
      BY <1>6, <3>1, <3>2 DEF Owed, Owes, Dooms
  <2>4. \A d \in Included(x, rev[x]) : Reached(x, d) => Reached(x, d)'
    BY <1>2, <2>3, IncludedType DEF Reached, Found, Exists, Inv, TypeOK
  <2>5. Saving(x)' => Saving(x)
    BY <1>4, <1>6 DEF Saving, Clears, Links
  <2>6. Linked(x) => Linked(x)'
    <3>1. \A g \in Handlers : Clears(proc[g], x) \/ Links(proc[g], x) => proc'[g] = proc[g]
      BY <1>1, <1>6, <2>1 DEF Clears, Links
    <3> QED
      BY <1>2, <3>1, LinkedStays DEF Edges
  <2>7. Fresh(x)' = Fresh(x)
    BY <1>3, UnmovedFresh
  <2> QED
    BY <1>2, <2>0, <2>2, <2>4, <2>5, <2>6, <2>7, KeepsCached DEF Follows
<1>8. CachedFollow'
  BY <1>2, <1>7 DEF CachedFollow, NoPage
<1> QED
  BY <1>5, <1>8 DEF FollowInv

LEMMA FollowUnchanged ==
    ASSUME FollowInv, UNCHANGED <<db, proc, disturbed>>
    PROVE  FollowInv'
<1>1. WalksWhole'
  BY DEF FollowInv, WalksWhole
<1>2. /\ \A x : Fresh(x)' = Fresh(x) /\ Loaded(x)' = Loaded(x) /\ Included(x, rev[x])' = Included(x, rev[x])
      /\ \A d : Found(d)' = Found(d) /\ Exists(d)' = Exists(d)
  BY DEF Fresh, Loaded, Included, Found, Exists, db
<1>3. \A x, w : Looked(x, w)' = Looked(x, w)
  BY <1>2 DEF Looked
<1>4. RendersFresh'
  BY <1>2, <1>3 DEF FollowInv, RendersFresh, Renders, Parts
<1>5. /\ \A x : Doomed(x)' = Doomed(x) /\ Owed(x)' = Owed(x) /\ Saving(x)' = Saving(x)
      /\ \A x : Edges(x)' = Edges(x)
  BY DEF Doomed, Owed, Saving, Edges, db
<1>6. \A x : Linked(x)' = Linked(x)
  BY <1>5 DEF Linked, db
<1>7. \A x : Follows(x)' = Follows(x)
  BY <1>2, <1>5, <1>6 DEF Follows, Reached, db
<1>8. CachedFollow'
  BY <1>2, <1>5, <1>7 DEF FollowInv, CachedFollow, Cached, NoPage, db
<1> QED
  BY <1>1, <1>4, <1>8 DEF FollowInv

LEMMA CrashFollows ==
    ASSUME Inv, FollowInv, Crash
    PROVE  FollowInv'
<1>1. CASE \A h \in Handlers : proc[h] = Idle
  <2>1. proc' = proc
    BY <1>1 DEF Crash, Inv, TypeOK
  <2> QED
    BY <1>1, <2>1, FollowUnchanged DEF Crash
<1>2. CASE ~\A h \in Handlers : proc[h] = Idle
  <2>1. disturbed' = Articles /\ \A h \in Handlers : proc'[h] = Idle
    BY <1>2 DEF Crash
  <2>2. Idle.pc = "idle"
    BY DEF Idle
  <2>3. RendersFresh'
    BY <2>1 DEF RendersFresh, Idle
  <2>4. WalksWhole'
    BY <2>1, <2>2 DEF WalksWhole, Whole
  <2>5. CachedFollow'
    BY <2>1 DEF CachedFollow
  <2> QED
    BY <2>3, <2>4, <2>5 DEF FollowInv
<1> QED
  BY <1>1, <1>2

-----------------------------------------------------------------------------
LEMMA InitFollows == Init => FollowInv
BY DEF Init, FollowInv, RendersFresh, WalksWhole, Whole, CachedFollow, Idle

LEMMA StepFollows ==
    ASSUME Inv, FollowInv, [Next]_vars
    PROVE  FollowInv'
<1>1. ASSUME NEW h \in Handlers, Step(h) PROVE FollowInv'
  BY <1>1, ReloadFollows, InvalidateFollows, LoadFollows, LookupFollows, SaveFollows,
     ClearLinksFollows, InsertLinkFollows, FinishFollows DEF Step
<1>2. ASSUME NEW h \in Handlers, NEW a \in Articles, Retitle(h, a) PROVE FollowInv'
  <2>1. \A x \in Articles \ disturbed' : meta'[x] = meta[x]
    BY <1>2 DEF Retitle, Inv, TypeOK
  <2> QED
    BY <1>2, <2>1, UnfollowedFollows DEF Retitle
<1>3. ASSUME NEW h \in Handlers, NEW S \in SUBSET Articles, EditTag(h, S) PROVE FollowInv'
  <2>1. \A x \in Articles \ disturbed' : meta'[x] = meta[x]
    BY <1>3 DEF EditTag
  <2> QED
    BY <1>3, <2>1, UnfollowedFollows DEF EditTag
<1>4. ASSUME NEW h \in Handlers, Request(h) PROVE FollowInv'
  BY <1>2, <1>3, <1>4, WarmFollows, CreateFollows, UpdateFollows, RetagFollows, DeleteFollows,
     ViewFollows DEF Request
<1>5. CASE UNCHANGED vars
  BY <1>5, FollowUnchanged DEF vars
<1> QED
  BY <1>1, <1>4, <1>5, CrashFollows, ClientGoneFollows DEF Next

(* The invariant that carries the two theorems below: inductive, with Inv. *)
THEOREM Following == Spec => []FollowInv
<1>1. Inv /\ FollowInv /\ [Next]_vars => FollowInv'
  BY StepFollows
<1> QED
  BY <1>1, InitFollows, Invariance, PTL DEF Spec

(* When no handler runs, nothing is owed to a page and nothing replaces its edges. *)
LEMMA QuietFollows ==
    ASSUME Inv, FollowInv, Quiet, NEW x \in Articles, x \notin disturbed, rendered[x] # NoPage
    PROVE  rendered[x] = Fresh(x) /\ Edges(x) = Parts(rendered[x], x)
<1>1. \A h \in Handlers : proc[h].pc = "idle"
  BY DEF Quiet, Idle
<1>2. ~Doomed(x) /\ ~Saving(x) /\ \A d : ~Owed(d)
  BY <1>1 DEF Doomed, Dooms, Saving, Clears, Links, Owed, Owes
<1>3. Follows(x)
  BY <1>2 DEF FollowInv, CachedFollow, Cached
<1>4. Edges(x) = Parts(rendered[x], x)
  BY <1>2, <1>3 DEF Follows, Linked, Saving
<1>5. /\ rendered[x].parts[x] = rev[x] /\ rendered[x].meta = meta[x]
      /\ \A d \in Included(x, rev[x]) : rendered[x].parts[d] = Found(d)
  BY <1>2, <1>3 DEF Follows, Reached
<1>6. /\ rendered[x] \in Pages /\ Fresh(x) \in Pages
      /\ \A d \in Articles : rendered[x].parts[d] > 0 /\ d # x => d \in Included(x, rev[x])
  BY <1>5, PageExists, FreshType DEF Inv
<1>7. ASSUME NEW d \in Articles PROVE rendered[x].parts[d] = Fresh(x).parts[d]
  <2>1. rendered[x].parts[d] \in Nat
    BY <1>6, RevisionsAreNumbers DEF Pages
  <2>2. CASE d = x
    BY <1>5, <2>2, FreshType DEF Inv
  <2>3. CASE d # x
    <3>1. Fresh(x).parts[d] = IF d \in Included(x, rev[x]) THEN Found(d) ELSE 0
      BY <2>3, FreshType DEF Inv
    <3> QED
      BY <1>5, <1>6, <2>1, <2>3, <3>1
  <2> QED
    BY <2>2, <2>3
<1>8. rendered[x].parts = Fresh(x).parts /\ rendered[x].meta = Fresh(x).meta
  BY <1>5, <1>6, <1>7, FreshType DEF Pages, Inv
<1>9. rendered[x] = Fresh(x)
  BY <1>6, <1>8 DEF Pages
<1> QED
  BY <1>4, <1>9

(***************************************************************************)
(* Once no handler runs, a cached page is what a render would give, unless *)
(* it was disturbed: every update has reached the pages that include the   *)
(* article, however the walks over the edges and the renders that replace  *)
(* them overlapped.                                                        *)
(***************************************************************************)
THEOREM EditsReachPages == Spec => []PagesFollowEdits
<1>1. Inv /\ FollowInv => PagesFollowEdits
  BY QuietFollows DEF PagesFollowEdits
<1> QED
  BY <1>1, Invariance, Following, PTL

(***************************************************************************)
(* And the edges stored for it are those of its includes, for the next     *)
(* edit to follow.                                                         *)
(***************************************************************************)
THEOREM EdgesOfPages == Spec => []EdgesMatchPages
<1>1. ASSUME Inv, FollowInv, Quiet, NEW a \in Articles \ disturbed, rendered[a] # NoPage
      PROVE  {k[2] : k \in {l \in links : l[1] = a}}
                = {d \in Articles \ {a} : rendered[a].parts[d] > 0}
  <2>1. Edges(a) = {d \in Articles \ {a} : rendered[a].parts[d] > 0}
    BY <1>1, QuietFollows DEF Parts
  <2>2. \A k \in links : k = <<k[1], k[2]>> /\ k[2] \in Articles
    BY <1>1 DEF Inv, TypeOK
  <2>3. {k[2] : k \in {l \in links : l[1] = a}} = Edges(a)
    BY <2>2 DEF Edges
  <2> QED
    BY <2>1, <2>3
<1>2. Inv /\ FollowInv => EdgesMatchPages
  BY <1>1 DEF EdgesMatchPages
<1> QED
  BY <1>2, Invariance, Following, PTL
=============================================================================

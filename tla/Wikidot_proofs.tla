---------------------------- MODULE Wikidot_proofs ----------------------------
(***************************************************************************)
(* A page of Wikidot comes out the same whatever else is rendered, for any *)
(* texts, any number of renders and any number of them at a time.  The     *)
(* argument: a parser taken from the pool is a clean one; so the next      *)
(* state of a render is a function of its state alone, and every render of *)
(* a page passes through the same states.                                  *)
(***************************************************************************)
EXTENDS Wikidot, WellFoundedInduction, TLAPS

Entering(q, open, close, next) ==
    IF FirstOf(Here(q).text, open) = 0 THEN Moved(q, next, Here(q)) ELSE Entered(q, open, close)

Including(q, pages) ==
    LET x == Here(q)
        i == FirstOf(x.text, "include")
        target == x.text[i].n
    IN IF i = 0 THEN Moved(q, "modules", x)
       ELSE IF ~Ctx(q).lookup \/ target \notin DOMAIN pages THEN Moved(q, "include", LeftAsItIs(x))
       ELSE Included(q, pages[target], Clean)

Restoring(q) ==
    LET x == Here(q)
    IN IF Pass(x) # x THEN Moved(q, "restore", Pass(x)) ELSE Moved(q, "close", HeadingsInline(x, q.step))

(* What the next step of a render makes of it, with clean parsers. *)
Advance(q, pages) ==
    LET ph == Last(q.frames).ph
        x == Here(q)
    IN CASE ph = "open" -> Opened(q)
         [] ph = "fold" -> Entering(q, "[fold", "fold]", "cells")
         [] ph = "cells" -> Moved(q, "include", Cells(x, q.step))
         [] ph = "include" -> Including(q, pages)
         [] ph = "modules" -> Moved(q, "div", renderModules(x, Ctx(q).lookup, q.step))
         [] ph = "div" -> Entering(q, "[div", "div]", "float")
         [] ph = "float" -> Entering(q, "[float", "float]", "spans")
         [] ph = "spans" -> Moved(q, "tab", InPlace(x, "[span", "span]", q.step))
         [] ph = "tab" -> Entering(q, "[tab", "tab]", "anchor")
         [] ph = "anchor" -> Entering(q, "[anchor", "anchor]", "marks")
         [] ph = "marks" -> Moved(q, "box", Marked(x, q.step))
         [] ph = "box" -> Entering(q, "[box", "box]", "lists")
         [] ph = "lists" -> Moved(q, "restore", InPlace(x, "[li", "li]", q.step))
         [] ph = "restore" -> Restoring(q)
         [] ph = "close" -> IF Len(q.frames) = 1 THEN Finished(q) ELSE Returned(q)

(* The first n states of a render of the page. *)
Rendering(g, n, page, pages) ==
    /\ n \in Nat \ {0}
    /\ g[1] = Begun(page, pages[page], Clean)
    /\ \A i \in 1 .. n - 1 : g[i].st = "busy" /\ g[i + 1] = Advance(g[i], pages)

Rendered(q, page, pages) == \E g, n : Rendering(g, n, page, pages) /\ g[n] = q

Started(r) == run[r] = NoRender \/ (run[r].page \in DOMAIN source /\ Rendered(run[r], run[r].page, source))
FirstOne(page) ==
    first[page] = <<>> \/ \E q : Rendered(q, page, source) /\ q.st = "done" /\ q.html = first[page]

Inv ==
    /\ DOMAIN run = Slots /\ DOMAIN first = DOMAIN source
    /\ wpPool \subseteq {Clean}
    /\ \A r \in Slots : Started(r)
    /\ \A page \in DOMAIN source : FirstOne(page)
    /\ SamePage

-----------------------------------------------------------------------------
(* Two renders of a page *)

(* A set of naturals has a least element. *)
LEMMA Least == ASSUME NEW S \in SUBSET Nat, S # {} PROVE \E m \in S : \A k \in S : m <= k
<1> DEFINE R == {p \in Nat \X Nat : p[1] < p[2]}
<1>1. R = OpToRel(<, Nat)
  BY DEF OpToRel
<1>2. IsWellFoundedOn(R, Nat)
  BY <1>1, NatLessThanWellFounded, Zenon
<1>3. PICK m \in S : \A k \in S : ~(<<k, m>> \in R)
  <2> HIDE DEF R
  <2> QED
    BY <1>2, WFMin, Zenon
<1>4. \A k \in S : k \in Nat /\ ~(k < m)
  BY <1>3
<1> QED
  BY <1>3, <1>4

(* They pass through the same states, as far as both have come. *)
LEMMA SameStates ==
    ASSUME NEW page, NEW pages, NEW g, NEW n, NEW h, NEW m,
           Rendering(g, n, page, pages), Rendering(h, m, page, pages),
           NEW k \in 1 .. n, k \in 1 .. m
    PROVE  g[k] = h[k]
<1> USE DEF Rendering
<1> DEFINE Differ == {i \in Nat : i \in 1 .. n /\ i \in 1 .. m /\ g[i] # h[i]}
<1>1. ASSUME g[k] # h[k] PROVE FALSE
  <2>1. k \in Differ
    BY <1>1
  <2>2. Differ \in SUBSET Nat /\ Differ # {}
    BY <2>1
  <2>3. PICK i \in Differ : \A j \in Differ : i <= j
    <3> HIDE DEF Differ
    <3> QED
      BY <2>2, Least
  <2>4. i # 1
    BY <2>3
  <2>5. i - 1 \in Nat /\ i - 1 \in 1 .. n - 1 /\ i - 1 \in 1 .. m - 1
    BY <2>3, <2>4
  <2>6. g[i - 1] = h[i - 1]
    <3>1. i - 1 \notin Differ
      BY <2>3, <2>5
    <3> QED
      BY <3>1, <2>5
  <2>7. g[(i - 1) + 1] = h[(i - 1) + 1]
    BY <2>5, <2>6
  <2> QED
    BY <2>7, <2>3
<1> QED
  BY <1>1

(* So both end in the same one. *)
LEMMA SameEnd ==
    ASSUME NEW page, NEW pages, NEW q, NEW t,
           Rendered(q, page, pages), Rendered(t, page, pages), q.st = "done", t.st = "done"
    PROVE  q = t
<1>1. PICK g, n : Rendering(g, n, page, pages) /\ g[n] = q
  BY DEF Rendered
<1>2. PICK h, m : Rendering(h, m, page, pages) /\ h[m] = t
  BY DEF Rendered
<1>3. n \in Nat \ {0} /\ m \in Nat \ {0}
  BY <1>1, <1>2 DEF Rendering
<1>4. ASSUME n < m PROVE FALSE
  <2>1. g[n] = h[n]
    BY <1>1, <1>2, <1>3, <1>4, SameStates
  <2>2. h[n].st = "busy"
    BY <1>2, <1>3, <1>4 DEF Rendering
  <2> QED
    BY <2>1, <2>2, <1>1
<1>5. ASSUME m < n PROVE FALSE
  <2>1. g[m] = h[m]
    BY <1>1, <1>2, <1>3, <1>5, SameStates
  <2>2. g[m].st = "busy"
    BY <1>1, <1>3, <1>5 DEF Rendering
  <2> QED
    BY <2>1, <2>2, <1>2
<1>6. n = m
  BY <1>3, <1>4, <1>5
<1> QED
  BY <1>1, <1>2, <1>3, <1>6, SameStates

(* A render under way has one more state after a step. *)
LEMMA OneMore ==
    ASSUME NEW page, NEW pages, NEW q, Rendered(q, page, pages), q.st = "busy"
    PROVE  Rendered(Advance(q, pages), page, pages)
<1>1. PICK g, n : Rendering(g, n, page, pages) /\ g[n] = q
  BY DEF Rendered
<1> DEFINE h == [i \in 1 .. n + 1 |-> IF i <= n THEN g[i] ELSE Advance(q, pages)]
<1>2. n \in Nat \ {0}
  BY <1>1 DEF Rendering
<1>3. /\ \A i \in 1 .. n : h[i] = g[i]
      /\ h[n + 1] = Advance(q, pages)
  BY <1>2
<1> HIDE DEF h
<1>4. Rendering(h, n + 1, page, pages)
  <2>1. n + 1 \in Nat \ {0} /\ h[1] = Begun(page, pages[page], Clean)
    BY <1>1, <1>2, <1>3 DEF Rendering
  <2>2. ASSUME NEW i \in 1 .. n PROVE h[i].st = "busy" /\ h[i + 1] = Advance(h[i], pages)
    <3>1. CASE i = n
      BY <3>1, <1>1, <1>2, <1>3
    <3>2. CASE i # n
      <4>1. i \in 1 .. n - 1 /\ i + 1 \in 1 .. n
        BY <3>2, <1>2
      <4> QED
        BY <4>1, <1>1, <1>3 DEF Rendering
    <3> QED
      BY <3>1, <3>2
  <2>3. (n + 1) - 1 = n
    BY <1>2
  <2> QED
    BY <2>1, <2>2, <2>3 DEF Rendering
<1> QED
  BY <1>3, <1>4 DEF Rendered

(* And one that begins has its first. *)
LEMMA FirstState ==
    ASSUME NEW page, NEW pages
    PROVE  Rendered(Begun(page, pages[page], Clean), page, pages)
<1> DEFINE g == [i \in {1} |-> Begun(page, pages[page], Clean)]
<1>1. g[1] = Begun(page, pages[page], Clean)
  OBVIOUS
<1> HIDE DEF g
<1>2. Rendering(g, 1, page, pages)
  BY <1>1 DEF Rendering
<1> QED
  BY <1>1, <1>2 DEF Rendered

-----------------------------------------------------------------------------
(* The steps *)

LEMMA InitInv == Init => Inv
BY DEF Init, Inv, Started, FirstOne, SamePage, Ready, NoRender

(* What a state of a render keeps of the one before. *)
LEMMA BusyKept ==
    \A q, frames, parsers :
        Busy(q, frames, parsers).page = q.page /\ Busy(q, frames, parsers).st = "busy"
BY DEF Busy

LEMMA MovedKept == \A q, next, x : Moved(q, next, x).page = q.page /\ Moved(q, next, x).st = "busy"
BY BusyKept DEF Moved

LEMMA OpenedKept == \A q : Opened(q).page = q.page /\ Opened(q).st = "busy"
BY MovedKept DEF Opened

LEMMA EnteredKept ==
    \A q, open, close : Entered(q, open, close).page = q.page /\ Entered(q, open, close).st = "busy"
BY DEF Entered, Busy

LEMMA IncludedKept == \A q, text, p : Included(q, text, p).page = q.page /\ Included(q, text, p).st = "busy"
BY DEF Included, Busy

LEMMA ReturnedKept == \A q : Returned(q).page = q.page /\ Returned(q).st = "busy"
BY DEF Returned, Busy

LEMMA FinishedKept ==
    \A q : Finished(q).page = q.page /\ Finished(q).st = "done" /\ Finished(q).html = Result(q).text
BY DEF Finished, NoRender

(* The steps of a render under way. *)
Steps(r) ==
    \/ OpenText(r) \/ Collapsibles(r) \/ Tables(r) \/ Include(r) \/ Modules(r)
    \/ Divs(r) \/ Floats(r) \/ Spans(r) \/ Tabs(r) \/ Anchors(r)
    \/ Marks(r) \/ Boxes(r) \/ Lists(r) \/ Restore(r) \/ Close(r)

(* Every one of them is the next step of the render, and leaves all but the
   first result of its page alone. *)
Advances(r) ==
    LET q == run[r]
        a == Advance(q, source)
    IN /\ q.st = "busy" /\ a.page = q.page
       /\ run' = [run EXCEPT ![r] = a]
       /\ source' = source /\ wpPool' \subseteq {Clean}
       /\ \/ a.st = "busy" /\ first' = first
          \/ /\ a.st = "done"
             /\ first' = IF first[q.page] = <<>> THEN [first EXCEPT ![q.page] = a.html] ELSE first

LEMMA GoesAdvances ==
    ASSUME NEW r, NEW next, NEW STATE x, Goes(r, next, x), run[r].st = "busy", wpPool \subseteq {Clean},
           Advance(run[r], source) = Moved(run[r], next, x)
    PROVE  Advances(r)
<1>1. /\ run' = [run EXCEPT ![r] = Moved(run[r], next, x)]
      /\ source' = source /\ wpPool' = wpPool /\ first' = first
  BY DEF Goes, Turn
<1> QED
  BY <1>1, MovedKept DEF Advances

LEMMA CallsAdvances ==
    ASSUME NEW r, NEW STATE q, Calls(r, q), run[r].st = "busy", wpPool' \subseteq {Clean},
           q.page = run[r].page, q.st = "busy", Advance(run[r], source) = q
    PROVE  Advances(r)
<1>1. run' = [run EXCEPT ![r] = q] /\ source' = source /\ first' = first
  BY DEF Calls, Turn
<1> QED
  BY <1>1 DEF Advances

LEMMA WithinAdvances ==
    ASSUME NEW r, NEW ph, NEW open, NEW close, NEW next, Within(r, ph, open, close, next),
           wpPool \subseteq {Clean},
           Last(run[r].frames).ph = ph =>
               Advance(run[r], source) = Entering(run[r], open, close, next)
    PROVE  Advances(r)
<1>1. run[r].st = "busy" /\ Advance(run[r], source) = Entering(run[r], open, close, next)
  BY DEF Within, At
<1>2. CASE FirstOf(Here(run[r]).text, open) = 0
  <2>1. Goes(r, next, Here(run[r]))
    BY <1>2 DEF Within
  <2>2. Entering(run[r], open, close, next) = Moved(run[r], next, Here(run[r]))
    BY <1>2 DEF Entering
  <2> QED
    BY <1>1, <2>1, <2>2, GoesAdvances
<1>3. CASE FirstOf(Here(run[r]).text, open) # 0
  <2>1. Calls(r, Entered(run[r], open, close)) /\ wpPool' = wpPool
    BY <1>3 DEF Within
  <2>2. Entering(run[r], open, close, next) = Entered(run[r], open, close)
    BY <1>3 DEF Entering
  <2> QED
    BY <1>1, <2>1, <2>2, EnteredKept, CallsAdvances
<1> QED
  BY <1>2, <1>3

LEMMA IncludeAdvances ==
    ASSUME NEW r, Include(r), wpPool \subseteq {Clean} PROVE Advances(r)
<1> DEFINE q == run[r]
           x == Here(q)
           i == FirstOf(x.text, "include")
           target == x.text[i].n
<1>1. q.st = "busy" /\ Advance(q, source) = Including(q, source)
  BY DEF Include, At, Advance
<1>2. CASE i = 0
  <2>1. Goes(r, "modules", x)
    BY <1>2 DEF Include
  <2>2. Including(q, source) = Moved(q, "modules", x)
    BY <1>2 DEF Including
  <2> QED
    BY <1>1, <2>1, <2>2, GoesAdvances
<1>3. CASE i # 0 /\ (~Ctx(q).lookup \/ target \notin DOMAIN source)
  <2>1. Goes(r, "include", LeftAsItIs(x))
    BY <1>3 DEF Include
  <2>2. Including(q, source) = Moved(q, "include", LeftAsItIs(x))
    BY <1>3 DEF Including
  <2> QED
    BY <1>1, <2>1, <2>2, GoesAdvances
<1>4. CASE i # 0 /\ ~(~Ctx(q).lookup \/ target \notin DOMAIN source)
  <2>1. PICK free \in wpPool \cup {Clean} :
            wpPool' = wpPool \ {free} /\ Calls(r, Included(q, source[target], free))
    BY <1>4 DEF Include
  <2>2. free = Clean /\ wpPool' \subseteq {Clean}
    BY <2>1
  <2>3. Including(q, source) = Included(q, source[target], Clean)
    BY <1>4 DEF Including
  <2> QED
    BY <1>1, <2>1, <2>2, <2>3, IncludedKept, CallsAdvances
<1> QED
  BY <1>2, <1>3, <1>4

LEMMA RestoreAdvances ==
    ASSUME NEW r, Restore(r), wpPool \subseteq {Clean} PROVE Advances(r)
<1> DEFINE x == Here(run[r])
<1>1. run[r].st = "busy" /\ Advance(run[r], source) = Restoring(run[r])
  BY DEF Restore, At, Advance
<1>2. CASE Pass(x) # x
  <2>1. Goes(r, "restore", Pass(x)) /\ Restoring(run[r]) = Moved(run[r], "restore", Pass(x))
    BY <1>2 DEF Restore, Restoring
  <2> QED
    BY <1>1, <2>1, GoesAdvances
<1>3. CASE Pass(x) = x
  <2>1. /\ Goes(r, "close", HeadingsInline(x, run[r].step))
        /\ Restoring(run[r]) = Moved(run[r], "close", HeadingsInline(x, run[r].step))
    BY <1>3 DEF Restore, Restoring
  <2> QED
    BY <1>1, <2>1, GoesAdvances
<1> QED
  BY <1>2, <1>3

LEMMA CloseAdvances ==
    ASSUME NEW r, Close(r), wpPool \subseteq {Clean} PROVE Advances(r)
<1> DEFINE q == run[r]
<1>1. /\ q.st = "busy"
      /\ Advance(q, source) = IF Len(q.frames) = 1 THEN Finished(q) ELSE Returned(q)
      /\ run' = [run EXCEPT ![r] = IF Len(q.frames) = 1 THEN Finished(q) ELSE Returned(q)]
      /\ source' = source
      /\ wpPool' \subseteq {Clean}
  BY DEF Close, At, Advance, Turn, Put
<1>2. first' = IF Len(q.frames) = 1 /\ first[q.page] = <<>>
               THEN [first EXCEPT ![q.page] = Result(q).text] ELSE first
  BY DEF Close
<1> QED
  BY <1>1, <1>2, ReturnedKept, FinishedKept DEF Advances

LEMMA StepAdvances ==
    ASSUME NEW r, Steps(r), wpPool \subseteq {Clean} PROVE Advances(r)
<1>1. CASE OpenText(r)
  <2>1. Advance(run[r], source) = Opened(run[r])
    BY <1>1 DEF OpenText, At, Advance
  <2> QED
    BY <1>1, <2>1, OpenedKept DEF OpenText, At, Turn, Advances
<1>2. CASE Collapsibles(r)
  BY <1>2, WithinAdvances DEF Collapsibles, Advance
<1>3. CASE Tables(r)
  BY <1>3, GoesAdvances DEF Tables, At, Advance
<1>4. CASE Include(r)
  BY <1>4, IncludeAdvances
<1>5. CASE Modules(r)
  BY <1>5, GoesAdvances DEF Modules, At, Advance
<1>6. CASE Divs(r)
  BY <1>6, WithinAdvances DEF Divs, Advance
<1>7. CASE Floats(r)
  BY <1>7, WithinAdvances DEF Floats, Advance
<1>8. CASE Spans(r)
  BY <1>8, GoesAdvances DEF Spans, At, Advance
<1>9. CASE Tabs(r)
  BY <1>9, WithinAdvances DEF Tabs, Advance
<1>10. CASE Anchors(r)
  BY <1>10, WithinAdvances DEF Anchors, Advance
<1>11. CASE Marks(r)
  BY <1>11, GoesAdvances DEF Marks, At, Advance
<1>12. CASE Boxes(r)
  BY <1>12, WithinAdvances DEF Boxes, Advance
<1>13. CASE Lists(r)
  BY <1>13, GoesAdvances DEF Lists, At, Advance
<1>14. CASE Restore(r)
  BY <1>14, RestoreAdvances
<1>15. CASE Close(r)
  BY <1>15, CloseAdvances
<1> QED
  BY <1>1, <1>2, <1>3, <1>4, <1>5, <1>6, <1>7, <1>8, <1>9, <1>10, <1>11, <1>12, <1>13, <1>14, <1>15
     DEF Steps

-----------------------------------------------------------------------------
(* The invariant is kept *)

LEMMA BeginKept ==
    ASSUME Inv, NEW r \in Slots, NEW page \in DOMAIN source, RenderWikidot(r, page)
    PROVE  Inv'
<1>1. /\ run' = [run EXCEPT ![r] = Begun(page, source[page], Clean)]
      /\ wpPool' \subseteq {Clean} /\ source' = source /\ first' = first
  BY DEF Inv, RenderWikidot
<1>2. Begun(page, source[page], Clean).st = "busy" /\ Begun(page, source[page], Clean).page = page
  BY DEF Begun
<1>3. DOMAIN run' = Slots /\ DOMAIN first' = DOMAIN source'
  BY <1>1 DEF Inv
<1>4. \A s \in Slots : Started(s)'
  <2> SUFFICES ASSUME NEW s \in Slots PROVE Started(s)'
    OBVIOUS
  <2>1. CASE s = r
    <3>1. run'[s] = Begun(page, source[page], Clean)
      BY <1>1, <2>1 DEF Inv
    <3> QED
      BY <1>1, <1>2, <3>1, FirstState DEF Started
  <2>2. CASE s # r
    <3>1. run'[s] = run[s]
      BY <1>1, <2>2 DEF Inv
    <3> QED
      BY <1>1, <3>1 DEF Inv, Started
  <2> QED
    BY <2>1, <2>2
<1>5. \A pg \in DOMAIN source' : FirstOne(pg)'
  BY <1>1 DEF Inv, FirstOne
<1>6. SamePage'
  BY <1>1, <1>2 DEF Inv, SamePage, Ready
<1> QED
  BY <1>1, <1>3, <1>4, <1>5, <1>6 DEF Inv

LEMMA AdvanceKept ==
    ASSUME Inv, NEW r \in Slots, Advances(r)
    PROVE  Inv'
<1> DEFINE q == run[r]
           a == Advance(q, source)
<1>1. /\ q.st = "busy" /\ a.page = q.page
      /\ run' = [run EXCEPT ![r] = a]
      /\ source' = source /\ wpPool' \subseteq {Clean}
  BY DEF Advances
<1>2. q.page \in DOMAIN source /\ Rendered(q, q.page, source)
  <2>1. q # NoRender
    BY <1>1 DEF NoRender
  <2> QED
    BY <2>1 DEF Inv, Started
<1>3. Rendered(a, q.page, source)
  BY <1>1, <1>2, OneMore
<1>4. /\ run'[r] = a
      /\ \A s \in Slots : s # r => run'[s] = run[s]
      /\ DOMAIN run' = Slots
  BY <1>1 DEF Inv
<1>5. \/ a.st = "busy" /\ first' = first
      \/ /\ a.st = "done"
         /\ first' = IF first[q.page] = <<>> THEN [first EXCEPT ![q.page] = a.html] ELSE first
  BY DEF Advances
<1> HIDE DEF a
<1>6. \A s \in Slots : Started(s)'
  BY <1>1, <1>2, <1>3, <1>4 DEF Inv, Started
<1>7. DOMAIN first' = DOMAIN source'
  BY <1>1, <1>5 DEF Inv
<1>8. \A page \in DOMAIN source : page # q.page => first'[page] = first[page]
  BY <1>2, <1>5 DEF Inv
<1>9. CASE first'[q.page] = first[q.page] /\ a.st = "busy"
  <2>1. \A page \in DOMAIN source' : FirstOne(page)'
    BY <1>1, <1>8, <1>9 DEF Inv, FirstOne
  <2>2. SamePage'
    BY <1>1, <1>4, <1>8, <1>9 DEF Inv, SamePage, Ready, Started, NoRender
  <2> QED
    BY <1>1, <1>4, <1>6, <1>7, <2>1, <2>2 DEF Inv
<1>10. CASE a.st = "done"
  <2>1. \A s \in Slots : run[s].st = "done" /\ run[s].page = q.page => run[s].html = a.html
    BY <1>3, <1>10, SameEnd DEF Inv, Started, NoRender
  <2>2. first'[q.page] = a.html
    <3>1. CASE first[q.page] = <<>>
      BY <1>2, <1>5, <1>10, <3>1 DEF Inv
    <3>2. CASE first[q.page] # <<>>
      <4>1. PICK t : Rendered(t, q.page, source) /\ t.st = "done" /\ t.html = first[q.page]
        BY <1>2, <3>2 DEF Inv, FirstOne
      <4>2. t = a
        BY <1>3, <1>10, <4>1, SameEnd
      <4> QED
        BY <1>5, <1>10, <3>2, <4>1, <4>2
    <3> QED
      BY <3>1, <3>2
  <2>3. \A page \in DOMAIN source' : FirstOne(page)'
    BY <1>1, <1>3, <1>8, <1>10, <2>2 DEF Inv, FirstOne
  <2>4. SamePage'
    <3> SUFFICES ASSUME NEW s \in Slots, run'[s].st = "done"
                 PROVE  run'[s].html = first'[run'[s].page]
      BY DEF SamePage, Ready
    <3>1. CASE s = r
      BY <1>1, <1>4, <2>2, <3>1
    <3>2. CASE s # r
      <4>1. run'[s] = run[s] /\ run[s].page \in DOMAIN source /\ run[s].html = first[run[s].page]
        BY <1>4, <3>2 DEF Inv, SamePage, Ready, Started, NoRender
      <4> QED
        BY <1>8, <2>1, <2>2, <4>1
    <3> QED
      BY <3>1, <3>2
  <2> QED
    BY <1>1, <1>4, <1>6, <1>7, <2>3, <2>4 DEF Inv
<1> QED
  BY <1>5, <1>9, <1>10

LEMMA NextInv == Inv /\ [Next]_vars => Inv'
<1> SUFFICES ASSUME Inv, [Next]_vars PROVE Inv'
  OBVIOUS
<1>1. ASSUME NEW r \in Slots, NEW page \in DOMAIN source, RenderWikidot(r, page) PROVE Inv'
  BY <1>1, BeginKept
<1>2. ASSUME NEW r \in Slots, Steps(r) PROVE Inv'
  <2>1. Advances(r)
    BY <1>2, StepAdvances DEF Inv
  <2> QED
    BY <2>1, AdvanceKept
<1>3. CASE UNCHANGED vars
  BY <1>3 DEF vars, Inv, Started, FirstOne, SamePage, Ready
<1> QED
  BY <1>1, <1>2, <1>3 DEF Next, Steps

LEMMA Invariance == Spec => []Inv
BY InitInv, NextInv, PTL DEF Spec

(* A page comes out the same, whatever was rendered before it or is meanwhile,
   and whichever parser it was given: RenderWikidotCtx, wpGet and wpPut. *)
THEOREM PagesAreTheSame == Spec => []SamePage
<1>1. Inv => SamePage
  BY DEF Inv
<1> QED
  BY <1>1, Invariance, PTL
=============================================================================

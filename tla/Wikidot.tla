------------------------------ MODULE Wikidot ------------------------------
(***************************************************************************)
(* Rendering of wikidot pages, several at a time                           *)
(* (internal/content/parsers).  convertInternal rewrites a text in a fixed *)
(* order of phases, one construct after the other.  What is finished       *)
(* early, and what must stay verbatim, is stored as a block and leaves a   *)
(* placeholder, which a late phase replaces.  Bodies of some constructs    *)
(* are converted by a call of convertInternal within, with the same        *)
(* parser; an included page has a parser of its own.  Parsers come from a  *)
(* pool.  The table of variables of inlineOnly is a variable of the        *)
(* package.  What it makes of a variable depends on the table of that      *)
(* moment, so a variable keeps the steps that looked it up, and given says *)
(* which table they saw: the text itself is a function of the page.        *)
(*                                                                         *)
(* A text is a sequence of tokens.  Markup that encloses something is a    *)
(* pair, "[fold" and "fold]", which the regular expressions find as they   *)
(* find it in the source: an opening and the next closing after it, at any *)
(* depth.  Constructs that a phase treats alike are one token: raw stands  *)
(* for code, html and math, cell for the cells of tables, captions and     *)
(* form texts, span for everything inlineOnly is applied to in place.      *)
(***************************************************************************)
EXTENDS Naturals, Sequences, SequencesExt, FiniteSets

CONSTANTS
    Docs,        \* bound: the texts of page 1
    Target,      \* the text of page 2, which the other includes
    Slots,       \* renders that may run at the same time
    MaxRenders   \* bound: renders made

VARIABLES
    source,      \* the texts of the pages
    inlineVars,  \* the table inlineOnly reads: the page it is of, 0 for nil
    given,       \* [Slots -> [steps -> pages]], the table a step replaced variables by
    wpPool,      \* parsers nobody uses
    run,         \* [Slots -> a render]
    renders,
    first        \* [pages -> the first page rendered]: history, read by no action

vars == <<source, inlineVars, given, wpPool, run, renders, first>>

\* n: number, level (ten more with a star), page or block; by: the steps that
\* looked up a variable; of is history: the footnote a link is for, the level of
\* a heading a list should have.
Tok(k, n) == [k |-> k, n |-> n, by |-> <<>>, of |-> 0]
Has(text, k) == \E i \in DOMAIN text : text[i].k = k

Opens == {"[def", "[raw", "[fold", "[cell", "[module", "[div", "[float", "[span", "[tab", "[anchor",
          "[note", "[h", "[box", "[li"}
Closes == {"def]", "raw]", "fold]", "cell]", "module]", "div]", "float]", "span]", "tab]", "anchor]",
           "note]", "h]", "box]", "li]"}

\* wikidotParser after wpPut.
Clean == [blocks |-> <<>>, footnoteDefs |-> <<>>, footnoteSuppressed |-> FALSE,
          footnoteBlockNums |-> 0, headingSeq |-> 0, headings |-> <<>>]

\* RenderContext: the page whose table it has, and whether it has a PageLookup.
Context(vs, lookup) == [vars |-> vs, lookup |-> lookup]

Frame(text, ctx) == [text |-> text, ph |-> "open", ctx |-> ctx]
NoRender == [page |-> 0, st |-> "idle", step |-> 0, frames |-> <<>>, parsers |-> <<>>, html |-> <<>>]

Init ==
    /\ \E d \in Docs : source = <<d, Target>>
    /\ inlineVars = 0 /\ wpPool = {}
    /\ given = [r \in Slots |-> <<>>]
    /\ run = [r \in Slots |-> NoRender]
    /\ renders = 0 /\ first = <<<<>>, <<>>>>

-----------------------------------------------------------------------------
(* Rewriting. A result is a text with the parser it leaves; s is the step. *)

\* ReplaceAllStringFunc over a pair: F(p, opening, body) is what it becomes.
Pairs(x, open, close, F(_, _, _)) ==
    LET step(acc, t) ==
            CASE ~acc.in /\ t.k = open -> [acc EXCEPT !.in = TRUE, !.at = t, !.body = <<>>]
              [] acc.in /\ t.k = close ->
                   LET y == F(acc.p, acc.at, acc.body)
                   IN [acc EXCEPT !.in = FALSE, !.text = @ \o y.text, !.p = y.p]
              [] acc.in /\ t.k # close -> [acc EXCEPT !.body = Append(@, t)]
              [] OTHER -> [acc EXCEPT !.text = Append(@, t)]
        all == FoldLeft(step, [text |-> <<>>, p |-> x.p, in |-> FALSE, at |-> Tok("", 0), body |-> <<>>],
                        x.text)
    IN [text |-> all.text \o (IF all.in THEN <<all.at>> \o all.body ELSE <<>>), p |-> all.p]

\* ... and over a single token.
Each(x, k, F(_, _)) ==
    FoldLeft(LAMBDA acc, t : IF t.k = k
                             THEN LET y == F(acc.p, t)
                                  IN [text |-> acc.text \o y.text, p |-> y.p]
                             ELSE [acc EXCEPT !.text = Append(@, t)],
             [text |-> <<>>, p |-> x.p], x.text)

storeBlock(p, html) ==
    [text |-> <<Tok("block", Len(p.blocks) + 1)>>, p |-> [p EXCEPT !.blocks = Append(@, html)]]

\* replaceVars: by the table of the parser, for good.
ReplaceVars(text, s) ==
    [i \in DOMAIN text |-> IF text[i].k = "var" THEN [text[i] EXCEPT !.k = "val", !.by = Append(@, s)]
                           ELSE text[i]]

\* inlineOnly: variables by the table of the package, if it has one; a number in
\* brackets is a link whether there is a footnote or not.
inlineOnly(text, s) ==
    LET one(t) == CASE t.k = "var" -> [t EXCEPT !.by = Append(@, s)]
                    [] t.k = "ref" -> [t EXCEPT !.k = "link to note"]
                    [] OTHER -> t
    IN [i \in DOMAIN text |-> one(text[i])]

\* collectFootnoteDefs: the first of a number wins; the line becomes an empty block.
collectFootnoteDefs(x) ==
    Pairs(x, "[def", "def]", LAMBDA p, open, body :
        storeBlock(IF open.n \in DOMAIN p.footnoteDefs THEN p
                   ELSE [p EXCEPT !.footnoteDefs = @ @@ (open.n :> body)], <<>>))

\* Phases 0.55 to 1c: literals and code, html and math.
Verbatim(x) ==
    LET lit == Each(x, "lit", LAMBDA p, t : storeBlock(p, <<Tok("literal", t.n)>>))
    IN Pairs(lit, "[raw", "raw]", LAMBDA p, open, body : storeBlock(p, body))

\* Phase 1e to 1f.6.
Cells(x, s) == Pairs(x, "[cell", "cell]", LAMBDA p, open, body : storeBlock(p, inlineOnly(body, s)))

\* renderModules: a row of a list of pages, or an error without a PageLookup.
renderModules(x, lookup, s) ==
    Pairs(x, "[module", "module]", LAMBDA p, open, body :
        storeBlock(p, IF lookup THEN inlineOnly(body, s) ELSE <<Tok("error", 0)>>))

InPlace(x, open, close, s) ==
    Pairs(x, open, close, LAMBDA p, o, body : [text |-> inlineOnly(body, s), p |-> p])

\* Phase 1p: the markers of tables of contents.
TOCMarks(x) == Each(x, "toc", LAMBDA p, t : storeBlock(p, <<Tok("toc here", 0)>>))

\* Mutant: the blocks are numbered from one, whatever definitions there are.
NumberFromOne(p) == p.footnoteBlockNums + 1

\* Phase 1p.5: the next number no definition has.
NextNumber(p) ==
    CHOOSE n \in p.footnoteBlockNums + 1 .. p.footnoteBlockNums + 1 + Cardinality(DOMAIN p.footnoteDefs) :
        /\ n \notin DOMAIN p.footnoteDefs
        /\ \A m \in p.footnoteBlockNums + 1 .. n - 1 : m \in DOMAIN p.footnoteDefs

Footnotes(x) ==
    Pairs(x, "[note", "note]", LAMBDA p, open, body :
        LET n == NextNumber(p)
        IN [text |-> <<[Tok("link to note", n) EXCEPT !.of = open.n]>>,
            p |-> [p EXCEPT !.footnoteBlockNums = n,
                            !.footnoteDefs = (n :> body) @@ @]])

\* renderFootnoteSection.
FootnoteSection(p, s) ==
    LET item(n) == <<Tok("(note", n)>> \o inlineOnly(p.footnoteDefs[n], s) \o <<Tok("note)", n)>>
    IN FoldLeft(LAMBDA acc, n : acc \o item(n), <<>>,
                SetToSortSeq(DOMAIN p.footnoteDefs, LAMBDA a, b : a < b))

\* Phase 1p.6: [[footnoteblock]].
FootnoteBlocks(x, s) ==
    Each(x, "notes", LAMBDA p, t :
        [text |-> FootnoteSection(p, s), p |-> [p EXCEPT !.footnoteSuppressed = TRUE]])

\* Phase 2d: a number nobody defined is not a link.
References(x) ==
    Each(x, "ref", LAMBDA p, t :
        [text |-> <<[t EXCEPT !.k = IF t.n \in DOMAIN p.footnoteDefs THEN "link to note"
                                    ELSE "unresolved"]>>, p |-> p])

\* emitHeadingUnified.
emitHeading(p, level, star, text) ==
    LET seq == p.headingSeq + 1
    IN [text |-> <<[Tok("(h", seq) EXCEPT !.of = IF star THEN 0 ELSE level]>> \o text \o <<Tok("h)", seq)>>,
        p |-> [p EXCEPT !.headingSeq = seq,
                        !.headings = Append(@, [id |-> seq, level |-> level, skip |-> star, text |-> text])]]

\* Phase 4: one pass over both forms.
Headings(x) ==
    Pairs(x, "[h", "h]", LAMBDA p, open, body : emitHeading(p, open.n % 10, open.n > 10, body))

Restored(text, blocks) ==
    FlattenSeq([i \in DOMAIN text |-> IF text[i].k = "block" /\ text[i].n \in DOMAIN blocks
                                      THEN blocks[text[i].n] ELSE <<text[i]>>])

\* Mutant: the captured headings are forgotten.
TextOnly(x) == [x EXCEPT !.text = Restored(@, x.p.blocks)]

\* Phase 10, a pass: the text, and the headings captured before.
Pass(x) ==
    [text |-> Restored(x.text, x.p.blocks),
     p |-> [x.p EXCEPT !.headings =
              [i \in DOMAIN @ |-> [@[i] EXCEPT !.text = Restored(@, x.p.blocks)]]]]

\* Phase 10b.
HeadingsInline(x, s) ==
    [x EXCEPT !.p.headings = [i \in DOMAIN @ |-> [@[i] EXCEPT !.text = inlineOnly(@, s)]]]

\* buildWikidotTOCTree: an entry hangs below the last one of a smaller level.
TOCEntries(heads) ==
    FoldLeft(LAMBDA acc, h :
        LET path == Append(SelectSeq(acc.path, LAMBDA l : l < h.level), h.level)
        IN [path |-> path,
            text |-> acc.text \o <<Tok("depth", Len(path)), Tok("entry", h.id)>> \o h.text],
        [path |-> <<>>, text |-> <<>>], heads).text

\* Mutant: headings of level one are never listed.
TocFromTwo(p) == SelectSeq(p.headings, LAMBDA h : ~h.skip /\ h.level >= 2)

\* renderTOC: from level two, unless there are headings of level one.
TocHeadings(p) ==
    LET lowest(h) == ~h.skip /\ h.level < 2
        from == IF \E i \in DOMAIN p.headings : lowest(p.headings[i]) THEN 1 ELSE 2
    IN SelectSeq(p.headings, LAMBDA h : ~h.skip /\ h.level >= from)

\* renderTOC: every marker gets the list of the headings collected so far.
renderTOC(x) ==
    Each(x, "toc here", LAMBDA p, t :
        [text |-> <<Tok("(toc", 0)>> \o TOCEntries(TocHeadings(p)) \o <<Tok("toc)", 0)>>, p |-> p])

\* renderFootnoteList, for the outermost text only.
renderFootnoteList(x, outermost, s) ==
    IF ~outermost \/ x.p.footnoteSuppressed THEN x
    ELSE [x EXCEPT !.text = @ \o FootnoteSection(x.p, s)]

-----------------------------------------------------------------------------
(* A render: a stack of calls of convertInternal; one of the parsers, for the
   page and the pages it includes. *)

Here(q) == [text |-> Last(q.frames).text, p |-> Last(q.parsers)]
Ctx(q) == Last(q.frames).ctx
At(r, ph) == run[r].st = "busy" /\ Last(run[r].frames).ph = ph

Busy(q, frames, parsers) ==
    [page |-> q.page, st |-> "busy", step |-> q.step + 1,
     frames |-> frames, parsers |-> parsers, html |-> <<>>]

\* The call on top goes on to the next phase with the text and parser x.
Moved(q, next, x) ==
    Busy(q, Append(Front(q.frames), [text |-> x.text, ph |-> next, ctx |-> Ctx(q)]),
         Append(Front(q.parsers), x.p))

\* Whether step s of q looked a variable up, in a text that is kept.
LookedUp(q, s) ==
    LET texts == {q.html} \cup {f.text : f \in ToSet(q.frames)}
                 \cup UNION {ToSet(p.blocks) \cup {h.text : h \in ToSet(p.headings)} : p \in ToSet(q.parsers)}
    IN \E t \in texts : \E i \in DOMAIN t : Contains(t[i].by, s)

\* The render comes to q in a step that replaces variables by the table; 0 is nil.
Turn(r, q, table) ==
    LET s == run[r].step
    IN /\ run' = [run EXCEPT ![r] = q]
       /\ given' = IF table = 0 \/ ~LookedUp(q, s) THEN given
                   ELSE [given EXCEPT ![r] = [m \in DOMAIN @ \cup {s} |-> IF m = s THEN table ELSE @[m]]]

Goes(r, next, x) ==
    /\ Turn(r, Moved(run[r], next, x), inlineVars)
    /\ UNCHANGED <<source, inlineVars, wpPool, renders, first>>

\* A call begins with setInlineVars.
Calls(r, q) ==
    /\ Turn(r, q, 0)
    /\ inlineVars' = Ctx(run[r]).vars
    /\ UNCHANGED <<source, renders, first>>

\* The parser and the first call of a page.
Begun(page, text, p) ==
    [page |-> page, st |-> "busy", step |-> 1,
     frames |-> <<Frame(text, Context(page, TRUE))>>, parsers |-> <<p>>, html |-> <<>>]

\* wpGet: any parser of the pool, which may have lost it, or a new one.
\* RenderWikidotCtx: setInlineVars is the first thing convertInternal does.
RenderWikidot(r, page) ==
    /\ run[r].st \in {"idle", "done"} /\ renders < MaxRenders
    /\ source[page] # <<>>
    /\ renders' = renders + 1
    /\ \E p \in wpPool \cup {Clean} :
         /\ wpPool' = wpPool \ {p}
         /\ run' = [run EXCEPT ![r] = Begun(page, source[page], p)]
    /\ given' = [given EXCEPT ![r] = <<>>]
    /\ inlineVars' = page
    /\ UNCHANGED <<source, first>>

FirstOf(text, k) == SelectInSeq(text, LAMBDA t : t.k = k)

\* Where the construct that opens at i ends: a div at the close that balances
\* it, any other at the next close.
CloseOf(text, i, open, close) ==
    LET count(k, j) == Cardinality({m \in i .. j : text[m].k = k})
    IN CHOOSE j \in i .. Len(text) :
         /\ text[j].k = close /\ (open = "[div" => count(open, j) = count(close, j))
         /\ \A m \in i .. j - 1 : text[m].k = close => open = "[div" /\ count(open, m) # count(close, m)

\* convertNoFootnote with the body of the first construct that is left; its
\* result goes where the hole is.
Entered(q, open, close) ==
    LET top == Last(q.frames)
        i == FirstOf(top.text, open)
        j == CloseOf(top.text, i, open, close)
        holed == SubSeq(top.text, 1, i - 1) \o <<Tok("hole", 0)>> \o SubSeq(top.text, j + 1, Len(top.text))
    IN Busy(q, Append(Append(Front(q.frames), [top EXCEPT !.text = holed]),
                      Frame(SubSeq(top.text, i + 1, j - 1), Ctx(q))),
            q.parsers)

Within(r, ph, open, close, next) ==
    /\ At(r, ph)
    /\ IF FirstOf(Here(run[r]).text, open) = 0 THEN Goes(r, next, Here(run[r]))
       ELSE Calls(r, Entered(run[r], open, close)) /\ UNCHANGED wpPool

\* What becomes of the result of a call: the fold, the div, the float and the
\* include are stored, the anchor and the tab go on as text, and so does the
\* box, whose call comes late.
Embedded(ph, p, html) ==
    CASE ph \in {"fold", "include", "div", "float"} -> storeBlock(p, html)
      [] ph = "anchor" -> LET y == storeBlock(p, <<Tok("anchor", 0)>>)
                          IN [text |-> y.text \o html, p |-> y.p]
      [] ph \in {"tab", "box"} -> [text |-> html, p |-> p]

\* Phases 0 to 1c.
Opened(q) ==
    LET x == collectFootnoteDefs(Here(q))
    IN Moved(q, "fold", Verbatim([x EXCEPT !.text = ReplaceVars(@, q.step)]))
OpenText(r) ==
    /\ At(r, "open") /\ Turn(r, Opened(run[r]), Ctx(run[r]).vars)
    /\ UNCHANGED <<source, inlineVars, wpPool, renders, first>>

Collapsibles(r) == Within(r, "fold", "[fold", "fold]", "cells")
Tables(r) == At(r, "cells") /\ Goes(r, "include", Cells(Here(run[r]), run[r].step))

\* Phase 1g: a page that is not there, or one that an included page includes,
\* leaves the source as it is.
Included(q, text, p) ==
    LET top == Last(q.frames) i == FirstOf(top.text, "include")
    IN Busy(q, Append(Append(Front(q.frames), [top EXCEPT !.text[i] = Tok("hole", 0)]),
                      Frame(text, Context(Ctx(q).vars, FALSE))),
            Append(q.parsers, p))

LeftAsItIs(x) == [x EXCEPT !.text[FirstOf(x.text, "include")].k = "left as it is"]

Include(r) ==
    LET x == Here(run[r])
        i == FirstOf(x.text, "include")
        target == x.text[i].n
    IN /\ At(r, "include")
       /\ IF i = 0 THEN Goes(r, "modules", x)
          ELSE IF ~Ctx(run[r]).lookup \/ target \notin DOMAIN source THEN Goes(r, "include", LeftAsItIs(x))
          ELSE \E free \in wpPool \cup {Clean} :
                 /\ wpPool' = wpPool \ {free}
                 /\ Calls(r, Included(run[r], source[target], free))

Modules(r) == At(r, "modules") /\ Goes(r, "div", renderModules(Here(run[r]), Ctx(run[r]).lookup, run[r].step))
Divs(r) == Within(r, "div", "[div", "div]", "float")
Floats(r) == Within(r, "float", "[float", "float]", "spans")
Spans(r) == At(r, "spans") /\ Goes(r, "tab", InPlace(Here(run[r]), "[span", "span]", run[r].step))
Tabs(r) == Within(r, "tab", "[tab", "tab]", "anchor")
Anchors(r) == Within(r, "anchor", "[anchor", "anchor]", "marks")

\* Phases 1p to 4.
Marked(x, s) == Headings(References(FootnoteBlocks(Footnotes(TOCMarks(x)), s)))
Marks(r) == At(r, "marks") /\ Goes(r, "box", Marked(Here(run[r]), run[r].step))
Boxes(r) == Within(r, "box", "[box", "box]", "lists")
Lists(r) == At(r, "lists") /\ Goes(r, "restore", InPlace(Here(run[r]), "[li", "li]", run[r].step))

\* Phase 10: passes until one changes nothing.
Restore(r) ==
    LET x == Here(run[r])
    IN /\ At(r, "restore")
       /\ IF Pass(x) # x THEN Goes(r, "restore", Pass(x))
          ELSE Goes(r, "close", HeadingsInline(x, run[r].step))

\* Mutant: the parser goes back with the headings it collected.
PutAsItIs(p) == [Clean EXCEPT !.headings = p.headings]

\* wpPut.
Put(p) == Clean

\* The call on top is the one of RenderWikidotCtx.
Own(q) == Len(q.frames) = 1 \/ q.frames[Len(q.frames) - 1].ph = "include"

\* Phases 11 to 13.
Result(q) == renderFootnoteList(renderTOC(Here(q)), Own(q), q.step)

\* The call within returns its result to the one that made it.
Returned(q) ==
    LET caller == q.frames[Len(q.frames) - 1]
        parsers == IF Own(q) THEN Front(q.parsers) ELSE Append(Front(q.parsers), Result(q).p)
        y == Embedded(caller.ph, Last(parsers), Result(q).text)
        i == FirstOf(caller.text, "hole")
    IN Busy(q, Append(SubSeq(q.frames, 1, Len(q.frames) - 2), [caller EXCEPT !.text =
                        SubSeq(@, 1, i - 1) \o y.text \o SubSeq(@, i + 1, Len(@))]),
            Append(Front(parsers), y.p))

Finished(q) == [NoRender EXCEPT !.page = q.page, !.st = "done", !.html = Result(q).text]

\* clearInlineVars and, for a page, wpPut.
Close(r) ==
    LET q == run[r]
        last == Len(q.frames) = 1
    IN /\ At(r, "close")
       /\ Turn(r, IF last THEN Finished(q) ELSE Returned(q), inlineVars)
       /\ inlineVars' = 0
       /\ wpPool' = IF Own(q) THEN wpPool \cup {Put(Result(q).p)} ELSE wpPool
       /\ first' = IF last /\ first[q.page] = <<>> THEN [first EXCEPT ![q.page] = Result(q).text] ELSE first
       /\ UNCHANGED <<source, renders>>

Next ==
    \E r \in Slots :
        \/ \E page \in DOMAIN source : RenderWikidot(r, page)
        \/ OpenText(r) \/ Collapsibles(r) \/ Tables(r) \/ Include(r) \/ Modules(r)
        \/ Divs(r) \/ Floats(r) \/ Spans(r) \/ Tabs(r) \/ Anchors(r)
        \/ Marks(r) \/ Boxes(r) \/ Lists(r) \/ Restore(r) \/ Close(r)

Spec == Init /\ [][Next]_vars

-----------------------------------------------------------------------------

Ready(r) == run[r].st = "done"
Src(r) == source[run[r].page]

Outside(text, i) ==
    Cardinality({j \in 1 .. i : text[j].k \in Opens}) = Cardinality({j \in 1 .. i : text[j].k \in Closes})

Between(text, open, close, i) ==
    \E a \in 1 .. i : text[a].k = open /\ \A b \in a .. i : text[b].k # close

\* Every placeholder and every marker is replaced before the page is answered,
\* however deep the construct that left it: but for what the text of a footnote
\* holds, whose list is put together after the replacement.
NothingLeaks ==
    \A r \in Slots : Ready(r) =>
        \A i \in DOMAIN run[r].html :
            run[r].html[i].k \in {"block", "hole", "toc here"} => Between(run[r].html, "(note", "note)", i)

\* The list of footnotes in its usual place, or placed once by the page itself.
OneList(text) ==
    /\ ~Has(text, "include")
    /\ Cardinality({i \in DOMAIN text : text[i].k = "notes"}) <= 1
    /\ \A i \in DOMAIN text : text[i].k = "notes" => Outside(text, i)

\* The link a footnote leaves in the text leads to that footnote, and to one
\* entry only, whichever calls number footnotes and whatever numbers the page
\* has definitions for; and a number the page defines leads to its definition.
NotesFound ==
    \A r \in Slots : Ready(r) /\ OneList(Src(r)) =>
        LET html == run[r].html
        IN /\ \A i \in DOMAIN html : html[i].k = "link to note" /\ html[i].of # 0 =>
                LET to == {j \in DOMAIN html : html[j].k = "(note" /\ html[j].n = html[i].n}
                IN Cardinality(to) = 1 /\ \A j \in to : html[j + 1] = Tok("word", html[i].of)
           /\ \A i \in DOMAIN html : html[i].k = "(note" /\ Tok("[def", html[i].n) \in ToSet(Src(r)) =>
                html[i + 1] = Src(r)[1 + SelectInSeq(Src(r), LAMBDA t : t = Tok("[def", html[i].n))]

\* A table of contents outside every construct lists each heading of the page
\* once, by an id no other heading has, and in the order of the page unless
\* headings are inside constructs, which are converted first.
TocComplete ==
    \A r \in Slots : Ready(r) /\ ~Has(Src(r), "include") =>
        LET html == run[r].html
            ids(keep(_)) == [i \in 1 .. Len(SelectSeq(html, keep)) |-> SelectSeq(html, keep)[i].n]
            all == ids(LAMBDA t : t.k = "(h")
            due == ids(LAMBDA t : t.k = "(h" /\ t.of >= 1)
            listed(i) == LET j == CHOOSE j \in i .. Len(html) :
                                    html[j].k = "toc)" /\ \A m \in i .. j - 1 : html[m].k # "toc)"
                             toc == SelectSeq(SubSeq(html, i, j), LAMBDA t : t.k = "entry")
                         IN [m \in DOMAIN toc |-> toc[m].n]
            flat == \A i \in DOMAIN Src(r) : Src(r)[i].k = "[h" => Outside(Src(r), i - 1)
        IN /\ IsInjective(all)
           /\ (\E i \in DOMAIN Src(r) : Src(r)[i].k = "toc" /\ Outside(Src(r), i)) =>
                \E i \in DOMAIN html :
                    /\ html[i].k = "(toc" /\ IsInjective(listed(i))
                    /\ ToSet(listed(i)) = ToSet(due)
                    /\ flat => listed(i) = due

\* A page comes out the same whatever else is rendered before or meanwhile,
\* with whichever parser: but for the tables its variables are replaced by.
SamePage == \A r \in Slots : Ready(r) => run[r].html = first[run[r].page]

\* The m-th lookup of token t is the one that found a table.
Replaced(r, t, m) ==
    t.by[m] \in DOMAIN given[r] /\ \A l \in 1 .. m - 1 : t.by[l] \notin DOMAIN given[r]

\* wikidot_main.go:951-954: the table of variables is per render, "concurrent
\* renders don't share state".
OwnVars ==
    \A r \in Slots : Ready(r) =>
        \A i \in DOMAIN run[r].html : \A m \in DOMAIN run[r].html[i].by :
            Replaced(r, run[r].html[i], m) => given[r][run[r].html[i].by[m]] = run[r].page
=============================================================================

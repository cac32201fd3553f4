------------------------------ MODULE Community ------------------------------
(***************************************************************************)
(* What readers add to the wiki, and what reaches the pages they see:      *)
(* discussions and replies, comments, ratings                              *)
(* (internal/api/{discussions,comments,ratings}.go over internal/content), *)
(* the purges of the frontends after these and after changes of articles,  *)
(* and the ETag of an article (api/articles.go).                           *)
(*                                                                         *)
(* A request occupies a slot; each of its SQL statements is a step.  Rows  *)
(* are known by their AUTO_INCREMENT id, pages by their slug, so that a    *)
(* row deleted and made again under the same slug is another row.  Texts   *)
(* are left out, and so is the name of the author except where it decides. *)
(***************************************************************************)
EXTENDS Frontends, FiniteSets

CONSTANTS
    Articles,     \* slugs of articles; each is a page and may include others
    NoPage,
    Titles,       \* slugs made of the titles of discussions
    Users,        \* who is logged in
    Admins,       \* those of them that are administrators
    Slots,
    MaxRequests,  \* bound: requests made and typst compiles done
    MaxTime,      \* bound: seconds
    Calls         \* bound: the kinds of request made

ASSUME CommunityAssumption ==
    /\ Pages = Articles /\ NoPage \notin Articles
    /\ Titles # {} /\ Users # {} /\ Admins \subseteq Users
    /\ IsFiniteSet(Articles) /\ IsFiniteSet(Slots)
    /\ MaxRequests \in Nat /\ MaxTime \in Nat \ {0}

VARIABLES
    now,
    articles,    \* [Articles -> [id, rev, at]]: at is updated_at; id 0 when there is none
    comments,    \* set of [article: id, user]: who has remarked on what
    ratings,     \* set of [article: id, user]: the votes; the score is left out
    threads,     \* set of discussions [id, slug, by, count]
    replies,     \* [id of the discussion -> replies it has]
    ids,         \* rows inserted so far, of articles and discussions alike
    req,         \* [Slots -> request]
    requests,    \* requests made so far
    reader,      \* [Articles -> [tag, rev]]: a browser's copy of an answer; external
    \* history, read by no action
    uncounted,   \* [id -> replies whose UPDATE of reply_count failed]
    hurried      \* articles whose text changed twice within a second

tables == <<articles, comments, ratings, threads, replies, ids>>
rest == <<now, tables, req, requests, reader, uncounted, hurried>>
vars == <<shown, frontends, rest>>

MaxIds == MaxRequests + Cardinality(Articles)
Ids == 1 .. MaxIds
NoArticle == [id |-> 0, rev |-> 0, at |-> 0]
Slugs == [title : Titles, at : 0 .. MaxTime]

AnyTitle == CHOOSE t \in Titles : TRUE
AnyUser == CHOOSE u \in Users : TRUE
Free == [op |-> "", st |-> "free", a |-> NoPage, t |-> [title |-> AnyTitle, at |-> 0],
         u |-> AnyUser, id |-> 0, seen |-> 0]
OfArticle == {"comment", "rate", "unrate", "update", "restore", "delete"}
Saves == {"create", "update", "restore"}
Ops == OfArticle \cup {"", "create", "open", "reply", "close"}
Request == [op : Ops, st : {"free", "write", "read back", "render", "count", "purge"}, a : Pages \cup {NoPage},
            t : Slugs, u : Users, id : 0 .. MaxIds, seen : Nat]

TypeOK ==
    /\ FrontendsTypeOK
    /\ now \in 1 .. MaxTime
    /\ articles \in [Articles -> [id : {0} \cup Ids, rev : Nat, at : 0 .. MaxTime]]
    /\ comments \in SUBSET [article : Ids, user : Users]
    /\ ratings \in SUBSET [article : Ids, user : Users]
    /\ threads \in SUBSET [id : Ids, slug : Slugs, by : Users, count : Nat]
    /\ replies \in [Ids -> Nat]
    /\ ids \in 0 .. MaxIds
    /\ req \in [Slots -> Request] /\ requests \in 0 .. MaxRequests
    /\ reader \in [Articles -> [tag : Nat \X (0 .. MaxTime), rev : Nat]]
    /\ uncounted \in [Ids -> Nat] /\ hurried \subseteq Articles

\* Every article is there, with a text of its own.
Init ==
    /\ FrontendsInit
    /\ now = 1
    /\ \E f \in [Articles -> 1 .. Cardinality(Articles)] :
         /\ \A a, b \in Articles : a # b => f[a] # f[b]
         /\ articles = [a \in Articles |-> [id |-> f[a], rev |-> 1, at |-> 1]]
    /\ ids = Cardinality(Articles)
    /\ comments = {} /\ ratings = {} /\ threads = {}
    /\ replies = [i \in Ids |-> 0] /\ uncounted = [i \in Ids |-> 0]
    /\ req = [r \in Slots |-> Free] /\ requests = 0
    /\ reader = [a \in Articles |-> [tag |-> <<0, 0>>, rev |-> 0]]
    /\ hurried = {}

Exists(a) == articles[a].id # 0
ArticleThere(id) == \E a \in Articles : articles[a].id = id
ThreadThere(id) == \E d \in threads : d.id = id

Arrive(r, q) ==
    /\ req[r].st = "free" /\ requests < MaxRequests /\ q.op \in Calls
    /\ req' = [req EXCEPT ![r] = q]
    /\ requests' = requests + 1
    /\ UNCHANGED <<shown, frontends, now, tables, reader, uncounted, hurried>>

Step(r, q) == req' = [req EXCEPT ![r] = q] /\ UNCHANGED <<now, requests, reader>>
Done(r) == Step(r, Free)

-----------------------------------------------------------------------------
(* Comments and ratings. *)

\* addComment, addLineComment, setRating, deleteRating: requireArticleID, then the text.
Remark(r, op, a, u) ==
    /\ op \in {"comment", "rate", "unrate"} /\ Exists(a)
    /\ Arrive(r, [Free EXCEPT !.op = op, !.st = "write", !.a = a, !.u = u,
                              !.id = articles[a].id])

\* Mutant: no foreign key.
WriteCommentAnyway(r) ==
    LET q == req[r]
    IN /\ q.op = "comment" /\ q.st = "write"
       /\ comments' = comments \cup {[article |-> q.id, user |-> q.u]}
       /\ Changed(q.a) /\ Step(r, [q EXCEPT !.st = "read back"])
       /\ UNCHANGED <<frontends, articles, ratings, threads, replies, ids, uncounted, hurried>>

\* INSERT INTO comments, which the foreign key refuses when the article is gone.
WriteComment(r) ==
    LET q == req[r]
    IN /\ q.op = "comment" /\ q.st = "write"
       /\ IF ArticleThere(q.id)
          THEN /\ comments' = comments \cup {[article |-> q.id, user |-> q.u]}
               /\ Changed(q.a) /\ Step(r, [q EXCEPT !.st = "read back"])
          ELSE Done(r) /\ UNCHANGED <<shown, comments>>
       /\ UNCHANGED <<frontends, articles, ratings, threads, replies, ids, uncounted, hurried>>

Vote(q) == [article |-> q.id, user |-> q.u]

\* INSERT ... ON DUPLICATE KEY UPDATE: one vote per user and article.
WriteRating(r) ==
    LET q == req[r]
    IN /\ q.op = "rate" /\ q.st = "write"
       /\ IF ArticleThere(q.id)
          THEN /\ ratings' = ratings \cup {Vote(q)}
               /\ Changed(q.a) /\ Step(r, [q EXCEPT !.st = "read back"])
          ELSE Done(r) /\ UNCHANGED <<shown, ratings>>
       /\ UNCHANGED <<frontends, articles, comments, threads, replies, ids, uncounted, hurried>>

\* A vote that was not there is a 404 and no purge.
DeleteRating(r) ==
    LET q == req[r]
    IN /\ q.op = "unrate" /\ q.st = "write"
       /\ ratings' = ratings \ {Vote(q)}
       /\ IF Vote(q) \in ratings THEN Changed(q.a) /\ Step(r, [q EXCEPT !.st = "purge"])
          ELSE Done(r) /\ UNCHANGED shown
       /\ UNCHANGED <<frontends, articles, comments, threads, replies, ids, uncounted, hurried>>

\* The new comment, the summary or the article is read for the answer; when that
\* fails (the client has gone, the row has) the handler stops with a 500 and purges
\* nothing, although what it wrote is committed.
ReadBack(r) ==
    LET q == req[r]
    IN /\ q.st = "read back"
       /\ \/ /\ q.op = "comment" => ArticleThere(q.id)
             /\ q.op \in Saves => Exists(q.a)
             /\ Step(r, [q EXCEPT !.st = IF q.op \in Saves THEN "render" ELSE "purge"])
             /\ UNCHANGED frontends
          \/ Done(r) /\ Unannounced(q.a)
       /\ UNCHANGED <<shown, tables, uncounted, hurried>>

\* revalidateFrontend with the article's page (and for a change of the article
\* itself the lists it is in, which go the same way).
Purge(r) ==
    LET q == req[r]
    IN /\ q.st = "purge"
       /\ Revalidate(q.a)
       /\ Done(r)
       /\ UNCHANGED <<shown, tables, uncounted, hurried>>

-----------------------------------------------------------------------------
(* Articles, as far as their pages and their ETag go. *)

\* The row is written: updated_at is of this second, whatever the statement sets.
Written(a, rev) ==
    /\ articles' = [articles EXCEPT ![a].rev = rev, ![a].at = now]
    /\ hurried' = IF articles[a].at = now /\ rev # articles[a].rev
                  THEN hurried \cup {a} ELSE hurried
    /\ UNCHANGED <<comments, ratings, threads, replies, ids, uncounted>>

Edit(r, op, a) ==
    /\ op \in {"update", "restore", "delete"} /\ Exists(a)
    /\ Arrive(r, [Free EXCEPT !.op = op, !.st = "write", !.a = a, !.id = articles[a].id])

\* updateArticle and restoreRevision look the slug up and commit.
WriteText(r) ==
    LET q == req[r]
    IN /\ q.op \in {"update", "restore"} /\ q.st = "write"
       /\ IF ~Exists(q.a)
          THEN Done(r) /\ UNCHANGED <<shown, tables, uncounted, hurried>>
          ELSE /\ Written(q.a, articles[q.a].rev + 1) /\ Changed(q.a)
               /\ Step(r, [q EXCEPT !.st = "read back", !.id = articles[q.a].id])
       /\ UNCHANGED frontends

\* Comments and votes go with the article.
DeleteArticle(r) ==
    LET q == req[r] id == articles[q.a].id
    IN /\ q.op = "delete" /\ q.st = "write"
       /\ IF id = 0 THEN Done(r) /\ UNCHANGED <<shown, articles, comments, ratings>>
          ELSE /\ articles' = [articles EXCEPT ![q.a] = NoArticle]
               /\ comments' = {c \in comments : c.article # id}
               /\ ratings' = {v \in ratings : v.article # id}
               /\ Changed(q.a) /\ Step(r, [q EXCEPT !.st = "render"])
       /\ hurried' = hurried \ {q.a}
       /\ UNCHANGED <<frontends, threads, replies, ids, uncounted>>

\* createArticle: one transaction; the unique index refuses a second one.
CreateArticle(r, a) ==
    /\ req[r].st = "free" /\ requests < MaxRequests /\ "create" \in Calls
    /\ ~Exists(a)
    /\ ids' = ids + 1 /\ requests' = requests + 1
    /\ articles' = [articles EXCEPT ![a] = [id |-> ids', rev |-> requests' + 1, at |-> now]]
    /\ Changed(a)
    /\ req' = [req EXCEPT ![r] = [Free EXCEPT !.op = "create", !.st = "read back", !.a = a, !.id = ids']]
    /\ UNCHANGED <<frontends, now, comments, ratings, threads, replies, reader, uncounted, hurried>>

\* Articles rendered anew: each is saved by an UPDATE of its row like any other.
Rendered(D) ==
    /\ shown' = [a \in Pages |-> IF a \in D THEN shown[a] + 1 ELSE shown[a]]
    /\ articles' = [a \in Articles |->
                       IF a \in D THEN [articles[a] EXCEPT !.at = now] ELSE articles[a]]
    /\ UNCHANGED <<comments, ratings, threads, replies, ids, uncounted, hurried>>

\* No frontend is told that these have changed.
Untold(D) == missed' = missed \cup (Clients \X D) /\ UNCHANGED <<copy, fetch, purges>>

\* What may be rendered after the commit of q: its article, if its text has changed,
\* and those that include it; nothing includes a new one.
RenderedFor(q) ==
    {D \in SUBSET {a \in Articles : Exists(a)} :
        /\ q.op = "create" => D \subseteq {q.a}
        /\ q.a \in D => articles[q.a].id = q.id}

\* Frontends will be told of the article that was written and of none that includes
\* it, and of a restore not at all.
RenderAfter(q) ==
    \E D \in RenderedFor(q) :
       /\ Rendered(D)
       /\ Untold(IF q.op = "restore" THEN D \cup {q.a} ELSE D \ {q.a})

\* Mutant: every change of an article ends without a purge.
RenderAndEnd(r) == req[r].st = "render" /\ RenderAfter(req[r]) /\ Done(r)

Render(r) ==
    LET q == req[r]
    IN /\ q.st = "render" /\ RenderAfter(q)
       /\ IF q.op = "restore" THEN Done(r) ELSE Step(r, [q EXCEPT !.st = "purge"])

\* The hook of a typst compile: what was compiled and what includes it is saved.
Compiled ==
    /\ requests < MaxRequests /\ "compile" \in Calls
    /\ \E D \in SUBSET {a \in Articles : Exists(a)} : Rendered(D) /\ Untold(D)
    /\ requests' = requests + 1
    /\ UNCHANGED <<now, req, reader>>

\* A page rendered for a reader is saved: what the API answers stays the same.
SaveRendered(a) ==
    /\ "render" \in Calls /\ Exists(a) /\ articles[a].at # now
    /\ Written(a, articles[a].rev)
    /\ UNCHANGED <<shown, frontends, now, req, requests, reader>>

\* Mutant: the ETag is the second alone.
TagOfTime(a) == <<1, articles[a].at>>

ETag(a) == <<articles[a].id, articles[a].at>>

\* getArticle: a 304 leaves the browser what it has.
GetArticle(a) ==
    /\ Exists(a) /\ "get" \in Calls
    /\ reader[a].tag # ETag(a)
    /\ reader' = [reader EXCEPT ![a] = [tag |-> ETag(a), rev |-> articles[a].rev]]
    /\ UNCHANGED <<shown, frontends, now, tables, req, requests, uncounted, hurried>>

-----------------------------------------------------------------------------
(* Discussions. *)

\* CreateDiscussionCtx: if the slug is taken the second is added to it.
CreateDiscussion(r, t, u) ==
    LET slug == [title |-> t, at |-> IF \E d \in threads : d.slug = [title |-> t, at |-> 0]
                                     THEN now ELSE 0]
    IN Arrive(r, [Free EXCEPT !.op = "open", !.st = "write", !.t = slug, !.u = u])

\* The unique index may still refuse it.
InsertDiscussion(r) ==
    LET q == req[r]
    IN /\ q.op = "open" /\ q.st = "write"
       /\ IF \E d \in threads : d.slug = q.t
          THEN UNCHANGED <<threads, ids>>
          ELSE /\ ids' = ids + 1
               /\ threads' = threads \cup {[id |-> ids', slug |-> q.t, by |-> q.u, count |-> 0]}
       /\ Done(r)
       /\ UNCHANGED <<shown, frontends, articles, comments, ratings, replies, uncounted, hurried>>

\* addDiscussionReply, deleteDiscussion: the discussion by its slug.
OnDiscussion(r, op, d, u) ==
    /\ op \in {"reply", "close"}
    /\ op = "close" => d.by = u \/ u \in Admins
    /\ Arrive(r, [Free EXCEPT !.op = op, !.st = "write", !.u = u, !.id = d.id, !.seen = d.count])

\* The INSERT, which the foreign key refuses when the discussion is gone.
InsertReply(r) ==
    LET q == req[r]
    IN /\ q.op = "reply" /\ q.st = "write"
       /\ IF ThreadThere(q.id)
          THEN /\ replies' = [replies EXCEPT ![q.id] = @ + 1]
               /\ Step(r, [q EXCEPT !.st = "count"])
          ELSE Done(r) /\ UNCHANGED replies
       /\ UNCHANGED <<shown, frontends, articles, comments, ratings, threads, ids, uncounted, hurried>>

\* Mutant: the count that was read, plus one.
CountFromSeen(r) ==
    LET q == req[r]
    IN /\ q.st = "count"
       /\ threads' = {IF d.id = q.id THEN [d EXCEPT !.count = q.seen + 1] ELSE d : d \in threads}
       /\ Done(r)
       /\ UNCHANGED <<shown, frontends, articles, comments, ratings, replies, ids, uncounted, hurried>>

\* The counter; its error is ignored.
CountReply(r) ==
    LET q == req[r]
    IN /\ q.st = "count"
       /\ \/ /\ threads' = {IF d.id = q.id THEN [d EXCEPT !.count = @ + 1] ELSE d : d \in threads}
             /\ UNCHANGED uncounted
          \/ /\ uncounted' = [uncounted EXCEPT ![q.id] = @ + 1]
             /\ UNCHANGED threads
       /\ Done(r)
       /\ UNCHANGED <<shown, frontends, articles, comments, ratings, replies, ids, hurried>>

\* The replies go with it.
DeleteDiscussion(r) ==
    LET q == req[r]
    IN /\ q.op = "close" /\ q.st = "write"
       /\ threads' = {d \in threads : d.id # q.id}
       /\ replies' = [replies EXCEPT ![q.id] = 0]
       /\ Done(r)
       /\ UNCHANGED <<shown, frontends, articles, comments, ratings, ids, uncounted, hurried>>

-----------------------------------------------------------------------------

Tick == now < MaxTime /\ now' = now + 1
        /\ UNCHANGED <<shown, frontends, tables, req, requests, reader, uncounted, hurried>>

Arrival(r) ==
    \/ \E a \in Articles :
         \/ \E u \in Users, op \in {"comment", "rate", "unrate"} : Remark(r, op, a, u)
         \/ \E op \in {"update", "restore", "delete"} : Edit(r, op, a)
         \/ CreateArticle(r, a)
    \/ \E u \in Users :
         \/ \E t \in Titles : CreateDiscussion(r, t, u)
         \/ \E d \in threads, op \in {"reply", "close"} : OnDiscussion(r, op, d, u)

Handling(r) ==
    \/ WriteComment(r) \/ WriteRating(r) \/ DeleteRating(r) \/ ReadBack(r) \/ Purge(r)
    \/ WriteText(r) \/ DeleteArticle(r) \/ Render(r)
    \/ InsertDiscussion(r) \/ InsertReply(r) \/ CountReply(r) \/ DeleteDiscussion(r)

Next ==
    \/ \E r \in Slots : Arrival(r) \/ Handling(r)
    \/ \E a \in Articles : SaveRendered(a) \/ GetArticle(a)
    \/ FrontendsNext /\ UNCHANGED rest
    \/ Compiled
    \/ Tick

Spec == Init /\ [][Next]_vars

-----------------------------------------------------------------------------

\* The counter of a discussion is the number of its replies, but for those
\* whose count is still to come or has failed: no two replies take the same
\* number, and none is counted for a discussion that took over the slug.
RepliesCounted ==
    \A d \in threads :
        replies[d.id] = d.count + uncounted[d.id]
                        + Cardinality({r \in Slots : req[r].st = "count" /\ req[r].id = d.id})

\* No comment or vote outlives its article, whatever order a deletion and a
\* remark that has already found the article come in.
RemarksBelong == \A c \in comments \cup ratings : ArticleThere(c.article)

\* A frontend shows an old page only while the change is still being announced, or
\* when the announcement was lost, overtaken by a fetch, or never made: for a
\* restore, a write whose row could not be read back, a finished compile, and a
\* page that changed because of one that it includes.
PagesFollow ==
    \A c \in Clients, p \in Pages :
        Behind(c, p) =>
            \/ PurgeUnderWay(c, p)
            \/ <<c, p>> \in missed
            \/ \E r \in Slots : req[r].st \in {"read back", "render", "purge"} /\ req[r].a = p

\* A 304 is answered only when the text is the one the browser has, unless it
\* changed twice within one second.
NotModifiedHolds ==
    \A a \in Articles \ hurried :
        Exists(a) /\ reader[a].tag = ETag(a) => reader[a].rev = articles[a].rev

=============================================================================

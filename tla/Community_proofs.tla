--------------------------- MODULE Community_proofs ---------------------------
(***************************************************************************)
(* Proofs about Community, for every number of articles, users, requests   *)
(* at a time, frontends and seconds.                                       *)
(***************************************************************************)
EXTENDS Community, FiniteSetTheorems, TLAPS

-----------------------------------------------------------------------------
(* The invariant *)

Opening == {r \in Slots : req[r].st = "write" /\ req[r].op = "open"}
Counting(i) == {r \in Slots : req[r].st = "count" /\ req[r].id = i}
ToAnnounce == {"read back", "render", "purge"}

(* What a request has found before it writes. *)
FoundAt(q) ==
    /\ q.st = "write" /\ q.op \in OfArticle => q.a \in Articles
    /\ q.st = "write" /\ q.op # "open" => q.id \in 1 .. ids
    /\ q.st \in ToAnnounce => q.a \in Articles
    /\ q.st = "count" => q.op = "reply" /\ q.id \in 1 .. ids
Found == \A r \in Slots : FoundAt(req[r])

(* There is an id for every discussion that is being opened. *)
IdsLeft ==
    /\ ids + Cardinality(Opening) <= requests + Cardinality(Articles)
    /\ \A a \in Articles : articles[a].id <= ids

(* The ids of discussions are their own, and nothing counts for one to come. *)
OwnIds ==
    /\ \A d \in threads : d.id <= ids
    /\ \A d, e \in threads : d.id = e.id => d = e
    /\ \A i \in Ids : i > ids => replies[i] = 0 /\ uncounted[i] = 0
CountedAt(d) == replies[d.id] = d.count + uncounted[d.id] + Cardinality(Counting(d.id))
Counted == OwnIds /\ \A d \in threads : CountedAt(d)

(* What is old, in a frontend's copy or on its way there, is being announced. *)
Announced(c, p) ==
    \/ PurgeUnderWay(c, p)
    \/ <<c, p>> \in missed
    \/ \E r \in Slots : req[r].st \in ToAnnounce /\ req[r].a = p
FollowsAt(c, p) ==
    /\ copy[c][p] \notin {0, shown[p]} \/ fetch[c][p] \notin {0, shown[p]} => Announced(c, p)
    /\ copy[c][p] = 0 \/ fetch[c][p] = 0
Follows == \A c \in Clients, p \in Pages : FollowsAt(c, p)

(* What a browser's tag says, as long as its article is the one there is. *)
TagAt(a) ==
    /\ articles[a].at <= now
    /\ reader[a].tag[1] <= ids
    /\ Exists(a) /\ reader[a].tag[1] = articles[a].id =>
         /\ reader[a].tag[2] <= articles[a].at
         /\ a \notin hurried /\ reader[a].tag[2] = articles[a].at => reader[a].rev = articles[a].rev
Tags == \A a \in Articles : TagAt(a)

State == TypeOK /\ Found /\ IdsLeft
Inv == State /\ Counted /\ RemarksBelong /\ Follows /\ Tags

-----------------------------------------------------------------------------
(* Sizes and types *)

LEMMA Sizes ==
    /\ Cardinality(Articles) \in Nat /\ MaxIds \in Nat
    /\ Ids = 1 .. MaxIds
BY CommunityAssumption, FS_CardinalityType DEF MaxIds, Ids

LEMMA SlotSets ==
    ASSUME NEW S \in SUBSET Slots
    PROVE  /\ IsFiniteSet(S) /\ Cardinality(S) \in Nat
           /\ \A r \in Slots \ S : Cardinality(S \cup {r}) = Cardinality(S) + 1
           /\ \A r \in S : Cardinality(S \ {r}) = Cardinality(S) - 1
<1>1. IsFiniteSet(S)
  BY CommunityAssumption, FS_Subset
<1>2. Cardinality(S) \in Nat
  BY <1>1, FS_CardinalityType
<1>3. ASSUME NEW r \in Slots \ S PROVE Cardinality(S \cup {r}) = Cardinality(S) + 1
  <2>1. r \notin S
    BY <1>3
  <2> QED
    BY <1>1, <2>1, FS_AddElement
<1>4. ASSUME NEW r \in S PROVE Cardinality(S \ {r}) = Cardinality(S) - 1
  <2>1. r \in S
    BY <1>4
  <2> QED
    BY <1>1, <2>1, FS_RemoveElement
<1> QED
  BY <1>1, <1>2, <1>3, <1>4

LEMMA SlugType == 0 \in 0 .. MaxTime /\ \A t \in Titles, i \in 0 .. MaxTime : [title |-> t, at |-> i] \in Slugs
BY CommunityAssumption DEF Slugs

LEMMA FreeType ==
    Free \in Request /\ Free.st = "free" /\ Free.op = "" /\ Free.id = 0 /\ Free.seen = 0 /\ Free.a = NoPage
<1>1. AnyTitle \in Titles /\ AnyUser \in Users
  BY CommunityAssumption DEF AnyTitle, AnyUser
<1>2. [title |-> AnyTitle, at |-> 0] \in Slugs
  BY <1>1, SlugType
<1>3. 0 \in 0 .. MaxIds
  BY Sizes
<1>4. Free \in Request
  BY <1>1, <1>2, <1>3 DEF Free, Request, Ops
<1> QED
  BY <1>4 DEF Free

-----------------------------------------------------------------------------
(* Steps that leave a part of the state alone *)

(* A request moves; r is its slot and q what it is then. *)
Moves(r, q) == req' = [req EXCEPT ![r] = q]

LEMMA MoveOpening ==
    ASSUME TypeOK, NEW r \in Slots, NEW q \in Request, Moves(r, q)
    PROVE  /\ \A s \in Slots \ {r} : req'[s] = req[s]
           /\ req'[r] = q
           /\ Cardinality(Opening) \in Nat /\ Cardinality(Opening') \in Nat
           /\ r \in Opening /\ r \notin Opening' => Cardinality(Opening') = Cardinality(Opening) - 1
           /\ Cardinality(Opening') <= Cardinality(Opening) + 1
           /\ r \notin Opening' => Cardinality(Opening') <= Cardinality(Opening)
<1>1. (\A s \in Slots \ {r} : req'[s] = req[s]) /\ req'[r] = q
  BY DEF Moves, TypeOK
<1>2. Opening \subseteq Slots /\ Opening' \subseteq Slots
  BY DEF Opening
<1>3. CASE r \in Opening /\ r \in Opening'
  <2>1. Opening' = Opening
    BY <1>1, <1>3 DEF Opening
  <2> QED
    BY <2>1, <1>1, <1>2, <1>3, SlotSets
<1>4. CASE r \in Opening /\ r \notin Opening'
  <2>1. Opening' = Opening \ {r}
    BY <1>1, <1>4 DEF Opening
  <2> QED
    BY <2>1, <1>1, <1>2, <1>4, SlotSets
<1>5. CASE r \notin Opening /\ r \in Opening'
  <2>1. Opening' = Opening \cup {r}
    BY <1>1, <1>5 DEF Opening
  <2> QED
    BY <2>1, <1>1, <1>2, <1>5, SlotSets
<1>6. CASE r \notin Opening /\ r \notin Opening'
  <2>1. Opening' = Opening
    BY <1>1, <1>6 DEF Opening
  <2> QED
    BY <2>1, <1>1, <1>2, <1>6, SlotSets
<1> QED
  BY <1>3, <1>4, <1>5, <1>6

(* The requests and the ids: what is found stays found. *)
LEMMA MoveState ==
    ASSUME State, NEW r \in Slots, NEW q \in Request, Moves(r, q), TypeOK',
           UNCHANGED ids, requests' = requests, FoundAt(q),
           q.st = "write" => q.op # "open",
           \A a \in Articles : articles'[a].id \in {0, articles[a].id}
    PROVE  State'
<1>1. Found'
  <2>1. ASSUME NEW s \in Slots PROVE FoundAt(req[s])'
    <3>1. CASE s = r
      BY <3>1, MoveOpening DEF State, FoundAt
    <3>2. CASE s # r
      BY <3>2, MoveOpening DEF State, Found, FoundAt
    <3> QED
      BY <3>1, <3>2
  <2> QED
    BY <2>1 DEF Found
<1>2. r \notin Opening'
  BY MoveOpening DEF Opening, State
<1>3. Cardinality(Opening') <= Cardinality(Opening)
  BY MoveOpening, <1>2 DEF State
<1>4. IdsLeft'
  <2>1. ids' = ids /\ requests' = requests /\ ids \in Nat /\ requests \in Nat
    BY DEF State, TypeOK
  <2>2. Cardinality(Opening) \in Nat /\ Cardinality(Opening') \in Nat
    BY MoveOpening DEF State
  <2>3. ids' + Cardinality(Opening') <= requests' + Cardinality(Articles)
    BY <1>3, <2>1, <2>2, Sizes DEF State, IdsLeft
  <2>4. \A a \in Articles : articles'[a].id <= ids'
    BY <2>1 DEF State, IdsLeft
  <2> QED
    BY <2>3, <2>4 DEF IdsLeft
<1> QED
  BY <1>1, <1>4 DEF State

LEMMA KeepsCounted ==
    ASSUME TypeOK, Counted, NEW r \in Slots, NEW q \in Request, Moves(r, q),
           req[r].st # "count", q.st # "count",
           UNCHANGED <<threads, replies, uncounted>>, ids' \in Nat, ids <= ids'
    PROVE  Counted'
<1>1. \A i \in Ids : Counting(i)' = Counting(i)
  BY DEF Counting, Moves, TypeOK
<1>2. \A d \in threads : d.id \in Ids
  BY DEF TypeOK
<1>3. OwnIds'
  BY DEF Counted, OwnIds, TypeOK, Ids
<1>4. ASSUME NEW d \in threads PROVE CountedAt(d)'
  BY <1>1, <1>2 DEF Counted, CountedAt
<1> QED
  BY <1>3, <1>4 DEF Counted

LEMMA KeepsRemarks ==
    ASSUME RemarksBelong, UNCHANGED <<comments, ratings>>,
           \A a \in Articles : articles'[a].id = articles[a].id
    PROVE  RemarksBelong'
BY DEF RemarksBelong, ArticleThere

LEMMA KeepsFollows ==
    ASSUME TypeOK, Follows, NEW r \in Slots, NEW q \in Request, Moves(r, q),
           UNCHANGED <<shown, frontends>>,
           req[r].st \in ToAnnounce => q.st \in ToAnnounce /\ q.a = req[r].a
    PROVE  Follows'
<1>1. ASSUME NEW c \in Clients, NEW p \in Pages, Announced(c, p) PROVE Announced(c, p)'
  <2>1. ASSUME NEW s \in Slots, req[s].st \in ToAnnounce, req[s].a = p
        PROVE  req'[s].st \in ToAnnounce /\ req'[s].a = p
    BY <2>1 DEF Moves, TypeOK
  <2> QED
    BY <1>1, <2>1 DEF Announced, PurgeUnderWay, frontends
<1> QED
  BY <1>1 DEF Follows, FollowsAt, frontends

(* A change of an article's page, by a request that will announce it. *)
LEMMA ChangeFollows ==
    ASSUME TypeOK, Follows, NEW r \in Slots, NEW q \in Request, Moves(r, q),
           UNCHANGED frontends, q.st \in ToAnnounce, q.a \in Pages, Changed(q.a),
           req[r].st \notin ToAnnounce
    PROVE  Follows'
<1>1. req'[r] = q /\ \A s \in Slots \ {r} : req'[s] = req[s]
  BY DEF Moves, TypeOK
<1>2. ASSUME NEW c \in Clients, NEW p \in Pages, p # q.a PROVE FollowsAt(c, p)'
  <2>1. shown'[p] = shown[p]
    BY <1>2 DEF Changed, TypeOK, FrontendsTypeOK
  <2>2. Announced(c, p) => Announced(c, p)'
    BY <1>1 DEF Announced, PurgeUnderWay, frontends
  <2> QED
    BY <2>1, <2>2 DEF Follows, FollowsAt, frontends
<1>3. ASSUME NEW c \in Clients PROVE FollowsAt(c, q.a)'
  <2>1. Announced(c, q.a)'
    BY <1>1 DEF Announced
  <2> QED
    BY <2>1 DEF Follows, FollowsAt, frontends
<1> QED
  BY <1>2, <1>3 DEF Follows

(* A change that is announced to nobody, or was when the request was here. *)
LEMMA UnannouncedFollows ==
    ASSUME TypeOK, Follows, NEW r \in Slots, NEW q \in Request, Moves(r, q),
           NEW a \in Pages, Changed(a) \/ UNCHANGED shown, Unannounced(a),
           req[r].st \in ToAnnounce => req[r].a = a
    PROVE  Follows'
<1>1. req'[r] = q /\ \A s \in Slots \ {r} : req'[s] = req[s]
  BY DEF Moves, TypeOK
<1>2. ASSUME NEW c \in Clients, NEW p \in Pages, p # a PROVE FollowsAt(c, p)'
  <2>1. shown'[p] = shown[p]
    BY <1>2 DEF Changed, TypeOK, FrontendsTypeOK
  <2>2. Announced(c, p) => Announced(c, p)'
    BY <1>1, <1>2 DEF Announced, PurgeUnderWay, Unannounced
  <2> QED
    BY <2>1, <2>2 DEF Follows, FollowsAt, Unannounced
<1>3. ASSUME NEW c \in Clients PROVE FollowsAt(c, a)'
  <2>1. Announced(c, a)'
    BY DEF Announced, Unannounced
  <2> QED
    BY <2>1 DEF Follows, FollowsAt, Unannounced
<1> QED
  BY <1>2, <1>3 DEF Follows

LEMMA KeepsTags ==
    ASSUME TypeOK, Tags, UNCHANGED <<articles, reader, now>>, hurried \subseteq hurried',
           ids' \in Nat, ids <= ids'
    PROVE  Tags'
<1>1. \A a \in Articles : reader[a].tag[1] \in Nat
  BY DEF TypeOK
<1> QED
  BY <1>1 DEF Tags, TagAt, Exists, TypeOK

-----------------------------------------------------------------------------
(* Requests that arrive *)

LEMMA Arrivals ==
    ASSUME Inv, NEW r \in Slots, NEW q \in Request, Arrive(r, q), FoundAt(q), q.st = "write"
    PROVE  Inv'
<1>1. TypeOK /\ Moves(r, q) /\ req[r].st = "free"
  BY DEF Inv, State, Arrive, Moves
<1>2. TypeOK'
  <2>1. req' \in [Slots -> Request] /\ requests' \in 0 .. MaxRequests
    BY <1>1, CommunityAssumption DEF Arrive, TypeOK
  <2> QED
    BY <1>1, <2>1 DEF Arrive, TypeOK, FrontendsTypeOK, frontends, tables
<1>3. Found'
  <2>1. ids' = ids
    BY DEF Arrive, tables
  <2>2. ASSUME NEW s \in Slots PROVE FoundAt(req[s])'
    BY <1>1, <2>1, MoveOpening DEF Inv, State, Found, FoundAt
  <2> QED
    BY <2>2 DEF Found
<1>4. IdsLeft'
  <2>1. ids' = ids /\ requests' = requests + 1 /\ ids \in Nat /\ requests \in Nat
    BY <1>1 DEF Arrive, tables, TypeOK
  <2>2. /\ Cardinality(Opening) \in Nat /\ Cardinality(Opening') \in Nat
        /\ Cardinality(Opening') <= Cardinality(Opening) + 1
    BY MoveOpening, <1>1
  <2>3. ids' + Cardinality(Opening') <= requests' + Cardinality(Articles)
    BY <2>1, <2>2, Sizes DEF Inv, State, IdsLeft
  <2>4. \A a \in Articles : articles'[a].id <= ids'
    BY DEF Inv, State, IdsLeft, Arrive, tables
  <2> QED
    BY <2>3, <2>4 DEF IdsLeft
<1>5. Counted'
  <2>1. UNCHANGED <<threads, replies, uncounted>> /\ ids' \in Nat /\ ids <= ids'
    BY <1>1 DEF Arrive, tables, TypeOK
  <2> QED
    BY <1>1, <2>1, KeepsCounted DEF Inv
<1>6. RemarksBelong'
  BY KeepsRemarks DEF Inv, Arrive, tables
<1>7. Follows'
  BY <1>1, KeepsFollows DEF Inv, Arrive, ToAnnounce
<1>8. Tags'
  <2>1. UNCHANGED <<articles, reader, now, hurried>> /\ ids' \in Nat /\ ids <= ids'
    BY <1>1 DEF Arrive, tables, TypeOK
  <2> QED
    BY <1>1, <2>1, KeepsTags DEF Inv
<1> QED
  BY <1>2, <1>3, <1>4, <1>5, <1>6, <1>7, <1>8 DEF Inv, State

LEMMA ArticleId ==
    ASSUME Inv, NEW a \in Articles, Exists(a)
    PROVE  articles[a].id \in 1 .. ids /\ articles[a].id \in 0 .. MaxIds /\ a \in Pages \cup {NoPage}
BY Sizes, CommunityAssumption DEF Inv, State, IdsLeft, TypeOK, Exists

LEMMA RemarkArrives ==
    ASSUME Inv, NEW r \in Slots, NEW a \in Articles, NEW u \in Users,
           NEW op \in {"comment", "rate", "unrate"}, Remark(r, op, a, u)
    PROVE  Inv'
<1> DEFINE q == [Free EXCEPT !.op = op, !.st = "write", !.a = a, !.u = u, !.id = articles[a].id]
<1>1. Arrive(r, q) /\ articles[a].id \in 1 .. ids /\ articles[a].id \in 0 .. MaxIds /\ a \in Pages \cup {NoPage}
  BY ArticleId DEF Remark
<1>2. q \in Request /\ q.st = "write" /\ q.op = op /\ q.a = a /\ q.id = articles[a].id
  BY <1>1, FreeType DEF Request, Ops, OfArticle
<1>3. FoundAt(q)
  BY <1>1, <1>2 DEF FoundAt, ToAnnounce
<1> QED
  BY <1>1, <1>2, <1>3, Arrivals

LEMMA EditArrives ==
    ASSUME Inv, NEW r \in Slots, NEW a \in Articles, NEW op \in {"update", "restore", "delete"},
           Edit(r, op, a)
    PROVE  Inv'
<1> DEFINE q == [Free EXCEPT !.op = op, !.st = "write", !.a = a, !.id = articles[a].id]
<1>1. Arrive(r, q) /\ articles[a].id \in 1 .. ids /\ articles[a].id \in 0 .. MaxIds /\ a \in Pages \cup {NoPage}
  BY ArticleId DEF Edit
<1>2. q \in Request /\ q.st = "write" /\ q.op = op /\ q.a = a /\ q.id = articles[a].id
  BY <1>1, FreeType DEF Request, Ops, OfArticle
<1>3. FoundAt(q)
  BY <1>1, <1>2 DEF FoundAt, ToAnnounce
<1> QED
  BY <1>1, <1>2, <1>3, Arrivals

LEMMA DiscussionArrives ==
    ASSUME Inv, NEW r \in Slots, NEW t \in Titles, NEW u \in Users, CreateDiscussion(r, t, u)
    PROVE  Inv'
<1> DEFINE slug == [title |-> t, at |-> IF \E d \in threads : d.slug = [title |-> t, at |-> 0]
                                        THEN now ELSE 0]
<1> DEFINE q == [Free EXCEPT !.op = "open", !.st = "write", !.t = slug, !.u = u]
<1>1. slug \in Slugs
  BY SlugType DEF Inv, State, TypeOK
<1> HIDE DEF slug
<1>2. q \in Request /\ q.st = "write" /\ q.op = "open"
  BY <1>1, FreeType DEF Request, Ops, OfArticle
<1>3. FoundAt(q)
  BY <1>2 DEF FoundAt, ToAnnounce, OfArticle
<1>4. Arrive(r, q)
  BY DEF CreateDiscussion, slug
<1> QED
  BY <1>2, <1>3, <1>4, Arrivals

LEMMA OnDiscussionArrives ==
    ASSUME Inv, NEW r \in Slots, NEW u \in Users, NEW op \in {"reply", "close"}, NEW d \in threads,
           OnDiscussion(r, op, d, u)
    PROVE  Inv'
<1> DEFINE q == [Free EXCEPT !.op = op, !.st = "write", !.u = u, !.id = d.id, !.seen = d.count]
<1>1. Arrive(r, q)
  BY DEF OnDiscussion
<1>2. d.id \in 1 .. ids /\ d.id \in 0 .. MaxIds /\ d.count \in Nat
  BY Sizes DEF Inv, State, TypeOK, Counted, OwnIds
<1>3. q \in Request /\ q.st = "write" /\ q.op = op /\ q.id = d.id
  BY <1>2, FreeType DEF Request, Ops
<1>4. FoundAt(q)
  BY <1>2, <1>3 DEF FoundAt, ToAnnounce, OfArticle
<1> QED
  BY <1>1, <1>3, <1>4, Arrivals

-----------------------------------------------------------------------------
(* Comments and ratings *)

LEMMA AtSlot ==
    ASSUME Inv, NEW r \in Slots
    PROVE  TypeOK /\ req[r] \in Request /\ FoundAt(req[r])
BY DEF Inv, State, TypeOK, Found

LEMMA Stages ==
    ASSUME NEW q \in Request, NEW st \in {"free", "write", "read back", "render", "count", "purge"}
    PROVE  LET n == [q EXCEPT !.st = st]
           IN n \in Request /\ n.st = st /\ n.op = q.op /\ n.a = q.a /\ n.id = q.id
BY DEF Request

LEMMA FreeFound == FoundAt(Free)
BY FreeType DEF FoundAt, ToAnnounce

(* A request that stops without having written anything. *)
LEMMA Stops ==
    ASSUME Inv, NEW r \in Slots, req[r].st \notin {"count"} \cup ToAnnounce, Done(r),
           UNCHANGED <<shown, frontends, tables, uncounted>>, hurried \subseteq hurried', hurried' \subseteq Articles
    PROVE  Inv'
<1>1. TypeOK /\ Moves(r, Free) /\ Free \in Request /\ Free.st = "free"
  BY FreeType DEF Inv, State, Done, Step, Moves
<1>2. TypeOK'
  BY <1>1 DEF Done, Step, TypeOK, FrontendsTypeOK, frontends, tables
<1>3. State'
  BY <1>1, <1>2, MoveState, FreeFound DEF Inv, Done, Step, tables
<1>4. Counted'
  <2>1. UNCHANGED <<threads, replies, uncounted>> /\ ids' \in Nat /\ ids <= ids'
    BY <1>1 DEF tables, TypeOK
  <2> QED
    BY <1>1, <2>1, KeepsCounted DEF Inv
<1>5. RemarksBelong'
  BY KeepsRemarks DEF Inv, tables
<1>6. Follows'
  BY <1>1, KeepsFollows DEF Inv
<1>7. Tags'
  <2>1. UNCHANGED <<articles, reader, now>> /\ ids' \in Nat /\ ids <= ids'
    BY <1>1 DEF Done, Step, tables, TypeOK
  <2> QED
    BY <1>1, <2>1, KeepsTags DEF Inv
<1> QED
  BY <1>3, <1>4, <1>5, <1>6, <1>7 DEF Inv

(* A remark that changes its page and goes on to announce it. *)
LEMMA Remarks ==
    ASSUME Inv, NEW r \in Slots, req[r].st = "write", req[r].op \in OfArticle,
           NEW st \in ToAnnounce, Step(r, [req[r] EXCEPT !.st = st]), Changed(req[r].a),
           comments' \in SUBSET [article : Ids, user : Users],
           ratings' \in SUBSET [article : Ids, user : Users],
           \A c \in (comments' \cup ratings') \ (comments \cup ratings) : ArticleThere(c.article),
           UNCHANGED <<frontends, articles, threads, replies, ids, uncounted, hurried>>
    PROVE  Inv'
<1> DEFINE q == [req[r] EXCEPT !.st = st]
<1>1. TypeOK /\ Moves(r, q)
  BY DEF Inv, State, Step, Moves
<1>2. /\ q \in Request /\ q.st = st /\ q.op = req[r].op /\ q.a = req[r].a /\ q.id = req[r].id
      /\ FoundAt(req[r])
  <2>1. req[r] \in Request /\ FoundAt(req[r])
    BY AtSlot
  <2>2. st \in {"free", "write", "read back", "render", "count", "purge"}
    BY DEF ToAnnounce
  <2> QED
    BY <2>1, <2>2, Stages
<1> HIDE DEF q
<1>3. q.a \in Articles /\ q.a \in Pages
  BY <1>2, CommunityAssumption DEF FoundAt
<1>4. FoundAt(q) /\ q.st \notin {"write", "count"}
  BY <1>2, <1>3 DEF FoundAt, ToAnnounce
<1>5. TypeOK'
  <2>1. FrontendsTypeOK'
    BY <1>1, <1>2, <1>3 DEF Changed, TypeOK, FrontendsTypeOK, frontends
  <2>2. req' \in [Slots -> Request] /\ requests' = requests /\ now' = now /\ reader' = reader
    BY <1>1, <1>2 DEF Moves, Step, TypeOK
  <2> QED
    BY <1>1, <2>1, <2>2 DEF TypeOK
<1>6. State'
  BY <1>1, <1>2, <1>4, <1>5, MoveState DEF Inv, Step
<1>7. Counted'
  <2>1. UNCHANGED <<threads, replies, uncounted>> /\ ids' \in Nat /\ ids <= ids'
    BY <1>1 DEF TypeOK
  <2> QED
    BY <1>1, <1>2, <1>4, <2>1, KeepsCounted DEF Inv
<1>8. RemarksBelong'
  <2>1. ASSUME NEW c \in comments' \cup ratings' PROVE ArticleThere(c.article)
    BY <2>1 DEF Inv, RemarksBelong
  <2> QED
    BY <2>1 DEF RemarksBelong, ArticleThere
<1>9. Follows'
  <2>1. req[r].st \notin ToAnnounce
    BY DEF ToAnnounce
  <2> QED
    BY <1>1, <1>2, <1>3, <2>1, ChangeFollows DEF Inv
<1>10. Tags'
  <2>1. UNCHANGED <<articles, reader, now, hurried>> /\ ids' \in Nat /\ ids <= ids'
    BY <1>1 DEF Step, TypeOK
  <2> QED
    BY <1>1, <2>1, KeepsTags DEF Inv
<1> QED
  BY <1>6, <1>7, <1>8, <1>9, <1>10 DEF Inv

LEMMA RemarkId ==
    ASSUME Inv, NEW r \in Slots, req[r].st = "write", req[r].op \in OfArticle
    PROVE  req[r].id \in Ids /\ req[r].u \in Users
<1>1. req[r].id \in 1 .. ids /\ req[r].u \in Users
  BY AtSlot DEF FoundAt, Request, OfArticle
<1>2. ids \in 0 .. MaxIds
  BY DEF Inv, State, TypeOK
<1> QED
  BY <1>1, <1>2, Sizes

LEMMA WriteCommentInv ==
    ASSUME Inv, NEW r \in Slots, WriteComment(r)
    PROVE  Inv'
<1> DEFINE q == req[r]
<1>1. q \in Request /\ FoundAt(q) /\ q.st = "write" /\ q.op \in OfArticle
  BY AtSlot DEF WriteComment, OfArticle
<1>2. CASE ArticleThere(q.id)
  <2>1. [article |-> q.id, user |-> q.u] \in [article : Ids, user : Users]
    BY <1>1, RemarkId
  <2>2. /\ comments' \in SUBSET [article : Ids, user : Users]
        /\ ratings' \in SUBSET [article : Ids, user : Users]
        /\ \A c \in (comments' \cup ratings') \ (comments \cup ratings) : ArticleThere(c.article)
    <3>1. comments' = comments \cup {[article |-> q.id, user |-> q.u]} /\ ratings' = ratings
      BY <1>2 DEF WriteComment
    <3>2. comments \in SUBSET [article : Ids, user : Users] /\ ratings \in SUBSET [article : Ids, user : Users]
      BY DEF Inv, State, TypeOK
    <3> QED
      BY <1>2, <2>1, <3>1, <3>2
  <2>3. UNCHANGED <<frontends, articles, threads, replies, ids, uncounted, hurried>>
    BY DEF WriteComment
  <2>4. Changed(q.a) /\ Step(r, [q EXCEPT !.st = "read back"]) /\ "read back" \in ToAnnounce
    BY <1>2 DEF WriteComment, ToAnnounce
  <2> QED
    BY <1>1, <2>2, <2>3, <2>4, Remarks
<1>3. CASE ~ArticleThere(q.id)
  BY <1>1, <1>3, Stops DEF WriteComment, ToAnnounce, tables, Inv, State, TypeOK
<1> QED
  BY <1>2, <1>3

LEMMA WriteRatingInv ==
    ASSUME Inv, NEW r \in Slots, WriteRating(r)
    PROVE  Inv'
<1> DEFINE q == req[r]
<1>1. q \in Request /\ FoundAt(q) /\ q.st = "write" /\ q.op \in OfArticle
  BY AtSlot DEF WriteRating, OfArticle
<1>2. CASE ArticleThere(q.id)
  <2>1. Vote(q) \in [article : Ids, user : Users] /\ Vote(q).article = q.id
    BY <1>1, RemarkId DEF Vote
  <2>2. /\ comments' \in SUBSET [article : Ids, user : Users]
        /\ ratings' \in SUBSET [article : Ids, user : Users]
        /\ \A c \in (comments' \cup ratings') \ (comments \cup ratings) : ArticleThere(c.article)
    BY <1>2, <2>1 DEF WriteRating, Inv, State, TypeOK
  <2>3. UNCHANGED <<frontends, articles, threads, replies, ids, uncounted, hurried>>
    BY DEF WriteRating
  <2>4. Changed(q.a) /\ Step(r, [q EXCEPT !.st = "read back"]) /\ "read back" \in ToAnnounce
    BY <1>2 DEF WriteRating, ToAnnounce
  <2> QED
    BY <1>1, <2>2, <2>3, <2>4, Remarks
<1>3. CASE ~ArticleThere(q.id)
  BY <1>1, <1>3, Stops DEF WriteRating, ToAnnounce, tables, Inv, State, TypeOK
<1> QED
  BY <1>2, <1>3

LEMMA DeleteRatingInv ==
    ASSUME Inv, NEW r \in Slots, DeleteRating(r)
    PROVE  Inv'
<1> DEFINE q == req[r]
<1>1. q \in Request /\ FoundAt(q) /\ q.st = "write" /\ q.op \in OfArticle
  BY AtSlot DEF DeleteRating, OfArticle
<1>2. CASE Vote(q) \in ratings
  <2>1. /\ comments' \in SUBSET [article : Ids, user : Users]
        /\ ratings' \in SUBSET [article : Ids, user : Users]
        /\ \A c \in (comments' \cup ratings') \ (comments \cup ratings) : ArticleThere(c.article)
    BY DEF DeleteRating, Inv, State, TypeOK
  <2> QED
    BY <1>1, <1>2, <2>1, Remarks DEF DeleteRating, ToAnnounce
<1>3. CASE Vote(q) \notin ratings
  BY <1>1, <1>3, Stops DEF DeleteRating, ToAnnounce, tables, Inv, State, TypeOK
<1> QED
  BY <1>2, <1>3

(* A request that moves on and leaves the tables and the pages alone. *)
LEMMA MovesOn ==
    ASSUME Inv, NEW r \in Slots, NEW q \in Request, Step(r, q), FoundAt(q),
           q.st \notin {"write", "count"}, req[r].st # "count",
           UNCHANGED <<shown, tables, uncounted, hurried>>, FrontendsTypeOK', Follows'
    PROVE  Inv'
<1>1. TypeOK /\ Moves(r, q)
  BY DEF Inv, State, Step, Moves
<1>2. TypeOK'
  BY <1>1 DEF Step, TypeOK, tables
<1>3. State'
  BY <1>1, <1>2, MoveState DEF Inv, Step, tables
<1>4. Counted'
  <2>1. UNCHANGED <<threads, replies, uncounted>> /\ ids' \in Nat /\ ids <= ids'
    BY <1>1 DEF tables, TypeOK
  <2> QED
    BY <1>1, <2>1, KeepsCounted DEF Inv
<1>5. RemarksBelong'
  BY KeepsRemarks DEF Inv, tables
<1>6. Tags'
  <2>1. UNCHANGED <<articles, reader, now, hurried>> /\ ids' \in Nat /\ ids <= ids'
    BY <1>1 DEF Step, tables, TypeOK
  <2> QED
    BY <1>1, <2>1, KeepsTags DEF Inv
<1> QED
  BY <1>3, <1>4, <1>5, <1>6 DEF Inv

LEMMA UnannouncedType ==
    ASSUME FrontendsTypeOK, NEW p \in Pages, Unannounced(p), shown' \in [Pages -> Nat \ {0}]
    PROVE  FrontendsTypeOK'
BY DEF FrontendsTypeOK, Unannounced

LEMMA RevalidateType ==
    ASSUME FrontendsTypeOK, NEW p \in Pages, Revalidate(p), UNCHANGED shown
    PROVE  FrontendsTypeOK' /\ \A c \in Clients : /\ purges'[c][p] > 0
                                                  /\ \A x \in Pages \ {p} : purges'[c][x] = purges[c][x]
<1>1. \A c \in Clients : purges[c] \in [Pages -> Nat]
  BY DEF FrontendsTypeOK
<1> QED
  BY <1>1 DEF FrontendsTypeOK, Revalidate

LEMMA ReadBackInv ==
    ASSUME Inv, NEW r \in Slots, ReadBack(r)
    PROVE  Inv'
<1> DEFINE q == req[r]
           st == IF q.op \in Saves THEN "render" ELSE "purge"
           n == [q EXCEPT !.st = st]
<1>1. q \in Request /\ FoundAt(q) /\ q.st = "read back" /\ TypeOK /\ FrontendsTypeOK
  BY AtSlot DEF ReadBack, TypeOK
<1>2. q.a \in Articles /\ q.a \in Pages
  BY <1>1, CommunityAssumption DEF FoundAt, ToAnnounce
<1>3. CASE Step(r, n) /\ UNCHANGED frontends
  <2>1. n \in Request /\ n.st \in {"render", "purge"} /\ n.a = q.a /\ n.op = q.op /\ n.id = q.id
    <3>1. st \in {"free", "write", "read back", "render", "count", "purge"} /\ st \in {"render", "purge"}
      OBVIOUS
    <3> HIDE DEF st
    <3> QED
      BY <1>1, <3>1, Stages
  <2> HIDE DEF n
  <2>2. FoundAt(n)
    BY <1>2, <2>1 DEF FoundAt, ToAnnounce
  <2>3. UNCHANGED <<shown, frontends>> /\ Moves(r, n)
    BY <1>3 DEF ReadBack, Step, Moves
  <2>4. Follows'
    BY <1>1, <2>1, <2>3, KeepsFollows DEF Inv, ToAnnounce
  <2>5. FrontendsTypeOK'
    BY <1>1, <2>3 DEF FrontendsTypeOK, frontends
  <2> QED
    BY <1>1, <1>3, <2>1, <2>2, <2>4, <2>5, MovesOn DEF ReadBack
<1>4. CASE Done(r) /\ Unannounced(q.a)
  <2>1. UNCHANGED shown /\ Moves(r, Free) /\ Step(r, Free)
    BY <1>4 DEF ReadBack, Step, Moves, Done
  <2>2. Follows'
    BY <1>1, <1>2, <1>4, <2>1, FreeType, UnannouncedFollows DEF Inv
  <2>3. FrontendsTypeOK'
    BY <1>1, <1>2, <1>4, <2>1, UnannouncedType DEF FrontendsTypeOK
  <2> QED
    BY <1>1, <2>1, <2>2, <2>3, FreeType, FreeFound, MovesOn DEF ReadBack
<1> QED
  BY <1>3, <1>4 DEF ReadBack

LEMMA PurgeInv ==
    ASSUME Inv, NEW r \in Slots, Purge(r)
    PROVE  Inv'
<1> DEFINE q == req[r]
<1>1. q \in Request /\ FoundAt(q) /\ q.st = "purge" /\ TypeOK /\ FrontendsTypeOK
  BY AtSlot DEF Purge, TypeOK
<1>2. q.a \in Articles /\ q.a \in Pages
  BY <1>1, CommunityAssumption DEF FoundAt, ToAnnounce
<1>3. UNCHANGED shown /\ Step(r, Free) /\ Revalidate(q.a)
  BY DEF Purge, Done
<1>4. req'[r] = Free /\ \A s \in Slots \ {r} : req'[s] = req[s]
  BY <1>1, <1>3 DEF Step, TypeOK
<1>5. FrontendsTypeOK' /\ \A c \in Clients : /\ purges'[c][q.a] > 0
                                             /\ \A x \in Pages \ {q.a} : purges'[c][x] = purges[c][x]
  BY <1>1, <1>2, <1>3, RevalidateType
<1>6. Follows'
  <2>1. ASSUME NEW c \in Clients, NEW p \in Pages, Announced(c, p) PROVE Announced(c, p)'
    <3>1. CASE p = q.a
      BY <1>5, <3>1 DEF Announced, PurgeUnderWay
    <3>2. CASE p # q.a
      BY <1>3, <1>4, <1>5, <2>1, <3>2 DEF Announced, PurgeUnderWay, Revalidate
    <3> QED
      BY <3>1, <3>2
  <2> QED
    BY <1>3, <2>1 DEF Inv, Follows, FollowsAt, Revalidate
<1> QED
  BY <1>1, <1>3, <1>5, <1>6, FreeType, FreeFound, MovesOn DEF Purge

-----------------------------------------------------------------------------
(* Articles *)

(* The row of an article that there is, written in this second. *)
LEMMA WrittenRow ==
    ASSUME Inv, NEW a \in Articles, Exists(a), NEW rev \in Nat, Written(a, rev),
           UNCHANGED <<now, reader>>
    PROVE  /\ articles' \in [Articles -> [id : {0} \cup Ids, rev : Nat, at : 0 .. MaxTime]]
           /\ hurried' \subseteq Articles
           /\ \A b \in Articles : articles'[b].id = articles[b].id
           /\ Tags'
<1>1. TypeOK
  BY DEF Inv, State
<1>2. now \in 0 .. MaxTime
  BY <1>1 DEF TypeOK
<1>3. /\ articles'[a] = [articles[a] EXCEPT !.rev = rev, !.at = now]
      /\ \A b \in Articles \ {a} : articles'[b] = articles[b]
      /\ articles' \in [Articles -> [id : {0} \cup Ids, rev : Nat, at : 0 .. MaxTime]]
  BY <1>1, <1>2 DEF Written, TypeOK
<1>4. articles'[a].id = articles[a].id /\ articles'[a].rev = rev /\ articles'[a].at = now
  BY <1>1, <1>3 DEF TypeOK
<1>5. hurried' \subseteq Articles /\ hurried \subseteq hurried'
  BY <1>1 DEF Written, TypeOK
<1>6. ASSUME NEW b \in Articles, b # a PROVE TagAt(b)'
  BY <1>3, <1>5, <1>6 DEF Inv, Tags, TagAt, Exists, Written
<1>7. TagAt(a)'
  <2>1. TagAt(a) /\ ids' = ids
    BY DEF Inv, Tags, Written
  <2>2. articles[a].at = now /\ rev # articles[a].rev => a \in hurried'
    BY DEF Written
  <2>3. /\ articles[a].at \in Nat /\ now \in Nat
        /\ reader[a].tag[1] \in Nat /\ reader[a].tag[2] \in Nat
    BY <1>1 DEF TypeOK
  <2>4. Exists(a)' /\ reader'[a].tag[1] = articles'[a].id =>
          /\ reader'[a].tag[2] <= articles'[a].at
          /\ a \notin hurried' /\ reader'[a].tag[2] = articles'[a].at => reader'[a].rev = articles'[a].rev
    BY <1>4, <1>5, <2>1, <2>2, <2>3 DEF TagAt
  <2>5. articles'[a].at <= now' /\ reader'[a].tag[1] <= ids'
    BY <1>4, <2>1, <2>3 DEF TagAt
  <2> QED
    BY <2>4, <2>5 DEF TagAt
<1> QED
  BY <1>3, <1>4, <1>5, <1>6, <1>7 DEF Tags

LEMMA WriteTextInv ==
    ASSUME Inv, NEW r \in Slots, WriteText(r)
    PROVE  Inv'
<1> DEFINE q == req[r]
           n == [q EXCEPT !.st = "read back", !.id = articles[q.a].id]
<1>1. q \in Request /\ FoundAt(q) /\ q.st = "write" /\ q.op \in OfArticle /\ TypeOK /\ FrontendsTypeOK
  BY AtSlot DEF WriteText, TypeOK, OfArticle
<1>2. q.a \in Articles /\ q.a \in Pages
  BY <1>1, CommunityAssumption DEF FoundAt
<1>3. CASE ~Exists(q.a)
  BY <1>1, <1>3, Stops DEF WriteText, ToAnnounce, tables, TypeOK
<1>4. CASE Exists(q.a)
  <2>1. n \in Request /\ n.st = "read back" /\ n.a = q.a /\ n.op = q.op
    <3>1. articles[q.a].id \in 0 .. MaxIds
      BY <1>1, <1>2, Sizes DEF TypeOK
    <3> QED
      BY <1>1, <3>1 DEF Request
  <2>2. Step(r, n) /\ UNCHANGED frontends /\ Changed(q.a)
    BY <1>4 DEF WriteText
  <2> HIDE DEF n
  <2>3. FoundAt(n)
    BY <1>2, <2>1 DEF FoundAt, ToAnnounce
  <2>4. Follows'
    BY <1>1, <1>2, <2>1, <2>2, ChangeFollows DEF Inv, ToAnnounce, Step, Moves
  <2>5. FrontendsTypeOK'
    BY <1>1, <1>2, <2>2 DEF FrontendsTypeOK, frontends, Changed
  <2>6. Written(q.a, articles[q.a].rev + 1) /\ articles[q.a].rev + 1 \in Nat
    BY <1>1, <1>2, <1>4 DEF WriteText, TypeOK
  <2>7. UNCHANGED <<now, reader, requests, comments, ratings, threads, replies, ids, uncounted>>
    BY <2>2, <2>6 DEF Written, Step
  <2>8. /\ articles' \in [Articles -> [id : {0} \cup Ids, rev : Nat, at : 0 .. MaxTime]]
        /\ hurried' \subseteq Articles
        /\ \A b \in Articles : articles'[b].id = articles[b].id
        /\ Tags'
    BY <1>2, <1>4, <2>6, <2>7, WrittenRow
  <2>9. TypeOK'
    BY <1>1, <2>1, <2>2, <2>5, <2>7, <2>8 DEF TypeOK, Step
  <2>10. Moves(r, n) /\ n.st # "write" /\ n.st # "count"
    BY <2>1, <2>2 DEF Moves, Step
  <2>11. State'
    BY <2>1, <2>3, <2>7, <2>8, <2>9, <2>10, MoveState DEF Inv
  <2>12. Counted'
    <3>1. UNCHANGED <<threads, replies, uncounted>> /\ ids' \in Nat /\ ids <= ids'
      BY <1>1, <2>7 DEF TypeOK
    <3> QED
      BY <1>1, <2>1, <2>10, <3>1, KeepsCounted DEF Inv
  <2>13. RemarksBelong'
    BY <2>7, <2>8, KeepsRemarks DEF Inv
  <2> QED
    BY <2>4, <2>8, <2>11, <2>12, <2>13 DEF Inv
<1> QED
  BY <1>3, <1>4

LEMMA DeleteArticleInv ==
    ASSUME Inv, NEW r \in Slots, DeleteArticle(r)
    PROVE  Inv'
<1> DEFINE q == req[r] n == [q EXCEPT !.st = "render"]
<1>1. q \in Request /\ FoundAt(q) /\ q.st = "write" /\ q.op \in OfArticle /\ TypeOK /\ FrontendsTypeOK
  BY AtSlot DEF DeleteArticle, TypeOK, OfArticle
<1>2. q.a \in Articles /\ q.a \in Pages
  BY <1>1, CommunityAssumption DEF FoundAt
<1>3. n \in Request /\ n.st = "render" /\ n.a = q.a /\ n.op = q.op /\ n.id = q.id
  BY <1>1, Stages
<1> HIDE DEF n
<1>4. FoundAt(n)
  BY <1>2, <1>3 DEF FoundAt, ToAnnounce
<1>5. \A m \in Request : Step(r, m) => UNCHANGED <<now, requests, reader>> /\ Moves(r, m)
  BY DEF Step, Moves
<1>6. UNCHANGED <<frontends, threads, replies, ids, uncounted>> /\ hurried' = hurried \ {q.a}
  BY DEF DeleteArticle
<1>7. PICK m \in {Free, n} : Step(r, m)
  BY DEF DeleteArticle, Done, n
<1>8. m \in Request /\ FoundAt(m) /\ m.st \notin {"write", "count"}
  BY <1>3, <1>4, FreeType, FreeFound
<1>9. FrontendsTypeOK' /\ Follows'
  <2>1. CASE articles[q.a].id = 0
    <3>1. UNCHANGED <<shown, frontends>>
      BY <1>6, <2>1 DEF DeleteArticle
    <3>2. req[r].st \notin ToAnnounce
      BY <1>1 DEF ToAnnounce
    <3>3. Follows'
      BY <1>1, <1>5, <1>7, <1>8, <3>1, <3>2, KeepsFollows DEF Inv
    <3> QED
      BY <1>1, <3>1, <3>3 DEF FrontendsTypeOK, frontends
  <2>2. CASE articles[q.a].id # 0
    <3>1. Changed(q.a) /\ Step(r, n)
      BY <2>2 DEF DeleteArticle, n
    <3>2. Follows'
      BY <1>1, <1>2, <1>3, <1>5, <1>6, <3>1, ChangeFollows DEF Inv, ToAnnounce
    <3>3. FrontendsTypeOK'
      BY <1>1, <1>2, <1>6, <3>1 DEF FrontendsTypeOK, frontends, Changed
    <3> QED
      BY <3>2, <3>3
  <2> QED
    BY <2>1, <2>2
<1>10. /\ articles' \in [Articles -> [id : {0} \cup Ids, rev : Nat, at : 0 .. MaxTime]]
       /\ \A b \in Articles \ {q.a} : articles'[b] = articles[b]
       /\ articles'[q.a].id = 0 /\ articles'[q.a].at = IF articles[q.a].id = 0 THEN articles[q.a].at ELSE 0
       /\ comments' = {c \in comments : articles[q.a].id = 0 \/ c.article # articles[q.a].id}
       /\ ratings' = {v \in ratings : articles[q.a].id = 0 \/ v.article # articles[q.a].id}
  <2>1. NoArticle \in [id : {0} \cup Ids, rev : Nat, at : 0 .. MaxTime] /\ NoArticle.id = 0 /\ NoArticle.at = 0
    BY SlugType DEF NoArticle
  <2>2. CASE articles[q.a].id = 0
    BY <1>1, <2>2 DEF DeleteArticle, TypeOK
  <2>3. CASE articles[q.a].id # 0
    BY <1>1, <1>2, <2>1, <2>3 DEF DeleteArticle, TypeOK
  <2> QED
    BY <2>2, <2>3
<1>11. TypeOK'
  <2>1. req' \in [Slots -> Request] /\ UNCHANGED <<now, requests, reader>>
    BY <1>1, <1>5, <1>7, <1>8 DEF TypeOK, Moves
  <2>2. /\ comments' \in SUBSET [article : Ids, user : Users]
        /\ ratings' \in SUBSET [article : Ids, user : Users]
        /\ hurried' \subseteq Articles
    BY <1>1, <1>6, <1>10 DEF TypeOK
  <2> QED
    BY <1>1, <1>6, <1>9, <1>10, <2>1, <2>2 DEF TypeOK
<1>12. State'
  <2>1. \A b \in Articles : articles'[b].id \in {0, articles[b].id}
    BY <1>10
  <2> QED
    BY <1>5, <1>6, <1>7, <1>8, <1>11, <2>1, MoveState DEF Inv
<1>13. Counted'
  <2>1. UNCHANGED <<threads, replies, uncounted>> /\ ids' \in Nat /\ ids <= ids'
    BY <1>1, <1>6 DEF TypeOK
  <2> QED
    BY <1>1, <1>5, <1>7, <1>8, <2>1, KeepsCounted DEF Inv
<1>14. RemarksBelong'
  <2>1. ASSUME NEW c \in comments' \cup ratings' PROVE \E b \in Articles : articles'[b].id = c.article
    <3>1. c \in comments \cup ratings /\ (articles[q.a].id = 0 \/ c.article # articles[q.a].id)
      BY <1>10
    <3>2. PICK b \in Articles : articles[b].id = c.article
      BY <3>1 DEF Inv, RemarksBelong, ArticleThere
    <3>3. c.article # 0
      <4>1. comments \cup ratings \subseteq [article : Ids, user : Users]
        BY <1>1 DEF TypeOK
      <4>2. c.article \in Ids
        BY <3>1, <4>1
      <4> QED
        BY <4>2, Sizes
    <3>4. b # q.a
      BY <3>1, <3>2, <3>3
    <3> QED
      BY <1>10, <3>2, <3>4
  <2> QED
    BY <2>1 DEF RemarksBelong, ArticleThere
<1>15. Tags'
  <2>1. UNCHANGED <<now, reader, ids>>
    BY <1>5, <1>6, <1>7, <1>8
  <2>2. ASSUME NEW b \in Articles, b # q.a PROVE TagAt(b)'
    <3>1. b \in hurried' <=> b \in hurried
      BY <1>6, <2>2
    <3> QED
      BY <1>10, <2>1, <2>2, <3>1 DEF Inv, Tags, TagAt, Exists
  <2>3. PICK a \in Articles : a = q.a
    BY <1>2
  <2>4. TagAt(a)'
    <3>1. now \in Nat /\ 0 <= now
      BY <1>1 DEF TypeOK
    <3>2. TagAt(a)
      BY DEF Inv, Tags
    <3>3. articles'[a].at <= now
      BY <1>10, <2>3, <3>1, <3>2 DEF TagAt
    <3>4. ~Exists(a)'
      BY <1>10, <2>3 DEF Exists
    <3> QED
      BY <2>1, <3>2, <3>3, <3>4 DEF TagAt
  <2>5. ASSUME NEW b \in Articles PROVE TagAt(b)'
    BY <2>2, <2>3, <2>4
  <2> QED
    BY <2>5 DEF Tags
<1> QED
  BY <1>9, <1>12, <1>13, <1>14, <1>15 DEF Inv

LEMMA CreateArticleInv ==
    ASSUME Inv, NEW r \in Slots, NEW a \in Articles, CreateArticle(r, a)
    PROVE  Inv'
<1> DEFINE n == [Free EXCEPT !.op = "create", !.st = "read back", !.a = a, !.id = ids']
           row == [id |-> ids + 1, rev |-> requests + 2, at |-> now]
<1>1. TypeOK /\ FrontendsTypeOK /\ a \in Pages
  BY CommunityAssumption DEF Inv, State, TypeOK
<1>2. n \in Request /\ n.st = "read back" /\ n.op = "create" /\ n.a = a
  <2>1. /\ ids \in Nat /\ requests \in Nat /\ requests < MaxRequests /\ ids' = ids + 1
        /\ ids + Cardinality(Opening) <= requests + Cardinality(Articles)
    BY <1>1 DEF CreateArticle, Inv, State, TypeOK, IdsLeft
  <2>2. Cardinality(Opening) \in Nat
    BY SlotSets DEF Opening
  <2>3. ids' \in 0 .. MaxIds
    BY <2>1, <2>2, Sizes, CommunityAssumption DEF MaxIds
  <2> QED
    BY <1>1, <2>3, FreeType DEF Request, Ops
<1>3. FoundAt(n)
  BY <1>2 DEF FoundAt, ToAnnounce, OfArticle
<1>4. /\ req[r].st = "free" /\ requests < MaxRequests /\ articles[a].id = 0
      /\ ids' = ids + 1 /\ requests' = requests + 1
      /\ Changed(a) /\ Moves(r, n)
      /\ UNCHANGED <<frontends, now, comments, ratings, threads, replies, reader, uncounted, hurried>>
  BY DEF CreateArticle, Moves, Exists
<1> HIDE DEF n
<1>5. /\ ids \in Nat /\ requests \in Nat /\ now \in 0 .. MaxTime
      /\ ids + Cardinality(Opening) <= requests + Cardinality(Articles)
      /\ Cardinality(Opening) \in Nat
  <2>1. Cardinality(Opening) \in Nat
    BY SlotSets DEF Opening
  <2> QED
    BY <1>1, <1>4, <2>1 DEF Inv, State, TypeOK, IdsLeft
<1>6. ids' \in 0 .. MaxIds /\ ids' \in Ids /\ requests' \in 0 .. MaxRequests
  BY <1>4, <1>5, Sizes, CommunityAssumption DEF MaxIds
<1>7. articles' = [articles EXCEPT ![a] = row]
  <2>1. ids' = ids + 1 /\ requests' + 1 = requests + 2
    BY <1>4, <1>5
  <2> QED
    BY <2>1 DEF CreateArticle
<1>8. row \in [id : {0} \cup Ids, rev : Nat, at : 0 .. MaxTime]
  BY <1>4, <1>5, <1>6
<1>9. articles'[a] = row /\ \A b \in Articles \ {a} : articles'[b] = articles[b]
  BY <1>1, <1>7 DEF TypeOK
<1>10. TypeOK'
  <2>1. FrontendsTypeOK'
    BY <1>1, <1>4 DEF FrontendsTypeOK, frontends, Changed
  <2>2. articles' \in [Articles -> [id : {0} \cup Ids, rev : Nat, at : 0 .. MaxTime]]
    BY <1>1, <1>7, <1>8 DEF TypeOK
  <2>3. req' \in [Slots -> Request]
    BY <1>1, <1>2, <1>4 DEF TypeOK, Moves
  <2> QED
    BY <1>1, <1>4, <1>6, <2>1, <2>2, <2>3 DEF TypeOK
<1>11. Found'
  <2>1. ASSUME NEW s \in Slots PROVE FoundAt(req[s])'
    <3>1. CASE s = r
      BY <1>1, <1>2, <1>3, <1>4, <3>1, MoveOpening DEF FoundAt, OfArticle
    <3>2. CASE s # r
      <4>1. req'[s] = req[s] /\ FoundAt(req[s])
        BY <1>1, <1>2, <1>4, <3>2, MoveOpening DEF Inv, State, Found
      <4> QED
        BY <1>4, <1>5, <4>1 DEF FoundAt
    <3> QED
      BY <3>1, <3>2
  <2> QED
    BY <2>1 DEF Found
<1>12. IdsLeft'
  <2>1. r \notin Opening'
    BY <1>1, <1>2, <1>4, MoveOpening DEF Opening
  <2>2. Cardinality(Opening') \in Nat /\ Cardinality(Opening') <= Cardinality(Opening)
    BY <1>1, <1>2, <1>4, <2>1, MoveOpening
  <2>3. ids' + Cardinality(Opening') <= requests' + Cardinality(Articles)
    BY <1>4, <1>5, <2>2, Sizes
  <2>4. ASSUME NEW b \in Articles PROVE articles'[b].id <= ids'
    <3>1. articles[b].id <= ids /\ articles[b].id \in Nat
      BY <1>1, Sizes DEF Inv, State, IdsLeft, TypeOK
    <3> QED
      BY <1>4, <1>5, <1>9, <3>1
  <2> QED
    BY <2>3, <2>4 DEF IdsLeft
<1>13. Counted'
  <2>1. UNCHANGED <<threads, replies, uncounted>> /\ ids' \in Nat /\ ids <= ids'
    BY <1>4, <1>5
  <2> QED
    BY <1>1, <1>2, <1>4, <2>1, KeepsCounted DEF Inv
<1>14. RemarksBelong'
  <2>1. ASSUME NEW c \in comments' \cup ratings' PROVE \E b \in Articles : articles'[b].id = c.article
    <3>1. c \in comments \cup ratings /\ c.article # 0
      BY <1>1, <1>4, Sizes DEF TypeOK
    <3>2. PICK b \in Articles : articles[b].id = c.article
      BY <3>1 DEF Inv, RemarksBelong, ArticleThere
    <3> QED
      BY <1>4, <1>9, <3>1, <3>2
  <2> QED
    BY <2>1 DEF RemarksBelong, ArticleThere
<1>15. Follows'
  BY <1>1, <1>2, <1>4, ChangeFollows DEF Inv, ToAnnounce
<1>16. Tags'
  <2>1. ASSUME NEW b \in Articles PROVE TagAt(b)'
    <3>1. TagAt(b) /\ reader[b].tag[1] \in Nat /\ reader'[b] = reader[b]
      BY <1>1, <1>4 DEF Inv, Tags, TypeOK
    <3>2. CASE b = a
      BY <1>4, <1>5, <1>9, <3>1, <3>2 DEF TagAt
    <3>3. CASE b # a
      BY <1>4, <1>5, <1>9, <3>1, <3>3 DEF TagAt, Exists
    <3> QED
      BY <3>2, <3>3
  <2> QED
    BY <2>1 DEF Tags
<1> QED
  BY <1>10, <1>11, <1>12, <1>13, <1>14, <1>15, <1>16 DEF Inv, State

(* Steps of nobody's request. *)
LEMMA SameRequests ==
    ASSUME Inv, TypeOK', UNCHANGED <<ids, threads, replies, req, requests, uncounted>>,
           \A a \in Articles : articles'[a].id = articles[a].id
    PROVE  State' /\ Counted'
<1>1. Found'
  BY DEF Inv, State, Found, FoundAt
<1>2. Opening' = Opening
  BY DEF Opening
<1>3. IdsLeft'
  BY <1>2 DEF Inv, State, IdsLeft
<1>4. Counted'
  BY DEF Inv, Counted, OwnIds, CountedAt, Counting
<1> QED
  BY <1>1, <1>3, <1>4 DEF State

(* Articles rendered anew: what their pages show is another, their text is not. *)
LEMMA RenderedRows ==
    ASSUME Inv, NEW D \in SUBSET {a \in Articles : Exists(a)}, Rendered(D),
           UNCHANGED <<now, reader>>
    PROVE  /\ articles' \in [Articles -> [id : {0} \cup Ids, rev : Nat, at : 0 .. MaxTime]]
           /\ \A b \in Articles : articles'[b].id = articles[b].id
           /\ shown' \in [Pages -> Nat \ {0}]
           /\ \A p \in Pages \ D : shown'[p] = shown[p]
           /\ RemarksBelong' /\ Tags'
<1>1. TypeOK /\ FrontendsTypeOK /\ now \in 0 .. MaxTime
  BY DEF Inv, State, TypeOK
<1>2. /\ \A b \in Articles : /\ articles'[b].id = articles[b].id
                              /\ articles'[b].rev = articles[b].rev
                              /\ articles'[b].at = IF b \in D THEN now ELSE articles[b].at
      /\ articles' \in [Articles -> [id : {0} \cup Ids, rev : Nat, at : 0 .. MaxTime]]
  BY <1>1 DEF Rendered, TypeOK
<1>3. shown' \in [Pages -> Nat \ {0}] /\ \A p \in Pages \ D : shown'[p] = shown[p]
  BY <1>1 DEF Rendered, FrontendsTypeOK
<1>4. RemarksBelong'
  BY <1>2, KeepsRemarks DEF Inv, Rendered
<1>5. ASSUME NEW b \in Articles PROVE TagAt(b)'
  <2>1. TagAt(b) /\ UNCHANGED <<ids, hurried>>
    BY DEF Inv, Tags, Rendered
  <2>2. /\ articles[b].at \in Nat /\ now \in Nat
        /\ reader[b].tag[1] \in Nat /\ reader[b].tag[2] \in Nat
    BY <1>1 DEF TypeOK
  <2> QED
    BY <1>2, <2>1, <2>2 DEF TagAt, Exists
<1> QED
  BY <1>2, <1>3, <1>4, <1>5 DEF Tags

(* Pages nobody is told of, and others that a request is still to announce. *)
LEMMA UntoldFollows ==
    ASSUME TypeOK, Follows, NEW E \in SUBSET Pages, Untold(E),
           \A c \in Clients, p \in Pages \ E :
               /\ Announced(c, p) => Announced(c, p)'
               /\ shown'[p] = shown[p] \/ Announced(c, p)'
    PROVE  Follows'
<1>1. ASSUME NEW c \in Clients, NEW p \in E PROVE Announced(c, p)'
  BY DEF Announced, Untold
<1>2. ASSUME NEW c \in Clients, NEW p \in Pages PROVE FollowsAt(c, p)'
  <2>1. UNCHANGED <<copy, fetch>> /\ FollowsAt(c, p)
    BY DEF Untold, Follows
  <2>2. CASE p \in E
    BY <1>1, <2>1, <2>2 DEF FollowsAt
  <2>3. CASE p \notin E
    BY <2>1, <2>3 DEF FollowsAt
  <2> QED
    BY <2>2, <2>3
<1> QED
  BY <1>2 DEF Follows

LEMMA RenderInv ==
    ASSUME Inv, NEW r \in Slots, Render(r)
    PROVE  Inv'
<1> DEFINE q == req[r] p == [q EXCEPT !.st = "purge"]
<1>1. q \in Request /\ FoundAt(q) /\ q.st = "render" /\ TypeOK /\ FrontendsTypeOK
  BY AtSlot DEF Render, TypeOK
<1>2. q.a \in Articles /\ Pages = Articles
  BY <1>1, CommunityAssumption DEF FoundAt, ToAnnounce
<1>3. p \in Request /\ p.st = "purge" /\ p.a = q.a
  BY <1>1, Stages
<1> DEFINE n == IF q.op = "restore" THEN Free ELSE p
<1>4. /\ n \in Request /\ n.st \notin {"write", "count"} /\ FoundAt(n)
      /\ q.op # "restore" => n.st = "purge" /\ n.a = q.a
  BY <1>2, <1>3, FreeType, FreeFound DEF FoundAt, ToAnnounce
<1>5. Step(r, n)
  BY DEF Render, Done
<1>6. PICK D \in SUBSET {a \in Articles : Exists(a)} :
         /\ Rendered(D)
         /\ Untold(IF q.op = "restore" THEN D \cup {q.a} ELSE D \ {q.a})
  BY DEF Render, RenderAfter, RenderedFor
<1> DEFINE E == IF q.op = "restore" THEN D \cup {q.a} ELSE D \ {q.a}
<1> HIDE DEF n, p
<1>7. Moves(r, n) /\ UNCHANGED <<now, requests, reader>>
  BY <1>5 DEF Step, Moves
<1>8. req'[r] = n /\ \A s \in Slots \ {r} : req'[s] = req[s]
  BY <1>1, <1>7 DEF Moves, TypeOK
<1>9. /\ articles' \in [Articles -> [id : {0} \cup Ids, rev : Nat, at : 0 .. MaxTime]]
      /\ \A b \in Articles : articles'[b].id = articles[b].id
      /\ shown' \in [Pages -> Nat \ {0}]
      /\ \A x \in Pages \ D : shown'[x] = shown[x]
      /\ RemarksBelong' /\ Tags'
  BY <1>6, <1>7, RenderedRows
<1>10. Follows'
  <2>1. E \in SUBSET Pages /\ Untold(E)
    BY <1>2, <1>6
  <2>2. ASSUME NEW c \in Clients, NEW x \in Pages \ E
        PROVE  /\ Announced(c, x) => Announced(c, x)'
               /\ shown'[x] = shown[x] \/ Announced(c, x)'
    <3>1. CASE x = q.a
      <4>1. q.op # "restore"
        BY <2>2, <3>1
      <4>2. Announced(c, x)'
        BY <1>4, <1>8, <3>1, <4>1 DEF Announced, ToAnnounce
      <4> QED
        BY <4>2
    <3>2. CASE x # q.a
      <4>1. x \notin D
        BY <2>2, <3>2
      <4>2. Announced(c, x) => Announced(c, x)'
        BY <1>8, <2>1, <3>2 DEF Announced, PurgeUnderWay, Untold
      <4> QED
        BY <1>9, <4>1, <4>2
    <3> QED
      BY <3>1, <3>2
  <2> HIDE DEF E
  <2> QED
    BY <1>1, <2>1, <2>2, UntoldFollows DEF Inv
<1>11. TypeOK'
  <2>1. FrontendsTypeOK'
    BY <1>1, <1>2, <1>6, <1>9 DEF FrontendsTypeOK, Untold
  <2>2. req' \in [Slots -> Request]
    BY <1>1, <1>4, <1>7 DEF TypeOK, Moves
  <2> QED
    BY <1>1, <1>6, <1>7, <1>9, <2>1, <2>2 DEF TypeOK, Rendered
<1>12. UNCHANGED <<threads, replies, uncounted, ids>> /\ ids \in Nat
  BY <1>1, <1>6 DEF Rendered, TypeOK
<1>13. State'
  BY <1>4, <1>7, <1>9, <1>11, <1>12, MoveState DEF Inv
<1>14. Counted'
  BY <1>1, <1>4, <1>7, <1>12, KeepsCounted DEF Inv
<1> QED
  BY <1>9, <1>10, <1>13, <1>14 DEF Inv

LEMMA CompiledInv ==
    ASSUME Inv, Compiled
    PROVE  Inv'
<1>1. TypeOK /\ FrontendsTypeOK /\ Pages = Articles
  BY CommunityAssumption DEF Inv, State, TypeOK
<1>2. PICK D \in SUBSET {a \in Articles : Exists(a)} : Rendered(D) /\ Untold(D)
  BY DEF Compiled
<1>3. UNCHANGED <<now, req, reader>> /\ requests' = requests + 1 /\ requests < MaxRequests
  BY DEF Compiled
<1>4. /\ articles' \in [Articles -> [id : {0} \cup Ids, rev : Nat, at : 0 .. MaxTime]]
      /\ \A b \in Articles : articles'[b].id = articles[b].id
      /\ shown' \in [Pages -> Nat \ {0}]
      /\ \A x \in Pages \ D : shown'[x] = shown[x]
      /\ RemarksBelong' /\ Tags'
  BY <1>2, <1>3, RenderedRows
<1>5. UNCHANGED <<threads, replies, uncounted, ids>>
  BY <1>2 DEF Rendered
<1>6. Follows'
  <2>1. \A c \in Clients, x \in Pages \ D :
           /\ Announced(c, x) => Announced(c, x)'
           /\ shown'[x] = shown[x] \/ Announced(c, x)'
    BY <1>2, <1>3, <1>4 DEF Announced, PurgeUnderWay, Untold
  <2>2. D \in SUBSET Pages
    BY <1>1
  <2> QED
    BY <1>1, <1>2, <2>1, <2>2, UntoldFollows DEF Inv
<1>7. TypeOK'
  <2>1. FrontendsTypeOK'
    BY <1>1, <1>2, <1>4 DEF FrontendsTypeOK, Untold
  <2>2. requests' \in 0 .. MaxRequests
    BY <1>1, <1>3, CommunityAssumption DEF TypeOK
  <2> QED
    BY <1>1, <1>2, <1>3, <1>4, <2>1, <2>2 DEF TypeOK, Rendered
<1>8. State' /\ Counted'
  <2>1. Found'
    BY <1>3, <1>5 DEF Inv, State, Found, FoundAt
  <2>2. Opening' = Opening /\ Cardinality(Opening) \in Nat
    BY <1>3, SlotSets DEF Opening
  <2>3. IdsLeft'
    BY <1>1, <1>3, <1>4, <1>5, <2>2, Sizes DEF Inv, State, IdsLeft, TypeOK
  <2>4. Counted'
    BY <1>3, <1>5 DEF Inv, Counted, OwnIds, CountedAt, Counting
  <2> QED
    BY <1>7, <2>1, <2>3, <2>4 DEF State
<1> QED
  BY <1>4, <1>6, <1>8 DEF Inv

LEMMA SaveRenderedInv ==
    ASSUME Inv, NEW a \in Articles, SaveRendered(a)
    PROVE  Inv'
<1>1. /\ Written(a, articles[a].rev) /\ articles[a].rev \in Nat /\ Exists(a)
      /\ UNCHANGED <<now, reader, shown, frontends, req, requests>>
  BY DEF SaveRendered, Inv, State, TypeOK
<1>2. /\ articles' \in [Articles -> [id : {0} \cup Ids, rev : Nat, at : 0 .. MaxTime]]
      /\ hurried' \subseteq Articles
      /\ \A b \in Articles : articles'[b].id = articles[b].id
      /\ Tags'
  BY <1>1, WrittenRow
<1>3. UNCHANGED <<comments, ratings, threads, replies, ids, uncounted>>
  BY <1>1 DEF Written
<1>4. TypeOK'
  BY <1>1, <1>2, <1>3 DEF Inv, State, TypeOK, FrontendsTypeOK, frontends
<1>5. State' /\ Counted'
  BY <1>1, <1>2, <1>3, <1>4, SameRequests
<1>6. RemarksBelong'
  BY <1>2, <1>3, KeepsRemarks DEF Inv
<1>7. Follows'
  BY <1>1 DEF Inv, Follows, FollowsAt, Announced, PurgeUnderWay, frontends
<1> QED
  BY <1>2, <1>5, <1>6, <1>7 DEF Inv

LEMMA GetArticleInv ==
    ASSUME Inv, NEW a \in Articles, GetArticle(a)
    PROVE  Inv'
<1> DEFINE got == [tag |-> ETag(a), rev |-> articles[a].rev]
<1>1. TypeOK
  BY DEF Inv, State
<1>2. /\ got \in [tag : Nat \X (0 .. MaxTime), rev : Nat]
      /\ got.tag[1] = articles[a].id /\ got.tag[2] = articles[a].at /\ got.rev = articles[a].rev
      /\ articles[a].id \in Nat /\ articles[a].at \in Nat
  <2>1. articles[a] \in [id : {0} \cup Ids, rev : Nat, at : 0 .. MaxTime]
    BY <1>1 DEF TypeOK
  <2>2. articles[a].id \in Nat /\ articles[a].at \in Nat
    BY <2>1, Sizes
  <2>3. ETag(a) = <<articles[a].id, articles[a].at>>
    BY DEF ETag
  <2> QED
    BY <2>1, <2>2, <2>3
<1>3. /\ reader' = [reader EXCEPT ![a] = got]
      /\ UNCHANGED <<shown, frontends, now, tables, req, requests, uncounted, hurried>>
  BY DEF GetArticle
<1> HIDE DEF got
<1>4. TypeOK'
  BY <1>1, <1>2, <1>3 DEF TypeOK, FrontendsTypeOK, frontends, tables
<1>5. State' /\ Counted'
  BY <1>3, <1>4, SameRequests DEF tables
<1>6. RemarksBelong'
  BY <1>3, KeepsRemarks DEF Inv, tables
<1>7. Follows'
  BY <1>3 DEF Inv, Follows, FollowsAt, Announced, PurgeUnderWay, frontends
<1>8. Tags'
  <2>1. ASSUME NEW b \in Articles PROVE TagAt(b)'
    <3>1. TagAt(b) /\ articles[b].id <= ids
      BY DEF Inv, State, Tags, IdsLeft
    <3>2. CASE b = a
      BY <1>1, <1>2, <1>3, <3>1, <3>2 DEF TagAt, tables, TypeOK
    <3>3. CASE b # a
      BY <1>1, <1>3, <3>1, <3>3 DEF TagAt, Exists, tables, TypeOK
    <3> QED
      BY <3>2, <3>3
  <2> QED
    BY <2>1 DEF Tags
<1> QED
  BY <1>5, <1>6, <1>7, <1>8 DEF Inv

LEMMA TickInv ==
    ASSUME Inv, Tick
    PROVE  Inv'
<1>1. now' = now + 1 /\ now \in Nat /\ now' \in 1 .. MaxTime
  BY CommunityAssumption DEF Tick, Inv, State, TypeOK
<1>2. UNCHANGED <<shown, frontends, tables, req, requests, reader, uncounted, hurried>>
  BY DEF Tick
<1>3. TypeOK'
  BY <1>1, <1>2 DEF Inv, State, TypeOK, FrontendsTypeOK, frontends, tables
<1>4. State' /\ Counted'
  BY <1>2, <1>3, SameRequests DEF tables
<1>5. RemarksBelong'
  BY <1>2, KeepsRemarks DEF Inv, tables
<1>6. Follows'
  BY <1>2 DEF Inv, Follows, FollowsAt, Announced, PurgeUnderWay, frontends
<1>7. Tags'
  <2>1. \A a \in Articles : articles[a].at \in Nat
    BY DEF Inv, State, TypeOK
  <2> QED
    BY <1>1, <1>2, <2>1 DEF Inv, Tags, TagAt, Exists, tables
<1> QED
  BY <1>4, <1>5, <1>6, <1>7 DEF Inv

-----------------------------------------------------------------------------
(* Discussions *)

(* What these steps leave alone. *)
LEMMA OnlyDiscussions ==
    ASSUME Inv, UNCHANGED <<shown, frontends, articles, comments, ratings, now, reader, hurried>>,
           TypeOK', ids <= ids', NEW r \in Slots, NEW q \in Request, Moves(r, q),
           req[r].st \in {"write", "count"}
    PROVE  RemarksBelong' /\ Follows' /\ Tags'
<1>1. TypeOK /\ ids' \in Nat
  BY DEF Inv, State, TypeOK
<1>2. RemarksBelong'
  BY KeepsRemarks DEF Inv
<1>3. Follows'
  BY <1>1, KeepsFollows DEF Inv, ToAnnounce
<1>4. Tags'
  BY <1>1, KeepsTags DEF Inv
<1> QED
  BY <1>2, <1>3, <1>4

LEMMA InsertDiscussionInv ==
    ASSUME Inv, NEW r \in Slots, InsertDiscussion(r)
    PROVE  Inv'
<1> DEFINE q == req[r] d0 == [id |-> ids + 1, slug |-> q.t, by |-> q.u, count |-> 0]
<1>1. q \in Request /\ q.st = "write" /\ q.op = "open" /\ TypeOK /\ r \in Opening
  BY AtSlot DEF InsertDiscussion, Opening
<1>2. /\ Moves(r, Free) /\ Free \in Request /\ Free.st = "free" /\ UNCHANGED <<now, requests, reader>>
      /\ UNCHANGED <<shown, frontends, articles, comments, ratings, replies, uncounted, hurried>>
  BY FreeType DEF InsertDiscussion, Done, Step, Moves
<1>3. r \notin Opening'
  BY <1>1, <1>2, MoveOpening DEF Opening
<1>4. Cardinality(Opening) \in Nat /\ Cardinality(Opening') = Cardinality(Opening) - 1 /\ Cardinality(Opening') \in Nat
  BY <1>1, <1>2, <1>3, MoveOpening
<1>5. ids \in Nat /\ requests \in 0 .. MaxRequests /\ ids + Cardinality(Opening) <= requests + Cardinality(Articles)
  BY <1>1 DEF Inv, State, IdsLeft, TypeOK
<1>6. ids + 1 \in Ids /\ ids + 1 \in 0 .. MaxIds
  BY <1>4, <1>5, Sizes, CommunityAssumption DEF MaxIds
<1>7. \/ ids' = ids /\ threads' = threads
      \/ ids' = ids + 1 /\ threads' = threads \cup {d0}
  BY DEF InsertDiscussion
<1>8. d0 \in [id : Ids, slug : Slugs, by : Users, count : Nat] /\ d0.id = ids + 1 /\ d0.count = 0
  BY <1>1, <1>6 DEF Request
<1> HIDE DEF d0
<1>9. ids' \in 0 .. MaxIds /\ ids <= ids' /\ ids' <= ids + 1 /\ ids' \in Nat
  BY <1>1, <1>5, <1>6, <1>7 DEF TypeOK
<1>10. TypeOK'
  <2>1. threads' \in SUBSET [id : Ids, slug : Slugs, by : Users, count : Nat]
    BY <1>1, <1>7, <1>8 DEF TypeOK
  <2>2. req' \in [Slots -> Request]
    BY <1>1, <1>2 DEF TypeOK, Moves
  <2> QED
    BY <1>1, <1>2, <1>9, <2>1, <2>2 DEF TypeOK, FrontendsTypeOK, frontends
<1>11. Found'
  <2>1. ASSUME NEW s \in Slots PROVE FoundAt(req[s])'
    <3>1. CASE s = r
      BY <1>1, <1>2, <3>1, MoveOpening, FreeType DEF FoundAt, ToAnnounce
    <3>2. CASE s # r
      <4>1. req'[s] = req[s] /\ FoundAt(req[s])
        BY <1>1, <1>2, <3>2, MoveOpening DEF Inv, State, Found
      <4> QED
        BY <1>5, <1>9, <4>1 DEF FoundAt
    <3> QED
      BY <3>1, <3>2
  <2> QED
    BY <2>1 DEF Found
<1>12. IdsLeft'
  <2>1. ids' + Cardinality(Opening') <= requests' + Cardinality(Articles)
    BY <1>2, <1>4, <1>5, <1>9, Sizes
  <2>2. ASSUME NEW b \in Articles PROVE articles'[b].id <= ids'
    <3>1. articles[b].id <= ids /\ articles[b].id \in Nat
      BY <1>1, Sizes DEF Inv, State, IdsLeft, TypeOK
    <3> QED
      BY <1>2, <1>5, <1>9, <3>1
  <2> QED
    BY <2>1, <2>2 DEF IdsLeft
<1>13. Counted'
  <2>1. CASE ids' = ids /\ threads' = threads
    BY <1>1, <1>2, <1>9, <2>1, KeepsCounted DEF Inv
  <2>2. CASE ids' = ids + 1 /\ threads' = threads \cup {d0}
    <3>1. \A i \in Ids : Counting(i)' = Counting(i)
      BY <1>1, <1>2 DEF Counting, Moves, TypeOK
    <3>2. \A d \in threads : d.id \in Ids /\ d.id <= ids
      BY <1>1 DEF TypeOK, Inv, Counted, OwnIds
    <3>3. OwnIds'
      <4>1. \A d \in threads' : d.id <= ids'
        BY <1>5, <1>8, <2>2, <3>2, Sizes
      <4>2. ASSUME NEW d \in threads', NEW e \in threads', d.id = e.id PROVE d = e
        BY <1>5, <1>8, <2>2, <3>2, <4>2, Sizes DEF Inv, Counted, OwnIds
      <4>3. ASSUME NEW i \in Ids, i > ids' PROVE replies'[i] = 0 /\ uncounted'[i] = 0
        <5>1. i > ids
          BY <1>5, <2>2, <4>3, Sizes
        <5> QED
          BY <1>2, <5>1 DEF Inv, Counted, OwnIds
      <4> QED
        BY <4>1, <4>2, <4>3 DEF OwnIds
    <3>4. ASSUME NEW d \in threads PROVE CountedAt(d)'
      BY <1>2, <3>1, <3>2 DEF Inv, Counted, CountedAt
    <3>5. ASSUME NEW d, d = d0 PROVE CountedAt(d)'
      <4>1. replies[d.id] = 0 /\ uncounted[d.id] = 0
        BY <1>5, <1>6, <1>8, <3>5 DEF Inv, Counted, OwnIds
      <4>2. \A s \in Slots : req[s].st = "count" => req[s].id # d.id
        BY <1>5, <1>8, <3>5 DEF Inv, State, Found, FoundAt
      <4>3. Counting(d.id)' = {}
        BY <1>6, <1>8, <3>1, <3>5, <4>2 DEF Counting
      <4> QED
        BY <1>2, <1>8, <3>5, <4>1, <4>3, FS_EmptySet DEF CountedAt
    <3> QED
      BY <2>2, <3>3, <3>4, <3>5 DEF Counted
  <2> QED
    BY <1>7, <2>1, <2>2
<1> QED
  BY <1>1, <1>2, <1>9, <1>10, <1>11, <1>12, <1>13, OnlyDiscussions DEF Inv, State

LEMMA InsertReplyInv ==
    ASSUME Inv, NEW r \in Slots, InsertReply(r)
    PROVE  Inv'
<1> DEFINE q == req[r] n == [q EXCEPT !.st = "count"]
<1>1. q \in Request /\ q.st = "write" /\ q.op = "reply" /\ TypeOK /\ q.id \in 1 .. ids
  BY AtSlot DEF InsertReply, FoundAt
<1>2. CASE ~ThreadThere(q.id)
  BY <1>1, <1>2, Stops DEF InsertReply, ToAnnounce, tables, TypeOK
<1>3. CASE ThreadThere(q.id)
  <2>1. n \in Request /\ n.st = "count" /\ n.op = "reply" /\ n.id = q.id
    BY <1>1, Stages
  <2>2. /\ Moves(r, n) /\ UNCHANGED <<now, requests, reader>>
        /\ UNCHANGED <<shown, frontends, articles, comments, ratings, threads, ids, uncounted, hurried>>
        /\ replies' = [replies EXCEPT ![q.id] = @ + 1]
    BY <1>3 DEF InsertReply, Step, Moves
  <2> HIDE DEF n
  <2>3. PICK i \in Ids : i = q.id /\ i <= ids
    BY <1>1, Sizes DEF TypeOK
  <2>4. FoundAt(n)
    BY <1>1, <2>1 DEF FoundAt, ToAnnounce, OfArticle
  <2>5. /\ replies' \in [Ids -> Nat] /\ replies'[i] = replies[i] + 1 /\ ids \in Nat
        /\ \A j \in Ids \ {i} : replies'[j] = replies[j]
    BY <1>1, <2>2, <2>3 DEF TypeOK
  <2>6. TypeOK'
    <3>1. req' \in [Slots -> Request]
      BY <1>1, <2>1, <2>2 DEF TypeOK, Moves
    <3> QED
      BY <1>1, <2>2, <2>5, <3>1 DEF TypeOK, FrontendsTypeOK, frontends
  <2>7. State'
    BY <2>1, <2>2, <2>4, <2>6, MoveState DEF Inv
  <2>8. /\ \A j \in Ids \ {i} : Counting(j)' = Counting(j)
        /\ Counting(i)' = Counting(i) \cup {r} /\ r \in Slots \ Counting(i)
    BY <1>1, <2>1, <2>2, <2>3 DEF Counting, Moves, TypeOK
  <2>9. Cardinality(Counting(i)') = Cardinality(Counting(i)) + 1 /\ Cardinality(Counting(i)) \in Nat
    <3>1. Counting(i) \in SUBSET Slots
      BY DEF Counting
    <3> QED
      BY <2>8, <3>1, SlotSets
  <2>10. OwnIds'
    <3>1. ASSUME NEW j \in Ids, j > ids PROVE replies'[j] = 0
      BY <2>3, <2>5, <3>1, Sizes DEF Inv, Counted, OwnIds
    <3> QED
      BY <2>2, <3>1 DEF Inv, Counted, OwnIds
  <2>11. ASSUME NEW d \in threads PROVE CountedAt(d)'
    <3>1. d.id \in Ids /\ d.count \in Nat /\ CountedAt(d) /\ uncounted[d.id] \in Nat /\ replies[d.id] \in Nat
      BY <1>1 DEF Inv, Counted, TypeOK
    <3>2. CASE d.id = i
      BY <2>2, <2>5, <2>9, <3>1, <3>2 DEF CountedAt
    <3>3. CASE d.id # i
      BY <2>2, <2>5, <2>8, <3>1, <3>3 DEF CountedAt
    <3> QED
      BY <3>2, <3>3
  <2>12. Counted'
    BY <2>2, <2>10, <2>11 DEF Counted
  <2>13. ids <= ids'
    BY <2>2, <2>5
  <2> QED
    BY <1>1, <2>1, <2>2, <2>6, <2>7, <2>12, <2>13, OnlyDiscussions DEF Inv
<1> QED
  BY <1>2, <1>3

LEMMA CountReplyInv ==
    ASSUME Inv, NEW r \in Slots, CountReply(r)
    PROVE  Inv'
<1> DEFINE Up(d, i) == IF d.id = i THEN [d EXCEPT !.count = @ + 1] ELSE d
<1>1. req[r] \in Request /\ req[r].st = "count" /\ TypeOK /\ req[r].id \in 1 .. ids
  BY AtSlot DEF CountReply, FoundAt
<1>2. PICK i \in Ids : i = req[r].id /\ i <= ids
  BY <1>1, Sizes DEF TypeOK
<1>3. /\ Moves(r, Free) /\ Free \in Request /\ Free.st = "free" /\ UNCHANGED <<now, requests, reader>>
      /\ UNCHANGED <<shown, frontends, articles, comments, ratings, replies, ids, hurried>>
      /\ \/ threads' = {Up(d, i) : d \in threads} /\ UNCHANGED uncounted
         \/ uncounted' = [uncounted EXCEPT ![i] = @ + 1] /\ UNCHANGED threads
  BY <1>2, FreeType DEF CountReply, Done, Step, Moves
<1>4. ASSUME NEW d \in threads
      PROVE  /\ Up(d, i) \in [id : Ids, slug : Slugs, by : Users, count : Nat]
             /\ Up(d, i).id = d.id
             /\ Up(d, i).count = IF d.id = i THEN d.count + 1 ELSE d.count
  <2>1. d \in [id : Ids, slug : Slugs, by : Users, count : Nat]
    BY <1>1 DEF TypeOK
  <2> QED
    BY <2>1
<1> HIDE DEF Up
<1>5. /\ uncounted' \in [Ids -> Nat]
      /\ \A j \in Ids \ {i} : uncounted'[j] = uncounted[j]
  BY <1>1, <1>3 DEF TypeOK
<1>6. /\ \A j \in Ids \ {i} : Counting(j)' = Counting(j)
      /\ Counting(i)' = Counting(i) \ {r} /\ r \in Counting(i)
  BY <1>1, <1>2, <1>3 DEF Counting, Moves, TypeOK
<1>7. Cardinality(Counting(i)') = Cardinality(Counting(i)) - 1 /\ Cardinality(Counting(i)) \in Nat
  <2>1. Counting(i) \in SUBSET Slots
    BY DEF Counting
  <2> QED
    BY <1>6, <2>1, SlotSets
<1>8. TypeOK'
  <2>1. req' \in [Slots -> Request]
    BY <1>1, <1>3 DEF TypeOK, Moves
  <2>2. threads' \in SUBSET [id : Ids, slug : Slugs, by : Users, count : Nat]
    BY <1>1, <1>3, <1>4 DEF TypeOK
  <2> QED
    BY <1>1, <1>3, <1>5, <2>1, <2>2 DEF TypeOK, FrontendsTypeOK, frontends
<1>9. State'
  BY <1>1, <1>3, <1>8, FreeFound, MoveState DEF Inv
<1>10. OwnIds'
  <2>1. ASSUME NEW j \in Ids, j > ids PROVE uncounted'[j] = 0
    BY <1>1, <1>2, <1>5, <2>1, Sizes DEF Inv, Counted, OwnIds, TypeOK
  <2>2. CASE threads' = threads
    BY <1>3, <2>1, <2>2 DEF Inv, Counted, OwnIds
  <2>3. CASE threads' = {Up(d, i) : d \in threads}
    <3>1. \A d \in threads' : d.id <= ids'
      BY <1>3, <1>4, <2>3 DEF Inv, Counted, OwnIds
    <3>2. \A d, e \in threads' : d.id = e.id => d = e
      BY <1>4, <2>3 DEF Inv, Counted, OwnIds
    <3> QED
      BY <1>3, <2>1, <3>1, <3>2 DEF Inv, Counted, OwnIds
  <2> QED
    BY <1>3, <2>2, <2>3
<1>11. ASSUME NEW d \in threads
       PROVE  /\ d.id \in Ids /\ d.count \in Nat /\ uncounted[d.id] \in Nat /\ replies[d.id] \in Nat
              /\ CountedAt(d)
  BY <1>1 DEF Inv, Counted, TypeOK
<1>12. CASE threads' = {Up(d, i) : d \in threads} /\ UNCHANGED uncounted
  <2>1. ASSUME NEW d \in threads, NEW e, e = Up(d, i) PROVE CountedAt(e)'
    <3>1. CASE d.id = i
      BY <1>3, <1>4, <1>7, <1>11, <1>12, <2>1, <3>1 DEF CountedAt
    <3>2. CASE d.id # i
      BY <1>3, <1>4, <1>6, <1>11, <1>12, <2>1, <3>2 DEF CountedAt
    <3> QED
      BY <3>1, <3>2
  <2>2. ASSUME NEW e \in threads' PROVE CountedAt(e)'
    BY <1>12, <2>1
  <2>3. Counted'
    BY <1>10, <2>2 DEF Counted
  <2> QED
    BY <1>1, <1>3, <1>8, <1>9, <2>3, OnlyDiscussions DEF Inv, TypeOK
<1>13. CASE uncounted' = [uncounted EXCEPT ![i] = @ + 1] /\ UNCHANGED threads
  <2>1. uncounted'[i] = uncounted[i] + 1
    BY <1>1, <1>13 DEF TypeOK
  <2>2. ASSUME NEW d \in threads PROVE CountedAt(d)'
    <3>1. CASE d.id = i
      BY <1>3, <1>7, <1>11, <2>1, <3>1 DEF CountedAt
    <3>2. CASE d.id # i
      BY <1>3, <1>5, <1>6, <1>11, <3>2 DEF CountedAt
    <3> QED
      BY <3>1, <3>2
  <2>3. Counted'
    BY <1>10, <1>13, <2>2 DEF Counted
  <2> QED
    BY <1>1, <1>3, <1>8, <1>9, <2>3, OnlyDiscussions DEF Inv, TypeOK
<1> QED
  BY <1>3, <1>12, <1>13

LEMMA DeleteDiscussionInv ==
    ASSUME Inv, NEW r \in Slots, DeleteDiscussion(r)
    PROVE  Inv'
<1>1. req[r] \in Request /\ req[r].st = "write" /\ TypeOK /\ req[r].id \in 1 .. ids
  BY AtSlot DEF DeleteDiscussion, FoundAt
<1>2. PICK i \in Ids : i = req[r].id /\ i <= ids
  BY <1>1, Sizes DEF TypeOK
<1>3. /\ Moves(r, Free) /\ Free \in Request /\ Free.st = "free" /\ UNCHANGED <<now, requests, reader>>
      /\ UNCHANGED <<shown, frontends, articles, comments, ratings, ids, uncounted, hurried>>
      /\ threads' = {d \in threads : d.id # i} /\ replies' = [replies EXCEPT ![i] = 0]
  BY <1>2, FreeType DEF DeleteDiscussion, Done, Step, Moves
<1>4. replies' \in [Ids -> Nat] /\ replies'[i] = 0 /\ \A j \in Ids \ {i} : replies'[j] = replies[j]
  BY <1>1, <1>3 DEF TypeOK
<1>5. TypeOK'
  <2>1. req' \in [Slots -> Request]
    BY <1>1, <1>3 DEF TypeOK, Moves
  <2>2. threads' \in SUBSET [id : Ids, slug : Slugs, by : Users, count : Nat]
    BY <1>1, <1>3 DEF TypeOK
  <2> QED
    BY <1>1, <1>3, <1>4, <2>1, <2>2 DEF TypeOK, FrontendsTypeOK, frontends
<1>6. State'
  BY <1>1, <1>3, <1>5, FreeFound, MoveState DEF Inv
<1>7. \A j \in Ids : Counting(j)' = Counting(j)
  BY <1>1, <1>3 DEF Counting, Moves, TypeOK
<1>8. OwnIds'
  BY <1>3, <1>4 DEF Inv, Counted, OwnIds
<1>9. ASSUME NEW d \in threads' PROVE CountedAt(d)'
  <2>1. d \in threads /\ d.id \in Ids \ {i} /\ CountedAt(d)
    BY <1>1, <1>3 DEF Inv, Counted, TypeOK
  <2> QED
    BY <1>3, <1>4, <1>7, <2>1 DEF CountedAt
<1>10. Counted'
  BY <1>8, <1>9 DEF Counted
<1> QED
  BY <1>1, <1>3, <1>5, <1>6, <1>10, OnlyDiscussions DEF Inv, TypeOK

-----------------------------------------------------------------------------
(* The frontends *)

(* One copy of one frontend changes; q says what becomes of the rest. *)
LEMMA OneCopy ==
    ASSUME Inv, UNCHANGED <<shown, rest>>, FrontendsTypeOK', NEW c \in Clients, NEW p \in Pages,
           \A d \in Clients, q \in Pages : d # c \/ q # p =>
              /\ copy'[d][q] = copy[d][q] /\ fetch'[d][q] = fetch[d][q]
              /\ purges'[d][q] = purges[d][q] /\ (<<d, q>> \in missed' <=> <<d, q>> \in missed),
           FollowsAt(c, p)'
    PROVE  Inv'
<1>1. TypeOK'
  BY DEF Inv, State, TypeOK, rest, tables
<1>2. State' /\ Counted'
  BY <1>1, SameRequests DEF rest, tables
<1>3. RemarksBelong'
  BY KeepsRemarks DEF Inv, rest, tables
<1>4. Tags'
  BY DEF Inv, Tags, TagAt, Exists, rest, tables
<1>5. ASSUME NEW d \in Clients, NEW q \in Pages PROVE FollowsAt(d, q)'
  <2>1. CASE d = c /\ q = p
    BY <2>1
  <2>2. CASE d # c \/ q # p
    <3>1. UNCHANGED <<shown, req>>
      BY DEF rest
    <3> QED
      BY <2>2, <3>1 DEF Inv, Follows, FollowsAt, Announced, PurgeUnderWay
  <2> QED
    BY <2>1, <2>2
<1> QED
  BY <1>2, <1>3, <1>4, <1>5 DEF Inv, Follows

LEMMA FrontendsInv ==
    ASSUME Inv, FrontendsNext, UNCHANGED rest
    PROVE  Inv'
<1>1. /\ FrontendsTypeOK /\ UNCHANGED req
      /\ \A c \in Clients : /\ copy[c] \in [Pages -> Nat] /\ fetch[c] \in [Pages -> Nat]
                            /\ purges[c] \in [Pages -> Nat]
  BY DEF Inv, State, TypeOK, FrontendsTypeOK, rest
<1>2. PICK c \in Clients, p \in Pages :
        Deliver(c, p) \/ Undelivered(c, p) \/ Fetch(c, p) \/ Store(c, p) \/ Expire(c, p)
  BY DEF FrontendsNext
<1>3. FollowsAt(c, p)
  BY DEF Inv, Follows
<1> DEFINE Others == \A d \in Clients, q \in Pages : d # c \/ q # p =>
              /\ copy'[d][q] = copy[d][q] /\ fetch'[d][q] = fetch[d][q]
              /\ purges'[d][q] = purges[d][q] /\ (<<d, q>> \in missed' <=> <<d, q>> \in missed)
<1>4. CASE Deliver(c, p)
  <2>1. FrontendsTypeOK' /\ copy'[c][p] = 0 /\ UNCHANGED <<shown, fetch>>
    BY <1>1, <1>4 DEF Deliver, FrontendsTypeOK
  <2>2. Others
    BY <1>1, <1>4 DEF Deliver, FrontendsTypeOK
  <2>3. fetch[c][p] \notin {0, shown[p]} => <<c, p>> \in missed'
    BY <1>4 DEF Deliver
  <2>4. FollowsAt(c, p)'
    BY <2>1, <2>3 DEF FollowsAt, Announced
  <2> QED
    BY <2>1, <2>2, <2>4, OneCopy
<1>5. CASE Undelivered(c, p)
  <2>1. FrontendsTypeOK' /\ <<c, p>> \in missed' /\ UNCHANGED <<shown, copy, fetch>>
    BY <1>1, <1>5 DEF Undelivered, FrontendsTypeOK
  <2>2. Others
    BY <1>1, <1>5 DEF Undelivered, FrontendsTypeOK
  <2>3. FollowsAt(c, p)'
    BY <1>3, <2>1 DEF FollowsAt, Announced
  <2> QED
    BY <2>1, <2>2, <2>3, OneCopy
<1>6. CASE Fetch(c, p)
  <2>1. FrontendsTypeOK' /\ copy'[c][p] = 0 /\ fetch'[c][p] = shown[p] /\ UNCHANGED shown
    BY <1>1, <1>6 DEF Fetch, FrontendsTypeOK
  <2>2. Others
    BY <1>1, <1>6 DEF Fetch, FrontendsTypeOK
  <2>3. FollowsAt(c, p)'
    BY <2>1 DEF FollowsAt
  <2> QED
    BY <2>1, <2>2, <2>3, OneCopy
<1>7. CASE Store(c, p)
  <2>1. /\ FrontendsTypeOK' /\ copy'[c][p] = fetch[c][p] /\ fetch'[c][p] = 0
        /\ UNCHANGED <<shown, purges, missed>>
    BY <1>1, <1>7 DEF Store, FrontendsTypeOK
  <2>2. Others
    BY <1>1, <1>7 DEF Store, FrontendsTypeOK
  <2>3. FollowsAt(c, p)'
    BY <1>1, <1>3, <2>1 DEF FollowsAt, Announced, PurgeUnderWay
  <2> QED
    BY <2>1, <2>2, <2>3, OneCopy
<1>8. CASE Expire(c, p)
  <2>1. FrontendsTypeOK' /\ copy'[c][p] = 0 /\ fetch'[c][p] = fetch[c][p] /\ UNCHANGED shown
    BY <1>1, <1>8 DEF Expire, FrontendsTypeOK
  <2>2. Others
    BY <1>1, <1>8 DEF Expire, FrontendsTypeOK
  <2>3. FollowsAt(c, p)'
    BY <1>3, <1>8, <2>1 DEF FollowsAt, Expire
  <2> QED
    BY <2>1, <2>2, <2>3, OneCopy
<1> QED
  BY <1>2, <1>4, <1>5, <1>6, <1>7, <1>8

-----------------------------------------------------------------------------
(* The theorems *)

LEMMA InitInv == Init => Inv
<1> SUFFICES ASSUME Init PROVE Inv
  OBVIOUS
<1>1. PICK f \in [Articles -> 1 .. Cardinality(Articles)] :
        articles = [a \in Articles |-> [id |-> f[a], rev |-> 1, at |-> 1]]
  BY DEF Init
<1>2. \A a \in Articles : f[a] \in Ids /\ f[a] <= Cardinality(Articles)
  BY <1>1, Sizes, CommunityAssumption DEF MaxIds
<1>3. /\ ids = Cardinality(Articles) /\ ids \in 0 .. MaxIds /\ requests = 0
      /\ 0 \in 0 .. MaxRequests /\ 1 \in 1 .. MaxTime /\ now = 1
  BY Sizes, CommunityAssumption DEF Init, MaxIds
<1>4. \A r \in Slots : req[r] = Free
  BY DEF Init
<1>5. FrontendsTypeOK
  BY DEF Init, FrontendsInit, FrontendsTypeOK
<1>6. TypeOK
  <2>1. /\ req \in [Slots -> Request]
        /\ articles \in [Articles -> [id : {0} \cup Ids, rev : Nat, at : 0 .. MaxTime]]
        /\ reader \in [Articles -> [tag : Nat \X (0 .. MaxTime), rev : Nat]]
    <3>1. articles \in [Articles -> [id : {0} \cup Ids, rev : Nat, at : 0 .. MaxTime]]
      BY <1>1, <1>2, CommunityAssumption
    <3>2. <<0, 0>> \in Nat \X (0 .. MaxTime)
      BY SlugType
    <3>3. reader \in [Articles -> [tag : Nat \X (0 .. MaxTime), rev : Nat]]
      BY <3>2 DEF Init
    <3> QED
      BY <3>1, <3>3, FreeType DEF Init
  <2> QED
    BY <1>3, <1>5, <2>1 DEF Init, TypeOK
<1>7. Found
  BY <1>4, FreeFound DEF Found
<1>8. IdsLeft
  <2>1. Opening = {}
    BY <1>4, FreeType DEF Opening
  <2> QED
    BY <1>1, <1>2, <1>3, <2>1, Sizes, FS_EmptySet DEF IdsLeft
<1>9. Counted
  BY DEF Init, Counted, OwnIds
<1>10. RemarksBelong
  BY DEF Init, RemarksBelong
<1>11. Follows
  BY DEF Init, FrontendsInit, Follows, FollowsAt
<1>12. Tags
  BY <1>1, <1>2, <1>3, Sizes DEF Init, Tags, TagAt, Exists
<1> QED
  BY <1>6, <1>7, <1>8, <1>9, <1>10, <1>11, <1>12 DEF Inv, State

LEMMA NextInv == Inv /\ [Next]_vars => Inv'
<1> SUFFICES ASSUME Inv, [Next]_vars PROVE Inv'
  OBVIOUS
<1>1. ASSUME NEW r \in Slots, Arrival(r) PROVE Inv'
  BY <1>1, RemarkArrives, EditArrives, CreateArticleInv, DiscussionArrives, OnDiscussionArrives
     DEF Arrival
<1>2. ASSUME NEW r \in Slots, Handling(r) PROVE Inv'
  BY <1>2, WriteCommentInv, WriteRatingInv, DeleteRatingInv, ReadBackInv, PurgeInv, WriteTextInv,
     DeleteArticleInv, RenderInv, InsertDiscussionInv, InsertReplyInv, CountReplyInv,
     DeleteDiscussionInv
     DEF Handling
<1>3. ASSUME NEW a \in Articles, SaveRendered(a) \/ GetArticle(a) PROVE Inv'
  BY <1>3, SaveRenderedInv, GetArticleInv
<1>4. CASE UNCHANGED vars
  <2>1. UNCHANGED <<shown, frontends, rest>>
    BY <1>4 DEF vars
  <2>2. TypeOK'
    BY <2>1 DEF Inv, State, TypeOK, FrontendsTypeOK, frontends, rest, tables
  <2>3. State' /\ Counted'
    BY <2>1, <2>2, SameRequests DEF rest, tables
  <2>4. RemarksBelong'
    BY <2>1, KeepsRemarks DEF Inv, rest, tables
  <2>5. Follows'
    BY <2>1 DEF Inv, Follows, FollowsAt, Announced, PurgeUnderWay, frontends, rest
  <2>6. Tags'
    BY <2>1 DEF Inv, Tags, TagAt, Exists, rest, tables
  <2> QED
    BY <2>3, <2>4, <2>5, <2>6 DEF Inv
<1> QED
  BY <1>1, <1>2, <1>3, <1>4, FrontendsInv, CompiledInv, TickInv DEF Next

LEMMA Invariance == Spec => []Inv
BY InitInv, NextInv, PTL DEF Spec

(* Every request, row, page and copy stays of its type: a request never asks    *)
(* for a row that was not inserted, and no row gets an id beyond the rows made. *)
THEOREM Types == Spec => []TypeOK
<1>1. Inv => TypeOK
  BY DEF Inv, State
<1> QED
  BY <1>1, Invariance, PTL

(* The counter of a discussion is the number of its replies but for those on    *)
(* their way to it or whose UPDATE failed (content/discussions.go).             *)
THEOREM RepliesAreCounted == Spec => []RepliesCounted
<1>1. Inv => RepliesCounted
  BY DEF Inv, Counted, CountedAt, Counting, RepliesCounted
<1> QED
  BY <1>1, Invariance, PTL

(* Comments and votes do not outlive their article (the foreign keys).          *)
THEOREM RemarksOfArticles == Spec => []RemarksBelong
<1>1. Inv => RemarksBelong
  BY DEF Inv
<1> QED
  BY <1>1, Invariance, PTL

(* An old page in a frontend is being announced; or the purge was lost, or      *)
(* overtaken by a fetch, or there is none: after a restore, after a write that  *)
(* was answered 500 because its row could not be read back, after a compile,    *)
(* and for what merely includes the changed article (api/revalidate.go).        *)
THEOREM PagesAreFollowed == Spec => []PagesFollow
<1>1. Inv => PagesFollow
  BY DEF Inv, Follows, FollowsAt, Announced, ToAnnounce, PagesFollow, Behind
<1> QED
  BY <1>1, Invariance, PTL

(* A 304 leaves the browser the current text, unless that changed twice within  *)
(* one second (getArticle in api/articles.go).                                  *)
THEOREM TagsAreOfTexts == Spec => []NotModifiedHolds
<1>1. Inv => NotModifiedHolds
  <2> SUFFICES ASSUME Inv, NEW a \in Articles \ hurried, Exists(a), reader[a].tag = ETag(a)
               PROVE  reader[a].rev = articles[a].rev
    BY DEF NotModifiedHolds
  <2>1. reader[a].tag[1] = articles[a].id /\ reader[a].tag[2] = articles[a].at
    BY DEF ETag
  <2> QED
    BY <2>1 DEF Inv, Tags, TagAt
<1> QED
  BY <1>1, Invariance, PTL

=============================================================================

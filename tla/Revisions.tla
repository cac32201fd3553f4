------------------------------ MODULE Revisions ------------------------------
(***************************************************************************)
(* The revision history of articles and the transactions that write it.    *)
(*                                                                         *)
(*   internal/content/revisions.go   diffs, snapshots, rebuilding          *)
(*   internal/content/articles.go    create, update, restore, delete       *)
(*   internal/core/db/db.go          the connection pool                   *)
(*                                                                         *)
(* Every save appends a row to article_revisions: the whole content (a     *)
(* snapshot) or a diff against the content it replaces.  A transaction     *)
(* keeps one of the pool's connections and, from SELECT ... FOR UPDATE     *)
(* on, the lock of its article's row.  A diff is reduced to the pair of    *)
(* contents it was computed from; it applies to the first and yields the   *)
(* second, and it fails on anything else.                                  *)
(***************************************************************************)
EXTENDS Integers, Sequences, FiniteSets

CONSTANTS
    Articles,        \* (type, slug) pairs: handlers address articles by these
    Writers,         \* HTTP handlers that may run at the same time
    Contents,
    Titles,
    Bulky,           \* <<old, new>> whose diff is longer than 70% of new
    SnapshotEveryN,
    Connections,     \* db.SetMaxOpenConns
    Ops,             \* the requests the handlers receive
    MaxSeq,          \* bound: revisions of an article that still gets requests
    Nothing          \* not a content

AllOps == {"create", "update", "restore", "delete"}

ASSUME RevisionsAssumption ==
    /\ Bulky \subseteq Contents \X Contents
    /\ SnapshotEveryN \in Nat \ {0}
    /\ Connections \in Nat \ {0}
    /\ Ops \subseteq AllOps
    /\ MaxSeq \in Nat \ {0}
    /\ Nothing \notin Contents

VARIABLES
    article,   \* articles: title and content, Absent without a row
    chain,     \* article_revisions of an article, in the order of seq
    proc,      \* the locals of every handler
    history    \* history: what each revision was saved as

vars == <<article, chain, proc, history>>

Versions == [title : Titles, content : Contents]
Absent == [title |-> Nothing, content |-> Nothing]

(* A row: a snapshot holds `to`, a diff leads from `from` to `to`. *)
Rows == [title : Titles, snapshot : BOOLEAN, from : Contents \cup {Nothing}, to : Contents]

(***************************************************************************)
(* A handler waits for a connection, then for the row lock; a restore      *)
(* then waits for a second connection to load the chain.                   *)
(***************************************************************************)
Busy == [pc      : {"connect", "lock", "chain", "last", "save"},
         op      : AllOps,
         art     : Articles,
         title   : Titles \cup {Nothing},
         content : Contents \cup {Nothing},
         target  : Nat,
         old     : Contents \cup {Nothing},
         seq     : Nat]

Outcomes == {"ok", "error"}
Idle(outcome) == [pc |-> "idle", outcome |-> outcome]

TypeOK ==
    /\ article \in [Articles -> Versions \cup {Absent}]
    /\ chain \in [Articles -> Seq(Rows)]
    /\ proc \in [Writers -> Busy \cup {Idle(o) : o \in Outcomes}]
    /\ history \in [Articles -> Seq(Versions)]

Init ==
    /\ article = [a \in Articles |-> Absent]
    /\ chain = [a \in Articles |-> <<>>]
    /\ proc = [w \in Writers |-> Idle("ok")]
    /\ history = [a \in Articles |-> <<>>]

-----------------------------------------------------------------------------
(* revisions.go *)

(* Mutant: the first revision is not a snapshot. *)
ShouldSnapshotLate(seq, old, new) ==
    seq % SnapshotEveryN = 0 \/ <<old, new>> \in Bulky

ShouldSnapshot(seq, old, new) ==
    seq <= 1 \/ seq % SnapshotEveryN = 0 \/ <<old, new>> \in Bulky

NewRow(seq, old, new, title) ==
    LET snap == ShouldSnapshot(seq, old, new) IN
    [title |-> title, snapshot |-> snap,
     from |-> IF snap THEN Nothing ELSE old, to |-> new]

ApplyPatch(cur, row) == IF cur = row.from THEN row.to ELSE Nothing

(***************************************************************************)
(* RebuildToSeq, for every target at once: the content of the last         *)
(* snapshot at or before it, then one diff after the other.  Nothing when  *)
(* a diff does not apply.                                                  *)
(***************************************************************************)
Rebuilt(revs) ==
    LET content[i \in 0 .. Len(revs)] ==
            IF i = 0 THEN Nothing
            ELSE IF revs[i].snapshot THEN revs[i].to
            ELSE ApplyPatch(content[i - 1], revs[i])
    IN  content

(* What getRevision answers for every seq of an article. *)
Shown(a) ==
    [i \in 1 .. Len(chain[a]) |->
        [title |-> chain[a][i].title, content |-> Rebuilt(chain[a])[i]]]

-----------------------------------------------------------------------------
(* Transactions *)

InTransaction(w) == proc[w].pc \in {"lock", "chain", "last", "save"}
HoldsLock(w) == proc[w].pc \in {"chain", "last", "save"}

ConnectionFree == Cardinality({w \in Writers : InTransaction(w)}) < Connections
Unlocked(a) == \A w \in Writers : HoldsLock(w) => proc[w].art # a

Exists(a) == article[a] # Absent

(* Commit or rollback: the lock and the connection are given back. *)
End(w, outcome) == proc' = [proc EXCEPT ![w] = Idle(outcome)]

(* What a request brings along: an update its text, a restore its target. *)
Arguments ==
    {[op |-> op, title |-> t, content |-> c, target |-> 0] :
        op \in Ops \cap {"create", "update"}, t \in Titles, c \in Contents}
    \cup {[op |-> op, title |-> Nothing, content |-> Nothing, target |-> n] :
        op \in Ops \cap {"restore"}, n \in 1 .. MaxSeq + 1}
    \cup {[op |-> op, title |-> Nothing, content |-> Nothing, target |-> 0] :
        op \in Ops \cap {"delete"}}

Request(w) ==
    /\ proc[w].pc = "idle"
    /\ \E a \in Articles, x \in Arguments :
          /\ x.op # "delete" => Len(chain[a]) < MaxSeq
          /\ proc' = [proc EXCEPT ![w] =
                [pc |-> "connect", op |-> x.op, art |-> a, title |-> x.title,
                 content |-> x.content, target |-> x.target, old |-> Nothing, seq |-> 0]]
    /\ UNCHANGED <<article, chain, history>>

(* db.BeginTx: waits until the pool has a connection. *)
Connect(w) ==
    /\ proc[w].pc = "connect"
    /\ ConnectionFree
    /\ proc' = [proc EXCEPT ![w].pc = "lock"]
    /\ UNCHANGED <<article, chain, history>>

(* CreateArticle: both INSERTs and the commit.  The slug is unique. *)
Create(w) ==
    /\ proc[w].pc = "lock"
    /\ proc[w].op = "create"
    /\ LET a == proc[w].art
           v == [title |-> proc[w].title, content |-> proc[w].content] IN
       IF Exists(a)
       THEN /\ End(w, "error")
            /\ UNCHANGED <<article, chain, history>>
       ELSE /\ article' = [article EXCEPT ![a] = v]
            /\ chain' = [chain EXCEPT ![a] = <<NewRow(1, Nothing, v.content, v.title)>>]
            /\ history' = [history EXCEPT ![a] = <<v>>]
            /\ End(w, "ok")

(* DeleteArticle: the revisions go with the row (ON DELETE CASCADE). *)
Delete(w) ==
    /\ proc[w].pc = "lock"
    /\ proc[w].op = "delete"
    /\ LET a == proc[w].art IN
       /\ Unlocked(a)
       /\ article' = [article EXCEPT ![a] = Absent]
       /\ chain' = [chain EXCEPT ![a] = <<>>]
       /\ history' = [history EXCEPT ![a] = <<>>]
       /\ End(w, IF Exists(a) THEN "ok" ELSE "error")

(* Mutant: a plain SELECT instead of SELECT ... FOR UPDATE. *)
LockShared(w) ==
    /\ proc[w].pc = "lock"
    /\ proc[w].op \in {"update", "restore"}
    /\ LET a == proc[w].art IN
       /\ Exists(a)
       /\ proc[w].op = "update" => article[a].content # proc[w].content
       /\ proc' = [proc EXCEPT
             ![w].pc = IF proc[w].op = "update" THEN "last" ELSE "chain",
             ![w].old = article[a].content]
    /\ UNCHANGED <<article, chain, history>>

(***************************************************************************)
(* SELECT id, content ... FOR UPDATE.  An update that leaves the content   *)
(* as it is sets the title and commits: no revision.                       *)
(***************************************************************************)
Lock(w) ==
    /\ proc[w].pc = "lock"
    /\ proc[w].op \in {"update", "restore"}
    /\ LET a == proc[w].art IN
       /\ Unlocked(a)
       /\ \/ /\ ~Exists(a)
             /\ End(w, "error")
             /\ UNCHANGED article
          \/ /\ Exists(a)
             /\ proc[w].op = "update"
             /\ article[a].content = proc[w].content
             /\ article' = [article EXCEPT ![a].title = proc[w].title]
             /\ End(w, "ok")
          \/ /\ Exists(a)
             /\ proc[w].op = "update" => article[a].content # proc[w].content
             /\ proc' = [proc EXCEPT
                   ![w].pc = IF proc[w].op = "update" THEN "last" ELSE "chain",
                   ![w].old = article[a].content]
             /\ UNCHANGED article
    /\ UNCHANGED <<chain, history>>

(* Mutant: revs[target] instead of revs[target-1]. *)
LoadChainNext(w) ==
    /\ proc[w].pc = "chain"
    /\ ConnectionFree
    /\ LET revs == chain[proc[w].art]
           n == proc[w].target IN
       IF n >= Len(revs)
       THEN End(w, "error")
       ELSE \E c \in Contents :
              /\ c = Rebuilt(revs)[n + 1]
              /\ IF c = proc[w].old
                 THEN End(w, "ok")
                 ELSE proc' = [proc EXCEPT ![w].pc = "last", ![w].content = c,
                                          ![w].title = revs[n].title]
    /\ UNCHANGED <<article, chain, history>>

(***************************************************************************)
(* RestoreRevision reads the chain through db, not tx: a second connection *)
(* of the pool, while the transaction keeps the first.  A target out of    *)
(* range or a diff that does not apply is an error; a target with the      *)
(* content the article has is a success that writes nothing.               *)
(***************************************************************************)
LoadChain(w) ==
    /\ proc[w].pc = "chain"
    /\ ConnectionFree
    /\ LET revs == chain[proc[w].art]
           n == proc[w].target IN
       IF n > Len(revs) \/ Rebuilt(revs)[n] = Nothing
       THEN End(w, "error")
       ELSE \E c \in Contents :
              /\ c = Rebuilt(revs)[n]
              /\ IF c = proc[w].old
                 THEN End(w, "ok")
                 ELSE proc' = [proc EXCEPT ![w].pc = "last", ![w].content = c,
                                          ![w].title = revs[n].title]
    /\ UNCHANGED <<article, chain, history>>

(* Mutant: the query goes through db, as that of a restore does. *)
ReadLastOutside(w) ==
    /\ proc[w].pc = "last"
    /\ ConnectionFree
    /\ proc' = [proc EXCEPT ![w].pc = "save", ![w].seq = Len(chain[proc[w].art]) + 1]
    /\ UNCHANGED <<article, chain, history>>

(* recordRevisionInTx: SELECT seq ... ORDER BY seq DESC LIMIT 1. *)
ReadLast(w) ==
    /\ proc[w].pc = "last"
    /\ proc' = [proc EXCEPT ![w].pc = "save", ![w].seq = Len(chain[proc[w].art]) + 1]
    /\ UNCHANGED <<article, chain, history>>

(* Mutant: a restore resets the history to the target instead. *)
SaveResetting(w) ==
    /\ proc[w].pc = "save"
    /\ LET l == proc[w]
           a == l.art
           v == [title |-> l.title, content |-> l.content]
           kept == IF l.op = "restore" THEN l.target ELSE Len(chain[a])
           row == NewRow(kept + 1, l.old, v.content, v.title) IN
       /\ article' = [article EXCEPT ![a] = v]
       /\ chain' = [chain EXCEPT ![a] = Append(SubSeq(@, 1, kept), row)]
       /\ history' = [history EXCEPT ![a] = Append(SubSeq(@, 1, kept), v)]
       /\ End(w, "ok")

(* ... INSERT, UPDATE articles, COMMIT.  (article_id, seq) is unique. *)
Save(w) ==
    /\ proc[w].pc = "save"
    /\ LET l == proc[w]
           a == l.art
           v == [title |-> l.title, content |-> l.content] IN
       IF l.seq # Len(chain[a]) + 1
       THEN /\ End(w, "error")
            /\ UNCHANGED <<article, chain, history>>
       ELSE /\ article' = [article EXCEPT ![a] = v]
            /\ chain' = [chain EXCEPT ![a] =
                            Append(@, NewRow(l.seq, l.old, v.content, v.title))]
            /\ history' = [history EXCEPT ![a] = Append(@, v)]
            /\ End(w, "ok")

(* The client has gone, a lock wait or the connection timed out: rollback. *)
Fail(w) ==
    /\ proc[w].pc # "idle"
    /\ End(w, "error")
    /\ UNCHANGED <<article, chain, history>>

Step(w) ==
    \/ Connect(w) \/ Create(w) \/ Delete(w) \/ Lock(w)
    \/ LoadChain(w) \/ ReadLast(w) \/ Save(w)

Next == \E w \in Writers : Request(w) \/ Step(w) \/ Fail(w)

Spec == Init /\ [][Next]_vars

(***************************************************************************)
(* database/sql hands out connections, and InnoDB row locks, in the order  *)
(* they were asked for: a handler that could go on again and again does.   *)
(* Requests and failures are the environment's: no fairness.               *)
(***************************************************************************)
FairSpec == Spec /\ \A w \in Writers : SF_vars(Step(w))

-----------------------------------------------------------------------------
(* Properties *)

(***************************************************************************)
(* The history can be relied on: the rows of article_revisions rebuild     *)
(* every revision exactly as it was saved, and the last one is the content *)
(* the article has, whatever updates and restores ran at the same time.    *)
(* (recordRevisionInTx, RebuildToSeq, FOR UPDATE.)                         *)
(***************************************************************************)
HistoryRebuilds ==
    \A a \in Articles :
        /\ Len(chain[a]) = Len(history[a])
        /\ \A i \in 1 .. Len(history[a]) :
              Rebuilt(chain[a])[i] = history[a][i].content
        /\ Exists(a) => article[a].content = history[a][Len(history[a])].content

(***************************************************************************)
(* The same without recursion: every row stands for its revision, and a    *)
(* diff starts from the revision before it.                                *)
(***************************************************************************)
RowStandsFor(row, seq, saved) ==
    /\ row.to = saved[seq].content
    /\ row.title = saved[seq].title
    /\ seq = 1 \/ seq % SnapshotEveryN = 0 => row.snapshot
    /\ ~row.snapshot => seq > 1 /\ row.from = saved[seq - 1].content

ChainLinked ==
    \A a \in Articles :
        /\ Len(chain[a]) = Len(history[a])
        /\ \A i \in 1 .. Len(chain[a]) : RowStandsFor(chain[a][i], i, history[a])
        /\ IF Exists(a)
           THEN chain[a] # <<>> /\ article[a].content = history[a][Len(history[a])].content
           ELSE chain[a] = <<>>

(***************************************************************************)
(* "Rebuild to seq=N" never applies more than SnapshotEveryN - 1 diffs.    *)
(* (ShouldSnapshot.)                                                       *)
(***************************************************************************)
ShortRebuilds ==
    \A a \in Articles : \A i \in 1 .. Len(chain[a]) :
        \E j \in 1 .. i : chain[a][j].snapshot /\ i - j < SnapshotEveryN

(***************************************************************************)
(* "Revert, not reset": as long as an article exists its revisions are     *)
(* only added to, one at a time.  (RestoreRevisionCtx.)                    *)
(***************************************************************************)
AppendOnly ==
    [][\A a \in Articles :
         Exists(a) /\ Exists(a)' =>
             /\ Len(chain[a]) <= Len(chain'[a])
             /\ Len(chain'[a]) <= Len(chain[a]) + 1
             /\ \A i \in 1 .. Len(chain[a]) : chain'[a][i] = chain[a][i]]_vars

(***************************************************************************)
(* The row lock keeps two writers of an article from choosing the same     *)
(* seq: the unique index on (article_id, seq) never rejects a revision.    *)
(***************************************************************************)
SeqsNeverCollide ==
    \A w \in Writers :
        proc[w].pc = "save" => proc[w].seq = Len(chain[proc[w].art]) + 1

(***************************************************************************)
(* What a restore is about to write is the version its target was saved    *)
(* as, not what others have made of the chain since.  (RestoreRevisionCtx.)*)
(***************************************************************************)
RestoresTheTarget ==
    \A w \in Writers :
        proc[w].pc \in {"last", "save"} /\ proc[w].op = "restore" =>
            LET saved == history[proc[w].art] IN
            /\ proc[w].target <= Len(saved)
            /\ saved[proc[w].target] = [title |-> proc[w].title, content |-> proc[w].content]

(***************************************************************************)
(* What the proofs add: a handler that holds the row lock holds it alone   *)
(* and has read the content the article still has; what it is about to     *)
(* save is a version.                                                      *)
(***************************************************************************)
Saving(w) ==
    \/ proc[w].pc \in {"last", "save"}
    \/ proc[w].pc \in {"connect", "lock"} /\ proc[w].op \in {"create", "update"}

LockExclusive ==
    \A w \in Writers :
        /\ HoldsLock(w) =>
              /\ Exists(proc[w].art)
              /\ proc[w].old = article[proc[w].art].content
              /\ \A v \in Writers \ {w} : HoldsLock(v) => proc[v].art # proc[w].art
        /\ Saving(w) => [title |-> proc[w].title, content |-> proc[w].content] \in Versions
        /\ proc[w].pc = "chain" => proc[w].op = "restore"
        /\ proc[w].pc # "idle" /\ proc[w].op = "restore" => proc[w].target > 0

(* A handler saves a content other than the one the article has. *)
SavesAChange ==
    \A w \in Writers : proc[w].pc \in {"last", "save"} => proc[w].content # proc[w].old

(***************************************************************************)
(* The rows and the transactions implement what VersionHistory promises:   *)
(* what getRevision answers "is exactly what articles.content was at that  *)
(* save", a save adds one version, and none is made without a change.      *)
(***************************************************************************)
H == INSTANCE VersionHistory WITH
        past <- [a \in Articles |-> Shown(a)],
        now <- article

KeepsVersions == H!Spec

(***************************************************************************)
(* The pool has run out and the handlers that have its connections wait    *)
(* for each other: restores for a second connection, the others for the    *)
(* row lock of such a restore.                                             *)
(***************************************************************************)
Locked(w) ==
    /\ proc[w].pc = "lock"
    /\ proc[w].op # "create"
    /\ ~Unlocked(proc[w].art)

Wedged ==
    /\ ~ConnectionFree
    /\ \A w \in Writers : InTransaction(w) => proc[w].pc = "chain" \/ Locked(w)

(***************************************************************************)
(* Every request is answered, however short the pool is, unless restores   *)
(* wedge it for good (the code lets them: db.go bounds the pool, nothing   *)
(* bounds the handlers; a client that leaves ends it).  No other handler   *)
(* wedges it: an update takes nothing in its transaction that needs "a     *)
(* separate *sql.DB connection, which would deadlock if held inside the    *)
(* tx", and once a wedge is broken those who waited go on.                 *)
(* (UpdateArticleCtx, RestoreRevisionCtx, SetMaxOpenConns.)                *)
(***************************************************************************)
Served == (\A w \in Writers : []<>(proc[w].pc = "idle")) \/ <>[]Wedged
=============================================================================

--------------------------- MODULE Revisions_proofs ---------------------------
(***************************************************************************)
(* Proofs about Revisions, for every number of articles, handlers and      *)
(* connections and every snapshot interval.                                *)
(***************************************************************************)
EXTENDS Revisions, WellFoundedInduction, TLAPS

Locals == Busy \cup {Idle(o) : o \in Outcomes}

Inv == TypeOK /\ ChainLinked /\ LockExclusive

(* What Inv says of one handler. *)
Exclusive(w) ==
    /\ HoldsLock(w) =>
          /\ Exists(proc[w].art)
          /\ proc[w].old = article[proc[w].art].content
          /\ \A v \in Writers \ {w} : HoldsLock(v) => proc[v].art # proc[w].art
    /\ Saving(w) => [title |-> proc[w].title, content |-> proc[w].content] \in Versions
    /\ proc[w].pc = "chain" => proc[w].op = "restore"
    /\ proc[w].pc # "idle" /\ proc[w].op = "restore" => proc[w].target > 0

(* What Inv says of one article. *)
Linked(a) ==
    /\ Len(chain[a]) = Len(history[a])
    /\ \A i \in 1 .. Len(chain[a]) : RowStandsFor(chain[a][i], i, history[a])
    /\ IF Exists(a)
       THEN chain[a] # <<>> /\ article[a].content = history[a][Len(history[a])].content
       ELSE chain[a] = <<>>

LEMMA Parts ==
    /\ LockExclusive <=> \A w \in Writers : Exclusive(w)
    /\ ChainLinked <=> \A a \in Articles : Linked(a)
BY DEF LockExclusive, Exclusive, ChainLinked, Linked

(* A handler that is not idle has a request. *)
LEMMA AtWork ==
    ASSUME TypeOK, NEW w \in Writers, proc[w].pc # "idle"
    PROVE  proc[w] \in Busy
BY DEF TypeOK, Idle

LEMMA IdleType == \A o \in Outcomes : Idle(o) \in Locals /\ Idle(o).pc = "idle"
BY DEF Locals, Idle

LEMMA NewRowType ==
    ASSUME NEW seq \in Nat, NEW old \in Contents \cup {Nothing},
           NEW new \in Contents, NEW title \in Titles,
           old = Nothing => seq = 1
    PROVE  /\ NewRow(seq, old, new, title) \in Rows
           /\ NewRow(seq, old, new, title).to = new
           /\ NewRow(seq, old, new, title).title = title
           /\ seq = 1 \/ seq % SnapshotEveryN = 0 => NewRow(seq, old, new, title).snapshot
           /\ ~NewRow(seq, old, new, title).snapshot =>
                 seq > 1 /\ NewRow(seq, old, new, title).from = old
<1>1. ShouldSnapshot(seq, old, new) \in BOOLEAN
  BY DEF ShouldSnapshot
<1>2. seq = 1 \/ seq % SnapshotEveryN = 0 => ShouldSnapshot(seq, old, new)
  BY DEF ShouldSnapshot
<1>3. ~ShouldSnapshot(seq, old, new) => seq > 1
  BY DEF ShouldSnapshot
<1> QED
  BY <1>1, <1>2, <1>3 DEF NewRow, Rows

(***************************************************************************)
(* Steps that write no table: what is to be shown is only what the handler *)
(* that moves must satisfy.                                                *)
(***************************************************************************)
LEMMA Move ==
    ASSUME Inv, NEW w \in Writers, NEW l \in Locals,
           proc' = [proc EXCEPT ![w] = l],
           UNCHANGED <<article, chain, history>>,
           Exclusive(w)'
    PROVE  Inv'
<1>1. TypeOK'
  BY DEF Inv, TypeOK, Locals
<1>2. ChainLinked'
  BY DEF Inv, ChainLinked, RowStandsFor, Exists
<1>3. proc'[w] = l /\ \A v \in Writers \ {w} : proc'[v] = proc[v]
  BY DEF Inv, TypeOK
<1>4. ASSUME NEW v \in Writers PROVE Exclusive(v)'
  <2>1. CASE v = w
    BY <2>1
  <2>2. CASE v # w
    <3>1. Exclusive(v)
      BY Parts DEF Inv
    <3>2. HoldsLock(v)' /\ HoldsLock(w)' => proc'[v].art # proc'[w].art
      BY <2>2 DEF Exclusive
    <3> QED
      BY <1>3, <2>2, <3>1, <3>2 DEF Exclusive, HoldsLock, Saving, Exists
  <2> QED
    BY <2>1, <2>2
<1>5. LockExclusive'
  BY <1>4 DEF LockExclusive, Exclusive
<1> QED
  BY <1>1, <1>2, <1>5 DEF Inv

(* In particular a transaction that ends without having written. *)
LEMMA Ends ==
    ASSUME Inv, NEW w \in Writers, NEW o \in Outcomes, End(w, o),
           UNCHANGED <<article, chain, history>>
    PROVE  Inv'
<1>1. proc'[w] = Idle(o)
  BY DEF End, Inv, TypeOK
<1>2. Exclusive(w)'
  BY <1>1, IdleType DEF Exclusive, HoldsLock, Saving
<1> QED
  BY <1>2, IdleType, Move DEF End

(***************************************************************************)
(* Steps that write article a and end the handler: nobody else holds a's   *)
(* row, and the new chain of a is linked.                                  *)
(***************************************************************************)
LEMMA Writes ==
    ASSUME Inv, NEW w \in Writers, NEW o \in Outcomes, End(w, o), TypeOK',
           NEW a \in Articles,
           \A v \in Writers \ {w} : HoldsLock(v) => proc[v].art # a,
           \A b \in Articles \ {a} : /\ article'[b] = article[b]
                                     /\ chain'[b] = chain[b]
                                     /\ history'[b] = history[b],
           Linked(a)'
    PROVE  Inv'
<1>1. proc'[w].pc = "idle" /\ \A v \in Writers \ {w} : proc'[v] = proc[v]
  BY IdleType DEF End, Inv, TypeOK
<1>2. ASSUME NEW b \in Articles PROVE Linked(b)'
  <2>1. CASE b = a
    BY <2>1
  <2>2. CASE b # a
    <3>1. Linked(b)
      BY Parts DEF Inv
    <3> QED
      BY <2>2, <3>1 DEF Linked, Exists, RowStandsFor
  <2> QED
    BY <2>1, <2>2
<1>3. ChainLinked'
  BY <1>2 DEF ChainLinked, Linked
<1>4. ASSUME NEW v \in Writers PROVE Exclusive(v)'
  <2>1. CASE v = w
    BY <1>1, <2>1 DEF Exclusive, HoldsLock, Saving
  <2>2. CASE v # w
    <3>1. Exclusive(v) /\ proc'[v] = proc[v]
      BY <1>1, <2>2, Parts DEF Inv
    <3>2. HoldsLock(v) => proc[v] \in Busy
      BY AtWork DEF Inv, HoldsLock
    <3>3. HoldsLock(v) => article'[proc[v].art] = article[proc[v].art]
      BY <2>2, <3>2 DEF Busy
    <3>4. ~HoldsLock(w)'
      BY <1>1 DEF HoldsLock
    <3>5. \A u \in Writers \ {v} : HoldsLock(u)' => HoldsLock(u) /\ proc'[u] = proc[u]
      BY <1>1, <3>4 DEF HoldsLock
    <3> QED
      BY <3>1, <3>3, <3>5 DEF Exclusive, HoldsLock, Saving, Exists
  <2> QED
    BY <2>1, <2>2
<1>5. LockExclusive'
  BY <1>4 DEF LockExclusive, Exclusive
<1> QED
  BY <1>3, <1>5 DEF Inv

(* The actions. *)

LEMMA InitInv == Init => Inv
<1> SUFFICES ASSUME Init PROVE Inv
  OBVIOUS
<1>1. TypeOK
  BY DEF Init, TypeOK, Outcomes
<1>2. ChainLinked
  BY DEF Init, ChainLinked, Exists
<1>3. LockExclusive
  BY DEF Init, LockExclusive, HoldsLock, Saving, Idle
<1> QED
  BY <1>1, <1>2, <1>3 DEF Inv

LEMMA RequestInv == ASSUME Inv, NEW w \in Writers, Request(w) PROVE Inv'
<1>1. PICK a \in Articles, x \in Arguments :
         proc' = [proc EXCEPT ![w] =
                [pc |-> "connect", op |-> x.op, art |-> a, title |-> x.title,
                 content |-> x.content, target |-> x.target, old |-> Nothing, seq |-> 0]]
  BY DEF Request
<1> DEFINE l == [pc |-> "connect", op |-> x.op, art |-> a, title |-> x.title,
                 content |-> x.content, target |-> x.target, old |-> Nothing, seq |-> 0]
<1>2. /\ x.op \in AllOps
      /\ x.title \in Titles \cup {Nothing}
      /\ x.content \in Contents \cup {Nothing}
      /\ x.target \in Nat
      /\ x.op \in {"create", "update"} => x.title \in Titles /\ x.content \in Contents
      /\ x.op = "restore" => x.target > 0
  BY RevisionsAssumption DEF Arguments, AllOps
<1>3. l \in Locals
  BY <1>2 DEF Locals, Busy
<1>4. proc'[w] = l
  BY <1>1 DEF Inv, TypeOK
<1>5. Exclusive(w)'
  BY <1>2, <1>4 DEF Exclusive, HoldsLock, Saving, Versions
<1> QED
  BY <1>1, <1>3, <1>5, Move DEF Request

LEMMA ConnectInv == ASSUME Inv, NEW w \in Writers, Connect(w) PROVE Inv'
<1> DEFINE l == [proc[w] EXCEPT !.pc = "lock"]
<1>1. proc[w] \in Busy /\ Exclusive(w)
  BY AtWork, Parts DEF Connect, Inv
<1>2. l \in Locals
  BY <1>1 DEF Locals, Busy
<1>3. proc' = [proc EXCEPT ![w] = l] /\ proc'[w] = l
  BY DEF Connect, Inv, TypeOK
<1>4. Exclusive(w)'
  BY <1>1, <1>3 DEF Connect, Exclusive, HoldsLock, Saving, Busy
<1> QED
  BY <1>2, <1>3, <1>4, Move DEF Connect

LEMMA CreateInv == ASSUME Inv, NEW w \in Writers, Create(w) PROVE Inv'
<1>0. PICK a \in Articles : a = proc[w].art
  BY AtWork DEF Create, Inv, Busy
<1> DEFINE v == [title |-> proc[w].title, content |-> proc[w].content]
           row == NewRow(1, Nothing, v.content, v.title)
<1>1. proc[w] \in Busy /\ Exclusive(w)
  BY AtWork, Parts DEF Create, Inv
<1>2. CASE Exists(a)
  BY <1>0, <1>2, Ends DEF Create, Outcomes
<1>3. CASE ~Exists(a)
  <2>1. v \in Versions
    BY <1>0, <1>1 DEF Create, Exclusive, Saving
  <2>2. row \in Rows /\ RowStandsFor(row, 1, <<v>>)
    BY <2>1, NewRowType DEF RowStandsFor, Versions
  <2>3. /\ article' = [article EXCEPT ![a] = v]
        /\ chain' = [chain EXCEPT ![a] = <<row>>]
        /\ history' = [history EXCEPT ![a] = <<v>>]
        /\ End(w, "ok")
    BY <1>0, <1>3 DEF Create
  <2>5. TypeOK'
    BY <2>1, <2>2, <2>3 DEF Inv, TypeOK, End, Outcomes
  <2>6. \A u \in Writers \ {w} : HoldsLock(u) => proc[u].art # a
    BY <1>3 DEF Inv, LockExclusive
  <2>7. article'[a] = v /\ chain'[a] = <<row>> /\ history'[a] = <<v>>
    BY <2>3 DEF Inv, TypeOK
  <2>8. v # Absent
    BY <2>1, RevisionsAssumption DEF Versions, Absent
  <2>9. Linked(a)'
    BY <2>2, <2>7, <2>8 DEF Linked, Exists, RowStandsFor
  <2>10. \A b \in Articles \ {a} : /\ article'[b] = article[b]
                                   /\ chain'[b] = chain[b]
                                   /\ history'[b] = history[b]
    BY <2>3 DEF Inv, TypeOK
  <2> QED
    BY <2>3, <2>5, <2>6, <2>9, <2>10, Writes DEF Outcomes
<1> QED
  BY <1>2, <1>3

LEMMA DeleteInv == ASSUME Inv, NEW w \in Writers, Delete(w) PROVE Inv'
<1>0. PICK a \in Articles : a = proc[w].art
  BY AtWork DEF Delete, Inv, Busy
<1> DEFINE o == IF Exists(a) THEN "ok" ELSE "error"
<1>1. proc[w] \in Busy
  BY AtWork DEF Delete, Inv
<1>3. o \in Outcomes
  BY DEF Outcomes
<1>4. /\ article' = [article EXCEPT ![a] = Absent]
      /\ chain' = [chain EXCEPT ![a] = <<>>]
      /\ history' = [history EXCEPT ![a] = <<>>]
      /\ End(w, o)
      /\ Unlocked(a)
  BY <1>0 DEF Delete
<1>5. TypeOK'
  BY <1>3, <1>4 DEF Inv, TypeOK, End
<1>6. \A u \in Writers \ {w} : HoldsLock(u) => proc[u].art # a
  BY <1>4 DEF Unlocked
<1>7. article'[a] = Absent /\ chain'[a] = <<>> /\ history'[a] = <<>>
  BY <1>4 DEF Inv, TypeOK
<1>8. Linked(a)'
  BY <1>7 DEF Linked, Exists
<1>9. \A b \in Articles \ {a} : /\ article'[b] = article[b]
                                /\ chain'[b] = chain[b]
                                /\ history'[b] = history[b]
  BY <1>4 DEF Inv, TypeOK
<1> QED
  BY <1>3, <1>4, <1>5, <1>6, <1>8, <1>9, Writes

(***************************************************************************)
(* An update that changes the title alone writes a row it does not keep    *)
(* locked; the others take or refuse the lock.                             *)
(***************************************************************************)
LEMMA LockInv == ASSUME Inv, NEW w \in Writers, Lock(w) PROVE Inv'
<1>0. PICK a \in Articles : a = proc[w].art
  BY AtWork DEF Lock, Inv, Busy
<1>1. proc[w] \in Busy /\ Exclusive(w) /\ Unlocked(a)
  BY <1>0, AtWork, Parts DEF Lock, Inv
<1>3. CASE ~Exists(a)
  BY <1>0, <1>3, Ends DEF Lock, Outcomes
<1>4. CASE Exists(a) /\ proc[w].op = "update" /\ article[a].content = proc[w].content
  <2>1. article[a] \in Versions /\ proc[w].title \in Titles
    BY <1>0, <1>1, <1>4 DEF Inv, TypeOK, Exists, Exclusive, Saving, Lock, Versions
  <2>2. article' = [article EXCEPT ![a].title = proc[w].title] /\ End(w, "ok")
    BY <1>0, <1>4 DEF Lock
  <2>3. /\ article' \in [Articles -> Versions \cup {Absent}]
        /\ article'[a].content = article[a].content
        /\ article'[a] \in Versions
    BY <2>1, <2>2 DEF Inv, TypeOK, Versions
  <2>4. TypeOK'
    BY <2>2, <2>3 DEF Lock, Inv, TypeOK, End, Outcomes
  <2>5. article'[a] # Absent
    BY <2>3, RevisionsAssumption DEF Versions, Absent
  <2>6. Linked(a)
    BY Parts DEF Inv
  <2>7. Linked(a)'
    BY <1>4, <2>3, <2>5, <2>6 DEF Linked, Exists, Lock, RowStandsFor
  <2>8. \A b \in Articles \ {a} : /\ article'[b] = article[b]
                                  /\ chain'[b] = chain[b]
                                  /\ history'[b] = history[b]
    BY <2>2 DEF Lock, Inv, TypeOK
  <2>9. \A u \in Writers \ {w} : HoldsLock(u) => proc[u].art # a
    BY <1>1 DEF Unlocked
  <2> QED
    BY <2>2, <2>4, <2>7, <2>8, <2>9, Writes DEF Outcomes
<1>5. CASE Exists(a) /\ (proc[w].op = "update" => article[a].content # proc[w].content)
  <2> DEFINE l == [proc[w] EXCEPT !.pc = IF proc[w].op = "update" THEN "last" ELSE "chain",
                                 !.old = article[a].content]
  <2>1. article[a].content \in Contents
    BY <1>5 DEF Inv, TypeOK, Exists, Versions
  <2>2. l \in Locals
    BY <1>1, <2>1 DEF Locals, Busy
  <2>3. proc' = [proc EXCEPT ![w] = l] /\ UNCHANGED <<article, chain, history>>
    BY <1>0, <1>5 DEF Lock
  <2>4. proc'[w] = l /\ \A v \in Writers \ {w} : proc'[v] = proc[v]
    BY <2>3 DEF Inv, TypeOK
  <2>5. Exclusive(w)'
    BY <1>0, <1>1, <1>5, <2>3, <2>4
      DEF Lock, Exclusive, HoldsLock, Saving, Unlocked, Busy, Exists
  <2> QED
    BY <2>2, <2>3, <2>5, Move
<1> QED
  BY <1>3, <1>4, <1>5

LEMMA LoadChainInv == ASSUME Inv, NEW w \in Writers, LoadChain(w) PROVE Inv'
<1> DEFINE revs == chain[proc[w].art]
           n == proc[w].target
<1>1. proc[w] \in Busy /\ Exclusive(w)
  BY AtWork, Parts DEF LoadChain, Inv
<1>2. CASE End(w, "ok") \/ End(w, "error")
  BY <1>2, Ends DEF LoadChain, Outcomes
<1>3. CASE ~End(w, "ok") /\ ~End(w, "error")
  <2>1. PICK c \in Contents : /\ ~(n > Len(revs))
                             /\ proc' = [proc EXCEPT ![w].pc = "last", ![w].content = c,
                                                     ![w].title = revs[n].title]
    BY <1>3, Zenon DEF LoadChain
  <2>2. revs \in Seq(Rows) /\ n \in Nat /\ n > 0
    BY <1>1 DEF Inv, TypeOK, Busy, LoadChain, Exclusive
  <2>3. revs[n].title \in Titles
    <3>1. n \in 1 .. Len(revs)
      BY <2>1, <2>2
    <3>2. revs[n] \in Rows
      BY <2>2, <3>1
    <3> QED
      BY <3>2 DEF Rows
  <2> DEFINE l == [proc[w] EXCEPT !.pc = "last", !.content = c, !.title = revs[n].title]
  <2>4. l \in Locals
    BY <1>1, <2>3 DEF Locals, Busy
  <2>5. proc' = [proc EXCEPT ![w] = l]
    BY <2>1
  <2>6. proc'[w] = l /\ \A v \in Writers \ {w} : proc'[v] = proc[v]
    BY <2>5 DEF Inv, TypeOK
  <2>7. proc[w].pc = "chain" /\ UNCHANGED <<article, chain, history>>
    BY DEF LoadChain
  <2>8. Exclusive(w)'
    BY <1>1, <2>3, <2>6, <2>7 DEF Exclusive, HoldsLock, Saving, Busy, Exists, Versions
  <2> QED
    BY <2>4, <2>5, <2>7, <2>8, Move
<1> QED
  BY <1>2, <1>3

LEMMA ReadLastInv == ASSUME Inv, NEW w \in Writers, ReadLast(w) PROVE Inv'
<1> DEFINE n == Len(chain[proc[w].art]) + 1
           l == [proc[w] EXCEPT !.pc = "save", !.seq = n]
<1>1. proc[w] \in Busy /\ Exclusive(w)
  BY AtWork, Parts DEF ReadLast, Inv
<1>2. n \in Nat
  BY <1>1 DEF Busy, Inv, TypeOK
<1>3. l \in Locals
  BY <1>1, <1>2 DEF Locals, Busy
<1>4. /\ proc' = [proc EXCEPT ![w] = l]
      /\ proc[w].pc = "last"
      /\ UNCHANGED <<article, chain, history>>
  BY DEF ReadLast
<1>5. proc'[w] = l /\ \A v \in Writers \ {w} : proc'[v] = proc[v]
  BY <1>4 DEF Inv, TypeOK
<1>6. Exclusive(w)'
  BY <1>1, <1>4, <1>5 DEF Exclusive, HoldsLock, Saving, Busy, Exists
<1> QED
  BY <1>3, <1>4, <1>6, Move

LEMMA SaveInv == ASSUME Inv, NEW w \in Writers, Save(w) PROVE Inv'
<1>0. PICK a \in Articles : a = proc[w].art
  BY AtWork DEF Save, Inv, Busy
<1> DEFINE v == [title |-> proc[w].title, content |-> proc[w].content]
           n == Len(chain[a]) + 1
           row == NewRow(n, proc[w].old, v.content, v.title)
<1>1. proc[w] \in Busy /\ Exclusive(w) /\ proc[w].pc = "save"
  BY AtWork, Parts DEF Save, Inv
<1>2. CASE proc[w].seq # n
  BY <1>0, <1>2, Ends DEF Save, Outcomes
<1>3. CASE proc[w].seq = n
  <2>1. v \in Versions /\ Exists(a) /\ proc[w].old = article[a].content
    BY <1>0, <1>1 DEF Exclusive, Saving, HoldsLock
  <2>2. /\ article[a] \in Versions /\ Linked(a)
        /\ chain[a] \in Seq(Rows) /\ history[a] \in Seq(Versions)
    BY <2>1, Parts DEF Inv, TypeOK, Exists
  <2>3. n \in Nat /\ n > 1 /\ Len(history[a]) = n - 1
    BY <2>1, <2>2 DEF Linked
  <2>4. proc[w].old = history[a][n - 1].content /\ proc[w].old \in Contents
    BY <2>1, <2>2, <2>3 DEF Linked, Versions
  <2>5. /\ row \in Rows
        /\ row.to = v.content /\ row.title = v.title
        /\ n = 1 \/ n % SnapshotEveryN = 0 => row.snapshot
        /\ ~row.snapshot => n > 1 /\ row.from = proc[w].old
    <3>1. v.content \in Contents /\ v.title \in Titles
      BY <2>1 DEF Versions
    <3>2. proc[w].old # Nothing
      BY <2>4, RevisionsAssumption
    <3> HIDE DEF v, n
    <3> QED
      BY <2>3, <2>4, <3>1, <3>2, NewRowType
  <2>6. /\ article' = [article EXCEPT ![a] = v]
        /\ chain' = [chain EXCEPT ![a] = Append(@, row)]
        /\ history' = [history EXCEPT ![a] = Append(@, v)]
        /\ End(w, "ok")
    BY <1>0, <1>3 DEF Save
  <2>7. TypeOK'
    BY <2>1, <2>2, <2>5, <2>6 DEF Inv, TypeOK, End, Outcomes
  <2>8. /\ article'[a] = v
        /\ chain'[a] = Append(chain[a], row)
        /\ history'[a] = Append(history[a], v)
    BY <2>6 DEF Inv, TypeOK
  <2>9. Len(chain'[a]) = n /\ Len(history'[a]) = n /\ history'[a][n] = v
    BY <2>1, <2>2, <2>3, <2>5, <2>8
  <2>10. \A i \in 1 .. n - 1 : chain'[a][i] = chain[a][i] /\ history'[a][i] = history[a][i]
    BY <2>1, <2>2, <2>3, <2>5, <2>8
  <2>11. RowStandsFor(chain'[a][n], n, history'[a])
    <3>1. chain'[a][n] = row
      BY <2>2, <2>3, <2>5, <2>8
    <3>2. history'[a][n - 1] = history[a][n - 1]
      BY <2>3, <2>10
    <3> QED
      BY <2>4, <2>5, <2>9, <3>1, <3>2 DEF RowStandsFor
  <2>12. ASSUME NEW i \in 1 .. n - 1 PROVE RowStandsFor(chain'[a][i], i, history'[a])
    <3>1. RowStandsFor(chain[a][i], i, history[a])
      BY <2>2, <2>3 DEF Linked
    <3>2. i > 1 => history'[a][i - 1] = history[a][i - 1]
      BY <2>3, <2>10
    <3> QED
      BY <2>10, <3>1, <3>2 DEF RowStandsFor
  <2>13. \A i \in 1 .. n : RowStandsFor(chain'[a][i], i, history'[a])
    BY <2>3, <2>11, <2>12
  <2>14. v # Absent /\ chain'[a] # <<>>
    BY <2>1, <2>3, <2>9, RevisionsAssumption DEF Versions, Absent
  <2>15. Linked(a)'
    BY <2>8, <2>9, <2>13, <2>14 DEF Linked, Exists, RowStandsFor
  <2>16. \A b \in Articles \ {a} : /\ article'[b] = article[b]
                                   /\ chain'[b] = chain[b]
                                   /\ history'[b] = history[b]
    BY <2>6 DEF Inv, TypeOK
  <2>17. \A u \in Writers \ {w} : HoldsLock(u) => proc[u].art # a
    BY <1>0, <1>1 DEF Exclusive, HoldsLock
  <2> QED
    BY <2>6, <2>7, <2>15, <2>16, <2>17, Writes DEF Outcomes
<1> QED
  BY <1>2, <1>3

LEMMA StutterInv == ASSUME Inv, UNCHANGED vars PROVE Inv'
<1>1. TypeOK'
  BY DEF Inv, TypeOK, vars
<1>2. ChainLinked'
  BY DEF Inv, ChainLinked, vars, RowStandsFor, Exists
<1>3. LockExclusive'
  BY DEF Inv, LockExclusive, vars, HoldsLock, Saving, Exists
<1> QED
  BY <1>1, <1>2, <1>3 DEF Inv

LEMMA NextInv == Inv /\ [Next]_vars => Inv'
<1> SUFFICES ASSUME Inv, [Next]_vars PROVE Inv'
  OBVIOUS
<1>1. CASE UNCHANGED vars
  BY <1>1, StutterInv
<1>2. ASSUME NEW w \in Writers, Request(w) PROVE Inv'
  BY <1>2, RequestInv
<1>3. ASSUME NEW w \in Writers, Fail(w) PROVE Inv'
  BY <1>3, Ends DEF Fail, Outcomes
<1>4. ASSUME NEW w \in Writers, Step(w) PROVE Inv'
  BY <1>4, ConnectInv, CreateInv, DeleteInv, LockInv, LoadChainInv, ReadLastInv, SaveInv DEF Step
<1> QED
  BY <1>1, <1>2, <1>3, <1>4 DEF Next

(* The invariant that carries the theorems below: inductive. *)
THEOREM Invariance == Spec => []Inv
<1> QED
  BY InitInv, NextInv, PTL DEF Spec

(* Type correctness. *)
THEOREM TypeCorrect == Spec => []TypeOK
<1>1. Inv => TypeOK
  BY DEF Inv
<1> QED
  BY <1>1, Invariance, PTL

(***************************************************************************)
(* While a handler holds an article's row nobody else does, and what the   *)
(* handler read under the lock is still what is stored: the diff it is     *)
(* going to save starts from the content it replaces.                      *)
(***************************************************************************)
THEOREM LocksExclude == Spec => []LockExclusive
<1>1. Inv => LockExclusive
  BY DEF Inv
<1> QED
  BY <1>1, Invariance, PTL

(***************************************************************************)
(* The rows of article_revisions stand for the saved revisions, each diff  *)
(* starts from the revision before it, and the last one is what the        *)
(* article holds: no interleaving of updates, restores and deletions       *)
(* breaks a chain.                                                         *)
(***************************************************************************)
THEOREM ChainsStayLinked == Spec => []ChainLinked
<1>1. Inv => ChainLinked
  BY DEF Inv
<1> QED
  BY <1>1, Invariance, PTL

-----------------------------------------------------------------------------
(* Rebuilding: what the recursion over a chain computes. *)

LEMMA Least == ASSUME NEW S \in SUBSET Nat, S # {} PROVE \E m \in S : \A k \in S : m <= k
<1> DEFINE R == {p \in Nat \X Nat : p[1] < p[2]}
<1>1. R = OpToRel(<, Nat)
  BY DEF OpToRel
<1>2. IsWellFoundedOn(R, Nat)
  BY <1>1, NatLessThanWellFounded, Zenon
<1>3. PICK m \in S : \A k \in S : ~(<<k, m>> \in R)
  <2> HIDE DEF R
  <2> QED
    BY <1>2, WFMin, Zenon
<1>4. \A k \in S : k \in Nat /\ ~(k < m)
  BY <1>3
<1> QED
  BY <1>3, <1>4

(* A chain whose rows stand for their revisions. *)
StandsFor(revs, saved) ==
    /\ revs \in Seq(Rows) /\ saved \in Seq(Versions) /\ Len(revs) = Len(saved)
    /\ \A i \in 1 .. Len(revs) : RowStandsFor(revs[i], i, saved)

(* The function of which Rebuilt chooses one. *)
Solves(f, revs) ==
    f = [i \in 0 .. Len(revs) |->
            IF i = 0 THEN Nothing
            ELSE IF revs[i].snapshot THEN revs[i].to
            ELSE ApplyPatch(f[i - 1], revs[i])]

(* There is one: what was saved.  A diff starts from the content before it. *)
LEMMA SavedSolves ==
    ASSUME NEW revs, NEW saved, StandsFor(revs, saved)
    PROVE  Solves([i \in 0 .. Len(revs) |-> IF i = 0 THEN Nothing ELSE saved[i].content], revs)
<1> DEFINE f == [i \in 0 .. Len(revs) |-> IF i = 0 THEN Nothing ELSE saved[i].content]
<1>1. ASSUME NEW i \in 1 .. Len(revs)
      PROVE  f[i] = IF revs[i].snapshot THEN revs[i].to ELSE ApplyPatch(f[i - 1], revs[i])
  <2>1. RowStandsFor(revs[i], i, saved) /\ Len(revs) \in Nat
    BY DEF StandsFor
  <2>2. f[i] = saved[i].content /\ (i > 1 => f[i - 1] = saved[i - 1].content)
    BY <2>1
  <2> HIDE DEF f
  <2> QED
    BY <2>1, <2>2 DEF RowStandsFor, ApplyPatch
<1>2. \A i \in 0 .. Len(revs) : i = 0 \/ i \in 1 .. Len(revs)
  BY DEF StandsFor
<1>3. f = [i \in 0 .. Len(revs) |->
              IF i = 0 THEN Nothing
              ELSE IF revs[i].snapshot THEN revs[i].to
              ELSE ApplyPatch(f[i - 1], revs[i])]
  BY <1>1, <1>2
<1> QED
  BY <1>3 DEF Solves

LEMMA RebuiltSolves ==
    ASSUME NEW revs, NEW f, Solves(f, revs)
    PROVE  Solves(Rebuilt(revs), revs)
BY DEF Solves, Rebuilt

(* And only one, by the smallest seq at which two would differ. *)
LEMMA SolutionsAgree ==
    ASSUME NEW revs \in Seq(Rows), NEW f, NEW g, Solves(f, revs), Solves(g, revs)
    PROVE  \A i \in 0 .. Len(revs) : f[i] = g[i]
<1> DEFINE S == {i \in 0 .. Len(revs) : f[i] # g[i]}
<1>1. SUFFICES ASSUME S # {} PROVE FALSE
  OBVIOUS
<1>2. S \in SUBSET Nat
  OBVIOUS
<1>3. PICK m \in S : \A k \in S : m <= k
  <2> HIDE DEF S
  <2> QED
    BY <1>1, <1>2, Least
<1>4. m \in 0 .. Len(revs) /\ f[m] # g[m]
  BY <1>3
<1>5. m # 0
  BY <1>4 DEF Solves
<1>6. f[m - 1] = g[m - 1]
  <2>1. m - 1 \in 0 .. Len(revs) /\ ~(m <= m - 1)
    BY <1>4, <1>5
  <2> QED
    BY <1>3, <2>1
<1> QED
  BY <1>4, <1>5, <1>6 DEF Solves

(***************************************************************************)
(* Rebuilding a chain gives back what was saved, revision by revision.     *)
(***************************************************************************)
LEMMA RebuiltIsSaved ==
    ASSUME NEW revs, NEW saved, StandsFor(revs, saved), NEW i \in 1 .. Len(revs)
    PROVE  Rebuilt(revs)[i] = saved[i].content
<1> DEFINE f == [k \in 0 .. Len(revs) |-> IF k = 0 THEN Nothing ELSE saved[k].content]
<1>1. i \in 0 .. Len(revs) /\ i # 0 /\ revs \in Seq(Rows)
  BY DEF StandsFor
<1>2. f[i] = saved[i].content
  BY <1>1
<1>3. Solves(f, revs)
  BY SavedSolves
<1> HIDE DEF f
<1>4. Solves(Rebuilt(revs), revs)
  BY <1>3, RebuiltSolves
<1> QED
  BY <1>1, <1>2, <1>3, <1>4, SolutionsAgree

LEMMA InvStandsFor ==
    ASSUME Inv, NEW a \in Articles
    PROVE  StandsFor(chain[a], history[a])
BY DEF Inv, TypeOK, ChainLinked, StandsFor

(***************************************************************************)
(* Every revision can be rebuilt exactly as it was saved, and the last one *)
(* is what the article holds, for chains of every length and whatever the  *)
(* interval between snapshots.                                             *)
(***************************************************************************)
THEOREM EveryRevisionRebuilds == Spec => []HistoryRebuilds
<1>1. ASSUME Inv PROVE HistoryRebuilds
  <2>1. ASSUME NEW a \in Articles
        PROVE  /\ Len(chain[a]) = Len(history[a])
               /\ \A i \in 1 .. Len(history[a]) :
                     Rebuilt(chain[a])[i] = history[a][i].content
    <3>1. StandsFor(chain[a], history[a])
      BY <1>1, InvStandsFor
    <3>2. Len(chain[a]) = Len(history[a])
      BY <3>1 DEF StandsFor
    <3> QED
      BY <3>1, <3>2, RebuiltIsSaved
  <2> QED
    BY <1>1, <2>1 DEF HistoryRebuilds, Inv, ChainLinked
<1> QED
  BY <1>1, Invariance, PTL

LEMMA LastMultiple ==
    ASSUME NEW n \in Nat \ {0}, NEW i \in Nat
    PROVE  \E r \in 0 .. n - 1 : (i - r) % n = 0
<1>1. i = (n * (i \div n)) + (i % n)
  OBVIOUS
<1>2. i \div n \in Nat /\ i % n \in 0 .. n - 1
  OBVIOUS
<1>3. PICK q \in Nat, r \in 0 .. n - 1 : i = (n * q) + r
  BY <1>1, <1>2
<1>4. (n * q) % n = 0
  OBVIOUS
<1>5. i - r = n * q
  <2>1. \A x \in Int : i = x + r => i - r = x
    OBVIOUS
  <2>2. n * q \in Int
    OBVIOUS
  <2> QED
    BY <1>3, <2>1, <2>2
<1> QED
  BY <1>4, <1>5, Zenon

(***************************************************************************)
(* A rebuild never applies more than SnapshotEveryN - 1 diffs: there is a  *)
(* snapshot at the last multiple of the interval, or at the first revision.*)
(***************************************************************************)
THEOREM RebuildsAreShort == Spec => []ShortRebuilds
<1>1. ASSUME Inv PROVE ShortRebuilds
  <2>1. SUFFICES ASSUME NEW a \in Articles, NEW i \in 1 .. Len(chain[a])
                 PROVE  \E j \in 1 .. i : chain[a][j].snapshot /\ i - j < SnapshotEveryN
    BY DEF ShortRebuilds
  <2>2. SnapshotEveryN \in Nat \ {0} /\ i \in Nat /\ i >= 1
    BY RevisionsAssumption
  <2>3. \A j \in 1 .. i : j = 1 \/ j % SnapshotEveryN = 0 => chain[a][j].snapshot
    <3>1. StandsFor(chain[a], history[a]) /\ Len(chain[a]) \in Nat
      BY <1>1, InvStandsFor DEF StandsFor
    <3> QED
      BY <3>1 DEF StandsFor, RowStandsFor
  <2>4. CASE i < SnapshotEveryN
    <3>1. 1 \in 1 .. i /\ i - 1 < SnapshotEveryN
      BY <2>2, <2>4
    <3> QED
      BY <2>3, <3>1
  <2>5. CASE i >= SnapshotEveryN
    <3>1. PICK r \in 0 .. SnapshotEveryN - 1 : (i - r) % SnapshotEveryN = 0
      BY <2>2, LastMultiple
    <3>2. i - r \in 1 .. i /\ i - (i - r) < SnapshotEveryN
      BY <2>2, <2>5
    <3> QED
      BY <2>3, <3>1, <3>2
  <2> QED
    BY <2>2, <2>4, <2>5
<1> QED
  BY <1>1, Invariance, PTL

(***************************************************************************)
(* Who writes a chain: a create of an article that has none, a deletion,   *)
(* and the one handler that holds the row lock, which appends.             *)
(***************************************************************************)
Appends(w, a) ==
    /\ proc[w].pc = "save"
    /\ proc[w].art = a
    /\ proc'[w].pc = "idle"
    /\ \E row \in Rows : chain'[a] = Append(chain[a], row)

Replaces(w, a) ==
    /\ proc[w].pc = "lock"
    /\ ~Exists(a) \/ ~Exists(a)'
    /\ Unlocked(a)
    /\ proc'[w].pc = "idle"

LEMMA ChainWriters ==
    ASSUME Inv, Next, NEW a \in Articles
    PROVE  \/ chain'[a] = chain[a] /\ history'[a] = history[a]
           \/ \E w \in Writers : Appends(w, a) \/ Replaces(w, a)
<1>1. PICK w \in Writers : Request(w) \/ Step(w) \/ Fail(w)
  BY DEF Next
<1>2. CASE Request(w) \/ Fail(w) \/ Connect(w) \/ Lock(w) \/ LoadChain(w) \/ ReadLast(w)
  BY <1>2 DEF Request, Fail, Connect, Lock, LoadChain, ReadLast
<1>3. CASE Create(w) \/ Delete(w) \/ Save(w)
  <2>1. proc[w] \in Busy
    BY <1>3, AtWork DEF Create, Delete, Save, Inv
  <2>2. CASE a # proc[w].art
    BY <1>3, <2>2 DEF Create, Delete, Save, Inv, TypeOK
  <2>3. CASE a = proc[w].art /\ Create(w)
    <3>1. CASE Exists(a)
      BY <2>3, <3>1 DEF Create
    <3>2. CASE ~Exists(a)
      <4>1. proc'[w].pc = "idle"
        BY <2>3, <3>2, IdleType DEF Create, End, Inv, TypeOK, Outcomes
      <4>2. Unlocked(a)
        BY <3>2 DEF Inv, LockExclusive, Unlocked
      <4> QED
        BY <2>3, <3>2, <4>1, <4>2 DEF Create, Replaces
    <3> QED
      BY <3>1, <3>2
  <2>4. CASE a = proc[w].art /\ Delete(w)
    <3>1. proc'[w].pc = "idle"
      BY <2>4, IdleType DEF Delete, End, Inv, TypeOK, Outcomes
    <3>2. Unlocked(a) /\ ~Exists(a)'
      BY <2>4 DEF Delete, Inv, TypeOK, Exists
    <3> QED
      BY <2>4, <3>1, <3>2 DEF Delete, Replaces
  <2>5. CASE a = proc[w].art /\ Save(w)
    <3>1. CASE proc[w].seq # Len(chain[a]) + 1
      BY <2>5, <3>1 DEF Save
    <3>2. CASE proc[w].seq = Len(chain[a]) + 1
      <4> DEFINE row == NewRow(proc[w].seq, proc[w].old, proc[w].content, proc[w].title)
      <4>1. chain' = [chain EXCEPT ![a] = Append(@, row)] /\ End(w, "ok")
        BY <2>5, <3>2 DEF Save
      <4>2. Inv'
        BY <2>5, SaveInv
      <4>3. chain'[a] = Append(chain[a], row)
        BY <4>1 DEF Inv, TypeOK
      <4>4. row \in Rows
        <5>1. chain[a] \in Seq(Rows) /\ chain'[a] \in Seq(Rows)
          BY <4>2 DEF Inv, TypeOK
        <5>2. /\ Len(chain'[a]) = Len(chain[a]) + 1
              /\ chain'[a][Len(chain[a]) + 1] = row
          BY <4>3, <5>1
        <5> QED
          BY <5>1, <5>2
      <4>5. proc'[w].pc = "idle"
        BY <4>1, IdleType DEF End, Inv, TypeOK, Outcomes
      <4> QED
        BY <2>5, <4>3, <4>4, <4>5 DEF Save, Appends
    <3> QED
      BY <3>1, <3>2
  <2> QED
    BY <1>3, <2>2, <2>3, <2>4, <2>5
<1> QED
  BY <1>1, <1>2, <1>3 DEF Step

(* Nobody else does while a handler holds the lock. *)
LEMMA LockKeepsOut ==
    ASSUME Inv, NEW v \in Writers, HoldsLock(v), proc'[v] = proc[v],
           NEW a, a = proc[v].art
    PROVE  \A u \in Writers : ~Appends(u, a) /\ ~Replaces(u, a)
<1>1. ASSUME NEW u \in Writers, HoldsLock(u), proc[u].art = a PROVE u = v
  BY <1>1 DEF Inv, LockExclusive
<1>2. \A u \in Writers : proc[u].pc = "save" => HoldsLock(u)
  BY DEF HoldsLock
<1>3. ~Unlocked(a)
  BY DEF Unlocked
<1>4. proc'[v].pc # "idle"
  BY DEF HoldsLock
<1> QED
  BY <1>1, <1>2, <1>3, <1>4 DEF Appends, Replaces

(***************************************************************************)
(* Two writers never choose the same seq, so the unique index on           *)
(* (article_id, seq) never turns a save down.                              *)
(***************************************************************************)
LEMMA SeqsKept ==
    ASSUME Inv, SeqsNeverCollide, [Next]_vars, NEW v \in Writers, proc'[v].pc = "save"
    PROVE  proc'[v].seq = Len(chain'[proc'[v].art]) + 1
<1>1. CASE UNCHANGED vars
  BY <1>1 DEF vars, SeqsNeverCollide
<1>2. CASE Next
  <2>1. PICK w \in Writers : Request(w) \/ Step(w) \/ Fail(w)
    BY <1>2 DEF Next
  <2>2. CASE proc'[v] = proc[v]
    <3>1. PICK a \in Articles : a = proc[v].art
      BY <2>2, AtWork DEF Inv, Busy
    <3>2. \A u \in Writers : ~Appends(u, a) /\ ~Replaces(u, a)
      BY <2>2, <3>1, LockKeepsOut DEF HoldsLock
    <3>3. chain'[a] = chain[a]
      BY <1>2, <3>2, ChainWriters
    <3> QED
      BY <2>2, <3>1, <3>3 DEF SeqsNeverCollide
  <2>3. CASE proc'[v] # proc[v]
    <3>0. v = w
      BY <2>1, <2>3 DEF Step, Request, Fail, Connect, Create, Delete, Lock, LoadChain,
                        ReadLast, Save, End, Inv, TypeOK
    <3>1. ReadLast(w)
      <4>1. ~Request(w) /\ ~Connect(w) /\ ~Lock(w)
        BY <3>0, AtWork, IdleType DEF Request, Connect, Lock, End, Inv, TypeOK, Outcomes, Busy
      <4>2. ASSUME LoadChain(w) PROVE FALSE
        <5>1. \/ End(w, "ok")
              \/ End(w, "error")
              \/ \E c \in Contents : \E t : proc' = [proc EXCEPT ![w].pc = "last",
                                                ![w].content = c, ![w].title = t]
          BY <4>2, Zenon DEF LoadChain
        <5>2. proc[w] \in Busy
          BY <4>2, AtWork DEF LoadChain, Inv
        <5>3. proc \in [Writers -> Busy \cup {Idle(o) : o \in Outcomes}]
          BY DEF Inv, TypeOK
        <5>4. CASE End(w, "ok") \/ End(w, "error")
          BY <3>0, <5>3, <5>4, IdleType DEF End, Outcomes
        <5>5. CASE \E c \in Contents : \E t : proc' = [proc EXCEPT ![w].pc = "last",
                                                    ![w].content = c, ![w].title = t]
          BY <3>0, <5>2, <5>3, <5>5 DEF Busy
        <5> QED
          BY <5>1, <5>4, <5>5
      <4>3. ~Fail(w) /\ ~Create(w) /\ ~Delete(w) /\ ~Save(w)
        BY <3>0, IdleType DEF Fail, Create, Delete, Save, End, Inv, TypeOK, Outcomes
      <4> QED
        BY <2>1, <4>1, <4>2, <4>3 DEF Step
    <3>2. proc[w] \in Busy
      BY <3>1, AtWork DEF ReadLast, Inv
    <3> QED
      BY <3>0, <3>1, <3>2 DEF ReadLast, Inv, TypeOK, Busy
  <2> QED
    BY <2>2, <2>3
<1> QED
  BY <1>1, <1>2

THEOREM NoSeqTwice == Spec => []SeqsNeverCollide
<1>1. Init => SeqsNeverCollide
  BY DEF Init, SeqsNeverCollide, Idle
<1>2. Inv /\ SeqsNeverCollide /\ [Next]_vars => SeqsNeverCollide'
  BY SeqsKept DEF SeqsNeverCollide
<1> QED
  BY <1>1, <1>2, Invariance, PTL DEF Spec

(* What RestoresTheTarget says of one writer. *)
RestoreOf(w) ==
    proc[w].pc \in {"last", "save"} /\ proc[w].op = "restore" =>
        LET saved == history[proc[w].art] IN
        /\ proc[w].target <= Len(saved)
        /\ saved[proc[w].target] = [title |-> proc[w].title, content |-> proc[w].content]

LEMMA LoadedIsTarget ==
    ASSUME Inv, NEW w \in Writers, LoadChain(w)
    PROVE  RestoreOf(w)'
<1>1. proc[w] \in Busy /\ proc[w].op = "restore" /\ proc[w].pc = "chain" /\ proc[w].target > 0
  BY AtWork DEF LoadChain, Inv, LockExclusive
<1>2. PICK a \in Articles : a = proc[w].art
  BY <1>1 DEF Busy
<1> DEFINE n == proc[w].target
<1>3. CASE End(w, "ok") \/ End(w, "error")
  <2>1. proc'[w].pc = "idle"
    BY <1>3, IdleType DEF End, Outcomes, Inv, TypeOK
  <2> QED
    BY <2>1 DEF RestoreOf
<1>4. CASE ~End(w, "ok") /\ ~End(w, "error")
  <2>1. /\ ~(n > Len(chain[a]))
        /\ \E c \in Contents :
              /\ c = Rebuilt(chain[a])[n]
              /\ proc' = [proc EXCEPT ![w].pc = "last", ![w].content = c,
                                     ![w].title = chain[a][n].title]
    BY <1>2, <1>4, Zenon DEF LoadChain
  <2>2. PICK c \in Contents :
              /\ c = Rebuilt(chain[a])[n]
              /\ proc' = [proc EXCEPT ![w].pc = "last", ![w].content = c,
                                     ![w].title = chain[a][n].title]
    BY <2>1
  <2>3. StandsFor(chain[a], history[a])
    BY InvStandsFor
  <2>4. n \in 1 .. Len(chain[a]) /\ Len(chain[a]) = Len(history[a])
    BY <1>1, <2>1, <2>3 DEF StandsFor, Busy
  <2>5. c = history[a][n].content
    BY <2>2, <2>3, <2>4, RebuiltIsSaved
  <2>6. chain[a][n].title = history[a][n].title /\ history[a][n] \in Versions
    BY <2>3, <2>4 DEF StandsFor, RowStandsFor
  <2>7. /\ proc'[w].art = a /\ proc'[w].target = n
        /\ proc'[w].content = c /\ proc'[w].title = chain[a][n].title
    BY <1>1, <1>2, <2>2 DEF Inv, TypeOK, Busy
  <2>8. history'[a] = history[a]
    BY DEF LoadChain
  <2>9. history[a][n] = [title |-> proc'[w].title, content |-> proc'[w].content]
    BY <2>5, <2>6, <2>7 DEF Versions
  <2>10. n <= Len(history[a])
    BY <2>4
  <2> QED
    BY <2>7, <2>8, <2>9, <2>10 DEF RestoreOf
<1> QED
  BY <1>3, <1>4

LEMMA TargetsKept ==
    ASSUME Inv, RestoresTheTarget, [Next]_vars, NEW v \in Writers
    PROVE  RestoreOf(v)'
<1>1. RestoreOf(v)
  BY DEF RestoresTheTarget, RestoreOf
<1>2. CASE UNCHANGED vars
  BY <1>1, <1>2 DEF vars, RestoreOf
<1>3. CASE Next /\ proc'[v] = proc[v]
  <2>1. CASE HoldsLock(v)
    <3>1. PICK a \in Articles : a = proc[v].art
      BY <2>1, AtWork DEF Inv, Busy, HoldsLock
    <3>2. \A u \in Writers : ~Appends(u, a) /\ ~Replaces(u, a)
      BY <1>3, <2>1, <3>1, LockKeepsOut
    <3>3. history'[a] = history[a]
      BY <1>3, <3>2, ChainWriters
    <3> QED
      BY <1>1, <1>3, <3>1, <3>3 DEF RestoreOf
  <2>2. CASE ~HoldsLock(v)
    BY <1>3, <2>2 DEF RestoreOf, HoldsLock
  <2> QED
    BY <2>1, <2>2
<1>4. CASE Next /\ proc'[v] # proc[v]
  <2>1. PICK w \in Writers : Request(w) \/ Step(w) \/ Fail(w)
    BY <1>4 DEF Next
  <2>2. v = w
    BY <1>4, <2>1 DEF Step, Request, Fail, Connect, Create, Delete, Lock, LoadChain,
                      ReadLast, Save, End, Inv, TypeOK
  <2>3. CASE LoadChain(w)
    BY <2>2, <2>3, LoadedIsTarget
  <2>4. CASE ReadLast(w)
    <3>1. proc[w] \in Busy
      BY <2>4, AtWork DEF ReadLast, Inv
    <3>2. /\ proc[w].pc = "last" /\ history' = history
          /\ proc' = [proc EXCEPT ![w].pc = "save", ![w].seq = Len(chain[proc[w].art]) + 1]
      BY <2>4 DEF ReadLast
    <3>3. /\ proc'[w].op = proc[w].op /\ proc'[w].art = proc[w].art
          /\ proc'[w].target = proc[w].target
          /\ proc'[w].content = proc[w].content /\ proc'[w].title = proc[w].title
      BY <3>1, <3>2 DEF Inv, TypeOK, Busy
    <3> QED
      BY <1>1, <2>2, <3>2, <3>3 DEF RestoreOf
  <2>5. CASE Lock(w)
    <3>1. CASE proc[w].op = "restore"
      <4>1. proc[w] \in Busy /\ proc[w].pc = "lock"
        BY <2>5, AtWork DEF Lock, Inv
      <4>2. \/ End(w, "error") \/ End(w, "ok")
            \/ proc' = [proc EXCEPT ![w].pc = "chain", ![w].old = article[proc[w].art].content]
        BY <2>5, <3>1 DEF Lock
      <4>3. proc'[w].pc \in {"idle", "chain"}
        BY <4>1, <4>2, IdleType DEF End, Outcomes, Inv, TypeOK, Busy
      <4> QED
        BY <2>2, <4>3 DEF RestoreOf
    <3>2. CASE proc[w].op # "restore"
      <4>1. proc[w] \in Busy /\ proc[w].op = "update"
        BY <2>5, <3>2, AtWork DEF Lock, Inv
      <4>2. \/ End(w, "error") \/ End(w, "ok")
            \/ proc' = [proc EXCEPT ![w].pc = "last", ![w].old = article[proc[w].art].content]
        BY <2>5, <4>1 DEF Lock
      <4>3. CASE End(w, "error") \/ End(w, "ok")
        <5>1. proc'[w].pc = "idle"
          BY <4>3, IdleType DEF End, Outcomes, Inv, TypeOK
        <5> QED
          BY <2>2, <5>1 DEF RestoreOf
      <4>4. CASE proc' = [proc EXCEPT ![w].pc = "last", ![w].old = article[proc[w].art].content]
        <5>1. proc'[w].op = "update"
          BY <4>1, <4>4 DEF Inv, TypeOK, Busy
        <5> QED
          BY <2>2, <5>1 DEF RestoreOf
      <4> QED
        BY <4>2, <4>3, <4>4
    <3> QED
      BY <3>1, <3>2
  <2>6. CASE Connect(w)
    <3>1. proc'[w].pc = "lock"
      BY <2>6, AtWork DEF Connect, Inv, TypeOK, Busy
    <3> QED
      BY <2>2, <3>1 DEF RestoreOf
  <2>7. CASE Request(w)
    <3>1. proc'[w].pc = "connect"
      BY <2>7 DEF Request, Inv, TypeOK
    <3> QED
      BY <2>2, <3>1 DEF RestoreOf
  <2>8. CASE Fail(w) \/ Create(w) \/ Delete(w) \/ Save(w)
    <3>1. End(w, "error") \/ End(w, "ok")
      BY <2>8 DEF Fail, Create, Delete, Save, End
    <3>2. proc'[w].pc = "idle"
      BY <3>1, IdleType DEF End, Outcomes, Inv, TypeOK
    <3> QED
      BY <2>2, <3>2 DEF RestoreOf
  <2> QED
    BY <2>1, <2>3, <2>4, <2>5, <2>6, <2>7, <2>8 DEF Step
<1> QED
  BY <1>2, <1>3, <1>4

(***************************************************************************)
(* A restore writes what its target was saved as: nobody changes the       *)
(* history between the rebuild and the save, and the rebuild is right.     *)
(***************************************************************************)
THEOREM RestoresAreRight == Spec => []RestoresTheTarget
<1>1. Init => RestoresTheTarget
  BY DEF Init, RestoresTheTarget, Idle
<1>2. Inv /\ RestoresTheTarget /\ [Next]_vars => RestoresTheTarget'
  <2>1. ASSUME Inv, RestoresTheTarget, [Next]_vars PROVE \A v \in Writers : RestoreOf(v)'
    BY <2>1, TargetsKept
  <2> QED
    BY <2>1 DEF RestoresTheTarget, RestoreOf
<1> QED
  BY <1>1, <1>2, Invariance, PTL DEF Spec

(***************************************************************************)
(* As long as an article exists its revisions are only added to.           *)
(***************************************************************************)
THEOREM NothingRewritten == Spec => AppendOnly
<1>1. ASSUME Inv, [Next]_vars, NEW a \in Articles, Exists(a), Exists(a)'
      PROVE  /\ Len(chain[a]) <= Len(chain'[a])
             /\ Len(chain'[a]) <= Len(chain[a]) + 1
             /\ \A i \in 1 .. Len(chain[a]) : chain'[a][i] = chain[a][i]
  <2>1. chain[a] \in Seq(Rows)
    BY <1>1 DEF Inv, TypeOK
  <2>2. CASE chain'[a] = chain[a]
    BY <2>1, <2>2
  <2>3. CASE \E row \in Rows : chain'[a] = Append(chain[a], row)
    BY <2>1, <2>3
  <2>4. UNCHANGED vars => chain'[a] = chain[a]
    BY DEF vars
  <2> QED
    BY <1>1, <2>2, <2>3, <2>4, ChainWriters DEF Appends, Replaces
<1>2. Inv /\ [Next]_vars =>
        [\A a \in Articles :
           Exists(a) /\ Exists(a)' =>
             /\ Len(chain[a]) <= Len(chain'[a])
             /\ Len(chain'[a]) <= Len(chain[a]) + 1
             /\ \A i \in 1 .. Len(chain[a]) : chain'[a][i] = chain[a][i]]_vars
  BY <1>1
<1> QED
  BY <1>2, Invariance, PTL DEF Spec, AppendOnly
-----------------------------------------------------------------------------
(* The refinement of VersionHistory. *)

(* What getRevision answers is what was saved. *)
ShowsSaved == [a \in Articles |-> Shown(a)] = history

LEMMA ShownIsSaved == Inv => ShowsSaved
<1> SUFFICES ASSUME Inv PROVE [a \in Articles |-> Shown(a)] = history
  BY DEF ShowsSaved
<1>1. ASSUME NEW a \in Articles PROVE Shown(a) = history[a]
  <2>1. StandsFor(chain[a], history[a])
    BY InvStandsFor
  <2>2. history[a] \in Seq(Versions) /\ Len(history[a]) = Len(chain[a])
    BY <2>1 DEF StandsFor
  <2>3. ASSUME NEW i \in 1 .. Len(chain[a])
        PROVE  [title |-> chain[a][i].title, content |-> Rebuilt(chain[a])[i]] = history[a][i]
    <3>1. history[a][i] \in Versions
      BY <2>2
    <3>2. chain[a][i].title = history[a][i].title
      BY <2>1 DEF StandsFor, RowStandsFor
    <3>3. Rebuilt(chain[a])[i] = history[a][i].content
      BY <2>1, RebuiltIsSaved
    <3> QED
      BY <3>1, <3>2, <3>3 DEF Versions
  <2>4. history[a] = [i \in 1 .. Len(chain[a]) |-> history[a][i]]
    BY <2>2
  <2> QED
    BY <2>3, <2>4 DEF Shown
<1>2. history = [a \in Articles |-> history[a]]
  BY DEF Inv, TypeOK
<1> QED
  BY <1>1, <1>2

(* A handler that comes to save has compared the contents. *)
LEMMA ChangeKept ==
    ASSUME Inv, SavesAChange, NEW w \in Writers, Request(w) \/ Step(w) \/ Fail(w)
    PROVE  SavesAChange'
<1>1. ASSUME NEW l, proc' = [proc EXCEPT ![w] = l],
             l.pc \in {"last", "save"} => l.content # l.old
      PROVE  SavesAChange'
  BY <1>1 DEF Inv, TypeOK, SavesAChange
<1>2. ASSUME NEW o \in Outcomes, End(w, o) PROVE SavesAChange'
  BY <1>1, <1>2, IdleType DEF End
<1>3. CASE Request(w)
  BY <1>3 DEF Request, Inv, TypeOK, SavesAChange
<1>4. CASE Connect(w)
  BY <1>1, <1>4, AtWork DEF Connect, Inv, TypeOK, Busy, SavesAChange
<1>5. CASE Lock(w)
  <2>1. proc[w] \in Busy
    BY <1>5, AtWork DEF Lock, Inv
  <2>2. CASE End(w, "ok") \/ End(w, "error")
    BY <1>2, <2>2 DEF Outcomes
  <2>3. CASE ~End(w, "ok") /\ ~End(w, "error")
    <3> DEFINE l == [proc[w] EXCEPT !.pc = IF proc[w].op = "update" THEN "last" ELSE "chain",
                                   !.old = article[proc[w].art].content]
    <3>1. /\ proc' = [proc EXCEPT ![w] = l]
          /\ proc[w].op = "update" => article[proc[w].art].content # proc[w].content
      BY <1>5, <2>3 DEF Lock
    <3>2. l.pc = (IF proc[w].op = "update" THEN "last" ELSE "chain")
      BY <2>1 DEF Busy
    <3>3. l.content = proc[w].content /\ l.old = article[proc[w].art].content
      BY <2>1 DEF Busy
    <3> HIDE DEF l
    <3> QED
      BY <1>1, <3>1, <3>2, <3>3
  <2> QED
    BY <2>2, <2>3
<1>6. CASE LoadChain(w)
  <2>1. proc[w] \in Busy
    BY <1>6, AtWork DEF LoadChain, Inv
  <2>2. CASE End(w, "ok") \/ End(w, "error")
    BY <1>2, <2>2 DEF Outcomes
  <2>3. CASE ~End(w, "ok") /\ ~End(w, "error")
    <3>1. PICK c \in Contents : \E t :
              /\ c # proc[w].old
              /\ proc' = [proc EXCEPT ![w].pc = "last", ![w].content = c, ![w].title = t]
      BY <1>6, <2>3, Zenon DEF LoadChain
    <3>0. PICK t : proc' = [proc EXCEPT ![w].pc = "last", ![w].content = c, ![w].title = t]
      BY <3>1
    <3> DEFINE l == [proc[w] EXCEPT !.pc = "last", !.content = c, !.title = t]
    <3>2. proc' = [proc EXCEPT ![w] = l]
      BY <3>0
    <3>3. l.content = c /\ l.old = proc[w].old
      BY <2>1 DEF Busy
    <3> HIDE DEF l
    <3> QED
      BY <1>1, <3>1, <3>2, <3>3
  <2> QED
    BY <2>2, <2>3
<1>7. CASE ReadLast(w)
  BY <1>1, <1>7, AtWork DEF ReadLast, Inv, TypeOK, Busy, SavesAChange
<1>8. CASE Create(w) \/ Delete(w) \/ Save(w) \/ Fail(w)
  <2>1. End(w, "ok") \/ End(w, "error")
    BY <1>8 DEF Fail, Create, Delete, Save, End
  <2> QED
    BY <1>2, <2>1 DEF Outcomes
<1> QED
  BY <1>3, <1>4, <1>5, <1>6, <1>7, <1>8 DEF Step

LEMMA Changes == Spec => []SavesAChange
<1>1. Init => SavesAChange
  BY DEF Init, SavesAChange, Idle
<1>2. Inv /\ SavesAChange /\ [Next]_vars => SavesAChange'
  BY ChangeKept DEF Next, vars, SavesAChange
<1> QED
  BY <1>1, <1>2, Invariance, PTL DEF Spec

LEMMA ShownNext == Inv' => ShowsSaved'
BY ShownIsSaved, PTL

(***************************************************************************)
(* Every step is one of VersionHistory's or changes nothing it talks about.*)
(***************************************************************************)
LEMMA HistorySteps ==
    ASSUME Inv, Inv', SavesAChange, NEW w \in Writers, Request(w) \/ Step(w) \/ Fail(w)
    PROVE  H!Next \/ UNCHANGED H!hvars
<1> DEFINE past == [a \in Articles |-> Shown(a)]
<1>1. past = history /\ past' = history'
  BY ShownIsSaved, ShownNext DEF ShowsSaved
<1>2. ASSUME UNCHANGED <<history, article>> PROVE UNCHANGED H!hvars
  BY <1>1, <1>2 DEF H!hvars
<1>3. ASSUME NEW a \in Articles, NEW v \in Versions, ~Exists(a),
             article' = [article EXCEPT ![a] = v], history' = [history EXCEPT ![a] = <<v>>]
      PROVE  H!Create(a)
  BY <1>1, <1>3 DEF H!Create, Exists
<1>4. ASSUME NEW a \in Articles, NEW v \in Versions, Exists(a),
             v.content # article[a].content,
             article' = [article EXCEPT ![a] = v],
             history' = [history EXCEPT ![a] = Append(history[a], v)]
      PROVE  H!Write(a)
  BY <1>1, <1>4 DEF H!Write, Exists
<1>5. ASSUME NEW a \in Articles, NEW v \in Versions, Exists(a),
             v.content = article[a].content,
             article' = [article EXCEPT ![a] = v], history' = history
      PROVE  H!Retitle(a)
  BY <1>1, <1>5 DEF H!Retitle, Exists
<1>6. ASSUME NEW a \in Articles, Exists(a),
             article' = [article EXCEPT ![a] = Absent], history' = [history EXCEPT ![a] = <<>>]
      PROVE  H!Delete(a)
  BY <1>1, <1>6 DEF H!Delete, Exists
<1> HIDE DEF past
<1>7. CASE Request(w) \/ Fail(w) \/ Connect(w) \/ LoadChain(w) \/ ReadLast(w)
  BY <1>2, <1>7 DEF Request, Fail, Connect, LoadChain, ReadLast
<1>8. CASE Create(w) \/ Delete(w) \/ Lock(w) \/ Save(w)
  <2>1. proc[w] \in Busy /\ Exclusive(w)
    BY <1>8, AtWork, Parts DEF Create, Delete, Lock, Save, Inv
  <2>2. PICK a \in Articles : a = proc[w].art
    BY <2>1 DEF Busy
  <2> DEFINE v == [title |-> proc[w].title, content |-> proc[w].content]
  <2>3. proc[w].pc = "save" \/ proc[w].op \in {"create", "update"} => v \in Versions
    BY <1>8, <2>1 DEF Exclusive, Saving, Create, Delete, Lock, Save
  <2>4. CASE Create(w)
    <3>1. CASE Exists(a)
      BY <1>2, <2>2, <2>4, <3>1 DEF Create
    <3>2. CASE ~Exists(a)
      <4>1. H!Create(a)
        BY <1>3, <2>2, <2>3, <2>4, <3>2 DEF Create
      <4> QED
        BY <4>1 DEF H!Next
    <3> QED
      BY <3>1, <3>2
  <2>5. CASE Delete(w)
    <3>1. /\ article' = [article EXCEPT ![a] = Absent]
          /\ history' = [history EXCEPT ![a] = <<>>]
      BY <2>2, <2>5 DEF Delete
    <3>2. CASE Exists(a)
      <4>1. H!Delete(a)
        BY <1>6, <3>1, <3>2
      <4> QED
        BY <4>1 DEF H!Next
    <3>3. CASE ~Exists(a)
      <4>1. history[a] = <<>> /\ article[a] = Absent
        BY <3>3 DEF Inv, ChainLinked, Exists, TypeOK
      <4> QED
        BY <1>2, <3>1, <4>1 DEF Inv, TypeOK
    <3> QED
      BY <3>2, <3>3
  <2>6. CASE Lock(w)
    <3>1. CASE UNCHANGED article
      BY <1>2, <2>6, <3>1 DEF Lock
    <3>2. CASE ~UNCHANGED article
      <4> DEFINE u == [article[a] EXCEPT !.title = proc[w].title]
      <4>1. /\ Exists(a) /\ proc[w].op = "update"
            /\ article' = [article EXCEPT ![a].title = proc[w].title]
            /\ history' = history
        BY <2>2, <2>6, <3>2 DEF Lock
      <4>2. article[a] \in Versions /\ proc[w].title \in Titles
        BY <2>3, <4>1 DEF Exists, Inv, TypeOK, Versions
      <4>3. u \in Versions /\ u.content = article[a].content
        BY <4>2 DEF Versions
      <4>4. H!Retitle(a)
        BY <1>5, <4>1, <4>3
      <4> QED
        BY <4>4 DEF H!Next
    <3> QED
      BY <3>1, <3>2
  <2>7. CASE Save(w)
    <3>1. CASE proc[w].seq # Len(chain[a]) + 1
      BY <1>2, <2>2, <2>7, <3>1 DEF Save
    <3>2. CASE proc[w].seq = Len(chain[a]) + 1
      <4>1. /\ article' = [article EXCEPT ![a] = v]
            /\ history' = [history EXCEPT ![a] = Append(history[a], v)]
        BY <2>2, <2>7, <3>2 DEF Save
      <4>2. Exists(a) /\ proc[w].old = article[a].content
        BY <2>1, <2>2, <2>7 DEF Save, Exclusive, HoldsLock
      <4>3. v.content # article[a].content
        BY <2>7, <4>2 DEF Save, SavesAChange
      <4>4. H!Write(a)
        BY <1>4, <2>3, <2>7, <4>1, <4>2, <4>3 DEF Save
      <4> QED
        BY <4>4 DEF H!Next
    <3> QED
      BY <3>1, <3>2
  <2> QED
    BY <1>8, <2>4, <2>5, <2>6, <2>7
<1> QED
  BY <1>7, <1>8 DEF Step

(***************************************************************************)
(* The rows of article_revisions and the transactions on them implement    *)
(* VersionHistory: whatever is saved, restored or deleted at the same      *)
(* time, getRevision answers for every seq what the article was at that    *)
(* save, versions are only added, and each is a change.                    *)
(***************************************************************************)
THEOREM HistoryKept == Spec => KeepsVersions
<1>1. Init => H!Init
  BY DEF Init, H!Init, Shown
<1>2. Inv /\ Inv' /\ SavesAChange /\ [Next]_vars => [H!Next]_H!hvars
  <2>1. CASE UNCHANGED vars
    BY <2>1 DEF vars, H!hvars, Shown
  <2>2. ASSUME Inv, Inv', SavesAChange, Next PROVE [H!Next]_H!hvars
    BY <2>2, HistorySteps DEF Next
  <2> QED
    BY <2>1, <2>2
<1> QED
  BY <1>1, <1>2, Invariance, Changes, PTL DEF Spec, KeepsVersions, H!Spec
=============================================================================

----------------------------- MODULE Publication -----------------------------
(***************************************************************************)
(* What the typst pipeline promises whoever reads an article, whatever the *)
(* queue, the workers and the crashes do in between: the two places output *)
(* is read from, typst_cache (PDF and HTML) and articles.rendered_html,    *)
(* hold nothing or a complete document, built from committed revisions of  *)
(* the article and of everything it imports, and of an article that still  *)
(* exists.  Nothing is promised about how current the document is.         *)
(***************************************************************************)
EXTENDS TypstBuilds

VARIABLES
    rev,       \* rev[a]: revisions of a ever committed
    gone,      \* articles that have been deleted
    cache,     \* typst_cache
    rendered   \* articles.rendered_html

pvars == <<rev, gone, cache, rendered>>

Committed(b) == \A d \in Articles : b[d] <= rev[d]

Documents(a) == {b \in Builds : Sound(b, a) /\ Committed(b)}

Init ==
    /\ rev \in [Articles -> Revisions]
    /\ gone = {}
    /\ cache = [a \in Articles |-> NoBuild]
    /\ rendered = [a \in Articles |-> NoBuild]

(* A revision is committed; what is published stays. *)
Commit(a) ==
    /\ a \notin gone
    /\ rev[a] < MaxRevision
    /\ rev' = [rev EXCEPT ![a] = @ + 1]
    /\ UNCHANGED <<gone, cache, rendered>>

(* An article is deleted with everything published of it. *)
Remove(a) ==
    /\ a \notin gone
    /\ gone' = gone \cup {a}
    /\ cache' = [cache EXCEPT ![a] = NoBuild]
    /\ rendered' = [rendered EXCEPT ![a] = NoBuild]
    /\ UNCHANGED rev

PublishCache(a) ==
    /\ a \notin gone
    /\ \E b \in Documents(a) : cache' = [cache EXCEPT ![a] = b]
    /\ UNCHANGED <<rev, gone, rendered>>

PublishRendered(a) ==
    /\ a \notin gone
    /\ \E b \in Documents(a) : rendered' = [rendered EXCEPT ![a] = b]
    /\ UNCHANGED <<rev, gone, cache>>

(* Cached documents are withdrawn: a cascade withdraws several at once. *)
Withdraw(S) ==
    /\ cache' = [a \in Articles |-> IF a \in S THEN NoBuild ELSE cache[a]]
    /\ UNCHANGED <<rev, gone, rendered>>

Hide(a) ==
    /\ rendered' = [rendered EXCEPT ![a] = NoBuild]
    /\ UNCHANGED <<rev, gone, cache>>

Next ==
    \/ \E a \in Articles :
          Commit(a) \/ Remove(a) \/ PublishCache(a) \/ PublishRendered(a) \/ Hide(a)
    \/ \E S \in SUBSET Articles : Withdraw(S)

Spec == Init /\ [][Next]_pvars
=============================================================================

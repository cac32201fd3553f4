----------------------------- MODULE TypstBuilds -----------------------------
(***************************************************************************)
(* What a compiled typst document is made of, and when one is sound.       *)
(* internal/typst/resolve.go reads an article and everything it @imports;  *)
(* the result is a function from articles to the revision that was read, 0 *)
(* for an article that is no part of the document.                         *)
(***************************************************************************)
EXTENDS Integers, FiniteSets

CONSTANTS
    Articles,     \* article ids of typst articles
    Imports,      \* Imports[a][r]: the articles that revision r of a imports
    Broken,       \* the <<article, revision>> pairs the typst CLI rejects
    MaxRevision   \* bound: revisions of one article

Revisions == 0 .. MaxRevision

ASSUME BuildsAssumption ==
    /\ MaxRevision \in Nat \ {0}
    /\ Imports \in [Articles -> [Revisions -> SUBSET Articles]]
    /\ Broken \subseteq Articles \X Revisions

Builds == [Articles -> Revisions]
NoBuild == [d \in Articles |-> 0]

Parts(b) == {d \in Articles : b[d] > 0}

(* depIDs: everything a build of a has read, except a itself. *)
Deps(b, a) == Parts(b) \ {a}

Importers(b, d) == {x \in Parts(b) : d \in Imports[x][b[x]]}
Wanted(b) == {d \in Articles : Importers(b, d) # {}}
Unresolved(b) == Wanted(b) \ Parts(b)

(* The imports lead back to the article itself, or run in a circle: every  *)
(* member of some set of dependencies imports a member.                    *)
Cyclic(b, a) ==
    \/ a \in Wanted(b)
    \/ \E S \in SUBSET Deps(b, a) :
          S # {} /\ \A d \in S : Imports[d][b[d]] \cap S # {}

Compilable(b) == \A d \in Parts(b) : <<d, b[d]>> \notin Broken

(* b is a complete document of article a. *)
Sound(b, a) ==
    /\ b \in Builds
    /\ b[a] > 0
    /\ Unresolved(b) = {}
    /\ ~Cyclic(b, a)
    /\ Compilable(b)
=============================================================================

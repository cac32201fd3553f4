--------------------------- MODULE MCTypstQueue ---------------------------
(* Small instances of TypstQueue for TLC. *)
EXTENDS TypstQueue, TLC

CONSTANTS lib, doc

(* doc imports lib; nothing is broken. *)
ChainImports ==
    [a \in Articles |-> [r \in Revisions |->
        IF a = doc THEN {lib} ELSE {}]]
NothingBroken == {}

(* lib and doc come to import each other: doc from its first revision, lib *)
(* from its second.                                                        *)
CyclicImports ==
    [a \in Articles |-> [r \in Revisions |->
        CASE a = doc -> {lib}
          [] a = lib /\ r = 2 -> {doc}
          [] OTHER   -> {}]]

(* The second revision of doc is rejected by the CLI. *)
DocBroken == {<<doc, 2>>}

Symm == Permutations(Workers)
=============================================================================

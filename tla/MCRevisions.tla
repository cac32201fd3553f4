--------------------------- MODULE MCRevisions ---------------------------
(* Small instances of Revisions for TLC. *)
EXTENDS Revisions, TLC

CONSTANTS one, two, three

(* Rewriting one as three is bulkier than three itself. *)
BulkyRewrite == {<<one, three>>}
NothingBulky == {}

Symm == Permutations(Writers)
=============================================================================

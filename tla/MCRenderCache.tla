-------------------------- MODULE MCRenderCache --------------------------
(* Small instances of RenderCache for TLC. *)
EXTENDS RenderCache, TLC

CONSTANTS nav, page

(* page includes nav. *)
ChainIncludes ==
    [a \in Articles |-> [r \in Revisions |->
        IF a = page /\ r > 0 THEN {nav} ELSE {}]]

(* page includes nav from the first revision on, nav includes page from    *)
(* the second, when page's second no longer includes anything.             *)
TurningIncludes ==
    [a \in Articles |-> [r \in Revisions |->
        CASE a = page /\ r = 1 -> {nav}
          [] a = nav /\ r = 2  -> {page}
          [] OTHER             -> {}]]

Symm == Permutations(Handlers)
=============================================================================

----------------------------- MODULE MCAccounts -----------------------------
(* The instance of Accounts that TLC checks: an owner and a user, each in a    *)
(* browser of his own, and a name that is free.                                *)
EXTENDS Accounts, TLC

CONSTANTS root, ann, bob, b1, b2

MCStaff == (root :> "owner") @@ (ann :> "user") @@ (bob :> "none")
MCSignedIn == (b1 :> root) @@ (b2 :> ann)

\* No two API keys share their visible prefix.
MCKeyPrefix == [k \in 1 .. MaxKeys |-> k]

\* Slots hold nothing that tells one from another.
SlotSymmetry == Permutations(Slots)

=============================================================================

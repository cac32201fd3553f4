---------------------------- MODULE VersionHistory ----------------------------
(***************************************************************************)
(* What the revision history promises whoever reads it, whatever diffs,    *)
(* snapshots, locks and transactions do underneath: an article has its     *)
(* version of now and all the versions it was saved as, each of them just  *)
(* as it was then.  A save adds one version and only when the content      *)
(* changes; nothing but the deletion of the article takes one away.        *)
(***************************************************************************)
EXTENDS Naturals, Sequences

CONSTANTS
    Articles,
    Versions,    \* records with a title and a content
    Absent       \* what there is of an article that does not exist

VARIABLES
    past,        \* past[a]: the versions a was saved as, oldest first
    now          \* now[a]: its title and content

hvars == <<past, now>>

Init ==
    /\ past = [a \in Articles |-> <<>>]
    /\ now = [a \in Articles |-> Absent]

Create(a) ==
    /\ now[a] = Absent
    /\ \E v \in Versions :
          /\ now' = [now EXCEPT ![a] = v]
          /\ past' = [past EXCEPT ![a] = <<v>>]

(* An update, or a restore of what may be any version of the past. *)
Write(a) ==
    /\ now[a] # Absent
    /\ \E v \in Versions :
          /\ v.content # now[a].content
          /\ now' = [now EXCEPT ![a] = v]
          /\ past' = [past EXCEPT ![a] = Append(past[a], v)]

(* A change of the title alone makes no version. *)
Retitle(a) ==
    /\ now[a] # Absent
    /\ \E v \in Versions :
          /\ v.content = now[a].content
          /\ now' = [now EXCEPT ![a] = v]
    /\ UNCHANGED past

Delete(a) ==
    /\ now[a] # Absent
    /\ now' = [now EXCEPT ![a] = Absent]
    /\ past' = [past EXCEPT ![a] = <<>>]

Next == \E a \in Articles : Create(a) \/ Write(a) \/ Retitle(a) \/ Delete(a)

Spec == Init /\ [][Next]_hvars
=============================================================================

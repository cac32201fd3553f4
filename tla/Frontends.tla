----------------------------- MODULE Frontends -----------------------------
(***************************************************************************)
(* What the Next.js frontends keep of the pages, and the purges the server *)
(* sends them (internal/api/revalidate.go).  revalidateFrontend starts a   *)
(* goroutine per configured frontend, which POSTs the names of the changed *)
(* page once, with a timeout of five seconds; a failure is logged.  What   *)
(* the frontends do is external: a page is fetched and stored, dropped by  *)
(* a purge, dropped again when its ISR window ends.                        *)
(***************************************************************************)
EXTENDS Naturals

CONSTANTS Clients,  \* FRONTEND_REVALIDATE_URLS
          Pages     \* the pages, by their addresses (the cache tags come to the same)

VARIABLES
    shown,   \* [Pages -> Nat]: how often what the API answers for a page has changed
    copy,    \* [Clients -> [Pages -> Nat]]: the answer kept, 0 for none
    fetch,   \* [Clients -> [Pages -> Nat]]: the answer read and not stored yet
    purges,  \* [Clients -> [Pages -> Nat]]: POSTs under way
    missed   \* copies no purge will drop: history, read by no action

frontends == <<copy, fetch, purges, missed>>

FrontendsTypeOK ==
    /\ shown \in [Pages -> Nat \ {0}]
    /\ copy \in [Clients -> [Pages -> Nat]]
    /\ fetch \in [Clients -> [Pages -> Nat]]
    /\ purges \in [Clients -> [Pages -> Nat]]
    /\ missed \subseteq Clients \X Pages

FrontendsInit ==
    /\ shown = [p \in Pages |-> 1]
    /\ copy = [c \in Clients |-> [p \in Pages |-> 0]]
    /\ fetch = copy
    /\ purges = copy
    /\ missed = {}

Changed(p) == shown' = [shown EXCEPT ![p] = @ + 1]

\* revalidateFrontend.
Revalidate(p) ==
    /\ purges' = [c \in Clients |-> [purges[c] EXCEPT ![p] = @ + 1]]
    /\ UNCHANGED <<copy, fetch, missed>>

\* A change nobody is told of.
Unannounced(p) ==
    /\ missed' = missed \cup (Clients \X {p})
    /\ UNCHANGED <<copy, fetch, purges>>

\* A fetch that has read what was there before the change stores it after the purge.
Deliver(c, p) ==
    /\ purges[c][p] > 0
    /\ purges' = [purges EXCEPT ![c][p] = @ - 1]
    /\ copy' = [copy EXCEPT ![c][p] = 0]
    /\ missed' = IF fetch[c][p] \in {0, shown[p]}
                 THEN missed \ {<<c, p>>} ELSE missed \cup {<<c, p>>}
    /\ UNCHANGED <<shown, fetch>>

\* The frontend is down, or slower than the timeout.
Undelivered(c, p) ==
    /\ purges[c][p] > 0
    /\ purges' = [purges EXCEPT ![c][p] = @ - 1]
    /\ missed' = missed \cup {<<c, p>>}
    /\ UNCHANGED <<shown, copy, fetch>>

Fetch(c, p) ==
    /\ copy[c][p] = 0 /\ fetch[c][p] = 0
    /\ fetch' = [fetch EXCEPT ![c][p] = shown[p]]
    /\ missed' = missed \ {<<c, p>>}
    /\ UNCHANGED <<shown, copy, purges>>

Store(c, p) ==
    /\ fetch[c][p] # 0
    /\ copy' = [copy EXCEPT ![c][p] = fetch[c][p]]
    /\ fetch' = [fetch EXCEPT ![c][p] = 0]
    /\ UNCHANGED <<shown, purges, missed>>

\* The ISR window of the page ends.
Expire(c, p) ==
    /\ copy[c][p] # 0
    /\ copy' = [copy EXCEPT ![c][p] = 0]
    /\ missed' = missed \ {<<c, p>>}
    /\ UNCHANGED <<shown, fetch, purges>>

FrontendsNext ==
    \E c \in Clients, p \in Pages :
        \/ Deliver(c, p) \/ Undelivered(c, p)
        \/ Fetch(c, p) \/ Store(c, p) \/ Expire(c, p)

Behind(c, p) == copy[c][p] \notin {0, shown[p]}
PurgeUnderWay(c, p) == purges[c][p] > 0

=============================================================================

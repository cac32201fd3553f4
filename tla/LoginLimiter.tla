---------------------------- MODULE LoginLimiter ----------------------------
(***************************************************************************)
(* The in-memory limiter of login attempts                                 *)
(* (internal/auth/ratelimit/ratelimit.go).  Every method holds l.mu from   *)
(* its first to its last line, so each is one step; what is not under the  *)
(* lock is the time between the check of an attempt and the record of its  *)
(* failure.  The module has the state and the methods; Accounts calls them *)
(* from the login handlers.                                                *)
(*                                                                         *)
(* One client address: a key "user:name:ip" is the name, the key "ip:ip"   *)
(* is the variable ipFailures.  A record is its second (its count is       *)
(* always 1).                                                              *)
(***************************************************************************)
EXTENDS Naturals, Sequences

CONSTANTS
    Names,                  \* usernames
    MaxTime,                \* bound of the clock, in seconds
    MaxFailuresPerUserIP, MaxFailuresPerIP, \* 5 and 20
    WindowSeconds,          \* 60
    LockoutThreshold,       \* 10
    LockoutDuration         \* 900

ASSUME LimiterAssumption ==
    /\ MaxTime \in Nat \ {0}
    /\ MaxFailuresPerUserIP \in Nat \ {0} /\ MaxFailuresPerIP \in Nat \ {0}
    /\ WindowSeconds \in Nat \ {0}
    /\ LockoutThreshold \in Nat \ {0} /\ LockoutDuration \in Nat \ {0}

VARIABLES
    now,         \* time.Now().Unix()
    failures,    \* [Names -> Seq(second)]: the map's "user:" keys, <<>> when absent
    ipFailures,  \* its "ip:" key
    lockouts     \* [Names -> second the lockout ends, 0 when absent]

limiter == <<failures, ipFailures, lockouts>>

Seconds == 1 .. MaxTime

LimiterTypeOK ==
    /\ failures \in [Names -> Seq(Seconds)]
    /\ ipFailures \in Seq(Seconds)
    /\ lockouts \in [Names -> Nat]

LimiterInit ==
    /\ now = 1
    /\ failures = [n \in Names |-> <<>>]
    /\ ipFailures = <<>>
    /\ lockouts = [n \in Names |-> 0]

\* The records of the last WindowSeconds seconds.
cleanOld(recs) ==
    LET kept[i \in 0 .. Len(recs)] ==
            IF i = 0 THEN <<>>
            ELSE IF recs[i] + WindowSeconds > now THEN Append(kept[i - 1], recs[i])
            ELSE kept[i - 1]
    IN kept[Len(recs)]

Locked(n) == now < lockouts[n]

\* Mutant: only the address is limited.
CheckAllowedByAddress(n) == ~Locked(n) /\ Len(cleanOld(ipFailures)) < MaxFailuresPerIP

CheckAllowed(n) ==
    /\ ~Locked(n)
    /\ Len(cleanOld(ipFailures)) < MaxFailuresPerIP
    /\ Len(cleanOld(failures[n])) < MaxFailuresPerUserIP

\* CheckAllowed stores what cleanOld keeps of the lists it looks at: none under
\* a lockout, and not the user's when the address is over its limit.
Checked(n) ==
    /\ lockouts' = lockouts
    /\ ipFailures' = IF Locked(n) THEN ipFailures ELSE cleanOld(ipFailures)
    /\ failures' = IF Locked(n) \/ Len(cleanOld(ipFailures)) >= MaxFailuresPerIP
                   THEN failures
                   ELSE [failures EXCEPT ![n] = cleanOld(@)]

RecordFailure(n) ==
    LET recs == Append(cleanOld(failures[n]), now)
    IN /\ failures' = [failures EXCEPT ![n] = recs]
       /\ ipFailures' = Append(cleanOld(ipFailures), now)
       /\ lockouts' = IF Len(recs) >= LockoutThreshold
                      THEN [lockouts EXCEPT ![n] = now + LockoutDuration]
                      ELSE lockouts

\* The list of the address is left alone.
Reset(n) ==
    /\ failures' = [failures EXCEPT ![n] = <<>>]
    /\ lockouts' = [lockouts EXCEPT ![n] = 0]
    /\ ipFailures' = ipFailures

\* The sweeper.
Cleanup ==
    /\ failures' = [n \in Names |-> cleanOld(failures[n])]
    /\ ipFailures' = cleanOld(ipFailures)
    /\ lockouts' = [n \in Names |-> IF Locked(n) THEN lockouts[n] ELSE 0]

=============================================================================

------------------------------ MODULE Accounts ------------------------------
(***************************************************************************)
(* Users, sessions, passwords, passkeys and API keys: the handlers of      *)
(* internal/api/{auth,middleware,admin,passkey,apikey}.go over             *)
(* internal/auth/{user,session,passkey,apikey} and the limiter.            *)
(*                                                                         *)
(* A session is a signed cookie (gorilla CookieStore): the server keeps    *)
(* nothing, each request brings the values it was sent with and its answer *)
(* may replace them.  So requests of one browser that overlap work on      *)
(* copies, and the answer that arrives last is the one the browser keeps.  *)
(* A request occupies a slot from the middleware to its answer; each       *)
(* statement of its handler on the database is a step of its own, with     *)
(* whatever other requests do in between.                                  *)
(*                                                                         *)
(* Abstracted: a password, a CSRF token, a captcha, a challenge is right   *)
(* or wrong; names are unique keys; profile texts and listings are left    *)
(* out.  A request the middleware refuses changes what Read changes.       *)
(***************************************************************************)
EXTENDS LoginLimiter, FiniteSets

CONSTANTS
    Root,          \* the name EnsureOwner made an owner at the first start
    Staff,         \* [Names -> role, or "none"]: the accounts there are at the start
    SignedIn,      \* [Browsers -> name or NoName]: the sessions they have
    NoName,
    Browsers, Slots,
    Passkeys,      \* credential ids
    KeyPrefix,     \* [1 .. MaxKeys -> visible prefix] of the API keys made
    MaxKeys,       \* bound: API keys made
    MaxIds,        \* bound: user rows inserted (AUTO_INCREMENT)
    MaxPasswords,  \* bound: passwords generated
    MaxRequests,   \* bound: requests made
    Calls,         \* bound: the kinds of request made
    SessionMaxAge  \* 24 h

\* The accounts there are at the start.
Hired == {n \in Names : Staff[n] # "none"}

ASSUME AccountsAssumption ==
    /\ Root \in Names /\ NoName \notin Names /\ SessionMaxAge \in Nat
    /\ Staff \in [Names -> {"user", "admin", "owner", "none"}] /\ Staff[Root] = "owner"
    /\ SignedIn \in [Browsers -> Hired \cup {NoName}]
    /\ MaxKeys \in Nat /\ MaxIds \in Nat /\ MaxPasswords \in Nat /\ MaxRequests \in Nat
    /\ IsFiniteSet(Hired) /\ Cardinality(Hired) <= MaxIds /\ Cardinality(Hired) <= MaxPasswords
    /\ DOMAIN KeyPrefix = 1 .. MaxKeys
    /\ Browsers # {} /\ Passkeys # {} /\ IsFiniteSet(Slots)

VARIABLES
    users,     \* [Names -> row], NoUser when there is none
    ids,       \* rows inserted so far
    passwords, \* passwords generated so far; a password is its number
    passkeys,  \* [Passkeys -> [id: owner, count: sign_count]], id 0 when absent
    counters,  \* [Passkeys -> Nat]: external, the authenticator's own counter
    keys,      \* Seq of API key rows [id: owner, until: expires_at or 0], id 0 when deleted
    jar,       \* [Browsers -> cookie]
    req,       \* [Slots -> request]
    requests,  \* requests made so far
    \* what people were told and asked for, which no handler reads
    told,      \* passwords some answer showed
    lost,      \* passwords stored by a login that then failed
    granted,   \* [Names -> the role last given to the account]
    blurred,   \* names whose role was given while a profile save of theirs was under way
    ended      \* [1 .. MaxIds -> the second of the last completed kick], 0 for none

store == <<users, ids, passwords, passkeys, counters, keys>>
history == <<told, lost, granted, blurred, ended>>
vars == <<now, limiter, store, jar, req, requests, history>>

Roles == {"user", "admin", "owner"}
IsAdmin(role) == role \in {"admin", "owner"}
IsOwner(role) == role = "owner"

Ids == 0 .. MaxIds
Row == [id : Ids, role : Roles, pw : 0 .. MaxPasswords, reset : BOOLEAN, cut : Nat]
NoUser == [id |-> 0, role |-> "user", pw |-> 0, reset |-> FALSE, cut |-> 0]
Exists(n) == users[n].id # 0
NoPasskey == [id |-> 0, count |-> 0]
NoKey == [id |-> 0, until |-> 0]

\* The values of the cookie; csrf says that it has a token (and so exists).
SessionKeys == {"captcha", "webauthn_reg", "webauthn_login"}
Cookie == [id : Ids, login : Nat, last : Nat, csrf : BOOLEAN, keys : SUBSET SessionKeys]
NoCookie == [id |-> 0, login |-> 0, last |-> 0, csrf |-> FALSE, keys |-> {}]

\* sessions.Login: everything is wiped, the new session is of this second.
NewSession(id) == [id |-> id, login |-> now, last |-> now, csrf |-> TRUE, keys |-> {}]

Nobody == [id |-> 0, name |-> Root, role |-> "nobody"]
Caller == [id : Ids, name : Names, role : Roles \cup {"nobody"}]
Stages == {"free", "answer", "verify", "gate", "rotate", "session", "write", "flag", "bump",
           "save", "assert", "count"}

Operations == {"read", "csrf", "login", "logout", "begin", "register", "passkey", "unregister",
               "newkey", "delkey", "create", "role", "delete", "force", "immediate", "kick",
               "password", "profile"}
AnyBrowser == CHOOSE b \in Browsers : TRUE
AnyPasskey == CHOOSE k \in Passkeys : TRUE

Request == [op : Operations \cup {""}, b : Browsers, by : Caller, mem : Cookie, st : Stages, name : Names,
            role : Roles, pw : 0 .. MaxPasswords, seen : Row, pk : Passkeys, n : Nat,
            out : Seq(Cookie), tell : 0 .. MaxPasswords, ok : BOOLEAN]
Free == [op |-> "", b |-> AnyBrowser, by |-> Nobody, mem |-> NoCookie,
         st |-> "free", name |-> Root, role |-> "user", pw |-> 0, seen |-> NoUser,
         pk |-> AnyPasskey, n |-> 0, out |-> <<>>, tell |-> 0, ok |-> TRUE]

AccountsTypeOK ==
    /\ now \in Seconds
    /\ users \in [Names -> Row]
    /\ ids \in Ids /\ passwords \in 0 .. MaxPasswords
    /\ passkeys \in [Passkeys -> [id : Ids, count : Nat]]
    /\ counters \in [Passkeys -> Nat]
    /\ keys \in Seq([id : Ids, until : Nat])
    /\ jar \in [Browsers -> Cookie]
    /\ req \in [Slots -> Request]
    /\ requests \in 0 .. MaxRequests
    /\ told \subseteq 1 .. MaxPasswords /\ lost \subseteq 1 .. MaxPasswords
    /\ granted \in [Names -> Roles] /\ blurred \subseteq Names
    /\ ended \in [1 .. MaxIds -> Nat]

TypeOK == LimiterTypeOK /\ AccountsTypeOK

\* Rows that exist at the start are numbered from 1, and so is the password of each.
Number == CHOOSE f \in [Hired -> 1 .. Cardinality(Hired)] :
            \A m, n \in Hired : m # n => f[m] # f[n]

\* EnsureOwner has run, and everybody there is knows his password.
Init ==
    /\ LimiterInit
    /\ users = [n \in Names |-> IF n \in Hired
                  THEN [NoUser EXCEPT !.id = Number[n], !.role = Staff[n], !.pw = Number[n]]
                  ELSE NoUser]
    /\ ids = Cardinality(Hired) /\ passwords = Cardinality(Hired)
    /\ passkeys = [k \in Passkeys |-> NoPasskey]
    /\ counters = [k \in Passkeys |-> 0]
    /\ keys = <<>>
    /\ jar = [b \in Browsers |-> IF SignedIn[b] = NoName THEN NoCookie
                                 ELSE NewSession(Number[SignedIn[b]])]
    /\ req = [r \in Slots |-> Free]
    /\ requests = 0
    /\ told = 1 .. passwords /\ lost = {}
    /\ granted = [n \in Names |-> IF n \in Hired THEN Staff[n] ELSE "user"]
    /\ blurred = {}
    /\ ended = [i \in 1 .. MaxIds |-> 0]

-----------------------------------------------------------------------------
(* Who a request is from. *)

AsCaller(n) == [id |-> users[n].id, name |-> n, role |-> users[n].role]

\* Mutant: session_invalidated_at is not looked at.
SessionUserForever(c) ==
    LET ns == {n \in Names : users[n].id = c.id}
    IN IF c.id = 0 \/ now - c.last > SessionMaxAge \/ ns = {}
       THEN Nobody ELSE AsCaller(CHOOSE n \in ns : TRUE)

\* CurrentUserCtx.
SessionUser(c) ==
    LET ns == {n \in Names : users[n].id = c.id}
        n == CHOOSE n \in ns : TRUE
    IN IF \/ c.id = 0 \/ now - c.last > SessionMaxAge \/ ns = {}
          \/ users[n].cut > 0 /\ c.login > 0 /\ users[n].cut > c.login
       THEN Nobody ELSE AsCaller(n)

\* VerifyCtx: the first row with the prefix that has not expired, if the key is its key.
KeyUser(k) ==
    LET rows == {i \in DOMAIN keys : /\ keys[i].id # 0 /\ KeyPrefix[i] = KeyPrefix[k]
                                     /\ keys[i].until = 0 \/ keys[i].until > now}
        ns == {n \in Names : users[n].id = keys[k].id}
    IN IF k \in rows /\ (\A i \in rows : k <= i) /\ ns # {}
       THEN AsCaller(CHOOSE n \in ns : TRUE) ELSE Nobody

\* X-API-Key first, the session when there is no key or it is not good.
ViaKey(k) == k # 0 /\ KeyUser(k) # Nobody
CallerOf(b, k) == IF ViaKey(k) THEN KeyUser(k) ELSE SessionUser(jar[b])

\* A session that names a user and is not honoured is wiped, cookie and all.
Cleared(b, k) == ~ViaKey(k) /\ jar[b].id # 0 /\ SessionUser(jar[b]) = Nobody
ValuesOf(b, k) ==
    IF Cleared(b, k) THEN NoCookie
    ELSE IF ViaKey(k) \/ jar[b].id = 0 THEN jar[b]
    ELSE [jar[b] EXCEPT !.last = now]

\* csrfMiddleware and requireLogin, requireAdmin, requireOwner.
MayPost(b, k, roles) ==
    /\ ViaKey(k) \/ ValuesOf(b, k).csrf
    /\ CallerOf(b, k).role \in roles

\* A request of browser b, with key k or 0, that reached its handler.
Arrived(op, b, k) ==
    LET u == CallerOf(b, k)
    IN [Free EXCEPT !.op = op, !.b = b, !.by = u, !.mem = ValuesOf(b, k), !.st = "answer",
          !.out = IF Cleared(b, k) THEN <<NoCookie>> ELSE <<>>,
          !.ok = ViaKey(k) \/ u = Nobody \/ jar[b].login >= ended[u.id]]

Take(r, q) ==
    /\ q.op \in Calls
    /\ req' = [req EXCEPT ![r] = q]
    /\ requests' = requests + 1
    /\ UNCHANGED <<now, jar>>

\* The handler goes on, or stops at its answer.
Step(r, q) ==
    /\ req' = [req EXCEPT ![r] = q]
    /\ UNCHANGED <<now, jar, requests>>

\* loginError and getCSRF: a token if there is none, a new captcha, saved.
WithCaptcha(m) == [m EXCEPT !.csrf = TRUE, !.keys = @ \cup {"captcha"}]
Refuse(q) == [q EXCEPT !.st = "answer", !.out = <<WithCaptcha(q.mem)>>, !.tell = 0]

\* The answer reaches the browser.  PersistSession runs after the handler wrote
\* its body, when the headers are gone: only what was saved before is in it.
Answer(r) ==
    /\ req[r].st = "answer"
    /\ jar' = IF req[r].out = <<>> THEN jar ELSE [jar EXCEPT ![req[r].b] = req[r].out[1]]
    /\ told' = told \cup ({req[r].tell} \ {0})
    /\ req' = [req EXCEPT ![r] = Free]
    /\ UNCHANGED <<now, limiter, store, requests, lost, granted, blurred, ended>>

-----------------------------------------------------------------------------
(* Requests that write no table. *)

\* GET /auth/csrf.  A wiped session stays wiped: its MaxAge is -1 for this request.
GetCSRF(r, b) ==
    LET q == Arrived("csrf", b, 0)
    IN /\ Take(r, [q EXCEPT !.out = IF Cleared(b, 0) THEN @ ELSE <<WithCaptcha(q.mem)>>])
       /\ UNCHANGED <<limiter, store, history>>

\* Any other read, and any request that is refused.  An answer without a body
\* (304, 204) still has its headers open when PersistSession runs.
Read(r, b, k, bodiless) ==
    LET q == Arrived("read", b, k)
    IN /\ Take(r, [q EXCEPT !.out = IF bodiless /\ jar[b] # NoCookie /\ ~Cleared(b, k)
                                    THEN <<q.mem>> ELSE @])
       /\ UNCHANGED <<limiter, store, history>>

Logout(r, b) ==
    /\ MayPost(b, 0, Roles \cup {"nobody"})
    /\ Take(r, [Arrived("logout", b, 0) EXCEPT !.out = <<NoCookie>>])
    /\ UNCHANGED <<limiter, store, history>>

\* beginPasskeyRegistration, beginPasskeyLogin: the challenge goes into the cookie.
BeginPasskey(r, b, key) ==
    /\ key \in {"webauthn_reg", "webauthn_login"}
    /\ MayPost(b, 0, IF key = "webauthn_reg" THEN Roles ELSE Roles \cup {"nobody"})
    /\ LET q == Arrived("begin", b, 0)
       IN Take(r, [q EXCEPT !.out = <<[q.mem EXCEPT !.keys = @ \cup {key}]>>])
    /\ UNCHANGED <<limiter, store, history>>

-----------------------------------------------------------------------------
(* postLogin. *)

\* The captcha is popped; it was the right answer or not; then the limiter.
Login(r, b, n, p, right) ==
    LET q == Arrived("login", b, 0)
        popped == [q.mem EXCEPT !.keys = @ \ {"captcha"}]
        good == right /\ "captcha" \in q.mem.keys
        next == [q EXCEPT !.name = n, !.pw = p, !.mem = popped]
    IN /\ MayPost(b, 0, Roles \cup {"nobody"})
       /\ p \in told
       /\ Take(r, IF good /\ CheckAllowed(n) THEN [next EXCEPT !.st = "verify"] ELSE Refuse(next))
       /\ IF good THEN Checked(n) ELSE UNCHANGED limiter
       /\ UNCHANGED <<store, history>>

\* GetWithPasswordCtx and the comparison.
VerifyPassword(r) ==
    LET q == req[r] row == users[q.name]
    IN /\ q.op = "login" /\ q.st = "verify"
       /\ IF row.id # 0 /\ row.pw = q.pw
          THEN Step(r, [q EXCEPT !.seen = row, !.st = "gate"]) /\ UNCHANGED limiter
          ELSE Step(r, Refuse(q)) /\ RecordFailure(q.name)
       /\ UNCHANGED <<store, history>>

\* A user with a passkey may not use a password; if the query fails he may.
PasskeyGate(r) ==
    LET q == req[r]
        has == \E k \in Passkeys : passkeys[k].id = q.seen.id
        on == IF q.seen.reset /\ ~IsOwner(q.seen.role) THEN "rotate" ELSE "session"
    IN /\ q.op = "login" /\ q.st = "gate"
       /\ \E failed \in BOOLEAN :
            IF has /\ ~IsOwner(q.seen.role) /\ ~failed
            THEN Step(r, Refuse(q)) /\ RecordFailure(q.name)
            ELSE Step(r, [q EXCEPT !.st = on]) /\ UNCHANGED limiter
       /\ UNCHANGED <<store, history>>

\* Mutant: the new password is not shown.
RotateUnseen(r) ==
    /\ req[r].st = "rotate" /\ passwords < MaxPasswords
    /\ passwords' = passwords + 1
    /\ users' = IF Exists(req[r].name)
                THEN [users EXCEPT ![req[r].name].pw = passwords', ![req[r].name].reset = FALSE]
                ELSE users
    /\ Step(r, [req[r] EXCEPT !.st = "session"])
    /\ UNCHANGED <<limiter, ids, passkeys, counters, keys, history>>

\* RotatePasswordForLoginCtx: no kick.  The row may be gone, which it ignores.
RotateForLogin(r) ==
    LET q == req[r]
    IN /\ q.st = "rotate"
       /\ \/ /\ passwords < MaxPasswords
             /\ passwords' = passwords + 1
             /\ users' = IF Exists(q.name)
                         THEN [users EXCEPT ![q.name].pw = passwords', ![q.name].reset = FALSE]
                         ELSE users
             /\ Step(r, [q EXCEPT !.st = "session", !.tell = passwords'])
          \/ Step(r, Refuse(q)) /\ UNCHANGED <<users, passwords>>
       /\ UNCHANGED <<limiter, ids, passkeys, counters, keys, history>>

\* sessions.Login and Reset; it can fail, after the password was changed.
OpenSession(r) ==
    LET q == req[r]
    IN /\ q.st = "session"
       /\ \/ /\ Step(r, [q EXCEPT !.st = "answer", !.out = <<NewSession(q.seen.id)>>])
             /\ Reset(q.name)
             /\ UNCHANGED lost
          \/ /\ Step(r, IF q.op = "login" THEN Refuse(q) ELSE [q EXCEPT !.st = "answer"])
             /\ lost' = lost \cup ({q.tell} \ {0})
             /\ UNCHANGED limiter
       /\ UNCHANGED <<store, told, granted, blurred, ended>>

-----------------------------------------------------------------------------
(* Passkeys. *)

PasskeyOf(k) == passkeys[k]

\* finishPasskeyRegistration up to the INSERT: the challenge is popped.
FinishRegistration(r, b, k) ==
    LET q == Arrived("register", b, 0)
        m == [q.mem EXCEPT !.keys = @ \ {"webauthn_reg"}]
    IN /\ MayPost(b, 0, Roles) /\ "webauthn_reg" \in q.mem.keys
       /\ Take(r, [q EXCEPT !.mem = m, !.out = <<m>>, !.pk = k, !.st = "save"])
       /\ UNCHANGED <<limiter, store, history>>

\* SaveCredentialCtx: a unique credential of a user that is still there.
SaveCredential(r) ==
    LET q == req[r]
    IN /\ q.op = "register" /\ q.st = "save"
       /\ passkeys' = IF PasskeyOf(q.pk).id = 0 /\ (\E n \in Names : users[n].id = q.by.id)
                      THEN [passkeys EXCEPT ![q.pk] = [id |-> q.by.id, count |-> counters[q.pk]]]
                      ELSE passkeys
       /\ Step(r, [q EXCEPT !.st = "answer"])
       /\ UNCHANGED <<limiter, users, ids, passwords, counters, keys, history>>

\* finishPasskeyLogin: the authenticator signed with its next counter.
FinishPasskeyLogin(r, b, k) ==
    LET q == Arrived("passkey", b, 0)
        m == [q.mem EXCEPT !.keys = @ \ {"webauthn_login"}]
    IN /\ MayPost(b, 0, Roles \cup {"nobody"}) /\ "webauthn_login" \in q.mem.keys
       /\ counters' = [counters EXCEPT ![k] = @ + 1]
       /\ Take(r, [q EXCEPT !.mem = m, !.out = <<m>>, !.pk = k, !.n = counters'[k], !.st = "assert"])
       /\ UNCHANGED <<limiter, users, ids, passwords, passkeys, keys, history>>

\* The resolver loads the credential; the larger count is the one to store.
ValidateAssertion(r) ==
    LET q == req[r] cred == PasskeyOf(q.pk)
    IN /\ q.st = "assert"
       /\ Step(r, IF cred.id = 0 THEN [q EXCEPT !.st = "answer"]
                  ELSE [q EXCEPT !.st = "count", !.n = IF cred.count < @ THEN @ ELSE cred.count])
       /\ UNCHANGED <<limiter, store, history>>

\* The owner is looked up again, the count stored as it was computed.
PersistSignCount(r) ==
    LET q == req[r] cred == PasskeyOf(q.pk)
        n == CHOOSE n \in Names : users[n].id = cred.id
    IN /\ q.st = "count"
       /\ IF cred.id = 0
          THEN Step(r, [q EXCEPT !.st = "answer"]) /\ UNCHANGED passkeys
          ELSE /\ passkeys' = [passkeys EXCEPT ![q.pk].count = q.n]
               /\ Step(r, [q EXCEPT !.st = "session", !.name = n, !.seen = users[n]])
       /\ UNCHANGED <<limiter, users, ids, passwords, counters, keys, history>>

\* deleteMyPasskey (which no token guards), and deleteAnyPasskey of an owner.
DeletePasskey(r, b, k) ==
    LET q == Arrived("unregister", b, 0)
    IN /\ q.by.role \in Roles
       /\ passkeys' = IF PasskeyOf(k).id = q.by.id \/ IsOwner(q.by.role)
                      THEN [passkeys EXCEPT ![k] = NoPasskey] ELSE passkeys
       /\ Take(r, q)
       /\ UNCHANGED <<limiter, users, ids, passwords, counters, keys, history>>

-----------------------------------------------------------------------------
(* API keys: made and deleted by owners. *)

CreateAPIKey(r, b, k, until) ==
    LET q == Arrived("newkey", b, k)
    IN /\ MayPost(b, k, {"owner"}) /\ Len(keys) < MaxKeys
       /\ keys' = Append(keys, [id |-> q.by.id, until |-> until])
       /\ Take(r, q)
       /\ UNCHANGED <<limiter, users, ids, passwords, passkeys, counters, history>>

DeleteAPIKey(r, b, k, i) ==
    LET q == Arrived("delkey", b, k)
    IN /\ MayPost(b, k, {"owner"}) /\ keys[i].id = q.by.id
       /\ keys' = [keys EXCEPT ![i] = NoKey]
       /\ Take(r, q)
       /\ UNCHANGED <<limiter, users, ids, passwords, passkeys, counters, history>>

-----------------------------------------------------------------------------
(* Administration of users. *)

\* The profile saves that have read their caller's role and will write it back.
SavingProfile(n) == \E r \in Slots : /\ req[r].op = "profile" /\ req[r].st = "write"
                                     /\ req[r].by.name = n
Grant(n, role) ==
    /\ granted' = [granted EXCEPT ![n] = role]
    /\ blurred' = IF SavingProfile(n) THEN blurred \cup {n} ELSE blurred \ {n}

\* createUser: one INSERT; a duplicate name is a 409.
CreateUser(r, b, k, n, role) ==
    /\ MayPost(b, k, {"admin", "owner"}) /\ role \in {"user", "admin"}
    /\ ~Exists(n) /\ ids < MaxIds /\ passwords < MaxPasswords
    /\ ids' = ids + 1 /\ passwords' = passwords + 1
    /\ users' = [users EXCEPT ![n] = [id |-> ids', role |-> role, pw |-> passwords',
                                      reset |-> FALSE, cut |-> 0]]
    /\ Grant(n, role)
    /\ Take(r, [Arrived("create", b, k) EXCEPT !.tell = passwords'])
    /\ UNCHANGED <<limiter, passkeys, counters, keys, told, lost, ended>>

\* Mutant: an owner may be the target.
TargetOwners(r, b, k, op, n, role) ==
    LET q == Arrived(op, b, k)
    IN /\ MayPost(b, k, IF op \in {"role", "delete"} THEN {"owner"} ELSE {"admin", "owner"})
       /\ Exists(n)
       /\ Take(r, [q EXCEPT !.name = n, !.role = role, !.seen = users[n],
                            !.st = IF op = "force" THEN "flag" ELSE "write"])
       /\ UNCHANGED <<limiter, store, history>>

\* The handlers that look their target up first: who may call them, what they
\* refuse, and the first statement that writes.
Target(r, b, k, op, n, role) ==
    LET q == Arrived(op, b, k)
    IN /\ MayPost(b, k, IF op \in {"role", "delete"} THEN {"owner"} ELSE {"admin", "owner"})
       /\ Exists(n)
       /\ op \in {"delete", "kick"} => q.by.name # n
       /\ op # "kick" => ~IsOwner(users[n].role)
       /\ Take(r, [q EXCEPT !.name = n, !.role = role, !.seen = users[n],
                            !.st = IF op = "force" THEN "flag" ELSE "write"])
       /\ UNCHANGED <<limiter, store, history>>

\* UPDATE users SET ... WHERE username = n, which may match no row by now.
Update(n, row) == users' = IF Exists(n) THEN [users EXCEPT ![n] = row] ELSE users

\* BumpSessionInvalidatedAtCtx, and the same column in RotatePasswordCtx.
Bumped(row) == [row EXCEPT !.cut = now]
Kicked(n) == ended' = IF Exists(n) THEN [ended EXCEPT ![users[n].id] = now] ELSE ended

\* Mutant: the role that was read is written back.
WriteRoleSeen(r) ==
    LET q == req[r]
    IN /\ q.op = "role" /\ q.st = "write"
       /\ Update(q.name, [users[q.name] EXCEPT !.role = q.seen.role])
       /\ IF Exists(q.name) THEN Grant(q.name, q.role) ELSE UNCHANGED <<granted, blurred>>
       /\ Step(r, [q EXCEPT !.st = "answer"])
       /\ UNCHANGED <<limiter, ids, passwords, passkeys, counters, keys, told, lost, ended>>

WriteRole(r) ==
    LET q == req[r]
    IN /\ q.op = "role" /\ q.st = "write"
       /\ Update(q.name, [users[q.name] EXCEPT !.role = q.role])
       /\ IF Exists(q.name) THEN Grant(q.name, q.role) ELSE UNCHANGED <<granted, blurred>>
       /\ Step(r, [q EXCEPT !.st = "answer"])
       /\ UNCHANGED <<limiter, ids, passwords, passkeys, counters, keys, told, lost, ended>>

\* DeleteCtx: passkeys and API keys go with the row (ON DELETE CASCADE).
WriteDelete(r) ==
    LET q == req[r] id == users[q.name].id
    IN /\ q.op = "delete" /\ q.st = "write"
       /\ users' = [users EXCEPT ![q.name] = NoUser]
       /\ passkeys' = [k \in Passkeys |-> IF passkeys[k].id = id THEN NoPasskey ELSE passkeys[k]]
       /\ keys' = [i \in DOMAIN keys |-> IF keys[i].id = id THEN NoKey ELSE keys[i]]
       /\ Step(r, [q EXCEPT !.st = "answer"])
       /\ UNCHANGED <<limiter, ids, passwords, counters, history>>

\* forceResetUserPassword: the flag, then the kick.
WriteFlag(r) ==
    LET q == req[r]
    IN /\ q.st = "flag"
       /\ Update(q.name, [users[q.name] EXCEPT !.reset = TRUE])
       /\ Step(r, [q EXCEPT !.st = "bump"])
       /\ UNCHANGED <<limiter, ids, passwords, passkeys, counters, keys, history>>

WriteKick(r) ==
    LET q == req[r]
    IN /\ q.st = "bump" \/ (q.op = "kick" /\ q.st = "write")
       /\ Update(q.name, Bumped(users[q.name]))
       /\ Kicked(q.name)
       /\ Step(r, [q EXCEPT !.st = "answer"])
       /\ UNCHANGED <<limiter, ids, passwords, passkeys, counters, keys, told, lost, granted, blurred>>

\* RotatePasswordCtx for immediateResetUserPassword and changeMyPassword; only
\* the first clears the flag.
WriteRotate(r) ==
    LET q == req[r] row == users[q.name]
    IN /\ q.op \in {"immediate", "password"} /\ q.st = "write"
       /\ passwords < MaxPasswords
       /\ passwords' = passwords + 1
       /\ Update(q.name, Bumped([row EXCEPT !.pw = passwords', !.reset = @ /\ q.op = "password"]))
       /\ Kicked(q.name)
       /\ Step(r, [q EXCEPT !.st = "answer", !.tell = passwords'])
       /\ UNCHANGED <<limiter, ids, passkeys, counters, keys, told, lost, granted, blurred>>

-----------------------------------------------------------------------------
(* What users do to their own account. *)

ChangePassword(r, b, k, p) ==
    LET q == Arrived("password", b, k)
    IN /\ MayPost(b, k, Roles) /\ p \in told
       /\ Take(r, [q EXCEPT !.name = q.by.name, !.pw = p, !.st = "verify"])
       /\ UNCHANGED <<limiter, store, history>>

VerifyOld(r) ==
    LET q == req[r]
    IN /\ q.op = "password" /\ q.st = "verify"
       /\ Step(r, [q EXCEPT !.st = IF Exists(q.name) /\ users[q.name].pw = q.pw
                                   THEN "write" ELSE "answer"])
       /\ UNCHANGED <<limiter, store, history>>

\* updateProfile with a nickname writes the role it was called with.
UpdateProfile(r, b, k) ==
    /\ MayPost(b, k, Roles)
    /\ Take(r, [Arrived("profile", b, k) EXCEPT !.st = "write"])
    /\ UNCHANGED <<limiter, store, history>>

WriteProfile(r) ==
    LET q == req[r] n == q.by.name
    IN /\ q.op = "profile" /\ q.st = "write"
       /\ Update(n, [users[n] EXCEPT !.role = q.by.role])
       /\ Step(r, [q EXCEPT !.st = "answer"])
       /\ UNCHANGED <<limiter, ids, passwords, passkeys, counters, keys, history>>

-----------------------------------------------------------------------------

Tick ==
    /\ now < MaxTime /\ now' = now + 1
    /\ UNCHANGED <<limiter, store, jar, req, requests, history>>

Sweep ==
    /\ Cleanup
    /\ UNCHANGED <<now, store, jar, req, requests, history>>

Arrival(r, b) ==
    /\ req[r].st = "free" /\ requests < MaxRequests
    /\ \/ GetCSRF(r, b)
       \/ \E k \in 0 .. Len(keys), bodiless \in BOOLEAN : Read(r, b, k, bodiless)
       \/ Logout(r, b)
       \/ \E key \in SessionKeys : BeginPasskey(r, b, key)
       \/ \E n \in Names, p \in told, right \in BOOLEAN : Login(r, b, n, p, right)
       \/ \E k \in Passkeys : FinishRegistration(r, b, k) \/ FinishPasskeyLogin(r, b, k)
                              \/ DeletePasskey(r, b, k)
       \/ \E k \in 0 .. Len(keys) :
            \/ \E until \in {0, now + 1} : CreateAPIKey(r, b, k, until)
            \/ \E i \in 1 .. Len(keys) : DeleteAPIKey(r, b, k, i)
            \/ \E n \in Names, role \in Roles : CreateUser(r, b, k, n, role)
            \/ \E n \in Names, role \in Roles : Target(r, b, k, "role", n, role)
            \/ \E n \in Names, op \in {"delete", "force", "immediate", "kick"} :
                 Target(r, b, k, op, n, "user")
            \/ \E p \in told : ChangePassword(r, b, k, p)
            \/ UpdateProfile(r, b, k)

Handling(r) ==
    \/ Answer(r)
    \/ VerifyPassword(r) \/ PasskeyGate(r) \/ RotateForLogin(r) \/ OpenSession(r)
    \/ SaveCredential(r) \/ ValidateAssertion(r) \/ PersistSignCount(r)
    \/ WriteRole(r) \/ WriteDelete(r) \/ WriteFlag(r) \/ WriteKick(r) \/ WriteRotate(r)
    \/ VerifyOld(r) \/ WriteProfile(r)

Next ==
    \/ \E r \in Slots : Handling(r) \/ \E b \in Browsers : Arrival(r, b)
    \/ Tick
    \/ Sweep

Spec == Init /\ [][Next]_vars

-----------------------------------------------------------------------------

\* The owner made at the start is an owner for ever: no order of role changes,
\* deletions and profile saves, each deciding on a row read before it writes,
\* takes the role or the row from it.
OwnerRemains == Exists(Root) /\ users[Root].role = "owner"

\* The stored password of every account was shown in an answer or is in one on
\* its way, unless the login that rotated it failed to open its session.
PasswordsReachable ==
    \A n \in Names : Exists(n) =>
        users[n].pw \in told \cup lost \cup {req[r].tell : r \in Slots}

\* Attempts pass the limiter before their failure is counted, so the limit can
\* be passed, but never by more than the other attempts that were under way.
FailuresBounded ==
    \A n \in Names :
        Len(cleanOld(failures[n])) < MaxFailuresPerUserIP + Cardinality(Slots)

\* An account has the role an administrator gave it last, unless a profile save
\* of its user was under way when it was given.
RolesAsGranted ==
    \A n \in Names \ blurred : Exists(n) => users[n].role = granted[n]

\* No request is served on a session opened in an earlier second than the last
\* completed kick or password change of its user.
KicksHold == \A r \in Slots : req[r].ok
=============================================================================
